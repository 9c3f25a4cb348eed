CONSTANTS
  Studied = {
    "default/general", "default/login", "default/domains", "default/smtp", "default/wechat",
    "default/ratio", "default/monitor", "default/other",
    "air/login", "air/domains", "air/pusher",
    "berry/general", "berry/login", "berry/domains", "berry/github", "berry/wechat", "berry/oidc",
    "berry/ratio", "berry/monitor", "berry/notice",
    "console/system", "console/sso"}
  Slots = {1, 2}
  MaxAsked = 3
  MaxTroubles = 1
SPECIFICATION Spec
CHECK_DEADLOCK FALSE
INVARIANTS
  SavedMeansSaved
  SignOnIsComplete
PROPERTIES
  OthersChangesStand
