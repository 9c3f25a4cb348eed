-------------------------- MODULE SettingsSections --------------------------
(***************************************************************************)
(* The sections of the settings pages.  A section is the sequence of its   *)
(* fields, in the order in which its button saves them; of several fields  *)
(* of one rule in a row one or two stand for all, and one of the switches. *)
(* The rule of a field says how it comes to be saved:                      *)
(*                                                                         *)
(*   changed    by the button, if it is not what was loaded                *)
(*   trimmed    the same, without a slash at the end                       *)
(*   filled     the same, but never blank                                  *)
(*   secret     the same, and the server does not send it back             *)
(*   checked    changed, if it is JSON; if not, the button stops there     *)
(*   gated      changed, unless the token of another section was cleared   *)
(*   gate       that token, which this button does not save                *)
(*   stuck      changed, but what is entered is kept elsewhere             *)
(*   always     by the button, whatever it is                              *)
(*   address    the same, without a slash at the end                       *)
(*   typed      like trimmed, but also with every key that is pressed      *)
(*   spelled    like secret, but also with every key that is pressed       *)
(*   switch     when it is clicked; guarded: after a warning               *)
(*   well       changed; what it names fills the fields that are found     *)
(*   found      changed, after it has been looked up                       *)
(*   text       when it is left, changed and not blank                     *)
(*   hidden     the same, and the server does not send it back             *)
(*   area       when it is left and changed                                *)
(*   lookup     like well, but its own button looks it up                  *)
(*   endpoint   text, and saved when it has been looked up                 *)
(*   enable     a switch that needs the client and the endpoints           *)
(***************************************************************************)
\* A section by its name, and sections put together: what module TLC has under
\* these names, which the prover does not know.
name :> rules == [n \in {name} |-> rules]
f @@ g == [n \in DOMAIN f \cup DOMAIN g |-> IF n \in DOMAIN f THEN f[n] ELSE g[n]]

Pair == <<"changed", "secret">>

-----------------------------------------------------------------------------
(* web/default/src/components                                              *)

DefaultGeneral == <<"address">>
DefaultLogin == <<"guarded", "switch">>
DefaultDomains == <<"stuck", "switch">>
DefaultSmtp == <<"changed", "changed", "filled", "secret">>
DefaultGitHub == Pair
DefaultLark == Pair
DefaultWeChat == <<"trimmed", "changed", "secret">>
DefaultTurnstile == Pair
DefaultSystem ==
  "default/general" :> DefaultGeneral @@ "default/domains" :> DefaultDomains
  @@ "default/smtp" :> DefaultSmtp @@ "default/github" :> DefaultGitHub
  @@ "default/lark" :> DefaultLark @@ "default/wechat" :> DefaultWeChat
  @@ "default/turnstile" :> DefaultTurnstile
DefaultSwitches == "default/login" :> DefaultLogin

DefaultQuota == <<"changed", "changed">>
DefaultRatio == <<"checked", "checked">>
DefaultLog == <<"switch">>
DefaultMonitor == <<"changed", "changed", "switch">>
DefaultGeneralOperation == <<"changed", "changed", "switch">>
DefaultOperation ==
  "default/quota" :> DefaultQuota @@ "default/ratio" :> DefaultRatio
  @@ "default/monitor" :> DefaultMonitor @@ "default/operation" :> DefaultGeneralOperation
DefaultOperationSwitches == "default/log" :> DefaultLog

DefaultNotice == <<"always">>
DefaultOther == "default/other" :> DefaultNotice

-----------------------------------------------------------------------------
(* web/air/src/components                                                  *)

AirGeneral == <<"address">>
AirLogin == <<"guarded", "switch">>
AirDomains == <<"gated", "gate", "switch">>
AirSmtp == <<"changed", "changed", "filled", "secret">>
AirGitHub == Pair
AirWeChat == <<"trimmed", "changed", "secret">>
\* The handler of the changes does not know these two, and saves them at once.
AirPusher == <<"typed", "spelled">>
AirTurnstile == Pair
AirSystem ==
  "air/general" :> AirGeneral @@ "air/domains" :> AirDomains @@ "air/smtp" :> AirSmtp
  @@ "air/github" :> AirGitHub @@ "air/wechat" :> AirWeChat @@ "air/pusher" :> AirPusher
  @@ "air/turnstile" :> AirTurnstile
AirSwitches == "air/login" :> AirLogin

AirGeneralOperation == <<"changed", "changed", "switch">>
AirLog == <<"switch">>
AirMonitor == <<"changed", "changed", "switch">>
AirQuota == <<"changed", "changed">>
AirRatio == <<"checked", "checked">>
AirOperation ==
  "air/operation" :> AirGeneralOperation @@ "air/monitor" :> AirMonitor
  @@ "air/quota" :> AirQuota @@ "air/ratio" :> AirRatio
AirOperationSwitches == "air/log" :> AirLog

AirNotice == <<"always">>
AirOther == "air/other" :> AirNotice

-----------------------------------------------------------------------------
(* web/berry/src/views/Setting/component                                   *)

BerryGeneral == <<"address">>
BerryLogin == <<"guarded", "switch">>
BerryDomains == <<"always", "switch">>
BerrySmtp == <<"changed", "changed", "filled", "secret">>
BerryGitHub == Pair
BerryLark == Pair
BerryWeChat == <<"trimmed", "changed", "secret">>
BerryOidc == <<"well", "secret", "found">>
BerryPusher == <<"trimmed", "secret">>
BerryTurnstile == Pair
BerrySystem ==
  "berry/general" :> BerryGeneral @@ "berry/domains" :> BerryDomains @@ "berry/smtp" :> BerrySmtp
  @@ "berry/github" :> BerryGitHub @@ "berry/lark" :> BerryLark @@ "berry/wechat" :> BerryWeChat
  @@ "berry/oidc" :> BerryOidc @@ "berry/pusher" :> BerryPusher
  @@ "berry/turnstile" :> BerryTurnstile
BerrySwitches == "berry/login" :> BerryLogin

BerryGeneralOperation == <<"changed", "changed", "switch">>
BerryLog == <<"switch">>
BerryMonitor == <<"changed", "changed", "switch">>
BerryQuota == <<"changed", "changed">>
BerryRatio == <<"checked", "checked">>
BerryOperation ==
  "berry/operation" :> BerryGeneralOperation @@ "berry/monitor" :> BerryMonitor
  @@ "berry/quota" :> BerryQuota @@ "berry/ratio" :> BerryRatio
BerryOperationSwitches == "berry/log" :> BerryLog

BerryNotice == <<"always">>
BerryLook == <<"always">>
BerryOther == "berry/notice" :> BerryNotice @@ "berry/look" :> BerryLook

-----------------------------------------------------------------------------
(* frontend/src/components                                                 *)

ConsoleSystem == "console/system" :> <<"text", "hidden", "area", "switch">>
ConsoleSso == "console/sso" :> <<"text", "endpoint", "lookup", "enable">>

-----------------------------------------------------------------------------
DefaultSections ==
  DefaultSystem @@ DefaultSwitches @@ DefaultOperation @@ DefaultOperationSwitches @@ DefaultOther
AirSections == AirSystem @@ AirSwitches @@ AirOperation @@ AirOperationSwitches @@ AirOther
BerrySections ==
  BerrySystem @@ BerrySwitches @@ BerryOperation @@ BerryOperationSwitches @@ BerryOther
ConsoleSections == ConsoleSystem @@ ConsoleSso
Sections == DefaultSections @@ AirSections @@ BerrySections @@ ConsoleSections
=============================================================================
