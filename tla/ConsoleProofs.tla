--------------------------- MODULE ConsoleProofs ---------------------------
(***************************************************************************)
(* Proofs about ConsolePages, for any accounts, any number of actions of   *)
(* the user, of calls in flight, and of refused or lost calls.             *)
(***************************************************************************)
EXTENDS ConsolePages, FiniteSetTheorems, WellFoundedInduction, TLAPS

-----------------------------------------------------------------------------
(* Types                                                                   *)

Ops == PageOps \cup ShellOps
Ranges == {"30", "365"}
Steps == {"none", "testing", "works", "fails", "code", "again", "error", "scan", "codes"}
Call ==
  [op : Ops, page : Pages, arg : Ranges \cup {"none", "code"}, then : {"none", "dashboard"},
   phase : {"asked", "served"}, ans : {"none", "ok", "refused", "401", "code"}, who : Int,
   flag : BOOLEAN, ver : Nat, home : {"mounted", "left", "gone"}, n : Nat]
Auth == [user : Int, factor : BOOLEAN, loading : BOOLEAN, warn : BOOLEAN]
Ui ==
  [rows : Nat, aside : Nat, range : Ranges, of : Ranges \cup {"none", "code"}, loading : BOOLEAN,
   form : BOOLEAN, filled : BOOLEAN, busy : BOOLEAN, saving : BOOLEAN, key : BOOLEAN,
   confirm : BOOLEAN, step : Steps, sso : BOOLEAN]
Db == [rows : Nat, factor : SUBSET Int, unsafe : BOOLEAN]
Hist ==
  [asked : Nat, troubles : Nat, untold : Int, hurried : BOOLEAN, crossed : BOOLEAN,
   blind : SUBSET {"list", "aside"}, lost : BOOLEAN, ended : BOOLEAN, left : BOOLEAN,
   used : BOOLEAN]

TypeOK ==
  /\ sess \in Accounts \cup {0}
  /\ db \in Db /\ page \in Pages /\ auth \in Auth /\ ui \in Ui /\ hist \in Hist
  /\ calls \in SUBSET Call /\ IsFiniteSet(calls)

\* The same call, but for its number.
Like(d, c) == d \in Call /\ d = [c EXCEPT !.n = d.n]
Clear(d, cs) == \A e \in cs : e.op = d.op => e.n # d.n

(* Put adds one call, whose number no call of the same kind has. *)
LEMMA PutAdds ==
  ASSUME NEW cs \in SUBSET Call, IsFiniteSet(cs), NEW c \in Call
  PROVE  \E d \in Call : /\ Put(cs, c) = cs \cup {d} /\ IsFiniteSet(Put(cs, c))
                         /\ Like(d, c) /\ Clear(d, cs)
<1> DEFINE same == {d \in cs : d.op = c.op}
           used == {d.n : d \in same}
           free == 0..Cardinality(used) \ used
           k == CHOOSE k \in free : \A l \in free : k <= l
           d == [c EXCEPT !.n = k]
<1>1. used \in SUBSET Nat /\ IsFiniteSet(used)
  <2>1. IsFiniteSet(same)
    BY FS_Subset
  <2> DEFINE num == [e \in same |-> e.n]
  <2>2. num \in Surjection(same, used)
    BY DEF Surjection
  <2>3. IsFiniteSet(used)
    BY <2>1, <2>2, FS_Surjection
  <2>4. \A e \in same : e.n \in Nat
    BY DEF Call
  <2> QED
    BY <2>3, <2>4
<1>2. free # {}
  <2> HIDE DEF used
  <2> SUFFICES ASSUME 0..Cardinality(used) \subseteq used PROVE FALSE
    OBVIOUS
  <2>1. Cardinality(used) \in Nat
    BY <1>1, FS_CardinalityType
  <2>2. Cardinality(0..Cardinality(used)) = Cardinality(used) + 1
    BY <2>1, FS_Interval
  <2>3. Cardinality(0..Cardinality(used)) <= Cardinality(used)
    BY <1>1, FS_Subset
  <2> QED
    BY <2>1, <2>2, <2>3
<1>3. k \in free
  <2>1. free \in SUBSET Nat
    BY <1>1, FS_CardinalityType
  <2> HIDE DEF free
  <2>2. \E m \in free : \A l \in free : m <= l
    <3>1. PICK m \in free : \A l \in free : <<l, m>> \notin OpToRel(<, Nat)
      BY <2>1, <1>2, NatLessThanWellFounded, WFMin
    <3>2. \A l \in free : ~(l < m)
      BY <2>1, <3>1 DEF OpToRel
    <3> QED
      BY <2>1, <3>2
  <2> QED
    BY <2>2
<1>4. k \in Nat
  BY <1>1, <1>3, FS_CardinalityType
<1>5. d \in Call /\ d.op = c.op /\ d.n = k
  <2> HIDE DEF k
  <2> QED
    BY <1>4 DEF Call
<1>6. Put(cs, c) = cs \cup {d}
  BY DEF Put
<1>7. IsFiniteSet(Put(cs, c))
  <2> HIDE DEF d
  <2>1. IsFiniteSet(cs \cup {d})
    BY FS_AddElement
  <2> QED
    BY <2>1, <1>6
<1>8. Like(d, c)
  <2> HIDE DEF k
  <2> QED
    BY <1>5 DEF Like
<1>9. Clear(d, cs)
  <2>1. k \notin used
    BY <1>3
  <2> HIDE DEF k
  <2> QED
    BY <2>1, <1>5 DEF Clear
<1> HIDE DEF d
<1> QED
  BY <1>5, <1>6, <1>7, <1>8, <1>9

\* A call before it is sent, from page p.
Asked(c, op, p, arg, then) ==
  /\ c \in Call
  /\ c.op = op /\ c.page = p /\ c.arg = arg /\ c.then = then
  /\ c.phase = "asked" /\ c.ans = "none" /\ c.home = "mounted"

(* What the handlers send. *)
LEMMA RequestTypes ==
  ASSUME NEW op \in Ops, NEW p \in Pages, NEW arg \in Ranges \cup {"none", "code"},
         NEW th \in {"none", "dashboard"}
  PROVE  Asked(Request(op, p, arg, th), op, p, arg, th)
<1>1. 0 \in Int /\ 0 \in Nat
  OBVIOUS
<1>2. Request(op, p, arg, th) \in Call
  BY <1>1, Zenon DEF Call, Request
<1> QED
  BY <1>2 DEF Asked, Request

(* The elements of a finite set, each changed, are a finite set. *)
LEMMA ChangedFinite ==
  ASSUME NEW S, IsFiniteSet(S), NEW f
  PROVE  IsFiniteSet({f[x] : x \in S})
<1> DEFINE T == {f[x] : x \in S}
           g == [x \in S |-> f[x]]
<1>1. g \in Surjection(S, T)
  BY DEF Surjection
<1> QED
  BY <1>1, FS_Surjection

\* One call for each of ops that no call of cs can be taken for: the page p asks.
Fresh(N, cs, p, ops) ==
  /\ N \in SUBSET Call /\ IsFiniteSet(N)
  /\ \A d \in N : /\ d.op \in ops /\ d.page = p /\ d.then = "none"
                  /\ d.phase = "asked" /\ d.ans = "none" /\ d.home = "mounted"
                  /\ Clear(d, cs)
                  /\ \A e \in N : e.op = d.op => e = d

(* One call of a page more. *)
LEMMA PutIsFresh ==
  ASSUME NEW cs \in SUBSET Call, IsFiniteSet(cs), NEW op, NEW p, NEW arg,
         NEW c, Asked(c, op, p, arg, "none")
  PROVE  \E d \in Call : /\ Put(cs, c) = cs \cup {d} /\ Fresh({d}, cs, p, {op})
                         /\ d.arg = arg
<1>1. PICK d \in Call : Put(cs, c) = cs \cup {d} /\ Like(d, c) /\ Clear(d, cs)
  BY PutAdds DEF Asked
<1>2. /\ d.op = op /\ d.page = p /\ d.arg = arg /\ d.then = "none" /\ d.phase = "asked"
      /\ d.ans = "none" /\ d.home = "mounted"
  BY <1>1 DEF Asked, Like, Call
<1>3. IsFiniteSet({d})
  BY FS_Singleton
<1> QED
  BY <1>1, <1>2, <1>3 DEF Fresh

(* Calls asked one after the other for different things are fresh together. *)
LEMMA FreshJoin ==
  ASSUME NEW cs \in SUBSET Call, NEW p, NEW ops, NEW more, ops \cap more = {},
         NEW N, Fresh(N, cs, p, ops), NEW M, Fresh(M, cs \cup N, p, more)
  PROVE  Fresh(N \cup M, cs, p, ops \cup more)
<1>1. IsFiniteSet(N \cup M)
  BY FS_Union DEF Fresh
<1>2. N \cup M \in SUBSET Call
  BY DEF Fresh
<1> QED
  BY <1>1, <1>2 DEF Fresh, Clear

\* What is added to cs where a list is asked for.
IsListing(N, cs, p, range) ==
  /\ Fresh(N, cs, p, {"list", "aside"})
  /\ \A d \in N : d.op = "list" => d.arg = range
  /\ \E d \in N : d.op = "list"
  /\ p \in TwoLists => \E d \in N : d.op = "aside"

(* A page asks for its list, two pages for two. *)
LEMMA ListingAdds ==
  ASSUME NEW cs \in SUBSET Call, IsFiniteSet(cs), NEW p \in ListPages,
         NEW range \in Ranges
  PROVE  \E N : Listing(cs, p, range) = cs \cup N /\ IsListing(N, cs, p, range)
<1>1. p \in Pages /\ "list" \in Ops /\ "aside" \in Ops
  BY DEF Pages, Protected, Ops, PageOps
<1> DEFINE one == Put(cs, Request("list", p, range, "none"))
           two == Put(one, Request("aside", p, "none", "none"))
<1>2. Asked(Request("list", p, range, "none"), "list", p, range, "none")
  BY <1>1, RequestTypes
<1>3. Asked(Request("aside", p, "none", "none"), "aside", p, "none", "none")
  BY <1>1, RequestTypes
<1>4. PICK d \in Call : one = cs \cup {d} /\ Fresh({d}, cs, p, {"list"}) /\ d.arg = range
  BY <1>2, PutIsFresh
<1>5. one \in SUBSET Call /\ IsFiniteSet(one)
  BY <1>4, FS_AddElement
<1>6. CASE p \in TwoLists
  <2>1. Listing(cs, p, range) = two
    BY <1>6 DEF Listing
  <2> HIDE DEF one
  <2>2. PICK e \in Call : /\ two = one \cup {e} /\ Fresh({e}, one, p, {"aside"})
    BY <1>3, <1>5, PutIsFresh
  <2>3. Fresh({d} \cup {e}, cs, p, {"list"} \cup {"aside"})
    BY <1>4, <2>2, FreshJoin
  <2>4. Fresh({d, e}, cs, p, {"list", "aside"})
    BY <2>3, {d} \cup {e} = {d, e}, {"list"} \cup {"aside"} = {"list", "aside"}
  <2>5. d.op = "list" /\ e.op = "aside"
    BY <1>4, <2>2 DEF Fresh
  <2>6. IsListing({d, e}, cs, p, range)
    BY <2>4, <2>5, <1>4 DEF IsListing
  <2> QED
    BY <1>4, <2>2, <2>6, <2>1
<1>7. CASE p \notin TwoLists
  <2>1. d.op = "list"
    BY <1>4 DEF Fresh
  <2>2. Fresh({d}, cs, p, {"list", "aside"})
    BY <1>4 DEF Fresh
  <2>3. IsListing({d}, cs, p, range)
    BY <1>4, <1>7, <2>1, <2>2 DEF IsListing
  <2> QED
    BY <1>4, <1>7, <2>3 DEF Listing
<1> QED
  BY <1>6, <1>7

(* The login page asks for the status, the page of the provider's code sends it. *)
LEMMA AsksAdds ==
  ASSUME NEW cs \in SUBSET Call, IsFiniteSet(cs), NEW p \in Pages
  PROVE  \E N : /\ Asks(cs, p) = cs \cup N /\ Fresh(N, cs, p, {"status", "callback"})
                /\ p # "login" => \A d \in N : d.op # "status"
                /\ p # "oidc" => \A d \in N : d.op # "callback"
<1>1. "status" \in Ops /\ "callback" \in Ops
  BY DEF Ops, PageOps
<1>2. CASE p = "login"
  <2>1. Asked(Request("status", p, "none", "none"), "status", p, "none", "none")
    BY <1>1, RequestTypes
  <2>2. PICK d \in Call : Asks(cs, p) = cs \cup {d} /\ Fresh({d}, cs, p, {"status"})
    BY <1>2, <2>1, PutIsFresh DEF Asks
  <2>3. Fresh({d}, cs, p, {"status", "callback"}) /\ d.op = "status"
    BY <2>2 DEF Fresh
  <2> QED
    BY <1>2, <2>2, <2>3
<1>3. CASE p = "oidc"
  <2>1. Asked(Request("callback", p, "none", "none"), "callback", p, "none", "none")
    BY <1>1, RequestTypes
  <2>2. PICK d \in Call : Asks(cs, p) = cs \cup {d} /\ Fresh({d}, cs, p, {"callback"})
    BY <1>3, <2>1, PutIsFresh DEF Asks
  <2>3. Fresh({d}, cs, p, {"status", "callback"}) /\ d.op = "callback"
    BY <2>2 DEF Fresh
  <2> QED
    BY <1>3, <2>2, <2>3
<1>4. CASE p # "login" /\ p # "oidc"
  <2>1. Fresh({}, cs, p, {"status", "callback"})
    BY FS_EmptySet DEF Fresh
  <2> QED
    BY <1>4, <2>1 DEF Asks
<1> QED
  BY <1>2, <1>3, <1>4

(* Calls of a page that was left, and those of a document that is gone. *)
LEMMA LeftTypes ==
  ASSUME NEW cs \in SUBSET Call, IsFiniteSet(cs)
  PROVE  /\ Left(cs, PageOps) \in SUBSET Call /\ IsFiniteSet(Left(cs, PageOps))
         /\ Gone(cs) \in SUBSET Call /\ IsFiniteSet(Gone(cs))
<1> DEFINE f == [c \in Call |-> IF c.op \in PageOps /\ c.home = "mounted"
                                THEN [c EXCEPT !.home = "left"] ELSE c]
           g == [c \in Call |-> [c EXCEPT !.home = "gone"]]
           asked == {c \in cs : c.op \in Writes /\ c.phase = "asked"}
<1>1. ASSUME NEW c \in Call PROVE f[c] \in Call /\ g[c] \in Call
  <2>1. [c EXCEPT !.home = "left"] \in Call /\ [c EXCEPT !.home = "gone"] \in Call
    BY DEF Call
  <2> QED
    BY <2>1
<1>2. Left(cs, PageOps) = {f[c] : c \in cs}
  BY DEF Left
<1>3. Gone(cs) = {g[c] : c \in asked}
  BY DEF Gone
<1>4. asked \in SUBSET cs /\ IsFiniteSet(asked)
  BY FS_Subset
<1> HIDE DEF f, g, asked
<1>5. IsFiniteSet({f[c] : c \in cs}) /\ IsFiniteSet({g[c] : c \in asked})
  BY <1>4, ChangedFinite
<1> QED
  BY <1>1, <1>2, <1>3, <1>4, <1>5

(* What is asked for where a page is entered: its lists, if it is admitted. *)
LEMMA EnteredAdds ==
  ASSUME NEW cs \in SUBSET Call, IsFiniteSet(cs), NEW p \in Pages, NEW u \in Int,
         NEW range \in Ranges
  PROVE  \E N : /\ Entered(cs, p, u, range) = cs \cup N
                /\ Fresh(N, cs, p, {"list", "aside"})
                /\ Admits(p, u) => IsListing(N, cs, p, range)
                /\ ~Admits(p, u) => N = {}
<1>1. CASE Admits(p, u)
  <2>1. p \in ListPages
    BY <1>1 DEF Admits
  <2>2. PICK N : Listing(cs, p, range) = cs \cup N /\ IsListing(N, cs, p, range)
    BY <2>1, ListingAdds
  <2>3. Entered(cs, p, u, range) = cs \cup N
    BY <1>1, <2>2 DEF Entered
  <2> QED
    BY <1>1, <2>2, <2>3 DEF IsListing
<1>2. CASE ~Admits(p, u)
  <2>1. Fresh({}, cs, p, {"list", "aside"})
    BY FS_EmptySet DEF Fresh
  <2> QED
    BY <1>2, <2>1 DEF Entered
<1> QED
  BY <1>1, <1>2

\* What the router leaves in flight when it shows page p to account u.
IsRoute(N, old, p, u) ==
  /\ Fresh(N, old, p, {"status", "callback", "list", "aside"})
  /\ \A d \in N : /\ d.op = "status" => p = "login"
                  /\ d.op = "callback" => p = "oidc"
                  /\ d.op = "list" => d.arg = "30"
  /\ Admits(p, u) => /\ \E d \in N : d.op = "list"
                     /\ p \in TwoLists => \E d \in N : d.op = "aside"

(* The router marks the calls of the page it leaves, and adds those of the next. *)
LEMMA RouteAdds ==
  ASSUME NEW cs \in SUBSET Call, IsFiniteSet(cs), NEW p \in Pages, NEW u \in Int
  PROVE  \E N : /\ Entered(Asks(Left(cs, PageOps), p), p, u, "30")
                     = Left(cs, PageOps) \cup N
                /\ IsRoute(N, Left(cs, PageOps), p, u)
<1> DEFINE old == Left(cs, PageOps)
           both == Asks(old, p)
<1>1. old \in SUBSET Call /\ IsFiniteSet(old)
  BY LeftTypes
<1> HIDE DEF old
<1>2. PICK N : /\ both = old \cup N /\ Fresh(N, old, p, {"status", "callback"})
               /\ p # "login" => \A d \in N : d.op # "status"
               /\ p # "oidc" => \A d \in N : d.op # "callback"
  BY <1>1, AsksAdds
<1>3. both \in SUBSET Call /\ IsFiniteSet(both)
  <2>1. N \in SUBSET Call /\ IsFiniteSet(N)
    BY <1>2 DEF Fresh
  <2>2. IsFiniteSet(old \cup N)
    BY <1>1, <2>1, FS_Union
  <2> QED
    BY <1>1, <1>2, <2>1, <2>2
<1>4. "30" \in Ranges
  BY DEF Ranges
<1>5. PICK M : /\ Entered(both, p, u, "30") = both \cup M
               /\ Fresh(M, both, p, {"list", "aside"})
               /\ Admits(p, u) => IsListing(M, both, p, "30")
               /\ ~Admits(p, u) => M = {}
  <2> HIDE DEF both
  <2> QED
    BY <1>3, <1>4, EnteredAdds
<1>6. Fresh(N \cup M, old, p, {"status", "callback"} \cup {"list", "aside"})
  <2>1. Fresh(M, old \cup N, p, {"list", "aside"})
    BY <1>2, <1>5
  <2>2. {"status", "callback"} \cap {"list", "aside"} = {}
    OBVIOUS
  <2> QED
    BY <1>1, <1>2, <2>1, <2>2, FreshJoin
<1>7. {"status", "callback"} \cup {"list", "aside"} = {"status", "callback", "list", "aside"}
  OBVIOUS
<1>8. \A d \in N : d.op \in {"status", "callback"}
  BY <1>2 DEF Fresh
<1>9. \A d \in M : d.op \in {"list", "aside"} /\ (d.op = "list" => d.arg = "30")
  BY <1>5 DEF Fresh, IsListing
<1>10. Admits(p, u) => /\ \E d \in M : d.op = "list"
                       /\ p \in TwoLists => \E d \in M : d.op = "aside"
  BY <1>5 DEF IsListing
<1>11. IsRoute(N \cup M, old, p, u)
  <2>1. Fresh(N \cup M, old, p, {"status", "callback", "list", "aside"})
    BY <1>6, <1>7
  <2>2. \A d \in N \cup M : /\ d.op = "status" => p = "login"
                            /\ d.op = "callback" => p = "oidc"
                            /\ d.op = "list" => d.arg = "30"
    BY <1>2, <1>8, <1>9
  <2> QED
    BY <1>10, <2>1, <2>2 DEF IsRoute
<1> QED
  BY <1>2, <1>5, <1>11 DEF old

\* What a new document asks: who is logged in, and what its page asks by itself.
IsDocument(N, old, p) ==
  /\ Fresh(N, old, p, {"self", "status", "callback"})
  /\ \A d \in N : d.op = "callback" => p = "oidc"
  /\ p # "elsewhere" => \E d \in N : d.op = "self"

(* A new document adds these to what goes on without one. *)
LEMMA DocumentAdds ==
  ASSUME NEW cs \in SUBSET Call, IsFiniteSet(cs), NEW p \in Pages
  PROVE  \E N : /\ Asks(Put(cs, Request("self", p, "none", "none")), p) = cs \cup N
                /\ IsDocument(N, cs, p)
<1> DEFINE one == Put(cs, Request("self", p, "none", "none"))
<1>1. "self" \in Ops
  BY DEF Ops, ShellOps
<1>2. Asked(Request("self", p, "none", "none"), "self", p, "none", "none")
  BY <1>1, RequestTypes
<1>3. PICK d \in Call : one = cs \cup {d} /\ Fresh({d}, cs, p, {"self"})
  BY <1>2, PutIsFresh
<1>4. one \in SUBSET Call /\ IsFiniteSet(one)
  BY <1>3, FS_AddElement
<1>5. PICK N : /\ Asks(one, p) = one \cup N /\ Fresh(N, one, p, {"status", "callback"})
               /\ p # "oidc" => \A e \in N : e.op # "callback"
  <2> HIDE DEF one
  <2> QED
    BY <1>4, AsksAdds
<1>6. Fresh({d} \cup N, cs, p, {"self"} \cup {"status", "callback"})
  <2>1. Fresh(N, cs \cup {d}, p, {"status", "callback"})
    BY <1>3, <1>5
  <2>2. {"self"} \cap {"status", "callback"} = {}
    OBVIOUS
  <2> QED
    BY <1>3, <2>1, <2>2, FreshJoin
<1>7. {"self"} \cup {"status", "callback"} = {"self", "status", "callback"}
  OBVIOUS
<1>8. d.op = "self"
  BY <1>3 DEF Fresh
<1>9. IsDocument({d} \cup N, cs, p)
  <2>1. Fresh({d} \cup N, cs, p, {"self", "status", "callback"})
    BY <1>6, <1>7
  <2> QED
    BY <1>5, <1>8, <2>1 DEF IsDocument
<1> QED
  BY <1>3, <1>5, <1>9

(* AppShell asks about root's password. *)
LEMMA WatchedAdds ==
  ASSUME NEW cs \in SUBSET Call, IsFiniteSet(cs), NEW u \in Int, page \in Pages
  PROVE  \E N : Watched(cs, u) = cs \cup N /\ Fresh(N, cs, page, {"security"})
<1>1. CASE u >= 10
  <2>1. "security" \in Ops
    BY DEF Ops, ShellOps
  <2>2. "none" \in Ranges \cup {"none", "code"} /\ "none" \in {"none", "dashboard"}
    OBVIOUS
  <2>3. Asked(Ask("security"), "security", page, "none", "none")
    BY <2>1, <2>2, RequestTypes DEF Ask
  <2>4. PICK d \in Call : /\ Put(cs, Ask("security")) = cs \cup {d}
                          /\ Fresh({d}, cs, page, {"security"})
    BY <2>3, PutIsFresh
  <2> QED
    BY <1>1, <2>4 DEF Watched
<1>2. CASE ~(u >= 10)
  <2>1. Fresh({}, cs, page, {"security"})
    BY FS_EmptySet DEF Fresh
  <2> QED
    BY <1>2, <2>1 DEF Watched
<1> QED
  BY <1>1, <1>2

(* A call that is asked is added as one that no other can be taken for. *)
LEMMA PutAsked ==
  ASSUME NEW cs \in SUBSET Call, IsFiniteSet(cs), NEW op, NEW p, NEW arg, NEW th,
         NEW c, Asked(c, op, p, arg, th)
  PROVE  \E d \in Call : /\ Put(cs, c) = cs \cup {d} /\ Asked(d, op, p, arg, th)
                         /\ Clear(d, cs)
<1>1. PICK d \in Call : Put(cs, c) = cs \cup {d} /\ Like(d, c) /\ Clear(d, cs)
  BY PutAdds DEF Asked
<1>2. Asked(d, op, p, arg, th)
  BY <1>1 DEF Asked, Like, Call
<1> QED
  BY <1>1, <1>2

-----------------------------------------------------------------------------
(* The records that make up the state                                      *)

(* A page that is mounted shows nothing, and a list page is loading. *)
LEMMA MountTypes ==
  ASSUME NEW p \in Pages
  PROVE  /\ Mount(p) \in Ui
         /\ Mount(p).loading => p \in ListPages
         /\ ~Mount(p).busy /\ ~Mount(p).saving
         /\ Mount(p).range = "30"
<1>1. 0 \in Nat /\ (p \in ListPages) \in BOOLEAN /\ FALSE \in BOOLEAN
  OBVIOUS
<1>2. "30" \in Ranges /\ "none" \in Steps /\ "30" \in Ranges \cup {"none", "code"}
  BY DEF Ranges, Steps
<1>3. Mount(p) \in Ui
  BY <1>1, <1>2, Zenon DEF Ui, Mount
<1> QED
  BY <1>3 DEF Mount

(* A document knows nobody yet. *)
LEMMA OutTypes == Out \in Auth /\ Out.loading /\ Out.user = 0
<1>1. 0 \in Int /\ TRUE \in BOOLEAN /\ FALSE \in BOOLEAN
  OBVIOUS
<1>2. Out \in Auth
  BY <1>1, Zenon DEF Out, Auth
<1> QED
  BY <1>2 DEF Out

(* What is remembered when the user starts something. *)
LEMMA StartedTypes ==
  ASSUME hist \in Hist, NEW op
  PROVE  /\ Started(op) \in Hist
         /\ Started(op).hurried <=>
               hist.hurried \/ \E c \in calls : c.op \in PageOps /\ c.home = "mounted"
         /\ Started(op).crossed <=>
               hist.crossed \/ (op \in SessionOps /\ Pending(calls, SessionOps))
         /\ Started(op).untold = hist.untold /\ Started(op).blind = hist.blind
         /\ Started(op).lost <=> hist.lost
         /\ Started(op).ended <=> hist.ended
         /\ Started(op).left <=> hist.left
<1>1. ASSUME NEW n \in Nat, NEW h \in BOOLEAN, NEW x \in BOOLEAN
      PROVE  [hist EXCEPT !.asked = n, !.hurried = h, !.crossed = x] \in Hist
  BY DEF Hist
<1>2. (hist.hurried \/ \E c \in calls : c.op \in PageOps /\ c.home = "mounted") \in BOOLEAN
  OBVIOUS
<1>3. (hist.crossed \/ (op \in SessionOps /\ Pending(calls, SessionOps))) \in BOOLEAN
  OBVIOUS
<1>4. hist.asked + 1 \in Nat
  BY DEF Hist
<1>5. Started(op) \in Hist
  BY <1>1, <1>2, <1>3, <1>4, Zenon DEF Started
<1> QED
  BY <1>5 DEF Started, Hist

(* What is remembered when another page is shown. *)
LEMMA VisitedTypes ==
  ASSUME hist \in Hist, NEW cs
  PROVE  /\ Visited(cs) \in Hist
         /\ Visited(cs).hurried <=> Changing(cs)
         /\ Visited(cs).crossed <=> hist.crossed \/ Pending(cs, SessionOps)
         /\ Visited(cs).left <=> hist.left \/ Telling(cs)
         /\ Visited(cs).untold = hist.untold /\ Visited(cs).blind = {}
         /\ Visited(cs).lost <=> hist.lost
         /\ Visited(cs).ended <=> hist.ended
<1>1. ASSUME NEW h \in BOOLEAN, NEW x \in BOOLEAN, NEW l \in BOOLEAN
      PROVE  [hist EXCEPT !.hurried = h, !.blind = {}, !.crossed = x, !.left = l] \in Hist
  BY DEF Hist
<1>2. Changing(cs) \in BOOLEAN
  BY DEF Changing
<1>3. /\ (hist.crossed \/ Pending(cs, SessionOps)) \in BOOLEAN
      /\ (hist.left \/ Telling(cs)) \in BOOLEAN
  OBVIOUS
<1>4. Visited(cs) \in Hist
  BY <1>1, <1>2, <1>3, Zenon DEF Visited
<1> QED
  BY <1>4 DEF Visited, Hist

-----------------------------------------------------------------------------
(***************************************************************************)
(* The shapes of a step.  The pages have many handlers that do the same to *)
(* the calls in flight; each is shown to have one of these shapes once,    *)
(* and the invariants are proved for the shapes.                           *)
(***************************************************************************)

\* The form changes, nothing is asked.
Enters ==
  /\ ui' \in Ui
  /\ ui'.rows = ui.rows /\ ui'.aside = ui.aside /\ ui'.of = ui.of /\ ui'.range = ui.range
  /\ ui'.loading => ui.loading
  /\ ui'.busy => ui.busy
  /\ ui'.saving => ui.saving
  /\ UNCHANGED <<sess, db, page, auth, calls, hist>>

Changes == {"create", "change", "assign"}
\* What blocks the buttons of its page while it is under way.
Blocking == {"login", "state", "create", "setup", "enable", "disable"}
AtHome(op) ==
  /\ op \in {"login", "state"} => page = "login"
  /\ op = "callback" => page = "oidc"
  /\ op \in {"setup", "enable", "disable", "password"} => page = "settings"

\* The user asks for op from the page that is shown.
Starts(op, arg, u) ==
  /\ op \in Ops \ {"self", "aside", "security", "status"}
  /\ arg \in Ranges \cup {"none", "code"}
  /\ AtHome(op)
  /\ op \in Changes \cup {"list", "test"} => page \in ListPages /\ Usable
  /\ op = "list" => page = "costs" /\ arg = u.range
  /\ op # "list" => u.range = ui.range
  /\ u.rows = ui.rows /\ u.aside = ui.aside /\ u.of = ui.of
  /\ u.loading => ui.loading \/ op = "list"
  /\ u.busy => ui.busy \/ op \in Blocking
  /\ u.saving => ui.saving \/ op = "password"
UserAsks ==
  \E op \in Ops, arg \in Ranges \cup {"none", "code"}, d \in Call :
    /\ Starts(op, arg, ui')
    /\ Asked(d, op, page, arg, "none") /\ Clear(d, calls)
    /\ calls' = calls \cup {d} /\ ui' \in Ui /\ hist' = Started(op)
    /\ UNCHANGED <<sess, db, page, auth>>

\* The answer to a call of the page is taken in; N is asked next.
Told(c) == Secret(c) /\ c.ans = "ok"
\* A success of these has the user asked for again.
Rechecked == {"login", "callback", "enable", "disable"}
Heard(c) ==
  /\ c \in calls /\ c.phase = "served" /\ c.home = "mounted" /\ c.op \in PageOps
  /\ ~Expelled(c)
  /\ UNCHANGED <<sess, db, page, auth>>
AsksNext(c, N) ==
  /\ calls' = End(c) \cup N /\ N \in SUBSET Call /\ IsFiniteSet(N)
  /\ \A d \in N : /\ Clear(d, End(c)) /\ d.phase = "asked" /\ d.ans = "none"
                  /\ d.home = "mounted" /\ d.page = page
  /\ \A d, e \in N : d.op = e.op => d = e
  /\ c.op \in Changes => page \in ListPages /\ IsListing(N, End(c), page, ui.range)
  /\ c.op \in Rechecked /\ c.ans = "ok" =>
       /\ N # {} /\ \A d \in N : d.op = "self"
       /\ c.op \in {"login", "callback"} => \A d \in N : d.then = "dashboard"
  /\ c.op \notin Changes /\ ~(c.op \in Rechecked /\ c.ans = "ok") =>
       \A d \in N : d.op = "security"
Shown(c) ==
  /\ ui' \in Ui /\ ui'.range = ui.range
  /\ c.op = "list" => /\ ui'.of = c.arg /\ ~ui'.loading
                      /\ c.ans = "ok" => ui'.rows = c.ver
  /\ c.op # "list" => ui'.of = ui.of /\ ui'.rows = ui.rows
  /\ c.op = "aside" /\ c.ans = "ok" => ui'.aside = c.ver
  /\ c.op # "aside" => ui'.aside = ui.aside
  /\ ui'.loading => ui.loading
  /\ ui'.busy => ui.busy /\ (c.op \in Blocking => c.op = "login" /\ c.ans = "ok")
  /\ ui'.saving => ui.saving /\ c.op # "password"
Noted(c) ==
  /\ hist' \in Hist
  /\ hist'.untold = IF Told(c) THEN hist.untold - 1 ELSE hist.untold
  /\ hist'.hurried <=> hist.hurried
  /\ hist'.crossed <=> hist.crossed \/ (c.op \in {"enable", "disable"} /\ c.ans = "ok"
                                        /\ Pending(End(c), SessionOps))
  /\ hist'.blind = hist.blind
  /\ hist'.lost <=> hist.lost
  /\ hist'.ended <=> hist.ended
  /\ hist'.left <=> hist.left
TakesIn(c, N) == Heard(c) /\ AsksNext(c, N) /\ Shown(c) /\ Noted(c)

\* A new document, while the calls cs are in flight.
Loads(cs, N) ==
  /\ cs \in SUBSET calls
  /\ \A c \in calls \ cs : c.phase = "served" /\ ~Told(c)
  /\ page' \in Pages /\ auth' = Out /\ ui' = Mount(page')
  /\ calls' = Gone(cs) \cup N
  /\ page' = "elsewhere" => N = {}
  /\ page' # "elsewhere" => IsDocument(N, Gone(cs), page')
  /\ hist' \in Hist
  /\ hist'.hurried <=> Changing(cs)
  /\ hist'.crossed <=> hist.crossed \/ Pending(cs, SessionOps)
  /\ hist'.left <=> hist.left \/ Telling(cs)
  /\ hist'.untold = hist.untold /\ hist'.blind = {}
  /\ hist'.lost <=> hist.lost
  /\ hist'.ended <=> hist.ended
  /\ UNCHANGED <<sess, db>>

\* The router shows page p, which leaves the calls cs.
Moved(cs) ==
  /\ page' \in Pages \ {"oidc", "elsewhere"} /\ ui' = Mount(page')
  /\ hist' \in Hist
  /\ hist'.hurried <=> Changing(cs)
  /\ hist'.left <=> hist.left \/ Telling(cs)
  /\ hist'.untold = hist.untold /\ hist'.blind = {}
  /\ hist'.lost <=> hist.lost
  /\ hist'.ended <=> hist.ended
  /\ UNCHANGED <<sess, db>>
\* The page sends the user on, or the user follows a link of the dashboard.
Moves(N) ==
  /\ Moved(calls)
  /\ calls' = Left(calls, PageOps) \cup N
  /\ IsRoute(N, Left(calls, PageOps), page', auth.user)
  /\ page \in Protected
  /\ hist.crossed => hist'.crossed
  /\ page # "dashboard" => hist'.crossed \/ ~Pending(calls, SessionOps)
  /\ UNCHANGED auth

\* The answer to refresh() says who the user is.
Known(c) ==
  /\ c \in calls /\ c.op = "self" /\ c.phase = "served" /\ ~Expelled(c)
  /\ auth' \in Auth /\ ~auth'.loading
  /\ auth'.user = IF c.ans = "ok" THEN c.who ELSE 0
  /\ auth'.factor <=> auth'.user # 0 /\ c.flag
\* Then the page that is shown asks for its lists,
Renews(c, N) ==
  /\ Known(c) /\ c.then = "none"
  /\ calls' = End(c) \cup N /\ Fresh(N, End(c), page, {"security", "list", "aside"})
  /\ IF Admits(page, auth'.user)
     THEN /\ \A d \in N : d.op = "list" => d.arg = ui.range
          /\ \E d \in N : d.op = "list"
          /\ page \in TwoLists => \E d \in N : d.op = "aside"
     ELSE \A d \in N : d.op = "security"
  /\ ui' \in Ui
  /\ ui'.rows = ui.rows /\ ui'.aside = ui.aside /\ ui'.of = ui.of /\ ui'.range = ui.range
  /\ ui'.loading => ui.loading \/ page \in ListPages
  /\ ui'.busy => ui.busy
  /\ ui'.saving => ui.saving
  /\ hist' \in Hist
  /\ hist'.hurried <=> hist.hurried \/ Pending(calls, DataOps)
  /\ hist'.crossed <=> hist.crossed
  /\ hist'.untold = hist.untold /\ hist'.blind = hist.blind
  /\ hist'.lost <=> hist.lost
  /\ hist'.ended <=> hist.ended
  /\ hist'.left <=> hist.left
  /\ UNCHANGED <<sess, db, page>>
\* or the dashboard is shown.
Returns(c, N) ==
  /\ Known(c) /\ c.then # "none"
  /\ page' = "dashboard" /\ Moved(End(c))
  /\ Fresh(N, End(c), page, {"security"}) /\ calls' = Left(End(c) \cup N, PageOps)
  /\ hist'.crossed <=> hist.crossed \/ Pending(End(c), SessionOps)

(* A handler that asks for something is of the shape UserAsks. *)
LEMMA BeginAsks ==
  ASSUME TypeOK, NEW op \in Ops, NEW arg \in Ranges \cup {"none", "code"}, NEW u \in Ui,
         Starts(op, arg, u), Begin(Request(op, page, arg, "none"), u)
  PROVE  UserAsks
<1> USE DEF TypeOK
<1>1. "none" \in {"none", "dashboard"}
  OBVIOUS
<1>2. Asked(Request(op, page, arg, "none"), op, page, arg, "none")
  BY <1>1, RequestTypes
<1>3. PICK d \in Call : /\ Put(calls, Request(op, page, arg, "none")) = calls \cup {d}
                        /\ Asked(d, op, page, arg, "none") /\ Clear(d, calls)
  BY <1>2, PutAsked
<1>4. Request(op, page, arg, "none").op = op
  BY <1>2 DEF Asked
<1>5. /\ ui' = u /\ calls' = calls \cup {d} /\ hist' = Started(op)
      /\ UNCHANGED <<sess, db, page, auth>>
  BY <1>3, <1>4 DEF Begin
<1> QED
  BY <1>3, <1>5 DEF UserAsks

(* What the buttons of a list page ask for. *)
LEMMA ListPageAsks ==
  ASSUME TypeOK, page \in ListPages, Usable,
         NEW op \in {"create", "change", "assign", "test"}, NEW u \in Ui,
         u.rows = ui.rows, u.aside = ui.aside, u.of = ui.of, u.range = ui.range,
         u.loading => ui.loading, u.busy => ui.busy \/ op = "create", u.saving => ui.saving,
         Begin(Ask(op), u)
  PROVE  UserAsks
<1>1. op \in Ops \ {"self", "aside", "security", "status"}
  BY DEF Ops, PageOps, ShellOps
<1>2. "none" \in Ranges \cup {"none", "code"}
  OBVIOUS
<1>3. Starts(op, "none", u)
  BY <1>1, <1>2 DEF Starts, AtHome, Changes, Blocking
<1> QED
  BY <1>1, <1>2, <1>3, BeginAsks DEF Ask

\* The page u shows the lists as before, and nothing more is under way.
Plain(u) ==
  /\ u \in Ui
  /\ u.rows = ui.rows /\ u.aside = ui.aside /\ u.of = ui.of /\ u.range = ui.range
  /\ u.loading => ui.loading
  /\ u.busy => ui.busy
  /\ u.saving => ui.saving

(* A change of the form of a page is of the shape Enters. *)
LEMMA EnterEnters ==
  ASSUME NEW u, Plain(u), Enter(u)
  PROVE  Enters
BY DEF Enter, Enters, Plain

\* What the user does on a list page.
ListPageUser ==
  \/ Change("change") \/ Change("assign") \/ Test \/ Remove \/ Create(ui)
  \/ Form \/ Fill \/ PickPreset \/ Dismiss \/ Enter([ui EXCEPT !.confirm = ~@])

(* It is of one of these two shapes. *)
LEMMA ListPageShape ==
  ASSUME TypeOK, page \in ListPages, Usable, ListPageUser
  PROVE  UserAsks \/ Enters
<1>1. ui \in Ui
  BY DEF TypeOK
<1>2. CASE Change("change") \/ Change("assign")
  BY <1>1, <1>2, ListPageAsks DEF Change
<1>3. CASE Test
  <2>1. [ui EXCEPT !.step = "testing"] \in Ui
    BY <1>1 DEF Ui, Steps
  <2> DEFINE u == [ui EXCEPT !.step = "testing"]
  <2>2. /\ u.rows = ui.rows /\ u.aside = ui.aside /\ u.of = ui.of /\ u.range = ui.range
        /\ (u.loading => ui.loading) /\ (u.busy => ui.busy) /\ (u.saving => ui.saving)
    BY <1>1 DEF Ui
  <2>3. Begin(Ask("test"), u)
    BY <1>3 DEF Test
  <2> HIDE DEF u
  <2> QED
    BY <2>1, <2>2, <2>3, ListPageAsks DEF u
<1>4. CASE Remove
  <2> DEFINE u == [ui EXCEPT !.confirm = FALSE]
  <2>1. u \in Ui
    BY <1>1 DEF Ui
  <2>2. /\ u.rows = ui.rows /\ u.aside = ui.aside /\ u.of = ui.of /\ u.range = ui.range
        /\ (u.loading => ui.loading) /\ (u.busy => ui.busy) /\ (u.saving => ui.saving)
    BY <1>1 DEF Ui
  <2>3. Begin(Ask("change"), u)
    BY <1>4 DEF Remove
  <2> HIDE DEF u
  <2> QED
    BY <2>1, <2>2, <2>3, ListPageAsks
<1>5. CASE Create(ui)
  <2> DEFINE u == [ui EXCEPT !.busy = TRUE]
  <2>1. u \in Ui
    BY <1>1 DEF Ui
  <2>2. /\ u.rows = ui.rows /\ u.aside = ui.aside /\ u.of = ui.of /\ u.range = ui.range
        /\ (u.loading => ui.loading) /\ (u.saving => ui.saving)
    BY <1>1 DEF Ui
  <2>3. Begin(Ask("create"), u)
    BY <1>5 DEF Create
  <2> HIDE DEF u
  <2> QED
    BY <2>1, <2>2, <2>3, ListPageAsks
<1>6. CASE Form \/ Fill \/ PickPreset \/ Dismiss \/ Enter([ui EXCEPT !.confirm = ~@])
  <2>1. CASE Form
    <3>1. Plain([ui EXCEPT !.form = ~@])
      BY <1>1 DEF Plain, Ui
    <3> QED
      BY <2>1, <3>1, EnterEnters DEF Form
  <2>2. CASE Fill
    <3>1. \A any \in BOOLEAN : Plain([ui EXCEPT !.filled = any])
      BY <1>1 DEF Plain, Ui
    <3> QED
      BY <2>2, <3>1, EnterEnters DEF Fill
  <2>3. CASE PickPreset
    <3>1. Plain([ui EXCEPT !.filled = TRUE])
      BY <1>1 DEF Plain, Ui
    <3> QED
      BY <2>3, <3>1, EnterEnters DEF PickPreset
  <2>4. CASE Dismiss
    <3>1. Plain([ui EXCEPT !.key = FALSE])
      BY <1>1 DEF Plain, Ui
    <3> QED
      BY <2>4, <3>1, EnterEnters DEF Dismiss
  <2>5. CASE Enter([ui EXCEPT !.confirm = ~@])
    <3>1. Plain([ui EXCEPT !.confirm = ~@])
      BY <1>1 DEF Plain, Ui
    <3> QED
      BY <2>5, <3>1, EnterEnters
  <2> QED
    BY <1>6, <2>1, <2>2, <2>3, <2>4, <2>5
<1> QED
  BY <1>2, <1>3, <1>4, <1>5, <1>6 DEF ListPageUser

\* What the user does elsewhere.
OtherUser ==
  \/ Logout \/ Submit \/ StartSso \/ CallbackAgain
  \/ page = "costs" /\ Usable /\ PickRange
  \/ page = "settings" /\ (Password \/ StartSetup \/ ConfirmEnable \/ CancelSetup \/ Disable)

(* It is of one of these two shapes as well. *)
LEMMA OtherShape ==
  ASSUME TypeOK, OtherUser
  PROVE  UserAsks \/ Enters
<1>1. ui \in Ui /\ page \in Pages
  BY DEF TypeOK
<1>2. "none" \in Ranges \cup {"none", "code"}
  OBVIOUS
<1>3. ASSUME NEW op \in Ops, NEW u, Plain(u) \/ u = [ui EXCEPT !.busy = TRUE],
             op \in {"logout", "state", "callback", "setup", "enable", "disable"},
             AtHome(op), u = [ui EXCEPT !.busy = TRUE] => op \in Blocking, Begin(Ask(op), u)
      PROVE  UserAsks
  <2>1. u \in Ui
    BY <1>1, <1>3 DEF Ui, Plain
  <2>2. Starts(op, "none", u)
    BY <1>1, <1>2, <1>3 DEF Ui, Plain, Starts, Changes
  <2> QED
    BY <1>2, <1>3, <2>1, <2>2, BeginAsks DEF Ask
<1>4. CASE Logout
  <2>1. Plain(ui) /\ "logout" \in Ops /\ AtHome("logout")
    BY <1>1 DEF Plain, Ops, ShellOps, AtHome
  <2>2. Starts("logout", "none", ui)
    BY <1>2, <2>1 DEF Plain, Starts, Changes
  <2> QED
    BY <1>1, <1>2, <1>4, <2>1, <2>2, BeginAsks DEF Logout, Ask
<1>5. CASE Submit
  <2> DEFINE u == [ui EXCEPT !.busy = TRUE]
             arg == IF ui.step = "code" THEN "code" ELSE "none"
  <2>1. u \in Ui /\ arg \in Ranges \cup {"none", "code"} /\ "login" \in Ops
    BY <1>1 DEF Ui, Ops, PageOps
  <2>2. /\ u.rows = ui.rows /\ u.aside = ui.aside /\ u.of = ui.of /\ u.range = ui.range
        /\ (u.loading => ui.loading) /\ (u.saving => ui.saving)
    BY <1>1 DEF Ui
  <2>3. page = "login" /\ Begin(Request("login", page, arg, "none"), u)
    BY <1>5 DEF Submit
  <2> HIDE DEF u, arg
  <2>4. Starts("login", arg, u)
    BY <2>1, <2>2, <2>3 DEF Starts, AtHome, Changes, Blocking
  <2> QED
    BY <2>1, <2>3, <2>4, BeginAsks
<1>6. CASE StartSso
  BY <1>3, <1>6 DEF StartSso, Ops, PageOps, AtHome, Blocking
<1>7. CASE CallbackAgain
  <2>1. Plain([ui EXCEPT !.step = "again"])
    BY <1>1 DEF Plain, Ui, Steps
  <2>2. ~([ui EXCEPT !.step = "again"] = [ui EXCEPT !.busy = TRUE])
    BY <1>1, <1>7 DEF CallbackAgain, Ui
  <2> QED
    BY <1>3, <1>7, <2>1, <2>2 DEF CallbackAgain, Ops, PageOps, AtHome
<1>8. CASE page = "costs" /\ Usable /\ PickRange
  <2>1. PICK range \in {"30", "365"} \ {ui.range} :
          Begin(Request("list", page, range, "none"),
                [ui EXCEPT !.range = range, !.loading = TRUE])
    BY <1>8 DEF PickRange
  <2> DEFINE u == [ui EXCEPT !.range = range, !.loading = TRUE]
  <2>2. u \in Ui /\ range \in Ranges \cup {"none", "code"} /\ "list" \in Ops
    BY <1>1 DEF Ui, Ops, PageOps, Ranges
  <2>3. /\ u.rows = ui.rows /\ u.aside = ui.aside /\ u.of = ui.of /\ u.range = range
        /\ (u.busy => ui.busy) /\ (u.saving => ui.saving)
    BY <1>1 DEF Ui
  <2>4. "costs" \in ListPages
    BY DEF ListPages, Lists
  <2>5. Starts("list", range, u)
    <3> HIDE DEF u
    <3> QED
      BY <1>8, <2>2, <2>3, <2>4 DEF Starts, AtHome
  <2> QED
    BY <2>1, <2>2, <2>5, BeginAsks
<1>9. CASE page = "settings" /\ Password
  <2> DEFINE u == [ui EXCEPT !.saving = TRUE]
  <2>1. u \in Ui /\ "password" \in Ops
    BY <1>1 DEF Ui, Ops, PageOps
  <2>2. /\ u.rows = ui.rows /\ u.aside = ui.aside /\ u.of = ui.of /\ u.range = ui.range
        /\ (u.loading => ui.loading) /\ (u.busy => ui.busy)
    BY <1>1 DEF Ui
  <2>3. page = "settings" /\ Begin(Ask("password"), u)
    BY <1>9 DEF Password
  <2> HIDE DEF u
  <2>4. Starts("password", "none", u)
    BY <1>2, <2>1, <2>2, <2>3 DEF Starts, AtHome, Changes
  <2> QED
    BY <1>2, <2>1, <2>3, <2>4, BeginAsks DEF Ask
<1>10. CASE page = "settings" /\ StartSetup
  BY <1>3, <1>10 DEF StartSetup, Ops, PageOps, AtHome, Blocking
<1>11. CASE page = "settings" /\ ConfirmEnable
  BY <1>3, <1>11 DEF ConfirmEnable, Ops, PageOps, AtHome, Blocking
<1>12. CASE page = "settings" /\ Disable
  BY <1>3, <1>12 DEF Disable, Ops, PageOps, AtHome, Blocking
<1>13. CASE page = "settings" /\ CancelSetup
  <2>1. Plain([ui EXCEPT !.step = "none"])
    BY <1>1 DEF Plain, Ui, Steps
  <2> QED
    BY <1>13, <2>1, EnterEnters DEF CancelSetup
<1> QED
  BY <1>4, <1>5, <1>6, <1>7, <1>8, <1>9, <1>10, <1>11, <1>12, <1>13 DEF OtherUser

(* The handlers that ask nothing more. *)
LEMMA NothingNext ==
  ASSUME TypeOK, NEW c \in calls, calls' = End(c), c.op \notin Changes,
         ~(c.op \in Rechecked /\ c.ans = "ok")
  PROVE  AsksNext(c, {})
BY FS_EmptySet DEF AsksNext

(* The handlers that remember nothing. *)
LEMMA NothingNoted ==
  ASSUME TypeOK, NEW c \in calls, hist' = hist, ~Told(c),
         ~(c.op \in {"enable", "disable"} /\ c.ans = "ok")
  PROVE  Noted(c)
BY DEF Noted, TypeOK

(* The handlers of a list page that ask for its lists again. *)
LEMMA ListingNext ==
  ASSUME TypeOK, NEW c \in calls, calls' = Listing(End(c), page, ui.range),
         page \in ListPages, c.op \in Changes
  PROVE  \E N : AsksNext(c, N)
<1>1. End(c) \in SUBSET Call /\ IsFiniteSet(End(c))
  BY FS_Subset DEF TypeOK, End
<1>2. ui.range \in Ranges
  BY DEF TypeOK, Ui
<1>3. PICK N : /\ Listing(End(c), page, ui.range) = End(c) \cup N
               /\ IsListing(N, End(c), page, ui.range)
  BY <1>1, <1>2, ListingAdds
<1>4. AsksNext(c, N)
  BY <1>3 DEF AsksNext, IsListing, Fresh, Changes, Rechecked
<1> QED
  BY <1>4

(* The handlers that have the user asked for again. *)
LEMMA SelfNext ==
  ASSUME TypeOK, NEW c \in calls, NEW th \in {"none", "dashboard"},
         calls' = Put(End(c), Refreshing(th)), c.op \in Rechecked, c.ans = "ok",
         c.op \in {"login", "callback"} => th = "dashboard"
  PROVE  \E N : AsksNext(c, N)
<1>1. End(c) \in SUBSET Call /\ IsFiniteSet(End(c))
  BY FS_Subset DEF TypeOK, End
<1>2. page \in Pages /\ "self" \in Ops /\ "none" \in Ranges \cup {"none", "code"}
  BY DEF TypeOK, Ops, ShellOps
<1>3. Asked(Refreshing(th), "self", page, "none", th)
  BY <1>2, RequestTypes DEF Refreshing
<1>4. PICK d \in Call : /\ Put(End(c), Refreshing(th)) = End(c) \cup {d}
                        /\ Asked(d, "self", page, "none", th) /\ Clear(d, End(c))
  BY <1>1, <1>3, PutAsked
<1>5. IsFiniteSet({d})
  BY FS_Singleton
<1>6. AsksNext(c, {d})
  BY <1>4, <1>5 DEF AsksNext, Asked, Changes, Rechecked
<1> QED
  BY <1>6

\* What may be shown: which calls a page has.
PagesMatch == \A c \in calls : c.op \in PageOps /\ c.home = "mounted" => c.page = page

\* An answer that a list page takes in.
ListPageTakes(c) ==
  \/ Listed(c) \/ AsideListed(c) \/ Changed(c) \/ Tested(c)
  \/ Created(c) /\ page \notin {"tokens", "agents"}
  \/ CreatedKey(c) /\ page \in {"tokens", "agents"}

(* It is of the shape TakesIn. *)
LEMMA ListPageTakesIn ==
  ASSUME TypeOK, PagesMatch, page \in ListPages, NEW c \in calls, ListPageTakes(c)
  PROVE  \E N : TakesIn(c, N)
<1>1. ui \in Ui /\ hist \in Hist /\ c \in Call
  BY DEF TypeOK
<1>2. CASE Listed(c)
  <2>1. Heard(c) /\ calls' = End(c) /\ hist' = hist /\ c.op = "list" /\ ~Told(c)
    BY <1>2 DEF Listed, Answers, Goes, Heard, PageOps, ShellOps, Told, Secret
  <2>2. Shown(c)
    <3>1. c.arg \in Ranges \cup {"none", "code"} /\ c.ver \in Nat
      BY <1>1 DEF Call
    <3>2. ui' = [ui EXCEPT !.loading = FALSE, !.of = c.arg,
                           !.rows = IF c.ans = "ok" THEN c.ver ELSE 0]
      BY <1>2 DEF Listed, Goes
    <3> QED
      BY <1>1, <2>1, <3>1, <3>2 DEF Shown, Ui, Blocking
  <2>3. AsksNext(c, {}) /\ Noted(c)
    BY <2>1, NothingNext, NothingNoted DEF Changes, Rechecked
  <2> QED
    BY <2>1, <2>2, <2>3 DEF TakesIn
<1>3. CASE AsideListed(c)
  <2>1. Heard(c) /\ calls' = End(c) /\ hist' = hist /\ c.op = "aside" /\ ~Told(c)
    BY <1>3 DEF AsideListed, Answers, Goes, Heard, PageOps, ShellOps, Told, Secret
  <2>2. Shown(c)
    <3>1. c.ver \in Nat
      BY <1>1 DEF Call
    <3>2. ui' = [ui EXCEPT !.aside = IF c.ans = "ok" THEN c.ver ELSE 0]
      BY <1>3 DEF AsideListed, Goes
    <3> QED
      BY <1>1, <2>1, <3>1, <3>2 DEF Shown, Ui, Blocking
  <2>3. AsksNext(c, {}) /\ Noted(c)
    BY <2>1, NothingNext, NothingNoted DEF Changes, Rechecked
  <2> QED
    BY <2>1, <2>2, <2>3 DEF TakesIn
<1>4. CASE Changed(c)
  <2>1. /\ Heard(c) /\ calls' = Listing(End(c), page, ui.range) /\ hist' = hist /\ ui' = ui
        /\ c.op \in {"change", "assign"} /\ ~Told(c)
    BY <1>4 DEF Changed, Reloads, Answers, Goes, Heard, PageOps, ShellOps, Told, Secret
  <2>2. Shown(c)
    BY <1>1, <2>1 DEF Shown, Blocking
  <2>3. Noted(c)
    BY <2>1, NothingNoted
  <2>4. PICK N : AsksNext(c, N)
    BY <2>1, ListingNext DEF Changes
  <2> QED
    BY <2>1, <2>2, <2>3, <2>4 DEF TakesIn
<1>5. CASE Tested(c)
  <2>1. Heard(c) /\ calls' = End(c) /\ hist' = hist /\ c.op = "test" /\ ~Told(c)
    BY <1>5 DEF Tested, Answers, Goes, Heard, PageOps, ShellOps, Told, Secret
  <2>2. Shown(c)
    <3>1. ui' = [ui EXCEPT !.step = IF c.ans = "ok" THEN "works" ELSE "fails"]
      BY <1>5 DEF Tested, Goes
    <3> QED
      BY <1>1, <2>1, <3>1 DEF Shown, Ui, Blocking, Steps
  <2>3. AsksNext(c, {}) /\ Noted(c)
    BY <2>1, NothingNext, NothingNoted DEF Changes, Rechecked
  <2> QED
    BY <2>1, <2>2, <2>3 DEF TakesIn
<1>6. CASE Created(c) /\ page \notin {"tokens", "agents"}
  <2>1. /\ Heard(c) /\ calls' = Listing(End(c), page, ui.range) /\ hist' = hist
        /\ c.op = "create"
    BY <1>6 DEF Created, Reloads, Answers, Goes, Heard, PageOps, ShellOps
  <2>2. ~Told(c)
    <3>1. c.page = page
      BY <2>1 DEF PagesMatch, Heard
    <3> QED
      BY <1>6, <2>1, <3>1 DEF Told, Secret
  <2>3. Shown(c)
    <3>1. ui' = [ui EXCEPT !.busy = FALSE, !.form = FALSE,
                           !.filled = @ /\ page = "redemption"]
      BY <1>6 DEF Created, Reloads, Goes
    <3> QED
      BY <1>1, <2>1, <3>1 DEF Shown, Ui, Blocking
  <2>4. Noted(c)
    BY <2>1, <2>2, NothingNoted
  <2>5. PICK N : AsksNext(c, N)
    BY <2>1, ListingNext DEF Changes
  <2> QED
    BY <2>1, <2>3, <2>4, <2>5 DEF TakesIn
<1>7. CASE CreatedKey(c) /\ page \in {"tokens", "agents"}
  <2>1. /\ Heard(c) /\ calls' = Listing(End(c), page, ui.range) /\ c.op = "create"
        /\ hist' = [hist EXCEPT !.untold = IF c.ans = "ok" THEN @ - 1 ELSE @]
    BY <1>7 DEF CreatedKey, Answers, Goes, Heard, PageOps, ShellOps
  <2>2. Told(c) <=> c.ans = "ok"
    <3>1. c.page = page
      BY <2>1 DEF PagesMatch, Heard
    <3> QED
      BY <1>7, <2>1, <3>1 DEF Told, Secret
  <2>3. Shown(c)
    <3>1. ui' = [ui EXCEPT !.busy = FALSE, !.form = FALSE, !.filled = FALSE,
                           !.key = @ \/ c.ans = "ok"]
      BY <1>7 DEF CreatedKey
    <3> QED
      BY <1>1, <2>1, <3>1 DEF Shown, Ui, Blocking
  <2>4. Noted(c)
    BY <1>1, <2>1, <2>2 DEF Noted, Hist
  <2>5. PICK N : AsksNext(c, N)
    BY <2>1, ListingNext DEF Changes
  <2> QED
    BY <2>1, <2>3, <2>4, <2>5 DEF TakesIn
<1> QED
  BY <1>2, <1>3, <1>4, <1>5, <1>6, <1>7 DEF ListPageTakes

\* An answer that another page takes in.
OtherTakes(c) ==
  \/ StatusKnown(c) \/ LoginAnswered(c) \/ CallbackAnswered(c)
  \/ SsoStarted(c) /\ c.ans # "ok"
  \/ PasswordAnswered(c) \/ SetupStarted(c) \/ Enabled(c) \/ Disabled(c)

(* It is of the shape TakesIn as well. *)
LEMMA OtherTakesIn ==
  ASSUME TypeOK, NEW c \in calls, OtherTakes(c)
  PROVE  \E N : TakesIn(c, N)
<1>1. ui \in Ui /\ hist \in Hist
  BY DEF TypeOK
<1>2. CASE StatusKnown(c)
  <2>1. Heard(c) /\ calls' = End(c) /\ hist' = hist /\ c.op = "status" /\ ~Told(c)
    BY <1>2 DEF StatusKnown, Answers, Goes, Heard, PageOps, ShellOps, Told, Secret
  <2>2. Shown(c)
    <3>1. ui' = [ui EXCEPT !.sso = c.ans = "ok"]
      BY <1>2 DEF StatusKnown, Goes
    <3> QED
      BY <1>1, <2>1, <3>1 DEF Shown, Ui, Blocking
  <2>3. AsksNext(c, {}) /\ Noted(c)
    BY <2>1, NothingNext, NothingNoted DEF Changes, Rechecked
  <2> QED
    BY <2>1, <2>2, <2>3 DEF TakesIn
<1>3. CASE LoginAnswered(c)
  <2>1. Heard(c) /\ hist' = hist /\ c.op = "login" /\ ~Told(c)
    BY <1>3 DEF LoginAnswered, Answers, Goes, Heard, PageOps, ShellOps, Told, Secret
  <2>2. Noted(c)
    BY <2>1, NothingNoted
  <2>3. CASE c.ans = "ok"
    <3>1. ui' = ui /\ calls' = Put(End(c), Refreshing("dashboard"))
      BY <1>3, <2>3 DEF LoginAnswered, Goes
    <3>2. Shown(c)
      BY <1>1, <2>1, <2>3, <3>1 DEF Shown, Blocking
    <3>3. PICK N : AsksNext(c, N)
      BY <2>1, <2>3, <3>1, SelfNext DEF Rechecked
    <3> QED
      BY <2>1, <2>2, <3>2, <3>3 DEF TakesIn
  <2>4. CASE c.ans # "ok"
    <3>1. /\ calls' = End(c)
          /\ \/ ui' = [ui EXCEPT !.busy = FALSE, !.step = "code"]
             \/ ui' = [ui EXCEPT !.busy = FALSE]
      BY <1>3, <2>4 DEF LoginAnswered, Goes
    <3>2. Shown(c)
      BY <1>1, <2>1, <3>1 DEF Shown, Ui, Steps
    <3>3. AsksNext(c, {})
      BY <2>1, <2>4, <3>1, NothingNext DEF Changes
    <3> QED
      BY <2>1, <2>2, <3>2, <3>3 DEF TakesIn
  <2> QED
    BY <2>3, <2>4
<1>4. CASE SsoStarted(c) /\ c.ans # "ok"
  <2>1. /\ Heard(c) /\ calls' = End(c) /\ hist' = hist /\ c.op = "state" /\ ~Told(c)
        /\ ui' = [ui EXCEPT !.busy = FALSE]
    BY <1>4 DEF SsoStarted, Answers, Goes, Heard, PageOps, ShellOps, Told, Secret
  <2>2. Shown(c)
    BY <1>1, <2>1 DEF Shown, Ui
  <2>3. AsksNext(c, {}) /\ Noted(c)
    BY <2>1, NothingNext, NothingNoted DEF Changes, Rechecked
  <2> QED
    BY <2>1, <2>2, <2>3 DEF TakesIn
<1>5. CASE CallbackAnswered(c)
  <2>1. Heard(c) /\ hist' = hist /\ c.op = "callback" /\ ~Told(c)
    BY <1>5 DEF CallbackAnswered, Answers, Goes, Heard, PageOps, ShellOps, Told, Secret
  <2>2. Noted(c)
    BY <2>1, NothingNoted
  <2>3. CASE c.ans = "ok"
    <3>1. ui' = ui /\ calls' = Put(End(c), Refreshing("dashboard"))
      BY <1>5, <2>3 DEF CallbackAnswered, Goes
    <3>2. Shown(c)
      BY <1>1, <2>1, <3>1 DEF Shown, Blocking
    <3>3. PICK N : AsksNext(c, N)
      BY <2>1, <2>3, <3>1, SelfNext DEF Rechecked
    <3> QED
      BY <2>1, <2>2, <3>2, <3>3 DEF TakesIn
  <2>4. CASE c.ans # "ok"
    <3>1. calls' = End(c) /\ ui' = [ui EXCEPT !.step = "error"]
      BY <1>5, <2>4 DEF CallbackAnswered, Goes
    <3>2. Shown(c)
      BY <1>1, <2>1, <3>1 DEF Shown, Ui, Steps, Blocking
    <3>3. AsksNext(c, {})
      BY <2>1, <2>4, <3>1, NothingNext DEF Changes
    <3> QED
      BY <2>1, <2>2, <3>2, <3>3 DEF TakesIn
  <2> QED
    BY <2>3, <2>4
<1>6. CASE PasswordAnswered(c)
  <2>1. /\ Heard(c) /\ hist' = hist /\ c.op = "password" /\ ~Told(c)
        /\ ui' = [ui EXCEPT !.saving = FALSE]
        /\ calls' = IF c.ans = "ok" THEN Watched(End(c), auth.user) ELSE End(c)
    BY <1>6 DEF PasswordAnswered, Answers, Goes, Heard, PageOps, ShellOps, Told, Secret
  <2>2. Shown(c)
    BY <1>1, <2>1 DEF Shown, Ui, Blocking
  <2>3. Noted(c)
    BY <2>1, NothingNoted
  <2>4. \E N : AsksNext(c, N)
    <3>1. End(c) \in SUBSET Call /\ IsFiniteSet(End(c))
      BY FS_Subset DEF TypeOK, End
    <3>2. auth.user \in Int /\ page \in Pages
      BY DEF TypeOK, Auth
    <3>3. PICK N : /\ Watched(End(c), auth.user) = End(c) \cup N
                   /\ Fresh(N, End(c), page, {"security"})
      BY <3>1, <3>2, WatchedAdds
    <3>4. CASE c.ans = "ok"
      <4>1. calls' = End(c) \cup N
        BY <2>1, <3>3, <3>4
      <4>2. AsksNext(c, N)
        BY <2>1, <3>3, <4>1 DEF AsksNext, Fresh, Changes, Rechecked
      <4> QED
        BY <4>2
    <3>5. CASE c.ans # "ok"
      BY <2>1, <3>5, NothingNext DEF Changes
    <3> QED
      BY <3>4, <3>5
  <2> QED
    BY <2>1, <2>2, <2>3, <2>4 DEF TakesIn
<1>7. CASE SetupStarted(c)
  <2>1. Heard(c) /\ calls' = End(c) /\ hist' = hist /\ c.op = "setup" /\ ~Told(c)
    BY <1>7 DEF SetupStarted, Answers, Goes, Heard, PageOps, ShellOps, Told, Secret
  <2>2. Shown(c)
    <3>1. ui' = [ui EXCEPT !.busy = FALSE, !.step = IF c.ans = "ok" THEN "scan" ELSE @]
      BY <1>7 DEF SetupStarted, Goes
    <3> QED
      BY <1>1, <2>1, <3>1 DEF Shown, Ui, Steps
  <2>3. AsksNext(c, {}) /\ Noted(c)
    BY <2>1, NothingNext, NothingNoted DEF Changes, Rechecked
  <2> QED
    BY <2>1, <2>2, <2>3 DEF TakesIn
<1>8. CASE Enabled(c)
  <2>1. /\ Heard(c) /\ c.op = "enable" /\ (Told(c) <=> c.ans = "ok")
        /\ calls' = IF c.ans = "ok" THEN Put(End(c), Refreshing("none")) ELSE End(c)
    BY <1>8 DEF Enabled, Answers, Heard, PageOps, ShellOps, Told, Secret
  <2>2. Shown(c)
    <3>1. ui' = [ui EXCEPT !.busy = FALSE, !.step = IF c.ans = "ok" THEN "codes" ELSE @]
      BY <1>8 DEF Enabled
    <3> QED
      BY <1>1, <2>1, <3>1 DEF Shown, Ui, Steps
  <2>3. Noted(c)
    <3>1. hist' = [hist EXCEPT !.untold = IF c.ans = "ok" THEN @ - 1 ELSE @,
                       !.crossed = @ \/ (c.ans = "ok" /\ Pending(End(c), SessionOps))]
      BY <1>8 DEF Enabled
    <3>2. ASSUME NEW n \in Int, NEW x \in BOOLEAN
          PROVE  [hist EXCEPT !.untold = n, !.crossed = x] \in Hist
      BY <1>1 DEF Hist
    <3>3. (IF c.ans = "ok" THEN hist.untold - 1 ELSE hist.untold) \in Int
      BY <1>1 DEF Hist
    <3>4. (hist.crossed \/ (c.ans = "ok" /\ Pending(End(c), SessionOps))) \in BOOLEAN
      OBVIOUS
    <3>5. hist' \in Hist
      BY <3>1, <3>2, <3>3, <3>4, Zenon
    <3>6. hist'.untold = IF c.ans = "ok" THEN hist.untold - 1 ELSE hist.untold
      BY <1>1, <3>1 DEF Hist
    <3>7. hist'.crossed <=> hist.crossed \/ (c.ans = "ok" /\ Pending(End(c), SessionOps))
      BY <1>1, <3>1 DEF Hist
    <3>8. /\ hist'.blind = hist.blind /\ (hist'.hurried <=> hist.hurried)
          /\ (hist'.lost <=> hist.lost) /\ (hist'.ended <=> hist.ended)
          /\ (hist'.left <=> hist.left)
      BY <1>1, <3>1 DEF Hist
    <3> QED
      BY <2>1, <3>5, <3>6, <3>7, <3>8 DEF Noted
  <2>4. \E N : AsksNext(c, N)
    <3>1. CASE c.ans = "ok"
      BY <2>1, <3>1, SelfNext DEF Rechecked
    <3>2. CASE c.ans # "ok"
      BY <2>1, <3>2, NothingNext DEF Changes
    <3> QED
      BY <3>1, <3>2
  <2> QED
    BY <2>1, <2>2, <2>3, <2>4 DEF TakesIn
<1>9. CASE Disabled(c)
  <2>1. /\ Heard(c) /\ c.op = "disable" /\ ~Told(c)
        /\ calls' = IF c.ans = "ok" THEN Put(End(c), Refreshing("none")) ELSE End(c)
    BY <1>9 DEF Disabled, Answers, Heard, PageOps, ShellOps, Told, Secret
  <2>2. Shown(c)
    <3>1. ui' = [ui EXCEPT !.busy = FALSE, !.step = IF c.ans = "ok" THEN "none" ELSE @]
      BY <1>9 DEF Disabled
    <3> QED
      BY <1>1, <2>1, <3>1 DEF Shown, Ui, Steps
  <2>3. Noted(c)
    <3>1. hist' = [hist EXCEPT !.crossed = @ \/ (c.ans = "ok" /\ Pending(End(c), SessionOps))]
      BY <1>9 DEF Disabled
    <3> QED
      BY <1>1, <2>1, <3>1 DEF Noted, Hist
  <2>4. \E N : AsksNext(c, N)
    <3>1. CASE c.ans = "ok"
      BY <2>1, <3>1, SelfNext DEF Rechecked
    <3>2. CASE c.ans # "ok"
      BY <2>1, <3>2, NothingNext DEF Changes
    <3> QED
      BY <3>1, <3>2
  <2> QED
    BY <2>1, <2>2, <2>3, <2>4 DEF TakesIn
<1> QED
  BY <1>2, <1>3, <1>4, <1>5, <1>6, <1>7, <1>8, <1>9 DEF OtherTakes

(* What loads a document has the shape Loads. *)
LEMMA DocumentLoads ==
  ASSUME TypeOK, NEW cs \in SUBSET calls, \A c \in calls \ cs : c.phase = "served" /\ ~Told(c),
         NEW p \in Pages, Document(p, cs), UNCHANGED <<sess, db>>,
         hist' \in Hist, hist'.hurried <=> Changing(cs),
         hist'.crossed <=> hist.crossed \/ Pending(cs, SessionOps),
         hist'.left <=> hist.left \/ Telling(cs),
         hist'.untold = hist.untold, hist'.blind = {}, hist'.lost <=> hist.lost,
         hist'.ended <=> hist.ended
  PROVE  \E N : Loads(cs, N)
<1>1. cs \in SUBSET Call /\ IsFiniteSet(cs)
  BY FS_Subset DEF TypeOK
<1>2. Gone(cs) \in SUBSET Call /\ IsFiniteSet(Gone(cs))
  BY <1>1, LeftTypes
<1>3. PICK N : /\ Asks(Put(Gone(cs), Request("self", p, "none", "none")), p) = Gone(cs) \cup N
               /\ IsDocument(N, Gone(cs), p)
  BY <1>2, DocumentAdds
<1>4. CASE p = "elsewhere"
  <2>1. calls' = Gone(cs) \cup {}
    BY <1>4 DEF Document
  <2>2. Loads(cs, {})
    BY <1>4, <2>1 DEF Loads, Document
  <2> QED
    BY <2>2
<1>5. CASE p # "elsewhere"
  <2>1. calls' = Gone(cs) \cup N
    BY <1>3, <1>5 DEF Document
  <2>2. Loads(cs, N)
    BY <1>3, <1>5, <2>1 DEF Loads, Document
  <2> QED
    BY <2>2
<1> QED
  BY <1>4, <1>5

(* A link of the sidebar, and the identity provider, load a document. *)
LEMMA LinksLoad ==
  ASSUME TypeOK, Follow \/ Callback
  PROVE  \E N : Loads(calls, N)
<1>1. hist \in Hist /\ Visited(calls) \in Hist
  BY VisitedTypes DEF TypeOK
<1>2. PICK p \in Pages : Document(p, calls)
  BY DEF Follow, Callback, Pages
<1>3. UNCHANGED <<sess, db>>
  BY DEF Follow, Callback
<1>4. /\ hist' \in Hist
      /\ hist'.hurried <=> Visited(calls).hurried
      /\ hist'.crossed <=> Visited(calls).crossed
      /\ hist'.left <=> Visited(calls).left
      /\ hist'.untold = Visited(calls).untold
      /\ hist'.blind = Visited(calls).blind
      /\ hist'.lost <=> Visited(calls).lost
      /\ hist'.ended <=> Visited(calls).ended
  <2>1. CASE Follow
    <3>1. hist' = [Visited(calls) EXCEPT !.asked = @ + 1]
      BY <2>1 DEF Follow
    <3> QED
      BY <1>1, <3>1 DEF Hist
  <2>2. CASE Callback
    <3>1. hist' = [Visited(calls) EXCEPT !.used = FALSE]
      BY <2>2 DEF Callback
    <3> QED
      BY <1>1, <3>1 DEF Hist
  <2> QED
    BY <2>1, <2>2
<1> HIDE DEF Follow, Callback
<1> QED
  BY <1>1, <1>2, <1>3, <1>4, VisitedTypes, DocumentLoads

(* So do a session that is no more, and the way to the identity provider. *)
LEMMA AnswersLoad ==
  ASSUME TypeOK, NEW c \in calls,
         (Unauthorized(c) /\ page # "login") \/ (SsoStarted(c) /\ c.ans = "ok")
  PROVE  \E N : Loads(End(c), N)
<1>1. hist \in Hist
  BY DEF TypeOK
<1>2. PICK p \in Pages : Document(p, End(c))
  BY DEF Unauthorized, SsoStarted, Pages
<1>3. UNCHANGED <<sess, db>> /\ hist' = Visited(End(c))
  BY DEF Unauthorized, SsoStarted
<1>4. c.phase = "served" /\ ~Told(c)
  BY DEF Unauthorized, SsoStarted, Answers, Expelled, Told, Secret
<1>5. End(c) \in SUBSET calls /\ \A b \in calls \ End(c) : b = c
  BY DEF End
<1>6. \A b \in calls \ End(c) : b.phase = "served" /\ ~Told(b)
  BY <1>4, <1>5
<1> QED
  BY <1>1, <1>2, <1>3, <1>5, <1>6, VisitedTypes, DocumentLoads

(* The guard of a page and a link of the dashboard have the shape Moves. *)
LEMMA LinksMove ==
  ASSUME TypeOK, Guard \/ QuickLink
  PROVE  \E N : Moves(N)
<1>1. hist \in Hist /\ Visited(calls) \in Hist
  BY VisitedTypes DEF TypeOK
<1>2. calls \in SUBSET Call /\ IsFiniteSet(calls) /\ auth.user \in Int
  BY DEF TypeOK, Auth
<1>3. PICK p \in Pages \ {"oidc", "elsewhere"} : Route(p, calls, auth.user)
  <2>1. "login" \in Pages /\ "dashboard" \in Pages /\ Quick \subseteq Pages
    BY DEF Pages, Protected, Quick
  <2>2. "oidc" \notin Quick /\ "elsewhere" \notin Quick
    BY DEF Quick, ListPages, Lists
  <2> QED
    BY <2>1, <2>2 DEF Guard, QuickLink
<1>4. PICK N : /\ Entered(Asks(Left(calls, PageOps), p), p, auth.user, "30")
                     = Left(calls, PageOps) \cup N
               /\ IsRoute(N, Left(calls, PageOps), p, auth.user)
  BY <1>2, RouteAdds
<1>5. UNCHANGED <<sess, db>> /\ UNCHANGED auth /\ page \in Protected
  BY DEF Guard, QuickLink, Protected
<1>6. /\ hist' \in Hist
      /\ hist'.hurried <=> Visited(calls).hurried
      /\ hist'.left <=> Visited(calls).left
      /\ hist'.untold = Visited(calls).untold
      /\ hist'.blind = Visited(calls).blind
      /\ hist'.lost <=> Visited(calls).lost
      /\ hist'.ended <=> Visited(calls).ended
      /\ hist.crossed => hist'.crossed
      /\ page # "dashboard" => hist'.crossed \/ ~Pending(calls, SessionOps)
  <2>1. CASE Guard
    <3>1. hist' = Visited(calls)
      BY <2>1 DEF Guard
    <3> QED
      BY <1>1, <3>1, VisitedTypes
  <2>2. CASE QuickLink
    <3>1. /\ hist' = [Visited(calls) EXCEPT !.asked = hist.asked + 1, !.crossed = hist.crossed]
          /\ page = "dashboard"
      BY <2>2 DEF QuickLink, Visited
    <3>2. ASSUME NEW n \in Nat, NEW x \in BOOLEAN
          PROVE  [Visited(calls) EXCEPT !.asked = n, !.crossed = x] \in Hist
      BY <1>1 DEF Hist
    <3>3. hist.asked + 1 \in Nat /\ hist.crossed \in BOOLEAN
      BY <1>1 DEF Hist
    <3>4. hist' \in Hist
      BY <3>1, <3>2, <3>3
    <3> QED
      BY <1>1, <3>1, <3>4 DEF Hist
  <2> QED
    BY <2>1, <2>2
<1>7. Moved(calls)
  BY <1>1, <1>3, <1>5, <1>6, VisitedTypes DEF Moved, Route
<1>8. Moves(N)
  BY <1>3, <1>4, <1>5, <1>6, <1>7 DEF Moves, Route
<1> QED
  BY <1>8

(* refresh() renews the user, and stays or returns to the dashboard. *)
LEMMA RefreshedShape ==
  ASSUME TypeOK, NEW c \in calls, Refreshed(c)
  PROVE  \E N : Renews(c, N) \/ Returns(c, N)
<1> DEFINE u == IF c.ans = "ok" THEN c.who ELSE 0
           cs == Watched(End(c), u)
<1>1. c \in Call /\ auth \in Auth /\ ui \in Ui /\ hist \in Hist /\ page \in Pages
  BY DEF TypeOK
<1>2. u \in Int /\ c.then \in {"none", "dashboard"} /\ c.flag \in BOOLEAN
  BY <1>1 DEF Call
<1>3. End(c) \in SUBSET Call /\ IsFiniteSet(End(c))
  BY FS_Subset DEF TypeOK, End
<1>4. PICK M : cs = End(c) \cup M /\ Fresh(M, End(c), page, {"security"})
  <2> HIDE DEF u
  <2> QED
    BY <1>1, <1>2, <1>3, WatchedAdds
<1>5. cs \in SUBSET Call /\ IsFiniteSet(cs)
  <2>1. M \in SUBSET Call /\ IsFiniteSet(M)
    BY <1>4 DEF Fresh
  <2>2. IsFiniteSet(End(c) \cup M)
    BY <1>3, <2>1, FS_Union
  <2> QED
    BY <1>3, <1>4, <2>1, <2>2
<1>6. Known(c) /\ auth'.user = u
  <2>1. auth' = [auth EXCEPT !.user = u, !.factor = u # 0 /\ c.flag, !.loading = FALSE]
    BY DEF Refreshed
  <2>2. (u # 0 /\ c.flag) \in BOOLEAN
    OBVIOUS
  <2>3. ASSUME NEW k \in Int, NEW f \in BOOLEAN
        PROVE  [auth EXCEPT !.user = k, !.factor = f, !.loading = FALSE] \in Auth
    BY <1>1 DEF Auth
  <2>4. auth' \in Auth
    BY <1>2, <2>1, <2>2, <2>3
  <2>5. auth'.user = u /\ ~auth'.loading /\ (auth'.factor <=> u # 0 /\ c.flag)
    <3> HIDE DEF u
    <3> QED
      BY <1>1, <2>1 DEF Auth
  <2> QED
    BY <2>4, <2>5 DEF Known, Refreshed, Answers
<1>7. UNCHANGED <<sess, db>>
  BY DEF Refreshed
<1>8. CASE c.then = "dashboard"
  <2>1. Route("dashboard", cs, u) /\ hist' = Visited(End(c))
    BY <1>8 DEF Refreshed
  <2>2. "dashboard" \in Pages /\ "dashboard" \notin ListPages
    BY DEF Pages, Protected, ListPages, Lists
  <2> HIDE DEF cs, u
  <2>3. page' = "dashboard" /\ ui' = Mount("dashboard") /\ calls' = Left(cs, PageOps)
    BY <2>1, <2>2 DEF Route, Entered, Admits, Asks
  <2>4. Moved(End(c))
    BY <1>1, <1>7, <2>1, <2>2, <2>3, VisitedTypes DEF Moved
  <2>5. hist'.crossed <=> hist.crossed \/ Pending(End(c), SessionOps)
    BY <1>1, <2>1, VisitedTypes
  <2>6. Returns(c, M)
    BY <1>4, <1>6, <1>8, <2>3, <2>4, <2>5 DEF Returns
  <2> QED
    BY <2>6
<1>9. CASE c.then = "none"
  <2>1. /\ calls' = Entered(cs, page, u, ui.range)
        /\ ui' = [ui EXCEPT !.loading = @ \/ (page = "costs" /\ Admits(page, u))]
        /\ hist' = [hist EXCEPT !.hurried = @ \/ Pending(calls, DataOps)]
        /\ UNCHANGED page
    BY <1>9 DEF Refreshed
  <2>2. ui.range \in Ranges
    BY <1>1 DEF Ui
  <2> HIDE DEF cs, u
  <2>3. PICK N : /\ calls' = cs \cup N
                 /\ Fresh(N, cs, page, {"list", "aside"})
                 /\ Admits(page, u) => IsListing(N, cs, page, ui.range)
                 /\ ~Admits(page, u) => N = {}
    BY <1>1, <1>2, <1>5, <2>1, <2>2, EnteredAdds
  <2>4. Fresh(M \cup N, End(c), page, {"security"} \cup {"list", "aside"})
    <3>1. {"security"} \cap {"list", "aside"} = {}
      OBVIOUS
    <3>2. Fresh(N, End(c) \cup M, page, {"list", "aside"})
      BY <1>4, <2>3
    <3> QED
      BY <1>3, <1>4, <3>1, <3>2, FreshJoin
  <2>5. Fresh(M \cup N, End(c), page, {"security", "list", "aside"})
    <3>1. {"security"} \cup {"list", "aside"} = {"security", "list", "aside"}
      OBVIOUS
    <3> QED
      BY <2>4, <3>1
  <2>6. calls' = End(c) \cup (M \cup N)
    BY <1>4, <2>3
  <2>7. \A d \in M : d.op = "security"
    BY <1>4 DEF Fresh
  <2>8. IF Admits(page, u)
        THEN /\ \A d \in M \cup N : d.op = "list" => d.arg = ui.range
             /\ \E d \in M \cup N : d.op = "list"
             /\ page \in TwoLists => \E d \in M \cup N : d.op = "aside"
        ELSE \A d \in M \cup N : d.op = "security"
    BY <2>3, <2>7 DEF IsListing
  <2>9. /\ ui' \in Ui
        /\ ui'.rows = ui.rows /\ ui'.aside = ui.aside /\ ui'.of = ui.of
        /\ ui'.range = ui.range
        /\ ui'.loading => ui.loading \/ page \in ListPages
        /\ ui'.busy => ui.busy
        /\ ui'.saving => ui.saving
    <3>1. PICK l \in BOOLEAN : /\ ui' = [ui EXCEPT !.loading = l]
                               /\ l => ui.loading \/ page \in ListPages
      BY <2>1 DEF Admits
    <3> QED
      BY <1>1, <3>1 DEF Ui
  <2>10. /\ hist' \in Hist
         /\ hist'.hurried <=> hist.hurried \/ Pending(calls, DataOps)
         /\ hist'.crossed <=> hist.crossed
         /\ hist'.untold = hist.untold /\ hist'.blind = hist.blind
         /\ hist'.lost <=> hist.lost
         /\ hist'.ended <=> hist.ended
         /\ hist'.left <=> hist.left
    BY <1>1, <2>1 DEF Hist
  <2>11. Renews(c, M \cup N)
    BY <1>6, <1>7, <1>9, <2>1, <2>5, <2>6, <2>8, <2>9, <2>10 DEF Renews
  <2> QED
    BY <2>11
<1> QED
  BY <1>2, <1>8, <1>9

\* The login page hears of a session that is no more.
Stays(c) == Unauthorized(c) /\ page = "login"

(* Every step has one of these shapes. *)
LEMMA Shapes ==
  ASSUME TypeOK, PagesMatch, Next
  PROVE  \/ Enters \/ UserAsks \/ SessionEnds
         \/ \E N : Loads(calls, N) \/ Moves(N)
         \/ \E c \in calls : \/ ServeProtected(c) \/ ServePublic(c) \/ Lost(c)
                             \/ Stays(c) \/ Ignored(c) \/ Checked(c) \/ LoggedOut(c)
                             \/ \E N : \/ TakesIn(c, N) \/ Loads(End(c), N)
                                       \/ Renews(c, N) \/ Returns(c, N)
<1>1. CASE Server
  BY <1>1 DEF Server
<1>2. CASE Shell
  <2>1. CASE Guard \/ Follow \/ QuickLink
    BY <2>1, LinksLoad, LinksMove
  <2>2. CASE Logout
    BY <2>2, OtherShape DEF OtherUser
  <2>3. ASSUME NEW c \in calls, Unauthorized(c)
        PROVE  Stays(c) \/ \E N : Loads(End(c), N)
    BY <2>3, AnswersLoad DEF Stays
  <2>4. ASSUME NEW c \in calls, Refreshed(c)
        PROVE  \E N : Renews(c, N) \/ Returns(c, N)
    BY <2>4, RefreshedShape
  <2> QED
    BY <1>2, <2>1, <2>2, <2>3, <2>4 DEF Shell
<1>3. CASE LoginPages
  <2>1. CASE Submit \/ StartSso \/ CallbackAgain
    BY <2>1, OtherShape DEF OtherUser
  <2>2. CASE Callback
    BY <2>2, LinksLoad
  <2>3. ASSUME NEW c \in calls, StatusKnown(c) \/ LoginAnswered(c) \/ CallbackAnswered(c)
        PROVE  \E N : TakesIn(c, N)
    BY <2>3, OtherTakesIn DEF OtherTakes
  <2>4. ASSUME NEW c \in calls, SsoStarted(c)
        PROVE  \E N : TakesIn(c, N) \/ Loads(End(c), N)
    BY <2>4, OtherTakesIn, AnswersLoad DEF OtherTakes
  <2> QED
    BY <1>3, <2>1, <2>2, <2>3, <2>4 DEF LoginPages
<1>4. ASSUME page \in ListPages, Usable, ListPageUser
      PROVE  UserAsks \/ Enters
  BY <1>4, ListPageShape
<1>5. ASSUME page \in ListPages, NEW c \in calls, ListPageTakes(c)
      PROVE  \E N : TakesIn(c, N)
  BY <1>5, ListPageTakesIn
<1>6. /\ {"providers", "tokens", "organizations", "budgets", "agents", "users", "redemption",
          "costs", "usage", "logs"} \subseteq ListPages
  BY DEF ListPages, Lists
<1>7. CASE Providers
  BY <1>4, <1>5, <1>6, <1>7
  DEF Providers, ProvidersRow, ProvidersForm, At, ListPageUser, ListPageTakes
<1>8. CASE Tokens
  BY <1>4, <1>5, <1>6, <1>8 DEF Tokens, TokensRow, TokensForm, At, ListPageUser, ListPageTakes
<1>9. CASE Organizations
  BY <1>4, <1>5, <1>6, <1>9
  DEF Organizations, OrganizationsRow, OrganizationsForm, At, ListPageUser, ListPageTakes
<1>10. CASE Budgets
  BY <1>4, <1>5, <1>6, <1>10
  DEF Budgets, BudgetsRow, BudgetsForm, At, ListPageUser, ListPageTakes
<1>11. CASE Agents
  BY <1>4, <1>5, <1>6, <1>11 DEF Agents, AgentsRow, AgentsForm, At, ListPageUser, ListPageTakes
<1>12. CASE Users
  BY <1>4, <1>5, <1>6, <1>12 DEF Users, UsersRow, UsersForm, At, ListPageUser, ListPageTakes
<1>13. CASE Redemption
  BY <1>4, <1>5, <1>6, <1>13
  DEF Redemption, RedemptionRow, RedemptionForm, At, ListPageUser, ListPageTakes
<1>14. CASE Costs
  BY <1>5, <1>6, <1>14, OtherShape DEF Costs, At, OtherUser, ListPageTakes
<1>15. CASE Usage \/ Logs
  BY <1>5, <1>6, <1>15 DEF Usage, Logs, ListPageTakes
<1>16. CASE TwoFactor
  BY <1>16, OtherShape, OtherTakesIn DEF TwoFactor, At, OtherUser, OtherTakes
<1>17. CASE ChangePassword
  BY <1>17, OtherShape, OtherTakesIn DEF ChangePassword, At, OtherUser, OtherTakes
<1> QED
  BY <1>1, <1>2, <1>3, <1>7, <1>8, <1>9, <1>10, <1>11, <1>12, <1>13, <1>14, <1>15, <1>16, <1>17
  DEF Next, PagesNext

\* The server answers c with d, unless c came from a document that is gone.
Serves(c, d) ==
  /\ c \in calls /\ c.phase = "asked"
  /\ d \in Call /\ d.phase = "served"
  /\ d.op = c.op /\ d.page = c.page /\ d.arg = c.arg /\ d.then = c.then /\ d.home = c.home
  /\ d.n = c.n
  /\ calls' = IF c.home = "gone" THEN End(c) ELSE End(c) \cup {d}
  /\ sess' \in Accounts \cup {0} /\ db' \in Db /\ hist' \in Hist
  /\ hist'.hurried <=> hist.hurried
  /\ hist'.crossed <=> hist.crossed
  /\ hist'.lost <=> hist.lost
  /\ hist'.ended <=> hist.ended
  /\ hist'.left <=> hist.left
  /\ UNCHANGED <<page, auth, ui>>
ServesProtected(c, d) ==
  /\ Serves(c, d) /\ c.op \notin Public
  /\ d.ans \in {"ok", "refused", "401"}
  /\ sess = 0 => d.ans # "ok"
  /\ d.who = sess /\ d.ver = db.rows
  /\ c.op # "security" => (d.flag <=> sess \in db.factor)
  /\ db'.rows = IF d.ans = "ok" /\ c.op \in Changes THEN db.rows + 1 ELSE db.rows
  /\ c.op \notin {"enable", "disable"} \/ d.ans # "ok" => db'.factor = db.factor
  /\ hist'.untold = IF Told(d) /\ c.home # "gone" THEN hist.untold + 1 ELSE hist.untold
  /\ hist'.blind = IF d.ans # "ok" /\ c.op \in {"list", "aside"} /\ c.home = "mounted"
                   THEN hist.blind \cup {c.op} ELSE hist.blind
  /\ UNCHANGED sess
ServesPublic(c, d) ==
  /\ Serves(c, d) /\ c.op \in Public
  /\ \/ UNCHANGED sess
     \/ d.ans = "ok" /\ c.op \in {"login", "logout"}
     \/ d.ans = "ok" /\ c.op = "callback" /\ sess = 0
  /\ hist'.untold = hist.untold /\ hist'.blind = hist.blind
  /\ UNCHANGED db

(* The server's answer to a protected call. *)
LEMMA ProtectedShape ==
  ASSUME TypeOK, NEW c \in calls, ServeProtected(c)
  PROVE  \E d : ServesProtected(c, d)
<1>1. c \in Call /\ db \in Db /\ hist \in Hist /\ sess \in Accounts \cup {0}
  BY DEF TypeOK
<1>2. sess \in Int
  BY <1>1, ConsoleAssumption
<1>3. PICK ans \in {"ok", "refused", "401"} :
       /\ Admitted(c, ans)
       /\ db' = IF ans = "ok" THEN Effect(c) ELSE db
       /\ Served(c, ans, [c EXCEPT !.who = sess, !.ver = db.rows,
                             !.flag = IF c.op = "security" THEN db.unsafe ELSE sess \in db.factor])
       /\ hist' = [hist EXCEPT
            !.troubles = IF ans = "refused" /\ sess >= ServerRole(c) THEN @ + 1 ELSE @,
            !.untold = IF ans = "ok" /\ Secret(c) /\ c.home # "gone" THEN @ + 1 ELSE @,
            !.blind = IF ans # "ok" /\ c.op \in {"list", "aside"} /\ c.home = "mounted"
                      THEN @ \cup {c.op} ELSE @]
  BY DEF ServeProtected
<1> DEFINE f == IF c.op = "security" THEN db.unsafe ELSE sess \in db.factor
           e == [c EXCEPT !.who = sess, !.ver = db.rows, !.flag = f]
           d == [e EXCEPT !.phase = "served", !.ans = ans]
<1>4. f \in BOOLEAN /\ db.rows \in Nat
  <2>1. db.unsafe \in BOOLEAN /\ db.rows \in Nat
    BY <1>1 DEF Db
  <2>2. (sess \in db.factor) \in BOOLEAN
    OBVIOUS
  <2>3. CASE c.op = "security"
    BY <2>1, <2>3
  <2>4. CASE c.op # "security"
    BY <2>1, <2>2, <2>4
  <2> QED
    BY <2>3, <2>4
<1>5. c.op # "security" => (f <=> sess \in db.factor)
  OBVIOUS
<1>6. Served(c, ans, e)
  BY <1>3
<1> HIDE DEF f
<1>7. /\ e \in Call /\ e.who = sess /\ e.ver = db.rows /\ (e.flag <=> f)
      /\ e.op = c.op /\ e.page = c.page /\ e.arg = c.arg /\ e.then = c.then
      /\ e.home = c.home /\ e.n = c.n
  BY <1>1, <1>2, <1>4 DEF Call
<1> HIDE DEF e
<1>8. /\ d \in Call /\ d.who = sess /\ d.ver = db.rows /\ (d.flag <=> f)
      /\ d.op = c.op /\ d.page = c.page /\ d.arg = c.arg /\ d.then = c.then
      /\ d.home = c.home /\ d.n = c.n /\ d.phase = "served" /\ d.ans = ans
  BY <1>7 DEF Call
<1>9. calls' = IF c.home = "gone" THEN End(c) ELSE End(c) \cup {d}
  BY <1>6 DEF Served
<1> HIDE DEF d
<1>10. /\ db' \in Db
       /\ db'.rows = IF ans = "ok" /\ c.op \in Changes THEN db.rows + 1 ELSE db.rows
       /\ (c.op \notin {"enable", "disable"} \/ ans # "ok" => db'.factor = db.factor)
  <2>1. [db EXCEPT !.rows = @ + 1] \in Db
    BY <1>1 DEF Db
  <2>2. [db EXCEPT !.factor = @ \cup {sess}] \in Db
    BY <1>1, <1>2 DEF Db
  <2>3. [db EXCEPT !.factor = @ \ {sess}] \in Db
    BY <1>1 DEF Db
  <2>4. [db EXCEPT !.unsafe = @ /\ sess # 100] \in Db
    BY <1>1 DEF Db
  <2>5. Effect(c) \in Db
    BY <1>1, <2>1, <2>2, <2>3, <2>4, Zenon DEF Effect
  <2>6. /\ Effect(c).rows = IF c.op \in Changes THEN db.rows + 1 ELSE db.rows
        /\ c.op \notin {"enable", "disable"} => Effect(c).factor = db.factor
    BY <1>1 DEF Effect, Db, Changes
  <2> QED
    BY <1>1, <1>3, <2>5, <2>6
<1>11. hist' \in Hist
  <2>1. ASSUME NEW t \in Nat, NEW n \in Int, NEW b \in SUBSET {"list", "aside"}
        PROVE  [hist EXCEPT !.troubles = t, !.untold = n, !.blind = b] \in Hist
    BY <1>1 DEF Hist
  <2>2. (IF ans = "refused" /\ sess >= ServerRole(c) THEN hist.troubles + 1
         ELSE hist.troubles) \in Nat
    BY <1>1 DEF Hist
  <2>3. (IF ans = "ok" /\ Secret(c) /\ c.home # "gone" THEN hist.untold + 1
         ELSE hist.untold) \in Int
    BY <1>1 DEF Hist
  <2>4. (IF ans # "ok" /\ c.op \in {"list", "aside"} /\ c.home = "mounted"
         THEN hist.blind \cup {c.op} ELSE hist.blind) \in SUBSET {"list", "aside"}
    BY <1>1 DEF Hist
  <2> QED
    BY <1>3, <2>1, <2>2, <2>3, <2>4, Zenon
<1>12. /\ hist'.untold = IF ans = "ok" /\ Secret(c) /\ c.home # "gone" THEN hist.untold + 1
                         ELSE hist.untold
       /\ hist'.blind = IF ans # "ok" /\ c.op \in {"list", "aside"} /\ c.home = "mounted"
                        THEN hist.blind \cup {c.op} ELSE hist.blind
       /\ hist'.hurried <=> hist.hurried
       /\ hist'.crossed <=> hist.crossed
       /\ hist'.lost <=> hist.lost
       /\ hist'.ended <=> hist.ended
       /\ hist'.left <=> hist.left
  BY <1>1, <1>3 DEF Hist
<1>13. Secret(d) <=> Secret(c)
  BY <1>8 DEF Secret
<1>14. sess = 0 => ans # "ok"
  BY <1>3 DEF Admitted
<1>15. c.phase = "asked" /\ c.op \notin Public /\ UNCHANGED <<sess, page, auth, ui>>
  BY DEF ServeProtected
<1>16. Serves(c, d)
  BY <1>1, <1>8, <1>9, <1>10, <1>11, <1>12, <1>15 DEF Serves
<1>17. ServesProtected(c, d)
  BY <1>3, <1>5, <1>8, <1>10, <1>12, <1>13, <1>14, <1>15, <1>16 DEF ServesProtected, Told
<1> QED
  BY <1>17

(* The server's answer to a public one. *)
LEMMA PublicShape ==
  ASSUME TypeOK, NEW c \in calls, ServePublic(c)
  PROVE  \E d : ServesPublic(c, d)
<1>1. c \in Call /\ db \in Db /\ hist \in Hist /\ sess \in Accounts \cup {0}
  BY DEF TypeOK
<1>2. PICK ans \in {"ok", "refused", "code"} :
       /\ c.op = "logout" => ans = "ok"
       /\ IF c.op = "login" /\ ans = "ok"
          THEN sess' \in {a \in Accounts : a \in db.factor => c.arg = "code"}
          ELSE IF c.op = "callback" /\ ans = "ok" /\ sess = 0 THEN sess' \in Accounts
          ELSE sess' = IF c.op = "logout" THEN 0 ELSE sess
       /\ hist' = [hist EXCEPT !.used = @ \/ (c.op = "callback" /\ ans = "ok")]
       /\ Served(c, ans, c)
  BY DEF ServePublic
<1> DEFINE d == [c EXCEPT !.phase = "served", !.ans = ans]
<1>3. /\ d \in Call /\ d.op = c.op /\ d.page = c.page /\ d.arg = c.arg /\ d.then = c.then
      /\ d.home = c.home /\ d.n = c.n /\ d.phase = "served" /\ d.ans = ans
  BY <1>1 DEF Call
<1>4. calls' = IF c.home = "gone" THEN End(c) ELSE End(c) \cup {d}
  BY <1>2 DEF Served
<1> HIDE DEF d
<1>5. /\ sess' \in Accounts \cup {0}
      /\ \/ UNCHANGED sess
         \/ ans = "ok" /\ c.op \in {"login", "logout"}
         \/ ans = "ok" /\ c.op = "callback" /\ sess = 0
  BY <1>1, <1>2
<1>6. /\ hist' \in Hist
      /\ hist'.untold = hist.untold /\ hist'.blind = hist.blind
      /\ hist'.hurried <=> hist.hurried
      /\ hist'.crossed <=> hist.crossed
      /\ hist'.lost <=> hist.lost
      /\ hist'.ended <=> hist.ended
      /\ hist'.left <=> hist.left
  BY <1>1, <1>2 DEF Hist
<1>7. c.phase = "asked" /\ c.op \in Public /\ UNCHANGED <<db, page, auth, ui>>
  BY DEF ServePublic
<1>8. Serves(c, d)
  BY <1>1, <1>3, <1>4, <1>5, <1>6, <1>7 DEF Serves
<1>9. ServesPublic(c, d)
  BY <1>3, <1>5, <1>6, <1>7, <1>8 DEF ServesPublic
<1> QED
  BY <1>9
-----------------------------------------------------------------------------
(* What every step keeps                                                   *)

\* A document that is gone has nothing but changes under way, and only calls of
\* a page are left behind; what is asked has no answer; the calls of a page that
\* are not left behind are those of the page shown; numbers tell calls apart.
OfAPage(c) == c.op \in PageOps /\ c.home = "mounted"
Homes(c) ==
  /\ c.home = "gone" => c.phase = "asked" /\ c.op \in Writes
  /\ c.home = "left" => c.op \in PageOps
  /\ c.phase = "asked" => c.ans = "none"
Numbered(cs) == \A c, d \in cs : c.op = d.op /\ c.n = d.n => c = d
Sound(cs, p) ==
  /\ cs \in SUBSET Call /\ IsFiniteSet(cs) /\ Numbered(cs)
  /\ \A c \in cs : Homes(c) /\ (OfAPage(c) => c.page = p)
Base == TypeOK /\ Sound(calls, page)

\* Behind everything that waits there is a call.
Behind ==
  ~hist.lost /\ page # "elsewhere" =>
    /\ auth.loading => \E c \in calls : c.op = "self"
    /\ ui.busy => \E c \in calls : \/ c.op \in Blocking /\ c.home = "mounted"
                                   \/ c.op = "self" /\ c.then = "dashboard"
    /\ ui.saving => \E c \in calls : c.op = "password" /\ c.home = "mounted"
    /\ ui.loading => page \in ListPages
    /\ Usable /\ ui.loading => \E c \in calls : c.op = "list" /\ c.home = "mounted"

\* The secrets not shown yet are those of the answers on their way.
OnTheirWay(cs) == {c \in cs : Told(c) /\ c.home = "mounted"}
SecretsCounted ==
  ~hist.left /\ ~hist.lost =>
    /\ hist.untold = Cardinality(OnTheirWay(calls))
    /\ \A c \in calls : Secret(c) => c.home # "left"

\* Calls about the session do not cross, and the console knows the session
\* whenever none of them has changed it or will say who it is.
Settled(c) == c.op # "self" /\ ~(c.phase = "served" /\ c.ans = "ok")
OfSession(c) == c.op \in SessionOps
AtTheirPage == \A c \in calls : OfSession(c) => c.home = "mounted" /\ AtHome(c.op)
Alone ==
  \A c, d \in calls :
    OfSession(c) /\ OfSession(d) /\ c # d => {c.op, d.op} \subseteq {"self", "callback"}
Honest ==
  \A c \in calls : c.op = "self" /\ c.phase = "served" /\ c.ans = "ok" =>
    c.who = sess /\ sess # 0 /\ (c.flag <=> sess \in db.factor)
Named ==
  auth.user # 0 /\ (\A c \in calls : OfSession(c) => Settled(c)) =>
    auth.user = sess /\ (auth.factor <=> sess \in db.factor)
Knows ==
  ~hist.crossed /\ ~hist.ended /\ ~hist.lost => AtTheirPage /\ Alone /\ Honest /\ Named

\* A list that is shown or on its way holds every change, and nothing of the
\* page is in flight beside a change.
OfPage(c, ops) == c.op \in ops /\ c.home = "mounted"
Still(ops) == \A c \in calls : ~OfPage(c, ops)
FromThisPage == \A c \in calls : c.op \in Changes /\ c.phase = "asked" => c.home = "mounted"
OneAtATime ==
  \A c, d \in calls :
    OfPage(c, DataOps) /\ OfPage(d, DataOps) /\ (c.op = d.op \/ c.op \in Changes) => c = d
RightRange == \A c \in calls : OfPage(c, {"list"}) => c.arg = ui.range
TrueAnswers ==
  \A c \in calls : OfPage(c, {"list", "aside"}) /\ c.phase = "served" =>
    IF c.ans = "ok" THEN c.ver = db.rows ELSE c.op \in hist.blind
ListTrue ==
  Usable /\ page \in ListPages /\ Still(Changes \cup {"list"}) /\ "list" \notin hist.blind =>
    ui.rows = db.rows /\ ui.of = ui.range
AsideTrue ==
  Usable /\ page \in TwoLists /\ Still(Changes \cup {"aside"}) /\ "aside" \notin hist.blind =>
    ui.aside = db.rows
UpToDate ==
  ~hist.hurried /\ ~hist.lost =>
    FromThisPage /\ OneAtATime /\ RightRange /\ TrueAnswers /\ ListTrue /\ AsideTrue

-----------------------------------------------------------------------------
(* Types, pages, numbers                                                   *)

\* What does not change when a call is left behind.
Same(d, c) ==
  /\ d \in Call /\ d.op = c.op /\ d.page = c.page /\ d.arg = c.arg /\ d.then = c.then
  /\ d.phase = c.phase /\ d.ans = c.ans /\ d.who = c.who /\ d.flag = c.flag /\ d.ver = c.ver
  /\ d.n = c.n

(* The router leaves the calls of the page behind, and no other. *)
LEMMA LeftIs ==
  ASSUME NEW cs \in SUBSET Call
  PROVE  /\ \A d \in Left(cs, PageOps) : \E c \in cs :
              /\ Same(d, c)
              /\ OfAPage(c) => d.home = "left" /\ d = [c EXCEPT !.home = "left"]
              /\ ~OfAPage(c) => d = c
         /\ \A c \in cs : ~OfAPage(c) => c \in Left(cs, PageOps)
<1>1. ASSUME NEW d \in Left(cs, PageOps)
      PROVE  \E c \in cs : /\ Same(d, c)
                           /\ OfAPage(c) => d.home = "left" /\ d = [c EXCEPT !.home = "left"]
                           /\ ~OfAPage(c) => d = c
  <2>1. PICK c \in cs : d = IF OfAPage(c) THEN [c EXCEPT !.home = "left"] ELSE c
    BY <1>1 DEF Left, OfAPage
  <2>2. c \in Call
    OBVIOUS
  <2>3. CASE OfAPage(c)
    <3>1. d = [c EXCEPT !.home = "left"]
      BY <2>1, <2>3
    <3>2. Same(d, c) /\ d.home = "left"
      BY <2>2, <3>1 DEF Same, Call
    <3> QED
      BY <2>3, <3>1, <3>2
  <2>4. CASE ~OfAPage(c)
    BY <2>1, <2>2, <2>4 DEF Same
  <2> QED
    BY <2>3, <2>4
<1>2. \A c \in cs : ~OfAPage(c) => c \in Left(cs, PageOps)
  BY DEF Left, OfAPage
<1> QED
  BY <1>1, <1>2

(* Of a document that is gone the server only has changes left to serve. *)
LEMMA GoneIs ==
  ASSUME NEW cs \in SUBSET Call
  PROVE  \A d \in Gone(cs) : \E c \in cs :
           /\ Same(d, c) /\ d.home = "gone" /\ d = [c EXCEPT !.home = "gone"]
           /\ c.op \in Writes /\ c.phase = "asked"
<1>1. SUFFICES ASSUME NEW d \in Gone(cs)
               PROVE  \E c \in cs : /\ Same(d, c) /\ d.home = "gone" /\ c.op \in Writes
                                    /\ c.phase = "asked" /\ d = [c EXCEPT !.home = "gone"]
  OBVIOUS
<1>2. PICK c \in cs : d = [c EXCEPT !.home = "gone"] /\ c.op \in Writes /\ c.phase = "asked"
  BY DEF Gone
<1>3. c \in Call
  OBVIOUS
<1>4. Same(d, c) /\ d.home = "gone"
  BY <1>2, <1>3 DEF Same, Call
<1> QED
  BY <1>2, <1>4

(* Numbers stay different when calls are left behind or gone, and when calls *)
(* are added that no other can be taken for.                                 *)
LEMMA NumbersStay ==
  ASSUME NEW cs \in SUBSET Call, Numbered(cs)
  PROVE  /\ Numbered(Left(cs, PageOps)) /\ Numbered(Gone(cs))
         /\ \A s \in SUBSET cs : Numbered(s)
         /\ \A N \in SUBSET Call :
              (\A d \in N : Clear(d, cs) /\ \A e \in N : e.op = d.op => e = d)
              => Numbered(cs \cup N)
<1>1. Numbered(Left(cs, PageOps))
  <2> SUFFICES ASSUME NEW d \in Left(cs, PageOps), NEW e \in Left(cs, PageOps),
                      d.op = e.op, d.n = e.n
               PROVE  d = e
    BY DEF Numbered
  <2>1. PICK c \in cs : /\ Same(d, c)
                        /\ OfAPage(c) => d = [c EXCEPT !.home = "left"]
                        /\ ~OfAPage(c) => d = c
    BY LeftIs
  <2>2. PICK b \in cs : /\ Same(e, b)
                        /\ OfAPage(b) => e = [b EXCEPT !.home = "left"]
                        /\ ~OfAPage(b) => e = b
    BY LeftIs
  <2>3. b.op = c.op /\ b.n = c.n
    BY <2>1, <2>2 DEF Same
  <2>4. b = c
    BY <2>3 DEF Numbered
  <2> QED
    BY <2>1, <2>2, <2>4
<1>2. Numbered(Gone(cs))
  <2> SUFFICES ASSUME NEW d \in Gone(cs), NEW e \in Gone(cs), d.op = e.op, d.n = e.n
               PROVE  d = e
    BY DEF Numbered
  <2>1. PICK c \in cs : Same(d, c) /\ d = [c EXCEPT !.home = "gone"]
    BY GoneIs
  <2>2. PICK b \in cs : Same(e, b) /\ e = [b EXCEPT !.home = "gone"]
    BY GoneIs
  <2>3. b.op = c.op /\ b.n = c.n
    BY <2>1, <2>2 DEF Same
  <2>4. b = c
    BY <2>3 DEF Numbered
  <2> QED
    BY <2>1, <2>2, <2>4
<1>3. \A s \in SUBSET cs : Numbered(s)
  BY DEF Numbered
<1>4. ASSUME NEW N \in SUBSET Call,
             \A d \in N : Clear(d, cs) /\ \A e \in N : e.op = d.op => e = d
      PROVE  Numbered(cs \cup N)
  BY <1>4 DEF Clear, Numbered
<1> QED
  BY <1>1, <1>2, <1>3, <1>4

(* A set of calls stays sound when some of them end. *)
LEMMA SoundLess ==
  ASSUME NEW cs, NEW p, Sound(cs, p), NEW s \in SUBSET cs
  PROVE  Sound(s, p)
BY FS_Subset, NumbersStay DEF Sound

(* It stays sound when the page is left, whatever page is shown then. *)
LEMMA SoundLeft ==
  ASSUME NEW cs, NEW p, Sound(cs, p), NEW q
  PROVE  Sound(Left(cs, PageOps), q)
<1>1. /\ Left(cs, PageOps) \in SUBSET Call /\ IsFiniteSet(Left(cs, PageOps))
      /\ Numbered(Left(cs, PageOps))
  BY LeftTypes, NumbersStay DEF Sound
<1>2. ASSUME NEW d \in Left(cs, PageOps)
      PROVE  Homes(d) /\ ~OfAPage(d)
  <2>1. PICK c \in cs : /\ Same(d, c)
                        /\ OfAPage(c) => d.home = "left"
                        /\ ~OfAPage(c) => d = c
    BY LeftIs DEF Sound
  <2>2. Homes(c)
    BY DEF Sound
  <2> QED
    BY <2>1, <2>2 DEF Homes, OfAPage, Same
<1> QED
  BY <1>1, <1>2 DEF Sound

(* It stays sound when its document is gone. *)
LEMMA SoundGone ==
  ASSUME NEW cs, NEW p, Sound(cs, p), NEW q
  PROVE  Sound(Gone(cs), q)
<1>1. /\ Gone(cs) \in SUBSET Call /\ IsFiniteSet(Gone(cs)) /\ Numbered(Gone(cs))
  BY LeftTypes, NumbersStay DEF Sound
<1>2. ASSUME NEW d \in Gone(cs)
      PROVE  Homes(d) /\ ~OfAPage(d)
  <2>1. PICK c \in cs : Same(d, c) /\ d.home = "gone" /\ c.op \in Writes /\ c.phase = "asked"
    BY GoneIs DEF Sound
  <2>2. Homes(c)
    BY DEF Sound
  <2> QED
    BY <2>1, <2>2 DEF Homes, OfAPage, Same
<1> QED
  BY <1>1, <1>2 DEF Sound

(* It stays sound when a call is answered. *)
LEMMA SoundAnswered ==
  ASSUME NEW cs, NEW p, Sound(cs, p), NEW c \in cs, c.home # "gone",
         NEW d \in Call, d.op = c.op, d.n = c.n, d.page = c.page, d.home = c.home,
         d.phase = "served"
  PROVE  Sound((cs \ {c}) \cup {d}, p)
<1>1. IsFiniteSet((cs \ {c}) \cup {d})
  BY FS_Subset, FS_AddElement DEF Sound
<1>2. Homes(d) /\ (OfAPage(d) => d.page = p)
  BY DEF Sound, Homes, OfAPage
<1>3. Numbered((cs \ {c}) \cup {d})
  BY DEF Sound, Numbered
<1> QED
  BY <1>1, <1>2, <1>3 DEF Sound

\* Calls that are just asked by page p, beside the calls cs.
New(N, cs, p) ==
  /\ N \in SUBSET Call /\ IsFiniteSet(N)
  /\ \A d \in N : /\ Clear(d, cs) /\ d.phase = "asked" /\ d.ans = "none"
                  /\ d.home = "mounted" /\ d.page = p
                  /\ \A e \in N : e.op = d.op => e = d

(* It stays sound when calls are asked that no other can be taken for. *)
LEMMA SoundMore ==
  ASSUME NEW cs, NEW p, Sound(cs, p), NEW N, New(N, cs, p)
  PROVE  Sound(cs \cup N, p)
<1>1. IsFiniteSet(cs \cup N)
  BY FS_Union DEF Sound, New
<1>2. Numbered(cs \cup N)
  BY NumbersStay DEF Sound, New
<1>3. \A d \in N : Homes(d) /\ (OfAPage(d) => d.page = p)
  BY DEF New, Homes
<1> QED
  BY <1>1, <1>2, <1>3 DEF Sound, New

(* What is fresh is new. *)
LEMMA FreshIsNew ==
  ASSUME NEW N, NEW cs, NEW p, NEW ops, Fresh(N, cs, p, ops)
  PROVE  New(N, cs, p)
BY DEF Fresh, New

-----------------------------------------------------------------------------
(* Types and numbers are kept                                              *)

(* The shapes of a step, for a sound state: the server's answers too. *)
LEMMA StepShapes ==
  ASSUME Base, Next
  PROVE  \/ Enters \/ UserAsks \/ SessionEnds
         \/ \E N : Loads(calls, N) \/ Moves(N)
         \/ \E c \in calls : \E d : ServesProtected(c, d) \/ ServesPublic(c, d)
         \/ \E c \in calls : \/ Lost(c) \/ Stays(c) \/ Ignored(c) \/ Checked(c) \/ LoggedOut(c)
                             \/ \E N : \/ TakesIn(c, N) \/ Loads(End(c), N)
                                       \/ Renews(c, N) \/ Returns(c, N)
<1>1. TypeOK /\ PagesMatch
  BY DEF Base, Sound, OfAPage, PagesMatch
<1>2. \A c \in calls : ServeProtected(c) => \E d : ServesProtected(c, d)
  BY <1>1, ProtectedShape
<1>3. \A c \in calls : ServePublic(c) => \E d : ServesPublic(c, d)
  BY <1>1, PublicShape
<1> QED
  BY <1>1, <1>2, <1>3, Shapes

(* A call that has ended leaves a sound set. *)
LEMMA SoundEnd ==
  ASSUME Base, NEW c
  PROVE  Sound(End(c), page)
BY SoundLess DEF Base, End

(* What the answer to a page asks next is new. *)
LEMMA NextIsNew ==
  ASSUME NEW c, NEW N, AsksNext(c, N)
  PROVE  New(N, End(c), page)
BY DEF AsksNext, New

(* The calls in flight after a step. *)
LEMMA SoundStep ==
  ASSUME Base, Next
  PROVE  Sound(calls', page')
<1>1. Sound(calls, page) /\ TypeOK
  BY DEF Base
<1>2. CASE Enters \/ SessionEnds
  BY <1>1, <1>2 DEF Enters, SessionEnds
<1>3. CASE UserAsks
  <2>1. PICK op \in Ops, arg \in Ranges \cup {"none", "code"}, d \in Call :
           /\ Asked(d, op, page, arg, "none") /\ Clear(d, calls)
           /\ calls' = calls \cup {d} /\ page' = page
    BY <1>3 DEF UserAsks
  <2>2. New({d}, calls, page)
    BY <2>1, FS_Singleton DEF New, Asked
  <2> QED
    BY <1>1, <2>1, <2>2, SoundMore
<1>4. ASSUME NEW cs \in SUBSET calls, NEW N, Loads(cs, N)
      PROVE  Sound(calls', page')
  <2>1. Sound(Gone(cs), page')
    BY <1>1, SoundLess, SoundGone
  <2>2. CASE page' = "elsewhere"
    BY <1>4, <2>1, <2>2 DEF Loads
  <2>3. CASE page' # "elsewhere"
    BY <1>4, <2>1, <2>3, FreshIsNew, SoundMore DEF Loads, IsDocument
  <2> QED
    BY <2>2, <2>3
<1>5. ASSUME NEW N, Moves(N)
      PROVE  Sound(calls', page')
  BY <1>1, <1>5, SoundLeft, FreshIsNew, SoundMore DEF Moves, IsRoute
<1>6. ASSUME NEW c \in calls, NEW d, Serves(c, d)
      PROVE  Sound(calls', page')
  <2>1. CASE c.home = "gone"
    BY <1>6, <2>1, SoundEnd DEF Serves
  <2>2. CASE c.home # "gone"
    BY <1>1, <1>6, <2>2, SoundAnswered DEF Serves, End
  <2> QED
    BY <2>1, <2>2
<1>7. ASSUME NEW c \in calls, Lost(c) \/ Ignored(c) \/ Checked(c) \/ LoggedOut(c)
      PROVE  Sound(calls', page')
  BY <1>7, SoundEnd DEF Lost, Ignored, Checked, LoggedOut
<1>8. ASSUME NEW c \in calls, Stays(c)
      PROVE  Sound(calls', page')
  <2>1. c \in Call /\ c.home # "gone"
    BY <1>1, <1>8 DEF Stays, Unauthorized, Sound, Homes
  <2> DEFINE d == [c EXCEPT !.ans = "refused"]
  <2>2. /\ d \in Call /\ d.op = c.op /\ d.n = c.n /\ d.page = c.page /\ d.home = c.home
        /\ d.phase = c.phase
    BY <2>1 DEF Call
  <2>3. calls' = End(c) \cup {d} /\ page' = page /\ c.phase = "served"
    BY <1>8 DEF Stays, Unauthorized
  <2> HIDE DEF d
  <2> QED
    BY <1>1, <2>1, <2>2, <2>3, SoundAnswered DEF End
<1>9. ASSUME NEW c \in calls, NEW N, TakesIn(c, N)
      PROVE  Sound(calls', page')
  BY <1>9, SoundEnd, NextIsNew, SoundMore DEF TakesIn, AsksNext, Heard
<1>10. ASSUME NEW c \in calls, NEW N, Renews(c, N)
       PROVE  Sound(calls', page')
  BY <1>10, SoundEnd, FreshIsNew, SoundMore DEF Renews
<1>11. ASSUME NEW c \in calls, NEW N, Returns(c, N)
       PROVE  Sound(calls', page')
  BY <1>11, SoundEnd, FreshIsNew, SoundMore, SoundLeft DEF Returns
<1>12. \A c : End(c) \in SUBSET calls
  BY DEF End
<1>13. CASE \E c \in calls : \E d : ServesProtected(c, d) \/ ServesPublic(c, d)
  BY <1>6, <1>13 DEF ServesProtected, ServesPublic
<1> QED
  BY <1>2, <1>3, <1>4, <1>5, <1>7, <1>8, <1>9, <1>10, <1>11, <1>12, <1>13, StepShapes

(* The rest of the state after a step. *)
LEMMA TypesStep ==
  ASSUME Base, Next
  PROVE  /\ sess' \in Accounts \cup {0} /\ db' \in Db /\ page' \in Pages /\ auth' \in Auth
         /\ ui' \in Ui /\ hist' \in Hist
<1>1. /\ sess \in Accounts \cup {0} /\ db \in Db /\ page \in Pages /\ auth \in Auth
      /\ ui \in Ui /\ hist \in Hist /\ calls \in SUBSET Call
  BY DEF Base, TypeOK
<1>2. ASSUME NEW n \in Nat, NEW x \in BOOLEAN
      PROVE  /\ [hist EXCEPT !.troubles = n, !.lost = x] \in Hist
             /\ [hist EXCEPT !.troubles = n, !.ended = x] \in Hist
  BY <1>1 DEF Hist
<1>3. hist.troubles + 1 \in Nat /\ TRUE \in BOOLEAN /\ FALSE \in BOOLEAN /\ 0 \in Int
  BY <1>1 DEF Hist
<1>4. ASSUME NEW n \in Int, NEW x \in BOOLEAN
      PROVE  [auth EXCEPT !.user = n, !.factor = x] \in Auth
  BY <1>1 DEF Auth
<1>5. CASE Enters
  BY <1>1, <1>5 DEF Enters
<1>6. CASE UserAsks
  <2>1. PICK op : hist' = Started(op) /\ ui' \in Ui /\ UNCHANGED <<sess, db, page, auth>>
    BY <1>6 DEF UserAsks
  <2> QED
    BY <1>1, <2>1, StartedTypes
<1>7. CASE SessionEnds
  <2>1. hist' = [hist EXCEPT !.troubles = @ + 1, !.ended = TRUE] /\ sess' = 0
        /\ UNCHANGED <<db, page, auth, ui>>
    BY <1>7 DEF SessionEnds
  <2>2. hist' \in Hist
    BY <1>3, <1>2, <2>1, Zenon
  <2> QED
    BY <1>1, <2>1, <2>2
<1>8. ASSUME NEW cs, NEW N, Loads(cs, N)
      PROVE  page' \in Pages /\ auth' \in Auth /\ ui' \in Ui /\ hist' \in Hist
             /\ UNCHANGED <<sess, db>>
  BY <1>8, OutTypes, MountTypes DEF Loads
<1>9. ASSUME NEW cs, Moved(cs)
      PROVE  page' \in Pages /\ ui' \in Ui /\ hist' \in Hist /\ UNCHANGED <<sess, db>>
  BY <1>9, MountTypes DEF Moved
<1>10. ASSUME NEW N, Moves(N)
       PROVE  auth' \in Auth
  BY <1>1, <1>10 DEF Moves
<1>11. ASSUME NEW c \in calls, NEW d, Serves(c, d), UNCHANGED sess \/ sess' \in Accounts \cup {0}
       PROVE  /\ sess' \in Accounts \cup {0} /\ db' \in Db /\ page' \in Pages /\ auth' \in Auth
              /\ ui' \in Ui /\ hist' \in Hist
  BY <1>1, <1>11 DEF Serves
<1>12. ASSUME NEW c \in calls, Lost(c)
       PROVE  hist' \in Hist /\ UNCHANGED <<sess, db, page, auth, ui>>
  <2>1. hist' = [hist EXCEPT !.troubles = @ + 1, !.lost = TRUE]
    BY <1>12 DEF Lost
  <2>2. hist' \in Hist
    BY <1>3, <1>2, <2>1, Zenon
  <2> QED
    BY <1>12, <2>2 DEF Lost
<1>13. ASSUME NEW c \in calls, Stays(c)
       PROVE  auth' \in Auth /\ UNCHANGED <<sess, db, page, ui, hist>>
  <2>1. auth' = [auth EXCEPT !.user = 0, !.factor = FALSE]
    BY <1>13 DEF Stays, Unauthorized
  <2>2. auth' \in Auth
    BY <1>3, <1>4, <2>1, Zenon
  <2> QED
    BY <1>13, <2>2 DEF Stays, Unauthorized
<1>14. ASSUME NEW c \in calls, Checked(c)
       PROVE  auth' \in Auth /\ UNCHANGED <<sess, db, page, ui, hist>>
  <2>1. c.flag \in BOOLEAN
    BY <1>1 DEF Call
  <2>2. PICK w \in BOOLEAN : auth' = [auth EXCEPT !.warn = w]
    <3>1. auth' = [auth EXCEPT !.warn = c.ans = "ok" /\ c.flag]
      BY <1>14 DEF Checked
    <3>2. (c.ans = "ok" /\ c.flag) \in BOOLEAN
      OBVIOUS
    <3> QED
      BY <3>1, <3>2, Zenon
  <2>3. auth' \in Auth
    BY <1>1, <2>2 DEF Auth
  <2> QED
    BY <1>14, <2>3 DEF Checked
<1>15. ASSUME NEW c \in calls, LoggedOut(c)
       PROVE  auth' \in Auth /\ UNCHANGED <<sess, db, page, ui, hist>>
  <2>1. auth' = [auth EXCEPT !.user = 0, !.factor = FALSE]
    BY <1>15 DEF LoggedOut
  <2>2. auth' \in Auth
    BY <1>3, <1>4, <2>1, Zenon
  <2> QED
    BY <1>15, <2>2 DEF LoggedOut
<1>16. ASSUME NEW c \in calls, NEW N, TakesIn(c, N)
       PROVE  ui' \in Ui /\ hist' \in Hist /\ UNCHANGED <<sess, db, page, auth>>
  BY <1>16 DEF TakesIn, Heard, Shown, Noted
<1>17. ASSUME NEW c \in calls, NEW N, Renews(c, N)
       PROVE  auth' \in Auth /\ ui' \in Ui /\ hist' \in Hist /\ UNCHANGED <<sess, db, page>>
  BY <1>17 DEF Renews, Known
<1>18. ASSUME NEW c \in calls, NEW N, Returns(c, N)
       PROVE  auth' \in Auth /\ Moved(End(c))
  BY <1>18 DEF Returns, Known
<1>19. CASE \E N : Loads(calls, N) \/ Moves(N)
  BY <1>1, <1>8, <1>9, <1>10, <1>19 DEF Moves
<1>20. CASE \E c \in calls : \E d : ServesProtected(c, d) \/ ServesPublic(c, d)
  BY <1>11, <1>20 DEF ServesProtected, ServesPublic, Serves
<1>21. CASE \E c \in calls : Lost(c) \/ Stays(c) \/ Ignored(c) \/ Checked(c) \/ LoggedOut(c)
  BY <1>1, <1>12, <1>13, <1>14, <1>15, <1>21 DEF Ignored
<1>22. CASE \E c \in calls : \E N : \/ TakesIn(c, N) \/ Loads(End(c), N)
                                    \/ Renews(c, N) \/ Returns(c, N)
  BY <1>1, <1>8, <1>9, <1>16, <1>17, <1>18, <1>22
<1> QED
  BY <1>5, <1>6, <1>7, <1>19, <1>20, <1>21, <1>22, StepShapes

(* The calls with which a document starts. *)
LEMMA BaseInit == Init => Base
<1> SUFFICES ASSUME Init PROVE Base
  OBVIOUS
<1>1. sess \in Accounts \cup {0} /\ page \in Pages
  BY DEF Init
<1>2. db \in Db
  <2>1. Accounts \cap {100} \in SUBSET Int
    OBVIOUS
  <2>2. 1 \in Nat /\ TRUE \in BOOLEAN
    OBVIOUS
  <2> QED
    BY <2>1, <2>2, Zenon DEF Init, Db
<1>3. auth \in Auth /\ ui \in Ui
  BY <1>1, OutTypes, MountTypes DEF Init
<1>4. hist \in Hist
  <2>1. 0 \in Nat /\ 0 \in Int /\ FALSE \in BOOLEAN /\ {} \in SUBSET {"list", "aside"}
    OBVIOUS
  <2> QED
    BY <2>1, Zenon DEF Init, Hist
<1>5. IsFiniteSet({}) /\ {} \in SUBSET Call
  BY FS_EmptySet
<1>6. PICK N : /\ Asks(Put({}, Ask("self")), page) = {} \cup N
               /\ IsDocument(N, {}, page)
  BY <1>1, <1>5, DocumentAdds DEF Ask
<1>7. Sound({}, page)
  BY <1>5 DEF Sound, Numbered
<1>8. Sound(calls, page)
  <2>1. calls = {} \cup N
    BY <1>6 DEF Init
  <2>2. New(N, {}, page)
    BY <1>6, FreshIsNew DEF IsDocument
  <2> QED
    BY <1>7, <2>1, <2>2, SoundMore
<1> QED
  BY <1>1, <1>2, <1>3, <1>4, <1>8 DEF Base, TypeOK, Sound

(* A step that changes nothing keeps it. *)
LEMMA BaseStep ==
  ASSUME Base, [Next]_vars
  PROVE  Base'
<1>1. CASE Next
  <2>1. Sound(calls, page)'
    BY <1>1, SoundStep
  <2> QED
    BY <1>1, <2>1, TypesStep DEF Base, TypeOK, Sound
<1>2. CASE UNCHANGED vars
  BY <1>2 DEF vars, Base, TypeOK, Sound, Numbered, Homes, OfAPage
<1> QED
  BY <1>1, <1>2

(* The state of the console, of its pages and of the calls in flight has its *)
(* type, and no two calls in flight can be taken for one another.            *)
THEOREM ConsoleTypes == Spec => []Base
<1>1. Init => Base
  BY BaseInit
<1>2. Base /\ [Next]_vars => Base'
  BY BaseStep
<1> QED
  BY <1>1, <1>2, PTL DEF Spec

-----------------------------------------------------------------------------
(* Nothing hangs                                                           *)

(* What ends, or is answered, is only what the step is about. *)
LEMMA EndKeeps ==
  ASSUME NEW c
  PROVE  /\ \A d \in calls : d # c => d \in End(c)
         /\ \A d \in End(c) : d \in calls /\ d # c
BY DEF End

(* The calls of the shell are never left behind. *)
LEMMA ShellStays ==
  ASSUME NEW cs \in SUBSET Call, NEW c \in cs, c.op \in ShellOps
  PROVE  c \in Left(cs, PageOps)
<1>1. ~OfAPage(c)
  BY DEF OfAPage, PageOps, ShellOps
<1> QED
  BY <1>1, LeftIs

(* Behind everything that waits there is a call, after a step too. *)
LEMMA BehindStep ==
  ASSUME Base, Behind, Next
  PROVE  Behind'
<1> SUFFICES ASSUME ~hist'.lost, page' # "elsewhere"
             PROVE  /\ auth'.loading => \E c \in calls' : c.op = "self"
                    /\ ui'.busy => \E c \in calls' : \/ c.op \in Blocking /\ c.home = "mounted"
                                                     \/ c.op = "self" /\ c.then = "dashboard"
                    /\ ui'.saving => \E c \in calls' : c.op = "password" /\ c.home = "mounted"
                    /\ ui'.loading => page' \in ListPages
                    /\ Usable' /\ ui'.loading =>
                         \E c \in calls' : c.op = "list" /\ c.home = "mounted"
  BY DEF Behind
<1> DEFINE Shows(cs) ==
             /\ auth.loading => \E c \in cs : c.op = "self"
             /\ ui.busy => \E c \in cs : \/ c.op \in Blocking /\ c.home = "mounted"
                                         \/ c.op = "self" /\ c.then = "dashboard"
             /\ ui.saving => \E c \in cs : c.op = "password" /\ c.home = "mounted"
             /\ ui.loading => page \in ListPages
             /\ Usable /\ ui.loading => \E c \in cs : c.op = "list" /\ c.home = "mounted"
<1>1. /\ calls \in SUBSET Call /\ page \in Pages /\ hist \in Hist /\ auth \in Auth
      /\ \A c \in calls : Homes(c)
  BY DEF Base, TypeOK, Sound
<1>2. ~hist.lost /\ page # "elsewhere" => Shows(calls)
  BY DEF Behind
<1>3. CASE Enters
  BY <1>2, <1>3 DEF Enters, Usable
<1>4. CASE UserAsks
  <2>1. PICK op \in Ops, arg \in Ranges \cup {"none", "code"}, d \in Call :
           /\ Starts(op, arg, ui') /\ Asked(d, op, page, arg, "none")
           /\ calls' = calls \cup {d} /\ hist' = Started(op)
           /\ UNCHANGED <<sess, db, page, auth>>
    BY <1>4 DEF UserAsks
  <2>2. Shows(calls)
    BY <1>1, <1>2, <2>1, StartedTypes
  <2> QED
    BY <2>1, <2>2 DEF Starts, Asked, Usable
<1>5. CASE SessionEnds
  <2>1. hist'.lost <=> hist.lost
    BY <1>1, <1>5 DEF SessionEnds, Hist
  <2> QED
    BY <1>2, <1>5, <2>1 DEF SessionEnds, Usable
<1>6. ASSUME NEW cs, NEW N, Loads(cs, N)
      PROVE  Behind'
  BY <1>6, OutTypes, MountTypes DEF Behind, Loads, IsDocument, Usable
<1>7. ASSUME NEW N, Moves(N)
      PROVE  Behind'
  <2>1. Shows(calls) /\ UNCHANGED auth
    BY <1>2, <1>7 DEF Moves, Moved, Protected, ListPages, Lists
  <2>2. auth'.loading => \E c \in calls' : c.op = "self"
    BY <1>1, <1>7, <2>1, ShellStays DEF Moves, ShellOps
  <2>3. ~ui'.busy /\ ~ui'.saving /\ (ui'.loading => page' \in ListPages)
    BY <1>7, MountTypes DEF Moves, Moved
  <2>4. Usable' /\ ui'.loading => \E c \in calls' : c.op = "list" /\ c.home = "mounted"
    BY <1>7, <2>1, <2>3 DEF Moves, IsRoute, Fresh, Admits, Usable
  <2> QED
    BY <2>2, <2>3, <2>4 DEF Behind
<1>8. ASSUME NEW c \in calls, NEW d, Serves(c, d)
      PROVE  Behind'
  <2>1. Shows(calls) /\ UNCHANGED <<page, auth, ui>>
    BY <1>2, <1>8 DEF Serves
  <2>2. c.home # "gone" => calls' = End(c) \cup {d}
    BY <1>8 DEF Serves
  <2>3. \A e \in calls : e # c => e \in calls'
    BY <1>8, EndKeeps DEF Serves
  <2>4. c.op = "self" => c.home # "gone"
    BY <1>1 DEF Homes, Writes
  <2>5. \A e \in calls : e.home = "mounted" \/ e.op = "self" =>
          \E f \in calls' : f.op = e.op /\ f.home = e.home /\ f.then = e.then
    BY <1>8, <2>2, <2>3, <2>4 DEF Serves
  <2> QED
    BY <2>1, <2>5 DEF Behind, Usable
<1>9. ASSUME NEW c \in calls, Lost(c)
      PROVE  FALSE
  BY <1>1, <1>9 DEF Lost, Hist
<1>10. ASSUME NEW c \in calls, Stays(c)
       PROVE  Behind'
  <2> DEFINE d == [c EXCEPT !.ans = "refused"]
  <2>1. /\ calls' = End(c) \cup {d} /\ UNCHANGED <<page, ui, hist>>
        /\ auth' = [auth EXCEPT !.user = 0, !.factor = FALSE]
    BY <1>10 DEF Stays, Unauthorized
  <2>2. d.op = c.op /\ d.home = c.home /\ d.then = c.then
    BY <1>1 DEF Call
  <2>3. auth'.loading = auth.loading /\ auth'.user = 0
    BY <1>1, <2>1 DEF Auth
  <2> HIDE DEF d
  <2>4. \A e \in calls : \E f \in calls' : f.op = e.op /\ f.home = e.home /\ f.then = e.then
    BY <2>1, <2>2, EndKeeps
  <2> QED
    BY <1>2, <2>1, <2>3, <2>4 DEF Behind, Usable
<1>11. ASSUME NEW c \in calls, Ignored(c) \/ Checked(c) \/ LoggedOut(c)
       PROVE  Behind'
  <2>1. /\ calls' = End(c) /\ UNCHANGED <<page, ui, hist>>
        /\ auth'.loading = auth.loading /\ auth'.user \in {auth.user, 0}
    BY <1>1, <1>11 DEF Ignored, Checked, LoggedOut, Auth
  <2>2. c.op # "self" /\ (c.home = "mounted" => c.op \in {"security", "logout"})
    BY <1>11 DEF Ignored, Checked, LoggedOut, Answers, ShellOps
  <2>3. \A e \in calls :
          e \in calls' \/ (e.op # "self"
                          /\ (e.home = "mounted" => e.op \in {"security", "logout"}))
    BY <2>1, <2>2, EndKeeps
  <2> QED
    BY <1>2, <2>1, <2>3 DEF Behind, Usable, Blocking
<1>12. ASSUME NEW c \in calls, NEW N, TakesIn(c, N)
       PROVE  Behind'
  <2>1. /\ Shows(calls) /\ UNCHANGED <<page, auth>> /\ calls' = End(c) \cup N
        /\ c.op \in PageOps
    BY <1>2, <1>12 DEF TakesIn, Heard, Noted, AsksNext
  <2>2. \A e \in calls : e # c => e \in calls'
    BY <2>1, EndKeeps
  <2>3. auth'.loading => \E e \in calls' : e.op = "self"
    BY <2>1, <2>2 DEF PageOps
  <2>4. c.op = "login" /\ c.ans = "ok" => \E e \in calls' : e.op = "self" /\ e.then = "dashboard"
    BY <1>12, <2>1 DEF TakesIn, AsksNext, Rechecked
  <2>5. ui'.busy => \E e \in calls' : \/ e.op \in Blocking /\ e.home = "mounted"
                                      \/ e.op = "self" /\ e.then = "dashboard"
    BY <1>12, <2>1, <2>2, <2>4 DEF TakesIn, Shown, PageOps
  <2>6. ui'.saving => \E e \in calls' : e.op = "password" /\ e.home = "mounted"
    BY <1>12, <2>1, <2>2 DEF TakesIn, Shown
  <2>7. ui'.loading => page' \in ListPages
    BY <1>12, <2>1 DEF TakesIn, Shown
  <2>8. Usable' /\ ui'.loading => \E e \in calls' : e.op = "list" /\ e.home = "mounted"
    BY <1>12, <2>1, <2>2 DEF TakesIn, Shown, Usable
  <2> QED
    BY <2>3, <2>5, <2>6, <2>7, <2>8 DEF Behind
<1>13. ASSUME NEW c \in calls, NEW N, Renews(c, N)
       PROVE  Behind'
  <2>1. /\ Shows(calls) /\ ~auth'.loading /\ UNCHANGED page /\ calls' = End(c) \cup N
        /\ c.op = "self" /\ c.then = "none"
    BY <1>2, <1>13 DEF Renews, Known
  <2>2. \A e \in calls : e # c => e \in calls'
    BY <2>1, EndKeeps
  <2>3. ui'.busy => \E e \in calls' : \/ e.op \in Blocking /\ e.home = "mounted"
                                      \/ e.op = "self" /\ e.then = "dashboard"
    BY <1>13, <2>1, <2>2 DEF Renews, Blocking
  <2>4. ui'.saving => \E e \in calls' : e.op = "password" /\ e.home = "mounted"
    BY <1>13, <2>1, <2>2 DEF Renews
  <2>5. ui'.loading => page' \in ListPages
    BY <1>13, <2>1 DEF Renews
  <2>6. Usable' /\ ui'.loading => \E e \in calls' : e.op = "list" /\ e.home = "mounted"
    BY <1>13, <2>1, <2>5 DEF Renews, Usable, Admits, Fresh
  <2> QED
    BY <2>1, <2>3, <2>4, <2>5, <2>6 DEF Behind
<1>14. ASSUME NEW c \in calls, NEW N, Returns(c, N)
       PROVE  Behind'
  <2>1. ~auth'.loading /\ page' = "dashboard" /\ ui' = Mount(page')
    BY <1>14 DEF Returns, Known, Moved
  <2>2. ~ui'.busy /\ ~ui'.saving /\ ~ui'.loading
    BY <2>1, MountTypes DEF Pages, Protected, ListPages, Lists
  <2> QED
    BY <2>1, <2>2 DEF Behind
<1>15. CASE \E c \in calls : \E d : ServesProtected(c, d) \/ ServesPublic(c, d)
  BY <1>8, <1>15 DEF Behind, ServesProtected, ServesPublic
<1> QED
  BY <1>3, <1>4, <1>5, <1>6, <1>7, <1>9, <1>10, <1>11, <1>12, <1>13, <1>14, <1>15, StepShapes
  DEF Behind

(* However calls end, nothing hangs when all are answered: no page goes on *)
(* loading and no button stays blocked, unless an answer was lost.         *)
THEOREM NeverHangs == Spec => []NothingHangs
<1>1. Init => Behind
  <2> SUFFICES ASSUME Init PROVE Behind
    OBVIOUS
  <2>1. Base /\ page \in Pages
    BY BaseInit DEF Base, TypeOK
  <2>2. PICK N : calls = {} \cup N /\ IsDocument(N, {}, page)
    BY <2>1, FS_EmptySet, DocumentAdds DEF Init, Ask
  <2>3. (\E c \in calls : c.op = "self") \/ page = "elsewhere"
    BY <2>2 DEF IsDocument
  <2> QED
    BY <2>1, <2>3, OutTypes, MountTypes DEF Init, Behind, Usable
<1>2. Base /\ Behind /\ [Next]_vars => Behind'
  <2>1. CASE UNCHANGED vars
    BY <2>1 DEF vars, Behind, Usable
  <2> QED
    BY <2>1, BehindStep
<1>3. Behind => NothingHangs
  BY DEF Behind, NothingHangs, Quiet
<1> QED
  BY <1>1, <1>2, <1>3, ConsoleTypes, PTL DEF Spec

-----------------------------------------------------------------------------
(* Secrets are shown                                                       *)

(* What is asked has told nothing yet. *)
LEMMA AskedTellsNothing ==
  ASSUME NEW cs, NEW N, NEW p, New(N, cs, p)
  PROVE  OnTheirWay(cs \cup N) = OnTheirWay(cs) /\ \A d \in N : d.home = "mounted"
BY DEF OnTheirWay, Told, New

(* A page that is left, or a document that goes, keeps no answer on its way. *)
LEMMA NothingOnItsWay ==
  ASSUME NEW cs \in SUBSET Call
  PROVE  OnTheirWay(Left(cs, PageOps)) = {} /\ OnTheirWay(Gone(cs)) = {}
<1>1. ASSUME NEW d \in Left(cs, PageOps), Told(d), d.home = "mounted"
      PROVE  FALSE
  <2>1. PICK c \in cs : Same(d, c) /\ (OfAPage(c) => d.home = "left") /\ (~OfAPage(c) => d = c)
    BY LeftIs
  <2>2. d.op \in PageOps
    BY <1>1 DEF Told, Secret, PageOps
  <2> QED
    BY <1>1, <2>1, <2>2 DEF OfAPage, Same
<1>2. ASSUME NEW d \in Gone(cs)
      PROVE  d.home = "gone"
  BY GoneIs
<1> QED
  BY <1>1, <1>2 DEF OnTheirWay

(* No secret is on its way, and none is left, where nothing tells one. *)
LEMMA NothingTells ==
  ASSUME Base, NEW cs \in SUBSET calls, ~Telling(cs), \A c \in calls \ cs : ~Told(c)
  PROVE  OnTheirWay(calls) = {}
BY DEF OnTheirWay, Told, Telling

(* The secrets not shown yet are those on their way, after a step too. *)
LEMMA SecretsStep ==
  ASSUME Base, SecretsCounted, Next
  PROVE  SecretsCounted'
<1> SUFFICES ASSUME ~hist'.left, ~hist'.lost
             PROVE  /\ hist'.untold = Cardinality(OnTheirWay(calls'))
                    /\ \A c \in calls' : Secret(c) => c.home # "left"
  BY DEF SecretsCounted
<1> DEFINE Counted == /\ hist.untold = Cardinality(OnTheirWay(calls))
                      /\ \A c \in calls : Secret(c) => c.home # "left"
<1>1. /\ calls \in SUBSET Call /\ hist \in Hist /\ Numbered(calls)
      /\ \A c \in calls : Homes(c)
  BY DEF Base, TypeOK, Sound
<1>2. ~hist.left /\ ~hist.lost => Counted
  BY DEF SecretsCounted
<1>3. OnTheirWay(calls) \in SUBSET calls /\ IsFiniteSet(OnTheirWay(calls))
  BY FS_Subset DEF OnTheirWay, Base, TypeOK
<1>4. Cardinality({}) = 0
  BY FS_EmptySet
<1>5. ASSUME NEW N, NEW p, NEW cs, New(N, cs, p)
      PROVE  /\ OnTheirWay(cs \cup N) = OnTheirWay(cs)
             /\ \A d \in N : Secret(d) => d.home # "left"
  BY <1>5, AskedTellsNothing
<1>6. CASE Enters
  BY <1>2, <1>6 DEF Enters
<1>7. CASE UserAsks
  <2>1. PICK op \in Ops, arg \in Ranges \cup {"none", "code"}, d \in Call :
           /\ Asked(d, op, page, arg, "none") /\ Clear(d, calls)
           /\ calls' = calls \cup {d} /\ hist' = Started(op)
    BY <1>7 DEF UserAsks
  <2>2. New({d}, calls, page)
    BY <2>1, FS_Singleton DEF New, Asked
  <2>3. Counted /\ hist'.untold = hist.untold
    BY <1>1, <1>2, <2>1, StartedTypes
  <2> QED
    BY <1>5, <2>1, <2>2, <2>3
<1>8. CASE SessionEnds
  <2>1. hist'.untold = hist.untold /\ (hist'.left <=> hist.left) /\ (hist'.lost <=> hist.lost)
        /\ UNCHANGED calls
    BY <1>1, <1>8 DEF SessionEnds, Hist
  <2> QED
    BY <1>2, <2>1
<1>9. ASSUME NEW cs \in SUBSET calls, NEW N, Loads(cs, N)
      PROVE  SecretsCounted'
  <2>1. Counted /\ ~Telling(cs) /\ hist'.untold = hist.untold /\ calls' = Gone(cs) \cup N
    BY <1>2, <1>9 DEF Loads
  <2>2. OnTheirWay(calls) = {}
    BY <1>9, <2>1, NothingTells DEF Loads
  <2>3. /\ OnTheirWay(Gone(cs) \cup N) = OnTheirWay(Gone(cs))
        /\ \A d \in N : Secret(d) => d.home # "left"
    BY <1>5, <1>9, FreshIsNew DEF Loads, IsDocument
  <2>4. OnTheirWay(Gone(cs)) = {} /\ \A d \in Gone(cs) : d.home = "gone"
    BY <1>1, NothingOnItsWay, GoneIs
  <2> QED
    BY <1>4, <2>1, <2>2, <2>3, <2>4 DEF SecretsCounted
\* The page is left with nothing to tell.
<1>10. ASSUME NEW cs \in SUBSET calls, ~Telling(cs), Counted, \A c \in calls \ cs : ~Told(c),
              hist'.untold = hist.untold, NEW p, NEW all, Sound(all, p),
              \A d \in all : d \in cs \/ (d.phase = "asked" /\ d.home = "mounted"),
              NEW N, NEW q, calls' = Left(all, PageOps) \cup N, New(N, Left(all, PageOps), q),
              \A d \in all : Secret(d) => d \in cs
       PROVE  SecretsCounted'
  <2>1. OnTheirWay(calls) = {}
    BY <1>10, NothingTells
  <2>2. /\ OnTheirWay(calls') = OnTheirWay(Left(all, PageOps))
        /\ \A d \in N : Secret(d) => d.home # "left"
    BY <1>5, <1>10
  <2>3. OnTheirWay(Left(all, PageOps)) = {}
    BY <1>10, NothingOnItsWay DEF Sound
  <2>4. ASSUME NEW d \in Left(all, PageOps), Secret(d)
        PROVE  d.home # "left"
    <3>1. PICK c \in all : /\ Same(d, c)
                           /\ ~OfAPage(c) => d = c
      BY <1>10, LeftIs DEF Sound
    <3>2. Secret(c) /\ c \in cs
      BY <1>10, <2>4, <3>1 DEF Secret, Same
    <3> QED
      BY <1>10, <3>1, <3>2 DEF Telling, OfAPage
  <2> QED
    BY <1>4, <1>10, <2>1, <2>2, <2>3, <2>4 DEF SecretsCounted
<1>11. ASSUME NEW N, Moves(N)
       PROVE  SecretsCounted'
  <2>1. Counted /\ ~Telling(calls) /\ hist'.untold = hist.untold
        /\ calls' = Left(calls, PageOps) \cup N
    BY <1>2, <1>11 DEF Moves, Moved
  <2>2. New(N, Left(calls, PageOps), page')
    BY <1>11, FreshIsNew DEF Moves, IsRoute
  <2> QED
    BY <1>10, <2>1, <2>2 DEF Base
<1>12. ASSUME NEW c \in calls, NEW N, Returns(c, N)
       PROVE  SecretsCounted'
  <2>1. Counted /\ ~Telling(End(c)) /\ hist'.untold = hist.untold
        /\ calls' = Left(End(c) \cup N, PageOps) /\ c.op = "self"
    BY <1>2, <1>12 DEF Returns, Moved, Known
  <2>2. New(N, End(c), page) /\ \A d \in N : d.op = "security"
    BY <1>12, FreshIsNew DEF Returns, Fresh
  <2>3. Sound(End(c) \cup N, page)
    BY <2>2, SoundEnd, SoundMore
  <2>4. New({}, Left(End(c) \cup N, PageOps), page)
    BY FS_EmptySet DEF New
  <2>5. ~Told(c) /\ \A d \in N : ~Secret(d) /\ d.phase = "asked" /\ d.home = "mounted"
    BY <2>1, <2>2 DEF Told, Secret, New
  <2>6. End(c) \in SUBSET calls /\ \A d \in calls \ End(c) : d = c
    BY DEF End
  <2> QED
    BY <1>10, <2>1, <2>2, <2>3, <2>4, <2>5, <2>6
\* A call is replaced by its answer, or ends.
<1>13. ASSUME NEW c \in calls, NEW d, d.op = c.op, d.page = c.page, d.home = c.home,
              calls' = End(c) \cup {d}
       PROVE  /\ OnTheirWay(calls') = (OnTheirWay(calls) \ {c}) \cup OnTheirWay({d})
              /\ Counted => \A e \in calls' : Secret(e) => e.home # "left"
  BY <1>13 DEF OnTheirWay, End, Secret
<1>14. ASSUME NEW c \in calls
       PROVE  /\ OnTheirWay(End(c)) = OnTheirWay(calls) \ {c}
              /\ Counted => \A e \in End(c) : Secret(e) => e.home # "left"
  BY DEF OnTheirWay, End
<1>15. ASSUME NEW c \in calls, NEW d, ServesProtected(c, d) \/ ServesPublic(c, d)
       PROVE  SecretsCounted'
  <2>1. /\ Counted /\ c.phase = "asked" /\ c \notin OnTheirWay(calls)
        /\ d.op = c.op /\ d.page = c.page /\ d.home = c.home /\ d.n = c.n /\ d.phase = "served"
        /\ calls' = IF c.home = "gone" THEN End(c) ELSE End(c) \cup {d}
    BY <1>1, <1>2, <1>15 DEF ServesProtected, ServesPublic, Serves, Homes, OnTheirWay, Told
  <2>2. hist'.untold = IF Told(d) /\ c.home # "gone" THEN hist.untold + 1 ELSE hist.untold
    BY <1>15, <2>1 DEF ServesProtected, ServesPublic, Serves, Told, Secret, Public
  <2>3. OnTheirWay(calls) \ {c} = OnTheirWay(calls)
    BY <2>1
  <2>4. (OnTheirWay(calls) \ {c}) \cup {} = OnTheirWay(calls)
    BY <2>3
  <2>5. CASE c.home = "gone"
    <3>1. calls' = End(c) /\ hist'.untold = hist.untold
      BY <2>1, <2>2, <2>5
    <3> QED
      BY <1>14, <2>1, <2>3, <3>1 DEF SecretsCounted
  <2>6. CASE c.home # "gone" /\ Told(d)
    <3>1. c.home = "mounted"
      <4>1. Secret(c)
        BY <2>1, <2>6 DEF Told, Secret
      <4> QED
        BY <1>1, <2>1, <2>6, <4>1 DEF Call
    <3>2. d \notin calls
      BY <1>1, <2>1 DEF Numbered
    <3>3. OnTheirWay({d}) = {d}
      BY <2>1, <2>6, <3>1 DEF OnTheirWay
    <3>4. OnTheirWay(calls') = OnTheirWay(calls) \cup {d}
      BY <1>13, <2>1, <2>6, <3>3
    <3>5. Cardinality(OnTheirWay(calls) \cup {d}) = Cardinality(OnTheirWay(calls)) + 1
      BY <1>3, <3>2, FS_AddElement
    <3> QED
      BY <1>13, <2>1, <2>2, <2>6, <3>4, <3>5 DEF SecretsCounted
  <2>7. CASE c.home # "gone" /\ ~Told(d)
    <3>1. OnTheirWay({d}) = {}
      BY <2>7 DEF OnTheirWay
    <3>2. OnTheirWay(calls') = OnTheirWay(calls)
      BY <1>13, <2>1, <2>7, <2>4, <3>1
    <3> QED
      BY <1>13, <2>1, <2>2, <2>7, <3>2 DEF SecretsCounted
  <2> QED
    BY <2>5, <2>6, <2>7
<1>16. ASSUME NEW c \in calls, Lost(c)
       PROVE  FALSE
  BY <1>1, <1>16 DEF Lost, Hist
<1>17. ASSUME NEW c \in calls, Stays(c)
       PROVE  SecretsCounted'
  <2> DEFINE d == [c EXCEPT !.ans = "refused"]
  <2>1. calls' = End(c) \cup {d} /\ UNCHANGED hist /\ c.ans = "401"
    BY <1>17 DEF Stays, Unauthorized, Expelled
  <2>2. d.op = c.op /\ d.page = c.page /\ d.home = c.home /\ d.ans = "refused"
    BY <1>1 DEF Call
  <2> HIDE DEF d
  <2>3. OnTheirWay({d}) = {} /\ c \notin OnTheirWay(calls)
    BY <2>1, <2>2 DEF OnTheirWay, Told
  <2>4. (OnTheirWay(calls) \ {c}) \cup {} = OnTheirWay(calls)
    BY <2>3
  <2>5. OnTheirWay(calls') = OnTheirWay(calls)
    BY <1>13, <2>1, <2>2, <2>3, <2>4
  <2> QED
    BY <1>2, <1>13, <2>1, <2>2, <2>5 DEF SecretsCounted
<1>18. ASSUME NEW c \in calls, Ignored(c) \/ Checked(c) \/ LoggedOut(c)
       PROVE  SecretsCounted'
  <2>1. calls' = End(c) /\ UNCHANGED hist
    BY <1>18 DEF Ignored, Checked, LoggedOut
  <2>2. c \notin OnTheirWay(calls)
    BY <1>18 DEF Ignored, Checked, LoggedOut, Answers, OnTheirWay, Told, Secret
  <2> QED
    BY <1>2, <1>14, <2>1, <2>2 DEF SecretsCounted
<1>19. ASSUME NEW c \in calls, NEW N, TakesIn(c, N)
       PROVE  SecretsCounted'
  <2>1. /\ Counted /\ calls' = End(c) \cup N /\ c.home = "mounted"
        /\ hist'.untold = IF Told(c) THEN hist.untold - 1 ELSE hist.untold
    BY <1>2, <1>19 DEF TakesIn, Heard, Noted, AsksNext
  <2>2. /\ OnTheirWay(calls') = OnTheirWay(End(c))
        /\ \A e \in N : Secret(e) => e.home # "left"
    BY <1>5, <1>19, <2>1, NextIsNew DEF TakesIn
  <2>3. CASE Told(c)
    <3>1. c \in OnTheirWay(calls)
      BY <2>1, <2>3 DEF OnTheirWay
    <3>2. Cardinality(OnTheirWay(calls) \ {c}) = Cardinality(OnTheirWay(calls)) - 1
      BY <1>3, <3>1, FS_RemoveElement
    <3> QED
      BY <1>14, <2>1, <2>2, <2>3, <3>2 DEF SecretsCounted
  <2>4. CASE ~Told(c)
    <3>1. OnTheirWay(calls) \ {c} = OnTheirWay(calls)
      BY <2>4 DEF OnTheirWay
    <3> QED
      BY <1>14, <2>1, <2>2, <2>4, <3>1 DEF SecretsCounted
  <2> QED
    BY <2>3, <2>4
<1>20. ASSUME NEW c \in calls, NEW N, Renews(c, N)
       PROVE  SecretsCounted'
  <2>1. /\ Counted /\ calls' = End(c) \cup N /\ c.op = "self" /\ hist'.untold = hist.untold
    BY <1>2, <1>20 DEF Renews, Known
  <2>2. /\ OnTheirWay(calls') = OnTheirWay(End(c))
        /\ \A e \in N : Secret(e) => e.home # "left"
    BY <1>5, <1>20, <2>1, FreshIsNew DEF Renews
  <2>3. OnTheirWay(calls) \ {c} = OnTheirWay(calls)
    BY <2>1 DEF OnTheirWay, Told, Secret
  <2> QED
    BY <1>14, <2>1, <2>2, <2>3 DEF SecretsCounted
<1>21. \A c \in calls : End(c) \in SUBSET calls
  BY DEF End
<1> QED
  BY <1>6, <1>7, <1>8, <1>9, <1>11, <1>12, <1>15, <1>16, <1>17, <1>18, <1>19, <1>20, <1>21,
     StepShapes DEF SecretsCounted

(* A key or a set of backup codes, which the server tells once, is shown: also *)
(* when the form was closed meanwhile.  Unless the page was left or the answer *)
(* lost.                                                                       *)
THEOREM SecretsShown == Spec => []SecretsAreShown
<1>1. Init => SecretsCounted
  <2> SUFFICES ASSUME Init PROVE SecretsCounted
    OBVIOUS
  <2>1. Base
    BY BaseInit
  <2>2. PICK N : calls = {} \cup N /\ IsDocument(N, {}, page)
    BY <2>1, FS_EmptySet, DocumentAdds DEF Init, Ask, Base, TypeOK
  <2>3. \A c \in calls : c.home = "mounted" /\ c.ans = "none"
    BY <2>2 DEF IsDocument, Fresh
  <2>4. OnTheirWay(calls) = {}
    BY <2>3 DEF OnTheirWay, Told
  <2> QED
    BY <2>3, <2>4, FS_EmptySet DEF Init, SecretsCounted
<1>2. Base /\ SecretsCounted /\ [Next]_vars => SecretsCounted'
  <2>1. CASE UNCHANGED vars
    BY <2>1 DEF vars, SecretsCounted, OnTheirWay
  <2> QED
    BY <2>1, SecretsStep
<1>3. SecretsCounted => SecretsAreShown
  <2>1. calls = {} => OnTheirWay(calls) = {}
    BY DEF OnTheirWay
  <2> QED
    BY <2>1, FS_EmptySet DEF SecretsCounted, SecretsAreShown, Quiet
<1> QED
  BY <1>1, <1>2, <1>3, ConsoleTypes, PTL DEF Spec

-----------------------------------------------------------------------------
(* The console says who is logged in                                       *)

\* What holds as long as no two calls about the session crossed.
AllGood == AtTheirPage /\ Alone /\ Honest /\ Named

(* Nothing about the session is in flight: nothing can go wrong with it. *)
LEMMA NoneOfSession ==
  ASSUME \A c \in calls' : OfSession(c) => c.op \in {"self", "callback"} /\ c.phase = "asked"
                                           /\ c.home = "mounted",
         (\E c \in calls' : c.op = "callback") => page' = "oidc",
         Named'
  PROVE  Knows'
<1>1. AtTheirPage'
  BY DEF AtTheirPage, AtHome, OfSession
<1>2. Alone'
  BY DEF Alone, OfSession
<1>3. Honest'
  BY DEF Honest, OfSession, SessionOps
<1> QED
  BY <1>1, <1>2, <1>3 DEF Knows

(* Calls that have nothing to do with the session come and go. *)
LEMMA SessionUntouched ==
  ASSUME AllGood, UNCHANGED <<sess, page>>, db'.factor = db.factor,
         auth'.user = auth.user, auth'.factor = auth.factor,
         \A c \in calls' : OfSession(c) => c \in calls,
         \A c \in calls : OfSession(c) /\ ~Settled(c) => c \in calls'
  PROVE  Knows'
<1>1. AtTheirPage'
  BY DEF AllGood, AtTheirPage, AtHome, OfSession
<1>2. Alone'
  BY DEF AllGood, Alone, OfSession
<1>3. Honest'
  BY DEF AllGood, Honest, OfSession, SessionOps
<1>4. Named'
  <2> SUFFICES ASSUME auth'.user # 0, \A c \in calls' : OfSession(c) => Settled(c)
               PROVE  auth'.user = sess' /\ (auth'.factor <=> sess' \in db'.factor)
    BY DEF Named, OfSession, Settled
  <2>1. \A c \in calls : OfSession(c) => Settled(c)
    OBVIOUS
  <2> QED
    BY <2>1 DEF AllGood, Named
<1> QED
  BY <1>1, <1>2, <1>3, <1>4 DEF Knows

(* What the router leaves behind are not calls of the shell. *)
LEMMA ShellOnly ==
  ASSUME NEW cs \in SUBSET Call
  PROVE  \A d \in Left(cs, PageOps) :
           /\ \E c \in cs : Same(d, c) /\ (~OfAPage(c) => d = c)
           /\ d.op \in ShellOps => d \in cs
<1> SUFFICES ASSUME NEW d \in Left(cs, PageOps)
             PROVE  /\ \E c \in cs : Same(d, c) /\ (~OfAPage(c) => d = c)
                    /\ d.op \in ShellOps => d \in cs
  OBVIOUS
<1>1. PICK c \in cs : Same(d, c) /\ (~OfAPage(c) => d = c)
  BY LeftIs
<1>2. d.op \in ShellOps => ~OfAPage(c)
  BY <1>1 DEF Same, OfAPage, PageOps, ShellOps
<1> QED
  BY <1>1, <1>2

(* The user starts something; two calls about the session do not cross. *)
LEMMA KnowsAsks ==
  ASSUME Base, Knows, UserAsks
  PROVE  Knows'
<1>1. hist \in Hist
  BY DEF Base, TypeOK
<1>2. PICK op \in Ops, arg \in Ranges \cup {"none", "code"}, d \in Call :
           /\ Starts(op, arg, ui') /\ Asked(d, op, page, arg, "none")
           /\ calls' = calls \cup {d} /\ hist' = Started(op)
           /\ UNCHANGED <<sess, db, page, auth>>
  BY DEF UserAsks
<1>3. SUFFICES ASSUME ~hist'.crossed, ~hist'.ended, ~hist'.lost
               PROVE  Knows'
  BY DEF Knows
<1>4. AllGood
  BY <1>1, <1>2, <1>3, StartedTypes DEF Knows, AllGood
<1>5. CASE op \notin SessionOps
  BY <1>2, <1>4, <1>5, SessionUntouched DEF Asked, OfSession
<1>6. CASE op \in SessionOps
  <2>1. \A c \in calls : ~OfSession(c)
    BY <1>1, <1>2, <1>3, <1>6, StartedTypes DEF Pending, OfSession
  <2>2. d.op = op /\ op # "self" /\ d.home = "mounted" /\ d.phase = "asked" /\ AtHome(op)
    BY <1>2 DEF Asked, Starts
  <2>3. AtTheirPage'
    BY <1>2, <2>1, <2>2 DEF AtTheirPage, OfSession, AtHome
  <2>4. Alone' /\ Honest'
    BY <1>2, <2>1, <2>2 DEF Alone, Honest, OfSession, SessionOps
  <2>5. Named'
    BY <1>2, <1>4, <2>1 DEF AllGood, Named, OfSession, Settled
  <2> QED
    BY <2>3, <2>4, <2>5 DEF Knows
<1> QED
  BY <1>5, <1>6

(* Another document asks who is logged in. *)
LEMMA KnowsLoads ==
  ASSUME Base, NEW cs \in SUBSET calls, NEW N, Loads(cs, N)
  PROVE  Knows'
<1>1. SUFFICES ASSUME ~hist'.crossed
               PROVE  Knows'
  BY DEF Knows
<1>2. calls \in SUBSET Call /\ calls' = Gone(cs) \cup N /\ auth'.user = 0
  BY OutTypes DEF Base, TypeOK, Loads
<1>3. \A c \in cs : ~OfSession(c)
  BY <1>1 DEF Loads, Pending, OfSession
<1>4. \A d \in Gone(cs) : ~OfSession(d)
  BY <1>2, <1>3, GoneIs DEF Same, OfSession
<1>5. \A d \in N : /\ d.op \in {"self", "status", "callback"} /\ d.phase = "asked"
                   /\ d.home = "mounted"
                   /\ d.op = "callback" => page' = "oidc"
  BY DEF Loads, IsDocument, Fresh
<1>6. Named'
  BY <1>2 DEF Named
<1> QED
  BY <1>2, <1>4, <1>5, <1>6, NoneOfSession DEF OfSession, SessionOps

(* The router takes the user away from a page. *)
LEMMA KnowsMoves ==
  ASSUME Base, Knows, NEW N, Moves(N)
  PROVE  Knows'
<1>1. SUFFICES ASSUME ~hist'.crossed, ~hist'.ended, ~hist'.lost
               PROVE  Knows'
  BY DEF Knows
<1>2. /\ AllGood /\ UNCHANGED <<sess, db, auth>> /\ calls \in SUBSET Call
      /\ calls' = Left(calls, PageOps) \cup N
  BY <1>1 DEF Knows, AllGood, Moves, Moved, Base, TypeOK
<1>3. \A d \in N : ~OfSession(d)
  BY DEF Moves, Moved, IsRoute, Fresh, OfSession, SessionOps
<1>4. \A c \in calls : OfSession(c) => c.op \in {"self", "logout"}
  <2>1. CASE page = "dashboard"
    BY <1>2, <2>1 DEF AllGood, AtTheirPage, AtHome, OfSession, SessionOps
  <2>2. CASE page # "dashboard"
    BY <1>1, <2>2 DEF Moves, Pending, OfSession
  <2> QED
    BY <2>1, <2>2
<1>5. \A d \in Left(calls, PageOps) : OfSession(d) => d \in calls /\ d.op \in ShellOps
  <2> SUFFICES ASSUME NEW d \in Left(calls, PageOps), OfSession(d)
               PROVE  d \in calls /\ d.op \in ShellOps
    OBVIOUS
  <2>1. PICK c \in calls : Same(d, c)
    BY <1>2, ShellOnly
  <2>2. d.op \in ShellOps
    BY <1>4, <2>1 DEF Same, OfSession, ShellOps
  <2> QED
    BY <1>2, <2>2, ShellOnly
<1>6. \A c \in calls : OfSession(c) => c \in calls'
  BY <1>2, <1>4, ShellStays DEF ShellOps
<1>7. AtTheirPage'
  BY <1>2, <1>3, <1>4, <1>5 DEF AllGood, AtTheirPage, AtHome, OfSession
<1>8. Alone' /\ Honest'
  BY <1>2, <1>3, <1>5 DEF AllGood, Alone, Honest, OfSession, SessionOps
<1>9. Named'
  BY <1>2, <1>6 DEF AllGood, Named, OfSession, Settled
<1> QED
  BY <1>7, <1>8, <1>9 DEF Knows

(* The server answers. *)
LEMMA KnowsServes ==
  ASSUME Base, Knows, NEW c \in calls, NEW d, ServesProtected(c, d) \/ ServesPublic(c, d)
  PROVE  Knows'
<1> DEFINE changes == sess' # sess \/ db'.factor # db.factor
<1>1. SUFFICES ASSUME ~hist'.crossed, ~hist'.ended, ~hist'.lost
               PROVE  Knows'
  BY DEF Knows
<1>2. Serves(c, d) /\ UNCHANGED <<page, auth, ui>>
  BY DEF ServesProtected, ServesPublic, Serves
<1>3. AllGood
  BY <1>1, <1>2 DEF Knows, AllGood, Serves
<1>4. /\ d.op = c.op /\ d.home = c.home /\ c.phase = "asked" /\ d.phase = "served"
      /\ calls' = IF c.home = "gone" THEN End(c) ELSE End(c) \cup {d}
  BY <1>2 DEF Serves
<1>5. \A e \in calls' : (e \in calls /\ e # c) \/ e = d
  BY <1>4, EndKeeps
<1>6. \A e \in calls : e # c => e \in calls'
  BY <1>4, EndKeeps
<1>7. changes => c.op \in {"login", "logout", "callback", "enable", "disable"} /\ d.ans = "ok"
  BY DEF ServesProtected, ServesPublic, Serves
<1>8. CASE ~OfSession(c)
  <2>1. ~changes /\ \A e \in calls' : OfSession(e) => e \in calls
    BY <1>4, <1>5, <1>7, <1>8 DEF OfSession, SessionOps
  <2> QED
    BY <1>2, <1>3, <1>6, <1>8, <2>1, SessionUntouched
<1>9. CASE OfSession(c)
  <2>1. c.home = "mounted" /\ AtHome(c.op) /\ d \in calls' /\ OfSession(d)
    BY <1>3, <1>4, <1>9 DEF AllGood, AtTheirPage, OfSession
  <2>2. AtTheirPage'
    BY <1>2, <1>3, <1>4, <1>5, <2>1 DEF AllGood, AtTheirPage, AtHome, OfSession
  <2>3. Alone'
    BY <1>3, <1>4, <1>5, <1>9 DEF AllGood, Alone, OfSession
  <2>4. \A e \in calls : OfSession(e) /\ e # c => {c.op, e.op} \subseteq {"self", "callback"}
    BY <1>3, <1>9 DEF AllGood, Alone
  \* Who the user is may only change while nothing says so.
  <2>5. changes => \A e \in calls : e.op = "self" => ~(e.phase = "served" /\ e.ans = "ok")
    <3> SUFFICES ASSUME changes, NEW e \in calls, e.op = "self", e.phase = "served", e.ans = "ok"
                 PROVE  FALSE
      OBVIOUS
    <3>1. OfSession(e) /\ e # c
      BY <1>4 DEF OfSession, SessionOps
    <3>2. c.op = "callback"
      BY <1>7, <2>4, <3>1
    <3>3. sess # 0
      BY <1>3 DEF AllGood, Honest
    <3>4. UNCHANGED sess /\ UNCHANGED db
      BY <3>2, <3>3 DEF ServesPublic, ServesProtected, Public
    <3> QED
      BY <3>4
  <2>6. d.op = "self" /\ d.ans = "ok" =>
          /\ d.who = sess /\ sess # 0 /\ (d.flag <=> sess \in db.factor)
    BY <1>4 DEF ServesProtected, ServesPublic, Public
  <2>7. Honest'
    <3>1. CASE changes
      BY <1>4, <1>5, <1>7, <2>5, <3>1 DEF Honest
    <3>2. CASE ~changes
      BY <1>3, <1>5, <2>6, <3>2 DEF AllGood, Honest
    <3> QED
      BY <3>1, <3>2
  <2>8. Named'
    <3> SUFFICES ASSUME auth'.user # 0, \A e \in calls' : OfSession(e) => Settled(e)
                 PROVE  auth'.user = sess' /\ (auth'.factor <=> sess' \in db'.factor)
      BY DEF Named, OfSession, Settled
    <3>1. Settled(d)
      BY <2>1
    <3>2. ~changes /\ Settled(c)
      BY <1>4, <1>7, <3>1 DEF Settled
    <3>3. \A e \in calls : OfSession(e) => Settled(e)
      BY <1>6, <3>2
    <3> QED
      BY <1>2, <1>3, <3>2, <3>3 DEF AllGood, Named
  <2> QED
    BY <2>2, <2>3, <2>7, <2>8 DEF Knows
<1> QED
  BY <1>8, <1>9

(* A page takes its answer in; a success about the session asks who the user is. *)
LEMMA KnowsTakes ==
  ASSUME Base, Knows, NEW c \in calls, NEW N, TakesIn(c, N)
  PROVE  Knows'
<1>1. SUFFICES ASSUME ~hist'.crossed, ~hist'.ended, ~hist'.lost
               PROVE  Knows'
  BY DEF Knows
<1>2. UNCHANGED <<sess, db, page, auth>> /\ c.home = "mounted" /\ calls' = End(c) \cup N
      /\ c.op \in PageOps /\ c.phase = "served"
  BY DEF TakesIn, Heard, AsksNext
<1>3. AllGood
  BY <1>1 DEF Knows, AllGood, TakesIn, Noted
<1>4. \A e \in calls : e # c => e \in calls'
  BY <1>2, EndKeeps
<1>5. \A e \in calls' : (e \in calls /\ e # c) \/ e \in N
  BY <1>2, EndKeeps
<1>6. \A e \in N : e.phase = "asked" /\ e.home = "mounted"
  BY DEF TakesIn, AsksNext
<1>7. CASE ~(c.op \in Rechecked /\ c.ans = "ok")
  <2>1. \A e \in N : ~OfSession(e)
    BY <1>7 DEF TakesIn, AsksNext, IsListing, Fresh, OfSession, SessionOps
  <2>2. OfSession(c) => Settled(c)
    BY <1>2, <1>7 DEF OfSession, SessionOps, Settled, Rechecked, PageOps
  <2> QED
    BY <1>2, <1>3, <1>4, <1>5, <2>1, <2>2, SessionUntouched
<1>8. CASE c.op \in Rechecked /\ c.ans = "ok"
  <2>1. N # {} /\ \A e \in N : e.op = "self"
    BY <1>8 DEF TakesIn, AsksNext
  <2>2. OfSession(c)
    BY <1>8 DEF OfSession, SessionOps, Rechecked
  <2>3. \A e \in calls : OfSession(e) /\ e # c => e.op \in {"self", "callback"}
    BY <1>3, <2>2 DEF AllGood, Alone
  <2>4. AtTheirPage'
    BY <1>2, <1>3, <1>5, <1>6, <2>1 DEF AllGood, AtTheirPage, AtHome, OfSession
  <2>5. Alone'
    BY <1>5, <2>1, <2>3 DEF Alone
  <2>6. Honest'
    BY <1>2, <1>3, <1>5, <1>6 DEF AllGood, Honest
  <2>7. Named'
    <3>1. PICK e \in calls' : e.op = "self"
      BY <1>2, <2>1
    <3> QED
      BY <3>1 DEF Named, OfSession, SessionOps, Settled
  <2> QED
    BY <2>4, <2>5, <2>6, <2>7 DEF Knows
<1> QED
  BY <1>7, <1>8

(* The server has said who the user is. *)
LEMMA KnowsHeard ==
  ASSUME Base, Knows, NEW c \in calls, NEW N, Renews(c, N) \/ Returns(c, N)
  PROVE  Knows'
<1>1. SUFFICES ASSUME ~hist'.crossed, ~hist'.ended, ~hist'.lost
               PROVE  Knows'
  BY DEF Knows
<1>2. Known(c) /\ UNCHANGED <<sess, db>> /\ calls \in SUBSET Call
  BY DEF Renews, Returns, Moved, Base, TypeOK
<1>3. AllGood
  BY <1>1 DEF Knows, AllGood, Renews, Returns, Moved
<1>4. Named'
  BY <1>2, <1>3 DEF Named, AllGood, Honest, Known
<1>5. \A d \in N : ~OfSession(d)
  BY DEF Renews, Returns, Fresh, OfSession, SessionOps
<1>6. CASE Renews(c, N)
  <2>1. UNCHANGED page /\ \A e \in calls' : OfSession(e) => e \in calls
    BY <1>5, <1>6, EndKeeps DEF Renews
  <2>2. AtTheirPage'
    BY <1>3, <2>1 DEF AllGood, AtTheirPage, AtHome, OfSession
  <2>3. Alone' /\ Honest'
    BY <1>2, <1>3, <2>1 DEF AllGood, Alone, Honest, OfSession, SessionOps
  <2> QED
    BY <1>4, <2>2, <2>3 DEF Knows
<1>7. CASE Returns(c, N)
  <2>1. \A e \in End(c) \cup N : ~OfSession(e)
    BY <1>1, <1>5, <1>7 DEF Returns, Pending, OfSession
  <2>2. \A e \in calls' : ~OfSession(e)
    <3>1. End(c) \cup N \in SUBSET Call
      BY <1>2, <1>7, EndKeeps DEF Returns, Fresh
    <3> QED
      BY <1>7, <2>1, <3>1, ShellOnly DEF Returns, Same, OfSession
  <2> QED
    BY <1>4, <2>2, NoneOfSession DEF OfSession, SessionOps
<1> QED
  BY <1>6, <1>7

(* The console knows the session, after a step too. *)
LEMMA KnowsStep ==
  ASSUME Base, Knows, Next
  PROVE  Knows'
<1>1. /\ calls \in SUBSET Call /\ hist \in Hist /\ auth \in Auth
  BY DEF Base, TypeOK
<1>2. CASE Enters
  BY <1>2 DEF Enters, Knows, AtTheirPage, Alone, Honest, Named, AtHome
<1>3. CASE SessionEnds
  <2>1. hist'.ended
    BY <1>1, <1>3 DEF SessionEnds, Hist
  <2> QED
    BY <2>1 DEF Knows
<1>4. ASSUME NEW c \in calls, Lost(c)
      PROVE  Knows'
  <2>1. hist'.lost
    BY <1>1, <1>4 DEF Lost, Hist
  <2> QED
    BY <2>1 DEF Knows
<1>5. ASSUME NEW c \in calls, Ignored(c) \/ Checked(c)
      PROVE  Knows'
  <2>1. calls' = End(c) /\ UNCHANGED <<sess, db, page, hist>>
        /\ auth'.user = auth.user /\ auth'.factor = auth.factor
    BY <1>1, <1>5 DEF Ignored, Checked, Auth
  <2>2. SUFFICES ASSUME ~hist.crossed, ~hist.ended, ~hist.lost
                 PROVE  Knows'
    BY <2>1 DEF Knows
  <2>3. AllGood
    BY <2>2 DEF Knows, AllGood
  <2>4. ~OfSession(c)
    BY <1>5, <2>3 DEF AllGood, AtTheirPage, OfSession, Ignored, Checked, Answers, SessionOps
  <2> QED
    BY <2>1, <2>3, <2>4, EndKeeps, SessionUntouched
\* Nobody is logged in any more, as far as the console knows.
<1>6. ASSUME NEW c \in calls, UNCHANGED <<sess, db, page, hist>>, auth'.user = 0,
             NEW d, d.op = c.op, d.home = c.home, d.ans # "ok",
             \A e \in calls' : (e \in calls /\ e # c) \/ e = d
      PROVE  Knows'
  <2>1. SUFFICES ASSUME ~hist.crossed, ~hist.ended, ~hist.lost
                 PROVE  Knows'
    BY <1>6 DEF Knows
  <2>2. AllGood
    BY <2>1 DEF Knows, AllGood
  <2>3. AtTheirPage'
    BY <1>6, <2>2 DEF AllGood, AtTheirPage, AtHome, OfSession
  <2>4. Alone'
    BY <1>6, <2>2 DEF AllGood, Alone, OfSession
  <2>5. Honest'
    BY <1>6, <2>2 DEF AllGood, Honest
  <2>6. Named'
    BY <1>6 DEF Named
  <2> QED
    BY <2>3, <2>4, <2>5, <2>6 DEF Knows
<1>7. ASSUME NEW c \in calls, Stays(c)
      PROVE  Knows'
  <2> DEFINE d == [c EXCEPT !.ans = "refused"]
  <2>1. /\ calls' = End(c) \cup {d} /\ UNCHANGED <<sess, db, page, hist>>
        /\ auth' = [auth EXCEPT !.user = 0, !.factor = FALSE]
    BY <1>7 DEF Stays, Unauthorized
  <2>2. d.op = c.op /\ d.home = c.home /\ d.ans = "refused" /\ auth'.user = 0
    BY <1>1, <2>1 DEF Call, Auth
  <2> HIDE DEF d
  <2>3. \A e \in calls' : (e \in calls /\ e # c) \/ e = d
    BY <2>1, EndKeeps
  <2> QED
    BY <1>6, <2>1, <2>2, <2>3
<1>8. ASSUME NEW c \in calls, LoggedOut(c)
      PROVE  Knows'
  <2> DEFINE d == [c EXCEPT !.ans = "refused"]
  <2>1. calls' = End(c) /\ UNCHANGED <<sess, db, page, hist>> /\ auth'.user = 0
    BY <1>1, <1>8 DEF LoggedOut, Auth
  <2>2. d.op = c.op /\ d.home = c.home /\ d.ans = "refused"
    BY <1>1 DEF Call
  <2> HIDE DEF d
  <2> QED
    BY <1>6, <2>1, <2>2, EndKeeps
<1>9. \A c : End(c) \in SUBSET calls
  BY DEF End
<1>10. CASE \E N : Loads(calls, N) \/ Moves(N)
  BY <1>10, KnowsLoads, KnowsMoves
<1>11. CASE \E c \in calls : \E N : \/ TakesIn(c, N) \/ Loads(End(c), N)
                                    \/ Renews(c, N) \/ Returns(c, N)
  BY <1>9, <1>11, KnowsTakes, KnowsLoads, KnowsHeard
<1> QED
  BY <1>2, <1>3, <1>4, <1>5, <1>7, <1>8, <1>10, <1>11, KnowsAsks, KnowsServes, StepShapes

(* When nothing is in flight the console names the account of the session and *)
(* says truly whether it has two factors, unless the session ended by itself, *)
(* an answer was lost, or two calls about the session crossed.                *)
THEOREM SaysTruly == Spec => []SaysWhoItIs
<1>1. Init => Knows
  <2> SUFFICES ASSUME Init PROVE Knows
    OBVIOUS
  <2>1. Base
    BY BaseInit
  <2>2. PICK N : calls = {} \cup N /\ IsDocument(N, {}, page)
    BY <2>1, FS_EmptySet, DocumentAdds DEF Init, Ask, Base, TypeOK
  <2>3. \A c \in calls : /\ c.op \in {"self", "status", "callback"}
                         /\ c.phase = "asked" /\ c.home = "mounted"
                         /\ c.op = "callback" => page = "oidc"
    BY <2>2 DEF IsDocument, Fresh
  <2>4. auth.user = 0
    BY OutTypes DEF Init
  <2> QED
    BY <2>3, <2>4
    DEF Knows, AtTheirPage, Alone, Honest, Named, OfSession, SessionOps, AtHome
<1>2. Base /\ Knows /\ [Next]_vars => Knows'
  <2>1. CASE UNCHANGED vars
    BY <2>1 DEF vars, Knows, AtTheirPage, Alone, Honest, Named, AtHome
  <2> QED
    BY <2>1, KnowsStep
<1>3. Base /\ Knows => SaysWhoItIs
  <2> SUFFICES ASSUME Base, Knows, Quiet, auth.user # 0, ~hist.ended, ~hist.lost, ~hist.crossed
               PROVE  auth.user = sess /\ auth.factor = (sess \in db.factor)
    BY DEF SaysWhoItIs
  <2>1. auth.user = sess /\ (auth.factor <=> sess \in db.factor)
    BY DEF Knows, Named, Quiet
  <2>2. auth.factor \in BOOLEAN
    BY DEF Base, TypeOK, Auth
  <2>3. \A x \in BOOLEAN, y \in BOOLEAN : (x <=> y) => x = y
    OBVIOUS
  <2>4. (sess \in db.factor) \in BOOLEAN
    OBVIOUS
  <2>5. auth.factor = (sess \in db.factor)
    BY <2>1, <2>2, <2>3, <2>4, Zenon
  <2> QED
    BY <2>1, <2>5
<1> QED
  BY <1>1, <1>2, <1>3, ConsoleTypes, PTL DEF Spec

-----------------------------------------------------------------------------
(* Lists show every change                                                 *)

\* What holds unless the user did not wait, or an answer was lost.
ListsGood == FromThisPage /\ OneAtATime /\ RightRange /\ TrueAnswers /\ ListTrue /\ AsideTrue

(* The page has nothing in flight but what it has just asked: one call of a *)
(* kind, no change beside a list, and a list if it may have one.            *)
LEMMA ListsJustAsked ==
  ASSUME \A c \in calls' : c.op \in Changes /\ c.phase = "asked" => c.home = "mounted",
         \A c \in calls' : OfPage(c, DataOps) => /\ c.op \in {"list", "aside"}
                                                 /\ c.phase = "asked"
                                                 /\ c.op = "list" => c.arg = ui'.range,
         \A c, d \in calls' : OfPage(c, DataOps) /\ OfPage(d, DataOps) /\ c.op = d.op => c = d,
         Usable' /\ page' \in ListPages =>
           /\ \E c \in calls' : OfPage(c, {"list"})
           /\ page' \in TwoLists => \E c \in calls' : OfPage(c, {"aside"})
  PROVE  UpToDate'
<1>1. \A c : OfPage(c, {"list"}) \/ OfPage(c, {"aside"}) \/ OfPage(c, {"list", "aside"})
             => OfPage(c, DataOps)
  BY DEF OfPage, DataOps
<1>2. FromThisPage'
  BY DEF FromThisPage
<1>3. OneAtATime'
  BY DEF OneAtATime, Changes, OfPage
<1>4. RightRange'
  BY <1>1 DEF RightRange, OfPage
<1>5. TrueAnswers'
  BY <1>1 DEF TrueAnswers, OfPage
<1>6. ListTrue'
  BY DEF ListTrue, Still, OfPage
<1>7. AsideTrue'
  <2>1. TwoLists \subseteq ListPages
    BY DEF TwoLists, ListPages, Lists
  <2> QED
    BY <2>1 DEF AsideTrue, Still, OfPage
<1> QED
  BY <1>2, <1>3, <1>4, <1>5, <1>6, <1>7 DEF UpToDate

(* Calls that have nothing to do with the lists come and go, and the page *)
(* shows the same.                                                        *)
LEMMA ListsUntouched ==
  ASSUME ListsGood, UNCHANGED page, db'.rows = db.rows, hist.blind \subseteq hist'.blind,
         ui'.rows = ui.rows, ui'.aside = ui.aside, ui'.of = ui.of, ui'.range = ui.range,
         Usable' => Usable,
         \A c \in calls' :
           /\ c.op \in Changes /\ c.phase = "asked" => c \in calls
           /\ c.op \in DataOps /\ c.home = "mounted" => c \in calls,
         \A c \in calls : OfPage(c, DataOps) => c \in calls'
  PROVE  UpToDate'
<1>1. \A c : /\ c.op \in Changes => c.op \in DataOps
             /\ OfPage(c, {"list"}) => OfPage(c, DataOps)
             /\ OfPage(c, {"list", "aside"}) => OfPage(c, DataOps)
             /\ OfPage(c, Changes \cup {"list"}) => OfPage(c, DataOps)
             /\ OfPage(c, Changes \cup {"aside"}) => OfPage(c, DataOps)
             /\ OfPage(c, DataOps) => c.op \in DataOps /\ c.home = "mounted"
  BY DEF OfPage, DataOps, Changes
<1>2. FromThisPage'
  BY <1>1 DEF ListsGood, FromThisPage
<1>3. OneAtATime'
  BY <1>1 DEF ListsGood, OneAtATime, OfPage
<1>4. RightRange'
  BY <1>1 DEF ListsGood, RightRange, OfPage
<1>5. TrueAnswers'
  BY <1>1 DEF ListsGood, TrueAnswers, OfPage
<1>6. ListTrue'
  BY <1>1 DEF ListsGood, ListTrue, Still, OfPage
<1>7. AsideTrue'
  BY <1>1 DEF ListsGood, AsideTrue, Still, OfPage
<1> QED
  BY <1>2, <1>3, <1>4, <1>5, <1>6, <1>7 DEF UpToDate

(* The user, who waits, asks for one thing. *)
LEMMA ListsAsks ==
  ASSUME Base, UpToDate, UserAsks
  PROVE  UpToDate'
<1>1. hist \in Hist
  BY DEF Base, TypeOK
<1>2. PICK op \in Ops, arg \in Ranges \cup {"none", "code"}, d \in Call :
           /\ Starts(op, arg, ui') /\ Asked(d, op, page, arg, "none")
           /\ calls' = calls \cup {d} /\ hist' = Started(op)
           /\ UNCHANGED <<sess, db, page, auth>>
  BY DEF UserAsks
<1>3. SUFFICES ASSUME ~hist'.hurried, ~hist'.lost
               PROVE  UpToDate'
  BY DEF UpToDate
<1>4. ListsGood /\ hist'.blind = hist.blind
  BY <1>1, <1>2, <1>3, StartedTypes DEF UpToDate, ListsGood
<1>5. \A c \in calls : ~OfPage(c, DataOps)
  BY <1>1, <1>2, <1>3, StartedTypes DEF OfPage, DataOps, PageOps
<1>6. /\ d.op = op /\ d.home = "mounted" /\ d.phase = "asked" /\ d.arg = arg
      /\ ui'.rows = ui.rows /\ ui'.aside = ui.aside /\ ui'.of = ui.of
      /\ op # "list" => ui'.range = ui.range
      /\ op # "aside" /\ (Usable' <=> Usable)
  BY <1>2 DEF Asked, Starts, Usable
<1>7. CASE op \notin DataOps
  BY <1>2, <1>4, <1>6, <1>7, ListsUntouched DEF DataOps, Changes
<1>8. CASE op \in DataOps
  <2>1. \A c \in calls' : OfPage(c, DataOps) => c = d
    BY <1>2, <1>5
  <2>2. FromThisPage' /\ OneAtATime'
    BY <1>2, <1>4, <1>6, <2>1 DEF ListsGood, FromThisPage, OneAtATime, OfPage
  <2>3. RightRange' /\ TrueAnswers'
    BY <1>2, <1>6, <2>1 DEF RightRange, TrueAnswers, OfPage, DataOps, Starts
  <2>4. CASE op = "list"
    <3>1. ~Still(Changes \cup {"list"})' /\ page' \notin TwoLists
      BY <1>2, <1>6, <2>4 DEF Still, OfPage, Starts, TwoLists
    <3> QED
      BY <2>2, <2>3, <3>1 DEF UpToDate, ListTrue, AsideTrue
  <2>5. CASE op \in Changes
    <3>1. ~Still(Changes \cup {"list"})' /\ ~Still(Changes \cup {"aside"})'
      BY <1>2, <1>6, <2>5 DEF Still, OfPage
    <3> QED
      BY <2>2, <2>3, <3>1 DEF UpToDate, ListTrue, AsideTrue
  <2> QED
    BY <1>6, <1>8, <2>4, <2>5 DEF DataOps, Changes
<1> QED
  BY <1>7, <1>8

(* Another document has no list in flight, and does not show one yet. *)
LEMMA ListsLoads ==
  ASSUME Base, NEW cs \in SUBSET calls, NEW N, Loads(cs, N)
  PROVE  UpToDate'
<1>1. SUFFICES ASSUME ~hist'.hurried
               PROVE  UpToDate'
  BY DEF UpToDate
<1>2. calls \in SUBSET Call /\ calls' = Gone(cs) \cup N /\ ~Usable'
  BY OutTypes DEF Base, TypeOK, Loads, Usable
<1>3. \A c \in cs : ~(c.op \in Changes /\ c.phase = "asked")
  BY <1>1 DEF Loads, Changing, Changes
<1>4. \A d \in Gone(cs) : d.home = "gone" /\ ~(d.op \in Changes /\ d.phase = "asked")
  BY <1>2, <1>3, GoneIs DEF Same
<1>5. \A d \in N : d.op \notin DataOps
  BY DEF Loads, IsDocument, Fresh, DataOps
<1> QED
  BY <1>2, <1>4, <1>5, ListsJustAsked DEF OfPage, DataOps, Changes

(* The router shows a page, which asks for its lists. *)
LEMMA ListsMoves ==
  ASSUME Base, NEW N, Moves(N)
  PROVE  UpToDate'
<1>1. SUFFICES ASSUME ~hist'.hurried
               PROVE  UpToDate'
  BY DEF UpToDate
<1>2. /\ calls \in SUBSET Call /\ calls' = Left(calls, PageOps) \cup N /\ UNCHANGED auth
      /\ ui' = Mount(page') /\ page' \in Pages
  BY DEF Base, TypeOK, Moves, Moved
<1>3. \A d \in Left(calls, PageOps) : /\ ~(d.op \in Changes /\ d.phase = "asked")
                                      /\ ~OfPage(d, DataOps)
  <2> SUFFICES ASSUME NEW d \in Left(calls, PageOps)
               PROVE  ~(d.op \in Changes /\ d.phase = "asked") /\ ~OfPage(d, DataOps)
    OBVIOUS
  <2>1. PICK c \in calls : /\ Same(d, c)
                           /\ OfAPage(c) => d.home = "left"
                           /\ ~OfAPage(c) => d = c
    BY <1>2, LeftIs
  <2>2. ~(c.op \in Changes /\ c.phase = "asked")
    BY <1>1 DEF Moves, Moved, Changing, Changes
  <2>3. OfPage(d, DataOps) => OfAPage(d)
    BY DEF OfPage, OfAPage, DataOps, PageOps
  <2> QED
    BY <2>1, <2>2, <2>3 DEF Same, OfAPage
<1>4. \A d \in N : /\ d.op \in {"status", "callback", "list", "aside"}
                   /\ d.phase = "asked" /\ d.home = "mounted"
                   /\ d.op = "list" => d.arg = "30"
                   /\ \A e \in N : d.op = e.op => d = e
  BY DEF Moves, IsRoute, Fresh
<1>5. Usable' /\ page' \in ListPages =>
        /\ \E c \in N : c.op = "list"
        /\ page' \in TwoLists => \E c \in N : c.op = "aside"
  BY <1>2 DEF Moves, IsRoute, Usable, Admits
<1>6. ui'.range = "30"
  BY <1>2, MountTypes
<1> QED
  <2>1. \A c \in calls' : OfPage(c, DataOps) => c \in N /\ c.op \in {"list", "aside"}
    BY <1>2, <1>3, <1>4 DEF OfPage, DataOps
  <2>2. \A c \in calls' : c.op \in Changes /\ c.phase = "asked" => c.home = "mounted"
    BY <1>2, <1>3, <1>4
  <2>3. Usable' /\ page' \in ListPages =>
          /\ \E c \in calls' : OfPage(c, {"list"})
          /\ page' \in TwoLists => \E c \in calls' : OfPage(c, {"aside"})
    BY <1>2, <1>4, <1>5 DEF OfPage
  <2> QED
    BY <1>4, <1>6, <2>1, <2>2, <2>3, ListsJustAsked

(* The server answers; a change has no list of its page beside it. *)
LEMMA ListsServes ==
  ASSUME Base, UpToDate, NEW c \in calls, NEW d, ServesProtected(c, d) \/ ServesPublic(c, d)
  PROVE  UpToDate'
<1>1. SUFFICES ASSUME ~hist'.hurried, ~hist'.lost
               PROVE  UpToDate'
  BY DEF UpToDate
<1>2. Serves(c, d) /\ UNCHANGED <<page, auth, ui>> /\ (Usable' <=> Usable)
  BY DEF ServesProtected, ServesPublic, Serves, Usable
<1>3. ListsGood
  BY <1>1, <1>2 DEF UpToDate, ListsGood, Serves
<1>4. /\ d.op = c.op /\ d.home = c.home /\ d.arg = c.arg /\ c.phase = "asked"
      /\ d.phase = "served"
      /\ calls' = IF c.home = "gone" THEN End(c) ELSE End(c) \cup {d}
  BY <1>2 DEF Serves
<1>5. \A e \in calls' : (e \in calls /\ e # c) \/ (e = d /\ c.home # "gone")
  BY <1>4, EndKeeps
<1>6. (\A e \in calls : e # c => e \in calls') /\ (c.home # "gone" => d \in calls')
  BY <1>4, EndKeeps
<1>7. \A ops : OfPage(d, ops) <=> OfPage(c, ops)
  BY <1>4 DEF OfPage
<1>8. /\ hist.blind \subseteq hist'.blind
      /\ db'.rows # db.rows => c.op \in Changes
      /\ OfPage(c, {"list", "aside"}) =>
           IF d.ans = "ok" THEN d.ver = db.rows ELSE c.op \in hist'.blind
  <2>1. db.rows \in Nat
    BY DEF Base, TypeOK, Db
  <2>2. CASE ServesPublic(c, d)
    BY <2>2 DEF ServesPublic, OfPage, Public
  <2>3. CASE ServesProtected(c, d)
    BY <2>1, <2>3 DEF ServesProtected, OfPage
  <2> QED
    BY <2>2, <2>3
<1>9. FromThisPage'
  BY <1>3, <1>4, <1>5 DEF ListsGood, FromThisPage
<1>10. OneAtATime'
  BY <1>3, <1>4, <1>5, <1>7 DEF ListsGood, OneAtATime
<1>11. RightRange'
  BY <1>2, <1>3, <1>4, <1>5, <1>7 DEF ListsGood, RightRange
<1>12. \A ops : Still(ops)' => Still(ops)
  BY <1>5, <1>6, <1>7 DEF Still, OfPage
<1>13. CASE c.op \in Changes
  <2>1. OfPage(c, DataOps)
    BY <1>3, <1>4, <1>13 DEF ListsGood, FromThisPage, OfPage, DataOps, Changes
  <2>2. \A e \in calls : OfPage(e, DataOps) => e = c
    BY <1>3, <1>13, <2>1 DEF ListsGood, OneAtATime
  <2>3. TrueAnswers'
    BY <1>4, <1>5, <1>13, <2>2 DEF TrueAnswers, OfPage, DataOps, Changes
  <2>4. d \in calls' /\ OfPage(d, Changes)
    BY <1>4, <1>6, <1>13, <2>1 DEF OfPage
  <2>5. ListTrue' /\ AsideTrue'
    BY <2>4 DEF ListTrue, AsideTrue, Still, OfPage
  <2> QED
    BY <1>9, <1>10, <1>11, <2>3, <2>5 DEF UpToDate
<1>14. CASE c.op \notin Changes
  <2>1. db'.rows = db.rows
    BY <1>8, <1>14
  <2>2. TrueAnswers'
    BY <1>3, <1>4, <1>5, <1>7, <1>8, <2>1 DEF ListsGood, TrueAnswers
  <2>3. ListTrue' /\ AsideTrue'
    BY <1>2, <1>3, <1>8, <1>12, <2>1 DEF ListsGood, ListTrue, AsideTrue
  <2> QED
    BY <1>9, <1>10, <1>11, <2>2, <2>3 DEF UpToDate
<1> QED
  BY <1>13, <1>14

(* A page takes its answer in: a list is shown, a change has the list asked *)
(* for again.                                                               *)
LEMMA ListsTakes ==
  ASSUME Base, UpToDate, NEW c \in calls, NEW N, TakesIn(c, N)
  PROVE  UpToDate'
<1>1. SUFFICES ASSUME ~hist'.hurried, ~hist'.lost
               PROVE  UpToDate'
  BY DEF UpToDate
<1>2. /\ UNCHANGED <<db, page, auth>> /\ (Usable' <=> Usable) /\ hist'.blind = hist.blind
      /\ calls' = End(c) \cup N /\ c.home = "mounted" /\ c.phase = "served"
      /\ ui'.range = ui.range
  BY DEF TakesIn, Heard, AsksNext, Shown, Noted, Usable
<1>3. ListsGood
  BY <1>1 DEF UpToDate, ListsGood, TakesIn, Noted
<1>4. \A e \in calls : e # c => e \in calls'
  BY <1>2, EndKeeps
<1>5. \A e \in calls' : (e \in calls /\ e # c) \/ e \in N
  BY <1>2, EndKeeps
<1>6. CASE c.op \in Changes
  <2>1. /\ IsListing(N, End(c), page, ui.range) /\ page \in ListPages
    BY <1>6 DEF TakesIn, AsksNext
  <2>2. \A e \in N : /\ e.op \in {"list", "aside"} /\ e.phase = "asked" /\ e.home = "mounted"
                     /\ e.op = "list" => e.arg = ui'.range
                     /\ \A f \in N : e.op = f.op => e = f
    BY <1>2, <2>1 DEF IsListing, Fresh
  <2>3. OfPage(c, DataOps)
    BY <1>2, <1>6 DEF OfPage, DataOps, Changes
  <2>4. \A e \in calls : OfPage(e, DataOps) => e = c
    BY <1>3, <1>6, <2>3 DEF ListsGood, OneAtATime
  <2>5. \A e \in calls' : OfPage(e, DataOps) => e \in N
    BY <1>5, <2>4
  <2>6. \A e \in calls' : e.op \in Changes /\ e.phase = "asked" => e.home = "mounted"
    BY <1>3, <1>5, <2>2 DEF ListsGood, FromThisPage
  <2>7. /\ \E e \in calls' : OfPage(e, {"list"})
        /\ page' \in TwoLists => \E e \in calls' : OfPage(e, {"aside"})
    BY <1>2, <2>1, <2>2 DEF IsListing, OfPage
  <2> QED
    BY <2>2, <2>5, <2>6, <2>7, ListsJustAsked
<1>7. CASE c.op \notin DataOps
  <2>1. \A e \in N : e.op \notin DataOps
    BY <1>7 DEF TakesIn, AsksNext, DataOps, Changes
  <2>2. ui'.rows = ui.rows /\ ui'.aside = ui.aside /\ ui'.of = ui.of
    BY <1>7 DEF TakesIn, Shown, DataOps
  <2>3. \A e \in calls : OfPage(e, DataOps) => e # c
    BY <1>7 DEF OfPage
  <2> QED
    BY <1>2, <1>3, <1>4, <1>5, <1>7, <2>1, <2>2, <2>3, ListsUntouched DEF DataOps, Changes
<1>8. CASE c.op \in {"list", "aside"}
  <2>1. \A e \in N : e.op \notin DataOps
    BY <1>8 DEF TakesIn, AsksNext, DataOps, Changes, Rechecked
  <2>2. \A e \in calls' : e.op \in DataOps => e \in calls /\ e # c
    BY <1>5, <2>1
  <2>3. FromThisPage'
    BY <1>3, <2>2 DEF ListsGood, FromThisPage, DataOps, Changes
  <2>4. \A e : OfPage(e, DataOps) => e.op \in DataOps
    BY DEF OfPage
  <2>5. OneAtATime'
    BY <1>3, <2>2, <2>4 DEF ListsGood, OneAtATime
  <2>6. RightRange' /\ TrueAnswers'
    BY <1>2, <1>3, <2>2 DEF ListsGood, RightRange, TrueAnswers, OfPage, DataOps
  <2>7. IF c.ans = "ok" THEN c.ver = db.rows ELSE c.op \in hist.blind
    BY <1>2, <1>3, <1>8 DEF ListsGood, TrueAnswers, OfPage
  <2>8. CASE c.op = "list"
    <3>1. /\ ui'.of = c.arg /\ (c.ans = "ok" => ui'.rows = c.ver)
          /\ ui'.aside = ui.aside /\ c.arg = ui.range
      BY <1>2, <1>3, <2>8 DEF TakesIn, Shown, ListsGood, RightRange, OfPage
    <3>2. ListTrue'
      BY <1>2, <2>7, <2>8, <3>1 DEF ListTrue
    <3>3. Still(Changes \cup {"aside"})' => Still(Changes \cup {"aside"})
      BY <1>4, <2>8 DEF Still, OfPage, Changes
    <3>4. AsideTrue'
      BY <1>2, <1>3, <3>1, <3>3 DEF ListsGood, AsideTrue
    <3> QED
      BY <2>3, <2>5, <2>6, <3>2, <3>4 DEF UpToDate
  <2>9. CASE c.op = "aside"
    <3>1. /\ c.ans = "ok" => ui'.aside = c.ver
          /\ ui'.rows = ui.rows /\ ui'.of = ui.of
      BY <2>9 DEF TakesIn, Shown
    <3>2. AsideTrue'
      BY <1>2, <2>7, <2>9, <3>1 DEF AsideTrue
    <3>3. Still(Changes \cup {"list"})' => Still(Changes \cup {"list"})
      BY <1>4, <2>9 DEF Still, OfPage, Changes
    <3>4. ListTrue'
      BY <1>2, <1>3, <3>1, <3>3 DEF ListsGood, ListTrue
    <3> QED
      BY <2>3, <2>5, <2>6, <3>2, <3>4 DEF UpToDate
  <2> QED
    BY <1>8, <2>8, <2>9
<1> QED
  BY <1>6, <1>7, <1>8 DEF DataOps, Changes

(* The user is known: the page asks for its lists, or the dashboard is shown. *)
LEMMA ListsHeard ==
  ASSUME Base, NEW c \in calls, NEW N, Renews(c, N) \/ Returns(c, N)
  PROVE  UpToDate'
<1>1. SUFFICES ASSUME ~hist'.hurried
               PROVE  UpToDate'
  BY DEF UpToDate
<1>2. calls \in SUBSET Call
  BY DEF Base, TypeOK
<1>3. CASE Renews(c, N)
  <2>1. UNCHANGED page /\ ui'.range = ui.range /\ calls' = End(c) \cup N
    BY <1>3 DEF Renews
  <2>2. \A e \in calls : e.op \notin DataOps
    BY <1>1, <1>3 DEF Renews, Pending
  <2>3. \A d \in N : /\ d.op \in {"security", "list", "aside"}
                     /\ d.phase = "asked" /\ d.home = "mounted"
                     /\ \A e \in N : d.op = e.op => d = e
    BY <1>3 DEF Renews, Fresh
  <2>4. IF Admits(page, auth'.user)
        THEN /\ \A d \in N : d.op = "list" => d.arg = ui.range
             /\ \E d \in N : d.op = "list"
             /\ page \in TwoLists => \E d \in N : d.op = "aside"
        ELSE \A d \in N : d.op = "security"
    BY <1>3 DEF Renews
  <2>5. \A d \in N : d.op = "list" => d.arg = ui'.range
    BY <2>1, <2>4
  <2>6. \A e \in calls' : OfPage(e, DataOps) => e \in N /\ e.op \in {"list", "aside"}
    BY <2>1, <2>2, <2>3, EndKeeps DEF OfPage, DataOps
  <2>7. \A e \in calls' : e.op \in Changes /\ e.phase = "asked" => e.home = "mounted"
    BY <2>1, <2>2, <2>3, EndKeeps DEF DataOps, Changes
  <2>8. Usable' /\ page' \in ListPages =>
          /\ \E e \in calls' : OfPage(e, {"list"})
          /\ page' \in TwoLists => \E e \in calls' : OfPage(e, {"aside"})
    BY <2>1, <2>3, <2>4 DEF OfPage, Usable, Admits
  <2> QED
    BY <2>3, <2>5, <2>6, <2>7, <2>8, ListsJustAsked
<1>4. CASE Returns(c, N)
  <2> DEFINE all == End(c) \cup N
  <2>1. /\ page' = "dashboard" /\ calls' = Left(all, PageOps)
        /\ \A d \in N : d \in Call /\ d.op = "security"
        /\ \A e \in End(c) : ~(e.op \in Changes /\ e.phase = "asked")
    BY <1>1, <1>4 DEF Returns, Moved, Changing, Changes, Fresh
  <2>2. all \in SUBSET Call /\ \A e \in all : ~(e.op \in Changes /\ e.phase = "asked")
    BY <1>2, <2>1, EndKeeps DEF Changes
  <2> HIDE DEF all
  <2>3. ASSUME NEW d \in Left(all, PageOps)
        PROVE  ~(d.op \in Changes /\ d.phase = "asked") /\ ~OfPage(d, DataOps)
    <3>1. PICK e \in all : /\ Same(d, e)
                           /\ OfAPage(e) => d.home = "left"
                           /\ ~OfAPage(e) => d = e
      BY <2>2, LeftIs
    <3>2. OfPage(d, DataOps) => OfAPage(d)
      BY DEF OfPage, OfAPage, DataOps, PageOps
    <3> QED
      BY <2>2, <3>1, <3>2 DEF Same, OfAPage
  <2>4. page' \notin ListPages
    BY <2>1 DEF ListPages, Lists
  <2> QED
    BY <2>1, <2>3, <2>4, ListsJustAsked
<1> QED
  BY <1>3, <1>4

(* Lists show every change, after a step too. *)
LEMMA ListsStep ==
  ASSUME Base, UpToDate, Next
  PROVE  UpToDate'
<1>1. /\ calls \in SUBSET Call /\ hist \in Hist /\ auth \in Auth /\ page \in Pages
  BY DEF Base, TypeOK
<1>2. ASSUME UNCHANGED <<db, page, hist>>, Usable' => Usable,
             ui'.rows = ui.rows, ui'.aside = ui.aside, ui'.of = ui.of, ui'.range = ui.range,
             \A c \in calls' : c \in calls,
             \A c \in calls : OfPage(c, DataOps) => c \in calls'
      PROVE  UpToDate'
  <2>1. SUFFICES ASSUME ~hist.hurried, ~hist.lost
                 PROVE  UpToDate'
    BY <1>2 DEF UpToDate
  <2>2. ListsGood
    BY <2>1 DEF UpToDate, ListsGood
  <2> QED
    BY <1>2, <2>2, ListsUntouched
<1>3. CASE Enters
  BY <1>2, <1>3 DEF Enters, Usable
<1>4. CASE SessionEnds
  <2>1. /\ hist'.hurried <=> hist.hurried
        /\ hist'.lost <=> hist.lost
        /\ hist'.blind = hist.blind
    BY <1>1, <1>4 DEF SessionEnds, Hist
  <2>2. UNCHANGED <<db, page, auth, ui, calls>>
    BY <1>4 DEF SessionEnds
  <2> QED
    BY <2>1, <2>2 DEF UpToDate, FromThisPage, OneAtATime, RightRange, TrueAnswers, ListTrue,
                      AsideTrue, Usable, Still
<1>5. ASSUME NEW c \in calls, Lost(c)
      PROVE  UpToDate'
  <2>1. hist'.lost
    BY <1>1, <1>5 DEF Lost, Hist
  <2> QED
    BY <2>1 DEF UpToDate
<1>6. ASSUME NEW c \in calls, Ignored(c) \/ Checked(c) \/ LoggedOut(c)
      PROVE  UpToDate'
  <2>1. /\ calls' = End(c) /\ UNCHANGED <<db, page, ui, hist>>
        /\ auth'.loading = auth.loading /\ auth'.user \in {auth.user, 0}
    BY <1>1, <1>6 DEF Ignored, Checked, LoggedOut, Auth
  <2>2. ~OfPage(c, DataOps)
    BY <1>6 DEF Ignored, Checked, LoggedOut, Answers, OfPage, DataOps
  <2>3. Usable' => Usable
    BY <2>1 DEF Usable
  <2> QED
    BY <1>2, <2>1, <2>2, <2>3, EndKeeps
<1>7. ASSUME NEW c \in calls, Stays(c)
      PROVE  UpToDate'
  <2> DEFINE d == [c EXCEPT !.ans = "refused"]
  <2>1. /\ calls' = End(c) \cup {d} /\ UNCHANGED <<db, page, ui, hist>> /\ c.ans = "401"
        /\ page = "login" /\ c.phase = "served"
    BY <1>7 DEF Stays, Unauthorized, Expelled
  <2>2. d.op = c.op /\ d.home = c.home /\ d.arg = c.arg /\ d.ans = "refused" /\ d.phase = c.phase
    BY <1>1 DEF Call
  <2> HIDE DEF d
  <2>3. SUFFICES ASSUME ~hist.hurried, ~hist.lost
                 PROVE  UpToDate'
    BY <2>1 DEF UpToDate
  <2>4. ListsGood
    BY <2>3 DEF UpToDate, ListsGood
  <2>5. \A e \in calls' : (e \in calls /\ e # c) \/ e = d
    BY <2>1, EndKeeps
  <2>6. \A ops : OfPage(d, ops) <=> OfPage(c, ops)
    BY <2>2 DEF OfPage
  <2>7. FromThisPage' /\ RightRange'
    BY <2>1, <2>2, <2>4, <2>5, <2>6 DEF ListsGood, FromThisPage, RightRange
  <2>8. OneAtATime'
    BY <2>2, <2>4, <2>5, <2>6 DEF ListsGood, OneAtATime
  <2>9. TrueAnswers'
    BY <2>1, <2>2, <2>4, <2>5, <2>6 DEF ListsGood, TrueAnswers
  <2>10. page' \notin ListPages /\ page' \notin TwoLists
    BY <2>1 DEF ListPages, Lists, TwoLists
  <2> QED
    BY <2>7, <2>8, <2>9, <2>10 DEF UpToDate, ListTrue, AsideTrue
<1>8. \A c : End(c) \in SUBSET calls
  BY DEF End
<1>9. CASE \E N : Loads(calls, N) \/ Moves(N)
  BY <1>9, ListsLoads, ListsMoves
<1>10. CASE \E c \in calls : \E N : \/ TakesIn(c, N) \/ Loads(End(c), N)
                                    \/ Renews(c, N) \/ Returns(c, N)
  BY <1>8, <1>10, ListsTakes, ListsLoads, ListsHeard
<1> QED
  BY <1>3, <1>4, <1>5, <1>6, <1>7, <1>9, <1>10, ListsAsks, ListsServes, StepShapes

(* A list at rest shows every change that was made on its page, and the range *)
(* that is selected; unless the user did not wait, an answer was lost, or the *)
(* list was refused.                                                          *)
THEOREM ListsShowChanges == Spec => []ShowsChanges
<1>1. Init => UpToDate
  <2> SUFFICES ASSUME Init PROVE UpToDate
    OBVIOUS
  <2>1. Base
    BY BaseInit
  <2>2. PICK N : calls = {} \cup N /\ IsDocument(N, {}, page)
    BY <2>1, FS_EmptySet, DocumentAdds DEF Init, Ask, Base, TypeOK
  <2>3. \A c \in calls : c.op \notin DataOps
    BY <2>2 DEF IsDocument, Fresh, DataOps
  <2>4. ~Usable
    BY OutTypes DEF Init, Usable
  <2>5. DataOps \cap {"list", "aside"} = {"list", "aside"} /\ Changes \subseteq DataOps
    BY DEF DataOps, Changes
  <2> QED
    BY <2>3, <2>4, <2>5
    DEF UpToDate, FromThisPage, OneAtATime, RightRange, TrueAnswers, ListTrue, AsideTrue, OfPage
<1>2. Base /\ UpToDate /\ [Next]_vars => UpToDate'
  <2>1. CASE UNCHANGED vars
    BY <2>1 DEF vars, UpToDate, FromThisPage, OneAtATime, RightRange, TrueAnswers, ListTrue,
                AsideTrue, Usable, Still
  <2> QED
    BY <2>1, ListsStep
<1>3. UpToDate => ShowsChanges
  <2>1. TwoLists \subseteq ListPages
    BY DEF TwoLists, ListPages, Lists
  <2> QED
    BY <2>1 DEF UpToDate, ListTrue, AsideTrue, ShowsChanges, Quiet, Still
<1> QED
  BY <1>1, <1>2, <1>3, ConsoleTypes, PTL DEF Spec

=============================================================================
