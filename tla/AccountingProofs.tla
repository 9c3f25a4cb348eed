-------------------------- MODULE AccountingProofs --------------------------
(***************************************************************************)
(* Proofs about the two places where the backend keeps account of what     *)
(* requests cost.  Budget, for any budgets, users, organizations and       *)
(* requests and any number of administrative operations; BatchUpdater, for *)
(* any writers, ids, values and number of types, with failing updates and  *)
(* crashes.                                                                *)
(***************************************************************************)
EXTENDS Budget, BatchUpdater, FiniteSetTheorems, WellFoundedInduction, TLAPS

-----------------------------------------------------------------------------
(***************************************************************************)
(* Sums over finite sets.  SumFunctionOnSet is defined by recursion over   *)
(* the subsets of a set; these lemmas say that the recursion has a value,  *)
(* that the order of the elements does not matter, and how the sum moves   *)
(* when a value or the set changes.  Each is proved from a smallest set    *)
(* for which it fails.                                                     *)
(***************************************************************************)
Pick(s) == CHOOSE x \in s : TRUE

\* g[s] is the sum of f over s, for every subset s of S.
Totals(g, f, S) ==
    g = [s \in SUBSET S |-> IF s = {} THEN 0 ELSE f[Pick(s)] + g[s \ {Pick(s)}]]

(* Among subsets of a finite set there is one that contains no other. *)
LEMMA Smallest ==
    ASSUME NEW S, IsFiniteSet(S), NEW Bad, Bad \subseteq SUBSET S, Bad # {}
    PROVE  \E s \in Bad : \A t \in Bad : t \subseteq s => t = s
<1>1. IsWellFoundedOn(StrictSubsetOrdering(S), SUBSET S)
  BY FS_StrictSubsetOrderingWellFounded, FS_FiniteSubsetsOfFinite
<1>2. PICK s \in Bad : \A t \in Bad : <<t, s>> \notin StrictSubsetOrdering(S)
  BY <1>1, WFMin
<1> QED
  BY <1>2 DEF StrictSubsetOrdering

(* Two such functions agree where both are defined. *)
LEMMA TotalsAgree ==
    ASSUME NEW S, IsFiniteSet(S), NEW f, NEW U \in SUBSET S, NEW V \in SUBSET S,
           NEW g, NEW h, Totals(g, f, U), Totals(h, f, V)
    PROVE  \A s \in SUBSET (U \cap V) : g[s] = h[s]
<1> DEFINE Bad == {s \in SUBSET (U \cap V) : g[s] # h[s]}
<1> SUFFICES ASSUME Bad # {} PROVE FALSE
  OBVIOUS
<1>1. PICK s \in Bad : \A t \in Bad : t \subseteq s => t = s
  <2>1. Bad \subseteq SUBSET S
    OBVIOUS
  <2> HIDE DEF Bad
  <2> QED
    BY <2>1, Smallest
<1>2. s # {}
  BY DEF Totals
<1> DEFINE t == s \ {Pick(s)}
<1>3. Pick(s) \in s
  BY <1>2 DEF Pick
<1>4. g[t] = h[t]
  BY <1>1, <1>3
<1>5. g[s] = f[Pick(s)] + g[t] /\ h[s] = f[Pick(s)] + h[t]
  BY <1>2 DEF Totals
<1> QED
  BY <1>4, <1>5

(* There is such a function for every finite set. *)
LEMMA TotalsExist ==
    ASSUME NEW S, IsFiniteSet(S), NEW f
    PROVE  \E g : Totals(g, f, S)
<1> DEFINE Bad == {s \in SUBSET S : ~ \E g : Totals(g, f, s)}
<1> SUFFICES ASSUME Bad # {} PROVE FALSE
  OBVIOUS
<1>1. PICK U \in Bad : \A t \in Bad : t \subseteq U => t = U
  <2>1. Bad \subseteq SUBSET S
    OBVIOUS
  <2> HIDE DEF Bad
  <2> QED
    BY <2>1, Smallest
<1> DEFINE G(s) == CHOOSE g : Totals(g, f, s)
           Rest(s) == s \ {Pick(s)}
           h == [s \in SUBSET U |-> IF s = {} THEN 0 ELSE f[Pick(s)] + G(Rest(s))[Rest(s)]]
<1>2. ASSUME NEW s \in SUBSET U, s # U PROVE Totals(G(s), f, s)
  <2>1. \E g : Totals(g, f, s)
    BY <1>1, <1>2
  <2> QED
    BY <2>1
<1> HIDE DEF G
<1>3. ASSUME NEW s \in SUBSET U, s # U PROVE h[s] = G(s)[s]
  <2>1. Totals(G(s), f, s)
    BY <1>2, <1>3
  <2>2. CASE s = {}
    BY <2>1, <2>2 DEF Totals
  <2>3. CASE s # {}
    <3>1. Pick(s) \in s
      BY <2>3 DEF Pick
    <3>2. Rest(s) \in SUBSET U /\ Rest(s) # U /\ Rest(s) \in SUBSET s
      BY <1>3, <3>1
    <3>3. Totals(G(Rest(s)), f, Rest(s))
      BY <1>2, <3>2
    <3>4. G(s)[Rest(s)] = G(Rest(s))[Rest(s)]
      <4>1. /\ s \in SUBSET S /\ Rest(s) \in SUBSET S
            /\ Rest(s) \in SUBSET (s \cap Rest(s))
        BY <1>1, <3>2
      <4>2. \A R \in SUBSET S : Totals(G(R), f, R) =>
                \A t \in SUBSET (s \cap R) : G(s)[t] = G(R)[t]
        BY <2>1, <4>1, TotalsAgree
      <4> HIDE DEF Rest
      <4> QED
        BY <3>3, <4>1, <4>2
    <3>5. G(s)[s] = f[Pick(s)] + G(s)[Rest(s)]
      BY <2>1, <2>3 DEF Totals
    <3>6. h[s] = f[Pick(s)] + G(Rest(s))[Rest(s)]
      BY <2>3
    <3> QED
      BY <3>4, <3>5, <3>6
  <2> QED
    BY <2>2, <2>3
<1>4. ASSUME NEW s \in SUBSET U, s # {} PROVE h[s] = f[Pick(s)] + h[Rest(s)]
  <2>1. Rest(s) \in SUBSET U /\ Rest(s) # U
    BY <1>4 DEF Pick
  <2>2. h[Rest(s)] = G(Rest(s))[Rest(s)]
    BY <1>3, <2>1
  <2>3. h[s] = f[Pick(s)] + G(Rest(s))[Rest(s)]
    BY <1>4
  <2> QED
    BY <2>2, <2>3
<1>5. h[{}] = 0
  OBVIOUS
<1>6. Totals(h, f, U)
  <2>1. h = [s \in SUBSET U |-> h[s]]
    OBVIOUS
  <2>2. \A s \in SUBSET U : h[s] = IF s = {} THEN 0 ELSE f[Pick(s)] + h[s \ {Pick(s)}]
    BY <1>4, <1>5
  <2> HIDE DEF h
  <2> QED
    BY <2>1, <2>2 DEF Totals
<1> QED
  BY <1>1, <1>6

(* One function gives the sums over all subsets of a finite set. *)
LEMMA SumIsTotal ==
    ASSUME NEW S, IsFiniteSet(S), NEW f, NEW g, Totals(g, f, S), NEW T \in SUBSET S
    PROVE  SumFunctionOnSet(f, T) = g[T]
<1>1. IsFiniteSet(T)
  BY FS_Subset
<1> DEFINE h == CHOOSE k : Totals(k, f, T)
<1>2. Totals(h, f, T)
  BY <1>1, TotalsExist
<1>3. SumFunctionOnSet(f, T) = h[T]
  BY DEF SumFunctionOnSet, FoldFunctionOnSet, MapThenFoldSet, Totals, Pick
<1> HIDE DEF h
<1>4. h[T] = g[T]
  BY <1>2, TotalsAgree
<1> QED
  BY <1>3, <1>4

(* The sum of nothing is 0. *)
LEMMA SumEmpty ==
    ASSUME NEW f
    PROVE  SumFunctionOnSet(f, {}) = 0
<1>1. IsFiniteSet({})
  BY FS_EmptySet
<1>2. PICK g : Totals(g, f, {})
  BY <1>1, TotalsExist
<1>3. g[{}] = 0
  BY <1>2 DEF Totals
<1> QED
  BY <1>1, <1>2, <1>3, SumIsTotal

(* What the recursion says of the element it picks. *)
LEMMA SumPick ==
    ASSUME NEW S, IsFiniteSet(S), S # {}, NEW f
    PROVE  SumFunctionOnSet(f, S) = f[Pick(S)] + SumFunctionOnSet(f, S \ {Pick(S)})
<1>1. PICK g : Totals(g, f, S)
  BY TotalsExist
<1>2. g[S] = f[Pick(S)] + g[S \ {Pick(S)}]
  BY <1>1 DEF Totals
<1> QED
  BY <1>1, <1>2, SumIsTotal

(* Sums of integers are integers. *)
LEMMA SumType ==
    ASSUME NEW S, IsFiniteSet(S), NEW f, \A x \in S : f[x] \in Int
    PROVE  SumFunctionOnSet(f, S) \in Int
<1> DEFINE Bad == {s \in SUBSET S : SumFunctionOnSet(f, s) \notin Int}
<1> SUFFICES ASSUME Bad # {} PROVE FALSE
  OBVIOUS
<1>1. PICK s \in Bad : \A t \in Bad : t \subseteq s => t = s
  <2>1. Bad \subseteq SUBSET S
    OBVIOUS
  <2> HIDE DEF Bad
  <2> QED
    BY <2>1, Smallest
<1>2. s # {} /\ IsFiniteSet(s)
  <2>1. IsFiniteSet(s)
    BY FS_Subset
  <2>2. SumFunctionOnSet(f, {}) = 0
    BY SumEmpty
  <2> QED
    BY <2>1, <2>2
<1>3. Pick(s) \in s
  BY <1>2 DEF Pick
<1>4. SumFunctionOnSet(f, s \ {Pick(s)}) \in Int
  BY <1>1, <1>3
<1>5. SumFunctionOnSet(f, s) = f[Pick(s)] + SumFunctionOnSet(f, s \ {Pick(s)})
  BY <1>2, SumPick
<1>6. f[Pick(s)] \in Int
  BY <1>3
<1> QED
  BY <1>4, <1>5, <1>6

(* Taking out one element takes out its value, whichever the element. *)
LEMMA SumRemove ==
    ASSUME NEW S, IsFiniteSet(S), NEW f, \A x \in S : f[x] \in Int, NEW a \in S
    PROVE  SumFunctionOnSet(f, S) = f[a] + SumFunctionOnSet(f, S \ {a})
<1> DEFINE Bad == {s \in SUBSET S :
                     \E x \in s : SumFunctionOnSet(f, s) # f[x] + SumFunctionOnSet(f, s \ {x})}
<1> SUFFICES ASSUME Bad # {} PROVE FALSE
  OBVIOUS
<1>1. PICK s \in Bad : \A t \in Bad : t \subseteq s => t = s
  <2>1. Bad \subseteq SUBSET S
    OBVIOUS
  <2> HIDE DEF Bad
  <2> QED
    BY <2>1, Smallest
<1>2. PICK x \in s : SumFunctionOnSet(f, s) # f[x] + SumFunctionOnSet(f, s \ {x})
  OBVIOUS
<1> DEFINE c == Pick(s)
           r == s \ {x}
           q == s \ {c}
           p == s \ {c, x}
<1>3. c \in s /\ IsFiniteSet(s) /\ IsFiniteSet(p)
  BY FS_Subset DEF Pick
<1>4. SumFunctionOnSet(f, s) = f[c] + SumFunctionOnSet(f, q)
  BY <1>3, SumPick
<1>5. c # x
  BY <1>2, <1>4
<1> HIDE DEF c
<1>6. SumFunctionOnSet(f, q) = f[x] + SumFunctionOnSet(f, p)
  <2>1. q \notin Bad /\ x \in q /\ q \ {x} = p /\ q \in SUBSET S
    BY <1>1, <1>3, <1>5
  <2> QED
    BY <2>1
<1>7. SumFunctionOnSet(f, r) = f[c] + SumFunctionOnSet(f, p)
  <2>1. r \notin Bad /\ c \in r /\ r \ {c} = p /\ r \in SUBSET S
    BY <1>1, <1>3, <1>5
  <2> QED
    BY <2>1
<1>8. SumFunctionOnSet(f, p) \in Int /\ f[c] \in Int /\ f[x] \in Int
  BY <1>3, SumType
<1> QED
  BY <1>2, <1>4, <1>6, <1>7, <1>8

(* Functions that are equal on a set have the same sum over it. *)
LEMMA SumSame ==
    ASSUME NEW S, IsFiniteSet(S), NEW f, NEW g, \A x \in S : f[x] = g[x]
    PROVE  SumFunctionOnSet(f, S) = SumFunctionOnSet(g, S)
<1> DEFINE Bad == {s \in SUBSET S : SumFunctionOnSet(f, s) # SumFunctionOnSet(g, s)}
<1> SUFFICES ASSUME Bad # {} PROVE FALSE
  OBVIOUS
<1>1. PICK s \in Bad : \A t \in Bad : t \subseteq s => t = s
  <2>1. Bad \subseteq SUBSET S
    OBVIOUS
  <2> HIDE DEF Bad
  <2> QED
    BY <2>1, Smallest
<1>2. s # {} /\ IsFiniteSet(s)
  BY SumEmpty, FS_Subset
<1>3. Pick(s) \in s
  BY <1>2 DEF Pick
<1>4. SumFunctionOnSet(f, s \ {Pick(s)}) = SumFunctionOnSet(g, s \ {Pick(s)})
  BY <1>1, <1>3
<1> QED
  BY <1>2, <1>3, <1>4, SumPick

(* A set with one more element has its value more. *)
LEMMA SumAdd ==
    ASSUME NEW S, IsFiniteSet(S), NEW f, NEW a, a \notin S,
           f[a] \in Int, \A x \in S : f[x] \in Int
    PROVE  SumFunctionOnSet(f, S \cup {a}) = SumFunctionOnSet(f, S) + f[a]
<1>1. IsFiniteSet(S \cup {a}) /\ (S \cup {a}) \ {a} = S
  BY FS_AddElement
<1>2. SumFunctionOnSet(f, S \cup {a}) = f[a] + SumFunctionOnSet(f, S)
  BY <1>1, SumRemove
<1> QED
  BY <1>2, SumType

-----------------------------------------------------------------------------
(* The dates of the next reset are times. *)
LEMMA ResetDates ==
    ASSUME NEW b \in Budgets, NEW t \in Nat
    PROVE  NextResetFrom(b, t) \in Nat /\ FirstResetAt(b, t) \in Nat
BY BudgetAssumption DEF NextResetFrom, FirstResetAt

(* Every column and every local of a handler keeps its type; in particular *)
(* the usage of a budget is never negative.                                *)
THEOREM TypeCorrect == Spec => []TypeOK
<1> USE DEF TypeOK, PCs
<1>1. Init => TypeOK
  <2> SUFFICES ASSUME Init PROVE TypeOK
    OBVIOUS
  <2>1. resetAt \in [Budgets -> Nat]
    BY ResetDates DEF Init
  <2> QED
    BY <2>1, BudgetAssumption DEF Init
<1>2. TypeOK /\ [Next]_vars => TypeOK'
  <2> SUFFICES ASSUME TypeOK, [Next]_vars PROVE TypeOK'
    OBVIOUS
  <2> USE DEF table, request, history, Goto
  <2>1. ASSUME NEW r \in Requests, CheckUserBudgets(r) \/ CheckOrgBudgets(r)
        PROVE  TypeOK'
    <3>1. CASE CheckUserBudgets(r)
      <4>1. User(r) \in Users
        BY BudgetAssumption DEF User
      <4>2. /\ orgRead' \in [Requests -> Orgs \cup {NoOrg}]
            /\ checkedOrg' \in [Requests -> Orgs \cup {NoOrg}]
        BY <3>1, <4>1 DEF CheckUserBudgets
      <4>3. pc' \in [Requests -> PCs]
        BY <3>1 DEF CheckUserBudgets
      <4>4. shut' \in [Requests -> SUBSET Budgets]
        BY <3>1 DEF CheckUserBudgets
      <4> QED
        BY <3>1, <4>2, <4>3, <4>4 DEF CheckUserBudgets
    <3>2. CASE CheckOrgBudgets(r)
      BY <3>2 DEF CheckOrgBudgets
    <3> QED
      BY <2>1, <3>1, <3>2
  <2>2. ASSUME NEW r \in Requests, ProviderFails(r) \/ RecordCost(r)
        PROVE  TypeOK'
    <3>1. CASE ProviderFails(r)
      BY <3>1 DEF ProviderFails
    <3>2. CASE RecordCost(r)
      <4>1. User(r) \in Users
        BY BudgetAssumption DEF User
      <4>2. orgRead' \in [Requests -> Orgs \cup {NoOrg}]
        BY <3>2, <4>1 DEF RecordCost
      <4>3. PICK c \in Costs : cost' = [cost EXCEPT ![r] = c]
        BY <3>2 DEF RecordCost
      <4>4. cost' \in [Requests -> Nat]
        BY <4>3, BudgetAssumption
      <4>5. pc' \in [Requests -> PCs]
        BY <3>2 DEF RecordCost
      <4> QED
        BY <3>2, <4>2, <4>4, <4>5 DEF RecordCost
    <3> QED
      BY <2>2, <3>1, <3>2
  <2>3. ASSUME NEW r \in Requests,
               FindUserBudgets(r) \/ FindOrgBudgets(r) \/ NoOrganization(r)
        PROVE  TypeOK'
    <3>1. ASSUME NEW budgets \in SUBSET Budgets, NEW l \in PCs, Find(r, budgets, l)
          PROVE  TypeOK'
      <4>1. budgets \cap enabled \in SUBSET Budgets
        OBVIOUS
      <4>2. todo' \in [Requests -> SUBSET Budgets]
        BY <3>1, <4>1 DEF Find
      <4>3. snap' \in [Requests -> [Budgets -> Nat]]
        BY <3>1 DEF Find
      <4>4. pc' \in [Requests -> PCs]
        BY <3>1 DEF Find
      <4> QED
        BY <3>1, <4>2, <4>3, <4>4 DEF Find
    <3>2. CASE FindUserBudgets(r)
      <4>1. OfUser(User(r)) \in SUBSET Budgets
        BY DEF OfUser
      <4> QED
        BY <3>1, <3>2, <4>1 DEF FindUserBudgets
    <3>3. CASE FindOrgBudgets(r)
      <4>1. OfOrg(orgRead[r]) \in SUBSET Budgets
        BY DEF OfOrg
      <4> QED
        BY <3>1, <3>3, <4>1 DEF FindOrgBudgets
    <3>4. CASE NoOrganization(r)
      BY <3>4 DEF NoOrganization
    <3> QED
      BY <2>3, <3>2, <3>3, <3>4
  <2>4. ASSUME NEW r \in Requests, NEW b \in Budgets, BookBudget(r, b)
        PROVE  TypeOK'
    <3>1. used' \in [Budgets -> Nat]
      <4>1. used[b] + cost[r] \in Nat
        OBVIOUS
      <4>2. CASE b \in exists
        BY <2>4, <4>1, <4>2 DEF BookBudget, AddUsage
      <4>3. CASE b \notin exists
        BY <2>4, <4>3 DEF BookBudget, AddUsage
      <4> QED
        BY <4>2, <4>3
    <3>2. /\ pc' \in [Requests -> PCs]
          /\ stopping' \in [Requests -> Budgets \cup {NoBudget}]
      <4>1. StopPC(pc[r]) \in PCs
        BY DEF StopPC
      <4>2. pc' \in [Requests -> PCs]
        BY <2>4, <4>1 DEF BookBudget
      <4>3. stopping' \in [Requests -> Budgets \cup {NoBudget}]
        BY <2>4 DEF BookBudget
      <4> QED
        BY <4>2, <4>3
    <3>3. /\ todo' \in [Requests -> SUBSET Budgets]
          /\ credited' \in [Requests -> SUBSET Budgets]
      <4>1. todo' \in [Requests -> SUBSET Budgets]
        BY <2>4 DEF BookBudget
      <4>2. [credited EXCEPT ![r] = @ \cup {b}] \in [Requests -> SUBSET Budgets]
        OBVIOUS
      <4>3. credited' \in [Requests -> SUBSET Budgets]
        BY <2>4, <4>2 DEF BookBudget
      <4> QED
        BY <4>1, <4>3
    <3>4. overlapped' \subseteq Budgets
      BY <2>4 DEF BookBudget
    <3> QED
      BY <2>4, <3>1, <3>2, <3>3, <3>4 DEF BookBudget
  <2>5. ASSUME NEW r \in Requests, StopBudget(r) \/ ScopeBooked(r)
        PROVE  TypeOK'
    <3>1. CASE StopBudget(r)
      <4>1. BookPC(pc[r]) \in PCs
        BY DEF BookPC
      <4>2. pc' \in [Requests -> PCs]
        BY <3>1, <4>1 DEF StopBudget
      <4>3. stopping' \in [Requests -> Budgets \cup {NoBudget}]
        BY <3>1 DEF StopBudget
      <4> QED
        BY <3>1, <4>2, <4>3 DEF StopBudget
    <3>2. CASE ScopeBooked(r)
      BY <3>2 DEF ScopeBooked
    <3> QED
      BY <2>5, <3>1, <3>2
  <2>6. ASSUME NEW b \in Budgets, Reset(b)
        PROVE  /\ used' \in [Budgets -> Nat]
               /\ resetAt' \in [Budgets -> Nat]
               /\ enabled' \subseteq Budgets
               /\ credited' \in [Requests -> SUBSET Budgets]
               /\ shut' \in [Requests -> SUBSET Budgets]
               /\ overlapped' \subseteq Budgets
    <3>1. NextResetFrom(b, now) \in Nat
      BY ResetDates
    <3>2. CASE b \in exists
      <4>1. /\ used' = [used EXCEPT ![b] = 0]
            /\ resetAt' = [resetAt EXCEPT ![b] = NextResetFrom(b, now)]
        BY <2>6, <3>2 DEF Reset
      <4>2. used' \in [Budgets -> Nat] /\ resetAt' \in [Budgets -> Nat]
        BY <3>1, <4>1
      <4> QED
        BY <2>6, <3>2, <4>2 DEF Reset
    <3>3. CASE b \notin exists
      BY <2>6, <3>3 DEF Reset
    <3> QED
      BY <3>2, <3>3
  <2>7. CASE Maintenance
    <3>1. CASE Tick \/ FindDueBudgets \/ TickDone
      BY <3>1 DEF Tick, FindDueBudgets, TickDone, DisableExpiredBudgets
    <3>2. ASSUME NEW b \in Budgets, ResetDueBudget(b) PROVE TypeOK'
      BY <3>2, <2>6 DEF ResetDueBudget
    <3> QED
      BY <2>7, <3>1, <3>2 DEF Maintenance
  <2>8. CASE Administration
    <3> USE DEF AdminOp
    <3>0. AdminOp => adminOps' \in 0..MaxAdminOps
      BY BudgetAssumption
    <3>1. ASSUME NEW b \in Budgets, AddBudget(b) PROVE TypeOK'
      <4>1. FirstResetAt(b, now) \in Nat
        BY ResetDates
      <4> QED
        BY <3>0, <3>1, <4>1 DEF AddBudget
    <3>2. ASSUME NEW b \in Budgets, DeleteBudget(b) PROVE TypeOK'
      BY <3>0, <3>2 DEF DeleteBudget
    <3>3. ASSUME NEW b \in Budgets, ResetBudget(b) PROVE TypeOK'
      BY <3>0, <3>3, <2>6 DEF ResetBudget
    <3>4. CASE GetAllBudgets
      BY <3>0, <3>4 DEF GetAllBudgets, DisableExpiredBudgets
    <3>5. ASSUME NEW u \in Users, NEW o \in Orgs \cup {NoOrg}, AssignUserToOrg(u, o)
          PROVE  TypeOK'
      BY <3>0, <3>5 DEF AssignUserToOrg
    <3> QED
      BY <2>8, <3>1, <3>2, <3>3, <3>4, <3>5 DEF Administration
  <2>9. CASE Advance \/ UNCHANGED vars
    BY <2>9 DEF Advance, vars
  <2> QED
    BY <2>1, <2>2, <2>3, <2>4, <2>5, <2>7, <2>8, <2>9 DEF Next, RequestStep
<1> QED
  BY <1>1, <1>2, PTL DEF Spec

(***************************************************************************)
(* The hard lock.                                                          *)
(***************************************************************************)

(* A budget recorded as exhausted at the check of a request is exhausted   *)
(* until it is reset or deleted, because nothing else lowers its usage, and *)
(* a request between its two checks still holds the organization it read   *)
(* and was not locked out by a budget of its user.                         *)
LockInv ==
    /\ TypeOK
    /\ \A r \in Requests :
          /\ shut[r] \subseteq created
          /\ \A b \in shut[r] \cap exists : Exhausted(b)
          /\ pc[r] = "idle" => shut[r] = {}
          /\ pc[r] = "checkOrg" =>
                /\ orgRead[r] = checkedOrg[r]
                /\ \A b \in shut[r] \cap exists : b \notin OfUser(User(r))
    /\ ExhaustedLocksOut

(* What holds of the usages when no budget is booked, reset or created.    *)
LEMMA SameUsage ==
    ASSUME UNCHANGED used, NEW b
    PROVE  Exhausted(b)' <=> Exhausted(b)
BY DEF Exhausted, Limited, Blocking

(* A reset takes the budget out of every record of exhausted budgets, and  *)
(* leaves the others as they were.                                         *)
LEMMA ResetKeepsLock ==
    ASSUME LockInv, TypeOK', NEW c \in Budgets, Reset(c),
           UNCHANGED <<exists, created, pc, orgRead, checkedOrg>>
    PROVE  LockInv'
<1> USE DEF LockInv
<1>1. ASSUME NEW r \in Requests, NEW b \in shut'[r] \cap exists PROVE Exhausted(b)'
  <2>1. CASE c \in exists
    <3>1. shut'[r] = shut[r] \ {c}
      BY <2>1 DEF Reset
    <3>2. b # c /\ b \in shut[r] /\ b \in Budgets
      BY <1>1, <3>1 DEF TypeOK
    <3>3. used'[b] = used[b]
      BY <2>1, <3>2 DEF Reset, TypeOK
    <3> QED
      BY <1>1, <3>2, <3>3 DEF Exhausted, Limited, Blocking
  <2>2. CASE c \notin exists
    BY <1>1, <2>2, SameUsage DEF Reset
  <2> QED
    BY <2>1, <2>2
<1>2. \A r \in Requests : shut'[r] \subseteq shut[r]
  BY DEF Reset
<1>3. ExhaustedLocksOut'
  BY <1>2 DEF ExhaustedLocksOut, Covers, User
<1> QED
  BY <1>1, <1>2, <1>3 DEF OfUser, User

(* LockInv is inductive. *)
THEOREM LockInvHolds == Spec => []LockInv
<1>1. Init => LockInv
  <2> SUFFICES ASSUME Init PROVE LockInv
    OBVIOUS
  <2>1. TypeOK
    <3>1. resetAt \in [Budgets -> Nat]
      BY ResetDates DEF Init
    <3> QED
      BY <3>1, BudgetAssumption DEF Init, TypeOK, PCs
  <2> QED
    BY <2>1 DEF Init, LockInv, ExhaustedLocksOut
<1>2. LockInv /\ TypeOK' /\ [Next]_vars => LockInv'
  <2> SUFFICES ASSUME LockInv, TypeOK', [Next]_vars PROVE LockInv'
    OBVIOUS
  <2> USE DEF table, request, history, Goto
  \* Steps that change neither the table nor the records of the requests
  \* other than r, and do not admit r.
  <2>1. ASSUME NEW r \in Requests,
               UNCHANGED <<exists, created, used, shut, checkedOrg>>,
               \A q \in Requests \ {r} : UNCHANGED <<pc[q], orgRead[q]>>,
               pc[r] \notin {"idle", "checkOrg", "rejected"},
               pc'[r] \notin {"idle", "checkOrg"}
        PROVE  LockInv'
    <3>1. \A b : Exhausted(b)' <=> Exhausted(b)
      BY <2>1, SameUsage
    <3>2. ExhaustedLocksOut'
      BY <2>1 DEF LockInv, ExhaustedLocksOut, Covers, User
    <3> QED
      BY <2>1, <3>1, <3>2 DEF LockInv, OfUser, User
  <2>2. ASSUME NEW r \in Requests, CheckUserBudgets(r)
        PROVE  LockInv'
    <3>1. \A b : Exhausted(b)' <=> Exhausted(b)
      BY <2>2, SameUsage DEF CheckUserBudgets
    <3>2. /\ shut'[r] = {b \in exists : Exhausted(b)}
          /\ \A q \in Requests \ {r} : UNCHANGED <<pc[q], orgRead[q], shut[q], checkedOrg[q]>>
          /\ orgRead'[r] = org[User(r)] /\ checkedOrg'[r] = org[User(r)]
          /\ UNCHANGED <<exists, created>>
      BY <2>2 DEF CheckUserBudgets, LockInv, TypeOK
    <3>3. ASSUME NEW b \in exists, b \in shut'[r], Covers(b, r)'
          PROVE  pc'[r] \in {"checkOrg", "rejected"}
      <4>1. CASE Scope[b] = "user" /\ Ref[b] = User(r)
        <5>1. AnyExhausted(OfUser(User(r)))
          BY <3>2, <3>3, <4>1 DEF AnyExhausted, OfUser
        <5> QED
          BY <2>2, <5>1 DEF CheckUserBudgets, LockInv, TypeOK
      <4>2. CASE Scope[b] = "organization" /\ Ref[b] = org[User(r)]
        <5>1. b \in Budgets
          BY DEF LockInv, TypeOK
        <5>2. org[User(r)] # NoOrg
          BY <4>2, <5>1, BudgetAssumption
        <5> QED
          BY <2>2, <5>2 DEF CheckUserBudgets, LockInv, TypeOK
      <4> QED
        BY <3>2, <3>3, <4>1, <4>2 DEF Covers, User
    <3>4. ExhaustedLocksOut'
      BY <3>2, <3>3 DEF LockInv, ExhaustedLocksOut, Covers, User
    <3>5. pc'[r] # "idle"
      BY <2>2 DEF CheckUserBudgets, LockInv, TypeOK
    <3>6. pc'[r] = "checkOrg" => \A b \in shut'[r] : b \notin OfUser(User(r))
      BY <2>2, <3>2 DEF CheckUserBudgets, AnyExhausted, LockInv, TypeOK
    <3> QED
      BY <3>1, <3>2, <3>4, <3>5, <3>6 DEF LockInv, TypeOK, OfUser, User
  <2>3. ASSUME NEW r \in Requests, CheckOrgBudgets(r)
        PROVE  LockInv'
    <3>1. \A b : Exhausted(b)' <=> Exhausted(b)
      BY <2>3, SameUsage DEF CheckOrgBudgets
    <3>2. /\ UNCHANGED <<exists, created, shut, checkedOrg, orgRead>>
          /\ \A q \in Requests \ {r} : UNCHANGED pc[q]
      BY <2>3 DEF CheckOrgBudgets, LockInv, TypeOK
    <3>3. pc'[r] \in {"rejected", "admitted"}
      BY <2>3 DEF CheckOrgBudgets, LockInv, TypeOK
    <3>4. ASSUME NEW b \in exists, b \in shut[r], Covers(b, r)
          PROVE  pc'[r] = "rejected"
      <4>1. Exhausted(b) /\ orgRead[r] = checkedOrg[r]
        BY <2>3, <3>4 DEF LockInv, CheckOrgBudgets
      <4>2. CASE Scope[b] = "organization" /\ Ref[b] = checkedOrg[r]
        <5>1. AnyExhausted(OfOrg(orgRead[r]))
          BY <4>1, <4>2 DEF AnyExhausted, OfOrg
        <5> QED
          BY <2>3, <5>1 DEF CheckOrgBudgets, LockInv, TypeOK
      <4>3. CASE Scope[b] = "user" /\ Ref[b] = User(r)
        BY <2>3, <3>4, <4>3 DEF LockInv, CheckOrgBudgets, OfUser
      <4> QED
        BY <3>4, <4>2, <4>3 DEF Covers
    <3>5. ExhaustedLocksOut'
      BY <3>2, <3>3, <3>4 DEF LockInv, ExhaustedLocksOut, Covers, User
    <3> QED
      BY <3>1, <3>2, <3>3, <3>5 DEF LockInv, TypeOK, OfUser, User
  <2>4. ASSUME NEW r \in Requests, ProviderFails(r) \/ RecordCost(r)
        PROVE  LockInv'
    <3>1. /\ UNCHANGED <<exists, created, used, shut, checkedOrg>>
          /\ \A q \in Requests \ {r} : UNCHANGED <<pc[q], orgRead[q]>>
          /\ pc[r] = "admitted"
          /\ pc'[r] \in {"done", "findUser"}
      BY <2>4 DEF ProviderFails, RecordCost, LockInv, TypeOK
    <3> QED
      BY <2>1, <3>1
  <2>5. ASSUME NEW r \in Requests,
               \/ FindUserBudgets(r) \/ FindOrgBudgets(r) \/ NoOrganization(r)
               \/ StopBudget(r) \/ ScopeBooked(r)
        PROVE  LockInv'
    <3>1. /\ UNCHANGED <<exists, created, used, shut, checkedOrg>>
          /\ \A q \in Requests \ {r} : UNCHANGED <<pc[q], orgRead[q]>>
          /\ pc[r] \in Booking
      BY <2>5 DEF FindUserBudgets, FindOrgBudgets, NoOrganization, Find, StopBudget,
                  ScopeBooked, Booking, LockInv, TypeOK
    <3>2. pc'[r] \in {"bookUser", "bookOrg", "findOrg", "done"}
      BY <2>5 DEF FindUserBudgets, FindOrgBudgets, NoOrganization, Find, StopBudget,
                  ScopeBooked, BookPC, LockInv, TypeOK
    <3> QED
      BY <2>1, <3>1, <3>2 DEF Booking
  <2>6. ASSUME NEW r \in Requests, NEW c \in Budgets, BookBudget(r, c)
        PROVE  LockInv'
    <3>1. /\ UNCHANGED <<exists, created, shut, checkedOrg, orgRead>>
          /\ \A q \in Requests \ {r} : UNCHANGED pc[q]
          /\ pc[r] \in {"bookUser", "bookOrg"}
      BY <2>6 DEF BookBudget, LockInv, TypeOK
    <3>2. pc'[r] \in {"bookUser", "bookOrg", "stopUser", "stopOrg"}
      BY <2>6 DEF BookBudget, StopPC, LockInv, TypeOK
    <3>3. ASSUME NEW b \in exists, Exhausted(b) PROVE Exhausted(b)'
      <4>1. b \in Budgets /\ cost[r] \in Nat /\ used[b] \in Nat
        BY DEF LockInv, TypeOK
      <4>2. CASE used' = used
        BY <3>3, <4>2, SameUsage
      <4>3. CASE used' = [used EXCEPT ![c] = @ + cost[r]]
        <5>1. used'[b] \in Nat /\ used'[b] >= used[b]
          <6>1. b = c => used'[b] = used[b] + cost[r]
            BY <4>1, <4>3 DEF LockInv, TypeOK
          <6>2. b # c => used'[b] = used[b]
            BY <4>1, <4>3 DEF LockInv, TypeOK
          <6> QED
            BY <4>1, <6>1, <6>2
        <5>2. Amount[b] \in Nat
          BY <4>1, BudgetAssumption
        <5> QED
          BY <3>3, <4>1, <5>1, <5>2 DEF Exhausted, Limited, Blocking
      <4> QED
        BY <2>6, <4>2, <4>3 DEF BookBudget, AddUsage
    <3>4. ExhaustedLocksOut'
      BY <3>1, <3>2 DEF LockInv, ExhaustedLocksOut, Covers, User
    <3> QED
      BY <3>1, <3>2, <3>3, <3>4 DEF LockInv, OfUser, User
  <2>7. CASE Maintenance
    <3>1. CASE Tick \/ FindDueBudgets \/ TickDone
      <4>1. UNCHANGED <<exists, created, used, shut, checkedOrg, pc, orgRead>>
        BY <3>1 DEF Tick, FindDueBudgets, TickDone
      <4>2. \A b : Exhausted(b)' <=> Exhausted(b)
        BY <4>1, SameUsage
      <4> QED
        BY <4>1, <4>2 DEF LockInv, ExhaustedLocksOut, Covers, OfUser, User
    <3>2. ASSUME NEW b \in Budgets, ResetDueBudget(b) PROVE LockInv'
      BY <3>2, ResetKeepsLock DEF ResetDueBudget
    <3> QED
      BY <2>7, <3>1, <3>2 DEF Maintenance
  <2>8. CASE Administration
    <3>1. ASSUME NEW c \in Budgets, AddBudget(c) PROVE LockInv'
      <4>1. /\ UNCHANGED <<shut, checkedOrg, pc, orgRead>>
            /\ c \notin created
            /\ exists' = exists \cup {c} /\ created' = created \cup {c}
            /\ \A b \in exists : used'[b] = used[b]
        BY <3>1 DEF AddBudget, LockInv, TypeOK
      <4>2. \A r \in Requests : shut[r] \cap exists' = shut[r] \cap exists
        BY <4>1 DEF LockInv
      <4>3. \A b \in exists : Exhausted(b)' <=> Exhausted(b)
        BY <4>1 DEF Exhausted, Limited, Blocking
      <4>4. ExhaustedLocksOut'
        BY <4>1, <4>2 DEF LockInv, ExhaustedLocksOut, Covers, User
      <4>5. \A r \in Requests, b \in exists : b \in OfUser(User(r))' <=> b \in OfUser(User(r))
        BY <4>1 DEF OfUser, User
      <4> QED
        BY <4>1, <4>2, <4>3, <4>4, <4>5 DEF LockInv
    <3>2. ASSUME NEW c \in Budgets, DeleteBudget(c) PROVE LockInv'
      <4>1. /\ UNCHANGED <<created, used, shut, checkedOrg, pc, orgRead>>
            /\ exists' \subseteq exists
        BY <3>2 DEF DeleteBudget
      <4>2. \A b : Exhausted(b)' <=> Exhausted(b)
        BY <4>1, SameUsage
      <4>3. ExhaustedLocksOut'
        BY <4>1 DEF LockInv, ExhaustedLocksOut, Covers, User
      <4> QED
        BY <4>1, <4>2, <4>3 DEF LockInv, OfUser, User
    <3>3. ASSUME NEW b \in Budgets, ResetBudget(b) PROVE LockInv'
      BY <3>3, ResetKeepsLock DEF ResetBudget
    <3>4. ASSUME UNCHANGED <<exists, created, used, shut, checkedOrg, pc, orgRead>>
          PROVE  LockInv'
      <4>1. \A b : Exhausted(b)' <=> Exhausted(b)
        BY <3>4, SameUsage
      <4> QED
        BY <3>4, <4>1 DEF LockInv, ExhaustedLocksOut, Covers, OfUser, User
    <3> QED
      BY <2>8, <3>1, <3>2, <3>3, <3>4 DEF Administration, GetAllBudgets, AssignUserToOrg
  <2>9. CASE Advance \/ UNCHANGED vars
    <3>1. UNCHANGED <<exists, created, used, shut, checkedOrg, pc, orgRead>>
      BY <2>9 DEF Advance, vars
    <3>2. \A b : Exhausted(b)' <=> Exhausted(b)
      BY <3>1, SameUsage
    <3> QED
      BY <3>1, <3>2 DEF LockInv, ExhaustedLocksOut, Covers, OfUser, User
  <2> QED
    BY <2>2, <2>3, <2>4, <2>5, <2>6, <2>7, <2>8, <2>9 DEF Next, RequestStep
<1> QED
  <2>1. Spec => []TypeOK
    BY TypeCorrect
  <2> QED
    BY <1>1, <1>2, <2>1, PTL DEF Spec

(* A request checked while a blocking budget that covers it is exhausted   *)
(* is not admitted before the budget is reset or deleted.                  *)
THEOREM LockHolds == Spec => []ExhaustedLocksOut
<1>1. LockInv => ExhaustedLocksOut
  BY DEF LockInv
<1> QED
  BY <1>1, LockInvHolds, PTL
(***************************************************************************)
(* The automatic stop.                                                     *)
(***************************************************************************)

(* An exhausted budget that is still enabled, and on which no booking      *)
(* worked with an outdated usage, is about to be stopped by the request    *)
(* that exhausted it.                                                      *)
StopInv ==
    \A b \in exists :
        Exhausted(b) /\ b \in enabled /\ b \notin overlapped =>
            \E r \in Requests : stopping[r] = b /\ pc[r] \in {"stopUser", "stopOrg"}

(* A reset empties the budget, and touches no other. *)
LEMMA ResetKeepsStop ==
    ASSUME TypeOK, StopInv, NEW c \in Budgets, Reset(c),
           UNCHANGED <<exists, pc, stopping>>
    PROVE  StopInv'
<1> SUFFICES ASSUME NEW b \in exists, Exhausted(b)', b \in enabled', b \notin overlapped'
             PROVE  Exhausted(b) /\ b \in enabled /\ b \notin overlapped
  BY DEF StopInv
<1>1. b \in Budgets /\ Amount[b] \in Nat
  BY BudgetAssumption DEF TypeOK
<1>2. CASE c \in exists
  <2>1. used'[c] = 0
    BY <1>2 DEF Reset, TypeOK
  <2>2. b # c
    BY <1>1, <2>1 DEF Exhausted, Limited
  <2>3. used'[b] = used[b]
    BY <1>1, <1>2, <2>2 DEF Reset, TypeOK
  <2> QED
    BY <1>2, <2>2, <2>3 DEF Reset, Exhausted, Limited, Blocking
<1>3. CASE c \notin exists
  BY <1>3, SameUsage DEF Reset
<1> QED
  BY <1>2, <1>3

(* StopInv is inductive relative to the types. *)
THEOREM StopInvHolds == Spec => []StopInv
<1>1. Init => StopInv
  <2> SUFFICES ASSUME Init, NEW b \in exists PROVE ~Exhausted(b)
    BY DEF StopInv
  <2>1. b \in Budgets /\ Amount[b] \in Nat /\ used[b] = 0
    BY BudgetAssumption DEF Init
  <2> QED
    BY <2>1 DEF Exhausted, Limited
<1>2. TypeOK /\ StopInv /\ [Next]_vars => StopInv'
  <2> SUFFICES ASSUME TypeOK, StopInv, [Next]_vars PROVE StopInv'
    OBVIOUS
  <2> USE DEF table, request, history, Goto
  \* Steps that book nothing, enable nothing and complete no stop.
  <2>1. ASSUME UNCHANGED <<used, overlapped>>, exists' \subseteq exists,
               enabled' \subseteq enabled,
               \A q \in Requests : pc[q] \in {"stopUser", "stopOrg"} =>
                                   UNCHANGED <<pc[q], stopping[q]>>
        PROVE  StopInv'
    <3>1. \A b : Exhausted(b)' <=> Exhausted(b)
      BY <2>1, SameUsage
    <3> QED
      BY <2>1, <3>1 DEF StopInv
  <2>2. ASSUME NEW r \in Requests,
               \/ CheckUserBudgets(r) \/ CheckOrgBudgets(r) \/ ProviderFails(r)
               \/ RecordCost(r) \/ FindUserBudgets(r) \/ FindOrgBudgets(r)
               \/ NoOrganization(r) \/ ScopeBooked(r)
        PROVE  StopInv'
    <3>1. UNCHANGED <<used, overlapped, exists, enabled, stopping>>
      BY <2>2 DEF CheckUserBudgets, CheckOrgBudgets, ProviderFails, RecordCost,
                  FindUserBudgets, FindOrgBudgets, NoOrganization, ScopeBooked, Find
    <3>2. /\ pc[r] \notin {"stopUser", "stopOrg"}
          /\ \A q \in Requests \ {r} : UNCHANGED pc[q]
      BY <2>2 DEF CheckUserBudgets, CheckOrgBudgets, ProviderFails, RecordCost,
                  FindUserBudgets, FindOrgBudgets, NoOrganization, ScopeBooked, Find,
                  TypeOK
    <3> QED
      BY <2>1, <3>1, <3>2
  <2>3. ASSUME NEW r \in Requests, NEW c \in Budgets, BookBudget(r, c)
        PROVE  StopInv'
    <3> SUFFICES ASSUME NEW b \in exists, Exhausted(b)', b \in enabled,
                        b \notin overlapped'
                 PROVE  \E q \in Requests : stopping'[q] = b
                                            /\ pc'[q] \in {"stopUser", "stopOrg"}
      BY <2>3 DEF BookBudget, StopInv
    <3>1. b \in Budgets /\ Amount[b] \in Nat /\ used[b] \in Nat /\ cost[r] \in Nat
      BY BudgetAssumption DEF TypeOK
    <3>2. CASE Exhausted(b)
      <4>1. PICK q \in Requests : stopping[q] = b /\ pc[q] \in {"stopUser", "stopOrg"}
        BY <2>3, <3>2 DEF StopInv, BookBudget
      <4>2. q # r
        BY <2>3, <4>1 DEF BookBudget
      <4>3. stopping'[q] = stopping[q] /\ pc'[q] = pc[q]
        BY <2>3, <4>2 DEF BookBudget, TypeOK
      <4> QED
        BY <4>1, <4>3
    <3>3. CASE ~Exhausted(b)
      <4>1. used' = [used EXCEPT ![c] = @ + cost[r]] /\ b = c
        <5>1. used'[b] # used[b]
          BY <3>3 DEF Exhausted, Limited, Blocking
        <5> QED
          BY <2>3, <3>1, <5>1 DEF BookBudget, AddUsage, TypeOK
      <4>2. used'[b] = used[b] + cost[r]
        BY <3>1, <4>1 DEF TypeOK
      <4>3. snap[r][b] = used[b]
        BY <2>3, <4>1 DEF BookBudget
      <4>4. JustExhausted(r, b) /\ Blocking(b)
        BY <3>1, <3>3, <4>2, <4>3 DEF JustExhausted, Exhausted, Limited, Blocking
      <4>5. stopping'[r] = b
        BY <2>3, <4>1, <4>4 DEF BookBudget, TypeOK
      <4>6. pc'[r] \in {"stopUser", "stopOrg"}
        BY <2>3, <4>1, <4>4 DEF BookBudget, StopPC, TypeOK
      <4> QED
        BY <4>5, <4>6
    <3> QED
      BY <3>2, <3>3
  <2>4. ASSUME NEW r \in Requests, StopBudget(r)
        PROVE  StopInv'
    <3> SUFFICES ASSUME NEW b \in exists, Exhausted(b), b \in enabled', b \notin overlapped
                 PROVE  \E q \in Requests : stopping'[q] = b
                                            /\ pc'[q] \in {"stopUser", "stopOrg"}
      BY <2>4, SameUsage DEF StopBudget, StopInv
    <3>1. b \in enabled /\ stopping[r] # b
      BY <2>4 DEF StopBudget
    <3>2. PICK q \in Requests : stopping[q] = b /\ pc[q] \in {"stopUser", "stopOrg"}
      BY <3>1 DEF StopInv
    <3>3. stopping'[q] = stopping[q] /\ pc'[q] = pc[q]
      BY <2>4, <3>1, <3>2 DEF StopBudget, TypeOK
    <3> QED
      BY <3>2, <3>3
  <2>5. CASE Maintenance
    <3>1. CASE Tick \/ FindDueBudgets \/ TickDone
      BY <2>1, <3>1 DEF Tick, FindDueBudgets, TickDone, DisableExpiredBudgets
    <3>2. ASSUME NEW b \in Budgets, ResetDueBudget(b) PROVE StopInv'
      BY <3>2, ResetKeepsStop DEF ResetDueBudget
    <3> QED
      BY <2>5, <3>1, <3>2 DEF Maintenance
  <2>6. CASE Administration
    <3>1. ASSUME NEW c \in Budgets, AddBudget(c) PROVE StopInv'
      <4>1. Amount[c] \in Nat
        BY BudgetAssumption
      <4>2. used' = [used EXCEPT ![c] = 0]
        BY <3>1 DEF AddBudget
      <4>3. used'[c] = 0
        BY <4>2 DEF TypeOK
      <4>4. ~Exhausted(c)'
        BY <4>1, <4>3 DEF Exhausted, Limited
      <4>5. ASSUME NEW b \in exists, b # c PROVE Exhausted(b)' <=> Exhausted(b)
        BY <4>2, <4>5 DEF Exhausted, Limited, Blocking, TypeOK
      <4> QED
        BY <3>1, <4>4, <4>5 DEF AddBudget, StopInv
    <3>2. ASSUME NEW c \in Budgets, DeleteBudget(c) PROVE StopInv'
      BY <2>1, <3>2 DEF DeleteBudget
    <3>3. ASSUME NEW b \in Budgets, ResetBudget(b) PROVE StopInv'
      BY <3>3, ResetKeepsStop DEF ResetBudget
    <3>4. CASE GetAllBudgets
      BY <2>1, <3>4 DEF GetAllBudgets, DisableExpiredBudgets
    <3>5. ASSUME NEW u \in Users, NEW o \in Orgs \cup {NoOrg}, AssignUserToOrg(u, o)
          PROVE  StopInv'
      BY <2>1, <3>5 DEF AssignUserToOrg
    <3> QED
      BY <2>6, <3>1, <3>2, <3>3, <3>4, <3>5 DEF Administration
  <2>7. CASE Advance \/ UNCHANGED vars
    BY <2>1, <2>7 DEF Advance, vars
  <2> QED
    BY <2>2, <2>3, <2>4, <2>5, <2>6, <2>7 DEF Next, RequestStep
<1> QED
  BY <1>1, <1>2, TypeCorrect, PTL DEF Spec

(* Once no booking is running, an exhausted blocking budget is disabled,   *)
(* unless some booking since its last reset worked on an outdated usage.   *)
THEOREM StopHolds == Spec => []AutoStopUnlessOverlapped
<1>1. StopInv => AutoStopUnlessOverlapped
  BY DEF StopInv, AutoStopUnlessOverlapped, Quiet, Booking
<1> QED
  BY <1>1, StopInvHolds, PTL

(***************************************************************************)
(* The bookings.                                                           *)
(***************************************************************************)

\* The requests whose cost a budget holds.
Booked(b) == {r \in Requests : b \in credited[r]}

(* A request books each budget at most once: the budgets it still has to   *)
(* book are not among those it has booked, because the two rounds of a     *)
(* request are for budgets of different scope and nothing is booked before *)
(* the first.                                                              *)
OnceEach(r) ==
    /\ credited[r] \subseteq created
    /\ pc[r] \in {"idle", "checkOrg", "rejected", "admitted", "findUser"} => credited[r] = {}
    /\ pc[r] \in {"bookUser", "stopUser"} => \A b \in todo[r] : Scope[b] = "user"
    /\ pc[r] \in {"bookUser", "stopUser", "findOrg"} => \A b \in credited[r] : Scope[b] = "user"
    /\ pc[r] \in {"bookUser", "stopUser", "bookOrg", "stopOrg"} => todo[r] \cap credited[r] = {}

BookInv ==
    /\ UsedIsSumOfBookings
    /\ \A r \in Requests : OnceEach(r)

(* Of finitely many requests, the ones booked on a budget are finitely many. *)
LEMMA BookedFinite == \A b : IsFiniteSet(Booked(b))
BY FS_Subset, BudgetAssumption DEF Booked

(* No id that has not been given out is booked. *)
LEMMA NewIsUnbooked ==
    ASSUME BookInv, NEW b, b \notin created
    PROVE  Booked(b) = {}
BY DEF BookInv, OnceEach, Booked

(* The sums stay when no usage, cost or booking changes. *)
LEMMA BookingsStay ==
    ASSUME UsedIsSumOfBookings, UNCHANGED <<used, cost, credited>>, exists' \subseteq exists
    PROVE  UsedIsSumOfBookings'
BY DEF UsedIsSumOfBookings

(* A reset takes one budget out of every record, and empties it. *)
LEMMA ResetKeepsBookings ==
    ASSUME TypeOK, BookInv, NEW c \in Budgets, Reset(c),
           UNCHANGED <<exists, created, pc, todo, cost>>
    PROVE  BookInv'
<1>1. ASSUME NEW r \in Requests PROVE OnceEach(r)'
  <2>1. credited'[r] \subseteq credited[r]
    BY DEF Reset
  <2> QED
    BY <2>1 DEF BookInv, OnceEach
<1>2. CASE c \notin exists
  BY <1>1, <1>2, BookingsStay DEF Reset, BookInv
<1>3. CASE c \in exists
  <2>1. ASSUME NEW b \in exists
        PROVE  used'[b] = SumFunctionOnSet(cost, {r \in Requests : b \in credited'[r]})
    <3>1. b \in Budgets /\ \A r \in Requests : credited'[r] = credited[r] \ {c}
      BY <1>3 DEF Reset, TypeOK
    <3>2. CASE b = c
      <4>1. used'[b] = 0
        BY <1>3, <3>1, <3>2 DEF Reset, TypeOK
      <4>2. {r \in Requests : b \in credited'[r]} = {}
        BY <3>1, <3>2
      <4> QED
        BY <4>1, <4>2, SumEmpty
    <3>3. CASE b # c
      <4>1. used'[b] = used[b]
        BY <1>3, <3>1, <3>3 DEF Reset, TypeOK
      <4>2. {r \in Requests : b \in credited'[r]} = {r \in Requests : b \in credited[r]}
        BY <3>1, <3>3
      <4> QED
        BY <4>1, <4>2 DEF BookInv, UsedIsSumOfBookings
    <3> QED
      BY <3>2, <3>3
  <2> QED
    BY <1>1, <2>1 DEF BookInv, UsedIsSumOfBookings
<1> QED
  BY <1>2, <1>3

(* One booking adds the cost of a request that was not among those booked. *)
LEMMA BookBudgetAdds ==
    ASSUME TypeOK, BookInv, NEW r \in Requests, NEW c \in Budgets, BookBudget(r, c)
    PROVE  UsedIsSumOfBookings'
<1> SUFFICES ASSUME NEW b \in exists
             PROVE  used'[b] = SumFunctionOnSet(cost, {q \in Requests : b \in credited'[q]})
  BY DEF BookBudget, UsedIsSumOfBookings
<1>1. used[b] = SumFunctionOnSet(cost, Booked(b))
  BY DEF BookInv, UsedIsSumOfBookings, Booked
<1>2. b \in Budgets
  BY DEF TypeOK
<1>3. CASE b # c
  <2>1. used'[b] = used[b]
    BY <1>2, <1>3 DEF BookBudget, AddUsage, TypeOK
  <2>2. \A q \in Requests : b \in credited'[q] <=> b \in credited[q]
    BY <1>3 DEF BookBudget, TypeOK
  <2>3. {q \in Requests : b \in credited'[q]} = Booked(b)
    BY <2>2 DEF Booked
  <2> QED
    BY <1>1, <2>1, <2>3
<1>4. CASE b = c
  <2>1. used'[b] = used[b] + cost[r]
    BY <1>2, <1>4 DEF BookBudget, AddUsage, TypeOK
  <2>2. credited' = [credited EXCEPT ![r] = @ \cup {b}]
    BY <1>4 DEF BookBudget
  <2>3. \A q \in Requests : b \in credited'[q] <=> b \in credited[q] \/ q = r
    BY <2>2 DEF TypeOK
  <2>4. {q \in Requests : b \in credited'[q]} = Booked(b) \cup {r}
    BY <2>3 DEF Booked
  <2>5. r \notin Booked(b)
    BY <1>4 DEF BookInv, OnceEach, BookBudget, Booked
  <2>6. cost[r] \in Int /\ \A q \in Booked(b) : cost[q] \in Int
    BY DEF TypeOK, Booked
  <2>7. SumFunctionOnSet(cost, Booked(b) \cup {r}) = SumFunctionOnSet(cost, Booked(b)) + cost[r]
    BY <2>5, <2>6, BookedFinite, SumAdd
  <2> QED
    BY <1>1, <2>1, <2>4, <2>7
<1> QED
  BY <1>3, <1>4

(* The cost of a request becomes known before it is booked anywhere. *)
LEMMA RecordCostKeepsSums ==
    ASSUME TypeOK, BookInv, NEW r \in Requests, RecordCost(r)
    PROVE  UsedIsSumOfBookings'
<1> SUFFICES ASSUME NEW b \in exists
             PROVE  used[b] = SumFunctionOnSet(cost', Booked(b))
  BY DEF RecordCost, UsedIsSumOfBookings, table, history, Booked
<1>1. r \notin Booked(b)
  BY DEF RecordCost, BookInv, OnceEach, Booked
<1>2. \A q \in Requests \ {r} : cost'[q] = cost[q]
  BY DEF RecordCost, TypeOK
<1>3. \A q \in Booked(b) : cost'[q] = cost[q]
  BY <1>1, <1>2 DEF Booked
<1>4. SumFunctionOnSet(cost', Booked(b)) = SumFunctionOnSet(cost, Booked(b))
  BY <1>3, BookedFinite, SumSame
<1> QED
  BY <1>4 DEF BookInv, UsedIsSumOfBookings, Booked

(* BookInv is inductive relative to the types. *)
THEOREM BookInvHolds == Spec => []BookInv
<1>1. Init => BookInv
  <2> SUFFICES ASSUME Init PROVE BookInv
    OBVIOUS
  <2>1. ASSUME NEW b \in exists PROVE used[b] = SumFunctionOnSet(cost, Booked(b))
    <3>1. used[b] = 0
      BY BudgetAssumption DEF Init
    <3>2. Booked(b) = {}
      BY DEF Init, Booked
    <3> QED
      BY <3>1, <3>2, SumEmpty
  <2>2. \A r \in Requests : OnceEach(r)
    BY DEF Init, OnceEach
  <2> QED
    BY <2>1, <2>2 DEF BookInv, UsedIsSumOfBookings, Booked
<1>2. TypeOK /\ BookInv /\ [Next]_vars => BookInv'
  <2> SUFFICES ASSUME TypeOK, BookInv, [Next]_vars PROVE BookInv'
    OBVIOUS
  <2> USE DEF table, request, history, Goto
  \* What is left to show when a step of r changes no record of another request.
  <2>1. ASSUME NEW r \in Requests, UsedIsSumOfBookings', OnceEach(r)', UNCHANGED created,
               \A q \in Requests \ {r} : UNCHANGED <<pc[q], todo[q], credited[q]>>
        PROVE  BookInv'
    BY <2>1 DEF BookInv, OnceEach
  <2>2. ASSUME NEW r \in Requests, CheckUserBudgets(r) \/ CheckOrgBudgets(r) \/ ProviderFails(r)
        PROVE  BookInv'
    <3>1. /\ UNCHANGED <<exists, created, used, cost, credited, todo>>
          /\ \A q \in Requests \ {r} : UNCHANGED pc[q]
          /\ pc[r] \in {"idle", "checkOrg", "admitted"}
          /\ pc'[r] \in {"checkOrg", "rejected", "admitted", "done"}
      BY <2>2 DEF CheckUserBudgets, CheckOrgBudgets, ProviderFails, TypeOK
    <3>2. OnceEach(r)'
      BY <3>1 DEF BookInv, OnceEach
    <3>3. UsedIsSumOfBookings'
      BY <3>1, BookingsStay DEF BookInv
    <3> QED
      BY <2>1, <3>1, <3>2, <3>3
  <2>3. ASSUME NEW r \in Requests, RecordCost(r)
        PROVE  BookInv'
    <3>1. /\ UNCHANGED <<created, credited, todo>>
          /\ \A q \in Requests \ {r} : UNCHANGED pc[q]
          /\ pc[r] = "admitted"
          /\ pc'[r] \in {"findUser", "done"}
      BY <2>3 DEF RecordCost, TypeOK
    <3>2. OnceEach(r)'
      BY <3>1 DEF BookInv, OnceEach
    <3> QED
      BY <2>1, <2>3, <3>1, <3>2, RecordCostKeepsSums
  <2>4. ASSUME NEW r \in Requests, FindUserBudgets(r) \/ FindOrgBudgets(r)
        PROVE  BookInv'
    <3>1. /\ UNCHANGED <<exists, created, used, cost, credited>>
          /\ \A q \in Requests \ {r} : UNCHANGED <<pc[q], todo[q]>>
      BY <2>4 DEF FindUserBudgets, FindOrgBudgets, Find, TypeOK
    <3>2. OnceEach(r)'
      <4>1. CASE FindUserBudgets(r)
        <5>1. pc[r] = "findUser" /\ pc'[r] = "bookUser" /\ todo'[r] \subseteq OfUser(User(r))
          BY <4>1 DEF FindUserBudgets, Find, TypeOK
        <5> QED
          BY <3>1, <5>1 DEF BookInv, OnceEach, OfUser
      <4>2. CASE FindOrgBudgets(r)
        <5>1. pc[r] = "findOrg" /\ pc'[r] = "bookOrg" /\ todo'[r] \subseteq OfOrg(orgRead[r])
          BY <4>2 DEF FindOrgBudgets, Find, TypeOK
        <5> QED
          BY <3>1, <5>1 DEF BookInv, OnceEach, OfOrg
      <4> QED
        BY <2>4, <4>1, <4>2
    <3>3. UsedIsSumOfBookings'
      BY <3>1, BookingsStay DEF BookInv
    <3> QED
      BY <2>1, <3>1, <3>2, <3>3
  <2>5. ASSUME NEW r \in Requests, NoOrganization(r) \/ StopBudget(r) \/ ScopeBooked(r)
        PROVE  BookInv'
    <3>1. /\ UNCHANGED <<exists, created, used, cost, credited, todo>>
          /\ \A q \in Requests \ {r} : UNCHANGED pc[q]
          /\ \/ pc'[r] = "done"
             \/ pc[r] = "stopUser" /\ pc'[r] = "bookUser"
             \/ pc[r] = "stopOrg" /\ pc'[r] = "bookOrg"
             \/ pc[r] = "bookUser" /\ pc'[r] = "findOrg"
      BY <2>5 DEF NoOrganization, StopBudget, BookPC, ScopeBooked, TypeOK
    <3>2. OnceEach(r)'
      BY <3>1 DEF BookInv, OnceEach
    <3>3. UsedIsSumOfBookings'
      BY <3>1, BookingsStay DEF BookInv
    <3> QED
      BY <2>1, <3>1, <3>2, <3>3
  <2>6. ASSUME NEW r \in Requests, NEW c \in Budgets, BookBudget(r, c)
        PROVE  BookInv'
    <3>1. /\ UNCHANGED created
          /\ \A q \in Requests \ {r} : UNCHANGED <<pc[q], todo[q], credited[q]>>
          /\ c \in todo[r] /\ todo'[r] = todo[r] \ {c}
          /\ credited'[r] = (IF c \in exists THEN credited[r] \cup {c} ELSE credited[r])
          /\ \/ pc[r] = "bookUser" /\ pc'[r] \in {"bookUser", "stopUser"}
             \/ pc[r] = "bookOrg" /\ pc'[r] \in {"bookOrg", "stopOrg"}
      BY <2>6 DEF BookBudget, StopPC, TypeOK
    <3>2. OnceEach(r)'
      BY <3>1 DEF BookInv, OnceEach, TypeOK
    <3> QED
      BY <2>1, <2>6, <3>1, <3>2, BookBudgetAdds
  <2>7. CASE Maintenance
    <3>1. CASE Tick \/ FindDueBudgets \/ TickDone
      <4>1. UNCHANGED <<exists, created, used, cost, credited, todo, pc>>
        BY <3>1 DEF Tick, FindDueBudgets, TickDone
      <4> QED
        BY <4>1, BookingsStay DEF BookInv, OnceEach
    <3>2. ASSUME NEW b \in Budgets, ResetDueBudget(b) PROVE BookInv'
      BY <3>2, ResetKeepsBookings DEF ResetDueBudget
    <3> QED
      BY <2>7, <3>1, <3>2 DEF Maintenance
  <2>8. CASE Administration
    <3>1. ASSUME NEW c \in Budgets, AddBudget(c) PROVE BookInv'
      <4>1. /\ UNCHANGED <<cost, credited, todo, pc>>
            /\ c \notin created
            /\ exists' = exists \cup {c} /\ created' = created \cup {c}
            /\ used' = [used EXCEPT ![c] = 0]
        BY <3>1 DEF AddBudget
      <4>2. ASSUME NEW b \in exists' PROVE used'[b] = SumFunctionOnSet(cost, Booked(b))
        <5>1. CASE b = c
          <6>1. used'[b] = 0
            BY <4>1, <5>1 DEF TypeOK
          <6>2. Booked(b) = {}
            BY <4>1, <5>1, NewIsUnbooked
          <6> QED
            BY <6>1, <6>2, SumEmpty
        <5>2. CASE b # c
          <6>1. b \in exists /\ used'[b] = used[b]
            BY <4>1, <5>2 DEF TypeOK
          <6> QED
            BY <6>1 DEF BookInv, UsedIsSumOfBookings, Booked
        <5> QED
          BY <5>1, <5>2
      <4>3. UsedIsSumOfBookings'
        BY <4>1, <4>2 DEF UsedIsSumOfBookings, Booked
      <4> QED
        BY <4>1, <4>3 DEF BookInv, OnceEach
    <3>2. ASSUME NEW c \in Budgets, DeleteBudget(c) PROVE BookInv'
      <4>1. UNCHANGED <<created, used, cost, credited, todo, pc>> /\ exists' \subseteq exists
        BY <3>2 DEF DeleteBudget
      <4> QED
        BY <4>1, BookingsStay DEF BookInv, OnceEach
    <3>3. ASSUME NEW b \in Budgets, ResetBudget(b) PROVE BookInv'
      BY <3>3, ResetKeepsBookings DEF ResetBudget
    <3>4. ASSUME UNCHANGED <<exists, created, used, cost, credited, todo, pc>>
          PROVE  BookInv'
      BY <3>4, BookingsStay DEF BookInv, OnceEach
    <3> QED
      BY <2>8, <3>1, <3>2, <3>3, <3>4 DEF Administration, GetAllBudgets, AssignUserToOrg
  <2>9. CASE Advance \/ UNCHANGED vars
    <3>1. UNCHANGED <<exists, created, used, cost, credited, todo, pc>>
      BY <2>9 DEF Advance, vars
    <3> QED
      BY <3>1, BookingsStay DEF BookInv, OnceEach
  <2> QED
    BY <2>2, <2>3, <2>4, <2>5, <2>6, <2>7, <2>8, <2>9 DEF Next, RequestStep
<1> QED
  BY <1>1, <1>2, TypeCorrect, PTL DEF Spec

(* The usage of every budget is the sum of the costs of the requests booked *)
(* on it since its last reset: concurrent bookings, resets and stops lose,  *)
(* double or keep nothing.                                                  *)
THEOREM BookingsAddUp == Spec => []UsedIsSumOfBookings
<1>1. BookInv => UsedIsSumOfBookings
  BY DEF BookInv
<1> QED
  BY <1>1, BookInvHolds, PTL

-----------------------------------------------------------------------------
(***************************************************************************)
(* The batch updater.                                                      *)
(***************************************************************************)

(* Put changes the one entry it names. *)
LEMMA PutIs ==
    ASSUME NEW x \in Sums, NEW t \in Types, NEW i \in Ids, NEW v \in Int
    PROVE  /\ Put(x, t, i, v) \in Sums
           /\ Put(x, t, i, v)[t][i] = v
           /\ \A u \in Types, j \in Ids :
                 u # t \/ j # i => Put(x, t, i, v)[u][j] = x[u][j]
           /\ \A u \in Types : u # t => Put(x, t, i, v)[u] = x[u]
<1>1. x[t] \in [Ids -> Int]
  BY DEF Sums
<1>2. [x[t] EXCEPT ![i] = v] \in [Ids -> Int]
  BY <1>1
<1>3. Put(x, t, i, v) = [x EXCEPT ![t] = [x[t] EXCEPT ![i] = v]]
  BY DEF Put
<1>4. \A u \in Types : Put(x, t, i, v)[u] = IF u = t THEN [x[t] EXCEPT ![i] = v] ELSE x[u]
  BY <1>3 DEF Sums
<1> QED
  BY <1>1, <1>2, <1>3, <1>4 DEF Sums

(* Plus adds to the one entry it names. *)
LEMMA PlusIs ==
    ASSUME NEW x \in Sums, NEW t \in Types, NEW i \in Ids, NEW v \in Int
    PROVE  /\ Plus(x, t, i, v) \in Sums
           /\ Plus(x, t, i, v)[t][i] = x[t][i] + v
           /\ \A u \in Types, j \in Ids :
                 u # t \/ j # i => Plus(x, t, i, v)[u][j] = x[u][j]
<1>1. x[t][i] \in Int
  BY DEF Sums
<1>2. x[t][i] + v \in Int
  BY <1>1
<1> QED
  BY <1>2, PutIs DEF Plus

(* Maps of zeros are maps of integers. *)
LEMMA ZeroTypes == Zero \in [Ids -> Int] /\ Zeros \in Sums
BY DEF Zero, Zeros, Sums

(* Maps, mutexes, locals and sums keep their types; the type the updater   *)
(* is at never leaves the range of the array of maps.                      *)
THEOREM BatchTypesHold == BatchSpec => []BatchTypeOK
<1>1. BatchInit => BatchTypeOK
  BY BatchAssumption, ZeroTypes DEF BatchInit, BatchTypeOK, Types
<1>2. BatchTypeOK /\ [BatchNext]_batchVars => BatchTypeOK'
  <2> SUFFICES ASSUME BatchTypeOK, [BatchNext]_batchVars PROVE BatchTypeOK'
    OBVIOUS
  <2> USE DEF BatchTypeOK, Lock, Unlock
  <2>1. ASSUME NEW w \in Writers, Call(w) PROVE BatchTypeOK'
    <3>1. PICK t \in Types, i \in Ids, v \in Values :
             rec' = [rec EXCEPT ![w] = [type |-> t, id |-> i, value |-> v]]
      BY <2>1 DEF Call
    <3>2. [type |-> t, id |-> i, value |-> v] \in [type : Types, id : Ids, value : Int]
      BY BatchAssumption
    <3>3. rec' \in [Writers -> [type : Types, id : Ids, value : Int]]
      BY <3>1, <3>2
    <3> QED
      BY <2>1, <3>3, BatchAssumption DEF Call
  <2>2. ASSUME NEW w \in Writers, LockStore(w) PROVE BatchTypeOK'
    BY <2>2 DEF LockStore
  <2>3. ASSUME NEW w \in Writers, ReadEntry(w) PROVE BatchTypeOK'
    <3>1. stores[rec[w].type][rec[w].id] \in Int
      BY DEF Sums
    <3> QED
      BY <2>3, <3>1 DEF ReadEntry
  <2>4. ASSUME NEW w \in Writers, WriteEntry(w) PROVE BatchTypeOK'
    <3>1. rec[w].type \in Types /\ rec[w].id \in Ids /\ rec[w].value \in Int
      OBVIOUS
    <3>2. old[w] + rec[w].value \in Int
      BY <3>1
    <3>3. stores' \in Sums /\ recorded' \in Sums
      BY <2>4, <3>1, <3>2, PutIs, PlusIs DEF WriteEntry
    <3> QED
      BY <2>4, <3>1, <3>3 DEF WriteEntry
  <2>5. CASE Wake \/ LockStores \/ NextType
    BY <2>5, BatchAssumption DEF Wake, LockStores, NextType, MoreTypes, Types
  <2>6. CASE TakeStore
    BY <2>6 DEF TakeStore, Sums
  <2>7. CASE ReplaceStore
    BY <2>7, ZeroTypes DEF ReplaceStore, Sums
  <2>8. ASSUME NEW i \in Ids, Apply(i) \/ ApplyFails(i) PROVE BatchTypeOK'
    <3>1. batch[i] \in Int
      OBVIOUS
    <3>2. Plus(db, typ, i, batch[i]) \in Sums /\ Plus(lost, typ, i, batch[i]) \in Sums
      BY <3>1, PlusIs
    <3> QED
      BY <2>8, <3>2 DEF Apply, ApplyFails
  <2>9. CASE Crash
    <3>1. \A t \in Types, i \in Ids : InFlight(t, i) \in Int
      BY DEF InFlight
    <3>2. lost' \in Sums
      BY <2>9, <3>1 DEF Crash, Sums
    <3> QED
      BY <2>9, <3>2, ZeroTypes, BatchAssumption DEF Crash, Types
  <2>10. CASE UNCHANGED batchVars
    BY <2>10 DEF batchVars, mem
  <2> QED
    BY <2>1, <2>2, <2>3, <2>4, <2>5, <2>6, <2>7, <2>8, <2>9, <2>10
       DEF BatchNext, WriterStep, UpdaterStep
<1> QED
  BY <1>1, <1>2, PTL DEF BatchSpec

(***************************************************************************)
(* The exchange of the maps.                                               *)
(***************************************************************************)

(* A writer between lock and unlock holds the mutex of its type, and the   *)
(* updater the one of the type whose map it exchanges.                     *)
MutualExclusion ==
    /\ \A w \in Writers : wpc[w] \in {"read", "write"} => lock[rec[w].type] = w
    /\ upc \in {"take", "replace"} => lock[typ] = Updater

(* What was read under a mutex is still there when it is used.             *)
ReadsAreCurrent ==
    /\ \A w \in Writers : wpc[w] = "write" => old[w] = stores[rec[w].type][rec[w].id]
    /\ upc = "replace" => batch = stores[typ]

ExchangeInv == MutualExclusion /\ ReadsAreCurrent /\ NothingDroppedOrDoubled

(* ExchangeInv is inductive relative to the types. *)
THEOREM ExchangeInvHolds == BatchSpec => []ExchangeInv
<1>1. BatchInit => ExchangeInv
  BY DEF BatchInit, ExchangeInv, MutualExclusion, ReadsAreCurrent, NothingDroppedOrDoubled,
         InFlight, Zeros, Zero
<1>2. BatchTypeOK /\ ExchangeInv /\ [BatchNext]_batchVars => ExchangeInv'
  <2> SUFFICES ASSUME BatchTypeOK, ExchangeInv, [BatchNext]_batchVars PROVE ExchangeInv'
    OBVIOUS
  <2> USE DEF ExchangeInv
  <2>0. Updater \notin Writers /\ Free # Updater /\ Free \notin Writers
    BY BatchAssumption
  <2>1. ASSUME NEW w \in Writers, Call(w) PROVE ExchangeInv'
    <3>1. \A q \in Writers \ {w} : UNCHANGED <<wpc[q], rec[q]>>
      BY <2>1 DEF Call, BatchTypeOK
    <3>2. wpc'[w] = "lock"
      BY <2>1 DEF Call, BatchTypeOK
    <3>3. UNCHANGED <<stores, lock, old, upc, typ, batch, db, lost, recorded>>
      BY <2>1 DEF Call
    <3> QED
      BY <3>1, <3>2, <3>3 DEF MutualExclusion, ReadsAreCurrent, NothingDroppedOrDoubled,
                              InFlight
  <2>2. ASSUME NEW w \in Writers, LockStore(w) PROVE ExchangeInv'
    <3>1. /\ \A q \in Writers \ {w} : UNCHANGED wpc[q]
          /\ wpc'[w] = "read"
          /\ lock[rec[w].type] = Free
          /\ lock' = [lock EXCEPT ![rec[w].type] = w]
          /\ UNCHANGED <<rec, stores, old, upc, typ, batch, db, lost, recorded>>
      BY <2>2 DEF LockStore, Lock, BatchTypeOK
    <3>2. MutualExclusion'
      BY <2>0, <3>1 DEF MutualExclusion, BatchTypeOK
    <3>3. ReadsAreCurrent' /\ NothingDroppedOrDoubled'
      BY <3>1 DEF ReadsAreCurrent, NothingDroppedOrDoubled, InFlight
    <3> QED
      BY <3>2, <3>3
  <2>3. ASSUME NEW w \in Writers, ReadEntry(w) PROVE ExchangeInv'
    <3>1. /\ \A q \in Writers \ {w} : UNCHANGED <<wpc[q], old[q]>>
          /\ wpc[w] = "read" /\ wpc'[w] = "write"
          /\ old'[w] = stores[rec[w].type][rec[w].id]
          /\ UNCHANGED <<rec, stores, lock, upc, typ, batch, db, lost, recorded>>
      BY <2>3 DEF ReadEntry, BatchTypeOK
    <3> QED
      BY <3>1 DEF MutualExclusion, ReadsAreCurrent, NothingDroppedOrDoubled, InFlight
  <2>4. ASSUME NEW w \in Writers, WriteEntry(w) PROVE ExchangeInv'
    <3> DEFINE t == rec[w].type
               i == rec[w].id
               v == rec[w].value
    <3>1. t \in Types /\ i \in Ids /\ v \in Int /\ stores[t][i] \in Int
      BY DEF BatchTypeOK, Sums
    <3>2. /\ \A q \in Writers \ {w} : UNCHANGED wpc[q]
          /\ wpc[w] = "write" /\ wpc'[w] = "idle"
          /\ lock[t] = w
          /\ lock' = [lock EXCEPT ![t] = Free]
          /\ UNCHANGED <<rec, old, upc, typ, batch, db, lost>>
      BY <2>4 DEF WriteEntry, MutualExclusion, Unlock, BatchTypeOK
    <3>3. stores' = Plus(stores, t, i, v) /\ recorded' = Plus(recorded, t, i, v)
      BY <2>4, <3>2 DEF WriteEntry, ReadsAreCurrent, Plus
    <3>4. MutualExclusion'
      BY <2>0, <3>1, <3>2 DEF MutualExclusion, BatchTypeOK
    <3>5. /\ stores'[t][i] = stores[t][i] + v
          /\ recorded'[t][i] = recorded[t][i] + v
          /\ \A u \in Types, j \in Ids :
                u # t \/ j # i => /\ stores'[u][j] = stores[u][j]
                                  /\ recorded'[u][j] = recorded[u][j]
      <4>1. stores \in Sums /\ recorded \in Sums
        BY DEF BatchTypeOK
      <4> HIDE DEF t, i, v
      <4>2. /\ stores'[t][i] = stores[t][i] + v
            /\ \A u \in Types, j \in Ids : u # t \/ j # i => stores'[u][j] = stores[u][j]
        BY <3>1, <3>3, <4>1, PlusIs
      <4>3. /\ recorded'[t][i] = recorded[t][i] + v
            /\ \A u \in Types, j \in Ids :
                  u # t \/ j # i => recorded'[u][j] = recorded[u][j]
        <5>1. recorded' = Plus(recorded, t, i, v)
          BY <3>3
        <5>2. t \in Types /\ i \in Ids /\ v \in Int /\ recorded \in Sums
          BY <3>1, <4>1
        <5> QED
          BY ONLY <5>1, <5>2, PlusIs
      <4> QED
        BY <4>2, <4>3
    <3>6. \A u \in Types : u # t => stores'[u] = stores[u]
      <4>1. stores \in Sums /\ stores[t][i] + v \in Int
        BY <3>1 DEF BatchTypeOK
      <4> HIDE DEF t, i, v
      <4> QED
        BY <3>1, <3>3, <4>1, PutIs DEF Plus
    <3>7. ReadsAreCurrent'
      <4>1. ASSUME NEW q \in Writers, wpc'[q] = "write"
            PROVE  old'[q] = stores'[rec'[q].type][rec'[q].id]
        <5>1. q # w /\ wpc[q] = "write"
          BY <3>2, <4>1
        <5>2. rec[q].type # t
          BY <3>2, <5>1 DEF MutualExclusion
        <5>3. rec[q].type \in Types
          BY DEF BatchTypeOK
        <5> QED
          BY <3>2, <3>6, <5>1, <5>2, <5>3 DEF ReadsAreCurrent
      <4>2. ASSUME upc' = "replace" PROVE batch' = stores'[typ']
        <5>1. typ # t
          BY <2>0, <3>2, <4>2 DEF MutualExclusion
        <5> QED
          BY <3>2, <3>6, <4>2, <5>1 DEF ReadsAreCurrent, BatchTypeOK
      <4> QED
        BY <4>1, <4>2 DEF ReadsAreCurrent
    <3>8. NothingDroppedOrDoubled'
      <4> SUFFICES ASSUME NEW u \in Types, NEW j \in Ids
                   PROVE  db[u][j] + stores'[u][j] + InFlight(u, j) + lost[u][j]
                             = recorded'[u][j]
        BY <3>2 DEF NothingDroppedOrDoubled, InFlight
      <4>1. db[u][j] + stores[u][j] + InFlight(u, j) + lost[u][j] = recorded[u][j]
        BY DEF NothingDroppedOrDoubled
      <4>2. /\ db[u][j] \in Int /\ stores[u][j] \in Int /\ lost[u][j] \in Int
            /\ InFlight(u, j) \in Int
        BY DEF BatchTypeOK, Sums, InFlight
      <4>3. CASE u = t /\ j = i
        BY <3>1, <3>5, <4>1, <4>2, <4>3
      <4>4. CASE u # t \/ j # i
        BY <3>5, <4>1, <4>4
      <4> QED
        BY <4>3, <4>4
    <3> QED
      BY <3>4, <3>7, <3>8
  <2>5. CASE Wake
    BY <2>5 DEF Wake, MutualExclusion, ReadsAreCurrent, NothingDroppedOrDoubled, InFlight
  <2>6. CASE LockStores
    <3>1. /\ upc = "lock" /\ upc' = "take"
          /\ lock[typ] = Free /\ lock' = [lock EXCEPT ![typ] = Updater]
          /\ UNCHANGED <<rec, wpc, old, stores, typ, batch, db, lost, recorded>>
      BY <2>6 DEF LockStores, Lock
    <3>2. MutualExclusion'
      BY <2>0, <3>1 DEF MutualExclusion, BatchTypeOK
    <3> QED
      BY <3>1, <3>2 DEF ReadsAreCurrent, NothingDroppedOrDoubled, InFlight
  <2>7. CASE TakeStore
    BY <2>7 DEF TakeStore, MutualExclusion, ReadsAreCurrent, NothingDroppedOrDoubled,
                InFlight
  <2>8. CASE ReplaceStore
    <3>1. /\ upc = "replace" /\ upc' = "apply"
          /\ lock[typ] = Updater /\ lock' = [lock EXCEPT ![typ] = Free]
          /\ batch = stores[typ]
          /\ stores' = [stores EXCEPT ![typ] = Zero]
          /\ UNCHANGED <<rec, wpc, old, typ, batch, db, lost, recorded>>
      BY <2>8 DEF ReplaceStore, Unlock, MutualExclusion, ReadsAreCurrent
    <3>2. \A w \in Writers : wpc[w] \in {"read", "write"} => rec[w].type # typ
      BY <2>0, <3>1 DEF MutualExclusion
    <3>3. MutualExclusion'
      BY <3>1, <3>2 DEF MutualExclusion, BatchTypeOK
    <3>4. stores'[typ] = Zero /\ \A u \in Types : u # typ => stores'[u] = stores[u]
      BY <3>1 DEF BatchTypeOK, Sums
    <3>5. ReadsAreCurrent'
      BY <3>1, <3>2, <3>4 DEF ReadsAreCurrent, BatchTypeOK
    <3>6. NothingDroppedOrDoubled'
      <4> SUFFICES ASSUME NEW u \in Types, NEW j \in Ids
                   PROVE  db[u][j] + stores'[u][j] + InFlight(u, j)' + lost[u][j]
                             = recorded[u][j]
        BY <3>1 DEF NothingDroppedOrDoubled
      <4>1. db[u][j] + stores[u][j] + InFlight(u, j) + lost[u][j] = recorded[u][j]
        BY DEF NothingDroppedOrDoubled
      <4>2. InFlight(u, j) = 0
        BY <3>1 DEF InFlight
      <4>3. db[u][j] \in Int /\ stores[u][j] \in Int /\ lost[u][j] \in Int
        BY DEF BatchTypeOK, Sums
      <4>4. CASE u = typ
        <5>1. stores'[u][j] = 0 /\ InFlight(u, j)' = stores[u][j]
          BY <3>1, <3>4, <4>4 DEF InFlight, Zero
        <5> QED
          BY <4>1, <4>2, <4>3, <5>1
      <4>5. CASE u # typ
        <5>1. stores'[u][j] = stores[u][j] /\ InFlight(u, j)' = 0
          BY <3>1, <3>4, <4>5 DEF InFlight
        <5> QED
          BY <4>1, <4>2, <5>1
      <4> QED
        BY <4>4, <4>5
    <3> QED
      BY <3>3, <3>5, <3>6
  \* Apply and ApplyFails move an entry of the batch to x, the database or lost.
  <2>9. ASSUME NEW i \in Ids, NEW x \in Sums, upc = "apply",
               batch' = [batch EXCEPT ![i] = 0]
        PROVE  /\ Plus(x, typ, i, batch[i])[typ][i] = x[typ][i] + InFlight(typ, i)
               /\ \A u \in Types, j \in Ids :
                     u # typ \/ j # i => Plus(x, typ, i, batch[i])[u][j] = x[u][j]
    <3>1. typ \in Types /\ batch[i] \in Int
      BY DEF BatchTypeOK
    <3> QED
      BY <2>9, <3>1, PlusIs DEF InFlight
  <2>10. ASSUME NEW i \in Ids, Apply(i) \/ ApplyFails(i) PROVE ExchangeInv'
    <3>1. /\ upc = "apply" /\ batch' = [batch EXCEPT ![i] = 0]
          /\ UNCHANGED <<stores, lock, wpc, rec, old, upc, typ, recorded>>
          /\ \/ db' = Plus(db, typ, i, batch[i]) /\ lost' = lost
             \/ lost' = Plus(lost, typ, i, batch[i]) /\ db' = db
      BY <2>10 DEF Apply, ApplyFails
    <3>2. MutualExclusion' /\ ReadsAreCurrent'
      BY <3>1 DEF MutualExclusion, ReadsAreCurrent
    <3>3. typ \in Types /\ db \in Sums /\ lost \in Sums
      BY DEF BatchTypeOK
    <3>4. /\ Plus(db, typ, i, batch[i])[typ][i] = db[typ][i] + InFlight(typ, i)
          /\ \A u \in Types, j \in Ids :
                u # typ \/ j # i => Plus(db, typ, i, batch[i])[u][j] = db[u][j]
      BY <2>9, <3>1, <3>3
    <3>5. /\ Plus(lost, typ, i, batch[i])[typ][i] = lost[typ][i] + InFlight(typ, i)
          /\ \A u \in Types, j \in Ids :
                u # typ \/ j # i => Plus(lost, typ, i, batch[i])[u][j] = lost[u][j]
      BY <2>9, <3>1, <3>3
    <3>6. NothingDroppedOrDoubled'
      <4> SUFFICES ASSUME NEW u \in Types, NEW j \in Ids
                   PROVE  db'[u][j] + stores[u][j] + InFlight(u, j)' + lost'[u][j]
                             = recorded[u][j]
        BY <3>1 DEF NothingDroppedOrDoubled
      <4>1. db[u][j] + stores[u][j] + InFlight(u, j) + lost[u][j] = recorded[u][j]
        BY DEF NothingDroppedOrDoubled
      <4>2. /\ db[u][j] \in Int /\ stores[u][j] \in Int /\ lost[u][j] \in Int
            /\ InFlight(u, j) \in Int
        BY DEF BatchTypeOK, Sums, InFlight
      <4>3. CASE u = typ /\ j = i
        <5>1. InFlight(u, j)' = 0
          BY <3>1, <4>3 DEF InFlight, BatchTypeOK
        <5>2. \/ db'[u][j] = db[u][j] + InFlight(u, j) /\ lost'[u][j] = lost[u][j]
              \/ lost'[u][j] = lost[u][j] + InFlight(u, j) /\ db'[u][j] = db[u][j]
          BY <3>1, <3>4, <3>5, <4>3
        <5> QED
          BY <4>1, <4>2, <5>1, <5>2
      <4>4. CASE u # typ \/ j # i
        <5>1. InFlight(u, j)' = InFlight(u, j)
          BY <3>1, <4>4 DEF InFlight, BatchTypeOK
        <5>2. db'[u][j] = db[u][j] /\ lost'[u][j] = lost[u][j]
          BY <3>1, <3>4, <3>5, <4>4
        <5> QED
          BY <4>1, <5>1, <5>2
      <4> QED
        BY <4>3, <4>4
    <3> QED
      BY <3>2, <3>6
  <2>11. CASE NextType
    <3>1. /\ upc = "apply" /\ upc' \in {"lock", "sleep"} /\ batch = Zero
          /\ UNCHANGED <<stores, lock, wpc, rec, old, batch, db, lost, recorded>>
      BY <2>11 DEF NextType
    <3>2. \A u \in Types, j \in Ids : InFlight(u, j) = 0 /\ InFlight(u, j)' = 0
      BY <3>1 DEF InFlight, Zero
    <3>3. NothingDroppedOrDoubled'
      BY <3>1, <3>2 DEF NothingDroppedOrDoubled
    <3> QED
      BY <3>1, <3>3 DEF MutualExclusion, ReadsAreCurrent
  <2>12. CASE Crash
    <3>1. MutualExclusion' /\ ReadsAreCurrent'
      BY <2>12 DEF Crash, MutualExclusion, ReadsAreCurrent
    <3>2. NothingDroppedOrDoubled'
      <4> SUFFICES ASSUME NEW u \in Types, NEW j \in Ids
                   PROVE  db[u][j] + stores'[u][j] + InFlight(u, j)' + lost'[u][j]
                             = recorded[u][j]
        BY <2>12 DEF NothingDroppedOrDoubled, Crash
      <4>1. db[u][j] + stores[u][j] + InFlight(u, j) + lost[u][j] = recorded[u][j]
        BY DEF NothingDroppedOrDoubled
      <4>2. /\ db[u][j] \in Int /\ stores[u][j] \in Int /\ lost[u][j] \in Int
            /\ InFlight(u, j) \in Int
        BY DEF BatchTypeOK, Sums, InFlight
      <4>3. /\ stores'[u][j] = 0 /\ InFlight(u, j)' = 0
            /\ lost'[u][j] = lost[u][j] + stores[u][j] + InFlight(u, j)
        BY <2>12 DEF Crash, Zeros, Zero, InFlight
      <4> QED
        BY <4>1, <4>2, <4>3
    <3> QED
      BY <3>1, <3>2
  <2>13. CASE UNCHANGED batchVars
    BY <2>13 DEF batchVars, mem, MutualExclusion, ReadsAreCurrent, NothingDroppedOrDoubled,
                 InFlight
  <2> QED
    BY <2>1, <2>2, <2>3, <2>4, <2>5, <2>6, <2>7, <2>8, <2>10, <2>11, <2>12, <2>13
       DEF BatchNext, WriterStep, UpdaterStep
<1> QED
  BY <1>1, <1>2, BatchTypesHold, PTL DEF BatchSpec

(* Every value recorded is in the database, in the map, on its way, or was *)
(* lost to a crash or a failed update, and counted once.                   *)
THEOREM ExchangeIsSafe == BatchSpec => []NothingDroppedOrDoubled
<1>1. ExchangeInv => NothingDroppedOrDoubled
  BY DEF ExchangeInv
<1> QED
  BY <1>1, ExchangeInvHolds, PTL
=============================================================================
