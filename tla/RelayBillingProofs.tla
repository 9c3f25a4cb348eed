------------------------- MODULE RelayBillingProofs -------------------------
(***************************************************************************)
(* Proofs about RelayBilling, for any requests, tokens, quotas, number of  *)
(* retries, with and without Redis and failing database updates.           *)
(***************************************************************************)
EXTENDS RelayBilling, FiniteSetTheorems, WellFoundedInduction, TLAPS

-----------------------------------------------------------------------------
(***************************************************************************)
(* Sums over finite sets.  SumFunctionOnSet is defined by recursion over   *)
(* the subsets of a set; these lemmas say that the recursion has a value,  *)
(* that the order of the elements does not matter, and how the sum moves   *)
(* when a value or the set changes.  Each is proved from a smallest set    *)
(* for which it fails.                                                     *)
(***************************************************************************)
Pick(s) == CHOOSE x \in s : TRUE

\* g[s] is the sum of f over s, for every subset s of S.
Totals(g, f, S) ==
    g = [s \in SUBSET S |-> IF s = {} THEN 0 ELSE f[Pick(s)] + g[s \ {Pick(s)}]]

(* Among subsets of a finite set there is one that contains no other. *)
LEMMA Smallest ==
    ASSUME NEW S, IsFiniteSet(S), NEW Bad, Bad \subseteq SUBSET S, Bad # {}
    PROVE  \E s \in Bad : \A t \in Bad : t \subseteq s => t = s
<1>1. IsWellFoundedOn(StrictSubsetOrdering(S), SUBSET S)
  BY FS_StrictSubsetOrderingWellFounded, FS_FiniteSubsetsOfFinite
<1>2. PICK s \in Bad : \A t \in Bad : <<t, s>> \notin StrictSubsetOrdering(S)
  BY <1>1, WFMin
<1> QED
  BY <1>2 DEF StrictSubsetOrdering

(* Two such functions agree where both are defined. *)
LEMMA TotalsAgree ==
    ASSUME NEW S, IsFiniteSet(S), NEW f, NEW U \in SUBSET S, NEW V \in SUBSET S,
           NEW g, NEW h, Totals(g, f, U), Totals(h, f, V)
    PROVE  \A s \in SUBSET (U \cap V) : g[s] = h[s]
<1> DEFINE Bad == {s \in SUBSET (U \cap V) : g[s] # h[s]}
<1> SUFFICES ASSUME Bad # {} PROVE FALSE
  OBVIOUS
<1>1. PICK s \in Bad : \A t \in Bad : t \subseteq s => t = s
  <2>1. Bad \subseteq SUBSET S
    OBVIOUS
  <2> HIDE DEF Bad
  <2> QED
    BY <2>1, Smallest
<1>2. s # {}
  BY DEF Totals
<1> DEFINE t == s \ {Pick(s)}
<1>3. Pick(s) \in s
  BY <1>2 DEF Pick
<1>4. g[t] = h[t]
  BY <1>1, <1>3
<1>5. g[s] = f[Pick(s)] + g[t] /\ h[s] = f[Pick(s)] + h[t]
  BY <1>2 DEF Totals
<1> QED
  BY <1>4, <1>5

(* There is such a function for every finite set. *)
LEMMA TotalsExist ==
    ASSUME NEW S, IsFiniteSet(S), NEW f
    PROVE  \E g : Totals(g, f, S)
<1> DEFINE Bad == {s \in SUBSET S : ~ \E g : Totals(g, f, s)}
<1> SUFFICES ASSUME Bad # {} PROVE FALSE
  OBVIOUS
<1>1. PICK U \in Bad : \A t \in Bad : t \subseteq U => t = U
  <2>1. Bad \subseteq SUBSET S
    OBVIOUS
  <2> HIDE DEF Bad
  <2> QED
    BY <2>1, Smallest
<1> DEFINE G(s) == CHOOSE g : Totals(g, f, s)
           Rest(s) == s \ {Pick(s)}
           h == [s \in SUBSET U |-> IF s = {} THEN 0 ELSE f[Pick(s)] + G(Rest(s))[Rest(s)]]
<1>2. ASSUME NEW s \in SUBSET U, s # U PROVE Totals(G(s), f, s)
  <2>1. \E g : Totals(g, f, s)
    BY <1>1, <1>2
  <2> QED
    BY <2>1
<1> HIDE DEF G
<1>3. ASSUME NEW s \in SUBSET U, s # U PROVE h[s] = G(s)[s]
  <2>1. Totals(G(s), f, s)
    BY <1>2, <1>3
  <2>2. CASE s = {}
    BY <2>1, <2>2 DEF Totals
  <2>3. CASE s # {}
    <3>1. Pick(s) \in s
      BY <2>3 DEF Pick
    <3>2. Rest(s) \in SUBSET U /\ Rest(s) # U /\ Rest(s) \in SUBSET s
      BY <1>3, <3>1
    <3>3. Totals(G(Rest(s)), f, Rest(s))
      BY <1>2, <3>2
    <3>4. G(s)[Rest(s)] = G(Rest(s))[Rest(s)]
      <4>1. /\ s \in SUBSET S /\ Rest(s) \in SUBSET S
            /\ Rest(s) \in SUBSET (s \cap Rest(s))
        BY <1>1, <3>2
      <4>2. \A R \in SUBSET S : Totals(G(R), f, R) =>
                \A t \in SUBSET (s \cap R) : G(s)[t] = G(R)[t]
        BY <2>1, <4>1, TotalsAgree
      <4> HIDE DEF Rest
      <4> QED
        BY <3>3, <4>1, <4>2
    <3>5. G(s)[s] = f[Pick(s)] + G(s)[Rest(s)]
      BY <2>1, <2>3 DEF Totals
    <3>6. h[s] = f[Pick(s)] + G(Rest(s))[Rest(s)]
      BY <2>3
    <3> QED
      BY <3>4, <3>5, <3>6
  <2> QED
    BY <2>2, <2>3
<1>4. ASSUME NEW s \in SUBSET U, s # {} PROVE h[s] = f[Pick(s)] + h[Rest(s)]
  <2>1. Rest(s) \in SUBSET U /\ Rest(s) # U
    BY <1>4 DEF Pick
  <2>2. h[Rest(s)] = G(Rest(s))[Rest(s)]
    BY <1>3, <2>1
  <2>3. h[s] = f[Pick(s)] + G(Rest(s))[Rest(s)]
    BY <1>4
  <2> QED
    BY <2>2, <2>3
<1>5. h[{}] = 0
  OBVIOUS
<1>6. Totals(h, f, U)
  <2>1. h = [s \in SUBSET U |-> h[s]]
    OBVIOUS
  <2>2. \A s \in SUBSET U : h[s] = IF s = {} THEN 0 ELSE f[Pick(s)] + h[s \ {Pick(s)}]
    BY <1>4, <1>5
  <2> HIDE DEF h
  <2> QED
    BY <2>1, <2>2 DEF Totals
<1> QED
  BY <1>1, <1>6

(* One function gives the sums over all subsets of a finite set. *)
LEMMA SumIsTotal ==
    ASSUME NEW S, IsFiniteSet(S), NEW f, NEW g, Totals(g, f, S), NEW T \in SUBSET S
    PROVE  SumFunctionOnSet(f, T) = g[T]
<1>1. IsFiniteSet(T)
  BY FS_Subset
<1> DEFINE h == CHOOSE k : Totals(k, f, T)
<1>2. Totals(h, f, T)
  BY <1>1, TotalsExist
<1>3. SumFunctionOnSet(f, T) = h[T]
  BY DEF SumFunctionOnSet, FoldFunctionOnSet, MapThenFoldSet, Totals, Pick
<1> HIDE DEF h
<1>4. h[T] = g[T]
  BY <1>2, TotalsAgree
<1> QED
  BY <1>3, <1>4

(* The sum of nothing is 0. *)
LEMMA SumEmpty ==
    ASSUME NEW f
    PROVE  SumFunctionOnSet(f, {}) = 0
<1>1. IsFiniteSet({})
  BY FS_EmptySet
<1>2. PICK g : Totals(g, f, {})
  BY <1>1, TotalsExist
<1>3. g[{}] = 0
  BY <1>2 DEF Totals
<1> QED
  BY <1>1, <1>2, <1>3, SumIsTotal

(* What the recursion says of the element it picks. *)
LEMMA SumPick ==
    ASSUME NEW S, IsFiniteSet(S), S # {}, NEW f
    PROVE  SumFunctionOnSet(f, S) = f[Pick(S)] + SumFunctionOnSet(f, S \ {Pick(S)})
<1>1. PICK g : Totals(g, f, S)
  BY TotalsExist
<1>2. g[S] = f[Pick(S)] + g[S \ {Pick(S)}]
  BY <1>1 DEF Totals
<1> QED
  BY <1>1, <1>2, SumIsTotal

(* Sums of integers are integers. *)
LEMMA SumType ==
    ASSUME NEW S, IsFiniteSet(S), NEW f, \A x \in S : f[x] \in Int
    PROVE  SumFunctionOnSet(f, S) \in Int
<1> DEFINE Bad == {s \in SUBSET S : SumFunctionOnSet(f, s) \notin Int}
<1> SUFFICES ASSUME Bad # {} PROVE FALSE
  OBVIOUS
<1>1. PICK s \in Bad : \A t \in Bad : t \subseteq s => t = s
  <2>1. Bad \subseteq SUBSET S
    OBVIOUS
  <2> HIDE DEF Bad
  <2> QED
    BY <2>1, Smallest
<1>2. s # {} /\ IsFiniteSet(s)
  <2>1. IsFiniteSet(s)
    BY FS_Subset
  <2>2. SumFunctionOnSet(f, {}) = 0
    BY SumEmpty
  <2> QED
    BY <2>1, <2>2
<1>3. Pick(s) \in s
  BY <1>2 DEF Pick
<1>4. SumFunctionOnSet(f, s \ {Pick(s)}) \in Int
  BY <1>1, <1>3
<1>5. SumFunctionOnSet(f, s) = f[Pick(s)] + SumFunctionOnSet(f, s \ {Pick(s)})
  BY <1>2, SumPick
<1>6. f[Pick(s)] \in Int
  BY <1>3
<1> QED
  BY <1>4, <1>5, <1>6

(* Taking out one element takes out its value, whichever the element. *)
LEMMA SumRemove ==
    ASSUME NEW S, IsFiniteSet(S), NEW f, \A x \in S : f[x] \in Int, NEW a \in S
    PROVE  SumFunctionOnSet(f, S) = f[a] + SumFunctionOnSet(f, S \ {a})
<1> DEFINE Bad == {s \in SUBSET S :
                     \E x \in s : SumFunctionOnSet(f, s) # f[x] + SumFunctionOnSet(f, s \ {x})}
<1> SUFFICES ASSUME Bad # {} PROVE FALSE
  OBVIOUS
<1>1. PICK s \in Bad : \A t \in Bad : t \subseteq s => t = s
  <2>1. Bad \subseteq SUBSET S
    OBVIOUS
  <2> HIDE DEF Bad
  <2> QED
    BY <2>1, Smallest
<1>2. PICK x \in s : SumFunctionOnSet(f, s) # f[x] + SumFunctionOnSet(f, s \ {x})
  OBVIOUS
<1> DEFINE c == Pick(s)
           r == s \ {x}
           q == s \ {c}
           p == s \ {c, x}
<1>3. c \in s /\ IsFiniteSet(s) /\ IsFiniteSet(p)
  BY FS_Subset DEF Pick
<1>4. SumFunctionOnSet(f, s) = f[c] + SumFunctionOnSet(f, q)
  BY <1>3, SumPick
<1>5. c # x
  BY <1>2, <1>4
<1> HIDE DEF c
<1>6. SumFunctionOnSet(f, q) = f[x] + SumFunctionOnSet(f, p)
  <2>1. q \notin Bad /\ x \in q /\ q \ {x} = p /\ q \in SUBSET S
    BY <1>1, <1>3, <1>5
  <2> QED
    BY <2>1
<1>7. SumFunctionOnSet(f, r) = f[c] + SumFunctionOnSet(f, p)
  <2>1. r \notin Bad /\ c \in r /\ r \ {c} = p /\ r \in SUBSET S
    BY <1>1, <1>3, <1>5
  <2> QED
    BY <2>1
<1>8. SumFunctionOnSet(f, p) \in Int /\ f[c] \in Int /\ f[x] \in Int
  BY <1>3, SumType
<1> QED
  BY <1>2, <1>4, <1>6, <1>7, <1>8

(* Functions that are equal on a set have the same sum over it. *)
LEMMA SumSame ==
    ASSUME NEW S, IsFiniteSet(S), NEW f, NEW g, \A x \in S : f[x] = g[x]
    PROVE  SumFunctionOnSet(f, S) = SumFunctionOnSet(g, S)
<1> DEFINE Bad == {s \in SUBSET S : SumFunctionOnSet(f, s) # SumFunctionOnSet(g, s)}
<1> SUFFICES ASSUME Bad # {} PROVE FALSE
  OBVIOUS
<1>1. PICK s \in Bad : \A t \in Bad : t \subseteq s => t = s
  <2>1. Bad \subseteq SUBSET S
    OBVIOUS
  <2> HIDE DEF Bad
  <2> QED
    BY <2>1, Smallest
<1>2. s # {} /\ IsFiniteSet(s)
  BY SumEmpty, FS_Subset
<1>3. Pick(s) \in s
  BY <1>2 DEF Pick
<1>4. SumFunctionOnSet(f, s \ {Pick(s)}) = SumFunctionOnSet(g, s \ {Pick(s)})
  BY <1>1, <1>3
<1> QED
  BY <1>2, <1>3, <1>4, SumPick

(* When one value of a function moves by n, so does the sum. *)
LEMMA SumChange ==
    ASSUME NEW S, IsFiniteSet(S), NEW f, NEW g, NEW a \in S, NEW n \in Int,
           \A x \in S : f[x] \in Int, g[a] = f[a] + n,
           \A x \in S \ {a} : g[x] = f[x]
    PROVE  SumFunctionOnSet(g, S) = SumFunctionOnSet(f, S) + n
<1>1. IsFiniteSet(S \ {a})
  BY FS_Subset
<1>2. SumFunctionOnSet(g, S \ {a}) = SumFunctionOnSet(f, S \ {a})
  BY <1>1, SumSame
<1>3. /\ SumFunctionOnSet(f, S) = f[a] + SumFunctionOnSet(f, S \ {a})
      /\ SumFunctionOnSet(g, S) = g[a] + SumFunctionOnSet(g, S \ {a})
  BY SumRemove
<1>4. SumFunctionOnSet(f, S \ {a}) \in Int
  BY <1>1, SumType
<1> QED
  BY <1>2, <1>3, <1>4

(* A sum of values that are not negative is not negative. *)
LEMMA SumNatural ==
    ASSUME NEW S, IsFiniteSet(S), NEW f, \A x \in S : f[x] \in Nat
    PROVE  SumFunctionOnSet(f, S) \in Nat
<1> DEFINE Bad == {s \in SUBSET S : SumFunctionOnSet(f, s) \notin Nat}
<1> SUFFICES ASSUME Bad # {} PROVE FALSE
  OBVIOUS
<1>1. PICK s \in Bad : \A t \in Bad : t \subseteq s => t = s
  <2>1. Bad \subseteq SUBSET S
    OBVIOUS
  <2> HIDE DEF Bad
  <2> QED
    BY <2>1, Smallest
<1>2. s # {} /\ IsFiniteSet(s)
  <2>1. IsFiniteSet(s)
    BY FS_Subset
  <2>2. SumFunctionOnSet(f, {}) = 0
    BY SumEmpty
  <2> QED
    BY <2>1, <2>2
<1>3. Pick(s) \in s
  BY <1>2 DEF Pick
<1>4. SumFunctionOnSet(f, s \ {Pick(s)}) \in Nat
  BY <1>1, <1>3
<1>5. SumFunctionOnSet(f, s) = f[Pick(s)] + SumFunctionOnSet(f, s \ {Pick(s)})
  BY <1>2, SumPick
<1>6. f[Pick(s)] \in Nat
  BY <1>3
<1> QED
  BY <1>4, <1>5, <1>6

(* A sum of zeros is 0. *)
LEMMA SumZero ==
    ASSUME NEW S, IsFiniteSet(S), NEW f, \A x \in S : f[x] = 0
    PROVE  SumFunctionOnSet(f, S) = 0
<1> DEFINE Bad == {s \in SUBSET S : SumFunctionOnSet(f, s) # 0}
<1> SUFFICES ASSUME Bad # {} PROVE FALSE
  OBVIOUS
<1>1. PICK s \in Bad : \A t \in Bad : t \subseteq s => t = s
  <2>1. Bad \subseteq SUBSET S
    OBVIOUS
  <2> HIDE DEF Bad
  <2> QED
    BY <2>1, Smallest
<1>2. s # {} /\ IsFiniteSet(s)
  BY SumEmpty, FS_Subset
<1>3. Pick(s) \in s
  BY <1>2 DEF Pick
<1>4. SumFunctionOnSet(f, s \ {Pick(s)}) = 0
  BY <1>1, <1>3
<1>5. SumFunctionOnSet(f, s) = f[Pick(s)] + SumFunctionOnSet(f, s \ {Pick(s)})
  BY <1>2, SumPick
<1> QED
  BY <1>3, <1>4, <1>5

-----------------------------------------------------------------------------
(* The names an attempt is made of are in the sets they come from. *)
LEMMA AttemptTypes ==
    ASSUME NEW a \in Attempts
    PROVE  /\ a = <<a[1], a[2]>>
           /\ a[1] \in Requests
           /\ a[2] \in 1..MaxAttempts
           /\ Token(a) \in Tokens
           /\ User(a) \in Users
           /\ Cost(a) \in Nat
BY BillingAssumption DEF Attempts, Token, User, Cost

(* What a call that saves a row leaves in the columns has their types. *)
LEMMA SaveTypes ==
    ASSUME TypeOK, NEW s \in Saves, SaveStep(s)
    PROVE  TypeOK'
<1> USE DEF TypeOK, Copies, SavePCs, holdVars, worthVars
<1>1. /\ RowOf[s] \in Rows /\ (RowOf[s] \in Users \/ RowOf[s] \in Tokens)
      /\ RowOf[s] \in Users => RowOf[s] \notin Tokens
      /\ Edits \subseteq Int
  BY BillingAssumption DEF Rows
<1>2. /\ copy[s].quota \in Int /\ copy[s].used \in Nat /\ copy[s].count \in Nat
      /\ copy[s] \in Copies
  OBVIOUS
<1>3. NoCopy \in Copies
  BY DEF NoCopy
<1>4. ASSUME NEW n \in Int, UpdateUserRow(s, n)
      PROVE  /\ userQuota' \in [Users -> Int] /\ usedQuota' \in [Users -> Nat]
             /\ requestCount' \in [Users -> Nat] /\ overtaken' \subseteq Saves
  BY <1>2, <1>4 DEF UpdateUserRow, NonZero, Behind
<1>5. ASSUME NEW n \in Int, UpdateTokenRow(s, n)
      PROVE  remainQuota' \in [Tokens -> Int] /\ overtaken' \subseteq Saves
  BY <1>5 DEF UpdateTokenRow, Behind
<1>6. ASSUME Finish(s)
      PROVE  saveAt' \in [Saves -> SavePCs] /\ copy' \in [Saves -> Copies]
  BY <1>3, <1>6 DEF Finish
<1>7. ASSUME Revalue(RowOf[s]), undone' \in [Rows -> Int], funded' \in [Rows -> Int]
      PROVE  ceiling' \in [Users -> Int]
  BY <1>1, <1>7 DEF Revalue
<1>8. CASE ReadUserRow(s)
  BY <1>8 DEF ReadUserRow
<1>9. CASE ReadTokenRow(s)
  <2>1. remainQuota[RowOf[s]] \in Int
    BY <1>9 DEF ReadTokenRow
  <2>2. copy' = [copy EXCEPT ![s].quota = remainQuota[RowOf[s]]]
    BY <1>9 DEF ReadTokenRow
  <2>3. copy' \in [Saves -> Copies]
    BY <1>2, <2>1, <2>2
  <2> QED
    BY <1>9, <2>3 DEF ReadTokenRow
<1>10. CASE WriteBackUser(s)
  <2>1. userQuota' \in [Users -> Int] /\ RowOf[s] \in Users /\ UpdateUserRow(s, copy[s].quota)
    BY <1>2, <1>4, <1>10 DEF WriteBackUser, UpdateUserRow
  <2>2. userQuota'[RowOf[s]] - userQuota[RowOf[s]] \in Int
    BY <2>1
  <2>3. undone' \in [Rows -> Int] /\ funded' \in [Rows -> Int]
    BY <1>1, <1>10, <2>2 DEF WriteBackUser
  <2>4. saveAt' \in [Saves -> SavePCs] /\ copy' \in [Saves -> Copies]
    BY <1>6, <1>10 DEF WriteBackUser
  <2>5. ceiling' \in [Users -> Int]
    BY <1>7, <1>10, <2>3 DEF WriteBackUser
  <2> QED
    BY <1>2, <1>4, <2>1, <2>3, <2>4, <2>5 DEF UpdateUserRow
<1>11. CASE EditUser(s)
  <2>1. PICK n \in Edits : UpdateUserRow(s, n)
    BY <1>11 DEF EditUser
  <2>2. userQuota' \in [Users -> Int] /\ RowOf[s] \in Users
    BY <1>1, <1>4, <2>1 DEF UpdateUserRow
  <2>3. userQuota'[RowOf[s]] - userQuota[RowOf[s]] \in Int
    BY <2>2
  <2>4. undone' \in [Rows -> Int] /\ funded' \in [Rows -> Int]
    BY <1>1, <1>11, <2>3 DEF EditUser
  <2>5. saveAt' \in [Saves -> SavePCs] /\ copy' \in [Saves -> Copies]
    BY <1>6, <1>11 DEF EditUser
  <2>6. ceiling' \in [Users -> Int]
    BY <1>7, <1>11, <2>4 DEF EditUser
  <2> QED
    BY <1>1, <1>4, <2>1, <2>4, <2>5, <2>6 DEF UpdateUserRow
<1>12. CASE WriteBackToken(s)
  <2>1. remainQuota' \in [Tokens -> Int] /\ RowOf[s] \in Tokens /\ UpdateTokenRow(s, copy[s].quota)
    BY <1>2, <1>5, <1>12 DEF WriteBackToken, UpdateTokenRow
  <2>2. remainQuota'[RowOf[s]] - remainQuota[RowOf[s]] \in Int
    BY <2>1
  <2>3. undone' \in [Rows -> Int] /\ funded' \in [Rows -> Int]
    BY <1>1, <1>12, <2>2 DEF WriteBackToken
  <2> QED
    BY <1>2, <1>5, <1>6, <2>1, <2>3 DEF UpdateTokenRow
<1>13. CASE EditToken(s)
  <2>1. PICK n \in Edits : UpdateTokenRow(s, n)
    BY <1>13 DEF EditToken
  <2>2. remainQuota' \in [Tokens -> Int] /\ RowOf[s] \in Tokens
    BY <1>1, <1>5, <2>1 DEF UpdateTokenRow
  <2>3. remainQuota'[RowOf[s]] - remainQuota[RowOf[s]] \in Int
    BY <2>2
  <2>4. undone' \in [Rows -> Int] /\ funded' \in [Rows -> Int]
    BY <1>1, <1>13, <2>3 DEF EditToken
  <2> QED
    BY <1>1, <1>5, <1>6, <2>1, <2>4 DEF UpdateTokenRow
<1> QED
  BY <1>8, <1>9, <1>10, <1>11, <1>12, <1>13 DEF SaveStep

(* Every variable keeps the type of the column, key or local it stands for. *)
THEOREM TypeCorrect == Spec => []TypeOK
<1> USE DEF TypeOK, PCs, Answers
<1>1. Init => TypeOK
  BY BillingAssumption DEF Init, SavePCs, Copies, NoCopy, Rows
<1>2. TypeOK /\ [Next]_vars => TypeOK'
  <2> SUFFICES ASSUME TypeOK, [Next]_vars PROVE TypeOK'
    OBVIOUS
  <2> USE DEF dbVars, holdVars, saveVars, worthVars, Goto, Respond
  <2>1. ASSUME NEW a \in Attempts, StartAttempt(a) \/ SkipAttempt(a)
        PROVE  TypeOK'
    BY <2>1 DEF StartAttempt, SkipAttempt
  <2>2. ASSUME NEW a \in Attempts, PreConsumeStep(a)
        PROVE  TypeOK'
    <3> USE AttemptTypes DEF Reject, Failures
    <3>1. CASE CheckTokenQuotaSufficient(a) \/ CheckBudget(a)
      <4>1. PICK l \in PCs : pc' = [pc EXCEPT ![a] = l]
        BY <3>1 DEF CheckTokenQuotaSufficient, CheckBudget
      <4>2. pc' \in [Attempts -> PCs]
        BY <4>1
      <4>3. PICK k \in Answers : answer' = answer \/ answer' = [answer EXCEPT ![a] = k]
        BY <3>1 DEF CheckTokenQuotaSufficient, CheckBudget
      <4>4. answer' \in [Attempts -> Answers]
        BY <4>3
      <4> QED
        BY <3>1, <4>2, <4>4 DEF CheckTokenQuotaSufficient, CheckBudget
    <3>2. CASE CacheGetUserQuota(a)
      <4>1. User(a) \in Users
        OBVIOUS
      <4>2. CacheHit(User(a)) => cache[User(a)] \in Int
        BY <4>1 DEF CacheHit
      <4>3. seen' \in [Attempts -> Int]
        BY <3>2, <4>1, <4>2 DEF CacheGetUserQuota
      <4>4. PICK l \in PCs : pc' = [pc EXCEPT ![a] = l]
        BY <3>2 DEF CacheGetUserQuota, Compare
      <4>5. pc' \in [Attempts -> PCs]
        BY <4>4
      <4>6. PICK k \in Answers : answer' = answer \/ answer' = [answer EXCEPT ![a] = k]
        BY <3>2 DEF CacheGetUserQuota, Compare
      <4>7. answer' \in [Attempts -> Answers]
        BY <4>6
      <4> QED
        BY <3>2, <4>3, <4>5, <4>7 DEF CacheGetUserQuota
    <3>3. CASE FillCache(a)
      <4>1. cache' \in [Users -> Int \cup {NoKey}]
        BY <3>3 DEF FillCache
      <4>2. PICK l \in PCs : pc' = [pc EXCEPT ![a] = l]
        BY <3>3 DEF FillCache, Compare
      <4>3. pc' \in [Attempts -> PCs]
        BY <4>2
      <4>4. PICK k \in Answers : answer' = answer \/ answer' = [answer EXCEPT ![a] = k]
        BY <3>3 DEF FillCache, Compare
      <4>5. answer' \in [Attempts -> Answers]
        BY <4>4
      <4> QED
        BY <3>3, <4>1, <4>3, <4>5 DEF FillCache
    <3>4. CASE CacheDecreaseUserQuota(a)
      <4>1. Decremented(cache[User(a)], Cost(a)) \in Int
        BY DEF Decremented
      <4>2. cache' \in [Users -> Int \cup {NoKey}]
        <5>1. User(a) \in Users
          OBVIOUS
        <5>2. CASE RedisEnabled
          BY <3>4, <4>1, <5>1, <5>2 DEF CacheDecreaseUserQuota
        <5>3. CASE ~RedisEnabled
          BY <3>4, <5>3 DEF CacheDecreaseUserQuota
        <5> QED
          BY <5>2, <5>3
      <4>3. pre' \in [Attempts -> Nat] /\ pc' \in [Attempts -> PCs]
        <5>1. Cost(a) \in Nat
          OBVIOUS
        <5>2. PICK n \in Nat : pre' = [pre EXCEPT ![a] = n]
          BY <3>4, <5>1 DEF CacheDecreaseUserQuota
        <5>3. PICK l \in PCs : pc' = [pc EXCEPT ![a] = l]
          BY <3>4 DEF CacheDecreaseUserQuota
        <5> QED
          BY <5>2, <5>3
      <4> QED
        BY <3>4, <4>2, <4>3 DEF CacheDecreaseUserQuota
    <3>5. CASE CacheDecreaseFails(a) \/ PreConsumeFails(a)
      <4>1. PICK l \in PCs : pc' = [pc EXCEPT ![a] = l]
        BY <3>5 DEF CacheDecreaseFails, PreConsumeFails
      <4>2. pc' \in [Attempts -> PCs]
        BY <4>1
      <4>3. PICK k \in Answers : answer' = answer \/ answer' = [answer EXCEPT ![a] = k]
        BY <3>5 DEF CacheDecreaseFails, PreConsumeFails
      <4>4. answer' \in [Attempts -> Answers]
        BY <4>3
      <4> QED
        BY <3>5, <4>2, <4>4 DEF CacheDecreaseFails, PreConsumeFails
    <3>6. CASE PreConsumeCheckToken(a) \/ PreConsumeCheckUser(a)
      <4>1. PICK l \in PCs : pc' = [pc EXCEPT ![a] = l]
        BY <3>6 DEF PreConsumeCheckToken, PreConsumeCheckUser
      <4>2. pc' \in [Attempts -> PCs]
        BY <4>1
      <4>3. PICK k \in Answers : answer' = answer \/ answer' = [answer EXCEPT ![a] = k]
        BY <3>6 DEF PreConsumeCheckToken, PreConsumeCheckUser
      <4>4. answer' \in [Attempts -> Answers]
        BY <4>3
      <4> QED
        BY <3>6, <4>2, <4>4 DEF PreConsumeCheckToken, PreConsumeCheckUser
    <3>7. CASE PreConsumeFromToken(a)
      <4>1. pre[a] \in Nat /\ Token(a) \in Tokens /\ overtaken' \subseteq Saves
        BY <3>7 DEF PreConsumeFromToken, TakeFromToken, Behind
      <4>2. /\ remainQuota' \in [Tokens -> Int] /\ tokenUsed' \in [Tokens -> Int]
            /\ tokenHeld' \in [Attempts -> Int]
        BY <3>7, <4>1 DEF PreConsumeFromToken, TakeFromToken
      <4> QED
        BY <3>7, <4>1, <4>2 DEF PreConsumeFromToken
    <3>8. CASE PreConsumeFromUser(a)
      <4>1. pre[a] \in Nat /\ User(a) \in Users /\ overtaken' \subseteq Saves
        BY <3>8 DEF PreConsumeFromUser, TakeFromUser, Behind
      <4>2. userQuota' \in [Users -> Int] /\ userHeld' \in [Attempts -> Int]
        BY <3>8, <4>1 DEF PreConsumeFromUser, TakeFromUser
      <4> QED
        BY <3>8, <4>1, <4>2 DEF PreConsumeFromUser
    <3> QED
      BY <2>2, <3>1, <3>2, <3>3, <3>4, <3>5, <3>6, <3>7, <3>8 DEF PreConsumeStep
  <2>3. ASSUME NEW a \in Attempts, RelayStep(a)
        PROVE  TypeOK'
    BY <2>3, BillingAssumption
    DEF RelayStep, LocalError, ProviderError, ProviderAnswers,
        ProviderAnswersWithoutUsage, Failures
  <2>4. ASSUME NEW a \in Attempts, PostConsumeStep(a)
        PROVE  TypeOK'
    <3> USE AttemptTypes DEF AfterPost, AfterUser, Delta
    <3>1. CASE PostConsumeReadToken(a) \/ PostConsumeUserFails(a)
               \/ PostConsumeTokenFails(a)
      BY <3>1 DEF PostConsumeReadToken, PostConsumeUserFails, PostConsumeTokenFails
    <3>2. CASE PostConsumeUser(a)
      BY <3>2 DEF PostConsumeUser, TakeFromUser, Behind
    <3>3. CASE PostConsumeToken(a)
      BY <3>3 DEF PostConsumeToken, TakeFromToken, Behind
    <3>4. CASE CacheUpdateRead(a)
      <4>1. User(a) \in Users
        OBVIOUS
      <4>2. CacheHit(User(a)) => cache[User(a)] \in Int
        BY <4>1 DEF CacheHit
      <4>3. seen' \in [Attempts -> Int]
        BY <3>4, <4>1, <4>2 DEF CacheUpdateRead
      <4> QED
        BY <3>4, <4>3 DEF CacheUpdateRead
    <3>5. CASE CacheUpdateFill(a) \/ CacheUpdateStore(a)
      BY <3>5 DEF CacheUpdateFill, CacheUpdateStore
    <3>6. CASE BookUsage(a)
      BY <3>6 DEF BookUsage
    <3> QED
      BY <2>4, <3>1, <3>2, <3>3, <3>4, <3>5, <3>6 DEF PostConsumeStep
  <2>5. CASE Environment
    <3>1. ASSUME NEW u \in Users, TopUp(u) PROVE TypeOK'
      <4>1. PICK n \in TopUps : /\ userQuota' = [userQuota EXCEPT ![u] = @ + n]
                                /\ funded' = [funded EXCEPT ![u] = @ + n]
        BY <3>1 DEF TopUp
      <4>2. u \in Rows /\ n \in Nat
        BY BillingAssumption DEF Rows
      <4>3. /\ userQuota' \in [Users -> Int] /\ funded' \in [Rows -> Int]
            /\ undone' \in [Rows -> Int]
        BY <3>1, <4>1, <4>2 DEF TopUp
      <4>4. ceiling' \in [Users -> Int] /\ overtaken' \subseteq Saves
        BY <3>1, <4>2, <4>3 DEF TopUp, Revalue, Behind
      <4> QED
        BY <3>1, <4>3, <4>4 DEF TopUp
    <3> QED
      BY <2>5, <3>1, SaveTypes DEF Environment, ExpireCache, DeleteToken
  <2>6. CASE UNCHANGED vars
    BY <2>6 DEF vars
  <2> QED
    BY <2>1, <2>2, <2>3, <2>4, <2>5, <2>6 DEF Next, AttemptStep
<1> QED
  BY <1>1, <1>2, PTL DEF Spec

-----------------------------------------------------------------------------
(***************************************************************************)
(* What an attempt holds, by where it is.  OutcomeDecidesCharge and        *)
(* ProviderCallIsCovered speak of two places only and are not inductive;   *)
(* this invariant follows the hold through every step between them.        *)
(***************************************************************************)
Unanswered == {"idle", "cap", "budget", "quota", "fill", "decrease",
               "pre", "preUser", "preToken", "preTake", "relay"}
Checking   == {"pre", "preUser", "preToken"}
Untouched  == (Unanswered \ {"preTake", "relay"}) \cup {"skipped"}
Holding    == {"relay", "forfeited", "post", "postUser"}
Answered   == {"refresh", "refill", "store", "book", "billed"}
Adjusted   == Answered \cup {"refunded"}

Owed(a) == IF answer[a] = "ok" THEN bill[a] ELSE 0

Limited(a) == Token(a) \notin Unlimited

\* The limited token, if it still exists, has paid what the user has.
TokenCovered(a) == Limited(a) /\ Token(a) \in alive => tokenHeld[a] = pre[a]

UserCharged(a) ==
    /\ userHeld[a] = IF "user" \in posted[a] THEN Owed(a) ELSE pre[a]
    /\ ~DbFaults /\ Token(a) \in alive => userHeld[a] = Owed(a)

HoldInv(a) ==
    /\ tokenHeld[a] >= 0
    /\ Limited(a) \/ tokenHeld[a] = 0
    /\ pc[a] \in Untouched => userHeld[a] = 0 /\ tokenHeld[a] = 0
    /\ pc[a] \in Checking \cup {"preTake"} => pre[a] = Cost(a) /\ pre[a] > 0
    /\ pc[a] = "preTake" => userHeld[a] = 0
    /\ pc[a] \in Holding \cup {"preTake", "postToken"} => TokenCovered(a)
    /\ pc[a] \in Holding => userHeld[a] = pre[a]
    /\ pc[a] = "relay" => pre[a] = Cost(a) \/ Trusted(a) \/ Cost(a) = 0
    /\ pc[a] \in {"preToken", "postToken"} => Limited(a)
    /\ pc[a] = "rejected" => userHeld[a] = 0 /\ (DbFaults \/ tokenHeld[a] = 0)
    /\ pc[a] \in Adjusted \cup {"postToken"} => UserCharged(a)
    /\ pc[a] \in Adjusted /\ Limited(a) /\ Token(a) \in alive /\ ~DbFaults =>
          tokenHeld[a] = Owed(a)

\* The answer and the adjusted rows, by where the attempt is.
AnswerInv(a) ==
    /\ pc[a] \in Unanswered \cup {"rejected", "skipped"} => posted[a] = {}
    /\ pc[a] \in Unanswered => answer[a] = "none" /\ bill[a] = 0
    /\ pc[a] \in Answered => answer[a] = "ok"
    /\ pc[a] \in {"rejected", "skipped", "refunded"} => answer[a] \in {"retry", "stop"}
    /\ pc[a] \notin Unanswered => answer[a] # "none"
    /\ pc[a] \in {"forfeited", "post", "postUser"} => posted[a] = {}
    /\ pc[a] \in {"post", "postUser"} /\ answer[a] # "ok" => pre[a] > 0
    /\ pc[a] \in {"post", "postUser"} /\ answer[a] = "ok" => bill[a] \in Bills

BillingInv == \A a \in Attempts : HoldInv(a) /\ AnswerInv(a)

Same(b) ==
    /\ pc'[b] = pc[b]
    /\ answer'[b] = answer[b]
    /\ pre'[b] = pre[b]
    /\ seen'[b] = seen[b]
    /\ bill'[b] = bill[b]
    /\ userHeld'[b] = userHeld[b]
    /\ tokenHeld'[b] = tokenHeld[b]
    /\ posted'[b] = posted[b]

(* A step of one attempt leaves every other attempt, the tokens and the calls *)
(* that save a row alone.                                                     *)
LEMMA StepIsLocal ==
    ASSUME TypeOK, NEW a \in Attempts, AttemptStep(a)
    PROVE  /\ alive' = alive
           /\ UNCHANGED <<saveVars, worthVars>>
           /\ \A b \in Attempts \ {a} : Same(b)
<1> USE DEF TypeOK, Same, dbVars, holdVars, Goto, Respond, Reject
<1>1. CASE StartAttempt(a) \/ SkipAttempt(a)
  BY <1>1 DEF StartAttempt, SkipAttempt
<1>2. CASE PreConsumeStep(a)
  <2>1. CASE CheckTokenQuotaSufficient(a) \/ CheckBudget(a)
    BY <2>1 DEF CheckTokenQuotaSufficient, CheckBudget
  <2>2. CASE CacheGetUserQuota(a) \/ FillCache(a)
    BY <2>2 DEF CacheGetUserQuota, FillCache, Compare
  <2>3. CASE CacheDecreaseUserQuota(a) \/ CacheDecreaseFails(a) \/ PreConsumeFails(a)
    BY <2>3 DEF CacheDecreaseUserQuota, CacheDecreaseFails, PreConsumeFails
  <2>4. CASE PreConsumeCheckToken(a) \/ PreConsumeCheckUser(a)
    BY <2>4 DEF PreConsumeCheckToken, PreConsumeCheckUser
  <2>5. CASE PreConsumeFromToken(a) \/ PreConsumeFromUser(a)
    BY <2>5 DEF PreConsumeFromToken, PreConsumeFromUser, TakeFromToken, TakeFromUser
  <2> QED
    BY <1>2, <2>1, <2>2, <2>3, <2>4, <2>5 DEF PreConsumeStep
<1>3. CASE RelayStep(a)
  BY <1>3 DEF RelayStep, LocalError, ProviderError, ProviderAnswers,
              ProviderAnswersWithoutUsage
<1>4. CASE PostConsumeStep(a)
  <2>1. CASE PostConsumeReadToken(a) \/ PostConsumeUserFails(a)
             \/ PostConsumeTokenFails(a)
    BY <2>1 DEF PostConsumeReadToken, PostConsumeUserFails, PostConsumeTokenFails
  <2>2. CASE PostConsumeUser(a) \/ PostConsumeToken(a)
    BY <2>2 DEF PostConsumeUser, PostConsumeToken, TakeFromUser, TakeFromToken
  <2>3. CASE CacheUpdateRead(a) \/ CacheUpdateFill(a) \/ CacheUpdateStore(a)
             \/ BookUsage(a)
    BY <2>3 DEF CacheUpdateRead, CacheUpdateFill, CacheUpdateStore, BookUsage
  <2> QED
    BY <1>4, <2>1, <2>2, <2>3 DEF PostConsumeStep
<1> QED
  BY <1>1, <1>2, <1>3, <1>4 DEF AttemptStep

(* A call that saves a row knows nothing of the attempts. *)
LEMMA SaveSpares ==
    ASSUME NEW s \in Saves, SaveStep(s)
    PROVE  /\ UNCHANGED <<pc, answer, pre, seen, bill, holdVars>>
           /\ UNCHANGED <<alive, tokenUsed, cache, topUps>>
BY DEF SaveStep, ReadUserRow, WriteBackUser, EditUser, ReadTokenRow, WriteBackToken,
       EditToken, UpdateUserRow, UpdateTokenRow

(* What an untouched attempt satisfies it keeps, also if tokens are deleted. *)
LEMMA SameKeeps ==
    ASSUME NEW b \in Attempts, Same(b), alive' \subseteq alive,
           HoldInv(b), AnswerInv(b)
    PROVE  HoldInv(b)' /\ AnswerInv(b)'
BY DEF Same, HoldInv, AnswerInv, TokenCovered, UserCharged, Owed, Trusted,
       Limited, Token, Cost

(* The step that an attempt itself takes keeps its part of the invariant. *)
LEMMA StepKeeps ==
    ASSUME TypeOK, TypeOK', NEW a \in Attempts, AttemptStep(a),
           HoldInv(a), AnswerInv(a)
    PROVE  HoldInv(a)' /\ AnswerInv(a)'
<1>1. /\ Cost(a) \in Nat /\ Cost(a)' = Cost(a)
      /\ Token(a)' = Token(a)
      /\ alive' = alive
  BY AttemptTypes, StepIsLocal DEF Cost, Token
<1>2. /\ pc[a] \in PCs /\ answer[a] \in Answers /\ posted[a] \in SUBSET {"user", "token"}
      /\ pre[a] \in Nat /\ bill[a] \in Nat /\ seen[a] \in Int
      /\ userHeld[a] \in Int /\ tokenHeld[a] \in Int
  BY DEF TypeOK
<1> USE <1>1, <1>2 DEF TypeOK, HoldInv, AnswerInv, TokenCovered, UserCharged, Owed,
        Trusted, Limited, PCs, Answers, Unanswered, Checking, Untouched, Holding,
        Answered, Adjusted, Goto, Respond, Reject, Failures, dbVars, holdVars
<1>3. CASE StartAttempt(a) \/ SkipAttempt(a)
  BY <1>3 DEF StartAttempt, SkipAttempt
<1>4. CASE CheckTokenQuotaSufficient(a)
  BY <1>4 DEF CheckTokenQuotaSufficient
<1>5. CASE CheckBudget(a)
  BY <1>5 DEF CheckBudget
<1>6. CASE CacheGetUserQuota(a)
  BY <1>6 DEF CacheGetUserQuota, Compare
<1>7. CASE FillCache(a)
  BY <1>7 DEF FillCache, Compare
<1>8. CASE CacheDecreaseUserQuota(a)
  BY <1>8 DEF CacheDecreaseUserQuota, Trusted
<1>9. CASE CacheDecreaseFails(a)
  BY <1>9 DEF CacheDecreaseFails
<1>10. CASE PreConsumeCheckToken(a)
  BY <1>10 DEF PreConsumeCheckToken
<1>11. CASE PreConsumeCheckUser(a)
  BY <1>11 DEF PreConsumeCheckUser
<1>12. CASE PreConsumeFromToken(a)
  BY <1>12 DEF PreConsumeFromToken, TakeFromToken
<1>13. CASE PreConsumeFromUser(a)
  BY <1>13 DEF PreConsumeFromUser, TakeFromUser
<1>14. CASE PreConsumeFails(a)
  BY <1>14 DEF PreConsumeFails
<1>15. CASE LocalError(a)
  BY <1>15 DEF LocalError
<1>16. CASE ProviderError(a)
  BY <1>16 DEF ProviderError
<1>17. CASE ProviderAnswers(a)
  BY <1>17 DEF ProviderAnswers
<1>18. CASE ProviderAnswersWithoutUsage(a)
  BY <1>18 DEF ProviderAnswersWithoutUsage
<1>19. CASE PostConsumeReadToken(a)
  BY <1>19 DEF PostConsumeReadToken, AfterPost
<1>20. CASE PostConsumeUser(a)
  BY <1>20 DEF PostConsumeUser, TakeFromUser, Delta, AfterUser, AfterPost
<1>21. CASE PostConsumeUserFails(a)
  BY <1>21 DEF PostConsumeUserFails, AfterUser, AfterPost
<1>22. CASE PostConsumeToken(a)
  <2> USE <1>22 DEF PostConsumeToken, TakeFromToken, Delta, AfterPost
  <2>1. tokenHeld'[a] = IF Token(a) \in alive THEN tokenHeld[a] + Owed(a) - pre[a]
                                              ELSE tokenHeld[a]
    OBVIOUS
  <2>2. Owed(a) \in Nat /\ Owed(a)' = Owed(a)
    OBVIOUS
  <2>3. Limited(a)
    OBVIOUS
  <2>4. HoldInv(a)'
    BY <2>1, <2>2, <2>3
  <2>5. AnswerInv(a)'
    OBVIOUS
  <2> QED
    BY <2>4, <2>5
<1>23. CASE PostConsumeTokenFails(a)
  BY <1>23 DEF PostConsumeTokenFails, AfterPost
<1>24. CASE CacheUpdateRead(a)
  BY <1>24 DEF CacheUpdateRead
<1>25. CASE CacheUpdateFill(a)
  BY <1>25 DEF CacheUpdateFill
<1>26. CASE CacheUpdateStore(a)
  BY <1>26 DEF CacheUpdateStore
<1>27. CASE BookUsage(a)
  BY <1>27 DEF BookUsage
<1> QED
  BY <1>3, <1>4, <1>5, <1>6, <1>7, <1>8, <1>9, <1>10, <1>11, <1>12, <1>13, <1>14, <1>15,
     <1>16, <1>17, <1>18, <1>19, <1>20, <1>21, <1>22, <1>23, <1>24, <1>25, <1>26, <1>27
  DEF AttemptStep, PreConsumeStep, RelayStep, PostConsumeStep

(* BillingInv is inductive relative to the types. *)
THEOREM BillingInvHolds == Spec => []BillingInv
<1>1. Init => BillingInv
  <2> SUFFICES ASSUME Init, NEW a \in Attempts PROVE HoldInv(a) /\ AnswerInv(a)
    BY DEF BillingInv
  <2>1. Cost(a) \in Nat
    BY AttemptTypes
  <2> QED
    BY <2>1 DEF Init, HoldInv, AnswerInv, TokenCovered, UserCharged, Unanswered,
        Checking, Untouched, Holding, Answered, Adjusted, Trusted, Owed
<1>2. TypeOK /\ TypeOK' /\ BillingInv /\ [Next]_vars => BillingInv'
  <2> SUFFICES ASSUME TypeOK, TypeOK', BillingInv, [Next]_vars, NEW b \in Attempts
               PROVE  HoldInv(b)' /\ AnswerInv(b)'
    BY DEF BillingInv
  <2>1. HoldInv(b) /\ AnswerInv(b)
    BY DEF BillingInv
  <2>2. ASSUME NEW a \in Attempts, AttemptStep(a)
        PROVE  HoldInv(b)' /\ AnswerInv(b)'
    <3>1. CASE b = a
      BY <2>1, <2>2, <3>1, StepKeeps
    <3>2. CASE b # a
      BY <2>1, <2>2, <3>2, StepIsLocal, SameKeeps
    <3> QED
      BY <3>1, <3>2
  <2>3. CASE Environment \/ UNCHANGED vars
    <3>1. Same(b) /\ alive' \subseteq alive
      BY <2>3, SaveSpares DEF Environment, TopUp, ExpireCache, DeleteToken, Same, vars,
                              dbVars, holdVars
    <3> QED
      BY <2>1, <3>1, SameKeeps
  <2> QED
    BY <2>2, <2>3 DEF Next
<1> QED
  BY <1>1, <1>2, TypeCorrect, PTL DEF Spec

(* What an attempt has cost when it is over is what its end says. *)
THEOREM OutcomeCharged == Spec => []OutcomeDecidesCharge
<1>1. TypeOK /\ BillingInv => OutcomeDecidesCharge
  <2> SUFFICES ASSUME TypeOK, BillingInv, NEW a \in Attempts,
                      pc[a] \in Ended, Token(a) \in alive, ~DbFaults
               PROVE  /\ userHeld[a] = Due(a)
                      /\ Token(a) \notin Unlimited => tokenHeld[a] = Due(a)
    BY DEF OutcomeDecidesCharge
  <2>1. HoldInv(a) /\ AnswerInv(a)
    BY DEF BillingInv
  <2> QED
    BY <2>1 DEF HoldInv, AnswerInv, TokenCovered, UserCharged, Owed, Limited, Due,
        Ended, Unanswered, Untouched, Holding, Answered, Adjusted
<1> QED
  BY <1>1, TypeCorrect, BillingInvHolds, PTL

(* No settlement or refund gives back more than the attempt was charged. *)
THEOREM NoQuotaMade == Spec => []NoRefundBeyondHold
<1>1. TypeOK /\ BillingInv => NoRefundBeyondHold
  <2> SUFFICES ASSUME TypeOK, BillingInv, NEW a \in Attempts
               PROVE  userHeld[a] >= 0 /\ tokenHeld[a] >= 0
    BY DEF NoRefundBeyondHold
  <2>1. HoldInv(a) /\ AnswerInv(a)
    BY DEF BillingInv
  <2>2. pc[a] \in PCs /\ pre[a] \in Nat /\ bill[a] \in Nat
    BY DEF TypeOK
  <2> QED
    BY <2>1, <2>2 DEF HoldInv, AnswerInv, UserCharged, Owed, PCs, Unanswered,
        Untouched, Holding, Answered, Adjusted
<1> QED
  BY <1>1, TypeCorrect, BillingInvHolds, PTL

(* Nothing reaches the provider that has not been paid for in advance. *)
THEOREM CallsCovered == Spec => []ProviderCallIsCovered
<1>1. TypeOK /\ BillingInv => ProviderCallIsCovered
  BY DEF TypeOK, BillingInv, HoldInv, ProviderCallIsCovered, TokenCovered, Limited,
         Holding
<1> QED
  BY <1>1, TypeCorrect, BillingInvHolds, PTL

-----------------------------------------------------------------------------
(***************************************************************************)
(* The retry loop.  That no two attempts of a request are answered needs   *)
(* the stronger fact that all attempts before a started one have failed.   *)
(***************************************************************************)
EarlierFailed ==
    \A a, b \in Attempts :
        a[1] = b[1] /\ a[2] < b[2] /\ pc[b] # "idle" =>
            answer[a] \in {"retry", "stop"}

(* An answer is given once. *)
LEMMA AnswerIsFinal ==
    ASSUME TypeOK, NEW a \in Attempts, AttemptStep(a), HoldInv(a), AnswerInv(a)
    PROVE  \/ answer[a] = "none" /\ pc[a] # "billed"
           \/ answer'[a] = answer[a]
<1> USE DEF TypeOK, AnswerInv, Unanswered, dbVars, holdVars
<1>1. CASE PreConsumeStep(a)
  BY <1>1 DEF PreConsumeStep, CheckTokenQuotaSufficient, CheckBudget,
       CacheGetUserQuota, FillCache, CacheDecreaseUserQuota, CacheDecreaseFails,
       PreConsumeCheckToken, PreConsumeCheckUser, PreConsumeFromToken,
       PreConsumeFromUser, PreConsumeFails
<1>2. CASE StartAttempt(a) \/ SkipAttempt(a) \/ RelayStep(a)
  BY <1>2 DEF StartAttempt, SkipAttempt, RelayStep, LocalError, ProviderError,
       ProviderAnswers, ProviderAnswersWithoutUsage
<1>3. CASE PostConsumeStep(a)
  BY <1>3 DEF PostConsumeStep, PostConsumeReadToken, PostConsumeUser,
       PostConsumeUserFails, PostConsumeToken, PostConsumeTokenFails,
       CacheUpdateRead, CacheUpdateFill, CacheUpdateStore, BookUsage
<1> QED
  BY <1>1, <1>2, <1>3 DEF AttemptStep

(* Only the loop itself takes an attempt out of "idle". *)
LEMMA OnlyLoopStarts ==
    ASSUME TypeOK, NEW a \in Attempts, AttemptStep(a), pc[a] = "idle"
    PROVE  MayFollow(a)
BY DEF AttemptStep, StartAttempt, SkipAttempt, RelayStep, LocalError, ProviderError,
       ProviderAnswers, ProviderAnswersWithoutUsage, PreConsumeStep,
       CheckTokenQuotaSufficient, CheckBudget, CacheGetUserQuota, FillCache,
       CacheDecreaseUserQuota, CacheDecreaseFails, PreConsumeCheckToken,
       PreConsumeCheckUser, PreConsumeFromToken, PreConsumeFromUser, PreConsumeFails,
       PostConsumeStep, PostConsumeReadToken, PostConsumeUser, PostConsumeUserFails,
       PostConsumeToken, PostConsumeTokenFails, CacheUpdateRead, CacheUpdateFill,
       CacheUpdateStore, BookUsage

(* An attempt starts only when the ones before it have failed. *)
THEOREM EarlierAttemptsFailed == Spec => []EarlierFailed
<1>1. Init => EarlierFailed
  BY DEF Init, EarlierFailed
<1>2. TypeOK /\ BillingInv /\ EarlierFailed /\ [Next]_vars => EarlierFailed'
  <2> SUFFICES ASSUME TypeOK, BillingInv, EarlierFailed, [Next]_vars,
                      NEW a \in Attempts, NEW b \in Attempts,
                      a[1] = b[1], a[2] < b[2], pc'[b] # "idle"
               PROVE  answer'[a] \in {"retry", "stop"}
    BY DEF EarlierFailed
  <2> USE DEF Same
  <2>1. ASSUME NEW c \in Attempts, AttemptStep(c)
        PROVE  answer'[a] \in {"retry", "stop"}
    <3>1. answer[a] \in {"retry", "stop"}
      <4>1. CASE pc[b] # "idle"
        BY <4>1 DEF EarlierFailed
      <4>2. CASE pc[b] = "idle"
        <5>1. c = b
          BY <2>1, <4>2, StepIsLocal
        <5>2. MayFollow(b)
          BY <2>1, <4>2, <5>1, OnlyLoopStarts
        <5> DEFINE p == <<b[1], b[2] - 1>>
        <5>3. /\ a[2] \in 1..MaxAttempts /\ b[2] \in 1..MaxAttempts /\ b[1] \in Requests
              /\ a = <<a[1], a[2]>> /\ MaxAttempts \in Nat
          BY AttemptTypes, BillingAssumption
        <5>4. p \in Attempts /\ p[1] = a[1] /\ p[2] = b[2] - 1
          BY <5>3 DEF Attempts
        <5>5. answer[p] \in {"retry", "stop"}
          BY <5>2, <5>3 DEF MayFollow
        <5>6. CASE a[2] = b[2] - 1
          <6>1. a = p
            BY <5>3, <5>4, <5>6
          <6> QED
            BY <5>5, <6>1
        <5>7. CASE a[2] < b[2] - 1
          <6>1. pc[p] # "idle"
            BY <5>4, <5>5 DEF BillingInv, AnswerInv, Unanswered
          <6> QED
            BY <5>4, <5>7, <6>1 DEF EarlierFailed
        <5> QED
          BY <5>3, <5>6, <5>7
      <4> QED
        BY <4>1, <4>2
    <3>2. answer'[a] = answer[a]
      <4>1. CASE c = a
        BY <2>1, <3>1, <4>1, AnswerIsFinal DEF BillingInv
      <4>2. CASE c # a
        BY <2>1, <4>2, StepIsLocal
      <4> QED
        BY <4>1, <4>2
    <3> QED
      BY <3>1, <3>2
  <2>2. CASE Environment \/ UNCHANGED vars
    <3>1. pc' = pc /\ answer' = answer
      BY <2>2, SaveSpares DEF Environment, TopUp, ExpireCache, DeleteToken, vars, dbVars,
                              holdVars
    <3> QED
      BY <3>1 DEF EarlierFailed
  <2> QED
    BY <2>1, <2>2 DEF Next
<1> QED
  BY <1>1, <1>2, TypeCorrect, BillingInvHolds, PTL DEF Spec

(* At most one attempt of a request is answered and therefore billed. *)
THEOREM BilledOnce == Spec => []BilledAtMostOnce
<1>1. EarlierFailed => BilledAtMostOnce
  BY DEF EarlierFailed, BilledAtMostOnce
<1> QED
  BY <1>1, EarlierAttemptsFailed, PTL

-----------------------------------------------------------------------------
(***************************************************************************)
(* The refinement.  Under the mapping of RelayBilling two of its actions,  *)
(* the two updates of a user's row, are ledger steps of the attempt, a     *)
(* top-up is a ledger step of the account, reading and saving a user's row *)
(* are steps of a clerk, and all others stutter.                           *)
(***************************************************************************)
NotedBy(s) == IF saveAt[s] \in {"read", "again"} THEN copy[s].quota ELSE NoKey

(* A step that moves neither the balance nor the hold of an attempt, answers *)
(* only attempts whose user row is not adjusted yet, and reads and saves no  *)
(* user's row, is a stutter.                                                 *)
LEMMA LedgerStutter ==
    ASSUME userQuota' = userQuota, userHeld' = userHeld,
           \A b \in Attempts : "user" \in posted'[b] <=> "user" \in posted[b],
           \A b \in Attempts : "user" \in posted[b] => answer'[b] = answer[b],
           \A c \in UserSaves : NotedBy(c)' = NotedBy(c)
    PROVE  UNCHANGED Ledger!ledgerVars
<1>1. \A b \in Attempts : LedgerPhase(b)' = LedgerPhase(b)
  BY DEF LedgerPhase
<1> QED
  BY <1>1 DEF Ledger!ledgerVars, NotedBy, UserSaves

(* Only two actions of an attempt touch the user's row. *)
LEMMA MostStepsSpareTheUser ==
    ASSUME TypeOK, NEW a \in Attempts, AttemptStep(a),
           ~PreConsumeFromUser(a), ~PostConsumeUser(a)
    PROVE  /\ userQuota' = userQuota /\ userHeld' = userHeld
           /\ \A b \in Attempts : "user" \in posted'[b] <=> "user" \in posted[b]
<1> USE DEF TypeOK, dbVars, holdVars
<1>1. CASE PreConsumeStep(a)
  BY <1>1 DEF PreConsumeStep, CheckTokenQuotaSufficient, CheckBudget,
       CacheGetUserQuota, FillCache, CacheDecreaseUserQuota, CacheDecreaseFails,
       PreConsumeCheckToken, PreConsumeCheckUser, PreConsumeFromToken, PreConsumeFails
<1>2. CASE StartAttempt(a) \/ SkipAttempt(a) \/ RelayStep(a)
  BY <1>2 DEF StartAttempt, SkipAttempt, RelayStep, LocalError, ProviderError,
       ProviderAnswers, ProviderAnswersWithoutUsage
<1>3. CASE PostConsumeToken(a)
  BY <1>3 DEF PostConsumeToken
<1>4. CASE PostConsumeStep(a) /\ ~PostConsumeToken(a)
  BY <1>4 DEF PostConsumeStep, PostConsumeReadToken, PostConsumeUserFails,
       PostConsumeTokenFails, CacheUpdateRead, CacheUpdateFill, CacheUpdateStore,
       BookUsage
<1> QED
  BY <1>1, <1>2, <1>3, <1>4 DEF AttemptStep

(* Every step settles, refunds, charges or tops up in the ledger, or is a stutter. *)
LEMMA StepRefines ==
    ASSUME TypeOK, TypeOK', BillingInv, NEW a \in Attempts, AttemptStep(a)
    PROVE  [Ledger!LedgerNext]_(Ledger!ledgerVars)
<1> DEFINE account == [h \in Attempts |-> User(h)]
           phase == [h \in Attempts |-> LedgerPhase(h)]
           Amts == {Estimate[r] : r \in Requests} \cup Bills \cup TopUps
<1>1. HoldInv(a) /\ AnswerInv(a)
  BY DEF BillingInv
<1>2. account[a] = User(a) /\ phase[a] = LedgerPhase(a)
  OBVIOUS
<1>0. saveAt' = saveAt /\ copy' = copy
  BY StepIsLocal DEF saveVars
<1>3. CASE PreConsumeFromUser(a)
  <2>1. /\ pc[a] = "preTake" /\ pre[a] = Cost(a) /\ pre[a] > 0 /\ userHeld[a] = 0
        /\ posted[a] = {} /\ answer[a] = "none"
    BY <1>1, <1>3 DEF PreConsumeFromUser, HoldInv, AnswerInv, Unanswered
  <2>2. /\ userQuota' = [userQuota EXCEPT ![User(a)] = @ - Cost(a)]
        /\ userHeld' = [userHeld EXCEPT ![a] = Cost(a)]
        /\ posted' = posted /\ answer' = answer
    <3>1. /\ userQuota' = [userQuota EXCEPT ![User(a)] = @ - pre[a]]
          /\ userHeld' = [userHeld EXCEPT ![a] = @ + pre[a]]
          /\ posted' = posted /\ answer' = answer
      BY <1>3 DEF PreConsumeFromUser, TakeFromUser
    <3>2. userHeld[a] + pre[a] = Cost(a)
      BY <2>1, AttemptTypes
    <3> QED
      BY <2>1, <3>1, <3>2
  <2>3. phase[a] = "none"
    BY <2>1 DEF LedgerPhase
  <2>4. phase' = [phase EXCEPT ![a] = "held"]
    <3>1. userHeld'[a] > 0
      BY <2>1, <2>2 DEF TypeOK
    <3>2. LedgerPhase(a)' = "held"
      BY <2>1, <2>2, <3>1 DEF LedgerPhase
    <3>3. \A b \in Attempts \ {a} : LedgerPhase(b)' = LedgerPhase(b)
      BY <2>2 DEF LedgerPhase, TypeOK
    <3> QED
      BY <3>2, <3>3
  <2>5. Cost(a) \in Amts
    BY AttemptTypes DEF Cost
  <2>6. Ledger!Reserve(a, Cost(a))
    BY <1>0, <1>2, <2>1, <2>2, <2>3, <2>4 DEF Ledger!Reserve
  <2> QED
    BY <2>5, <2>6 DEF Ledger!LedgerNext
<1>4. CASE PostConsumeUser(a)
  <2>1. /\ pc[a] = "postUser" /\ userHeld[a] = pre[a] /\ posted[a] = {}
        /\ answer[a] # "none"
    BY <1>1, <1>4 DEF PostConsumeUser, HoldInv, AnswerInv, Holding, Unanswered
  <2>2. /\ pre[a] \in Nat /\ bill[a] \in Nat /\ userHeld[a] \in Int
        /\ User(a) \in Users /\ userQuota[User(a)] \in Int
    BY AttemptTypes DEF TypeOK
  <2>3. /\ userQuota' = [userQuota EXCEPT ![User(a)] = @ - Delta(a)]
        /\ userHeld' = [userHeld EXCEPT ![a] = @ + Delta(a)]
        /\ posted' = [posted EXCEPT ![a] = @ \cup {"user"}] /\ answer' = answer
    BY <1>4 DEF PostConsumeUser, TakeFromUser
  <2>4. phase[a] = IF pre[a] > 0 THEN "held" ELSE "none"
    BY <2>1 DEF LedgerPhase
  <2>5. ASSUME NEW l, LedgerPhase(a)' = l
        PROVE  phase' = [phase EXCEPT ![a] = l]
    <3>1. \A b \in Attempts \ {a} : LedgerPhase(b)' = LedgerPhase(b)
      BY <2>3 DEF LedgerPhase, TypeOK
    <3> QED
      BY <2>5, <3>1
  <2>6. "user" \in posted'[a]
    BY <2>3 DEF TypeOK
  <2>7. CASE answer[a] = "ok"
    <3>1. Delta(a) = bill[a] - userHeld[a] /\ userHeld[a] + Delta(a) = bill[a]
      BY <2>1, <2>2, <2>7 DEF Delta
    <3>2. userHeld' = [userHeld EXCEPT ![a] = bill[a]]
      BY <2>3, <3>1
    <3>3. phase' = [phase EXCEPT ![a] = "settled"]
      BY <2>3, <2>5, <2>6, <2>7 DEF LedgerPhase
    <3>4. Ledger!Settle(a, bill[a])
      BY <1>0, <1>2, <2>3, <2>4, <3>1, <3>2, <3>3 DEF Ledger!Settle
    <3>5. bill[a] \in Amts
      BY <1>1, <2>1, <2>7 DEF AnswerInv
    <3> QED
      BY <3>4, <3>5 DEF Ledger!LedgerNext
  <2>8. CASE answer[a] # "ok"
    <3>1. Delta(a) = 0 - userHeld[a] /\ userHeld[a] + Delta(a) = 0
      BY <2>1, <2>2, <2>8 DEF Delta
    <3>2. userHeld' = [userHeld EXCEPT ![a] = 0]
      BY <2>3, <3>1
    <3>3. userQuota' = [userQuota EXCEPT ![User(a)] = @ + userHeld[a]]
      <4>1. userQuota[User(a)] - Delta(a) = userQuota[User(a)] + userHeld[a]
        BY <2>2, <3>1
      <4> QED
        BY <2>3, <4>1
    <3>4. phase' = [phase EXCEPT ![a] = "released"]
      BY <2>3, <2>5, <2>6, <2>8 DEF LedgerPhase
    <3>5. phase[a] = "held"
      BY <1>1, <2>1, <2>4, <2>8 DEF AnswerInv
    <3>6. Ledger!Release(a)
      BY <1>0, <1>2, <3>2, <3>3, <3>4, <3>5 DEF Ledger!Release
    <3> QED
      BY <3>6 DEF Ledger!LedgerNext
  <2> QED
    BY <2>7, <2>8
<1>5. CASE ~PreConsumeFromUser(a) /\ ~PostConsumeUser(a)
  <2>1. \A b \in Attempts : "user" \in posted[b] => answer'[b] = answer[b]
    <3>1. "user" \in posted[a] => answer'[a] = answer[a]
      BY <1>1, AnswerIsFinal DEF AnswerInv
    <3> QED
      BY <3>1, StepIsLocal DEF Same
  <2> QED
    BY <1>0, <1>5, <2>1, MostStepsSpareTheUser, LedgerStutter DEF NotedBy
<1> QED
  BY <1>3, <1>4, <1>5

(* A call that reads or saves a row is a clerk of the ledger or does nothing *)
(* to it.                                                                    *)
LEMMA SaveRefines ==
    ASSUME TypeOK, TypeOK', NEW s \in Saves, SaveStep(s)
    PROVE  [Ledger!LedgerNext]_(Ledger!ledgerVars)
<1> DEFINE noted == [c \in UserSaves |-> NotedBy(c)]
           client == [c \in UserSaves |-> RowOf[c]]
<1>1. /\ userHeld' = userHeld
      /\ \A b \in Attempts : LedgerPhase(b)' = LedgerPhase(b)
  BY SaveSpares DEF LedgerPhase, holdVars
<1>2. /\ \A b \in Attempts : "user" \in posted'[b] <=> "user" \in posted[b]
      /\ answer' = answer
  BY SaveSpares DEF holdVars
<1>3. NoKey \notin Int
  BY BillingAssumption
<1>4. CASE RowOf[s] \in Users
  <2>1. s \in UserSaves /\ client[s] = RowOf[s] /\ noted[s] = NotedBy(s)
    BY <1>4 DEF UserSaves
  <2>2. RowOf[s] \notin Tokens /\ alive \subseteq Tokens
    BY <1>4, BillingAssumption DEF TypeOK
  <2>3. ASSUME NEW l, NotedBy(s)' = l, \A c \in Saves \ {s} : NotedBy(c)' = NotedBy(c)
        PROVE  noted' = [noted EXCEPT ![s] = l]
    BY <2>1, <2>3 DEF UserSaves
  <2>4. ASSUME UNCHANGED <<saveAt, copy>> PROVE noted' = noted
    BY <2>4 DEF NotedBy, UserSaves
  <2>5. CASE ReadUserRow(s)
    <3>1. NotedBy(s) = NoKey
      BY <2>5 DEF ReadUserRow, NotedBy
    <3>2. NotedBy(s)' = userQuota[RowOf[s]]
      BY <2>5 DEF ReadUserRow, NotedBy, TypeOK
    <3>3. \A c \in Saves \ {s} : NotedBy(c)' = NotedBy(c)
      BY <2>5 DEF ReadUserRow, NotedBy, TypeOK
    <3>4. Ledger!Note(s)
      BY <1>1, <2>1, <2>3, <2>5, <3>1, <3>2, <3>3 DEF Ledger!Note, ReadUserRow, NotedBy
    <3> QED
      BY <2>1, <3>4 DEF Ledger!LedgerNext
  <2>6. ASSUME Finish(s) PROVE noted' = [noted EXCEPT ![s] = NoKey]
    <3>1. NotedBy(s)' = NoKey
      BY <2>6 DEF Finish, NotedBy, TypeOK
    <3>2. \A c \in Saves \ {s} : NotedBy(c)' = NotedBy(c)
      BY <2>6 DEF Finish, NotedBy, TypeOK
    <3> QED
      BY <2>3, <3>1, <3>2
  <2>7. CASE WriteBackUser(s)
    <3>1. NotedBy(s) = copy[s].quota /\ copy[s].quota \in Int /\ NotedBy(s) # NoKey
      BY <1>3, <2>7 DEF WriteBackUser, NotedBy, TypeOK, Copies
    <3>2. noted' = noted \/ noted' = [noted EXCEPT ![s] = NoKey]
      <4>1. UNCHANGED copy /\ saveAt[s] = "read" /\ saveAt' = [saveAt EXCEPT ![s] = "again"]
              => noted' = noted
        BY DEF NotedBy, UserSaves, TypeOK
      <4> QED
        BY <2>6, <2>7, <4>1 DEF WriteBackUser
    <3>3. userQuota' = [userQuota EXCEPT ![RowOf[s]] = NonZero(copy[s].quota, @)]
      BY <2>7 DEF WriteBackUser, UpdateUserRow
    <3>4. CASE copy[s].quota = 0
      <4>1. userQuota' = userQuota
        BY <3>3, <3>4 DEF NonZero, TypeOK
      <4>2. CASE noted' = noted
        <5>1. \A c \in UserSaves : NotedBy(c)' = NotedBy(c)
          <6>1. \A c \in UserSaves : noted'[c] = noted[c]
            BY <4>2
          <6> QED
            BY <6>1 DEF UserSaves
        <5> QED
          BY <1>1, <1>2, <4>1, <5>1, LedgerStutter
      <4>3. CASE noted' = [noted EXCEPT ![s] = NoKey]
        <5>1. Ledger!Forget(s)
          BY <1>1, <4>1, <4>3 DEF Ledger!Forget, NotedBy
        <5> QED
          BY <2>1, <5>1 DEF Ledger!LedgerNext
      <4> QED
        BY <3>2, <4>2, <4>3
    <3>5. CASE copy[s].quota # 0
      <4>1. userQuota' = [userQuota EXCEPT ![client[s]] = noted[s]]
        BY <2>1, <3>1, <3>3, <3>5 DEF NonZero, TypeOK
      <4>2. Ledger!Restore(s)
        BY <1>1, <2>1, <3>1, <3>2, <4>1 DEF Ledger!Restore, NotedBy
      <4> QED
        BY <2>1, <4>2 DEF Ledger!LedgerNext
    <3> QED
      BY <3>4, <3>5
  <2>8. CASE EditUser(s)
    <3>1. NotedBy(s) = copy[s].quota /\ copy[s].quota \in Int /\ NotedBy(s) # NoKey
      BY <1>3, <2>8 DEF EditUser, NotedBy, TypeOK, Copies
    <3>2. noted' = [noted EXCEPT ![s] = NoKey]
      BY <2>6, <2>8 DEF EditUser
    <3>3. PICK n \in Edits : userQuota' = [userQuota EXCEPT ![RowOf[s]] = NonZero(n, @)]
      BY <2>8 DEF EditUser, UpdateUserRow
    <3>4. CASE n = 0
      <4>1. userQuota' = userQuota
        BY <3>3, <3>4 DEF NonZero, TypeOK
      <4>2. Ledger!Forget(s)
        BY <1>1, <3>2, <4>1 DEF Ledger!Forget, NotedBy
      <4> QED
        BY <2>1, <4>2 DEF Ledger!LedgerNext
    <3>5. CASE n # 0
      <4>1. userQuota' = [userQuota EXCEPT ![client[s]] = n]
        BY <2>1, <3>3, <3>5 DEF NonZero, TypeOK
      <4>2. Ledger!Edit(s, n)
        BY <1>1, <2>1, <3>1, <3>2, <4>1 DEF Ledger!Edit, NotedBy
      <4> QED
        BY <2>1, <4>2 DEF Ledger!LedgerNext
    <3> QED
      BY <3>4, <3>5
  <2> QED
    BY <2>2, <2>5, <2>7, <2>8
    DEF SaveStep, ReadTokenRow, WriteBackToken, EditToken, UpdateTokenRow
<1>5. CASE RowOf[s] \notin Users
  <2>1. userQuota' = userQuota
    BY <1>5 DEF SaveStep, ReadUserRow, WriteBackUser, EditUser, UpdateUserRow,
                ReadTokenRow, WriteBackToken, EditToken, UpdateTokenRow
  <2>2. ASSUME NEW c \in UserSaves PROVE NotedBy(c)' = NotedBy(c)
    <3>1. c # s
      BY <1>5 DEF UserSaves
    <3> QED
      BY <1>5, <3>1
      DEF SaveStep, ReadUserRow, WriteBackUser, EditUser, UpdateUserRow, ReadTokenRow,
          WriteBackToken, EditToken, UpdateTokenRow, Finish, NotedBy, UserSaves, TypeOK
  <2> QED
    BY <1>1, <1>2, <2>1, <2>2, LedgerStutter
<1> QED
  BY <1>4, <1>5

(* The billing path implements the abstract ledger. *)
THEOREM LedgerImplemented == Spec => ImplementsLedger
<1>1. Init => Ledger!LedgerInit
  BY BillingAssumption DEF Init, Ledger!LedgerInit, LedgerPhase, UserSaves
<1>2. TypeOK /\ TypeOK' /\ BillingInv /\ [Next]_vars
        => [Ledger!LedgerNext]_(Ledger!ledgerVars)
  <2> SUFFICES ASSUME TypeOK, TypeOK', BillingInv, [Next]_vars
               PROVE  [Ledger!LedgerNext]_(Ledger!ledgerVars)
    OBVIOUS
  <2>1. CASE \E a \in Attempts : AttemptStep(a)
    BY <2>1, StepRefines
  <2>2. ASSUME NEW u \in Users, TopUp(u)
        PROVE  Ledger!LedgerNext
    <3>1. PICK n \in TopUps : userQuota' = [userQuota EXCEPT ![u] = @ + n]
      BY <2>2 DEF TopUp
    <3>2. /\ userHeld' = userHeld /\ saveAt' = saveAt /\ copy' = copy
          /\ \A b \in Attempts : LedgerPhase(b)' = LedgerPhase(b)
      BY <2>2 DEF TopUp, LedgerPhase, holdVars, saveVars
    <3>3. Ledger!Fund(u, n)
      BY <3>1, <3>2 DEF Ledger!Fund
    <3> QED
      BY <3>3 DEF Ledger!LedgerNext
  <2>3. CASE (\E u \in Users : ExpireCache(u)) \/ (\E t \in Tokens : DeleteToken(t))
             \/ UNCHANGED vars
    <3>1. userQuota' = userQuota /\ userHeld' = userHeld /\ posted' = posted
          /\ answer' = answer /\ saveAt' = saveAt /\ copy' = copy
      BY <2>3 DEF ExpireCache, DeleteToken, vars, dbVars, holdVars, saveVars
    <3> QED
      BY <3>1, LedgerStutter DEF NotedBy
  <2> QED
    BY <2>1, <2>2, <2>3, SaveRefines DEF Next, Environment
<1> QED
  BY <1>1, <1>2, TypeCorrect, BillingInvHolds, PTL
  DEF Spec, ImplementsLedger, Ledger!LedgerSpec

-----------------------------------------------------------------------------
(***************************************************************************)
(* Conservation.  Whatever an attempt takes from a row it is recorded to   *)
(* hold, by the same amount, so the sum over all attempts and the row move *)
(* against each other; the order of the attempts does not matter.          *)
(***************************************************************************)
(* There are finitely many requests, and so many attempts of each. *)
LEMMA AttemptsFinite == IsFiniteSet(Attempts)
<1>1. IsFiniteSet(1..MaxAttempts)
  BY BillingAssumption, FS_Interval
<1> QED
  BY <1>1, BillingAssumption, FS_Product DEF Attempts

OfUser(u)  == {a \in Attempts : User(a) = u}
OfToken(t) == {a \in Attempts : Token(a) = t}

UserConserved(u) ==
    userQuota[u] + SumFunctionOnSet(userHeld, OfUser(u)) = funded[u] + undone[u]

TokenConserved(t) ==
    /\ remainQuota[t] + SumFunctionOnSet(tokenHeld, OfToken(t)) = funded[t] + undone[t]
    /\ tokenUsed[t] = SumFunctionOnSet(tokenHeld, OfToken(t))

Conserved == /\ \A u \in Users : UserConserved(u)
             /\ \A t \in Tokens : TokenConserved(t)

(* So the attempts of a user, or of a token, can be added up. *)
LEMMA OfsFinite ==
    /\ \A u : IsFiniteSet(OfUser(u))
    /\ \A t : IsFiniteSet(OfToken(t))
BY AttemptsFinite, FS_Subset DEF OfUser, OfToken

\* The amount n moves from the row of the user of a to a.
UserPays(a, n) ==
    /\ userQuota' = [userQuota EXCEPT ![User(a)] = @ - n]
    /\ userHeld' = [userHeld EXCEPT ![a] = @ + n]
    /\ overtaken' = overtaken \cup Behind(User(a))
    /\ UNCHANGED <<remainQuota, tokenUsed, tokenHeld>>

TokenPays(a, n) ==
    /\ remainQuota' = [remainQuota EXCEPT ![Token(a)] = @ - n]
    /\ tokenUsed' = [tokenUsed EXCEPT ![Token(a)] = @ + n]
    /\ tokenHeld' = [tokenHeld EXCEPT ![a] = @ + n]
    /\ overtaken' = overtaken \cup Behind(Token(a))
    /\ UNCHANGED <<userQuota, userHeld>>

NothingMoves == UNCHANGED <<userQuota, userHeld, remainQuota, tokenUsed, tokenHeld>>

(* A step of an attempt moves nothing, or some amount between it and a row. *)
LEMMA StepMoves ==
    ASSUME TypeOK, TypeOK', NEW a \in Attempts, AttemptStep(a)
    PROVE  \/ NothingMoves /\ overtaken' = overtaken
           \/ \E n \in Int : UserPays(a, n)
           \/ \E n \in Int : TokenPays(a, n)
<1> USE DEF dbVars, holdVars, NothingMoves
<1>1. pre[a] \in Int /\ Delta(a) \in Int
  BY DEF TypeOK, Delta
<1>2. CASE PreConsumeFromUser(a)
  BY <1>1, <1>2 DEF PreConsumeFromUser, TakeFromUser, UserPays
<1>3. CASE PostConsumeUser(a)
  BY <1>1, <1>3 DEF PostConsumeUser, TakeFromUser, UserPays
<1>4. CASE PreConsumeFromToken(a)
  BY <1>1, <1>4 DEF PreConsumeFromToken, TakeFromToken, TokenPays
<1>5. CASE PostConsumeToken(a)
  BY <1>1, <1>5 DEF PostConsumeToken, TakeFromToken, TokenPays
<1>6. CASE ~PreConsumeFromUser(a) /\ ~PostConsumeUser(a)
           /\ ~PreConsumeFromToken(a) /\ ~PostConsumeToken(a)
  BY <1>6 DEF AttemptStep, StartAttempt, SkipAttempt, PreConsumeStep,
       CheckTokenQuotaSufficient, CheckBudget, CacheGetUserQuota, FillCache,
       CacheDecreaseUserQuota, CacheDecreaseFails, PreConsumeCheckToken,
       PreConsumeCheckUser, PreConsumeFails, RelayStep, LocalError, ProviderError,
       ProviderAnswers, ProviderAnswersWithoutUsage, PostConsumeStep,
       PostConsumeReadToken, PostConsumeUserFails, PostConsumeTokenFails,
       CacheUpdateRead, CacheUpdateFill, CacheUpdateStore, BookUsage
<1> QED
  BY <1>2, <1>3, <1>4, <1>5, <1>6

(* What a step moves between a row and an attempt leaves the user's sum as it was. *)
LEMMA UserStaysConserved ==
    ASSUME TypeOK, TypeOK', NEW a \in Attempts, NEW n \in Int, UserPays(a, n),
           funded' = funded, undone' = undone, NEW u \in Users, UserConserved(u)
    PROVE  UserConserved(u)'
<1>1. IsFiniteSet(OfUser(u)) /\ OfUser(u) \subseteq Attempts /\ OfUser(u)' = OfUser(u)
  BY OfsFinite DEF OfUser, User, Token
<1>2. \A b \in OfUser(u) : userHeld[b] \in Int
  BY <1>1 DEF TypeOK
<1>3. CASE u = User(a)
  <2>1. a \in OfUser(u)
    BY <1>3 DEF OfUser
  <2>2. /\ userHeld'[a] = userHeld[a] + n
        /\ \A b \in OfUser(u) \ {a} : userHeld'[b] = userHeld[b]
    BY <1>1 DEF UserPays, TypeOK
  <2>3. SumFunctionOnSet(userHeld', OfUser(u)) = SumFunctionOnSet(userHeld, OfUser(u)) + n
    BY <1>1, <1>2, <2>1, <2>2, SumChange
  <2>4. userQuota'[u] = userQuota[u] - n
    BY <1>3 DEF UserPays, TypeOK
  <2>5. userQuota[u] \in Int /\ SumFunctionOnSet(userHeld, OfUser(u)) \in Int
    BY <1>1, <1>2, SumType DEF TypeOK
  <2> QED
    BY <1>1, <2>3, <2>4, <2>5 DEF UserConserved
<1>4. CASE u # User(a)
  <2>1. \A b \in OfUser(u) : userHeld'[b] = userHeld[b]
    BY <1>1, <1>4 DEF UserPays, OfUser, TypeOK
  <2>2. SumFunctionOnSet(userHeld', OfUser(u)) = SumFunctionOnSet(userHeld, OfUser(u))
    BY <1>1, <2>1, SumSame
  <2>3. userQuota'[u] = userQuota[u]
    BY <1>4 DEF UserPays, TypeOK
  <2> QED
    BY <1>1, <2>2, <2>3 DEF UserConserved
<1> QED
  BY <1>3, <1>4

(* The same for the tokens. *)
LEMMA TokenStaysConserved ==
    ASSUME TypeOK, TypeOK', NEW a \in Attempts, NEW n \in Int, TokenPays(a, n),
           funded' = funded, undone' = undone, NEW t \in Tokens, TokenConserved(t)
    PROVE  TokenConserved(t)'
<1>1. IsFiniteSet(OfToken(t)) /\ OfToken(t) \subseteq Attempts /\ OfToken(t)' = OfToken(t)
  BY OfsFinite DEF OfToken, Token
<1>2. \A b \in OfToken(t) : tokenHeld[b] \in Int
  BY <1>1 DEF TypeOK
<1>3. remainQuota[t] \in Int /\ tokenUsed[t] \in Int
      /\ SumFunctionOnSet(tokenHeld, OfToken(t)) \in Int
  BY <1>1, <1>2, SumType DEF TypeOK
<1>4. CASE t = Token(a)
  <2>1. a \in OfToken(t)
    BY <1>4 DEF OfToken
  <2>2. /\ tokenHeld'[a] = tokenHeld[a] + n
        /\ \A b \in OfToken(t) \ {a} : tokenHeld'[b] = tokenHeld[b]
    BY <1>1 DEF TokenPays, TypeOK
  <2>3. SumFunctionOnSet(tokenHeld', OfToken(t)) = SumFunctionOnSet(tokenHeld, OfToken(t)) + n
    BY <1>1, <1>2, <2>1, <2>2, SumChange
  <2>4. remainQuota'[t] = remainQuota[t] - n /\ tokenUsed'[t] = tokenUsed[t] + n
    BY <1>4 DEF TokenPays, TypeOK
  <2> QED
    BY <1>1, <1>3, <2>3, <2>4 DEF TokenConserved
<1>5. CASE t # Token(a)
  <2>1. \A b \in OfToken(t) : tokenHeld'[b] = tokenHeld[b]
    BY <1>1, <1>5 DEF TokenPays, OfToken, TypeOK
  <2>2. SumFunctionOnSet(tokenHeld', OfToken(t)) = SumFunctionOnSet(tokenHeld, OfToken(t))
    BY <1>1, <2>1, SumSame
  <2>3. remainQuota'[t] = remainQuota[t] /\ tokenUsed'[t] = tokenUsed[t]
    BY <1>5 DEF TokenPays, TypeOK
  <2> QED
    BY <1>1, <2>2, <2>3 DEF TokenConserved
<1> QED
  BY <1>4, <1>5

(* A step that moves neither rows nor holds keeps the sums. *)
LEMMA StillConserved ==
    ASSUME Conserved, NothingMoves, funded' = funded, undone' = undone
    PROVE  Conserved'
<1>1. /\ \A u : OfUser(u)' = OfUser(u)
      /\ \A t : OfToken(t)' = OfToken(t)
  BY DEF OfUser, OfToken, User, Token
<1> QED
  BY <1>1 DEF Conserved, UserConserved, TokenConserved, NothingMoves

(* Every step of an attempt keeps both sums. *)
LEMMA AttemptsConserve ==
    ASSUME TypeOK, TypeOK', NEW a \in Attempts, AttemptStep(a), Conserved
    PROVE  Conserved'
<1>1. funded' = funded /\ undone' = undone
  BY StepIsLocal DEF worthVars
<1>2. /\ \A u : OfUser(u)' = OfUser(u)
      /\ \A t : OfToken(t)' = OfToken(t)
  BY DEF OfUser, OfToken, User, Token
<1>3. CASE NothingMoves
  BY <1>1, <1>3, StillConserved
<1>4. ASSUME NEW n \in Int, UserPays(a, n) PROVE Conserved'
  <2>1. \A u \in Users : UserConserved(u)'
    BY <1>1, <1>4, UserStaysConserved DEF Conserved
  <2>2. \A t \in Tokens : TokenConserved(t)'
    BY <1>1, <1>2, <1>4 DEF Conserved, TokenConserved, UserPays
  <2> QED
    BY <2>1, <2>2 DEF Conserved
<1>5. ASSUME NEW n \in Int, TokenPays(a, n) PROVE Conserved'
  <2>1. \A t \in Tokens : TokenConserved(t)'
    BY <1>1, <1>5, TokenStaysConserved DEF Conserved
  <2>2. \A u \in Users : UserConserved(u)'
    BY <1>1, <1>2, <1>5 DEF Conserved, UserConserved, TokenPays
  <2> QED
    BY <2>1, <2>2 DEF Conserved
<1> QED
  BY <1>3, <1>4, <1>5, StepMoves

\* The row of x moves by n, and with it what x is worth.
Credited(x, n) ==
    \/ funded' = [funded EXCEPT ![x] = @ + n] /\ undone' = undone
    \/ undone' = [undone EXCEPT ![x] = @ + n] /\ funded' = funded

UserRevalued(u, n) ==
    /\ userQuota' = [userQuota EXCEPT ![u] = @ + n]
    /\ Credited(u, n)
    /\ UNCHANGED <<userHeld, remainQuota, tokenUsed, tokenHeld>>

TokenRevalued(t, n) ==
    /\ remainQuota' = [remainQuota EXCEPT ![t] = @ + n]
    /\ Credited(t, n)
    /\ UNCHANGED <<userQuota, userHeld, tokenUsed, tokenHeld>>

(* So the sum of a row and its holds moves with what the row is worth. *)
LEMMA RevaluedStaysConserved ==
    ASSUME TypeOK, Conserved, NEW n \in Int,
           \/ \E u \in Users : UserRevalued(u, n)
           \/ \E t \in Tokens : TokenRevalued(t, n)
    PROVE  Conserved'
<1>1. /\ \A u : OfUser(u)' = OfUser(u)
      /\ \A t : OfToken(t)' = OfToken(t)
  BY DEF OfUser, OfToken, User, Token
<1>2. /\ \A x \in Users : x \in Rows /\ x \notin Tokens
      /\ \A x \in Tokens : x \in Rows /\ x \notin Users
  BY BillingAssumption DEF Rows
<1>3. ASSUME NEW x, NEW y \in Rows, Credited(x, n)
      PROVE  /\ y # x => funded'[y] = funded[y] /\ undone'[y] = undone[y]
             /\ y = x => funded'[y] + undone'[y] = funded[y] + undone[y] + n
             /\ funded[y] \in Int /\ undone[y] \in Int
  BY <1>3 DEF Credited, TypeOK
<1>4. ASSUME NEW u \in Users PROVE SumFunctionOnSet(userHeld, OfUser(u)) \in Int
  BY OfsFinite, SumType DEF TypeOK, OfUser
<1>5. ASSUME NEW t \in Tokens PROVE SumFunctionOnSet(tokenHeld, OfToken(t)) \in Int
  BY OfsFinite, SumType DEF TypeOK, OfToken
<1>6. ASSUME NEW v \in Users, UserRevalued(v, n) PROVE Conserved'
  <2>1. ASSUME NEW u \in Users PROVE UserConserved(u)'
    <3>1. /\ u # v => userQuota'[u] = userQuota[u]
          /\ u = v => userQuota'[u] = userQuota[u] + n
          /\ userQuota[u] \in Int /\ userHeld' = userHeld /\ Credited(v, n)
      BY <1>6 DEF UserRevalued, TypeOK
    <3>2. UserConserved(u) /\ u \in Rows
      BY <1>2 DEF Conserved
    <3>3. CASE u # v
      BY <1>1, <1>3, <3>1, <3>2, <3>3 DEF UserConserved
    <3>4. CASE u = v
      BY <1>1, <1>3, <1>4, <3>1, <3>2, <3>4 DEF UserConserved
    <3> QED
      BY <3>3, <3>4
  <2>2. ASSUME NEW t \in Tokens PROVE TokenConserved(t)'
    <3>1. t \in Rows /\ t # v /\ TokenConserved(t)
      BY <1>2 DEF Conserved
    <3>2. UNCHANGED <<remainQuota, tokenUsed, tokenHeld>> /\ Credited(v, n)
      BY <1>6 DEF UserRevalued
    <3> QED
      BY <1>1, <1>3, <3>1, <3>2 DEF TokenConserved
  <2> QED
    BY <2>1, <2>2 DEF Conserved
<1>7. ASSUME NEW v \in Tokens, TokenRevalued(v, n) PROVE Conserved'
  <2>1. ASSUME NEW t \in Tokens PROVE TokenConserved(t)'
    <3>1. /\ t # v => remainQuota'[t] = remainQuota[t]
          /\ t = v => remainQuota'[t] = remainQuota[t] + n
          /\ remainQuota[t] \in Int /\ tokenHeld' = tokenHeld /\ tokenUsed' = tokenUsed
          /\ Credited(v, n)
      BY <1>7 DEF TokenRevalued, TypeOK
    <3>2. TokenConserved(t) /\ t \in Rows
      BY <1>2 DEF Conserved
    <3>3. CASE t # v
      BY <1>1, <1>3, <3>1, <3>2, <3>3 DEF TokenConserved
    <3>4. CASE t = v
      BY <1>1, <1>3, <1>5, <3>1, <3>2, <3>4 DEF TokenConserved
    <3> QED
      BY <3>3, <3>4
  <2>2. ASSUME NEW u \in Users PROVE UserConserved(u)'
    <3>1. u \in Rows /\ u # v /\ UserConserved(u)
      BY <1>2 DEF Conserved
    <3>2. UNCHANGED <<userQuota, userHeld>> /\ Credited(v, n)
      BY <1>7 DEF TokenRevalued
    <3> QED
      BY <1>1, <1>3, <3>1, <3>2 DEF UserConserved
  <2> QED
    BY <2>1, <2>2 DEF Conserved
<1> QED
  BY <1>6, <1>7

(* A call that saves a row revalues that row or moves nothing. *)
LEMMA SaveMoves ==
    ASSUME TypeOK, TypeOK', NEW s \in Saves, SaveStep(s)
    PROVE  \/ NothingMoves /\ funded' = funded /\ undone' = undone
           \/ /\ RowOf[s] \in Users
              /\ \E n \in Int : UserRevalued(RowOf[s], n)
              /\ Revalue(RowOf[s])
           \/ /\ RowOf[s] \in Tokens
              /\ \E n \in Int : TokenRevalued(RowOf[s], n)
              /\ ceiling' = ceiling
<1> DEFINE x == RowOf[s]
<1>1. UNCHANGED <<userHeld, tokenHeld, tokenUsed>>
  BY SaveSpares DEF holdVars
<1>2. CASE ReadUserRow(s) \/ ReadTokenRow(s)
  BY <1>1, <1>2 DEF ReadUserRow, ReadTokenRow, NothingMoves, worthVars
<1>3. ASSUME WriteBackUser(s) \/ EditUser(s)
      PROVE  x \in Users /\ (\E n \in Int : UserRevalued(x, n)) /\ Revalue(x)
  <2> DEFINE n == userQuota'[x] - userQuota[x]
  <2>1. /\ x \in Users /\ Credited(x, n) /\ Revalue(x) /\ remainQuota' = remainQuota
        /\ \E v : userQuota' = [userQuota EXCEPT ![x] = v]
    BY <1>3 DEF WriteBackUser, EditUser, UpdateUserRow, Credited
  <2>2. userQuota[x] \in Int /\ userQuota'[x] \in Int
    BY <2>1 DEF TypeOK
  <2>3. userQuota' = [userQuota EXCEPT ![x] = userQuota'[x]]
    BY <2>1 DEF TypeOK
  <2>4. n \in Int /\ userQuota'[x] = userQuota[x] + n
    BY <2>2
  <2> HIDE DEF n
  <2>5. userQuota' = [userQuota EXCEPT ![x] = userQuota[x] + n]
    BY <2>3, <2>4
  <2> QED
    BY <1>1, <2>1, <2>4, <2>5 DEF UserRevalued
<1>4. ASSUME WriteBackToken(s) \/ EditToken(s)
      PROVE  x \in Tokens /\ (\E n \in Int : TokenRevalued(x, n)) /\ ceiling' = ceiling
  <2> DEFINE n == remainQuota'[x] - remainQuota[x]
  <2>1. /\ x \in Tokens /\ Credited(x, n) /\ userQuota' = userQuota /\ ceiling' = ceiling
        /\ remainQuota' = remainQuota \/ \E v : remainQuota' = [remainQuota EXCEPT ![x] = v]
    BY <1>4 DEF WriteBackToken, EditToken, UpdateTokenRow, Credited
  <2>2. remainQuota[x] \in Int /\ remainQuota'[x] \in Int
    BY <2>1 DEF TypeOK
  <2>3. remainQuota' = [remainQuota EXCEPT ![x] = remainQuota'[x]]
    BY <2>1 DEF TypeOK
  <2>4. n \in Int /\ remainQuota'[x] = remainQuota[x] + n
    BY <2>2
  <2> HIDE DEF n
  <2>5. remainQuota' = [remainQuota EXCEPT ![x] = remainQuota[x] + n]
    BY <2>3, <2>4
  <2> QED
    BY <1>1, <2>1, <2>4, <2>5 DEF TokenRevalued
<1> QED
  BY <1>2, <1>3, <1>4 DEF SaveStep

(* A top-up revalues its user's row. *)
LEMMA TopUpMoves ==
    ASSUME NEW u \in Users, TopUp(u)
    PROVE  (\E n \in Nat : UserRevalued(u, n)) /\ Revalue(u)
BY BillingAssumption DEF TopUp, UserRevalued, Credited, holdVars

(* The two sums hold in every state. *)
LEMMA ConservedHolds == Spec => []Conserved
<1>1. Init => Conserved
  <2> SUFFICES ASSUME Init PROVE Conserved
    OBVIOUS
  <2>1. ASSUME NEW u \in Users PROVE UserConserved(u)
    <3>1. SumFunctionOnSet(userHeld, OfUser(u)) = 0
      BY OfsFinite, SumZero DEF Init, OfUser
    <3> QED
      BY <3>1, BillingAssumption DEF Init, UserConserved, Rows
  <2>2. ASSUME NEW t \in Tokens PROVE TokenConserved(t)
    <3>1. SumFunctionOnSet(tokenHeld, OfToken(t)) = 0
      BY OfsFinite, SumZero DEF Init, OfToken
    <3>2. t \notin Users /\ t \in Rows /\ InitTokenQuota[t] \in Int
      BY BillingAssumption DEF Rows
    <3>3. /\ remainQuota[t] = InitTokenQuota[t] /\ tokenUsed[t] = 0
          /\ funded[t] = InitTokenQuota[t] /\ undone[t] = 0
      BY <3>2 DEF Init
    <3> QED
      BY <3>1, <3>2, <3>3 DEF TokenConserved
  <2> QED
    BY <2>1, <2>2 DEF Conserved
<1>2. TypeOK /\ TypeOK' /\ Conserved /\ [Next]_vars => Conserved'
  <2> SUFFICES ASSUME TypeOK, TypeOK', Conserved, [Next]_vars PROVE Conserved'
    OBVIOUS
  <2>1. ASSUME NEW s \in Saves, SaveStep(s) PROVE Conserved'
    BY <2>1, SaveMoves, StillConserved, RevaluedStaysConserved
  <2>2. ASSUME NEW u \in Users, TopUp(u) PROVE Conserved'
    BY <2>2, TopUpMoves, RevaluedStaysConserved
  <2>3. CASE (\E u \in Users : ExpireCache(u)) \/ (\E t \in Tokens : DeleteToken(t))
             \/ UNCHANGED vars
    BY <2>3, StillConserved
    DEF ExpireCache, DeleteToken, vars, dbVars, holdVars, worthVars, NothingMoves
  <2> QED
    BY <2>1, <2>2, <2>3, AttemptsConserve DEF Next, Environment
<1> QED
  BY <1>1, <1>2, TypeCorrect, PTL DEF Spec

-----------------------------------------------------------------------------
(***************************************************************************)
(* Calls that save a row.  The quota a call has read is that of the row    *)
(* until something else updates the row, and that something is what makes  *)
(* the call overtaken: so a call that is not changes nothing.              *)
(***************************************************************************)
Fresh(s) == saveAt[s] \in {"read", "again"} /\ s \notin overtaken

CopyIsRow(s) ==
    /\ RowOf[s] \in Users  => copy[s].quota = userQuota[RowOf[s]]
    /\ RowOf[s] \in Tokens => copy[s].quota = remainQuota[RowOf[s]]

FreshInv == \A s \in Saves : Fresh(s) => CopyIsRow(s)

(* A call keeps its copy up to date through a step of another that either    *)
(* leaves its row alone or makes it overtaken.                               *)
LEMMA OthersKeepFresh ==
    ASSUME NEW s \in Saves, Fresh(s) => CopyIsRow(s),
           saveAt'[s] = saveAt[s], copy'[s] = copy[s], overtaken \subseteq overtaken',
           NEW x,
           \A u \in Users : u # x => userQuota'[u] = userQuota[u],
           \A t \in Tokens : t # x => remainQuota'[t] = remainQuota[t],
           s \in Behind(x) => s \in overtaken'
    PROVE  Fresh(s)' => CopyIsRow(s)'
BY DEF Fresh, CopyIsRow, Behind

(* A step of an attempt outdates the copies of the row it moves. *)
LEMMA AttemptsKeepFresh ==
    ASSUME TypeOK, TypeOK', FreshInv, NEW a \in Attempts, AttemptStep(a)
    PROVE  FreshInv' /\ overtaken \subseteq overtaken'
<1>1. saveAt' = saveAt /\ copy' = copy
  BY StepIsLocal DEF saveVars
<1>2. CASE NothingMoves /\ overtaken' = overtaken
  BY <1>1, <1>2 DEF FreshInv, Fresh, CopyIsRow, NothingMoves
<1>3. ASSUME NEW n \in Int, UserPays(a, n) PROVE FreshInv' /\ overtaken \subseteq overtaken'
  <2>1. /\ \A u \in Users : u # User(a) => userQuota'[u] = userQuota[u]
        /\ remainQuota' = remainQuota
        /\ overtaken' = overtaken \cup Behind(User(a))
    BY <1>3 DEF UserPays, TypeOK
  <2> QED
    BY <1>1, <2>1, OthersKeepFresh DEF FreshInv
<1>4. ASSUME NEW n \in Int, TokenPays(a, n) PROVE FreshInv' /\ overtaken \subseteq overtaken'
  <2>1. /\ \A t \in Tokens : t # Token(a) => remainQuota'[t] = remainQuota[t]
        /\ userQuota' = userQuota
        /\ overtaken' = overtaken \cup Behind(Token(a))
    BY <1>4 DEF TokenPays, TypeOK
  <2> QED
    BY <1>1, <2>1, OthersKeepFresh DEF FreshInv
<1> QED
  BY <1>2, <1>3, <1>4, StepMoves

(* A call that reads a row has the row; one that saves it outdates the others'. *)
LEMMA SavesKeepFresh ==
    ASSUME TypeOK, FreshInv, NEW s \in Saves, SaveStep(s)
    PROVE  FreshInv' /\ overtaken \subseteq overtaken'
<1> DEFINE x == RowOf[s]
<1>1. /\ \A c \in Saves \ {s} : saveAt'[c] = saveAt[c] /\ copy'[c] = copy[c]
      /\ x \in Users => x \notin Tokens
  BY BillingAssumption
  DEF SaveStep, ReadUserRow, WriteBackUser, EditUser, ReadTokenRow, WriteBackToken,
      EditToken, UpdateTokenRow, Finish, TypeOK
<1>2. CASE ReadUserRow(s) \/ ReadTokenRow(s)
  <2>1. UNCHANGED <<userQuota, remainQuota, overtaken>> /\ x \in Users \cup Tokens
    BY <1>2, BillingAssumption DEF ReadUserRow, ReadTokenRow
  <2>2. CopyIsRow(s)'
    <3>1. CASE ReadUserRow(s)
      BY <1>1, <2>1, <3>1 DEF ReadUserRow, CopyIsRow, TypeOK
    <3>2. CASE ReadTokenRow(s)
      <4>1. x \in Tokens /\ x \notin Users
        BY <1>1, <3>2 DEF ReadTokenRow, TypeOK
      <4>2. copy'[s].quota = remainQuota[x]
        BY <3>2 DEF ReadTokenRow, TypeOK, Copies
      <4> QED
        BY <2>1, <4>1, <4>2 DEF CopyIsRow
    <3> QED
      BY <1>2, <3>1, <3>2
  <2>3. ASSUME NEW c \in Saves \ {s} PROVE Fresh(c)' => CopyIsRow(c)'
    BY <1>1, <2>1 DEF FreshInv, Fresh, CopyIsRow
  <2> QED
    BY <2>1, <2>2, <2>3 DEF FreshInv
<1>3. CASE WriteBackUser(s) \/ EditUser(s)
  <2>1. /\ x \in Users /\ remainQuota' = remainQuota
        /\ overtaken' = overtaken \cup (Behind(x) \ {s})
        /\ \A u \in Users : u # x => userQuota'[u] = userQuota[u]
    BY <1>3 DEF WriteBackUser, EditUser, UpdateUserRow, TypeOK
  <2>2. ASSUME NEW c \in Saves \ {s} PROVE Fresh(c)' => CopyIsRow(c)'
    BY <1>1, <2>1, OthersKeepFresh DEF FreshInv
  <2>3. Fresh(s)' => CopyIsRow(s)'
    <3>1. CASE saveAt'[s] = "saved"
      BY <3>1 DEF Fresh
    <3>2. CASE saveAt'[s] # "saved"
      <4>1. WriteBackUser(s) /\ copy' = copy /\ saveAt[s] = "read"
        BY <1>3, <3>2 DEF WriteBackUser, EditUser, Finish, TypeOK
      <4>2. userQuota'[x] = NonZero(copy[s].quota, userQuota[x])
        BY <2>1, <4>1 DEF WriteBackUser, UpdateUserRow, TypeOK
      <4>3. SUFFICES ASSUME s \notin overtaken' PROVE CopyIsRow(s)'
        BY DEF Fresh
      <4>4. copy[s].quota = userQuota[x]
        BY <2>1, <4>1, <4>3 DEF FreshInv, Fresh, CopyIsRow
      <4> QED
        BY <1>1, <2>1, <4>1, <4>2, <4>4 DEF CopyIsRow, NonZero
    <3> QED
      BY <3>1, <3>2
  <2> QED
    BY <2>1, <2>2, <2>3 DEF FreshInv
<1>4. CASE WriteBackToken(s) \/ EditToken(s)
  <2>1. /\ x \in Tokens /\ userQuota' = userQuota /\ saveAt'[s] = "saved"
        /\ overtaken \subseteq overtaken'
        /\ \A t \in Tokens : t # x => remainQuota'[t] = remainQuota[t]
    BY <1>4 DEF WriteBackToken, EditToken, UpdateTokenRow, Finish, TypeOK
  <2>2. \/ remainQuota' = remainQuota
        \/ overtaken' = overtaken \cup (Behind(x) \ {s})
    BY <1>4 DEF WriteBackToken, EditToken, UpdateTokenRow
  <2>3. ASSUME NEW c \in Saves \ {s} PROVE Fresh(c)' => CopyIsRow(c)'
    <3>1. CASE remainQuota' = remainQuota
      BY <1>1, <2>1, <3>1 DEF FreshInv, Fresh, CopyIsRow
    <3>2. CASE overtaken' = overtaken \cup (Behind(x) \ {s})
      BY <1>1, <2>1, <3>2, OthersKeepFresh DEF FreshInv
    <3> QED
      BY <2>2, <3>1, <3>2
  <2>4. ~Fresh(s)'
    BY <2>1 DEF Fresh
  <2> QED
    BY <2>1, <2>3, <2>4 DEF FreshInv
<1> QED
  BY <1>2, <1>3, <1>4 DEF SaveStep

(* Only a call that has been overtaken undoes something. *)
LEMMA FreshSavesUndoNothing ==
    ASSUME TypeOK, FreshInv, OnlyOvertakenSavesUndo, NEW s \in Saves, SaveStep(s)
    PROVE  OnlyOvertakenSavesUndo'
<1> DEFINE x == RowOf[s]
<1>1. overtaken \subseteq overtaken'
  BY SavesKeepFresh
<1>2. CASE undone' = undone
  BY <1>1, <1>2 DEF OnlyOvertakenSavesUndo, Rows
<1>3. ASSUME undone' # undone
      PROVE  /\ s \in overtaken
             /\ \A y \in Rows : y # x => undone'[y] = undone[y]
  <2>1. WriteBackUser(s) \/ WriteBackToken(s)
    BY <1>3 DEF SaveStep, ReadUserRow, EditUser, ReadTokenRow, EditToken, worthVars
  <2>2. \A y \in Rows : y # x => undone'[y] = undone[y]
    BY <2>1 DEF WriteBackUser, WriteBackToken, TypeOK
  <2>3. SUFFICES ASSUME s \notin overtaken PROVE FALSE
    BY <2>2
  <2>4. saveAt[s] \in {"read", "again"} /\ CopyIsRow(s)
    BY <2>1, <2>3 DEF WriteBackUser, WriteBackToken, UpdateTokenRow, FreshInv, Fresh
  <2>5. x \in Rows /\ undone[x] \in Int
    BY BillingAssumption DEF Rows, TypeOK
  <2>6. CASE WriteBackUser(s)
    <3>1. x \in Users /\ userQuota'[x] = NonZero(copy[s].quota, userQuota[x])
          /\ userQuota[x] \in Int
      BY <2>6 DEF WriteBackUser, UpdateUserRow, TypeOK
    <3>2. userQuota'[x] = userQuota[x]
      BY <2>4, <3>1 DEF CopyIsRow, NonZero
    <3>3. undone' = [undone EXCEPT ![x] = undone[x] + (userQuota'[x] - userQuota[x])]
      BY <2>6 DEF WriteBackUser
    <3>4. undone[x] + (userQuota'[x] - userQuota[x]) = undone[x]
      BY <2>5, <3>1, <3>2
    <3> QED
      BY <1>3, <3>3, <3>4 DEF TypeOK
  <2>7. CASE WriteBackToken(s)
    <3>1. x \in Tokens /\ remainQuota[x] \in Int
      BY <2>7 DEF WriteBackToken, UpdateTokenRow, TypeOK
    <3>2. remainQuota'[x] = remainQuota[x]
      BY <2>4, <2>7, <3>1 DEF WriteBackToken, UpdateTokenRow, CopyIsRow, TypeOK
    <3>3. undone' = [undone EXCEPT ![x] = undone[x] + (remainQuota'[x] - remainQuota[x])]
      BY <2>7 DEF WriteBackToken
    <3>4. undone[x] + (remainQuota'[x] - remainQuota[x]) = undone[x]
      BY <2>5, <3>1, <3>2
    <3> QED
      BY <1>3, <3>3, <3>4 DEF TypeOK
  <2> QED
    BY <2>1, <2>6, <2>7
<1>4. CASE undone' # undone
  BY <1>1, <1>3, <1>4 DEF OnlyOvertakenSavesUndo, Rows
<1> QED
  BY <1>2, <1>4

(* Both hold in every state. *)
LEMMA SavesUndoOnlyWhenOvertaken == Spec => [](FreshInv /\ OnlyOvertakenSavesUndo)
<1> DEFINE Inv == FreshInv /\ OnlyOvertakenSavesUndo
<1>1. Init => Inv
  BY DEF Init, FreshInv, Fresh, OnlyOvertakenSavesUndo
<1>2. TypeOK /\ TypeOK' /\ Inv /\ [Next]_vars => Inv'
  <2> SUFFICES ASSUME TypeOK, TypeOK', Inv, [Next]_vars PROVE Inv'
    OBVIOUS
  <2>1. ASSUME NEW a \in Attempts, AttemptStep(a) PROVE Inv'
    <3>1. undone' = undone
      BY <2>1, StepIsLocal DEF worthVars
    <3>2. FreshInv' /\ overtaken \subseteq overtaken'
      BY <2>1, AttemptsKeepFresh
    <3> QED
      BY <3>1, <3>2 DEF OnlyOvertakenSavesUndo, Rows
  <2>2. ASSUME NEW s \in Saves, SaveStep(s) PROVE Inv'
    BY <2>2, SavesKeepFresh, FreshSavesUndoNothing
  <2>3. ASSUME NEW u \in Users, TopUp(u) PROVE Inv'
    <3>1. /\ undone' = undone /\ overtaken' = overtaken \cup Behind(u)
          /\ saveAt' = saveAt /\ copy' = copy /\ remainQuota' = remainQuota
          /\ \A v \in Users : v # u => userQuota'[v] = userQuota[v]
      BY <2>3 DEF TopUp, saveVars, TypeOK
    <3>2. FreshInv'
      BY <3>1, OthersKeepFresh DEF FreshInv
    <3> QED
      BY <3>1, <3>2 DEF OnlyOvertakenSavesUndo, Rows
  <2>4. CASE (\E u \in Users : ExpireCache(u)) \/ (\E t \in Tokens : DeleteToken(t))
             \/ UNCHANGED vars
    BY <2>4 DEF ExpireCache, DeleteToken, vars, dbVars, saveVars, worthVars, FreshInv,
                Fresh, CopyIsRow, OnlyOvertakenSavesUndo, Rows
  <2> QED
    BY <2>1, <2>2, <2>3, <2>4 DEF Next, Environment
<1> HIDE DEF Inv
<1>3. Spec => []Inv
  BY <1>1, <1>2, TypeCorrect, PTL DEF Spec
<1> QED
  BY <1>3, PTL DEF Inv

(* A user's or a token's row is what it was funded with, corrected by what the *)
(* saves of outdated rows (user.go:195, token.go:249) undid, less what the     *)
(* attempts hold of it; no other save undoes anything.                         *)
THEOREM Conservation == Spec => []QuotaConserved
<1>1. Conserved /\ OnlyOvertakenSavesUndo => QuotaConserved
  BY DEF Conserved, UserConserved, TokenConserved, OfUser, OfToken, QuotaConserved,
         RowsBalance, UsageIsExact
<1> QED
  BY <1>1, ConservedHolds, SavesUndoOnlyWhenOvertaken, PTL

-----------------------------------------------------------------------------
(***************************************************************************)
(* The Redis copy.  It is filled from the row and from what an attempt has *)
(* read before, so the bound must hold of every value read as well; of the *)
(* row it follows from conservation, because no attempt holds less than 0. *)
(***************************************************************************)
CeilingInv ==
    \A u \in Users : ceiling[u] >= 0 /\ funded[u] + undone[u] <= ceiling[u]

CacheInv ==
    /\ CeilingInv
    /\ CacheNeverInventsQuota
    /\ \A a \in Attempts : seen[a] <= ceiling[User(a)]

(* The row never shows more than the user has ever been worth. *)
LEMMA RowBelowCeiling ==
    ASSUME TypeOK, Conserved, NoRefundBeyondHold, CeilingInv, NEW u \in Users
    PROVE  userQuota[u] <= ceiling[u]
<1>1. IsFiniteSet(OfUser(u)) /\ \A a \in OfUser(u) : userHeld[a] \in Nat
  <2>1. IsFiniteSet(OfUser(u))
    BY OfsFinite
  <2>2. \A a \in Attempts : userHeld[a] \in Int /\ userHeld[a] >= 0
    BY DEF TypeOK, NoRefundBeyondHold
  <2>3. \A a \in OfUser(u) : a \in Attempts
    BY DEF OfUser
  <2>4. \A a \in OfUser(u) : userHeld[a] \in Nat
    BY <2>2, <2>3
  <2> QED
    BY <2>1, <2>4
<1>2. SumFunctionOnSet(userHeld, OfUser(u)) \in Nat
  BY <1>1, SumNatural
<1>3. userQuota[u] + SumFunctionOnSet(userHeld, OfUser(u)) = funded[u] + undone[u]
  BY DEF Conserved, UserConserved
<1>4. funded[u] + undone[u] <= ceiling[u]
  BY DEF CeilingInv
<1>5. /\ userQuota[u] \in Int /\ ceiling[u] \in Int
      /\ funded[u] \in Int /\ undone[u] \in Int
  BY DEF TypeOK, Rows
<1> QED
  BY <1>2, <1>3, <1>4, <1>5

(* When a row is revalued the ceiling follows, and never falls. *)
LEMMA CeilingFollows ==
    ASSUME TypeOK, TypeOK', CeilingInv, NEW v \in Users, Revalue(v),
           \A w \in Users : w # v => funded'[w] = funded[w] /\ undone'[w] = undone[w]
    PROVE  CeilingInv' /\ \A w \in Users : ceiling[w] <= ceiling'[w]
<1> DEFINE worth(w) == funded'[w] + undone'[w]
<1>1. \A w \in Users : /\ ceiling[w] \in Int /\ worth(w) \in Int
                       /\ ceiling[w] >= 0
                       /\ w # v => worth(w) <= ceiling[w]
  BY DEF CeilingInv, TypeOK, Rows
<1>2. ceiling' = IF worth(v) > ceiling[v] THEN [ceiling EXCEPT ![v] = worth(v)] ELSE ceiling
  BY DEF Revalue
<1>3. \A w \in Users : ceiling'[w] = IF w = v /\ worth(v) > ceiling[v] THEN worth(v) ELSE ceiling[w]
  BY <1>2 DEF TypeOK
<1> HIDE DEF worth
<1>4. ASSUME NEW w \in Users PROVE ceiling'[w] >= ceiling[w] /\ ceiling'[w] >= worth(w)
                                   /\ ceiling'[w] >= 0 /\ ceiling'[w] \in Int
  <2>1. CASE w = v /\ worth(v) > ceiling[v]
    BY <1>1, <1>3, <2>1
  <2>2. CASE ~(w = v /\ worth(v) > ceiling[v])
    BY <1>1, <1>3, <2>2
  <2> QED
    BY <2>1, <2>2
<1>5. \A w \in Users : worth(w) <= ceiling'[w] /\ ceiling[w] <= ceiling'[w]
  BY <1>1, <1>4
<1> QED
  BY <1>4, <1>5 DEF CeilingInv, worth

(* And where it has not fallen, what was below it still is. *)
LEMMA HigherCeiling ==
    ASSUME TypeOK, TypeOK', CacheInv, CeilingInv',
           \A w \in Users : ceiling[w] <= ceiling'[w], UNCHANGED <<cache, seen>>
    PROVE  CacheInv'
<1>1. \A w \in Users : ceiling[w] \in Int /\ ceiling'[w] \in Int
  BY DEF TypeOK
<1>2. ASSUME NEW w \in Users, cache'[w] # NoKey PROVE cache'[w] <= ceiling'[w]
  <2>1. cache[w] \in Int /\ cache'[w] = cache[w] /\ cache[w] <= ceiling[w]
    BY <1>2 DEF CacheInv, CacheNeverInventsQuota, TypeOK
  <2> QED
    BY <1>1, <2>1
<1>3. ASSUME NEW a \in Attempts PROVE seen'[a] <= ceiling'[User(a)]
  <2>1. seen[a] \in Int /\ seen'[a] = seen[a] /\ seen[a] <= ceiling[User(a)]
    BY DEF CacheInv, TypeOK
  <2>2. User(a) \in Users
    BY AttemptTypes
  <2> QED
    BY <1>1, <2>1, <2>2
<1> QED
  BY <1>2, <1>3 DEF CacheInv, CacheNeverInventsQuota, User, Token

(* Of the cache and the values read, a step changes one entry each at most, to a *)
(* value within the bound.                                                       *)
LEMMA CacheStep ==
    ASSUME TypeOK, TypeOK', CacheInv, Conserved, NoRefundBeyondHold,
           NEW a \in Attempts, AttemptStep(a)
    PROVE  CacheInv'
<1> USE DEF dbVars, holdVars
<1> DEFINE u == User(a)
           Within(v) == v \in Int /\ v <= ceiling[u]
<1>1. /\ u \in Users /\ Cost(a) \in Nat /\ ceiling[u] \in Int /\ ceiling[u] >= 0
      /\ \A b \in Attempts : User(b) \in Users /\ User(b)' = User(b)
  BY AttemptTypes DEF TypeOK, User, Token, CacheInv, CeilingInv
<1>2. Within(userQuota[u]) /\ Within(seen[a]) /\ (cache[u] # NoKey => Within(cache[u]))
      /\ Within(0)
  BY <1>1, RowBelowCeiling DEF CacheInv, CacheNeverInventsQuota, TypeOK
<1>3. UNCHANGED <<funded, undone, ceiling>>
  BY StepIsLocal DEF worthVars
<1>4. ASSUME cache' = cache \/ \E v \in Int : Within(v) /\ cache' = [cache EXCEPT ![u] = v],
             seen' = seen \/ \E v \in Int : Within(v) /\ seen' = [seen EXCEPT ![a] = v]
      PROVE  CacheInv'
  <2>1. ASSUME NEW w \in Users, cache'[w] # NoKey PROVE cache'[w] <= ceiling'[w]
    BY <1>3, <1>4, <2>1 DEF CacheInv, CacheNeverInventsQuota, TypeOK
  <2>2. ASSUME NEW b \in Attempts PROVE seen'[b] <= ceiling'[User(b)]
    BY <1>3, <1>4 DEF CacheInv, TypeOK
  <2>3. CeilingInv'
    BY <1>3 DEF CacheInv, CeilingInv
  <2> QED
    BY <1>1, <2>1, <2>2, <2>3 DEF CacheInv, CacheNeverInventsQuota
<1>5. CASE CacheGetUserQuota(a) \/ CacheUpdateRead(a)
  <2>1. \E v \in Int : Within(v) /\ seen' = [seen EXCEPT ![a] = v]
    BY <1>2, <1>5 DEF CacheGetUserQuota, CacheUpdateRead, CacheHit
  <2>2. cache' = cache
    BY <1>5 DEF CacheGetUserQuota, CacheUpdateRead
  <2> QED
    BY <1>4, <2>1, <2>2
<1>6. CASE FillCache(a) \/ CacheUpdateFill(a) \/ CacheUpdateStore(a)
  <2>1. cache' = [cache EXCEPT ![u] = seen[a]]
        /\ (seen' = seen \/ seen' = [seen EXCEPT ![a] = 0])
    BY <1>6 DEF FillCache, CacheUpdateFill, CacheUpdateStore
  <2> QED
    BY <1>2, <1>4, <2>1
<1>7. CASE CacheDecreaseUserQuota(a)
  <2> DEFINE d == Decremented(cache[u], Cost(a))
  <2>1. Within(d)
    BY <1>1, <1>2 DEF Decremented
  <2>2. seen' = seen /\ (cache' = cache \/ cache' = [cache EXCEPT ![u] = d])
    <3>1. cache' = IF RedisEnabled THEN [cache EXCEPT ![u] = d] ELSE cache
      BY <1>1, <1>7 DEF CacheDecreaseUserQuota, TypeOK
    <3> QED
      BY <1>7, <3>1 DEF CacheDecreaseUserQuota
  <2> HIDE DEF d
  <2> QED
    BY <1>4, <2>1, <2>2
<1>8. CASE RelayStep(a)
  <2>1. cache' = cache /\ seen' = [seen EXCEPT ![a] = 0]
    BY <1>8 DEF RelayStep, LocalError, ProviderError, ProviderAnswers,
                ProviderAnswersWithoutUsage
  <2> QED
    BY <1>2, <1>4, <2>1
<1>9. CASE ~ \/ CacheGetUserQuota(a) \/ CacheUpdateRead(a)
             \/ FillCache(a) \/ CacheUpdateFill(a) \/ CacheUpdateStore(a)
             \/ CacheDecreaseUserQuota(a) \/ RelayStep(a)
  <2>1. UNCHANGED <<cache, seen>>
    BY <1>9 DEF AttemptStep, StartAttempt, SkipAttempt, PreConsumeStep,
         CheckTokenQuotaSufficient, CheckBudget, CacheDecreaseFails, PreConsumeCheckToken,
         PreConsumeCheckUser, PreConsumeFromToken, PreConsumeFromUser, PreConsumeFails,
         PostConsumeStep, PostConsumeReadToken,
         PostConsumeUser, PostConsumeUserFails, PostConsumeToken,
         PostConsumeTokenFails, BookUsage
  <2> QED
    BY <1>4, <2>1
<1> QED
  BY <1>5, <1>6, <1>7, <1>8, <1>9

(* CacheInv holds of every reachable state. *)
LEMMA CacheInvHolds == Spec => []CacheInv
<1>1. Init => CacheInv
  BY BillingAssumption, AttemptTypes
  DEF Init, CacheInv, CacheNeverInventsQuota, CeilingInv, Rows
<1>2. TypeOK /\ TypeOK' /\ CacheInv /\ Conserved /\ NoRefundBeyondHold /\ [Next]_vars
        => CacheInv'
  <2> SUFFICES ASSUME TypeOK, TypeOK', CacheInv, Conserved, NoRefundBeyondHold,
                      [Next]_vars
               PROVE  CacheInv'
    OBVIOUS
  <2>1. ASSUME NEW v \in Users, NEW n \in Int, UserRevalued(v, n), Revalue(v),
               UNCHANGED <<cache, seen>>
        PROVE  CacheInv'
    <3>1. \A w \in Users : w # v => funded'[w] = funded[w] /\ undone'[w] = undone[w]
      BY <2>1 DEF UserRevalued, Credited, TypeOK, Rows
    <3>2. CeilingInv
      BY DEF CacheInv
    <3> QED
      BY <2>1, <3>1, <3>2, CeilingFollows, HigherCeiling
  <2>2. ASSUME UNCHANGED ceiling, UNCHANGED <<cache, seen>>,
               \A w \in Users : funded'[w] = funded[w] /\ undone'[w] = undone[w]
        PROVE  CacheInv'
    BY <2>2 DEF CacheInv, CeilingInv, CacheNeverInventsQuota, User, Token
  <2>3. ASSUME NEW s \in Saves, SaveStep(s) PROVE CacheInv'
    <3>1. UNCHANGED <<cache, seen>>
      BY <2>3, SaveSpares
    <3>2. ASSUME funded' = funded, undone' = undone, NothingMoves PROVE CacheInv'
      <4>1. CASE ceiling' = ceiling
        BY <2>2, <3>1, <3>2, <4>1
      <4>2. CASE ~(ceiling' = ceiling)
        <5>1. RowOf[s] \in Users /\ Revalue(RowOf[s])
          BY <2>3, <4>2 DEF SaveStep, ReadUserRow, WriteBackUser, EditUser, ReadTokenRow,
                            WriteBackToken, EditToken, UpdateUserRow, UpdateTokenRow, worthVars
        <5> QED
          BY <3>1, <3>2, <5>1, CeilingFollows, HigherCeiling DEF CacheInv
      <4> QED
        BY <4>1, <4>2
    <3>3. ASSUME NEW n \in Int, RowOf[s] \in Tokens, TokenRevalued(RowOf[s], n),
                 ceiling' = ceiling
          PROVE  CacheInv'
      <4>1. \A w \in Users : w # RowOf[s] /\ w \in Rows
        BY <3>3, BillingAssumption DEF Rows
      <4>2. \A w \in Users : funded'[w] = funded[w] /\ undone'[w] = undone[w]
        BY <3>3, <4>1 DEF TokenRevalued, Credited, TypeOK
      <4> QED
        BY <2>2, <3>1, <3>3, <4>2
    <3> QED
      BY <2>1, <2>3, <3>1, <3>2, <3>3, SaveMoves
  <2>4. ASSUME NEW u \in Users, TopUp(u) PROVE CacheInv'
    <3>1. UNCHANGED <<cache, seen>>
      BY <2>4 DEF TopUp
    <3> QED
      BY <2>1, <2>4, <3>1, TopUpMoves
  <2>5. ASSUME NEW u \in Users, ExpireCache(u) PROVE CacheInv'
    BY <2>5 DEF ExpireCache, CacheInv, CeilingInv, CacheNeverInventsQuota, TypeOK, dbVars,
                worthVars, User, Token
  <2>6. CASE (\E t \in Tokens : DeleteToken(t)) \/ UNCHANGED vars
    BY <2>2, <2>6 DEF DeleteToken, vars, dbVars, worthVars
  <2> QED
    BY <2>3, <2>4, <2>5, <2>6, CacheStep DEF Next, Environment
<1> QED
  BY <1>1, <1>2, TypeCorrect, ConservedHolds, NoQuotaMade, PTL DEF Spec

(* The Redis copy never shows more than the user has ever been worth. *)
THEOREM CacheBounded == Spec => []CacheNeverInventsQuota
BY CacheInvHolds, PTL DEF CacheInv
=============================================================================
