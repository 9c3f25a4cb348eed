---------------------------- MODULE FormsProofs ----------------------------
(***************************************************************************)
(* Proofs about Forms, for any rows, any number of calls in flight, of     *)
(* openings and submissions, and of refused or lost calls.                 *)
(***************************************************************************)
EXTENDS Forms, Functions, FiniteSetTheorems, WellFoundedInduction, TLAPS

-----------------------------------------------------------------------------
(***************************************************************************)
(* Sums over finite sets.  SumFunctionOnSet is defined by recursion over   *)
(* the subsets of a set; these lemmas say that the recursion has a value,  *)
(* that the order of the elements does not matter, and how the sum moves   *)
(* when a value or the set changes.  Each is proved from a smallest set    *)
(* for which it fails.                                                     *)
(***************************************************************************)
Pick(s) == CHOOSE x \in s : TRUE

\* g[s] is the sum of f over s, for every subset s of S.
Totals(g, f, S) ==
    g = [s \in SUBSET S |-> IF s = {} THEN 0 ELSE f[Pick(s)] + g[s \ {Pick(s)}]]

(* Among subsets of a finite set there is one that contains no other. *)
LEMMA Smallest ==
    ASSUME NEW S, IsFiniteSet(S), NEW Bad, Bad \subseteq SUBSET S, Bad # {}
    PROVE  \E s \in Bad : \A t \in Bad : t \subseteq s => t = s
<1>1. IsWellFoundedOn(StrictSubsetOrdering(S), SUBSET S)
  BY FS_StrictSubsetOrderingWellFounded, FS_FiniteSubsetsOfFinite
<1>2. PICK s \in Bad : \A t \in Bad : <<t, s>> \notin StrictSubsetOrdering(S)
  BY <1>1, WFMin
<1> QED
  BY <1>2 DEF StrictSubsetOrdering

(* Two such functions agree where both are defined. *)
LEMMA TotalsAgree ==
    ASSUME NEW S, IsFiniteSet(S), NEW f, NEW U \in SUBSET S, NEW V \in SUBSET S,
           NEW g, NEW h, Totals(g, f, U), Totals(h, f, V)
    PROVE  \A s \in SUBSET (U \cap V) : g[s] = h[s]
<1> DEFINE Bad == {s \in SUBSET (U \cap V) : g[s] # h[s]}
<1> SUFFICES ASSUME Bad # {} PROVE FALSE
  OBVIOUS
<1>1. PICK s \in Bad : \A t \in Bad : t \subseteq s => t = s
  <2>1. Bad \subseteq SUBSET S
    OBVIOUS
  <2> HIDE DEF Bad
  <2> QED
    BY <2>1, Smallest
<1>2. s # {}
  BY DEF Totals
<1> DEFINE t == s \ {Pick(s)}
<1>3. Pick(s) \in s
  BY <1>2 DEF Pick
<1>4. g[t] = h[t]
  BY <1>1, <1>3
<1>5. g[s] = f[Pick(s)] + g[t] /\ h[s] = f[Pick(s)] + h[t]
  BY <1>2 DEF Totals
<1> QED
  BY <1>4, <1>5

(* There is such a function for every finite set. *)
LEMMA TotalsExist ==
    ASSUME NEW S, IsFiniteSet(S), NEW f
    PROVE  \E g : Totals(g, f, S)
<1> DEFINE Bad == {s \in SUBSET S : ~ \E g : Totals(g, f, s)}
<1> SUFFICES ASSUME Bad # {} PROVE FALSE
  OBVIOUS
<1>1. PICK U \in Bad : \A t \in Bad : t \subseteq U => t = U
  <2>1. Bad \subseteq SUBSET S
    OBVIOUS
  <2> HIDE DEF Bad
  <2> QED
    BY <2>1, Smallest
<1> DEFINE G(s) == CHOOSE g : Totals(g, f, s)
           Rest(s) == s \ {Pick(s)}
           h == [s \in SUBSET U |-> IF s = {} THEN 0 ELSE f[Pick(s)] + G(Rest(s))[Rest(s)]]
<1>2. ASSUME NEW s \in SUBSET U, s # U PROVE Totals(G(s), f, s)
  <2>1. \E g : Totals(g, f, s)
    BY <1>1, <1>2
  <2> QED
    BY <2>1
<1> HIDE DEF G
<1>3. ASSUME NEW s \in SUBSET U, s # U PROVE h[s] = G(s)[s]
  <2>1. Totals(G(s), f, s)
    BY <1>2, <1>3
  <2>2. CASE s = {}
    BY <2>1, <2>2 DEF Totals
  <2>3. CASE s # {}
    <3>1. Pick(s) \in s
      BY <2>3 DEF Pick
    <3>2. Rest(s) \in SUBSET U /\ Rest(s) # U /\ Rest(s) \in SUBSET s
      BY <1>3, <3>1
    <3>3. Totals(G(Rest(s)), f, Rest(s))
      BY <1>2, <3>2
    <3>4. G(s)[Rest(s)] = G(Rest(s))[Rest(s)]
      <4>1. /\ s \in SUBSET S /\ Rest(s) \in SUBSET S
            /\ Rest(s) \in SUBSET (s \cap Rest(s))
        BY <1>1, <3>2
      <4>2. \A R \in SUBSET S : Totals(G(R), f, R) =>
                \A t \in SUBSET (s \cap R) : G(s)[t] = G(R)[t]
        BY <2>1, <4>1, TotalsAgree
      <4> HIDE DEF Rest
      <4> QED
        BY <3>3, <4>1, <4>2
    <3>5. G(s)[s] = f[Pick(s)] + G(s)[Rest(s)]
      BY <2>1, <2>3 DEF Totals
    <3>6. h[s] = f[Pick(s)] + G(Rest(s))[Rest(s)]
      BY <2>3
    <3> QED
      BY <3>4, <3>5, <3>6
  <2> QED
    BY <2>2, <2>3
<1>4. ASSUME NEW s \in SUBSET U, s # {} PROVE h[s] = f[Pick(s)] + h[Rest(s)]
  <2>1. Rest(s) \in SUBSET U /\ Rest(s) # U
    BY <1>4 DEF Pick
  <2>2. h[Rest(s)] = G(Rest(s))[Rest(s)]
    BY <1>3, <2>1
  <2>3. h[s] = f[Pick(s)] + G(Rest(s))[Rest(s)]
    BY <1>4
  <2> QED
    BY <2>2, <2>3
<1>5. h[{}] = 0
  OBVIOUS
<1>6. Totals(h, f, U)
  <2>1. h = [s \in SUBSET U |-> h[s]]
    OBVIOUS
  <2>2. \A s \in SUBSET U : h[s] = IF s = {} THEN 0 ELSE f[Pick(s)] + h[s \ {Pick(s)}]
    BY <1>4, <1>5
  <2> HIDE DEF h
  <2> QED
    BY <2>1, <2>2 DEF Totals
<1> QED
  BY <1>1, <1>6

(* One function gives the sums over all subsets of a finite set. *)
LEMMA SumIsTotal ==
    ASSUME NEW S, IsFiniteSet(S), NEW f, NEW g, Totals(g, f, S), NEW T \in SUBSET S
    PROVE  SumFunctionOnSet(f, T) = g[T]
<1>1. IsFiniteSet(T)
  BY FS_Subset
<1> DEFINE h == CHOOSE k : Totals(k, f, T)
<1>2. Totals(h, f, T)
  BY <1>1, TotalsExist
<1>3. SumFunctionOnSet(f, T) = h[T]
  BY DEF SumFunctionOnSet, FoldFunctionOnSet, MapThenFoldSet, Totals, Pick
<1> HIDE DEF h
<1>4. h[T] = g[T]
  BY <1>2, TotalsAgree
<1> QED
  BY <1>3, <1>4

(* The sum of nothing is 0. *)
LEMMA SumEmpty ==
    ASSUME NEW f
    PROVE  SumFunctionOnSet(f, {}) = 0
<1>1. IsFiniteSet({})
  BY FS_EmptySet
<1>2. PICK g : Totals(g, f, {})
  BY <1>1, TotalsExist
<1>3. g[{}] = 0
  BY <1>2 DEF Totals
<1> QED
  BY <1>1, <1>2, <1>3, SumIsTotal

(* What the recursion says of the element it picks. *)
LEMMA SumPick ==
    ASSUME NEW S, IsFiniteSet(S), S # {}, NEW f
    PROVE  SumFunctionOnSet(f, S) = f[Pick(S)] + SumFunctionOnSet(f, S \ {Pick(S)})
<1>1. PICK g : Totals(g, f, S)
  BY TotalsExist
<1>2. g[S] = f[Pick(S)] + g[S \ {Pick(S)}]
  BY <1>1 DEF Totals
<1> QED
  BY <1>1, <1>2, SumIsTotal

(* Sums of integers are integers. *)
LEMMA SumType ==
    ASSUME NEW S, IsFiniteSet(S), NEW f, \A x \in S : f[x] \in Int
    PROVE  SumFunctionOnSet(f, S) \in Int
<1> DEFINE Bad == {s \in SUBSET S : SumFunctionOnSet(f, s) \notin Int}
<1> SUFFICES ASSUME Bad # {} PROVE FALSE
  OBVIOUS
<1>1. PICK s \in Bad : \A t \in Bad : t \subseteq s => t = s
  <2>1. Bad \subseteq SUBSET S
    OBVIOUS
  <2> HIDE DEF Bad
  <2> QED
    BY <2>1, Smallest
<1>2. s # {} /\ IsFiniteSet(s)
  <2>1. IsFiniteSet(s)
    BY FS_Subset
  <2>2. SumFunctionOnSet(f, {}) = 0
    BY SumEmpty
  <2> QED
    BY <2>1, <2>2
<1>3. Pick(s) \in s
  BY <1>2 DEF Pick
<1>4. SumFunctionOnSet(f, s \ {Pick(s)}) \in Int
  BY <1>1, <1>3
<1>5. SumFunctionOnSet(f, s) = f[Pick(s)] + SumFunctionOnSet(f, s \ {Pick(s)})
  BY <1>2, SumPick
<1>6. f[Pick(s)] \in Int
  BY <1>3
<1> QED
  BY <1>4, <1>5, <1>6

(* Taking out one element takes out its value, whichever the element. *)
LEMMA SumRemove ==
    ASSUME NEW S, IsFiniteSet(S), NEW f, \A x \in S : f[x] \in Int, NEW a \in S
    PROVE  SumFunctionOnSet(f, S) = f[a] + SumFunctionOnSet(f, S \ {a})
<1> DEFINE Bad == {s \in SUBSET S :
                     \E x \in s : SumFunctionOnSet(f, s) # f[x] + SumFunctionOnSet(f, s \ {x})}
<1> SUFFICES ASSUME Bad # {} PROVE FALSE
  OBVIOUS
<1>1. PICK s \in Bad : \A t \in Bad : t \subseteq s => t = s
  <2>1. Bad \subseteq SUBSET S
    OBVIOUS
  <2> HIDE DEF Bad
  <2> QED
    BY <2>1, Smallest
<1>2. PICK x \in s : SumFunctionOnSet(f, s) # f[x] + SumFunctionOnSet(f, s \ {x})
  OBVIOUS
<1> DEFINE c == Pick(s)
           r == s \ {x}
           q == s \ {c}
           p == s \ {c, x}
<1>3. c \in s /\ IsFiniteSet(s) /\ IsFiniteSet(p)
  BY FS_Subset DEF Pick
<1>4. SumFunctionOnSet(f, s) = f[c] + SumFunctionOnSet(f, q)
  BY <1>3, SumPick
<1>5. c # x
  BY <1>2, <1>4
<1> HIDE DEF c
<1>6. SumFunctionOnSet(f, q) = f[x] + SumFunctionOnSet(f, p)
  <2>1. q \notin Bad /\ x \in q /\ q \ {x} = p /\ q \in SUBSET S
    BY <1>1, <1>3, <1>5
  <2> QED
    BY <2>1
<1>7. SumFunctionOnSet(f, r) = f[c] + SumFunctionOnSet(f, p)
  <2>1. r \notin Bad /\ c \in r /\ r \ {c} = p /\ r \in SUBSET S
    BY <1>1, <1>3, <1>5
  <2> QED
    BY <2>1
<1>8. SumFunctionOnSet(f, p) \in Int /\ f[c] \in Int /\ f[x] \in Int
  BY <1>3, SumType
<1> QED
  BY <1>2, <1>4, <1>6, <1>7, <1>8

(* Functions that are equal on a set have the same sum over it. *)
LEMMA SumSame ==
    ASSUME NEW S, IsFiniteSet(S), NEW f, NEW g, \A x \in S : f[x] = g[x]
    PROVE  SumFunctionOnSet(f, S) = SumFunctionOnSet(g, S)
<1> DEFINE Bad == {s \in SUBSET S : SumFunctionOnSet(f, s) # SumFunctionOnSet(g, s)}
<1> SUFFICES ASSUME Bad # {} PROVE FALSE
  OBVIOUS
<1>1. PICK s \in Bad : \A t \in Bad : t \subseteq s => t = s
  <2>1. Bad \subseteq SUBSET S
    OBVIOUS
  <2> HIDE DEF Bad
  <2> QED
    BY <2>1, Smallest
<1>2. s # {} /\ IsFiniteSet(s)
  BY SumEmpty, FS_Subset
<1>3. Pick(s) \in s
  BY <1>2 DEF Pick
<1>4. SumFunctionOnSet(f, s \ {Pick(s)}) = SumFunctionOnSet(g, s \ {Pick(s)})
  BY <1>1, <1>3
<1> QED
  BY <1>2, <1>3, <1>4, SumPick

(* When one value of a function moves by n, so does the sum. *)
LEMMA SumChange ==
    ASSUME NEW S, IsFiniteSet(S), NEW f, NEW g, NEW a \in S, NEW n \in Int,
           \A x \in S : f[x] \in Int, g[a] = f[a] + n,
           \A x \in S \ {a} : g[x] = f[x]
    PROVE  SumFunctionOnSet(g, S) = SumFunctionOnSet(f, S) + n
<1>1. IsFiniteSet(S \ {a})
  BY FS_Subset
<1>2. SumFunctionOnSet(g, S \ {a}) = SumFunctionOnSet(f, S \ {a})
  BY <1>1, SumSame
<1>3. /\ SumFunctionOnSet(f, S) = f[a] + SumFunctionOnSet(f, S \ {a})
      /\ SumFunctionOnSet(g, S) = g[a] + SumFunctionOnSet(g, S \ {a})
  BY SumRemove
<1>4. SumFunctionOnSet(f, S \ {a}) \in Int
  BY <1>1, SumType
<1> QED
  BY <1>2, <1>3, <1>4

(* A sum of zeros is 0. *)
LEMMA SumZero ==
    ASSUME NEW S, IsFiniteSet(S), NEW f, \A x \in S : f[x] = 0
    PROVE  SumFunctionOnSet(f, S) = 0
<1> DEFINE Bad == {s \in SUBSET S : SumFunctionOnSet(f, s) # 0}
<1> SUFFICES ASSUME Bad # {} PROVE FALSE
  OBVIOUS
<1>1. PICK s \in Bad : \A t \in Bad : t \subseteq s => t = s
  <2>1. Bad \subseteq SUBSET S
    OBVIOUS
  <2> HIDE DEF Bad
  <2> QED
    BY <2>1, Smallest
<1>2. s # {} /\ IsFiniteSet(s)
  BY SumEmpty, FS_Subset
<1>3. Pick(s) \in s
  BY <1>2 DEF Pick
<1>4. SumFunctionOnSet(f, s \ {Pick(s)}) = 0
  BY <1>1, <1>3
<1>5. SumFunctionOnSet(f, s) = f[Pick(s)] + SumFunctionOnSet(f, s \ {Pick(s)})
  BY <1>2, SumPick
<1> QED
  BY <1>3, <1>4, <1>5

-----------------------------------------------------------------------------
(* Types                                                                   *)

Rows == Ids \cup {0}
Fields == [of : Rows, ver : Nat, full : BOOLEAN, entered : BOOLEAN, keyed : BOOLEAN,
           raw : BOOLEAN]
View == [open : BOOLEAN, target : Rows, isEdit : BOOLEAN, loading : BOOLEAN, busy : BOOLEAN,
         inputs : Fields, initial : Fields, timers : Nat, opened : Nat]
Record == [op : {"load", "save"}, id : Rows, put : BOOLEAN, of : Rows, ver : Nat, n : Nat,
           left : Nat, total : Nat, made : Nat, phase : {"asked", "served"}, ok : BOOLEAN,
           alive : BOOLEAN]
History == [asked : Nat, troubles : Nat, untold : Int, hurried : BOOLEAN, blind : BOOLEAN,
            lost : BOOLEAN, refused : BOOLEAN]

TypeOK ==
  /\ form \in DefaultForms \cup AirForms \cup BerryForms
  /\ db \in [Ids -> Nat] /\ ui \in View /\ hist \in History
  /\ calls \in [Slots -> Record \cup {None}]

\* What is true of a call in flight by itself.
Whole(c) ==
  /\ c.op = "load" => c.id # 0 /\ c.made = 0 /\ c.total = 0 /\ c.left = 0
  /\ c.total # 0 \/ c.left # 0 => form = "air/token"
  /\ c.n > 0
  /\ c.phase = "asked" => c.made = 0
  /\ c.phase = "served" /\ c.op = "save" => IF c.ok THEN c.made = c.n ELSE hist.refused
  /\ form \notin DefaultForms => c.alive

\* The form for new users is for no row; the others agree about which row they are for.
Sane ==
  /\ ui.target # 0 => ui.opened <= db[ui.target]
  /\ form \in {"default/adduser", "air/adduser"} => ui.target = 0
  /\ form # "air/user" => (ui.isEdit <=> ui.target # 0)
  /\ form = "air/user" => (ui.open => ui.target # 0)
  /\ form = "air/token" => (~ui.open /\ ui.isEdit => ui.timers > 0)
  /\ form # "air/token" => ui.timers = 0
  /\ form \in BerryForms => (~ui.open => ui.target = 0)
  /\ form \in DefaultForms => ui.open

Base == TypeOK /\ Sane /\ \A s \in InFlight : Whole(calls[s])

(* No call in flight is mistaken for none. *)
LEMMA NoneIsNoCall == None \notin Record
BY DEF None, Record

(* A slot that is free. *)
LEMMA FreeSlot ==
  ASSUME InFlight # Slots
  PROVE  Least(Slots \ InFlight) \in Slots /\ calls[Least(Slots \ InFlight)] = None
<1> DEFINE free == Slots \ InFlight
<1>1. free # {} /\ free \in SUBSET Nat
  BY FormAssumption DEF InFlight
<1>2. \E m \in free : \A k \in free : m <= k
  <2> HIDE DEF free
  <2>1. PICK m \in free : \A k \in free : <<k, m>> \notin OpToRel(<, Nat)
    BY <1>1, NatLessThanWellFounded, WFMin
  <2>2. \A k \in free : ~(k < m)
    BY <1>1, <2>1 DEF OpToRel
  <2> QED
    BY <1>1, <2>2
<1>3. Least(free) \in free
  BY <1>2 DEF Least
<1> QED
  BY <1>3 DEF InFlight

(* At the start some slot is free as well. *)
LEMMA FirstSlot == Least(Slots) \in Slots
<1>1. \E m \in Slots : \A k \in Slots : m <= k
  <2>1. PICK m \in Slots : \A k \in Slots : <<k, m>> \notin OpToRel(<, Nat)
    BY FormAssumption, NatLessThanWellFounded, WFMin
  <2>2. \A k \in Slots : ~(k < m)
    BY FormAssumption, <2>1 DEF OpToRel
  <2> QED
    BY FormAssumption, <2>2
<1> QED
  BY <1>1 DEF Least

(* Inputs stay inputs when a field of theirs is entered. *)
LEMMA FieldTypes ==
  ASSUME NEW f \in Fields, NEW a \in BOOLEAN, NEW b \in BOOLEAN
  PROVE  /\ [f EXCEPT !.entered = a] \in Fields /\ [f EXCEPT !.keyed = a] \in Fields
         /\ [f EXCEPT !.full = a] \in Fields /\ [f EXCEPT !.raw = a] \in Fields
         /\ [f EXCEPT !.entered = a, !.full = b] \in Fields
         /\ [f EXCEPT !.entered = a, !.raw = b] \in Fields
BY DEF Fields

(* The inputs of a new row, and those an answer brings. *)
LEMMA OriginType ==
  /\ Origin \in Fields /\ Origin.of = 0
  /\ \A c \in Record : Loaded(c) \in Fields /\ Loaded(c).of = c.id /\ Loaded(c).ver = c.ver
<1>1. \A f, e, k, r \in BOOLEAN, i \in Rows, v \in Nat :
        [of |-> i, ver |-> v, full |-> f, entered |-> e, keyed |-> k, raw |-> r] \in Fields
  BY DEF Fields
<1>2. (form \notin ChannelForms) \in BOOLEAN /\ 0 \in Rows /\ 0 \in Nat
  BY DEF Rows
<1>3. Origin \in Fields
  BY <1>1, <1>2, Zenon DEF Origin
<1>4. ASSUME NEW c \in Record PROVE Loaded(c) \in Fields
  <2>1. c.id \in Rows /\ c.ver \in Nat
    BY DEF Record
  <2> QED
    BY <1>1, <2>1, Zenon DEF Loaded
<1> QED
  BY <1>3, <1>4 DEF Origin, Loaded

(* What a form shows when it is opened. *)
LEMMA ShowingType ==
  ASSUME TypeOK, NEW t \in Rows
  PROVE  /\ Showing(t) \in View /\ Showing(t).target = t /\ (Showing(t).isEdit <=> t # 0)
         /\ Showing(t).inputs = Origin /\ Showing(t).initial = Origin
         /\ Showing(t).timers = 0 /\ Showing(t).opened = (IF t = 0 THEN 0 ELSE db[t])
         /\ Showing(t).open /\ ~Showing(t).loading
<1>1. \A o, e, l, b \in BOOLEAN, r \in Rows, i, m \in Fields, n, k \in Nat :
        [open |-> o, target |-> r, isEdit |-> e, loading |-> l, busy |-> b, inputs |-> i,
         initial |-> m, timers |-> n, opened |-> k] \in View
  BY DEF View
<1>2. TRUE \in BOOLEAN /\ FALSE \in BOOLEAN /\ (t # 0) \in BOOLEAN /\ 0 \in Nat
      /\ (IF t = 0 THEN 0 ELSE db[t]) \in Nat
  BY DEF TypeOK, Rows
<1>3. Showing(t) \in View
  BY <1>1, <1>2, OriginType, Zenon DEF Showing
<1> QED
  BY <1>3 DEF Showing

(* The states of a form are closed under what the handlers set. *)
LEMMA ViewTypes ==
  ASSUME NEW u \in View, NEW a \in BOOLEAN, NEW b \in BOOLEAN, NEW c \in BOOLEAN,
         NEW t \in Rows, NEW i \in Fields, NEW m \in Fields, NEW k \in Nat, NEW n \in Nat
  PROVE  /\ [u EXCEPT !.inputs = i] \in View
         /\ [u EXCEPT !.loading = a] \in View
         /\ [u EXCEPT !.loading = a, !.inputs = i] \in View
         /\ [u EXCEPT !.loading = a, !.busy = b] \in View
         /\ [u EXCEPT !.busy = a] \in View
         /\ [u EXCEPT !.open = a] \in View
         /\ [u EXCEPT !.open = a, !.opened = k] \in View
         /\ [u EXCEPT !.target = t, !.isEdit = a] \in View
         /\ [u EXCEPT !.target = t, !.loading = a] \in View
         /\ [u EXCEPT !.timers = n] \in View
         /\ [u EXCEPT !.timers = n, !.target = t, !.isEdit = a, !.inputs = i] \in View
         /\ [u EXCEPT !.open = a, !.inputs = i] \in View
         /\ [u EXCEPT !.open = a, !.target = t, !.isEdit = b, !.inputs = i, !.busy = c,
                      !.opened = k] \in View
         /\ [u EXCEPT !.open = a, !.target = t, !.isEdit = b, !.busy = c, !.initial = m,
                      !.inputs = i] \in View
         /\ [u EXCEPT !.initial = m, !.inputs = i, !.busy = a] \in View
<1>1. [u EXCEPT !.inputs = i] \in View /\ [u EXCEPT !.loading = a] \in View
      /\ [u EXCEPT !.loading = a, !.inputs = i] \in View
      /\ [u EXCEPT !.loading = a, !.busy = b] \in View /\ [u EXCEPT !.busy = a] \in View
  BY DEF View
<1>2. [u EXCEPT !.open = a] \in View /\ [u EXCEPT !.open = a, !.opened = k] \in View
      /\ [u EXCEPT !.target = t, !.isEdit = a] \in View
      /\ [u EXCEPT !.target = t, !.loading = a] \in View
      /\ [u EXCEPT !.timers = n] \in View
      /\ [u EXCEPT !.open = a, !.inputs = i] \in View
  BY DEF View
<1>3. [u EXCEPT !.timers = n, !.target = t, !.isEdit = a, !.inputs = i] \in View
  BY DEF View
<1>4. [u EXCEPT !.open = a, !.target = t, !.isEdit = b, !.inputs = i, !.busy = c,
                !.opened = k] \in View
  BY DEF View
<1>5. [u EXCEPT !.open = a, !.target = t, !.isEdit = b, !.busy = c, !.initial = m,
                !.inputs = i] \in View
  BY DEF View
<1>6. [u EXCEPT !.initial = m, !.inputs = i, !.busy = a] \in View
  BY DEF View
<1> QED
  BY <1>1, <1>2, <1>3, <1>4, <1>5, <1>6

-----------------------------------------------------------------------------
(***************************************************************************)
(* The shapes of step.  Each says what a handler of that kind does to the  *)
(* form, to the calls and to what is remembered for the properties.        *)
(***************************************************************************)

\* What an action of the administrator leaves, and what it remembers.
Acts ==
  /\ UNCHANGED <<form, db>> /\ hist' \in History /\ ui' \in View
  /\ hist'.untold = hist.untold /\ hist'.lost = hist.lost /\ hist'.refused = hist.refused
  /\ hist'.hurried <=> (hist.hurried \/ ~Quiet \/ ui.timers > 0)
  /\ hist'.blind => hist.blind
\* ... if it is not the opening of another row.
Goes == Acts /\ hist'.blind = hist.blind

SameRow == ui'.target = ui.target /\ ui'.isEdit = ui.isEdit /\ ui'.opened = ui.opened
SameView == SameRow /\ ui'.open = ui.open /\ ui'.timers = ui.timers /\ ui'.initial = ui.initial
SameInputs == ui'.inputs.of = ui.inputs.of /\ ui'.inputs.ver = ui.inputs.ver

Sends(c) == \E s \in Slots : calls[s] = None /\ calls' = [calls EXCEPT ![s] = c]

\* A field is entered.
Entering ==
  /\ UNCHANGED <<form, db, calls, hist>>
  /\ ui' \in View /\ SameView /\ SameInputs /\ ui'.loading = ui.loading

\* The form is submitted for the row it shows.
Asks(c) ==
  /\ c \in Record /\ c.op = "save" /\ c.id = ui.target /\ c.of = ui.inputs.of
  /\ c.phase = "asked" /\ c.made = 0 /\ c.total = 0 /\ c.n > 0 /\ c.alive
  /\ c.left # 0 => form = "air/token"
  /\ IF form \in BerryForms
     THEN (c.put <=> ui.target # 0) \/ (c.put <=> ui.inputs.of # 0)
     ELSE c.put <=> (ui.isEdit \/ form = "air/user")
Submitting(c) ==
  /\ Goes /\ SameView /\ SameInputs /\ ui.open
  /\ Asks(c) /\ Sends(c)
  /\ form \in DefaultForms => ui'.loading = ui.loading
  /\ form \in DefaultForms \ {"default/adduser"} => ~ui.loading
\* A blank form is submitted, or one with a date that cannot be read.
Spoiling ==
  /\ Goes /\ SameView /\ ui.open /\ UNCHANGED calls
  /\ form = "air/adduser" \/ (form = "air/token" /\ ~ui.isEdit)
  /\ ui'.inputs \in {ui.inputs, Origin}

\* A form that stays mounted is opened: as it was, empty, or with a load.
Opens(t) ==
  /\ Acts /\ form \notin DefaultForms
  /\ ~ui.open /\ ui'.open /\ t \in Rows /\ ui'.target = t
  /\ ui'.opened = (IF t = 0 THEN 0 ELSE db[t])
  /\ ui'.timers = ui.timers /\ ui'.initial = ui.initial
  /\ form # "air/user" => (ui'.isEdit <=> t # 0)
Reopening(t) ==
  /\ Opens(t) /\ UNCHANGED calls /\ form # "air/user"
  /\ ui'.inputs = (IF form \in BerryForms THEN ui.initial ELSE ui.inputs)
  /\ IF form = "air/token" THEN t # 0 <=> ui.isEdit ELSE t = ui.target
  /\ t # 0 => hist'.blind = hist.blind
Emptying ==
  Opens(0) /\ UNCHANGED calls /\ form \in AirForms \ {"air/user"} /\ ui'.inputs = Origin
Fetching(t) ==
  /\ Opens(t) /\ t # 0 /\ form \notin {"air/adduser"}
  /\ Sends(Loading(t))

\* The sheets of air are closed, those of users and tokens in their own ways;
\* the dialogs of berry are.
Closes == Goes /\ ui.open /\ ~ui'.open /\ ui'.opened = ui.opened
SheetCloses ==
  /\ Closes /\ SameRow /\ UNCHANGED calls /\ form \in AirForms \ {"air/user"}
  /\ ui'.initial = ui.initial /\ ui'.inputs = ui.inputs
  /\ ui'.timers = (IF form = "air/token" THEN ui.timers + 1 ELSE ui.timers)
UserCloses ==
  /\ Closes /\ form = "air/user" /\ Sends(Loading(Self))
  /\ ui'.target = 0 /\ ui'.timers = ui.timers
Forgetting ==
  /\ form = "air/token" /\ ui.timers > 0 /\ UNCHANGED <<form, db, calls, hist>>
  /\ ui' \in View /\ ui'.timers = ui.timers - 1 /\ ui'.target = 0 /\ ~ui'.isEdit
  /\ ui'.open = ui.open /\ ui'.opened = ui.opened
  /\ ui'.inputs = (IF ui.isEdit THEN Origin ELSE ui.inputs)
DialogLeft ==
  /\ ~ui'.open /\ ui'.target = 0 /\ ~ui'.isEdit /\ ui'.timers = ui.timers
  /\ ui'.initial = (IF ui.target # 0 THEN Origin ELSE ui.initial)
  /\ ui'.inputs = ui'.initial
DialogCloses == Closes /\ form \in BerryForms /\ UNCHANGED calls /\ DialogLeft

\* A handler goes on with its answer: the call, what comes after it, what is told.
Ends(s, next, told) ==
  /\ s \in Slots /\ calls[s] # None /\ calls[s].phase = "served"
  /\ UNCHANGED <<form, db>> /\ ui' \in View
  /\ calls' = [calls EXCEPT ![s] = next]
  /\ hist' = [hist EXCEPT !.untold = @ - told]
Loads(s) ==
  /\ Ends(s, None, 0) /\ calls[s].op = "load"
  /\ IF ~calls[s].alive THEN ui' = ui
     ELSE /\ SameView
          /\ ~ui'.loading
          /\ ui'.inputs = (IF calls[s].ok THEN Loaded(calls[s]) ELSE ui.inputs)
  /\ form \notin BerryForms
DialogLoads(s) ==
  /\ Ends(s, None, 0) /\ calls[s].op = "load" /\ form \in BerryForms
  /\ SameRow /\ ui'.open = ui.open /\ ui'.timers = ui.timers
  /\ IF calls[s].ok /\ ui.initial # Loaded(calls[s])
     THEN ui'.inputs = Loaded(calls[s]) /\ ui'.initial = Loaded(calls[s])
     ELSE ui'.inputs = ui.inputs /\ ui'.initial = ui.initial
Saves(s, next, told) == Ends(s, next, told) /\ calls[s].op = "save"
PageSaves(s) ==
  /\ Saves(s, None, calls[s].made) /\ form \in DefaultForms
  /\ SameView /\ ui'.loading = ui.loading
  /\ IF calls[s].alive /\ calls[s].ok /\ ~calls[s].put THEN ui'.inputs = Origin
                                                       ELSE ui'.inputs = ui.inputs
SheetSaves(s) ==
  /\ Saves(s, None, calls[s].made) /\ form \in AirForms \ {"air/user", "air/token"}
  /\ SameRow /\ ui'.timers = ui.timers /\ ui'.initial = ui.initial
  /\ ui'.open <=> (ui.open /\ ~calls[s].ok)
  /\ IF calls[s].ok /\ (~calls[s].put \/ form = "air/adduser") THEN ui'.inputs = Origin
                                                              ELSE ui'.inputs = ui.inputs
TokenGoesOn(s) ==
  /\ LET c == calls[s]
     IN  /\ Saves(s, [c EXCEPT !.phase = "asked", !.ok = FALSE, !.made = 0, !.left = @ - 1,
                               !.total = @ + c.made], 0)
         /\ ~c.put /\ c.ok /\ c.left > 0
  /\ form = "air/token" /\ ui' = ui
TokenSaves(s) ==
  /\ Saves(s, None, calls[s].total + calls[s].made) /\ form = "air/token"
  /\ SameRow /\ ui'.initial = ui.initial /\ ui'.inputs = Origin
  /\ IF calls[s].total + calls[s].made > 0
     THEN ~ui'.open /\ ui'.timers = ui.timers + 1
     ELSE ui'.open = ui.open /\ ui'.timers = ui.timers
UserSaves(s) ==
  /\ form = "air/user" /\ ui'.timers = ui.timers /\ ui'.opened = ui.opened
  /\ IF calls[s].ok /\ ui.target # 0
     THEN /\ Saves(s, Loading(Self), calls[s].made)
          /\ ~ui'.open /\ ui'.target = 0
     ELSE /\ Saves(s, None, calls[s].made)
          /\ ui'.target = ui.target /\ ui'.inputs = ui.inputs
          /\ ui'.open <=> (ui.open /\ ~calls[s].ok)
DialogSaves(s) ==
  /\ form \in BerryForms
  /\ \/ Saves(s, None, calls[s].made)
     \/ form = "berry/redemption" /\ Saves(s, None, 0)
  /\ ui'.opened = ui.opened
  /\ IF calls[s].ok THEN DialogLeft
     ELSE SameView /\ ui'.inputs = ui.inputs

\* A page is left for another row; its handlers go on, but change nothing.
Deaf(c) == IF c = None THEN None ELSE [c EXCEPT !.alive = FALSE]
Visiting(t) ==
  /\ Acts /\ form \in DefaultForms \ {"default/adduser"} /\ t \in Rows
  /\ ui'.open /\ ui'.target = t /\ (ui'.isEdit <=> t # 0) /\ ui'.timers = 0
  /\ ui'.opened = (IF t = 0 THEN 0 ELSE db[t]) /\ ui'.inputs = Origin
  /\ ui'.loading <=> t # 0
  /\ IF t = 0 THEN calls' = [s \in Slots |-> Deaf(calls[s])]
     ELSE \E n \in Slots : /\ calls[n] = None
                           /\ calls' = [s \in Slots |-> IF s = n THEN Loading(t)
                                                        ELSE Deaf(calls[s])]

Shape ==
  \/ Entering \/ Spoiling \/ Emptying \/ SheetCloses \/ UserCloses \/ Forgetting \/ DialogCloses
  \/ \E c \in Record : Submitting(c)
  \/ \E t \in Rows : Reopening(t) \/ Fetching(t) \/ Visiting(t)
  \/ \E s \in Slots : \/ Loads(s) \/ DialogLoads(s) \/ PageSaves(s) \/ SheetSaves(s)
                      \/ TokenGoesOn(s) \/ TokenSaves(s) \/ UserSaves(s) \/ DialogSaves(s)

(***************************************************************************)
(* The three modules of handlers take the words of FormView; what they     *)
(* mean in them is what they mean here.                                    *)
(***************************************************************************)
LEMMA Words ==
  /\ D!None = None /\ D!InFlight = InFlight /\ (D!Quiet <=> Quiet) /\ D!Origin = Origin
  /\ A!None = None /\ A!InFlight = InFlight /\ (A!Quiet <=> Quiet) /\ A!Origin = Origin
  /\ B!None = None /\ B!InFlight = InFlight /\ (B!Quiet <=> Quiet) /\ B!Origin = Origin
  /\ \A t : D!Showing(t) = Showing(t) /\ A!Showing(t) = Showing(t) /\ B!Showing(t) = Showing(t)
  /\ \A t : D!Loading(t) = Loading(t) /\ A!Loading(t) = Loading(t) /\ B!Loading(t) = Loading(t)
  /\ D!Saving = Saving /\ A!Saving = Saving /\ B!Saving = Saving
  /\ \A S : D!Least(S) = Least(S) /\ A!Least(S) = Least(S) /\ B!Least(S) = Least(S)
  /\ \A c : D!With(c) = With(c) /\ A!With(c) = With(c) /\ B!With(c) = With(c)
  /\ \A c : B!Loaded(c) = Loaded(c)
  /\ \A s, op : /\ D!Served(s, op) <=> Served(s, op)
                /\ A!Served(s, op) <=> Served(s, op)
                /\ B!Served(s, op) <=> Served(s, op)
  /\ \A s : /\ D!LoadAnswered(s) <=> LoadAnswered(s)
            /\ A!LoadAnswered(s) <=> LoadAnswered(s)
<1>1. /\ D!None = None /\ D!InFlight = InFlight /\ (D!Quiet <=> Quiet) /\ D!Origin = Origin
      /\ \A t : D!Showing(t) = Showing(t)
      /\ \A t : D!Loading(t) = Loading(t)
      /\ D!Saving = Saving
      /\ \A S : D!Least(S) = Least(S)
      /\ \A c : D!With(c) = With(c)
      /\ \A c : D!Loaded(c) = Loaded(c)
      /\ \A s, op : D!Served(s, op) <=> Served(s, op)
      /\ \A s : D!LoadAnswered(s) <=> LoadAnswered(s)
  BY Zenon DEF D!None, None, D!InFlight, InFlight, D!Quiet, Quiet, D!Origin, Origin,
     D!Showing, Showing, D!Call, Call, D!Loading, Loading, D!Saving, Saving, D!Least, Least,
     D!With, With, D!Loaded, Loaded, D!Served, Served, D!LoadAnswered, LoadAnswered, D!Settle,
     Settle,
     ChannelForms, D!ChannelForms
<1>2. /\ A!None = None /\ A!InFlight = InFlight /\ (A!Quiet <=> Quiet) /\ A!Origin = Origin
      /\ \A t : A!Showing(t) = Showing(t)
      /\ \A t : A!Loading(t) = Loading(t)
      /\ A!Saving = Saving
      /\ \A S : A!Least(S) = Least(S)
      /\ \A c : A!With(c) = With(c)
      /\ \A c : A!Loaded(c) = Loaded(c)
      /\ \A s, op : A!Served(s, op) <=> Served(s, op)
      /\ \A s : A!LoadAnswered(s) <=> LoadAnswered(s)
  BY Zenon DEF A!None, None, A!InFlight, InFlight, A!Quiet, Quiet, A!Origin, Origin,
     A!Showing, Showing, A!Call, Call, A!Loading, Loading, A!Saving, Saving, A!Least, Least,
     A!With, With, A!Loaded, Loaded, A!Served, Served, A!LoadAnswered, LoadAnswered, A!Settle,
     Settle,
     ChannelForms, A!ChannelForms
<1>3. /\ B!None = None /\ B!InFlight = InFlight /\ (B!Quiet <=> Quiet) /\ B!Origin = Origin
      /\ \A t : B!Showing(t) = Showing(t)
      /\ \A t : B!Loading(t) = Loading(t)
      /\ B!Saving = Saving
      /\ \A S : B!Least(S) = Least(S)
      /\ \A c : B!With(c) = With(c)
      /\ \A c : B!Loaded(c) = Loaded(c)
      /\ \A s, op : B!Served(s, op) <=> Served(s, op)
      /\ \A s : B!LoadAnswered(s) <=> LoadAnswered(s)
  BY Zenon DEF B!None, None, B!InFlight, InFlight, B!Quiet, Quiet, B!Origin, Origin,
     B!Showing, Showing, B!Call, Call, B!Loading, Loading, B!Saving, Saving, B!Least, Least,
     B!With, With, B!Loaded, Loaded, B!Served, Served, B!LoadAnswered, LoadAnswered, B!Settle,
     Settle,
     ChannelForms, B!ChannelForms
<1> QED
  BY <1>1, <1>2, <1>3

(* So do the words for what the administrator does, and for handlers that go on. *)
LEMMA WordsForSteps ==
  ASSUME NEW u, NEW cs, NEW c, NEW s, NEW next, NEW told
  PROVE  /\ D!Close(u, cs) <=> Close(u, cs)
         /\ A!Close(u, cs) <=> Close(u, cs)
         /\ B!Close(u, cs) <=> Close(u, cs)
         /\ D!Do(u, cs) <=> Do(u, cs)
         /\ A!Do(u, cs) <=> Do(u, cs)
         /\ B!Do(u, cs) <=> Do(u, cs)
         /\ D!Turn(u, cs) <=> Turn(u, cs)
         /\ A!Turn(u, cs) <=> Turn(u, cs)
         /\ B!Turn(u, cs) <=> Turn(u, cs)
         /\ D!Begin(c, u) <=> Begin(c, u)
         /\ A!Begin(c, u) <=> Begin(c, u)
         /\ B!Begin(c, u) <=> Begin(c, u)
         /\ D!Enter(u) <=> Enter(u)
         /\ A!Enter(u) <=> Enter(u)
         /\ B!Enter(u) <=> Enter(u)
         /\ D!Settle(s, u, next, told) <=> Settle(s, u, next, told)
         /\ A!Settle(s, u, next, told) <=> Settle(s, u, next, told)
         /\ B!Settle(s, u, next, told) <=> Settle(s, u, next, told)
<1>1. /\ D!Close(u, cs) <=> Close(u, cs)
      /\ D!Do(u, cs) <=> Do(u, cs)
      /\ D!Turn(u, cs) <=> Turn(u, cs)
      /\ D!Begin(c, u) <=> Begin(c, u)
      /\ D!Enter(u) <=> Enter(u)
      /\ D!Settle(s, u, next, told) <=> Settle(s, u, next, told)
  BY Words, Zenon DEF D!Close, Close, D!Do, Do, D!Turn, Turn, D!Begin, Begin, D!Enter, Enter,
     D!Settle, Settle
<1>2. /\ A!Close(u, cs) <=> Close(u, cs)
      /\ A!Do(u, cs) <=> Do(u, cs)
      /\ A!Turn(u, cs) <=> Turn(u, cs)
      /\ A!Begin(c, u) <=> Begin(c, u)
      /\ A!Enter(u) <=> Enter(u)
      /\ A!Settle(s, u, next, told) <=> Settle(s, u, next, told)
  BY Words, Zenon DEF A!Close, Close, A!Do, Do, A!Turn, Turn, A!Begin, Begin, A!Enter, Enter,
     A!Settle, Settle
<1>3. /\ B!Close(u, cs) <=> Close(u, cs)
      /\ B!Do(u, cs) <=> Do(u, cs)
      /\ B!Turn(u, cs) <=> Turn(u, cs)
      /\ B!Begin(c, u) <=> Begin(c, u)
      /\ B!Enter(u) <=> Enter(u)
      /\ B!Settle(s, u, next, told) <=> Settle(s, u, next, told)
  BY Words, Zenon DEF B!Close, Close, B!Do, Do, B!Turn, Turn, B!Begin, Begin, B!Enter, Enter,
     B!Settle, Settle
<1> QED
  BY <1>1, <1>2, <1>3

(* What is remembered for the properties stays of its type. *)
LEMMA HistoryTypes ==
  ASSUME NEW h \in History, NEW n \in Nat, NEW a \in BOOLEAN, NEW b \in BOOLEAN
  PROVE  /\ [h EXCEPT !.hurried = a] \in History
         /\ [h EXCEPT !.asked = n, !.hurried = a] \in History
         /\ [h EXCEPT !.asked = n, !.blind = b, !.hurried = a] \in History
         /\ \A i \in Int : [h EXCEPT !.untold = i] \in History
BY DEF History

(* What the administrator does leaves the row and the answers alone. *)
LEMMA DoesAct ==
  ASSUME Base, NEW u \in View, NEW cs
  PROVE  /\ Do(u, cs) \/ Close(u, cs) => Goes /\ ui' = u /\ calls' = cs
         /\ Close(u, cs) => ui.open
         /\ Turn(u, cs) => Acts /\ ui' = u /\ calls' = cs
<1> DEFINE hurry == hist.hurried \/ ~Quiet \/ ui.timers > 0
<1>1. hist \in History /\ hist.asked + 1 \in Nat /\ hurry \in BOOLEAN /\ FALSE \in BOOLEAN
  BY DEF Base, TypeOK, History
<1>2. /\ [hist EXCEPT !.asked = @ + 1, !.hurried = hurry] \in History
      /\ [hist EXCEPT !.hurried = hurry] \in History
      /\ [hist EXCEPT !.asked = @ + 1, !.blind = FALSE, !.hurried = hurry] \in History
  <2> HIDE DEF hurry
  <2>1. \A n \in Nat, a, b \in BOOLEAN :
          /\ [hist EXCEPT !.hurried = a] \in History
          /\ [hist EXCEPT !.asked = n, !.hurried = a] \in History
          /\ [hist EXCEPT !.asked = n, !.blind = b, !.hurried = a] \in History
    BY <1>1, HistoryTypes
  <2> QED
    BY <1>1, <2>1, Zenon
<1>3. ASSUME Do(u, cs) PROVE Goes /\ ui' = u /\ calls' = cs
  <2>1. hist' = [hist EXCEPT !.asked = @ + 1, !.hurried = hurry]
    BY <1>3 DEF Do
  <2>2. hist' \in History
    BY <1>2, <2>1
  <2> QED
    BY <1>1, <1>3, <2>1, <2>2 DEF Do, Goes, Acts, History
<1>4. ASSUME Close(u, cs) PROVE Goes /\ ui' = u /\ calls' = cs /\ ui.open
  <2>1. hist' = [hist EXCEPT !.hurried = hurry]
    BY <1>4 DEF Close
  <2>2. hist' \in History
    BY <1>2, <2>1
  <2> QED
    BY <1>1, <1>4, <2>1, <2>2 DEF Close, Goes, Acts, History
<1>5. ASSUME Turn(u, cs) PROVE Acts /\ ui' = u /\ calls' = cs
  <2>1. hist' = [hist EXCEPT !.asked = @ + 1, !.blind = FALSE, !.hurried = hurry]
    BY <1>5 DEF Turn
  <2>2. hist' \in History
    BY <1>2, <2>1
  <2> QED
    BY <1>1, <1>5, <2>1, <2>2 DEF Turn, Acts, History
<1> QED
  BY <1>3, <1>4, <1>5

(* A call is sent from a slot that is free. *)
LEMMA WithSends ==
  ASSUME InFlight # Slots, NEW c, calls' = With(c)
  PROVE  Sends(c)
BY FreeSlot DEF With, Sends

(* So is one that begins with the action. *)
LEMMA BeginSends ==
  ASSUME Base, NEW u \in View, NEW c, Begin(c, u)
  PROVE  Goes /\ ui' = u /\ Sends(c)
BY DoesAct, WithSends DEF Begin

(* A load, before it is sent. *)
LEMMA LoadingType ==
  ASSUME NEW t \in Rows
  PROVE  LET c == Loading(t)
         IN  /\ c \in Record /\ c.op = "load" /\ c.id = t /\ c.phase = "asked" /\ ~c.ok
             /\ c.made = 0 /\ c.total = 0 /\ c.left = 0 /\ c.n = 1 /\ c.alive
<1>1. \A o \in {"load", "save"}, i, f \in Rows, p, k, a \in BOOLEAN, v, n, l, w, m \in Nat,
         h \in {"asked", "served"} :
        [op |-> o, id |-> i, put |-> p, of |-> f, ver |-> v, n |-> n, left |-> l, total |-> w,
         made |-> m, phase |-> h, ok |-> k, alive |-> a] \in Record
  BY DEF Record
<1>2. /\ (t # 0) \in BOOLEAN /\ TRUE \in BOOLEAN /\ FALSE \in BOOLEAN /\ 0 \in Nat /\ 1 \in Nat
      /\ 0 \in Rows /\ "load" \in {"load", "save"} /\ "asked" \in {"asked", "served"}
  BY DEF Rows
<1>3. Loading(t) \in Record
  BY <1>1, <1>2, ZenonT(40) DEF Loading, Call
<1> QED
  BY <1>3 DEF Loading, Call

(* A submission, before it is sent, and what the forms make of it. *)
LEMMA SavingType ==
  ASSUME Base, NEW n \in Nat, NEW b \in BOOLEAN
  PROVE  /\ Saving \in Record /\ Saving.op = "save" /\ Saving.id = ui.target
         /\ Saving.of = ui.inputs.of /\ (Saving.put <=> ui.isEdit) /\ Saving.phase = "asked"
         /\ Saving.made = 0 /\ Saving.total = 0 /\ Saving.left = 0 /\ Saving.n = 1
         /\ Saving.alive /\ ~Saving.ok
         /\ [Saving EXCEPT !.n = n] \in Record /\ [Saving EXCEPT !.left = n] \in Record
         /\ [Saving EXCEPT !.put = b] \in Record
         /\ [Saving EXCEPT !.put = b, !.n = n] \in Record
<1>1. \A o \in {"load", "save"}, i, f \in Rows, p, k, a \in BOOLEAN, v, m, l, w, q \in Nat,
         h \in {"asked", "served"} :
        [op |-> o, id |-> i, put |-> p, of |-> f, ver |-> v, n |-> m, left |-> l, total |-> w,
         made |-> q, phase |-> h, ok |-> k, alive |-> a] \in Record
  BY DEF Record
<1>2. /\ (ui.target # 0) \in BOOLEAN /\ TRUE \in BOOLEAN /\ FALSE \in BOOLEAN
      /\ 0 \in Nat /\ 1 \in Nat
      /\ 0 \in Rows /\ "save" \in {"load", "save"} /\ "asked" \in {"asked", "served"}
      /\ ui.target \in Rows /\ ui.inputs.of \in Rows /\ ui.isEdit \in BOOLEAN
  BY DEF Base, TypeOK, View, Fields, Rows
<1>3. Call("save", ui.target) \in Record
  BY <1>1, <1>2, ZenonT(40) DEF Call
<1>4. \A c \in Record, p \in BOOLEAN, f \in Rows : [c EXCEPT !.put = p, !.of = f] \in Record
  BY DEF Record
<1>5. Saving \in Record
  BY <1>2, <1>3, <1>4 DEF Saving
<1>6. \A c \in Record : /\ [c EXCEPT !.n = n] \in Record /\ [c EXCEPT !.left = n] \in Record
                        /\ [c EXCEPT !.put = b] \in Record
                        /\ [c EXCEPT !.put = b, !.n = n] \in Record
  BY DEF Record
<1>7. /\ Saving.op = "save" /\ Saving.id = ui.target
      /\ Saving.of = ui.inputs.of /\ (Saving.put <=> ui.isEdit) /\ Saving.phase = "asked"
      /\ Saving.made = 0 /\ Saving.total = 0 /\ Saving.left = 0 /\ Saving.n = 1
      /\ Saving.alive /\ ~Saving.ok
  BY DEF Saving, Call
<1> QED
  BY <1>5, <1>6, <1>7

-----------------------------------------------------------------------------
(* Every handler has one of the shapes.                                    *)

(* A field is entered. *)
LEMMA EntersField ==
  ASSUME Base, NEW a \in BOOLEAN, NEW u, Enter(u),
         \/ u = [ui EXCEPT !.inputs.entered = a] \/ u = [ui EXCEPT !.inputs.keyed = a]
         \/ u = [ui EXCEPT !.inputs.full = a]
         \/ u = [ui EXCEPT !.inputs.entered = TRUE, !.inputs.full = a]
         \/ u = [ui EXCEPT !.inputs.entered = TRUE, !.inputs.raw = a]
  PROVE  Entering /\ ui.open
<1> DEFINE i == ui.inputs
<1>1. ui \in View /\ i \in Fields /\ TRUE \in BOOLEAN
  BY DEF Base, TypeOK, View
<1>2. \E f \in Fields : u = [ui EXCEPT !.inputs = f] /\ f.of = i.of /\ f.ver = i.ver
  <2>1. ASSUME NEW f \in Fields
        PROVE  /\ \A e \in BOOLEAN :
                    /\ [f EXCEPT !.entered = e].of = f.of /\ [f EXCEPT !.keyed = e].of = f.of
                    /\ [f EXCEPT !.full = e].of = f.of
                    /\ [f EXCEPT !.entered = TRUE, !.full = e].of = f.of
                    /\ [f EXCEPT !.entered = TRUE, !.raw = e].of = f.of
                    /\ [f EXCEPT !.entered = e].ver = f.ver /\ [f EXCEPT !.keyed = e].ver = f.ver
                    /\ [f EXCEPT !.full = e].ver = f.ver
                    /\ [f EXCEPT !.entered = TRUE, !.full = e].ver = f.ver
                    /\ [f EXCEPT !.entered = TRUE, !.raw = e].ver = f.ver
    BY DEF Fields
  <2>2. CASE u = [ui EXCEPT !.inputs.entered = a]
    BY <1>1, <2>1, <2>2, FieldTypes
  <2>3. CASE u = [ui EXCEPT !.inputs.keyed = a]
    BY <1>1, <2>1, <2>3, FieldTypes
  <2>4. CASE u = [ui EXCEPT !.inputs.full = a]
    BY <1>1, <2>1, <2>4, FieldTypes
  <2>5. CASE u = [ui EXCEPT !.inputs.entered = TRUE, !.inputs.full = a]
    <3>1. u = [ui EXCEPT !.inputs = [i EXCEPT !.entered = TRUE, !.full = a]]
      BY <1>1, <2>5 DEF View
    <3> QED
      BY <1>1, <2>1, <3>1, FieldTypes
  <2>6. CASE u = [ui EXCEPT !.inputs.entered = TRUE, !.inputs.raw = a]
    <3>1. u = [ui EXCEPT !.inputs = [i EXCEPT !.entered = TRUE, !.raw = a]]
      BY <1>1, <2>6 DEF View
    <3> QED
      BY <1>1, <2>1, <3>1, FieldTypes
  <2> QED
    BY <2>2, <2>3, <2>4, <2>5, <2>6
<1>3. PICK f \in Fields : u = [ui EXCEPT !.inputs = f] /\ f.of = i.of /\ f.ver = i.ver
  BY <1>2
<1>4. [ui EXCEPT !.inputs = f] \in View
  BY <1>1 DEF View
<1> QED
  BY <1>1, <1>3, <1>4 DEF Enter, Entering, SameView, SameRow, SameInputs, View

(* The pages of default: a submission that leaves the inputs as they are. *)
LEMMA PageAsks ==
  ASSUME Base, form \in DefaultForms, ui.open, form = "default/adduser" \/ ~ui.loading,
         NEW n \in Nat \ {0}, NEW c, NEW u,
         c = Saving \/ c = [Saving EXCEPT !.n = n],
         u = ui \/ u = [ui EXCEPT !.inputs.raw = FALSE],
         Begin(c, u)
  PROVE  \E d \in Record : Submitting(d)
<1>1. ui \in View /\ ui.inputs \in Fields /\ FALSE \in BOOLEAN /\ n \in Nat
  BY DEF Base, TypeOK, View
<1>2. u \in View /\ u.inputs.of = ui.inputs.of /\ u.inputs.ver = ui.inputs.ver
      /\ u.open = ui.open /\ u.target = ui.target /\ u.isEdit = ui.isEdit
      /\ u.timers = ui.timers /\ u.opened = ui.opened /\ u.initial = ui.initial
      /\ u.loading = ui.loading
  <2> DEFINE i == [ui.inputs EXCEPT !.raw = FALSE]
  <2>1. i \in Fields /\ i.of = ui.inputs.of /\ i.ver = ui.inputs.ver
    <3>1. \A f \in Fields, a \in BOOLEAN : [f EXCEPT !.raw = a] \in Fields
      BY FieldTypes
    <3>2. i \in Fields
      BY <1>1, <3>1, Zenon
    <3> QED
      BY <1>1, <3>2 DEF Fields
  <2>2. u = ui \/ u = [ui EXCEPT !.inputs = i]
    OBVIOUS
  <2> HIDE DEF i
  <2> QED
    BY <1>1, <2>1, <2>2 DEF View
<1>3. Goes /\ ui' = u /\ Sends(c)
  BY <1>2, BeginSends
<1>4. Saving \in Record /\ c \in Record
      /\ Saving.op = "save" /\ Saving.id = ui.target
      /\ Saving.of = ui.inputs.of /\ (Saving.put <=> ui.isEdit) /\ Saving.phase = "asked"
      /\ Saving.made = 0 /\ Saving.total = 0 /\ Saving.left = 0 /\ Saving.n = 1
      /\ Saving.alive
  BY <1>1, SavingType
<1>5. Asks(c)
  <2>1. form \notin BerryForms /\ form # "air/user" /\ form # "air/token"
    BY DEF DefaultForms, BerryForms
  <2>2. (c.put <=> ui.isEdit) /\ c.n > 0 /\ c.left = 0 /\ c.op = "save" /\ c.id = ui.target
        /\ c.of = ui.inputs.of /\ c.phase = "asked" /\ c.made = 0 /\ c.total = 0 /\ c.alive
    BY <1>1, <1>4 DEF Record
  <2> QED
    BY <1>4, <2>1, <2>2 DEF Asks
<1> QED
  BY <1>2, <1>3, <1>4, <1>5 DEF Submitting, SameView, SameRow, SameInputs

(* An answer to a load puts the row in the place of the inputs. *)
LEMMA LoadShape ==
  ASSUME Base, form \notin BerryForms, NEW s \in Slots, LoadAnswered(s)
  PROVE  Loads(s)
<1> DEFINE c == calls[s]
           i == IF c.ok THEN Loaded(c) ELSE ui.inputs
           u == [ui EXCEPT !.loading = FALSE, !.inputs = i]
<1>1. c # None /\ c.op = "load" /\ c.phase = "served" /\ c \in Record
  BY DEF LoadAnswered, Served, Base, TypeOK
<1>2. ui \in View /\ hist \in History /\ i \in Fields
  BY <1>1, OriginType DEF Base, TypeOK, View
<1>3. u \in View
  <2> HIDE DEF i
  <2> QED
    BY <1>2 DEF View
<1>4. ui' = (IF c.alive THEN u ELSE ui) /\ calls' = [calls EXCEPT ![s] = None]
      /\ hist' = [hist EXCEPT !.untold = @ - 0] /\ UNCHANGED <<form, db>>
  <2>1. [ui EXCEPT !.loading = FALSE, !.inputs = IF c.ok THEN Loaded(c) ELSE @] = u
    OBVIOUS
  <2> QED
    BY <2>1 DEF LoadAnswered, Settle
<1>5. ui' \in View
  BY <1>2, <1>3, <1>4
<1>6. Ends(s, None, 0)
  BY <1>1, <1>4, <1>5 DEF Ends
<1>7. /\ u.inputs = i /\ ~u.loading /\ u.target = ui.target /\ u.isEdit = ui.isEdit
      /\ u.opened = ui.opened /\ u.open = ui.open /\ u.timers = ui.timers
      /\ u.initial = ui.initial
  <2> HIDE DEF i
  <2> QED
    BY <1>2 DEF View
<1> HIDE DEF u
<1> QED
  BY <1>1, <1>4, <1>6, <1>7 DEF Loads, SameView, SameRow

(* An answer to a submission of a page. *)
LEMMA PageSaveShape ==
  ASSUME Base, form \in DefaultForms, NEW s \in Slots, D!SavedAs(s, calls[s].made)
  PROVE  PageSaves(s)
<1> DEFINE c == calls[s]
           i == IF c.ok /\ ~c.put THEN Origin ELSE ui.inputs
           u == [ui EXCEPT !.inputs = i]
<1>1. c # None /\ c.op = "save" /\ c.phase = "served" /\ c \in Record
  BY Words DEF D!SavedAs, Served, Base, TypeOK
<1>2. ui \in View /\ hist \in History /\ i \in Fields
  BY <1>1, OriginType DEF Base, TypeOK, View
<1>3. u \in View
  <2> HIDE DEF i
  <2> QED
    BY <1>2 DEF View
<1>4. Settle(s, u, None, c.made)
  <2>1. [ui EXCEPT !.inputs = IF c.ok /\ ~c.put THEN Origin ELSE @] = u
    OBVIOUS
  <2> QED
    BY <2>1, Words, WordsForSteps DEF D!SavedAs
<1>5. ui' = (IF c.alive THEN u ELSE ui) /\ calls' = [calls EXCEPT ![s] = None]
      /\ hist' = [hist EXCEPT !.untold = @ - c.made] /\ UNCHANGED <<form, db>>
  BY <1>4 DEF Settle
<1>6. ui' \in View
  BY <1>2, <1>3, <1>5
<1>7. Ends(s, None, c.made)
  BY <1>1, <1>5, <1>6 DEF Ends
<1>8. /\ u.inputs = i /\ u.loading = ui.loading /\ u.target = ui.target /\ u.isEdit = ui.isEdit
      /\ u.opened = ui.opened /\ u.open = ui.open /\ u.timers = ui.timers
      /\ u.initial = ui.initial
  <2> HIDE DEF i
  <2> QED
    BY <1>2 DEF View
<1> HIDE DEF u
<1> QED
  BY <1>1, <1>5, <1>7, <1>8 DEF PageSaves, Saves, SameView, SameRow

(* A page is left for another row. *)
LEMMA VisitShape ==
  ASSUME Base, form \in DefaultForms \ {"default/adduser"}, NEW t \in Rows, D!Visit(t)
  PROVE  Visiting(t)
<1> DEFINE left == [s \in Slots |-> IF calls[s] = None THEN None
                                    ELSE [calls[s] EXCEPT !.alive = FALSE]]
           n == Least(Slots \ InFlight)
           cs == IF t = 0 THEN left ELSE [left EXCEPT ![n] = Loading(t)]
           u == [Showing(t) EXCEPT !.loading = t # 0]
<1>1. u \in View /\ u.target = t /\ (u.isEdit <=> t # 0) /\ (u.loading <=> t # 0)
      /\ u.inputs = Origin /\ u.timers = 0 /\ u.open
      /\ u.opened = (IF t = 0 THEN 0 ELSE db[t])
  <2>1. (t # 0) \in BOOLEAN /\ Showing(t) \in View
    BY ShowingType DEF Base
  <2>2. \A v \in View, a \in BOOLEAN : [v EXCEPT !.loading = a] \in View
    BY DEF View
  <2>3. u \in View
    BY <2>1, <2>2, Zenon
  <2> QED
    BY <2>1, <2>3, ShowingType DEF Base, View
<1>2. D!Mounted(t) = u /\ (t # 0 => InFlight # Slots) /\ Turn(u, cs)
  <2>1. D!Mounted(t) = u
    BY Words DEF D!Mounted
  <2>2. [s \in Slots |-> IF calls[s] = D!None THEN D!None
                                              ELSE [calls[s] EXCEPT !.alive = FALSE]] = left
    BY Words
  <2>3. (t # 0 => InFlight # Slots) /\ D!Turn(u, cs)
    BY <2>1, <2>2, Words DEF D!Visit
  <2> QED
    BY <2>1, <2>3, WordsForSteps
<1>3. Acts /\ ui' = u /\ calls' = cs
  BY <1>1, <1>2, DoesAct
<1>4. left = [s \in Slots |-> Deaf(calls[s])]
  BY DEF Deaf
<1>5. ASSUME t # 0
      PROVE  \E m \in Slots : /\ calls[m] = None
                              /\ calls' = [s \in Slots |-> IF s = m THEN Loading(t)
                                                           ELSE Deaf(calls[s])]
  <2>1. n \in Slots /\ calls[n] = None
    BY <1>2, <1>5, FreeSlot
  <2>2. calls' = [left EXCEPT ![n] = Loading(t)]
    BY <1>3, <1>5
  <2>3. calls' = [s \in Slots |-> IF s = n THEN Loading(t) ELSE left[s]]
    BY <2>2
  <2>4. \A s \in Slots : left[s] = Deaf(calls[s])
    BY <1>4
  <2> HIDE DEF left, n
  <2> QED
    BY <2>1, <2>3, <2>4
<1> HIDE DEF u, left, n
<1> QED
  BY <1>1, <1>3, <1>4, <1>5 DEF Visiting

(* Every handler of default has one of the shapes. *)
LEMMA DefaultShape ==
  ASSUME Base, D!DefaultNext
  PROVE  Shape
<1>1. form \in DefaultForms /\ form \notin BerryForms /\ ui.open /\ Most \in Nat \ {0}
  <2>1. form \in {"default/channel", "default/token", "default/user", "default/redemption",
                  "default/adduser"}
    BY DEF D!DefaultNext, D!Channel, D!Token, D!User, D!AddUser, D!Redemption
  <2> QED
    BY <2>1, FormAssumption DEF DefaultForms, BerryForms, Base, Sane
<1>2. D!Usable <=> ~ui.loading
  BY DEF D!Usable
<1>3. \A s \in Slots : D!SavedAs(s, calls[s].made) => PageSaves(s)
  BY <1>1, PageSaveShape
<1>4. \A s \in Slots : D!LoadAnswered(s) => Loads(s)
  BY <1>1, LoadShape, Words
<1>5. ASSUME form # "default/adduser" PROVE \A t \in Rows : D!Visit(t) => Visiting(t)
  BY <1>1, <1>5, VisitShape
<1>6. ASSUME form = "default/adduser" \/ ~ui.loading, NEW n \in Nat \ {0}, NEW c, NEW u,
             c = Saving \/ c = [Saving EXCEPT !.n = n],
             u = ui \/ u = [ui EXCEPT !.inputs.raw = FALSE], D!Begin(c, u)
      PROVE  Shape
  BY <1>1, <1>6, PageAsks, WordsForSteps DEF Shape
<1>7. ASSUME NEW a \in BOOLEAN, NEW u, D!Enter(u),
             \/ u = [ui EXCEPT !.inputs.entered = a] \/ u = [ui EXCEPT !.inputs.keyed = a]
             \/ u = [ui EXCEPT !.inputs.full = a]
             \/ u = [ui EXCEPT !.inputs.entered = TRUE, !.inputs.full = a]
             \/ u = [ui EXCEPT !.inputs.entered = TRUE, !.inputs.raw = a]
      PROVE  Shape
  BY <1>7, EntersField, WordsForSteps DEF Shape
<1>8. CASE D!Channel
  <2>1. form # "default/adduser"
    BY <1>8 DEF D!Channel
  <2>2. CASE D!ChannelType
    <3>1. PICK p \in BOOLEAN : D!Enter([ui EXCEPT !.inputs.entered = TRUE, !.inputs.full = p])
      BY <2>2 DEF D!ChannelType
    <3> QED
      BY <1>7, <3>1
  <2>3. CASE D!ChannelFields \/ D!ChannelSecret \/ D!ChannelModels \/ D!ChannelAddModel
    BY <1>7, <2>3 DEF D!ChannelFields, D!ChannelSecret, D!ChannelModels, D!ChannelAddModel
  <2>4. CASE D!ChannelSubmit
    BY <1>1, <1>2, <1>6, <2>4, Words DEF D!ChannelSubmit
  <2>5. CASE \E t \in Ids \cup {0} : D!ChannelVisited(t)
    BY <1>5, <2>1, <2>5 DEF D!ChannelVisited, Shape, Rows
  <2>6. CASE \E s \in Slots : D!ChannelLoaded(s) \/ D!ChannelSaved(s)
    BY <1>3, <1>4, <2>6 DEF D!ChannelLoaded, D!ChannelSaved, Shape
  <2> QED
    BY <1>8, <2>2, <2>3, <2>4, <2>5, <2>6 DEF D!Channel
<1>9. CASE D!Token
  <2>1. form # "default/adduser"
    BY <1>9 DEF D!Token
  <2>2. CASE D!TokenEnter
    <3>1. PICK raw \in {ui.inputs.raw, TRUE} :
            D!Enter([ui EXCEPT !.inputs.entered = TRUE, !.inputs.raw = raw])
      BY <2>2 DEF D!TokenEnter
    <3>2. raw \in BOOLEAN
      BY DEF Base, TypeOK, View, Fields
    <3> QED
      BY <1>7, <3>1, <3>2
  <2>3. CASE D!TokenSubmit
    BY <1>1, <1>2, <1>6, <2>3, Words DEF D!TokenSubmit
  <2>4. CASE \E t \in Ids \cup {0} : D!TokenVisited(t)
    BY <1>5, <2>1, <2>4 DEF D!TokenVisited, Shape, Rows
  <2>5. CASE \E s \in Slots : D!TokenLoaded(s) \/ D!TokenSaved(s)
    BY <1>3, <1>4, <2>5 DEF D!TokenLoaded, D!TokenSaved, Shape
  <2> QED
    BY <1>9, <2>2, <2>3, <2>4, <2>5 DEF D!Token
<1>10. CASE D!User
  <2>1. form # "default/adduser"
    BY <1>10 DEF D!User
  <2>2. CASE D!UserEnter
    BY <1>7, <2>2 DEF D!UserEnter
  <2>3. CASE D!UserSubmit
    BY <1>1, <1>2, <1>6, <2>3, Words DEF D!UserSubmit
  <2>4. CASE \E t \in Ids : D!UserVisited(t)
    BY <1>5, <2>1, <2>4 DEF D!UserVisited, Shape, Rows
  <2>5. CASE \E s \in Slots : D!UserLoaded(s) \/ D!UserSaved(s)
    BY <1>3, <1>4, <2>5 DEF D!UserLoaded, D!UserSaved, Shape
  <2> QED
    BY <1>10, <2>2, <2>3, <2>4, <2>5 DEF D!User
<1>11. CASE D!Redemption
  <2>1. form # "default/adduser"
    BY <1>11 DEF D!Redemption
  <2>2. CASE D!RedemptionEnter
    BY <1>7, <2>2 DEF D!RedemptionEnter
  <2>3. CASE D!RedemptionSubmit
    <3>1. PICK n \in (IF ui.isEdit THEN {1} ELSE 1..Most) :
            D!Begin([Saving EXCEPT !.n = n], ui)
      BY <2>3, Words DEF D!RedemptionSubmit
    <3>2. n \in Nat \ {0}
      BY <1>1
    <3> QED
      BY <1>2, <1>6, <2>3, <3>1, <3>2 DEF D!RedemptionSubmit
  <2>4. CASE \E t \in Ids \cup {0} : D!RedemptionVisited(t)
    BY <1>5, <2>1, <2>4 DEF D!RedemptionVisited, Shape, Rows
  <2>5. CASE \E s \in Slots : D!RedemptionLoaded(s) \/ D!RedemptionSaved(s)
    BY <1>3, <1>4, <2>5 DEF D!RedemptionLoaded, D!RedemptionSaved, Shape
  <2> QED
    BY <1>11, <2>2, <2>3, <2>4, <2>5 DEF D!Redemption
<1>12. CASE D!AddUser
  <2>1. CASE D!AddUserEnter
    BY <1>7, <2>1 DEF D!AddUserEnter
  <2>2. CASE D!AddUserSubmit
    BY <1>1, <1>6, <1>12, <2>2, Words DEF D!AddUserSubmit, D!AddUser
  <2>3. CASE \E s \in Slots : D!AddUserSaved(s)
    BY <1>3, <2>3 DEF D!AddUserSaved, Shape
  <2> QED
    BY <1>12, <2>1, <2>2, <2>3 DEF D!AddUser
<1> QED
  BY <1>8, <1>9, <1>10, <1>11, <1>12 DEF D!DefaultNext

(* A sheet that is opened for row t. *)
LEMMA OpenedView ==
  ASSUME Base, NEW t \in Rows
  PROVE  LET v == [A!Opening(t) EXCEPT !.target = t, !.isEdit = t # 0]
             k == IF t = 0 THEN 0 ELSE db[t]
             Shows(w) == /\ w \in View /\ w.open /\ w.target = t /\ w.opened = k
                         /\ w.timers = ui.timers /\ w.initial = ui.initial
         IN  /\ Shows(v) /\ (v.isEdit <=> t # 0) /\ v.inputs = ui.inputs
             /\ LET w == [v EXCEPT !.inputs = Origin]
                IN  Shows(w) /\ (w.isEdit <=> t # 0) /\ w.inputs = Origin
             /\ LET w == [v EXCEPT !.loading = TRUE]
                IN  Shows(w) /\ (w.isEdit <=> t # 0) /\ w.inputs = ui.inputs
             /\ Shows([A!Opening(t) EXCEPT !.target = t, !.loading = TRUE])
             /\ LET w == A!Opening(t)
                IN  /\ w \in View /\ w.open /\ w.target = ui.target /\ w.opened = k
                    /\ w.isEdit = ui.isEdit
                    /\ w.timers = ui.timers /\ w.initial = ui.initial /\ w.inputs = ui.inputs
<1> DEFINE k == IF t = 0 THEN 0 ELSE db[t]
           o == [ui EXCEPT !.open = TRUE, !.opened = k]
           v == [o EXCEPT !.target = t, !.isEdit = t # 0]
           x == [v EXCEPT !.inputs = Origin]
           y == [v EXCEPT !.loading = TRUE]
           z == [o EXCEPT !.target = t, !.loading = TRUE]
<1>1. A!Opening(t) = o
  BY DEF A!Opening
<1>2. k \in Nat /\ ui \in View /\ Origin \in Fields /\ (t # 0) \in BOOLEAN /\ TRUE \in BOOLEAN
  BY OriginType DEF Base, TypeOK, Rows
<1>3. \A u \in View, a \in BOOLEAN, n \in Nat, i \in Fields :
        /\ [u EXCEPT !.open = a, !.opened = n] \in View
        /\ [u EXCEPT !.target = t, !.isEdit = a] \in View
        /\ [u EXCEPT !.target = t, !.loading = a] \in View
        /\ [u EXCEPT !.inputs = i] \in View /\ [u EXCEPT !.loading = a] \in View
  <2> SUFFICES ASSUME NEW u \in View, NEW a \in BOOLEAN, NEW n \in Nat, NEW i \in Fields
               PROVE  /\ [u EXCEPT !.open = a, !.opened = n] \in View
                      /\ [u EXCEPT !.target = t, !.isEdit = a] \in View
                      /\ [u EXCEPT !.target = t, !.loading = a] \in View
                      /\ [u EXCEPT !.inputs = i] \in View
                      /\ [u EXCEPT !.loading = a] \in View
    OBVIOUS
  <2>1. [u EXCEPT !.open = a, !.opened = n] \in View
    BY DEF View
  <2>2. [u EXCEPT !.target = t, !.isEdit = a] \in View
    BY DEF View
  <2>3. [u EXCEPT !.target = t, !.loading = a] \in View
    BY DEF View
  <2>4. [u EXCEPT !.inputs = i] \in View /\ [u EXCEPT !.loading = a] \in View
    BY DEF View
  <2> QED
    BY <2>1, <2>2, <2>3, <2>4
<1>4. o \in View /\ v \in View /\ x \in View /\ y \in View /\ z \in View
  <2>1. o \in View
    <3> HIDE DEF k
    <3> QED
      BY <1>2, <1>3, Zenon
  <2>2. v \in View
    <3> HIDE DEF o
    <3> QED
      BY <1>2, <1>3, <2>1, Zenon
  <2>3. z \in View
    <3> HIDE DEF o
    <3> QED
      BY <1>2, <1>3, <2>1, Zenon
  <2> HIDE DEF v, o, z
  <2> QED
    BY <1>2, <1>3, <2>1, <2>2, <2>3, Zenon
<1>5. o.open /\ o.opened = k /\ o.timers = ui.timers /\ o.initial = ui.initial
      /\ o.inputs = ui.inputs /\ o.target = ui.target /\ o.isEdit = ui.isEdit
  <2> HIDE DEF k
  <2> QED
    BY <1>2 DEF View
<1>6. /\ v.open /\ v.opened = k /\ v.timers = ui.timers /\ v.initial = ui.initial
      /\ v.inputs = ui.inputs /\ v.target = t /\ (v.isEdit <=> t # 0)
      /\ z.open /\ z.opened = k /\ z.timers = ui.timers /\ z.initial = ui.initial /\ z.target = t
  <2> HIDE DEF o, k
  <2>1. /\ v.open /\ v.opened = k /\ v.timers = ui.timers /\ v.initial = ui.initial
        /\ v.inputs = ui.inputs /\ v.target = t /\ (v.isEdit <=> t # 0)
    <3>1. v.open = o.open /\ v.opened = o.opened /\ v.timers = o.timers
      BY <1>4 DEF View
    <3>2. v.initial = o.initial /\ v.inputs = o.inputs
      BY <1>4 DEF View
    <3>3. v.target = t /\ v.isEdit = (t # 0)
      BY <1>4 DEF View
    <3> QED
      BY <1>5, <3>1, <3>2, <3>3
  <2>2. /\ z.open /\ z.opened = k /\ z.timers = ui.timers /\ z.initial = ui.initial
        /\ z.target = t
    BY <1>4, <1>5 DEF View
  <2> QED
    BY <2>1, <2>2
<1>7. /\ x.open /\ x.opened = k /\ x.timers = ui.timers /\ x.initial = ui.initial
      /\ x.inputs = Origin /\ x.target = t /\ (x.isEdit <=> t # 0)
      /\ y.open /\ y.opened = k /\ y.timers = ui.timers /\ y.initial = ui.initial
      /\ y.inputs = ui.inputs /\ y.target = t /\ (y.isEdit <=> t # 0)
  <2> HIDE DEF v, k
  <2> QED
    BY <1>4, <1>6 DEF View
<1> QED
  BY <1>1, <1>4, <1>5, <1>6, <1>7, Zenon

(* A sheet is opened: as it was, empty, or with a load. *)
LEMMA OpenShapes ==
  ASSUME Base, form \in AirForms, ~ui.open, NEW t \in Rows
  PROVE  LET v == [A!Opening(t) EXCEPT !.target = t, !.isEdit = t # 0]
         IN  /\ Do(v, calls) => /\ Opens(t) /\ UNCHANGED calls /\ ui'.inputs = ui.inputs
                                /\ hist'.blind = hist.blind
             /\ \A cs : Turn([v EXCEPT !.inputs = Origin], cs) /\ cs = calls =>
                          Opens(t) /\ UNCHANGED calls /\ ui'.inputs = Origin
             /\ InFlight # Slots /\ Turn([v EXCEPT !.loading = TRUE], With(Loading(t))) =>
                  Opens(t) /\ Sends(Loading(t))
             /\ /\ form = "air/user" /\ InFlight # Slots
                /\ Turn([A!Opening(t) EXCEPT !.target = t, !.loading = TRUE], With(Loading(t)))
                => Opens(t) /\ Sends(Loading(t))
             /\ form = "air/adduser" /\ t = 0 /\ Turn(A!Opening(t), calls) => Reopening(0)
<1> DEFINE v == [A!Opening(t) EXCEPT !.target = t, !.isEdit = t # 0]
           x == [v EXCEPT !.inputs = Origin]
           y == [v EXCEPT !.loading = TRUE]
           z == [A!Opening(t) EXCEPT !.target = t, !.loading = TRUE]
           o == A!Opening(t)
           k == IF t = 0 THEN 0 ELSE db[t]
           Shows(w) == /\ w \in View /\ w.open /\ w.target = t /\ w.opened = k
                       /\ w.timers = ui.timers /\ w.initial = ui.initial
<1>1. /\ Shows(v) /\ (v.isEdit <=> t # 0) /\ v.inputs = ui.inputs
      /\ Shows(x) /\ (x.isEdit <=> t # 0) /\ x.inputs = Origin
      /\ Shows(y) /\ (y.isEdit <=> t # 0) /\ y.inputs = ui.inputs
      /\ Shows(z)
      /\ o \in View /\ o.open /\ o.target = ui.target /\ o.opened = k /\ o.isEdit = ui.isEdit
      /\ o.timers = ui.timers /\ o.initial = ui.initial /\ o.inputs = ui.inputs
  BY OpenedView, ZenonT(40)
<1>2. form \notin DefaultForms /\ form \notin BerryForms
  BY DEF AirForms, DefaultForms, BerryForms
<1>3. \A w : /\ w \in View /\ Do(w, calls) => Goes /\ ui' = w /\ UNCHANGED calls
             /\ w \in View => \A cs : Turn(w, cs) => Acts /\ ui' = w /\ calls' = cs
  BY DoesAct
<1> HIDE DEF v, x, y, z, o, k
<1>4. Do(v, calls) => /\ Opens(t) /\ UNCHANGED calls /\ ui'.inputs = ui.inputs
                      /\ hist'.blind = hist.blind
  BY <1>1, <1>2, <1>3 DEF Opens, Goes, k
<1>5. \A cs : Turn(x, cs) /\ cs = calls => Opens(t) /\ UNCHANGED calls /\ ui'.inputs = Origin
  BY <1>1, <1>2, <1>3 DEF Opens, k
<1>6. InFlight # Slots /\ Turn(y, With(Loading(t))) => Opens(t) /\ Sends(Loading(t))
  BY <1>1, <1>2, <1>3, WithSends DEF Opens, k
<1>7. form = "air/user" /\ InFlight # Slots /\ Turn(z, With(Loading(t))) =>
        Opens(t) /\ Sends(Loading(t))
  BY <1>1, <1>2, <1>3, WithSends DEF Opens, k
<1>8. ASSUME form = "air/adduser", t = 0, Turn(o, calls) PROVE Reopening(0)
  <2>1. ui.target = 0 /\ ~ui.isEdit
    BY <1>8 DEF Base, Sane
  <2>2. Opens(0)
    BY <1>1, <1>2, <1>3, <1>8, <2>1 DEF Opens, k
  <2> QED
    BY <1>1, <1>2, <1>3, <1>8, <2>1, <2>2 DEF Reopening
<1> USE DEF v, x, y, z, o
<1> QED
  BY <1>4, <1>5, <1>6, <1>7, <1>8, Zenon

(* A sheet is submitted. *)
LEMMA SheetAsks ==
  ASSUME Base, form \in AirForms, ui.open, NEW n \in Nat, NEW c, NEW u,
         \/ form # "air/user" /\ c = Saving
         \/ form # "air/user" /\ n # 0 /\ c = [Saving EXCEPT !.n = n]
         \/ form = "air/token" /\ c = [Saving EXCEPT !.left = n]
         \/ form = "air/user" /\ c = [Saving EXCEPT !.put = TRUE],
         u = ui \/ u = [ui EXCEPT !.loading = TRUE],
         Begin(c, u)
  PROVE  \E d \in Record : Submitting(d)
<1>1. ui \in View /\ TRUE \in BOOLEAN
  BY DEF Base, TypeOK
<1>2. u \in View /\ u.inputs = ui.inputs
      /\ u.open = ui.open /\ u.target = ui.target /\ u.isEdit = ui.isEdit
      /\ u.timers = ui.timers /\ u.opened = ui.opened /\ u.initial = ui.initial
  BY <1>1 DEF View
<1>3. Goes /\ ui' = u /\ Sends(c)
  BY <1>2, BeginSends
<1>4. /\ Saving \in Record
      /\ Saving.op = "save" /\ Saving.id = ui.target
      /\ Saving.of = ui.inputs.of /\ (Saving.put <=> ui.isEdit) /\ Saving.phase = "asked"
      /\ Saving.made = 0 /\ Saving.total = 0 /\ Saving.left = 0 /\ Saving.n = 1
      /\ Saving.alive
  BY <1>1, SavingType
<1>5. c \in Record
  <2>1. \A b \in BOOLEAN, m \in Nat :
          /\ [Saving EXCEPT !.n = m] \in Record /\ [Saving EXCEPT !.left = m] \in Record
          /\ [Saving EXCEPT !.put = b] \in Record
    BY SavingType
  <2> QED
    BY <1>1, <1>4, <2>1, Zenon
<1>6. Asks(c)
  <2>1. form \notin BerryForms
    BY DEF AirForms, BerryForms
  <2>2. /\ c.op = "save" /\ c.id = ui.target
        /\ c.of = ui.inputs.of /\ c.phase = "asked" /\ c.made = 0 /\ c.total = 0 /\ c.alive
        /\ c.n > 0 /\ (c.left # 0 => form = "air/token")
        /\ (c.put <=> (ui.isEdit \/ form = "air/user"))
    BY <1>4 DEF Record
  <2> QED
    BY <1>5, <2>1, <2>2 DEF Asks
<1>7. form \notin DefaultForms
  BY DEF AirForms, DefaultForms
<1> QED
  BY <1>2, <1>3, <1>5, <1>6, <1>7 DEF Submitting, SameView, SameRow, SameInputs

(* A form that stays mounted goes on with its answer. *)
LEMMA SettleEnds ==
  ASSUME Base, form \notin DefaultForms, NEW s \in Slots, NEW op, Served(s, op),
         NEW u \in View, NEW next, NEW told, Settle(s, u, next, told)
  PROVE  Ends(s, next, told) /\ calls[s].op = op /\ ui' = u
<1>1. calls[s] # None /\ calls[s].phase = "served" /\ calls[s].op = op /\ calls[s].alive
  BY DEF Served, Base, Whole, InFlight
<1> QED
  BY <1>1 DEF Settle, Ends

(* What closing leaves of a sheet. *)
LEMMA ClosingViews ==
  ASSUME Base
  PROVE  LET c == A!Closing
             d == A!TokenClosing
             e == A!UserClosed
         IN  /\ c \in View /\ ~c.open /\ c.target = ui.target /\ c.isEdit = ui.isEdit
             /\ c.opened = ui.opened /\ c.timers = ui.timers /\ c.initial = ui.initial
             /\ c.inputs = ui.inputs
             /\ d \in View /\ ~d.open /\ d.target = ui.target /\ d.isEdit = ui.isEdit
             /\ d.opened = ui.opened /\ d.timers = ui.timers + 1 /\ d.initial = ui.initial
             /\ d.inputs = ui.inputs
             /\ e \in View /\ ~e.open /\ e.target = 0 /\ e.opened = ui.opened
             /\ e.timers = ui.timers
<1> DEFINE c == [ui EXCEPT !.open = FALSE]
           n == c.timers + 1
           d == [c EXCEPT !.timers = n]
           e == [c EXCEPT !.target = 0, !.loading = TRUE]
<1>1. ui \in View /\ FALSE \in BOOLEAN /\ TRUE \in BOOLEAN /\ 0 \in Rows
  BY DEF Base, TypeOK, Rows
<1>2. A!Closing = c
  BY DEF A!Closing
<1>3. c \in View /\ ~c.open /\ c.target = ui.target /\ c.isEdit = ui.isEdit
      /\ c.opened = ui.opened /\ c.timers = ui.timers /\ c.initial = ui.initial
      /\ c.inputs = ui.inputs
  BY <1>1 DEF View
<1>4. A!TokenClosing = d /\ A!UserClosed = e
  BY <1>2 DEF A!TokenClosing, A!UserClosed
<1> HIDE DEF c
<1>5. n = ui.timers + 1 /\ n \in Nat
  BY <1>1, <1>3 DEF View
<1>6. \A u \in View, m \in Nat, r \in Rows, a \in BOOLEAN :
        [u EXCEPT !.timers = m] \in View /\ [u EXCEPT !.target = r, !.loading = a] \in View
  BY DEF View
<1> HIDE DEF n
<1>7. d \in View /\ e \in View
  BY <1>1, <1>3, <1>5, <1>6, Zenon
<1>8. ~d.open /\ d.target = ui.target /\ d.isEdit = ui.isEdit
      /\ d.opened = ui.opened /\ d.timers = ui.timers + 1 /\ d.initial = ui.initial
      /\ d.inputs = ui.inputs
      /\ ~e.open /\ e.target = 0 /\ e.opened = ui.opened /\ e.timers = ui.timers
  BY <1>3, <1>5, <1>7 DEF View
<1> QED
  BY <1>2, <1>3, <1>4, <1>7, <1>8, Zenon

(* A sheet is closed. *)
LEMMA CloseShapes ==
  ASSUME Base, form \in AirForms
  PROVE  /\ form \notin {"air/user", "air/token"} /\ Close(A!Closing, calls) => SheetCloses
         /\ form = "air/token" /\ Close(A!TokenClosing, calls) => SheetCloses
         /\ /\ form = "air/user" /\ InFlight # Slots
            /\ Close(A!UserClosed, With(Loading(Self)))
            => UserCloses
<1>1. \A cs : \A u \in View : Close(u, cs) => Goes /\ ui' = u /\ calls' = cs /\ ui.open
  BY DoesAct
<1>2. /\ A!Closing \in View /\ ~A!Closing.open /\ A!Closing.target = ui.target
      /\ A!Closing.isEdit = ui.isEdit
      /\ A!Closing.opened = ui.opened /\ A!Closing.timers = ui.timers
      /\ A!Closing.initial = ui.initial /\ A!Closing.inputs = ui.inputs
  BY ClosingViews, Zenon
<1>3. /\ A!TokenClosing \in View /\ ~A!TokenClosing.open /\ A!TokenClosing.target = ui.target
      /\ A!TokenClosing.isEdit = ui.isEdit
      /\ A!TokenClosing.opened = ui.opened /\ A!TokenClosing.timers = ui.timers + 1
      /\ A!TokenClosing.initial = ui.initial /\ A!TokenClosing.inputs = ui.inputs
  BY ClosingViews, Zenon
<1>4. /\ A!UserClosed \in View /\ ~A!UserClosed.open /\ A!UserClosed.target = 0
      /\ A!UserClosed.opened = ui.opened /\ A!UserClosed.timers = ui.timers
  BY ClosingViews, Zenon
<1>5. ASSUME form \notin {"air/user", "air/token"}, Close(A!Closing, calls) PROVE SheetCloses
  BY <1>1, <1>2, <1>5 DEF SheetCloses, Closes, SameRow
<1>6. ASSUME form = "air/token", Close(A!TokenClosing, calls) PROVE SheetCloses
  BY <1>1, <1>3, <1>6 DEF SheetCloses, Closes, SameRow
<1>7. ASSUME form = "air/user", InFlight # Slots, Close(A!UserClosed, With(Loading(Self)))
      PROVE  UserCloses
  BY <1>1, <1>4, <1>7, WithSends DEF UserCloses, Closes
<1> QED
  BY <1>5, <1>6, <1>7

(* A sheet goes on with the answer to its submission. *)
LEMMA SheetSaveShapes ==
  ASSUME Base, form \in AirForms, NEW s \in Slots
  PROVE  /\ form = "air/channel" /\ A!ChannelSaved(s) => SheetSaves(s)
         /\ form = "air/adduser" /\ A!AddUserSaved(s) => SheetSaves(s)
         /\ form = "air/redemption" /\ A!RedemptionSaved(s) => SheetSaves(s)
<1> DEFINE c == calls[s]
           o == [ui EXCEPT !.open = FALSE]
           l == [ui EXCEPT !.loading = FALSE]
           i == IF c.put THEN ui.inputs ELSE Origin
           p == [o EXCEPT !.inputs = i]
           q == [o EXCEPT !.loading = FALSE, !.inputs = Origin]
           r == [l EXCEPT !.open = FALSE, !.inputs = i]
<1>1. ui \in View /\ FALSE \in BOOLEAN /\ i \in Fields /\ Origin \in Fields
  BY OriginType DEF Base, TypeOK, View
<1>2. A!Closing = o
  BY DEF A!Closing
<1>3. /\ o \in View /\ ~o.open /\ o.target = ui.target /\ o.isEdit = ui.isEdit
      /\ o.opened = ui.opened /\ o.timers = ui.timers /\ o.initial = ui.initial
      /\ o.inputs = ui.inputs
      /\ l \in View /\ l.open = ui.open /\ l.target = ui.target /\ l.isEdit = ui.isEdit
      /\ l.opened = ui.opened /\ l.timers = ui.timers /\ l.initial = ui.initial
      /\ l.inputs = ui.inputs
  BY <1>1 DEF View
<1> HIDE DEF i, o, l
<1>4. p \in View /\ q \in View /\ r \in View
  BY <1>1, <1>3 DEF View
<1>5. /\ ~p.open /\ p.target = ui.target /\ p.isEdit = ui.isEdit
      /\ p.opened = ui.opened /\ p.timers = ui.timers /\ p.initial = ui.initial
      /\ p.inputs = i
      /\ ~q.open /\ q.target = ui.target /\ q.isEdit = ui.isEdit
      /\ q.opened = ui.opened /\ q.timers = ui.timers /\ q.initial = ui.initial
      /\ q.inputs = Origin
      /\ ~r.open /\ r.target = ui.target /\ r.isEdit = ui.isEdit
      /\ r.opened = ui.opened /\ r.timers = ui.timers /\ r.initial = ui.initial
      /\ r.inputs = i
  BY <1>1, <1>3 DEF View
<1>6. form \notin DefaultForms
  BY DEF AirForms, DefaultForms
<1>7. \A u \in View : Served(s, "save") /\ Settle(s, u, None, c.made) =>
                        Saves(s, None, c.made) /\ ui' = u
  BY <1>6, SettleEnds DEF Saves
<1>8. ASSUME form = "air/channel", A!ChannelSaved(s) PROVE SheetSaves(s)
  <2>1. Served(s, "save") /\ Settle(s, IF c.ok THEN p ELSE ui, None, c.made)
    <3>1. [A!Closing EXCEPT !.inputs = IF c.put THEN @ ELSE A!Origin] = p
      BY <1>2, <1>3, Words DEF i
    <3> QED
      BY <1>8, <3>1, Words, WordsForSteps DEF A!ChannelSaved
  <2>2. Saves(s, None, c.made) /\ ui' = (IF c.ok THEN p ELSE ui)
    BY <1>1, <1>4, <1>7, <2>1
  <2> HIDE DEF p
  <2> QED
    BY <1>5, <1>8, <2>2 DEF SheetSaves, SameRow, i
<1>9. ASSUME form = "air/adduser", A!AddUserSaved(s) PROVE SheetSaves(s)
  <2>1. Served(s, "save") /\ Settle(s, IF c.ok THEN q ELSE l, None, c.made)
    <3>1. [A!Closing EXCEPT !.loading = FALSE, !.inputs = A!Origin] = q
      BY <1>2, Words
    <3> QED
      BY <1>9, <3>1, Words, WordsForSteps DEF A!AddUserSaved, l
  <2>2. Saves(s, None, c.made) /\ ui' = (IF c.ok THEN q ELSE l)
    BY <1>3, <1>4, <1>7, <2>1
  <2> HIDE DEF q
  <2> QED
    BY <1>3, <1>5, <1>9, <2>2 DEF SheetSaves, SameRow
<1>10. ASSUME form = "air/redemption", A!RedemptionSaved(s) PROVE SheetSaves(s)
  <2>1. Served(s, "save") /\ Settle(s, IF ~c.ok THEN l ELSE r, None, c.made)
    <3>1. [l EXCEPT !.open = FALSE, !.inputs = IF c.put THEN @ ELSE A!Origin] = r
      BY <1>3, Words DEF i
    <3> QED
      BY <1>10, <3>1, Words, WordsForSteps DEF A!RedemptionSaved, l
  <2>2. Saves(s, None, c.made) /\ ui' = (IF ~c.ok THEN l ELSE r)
    BY <1>3, <1>4, <1>7, <2>1
  <2> HIDE DEF r
  <2> QED
    BY <1>3, <1>5, <1>10, <2>2 DEF SheetSaves, SameRow, i
<1> QED
  BY <1>8, <1>9, <1>10

(* The sheet for tokens goes on with the next token, or is done. *)
LEMMA TokenSaveShapes ==
  ASSUME Base, form = "air/token", NEW s \in Slots, A!TokenSaved(s)
  PROVE  TokenGoesOn(s) \/ TokenSaves(s)
<1> DEFINE c == calls[s]
           n == [c EXCEPT !.phase = "asked", !.ok = FALSE, !.made = 0, !.left = @ - 1,
                          !.total = c.total + c.made]
           v == IF c.total + c.made > 0 THEN A!TokenClosing ELSE ui
           u == [v EXCEPT !.loading = FALSE, !.inputs = Origin]
<1>1. form \notin DefaultForms
  BY DEF DefaultForms
<1>2. ui \in View /\ FALSE \in BOOLEAN /\ Origin \in Fields
  BY OriginType DEF Base, TypeOK
<1>3. Served(s, "save") /\ (IF ~c.put /\ c.ok /\ c.left > 0
                            THEN Settle(s, ui, n, 0)
                            ELSE Settle(s, u, None, c.total + c.made))
  BY Words, WordsForSteps DEF A!TokenSaved
<1>4. CASE ~c.put /\ c.ok /\ c.left > 0
  <2>1. Saves(s, n, 0) /\ ui' = ui
    BY <1>1, <1>2, <1>3, <1>4, SettleEnds DEF Saves
  <2>2. n = [c EXCEPT !.phase = "asked", !.ok = FALSE, !.made = 0, !.left = @ - 1,
                      !.total = @ + c.made]
    OBVIOUS
  <2> QED
    BY <1>4, <2>1, <2>2 DEF TokenGoesOn
<1>5. CASE ~(~c.put /\ c.ok /\ c.left > 0)
  <2>1. /\ A!TokenClosing \in View /\ ~A!TokenClosing.open /\ A!TokenClosing.target = ui.target
        /\ A!TokenClosing.isEdit = ui.isEdit
        /\ A!TokenClosing.opened = ui.opened /\ A!TokenClosing.timers = ui.timers + 1
        /\ A!TokenClosing.initial = ui.initial
    BY ClosingViews, Zenon
  <2>2. /\ v \in View /\ v.target = ui.target /\ v.isEdit = ui.isEdit
        /\ v.opened = ui.opened /\ v.initial = ui.initial
        /\ IF c.total + c.made > 0 THEN ~v.open /\ v.timers = ui.timers + 1
                                   ELSE v.open = ui.open /\ v.timers = ui.timers
    BY <1>2, <2>1
  <2> HIDE DEF v
  <2>3. u \in View /\ u.target = ui.target /\ u.isEdit = ui.isEdit
        /\ u.opened = ui.opened /\ u.initial = ui.initial /\ u.inputs = Origin
        /\ u.open = v.open /\ u.timers = v.timers
    BY <1>2, <2>2 DEF View
  <2> HIDE DEF u
  <2>4. Saves(s, None, c.total + c.made) /\ ui' = u
    BY <1>1, <1>3, <1>5, <2>3, SettleEnds DEF Saves
  <2> QED
    BY <2>2, <2>3, <2>4 DEF TokenSaves, SameRow
<1> QED
  BY <1>4, <1>5

(* The sheet for users: the table forgets the row, unless the sheet was closed before. *)
LEMMA UserSaveShapes ==
  ASSUME Base, form = "air/user", NEW s \in Slots, A!UserSaved(s)
  PROVE  UserSaves(s)
<1> DEFINE c == calls[s]
           o == A!Closing
           p == [o EXCEPT !.loading = FALSE]
           q == [ui EXCEPT !.loading = FALSE]
<1>1. form \notin DefaultForms
  BY DEF DefaultForms
<1>2. /\ o \in View /\ ~o.open /\ o.target = ui.target /\ o.opened = ui.opened
      /\ o.timers = ui.timers /\ o.inputs = ui.inputs
  BY ClosingViews, Zenon
<1>3. /\ A!UserClosed \in View /\ ~A!UserClosed.open /\ A!UserClosed.target = 0
      /\ A!UserClosed.opened = ui.opened /\ A!UserClosed.timers = ui.timers
  BY ClosingViews, Zenon
<1> HIDE DEF o
<1>4. /\ p \in View /\ ~p.open /\ p.target = ui.target /\ p.opened = ui.opened
      /\ p.timers = ui.timers /\ p.inputs = ui.inputs
      /\ q \in View /\ q.open = ui.open /\ q.target = ui.target /\ q.opened = ui.opened
      /\ q.timers = ui.timers /\ q.inputs = ui.inputs
  BY <1>2 DEF View, Base, TypeOK
<1>5. Served(s, "save") /\ (IF c.ok
                            THEN IF ui.target # 0
                                 THEN Settle(s, A!UserClosed, Loading(Self), c.made)
                                 ELSE Settle(s, p, None, c.made)
                            ELSE Settle(s, q, None, c.made))
  BY Words, WordsForSteps DEF A!UserSaved, o
<1> HIDE DEF p, q
<1>6. \A next : \A u \in View : Settle(s, u, next, c.made) => Saves(s, next, c.made) /\ ui' = u
  BY <1>1, <1>5, SettleEnds DEF Saves
<1> QED
  BY <1>3, <1>4, <1>5, <1>6 DEF UserSaves

(* Every handler of air has one of the shapes. *)
LEMMA AirShape ==
  ASSUME Base, A!AirNext
  PROVE  Shape
<1>1. form \in AirForms /\ form \notin BerryForms /\ Most \in Nat \ {0}
  <2>1. form \in {"air/channel", "air/token", "air/user", "air/redemption", "air/adduser"}
    BY DEF A!AirNext, A!Channel, A!Token, A!User, A!AddUser, A!Redemption
  <2> QED
    BY <2>1, FormAssumption DEF AirForms, BerryForms
<1>2. /\ \A u, cs : /\ A!Do(u, cs) <=> Do(u, cs)
                    /\ A!Turn(u, cs) <=> Turn(u, cs)
                    /\ A!Close(u, cs) <=> Close(u, cs)
      /\ \A u, c : A!Begin(c, u) <=> Begin(c, u)
      /\ \A u : A!Enter(u) <=> Enter(u)
  BY WordsForSteps
<1>3. \A s \in Slots : A!LoadAnswered(s) => Loads(s)
  BY <1>1, LoadShape, Words
<1>4. ASSUME NEW a \in BOOLEAN, NEW u, A!Enter(u),
             \/ u = [ui EXCEPT !.inputs.entered = a] \/ u = [ui EXCEPT !.inputs.keyed = a]
             \/ u = [ui EXCEPT !.inputs.full = a]
             \/ u = [ui EXCEPT !.inputs.entered = TRUE, !.inputs.full = a]
      PROVE  Shape
  BY <1>2, <1>4, EntersField DEF Shape
<1>5. A!EnterField => Shape
  BY <1>4 DEF A!EnterField
<1>6. ASSUME ui.open, NEW n \in Nat, NEW c, NEW u,
             \/ form # "air/user" /\ c = Saving
             \/ form # "air/user" /\ n # 0 /\ c = [Saving EXCEPT !.n = n]
             \/ form = "air/token" /\ c = [Saving EXCEPT !.left = n]
             \/ form = "air/user" /\ c = [Saving EXCEPT !.put = TRUE],
             u = ui \/ u = [ui EXCEPT !.loading = TRUE], A!Begin(c, u)
      PROVE  Shape
  BY <1>1, <1>2, <1>6, SheetAsks DEF Shape
<1>7. ASSUME ~ui.open, form \in {"air/channel", "air/redemption"}, NEW t \in Rows,
             A!Retarget(A!Opening(t), t, calls)
      PROVE  Shape
  <2> DEFINE v == [A!Opening(t) EXCEPT !.target = t, !.isEdit = t # 0]
  <2>1. CASE t = ui.target
    <3>1. Do(v, calls)
      BY <1>2, <1>7, <2>1 DEF A!Retarget
    <3>2. Opens(t) /\ UNCHANGED calls /\ ui'.inputs = ui.inputs /\ hist'.blind = hist.blind
      <4> HIDE DEF v
      <4> QED
        BY <1>1, <1>7, <3>1, OpenShapes, Zenon DEF v
    <3> QED
      BY <1>1, <1>7, <2>1, <3>2 DEF Reopening, Shape
  <2>2. CASE t # ui.target /\ t = 0
    <3>1. Turn([v EXCEPT !.inputs = Origin], calls)
      BY <1>2, <1>7, <2>2, Words DEF A!Retarget
    <3>2. Opens(t) /\ UNCHANGED calls /\ ui'.inputs = Origin
      BY <1>1, <1>7, <3>1, OpenShapes, Zenon
    <3> QED
      BY <1>1, <1>7, <2>2, <3>2 DEF Emptying, Shape
  <2>3. CASE t # ui.target /\ t # 0
    <3>1. InFlight # Slots /\ Turn([v EXCEPT !.loading = TRUE], With(Loading(t)))
      BY <1>2, <1>7, <2>3, Words DEF A!Retarget, With
    <3>2. Opens(t) /\ Sends(Loading(t))
      BY <1>1, <1>7, <3>1, OpenShapes, Zenon
    <3> QED
      BY <1>7, <2>3, <3>2 DEF Fetching, Shape
  <2> QED
    BY <2>1, <2>2, <2>3
<1>8. SheetCloses \/ UserCloses => Shape
  BY DEF Shape
<1>9. \A s \in Slots : SheetSaves(s) \/ TokenGoesOn(s) \/ TokenSaves(s) \/ UserSaves(s) => Shape
  BY DEF Shape
<1>10. CASE A!Channel
  <2>1. form = "air/channel"
    BY <1>10 DEF A!Channel
  <2>2. CASE A!ChannelType
    <3>1. PICK p \in BOOLEAN :
            A!Enter([ui EXCEPT !.inputs.entered = TRUE, !.inputs.full = @ \/ p])
      BY <2>2 DEF A!ChannelType
    <3>2. (ui.inputs.full \/ p) \in BOOLEAN
      OBVIOUS
    <3> QED
      BY <1>4, <3>1, <3>2
  <2>3. CASE A!ChannelFields \/ A!ChannelSecret \/ A!ChannelModels \/ A!ChannelAddModel
    BY <1>4, <2>3 DEF A!ChannelFields, A!ChannelSecret, A!ChannelModels, A!ChannelAddModel
  <2>4. CASE A!ChannelSubmit
    BY <1>6, <2>1, <2>4, Words DEF A!ChannelSubmit
  <2>5. CASE \E t \in Ids \cup {0} : A!ChannelOpen(t)
    BY <1>7, <2>1, <2>5 DEF A!ChannelOpen, Rows
  <2>6. CASE A!ChannelClose
    BY <1>1, <1>2, <1>8, <2>1, <2>6, CloseShapes DEF A!ChannelClose
  <2>7. CASE \E s \in Slots : A!ChannelLoaded(s)
    BY <1>3, <2>7 DEF A!ChannelLoaded, Shape
  <2>8. CASE \E s \in Slots : A!ChannelSaved(s)
    BY <1>1, <1>9, <2>1, <2>8, SheetSaveShapes
  <2> QED
    BY <1>10, <2>2, <2>3, <2>4, <2>5, <2>6, <2>7, <2>8 DEF A!Channel
<1>11. CASE A!Token
  <2>1. form = "air/token"
    BY <1>11 DEF A!Token
  <2>2. CASE A!TokenEnter
    BY <1>5, <2>2 DEF A!TokenEnter
  <2>3. CASE A!TokenSubmit
    <3>1. PICK n \in (IF ui.isEdit THEN {1} ELSE 1..Most) :
            A!Begin([Saving EXCEPT !.left = n - 1], [ui EXCEPT !.loading = TRUE])
      BY <2>3, Words DEF A!TokenSubmit
    <3>2. n - 1 \in Nat
      BY <1>1
    <3> QED
      BY <1>6, <2>1, <2>3, <3>1, <3>2 DEF A!TokenSubmit
  <2>4. CASE \E t \in Ids \cup {0} : A!TokenOpen(t)
    <3>1. PICK t \in Rows : A!TokenOpen(t)
      BY <2>4 DEF Rows
    <3> DEFINE u == [A!Opening(t) EXCEPT !.target = t, !.isEdit = t # 0]
    <3>2. ~ui.open
      BY <3>1 DEF A!TokenOpen
    <3>3. CASE t # 0 <=> ui.isEdit
      <4>1. Do(u, calls)
        <5>1. (t # 0) = ui.isEdit
          BY <3>3 DEF Base, TypeOK, View
        <5> QED
          BY <1>2, <3>1, <5>1 DEF A!TokenOpen
      <4>2. Opens(t) /\ UNCHANGED calls /\ ui'.inputs = ui.inputs /\ hist'.blind = hist.blind
        BY <1>1, <3>2, <4>1, OpenShapes, Zenon
      <4> QED
        BY <1>1, <2>1, <3>3, <4>2 DEF Reopening, Shape
    <3>4. CASE ~(t # 0 <=> ui.isEdit) /\ t = 0
      <4>1. Turn([u EXCEPT !.inputs = Origin], calls)
        BY <1>2, <3>1, <3>4, Words DEF A!TokenOpen
      <4>2. Opens(t) /\ UNCHANGED calls /\ ui'.inputs = Origin
        BY <1>1, <3>2, <4>1, OpenShapes, Zenon
      <4> QED
        BY <1>1, <2>1, <3>4, <4>2 DEF Emptying, Shape
    <3>5. CASE ~(t # 0 <=> ui.isEdit) /\ t # 0
      <4>1. InFlight # Slots /\ Turn([u EXCEPT !.loading = TRUE], With(Loading(t)))
        BY <1>2, <3>1, <3>5, Words DEF A!TokenOpen
      <4>2. Opens(t) /\ Sends(Loading(t))
        BY <1>1, <3>2, <4>1, OpenShapes, Zenon
      <4> QED
        BY <2>1, <3>5, <4>2 DEF Fetching, Shape
    <3> QED
      BY <3>3, <3>4, <3>5
  <2>5. CASE A!TokenClose
    BY <1>1, <1>2, <1>8, <2>1, <2>5, CloseShapes DEF A!TokenClose
  <2>6. CASE A!TokenForget
    <3> DEFINE i == IF ui.isEdit THEN Origin ELSE ui.inputs
               n == ui.timers - 1
               u == [ui EXCEPT !.timers = n, !.target = 0, !.isEdit = FALSE, !.inputs = i]
    <3>1. ui \in View /\ i \in Fields /\ n \in Nat /\ 0 \in Rows /\ FALSE \in BOOLEAN
      BY <2>6, OriginType DEF A!TokenForget, Base, TypeOK, View, Rows
    <3>2. ui' = u /\ ui.timers > 0 /\ UNCHANGED <<form, db, calls, hist>>
      <4>1. [ui EXCEPT !.timers = @ - 1, !.target = 0, !.isEdit = FALSE,
                       !.inputs = IF ui.isEdit THEN A!Origin ELSE @] = u
        BY Words
      <4> QED
        BY <2>6, <4>1 DEF A!TokenForget
    <3>3. u \in View /\ u.timers = n /\ u.target = 0 /\ ~u.isEdit /\ u.open = ui.open
          /\ u.opened = ui.opened /\ u.inputs = i
      <4> HIDE DEF i, n
      <4> QED
        BY <3>1 DEF View
    <3> HIDE DEF u
    <3> QED
      BY <2>1, <3>2, <3>3 DEF Forgetting, Shape
  <2>7. CASE A!TokenBadDate
    <3> DEFINE u == [ui EXCEPT !.inputs = Origin]
    <3>1. ui.open /\ ~ui.isEdit /\ Do(u, calls)
      BY <1>2, <2>7, Words DEF A!TokenBadDate
    <3>2. u \in View /\ u.target = ui.target /\ u.isEdit = ui.isEdit /\ u.open = ui.open
          /\ u.opened = ui.opened /\ u.timers = ui.timers /\ u.initial = ui.initial
          /\ u.inputs = Origin
      BY OriginType DEF View, Base, TypeOK
    <3> HIDE DEF u
    <3>3. Goes /\ ui' = u /\ UNCHANGED calls
      BY <3>1, <3>2, DoesAct
    <3> QED
      BY <2>1, <3>1, <3>2, <3>3 DEF Spoiling, SameView, SameRow, Shape
  <2>8. CASE \E s \in Slots : A!TokenLoaded(s)
    BY <1>3, <2>8 DEF A!TokenLoaded, Shape
  <2>9. CASE \E s \in Slots : A!TokenSaved(s)
    BY <1>9, <2>1, <2>9, TokenSaveShapes
  <2> QED
    BY <1>11, <2>2, <2>3, <2>4, <2>5, <2>6, <2>7, <2>8, <2>9 DEF A!Token
<1>12. CASE A!User
  <2>1. form = "air/user"
    BY <1>12 DEF A!User
  <2>2. CASE A!UserEnter
    BY <1>5, <2>2 DEF A!UserEnter
  <2>3. CASE A!UserSubmit
    <3>1. ui.open /\ A!Begin([Saving EXCEPT !.put = TRUE], [ui EXCEPT !.loading = TRUE])
      BY <2>3, Words DEF A!UserSubmit
    <3>2. 0 \in Nat
      OBVIOUS
    <3> QED
      BY <1>6, <2>1, <3>1, <3>2
  <2>4. CASE \E t \in Ids : A!UserOpen(t)
    <3>1. PICK t \in Ids : A!UserOpen(t)
      BY <2>4
    <3>2. /\ ~ui.open /\ InFlight # Slots
          /\ Turn([A!Opening(t) EXCEPT !.target = t, !.loading = TRUE], With(Loading(t)))
      BY <1>2, <3>1, Words DEF A!UserOpen
    <3>3. t \in Rows /\ t # 0
      BY FormAssumption DEF Rows
    <3>4. Opens(t) /\ Sends(Loading(t))
      BY <1>1, <2>1, <3>2, <3>3, OpenShapes, Zenon
    <3> QED
      BY <2>1, <3>3, <3>4 DEF Fetching, Shape
  <2>5. CASE A!UserClose
    BY <1>1, <1>2, <1>8, <2>1, <2>5, CloseShapes, Words DEF A!UserClose
  <2>6. CASE \E s \in Slots : A!UserLoaded(s)
    BY <1>3, <2>6 DEF A!UserLoaded, Shape
  <2>7. CASE \E s \in Slots : A!UserSaved(s)
    BY <1>9, <2>1, <2>7, UserSaveShapes
  <2> QED
    BY <1>12, <2>2, <2>3, <2>4, <2>5, <2>6, <2>7 DEF A!User
<1>13. CASE A!AddUser
  <2>1. form = "air/adduser"
    BY <1>13 DEF A!AddUser
  <2>2. CASE A!AddUserEnter
    BY <1>5, <2>2 DEF A!AddUserEnter
  <2>3. CASE A!AddUserSubmit
    <3>1. CASE A!Begin(Saving, [ui EXCEPT !.loading = TRUE])
      <4>1. 0 \in Nat /\ ui.open
        BY <2>3 DEF A!AddUserSubmit
      <4> QED
        BY <1>6, <2>1, <3>1, <4>1
    <3>2. CASE Do([ui EXCEPT !.loading = TRUE], calls)
      <4> DEFINE u == [ui EXCEPT !.loading = TRUE]
      <4>1. ui.open
        BY <2>3 DEF A!AddUserSubmit
      <4>2. u \in View /\ u.target = ui.target /\ u.isEdit = ui.isEdit /\ u.open = ui.open
            /\ u.opened = ui.opened /\ u.timers = ui.timers /\ u.initial = ui.initial
            /\ u.inputs = ui.inputs
        BY DEF View, Base, TypeOK
      <4> HIDE DEF u
      <4>3. Goes /\ ui' = u /\ UNCHANGED calls
        BY <3>2, <4>2, DoesAct DEF u
      <4> QED
        BY <2>1, <4>1, <4>2, <4>3 DEF Spoiling, SameView, SameRow, Shape
    <3> QED
      BY <1>2, <2>3, <3>1, <3>2, Words DEF A!AddUserSubmit
  <2>4. CASE A!AddUserOpen
    <3>1. ~ui.open /\ Turn(A!Opening(0), calls) /\ 0 \in Rows
      BY <1>2, <2>4 DEF A!AddUserOpen, Rows
    <3>2. Reopening(0)
      BY <1>1, <2>1, <3>1, OpenShapes, Zenon
    <3> QED
      BY <3>1, <3>2 DEF Shape
  <2>5. CASE A!AddUserClose
    BY <1>1, <1>2, <1>8, <2>1, <2>5, CloseShapes DEF A!AddUserClose
  <2>6. CASE \E s \in Slots : A!AddUserSaved(s)
    BY <1>1, <1>9, <2>1, <2>6, SheetSaveShapes
  <2> QED
    BY <1>13, <2>2, <2>3, <2>4, <2>5, <2>6 DEF A!AddUser
<1>14. CASE A!Redemption
  <2>1. form = "air/redemption"
    BY <1>14 DEF A!Redemption
  <2>2. CASE A!RedemptionEnter
    BY <1>5, <2>2 DEF A!RedemptionEnter
  <2>3. CASE A!RedemptionSubmit
    <3>1. PICK n \in (IF ui.isEdit THEN {1} ELSE 1..Most) :
            A!Begin([Saving EXCEPT !.n = n], [ui EXCEPT !.loading = TRUE])
      BY <2>3, Words DEF A!RedemptionSubmit
    <3>2. n \in Nat /\ n # 0
      BY <1>1
    <3> QED
      BY <1>6, <2>1, <2>3, <3>1, <3>2 DEF A!RedemptionSubmit
  <2>4. CASE \E t \in Ids \cup {0} : A!RedemptionOpen(t)
    BY <1>7, <2>1, <2>4 DEF A!RedemptionOpen, Rows
  <2>5. CASE A!RedemptionClose
    BY <1>1, <1>2, <1>8, <2>1, <2>5, CloseShapes DEF A!RedemptionClose
  <2>6. CASE \E s \in Slots : A!RedemptionLoaded(s)
    BY <1>3, <2>6 DEF A!RedemptionLoaded, Shape
  <2>7. CASE \E s \in Slots : A!RedemptionSaved(s)
    BY <1>1, <1>9, <2>1, <2>7, SheetSaveShapes
  <2> QED
    BY <1>14, <2>2, <2>3, <2>4, <2>5, <2>6, <2>7 DEF A!Redemption
<1> QED
  BY <1>10, <1>11, <1>12, <1>13, <1>14 DEF A!AirNext

(* A dialog is opened: Formik starts from the initial inputs. *)
LEMMA DialogOpens ==
  ASSUME Base, form \in BerryForms, NEW t \in Rows, B!Open(t)
  PROVE  Shape
<1> DEFINE k == IF t = 0 THEN 0 ELSE db[t]
           u == [ui EXCEPT !.open = TRUE, !.target = t, !.isEdit = t # 0,
                           !.inputs = ui.initial, !.busy = FALSE, !.opened = k]
<1>1. form \notin DefaultForms /\ form \notin {"air/user", "air/adduser", "air/token"}
  BY DEF BerryForms, DefaultForms
<1>2. ~ui.open /\ ui.target = 0
  BY DEF B!Open, Base, Sane
<1>3. u \in View
  <2>1. k \in Nat /\ ui \in View /\ ui.initial \in Fields /\ (t # 0) \in BOOLEAN
        /\ TRUE \in BOOLEAN /\ FALSE \in BOOLEAN
    BY DEF Base, TypeOK, Rows, View
  <2>2. \A o, e, b \in BOOLEAN, i \in Fields, n \in Nat :
          [ui EXCEPT !.open = o, !.target = t, !.isEdit = e, !.inputs = i, !.busy = b,
                     !.opened = n] \in View
    BY <2>1 DEF View
  <2> HIDE DEF k
  <2> QED
    BY <2>1, <2>2, Zenon
<1>4. /\ u.open /\ u.target = t /\ (u.isEdit <=> t # 0) /\ u.inputs = ui.initial
      /\ u.opened = k /\ u.timers = ui.timers /\ u.initial = ui.initial
  <2> HIDE DEF k
  <2> QED
    BY <1>3 DEF View, Base, TypeOK
<1>5. IF t = ui.target THEN Turn(u, calls) ELSE InFlight # Slots /\ Turn(u, With(Loading(t)))
  BY Words, WordsForSteps DEF B!Open, B!Opened
<1> HIDE DEF u
<1>6. Acts /\ ui' = u
  BY <1>3, <1>5, DoesAct
<1>7. Opens(t)
  BY <1>1, <1>2, <1>4, <1>6 DEF Opens
<1>8. CASE t = 0
  <2>1. UNCHANGED calls
    BY <1>2, <1>3, <1>5, <1>8, DoesAct
  <2> QED
    BY <1>1, <1>2, <1>4, <1>6, <1>7, <1>8, <2>1 DEF Reopening, Shape
<1>9. CASE t # 0
  <2>1. Sends(Loading(t))
    <3>1. InFlight # Slots /\ calls' = With(Loading(t))
      BY <1>2, <1>3, <1>5, <1>9, DoesAct
    <3> QED
      BY <3>1, WithSends
  <2> QED
    BY <1>1, <1>7, <1>9, <2>1 DEF Fetching, Shape
<1> QED
  BY <1>8, <1>9

(* What closing leaves of a dialog: no row, and the inputs of a new one. *)
LEMMA ClosedView ==
  ASSUME Base
  PROVE  LET c == B!Closed
             i == IF ui.target # 0 THEN Origin ELSE ui.initial
         IN  /\ c \in View /\ ~c.open /\ c.target = 0 /\ ~c.isEdit /\ c.timers = ui.timers
             /\ c.opened = ui.opened /\ c.initial = i /\ c.inputs = i
<1> DEFINE i == IF ui.target # 0 THEN Origin ELSE ui.initial
           c == [ui EXCEPT !.open = FALSE, !.target = 0, !.isEdit = FALSE, !.busy = FALSE,
                           !.initial = i, !.inputs = i]
<1>1. B!Closed = c
  BY Words DEF B!Closed
<1>2. i \in Fields /\ 0 \in Rows /\ ui \in View /\ FALSE \in BOOLEAN
  BY OriginType DEF Base, TypeOK, View, Rows
<1> HIDE DEF i
<1>3. c \in View /\ ~c.open /\ c.target = 0 /\ ~c.isEdit /\ c.timers = ui.timers
      /\ c.opened = ui.opened /\ c.initial = i /\ c.inputs = i
  BY <1>2 DEF View
<1> USE DEF i
<1> QED
  BY <1>1, <1>3, Zenon

(* A dialog is closed. *)
LEMMA DialogShuts ==
  ASSUME Base, form \in BerryForms, B!Close(B!Closed, calls)
  PROVE  Shape
<1> DEFINE i == IF ui.target # 0 THEN Origin ELSE ui.initial
<1>1. /\ B!Closed \in View /\ ~B!Closed.open /\ B!Closed.target = 0 /\ ~B!Closed.isEdit
      /\ B!Closed.timers = ui.timers /\ B!Closed.opened = ui.opened
      /\ B!Closed.initial = i /\ B!Closed.inputs = i
  BY ClosedView, Zenon
<1>2. Goes /\ ui' = B!Closed /\ UNCHANGED calls /\ ui.open
  <2>1. Close(B!Closed, calls)
    BY WordsForSteps
  <2> QED
    BY <1>1, <2>1, DoesAct
<1> QED
  BY <1>1, <1>2 DEF DialogCloses, DialogLeft, Closes, Shape

(* A dialog is submitted. *)
LEMMA DialogAsks ==
  ASSUME Base, form \in BerryForms, NEW n \in Nat \ {0}, NEW p \in BOOLEAN,
         (p <=> ui.target # 0) \/ (p <=> ui.inputs.of # 0), B!Submit(p, n)
  PROVE  Shape
<1> DEFINE c == [Saving EXCEPT !.put = p, !.n = n]
           u == [ui EXCEPT !.busy = TRUE]
<1>1. ui.open /\ Begin(c, u)
  BY Words, WordsForSteps DEF B!Submit
<1>2. u \in View /\ u.inputs = ui.inputs
      /\ u.open = ui.open /\ u.target = ui.target /\ u.isEdit = ui.isEdit
      /\ u.timers = ui.timers /\ u.opened = ui.opened /\ u.initial = ui.initial
  BY DEF View, Base, TypeOK
<1> HIDE DEF u
<1>3. Goes /\ ui' = u /\ Sends(c)
  BY <1>1, <1>2, BeginSends
<1>4. /\ Saving \in Record
      /\ Saving.op = "save" /\ Saving.id = ui.target
      /\ Saving.of = ui.inputs.of /\ Saving.phase = "asked"
      /\ Saving.made = 0 /\ Saving.total = 0 /\ Saving.left = 0
      /\ Saving.alive /\ c \in Record
  BY SavingType
<1>5. Asks(c)
  <2>1. c.op = "save" /\ c.id = ui.target
        /\ c.of = ui.inputs.of /\ c.phase = "asked" /\ c.made = 0 /\ c.total = 0 /\ c.alive
        /\ c.n > 0 /\ c.left = 0 /\ c.put = p
    BY <1>4 DEF Record
  <2> HIDE DEF c
  <2> QED
    BY <1>4, <2>1 DEF Asks
<1>6. form \notin DefaultForms
  BY DEF BerryForms, DefaultForms
<1> HIDE DEF c
<1>7. Submitting(c) /\ c \in Record
  BY <1>1, <1>2, <1>3, <1>4, <1>5, <1>6 DEF Submitting, SameView, SameRow, SameInputs
<1> QED
  BY <1>7 DEF Shape

(* A dialog goes on with the row it asked for. *)
LEMMA DialogLoadShape ==
  ASSUME Base, form \in BerryForms, NEW s \in Slots, B!Answered(s)
  PROVE  Shape
<1> DEFINE c == calls[s]
           l == Loaded(c)
           v == [ui EXCEPT !.initial = l, !.inputs = l, !.busy = FALSE]
           u == IF c.ok /\ ui.initial # l THEN v ELSE ui
<1>1. Served(s, "load") /\ Settle(s, u, None, 0)
  BY Words, WordsForSteps DEF B!Answered
<1>2. c \in Record
  BY <1>1, NoneIsNoCall DEF Served, Base, TypeOK
<1>3. l \in Fields /\ ui \in View /\ FALSE \in BOOLEAN
  BY <1>2, OriginType DEF Base, TypeOK
<1> HIDE DEF l
<1>4. v \in View /\ v.initial = l /\ v.inputs = l /\ v.target = ui.target
      /\ v.isEdit = ui.isEdit /\ v.opened = ui.opened /\ v.open = ui.open
      /\ v.timers = ui.timers
  BY <1>3 DEF View
<1> HIDE DEF v
<1>5. form \notin DefaultForms
  BY DEF BerryForms, DefaultForms
<1>6. Ends(s, None, 0) /\ c.op = "load" /\ ui' = u
  BY <1>1, <1>3, <1>4, <1>5, SettleEnds
<1>7. DialogLoads(s)
  BY <1>4, <1>6 DEF DialogLoads, SameRow, l
<1> QED
  BY <1>7 DEF Shape

(* A dialog goes on with the answer to its submission. *)
LEMMA DialogSaveShape ==
  ASSUME Base, form \in BerryForms, NEW s \in Slots, NEW told,
         told = calls[s].made \/ (form = "berry/redemption" /\ told = 0), B!Saved(s, told)
  PROVE  Shape
<1> DEFINE c == calls[s]
           i == IF ui.target # 0 THEN Origin ELSE ui.initial
           v == [ui EXCEPT !.busy = FALSE]
           u == IF c.ok THEN B!Closed ELSE v
<1>1. Served(s, "save") /\ Settle(s, u, None, told)
  BY Words, WordsForSteps DEF B!Saved
<1>2. /\ B!Closed \in View /\ ~B!Closed.open /\ B!Closed.target = 0 /\ ~B!Closed.isEdit
      /\ B!Closed.timers = ui.timers /\ B!Closed.opened = ui.opened
      /\ B!Closed.initial = i /\ B!Closed.inputs = i
  BY ClosedView, Zenon
<1>3. v \in View /\ v.inputs = ui.inputs
      /\ v.open = ui.open /\ v.target = ui.target /\ v.isEdit = ui.isEdit
      /\ v.timers = ui.timers /\ v.opened = ui.opened /\ v.initial = ui.initial
  BY DEF View, Base, TypeOK
<1> HIDE DEF v
<1>4. form \notin DefaultForms
  BY DEF BerryForms, DefaultForms
<1>5. Saves(s, None, told) /\ ui' = u
  BY <1>1, <1>2, <1>3, <1>4, SettleEnds DEF Saves
<1>6. DialogSaves(s)
  BY <1>2, <1>3, <1>5 DEF DialogSaves, DialogLeft, SameView, SameRow
<1> QED
  BY <1>6 DEF Shape

(* Every handler of berry has one of the shapes. *)
LEMMA BerryShape ==
  ASSUME Base, B!BerryNext
  PROVE  Shape
<1>1. form \in BerryForms /\ Most \in Nat \ {0}
  <2>1. form \in {"berry/channel", "berry/token", "berry/user", "berry/redemption"}
    BY DEF B!BerryNext, B!Channel, B!Token, B!User, B!Redemption
  <2> QED
    BY <2>1, FormAssumption DEF BerryForms
<1>2. \A t \in Rows : B!Open(t) => Shape
  BY <1>1, DialogOpens
<1>3. B!Close(B!Closed, calls) => Shape
  BY <1>1, DialogShuts
<1>4. \A s \in Slots : B!Answered(s) => Shape
  BY <1>1, DialogLoadShape
<1>5. \A s \in Slots : B!Saved(s, calls[s].made) => Shape
  BY <1>1, DialogSaveShape
<1>6. ASSUME NEW a \in BOOLEAN, NEW u, B!Enter(u),
             \/ u = [ui EXCEPT !.inputs.entered = a] \/ u = [ui EXCEPT !.inputs.keyed = a]
             \/ u = [ui EXCEPT !.inputs.full = a]
             \/ u = [ui EXCEPT !.inputs.entered = TRUE, !.inputs.full = a]
      PROVE  Shape
  BY <1>6, EntersField, WordsForSteps DEF Shape
<1>7. B!EnterField => Shape
  BY <1>6 DEF B!EnterField
<1>8. B!IsEdit \in BOOLEAN /\ (B!IsEdit <=> ui.inputs.of # 0)
  BY DEF B!IsEdit
<1>9. \A n \in Nat \ {0} : B!Submit(B!IsEdit, n) => Shape
  BY <1>1, <1>8, DialogAsks
<1>10. 1 \in Nat \ {0} /\ (ui.target # 0) \in BOOLEAN
  OBVIOUS
<1>11. CASE B!Channel
  <2>1. CASE B!ChannelType
    <3>1. PICK p \in BOOLEAN :
            B!Enter([ui EXCEPT !.inputs.entered = TRUE, !.inputs.full = @ \/ p])
      BY <2>1 DEF B!ChannelType
    <3>2. (ui.inputs.full \/ p) \in BOOLEAN
      OBVIOUS
    <3> QED
      BY <1>6, <3>1, <3>2
  <2>2. CASE B!ChannelFields \/ B!ChannelSecret \/ B!ChannelModels
    BY <1>6, <2>2 DEF B!ChannelFields, B!ChannelSecret, B!ChannelModels
  <2>3. CASE B!ChannelSubmit
    <3>1. B!Submit(ui.target # 0, 1)
      BY <2>3 DEF B!ChannelSubmit
    <3> QED
      BY <1>1, <1>10, <3>1, DialogAsks
  <2>4. CASE \E t \in Ids \cup {0} : B!ChannelOpen(t)
    BY <1>2, <2>4 DEF B!ChannelOpen, Rows
  <2>5. CASE B!ChannelClose
    BY <1>3, <2>5 DEF B!ChannelClose
  <2>6. CASE \E s \in Slots : B!ChannelLoaded(s) \/ B!ChannelSaved(s)
    BY <1>4, <1>5, <2>6 DEF B!ChannelLoaded, B!ChannelSaved
  <2> QED
    BY <1>11, <2>1, <2>2, <2>3, <2>4, <2>5, <2>6 DEF B!Channel
<1>12. CASE B!Token
  <2>1. CASE \E t \in Ids \cup {0} : B!TokenOpen(t)
    BY <1>2, <2>1 DEF B!TokenOpen, Rows
  <2>2. CASE B!TokenClose \/ B!TokenEnter
    BY <1>3, <1>7, <2>2 DEF B!TokenClose, B!TokenEnter
  <2>3. CASE B!TokenSubmit
    BY <1>9, <1>10, <2>3 DEF B!TokenSubmit
  <2>4. CASE \E s \in Slots : B!TokenLoaded(s) \/ B!TokenSaved(s)
    BY <1>4, <1>5, <2>4 DEF B!TokenLoaded, B!TokenSaved
  <2> QED
    BY <1>12, <2>1, <2>2, <2>3, <2>4 DEF B!Token
<1>13. CASE B!User
  <2>1. CASE \E t \in Ids \cup {0} : B!UserOpen(t)
    BY <1>2, <2>1 DEF B!UserOpen, Rows
  <2>2. CASE B!UserClose \/ B!UserEnter
    BY <1>3, <1>7, <2>2 DEF B!UserClose, B!UserEnter
  <2>3. CASE B!UserSubmit
    BY <1>9, <1>10, <2>3 DEF B!UserSubmit
  <2>4. CASE \E s \in Slots : B!UserLoaded(s) \/ B!UserSaved(s)
    BY <1>4, <1>5, <2>4 DEF B!UserLoaded, B!UserSaved
  <2> QED
    BY <1>13, <2>1, <2>2, <2>3, <2>4 DEF B!User
<1>14. CASE B!Redemption
  <2>1. CASE \E t \in Ids \cup {0} : B!RedemptionOpen(t)
    BY <1>2, <2>1 DEF B!RedemptionOpen, Rows
  <2>2. CASE B!RedemptionClose \/ B!RedemptionEnter
    BY <1>3, <1>7, <2>2 DEF B!RedemptionClose, B!RedemptionEnter
  <2>3. CASE B!RedemptionSubmit
    <3>1. PICK n \in (IF B!IsEdit THEN {1} ELSE 1..Most) : B!Submit(B!IsEdit, n)
      BY <2>3 DEF B!RedemptionSubmit
    <3>2. n \in Nat \ {0}
      BY <1>1
    <3> QED
      BY <1>9, <3>1, <3>2
  <2>4. CASE \E s \in Slots : B!RedemptionLoaded(s)
    BY <1>4, <2>4 DEF B!RedemptionLoaded
  <2>5. CASE \E s \in Slots : B!RedemptionSaved(s)
    <3>1. PICK s \in Slots : B!Saved(s, IF calls[s].ok THEN calls[s].made ELSE 0)
      BY <2>5 DEF B!RedemptionSaved
    <3>2. form = "berry/redemption"
      BY <1>14 DEF B!Redemption
    <3> QED
      BY <1>1, <3>1, <3>2, DialogSaveShape
  <2> QED
    BY <1>14, <2>1, <2>2, <2>3, <2>4, <2>5 DEF B!Redemption
<1> QED
  BY <1>11, <1>12, <1>13, <1>14 DEF B!BerryNext

(* A step of the system is one of the shapes, or the server's, or an accident. *)
LEMMA StepShapes ==
  ASSUME Base, [Next]_vars
  PROVE  \/ Shape \/ UNCHANGED vars \/ Foreign
         \/ \E s \in Slots : Serve(s) \/ Lost(s)
BY DefaultShape, AirShape, BerryShape DEF Next

-----------------------------------------------------------------------------
(***************************************************************************)
(* Types, what is true of each call in flight, and of the form: kept by    *)
(* every shape of step.                                                    *)
(***************************************************************************)

Kept == TypeOK' /\ \A s \in InFlight' : Whole(calls[s])'

(* No call is sent or ends. *)
LEMMA QuietStep ==
  ASSUME Base, UNCHANGED <<form, db, calls>>, ui' \in View, hist' \in History,
         hist'.refused = hist.refused
  PROVE  Kept
BY DEF Base, TypeOK, Kept, InFlight, Whole

(* A call is sent. *)
LEMMA SendStep ==
  ASSUME Base, UNCHANGED <<form, db>>, ui' \in View, hist' \in History,
         hist'.refused = hist.refused, NEW c \in Record, c.phase = "asked", Whole(c), Sends(c)
  PROVE  Kept
<1>1. PICK n \in Slots : calls[n] = None /\ calls' = [calls EXCEPT ![n] = c]
  BY DEF Sends
<1>2. calls' \in [Slots -> Record \cup {None}] /\ calls'[n] = c
      /\ \A s \in Slots \ {n} : calls'[s] = calls[s]
  BY <1>1 DEF Base, TypeOK
<1>3. TypeOK'
  BY <1>2 DEF Base, TypeOK
<1>4. ASSUME NEW s \in Slots, calls'[s] # None PROVE Whole(calls[s])'
  <2>1. CASE s = n
    BY <1>2, <2>1 DEF Whole
  <2>2. CASE s # n
    BY <1>2, <1>4, <2>2 DEF Base, InFlight, Whole
  <2> QED
    BY <2>1, <2>2
<1> QED
  BY <1>3, <1>4 DEF Kept, InFlight

(* A call ends, and another may follow in its place. *)
LEMMA EndStep ==
  ASSUME Base, NEW s \in Slots, NEW next, NEW told \in Int, Ends(s, next, told),
         next = None \/ (next \in Record /\ next.phase = "asked" /\ Whole(next))
  PROVE  Kept
<1>1. calls' \in [Slots -> Record \cup {None}] /\ calls'[s] = next
      /\ \A t \in Slots \ {s} : calls'[t] = calls[t]
  BY DEF Base, TypeOK, Ends
<1>2. hist' \in History /\ hist'.refused = hist.refused
  <2>1. hist.untold - told \in Int /\ hist \in History
    BY DEF Base, TypeOK, History
  <2>2. \A i \in Int : [hist EXCEPT !.untold = i] \in History
    BY <2>1 DEF History
  <2> QED
    BY <2>1, <2>2 DEF Ends, History
<1>3. TypeOK'
  BY <1>1, <1>2 DEF Base, TypeOK, Ends
<1>4. ASSUME NEW t \in Slots, calls'[t] # None PROVE Whole(calls[t])'
  <2>1. CASE t = s
    BY <1>1, <1>4, <2>1 DEF Whole, Ends
  <2>2. CASE t # s
    BY <1>1, <1>2, <1>4, <2>2 DEF Base, InFlight, Whole, Ends
  <2> QED
    BY <2>1, <2>2
<1> QED
  BY <1>3, <1>4 DEF Kept, InFlight

(* A call that is not listened to any more is as it was otherwise. *)
LEMMA DeafType ==
  ASSUME NEW c \in Record
  PROVE  LET d == Deaf(c)
         IN  /\ d \in Record /\ d # None /\ ~d.alive /\ d.op = c.op /\ d.id = c.id
             /\ d.made = c.made /\ d.total = c.total /\ d.left = c.left /\ d.n = c.n
             /\ d.phase = c.phase /\ d.ok = c.ok /\ d.put = c.put
<1>1. c # None
  BY NoneIsNoCall
<1>2. [c EXCEPT !.alive = FALSE] \in Record
  BY DEF Record
<1>3. Deaf(c) = [c EXCEPT !.alive = FALSE]
  BY <1>1 DEF Deaf
<1> QED
  BY <1>2, <1>3, NoneIsNoCall DEF Record

(* After a visit every call is deaf, but for the load. *)
LEMMA VisitCalls ==
  ASSUME Base, NEW t \in Rows, Visiting(t)
  PROVE  /\ calls' \in [Slots -> Record \cup {None}]
         /\ \A s \in Slots : \/ calls[s] = None /\ calls'[s] = None
                             \/ calls[s] # None /\ calls'[s] = Deaf(calls[s])
                             \/ t # 0 /\ calls[s] = None /\ calls'[s] = Loading(t)
         /\ t # 0 => \E s \in Slots : calls'[s] = Loading(t)
<1>1. \A s \in Slots : calls[s] # None => calls[s] \in Record
  BY DEF Base, TypeOK
<1>2. Deaf(None) = None
  BY DEF Deaf
<1>3. CASE t = 0
  BY <1>1, <1>2, <1>3, DeafType DEF Visiting
<1>4. CASE t # 0
  <2>1. PICK n \in Slots : /\ calls[n] = None
                           /\ calls' = [s \in Slots |-> IF s = n THEN Loading(t)
                                                        ELSE Deaf(calls[s])]
    BY <1>4 DEF Visiting
  <2> QED
    BY <1>1, <1>2, <1>4, <2>1, DeafType, LoadingType
<1> QED
  BY <1>3, <1>4

(* A page is left. *)
LEMMA VisitStep ==
  ASSUME Base, NEW t \in Rows, Visiting(t)
  PROVE  Kept
<1>1. TypeOK'
  BY VisitCalls DEF Base, TypeOK, Visiting, Acts
<1>2. ASSUME NEW s \in Slots, calls'[s] # None PROVE Whole(calls[s])'
  <2>1. form' = form /\ form \in DefaultForms /\ hist'.refused = hist.refused
    BY DEF Visiting, Acts
  <2>2. CASE calls[s] # None /\ calls'[s] = Deaf(calls[s])
    BY <2>1, <2>2, DeafType DEF Base, TypeOK, InFlight, Whole
  <2>3. CASE t # 0 /\ calls'[s] = Loading(t)
    BY <2>1, <2>3, LoadingType DEF Whole
  <2> QED
    BY <1>2, <2>2, <2>3, VisitCalls
<1> QED
  BY <1>1, <1>2 DEF Kept, InFlight

(* A row that changes has had one change more. *)
LEMMA RowChanges ==
  ASSUME TypeOK, NEW x
  PROVE  LET e == [db EXCEPT ![x] = @ + 1]
         IN  e \in [Ids -> Nat] /\ \A i \in Ids : e[i] >= db[i]
<1> DEFINE e == [db EXCEPT ![x] = @ + 1]
<1>1. ASSUME NEW i \in Ids PROVE e[i] \in Nat /\ e[i] >= db[i]
  BY DEF TypeOK
<1>2. DOMAIN e = Ids /\ e = [i \in DOMAIN e |-> e[i]]
  BY DEF TypeOK
<1> HIDE DEF e
<1>3. e \in [Ids -> Nat]
  BY <1>1, <1>2
<1> QED
  BY <1>1, <1>3 DEF e

(* What the server does to a call, to the rows and to what is remembered. *)
LEMMA ServeEffect ==
  ASSUME Base, NEW s \in Slots, Serve(s)
  PROVE  LET c == calls[s]
             d == calls'[s]
         IN  /\ c \in Record /\ c # None /\ c.phase = "asked" /\ c.made = 0
             /\ d \in Record /\ d # None /\ calls' = [calls EXCEPT ![s] = d]
             /\ d.phase = "served" /\ d.op = c.op /\ d.id = c.id /\ d.put = c.put
             /\ d.of = c.of /\ d.n = c.n /\ d.left = c.left /\ d.total = c.total
             /\ d.alive = c.alive
             /\ d.op = "load" => d.made = 0
             /\ d.op = "load" /\ d.ok => d.ver = db[d.id]
             /\ d.op = "save" /\ d.ok => d.made = d.n
             /\ db' \in [Ids -> Nat] /\ \A i \in Ids : db'[i] >= db[i]
             /\ hist' \in History /\ UNCHANGED <<form, ui>>
             /\ hist'.untold = hist.untold + d.made /\ hist'.lost = hist.lost
             /\ hist'.hurried = hist.hurried
             /\ hist'.refused <=> (hist.refused \/ (c.op = "save" /\ ~d.ok))
             /\ hist'.blind <=> (hist.blind \/ (c.op = "load" /\ ~d.ok /\ c.alive))
<1> DEFINE c == calls[s]
<1>1. c \in Record /\ c # None /\ c.phase = "asked" /\ c.made = 0 /\ Whole(c)
  BY DEF Serve, Base, TypeOK, InFlight, Whole
<1>2. PICK ok \in BOOLEAN, made \in 0..c.n :
       /\ c.op = "load" \/ ~Possible(c) => made = 0
       /\ c.op = "save" /\ ok => made = c.n
       /\ ok => Possible(c)
       /\ db' = IF c.op = "save" /\ c.put /\ ok THEN [db EXCEPT ![c.id] = @ + 1] ELSE db
       /\ calls' = [calls EXCEPT ![s].phase = "served", ![s].ok = ok, ![s].made = made,
                                 ![s].ver = IF c.op = "load" /\ ok THEN db[c.id] ELSE 0]
       /\ hist' = [hist EXCEPT
            !.troubles = IF ok \/ ~Possible(c) THEN @ ELSE @ + 1,
            !.untold = @ + made,
            !.blind = @ \/ (c.op = "load" /\ ~ok /\ c.alive),
            !.refused = @ \/ (c.op = "save" /\ ~ok)]
  BY DEF Serve
<1> DEFINE v == IF c.op = "load" /\ ok THEN db[c.id] ELSE 0
           d == [c EXCEPT !.phase = "served", !.ok = ok, !.made = made, !.ver = v]
<1>3. made \in Nat /\ v \in Nat
  <2>1. c.n \in Nat /\ c.id \in Rows
    BY <1>1 DEF Record
  <2>2. c.op = "load" => c.id \in Ids
    BY <1>1, <2>1 DEF Whole, Rows
  <2> QED
    BY <2>1, <2>2 DEF Base, TypeOK
<1> HIDE DEF v
<1>4. d \in Record
  <2>1. \A b \in BOOLEAN, m, w \in Nat :
          [c EXCEPT !.phase = "served", !.ok = b, !.made = m, !.ver = w] \in Record
    BY <1>1 DEF Record
  <2> QED
    BY <1>3, <2>1, Zenon
<1>5. calls' = [calls EXCEPT ![s] = d] /\ calls'[s] = d
  BY <1>2 DEF v, Base, TypeOK
<1>6. d.phase = "served" /\ d.op = c.op /\ d.id = c.id /\ d.put = c.put
      /\ d.of = c.of /\ d.n = c.n /\ d.left = c.left /\ d.total = c.total
      /\ d.alive = c.alive /\ d.ok = ok /\ d.made = made /\ d.ver = v
  BY <1>1, <1>4 DEF Record
<1> HIDE DEF d
<1>7. db' \in [Ids -> Nat] /\ \A i \in Ids : db'[i] >= db[i]
  <2>1. CASE c.op = "save" /\ c.put /\ ok
    BY <1>2, <2>1, RowChanges DEF Base
  <2>2. CASE ~(c.op = "save" /\ c.put /\ ok)
    BY <1>2, <2>2 DEF Base, TypeOK
  <2> QED
    BY <2>1, <2>2
<1>8. /\ hist' \in History
      /\ hist'.untold = hist.untold + made /\ hist'.lost = hist.lost
      /\ hist'.hurried = hist.hurried
      /\ hist'.refused <=> (hist.refused \/ (c.op = "save" /\ ~ok))
      /\ hist'.blind <=> (hist.blind \/ (c.op = "load" /\ ~ok /\ c.alive))
  <2> DEFINE t == IF ok \/ ~Possible(c) THEN hist.troubles ELSE hist.troubles + 1
             w == hist.untold + made
             b == hist.blind \/ (c.op = "load" /\ ~ok /\ c.alive)
             r == hist.refused \/ (c.op = "save" /\ ~ok)
  <2>1. t \in Nat /\ w \in Int /\ b \in BOOLEAN /\ r \in BOOLEAN /\ hist \in History
    BY <1>3 DEF Base, TypeOK, History
  <2>2. hist' = [hist EXCEPT !.troubles = t, !.untold = w, !.blind = b, !.refused = r]
    BY <1>2
  <2> HIDE DEF t, w, b, r
  <2>3. \A x, y \in BOOLEAN, m \in Nat, i \in Int :
          [hist EXCEPT !.troubles = m, !.untold = i, !.blind = x, !.refused = y] \in History
    BY <2>1 DEF History
  <2>4. hist' \in History
    BY <2>1, <2>2, <2>3, Zenon
  <2>5. hist'.untold = w /\ hist'.lost = hist.lost /\ hist'.hurried = hist.hurried
        /\ hist'.refused = r /\ hist'.blind = b
    BY <2>1, <2>2 DEF History
  <2> QED
    BY <2>4, <2>5 DEF w, b, r
<1>9. UNCHANGED <<form, ui>>
  BY DEF Serve
<1>10. d # None
  BY <1>4, NoneIsNoCall
<1>11. c.op = "load" => made = 0
  BY <1>2
<1> QED
  BY <1>1, <1>2, <1>4, <1>5, <1>6, <1>7, <1>8, <1>9, <1>10, <1>11 DEF v

(* The server answers. *)
LEMMA ServeStep ==
  ASSUME Base, NEW s \in Slots, Serve(s)
  PROVE  Kept
<1> DEFINE c == calls[s]
           d == calls'[s]
<1>1. /\ c \in Record /\ c # None
      /\ d \in Record /\ d # None /\ calls' = [calls EXCEPT ![s] = d]
      /\ d.phase = "served" /\ d.op = c.op /\ d.id = c.id
      /\ d.n = c.n /\ d.left = c.left /\ d.total = c.total /\ d.alive = c.alive
      /\ d.op = "load" => d.made = 0
      /\ d.op = "save" /\ d.ok => d.made = d.n
      /\ db' \in [Ids -> Nat] /\ hist' \in History /\ UNCHANGED <<form, ui>>
      /\ hist'.refused <=> (hist.refused \/ (c.op = "save" /\ ~d.ok))
  BY ServeEffect, Zenon
<1>2. calls' \in [Slots -> Record \cup {None}] /\ \A t \in Slots \ {s} : calls'[t] = calls[t]
  <2> HIDE DEF d
  <2> QED
    BY <1>1 DEF Base, TypeOK
<1>3. TypeOK'
  BY <1>1, <1>2 DEF Base, TypeOK
<1>4. ASSUME NEW t \in Slots, calls'[t] # None PROVE Whole(calls[t])'
  <2>1. CASE t = s
    <3>1. Whole(c)
      BY <1>1 DEF Base, InFlight
    <3> QED
      BY <1>1, <2>1, <3>1 DEF Whole
  <2>2. CASE t # s
    BY <1>1, <1>2, <1>4, <2>2 DEF Base, InFlight, Whole
  <2> QED
    BY <2>1, <2>2
<1> QED
  BY <1>3, <1>4 DEF Kept, InFlight

(* What the loss of a call does. *)
LEMMA LostEffect ==
  ASSUME Base, NEW s \in Slots, Lost(s)
  PROVE  /\ s \in InFlight /\ calls' = [calls EXCEPT ![s] = None] /\ UNCHANGED form
         /\ db' \in [Ids -> Nat] /\ \A i \in Ids : db'[i] >= db[i]
         /\ hist' \in History /\ hist'.lost /\ hist'.refused = hist.refused
         /\ hist'.hurried = hist.hurried
         /\ hist'.blind <=> (hist.blind \/ (calls[s].op = "load" /\ calls[s].alive))
         /\ ui' \in View /\ SameView /\ ui'.inputs = ui.inputs
         /\ ui'.loading => ui.loading
         /\ ui.loading => (ui'.loading \/ (calls[s].op = "load" /\ calls[s].alive))
<1> DEFINE c == calls[s]
<1>1. s \in InFlight /\ c \in Record
  BY DEF Lost, InFlight, Base, TypeOK
<1>2. PICK done \in BOOLEAN :
       /\ db' = IF done /\ c.put THEN [db EXCEPT ![c.id] = @ + 1] ELSE db
       /\ ui' = IF ~c.alive THEN ui
                ELSE [ui EXCEPT !.loading = @ /\ ~(form = "default/token" /\ c.op = "load"),
                                !.busy = @ /\ c.op = "load"]
       /\ calls' = [calls EXCEPT ![s] = None]
       /\ hist' = [hist EXCEPT !.troubles = @ + 1, !.lost = TRUE,
                               !.blind = @ \/ (c.op = "load" /\ c.alive),
                               !.untold = IF done THEN @ + c.n ELSE @]
  BY DEF Lost
<1>3. db' \in [Ids -> Nat] /\ \A i \in Ids : db'[i] >= db[i]
  <2>1. CASE done /\ c.put
    BY <1>2, <2>1, RowChanges DEF Base
  <2>2. CASE ~(done /\ c.put)
    BY <1>2, <2>2 DEF Base, TypeOK
  <2> QED
    BY <2>1, <2>2
<1>4. /\ hist' \in History /\ hist'.lost /\ hist'.refused = hist.refused
      /\ hist'.hurried = hist.hurried
      /\ hist'.blind <=> (hist.blind \/ (c.op = "load" /\ c.alive))
  <2> DEFINE t == hist.troubles + 1
             w == IF done THEN hist.untold + c.n ELSE hist.untold
             b == hist.blind \/ (c.op = "load" /\ c.alive)
  <2>1. t \in Nat /\ w \in Int /\ b \in BOOLEAN /\ hist \in History /\ TRUE \in BOOLEAN
    BY <1>1 DEF Base, TypeOK, History, Record
  <2>2. hist' = [hist EXCEPT !.troubles = t, !.lost = TRUE, !.blind = b, !.untold = w]
    BY <1>2
  <2> HIDE DEF t, w, b
  <2>3. \A x, y \in BOOLEAN, m \in Nat, i \in Int :
          [hist EXCEPT !.troubles = m, !.lost = x, !.blind = y, !.untold = i] \in History
    BY <2>1 DEF History
  <2>4. hist' \in History
    BY <2>1, <2>2, <2>3, Zenon
  <2>5. hist'.lost /\ hist'.refused = hist.refused /\ hist'.hurried = hist.hurried
        /\ hist'.blind = b
    BY <2>1, <2>2 DEF History
  <2> QED
    BY <2>4, <2>5 DEF b
<1>5. /\ ui' \in View /\ SameView /\ ui'.inputs = ui.inputs
      /\ ui'.loading => ui.loading
      /\ ui.loading => (ui'.loading \/ (c.op = "load" /\ c.alive))
  <2> DEFINE l == ui.loading /\ ~(form = "default/token" /\ c.op = "load")
             b == ui.busy /\ c.op = "load"
             v == [ui EXCEPT !.loading = l, !.busy = b]
  <2>1. ui \in View /\ l \in BOOLEAN /\ b \in BOOLEAN
    BY DEF Base, TypeOK
  <2>2. ui' = IF ~c.alive THEN ui ELSE v
    BY <1>2
  <2>3. (l => ui.loading) /\ (ui.loading => (l \/ c.op = "load"))
    OBVIOUS
  <2> HIDE DEF l, b
  <2>4. \A x, y \in BOOLEAN : [ui EXCEPT !.loading = x, !.busy = y] \in View
    BY <2>1 DEF View
  <2>5. v \in View
    BY <2>1, <2>4, Zenon
  <2>6. v.loading = l /\ v.inputs = ui.inputs /\ v.target = ui.target /\ v.isEdit = ui.isEdit
        /\ v.opened = ui.opened /\ v.open = ui.open /\ v.timers = ui.timers
        /\ v.initial = ui.initial
    BY <2>1 DEF View
  <2> HIDE DEF v
  <2> QED
    BY <2>1, <2>2, <2>3, <2>5, <2>6 DEF SameView, SameRow
<1> QED
  BY <1>1, <1>2, <1>3, <1>4, <1>5 DEF Lost

(* A call is lost. *)
LEMMA LostStep ==
  ASSUME Base, NEW s \in Slots, Lost(s)
  PROVE  Kept
<1>1. calls' \in [Slots -> Record \cup {None}] /\ calls'[s] = None
      /\ \A t \in Slots \ {s} : calls'[t] = calls[t]
  BY LostEffect DEF Base, TypeOK
<1>2. TypeOK'
  BY <1>1, LostEffect DEF Base, TypeOK
<1>3. \A t \in InFlight' : Whole(calls[t])'
  BY <1>1, LostEffect DEF Base, InFlight, Whole
<1> QED
  BY <1>2, <1>3 DEF Kept

(* A row changes on its own. *)
LEMMA ForeignEffect ==
  ASSUME Base, Foreign
  PROVE  /\ UNCHANGED <<form, ui, calls>>
         /\ db' \in [Ids -> Nat] /\ \A i \in Ids : db'[i] >= db[i]
         /\ hist' \in History /\ hist'.untold = hist.untold /\ hist'.lost = hist.lost
         /\ hist'.refused = hist.refused /\ hist'.hurried = hist.hurried
         /\ hist'.blind = hist.blind
<1>1. PICK i \in Ids : db' = [db EXCEPT ![i] = @ + 1]
  BY DEF Foreign
<1>2. hist.troubles + 1 \in Nat /\ hist \in History
  BY DEF Base, TypeOK, History
<1>3. hist' = [hist EXCEPT !.troubles = hist.troubles + 1]
  BY DEF Foreign
<1>4. db' \in [Ids -> Nat] /\ \A j \in Ids : db'[j] >= db[j]
  BY <1>1, RowChanges DEF Base
<1> QED
  BY <1>2, <1>3, <1>4 DEF Foreign, History

(* A call that follows an answer, and one that begins with an action. *)
LEMMA LoadIsWhole ==
  ASSUME NEW t \in Rows, t # 0
  PROVE  Loading(t) \in Record /\ Loading(t).phase = "asked" /\ Whole(Loading(t))
BY LoadingType DEF Whole

(* The types stay through every shape of step. *)
LEMMA ShapeKeeps ==
  ASSUME Base, Shape
  PROVE  Kept
<1>1. Self \in Rows /\ Self # 0
  BY FormAssumption DEF Rows
<1>2. CASE Entering \/ Spoiling \/ Emptying \/ SheetCloses \/ Forgetting \/ DialogCloses
  BY <1>2, QuietStep
  DEF Entering, Spoiling, Emptying, SheetCloses, Forgetting, DialogCloses, Opens, Closes, Goes,
      Acts, Base, TypeOK
<1>3. CASE UserCloses
  BY <1>1, <1>3, SendStep, LoadIsWhole DEF UserCloses, Closes, Goes, Acts
<1>4. ASSUME NEW c \in Record, Submitting(c) PROVE Kept
  BY <1>4, SendStep DEF Submitting, Asks, Goes, Acts, Whole
<1>5. ASSUME NEW t \in Rows, Reopening(t) PROVE Kept
  BY <1>5, QuietStep DEF Reopening, Opens, Acts
<1>6. ASSUME NEW t \in Rows, Fetching(t) PROVE Kept
  BY <1>6, SendStep, LoadIsWhole DEF Fetching, Opens, Acts
<1>7. ASSUME NEW t \in Rows, Visiting(t) PROVE Kept
  BY <1>7, VisitStep
<1>8. ASSUME NEW s \in Slots, calls[s] # None
      PROVE  calls[s] \in Record /\ calls[s].made \in Int /\ calls[s].total \in Int
             /\ calls[s].total + calls[s].made \in Int /\ 0 \in Int
  BY <1>8 DEF Base, TypeOK, Record
<1>9. ASSUME NEW s \in Slots,
             \/ Loads(s) \/ DialogLoads(s) \/ PageSaves(s) \/ SheetSaves(s) \/ TokenSaves(s)
             \/ DialogSaves(s)
      PROVE  Kept
  <2>1. \E told \in Int : Ends(s, None, told)
    BY <1>8, <1>9
    DEF Loads, DialogLoads, PageSaves, SheetSaves, TokenSaves, DialogSaves, Saves, Ends
  <2> QED
    BY <2>1, EndStep
<1>10. ASSUME NEW s \in Slots, UserSaves(s) PROVE Kept
  <2>1. CASE calls[s].ok /\ ui.target # 0
    BY <1>1, <1>8, <1>10, <2>1, EndStep, LoadIsWhole DEF UserSaves, Saves, Ends
  <2>2. CASE ~(calls[s].ok /\ ui.target # 0)
    BY <1>8, <1>10, <2>2, EndStep DEF UserSaves, Saves, Ends
  <2> QED
    BY <2>1, <2>2
<1>11. ASSUME NEW s \in Slots, TokenGoesOn(s) PROVE Kept
  <2> DEFINE c == calls[s]
             l == c.left - 1
             t == c.total + c.made
             n == [c EXCEPT !.phase = "asked", !.ok = FALSE, !.made = 0, !.left = l, !.total = t]
  <2>1. c \in Record /\ c # None /\ c.op = "save" /\ c.left > 0 /\ form = "air/token"
        /\ Ends(s, n, 0) /\ Whole(c)
    BY <1>8, <1>11 DEF TokenGoesOn, Saves, Ends, Base, InFlight
  <2>2. l \in Nat /\ t \in Nat
    BY <2>1 DEF Record
  <2> HIDE DEF l, t
  <2>3. n \in Record
    BY <2>1, <2>2 DEF Record
  <2>4. n.phase = "asked" /\ n.op = "save" /\ n.n = c.n /\ n.made = 0 /\ n.alive = c.alive
    BY <2>1 DEF Record
  <2>5. Whole(n)
    BY <2>1, <2>4 DEF Whole
  <2> HIDE DEF n, c
  <2> QED
    BY <2>1, <2>3, <2>4, <2>5, EndStep
<1> QED
  BY <1>2, <1>3, <1>4, <1>5, <1>6, <1>7, <1>9, <1>10, <1>11 DEF Shape

(* What the form knows of its row stays so. *)
LEMMA ShapeIsSane ==
  ASSUME Base, Shape
  PROVE  Sane'
<1>1. /\ ui \in View /\ db \in [Ids -> Nat] /\ ui.target \in Rows /\ ui.opened \in Nat
      /\ ui.timers \in Nat /\ Sane
  BY DEF Base, TypeOK, View
<1>2. /\ form \in AirForms => form \notin DefaultForms /\ form \notin BerryForms
      /\ form \in BerryForms => form \notin DefaultForms /\ form \notin AirForms
      /\ form \in DefaultForms => form \notin AirForms /\ form \notin BerryForms
      /\ form = "air/token" => form \in AirForms
      /\ form = "air/user" => form \in AirForms
      /\ form = "air/adduser" => form \in AirForms
      /\ form = "default/adduser" => form \in DefaultForms
      /\ form \in DefaultForms \cup AirForms \cup BerryForms
  BY DEF AirForms, DefaultForms, BerryForms, Base, TypeOK
<1>3. CASE Entering
  BY <1>1, <1>3 DEF Entering, SameView, SameRow, Sane
<1>4. CASE Spoiling
  BY <1>1, <1>4 DEF Spoiling, Goes, Acts, SameView, SameRow, Sane
<1>5. CASE Emptying
  BY <1>1, <1>2, <1>5 DEF Emptying, Opens, Acts, Sane
<1>6. CASE SheetCloses
  BY <1>1, <1>2, <1>6 DEF SheetCloses, Closes, Goes, Acts, SameRow, Sane
<1>7. CASE UserCloses
  BY <1>1, <1>2, <1>7 DEF UserCloses, Closes, Goes, Acts, Sane
<1>8. CASE Forgetting
  BY <1>1, <1>2, <1>8 DEF Forgetting, Sane
<1>9. CASE DialogCloses
  BY <1>1, <1>2, <1>9 DEF DialogCloses, DialogLeft, Closes, Goes, Acts, Sane
<1>10. ASSUME NEW c \in Record, Submitting(c) PROVE Sane'
  BY <1>1, <1>10 DEF Submitting, Goes, Acts, SameView, SameRow, Sane
<1>11. ASSUME NEW t \in Rows, Reopening(t) PROVE Sane'
  BY <1>1, <1>2, <1>11 DEF Reopening, Opens, Acts, Sane, Rows
<1>12. ASSUME NEW t \in Rows, Fetching(t) PROVE Sane'
  BY <1>1, <1>2, <1>12 DEF Fetching, Opens, Acts, Sane, Rows
<1>13. ASSUME NEW t \in Rows, Visiting(t) PROVE Sane'
  BY <1>1, <1>2, <1>13 DEF Visiting, Acts, Sane, Rows
<1>14. ASSUME NEW s \in Slots, Loads(s) PROVE Sane'
  BY <1>1, <1>14 DEF Loads, Ends, SameView, SameRow, Sane
<1>15. ASSUME NEW s \in Slots, DialogLoads(s) PROVE Sane'
  BY <1>1, <1>15 DEF DialogLoads, Ends, SameRow, Sane
<1>16. ASSUME NEW s \in Slots, PageSaves(s) PROVE Sane'
  BY <1>1, <1>16 DEF PageSaves, Saves, Ends, SameView, SameRow, Sane
<1>17. ASSUME NEW s \in Slots, SheetSaves(s) PROVE Sane'
  BY <1>1, <1>2, <1>17 DEF SheetSaves, Saves, Ends, SameRow, Sane
<1>18. ASSUME NEW s \in Slots, TokenGoesOn(s) PROVE Sane'
  BY <1>1, <1>18 DEF TokenGoesOn, Saves, Ends, Sane
<1>19. ASSUME NEW s \in Slots, TokenSaves(s) PROVE Sane'
  BY <1>1, <1>2, <1>19 DEF TokenSaves, Saves, Ends, SameRow, Sane
<1>20. ASSUME NEW s \in Slots, UserSaves(s) PROVE Sane'
  BY <1>1, <1>2, <1>20 DEF UserSaves, Saves, Ends, Sane
<1>21. ASSUME NEW s \in Slots, DialogSaves(s) PROVE Sane'
  BY <1>1, <1>2, <1>21 DEF DialogSaves, DialogLeft, Saves, Ends, SameView, SameRow, Sane
<1> QED
  BY <1>3, <1>4, <1>5, <1>6, <1>7, <1>8, <1>9, <1>10, <1>11, <1>12, <1>13, <1>14, <1>15, <1>16,
     <1>17, <1>18, <1>19, <1>20, <1>21 DEF Shape

(* Every step keeps the types, and what is true of each call and of the form. *)
LEMMA BaseStep ==
  ASSUME Base, [Next]_vars
  PROVE  Base'
<1>1. CASE Shape
  BY <1>1, ShapeKeeps, ShapeIsSane DEF Base, Kept
<1>2. CASE UNCHANGED vars
  BY <1>2 DEF vars, Base, TypeOK, Sane, InFlight, Whole
<1>3. ASSUME UNCHANGED <<form, ui>>, db' \in [Ids -> Nat], \A i \in Ids : db'[i] >= db[i]
      PROVE  Sane'
  BY <1>3 DEF Base, TypeOK, View, Rows, Sane
<1>4. CASE Foreign
  BY <1>3, <1>4, ForeignEffect, QuietStep DEF Base, TypeOK, Sane, Kept, Whole, InFlight, History
<1>5. ASSUME NEW s \in Slots, Serve(s) PROVE Base'
  BY <1>3, <1>5, ServeEffect, ServeStep DEF Base, Kept
<1>6. ASSUME NEW s \in Slots, Lost(s) PROVE Base'
  <2>1. Sane'
    BY <1>6, LostEffect DEF Base, TypeOK, View, Rows, Sane, SameView, SameRow
  <2> QED
    BY <1>6, <2>1, LostStep DEF Base, Kept
<1> QED
  BY <1>1, <1>2, <1>4, <1>5, <1>6, StepShapes

(* How a form starts. *)
LEMMA StartShape ==
  ASSUME Init
  PROVE  /\ form \in DefaultForms \cup AirForms \cup BerryForms
         /\ db = [i \in Ids |-> 1] /\ hist.untold = 0 /\ ~hist.hurried /\ ~hist.blind
         /\ hist \in History
         /\ ui \in View /\ ui.inputs = Origin /\ ui.initial = Origin /\ ui.timers = 0
         /\ \E t \in Rows :
              /\ ui.target = t /\ (ui.isEdit <=> t # 0)
              /\ ui.opened = (IF t = 0 THEN 0 ELSE 1)
              /\ form \in {"default/adduser"} \cup AirForms \cup BerryForms => t = 0
              /\ ui.open <=> form \in DefaultForms
              /\ form \in DefaultForms => (ui.loading <=> t # 0)
              /\ LET r == IF form = "air/user" THEN Self ELSE t
                 IN  \/ r = 0 /\ calls = [s \in Slots |-> None]
                     \/ /\ r \in Rows /\ r # 0
                        /\ \E n \in Slots :
                             calls = [s \in Slots |-> IF s = n THEN Loading(r) ELSE None]
<1>1. hist \in History /\ hist.untold = 0 /\ ~hist.hurried /\ ~hist.blind
      /\ db = [i \in Ids |-> 1]
  <2>1. hist = [asked |-> 0, troubles |-> 0, untold |-> 0, hurried |-> FALSE, blind |-> FALSE,
                lost |-> FALSE, refused |-> FALSE] /\ db = [i \in Ids |-> 1]
    <3>1. \A u, cs : D!Starting(u, cs) \/ A!Starting(u, cs) \/ B!Starting(u, cs) =>
            /\ hist = [asked |-> 0, troubles |-> 0, untold |-> 0, hurried |-> FALSE,
                       blind |-> FALSE, lost |-> FALSE, refused |-> FALSE]
            /\ db = [i \in Ids |-> 1]
      BY DEF D!Starting, A!Starting, B!Starting
    <3> QED
      BY <3>1, Zenon DEF Init, D!DefaultInit, A!AirInit, B!BerryInit
  <2>2. \A n \in Nat, i \in Int, b \in BOOLEAN :
          [asked |-> n, troubles |-> n, untold |-> i, hurried |-> b, blind |-> b,
           lost |-> b, refused |-> b] \in History
    BY DEF History
  <2>3. 0 \in Nat /\ 0 \in Int /\ FALSE \in BOOLEAN
    OBVIOUS
  <2>4. hist \in History
    BY <2>1, <2>2, <2>3, Zenon
  <2> QED
    BY <2>1, <2>4
<1>2. ASSUME NEW t \in Rows
      PROVE  LET v == Showing(t)
             IN  /\ v \in View /\ v.target = t /\ (v.isEdit <=> t # 0)
                 /\ v.inputs = Origin /\ v.initial = Origin /\ v.timers = 0
                 /\ v.opened = (IF t = 0 THEN 0 ELSE db[t]) /\ v.open /\ ~v.loading
  <2>1. (t # 0) \in BOOLEAN /\ TRUE \in BOOLEAN /\ FALSE \in BOOLEAN /\ 0 \in Nat
        /\ (IF t = 0 THEN 0 ELSE db[t]) \in Nat
    BY <1>1 DEF Rows
  <2>2. \A o, e, l, b \in BOOLEAN, r \in Rows, i, m \in Fields, n, k \in Nat :
          [open |-> o, target |-> r, isEdit |-> e, loading |-> l, busy |-> b, inputs |-> i,
           initial |-> m, timers |-> n, opened |-> k] \in View
    BY DEF View
  <2>3. Showing(t) \in View
    BY <2>1, <2>2, OriginType, Zenon DEF Showing
  <2> QED
    BY <2>3 DEF Showing
<1>3. D!Idle = [s \in Slots |-> None] /\ A!Idle = [s \in Slots |-> None]
      /\ B!Idle = [s \in Slots |-> None]
  BY Words, Zenon DEF D!Idle, A!Idle, B!Idle
<1>4. \A c : [[s \in Slots |-> None] EXCEPT ![Least(Slots)] = c] =
               [s \in Slots |-> IF s = Least(Slots) THEN c ELSE None]
  BY FirstSlot
<1>5. CASE D!DefaultInit
  <2>1. PICK t \in Rows :
          /\ form = "default/adduser" => t = 0
          /\ D!Starting(D!Mounted(t), IF t = 0 THEN D!Idle
                                      ELSE [D!Idle EXCEPT ![Least(Slots)] = Loading(t)])
    BY <1>5, Words DEF D!DefaultInit, Rows
  <2> DEFINE w == Showing(t)
             v == [w EXCEPT !.loading = t # 0]
  <2>2. ui = v /\ calls = (IF t = 0 THEN [s \in Slots |-> None]
                           ELSE [s \in Slots |-> IF s = Least(Slots) THEN Loading(t) ELSE None])
    BY <1>3, <1>4, <2>1, Words DEF D!Starting, D!Mounted
  <2>3. w \in View /\ w.target = t /\ (w.isEdit <=> t # 0)
        /\ w.inputs = Origin /\ w.initial = Origin /\ w.timers = 0
        /\ w.opened = (IF t = 0 THEN 0 ELSE db[t]) /\ w.open
    BY <1>2
  <2> HIDE DEF w
  <2>4. v \in View
    <3>1. (t # 0) \in BOOLEAN /\ \A b \in BOOLEAN : [w EXCEPT !.loading = b] \in View
      BY <2>3 DEF View
    <3> QED
      BY <3>1, Zenon
  <2>5. v.target = t /\ (v.isEdit <=> t # 0) /\ (v.loading <=> t # 0)
        /\ v.inputs = Origin /\ v.initial = Origin /\ v.timers = 0
        /\ v.opened = (IF t = 0 THEN 0 ELSE db[t]) /\ v.open
    BY <2>3, <2>4 DEF View
  <2>6. form \in DefaultForms /\ form \notin AirForms \cup BerryForms /\ form # "air/user"
    <3>1. form \in D!DefaultForms
      BY <1>5 DEF D!DefaultInit
    <3> QED
      BY <3>1 DEF D!DefaultForms, DefaultForms, AirForms, BerryForms
  <2>7. db[t] = 1 \/ t = 0
    BY <1>1 DEF Rows
  <2> HIDE DEF v
  <2> QED
    BY <1>1, <2>1, <2>2, <2>4, <2>5, <2>6, <2>7, FirstSlot
<1>6. CASE A!AirInit \/ B!BerryInit
  <2> DEFINE w == Showing(0)
             o == [w EXCEPT !.open = FALSE]
             l == [o EXCEPT !.loading = TRUE]
  <2>1. /\ form \in AirForms \cup BerryForms
        /\ IF form = "air/user"
           THEN ui = l /\ calls = [s \in Slots |-> IF s = Least(Slots) THEN Loading(Self) ELSE None]
           ELSE ui = o /\ calls = [s \in Slots |-> None]
    <3>1. CASE A!AirInit
      <4>1. form \in AirForms
        BY <3>1 DEF A!AirInit, A!AirForms, AirForms
      <4> QED
        BY <1>3, <1>4, <3>1, <4>1, Words DEF A!AirInit, A!Starting
    <3>2. CASE B!BerryInit
      <4>1. form \in BerryForms /\ form # "air/user"
        BY <3>2 DEF B!BerryInit, B!BerryForms, BerryForms
      <4> QED
        BY <1>3, <3>2, <4>1, Words DEF B!BerryInit, B!Starting
    <3> QED
      BY <1>6, <3>1, <3>2
  <2>2. w \in View /\ w.target = 0 /\ ~w.isEdit
        /\ w.inputs = Origin /\ w.initial = Origin /\ w.timers = 0 /\ w.opened = 0
    BY <1>2 DEF Rows
  <2> HIDE DEF w
  <2>3. o \in View /\ l \in View
    BY <2>2 DEF View
  <2>4. /\ o.target = 0 /\ ~o.isEdit /\ ~o.open
        /\ o.inputs = Origin /\ o.initial = Origin /\ o.timers = 0 /\ o.opened = 0
        /\ l.target = 0 /\ ~l.isEdit /\ ~l.open
        /\ l.inputs = Origin /\ l.initial = Origin /\ l.timers = 0 /\ l.opened = 0
    BY <2>2, <2>3 DEF View
  <2>5. form \notin DefaultForms
    BY <2>1 DEF AirForms, BerryForms, DefaultForms
  <2>6. 0 \in Rows /\ Self \in Rows /\ Self # 0
    BY FormAssumption DEF Rows
  <2> HIDE DEF o, l
  <2> QED
    BY <1>1, <2>1, <2>3, <2>4, <2>5, <2>6, FirstSlot
<1> QED
  BY <1>5, <1>6 DEF Init

(* So it starts with the types right. *)
LEMMA BaseInit ==
  ASSUME Init
  PROVE  Base
<1>1. PICK t \in Rows :
        /\ ui.target = t /\ (ui.isEdit <=> t # 0)
        /\ ui.opened = (IF t = 0 THEN 0 ELSE 1)
        /\ form \in {"default/adduser"} \cup AirForms \cup BerryForms => t = 0
        /\ ui.open <=> form \in DefaultForms
        /\ LET r == IF form = "air/user" THEN Self ELSE t
           IN  \/ r = 0 /\ calls = [s \in Slots |-> None]
               \/ /\ r \in Rows /\ r # 0
                  /\ \E n \in Slots :
                       calls = [s \in Slots |-> IF s = n THEN Loading(r) ELSE None]
  BY StartShape
<1>2. /\ form \in DefaultForms \cup AirForms \cup BerryForms /\ db = [i \in Ids |-> 1]
      /\ hist \in History /\ ui \in View /\ ui.timers = 0
  BY StartShape
<1>3. \A r \in Rows : r # 0 => /\ Loading(r) \in Record /\ Loading(r).phase = "asked"
                               /\ Whole(Loading(r))
  BY LoadIsWhole
<1>4. calls \in [Slots -> Record \cup {None}]
      /\ \A s \in Slots : calls[s] # None => Whole(calls[s])
  <2>1. CASE calls = [s \in Slots |-> None]
    BY <2>1
  <2>2. CASE calls # [s \in Slots |-> None]
    <3>1. PICK r \in Rows, n \in Slots :
            r # 0 /\ calls = [s \in Slots |-> IF s = n THEN Loading(r) ELSE None]
      BY <1>1, <2>2
    <3> QED
      BY <1>3, <3>1
  <2> QED
    BY <2>1, <2>2
<1>5. db \in [Ids -> Nat] /\ \A i \in Ids : db[i] = 1
  BY <1>2
<1>6. form \in AirForms \cup BerryForms => form \notin DefaultForms
  BY DEF AirForms, BerryForms, DefaultForms
<1>7. {"air/adduser", "air/user", "air/token"} \subseteq AirForms
  BY DEF AirForms
<1>8. Sane
  BY <1>1, <1>2, <1>5, <1>6, <1>7 DEF Sane, Rows
<1> QED
  BY <1>2, <1>4, <1>5, <1>8 DEF Base, TypeOK, InFlight

(* The state of every form has its type, the form and the table agree about which row it is *)
(* for, and what is known of a call in flight by itself is true.                           *)
THEOREM FormTypes == Spec => []Base
<1>1. Init => Base
  BY BaseInit
<1>2. Base /\ [Next]_vars => Base'
  BY BaseStep
<1> QED
  BY <1>1, <1>2, PTL DEF Spec


-----------------------------------------------------------------------------
(***************************************************************************)
(* What was changed and not told.  The rows that the calls in flight have  *)
(* created or changed are all that the administrator has not heard of.     *)
(***************************************************************************)
Owed(c) == IF c = None THEN 0 ELSE c.total + c.made
Debt == SumFunctionOnSet([s \in Slots |-> Owed(calls[s])], Slots)
Told == ~hist.lost /\ form # "berry/redemption" => hist.untold = Debt

\* What a step may do to both.
Balanced ==
  /\ UNCHANGED form
  /\ \/ hist'.lost
     \/ /\ hist'.lost = hist.lost
        /\ form # "berry/redemption" =>
             \E n \in Int : hist'.untold = hist.untold + n /\ Debt' = Debt + n

(* Each call owes a number of rows. *)
LEMMA OwedType ==
  ASSUME NEW c \in Record \cup {None}
  PROVE  Owed(c) \in Nat /\ (c = None => Owed(c) = 0) /\ (c # None => Owed(c) = c.total + c.made)
BY NoneIsNoCall DEF Owed, Record

(* One call changes, and with it what all of them owe. *)
LEMMA DebtChanges ==
  ASSUME TypeOK, NEW s \in Slots, NEW next \in Record \cup {None},
         calls' = [calls EXCEPT ![s] = next]
  PROVE  Debt \in Int /\ Debt' = Debt + (Owed(next) - Owed(calls[s]))
<1> DEFINE f == [x \in Slots |-> Owed(calls[x])]
           g == [x \in Slots |-> Owed(calls'[x])]
           n == Owed(next) - Owed(calls[s])
<1>1. \A x \in Slots : calls[x] \in Record \cup {None}
  BY DEF TypeOK
<1>2. Owed(calls[s]) \in Nat /\ Owed(next) \in Nat
  BY <1>1, OwedType
<1>3. \A x \in Slots : f[x] \in Int
  BY <1>1, OwedType
<1>4. g[s] = f[s] + n /\ \A x \in Slots \ {s} : g[x] = f[x]
  <2>1. calls'[s] = next /\ \A x \in Slots \ {s} : calls'[x] = calls[x]
    BY DEF TypeOK
  <2> QED
    BY <1>2, <2>1
<1>5. n \in Int /\ IsFiniteSet(Slots)
  BY <1>2, FormAssumption
<1>6. Debt = SumFunctionOnSet(f, Slots) /\ Debt' = SumFunctionOnSet(g, Slots)
  BY DEF Debt, Owed, None
<1> HIDE DEF f, g, n
<1>7. SumFunctionOnSet(f, Slots) \in Int
  BY <1>3, <1>5, SumType
<1>8. SumFunctionOnSet(g, Slots) = SumFunctionOnSet(f, Slots) + n
  BY <1>3, <1>4, <1>5, SumChange
<1> QED
  BY <1>6, <1>7, <1>8 DEF n

(* Each call owes what it owed. *)
LEMMA DebtStays ==
  ASSUME TypeOK, \A s \in Slots : Owed(calls'[s]) = Owed(calls[s])
  PROVE  Debt \in Int /\ Debt' = Debt
<1> DEFINE f == [x \in Slots |-> Owed(calls[x])]
           g == [x \in Slots |-> Owed(calls'[x])]
<1>1. \A x \in Slots : calls[x] \in Record \cup {None}
  BY DEF TypeOK
<1>2. \A x \in Slots : f[x] \in Int /\ g[x] = f[x]
  BY <1>1, OwedType
<1>3. IsFiniteSet(Slots)
  BY FormAssumption
<1>4. Debt = SumFunctionOnSet(f, Slots) /\ Debt' = SumFunctionOnSet(g, Slots)
  BY DEF Debt, Owed, None
<1> HIDE DEF f, g
<1> QED
  BY <1>2, <1>3, <1>4, SumType, SumSame

(* No call is sent or ends. *)
LEMMA QuietBalanced ==
  ASSUME Base, UNCHANGED <<form, calls>>, hist'.untold = hist.untold, hist'.lost = hist.lost
  PROVE  Balanced
<1>1. Debt \in Int /\ Debt' = Debt
  BY DebtStays DEF Base, Owed
<1>2. hist.untold \in Int
  BY DEF Base, TypeOK, History
<1>3. hist'.untold = hist.untold + 0 /\ Debt' = Debt + 0
  BY <1>1, <1>2
<1> QED
  BY <1>3 DEF Balanced

(* A call that is sent owes nothing yet. *)
LEMMA SendBalanced ==
  ASSUME Base, UNCHANGED form, hist'.untold = hist.untold, hist'.lost = hist.lost,
         NEW c \in Record, c.made = 0, c.total = 0, Sends(c)
  PROVE  Balanced
<1>1. PICK s \in Slots : calls[s] = None /\ calls' = [calls EXCEPT ![s] = c]
  BY DEF Sends
<1>2. Owed(c) = 0 /\ Owed(calls[s]) = 0
  BY <1>1, OwedType, NoneIsNoCall
<1>3. Debt \in Int /\ Debt' = Debt + (Owed(c) - Owed(calls[s]))
  BY <1>1, DebtChanges DEF Base
<1>4. hist.untold \in Int
  BY DEF Base, TypeOK, History
<1>5. hist'.untold = hist.untold + 0 /\ Debt' = Debt + 0
  BY <1>2, <1>3, <1>4
<1> QED
  BY <1>5 DEF Balanced

(* A page that is left owes what it owed. *)
LEMMA VisitBalanced ==
  ASSUME Base, NEW t \in Rows, Visiting(t)
  PROVE  Balanced
<1>1. \A s \in Slots : Owed(calls'[s]) = Owed(calls[s])
  <2> SUFFICES ASSUME NEW s \in Slots PROVE Owed(calls'[s]) = Owed(calls[s])
    OBVIOUS
  <2>1. calls[s] \in Record \cup {None}
    BY DEF Base, TypeOK
  <2>2. CASE calls[s] = None /\ calls'[s] = None
    BY <2>2
  <2>3. CASE calls[s] # None /\ calls'[s] = Deaf(calls[s])
    <3> DEFINE d == Deaf(calls[s])
    <3>1. d \in Record /\ d # None /\ d.made = calls[s].made /\ d.total = calls[s].total
      BY <2>1, <2>3, DeafType
    <3> HIDE DEF d
    <3>2. Owed(d) = d.total + d.made /\ Owed(calls[s]) = calls[s].total + calls[s].made
      BY <2>1, <2>3, <3>1, OwedType
    <3> QED
      BY <2>3, <3>1, <3>2 DEF d
  <2>4. CASE calls[s] = None /\ calls'[s] = Loading(t)
    <3> DEFINE d == Loading(t)
    <3>1. d \in Record /\ d.made = 0 /\ d.total = 0
      BY LoadingType
    <3> HIDE DEF d
    <3>2. Owed(d) = 0 /\ Owed(calls[s]) = 0
      BY <2>4, <3>1, OwedType, NoneIsNoCall
    <3> QED
      BY <2>4, <3>2 DEF d
  <2> QED
    BY <2>2, <2>3, <2>4, VisitCalls
<1>2. hist'.untold = hist.untold + 0 /\ Debt' = Debt + 0
  BY <1>1, DebtStays DEF Base, TypeOK, History, Visiting, Acts
<1> QED
  BY <1>2 DEF Balanced, Visiting, Acts

(* A handler tells what its call owes, but for what the next call still owes. *)
LEMMA EndBalanced ==
  ASSUME Base, NEW s \in Slots, NEW next \in Record \cup {None}, NEW told \in Int,
         Ends(s, next, told),
         form # "berry/redemption" => told = Owed(calls[s]) - Owed(next)
  PROVE  Balanced
<1>1. Debt \in Int /\ Debt' = Debt + (Owed(next) - Owed(calls[s]))
  BY DebtChanges DEF Base, Ends
<1>2. hist \in History /\ hist'.untold = hist.untold - told /\ hist'.lost = hist.lost
      /\ UNCHANGED form
  BY DEF Base, TypeOK, Ends, History
<1>3. Owed(calls[s]) \in Nat /\ Owed(next) \in Nat /\ hist.untold \in Int
  BY <1>2, OwedType DEF Base, TypeOK, History
<1>4. form # "berry/redemption" =>
        hist'.untold = hist.untold + (Owed(next) - Owed(calls[s]))
  BY <1>1, <1>2, <1>3
<1> QED
  BY <1>1, <1>2, <1>3, <1>4 DEF Balanced

(* Every shape of step keeps the balance. *)
LEMMA ShapeBalanced ==
  ASSUME Base, Shape
  PROVE  Balanced
<1>1. Self \in Rows /\ Self # 0 /\ None \in Record \cup {None}
      /\ Owed(None) = 0 /\ \A t \in Rows : /\ Loading(t) \in Record /\ Owed(Loading(t)) = 0
                                           /\ Loading(t).made = 0 /\ Loading(t).total = 0
  BY FormAssumption, LoadingType, OwedType, NoneIsNoCall DEF Rows
<1>2. CASE Entering \/ Spoiling \/ Emptying \/ SheetCloses \/ Forgetting \/ DialogCloses
  BY <1>2, QuietBalanced
  DEF Entering, Spoiling, Emptying, SheetCloses, Forgetting, DialogCloses, Opens, Closes, Goes,
      Acts
<1>3. CASE UserCloses
  BY <1>1, <1>3, SendBalanced DEF UserCloses, Closes, Goes, Acts
<1>4. ASSUME NEW c \in Record, Submitting(c) PROVE Balanced
  BY <1>4, SendBalanced DEF Submitting, Asks, Goes, Acts
<1>5. ASSUME NEW t \in Rows, Reopening(t) PROVE Balanced
  BY <1>5, QuietBalanced DEF Reopening, Opens, Acts
<1>6. ASSUME NEW t \in Rows, Fetching(t) PROVE Balanced
  BY <1>1, <1>6, SendBalanced DEF Fetching, Opens, Acts
<1>7. ASSUME NEW t \in Rows, Visiting(t) PROVE Balanced
  BY <1>7, VisitBalanced
<1>8. ASSUME NEW s \in Slots, calls[s] # None
      PROVE  /\ calls[s] \in Record /\ Whole(calls[s])
             /\ calls[s].made \in Int /\ calls[s].total \in Int
             /\ calls[s].total + calls[s].made \in Int
             /\ Owed(calls[s]) = calls[s].total + calls[s].made
  BY <1>8, OwedType DEF Base, TypeOK, Record, InFlight
<1>9. ASSUME NEW s \in Slots, Loads(s) \/ DialogLoads(s)
      PROVE  Balanced
  <2>1. Ends(s, None, 0) /\ calls[s] # None /\ calls[s].op = "load"
    BY <1>9 DEF Loads, DialogLoads, Ends
  <2>2. Owed(calls[s]) = 0
    BY <1>8, <2>1 DEF Whole
  <2> QED
    BY <1>1, <2>1, <2>2, EndBalanced
<1>10. ASSUME NEW s \in Slots, Saves(s, None, calls[s].made), form # "air/token"
       PROVE  Balanced
  <2>1. Ends(s, None, calls[s].made) /\ calls[s] # None
    BY <1>10 DEF Saves, Ends
  <2>2. Owed(calls[s]) = calls[s].made /\ calls[s].made \in Int
    BY <1>8, <1>10, <2>1 DEF Whole
  <2> QED
    BY <1>1, <2>1, <2>2, EndBalanced
<1>11. ASSUME NEW s \in Slots, PageSaves(s) \/ SheetSaves(s) \/ DialogSaves(s)
       PROVE  Balanced
  <2>1. form # "air/token"
    BY <1>11 DEF PageSaves, SheetSaves, DialogSaves, DefaultForms, BerryForms
  <2>2. CASE Saves(s, None, calls[s].made)
    BY <1>10, <2>1, <2>2
  <2>3. CASE form = "berry/redemption" /\ Saves(s, None, 0)
    BY <1>1, <2>3, EndBalanced DEF Saves
  <2> QED
    BY <1>11, <2>2, <2>3 DEF PageSaves, SheetSaves, DialogSaves
<1>12. ASSUME NEW s \in Slots, TokenSaves(s)
       PROVE  Balanced
  <2>1. Ends(s, None, calls[s].total + calls[s].made) /\ calls[s] # None
    BY <1>12 DEF TokenSaves, Saves, Ends
  <2> QED
    BY <1>1, <1>8, <2>1, EndBalanced
<1>13. ASSUME NEW s \in Slots, UserSaves(s)
       PROVE  Balanced
  <2>1. CASE calls[s].ok /\ ui.target # 0
    <3>1. Ends(s, Loading(Self), calls[s].made) /\ calls[s] # None /\ form = "air/user"
      BY <1>13, <2>1 DEF UserSaves, Saves, Ends
    <3>2. Owed(calls[s]) = calls[s].made /\ calls[s].made \in Int
      BY <1>8, <3>1 DEF Whole
    <3> QED
      BY <1>1, <3>1, <3>2, EndBalanced
  <2>2. CASE ~(calls[s].ok /\ ui.target # 0)
    BY <1>10, <1>13, <2>2 DEF UserSaves
  <2> QED
    BY <2>1, <2>2
<1>14. ASSUME NEW s \in Slots, TokenGoesOn(s)
       PROVE  Balanced
  <2> DEFINE c == calls[s]
             l == c.left - 1
             t == c.total + c.made
             n == [c EXCEPT !.phase = "asked", !.ok = FALSE, !.made = 0, !.left = l, !.total = t]
  <2>1. c \in Record /\ c # None /\ c.left > 0 /\ Ends(s, n, 0) /\ Owed(c) = t
    BY <1>8, <1>14 DEF TokenGoesOn, Saves, Ends
  <2>2. l \in Nat /\ t \in Nat
    BY <2>1 DEF Record
  <2> HIDE DEF l, t
  <2>3. n \in Record
    BY <2>1, <2>2 DEF Record
  <2>4. n.made = 0 /\ n.total = t
    BY <2>1 DEF Record
  <2> HIDE DEF n
  <2>5. Owed(n) = t
    BY <2>2, <2>3, <2>4, OwedType, NoneIsNoCall
  <2>6. 0 = Owed(c) - Owed(n) /\ n \in Record \cup {None} /\ 0 \in Int
    BY <2>1, <2>2, <2>3, <2>5
  <2> HIDE DEF c
  <2> QED
    BY <2>1, <2>6, EndBalanced DEF c
<1> QED
  BY <1>2, <1>3, <1>4, <1>5, <1>6, <1>7, <1>9, <1>11, <1>12, <1>13, <1>14 DEF Shape

(* So does every other step, and the loss of a call is remembered. *)
LEMMA StepBalanced ==
  ASSUME Base, [Next]_vars
  PROVE  Balanced
<1>1. CASE Shape
  BY <1>1, ShapeBalanced
<1>2. CASE UNCHANGED vars
  BY <1>2, QuietBalanced DEF vars
<1>3. CASE Foreign
  BY <1>3, ForeignEffect, QuietBalanced
<1>4. ASSUME NEW s \in Slots, Serve(s) PROVE Balanced
  <2> DEFINE c == calls[s]
             d == calls'[s]
  <2>1. /\ c \in Record /\ c # None /\ c.made = 0 /\ d \in Record /\ d # None
        /\ calls' = [calls EXCEPT ![s] = d] /\ d.total = c.total
        /\ hist'.untold = hist.untold + d.made /\ hist'.lost = hist.lost /\ UNCHANGED form
    BY <1>4, ServeEffect
  <2>2. c.total \in Nat /\ d.made \in Nat /\ hist.untold \in Int
    BY <2>1 DEF Record, Base, TypeOK, History
  <2>3. Owed(c) = c.total /\ Owed(d) = c.total + d.made
    BY <2>1, <2>2, OwedType
  <2>4. Debt \in Int /\ Debt' = Debt + (Owed(d) - Owed(c))
    BY <2>1, DebtChanges DEF Base
  <2> HIDE DEF c, d
  <2>5. Debt' = Debt + d.made
    BY <2>2, <2>3, <2>4
  <2> QED
    BY <2>1, <2>2, <2>5 DEF Balanced
<1>5. ASSUME NEW s \in Slots, Lost(s) PROVE Balanced
  BY <1>5, LostEffect DEF Balanced
<1> QED
  BY <1>1, <1>2, <1>3, <1>4, <1>5, StepShapes

(* At the start nothing is owed. *)
LEMMA ToldInit ==
  ASSUME Init
  PROVE  Told
<1>1. hist.untold = 0 /\ Base
  BY BaseInit, StartShape
<1>2. \A s \in Slots : Owed(calls[s]) = 0
  <2>1. /\ Self \in Rows /\ Owed(None) = 0
        /\ \A t \in Rows : Loading(t) \in Record /\ Owed(Loading(t)) = 0
    BY FormAssumption, LoadingType, OwedType, NoneIsNoCall DEF Rows
  <2> QED
    BY <2>1, StartShape
<1>3. Debt = 0
  <2> DEFINE f == [x \in Slots |-> Owed(calls[x])]
  <2>1. \A x \in Slots : f[x] = 0
    BY <1>2
  <2> HIDE DEF f
  <2>2. SumFunctionOnSet(f, Slots) = 0
    BY <2>1, FormAssumption, SumZero
  <2> QED
    BY <2>2 DEF Debt, f
<1> QED
  BY <1>1, <1>3 DEF Told

(* However a submission ends, also half done, the administrator hears of every row it created *)
(* or changed, unless an answer was lost: when no call is in flight, nothing is owed.         *)
THEOREM EverythingTold == Spec => []EverythingIsTold
<1>1. Init => Told
  BY ToldInit
<1>2. Base /\ Told /\ [Next]_vars => Told'
  <2> SUFFICES ASSUME Base, Told, [Next]_vars PROVE Told'
    OBVIOUS
  <2>1. Balanced
    BY StepBalanced
  <2> QED
    BY <2>1 DEF Told, Balanced
<1>3. Base /\ Told => EverythingIsTold
  <2> SUFFICES ASSUME Base, Told, Quiet, ~hist.lost, form # "berry/redemption"
               PROVE  hist.untold = 0
    BY DEF EverythingIsTold
  <2> DEFINE f == [x \in Slots |-> Owed(calls[x])]
  <2>1. \A x \in Slots : f[x] = 0
    BY DEF Quiet, InFlight, Owed
  <2> HIDE DEF f
  <2>2. SumFunctionOnSet(f, Slots) = 0
    BY <2>1, FormAssumption, SumZero
  <2> QED
    BY <2>2 DEF Told, Debt, f
<1> QED
  BY <1>1, <1>2, <1>3, FormTypes, PTL DEF Spec

-----------------------------------------------------------------------------
(***************************************************************************)
(* What a form knows of the row it shows.                                  *)
(***************************************************************************)
IsLoad(c) == c # None /\ c.op = "load" /\ c.alive
IsSave(c) == c # None /\ c.op = "save" /\ c.alive
\* An answer on its way brings the row as it was when the form was opened, or later.
Fresh(c) == c.phase = "served" => IF c.ok THEN c.ver >= ui.opened ELSE hist.blind

\* A page of default that is listened to: its calls are for the row it shows, it is
\* loading as long as it waits for that row, and then it shows it.
PageKnows ==
  form \in DefaultForms =>
    /\ \A s \in Slots : IsLoad(calls[s]) => calls[s].id = ui.target /\ Fresh(calls[s])
    /\ \A s \in Slots : IsSave(calls[s]) => (calls[s].put <=> ui.target # 0)
    /\ ui.loading /\ ~hist.blind => \E s \in Slots : IsLoad(calls[s])
    /\ ui.target = 0 => ~ui.loading /\ ui.inputs.of = 0
    /\ ui.target # 0 /\ ~ui.loading /\ ~hist.blind =>
         ui.inputs.of = ui.target /\ ui.inputs.ver >= ui.opened

(* The kinds of form exclude each other. *)
LEMMA KindsOfForm ==
  /\ \A f \in DefaultForms : f \notin AirForms /\ f \notin BerryForms
  /\ \A f \in BerryForms : f \notin AirForms
  /\ {"air/token", "air/user", "air/adduser", "air/channel", "air/redemption"} \subseteq AirForms
  /\ "default/adduser" \in DefaultForms
BY DEF AirForms, DefaultForms, BerryForms

(* A call that is asked is neither refused nor old. *)
LEMMA AskedIsFresh ==
  ASSUME NEW c, c.phase = "asked"
  PROVE  Fresh(c) /\ Fresh(c)'
BY DEF Fresh

(* Every shape keeps what a page knows. *)
LEMMA ShapeKnows ==
  ASSUME Base, PageKnows, Shape, form \in DefaultForms
  PROVE  PageKnows'
<1>1. /\ ui \in View /\ ui.target \in Rows /\ ui.opened \in Nat /\ ui.inputs \in Fields
      /\ hist \in History /\ \A s \in Slots : calls[s] \in Record \cup {None}
      /\ None \notin Record /\ calls \in [Slots -> Record \cup {None}]
      /\ ui.isEdit <=> ui.target # 0
      /\ form = "default/adduser" => ui.target = 0
      /\ \A s \in Slots : calls[s] # None => Whole(calls[s])
  BY NoneIsNoCall, KindsOfForm DEF Base, TypeOK, View, Sane, InFlight
<1>2. form \notin AirForms /\ form \notin BerryForms
      /\ form \notin {"air/token", "air/user", "air/adduser", "air/channel", "air/redemption"}
  BY KindsOfForm
<1>3. CASE Entering
  BY <1>1, <1>3 DEF Entering, SameView, SameRow, SameInputs, PageKnows, IsLoad, IsSave, Fresh,
     None
<1>4. ASSUME NEW c \in Record, Submitting(c)
      PROVE  PageKnows'
  <2>1. PICK n \in Slots : calls[n] = None /\ calls' = [calls EXCEPT ![n] = c]
    BY <1>4 DEF Submitting, Sends
  <2>2. /\ UNCHANGED form /\ hist'.blind = hist.blind /\ SameView /\ SameInputs
        /\ ui'.loading = ui.loading /\ c.op = "save" /\ (c.put <=> ui.target # 0)
    BY <1>1, <1>2, <1>4 DEF Submitting, Goes, Acts, Asks
  <2>3. calls'[n] = c /\ \A s \in Slots \ {n} : calls'[s] = calls[s]
    BY <1>1, <2>1
  <2>4. ~IsLoad(calls[n])
    BY <2>1 DEF IsLoad
  <2> QED
    BY <1>1, <2>2, <2>3, <2>4
    DEF SameView, SameRow, SameInputs, PageKnows, IsLoad, IsSave, Fresh, None
<1>5. ASSUME NEW t \in Rows, Visiting(t)
      PROVE  PageKnows'
  <2>1. /\ \A s \in Slots : IsLoad(calls'[s]) => t # 0 /\ calls'[s] = Loading(t)
        /\ \A s \in Slots : ~IsSave(calls'[s])
    <3> SUFFICES ASSUME NEW s \in Slots
                 PROVE  /\ IsLoad(calls'[s]) => t # 0 /\ calls'[s] = Loading(t)
                        /\ ~IsSave(calls'[s])
      OBVIOUS
    <3>1. CASE calls[s] = None /\ calls'[s] = None
      BY <3>1 DEF IsLoad, IsSave
    <3>2. CASE calls[s] # None /\ calls'[s] = Deaf(calls[s])
      <4>1. ~Deaf(calls[s]).alive
        BY <1>1, <3>2, DeafType
      <4> QED
        BY <3>2, <4>1 DEF IsLoad, IsSave
    <3>3. CASE t # 0 /\ calls'[s] = Loading(t)
      BY <3>3, LoadingType DEF IsLoad, IsSave
    <3> QED
      BY <1>5, <3>1, <3>2, <3>3, VisitCalls
  <2>2. Loading(t).id = t /\ Loading(t).phase = "asked" /\ IsLoad(Loading(t))
    BY LoadingType, NoneIsNoCall DEF IsLoad
  <2>3. t # 0 => \E s \in Slots : IsLoad(calls'[s])
    BY <1>5, <2>2, VisitCalls
  <2>4. ui'.target = t /\ (ui'.loading <=> t # 0) /\ ui'.inputs = Origin /\ UNCHANGED form
        /\ Origin.of = 0
    BY <1>5, OriginType DEF Visiting, Acts
  <2> QED
    BY <2>1, <2>2, <2>3, <2>4 DEF PageKnows, IsLoad, IsSave, Fresh, None
<1>6. ASSUME NEW s \in Slots, Loads(s) \/ PageSaves(s)
      PROVE  PageKnows'
  <2> DEFINE c == calls[s]
  <2>1. /\ c \in Record /\ c # None /\ c.phase = "served" /\ Whole(c)
        /\ UNCHANGED form /\ hist'.blind = hist.blind /\ SameView
        /\ calls'[s] = None /\ \A x \in Slots \ {s} : calls'[x] = calls[x]
    BY <1>1, <1>6 DEF Loads, PageSaves, Saves, Ends, History, SameView, SameRow
  <2>2. Loaded(c).of = c.id /\ Loaded(c).ver = c.ver /\ Origin.of = 0
    BY <2>1, OriginType
  <2>3. CASE c.op = "load" /\ c.alive
    <3>1. c.id = ui.target /\ Fresh(c) /\ c.id # 0
      BY <2>1, <2>3 DEF PageKnows, IsLoad, Whole
    <3>2. ~ui'.loading /\ ui'.inputs = (IF c.ok THEN Loaded(c) ELSE ui.inputs)
      BY <1>6, <2>3 DEF Loads, PageSaves, Saves
    <3>3. ~hist.blind => c.ok /\ c.ver >= ui.opened
      BY <2>1, <3>1 DEF Fresh
    <3>4. ui'.target = ui.target /\ ui'.opened = ui.opened
      BY <2>1 DEF SameView, SameRow
    <3> QED
      BY <2>1, <2>2, <3>1, <3>2, <3>3, <3>4 DEF PageKnows, IsLoad, IsSave, Fresh, None
  <2>4. CASE ~(c.op = "load" /\ c.alive)
    <3>1. ui'.loading = ui.loading
      BY <1>6, <2>4 DEF Loads, PageSaves
    <3>2. IF c.op = "save" /\ c.alive /\ c.ok /\ ~c.put THEN ui'.inputs = Origin
                                                        ELSE ui'.inputs = ui.inputs
      BY <1>6, <2>4 DEF Loads, PageSaves, Saves
    <3>3. ~IsLoad(c)
      BY <2>4 DEF IsLoad
    <3>4. c.op = "save" /\ c.alive /\ ~c.put => ui.target = 0
      BY <2>1 DEF PageKnows, IsSave
    <3>5. ui'.target = ui.target /\ ui'.opened = ui.opened
      BY <2>1 DEF SameView, SameRow
    <3> HIDE DEF c
    <3> QED
      BY <1>1, <2>1, <2>2, <3>1, <3>2, <3>3, <3>4, <3>5
      DEF PageKnows, IsLoad, IsSave, Fresh, None, c
  <2> QED
    BY <2>3, <2>4
<1>7. ~(Spoiling \/ Emptying \/ SheetCloses \/ UserCloses \/ Forgetting \/ DialogCloses)
  BY <1>2 DEF Spoiling, Emptying, SheetCloses, UserCloses, Forgetting, DialogCloses, Opens
<1>8. \A t \in Rows : ~Reopening(t) /\ ~Fetching(t)
  BY DEF Reopening, Fetching, Opens
<1>9. \A s \in Slots : ~(\/ DialogLoads(s) \/ SheetSaves(s) \/ TokenGoesOn(s) \/ TokenSaves(s)
                         \/ UserSaves(s) \/ DialogSaves(s))
  BY <1>2 DEF DialogLoads, SheetSaves, TokenGoesOn, TokenSaves, UserSaves, DialogSaves
<1> QED
  BY <1>3, <1>4, <1>5, <1>6, <1>7, <1>8, <1>9 DEF Shape

(* So do the server, the loss of a call, and a change by somebody else. *)
LEMMA PageStep ==
  ASSUME Base, PageKnows, [Next]_vars
  PROVE  PageKnows'
<1>0. UNCHANGED form
  BY StepBalanced DEF Balanced
<1> SUFFICES ASSUME form \in DefaultForms PROVE PageKnows'
  BY <1>0 DEF PageKnows
<1>1. /\ ui \in View /\ ui.target \in Rows /\ ui.opened \in Nat /\ ui.inputs \in Fields
      /\ hist \in History /\ \A s \in Slots : calls[s] \in Record \cup {None}
      /\ None \notin Record /\ calls \in [Slots -> Record \cup {None}]
      /\ \A s \in Slots : calls[s] # None => Whole(calls[s])
      /\ ui.target # 0 => ui.opened <= db[ui.target]
      /\ db \in [Ids -> Nat]
  BY NoneIsNoCall DEF Base, TypeOK, View, Sane, InFlight
<1>2. CASE Shape
  BY <1>2, ShapeKnows
<1>3. CASE UNCHANGED vars
  BY <1>3 DEF vars, PageKnows, IsLoad, IsSave, Fresh, None
<1>4. CASE Foreign
  BY <1>4, ForeignEffect DEF PageKnows, IsLoad, IsSave, Fresh, None
<1>5. ASSUME NEW s \in Slots, Serve(s) PROVE PageKnows'
  <2> DEFINE c == calls[s]
             d == calls'[s]
  <2>1. /\ c \in Record /\ c # None /\ c.phase = "asked" /\ d \in Record /\ d # None
        /\ d.phase = "served" /\ d.op = c.op /\ d.id = c.id /\ d.put = c.put
        /\ d.alive = c.alive
        /\ d.op = "load" /\ d.ok => d.ver = db[d.id]
        /\ UNCHANGED <<form, ui>>
        /\ hist'.blind <=> (hist.blind \/ (c.op = "load" /\ ~d.ok /\ c.alive))
    BY <1>5, ServeEffect
  <2>2. \A x \in Slots \ {s} : calls'[x] = calls[x]
    BY <1>1, <1>5, ServeEffect
  <2>3. c.op = "load" => c.id # 0
    BY <1>1, <2>1 DEF Whole
  <2>4. IsLoad(c) <=> IsLoad(d)
    BY <2>1 DEF IsLoad
  <2>5. IsSave(c) <=> IsSave(d)
    BY <2>1 DEF IsSave
  <2>6. IsLoad(d) => d.id = ui.target /\ (IF d.ok THEN d.ver >= ui.opened ELSE hist'.blind)
    <3> SUFFICES ASSUME IsLoad(d) PROVE d.id = ui.target
                                       /\ (IF d.ok THEN d.ver >= ui.opened ELSE hist'.blind)
      OBVIOUS
    <3>1. d.op = "load" /\ d.alive /\ d.id = ui.target /\ ui.target # 0
      BY <2>1, <2>3, <2>4 DEF PageKnows, IsLoad
    <3>2. d.ok => db[ui.target] \in Nat /\ d.ver = db[ui.target] /\ ui.opened <= db[ui.target]
      BY <1>1, <2>1, <3>1 DEF Rows
    <3> QED
      BY <1>1, <2>1, <3>1, <3>2
  <2> HIDE DEF c, d
  <2>7. \A x \in Slots : IsLoad(calls'[x]) <=> IsLoad(calls[x])
    BY <2>2, <2>4 DEF c, d
  <2>8. \A x \in Slots : IsLoad(calls'[x]) =>
          calls'[x].id = ui.target /\ (calls'[x].phase = "served" =>
            IF calls'[x].ok THEN calls'[x].ver >= ui.opened ELSE hist'.blind)
    BY <2>1, <2>2, <2>6 DEF PageKnows, Fresh, c, d
  <2>9. \A x \in Slots : IsSave(calls'[x]) => (calls'[x].put <=> ui.target # 0)
    BY <2>1, <2>2, <2>5 DEF PageKnows, c, d
  <2> QED
    BY <2>1, <2>7, <2>8, <2>9 DEF PageKnows, IsLoad, IsSave, Fresh, None
<1>6. ASSUME NEW s \in Slots, Lost(s) PROVE PageKnows'
  <2>1. /\ UNCHANGED form /\ SameView /\ ui'.inputs = ui.inputs
        /\ hist'.blind <=> (hist.blind \/ (calls[s].op = "load" /\ calls[s].alive))
        /\ ui'.loading => ui.loading
        /\ ui.loading => (ui'.loading \/ (calls[s].op = "load" /\ calls[s].alive))
    BY <1>6, LostEffect
  <2>2. calls'[s] = None /\ \A x \in Slots \ {s} : calls'[x] = calls[x]
    BY <1>1, <1>6, LostEffect
  <2>3. ~hist'.blind => ~IsLoad(calls[s])
    BY <2>1 DEF IsLoad
  <2> QED
    BY <1>1, <2>1, <2>2, <2>3 DEF SameView, SameRow, PageKnows, IsLoad, IsSave, Fresh, None
<1> QED
  BY <1>2, <1>3, <1>4, <1>5, <1>6, StepShapes

(* A page that is visited knows nothing yet, but asks for its row. *)
LEMMA PageInit ==
  ASSUME Init
  PROVE  PageKnows
<1> SUFFICES ASSUME form \in DefaultForms PROVE PageKnows
  BY DEF PageKnows
<1>1. form # "air/user"
  BY KindsOfForm
<1>2. PICK t \in Rows :
        /\ ui.target = t /\ (ui.loading <=> t # 0) /\ ui.inputs = Origin
        /\ \/ t = 0 /\ calls = [s \in Slots |-> None]
           \/ /\ t # 0
              /\ \E n \in Slots :
                   calls = [s \in Slots |-> IF s = n THEN Loading(t) ELSE None]
  BY <1>1, StartShape
<1>3. /\ IsLoad(Loading(t)) /\ ~IsSave(Loading(t)) /\ ~IsLoad(None) /\ ~IsSave(None)
      /\ Loading(t).id = t /\ Fresh(Loading(t)) /\ Origin.of = 0
  BY LoadingType, NoneIsNoCall, OriginType DEF IsLoad, IsSave, Fresh
<1>4. CASE t = 0
  BY <1>2, <1>3, <1>4 DEF PageKnows
<1>5. CASE t # 0
  BY <1>2, <1>3, <1>5 DEF PageKnows
<1> QED
  BY <1>4, <1>5

(***************************************************************************)
(* A sheet of air or a dialog of berry, whose administrator waits.  Two    *)
(* forms of air are opened as they were for the row they were closed with. *)
(***************************************************************************)
Lasting == {"air/channel", "air/redemption"}

\* At most one call is in flight, and none while a timer runs.
OneCall ==
  /\ \A s, t \in Slots : calls[s] # None /\ calls[t] # None => s = t
  /\ ui.timers > 0 => ~ui.open /\ \A s \in Slots : calls[s] = None
\* It is for the row that is shown; the form for users that shows none loads its own.
CallsFit ==
  /\ \A s \in Slots : IsLoad(calls[s]) =>
       /\ \/ form = "air/user" /\ ui.target = 0
          \/ calls[s].id = ui.target /\ (form \in Lasting \/ Fresh(calls[s]))
       /\ calls[s].phase = "served" => calls[s].ok \/ hist.blind
       /\ form \in BerryForms => ui.initial.of = 0
  /\ \A s \in Slots : IsSave(calls[s]) /\ form \in AirForms => (calls[s].put <=> ui.target # 0)
\* A form for a new row has inputs of none.
NewIsOfNone ==
  ui.target = 0 /\ form # "air/user" =>
    ui.inputs.of = 0 /\ (form \in BerryForms => ui.initial.of = 0)
\* A form that does not wait for its row has it.  The form for tokens may be without
\* when it is closed or was refused.
RowIsThere ==
  /\ ui.target # 0 /\ ~hist.blind /\ \A s \in Slots : ~IsLoad(calls[s])
  /\ form = "air/token" => ui.open /\ ~hist.refused
  => ui.inputs.of = ui.target /\ (form \in Lasting \/ ui.inputs.ver >= ui.opened)

Waits == OneCall /\ CallsFit /\ NewIsOfNone /\ RowIsThere
SheetKnows == form \notin DefaultForms /\ ~hist.hurried => Waits

(* A step after which no call is in flight. *)
LEMMA RestWaits ==
  ASSUME \A s \in Slots : calls'[s] = None, NewIsOfNone', RowIsThere',
         ui'.timers > 0 => ~ui'.open
  PROVE  Waits'
<1>1. None' = None
  BY DEF None
<1> QED
  BY <1>1 DEF Waits, OneCall, CallsFit, IsLoad, IsSave

(* A step after which one call is in flight. *)
LEMMA OneCallWaits ==
  ASSUME NEW s \in Slots, NEW c, c # None, calls'[s] = c, \A x \in Slots \ {s} : calls'[x] = None,
         NewIsOfNone', RowIsThere', ~(ui'.timers > 0),
         c.op = "load" => /\ \/ form' = "air/user" /\ ui'.target = 0
                             \/ c.id = ui'.target /\ (form' \in Lasting \/ Fresh(c)')
                          /\ c.phase = "served" => c.ok \/ hist'.blind
                          /\ form' \in BerryForms => ui'.initial.of = 0,
         c.op = "save" /\ form' \in AirForms => (c.put <=> ui'.target # 0)
  PROVE  Waits'
<1>1. None' = None
  BY DEF None
<1>2. OneCall'
  BY <1>1 DEF OneCall
<1>3. CallsFit'
  BY <1>1 DEF CallsFit, IsLoad, IsSave, Fresh
<1> QED
  BY <1>2, <1>3 DEF Waits

(* The administrator does something and waits: nothing is in flight before. *)
LEMMA ActsFromRest ==
  ASSUME Base, SheetKnows, form \notin DefaultForms, Acts, ~hist'.hurried
  PROVE  /\ Waits /\ \A s \in Slots : calls[s] = None /\ ~IsLoad(calls[s])
         /\ ui.timers = 0
         /\ UNCHANGED form
BY DEF Acts, SheetKnows, Quiet, InFlight, IsLoad, Base, TypeOK, View

(* The administrator waits while a handler goes on: it is the only one. *)
LEMMA EndsAlone ==
  ASSUME Base, SheetKnows, form \notin DefaultForms, NEW s \in Slots, NEW next, NEW told,
         Ends(s, next, told), ~hist'.hurried
  PROVE  /\ Waits /\ \A x \in Slots \ {s} : calls[x] = None /\ calls'[x] = None
         /\ calls'[s] = next /\ calls[s] \in Record /\ calls[s] # None
         /\ calls[s].alive /\ calls[s].phase = "served" /\ Whole(calls[s])
         /\ ui.timers = 0
         /\ UNCHANGED form /\ hist'.blind = hist.blind /\ hist'.refused = hist.refused
<1>1. hist \in History /\ calls \in [Slots -> Record \cup {None}] /\ ui.timers \in Nat
  BY DEF Base, TypeOK, View
<1>2. ~hist.hurried /\ hist'.blind = hist.blind /\ hist'.refused = hist.refused
  BY <1>1 DEF Ends, History
<1>3. Waits /\ calls[s] # None /\ Whole(calls[s])
  BY <1>2 DEF SheetKnows, Ends, Base, InFlight
<1>4. \A x \in Slots \ {s} : calls[x] = None
  BY <1>3 DEF Waits, OneCall
<1>5. ~(ui.timers > 0)
  BY <1>3 DEF Waits, OneCall
<1> QED
  BY <1>1, <1>2, <1>3, <1>4, <1>5 DEF Ends, Whole

(* What the administrator does keeps it. *)
LEMMA ActsWait ==
  ASSUME Base, SheetKnows, form \notin DefaultForms, ~hist'.hurried,
         \/ Spoiling \/ Emptying \/ SheetCloses \/ UserCloses \/ DialogCloses
         \/ \E c \in Record : Submitting(c)
         \/ \E t \in Rows : Reopening(t) \/ Fetching(t)
  PROVE  Waits'
<1>1. Acts
  BY DEF Spoiling, Emptying, SheetCloses, UserCloses, DialogCloses, Submitting, Reopening,
         Fetching, Opens, Closes, Goes
<1>2. /\ OneCall /\ NewIsOfNone /\ RowIsThere
      /\ \A s \in Slots : calls[s] = None /\ ~IsLoad(calls[s])
      /\ ui.timers = 0
      /\ UNCHANGED form
  BY <1>1, ActsFromRest DEF Waits
<1>3. /\ ui.target \in Rows /\ ui.opened \in Nat /\ ui.inputs \in Fields /\ Sane
      /\ calls \in [Slots -> Record \cup {None}] /\ Origin.of = 0 /\ None \notin Record
      /\ \A b \in BerryForms : b \notin AirForms
      /\ "air/user" \in AirForms /\ "air/token" \in AirForms /\ "air/adduser" \in AirForms
      /\ Lasting \subseteq AirForms
      /\ form \in AirForms \cup BerryForms /\ ~(0 > 0)
  BY OriginType, NoneIsNoCall, KindsOfForm DEF Base, TypeOK, View, Lasting
<1>4. /\ hist'.refused = hist.refused
      /\ \A s \in Slots : calls'[s] = calls[s] => ~IsLoad(calls'[s])
      /\ hist'.blind => hist.blind
      /\ None' = None
  BY <1>1, <1>2 DEF Acts, None
<1>5. CASE Spoiling
  <2>1. /\ UNCHANGED calls /\ hist'.blind = hist.blind /\ ui'.target = ui.target
        /\ ui'.timers = ui.timers /\ ui'.initial = ui.initial /\ ui.target = 0
        /\ ui'.inputs.of = 0
    BY <1>2, <1>3, <1>5 DEF Spoiling, Goes, SameView, SameRow, Sane, NewIsOfNone
  <2>2. NewIsOfNone' /\ RowIsThere'
    BY <1>2, <2>1 DEF NewIsOfNone, RowIsThere
  <2> QED
    BY <1>2, <1>3, <2>1, <2>2, RestWaits
<1>6. CASE Emptying
  <2>1. UNCHANGED calls /\ ui'.target = 0 /\ ui'.timers = 0 /\ ui'.inputs.of = 0
        /\ form \notin BerryForms
    BY <1>2, <1>3, <1>6 DEF Emptying, Opens
  <2>2. NewIsOfNone' /\ RowIsThere'
    BY <1>2, <2>1 DEF NewIsOfNone, RowIsThere
  <2> QED
    BY <1>2, <1>3, <2>1, <2>2, RestWaits
<1>7. CASE SheetCloses
  <2>1. /\ UNCHANGED calls /\ hist'.blind = hist.blind /\ ui'.target = ui.target /\ ~ui'.open
        /\ ui'.opened = ui.opened /\ ui'.initial = ui.initial /\ ui'.inputs = ui.inputs
    BY <1>7 DEF SheetCloses, Closes, Goes, SameRow
  <2>2. NewIsOfNone'
    BY <1>2, <2>1 DEF NewIsOfNone
  <2>3. RowIsThere'
    BY <1>2, <2>1 DEF RowIsThere
  <2> QED
    BY <1>2, <2>1, <2>2, <2>3, RestWaits
<1>8. CASE DialogCloses
  <2>1. UNCHANGED calls /\ ui'.target = 0 /\ ui'.timers = 0
        /\ ui'.initial.of = 0 /\ ui'.inputs = ui'.initial
    BY <1>2, <1>3, <1>8 DEF DialogCloses, DialogLeft, NewIsOfNone
  <2>2. NewIsOfNone' /\ RowIsThere'
    BY <1>2, <2>1 DEF NewIsOfNone, RowIsThere
  <2> QED
    BY <1>2, <1>3, <2>1, <2>2, RestWaits
<1>9. ASSUME NEW c \in Record, Sends(c)
      PROVE  \E s \in Slots : /\ calls'[s] = c /\ c # None
                              /\ \A x \in Slots \ {s} : calls'[x] = None
                              /\ c.op = "load" /\ c.alive => IsLoad(calls'[s])
  BY <1>2, <1>3, <1>9 DEF Sends, IsLoad
<1>10. ASSUME NEW c \in Record, Submitting(c)
       PROVE  Waits'
  <2>1. /\ SameView /\ SameInputs /\ ui.open /\ hist'.blind = hist.blind /\ c.op = "save"
        /\ form \in AirForms => (c.put <=> ui.isEdit \/ form = "air/user")
    BY <1>3, <1>10 DEF Submitting, Goes, Asks
  <2>2. form \in AirForms => (c.put <=> ui.target # 0)
    BY <1>3, <2>1 DEF Sane
  <2>3. ui'.target = ui.target /\ ui'.timers = 0 /\ ui'.initial = ui.initial
        /\ ui'.opened = ui.opened /\ ui'.open = ui.open
        /\ ui'.inputs.of = ui.inputs.of /\ ui'.inputs.ver = ui.inputs.ver
    BY <1>2, <2>1 DEF SameView, SameRow, SameInputs
  <2>4. NewIsOfNone'
    BY <1>2, <2>3 DEF NewIsOfNone
  <2>5. RowIsThere'
    BY <1>2, <1>4, <2>1, <2>3 DEF RowIsThere
  <2>6. Sends(c)
    BY <1>10 DEF Submitting
  <2> QED
    BY <1>2, <1>3, <1>9, <2>1, <2>2, <2>3, <2>4, <2>5, <2>6, OneCallWaits
<1>11. ASSUME NEW t \in Rows, Opens(t), Sends(Loading(t)), t # 0
       PROVE  Waits'
  <2> DEFINE c == Loading(t)
  <2>1. c \in Record /\ c.op = "load" /\ c.id = t /\ c.phase = "asked" /\ c.alive
    BY LoadingType
  <2>2. /\ ui'.target = t /\ ui'.timers = 0 /\ ui'.initial = ui.initial
        /\ form \in BerryForms => ui.target = 0
    BY <1>2, <1>3, <1>11 DEF Opens, Sane
  <2>3. Fresh(c)'
    BY <2>1, AskedIsFresh
  <2>4. form \in BerryForms => ui'.initial.of = 0
    BY <1>2, <1>3, <2>2 DEF NewIsOfNone
  <2>5. Sends(c)
    BY <1>11
  <2> HIDE DEF c
  <2>6. PICK s \in Slots : /\ calls'[s] = c /\ c # None
                           /\ \A x \in Slots \ {s} : calls'[x] = None
                           /\ IsLoad(calls'[s])
    BY <1>9, <2>1, <2>5
  <2>7. NewIsOfNone'
    BY <1>11, <2>2 DEF NewIsOfNone
  <2>8. RowIsThere'
    BY <2>6 DEF RowIsThere, IsLoad, None
  <2> QED
    BY <1>2, <1>3, <2>1, <2>2, <2>3, <2>4, <2>6, <2>7, <2>8, OneCallWaits
<1>12. CASE UserCloses
  <2> DEFINE c == Loading(Self)
  <2>1. c \in Record /\ c.op = "load" /\ c.phase = "asked"
    BY LoadingType, FormAssumption DEF Rows
  <2>2. form = "air/user" /\ ui'.target = 0 /\ ui'.timers = 0 /\ Sends(c)
    BY <1>2, <1>12 DEF UserCloses
  <2> HIDE DEF c
  <2>3. NewIsOfNone' /\ RowIsThere' /\ form' \notin BerryForms
    BY <1>2, <1>3, <2>2 DEF NewIsOfNone, RowIsThere
  <2> QED
    BY <1>2, <1>3, <1>9, <2>1, <2>2, <2>3, OneCallWaits
<1>13. ASSUME NEW t \in Rows, Reopening(t)
       PROVE  Waits'
  <2>1. /\ UNCHANGED calls /\ ui'.target = t /\ ui'.timers = 0 /\ ui'.initial = ui.initial
        /\ ~ui.open
        /\ t # 0 => hist'.blind = hist.blind
        /\ ui'.inputs = (IF form \in BerryForms THEN ui.initial ELSE ui.inputs)
        /\ IF form = "air/token" THEN t # 0 <=> ui.isEdit ELSE t = ui.target
        /\ form # "air/user"
    BY <1>2, <1>13 DEF Reopening, Opens
  <2>2. t # 0 => form \in Lasting /\ t = ui.target
    <3>1. form = "air/token" => ~ui.isEdit
      BY <1>2, <1>3, <2>1 DEF Sane
    <3>2. form \in BerryForms \/ form = "air/adduser" => ui.target = 0
      BY <1>3, <2>1 DEF Sane
    <3> QED
      BY <1>3, <2>1, <3>1, <3>2 DEF AirForms, Lasting
  <2>3. t = 0 => ui.target = 0
    BY <1>3, <2>1 DEF Sane
  <2>4. NewIsOfNone'
    BY <1>2, <2>1, <2>3 DEF NewIsOfNone
  <2>5. RowIsThere'
    BY <1>2, <1>3, <1>4, <2>1, <2>2 DEF RowIsThere, Lasting
  <2> QED
    BY <1>2, <1>3, <2>1, <2>4, <2>5, RestWaits
<1> QED
  BY <1>5, <1>6, <1>7, <1>8, <1>10, <1>11, <1>12, <1>13 DEF Fetching

(* So does a handler that goes on. *)
LEMMA HandlersWait ==
  ASSUME Base, SheetKnows, form \notin DefaultForms, ~hist'.hurried, NEW s \in Slots,
         \/ Loads(s) \/ DialogLoads(s) \/ SheetSaves(s) \/ TokenGoesOn(s) \/ TokenSaves(s)
         \/ UserSaves(s) \/ DialogSaves(s)
  PROVE  Waits'
<1> DEFINE c == calls[s]
<1>1. \E next, told : Ends(s, next, told)
  BY DEF Loads, DialogLoads, SheetSaves, TokenGoesOn, TokenSaves, UserSaves, DialogSaves, Saves
<1>2. /\ Waits /\ \A x \in Slots \ {s} : calls[x] = None /\ calls'[x] = None
      /\ c \in Record /\ c # None /\ c.alive /\ c.phase = "served" /\ Whole(c)
      /\ ui.timers = 0
      /\ UNCHANGED form /\ hist'.blind = hist.blind /\ hist'.refused = hist.refused
  BY <1>1, EndsAlone
<1>3. /\ ui.target \in Rows /\ ui.opened \in Nat /\ ui.inputs \in Fields /\ Sane
      /\ calls \in [Slots -> Record \cup {None}] /\ Origin.of = 0 /\ None \notin Record
      /\ Loaded(c).of = c.id /\ Loaded(c).ver = c.ver
      /\ \A b \in BerryForms : b \notin AirForms
      /\ "air/user" \in AirForms /\ "air/token" \in AirForms
      /\ Lasting \subseteq AirForms /\ ~(0 > 0) /\ None' = None
  BY <1>2, OriginType, NoneIsNoCall, KindsOfForm DEF Base, TypeOK, View, Lasting, None
<1>4. \A next, told : Ends(s, next, told) => calls'[s] = next
  BY <1>3 DEF Ends
<1>5. calls'[s] = None => \A x \in Slots : calls'[x] = None
  BY <1>2
<1>6. c.op = "save" => \A x \in Slots : ~IsLoad(calls[x])
  BY <1>2 DEF IsLoad
<1>7. c.op = "load" =>
        /\ c.id # 0
        /\ \/ form = "air/user" /\ ui.target = 0
           \/ c.id = ui.target /\ (form \in Lasting \/ Fresh(c))
        /\ c.ok \/ hist.blind
        /\ form \in BerryForms => ui.initial.of = 0
  BY <1>2 DEF Waits, CallsFit, IsLoad, Whole
<1>8. c.op = "save" /\ form \in AirForms => (c.put <=> ui.target # 0)
  BY <1>2 DEF Waits, CallsFit, IsSave
<1>9. NewIsOfNone /\ RowIsThere
  BY <1>2 DEF Waits
<1>10. ASSUME Loads(s) \/ DialogLoads(s) PROVE Waits'
  <2>1. c.op = "load" /\ calls'[s] = None
    BY <1>4, <1>10 DEF Loads, DialogLoads
  <2>2. ui'.target = ui.target /\ ui'.opened = ui.opened /\ ui'.timers = 0
    BY <1>2, <1>10 DEF Loads, DialogLoads, SameView, SameRow
  <2>3. ~hist.blind => ui'.inputs = Loaded(c)
    <3>1. CASE Loads(s)
      BY <1>2, <1>7, <2>1, <3>1 DEF Loads
    <3>2. CASE DialogLoads(s)
      <4>1. ui.initial # Loaded(c)
        BY <1>3, <1>7, <2>1, <3>2 DEF DialogLoads
      <4> QED
        BY <1>7, <2>1, <3>2, <4>1 DEF DialogLoads
    <3> QED
      BY <1>10, <3>1, <3>2
  <2>4. ui.target = 0 => form = "air/user"
    BY <1>7, <2>1
  <2> HIDE DEF c
  <2>5. NewIsOfNone'
    BY <1>2, <2>2, <2>4 DEF NewIsOfNone
  <2>6. RowIsThere'
    BY <1>2, <1>3, <1>7, <2>1, <2>2, <2>3 DEF RowIsThere, Fresh
  <2> QED
    BY <1>3, <1>5, <2>1, <2>2, <2>5, <2>6, RestWaits
<1>11. CASE SheetSaves(s)
  <2>1. /\ c.op = "save" /\ calls'[s] = None /\ form \in AirForms \ {"air/user", "air/token"}
        /\ ui'.target = ui.target /\ ui'.opened = ui.opened /\ ui'.timers = 0
        /\ IF c.ok /\ (~c.put \/ form = "air/adduser") THEN ui'.inputs = Origin
                                                       ELSE ui'.inputs = ui.inputs
    BY <1>2, <1>4, <1>11 DEF SheetSaves, Saves, SameRow
  <2>2. form = "air/adduser" => ui.target = 0
    BY <1>3 DEF Sane
  <2> HIDE DEF c
  <2>3. NewIsOfNone'
    BY <1>2, <1>3, <1>9, <2>1 DEF NewIsOfNone
  <2>4. RowIsThere'
    BY <1>2, <1>6, <1>8, <1>9, <2>1, <2>2 DEF RowIsThere
  <2> QED
    BY <1>3, <1>5, <2>1, <2>3, <2>4, RestWaits
<1>12. CASE TokenGoesOn(s)
  <2> DEFINE n == [c EXCEPT !.phase = "asked", !.ok = FALSE, !.made = 0, !.left = @ - 1,
                            !.total = @ + c.made]
  <2>1. c.op = "save" /\ calls'[s] = n /\ form = "air/token" /\ ui' = ui
    BY <1>4, <1>12 DEF TokenGoesOn, Saves
  <2>2. n.op = "save" /\ n.put = c.put /\ n # None
    BY <1>2, <2>1 DEF Record, None
  <2> HIDE DEF n, c
  <2>3. NewIsOfNone'
    BY <1>2, <1>9, <2>1 DEF NewIsOfNone
  <2>4. RowIsThere'
    BY <1>2, <1>6, <1>9, <2>1 DEF RowIsThere
  <2> QED
    BY <1>2, <1>3, <1>8, <2>1, <2>2, <2>3, <2>4, OneCallWaits
<1>13. CASE TokenSaves(s)
  <2>1. /\ c.op = "save" /\ calls'[s] = None /\ form = "air/token"
        /\ ui'.target = ui.target /\ ui'.inputs = Origin
        /\ IF c.total + c.made > 0 THEN ~ui'.open ELSE ui'.timers = ui.timers
    BY <1>4, <1>13 DEF TokenSaves, Saves, SameRow
  <2>2. ~ui'.open \/ hist.refused
    <3>1. c.total \in Nat /\ c.made \in Nat /\ c.n \in Nat /\ (c.ok \/ ~c.ok)
      BY <1>2 DEF Record
    <3>2. c.n > 0 /\ IF c.ok THEN c.made = c.n ELSE hist.refused
      BY <1>2, <2>1 DEF Whole
    <3> QED
      BY <2>1, <3>1, <3>2
  <2> HIDE DEF c
  <2>3. NewIsOfNone'
    BY <1>2, <1>3, <2>1 DEF NewIsOfNone
  <2>4. RowIsThere'
    BY <1>2, <2>1, <2>2 DEF RowIsThere
  <2> QED
    BY <1>2, <1>3, <1>5, <2>1, <2>3, <2>4, RestWaits
<1>14. CASE UserSaves(s)
  <2>1. CASE c.ok /\ ui.target # 0
    <3> DEFINE n == Loading(Self)
    <3>1. /\ calls'[s] = n /\ form = "air/user" /\ ui'.target = 0 /\ ui'.timers = 0
      BY <1>2, <1>4, <1>14, <2>1 DEF UserSaves, Saves
    <3>2. n \in Record /\ n # None /\ n.op = "load" /\ n.phase = "asked"
      BY LoadingType, FormAssumption, NoneIsNoCall DEF Rows
    <3> HIDE DEF n, c
    <3>3. NewIsOfNone' /\ RowIsThere' /\ form' \notin BerryForms
      BY <1>2, <1>3, <3>1 DEF NewIsOfNone, RowIsThere
    <3> QED
      BY <1>2, <1>3, <3>1, <3>2, <3>3, OneCallWaits
  <2>2. CASE ~(c.ok /\ ui.target # 0)
    <3>1. /\ c.op = "save" /\ calls'[s] = None /\ form = "air/user"
          /\ ui'.target = ui.target /\ ui'.opened = ui.opened /\ ui'.timers = 0
          /\ ui'.inputs = ui.inputs
      BY <1>2, <1>4, <1>14, <2>2 DEF UserSaves, Saves
    <3> HIDE DEF c
    <3>2. NewIsOfNone' /\ RowIsThere'
      BY <1>2, <1>3, <1>6, <1>9, <3>1 DEF NewIsOfNone, RowIsThere
    <3> QED
      BY <1>3, <1>5, <3>1, <3>2, RestWaits
  <2> QED
    BY <2>1, <2>2
<1>15. CASE DialogSaves(s)
  <2>1. c.op = "save" /\ calls'[s] = None /\ form \in BerryForms /\ ui'.opened = ui.opened
    BY <1>4, <1>15 DEF DialogSaves, Saves
  <2>2. CASE c.ok
    <3>1. ui'.target = 0 /\ ui'.timers = 0 /\ ui'.initial.of = 0 /\ ui'.inputs = ui'.initial
      BY <1>2, <1>3, <1>9, <1>15, <2>1, <2>2 DEF DialogSaves, DialogLeft, NewIsOfNone
    <3> HIDE DEF c
    <3>2. NewIsOfNone' /\ RowIsThere'
      BY <1>2, <3>1 DEF NewIsOfNone, RowIsThere
    <3> QED
      BY <1>3, <1>5, <2>1, <3>1, <3>2, RestWaits
  <2>3. CASE ~c.ok
    <3>1. ui'.target = ui.target /\ ui'.timers = 0 /\ ui'.initial = ui.initial
          /\ ui'.inputs = ui.inputs
      BY <1>2, <1>15, <2>3 DEF DialogSaves, SameView, SameRow
    <3> HIDE DEF c
    <3>2. NewIsOfNone'
      BY <1>2, <1>9, <3>1 DEF NewIsOfNone
    <3>3. RowIsThere'
      BY <1>2, <1>3, <1>6, <1>9, <2>1, <3>1 DEF RowIsThere
    <3> QED
      BY <1>3, <1>5, <2>1, <3>1, <3>2, <3>3, RestWaits
  <2> QED
    BY <2>2, <2>3
<1> QED
  BY <1>10, <1>11, <1>12, <1>13, <1>14, <1>15

(* So does every step. *)
LEMMA SheetStep ==
  ASSUME Base, SheetKnows, [Next]_vars
  PROVE  SheetKnows'
<1>0. UNCHANGED form
  BY StepBalanced DEF Balanced
<1> SUFFICES ASSUME form \notin DefaultForms, ~hist'.hurried PROVE Waits'
  BY <1>0 DEF SheetKnows
<1>1. /\ ui \in View /\ ui.target \in Rows /\ ui.opened \in Nat /\ ui.inputs \in Fields
      /\ ui.timers \in Nat
      /\ hist \in History /\ db \in [Ids -> Nat] /\ Sane /\ Origin.of = 0 /\ None' = None
      /\ calls \in [Slots -> Record \cup {None}] /\ None \notin Record
      /\ \A s \in Slots : calls[s] # None => Whole(calls[s]) /\ calls[s].alive
  BY NoneIsNoCall, OriginType DEF Base, TypeOK, View, InFlight, None, Whole
<1>2. ~hist.hurried => OneCall /\ CallsFit /\ NewIsOfNone /\ RowIsThere
  BY DEF SheetKnows, Waits
<1>3. CASE Entering
  <2>1. SameView /\ SameInputs /\ UNCHANGED <<form, calls, hist>>
    BY <1>3 DEF Entering
  <2>2. OneCall'
    BY <1>1, <1>2, <2>1 DEF OneCall, SameView, SameRow
  <2>3. CallsFit'
    BY <1>1, <1>2, <2>1 DEF CallsFit, IsLoad, IsSave, Fresh, SameView, SameRow
  <2>4. NewIsOfNone' /\ RowIsThere'
    BY <1>1, <1>2, <2>1 DEF NewIsOfNone, RowIsThere, IsLoad, SameView, SameRow, SameInputs
  <2> QED
    BY <2>2, <2>3, <2>4 DEF Waits
<1>4. CASE Forgetting
  <2>1. /\ UNCHANGED <<form, calls, hist>> /\ form = "air/token" /\ ui.timers > 0
        /\ ui'.target = 0 /\ ui'.open = ui.open
        /\ ui'.inputs = (IF ui.isEdit THEN Origin ELSE ui.inputs)
    BY <1>4 DEF Forgetting
  <2>2. ~ui.open /\ \A s \in Slots : calls[s] = None
    BY <1>2, <2>1 DEF OneCall
  <2>3. ~ui.isEdit => ui.target = 0
    BY <1>1, <2>1 DEF Sane
  <2>4. form \notin BerryForms
    BY <2>1, KindsOfForm
  <2>5. NewIsOfNone' /\ RowIsThere'
    BY <1>1, <1>2, <2>1, <2>3, <2>4 DEF NewIsOfNone, RowIsThere
  <2> QED
    BY <2>1, <2>2, <2>5, RestWaits
<1>5. CASE Shape
  <2>1. \A t \in Rows : ~Visiting(t)
    BY DEF Visiting
  <2>2. \A s \in Slots : ~PageSaves(s)
    BY DEF PageSaves
  <2> QED
    BY <1>3, <1>4, <1>5, <2>1, <2>2, ActsWait, HandlersWait DEF Shape
<1>6. CASE UNCHANGED vars
  BY <1>2, <1>6
  DEF vars, Waits, OneCall, CallsFit, NewIsOfNone, RowIsThere, IsLoad, IsSave, Fresh, None
<1>7. CASE Foreign
  BY <1>2, <1>7, ForeignEffect
  DEF Waits, OneCall, CallsFit, NewIsOfNone, RowIsThere, IsLoad, IsSave, Fresh, None
<1>8. ASSUME NEW s \in Slots, Serve(s) PROVE Waits'
  <2> DEFINE c == calls[s]
             d == calls'[s]
  <2>1. /\ c \in Record /\ c # None /\ c.phase = "asked" /\ d \in Record /\ d # None
        /\ d.phase = "served" /\ d.op = c.op /\ d.id = c.id /\ d.put = c.put
        /\ d.alive = c.alive /\ c.alive
        /\ d.op = "load" /\ d.ok => d.ver = db[d.id]
        /\ UNCHANGED <<form, ui>> /\ hist'.hurried = hist.hurried
        /\ hist'.blind <=> (hist.blind \/ (c.op = "load" /\ ~d.ok /\ c.alive))
        /\ hist.refused => hist'.refused
    BY <1>1, <1>8, ServeEffect
  <2>2. \A x \in Slots \ {s} : calls'[x] = calls[x]
    BY <1>1, <1>8, ServeEffect
  <2>3. OneCall /\ CallsFit /\ NewIsOfNone /\ RowIsThere
    BY <1>2, <2>1
  <2>4. /\ \A x \in Slots \ {s} : calls'[x] = None
        /\ ~(ui.timers > 0)
    BY <2>1, <2>2, <2>3 DEF OneCall
  <2>5. c.op = "load" => /\ \/ form = "air/user" /\ ui.target = 0
                            \/ c.id = ui.target /\ (form \in Lasting \/ Fresh(c))
                         /\ form \in BerryForms => ui.initial.of = 0
                         /\ c.id # 0
    BY <1>1, <2>1, <2>3 DEF CallsFit, IsLoad, Whole
  <2>6. d.op = "load" => /\ \/ form = "air/user" /\ ui.target = 0
                            \/ d.id = ui.target /\ (d.ok => d.ver >= ui.opened)
                         /\ d.ok \/ hist'.blind
    <3> SUFFICES ASSUME d.op = "load"
                 PROVE  /\ \/ form = "air/user" /\ ui.target = 0
                           \/ d.id = ui.target /\ (d.ok => d.ver >= ui.opened)
                        /\ d.ok \/ hist'.blind
      OBVIOUS
    <3>1. d.ok \/ hist'.blind
      BY <2>1
    <3>2. CASE d.id = ui.target
      <4>1. ui.target \in Ids /\ ui.opened <= db[ui.target] /\ db[ui.target] \in Nat
        BY <1>1, <2>1, <2>5, <3>2 DEF Rows, Sane
      <4>2. d.ok => d.ver >= ui.opened
        BY <1>1, <2>1, <3>2, <4>1
      <4> QED
        BY <3>1, <3>2, <4>2
    <3> QED
      BY <2>1, <2>5, <3>1, <3>2
  <2>7. c.op = "save" /\ form \in AirForms => (c.put <=> ui.target # 0)
    BY <2>1, <2>3 DEF CallsFit, IsSave
  <2>8. NewIsOfNone'
    BY <2>1, <2>3 DEF NewIsOfNone
  <2> HIDE DEF c, d
  <2>9. \A x \in Slots : IsLoad(calls[x]) => IsLoad(calls'[x])
    BY <2>1, <2>2 DEF IsLoad, c, d
  <2>10. RowIsThere'
    <3>1. (\A x \in Slots : ~IsLoad(calls'[x])) => \A x \in Slots : ~IsLoad(calls[x])
      BY <2>9
    <3>2. (\A x \in Slots : ~IsLoad(calls[x]))' => \A x \in Slots : ~IsLoad(calls'[x])
      BY <1>1 DEF IsLoad
    <3> QED
      BY <2>1, <2>3, <3>1, <3>2 DEF RowIsThere
  <2>11. Fresh(calls[s])' <=>
           (d.phase = "served" => IF d.ok THEN d.ver >= ui.opened ELSE hist'.blind)
    BY <1>1, <2>1 DEF Fresh, d
  <2>12. d.op = "load" => /\ \/ form = "air/user" /\ ui.target = 0
                             \/ d.id = ui.target /\ (form \in Lasting \/ Fresh(calls[s])')
                          /\ d.phase = "served" => d.ok \/ hist'.blind
                          /\ form \in BerryForms => ui.initial.of = 0
    BY <2>1, <2>5, <2>6, <2>11
  <2>13. d.op = "save" /\ form \in AirForms => (d.put <=> ui.target # 0)
    BY <2>1, <2>7
  <2>14. OneCall'
    BY <1>1, <2>1, <2>4 DEF OneCall
  <2>15. CallsFit'
    <3>1. \A x \in Slots : calls'[x] # None => x = s
      BY <2>4
    <3> QED
      BY <1>1, <2>1, <2>12, <2>13, <3>1 DEF CallsFit, IsLoad, IsSave, Fresh, d
  <2> QED
    BY <2>8, <2>10, <2>14, <2>15 DEF Waits
<1>9. ASSUME NEW s \in Slots, Lost(s) PROVE Waits'
  <2>1. /\ UNCHANGED form /\ SameView /\ ui'.inputs = ui.inputs
        /\ hist'.blind <=> (hist.blind \/ (calls[s].op = "load" /\ calls[s].alive))
        /\ hist'.hurried = hist.hurried /\ hist'.refused = hist.refused
        /\ calls[s] # None
    BY <1>9, LostEffect DEF InFlight
  <2>2. calls'[s] = None /\ \A x \in Slots \ {s} : calls'[x] = calls[x]
    BY <1>1, <1>9, LostEffect
  <2>3. OneCall /\ NewIsOfNone /\ RowIsThere
    BY <1>2, <2>1
  <2>4. /\ \A x \in Slots : calls'[x] = None
        /\ \A x \in Slots \ {s} : calls[x] = None
        /\ ~(ui.timers > 0)
    BY <2>1, <2>2, <2>3 DEF OneCall
  <2>5. ~hist'.blind => \A x \in Slots : ~IsLoad(calls[x])
    BY <2>1, <2>4 DEF IsLoad
  <2>6. NewIsOfNone' /\ ui'.timers = ui.timers
    BY <2>1, <2>3 DEF NewIsOfNone, SameView, SameRow
  <2>7. RowIsThere'
    BY <2>1, <2>3, <2>5 DEF RowIsThere, SameView, SameRow
  <2> QED
    BY <2>4, <2>6, <2>7, RestWaits
<1> QED
  BY <1>5, <1>6, <1>7, <1>8, <1>9, StepShapes

(* A sheet or a dialog starts empty; the one for users loads the administrator. *)
LEMMA SheetInit ==
  ASSUME Init
  PROVE  SheetKnows
<1> SUFFICES ASSUME form \notin DefaultForms PROVE Waits
  BY DEF SheetKnows
<1>1. /\ ui.target = 0 /\ ui.inputs = Origin /\ ui.initial = Origin /\ ui.timers = 0
      /\ \/ form # "air/user" /\ calls = [s \in Slots |-> None]
         \/ /\ form = "air/user"
            /\ \E n \in Slots : calls = [s \in Slots |-> IF s = n THEN Loading(Self) ELSE None]
  <2>1. PICK t \in Rows :
          /\ ui.target = t
          /\ form \in {"default/adduser"} \cup AirForms \cup BerryForms => t = 0
          /\ LET r == IF form = "air/user" THEN Self ELSE t
             IN  \/ r = 0 /\ calls = [s \in Slots |-> None]
                 \/ /\ r \in Rows /\ r # 0
                    /\ \E n \in Slots :
                         calls = [s \in Slots |-> IF s = n THEN Loading(r) ELSE None]
    BY StartShape
  <2>2. t = 0 /\ Self # 0
    BY <2>1, StartShape, FormAssumption
  <2> QED
    BY <2>1, <2>2, StartShape
<1>2. /\ Origin.of = 0 /\ ~IsLoad(None) /\ ~IsSave(None) /\ ~IsSave(Loading(Self))
      /\ Loading(Self).phase = "asked"
      /\ form = "air/user" => form \notin BerryForms
  <2>1. Self \in Rows
    BY FormAssumption DEF Rows
  <2>2. Loading(Self).op = "load" /\ Loading(Self).phase = "asked"
    BY <2>1, LoadingType
  <2>3. ~IsLoad(None) /\ ~IsSave(None)
    BY DEF IsLoad, IsSave
  <2>4. ~IsSave(Loading(Self))
    BY <2>2 DEF IsSave
  <2>5. form = "air/user" => form \notin BerryForms
    BY KindsOfForm
  <2> QED
    BY <2>2, <2>3, <2>4, <2>5, OriginType
<1>3. NewIsOfNone /\ RowIsThere
  BY <1>1, <1>2 DEF NewIsOfNone, RowIsThere
<1>4. OneCall /\ CallsFit
  BY <1>1, <1>2 DEF OneCall, CallsFit
<1> QED
  BY <1>3, <1>4 DEF Waits

\* What a form knows, with what it rests on.
Knows == Base /\ PageKnows /\ SheetKnows

(* What a form knows of its row it knows at any time. *)
LEMMA FormKnows == Spec => []Knows
<1>1. Init => Knows
  BY BaseInit, PageInit, SheetInit DEF Knows
<1>2. Knows /\ [Next]_vars => Knows'
  BY BaseStep, PageStep, SheetStep DEF Knows
<1> QED
  BY <1>1, <1>2, PTL DEF Spec

(* A form at rest, used with care, shows its row no older than when it was opened. *)
THEOREM FormsShowFresh == Spec => []ShowsFresh
<1>1. Knows => ShowsFresh
  <2> SUFFICES ASSUME Knows, form \notin Lasting, ui.open, ui.target # 0, Quiet, Careful
               PROVE  ui.inputs.of = ui.target /\ ui.inputs.ver >= ui.opened
    BY DEF ShowsFresh, Lasting
  <2>1. \A s \in Slots : ~IsLoad(calls[s])
    BY DEF Quiet, InFlight, IsLoad
  <2>2. CASE form \in DefaultForms
    BY <2>1, <2>2 DEF Knows, PageKnows, Careful
  <2>3. CASE form \notin DefaultForms
    BY <2>1, <2>3 DEF Knows, SheetKnows, Waits, RowIsThere, Careful
  <2> QED
    BY <2>2, <2>3
<1> QED
  BY <1>1, FormKnows, PTL

(* What is submitted for a row was loaded from this row, and what is submitted as new from     *)
(* none: only a submission fills a free slot with a call that saves, and it takes the inputs  *)
(* of a form that knows its row.                                                               *)
THEOREM FormsTargetRight == Spec => RightTarget
<1> DEFINE Right == \A s \in Slots :
             calls[s] = None /\ calls'[s] # None /\ calls'[s].op = "save" /\ Careful' =>
               calls'[s].of = IF calls'[s].put THEN calls'[s].id ELSE 0
<1>1. ASSUME Knows, Next PROVE Right
  <2> SUFFICES ASSUME NEW s \in Slots, calls[s] = None, calls'[s] # None, calls'[s].op = "save",
                      Careful'
               PROVE  calls'[s].of = IF calls'[s].put THEN calls'[s].id ELSE 0
    OBVIOUS
  <2>1. /\ calls \in [Slots -> Record \cup {None}] /\ None \notin Record /\ Base
        /\ Sane /\ PageKnows /\ SheetKnows /\ [Next]_vars /\ ui.timers \in Nat
    BY <1>1, NoneIsNoCall DEF Knows, Base, TypeOK, View
  <2>2. \E c \in Record : Submitting(c) /\ calls'[s] = c
    <3>1. ASSUME NEW c, Sends(c) PROVE calls'[s] = c
      BY <2>1, <3>1 DEF Sends
    <3>2. ASSUME NEW n \in Slots, NEW next, NEW told, Ends(n, next, told) PROVE FALSE
      BY <2>1, <3>2 DEF Ends
    <3>3. \A t \in Rows : Loading(t).op = "load"
      BY LoadingType
    <3>4. ~UNCHANGED calls
      OBVIOUS
    <3>5. CASE Shape
      <4>1. ~(\/ Entering \/ Spoiling \/ Emptying \/ SheetCloses \/ Forgetting \/ DialogCloses)
        BY <3>4 DEF Entering, Spoiling, Emptying, SheetCloses, Forgetting, DialogCloses
      <4>2. ~UserCloses
        BY <3>1, <3>3, FormAssumption DEF UserCloses, Rows
      <4>3. \A t \in Rows : ~Reopening(t) /\ ~Fetching(t)
        BY <3>1, <3>3, <3>4 DEF Reopening, Fetching
      <4>4. \A t \in Rows : ~Visiting(t)
        BY <2>1, <3>3, VisitCalls
      <4>5. \A n \in Slots : ~(\/ Loads(n) \/ DialogLoads(n) \/ PageSaves(n) \/ SheetSaves(n)
                               \/ TokenGoesOn(n) \/ TokenSaves(n) \/ UserSaves(n)
                               \/ DialogSaves(n))
        BY <3>2 DEF Loads, DialogLoads, PageSaves, SheetSaves, TokenGoesOn, TokenSaves,
           UserSaves, DialogSaves, Saves
      <4>6. \E c \in Record : Submitting(c)
        BY <3>5, <4>1, <4>2, <4>3, <4>4, <4>5 DEF Shape
      <4>7. PICK c \in Record : Submitting(c)
        BY <4>6
      <4>8. Sends(c)
        BY <4>7 DEF Submitting
      <4> QED
        BY <3>1, <4>7, <4>8
    <3>6. CASE UNCHANGED vars \/ Foreign
      BY <2>1, <3>4, <3>6, ForeignEffect DEF vars
    <3>7. ASSUME NEW n \in Slots, Serve(n) PROVE FALSE
      BY <2>1, <3>7, ServeEffect
    <3>8. ASSUME NEW n \in Slots, Lost(n) PROVE FALSE
      BY <2>1, <3>8, LostEffect
    <3> QED
      BY <2>1, <3>5, <3>6, <3>7, <3>8, StepShapes
  <2>3. PICK c \in Record : Submitting(c) /\ calls'[s] = c
    BY <2>2
  <2>4. /\ UNCHANGED form /\ hist'.blind = hist.blind /\ hist'.refused = hist.refused
        /\ hist'.hurried <=> (hist.hurried \/ ~Quiet \/ ui.timers > 0)
        /\ ui.open /\ c.id = ui.target /\ c.of = ui.inputs.of
    BY <2>3 DEF Submitting, Goes, Acts, Asks
  <2>5. /\ form \in DefaultForms \/ (~hist.hurried /\ Quiet)
        /\ ~hist.blind
        /\ form = "air/token" => ~hist.refused
    BY <2>4 DEF Careful
  <2>6. form \in BerryForms => (c.put <=> ui.target # 0) \/ (c.put <=> ui.inputs.of # 0)
    BY <2>3 DEF Submitting, Asks
  <2>7. form \notin BerryForms => (c.put <=> ui.target # 0)
    <3>1. form \notin BerryForms => (c.put <=> ui.isEdit \/ form = "air/user")
      BY <2>3 DEF Submitting, Asks
    <3> QED
      BY <2>1, <2>4, <3>1 DEF Sane
  <2>8. ui.inputs.of = ui.target
    <3>1. CASE form \in DefaultForms
      <4>1. form = "default/adduser" => ui.target = 0
        BY <2>1 DEF Sane
      <4>2. form # "default/adduser" => ~ui.loading
        BY <2>3, <3>1 DEF Submitting
      <4> QED
        BY <2>1, <2>5, <3>1, <4>1, <4>2 DEF PageKnows
    <3>2. CASE form \notin DefaultForms
      <4>1. \A x \in Slots : ~IsLoad(calls[x])
        BY <2>5, <3>2 DEF Quiet, InFlight, IsLoad
      <4>2. NewIsOfNone /\ RowIsThere
        BY <2>1, <2>5, <3>2 DEF SheetKnows, Waits
      <4>3. form = "air/user" => ui.target # 0
        BY <2>1, <2>4 DEF Sane
      <4> QED
        BY <2>4, <2>5, <4>1, <4>2, <4>3 DEF NewIsOfNone, RowIsThere
    <3> QED
      BY <3>1, <3>2
  <2> QED
    BY <2>3, <2>4, <2>6, <2>7, <2>8
<1>2. Knows /\ [Next]_vars => [Right]_vars
  BY <1>1
<1>3. [][Right]_vars => RightTarget
  BY DEF RightTarget
<1> QED
  BY <1>2, <1>3, FormKnows, PTL DEF Spec

=============================================================================
