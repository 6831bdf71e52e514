--------------------------- MODULE DefinitionsProofs ---------------------------
(***************************************************************************)
(* Theorems about Definitions, for every value of its constants.           *)
(***************************************************************************)
EXTENDS Definitions, FiniteSetTheorems, SequenceTheorems, WellFoundedInduction, TLAPS

-----------------------------------------------------------------------------
(* Numbers.                                                                *)

(* A set of numbers that is not empty has a least element.                 *)
LEMMA LeastExists ==
  ASSUME NEW T, T \subseteq Nat, T # {}
  PROVE  \E m \in T : \A k \in T : m <= k
<1> DEFINE R == OpToRel(<, Nat)
<1>1. IsWellFoundedOn(R, Nat)
  BY NatLessThanWellFounded
<1>2. \A x, y \in Nat : x < y => <<x, y>> \in R
  BY DEF OpToRel
<1> HIDE DEF R
<1>3. PICK m \in T : \A y \in T : ~(<<y, m>> \in R)
  BY <1>1, WFMin
<1>4. \A k \in T : ~(k < m)
  BY <1>2, <1>3
<1> QED
  BY <1>4

(* A set that holds 0 and the successor of each of its elements below n    *)
(* holds every number up to n.                                             *)
LEMMA InductionTo ==
  ASSUME NEW n \in Nat, NEW S, 0 \in S, \A m \in 0..n : m \in S /\ m < n => m + 1 \in S
  PROVE  \A m \in 0..n : m \in S
<1> DEFINE T == {m \in 0..n : m \notin S}
<1> SUFFICES ASSUME T # {}
             PROVE  FALSE
  OBVIOUS
<1>1. T \subseteq Nat
  OBVIOUS
<1>2. PICK m \in T : \A k \in T : m <= k
  <2> HIDE DEF T
  <2> QED
    BY <1>1, LeastExists
<1>3. m # 0 /\ m - 1 \in 0..n /\ m - 1 \notin T
  BY <1>2
<1>4. m - 1 \in S /\ m - 1 < n /\ (m - 1) + 1 = m
  BY <1>3
<1> QED
  BY <1>3, <1>4

(* A set of positions has a last one.                                      *)
LEMMA MaxOf ==
  ASSUME NEW n \in Nat, NEW t, t \subseteq 1..n, t # {}
  PROVE  Max(t) \in t /\ \A y \in t : y <= Max(t)
<1> DEFINE T == {n - x : x \in t}
<1>1. T \subseteq Nat /\ T # {}
  <2>1. \A x \in t : x \in 1..n
    OBVIOUS
  <2>2. \A x \in 1..n : n - x \in Nat
    OBVIOUS
  <2>3. PICK x \in t : TRUE
    OBVIOUS
  <2>4. n - x \in T
    OBVIOUS
  <2> QED
    BY <2>1, <2>2, <2>4
<1>2. PICK m \in T : \A k \in T : m <= k
  <2> HIDE DEF T
  <2> QED
    BY <1>1, LeastExists
<1>3. PICK x \in t : m = n - x
  BY <1>2
<1>4. \A y \in t : x >= y
  <2> SUFFICES ASSUME NEW y \in t
               PROVE  x >= y
    OBVIOUS
  <2>1. n - y \in T
    OBVIOUS
  <2>2. n - x <= n - y
    BY <1>2, <1>3, <2>1
  <2>3. x \in Nat /\ y \in Nat
    OBVIOUS
  <2> QED
    BY <2>2, <2>3
<1>5. Max(t) \in t /\ \A y \in t : Max(t) >= y
  BY <1>3, <1>4 DEF Max
<1> QED
  BY <1>5

(* The last position of a prefix, and the prefix before it.                *)
LEMMA PrefixMax ==
  ASSUME NEW k \in Nat \ {0}
  PROVE  Max(1..k) = k /\ (1..k) \ {k} = 1..(k - 1)
<1>1. k \in 1..k
  OBVIOUS
<1>2. Max(1..k) \in 1..k /\ \A y \in 1..k : y <= Max(1..k)
  <2>1. k \in Nat /\ 1..k \subseteq 1..k /\ 1..k # {}
    BY <1>1
  <2> HIDE <1>1
  <2> QED
    BY <2>1, MaxOf
<1> QED
  BY <1>1, <1>2

-----------------------------------------------------------------------------
(* Folds.  FoldLeft takes the last position of a set first; its values on  *)
(* the sets 1..k are the steps of the fold.                                *)

(* it is the function by which the community modules define a fold.        *)
IsFold(it, f, b, s, n) ==
  it = [t \in SUBSET (1..n) |->
          IF t = {} THEN b ELSE f[<<s[Max(t)], it[t \ {Max(t)}]>>]]

(* Without its last position, a set of positions is one of a shorter       *)
(* sequence.                                                               *)
LEMMA LastTaken ==
  ASSUME NEW m \in Nat, NEW t \in SUBSET (1..(m + 1)), t # {}
  PROVE  Max(t) \in t /\ t \ {Max(t)} \subseteq 1..m
<1>1. m + 1 \in Nat /\ \A y \in 1..(m + 1) : y \in 1..m \/ y = m + 1
  OBVIOUS
<1>2. Max(t) \in t /\ \A y \in t : y <= Max(t)
  BY <1>1, MaxOf
<1>3. CASE Max(t) = m + 1
  BY <1>1, <1>2, <1>3
<1>4. CASE Max(t) \in 1..m
  <2>1. m + 1 \notin t
    BY <1>1, <1>2, <1>4
  <2> QED
    BY <1>1, <1>2, <2>1
<1> QED
  BY <1>1, <1>2, <1>3, <1>4

(* That function exists: it is built one position at a time.               *)
LEMMA FoldDefined ==
  ASSUME NEW n \in Nat, NEW f, NEW b, NEW s
  PROVE  \E it : IsFold(it, f, b, s, n)
<1> DEFINE Eq(it, t) == IF t = {} THEN b ELSE f[<<s[Max(t)], it[t \ {Max(t)}]>>]
           S == {m \in 0..n : \E it : \A t \in SUBSET (1..m) : it[t] = Eq(it, t)}
<1>1. 0 \in S
  <2> DEFINE it == [t \in {{}} |-> b]
  <2>1. \A t \in SUBSET (1..0) : t = {}
    OBVIOUS
  <2>2. it[{}] = b
    OBVIOUS
  <2> HIDE DEF it
  <2>3. \A t \in SUBSET (1..0) : it[t] = Eq(it, t)
    BY <2>1, <2>2
  <2>4. 0 \in 0..n
    OBVIOUS
  <2> QED
    BY <2>3, <2>4
<1>2. ASSUME NEW m \in 0..n, m \in S, m < n
      PROVE  m + 1 \in S
  <2>1. PICK it : \A t \in SUBSET (1..m) : it[t] = Eq(it, t)
    BY <1>2
  <2>2. m \in Nat /\ m + 1 \in 0..n /\ 1..m \subseteq 1..(m + 1)
    BY <1>2
  <2> DEFINE jt == [t \in SUBSET (1..(m + 1)) |-> IF t \subseteq 1..m THEN it[t] ELSE Eq(it, t)]
  <2>3. \A t \in SUBSET (1..(m + 1)) : t # {} => Max(t) \in t /\ t \ {Max(t)} \subseteq 1..m
    BY <2>2, LastTaken
  <2>4. \A t \in SUBSET (1..m) : t \in SUBSET (1..(m + 1))
    BY <2>2
  <2>5. \A t \in SUBSET (1..m) : jt[t] = it[t]
    BY <2>4
  <2>6. \A t \in SUBSET (1..(m + 1)) : jt[t] = Eq(it, t)
    BY <2>1, <2>5
  <2> HIDE DEF jt
  <2>7. \A t \in SUBSET (1..(m + 1)) : Eq(jt, t) = Eq(it, t)
    BY <2>3, <2>5
  <2>8. \A t \in SUBSET (1..(m + 1)) : jt[t] = Eq(jt, t)
    BY <2>6, <2>7
  <2> QED
    BY <2>2, <2>8
<1>3. n \in S
  <2> HIDE DEF S
  <2>1. \A m \in 0..n : m \in S
    BY <1>1, <1>2, InductionTo
  <2>2. n \in 0..n
    OBVIOUS
  <2> QED
    BY <2>1, <2>2
<1>4. PICK it : \A t \in SUBSET (1..n) : it[t] = Eq(it, t)
  BY <1>3
<1> DEFINE jt == [t \in SUBSET (1..n) |-> it[t]]
<1>5. \A t \in SUBSET (1..n) : jt[t] = it[t] /\ t \ {Max(t)} \in SUBSET (1..n)
  OBVIOUS
<1>6. jt = [t \in SUBSET (1..n) |-> Eq(it, t)]
  BY <1>4
<1> HIDE DEF jt
<1>7. \A t \in SUBSET (1..n) : Eq(it, t) = Eq(jt, t)
  BY <1>5
<1>8. jt = [t \in SUBSET (1..n) |-> Eq(jt, t)]
  BY <1>6, <1>7
<1> QED
  BY <1>8 DEF IsFold

(* A state passed along a sequence, and P the states on the way.           *)
Threaded(f, b, s) == FoldLeft(LAMBDA r, x : f[<<x, r>>], b, s)
Threads(P, f, b, s) == P[0] = b /\ \A k \in 1..Len(s) : P[k] = f[<<s[k], P[k - 1]>>]

(* FoldLeft computes the last of these states.                             *)
LEMMA ThreadedSteps ==
  ASSUME NEW X, NEW s \in Seq(X), NEW f, NEW b
  PROVE  \E P : Threads(P, f, b, s) /\ Threaded(f, b, s) = P[Len(s)]
<1> PICK n \in Nat : n = Len(s) /\ DOMAIN s = 1..n
  BY LenProperties
<1> DEFINE Is(it) == it = [t \in SUBSET DOMAIN s |->
                             IF t = {} THEN b ELSE f[<<s[Max(t)], it[t \ {Max(t)}]>>]]
           it == CHOOSE it : Is(it)
<1>1. \E fold : Is(fold)
  <2>1. \E fold : IsFold(fold, f, b, s, n)
    BY FoldDefined
  <2> QED
    BY <2>1 DEF IsFold
<1>2. Is(it)
  BY <1>1
<1>3. Threaded(f, b, s) = it[1..n]
  BY DEF Threaded, FoldLeft, MapThenFoldSet
<1> HIDE DEF it
<1> DEFINE P == [k \in 0..n |-> it[1..k]]
<1>4. \A t \in SUBSET (1..n) : it[t] = IF t = {} THEN b ELSE f[<<s[Max(t)], it[t \ {Max(t)}]>>]
  BY <1>2
<1>5. P[0] = b
  <2>1. P[0] = it[1..0] /\ 1..0 = {}
    OBVIOUS
  <2>2. it[{}] = b
    BY <1>4
  <2> QED
    BY <2>1, <2>2
<1>6. ASSUME NEW k \in 1..n
       PROVE  P[k] = f[<<s[k], P[k - 1]>>]
  <2>1. k \in Nat \ {0} /\ k \in 0..n /\ k - 1 \in 0..n
    OBVIOUS
  <2>2. k \in 1..k /\ \A i \in 1..k : i \in 1..n
    BY <2>1
  <2>3. 1..k \in SUBSET (1..n) /\ 1..k # {}
    BY <2>2
  <2>4. Max(1..k) = k /\ (1..k) \ {k} = 1..(k - 1)
    BY <2>1, PrefixMax
  <2>5. it[1..k] = f[<<s[k], it[1..(k - 1)]>>]
    BY <1>4, <2>3, <2>4
  <2> QED
    BY <2>1, <2>5
<1>7. P[n] = it[1..n]
  <2>1. n \in 0..n
    OBVIOUS
  <2> QED
    BY <2>1
<1> QED
  BY <1>3, <1>5, <1>6, <1>7 DEF Threads

-----------------------------------------------------------------------------
(* The closure visit.  It is defined by recursion on the number of tasks   *)
(* that are not coloured yet.                                              *)

(* The states of the search; the tasks of a colour; how many have none     *)
(* yet; a DAG whose dependencies are tasks of it.                          *)
Coloured(d) == [colour : [Ids(d) -> 0..2], cyclic : BOOLEAN]
Painted(d, s, c) == {x \in Ids(d) : s.colour[x] = c}
White(d, s) == Cardinality(Painted(d, s, 0))
Wired(d) == IsFiniteSet(Ids(d)) /\ \A id \in Ids(d) : DependsOn(d, id) \in Seq(Ids(d))

(* What a visit of id returns, if f is the visit of its dependencies.      *)
Visited(d, f, id, s) ==
  IF s.cyclic \/ s.colour[id] = 2 THEN s
  ELSE IF s.colour[id] = 1 THEN [s EXCEPT !.cyclic = TRUE]
  ELSE [Threaded(f, [s EXCEPT !.colour[id] = 1], DependsOn(d, id)) EXCEPT !.colour[id] = 2]

(* f is the visit of states with fewer than m uncoloured tasks; it colours *)
(* and never washes off.                                                   *)
Visits(d, f, m) == \A id \in Ids(d), s \in Coloured(d) :
  White(d, s) < m => f[<<id, s>>] = Visited(d, f, id, s)
Colours(d, f, m) == \A id \in Ids(d), s \in Coloured(d) :
  White(d, s) < m => f[<<id, s>>] \in Coloured(d) /\ White(d, f[<<id, s>>]) <= White(d, s)

(* The recursive function that the model defines is a choice among those   *)
(* that satisfy its equation.                                              *)
LEMMA VisitChosen ==
  ASSUME NEW d
  PROVE  Visit(d) = CHOOSE f : f = [x \in Ids(d) \X Coloured(d) |-> Visited(d, f, x[1], x[2])]
  BY DEF Visit, Visited, Threaded, Coloured

(* The uncoloured tasks can be counted.                                    *)
LEMMA Counted ==
  ASSUME NEW d, Wired(d), NEW s
  PROVE  White(d, s) \in Nat /\ White(d, s) <= Cardinality(Ids(d)) /\ Cardinality(Ids(d)) \in Nat
<1>1. Painted(d, s, 0) \subseteq Ids(d) /\ IsFiniteSet(Ids(d))
  BY DEF Painted, Wired
<1> QED
  BY <1>1, FS_Subset, FS_CardinalityType DEF White

(* Colouring a task leaves the others, and at most as many uncoloured.     *)
LEMMA Paints ==
  ASSUME NEW d, Wired(d), NEW id \in Ids(d), NEW s \in Coloured(d), NEW c \in 1..2,
         NEW t, t = [s EXCEPT !.colour[id] = c]
  PROVE  /\ t \in Coloured(d) /\ t.cyclic = s.cyclic /\ t.colour[id] = c
         /\ \A x \in Ids(d) \ {id} : t.colour[x] = s.colour[x]
         /\ White(d, t) <= White(d, s)
         /\ s.colour[id] = 0 => White(d, t) < White(d, s)
<1>1. s.colour \in [Ids(d) -> 0..2] /\ s.cyclic \in BOOLEAN
      /\ s = [colour |-> s.colour, cyclic |-> s.cyclic]
  BY DEF Coloured
<1>2. t = [colour |-> [s.colour EXCEPT ![id] = c], cyclic |-> s.cyclic]
  BY <1>1
<1>3. /\ t \in Coloured(d) /\ t.cyclic = s.cyclic /\ t.colour[id] = c
      /\ \A x \in Ids(d) \ {id} : t.colour[x] = s.colour[x]
  BY <1>1, <1>2 DEF Coloured
<1>4. c # 0
  OBVIOUS
<1>5. Painted(d, t, 0) = Painted(d, s, 0) \ {id}
  BY <1>3, <1>4 DEF Painted
<1>6. IsFiniteSet(Painted(d, s, 0))
  BY FS_Subset DEF Painted, Wired
<1>7. White(d, t) = White(d, s) - (IF id \in Painted(d, s, 0) THEN 1 ELSE 0)
  <2> PICK A : A = Painted(d, s, 0)
    OBVIOUS
  <2>1. Cardinality(A \ {id}) = IF id \in A THEN Cardinality(A) - 1 ELSE Cardinality(A)
    BY <1>6, FS_RemoveElement
  <2>2. Cardinality(A) \in Nat
    BY <1>6, FS_CardinalityType
  <2>3. White(d, t) = Cardinality(A \ {id}) /\ White(d, s) = Cardinality(A)
    BY <1>5 DEF White
  <2> QED
    BY <2>1, <2>2, <2>3
<1>8. White(d, s) \in Nat
  BY Counted
<1>9. s.colour[id] = 0 => id \in Painted(d, s, 0)
  BY DEF Painted
<1> QED
  BY <1>3, <1>7, <1>8, <1>9

(* Visiting tasks one after the other never uncolours one.                 *)
LEMMA ThreadColours ==
  ASSUME NEW d, Wired(d), NEW m \in Nat, NEW f, Colours(d, f, m),
         NEW b \in Coloured(d), White(d, b) < m, NEW q \in Seq(Ids(d)), NEW P, Threads(P, f, b, q)
  PROVE  \A k \in 0..Len(q) : P[k] \in Coloured(d) /\ White(d, P[k]) <= White(d, b)
<1> PICK n \in Nat : n = Len(q)
  BY LenProperties
<1> DEFINE S == {k \in 0..n : P[k] \in Coloured(d) /\ White(d, P[k]) <= White(d, b)}
<1>1. 0 \in S
  <2>1. P[0] = b /\ 0 \in 0..n
    BY DEF Threads
  <2>2. White(d, b) <= White(d, b)
    BY Counted
  <2> QED
    BY <2>1, <2>2
<1>2. ASSUME NEW k \in 0..n, k \in S, k < n
      PROVE  k + 1 \in S
  <2>1. k + 1 \in 1..n /\ k + 1 \in 0..n /\ (k + 1) - 1 = k
    BY <1>2
  <2>2. P[k + 1] = f[<<q[k + 1], P[k]>>] /\ q[k + 1] \in Ids(d)
    BY <2>1 DEF Threads
  <2>3. P[k] \in Coloured(d) /\ White(d, P[k]) <= White(d, b)
    BY <1>2
  <2>4. White(d, P[k]) \in Nat /\ White(d, b) \in Nat /\ White(d, P[k + 1]) \in Nat
    BY Counted
  <2>5. White(d, P[k]) < m
    BY <2>3, <2>4
  <2>6. P[k + 1] \in Coloured(d) /\ White(d, P[k + 1]) <= White(d, P[k])
    BY <2>2, <2>3, <2>5 DEF Colours
  <2> QED
    BY <2>1, <2>3, <2>4, <2>6
<1>3. \A k \in 0..n : k \in S
  <2> HIDE DEF S
  <2> QED
    BY <1>1, <1>2, InductionTo
<1> QED
  BY <1>3

(* Such a row of visits asks only for visits of states with fewer          *)
(* uncoloured tasks.                                                       *)
LEMMA ThreadsAgree ==
  ASSUME NEW d, Wired(d), NEW m \in Nat, NEW f, Colours(d, f, m), NEW g,
         \A id \in Ids(d), s \in Coloured(d) : White(d, s) < m => g[<<id, s>>] = f[<<id, s>>],
         NEW b \in Coloured(d), White(d, b) < m, NEW q \in Seq(Ids(d))
  PROVE  Threaded(g, b, q) = Threaded(f, b, q)
<1> PICK n \in Nat : n = Len(q)
  BY LenProperties
<1>1. PICK P : Threads(P, f, b, q) /\ Threaded(f, b, q) = P[n]
  BY ThreadedSteps
<1>2. PICK Q : Threads(Q, g, b, q) /\ Threaded(g, b, q) = Q[n]
  BY ThreadedSteps
<1> DEFINE S == {k \in 0..n : Q[k] = P[k]}
<1>3. 0 \in S
  <2>1. 0 \in 0..n
    OBVIOUS
  <2> QED
    BY <1>1, <1>2, <2>1 DEF Threads
<1>4. ASSUME NEW k \in 0..n, k \in S, k < n
      PROVE  k + 1 \in S
  <2>1. k + 1 \in 1..n /\ k + 1 \in 0..n /\ (k + 1) - 1 = k
    BY <1>4
  <2>2. /\ P[k + 1] = f[<<q[k + 1], P[k]>>] /\ q[k + 1] \in Ids(d)
        /\ Q[k + 1] = g[<<q[k + 1], P[k]>>]
    BY <1>1, <1>2, <1>4, <2>1 DEF Threads
  <2>3. P[k] \in Coloured(d) /\ White(d, P[k]) <= White(d, b)
    BY <1>1, ThreadColours
  <2>4. White(d, P[k]) \in Nat /\ White(d, b) \in Nat
    BY Counted
  <2>5. White(d, P[k]) < m
    BY <2>3, <2>4
  <2> QED
    BY <2>1, <2>2, <2>3, <2>5
<1>5. \A k \in 0..n : k \in S
  <2> HIDE DEF S
  <2> QED
    BY <1>3, <1>4, InductionTo
<1>6. n \in 0..n
  OBVIOUS
<1> QED
  BY <1>1, <1>2, <1>5, <1>6

(* Visits that agree on those states agree on the next larger ones.        *)
LEMMA VisitedAgrees ==
  ASSUME NEW d, Wired(d), NEW m \in Nat, NEW f, Colours(d, f, m), NEW g,
         \A id \in Ids(d), s \in Coloured(d) : White(d, s) < m => g[<<id, s>>] = f[<<id, s>>],
         NEW id \in Ids(d), NEW s \in Coloured(d), White(d, s) < m + 1
  PROVE  Visited(d, g, id, s) = Visited(d, f, id, s)
<1>1. CASE s.colour[id] # 0
  <2>1. s.colour[id] \in {1, 2}
    BY <1>1 DEF Coloured
  <2> QED
    BY <2>1 DEF Visited
<1>2. CASE s.colour[id] = 0
  <2> PICK b : b = [s EXCEPT !.colour[id] = 1]
    OBVIOUS
  <2>1. b \in Coloured(d) /\ White(d, b) < White(d, s)
    BY <1>2, Paints
  <2>2. White(d, b) \in Nat /\ White(d, s) \in Nat
    BY Counted
  <2>3. White(d, b) < m
    BY <2>1, <2>2
  <2>4. DependsOn(d, id) \in Seq(Ids(d))
    BY DEF Wired
  <2>5. Threaded(g, b, DependsOn(d, id)) = Threaded(f, b, DependsOn(d, id))
    BY <2>1, <2>3, <2>4, ThreadsAgree
  <2> QED
    BY <2>5 DEF Visited
<1> QED
  BY <1>1, <1>2

(* A visit leaves a state of the search with at most as many uncoloured    *)
(* tasks.                                                                  *)
LEMMA VisitedColours ==
  ASSUME NEW d, Wired(d), NEW m \in Nat, NEW f, Colours(d, f, m),
         NEW id \in Ids(d), NEW s \in Coloured(d), White(d, s) < m + 1
  PROVE  Visited(d, f, id, s) \in Coloured(d) /\ White(d, Visited(d, f, id, s)) <= White(d, s)
<1> PICK t : t = Visited(d, f, id, s)
  OBVIOUS
<1>1. White(d, s) \in Nat
  BY Counted
<1>2. CASE s.cyclic \/ s.colour[id] = 2
  BY <1>1, <1>2 DEF Visited
<1>3. CASE ~s.cyclic /\ s.colour[id] = 1
  <2>1. t = [s EXCEPT !.cyclic = TRUE]
    BY <1>3 DEF Visited
  <2>2. t \in Coloured(d) /\ t.colour = s.colour
    BY <2>1 DEF Coloured
  <2>3. White(d, t) = White(d, s)
    BY <2>2 DEF White, Painted
  <2> QED
    BY <1>1, <2>2, <2>3
<1>4. CASE ~s.cyclic /\ s.colour[id] = 0
  <2> PICK b : b = [s EXCEPT !.colour[id] = 1]
    OBVIOUS
  <2>1. b \in Coloured(d) /\ White(d, b) < White(d, s)
    BY <1>4, Paints
  <2>2. White(d, b) \in Nat
    BY Counted
  <2>3. White(d, b) < m
    BY <1>1, <2>1, <2>2
  <2> PICK q \in Seq(Ids(d)) : q = DependsOn(d, id)
    BY DEF Wired
  <2> PICK n \in Nat : n = Len(q)
    BY LenProperties
  <2>4. PICK P : Threads(P, f, b, q) /\ Threaded(f, b, q) = P[n]
    BY ThreadedSteps
  <2> PICK r : r = P[n]
    OBVIOUS
  <2>5. r \in Coloured(d) /\ White(d, r) <= White(d, b)
    <3>1. n \in 0..n
      OBVIOUS
    <3> QED
      BY <2>1, <2>3, <2>4, <3>1, ThreadColours
  <2>6. t = [r EXCEPT !.colour[id] = 2]
    <3>1. t = [Threaded(f, b, q) EXCEPT !.colour[id] = 2]
      BY <1>4 DEF Visited
    <3> QED
      BY <2>4, <3>1
  <2>7. t \in Coloured(d) /\ White(d, t) <= White(d, r)
    BY <2>5, <2>6, Paints
  <2>8. White(d, t) \in Nat /\ White(d, r) \in Nat
    BY Counted
  <2> QED
    BY <1>1, <2>1, <2>2, <2>5, <2>7, <2>8
<1>5. s.colour[id] \in 0..2
  BY DEF Coloured
<1> QED
  BY <1>2, <1>3, <1>4, <1>5

(* So do all visits, by induction on the uncoloured tasks.                 *)
LEMMA VisitsColour ==
  ASSUME NEW d, Wired(d), NEW m \in Nat, NEW f, Visits(d, f, m)
  PROVE  Colours(d, f, m)
<1> DEFINE S == {k \in 0..m : Colours(d, f, k)}
<1>1. 0 \in S
  <2>1. Colours(d, f, 0)
    <3> SUFFICES ASSUME NEW id \in Ids(d), NEW s \in Coloured(d), White(d, s) < 0
                 PROVE  FALSE
      BY DEF Colours
    <3> QED
      BY Counted
  <2> QED
    BY <2>1
<1>2. ASSUME NEW k \in 0..m, k \in S, k < m
      PROVE  k + 1 \in S
  <2>1. Colours(d, f, k) /\ k \in Nat
    BY <1>2
  <2>2. ASSUME NEW id \in Ids(d), NEW s \in Coloured(d), White(d, s) < k + 1
        PROVE  f[<<id, s>>] \in Coloured(d) /\ White(d, f[<<id, s>>]) <= White(d, s)
    <3>1. White(d, s) \in Nat
      BY Counted
    <3>2. White(d, s) < m
      BY <1>2, <2>2, <3>1
    <3>3. f[<<id, s>>] = Visited(d, f, id, s)
      BY <3>2 DEF Visits
    <3> QED
      BY <2>1, <2>2, <3>3, VisitedColours
  <2>3. Colours(d, f, k + 1)
    BY <2>2 DEF Colours
  <2> QED
    BY <1>2, <2>3
<1>3. \A k \in 0..m : k \in S
  <2> HIDE DEF S
  <2> QED
    BY <1>1, <1>2, InductionTo
<1> QED
  BY <1>3

(* There is a function that satisfies the equation of the visit: it is     *)
(* built for ever more uncoloured tasks.                                   *)
LEMMA VisitExists ==
  ASSUME NEW d, Wired(d)
  PROVE  \E f : f = [x \in Ids(d) \X Coloured(d) |-> Visited(d, f, x[1], x[2])]
<1> PICK n \in Nat : n = Cardinality(Ids(d)) + 1
  BY Counted
<1> DEFINE S == {m \in 0..n : \E f : Visits(d, f, m)}
<1>1. 0 \in S
  <2>1. Visits(d, 0, 0)
    <3> SUFFICES ASSUME NEW id \in Ids(d), NEW s \in Coloured(d), White(d, s) < 0
                 PROVE  FALSE
      BY DEF Visits
    <3> QED
      BY Counted
  <2> QED
    BY <2>1
<1>2. ASSUME NEW m \in 0..n, m \in S, m < n
      PROVE  m + 1 \in S
  <2>1. PICK f : Visits(d, f, m)
    BY <1>2
  <2>2. m \in Nat /\ Colours(d, f, m)
    BY <2>1, VisitsColour
  <2> DEFINE g == [x \in Ids(d) \X Coloured(d) |->
                     IF White(d, x[2]) < m THEN f[x] ELSE Visited(d, f, x[1], x[2])]
  <2>3. ASSUME NEW id \in Ids(d), NEW s \in Coloured(d)
        PROVE  g[<<id, s>>] = IF White(d, s) < m THEN f[<<id, s>>] ELSE Visited(d, f, id, s)
    OBVIOUS
  <2> HIDE DEF g
  <2>4. ASSUME NEW id \in Ids(d), NEW s \in Coloured(d), White(d, s) < m + 1
        PROVE  g[<<id, s>>] = Visited(d, g, id, s)
    <3>1. Visited(d, g, id, s) = Visited(d, f, id, s)
      BY <2>2, <2>3, <2>4, VisitedAgrees
    <3>2. White(d, s) < m => f[<<id, s>>] = Visited(d, f, id, s)
      BY <2>1 DEF Visits
    <3> QED
      BY <2>3, <3>1, <3>2
  <2>5. Visits(d, g, m + 1)
    BY <2>4 DEF Visits
  <2> QED
    BY <1>2, <2>5
<1>3. \A m \in 0..n : m \in S
  <2> HIDE DEF S
  <2> QED
    BY <1>1, <1>2, InductionTo
<1>4. PICK f : Visits(d, f, n)
  <2>1. n \in 0..n
    OBVIOUS
  <2> QED
    BY <1>3, <2>1
<1>5. Colours(d, f, n)
  BY <1>4, VisitsColour
<1> DEFINE h == [x \in Ids(d) \X Coloured(d) |-> f[x]]
<1>6. \A id \in Ids(d), s \in Coloured(d) : White(d, s) < n
  <2> SUFFICES ASSUME NEW s PROVE White(d, s) < n
    OBVIOUS
  <2> QED
    BY Counted
<1>7. \A id \in Ids(d), s \in Coloured(d) : h[<<id, s>>] = f[<<id, s>>]
  OBVIOUS
<1> PICK g : g = h
  OBVIOUS
<1>8. ASSUME NEW id \in Ids(d), NEW s \in Coloured(d)
      PROVE  f[<<id, s>>] = Visited(d, g, id, s)
  <2>1. White(d, s) < n + 1
    <3>1. White(d, s) < n
      BY <1>6
    <3>2. White(d, s) \in Nat
      BY Counted
    <3> QED
      BY <3>1, <3>2
  <2>2. \A i \in Ids(d), r \in Coloured(d) : White(d, r) < n => g[<<i, r>>] = f[<<i, r>>]
    BY <1>7
  <2> HIDE DEF h
  <2>3. Visited(d, g, id, s) = Visited(d, f, id, s)
    BY <1>5, <2>1, <2>2, VisitedAgrees
  <2> QED
    BY <1>4, <1>6, <2>3 DEF Visits
<1>9. \A x \in Ids(d) \X Coloured(d) : f[x] = Visited(d, g, x[1], x[2])
  <2> SUFFICES ASSUME NEW x \in Ids(d) \X Coloured(d)
               PROVE  f[x] = Visited(d, g, x[1], x[2])
    OBVIOUS
  <2>1. x = <<x[1], x[2]>> /\ x[1] \in Ids(d) /\ x[2] \in Coloured(d)
    OBVIOUS
  <2> HIDE DEF h
  <2> QED
    BY <1>8, <2>1
<1>10. g = [x \in Ids(d) \X Coloured(d) |-> Visited(d, g, x[1], x[2])]
  BY <1>9
<1> QED
  BY <1>10

(* So the visit that the model defines satisfies it.                       *)
LEMMA VisitSolves ==
  ASSUME NEW d, Wired(d), NEW m
  PROVE  Visits(d, Visit(d), m)
<1> DEFINE Solves(f) == f = [x \in Ids(d) \X Coloured(d) |-> Visited(d, f, x[1], x[2])]
<1>1. \E f : Solves(f)
  BY VisitExists
<1>2. Visit(d) = CHOOSE f : Solves(f)
  BY VisitChosen
<1>3. Solves(Visit(d))
  <2> HIDE DEF Solves
  <2> QED
    BY <1>1, <1>2
<1> PICK f : f = Visit(d)
  OBVIOUS
<1>4. f = [x \in Ids(d) \X Coloured(d) |-> Visited(d, f, x[1], x[2])]
  BY <1>3
<1>5. \A id \in Ids(d), s \in Coloured(d) : f[<<id, s>>] = Visited(d, f, id, s)
  BY <1>4
<1> QED
  BY <1>5 DEF Visits

-----------------------------------------------------------------------------
(* What the search finds.                                                  *)

(* What a task waits for; sets that hold with a task what it waits for.    *)
Deps(d, id) == Range(DependsOn(d, id))
Closed(d, C) == \A x \in C : Deps(d, x) \subseteq C

(* The dependencies of id, theirs, and so on.                              *)
Below(d, id) ==
  {y \in Ids(d) : \A C \in SUBSET Ids(d) : Deps(d, id) \subseteq C /\ Closed(d, C) => y \in C}

(* Tasks that wait for one another, and tasks of which some one waits for  *)
(* no other, in every choice of them.                                      *)
Stuck(d) == \E S \in SUBSET Ids(d) : S # {} /\ \A x \in S : S \cap Deps(d, x) # {}
Peels(d, B) == \A S \in SUBSET B : S # {} => \E x \in S : S \cap Deps(d, x) = {}

(* The colours are right; a task may be visited; a visit has been made.    *)
Searched(d, s) ==
  IF s.cyclic THEN Stuck(d) ELSE Closed(d, Painted(d, s, 2)) /\ Peels(d, Painted(d, s, 2))
Visitable(d, id, s) == ~s.cyclic => \A x \in Painted(d, s, 1) : id \in Below(d, x)
Followed(d, s, t) ==
  ~t.cyclic => /\ ~s.cyclic
               /\ Painted(d, t, 1) = Painted(d, s, 1)
               /\ Painted(d, s, 2) \subseteq Painted(d, t, 2)
Done(d, id, s, t) == Searched(d, t) /\ Followed(d, s, t) /\ (~t.cyclic => id \in Painted(d, t, 2))

(* f searches rightly from every state with fewer than m uncoloured tasks. *)
Searches(d, f, m) == \A id \in Ids(d), s \in Coloured(d) :
  White(d, s) < m /\ Searched(d, s) /\ Visitable(d, id, s) => Done(d, id, s, f[<<id, s>>])

(* Dependencies are tasks of the DAG.                                      *)
LEMMA DepsAreIds ==
  ASSUME NEW d, Wired(d), NEW id \in Ids(d)
  PROVE  Deps(d, id) \subseteq Ids(d)
<1> PICK q \in Seq(Ids(d)) : q = DependsOn(d, id)
  BY DEF Wired
<1>1. \A i \in DOMAIN q : q[i] \in Ids(d)
  OBVIOUS
<1> QED
  BY <1>1 DEF Deps, Range

(* What is below a task is closed under dependencies.                      *)
LEMMA BelowGrows ==
  ASSUME NEW d, Wired(d), NEW x \in Ids(d)
  PROVE  Deps(d, x) \subseteq Below(d, x) /\ \A y \in Below(d, x) : Deps(d, y) \subseteq Below(d, x)
<1>1. Deps(d, x) \subseteq Below(d, x)
  BY DepsAreIds DEF Below
<1>2. ASSUME NEW y \in Below(d, x)
      PROVE  Deps(d, y) \subseteq Below(d, x)
  <2>1. Deps(d, y) \subseteq Ids(d)
    BY DepsAreIds DEF Below
  <2>2. ASSUME NEW C \in SUBSET Ids(d), Deps(d, x) \subseteq C, Closed(d, C)
        PROVE  Deps(d, y) \subseteq C
    <3>1. y \in C
      BY <2>2 DEF Below
    <3> QED
      BY <2>2, <3>1 DEF Closed
  <2> QED
    BY <2>1, <2>2 DEF Below
<1> QED
  BY <1>1, <1>2

(* What is below a task is a dependency of it or below one.                *)
LEMMA BelowSteps ==
  ASSUME NEW d, Wired(d), NEW x \in Ids(d), NEW y \in Below(d, x)
  PROVE  \E z \in Deps(d, x) : y = z \/ y \in Below(d, z)
<1> DEFINE C == {y1 \in Ids(d) : \E z \in Deps(d, x) : y1 = z \/ y1 \in Below(d, z)}
<1>1. Deps(d, x) \subseteq C
  BY DepsAreIds
<1>2. Closed(d, C)
  <2> SUFFICES ASSUME NEW w \in C
               PROVE  Deps(d, w) \subseteq C
    BY DEF Closed
  <2>1. PICK z \in Deps(d, x) : w = z \/ w \in Below(d, z)
    OBVIOUS
  <2>2. z \in Ids(d) /\ w \in Ids(d)
    BY DepsAreIds
  <2>3. Deps(d, w) \subseteq Below(d, z)
    BY <2>1, <2>2, BelowGrows
  <2>4. Deps(d, w) \subseteq Ids(d)
    BY <2>2, DepsAreIds
  <2> QED
    BY <2>3, <2>4
<1>3. C \in SUBSET Ids(d)
  OBVIOUS
<1>4. y \in C
  <2> HIDE DEF C
  <2> QED
    BY <1>1, <1>2, <1>3 DEF Below
<1> QED
  BY <1>4

(* A task below itself is on a cycle.                                      *)
LEMMA BelowItself ==
  ASSUME NEW d, Wired(d), NEW id \in Ids(d), id \in Below(d, id)
  PROVE  Stuck(d)
<1> DEFINE S == {x \in Ids(d) : id \in Below(d, x)}
<1>1. S \in SUBSET Ids(d) /\ id \in S
  OBVIOUS
<1>2. ASSUME NEW x \in S
      PROVE  S \cap Deps(d, x) # {}
  <2>1. PICK z \in Deps(d, x) : id = z \/ id \in Below(d, z)
    BY BelowSteps
  <2>2. z \in Ids(d)
    BY DepsAreIds
  <2>3. z \in S
    BY <2>1, <2>2
  <2> QED
    BY <2>3
<1> HIDE DEF S
<1> QED
  BY <1>1, <1>2 DEF Stuck

(* A task whose dependencies are black can be painted black.               *)
LEMMA PeelsOneMore ==
  ASSUME NEW d, NEW B, Closed(d, B), Peels(d, B), NEW id, Deps(d, id) \subseteq B, id \notin B
  PROVE  Closed(d, B \cup {id}) /\ Peels(d, B \cup {id})
<1>1. Closed(d, B \cup {id})
  BY DEF Closed
<1>2. ASSUME NEW S \in SUBSET (B \cup {id}), S # {}
      PROVE  \E x \in S : S \cap Deps(d, x) = {}
  <2> DEFINE T == S \cap B
  <2>1. CASE T # {}
    <3>1. PICK x \in T : T \cap Deps(d, x) = {}
      BY <2>1 DEF Peels
    <3>2. Deps(d, x) \subseteq B
      BY DEF Closed
    <3> QED
      BY <3>1, <3>2
  <2>2. CASE T = {}
    <3>1. S = {id}
      BY <1>2, <2>2
    <3> QED
      BY <2>2, <3>1
  <2> QED
    BY <2>1, <2>2
<1> QED
  BY <1>1, <1>2 DEF Peels

(* The visits of a sequence of tasks, one after the other.                 *)
LEMMA ThreadSearches ==
  ASSUME NEW d, Wired(d), NEW m \in Nat, NEW f, Colours(d, f, m), Searches(d, f, m),
         NEW b \in Coloured(d), White(d, b) < m, Searched(d, b), NEW q \in Seq(Ids(d)),
         \A i \in DOMAIN q : Visitable(d, q[i], b), NEW P, Threads(P, f, b, q)
  PROVE  \A k \in 0..Len(q) :
           /\ Searched(d, P[k]) /\ Followed(d, b, P[k])
           /\ ~P[k].cyclic => \A i \in 1..k : q[i] \in Painted(d, P[k], 2)
<1> PICK n \in Nat : n = Len(q) /\ DOMAIN q = 1..n
  BY LenProperties
<1> DEFINE Good(k) == /\ Searched(d, P[k]) /\ Followed(d, b, P[k])
                      /\ ~P[k].cyclic => \A i \in 1..k : q[i] \in Painted(d, P[k], 2)
           S == {k \in 0..n : Good(k)}
<1>1. 0 \in S
  <2>1. P[0] = b /\ 0 \in 0..n /\ 1..0 = {}
    BY DEF Threads
  <2>2. Followed(d, b, b)
    BY DEF Followed
  <2> QED
    BY <2>1, <2>2
<1>2. ASSUME NEW k \in 0..n, k \in S, k < n
      PROVE  k + 1 \in S
  <2>1. k + 1 \in 1..n /\ k + 1 \in 0..n /\ (k + 1) - 1 = k
        /\ \A i \in 1..(k + 1) : i = k + 1 \/ i \in 1..k
    BY <1>2
  <2> PICK s : s = P[k]
    OBVIOUS
  <2> PICK id : id = q[k + 1]
    OBVIOUS
  <2> PICK t : t = P[k + 1]
    OBVIOUS
  <2>2. t = f[<<id, s>>] /\ id \in Ids(d)
    BY <2>1 DEF Threads
  <2>3. s \in Coloured(d) /\ White(d, s) <= White(d, b)
    BY ThreadColours
  <2>4. White(d, s) < m
    <3>1. White(d, s) \in Nat /\ White(d, b) \in Nat
      BY Counted
    <3> QED
      BY <2>3, <3>1
  <2>5. Searched(d, s) /\ Followed(d, b, s) /\ (~s.cyclic => \A i \in 1..k : q[i] \in Painted(d, s, 2))
    BY <1>2
  <2>6. Visitable(d, id, s)
    BY <2>1, <2>5 DEF Visitable, Followed
  <2>7. Done(d, id, s, t)
    BY <2>2, <2>3, <2>4, <2>5, <2>6 DEF Searches
  <2>8. Searched(d, t) /\ Followed(d, b, t)
    BY <2>5, <2>7 DEF Done, Followed
  <2>9. ~t.cyclic => \A i \in 1..(k + 1) : q[i] \in Painted(d, t, 2)
    BY <2>1, <2>5, <2>7 DEF Done, Followed
  <2>10. Good(k + 1)
    BY <2>8, <2>9
  <2> QED
    BY <2>1, <2>10
<1>3. \A k \in 0..n : k \in S
  <2> HIDE DEF S
  <2> QED
    BY <1>1, <1>2, InductionTo
<1> QED
  BY <1>3

(* A visit whose inner visits search rightly does: it finds a cycle or     *)
(* leaves its task black, with everything below it.                        *)
LEMMA VisitedSearches ==
  ASSUME NEW d, Wired(d), NEW m \in Nat, NEW f, Colours(d, f, m), Searches(d, f, m),
         NEW id \in Ids(d), NEW s \in Coloured(d), White(d, s) < m + 1,
         Searched(d, s), Visitable(d, id, s)
  PROVE  Done(d, id, s, Visited(d, f, id, s))
<1> PICK t : t = Visited(d, f, id, s)
  OBVIOUS
<1>1. CASE s.cyclic \/ s.colour[id] = 2
  <2>1. t = s
    BY <1>1 DEF Visited
  <2> QED
    BY <1>1, <2>1 DEF Done, Followed, Painted
<1>2. CASE ~s.cyclic /\ s.colour[id] = 1
  <2>1. t = [s EXCEPT !.cyclic = TRUE]
    BY <1>2 DEF Visited
  <2>2. t.cyclic
    BY <2>1 DEF Coloured
  <2>3. id \in Below(d, id)
    BY <1>2 DEF Visitable, Painted
  <2>4. Stuck(d)
    BY <2>3, BelowItself
  <2> QED
    BY <2>2, <2>4 DEF Done, Followed, Searched
<1>3. CASE ~s.cyclic /\ s.colour[id] = 0
  <2> PICK b : b = [s EXCEPT !.colour[id] = 1]
    OBVIOUS
  <2>1. /\ b \in Coloured(d) /\ ~b.cyclic /\ b.colour[id] = 1 /\ White(d, b) < White(d, s)
        /\ \A x \in Ids(d) \ {id} : b.colour[x] = s.colour[x]
    BY <1>3, Paints
  <2>2. White(d, b) < m
    <3>1. White(d, s) \in Nat /\ White(d, b) \in Nat
      BY Counted
    <3> QED
      BY <2>1, <3>1
  <2>3. /\ Painted(d, b, 1) = Painted(d, s, 1) \cup {id} /\ Painted(d, b, 2) = Painted(d, s, 2)
        /\ id \notin Painted(d, s, 1)
    BY <1>3, <2>1 DEF Painted
  <2>4. Searched(d, b)
    BY <1>3, <2>1, <2>3 DEF Searched
  <2> PICK q \in Seq(Ids(d)) : q = DependsOn(d, id)
    BY DEF Wired
  <2> PICK n \in Nat : n = Len(q) /\ DOMAIN q = 1..n
    BY LenProperties
  <2>5. \A i \in DOMAIN q : q[i] \in Deps(d, id)
    BY DEF Deps, Range
  <2>6. \A i \in DOMAIN q : Visitable(d, q[i], b)
    <3>1. ASSUME NEW x \in Painted(d, b, 1)
          PROVE  Deps(d, id) \subseteq Below(d, x)
      <4>1. x \in Ids(d)
        BY DEF Painted
      <4>2. CASE x = id
        BY <4>1, <4>2, BelowGrows
      <4>3. CASE x # id
        <5>1. id \in Below(d, x)
          BY <1>3, <2>3, <4>3 DEF Visitable
        <5> QED
          BY <4>1, <5>1, BelowGrows
      <4> QED
        BY <4>2, <4>3
    <3> QED
      BY <2>5, <3>1 DEF Visitable
  <2>7. PICK P : Threads(P, f, b, q) /\ Threaded(f, b, q) = P[n]
    BY ThreadedSteps
  <2> PICK r : r = P[n]
    OBVIOUS
  <2>8. t = [r EXCEPT !.colour[id] = 2]
    <3>1. t = [Threaded(f, b, q) EXCEPT !.colour[id] = 2]
      BY <1>3 DEF Visited
    <3> QED
      BY <2>7, <3>1
  <2>9. /\ r \in Coloured(d) /\ Searched(d, r) /\ Followed(d, b, r)
        /\ ~r.cyclic => \A i \in 1..n : q[i] \in Painted(d, r, 2)
    <3>1. n \in 0..n
      OBVIOUS
    <3>2. r \in Coloured(d)
      BY <2>1, <2>2, <2>7, <3>1, ThreadColours
    <3>3. /\ Searched(d, r) /\ Followed(d, b, r)
          /\ ~r.cyclic => \A i \in 1..n : q[i] \in Painted(d, r, 2)
      BY <2>1, <2>2, <2>4, <2>6, <2>7, <3>1, ThreadSearches
    <3> QED
      BY <3>2, <3>3
  <2>10. /\ t \in Coloured(d) /\ t.cyclic = r.cyclic /\ t.colour[id] = 2
         /\ \A x \in Ids(d) \ {id} : t.colour[x] = r.colour[x]
    BY <2>8, <2>9, Paints
  <2>11. CASE r.cyclic
    BY <2>9, <2>10, <2>11 DEF Done, Followed, Searched
  <2>12. CASE ~r.cyclic
    <3>1. Painted(d, t, 2) = Painted(d, r, 2) \cup {id} /\ Painted(d, t, 1) = Painted(d, r, 1) \ {id}
      BY <2>10 DEF Painted
    <3>2. Painted(d, r, 1) = Painted(d, b, 1) /\ Painted(d, b, 2) \subseteq Painted(d, r, 2)
      BY <2>9, <2>12 DEF Followed
    <3>3. id \notin Painted(d, r, 2)
      <4>1. r.colour[id] = 1
        BY <2>3, <3>2 DEF Painted
      <4> QED
        BY <4>1 DEF Painted
    <3>4. Deps(d, id) \subseteq Painted(d, r, 2)
      BY <2>9, <2>12 DEF Deps, Range
    <3>5. Closed(d, Painted(d, r, 2)) /\ Peels(d, Painted(d, r, 2))
      BY <2>9, <2>12 DEF Searched
    <3>6. Closed(d, Painted(d, t, 2)) /\ Peels(d, Painted(d, t, 2))
      BY <3>1, <3>3, <3>4, <3>5, PeelsOneMore
    <3>7. Followed(d, s, t)
      <4>1. Painted(d, t, 1) = Painted(d, s, 1)
        <5>1. Painted(d, t, 1) = (Painted(d, s, 1) \cup {id}) \ {id}
          BY <2>3, <3>1, <3>2
        <5> QED
          BY <2>3, <5>1
      <4>2. Painted(d, s, 2) \subseteq Painted(d, t, 2)
        BY <2>3, <3>1, <3>2
      <4> QED
        BY <1>3, <4>1, <4>2 DEF Followed
    <3> QED
      BY <2>10, <2>12, <3>1, <3>6, <3>7 DEF Done, Searched
  <2> QED
    BY <2>11, <2>12
<1>4. s.colour[id] \in 0..2
  BY DEF Coloured
<1> QED
  BY <1>1, <1>2, <1>3, <1>4

(* The visit searches rightly from every state, by induction on the        *)
(* uncoloured tasks.                                                       *)
LEMMA VisitSearches ==
  ASSUME NEW d, Wired(d), NEW m \in Nat
  PROVE  Colours(d, Visit(d), m) /\ Searches(d, Visit(d), m)
<1> PICK f : f = Visit(d)
  OBVIOUS
<1>1. \A k \in Nat : Visits(d, f, k) /\ Colours(d, f, k)
  BY VisitSolves, VisitsColour
<1> DEFINE S == {k \in 0..m : Searches(d, f, k)}
<1>2. 0 \in S
  <2>1. Searches(d, f, 0)
    <3> SUFFICES ASSUME NEW id \in Ids(d), NEW s \in Coloured(d), White(d, s) < 0
                 PROVE  FALSE
      BY DEF Searches
    <3> QED
      BY Counted
  <2> QED
    BY <2>1
<1>3. ASSUME NEW k \in 0..m, k \in S, k < m
      PROVE  k + 1 \in S
  <2>1. Searches(d, f, k) /\ k \in Nat /\ k + 1 \in Nat /\ k + 1 \in 0..m
    BY <1>3
  <2>2. ASSUME NEW id \in Ids(d), NEW s \in Coloured(d),
               White(d, s) < k + 1, Searched(d, s), Visitable(d, id, s)
        PROVE  Done(d, id, s, f[<<id, s>>])
    <3>1. f[<<id, s>>] = Visited(d, f, id, s)
      BY <1>1, <2>1, <2>2 DEF Visits
    <3> QED
      BY <1>1, <2>1, <2>2, <3>1, VisitedSearches
  <2>3. Searches(d, f, k + 1)
    BY <2>2 DEF Searches
  <2> QED
    BY <2>1, <2>3
<1>4. \A k \in 0..m : k \in S
  <2> HIDE DEF S
  <2> QED
    BY <1>2, <1>3, InductionTo
<1>5. m \in 0..m
  OBVIOUS
<1> QED
  BY <1>1, <1>4, <1>5

-----------------------------------------------------------------------------
(* Sorting.                                                                *)

(* s lists n elements of S in ascending order.                             *)
Ascending(s, S, n) == s \in [1..n -> S] /\ \A i, j \in 1..n : i < j => s[i] < s[j]

(* Every finite set of numbers has such a list: the one of all but the     *)
(* least follows the least.                                                *)
LEMMA CanBeSorted ==
  ASSUME NEW n \in Nat
  PROVE  \A S \in SUBSET Nat : IsFiniteSet(S) /\ Cardinality(S) = n => \E s : Ascending(s, S, n)
<1> DEFINE Sortable(m) == \A S \in SUBSET Nat :
             IsFiniteSet(S) /\ Cardinality(S) = m => \E s : Ascending(s, S, m)
           T == {m \in 0..n : Sortable(m)}
<1>1. 0 \in T
  <2>1. ASSUME NEW S \in SUBSET Nat
        PROVE  Ascending([i \in 1..0 |-> 0], S, 0)
    BY DEF Ascending
  <2> QED
    BY <2>1
<1>2. ASSUME NEW m \in 0..n, m \in T, m < n
      PROVE  m + 1 \in T
  <2>1. Sortable(m) /\ m \in Nat
    BY <1>2
  <2>2. ASSUME NEW S \in SUBSET Nat, IsFiniteSet(S), Cardinality(S) = m + 1
        PROVE  \E s : Ascending(s, S, m + 1)
    <3>1. S # {}
      BY <2>1, <2>2, FS_EmptySet
    <3>2. PICK x \in S : \A k \in S : x <= k
      BY <3>1, LeastExists
    <3> PICK R : R = S \ {x}
      OBVIOUS
    <3>3. IsFiniteSet(R) /\ Cardinality(R) = m
      BY <2>1, <2>2, FS_RemoveElement
    <3>4. PICK r : Ascending(r, R, m)
      BY <2>1, <3>3
    <3> DEFINE s == [i \in 1..(m + 1) |-> IF i = 1 THEN x ELSE r[i - 1]]
    <3>5. \A i \in 1..(m + 1) : i = 1 \/ i - 1 \in 1..m
      BY <2>1
    <3>6. \A i \in 1..m : r[i] \in R
      BY <3>4 DEF Ascending
    <3>7. s \in [1..(m + 1) -> S]
      BY <3>5, <3>6
    <3>8. ASSUME NEW i \in 1..(m + 1), NEW j \in 1..(m + 1), i < j
          PROVE  s[i] < s[j]
      <4>1. j # 1 /\ j - 1 \in 1..m /\ s[j] = r[j - 1]
        BY <2>1, <3>8
      <4>2. CASE i = 1
        <5>1. s[i] = x
          BY <4>2
        <5>2. r[j - 1] \in S /\ r[j - 1] # x
          BY <3>6, <4>1
        <5>3. x <= r[j - 1] /\ x \in Nat /\ r[j - 1] \in Nat
          BY <3>2, <5>2
        <5> HIDE DEF s
        <5> QED
          BY <4>1, <5>1, <5>2, <5>3
      <4>3. CASE i # 1
        <5>1. i - 1 \in 1..m /\ s[i] = r[i - 1] /\ i - 1 < j - 1
          BY <2>1, <3>8, <4>3
        <5> HIDE DEF s
        <5> QED
          BY <3>4, <4>1, <5>1 DEF Ascending
      <4> QED
        BY <4>2, <4>3
    <3> QED
      BY <3>7, <3>8 DEF Ascending
  <2>3. Sortable(m + 1)
    BY <2>2
  <2> HIDE DEF Sortable
  <2> QED
    BY <1>2, <2>3
<1>3. \A m \in 0..n : m \in T
  <2> HIDE DEF T
  <2> QED
    BY <1>1, <1>2, InductionTo
<1>4. n \in 0..n
  OBVIOUS
<1> QED
  BY <1>3, <1>4

(* So Sorted lists a set, in ascending order.                              *)
LEMMA SortedLists ==
  ASSUME NEW S \in SUBSET Nat, IsFiniteSet(S)
  PROVE  /\ Sorted(S) \in Seq(S) /\ Range(Sorted(S)) = S
         /\ Ascending(Sorted(S), S, Cardinality(S))
<1> PICK n \in Nat : n = Cardinality(S)
  BY FS_CardinalityType
<1>1. PICK s0 : Ascending(s0, S, n)
  BY CanBeSorted
<1>2. \E s \in [1..Cardinality(S) -> S] : \A i, j \in DOMAIN s : i < j => s[i] < s[j]
  <2>1. s0 \in [1..n -> S] /\ DOMAIN s0 = 1..n
    BY <1>1 DEF Ascending
  <2> QED
    BY <1>1, <2>1 DEF Ascending
<1> PICK s : s = Sorted(S)
  OBVIOUS
<1>3. s \in [1..n -> S] /\ \A i, j \in DOMAIN s : i < j => s[i] < s[j]
  BY <1>2 DEF Sorted
<1>4. \A i \in 1..n : s[i] \in Nat
  BY <1>3
<1>5. IsInjective(s)
  <2> SUFFICES ASSUME NEW i \in 1..n, NEW j \in 1..n, i # j
               PROVE  s[i] # s[j]
    BY <1>3 DEF IsInjective
  <2>1. i < j \/ j < i
    OBVIOUS
  <2>2. s[i] < s[j] \/ s[j] < s[i]
    BY <1>3, <2>1
  <2> QED
    BY <1>4, <2>2
<1>6. s \in Injection(1..n, S)
  BY <1>3, <1>5 DEF Injection
<1>7. Cardinality(1..n) = n
  BY FS_Interval
<1>8. s \in Surjection(1..n, S)
  BY <1>6, <1>7, FS_Injection
<1>9. Range(s) = S
  BY <1>3, <1>8 DEF Range, Surjection
<1>10. s \in Seq(S)
  BY <1>3
<1>11. Ascending(s, S, n)
  BY <1>3 DEF Ascending
<1> QED
  BY <1>9, <1>10, <1>11

-----------------------------------------------------------------------------
(* The closure visit of all tasks finds a cycle if there is one.           *)

LEMMA NoCycleSound ==
  ASSUME NEW d, Wired(d), Ids(d) \in SUBSET Nat
  PROVE  NoCycle(d) <=> Peels(d, Ids(d))
<1> PICK ids : ids = Sorted(Ids(d))
  OBVIOUS
<1>1. ids \in Seq(Ids(d)) /\ Range(ids) = Ids(d)
  BY SortedLists DEF Wired
<1> PICK n \in Nat : n = Len(ids) /\ DOMAIN ids = 1..n
  BY <1>1, LenProperties
<1> PICK m \in Nat : m = Cardinality(Ids(d)) + 1
  BY Counted
<1> PICK f : f = Visit(d)
  OBVIOUS
<1> PICK b : b = [colour |-> [id \in Ids(d) |-> 0], cyclic |-> FALSE]
  OBVIOUS
<1>2. PICK P : Threads(P, f, b, ids) /\ Threaded(f, b, ids) = P[n]
  BY <1>1, ThreadedSteps
<1> PICK r : r = P[n]
  OBVIOUS
<1>3. NoCycle(d) <=> ~r.cyclic
  <2>1. NoCycle(d) <=> ~Threaded(f, b, ids).cyclic
    BY DEF NoCycle, Threaded
  <2> QED
    BY <1>2, <2>1
<1>4. b \in Coloured(d) /\ ~b.cyclic /\ Painted(d, b, 1) = {} /\ Painted(d, b, 2) = {}
  BY DEF Coloured, Painted
<1>5. Searched(d, b)
  BY <1>4 DEF Searched, Closed, Peels
<1>6. White(d, b) < m
  <2>1. White(d, b) \in Nat /\ White(d, b) <= Cardinality(Ids(d)) /\ Cardinality(Ids(d)) \in Nat
    BY Counted
  <2> QED
    BY <2>1
<1>7. \A i \in DOMAIN ids : Visitable(d, ids[i], b)
  BY <1>4 DEF Visitable
<1>8. Colours(d, f, m) /\ Searches(d, f, m)
  BY VisitSearches
<1>9. /\ Searched(d, r)
      /\ ~r.cyclic => \A i \in 1..n : ids[i] \in Painted(d, r, 2)
  <2>1. n \in 0..n
    OBVIOUS
  <2> QED
    BY <1>1, <1>2, <1>4, <1>5, <1>6, <1>7, <1>8, <2>1, ThreadSearches
<1>10. CASE r.cyclic
  <2>1. Stuck(d)
    BY <1>9, <1>10 DEF Searched
  <2>2. ~Peels(d, Ids(d))
    BY <2>1 DEF Stuck, Peels
  <2> QED
    BY <1>3, <1>10, <2>2
<1>11. CASE ~r.cyclic
  <2>1. Ids(d) \subseteq Painted(d, r, 2)
    BY <1>1, <1>9, <1>11 DEF Range
  <2>2. Painted(d, r, 2) = Ids(d)
    BY <2>1 DEF Painted
  <2>3. Peels(d, Ids(d))
    BY <1>9, <1>11, <2>2 DEF Searched
  <2> QED
    BY <1>3, <1>11, <2>3
<1> QED
  BY <1>10, <1>11

-----------------------------------------------------------------------------
(* Sums.                                                                   *)

(* T is the sum of the costs at every set of positions.                    *)
Total(T, cost, n) ==
  /\ T[{}] = 0
  /\ \A S \in SUBSET (1..n) : T[S] \in Nat /\ \A x \in S : T[S] = cost[x] + T[S \ {x}]

(* Its value at a set, by any one of its positions.                        *)
LEMMA TotalAdds ==
  ASSUME NEW n, NEW cost, NEW T, Total(T, cost, n), NEW S \in SUBSET (1..n)
  PROVE  T[S] \in Nat /\ \A x \in S : T[S] = cost[x] + T[S \ {x}]
BY DEF Total

(* The same, with a name for the smaller set.                              *)
LEMMA TotalTakes ==
  ASSUME NEW n, NEW cost, NEW T, Total(T, cost, n), NEW S \in SUBSET (1..n),
         NEW x \in S, NEW R, R = S \ {x}
  PROVE  T[S] = cost[x] + T[R]
BY DEF Total

(* Its value at a prefix, by its last position.                            *)
LEMMA TotalPrefix ==
  ASSUME NEW n \in Nat, NEW cost, NEW T, Total(T, cost, n), NEW k \in 1..n
  PROVE  T[1..k] = cost[k] + T[1..(k - 1)] /\ T[1..k] \in Nat /\ T[1..(k - 1)] \in Nat
<1>1. k \in 1..k /\ \A i \in 1..k : i \in 1..n
  OBVIOUS
<1>2. (1..k) \ {k} = 1..(k - 1)
  BY PrefixMax
<1>3. 1..k \in SUBSET (1..n) /\ 1..(k - 1) \in SUBSET (1..n)
  BY <1>1, <1>2
<1>4. T[1..k] \in Nat
  BY <1>3, TotalAdds
<1>5. T[1..(k - 1)] \in Nat
  BY <1>3, TotalAdds
<1> PICK A : A = 1..k
  OBVIOUS
<1> PICK B : B = 1..(k - 1)
  OBVIOUS
<1>6. A \in SUBSET (1..n) /\ k \in A /\ B = A \ {k}
  BY <1>1, <1>2, <1>3
<1>7. T[A] = cost[k] + T[B]
  <2> QED
    BY <1>6, TotalTakes
<1> QED
  BY <1>4, <1>5, <1>7

(* There are such sums: they are built one position at a time, and the     *)
(* order in which costs are added does not matter.                         *)
LEMMA TotalExists ==
  ASSUME NEW n \in Nat, NEW cost \in [1..n -> Nat]
  PROVE  \E T : Total(T, cost, n)
<1> DEFINE M == {m \in 0..n : \E T : Total(T, cost, m)}
<1>1. 0 \in M
  <2> DEFINE T == [S \in {{}} |-> 0]
  <2>1. T[{}] = 0
    OBVIOUS
  <2>2. \A S \in SUBSET (1..0) : S = {}
    OBVIOUS
  <2> HIDE DEF T
  <2>3. ASSUME NEW S \in SUBSET (1..0)
        PROVE  T[S] \in Nat /\ \A x \in S : T[S] = cost[x] + T[S \ {x}]
    <3>1. S = {}
      BY <2>2
    <3> QED
      BY <2>1, <3>1
  <2>4. Total(T, cost, 0)
    BY <2>1, <2>3 DEF Total
  <2> QED
    BY <2>4
<1>2. ASSUME NEW m \in 0..n, m \in M, m < n
      PROVE  m + 1 \in M
  <2>1. m \in Nat /\ m + 1 \in 1..n /\ m + 1 \notin 1..m /\ 1..m \subseteq 1..n
        /\ \A y \in 1..(m + 1) : y \in 1..m \/ y = m + 1
    BY <1>2
  <2>2. PICK T : Total(T, cost, m)
    BY <1>2
  <2> PICK l : l = m + 1
    OBVIOUS
  <2> DEFINE U == [S \in SUBSET (1..l) |-> T[S \ {l}] + (IF l \in S THEN cost[l] ELSE 0)]
  <2>3. \A S \in SUBSET (1..l) : S \ {l} \in SUBSET (1..m)
    BY <2>1
  <2>4. cost[l] \in Nat /\ \A x \in 1..m : cost[x] \in Nat
    BY <2>1
  <2>5. \A S \in SUBSET (1..l) : U[S] = T[S \ {l}] + (IF l \in S THEN cost[l] ELSE 0)
    OBVIOUS
  <2> HIDE DEF U
  <2>6. U[{}] = 0
    <3>1. {} \in SUBSET (1..l) /\ {} \ {l} = {} /\ l \notin {}
      OBVIOUS
    <3>2. T[{}] = 0
      BY <2>2 DEF Total
    <3>3. U[{}] = T[{}] + 0
      BY <2>5, <3>1
    <3> QED
      BY <3>2, <3>3
  <2>7. ASSUME NEW S \in SUBSET (1..l)
        PROVE  U[S] \in Nat
    <3>1. T[S \ {l}] \in Nat
      BY <2>2, <2>3 DEF Total
    <3> PICK c : c = IF l \in S THEN cost[l] ELSE 0
      OBVIOUS
    <3>2. c \in Nat
      BY <2>4
    <3>3. U[S] = T[S \ {l}] + c
      BY <2>5
    <3> QED
      BY <3>1, <3>2, <3>3
  <2>8. ASSUME NEW S \in SUBSET (1..l), NEW x \in S
        PROVE  U[S] = cost[x] + U[S \ {x}]
    <3>1. T[S \ {l}] \in Nat /\ S \ {x} \in SUBSET (1..l)
      BY <2>2, <2>3 DEF Total
    <3>2. CASE x = l
      <4>1. (S \ {x}) \ {l} = S \ {l} /\ l \notin S \ {x}
        BY <3>2
      <4>2. U[S \ {x}] = T[S \ {l}] + 0 /\ U[S] = T[S \ {l}] + cost[l]
        BY <2>5, <3>1, <3>2, <4>1
      <4> QED
        BY <2>4, <3>1, <3>2, <4>2
    <3>3. CASE x # l
      <4> PICK R : R = S \ {l}
        OBVIOUS
      <4>1. R \in SUBSET (1..m) /\ x \in R /\ (S \ {x}) \ {l} = R \ {x} /\ (l \in S <=> l \in S \ {x})
        BY <2>3, <3>3
      <4>2. x \in 1..m /\ R \ {x} \in SUBSET (1..m)
        BY <4>1
      <4>3. T[R] = cost[x] + T[R \ {x}] /\ T[R] \in Nat /\ T[R \ {x}] \in Nat
        BY <2>2, <4>1, <4>2 DEF Total
      <4> PICK c : c = IF l \in S THEN cost[l] ELSE 0
        OBVIOUS
      <4>4. U[S] = T[R] + c /\ U[S \ {x}] = T[R \ {x}] + c
        BY <2>5, <3>1, <4>1
      <4>5. c \in Nat /\ cost[x] \in Nat
        BY <2>4, <4>2
      <4> QED
        BY <4>3, <4>4, <4>5
    <3> QED
      BY <3>2, <3>3
  <2>9. Total(U, cost, l)
    BY <2>6, <2>7, <2>8 DEF Total
  <2> QED
    BY <2>1, <2>9
<1>3. \A m \in 0..n : m \in M
  <2> HIDE DEF M
  <2> QED
    BY <1>1, <1>2, InductionTo
<1>4. n \in 0..n
  OBVIOUS
<1> QED
  BY <1>3, <1>4

(* SumFunction is the sum at all positions.                                *)
LEMMA SumIsTotal ==
  ASSUME NEW n \in Nat, NEW cost \in [1..n -> Nat], NEW T, Total(T, cost, n)
  PROVE  SumFunction(cost) = T[1..n]
<1> DEFINE Eq(it, S) == IF S = {} THEN 0
                        ELSE cost[CHOOSE x \in S : TRUE] + it[S \ {CHOOSE x \in S : TRUE}]
           Is(it) == it = [S \in SUBSET (1..n) |-> Eq(it, S)]
           it == CHOOSE it : Is(it)
<1>1. SumFunction(cost) = it[1..n]
  <2>1. DOMAIN cost = 1..n
    OBVIOUS
  <2> QED
    BY <2>1 DEF SumFunction, SumFunctionOnSet, FoldFunctionOnSet, MapThenFoldSet
<1>2. \E fold : Is(fold)
  <2> DEFINE U == [S \in SUBSET (1..n) |-> T[S]]
  <2>1. \A S \in SUBSET (1..n) : U[S] = T[S]
    OBVIOUS
  <2>2. ASSUME NEW S \in SUBSET (1..n)
        PROVE  T[S] = Eq(T, S)
    <3>1. S # {} => (CHOOSE x \in S : TRUE) \in S
      OBVIOUS
    <3> PICK x : x = CHOOSE y \in S : TRUE
      OBVIOUS
    <3>2. S # {} => T[S] = cost[x] + T[S \ {x}]
      <4>1. \A y \in S : T[S] = cost[y] + T[S \ {y}]
        BY DEF Total
      <4> QED
        BY <3>1, <4>1
    <3> QED
      BY <3>2 DEF Total
  <2>3. U = [S \in SUBSET (1..n) |-> Eq(T, S)]
    BY <2>2
  <2> HIDE DEF U
  <2>4. \A S \in SUBSET (1..n) : Eq(U, S) = Eq(T, S)
    <3> SUFFICES ASSUME NEW S \in SUBSET (1..n)
                 PROVE  Eq(U, S) = Eq(T, S)
      OBVIOUS
    <3>1. S \ {CHOOSE x \in S : TRUE} \in SUBSET (1..n)
      OBVIOUS
    <3> QED
      BY <2>1, <3>1
  <2>5. U = [S \in SUBSET (1..n) |-> Eq(U, S)]
    BY <2>3, <2>4
  <2> QED
    BY <2>5
<1>3. Is(it)
  BY <1>2
<1> HIDE DEF it
<1>4. \A S \in SUBSET (1..n) : it[S] = Eq(it, S)
  BY <1>3
<1> DEFINE M == {m \in 0..n : \A S \in SUBSET (1..n) : Cardinality(S) = m => it[S] = T[S]}
<1>5. \A S \in SUBSET (1..n) : IsFiniteSet(S) /\ Cardinality(S) \in 0..n
  <2>1. IsFiniteSet(1..n) /\ Cardinality(1..n) = n
    BY FS_Interval
  <2> SUFFICES ASSUME NEW S \in SUBSET (1..n)
               PROVE  IsFiniteSet(S) /\ Cardinality(S) \in 0..n
    OBVIOUS
  <2> PICK N : N = 1..n
    OBVIOUS
  <2>2. IsFiniteSet(S) /\ Cardinality(S) <= n
    <3>1. IsFiniteSet(N) /\ Cardinality(N) = n /\ S \in SUBSET N
      BY <2>1
    <3> QED
      BY <3>1, FS_Subset
  <2>3. Cardinality(S) \in Nat
    BY <2>2, FS_CardinalityType
  <2> QED
    BY <2>2, <2>3
<1>6. 0 \in M
  <2>1. ASSUME NEW S \in SUBSET (1..n), Cardinality(S) = 0
        PROVE  it[S] = T[S]
    <3>1. S = {}
      BY <1>5, <2>1, FS_EmptySet
    <3> QED
      BY <1>4, <3>1 DEF Total
  <2> QED
    BY <2>1
<1>7. ASSUME NEW m \in 0..n, m \in M, m < n
      PROVE  m + 1 \in M
  <2>1. ASSUME NEW S \in SUBSET (1..n), Cardinality(S) = m + 1
        PROVE  it[S] = T[S]
    <3>1. S # {}
      <4>1. m + 1 # 0 /\ Cardinality({}) = 0
        BY FS_EmptySet
      <4> QED
        BY <2>1, <4>1
    <3> PICK x \in S : x = CHOOSE y \in S : TRUE
      BY <3>1
    <3> PICK R : R = S \ {x}
      OBVIOUS
    <3>2. R \in SUBSET (1..n) /\ Cardinality(R) = m
      <4>1. IsFiniteSet(S) /\ R \in SUBSET (1..n)
        BY <1>5
      <4>2. Cardinality(R) = (m + 1) - 1
        BY <2>1, <4>1, FS_RemoveElement
      <4> QED
        BY <4>1, <4>2
    <3>3. it[R] = T[R]
      BY <1>7, <3>2
    <3>4. it[S] = cost[x] + it[R]
      BY <1>4, <3>1
    <3>5. T[S] = cost[x] + T[R]
      <4>1. \A y \in S : T[S] = cost[y] + T[S \ {y}]
        BY DEF Total
      <4> QED
        BY <3>1, <4>1
    <3> QED
      BY <3>3, <3>4, <3>5
  <2>2. m + 1 \in 0..n
    BY <1>7
  <2> QED
    BY <2>1, <2>2
<1>8. \A m \in 0..n : m \in M
  <2> HIDE DEF M
  <2> QED
    BY <1>6, <1>7, InductionTo
<1>9. it[1..n] = T[1..n]
  <2>1. Cardinality(1..n) \in 0..n /\ 1..n \in SUBSET (1..n)
    BY <1>5
  <2> QED
    BY <1>8, <2>1
<1> QED
  BY <1>1, <1>9

(* The checked addition, cost by cost.                                     *)
Sums == [fits : BOOLEAN, value : Nat]
(* Nothing has been added yet.                                             *)
NoCost == [fits |-> TRUE, value |-> 0]

(* A cost is added when the sum still fits; a sum that did not fit never   *)
(* fits again.                                                             *)
LEMMA CostAdded ==
  ASSUME NEW sum \in Sums, NEW cost \in Nat
  PROVE  /\ AddCost(sum, cost) \in Sums
         /\ IF sum.fits /\ cost <= MaxUint - sum.value
            THEN AddCost(sum, cost).fits /\ AddCost(sum, cost).value = sum.value + cost
            ELSE ~AddCost(sum, cost).fits
<1>1. MaxUint \in Nat /\ sum.value \in Nat /\ sum = [fits |-> sum.fits, value |-> sum.value]
  BY MaxUintAssumption DEF Sums
<1>2. CASE sum.fits /\ cost <= MaxUint - sum.value
  <2>1. ~(MaxUint - sum.value < cost) /\ sum.value + cost \in Nat
    BY <1>1, <1>2
  <2>2. AddCost(sum, cost) = [fits |-> sum.fits, value |-> sum.value + cost]
    BY <1>1, <1>2, <2>1 DEF AddCost
  <2> QED
    BY <1>2, <2>1, <2>2 DEF Sums
<1>3. CASE ~(sum.fits /\ cost <= MaxUint - sum.value)
  <2>1. ~sum.fits \/ MaxUint - sum.value < cost
    BY <1>1, <1>3
  <2>2. AddCost(sum, cost) = [fits |-> FALSE, value |-> sum.value]
    BY <1>1, <2>1 DEF AddCost
  <2> QED
    BY <1>1, <1>3, <2>2 DEF Sums
<1> QED
  BY <1>2, <1>3

(* The empty sum fits.                                                     *)
LEMMA NoCostIsSum == NoCost \in Sums /\ NoCost.fits /\ NoCost.value = 0
BY DEF NoCost, Sums

(* The check adds the costs one after the other.                           *)
LEMMA CostSteps ==
  ASSUME NEW X, \A x \in X : x.cost \in Nat, NEW tasks \in Seq(X)
  PROVE  \E P : /\ P[0] = NoCost /\ \A k \in 1..Len(tasks) : P[k] = AddCost(P[k - 1], tasks[k].cost)
                /\ FoldLeft(LAMBDA s, t : AddCost(s, t.cost), NoCost, tasks) = P[Len(tasks)]
<1> PICK n \in Nat : n = Len(tasks) /\ DOMAIN tasks = 1..n
  BY LenProperties
<1> DEFINE f == [x \in X \X Sums |-> AddCost(x[2], x[1].cost)]
           Eq(it, t) == IF t = {} THEN NoCost ELSE AddCost(it[t \ {Max(t)}], tasks[Max(t)].cost)
           Is(it) == it = [t \in SUBSET (1..n) |-> Eq(it, t)]
           it == CHOOSE it : Is(it)
<1>1. \A x \in X, sum \in Sums : f[<<x, sum>>] = AddCost(sum, x.cost) /\ f[<<x, sum>>] \in Sums
  BY CostAdded
<1> HIDE DEF f
<1>2. \E fold : Is(fold)
  <2>1. PICK fold : IsFold(fold, f, NoCost, tasks, n)
    BY FoldDefined
  <2>2. \A t \in SUBSET (1..n) :
          fold[t] = IF t = {} THEN NoCost ELSE f[<<tasks[Max(t)], fold[t \ {Max(t)}]>>]
    BY <2>1 DEF IsFold
  <2> DEFINE M == {m \in 0..n : \A t \in SUBSET (1..m) : fold[t] \in Sums}
  <2>3. 0 \in M
    <3>1. ASSUME NEW t \in SUBSET (1..0)
          PROVE  fold[t] \in Sums
      <4>1. t = {} /\ t \in SUBSET (1..n)
        OBVIOUS
      <4>2. fold[t] = NoCost
        BY <2>2, <4>1
      <4> QED
        BY <4>2, NoCostIsSum
    <3> QED
      BY <3>1
  <2>4. ASSUME NEW m \in 0..n, m \in M, m < n
        PROVE  m + 1 \in M
    <3>1. m \in Nat /\ m + 1 \in 0..n /\ \A i \in 1..(m + 1) : i \in 1..n
      BY <2>4
    <3>2. ASSUME NEW t \in SUBSET (1..(m + 1)), t # {}
          PROVE  fold[t] \in Sums
      <4>1. Max(t) \in t /\ t \ {Max(t)} \subseteq 1..m
        BY <3>1, <3>2, LastTaken
      <4>2. fold[t \ {Max(t)}] \in Sums
        BY <2>4, <4>1
      <4>3. t \in SUBSET (1..n) /\ Max(t) \in 1..n
        BY <3>1, <4>1
      <4>4. tasks[Max(t)] \in X
        BY <4>3
      <4> QED
        BY <1>1, <2>2, <3>2, <4>2, <4>3, <4>4
    <3>3. fold[{}] \in Sums
      <4>1. {} \in SUBSET (1..n)
        OBVIOUS
      <4>2. fold[{}] = NoCost
        BY <2>2, <4>1
      <4> QED
        BY <4>2, NoCostIsSum
    <3> QED
      BY <3>1, <3>2, <3>3
  <2>5. \A m \in 0..n : m \in M
    <3> HIDE DEF M
    <3> QED
      BY <2>3, <2>4, InductionTo
  <2>6. \A t \in SUBSET (1..n) : fold[t] \in Sums
    <3>1. n \in 0..n
      OBVIOUS
    <3> QED
      BY <2>5, <3>1
  <2>7. ASSUME NEW t \in SUBSET (1..n)
        PROVE  fold[t] = Eq(fold, t)
    <3>1. CASE t = {}
      BY <2>2, <3>1
    <3>2. CASE t # {}
      <4>1. Max(t) \in t
        BY <3>2, MaxOf
      <4>2. Max(t) \in 1..n /\ t \ {Max(t)} \in SUBSET (1..n)
        BY <4>1
      <4>3. tasks[Max(t)] \in X /\ fold[t \ {Max(t)}] \in Sums
        BY <2>6, <4>2
      <4> QED
        BY <1>1, <2>2, <3>2, <4>3
    <3> QED
      BY <3>1, <3>2
  <2>8. fold = [t \in SUBSET (1..n) |-> fold[t]]
    BY <2>1 DEF IsFold
  <2>9. fold = [t \in SUBSET (1..n) |-> Eq(fold, t)]
    BY <2>7, <2>8
  <2> QED
    BY <2>9
<1>3. Is(it)
  BY <1>2
<1>4. FoldLeft(LAMBDA s, t : AddCost(s, t.cost), NoCost, tasks) = it[1..n]
  BY DEF FoldLeft, MapThenFoldSet
<1> HIDE DEF it
<1>5. \A t \in SUBSET (1..n) : it[t] = Eq(it, t)
  BY <1>3
<1> DEFINE P == [k \in 0..n |-> it[1..k]]
<1>6. P[0] = NoCost
  <2>1. P[0] = it[1..0] /\ 1..0 = {}
    OBVIOUS
  <2>2. it[{}] = NoCost
    BY <1>5
  <2> QED
    BY <2>1, <2>2
<1>7. ASSUME NEW k \in 1..n
       PROVE  P[k] = AddCost(P[k - 1], tasks[k].cost)
  <2>1. k \in Nat \ {0} /\ k \in 0..n /\ k - 1 \in 0..n
    OBVIOUS
  <2>2. k \in 1..k /\ \A i \in 1..k : i \in 1..n
    BY <2>1
  <2>3. 1..k \in SUBSET (1..n) /\ 1..k # {}
    BY <2>2
  <2>4. Max(1..k) = k /\ (1..k) \ {k} = 1..(k - 1)
    BY <2>1, PrefixMax
  <2>5. it[1..k] = AddCost(it[1..(k - 1)], tasks[k].cost)
    BY <1>5, <2>3, <2>4
  <2> QED
    BY <2>1, <2>5
<1>8. P[n] = it[1..n]
  <2>1. n \in 0..n
    OBVIOUS
  <2> QED
    BY <2>1
<1> QED
  BY <1>4, <1>6, <1>7, <1>8

(* The fixed width does not matter: the check accepts exactly the DAGs     *)
(* whose costs, added without a width, are within the budget.              *)
LEMMA BudgetSound ==
  ASSUME NEW d, NEW X, \A x \in X : x.cost \in Nat, d.tasks \in Seq(X), d.budget \in 0..MaxUint
  PROVE  WithinBudget(d) <=> SumFunction([i \in DOMAIN d.tasks |-> d.tasks[i].cost]) <= d.budget
<1> PICK tasks \in Seq(X) : tasks = d.tasks
  OBVIOUS
<1> PICK n \in Nat : n = Len(tasks) /\ DOMAIN tasks = 1..n
  BY LenProperties
<1>1. PICK cost : cost = [i \in 1..n |-> tasks[i].cost]
  OBVIOUS
<1>2. cost \in [1..n -> Nat] /\ \A i \in 1..n : tasks[i].cost = cost[i]
  BY <1>1
<1>3. PICK T : Total(T, cost, n)
  BY <1>2, TotalExists
<1>4. ASSUME NEW k \in 1..n
      PROVE  T[1..k] = cost[k] + T[1..(k - 1)] /\ T[1..k] \in Nat /\ T[1..(k - 1)] \in Nat
  BY <1>3, TotalPrefix
<1>5. SumFunction([i \in DOMAIN d.tasks |-> d.tasks[i].cost]) = T[1..n]
  <2>1. [i \in DOMAIN d.tasks |-> d.tasks[i].cost] = cost
    BY <1>1
  <2>2. SumFunction(cost) = T[1..n]
    BY <1>2, <1>3, SumIsTotal
  <2> QED
    BY <2>1, <2>2
<1>6. PICK P : /\ P[0] = NoCost /\ \A k \in 1..n : P[k] = AddCost(P[k - 1], tasks[k].cost)
               /\ FoldLeft(LAMBDA s, t : AddCost(s, t.cost), NoCost, tasks) = P[n]
  BY CostSteps
<1>7. WithinBudget(d) <=> P[n].fits /\ P[n].value <= d.budget
  BY <1>6 DEF WithinBudget, NoCost
<1>8. MaxUint \in Nat
  BY MaxUintAssumption
<1> DEFINE Right(k) == /\ P[k] \in Sums
                       /\ P[k].fits <=> T[1..k] <= MaxUint
                       /\ P[k].fits => P[k].value = T[1..k]
           M == {k \in 0..n : Right(k)}
<1>9. 0 \in M
  <2>1. T[1..0] = 0
    <3>1. 1..0 = {}
      OBVIOUS
    <3> QED
      BY <1>3, <3>1 DEF Total
  <2>2. P[0] \in Sums /\ P[0].fits /\ P[0].value = 0
    BY <1>6, NoCostIsSum
  <2>3. Right(0)
    BY <1>8, <2>1, <2>2
  <2> QED
    BY <2>3
<1>10. ASSUME NEW k \in 0..n, k \in M, k < n
       PROVE  k + 1 \in M
  <2> PICK l : l = k + 1
    OBVIOUS
  <2>1. l \in 1..n /\ l - 1 = k /\ l \in Nat \ {0}
    BY <1>10
  <2>2. T[1..l] = cost[l] + T[1..k] /\ T[1..l] \in Nat /\ T[1..k] \in Nat
    <3>1. T[1..l] = cost[l] + T[1..(l - 1)] /\ T[1..l] \in Nat /\ T[1..(l - 1)] \in Nat
      BY <1>4, <2>1
    <3> QED
      BY <2>1, <3>1
  <2> PICK p : p = P[k]
    OBVIOUS
  <2>3. p \in Sums /\ (p.fits <=> T[1..k] <= MaxUint) /\ (p.fits => p.value = T[1..k])
    BY <1>10
  <2>4. P[l] = AddCost(p, cost[l])
    BY <1>2, <1>6, <2>1
  <2>5. cost[l] \in Nat
    BY <1>2, <2>1
  <2>6. CASE p.fits /\ cost[l] <= MaxUint - p.value
    <3>1. P[l] \in Sums /\ P[l].fits /\ P[l].value = p.value + cost[l]
      BY <2>3, <2>4, <2>5, <2>6, CostAdded
    <3>2. T[1..l] <= MaxUint /\ P[l].value = T[1..l]
      BY <1>8, <2>2, <2>3, <2>5, <2>6, <3>1
    <3> QED
      BY <2>1, <3>1, <3>2
  <2>7. CASE ~(p.fits /\ cost[l] <= MaxUint - p.value)
    <3>1. P[l] \in Sums /\ ~P[l].fits
      BY <2>3, <2>4, <2>5, <2>7, CostAdded
    <3>2. ~(T[1..l] <= MaxUint)
      <4>1. CASE p.fits
        <5>1. ~(cost[l] <= MaxUint - T[1..k])
          BY <2>3, <2>7, <4>1
        <5> QED
          BY <1>8, <2>2, <2>5, <5>1
      <4>2. CASE ~p.fits
        <5>1. ~(T[1..k] <= MaxUint)
          BY <2>3, <4>2
        <5> QED
          BY <1>8, <2>2, <2>5, <5>1
      <4> QED
        BY <4>1, <4>2
    <3> QED
      BY <2>1, <3>1, <3>2
  <2> QED
    BY <2>6, <2>7
<1>11. \A k \in 0..n : k \in M
  <2> HIDE DEF M
  <2> QED
    BY <1>9, <1>10, InductionTo
<1>12. Right(n) /\ T[1..n] \in Nat
  <2>1. n \in 0..n
    OBVIOUS
  <2> QED
    BY <1>3, <1>11, <2>1 DEF Total
<1>13. (P[n].fits /\ P[n].value <= d.budget) <=> T[1..n] <= d.budget
  BY <1>8, <1>12
<1> QED
  BY <1>5, <1>7, <1>13

-----------------------------------------------------------------------------
(* Validate.                                                               *)

(* What fits an int is a number.                                           *)
LEMMA IntsAreInts == Ints \subseteq Int
  BY MaxUintAssumption DEF Ints, MaxInt

(* Ids are finitely many numbers, and unique when there are as many as     *)
(* tasks.                                                                  *)
LEMMA IdsCounted ==
  ASSUME NEW d \in SentDag
  PROVE  /\ Ids(d) \in SUBSET Nat /\ IsFiniteSet(Ids(d))
         /\ UniqueIds(d) <=> \A i, j \in DOMAIN d.tasks : d.tasks[i].id = d.tasks[j].id => i = j
<1>1. d.tasks \in Seq(DagTask)
  BY DEF SentDag
<1> PICK n \in Nat : n = Len(d.tasks) /\ DOMAIN d.tasks = 1..n
  BY <1>1, LenProperties
<1>2. \A i \in 1..n : d.tasks[i] \in DagTask /\ d.tasks[i].id \in Nat
  <2> SUFFICES ASSUME NEW i \in 1..n
               PROVE  d.tasks[i] \in DagTask /\ d.tasks[i].id \in Nat
    OBVIOUS
  <2>1. d.tasks[i] \in DagTask
    BY <1>1
  <2> QED
    BY <2>1 DEF DagTask
<1> DEFINE f == [i \in 1..n |-> d.tasks[i].id]
<1>3. f \in Surjection(1..n, Ids(d)) /\ \A i \in 1..n : f[i] = d.tasks[i].id
  BY DEF Surjection, Ids
<1> HIDE DEF f
<1>4. IsFiniteSet(1..n) /\ Cardinality(1..n) = n
  BY FS_Interval
<1>5. /\ IsFiniteSet(Ids(d))
      /\ Cardinality(Ids(d)) = Cardinality(1..n) <=> f \in Injection(1..n, Ids(d))
  BY <1>3, <1>4, FS_Surjection
<1>6. f \in Injection(1..n, Ids(d)) <=> \A i, j \in 1..n : f[i] = f[j] => i = j
  BY <1>3 DEF Surjection, Injection, IsInjective
<1>7. Ids(d) \in SUBSET Nat
  BY <1>2 DEF Ids
<1>8. UniqueIds(d) <=> \A i, j \in 1..n : f[i] = f[j] => i = j
  BY <1>4, <1>5, <1>6 DEF UniqueIds
<1> QED
  BY <1>3, <1>5, <1>7, <1>8

(* A task is found by its id.                                              *)
LEMMA TaskFound ==
  ASSUME NEW d \in SentDag, NEW id \in Ids(d)
  PROVE  \E i \in DOMAIN d.tasks : d.tasks[i].id = id /\ TaskOf(d, id) = d.tasks[i]
<1>1. \E i \in DOMAIN d.tasks : d.tasks[i].id = id
  BY DEF Ids
<1> QED
  BY <1>1 DEF TaskOf

(* With unique ids, every task is found by its own.                        *)
LEMMA TaskIsItself ==
  ASSUME NEW d \in SentDag, \A i, j \in DOMAIN d.tasks : d.tasks[i].id = d.tasks[j].id => i = j,
         NEW i \in DOMAIN d.tasks
  PROVE  d.tasks[i].id \in Ids(d) /\ DependsOn(d, d.tasks[i].id) = d.tasks[i].dependsOn
<1>1. d.tasks[i].id \in Ids(d)
  BY DEF Ids
<1>2. PICK j \in DOMAIN d.tasks : d.tasks[j].id = d.tasks[i].id /\ TaskOf(d, d.tasks[i].id) = d.tasks[j]
  BY <1>1, TaskFound
<1>3. j = i
  BY <1>2
<1> QED
  BY <1>1, <1>2, <1>3 DEF DependsOn

(* Every task depends on tasks of the DAG, on none twice.                  *)
DependenciesRight(d) ==
  \A id \in Ids(d) : IsInjective(DependsOn(d, id)) /\ Range(DependsOn(d, id)) \subseteq Ids(d)

(* The check of the dependencies by position is one by id.                 *)
LEMMA DependenciesSound ==
  ASSUME NEW d \in SentDag, \A i, j \in DOMAIN d.tasks : d.tasks[i].id = d.tasks[j].id => i = j
  PROVE  /\ DependenciesKnown(d) <=> DependenciesRight(d)
         /\ DependenciesRight(d) => Wired(d)
<1>1. ASSUME NEW i \in DOMAIN d.tasks
      PROVE  d.tasks[i].id \in Ids(d) /\ DependsOn(d, d.tasks[i].id) = d.tasks[i].dependsOn
  BY TaskIsItself
<1>2. ASSUME NEW id \in Ids(d)
      PROVE  \E i \in DOMAIN d.tasks : d.tasks[i].id = id /\ DependsOn(d, id) = d.tasks[i].dependsOn
  BY TaskFound DEF DependsOn
<1>3. \A q : ToSet(q) = Range(q)
  BY DEF ToSet, Range
<1>4. DependenciesKnown(d) => DependenciesRight(d)
  <2> SUFFICES ASSUME DependenciesKnown(d), NEW id \in Ids(d)
               PROVE  IsInjective(DependsOn(d, id)) /\ Range(DependsOn(d, id)) \subseteq Ids(d)
    BY DEF DependenciesRight
  <2>1. PICK i \in DOMAIN d.tasks : d.tasks[i].id = id /\ DependsOn(d, id) = d.tasks[i].dependsOn
    BY <1>2
  <2>2. ToSet(d.tasks[i].dependsOn) \subseteq Ids(d) /\ IsInjective(d.tasks[i].dependsOn)
    BY DEF DependenciesKnown
  <2> QED
    BY <1>3, <2>1, <2>2
<1>5. DependenciesRight(d) => DependenciesKnown(d)
  <2> SUFFICES ASSUME DependenciesRight(d), NEW i \in DOMAIN d.tasks
               PROVE  ToSet(d.tasks[i].dependsOn) \subseteq Ids(d) /\ IsInjective(d.tasks[i].dependsOn)
    BY DEF DependenciesKnown
  <2>1. d.tasks[i].id \in Ids(d) /\ DependsOn(d, d.tasks[i].id) = d.tasks[i].dependsOn
    BY <1>1
  <2>2. IsInjective(DependsOn(d, d.tasks[i].id)) /\ Range(DependsOn(d, d.tasks[i].id)) \subseteq Ids(d)
    BY <2>1 DEF DependenciesRight
  <2> QED
    BY <1>3, <2>1, <2>2
<1>6. ASSUME DependenciesRight(d)
      PROVE  Wired(d)
  <2>1. ASSUME NEW id \in Ids(d)
        PROVE  DependsOn(d, id) \in Seq(Ids(d))
    <3>1. PICK i \in DOMAIN d.tasks : d.tasks[i].id = id /\ DependsOn(d, id) = d.tasks[i].dependsOn
      BY <1>2
    <3>2. d.tasks[i] \in DagTask
      BY DEF SentDag
    <3> PICK q \in Seq(Nat) : q = DependsOn(d, id)
      BY <3>1, <3>2 DEF DagTask
    <3>3. Range(q) \subseteq Ids(d)
      BY <1>6 DEF DependenciesRight
    <3>4. \A k \in DOMAIN q : q[k] \in Ids(d)
      BY <3>3 DEF Range
    <3>5. q \in Seq(Ids(d))
      BY <3>4
    <3> QED
      BY <3>5
  <2>2. IsFiniteSet(Ids(d))
    BY IdsCounted
  <2> QED
    BY <2>1, <2>2 DEF Wired
<1> QED
  BY <1>4, <1>5, <1>6

(* Counting the dependants by position counts them by id.                  *)
LEMMA FanoutSound ==
  ASSUME NEW d \in SentDag, \A i, j \in DOMAIN d.tasks : d.tasks[i].id = d.tasks[j].id => i = j
  PROVE  FanoutBounded(d) <=>
           /\ d.maxFanout > 0
           /\ \A id \in Ids(d) :
                Cardinality({t \in Ids(d) : id \in Range(DependsOn(d, t))}) <= d.maxFanout
<1>1. ASSUME NEW id
      PROVE  Cardinality({t \in Ids(d) : id \in Range(DependsOn(d, t))})
             = Cardinality({i \in DOMAIN d.tasks : id \in ToSet(d.tasks[i].dependsOn)})
  <2> PICK A : A = {i \in DOMAIN d.tasks : id \in ToSet(d.tasks[i].dependsOn)}
    OBVIOUS
  <2> PICK B : B = {t \in Ids(d) : id \in Range(DependsOn(d, t))}
    OBVIOUS
  <2>1. \A q : ToSet(q) = Range(q)
    BY DEF ToSet, Range
  <2> DEFINE f == [i \in A |-> d.tasks[i].id]
  <2>2. \A i \in A : f[i] \in B
    <3> SUFFICES ASSUME NEW i \in A
                 PROVE  f[i] \in B
      OBVIOUS
    <3>1. i \in DOMAIN d.tasks /\ id \in Range(d.tasks[i].dependsOn)
      BY <2>1
    <3>2. d.tasks[i].id \in Ids(d) /\ DependsOn(d, d.tasks[i].id) = d.tasks[i].dependsOn
      BY <3>1, TaskIsItself
    <3> QED
      BY <3>1, <3>2
  <2>3. \A i, j \in A : f[i] = f[j] => i = j
    OBVIOUS
  <2>4. ASSUME NEW t \in B
        PROVE  \E i \in A : f[i] = t
    <3>1. PICK i \in DOMAIN d.tasks : d.tasks[i].id = t /\ DependsOn(d, t) = d.tasks[i].dependsOn
      BY TaskFound DEF DependsOn
    <3>2. i \in A
      BY <2>1, <3>1
    <3> QED
      BY <3>1, <3>2
  <2>5. f \in [A -> B]
    BY <2>2
  <2> HIDE DEF f
  <2>6. f \in Bijection(A, B)
    BY <2>3, <2>4, <2>5 DEF Bijection, Injection, Surjection, IsInjective
  <2>7. ExistsBijection(A, B)
    BY <2>6 DEF ExistsBijection
  <2>8. IsFiniteSet(A)
    <3>1. d.tasks \in Seq(DagTask)
      BY DEF SentDag
    <3> PICK n \in Nat : n = Len(d.tasks) /\ DOMAIN d.tasks = 1..n
      BY <3>1, LenProperties
    <3> PICK D : D = 1..n
      OBVIOUS
    <3>2. IsFiniteSet(D)
      BY FS_Interval
    <3>3. A \in SUBSET D
      OBVIOUS
    <3> QED
      BY <3>2, <3>3, FS_Subset
  <2>9. Cardinality(B) = Cardinality(A)
    BY <2>7, <2>8, FS_Bijection
  <2> QED
    BY <2>9
<1>2. FanoutBounded(d) <=>
        /\ d.maxFanout > 0
        /\ \A id \in Ids(d) :
             Cardinality({i \in DOMAIN d.tasks : id \in ToSet(d.tasks[i].dependsOn)}) <= d.maxFanout
  BY DEF FanoutBounded
<1> QED
  BY <1>1, <1>2

(* What the server accepts is exactly what can be run.                     *)
LEMMA ValidIsRunnable ==
  ASSUME NEW d \in SentDag
  PROVE  Validate(d) <=> Runnable(d)
<1> DEFINE Unique == \A i, j \in DOMAIN d.tasks : d.tasks[i].id = d.tasks[j].id => i = j
           Paid == SumFunction([i \in DOMAIN d.tasks |-> d.tasks[i].cost]) <= d.budget
           Narrow == /\ d.maxFanout > 0
                     /\ \A id \in Ids(d) :
                          Cardinality({t \in Ids(d) : id \in Range(DependsOn(d, t))}) <= d.maxFanout
<1>1. Runnable(d) <=> Unique /\ Paid /\ DependenciesRight(d) /\ Peels(d, Ids(d)) /\ Narrow
  <2>1. Peels(d, Ids(d)) <=>
          \A S \in (SUBSET Ids(d)) \ {{}} : \E id \in S : S \cap Range(DependsOn(d, id)) = {}
    BY DEF Peels, Deps
  <2>2. Runnable(d) <=> /\ Unique /\ Paid /\ DependenciesRight(d)
                        /\ \A S \in (SUBSET Ids(d)) \ {{}} : \E id \in S : S \cap Range(DependsOn(d, id)) = {}
                        /\ Narrow
    BY DEF Runnable, DependenciesRight
  <2> HIDE DEF Unique, Paid, Narrow
  <2> QED
    BY <2>1, <2>2
<1>2. UniqueIds(d) <=> Unique
  BY IdsCounted
<1>3. WithinBudget(d) <=> Paid
  <2>1. d.tasks \in Seq(DagTask) /\ d.budget \in 0..MaxUint
    BY DEF SentDag
  <2>2. \A x \in DagTask : x.cost \in Nat
    BY MaxUintAssumption DEF DagTask
  <2> HIDE DEF Paid
  <2> QED
    BY <2>1, <2>2, BudgetSound DEF Paid
<1>4. ASSUME Unique
      PROVE  /\ DependenciesKnown(d) <=> DependenciesRight(d)
             /\ DependenciesRight(d) => (NoCycle(d) <=> Peels(d, Ids(d)))
             /\ FanoutBounded(d) <=> Narrow
  <2>1. /\ DependenciesKnown(d) <=> DependenciesRight(d)
        /\ DependenciesRight(d) => Wired(d)
    BY <1>4, DependenciesSound
  <2>2. DependenciesRight(d) => (NoCycle(d) <=> Peels(d, Ids(d)))
    BY <2>1, IdsCounted, NoCycleSound
  <2>3. FanoutBounded(d) <=> Narrow
    BY <1>4, FanoutSound
  <2> HIDE DEF Narrow
  <2> QED
    BY <2>1, <2>2, <2>3
<1> HIDE DEF Unique, Paid, Narrow
<1> QED
  BY <1>1, <1>2, <1>3, <1>4 DEF Validate

-----------------------------------------------------------------------------
(* Route.                                                                  *)

(* Before is strict.                                                       *)
LEMMA BeforeStrict ==
  ASSUME NEW a \in CatalogAgent, NEW b \in CatalogAgent, NEW task
  PROVE  ~Before(a, a, task) /\ (Before(a, b, task) => ~Before(b, a, task))
<1> PICK ea, eb : /\ ea = Eligible(a, task) /\ eb = Eligible(b, task)
                  /\ ea \in BOOLEAN /\ eb \in BOOLEAN
  BY DEF Eligible, CatalogAgent
<1>1. a.priority \in Int /\ b.priority \in Int /\ a.id \in Nat /\ b.id \in Nat
  BY IntsAreInts DEF CatalogAgent
<1> QED
  BY <1>1 DEF Before

(* Before is a preference: what is not preferred to b is not preferred to  *)
(* what b is not preferred to.                                             *)
LEMMA BeforeOrders ==
  ASSUME NEW a \in CatalogAgent, NEW b \in CatalogAgent, NEW c \in CatalogAgent, NEW task,
         ~Before(b, a, task), ~Before(c, b, task)
  PROVE  ~Before(c, a, task) /\ ~Before(a, a, task)
<1> PICK ea, eb, ec : /\ ea = Eligible(a, task) /\ eb = Eligible(b, task) /\ ec = Eligible(c, task)
                      /\ ea \in BOOLEAN /\ eb \in BOOLEAN /\ ec \in BOOLEAN
  BY DEF Eligible, CatalogAgent
<1>1. /\ a.priority \in Int /\ b.priority \in Int /\ c.priority \in Int
      /\ a.id \in Nat /\ b.id \in Nat /\ c.id \in Nat
  BY IntsAreInts DEF CatalogAgent
<1> QED
  BY <1>1 DEF Before

(* Among finitely many agents there is one that none is preferred to.      *)
LEMMA BestExists ==
  ASSUME NEW n \in Nat, NEW task
  PROVE  \A A \in SUBSET CatalogAgent : IsFiniteSet(A) /\ Cardinality(A) = n /\ A # {}
           => \E a \in A : \A b \in A : ~Before(b, a, task)
<1> DEFINE Has(m) == \A A \in SUBSET CatalogAgent : IsFiniteSet(A) /\ Cardinality(A) = m /\ A # {}
                       => \E a \in A : \A b \in A : ~Before(b, a, task)
           T == {m \in 0..n : Has(m)}
<1>1. 0 \in T
  <2>1. Has(0)
    BY FS_EmptySet
  <2> QED
    BY <2>1
<1>2. ASSUME NEW m \in 0..n, m \in T, m < n
      PROVE  m + 1 \in T
  <2>1. Has(m) /\ m \in Nat
    BY <1>2
  <2>2. ASSUME NEW A \in SUBSET CatalogAgent, IsFiniteSet(A), Cardinality(A) = m + 1, NEW x \in A
        PROVE  \E a \in A : \A b \in A : ~Before(b, a, task)
    <3> PICK R : R = A \ {x}
      OBVIOUS
    <3>1. IsFiniteSet(R) /\ Cardinality(R) = m /\ R \in SUBSET CatalogAgent
      <4>1. Cardinality(R) = (m + 1) - 1
        BY <2>2, FS_RemoveElement
      <4> QED
        BY <2>1, <2>2, <4>1, FS_RemoveElement
    <3>2. ~Before(x, x, task) /\ \A b \in A : Before(x, b, task) => ~Before(b, x, task)
      BY <2>2, BeforeStrict
    <3>3. CASE R = {}
      BY <3>2, <3>3
    <3>4. CASE R # {}
      <4>1. PICK a \in R : \A b \in R : ~Before(b, a, task)
        BY <2>1, <3>1, <3>4
      <4>2. CASE ~Before(x, a, task)
        BY <4>1, <4>2
      <4>3. CASE Before(x, a, task)
        <5>1. ~Before(a, x, task)
          BY <3>2, <4>3
        <5>2. ASSUME NEW b \in R
              PROVE  ~Before(b, x, task)
          BY <4>1, <5>1, BeforeOrders
        <5> QED
          BY <3>2, <5>2
      <4> QED
        BY <4>2, <4>3
    <3> QED
      BY <3>3, <3>4
  <2>3. Has(m + 1)
    BY <2>2
  <2> HIDE DEF Has
  <2> QED
    BY <1>2, <2>3
<1>3. \A m \in 0..n : m \in T
  <2> HIDE DEF T
  <2> QED
    BY <1>1, <1>2, InductionTo
<1>4. n \in 0..n
  OBVIOUS
<1> QED
  BY <1>3, <1>4

(* s lists the n agents of A, none after one that it is preferred to.      *)
Ranked(s, A, n, task) ==
  /\ s \in [1..n -> A] /\ IsInjective(s)
  /\ \A i, j \in 1..n : i < j => ~Before(s[j], s[i], task)

(* Finitely many agents have such a list: the one of all but a best one    *)
(* follows it.                                                             *)
LEMMA CanBeRanked ==
  ASSUME NEW n \in Nat, NEW task
  PROVE  \A A \in SUBSET CatalogAgent : IsFiniteSet(A) /\ Cardinality(A) = n => \E s : Ranked(s, A, n, task)
<1> DEFINE Rankable(m) == \A A \in SUBSET CatalogAgent :
             IsFiniteSet(A) /\ Cardinality(A) = m => \E s : Ranked(s, A, m, task)
           T == {m \in 0..n : Rankable(m)}
<1>1. 0 \in T
  <2>1. ASSUME NEW A \in SUBSET CatalogAgent
        PROVE  Ranked([i \in 1..0 |-> 0], A, 0, task)
    BY DEF Ranked, IsInjective
  <2>2. Rankable(0)
    BY <2>1
  <2> HIDE DEF Rankable
  <2> QED
    BY <2>2
<1>2. ASSUME NEW m \in 0..n, m \in T, m < n
      PROVE  m + 1 \in T
  <2>1. Rankable(m) /\ m \in Nat /\ m + 1 \in Nat /\ m + 1 # 0
    BY <1>2
  <2>2. ASSUME NEW A \in SUBSET CatalogAgent, IsFiniteSet(A), Cardinality(A) = m + 1
        PROVE  \E s : Ranked(s, A, m + 1, task)
    <3>1. A # {}
      BY <2>1, <2>2, FS_EmptySet
    <3>2. PICK x \in A : \A b \in A : ~Before(b, x, task)
      BY <2>1, <2>2, <3>1, BestExists
    <3> PICK R : R = A \ {x}
      OBVIOUS
    <3>3. IsFiniteSet(R) /\ Cardinality(R) = m /\ R \in SUBSET CatalogAgent
      <4>1. Cardinality(R) = (m + 1) - 1
        BY <2>2, FS_RemoveElement
      <4> QED
        BY <2>1, <2>2, <4>1, FS_RemoveElement
    <3>4. PICK r : Ranked(r, R, m, task)
      BY <2>1, <3>3
    <3> DEFINE s == [i \in 1..(m + 1) |-> IF i = 1 THEN x ELSE r[i - 1]]
    <3>5. \A i \in 1..(m + 1) : i = 1 \/ i - 1 \in 1..m
      BY <2>1
    <3>6. \A i \in 1..m : r[i] \in R
      BY <3>4 DEF Ranked
    <3>7. \A i \in 1..(m + 1) : s[i] = IF i = 1 THEN x ELSE r[i - 1]
      OBVIOUS
    <3>8. s \in [1..(m + 1) -> A]
      BY <3>5, <3>6
    <3> HIDE DEF s
    <3>9. ASSUME NEW i \in 1..(m + 1), NEW j \in 1..(m + 1), i < j
          PROVE  s[i] # s[j] /\ ~Before(s[j], s[i], task)
      <4>1. j # 1 /\ j - 1 \in 1..m /\ s[j] = r[j - 1]
        BY <2>1, <3>7, <3>9
      <4>2. CASE i = 1
        BY <3>2, <3>6, <3>7, <4>1, <4>2
      <4>3. CASE i # 1
        <5>1. i - 1 \in 1..m /\ s[i] = r[i - 1] /\ i - 1 < j - 1 /\ i - 1 # j - 1
          BY <2>1, <3>7, <3>9, <4>3
        <5>2. DOMAIN r = 1..m
          BY <3>4 DEF Ranked
        <5> QED
          BY <3>4, <4>1, <5>1, <5>2 DEF Ranked, IsInjective
      <4> QED
        BY <4>2, <4>3
    <3>10. IsInjective(s)
      <4> SUFFICES ASSUME NEW i \in 1..(m + 1), NEW j \in 1..(m + 1), i # j
                   PROVE  s[i] # s[j]
        BY <3>8 DEF IsInjective
      <4>1. i < j \/ j < i
        BY <2>1
      <4> QED
        BY <3>9, <4>1
    <3> QED
      BY <3>8, <3>9, <3>10 DEF Ranked
  <2>3. Rankable(m + 1)
    BY <2>2
  <2> HIDE DEF Rankable
  <2> QED
    BY <1>2, <2>3
<1>3. \A m \in 0..n : m \in T
  <2> HIDE DEF T
  <2> QED
    BY <1>1, <1>2, InductionTo
<1>4. n \in 0..n
  OBVIOUS
<1> QED
  BY <1>3, <1>4

(* The first eligible candidate is the best agent able to do the task.     *)
LEMMA RouteSound ==
  ASSUME NEW c \in SentCatalog, NEW task
  PROVE  IF Able(c, task) = {} THEN Route(c, task) = 0
         ELSE \E a \in Able(c, task) : a.id = Route(c, task) /\ IsBest(a, Able(c, task))
<1> PICK agents \in Seq(CatalogAgent) : agents = c.agents
  BY DEF SentCatalog
<1> PICK m \in Nat : m = Len(agents) /\ DOMAIN agents = 1..m
  BY LenProperties
<1> PICK A : A = ToSet(c.agents)
  OBVIOUS
<1>1. A \in SUBSET CatalogAgent /\ A = Range(c.agents)
  <2>1. \A i \in 1..m : agents[i] \in CatalogAgent
    OBVIOUS
  <2> QED
    BY <2>1 DEF ToSet, Range
<1>2. IsFiniteSet(A)
  <2>1. [i \in 1..m |-> agents[i]] \in Surjection(1..m, A)
    BY <1>1 DEF Surjection, Range
  <2>2. IsFiniteSet(1..m)
    BY FS_Interval
  <2> QED
    BY <2>1, <2>2, FS_Surjection
<1> PICK n \in Nat : n = Cardinality(A)
  BY <1>2, FS_CardinalityType
<1> PICK s : s = Candidates(c, task)
  OBVIOUS
<1>3. Ranked(s, A, n, task)
  <2>1. PICK r : Ranked(r, A, n, task)
    BY <1>1, <1>2, CanBeRanked
  <2> DEFINE Right(r1) == IsInjective(r1) /\ \A i, j \in DOMAIN r1 : i < j => ~Before(r1[j], r1[i], task)
  <2>2. r \in [1..n -> A] /\ Right(r)
    BY <2>1 DEF Ranked
  <2>3. s = CHOOSE r1 \in [1..n -> A] : Right(r1)
    BY DEF Candidates
  <2>4. s \in [1..n -> A] /\ Right(s)
    <3> HIDE DEF Right
    <3> QED
      BY <2>2, <2>3
  <2> QED
    BY <2>4 DEF Ranked
<1>4. s \in [1..n -> A] /\ DOMAIN s = 1..n /\ \A i \in 1..n : s[i] \in A
  BY <1>3 DEF Ranked
<1>5. \A a \in A : \E i \in 1..n : s[i] = a
  <2>1. s \in Injection(1..n, A)
    BY <1>3 DEF Ranked, Injection
  <2>2. Cardinality(1..n) = n
    BY FS_Interval
  <2>3. s \in Surjection(1..n, A)
    BY <1>2, <2>1, <2>2, FS_Injection
  <2> QED
    BY <2>3 DEF Surjection
<1> PICK E : E = {i \in 1..n : Eligible(s[i], task)}
  OBVIOUS
<1>6. Route(c, task) = IF E = {} THEN 0 ELSE s[Min(E)].id
  BY <1>4 DEF Route
<1>7. \A a : a \in Able(c, task) <=> a \in A /\ Eligible(a, task)
  BY <1>1 DEF Able, Eligible
<1>8. CASE E = {}
  <2>1. Able(c, task) = {}
    BY <1>5, <1>7, <1>8
  <2> QED
    BY <1>6, <1>8, <2>1
<1>9. CASE E # {}
  <2>1. E \subseteq Nat
    OBVIOUS
  <2>2. Min(E) \in E /\ \A j \in E : Min(E) <= j
    <3>1. \E i \in E : \A j \in E : i <= j
      BY <1>9, <2>1, LeastExists
    <3> QED
      BY <3>1 DEF Min
  <2> PICK i \in 1..n : i = Min(E)
    BY <2>2
  <2> PICK a \in A : a = s[i]
    BY <1>4
  <2>3. Eligible(a, task) /\ a \in Able(c, task) /\ a.id = Route(c, task)
    BY <1>6, <1>7, <1>9, <2>2
  <2>4. ASSUME NEW b \in Able(c, task) \ {a}
        PROVE  a.priority > b.priority \/ (a.priority = b.priority /\ a.id <= b.id)
    <3>1. b \in A /\ Eligible(b, task)
      BY <1>7
    <3>2. PICK j \in 1..n : s[j] = b
      BY <1>5, <3>1
    <3>3. i <= j /\ i # j
      BY <2>2, <3>1, <3>2
    <3>4. i < j
      BY <3>3
    <3>5. ~Before(b, a, task)
      BY <1>3, <3>2, <3>4 DEF Ranked
    <3>6. /\ ~(b.priority > a.priority) /\ ~(b.priority = a.priority /\ b.id < a.id)
      BY <2>3, <3>1, <3>5 DEF Before
    <3>7. a.priority \in Int /\ b.priority \in Int /\ a.id \in Nat /\ b.id \in Nat
      BY <1>1, <3>1, IntsAreInts DEF CatalogAgent
    <3> QED
      BY <3>6, <3>7
  <2> QED
    BY <2>3, <2>4 DEF IsBest
<1> QED
  BY <1>8, <1>9

-----------------------------------------------------------------------------
(* The order of the tasks.                                                 *)

(* A step of Kahn's algorithm, and the state it starts in.                 *)
Kahn(d, s) == IF s.ready = <<>> THEN s ELSE TakeReady(d, s)
KahnStart(d) ==
  LET indegree == [t \in Ids(d) |-> Len(DependsOn(d, t))]
  IN [out |-> <<>>, ready |-> Sorted({t \in Ids(d) : indegree[t] = 0}), indegree |-> indegree]

(* The recursive function of Topological goes through these steps.         *)
LEMMA KahnSteps ==
  ASSUME NEW d, NEW n \in Nat, n = Len(d.tasks)
  PROVE  \E f : /\ f[0] = KahnStart(d) /\ \A k \in 1..n : f[k] = Kahn(d, f[k - 1])
                /\ Topological(d) = f[n].out
<1> DEFINE Eq(f, k) == IF k = 0 THEN KahnStart(d) ELSE Kahn(d, f[k - 1])
           Is(f) == f = [k \in 0..n |-> Eq(f, k)]
           g == CHOOSE f : Is(f)
           S == {m \in 0..n : \E f : \A k \in 0..m : f[k] = Eq(f, k)}
<1>1. 0 \in S
  <2> DEFINE f == [k \in {0} |-> KahnStart(d)]
  <2>1. f[0] = KahnStart(d) /\ 0 \in 0..n /\ \A k \in 0..0 : k = 0
    OBVIOUS
  <2> HIDE DEF f
  <2>2. \A k \in 0..0 : f[k] = Eq(f, k)
    BY <2>1
  <2> QED
    BY <2>1, <2>2
<1>2. ASSUME NEW m \in 0..n, m \in S, m < n
      PROVE  m + 1 \in S
  <2>1. PICK f : \A k \in 0..m : f[k] = Eq(f, k)
    BY <1>2
  <2>2. /\ m \in 0..m /\ m + 1 \in 0..n /\ m + 1 # 0 /\ (m + 1) - 1 = m
        /\ \A k \in 0..(m + 1) : k = m + 1 \/ (k \in 0..m /\ k # m + 1)
        /\ \A k \in 0..m : k = 0 \/ k - 1 \in 0..m
    BY <1>2
  <2> DEFINE h == [k \in 0..(m + 1) |-> IF k = m + 1 THEN Kahn(d, f[m]) ELSE f[k]]
  <2>3. h[m + 1] = Kahn(d, f[m]) /\ \A k \in 0..m : h[k] = f[k]
    BY <1>2
  <2> HIDE DEF h
  <2>4. ASSUME NEW k \in 0..m
        PROVE  h[k] = Eq(h, k)
    BY <2>1, <2>2, <2>3
  <2>5. h[m + 1] = Eq(h, m + 1)
    BY <2>2, <2>3
  <2>6. \A k \in 0..(m + 1) : h[k] = Eq(h, k)
    BY <2>2, <2>4, <2>5
  <2> QED
    BY <2>2, <2>6
<1>3. \A m \in 0..n : m \in S
  <2> HIDE DEF S
  <2> QED
    BY <1>1, <1>2, InductionTo
<1>4. \A k \in 0..n : k = 0 \/ k - 1 \in 0..n
  OBVIOUS
<1>5. \E f : Is(f)
  <2>1. n \in 0..n
    OBVIOUS
  <2>2. PICK f : \A k \in 0..n : f[k] = Eq(f, k)
    BY <1>3, <2>1
  <2> DEFINE h == [k \in 0..n |-> f[k]]
  <2>3. \A k \in 0..n : h[k] = f[k]
    OBVIOUS
  <2>4. h = [k \in 0..n |-> Eq(f, k)]
    BY <2>2
  <2> HIDE DEF h
  <2>5. \A k \in 0..n : Eq(f, k) = Eq(h, k)
    BY <1>4, <2>3
  <2>6. h = [k \in 0..n |-> Eq(h, k)]
    BY <2>4, <2>5
  <2> QED
    BY <2>6
<1>6. Is(g)
  BY <1>5
<1>7. Topological(d) = g[n].out
  BY DEF Topological, KahnStart, Kahn
<1> HIDE DEF g
<1>8. \A k \in 0..n : g[k] = Eq(g, k)
  BY <1>6
<1>9. g[0] = KahnStart(d) /\ \A k \in 1..n : g[k] = Kahn(d, g[k - 1])
  BY <1>8
<1> QED
  BY <1>7, <1>9

(* The tasks that may be next when those of O are out.                     *)
Free(d, O) == {t \in Ids(d) \ O : Deps(d, t) \subseteq O}
(* The tasks before position i; an order that always takes the least free  *)
(* one.                                                                    *)
Earlier(s, i) == {s[j] : j \in 1..(i - 1)}
LeastFree(d, s) ==
  \A i \in DOMAIN s : s[i] \in Free(d, Earlier(s, i)) /\ \A t \in Free(d, Earlier(s, i)) : s[i] <= t

(* The state of the loop after k tasks.                                    *)
KahnRight(d, k, s) ==
  LET O == Range(s.out)
  IN /\ s.out \in Seq(Ids(d)) /\ Len(s.out) = k
     /\ Cardinality(O) = k /\ Closed(d, O)
     /\ s.ready = Sorted(Free(d, O))
     /\ s.indegree = [t \in Ids(d) |-> Cardinality(Deps(d, t) \ O)]
     /\ LeastFree(d, s.out)

(* A DAG that Validate has accepted.                                       *)
Proper(d) ==
  /\ Wired(d) /\ Ids(d) \in SUBSET Nat /\ Peels(d, Ids(d))
  /\ \A id \in Ids(d) : IsInjective(DependsOn(d, id))

(* A sequence of elements of a set is one of any larger set.               *)
LEMMA SeqWithin ==
  ASSUME NEW S, NEW T, S \subseteq T, NEW q \in Seq(S)
  PROVE  q \in Seq(T)
<1> PICK n \in Nat : n = Len(q) /\ DOMAIN q = 1..n
  BY LenProperties
<1>1. q \in [1..n -> T]
  <2>1. \A i \in 1..n : q[i] \in T
    OBVIOUS
  <2>2. q = [i \in 1..n |-> q[i]]
    OBVIOUS
  <2> QED
    BY <2>1, <2>2
<1> QED
  BY <1>1

(* A sorted list begins with its least element, and its tail holds the     *)
(* others.                                                                 *)
LEMMA HeadIsLeast ==
  ASSUME NEW S \in SUBSET Nat, IsFiniteSet(S), S # {}
  PROVE  LET s == Sorted(S)
         IN /\ s # <<>> /\ Head(s) \in S /\ \A t \in S : Head(s) <= t
            /\ Tail(s) \in Seq(S) /\ Range(Tail(s)) = S \ {Head(s)}
<1> PICK s : s = Sorted(S)
  OBVIOUS
<1> PICK n \in Nat : n = Cardinality(S)
  BY FS_CardinalityType
<1>1. s \in Seq(S) /\ Range(s) = S /\ Ascending(s, S, n)
  BY SortedLists
<1>2. s \in [1..n -> S] /\ DOMAIN s = 1..n /\ Len(s) = n
  BY <1>1 DEF Ascending
<1>3. n # 0
  BY FS_EmptySet
<1>4. s # <<>> /\ Head(s) = s[1] /\ 1 \in 1..n
  BY <1>1, <1>2, <1>3
<1>5. \A i, j \in 1..n : i < j => s[i] < s[j]
  BY <1>1 DEF Ascending
<1>6. \A i \in 1..n : s[i] \in Nat /\ s[i] \in S
  BY <1>2
<1>7. ASSUME NEW i \in 1..n, i # 1
      PROVE  s[1] < s[i]
  <2>1. 1 < i
    BY <1>7
  <2> QED
    BY <1>4, <1>5, <2>1
<1>8. \A t \in S : \E i \in 1..n : t = s[i]
  BY <1>1, <1>2 DEF Range
<1>9. ASSUME NEW t \in S
      PROVE  s[1] <= t
  <2>1. PICK i \in 1..n : t = s[i]
    BY <1>8
  <2>2. i = 1 \/ s[1] < s[i]
    BY <1>7
  <2> QED
    BY <1>4, <1>6, <2>1, <2>2
<1>10. Tail(s) \in Seq(S) /\ DOMAIN Tail(s) = 1..(n - 1) /\ \A i \in 1..(n - 1) : Tail(s)[i] = s[i + 1]
  BY <1>1, <1>2, <1>4
<1>11. Range(Tail(s)) = S \ {s[1]}
  <2>1. ASSUME NEW i \in 1..(n - 1)
        PROVE  s[i + 1] \in S \ {s[1]}
    <3>1. i + 1 \in 1..n /\ i + 1 # 1
      OBVIOUS
    <3>2. s[1] < s[i + 1] /\ s[i + 1] \in S /\ s[i + 1] \in Nat /\ s[1] \in Nat
      BY <1>4, <1>6, <1>7, <3>1
    <3> QED
      BY <3>2
  <2>2. ASSUME NEW t \in S \ {s[1]}
        PROVE  \E i \in 1..(n - 1) : t = s[i + 1]
    <3>1. PICK i \in 1..n : t = s[i]
      BY <1>8
    <3>2. i # 1
      BY <3>1
    <3>3. i - 1 \in 1..(n - 1) /\ (i - 1) + 1 = i
      BY <3>2
    <3> QED
      BY <3>1, <3>3
  <2> PICK r : r = Tail(s)
    OBVIOUS
  <2>3. Range(r) = {s[i + 1] : i \in 1..(n - 1)}
    BY <1>10 DEF Range
  <2>4. \A t \in Range(r) : t \in S \ {s[1]}
    BY <2>1, <2>3
  <2>5. \A t \in S \ {s[1]} : t \in Range(r)
    BY <2>2, <2>3
  <2> QED
    BY <2>4, <2>5
<1> QED
  BY <1>4, <1>6, <1>9, <1>10, <1>11

(* Taking a task out makes it the last one and frees what waited for it.   *)
LEMMA FreedByTaking ==
  ASSUME NEW d, Proper(d), NEW O \in SUBSET Ids(d), Closed(d, O), NEW id \in Free(d, O)
  PROVE  /\ Closed(d, O \cup {id})
         /\ Free(d, O \cup {id})
            = (Free(d, O) \ {id}) \cup {t \in Ids(d) : id \in Deps(d, t) /\ Deps(d, t) \subseteq O \cup {id}}
<1> PICK Q : Q = O \cup {id}
  OBVIOUS
<1>1. id \in Ids(d) /\ id \notin O /\ Deps(d, id) \subseteq O
  BY DEF Free
<1>2. Closed(d, Q)
  BY <1>1 DEF Closed
<1>3. ASSUME NEW t \in Ids(d)
      PROVE  t \in Free(d, Q) <=> \/ t \in Free(d, O) \ {id}
                                  \/ id \in Deps(d, t) /\ Deps(d, t) \subseteq Q
  <2>1. id \in Deps(d, t) => t \notin O /\ t # id
    BY <1>1 DEF Closed
  <2>2. id \notin Deps(d, t) => (Deps(d, t) \subseteq Q <=> Deps(d, t) \subseteq O)
    OBVIOUS
  <2> QED
    BY <2>1, <2>2 DEF Free
<1>4. \A t : t \in Free(d, Q) => t \in Ids(d)
  BY DEF Free
<1>5. \A t : t \in Free(d, O) => t \in Ids(d)
  BY DEF Free
<1> QED
  BY <1>2, <1>3, <1>4, <1>5

(* Some task is free as long as some task is left.                         *)
LEMMA SomeFree ==
  ASSUME NEW d, Proper(d), NEW O \in SUBSET Ids(d), O # Ids(d)
  PROVE  Free(d, O) # {}
<1> PICK L : L = Ids(d) \ O
  OBVIOUS
<1>1. L \in SUBSET Ids(d) /\ L # {}
  OBVIOUS
<1>2. PICK x \in L : L \cap Deps(d, x) = {}
  BY <1>1 DEF Proper, Peels
<1>3. Deps(d, x) \subseteq Ids(d)
  BY <1>1, DepsAreIds DEF Proper
<1>4. x \in Free(d, O)
  BY <1>2, <1>3 DEF Free
<1> QED
  BY <1>4

(* There are n numbers from 1 to n.                                        *)
LEMMA IntervalCounted ==
  ASSUME NEW n \in Nat
  PROVE  IsFiniteSet(1..n) /\ Cardinality(1..n) = n
BY FS_Interval

(* A task has as many dependencies as the length of their list.            *)
LEMMA DepsCounted ==
  ASSUME NEW d, Proper(d), NEW t \in Ids(d)
  PROVE  IsFiniteSet(Deps(d, t)) /\ Len(DependsOn(d, t)) = Cardinality(Deps(d, t))
<1> PICK q \in Seq(Ids(d)) : q = DependsOn(d, t)
  BY DEF Proper, Wired
<1> PICK n \in Nat : n = Len(q) /\ DOMAIN q = 1..n
  BY LenProperties
<1>1. q \in Surjection(1..n, Deps(d, t))
  <2>1. \A i \in 1..n : q[i] \in Deps(d, t)
    BY DEF Deps, Range
  <2>2. q = [i \in 1..n |-> q[i]]
    OBVIOUS
  <2>3. q \in [1..n -> Deps(d, t)]
    BY <2>1, <2>2
  <2> QED
    BY <2>3 DEF Surjection, Deps, Range
<1>2. q \in Injection(1..n, Deps(d, t))
  BY <1>1 DEF Injection, Surjection, Proper
<1>3. IsFiniteSet(1..n) /\ Cardinality(1..n) = n
  BY IntervalCounted
<1> QED
  BY <1>1, <1>2, <1>3, FS_Surjection

(* At first nothing is out, and what depends on nothing is ready.          *)
LEMMA KahnStarts ==
  ASSUME NEW d, Proper(d)
  PROVE  KahnRight(d, 0, KahnStart(d))
<1> PICK s : s = KahnStart(d)
  OBVIOUS
<1>1. ASSUME NEW t \in Ids(d)
      PROVE  /\ Len(DependsOn(d, t)) = Cardinality(Deps(d, t) \ {})
             /\ Len(DependsOn(d, t)) = 0 <=> Deps(d, t) \subseteq {}
  <2>1. IsFiniteSet(Deps(d, t)) /\ Len(DependsOn(d, t)) = Cardinality(Deps(d, t))
    BY DepsCounted
  <2>2. Deps(d, t) \ {} = Deps(d, t)
    OBVIOUS
  <2>3. Cardinality(Deps(d, t)) = 0 <=> Deps(d, t) = {}
    BY <2>1, FS_EmptySet
  <2> QED
    BY <2>1, <2>2, <2>3
<1> PICK indegree : indegree = [t \in Ids(d) |-> Len(DependsOn(d, t))]
  OBVIOUS
<1>2. s = [out |-> <<>>, ready |-> Sorted({t \in Ids(d) : indegree[t] = 0}), indegree |-> indegree]
  BY DEF KahnStart
<1>3. s.out = <<>> /\ s.ready = Sorted({t \in Ids(d) : indegree[t] = 0}) /\ s.indegree = indegree
  BY <1>2
<1>4. Range(s.out) = {} /\ DOMAIN s.out = {} /\ s.out \in Seq(Ids(d)) /\ Len(s.out) = 0
  BY <1>3 DEF Range
<1>5. {t \in Ids(d) : indegree[t] = 0} = Free(d, {})
  BY <1>1 DEF Free
<1>6. indegree = [t \in Ids(d) |-> Cardinality(Deps(d, t) \ {})]
  BY <1>1
<1>7. Cardinality({}) = 0 /\ Closed(d, {})
  BY FS_EmptySet DEF Closed
<1>8. LeastFree(d, s.out)
  BY <1>4 DEF LeastFree
<1> QED
  BY <1>3, <1>4, <1>5, <1>6, <1>7, <1>8 DEF KahnRight

(* A concatenation has the elements of both sequences.                     *)
LEMMA ConcatHolds ==
  ASSUME NEW S, NEW a \in Seq(S), NEW b \in Seq(S)
  PROVE  ToSet(a \o b) = Range(a) \cup Range(b)
<1> PICK n \in Nat : n = Len(a) /\ DOMAIN a = 1..n
  BY LenProperties
<1> PICK m \in Nat : m = Len(b) /\ DOMAIN b = 1..m
  BY LenProperties
<1> PICK c : c = a \o b
  OBVIOUS
<1>1. DOMAIN c = 1..(n + m) /\ \A i \in 1..(n + m) : c[i] = IF i <= n THEN a[i] ELSE b[i - n]
  <2>1. c \in Seq(S) /\ Len(c) = n + m
    BY ConcatProperties
  <2>2. \A i \in 1..(n + m) : c[i] = IF i <= n THEN a[i] ELSE b[i - n]
    BY ConcatProperties
  <2> QED
    BY <2>1, <2>2, LenProperties
<1>2. ASSUME NEW i \in 1..(n + m)
      PROVE  c[i] \in Range(a) \cup Range(b)
  <2>1. CASE i <= n
    <3>1. c[i] = a[i]
      BY <1>1, <2>1
    <3>2. i \in 1..n
      BY <2>1
    <3> QED
      BY <3>1, <3>2 DEF Range
  <2>2. CASE ~(i <= n)
    <3>1. c[i] = b[i - n]
      BY <1>1, <2>2
    <3>2. i - n \in 1..m
      BY <2>2
    <3> QED
      BY <3>1, <3>2 DEF Range
  <2> QED
    BY <2>1, <2>2
<1>3. ASSUME NEW i \in 1..n
      PROVE  \E j \in 1..(n + m) : c[j] = a[i]
  <2>1. i \in 1..(n + m) /\ i <= n
    OBVIOUS
  <2> QED
    BY <1>1, <2>1
<1>4. ASSUME NEW i \in 1..m
      PROVE  \E j \in 1..(n + m) : c[j] = b[i]
  <2>1. n + i \in 1..(n + m) /\ ~(n + i <= n) /\ (n + i) - n = i
    OBVIOUS
  <2>2. c[n + i] = b[i]
    BY <1>1, <2>1
  <2> QED
    BY <2>1, <2>2
<1>5. ToSet(c) = {c[i] : i \in 1..(n + m)}
  BY <1>1 DEF ToSet
<1>6. Range(a) = {a[i] : i \in 1..n} /\ Range(b) = {b[i] : i \in 1..m}
  BY DEF Range
<1>7. ASSUME NEW x
      PROVE  x \in ToSet(c) <=> x \in Range(a) \cup Range(b)
  <2>1. ASSUME x \in Range(a)
        PROVE  x \in ToSet(c)
    <3> PICK i \in 1..n : x = a[i]
      BY <1>6, <2>1
    <3>1. \E j \in 1..(n + m) : c[j] = x
      BY <1>3
    <3> QED
      BY <1>5, <3>1
  <2>2. ASSUME x \in Range(b)
        PROVE  x \in ToSet(c)
    <3> PICK i \in 1..m : x = b[i]
      BY <1>6, <2>2
    <3>1. \E j \in 1..(n + m) : c[j] = x
      BY <1>4
    <3> QED
      BY <1>5, <3>1
  <2> QED
    BY <1>2, <1>5, <2>1, <2>2
<1> QED
  BY <1>7

(* A step takes the least free task, frees the tasks that waited for it    *)
(* alone, and keeps the invariant.                                         *)
LEMMA KahnTakes ==
  ASSUME NEW d, Proper(d), NEW k \in Nat, k < Cardinality(Ids(d)), NEW s, KahnRight(d, k, s)
  PROVE  KahnRight(d, k + 1, Kahn(d, s))
<1> PICK O : O = Range(s.out)
  OBVIOUS
<1> PICK F : F = Free(d, O)
  OBVIOUS
<1>1. /\ s.out \in Seq(Ids(d)) /\ Len(s.out) = k /\ Cardinality(O) = k /\ Closed(d, O)
      /\ s.ready = Sorted(F) /\ s.indegree = [t \in Ids(d) |-> Cardinality(Deps(d, t) \ O)]
      /\ LeastFree(d, s.out)
  BY DEF KahnRight
<1>2. Ids(d) \in SUBSET Nat /\ IsFiniteSet(Ids(d)) /\ Wired(d)
  BY DEF Proper, Wired
<1>3. O \in SUBSET Ids(d) /\ O # Ids(d)
  <2>1. O \subseteq Ids(d)
    BY <1>1 DEF Range
  <2> QED
    BY <1>1, <2>1
<1>4. F \in SUBSET Ids(d) /\ F \in SUBSET Nat /\ F # {}
  <2>1. F # {}
    BY <1>3, SomeFree
  <2> QED
    BY <1>2, <2>1 DEF Free
<1>5. IsFiniteSet(F)
  BY <1>2, <1>4, FS_Subset
<1> PICK id : id = Head(s.ready)
  OBVIOUS
<1>6. /\ s.ready # <<>> /\ id \in F /\ \A t \in F : id <= t
      /\ Tail(s.ready) \in Seq(F) /\ Range(Tail(s.ready)) = F \ {id}
  BY <1>1, <1>4, <1>5, HeadIsLeast
<1> PICK Q : Q = O \cup {id}
  OBVIOUS
<1>7. id \in Ids(d) /\ id \notin O /\ Q \in SUBSET Ids(d)
  BY <1>3, <1>6 DEF Free
<1> PICK left : left = [t \in Ids(d) |-> s.indegree[t] - (IF id \in ToSet(DependsOn(d, t)) THEN 1 ELSE 0)]
  OBVIOUS
<1> PICK freed : freed = {t \in Ids(d) : id \in ToSet(DependsOn(d, t)) /\ left[t] = 0}
  OBVIOUS
<1> PICK t0 : t0 = Kahn(d, s)
  OBVIOUS
<1>8. t0 = [out |-> Append(s.out, id), ready |-> Queue(Tail(s.ready), Sorted(freed)), indegree |-> left]
  BY <1>6 DEF Kahn, TakeReady
<1>9. \A t : ToSet(DependsOn(d, t)) = Deps(d, t)
  BY DEF ToSet, Deps, Range
<1>10. ASSUME NEW t \in Ids(d)
       PROVE  /\ left[t] = Cardinality(Deps(d, t) \ Q)
              /\ left[t] = 0 <=> Deps(d, t) \subseteq Q
  <2> PICK D : D = Deps(d, t) \ O
    OBVIOUS
  <2>1. IsFiniteSet(D)
    <3>1. IsFiniteSet(Deps(d, t)) /\ D \in SUBSET Deps(d, t)
      BY DepsCounted
    <3> QED
      BY <3>1, FS_Subset
  <2>2. /\ IsFiniteSet(D \ {id})
        /\ Cardinality(D \ {id}) = IF id \in D THEN Cardinality(D) - 1 ELSE Cardinality(D)
    BY <2>1, FS_RemoveElement
  <2>3. Cardinality(D) \in Nat
    BY <2>1, FS_CardinalityType
  <2>4. id \in D <=> id \in ToSet(DependsOn(d, t))
    BY <1>7, <1>9
  <2>5. left[t] = Cardinality(D) - (IF id \in ToSet(DependsOn(d, t)) THEN 1 ELSE 0)
    BY <1>1
  <2>6. left[t] = Cardinality(D \ {id})
    BY <2>2, <2>3, <2>4, <2>5
  <2>7. D \ {id} = Deps(d, t) \ Q
    OBVIOUS
  <2>8. Cardinality(D \ {id}) = 0 <=> D \ {id} = {}
    BY <2>2, FS_EmptySet
  <2> QED
    BY <2>6, <2>7, <2>8
<1>11. freed = {t \in Ids(d) : id \in Deps(d, t) /\ Deps(d, t) \subseteq Q}
  BY <1>9, <1>10
<1>12. Closed(d, Q) /\ Free(d, Q) = (F \ {id}) \cup freed
  <2>1. id \in Free(d, O)
    BY <1>6
  <2>2. /\ Closed(d, O \cup {id})
        /\ Free(d, O \cup {id})
           = (Free(d, O) \ {id}) \cup {t \in Ids(d) : id \in Deps(d, t) /\ Deps(d, t) \subseteq O \cup {id}}
    BY <1>1, <1>3, <2>1, FreedByTaking
  <2> QED
    BY <1>11, <2>2
<1>13. Queue(Tail(s.ready), Sorted(freed)) = Sorted(Free(d, Q))
  <2>1. freed \in SUBSET Nat /\ freed \in SUBSET Ids(d)
    BY <1>2, <1>11
  <2>2. IsFiniteSet(freed)
    BY <1>2, <2>1, FS_Subset
  <2>3. Sorted(freed) \in Seq(freed) /\ Range(Sorted(freed)) = freed
    BY <2>1, <2>2, SortedLists
  <2> PICK a : a = Tail(s.ready)
    OBVIOUS
  <2> PICK b : b = Sorted(freed)
    OBVIOUS
  <2>4. a \in Seq(Ids(d)) /\ b \in Seq(Ids(d)) /\ Range(a) = F \ {id} /\ Range(b) = freed
    <3>1. a \in Seq(Ids(d))
      BY <1>4, <1>6, SeqWithin
    <3>2. b \in Seq(Ids(d))
      BY <2>1, <2>3, SeqWithin
    <3> QED
      BY <1>6, <2>3, <3>1, <3>2
  <2>5. ToSet(a \o b) = Range(a) \cup Range(b)
    <3>1. \A u, v \in Seq(Ids(d)) : ToSet(u \o v) = Range(u) \cup Range(v)
      BY ConcatHolds
    <3> QED
      BY <2>4, <3>1
  <2>6. ToSet(a \o b) = Free(d, Q)
    BY <1>12, <2>4, <2>5
  <2> QED
    BY <2>6 DEF Queue
<1>14. /\ t0.out = Append(s.out, id) /\ t0.ready = Sorted(Free(d, Q))
       /\ t0.indegree = [t \in Ids(d) |-> Cardinality(Deps(d, t) \ Q)]
  <2>1. left = [t \in Ids(d) |-> Cardinality(Deps(d, t) \ Q)]
    BY <1>10
  <2> QED
    BY <1>8, <1>13, <2>1
<1> PICK o : o = s.out
  OBVIOUS
<1> PICK p : p = Append(o, id)
  OBVIOUS
<1>15. /\ DOMAIN o = 1..k /\ DOMAIN p = 1..(k + 1) /\ p \in Seq(Ids(d)) /\ Len(p) = k + 1
       /\ p[k + 1] = id /\ \A i \in 1..k : p[i] = o[i]
  BY <1>1, <1>7
<1>16. Range(p) = Q
  <2>1. Range(p) = {p[i] : i \in 1..(k + 1)} /\ O = {o[i] : i \in 1..k}
    BY <1>15 DEF Range
  <2>2. k + 1 \in 1..(k + 1) /\ \A i : i \in 1..(k + 1) <=> i \in 1..k \/ i = k + 1
    OBVIOUS
  <2> QED
    BY <1>15, <2>1, <2>2
<1>17. Cardinality(Q) = k + 1
  <2>1. IsFiniteSet(O)
    BY <1>2, <1>3, FS_Subset
  <2> QED
    BY <1>1, <1>7, <2>1, FS_AddElement
<1>18. LeastFree(d, p)
  <2> SUFFICES ASSUME NEW i \in 1..(k + 1)
               PROVE  p[i] \in Free(d, Earlier(p, i)) /\ \A t \in Free(d, Earlier(p, i)) : p[i] <= t
    BY <1>15 DEF LeastFree
  <2>1. Earlier(p, i) = Earlier(o, i)
    <3>1. \A j \in 1..(i - 1) : j \in 1..k
      OBVIOUS
    <3>2. \A j \in 1..(i - 1) : p[j] = o[j]
      BY <1>15, <3>1
    <3> QED
      BY <3>2 DEF Earlier
  <2>2. CASE i = k + 1
    <3>1. i - 1 = k
      BY <2>2
    <3>2. Earlier(o, i) = O
      BY <1>15, <3>1 DEF Earlier, Range
    <3> QED
      BY <1>6, <1>15, <2>1, <2>2, <3>2
  <2>3. CASE i # k + 1
    <3>1. i \in 1..k
      BY <2>3
    <3> QED
      BY <1>1, <1>15, <2>1, <3>1 DEF LeastFree
  <2> QED
    BY <2>2, <2>3
<1> QED
  BY <1>12, <1>14, <1>15, <1>16, <1>17, <1>18 DEF KahnRight

(* As there is a free task until all are taken, the order has every task   *)
(* in it.                                                                  *)
LEMMA TopologicalSound ==
  ASSUME NEW d, Proper(d), Len(d.tasks) = Cardinality(Ids(d))
  PROVE  /\ Len(Topological(d)) = Cardinality(Ids(d)) /\ Topological(d) \in Seq(Ids(d))
         /\ LeastFree(d, Topological(d))
<1> PICK n \in Nat : n = Cardinality(Ids(d))
  BY Counted DEF Proper
<1>1. PICK f : /\ f[0] = KahnStart(d) /\ \A k \in 1..n : f[k] = Kahn(d, f[k - 1])
               /\ Topological(d) = f[n].out
  BY KahnSteps
<1> DEFINE S == {k \in 0..n : KahnRight(d, k, f[k])}
<1>2. 0 \in S
  <2>1. 0 \in 0..n
    OBVIOUS
  <2> QED
    BY <1>1, <2>1, KahnStarts
<1>3. ASSUME NEW k \in 0..n, k \in S, k < n
      PROVE  k + 1 \in S
  <2>1. k + 1 \in 1..n /\ k + 1 \in 0..n /\ (k + 1) - 1 = k /\ k \in Nat
    BY <1>3
  <2>2. f[k + 1] = Kahn(d, f[k])
    BY <1>1, <2>1
  <2>3. KahnRight(d, k + 1, Kahn(d, f[k]))
    BY <1>3, <2>1, KahnTakes
  <2> QED
    BY <2>1, <2>2, <2>3
<1>4. \A k \in 0..n : k \in S
  <2> HIDE DEF S
  <2> QED
    BY <1>2, <1>3, InductionTo
<1>5. KahnRight(d, n, f[n])
  <2>1. n \in 0..n
    OBVIOUS
  <2> QED
    BY <1>4, <2>1
<1> QED
  BY <1>1, <1>5 DEF KahnRight


-----------------------------------------------------------------------------
(* The inductive invariant.                                                *)

(* The state is made of the records that Init makes it of.                 *)
Shapes ==
  /\ menu \in Menus
  /\ table = [k \in Kinds |-> table[k]]
  /\ defs = [k \in Kinds |-> defs[k]]
  /\ put = [c \in Clients |-> [step |-> put[c].step, kind |-> put[c].kind, def |-> put[c].def]]
  /\ \A c \in Clients : put[c].kind \in Kinds
  /\ run = [started |-> run.started, used |-> run.used, plan |-> run.plan, replaced |-> run.replaced]
  /\ raced \subseteq Kinds

(* A second trip through the table changes nothing.                        *)
Settled(k, d) == Stored(k, d) = d
(* A definition that a restart reads back.                                 *)
Loadable(k, d) == Decodes(k, d) /\ Valid(k, d)

(* What is on its way, in memory and in the table.                         *)
DefinitionsSound ==
  /\ \A c \in InService : put[c].def \in menu[put[c].kind] /\ Valid(put[c].kind, put[c].def)
  /\ \A k \in Kinds : defs[k] # None => Loadable(k, defs[k])
  /\ \A k \in Kinds : table[k] # None => Settled(k, table[k])

(* A server that is down serves nobody, and two puts of one kind raced.    *)
PutsApart ==
  /\ ~up => InService = {}
  /\ \A b, c \in InService : put[b].kind = put[c].kind => b = c \/ put[b].kind \in raced

(* Memory and table agree on a definition.                                 *)
Agree(k) ==
  IF defs[k] = None THEN table[k] # None => ~Loadable(k, table[k])
  ELSE table[k] = Stored(k, defs[k])

(* Only a put between its two critical sections holds them apart, and it   *)
(* holds what will bring them together.                                    *)
Published(k) == \A c \in Clients : put[c].step = "publish" => put[c].kind # k
TableLeads ==
  \A k \in Kinds \ raced :
    /\ up /\ Published(k) => Agree(k)
    /\ \A c \in Clients : put[c].step = "publish" /\ put[c].kind = k => table[k] = Stored(k, put[c].def)

(* Whatever the run may meet again is what it was started with.            *)
Kept(k) ==
  /\ run.used[k] = run.started[k]
  /\ run.started[k] # None /\ Loadable(k, run.started[k])
  /\ table[k] = run.started[k]
  /\ up => defs[k] = run.started[k]
  /\ \A c \in Clients : put[c].step = "publish" /\ put[c].kind = k => put[c].def = run.started[k]
RunKept ==
  run.started # None =>
    \A k \in Kinds \ (run.replaced \cup raced) : Settled(k, run.started[k]) => Kept(k)

DefinitionsInv == Shapes /\ DefinitionsSound /\ PutsApart /\ TableLeads /\ RunKept

-----------------------------------------------------------------------------
(* The table.                                                              *)

(* Rounding leaves an even number or a small one, which it keeps.          *)
LEMMA AsFloatTwice ==
  ASSUME NEW n \in Int
  PROVE  /\ AsFloat(n) \in Int /\ AsFloat(AsFloat(n)) = AsFloat(n)
         /\ n \in Nat => AsFloat(n) \in Nat
<1>1. PICK q \in Int, r \in 0..1 : n = 2 * q + r /\ r = n % 2
  OBVIOUS
<1>2. MaxExact \in Nat
  BY MenusAssumption, MaxUintAssumption
<1>3. CASE n \in (-MaxExact)..MaxExact \/ n % 2 = 0
  BY <1>3 DEF AsFloat
<1>4. CASE ~(n \in (-MaxExact)..MaxExact \/ n % 2 = 0)
  <2>1. AsFloat(n) \in {n - 1, n + 1}
    BY <1>4 DEF AsFloat
  <2>2. AsFloat(n) \in Int /\ AsFloat(n) % 2 = 0
    BY <1>1, <1>4, <2>1
  <2>3. n \in Nat => AsFloat(n) \in Nat
    BY <1>1, <1>4, <2>1
  <2> QED
    BY <2>2, <2>3 DEF AsFloat
<1> QED
  BY <1>3, <1>4

(* The redacted text is redacted no further.                               *)
LEMMA RedactedTwice ==
  ASSUME NEW id \in Nat
  PROVE  Redacted(id) \in Nat /\ Redacted(Redacted(id)) = Redacted(id)
  BY DEF Redacted

(* The same of several texts.                                              *)
LEMMA AllRedactedTwice ==
  ASSUME NEW S \in SUBSET Nat
  PROVE  /\ AllRedacted(S) \in SUBSET Nat
         /\ AllRedacted(AllRedacted(S)) = AllRedacted(S)
<1>1. \A c \in S : c \in Nat
  OBVIOUS
<1>2. AllRedacted(S) \in SUBSET Nat
  BY <1>1, RedactedTwice DEF AllRedacted
<1>3. ASSUME NEW x
      PROVE  x \in AllRedacted(AllRedacted(S)) <=> x \in AllRedacted(S)
  <2>1. x \in AllRedacted(S) <=> \E c \in S : x = Redacted(c)
    BY DEF AllRedacted
  <2>2. x \in AllRedacted(AllRedacted(S)) <=> \E c \in S : x = Redacted(Redacted(c))
    BY DEF AllRedacted
  <2>3. \A c \in S : Redacted(Redacted(c)) = Redacted(c)
    BY <1>1, RedactedTwice
  <2> QED
    BY <2>1, <2>2, <2>3
<1> QED
  BY <1>2, <1>3

(* The task that the table holds, field by field.                          *)
LEMMA StoredTaskFields ==
  ASSUME NEW t, NEW id, NEW cost, NEW requires, NEW dependsOn,
         t = [id |-> id, cost |-> cost, requires |-> requires, dependsOn |-> dependsOn]
  PROVE  StoredTask(t) =
           [id |-> Redacted(id), cost |-> AsFloat(cost), requires |-> AllRedacted(requires),
            dependsOn |-> [i \in DOMAIN dependsOn |-> Redacted(dependsOn[i])]]
<1> DEFINE deps == [i \in DOMAIN dependsOn |-> Redacted(dependsOn[i])]
<1>1. t.id = id /\ t.cost = cost /\ t.requires = requires /\ t.dependsOn = dependsOn
  OBVIOUS
<1>2. StoredTask(t) = [t EXCEPT !.id = Redacted(id), !.cost = AsFloat(cost),
                                !.requires = AllRedacted(requires), !.dependsOn = deps]
  BY <1>1 DEF StoredTask
<1> HIDE DEF deps
<1>3. StoredTask(t) =
        [id |-> Redacted(id), cost |-> AsFloat(cost), requires |-> AllRedacted(requires),
         dependsOn |-> deps]
  BY <1>2
<1> QED
  BY <1>3 DEF deps

(* A stored task is stored as it is.                                       *)
LEMMA StoredTaskTwice ==
  ASSUME NEW t \in DagTask
  PROVE  StoredTask(StoredTask(t)) = StoredTask(t)
<1> DEFINE deps == [i \in DOMAIN t.dependsOn |-> Redacted(t.dependsOn[i])]
           again == [i \in DOMAIN deps |-> Redacted(deps[i])]
           names == AllRedacted(t.requires)
<1>1. /\ t = [id |-> t.id, cost |-> t.cost, requires |-> t.requires, dependsOn |-> t.dependsOn]
      /\ t.id \in Nat /\ t.cost \in Nat /\ t.requires \in SUBSET Nat /\ t.dependsOn \in Seq(Nat)
  BY MaxUintAssumption DEF DagTask
<1>2. StoredTask(t) =
        [id |-> Redacted(t.id), cost |-> AsFloat(t.cost), requires |-> names, dependsOn |-> deps]
  BY <1>1, StoredTaskFields
<1>3. again = deps
  <2>1. ASSUME NEW i \in DOMAIN t.dependsOn
        PROVE  Redacted(deps[i]) = deps[i]
    <3>1. t.dependsOn[i] \in Nat
      BY <1>1
    <3> QED
      BY <3>1, RedactedTwice
  <2> QED
    BY <2>1
<1>4. StoredTask(StoredTask(t)) =
        [id |-> Redacted(Redacted(t.id)), cost |-> AsFloat(AsFloat(t.cost)),
         requires |-> AllRedacted(names), dependsOn |-> again]
  <2> HIDE DEF deps, names
  <2> QED
    BY <1>2, StoredTaskFields
<1>5. Redacted(Redacted(t.id)) = Redacted(t.id) /\ AsFloat(AsFloat(t.cost)) = AsFloat(t.cost)
  BY <1>1, RedactedTwice, AsFloatTwice
<1>6. AllRedacted(names) = names
  BY <1>1, AllRedactedTwice
<1> HIDE DEF deps, again, names
<1> QED
  BY <1>2, <1>3, <1>4, <1>5, <1>6

(* A stored DAG is stored as it is.                                        *)
LEMMA StoredDagTwice ==
  ASSUME NEW d \in SentDag
  PROVE  Settled("dag", Stored("dag", d))
<1> DEFINE tasks == [i \in DOMAIN d.tasks |-> StoredTask(d.tasks[i])]
           again == [i \in DOMAIN tasks |-> StoredTask(tasks[i])]
<1>1. /\ d = [tasks |-> d.tasks, maxFanout |-> d.maxFanout, budget |-> d.budget]
      /\ d.tasks \in Seq(DagTask) /\ d.budget \in Int /\ d.maxFanout \in Int
  <2>1. d \in [tasks : Seq(DagTask), maxFanout : Ints, budget : 0..MaxUint]
    BY DEF SentDag
  <2>2. d.maxFanout \in Ints /\ d.budget \in 0..MaxUint
    BY <2>1
  <2>3. d.maxFanout \in Int /\ d.budget \in Int
    <3> PICK f, b : f = d.maxFanout /\ b = d.budget
      OBVIOUS
    <3>1. f \in Int
      BY <2>2, IntsAreInts
    <3>2. b \in Int
      BY <2>2, MaxUintAssumption
    <3> QED
      BY <3>1, <3>2
  <2> QED
    BY <2>1, <2>3
<1>2. ASSUME NEW e, NEW ts, NEW f, NEW b, e = [tasks |-> ts, maxFanout |-> f, budget |-> b]
      PROVE  Stored("dag", e) = [tasks |-> [i \in DOMAIN ts |-> StoredTask(ts[i])],
                                 maxFanout |-> AsFloat(f), budget |-> AsFloat(b)]
  BY <1>2 DEF Stored
<1>3. Stored("dag", d) =
        [tasks |-> tasks, maxFanout |-> AsFloat(d.maxFanout), budget |-> AsFloat(d.budget)]
  BY <1>1, <1>2
<1>4. again = tasks
  <2>1. ASSUME NEW i \in DOMAIN d.tasks
        PROVE  StoredTask(tasks[i]) = tasks[i]
    <3>1. d.tasks[i] \in DagTask
      BY <1>1
    <3> QED
      BY <3>1, StoredTaskTwice
  <2> QED
    BY <2>1
<1>5. Stored("dag", Stored("dag", d)) =
        [tasks |-> again, maxFanout |-> AsFloat(AsFloat(d.maxFanout)),
         budget |-> AsFloat(AsFloat(d.budget))]
  <2> HIDE DEF tasks
  <2> QED
    BY <1>2, <1>3
<1>6. /\ AsFloat(AsFloat(d.budget)) = AsFloat(d.budget)
      /\ AsFloat(AsFloat(d.maxFanout)) = AsFloat(d.maxFanout)
  BY <1>1, AsFloatTwice
<1> HIDE DEF tasks, again
<1> QED
  BY <1>3, <1>4, <1>5, <1>6 DEF Settled

(* The agent that the table holds, field by field.                         *)
LEMMA StoredAgentFields ==
  ASSUME NEW a, NEW id, NEW version, NEW capabilities, NEW priority, NEW enabled, NEW limit,
         a = [id |-> id, version |-> version, capabilities |-> capabilities,
              priority |-> priority, enabled |-> enabled, maxConcurrent |-> limit]
  PROVE  StoredAgent(a) =
           [id |-> Redacted(id), version |-> Redacted(version),
            capabilities |-> AllRedacted(capabilities), priority |-> AsFloat(priority),
            enabled |-> enabled, maxConcurrent |-> AsFloat(limit)]
<1>1. /\ a.id = id /\ a.version = version /\ a.capabilities = capabilities
      /\ a.priority = priority /\ a.maxConcurrent = limit
  OBVIOUS
<1>2. StoredAgent(a) =
        [a EXCEPT !.id = Redacted(id), !.version = Redacted(version),
                  !.capabilities = AllRedacted(capabilities), !.priority = AsFloat(priority),
                  !.maxConcurrent = AsFloat(limit)]
  BY <1>1 DEF StoredAgent
<1> QED
  BY <1>2

(* A stored agent is stored as it is.                                      *)
LEMMA StoredAgentTwice ==
  ASSUME NEW a \in CatalogAgent
  PROVE  StoredAgent(StoredAgent(a)) = StoredAgent(a)
<1> DEFINE names == AllRedacted(a.capabilities)
<1>1. /\ a = [id |-> a.id, version |-> a.version, capabilities |-> a.capabilities,
              priority |-> a.priority, enabled |-> a.enabled, maxConcurrent |-> a.maxConcurrent]
      /\ a.id \in Nat /\ a.version \in Nat /\ a.capabilities \in SUBSET Nat
      /\ a.priority \in Int /\ a.maxConcurrent \in Int
  BY IntsAreInts DEF CatalogAgent
<1>2. StoredAgent(a) =
        [id |-> Redacted(a.id), version |-> Redacted(a.version), capabilities |-> names,
         priority |-> AsFloat(a.priority), enabled |-> a.enabled,
         maxConcurrent |-> AsFloat(a.maxConcurrent)]
  BY <1>1, StoredAgentFields
<1>3. StoredAgent(StoredAgent(a)) =
        [id |-> Redacted(Redacted(a.id)), version |-> Redacted(Redacted(a.version)),
         capabilities |-> AllRedacted(names), priority |-> AsFloat(AsFloat(a.priority)),
         enabled |-> a.enabled, maxConcurrent |-> AsFloat(AsFloat(a.maxConcurrent))]
  <2> HIDE DEF names
  <2> QED
    BY <1>2, StoredAgentFields
<1>4. /\ Redacted(Redacted(a.id)) = Redacted(a.id)
      /\ Redacted(Redacted(a.version)) = Redacted(a.version)
  BY <1>1, RedactedTwice
<1>5. /\ AsFloat(AsFloat(a.priority)) = AsFloat(a.priority)
      /\ AsFloat(AsFloat(a.maxConcurrent)) = AsFloat(a.maxConcurrent)
  BY <1>1, AsFloatTwice
<1>6. AllRedacted(names) = names
  BY <1>1, AllRedactedTwice
<1> HIDE DEF names
<1> QED
  BY <1>2, <1>3, <1>4, <1>5, <1>6

(* The catalog that the table holds, field by field.                       *)
LEMMA StoredCatalogFields ==
  ASSUME NEW d, NEW caps, NEW agents, d = [capabilities |-> caps, agents |-> agents]
  PROVE  Stored("catalog", d) =
           [capabilities |-> [i \in DOMAIN caps |-> Redacted(caps[i])],
            agents |-> [i \in DOMAIN agents |-> StoredAgent(agents[i])]]
  BY DEF Stored

(* A stored catalog is stored as it is.                                    *)
LEMMA StoredCatalogTwice ==
  ASSUME NEW d \in SentCatalog
  PROVE  Settled("catalog", Stored("catalog", d))
<1> DEFINE caps == [i \in DOMAIN d.capabilities |-> Redacted(d.capabilities[i])]
           agents == [i \in DOMAIN d.agents |-> StoredAgent(d.agents[i])]
           caps2 == [i \in DOMAIN caps |-> Redacted(caps[i])]
           agents2 == [i \in DOMAIN agents |-> StoredAgent(agents[i])]
<1>1. /\ d = [capabilities |-> d.capabilities, agents |-> d.agents]
      /\ d.capabilities \in Seq(Nat) /\ d.agents \in Seq(CatalogAgent)
  BY DEF SentCatalog
<1>2. Stored("catalog", d) = [capabilities |-> caps, agents |-> agents]
  BY <1>1, StoredCatalogFields
<1>3. caps2 = caps
  <2>1. ASSUME NEW i \in DOMAIN d.capabilities
        PROVE  Redacted(caps[i]) = caps[i]
    <3>1. d.capabilities[i] \in Nat
      BY <1>1
    <3> QED
      BY <3>1, RedactedTwice
  <2> QED
    BY <2>1
<1>4. agents2 = agents
  <2>1. ASSUME NEW i \in DOMAIN d.agents
        PROVE  StoredAgent(agents[i]) = agents[i]
    <3>1. d.agents[i] \in CatalogAgent
      BY <1>1
    <3> QED
      BY <3>1, StoredAgentTwice
  <2> QED
    BY <2>1
<1>5. Stored("catalog", Stored("catalog", d)) = [capabilities |-> caps2, agents |-> agents2]
  <2> HIDE DEF caps, agents
  <2> QED
    BY <1>2, StoredCatalogFields
<1> HIDE DEF caps, agents, caps2, agents2
<1> QED
  BY <1>2, <1>3, <1>4, <1>5 DEF Settled

(* What a client may put is something, fits its fields and, once stored,   *)
(* stays as it is.                                                         *)
LEMMA SentDefinition ==
  ASSUME NEW m \in Menus, NEW k \in Kinds, NEW d \in m[k]
  PROVE  d # None /\ Decodes(k, d) /\ Settled(k, Stored(k, d))
<1>1. CASE k = "catalog"
  <2>1. d \in SentCatalog /\ d # None
    BY <1>1, MenusAssumption
  <2>2. Decodes(k, d)
    <3>1. d.agents \in Seq(CatalogAgent)
      BY <2>1 DEF SentCatalog
    <3>2. ASSUME NEW i \in DOMAIN d.agents
          PROVE  d.agents[i].priority \in Ints /\ d.agents[i].maxConcurrent \in Ints
      <4>1. d.agents[i] \in CatalogAgent
        BY <3>1
      <4> QED
        BY <4>1 DEF CatalogAgent
    <3> QED
      BY <1>1, <3>2 DEF Decodes
  <2> QED
    BY <1>1, <2>1, <2>2, StoredCatalogTwice
<1>2. CASE k = "dag"
  <2>1. d \in SentDag /\ d # None
    BY <1>2, MenusAssumption
  <2>2. Decodes(k, d)
    <3>1. d.budget \in 0..MaxUint /\ d.maxFanout \in Ints /\ d.tasks \in Seq(DagTask)
      BY <2>1 DEF SentDag
    <3>2. ASSUME NEW i \in DOMAIN d.tasks
          PROVE  d.tasks[i].cost \in 0..MaxUint
      <4>1. d.tasks[i] \in DagTask
        BY <3>1
      <4> QED
        BY <4>1 DEF DagTask
    <3> QED
      BY <1>2, <3>1, <3>2, MaxUintAssumption DEF Decodes
  <2> QED
    BY <1>2, <2>1, <2>2, StoredDagTwice
<1> QED
  BY <1>1, <1>2 DEF Kinds

-----------------------------------------------------------------------------
(* The requests.                                                           *)

PutShape == put = [c \in Clients |-> [step |-> put[c].step, kind |-> put[c].kind, def |-> put[c].def]]

(* A request goes on to another step with its definition.                  *)
LEMMA PutMoves ==
  ASSUME PutShape, NEW c \in Clients, NEW s, put' = [put EXCEPT ![c].step = s]
  PROVE  /\ PutShape'
         /\ put'[c].step = s /\ put'[c].kind = put[c].kind /\ put'[c].def = put[c].def
         /\ \A b \in Clients \ {c} : put'[b] = put[b]
<1>1. put[c] = [step |-> put[c].step, kind |-> put[c].kind, def |-> put[c].def]
  BY DEF PutShape
<1>2. put' = [put EXCEPT ![c] = [put[c] EXCEPT !.step = s]]
  OBVIOUS
<1>3. [put[c] EXCEPT !.step = s] = [step |-> s, kind |-> put[c].kind, def |-> put[c].def]
  BY <1>1
<1>4. put'[c] = [step |-> s, kind |-> put[c].kind, def |-> put[c].def]
  BY <1>2, <1>3 DEF PutShape
<1>5. \A b \in Clients \ {c} : put'[b] = put[b]
  BY <1>2 DEF PutShape
<1>6. put' = [b \in Clients |-> put'[b]]
  BY <1>2 DEF PutShape
<1>7. ASSUME NEW b \in Clients
      PROVE  put'[b] = [step |-> put'[b].step, kind |-> put'[b].kind, def |-> put'[b].def]
  <2>1. CASE b = c
    BY <1>4, <2>1
  <2>2. CASE b # c
    <3>1. put[b] = [step |-> put[b].step, kind |-> put[b].kind, def |-> put[b].def]
      BY DEF PutShape
    <3> QED
      BY <1>5, <2>2, <3>1
  <2> QED
    BY <2>1, <2>2
<1>8. PutShape'
  BY <1>6, <1>7 DEF PutShape
<1> QED
  BY <1>4, <1>5, <1>8

(* A request begins.                                                       *)
LEMMA PutBegins ==
  ASSUME PutShape, NEW c \in Clients, NEW s, NEW k, NEW d,
         put' = [put EXCEPT ![c] = [step |-> s, kind |-> k, def |-> d]]
  PROVE  /\ PutShape'
         /\ put'[c].step = s /\ put'[c].kind = k /\ put'[c].def = d
         /\ \A b \in Clients \ {c} : put'[b] = put[b]
<1>1. put'[c] = [step |-> s, kind |-> k, def |-> d] /\ \A b \in Clients \ {c} : put'[b] = put[b]
  BY DEF PutShape
<1>2. put' = [b \in Clients |-> put'[b]]
  BY DEF PutShape
<1>3. ASSUME NEW b \in Clients
      PROVE  put'[b] = [step |-> put'[b].step, kind |-> put'[b].kind, def |-> put'[b].def]
  <2>1. CASE b = c
    BY <1>1, <2>1
  <2>2. CASE b # c
    <3>1. put[b] = [step |-> put[b].step, kind |-> put[b].kind, def |-> put[b].def]
      BY DEF PutShape
    <3> QED
      BY <1>1, <2>2, <3>1
  <2> QED
    BY <2>1, <2>2
<1>4. PutShape'
  BY <1>2, <1>3 DEF PutShape
<1> QED
  BY <1>1, <1>4

-----------------------------------------------------------------------------
(* Each action.                                                            *)

(* A put that begins: whatever is in service already has now raced.        *)
LEMMA PutKeeps ==
  ASSUME DefinitionsInv, NEW c \in Clients, Put(c)
  PROVE  DefinitionsInv'
<1> USE DEF DefinitionsInv
<1> DEFINE Begins(k, d) ==
      /\ put' = [put EXCEPT ![c] =
                  [step |-> IF Valid(k, d) THEN "save" ELSE "refused", kind |-> k, def |-> d]]
      /\ raced' = IF Valid(k, d) /\ \E b \in InService : put[b].kind = k
                  THEN raced \cup {k} ELSE raced
<1>1. PICK k \in Kinds : \E d \in menu[k] : Begins(k, d)
  BY DEF Put
<1>2. PICK d \in menu[k] : Begins(k, d)
  BY <1>1
<1>3. up /\ c \notin InService /\ UNCHANGED <<menu, table, defs, run, up>>
  BY DEF Put
<1>4. /\ PutShape'
      /\ put'[c].step = IF Valid(k, d) THEN "save" ELSE "refused"
      /\ put'[c].kind = k /\ put'[c].def = d
      /\ \A b \in Clients \ {c} : put'[b] = put[b]
  BY <1>2, PutBegins DEF Shapes, PutShape
<1>5. raced \subseteq raced' /\ raced' \subseteq Kinds
  BY <1>2 DEF Shapes
<1>6. InService \subseteq InService' /\ InService' \subseteq InService \cup {c}
  BY <1>3, <1>4 DEF InService
<1>7. Shapes'
  BY <1>3, <1>4, <1>5 DEF Shapes, PutShape
<1>8. DefinitionsSound'
  <2>1. ASSUME NEW b \in InService'
        PROVE  put'[b].def \in menu[put'[b].kind] /\ Valid(put'[b].kind, put'[b].def)
    <3>1. CASE b = c
      BY <1>2, <1>4, <2>1, <3>1 DEF InService
    <3>2. CASE b # c
      BY <1>4, <1>6, <2>1, <3>2 DEF DefinitionsSound, InService
    <3> QED
      BY <3>1, <3>2
  <2>2. DefinitionsSound' <=> /\ \A b \in InService' : put'[b].def \in menu[put'[b].kind] /\ Valid(put'[b].kind, put'[b].def)
                              /\ \A kk \in Kinds : defs[kk] # None => Loadable(kk, defs[kk])
                              /\ \A kk \in Kinds : table[kk] # None => Settled(kk, table[kk])
    BY <1>3 DEF DefinitionsSound
  <2> QED
    BY <2>1, <2>2 DEF DefinitionsSound
<1>9. PutsApart'
  <2>1. ASSUME NEW a \in InService', NEW b \in InService', put'[a].kind = put'[b].kind, a # b
        PROVE  put'[a].kind \in raced'
    <3>1. CASE a # c /\ b # c
      BY <1>4, <1>5, <1>6, <2>1, <3>1 DEF PutsApart, InService
    <3>2. CASE a = c
      <4>1. b \in InService /\ put[b].kind = k /\ Valid(k, d)
        BY <1>4, <1>6, <2>1, <3>2 DEF InService
      <4> QED
        BY <1>2, <1>4, <3>2, <4>1
    <3>3. CASE b = c
      <4>1. a \in InService /\ put[a].kind = k /\ Valid(k, d)
        BY <1>4, <1>6, <2>1, <3>3 DEF InService
      <4> QED
        BY <1>2, <1>4, <2>1, <3>3, <4>1
    <3> QED
      BY <3>1, <3>2, <3>3
  <2> QED
    BY <1>3, <2>1 DEF PutsApart
<1>10. ASSUME NEW b \in Clients
       PROVE  put'[b].step = "publish" <=> b # c /\ put[b].step = "publish"
  BY <1>3, <1>4, <1>10 DEF InService
<1>11. TableLeads'
  <2>1. ASSUME NEW j \in Kinds \ raced'
        PROVE  /\ up /\ Published(j)' => Agree(j)
               /\ \A b \in Clients : put'[b].step = "publish" /\ put'[b].kind = j
                    => table[j] = Stored(j, put'[b].def)
    <3>1. Published(j)' => Published(j)
      BY <1>3, <1>4, <1>10 DEF Published, InService
    <3> QED
      BY <1>4, <1>5, <1>10, <2>1, <3>1 DEF TableLeads
  <2>2. \A j \in Kinds : Agree(j)' <=> Agree(j)
    BY <1>3 DEF Agree
  <2> QED
    BY <1>3, <2>1, <2>2 DEF TableLeads
<1>12. RunKept'
  <2>1. ASSUME NEW j \in Kinds, Kept(j)
        PROVE  Kept(j)'
    BY <1>3, <1>4, <1>10, <2>1 DEF Kept
  <2> QED
    BY <1>3, <1>5, <2>1 DEF RunKept
<1> QED
  BY <1>7, <1>8, <1>9, <1>11, <1>12

(* The only put of its kind that has not raced is the one that is saved.   *)
LEMMA SaveKeeps ==
  ASSUME DefinitionsInv, NEW c \in Clients, SaveDefinition(c)
  PROVE  DefinitionsInv'
<1> DEFINE k == put[c].kind
           d == put[c].def
<1> USE DEF DefinitionsInv
<1>1. /\ put[c].step = "save" /\ c \in InService /\ k \in Kinds
      /\ table' = [table EXCEPT ![k] = Stored(k, d)]
      /\ put' = [put EXCEPT ![c].step = "publish"]
      /\ run' = Replaced(k, d)
      /\ UNCHANGED <<menu, defs, up, raced>>
  BY DEF SaveDefinition, InService, Shapes
<1>2. /\ PutShape'
      /\ put'[c].step = "publish" /\ put'[c].kind = k /\ put'[c].def = d
      /\ \A b \in Clients \ {c} : put'[b] = put[b]
  BY <1>1, PutMoves DEF Shapes, PutShape
<1>3. /\ table' = [j \in Kinds |-> table'[j]] /\ table'[k] = Stored(k, d)
      /\ \A j \in Kinds \ {k} : table'[j] = table[j]
  BY <1>1 DEF Shapes
<1>4. d \in menu[k] /\ Valid(k, d) /\ menu \in Menus /\ up
  BY <1>1 DEF DefinitionsSound, PutsApart, Shapes
<1>5. d # None /\ Decodes(k, d) /\ Settled(k, Stored(k, d))
  BY <1>1, <1>4, SentDefinition
<1>6. InService' = InService
  BY <1>1, <1>2 DEF InService
<1>7. /\ run' = [started |-> run'.started, used |-> run'.used, plan |-> run'.plan,
                 replaced |-> run'.replaced]
      /\ run'.started = run.started /\ run'.used = run.used
      /\ run.replaced \subseteq run'.replaced
      /\ run.started # None /\ k \notin run'.replaced => run.started[k] = d
  <2>1. run = [started |-> run.started, used |-> run.used, plan |-> run.plan, replaced |-> run.replaced]
    BY DEF Shapes
  <2>2. CASE run.started # None /\ run.started[k] # d
    <3>1. run' = [started |-> run.started, used |-> run.used, plan |-> run.plan,
                  replaced |-> run.replaced \cup {k}]
      BY <1>1, <2>1, <2>2 DEF Replaced
    <3> QED
      BY <3>1
  <2>3. CASE ~(run.started # None /\ run.started[k] # d)
    <3>1. run' = run
      BY <1>1, <2>3 DEF Replaced
    <3> QED
      BY <2>1, <2>3, <3>1
  <2> QED
    BY <2>2, <2>3
<1> HIDE DEF k, d
<1>8. Shapes'
  BY <1>1, <1>2, <1>3, <1>7 DEF Shapes, PutShape
<1>9. DefinitionsSound'
  <2>1. ASSUME NEW b \in InService
        PROVE  put'[b].def \in menu'[put'[b].kind] /\ Valid(put'[b].kind, put'[b].def)
    <3>1. CASE b = c
      BY <1>1, <1>2, <1>4, <3>1
    <3>2. CASE b # c
      BY <1>1, <1>2, <3>2 DEF DefinitionsSound, InService
    <3> QED
      BY <3>1, <3>2
  <2>2. \A j \in Kinds : table'[j] # None => Settled(j, table'[j])
    BY <1>3, <1>5 DEF DefinitionsSound
  <2> QED
    BY <1>1, <1>6, <2>1, <2>2 DEF DefinitionsSound
<1>10. \A b \in InService : put'[b].kind = put[b].kind
  BY <1>2 DEF InService, k
<1>11. PutsApart'
  BY <1>1, <1>6, <1>10 DEF PutsApart, InService
<1>12. ASSUME NEW b \in Clients, put'[b].step = "publish", k \notin raced, put'[b].kind = k
       PROVE  b = c
  <2>1. b \in InService
    BY <1>6, <1>12 DEF InService
  <2> QED
    BY <1>1, <1>10, <1>12, <2>1 DEF PutsApart, k
<1>13. ASSUME NEW b \in Clients, put'[b].step = "publish", b # c
       PROVE  put[b].step = "publish" /\ put'[b] = put[b]
  BY <1>2, <1>13
<1>14. TableLeads'
  <2>1. ASSUME NEW j \in Kinds \ raced, up, Published(j)'
        PROVE  Agree(j)'
    <3>1. j # k
      BY <1>2, <2>1 DEF Published
    <3>2. Published(j)
      BY <1>1, <1>2, <2>1 DEF Published
    <3> QED
      BY <1>1, <1>3, <2>1, <3>1, <3>2 DEF TableLeads, Agree
  <2>2. ASSUME NEW j \in Kinds \ raced, NEW b \in Clients, put'[b].step = "publish", put'[b].kind = j
        PROVE  table'[j] = Stored(j, put'[b].def)
    <3>1. CASE j = k
      BY <1>2, <1>3, <1>12, <2>2, <3>1
    <3>2. CASE j # k
      BY <1>2, <1>3, <1>13, <2>2, <3>2 DEF TableLeads
    <3> QED
      BY <3>1, <3>2
  <2> QED
    BY <1>1, <2>1, <2>2 DEF TableLeads
<1>15. RunKept'
  <2>1. ASSUME run.started # None, NEW j \in Kinds \ (run'.replaced \cup raced),
               Settled(j, run.started[j])
        PROVE  Kept(j)'
    <3>1. Kept(j)
      BY <1>7, <2>1 DEF RunKept
    <3>2. j = k => run.started[j] = d
      BY <1>7, <2>1
    <3>3. table'[j] = run.started[j]
      BY <1>3, <2>1, <3>1, <3>2 DEF Kept, Settled
    <3>4. ASSUME NEW b \in Clients, put'[b].step = "publish", put'[b].kind = j
          PROVE  put'[b].def = run.started[j]
      <4>1. CASE b = c
        BY <1>2, <3>2, <3>4, <4>1
      <4>2. CASE b # c
        BY <1>13, <3>1, <3>4, <4>2 DEF Kept
      <4> QED
        BY <4>1, <4>2
    <3> QED
      BY <1>1, <1>7, <3>1, <3>3, <3>4 DEF Kept
  <2> QED
    BY <1>1, <1>7, <2>1 DEF RunKept
<1> QED
  BY <1>8, <1>9, <1>11, <1>14, <1>15

(* A save that fails leaves table and memory alone.                        *)
LEMMA SaveFailsKeeps ==
  ASSUME DefinitionsInv, NEW c \in Clients, SaveFails(c)
  PROVE  DefinitionsInv'
<1> USE DEF DefinitionsInv
<1>1. /\ put[c].step = "save"
      /\ put' = [put EXCEPT ![c].step = "failed"]
      /\ UNCHANGED <<menu, table, defs, run, up, raced>>
  BY DEF SaveFails
<1>2. /\ PutShape'
      /\ put'[c].step = "failed" /\ put'[c].kind = put[c].kind
      /\ \A b \in Clients \ {c} : put'[b] = put[b]
  BY <1>1, PutMoves DEF Shapes, PutShape
<1>3. InService' = InService \ {c} /\ \A b \in InService' : put'[b] = put[b]
  BY <1>1, <1>2 DEF InService
<1>4. \A b \in Clients : put'[b].step = "publish" => put[b].step = "publish" /\ put'[b] = put[b]
  BY <1>2
<1>5. \A b \in Clients : put[b].step = "publish" => put'[b] = put[b]
  BY <1>1, <1>2
<1>6. Shapes'
  BY <1>1, <1>2 DEF Shapes, PutShape
<1>7. DefinitionsSound'
  BY <1>1, <1>3 DEF DefinitionsSound
<1>8. PutsApart'
  BY <1>1, <1>3 DEF PutsApart
<1>9. TableLeads'
  <2>1. \A j \in Kinds : Published(j)' => Published(j)
    BY <1>5 DEF Published
  <2>2. \A j \in Kinds : Agree(j)' <=> Agree(j)
    BY <1>1 DEF Agree
  <2> QED
    BY <1>1, <1>4, <2>1, <2>2 DEF TableLeads
<1>10. RunKept'
  <2>1. ASSUME NEW j \in Kinds, Kept(j)
        PROVE  Kept(j)'
    BY <1>1, <1>4, <2>1 DEF Kept
  <2> QED
    BY <1>1, <2>1 DEF RunKept
<1> QED
  BY <1>6, <1>7, <1>8, <1>9, <1>10

(* The definition comes into memory, where the table has it already.       *)
LEMMA PublishKeeps ==
  ASSUME DefinitionsInv, NEW c \in Clients, Publish(c)
  PROVE  DefinitionsInv'
<1> DEFINE k == put[c].kind
           d == put[c].def
<1> USE DEF DefinitionsInv
<1>1. /\ put[c].step = "publish" /\ c \in InService /\ k \in Kinds
      /\ defs' = [defs EXCEPT ![k] = d]
      /\ put' = [put EXCEPT ![c].step = "answered"]
      /\ UNCHANGED <<menu, table, run, up, raced>>
  BY DEF Publish, InService, Shapes
<1>2. /\ PutShape'
      /\ put'[c].step = "answered" /\ put'[c].kind = k
      /\ \A b \in Clients \ {c} : put'[b] = put[b]
  BY <1>1, PutMoves DEF Shapes, PutShape
<1>3. /\ defs' = [j \in Kinds |-> defs'[j]] /\ defs'[k] = d
      /\ \A j \in Kinds \ {k} : defs'[j] = defs[j]
  BY <1>1 DEF Shapes
<1>4. d \in menu[k] /\ Valid(k, d) /\ menu \in Menus /\ up
  BY <1>1 DEF DefinitionsSound, PutsApart, Shapes
<1>5. d # None /\ Decodes(k, d)
  BY <1>1, <1>4, SentDefinition
<1>6. InService' = InService \ {c} /\ \A b \in InService' : put'[b] = put[b]
  BY <1>1, <1>2 DEF InService
<1>7. \A b \in Clients : put'[b].step = "publish" => put[b].step = "publish" /\ put'[b] = put[b]
  BY <1>2
<1> HIDE DEF k, d
<1>8. Shapes'
  BY <1>1, <1>2, <1>3 DEF Shapes, PutShape
<1>9. DefinitionsSound'
  <2>1. \A j \in Kinds : defs'[j] # None => Loadable(j, defs'[j])
    BY <1>3, <1>4, <1>5 DEF DefinitionsSound, Loadable
  <2> QED
    BY <1>1, <1>6, <2>1 DEF DefinitionsSound
<1>10. PutsApart'
  BY <1>1, <1>6 DEF PutsApart
<1>11. TableLeads'
  <2>1. ASSUME NEW j \in Kinds \ raced, Published(j)'
        PROVE  Agree(j)'
    <3>1. CASE j = k
      <4>1. table[k] = Stored(k, d)
        BY <1>1, <3>1 DEF TableLeads, k, d
      <4> QED
        BY <1>1, <1>3, <1>5, <3>1, <4>1 DEF Agree
    <3>2. CASE j # k
      <4>1. Published(j)
        BY <1>2, <2>1, <3>2 DEF Published, k
      <4> QED
        BY <1>1, <1>3, <1>4, <3>2, <4>1 DEF TableLeads, Agree
    <3> QED
      BY <3>1, <3>2
  <2> QED
    BY <1>1, <1>7, <2>1 DEF TableLeads
<1>12. RunKept'
  <2>1. ASSUME NEW j \in Kinds, Kept(j)
        PROVE  Kept(j)'
    <3>1. defs'[j] = run.started[j]
      BY <1>1, <1>3, <1>4, <2>1 DEF Kept, k, d
    <3> QED
      BY <1>1, <1>7, <2>1, <3>1 DEF Kept
  <2> QED
    BY <1>1, <2>1 DEF RunKept
<1> QED
  BY <1>8, <1>9, <1>10, <1>11, <1>12

(* A run starts with what the table has, but for a kind that is between    *)
(* its two critical sections.                                              *)
LEMMA StartKeeps ==
  ASSUME DefinitionsInv, StartRun
  PROVE  DefinitionsInv'
<1> DEFINE publishing == {put[c].kind : c \in {b \in Clients : put[b].step = "publish"}}
           plan == Plan(defs.catalog, defs.dag)
<1> USE DEF DefinitionsInv
<1>1. /\ up
      /\ \A k \in Kinds : defs[k] # None
      /\ run' = [started |-> defs, used |-> defs, plan |-> plan, replaced |-> publishing]
      /\ UNCHANGED <<menu, table, defs, put, up, raced>>
  BY DEF StartRun
<1> HIDE DEF plan
<1>2. run'.started = defs /\ run'.used = defs /\ run'.replaced = publishing
  BY <1>1
<1>3. Shapes'
  BY <1>1 DEF Shapes
<1>4. DefinitionsSound' /\ PutsApart' /\ TableLeads'
  <2>1. InService' = InService
    BY <1>1 DEF InService
  <2>2. \A j \in Kinds : (Published(j)' <=> Published(j)) /\ (Agree(j)' <=> Agree(j))
    BY <1>1 DEF Published, Agree
  <2>3. DefinitionsSound' /\ PutsApart'
    BY <1>1, <2>1 DEF DefinitionsSound, PutsApart
  <2>4. TableLeads'
    BY <1>1, <2>2 DEF TableLeads
  <2> QED
    BY <2>3, <2>4
<1>5. RunKept'
  <2>1. ASSUME NEW j \in Kinds \ (publishing \cup raced), Settled(j, defs[j])
        PROVE  Kept(j)'
    <3>1. Published(j)
      BY <2>1 DEF Published
    <3>2. Agree(j)
      BY <1>1, <2>1, <3>1 DEF TableLeads
    <3>3. defs[j] # None /\ table[j] = defs[j] /\ Loadable(j, defs[j])
      BY <1>1, <2>1, <3>2 DEF Agree, Settled, DefinitionsSound
    <3> QED
      BY <1>1, <1>2, <3>1, <3>3 DEF Kept, Published
  <2> HIDE DEF publishing
  <2> QED
    BY <1>1, <1>2, <2>1 DEF RunKept
<1> QED
  BY <1>3, <1>4, <1>5

(* A run goes on with what is in memory.                                   *)
LEMMA ResumeKeeps ==
  ASSUME DefinitionsInv, ResumeRun
  PROVE  DefinitionsInv'
<1> USE DEF DefinitionsInv
<1>1. PICK plan :
        /\ up /\ run.started # None
        /\ run' = [run EXCEPT !.used = defs, !.plan = plan]
        /\ UNCHANGED <<menu, table, defs, put, up, raced>>
  <2>1. CASE \A k \in Kinds : defs[k] # None
    BY <2>1 DEF ResumeRun
  <2>2. CASE ~ \A k \in Kinds : defs[k] # None
    BY <2>2 DEF ResumeRun
  <2> QED
    BY <2>1, <2>2
<1>2. run' = [started |-> run.started, used |-> defs, plan |-> plan, replaced |-> run.replaced]
  <2>1. run = [started |-> run.started, used |-> run.used, plan |-> run.plan, replaced |-> run.replaced]
    BY DEF Shapes
  <2> QED
    BY <1>1, <2>1
<1>3. run'.started = run.started /\ run'.used = defs /\ run'.replaced = run.replaced
  BY <1>2
<1>4. Shapes'
  BY <1>1, <1>2 DEF Shapes
<1>5. DefinitionsSound' /\ PutsApart' /\ TableLeads'
  <2>1. InService' = InService
    BY <1>1 DEF InService
  <2>2. \A j \in Kinds : (Published(j)' <=> Published(j)) /\ (Agree(j)' <=> Agree(j))
    BY <1>1 DEF Published, Agree
  <2>3. DefinitionsSound' /\ PutsApart'
    BY <1>1, <2>1 DEF DefinitionsSound, PutsApart
  <2>4. TableLeads'
    BY <1>1, <2>2 DEF TableLeads
  <2> QED
    BY <2>3, <2>4
<1>6. RunKept'
  <2>1. ASSUME NEW j \in Kinds, Kept(j)
        PROVE  Kept(j)'
    BY <1>1, <1>3, <2>1 DEF Kept
  <2> QED
    BY <1>1, <1>3, <2>1 DEF RunKept
<1> QED
  BY <1>4, <1>5, <1>6

(* A crash ends every request; memory is read back from the table.         *)
LEMMA CrashKeeps ==
  ASSUME DefinitionsInv, Crash
  PROVE  DefinitionsInv'
<1> USE DEF DefinitionsInv
<1>1. /\ ~up' /\ defs' = [k \in Kinds |-> None] /\ put' = [c \in Clients |-> NoPut]
      /\ UNCHANGED <<menu, table, run, raced>>
  BY DEF Crash
<1>2. \A c \in Clients : put'[c] = NoPut /\ put'[c].step = "none"
  BY <1>1 DEF NoPut
<1>3. InService' = {}
  BY <1>2 DEF InService
<1>4. Shapes'
  BY <1>1, <1>2 DEF Shapes, NoPut, Kinds
<1>5. DefinitionsSound' /\ PutsApart'
  BY <1>1, <1>3 DEF DefinitionsSound, PutsApart
<1>6. TableLeads'
  BY <1>1, <1>2 DEF TableLeads
<1>7. RunKept'
  <2>1. ASSUME NEW j \in Kinds, Kept(j)
        PROVE  Kept(j)'
    BY <1>1, <1>2, <2>1 DEF Kept
  <2> QED
    BY <1>1, <2>1 DEF RunKept
<1> QED
  BY <1>4, <1>5, <1>6, <1>7

(* A restart reads back what can be read; nobody is being served.          *)
LEMMA LoadKeeps ==
  ASSUME DefinitionsInv, LoadDefinitions
  PROVE  DefinitionsInv'
<1> USE DEF DefinitionsInv
<1>1. /\ ~up /\ up'
      /\ defs' = [k \in Kinds |-> IF table[k] # None /\ Loadable(k, table[k]) THEN table[k] ELSE None]
      /\ UNCHANGED <<menu, table, put, run, raced>>
  BY DEF LoadDefinitions, Loadable
<1>2. InService = {} /\ InService' = {}
  BY <1>1 DEF PutsApart, InService
<1>3. \A c \in Clients : put[c].step # "publish"
  BY <1>2 DEF InService
<1>4. Shapes'
  BY <1>1 DEF Shapes
<1>5. DefinitionsSound' /\ PutsApart'
  BY <1>1, <1>2 DEF DefinitionsSound, PutsApart
<1>6. TableLeads'
  <2>1. ASSUME NEW j \in Kinds
        PROVE  Agree(j)'
    BY <1>1, <2>1 DEF Agree, DefinitionsSound, Settled
  <2> QED
    BY <1>1, <1>3, <2>1 DEF TableLeads
<1>7. RunKept'
  <2>1. ASSUME NEW j \in Kinds, Kept(j)
        PROVE  Kept(j)'
    BY <1>1, <2>1 DEF Kept
  <2> QED
    BY <1>1, <2>1 DEF RunKept
<1> QED
  BY <1>4, <1>5, <1>6, <1>7

-----------------------------------------------------------------------------
(* The theorems.                                                           *)

(* In the first state nothing is stored, held, put or run.                 *)
LEMMA InitDefinitionsInv == Init => DefinitionsInv
<1> SUFFICES ASSUME Init
             PROVE  DefinitionsInv
  OBVIOUS
<1>1. \A c \in Clients : put[c] = NoPut /\ put[c].step = "none" /\ put[c].kind = "dag"
  BY DEF Init, NoPut
<1>2. InService = {}
  BY <1>1 DEF InService
<1>3. \A k \in Kinds : table[k] = None /\ defs[k] = None
  BY DEF Init
<1>4. run.started = None /\ run = NoRun
  BY DEF Init, NoRun
<1>5. Shapes
  BY <1>1, <1>4 DEF Init, Shapes, NoPut, NoRun, Kinds
<1>6. DefinitionsSound /\ PutsApart
  BY <1>2, <1>3 DEF DefinitionsSound, PutsApart
<1>7. TableLeads /\ RunKept
  BY <1>1, <1>3, <1>4 DEF TableLeads, RunKept, Agree
<1> QED
  BY <1>5, <1>6, <1>7 DEF DefinitionsInv

(* Every step keeps the invariant.                                         *)
LEMMA NextDefinitionsInv == DefinitionsInv /\ [Next]_vars => DefinitionsInv'
<1> SUFFICES ASSUME DefinitionsInv, [Next]_vars
             PROVE  DefinitionsInv'
  OBVIOUS
<1>1. CASE Next
  BY <1>1, PutKeeps, SaveKeeps, SaveFailsKeeps, PublishKeeps, StartKeeps, ResumeKeeps, CrashKeeps,
     LoadKeeps DEF Next
<1>2. CASE UNCHANGED vars
  BY <1>2 DEF vars, DefinitionsInv, Shapes, DefinitionsSound, PutsApart, TableLeads, RunKept, Kept,
     InService, Published, Agree
<1> QED
  BY <1>1, <1>2

(* The inductive invariant holds: requests, memory, table and run hang     *)
(* together as the parts of DefinitionsInv say.                            *)
THEOREM DefinitionsInvariant == Spec => []DefinitionsInv
<1> QED
  BY InitDefinitionsInv, NextDefinitionsInv, PTL DEF Spec

(* Outside a put, memory and table agree, whatever saves failed and        *)
(* wherever the server crashed: SaveDefinition comes first, and the map    *)
(* is written only after it.                                               *)
THEOREM MemoryFollowsTable == Spec => []MemoryIsTable
<1>1. DefinitionsInv => MemoryIsTable
  <2> SUFFICES ASSUME DefinitionsInv, up,
                      NEW k \in Kinds \ (raced \cup {put[c].kind : c \in InService})
               PROVE  Agree(k)
    BY DEF MemoryIsTable, Agree, Loadable
  <2>1. Published(k)
    BY DEF Published, InService
  <2> QED
    BY <2>1 DEF DefinitionsInv, TableLeads
<1> QED
  BY <1>1, DefinitionsInvariant, PTL

(* A run goes on, across restarts and repeated schedules, with the         *)
(* definitions it was started with.                                        *)
THEOREM RunsKeepDefinitions == Spec => []RunKeepsDefinitions
<1>1. DefinitionsInv => RunKeepsDefinitions
  BY DEF DefinitionsInv, RunKept, Kept, RunKeepsDefinitions, Settled
<1> QED
  BY <1>1, DefinitionsInvariant, PTL

-----------------------------------------------------------------------------
(* What the requests hold has been judged, and what memory holds fits its  *)
(* fields again after a trip through the table.                            *)

Judged(c) ==
  put[c].step # "none" =>
    /\ put[c].def \in menu[put[c].kind]
    /\ put[c].step = "refused" <=> ~Valid(put[c].kind, put[c].def)
(* A DAG in memory fits its fields; one in the table is what it made of    *)
(* one that was sent.                                                      *)
DagsFit ==
  /\ defs.dag # None => defs.dag \in SentDag
  /\ table.dag # None => \E d \in SentDag : table.dag = Stored("dag", d)
JudgedInv == DagsFit /\ \A c \in Clients : Judged(c)

(* A DAG that the server decodes from the table is one that could be sent. *)
LEMMA StoredTaskFits ==
  ASSUME NEW t \in DagTask, StoredTask(t).cost <= MaxUint
  PROVE  StoredTask(t) \in DagTask
<1> DEFINE deps == [i \in DOMAIN t.dependsOn |-> Redacted(t.dependsOn[i])]
<1>1. /\ t = [id |-> t.id, cost |-> t.cost, requires |-> t.requires, dependsOn |-> t.dependsOn]
      /\ t.id \in Nat /\ t.cost \in Nat /\ t.dependsOn \in Seq(Nat) /\ t.requires \in SUBSET Nat
  BY MaxUintAssumption DEF DagTask
<1>2. StoredTask(t) =
        [id |-> Redacted(t.id), cost |-> AsFloat(t.cost), requires |-> AllRedacted(t.requires),
         dependsOn |-> deps]
  BY <1>1, StoredTaskFields
<1>3. deps \in Seq(Nat)
  <2> PICK n \in Nat : n = Len(t.dependsOn) /\ DOMAIN t.dependsOn = 1..n
    BY <1>1, LenProperties
  <2>1. ASSUME NEW i \in 1..n
        PROVE  Redacted(t.dependsOn[i]) \in Nat
    <3>1. t.dependsOn[i] \in Nat
      BY <1>1
    <3> QED
      BY <3>1, RedactedTwice
  <2>2. deps \in [1..n -> Nat]
    BY <2>1
  <2> HIDE DEF deps
  <2> QED
    BY <2>2
<1>4. Redacted(t.id) \in Nat /\ AsFloat(t.cost) \in Nat
  BY <1>1, RedactedTwice, AsFloatTwice
<1> HIDE DEF deps
<1>5. AsFloat(t.cost) \in 0..MaxUint
  BY <1>2, <1>4, MaxUintAssumption
<1>6. AllRedacted(t.requires) \in SUBSET Nat
  BY <1>1, AllRedactedTwice
<1> QED
  BY <1>2, <1>3, <1>4, <1>5, <1>6 DEF DagTask

(* So does a DAG whose numbers the decoder takes.                          *)
LEMMA StoredDagFits ==
  ASSUME NEW d \in SentDag, Decodes("dag", Stored("dag", d))
  PROVE  Stored("dag", d) \in SentDag
<1> DEFINE tasks == [i \in DOMAIN d.tasks |-> StoredTask(d.tasks[i])]
<1>1. /\ d = [tasks |-> d.tasks, maxFanout |-> d.maxFanout, budget |-> d.budget]
      /\ d.tasks \in Seq(DagTask) /\ d.budget \in Nat
  BY MaxUintAssumption DEF SentDag
<1>2. Stored("dag", d) =
        [tasks |-> tasks, maxFanout |-> AsFloat(d.maxFanout), budget |-> AsFloat(d.budget)]
  BY <1>1 DEF Stored
<1>3. /\ AsFloat(d.budget) <= MaxUint /\ AsFloat(d.maxFanout) \in Ints
      /\ \A i \in DOMAIN tasks : tasks[i].cost <= MaxUint
  BY <1>2 DEF Decodes
<1>4. tasks \in Seq(DagTask)
  <2> PICK n \in Nat : n = Len(d.tasks) /\ DOMAIN d.tasks = 1..n
    BY <1>1, LenProperties
  <2>1. ASSUME NEW i \in 1..n
        PROVE  tasks[i] \in DagTask
    <3>1. d.tasks[i] \in DagTask /\ tasks[i] = StoredTask(d.tasks[i])
      BY <1>1
    <3>2. StoredTask(d.tasks[i]).cost <= MaxUint
      BY <1>3
    <3> HIDE DEF tasks
    <3> QED
      BY <3>1, <3>2, StoredTaskFits
  <2>2. tasks = [i \in 1..n |-> tasks[i]]
    OBVIOUS
  <2> HIDE DEF tasks
  <2> QED
    BY <2>1, <2>2
<1>5. AsFloat(d.budget) \in Nat
  BY <1>1, AsFloatTwice
<1> HIDE DEF tasks
<1>6. AsFloat(d.budget) \in 0..MaxUint
  BY <1>3, <1>5, MaxUintAssumption
<1> QED
  BY <1>2, <1>3, <1>4, <1>6 DEF SentDag

(* The same of an agent.                                                   *)
LEMMA StoredAgentFits ==
  ASSUME NEW a \in CatalogAgent,
         StoredAgent(a).priority \in Ints, StoredAgent(a).maxConcurrent \in Ints
  PROVE  StoredAgent(a) \in CatalogAgent
<1>1. /\ a = [id |-> a.id, version |-> a.version, capabilities |-> a.capabilities,
              priority |-> a.priority, enabled |-> a.enabled, maxConcurrent |-> a.maxConcurrent]
      /\ a.id \in Nat /\ a.version \in Nat /\ a.capabilities \in SUBSET Nat
      /\ a.enabled \in BOOLEAN
  BY DEF CatalogAgent
<1>2. StoredAgent(a) =
        [id |-> Redacted(a.id), version |-> Redacted(a.version),
         capabilities |-> AllRedacted(a.capabilities), priority |-> AsFloat(a.priority),
         enabled |-> a.enabled, maxConcurrent |-> AsFloat(a.maxConcurrent)]
  BY <1>1, StoredAgentFields
<1>3. AsFloat(a.priority) \in Ints /\ AsFloat(a.maxConcurrent) \in Ints
  BY <1>2
<1>4. Redacted(a.id) \in Nat /\ Redacted(a.version) \in Nat
  BY <1>1, RedactedTwice
<1>5. AllRedacted(a.capabilities) \in SUBSET Nat
  BY <1>1, AllRedactedTwice
<1> QED
  BY <1>1, <1>2, <1>3, <1>4, <1>5 DEF CatalogAgent

(* And of a catalog.                                                       *)
LEMMA StoredCatalogFits ==
  ASSUME NEW d \in SentCatalog, Decodes("catalog", Stored("catalog", d))
  PROVE  Stored("catalog", d) \in SentCatalog
<1> DEFINE caps == [i \in DOMAIN d.capabilities |-> Redacted(d.capabilities[i])]
           agents == [i \in DOMAIN d.agents |-> StoredAgent(d.agents[i])]
<1>1. /\ d = [capabilities |-> d.capabilities, agents |-> d.agents]
      /\ d.capabilities \in Seq(Nat) /\ d.agents \in Seq(CatalogAgent)
  BY DEF SentCatalog
<1>2. Stored("catalog", d) = [capabilities |-> caps, agents |-> agents]
  BY <1>1, StoredCatalogFields
<1>3. \A i \in DOMAIN agents : agents[i].priority \in Ints /\ agents[i].maxConcurrent \in Ints
  <2> HIDE DEF caps, agents
  <2> QED
    BY <1>2 DEF Decodes
<1>4. caps \in Seq(Nat)
  <2> PICK n \in Nat : n = Len(d.capabilities) /\ DOMAIN d.capabilities = 1..n
    BY <1>1, LenProperties
  <2>1. ASSUME NEW i \in 1..n
        PROVE  Redacted(d.capabilities[i]) \in Nat
    <3>1. d.capabilities[i] \in Nat
      BY <1>1
    <3> QED
      BY <3>1, RedactedTwice
  <2>2. caps \in [1..n -> Nat]
    BY <2>1
  <2> HIDE DEF caps
  <2> QED
    BY <2>2
<1>5. agents \in Seq(CatalogAgent)
  <2> PICK n \in Nat : n = Len(d.agents) /\ DOMAIN d.agents = 1..n
    BY <1>1, LenProperties
  <2>1. ASSUME NEW i \in 1..n
        PROVE  agents[i] \in CatalogAgent
    <3>1. d.agents[i] \in CatalogAgent /\ agents[i] = StoredAgent(d.agents[i])
      BY <1>1
    <3>2. StoredAgent(d.agents[i]).priority \in Ints /\ StoredAgent(d.agents[i]).maxConcurrent \in Ints
      BY <1>3
    <3> HIDE DEF agents
    <3> QED
      BY <3>1, <3>2, StoredAgentFits
  <2>2. agents = [i \in 1..n |-> agents[i]]
    OBVIOUS
  <2> HIDE DEF agents
  <2> QED
    BY <2>1, <2>2
<1> HIDE DEF caps, agents
<1> QED
  BY <1>2, <1>4, <1>5 DEF SentCatalog

(* No step changes a judgement; what comes into memory was sent or         *)
(* decoded.                                                                *)
LEMMA NextJudged ==
  ASSUME DefinitionsInv, JudgedInv, Next
  PROVE  JudgedInv'
<1>1. ASSUME NEW c \in Clients, Put(c)
      PROVE  JudgedInv'
  <2>1. PICK k \in Kinds : \E d \in menu[k] :
          put' = [put EXCEPT ![c] =
                    [step |-> IF Valid(k, d) THEN "save" ELSE "refused", kind |-> k, def |-> d]]
    BY <1>1 DEF Put
  <2>2. PICK d \in menu[k] :
          put' = [put EXCEPT ![c] =
                    [step |-> IF Valid(k, d) THEN "save" ELSE "refused", kind |-> k, def |-> d]]
    BY <2>1
  <2>3. UNCHANGED <<menu, table, defs>>
    BY <1>1 DEF Put
  <2>4. /\ put'[c].step = IF Valid(k, d) THEN "save" ELSE "refused"
        /\ put'[c].kind = k /\ put'[c].def = d
        /\ \A b \in Clients \ {c} : put'[b] = put[b]
    BY <2>2, PutBegins DEF DefinitionsInv, Shapes, PutShape
  <2> QED
    BY <2>3, <2>4 DEF JudgedInv, DagsFit, Judged
<1>2. ASSUME NEW c \in Clients, SaveDefinition(c)
      PROVE  JudgedInv'
  <2> DEFINE k == put[c].kind
             d == put[c].def
  <2>1. /\ put[c].step = "save" /\ table' = [table EXCEPT ![k] = Stored(k, d)]
        /\ put' = [put EXCEPT ![c].step = "publish"] /\ UNCHANGED <<menu, defs>>
    BY <1>2 DEF SaveDefinition
  <2>2. /\ put'[c].step = "publish" /\ put'[c].kind = k /\ put'[c].def = d
        /\ \A b \in Clients \ {c} : put'[b] = put[b]
    BY <2>1, PutMoves DEF DefinitionsInv, Shapes, PutShape
  <2>3. k \in Kinds /\ table = [j \in Kinds |-> table[j]] /\ menu \in Menus
    BY DEF DefinitionsInv, Shapes
  <2>4. d \in menu[k] /\ Valid(k, d)
    BY <2>1 DEF JudgedInv, Judged
  <2> HIDE DEF k, d
  <2>5. \A b \in Clients : Judged(b)'
    BY <2>1, <2>2, <2>4 DEF JudgedInv, Judged
  <2>6. CASE k = "dag"
    <3>1. d \in SentDag
      BY <2>3, <2>4, <2>6, MenusAssumption
    <3>2. table'.dag = Stored("dag", d)
      BY <2>1, <2>3, <2>6 DEF Kinds
    <3> QED
      BY <2>1, <2>5, <3>1, <3>2 DEF JudgedInv, DagsFit
  <2>7. CASE k # "dag"
    <3>1. table'.dag = table.dag
      BY <2>1, <2>3, <2>7 DEF Kinds
    <3> QED
      BY <2>1, <2>5, <3>1 DEF JudgedInv, DagsFit
  <2> QED
    BY <2>6, <2>7
<1>3. ASSUME NEW c \in Clients, SaveFails(c)
      PROVE  JudgedInv'
  <2>1. /\ put[c].step = "save" /\ put' = [put EXCEPT ![c].step = "failed"]
        /\ UNCHANGED <<menu, table, defs>>
    BY <1>3 DEF SaveFails
  <2>2. /\ put'[c].step = "failed" /\ put'[c].kind = put[c].kind /\ put'[c].def = put[c].def
        /\ \A b \in Clients \ {c} : put'[b] = put[b]
    BY <2>1, PutMoves DEF DefinitionsInv, Shapes, PutShape
  <2> QED
    BY <2>1, <2>2 DEF JudgedInv, DagsFit, Judged
<1>4. ASSUME NEW c \in Clients, Publish(c)
      PROVE  JudgedInv'
  <2> DEFINE k == put[c].kind
             d == put[c].def
  <2>1. /\ put[c].step = "publish" /\ defs' = [defs EXCEPT ![k] = d]
        /\ put' = [put EXCEPT ![c].step = "answered"] /\ UNCHANGED <<menu, table>>
    BY <1>4 DEF Publish
  <2>2. /\ put'[c].step = "answered" /\ put'[c].kind = k /\ put'[c].def = d
        /\ \A b \in Clients \ {c} : put'[b] = put[b]
    BY <2>1, PutMoves DEF DefinitionsInv, Shapes, PutShape
  <2>3. k \in Kinds /\ defs = [j \in Kinds |-> defs[j]] /\ menu \in Menus
    BY DEF DefinitionsInv, Shapes
  <2>4. d \in menu[k] /\ Valid(k, d)
    BY <2>1 DEF JudgedInv, Judged
  <2> HIDE DEF k, d
  <2>5. \A b \in Clients : Judged(b)'
    BY <2>1, <2>2, <2>4 DEF JudgedInv, Judged
  <2>6. CASE k = "dag"
    <3>1. d \in SentDag
      BY <2>3, <2>4, <2>6, MenusAssumption
    <3>2. defs'.dag = d
      BY <2>1, <2>3, <2>6 DEF Kinds
    <3> QED
      BY <2>1, <2>5, <3>1, <3>2 DEF JudgedInv, DagsFit
  <2>7. CASE k # "dag"
    <3>1. defs'.dag = defs.dag
      BY <2>1, <2>3, <2>7 DEF Kinds
    <3> QED
      BY <2>1, <2>5, <3>1 DEF JudgedInv, DagsFit
  <2> QED
    BY <2>6, <2>7
<1>5. ASSUME StartRun \/ ResumeRun
      PROVE  JudgedInv'
  BY <1>5 DEF StartRun, ResumeRun, JudgedInv, DagsFit, Judged
<1>6. ASSUME Crash
      PROVE  JudgedInv'
  <2>1. /\ defs' = [k \in Kinds |-> None] /\ put' = [c \in Clients |-> NoPut]
        /\ UNCHANGED <<menu, table>>
    BY <1>6 DEF Crash
  <2>2. defs'.dag = None /\ \A c \in Clients : put'[c].step = "none"
    BY <2>1 DEF NoPut, Kinds
  <2> QED
    BY <2>1, <2>2 DEF JudgedInv, DagsFit, Judged
<1>7. ASSUME LoadDefinitions
      PROVE  JudgedInv'
  <2>1. /\ defs' = [k \in Kinds |->
                      IF table[k] # None /\ Decodes(k, table[k]) /\ Valid(k, table[k])
                      THEN table[k] ELSE None]
        /\ UNCHANGED <<menu, table, put>>
    BY <1>7 DEF LoadDefinitions
  <2>2. defs'.dag # None => defs'.dag = table.dag /\ table.dag # None /\ Decodes("dag", table.dag)
    BY <2>1 DEF Kinds
  <2>3. defs'.dag # None => defs'.dag \in SentDag
    BY <2>2, StoredDagFits DEF JudgedInv, DagsFit
  <2> QED
    BY <2>1, <2>3 DEF JudgedInv, DagsFit, Judged
<1> QED
  BY <1>1, <1>2, <1>3, <1>4, <1>5, <1>6, <1>7 DEF Next

(* So it holds of every behaviour.                                         *)
LEMMA JudgedInvariant == Spec => []JudgedInv
<1>1. Init => JudgedInv
  <2> SUFFICES ASSUME Init
               PROVE  JudgedInv
    OBVIOUS
  <2>1. defs.dag = None /\ table.dag = None /\ \A c \in Clients : put[c].step = "none"
    BY DEF Init, NoPut, Kinds
  <2> QED
    BY <2>1 DEF JudgedInv, DagsFit, Judged
<1>2. DefinitionsInv /\ JudgedInv /\ [Next]_vars => JudgedInv'
  <2>1. ASSUME JudgedInv, UNCHANGED vars
        PROVE  JudgedInv'
    BY <2>1 DEF vars, JudgedInv, DagsFit, Judged
  <2> QED
    BY <2>1, NextJudged
<1> QED
  BY <1>1, <1>2, DefinitionsInvariant, PTL DEF Spec

(* The server refuses exactly the DAGs that cannot be run: for DAGs of any *)
(* shape and size, the checked addition in fixed width, the depth-first    *)
(* search for a cycle and the checks by position (TaskDAG.Validate) say    *)
(* the same as the definition of Runnable; and what is read back after a   *)
(* restart has been judged again (loadDefinitions).                        *)
THEOREM ServesExactlyRunnable == Spec => []AcceptsExactlyRunnable
<1>1. DefinitionsInv /\ JudgedInv => AcceptsExactlyRunnable
  <2> SUFFICES ASSUME DefinitionsInv, JudgedInv
               PROVE  AcceptsExactlyRunnable
    OBVIOUS
  <2>1. ASSUME NEW c \in Clients, put[c].step # "none", put[c].kind = "dag"
        PROVE  put[c].step = "refused" <=> ~Runnable(put[c].def)
    <3>1. put[c].def \in SentDag
      BY <2>1, MenusAssumption DEF DefinitionsInv, Shapes, JudgedInv, Judged
    <3>2. put[c].step = "refused" <=> ~Validate(put[c].def)
      BY <2>1 DEF JudgedInv, Judged, Valid
    <3> QED
      BY <3>1, <3>2, ValidIsRunnable
  <2>2. ASSUME defs.dag # None
        PROVE  Runnable(defs.dag)
    <3>1. defs.dag \in SentDag /\ Validate(defs.dag)
      BY <2>2 DEF DefinitionsInv, DefinitionsSound, Loadable, Valid, Kinds, JudgedInv, DagsFit
    <3> QED
      BY <3>1, ValidIsRunnable
  <2> QED
    BY <2>1, <2>2 DEF AcceptsExactlyRunnable
<1> QED
  BY <1>1, DefinitionsInvariant, JudgedInvariant, PTL

-----------------------------------------------------------------------------
(* The plan of a run.                                                      *)

(* A DAG that the server accepted is one that Kahn's algorithm orders.     *)
LEMMA ValidIsProper ==
  ASSUME NEW d \in SentDag, Validate(d)
  PROVE  Proper(d) /\ Len(d.tasks) = Cardinality(Ids(d))
<1>1. /\ UniqueIds(d) /\ DependenciesKnown(d) /\ NoCycle(d)
      /\ Ids(d) \in SUBSET Nat
  BY IdsCounted DEF Validate
<1>2. DependenciesRight(d) /\ Wired(d)
  <2>1. \A i, j \in DOMAIN d.tasks : d.tasks[i].id = d.tasks[j].id => i = j
    BY <1>1, IdsCounted
  <2> QED
    BY <1>1, <2>1, DependenciesSound
<1>3. Peels(d, Ids(d))
  BY <1>1, <1>2, NoCycleSound
<1> QED
  BY <1>1, <1>2, <1>3 DEF Proper, DependenciesRight, UniqueIds

(* What is free after the tasks before it, as the property puts it.        *)
LEMMA FreeOfTheRest ==
  ASSUME NEW d, Wired(d), NEW O
  PROVE  Free(d, O) = {id \in Ids(d) \ O : Range(DependsOn(d, id)) \cap (Ids(d) \ O) = {}}
<1>1. ASSUME NEW id \in Ids(d)
      PROVE  Deps(d, id) \subseteq O <=> Range(DependsOn(d, id)) \cap (Ids(d) \ O) = {}
  <2>1. Deps(d, id) \subseteq Ids(d) /\ Deps(d, id) = Range(DependsOn(d, id))
    BY DepsAreIds DEF Deps
  <2> QED
    BY <2>1
<1> QED
  BY <1>1 DEF Free

(* A run is planned from definitions that the server accepted.             *)
Planned ==
  /\ run.plan = Plan(run.used.catalog, run.used.dag)
  /\ run.used.catalog \in SentCatalog
  /\ run.used.dag \in SentDag /\ Validate(run.used.dag)
(* Memory holds a catalog that could be sent, the table what it made of    *)
(* one, and a plan was made from definitions that the server accepted.     *)
PlansInv ==
  /\ defs.catalog # None => defs.catalog \in SentCatalog
  /\ table.catalog # None => \E d \in SentCatalog : table.catalog = Stored("catalog", d)
  /\ run.plan # None => Planned

(* A plan that a run makes of the definitions in memory.                   *)
LEMMA PlanFromMemory ==
  ASSUME DefinitionsInv, JudgedInv, PlansInv, \A k \in Kinds : defs[k] # None
  PROVE  defs.catalog \in SentCatalog /\ defs.dag \in SentDag /\ Validate(defs.dag)
<1>1. defs.catalog # None /\ defs.dag # None
  BY DEF Kinds
<1>2. Validate(defs.dag)
  BY <1>1 DEF DefinitionsInv, DefinitionsSound, Loadable, Valid, Kinds
<1> QED
  BY <1>1, <1>2 DEF JudgedInv, DagsFit, PlansInv

(* A plan is made from what is in memory, which has been validated.        *)
LEMMA NextPlans ==
  ASSUME DefinitionsInv, JudgedInv, PlansInv, Next
  PROVE  PlansInv'
<1>1. /\ run = [started |-> run.started, used |-> run.used, plan |-> run.plan,
                replaced |-> run.replaced]
      /\ defs = [j \in Kinds |-> defs[j]] /\ table = [j \in Kinds |-> table[j]]
      /\ menu \in Menus
  BY DEF DefinitionsInv, Shapes
<1>2. CASE \E c \in Clients : Put(c) \/ SaveFails(c)
  <2>1. UNCHANGED <<table, defs, run>>
    BY <1>2 DEF Put, SaveFails
  <2> QED
    BY <2>1 DEF PlansInv, Planned
<1>3. ASSUME NEW c \in Clients, SaveDefinition(c)
      PROVE  PlansInv'
  <2> DEFINE k == put[c].kind
             d == put[c].def
  <2>1. /\ put[c].step = "save" /\ table' = [table EXCEPT ![k] = Stored(k, d)]
        /\ run' = Replaced(k, d) /\ defs' = defs
    BY <1>3 DEF SaveDefinition
  <2>2. d \in menu[k] /\ k \in Kinds
    BY <2>1 DEF JudgedInv, Judged, DefinitionsInv, Shapes
  <2> HIDE DEF k, d
  <2>3. run'.plan = run.plan /\ run'.used = run.used
    <3>1. CASE run' = run
      BY <3>1
    <3>2. CASE run' = [run EXCEPT !.replaced = @ \cup {k}]
      <4>1. run' = [started |-> run.started, used |-> run.used, plan |-> run.plan,
                    replaced |-> run.replaced \cup {k}]
        BY <1>1, <3>2
      <4> QED
        BY <4>1
    <3> QED
      BY <2>1, <3>1, <3>2 DEF Replaced
  <2>4. table'.catalog # None => \E e \in SentCatalog : table'.catalog = Stored("catalog", e)
    <3>1. CASE k = "catalog"
      <4>1. d \in SentCatalog
        BY <1>1, <2>2, <3>1, MenusAssumption
      <4>2. table'.catalog = Stored("catalog", d)
        BY <1>1, <2>1, <3>1 DEF Kinds
      <4> QED
        BY <4>1, <4>2
    <3>2. CASE k # "catalog"
      <4>1. table'.catalog = table.catalog
        BY <1>1, <2>1, <3>2 DEF Kinds
      <4> QED
        BY <4>1 DEF PlansInv
    <3> QED
      BY <3>1, <3>2
  <2> QED
    BY <2>1, <2>3, <2>4 DEF PlansInv, Planned
<1>4. ASSUME NEW c \in Clients, Publish(c)
      PROVE  PlansInv'
  <2> DEFINE k == put[c].kind
             d == put[c].def
  <2>1. put[c].step = "publish" /\ defs' = [defs EXCEPT ![k] = d] /\ UNCHANGED <<table, run>>
    BY <1>4 DEF Publish
  <2>2. d \in menu[k] /\ k \in Kinds
    BY <2>1 DEF JudgedInv, Judged, DefinitionsInv, Shapes
  <2> HIDE DEF k, d
  <2>3. defs'.catalog # None => defs'.catalog \in SentCatalog
    <3>1. CASE k = "catalog"
      <4>1. d \in SentCatalog
        BY <1>1, <2>2, <3>1, MenusAssumption
      <4>2. defs'.catalog = d
        BY <1>1, <2>1, <3>1 DEF Kinds
      <4> QED
        BY <4>1, <4>2
    <3>2. CASE k # "catalog"
      <4>1. defs'.catalog = defs.catalog
        BY <1>1, <2>1, <3>2 DEF Kinds
      <4> QED
        BY <4>1 DEF PlansInv
    <3> QED
      BY <3>1, <3>2
  <2> QED
    BY <2>1, <2>3 DEF PlansInv, Planned
<1>5. CASE StartRun
  <2> PICK p : p = Plan(defs.catalog, defs.dag)
    OBVIOUS
  <2>1. /\ \A k \in Kinds : defs[k] # None
        /\ UNCHANGED <<table, defs>>
    BY <1>5 DEF StartRun
  <2>2. run'.plan = p /\ run'.used = defs
    BY <1>5 DEF StartRun
  <2>3. defs.catalog \in SentCatalog /\ defs.dag \in SentDag /\ Validate(defs.dag)
    BY <2>1, PlanFromMemory
  <2> QED
    BY <2>1, <2>2, <2>3 DEF PlansInv, Planned
<1>6. CASE ResumeRun
  <2> PICK p : p = Plan(defs.catalog, defs.dag)
    OBVIOUS
  <2>1. UNCHANGED <<table, defs>>
    BY <1>6 DEF ResumeRun
  <2>2. CASE \A k \in Kinds : defs[k] # None
    <3>1. run' = [run EXCEPT !.used = defs, !.plan = p]
      BY <1>6, <2>2 DEF ResumeRun
    <3>2. run' = [started |-> run.started, used |-> defs, plan |-> p, replaced |-> run.replaced]
      BY <1>1, <3>1
    <3>3. run'.plan = p /\ run'.used = defs
      BY <3>2
    <3>4. defs.catalog \in SentCatalog /\ defs.dag \in SentDag /\ Validate(defs.dag)
      BY <2>2, PlanFromMemory
    <3> QED
      BY <2>1, <3>3, <3>4 DEF PlansInv, Planned
  <2>3. CASE ~(\A k \in Kinds : defs[k] # None)
    <3>1. run' = [run EXCEPT !.used = defs, !.plan = None]
      BY <1>6, <2>3 DEF ResumeRun
    <3>2. run' = [started |-> run.started, used |-> defs, plan |-> None, replaced |-> run.replaced]
      BY <1>1, <3>1
    <3>3. run'.plan = None
      BY <3>2
    <3> QED
      BY <2>1, <3>3 DEF PlansInv
  <2> QED
    BY <2>2, <2>3
<1>7. CASE Crash
  <2>1. defs'.catalog = None /\ UNCHANGED <<table, run>>
    BY <1>7 DEF Crash, Kinds
  <2> QED
    BY <2>1 DEF PlansInv, Planned
<1>8. CASE LoadDefinitions
  <2>1. /\ defs' = [k \in Kinds |->
                      IF table[k] # None /\ Decodes(k, table[k]) /\ Valid(k, table[k])
                      THEN table[k] ELSE None]
        /\ UNCHANGED <<table, run>>
    BY <1>8 DEF LoadDefinitions
  <2>2. defs'.catalog # None =>
          defs'.catalog = table.catalog /\ table.catalog # None /\ Decodes("catalog", table.catalog)
    BY <2>1 DEF Kinds
  <2>3. defs'.catalog # None => defs'.catalog \in SentCatalog
    BY <2>2, StoredCatalogFits DEF PlansInv
  <2> QED
    BY <2>1, <2>3 DEF PlansInv, Planned
<1> QED
  BY <1>2, <1>3, <1>4, <1>5, <1>6, <1>7, <1>8 DEF Next

(* So it holds of every behaviour.                                         *)
LEMMA PlansInvariant == Spec => []PlansInv
<1>1. Init => PlansInv
  <2> SUFFICES ASSUME Init
               PROVE  PlansInv
    OBVIOUS
  <2>1. defs.catalog = None /\ table.catalog = None /\ run.plan = None
    BY DEF Init, NoRun, Kinds
  <2> QED
    BY <2>1 DEF PlansInv
<1>2. DefinitionsInv /\ JudgedInv /\ PlansInv /\ [Next]_vars => PlansInv'
  <2>1. ASSUME PlansInv, UNCHANGED vars
        PROVE  PlansInv'
    BY <2>1 DEF vars, PlansInv, Planned
  <2> QED
    BY <2>1, NextPlans
<1> QED
  BY <1>1, <1>2, DefinitionsInvariant, JudgedInvariant, PTL DEF Spec

(* The order of a planned run is the one that takes the least free task,   *)
(* with every task in it.                                                  *)
LEMMA OrderSound ==
  ASSUME NEW d \in SentDag, Validate(d)
  PROVE  LET order == Topological(d)
             Left(i) == Ids(d) \ {order[j] : j \in 1..(i - 1)}
             Ready(i) == {id \in Left(i) : Range(DependsOn(d, id)) \cap Left(i) = {}}
         IN /\ Len(order) = Cardinality(Ids(d))
            /\ \A i \in DOMAIN order : order[i] \in Ready(i) /\ \A id \in Ready(i) : order[i] <= id
<1> PICK order : order = Topological(d)
  OBVIOUS
<1>1. Proper(d) /\ Len(order) = Cardinality(Ids(d)) /\ LeastFree(d, order)
  BY ValidIsProper, TopologicalSound
<1> DEFINE Left(i) == Ids(d) \ {order[j] : j \in 1..(i - 1)}
           Ready(i) == {id \in Left(i) : Range(DependsOn(d, id)) \cap Left(i) = {}}
<1>2. ASSUME NEW i \in DOMAIN order
      PROVE  order[i] \in Ready(i) /\ \A id \in Ready(i) : order[i] <= id
  <2>1. Free(d, Earlier(order, i)) = Ready(i)
    <3>1. Wired(d) /\ Earlier(order, i) = {order[j] : j \in 1..(i - 1)}
      BY <1>1 DEF Proper, Earlier
    <3>2. Free(d, Earlier(order, i))
            = {id \in Ids(d) \ Earlier(order, i) :
                 Range(DependsOn(d, id)) \cap (Ids(d) \ Earlier(order, i)) = {}}
      BY <3>1, FreeOfTheRest
    <3> QED
      BY <3>1, <3>2
  <2> HIDE DEF Ready
  <2> QED
    BY <1>1, <1>2, <2>1 DEF LeastFree
<1> QED
  BY <1>1, <1>2

(* A run is scheduled in the one order that takes the least task whose     *)
(* dependencies precede it, and each task goes to the best agent able to   *)
(* do it (topological, Route), for DAGs and catalogs of any size.          *)
THEOREM PlansAreSound == Spec => []PlansSound
<1>1. PlansInv => PlansSound
  <2> SUFFICES ASSUME PlansInv, run.plan # None
               PROVE  PlansSound
    BY DEF PlansSound
  <2> PICK d : d = run.used.dag
    OBVIOUS
  <2> PICK c : c = run.used.catalog
    OBVIOUS
  <2> PICK order : order = Topological(d)
    OBVIOUS
  <2>1. run.plan = Plan(c, d) /\ c \in SentCatalog /\ d \in SentDag /\ Validate(d)
    BY DEF PlansInv, Planned
  <2>2. /\ run.plan.order = order
        /\ \A id \in Ids(d) : run.plan.agent[id] = Route(c, TaskOf(d, id))
    BY <2>1 DEF Plan
  <2> DEFINE Left(i) == Ids(d) \ {order[j] : j \in 1..(i - 1)}
             Ready(i) == {id \in Left(i) : Range(DependsOn(d, id)) \cap Left(i) = {}}
  <2>3. /\ Len(order) = Cardinality(Ids(d))
        /\ \A i \in DOMAIN order : order[i] \in Ready(i) /\ \A id \in Ready(i) : order[i] <= id
    BY <2>1, OrderSound
  <2>4. ASSUME NEW id \in Ids(d)
        PROVE  LET able == Able(c, TaskOf(d, id))
               IN IF able = {} THEN run.plan.agent[id] = 0
                  ELSE \E a \in able : a.id = run.plan.agent[id] /\ IsBest(a, able)
    BY <2>1, <2>2, RouteSound
  <2> QED
    BY <2>2, <2>3, <2>4 DEF PlansSound
<1> QED
  BY <1>1, PlansInvariant, PTL
================================================================================
