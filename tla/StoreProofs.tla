----------------------------- MODULE StoreProofs -----------------------------
(***************************************************************************)
(* Proofs about the event store and its readers (EventStream): the tables  *)
(* can always be opened again, the projections are replays, every client   *)
(* holds a stretch of the log, exports are sound, and disk and memory      *)
(* together implement EventLog.                                            *)
(***************************************************************************)
EXTENDS EventStream, FiniteSetTheorems, SequenceTheorems, WellFoundedInduction, TLAPS

-----------------------------------------------------------------------------
(* The inductive invariant.                                                *)

(* The events of a run: their order, their numbers, and what SQLite keeps  *)
(* of them.                                                                *)
LogSound(r) ==
  LET log == RowsOf(r)
      p == projections[r] IN
  /\ Len(log) <= Len(rows)
  /\ \A i \in 1..Len(log) : log[i].run = r /\ log[i].sequence = i /\ log[i].id \in i..Len(rows)
  /\ \A i, j \in 1..Len(log) : i < j => log[i].id < log[j].id
  /\ r \notin diskRuns => log = <<>>
  /\ p = Replay(log) /\ p.status = ProjectStatus(log) /\ p.steps = Len(log)
  /\ p.last = IF log = <<>> THEN 0 ELSE log[Len(log)].id

DiskInv ==
  /\ \A i \in 1..Len(rows) : rows[i].run \in diskRuns
  /\ \A r \in Runs : LogSound(r)

(* The maps are the tables, but for the write that is committed and not    *)
(* yet in them.                                                            *)
WritesTo(r) == ~Free /\ pending.run = r /\ pending.row # NoRow

MemoryInv ==
  /\ server = "down" => Free
  /\ server # "down" =>
       /\ diskRuns = runs \cup (IF Free THEN {} ELSE {pending.run})
       /\ \A r \in Runs :
            RowsOf(r) = IF WritesTo(r) THEN Append(events[r], pending.row) ELSE events[r]

(* The runs that a server that starts has still to mark.                   *)
RecoveryInv ==
  server = "recovering" /\ fatal = "none" =>
    \A r \in diskRuns : projections[r].status = "running" => r \in recover

(* What a client holds ends at position p, and its cursor leaves out no    *)
(* event after p; that of an API client also repeats none before p.        *)
ClientSound(c) ==
  LET a == client[c]
      log == RowsOf(a.run)
      p == a.base + Len(a.got) IN
  /\ a.got = SubSeq(log, a.base + 1, p)
  /\ (a.kind # "web" \/ a.got # <<>>) => p <= Len(log)
  /\ a.cursor <= Len(rows) \/ a.cursor <= p
  /\ \A i \in 1..Len(log) : i > p => log[i].id > a.cursor
  /\ a.kind # "web" => \A i \in 1..p : log[i].id <= a.cursor
  /\ a.kind = "web" => a.pc # "behind" /\ (a.pc = "selected" => a.got = <<>>)
  /\ a.kind = "exporter" => a.pc = "idle"

(* The events of an export are a prefix of the log, and its projection is  *)
(* that of this prefix or of a longer one.                                 *)
ExportInv ==
  LET log == RowsOf(export.run)
      n == Len(export.events) IN
  export.pc # "idle" =>
    /\ n <= Len(log) /\ export.events = SubSeq(log, 1, n)
    /\ Replay(export.events).steps = n
    /\ Replay(export.events).status = ProjectStatus(export.events)
    /\ export.pc = "done" =>
         /\ export.projection.steps \in n..Len(log)
         /\ export.projection.steps = n => export.projection = Replay(export.events)

StoreInv ==
  /\ TypeOK
  /\ DiskInv
  /\ MemoryInv
  /\ RecoveryInv
  /\ \A c \in Streams : ClientSound(c)
  /\ ExportInv

-----------------------------------------------------------------------------
(* Induction over the positions of a sequence.                             *)

(* A non-empty set of naturals has a least element.                        *)
LEMMA LeastExists ==
  ASSUME NEW T, T \subseteq Nat, T # {}
  PROVE  \E m \in T : \A k \in T : m <= k
<1> DEFINE R == OpToRel(<, Nat)
<1>1. IsWellFoundedOn(R, Nat)
  BY NatLessThanWellFounded
<1>2. \A x, y \in Nat : x < y => <<x, y>> \in R
  BY DEF OpToRel
<1> HIDE DEF R
<1>3. PICK m \in T : \A y \in T : ~(<<y, m>> \in R)
  BY <1>1, WFMin
<1>4. \A k \in T : ~(k < m)
  BY <1>2, <1>3
<1> QED
  BY <1>4

(* A set that holds 0 and the successor of each of its elements below n    *)
(* holds every number up to n.                                             *)
LEMMA InductionTo ==
  ASSUME NEW n \in Nat, NEW S, 0 \in S, \A m \in 0..n : m \in S /\ m < n => m + 1 \in S
  PROVE  \A m \in 0..n : m \in S
<1> DEFINE T == {m \in 0..n : m \notin S}
<1> SUFFICES ASSUME T # {}
             PROVE  FALSE
  OBVIOUS
<1>1. T \subseteq Nat
  OBVIOUS
<1>2. PICK m \in T : \A k \in T : m <= k
  <2> HIDE DEF T
  <2> QED
    BY <1>1, LeastExists
<1>3. m # 0 /\ m - 1 \in 0..n /\ m - 1 \notin T
  BY <1>2
<1>4. m - 1 \in S /\ m - 1 < n /\ (m - 1) + 1 = m
  BY <1>3
<1> QED
  BY <1>3, <1>4

(* The recursive functions of EventStore fold the elements A of a          *)
(* sequence into a value of X.                                             *)
Folds(f, A, X, base, step, s) ==
  /\ base \in X /\ step \in [X -> [A -> X]] /\ s \in Seq(A)
  /\ f[0] = base
  /\ \A i \in 1..Len(s) : f[i - 1] \in X => f[i] = step[f[i - 1]][s[i]]

LEMMA FoldExists ==
  ASSUME NEW A, NEW X, NEW base \in X, NEW step \in [X -> [A -> X]], NEW s \in Seq(A)
  PROVE  \E f \in [0..Len(s) -> X] : Folds(f, A, X, base, step, s)
<1> DEFINE Chain(f, m) == f[0] = base /\ \A i \in 1..m : f[i] = step[f[i - 1]][s[i]]
           S == {m \in 0..Len(s) : \E f \in [0..m -> X] : Chain(f, m)}
<1>1. Len(s) \in Nat /\ \A i \in 1..Len(s) : s[i] \in A
  OBVIOUS
<1>2. 0 \in S
  <2> DEFINE g == [i \in 0..0 |-> base]
  <2>1. g \in [0..0 -> X] /\ g[0] = base
    OBVIOUS
  <2> HIDE DEF g
  <2>2. Chain(g, 0)
    BY <2>1
  <2>3. \E f \in [0..0 -> X] : Chain(f, 0)
    BY <2>1, <2>2
  <2>4. 0 \in 0..Len(s)
    BY <1>1
  <2> QED
    BY <2>3, <2>4
<1>3. ASSUME NEW m \in 0..Len(s), m \in S, m < Len(s)
      PROVE  m + 1 \in S
  <2>1. PICK f \in [0..m -> X] : Chain(f, m)
    BY <1>3
  <2> DEFINE g == [i \in 0..(m + 1) |-> IF i = m + 1 THEN step[f[m]][s[m + 1]] ELSE f[i]]
  <2>2. step[f[m]][s[m + 1]] \in X
    <3>1. m + 1 \in 1..Len(s) /\ m \in 0..m
      BY <1>1, <1>3
    <3>2. s[m + 1] \in A /\ f[m] \in X
      BY <1>1, <3>1
    <3>3. step[f[m]] \in [A -> X]
      BY <3>2
    <3> QED
      BY <3>2, <3>3
  <2>3. g \in [0..(m + 1) -> X] /\ g[m + 1] = step[f[m]][s[m + 1]] /\ \A i \in 0..m : g[i] = f[i]
    <3>1. /\ m \in Nat /\ m + 1 \in 0..(m + 1)
          /\ \A i \in 0..(m + 1) : i # m + 1 => i \in 0..m
          /\ \A i \in 0..m : i \in 0..(m + 1) /\ i # m + 1
      BY <1>1
    <3>2. \A i \in 0..m : f[i] \in X
      BY <2>1
    <3>3. \A i \in 0..(m + 1) : g[i] \in X
      BY <2>2, <3>1, <3>2
    <3>4. g \in [0..(m + 1) -> X]
      BY <3>3
    <3> QED
      BY <3>1, <3>4
  <2> HIDE DEF g
  <2>4. ASSUME NEW i \in 1..(m + 1)
        PROVE  g[i] = step[g[i - 1]][s[i]]
    <3>1. CASE i = m + 1
      <4>1. i - 1 = m /\ g[i - 1] = f[m]
        BY <1>1, <2>3, <3>1
      <4> QED
        BY <2>3, <3>1, <4>1
    <3>2. CASE i # m + 1
      <4>1. i \in 1..m /\ i \in 0..m /\ i - 1 \in 0..m
        BY <1>1, <3>2
      <4>2. f[i] = step[f[i - 1]][s[i]]
        BY <2>1, <4>1
      <4> QED
        BY <2>3, <4>1, <4>2
    <3> QED
      BY <3>1, <3>2
  <2>5. Chain(g, m + 1) /\ m + 1 \in 0..Len(s)
    BY <1>1, <1>3, <2>1, <2>3, <2>4
  <2> QED
    BY <2>3, <2>5
<1>4. Len(s) \in S
  <2> HIDE DEF S
  <2>1. \A m \in 0..Len(s) : m \in S /\ m < Len(s) => m + 1 \in S
    BY <1>3
  <2>2. \A m \in 0..Len(s) : m \in S
    BY <1>1, <1>2, <2>1, InductionTo
  <2> QED
    BY <1>1, <2>2
<1> QED
  BY <1>1, <1>4 DEF Folds

(* What such a function makes of one more element.                         *)
LEMMA FoldAppends ==
  ASSUME NEW A, NEW X, NEW base, NEW step, NEW s, NEW x \in A, NEW f, NEW g,
         Folds(f, A, X, base, step, s), Folds(g, A, X, base, step, Append(s, x))
  PROVE  f[Len(s)] \in X /\ g[Len(Append(s, x))] = step[f[Len(s)]][x]
<1> DEFINE S == {m \in 0..Len(s) : f[m] \in X /\ g[m] = f[m]}
<1>0. base \in X /\ step \in [X -> [A -> X]] /\ s \in Seq(A)
  BY DEF Folds
<1>1. /\ Len(s) \in Nat /\ \A i \in 1..Len(s) : s[i] \in A
      /\ Len(Append(s, x)) = Len(s) + 1 /\ Append(s, x)[Len(s) + 1] = x
      /\ \A i \in 1..Len(s) : Append(s, x)[i] = s[i]
  BY <1>0
<1>2. 0 \in S
  BY <1>0, <1>1 DEF Folds
<1>3. ASSUME NEW m \in 0..Len(s), m \in S, m < Len(s)
      PROVE  m + 1 \in S
  <2>1. f[m] \in X /\ g[m] = f[m] /\ m + 1 \in 1..Len(s) /\ (m + 1) - 1 = m
        /\ m + 1 \in 1..Len(Append(s, x))
    BY <1>1, <1>3
  <2>2. f[m + 1] = step[f[m]][s[m + 1]]
    BY <2>1 DEF Folds
  <2>3. g[m + 1] = step[g[m]][Append(s, x)[m + 1]]
    BY <2>1 DEF Folds
  <2>4. Append(s, x)[m + 1] = s[m + 1] /\ s[m + 1] \in A
    BY <1>1, <2>1
  <2>5. step[f[m]][s[m + 1]] \in X
    BY <1>0, <2>1, <2>4
  <2> QED
    BY <2>1, <2>2, <2>3, <2>4, <2>5
<1>4. Len(s) \in S
  <2> HIDE DEF S
  <2>1. \A m \in 0..Len(s) : m \in S /\ m < Len(s) => m + 1 \in S
    BY <1>3
  <2>2. \A m \in 0..Len(s) : m \in S
    BY <1>1, <1>2, <2>1, InductionTo
  <2> QED
    BY <1>1, <2>2
<1>5. Len(s) + 1 \in 1..Len(Append(s, x)) /\ (Len(s) + 1) - 1 = Len(s)
  BY <1>1
<1>6. g[Len(s) + 1] = step[g[Len(s)]][Append(s, x)[Len(s) + 1]]
  BY <1>4, <1>5 DEF Folds
<1> QED
  BY <1>1, <1>4, <1>6

-----------------------------------------------------------------------------
(* The recursive functions of EventStore.                                  *)

Keeping(S) == [kept \in Seq(Row) |-> [row \in Row |-> IF row \in S THEN Append(kept, row) ELSE kept]]

LEMMA AmongFolds ==
  ASSUME NEW S, NEW s \in Seq(Row)
  PROVE  \E f : Among(s, S) = f[Len(s)] /\ Folds(f, Row, Seq(Row), <<>>, Keeping(S), s)
<1> DEFINE Body(f) == [n \in 0..Len(s) |->
                         IF n = 0 THEN <<>>
                         ELSE IF s[n] \in S THEN Append(f[n - 1], s[n]) ELSE f[n - 1]]
           kept == CHOOSE f : f = Body(f)
<1>1. Len(s) \in Nat /\ (\A i \in 1..Len(s) : s[i] \in Row) /\ <<>> \in Seq(Row)
  OBVIOUS
<1>2. Keeping(S) \in [Seq(Row) -> [Row -> Seq(Row)]]
  BY DEF Keeping
<1>3. PICK g \in [0..Len(s) -> Seq(Row)] : Folds(g, Row, Seq(Row), <<>>, Keeping(S), s)
  BY <1>1, <1>2, FoldExists
<1>4. g = Body(g)
  <2>1. ASSUME NEW n \in 1..Len(s)
        PROVE  g[n] = IF s[n] \in S THEN Append(g[n - 1], s[n]) ELSE g[n - 1]
    <3>1. g[n - 1] \in Seq(Row) /\ s[n] \in Row
      BY <1>1
    <3>2. g[n] = Keeping(S)[g[n - 1]][s[n]]
      BY <1>3, <3>1 DEF Folds
    <3> QED
      BY <3>1, <3>2 DEF Keeping
  <2>2. g[0] = <<>>
    BY <1>3 DEF Folds
  <2>3. \A n \in 0..Len(s) :
          g[n] = IF n = 0 THEN <<>>
                 ELSE IF s[n] \in S THEN Append(g[n - 1], s[n]) ELSE g[n - 1]
    <3>1. \A n \in 0..Len(s) : n = 0 \/ n \in 1..Len(s)
      BY <1>1
    <3> QED
      BY <2>1, <2>2, <3>1
  <2> QED
    BY <2>3
<1>5. kept = Body(kept)
  <2> HIDE DEF Body
  <2> QED
    BY <1>4
<1>6. Among(s, S) = kept[Len(s)]
  BY Zenon DEF Among
<1> HIDE DEF kept
<1>7. Folds(kept, Row, Seq(Row), <<>>, Keeping(S), s)
  <2>1. kept[0] = <<>>
    BY <1>1, <1>5
  <2>2. ASSUME NEW n \in 1..Len(s), kept[n - 1] \in Seq(Row)
        PROVE  kept[n] = Keeping(S)[kept[n - 1]][s[n]]
    <3>1. kept[n] = IF s[n] \in S THEN Append(kept[n - 1], s[n]) ELSE kept[n - 1]
      <4>1. n \in 0..Len(s) /\ n # 0
        BY <1>1
      <4> QED
        BY <1>5, <4>1
    <3>2. s[n] \in Row
      BY <1>1
    <3> QED
      BY <2>2, <3>1, <3>2 DEF Keeping
  <2> QED
    BY <1>1, <1>2, <2>1, <2>2 DEF Folds
<1> QED
  BY <1>6, <1>7

LEMMA StatusTyped ==
  ASSUME NEW current \in Status, NEW type
  PROVE  NextStatus(current, type) \in Status
<1>1. DOMAIN StatusOf = {"started", "resumed", "completed", "failed", "cancelled", "interrupted",
                         "emergency_stopped"}
  BY DEF StatusOf
<1>2. \A w \in DOMAIN StatusOf : StatusOf[w] \in Status
  BY <1>1 DEF StatusOf, Status
<1> QED
  BY <1>2 DEF NextStatus

Projecting == [p \in Projection |-> [row \in Row |-> NextProjection(p, row)]]

LEMMA ProjectionTyped ==
  /\ NoEvents \in Projection
  /\ \A p \in Projection, row \in Row : NextProjection(p, row) \in Projection
<1>1. NoEvents \in Projection
  BY DEF NoEvents, Projection, Status
<1>2. ASSUME NEW p \in Projection, NEW row \in Row
      PROVE  NextProjection(p, row) \in Projection
  <2>1. NextStatus(p.status, row.type) \in Status
    BY StatusTyped DEF Projection
  <2> QED
    BY <2>1 DEF NextProjection, Projection, Row
<1> QED
  BY <1>1, <1>2

LEMMA ReplayFolds ==
  ASSUME NEW s \in Seq(Row)
  PROVE  \E f : Replay(s) = f[Len(s)] /\ Folds(f, Row, Projection, NoEvents, Projecting, s)
<1> DEFINE Body(f) == [n \in 0..Len(s) |->
                         IF n = 0 THEN NoEvents ELSE NextProjection(f[n - 1], s[n])]
           projection == CHOOSE f : f = Body(f)
<1>1. Len(s) \in Nat /\ \A i \in 1..Len(s) : s[i] \in Row
  OBVIOUS
<1>2. Projecting \in [Projection -> [Row -> Projection]] /\ NoEvents \in Projection
  BY ProjectionTyped DEF Projecting
<1>3. PICK g \in [0..Len(s) -> Projection] : Folds(g, Row, Projection, NoEvents, Projecting, s)
  BY <1>2, FoldExists
<1>4. g = Body(g)
  <2>1. ASSUME NEW n \in 1..Len(s)
        PROVE  g[n] = NextProjection(g[n - 1], s[n])
    <3>1. g[n - 1] \in Projection /\ s[n] \in Row
      BY <1>1
    <3>2. g[n] = Projecting[g[n - 1]][s[n]]
      BY <1>3, <3>1 DEF Folds
    <3> QED
      BY <3>1, <3>2 DEF Projecting
  <2>2. g[0] = NoEvents
    BY <1>3 DEF Folds
  <2>3. \A n \in 0..Len(s) : g[n] = IF n = 0 THEN NoEvents ELSE NextProjection(g[n - 1], s[n])
    <3>1. \A n \in 0..Len(s) : n = 0 \/ n \in 1..Len(s)
      BY <1>1
    <3> QED
      BY <2>1, <2>2, <3>1
  <2> QED
    BY <2>3
<1>5. projection = Body(projection)
  <2> HIDE DEF Body
  <2> QED
    BY <1>4
<1>6. Replay(s) = projection[Len(s)]
  BY Zenon DEF Replay
<1> HIDE DEF projection
<1>7. Folds(projection, Row, Projection, NoEvents, Projecting, s)
  <2>1. projection[0] = NoEvents
    BY <1>1, <1>5
  <2>2. ASSUME NEW n \in 1..Len(s), projection[n - 1] \in Projection
        PROVE  projection[n] = Projecting[projection[n - 1]][s[n]]
    <3>1. projection[n] = NextProjection(projection[n - 1], s[n])
      <4>1. n \in 0..Len(s) /\ n # 0
        BY <1>1
      <4> QED
        BY <1>5, <4>1
    <3>2. s[n] \in Row
      BY <1>1
    <3> QED
      BY <2>2, <3>1, <3>2 DEF Projecting
  <2> QED
    BY <1>1, <1>2, <2>1, <2>2 DEF Folds
<1> QED
  BY <1>6, <1>7

Marking == [p \in Status |-> [row \in Row |-> NextStatus(p, row.type)]]

LEMMA StatusFolds ==
  ASSUME NEW s \in Seq(Row)
  PROVE  \E f : ProjectStatus(s) = f[Len(s)] /\ Folds(f, Row, Status, "created", Marking, s)
<1> DEFINE Body(f) == [n \in 0..Len(s) |->
                         IF n = 0 THEN "created" ELSE NextStatus(f[n - 1], s[n].type)]
           status == CHOOSE f : f = Body(f)
<1>1. Len(s) \in Nat /\ \A i \in 1..Len(s) : s[i] \in Row
  OBVIOUS
<1>2. Marking \in [Status -> [Row -> Status]] /\ "created" \in Status
  BY StatusTyped DEF Marking, Status
<1>3. PICK g \in [0..Len(s) -> Status] : Folds(g, Row, Status, "created", Marking, s)
  BY <1>2, FoldExists
<1>4. g = Body(g)
  <2>1. ASSUME NEW n \in 1..Len(s)
        PROVE  g[n] = NextStatus(g[n - 1], s[n].type)
    <3>1. g[n - 1] \in Status /\ s[n] \in Row
      BY <1>1
    <3>2. g[n] = Marking[g[n - 1]][s[n]]
      BY <1>3, <3>1 DEF Folds
    <3> QED
      BY <3>1, <3>2 DEF Marking
  <2>2. g[0] = "created"
    BY <1>3 DEF Folds
  <2>3. \A n \in 0..Len(s) : g[n] = IF n = 0 THEN "created" ELSE NextStatus(g[n - 1], s[n].type)
    <3>1. \A n \in 0..Len(s) : n = 0 \/ n \in 1..Len(s)
      BY <1>1
    <3> QED
      BY <2>1, <2>2, <3>1
  <2> QED
    BY <2>3
<1>5. status = Body(status)
  <2> HIDE DEF Body
  <2> QED
    BY <1>4
<1>6. ProjectStatus(s) = status[Len(s)]
  BY Zenon DEF ProjectStatus
<1> HIDE DEF status
<1>7. Folds(status, Row, Status, "created", Marking, s)
  <2>1. status[0] = "created"
    BY <1>1, <1>5
  <2>2. ASSUME NEW n \in 1..Len(s), status[n - 1] \in Status
        PROVE  status[n] = Marking[status[n - 1]][s[n]]
    <3>1. status[n] = NextStatus(status[n - 1], s[n].type)
      <4>1. n \in 0..Len(s) /\ n # 0
        BY <1>1
      <4> QED
        BY <1>5, <4>1
    <3>2. s[n] \in Row
      BY <1>1
    <3> QED
      BY <2>2, <3>1, <3>2 DEF Marking
  <2> QED
    BY <1>1, <1>2, <2>1, <2>2 DEF Folds
<1> QED
  BY <1>6, <1>7

(* What they make of no rows and of one more row.                          *)
LEMMA AmongAppends ==
  ASSUME NEW S, NEW s \in Seq(Row), NEW x \in Row
  PROVE  /\ Among(s, S) \in Seq(Row)
         /\ Among(Append(s, x), S) = IF x \in S THEN Append(Among(s, S), x) ELSE Among(s, S)
<1>1. Append(s, x) \in Seq(Row) /\ Len(Append(s, x)) = Len(s) + 1 /\ <<>> \in Seq(Row)
  OBVIOUS
<1>2. PICK f : Among(s, S) = f[Len(s)] /\ Folds(f, Row, Seq(Row), <<>>, Keeping(S), s)
  BY AmongFolds
<1>3. PICK g : /\ Among(Append(s, x), S) = g[Len(Append(s, x))]
               /\ Folds(g, Row, Seq(Row), <<>>, Keeping(S), Append(s, x))
  BY <1>1, AmongFolds
<1>4. Keeping(S) \in [Seq(Row) -> [Row -> Seq(Row)]]
  BY DEF Keeping
<1>5. f[Len(s)] \in Seq(Row) /\ g[Len(Append(s, x))] = Keeping(S)[f[Len(s)]][x]
  <2>1. Folds(f, Row, Seq(Row), <<>>, Keeping(S), s) /\ Folds(g, Row, Seq(Row), <<>>, Keeping(S), Append(s, x))
    BY <1>2, <1>3
  <2> QED
    BY <2>1, FoldAppends
<1> QED
  BY <1>2, <1>3, <1>5 DEF Keeping

LEMMA AmongNone ==
  ASSUME NEW S
  PROVE  Among(<<>>, S) = <<>>
<1> DEFINE s == <<>>
<1>1. s \in Seq(Row) /\ Len(s) = 0 /\ s = <<>>
  OBVIOUS
<1> HIDE DEF s
<1>2. PICK f : Among(s, S) = f[Len(s)] /\ Folds(f, Row, Seq(Row), <<>>, Keeping(S), s)
  BY <1>1, AmongFolds
<1> QED
  BY <1>1, <1>2 DEF Folds

LEMMA ReplayAppends ==
  ASSUME NEW s \in Seq(Row), NEW x \in Row
  PROVE  /\ Replay(s) \in Projection
         /\ Replay(Append(s, x)) = NextProjection(Replay(s), x)
<1>1. Append(s, x) \in Seq(Row) /\ Len(Append(s, x)) = Len(s) + 1
  OBVIOUS
<1>2. PICK f : Replay(s) = f[Len(s)] /\ Folds(f, Row, Projection, NoEvents, Projecting, s)
  BY ReplayFolds
<1>3. PICK g : /\ Replay(Append(s, x)) = g[Len(Append(s, x))]
               /\ Folds(g, Row, Projection, NoEvents, Projecting, Append(s, x))
  BY <1>1, ReplayFolds
<1>4. Projecting \in [Projection -> [Row -> Projection]] /\ NoEvents \in Projection
  BY ProjectionTyped DEF Projecting
<1>5. f[Len(s)] \in Projection /\ g[Len(Append(s, x))] = Projecting[f[Len(s)]][x]
  <2>1. Folds(f, Row, Projection, NoEvents, Projecting, s) /\ Folds(g, Row, Projection, NoEvents, Projecting, Append(s, x))
    BY <1>2, <1>3
  <2> QED
    BY <2>1, FoldAppends
<1> QED
  BY <1>2, <1>3, <1>5 DEF Projecting

LEMMA StatusAppends ==
  ASSUME NEW s \in Seq(Row), NEW x \in Row
  PROVE  /\ ProjectStatus(s) \in Status
         /\ ProjectStatus(Append(s, x)) = NextStatus(ProjectStatus(s), x.type)
<1>1. Append(s, x) \in Seq(Row) /\ Len(Append(s, x)) = Len(s) + 1
  OBVIOUS
<1>2. PICK f : ProjectStatus(s) = f[Len(s)] /\ Folds(f, Row, Status, "created", Marking, s)
  BY StatusFolds
<1>3. PICK g : /\ ProjectStatus(Append(s, x)) = g[Len(Append(s, x))]
               /\ Folds(g, Row, Status, "created", Marking, Append(s, x))
  BY <1>1, StatusFolds
<1>4. Marking \in [Status -> [Row -> Status]] /\ "created" \in Status
  BY StatusTyped DEF Marking, Status
<1>5. f[Len(s)] \in Status /\ g[Len(Append(s, x))] = Marking[f[Len(s)]][x]
  <2>1. Folds(f, Row, Status, "created", Marking, s) /\ Folds(g, Row, Status, "created", Marking, Append(s, x))
    BY <1>2, <1>3
  <2> QED
    BY <2>1, FoldAppends
<1> QED
  BY <1>2, <1>3, <1>5 DEF Marking

LEMMA ReplayNone == Replay(<<>>) = NoEvents /\ ProjectStatus(<<>>) = "created"
<1> DEFINE s == <<>>
<1>1. s \in Seq(Row) /\ Len(s) = 0 /\ s = <<>>
  OBVIOUS
<1> HIDE DEF s
<1>2. PICK f : Replay(s) = f[Len(s)] /\ Folds(f, Row, Projection, NoEvents, Projecting, s)
  BY <1>1, ReplayFolds
<1>3. PICK g : ProjectStatus(s) = g[Len(s)] /\ Folds(g, Row, Status, "created", Marking, s)
  BY <1>1, StatusFolds
<1>4. Replay(s) = NoEvents /\ ProjectStatus(s) = "created"
  BY <1>1, <1>2, <1>3 DEF Folds
<1> QED
  BY <1>1, <1>4

(* The rows that come after the first q, when these are the ones to keep.  *)
LEMMA AmongLast ==
  ASSUME NEW S, NEW s \in Seq(Row), NEW q \in 0..Len(s),
         \A i \in 1..Len(s) : s[i] \in S <=> i > q
  PROVE  Among(s, S) = SubSeq(s, q + 1, Len(s))
<1> DEFINE T == {m \in 0..Len(s) : Among(SubSeq(s, 1, m), S) = SubSeq(s, q + 1, m)}
<1>1. Len(s) \in Nat /\ \A i \in 1..Len(s) : s[i] \in Row
  OBVIOUS
<1>2. 0 \in T
  <2>1. SubSeq(s, 1, 0) = <<>> /\ SubSeq(s, q + 1, 0) = <<>> /\ 0 \in 0..Len(s)
    BY <1>1
  <2>2. Among(SubSeq(s, 1, 0), S) = SubSeq(s, q + 1, 0)
    BY <2>1, AmongNone
  <2> QED
    BY <2>1, <2>2
<1>3. ASSUME NEW m \in 0..Len(s), m \in T, m < Len(s)
      PROVE  m + 1 \in T
  <2>1. m + 1 \in 1..Len(s) /\ s[m + 1] \in Row /\ SubSeq(s, 1, m) \in Seq(Row)
    BY <1>1, <1>3
  <2>2. SubSeq(s, 1, m + 1) = Append(SubSeq(s, 1, m), s[m + 1])
    BY <1>1, <2>1
  <2>3. Among(SubSeq(s, 1, m), S) = SubSeq(s, q + 1, m)
    BY <1>3
  <2>4. Among(Append(SubSeq(s, 1, m), s[m + 1]), S)
          = IF s[m + 1] \in S THEN Append(SubSeq(s, q + 1, m), s[m + 1]) ELSE SubSeq(s, q + 1, m)
    BY <2>1, <2>3, AmongAppends
  <2>5. s[m + 1] \in S <=> m + 1 > q
    BY <2>1
  <2>6. CASE m + 1 > q
    <3>1. SubSeq(s, q + 1, m + 1) = Append(SubSeq(s, q + 1, m), s[m + 1])
      BY <1>1, <2>1, <2>6
    <3>2. Among(SubSeq(s, 1, m + 1), S) = SubSeq(s, q + 1, m + 1)
      BY <2>2, <2>4, <2>5, <2>6, <3>1
    <3> QED
      BY <1>1, <2>1, <3>2
  <2>7. CASE ~(m + 1 > q)
    <3>1. SubSeq(s, q + 1, m + 1) = <<>> /\ SubSeq(s, q + 1, m) = <<>>
      BY <1>1, <2>1, <2>7
    <3>2. Among(SubSeq(s, 1, m + 1), S) = SubSeq(s, q + 1, m + 1)
      BY <2>2, <2>4, <2>5, <2>7, <3>1
    <3> QED
      BY <1>1, <2>1, <3>2
  <2> QED
    BY <2>6, <2>7
<1>4. Len(s) \in T
  <2> HIDE DEF T
  <2>1. \A m \in 0..Len(s) : m \in T /\ m < Len(s) => m + 1 \in T
    BY <1>3
  <2>2. \A m \in 0..Len(s) : m \in T
    BY <1>1, <1>2, <2>1, InductionTo
  <2> QED
    BY <1>1, <2>2
<1>5. SubSeq(s, 1, Len(s)) = s
  BY <1>1
<1> QED
  BY <1>4, <1>5
-----------------------------------------------------------------------------
(* The rows of one run.                                                    *)

LEMMA ReplayTyped ==
  ASSUME NEW s \in Seq(Row)
  PROVE  Replay(s) \in Projection /\ ProjectStatus(s) \in Status
<1>1. PICK r \in Runs : TRUE
  BY RunsAssumption
<1>2. [id |-> 0, run |-> r, sequence |-> 0, type |-> <<"dispatch", "interrupted">>] \in Row
  BY <1>1, TypesAssumption DEF Row
<1> QED
  BY <1>2, ReplayAppends, StatusAppends

LEMMA RowsTyped ==
  ASSUME rows \in Seq(Row), NEW r
  PROVE  RowsOf(r) \in Seq(Row)
<1> DEFINE S == {row \in Row : row.run = r}
<1>1. PICK q \in Runs : TRUE
  BY RunsAssumption
<1>2. [id |-> 0, run |-> q, sequence |-> 0, type |-> <<"dispatch", "interrupted">>] \in Row
  BY <1>1, TypesAssumption DEF Row
<1>3. Among(rows, S) \in Seq(Row)
  <2> HIDE DEF S
  <2> QED
    BY <1>2, AmongAppends
<1> QED
  BY <1>3 DEF RowsOf

(* A new row is the last one of its run and leaves the other runs alone.   *)
LEMMA RowsGrow ==
  ASSUME rows \in Seq(Row), NEW row \in Row, rows' = Append(rows, row), NEW q
  PROVE  RowsOf(q)' = IF row.run = q THEN Append(RowsOf(q), row) ELSE RowsOf(q)
<1> DEFINE S == {x \in Row : x.run = q}
<1>1. row \in S <=> row.run = q
  OBVIOUS
<1>2. Among(rows', S) = IF row \in S THEN Append(Among(rows, S), row) ELSE Among(rows, S)
  <2> HIDE DEF S
  <2> QED
    BY AmongAppends
<1>3. RowsOf(q) = Among(rows, S) /\ RowsOf(q)' = Among(rows', S)
  BY DEF RowsOf
<1> QED
  BY <1>1, <1>2, <1>3

LEMMA RowsStay ==
  ASSUME rows' = rows, NEW q
  PROVE  RowsOf(q)' = RowsOf(q)
BY DEF RowsOf

(* The next row of a run.                                                  *)
LEMMA RowForTyped ==
  ASSUME rows \in Seq(Row), NEW r \in Runs, NEW t \in Types
  PROVE  /\ RowFor(r, t) \in Row /\ RowFor(r, t) # NoRow
         /\ RowFor(r, t).id = Len(rows) + 1 /\ RowFor(r, t).run = r
         /\ RowFor(r, t).sequence = Len(RowsOf(r)) + 1 /\ RowFor(r, t).type = t
<1>1. RowsOf(r) \in Seq(Row)
  BY RowsTyped
<1>2. Len(rows) + 1 \in Nat /\ Len(RowsOf(r)) + 1 \in Nat
  BY <1>1
<1>3. RowFor(r, t) \in Row
  BY <1>2 DEF RowFor, Row
<1> QED
  BY <1>3, NoneAssumption DEF RowFor

(* A new row, with the projection that Store.Append makes, keeps the       *)
(* events of every run sound.                                              *)
LEMMA LogGrows ==
  ASSUME rows \in Seq(Row), projections \in [Runs -> Projection],
         NEW r \in Runs, NEW t \in Types, NEW q \in Runs,
         r \in diskRuns, diskRuns' = diskRuns, rows' = Append(rows, RowFor(r, t)),
         projections' = [projections EXCEPT
           ![r] = [status |-> NextStatus(ProjectStatus(RowsOf(r)), t),
                   steps |-> @.steps + 1, last |-> RowFor(r, t).id]],
         LogSound(q)
  PROVE  LogSound(q)'
<1> DEFINE row == RowFor(r, t)
           log == RowsOf(q)
<1>1. /\ row \in Row /\ row.id = Len(rows) + 1 /\ row.run = r
      /\ row.sequence = Len(RowsOf(r)) + 1 /\ row.type = t
  BY RowForTyped
<1> HIDE DEF row
<1>2. log \in Seq(Row) /\ Len(log) \in Nat /\ Len(rows) \in Nat
  BY RowsTyped
<1>3. Len(rows') = Len(rows) + 1
  BY <1>1 DEF row
<1>4. CASE q # r
  <2>1. RowsOf(q)' = log
    BY <1>1, <1>4, RowsGrow DEF row
  <2>2. projections'[q] = projections[q]
    BY <1>4
  <2> HIDE DEF log
  <2>3. /\ Len(log) <= Len(rows')
        /\ \A i \in 1..Len(log) : log[i].run = q /\ log[i].sequence = i /\ log[i].id \in i..Len(rows')
    BY <1>2, <1>3 DEF LogSound, log
  <2>4. /\ \A i, j \in 1..Len(log) : i < j => log[i].id < log[j].id
        /\ q \notin diskRuns' => log = <<>>
        /\ projections[q] = Replay(log) /\ projections[q].status = ProjectStatus(log)
        /\ projections[q].steps = Len(log)
        /\ projections[q].last = IF log = <<>> THEN 0 ELSE log[Len(log)].id
    BY DEF LogSound, log
  <2> QED
    BY <2>1, <2>2, <2>3, <2>4 DEF LogSound
<1>5. CASE q = r
  <2> DEFINE new == Append(log, row)
             p == projections[q]
  <2>1. RowsOf(q)' = new
    BY <1>1, <1>5, RowsGrow DEF row
  <2>2. /\ p = Replay(log) /\ p.status = ProjectStatus(log) /\ p.steps = Len(log)
        /\ Len(log) <= Len(rows)
        /\ \A i \in 1..Len(log) : log[i].run = q /\ log[i].sequence = i /\ log[i].id \in i..Len(rows)
        /\ \A i, j \in 1..Len(log) : i < j => log[i].id < log[j].id
    BY DEF LogSound
  <2> HIDE DEF log
  <2>3. /\ Len(new) = Len(log) + 1 /\ new[Len(log) + 1] = row
        /\ \A i \in 1..Len(log) : new[i] = log[i]
    BY <1>1, <1>2
  <2>4. Replay(new) = NextProjection(Replay(log), row) /\ ProjectStatus(new) = NextStatus(ProjectStatus(log), t)
    BY <1>1, <1>2, ReplayAppends, StatusAppends
  <2>5. projections'[q] = [status |-> NextStatus(ProjectStatus(log), t),
                           steps |-> p.steps + 1, last |-> Len(rows) + 1]
    BY <1>1, <1>5 DEF row, log
  <2>6. projections'[q] = Replay(new)
    BY <1>1, <2>2, <2>4, <2>5 DEF NextProjection
  <2>7. /\ projections'[q].status = NextStatus(ProjectStatus(log), t)
        /\ projections'[q].steps = p.steps + 1 /\ projections'[q].last = Len(rows) + 1
    BY <2>5
  <2>8. new # <<>>
    <3> HIDE DEF new
    <3>1. Len(new) # 0
      BY <1>2, <2>3
    <3> QED
      BY <3>1
  <2> HIDE DEF new, p
  <2>9. \A i \in 1..Len(new) :
          new[i].run = q /\ new[i].sequence = i /\ new[i].id \in i..Len(rows')
    <3>1. ASSUME NEW i \in 1..Len(log)
          PROVE  new[i].run = q /\ new[i].sequence = i /\ new[i].id \in i..Len(rows')
      BY <1>2, <1>3, <2>2, <2>3
    <3>2. row.run = q /\ row.sequence = Len(log) + 1 /\ row.id \in (Len(log) + 1)..Len(rows')
      BY <1>1, <1>2, <1>3, <1>5, <2>2 DEF log
    <3>3. \A i \in 1..Len(new) : i \in 1..Len(log) \/ i = Len(log) + 1
      BY <1>2, <2>3
    <3> QED
      BY <2>3, <3>1, <3>2, <3>3
  <2>10. \A n \in 1..Len(new) : n \in 1..Len(log) \/ n = Len(log) + 1
    BY <1>2, <2>3
  <2>11. \A i, j \in 1..Len(new) : i < j => new[i].id < new[j].id
    <3> SUFFICES ASSUME NEW i \in 1..Len(new), NEW j \in 1..Len(new), i < j
                 PROVE  new[i].id < new[j].id
      OBVIOUS
    <3>1. i \in 1..Len(log) /\ new[i] = log[i] /\ log[i].id \in i..Len(rows)
      BY <1>2, <2>2, <2>3
    <3>2. j \in 1..Len(log) \/ j = Len(log) + 1
      BY <2>10
    <3>3. CASE j \in 1..Len(log)
      BY <2>2, <2>3, <3>1, <3>3
    <3>4. CASE j = Len(log) + 1
      BY <1>1, <1>2, <2>3, <3>1, <3>4
    <3> QED
      BY <3>2, <3>3, <3>4
  <2>12. Len(new) <= Len(rows')
    BY <1>2, <1>3, <2>2, <2>3
  <2>13. projections'[q].last = IF new = <<>> THEN 0 ELSE new[Len(new)].id
    BY <1>1, <2>3, <2>7, <2>8
  <2>14. projections'[q].steps = Len(new) /\ projections'[q].status = ProjectStatus(new)
    BY <2>2, <2>3, <2>4, <2>7 DEF p
  <2>15. q \in diskRuns'
    BY <1>5
  <2> QED
    BY <2>1, <2>6, <2>9, <2>11, <2>12, <2>13, <2>14, <2>15 DEF LogSound
<1> QED
  BY <1>4, <1>5

(* As long as no row is written, the table of runs may grow.               *)
LEMMA LogStays ==
  ASSUME NEW q \in Runs, rows' = rows, projections'[q] = projections[q],
         q \in diskRuns => q \in diskRuns', LogSound(q)
  PROVE  LogSound(q)'
<1>1. RowsOf(q)' = RowsOf(q)
  BY RowsStay
<1> QED
  BY <1>1 DEF LogSound

-----------------------------------------------------------------------------
(* The steps of the store.                                                 *)

(* The tables and the maps; what SQLite and Store.mu answer for.           *)
TablesInv == StoreTypeOK /\ DiskInv /\ MemoryInv /\ RecoveryInv

(* While no write is in progress the maps are the tables.                  *)
LEMMA MapsAreTables ==
  ASSUME TablesInv, server # "down", Free
  PROVE  diskRuns = runs /\ \A r \in Runs : events[r] = RowsOf(r)
BY DEF TablesInv, MemoryInv, WritesTo

LEMMA InitTables ==
  StoreInit => TablesInv
<1> SUFFICES ASSUME StoreInit
             PROVE  TablesInv
  OBVIOUS
<1> USE DEF StoreInit
<1>1. rows = <<>> /\ rows \in Seq(Row) /\ Len(rows) = 0
  OBVIOUS
<1>2. \A r \in Runs : RowsOf(r) = <<>>
  BY AmongNone DEF RowsOf
<1>3. Replay(<<>>) = NoEvents /\ ProjectStatus(<<>>) = "created" /\ NoEvents \in Projection
  BY ReplayNone, ProjectionTyped
<1>4. StoreTypeOK
  BY <1>3, BoundsAssumption DEF StoreTypeOK
<1>5. DiskInv
  <2> SUFFICES ASSUME NEW r \in Runs
               PROVE  LogSound(r)
    BY <1>1 DEF DiskInv
  <2>1. RowsOf(r) = <<>> /\ projections[r] = NoEvents
    BY <1>2, <1>3
  <2>2. NoEvents.status = "created" /\ NoEvents.steps = 0 /\ NoEvents.last = 0
    BY DEF NoEvents
  <2> QED
    BY <1>1, <1>3, <2>1, <2>2 DEF LogSound
<1>6. MemoryInv
  BY <1>2 DEF MemoryInv, WritesTo, Free
<1>7. RecoveryInv
  BY DEF RecoveryInv
<1> QED
  BY <1>4, <1>5, <1>6, <1>7 DEF TablesInv

LEMMA CreateRunTables ==
  ASSUME TablesInv, NEW r \in Runs, CreateRun(r)
  PROVE  TablesInv'
<1> USE DEF CreateRun, Handling
<1>1. diskRuns = runs /\ \A q \in Runs : events[q] = RowsOf(q)
  BY MapsAreTables
<1>2. \A q \in Runs : RowsOf(q)' = RowsOf(q)
  BY RowsStay
<1>3. RowsOf(r) = <<>>
  BY <1>1 DEF TablesInv, DiskInv, LogSound
<1>4. pending' \in PendingWrite /\ pending'.run = r /\ pending'.row = NoRow /\ ~Free'
  BY NoneAssumption DEF PendingWrite, Free
<1>5. Replay(<<>>) \in Projection
  <2>1. <<>> \in Seq(Row)
    OBVIOUS
  <2> QED
    BY <2>1, ReplayTyped
<1>6. projections'[r] = projections[r]
  BY <1>3 DEF TablesInv, DiskInv, LogSound, StoreTypeOK
<1>7. StoreTypeOK'
  BY <1>4, <1>5 DEF TablesInv, StoreTypeOK
<1>8. DiskInv'
  <2>1. \A q \in Runs : projections'[q] = projections[q]
    BY <1>6 DEF TablesInv, StoreTypeOK
  <2>2. ASSUME NEW q \in Runs
        PROVE  LogSound(q)'
    BY <2>1, LogStays DEF TablesInv, DiskInv
  <2> QED
    BY <2>2 DEF TablesInv, DiskInv
<1>9. MemoryInv'
  BY <1>1, <1>2, <1>4 DEF MemoryInv, WritesTo
<1>10. RecoveryInv'
  BY DEF RecoveryInv
<1> QED
  BY <1>7, <1>8, <1>9, <1>10 DEF TablesInv

(* One event is written, by a handler or by the recovery.                  *)
LEMMA CommitTables ==
  ASSUME TablesInv, Free, server # "down", NEW r \in runs, NEW t \in Types,
         Commit(RowFor(r, t)),
         server' = server, crashes' = crashes, recover' \subseteq recover, fatal' = fatal
  PROVE  /\ StoreTypeOK' /\ DiskInv' /\ MemoryInv'
         /\ projections'[r].status = NextStatus(ProjectStatus(RowsOf(r)), t)
         /\ \A q \in Runs \ {r} : projections'[q] = projections[q]
<1> DEFINE row == RowFor(r, t)
<1>1. /\ row \in Row /\ row # NoRow /\ row.id = Len(rows) + 1 /\ row.run = r
      /\ row.sequence = Len(RowsOf(r)) + 1 /\ row.type = t /\ r \in Runs
  BY RowForTyped DEF TablesInv, StoreTypeOK
<1> HIDE DEF row
<1>2. diskRuns = runs /\ \A q \in Runs : events[q] = RowsOf(q)
  BY MapsAreTables
<1>3. /\ rows' = Append(rows, row)
      /\ projections' = [projections EXCEPT
           ![r] = [status |-> NextStatus(ProjectStatus(RowsOf(r)), t),
                   steps |-> @.steps + 1, last |-> row.id]]
      /\ pending' = [run |-> r, row |-> row]
      /\ diskRuns' = diskRuns /\ runs' = runs /\ events' = events /\ open' = open
  BY <1>1, <1>2 DEF Commit, row
<1>4. \A q \in Runs : RowsOf(q)' = IF q = r THEN Append(RowsOf(q), row) ELSE RowsOf(q)
  BY <1>1, <1>3, RowsGrow DEF TablesInv, StoreTypeOK
<1>5. pending' \in PendingWrite /\ pending'.run = r /\ pending'.row = row /\ ~Free'
  BY <1>1, <1>3, NoneAssumption DEF PendingWrite, Free
<1>6. NextStatus(ProjectStatus(RowsOf(r)), t) \in Status
  BY RowsTyped, ReplayTyped, StatusTyped DEF TablesInv, StoreTypeOK
<1>7. StoreTypeOK'
  <2>1. rows' \in Seq(Row)
    BY <1>1, <1>3 DEF TablesInv, StoreTypeOK
  <2>2. projections[r].steps + 1 \in Nat /\ row.id \in Nat
    BY <1>1 DEF TablesInv, StoreTypeOK, Projection
  <2>3. [status |-> NextStatus(ProjectStatus(RowsOf(r)), t),
         steps |-> projections[r].steps + 1, last |-> row.id] \in Projection
    BY <1>6, <2>2 DEF Projection
  <2>4. projections' \in [Runs -> Projection]
    BY <1>3, <2>3 DEF TablesInv, StoreTypeOK
  <2> QED
    BY <1>3, <1>5, <2>1, <2>4 DEF TablesInv, StoreTypeOK
<1>8. DiskInv'
  <2>1. ASSUME NEW q \in Runs
        PROVE  LogSound(q)'
    BY <1>1, <1>2, <1>3, LogGrows DEF TablesInv, StoreTypeOK, DiskInv, row
  <2>2. \A i \in 1..Len(rows') : rows'[i].run \in diskRuns'
    <3>1. \A i \in 1..Len(rows) : rows[i].run \in diskRuns
      BY DEF TablesInv, DiskInv
    <3>2. Len(rows') = Len(rows) + 1 /\ rows'[Len(rows) + 1] = row /\ \A i \in 1..Len(rows) : rows'[i] = rows[i]
      BY <1>3 DEF TablesInv, StoreTypeOK
    <3>3. \A i \in 1..Len(rows') : i \in 1..Len(rows) \/ i = Len(rows) + 1
      BY <3>2 DEF TablesInv, StoreTypeOK
    <3> QED
      BY <1>1, <1>2, <1>3, <3>1, <3>2, <3>3
  <2> QED
    BY <2>1, <2>2 DEF DiskInv
<1>9. MemoryInv'
  <2>1. WritesTo(r)' /\ \A q \in Runs : WritesTo(q)' => q = r
    BY <1>1, <1>5 DEF WritesTo
  <2>2. diskRuns' = runs' \cup {pending'.run}
    BY <1>2, <1>3, <1>5
  <2>3. ASSUME NEW q \in Runs
        PROVE  RowsOf(q)' = IF WritesTo(q)' THEN Append(events'[q], pending'.row) ELSE events'[q]
    BY <1>2, <1>3, <1>4, <1>5, <2>1
  <2> QED
    BY <1>5, <2>2, <2>3 DEF MemoryInv
<1>10. /\ projections'[r].status = NextStatus(ProjectStatus(RowsOf(r)), t)
       /\ \A q \in Runs \ {r} : projections'[q] = projections[q]
  BY <1>1, <1>3 DEF TablesInv, StoreTypeOK
<1> QED
  BY <1>7, <1>8, <1>9, <1>10

LEMMA AppendTables ==
  ASSUME TablesInv, NEW r \in Runs, NEW t \in Appended, AppendEvent(r, t)
  PROVE  TablesInv'
<1>1. t \in Types
  BY TypesAssumption
<1>2. StoreTypeOK' /\ DiskInv' /\ MemoryInv'
  BY <1>1, CommitTables DEF AppendEvent, Handling, Write
<1>3. RecoveryInv'
  BY DEF AppendEvent, Handling, RecoveryInv
<1> QED
  BY <1>2, <1>3 DEF TablesInv

(* The mark of recoverInterrupted, or the error that it latches.           *)
LEMMA RecoverTables ==
  ASSUME TablesInv, NEW r \in Runs, RecoverInterrupted(r)
  PROVE  TablesInv'
<1> DEFINE mark == <<"dispatch", "interrupted">>
<1>0. server = "recovering" /\ server' = server /\ crashes' = crashes /\ recover' = recover \ {r}
  BY DEF RecoverInterrupted
<1>1. CASE Write(r, mark) /\ fatal' = fatal
  <2>1. mark \in Types
    BY TypesAssumption
  <2>2. /\ StoreTypeOK' /\ DiskInv' /\ MemoryInv'
        /\ projections'[r].status = NextStatus(ProjectStatus(RowsOf(r)), mark)
        /\ \A q \in Runs \ {r} : projections'[q] = projections[q]
        /\ diskRuns' = diskRuns
    BY <1>0, <1>1, <2>1, CommitTables DEF Write, Commit
  <2>3. NextStatus(ProjectStatus(RowsOf(r)), mark) = "interrupted"
    BY DEF NextStatus, StatusOf
  <2>4. diskRuns \subseteq Runs
    BY DEF TablesInv, StoreTypeOK
  <2>5. RecoveryInv'
    BY <1>0, <1>1, <2>2, <2>3, <2>4 DEF TablesInv, RecoveryInv
  <2> QED
    BY <2>2, <2>5 DEF TablesInv
<1>2. CASE Free /\ fatal' = "recovery" /\ UNCHANGED <<diskVars, memoryVars>>
  <2>1. /\ diskRuns' = diskRuns /\ rows' = rows /\ projections' = projections
        /\ runs' = runs /\ events' = events /\ pending' = pending /\ open' = open
    BY <1>2 DEF diskVars, memoryVars
  <2>2. StoreTypeOK'
    BY <1>0, <1>2, <2>1 DEF TablesInv, StoreTypeOK
  <2>3. \A q \in Runs : RowsOf(q)' = RowsOf(q) /\ WritesTo(q)' = WritesTo(q)
    BY <2>1, RowsStay DEF WritesTo, Free
  <2>4. DiskInv'
    BY <2>1, LogStays DEF TablesInv, DiskInv
  <2>5. MemoryInv'
    BY <1>0, <2>1, <2>3 DEF TablesInv, MemoryInv, Free
  <2> QED
    BY <1>2, <2>2, <2>4, <2>5 DEF TablesInv, RecoveryInv
<1> QED
  BY <1>1, <1>2 DEF RecoverInterrupted

(* Nothing that the tables and the maps depend on changes.                 *)
LEMMA TablesStay ==
  ASSUME TablesInv, open' \subseteq Streams,
         diskRuns' = diskRuns, rows' = rows, projections' = projections,
         runs' = runs, events' = events, pending' = pending,
         server' = server \/ (server # "down" /\ server' = "serving"),
         recover' = recover, crashes' = crashes,
         fatal' = fatal \/ (server = "serving" /\ fatal' = "handler")
  PROVE  TablesInv'
<1>1. StoreTypeOK'
  BY DEF TablesInv, StoreTypeOK
<1>2. \A q \in Runs : RowsOf(q)' = RowsOf(q) /\ WritesTo(q)' = WritesTo(q)
  BY RowsStay DEF WritesTo, Free
<1>3. DiskInv'
  BY LogStays DEF TablesInv, DiskInv
<1>4. MemoryInv'
  BY <1>2 DEF TablesInv, MemoryInv, Free
<1>5. RecoveryInv'
  BY DEF TablesInv, RecoveryInv
<1> QED
  BY <1>1, <1>3, <1>4, <1>5 DEF TablesInv

LEMMA PublishTables ==
  ASSUME TablesInv, Publish
  PROVE  TablesInv'
<1> USE DEF Publish
<1>1. pending \in PendingWrite /\ pending.run \in Runs /\ pending.row \in Row \cup {NoRow}
  BY DEF TablesInv, StoreTypeOK, Free, PendingWrite
<1>2. \A q \in Runs : RowsOf(q)' = RowsOf(q) /\ ~WritesTo(q)'
  BY RowsStay DEF WritesTo, Free
<1>3. server # "down"
  BY DEF TablesInv, MemoryInv
<1>4. StoreTypeOK'
  BY <1>1 DEF TablesInv, StoreTypeOK
<1>5. DiskInv'
  BY LogStays DEF TablesInv, DiskInv
<1>6. MemoryInv'
  <2>1. diskRuns' = runs'
    BY <1>3 DEF TablesInv, MemoryInv
  <2>2. ASSUME NEW q \in Runs
        PROVE  RowsOf(q) = events'[q]
    BY <1>1, <1>3 DEF TablesInv, StoreTypeOK, MemoryInv, WritesTo
  <2> QED
    BY <1>2, <2>1, <2>2 DEF MemoryInv, Free
<1>7. RecoveryInv'
  BY DEF TablesInv, RecoveryInv
<1> QED
  BY <1>4, <1>5, <1>6, <1>7 DEF TablesInv

LEMMA CrashTables ==
  ASSUME TablesInv, Crash
  PROVE  TablesInv'
<1> USE DEF Crash, diskVars
<1>1. <<>> \in Seq(Row)
  OBVIOUS
<1>2. StoreTypeOK'
  BY <1>1, BoundsAssumption DEF TablesInv, StoreTypeOK
<1>3. DiskInv'
  BY LogStays DEF TablesInv, DiskInv
<1>4. MemoryInv' /\ RecoveryInv'
  BY DEF MemoryInv, RecoveryInv, Free
<1> QED
  BY <1>2, <1>3, <1>4 DEF TablesInv

LEMMA OpenTables ==
  ASSUME TablesInv, OpenStore
  PROVE  TablesInv'
<1> USE DEF OpenStore
<1>1. Free /\ Free' /\ \A q \in Runs : ~WritesTo(q)'
  BY DEF TablesInv, MemoryInv, Free, WritesTo
<1>2. \A q \in Runs : RowsOf(q)' = RowsOf(q) /\ RowsOf(q) \in Seq(Row)
  BY RowsStay, RowsTyped DEF TablesInv, StoreTypeOK
<1>3. StoreTypeOK'
  BY <1>2 DEF TablesInv, StoreTypeOK
<1>4. DiskInv'
  BY LogStays DEF TablesInv, DiskInv
<1>5. MemoryInv'
  BY <1>1, <1>2 DEF MemoryInv
<1>6. RecoveryInv'
  <2>1. \A q \in Runs : projections[q] = Replay(RowsOf(q))
    BY DEF TablesInv, DiskInv, LogSound
  <2>2. diskRuns \subseteq Runs
    BY DEF TablesInv, StoreTypeOK
  <2> QED
    BY <2>1, <2>2 DEF RecoveryInv
<1> QED
  BY <1>3, <1>4, <1>5, <1>6 DEF TablesInv

(* Every step.                                                             *)
LEMMA StepTables ==
  ASSUME TablesInv, [Next]_vars
  PROVE  TablesInv'
<1>1. ASSUME UNCHANGED storeVars
      PROVE  TablesInv'
  BY <1>1, TablesStay DEF storeVars, TablesInv, StoreTypeOK
<1>2. ASSUME StoreStep
      PROVE  TablesInv'
  <2>1. ASSUME NEW r \in Runs, CreateRun(r)
        PROVE  TablesInv'
    BY <2>1, CreateRunTables
  <2>2. ASSUME NEW r \in Runs, NEW t \in Appended, AppendEvent(r, t)
        PROVE  TablesInv'
    BY <2>2, AppendTables
  <2>3. ASSUME AppendRefused
        PROVE  TablesInv'
    BY <2>3, TablesStay DEF AppendRefused, Handling, TablesInv, StoreTypeOK
  <2>4. ASSUME NEW r \in Runs, RecoverInterrupted(r)
        PROVE  TablesInv'
    BY <2>4, RecoverTables
  <2>5. ASSUME Serve
        PROVE  TablesInv'
    BY <2>5, TablesStay DEF Serve, TablesInv, StoreTypeOK
  <2> QED
    BY <1>2, <2>1, <2>2, <2>3, <2>4, <2>5, PublishTables, OpenTables DEF StoreStep
<1>3. ASSUME CrashAll
      PROVE  TablesInv'
  BY <1>3, CrashTables DEF CrashAll
<1>4. ASSUME NEW c \in Streams, Subscribe(c) \/ Leave(c)
      PROVE  TablesInv'
  BY <1>4, TablesStay DEF Subscribe, Leave, diskVars, serverVars, TablesInv, StoreTypeOK
<1>5. ASSUME NEW c \in Streams,
             \/ Connect(c) \/ Send(c) \/ Wake(c) \/ Keepalive(c) \/ Resync(c)
             \/ \E r \in Runs : Select(c, r) \/ ExportEvents(c, r)
      PROVE  UNCHANGED storeVars
  BY <1>5 DEF Connect, Send, Wake, Keepalive, Resync, Select, ExportEvents
<1>6. ASSUME ExportProjection
      PROVE  UNCHANGED storeVars
  BY <1>6 DEF ExportProjection
<1>7. ASSUME UNCHANGED vars
      PROVE  UNCHANGED storeVars
  BY <1>7 DEF vars, storeVars
<1>8. ASSUME Next
      PROVE  TablesInv'
  BY <1>1, <1>2, <1>3, <1>4, <1>5, <1>6, <1>8 DEF Next, StreamStep
<1> QED
  BY <1>1, <1>7, <1>8

-----------------------------------------------------------------------------
(* How the log of a run can change: at most one row is written in a step,  *)
(* and its id is above all others.                                         *)
LEMMA StepRows ==
  ASSUME TablesInv, [Next]_vars
  PROVE  \/ rows' = rows
         \/ \E r \in runs, t \in Types : Free /\ server # "down" /\ Commit(RowFor(r, t))
<1>1. ASSUME NEW r \in Runs, NEW t \in Appended, AppendEvent(r, t)
      PROVE  r \in runs /\ t \in Types /\ Free /\ server # "down" /\ Commit(RowFor(r, t))
  BY <1>1, TypesAssumption DEF AppendEvent, Write, Handling
<1>2. ASSUME NEW r \in Runs, RecoverInterrupted(r)
      PROVE  \/ rows' = rows
             \/ \E t \in Types : r \in runs /\ Free /\ server # "down" /\ Commit(RowFor(r, t))
  <2>1. <<"dispatch", "interrupted">> \in Types
    BY TypesAssumption
  <2> QED
    BY <1>2, <2>1 DEF RecoverInterrupted, Write, diskVars
<1>3. ASSUME StoreStep
      PROVE  \/ rows' = rows
             \/ \E r \in runs, t \in Types : Free /\ server # "down" /\ Commit(RowFor(r, t))
  <2>1. ASSUME NEW r \in Runs, CreateRun(r)
        PROVE  rows' = rows
    BY <2>1 DEF CreateRun
  <2>2. ASSUME AppendRefused \/ Publish \/ OpenStore \/ Serve
        PROVE  rows' = rows
    BY <2>2 DEF AppendRefused, Publish, OpenStore, Serve
  <2> QED
    BY <1>1, <1>2, <1>3, <2>1, <2>2 DEF StoreStep
<1>4. ASSUME CrashAll \/ ExportProjection \/ UNCHANGED vars
      PROVE  rows' = rows
  BY <1>4 DEF CrashAll, Crash, diskVars, ExportProjection, storeVars, vars
<1>5. ASSUME NEW c \in Streams,
             \/ StreamStep(c) \/ Keepalive(c) \/ Leave(c) \/ Resync(c)
             \/ \E r \in Runs : Select(c, r) \/ ExportEvents(c, r)
      PROVE  rows' = rows
  BY <1>5 DEF StreamStep, Connect, Subscribe, Send, Wake, Keepalive, Leave, Resync, Select, ExportEvents,
              storeVars, diskVars
<1> QED
  BY <1>3, <1>4, <1>5 DEF Next

(* s is the beginning of t.                                                *)
Extends(t, s) == Len(s) <= Len(t) /\ \A i \in 1..Len(s) : t[i] = s[i]

LEMMA LogExtends ==
  ASSUME TablesInv, [Next]_vars, NEW q \in Runs
  PROVE  /\ rows \in Seq(Row) /\ rows' \in Seq(Row) /\ Len(rows) <= Len(rows')
         /\ RowsOf(q) \in Seq(Row) /\ RowsOf(q)' \in Seq(Row)
         /\ Extends(RowsOf(q)', RowsOf(q))
         /\ \A i \in 1..Len(RowsOf(q)') :
              i > Len(RowsOf(q)) => RowsOf(q)'[i].id > Len(rows) /\ RowsOf(q)'[i].id >= i
<1> DEFINE log == RowsOf(q)
<1>0. /\ rows \in Seq(Row) /\ log \in Seq(Row) /\ Len(log) \in Nat /\ Len(rows) \in Nat
      /\ Len(log) <= Len(rows)
  <2>1. rows \in Seq(Row) /\ log \in Seq(Row) /\ Len(log) \in Nat /\ Len(rows) \in Nat
    BY RowsTyped DEF TablesInv, StoreTypeOK
  <2>2. LogSound(q)
    BY DEF TablesInv, DiskInv
  <2> QED
    BY <2>1, <2>2 DEF LogSound
<1>1. CASE rows' = rows
  <2>1. RowsOf(q)' = log
    BY <1>1, RowsStay
  <2> HIDE DEF log
  <2>2. \A i \in 1..Len(log) : ~(i > Len(log))
    BY <1>0
  <2>3. /\ log \in Seq(Row) /\ Extends(log, log) /\ Len(rows) <= Len(rows')
        /\ \A i \in 1..Len(log) : i > Len(log) => log[i].id > Len(rows) /\ log[i].id >= i
    BY <1>0, <1>1, <2>2 DEF Extends
  <2> QED
    BY <1>0, <1>1, <2>1, <2>3 DEF log
<1>2. ASSUME NEW r \in runs, NEW t \in Types, Commit(RowFor(r, t)), NEW row, row = RowFor(r, t)
      PROVE  /\ rows' \in Seq(Row) /\ Len(rows) <= Len(rows')
             /\ RowsOf(q)' \in Seq(Row) /\ Extends(RowsOf(q)', log)
             /\ \A i \in 1..Len(RowsOf(q)') :
                  i > Len(log) => RowsOf(q)'[i].id > Len(rows) /\ RowsOf(q)'[i].id >= i
  <2>1. row \in Row /\ row.id = Len(rows) + 1
    BY <1>0, <1>2, RowForTyped DEF TablesInv, StoreTypeOK
  <2>2. rows' = Append(rows, row)
    BY <1>2 DEF Commit
  <2>3. RowsOf(q)' = IF row.run = q THEN Append(log, row) ELSE log
    BY <1>0, <2>1, <2>2, RowsGrow
  <2>4. rows' \in Seq(Row) /\ Len(rows') = Len(rows) + 1
    BY <1>0, <2>1, <2>2
  <2> HIDE DEF log
  <2>5. ASSUME RowsOf(q)' = log
        PROVE  /\ RowsOf(q)' \in Seq(Row) /\ Extends(RowsOf(q)', log)
               /\ \A i \in 1..Len(RowsOf(q)') :
                    i > Len(log) => RowsOf(q)'[i].id > Len(rows) /\ RowsOf(q)'[i].id >= i
    <3>1. \A i \in 1..Len(log) : ~(i > Len(log))
      BY <1>0
    <3> QED
      BY <1>0, <2>5, <3>1 DEF Extends
  <2>6. ASSUME RowsOf(q)' = Append(log, row)
        PROVE  /\ RowsOf(q)' \in Seq(Row) /\ Extends(RowsOf(q)', log)
               /\ \A i \in 1..Len(RowsOf(q)') :
                    i > Len(log) => RowsOf(q)'[i].id > Len(rows) /\ RowsOf(q)'[i].id >= i
    <3> DEFINE new == Append(log, row)
    <3>1. /\ new \in Seq(Row) /\ Len(new) = Len(log) + 1 /\ new[Len(log) + 1] = row
          /\ \A i \in 1..Len(log) : new[i] = log[i]
      BY <1>0, <2>1
    <3> HIDE DEF new
    <3>2. Extends(new, log)
      BY <1>0, <3>1 DEF Extends
    <3>3. \A i \in 1..Len(new) : i > Len(log) => i = Len(log) + 1
      BY <1>0, <3>1
    <3>4. \A i \in 1..Len(new) : i > Len(log) => new[i].id > Len(rows) /\ new[i].id >= i
      BY <1>0, <2>1, <3>1, <3>3
    <3> QED
      BY <2>6, <3>1, <3>2, <3>4 DEF new
  <2>7. Len(rows) <= Len(rows')
    BY <1>0, <2>4
  <2> QED
    BY <2>3, <2>4, <2>5, <2>6, <2>7
<1>3. rows' = rows \/ \E r \in runs, t \in Types : Commit(RowFor(r, t))
  BY StepRows
<1>4. CASE \E r \in runs, t \in Types : Commit(RowFor(r, t))
  <2>1. PICK r \in runs, t \in Types : Commit(RowFor(r, t))
    BY <1>4
  <2> QED
    BY <1>0, <1>2, <2>1
<1> QED
  BY <1>1, <1>3, <1>4

LEMMA SameStretch ==
  ASSUME NEW s \in Seq(Row), NEW t \in Seq(Row), Extends(t, s), NEW a \in Nat, NEW b \in 0..Len(s)
  PROVE  SubSeq(t, a + 1, b) = SubSeq(s, a + 1, b)
<1>1. \A i \in (a + 1)..b : t[i] = s[i]
  BY DEF Extends
<1> QED
  BY <1>1 DEF Extends

-----------------------------------------------------------------------------
(* The clients.                                                            *)

StreamInv == client \in [Streams -> Client] /\ \A c \in Streams : ClientSound(c)

(* A client that holds what it held stays sound while the log grows.       *)
LEMMA SoundStays ==
  ASSUME TablesInv, [Next]_vars, NEW c \in Streams, client[c] \in Client, ClientSound(c),
         client'[c] \in Client,
         client'[c].kind = client[c].kind, client'[c].run = client[c].run,
         client'[c].base = client[c].base, client'[c].got = client[c].got,
         client'[c].cursor = client[c].cursor,
         client'[c].kind = "web" =>
           client'[c].pc # "behind" /\ (client'[c].pc = "selected" => client'[c].got = <<>>),
         client'[c].kind = "exporter" => client'[c].pc = "idle"
  PROVE  ClientSound(c)'
<1> DEFINE a == client[c]
           log == RowsOf(a.run)
           p == a.base + Len(a.got)
<1>1. a.run \in Runs /\ a.base \in Nat /\ a.got \in Seq(Row) /\ a.cursor \in Nat /\ p \in Nat
  BY DEF Client
<1>2. /\ a.got = SubSeq(log, a.base + 1, p)
      /\ (a.kind # "web" \/ a.got # <<>>) => p <= Len(log)
      /\ a.cursor <= Len(rows) \/ a.cursor <= p
      /\ \A i \in 1..Len(log) : i > p => log[i].id > a.cursor
      /\ a.kind # "web" => \A i \in 1..p : log[i].id <= a.cursor
  BY DEF ClientSound
<1>3. PICK r \in Runs : r = a.run
  BY <1>1
<1>4. /\ rows \in Seq(Row) /\ rows' \in Seq(Row) /\ Len(rows) <= Len(rows')
      /\ log \in Seq(Row) /\ RowsOf(r)' \in Seq(Row) /\ Extends(RowsOf(r)', log)
      /\ \A i \in 1..Len(RowsOf(r)') :
           i > Len(log) => RowsOf(r)'[i].id > Len(rows) /\ RowsOf(r)'[i].id >= i
  BY <1>3, LogExtends
<1>5. RowsOf(client[c].run)' = RowsOf(r)' /\ client'[c].run = r
  BY <1>3 DEF RowsOf
<1> DEFINE later == RowsOf(r)'
<1>6. a.got = SubSeq(later, a.base + 1, p)
  <2>1. CASE p <= Len(log)
    <3>1. p \in 0..Len(log)
      BY <1>1, <1>4, <2>1
    <3> HIDE DEF later, p, log
    <3> QED
      BY <1>1, <1>2, <1>4, <3>1, SameStretch DEF later
  <2>2. CASE ~(p <= Len(log))
    <3>1. a.got = <<>> /\ p = a.base
      BY <1>1, <1>2, <2>2
    <3> HIDE DEF log, p, a
    <3>2. SubSeq(later, a.base + 1, p) = <<>>
      BY <1>1, <1>4, <3>1
    <3> QED
      BY <3>1, <3>2
  <2> QED
    BY <2>1, <2>2
<1> HIDE DEF a, log, p, later
<1>7. /\ (a.kind # "web" \/ a.got # <<>>) => p <= Len(later)
      /\ a.cursor <= Len(rows') \/ a.cursor <= p
      /\ \A i \in 1..Len(log) : later[i] = log[i]
      /\ Len(log) \in Nat /\ Len(later) \in Nat /\ Len(log) <= Len(later)
  BY <1>1, <1>2, <1>4 DEF Extends, later
<1>8. ASSUME NEW i \in 1..Len(later), i > p
      PROVE  later[i].id > a.cursor
  <2>1. CASE i <= Len(log)
    BY <1>2, <1>7, <1>8, <2>1
  <2>2. CASE ~(i <= Len(log))
    <3>1. later[i].id > Len(rows) /\ later[i].id >= i
      BY <1>4, <1>7, <2>2 DEF later
    <3>2. later[i].id \in Nat /\ Len(rows) \in Nat
      <4>1. later[i] \in Row
        BY <1>4 DEF later
      <4> QED
        BY <1>4, <4>1 DEF Row
    <3> QED
      BY <1>1, <1>2, <1>8, <3>1, <3>2
  <2> QED
    BY <2>1, <2>2
<1>9. a.kind # "web" => \A i \in 1..p : later[i].id <= a.cursor
  <2> SUFFICES ASSUME a.kind # "web", NEW i \in 1..p
               PROVE  later[i].id <= a.cursor
    OBVIOUS
  <2>1. i \in 1..Len(log)
    BY <1>1, <1>2, <1>7
  <2>2. later[i] = log[i]
    BY <1>7, <2>1
  <2> QED
    BY <1>2, <2>2
<1>10. /\ client'[c].kind = a.kind /\ client'[c].base = a.base /\ client'[c].got = a.got
       /\ client'[c].cursor = a.cursor /\ RowsOf(client[c].run)' = later
       /\ client'[c].base + Len(client'[c].got) = p
  BY <1>5 DEF a, p, later
<1> QED
  BY <1>2, <1>6, <1>7, <1>8, <1>9, <1>10 DEF ClientSound

(* A client that takes a new position p in an unchanged log.               *)
LEMMA SoundAt ==
  ASSUME NEW c \in Streams, rows' = rows, NEW r, NEW log, log = RowsOf(r), NEW p,
         client'[c].run = r, p = client'[c].base + Len(client'[c].got),
         client'[c].got = SubSeq(log, client'[c].base + 1, p),
         (client'[c].kind # "web" \/ client'[c].got # <<>>) => p <= Len(log),
         client'[c].cursor <= Len(rows) \/ client'[c].cursor <= p,
         \A i \in 1..Len(log) : i > p => log[i].id > client'[c].cursor,
         client'[c].kind # "web" => \A i \in 1..p : log[i].id <= client'[c].cursor,
         client'[c].kind = "web" =>
           client'[c].pc # "behind" /\ (client'[c].pc = "selected" => client'[c].got = <<>>),
         client'[c].kind = "exporter" => client'[c].pc = "idle"
  PROVE  ClientSound(c)'
<1>1. RowsOf(client[c].run)' = log
  BY DEF RowsOf
<1> QED
  BY <1>1 DEF ClientSound

(* The log of a run while no write is in progress.                         *)
LEMMA LogFacts ==
  ASSUME TablesInv, NEW r \in Runs
  PROVE  /\ rows \in Seq(Row) /\ Len(rows) \in Nat
         /\ RowsOf(r) \in Seq(Row) /\ Len(RowsOf(r)) \in Nat /\ Len(RowsOf(r)) <= Len(rows)
         /\ \A i \in 1..Len(RowsOf(r)) :
              RowsOf(r)[i].run = r /\ RowsOf(r)[i].sequence = i /\ RowsOf(r)[i].id \in i..Len(rows)
         /\ \A i, j \in 1..Len(RowsOf(r)) : i < j => RowsOf(r)[i].id < RowsOf(r)[j].id
         /\ Readable => events[r] = RowsOf(r)
<1>1. rows \in Seq(Row) /\ RowsOf(r) \in Seq(Row)
  BY RowsTyped DEF TablesInv, StoreTypeOK
<1>2. Readable => events[r] = RowsOf(r)
  BY MapsAreTables DEF Readable
<1>3. LogSound(r)
  BY DEF TablesInv, DiskInv
<1>4. /\ Len(RowsOf(r)) <= Len(rows)
      /\ \A i \in 1..Len(RowsOf(r)) :
           RowsOf(r)[i].run = r /\ RowsOf(r)[i].sequence = i /\ RowsOf(r)[i].id \in i..Len(rows)
      /\ \A i, j \in 1..Len(RowsOf(r)) : i < j => RowsOf(r)[i].id < RowsOf(r)[j].id
  BY <1>3 DEF LogSound
<1> QED
  BY <1>1, <1>2, <1>4

LEMMA SelectSound ==
  ASSUME TablesInv, StreamInv, NEW c \in Streams, NEW r \in Runs, Select(c, r)
  PROVE  client'[c] \in Client /\ ClientSound(c)'
<1> DEFINE log == RowsOf(r)
<1>1. /\ log \in Seq(Row) /\ Len(log) \in Nat /\ Len(rows) \in Nat /\ events[r] = log
      /\ \A i \in 1..Len(log) : log[i].id \in i..Len(rows)
  BY LogFacts DEF Select
<1> HIDE DEF log
<1>2. PICK held \in Held(c) :
        client' = [client EXCEPT ![c] = [kind |-> @.kind, pc |-> "selected", run |-> r,
                                         base |-> held, cursor |-> 0, got |-> <<>>]]
  BY DEF Select
<1>3. /\ client'[c] = [kind |-> client[c].kind, pc |-> "selected", run |-> r, base |-> held,
                       cursor |-> 0, got |-> <<>>]
      /\ rows' = rows /\ client[c] \in Client /\ client[c].kind # "exporter"
  BY <1>2 DEF Select, StreamInv, storeVars
<1>4. held \in Nat /\ (client[c].kind # "web" => held = 0)
  <2>1. \A q \in runs : Len(events[q]) \in Nat
    BY DEF TablesInv, StoreTypeOK
  <2>2. CASE client[c].kind = "web"
    <3>1. PICK q \in runs : held \in 0..Len(events[q])
      BY <1>2, <2>2 DEF Held
    <3> QED
      BY <2>1, <2>2, <3>1
  <2>3. CASE client[c].kind # "web"
    BY <1>2, <2>3 DEF Held
  <2> QED
    BY <2>2, <2>3
<1>5. /\ client'[c].kind = client[c].kind /\ client'[c].pc = "selected" /\ client'[c].run = r
      /\ client'[c].base = held /\ client'[c].cursor = 0 /\ client'[c].got = <<>>
  BY <1>3
<1>6. client'[c] \in Client
  <2>1. <<>> \in Seq(Row)
    OBVIOUS
  <2> QED
    BY <1>3, <1>4, <2>1 DEF Client
<1>7. held = client'[c].base + Len(client'[c].got)
  BY <1>4, <1>5
<1>8. client'[c].got = SubSeq(log, client'[c].base + 1, held)
  BY <1>1, <1>4, <1>5
<1>9. /\ (client'[c].kind # "web" \/ client'[c].got # <<>>) => held <= Len(log)
      /\ client'[c].cursor <= Len(rows) \/ client'[c].cursor <= held
      /\ \A i \in 1..Len(log) : i > held => log[i].id > client'[c].cursor
      /\ client'[c].kind # "web" => \A i \in 1..held : log[i].id <= client'[c].cursor
  BY <1>1, <1>4, <1>5
<1>10. log = RowsOf(r) /\ client'[c].kind # "exporter"
  BY <1>3, <1>5 DEF log
<1> QED
  BY <1>3, <1>5, <1>6, <1>7, <1>8, <1>9, <1>10, SoundAt

(* What a sound client holds, in the terms of its log.                     *)
At(a, r, log, p) ==
  /\ r \in Runs /\ a \in Client /\ p \in Nat
  /\ a.base \in 0..p /\ a.got \in Seq(Row) /\ a.cursor \in Nat
  /\ a.got = SubSeq(log, a.base + 1, p)
  /\ (a.kind # "web" \/ a.got # <<>>) => p <= Len(log)
  /\ a.got = <<>> => p = a.base
  /\ a.cursor <= Len(rows) \/ a.cursor <= p
  /\ \A i \in 1..Len(log) : i > p => log[i].id > a.cursor
  /\ a.kind # "web" => \A i \in 1..p : log[i].id <= a.cursor
  /\ a.kind = "web" => a.pc # "behind" /\ (a.pc = "selected" => a.got = <<>>)
  /\ a.kind = "exporter" => a.pc = "idle"

LEMMA SoundFacts ==
  ASSUME TablesInv, StreamInv, NEW c \in Streams, NEW a, a = client[c], NEW r, r = a.run,
         NEW log, log = RowsOf(r), NEW p, p = a.base + Len(a.got)
  PROVE  At(a, r, log, p)
<1>1. /\ a \in Client /\ r \in Runs /\ a.base \in Nat /\ a.got \in Seq(Row)
      /\ a.cursor \in Nat /\ Len(a.got) \in Nat
  BY DEF StreamInv, Client
<1>2. ClientSound(c)
  BY DEF StreamInv
<1>3. /\ a.got = SubSeq(log, a.base + 1, p)
      /\ (a.kind # "web" \/ a.got # <<>>) => p <= Len(log)
      /\ a.cursor <= Len(rows) \/ a.cursor <= p
      /\ \A i \in 1..Len(log) : i > p => log[i].id > a.cursor
      /\ a.kind # "web" => \A i \in 1..p : log[i].id <= a.cursor
      /\ a.kind = "web" =>
           a.pc # "behind" /\ (a.pc = "selected" => a.got = <<>>)
      /\ a.kind = "exporter" => a.pc = "idle"
  BY <1>2 DEF ClientSound
<1>4. p \in Nat /\ a.base \in 0..p /\ (a.got = <<>> => p = a.base)
  <2>1. PICK base \in Nat, n \in Nat : base = a.base /\ n = Len(a.got)
    BY <1>1
  <2>2. p = base + n /\ (a.got = <<>> => n = 0)
    BY <2>1
  <2> QED
    BY <2>1, <2>2
<1> QED
  BY <1>1, <1>3, <1>4 DEF At

LEMMA ConnectSound ==
  ASSUME TablesInv, StreamInv, NEW c \in Streams, Connect(c)
  PROVE  client'[c] \in Client /\ ClientSound(c)'
<1>1. PICK a : a = client[c]
  OBVIOUS
<1>2. PICK r : r = a.run
  OBVIOUS
<1>3. PICK log : log = RowsOf(r)
  OBVIOUS
<1>4. PICK p : p = a.base + Len(a.got)
  OBVIOUS
<1>5. /\ r \in Runs /\ a \in Client /\ p \in Nat
      /\ a.base \in 0..p /\ a.got \in Seq(Row) /\ a.cursor \in Nat
      /\ a.got = SubSeq(log, a.base + 1, p)
      /\ (a.kind # "web" \/ a.got # <<>>) => p <= Len(log)
      /\ a.got = <<>> => p = a.base
      /\ a.cursor <= Len(rows) \/ a.cursor <= p
      /\ \A i \in 1..Len(log) : i > p => log[i].id > a.cursor
      /\ a.kind # "web" => \A i \in 1..p : log[i].id <= a.cursor
      /\ a.kind = "web" => a.pc # "behind" /\ (a.pc = "selected" => a.got = <<>>)
      /\ a.kind = "exporter" => a.pc = "idle"
  <2>1. At(a, r, log, p)
    BY <1>1, <1>2, <1>3, <1>4, SoundFacts
  <2> QED
    BY <2>1 DEF At
<1>6. /\ Len(rows) \in Nat /\ log \in Seq(Row) /\ Len(log) \in Nat /\ Len(log) <= Len(rows)
      /\ \A i \in 1..Len(log) : log[i].sequence = i /\ log[i].id \in i..Len(rows)
  BY <1>3, <1>5, LogFacts
<1>7. PICK new : new = client'[c]
  OBVIOUS
<1>8. /\ new.kind = a.kind /\ new.run = r /\ new.base = a.base /\ new.got = a.got
      /\ new.cursor = ResumeAt(c) /\ new.pc \in {"subscribe", "idle", "behind"}
      /\ a.kind = "web" => new.pc # "behind"
      /\ a.kind # "exporter" /\ rows' = rows
      /\ ResumeAt(c) \in Nat => new \in Client
  BY <1>1, <1>2, <1>5, <1>7 DEF Connect, Loop, StreamInv, Client, storeVars
<1>9. CASE a.kind = "api"
  <2>1. new.cursor = a.cursor
    BY <1>1, <1>8, <1>9 DEF ResumeAt
  <2>2. new \in Client
    BY <1>5, <1>6, <1>8, <2>1 DEF Client
  <2>3. p = new.base + Len(new.got) /\ p <= Len(log)
        /\ (new.cursor <= Len(rows) \/ new.cursor <= p)
    BY <1>4, <1>5, <1>8, <1>9, <2>1
  <2> QED
    BY <1>3, <1>5, <1>7, <1>8, <1>9, <2>1, <2>2, <2>3, SoundAt
<1>10. CASE a.kind = "web"
  <2>1. a.got = <<>> /\ p = a.base
    BY <1>1, <1>5, <1>10 DEF Connect
  <2>2. ResumeAt(c) = p
    BY <1>1, <1>10, <2>1 DEF ResumeAt
  <2>3. new \in Client /\ new.cursor = p
    BY <1>5, <1>8, <2>2
  <2>4. /\ new.cursor <= Len(rows) \/ new.cursor <= p
        /\ \A i \in 1..Len(log) : i > p => log[i].id > new.cursor
    BY <1>5, <1>6, <2>3
  <2>5. p = new.base + Len(new.got) /\ new.got = <<>> /\ new.got = SubSeq(log, new.base + 1, p)
    BY <1>4, <1>5, <1>8, <2>1
  <2> QED
    BY <1>3, <1>7, <1>8, <1>10, <2>3, <2>4, <2>5, SoundAt
<1> QED
  BY <1>5, <1>8, <1>9, <1>10 DEF Client

LEMMA ResyncSound ==
  ASSUME TablesInv, StreamInv, NEW c \in Streams, Resync(c)
  PROVE  client'[c] \in Client /\ ClientSound(c)'
<1>1. PICK a : a = client[c]
  OBVIOUS
<1>2. PICK r : r = a.run
  OBVIOUS
<1>3. PICK log : log = RowsOf(r)
  OBVIOUS
<1>4. a \in Client /\ r \in Runs /\ a.kind = "api"
  <2>1. a \in Client /\ ClientSound(c) /\ a.pc = "behind"
    BY <1>1 DEF StreamInv, Resync
  <2>2. a.kind # "web" /\ a.kind # "exporter"
    BY <1>1, <2>1 DEF ClientSound
  <2> QED
    BY <1>2, <2>1, <2>2 DEF Client
<1>5. /\ Len(rows) \in Nat /\ log \in Seq(Row) /\ Len(log) \in Nat /\ Len(log) <= Len(rows)
      /\ events[r] = log
      /\ \A i \in 1..Len(log) : log[i].id \in i..Len(rows)
      /\ \A i, j \in 1..Len(log) : i < j => log[i].id < log[j].id
  BY <1>3, <1>4, LogFacts DEF Resync
<1>6. PICK last : last = Replay(log).last
  OBVIOUS
<1>7. Replay(log).steps = Len(log) /\ last = IF log = <<>> THEN 0 ELSE log[Len(log)].id
  BY <1>3, <1>4, <1>6 DEF TablesInv, DiskInv, LogSound
<1>8. PICK new : new = client'[c]
  OBVIOUS
<1>9. /\ new = [a EXCEPT !.pc = "selected", !.got = <<>>, !.base = Len(log), !.cursor = last]
      /\ rows' = rows
  BY <1>1, <1>2, <1>5, <1>6, <1>7, <1>8 DEF Resync, StreamInv, storeVars
<1>10. /\ new.kind = "api" /\ new.run = r /\ new.base = Len(log) /\ new.got = <<>>
       /\ new.cursor = last /\ new.pc = "selected"
  BY <1>2, <1>4, <1>9 DEF Client
<1>11. last \in 0..Len(rows) /\ \A i \in 1..Len(log) : log[i].id <= last
  <2>1. CASE log = <<>>
    <3>1. last = 0 /\ \A i \in 1..Len(log) : FALSE
      BY <1>7, <2>1
    <3> QED
      BY <1>5, <3>1
  <2>2. CASE log # <<>>
    <3>1. Len(log) \in 1..Len(log) /\ last = log[Len(log)].id
      BY <1>5, <1>7, <2>2
    <3>2. last \in 0..Len(rows)
      BY <1>5, <3>1
    <3>3. ASSUME NEW i \in 1..Len(log)
          PROVE  log[i].id <= last
      <4>1. i < Len(log) \/ i = Len(log)
        BY <1>5
      <4>2. log[i].id \in Nat /\ last \in Nat
        BY <1>5, <3>2
      <4> QED
        BY <1>5, <3>1, <4>1, <4>2
    <3> QED
      BY <3>2, <3>3
  <2> QED
    BY <2>1, <2>2
<1>12. new \in Client
  <2>1. <<>> \in Seq(Row) /\ last \in Nat
    BY <1>5, <1>11
  <2> QED
    BY <1>4, <1>5, <1>9, <2>1 DEF Client
<1>13. Len(log) = new.base + Len(new.got)
  BY <1>5, <1>10
<1>14. new.got = SubSeq(log, new.base + 1, Len(log))
  BY <1>5, <1>10
<1>15. /\ \A i \in 1..Len(log) : i > Len(log) => log[i].id > new.cursor
       /\ \A i \in 1..Len(log) : log[i].id <= new.cursor
       /\ new.cursor <= Len(rows) /\ Len(log) <= Len(log)
  BY <1>5, <1>10, <1>11
<1> QED
  BY <1>3, <1>8, <1>9, <1>10, <1>12, <1>13, <1>14, <1>15, SoundAt

(* The steps that only move the handler or end the stream.                 *)
LEMMA PauseSound ==
  ASSUME TablesInv, StreamInv, [Next]_vars, NEW c \in Streams, NEW pc \in {"send", "subscribe", "wait", "idle", "selected"},
         pc = "selected" => client[c].kind # "web",
         client[c].pc \in {"subscribe", "send", "wait"}, client'[c] = [client[c] EXCEPT !.pc = pc]
  PROVE  client'[c] \in Client /\ ClientSound(c)'
<1>1. client[c] \in Client /\ ClientSound(c)
  BY DEF StreamInv
<1>2. client'[c] \in Client
  BY <1>1 DEF Client
<1>3. client[c].kind # "exporter"
  BY <1>1 DEF ClientSound
<1>4. /\ client'[c].kind = client[c].kind /\ client'[c].run = client[c].run
      /\ client'[c].base = client[c].base /\ client'[c].got = client[c].got
      /\ client'[c].cursor = client[c].cursor /\ client'[c].pc # "behind"
      /\ client'[c].kind = "web" => client'[c].pc # "selected"
  BY <1>1 DEF Client
<1> QED
  BY <1>1, <1>2, <1>3, <1>4, SoundStays

(* The cursor divides a log: what is after it by id is after it by place.  *)
LEMMA CursorDivides ==
  ASSUME NEW log \in Seq(Row), NEW cursor \in Nat,
         \A i, j \in 1..Len(log) : i < j => log[i].id < log[j].id
  PROVE  \E q \in 0..Len(log) : \A i \in 1..Len(log) : log[i].id > cursor <=> i > q
<1> DEFINE T == {i \in 1..(Len(log) + 1) : i \in 1..Len(log) => log[i].id > cursor}
<1>1. Len(log) \in Nat /\ \A i \in 1..Len(log) : log[i].id \in Nat
  <2>1. \A i \in 1..Len(log) : log[i] \in Row
    OBVIOUS
  <2> QED
    BY <2>1 DEF Row
<1>2. T \subseteq Nat /\ Len(log) + 1 \in T
  BY <1>1
<1>3. PICK m \in T : \A k \in T : m <= k
  <2> HIDE DEF T
  <2> QED
    BY <1>2, LeastExists
<1>4. m - 1 \in 0..Len(log)
  BY <1>1, <1>2, <1>3
<1>5. ASSUME NEW i \in 1..Len(log)
      PROVE  log[i].id > cursor <=> i > m - 1
  <2>1. m \in Nat /\ i \in Nat /\ m \in 1..(Len(log) + 1) /\ i \in 1..(Len(log) + 1)
    BY <1>1, <1>2
  <2>2. CASE log[i].id > cursor
    <3>1. i \in T
      BY <2>1, <2>2
    <3>2. m <= i
      BY <1>3, <3>1
    <3> QED
      BY <2>1, <2>2, <3>2
  <2>3. CASE ~(log[i].id > cursor)
    <3>1. ASSUME i > m - 1
          PROVE  FALSE
      <4>1. m \in 1..Len(log) /\ m <= i
        BY <1>1, <2>1, <3>1
      <4>2. log[m].id > cursor
        BY <1>3, <4>1
      <4>3. m = i \/ m < i
        BY <2>1, <4>1
      <4>4. log[m].id <= log[i].id
        BY <1>1, <4>1, <4>3
      <4> QED
        BY <1>1, <2>3, <4>1, <4>2, <4>4
    <3> QED
      BY <2>3, <3>1
  <2> QED
    BY <2>2, <2>3
<1> QED
  BY <1>4, <1>5

(* Stretches of a sequence.                                                *)
LEMMA Stretch ==
  ASSUME NEW A, NEW s \in Seq(A), NEW q \in Nat, NEW e \in q..Len(s)
  PROVE  /\ SubSeq(s, q + 1, e) \in Seq(A) /\ Len(SubSeq(s, q + 1, e)) = e - q
         /\ \A i \in 1..(e - q) : SubSeq(s, q + 1, e)[i] = s[q + i]
  OBVIOUS

LEMMA StretchOf ==
  ASSUME NEW A, NEW s \in Seq(A), NEW q \in Nat, NEW e \in q..Len(s), NEW d \in Nat, NEW n \in d..(e - q)
  PROVE  SubSeq(SubSeq(s, q + 1, e), d + 1, n) = SubSeq(s, (q + d) + 1, q + n)
<1> DEFINE t == SubSeq(s, q + 1, e)
<1>1. t \in Seq(A) /\ Len(t) = e - q /\ \A i \in 1..(e - q) : t[i] = s[q + i]
  OBVIOUS
<1> HIDE DEF t
<1> DEFINE u == SubSeq(t, d + 1, n)
           v == SubSeq(s, (q + d) + 1, q + n)
<1>2. u \in Seq(A) /\ Len(u) = n - d /\ \A i \in 1..(n - d) : u[i] = t[d + i]
  <2>1. d \in Nat /\ n \in d..Len(t)
    BY <1>1
  <2> QED
    BY <1>1, <2>1, Stretch
<1>3. v \in Seq(A) /\ Len(v) = n - d /\ \A i \in 1..(n - d) : v[i] = s[(q + d) + i]
  OBVIOUS
<1>4. ASSUME NEW i \in 1..(n - d)
      PROVE  u[i] = v[i]
  <2>1. d + i \in 1..(e - q) /\ q + (d + i) = (q + d) + i
    OBVIOUS
  <2> QED
    BY <1>1, <1>2, <1>3, <2>1
<1> HIDE DEF u, v
<1>5. u = v
  BY <1>2, <1>3, <1>4, SeqEqual
<1> QED
  BY <1>5 DEF t, u, v

LEMMA JoinStretches ==
  ASSUME NEW A, NEW s \in Seq(A), NEW b \in Nat, NEW p \in b..Len(s), NEW e \in p..Len(s)
  PROVE  SubSeq(s, b + 1, p) \o SubSeq(s, p + 1, e) = SubSeq(s, b + 1, e)
<1> DEFINE t == SubSeq(s, b + 1, p)
           u == SubSeq(s, p + 1, e)
           v == SubSeq(s, b + 1, e)
<1>1. /\ t \in Seq(A) /\ Len(t) = p - b /\ \A i \in 1..(p - b) : t[i] = s[b + i]
      /\ u \in Seq(A) /\ Len(u) = e - p /\ \A i \in 1..(e - p) : u[i] = s[p + i]
      /\ v \in Seq(A) /\ Len(v) = e - b /\ \A i \in 1..(e - b) : v[i] = s[b + i]
  OBVIOUS
<1> HIDE DEF t, u, v
<1> DEFINE w == t \o u
<1>2. /\ w \in Seq(A) /\ Len(w) = e - b
      /\ \A i \in 1..(e - b) : w[i] = IF i <= p - b THEN t[i] ELSE u[i - (p - b)]
  <2>1. /\ w \in Seq(A) /\ Len(w) = Len(t) + Len(u)
        /\ \A i \in 1..(Len(t) + Len(u)) : w[i] = IF i <= Len(t) THEN t[i] ELSE u[i - Len(t)]
    BY <1>1, ConcatProperties
  <2>2. Len(t) + Len(u) = e - b
    BY <1>1
  <2> QED
    BY <1>1, <2>1, <2>2
<1>3. ASSUME NEW i \in 1..(e - b)
      PROVE  w[i] = v[i]
  <2>1. CASE i <= p - b
    BY <1>1, <1>2, <2>1
  <2>2. CASE ~(i <= p - b)
    <3>1. i - (p - b) \in 1..(e - p) /\ p + (i - (p - b)) = b + i
      BY <2>2
    <3> QED
      BY <1>1, <1>2, <2>2, <3>1
  <2> QED
    BY <2>1, <2>2
<1> HIDE DEF w
<1>4. w = v
  BY <1>1, <1>2, <1>3, SeqEqual
<1> QED
  BY <1>4 DEF t, u, v, w

(* The first n elements of a sequence.                                     *)
LEMMA Beginning ==
  ASSUME NEW X, NEW s \in Seq(X), NEW n \in 0..Len(s)
  PROVE  /\ SubSeq(s, 1, n) \in Seq(X) /\ Len(SubSeq(s, 1, n)) = n
         /\ \A i \in 1..n : SubSeq(s, 1, n)[i] = s[i]
  OBVIOUS

(* What a client at position p keeps of the k events after position q.     *)
KeepsStretch(c, log, p, q, k) ==
  Keep(c, SubSeq(log, q + 1, q + k)) = SubSeq(log, p + 1, IF q + k > p THEN q + k ELSE p)

LEMMA KeepStretch ==
  ASSUME TablesInv, NEW c \in Streams, NEW r \in Runs, NEW log, log = RowsOf(r),
         NEW p \in Nat, NEW q \in 0..p, NEW k \in Nat, q + k <= Len(log),
         p = client[c].base + Len(client[c].got),
         client[c].kind # "web" => q = p
  PROVE  KeepsStretch(c, log, p, q, k)
<1> USE DEF KeepsStretch
<1>1. /\ log \in Seq(Row) /\ Len(log) \in Nat /\ p \in Nat /\ q \in Nat
      /\ \A i \in 1..Len(log) : log[i].sequence = i /\ log[i] \in Row
  <2>1. log \in Seq(Row)
    BY LogFacts
  <2>2. \A i \in 1..Len(log) : log[i].sequence = i
    BY LogFacts
  <2> QED
    BY <2>1, <2>2
<1>2. PICK sent : sent = SubSeq(log, q + 1, q + k)
  OBVIOUS
<1>3. /\ sent \in Seq(Row) /\ Len(sent) = k /\ \A i \in 1..k : sent[i] = log[q + i]
  <2>1. PICK e \in q..Len(log) : e = q + k
    BY <1>1
  <2>2. sent = SubSeq(log, q + 1, e)
    BY <1>2, <2>1
  <2>3. /\ sent \in Seq(Row) /\ Len(sent) = e - q /\ \A i \in 1..(e - q) : sent[i] = log[q + i]
    BY <1>1, <2>2
  <2>4. e - q = k
    BY <1>1, <2>1
  <2> QED
    BY <2>3, <2>4
<1>4. CASE client[c].kind # "web"
  <2>1. q = p /\ Keep(c, sent) = sent
    BY <1>4 DEF Keep
  <2>2. (IF q + k > p THEN q + k ELSE p) = q + k
    BY <1>1, <2>1
  <2> QED
    BY <1>2, <2>1, <2>2
<1>5. CASE client[c].kind = "web"
  <2> DEFINE S == {row \in Row : row.sequence > p}
  <2>1. Keep(c, sent) = Among(sent, S)
    BY <1>5 DEF Keep
  <2>2. \A i \in 1..k : sent[i] \in S <=> q + i > p
    <3>1. \A i \in 1..k : q + i \in 1..Len(log)
      BY <1>1
    <3> QED
      BY <1>1, <1>3, <3>1
  <2> HIDE DEF S
  <2>3. CASE q + k > p
    <3>1. PICK d \in Nat : d = p - q
      BY <1>1
    <3>2. d \in 0..k /\ q + d = p /\ \A i \in 1..k : q + i > p <=> i > d
      BY <1>1, <2>3, <3>1
    <3>3. Among(sent, S) = SubSeq(sent, d + 1, k)
      BY <1>3, <2>2, <3>2, AmongLast
    <3>4. SubSeq(SubSeq(log, q + 1, q + k), d + 1, k) = SubSeq(log, (q + d) + 1, q + k)
      <4>1. q + k \in q..Len(log) /\ k \in d..((q + k) - q)
        BY <1>1, <3>2
      <4> QED
        BY <1>1, <4>1, StretchOf
    <3> QED
      BY <1>2, <2>1, <2>3, <3>2, <3>3, <3>4
  <2>4. CASE ~(q + k > p)
    <3>1. \A i \in 1..k : ~(q + i > p)
      BY <1>1, <2>4
    <3>2. k \in 0..Len(sent) /\ \A i \in 1..Len(sent) : sent[i] \in S <=> i > k
      <4>1. k \in 0..k /\ \A i \in 1..k : ~(i > k)
        OBVIOUS
      <4> QED
        BY <1>3, <2>2, <3>1, <4>1
    <3>3. Among(sent, S) = SubSeq(sent, k + 1, Len(sent))
      BY <1>3, <3>2, AmongLast
    <3>4. SubSeq(sent, k + 1, Len(sent)) = <<>> /\ SubSeq(log, p + 1, p) = <<>>
      BY <1>1, <1>3
    <3> QED
      BY <1>2, <2>1, <2>4, <3>3, <3>4
  <2> QED
    BY <2>3, <2>4
<1> QED
  BY <1>4, <1>5

LEMMA SendSound ==
  ASSUME TablesInv, StreamInv, [Next]_vars, NEW c \in Streams, Send(c)
  PROVE  client'[c] \in Client /\ ClientSound(c)'
<1>1. PICK a : a = client[c]
  OBVIOUS
<1>2. PICK r : r = a.run
  OBVIOUS
<1>3. PICK log : log = RowsOf(r)
  OBVIOUS
<1>4. PICK p : p = a.base + Len(a.got)
  OBVIOUS
<1>5. /\ r \in Runs /\ a \in Client /\ p \in Nat
      /\ a.base \in 0..p /\ a.got \in Seq(Row) /\ a.cursor \in Nat
      /\ a.got = SubSeq(log, a.base + 1, p)
      /\ (a.kind # "web" \/ a.got # <<>>) => p <= Len(log)
      /\ a.got = <<>> => p = a.base
      /\ a.cursor <= Len(rows) \/ a.cursor <= p
      /\ \A i \in 1..Len(log) : i > p => log[i].id > a.cursor
      /\ a.kind # "web" => \A i \in 1..p : log[i].id <= a.cursor
      /\ a.kind = "exporter" => a.pc = "idle"
  <2>1. At(a, r, log, p)
    BY <1>1, <1>2, <1>3, <1>4, SoundFacts
  <2> QED
    BY <2>1 DEF At
<1>6. /\ Len(rows) \in Nat /\ log \in Seq(Row) /\ Len(log) \in Nat /\ events[r] = log
      /\ \A i \in 1..Len(log) : log[i].id \in i..Len(rows)
      /\ \A i, j \in 1..Len(log) : i < j => log[i].id < log[j].id
  BY <1>3, <1>5, LogFacts DEF Send
<1>7. a.pc = "send" /\ a.cursor \in Nat /\ p \in Nat /\ a.base \in Nat /\ a.kind # "exporter" /\ rows' = rows
  <2>1. a.pc = "send" /\ rows' = rows
    BY <1>1 DEF Send, storeVars
  <2>2. a.kind # "exporter"
    BY <1>5, <2>1
  <2>3. a.base \in Nat
    BY <1>5
  <2> QED
    BY <1>5, <2>1, <2>2, <2>3
<1>8. PICK q \in 0..Len(log) : \A i \in 1..Len(log) : log[i].id > a.cursor <=> i > q
  BY <1>6, <1>7, CursorDivides
<1>9. q <= p /\ (a.kind # "web" => q = p)
  <2>1. ASSUME q > p
        PROVE  FALSE
    <3>1. q \in 1..Len(log)
      BY <1>6, <1>7, <1>8, <2>1
    <3>2. log[q].id > a.cursor
      BY <1>5, <2>1, <3>1
    <3> QED
      BY <1>6, <1>8, <3>1, <3>2
  <2>2. ASSUME a.kind # "web", q < p
        PROVE  FALSE
    <3>1. p \in 1..Len(log) /\ p \in 1..p
      BY <1>5, <1>6, <1>8, <2>2
    <3>2. log[p].id > a.cursor /\ log[p].id <= a.cursor /\ log[p].id \in Nat
      BY <1>5, <1>6, <1>8, <2>2, <3>1
    <3> QED
      BY <1>7, <3>2
  <2> QED
    BY <1>6, <1>7, <1>8, <2>1, <2>2
<1>10. PICK backlog : backlog = After(r, a.cursor)
  OBVIOUS
<1>11. backlog = SubSeq(log, q + 1, Len(log))
  <2> DEFINE S == {row \in Row : row.id > a.cursor}
  <2>1. \A i \in 1..Len(log) : log[i] \in S <=> i > q
    BY <1>6, <1>8
  <2>2. backlog = Among(log, S)
    BY <1>6, <1>10 DEF After
  <2> HIDE DEF S
  <2> QED
    BY <1>6, <1>8, <2>1, <2>2, AmongLast
<1>12. /\ backlog \in Seq(Row) /\ Len(backlog) = Len(log) - q
       /\ \A i \in 1..Len(backlog) : backlog[i] = log[q + i]
  BY <1>6, <1>8, <1>11
<1>13. CASE Len(backlog) > MaxBacklog
  <2>1. client' = [client EXCEPT ![c].pc = Ended(c)]
    BY <1>1, <1>2, <1>10, <1>13 DEF Send
  <2>2. client'[c] = [client[c] EXCEPT !.pc = Ended(c)]
    BY <2>1 DEF StreamInv
  <2>3. /\ Ended(c) \in {"send", "subscribe", "wait", "idle", "selected"}
        /\ Ended(c) = "selected" => client[c].kind # "web"
    BY DEF Ended
  <2> QED
    BY <1>1, <1>7, <2>2, <2>3, PauseSound
<1>14. CASE ~(Len(backlog) > MaxBacklog)
  <2>1. PICK k \in 0..Len(backlog) :
          client' = [client EXCEPT
            ![c].got = @ \o Keep(c, SubSeq(backlog, 1, k)),
            ![c].cursor = IF k = 0 THEN @ ELSE backlog[k].id,
            ![c].pc = IF k = Len(backlog) THEN Loop.send ELSE Ended(c)]
    BY <1>1, <1>2, <1>10, <1>14 DEF Send
  <2>2. PICK new : new = client'[c]
    OBVIOUS
  <2>3. PICK e : e = IF q + k > p THEN q + k ELSE p
    OBVIOUS
  <2>4. /\ k \in Nat /\ q + k <= Len(log) /\ e \in Nat /\ p <= e /\ q + k <= e
        /\ p <= Len(log) => e <= Len(log)
        /\ ~(p <= Len(log)) => e = p
    <3>1. PICK n \in Nat, m \in Nat : n = Len(log) /\ m = Len(backlog)
      BY <1>6, <1>12
    <3>2. p \in Nat /\ q \in 0..n /\ m = n - q /\ k \in 0..m
      BY <1>5, <1>8, <1>12, <2>1, <3>1
    <3>3. /\ k \in Nat /\ q + k <= n /\ e \in Nat /\ p <= e /\ q + k <= e
          /\ p <= n => e <= n
          /\ ~(p <= n) => e = p
      BY <2>3, <3>2
    <3> QED
      BY <3>1, <3>3
  <2>5. SubSeq(backlog, 1, k) = SubSeq(log, q + 1, q + k)
    <3>1. PICK d \in Nat, m \in Nat : d = 0 /\ m = Len(log)
      BY <1>6
    <3>2. q \in Nat /\ m \in q..Len(log) /\ k \in d..(m - q)
      BY <1>6, <1>8, <2>4, <3>1
    <3>3. SubSeq(SubSeq(log, q + 1, m), d + 1, k) = SubSeq(log, (q + d) + 1, q + k)
      BY <1>6, <3>2, StretchOf
    <3>4. d + 1 = 1 /\ (q + d) + 1 = q + 1
      BY <1>8, <3>1
    <3> QED
      BY <1>11, <3>1, <3>3, <3>4
  <2>6. Keep(c, SubSeq(backlog, 1, k)) = SubSeq(log, p + 1, e)
    <3>1. p = client[c].base + Len(client[c].got)
      BY <1>1, <1>4
    <3>2. q \in 0..p
      BY <1>7, <1>8, <1>9
    <3>3. (client[c].kind # "web" => q = p) /\ p \in Nat /\ r \in Runs
      BY <1>1, <1>5, <1>9
    <3>4. KeepsStretch(c, log, p, q, k)
      BY <1>3, <2>4, <3>1, <3>2, <3>3, KeepStretch
    <3> QED
      BY <2>3, <2>5, <3>4 DEF KeepsStretch
  <2>7. new.got = SubSeq(log, a.base + 1, e)
    <3>1. new.got = a.got \o SubSeq(log, p + 1, e)
      BY <1>1, <1>5, <2>1, <2>2, <2>6 DEF StreamInv, Client
    <3>2. PICK b \in Nat : b = a.base
      BY <1>7
    <3>3. a.got = SubSeq(log, b + 1, p)
      BY <1>5, <3>2
    <3>4. CASE p <= Len(log)
      <4>1. p \in b..Len(log) /\ e \in p..Len(log)
        BY <1>5, <1>6, <1>7, <2>4, <3>2, <3>4
      <4>2. SubSeq(log, b + 1, p) \o SubSeq(log, p + 1, e) = SubSeq(log, b + 1, e)
        BY <1>6, <4>1, JoinStretches
      <4> QED
        BY <3>1, <3>2, <3>3, <4>2
    <3>5. CASE ~(p <= Len(log))
      <4>1. a.got = <<>> /\ p = b /\ e = p
        BY <1>5, <2>4, <3>2, <3>5
      <4>2. SubSeq(log, p + 1, p) = <<>>
        BY <1>6, <1>7
      <4> QED
        BY <3>1, <3>2, <4>1, <4>2
    <3> QED
      BY <3>4, <3>5
  <2>8. /\ new.kind = a.kind /\ new.run = r /\ new.base = a.base
        /\ new.cursor = IF k = 0 THEN a.cursor ELSE backlog[k].id
        /\ new.pc \in {"wait", "idle", "selected"}
        /\ a.kind = "web" => new.pc # "selected"
    BY <1>1, <1>2, <1>5, <2>1, <2>2 DEF StreamInv, Client, Loop, Ended
  <2>9. new.cursor \in Nat /\ (new.cursor <= Len(rows) \/ new.cursor <= e)
    <3>1. CASE k = 0
      BY <1>5, <1>6, <1>7, <2>4, <2>8, <3>1
    <3>2. CASE k # 0
      <4>1. k \in 1..Len(backlog) /\ q + k \in 1..Len(log)
        BY <1>6, <1>8, <1>12, <2>1, <2>4, <3>2
      <4>2. new.cursor = log[q + k].id
        BY <1>12, <2>8, <3>2, <4>1
      <4> QED
        BY <1>6, <1>8, <4>1, <4>2
    <3> QED
      BY <3>1, <3>2
  <2>10. new.got \in Seq(Row) /\ Len(new.got) = e - a.base
    <3>1. PICK b \in Nat : b = a.base
      BY <1>7
    <3>2. new.got = SubSeq(log, b + 1, e)
      BY <2>7, <3>1
    <3>3. CASE p <= Len(log)
      <4>1. b <= p /\ p <= e /\ e <= Len(log) /\ e \in Nat
        BY <1>5, <1>6, <1>7, <2>4, <3>1, <3>3
      <4>2. new.got \in Seq(Row) /\ Len(new.got) = e - b
        BY <1>6, <1>7, <3>2, <4>1
      <4> QED
        BY <3>1, <4>2
    <3>4. CASE ~(p <= Len(log))
      <4>1. e = b
        BY <1>5, <2>4, <3>1, <3>4
      <4>2. SubSeq(log, b + 1, b) = <<>> /\ e - b = 0
        BY <1>6, <4>1
      <4>3. <<>> \in Seq(Row) /\ Len(<<>>) = 0
        OBVIOUS
      <4> QED
        BY <3>1, <3>2, <4>1, <4>2, <4>3
    <3> QED
      BY <3>3, <3>4
  <2>11. new \in Client
    <3>1. new = [kind |-> a.kind, pc |-> new.pc, run |-> r, base |-> a.base, got |-> new.got,
                 cursor |-> new.cursor]
      BY <1>1, <1>2, <1>5, <2>1, <2>2, <2>8 DEF StreamInv, Client
    <3> QED
      BY <1>5, <1>7, <2>8, <2>9, <2>10, <3>1 DEF Client
  <2>12. e = new.base + Len(new.got)
    BY <1>7, <2>4, <2>8, <2>10
  <2>13. \A i \in 1..Len(log) : i > e => log[i].id > new.cursor
    <3> SUFFICES ASSUME NEW i \in 1..Len(log), i > e
                 PROVE  log[i].id > new.cursor
      OBVIOUS
    <3>1. CASE k = 0
      BY <1>5, <1>6, <1>7, <2>4, <2>8, <3>1
    <3>2. CASE k # 0
      <4>1. k \in 1..Len(backlog) /\ q + k \in 1..Len(log) /\ q + k < i
        BY <1>6, <1>8, <1>12, <2>1, <2>4, <3>2
      <4>2. new.cursor = log[q + k].id
        BY <1>12, <2>8, <3>2, <4>1
      <4>3. log[q + k].id < log[i].id
        BY <1>6, <4>1
      <4>4. log[q + k].id \in Nat /\ log[i].id \in Nat
        BY <1>6, <1>8, <4>1
      <4> QED
        BY <4>2, <4>3, <4>4
    <3> QED
      BY <3>1, <3>2
  <2>14. new.kind # "web" => \A i \in 1..e : log[i].id <= new.cursor
    <3> SUFFICES ASSUME a.kind # "web", NEW i \in 1..e
                 PROVE  log[i].id <= new.cursor
      BY <2>8
    <3>0. p <= Len(log)
      BY <1>5
    <3>1. q = p /\ e = q + k /\ i \in 1..Len(log)
      BY <1>6, <1>7, <1>9, <2>3, <2>4, <3>0
    <3>2. CASE k = 0
      <4>1. i \in 1..p
        BY <1>7, <1>8, <3>1, <3>2
      <4> QED
        BY <1>5, <2>8, <3>2, <4>1
    <3>3. CASE k # 0
      <4>1. k \in 1..Len(backlog) /\ q + k \in 1..Len(log) /\ i <= q + k
        BY <1>6, <1>8, <1>12, <2>1, <2>4, <3>1, <3>3
      <4>2. new.cursor = log[q + k].id
        BY <1>12, <2>8, <3>3, <4>1
      <4>3. i = q + k \/ i < q + k
        BY <1>8, <2>4, <4>1
      <4>4. log[q + k].id \in Nat /\ log[i].id \in Nat
        BY <1>6, <3>1, <4>1
      <4> QED
        BY <1>6, <3>1, <4>1, <4>2, <4>3, <4>4
    <3> QED
      BY <3>2, <3>3
  <2>15. new.got = SubSeq(log, new.base + 1, e)
    BY <2>7, <2>8
  <2>16. (new.kind # "web" \/ new.got # <<>>) => e <= Len(log)
    <3>1. CASE p <= Len(log)
      BY <2>4, <3>1
    <3>2. CASE ~(p <= Len(log))
      <4>1. a.kind = "web" /\ e = p /\ p = a.base
        BY <1>5, <2>4, <3>2
      <4>2. new.got = <<>>
        BY <1>6, <1>7, <2>15, <2>8, <4>1
      <4> QED
        BY <2>8, <4>1, <4>2
    <3> QED
      BY <3>1, <3>2
  <2>17. new.kind = "web" => new.pc # "behind" /\ new.pc # "selected"
    BY <1>5, <2>8
  <2> QED
    BY <1>3, <1>7, <2>2, <2>8, <2>9, <2>11, <2>12, <2>13, <2>14, <2>15, <2>16, <2>17, SoundAt
<1> QED
  BY <1>13, <1>14

(* Every step.                                                             *)
LEMMA StepStream ==
  ASSUME TablesInv, StreamInv, [Next]_vars
  PROVE  StreamInv'
<1>1. ASSUME NEW d \in Streams, client'[d] = client[d]
      PROVE  client'[d] \in Client /\ ClientSound(d)'
  <2>1. client[d] \in Client /\ ClientSound(d)
    BY DEF StreamInv
  <2>2. /\ client'[d].kind = client[d].kind /\ client'[d].run = client[d].run
        /\ client'[d].base = client[d].base /\ client'[d].got = client[d].got
        /\ client'[d].cursor = client[d].cursor
        /\ client'[d].kind = "web" =>
             client'[d].pc # "behind" /\ (client'[d].pc = "selected" => client'[d].got = <<>>)
        /\ client'[d].kind = "exporter" => client'[d].pc = "idle"
    BY <1>1, <2>1 DEF ClientSound
  <2> QED
    BY <1>1, <2>1, <2>2, SoundStays
<1>2. ASSUME client' = client
      PROVE  StreamInv'
  <2>1. \A d \in Streams : ClientSound(d)'
    BY <1>1, <1>2
  <2> QED
    BY <1>2, <2>1 DEF StreamInv
<1>3. ASSUME NEW c \in Streams, client' = [client EXCEPT ![c] = client'[c]],
             client'[c] \in Client, ClientSound(c)'
      PROVE  StreamInv'
  <2>1. client' \in [Streams -> Client]
    BY <1>3 DEF StreamInv
  <2>2. ASSUME NEW d \in Streams
        PROVE  ClientSound(d)'
    <3>1. CASE d = c
      BY <1>3, <3>1
    <3>2. CASE d # c
      <4>1. client'[d] = client[d]
        BY <1>3, <3>2 DEF StreamInv
      <4> QED
        BY <1>1, <4>1
    <3> QED
      BY <3>1, <3>2
  <2> QED
    BY <2>1, <2>2 DEF StreamInv
<1>4. ASSUME NEW c \in Streams, NEW pc \in {"send", "subscribe", "wait", "idle", "selected"},
             pc = "selected" => client[c].kind # "web",
             client[c].pc \in {"subscribe", "send", "wait"}, client' = [client EXCEPT ![c].pc = pc]
      PROVE  StreamInv'
  <2>1. client' = [client EXCEPT ![c] = client'[c]] /\ client'[c] = [client[c] EXCEPT !.pc = pc]
    BY <1>4 DEF StreamInv
  <2> QED
    BY <1>3, <1>4, <2>1, PauseSound
<1>5. ASSUME NEW c \in Streams, StreamStep(c)
      PROVE  StreamInv'
  <2>1. ASSUME Connect(c)
        PROVE  StreamInv'
    <3>1. client' = [client EXCEPT ![c] = client'[c]]
      BY <2>1 DEF Connect, StreamInv
    <3> QED
      BY <1>3, <2>1, <3>1, ConnectSound
  <2>2. ASSUME Subscribe(c)
        PROVE  StreamInv'
    BY <1>4, <2>2 DEF Subscribe, Loop
  <2>3. ASSUME Send(c)
        PROVE  StreamInv'
    <3>1. client' = [client EXCEPT ![c] = client'[c]]
      BY <2>3 DEF Send, StreamInv
    <3> QED
      BY <1>3, <2>3, <3>1, SendSound
  <2>4. ASSUME Wake(c)
        PROVE  StreamInv'
    BY <1>4, <2>4 DEF Wake, Loop
  <2> QED
    BY <1>5, <2>1, <2>2, <2>3, <2>4 DEF StreamStep
<1>6. ASSUME NEW c \in Streams, Keepalive(c) \/ Leave(c)
      PROVE  StreamInv'
  <2>1. /\ Ended(c) \in {"send", "subscribe", "wait", "idle", "selected"}
        /\ Ended(c) = "selected" => client[c].kind # "web"
    BY DEF Ended
  <2> QED
    BY <1>4, <1>6, <2>1 DEF Keepalive, Leave, Connected, Loop
<1>7. ASSUME NEW c \in Streams, Resync(c)
      PROVE  StreamInv'
  <2>1. client' = [client EXCEPT ![c] = client'[c]]
    BY <1>7 DEF Resync, StreamInv
  <2> QED
    BY <1>3, <1>7, <2>1, ResyncSound
<1>8. ASSUME NEW c \in Streams, NEW r \in Runs, Select(c, r)
      PROVE  StreamInv'
  <2>1. client' = [client EXCEPT ![c] = client'[c]]
    BY <1>8 DEF Select, StreamInv
  <2> QED
    BY <1>3, <1>8, <2>1, SelectSound
<1>9. ASSUME CrashAll
      PROVE  StreamInv'
  <2>1. client' = [c \in Streams |-> IF Connected(c) THEN [client[c] EXCEPT !.pc = Ended(c)] ELSE client[c]]
    BY <1>9 DEF CrashAll
  <2>2. ASSUME NEW d \in Streams
        PROVE  client'[d] \in Client /\ ClientSound(d)'
    <3>1. CASE Connected(d)
      <4>1. client'[d] = [client[d] EXCEPT !.pc = Ended(d)]
        BY <2>1, <3>1
      <4>2. /\ Ended(d) \in {"send", "subscribe", "wait", "idle", "selected"}
            /\ Ended(d) = "selected" => client[d].kind # "web"
        BY DEF Ended
      <4> QED
        BY <3>1, <4>1, <4>2, PauseSound DEF Connected
    <3>2. CASE ~Connected(d)
      BY <1>1, <2>1, <3>2
    <3> QED
      BY <3>1, <3>2
  <2>3. client' \in [Streams -> Client]
    <3>1. client' = [d \in Streams |-> client'[d]]
      BY <2>1
    <3> QED
      BY <2>2, <3>1
  <2> QED
    BY <2>2, <2>3 DEF StreamInv
<1>10. ASSUME NEW c \in Streams, NEW r \in Runs, ExportEvents(c, r)
       PROVE  client' = client
  BY <1>10 DEF ExportEvents
<1>11. ASSUME StoreStep \/ ExportProjection \/ UNCHANGED vars
       PROVE  client' = client
  BY <1>11 DEF StoreStep, ExportProjection, vars
<1>12. ASSUME Next
       PROVE  StreamInv'
  BY <1>2, <1>5, <1>6, <1>7, <1>8, <1>9, <1>10, <1>11, <1>12 DEF Next
<1> QED
  BY <1>2, <1>11, <1>12

-----------------------------------------------------------------------------
(* The export.                                                             *)

LEMMA ExportStays ==
  ASSUME TablesInv, [Next]_vars, export \in Export, ExportInv, export' = export
  PROVE  ExportInv'
<1>1. PICK x : x = export
  OBVIOUS
<1>2. PICK r : r = x.run
  OBVIOUS
<1>3. PICK log : log = RowsOf(r)
  OBVIOUS
<1>4. PICK later : later = RowsOf(r)'
  OBVIOUS
<1>5. PICK n : n = Len(x.events)
  OBVIOUS
<1>6. r \in Runs /\ x.events \in Seq(Row) /\ n \in Nat /\ x.projection.steps \in Nat
  BY <1>1, <1>2, <1>5 DEF Export, Projection
<1>7. log \in Seq(Row) /\ later \in Seq(Row) /\ Extends(later, log)
  BY <1>3, <1>4, <1>6, LogExtends
<1>8. Len(log) \in Nat /\ Len(later) \in Nat /\ Len(log) <= Len(later)
  BY <1>7 DEF Extends
<1>9. RowsOf(export.run)' = later
  BY <1>1, <1>2, <1>4 DEF RowsOf
<1>10. CASE x.pc = "idle"
  BY <1>1, <1>10 DEF ExportInv
<1>11. CASE x.pc # "idle"
  <2>1. /\ n <= Len(log) /\ x.events = SubSeq(log, 1, n)
        /\ Replay(x.events).steps = n
        /\ Replay(x.events).status = ProjectStatus(x.events)
        /\ x.pc = "done" => /\ x.projection.steps \in n..Len(log)
                            /\ x.projection.steps = n => x.projection = Replay(x.events)
    BY <1>1, <1>2, <1>3, <1>5, <1>11 DEF ExportInv
  <2>2. x.events = SubSeq(later, 1, n)
    <3>1. PICK a \in Nat : a = 0
      OBVIOUS
    <3>2. n \in 0..Len(log) /\ a + 1 = 1
      BY <1>6, <1>8, <2>1, <3>1
    <3>3. SubSeq(later, a + 1, n) = SubSeq(log, a + 1, n)
      BY <1>7, <3>2, SameStretch
    <3> QED
      BY <2>1, <3>2, <3>3
  <2>3. n <= Len(later) /\ (x.pc = "done" => x.projection.steps \in n..Len(later))
    BY <1>6, <1>8, <2>1
  <2> QED
    BY <1>1, <1>5, <1>9, <2>1, <2>2, <2>3 DEF ExportInv
<1> QED
  BY <1>10, <1>11

LEMMA StepExport ==
  ASSUME TablesInv, [Next]_vars, export \in Export, ExportInv
  PROVE  export' \in Export /\ ExportInv'
<1>1. ASSUME export' = export
      PROVE  export' \in Export /\ ExportInv'
  BY <1>1, ExportStays
<1>2. ASSUME NEW r \in Runs, NEW c \in Streams, ExportEvents(c, r)
      PROVE  export' \in Export /\ ExportInv'
  <2>1. PICK log : log = RowsOf(r)
    OBVIOUS
  <2>2. log \in Seq(Row) /\ Len(log) \in Nat /\ events[r] = log
    BY <1>2, <2>1, LogFacts DEF ExportEvents
  <2>3. /\ export' = [pc |-> "read", run |-> r, events |-> log, projection |-> Replay(<<>>)]
        /\ rows' = rows
    BY <1>2, <2>2 DEF ExportEvents, storeVars
  <2>4. RowsOf(export.run)' = log
    BY <2>1, <2>3 DEF RowsOf
  <2>5. Replay(log).steps = Len(log) /\ Replay(log).status = ProjectStatus(log)
    BY <2>1 DEF TablesInv, DiskInv, LogSound
  <2>6. log = SubSeq(log, 1, Len(log))
    BY <2>2
  <2>7. export' \in Export
    <3>1. <<>> \in Seq(Row)
      OBVIOUS
    <3>2. Replay(<<>>) \in Projection
      BY <3>1, ReplayTyped
    <3> QED
      BY <2>2, <2>3, <3>2 DEF Export
  <2> QED
    BY <2>2, <2>3, <2>4, <2>5, <2>6, <2>7 DEF ExportInv
<1>3. ASSUME ExportProjection
      PROVE  export' \in Export /\ ExportInv'
  <2>1. PICK x : x = export
    OBVIOUS
  <2>2. PICK r : r = x.run
    OBVIOUS
  <2>3. PICK log : log = RowsOf(r)
    OBVIOUS
  <2>4. PICK n : n = Len(x.events)
    OBVIOUS
  <2>5. x \in Export /\ r \in Runs /\ n \in Nat
    BY <2>1, <2>2, <2>4 DEF Export
  <2>6. log \in Seq(Row) /\ Len(log) \in Nat /\ events[r] = log
    BY <1>3, <2>3, <2>5, LogFacts DEF ExportProjection
  <2>7. export' = [x EXCEPT !.pc = "done", !.projection = Replay(log)] /\ rows' = rows
    BY <1>3, <2>1, <2>2, <2>6 DEF ExportProjection, storeVars
  <2>8. /\ n <= Len(log) /\ x.events = SubSeq(log, 1, n)
        /\ Replay(x.events).steps = n
        /\ Replay(x.events).status = ProjectStatus(x.events)
    BY <1>3, <2>1, <2>2, <2>3, <2>4 DEF ExportInv, ExportProjection
  <2>9. Replay(log).steps = Len(log) /\ Replay(log) \in Projection
    BY <2>3, <2>5, <2>6, ReplayTyped DEF TablesInv, DiskInv, LogSound
  <2>10. /\ export'.pc = "done" /\ export'.run = r /\ export'.events = x.events
         /\ export'.projection = Replay(log) /\ export' \in Export
    BY <2>2, <2>5, <2>7, <2>9 DEF Export
  <2>11. RowsOf(export.run)' = log
    BY <2>3, <2>7, <2>10 DEF RowsOf
  <2>12. Len(log) \in n..Len(log) /\ (Len(log) = n => x.events = log)
    <3>1. Len(log) = n => SubSeq(log, 1, n) = log
      BY <2>6
    <3>2. Len(log) \in n..Len(log)
      BY <2>5, <2>6, <2>8
    <3> QED
      BY <2>8, <3>1, <3>2
  <2> QED
    BY <2>4, <2>8, <2>9, <2>10, <2>11, <2>12 DEF ExportInv
<1>4. ASSUME CrashAll
      PROVE  export' \in Export /\ ExportInv'
  <2>1. CASE export.pc = "read"
    <3>1. export' = [export EXCEPT !.pc = "idle"]
      BY <1>4, <2>1 DEF CrashAll
    <3>2. export' \in Export /\ export'.pc = "idle"
      BY <3>1 DEF Export
    <3> QED
      BY <3>2 DEF ExportInv
  <2>2. CASE export.pc # "read"
    BY <1>1, <1>4, <2>2 DEF CrashAll
  <2> QED
    BY <2>1, <2>2
<1>5. ASSUME NEW c \in Streams,
             \/ StreamStep(c) \/ Keepalive(c) \/ Leave(c) \/ Resync(c)
             \/ \E r \in Runs : Select(c, r)
      PROVE  export' = export
  BY <1>5 DEF StreamStep, Connect, Subscribe, Send, Wake, Keepalive, Leave, Resync, Select
<1>6. ASSUME StoreStep \/ UNCHANGED vars
      PROVE  export' = export
  BY <1>6 DEF StoreStep, vars
<1>7. ASSUME Next
      PROVE  export' \in Export /\ ExportInv'
  BY <1>1, <1>2, <1>3, <1>4, <1>5, <1>6, <1>7 DEF Next
<1> QED
  BY <1>1, <1>6, <1>7

-----------------------------------------------------------------------------
(* What holds in every reachable state.                                    *)

(* The inductive invariant: the tables pass the checks of OpenStore, the   *)
(* maps follow them, clients and exports hold stretches of the log         *)
(* (core.go:160-273, server.go:281-345, bundle.go:50-64).                  *)
THEOREM StoreInvariance == Spec => []StoreInv
<1>1. Init => StoreInv
  <2> SUFFICES ASSUME Init
               PROVE  StoreInv
    OBVIOUS
  <2>1. TablesInv
    BY InitTables DEF Init
  <2>2. rows = <<>> /\ Len(rows) = 0 /\ \A r \in Runs : RowsOf(r) = <<>>
    BY AmongNone DEF Init, StoreInit, RowsOf
  <2>3. (CHOOSE r \in Runs : TRUE) \in Runs /\ <<>> \in Seq(Row)
    BY RunsAssumption
  <2>4. client \in [Streams -> Client]
    <3>1. PICK first \in Runs : first = CHOOSE r \in Runs : TRUE
      BY <2>3
    <3> DEFINE Started == [kind : {"web", "api", "exporter"}, pc : {"idle"}, base : {0}, cursor : {0},
                           run : {first}, got : {<<>>}]
    <3>2. client \in [Streams -> Started]
      BY <3>1 DEF Init
    <3>3. ASSUME NEW a \in Started
          PROVE  a \in Client
      <4>1. <<>> \in Seq(Row)
        OBVIOUS
      <4>2. PICK none \in Seq(Row) : none = <<>>
        BY <4>1
      <4>3. /\ a = [kind |-> a.kind, pc |-> a.pc, base |-> a.base, cursor |-> a.cursor, run |-> a.run,
                    got |-> a.got]
            /\ a.kind \in {"web", "api", "exporter"} /\ a.pc = "idle" /\ a.base = 0 /\ a.cursor = 0
            /\ a.run = first /\ a.got = none
        BY <4>2
      <4> HIDE DEF Started
      <4> QED
        BY <4>3 DEF Client
    <3> HIDE DEF Started
    <3> QED
      BY <3>2, <3>3
  <2>5. ASSUME NEW c \in Streams
        PROVE  ClientSound(c)
    <3>1. /\ client[c].got = <<>> /\ client[c].base = 0 /\ client[c].cursor = 0 /\ client[c].pc = "idle"
          /\ client[c].run \in Runs
      BY <2>3, <2>4 DEF Init
    <3>2. RowsOf(client[c].run) = <<>>
      BY <2>2, <3>1
    <3>3. /\ Len(<<>>) = 0 /\ SubSeq(<<>>, 1, 0) = <<>> /\ \A i \in 1..0 : FALSE
          /\ 0 + 0 = 0 /\ 0 + 1 = 1 /\ 0 <= 0
      OBVIOUS
    <3> QED
      BY <2>2, <3>1, <3>2, <3>3 DEF ClientSound
  <2>6. export \in Export /\ export.pc = "idle"
    BY <2>3, ReplayTyped DEF Init, Export
  <2> QED
    BY <2>1, <2>4, <2>5, <2>6 DEF StoreInv, TablesInv, TypeOK, ExportInv
<1>2. StoreInv /\ [Next]_vars => StoreInv'
  <2> SUFFICES ASSUME StoreInv, [Next]_vars
               PROVE  StoreInv'
    OBVIOUS
  <2>1. TablesInv /\ StreamInv /\ export \in Export /\ ExportInv
    BY DEF StoreInv, TablesInv, StreamInv, TypeOK
  <2>2. TablesInv' /\ StreamInv' /\ export' \in Export /\ ExportInv'
    BY <2>1, StepTables, StepStream, StepExport
  <2> QED
    BY <2>2 DEF StoreInv, TablesInv, StreamInv, TypeOK
<1> QED
  BY <1>1, <1>2, PTL DEF Spec

(* Every variable of the store and of the streams keeps its type           *)
(* (core.go:112-140, server.go:281-345).                                   *)
THEOREM StoreTypes == Spec => []TypeOK
<1>1. StoreInv => TypeOK
  BY DEF StoreInv
<1> QED
  BY <1>1, StoreInvariance, PTL

(* A server can be started again after any crash: OpenStore accepts what   *)
(* the tables hold (core.go:172-186).                                      *)
THEOREM TablesReopen == Spec => []Reopenable
<1>1. StoreInv => Reopenable
  BY DEF StoreInv, DiskInv, LogSound, Reopenable, Intact
<1> QED
  BY <1>1, StoreInvariance, PTL

(* The projection in SQLite is what a replay of the rows gives             *)
(* (core.go:256-260, 349-383).                                             *)
THEOREM ProjectionsAreReplays == Spec => []ProjectionIsReplay
<1>1. StoreInv => ProjectionIsReplay
  BY DEF StoreInv, DiskInv, LogSound, ProjectionIsReplay
<1> QED
  BY <1>1, StoreInvariance, PTL

(* What a stream has brought its client is a stretch of the log without    *)
(* gap or repetition, from where the client asked it to begin: per client  *)
(* for the API, per stream for the page (server.go:298-312, app.js:40-49). *)
THEOREM ClientsHoldTheLog == Spec => []HoldsTheLog
<1>1. StoreInv => HoldsTheLog
  <2> SUFFICES ASSUME StoreInv, NEW c \in Streams, client[c].got # <<>>
               PROVE  LET log == RowsOf(client[c].run)
                          n == client[c].base
                      IN /\ n + Len(client[c].got) <= Len(log)
                         /\ client[c].got = SubSeq(log, n + 1, n + Len(client[c].got))
    BY DEF HoldsTheLog
  <2>1. ClientSound(c)
    BY DEF StoreInv
  <2> QED
    BY <2>1 DEF ClientSound
<1> QED
  BY <1>1, StoreInvariance, PTL

(* A bundle that is verified is a prefix of the log with its status, and   *)
(* one that is not has been overtaken by an event or is larger than an     *)
(* import reads (bundle.go:50-110, server.go:107-113).                     *)
THEOREM ExportsAreSound == Spec => []ExportSound
<1>1. StoreInv => ExportSound
  <2> SUFFICES ASSUME StoreInv, export.pc = "done"
               PROVE  ExportSound
    BY DEF ExportSound
  <2>1. PICK x : x = export
    OBVIOUS
  <2>2. PICK log : log = RowsOf(x.run)
    OBVIOUS
  <2>3. PICK n : n = Len(x.events)
    OBVIOUS
  <2>4. x.run \in Runs /\ x.events \in Seq(Row) /\ n \in Nat /\ TablesInv
    BY <2>1, <2>3 DEF StoreInv, TypeOK, Export, TablesInv
  <2>5. /\ log \in Seq(Row) /\ Len(log) \in Nat
        /\ \A i \in 1..Len(log) : log[i].run = x.run /\ log[i].sequence = i
        /\ \A i, j \in 1..Len(log) : i < j => log[i].id < log[j].id
        /\ \A i \in 1..Len(log) : log[i].id \in i..Len(rows)
    BY <2>2, <2>4, LogFacts
  <2>6. /\ n <= Len(log) /\ x.events = SubSeq(log, 1, n)
        /\ Replay(x.events).status = ProjectStatus(x.events)
        /\ x.projection.steps \in n..Len(log)
        /\ x.projection.steps = n => x.projection = Replay(x.events)
    BY <2>1, <2>2, <2>3 DEF StoreInv, ExportInv
  <2>7. CASE Verified(x)
    <3>1. Digest(Replay(x.events)) = Digest(x.projection)
      BY <2>7 DEF Verified
    <3>2. x.projection.status = Replay(x.events).status
      BY <3>1 DEF Digest
    <3> QED
      BY <2>1, <2>2, <2>3, <2>6, <2>7, <3>2 DEF ExportSound
  <2>8. CASE ~Verified(x)
    <3>1. ASSUME ~(Len(log) > n), ~(n > MaxBundle)
          PROVE  FALSE
      <4>1. Len(log) = n /\ x.projection.steps = n
        BY <2>4, <2>5, <2>6, <3>1
      <4>2. x.projection = Replay(x.events) /\ x.events = log
        <5>1. SubSeq(log, 1, Len(log)) = log
          BY <2>5
        <5> QED
          BY <2>6, <4>1, <5>1
      <4>3. ASSUME NEW i \in 1..Len(log), NEW j \in 1..(i - 1)
            PROVE  log[j].id # log[i].id
        <5>1. j \in 1..Len(log) /\ j < i
          BY <2>5
        <5>2. log[j].id < log[i].id /\ log[i].id \in Nat /\ log[j].id \in Nat
          BY <2>5, <5>1
        <5> QED
          BY <5>2
      <4>4. DOMAIN log = 1..Len(log)
        BY <2>5
      <4>5. Len(x.events) <= MaxBundle
        BY <2>3, <2>4, <3>1, BacklogAssumption
      <4> QED
        BY <2>5, <2>8, <4>2, <4>3, <4>4, <4>5 DEF Verified
    <3> QED
      BY <2>1, <2>2, <2>3, <2>8, <3>1 DEF ExportSound
  <2> QED
    BY <2>7, <2>8
<1> QED
  BY <1>1, StoreInvariance, PTL

(* A server that begins to serve shows no run as running that it did not   *)
(* start, unless the mark failed (dispatch.go:40-47).                      *)
THEOREM RunsAreMarked == Spec => InterruptedRunsMarked
<1>1. StoreInv /\ [Next]_vars
        => [server = "recovering" /\ server' = "serving"
              => fatal # "none" \/ \A r \in runs : Replay(events[r]).status # "running"]_vars
  <2> SUFFICES ASSUME StoreInv, [Next]_vars, server = "recovering", server' = "serving", fatal = "none",
                      NEW r \in runs, Replay(events[r]).status = "running"
               PROVE  FALSE
    OBVIOUS
  <2>1. TablesInv /\ r \in Runs
    BY DEF StoreInv, TablesInv, TypeOK, StoreTypeOK
  <2>2. Serve
    <3>1. ASSUME StoreStep
          PROVE  Serve
      BY <3>1 DEF StoreStep, CreateRun, AppendEvent, AppendRefused, Handling, Publish, OpenStore,
                  RecoverInterrupted
    <3>2. CASE CrashAll \/ ExportProjection \/ UNCHANGED vars
      BY <3>2 DEF CrashAll, Crash, ExportProjection, Readable, vars
    <3>3. ASSUME NEW c \in Streams,
                 \/ StreamStep(c) \/ Keepalive(c) \/ Leave(c) \/ Resync(c)
                 \/ \E q \in Runs : Select(c, q) \/ ExportEvents(c, q)
          PROVE  FALSE
      BY <3>3 DEF StreamStep, Connect, Subscribe, Send, Wake, Keepalive, Leave, Resync, Select, ExportEvents,
                  Readable, serverVars
    <3> QED
      BY <3>1, <3>2, <3>3 DEF Next
  <2>3. recover = {} /\ Free
    BY <2>2 DEF Serve
  <2>4. diskRuns = runs /\ events[r] = RowsOf(r)
    BY <2>1, <2>3, MapsAreTables
  <2>5. projections[r].status # "running"
    BY <2>1, <2>3, <2>4 DEF TablesInv, RecoveryInv
  <2>6. projections[r] = Replay(RowsOf(r))
    BY <2>1 DEF TablesInv, DiskInv, LogSound
  <2> QED
    BY <2>4, <2>5, <2>6
<1> QED
  BY <1>1, StoreInvariance, PTL DEF Spec, InterruptedRunsMarked

-----------------------------------------------------------------------------
(* The store implements EventLog.                                          *)

(* How much of a run readers see: all but a write in progress.             *)
Visible(r) == IF server = "down" THEN Len(RowsOf(r)) ELSE Len(events[r])

VisibleInv ==
  \A r \in Runs : /\ ~WritesTo(r) => Visible(r) = Len(RowsOf(r))
                  /\ WritesTo(r) => Visible(r) = Len(RowsOf(r)) - 1

LEMMA VisibleIs == TablesInv => VisibleInv
<1> SUFFICES ASSUME TablesInv, NEW r \in Runs
             PROVE  /\ ~WritesTo(r) => Visible(r) = Len(RowsOf(r))
                    /\ WritesTo(r) => Visible(r) = Len(RowsOf(r)) - 1
  BY DEF VisibleInv
<1>1. CASE ~WritesTo(r)
  BY <1>1 DEF TablesInv, MemoryInv, Visible
<1>2. CASE WritesTo(r)
  <2>1. server # "down" /\ RowsOf(r) = Append(events[r], pending.row)
    BY <1>2 DEF TablesInv, MemoryInv, WritesTo
  <2>2. events[r] \in Seq(Row) /\ pending.row \in Row
    BY <1>2 DEF TablesInv, StoreTypeOK, WritesTo, Free, PendingWrite
  <2>3. Len(Append(events[r], pending.row)) = Len(events[r]) + 1 /\ Len(events[r]) \in Nat
    BY <2>2
  <2> QED
    BY <1>2, <2>1, <2>3 DEF Visible
<1> QED
  BY <1>1, <1>2

(* A step that writes no row ends the write in progress or leaves it.      *)
LEMMA WriteEnds ==
  ASSUME TablesInv, [Next]_vars, rows' = rows
  PROVE  (\A r \in Runs : WritesTo(r)' = WritesTo(r)) \/ (\A r \in Runs : ~WritesTo(r)')
<1>1. ASSUME pending' = pending
      PROVE  \A r \in Runs : WritesTo(r)' = WritesTo(r)
  BY <1>1 DEF WritesTo, Free
<1>2. ASSUME StoreStep
      PROVE  pending' = pending \/ \A r \in Runs : ~WritesTo(r)'
  <2>1. ASSUME NEW r \in Runs, CreateRun(r)
        PROVE  \A q \in Runs : ~WritesTo(q)'
    BY <2>1 DEF CreateRun, WritesTo
  <2>2. ASSUME Publish
        PROVE  \A q \in Runs : ~WritesTo(q)'
    BY <2>2 DEF Publish, WritesTo, Free
  <2>3. ASSUME NEW row, Commit(row)
        PROVE  FALSE
    <3>1. Len(Append(rows, row)) = Len(rows) + 1 /\ Len(rows) \in Nat
      BY DEF TablesInv, StoreTypeOK
    <3>2. rows = Append(rows, row)
      BY <2>3 DEF Commit
    <3>3. Len(rows) = Len(rows) + 1
      BY <3>1, <3>2
    <3> QED
      BY <3>1, <3>3
  <2>4. ASSUME NEW r \in Runs, NEW t \in Appended, AppendEvent(r, t)
        PROVE  FALSE
    BY <2>3, <2>4 DEF AppendEvent, Write
  <2>5. ASSUME NEW r \in Runs, RecoverInterrupted(r)
        PROVE  pending' = pending
    BY <2>3, <2>5 DEF RecoverInterrupted, Write, memoryVars
  <2>6. ASSUME AppendRefused \/ OpenStore \/ Serve
        PROVE  pending' = pending
    BY <2>6 DEF AppendRefused, OpenStore, Serve
  <2> QED
    BY <1>2, <2>1, <2>2, <2>4, <2>5, <2>6 DEF StoreStep
<1>3. ASSUME CrashAll
      PROVE  \A r \in Runs : ~WritesTo(r)'
  BY <1>3 DEF CrashAll, Crash, WritesTo, Free
<1>4. ASSUME NEW c \in Streams,
             \/ StreamStep(c) \/ Keepalive(c) \/ Leave(c) \/ Resync(c)
             \/ \E r \in Runs : Select(c, r) \/ ExportEvents(c, r)
      PROVE  pending' = pending
  BY <1>4 DEF StreamStep, Connect, Subscribe, Send, Wake, Keepalive, Leave, Resync, Select, ExportEvents,
              storeVars
<1>5. ASSUME ExportProjection \/ UNCHANGED vars
      PROVE  pending' = pending
  BY <1>5 DEF ExportProjection, storeVars, vars
<1>6. pending' = pending \/ \A r \in Runs : ~WritesTo(r)'
  BY <1>2, <1>3, <1>4, <1>5 DEF Next
<1> QED
  BY <1>1, <1>6

(* Only one run is written to at a time.                                   *)
LEMMA OneWrite ==
  ASSUME NEW q \in Runs, NEW r \in Runs, WritesTo(q), WritesTo(r)
  PROVE  q = r
BY DEF WritesTo

(* The types of the rows after one more row.                               *)
LEMMA TypesAppend ==
  ASSUME NEW s \in Seq(Row), NEW row \in Row
  PROVE  [i \in 1..Len(Append(s, row)) |-> Append(s, row)[i].type]
           = Append([i \in 1..Len(s) |-> s[i].type], row.type)
<1> DEFINE before == [i \in 1..Len(s) |-> s[i].type]
           after == [i \in 1..Len(Append(s, row)) |-> Append(s, row)[i].type]
           t == Append(before, row.type)
<1>1. /\ Len(s) \in Nat /\ Len(Append(s, row)) = Len(s) + 1 /\ Append(s, row)[Len(s) + 1] = row
      /\ \A i \in 1..Len(s) : Append(s, row)[i] = s[i] /\ s[i] \in Row
  OBVIOUS
<1>2. before \in Seq(Types) /\ Len(before) = Len(s) /\ \A i \in 1..Len(s) : before[i] = s[i].type
  BY <1>1 DEF Row
<1> HIDE DEF before
<1>3. row.type \in Types
  BY DEF Row
<1>4. /\ t \in Seq(Types) /\ Len(t) = Len(s) + 1 /\ t[Len(s) + 1] = row.type
      /\ \A i \in 1..Len(s) : t[i] = before[i]
  BY <1>1, <1>2, <1>3
<1>5. after = [i \in 1..(Len(s) + 1) |-> Append(s, row)[i].type]
  BY <1>1
<1>6. \A i \in 1..(Len(s) + 1) : i \in 1..Len(s) \/ i = Len(s) + 1
  BY <1>1
<1> HIDE DEF t
<1>7. \A i \in 1..(Len(s) + 1) : after[i] = t[i]
  BY <1>1, <1>2, <1>3, <1>4, <1>5, <1>6
<1>8. after \in Seq(Types) /\ Len(after) = Len(s) + 1
  <2>1. \A i \in 1..(Len(s) + 1) : after[i] \in Types
    BY <1>4, <1>7
  <2>2. after \in [1..(Len(s) + 1) -> Types]
    BY <1>5, <2>1
  <2> HIDE DEF after
  <2> QED
    BY <1>1, <2>2
<1> HIDE DEF after
<1>9. after = t
  BY <1>4, <1>7, <1>8, SeqEqual
<1> QED
  BY <1>9 DEF before, after, t

(* The two variables of EventLog, in the store.                            *)
Logs == [r \in Runs |-> LogOf(r)]
Shown == [r \in Runs |-> Visible(r)]

LEMMA StepKeepsPromise ==
  ASSUME TablesInv, TablesInv', [Next]_vars
  PROVE  [Promise!Next]_(Promise!vars)
<1>1. ASSUME Logs' = Logs, Shown' = Shown
      PROVE  [Promise!Next]_(Promise!vars)
  BY <1>1 DEF Logs, Shown, Visible, Promise!vars
<1>2. ASSUME NEW r \in Runs, NEW t \in Types,
             Logs' = [Logs EXCEPT ![r] = Append(@, t)], Shown' = Shown
      PROVE  [Promise!Next]_(Promise!vars)
  <2>1. Promise!Record(r, t)
    BY <1>2 DEF Logs, Shown, Visible, Promise!Record
  <2> QED
    BY <2>1 DEF Promise!Next
<1>3. ASSUME NEW r \in Runs, Shown[r] < Len(Logs[r]),
             Shown' = [Shown EXCEPT ![r] = Len(Logs[r])], Logs' = Logs
      PROVE  [Promise!Next]_(Promise!vars)
  <2>1. Promise!Show(r)
    BY <1>3 DEF Logs, Shown, Visible, Promise!Show
  <2> QED
    BY <2>1 DEF Promise!Next
<1>4. \A r \in Runs : RowsOf(r) \in Seq(Row) /\ Len(RowsOf(r)) \in Nat
  BY LogFacts
<1>5. ASSUME NEW r \in Runs
      PROVE  /\ ~WritesTo(r) => Visible(r) = Len(RowsOf(r))
             /\ WritesTo(r) => Visible(r) = Len(RowsOf(r)) - 1
             /\ ~WritesTo(r)' => Visible(r)' = Len(RowsOf(r)')
             /\ WritesTo(r)' => Visible(r)' = Len(RowsOf(r)') - 1
  <2>1. VisibleInv /\ VisibleInv'
    BY VisibleIs, PTL
  <2> QED
    BY <2>1 DEF VisibleInv
<1>6. CASE rows' = rows
  <2>1. \A r \in Runs : RowsOf(r)' = RowsOf(r)
    BY <1>6, RowsStay
  <2>2. Logs' = Logs
    BY <2>1 DEF Logs, LogOf
  <2>3. CASE \A r \in Runs : WritesTo(r)' = WritesTo(r)
    <3>1. \A r \in Runs : Visible(r)' = Visible(r)
      BY <1>5, <2>1, <2>3
    <3> QED
      BY <1>1, <2>2, <3>1 DEF Shown
  <2>4. CASE (\A r \in Runs : ~WritesTo(r)') /\ \A r \in Runs : ~WritesTo(r)
    <3>1. \A r \in Runs : Visible(r)' = Visible(r)
      BY <1>5, <2>1, <2>4
    <3> QED
      BY <1>1, <2>2, <3>1 DEF Shown
  <2>5. CASE (\A r \in Runs : ~WritesTo(r)') /\ \E r \in Runs : WritesTo(r)
    <3>1. PICK r \in Runs : WritesTo(r)
      BY <2>5
    <3>2. \A q \in Runs : Visible(q)' = IF q = r THEN Len(RowsOf(r)) ELSE Visible(q)
      BY <1>5, <2>1, <2>5, <3>1, OneWrite
    <3>3. Logs[r] = LogOf(r) /\ Len(LogOf(r)) = Len(RowsOf(r))
      BY <1>4 DEF Logs, LogOf
    <3>4. Shown[r] = Len(RowsOf(r)) - 1
      BY <1>5, <3>1 DEF Shown
    <3>5. Shown[r] < Len(Logs[r])
      BY <1>4, <3>3, <3>4
    <3>6. Shown' = [Shown EXCEPT ![r] = Len(Logs[r])]
      BY <3>2, <3>3 DEF Shown
    <3> QED
      BY <1>3, <2>2, <3>5, <3>6
  <2> QED
    BY <1>6, <2>3, <2>4, <2>5, WriteEnds
<1>7. CASE \E r \in runs, t \in Types : Free /\ server # "down" /\ Commit(RowFor(r, t))
  <2>1. PICK r \in runs, t \in Types : Free /\ server # "down" /\ Commit(RowFor(r, t))
    BY <1>7
  <2>2. PICK row : row = RowFor(r, t)
    OBVIOUS
  <2>3. r \in Runs /\ row \in Row /\ row # NoRow /\ row.run = r /\ row.type = t /\ rows \in Seq(Row)
    BY <2>2, RowForTyped DEF TablesInv, StoreTypeOK
  <2>4. rows' = Append(rows, row) /\ pending' = [run |-> r, row |-> row]
    BY <2>1, <2>2, <2>3 DEF Commit
  <2>5. \A q \in Runs : RowsOf(q)' = IF q = r THEN Append(RowsOf(q), row) ELSE RowsOf(q)
    BY <2>3, <2>4, RowsGrow
  <2>6. /\ \A q \in Runs : ~WritesTo(q)
        /\ \A q \in Runs : WritesTo(q)' <=> q = r
    <3>1. pending' \in PendingWrite
      BY <2>3, <2>4 DEF PendingWrite
    <3> QED
      BY <2>1, <2>3, <2>4, <3>1, NoneAssumption DEF WritesTo, Free
  <2>7. Len(Append(RowsOf(r), row)) = Len(RowsOf(r)) + 1
    BY <1>4, <2>3
  <2>8. ASSUME NEW q \in Runs
        PROVE  Visible(q)' = Visible(q)
    BY <1>4, <1>5, <2>5, <2>6, <2>7
  <2>9. Shown' = Shown
    BY <2>8 DEF Shown
  <2>10. LogOf(r)' = Append(LogOf(r), t)
    BY <1>4, <2>3, <2>5, TypesAppend DEF LogOf
  <2>11. \A q \in Runs \ {r} : LogOf(q)' = LogOf(q)
    BY <2>5 DEF LogOf
  <2>12. Logs' = [Logs EXCEPT ![r] = Append(@, t)]
    BY <2>3, <2>10, <2>11 DEF Logs
  <2> QED
    BY <1>2, <2>3, <2>9, <2>12
<1> QED
  BY <1>6, <1>7, StepRows

(* Disk and memory implement EventLog: an event is durable before it is    *)
(* shown, never changes, and what is shown never shrinks, not even over a  *)
(* crash (core.go:243-273).                                                *)
THEOREM LogRefinement == Spec => LogKept
<1>1. Init => Promise!Init
  <2> SUFFICES ASSUME Init
               PROVE  Promise!Init
    OBVIOUS
  <2>1. \A r \in Runs : RowsOf(r) = <<>> /\ events[r] = <<>>
    BY AmongNone DEF Init, StoreInit, RowsOf
  <2>2. Len(<<>>) = 0
    OBVIOUS
  <2>3. \A r \in Runs : LogOf(r) = <<>>
    BY <2>1, <2>2 DEF LogOf
  <2> QED
    BY <2>1, <2>2, <2>3 DEF Promise!Init
<1>2. StoreInv => TablesInv
  BY DEF StoreInv, TablesInv, TypeOK
<1>3. TablesInv /\ TablesInv' /\ [Next]_vars => [Promise!Next]_(Promise!vars)
  BY StepKeepsPromise
<1> QED
  BY <1>1, <1>2, <1>3, StoreInvariance, PTL DEF Spec, LogKept, Promise!Spec
=============================================================================
