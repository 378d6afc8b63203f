--------------------------- MODULE UndoRedoProofs ---------------------------
(***************************************************************************)
(* Proofs about UndoRedo, for any objects and projects and any number of   *)
(* snapshots: the representation stays valid, nothing leaks, a project     *)
(* that is not shown as modified is the one in its file, and the stack     *)
(* implements UndoHistory.                                                 *)
(*                                                                         *)
(* Times are never counted: that the finite sets of time stamps have a     *)
(* least and a greatest element is carried along as part of the invariant. *)
(***************************************************************************)
EXTENDS UndoRedo, TLAPS

-----------------------------------------------------------------------------
(* Histories *)

Data == {p[o] : p \in Projects, o \in Objects}
Interval == [begin : Nat, end : Nat, data : Data]

Covers(i, t) == i.begin <= t /\ t < i.end

Disjoint(h) ==
    /\ \A i \in h : i.begin < i.end
    /\ \A i, j \in h : i = j \/ i.end <= j.begin \/ j.end <= i.begin

\* The interval i is one of h, cut at the time t.
Cut(h, t, i) ==
    \E j \in h : /\ j.begin < t /\ i.begin = j.begin
                /\ j.data = i.data /\ i.end = Earlier(j.end, t)

\* The interval i holds the content d of the time c, and before t what h held.
Present(h, t, c, d, i) ==
    /\ d # Absent /\ i.data = d
    /\ i.begin <= c /\ i.end = c + 1
    /\ \A u \in Nat : u < t /\ Covers(i, u) => \E j \in h : Covers(j, u) /\ j.data = d

\* The content d is not that of the interval i, so that it is not continued.
Differs(o, d, i) == d = Absent \/ (o \notin Immutable /\ d # i.data)

\* The types of the fields of an interval.
LEMMA IntervalFields ==
    \A i \in Interval : i.begin \in Nat /\ i.end \in Nat /\ i.data \in Data
  BY DEF Interval

\* An interval that covers a time has the datum of that time.
LEMMA DatumOf ==
    ASSUME NEW h \in SUBSET Interval, Disjoint(h), NEW t \in Nat,
           NEW i \in h, Covers(i, t)
    PROVE  Datum(h, t) = i.data
<1> DEFINE j == CHOOSE k \in h : k.begin <= t /\ t < k.end
<1>1. j \in h /\ Covers(j, t)
  BY DEF Covers
<1>2. Datum(h, t) = j.data
  BY DEF Datum, Covers
<1> HIDE DEF j
<1>3. j = i
  BY <1>1, IntervalFields DEF Disjoint, Covers
<1> QED BY <1>2, <1>3

\* Two histories with the same intervals around a time have the same datum.
LEMMA SameDatum ==
    ASSUME NEW h \in SUBSET Interval, Disjoint(h), NEW g \in SUBSET Interval, Disjoint(g),
           NEW t \in Nat,
           \A i \in h : Covers(i, t) => \E j \in g : Covers(j, t) /\ j.data = i.data,
           \A j \in g : Covers(j, t) => \E i \in h : Covers(i, t)
    PROVE  Datum(g, t) = Datum(h, t)
<1>1. CASE \E i \in h : Covers(i, t)
  <2>1. PICK i \in h : Covers(i, t)
    BY <1>1
  <2>2. PICK j \in g : Covers(j, t) /\ j.data = i.data
    BY <2>1
  <2> QED BY <2>1, <2>2, DatumOf
<1>2. CASE ~\E i \in h : Covers(i, t)
  BY <1>2 DEF Datum, Covers
<1> QED BY <1>1, <1>2

\* What a release of the times from t on leaves.
LEMMA ReleaseAfterOK ==
    ASSUME NEW h \in SUBSET Interval, Disjoint(h), NEW t \in Nat,
           NEW g, g = ReleaseAfter(h, t)
    PROVE  /\ g \in SUBSET Interval /\ Disjoint(g)
           /\ \A i \in g : i.end <= t /\ Cut(h, t, i)
           /\ \A u \in Nat : u < t => Datum(g, u) = Datum(h, u)
<1>1. \A i \in g : \E j \in h : /\ j.begin < t
                                /\ i = [j EXCEPT !.end = Earlier(j.end, t)]
  BY DEF ReleaseAfter
<1>2. \A j \in h : j.begin < t => [j EXCEPT !.end = Earlier(j.end, t)] \in g
  BY DEF ReleaseAfter
<1>3. \A j \in h : LET i == [j EXCEPT !.end = Earlier(j.end, t)]
                   IN  /\ i \in Interval /\ i.begin = j.begin /\ i.data = j.data
                       /\ i.end = Earlier(j.end, t)
  BY DEF Interval, Earlier
<1>4. g \in SUBSET Interval
  BY <1>1, <1>3
<1>5. \A i \in g : i.end <= t /\ Cut(h, t, i)
  <2> SUFFICES ASSUME NEW i \in g PROVE i.end <= t /\ Cut(h, t, i)
    OBVIOUS
  <2>1. PICK j \in h : j.begin < t /\ i = [j EXCEPT !.end = Earlier(j.end, t)]
    BY <1>1
  <2>2. i.begin = j.begin /\ i.data = j.data /\ i.end = Earlier(j.end, t)
    BY <1>3, <2>1
  <2> QED BY <2>1, <2>2, IntervalFields DEF Earlier, Cut
<1>6. Disjoint(g)
  <2>1. ASSUME NEW i \in g PROVE i.begin < i.end
    <3>1. PICK j \in h : j.begin < t /\ i = [j EXCEPT !.end = Earlier(j.end, t)]
      BY <1>1
    <3>2. i.begin = j.begin /\ i.end = Earlier(j.end, t)
      BY <1>3, <3>1
    <3> QED BY <3>1, <3>2, IntervalFields DEF Disjoint, Earlier
  <2>2. ASSUME NEW i \in g, NEW k \in g PROVE i = k \/ i.end <= k.begin \/ k.end <= i.begin
    <3>1. PICK j \in h : j.begin < t /\ i = [j EXCEPT !.end = Earlier(j.end, t)]
      BY <1>1
    <3>2. PICK l \in h : l.begin < t /\ k = [l EXCEPT !.end = Earlier(l.end, t)]
      BY <1>1
    <3>3. /\ i.begin = j.begin /\ i.end = Earlier(j.end, t)
          /\ k.begin = l.begin /\ k.end = Earlier(l.end, t)
      BY <1>3, <3>1, <3>2
    <3>4. j = l => i = k
      BY <3>1, <3>2
    <3>5. j = l \/ j.end <= l.begin \/ l.end <= j.begin
      BY DEF Disjoint
    <3> QED BY <3>3, <3>4, <3>5, IntervalFields DEF Earlier
  <2> QED BY <2>1, <2>2 DEF Disjoint
<1>7. ASSUME NEW u \in Nat, u < t PROVE Datum(g, u) = Datum(h, u)
  <2>1. \A j \in h : LET i == [j EXCEPT !.end = Earlier(j.end, t)]
                     IN  Covers(j, u) <=> Covers(i, u)
    BY <1>3, <1>7, IntervalFields DEF Covers, Earlier
  <2>2. \A j \in h : Covers(j, u) => j.begin < t
    BY <1>7, IntervalFields DEF Covers
  <2>3. \A j \in h : Covers(j, u) => \E i \in g : Covers(i, u) /\ i.data = j.data
    BY <1>2, <1>3, <2>1, <2>2
  <2>4. \A i \in g : Covers(i, u) => \E j \in h : Covers(j, u)
    BY <1>1, <2>1
  <2> QED BY <1>4, <1>6, <2>3, <2>4, SameDatum
<1> QED BY <1>4, <1>5, <1>6, <1>7

\* What a release of the times before t leaves.
LEMMA ReleaseBeforeOK ==
    ASSUME NEW h \in SUBSET Interval, Disjoint(h), NEW t \in Nat,
           NEW g, g = ReleaseBefore(h, t)
    PROVE  /\ g \in SUBSET Interval /\ Disjoint(g)
           /\ \A i \in g : /\ i.end > t
                           /\ \E j \in h : /\ j.data = i.data /\ j.end = i.end
                                           /\ i.begin = Later(j.begin, t)
           /\ \A u \in Nat : t <= u => Datum(g, u) = Datum(h, u)
<1>1. \A i \in g : \E j \in h : j.end > t /\ i = [j EXCEPT !.begin = Later(j.begin, t)]
  BY DEF ReleaseBefore
<1>2. \A j \in h : j.end > t => [j EXCEPT !.begin = Later(j.begin, t)] \in g
  BY DEF ReleaseBefore
<1>3. \A j \in h : LET i == [j EXCEPT !.begin = Later(j.begin, t)]
                   IN  /\ i \in Interval /\ i.end = j.end /\ i.data = j.data
                       /\ i.begin = Later(j.begin, t)
  BY DEF Interval, Later
<1>4. g \in SUBSET Interval
  BY <1>1, <1>3
<1>5. \A i \in g : /\ i.end > t
                   /\ \E j \in h : /\ j.data = i.data /\ j.end = i.end
                                   /\ i.begin = Later(j.begin, t)
  <2> SUFFICES ASSUME NEW i \in g
               PROVE  /\ i.end > t
                      /\ \E j \in h : /\ j.data = i.data /\ j.end = i.end
                                      /\ i.begin = Later(j.begin, t)
    OBVIOUS
  <2>1. PICK j \in h : j.end > t /\ i = [j EXCEPT !.begin = Later(j.begin, t)]
    BY <1>1
  <2>2. i.end = j.end /\ i.data = j.data /\ i.begin = Later(j.begin, t)
    BY <1>3, <2>1
  <2> QED BY <2>1, <2>2
<1>6. Disjoint(g)
  <2>1. ASSUME NEW i \in g PROVE i.begin < i.end
    <3>1. PICK j \in h : j.end > t /\ i = [j EXCEPT !.begin = Later(j.begin, t)]
      BY <1>1
    <3>2. i.end = j.end /\ i.begin = Later(j.begin, t)
      BY <1>3, <3>1
    <3> QED BY <3>1, <3>2, IntervalFields DEF Disjoint, Later
  <2>2. ASSUME NEW i \in g, NEW k \in g PROVE i = k \/ i.end <= k.begin \/ k.end <= i.begin
    <3>1. PICK j \in h : j.end > t /\ i = [j EXCEPT !.begin = Later(j.begin, t)]
      BY <1>1
    <3>2. PICK l \in h : l.end > t /\ k = [l EXCEPT !.begin = Later(l.begin, t)]
      BY <1>1
    <3>3. /\ i.end = j.end /\ i.begin = Later(j.begin, t)
          /\ k.end = l.end /\ k.begin = Later(l.begin, t)
      BY <1>3, <3>1, <3>2
    <3>4. j = l => i = k
      BY <3>1, <3>2
    <3>5. j = l \/ j.end <= l.begin \/ l.end <= j.begin
      BY DEF Disjoint
    <3> QED BY <3>3, <3>4, <3>5, IntervalFields DEF Later
  <2> QED BY <2>1, <2>2 DEF Disjoint
<1>7. ASSUME NEW u \in Nat, t <= u PROVE Datum(g, u) = Datum(h, u)
  <2>1. \A j \in h : LET i == [j EXCEPT !.begin = Later(j.begin, t)]
                     IN  Covers(j, u) <=> Covers(i, u)
    BY <1>3, <1>7, IntervalFields DEF Covers, Later
  <2>2. \A j \in h : Covers(j, u) => j.end > t
    BY <1>7, IntervalFields DEF Covers
  <2>3. \A j \in h : Covers(j, u) => \E i \in g : Covers(i, u) /\ i.data = j.data
    BY <1>2, <1>3, <2>1, <2>2
  <2>4. \A i \in g : Covers(i, u) => \E j \in h : Covers(j, u)
    BY <1>1, <2>1
  <2> QED BY <1>4, <1>6, <2>3, <2>4, SameDatum
<1> QED BY <1>4, <1>5, <1>6, <1>7

\* Intervals that serve nothing outside a gap are not missed there.
LEMMA FilterOK ==
    ASSUME NEW h \in SUBSET Interval, Disjoint(h), NEW g \in SUBSET h
    PROVE  /\ g \in SUBSET Interval /\ Disjoint(g)
           /\ \A u \in Nat : (\A i \in h : Covers(i, u) => i \in g) => Datum(g, u) = Datum(h, u)
<1>1. g \in SUBSET Interval /\ Disjoint(g)
  BY DEF Disjoint
<1>2. ASSUME NEW u \in Nat, \A i \in h : Covers(i, u) => i \in g
      PROVE  Datum(g, u) = Datum(h, u)
  BY <1>1, <1>2, SameDatum
<1> QED BY <1>1, <1>2

\* After an object was saved its history has its content at that time, and
\* before it is what it was.
LEMMA SaveObjectOK ==
    ASSUME NEW h \in SUBSET Interval, Disjoint(h), NEW active \in Nat, NEW current \in Nat,
           active <= current, \A i \in h : i.end <= active, NEW o, NEW d \in Data,
           o \in Immutable => d \in {o, Absent} /\ \A i \in h : i.data = o,
           NEW g, g = SaveObject(h, o, d, active, current)
    PROVE  /\ g \in SUBSET Interval /\ Disjoint(g)
           /\ \A u \in Nat : u < active => Datum(g, u) = Datum(h, u)
           /\ d # Absent => Datum(g, current) = d
           /\ o \in Immutable => \A i \in g : i.data = o
           /\ \A i \in g : \/ i \in h /\ (i.end = active => Differs(o, d, i))
                           \/ Present(h, active, current, d, i)
<1> DEFINE last == {i \in h : i.end = active}
           back == CHOOSE i \in last : TRUE
           from == IF o \in Immutable \/ last # {} THEN active ELSE current
<1>0. /\ current + 1 \in Nat /\ current < current + 1 /\ active < current + 1
      /\ from \in {active, current} /\ active <= from /\ from \in Nat
  OBVIOUS
<1>1. CASE d = Absent
  <2>1. g = h
    BY <1>1 DEF SaveObject
  <2> QED BY <1>1, <2>1 DEF Differs
<1>2. CASE d # Absent /\ last # {} /\ (o \in Immutable \/ back.data = d)
  <2>1. back \in h /\ back.end = active
    BY <1>2
  <2> DEFINE new == [back EXCEPT !.end = current + 1]
  <2>2. g = (h \ {back}) \cup {new}
    BY <1>2 DEF SaveObject
  <2>3. /\ new \in Interval /\ new.begin = back.begin /\ new.end = current + 1
        /\ new.data = back.data
    BY <1>0, <2>1 DEF Interval
  <2>4. new.data = d /\ (o \in Immutable => new.data = o)
    BY <1>2, <2>1, <2>3
  <2>5. back.begin < active /\ back.begin \in Nat
    BY <2>1, IntervalFields DEF Disjoint
  <2> HIDE DEF new, last, back, from
  <2>6. g \in SUBSET Interval
    BY <2>2, <2>3
  <2>7. Disjoint(g)
    <3>1. new.begin < new.end
      BY <1>0, <2>3, <2>5
    <3>2. ASSUME NEW i \in h, i # back PROVE i.end <= new.begin
      BY <2>1, <2>3, <3>2, IntervalFields DEF Disjoint
    <3> QED BY <2>2, <3>1, <3>2 DEF Disjoint
  <2>8. ASSUME NEW u \in Nat, u < active PROVE Datum(g, u) = Datum(h, u)
    <3>1. Covers(back, u) <=> Covers(new, u)
      BY <1>0, <2>1, <2>3, <2>5, <2>8 DEF Covers
    <3>2. \A i \in h : Covers(i, u) => \E j \in g : Covers(j, u) /\ j.data = i.data
      BY <2>2, <2>3, <3>1
    <3>3. \A j \in g : Covers(j, u) => \E i \in h : Covers(i, u)
      BY <2>1, <2>2, <3>1
    <3> QED BY <2>6, <2>7, <2>8, <3>2, <3>3, SameDatum
  <2>9. Datum(g, current) = d
    <3>1. Covers(new, current)
      BY <1>0, <2>3, <2>5 DEF Covers
    <3> QED BY <2>2, <2>4, <2>6, <2>7, <3>1, DatumOf
  <2>10. ASSUME NEW i \in g
         PROVE  \/ i \in h /\ (i.end = active => Differs(o, d, i))
                \/ Present(h, active, current, d, i)
    <3>1. CASE i = new
      <4>1. \A u \in Nat : u < active /\ Covers(new, u) => Covers(back, u)
        BY <2>1, <2>3 DEF Covers
      <4>2. back.data = d
        BY <2>3, <2>4
      <4> QED BY <1>0, <1>2, <2>1, <2>3, <2>4, <2>5, <3>1, <4>1, <4>2 DEF Present
    <3>2. CASE i \in h /\ i # back
      <4>1. i.end # active
        BY <2>1, <2>5, <3>2, IntervalFields DEF Disjoint
      <4> QED BY <3>2, <4>1
    <3> QED BY <2>2, <3>1, <3>2
  <2> QED BY <2>2, <2>3, <2>4, <2>6, <2>7, <2>8, <2>9, <2>10
<1>3. CASE d # Absent /\ ~(last # {} /\ (o \in Immutable \/ back.data = d))
  <2> DEFINE new == [begin |-> from, end |-> current + 1, data |-> d]
  <2>2. g = h \cup {new}
    BY <1>3 DEF SaveObject
  <2>3. /\ new \in Interval /\ new.begin = from /\ new.end = current + 1 /\ new.data = d
    BY <1>0 DEF Interval
  <2> HIDE DEF new, last, back, from
  <2>6. g \in SUBSET Interval
    BY <2>2, <2>3
  <2>7. Disjoint(g)
    <3>1. new.begin < new.end
      BY <1>0, <2>3
    <3>2. ASSUME NEW i \in h PROVE i.end <= new.begin
      BY <1>0, <2>3, IntervalFields
    <3> QED BY <2>2, <3>1, <3>2 DEF Disjoint
  <2>8. ASSUME NEW u \in Nat, u < active PROVE Datum(g, u) = Datum(h, u)
    <3>1. ~Covers(new, u)
      BY <1>0, <2>3, <2>8 DEF Covers
    <3> QED BY <2>2, <2>6, <2>7, <2>8, <3>1, SameDatum
  <2>9. Datum(g, current) = d
    <3>1. Covers(new, current)
      BY <1>0, <2>3 DEF Covers
    <3> QED BY <2>2, <2>3, <2>6, <2>7, <3>1, DatumOf
  <2>10. o \in Immutable => new.data = o
    BY <1>3, <2>3
  <2>11. ASSUME NEW i \in g
         PROVE  \/ i \in h /\ (i.end = active => Differs(o, d, i))
                \/ Present(h, active, current, d, i)
    <3>1. CASE i = new
      <4>1. \A u \in Nat : u < active => ~Covers(new, u)
        BY <1>0, <2>3 DEF Covers
      <4>2. new.begin <= current
        BY <1>0, <2>3
      <4> QED BY <1>3, <2>3, <3>1, <4>1, <4>2 DEF Present
    <3>2. CASE i \in h /\ i.end # active
      BY <3>2
    <3>3. CASE i \in h /\ i.end = active
      <4>1. i \in last /\ last # {} /\ back \in last
        BY <3>3 DEF last, back
      <4>2. back = i
        BY <3>3, <4>1, IntervalFields DEF Disjoint, last
      <4> QED BY <1>3, <3>3, <4>1, <4>2 DEF Differs
    <3> QED BY <2>2, <3>1, <3>2, <3>3
  <2> QED BY <2>2, <2>3, <2>6, <2>7, <2>8, <2>9, <2>10, <2>11
<1> QED BY <1>1, <1>2, <1>3

-----------------------------------------------------------------------------
(* The invariants *)

Type == {"Action", "GizmoAction", "ProjectSeparator", "Selection",
         "EnteringGizmo", "LeavingGizmoWithAction"}
Snap == [type : Type, captured : BOOLEAN]

Stack ==
    [objects   : [Objects -> SUBSET Interval],
     snapshots : UNION {[T -> Snap] : T \in SUBSET Nat},
     active    : Nat,
     current   : Nat,
     saved     : Nat \cup {Unknown}]

Histories(s) ==
    \A o \in Objects : /\ Disjoint(s.objects[o])
                       /\ o \in Immutable => \A i \in s.objects[o] : i.data = o

\* What one would have from the finiteness of T.
Ordered(T) ==
    \A U \in SUBSET T : U # {} => /\ \E m \in U : \A t \in U : m <= t
                                  /\ \E m \in U : \A t \in U : t <= m

Kept(s) == {t \in Times(s) : s.snapshots[t].captured}

StackInv(s) ==
    /\ s \in Stack
    /\ Histories(s)
    /\ Ordered(Times(s))
    /\ s.active \in Times(s)
    /\ \E t \in Times(s) : t < s.active
    /\ \A t \in Times(s) : IF s.snapshots[t].captured THEN t < s.current
                           ELSE t = s.active /\ t = s.current /\ IsLast(s, t)

\* The state a snapshot stands for; the topmost one need not be captured yet.
StateAt(s, p, t) == IF s.snapshots[t].captured THEN Loaded(s, t) ELSE p

\* No snapshot from a on and before b modifies the project.
Quiet(s, a, b) ==
    \A t \in Times(s) : a <= t /\ t < b => ~ModifiesProject(TypeAt(s, t))

\* The histories hold the contents of the snapshots and nothing else: no
\* interval without one, and what is recorded at a snapshot it loads.
UsedInv(s) ==
    \A o \in Objects : \A i \in s.objects[o] :
        /\ i.data # Absent
        /\ i.end <= s.current
        /\ \E t \in Times(s) : Covers(i, t)
        /\ \A t \in Kept(s) : Covers(i, t) => Loaded(s, t)[o] = i.data

StateInv(s, p) ==
    /\ p \in Projects
    /\ UsedInv(s)
    /\ \A t \in Kept(s) : Loaded(s, t) \in Projects
    /\ StateAt(s, p, s.active) = p
    /\ \A a, b \in Times(s) :
          a < b /\ Quiet(s, a, b) => Scene(StateAt(s, p, a)) = Scene(StateAt(s, p, b))

\* The saved mark is on a snapshot of the state f, or unknown.
SavedOK(s, p, f) ==
    \/ s.saved = Unknown
    \/ s.saved \in Times(s) /\ Scene(StateAt(s, p, s.saved)) = f

IInv ==
    /\ StackInv(stack) /\ stack.current <= MaxTime
    /\ StateInv(stack, project)
    /\ ~moved => SavedOK(stack, project, file)
    /\ dirty = ProjectModified(stack)

-----------------------------------------------------------------------------
(* States and time stamps *)

\* The fields of a stack.
LEMMA StackFields ==
    ASSUME NEW s \in Stack
    PROVE  /\ s.objects \in [Objects -> SUBSET Interval]
           /\ \A o \in Objects : s.objects[o] \in SUBSET Interval
           /\ Times(s) \in SUBSET Nat
           /\ s.snapshots \in [Times(s) -> Snap]
           /\ \A t \in Times(s) : /\ s.snapshots[t] \in Snap
                                  /\ s.snapshots[t].captured \in BOOLEAN
                                  /\ TypeAt(s, t) \in Type
           /\ s.active \in Nat /\ s.current \in Nat /\ s.saved \in Nat \cup {Unknown}
<1>1. /\ s.objects \in [Objects -> SUBSET Interval]
      /\ s.snapshots \in UNION {[T -> Snap] : T \in SUBSET Nat}
      /\ s.active \in Nat /\ s.current \in Nat /\ s.saved \in Nat \cup {Unknown}
  BY DEF Stack
<1>2. PICK T \in SUBSET Nat : s.snapshots \in [T -> Snap]
  BY <1>1
<1>3. Times(s) = T
  BY <1>2 DEF Times
<1>4. \A t \in Times(s) : s.snapshots[t] \in Snap
  BY <1>2, <1>3
<1>5. \A x \in Snap : x.captured \in BOOLEAN /\ x.type \in Type
  BY DEF Snap
<1> QED BY <1>1, <1>2, <1>3, <1>4, <1>5 DEF TypeAt

\* The stack before the first snapshot.
LEMMA EmptyStack ==
    /\ Empty \in Stack /\ Histories(Empty) /\ Ordered(Times(Empty))
    /\ \A o \in Objects : Empty.objects[o] = {}
    /\ Times(Empty) = {} /\ Kept(Empty) = {}
    /\ Empty.active = 0 /\ Empty.current = 0 /\ Empty.saved = Unknown
<1>1. /\ Empty.objects = [o \in Objects |-> {}] /\ Empty.snapshots = [t \in {} |-> {}]
      /\ Empty.active = 0 /\ Empty.current = 0 /\ Empty.saved = Unknown
  BY DEF Empty
<1>2. Times(Empty) = {}
  BY <1>1 DEF Times
<1>3. Empty \in Stack
  <2>1. [t \in {} |-> {}] \in [{} -> Snap]
    OBVIOUS
  <2>2. [t \in {} |-> {}] \in UNION {[T -> Snap] : T \in SUBSET Nat}
    BY <2>1
  <2>3. [o \in Objects |-> {}] \in [Objects -> SUBSET Interval]
    OBVIOUS
  <2> QED BY <2>2, <2>3 DEF Stack, Empty
<1>4. Histories(Empty)
  BY <1>1 DEF Histories, Disjoint
<1>5. Ordered(Times(Empty)) /\ Kept(Empty) = {}
  BY <1>2 DEF Ordered, Kept
<1> QED BY <1>1, <1>2, <1>3, <1>4, <1>5

\* A project is what loads where its objects are recorded.
LEMMA LoadedIs ==
    ASSUME NEW s, NEW t, NEW p \in Projects,
           \A o \in Objects : p[o] # Absent => Datum(s.objects[o], t) = p[o]
    PROVE  Loaded(s, t) = p
<1>1. /\ p = [o \in Objects |-> p[o]]
      /\ p[Model] # Absent /\ p[Gizmos] # Absent
      /\ Model \in Objects /\ Gizmos \in Objects
      /\ \A o \in Objects \ {Model, Gizmos} : p[o] # Absent <=> o \in p[Model]
  BY UndoRedoAssumption
<1>2. Datum(s.objects[Model], t) = p[Model]
  BY <1>1
<1>3. Loaded(s, t) = [o \in Objects |-> IF o \in {Model, Gizmos} \cup p[Model]
                                        THEN Datum(s.objects[o], t) ELSE Absent]
  BY <1>1, <1>2 DEF Loaded
<1>4. \A o \in Objects : (IF o \in {Model, Gizmos} \cup p[Model]
                          THEN Datum(s.objects[o], t) ELSE Absent) = p[o]
  BY <1>1
<1>5. Loaded(s, t) = [o \in Objects |-> p[o]]
  BY <1>3, <1>4
<1> QED BY <1>1, <1>5

\* What is recorded alike loads alike.
LEMMA SameLoaded ==
    ASSUME NEW s, NEW r, NEW t,
           \A o \in Objects : Datum(r.objects[o], t) = Datum(s.objects[o], t)
    PROVE  Loaded(r, t) = Loaded(s, t)
<1>1. Datum(r.objects[Model], t) = Datum(s.objects[Model], t)
  BY UndoRedoAssumption
<1> QED BY <1>1 DEF Loaded

\* Subsets of an ordered set are ordered, and one time more does no harm.
LEMMA OrderedSubset ==
    ASSUME NEW T, Ordered(T), NEW U \in SUBSET T
    PROVE  Ordered(U)
  BY DEF Ordered

LEMMA OrderedAdd ==
    ASSUME NEW T \in SUBSET Nat, Ordered(T), NEW n \in Nat
    PROVE  Ordered(T \cup {n})
<1> SUFFICES ASSUME NEW U \in SUBSET (T \cup {n}), U # {}
             PROVE  /\ \E m \in U : \A t \in U : m <= t
                    /\ \E m \in U : \A t \in U : t <= m
  BY DEF Ordered
<1> DEFINE V == U \ {n}
<1>1. CASE V = {}
  <2>1. U = {n}
    BY <1>1
  <2> QED BY <2>1
<1>2. CASE V # {}
  <2>1. PICK a \in V : \A t \in V : a <= t
    BY <1>2 DEF Ordered
  <2>2. PICK b \in V : \A t \in V : t <= b
    BY <1>2 DEF Ordered
  <2>3. a \in Nat /\ b \in Nat /\ a \in U /\ b \in U /\ \A t \in U : t \in V \/ t = n
    OBVIOUS
  <2>4. \E m \in U : \A t \in U : m <= t
    BY <2>1, <2>3
  <2>5. \E m \in U : \A t \in U : t <= m
    BY <2>2, <2>3
  <2> QED BY <2>4, <2>5
<1> QED BY <1>1, <1>2

-----------------------------------------------------------------------------
(* Taking a snapshot *)

\* What a snapshot makes of the history of an object.
LEMMA TakeHistory ==
    ASSUME NEW s \in Stack, Histories(s), s.active <= s.current,
           NEW p \in Projects, NEW type, NEW o \in Objects
    PROVE  LET g == TakeSnapshot(s, p, type).objects[o]
               h == s.objects[o]
           IN  /\ g \in SUBSET Interval /\ Disjoint(g)
               /\ \A u \in Nat : u < s.active => Datum(g, u) = Datum(h, u)
               /\ p[o] # Absent => Datum(g, s.current) = p[o]
               /\ o \in Immutable => \A i \in g : i.data = o
               /\ \A i \in g :
                     \/ Cut(h, s.active, i) /\ (i.end = s.active => Differs(o, p[o], i))
                     \/ Present(h, s.active, s.current, p[o], i)
<1> DEFINE h == s.objects[o]
           b == ReleaseAfter(h, s.active)
           g == TakeSnapshot(s, p, type).objects[o]
           c == s.current
<1>1. h \in SUBSET Interval /\ Disjoint(h) /\ (o \in Immutable => \A i \in h : i.data = o)
  BY StackFields DEF Histories
<1>2. g = SaveObject(b, o, p[o], s.active, c)
  BY DEF TakeSnapshot
<1>3. p[o] \in Data /\ (o \in Immutable => p[o] \in {o, Absent})
  <2>1. p[o] \in Data
    BY DEF Data
  <2>2. o \in Immutable => p[o] \in {o, Absent}
    BY UndoRedoAssumption
  <2> QED BY <2>1, <2>2
<1>4. b = ReleaseAfter(h, s.active) /\ s.active \in Nat /\ c \in Nat
  BY StackFields
<1> HIDE DEF h, b, g, c
<1>5. /\ b \in SUBSET Interval /\ Disjoint(b)
      /\ \A i \in b : i.end <= s.active /\ Cut(h, s.active, i)
      /\ \A u \in Nat : u < s.active => Datum(b, u) = Datum(h, u)
  BY <1>1, <1>4, ReleaseAfterOK
<1>6. o \in Immutable => \A i \in b : i.data = o
  BY <1>1, <1>5 DEF Cut
<1>7. s.active <= c
  BY DEF c
<1>8. /\ g \in SUBSET Interval /\ Disjoint(g)
      /\ \A u \in Nat : u < s.active => Datum(g, u) = Datum(b, u)
      /\ p[o] # Absent => Datum(g, c) = p[o]
      /\ o \in Immutable => \A i \in g : i.data = o
      /\ \A i \in g : \/ i \in b /\ (i.end = s.active => Differs(o, p[o], i))
                      \/ Present(b, s.active, c, p[o], i)
  BY <1>2, <1>3, <1>4, <1>5, <1>6, <1>7, SaveObjectOK
<1>9. ASSUME NEW i \in g
      PROVE  \/ Cut(h, s.active, i) /\ (i.end = s.active => Differs(o, p[o], i))
             \/ Present(h, s.active, c, p[o], i)
  <2>1. CASE i \in b /\ (i.end = s.active => Differs(o, p[o], i))
    BY <1>5, <2>1
  <2>2. CASE Present(b, s.active, c, p[o], i)
    <3>1. ASSUME NEW u \in Nat, u < s.active, Covers(i, u)
          PROVE  \E j \in h : Covers(j, u) /\ j.data = p[o]
      <4>1. PICK k \in b : Covers(k, u) /\ k.data = p[o]
        BY <2>2, <3>1 DEF Present
      <4>2. PICK j \in h : /\ k.begin = j.begin /\ j.data = k.data
                          /\ k.end = Earlier(j.end, s.active)
        BY <1>5 DEF Cut
      <4>3. Covers(j, u)
        BY <1>1, <1>4, <4>1, <4>2, IntervalFields DEF Covers, Earlier
      <4> QED BY <4>1, <4>2, <4>3
    <3> QED BY <2>2, <3>1 DEF Present
  <2> QED BY <1>8, <2>1, <2>2
<1> QED BY <1>5, <1>8, <1>9 DEF g, h, c

\* The project the snapshot was taken of is what it loads.
LEMMA TakeLoads ==
    ASSUME NEW s \in Stack, Histories(s), s.active <= s.current,
           NEW p \in Projects, NEW type
    PROVE  Loaded(TakeSnapshot(s, p, type), s.current) = p
  BY TakeHistory, LoadedIs

\* What a snapshot leaves and adds.
LEMMA TakeOK ==
    ASSUME NEW s \in Stack, Histories(s), s.active <= s.current,
           NEW p \in Projects, NEW type \in Type
    PROVE  LET r == TakeSnapshot(s, p, type) IN
           /\ r.objects \in [Objects -> SUBSET Interval] /\ Histories(r)
           /\ r.snapshots \in [Times(r) -> Snap]
           /\ r.active = s.current + 1 /\ r.current = s.current + 1
           /\ Times(r) = {u \in Times(s) : u < s.active} \cup {s.current, s.current + 1}
           /\ \A u \in Times(s) : u < s.active => r.snapshots[u] = s.snapshots[u]
           /\ \A u \in Times(s) : u < s.active => Loaded(r, u) = Loaded(s, u)
           /\ r.snapshots[s.current] = [type |-> type, captured |-> TRUE]
           /\ r.snapshots[s.current + 1] = [type |-> type, captured |-> FALSE]
<1> DEFINE r == TakeSnapshot(s, p, type)
           c == s.current
           released == {t \in Times(s) : t >= s.active}
           taken == {c, c + 1}
           before(o) == ReleaseAfter(s.objects[o], s.active)
           after(o) == SaveObject(before(o), o, p[o], s.active, c)
           topmostSaved == released # {} /\ s.active = s.saved /\ IsLast(s, s.active)
<1>1. /\ \A o \in Objects : s.objects[o] \in SUBSET Interval
      /\ Times(s) \in SUBSET Nat /\ s.snapshots \in [Times(s) -> Snap]
      /\ s.active \in Nat /\ c \in Nat
  BY StackFields
<1>2. /\ r.objects = [o \in Objects |-> after(o)]
      /\ r.snapshots = [t \in (Times(s) \ released) \cup taken |->
                          IF t \in taken THEN [type |-> type, captured |-> t = c]
                                         ELSE s.snapshots[t]]
      /\ r.active = c + 1 /\ r.current = c + 1
  BY DEF TakeSnapshot
<1> HIDE DEF r
<1>3. Times(r) = (Times(s) \ released) \cup taken
  BY <1>2 DEF Times
<1>4. Times(s) \ released = {u \in Times(s) : u < s.active}
  BY <1>1
<1>5. \A t \in {u \in Times(s) : u < s.active} : t # c /\ t # c + 1
  BY <1>1
<1>6. \A u \in Times(s) : u < s.active => r.snapshots[u] = s.snapshots[u]
  BY <1>2, <1>4, <1>5
<1>7. /\ r.snapshots[c] = [type |-> type, captured |-> TRUE]
      /\ r.snapshots[c + 1] = [type |-> type, captured |-> FALSE]
  <2>1. c + 1 # c
    BY <1>1
  <2> HIDE DEF c
  <2>2. r.snapshots[c] = [type |-> type, captured |-> c = c]
    BY <1>2
  <2>3. r.snapshots[c + 1] = [type |-> type, captured |-> c + 1 = c]
    BY <1>2
  <2>4. (c = c) = TRUE /\ (c + 1 = c) = FALSE
    BY <2>1
  <2> QED BY <2>2, <2>3, <2>4
<1>8. r.snapshots \in [Times(r) -> Snap]
  <2>1. \A t \in Times(r) : r.snapshots[t] \in Snap
    <3> SUFFICES ASSUME NEW t \in Times(r) PROVE r.snapshots[t] \in Snap
      OBVIOUS
    <3>1. CASE t \in taken
      <4>1. [type |-> type, captured |-> TRUE] \in Snap /\ [type |-> type, captured |-> FALSE] \in Snap
        BY DEF Snap
      <4> QED BY <3>1, <4>1, <1>7
    <3>2. CASE t \in {u \in Times(s) : u < s.active}
      BY <3>2, <1>1, <1>6
    <3> QED BY <3>1, <3>2, <1>3, <1>4
  <2>2. r.snapshots = [t \in Times(r) |-> r.snapshots[t]]
    BY <1>2, <1>3
  <2> QED BY <2>1, <2>2
<1>9. ASSUME NEW o \in Objects
      PROVE  LET g == r.objects[o] h == s.objects[o] IN
             /\ g \in SUBSET Interval /\ Disjoint(g)
             /\ \A u \in Nat : u < s.active => Datum(g, u) = Datum(h, u)
             /\ o \in Immutable => \A i \in g : i.data = o
  BY TakeHistory DEF r
<1>10. r.objects \in [Objects -> SUBSET Interval] /\ Histories(r)
  BY <1>2, <1>9 DEF Histories
<1>11. \A u \in Nat : u < s.active => Loaded(r, u) = Loaded(s, u)
  BY <1>9, SameLoaded
<1> QED BY <1>1, <1>2, <1>3, <1>4, <1>6, <1>7, <1>8, <1>9, <1>10, <1>11 DEF r

\* The mark stays on a time stamp or is lost.
LEMMA TakeSaved ==
    ASSUME NEW s \in Stack, Ordered(Times(s)), NEW p, NEW type,
           s.saved \in Times(s) => \E u \in Times(s) : u < s.active
    PROVE  LET r == TakeSnapshot(s, p, type) IN
           /\ r.saved \in Nat \cup {Unknown}
           /\ ~MarkReleased(s) =>
                 r.saved = IF s.saved = s.active /\ s.active \in Times(s) THEN s.current ELSE s.saved
<1> DEFINE released == {t \in Times(s) : t >= s.active}
           topmostSaved == released # {} /\ s.active = s.saved /\ IsLast(s, s.active)
           r == TakeSnapshot(s, p, type)
           rest == {t \in Times(s) : \A u \in released : t < u}
<1>1. r.saved = IF topmostSaved THEN s.current ELSE SavedAfterRelease(s, released, FALSE)
  BY DEF TakeSnapshot
<1>2. /\ Times(s) \in SUBSET Nat
      /\ s.active \in Nat /\ s.current \in Nat /\ s.saved \in Nat \cup {Unknown}
  BY StackFields
<1>3. SavedAfterRelease(s, released, FALSE) \in {s.saved, Max(rest), Unknown}
  BY DEF SavedAfterRelease
<1>4. ASSUME s.saved \in released PROVE Max(rest) \in Nat
  <2>1. PICK u \in Times(s) : u < s.active
    BY <1>4
  <2>2. u \in rest /\ rest \in SUBSET Times(s)
    BY <1>2, <2>1
  <2>3. PICK m \in rest : \A t \in rest : t <= m
    BY <2>2 DEF Ordered
  <2>4. Max(rest) \in rest
    BY <2>3 DEF Max
  <2> QED BY <1>2, <2>2, <2>4
<1>5. s.saved \notin released => SavedAfterRelease(s, released, FALSE) = s.saved
  BY DEF SavedAfterRelease
<1>6. r.saved \in Nat \cup {Unknown}
  BY <1>1, <1>2, <1>3, <1>4, <1>5
<1>7. ASSUME ~MarkReleased(s)
      PROVE  r.saved = IF s.saved = s.active /\ s.active \in Times(s) THEN s.current ELSE s.saved
  <2>1. Unknown \notin Nat /\ Unknown # s.active /\ \A t \in released : t # Unknown
    BY <1>2 DEF Unknown
  <2>2. CASE s.saved = Unknown
    <3>1. s.saved \notin released /\ ~topmostSaved /\ s.saved # s.active
      BY <2>1, <2>2
    <3> QED BY <1>1, <1>5, <3>1
  <2>3. CASE s.saved # Unknown /\ s.saved < s.active
    <3>1. s.saved \notin released /\ s.saved # s.active
      BY <1>2, <2>3
    <3> QED BY <1>1, <1>5, <3>1
  <2>4. CASE s.saved = s.active /\ IsLast(s, s.active)
    <3>1. CASE s.active \in Times(s)
      <4>1. s.active \in released
        BY <1>2, <3>1
      <4> QED BY <1>1, <2>4, <3>1, <4>1
    <3>2. CASE s.active \notin Times(s)
      <4>1. released = {}
        BY <1>2, <2>4, <3>2 DEF IsLast
      <4> QED BY <1>1, <1>5, <2>4, <3>2, <4>1
    <3> QED BY <3>1, <3>2
  <2>5. s.saved # Unknown => s.saved < s.active \/ (s.saved = s.active /\ IsLast(s, s.active))
    BY <1>2, <1>7 DEF MarkReleased
  <2> QED BY <2>2, <2>3, <2>4, <2>5
<1> QED BY <1>6, <1>7

\* A snapshot of a valid stack makes a valid stack, and so does the first one.
LEMMA TakeValid ==
    ASSUME NEW s, StackInv(s) \/ s = Empty, NEW p \in Projects, NEW type \in Type
    PROVE  StackInv(TakeSnapshot(s, p, type))
<1> DEFINE r == TakeSnapshot(s, p, type)
           c == s.current
<1>1. /\ s \in Stack /\ Histories(s) /\ Ordered(Times(s))
      /\ s.active <= c
      /\ \A u \in Times(s) : u < s.active => s.snapshots[u].captured /\ u < c
      /\ s.saved \in Times(s) => \E u \in Times(s) : u < s.active
  <2>1. CASE StackInv(s)
    <3>1. /\ s \in Stack /\ Histories(s) /\ Ordered(Times(s)) /\ s.active \in Times(s)
          /\ \E t \in Times(s) : t < s.active
          /\ \A t \in Times(s) : IF s.snapshots[t].captured THEN t < s.current
                                 ELSE t = s.active /\ t = s.current /\ IsLast(s, t)
      BY <2>1 DEF StackInv
    <3>2. Times(s) \in SUBSET Nat /\ s.active \in Nat /\ c \in Nat
      BY <3>1, StackFields
    <3>3. s.active <= c
      BY <3>1, <3>2
    <3>4. \A u \in Times(s) : u < s.active => s.snapshots[u].captured /\ u < c
      BY <3>1, <3>2
    <3> QED BY <3>1, <3>3, <3>4
  <2>2. CASE s = Empty
    BY <2>2, EmptyStack
  <2> QED BY <2>1, <2>2
<1>2. /\ Times(s) \in SUBSET Nat /\ s.active \in Nat /\ c \in Nat
      /\ \A o \in Objects : s.objects[o] \in SUBSET Interval
  BY <1>1, StackFields
<1>3. /\ r.objects \in [Objects -> SUBSET Interval] /\ Histories(r)
      /\ r.snapshots \in [Times(r) -> Snap]
      /\ r.active = c + 1 /\ r.current = c + 1
      /\ Times(r) = {u \in Times(s) : u < s.active} \cup {c, c + 1}
      /\ \A u \in Times(s) : u < s.active => r.snapshots[u] = s.snapshots[u]
      /\ r.snapshots[c] = [type |-> type, captured |-> TRUE]
      /\ r.snapshots[c + 1] = [type |-> type, captured |-> FALSE]
  BY <1>1, TakeOK
<1>4. r.saved \in Nat \cup {Unknown}
  BY <1>1, TakeSaved
<1>5. r \in Stack
  <2>1. Times(r) \in SUBSET Nat
    BY <1>2, <1>3
  <2>2. r.snapshots \in UNION {[T -> Snap] : T \in SUBSET Nat}
    BY <1>3, <2>1
  <2>3. r.active \in Nat /\ r.current \in Nat
    BY <1>2, <1>3
  <2>4. r = [objects |-> r.objects, snapshots |-> r.snapshots, active |-> r.active,
             current |-> r.current, saved |-> r.saved]
    BY DEF TakeSnapshot
  <2> HIDE DEF r
  <2> QED BY <1>3, <1>4, <2>2, <2>3, <2>4 DEF Stack
<1> HIDE DEF r
<1>6. Ordered(Times(r))
  <2> DEFINE T == {u \in Times(s) : u < s.active}
  <2>1. Ordered(T) /\ T \in SUBSET Nat
    BY <1>1, <1>2, OrderedSubset
  <2> HIDE DEF T
  <2>2. Ordered(T \cup {c}) /\ T \cup {c} \in SUBSET Nat
    BY <1>2, <2>1, OrderedAdd
  <2>3. Ordered((T \cup {c}) \cup {c + 1})
    BY <1>2, <2>2, OrderedAdd
  <2>4. Times(r) = (T \cup {c}) \cup {c + 1}
    BY <1>3 DEF T
  <2> QED BY <2>3, <2>4
<1>7. /\ r.active \in Times(r) /\ \E t \in Times(r) : t < r.active
  <2>1. c \in Times(r) /\ c < c + 1
    BY <1>2, <1>3
  <2> QED BY <1>3, <2>1
<1>8. ASSUME NEW t \in Times(r)
      PROVE  IF r.snapshots[t].captured THEN t < r.current
             ELSE t = r.active /\ t = r.current /\ IsLast(r, t)
  <2>1. CASE t \in Times(s) /\ t < s.active
    BY <1>1, <1>2, <1>3, <2>1
  <2>2. CASE t = c
    BY <1>2, <1>3, <2>2
  <2>3. CASE t = c + 1
    <3>1. ~r.snapshots[t].captured
      BY <1>3, <2>3
    <3>2. IsLast(r, t)
      BY <1>1, <1>2, <1>3, <2>3 DEF IsLast
    <3> QED BY <1>3, <2>3, <3>1, <3>2
  <2> QED BY <1>3, <2>1, <2>2, <2>3
<1> QED BY <1>3, <1>5, <1>6, <1>7, <1>8 DEF StackInv, r

\* What a snapshot records is needed by a snapshot: an interval that was cut at
\* the active one is continued, or served an earlier one.
LEMMA TakeUsed ==
    ASSUME NEW s, NEW p \in Projects, (StackInv(s) /\ StateInv(s, p)) \/ s = Empty,
           NEW type \in Type
    PROVE  UsedInv(TakeSnapshot(s, p, type))
<1> DEFINE r == TakeSnapshot(s, p, type)
           c == s.current
<1>1. /\ s \in Stack /\ Histories(s) /\ s.active <= c /\ UsedInv(s)
      /\ \A u \in Times(s) : u < s.active => u \in Kept(s)
      /\ \/ /\ s.active \in Times(s)
            /\ s.active < c => s.active \in Kept(s) /\ Loaded(s, s.active) = p
         \/ \A o \in Objects : s.objects[o] = {}
  <2>1. CASE StackInv(s) /\ StateInv(s, p)
    <3>1. /\ s \in Stack /\ Histories(s) /\ s.active \in Times(s)
          /\ \A t \in Times(s) : IF s.snapshots[t].captured THEN t < s.current
                                 ELSE t = s.active /\ t = s.current /\ IsLast(s, t)
      BY <2>1 DEF StackInv
    <3>2. Times(s) \in SUBSET Nat /\ s.active \in Nat /\ c \in Nat
      BY <3>1, StackFields
    <3>3. s.active <= c
      BY <3>1, <3>2
    <3>4. \A u \in Times(s) : u < s.active => u \in Kept(s)
      BY <3>1, <3>2 DEF Kept
    <3>5. s.active < c => s.active \in Kept(s) /\ Loaded(s, s.active) = p
      BY <2>1, <3>1, <3>2 DEF Kept, StateInv, StateAt
    <3> QED BY <2>1, <3>1, <3>3, <3>4, <3>5 DEF StateInv
  <2>2. CASE s = Empty
    BY <2>2, EmptyStack DEF UsedInv
  <2> QED BY <2>1, <2>2
<1>2. /\ Times(s) \in SUBSET Nat /\ s.active \in Nat /\ c \in Nat
      /\ \A o \in Objects : s.objects[o] \in SUBSET Interval
  BY <1>1, StackFields
<1>3. /\ r.current = c + 1
      /\ Times(r) = {u \in Times(s) : u < s.active} \cup {c, c + 1}
      /\ \A u \in Times(s) : u < s.active => Loaded(r, u) = Loaded(s, u)
      /\ r.snapshots[c + 1] = [type |-> type, captured |-> FALSE]
      /\ Loaded(r, c) = p
  <2>1. /\ r.current = c + 1
        /\ Times(r) = {u \in Times(s) : u < s.active} \cup {c, c + 1}
        /\ \A u \in Times(s) : u < s.active => Loaded(r, u) = Loaded(s, u)
        /\ r.snapshots[c + 1] = [type |-> type, captured |-> FALSE]
    <3>1. s \in Stack /\ Histories(s) /\ s.active <= s.current
      BY <1>1
    <3> QED BY <3>1, TakeOK
  <2>2. Loaded(r, c) = p
    BY <1>1, TakeLoads
  <2> QED BY <2>1, <2>2
<1>4. \A u \in Kept(r) : u = c \/ (u < s.active /\ u \in Kept(s) /\ Loaded(r, u) = Loaded(s, u))
  BY <1>1, <1>3 DEF Kept
<1> SUFFICES ASSUME NEW o \in Objects, NEW i \in r.objects[o]
             PROVE  /\ i.data # Absent /\ i.end <= r.current
                    /\ \E t \in Times(r) : Covers(i, t)
                    /\ \A t \in Kept(r) : Covers(i, t) => Loaded(r, t)[o] = i.data
  BY DEF UsedInv
<1> DEFINE h == s.objects[o]
<1>5. /\ r.objects[o] \in SUBSET Interval
      /\ \/ Cut(h, s.active, i) /\ (i.end = s.active => Differs(o, p[o], i))
         \/ Present(h, s.active, c, p[o], i)
  BY <1>1, TakeHistory
<1>6. i.begin \in Nat /\ i.end \in Nat
  BY <1>5, IntervalFields
<1> HIDE DEF r
<1>7. CASE Cut(h, s.active, i) /\ (i.end = s.active => Differs(o, p[o], i))
  <2>1. PICK j \in h : /\ j.begin < s.active /\ i.begin = j.begin
                      /\ j.data = i.data /\ i.end = Earlier(j.end, s.active)
    BY <1>7 DEF Cut
  <2>2. /\ j.begin \in Nat /\ j.end \in Nat /\ s.active \in Times(s)
        /\ s.active < c => s.active \in Kept(s) /\ Loaded(s, s.active) = p
    BY <1>1, <1>2, IntervalFields
  <2>3. /\ j.data # Absent /\ j.end <= c
        /\ \E t \in Times(s) : Covers(j, t)
        /\ \A t \in Kept(s) : Covers(j, t) => Loaded(s, t)[o] = j.data
    BY <1>1 DEF UsedInv
  <2>4. j.end <= s.active
    <3> SUFFICES ASSUME s.active < j.end PROVE FALSE
      BY <1>2, <2>2
    <3>1. Covers(j, s.active) /\ s.active < c /\ i.end = s.active
      BY <1>2, <2>1, <2>2, <2>3 DEF Covers, Earlier
    <3>2. p[o] = j.data
      BY <2>2, <2>3, <3>1
    <3> QED BY <1>7, <2>1, <2>3, <3>1, <3>2 DEF Differs
  <2>5. i.end = j.end /\ \A t \in Nat : Covers(i, t) <=> Covers(j, t)
    BY <1>2, <2>1, <2>2, <2>4 DEF Covers, Earlier
  <2>6. PICK t \in Times(s) : Covers(j, t)
    BY <2>3
  <2>7. t \in Times(r) /\ Covers(i, t)
    BY <1>2, <1>3, <2>2, <2>4, <2>5, <2>6 DEF Covers
  <2>8. i.end <= r.current
    BY <1>1, <1>2, <1>3, <2>2, <2>4, <2>5
  <2>9. ASSUME NEW u \in Kept(r), Covers(i, u) PROVE Loaded(r, u)[o] = i.data
    <3>1. u # c
      BY <1>1, <1>2, <2>2, <2>4, <2>5, <2>9 DEF Covers
    <3>2. u \in Kept(s) /\ u \in Nat /\ Loaded(r, u) = Loaded(s, u)
      BY <1>2, <1>4, <3>1 DEF Kept
    <3> QED BY <2>1, <2>3, <2>5, <2>9, <3>2
  <2> QED BY <2>1, <2>3, <2>7, <2>8, <2>9
<1>8. CASE Present(h, s.active, c, p[o], i)
  <2>1. /\ p[o] # Absent /\ i.data = p[o]
        /\ i.begin <= c /\ i.end = c + 1
        /\ \A u \in Nat : u < s.active /\ Covers(i, u) => \E j \in h : Covers(j, u) /\ j.data = p[o]
    BY <1>8 DEF Present
  <2>2. i.end <= r.current
    BY <1>2, <1>3, <2>1
  <2>3. c \in Times(r) /\ Covers(i, c)
    BY <1>2, <1>3, <1>6, <2>1 DEF Covers
  <2>4. ASSUME NEW u \in Kept(r), Covers(i, u) PROVE Loaded(r, u)[o] = i.data
    <3>1. CASE u = c
      BY <1>3, <2>1, <3>1
    <3>2. CASE u < s.active /\ u \in Kept(s) /\ Loaded(r, u) = Loaded(s, u)
      <4>1. u \in Nat
        BY <1>2, <3>2 DEF Kept
      <4>2. PICK j \in h : Covers(j, u) /\ j.data = p[o]
        BY <2>1, <2>4, <3>2, <4>1
      <4>3. Loaded(s, u)[o] = j.data
        BY <1>1, <3>2, <4>2 DEF UsedInv
      <4> QED BY <2>1, <3>2, <4>2, <4>3
    <3> QED BY <1>4, <3>1, <3>2
  <2> QED BY <2>1, <2>2, <2>3, <2>4
<1> QED BY <1>5, <1>7, <1>8

\* A snapshot of p and a change to q that it allows keep the states.
LEMMA TakeStates ==
    ASSUME NEW s, NEW p \in Projects, (StackInv(s) /\ StateInv(s, p)) \/ s = Empty,
           NEW q \in Projects, NEW type \in Type,
           ~ModifiesProject(type) => Scene(q) = Scene(p)
    PROVE  LET r == TakeSnapshot(s, p, type) IN
           /\ StateInv(r, q)
           /\ s.current \in Kept(r) /\ Loaded(r, s.current) = p
           /\ \A u \in Kept(r) : \/ u = s.current
                                 \/ u \in Kept(s) /\ u < s.active /\ Loaded(r, u) = Loaded(s, u)
<1> DEFINE r == TakeSnapshot(s, p, type)
           c == s.current
<1>1. /\ s \in Stack /\ Histories(s) /\ s.active <= c
      /\ \A u \in Times(s) : u < s.active => s.snapshots[u].captured /\ Loaded(s, u) \in Projects
      /\ \A a, b \in Times(s) :
            a < b /\ b < s.active /\ Quiet(s, a, b) => Scene(Loaded(s, a)) = Scene(Loaded(s, b))
      /\ \A a \in Times(s) : a < s.active /\ Quiet(s, a, s.active) => Scene(Loaded(s, a)) = Scene(p)
  <2>1. CASE StackInv(s) /\ StateInv(s, p)
    <3>1. /\ s \in Stack /\ Histories(s) /\ s.active \in Times(s)
          /\ \A t \in Times(s) : IF s.snapshots[t].captured THEN t < s.current
                                 ELSE t = s.active /\ t = s.current /\ IsLast(s, t)
      BY <2>1 DEF StackInv
    <3>2. Times(s) \in SUBSET Nat /\ s.active \in Nat /\ c \in Nat
      BY <3>1, StackFields
    <3>3. s.active <= c
      BY <3>1, <3>2
    <3>4. \A u \in Times(s) : u < s.active => s.snapshots[u].captured /\ u < c
      BY <3>1, <3>2
    <3>5. \A u \in Times(s) : u < s.active => StateAt(s, p, u) = Loaded(s, u) /\ u \in Kept(s)
      BY <3>4 DEF StateAt, Kept
    <3>6. /\ \A t \in Kept(s) : Loaded(s, t) \in Projects
          /\ StateAt(s, p, s.active) = p
          /\ \A a, b \in Times(s) :
                a < b /\ Quiet(s, a, b) => Scene(StateAt(s, p, a)) = Scene(StateAt(s, p, b))
      BY <2>1 DEF StateInv
    <3>7. \A a, b \in Times(s) :
            a < b /\ b < s.active /\ Quiet(s, a, b) => Scene(Loaded(s, a)) = Scene(Loaded(s, b))
      <4> SUFFICES ASSUME NEW a \in Times(s), NEW b \in Times(s),
                          a < b, b < s.active, Quiet(s, a, b)
                   PROVE  Scene(Loaded(s, a)) = Scene(Loaded(s, b))
        OBVIOUS
      <4>1. a < s.active
        BY <3>2
      <4> QED BY <3>5, <3>6, <4>1
    <3>8. \A a \in Times(s) : a < s.active /\ Quiet(s, a, s.active) => Scene(Loaded(s, a)) = Scene(p)
      BY <3>1, <3>5, <3>6
    <3> QED BY <3>1, <3>3, <3>4, <3>5, <3>6, <3>7, <3>8
  <2>2. CASE s = Empty
    BY <2>2, EmptyStack
  <2> QED BY <2>1, <2>2
<1>2. /\ Times(s) \in SUBSET Nat /\ s.active \in Nat /\ c \in Nat
  BY <1>1, StackFields
<1>3. /\ r.active = c + 1
      /\ Times(r) = {u \in Times(s) : u < s.active} \cup {c, c + 1}
      /\ \A u \in Times(s) : u < s.active => 
            r.snapshots[u] = s.snapshots[u] /\ Loaded(r, u) = Loaded(s, u)
      /\ r.snapshots[c] = [type |-> type, captured |-> TRUE]
      /\ r.snapshots[c + 1] = [type |-> type, captured |-> FALSE]
      /\ Loaded(r, c) = p
  BY <1>1, TakeOK, TakeLoads
<1> HIDE DEF r
<1>4. /\ \A u \in Times(s) : u < s.active => /\ r.snapshots[u].captured
                                             /\ TypeAt(r, u) = TypeAt(s, u)
                                             /\ StateAt(r, q, u) = Loaded(s, u)
      /\ r.snapshots[c].captured /\ TypeAt(r, c) = type /\ StateAt(r, q, c) = p
      /\ ~r.snapshots[c + 1].captured /\ StateAt(r, q, c + 1) = q
  BY <1>1, <1>3 DEF StateAt, TypeAt
<1>5. Kept(r) = {u \in Times(s) : u < s.active} \cup {c}
  BY <1>3, <1>4 DEF Kept
<1>6. /\ c \in Kept(r)
      /\ \A u \in Kept(r) : \/ u = c
                            \/ u \in Kept(s) /\ u < s.active /\ Loaded(r, u) = Loaded(s, u)
  <2>1. \A u \in Times(s) : u < s.active => u \in Kept(s) /\ Loaded(r, u) = Loaded(s, u)
    BY <1>1, <1>3 DEF Kept
  <2> QED BY <1>5, <2>1
<1>7. ASSUME NEW a \in Times(r), NEW b \in Times(r), a < b, Quiet(r, a, b)
      PROVE  Scene(StateAt(r, q, a)) = Scene(StateAt(r, q, b))
  <2>1. /\ \A t \in Times(s) : t < s.active /\ a <= t /\ t < b => ~ModifiesProject(TypeAt(s, t))
        /\ a <= c /\ c < b => ~ModifiesProject(type)
    BY <1>3, <1>4, <1>7 DEF Quiet
  <2>2. CASE b \in Times(s) /\ b < s.active
    <3>1. a \in Times(s) /\ a < s.active
      BY <1>1, <1>2, <1>3, <1>7, <2>2
    <3>2. Quiet(s, a, b)
      BY <1>2, <2>1, <2>2 DEF Quiet
    <3> QED BY <1>1, <1>4, <1>7, <2>2, <3>1, <3>2
  <2>3. CASE b \in {c, c + 1}
    <3>1. ASSUME a \in Times(s), a < s.active PROVE Scene(StateAt(r, q, a)) = Scene(p)
      <4>1. Quiet(s, a, s.active)
        BY <1>1, <1>2, <2>1, <2>3 DEF Quiet
      <4> QED BY <1>1, <1>4, <3>1, <4>1
    <3>2. Scene(StateAt(r, q, a)) = Scene(p)
      <4>1. a = c \/ (a \in Times(s) /\ a < s.active)
        <5>1. a \in {u \in Times(s) : u < s.active} \/ a = c \/ a = c + 1
          BY <1>3
        <5>2. a < b /\ (b = c \/ b = c + 1)
          BY <1>7, <2>3
        <5>3. a # c + 1
          BY <1>2, <5>2
        <5> QED BY <5>1, <5>3
      <4> QED BY <1>4, <3>1, <4>1
    <3>3. b = c + 1 => Scene(q) = Scene(p)
      <4>1. b = c + 1 => a <= c /\ c < b
        BY <1>1, <1>2, <1>3, <1>7
      <4> QED BY <2>1, <4>1
    <3> QED BY <1>4, <2>3, <3>2, <3>3
  <2> QED BY <1>3, <2>2, <2>3
<1>8. \A t \in Kept(r) : Loaded(r, t) \in Projects
  BY <1>1, <1>3, <1>5
<1>9. UsedInv(r)
  BY TakeUsed DEF r
<1>10. StateInv(r, q)
  BY <1>3, <1>4, <1>7, <1>8, <1>9 DEF StateInv
<1> QED BY <1>3, <1>6, <1>10 DEF r

-----------------------------------------------------------------------------
(* Releasing snapshots *)

\* r is s without some of its snapshots; those it has load as they did.
Thinned(s, r) ==
    /\ r.active = s.active /\ r.current = s.current
    /\ Times(r) \in SUBSET Times(s) /\ s.active \in Times(r)
    /\ \A t \in Times(r) : r.snapshots[t] = s.snapshots[t] /\ Loaded(r, t) = Loaded(s, t)

\* Each interval of r is what is left of one of s, and serves a snapshot of r.
Served(s, r) ==
    \A o \in Objects : \A i \in r.objects[o] :
        /\ \E t \in Times(r) : Covers(i, t)
        /\ \E j \in s.objects[o] :
              /\ j.data = i.data /\ j.end = i.end
              /\ \A t \in Times(r) : Covers(i, t) => Covers(j, t)

\* The histories still hold the contents of the snapshots and nothing else.
LEMMA ThinnedUsed ==
    ASSUME NEW s, NEW r, UsedInv(s), Thinned(s, r), Served(s, r)
    PROVE  UsedInv(r)
<1> SUFFICES ASSUME NEW o \in Objects, NEW i \in r.objects[o]
             PROVE  /\ i.data # Absent /\ i.end <= r.current
                    /\ \E t \in Times(r) : Covers(i, t)
                    /\ \A t \in Kept(r) : Covers(i, t) => Loaded(r, t)[o] = i.data
  BY DEF UsedInv
<1>1. PICK j \in s.objects[o] : /\ j.data = i.data /\ j.end = i.end
                               /\ \A t \in Times(r) : Covers(i, t) => Covers(j, t)
  BY DEF Served
<1>2. /\ j.data # Absent /\ j.end <= s.current
      /\ \A t \in Kept(s) : Covers(j, t) => Loaded(s, t)[o] = j.data
  BY DEF UsedInv
<1>3. \A t \in Kept(r) : t \in Times(r) /\ t \in Kept(s) /\ Loaded(r, t) = Loaded(s, t)
  BY DEF Thinned, Kept
<1>4. \E t \in Times(r) : Covers(i, t)
  BY DEF Served
<1>5. r.current = s.current
  BY DEF Thinned
<1> QED BY <1>1, <1>2, <1>3, <1>4, <1>5

\* The states stay what they were, if no change of the project is forgotten
\* between two snapshots.
LEMMA ThinnedStates ==
    ASSUME NEW s, NEW r, NEW p, StateInv(s, p), Thinned(s, r), Served(s, r),
           \A a, b \in Times(r) : Quiet(r, a, b) => Quiet(s, a, b)
    PROVE  /\ StateInv(r, p)
           /\ \A t \in Times(r) : StateAt(r, p, t) = StateAt(s, p, t)
           /\ Kept(r) = Kept(s) \cap Times(r)
<1>1. Kept(r) = Kept(s) \cap Times(r)
  BY DEF Thinned, Kept
<1>2. \A t \in Times(r) : StateAt(r, p, t) = StateAt(s, p, t)
  BY DEF Thinned, StateAt
<1>3. \A t \in Kept(r) : Loaded(r, t) \in Projects
  BY <1>1 DEF Thinned, StateInv
<1>4. StateAt(r, p, r.active) = p
  BY <1>2 DEF Thinned, StateInv
<1>5. \A a, b \in Times(r) : a < b /\ Quiet(r, a, b) => Scene(StateAt(r, p, a)) = Scene(StateAt(r, p, b))
  BY <1>2 DEF Thinned, StateInv
<1>6. UsedInv(r)
  BY ThinnedUsed DEF StateInv
<1> QED BY <1>1, <1>2, <1>3, <1>4, <1>5, <1>6 DEF StateInv

\* The stack stays valid, if a snapshot before the active one stays.
LEMMA ThinnedValid ==
    ASSUME NEW s, StackInv(s), NEW r \in Stack, Thinned(s, r), Histories(r),
           \E t \in Times(r) : t < s.active
    PROVE  StackInv(r)
<1>1. Ordered(Times(r))
  BY OrderedSubset DEF StackInv, Thinned
<1>2. \A t \in Times(r) : IF r.snapshots[t].captured THEN t < r.current
                          ELSE t = r.active /\ t = r.current /\ IsLast(r, t)
  BY DEF StackInv, Thinned, IsLast
<1>3. r.active \in Times(r) /\ \E t \in Times(r) : t < r.active
  BY DEF Thinned
<1> QED BY <1>1, <1>2, <1>3 DEF StackInv

\* The memory limit releases the first snapshots, up to some time.
LEMMA LimitOK ==
    ASSUME NEW s, StackInv(s), NEW r \in LimitMemory(s)
    PROVE  /\ StackInv(r) /\ Thinned(s, r) /\ r.saved = s.saved
           /\ UsedInv(s) => Served(s, r)
           /\ \E t \in Times(s) : t < s.active /\ Times(r) = {u \in Times(s) : u >= t}
<1>1. /\ s \in Stack /\ Histories(s) /\ Ordered(Times(s)) /\ s.active \in Times(s)
      /\ \E t \in Times(s) : t < s.active
      /\ \E m \in Times(s) : \A t \in Times(s) : m <= t
  BY DEF StackInv, Ordered
<1>2. /\ Times(s) \in SUBSET Nat /\ s.active \in Nat
      /\ \A o \in Objects : s.objects[o] \in SUBSET Interval
      /\ \A t \in Times(s) : s.snapshots[t] \in Snap
  BY <1>1, StackFields
<1>3. CASE r = s
  <2>1. Thinned(s, r)
    BY <1>1, <1>3 DEF Thinned
  <2>2. PICK m \in Times(s) : \A t \in Times(s) : m <= t
    BY <1>1
  <2>3. Times(r) = {u \in Times(s) : u >= m} /\ m < s.active
    BY <1>1, <1>2, <1>3, <2>2
  <2>4. UsedInv(s) => Served(s, r)
    BY <1>3 DEF UsedInv, Served
  <2> QED BY <1>3, <2>1, <2>3, <2>4
<1>4. CASE \E t \in Times(s) : t < s.active /\ r = DropFirst(s, t)
  <2>1. PICK t \in Times(s) : t < s.active /\ r = DropFirst(s, t)
    BY <1>4
  <2> DEFINE T == {u \in Times(s) : u >= t}
  <2>2. /\ r.objects = [o \in Objects |-> ReleaseBefore(s.objects[o], t)]
        /\ r.snapshots = [u \in T |-> s.snapshots[u]]
        /\ r.active = s.active /\ r.current = s.current /\ r.saved = s.saved
    BY <1>1, <2>1 DEF Stack, DropFirst, Keep
  <2>3. Times(r) = T
    BY <2>2 DEF Times
  <2>4. ASSUME NEW o \in Objects
        PROVE  LET g == r.objects[o] h == s.objects[o] IN
               /\ g \in SUBSET Interval /\ Disjoint(g)
               /\ o \in Immutable => \A i \in g : i.data = o
               /\ \A i \in g : /\ t < i.end
                               /\ \E j \in h : /\ j.data = i.data /\ j.end = i.end
                                               /\ i.begin = Later(j.begin, t)
               /\ \A u \in Nat : t <= u => Datum(g, u) = Datum(h, u)
    <3> DEFINE g == r.objects[o]
               h == s.objects[o]
    <3>1. /\ h \in SUBSET Interval /\ Disjoint(h) /\ (o \in Immutable => \A i \in h : i.data = o)
          /\ g = ReleaseBefore(h, t) /\ t \in Nat
      BY <1>1, <1>2, <2>2 DEF Histories
    <3> HIDE DEF g, h
    <3>2. /\ g \in SUBSET Interval /\ Disjoint(g)
          /\ \A i \in g : /\ i.end > t
                          /\ \E j \in h : /\ j.data = i.data /\ j.end = i.end
                                          /\ i.begin = Later(j.begin, t)
          /\ \A u \in Nat : t <= u => Datum(g, u) = Datum(h, u)
      BY <3>1, ReleaseBeforeOK
    <3>3. \A i \in g : t < i.end
      BY <1>2, <3>2, IntervalFields
    <3>4. o \in Immutable => \A i \in g : i.data = o
      BY <3>1, <3>2
    <3> QED BY <3>2, <3>3, <3>4 DEF g, h
  <2>5. \A u \in T : Loaded(r, u) = Loaded(s, u)
    <3> SUFFICES ASSUME NEW u \in T PROVE Loaded(r, u) = Loaded(s, u)
      OBVIOUS
    <3>1. u \in Nat /\ t <= u
      BY <1>2
    <3>2. \A o \in Objects : Datum(r.objects[o], u) = Datum(s.objects[o], u)
      BY <2>4, <3>1
    <3> QED BY <3>2, SameLoaded
  <2>6. Thinned(s, r)
    <3>1. s.active \in T
      BY <1>1, <1>2, <2>1
    <3>2. \A u \in T : r.snapshots[u] = s.snapshots[u]
      BY <2>2
    <3> QED BY <2>2, <2>3, <2>5, <3>1, <3>2 DEF Thinned
  <2>7. r \in Stack
    <3>1. r.objects \in [Objects -> SUBSET Interval]
      BY <2>2, <2>4
    <3>2. r.snapshots \in [T -> Snap] /\ T \in SUBSET Nat
      BY <1>2, <2>2
    <3>3. r.snapshots \in UNION {[U -> Snap] : U \in SUBSET Nat}
      BY <3>2
    <3> HIDE DEF T
    <3>4. r = [s EXCEPT !.objects = r.objects, !.snapshots = r.snapshots]
      <4>1. r = [[s EXCEPT !.snapshots = [u \in T |-> s.snapshots[u]]]
                    EXCEPT !.objects = [o \in Objects |-> ReleaseBefore(s.objects[o], t)]]
        BY <2>1 DEF DropFirst, Keep, T
      <4> QED BY <1>1, <2>2, <4>1 DEF Stack
    <3> QED BY <1>1, <3>1, <3>3, <3>4 DEF Stack
  <2>8. Histories(r)
    BY <2>4 DEF Histories
  <2>9. t \in T /\ \A u \in T : t <= u
    BY <1>2
  <2>10. StackInv(r)
    BY <2>1, <2>3, <2>6, <2>7, <2>8, <2>9, ThinnedValid
  <2>11. ASSUME UsedInv(s) PROVE Served(s, r)
    <3> SUFFICES ASSUME NEW o \in Objects, NEW i \in r.objects[o]
                 PROVE  /\ \E u \in Times(r) : Covers(i, u)
                        /\ \E j \in s.objects[o] :
                              /\ j.data = i.data /\ j.end = i.end
                              /\ \A u \in Times(r) : Covers(i, u) => Covers(j, u)
      BY DEF Served
    <3>1. PICK j \in s.objects[o] : /\ j.data = i.data /\ j.end = i.end
                                   /\ i.begin = Later(j.begin, t)
      BY <2>4
    <3>2. j.begin \in Nat /\ j.end \in Nat /\ t \in Nat /\ t < j.end
      BY <1>2, <2>4, <3>1, IntervalFields
    <3>3. \A u \in Times(s) : Covers(i, u) => Covers(j, u)
      BY <1>2, <3>1, <3>2 DEF Covers, Later
    <3>4. PICK u \in Times(s) : Covers(j, u)
      BY <2>11 DEF UsedInv
    <3>5. \E v \in Times(r) : Covers(i, v)
      <4>1. CASE j.begin <= t
        <5>1. Covers(i, t)
          BY <3>1, <3>2, <4>1 DEF Covers, Later
        <5> QED BY <2>3, <2>9, <5>1
      <4>2. CASE t < j.begin
        <5>1. Covers(i, u) /\ t <= u
          BY <1>2, <3>1, <3>2, <3>4, <4>2 DEF Covers, Later
        <5> QED BY <1>2, <2>3, <5>1
      <4> QED BY <3>2, <4>1, <4>2
    <3> QED BY <2>3, <3>1, <3>3, <3>5
  <2> QED BY <2>1, <2>2, <2>3, <2>6, <2>10, <2>11
<1>5. r = s \/ \E t \in Times(s) : t < s.active /\ r = DropFirst(s, t)
  BY DEF LimitMemory
<1> QED BY <1>3, <1>4, <1>5

\* It keeps the states, and the mark if its snapshot stays.
LEMMA LimitStates ==
    ASSUME NEW s, NEW p, StackInv(s), StateInv(s, p), NEW r \in LimitMemory(s)
    PROVE  /\ StateInv(r, p) /\ Kept(r) = Kept(s) \cap Times(r)
           /\ \A f : SavedOK(s, p, f) /\ MarkKept(r) => SavedOK(r, p, f)
<1>1. /\ Thinned(s, r) /\ Served(s, r) /\ r.saved = s.saved
      /\ \E t \in Times(s) : t < s.active /\ Times(r) = {u \in Times(s) : u >= t}
  BY LimitOK DEF StateInv
<1>2. PICK t \in Times(s) : Times(r) = {u \in Times(s) : u >= t}
  BY <1>1
<1>3. Times(s) \in SUBSET Nat
  BY StackFields DEF StackInv
<1>4. \A u \in Times(r) : TypeAt(r, u) = TypeAt(s, u)
  BY <1>1 DEF Thinned, TypeAt
<1>5. \A a, b \in Times(r) : Quiet(r, a, b) => Quiet(s, a, b)
  BY <1>2, <1>3, <1>4 DEF Quiet
<1>6. /\ StateInv(r, p) /\ Kept(r) = Kept(s) \cap Times(r)
      /\ \A u \in Times(r) : StateAt(r, p, u) = StateAt(s, p, u)
  BY <1>1, <1>5, ThinnedStates
<1>7. \A f : SavedOK(s, p, f) /\ MarkKept(r) => SavedOK(r, p, f)
  BY <1>1, <1>6 DEF SavedOK, MarkKept
<1> QED BY <1>6, <1>7

\* Leaving a gizmo drops all but the first of its actions in a row.
LEMMA ReduceOK ==
    ASSUME NEW s, StackInv(s), TypeAt(s, s.active) # "GizmoAction", IsLast(s, s.active),
           NEW r, r = ReduceNoisySnapshots(s)
    PROVE  /\ StackInv(r) /\ Thinned(s, r)
           /\ Times(r) = Times(s) \ Noisy(s)
           /\ r.saved = s.saved \/ r.saved = Unknown
           /\ UsedInv(s) => Served(s, r)
           /\ \A a, b \in Times(r) : Quiet(r, a, b) => Quiet(s, a, b)
<1> DEFINE noisy == Noisy(s)
           rest == Times(s) \ noisy
           spans == {x \in rest \X rest :
                       /\ x[1] < x[2]
                       /\ \E t \in noisy : x[1] < t /\ t < x[2]
                       /\ \A u \in rest : u <= x[1] \/ u >= x[2]}
           serves(o) == {i \in s.objects[o] :
                           \A x \in spans : i \in ReleaseBetween(s.objects[o], x[1], x[2])}
<1>1. /\ s \in Stack /\ Histories(s) /\ Ordered(Times(s)) /\ s.active \in Times(s)
      /\ \E t \in Times(s) : t < s.active
      /\ \E m \in Times(s) : \A t \in Times(s) : m <= t
  BY DEF StackInv, Ordered
<1>2. /\ Times(s) \in SUBSET Nat /\ s.active \in Nat /\ s.saved \in Nat \cup {Unknown}
      /\ \A o \in Objects : s.objects[o] \in SUBSET Interval
      /\ \A t \in Times(s) : s.snapshots[t] \in Snap
  BY <1>1, StackFields
<1>3. /\ r.objects = [o \in Objects |-> serves(o)]
      /\ r.snapshots = [u \in rest |-> s.snapshots[u]]
      /\ r.active = s.active /\ r.current = s.current
      /\ r.saved = SavedAfterRelease(s, noisy, TRUE)
  BY <1>1 DEF Stack, ReduceNoisySnapshots, Keep
<1>4. Times(r) = rest
  BY <1>3 DEF Times
<1>5. \A t \in noisy : /\ t \in Times(s) /\ TypeAt(s, t) = "GizmoAction"
                       /\ \E u \in Times(s) : /\ u < t /\ TypeAt(s, u) = "GizmoAction"
                                              /\ \A v \in Times(s) : v <= u \/ v >= t
  BY DEF Noisy
<1>6. r.saved = s.saved \/ r.saved = Unknown
  <2>1. CASE s.saved \in noisy
    <3>1. ModifiesProject(TypeAt(s, s.saved)) /\ s.saved <= s.saved /\ s.saved >= s.saved
      BY <1>2, <1>5, <2>1 DEF ModifiesProject
    <3>2. SavedAfterRelease(s, noisy, TRUE) = Unknown
      BY <2>1, <3>1 DEF SavedAfterRelease
    <3> QED BY <1>3, <3>2
  <2>2. CASE s.saved \notin noisy
    BY <1>3, <2>2 DEF SavedAfterRelease
  <2> QED BY <2>1, <2>2
<1>7. ASSUME NEW o \in Objects
      PROVE  /\ serves(o) \in SUBSET s.objects[o]
             /\ \A u \in rest : \A i \in s.objects[o] : Covers(i, u) => i \in serves(o)
  <2> SUFFICES ASSUME NEW u \in rest, NEW i \in s.objects[o], Covers(i, u), NEW x \in spans
               PROVE  i \in ReleaseBetween(s.objects[o], x[1], x[2])
    OBVIOUS
  <2>1. /\ x[1] \in rest /\ x[2] \in rest
        /\ u <= x[1] \/ u >= x[2]
    OBVIOUS
  <2>2. x[1] \in Nat /\ x[2] \in Nat /\ u \in Nat /\ i \in Interval
    BY <1>2, <2>1
  <2>3. ~(i.begin > x[1] /\ i.end <= x[2])
    BY <2>1, <2>2, IntervalFields DEF Covers
  <2> QED BY <2>3 DEF ReleaseBetween
<1>7a. ASSUME NEW o \in Objects, NEW i \in serves(o), NEW u \in noisy, Covers(i, u),
              NEW a \in rest, NEW b \in rest, a < u, u < b,
              \A v \in rest : v <= a \/ v >= b
       PROVE  Covers(i, a) \/ Covers(i, b)
  <2>1. <<a, b>> \in spans
    BY <1>2, <1>5, <1>7a
  <2>2. i \in ReleaseBetween(s.objects[o], a, b)
    BY <2>1
  <2>3. i \in Interval /\ a \in Nat /\ b \in Nat /\ u \in Nat
    BY <1>2, <1>5
  <2>4. ~(i.begin > a /\ i.end <= b)
    BY <2>2 DEF ReleaseBetween
  <2> QED BY <1>7a, <2>3, <2>4, IntervalFields DEF Covers
<1> HIDE DEF noisy, rest, serves, spans
<1>8. rest \in SUBSET Times(s) /\ \A t \in Times(s) : t \in rest <=> t \notin noisy
  BY DEF rest
<1>9. ASSUME NEW o \in Objects
      PROVE  LET g == r.objects[o] h == s.objects[o] IN
             /\ g \in SUBSET Interval /\ Disjoint(g) /\ g \in SUBSET h
             /\ \A u \in rest : Datum(g, u) = Datum(h, u)
  <2> DEFINE g == r.objects[o]
             h == s.objects[o]
  <2>1. h \in SUBSET Interval /\ Disjoint(h) /\ g \in SUBSET h
    BY <1>1, <1>2, <1>3, <1>7 DEF Histories
  <2>2. \A u \in rest : \A i \in h : Covers(i, u) => i \in g
    BY <1>3, <1>7
  <2>3. rest \in SUBSET Nat
    BY <1>2, <1>8
  <2> HIDE DEF g, h
  <2>4. /\ g \in SUBSET Interval /\ Disjoint(g)
        /\ \A u \in Nat : (\A i \in h : Covers(i, u) => i \in g) => Datum(g, u) = Datum(h, u)
    BY <2>1, FilterOK
  <2>5. \A u \in rest : Datum(g, u) = Datum(h, u)
    BY <2>2, <2>3, <2>4
  <2> QED BY <2>1, <2>4, <2>5 DEF g, h
<1>10. Thinned(s, r)
  <2>1. s.active \in rest
    BY <1>1, <1>5, <1>8
  <2>2. \A u \in rest : r.snapshots[u] = s.snapshots[u]
    BY <1>3
  <2>3. \A u \in rest : Loaded(r, u) = Loaded(s, u)
    BY <1>9, SameLoaded
  <2> QED BY <1>3, <1>4, <1>8, <2>1, <2>2, <2>3 DEF Thinned
<1>11. r \in Stack
  <2>1. r.objects \in [Objects -> SUBSET Interval]
    BY <1>3, <1>9
  <2>2. r.snapshots \in [rest -> Snap] /\ rest \in SUBSET Nat
    BY <1>2, <1>3, <1>8
  <2>3. r.snapshots \in UNION {[U -> Snap] : U \in SUBSET Nat}
    BY <2>2
  <2>4. r.saved \in Nat \cup {Unknown}
    BY <1>2, <1>6
  <2>5. r = [s EXCEPT !.objects = r.objects, !.snapshots = r.snapshots, !.saved = r.saved]
    <3>1. r = [[s EXCEPT !.snapshots = [u \in rest |-> s.snapshots[u]]]
                  EXCEPT !.objects = [o \in Objects |-> serves(o)],
                         !.saved = SavedAfterRelease(s, noisy, TRUE)]
      BY DEF ReduceNoisySnapshots, Keep, rest, serves, spans, noisy
    <3> QED BY <1>1, <1>3, <3>1 DEF Stack
  <2> QED BY <1>1, <2>1, <2>3, <2>4, <2>5 DEF Stack
<1>12. Histories(r)
  BY <1>1, <1>9 DEF Histories
<1>13. PICK m \in Times(s) : \A t \in Times(s) : m <= t
  BY <1>1
<1>14. m \in rest /\ m < s.active
  <2>1. m \notin noisy
    BY <1>2, <1>5, <1>13
  <2>2. m < s.active
    BY <1>1, <1>2, <1>13
  <2> QED BY <1>8, <2>1, <2>2
<1>15. StackInv(r)
  BY <1>4, <1>10, <1>11, <1>12, <1>14, ThinnedValid
<1>16. ASSUME NEW a \in Times(r), NEW b \in Times(r), Quiet(r, a, b)
       PROVE  Quiet(s, a, b)
  <2> SUFFICES ASSUME NEW t \in Times(s), a <= t, t < b, ModifiesProject(TypeAt(s, t))
               PROVE  FALSE
    BY DEF Quiet
  <2>1. \A u \in rest : a <= u /\ u < b => ~ModifiesProject(TypeAt(s, u))
    BY <1>4, <1>10, <1>16 DEF Quiet, Thinned, TypeAt
  <2>2. t \in noisy
    BY <1>8, <2>1
  <2> DEFINE N == {n \in noisy : a <= n}
  <2>3. N \in SUBSET Times(s) /\ t \in N
    BY <1>5, <2>2
  <2>4. PICK n \in N : \A k \in N : n <= k
    BY <1>1, <2>3 DEF Ordered
  <2>5. PICK u \in Times(s) : /\ u < n /\ TypeAt(s, u) = "GizmoAction"
                              /\ \A v \in Times(s) : v <= u \/ v >= n
    BY <1>5
  <2>6. a \in rest /\ b \in rest
    BY <1>4
  <2>7. a \in Nat /\ b \in Nat /\ t \in Nat /\ n \in Nat /\ u \in Nat /\ n \in noisy /\ a <= n
    BY <1>2, <1>8, <2>3, <2>6
  <2>8. a # n /\ a \in Times(s)
    BY <1>8, <2>6, <2>7
  <2>9. a <= u
    BY <2>5, <2>7, <2>8
  <2>10. n <= t
    BY <2>3, <2>4
  <2>11. u \notin noisy
    BY <2>4, <2>5, <2>7, <2>9
  <2>12. u \in rest /\ u < b
    BY <1>8, <2>5, <2>7, <2>10, <2>11
  <2>13. ModifiesProject(TypeAt(s, u))
    BY <2>5 DEF ModifiesProject
  <2> QED BY <2>1, <2>9, <2>12, <2>13
<1>17. Times(r) = Times(s) \ Noisy(s)
  BY <1>4 DEF rest, noisy
<1>18. ASSUME UsedInv(s) PROVE Served(s, r)
  <2> SUFFICES ASSUME NEW o \in Objects, NEW i \in r.objects[o]
               PROVE  i \in s.objects[o] /\ \E t \in Times(r) : Covers(i, t)
    BY DEF Served
  <2>1. i \in serves(o) /\ i \in s.objects[o]
    BY <1>3, <1>9
  <2>2. PICK u \in Times(s) : Covers(i, u)
    BY <1>18, <2>1 DEF UsedInv
  <2>3. CASE u \in rest
    BY <1>4, <2>1, <2>2, <2>3
  <2>4. CASE u \in noisy
    <3> DEFINE below == {v \in rest : v < u}
               above == {v \in rest : u < v}
    <3>1. m \in below
      BY <1>2, <1>8, <1>13, <1>14, <2>4
    <3>2. s.active \in above
      <4>1. s.active \in rest /\ s.active # u
        BY <1>4, <1>8, <1>10, <2>4 DEF Thinned
      <4>2. u <= s.active
        BY DEF IsLast
      <4> QED BY <1>2, <4>1, <4>2
    <3>3. below \in SUBSET Times(s) /\ above \in SUBSET Times(s)
      BY <1>8
    <3>4. PICK a \in below : \A v \in below : v <= a
      BY <1>1, <3>1, <3>3 DEF Ordered
    <3>5. PICK b \in above : \A v \in above : b <= v
      BY <1>1, <3>2, <3>3 DEF Ordered
    <3>6. \A v \in rest : v <= a \/ v >= b
      <4> SUFFICES ASSUME NEW v \in rest PROVE v <= a \/ v >= b
        OBVIOUS
      <4>1. v \in Nat /\ u \in Nat /\ v # u /\ b \in Nat
        BY <1>2, <1>8, <2>4, <3>3
      <4>2. CASE v < u
        BY <3>4, <4>2
      <4>3. CASE u < v
        BY <3>5, <4>1, <4>3
      <4> QED BY <4>1, <4>2, <4>3
    <3>7. a \in rest /\ b \in rest /\ a < u /\ u < b
      BY <3>4, <3>5
    <3> HIDE DEF below, above
    <3>8. Covers(i, a) \/ Covers(i, b)
      BY <1>7a, <2>1, <2>2, <2>4, <3>6, <3>7
    <3> QED BY <1>4, <2>1, <3>7, <3>8
  <2> QED BY <1>8, <2>3, <2>4
<1> QED BY <1>6, <1>10, <1>15, <1>16, <1>17, <1>18

-----------------------------------------------------------------------------
(* Jumps in time *)

\* The active snapshot and the mark have no part in what the histories hold.
LEMMA SameUsed ==
    ASSUME NEW s, NEW r, UsedInv(s), r.objects = s.objects, r.snapshots = s.snapshots,
           r.current = s.current
    PROVE  UsedInv(r)
<1>1. Times(r) = Times(s) /\ Kept(r) = Kept(s) /\ \A t : Loaded(r, t) = Loaded(s, t)
  BY DEF Times, Kept, Loaded
<1> QED BY <1>1 DEF UsedInv

\* r holds all the states of s, none of them only in the project p.
Captured(s, p, r) ==
    /\ r \in Stack /\ Histories(r)
    /\ Times(r) = Times(s)
    /\ \A t \in Times(s) : /\ r.snapshots[t].captured /\ t < r.current
                           /\ Loaded(r, t) = StateAt(s, p, t)
    /\ \A t \in Times(s) : t < s.active \/ s.active < t => TypeAt(r, t) = TypeAt(s, t)
    /\ s.snapshots[s.active].captured => TypeAt(r, s.active) = TypeAt(s, s.active)
    /\ UsedInv(r)
    /\ s.saved \in Times(s) \cup {Unknown} => r.saved = s.saved

\* The stack itself does, if its active snapshot is captured.
LEMMA CapturedItself ==
    ASSUME NEW s, NEW p, StackInv(s), StateInv(s, p), IsCaptured(s)
    PROVE  Captured(s, p, s)
<1>1. \A t \in Times(s) : s.snapshots[t].captured /\ t < s.current
  BY DEF StackInv, IsCaptured
<1>2. \A t \in Times(s) : Loaded(s, t) = StateAt(s, p, t)
  BY <1>1 DEF StateAt
<1> QED BY <1>1, <1>2 DEF StackInv, StateInv, Captured

\* Otherwise undo() captures it first.
LEMMA CaptureOK ==
    ASSUME NEW s, NEW p, StackInv(s), StateInv(s, p), ~IsCaptured(s), NEW type \in Type
    PROVE  /\ Captured(s, p, Capture(s, p, type))
           /\ Capture(s, p, type).current = s.current + 1
<1> DEFINE q == TakeSnapshot(s, p, type)
           c == s.current
           T == {t \in Times(s) : t <= s.active} \cup {c}
           r == Capture(s, p, type)
<1>1. /\ s \in Stack /\ Histories(s) /\ Ordered(Times(s)) /\ s.active \in Times(s)
      /\ \E t \in Times(s) : t < s.active
      /\ \A t \in Times(s) : IF s.snapshots[t].captured THEN t < s.current
                             ELSE t = s.active /\ t = s.current /\ IsLast(s, t)
      /\ p \in Projects
  BY DEF StackInv, StateInv
<1>2. /\ Times(s) \in SUBSET Nat /\ s.active \in Nat /\ c \in Nat
      /\ s.saved \in Nat \cup {Unknown}
  BY <1>1, StackFields
<1>3. s.active = c /\ \A t \in Times(s) : t <= s.active
  BY <1>1 DEF IsCaptured, IsLast
<1>4. T = Times(s)
  BY <1>1, <1>3
<1>5. /\ q.objects \in [Objects -> SUBSET Interval] /\ Histories(q)
      /\ q.snapshots \in [Times(q) -> Snap]
      /\ q.active = c + 1 /\ q.current = c + 1
      /\ Times(q) = {u \in Times(s) : u < s.active} \cup {c, c + 1}
      /\ \A u \in Times(s) : u < s.active =>
            q.snapshots[u] = s.snapshots[u] /\ Loaded(q, u) = Loaded(s, u)
      /\ q.snapshots[c] = [type |-> type, captured |-> TRUE]
      /\ Loaded(q, c) = p
  <2>1. s \in Stack /\ Histories(s) /\ s.active <= s.current /\ p \in Projects
    BY <1>1, <1>2, <1>3
  <2>2. Loaded(q, c) = p
    BY <2>1, TakeLoads
  <2>3. /\ q.objects \in [Objects -> SUBSET Interval] /\ Histories(q)
        /\ q.snapshots \in [Times(q) -> Snap]
        /\ q.active = c + 1 /\ q.current = c + 1
        /\ Times(q) = {u \in Times(s) : u < s.active} \cup {c, c + 1}
        /\ \A u \in Times(s) : u < s.active =>
              q.snapshots[u] = s.snapshots[u] /\ Loaded(q, u) = Loaded(s, u)
        /\ q.snapshots[c] = [type |-> type, captured |-> TRUE]
    BY <2>1, TakeOK
  <2> QED BY <2>2, <2>3
<1>6. StackInv(q) /\ q \in Stack
  <2>1. StackInv(q)
    BY <1>1, TakeValid
  <2> QED BY <2>1 DEF StackInv
<1>7. r = [q EXCEPT !.snapshots = [t \in T |-> q.snapshots[t]]]
  BY DEF Capture, Keep
<1> HIDE DEF q, r
<1>8. /\ r.objects = q.objects /\ r.snapshots = [t \in T |-> q.snapshots[t]]
      /\ r.active = q.active /\ r.current = q.current /\ r.saved = q.saved
  BY <1>6, <1>7 DEF Stack
<1>9. Times(r) = Times(s) /\ \A t \in Times(s) : r.snapshots[t] = q.snapshots[t]
  <2>1. Times(r) = T
    BY <1>8 DEF Times
  <2>2. \A t \in T : r.snapshots[t] = q.snapshots[t]
    BY <1>8
  <2> QED BY <1>4, <2>1, <2>2
<1>10. r \in Stack /\ Histories(r)
  <2>1. Times(s) \in SUBSET Times(q)
    BY <1>2, <1>3, <1>5
  <2>2. r.snapshots \in [Times(s) -> Snap]
    <3>1. \A t \in Times(s) : q.snapshots[t] \in Snap
      BY <1>5, <2>1
    <3> QED BY <1>4, <1>8, <3>1
  <2>3. r.snapshots \in UNION {[U -> Snap] : U \in SUBSET Nat}
    BY <1>2, <2>2
  <2> HIDE DEF T
  <2>4. r = [q EXCEPT !.snapshots = r.snapshots]
    BY <1>7, <1>8
  <2>5. r \in Stack
    BY <1>6, <2>3, <2>4 DEF Stack
  <2>6. Histories(r)
    BY <1>5, <1>8 DEF Histories
  <2> QED BY <2>5, <2>6
<1>11. \A t : Loaded(r, t) = Loaded(q, t)
  BY <1>8 DEF Loaded
<1>12. ASSUME NEW t \in Times(s), t < s.active
       PROVE  /\ r.snapshots[t].captured /\ t < r.current
              /\ Loaded(r, t) = StateAt(s, p, t) /\ TypeAt(r, t) = TypeAt(s, t)
  <2>1. s.snapshots[t].captured
    BY <1>1, <1>2, <1>12
  <2>2. r.snapshots[t] = s.snapshots[t] /\ Loaded(r, t) = Loaded(s, t)
    BY <1>5, <1>9, <1>11, <1>12
  <2>3. t < r.current
    BY <1>2, <1>3, <1>5, <1>8, <1>12
  <2> QED BY <2>1, <2>2, <2>3 DEF StateAt, TypeAt
<1>13. /\ r.snapshots[s.active].captured /\ s.active < r.current
       /\ Loaded(r, s.active) = StateAt(s, p, s.active)
  <2>1. r.snapshots[s.active].captured
    BY <1>1, <1>3, <1>5, <1>9
  <2>2. s.active < r.current
    BY <1>2, <1>3, <1>5, <1>8
  <2>3. Loaded(r, s.active) = p /\ StateAt(s, p, s.active) = p
    BY <1>3, <1>5, <1>11 DEF StateInv
  <2> QED BY <2>1, <2>2, <2>3
<1>14. \A t \in Times(s) : t < s.active \/ t = s.active
  BY <1>2, <1>3
<1>15. UsedInv(r)
  <2>1. UsedInv(q)
    BY <1>1, TakeUsed DEF q
  <2> SUFFICES ASSUME NEW o \in Objects, NEW i \in r.objects[o]
               PROVE  /\ i.data # Absent /\ i.end <= r.current
                      /\ \E t \in Times(r) : Covers(i, t)
                      /\ \A t \in Kept(r) : Covers(i, t) => Loaded(r, t)[o] = i.data
    BY DEF UsedInv
  <2>2. i \in q.objects[o] /\ i \in Interval
    BY <1>6, <1>8, StackFields
  <2>3. /\ i.data # Absent /\ i.end <= c + 1
        /\ \A t \in Kept(q) : Covers(i, t) => Loaded(q, t)[o] = i.data
    BY <1>5, <2>1, <2>2 DEF UsedInv
  <2>4. PICK t \in Times(q) : Covers(i, t)
    BY <2>1, <2>2 DEF UsedInv
  <2>5. t # c + 1
    BY <1>2, <2>2, <2>3, <2>4, IntervalFields DEF Covers
  <2>6. t \in Times(r)
    BY <1>1, <1>3, <1>5, <1>9, <2>5
  <2>7. Kept(r) \in SUBSET Kept(q)
    <3>1. Times(s) \in SUBSET Times(q)
      BY <1>2, <1>3, <1>5
    <3> QED BY <1>9, <3>1 DEF Kept
  <2> QED BY <1>5, <1>8, <1>11, <2>3, <2>4, <2>6, <2>7
<1>16. s.saved \in Times(s) \cup {Unknown} => r.saved = s.saved
  <2> SUFFICES ASSUME s.saved \in Times(s) \cup {Unknown} PROVE r.saved = s.saved
    OBVIOUS
  <2>1. ~MarkReleased(s)
    BY <1>2, <1>3, <1>14 DEF MarkReleased, IsLast
  <2>2. q.saved = IF s.saved = s.active /\ s.active \in Times(s) THEN s.current ELSE s.saved
    BY <1>1, <2>1, TakeSaved DEF q
  <2> QED BY <1>3, <1>8, <2>2
<1>17. \A t \in Times(s) : t < s.active \/ s.active < t => TypeAt(r, t) = TypeAt(s, t)
  BY <1>2, <1>3, <1>12
<1>18. Captured(s, p, r)
  BY <1>9, <1>10, <1>12, <1>13, <1>14, <1>15, <1>16, <1>17 DEF Captured, IsCaptured
<1> QED BY <1>5, <1>8, <1>18 DEF r

\* A jump to any snapshot but the first loads the state it stands for.
LEMMA JumpOK ==
    ASSUME NEW s, NEW p, StackInv(s), StateInv(s, p), NEW r, Captured(s, p, r),
           NEW t \in Times(s), \E u \in Times(s) : u < t,
           NEW j, j = [r EXCEPT !.active = t], NEW q, q = Loaded(r, t)
    PROVE  /\ StackInv(j) /\ StateInv(j, q)
           /\ j.active = t /\ j.current = r.current
           /\ Kept(j) = Times(s) /\ Times(j) = Times(s)
           /\ \A u \in Times(s) : Loaded(j, u) = StateAt(s, p, u)
           /\ \A f : SavedOK(s, p, f) => SavedOK(j, q, f)
<1>1. /\ j.objects = r.objects /\ j.snapshots = r.snapshots
      /\ j.active = t /\ j.current = r.current /\ j.saved = r.saved
  BY DEF Captured, Stack
<1>2. Times(s) \in SUBSET Nat /\ s.active \in Nat
  BY StackFields DEF StackInv
<1>3. j \in Stack
  BY <1>2 DEF Captured, Stack
<1>4. Times(j) = Times(s) /\ \A u : TypeAt(j, u) = TypeAt(r, u)
  BY <1>1 DEF Captured, Times, TypeAt
<1>5. \A u : Loaded(j, u) = Loaded(r, u)
  BY <1>1 DEF Loaded
<1>6. \A u \in Times(s) : j.snapshots[u].captured /\ u < j.current
  BY <1>1 DEF Captured
<1>7. Kept(j) = Times(s)
  BY <1>4, <1>6 DEF Kept
<1>8. \A u \in Times(s) : Loaded(j, u) = StateAt(s, p, u) /\ StateAt(j, q, u) = StateAt(s, p, u)
  BY <1>5, <1>6 DEF Captured, StateAt
<1>9. StackInv(j)
  <2>1. Histories(j)
    BY <1>1 DEF Captured, Histories
  <2>2. Ordered(Times(j))
    BY <1>4 DEF StackInv
  <2> QED BY <1>1, <1>3, <1>4, <1>6, <2>1, <2>2 DEF StackInv
<1>10. \A u \in Times(s) : StateAt(s, p, u) \in Projects
  <2> SUFFICES ASSUME NEW u \in Times(s) PROVE StateAt(s, p, u) \in Projects
    OBVIOUS
  <2>1. CASE s.snapshots[u].captured
    BY <2>1 DEF StateInv, StateAt, Kept
  <2>2. CASE ~s.snapshots[u].captured
    BY <2>2 DEF StateInv, StateAt
  <2> QED BY <2>1, <2>2
<1>11. StateAt(j, q, j.active) = q /\ q \in Projects
  <2>1. q = StateAt(s, p, t)
    BY DEF Captured
  <2> QED BY <1>1, <1>8, <1>10, <2>1
<1>12. ASSUME NEW a \in Times(s), NEW b \in Times(s), a < b, Quiet(j, a, b)
       PROVE  Quiet(s, a, b)
  <2> SUFFICES ASSUME NEW u \in Times(s), a <= u, u < b
               PROVE  ~ModifiesProject(TypeAt(s, u))
    BY DEF Quiet
  <2>1. TypeAt(r, u) = TypeAt(s, u)
    <3>1. CASE u # s.active
      BY <1>2, <3>1 DEF Captured
    <3>2. CASE u = s.active /\ s.snapshots[s.active].captured
      BY <3>2 DEF Captured
    <3>3. CASE u = s.active /\ ~s.snapshots[s.active].captured
      <4>1. b <= u
        BY <3>3 DEF StackInv, IsLast
      <4> QED BY <1>2, <4>1
    <3> QED BY <3>1, <3>2, <3>3
  <2> QED BY <1>4, <1>12, <2>1 DEF Quiet
<1>13. \A a, b \in Times(j) : a < b /\ Quiet(j, a, b) => Scene(StateAt(j, q, a)) = Scene(StateAt(j, q, b))
  BY <1>4, <1>8, <1>12 DEF StateInv
<1>14. StateInv(j, q)
  <2>1. UsedInv(j)
    BY <1>1, SameUsed DEF Captured
  <2> QED BY <1>7, <1>8, <1>10, <1>11, <1>13, <2>1 DEF StateInv
<1>15. ASSUME NEW f, SavedOK(s, p, f) PROVE SavedOK(j, q, f)
  <2>1. s.saved \in Times(s) \cup {Unknown} /\ j.saved = s.saved
    BY <1>1, <1>15 DEF SavedOK, Captured
  <2> QED BY <1>4, <1>8, <1>15, <2>1 DEF SavedOK
<1> QED BY <1>1, <1>4, <1>7, <1>8, <1>9, <1>14, <1>15

-----------------------------------------------------------------------------
(* The commands *)

\* The stack r that a command leaves which took a snapshot of p on the stack s:
\* p, and states kept by s before the active one.
Recorded(s, p, r) ==
    /\ r.active = s.current + 1 /\ r.current = s.current + 1
    /\ s.current \in Kept(r) /\ Loaded(r, s.current) = p
    /\ \A u \in Kept(r) : \/ u = s.current
                          \/ u \in Kept(s) /\ u < s.active /\ Loaded(r, u) = Loaded(s, u)

\* Releasing other snapshots does not change that.
LEMMA RecordedThinned ==
    ASSUME NEW s, NEW p, NEW k, NEW r, Recorded(s, p, k), Thinned(k, r), s.current \in Times(r)
    PROVE  Recorded(s, p, r)
<1>1. \A u \in Kept(r) : u \in Kept(k) /\ Loaded(r, u) = Loaded(k, u)
  BY DEF Thinned, Kept
<1>2. s.current \in Kept(r)
  BY DEF Thinned, Kept, Recorded
<1> QED BY <1>1, <1>2 DEF Recorded, Thinned

\* Nor does the memory limit.
LEMMA RecordedLimited ==
    ASSUME NEW s, NEW p, NEW k, StackInv(k), Recorded(s, p, k), NEW r \in LimitMemory(k)
    PROVE  Recorded(s, p, r)
<1>1. Thinned(k, r) /\ \E t \in Times(k) : t < k.active /\ Times(r) = {u \in Times(k) : u >= t}
  BY LimitOK
<1>2. PICK t \in Times(k) : t < k.active /\ Times(r) = {u \in Times(k) : u >= t}
  BY <1>1
<1>3. /\ k.active = s.current + 1 /\ s.current \in Times(k) /\ Times(k) \in SUBSET Nat
  BY StackFields DEF Recorded, Kept, StackInv
<1>4. s.current \in Times(r)
  BY <1>2, <1>3
<1> QED BY <1>1, <1>4, RecordedThinned

\* The stack before old snapshots are released.
Noted(s, p, type) ==
    IF type = "LeavingGizmoWithAction" THEN ReduceNoisySnapshots(TakeSnapshot(s, p, type))
                                       ELSE TakeSnapshot(s, p, type)

\* A snapshot as Edit, Select, EnterGizmo and LeaveGizmo take it.
LEMMA SnapshotTaken ==
    ASSUME NEW s, NEW p, StackInv(s), StateInv(s, p), NEW type \in Type, NEW q \in Projects,
           ~ModifiesProject(type) => Scene(q) = Scene(p),
           NEW r \in LimitMemory(Noted(s, p, type))
    PROVE  /\ StackInv(r) /\ StateInv(r, q) /\ Recorded(s, p, r)
           /\ \A f : SavedOK(s, p, f) /\ ~MarkReleased(s) /\ MarkKept(r) => SavedOK(r, q, f)
<1> DEFINE k == TakeSnapshot(s, p, type)
           n == Noted(s, p, type)
<1>1. s \in Stack /\ Histories(s) /\ Ordered(Times(s)) /\ p \in Projects /\ s.active \in Times(s)
  BY DEF StackInv, StateInv
<1>2. /\ Times(s) \in SUBSET Nat /\ s.active \in Nat /\ s.current \in Nat
      /\ s.saved \in Nat \cup {Unknown}
  BY <1>1, StackFields
<1>3. s.active <= s.current
  <2>1. s.active < s.current \/ s.active = s.current
    BY <1>1 DEF StackInv
  <2> QED BY <1>2, <2>1
<1>4. StackInv(k)
  BY <1>1, TakeValid
<1>5. /\ StateInv(k, q) /\ s.current \in Kept(k) /\ Loaded(k, s.current) = p
      /\ \A u \in Kept(k) : \/ u = s.current
                            \/ u \in Kept(s) /\ u < s.active /\ Loaded(k, u) = Loaded(s, u)
  BY <1>1, TakeStates
<1>6. /\ k.active = s.current + 1 /\ k.current = s.current + 1
      /\ Times(k) = {u \in Times(s) : u < s.active} \cup {s.current, s.current + 1}
      /\ \A u \in Times(s) : u < s.active => k.snapshots[u] = s.snapshots[u]
      /\ k.snapshots[s.current] = [type |-> type, captured |-> TRUE]
      /\ k.snapshots[s.current + 1] = [type |-> type, captured |-> FALSE]
  BY <1>1, <1>3, TakeOK
<1>7. Recorded(s, p, k)
  BY <1>5, <1>6 DEF Recorded
<1>8. \A f : SavedOK(s, p, f) /\ ~MarkReleased(s) => SavedOK(k, q, f)
  <2> SUFFICES ASSUME NEW f, SavedOK(s, p, f), ~MarkReleased(s) PROVE SavedOK(k, q, f)
    OBVIOUS
  <2>1. k.saved = IF s.saved = s.active /\ s.active \in Times(s) THEN s.current ELSE s.saved
    <3>1. \E u \in Times(s) : u < s.active
      BY DEF StackInv
    <3> QED BY <1>1, <3>1, TakeSaved
  <2> HIDE DEF k
  <2>2. CASE s.saved = Unknown
    BY <1>2, <2>1, <2>2 DEF SavedOK, Unknown
  <2>3. CASE s.saved = s.active
    <3>1. Scene(p) = f
      <4>1. s.saved # Unknown
        BY <1>2, <2>3 DEF Unknown
      <4> QED BY <2>3, <4>1 DEF SavedOK, StateInv
    <3>2. StateAt(k, q, s.current) = p /\ s.current \in Times(k)
      BY <1>5, <1>6 DEF StateAt
    <3> QED BY <1>1, <2>1, <2>3, <3>1, <3>2 DEF SavedOK
  <2>4. CASE s.saved # Unknown /\ s.saved # s.active
    <3>1. s.saved < s.active /\ s.saved \in Times(s) /\ Scene(StateAt(s, p, s.saved)) = f
      BY <1>2, <2>4 DEF SavedOK, MarkReleased
    <3>2. s.snapshots[s.saved].captured
      <4>1. s.saved # s.active
        BY <2>4
      <4> QED BY <3>1, <4>1 DEF StackInv
    <3>3. s.saved \in Kept(k) /\ s.saved \in Times(k)
      BY <1>6, <3>1, <3>2 DEF Kept
    <3>4. s.saved # s.current
      BY <1>2, <1>3, <3>1
    <3>5. StateAt(k, q, s.saved) = Loaded(s, s.saved)
      BY <1>5, <3>3, <3>4 DEF StateAt, Kept
    <3>6. StateAt(s, p, s.saved) = Loaded(s, s.saved)
      BY <3>2 DEF StateAt
    <3> QED BY <2>1, <2>4, <3>1, <3>3, <3>5, <3>6 DEF SavedOK
  <2> QED BY <2>2, <2>3, <2>4
<1> HIDE DEF k
<1>9. /\ StackInv(n) /\ StateInv(n, q) /\ Recorded(s, p, n)
      /\ \A f : SavedOK(k, q, f) => SavedOK(n, q, f) \/ ~MarkKept(n)
  <2>1. CASE type # "LeavingGizmoWithAction"
    <3>1. n = k
      BY <2>1 DEF Noted, k
    <3> QED BY <1>4, <1>5, <1>7, <3>1
  <2>2. CASE type = "LeavingGizmoWithAction"
    <3>1. n = ReduceNoisySnapshots(k)
      BY <2>2 DEF Noted, k
    <3>2. TypeAt(k, k.active) # "GizmoAction" /\ TypeAt(k, s.current) # "GizmoAction"
      BY <1>6, <2>2 DEF TypeAt
    <3> HIDE DEF n
    <3>2a. IsLast(k, k.active)
      BY <1>2, <1>3, <1>6 DEF IsLast
    <3>3. /\ StackInv(n) /\ Thinned(k, n)
          /\ UsedInv(k) => Served(k, n)
          /\ Times(n) = Times(k) \ Noisy(k)
          /\ n.saved = k.saved \/ n.saved = Unknown
          /\ \A a, b \in Times(n) : Quiet(n, a, b) => Quiet(k, a, b)
      BY <1>4, <3>1, <3>2, <3>2a, ReduceOK
    <3>4. StateInv(n, q) /\ \A t \in Times(n) : StateAt(n, q, t) = StateAt(k, q, t)
      <4>1. Served(k, n)
        BY <1>5, <3>3 DEF StateInv
      <4> QED BY <1>5, <3>3, <4>1, ThinnedStates
    <3>5. s.current \in Times(n)
      <4>1. s.current \notin Noisy(k)
        BY <3>2 DEF Noisy
      <4> QED BY <1>6, <3>3, <4>1
    <3>6. Recorded(s, p, n)
      BY <1>7, <3>3, <3>5, RecordedThinned
    <3>7. \A f : SavedOK(k, q, f) => SavedOK(n, q, f) \/ ~MarkKept(n)
      BY <3>3, <3>4 DEF SavedOK, MarkKept
    <3> QED BY <3>3, <3>4, <3>6, <3>7
  <2> QED BY <2>1, <2>2
<1>10. r \in LimitMemory(n)
  OBVIOUS
<1> HIDE DEF n
<1>11. StackInv(r) /\ Thinned(n, r) /\ r.saved = n.saved
  BY <1>9, <1>10, LimitOK
<1>12. /\ StateInv(r, q)
       /\ \A f : SavedOK(n, q, f) /\ MarkKept(r) => SavedOK(r, q, f)
  BY <1>9, <1>10, LimitStates
<1>13. Recorded(s, p, r)
  BY <1>9, <1>10, RecordedLimited
<1>14. MarkKept(r) => MarkKept(n)
  BY <1>11 DEF MarkKept, Thinned
<1> QED BY <1>8, <1>9, <1>11, <1>12, <1>13, <1>14

\* The mark on the active snapshot.
LEMMA MarkOK ==
    ASSUME NEW s, NEW p, StackInv(s), StateInv(s, p), NEW r, r = MarkSaved(s)
    PROVE  /\ StackInv(r) /\ StateInv(r, p) /\ SavedOK(r, p, Scene(p))
           /\ r.active = s.active /\ r.current = s.current /\ r.saved = s.active
           /\ Kept(r) = Kept(s) /\ Times(r) = Times(s)
           /\ \A t : Loaded(r, t) = Loaded(s, t)
           /\ ~ProjectModified(r)
<1>1. s \in Stack /\ s.active \in Nat /\ Times(s) \in SUBSET Nat
  BY StackFields DEF StackInv
<1>2. /\ r.objects = s.objects /\ r.snapshots = s.snapshots
      /\ r.active = s.active /\ r.current = s.current /\ r.saved = s.active
  BY <1>1 DEF Stack, MarkSaved
<1>3. r \in Stack
  BY <1>1 DEF Stack, MarkSaved
<1>4. Times(r) = Times(s) /\ Kept(r) = Kept(s) /\ \A t : Loaded(r, t) = Loaded(s, t)
  BY <1>2 DEF Times, Kept, Loaded
<1>5. \A t : StateAt(r, p, t) = StateAt(s, p, t) /\ TypeAt(r, t) = TypeAt(s, t)
  BY <1>2, <1>4 DEF StateAt, TypeAt
<1>6. StackInv(r)
  BY <1>2, <1>3, <1>4 DEF StackInv, Histories, IsLast
<1>7. StateInv(r, p)
  <2>1. \A a, b : Quiet(r, a, b) => Quiet(s, a, b)
    BY <1>4, <1>5 DEF Quiet
  <2>2. UsedInv(r)
    BY <1>2, SameUsed DEF StateInv
  <2> QED BY <1>2, <1>4, <1>5, <2>1, <2>2 DEF StateInv
<1>8. SavedOK(r, p, Scene(p))
  BY <1>2, <1>4, <1>5 DEF SavedOK, StateInv, StackInv
<1>9. ~ProjectModified(r)
  <2>1. r.saved # Unknown
    BY <1>1, <1>2 DEF Unknown
  <2>2. \A t \in Times(r) : ~((r.saved <= t /\ t < r.active) \/ (r.active <= t /\ t < r.saved))
    BY <1>1, <1>2, <1>4
  <2> QED BY <2>1, <2>2 DEF ProjectModified
<1> QED BY <1>2, <1>4, <1>6, <1>7, <1>8, <1>9

\* The snapshot that NewProject takes, on a stack that may be cleared first.
LEMMA ProjectRenewed ==
    ASSUME NEW s, NEW p \in Projects, (StackInv(s) /\ StateInv(s, p)) \/ s = Empty,
           NEW q \in Projects,
           NEW r \in LimitMemory(MarkSaved(TakeSnapshot(s, p, "ProjectSeparator")))
    PROVE  StackInv(r) /\ StateInv(r, q) /\ Recorded(s, p, r) /\ SavedOK(r, q, Scene(q))
<1> DEFINE k == TakeSnapshot(s, p, "ProjectSeparator")
           n == MarkSaved(k)
<1>1. "ProjectSeparator" \in Type /\ ModifiesProject("ProjectSeparator")
  BY DEF Type, ModifiesProject
<1>2. s \in Stack /\ Histories(s) /\ s.active <= s.current
  <2>1. CASE s = Empty
    BY <2>1, EmptyStack
  <2>2. CASE StackInv(s)
    <3>1. s \in Stack /\ Histories(s) /\ s.active \in Nat /\ s.current \in Nat
      BY <2>2, StackFields DEF StackInv
    <3>2. s.active < s.current \/ s.active = s.current
      BY <2>2 DEF StackInv
    <3> QED BY <3>1, <3>2
  <2> QED BY <2>1, <2>2
<1>3. StackInv(k)
  BY <1>1, TakeValid
<1>4. /\ StateInv(k, q) /\ s.current \in Kept(k) /\ Loaded(k, s.current) = p
      /\ \A u \in Kept(k) : \/ u = s.current
                            \/ u \in Kept(s) /\ u < s.active /\ Loaded(k, u) = Loaded(s, u)
  BY <1>1, TakeStates
<1>5. k.active = s.current + 1 /\ k.current = s.current + 1
  BY <1>1, <1>2, TakeOK
<1>6. Recorded(s, p, k)
  BY <1>4, <1>5 DEF Recorded
<1>7. /\ StackInv(n) /\ StateInv(n, q) /\ SavedOK(n, q, Scene(q))
      /\ n.active = k.active /\ n.current = k.current /\ n.saved = k.active
      /\ Kept(n) = Kept(k)
      /\ \A t : Loaded(n, t) = Loaded(k, t)
  <2> HIDE DEF k
  <2> QED BY <1>3, <1>4, MarkOK
<1>8. r \in LimitMemory(n)
  OBVIOUS
<1> HIDE DEF n, k
<1>9. Recorded(s, p, n)
  BY <1>6, <1>7 DEF Recorded
<1>10. StackInv(r) /\ Thinned(n, r) /\ r.saved = n.saved
  BY <1>7, <1>8, LimitOK
<1>11. MarkKept(r)
  BY <1>7, <1>10 DEF MarkKept, Thinned
<1>12. StateInv(r, q) /\ SavedOK(r, q, Scene(q))
  BY <1>7, <1>8, <1>11, LimitStates
<1>13. Recorded(s, p, r)
  BY <1>7, <1>8, <1>9, RecordedLimited
<1> QED BY <1>10, <1>12, <1>13

\* The stack r that a jump from s to the time t leaves.
Jumped(s, p, t, r) ==
    /\ r.active = t /\ t \in Kept(r)
    /\ \A u \in Kept(r) : u \in Times(s) /\ Loaded(r, u) = StateAt(s, p, u)

\* A jump as Undo and Redo make it.
LEMMA JumpMade ==
    ASSUME NEW s, NEW p, StackInv(s), StateInv(s, p), NEW k, Captured(s, p, k),
           NEW t \in Times(s), \E u \in Times(s) : u < t,
           NEW r \in LimitMemory([k EXCEPT !.active = t]), NEW q, q = Loaded(k, t)
    PROVE  /\ StackInv(r) /\ StateInv(r, q) /\ r.current = k.current
           /\ Jumped(s, p, t, r) /\ Loaded(r, t) = q
           /\ \A f : SavedOK(s, p, f) /\ MarkKept(r) => SavedOK(r, q, f)
<1> DEFINE j == [k EXCEPT !.active = t]
<1>1. r \in LimitMemory(j) /\ j = [k EXCEPT !.active = t]
  OBVIOUS
<1> HIDE DEF j
<1>2. /\ StackInv(j) /\ StateInv(j, q)
      /\ j.active = t /\ j.current = k.current
      /\ Kept(j) = Times(s) /\ Times(j) = Times(s)
      /\ \A u \in Times(s) : Loaded(j, u) = StateAt(s, p, u)
      /\ \A f : SavedOK(s, p, f) => SavedOK(j, q, f)
  BY <1>1, JumpOK
<1>3. StackInv(r) /\ Thinned(j, r)
  BY <1>1, <1>2, LimitOK
<1>4. /\ StateInv(r, q) /\ Kept(r) = Kept(j) \cap Times(r)
      /\ \A f : SavedOK(j, q, f) /\ MarkKept(r) => SavedOK(r, q, f)
  BY <1>1, <1>2, LimitStates
<1>5. Jumped(s, p, t, r)
  BY <1>2, <1>3, <1>4 DEF Jumped, Thinned
<1>6. Loaded(r, t) = q
  <2>1. Loaded(k, t) = StateAt(s, p, t)
    BY DEF Captured
  <2> QED BY <1>5, <2>1 DEF Jumped
<1> QED BY <1>2, <1>3, <1>4, <1>5, <1>6 DEF Thinned

-----------------------------------------------------------------------------
(* The invariant *)

\* The plater's first snapshot is the first one of a valid stack.
LEMMA InitInv == Init => IInv /\ Recorded(Empty, project, stack)
<1> SUFFICES ASSUME Init PROVE IInv /\ Recorded(Empty, project, stack)
  OBVIOUS
<1>1. /\ project \in Projects
      /\ stack = MarkSaved(TakeSnapshot(Empty, project, "ProjectSeparator"))
      /\ file = Scene(project) /\ dirty = FALSE
  BY DEF Init
<1>2. stack \in LimitMemory(stack)
  BY DEF LimitMemory
<1>3. /\ StackInv(stack) /\ StateInv(stack, project)
      /\ Recorded(Empty, project, stack) /\ SavedOK(stack, project, Scene(project))
  BY <1>1, <1>2, ProjectRenewed
<1>4. stack.current <= MaxTime
  BY <1>3, UndoRedoAssumption DEF Recorded, Empty
<1>5. ~ProjectModified(stack)
  <2> DEFINE k == TakeSnapshot(Empty, project, "ProjectSeparator")
  <2>1. StackInv(k)
    BY <1>1, TakeValid DEF Type
  <2>2. StateInv(k, project)
    <3>1. "ProjectSeparator" \in Type /\ ModifiesProject("ProjectSeparator")
      BY DEF Type, ModifiesProject
    <3> QED BY <1>1, <3>1, TakeStates
  <2>3. stack = MarkSaved(k)
    BY <1>1
  <2> HIDE DEF k
  <2> QED BY <2>1, <2>2, <2>3, MarkOK
<1>6. dirty = ProjectModified(stack)
  BY <1>1, <1>5 DEF ProjectModified
<1> QED BY <1>1, <1>3, <1>4, <1>6 DEF IInv

\* Changing the gizmos is not changing the scene.
LEMMA GizmosNotInScene ==
    ASSUME NEW p \in Projects, NEW g \in {Open, Closed}
    PROVE  [p EXCEPT ![Gizmos] = g] \in Projects /\ Scene([p EXCEPT ![Gizmos] = g]) = Scene(p)
<1>1. p = [o \in Objects |-> p[o]] /\ [p EXCEPT ![Gizmos] = g] \in Projects
  BY UndoRedoAssumption
<1>2. \A o \in Objects \ {Gizmos} : [p EXCEPT ![Gizmos] = g][o] = p[o]
  BY <1>1
<1> QED BY <1>1, <1>2 DEF Scene

\* What a command is to the history: a state recorded, on this or on a new
\* stack, a jump in time, or nothing.
Command ==
    \/ \E s \in {stack, Empty} : s.current < MaxTime /\ Recorded(s, project, stack')
    \/ \E t \in Times(stack) :
          t # stack.active /\ Jumped(stack, project, t, stack') /\ Loaded(stack', t) = project'
    \/ /\ stack'.active = stack.active /\ project' = project
       /\ Kept(stack') = Kept(stack) /\ \A t : Loaded(stack', t) = Loaded(stack, t)

\* Every command keeps the invariant.
LEMMA CommandKeepsInv == IInv /\ [Next]_vars => IInv' /\ Command
<1> SUFFICES ASSUME IInv, [Next]_vars PROVE IInv' /\ Command
  OBVIOUS
<1>1. /\ StackInv(stack) /\ StateInv(stack, project) /\ project \in Projects
      /\ ~moved => SavedOK(stack, project, file)
      /\ dirty = ProjectModified(stack)
      /\ stack.current \in Nat /\ stack.current <= MaxTime /\ MaxTime \in Nat /\ 0 < MaxTime
  BY StackFields, UndoRedoAssumption DEF IInv, StackInv, StateInv
<1>2. ASSUME NEW type \in Type, project' \in Projects,
             ~ModifiesProject(type) => Scene(project') = Scene(project),
             Limited(Noted(stack, project, type)), Snapshot(type, project')
      PROVE  IInv' /\ Command
  <2>1. /\ stack' \in LimitMemory(Noted(stack, project, type))
        /\ dirty' = ProjectModified(stack')
        /\ stack.current < MaxTime /\ file' = file
        /\ ~moved' => ~moved /\ ~MarkReleased(stack) /\ MarkKept(stack')
    BY <1>2 DEF Limited, Snapshot
  <2>2. /\ StackInv(stack') /\ StateInv(stack', project')
        /\ Recorded(stack, project, stack')
        /\ \A f : SavedOK(stack, project, f) /\ ~MarkReleased(stack) /\ MarkKept(stack')
                     => SavedOK(stack', project', f)
    BY <1>1, <1>2, <2>1, SnapshotTaken
  <2>3. ~moved' => SavedOK(stack', project', file')
    BY <1>1, <2>1, <2>2
  <2>4. stack'.current <= MaxTime
    BY <1>1, <2>1, <2>2 DEF Recorded
  <2> QED BY <2>1, <2>2, <2>3, <2>4 DEF IInv, Command
<1>3. CASE Edit
  <2>1. PICK p \in Projects :
          LET type == IF project[Gizmos] = Open THEN "GizmoAction" ELSE "Action"
          IN Limited(TakeSnapshot(stack, project, type)) /\ Snapshot(type, p)
    BY <1>3 DEF Edit
  <2>2. project' = p
    BY <2>1 DEF Snapshot
  <2>3. CASE project[Gizmos] = Open
    <3>1. "GizmoAction" \in Type /\ ModifiesProject("GizmoAction")
      BY DEF Type, ModifiesProject
    <3>2. Noted(stack, project, "GizmoAction") = TakeSnapshot(stack, project, "GizmoAction")
      BY DEF Noted
    <3>3. Limited(Noted(stack, project, "GizmoAction")) /\ Snapshot("GizmoAction", project')
      BY <2>1, <2>2, <2>3, <3>2 DEF Limited
    <3> QED BY <1>2, <2>2, <3>1, <3>3
  <2>4. CASE project[Gizmos] # Open
    <3>1. "Action" \in Type /\ ModifiesProject("Action")
      BY DEF Type, ModifiesProject
    <3>2. Noted(stack, project, "Action") = TakeSnapshot(stack, project, "Action")
      BY DEF Noted
    <3>3. Limited(Noted(stack, project, "Action")) /\ Snapshot("Action", project')
      BY <2>1, <2>2, <2>4, <3>2 DEF Limited
    <3> QED BY <1>2, <2>2, <3>1, <3>3
  <2> QED BY <2>3, <2>4
<1>4. CASE Select
  <2>1. "Selection" \in Type
    BY DEF Type
  <2>2. Noted(stack, project, "Selection") = TakeSnapshot(stack, project, "Selection")
    BY DEF Noted
  <2>3. project' = project /\ Snapshot("Selection", project')
    BY <1>4 DEF Select, Snapshot
  <2>4. Limited(Noted(stack, project, "Selection"))
    BY <1>4, <2>2 DEF Select, Limited
  <2> QED BY <1>1, <1>2, <2>1, <2>3, <2>4
<1>5. CASE EnterGizmo
  <2>1. "EnteringGizmo" \in Type
    BY DEF Type
  <2>2. Noted(stack, project, "EnteringGizmo") = TakeSnapshot(stack, project, "EnteringGizmo")
    BY DEF Noted
  <2>3. project' = [project EXCEPT ![Gizmos] = Open] /\ Snapshot("EnteringGizmo", project')
    BY <1>5 DEF EnterGizmo, Snapshot
  <2>4. Limited(Noted(stack, project, "EnteringGizmo"))
    BY <1>5, <2>2 DEF EnterGizmo, Limited
  <2>5. project' \in Projects /\ Scene(project') = Scene(project)
    BY <1>1, <2>3, GizmosNotInScene
  <2> QED BY <1>2, <2>1, <2>3, <2>4, <2>5
<1>6. CASE LeaveGizmo
  <2> DEFINE type == "LeavingGizmoWithAction"
  <2>1. type \in Type
    BY DEF Type
  <2>2. Noted(stack, project, type) = ReduceNoisySnapshots(TakeSnapshot(stack, project, type))
    BY DEF Noted
  <2>3. project' = [project EXCEPT ![Gizmos] = Closed] /\ Snapshot(type, project')
    BY <1>6 DEF LeaveGizmo, Snapshot
  <2>4. Limited(Noted(stack, project, type))
    BY <1>6, <2>2 DEF LeaveGizmo, Limited
  <2>5. project' \in Projects /\ Scene(project') = Scene(project)
    BY <1>1, <2>3, GizmosNotInScene
  <2> HIDE DEF type
  <2> QED BY <1>2, <2>1, <2>3, <2>4, <2>5
<1>7. CASE NewProject
  <2>1. PICK p \in Projects, old \in {stack, Empty} :
          /\ stack.current < MaxTime
          /\ Limited(MarkSaved(TakeSnapshot(old, project, "ProjectSeparator")))
          /\ project' = p /\ file' = Scene(p) /\ moved' = FALSE
    BY <1>7 DEF NewProject
  <2>2. /\ stack' \in LimitMemory(MarkSaved(TakeSnapshot(old, project, "ProjectSeparator")))
        /\ dirty' = ProjectModified(stack')
    BY <2>1 DEF Limited
  <2>3. (StackInv(old) /\ StateInv(old, project)) \/ old = Empty
    BY <1>1, <2>1
  <2>4. /\ StackInv(stack') /\ StateInv(stack', p) /\ Recorded(old, project, stack')
        /\ SavedOK(stack', p, Scene(p))
    BY <1>1, <2>2, <2>3, ProjectRenewed
  <2>5. old.current < MaxTime /\ old.current \in Nat
    BY <1>1, <2>1, EmptyStack
  <2>6. stack'.current <= MaxTime
    BY <1>1, <2>4, <2>5 DEF Recorded
  <2> QED BY <2>1, <2>2, <2>4, <2>5, <2>6 DEF IInv, Command
<1>8. CASE Save
  <2>1. /\ stack' = MarkSaved(stack) /\ file' = Scene(project) /\ dirty' = FALSE
        /\ project' = project
    BY <1>8 DEF Save
  <2>2. /\ StackInv(stack') /\ StateInv(stack', project)
        /\ SavedOK(stack', project, Scene(project))
        /\ stack'.active = stack.active /\ stack'.current = stack.current
        /\ Kept(stack') = Kept(stack)
        /\ \A t : Loaded(stack', t) = Loaded(stack, t)
        /\ ~ProjectModified(stack')
    BY <1>1, <2>1, MarkOK
  <2>3. dirty' = ProjectModified(stack')
    BY <2>1, <2>2 DEF ProjectModified
  <2> QED BY <1>1, <2>1, <2>2, <2>3 DEF IInv, Command
<1>9. ASSUME NEW t \in Times(stack), t # stack.active, \E u \in Times(stack) : u < t,
             NEW k, Captured(stack, project, k), k.current <= MaxTime,
             stack' \in LimitMemory([k EXCEPT !.active = t]),
             dirty' = ProjectModified(stack'),
             project' = Loaded(k, t), file' = file,
             moved' = (moved \/ ~MarkKept(stack'))
      PROVE  IInv' /\ Command
  <2>1. /\ StackInv(stack') /\ StateInv(stack', project') /\ stack'.current = k.current
        /\ Jumped(stack, project, t, stack') /\ Loaded(stack', t) = project'
        /\ \A f : SavedOK(stack, project, f) /\ MarkKept(stack') => SavedOK(stack', project', f)
    BY <1>1, <1>9, JumpMade
  <2>2. ~moved' => ~moved /\ MarkKept(stack')
    BY <1>9
  <2>3. ~moved' => SavedOK(stack', project', file')
    BY <1>1, <1>9, <2>1, <2>2
  <2> QED BY <1>9, <2>1, <2>3 DEF IInv, Command
<1>10. CASE Undo
  <2>1. PICK t \in Times(stack) :
          /\ t < stack.active
          /\ \E u \in Times(stack) : u < t
          /\ \/ IsCaptured(stack) /\ JumpTo(stack, t)
             \/ /\ ~IsCaptured(stack)
                /\ stack.current < MaxTime
                /\ \E type \in UninitializedType : JumpTo(Capture(stack, project, type), t)
    BY <1>10 DEF Undo
  <2>2. t # stack.active
    BY <1>1, <2>1, StackFields DEF StackInv
  <2>3. CASE IsCaptured(stack)
    <3>1. Captured(stack, project, stack)
      BY <1>1, <2>3, CapturedItself
    <3>2. JumpTo(stack, t)
      BY <2>1, <2>3
    <3> QED BY <1>1, <1>9, <2>1, <2>2, <3>1, <3>2 DEF JumpTo, Limited
  <2>4. CASE ~IsCaptured(stack)
    <3>1. PICK type \in UninitializedType : JumpTo(Capture(stack, project, type), t)
      BY <2>1, <2>4
    <3>2. type \in Type
      BY DEF UninitializedType, Type
    <3> DEFINE k == Capture(stack, project, type)
    <3>3. Captured(stack, project, k) /\ k.current = stack.current + 1
      BY <1>1, <2>4, <3>2, CaptureOK
    <3>4. JumpTo(k, t)
      BY <3>1
    <3> HIDE DEF k
    <3>5. k.current <= MaxTime
      BY <1>1, <2>1, <2>4, <3>3
    <3> QED BY <1>9, <2>1, <2>2, <3>3, <3>4, <3>5 DEF JumpTo, Limited
  <2> QED BY <2>3, <2>4
<1>11. CASE Redo
  <2>1. PICK t \in Times(stack) : t > stack.active /\ JumpTo(stack, t)
    BY <1>11 DEF Redo
  <2>2. /\ Times(stack) \in SUBSET Nat /\ stack.active \in Nat /\ stack.active \in Times(stack)
    BY <1>1, StackFields DEF StackInv
  <2>3. t # stack.active /\ \E u \in Times(stack) : u < t
    BY <2>1, <2>2
  <2>4. IsCaptured(stack)
    <3>1. ~(t <= stack.active)
      BY <2>1, <2>2
    <3> QED BY <1>1, <2>2, <3>1 DEF StackInv, IsCaptured, IsLast
  <2>5. Captured(stack, project, stack)
    BY <1>1, <2>4, CapturedItself
  <2> QED BY <1>1, <1>9, <2>1, <2>3, <2>5 DEF JumpTo, Limited
<1>12. CASE UNCHANGED vars
  <2>1. /\ stack' = stack /\ project' = project /\ file' = file
        /\ dirty' = dirty /\ moved' = moved
    BY <1>12 DEF vars
  <2> QED BY <1>1, <2>1 DEF IInv, Command
<1> QED BY <1>3, <1>4, <1>5, <1>6, <1>7, <1>8, <1>10, <1>11, <1>12 DEF Next

\* The invariant holds of every state, for any objects and any projects.
THEOREM UndoInvariance == Spec => []IInv
<1>1. Init => IInv
  BY InitInv
<1>2. IInv /\ [Next]_vars => IInv'
  BY CommandKeepsInv
<1> QED BY <1>1, <1>2, PTL DEF Spec

-----------------------------------------------------------------------------
(* The properties *)

\* What the invariant says of the representation, and of the saved state.
LEMMA SafeStack == IInv => Valid /\ NothingLeaks /\ UnmodifiedIsSaved
<1> SUFFICES ASSUME IInv PROVE Valid /\ NothingLeaks /\ UnmodifiedIsSaved
  OBVIOUS
<1>1. StackInv(stack) /\ StateInv(stack, project) /\ stack.current <= MaxTime
  BY DEF IInv
<1>2. /\ Times(stack) \in SUBSET Nat /\ stack.active \in Nat /\ stack.active \in Times(stack)
      /\ stack.saved \in Nat \cup {Unknown}
  BY <1>1, StackFields DEF StackInv
<1>3. Valid
  <2>1. \A o \in Objects : \A i, j \in stack.objects[o] :
          /\ i.begin < i.end
          /\ i = j \/ i.end <= j.begin \/ j.end <= i.begin
    BY <1>1 DEF StackInv, Histories, Disjoint
  <2>2. \A t \in Times(stack) :
          \/ stack.snapshots[t].captured /\ t < stack.current
          \/ t = stack.active /\ t = stack.current /\ IsLast(stack, t)
    BY <1>1 DEF StackInv
  <2>3. stack.active \in Times(stack) /\ \E t \in Times(stack) : t < stack.active
    BY <1>1 DEF StackInv
  <2> QED BY <1>1, <2>1, <2>2, <2>3 DEF Valid
<1>4. NothingLeaks
  BY <1>1 DEF StateInv, UsedInv, Covers, NothingLeaks
<1>5. UnmodifiedIsSaved
  <2> SUFFICES ASSUME ~moved, ~dirty PROVE Scene(project) = file
    BY DEF UnmodifiedIsSaved
  <2>1. SavedOK(stack, project, file) /\ ~ProjectModified(stack)
    BY DEF IInv
  <2>2. /\ stack.saved # Unknown
        /\ \A t \in Times(stack) : ModifiesProject(TypeAt(stack, t)) =>
              ~((stack.saved <= t /\ t < stack.active) \/ (stack.active <= t /\ t < stack.saved))
    BY <2>1 DEF ProjectModified
  <2>3. stack.saved \in Times(stack) /\ Scene(StateAt(stack, project, stack.saved)) = file
    BY <2>1, <2>2 DEF SavedOK
  <2>4. Quiet(stack, stack.saved, stack.active) /\ Quiet(stack, stack.active, stack.saved)
    BY <2>2 DEF Quiet
  <2>5. Scene(StateAt(stack, project, stack.active)) = Scene(StateAt(stack, project, stack.saved))
    <3>1. CASE stack.saved < stack.active
      BY <1>1, <1>2, <2>3, <2>4, <3>1 DEF StateInv
    <3>2. CASE stack.active < stack.saved
      BY <1>1, <1>2, <2>3, <2>4, <3>2 DEF StateInv
    <3>3. CASE stack.active = stack.saved
      BY <3>3
    <3> QED BY <1>2, <2>3, <3>1, <3>2, <3>3
  <2> QED BY <1>1, <2>3, <2>5 DEF StateInv
<1> QED BY <1>3, <1>4, <1>5

\* StackImpl::valid() holds after every command, for any objects, projects and
\* number of snapshots.
THEOREM StackValid == Spec => []Valid
  BY UndoInvariance, SafeStack, PTL

\* Every interval of the history of every object holds its content at some
\* snapshot of the stack: none is left before the first snapshot, between two of
\* them or after the last.
THEOREM NothingLeaked == Spec => []NothingLeaks
  BY UndoInvariance, SafeStack, PTL

\* A project that is not shown as modified is the one in its file, while the
\* snapshot it was saved at is on the stack.
THEOREM UnmodifiedSaved == Spec => []UnmodifiedIsSaved
  BY UndoInvariance, SafeStack, PTL

\* The stack implements a history of whole states: a jump in time shows again
\* exactly the state that was there.
THEOREM HistoryImplemented == Spec => ImplementsHistory
<1>1. Init => History!Init
  <2> SUFFICES ASSUME Init PROVE History!Init
    OBVIOUS
  <2>1. StackInv(stack) /\ StateInv(stack, project) /\ Recorded(Empty, project, stack)
    BY InitInv DEF IInv
  <2>3. Kept(stack) = {0} /\ Loaded(stack, 0) = project /\ stack.active = 1
    BY <2>1, EmptyStack DEF Recorded
  <2>4. project \in Projects
    BY <2>1 DEF StateInv
  <2>5. {u \in Times(stack) : stack.snapshots[u].captured} = {0}
    BY <2>3 DEF Kept
  <2>6. [t \in {u \in Times(stack) : stack.snapshots[u].captured} |-> Loaded(stack, t)]
           = [t \in {0} |-> project]
    BY <2>3, <2>5
  <2> QED BY <2>3, <2>4, <2>6 DEF History!Init
<1>2. IInv /\ [Next]_vars => [History!Next]_(History!vars)
  <2> SUFFICES ASSUME IInv, [Next]_vars PROVE [History!Next]_(History!vars)
    OBVIOUS
  <2> DEFINE kept == [t \in {u \in Times(stack) : stack.snapshots[u].captured} |-> Loaded(stack, t)]
  <2>1. IInv' /\ Command
    BY CommandKeepsInv
  <2>2. /\ StackInv(stack) /\ StackInv(stack') /\ StateInv(stack', project')
        /\ stack.current \in Nat /\ stack.active \in Nat /\ stack.active \in Times(stack)
        /\ MaxTime \in Nat /\ 0 < MaxTime /\ stack.current <= MaxTime
        /\ StateAt(stack, project, stack.active) = project
    BY <2>1, StackFields, UndoRedoAssumption DEF IInv, StackInv, StateInv
  <2>3. /\ DOMAIN kept = Kept(stack) /\ \A t \in Kept(stack) : kept[t] = Loaded(stack, t)
        /\ kept = [t \in Kept(stack) |-> Loaded(stack, t)]
    BY DEF Kept
  <2>4. /\ DOMAIN kept' = Kept(stack') /\ \A t \in Kept(stack') : kept'[t] = Loaded(stack', t)
        /\ kept' = [t \in Kept(stack') |-> Loaded(stack', t)]
    BY DEF Kept
  <2> HIDE DEF kept
  <2>5. CASE \E s \in {stack, Empty} : s.current < MaxTime /\ Recorded(s, project, stack')
    <3>1. PICK s \in {stack, Empty} : s.current < MaxTime /\ Recorded(s, project, stack')
      BY <2>5
    <3>2. s.current \in 0 .. MaxTime
      BY <2>2, <3>1 DEF Empty
    <3>3. /\ stack'.active = s.current + 1 /\ project' \in Projects
          /\ s.current \in DOMAIN kept'
      BY <2>2, <2>4, <3>1 DEF Recorded, StateInv
    <3>4. \A u \in DOMAIN kept' :
            IF u \in {v \in DOMAIN kept : v < stack.active /\ v < s.current}
            THEN kept'[u] = kept[u] ELSE u = s.current /\ kept'[u] = project
      <4> SUFFICES ASSUME NEW u \in Kept(stack')
                   PROVE  IF u \in {v \in Kept(stack) : v < stack.active /\ v < s.current}
                          THEN kept'[u] = kept[u] ELSE u = s.current /\ kept'[u] = project
        BY <2>3, <2>4
      <4>1. CASE u = s.current
        <5>1. kept'[u] = project
          BY <2>4, <3>1, <4>1 DEF Recorded
        <5>2. ~(u < s.current)
          BY <3>2, <4>1
        <5> QED BY <4>1, <5>1, <5>2
      <4>2. CASE u # s.current
        <5>1. u \in Kept(s) /\ u < s.active /\ Loaded(stack', u) = Loaded(s, u)
          BY <3>1, <4>2 DEF Recorded
        <5>2. s = stack
          BY <3>1, <5>1, EmptyStack
        <5>3. kept'[u] = kept[u]
          BY <2>3, <2>4, <5>1, <5>2
        <5>4. u < s.current
          BY <2>2, <5>1, <5>2 DEF Kept, StackInv
        <5> QED BY <5>1, <5>2, <5>3, <5>4
      <4> QED BY <4>1, <4>2
    <3>5. History!Record(s.current)
      BY <3>3, <3>4 DEF History!Record, History!Keep, kept
    <3> QED BY <3>2, <3>5 DEF History!Next
  <2>6. CASE \E t \in Times(stack) :
               t # stack.active /\ Jumped(stack, project, t, stack') /\ Loaded(stack', t) = project'
    <3>1. PICK t \in Times(stack) :
            t # stack.active /\ Jumped(stack, project, t, stack') /\ Loaded(stack', t) = project'
      BY <2>6
    <3>2. t \in 0 .. MaxTime
      <4>1. t \in Nat
        BY <2>2, StackFields DEF StackInv
      <4>2. t < stack.current
        BY <2>2, <3>1 DEF StackInv
      <4> QED BY <2>2, <4>1, <4>2
    <3>3. stack'.active = t /\ t \in DOMAIN kept' /\ project' = kept'[t]
      BY <2>4, <3>1 DEF Jumped
    <3>4. \A u \in DOMAIN kept' :
            IF u \in DOMAIN kept
            THEN kept'[u] = kept[u] ELSE u = stack.active /\ kept'[u] = project
      <4> SUFFICES ASSUME NEW u \in Kept(stack')
                   PROVE  IF u \in Kept(stack)
                          THEN kept'[u] = kept[u] ELSE u = stack.active /\ kept'[u] = project
        BY <2>3, <2>4
      <4>1. u \in Times(stack) /\ kept'[u] = StateAt(stack, project, u)
        BY <2>4, <3>1 DEF Jumped
      <4>2. CASE u \in Kept(stack)
        BY <2>3, <4>1, <4>2 DEF StateAt, Kept
      <4>3. CASE u \notin Kept(stack)
        <5>1. u = stack.active
          BY <2>2, <4>1, <4>3 DEF Kept, StackInv
        <5> QED BY <2>2, <4>1, <4>3, <5>1
      <4> QED BY <4>2, <4>3
    <3>5. History!Jump(t)
      BY <3>1, <3>3, <3>4 DEF History!Jump, History!Keep, kept
    <3> QED BY <3>2, <3>5 DEF History!Next
  <2>7. CASE /\ stack'.active = stack.active /\ project' = project
             /\ Kept(stack') = Kept(stack) /\ \A t : Loaded(stack', t) = Loaded(stack, t)
    <3>1. kept' = kept
      BY <2>3, <2>4, <2>7
    <3> QED BY <2>7, <3>1 DEF History!vars, kept
  <2> QED BY <2>1, <2>5, <2>6, <2>7 DEF Command
<1> QED BY <1>1, <1>2, UndoInvariance, PTL DEF Spec, ImplementsHistory, History!Spec
=============================================================================
