-------------------------- MODULE PrintStepsProofs --------------------------
(***************************************************************************)
(* Proofs about PrintSteps, for any set of objects: the invariants of its  *)
(* run.                                                                    *)
(***************************************************************************)
EXTENDS PrintSteps, TLAPS

-----------------------------------------------------------------------------
(* The tables of milestones.                                               *)

\* The milestones that process() works on in turn for every object, as pairs.
Before ==
    {<<"posSlice", "posPerimeters">>, <<"posPerimeters", "posPrepareInfill">>,
     <<"posPrepareInfill", "posInfill">>, <<"posInfill", "posIroning">>}

\* What is invalidated with milestone s.
With(s) == {s} \union Cascade[s]

\* Nothing that invalidation follows reads the copies.
LEMMA FollowedReads ==
    \A r \in Reads \ Overlooked : r[1] \in Steps /\ r[2] \in Steps
BY DEF Reads, Overlooked, Steps, PrintStep, PrintObjectStep

\* Cascade is a table of sets of milestones.
LEMMA CascadeType == \A s \in Steps : Cascade[s] \subseteq Steps
BY DEF Cascade, Steps, PrintStep, PrintObjectStep

\* invalidate_step() reaches all that reads, step by step, what it starts from.
LEMMA CascadeCloses ==
    ASSUME NEW s \in Steps, NEW r \in Reads \ Overlooked, r[2] \in With(s)
    PROVE  r[1] \in With(s)
<1>1. CASE s = "posSlice"
    BY <1>1, FollowedReads DEF With, Cascade, Steps, PrintStep, PrintObjectStep
<1>2. CASE s = "posPerimeters"
    BY <1>2 DEF With, Cascade, Reads, Overlooked, Steps, PrintStep, PrintObjectStep
<1>3. CASE s = "posPrepareInfill"
    BY <1>3 DEF With, Cascade, Reads, Overlooked, Steps, PrintStep, PrintObjectStep
<1>4. CASE s = "posInfill"
    BY <1>4 DEF With, Cascade, Reads, Overlooked, Steps, PrintStep, PrintObjectStep
<1>5. CASE s = "posSupportMaterial"
    BY <1>5 DEF With, Cascade, Reads, Overlooked, Steps, PrintStep, PrintObjectStep
<1>6. CASE s \in PrintStep
    BY <1>6 DEF With, Cascade, Reads, Overlooked, Steps, PrintStep, PrintObjectStep
<1>7. CASE s \in PrintObjectStep \ {"posSlice", "posPerimeters", "posPrepareInfill",
                                    "posInfill", "posSupportMaterial"}
    BY <1>7 DEF With, Cascade, Reads, Overlooked, Steps, PrintStep, PrintObjectStep
<1>8. QED
    BY <1>1, <1>2, <1>3, <1>4, <1>5, <1>6, <1>7 DEF Steps, PrintStep, PrintObjectStep

\* What the user can change is known to the tables.
LEMMA ChangesType == \A c \in Changes : c \subseteq Steps \union {"copies"}
BY DEF Changes, ObjectOptions, PrintOptions, CustomGCode, Moved, Added,
       Steps, PrintStep, PrintObjectStep

\* What is invalidated is what the changed option names, each with its cascade.
LEMMA InvalidatedIsClosed ==
    ASSUME NEW c \in Changes
    PROVE  /\ c \subseteq Invalidated[c]
           /\ Invalidated[c] \subseteq Steps \union {"copies"}
           /\ \A r \in Reads \ Overlooked :
                 r[2] \in Invalidated[c] => r[1] \in Invalidated[c]
<1>1. Invalidated[c] = c \union UNION {Cascade[s] : s \in c \intersect Steps}
    BY DEF Invalidated
<1>2. Invalidated[c] \subseteq Steps \union {"copies"}
    BY <1>1, ChangesType, CascadeType
<1>3. ASSUME NEW r \in Reads \ Overlooked, r[2] \in Invalidated[c]
      PROVE  r[1] \in Invalidated[c]
  <2>1. PICK s \in c \intersect Steps : r[2] \in With(s)
      BY <1>1, <1>3, FollowedReads DEF With
  <2>2. r[1] \in With(s)
      BY <2>1, CascadeCloses
  <2>3. QED
      BY <1>1, <2>1, <2>2 DEF With
<1>4. QED
    BY <1>1, <1>2, <1>3

\* A change affects no milestone that it does not invalidate.
LEMMA AffectedIsInvalidated ==
    ASSUME NEW c \in Changes
    PROVE  Affected[c] \subseteq Invalidated[c]
<1>1. Invalidated[c] \in Closed
    BY InvalidatedIsClosed DEF Closed
<1>2. Dependent(c) \subseteq Invalidated[c]
    BY <1>1, InvalidatedIsClosed DEF Dependent
<1>3. QED
    BY <1>2 DEF Affected

\* For one copy more, the milestones that move with the copies are enough.
LEMMA AddedIsInvalidated ==
    ASSUME NEW c \in {Moved, Moved \union {"psWipeTower"}}
    PROVE  Affected[Added] \intersect Steps \subseteq Invalidated[c]
<1>1. Added \in Changes /\ c \in Changes /\ Moved \in Changes
    BY DEF Changes
<1>2. Affected[Added] \subseteq Invalidated[Added]
    BY <1>1, AffectedIsInvalidated
<1>3. Added \intersect Steps = Moved
    BY DEF Added, Moved, Steps, PrintStep, PrintObjectStep
<1>4. Invalidated[Added] = Added \union UNION {Cascade[s] : s \in Moved}
    BY <1>1, <1>3 DEF Invalidated
<1>5. Moved \subseteq c \intersect Steps
    BY DEF Moved, Steps, PrintStep
<1>6. Invalidated[c] = c \union UNION {Cascade[s] : s \in c \intersect Steps}
    BY <1>1 DEF Invalidated
<1>7. UNION {Cascade[s] : s \in Moved} \subseteq Steps
    BY <1>5, CascadeType
<1>8. QED
    BY <1>2, <1>3, <1>4, <1>5, <1>6, <1>7

\* Whatever is invalidated, the milestones after it and the export go with it.
LEMMA InvalidatedInOrder ==
    ASSUME NEW c \in Changes
    PROVE  /\ \A p \in Before : p[1] \in Invalidated[c] => p[2] \in Invalidated[c]
           /\ Invalidated[c] \intersect Steps # {} => "psGCodeExport" \in Invalidated[c]
<1>1. \A p \in Before : <<p[2], p[1]>> \in Reads \ Overlooked
    BY DEF Before, Reads, Overlooked
<1>2. \A s \in Steps \ {"psGCodeExport"} : <<"psGCodeExport", s>> \in Reads \ Overlooked
    BY DEF Reads, Overlooked
<1>3. ASSUME NEW p \in Before, p[1] \in Invalidated[c]
      PROVE  p[2] \in Invalidated[c]
  <2>1. <<p[2], p[1]>>[2] = p[1] /\ <<p[2], p[1]>>[1] = p[2]
      OBVIOUS
  <2>2. QED
      BY <1>1, <1>3, <2>1, InvalidatedIsClosed
<1>4. ASSUME NEW s \in Invalidated[c] \intersect Steps
      PROVE  "psGCodeExport" \in Invalidated[c]
  <2>1. CASE s = "psGCodeExport"
      BY <2>1, <1>4
  <2>2. CASE s # "psGCodeExport"
    <3>1. <<"psGCodeExport", s>> \in Reads \ Overlooked
        BY <1>2, <2>2
    <3>2. QED
        BY <3>1, <1>4, InvalidatedIsClosed
  <2>3. QED
      BY <2>1, <2>2
<1>5. QED
    BY <1>3, <1>4

-----------------------------------------------------------------------------
(* The inductive invariant.                                                *)

\* A milestone of the first block was only started with those before it done,
\* and none of them was invalidated without it since.
InOrder ==
    \A o \in Objects : \A p \in Before :
        IsLive(state[<<o, p[2]>>]) => state[<<o, p[1]>>] = "Done"

\* While the G-code is being exported, or is there, all the rest is done.
ExportIsLast ==
    IsLive(state[<<ThePrint, "psGCodeExport">>])
        => \A t \in TasksOf(Steps \ {"psGCodeExport"}) : Done(t)

\* Of an object that is not there, nothing was worked on.
AbsentIsFresh == \A t \in Tasks : t[1] \in Objects \ objects => state[t] = "Fresh"

\* As DoneHasItsData, for all objects.
FillsAreThere ==
    \A o \in Objects :
        IsLive(state[<<o, "posIroning">>]) \/ Done(<<o, "posInfill">>) => fills[o]

IInv ==
    /\ TypeOK
    /\ InOrder
    /\ ExportIsLast
    /\ AbsentIsFresh
    /\ FillsAreThere
    /\ points # "stale"
    /\ stale = {}

-----------------------------------------------------------------------------
(* Tasks and their states.                                                 *)

LEMMA TaskParts ==
    /\ \A o \in Objects : \A s \in PrintObjectStep :
          <<o, s>> \in Tasks /\ <<o, s>>[1] = o /\ <<o, s>>[2] = s
    /\ \A s \in PrintStep :
          <<ThePrint, s>> \in Tasks /\ <<ThePrint, s>>[1] = ThePrint /\ <<ThePrint, s>>[2] = s
    /\ \A t \in Tasks :
          /\ t[2] \in PrintObjectStep => t[1] \in Objects
          /\ t[2] \in PrintStep => t[1] = ThePrint
          /\ t[1] \in Objects \union {ThePrint}
          /\ t[2] \in Steps
          /\ t = <<t[1], t[2]>>
BY DEF Tasks, PrintObjectStep, PrintStep, Steps

\* The members of Before are pairs of milestones of an object.
LEMMA BeforeType ==
    \A p \in Before : p[1] \in PrintObjectStep /\ p[2] \in PrintObjectStep /\ p[1] # p[2]
BY DEF Before, PrintObjectStep

\* What a cancelation makes of the states: the tasks in K stay done.
Kept(K) == [t \in Tasks |-> IF t \in K /\ state[t] = "Done" THEN "Done" ELSE "Fresh"]

\* finalize() and the clean-up leave nothing but what is done, and not what
\* was invalidated before.
LEMMA Releases ==
    \A x \in {"Fresh", "Started", "Done"} :
        /\ ResetDirty(x) = x
        /\ ResetDirty(MarkCanceled(x)) = IF x = "Done" THEN "Done" ELSE "Fresh"
        /\ MarkCanceled(x) = "Done" <=> x = "Done"
        /\ IsLive(x) => ResetDirty(MarkCanceled(TryInvalidate(x))) = "Fresh"
        /\ ~IsLive(x) => x = "Fresh"
        /\ ~IsLive(MarkCanceled(TryInvalidate(x)))
BY DEF ResetDirty, MarkCanceled, TryInvalidate, IsLive, IsDirty

\* A cancelation that keeps no milestone without those before it, and the
\* export only with everything, keeps the order.
LEMMA CancelKeepsOrder ==
    ASSUME IInv,
           NEW K \in SUBSET Tasks, NEW objs \in SUBSET Objects,
           objects' = objs, state' = Kept(K),
           \A o \in Objects : \A p \in Before : <<o, p[2]>> \in K => <<o, p[1]>> \in K,
           <<ThePrint, "psGCodeExport">> \in K => K = Tasks /\ objs = objects,
           \A t \in K : t[1] \in Objects \ objs => t[1] \in Objects \ objects
    PROVE  InOrder' /\ ExportIsLast' /\ AbsentIsFresh'
<1>1. \A t \in Tasks : IsLive(state'[t]) <=> t \in K /\ state[t] = "Done"
    BY DEF Kept, IsLive
<1>2. \A t \in Tasks : state'[t] = "Done" <=> t \in K /\ state[t] = "Done"
    BY DEF Kept
<1>3. InOrder'
  <2>1. SUFFICES ASSUME NEW o \in Objects, NEW p \in Before, IsLive(state'[<<o, p[2]>>])
                 PROVE  state'[<<o, p[1]>>] = "Done"
      BY DEF InOrder
  <2>2. <<o, p[1]>> \in Tasks /\ <<o, p[2]>> \in Tasks
      BY TaskParts, BeforeType
  <2>3. <<o, p[2]>> \in K /\ IsLive(state[<<o, p[2]>>])
      BY <1>1, <2>1, <2>2 DEF IsLive
  <2>4. state[<<o, p[1]>>] = "Done"
      BY <2>3 DEF IInv, InOrder
  <2>5. QED
      BY <1>2, <2>2, <2>3, <2>4
<1>4. ExportIsLast'
  <2>1. SUFFICES ASSUME IsLive(state'[<<ThePrint, "psGCodeExport">>]),
                        NEW t \in TasksOf(Steps \ {"psGCodeExport"})'
                 PROVE  state'[t] = "Done"
      BY DEF ExportIsLast, Done
  <2>2. <<ThePrint, "psGCodeExport">> \in Tasks
      BY TaskParts DEF PrintStep
  <2>3. K = Tasks /\ objs = objects /\ IsLive(state[<<ThePrint, "psGCodeExport">>])
      BY <1>1, <2>1, <2>2 DEF IsLive
  <2>4. t \in Tasks /\ t \in TasksOf(Steps \ {"psGCodeExport"})
      BY <2>1, <2>3 DEF TasksOf
  <2>5. state[t] = "Done"
      BY <2>3, <2>4 DEF IInv, ExportIsLast, Done
  <2>6. QED
      BY <1>2, <2>3, <2>4, <2>5
<1>5. AbsentIsFresh'
  <2>1. SUFFICES ASSUME NEW t \in Tasks, t[1] \in Objects \ objs
                 PROVE  state'[t] = "Fresh"
      BY DEF AbsentIsFresh
  <2>2. CASE t \in K
    <3>1. state[t] = "Fresh"
        BY <2>1, <2>2 DEF IInv, AbsentIsFresh
    <3>2. QED
        BY <3>1 DEF Kept
  <2>3. QED
      BY <2>2 DEF Kept
<1>6. QED
    BY <1>3, <1>4, <1>5

\* The clean-up drops the fills only of objects that are no longer filled.
LEMMA CancelKeepsFills ==
    ASSUME IInv, InOrder', AbsentIsFresh',
           state' \in [Tasks -> {"Fresh", "Started", "Done"}],
           objects' \in SUBSET Objects,
           \A o \in objects' : state'[<<o, "posInfill">>] = "Done"
               => state[<<o, "posInfill">>] = "Done" /\ fills'[o] = fills[o]
    PROVE  FillsAreThere'
<1>1. SUFFICES ASSUME NEW o \in Objects,
                      \/ IsLive(state'[<<o, "posIroning">>])
                      \/ state'[<<o, "posInfill">>] = "Done"
               PROVE  fills'[o]
    BY DEF FillsAreThere, Done
<1>2. <<"posInfill", "posIroning">> \in Before
    BY DEF Before
<1>3. state'[<<o, "posInfill">>] = "Done"
    BY <1>1, <1>2 DEF InOrder
<1>4. <<o, "posInfill">> \in Tasks /\ <<o, "posInfill">>[1] = o
    BY TaskParts DEF PrintObjectStep
<1>5. o \in objects'
    BY <1>3, <1>4 DEF AbsentIsFresh
<1>6. state[<<o, "posInfill">>] = "Done" /\ fills'[o] = fills[o]
    BY <1>3, <1>5
<1>7. fills[o]
    BY <1>6 DEF IInv, FillsAreThere, Done
<1>8. QED
    BY <1>6, <1>7

-----------------------------------------------------------------------------
(* Cancelations and changes.                                               *)

\* A clean-up of well-formed states and fills is well-formed.
LEMMA CleanupFills ==
    ASSUME TypeOK, NEW objs \in SUBSET Objects,
           NEW s,
           fills' = [o \in Objects |-> o \in objs /\ fills[o] /\ ~IsDirty(s[<<o, "posInfill">>])]
    PROVE  /\ fills' \in [Objects -> BOOLEAN]
           /\ \A o \in objs : ResetDirty(s[<<o, "posInfill">>]) = "Done" => fills'[o] = fills[o]
<1>1. \A o \in Objects :
        (o \in objs /\ fills[o] /\ ~IsDirty(s[<<o, "posInfill">>])) \in BOOLEAN
    OBVIOUS
<1>2. fills' \in [Objects -> BOOLEAN]
    BY <1>1, Zenon
<1>3. ASSUME NEW o \in objs, ResetDirty(s[<<o, "posInfill">>]) = "Done"
      PROVE  fills'[o] = fills[o]
  <2>1. ~IsDirty(s[<<o, "posInfill">>])
      BY <1>3 DEF ResetDirty
  <2>2. fills'[o] <=> fills[o]
      BY <2>1
  <2>3. fills[o] \in BOOLEAN /\ fills'[o] \in BOOLEAN
      BY <1>2, Zenon DEF TypeOK
  <2>4. QED
      BY <2>2, <2>3
<1>4. QED
    BY <1>2, <1>3

LEMMA StopPreserves == ASSUME IInv, Stop PROVE IInv'
<1>1. TypeOK
    BY DEF IInv
<1>2. Cleanup(objects, Abandoned(state), points)
    BY DEF Stop
<1>3. state' = Kept(Tasks)
  <2>1. \A t \in Tasks : ResetDirty(Abandoned(state)[t])
                           = IF state[t] = "Done" THEN "Done" ELSE "Fresh"
      BY <1>1, Releases DEF Abandoned, TypeOK
  <2>2. QED
      BY <1>2, <2>1 DEF Cleanup, Kept
<1>4. /\ fills' \in [Objects -> BOOLEAN]
       /\ \A o \in objects :
             ResetDirty(Abandoned(state)[<<o, "posInfill">>]) = "Done" => fills'[o] = fills[o]
  <2>1. fills' = [o \in Objects |->
                    o \in objects /\ fills[o] /\ ~IsDirty(Abandoned(state)[<<o, "posInfill">>])]
      BY <1>2 DEF Cleanup
  <2>2. objects \in SUBSET Objects
      BY <1>1 DEF TypeOK
  <2>3. QED
      BY <1>1, <2>1, <2>2, CleanupFills
<1>5. InOrder' /\ ExportIsLast' /\ AbsentIsFresh'
  <2>1. \A o \in Objects : \A p \in Before : <<o, p[1]>> \in Tasks
      BY TaskParts, BeforeType
  <2>2. objects' = objects /\ objects \in SUBSET Objects
      BY <1>1 DEF Stop, TypeOK
  <2>3. QED
      BY <1>3, <2>1, <2>2, CancelKeepsOrder
<1>6. state' \in [Tasks -> {"Fresh", "Done"}]
    BY <1>3 DEF Kept
<1>7. FillsAreThere'
  <2>1. ASSUME NEW o \in objects, state'[<<o, "posInfill">>] = "Done"
        PROVE  state[<<o, "posInfill">>] = "Done" /\ fills'[o] = fills[o]
    <3>1. <<o, "posInfill">> \in Tasks
        BY <1>1, TaskParts DEF TypeOK, PrintObjectStep
    <3>2. state[<<o, "posInfill">>] = "Done"
        BY <1>3, <2>1, <3>1 DEF Kept
    <3>3. ResetDirty(Abandoned(state)[<<o, "posInfill">>]) = "Done"
        BY <3>1, <3>2 DEF Abandoned, MarkCanceled, ResetDirty, IsDirty
    <3>4. QED
        BY <1>4, <3>2, <3>3
  <2>2. QED
      BY <1>1, <1>5, <1>6, <2>1, CancelKeepsFills DEF Stop, TypeOK
<1>8. TypeOK' /\ points' # "stale"
  <2>1. fills' \in [Objects -> BOOLEAN] /\ points' \in {points, "none"}
      BY <1>2, <1>4 DEF Cleanup
  <2>2. \A o \in Objects : <<o, "posSupportSpotsSearch">> \in Tasks
      BY TaskParts DEF PrintObjectStep
  <2>3. QED
      BY <1>1, <1>6, <2>1, <2>2 DEF TypeOK, IInv, Stop
<1>9. stale' = {}
    BY DEF Stop, IInv
<1>10. QED
    BY <1>5, <1>7, <1>8, <1>9 DEF IInv

\* What apply() does is safe if it invalidates what it affects.
LEMMA ApplyPreserves ==
    ASSUME IInv, NEW roots \in Changes, NEW changed \in Changes,
           Affected[changed] \intersect Steps \subseteq Invalidated[roots],
           Apply(roots, changed)
    PROVE  IInv'
<1> DEFINE hit == {t \in TasksOf(Invalidated[roots]) : IsLive(state[t])}
           lost == [t \in Tasks |-> IF t \in hit THEN TryInvalidate(state[t]) ELSE state[t]]
           after == IF hit = {} THEN state ELSE Abandoned(lost)
           affected == Affected[changed]
           pts == IF points # "none" /\ "posSupportSpotsSearch" \in affected
                  THEN "stale" ELSE points
<1>1. TypeOK
    BY DEF IInv
<1>2. /\ running' = (running /\ hit = {})
      /\ searched' = (searched /\ hit = {})
      /\ Cleanup(objects, after, pts)
      /\ stale' = {t \in stale \union TasksOf(affected) : IsLive(after[t])}
      /\ UNCHANGED <<objects, slices, typed>>
    BY Zenon DEF Apply
<1>3. pts \in {"none", "current", "stale"} /\ objects \in SUBSET Objects
    BY <1>1 DEF TypeOK
<1> HIDE DEF pts
<1>4. \A t \in Tasks : after[t] = IF hit = {} THEN state[t] ELSE MarkCanceled(lost[t])
    BY DEF Abandoned
<1>5. \A t \in TasksOf(Invalidated[roots]) : ~IsLive(after[t])
  <2>1. SUFFICES ASSUME NEW t \in TasksOf(Invalidated[roots])
                 PROVE  ~IsLive(after[t])
      OBVIOUS
  <2>2. t \in Tasks /\ state[t] \in {"Fresh", "Started", "Done"}
      BY <1>1 DEF TasksOf, TypeOK
  <2>3. CASE t \in hit
    <3>1. after[t] = MarkCanceled(TryInvalidate(state[t]))
        BY <1>4, <2>2, <2>3
    <3>2. QED
        BY <2>2, <3>1, Releases
  <2>4. CASE t \notin hit
    <3>1. ~IsLive(state[t])
        BY <2>4
    <3>2. after[t] \in {state[t], MarkCanceled(state[t])}
        BY <1>4, <2>2, <2>4
    <3>3. QED
        BY <2>2, <3>1, <3>2 DEF IsLive, MarkCanceled
  <2>5. QED
      BY <2>3, <2>4
<1>6. /\ state' = [t \in Tasks |-> ResetDirty(after[t])]
      /\ fills' \in [Objects -> BOOLEAN]
      /\ points' \in {pts, "none"}
      /\ points' # "none" => \E o \in objects : after[<<o, "posSupportSpotsSearch">>] = "Done"
      /\ \A o \in objects : ResetDirty(after[<<o, "posInfill">>]) = "Done" => fills'[o] = fills[o]
  <2> HIDE DEF after
  <2>1. fills' = [o \in Objects |->
                    o \in objects /\ fills[o] /\ ~IsDirty(after[<<o, "posInfill">>])]
      BY <1>2 DEF Cleanup
  <2>2. /\ fills' \in [Objects -> BOOLEAN]
        /\ \A o \in objects : ResetDirty(after[<<o, "posInfill">>]) = "Done" => fills'[o] = fills[o]
      BY <1>1, <1>3, <2>1, CleanupFills
  <2>3. QED
      BY <1>2, <2>2 DEF Cleanup
<1>7. TasksOf(affected) \subseteq TasksOf(Invalidated[roots])
    BY TaskParts DEF TasksOf
<1>8. stale' = {}
    BY <1>2, <1>5, <1>7 DEF IInv
<1>9. points' # "stale"
  <2>1. SUFFICES ASSUME points' = "stale" PROVE FALSE
      OBVIOUS
  <2>2. pts = "stale" /\ \E o \in objects : after[<<o, "posSupportSpotsSearch">>] = "Done"
      BY <1>6, <2>1
  <2>3. "posSupportSpotsSearch" \in affected
      BY <2>2 DEF pts, IInv
  <2>4. \A o \in objects : <<o, "posSupportSpotsSearch">> \in TasksOf(affected)
      BY <1>3, <2>3, TaskParts DEF TasksOf, PrintObjectStep
  <2>5. QED
      BY <1>5, <1>7, <2>2, <2>4 DEF IsLive
<1>10. fills' \in [Objects -> BOOLEAN] /\ points' \in {"none", "current", "stale"}
    BY <1>3, <1>6
<1>11. CASE hit = {}
  <2>1. after = state
      BY <1>11
  <2>2. state' = state
    <3>1. state' = [t \in Tasks |-> ResetDirty(state[t])]
        BY <1>6, <2>1
    <3>2. \A t \in Tasks : ResetDirty(state[t]) = state[t]
        BY <1>1, Releases DEF TypeOK
    <3>3. QED
        BY <1>1, <3>1, <3>2 DEF TypeOK
  <2>3. InOrder' /\ ExportIsLast' /\ AbsentIsFresh'
      BY <1>2, <2>2 DEF IInv, InOrder, ExportIsLast, AbsentIsFresh, TasksOf, Done
  <2>4. \A o \in objects : state[<<o, "posInfill">>] = "Done" => fills'[o] = fills[o]
      BY <1>6, <2>1 DEF ResetDirty, IsDirty
  <2>5. FillsAreThere'
      BY <1>1, <1>2, <1>3, <2>2, <2>3, <2>4, CancelKeepsFills DEF TypeOK
  <2>6. TypeOK'
    <3>1. running' = running /\ searched' = searched
        BY <1>1, <1>2, <1>11 DEF TypeOK
    <3>2. QED
        BY <1>1, <1>2, <1>8, <1>10, <2>2, <3>1 DEF TypeOK
  <2>7. QED
      BY <1>8, <1>9, <2>3, <2>5, <2>6 DEF IInv
<1>12. CASE hit # {}
  <2> DEFINE K == Tasks \ TasksOf(Invalidated[roots])
  <2>1. state' = Kept(K)
    <3>1. \A t \in Tasks : ResetDirty(after[t])
                             = IF t \in K /\ state[t] = "Done" THEN "Done" ELSE "Fresh"
      <4>1. SUFFICES ASSUME NEW t \in Tasks
                     PROVE  ResetDirty(after[t])
                              = IF t \in K /\ state[t] = "Done" THEN "Done" ELSE "Fresh"
          OBVIOUS
      <4>2. state[t] \in {"Fresh", "Started", "Done"}
          BY <1>1 DEF TypeOK
      <4>3. CASE t \in hit
          BY <1>4, <1>12, <4>2, <4>3, Releases
      <4>4. CASE t \notin hit
        <5>1. after[t] = MarkCanceled(state[t])
            BY <1>4, <1>12, <4>4
        <5>2. t \notin K => ~IsLive(state[t])
            BY <4>4
        <5>3. QED
            BY <4>2, <5>1, <5>2, Releases DEF IsLive
      <4>5. QED
          BY <4>3, <4>4
    <3>2. state' = [t \in Tasks |-> ResetDirty(after[t])]
        BY <1>6
    <3>3. QED
        BY <3>1, <3>2 DEF Kept
  <2>2. state' \in [Tasks -> {"Fresh", "Done"}]
      BY <2>1 DEF Kept
  <2>3. \A o \in Objects : \A p \in Before : <<o, p[2]>> \in K => <<o, p[1]>> \in K
    <3>1. SUFFICES ASSUME NEW o \in Objects, NEW p \in Before, <<o, p[2]>> \in K
                   PROVE  <<o, p[1]>> \in K
        OBVIOUS
    <3>2. <<o, p[1]>> \in Tasks /\ <<o, p[2]>> \in Tasks
        BY TaskParts, BeforeType
    <3>3. p[1] \in Invalidated[roots] => p[2] \in Invalidated[roots]
        BY InvalidatedInOrder
    <3>4. QED
        BY <3>1, <3>2, <3>3 DEF TasksOf
  <2>4. <<ThePrint, "psGCodeExport">> \notin K
    <3>1. Invalidated[roots] \intersect Steps # {}
        BY <1>12, TaskParts DEF TasksOf
    <3>2. "psGCodeExport" \in Invalidated[roots]
        BY <3>1, InvalidatedInOrder
    <3>3. QED
        BY <3>2, TaskParts DEF TasksOf, PrintStep
  <2>5. InOrder' /\ ExportIsLast' /\ AbsentIsFresh'
    <3>1. objects' = objects /\ K \in SUBSET Tasks
        BY <1>2
    <3> HIDE DEF K
    <3>2. QED
        BY <1>3, <2>1, <2>3, <2>4, <3>1, CancelKeepsOrder
  <2>6. FillsAreThere'
    <3>1. ASSUME NEW o \in objects, state'[<<o, "posInfill">>] = "Done"
          PROVE  state[<<o, "posInfill">>] = "Done" /\ fills'[o] = fills[o]
      <4>1. <<o, "posInfill">> \in Tasks
          BY <1>3, TaskParts DEF PrintObjectStep
      <4>2. state[<<o, "posInfill">>] = "Done"
          BY <2>1, <3>1, <4>1 DEF Kept
      <4>3. ResetDirty(after[<<o, "posInfill">>]) = "Done"
        BY <1>6, <3>1, <4>1
      <4>4. QED
          BY <1>6, <4>2, <4>3
    <3>2. QED
        BY <1>2, <1>3, <2>2, <2>5, <3>1, CancelKeepsFills
  <2>7. TypeOK'
    <3>1. ~running' /\ running' \in BOOLEAN /\ searched' \in BOOLEAN
        BY <1>2, <1>12
    <3>2. \A o \in Objects : <<o, "posSupportSpotsSearch">> \in Tasks
        BY TaskParts DEF PrintObjectStep
    <3>3. QED
        BY <1>1, <1>2, <1>8, <1>10, <2>2, <3>1, <3>2 DEF TypeOK
  <2>8. QED
      BY <1>8, <1>9, <2>5, <2>6, <2>7 DEF IInv
<1>13. QED
    BY <1>11, <1>12

\* A changed list of objects cancels the run and the milestones of the print.
LEMMA ReplacePreserves ==
    ASSUME IInv, NEW objs \in SUBSET Objects, ReplaceObjects(objs)
    PROVE  IInv'
<1> DEFINE gone(t) == t[1] \in Objects \ objs
           after == Abandoned([t \in Tasks |->
                        IF gone(t) THEN "Fresh"
                        ELSE IF t[1] = ThePrint THEN TryInvalidate(state[t]) ELSE state[t]])
           K == {t \in Tasks : t[1] \in objs}
<1>1. TypeOK
    BY DEF IInv
<1>2. /\ objects' = objs
      /\ ~running' /\ running' \in BOOLEAN
      /\ searched' = FALSE
      /\ Cleanup(objs, after, points)
      /\ slices' = [o \in Objects |-> IF o \in objs THEN slices[o] ELSE "none"]
      /\ typed' = [o \in Objects |-> o \in objs /\ typed[o]]
      /\ stale' = {t \in stale : IsLive(after[t])}
    BY DEF ReplaceObjects
<1>3. \A t \in Tasks : after[t] = MarkCanceled(IF gone(t) THEN "Fresh"
                ELSE IF t[1] = ThePrint THEN TryInvalidate(state[t]) ELSE state[t])
    BY DEF Abandoned
<1> HIDE DEF after
<1>4. /\ fills' \in [Objects -> BOOLEAN]
      /\ \A o \in objs : ResetDirty(after[<<o, "posInfill">>]) = "Done" => fills'[o] = fills[o]
  <2>1. fills' = [o \in Objects |-> o \in objs /\ fills[o] /\ ~IsDirty(after[<<o, "posInfill">>])]
      BY <1>2 DEF Cleanup
  <2>2. QED
      BY <1>1, <2>1, CleanupFills
<1>5. state' = [t \in Tasks |-> ResetDirty(after[t])] /\ points' \in {points, "none"}
    BY <1>2 DEF Cleanup
<1>6. \A t \in Tasks : ResetDirty(after[t]) = IF t \in K /\ state[t] = "Done" THEN "Done" ELSE "Fresh"
  <2>1. SUFFICES ASSUME NEW t \in Tasks
                 PROVE  ResetDirty(after[t])
                          = IF t \in K /\ state[t] = "Done" THEN "Done" ELSE "Fresh"
      OBVIOUS
  <2>2. state[t] \in {"Fresh", "Started", "Done"}
      BY <1>1 DEF TypeOK
  <2>3. CASE t[1] \in Objects \ objs
    <3>1. after[t] = MarkCanceled("Fresh")
        BY <1>3, <2>3
    <3>2. QED
        BY <2>3, <3>1, Releases
  <2>4. CASE t[1] = ThePrint
    <3>1. after[t] = MarkCanceled(TryInvalidate(state[t]))
        BY <1>3, <2>4, PrintIsNoObject
    <3>2. t \notin K
        BY <2>4, PrintIsNoObject
    <3>3. QED
        BY <2>2, <3>1, <3>2, Releases DEF TryInvalidate, IsLive, MarkCanceled, ResetDirty, IsDirty
  <2>5. CASE t[1] \in objs
    <3>1. after[t] = MarkCanceled(state[t])
        BY <1>3, <2>5, PrintIsNoObject
    <3>2. QED
        BY <2>2, <2>5, <3>1, Releases
  <2>6. QED
      BY <2>3, <2>4, <2>5, TaskParts
<1>7. state' = Kept(K)
    BY <1>5, <1>6 DEF Kept
<1> HIDE DEF gone
<1>8. state' \in [Tasks -> {"Fresh", "Done"}]
    BY <1>7 DEF Kept
<1>9. InOrder' /\ ExportIsLast' /\ AbsentIsFresh'
  <2>1. \A o \in Objects : \A p \in Before : <<o, p[2]>> \in K => <<o, p[1]>> \in K
      BY TaskParts, BeforeType
  <2>2. <<ThePrint, "psGCodeExport">> \notin K
      BY TaskParts, PrintIsNoObject DEF PrintStep
  <2>3. K \in SUBSET Tasks /\ \A t \in K : t[1] \notin Objects \ objs
      OBVIOUS
  <2> HIDE DEF K
  <2>4. QED
      BY <1>2, <1>7, <2>1, <2>2, <2>3, CancelKeepsOrder
<1>10. FillsAreThere'
  <2>1. ASSUME NEW o \in objects', state'[<<o, "posInfill">>] = "Done"
        PROVE  state[<<o, "posInfill">>] = "Done" /\ fills'[o] = fills[o]
    <3>1. o \in objs /\ <<o, "posInfill">> \in Tasks
        BY <1>2, TaskParts DEF PrintObjectStep
    <3>2. state[<<o, "posInfill">>] = "Done"
        BY <1>7, <2>1, <3>1 DEF Kept
    <3>3. QED
        BY <1>4, <1>5, <2>1, <3>1, <3>2
  <2>2. QED
      BY <1>2, <1>8, <1>9, <2>1, CancelKeepsFills
<1>11. TypeOK' /\ points' # "stale"
  <2>1. \A o \in Objects : <<o, "posSupportSpotsSearch">> \in Tasks
      BY TaskParts DEF PrintObjectStep
  <2>2. typed' \in [Objects -> BOOLEAN] /\ \A o \in Objects : typed'[o] => o \in objs /\ typed[o]
      BY <1>2, Zenon
  <2>3. QED
      BY <1>1, <1>2, <1>4, <1>5, <1>8, <2>1, <2>2 DEF TypeOK, IInv
<1>12. stale' = {}
    BY <1>2 DEF IInv
<1>13. QED
    BY <1>9, <1>10, <1>11, <1>12 DEF IInv

-----------------------------------------------------------------------------
(* A run.                                                                  *)

\* What process() has come to.
LEMMA ReachedInOrder ==
    ASSUME NEW t \in Tasks, Reached(t)
    PROVE  /\ \A p \in Before : t[2] = p[2] => Done(<<t[1], p[1]>>)
           /\ t[2] = "psGCodeExport" => \A u \in TasksOf(Steps \ {"psGCodeExport"}) : Done(u)
           /\ t[2] = "posSupportSpotsSearch" => \A u \in TasksOf({t[2]}) : ~Started(u)
<1>1. PICK b \in DOMAIN Blocks : \E i \in DOMAIN Blocks[b] :
        /\ Blocks[b][i] = t[2]
        /\ \A c \in 1..(b - 1) : \A u \in TasksOf(ToSet(Blocks[c])) : Done(u)
        /\ \A j \in 1..(i - 1) : Done(<<t[1], Blocks[b][j]>>)
        /\ t[2] = "posSupportSpotsSearch" => \A u \in TasksOf({t[2]}) : ~Started(u)
    BY DEF Reached
<1>2. PICK i \in DOMAIN Blocks[b] :
        /\ Blocks[b][i] = t[2]
        /\ \A c \in 1..(b - 1) : \A u \in TasksOf(ToSet(Blocks[c])) : Done(u)
        /\ \A j \in 1..(i - 1) : Done(<<t[1], Blocks[b][j]>>)
        /\ t[2] = "posSupportSpotsSearch" => \A u \in TasksOf({t[2]}) : ~Started(u)
    BY <1>1
<1>3. b \in 1..7
    BY DEF Blocks
<1>4. ASSUME NEW p \in Before, t[2] = p[2]
      PROVE  Done(<<t[1], p[1]>>)
  <2>1. b = 1
      BY <1>2, <1>3, <1>4 DEF Blocks, Before
  <2>2. i \in 2..5 /\ Blocks[1][i - 1] = p[1]
      BY <1>2, <1>4, <2>1 DEF Blocks, Before
  <2>3. i - 1 \in 1..(i - 1)
      BY <2>2
  <2>4. QED
      BY <1>2, <2>1, <2>2, <2>3
<1>5. ASSUME t[2] = "psGCodeExport", NEW u \in TasksOf(Steps \ {"psGCodeExport"})
      PROVE  Done(u)
  <2>1. b = 7
      BY <1>2, <1>3, <1>5 DEF Blocks
  <2>2. \E c \in 1..6 : u[2] \in ToSet(Blocks[c])
      BY <1>5 DEF Blocks, ToSet, TasksOf, Steps, PrintStep, PrintObjectStep
  <2>3. PICK c \in 1..6 : u \in TasksOf(ToSet(Blocks[c]))
      BY <1>5, <2>2 DEF TasksOf
  <2>4. c \in 1..(b - 1)
      BY <2>1, <2>3
  <2>5. QED
      BY <1>2, <2>3, <2>4
<1>6. QED
    BY <1>2, <1>4, <1>5

\* What is started is what comes next.
LEMMA StartKeepsOrder ==
    ASSUME IInv, NEW t \in TasksOf(Steps), ~IsLive(state[t]), Reached(t),
           state' = [state EXCEPT ![t] = "Started"], objects' = objects, running' = running,
           running
    PROVE  /\ InOrder' /\ ExportIsLast' /\ AbsentIsFresh'
           /\ state' \in [Tasks -> {"Fresh", "Started", "Done"}]
           /\ \A o, q \in Objects :
                 state'[<<o, "posSupportSpotsSearch">>] = "Started"
                 /\ state'[<<q, "posSupportSpotsSearch">>] = "Started" => o = q
<1>1. TypeOK /\ t \in Tasks /\ t[1] \in objects \union {ThePrint}
    BY DEF IInv, TasksOf
<1>2. \A u \in Tasks : state'[u] = IF u = t THEN "Started" ELSE state[u]
    BY <1>1 DEF TypeOK
<1>3. state[t] # "Done"
    BY DEF IsLive
<1>4. InOrder'
  <2>1. SUFFICES ASSUME NEW o \in Objects, NEW p \in Before, IsLive(state'[<<o, p[2]>>])
                 PROVE  state'[<<o, p[1]>>] = "Done"
      BY DEF InOrder
  <2>2. <<o, p[1]>> \in Tasks /\ <<o, p[2]>> \in Tasks
      BY TaskParts, BeforeType
  <2>3. state[<<o, p[1]>>] = "Done"
    <3>1. CASE <<o, p[2]>> = t
      <4>1. t[1] = o /\ t[2] = p[2]
          BY <3>1
      <4>2. QED
          BY <1>1, <4>1, ReachedInOrder DEF Done
    <3>2. CASE <<o, p[2]>> # t
      <4>1. IsLive(state[<<o, p[2]>>])
          BY <1>2, <2>1, <2>2, <3>2
      <4>2. QED
          BY <4>1 DEF IInv, InOrder
    <3>3. QED
        BY <3>1, <3>2
  <2>4. QED
      BY <1>2, <1>3, <2>2, <2>3
<1>5. ExportIsLast'
  <2>1. SUFFICES ASSUME IsLive(state'[<<ThePrint, "psGCodeExport">>]),
                        NEW u \in TasksOf(Steps \ {"psGCodeExport"})
                 PROVE  state'[u] = "Done"
      BY DEF ExportIsLast, Done, TasksOf
  <2>2. <<ThePrint, "psGCodeExport">> \in Tasks /\ u \in Tasks
      BY TaskParts DEF PrintStep, TasksOf
  <2>3. state[u] = "Done"
    <3>1. CASE t = <<ThePrint, "psGCodeExport">>
      <4>1. t[2] = "psGCodeExport"
          BY <3>1
      <4>2. QED
          BY <1>1, <4>1, ReachedInOrder DEF Done
    <3>2. CASE t # <<ThePrint, "psGCodeExport">>
      <4>1. IsLive(state[<<ThePrint, "psGCodeExport">>])
          BY <1>2, <2>1, <2>2, <3>2
      <4>2. QED
          BY <4>1 DEF IInv, ExportIsLast, Done
    <3>3. QED
        BY <3>1, <3>2
  <2>4. QED
      BY <1>2, <1>3, <2>2, <2>3
<1>6. AbsentIsFresh'
  <2>1. t[1] \notin Objects \ objects
      BY <1>1, PrintIsNoObject
  <2>2. QED
      BY <1>2, <2>1 DEF IInv, AbsentIsFresh
<1>7. state' \in [Tasks -> {"Fresh", "Started", "Done"}]
    BY <1>1 DEF TypeOK
<1>8. ASSUME NEW o \in Objects, NEW q \in Objects,
             state'[<<o, "posSupportSpotsSearch">>] = "Started",
             state'[<<q, "posSupportSpotsSearch">>] = "Started"
      PROVE  o = q
  <2>1. \A x \in Objects : /\ <<x, "posSupportSpotsSearch">> \in Tasks
                           /\ <<x, "posSupportSpotsSearch">>[1] = x
                           /\ <<x, "posSupportSpotsSearch">>[2] = "posSupportSpotsSearch"
      BY TaskParts DEF PrintObjectStep
  <2>2. CASE t[2] = "posSupportSpotsSearch"
    <3>1. \A u \in TasksOf({"posSupportSpotsSearch"}) : state[u] # "Started"
        BY <1>1, <2>2, ReachedInOrder DEF Started
    <3>2. ASSUME NEW x \in Objects, state'[<<x, "posSupportSpotsSearch">>] = "Started"
          PROVE  t = <<x, "posSupportSpotsSearch">>
      <4>1. SUFFICES ASSUME t # <<x, "posSupportSpotsSearch">> PROVE FALSE
          OBVIOUS
      <4>2. state[<<x, "posSupportSpotsSearch">>] = "Started"
          BY <1>2, <2>1, <3>2, <4>1
      <4>3. x \in objects
          BY <2>1, <4>2 DEF IInv, AbsentIsFresh
      <4>4. QED
          BY <2>1, <3>1, <4>2, <4>3 DEF TasksOf
    <3>3. QED
        BY <1>8, <2>1, <3>2
  <2>3. CASE t[2] # "posSupportSpotsSearch"
      BY <1>1, <1>2, <1>8, <2>1, <2>3 DEF TypeOK
  <2>4. QED
      BY <2>2, <2>3
<1>9. QED
    BY <1>4, <1>5, <1>6, <1>7, <1>8

\* The fills of an object are only dropped before it is filled again.
LEMMA StartKeepsFills ==
    ASSUME IInv, NEW t \in TasksOf(Steps), ~IsLive(state[t]), Reached(t),
           state' = [state EXCEPT ![t] = "Started"], objects' = objects, InOrder', AbsentIsFresh',
           state' \in [Tasks -> {"Fresh", "Started", "Done"}],
           \/ fills' = fills
           \/ /\ t[2] \in {"posSlice", "posPerimeters", "posInfill"}
              /\ fills' = [fills EXCEPT ![t[1]] = FALSE]
    PROVE  FillsAreThere'
<1>1. TypeOK /\ t \in Tasks
    BY DEF IInv, TasksOf
<1>2. \A u \in Tasks : state'[u] = IF u = t THEN "Started" ELSE state[u]
    BY <1>1 DEF TypeOK
<1>3. ASSUME NEW o \in objects', state'[<<o, "posInfill">>] = "Done"
      PROVE  state[<<o, "posInfill">>] = "Done" /\ fills'[o] = fills[o]
  <2>1. o \in Objects /\ \A x \in PrintObjectStep : <<o, x>> \in Tasks
      BY <1>1, TaskParts DEF TypeOK
  <2>2. <<o, "posInfill">> # t /\ state[<<o, "posInfill">>] = "Done"
      BY <1>2, <1>3, <2>1 DEF PrintObjectStep
  <2>3. state[<<o, "posPrepareInfill">>] = "Done"
      BY <2>1, <2>2 DEF IInv, InOrder, Before, IsLive
  <2>4. state[<<o, "posPerimeters">>] = "Done"
      BY <2>1, <2>3 DEF IInv, InOrder, Before, IsLive
  <2>5. state[<<o, "posSlice">>] = "Done"
      BY <2>1, <2>4 DEF IInv, InOrder, Before, IsLive
  <2>6. t[1] = o => t[2] \notin {"posSlice", "posPerimeters", "posInfill"}
      BY <1>1, <2>2, <2>4, <2>5, TaskParts DEF IsLive
  <2>7. QED
      BY <1>1, <2>1, <2>2, <2>6 DEF TypeOK
<1>4. QED
    BY <1>1, <1>3, CancelKeepsFills DEF TypeOK

\* A milestone is started with the slices and fills in order.
LEMMA StartPreserves ==
    ASSUME IInv, NEW t \in TasksOf(Steps), ~IsLive(state[t]), Reached(t), running,
           state' = [state EXCEPT ![t] = "Started"],
           UNCHANGED <<objects, running, points, searched, stale>>,
           slices' \in [Objects -> {"none", "whole", "split"}],
           typed' \in [Objects -> BOOLEAN],
           \A o \in Objects : typed'[o] => slices'[o] # "none",
           \/ fills' = fills
           \/ /\ t[2] \in {"posSlice", "posPerimeters", "posInfill"}
              /\ fills' = [fills EXCEPT ![t[1]] = FALSE]
    PROVE  IInv'
<1>1. TypeOK
    BY DEF IInv
<1>2. /\ InOrder' /\ ExportIsLast' /\ AbsentIsFresh'
      /\ state' \in [Tasks -> {"Fresh", "Started", "Done"}]
      /\ \A o, q \in Objects :
            state'[<<o, "posSupportSpotsSearch">>] = "Started"
            /\ state'[<<q, "posSupportSpotsSearch">>] = "Started" => o = q
    BY StartKeepsOrder
<1>3. FillsAreThere'
    BY <1>2, StartKeepsFills
<1>4. fills' \in [Objects -> BOOLEAN]
    BY <1>1 DEF TypeOK
<1>5. TypeOK'
    BY <1>1, <1>2, <1>4 DEF TypeOK
<1>6. QED
    BY <1>2, <1>3, <1>5 DEF IInv

\* The milestones of one object that slice, clear or revert something.
LEMMA StartsPreserve ==
    ASSUME IInv, NEW o \in objects,
           StartSlice(o) \/ StartPerimeters(o) \/ StartPrepareInfill(o) \/ StartInfill(o)
    PROVE  IInv'
<1>1. TypeOK /\ o \in Objects
    BY DEF IInv, TypeOK
<1>2. CASE StartSlice(o)
  <2>1. PICK t \in TasksOf(Steps) : t = <<o, "posSlice">>
      BY <1>2 DEF StartSlice, SetStarted
  <2>2. t[1] = o /\ t[2] = "posSlice"
      BY <2>1
  <2>3. SetStarted(t)
      BY <1>2, <2>1 DEF StartSlice
  <2>4. QED
      BY <1>1, <1>2, <2>2, <2>3, StartPreserves DEF StartSlice, SetStarted, TypeOK
<1>3. CASE StartPerimeters(o)
  <2>1. PICK t \in TasksOf(Steps) : t = <<o, "posPerimeters">>
      BY <1>3 DEF StartPerimeters, SetStarted
  <2>2. t[1] = o /\ t[2] = "posPerimeters"
      BY <2>1
  <2>3. SetStarted(t)
      BY <1>3, <2>1 DEF StartPerimeters
  <2>4. QED
      BY <1>1, <1>3, <2>2, <2>3, StartPreserves DEF StartPerimeters, SetStarted, TypeOK
<1>4. CASE StartPrepareInfill(o)
  <2>1. PICK t \in TasksOf(Steps) : t = <<o, "posPrepareInfill">>
      BY <1>4 DEF StartPrepareInfill, SetStarted
  <2>2. SetStarted(t)
      BY <1>4, <2>1 DEF StartPrepareInfill
  <2>3. QED
      BY <1>1, <1>4, <2>2, StartPreserves DEF StartPrepareInfill, SetStarted, TypeOK
<1>5. CASE StartInfill(o)
  <2>1. PICK t \in TasksOf(Steps) : t = <<o, "posInfill">>
      BY <1>5 DEF StartInfill, SetStarted
  <2>2. t[1] = o /\ t[2] = "posInfill"
      BY <2>1
  <2>3. SetStarted(t)
      BY <1>5, <2>1 DEF StartInfill
  <2>4. QED
      BY <1>1, <1>5, <2>2, <2>3, StartPreserves DEF StartInfill, SetStarted, TypeOK
<1>6. QED
    BY <1>2, <1>3, <1>4, <1>5

\* A step that leaves the states and the fills alone keeps the order.
LEMMA OtherStepsPreserve ==
    ASSUME IInv, UNCHANGED <<objects, state, fills, stale>>, TypeOK', points' # "stale"
    PROVE  IInv'
BY DEF IInv, InOrder, ExportIsLast, AbsentIsFresh, FillsAreThere, TasksOf, Done

LEMMA WorkPreserves ==
    ASSUME IInv, NEW o \in objects, Split(o) \/ MarkTyped(o) \/ Search(o)
    PROVE  IInv'
<1>1. TypeOK /\ o \in Objects /\ points # "stale"
    BY DEF IInv, TypeOK
<1>2. CASE Split(o)
    BY <1>1, <1>2, OtherStepsPreserve DEF Split, TypeOK
<1>3. CASE MarkTyped(o)
    BY <1>1, <1>3, OtherStepsPreserve DEF MarkTyped, TypeOK
<1>4. CASE Search(o)
    BY <1>1, <1>4, OtherStepsPreserve DEF Search, TypeOK
<1>5. QED
    BY <1>2, <1>3, <1>4

LEMMA ProcessPreserves == ASSUME IInv, Process PROVE IInv'
<1>1. TypeOK /\ points # "stale"
    BY DEF IInv
<1>2. QED
    BY <1>1, OtherStepsPreserve DEF Process, TypeOK

LEMMA SetDonePreserves ==
    ASSUME IInv, NEW t \in Tasks, SetDone(t)
    PROVE  IInv'
<1>1. TypeOK /\ state[t] = "Started" /\ objects' = objects
    BY DEF IInv, SetDone, Started
<1>2. \A u \in Tasks : state'[u] = IF u = t THEN "Done" ELSE state[u]
    BY <1>1 DEF SetDone, TypeOK
<1>3. state' \in [Tasks -> {"Fresh", "Started", "Done"}]
    BY <1>1 DEF SetDone, TypeOK
<1>4. InOrder'
  <2>1. \A o \in Objects : \A s \in PrintObjectStep : <<o, s>> \in Tasks
      BY TaskParts
  <2>2. QED
      BY <1>1, <1>2, <2>1, BeforeType DEF IInv, InOrder, IsLive
<1>5. ExportIsLast'
  <2>1. <<ThePrint, "psGCodeExport">> \in Tasks
      BY TaskParts DEF PrintStep
  <2>2. QED
      BY <1>1, <1>2, <2>1 DEF IInv, ExportIsLast, IsLive, TasksOf, Done
<1>6. AbsentIsFresh'
    BY <1>1, <1>2 DEF IInv, AbsentIsFresh
<1>7. fills' \in [Objects -> BOOLEAN]
    BY <1>1, TaskParts DEF SetDone, TypeOK, PrintObjectStep
<1>8. FillsAreThere'
  <2>1. SUFFICES ASSUME NEW o \in Objects,
                        \/ IsLive(state'[<<o, "posIroning">>])
                        \/ state'[<<o, "posInfill">>] = "Done"
                 PROVE  fills'[o]
      BY DEF FillsAreThere, Done
  <2>2. \A s \in PrintObjectStep : <<o, s>> \in Tasks /\ <<o, s>>[1] = o /\ <<o, s>>[2] = s
      BY TaskParts
  <2>3. state'[<<o, "posInfill">>] = "Done"
      BY <1>4, <2>1 DEF InOrder, Before
  <2>4. CASE t = <<o, "posInfill">>
    <3>1. t[1] = o /\ t[2] = "posInfill"
        BY <2>4
    <3>2. fills' = [fills EXCEPT ![o] = TRUE]
        BY <3>1 DEF SetDone
    <3>3. QED
        BY <1>1, <3>2 DEF TypeOK
  <2>5. CASE t # <<o, "posInfill">>
    <3>1. state[<<o, "posInfill">>] = "Done"
        BY <1>2, <2>2, <2>3, <2>5 DEF PrintObjectStep
    <3>2. fills[o]
        BY <3>1 DEF IInv, FillsAreThere, Done
    <3>3. QED
        BY <1>1, <3>2, TaskParts DEF SetDone, TypeOK, PrintObjectStep
  <2>6. QED
      BY <2>4, <2>5
<1>9. TypeOK'
  <2>1. \A o \in Objects : <<o, "posSupportSpotsSearch">> \in Tasks
      BY TaskParts DEF PrintObjectStep
  <2>2. slices' \in [Objects -> {"none", "whole", "split"}]
        /\ \A o \in Objects : slices[o] # "none" => slices'[o] # "none"
    <3>1. CASE t[2] = "posSlice"
      <4>1. slices' = [slices EXCEPT ![t[1]] = "whole"] /\ t[1] \in Objects
          BY <3>1, TaskParts DEF SetDone, PrintObjectStep
      <4>2. QED
          BY <1>1, <4>1 DEF TypeOK
    <3>2. CASE t[2] # "posSlice"
        BY <1>1, <3>2 DEF SetDone, TypeOK
    <3>3. QED
        BY <3>1, <3>2
  <2>3. ~running' => \A u \in Tasks : state'[u] # "Started"
    <3>1. SUFFICES ASSUME t[2] = "psGCodeExport", NEW u \in Tasks, u # t
                   PROVE  state[u] # "Started"
      <4>1. ~running' => t[2] = "psGCodeExport"
          BY DEF SetDone
      <4>2. QED
          BY <1>2, <4>1
    <3>2. t = <<ThePrint, "psGCodeExport">>
        BY <3>1, TaskParts DEF PrintStep
    <3>3. \A v \in TasksOf(Steps \ {"psGCodeExport"}) : state[v] = "Done"
        BY <1>1, <3>2 DEF IInv, ExportIsLast, IsLive, Done
    <3>4. u[2] # "psGCodeExport"
        BY <3>1, <3>2, TaskParts DEF PrintStep
    <3>5. CASE u[1] \in objects \union {ThePrint}
        BY <3>3, <3>4, <3>5, TaskParts DEF TasksOf
    <3>6. CASE u[1] \in Objects \ objects
        BY <3>6 DEF IInv, AbsentIsFresh
    <3>7. QED
        BY <3>5, <3>6, TaskParts
  <2>4. QED
      BY <1>1, <1>3, <1>7, <2>1, <2>2, <2>3, <1>2 DEF SetDone, TypeOK
<1>10. QED
    BY <1>4, <1>5, <1>6, <1>8, <1>9 DEF SetDone, IInv

-----------------------------------------------------------------------------
(* The theorems.                                                           *)

LEMMA InitInvariant == ASSUME Init PROVE IInv
<1>1. \A t \in Tasks : state[t] = "Fresh"
    BY DEF Init
<1>2. \A o \in Objects : \A s \in PrintObjectStep : <<o, s>> \in Tasks
    BY TaskParts
<1>3. <<ThePrint, "psGCodeExport">> \in Tasks
    BY TaskParts DEF PrintStep
<1>4. TypeOK
    BY <1>1, <1>2 DEF Init, TypeOK, PrintObjectStep
<1>5. InOrder
    BY <1>1, <1>2, BeforeType DEF InOrder, IsLive
<1>6. ExportIsLast /\ AbsentIsFresh
    BY <1>1, <1>3 DEF ExportIsLast, AbsentIsFresh, IsLive
<1>7. FillsAreThere
    BY <1>1, <1>2 DEF FillsAreThere, IsLive, Done, PrintObjectStep
<1>8. QED
    BY <1>4, <1>5, <1>6, <1>7 DEF Init, IInv

LEMMA ChangePreserves ==
    ASSUME IInv,
           ChangeOptions \/ PaintSupports \/ ChangeCustomGCode \/ MoveCopies \/ AddCopy
    PROVE  IInv'
<1>1. \A c \in Changes : Affected[c] \intersect Steps \subseteq Invalidated[c]
    BY AffectedIsInvalidated
<1>2. CASE ChangeOptions
  <2>1. PICK roots \in ObjectOptions \union PrintOptions : Apply(roots, roots)
      BY <1>2 DEF ChangeOptions
  <2>2. roots \in Changes
      BY DEF Changes
  <2>3. QED
      BY <1>1, <2>1, <2>2, ApplyPreserves
<1>3. CASE PaintSupports
  <2>1. PICK roots \in Changes : Apply(roots, roots)
      BY <1>3 DEF PaintSupports, Changes, ObjectOptions
  <2>2. QED
      BY <1>1, <2>1, ApplyPreserves
<1>4. CASE ChangeCustomGCode
  <2>1. PICK roots \in CustomGCode : Apply(roots, roots)
      BY <1>4 DEF ChangeCustomGCode
  <2>2. roots \in Changes
      BY DEF Changes
  <2>3. QED
      BY <1>1, <2>1, <2>2, ApplyPreserves
<1>5. CASE MoveCopies
  <2>1. Moved \in Changes /\ Apply(Moved, Moved)
      BY <1>5 DEF MoveCopies, Changes
  <2>2. QED
      BY <1>1, <2>1, ApplyPreserves
<1>6. CASE AddCopy
  <2>1. PICK roots \in {Moved, Moved \union {"psWipeTower"}} : Apply(roots, Added)
      BY <1>6 DEF AddCopy
  <2>2. roots \in Changes /\ Added \in Changes
      BY DEF Changes
  <2>3. Affected[Added] \intersect Steps \subseteq Invalidated[roots]
      BY AddedIsInvalidated
  <2>4. QED
      BY <2>1, <2>2, <2>3, ApplyPreserves
<1>7. QED
    BY <1>2, <1>3, <1>4, <1>5, <1>6

LEMMA ObjectsPreserve == ASSUME IInv, AddObject \/ RemoveObject PROVE IInv'
<1>1. objects \in SUBSET Objects
    BY DEF IInv, TypeOK
<1>2. PICK objs \in SUBSET Objects : ReplaceObjects(objs)
    BY <1>1 DEF AddObject, RemoveObject
<1>3. QED
    BY <1>2, ReplacePreserves

LEMMA StutterPreserves == ASSUME IInv, UNCHANGED vars PROVE IInv'
<1>1. TypeOK' /\ points' # "stale"
    BY DEF IInv, TypeOK, vars
<1>2. QED
    BY <1>1, OtherStepsPreserve DEF vars

LEMMA NextPreserves == ASSUME IInv, [Next]_vars PROVE IInv'
<1>1. CASE \E o \in objects :
              StartSlice(o) \/ StartPerimeters(o) \/ StartPrepareInfill(o) \/ StartInfill(o)
    BY <1>1, StartsPreserve
<1>2. CASE \E o \in objects : Split(o) \/ MarkTyped(o) \/ Search(o)
    BY <1>2, WorkPreserves
<1>3. CASE \E t \in TasksOf(Steps) : StartOther(t) \/ SetDone(t)
  <2>1. PICK t \in TasksOf(Steps) : StartOther(t) \/ SetDone(t)
      BY <1>3
  <2>2. t \in Tasks
      BY DEF TasksOf
  <2>3. CASE StartOther(t)
    <3>1. TypeOK
        BY DEF IInv
    <3>2. QED
        BY <2>3, <3>1, StartPreserves DEF StartOther, SetStarted, TypeOK
  <2>4. CASE SetDone(t)
      BY <2>2, <2>4, SetDonePreserves
  <2>5. QED
      BY <2>1, <2>3, <2>4
<1>4. QED
    BY <1>1, <1>2, <1>3, ProcessPreserves, StopPreserves, ChangePreserves,
       ObjectsPreserve, StutterPreserves DEF Next

\* Every reachable state satisfies the inductive invariant.
THEOREM Invariance == Spec => []IInv
<1>1. Init => IInv
    BY InitInvariant
<1>2. IInv /\ [Next]_vars => IInv'
    BY NextPreserves
<1>3. QED
    BY <1>1, <1>2, PTL DEF Spec

\* The variables stay in their types; nothing stays Started when no run is
\* under way, and one object at a time is searched for support spots.
THEOREM TypeCorrect == Spec => []TypeOK
<1>1. IInv => TypeOK
    BY DEF IInv
<1>2. QED
    BY <1>1, Invariance, PTL

\* However many objects there are, whatever was done, canceled or under way
\* when a change came in: but for the dependencies in Overlooked, no milestone
\* is live with a result that the change has made obsolete.
THEOREM DoneUpToDate == Spec => []DoneIsUpToDate
<1>1. IInv => DoneIsUpToDate
    BY DEF IInv, DoneIsUpToDate
<1>2. QED
    BY <1>1, Invariance, PTL

\* The fills of a filled or ironed object are there, and the support points the
\* objects share were never found for older settings than those of an object
\* that counts as searched.
THEOREM DoneHasData == Spec => []DoneHasItsData
<1>1. IInv => DoneHasItsData
    BY DEF IInv, DoneHasItsData, FillsAreThere, TypeOK
<1>2. QED
    BY <1>1, Invariance, PTL
=============================================================================
