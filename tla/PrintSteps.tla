----------------------------- MODULE PrintSteps -----------------------------
(***************************************************************************)
(* The milestones of a Print of FFF technology: which of them              *)
(* Print::process() works on and in which order, which of them a change of *)
(* the settings invalidates, and what Print::cleanup() releases.           *)
(* Translated from libslic3r/Print.cpp, PrintObject.cpp and PrintApply.cpp.*)
(*                                                                         *)
(* A task is one milestone of one object, or of the print as a whole.      *)
(* BackgroundSlicing models the thread, its locks and a print of a few     *)
(* milestones; here a run is just a flag, and a cancelation is over before *)
(* the call that asked for it returns.  The objects are PrintObjects of    *)
(* one ModelObject (differently turned copies of it): they have the same   *)
(* settings and share their support points.                                *)
(*                                                                         *)
(* Options are not modelled: each is taken to be read by the milestones    *)
(* that its change invalidates first.  What a milestone reads of the       *)
(* results of others is Reads, and `stale' follows it through every        *)
(* change.                                                                 *)
(***************************************************************************)
EXTENDS PrintState, Naturals, Sequences, FiniteSets, SequencesExt

CONSTANTS
    Objects,  \* the PrintObjects that may exist
    ThePrint  \* the owner of the milestones of the print as a whole

\* The print is not one of its objects.
ASSUME PrintIsNoObject == ThePrint \notin Objects

PrintObjectStep ==
    {"posSlice", "posPerimeters", "posPrepareInfill", "posInfill", "posIroning",
     "posSupportSpotsSearch", "posSupportMaterial", "posEstimateCurledExtrusions",
     "posCalculateOverhangingPerimeters"}
PrintStep == {"psWipeTower", "psAlertWhenSupportsNeeded", "psSkirtBrim", "psGCodeExport"}
Steps == PrintObjectStep \union PrintStep

\* The body of process(), followed by the export: a block starts when the
\* blocks before it are done for all objects.
Blocks == <<
    <<"posSlice", "posPerimeters", "posPrepareInfill", "posInfill", "posIroning">>,
    <<"posSupportSpotsSearch">>,
    <<"psAlertWhenSupportsNeeded">>,
    <<"posSupportMaterial", "posEstimateCurledExtrusions", "posCalculateOverhangingPerimeters">>,
    <<"psWipeTower">>,
    <<"psSkirtBrim">>,
    <<"psGCodeExport">> >>

\* The dependencies that no invalidation follows: supports are trimmed by
\* bridging perimeters and bottom bridges, speeds of overhangs depend on the
\* curled lines, wiping into objects on their copies, and the skirt goes around
\* the wipe tower.
Overlooked ==
    {<<"posSupportMaterial", "posPerimeters">>, <<"posSupportMaterial", "posPrepareInfill">>,
     <<"posCalculateOverhangingPerimeters", "posEstimateCurledExtrusions">>,
     <<"psWipeTower", "copies">>, <<"psSkirtBrim", "psWipeTower">>}

\* <<a, b>>: milestone a computes from what b left, or from the copies of the
\* objects.
Reads ==
    {<<"posPerimeters", "posSlice">>, <<"posPrepareInfill", "posSlice">>,
     <<"posPrepareInfill", "posPerimeters">>, <<"posInfill", "posPrepareInfill">>,
     <<"posIroning", "posPrepareInfill">>, <<"posIroning", "posInfill">>,
     <<"posSupportSpotsSearch", "posSlice">>, <<"posSupportSpotsSearch", "posPerimeters">>,
     <<"posSupportSpotsSearch", "posInfill">>,
     <<"psAlertWhenSupportsNeeded", "posSupportSpotsSearch">>,
     <<"posSupportMaterial", "posSlice">>,
     <<"posEstimateCurledExtrusions", "posPerimeters">>,
     <<"posEstimateCurledExtrusions", "posSupportMaterial">>,
     <<"posCalculateOverhangingPerimeters", "posSlice">>,
     <<"posCalculateOverhangingPerimeters", "posPerimeters">>,
     <<"psSkirtBrim", "posSlice">>, <<"psSkirtBrim", "posSupportMaterial">>}
    \union Overlooked
    \union {"psWipeTower"} \X PrintObjectStep
    \union {"psGCodeExport"} \X (Steps \ {"psGCodeExport"})

\* All that has to be computed anew when `changed' is: the least set with it
\* that holds, but for what is overlooked, all that reads a member of it.
Closed ==
    {D \in SUBSET (Steps \union {"copies"}) :
        \A r \in Reads \ Overlooked : r[2] \in D => r[1] \in D}
Dependent(changed) ==
    {s \in Steps \union {"copies"} : \A D \in Closed : changed \subseteq D => s \in D}

-----------------------------------------------------------------------------
(* What is invalidated.                                                    *)

\* Besides the milestone itself, PrintObject::invalidate_step() and
\* Print::invalidate_step() invalidate these.
Cascade == [s \in Steps |->
    CASE s = "posSlice" ->
            (PrintObjectStep \ {s}) \union PrintStep
      [] s = "posPerimeters" ->
            {"posPrepareInfill", "posInfill", "posIroning", "posSupportSpotsSearch",
             "posEstimateCurledExtrusions", "posCalculateOverhangingPerimeters"} \union PrintStep
      [] s = "posPrepareInfill" ->
            {"posInfill", "posIroning", "posSupportSpotsSearch"}
            \union (PrintStep \ {"psSkirtBrim"})
      [] s = "posInfill" ->
            {"posIroning", "posSupportSpotsSearch"} \union PrintStep
      [] s = "posSupportMaterial" ->
            {"posEstimateCurledExtrusions"} \union PrintStep
      [] s \in PrintStep ->
            {"psGCodeExport"}
      [] OTHER ->
            PrintStep \ {"psSkirtBrim"}]

\* The milestones that a changed option of an object or of a region invalidates.
ObjectOptions ==
    {{"posSupportSpotsSearch", "posSupportMaterial"}, {"posPerimeters"},
     {"posSlice", "posPerimeters"}, {"posSlice"}, {"posSupportMaterial"},
     {"posSupportMaterial", "posSlice"}, {"posPrepareInfill"},
     {"posPrepareInfill", "posSlice"}, {"posInfill"}, {"posPerimeters", "posPrepareInfill"},
     {"posPerimeters", "posSupportMaterial"}, {"posPerimeters", "posInfill", "posSupportMaterial"},
     {"psGCodeExport"}, {"psWipeTower", "psGCodeExport"}, Steps}

\* Those that a changed option of the print invalidates.
PrintOptions ==
    {{"psGCodeExport"}, {"psSkirtBrim"}, {"posSlice"}, {"psWipeTower", "psSkirtBrim"},
     {"psWipeTower", "posSupportMaterial"},
     {"posPerimeters", "posInfill", "posSupportMaterial", "psSkirtBrim"},
     {"posEstimateCurledExtrusions"}, PrintStep}

\* A change of the tools, or of colors only, on the ruler of the preview.
CustomGCode == {{"psWipeTower", "psGCodeExport"}, {"psGCodeExport"}}

\* What moving a copy invalidates; what depends on there being one more.
Moved == {"psSkirtBrim", "psGCodeExport"}
Added == Moved \union {"copies"}

Changes == ObjectOptions \union PrintOptions \union CustomGCode
             \union {Moved, Moved \union {"psWipeTower"}, Added}

\* Mutant: invalidate_step(posInfill) forgets the search for support spots.
MutInvalidated == [c \in Changes |->
    c \union UNION {Cascade[s] \ IF s = "posInfill" THEN {"posSupportSpotsSearch"} ELSE {} :
                    s \in c \intersect Steps}]

Invalidated == [c \in Changes |-> c \union UNION {Cascade[s] : s \in c \intersect Steps}]
Affected == [c \in Changes |-> Dependent(c)]

-----------------------------------------------------------------------------
VARIABLES
    objects,  \* m_objects
    state,    \* the state of every task
    running,  \* process() or the export is under way
    slices,   \* LayerRegion::m_slices of an object: none, whole, or split by type
    typed,    \* m_typed_slices
    fills,    \* the layers of an object hold all their fills
    points,   \* generated_support_points: none, current, or of older settings
    searched, \* generate_support_spots() is past its search
    stale     \* history: live tasks whose results depend on what was changed

vars == <<objects, state, running, slices, typed, fills, points, searched, stale>>

Tasks == Objects \X PrintObjectStep \union {ThePrint} \X PrintStep

\* The tasks of a set of milestones.
TasksOf(steps) ==
    {t \in Tasks : t[1] \in objects \union {ThePrint} /\ t[2] \in steps}

\* The types; what is Started is being worked on, one object at a time is
\* searched for support spots, and only slices that are there are typed.
TypeOK ==
    /\ objects \in SUBSET Objects
    /\ state \in [Tasks -> {"Fresh", "Started", "Done"}]
    /\ running \in BOOLEAN
    /\ slices \in [Objects -> {"none", "whole", "split"}]
    /\ typed \in [Objects -> BOOLEAN]
    /\ fills \in [Objects -> BOOLEAN]
    /\ points \in {"none", "current", "stale"}
    /\ searched \in BOOLEAN
    /\ stale \in SUBSET Tasks
    /\ ~running => \A t \in Tasks : state[t] # "Started"
    /\ \A o, q \in Objects :
          state[<<o, "posSupportSpotsSearch">>] = "Started"
          /\ state[<<q, "posSupportSpotsSearch">>] = "Started" => o = q
    /\ \A o \in Objects : typed[o] => slices[o] # "none"

Init ==
    /\ objects \in SUBSET Objects \ {{}}
    /\ state = [t \in Tasks |-> "Fresh"]
    /\ running = FALSE
    /\ slices = [o \in Objects |-> "none"]
    /\ typed = [o \in Objects |-> FALSE]
    /\ fills = [o \in Objects |-> FALSE]
    /\ points = "none"
    /\ searched = FALSE
    /\ stale = {}

-----------------------------------------------------------------------------
(* A run.                                                                  *)

Started(t) == state[t] = "Started"
Done(t) == state[t] = "Done"

\* The worker takes up the print.
Process ==
    /\ ~running
    /\ \E t \in TasksOf(Steps) : ~Done(t)
    /\ running' = TRUE
    /\ UNCHANGED <<objects, state, slices, typed, fills, points, searched, stale>>

\* process() has come to task t: all objects are through the blocks before it,
\* its object is through the milestones before it, and the search for support
\* spots takes one object at a time.
Reached(t) ==
    \E b \in DOMAIN Blocks : \E i \in DOMAIN Blocks[b] :
        /\ Blocks[b][i] = t[2]
        /\ \A c \in 1..(b - 1) : \A u \in TasksOf(ToSet(Blocks[c])) : Done(u)
        /\ \A j \in 1..(i - 1) : Done(<<t[1], Blocks[b][j]>>)
        /\ t[2] = "posSupportSpotsSearch" => \A u \in TasksOf({t[2]}) : ~Started(u)

\* set_started(), which refuses a task that is done.
SetStarted(t) ==
    /\ running
    /\ t \in TasksOf(Steps)
    /\ ~IsLive(state[t])
    /\ Reached(t)
    /\ state' = [state EXCEPT ![t] = "Started"]
    /\ UNCHANGED <<objects, running, points, searched, stale>>

\* slice() drops the layers with all they hold.
StartSlice(o) ==
    /\ SetStarted(<<o, "posSlice">>)
    /\ slices' = [slices EXCEPT ![o] = "none"]
    /\ typed' = [typed EXCEPT ![o] = FALSE]
    /\ fills' = [fills EXCEPT ![o] = FALSE]

\* make_perimeters() reverts typed slices to what slice() made of them.
StartPerimeters(o) ==
    /\ SetStarted(<<o, "posPerimeters">>)
    /\ slices' = IF typed[o] THEN [slices EXCEPT ![o] = "whole"] ELSE slices
    /\ typed' = [typed EXCEPT ![o] = FALSE]
    /\ fills' = [fills EXCEPT ![o] = FALSE]

\* prepare_infill() reverts them, too, but leaves them marked as typed.
StartPrepareInfill(o) ==
    /\ SetStarted(<<o, "posPrepareInfill">>)
    /\ slices' = IF typed[o] THEN [slices EXCEPT ![o] = "whole"] ELSE slices
    /\ UNCHANGED <<typed, fills>>

\* make_fills() clears each layer before it fills it.
StartInfill(o) ==
    /\ SetStarted(<<o, "posInfill">>)
    /\ fills' = [fills EXCEPT ![o] = FALSE]
    /\ UNCHANGED <<slices, typed>>

StartOther(t) ==
    /\ t[2] \notin {"posSlice", "posPerimeters", "posPrepareInfill", "posInfill"}
    /\ SetStarted(t)
    /\ UNCHANGED <<slices, typed, fills>>

\* detect_surfaces_type() splits the slices of the first layers ...
Split(o) ==
    /\ Started(<<o, "posPrepareInfill">>)
    /\ slices[o] = "whole"
    /\ slices' = [slices EXCEPT ![o] = "split"]
    /\ UNCHANGED <<objects, state, running, typed, fills, points, searched, stale>>

\* ... and, after the last layer of the last region, marks the object.
MarkTyped(o) ==
    /\ Started(<<o, "posPrepareInfill">>)
    /\ slices[o] = "split"
    /\ ~typed[o]
    /\ typed' = [typed EXCEPT ![o] = TRUE]
    /\ UNCHANGED <<objects, state, running, slices, fills, points, searched, stale>>

\* generate_support_spots() searches unless there are points already.
Search(o) ==
    /\ Started(<<o, "posSupportSpotsSearch">>)
    /\ ~searched
    /\ searched' = TRUE
    /\ points' = IF points = "none" THEN "current" ELSE points
    /\ UNCHANGED <<objects, state, running, slices, typed, fills, stale>>

\* set_done(), once the work of the milestone is complete.
SetDone(t) ==
    /\ t \in Tasks
    /\ Started(t)
    /\ t[2] = "posPrepareInfill" => typed[t[1]] /\ slices[t[1]] = "split"
    /\ t[2] = "posSupportSpotsSearch" => searched
    /\ state' = [state EXCEPT ![t] = "Done"]
    /\ slices' = IF t[2] = "posSlice" THEN [slices EXCEPT ![t[1]] = "whole"] ELSE slices
    /\ fills' = IF t[2] = "posInfill" THEN [fills EXCEPT ![t[1]] = TRUE] ELSE fills
    /\ searched' = (searched /\ t[2] # "posSupportSpotsSearch")
    /\ running' = (t[2] # "psGCodeExport")
    /\ UNCHANGED <<objects, typed, points, stale>>

-----------------------------------------------------------------------------
(* Cancelation and changes.                                                *)

\* Mutant: finalize() does not mark what was abandoned.
MutAbandoned(s) == s

\* finalize() of the print and of its objects, when a run was canceled.
Abandoned(s) == [t \in Tasks |-> MarkCanceled(s[t])]

\* Mutant: the support points are not reset.
MutCleanup(objs, s, pts) ==
    /\ state' = [t \in Tasks |-> ResetDirty(s[t])]
    /\ fills' = [o \in Objects |-> o \in objs /\ fills[o] /\ ~IsDirty(s[<<o, "posInfill">>])]
    /\ points' = pts

\* Print::cleanup() of the objects objs, when the tasks are in the states s and
\* the shared points are pts.  It makes posInfill and posSupportMaterial Fresh
\* when they are dirty; the other milestones may stay Canceled or Invalidated,
\* which nothing tells from Fresh, and are taken for it.
Cleanup(objs, s, pts) ==
    /\ state' = [t \in Tasks |-> ResetDirty(s[t])]
    /\ fills' = [o \in Objects |-> o \in objs /\ fills[o] /\ ~IsDirty(s[<<o, "posInfill">>])]
    /\ points' = IF \E o \in objs : s[<<o, "posSupportSpotsSearch">>] = "Done"
                 THEN pts ELSE "none"

\* The user cancels, or a milestone throws: finalize() marks what was
\* abandoned, and the worker cleans up.
Stop ==
    /\ running
    /\ running' = FALSE
    /\ searched' = FALSE
    /\ Cleanup(objects, Abandoned(state), points)
    /\ UNCHANGED <<objects, slices, typed, stale>>

\* Print::apply() finds a change, invalidates the milestones of roots and what
\* hangs on them, and cleans up.  The first milestone that was live has the
\* run canceled.
Apply(roots, changed) ==
    LET hit == {t \in TasksOf(Invalidated[roots]) : IsLive(state[t])}
        lost == [t \in Tasks |-> IF t \in hit THEN TryInvalidate(state[t]) ELSE state[t]]
        after == IF hit = {} THEN state ELSE Abandoned(lost)
        affected == Affected[changed]
        pts == IF points # "none" /\ "posSupportSpotsSearch" \in affected THEN "stale" ELSE points
    IN  /\ running' = (running /\ hit = {})
        /\ searched' = (searched /\ hit = {})
        /\ Cleanup(objects, after, pts)
        /\ stale' = {t \in stale \union TasksOf(affected) : IsLive(after[t])}
        /\ UNCHANGED <<objects, slices, typed>>

\* The user changes an option of the objects or of the print.
ChangeOptions == \E roots \in ObjectOptions \union PrintOptions : Apply(roots, roots)

\* The user paints supports or adds a modifier of them.
PaintSupports == LET roots == {"posSupportMaterial"} IN Apply(roots, roots)

\* The user changes a color change, or a change of tools, on the ruler.
ChangeCustomGCode == \E roots \in CustomGCode : Apply(roots, roots)

\* PrintObject::set_instances(): the wipe tower is invalidated only if the
\* other two were not.
MoveCopies == Apply(Moved, Moved)

AddCopy ==
    LET live == \E t \in TasksOf(Moved) : IsLive(state[t])
    IN  Apply(IF live THEN Moved ELSE Moved \union {"psWipeTower"}, Added)

\* The list of objects changes: the run is canceled and the milestones of the
\* print are invalidated, those of the other objects stay.
ReplaceObjects(objs) ==
    LET gone(t) == t[1] \in Objects \ objs
        after == Abandoned([t \in Tasks |->
                     IF gone(t) THEN "Fresh"
                     ELSE IF t[1] = ThePrint THEN TryInvalidate(state[t]) ELSE state[t]])
    IN  /\ objects' = objs
        /\ running' = FALSE
        /\ searched' = FALSE
        /\ Cleanup(objs, after, points)
        /\ slices' = [o \in Objects |-> IF o \in objs THEN slices[o] ELSE "none"]
        /\ typed' = [o \in Objects |-> o \in objs /\ typed[o]]
        /\ stale' = {t \in stale : IsLive(after[t])}

AddObject == \E o \in Objects \ objects : ReplaceObjects(objects \union {o})
RemoveObject ==
    /\ Cardinality(objects) > 1
    /\ \E o \in objects : ReplaceObjects(objects \ {o})

Next ==
    \/ Process
    \/ \E o \in objects :
          \/ StartSlice(o)
          \/ StartPerimeters(o)
          \/ StartPrepareInfill(o)
          \/ StartInfill(o)
          \/ Split(o)
          \/ MarkTyped(o)
          \/ Search(o)
    \/ \E t \in TasksOf(Steps) : StartOther(t) \/ SetDone(t)
    \/ Stop
    \/ ChangeOptions
    \/ PaintSupports
    \/ ChangeCustomGCode
    \/ MoveCopies
    \/ AddCopy
    \/ AddObject
    \/ RemoveObject

Spec == Init /\ [][Next]_vars

-----------------------------------------------------------------------------
(* Properties.                                                             *)

\* No milestone is live with a result that a change has made obsolete:
\* invalidate_step() reaches everything that, step by step, was computed from
\* what the change invalidates first, whatever was done, canceled or under way
\* when the change came in - but for the dependencies in Overlooked.
DoneIsUpToDate == stale = {}

\* What a milestone that is done stands for is there: nothing but the
\* milestones' own clean-up and the redoing of earlier ones drops the fills,
\* and the support points the objects share were never found for older
\* settings than those of an object that counts as searched.
DoneHasItsData ==
    /\ \A o \in objects :
          IsLive(state[<<o, "posIroning">>]) \/ Done(<<o, "posInfill">>) => fills[o]
    /\ points # "stale"

\* "this is set to true when LayerRegion->slices is split in
\* top/internal/bottom so that next call to make_perimeters() performs a
\* union() before computing loops" (Print.hpp): perimeters are never computed
\* from slices that are split.  This does not hold: a run may be canceled after
\* prepare_infill() has split them and before it marks them.  No run checks it.
PerimetersOfWholeSlices ==
    \A o \in objects : Started(<<o, "posPerimeters">>) => slices[o] = "whole"

\* GLGizmoFdmSupports takes it for granted that the points are there when an
\* object counts as searched.  This does not hold: a change that cancels
\* nothing has apply() clean up between Search and SetDone.  No run checks it.
SearchedHasPoints ==
    (\E o \in objects : Done(<<o, "posSupportSpotsSearch">>)) => points # "none"
=============================================================================
