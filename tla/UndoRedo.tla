------------------------------ MODULE UndoRedo ------------------------------
(***************************************************************************)
(* The Undo / Redo stack of the plater, and the "modified" flag of the     *)
(* project that is derived from it.  Translated from                       *)
(* slic3r/Utils/UndoRedo.cpp, with the callers of the stack in             *)
(* slic3r/GUI/Plater.cpp and slic3r/GUI/Gizmos/GLGizmosManager.cpp.        *)
(*                                                                         *)
(* The stack does not store states.  It stores, object by object, the time *)
(* intervals over which the object had a given content, and a vector of    *)
(* snapshots (m_snapshots), sorted by their time stamp.  Everything runs   *)
(* on the UI thread; each action is one command of the user.               *)
(*                                                                         *)
(* m_snapshots is a function from time stamps, the vector m_history of an  *)
(* object a set of intervals: neither ever holds two entries that its      *)
(* order could not tell apart.                                             *)
(***************************************************************************)
EXTENDS Integers, FiniteSets, FiniteSetsExt

CONSTANTS
    Objects,    \* the ids of the objects a project may be made of
    Immutable,  \* those tracked by a shared pointer (triangle meshes)
    Model,      \* the object that holds the ids of the others
    Gizmos,     \* the GLGizmosManager, saved with every snapshot, too
    Open,       \* its content while a gizmo with enter / leave snapshots is open
    Closed,     \* its content otherwise
    Absent,     \* no object
    Projects,   \* the projects the user can make: content by object
    MaxTime,    \* bound: time stamps
    MaxReleased \* bound: snapshots the memory limit releases at a time

ASSUME UndoRedoAssumption ==
    /\ Model \in Objects \ Immutable
    /\ Gizmos \in Objects \ Immutable
    /\ Model # Gizmos
    /\ Open # Closed
    /\ MaxTime \in Nat \ {0}
    /\ MaxReleased \in Nat
    /\ \A p \in Projects :
          /\ p = [o \in Objects |-> p[o]]
          /\ \A g \in {Open, Closed} : [p EXCEPT ![Gizmos] = g] \in Projects
          /\ p[Gizmos] \in {Open, Closed}
          /\ p[Model] # Absent
          /\ p[Gizmos] # Absent
          /\ \A o \in Objects \ {Model, Gizmos} : p[o] # Absent <=> o \in p[Model]
          /\ \A o \in Immutable : p[o] \in {o, Absent}

VARIABLES
    stack,    \* the StackImpl
    project,  \* the model and the gizmos, as they are
    file,     \* the content of the project file, or what counts as it
    dirty,    \* m_plater_dirty
    moved     \* history: the snapshot marked as saved was released

vars == <<stack, project, file, dirty, moved>>

-----------------------------------------------------------------------------
(* Histories of objects.                                                   *)

Earlier(a, b) == IF a < b THEN a ELSE b
Later(a, b) == IF a < b THEN b ELSE a

ReleaseBefore(h, t) ==
    {[i EXCEPT !.begin = Later(@, t)] : i \in {j \in h : j.end > t}}

\* Mutant: an interval across t is not trimmed.
MutReleaseAfter(h, t) == {i \in h : i.begin < t}

ReleaseAfter(h, t) ==
    {[i EXCEPT !.end = Earlier(@, t)] : i \in {j \in h : j.begin < t}}

\* Intervals inside (from, to> serve no snapshot outside (from, to).
ReleaseBetween(h, from, to) == {i \in h : ~(i.begin > from /\ i.end <= to)}

\* Mutant: an object is taken for unchanged because it was saved before.
MutSaveObject(h, o, d, active, current) ==
    LET last == {i \in h : i.end = active}
    IN IF d = Absent THEN h
       ELSE IF last # {}
            THEN (h \ last) \cup {[i EXCEPT !.end = current + 1] : i \in last}
            ELSE h \cup {[begin |-> current, end |-> current + 1, data |-> d]}

\* save() and try_save_timestamp() of an object with content d, or no object.
\* All intervals end by active: the last one is continued if it ends there.
SaveObject(h, o, d, active, current) ==
    LET last == {i \in h : i.end = active}
        back == CHOOSE i \in last : TRUE
        from == IF o \in Immutable \/ last # {} THEN active ELSE current
    IN IF d = Absent THEN h
       ELSE IF last # {} /\ (o \in Immutable \/ back.data = d)
            THEN (h \ {back}) \cup {[back EXCEPT !.end = current + 1]}
            ELSE h \cup {[begin |-> from, end |-> current + 1, data |-> d]}

\* The contents recorded for the time t: one, or none.
DataAt(h, t) == {i.data : i \in {j \in h : j.begin <= t /\ t < j.end}}

\* load() asserts that there is one.
Datum(h, t) ==
    IF \E i \in h : i.begin <= t /\ t < i.end
    THEN (CHOOSE i \in h : i.begin <= t /\ t < i.end).data
    ELSE Absent

\* load_snapshot(): the model is loaded, then the objects it refers to.
Loaded(s, t) ==
    LET model == Datum(s.objects[Model], t)
        ids == IF model = Absent THEN {} ELSE model
    IN [o \in Objects |-> IF o \in {Model, Gizmos} \cup ids
                          THEN Datum(s.objects[o], t) ELSE Absent]

-----------------------------------------------------------------------------
(* The stack.                                                              *)

\* size_t(-1): not known when the project was saved.
Unknown == -1

Times(s) == DOMAIN s.snapshots
TypeAt(s, t) == s.snapshots[t].type
ModifiesProject(type) == type \in {"Action", "GizmoAction", "ProjectSeparator"}

Empty == [objects |-> [o \in Objects |-> {}], snapshots |-> [t \in {} |-> {}],
          active |-> 0, current |-> 0, saved |-> Unknown]

\* m_saved_snapshot_time after release_snapshots() of the range of snapshots
\* `released'; `end' says whether a snapshot follows it.
SavedAfterRelease(s, released, end) ==
    IF s.saved \notin released THEN s.saved
    ELSE IF \A t \in released : t <= s.saved => ~ModifiesProject(TypeAt(s, t))
    THEN Max({t \in Times(s) : \A r \in released : t < r})
    ELSE IF end /\ \A t \in released : t >= s.saved => ~ModifiesProject(TypeAt(s, t))
    THEN Max(released)
    ELSE Unknown

IsLast(s, t) == \A u \in Times(s) : u <= t

TakeSnapshot(s, p, type) ==
    LET released == {t \in Times(s) : t >= s.active}
        topmostSaved == released # {} /\ s.active = s.saved /\ IsLast(s, s.active)
        taken == {s.current, s.current + 1}
    IN [objects |-> [o \in Objects |->
            SaveObject(ReleaseAfter(s.objects[o], s.active), o, p[o], s.active, s.current)],
        snapshots |-> [t \in (Times(s) \ released) \cup taken |->
            IF t \in taken THEN [type |-> type, captured |-> t = s.current]
                           ELSE s.snapshots[t]],
        active |-> s.current + 1,
        current |-> s.current + 1,
        saved |-> IF topmostSaved THEN s.current
                                  ELSE SavedAfterRelease(s, released, FALSE)]

\* The mark of the saved snapshot is lost or moves to another one.
MarkReleased(s) ==
    /\ s.saved # Unknown
    /\ s.saved >= s.active
    /\ ~(s.saved = s.active /\ IsLast(s, s.active))

Keep(s, times) == [s EXCEPT !.snapshots = [t \in times |-> s.snapshots[t]]]

\* undo() from a topmost state that was not captured yet.
Capture(s, p, type) == Keep(TakeSnapshot(s, p, type), {t \in Times(s) : t <= s.active} \cup {s.current})

\* snapshot_type of the top_snapshot_data it passes is never initialized.  Of
\* the last snapshot nothing is read but whether its type modifies the project.
UninitializedType == {"Action", "Selection"}

IsCaptured(s) == s.snapshots[s.active].captured

\* The EnteringGizmo snapshots before the one just taken, which is that of
\* leaving the gizmo.
Entries(s) == {t \in Times(s) : TypeAt(s, t) = "EnteringGizmo"}

\* GizmoAction snapshots of the gizmo that directly follow another one.
Noisy(s) ==
    {t \in Times(s) :
        /\ TypeAt(s, t) = "GizmoAction"
        /\ t > Max(Entries(s))
        /\ \E u \in Times(s) : /\ u < t
                               /\ TypeAt(s, u) = "GizmoAction"
                               /\ \A v \in Times(s) : v <= u \/ v >= t}

\* Mutant: the histories of the objects are left as they are.
MutReduceNoisySnapshots(s) ==
    [Keep(s, Times(s) \ Noisy(s)) EXCEPT !.saved = SavedAfterRelease(s, Noisy(s), TRUE)]

ReduceNoisySnapshots(s) ==
    LET noisy == Noisy(s)
        rest == Times(s) \ noisy
        spans == {r \in rest \X rest :
                    /\ r[1] < r[2]
                    /\ \E t \in noisy : r[1] < t /\ t < r[2]
                    /\ \A u \in rest : u <= r[1] \/ u >= r[2]}
    IN [Keep(s, rest) EXCEPT
          !.objects = [o \in Objects |->
              {i \in s.objects[o] :
                  \A r \in spans : i \in ReleaseBetween(s.objects[o], r[1], r[2])}],
          !.saved = SavedAfterRelease(s, noisy, TRUE)]

\* release_least_recently_used(): the first snapshots go, but not the active
\* one and not the one before it.  How much memory is used is left open.
DropFirst(s, t) ==
    [Keep(s, {u \in Times(s) : u >= t}) EXCEPT
        !.objects = [o \in Objects |-> ReleaseBefore(s.objects[o], t)]]

LimitMemory(s) ==
    {s} \cup {DropFirst(s, t) : t \in {u \in Times(s) :
        u < s.active /\ Cardinality({v \in Times(s) : v < u}) \in 1 .. MaxReleased}}

MarkSaved(s) == [s EXCEPT !.saved = s.active]

\* Mutant: only the way forward from the saved state counts.
MutProjectModified(s) ==
    \/ s.saved = Unknown
    \/ \E t \in Times(s) :
          ModifiesProject(TypeAt(s, t)) /\ s.saved <= t /\ t < s.active

ProjectModified(s) ==
    \/ s.saved = Unknown
    \/ \E t \in Times(s) :
          /\ ModifiesProject(TypeAt(s, t))
          /\ (s.saved <= t /\ t < s.active) \/ (s.active <= t /\ t < s.saved)

-----------------------------------------------------------------------------
(* The commands of the user: Plater::priv::take_snapshot() and its callers,*)
(* undo_redo_to(), and saving the project.                                 *)

\* What the project file holds of a project.
Scene(p) == [o \in Objects \ {Gizmos} |-> p[o]]

\* The plater starts with an empty model.
Init ==
    /\ project \in {p \in Projects : p[Model] = {} /\ p[Gizmos] = Closed}
    /\ stack = MarkSaved(TakeSnapshot(Empty, project, "ProjectSeparator"))
    /\ file = Scene(project)
    /\ dirty = FALSE
    /\ moved = FALSE

\* The end of take_snapshot(): old snapshots are released, the flag is updated.
Limited(s) ==
    /\ stack' \in LimitMemory(s)
    /\ dirty' = ProjectModified(stack')

MarkKept(s) == s.saved \in Times(s) \cup {Unknown}

\* A command that takes a snapshot of the given type and goes on to make p.
Snapshot(type, p) ==
    /\ stack.current < MaxTime
    /\ project' = p
    /\ file' = file
    /\ moved' = (moved \/ MarkReleased(stack) \/ ~MarkKept(stack'))

Edit ==
    \E p \in Projects :
        LET type == IF project[Gizmos] = Open THEN "GizmoAction" ELSE "Action"
        IN /\ p[Gizmos] = project[Gizmos]
           /\ Limited(TakeSnapshot(stack, project, type))
           /\ Snapshot(type, p)

Select ==
    /\ Limited(TakeSnapshot(stack, project, "Selection"))
    /\ Snapshot("Selection", project)

\* activate_gizmo() of a gizmo.
EnterGizmo ==
    /\ project[Gizmos] = Closed
    /\ Limited(TakeSnapshot(stack, project, "EnteringGizmo"))
    /\ Snapshot("EnteringGizmo", [project EXCEPT ![Gizmos] = Open])

\* activate_gizmo() when the gizmo is left.  reduce_noisy_snapshots() walks
\* back to the EnteringGizmo snapshot; if the memory limit has released that
\* snapshot, it leaves the vector, which has no defined outcome.
LeaveGizmo ==
    LET taken == TakeSnapshot(stack, project, "LeavingGizmoWithAction")
    IN /\ project[Gizmos] = Open
       /\ Entries(taken) # {}
       /\ Limited(ReduceNoisySnapshots(taken))
       /\ Snapshot("LeavingGizmoWithAction", [project EXCEPT ![Gizmos] = Closed])

\* A new project, or a project loaded from a file.  The preference
\* clear_undo_redo_stack_on_new_project may have the stack cleared first.
NewProject ==
    \E p \in Projects, old \in {stack, Empty} :
        /\ p[Gizmos] = project[Gizmos]
        /\ stack.current < MaxTime
        /\ Limited(MarkSaved(TakeSnapshot(old, project, "ProjectSeparator")))
        /\ project' = p
        /\ file' = Scene(p)
        /\ moved' = FALSE

Save ==
    /\ stack' = MarkSaved(stack)
    /\ file' = Scene(project)
    /\ dirty' = FALSE
    /\ moved' = FALSE
    /\ UNCHANGED project

\* load_snapshot(), then update_after_undo_redo() and the flag.
JumpTo(s, t) ==
    /\ Limited([s EXCEPT !.active = t])
    /\ project' = Loaded(s, t)
    /\ file' = file
    /\ moved' = (moved \/ ~MarkKept(stack'))

\* The first snapshot is never jumped to.
Undo ==
    \E t \in Times(stack) :
        /\ t < stack.active
        /\ \E u \in Times(stack) : u < t
        /\ \/ /\ IsCaptured(stack)
              /\ JumpTo(stack, t)
           \/ /\ ~IsCaptured(stack)
              /\ stack.current < MaxTime
              /\ \E type \in UninitializedType : JumpTo(Capture(stack, project, type), t)

Redo ==
    \E t \in Times(stack) :
        /\ t > stack.active
        /\ JumpTo(stack, t)

Next == Edit \/ Select \/ EnterGizmo \/ LeaveGizmo \/ NewProject \/ Save \/ Undo \/ Redo

Spec == Init /\ [][Next]_vars

-----------------------------------------------------------------------------
(* Properties.                                                             *)

\* The representation is that of StackImpl::valid(): time stamps in order, the
\* active snapshot one of the vector but never the first, only the last one
\* not captured, intervals of an object disjoint.
Valid ==
    /\ stack.active \in Times(stack)
    /\ \E t \in Times(stack) : t < stack.active
    /\ stack.current <= MaxTime
    /\ \A t \in Times(stack) :
          \/ stack.snapshots[t].captured /\ t < stack.current
          \/ t = stack.active /\ t = stack.current /\ IsLast(stack, t)
    /\ \A o \in Objects : \A i, j \in stack.objects[o] :
          /\ i.begin < i.end
          /\ i = j \/ i.end <= j.begin \/ j.end <= i.begin

\* Nothing is stored that no snapshot needs: every interval of every object holds
\* its content at some snapshot of the stack, so that what lies before the first
\* snapshot, between two of them or after the last one was dropped by
\* release_before_timestamp(), release_between_timestamps() and
\* release_after_timestamp(), whatever undo, thinning and the memory limit removed.
NothingLeaks ==
    \A o \in Objects : \A i \in stack.objects[o] :
        \E t \in Times(stack) : i.begin <= t /\ t < i.end

\* As long as the snapshot the project was saved at is on the stack, a project
\* that is not shown as modified has the content of its file.
UnmodifiedIsSaved == ~moved /\ ~dirty => Scene(project) = file

\* "Is the project modified with regard to the last saved state marked with
\* mark_current_as_saved()?" (UndoRedo.hpp): what is not reported as modified
\* has the content of the file, whatever happened to the snapshots since.
NotModifiedIsSaved == ~dirty => Scene(project) = file

\* The stack keeps whole states: whatever intervals are trimmed, dropped and
\* continued, each captured snapshot loads as the state it was taken of.
History == INSTANCE UndoHistory WITH
    State <- Projects,
    Time <- 0 .. MaxTime,
    kept <- [t \in {u \in Times(stack) : stack.snapshots[u].captured} |-> Loaded(stack, t)],
    pos <- stack.active,
    live <- project

ImplementsHistory == History!Spec
=============================================================================
