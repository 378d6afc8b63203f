---------------------------- MODULE SimplifyGizmo ----------------------------
(***************************************************************************)
(* The simplify gizmo: a thread computes a preview of the selected volumes *)
(* with fewer triangles, while the user goes on to change the settings,    *)
(* the selection, or closes the gizmo.  Translated from                    *)
(* slic3r/GUI/Gizmos/GLGizmoSimplify.cpp.                                  *)
(*                                                                         *)
(* What the two threads share is m_state, locked by m_state_mutex in most  *)
(* places.  An action is what a thread does under one lock, or between two *)
(* locks.  A frame of the UI first reads m_state, then draws the buttons   *)
(* by what it read, so that a button may act on a state that has changed.  *)
(***************************************************************************)
EXTENDS Naturals

CONSTANTS
    Volumes,   \* the sets of volumes that may be selected, all of one size
    Levels,    \* the levels of detail the user may choose (max_error)
    Original,  \* the triangle count of the mesh as it is
    None,      \* nothing selected, no result, no mesh to show
    MaxPosted  \* bound: the user waits while as many events are waiting

ASSUME SimplifyGizmoAssumption ==
    /\ Original \notin Levels
    /\ None \notin Levels \cup {Original}
    /\ None \notin {"started", "working", "finishing", "ended"}
    /\ None \notin Volumes
    /\ MaxPosted \in Nat \ {0}

VARIABLES
    gizmo,          \* GLGizmoBase::m_state: On or Off
    selected,       \* the selection of the canvas
    m_volume_ids,
    m_configuration,
    shown,          \* m_glmodels, told by their triangle count; None: cleared
    m_state,        \* shared: status, result, config, volume_ids
    m_worker,       \* where the thread is; None when it is not joinable
    posted,         \* calls of worker_finished() that CallAfter() has queued
    ui,             \* where the UI thread is
    frame,          \* the frame being drawn: what it read, what it will do
    escaped,        \* history: Esc was pressed during the last computation
    missed          \* history: a request to stop it came too early or too late

uivars == <<gizmo, selected, m_volume_ids, m_configuration, shown, ui, frame>>
histvars == <<escaped, missed>>
vars == <<uivars, m_state, m_worker, posted, histvars>>

Frame == [cancelling : BOOLEAN, running : BOOLEAN, ready : BOOLEAN, start_process : BOOLEAN]
\* In the mode without a triangle count wanted_count is that of the mesh shown,
\* and follows it frame by frame; the mesh of a level has a count of its own.
Config == [max_error : Levels, wanted_count : Levels \cup {Original}]
Result == [volume_ids : Volumes, max_error : Levels]

TypeOK ==
    /\ gizmo \in {"On", "Off"}
    /\ selected \in Volumes \cup {None}
    /\ m_volume_ids \in Volumes \cup {None}
    /\ m_configuration \in Config
    /\ shown \in Levels \cup {Original, None}
    /\ (shown = None) = (m_volume_ids = None)
    /\ m_state \in [status : {"idle", "running", "cancelling"}, result : Result \cup {None},
                    config : Config, volume_ids : Volumes \cup {None}]
    /\ m_worker \in {None, "started", "working", "finishing", "ended"}
    /\ posted \in Nat
    /\ ui \in {"idle", "frame", "apply", "process", "stop", "join", "start", "finished", "crashed"}
    /\ frame \in Frame
    /\ escaped \in BOOLEAN
    /\ missed \in BOOLEAN
    /\ m_worker \in {"started", "working"} => m_state.status # "idle"
    /\ ui \notin {"idle", "frame", "crashed"} => gizmo = "On"
    /\ ui \in {"process", "stop", "join", "start"} => m_volume_ids # None

Init ==
    /\ gizmo = "Off"
    /\ selected \in Volumes
    /\ m_volume_ids = None
    /\ m_configuration \in [max_error : Levels, wanted_count : {Original}]
    /\ shown = None
    /\ m_state = [status |-> "idle", result |-> None, config |-> m_configuration, volume_ids |-> None]
    /\ m_worker = None
    /\ posted = 0
    /\ ui = "idle"
    /\ frame = [cancelling |-> FALSE, running |-> FALSE, ready |-> FALSE, start_process |-> FALSE]
    /\ escaped = FALSE
    /\ missed = FALSE

-----------------------------------------------------------------------------
(* The thread.                                                             *)

\* The result that is computed: m_state.config is read by the thread, the
\* volumes were copied for it, and neither changes until it is joined.
Computed == [volume_ids |-> m_state.volume_ids, max_error |-> m_state.config.max_error]

\* Mutant: the result of an earlier computation stays.
MutInitialize ==
    /\ m_worker = "started"
    /\ m_state' = [m_state EXCEPT !.status = "running"]
    /\ m_worker' = "working"
    /\ missed' = (missed \/ m_state.status = "cancelling")
    /\ UNCHANGED <<uivars, posted, escaped>>

\* The status is set whatever it is: a request to cancel that came before is
\* forgotten, and the computation will end with a result.
Initialize ==
    /\ m_worker = "started"
    /\ m_state' = [m_state EXCEPT !.result = None, !.status = "running"]
    /\ m_worker' = "working"
    /\ missed' = (missed \/ m_state.status = "cancelling")
    /\ UNCHANGED <<uivars, posted, escaped>>

\* throw_on_cancel() throws, the exception is caught.
ThrowOnCancel ==
    /\ m_worker = "working"
    /\ m_state.status = "cancelling"
    /\ m_state' = [m_state EXCEPT !.status = "idle"]
    /\ m_worker' = "finishing"
    /\ UNCHANGED <<uivars, posted, histvars>>

\* its_quadric_edge_collapse() looks for a cancel from time to time; behind
\* the last time it returns.
Collapse ==
    /\ m_worker = "working"
    /\ m_worker' = "finishing"
    /\ UNCHANGED <<uivars, m_state, posted, histvars>>

Finish ==
    /\ m_worker = "finishing"
    /\ m_state' = IF m_state.status = "running"
                  THEN [m_state EXCEPT !.status = "idle", !.result = Computed]
                  ELSE m_state
    /\ m_worker' = "ended"
    /\ posted' = posted + 1
    /\ UNCHANGED <<uivars, histvars>>

-----------------------------------------------------------------------------
(* The UI thread: the user.                                                *)

\* stop_worker_thread_request().
Stopped == [m_state EXCEPT !.status = IF @ = "running" THEN "cancelling" ELSE @]

\* on_set_state(), the gizmo being closed.
Close ==
    /\ gizmo' = "Off"
    /\ m_state' = Stopped
    /\ m_volume_ids' = None
    /\ shown' = None

Open ==
    /\ ui = "idle" /\ gizmo = "Off" /\ selected # None
    /\ posted < MaxPosted
    /\ gizmo' = "On"
    /\ UNCHANGED <<selected, m_volume_ids, m_configuration, shown, ui, frame>>
    /\ UNCHANGED <<m_state, m_worker, posted, histvars>>

\* Another gizmo is opened.
Leave ==
    /\ ui = "idle" /\ gizmo = "On"
    /\ Close
    /\ UNCHANGED <<selected, m_configuration, ui, frame, m_worker, posted, histvars>>

Select ==
    /\ ui = "idle"
    /\ posted < MaxPosted
    /\ selected' \in (Volumes \cup {None}) \ {selected}
    /\ UNCHANGED <<gizmo, m_volume_ids, m_configuration, shown, ui, frame>>
    /\ UNCHANGED <<m_state, m_worker, posted, histvars>>

Escape ==
    /\ ui = "idle" /\ gizmo = "On"
    /\ m_state.status = "running"
    /\ m_state' = Stopped
    /\ escaped' = TRUE
    /\ UNCHANGED <<uivars, m_worker, posted, missed>>

-----------------------------------------------------------------------------
(* The UI thread: on_render_input_window().                                *)

\* With nothing selected the gizmo is closed.  With another selection its
\* meshes are shown (init_model()) and process() will be called.
Render ==
    /\ ui = "idle" /\ gizmo = "On"
    /\ UNCHANGED <<selected, m_worker, posted, histvars>>
    /\ \/ /\ selected = None
          /\ Close
          /\ UNCHANGED <<m_configuration, ui, frame>>
       \/ /\ selected # None
          /\ m_volume_ids' = selected
          /\ shown' = IF m_volume_ids # selected THEN Original ELSE shown
          /\ m_configuration' = [m_configuration EXCEPT !.wanted_count = shown']
          /\ frame' = [cancelling |-> m_state.status = "cancelling",
                       running |-> m_state.status = "running",
                       ready |-> m_state.result # None,
                       start_process |-> m_volume_ids # selected]
          /\ ui' = "frame"
          /\ UNCHANGED <<gizmo, m_state>>

\* The user moves the slider of the level of detail.  The other settings, left
\* out, go the same way: the radio buttons of use_count and the slider of the
\* decimate ratio change the configuration and have process() called, too.
Configure ==
    /\ ui = "frame" /\ gizmo = "On"
    /\ posted < MaxPosted
    /\ \E level \in Levels \ {m_configuration.max_error} :
           m_configuration' = [m_configuration EXCEPT !.max_error = level]
    /\ frame' = [frame EXCEPT !.start_process = TRUE]
    /\ UNCHANGED <<gizmo, selected, m_volume_ids, shown, ui>>
    /\ UNCHANGED <<m_state, m_worker, posted, histvars>>

PressClose ==
    /\ ui = "frame" /\ gizmo = "On"
    /\ ~frame.cancelling
    /\ Close
    /\ UNCHANGED <<selected, m_configuration, ui, frame, m_worker, posted, histvars>>

PressApply ==
    /\ ui = "frame" /\ gizmo = "On"
    /\ ~frame.running /\ frame.ready
    /\ ui' = "apply"
    /\ UNCHANGED <<gizmo, selected, m_volume_ids, m_configuration, shown, frame>>
    /\ UNCHANGED <<m_state, m_worker, posted, histvars>>

\* apply_simplify(): the volumes get new meshes and new ids, the gizmo is
\* closed.
ApplySimplify ==
    /\ ui = "apply"
    /\ selected' \in Volumes \ {selected}
    /\ gizmo' = "Off"
    /\ m_state' = [Stopped EXCEPT !.result = None]
    /\ m_volume_ids' = None
    /\ shown' = None
    /\ ui' = "frame"
    /\ UNCHANGED <<m_configuration, frame, m_worker, posted, histvars>>

EndFrame ==
    /\ ui = "frame"
    /\ ui' = IF frame.start_process /\ m_volume_ids # None THEN "process" ELSE "idle"
    /\ UNCHANGED <<gizmo, selected, m_volume_ids, m_configuration, shown, frame>>
    /\ UNCHANGED <<m_state, m_worker, posted, histvars>>

-----------------------------------------------------------------------------
(* The UI thread: process() and worker_finished().                         *)

Matches == m_state.config = m_configuration /\ m_state.volume_ids = m_volume_ids

Process ==
    /\ ui = "process"
    /\ LET running == m_state.status = "running"
           valid == m_state.result # None
       IN ui' = CASE (valid \/ running) /\ Matches -> "idle"
                  [] running /\ ~Matches -> "stop"
                  [] OTHER -> "join"
    /\ UNCHANGED <<gizmo, selected, m_volume_ids, m_configuration, shown, frame>>
    /\ UNCHANGED <<m_state, m_worker, posted, histvars>>

\* The thread may have finished since process() looked.
StopOutdated ==
    /\ ui = "stop"
    /\ m_state' = Stopped
    /\ missed' = (missed \/ m_state.status # "running")
    /\ ui' = "idle"
    /\ UNCHANGED <<gizmo, selected, m_volume_ids, m_configuration, shown, frame>>
    /\ UNCHANGED <<m_worker, posted, escaped>>

\* Nothing happens on the UI thread until the thread has ended.
Join ==
    /\ ui = "join"
    /\ m_worker \in {None, "ended"}
    /\ m_worker' = None
    /\ ui' = "start"
    /\ UNCHANGED <<gizmo, selected, m_volume_ids, m_configuration, shown, frame>>
    /\ UNCHANGED <<m_state, posted, histvars>>

StartWorker ==
    /\ ui = "start"
    /\ m_state' = [m_state EXCEPT !.config = m_configuration,
                                  !.volume_ids = m_volume_ids,
                                  !.status = "running"]
    /\ m_worker' = "started"
    /\ escaped' = FALSE
    /\ missed' = FALSE
    /\ ui' = "idle"
    /\ UNCHANGED <<gizmo, selected, m_volume_ids, m_configuration, shown, frame, posted>>

\* The queued call is dropped when the gizmo is not open, and does nothing
\* when the thread runs again.
WorkerFinished ==
    /\ ui = "idle"
    /\ posted > 0
    /\ posted' = posted - 1
    /\ ui' = IF gizmo = "On" /\ m_state.status # "running" THEN "finished" ELSE "idle"
    /\ UNCHANGED <<gizmo, selected, m_volume_ids, m_configuration, shown, frame>>
    /\ UNCHANGED <<m_state, m_worker, histvars>>

\* update_model() has a result and meshes to replace by it.
CanUpdate == m_state.result # None /\ shown # None

\* Mutant: nobody looks whether the settings have changed in the meantime.
MutJoinFinished ==
    /\ ui = "finished"
    /\ m_worker \in {None, "ended"}
    /\ m_worker' = None
    /\ shown' = IF CanUpdate THEN m_state.result.max_error ELSE shown
    /\ ui' = "idle"
    /\ UNCHANGED <<gizmo, selected, m_volume_ids, m_configuration, frame>>
    /\ UNCHANGED <<m_state, posted, histvars>>

\* The thread is joined, the result is shown and, if the settings have changed,
\* the thread is started again.  update_model() asserts that it finds the
\* volumes of the result among those shown (of as many; of more or fewer it
\* shows nothing); if not, it goes on with end().
JoinFinished ==
    /\ ui = "finished"
    /\ m_worker \in {None, "ended"}
    /\ m_worker' = None
    /\ IF CanUpdate /\ m_state.result.volume_ids # m_volume_ids
       THEN ui' = "crashed" /\ UNCHANGED shown
       ELSE /\ shown' = IF CanUpdate THEN m_state.result.max_error ELSE shown
            /\ ui' = IF ~Matches /\ m_volume_ids # None THEN "process" ELSE "idle"
    /\ UNCHANGED <<gizmo, selected, m_volume_ids, m_configuration, frame>>
    /\ UNCHANGED <<m_state, posted, histvars>>

-----------------------------------------------------------------------------
Worker == Initialize \/ ThrowOnCancel \/ Collapse \/ Finish
User == Open \/ Leave \/ Select \/ Escape \/ Configure \/ PressClose \/ PressApply
Code == \/ ApplySimplify \/ EndFrame \/ Process \/ StopOutdated
        \/ Join \/ StartWorker \/ JoinFinished

Next == Worker \/ User \/ Render \/ Code \/ WorkerFinished

\* The threads run on, and the event loop gets round to each of: a frame, a
\* queued call.
Fairness ==
    /\ WF_vars(Worker)
    /\ WF_vars(Code)
    /\ SF_vars(Render)
    /\ SF_vars(WorkerFinished)

Spec == Init /\ [][Next]_vars /\ Fairness

-----------------------------------------------------------------------------
(* Properties.                                                             *)

\* A result that is there while nothing is computed is that of the settings
\* and volumes in m_state, never that of an earlier computation.
ResultIsCurrent ==
    m_state.status = "idle" /\ m_state.result # None => m_state.result = Computed

\* "It will restart itself when cancellation is done": whatever is changed while
\* a computation goes on or is being canceled, and in whatever order the calls of
\* worker_finished() arrive, in the end there is the result for the volumes and
\* the level as they are, unless the user cancels it.
\*
\* It does not say that of two cases, in which the code breaks its promise.  Other
\* volumes are selected, and the request to stop the computation of those before
\* comes too early, so that the thread overwrites it when it starts to work
\* (GLGizmoSimplify.cpp:495), or too late, the thread having finished since
\* process() looked (:438).  Then worker_finished() finds the result of the
\* volumes of before, the assertion of update_model() that they are shown (:674)
\* fails, and nothing is started again.
PreviewCatchesUp ==
    \A v \in Volumes, level \in Levels :
        LET wanted == m_volume_ids = v /\ m_configuration.max_error = level
        IN (wanted /\ ~escaped)
               ~> \/ m_state.result = [volume_ids |-> v, max_error |-> level]
                  \/ ~wanted \/ escaped
                  \/ ui = "crashed" /\ missed

\* "Either finished or waiting for result already. Nothing to do.": with the
\* computation finished, its thread joined and its call of worker_finished()
\* handled, the meshes shown are the result.
FinishedIsShown ==
    (/\ ui = "idle" /\ m_worker = None /\ posted = 0
     /\ m_volume_ids # None
     /\ m_state.result = [volume_ids |-> m_volume_ids, max_error |-> m_configuration.max_error])
        => shown = m_configuration.max_error
=============================================================================
