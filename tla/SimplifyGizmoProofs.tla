------------------------- MODULE SimplifyGizmoProofs -------------------------
(***************************************************************************)
(* Proof that the simplify gizmo never takes the result of one computation *)
(* for that of another, for any volumes, levels and number of events.      *)
(***************************************************************************)
EXTENDS SimplifyGizmo, TLAPS

SharedOK ==
    /\ m_state \in [status : {"idle", "running", "cancelling"}, result : Result \cup {None},
                    config : Config, volume_ids : Volumes \cup {None}]
    /\ m_worker \in {None, "started", "working", "finishing", "ended"}

GizmoOK ==
    /\ m_volume_ids \in Volumes \cup {None}
    /\ selected \in Volumes \cup {None}
    /\ m_configuration \in Config
    /\ shown \in Levels \cup {Original, None}
    /\ (shown = None) <=> (m_volume_ids = None)
    /\ ui \in {"process", "stop", "join", "start"} => m_volume_ids # None

\* What the thread is at decides what may be in m_state.result, whatever the
\* status: what an earlier computation left is there until it initializes,
\* nothing until it finishes, then its own result or, canceled, nothing.
ResultInv ==
    /\ ui = "start" => m_worker = None
    /\ m_worker \in {"started", "working", "finishing"} => m_state.volume_ids \in Volumes
    /\ m_worker = "started" => m_state.status # "idle"
    /\ m_worker \in {"working", "finishing"} => m_state.result = None
    /\ m_worker \in {None, "ended"} => m_state.result \in {None, Computed}

IInv == SharedOK /\ GizmoOK /\ ResultInv

\* Every step of either thread keeps it (GLGizmoSimplify::process(), its thread
\* and the actions of the user).
LEMMA InvStep == IInv /\ [Next]_vars => IInv'
<1> SUFFICES ASSUME IInv, [Next]_vars PROVE IInv'
  OBVIOUS
<1> USE SimplifyGizmoAssumption DEF IInv, SharedOK, GizmoOK, ResultInv, Computed, Config, Result
<1>1. CASE Initialize
  BY <1>1 DEF Initialize, uivars
<1>2. CASE ThrowOnCancel
  BY <1>2 DEF ThrowOnCancel, uivars
<1>3. CASE Collapse
  BY <1>3 DEF Collapse, uivars
<1>4. CASE Finish
  BY <1>4 DEF Finish, uivars
<1>5. CASE Open
  BY <1>5 DEF Open, uivars
<1>6. CASE Leave
  BY <1>6 DEF Leave, Close, Stopped, uivars
<1>7. CASE Select
  BY <1>7 DEF Select, uivars
<1>8. CASE Escape
  BY <1>8 DEF Escape, Stopped, uivars
<1>9. CASE Configure
  BY <1>9 DEF Configure, uivars
<1>10. CASE PressClose
  BY <1>10 DEF PressClose, Close, Stopped, uivars
<1>11. CASE PressApply
  BY <1>11 DEF PressApply, uivars
<1>12. CASE Render
  BY <1>12 DEF Render, Close, Stopped, uivars
<1>13. CASE ApplySimplify
  BY <1>13 DEF ApplySimplify, Stopped, uivars
<1>14. CASE EndFrame
  BY <1>14 DEF EndFrame, uivars
<1>15. CASE Process
  BY <1>15 DEF Process, uivars
<1>16. CASE StopOutdated
  BY <1>16 DEF StopOutdated, Stopped, uivars
<1>17. CASE Join
  BY <1>17 DEF Join, uivars
<1>18. CASE StartWorker
  BY <1>18 DEF StartWorker, uivars
<1>19. CASE JoinFinished
  BY <1>19 DEF JoinFinished, CanUpdate, uivars
<1>20. CASE WorkerFinished
  BY <1>20 DEF WorkerFinished, uivars
<1>21. CASE UNCHANGED vars
  BY <1>21 DEF vars, uivars
<1> QED
  BY <1>1, <1>2, <1>3, <1>4, <1>5, <1>6, <1>7, <1>8, <1>9, <1>10, <1>11, <1>12, <1>13, <1>14, <1>15, <1>16, <1>17, <1>18, <1>19, <1>20, <1>21 DEF Next, Worker, User, Code

\* A closed gizmo has no volumes: on_render_input_window() closes it before it
\* gets to process(), which is called for volumes only.
FrameInv ==
    /\ gizmo \in {"On", "Off"}
    /\ ui \in {"idle", "frame", "apply", "process", "stop", "join", "start", "finished", "crashed"}
    /\ frame \in Frame
    /\ posted \in Nat
    /\ escaped \in BOOLEAN
    /\ missed \in BOOLEAN
    /\ m_worker \in {"started", "working"} => m_state.status # "idle"
    /\ ui \notin {"idle", "frame", "crashed"} => gizmo = "On"
    /\ gizmo = "Off" => m_volume_ids = None

\* What is read at the start of a frame.
LEMMA FrameType ==
    ASSUME NEW a \in BOOLEAN, NEW b \in BOOLEAN, NEW c \in BOOLEAN, NEW d \in BOOLEAN
    PROVE  [cancelling |-> a, running |-> b, ready |-> c, start_process |-> d] \in Frame
BY DEF Frame

\* Every step keeps it.
LEMMA FrameStep == IInv /\ FrameInv /\ [Next]_vars => FrameInv'
<1> SUFFICES ASSUME IInv, FrameInv, [Next]_vars PROVE FrameInv'
  OBVIOUS
<1> USE SimplifyGizmoAssumption DEF IInv, SharedOK, GizmoOK, ResultInv, FrameInv, Frame, Config
<1>1. CASE Initialize
  BY <1>1 DEF Initialize, uivars, histvars
<1>2. CASE ThrowOnCancel
  BY <1>2 DEF ThrowOnCancel, uivars, histvars
<1>3. CASE Collapse
  BY <1>3 DEF Collapse, uivars, histvars
<1>4. CASE Finish
  BY <1>4 DEF Finish, Computed, Result, uivars, histvars
<1>5. CASE Open
  BY <1>5 DEF Open, uivars, histvars
<1>6. CASE Leave
  BY <1>6 DEF Leave, Close, Stopped, uivars, histvars
<1>7. CASE Select
  BY <1>7 DEF Select, uivars, histvars
<1>8. CASE Escape
  BY <1>8 DEF Escape, Stopped, uivars, histvars
<1>9. CASE Configure
  BY <1>9 DEF Configure, uivars, histvars
<1>10. CASE PressClose
  BY <1>10 DEF PressClose, Close, Stopped, uivars, histvars
<1>11. CASE PressApply
  BY <1>11 DEF PressApply, uivars, histvars
<1>12. CASE Render
  <2>1. frame' \in Frame
    <3>1. CASE selected = None
      BY <1>12, <3>1 DEF Render
    <3>2. CASE selected # None
      <4>1. frame' = [cancelling |-> m_state.status = "cancelling", running |-> m_state.status = "running",
                      ready |-> m_state.result # None, start_process |-> m_volume_ids # selected]
        BY <1>12, <3>2 DEF Render
      <4> HIDE DEF Frame
      <4> QED
        BY <4>1, FrameType
    <3> QED
      BY <3>1, <3>2
  <2> QED
    BY <1>12, <2>1, SMTT(20) DEF Render, Close, Stopped, histvars
<1>13. CASE ApplySimplify
  BY <1>13 DEF ApplySimplify, Stopped, uivars, histvars
<1>14. CASE EndFrame
  BY <1>14 DEF EndFrame, uivars, histvars
<1>15. CASE Process
  BY <1>15 DEF Process, uivars, histvars
<1>16. CASE StopOutdated
  BY <1>16 DEF StopOutdated, Stopped, uivars, histvars
<1>17. CASE Join
  BY <1>17 DEF Join, uivars, histvars
<1>18. CASE StartWorker
  BY <1>18 DEF StartWorker, uivars, histvars
<1>19. CASE JoinFinished
  BY <1>19 DEF JoinFinished, CanUpdate, uivars, histvars
<1>20. CASE WorkerFinished
  BY <1>20 DEF WorkerFinished, uivars, histvars
<1>21. CASE UNCHANGED vars
  BY <1>21 DEF vars, uivars, histvars
<1> QED
  BY <1>1, <1>2, <1>3, <1>4, <1>5, <1>6, <1>7, <1>8, <1>9, <1>10, <1>11, <1>12, <1>13, <1>14, <1>15, <1>16, <1>17, <1>18, <1>19, <1>20, <1>21 DEF Next, Worker, User, Code

\* The types of the gizmo and of what it shares with its thread.
THEOREM TypeCorrect == Spec => []TypeOK
<1>0. Init => frame \in Frame
  BY FrameType DEF Init
<1>1. Init => IInv
  BY SimplifyGizmoAssumption DEF Init, IInv, SharedOK, GizmoOK, ResultInv, Config
<1>a. Init => FrameInv
  <2>1. Init => escaped \in BOOLEAN /\ missed \in BOOLEAN
    BY Zenon DEF Init
  <2> QED
    BY <1>0, <2>1, SimplifyGizmoAssumption DEF Init, FrameInv
<1>2. IInv /\ FrameInv /\ [Next]_vars => IInv' /\ FrameInv'
  BY InvStep, FrameStep
<1>3. IInv /\ FrameInv => TypeOK
  BY DEF IInv, SharedOK, GizmoOK, FrameInv, TypeOK
<1> QED
  BY <1>1, <1>a, <1>2, <1>3, PTL DEF Spec

\* The preview that GLGizmoSimplify::worker_finished() shows and
\* apply_simplify() applies is of the settings and volumes it is said to be of.
THEOREM ResultCurrent == Spec => []ResultIsCurrent
<1>1. Init => IInv
  BY SimplifyGizmoAssumption DEF Init, IInv, SharedOK, GizmoOK, ResultInv, Config
<1>2. IInv /\ [Next]_vars => IInv'
  BY InvStep
<1>3. IInv => ResultIsCurrent
  BY SimplifyGizmoAssumption DEF IInv, SharedOK, ResultInv, ResultIsCurrent
<1> QED
  BY <1>1, <1>2, <1>3, PTL DEF Spec
=============================================================================
