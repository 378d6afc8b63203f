------------------------- MODULE BackgroundSlicing -------------------------
(***************************************************************************)
(* The background slicing of the GUI: the UI thread and one worker thread  *)
(* that share a Print.  Translated from                                    *)
(* slic3r/GUI/BackgroundSlicingProcess.{hpp,cpp}, with the parts of        *)
(* libslic3r/PrintBase.hpp, Print.cpp, PrintApply.cpp, GCode.cpp and       *)
(* SLAPrint.cpp the two threads meet in.                                   *)
(*                                                                         *)
(* Two mutexes are involved.  m_mutex (mutex) with its condition variable  *)
(* guards the state of the worker.  The state mutex of the print           *)
(* (stateMutex) guards the milestones: the worker only takes it for the    *)
(* instant in which a milestone changes its state, so those steps are      *)
(* atomic here; the UI thread holds it for the whole of Print::apply() and *)
(* hands it over while stop_internal() waits for the worker.               *)
(*                                                                         *)
(* The UI thread of this module is the most general client: in its event   *)
(* loop it may call any public method at any time.  Module Plater narrows  *)
(* it down to what the program does.                                       *)
(***************************************************************************)
EXTENDS Naturals, Sequences, FiniteSets, PrintState

CONSTANTS
    NSteps,       \* milestones of the print, computed in the order 1 .. NSteps
    ObjSteps,     \* those that belong to a PrintObject, not to the Print
    CleanSteps,   \* those whose data PrintObject::cleanup() releases
    Classes,      \* what Print::apply() may find changed
    Affects,      \* Affects[c]: the milestones a change of class c invalidates
    Sla,          \* TRUE: SLAPrint and process_sla(), FALSE: Print and process_fff()
    TempFileLoss, \* TRUE: somebody may remove the temporary G-code file
    MaxRuns       \* bound: how many times start() may succeed

Steps == 1 .. NSteps
Threads == {"ui", "worker"}

ASSUME BoundsAssumption ==
    /\ NSteps \in Nat \ {0}
    /\ MaxRuns \in Nat

ASSUME PrintAssumption ==
    /\ ObjSteps \subseteq Steps
    /\ CleanSteps \subseteq Steps
    /\ Affects \in [Classes -> SUBSET Steps]
    /\ "none" \notin Classes

ASSUME BuildAssumption == Sla \in BOOLEAN /\ TempFileLoss \in BOOLEAN

VARIABLES
    state,        \* m_state
    mutex,        \* who holds m_mutex
    sleeping,     \* threads waiting on m_condition that were not notified yet
    cancelStatus, \* PrintBase::m_cancel_status
    cancelCb,     \* PrintBase::m_cancel_callback
    stateMutex,   \* who holds PrintBase::m_state_mutex
    step,         \* state of each milestone
    fresh,        \* history: milestones whose data match the current inputs
    empty,        \* PrintBase::empty()
    finalizeStep, \* state of the milestone bspsGCodeFinalize
    exportPath,   \* m_export_path is set
    uploadJob,    \* m_upload_job is set
    gcodeFile,    \* the temporary G-code file exists
    task,         \* m_ui_task: the run that planned it, or 0
    taskState,    \* UITask::state of the task planned by each run
    queue,        \* events posted to the Plater window, oldest first
    ui,           \* control of the UI thread
    wk,           \* control of the worker thread
    runs          \* how many times start() succeeded

workerVars == <<state, mutex, sleeping, cancelStatus, cancelCb>>
printVars  == <<stateMutex, step, fresh, empty>>
outVars    == <<finalizeStep, exportPath, uploadJob, gcodeFile>>
taskVars   == <<task, taskState, queue>>
vars == <<workerVars, printVars, outVars, taskVars, ui, wk, runs>>

-----------------------------------------------------------------------------
(* Types *)

WorkerState == {"INITIAL", "IDLE", "STARTED", "RUNNING", "FINISHED",
                "CANCELED", "EXIT", "EXITED"}

CancelStatus == {"NOT_CANCELED", "CANCELED_BY_USER", "CANCELED_INTERNAL"}

TaskStates == {"None", "Planned", "Finished", "Canceled"}

Outcome == {"Finished", "Cancelled", "Error"}

\* A CallAfter() lambda of execute_ui_task(), or EVT_PROCESS_COMPLETED; the
\* run that posted it is history.
TaskEvent == [type : {"Task"}, run : 1 .. MaxRuns]
CompletedEvent == [type : {"Completed"}, outcome : Outcome, run : 0 .. MaxRuns]
Event == TaskEvent \cup CompletedEvent

UiPc == {"idle", "start.held", "start.wait", "stop.held", "stop.wait",
         "si.check", "si.lock", "si.held", "si.wait", "si.relock",
         "apply.inval", "apply.write", "apply.result", "unlock", "exp.set",
         "reset", "exit", "join", "gone", "runtask"}

Continuation == {"idle", "reset", "exit", "apply.inval", "unlock", "exp.set"}

\* An apply() that finds nothing changed does nothing.
ApplyStatus == {"CHANGED", "INVALIDATED"}

UiControl ==
    [pc      : UiPc,
     ret     : Continuation,             \* where stop() or stop_internal() returns to
     change  : Classes \cup {"none"},    \* the change apply() is carrying out
     rebuild : BOOLEAN,                  \* it deletes and creates PrintObjects
     todo    : SUBSET Steps,             \* milestones it still has to invalidate
     status  : ApplyStatus,              \* what apply() is going to return
     upload  : BOOLEAN,                  \* schedule_upload(), not schedule_export()
     run     : 0 .. MaxRuns]             \* the UI task being executed

WkPc == {"none", "init", "loop", "top", "begin", "compute", "render", "taskwait",
         "taskdone", "end", "fin.begin", "export", "fin.end", "finalize",
         "finish", "cleanup", "release", "exited"}

WkControl ==
    [pc     : WkPc,
     k      : 1 .. NSteps + 1,  \* the milestone it is at; NSteps + 1: none
     torn   : BOOLEAN,          \* history: its inputs changed while it was computed
     drawn  : BOOLEAN,          \* the thumbnails were already asked for in this run
     failed : BOOLEAN]          \* an exception is on its way

TypeOK ==
    /\ state \in WorkerState
    /\ mutex \in Threads \cup {"none"}
    /\ sleeping \subseteq Threads
    /\ cancelStatus \in CancelStatus
    /\ cancelCb \in {"noop", "stop_internal"}
    /\ stateMutex \in {"none", "ui"}
    /\ step \in [Steps -> StepState]
    /\ fresh \subseteq Steps
    /\ empty \in BOOLEAN
    /\ finalizeStep \in StepState
    /\ exportPath \in BOOLEAN
    /\ uploadJob \in BOOLEAN
    /\ gcodeFile \in BOOLEAN
    /\ task \in 0 .. MaxRuns
    /\ taskState \in [1 .. MaxRuns -> TaskStates]
    /\ queue \in Seq(Event)
    /\ ui \in UiControl
    /\ wk \in WkControl
    /\ wk.pc \in {"begin", "compute", "end"} => wk.k \in Steps
    /\ runs \in 0 .. MaxRuns

-----------------------------------------------------------------------------
(* Operations both threads are built from *)

Canceled == cancelStatus # "NOT_CANCELED"

\* BackgroundSlicingProcess::running().
IsRunning == state \in {"STARTED", "RUNNING", "FINISHED", "CANCELED"}

Executing == state \in {"STARTED", "RUNNING"}

\* m_condition.notify_one(): one of the waiting threads, if there is one.
NotifyOne ==
    \/ sleeping = {} /\ sleeping' = {}
    \/ \E t \in sleeping : sleeping' = sleeping \ {t}

\* Nothing but the control is kept of a call that has returned, or of a run.
UiAt(pc) ==
    [pc |-> pc, ret |-> "idle", change |-> "none", rebuild |-> FALSE, todo |-> {},
     status |-> "CHANGED", upload |-> FALSE, run |-> 0]

WkAt(pc) == [pc |-> pc, k |-> 1, torn |-> FALSE, drawn |-> FALSE, failed |-> FALSE]

UiGoto(pc) == ui' = IF pc = "idle" THEN UiAt("idle") ELSE [ui EXCEPT !.pc = pc]

WkGoto(pc) == wk' = [wk EXCEPT !.pc = pc]

\* Mutant: the task is left to itself.
MutCancelUiTask == taskState' = taskState

\* cancel_ui_task(m_ui_task).
CancelUiTask ==
    taskState' = IF task = 0 THEN taskState
                 ELSE [taskState EXCEPT ![task] = "Canceled"]

\* PrintBase::call_cancel_callback(), then on to pc.
CancelCallback(control, pc) ==
    ui' = IF cancelCb = "stop_internal"
          THEN [control EXCEPT !.pc = "si.check", !.ret = pc]
          ELSE [control EXCEPT !.pc = pc]

-----------------------------------------------------------------------------
(* UI thread: BackgroundSlicingProcess::start() *)

StartLock ==
    /\ ui.pc = "idle" /\ ~empty /\ mutex = "none" /\ runs < MaxRuns
    /\ mutex' = "ui"
    /\ UiGoto("start.held")
    /\ UNCHANGED <<state, sleeping, cancelStatus, cancelCb, printVars, outVars,
                   taskVars, wk, runs>>

\* First start(): create the thread and wait until it is ready.
StartCreateThread ==
    /\ ui.pc = "start.held" /\ state = "INITIAL"
    /\ wk' = [wk EXCEPT !.pc = "init"]
    /\ mutex' = "none" /\ sleeping' = sleeping \cup {"ui"}
    /\ UiGoto("start.wait")
    /\ UNCHANGED <<state, cancelStatus, cancelCb, printVars, outVars, taskVars, runs>>

StartWake ==
    /\ ui.pc = "start.wait" /\ "ui" \notin sleeping /\ mutex = "none"
    /\ IF state = "IDLE"
       THEN mutex' = "ui" /\ sleeping' = sleeping /\ UiGoto("start.held")
       ELSE mutex' = "none" /\ sleeping' = sleeping \cup {"ui"} /\ ui' = ui
    /\ UNCHANGED <<state, cancelStatus, cancelCb, printVars, outVars, taskVars, wk, runs>>

\* The background processing is already running: return false.
StartRefused ==
    /\ ui.pc = "start.held" /\ IsRunning
    /\ mutex' = "none"
    /\ UiGoto("idle")
    /\ UNCHANGED <<state, sleeping, cancelStatus, cancelCb, printVars, outVars,
                   taskVars, wk, runs>>

StartGo ==
    /\ ui.pc = "start.held" /\ state = "IDLE"
    /\ state' = "STARTED" /\ cancelCb' = "stop_internal"
    /\ mutex' = "none" /\ NotifyOne
    /\ runs' = runs + 1
    /\ UiGoto("idle")
    /\ UNCHANGED <<cancelStatus, printVars, outVars, taskVars, wk>>

-----------------------------------------------------------------------------
(* UI thread: stop(), alone or as the first step of reset() and of the
   destructor (ret says which) *)

StopLock(ret) ==
    /\ ui.pc = "idle" /\ mutex = "none"
    /\ mutex' = "ui"
    /\ ui' = [ui EXCEPT !.pc = "stop.held", !.ret = ret]
    /\ UNCHANGED <<state, sleeping, cancelStatus, cancelCb, printVars, outVars,
                   taskVars, wk, runs>>

\* No run to stop.
StopNothing ==
    /\ ui.pc = "stop.held" /\ state \in {"INITIAL", "IDLE"}
    /\ mutex' = "none"
    /\ UiGoto(ui.ret)
    /\ UNCHANGED <<state, sleeping, cancelStatus, cancelCb, printVars, outVars,
                   taskVars, wk, runs>>

StopCancel ==
    /\ ui.pc = "stop.held" /\ Executing
    /\ CancelUiTask
    /\ cancelStatus' = "CANCELED_BY_USER"
    /\ mutex' = "none" /\ sleeping' = sleeping \cup {"ui"}
    /\ UiGoto("stop.wait")
    /\ UNCHANGED <<state, cancelCb, printVars, outVars, task, queue, wk, runs>>

StopWake ==
    /\ ui.pc = "stop.wait" /\ "ui" \notin sleeping /\ mutex = "none"
    /\ IF state = "CANCELED"
       THEN /\ state' = "IDLE" /\ cancelCb' = "noop" /\ sleeping' = sleeping
            /\ UiGoto(ui.ret)
       ELSE /\ sleeping' = sleeping \cup {"ui"}
            /\ UNCHANGED <<state, cancelCb, ui>>
    /\ UNCHANGED <<mutex, cancelStatus, printVars, outVars, taskVars, wk, runs>>

\* The run is over; the results are consumed.
StopConfirm ==
    /\ ui.pc = "stop.held" /\ state \in {"FINISHED", "CANCELED"}
    /\ state' = "IDLE" /\ cancelCb' = "noop"
    /\ mutex' = "none"
    /\ UiGoto(ui.ret)
    /\ UNCHANGED <<sleeping, cancelStatus, printVars, outVars, taskVars, wk, runs>>

-----------------------------------------------------------------------------
(* UI thread: stop_internal(), called with the state mutex held *)

\* The state is read before m_mutex is locked.
SiCheck ==
    /\ ui.pc = "si.check"
    /\ UiGoto(IF state = "IDLE" THEN ui.ret ELSE "si.lock")
    /\ UNCHANGED <<workerVars, printVars, outVars, taskVars, wk, runs>>

SiLock ==
    /\ ui.pc = "si.lock" /\ mutex = "none"
    /\ mutex' = "ui"
    /\ UiGoto("si.held")
    /\ UNCHANGED <<state, sleeping, cancelStatus, cancelCb, printVars, outVars,
                   taskVars, wk, runs>>

\* The worker may be waiting for the state mutex, so it is released as well.
SiCancel ==
    /\ ui.pc = "si.held" /\ Executing
    /\ CancelUiTask
    /\ cancelStatus' = "CANCELED_INTERNAL"
    /\ stateMutex' = "none"
    /\ mutex' = "none" /\ sleeping' = sleeping \cup {"ui"}
    /\ UiGoto("si.wait")
    /\ UNCHANGED <<state, cancelCb, step, fresh, empty, outVars, task, queue, wk, runs>>

SiWake ==
    /\ ui.pc = "si.wait" /\ "ui" \notin sleeping /\ mutex = "none"
    /\ IF state = "CANCELED"
       THEN mutex' = "ui" /\ sleeping' = sleeping /\ UiGoto("si.relock")
       ELSE mutex' = "none" /\ sleeping' = sleeping \cup {"ui"} /\ ui' = ui
    /\ UNCHANGED <<state, cancelStatus, cancelCb, printVars, outVars, taskVars, wk, runs>>

SiRelock ==
    /\ ui.pc = "si.relock" /\ stateMutex = "none"
    /\ stateMutex' = "ui"
    /\ state' = "IDLE" /\ cancelCb' = "noop"
    /\ mutex' = "none"
    /\ UiGoto(ui.ret)
    /\ UNCHANGED <<sleeping, cancelStatus, step, fresh, empty, outVars, taskVars, wk, runs>>

\* Nothing is executing: only the state has to be turned back to IDLE.
SiConfirm ==
    /\ ui.pc = "si.held" /\ ~Executing
    /\ state' = "IDLE" /\ cancelCb' = "noop"
    /\ mutex' = "none"
    /\ UiGoto(ui.ret)
    /\ UNCHANGED <<sleeping, cancelStatus, printVars, outVars, taskVars, wk, runs>>

-----------------------------------------------------------------------------
(* UI thread: apply() and set_task() *)

\* Mutant: PrintObjects are deleted under a running worker.
MutApplyLock(c, kill, rebuild) ==
    /\ ui.pc = "idle" /\ stateMutex = "none"
    /\ rebuild => kill /\ Affects[c] = Steps
    /\ empty => rebuild
    /\ stateMutex' = "ui"
    /\ ui' = [ui EXCEPT !.pc = "apply.inval", !.change = c, !.rebuild = rebuild,
                        !.todo = Affects[c]]
    /\ UNCHANGED <<workerVars, step, fresh, empty, outVars, taskVars, wk, runs>>

\* A change of the object list stops the run before anything else, and then
\* invalidates all there is (rebuild); so does every first apply().  Other
\* changes may stop it up front, too (kill), or leave that to invalidate().
ApplyLock(c, kill, rebuild) ==
    /\ ui.pc = "idle" /\ stateMutex = "none"
    /\ rebuild => kill /\ Affects[c] = Steps
    /\ empty => rebuild
    /\ stateMutex' = "ui"
    /\ LET control == [ui EXCEPT !.pc = "apply.inval", !.change = c,
                                 !.rebuild = rebuild, !.todo = Affects[c]]
       IN  IF kill THEN CancelCallback(control, "apply.inval") ELSE ui' = control
    /\ UNCHANGED <<workerVars, step, fresh, empty, outVars, taskVars, wk, runs>>

\* Mutant: the milestones are invalidated and nobody is stopped.
MutApplyInvalidate ==
    /\ ui.pc = "apply.inval"
    /\ step' = [s \in Steps |-> IF s \in ui.todo THEN TryInvalidate(step[s]) ELSE step[s]]
    /\ UiGoto("apply.write")
    /\ UNCHANGED <<workerVars, stateMutex, fresh, empty, outVars, taskVars, wk, runs>>

\* invalidate() of the next milestone that is Started or Done: its state
\* changes first, then the cancelation callback is called.
ApplyInvalidate ==
    /\ ui.pc = "apply.inval"
    /\ \/ /\ \A s \in ui.todo : ~IsLive(step[s])
          /\ UiGoto("apply.write")
          /\ UNCHANGED step
       \/ \E s \in ui.todo :
            /\ IsLive(step[s])
            /\ \A t \in ui.todo : t < s => ~IsLive(step[t])
            /\ step' = [step EXCEPT ![s] = TryInvalidate(@)]
            /\ CancelCallback([ui EXCEPT !.todo = {t \in @ : t > s},
                                         !.status = "INVALIDATED"],
                              "apply.inval")
    /\ UNCHANGED <<workerVars, stateMutex, fresh, empty, outVars, taskVars, wk, runs>>

\* Print::cleanup(): PrintObjects release the data of dirty milestones.
\* SLAPrint::cleanup() does nothing.
CleanedUp(st) ==
    [s \in Steps |-> IF ~Sla /\ s \in CleanSteps THEN ResetDirty(st[s]) ELSE st[s]]

\* What the worker is reading right now: the inputs of the milestone it
\* computes or, once it exports, the results of all of them.
WorkerReads ==
    IF wk.pc \in {"compute", "render", "taskwait", "taskdone", "end", "export", "fin.end"}
    THEN IF wk.k \in Steps THEN {wk.k} ELSE Steps
    ELSE {}

\* apply() copied the changed part of the model and of the configuration,
\* cleans up and returns.  Deleted PrintObjects take their milestones along.
ApplyWrite ==
    /\ ui.pc = "apply.write"
    /\ fresh' = fresh \ Affects[ui.change]
    /\ wk' = [wk EXCEPT !.torn = @ \/ WorkerReads \cap Affects[ui.change] # {}]
    /\ step' = CleanedUp([s \in Steps |->
                    IF ui.rebuild /\ s \in ObjSteps THEN "Fresh" ELSE step[s]])
    /\ IF ui.rebuild THEN empty' \in BOOLEAN ELSE empty' = empty
    /\ stateMutex' = "none"
    /\ UiGoto(IF ui.status = "INVALIDATED" /\ ~Sla THEN "apply.result" ELSE "idle")
    /\ UNCHANGED <<workerVars, outVars, taskVars, runs>>

\* BackgroundSlicingProcess::apply() resets m_gcode_result, unless the G-code
\* is still valid.
ApplyResult ==
    /\ ui.pc = "apply.result"
    /\ UiGoto("idle")
    /\ UNCHANGED <<workerVars, printVars, outVars, taskVars, wk, runs>>

\* set_task() of the default task, all milestones of all objects: the run is
\* canceled unless a milestone of an object is being computed.
SetTaskCancels ==
    cancelCb = "stop_internal" /\ \A s \in ObjSteps : step[s] # "Started"

SetTask ==
    /\ ui.pc = "idle" /\ stateMutex = "none"
    /\ SetTaskCancels
    /\ stateMutex' = "ui"
    /\ CancelCallback(ui, "unlock")
    /\ UNCHANGED <<workerVars, step, fresh, empty, outVars, taskVars, wk, runs>>

Unlock ==
    /\ ui.pc = "unlock"
    /\ stateMutex' = "none"
    /\ UiGoto("idle")
    /\ UNCHANGED <<workerVars, step, fresh, empty, outVars, taskVars, wk, runs>>

-----------------------------------------------------------------------------
(* UI thread: schedule_export(), schedule_upload(), reset_export(), the rest
   of reset() and of the destructor *)

\* Mutant: the target is set without a look at bspsGCodeFinalize.
MutSchedule(upload) ==
    /\ ui.pc = "idle" /\ ~exportPath /\ stateMutex = "none"
    /\ stateMutex' = "ui"
    /\ ui' = [ui EXCEPT !.upload = upload, !.pc = "exp.set"]
    /\ UNCHANGED <<workerVars, step, fresh, empty, outVars, taskVars, wk, runs>>

Schedule(upload) ==
    /\ ui.pc = "idle" /\ ~exportPath /\ stateMutex = "none"
    /\ stateMutex' = "ui"
    /\ finalizeStep' = TryInvalidate(finalizeStep)
    /\ ui' = [ui EXCEPT !.upload = upload, !.ret = "exp.set",
                        !.pc = IF IsLive(finalizeStep) THEN "si.check" ELSE "exp.set"]
    /\ UNCHANGED <<workerVars, step, fresh, empty, exportPath, uploadJob, gcodeFile,
                   taskVars, wk, runs>>

ExportSet ==
    /\ ui.pc = "exp.set"
    /\ IF ui.upload
       THEN uploadJob' = TRUE /\ exportPath' = FALSE
       ELSE exportPath' = TRUE /\ uploadJob' = uploadJob
    /\ stateMutex' = "none"
    /\ UiGoto("idle")
    /\ UNCHANGED <<workerVars, step, fresh, empty, finalizeStep, gcodeFile,
                   taskVars, wk, runs>>

\* Not running, so that the cancelation callback returns at once.
ResetExport ==
    /\ ui.pc = "idle" /\ ~IsRunning /\ stateMutex = "none"
    /\ exportPath' = FALSE
    /\ finalizeStep' = TryInvalidate(finalizeStep)
    /\ UNCHANGED <<workerVars, printVars, uploadJob, gcodeFile, taskVars, ui, wk, runs>>

\* reset() after stop(): reset_export(), Print::clear(), invalidate_all_steps().
ResetClear ==
    /\ ui.pc = "reset"
    /\ exportPath' = FALSE
    /\ finalizeStep' = TryInvalidate(finalizeStep)
    /\ step' = [s \in Steps |-> IF s \in ObjSteps THEN "Fresh" ELSE TryInvalidate(step[s])]
    /\ fresh' = {}
    /\ empty' = TRUE
    /\ UiGoto("idle")
    /\ UNCHANGED <<workerVars, stateMutex, uploadJob, gcodeFile, taskVars, wk, runs>>

\* join_background_thread(), after the stop() of the destructor.
JoinNothing ==
    /\ ui.pc = "exit" /\ mutex = "none" /\ state = "INITIAL"
    /\ UiGoto("gone")
    /\ UNCHANGED <<workerVars, printVars, outVars, taskVars, wk, runs>>

JoinRequest ==
    /\ ui.pc = "exit" /\ mutex = "none" /\ state # "INITIAL"
    /\ state' = "EXIT"
    /\ NotifyOne
    /\ UiGoto("join")
    /\ UNCHANGED <<mutex, cancelStatus, cancelCb, printVars, outVars, taskVars, wk, runs>>

JoinDone ==
    /\ ui.pc = "join" /\ wk.pc = "exited"
    /\ gcodeFile' = FALSE
    /\ UiGoto("gone")
    /\ UNCHANGED <<workerVars, printVars, finalizeStep, exportPath, uploadJob,
                   taskVars, wk, runs>>

-----------------------------------------------------------------------------
(* UI thread: the event loop *)

\* Mutant: the lambda does not look whether its task was canceled.
MutTakeEvent ==
    /\ ui.pc = "idle" /\ queue # <<>>
    /\ queue' = Tail(queue)
    /\ ui' = IF Head(queue).type = "Task"
             THEN [ui EXCEPT !.pc = "runtask", !.run = Head(queue).run]
             ELSE ui
    /\ UNCHANGED <<workerVars, printVars, outVars, task, taskState, wk, runs>>

\* Take the oldest event.  The lambda posted by execute_ui_task() runs the
\* task unless it was canceled; a completion event is left to the client.
TakeEvent ==
    /\ ui.pc = "idle" /\ queue # <<>>
    /\ queue' = Tail(queue)
    /\ LET e == Head(queue)
       IN  ui' = IF e.type = "Task" /\ taskState[e.run] = "Planned"
                 THEN [ui EXCEPT !.pc = "runtask", !.run = e.run]
                 ELSE ui
    /\ UNCHANGED <<workerVars, printVars, outVars, task, taskState, wk, runs>>

TaskFinished ==
    /\ ui.pc = "runtask"
    /\ taskState' = [taskState EXCEPT ![ui.run] = "Finished"]
    /\ UiGoto("idle")
    /\ UNCHANGED <<workerVars, printVars, outVars, task, queue, wk, runs>>

-----------------------------------------------------------------------------
(* Worker thread: thread_proc() up to the start of a run *)

Ready ==
    /\ wk.pc = "init" /\ mutex = "none"
    /\ state' = "IDLE"
    /\ NotifyOne
    /\ WkGoto("loop")
    /\ UNCHANGED <<mutex, cancelStatus, cancelCb, printVars, outVars, taskVars, ui, runs>>

\* The assertion at the head of the loop reads m_state without m_mutex.
LoopHead ==
    /\ wk.pc = "loop"
    /\ WkGoto("top")
    /\ UNCHANGED <<workerVars, printVars, outVars, taskVars, ui, runs>>

AtTop == wk.pc = "top" /\ mutex = "none" /\ "worker" \notin sleeping

WaitForWork ==
    /\ AtTop /\ state \notin {"STARTED", "EXIT"}
    /\ sleeping' = sleeping \cup {"worker"}
    /\ UNCHANGED <<state, mutex, cancelStatus, cancelCb, printVars, outVars,
                   taskVars, ui, wk, runs>>

BeginRun ==
    /\ AtTop /\ state = "STARTED"
    /\ state' = "RUNNING"
    /\ WkGoto("begin")
    /\ UNCHANGED <<mutex, sleeping, cancelStatus, cancelCb, printVars, outVars,
                   taskVars, ui, runs>>

ExitThread ==
    /\ AtTop /\ state = "EXIT"
    /\ state' = "EXITED"
    /\ WkGoto("exited")
    /\ UNCHANGED <<mutex, sleeping, cancelStatus, cancelCb, printVars, outVars,
                   taskVars, ui, runs>>

-----------------------------------------------------------------------------
(* Worker thread: Print::process(), export_gcode() and SLAPrint::process() *)

\* do_export() is the last milestone of an FFF print.  Done does not satisfy
\* it while the file is missing.
FileMissing == ~Sla /\ wk.k = NSteps /\ ~gcodeFile

\* do_export() removes the old G-code before it writes the new one.
FileAtStart == gcodeFile /\ (Sla \/ wk.k < NSteps)

\* On to the next milestone, or to the finalization after the last one.
NextMilestone ==
    wk' = [wk EXCEPT !.k = @ + 1,
                     !.pc = IF wk.k = NSteps THEN "fin.begin" ELSE "begin"]

\* The exception unwinds to call_process().
Throw(error) == wk' = [wk EXCEPT !.pc = "finalize", !.failed = error]

\* throw_if_canceled(), at the locks of the milestones and while computing.
ThrowIfCanceled ==
    /\ \/ wk.pc \in {"begin", "end", "fin.begin", "fin.end"} /\ stateMutex = "none"
       \/ wk.pc = "compute"
    /\ Canceled
    /\ Throw(FALSE)
    /\ UNCHANGED <<workerVars, printVars, outVars, taskVars, ui, runs>>

\* The milestone is done already: set_started() returns false.
SkipStep ==
    /\ wk.pc = "begin" /\ stateMutex = "none" /\ ~Canceled
    /\ step[wk.k] = "Done" /\ ~FileMissing
    /\ NextMilestone
    /\ UNCHANGED <<workerVars, printVars, outVars, taskVars, ui, runs>>

\* do_export() goes on whatever set_started() returns.
SetStarted ==
    /\ wk.pc = "begin" /\ stateMutex = "none" /\ ~Canceled
    /\ step[wk.k] # "Done" \/ FileMissing
    /\ step' = [step EXCEPT ![wk.k] = IF @ = "Done" THEN @ ELSE "Started"]
    /\ gcodeFile' = FileAtStart
    /\ wk' = [wk EXCEPT !.pc = "compute", !.torn = FALSE]
    /\ UNCHANGED <<workerVars, stateMutex, fresh, empty, finalizeStep, exportPath,
                   uploadJob, taskVars, ui, runs>>

\* do_export() asks for the thumbnails and does not look whether it got them.  All
\* that are listed in the settings are one UI task here: the code plans one for
\* each, none if none is listed, each the way the first one is planned.
AskForThumbnails ==
    /\ \/ wk.pc = "compute" /\ ~Sla /\ wk.k = NSteps
       \/ wk.pc = "export" /\ Sla /\ (exportPath \/ uploadJob)
    /\ ~wk.drawn
    /\ WkGoto("render")
    /\ UNCHANGED <<workerVars, printVars, outVars, taskVars, ui, runs>>

ComputeDone ==
    /\ wk.pc = "compute"
    /\ ~Sla /\ wk.k = NSteps => wk.drawn
    /\ gcodeFile' = (gcodeFile \/ (~Sla /\ wk.k = NSteps))
    /\ WkGoto("end")
    /\ UNCHANGED <<workerVars, printVars, finalizeStep, exportPath, uploadJob,
                   taskVars, ui, runs>>

ComputeFailed ==
    /\ wk.pc = "compute"
    /\ Throw(TRUE)
    /\ UNCHANGED <<workerVars, printVars, outVars, taskVars, ui, runs>>

\* Mutant: set_done() does not throw when the run is canceled.
MutSetDone ==
    /\ wk.pc = "end" /\ stateMutex = "none"
    /\ step' = [step EXCEPT ![wk.k] = "Done"]
    /\ fresh' = IF wk.torn THEN fresh \ {wk.k} ELSE fresh \cup {wk.k}
    /\ NextMilestone
    /\ UNCHANGED <<workerVars, stateMutex, empty, outVars, taskVars, ui, runs>>

SetDone ==
    /\ wk.pc = "end" /\ stateMutex = "none" /\ ~Canceled
    /\ step' = [step EXCEPT ![wk.k] = "Done"]
    /\ fresh' = IF wk.torn THEN fresh \ {wk.k} ELSE fresh \cup {wk.k}
    /\ NextMilestone
    /\ UNCHANGED <<workerVars, stateMutex, empty, outVars, taskVars, ui, runs>>

-----------------------------------------------------------------------------
(* Worker thread: execute_ui_task() for the thumbnails *)

Rendered == wk' = [wk EXCEPT !.drawn = TRUE,
                             !.pc = IF wk.k = NSteps + 1 THEN "export" ELSE "compute"]

\* try_lock() failed, whoever holds m_mutex and whatever for, or the run is
\* canceled.
RenderRefused ==
    /\ wk.pc = "render"
    /\ mutex # "none" \/ Canceled
    /\ Rendered
    /\ UNCHANGED <<workerVars, printVars, outVars, taskVars, ui, runs>>

PlanTask ==
    /\ wk.pc = "render"
    /\ mutex = "none" /\ ~Canceled
    /\ task' = runs
    /\ taskState' = [taskState EXCEPT ![runs] = "Planned"]
    /\ queue' = Append(queue, [type |-> "Task", run |-> runs])
    /\ WkGoto("taskwait")
    /\ UNCHANGED <<workerVars, printVars, outVars, ui, runs>>

TaskAnswered ==
    /\ wk.pc = "taskwait"
    /\ taskState[runs] \in {"Finished", "Canceled"}
    /\ WkGoto("taskdone")
    /\ UNCHANGED <<workerVars, printVars, outVars, taskVars, ui, runs>>

\* Mutant: the pointer is not reset.
MutResetTask ==
    /\ wk.pc = "taskdone"
    /\ Rendered
    /\ UNCHANGED <<workerVars, printVars, outVars, taskVars, ui, runs>>

\* m_ui_task.reset(), without m_mutex.
ResetTask ==
    /\ wk.pc = "taskdone"
    /\ task' = 0
    /\ Rendered
    /\ UNCHANGED <<workerVars, printVars, outVars, taskState, queue, ui, runs>>

-----------------------------------------------------------------------------
(* Worker thread: the milestone bspsGCodeFinalize, which exports the result *)

FinalizeSkip ==
    /\ wk.pc = "fin.begin" /\ stateMutex = "none" /\ ~Canceled
    /\ finalizeStep = "Done"
    /\ WkGoto("finalize")
    /\ UNCHANGED <<workerVars, printVars, outVars, taskVars, ui, runs>>

FinalizeStarted ==
    /\ wk.pc = "fin.begin" /\ stateMutex = "none" /\ ~Canceled
    /\ finalizeStep # "Done"
    /\ finalizeStep' = "Started"
    /\ WkGoto("export")
    /\ UNCHANGED <<workerVars, printVars, exportPath, uploadJob, gcodeFile,
                   taskVars, ui, runs>>

\* finalize_gcode() or export_print() if there is a path, else
\* prepare_upload() if there is a job, else nothing to do.
Export ==
    /\ wk.pc = "export"
    /\ exportPath \/ uploadJob => IF Sla THEN wk.drawn ELSE gcodeFile
    /\ uploadJob' = (uploadJob /\ exportPath)
    /\ WkGoto("fin.end")
    /\ UNCHANGED <<workerVars, printVars, finalizeStep, exportPath, gcodeFile,
                   taskVars, ui, runs>>

\* The copy, a script or the thumbnail settings fail.
ExportFailed ==
    /\ wk.pc = "export"
    /\ exportPath \/ uploadJob
    /\ Throw(TRUE)
    /\ UNCHANGED <<workerVars, printVars, outVars, taskVars, ui, runs>>

FinalizeDone ==
    /\ wk.pc = "fin.end" /\ stateMutex = "none" /\ ~Canceled
    /\ finalizeStep' = "Done"
    /\ WkGoto("finalize")
    /\ UNCHANGED <<workerVars, printVars, exportPath, uploadJob, gcodeFile,
                   taskVars, ui, runs>>

-----------------------------------------------------------------------------
(* Worker thread: thread_proc() after call_process() *)

\* finalize(): milestones abandoned by an exception stop being Started.
FinalizePrint ==
    /\ wk.pc = "finalize" /\ stateMutex = "none"
    /\ step' = [s \in Steps |-> MarkCanceled(step[s])]
    /\ WkGoto("finish")
    /\ UNCHANGED <<workerVars, stateMutex, fresh, empty, outVars, taskVars, ui, runs>>

Finish ==
    /\ wk.pc = "finish" /\ mutex = "none"
    /\ mutex' = "worker"
    /\ state' = IF Canceled THEN "CANCELED" ELSE "FINISHED"
    /\ WkGoto("cleanup")
    /\ UNCHANGED <<sleeping, cancelStatus, cancelCb, printVars, outVars, taskVars, ui, runs>>

\* After an internal cancelation apply() cleans up, and no event is posted.
Cleanup ==
    /\ wk.pc = "cleanup"
    /\ IF cancelStatus = "CANCELED_INTERNAL"
       THEN UNCHANGED <<step, queue>>
       ELSE /\ step' = CleanedUp(step)
            /\ queue' = Append(queue,
                   [type    |-> "Completed",
                    outcome |-> IF state = "CANCELED" THEN "Cancelled"
                                ELSE IF wk.failed THEN "Error" ELSE "Finished",
                    run     |-> runs])
    /\ WkGoto("release")
    /\ UNCHANGED <<workerVars, stateMutex, fresh, empty, outVars, task, taskState,
                   ui, runs>>

\* Mutant: restart() is forgotten.
MutRelease ==
    /\ wk.pc = "release"
    /\ mutex' = "none"
    /\ NotifyOne
    /\ wk' = WkAt("loop")
    /\ UNCHANGED <<state, cancelStatus, cancelCb, printVars, outVars, taskVars, ui, runs>>

Release ==
    /\ wk.pc = "release"
    /\ cancelStatus' = "NOT_CANCELED"
    /\ mutex' = "none"
    /\ NotifyOne
    /\ wk' = WkAt("loop")
    /\ UNCHANGED <<state, cancelCb, printVars, outVars, taskVars, ui, runs>>

-----------------------------------------------------------------------------
(* The environment: a cleaner of the temporary directory, another process *)

LoseTempFile ==
    /\ TempFileLoss /\ gcodeFile
    /\ gcodeFile' = FALSE
    /\ UNCHANGED <<workerVars, printVars, finalizeStep, exportPath, uploadJob,
                   taskVars, ui, wk, runs>>

-----------------------------------------------------------------------------
(* Specification *)

Init ==
    /\ state = "INITIAL"
    /\ mutex = "none" /\ sleeping = {}
    /\ cancelStatus = "NOT_CANCELED" /\ cancelCb = "noop"
    /\ stateMutex = "none"
    /\ step = [s \in Steps |-> "Fresh"] /\ fresh = {} /\ empty = TRUE
    /\ finalizeStep = "Fresh"
    /\ exportPath = FALSE /\ uploadJob = FALSE /\ gcodeFile = FALSE
    /\ task = 0 /\ taskState = [r \in 1 .. MaxRuns |-> "None"] /\ queue = <<>>
    /\ ui = UiAt("idle") /\ wk = WkAt("none")
    /\ runs = 0

\* What the UI thread does by itself once it is inside a call.
UiStart == StartCreateThread \/ StartWake \/ StartRefused \/ StartGo
UiStop == StopNothing \/ StopCancel \/ StopWake \/ StopConfirm
UiStopInternal == SiCheck \/ SiLock \/ SiCancel \/ SiWake \/ SiRelock \/ SiConfirm
UiApply == ApplyInvalidate \/ ApplyWrite \/ ApplyResult \/ Unlock
UiReset == ExportSet \/ ResetClear \/ JoinNothing \/ JoinRequest \/ JoinDone

UiInCall == UiStart \/ UiStop \/ UiStopInternal \/ UiApply \/ UiReset \/ TaskFinished

\* The calls the client may make from its event loop.
UiCall ==
    \/ StartLock
    \/ \E ret \in {"idle", "reset", "exit"} : StopLock(ret)
    \/ \E c \in Classes, kill, rebuild \in BOOLEAN : ApplyLock(c, kill, rebuild)
    \/ SetTask
    \/ \E upload \in BOOLEAN : Schedule(upload)
    \/ ResetExport

WorkerIdle == Ready \/ LoopHead \/ WaitForWork \/ BeginRun \/ ExitThread
WorkerProcess == \/ ThrowIfCanceled \/ SkipStep \/ SetStarted \/ AskForThumbnails
                 \/ ComputeDone \/ ComputeFailed \/ SetDone
WorkerTask == RenderRefused \/ PlanTask \/ TaskAnswered \/ ResetTask
WorkerExport == FinalizeSkip \/ FinalizeStarted \/ Export \/ ExportFailed \/ FinalizeDone
WorkerFinish == FinalizePrint \/ Finish \/ Cleanup \/ Release

Worker == WorkerIdle \/ WorkerProcess \/ WorkerTask \/ WorkerExport \/ WorkerFinish

\* The destructor has returned.
Terminated == ui.pc = "gone" /\ UNCHANGED vars

Next == UiInCall \/ UiCall \/ TakeEvent \/ Worker \/ LoseTempFile \/ Terminated

Spec == Init /\ [][Next]_vars

\* The UI thread goes on with its call, a mutex is granted to a worker that
\* waits for it over and over, the computation of a milestone ends, and the
\* event loop dispatches what was posted.  The client is under no obligation
\* to call anything.
Fairness == WF_vars(UiInCall) /\ SF_vars(Worker) /\ SF_vars(TakeEvent)

FairSpec == Spec /\ Fairness

-----------------------------------------------------------------------------
(* Properties *)

\* What the milestones of the running step and of the export read is never
\* written by apply(), although apply() does not wait for a worker whose
\* milestones it leaves alone.
NoTornRead ==
    ui.pc = "apply.write" => WorkerReads \cap Affects[ui.change] = {}

\* A milestone that reads Done was computed from the current model and
\* configuration: no late set_done() survives an invalidation.
DoneIsCurrent == \A s \in Steps : step[s] = "Done" => s \in fresh

\* The worker is somewhere between throw_if_canceled() of the first milestone
\* and the end of finalize(), and may hold pointers to PrintObjects.
InProcess == wk.pc \notin {"none", "init", "loop", "top", "finish", "cleanup",
                           "release", "exited"}

\* PrintObjects are deleted only while the worker is outside process(),
\* export_gcode() and finalize().
RebuildIsExclusive ==
    \/ ui.pc = "apply.write" /\ ui.rebuild
    \/ ui.pc = "reset"
    => ~InProcess

\* The lambda of execute_ui_task() captures locals of the worker by reference:
\* it runs only while the worker waits for it in that very run.
TaskFindsWorkerWaiting ==
    ui.pc = "runtask" => wk.pc = "taskwait" /\ ui.run = runs /\ task = runs

\* A cancelation is always awaited by the one who asked for it, so that none
\* is left over to abort a later run.
CancelIsAwaited ==
    Canceled => ui.pc \in {"stop.wait", "si.wait"}

\* The worker is inside the milestone bspsGCodeFinalize, reading the targets.
Exporting ==
    \/ wk.pc \in {"export", "fin.end"}
    \/ wk.pc \in {"render", "taskwait", "taskdone"} /\ wk.k = NSteps + 1

\* What is written to the user's file or handed to the upload queue matches
\* the model and the configuration in the Print, in all its milestones.
ExportIsCurrent == Exporting => fresh = Steps

\* "Guard against entering the export step before changing the export path."
\* Nobody but the worker itself changes a target while it exports to it.
ExportTargetIsStable ==
    [][Exporting => exportPath' = exportPath /\ (uploadJob' = uploadJob \/ Export)]_vars

\* The assertions of execute_ui_task(), stop_internal(), start() and
\* join_background_thread() on the state they find.
AssertionsHold ==
    /\ wk.pc = "render" /\ mutex = "none" => task = 0
    /\ ui.pc = "si.held" => IsRunning
    /\ ui.pc = "start.held" => state \in {"INITIAL", "IDLE"} \/ IsRunning
    /\ ui.pc = "exit" => state \in {"INITIAL", "IDLE"}

\* The assertion of set_done(): the milestone that ends is Started.
SetDoneFindsStarted ==
    wk.pc = "end" /\ stateMutex = "none" /\ ~Canceled => step[wk.k] = "Started"

\* Whatever the interleaving of the two mutexes, the condition variable, the
\* UI task and the cancelation, every call of the UI thread returns.
CallsReturn == ui.pc \notin {"idle", "gone"} ~> ui.pc \in {"idle", "gone"}

\* Every run that was started ends.
RunsEnd == Executing ~> ~Executing

\* The two threads together are a result store: see there.
Published == {s \in Steps : step[s] = "Done"}
Editing == ui.change # "none" /\ ui.pc # "apply.result"

Results == INSTANCE ResultStore WITH
    Milestones <- Steps, done <- Published, current <- fresh, editing <- Editing

ImplementsResultStore == Results!Spec
=============================================================================
