---------------------- MODULE BackgroundSlicingProofs ----------------------
(***************************************************************************)
(* Proofs about BackgroundSlicing, for prints of any number of milestones, *)
(* any classes of changes and any number of runs: its safety, and that it  *)
(* implements ResultStore.  At the end, the same of Plater, whose handlers *)
(* are its client.                                                         *)
(*                                                                         *)
(* ControlInv is where the two threads are with respect to the state of    *)
(* the worker, the two mutexes, the cancelation and the UI task; DataInv   *)
(* is what that means for the milestones.  TypeOK, ControlInv and DataInv  *)
(* are inductive, each together with those before it, and the properties   *)
(* follow from them.  Each step has a case per action of Next.             *)
(***************************************************************************)
EXTENDS Plater, TLAPS

-----------------------------------------------------------------------------
(* The inductive invariants *)

\* What one thread may hold, and where it holds it.
UiHoldsMutex == {"start.held", "stop.held", "si.held", "si.relock"}
UiHoldsState == {"si.check", "si.lock", "si.held", "apply.inval", "apply.write",
                 "unlock", "exp.set"}
WkHoldsMutex == {"cleanup", "release"}

StopPc == {"stop.held", "stop.wait"}
StopInternalPc == {"si.check", "si.lock", "si.held", "si.wait", "si.relock"}

\* The worker is inside process() or export_gcode(), or still on its way out.
RunPc == {"begin", "compute", "render", "taskwait", "taskdone", "end",
          "fin.begin", "export", "fin.end"}
BusyPc == RunPc \cup {"finalize", "finish"}

LockInv ==
    /\ mutex = "ui" <=> ui.pc \in UiHoldsMutex
    /\ mutex = "worker" <=> wk.pc \in WkHoldsMutex
    /\ stateMutex = "ui" <=> ui.pc \in UiHoldsState

\* m_state says where the worker is.
StateInv ==
    /\ state = "INITIAL" <=> wk.pc \in {"none", "init"}
    /\ state = "RUNNING" <=> wk.pc \in BusyPc
    /\ wk.pc \in WkHoldsMutex => state \in {"FINISHED", "CANCELED"}
    /\ state \in {"EXIT", "EXITED"} => ui.pc \in {"join", "gone"}
    /\ wk.pc = "exited" => state = "EXITED"
    /\ cancelCb = "stop_internal" <=> IsRunning
    /\ wk.pc \in {"none", "init"} => finalizeStep = "Fresh"
    /\ IsRunning => runs > 0
    /\ wk.pc \in {"none", "init", "loop", "top"} => wk.k = 1
    /\ wk.pc \in {"fin.begin", "export", "fin.end"} => wk.k = NSteps + 1

\* What a call of the UI thread has established on its way.
CallInv ==
    /\ ui.pc \in {"start.held", "start.wait"} => runs < MaxRuns
    /\ ui.pc \in StopPc => ui.ret \in {"idle", "reset", "exit"}
    /\ ui.pc \in StopInternalPc => /\ ui.ret \in {"apply.inval", "unlock", "exp.set"}
                                   /\ state # "INITIAL"
    /\ ui.pc \in {"si.lock", "si.held"} => IsRunning
    /\ ui.pc = "si.relock" => state = "CANCELED"
    /\ ui.pc \in {"reset", "exit"} => state \in {"INITIAL", "IDLE"}
    /\ ui.pc \in {"apply.inval", "apply.write"} /\ ui.rebuild => state \in {"INITIAL", "IDLE"}

CancelInv ==
    /\ Canceled => ui.pc \in {"stop.wait", "si.wait"}
    /\ Canceled => Executing \/ wk.pc \in WkHoldsMutex
    /\ ui.pc \in {"stop.wait", "si.wait"} => (Executing /\ Canceled) \/ state = "CANCELED"

TaskInv ==
    /\ task # 0 => wk.pc \in {"taskwait", "taskdone"} /\ task = runs
    /\ wk.pc = "taskwait" => task = runs
    /\ \A r \in 1 .. MaxRuns : taskState[r] = "Planned" => wk.pc = "taskwait" /\ r = runs
    /\ ui.pc = "runtask" => ui.run \in 1 .. MaxRuns /\ taskState[ui.run] = "Planned"

ControlInv == LockInv /\ StateInv /\ CallInv /\ CancelInv /\ TaskInv

\* The milestones whose data the worker builds on: those it has passed, and
\* the one it computes.
Relied ==
    IF wk.pc \in RunPc
    THEN {s \in Steps : s < wk.k \/ (s = wk.k /\ wk.pc # "begin")}
    ELSE {}

\* Where the UI thread has withdrawn a milestone and stops the worker for it.
Stopping == ui.pc \in {"si.check", "si.lock", "si.held", "si.wait"}

Applying ==
    \/ ui.pc = "apply.inval"
    \/ ui.pc \in StopInternalPc /\ ui.ret = "apply.inval"

DataInv ==
    /\ ~wk.torn
    /\ \A s \in Relied : IsLive(step[s]) \/ Stopping
    /\ \A s \in Relied : s < wk.k => s \in fresh
    /\ \A s \in Steps : step[s] = "Done" => s \in fresh
    /\ Applying \/ ui.pc = "apply.write" => ui.change \in Classes
    /\ Applying => \A s \in Affects[ui.change] \ ui.todo : ~IsLive(step[s])
    /\ ui.pc = "apply.inval" => Relied \cap Affects[ui.change] \subseteq ui.todo
    /\ ui.pc = "apply.write" => /\ Relied \cap Affects[ui.change] = {}
                                /\ \A s \in Affects[ui.change] : ~IsLive(step[s])
-----------------------------------------------------------------------------
(* What the helpers do to the control records *)

\* The types of the fields of the control of the UI thread.
LEMMA UiFields ==
    \A u \in UiControl :
        /\ u.pc \in UiPc /\ u.ret \in Continuation /\ u.ret \in UiPc
        /\ u.change \in Classes \cup {"none"} /\ u.rebuild \in BOOLEAN
        /\ u.todo \subseteq Steps /\ u.status \in ApplyStatus
        /\ u.upload \in BOOLEAN /\ u.run \in 0 .. MaxRuns
  BY DEF UiControl, UiPc, Continuation

\* The types of the fields of the control of the worker.
LEMMA WkFields ==
    \A w \in WkControl :
        /\ w.pc \in WkPc /\ w.k \in 1 .. NSteps + 1
        /\ w.torn \in BOOLEAN /\ w.drawn \in BOOLEAN /\ w.failed \in BOOLEAN
  BY DEF WkControl

\* A call that returns leaves a well-formed control behind.
LEMMA UiAtType == ASSUME NEW pc \in UiPc PROVE UiAt(pc) \in UiControl
  BY BoundsAssumption DEF UiAt, UiControl, Continuation, ApplyStatus

\* UiGoto moves the control and, but for a return to the event loop, keeps
\* what the call remembers.
LEMMA UiGotoType ==
    ASSUME ui \in UiControl, NEW pc \in UiPc, UiGoto(pc)
    PROVE  /\ ui' \in UiControl
           /\ ui'.pc = pc
           /\ pc # "idle" => /\ ui'.ret = ui.ret /\ ui'.change = ui.change
                             /\ ui'.rebuild = ui.rebuild /\ ui'.todo = ui.todo
                             /\ ui'.status = ui.status /\ ui'.run = ui.run
           /\ pc = "idle" => ui'.change = "none"
<1>1. CASE pc = "idle"
  BY <1>1, UiAtType DEF UiGoto, UiAt
<1>2. CASE pc # "idle"
  BY <1>2 DEF UiGoto, UiControl
<1> QED BY <1>1, <1>2

\* WkGoto moves the control of the worker and keeps its milestone.
LEMMA WkGotoType ==
    ASSUME wk \in WkControl, NEW pc \in WkPc, WkGoto(pc)
    PROVE  /\ wk' \in WkControl
           /\ wk'.pc = pc /\ wk'.k = wk.k /\ wk'.torn = wk.torn
  BY DEF WkGoto, WkControl

\* Between two runs the worker is at no milestone.
LEMMA WkAtType ==
    ASSUME NEW pc \in WkPc
    PROVE  /\ WkAt(pc) \in WkControl
           /\ WkAt(pc).pc = pc /\ WkAt(pc).k = 1 /\ WkAt(pc).torn = FALSE
  BY BoundsAssumption DEF WkAt, WkControl

\* An exception leads to finalize(), from the milestone where it was thrown.
LEMMA ThrowType ==
    ASSUME wk \in WkControl, NEW error \in BOOLEAN, Throw(error)
    PROVE  /\ wk' \in WkControl
           /\ wk'.pc = "finalize" /\ wk'.k = wk.k /\ wk'.torn = wk.torn
  BY DEF Throw, WkControl, WkPc

\* After a milestone comes the next one or, after the last, the finalization.
LEMMA NextMilestoneType ==
    ASSUME wk \in WkControl, wk.k \in Steps, NextMilestone
    PROVE  /\ wk' \in WkControl
           /\ wk'.k = wk.k + 1 /\ wk'.torn = wk.torn
           /\ \/ wk'.pc = "begin" /\ wk'.k \in Steps
              \/ wk'.pc = "fin.begin" /\ wk'.k = NSteps + 1
<1>0. wk.k + 1 \in 1 .. NSteps + 1 /\ (wk.k # NSteps => wk.k + 1 \in 1 .. NSteps)
  BY BoundsAssumption DEF Steps
<1>1. wk' = [wk EXCEPT !.k = wk.k + 1, !.pc = wk'.pc]
  BY DEF NextMilestone, WkControl
<1>2. wk'.pc = IF wk.k = NSteps THEN "fin.begin" ELSE "begin"
  BY DEF NextMilestone, WkControl
<1>3. wk'.pc \in WkPc
  BY <1>2 DEF WkPc
<1>4. wk' \in WkControl /\ wk'.k = wk.k + 1 /\ wk'.torn = wk.torn
  BY <1>0, <1>1, <1>3 DEF WkControl
<1> QED BY <1>0, <1>2, <1>4 DEF Steps

\* execute_ui_task() returns to where the thumbnails were asked for.
LEMMA RenderedType ==
    ASSUME wk \in WkControl, Rendered
    PROVE  /\ wk' \in WkControl
           /\ wk'.k = wk.k /\ wk'.torn = wk.torn
           /\ \/ wk'.pc = "compute" /\ wk'.k \in Steps
              \/ wk'.pc = "export" /\ wk'.k = NSteps + 1
<1>0. wk.k \in 1 .. NSteps + 1 /\ (wk.k # NSteps + 1 => wk.k \in 1 .. NSteps)
  BY BoundsAssumption, WkFields
<1>1. wk' \in WkControl /\ wk'.k = wk.k /\ wk'.torn = wk.torn
  BY DEF Rendered, WkControl, WkPc
<1>2. wk'.pc = IF wk.k = NSteps + 1 THEN "export" ELSE "compute"
  BY DEF Rendered, WkControl
<1> QED BY <1>0, <1>1, <1>2 DEF Steps

\* The cancelation callback enters stop_internal() while a run is on, and
\* does nothing otherwise.
LEMMA CancelCallbackType ==
    ASSUME NEW control \in UiControl, NEW pc \in Continuation,
           CancelCallback(control, pc)
    PROVE  /\ ui' \in UiControl
           /\ \/ /\ cancelCb = "stop_internal"
                 /\ ui'.pc = "si.check" /\ ui'.ret = pc
              \/ cancelCb # "stop_internal" /\ ui'.pc = pc
           /\ ui'.change = control.change /\ ui'.rebuild = control.rebuild
           /\ ui'.todo = control.todo /\ ui'.status = control.status
           /\ ui'.run = control.run
  BY DEF CancelCallback, UiControl, UiPc, Continuation

\* cancel_ui_task() leaves no planned task but those the worker abandoned.
LEMMA CancelUiTaskType ==
    ASSUME taskState \in [1 .. MaxRuns -> TaskStates], CancelUiTask
    PROVE  /\ taskState' \in [1 .. MaxRuns -> TaskStates]
           /\ \A r \in 1 .. MaxRuns :
                 taskState'[r] = "Planned" => taskState[r] = "Planned" /\ r # task
<1>1. CASE task = 0
  BY <1>1 DEF CancelUiTask
<1>2. CASE task # 0
  BY <1>2 DEF CancelUiTask, TaskStates
<1> QED BY <1>1, <1>2

\* The transitions of PrintState stay among the states, and only
\* set_started() and set_done() bring a milestone to life.
LEMMA TransitionType ==
    \A s \in StepState : /\ TryInvalidate(s) \in StepState /\ ~IsLive(TryInvalidate(s))
                         /\ MarkCanceled(s) \in StepState
                         /\ ResetDirty(s) \in StepState
                         /\ IsLive(s) => ResetDirty(s) = s
                         /\ ~IsLive(s) => ~IsLive(ResetDirty(s))
                         /\ ~IsLive(s) => ~IsLive(MarkCanceled(s))
                         /\ MarkCanceled(s) = "Done" => s = "Done"
                         /\ s = "Done" => IsLive(s)
  BY DEF TryInvalidate, MarkCanceled, ResetDirty, IsDirty, IsLive, StepState

\* Print::cleanup() touches no milestone that is Started or Done.
LEMMA CleanedUpType ==
    ASSUME NEW st \in [Steps -> StepState]
    PROVE  /\ CleanedUp(st) \in [Steps -> StepState]
           /\ \A s \in Steps : /\ IsLive(st[s]) => CleanedUp(st)[s] = st[s]
                               /\ ~IsLive(st[s]) => ~IsLive(CleanedUp(st)[s])
  BY TransitionType DEF CleanedUp

-----------------------------------------------------------------------------
(* What the calls into apply() do to the control of the UI thread *)

\* apply() starts with everything it is going to invalidate still to do; it
\* deletes objects only after it stopped the run.
LEMMA ApplyLockEffect ==
    ASSUME TypeOK, NEW c \in Classes, NEW kill \in BOOLEAN, NEW rebuild \in BOOLEAN,
           ApplyLock(c, kill, rebuild)
    PROVE  /\ ui' \in UiControl
           /\ ui'.change = c /\ ui'.rebuild = rebuild /\ ui'.todo = Affects[c]
           /\ \/ ui'.pc = "apply.inval" /\ (rebuild => cancelCb # "stop_internal")
              \/ /\ cancelCb = "stop_internal"
                 /\ ui'.pc = "si.check" /\ ui'.ret = "apply.inval"
<1> DEFINE control == [ui EXCEPT !.pc = "apply.inval", !.change = c,
                                 !.rebuild = rebuild, !.todo = Affects[c]]
<1>1. /\ control \in UiControl
      /\ control.pc = "apply.inval" /\ control.change = c
      /\ control.rebuild = rebuild /\ control.todo = Affects[c]
  BY PrintAssumption DEF TypeOK, UiControl, UiPc
<1>2. /\ rebuild => kill
      /\ IF kill THEN CancelCallback(control, "apply.inval") ELSE ui' = control
  BY DEF ApplyLock
<1> HIDE DEF control
<1> QED BY <1>1, <1>2, CancelCallbackType DEF Continuation

\* invalidate() withdraws one milestone and then calls the cancelation
\* callback, in this order; apply() goes on when none is left.
LEMMA ApplyInvalidateEffect ==
    ASSUME TypeOK, ApplyInvalidate
    PROVE  /\ ui' \in UiControl /\ step' \in [Steps -> StepState]
           /\ ui'.change = ui.change /\ ui'.rebuild = ui.rebuild
           /\ \/ /\ \A s \in ui.todo : ~IsLive(step[s])
                 /\ ui'.pc = "apply.write" /\ step' = step
              \/ \E s \in ui.todo :
                    /\ \A t \in ui.todo : t < s => ~IsLive(step[t])
                    /\ step' = [step EXCEPT ![s] = TryInvalidate(@)]
                    /\ ui'.todo = {t \in ui.todo : t > s}
                    /\ \/ /\ cancelCb = "stop_internal"
                          /\ ui'.pc = "si.check" /\ ui'.ret = "apply.inval"
                       \/ cancelCb # "stop_internal" /\ ui'.pc = "apply.inval"
<1>1. CASE /\ \A s \in ui.todo : ~IsLive(step[s])
           /\ UiGoto("apply.write") /\ UNCHANGED step
  BY <1>1, UiGotoType DEF TypeOK, UiPc
<1>2. ASSUME NEW s \in ui.todo,
             \A t \in ui.todo : t < s => ~IsLive(step[t]),
             step' = [step EXCEPT ![s] = TryInvalidate(@)],
             CancelCallback([ui EXCEPT !.todo = {t \in @ : t > s},
                                       !.status = "INVALIDATED"], "apply.inval")
      PROVE  /\ ui' \in UiControl /\ step' \in [Steps -> StepState]
             /\ ui'.change = ui.change /\ ui'.rebuild = ui.rebuild
             /\ ui'.todo = {t \in ui.todo : t > s}
             /\ \/ /\ cancelCb = "stop_internal"
                   /\ ui'.pc = "si.check" /\ ui'.ret = "apply.inval"
                \/ cancelCb # "stop_internal" /\ ui'.pc = "apply.inval"
  <2> DEFINE control == [ui EXCEPT !.todo = {t \in @ : t > s},
       !.status = "INVALIDATED"]
  <2>1. /\ control \in UiControl
        /\ control.change = ui.change /\ control.rebuild = ui.rebuild
        /\ control.todo = {t \in ui.todo : t > s}
    BY DEF TypeOK, UiControl, ApplyStatus
  <2>2. CancelCallback(control, "apply.inval")
    BY <1>2
  <2>3. step' \in [Steps -> StepState]
    BY <1>2, TransitionType, UiFields DEF TypeOK
  <2> HIDE DEF control
  <2> QED BY <2>1, <2>2, <2>3, CancelCallbackType DEF Continuation
<1> QED BY <1>1, <1>2 DEF ApplyInvalidate

\* stop_internal() returns to its caller at once if nothing is running.
LEMMA SiCheckEffect ==
    ASSUME TypeOK, CallInv, SiCheck
    PROVE  /\ ui' \in UiControl
           /\ \/ state = "IDLE" /\ ui'.pc = ui.ret
              \/ state # "IDLE" /\ ui'.pc = "si.lock"
           /\ ui'.ret = ui.ret /\ ui'.change = ui.change
           /\ ui'.rebuild = ui.rebuild /\ ui'.todo = ui.todo
<1>1. ui.ret \in {"apply.inval", "unlock", "exp.set"}
  BY DEF SiCheck, CallInv, StopInternalPc
<1> QED BY <1>1, UiGotoType DEF TypeOK, SiCheck, UiPc

\* The worker reads only what it relies on.
LEMMA ReadsAreRelied ==
    ASSUME TypeOK
    PROVE  WorkerReads \subseteq Relied
<1>1. CASE wk.k \in Steps
  BY <1>1 DEF WorkerReads, Relied, RunPc
<1>2. CASE wk.k \notin Steps
  <2>1. \A s \in Steps : s < wk.k
    BY <1>2, WkFields, BoundsAssumption DEF TypeOK, Steps
  <2> QED BY <2>1 DEF WorkerReads, Relied, RunPc
<1> QED BY <1>1, <1>2

\* On its way to the next milestone the worker relies on the one it leaves.
LEMMA NextIsReliedOn ==
    ASSUME TypeOK, wk.pc \in {"begin", "end"}, NextMilestone
    PROVE  /\ wk'.k = wk.k + 1 /\ wk'.torn = wk.torn
           /\ wk'.pc \in {"begin", "fin.begin"}
           /\ Relied' = {s \in Steps : s < wk.k \/ s = wk.k}
<1>1. wk.k \in Steps /\ wk \in WkControl
  BY DEF TypeOK
<1>2. /\ wk'.k = wk.k + 1 /\ wk'.torn = wk.torn
      /\ wk'.pc = "begin" \/ (wk'.pc = "fin.begin" /\ wk'.k \notin Steps)
  BY <1>1, NextMilestoneType, BoundsAssumption DEF Steps
<1>3. Relied' = {s \in Steps : s < wk'.k}
  BY <1>2 DEF Relied, RunPc
<1>4. \A s \in Steps : s < wk.k + 1 <=> s < wk.k \/ s = wk.k
  BY <1>1 DEF Steps
<1> QED BY <1>2, <1>3, <1>4

\* A milestone that changes its state under the state mutex, in a run that
\* is not canceled, finds the UI thread outside apply() and stop_internal().
LEMMA MilestoneIsUndisturbed ==
    ASSUME TypeOK, ControlInv, wk.pc \in BusyPc, stateMutex = "none", ~Canceled
    PROVE  ~Stopping /\ ~Applying /\ ui.pc # "apply.write"
  BY DEF TypeOK, ControlInv, LockInv, StateInv, CallInv, CancelInv, UiHoldsState,
         StopInternalPc, Stopping, Applying

\* Outside of a run the worker relies on nothing.
LEMMA NothingReliedOn ==
    ASSUME StateInv, state # "RUNNING"
    PROVE  Relied = {}
  BY DEF StateInv, Relied, BusyPc

-----------------------------------------------------------------------------
(* Type correctness *)

\* Every step preserves the types.
LEMMA TypeStep ==
    ASSUME TypeOK, CallInv, StateInv, [Next]_vars
    PROVE  TypeOK'
<1> USE DEF TypeOK, vars, workerVars, printVars, outVars, taskVars
<1>1. CASE StartCreateThread
  BY <1>1, UiGotoType DEF StartCreateThread, WkControl, WkPc, UiPc, Threads
<1>2. CASE StartWake
  BY <1>2, UiGotoType DEF StartWake, UiPc, Threads
<1>3. CASE StartRefused
  BY <1>3, UiGotoType DEF StartRefused, UiPc, Threads
<1>4. CASE StartGo
  <2>1. runs' \in 0 .. MaxRuns
    BY <1>4, BoundsAssumption DEF StartGo, CallInv
  <2>2. ui' \in UiControl
    BY <1>4, UiGotoType DEF StartGo, UiPc
  <2> QED BY <1>4, <2>1, <2>2 DEF StartGo, WorkerState, NotifyOne, Threads
<1>5. CASE StopNothing
  BY <1>5, UiGotoType, UiFields DEF StopNothing, UiPc, Threads
<1>6. CASE StopCancel
  BY <1>6, CancelUiTaskType, UiGotoType DEF StopCancel, UiPc, CancelStatus, Threads
<1>7. CASE StopWake
  <2>1. ui' \in UiControl
    BY <1>7, UiGotoType, UiFields DEF StopWake
  <2>2. /\ state' \in WorkerState /\ sleeping' \subseteq Threads
        /\ cancelCb' \in {"noop", "stop_internal"}
    BY <1>7 DEF StopWake, WorkerState, Threads
  <2>3. UNCHANGED <<mutex, cancelStatus, printVars, outVars, taskVars, wk, runs>>
    BY <1>7 DEF StopWake
  <2> QED BY <2>1, <2>2, <2>3
<1>8. CASE StopConfirm
  BY <1>8, UiGotoType, UiFields DEF StopConfirm, UiPc, WorkerState, Threads
<1>9. CASE SiCheck
  BY <1>9, UiGotoType, UiFields DEF SiCheck, UiPc
<1>10. CASE SiLock
  BY <1>10, UiGotoType DEF SiLock, UiPc, Threads
<1>11. CASE SiCancel
  BY <1>11, CancelUiTaskType, UiGotoType DEF SiCancel, UiPc, CancelStatus, Threads
<1>12. CASE SiWake
  <2>1. /\ ui' \in UiControl /\ mutex' \in Threads \cup {"none"}
        /\ sleeping' \subseteq Threads
    BY <1>12, UiGotoType DEF SiWake, UiPc, Threads
  <2>2. UNCHANGED <<state, cancelStatus, cancelCb, printVars, outVars, taskVars,
       wk, runs>>
    BY <1>12 DEF SiWake
  <2> QED BY <2>1, <2>2
<1>13. CASE SiRelock
  BY <1>13, UiGotoType, UiFields DEF SiRelock, UiPc, WorkerState, Threads
<1>14. CASE SiConfirm
  BY <1>14, UiGotoType, UiFields DEF SiConfirm, UiPc, WorkerState, Threads
<1>15. CASE ApplyInvalidate
  <2>1. ui' \in UiControl /\ step' \in [Steps -> StepState]
    BY <1>15, ApplyInvalidateEffect
  <2>2. UNCHANGED <<workerVars, stateMutex, fresh, empty, outVars, taskVars, wk,
       runs>>
    BY <1>15 DEF ApplyInvalidate
  <2> QED BY <2>1, <2>2
<1>16. CASE ApplyWrite
  <2>1. step' \in [Steps -> StepState]
    <3> DEFINE st == [s \in Steps |-> IF ui.rebuild /\ s \in ObjSteps THEN "Fresh" ELSE step[s]]
    <3>1. st \in [Steps -> StepState]
      BY DEF StepState
    <3>2. step' = CleanedUp(st)
      BY <1>16 DEF ApplyWrite
    <3> QED BY <3>1, <3>2, CleanedUpType
  <2>2. ui' \in UiControl
    BY <1>16, UiGotoType DEF ApplyWrite, UiPc
  <2>3. wk' \in WkControl /\ wk'.pc = wk.pc /\ wk'.k = wk.k
    BY <1>16 DEF ApplyWrite, WkControl
  <2> QED BY <1>16, <2>1, <2>2, <2>3 DEF ApplyWrite
<1>17. CASE ApplyResult
  BY <1>17, UiGotoType DEF ApplyResult, UiPc
<1>18. CASE Unlock
  BY <1>18, UiGotoType DEF Unlock, UiPc
<1>19. CASE ExportSet
  BY <1>19, UiGotoType DEF ExportSet, UiPc
<1>20. CASE ResetClear
  <2>1. step' \in [Steps -> StepState] /\ finalizeStep' \in StepState
    BY <1>20, TransitionType DEF ResetClear, StepState
  <2>2. ui' \in UiControl
    BY <1>20, UiGotoType DEF ResetClear, UiPc
  <2>3. /\ exportPath' = FALSE /\ fresh' = {} /\ empty' = TRUE
        /\ UNCHANGED <<workerVars, stateMutex, uploadJob, gcodeFile, taskVars, wk,
             runs>>
    BY <1>20 DEF ResetClear
  <2> QED BY <2>1, <2>2, <2>3
<1>21. CASE JoinNothing
  BY <1>21, UiGotoType DEF JoinNothing, UiPc
<1>22. CASE JoinRequest
  <2>1. ui' \in UiControl
    BY <1>22, UiGotoType DEF JoinRequest, UiPc
  <2>2. state' \in WorkerState /\ sleeping' \subseteq Threads
    BY <1>22 DEF JoinRequest, WorkerState, NotifyOne
  <2>3. UNCHANGED <<mutex, cancelStatus, cancelCb, printVars, outVars, taskVars,
       wk, runs>>
    BY <1>22 DEF JoinRequest
  <2> QED BY <2>1, <2>2, <2>3
<1>23. CASE JoinDone
  BY <1>23, UiGotoType DEF JoinDone, UiPc
<1>24. CASE TaskFinished
  <2>1. ui' \in UiControl /\ taskState' \in [1 .. MaxRuns -> TaskStates]
    BY <1>24, UiGotoType DEF TaskFinished, TaskStates, UiPc
  <2>2. UNCHANGED <<workerVars, printVars, outVars, task, queue, wk, runs>>
    BY <1>24 DEF TaskFinished
  <2> QED BY <2>1, <2>2
<1>25. CASE StartLock
  BY <1>25, UiGotoType DEF StartLock, UiPc, Threads
<1>26. ASSUME NEW ret \in {"idle", "reset", "exit"}, StopLock(ret) PROVE TypeOK'
  <2>1. ui' \in UiControl
    BY <1>26 DEF StopLock, UiControl, UiPc, Continuation
  <2> QED BY <1>26, <2>1 DEF StopLock, Threads
<1>27. ASSUME NEW c \in Classes, NEW kill \in BOOLEAN, NEW rebuild \in BOOLEAN,
     ApplyLock(c, kill, rebuild) PROVE TypeOK'
  <2>1. ui' \in UiControl
    BY <1>27, ApplyLockEffect
  <2>2. /\ stateMutex' = "ui"
        /\ UNCHANGED <<workerVars, step, fresh, empty, outVars, taskVars, wk, runs>>
    BY <1>27 DEF ApplyLock
  <2> QED BY <2>1, <2>2
<1>28. CASE SetTask
  BY <1>28, CancelCallbackType DEF SetTask, Continuation
<1>29. ASSUME NEW upload \in BOOLEAN, Schedule(upload) PROVE TypeOK'
  <2>1. ui' \in UiControl
    BY <1>29 DEF Schedule, UiControl, UiPc, Continuation
  <2> QED BY <1>29, <2>1, TransitionType DEF Schedule
<1>30. CASE ResetExport
  BY <1>30, TransitionType DEF ResetExport, StepState
<1>31. CASE TakeEvent
  <2>1. Head(queue) \in Event /\ queue' \in Seq(Event)
    BY <1>31 DEF TakeEvent
  <2>2. ui' \in UiControl
    <3>1. CASE Head(queue) \in TaskEvent
      <4>1. Head(queue).run \in 0 .. MaxRuns
        BY <3>1, BoundsAssumption DEF TaskEvent
      <4> QED BY <1>31, <4>1 DEF TakeEvent, UiControl, UiPc
    <3>2. CASE Head(queue) \in CompletedEvent
      BY <1>31, <3>2 DEF TakeEvent, CompletedEvent
    <3> QED BY <2>1, <3>1, <3>2 DEF Event
  <2> QED BY <1>31, <2>1, <2>2 DEF TakeEvent
<1>32. CASE Ready
  BY <1>32, WkGotoType DEF Ready, WkPc, WorkerState, NotifyOne, Threads
<1>33. CASE LoopHead
  BY <1>33, WkGotoType DEF LoopHead, WkPc
<1>34. CASE WaitForWork
  BY <1>34 DEF WaitForWork, Threads
<1>35. CASE BeginRun
  <2>1. wk' \in WkControl /\ wk'.k \in Steps
    BY <1>35, WkGotoType, BoundsAssumption DEF BeginRun, WkPc, AtTop, StateInv, Steps
  <2> QED BY <1>35, <2>1 DEF BeginRun, WorkerState
<1>36. CASE ExitThread
  BY <1>36, WkGotoType DEF ExitThread, WkPc, WorkerState
<1>37. CASE ThrowIfCanceled
  BY <1>37, ThrowType DEF ThrowIfCanceled
<1>38. CASE SkipStep
  BY <1>38, NextMilestoneType, WkFields DEF SkipStep
<1>39. CASE SetStarted
  <2>1. wk' \in WkControl /\ wk'.k = wk.k
    BY <1>39 DEF SetStarted, WkControl, WkPc
  <2>2. step' \in [Steps -> StepState]
    BY <1>39 DEF SetStarted, StepState
  <2>3. gcodeFile' \in BOOLEAN
    BY <1>39 DEF SetStarted, FileAtStart
  <2> QED BY <1>39, <2>1, <2>2, <2>3 DEF SetStarted
<1>40. CASE AskForThumbnails
  BY <1>40, WkGotoType DEF AskForThumbnails, WkPc
<1>41. CASE ComputeDone
  BY <1>41, WkGotoType DEF ComputeDone, WkPc
<1>42. CASE ComputeFailed
  BY <1>42, ThrowType DEF ComputeFailed
<1>43. CASE SetDone
  BY <1>43, NextMilestoneType, WkFields DEF SetDone, StepState
<1>44. CASE RenderRefused
  BY <1>44, RenderedType DEF RenderRefused
<1>45. CASE PlanTask
  BY <1>45, WkGotoType, BoundsAssumption DEF PlanTask, TaskStates, Event,
       TaskEvent, StateInv, BusyPc, RunPc, IsRunning, WkPc
<1>46. CASE TaskAnswered
  BY <1>46, WkGotoType DEF TaskAnswered, WkPc
<1>47. CASE ResetTask
  BY <1>47, RenderedType, BoundsAssumption DEF ResetTask
<1>48. CASE FinalizeSkip
  BY <1>48, WkGotoType DEF FinalizeSkip, WkPc
<1>49. CASE FinalizeStarted
  BY <1>49, WkGotoType DEF FinalizeStarted, WkPc, StepState
<1>50. CASE Export
  BY <1>50, WkGotoType DEF Export, WkPc
<1>51. CASE ExportFailed
  BY <1>51, ThrowType DEF ExportFailed
<1>52. CASE FinalizeDone
  BY <1>52, WkGotoType DEF FinalizeDone, WkPc, StepState
<1>53. CASE FinalizePrint
  BY <1>53, TransitionType, WkGotoType DEF FinalizePrint, WkPc, StepState
<1>54. CASE Finish
  BY <1>54, WkGotoType DEF Finish, WkPc, WorkerState, Threads
<1>55. CASE Cleanup
  <2>1. wk' \in WkControl /\ wk'.pc = "release"
    BY <1>55, WkGotoType DEF Cleanup, WkPc
  <2>2. step' \in [Steps -> StepState]
    BY <1>55, CleanedUpType DEF Cleanup
  <2>3. queue' \in Seq(Event)
    <3> DEFINE e == [type |-> "Completed",
                     outcome |-> IF state = "CANCELED" THEN "Cancelled"
                                 ELSE IF wk.failed THEN "Error" ELSE "Finished",
                     run |-> runs]
    <3>1. e \in Event
      BY DEF Event, CompletedEvent, Outcome
    <3>2. queue' = queue \/ queue' = Append(queue, e)
      BY <1>55 DEF Cleanup
    <3> HIDE DEF e
    <3> QED BY <3>1, <3>2
  <2> QED BY <1>55, <2>1, <2>2, <2>3 DEF Cleanup
<1>56. CASE Release
  BY <1>56, WkAtType DEF Release, WkPc, CancelStatus, NotifyOne, Threads
<1>57. CASE LoseTempFile
  BY <1>57 DEF LoseTempFile
<1>58. CASE UNCHANGED vars
  BY <1>58
<1> HIDE DEF TypeOK, vars, workerVars, printVars, outVars, taskVars
<1> QED
  BY <1>1, <1>2, <1>3, <1>4, <1>5, <1>6, <1>7, <1>8, <1>9, <1>10, <1>11, <1>12,
       <1>13, <1>14, <1>15, <1>16, <1>17, <1>18, <1>19, <1>20, <1>21, <1>22, <1>23,
       <1>24, <1>25, <1>26, <1>27, <1>28, <1>29, <1>30, <1>31, <1>32, <1>33, <1>34,
       <1>35, <1>36, <1>37, <1>38, <1>39, <1>40, <1>41, <1>42, <1>43, <1>44, <1>45,
       <1>46, <1>47, <1>48, <1>49, <1>50, <1>51, <1>52, <1>53, <1>54, <1>55, <1>56,
       <1>57, <1>58 DEF Next, UiStart, UiStop, UiStopInternal, UiApply, UiReset,
       UiInCall, WorkerIdle, WorkerProcess, WorkerTask, WorkerExport, WorkerFinish,
       UiCall, Worker, Terminated

-----------------------------------------------------------------------------
(* Control *)

\* Every step preserves where the two threads are with respect to the locks,
\* the state of the worker, the cancelation and the UI task.
LEMMA ControlStep ==
    ASSUME TypeOK, ControlInv, [Next]_vars
    PROVE  ControlInv'
<1> USE DEF ControlInv, LockInv, StateInv, CallInv, CancelInv, TaskInv,
     UiHoldsMutex, UiHoldsState, WkHoldsMutex, StopPc, StopInternalPc, RunPc,
     BusyPc, vars, workerVars, printVars, outVars, taskVars, IsRunning, Executing,
     Canceled
<1>1. CASE StartCreateThread
  BY <1>1, UiGotoType DEF StartCreateThread, UiPc, WkControl, TypeOK
<1>2. CASE StartWake
  BY <1>2, UiGotoType DEF StartWake, UiPc, TypeOK
<1>3. CASE StartRefused
  BY <1>3, UiGotoType DEF StartRefused, UiPc, TypeOK
<1>4. CASE StartGo
  BY <1>4, UiGotoType, BoundsAssumption DEF StartGo, UiPc, NotifyOne, TypeOK
<1>5. CASE StopNothing
  BY <1>5, UiGotoType, UiFields DEF StopNothing, UiPc, TypeOK
<1>6. CASE StopCancel
  BY <1>6, UiGotoType, CancelUiTaskType DEF StopCancel, UiPc, TypeOK
<1>7. CASE StopWake
  BY <1>7, UiGotoType, UiFields DEF StopWake, UiPc, TypeOK
<1>8. CASE StopConfirm
  BY <1>8, UiGotoType, UiFields DEF StopConfirm, UiPc, TypeOK
<1>9. CASE SiCheck
  BY <1>9, SiCheckEffect, UiFields DEF SiCheck, TypeOK, WorkerState
<1>10. CASE SiLock
  BY <1>10, UiGotoType DEF SiLock, UiPc, TypeOK
<1>11. CASE SiCancel
  BY <1>11, UiGotoType, CancelUiTaskType DEF SiCancel, UiPc, TypeOK
<1>12. CASE SiWake
  BY <1>12, UiGotoType DEF SiWake, UiPc, TypeOK
<1>13. CASE SiRelock
  BY <1>13, UiGotoType, UiFields DEF SiRelock, UiPc, TypeOK
<1>14. CASE SiConfirm
  BY <1>14, UiGotoType, UiFields DEF SiConfirm, UiPc, TypeOK
<1>15. CASE ApplyInvalidate
  <2>1. /\ UNCHANGED <<workerVars, stateMutex, wk, runs, finalizeStep, taskVars>>
        /\ ui.pc = "apply.inval" /\ ui'.rebuild = ui.rebuild
    BY <1>15, ApplyInvalidateEffect DEF ApplyInvalidate
  <2>2. CASE ui'.pc \in {"apply.write", "apply.inval"}
    BY <2>1, <2>2 DEF TypeOK
  <2>3. CASE /\ cancelCb = "stop_internal"
             /\ ui'.pc = "si.check" /\ ui'.ret = "apply.inval"
    BY <2>1, <2>3 DEF TypeOK
  <2> QED BY <1>15, <2>2, <2>3, ApplyInvalidateEffect
<1>16. CASE ApplyWrite
  BY <1>16, UiGotoType DEF ApplyWrite, UiPc, WkControl, TypeOK
<1>17. CASE ApplyResult
  BY <1>17, UiGotoType DEF ApplyResult, UiPc, TypeOK
<1>18. CASE Unlock
  BY <1>18, UiGotoType DEF Unlock, UiPc, TypeOK
<1>19. CASE ExportSet
  BY <1>19, UiGotoType DEF ExportSet, UiPc, TypeOK
<1>20. CASE ResetClear
  BY <1>20, UiGotoType DEF ResetClear, UiPc, TryInvalidate, IsLive, TypeOK
<1>21. CASE JoinNothing
  BY <1>21, UiGotoType DEF JoinNothing, UiPc, TypeOK
<1>22. CASE JoinRequest
  BY <1>22, UiGotoType DEF JoinRequest, UiPc, NotifyOne, TypeOK
<1>23. CASE JoinDone
  BY <1>23, UiGotoType DEF JoinDone, UiPc, TypeOK
<1>24. CASE TaskFinished
  BY <1>24, UiGotoType DEF TaskFinished, UiPc, TypeOK
<1>25. CASE StartLock
  BY <1>25, UiGotoType DEF StartLock, UiPc, TypeOK
<1>26. ASSUME NEW ret \in {"idle", "reset", "exit"}, StopLock(ret) PROVE ControlInv'
  BY <1>26 DEF StopLock, UiControl, Continuation, UiPc, TypeOK
<1>27. ASSUME NEW c \in Classes, NEW kill \in BOOLEAN, NEW rebuild \in BOOLEAN,
     ApplyLock(c, kill, rebuild) PROVE ControlInv'
  <2>1. /\ UNCHANGED <<workerVars, wk, runs, finalizeStep, taskVars>>
        /\ ui.pc = "idle" /\ stateMutex = "none" /\ stateMutex' = "ui"
    BY <1>27 DEF ApplyLock
  <2>2. CASE ui'.pc = "apply.inval" /\ (rebuild => cancelCb # "stop_internal")
    BY <2>1, <2>2, <1>27, ApplyLockEffect DEF TypeOK, WorkerState
  <2>3. CASE /\ cancelCb = "stop_internal"
             /\ ui'.pc = "si.check" /\ ui'.ret = "apply.inval"
    BY <2>1, <2>3 DEF TypeOK
  <2> QED BY <1>27, <2>2, <2>3, ApplyLockEffect
<1>28. CASE SetTask
  BY <1>28, CancelCallbackType DEF SetTask, UiControl, Continuation, UiPc,
       SetTaskCancels, TypeOK
<1>29. ASSUME NEW upload \in BOOLEAN, Schedule(upload) PROVE ControlInv'
  BY <1>29 DEF Schedule, TryInvalidate, IsLive, UiControl, Continuation, UiPc, TypeOK
<1>30. CASE ResetExport
  BY <1>30 DEF ResetExport, TryInvalidate, IsLive, TypeOK
<1>31. CASE TakeEvent
  BY <1>31 DEF TakeEvent, UiControl, Continuation, UiPc, Event, TaskEvent,
       CompletedEvent, TypeOK
<1>32. CASE Ready
  BY <1>32, WkGotoType DEF Ready, WkPc, NotifyOne, TypeOK
<1>33. CASE LoopHead
  BY <1>33, WkGotoType DEF LoopHead, WkPc, TypeOK
<1>34. CASE WaitForWork
  BY <1>34 DEF WaitForWork, AtTop, TypeOK
<1>35. CASE BeginRun
  <2>1. wk'.pc = "begin" /\ wk'.k = wk.k
    BY <1>35, WkGotoType DEF BeginRun, WkPc, TypeOK
  <2> QED BY <1>35, <2>1 DEF BeginRun, AtTop, TypeOK
<1>36. CASE ExitThread
  BY <1>36, WkGotoType DEF ExitThread, WkPc, AtTop, TypeOK
<1>37. CASE ThrowIfCanceled
  BY <1>37, ThrowType DEF ThrowIfCanceled, TypeOK
<1>38. CASE SkipStep
  BY <1>38, NextMilestoneType DEF SkipStep, Steps, TypeOK
<1>39. CASE SetStarted
  BY <1>39 DEF SetStarted, WkControl, TypeOK
<1>40. CASE AskForThumbnails
  BY <1>40, WkGotoType DEF AskForThumbnails, WkPc, TypeOK
<1>41. CASE ComputeDone
  BY <1>41, WkGotoType DEF ComputeDone, WkPc, TypeOK
<1>42. CASE ComputeFailed
  BY <1>42, ThrowType DEF ComputeFailed, TypeOK
<1>43. CASE SetDone
  BY <1>43, NextMilestoneType DEF SetDone, Steps, TypeOK
<1>44. CASE RenderRefused
  BY <1>44, RenderedType DEF RenderRefused, TypeOK
<1>45. CASE PlanTask
  BY <1>45, WkGotoType DEF PlanTask, WkPc, TypeOK
<1>46. CASE TaskAnswered
  BY <1>46, WkGotoType DEF TaskAnswered, WkPc, TypeOK
<1>47. CASE ResetTask
  BY <1>47, RenderedType DEF ResetTask, TypeOK
<1>48. CASE FinalizeSkip
  BY <1>48, WkGotoType DEF FinalizeSkip, WkPc, TypeOK
<1>49. CASE FinalizeStarted
  BY <1>49, WkGotoType DEF FinalizeStarted, WkPc, TryInvalidate, IsLive, TypeOK
<1>50. CASE Export
  BY <1>50, WkGotoType DEF Export, WkPc, TypeOK
<1>51. CASE ExportFailed
  BY <1>51, ThrowType DEF ExportFailed, TypeOK
<1>52. CASE FinalizeDone
  BY <1>52, WkGotoType DEF FinalizeDone, WkPc, TryInvalidate, IsLive, TypeOK
<1>53. CASE FinalizePrint
  BY <1>53, WkGotoType DEF FinalizePrint, WkPc, TypeOK
<1>54. CASE Finish
  BY <1>54, WkGotoType DEF Finish, WkPc, TypeOK
<1>55. CASE Cleanup
  BY <1>55, WkGotoType DEF Cleanup, WkPc, TypeOK
<1>56. CASE Release
  BY <1>56, WkAtType DEF Release, NotifyOne, WkPc, TypeOK
<1>57. CASE LoseTempFile
  BY <1>57 DEF LoseTempFile, TypeOK
<1>58. CASE UNCHANGED vars
  BY <1>58
<1> HIDE DEF ControlInv, LockInv, StateInv, CallInv, CancelInv, TaskInv,
     UiHoldsMutex, UiHoldsState, WkHoldsMutex, StopPc, StopInternalPc, RunPc,
     BusyPc, vars, workerVars, printVars, outVars, taskVars, IsRunning, Executing,
     Canceled
<1> QED
  BY <1>1, <1>2, <1>3, <1>4, <1>5, <1>6, <1>7, <1>8, <1>9, <1>10, <1>11, <1>12,
       <1>13, <1>14, <1>15, <1>16, <1>17, <1>18, <1>19, <1>20, <1>21, <1>22, <1>23,
       <1>24, <1>25, <1>26, <1>27, <1>28, <1>29, <1>30, <1>31, <1>32, <1>33, <1>34,
       <1>35, <1>36, <1>37, <1>38, <1>39, <1>40, <1>41, <1>42, <1>43, <1>44, <1>45,
       <1>46, <1>47, <1>48, <1>49, <1>50, <1>51, <1>52, <1>53, <1>54, <1>55, <1>56,
       <1>57, <1>58 DEF Next, UiStart, UiStop, UiStopInternal, UiApply, UiReset,
       UiInCall, WorkerIdle, WorkerProcess, WorkerTask, WorkerExport, WorkerFinish,
       UiCall, Worker, Terminated

-----------------------------------------------------------------------------
(* Data *)

\* Every step preserves what the control means for the milestones.
LEMMA DataStep ==
    ASSUME TypeOK, ControlInv, DataInv, [Next]_vars
    PROVE  DataInv'
<1> USE DEF DataInv, Relied, Stopping, Applying, ControlInv, LockInv, StateInv,
     CallInv, CancelInv, UiHoldsMutex, UiHoldsState, WkHoldsMutex, StopPc,
     StopInternalPc, RunPc, BusyPc, vars, workerVars, printVars, outVars, taskVars
<1>1. CASE StartCreateThread
  BY <1>1, UiGotoType DEF StartCreateThread, UiPc, TypeOK
<1>2. CASE StartWake
  BY <1>2, UiGotoType DEF StartWake, UiPc, TypeOK
<1>3. CASE StartRefused
  BY <1>3, UiGotoType DEF StartRefused, UiPc, TypeOK
<1>4. CASE StartGo
  BY <1>4, UiGotoType DEF StartGo, UiPc, TypeOK
<1>5. CASE StopNothing
  BY <1>5, UiGotoType, UiFields DEF StopNothing, UiPc, TypeOK
<1>6. CASE StopCancel
  BY <1>6, UiGotoType DEF StopCancel, UiPc, Executing, TypeOK
<1>7. CASE StopWake
  BY <1>7, UiGotoType, UiFields DEF StopWake, UiPc, TypeOK
<1>8. CASE StopConfirm
  BY <1>8, UiGotoType, UiFields DEF StopConfirm, UiPc, TypeOK
<1>9. CASE SiCheck
  BY <1>9, SiCheckEffect DEF SiCheck, TypeOK
<1>10. CASE SiLock
  BY <1>10, UiGotoType DEF SiLock, UiPc, TypeOK
<1>11. CASE SiCancel
  BY <1>11, UiGotoType DEF SiCancel, UiPc, Executing, TypeOK
<1>12. CASE SiWake
  BY <1>12, UiGotoType DEF SiWake, UiPc, TypeOK
<1>13. CASE SiRelock
  BY <1>13, UiGotoType, UiFields DEF SiRelock, UiPc, TypeOK
<1>14. CASE SiConfirm
  BY <1>14, UiGotoType, UiFields DEF SiConfirm, UiPc, Executing, TypeOK
<1>15. CASE ApplyInvalidate
  <2>1. /\ UNCHANGED <<workerVars, wk, fresh>> /\ ui.pc = "apply.inval"
        /\ ui.change \in Classes /\ Affects[ui.change] \subseteq Steps
    BY <1>15, PrintAssumption DEF ApplyInvalidate
  <2>2. Relied' = Relied
    BY <2>1
  <2>3. CASE /\ \A s \in ui.todo : ~IsLive(step[s])
             /\ ui'.pc = "apply.write" /\ step' = step /\ ui'.change = ui.change
    BY <2>1, <2>3
  <2>4. ASSUME NEW s \in ui.todo,
               \A t \in ui.todo : t < s => ~IsLive(step[t]),
               step' = [step EXCEPT ![s] = TryInvalidate(@)],
               ui'.todo = {t \in ui.todo : t > s}, ui'.change = ui.change,
               \/ /\ cancelCb = "stop_internal"
                  /\ ui'.pc = "si.check" /\ ui'.ret = "apply.inval"
               \/ cancelCb # "stop_internal" /\ ui'.pc = "apply.inval"
        PROVE  DataInv'
    <3>1. s \in Steps /\ \A t \in ui.todo : t \in Nat /\ s \in Nat
      BY UiFields DEF TypeOK, Steps
    <3>2. ~IsLive(step'[s]) /\ \A t \in Steps \ {s} : step'[t] = step[t]
      BY <2>4, <3>1, TransitionType DEF TypeOK
    <3>3. \A t \in Affects[ui.change] \ ui'.todo : ~IsLive(step'[t])
      <4> SUFFICES ASSUME NEW t \in Affects[ui.change], t \notin ui'.todo, t # s
                   PROVE  ~IsLive(step'[t])
        BY <3>2
      <4>1. CASE t \notin ui.todo
        BY <2>1, <3>2, <4>1
      <4>2. CASE t \in ui.todo
        <5>1. t < s
          BY <2>4, <3>1, <4>2
        <5> QED BY <2>1, <2>4, <3>2, <4>2, <5>1
      <4> QED BY <4>1, <4>2
    <3>4. \A t \in Steps : step'[t] = "Done" => t \in fresh'
      BY <2>1, <3>2 DEF IsLive
    <3>5. ~wk'.torn /\ \A t \in Relied' : t < wk'.k => t \in fresh'
      BY <2>1, <2>2
    <3>6. CASE ui'.pc = "si.check" /\ ui'.ret = "apply.inval"
      BY <2>1, <2>4, <3>3, <3>4, <3>5, <3>6
    <3>7. CASE cancelCb # "stop_internal" /\ ui'.pc = "apply.inval"
      <4>1. Relied' = {}
        BY <2>2, <3>7, NothingReliedOn DEF IsRunning
      <4> QED BY <2>1, <2>4, <3>3, <3>4, <3>5, <3>7, <4>1
    <3> QED BY <2>4, <3>6, <3>7
  <2> QED BY <1>15, <2>3, <2>4, ApplyInvalidateEffect
<1>16. CASE ApplyWrite
  <2> DEFINE st == [s \in Steps |-> IF ui.rebuild /\ s \in ObjSteps THEN "Fresh" ELSE step[s]]
  <2>1. /\ fresh' = fresh \ Affects[ui.change]
        /\ step' = CleanedUp(st)
        /\ ui'.pc \in {"apply.result", "idle"}
    BY <1>16, UiGotoType DEF ApplyWrite, UiPc, TypeOK
  <2>2. /\ wk'.pc = wk.pc /\ wk'.k = wk.k
        /\ wk'.torn = (wk.torn \/ WorkerReads \cap Affects[ui.change] # {})
    BY <1>16 DEF ApplyWrite, TypeOK, WkControl
  <2>3. /\ Relied \cap Affects[ui.change] = {} /\ Relied' = Relied
        /\ \A s \in Affects[ui.change] : ~IsLive(step[s])
    BY <1>16, <2>2 DEF ApplyWrite
  <2>4. ~wk'.torn
    BY <2>2, <2>3, ReadsAreRelied
  <2>5. \A s \in Relied : IsLive(step'[s])
    <3>1. CASE ui.rebuild
      BY <1>16, <3>1, NothingReliedOn DEF ApplyWrite
    <3>2. CASE ~ui.rebuild
      <4>1. st = step
        BY <3>2 DEF TypeOK
      <4>2. step \in [Steps -> StepState] /\ \A s \in Relied : s \in Steps /\ IsLive(step[s])
        BY <1>16 DEF ApplyWrite, TypeOK
      <4> HIDE DEF Relied, st
      <4> QED BY <2>1, <4>1, <4>2, CleanedUpType
    <3> QED BY <3>1, <3>2
  <2>6. \A s \in Steps : step'[s] = "Done" => s \in fresh'
    <3>1. st \in [Steps -> StepState] /\ \A s \in Steps : IsLive(st[s]) => st[s] = step[s]
      BY DEF TypeOK, StepState, IsLive
    <3> HIDE DEF st
    <3>2. \A s \in Steps : step'[s] = "Done" => step[s] = "Done"
      BY <2>1, <3>1, CleanedUpType DEF IsLive
    <3> QED BY <2>1, <2>3, <3>2 DEF IsLive
  <2>7. \A s \in Relied : s < wk'.k => s \in fresh'
    BY <2>1, <2>2, <2>3
  <2> QED BY <2>1, <2>2, <2>3, <2>4, <2>5, <2>6, <2>7
<1>17. CASE ApplyResult
  BY <1>17, UiGotoType DEF ApplyResult, UiPc, TypeOK
<1>18. CASE Unlock
  BY <1>18, UiGotoType DEF Unlock, UiPc, TypeOK
<1>19. CASE ExportSet
  BY <1>19, UiGotoType DEF ExportSet, UiPc, TypeOK
<1>20. CASE ResetClear
  <2>1. /\ Relied = {} /\ Relied' = {}
        /\ ui'.pc = "idle" /\ wk' = wk
    BY <1>20, UiGotoType, NothingReliedOn DEF ResetClear, UiPc, TypeOK
  <2>2. \A s \in Steps : ~IsLive(step'[s])
    BY <1>20, TransitionType DEF ResetClear, TypeOK, IsLive
  <2> QED BY <2>1, <2>2 DEF IsLive
<1>21. CASE JoinNothing
  BY <1>21, UiGotoType DEF JoinNothing, UiPc, TypeOK
<1>22. CASE JoinRequest
  BY <1>22, UiGotoType DEF JoinRequest, UiPc, TypeOK
<1>23. CASE JoinDone
  BY <1>23, UiGotoType DEF JoinDone, UiPc, TypeOK
<1>24. CASE TaskFinished
  BY <1>24, UiGotoType DEF TaskFinished, UiPc, TypeOK
<1>25. CASE StartLock
  BY <1>25, UiGotoType DEF StartLock, UiPc, TypeOK
<1>26. ASSUME NEW ret \in {"idle", "reset", "exit"}, StopLock(ret) PROVE DataInv'
  BY <1>26 DEF StopLock, TypeOK
<1>27. ASSUME NEW c \in Classes, NEW kill \in BOOLEAN, NEW rebuild \in BOOLEAN,
     ApplyLock(c, kill, rebuild) PROVE DataInv'
  <2>1. UNCHANGED <<step, fresh, wk>> /\ ui.pc = "idle"
    BY <1>27 DEF ApplyLock
  <2>2. Relied' = Relied /\ Relied \subseteq Steps
    BY <2>1
  <2>3. /\ ui'.pc \in {"apply.inval", "si.check"} /\ ui'.change = c
        /\ ui'.todo = Affects[c] /\ (ui'.pc = "si.check" => ui'.ret = "apply.inval")
    BY <1>27, ApplyLockEffect
  <2> QED BY <2>1, <2>2, <2>3
<1>28. CASE SetTask
  BY <1>28, CancelCallbackType DEF SetTask, Continuation, TypeOK
<1>29. ASSUME NEW upload \in BOOLEAN, Schedule(upload) PROVE DataInv'
  BY <1>29 DEF Schedule, TypeOK
<1>30. CASE ResetExport
  BY <1>30 DEF ResetExport, TypeOK
<1>31. CASE TakeEvent
  BY <1>31 DEF TakeEvent, TypeOK
<1>32. CASE Ready
  BY <1>32, WkGotoType DEF Ready, WkPc, TypeOK
<1>33. CASE LoopHead
  BY <1>33, WkGotoType DEF LoopHead, WkPc, TypeOK
<1>34. CASE WaitForWork
  BY <1>34 DEF WaitForWork, AtTop, TypeOK
<1>35. CASE BeginRun
  <2>1. /\ UNCHANGED <<step, fresh, ui>>
        /\ wk'.pc = "begin" /\ wk'.k = 1 /\ wk'.torn = wk.torn
    BY <1>35, WkGotoType DEF BeginRun, AtTop, WkPc, TypeOK
  <2>2. Relied' = {}
    BY <2>1, BoundsAssumption DEF Steps
  <2> QED BY <2>1, <2>2
<1>36. CASE ExitThread
  BY <1>36, WkGotoType DEF ExitThread, WkPc, AtTop, TypeOK
<1>37. CASE ThrowIfCanceled
  BY <1>37, ThrowType DEF ThrowIfCanceled, TypeOK
<1>38. CASE SkipStep
  <2>1. /\ UNCHANGED <<step, fresh, ui>> /\ wk.pc = "begin" /\ wk.k \in Steps
        /\ step[wk.k] = "Done" /\ stateMutex = "none" /\ ~Canceled
    BY <1>38 DEF SkipStep, TypeOK
  <2>2. /\ wk'.torn = wk.torn /\ wk'.k = wk.k + 1 /\ wk'.pc \in {"begin", "fin.begin"}
        /\ Relied' = {s \in Steps : s < wk.k \/ s = wk.k}
    BY <1>38, <2>1, NextIsReliedOn DEF SkipStep, TypeOK
  <2>3. Relied = {s \in Steps : s < wk.k}
    BY <2>1
  <2>4. ~Stopping /\ ~Applying /\ ui.pc # "apply.write"
    BY <2>1, MilestoneIsUndisturbed
  <2>5. \A s \in Relied' : s \in fresh /\ IsLive(step[s])
    BY <2>1, <2>2, <2>3, <2>4 DEF IsLive
  <2> QED BY <2>1, <2>2, <2>4, <2>5
<1>39. CASE SetStarted
  <2>1. /\ UNCHANGED <<fresh, ui>> /\ wk.pc = "begin" /\ wk.k \in Steps
        /\ stateMutex = "none" /\ ~Canceled
        /\ step' = [step EXCEPT ![wk.k] = IF @ = "Done" THEN @ ELSE "Started"]
    BY <1>39 DEF SetStarted, TypeOK
  <2>2. wk'.pc = "compute" /\ wk'.k = wk.k /\ ~wk'.torn
    BY <1>39 DEF SetStarted, TypeOK, WkControl
  <2>3. /\ Relied = {s \in Steps : s < wk.k}
        /\ Relied' = {s \in Steps : s < wk.k \/ s = wk.k}
    BY <2>1, <2>2
  <2>4. ~Stopping /\ ~Applying /\ ui.pc # "apply.write"
    BY <2>1, MilestoneIsUndisturbed
  <2>5. /\ IsLive(step'[wk.k])
        /\ step'[wk.k] = "Done" => step[wk.k] = "Done"
        /\ \A s \in Steps \ {wk.k} : step'[s] = step[s]
    BY <2>1 DEF TypeOK, IsLive
  <2>6. \A s \in Relied' : IsLive(step'[s]) /\ (s < wk.k => s \in fresh)
    <3>1. \A s \in Relied : IsLive(step[s]) /\ s \in fresh
      BY <2>1, <2>3, <2>4
    <3>2. \A s \in Relied' : s = wk.k \/ (s \in Relied /\ s \in Steps \ {wk.k})
      BY <2>1, <2>3 DEF Steps
    <3> HIDE DEF Relied
    <3>3. ~(wk.k < wk.k)
      BY <2>1 DEF Steps
    <3> QED BY <2>1, <2>5, <3>1, <3>2, <3>3
  <2> QED BY <2>1, <2>2, <2>4, <2>5, <2>6
<1>40. CASE AskForThumbnails
  BY <1>40, WkGotoType DEF AskForThumbnails, WkPc, TypeOK
<1>41. CASE ComputeDone
  BY <1>41, WkGotoType DEF ComputeDone, WkPc, TypeOK
<1>42. CASE ComputeFailed
  BY <1>42, ThrowType DEF ComputeFailed, TypeOK
<1>43. CASE SetDone
  <2>1. /\ UNCHANGED ui /\ wk.pc = "end" /\ wk.k \in Steps
        /\ stateMutex = "none" /\ ~Canceled
        /\ step' = [step EXCEPT ![wk.k] = "Done"]
        /\ fresh' = fresh \cup {wk.k}
    BY <1>43 DEF SetDone, TypeOK
  <2>2. /\ wk'.torn = wk.torn /\ wk'.k = wk.k + 1 /\ wk'.pc \in {"begin", "fin.begin"}
        /\ Relied' = {s \in Steps : s < wk.k \/ s = wk.k}
    BY <1>43, <2>1, NextIsReliedOn DEF SetDone, TypeOK
  <2>3. Relied' = Relied
    BY <2>1, <2>2
  <2>4. ~Stopping /\ ~Applying /\ ui.pc # "apply.write"
    BY <2>1, MilestoneIsUndisturbed
  <2>5. IsLive(step'[wk.k]) /\ \A s \in Steps \ {wk.k} : step'[s] = step[s]
    BY <2>1 DEF TypeOK, IsLive
  <2>6. \A s \in Relied' : IsLive(step'[s]) /\ s \in fresh'
    BY <2>1, <2>2, <2>3, <2>4, <2>5
  <2> QED BY <2>1, <2>2, <2>4, <2>5, <2>6
<1>44. CASE RenderRefused
  BY <1>44, RenderedType DEF RenderRefused, TypeOK
<1>45. CASE PlanTask
  BY <1>45, WkGotoType DEF PlanTask, WkPc, TypeOK
<1>46. CASE TaskAnswered
  BY <1>46, WkGotoType DEF TaskAnswered, WkPc, TypeOK
<1>47. CASE ResetTask
  BY <1>47, RenderedType DEF ResetTask, TypeOK
<1>48. CASE FinalizeSkip
  BY <1>48, WkGotoType DEF FinalizeSkip, WkPc, TypeOK
<1>49. CASE FinalizeStarted
  BY <1>49, WkGotoType DEF FinalizeStarted, WkPc, TypeOK
<1>50. CASE Export
  BY <1>50, WkGotoType DEF Export, WkPc, TypeOK
<1>51. CASE ExportFailed
  BY <1>51, ThrowType DEF ExportFailed, TypeOK
<1>52. CASE FinalizeDone
  BY <1>52, WkGotoType DEF FinalizeDone, WkPc, TypeOK
<1>53. CASE FinalizePrint
  <2>1. /\ UNCHANGED <<fresh, ui>> /\ stateMutex = "none"
        /\ step' = [s \in Steps |-> MarkCanceled(step[s])]
        /\ wk'.pc = "finish" /\ wk'.torn = wk.torn
    BY <1>53, WkGotoType DEF FinalizePrint, WkPc, TypeOK
  <2>2. Relied' = {}
    BY <2>1
  <2>3. \A s \in Steps : /\ ~IsLive(step[s]) => ~IsLive(step'[s])
                         /\ step'[s] = "Done" => step[s] = "Done"
    BY <2>1, TransitionType DEF TypeOK
  <2>4. ui.pc # "apply.inval" /\ ui.pc # "apply.write"
    BY <2>1
  <2>5. Applying => Affects[ui.change] \subseteq Steps
    BY PrintAssumption
  <2> QED BY <2>1, <2>2, <2>3, <2>4, <2>5
<1>54. CASE Finish
  BY <1>54, WkGotoType DEF Finish, WkPc, TypeOK
<1>55. CASE Cleanup
  <2>1. /\ UNCHANGED <<fresh, ui>> /\ (step' = step \/ step' = CleanedUp(step))
        /\ wk'.pc = "release" /\ wk'.torn = wk.torn
    BY <1>55, WkGotoType DEF Cleanup, WkPc, TypeOK
  <2>2. Relied' = {}
    BY <2>1
  <2>3. \A s \in Steps : /\ ~IsLive(step[s]) => ~IsLive(step'[s])
                         /\ step'[s] = "Done" => step[s] = "Done"
    BY <2>1, CleanedUpType DEF TypeOK, IsLive
  <2>4. Applying \/ ui.pc = "apply.write" => Affects[ui.change] \subseteq Steps
    BY PrintAssumption
  <2> QED BY <2>1, <2>2, <2>3, <2>4
<1>56. CASE Release
  BY <1>56, WkAtType DEF Release, WkPc, TypeOK
<1>57. CASE LoseTempFile
  BY <1>57 DEF LoseTempFile, TypeOK
<1>58. CASE UNCHANGED vars
  BY <1>58
<1> HIDE DEF DataInv, Relied, Stopping, Applying, ControlInv, LockInv, StateInv,
     CallInv, CancelInv, UiHoldsMutex, UiHoldsState, WkHoldsMutex, StopPc,
     StopInternalPc, RunPc, BusyPc, vars, workerVars, printVars, outVars, taskVars
<1> QED
  BY <1>1, <1>2, <1>3, <1>4, <1>5, <1>6, <1>7, <1>8, <1>9, <1>10, <1>11, <1>12,
       <1>13, <1>14, <1>15, <1>16, <1>17, <1>18, <1>19, <1>20, <1>21, <1>22, <1>23,
       <1>24, <1>25, <1>26, <1>27, <1>28, <1>29, <1>30, <1>31, <1>32, <1>33, <1>34,
       <1>35, <1>36, <1>37, <1>38, <1>39, <1>40, <1>41, <1>42, <1>43, <1>44, <1>45,
       <1>46, <1>47, <1>48, <1>49, <1>50, <1>51, <1>52, <1>53, <1>54, <1>55, <1>56,
       <1>57, <1>58 DEF Next, UiStart, UiStop, UiStopInternal, UiApply, UiReset,
       UiInCall, WorkerIdle, WorkerProcess, WorkerTask, WorkerExport, WorkerFinish,
       UiCall, Worker, Terminated

-----------------------------------------------------------------------------
(* The theorems *)

\* The program starts in a state of the invariants.
LEMMA InitInvariants == Init => TypeOK /\ ControlInv /\ DataInv
<1> SUFFICES ASSUME Init PROVE TypeOK /\ ControlInv /\ DataInv
  OBVIOUS
<1>1. TypeOK
  <2>1. ui \in UiControl
    BY UiAtType DEF Init, UiPc
  <2>2. wk \in WkControl /\ wk.pc = "none"
    BY WkAtType DEF Init, WkPc
  <2>3. /\ step \in [Steps -> StepState] /\ finalizeStep \in StepState
        /\ taskState \in [1 .. MaxRuns -> TaskStates] /\ queue \in Seq(Event)
    BY DEF Init, StepState, TaskStates
  <2>4. 0 \in 0 .. MaxRuns
    BY BoundsAssumption
  <2> QED BY <2>1, <2>2, <2>3, <2>4 DEF Init, TypeOK, WorkerState, CancelStatus
<1>2. ControlInv
  BY DEF Init, ControlInv, LockInv, StateInv, CallInv, CancelInv, TaskInv, UiAt, WkAt,
         UiHoldsMutex, UiHoldsState, WkHoldsMutex, StopPc, StopInternalPc, RunPc, BusyPc,
         IsRunning, Executing, Canceled
<1>3. DataInv
  BY DEF Init, DataInv, Relied, RunPc, Applying, StopInternalPc, UiAt, WkAt
<1> QED BY <1>1, <1>2, <1>3

\* The inductive invariant: types, control and data hold in every state.
THEOREM Invariance == Spec => [](TypeOK /\ ControlInv /\ DataInv)
<1>1. TypeOK /\ ControlInv /\ DataInv /\ [Next]_vars => (TypeOK /\ ControlInv /\ DataInv)'
  BY TypeStep, ControlStep, DataStep DEF ControlInv
<1> QED BY <1>1, InitInvariants, PTL DEF Spec

\* What the inductive invariants say of the two threads.
LEMMA Safety ==
    ASSUME TypeOK, ControlInv, DataInv
    PROVE  /\ CancelIsAwaited
           /\ TaskFindsWorkerWaiting
           /\ AssertionsHold
           /\ RebuildIsExclusive
           /\ NoTornRead
           /\ DoneIsCurrent
           /\ ExportIsCurrent
<1>1. CancelIsAwaited
  BY DEF ControlInv, CancelInv, CancelIsAwaited
<1>2. TaskFindsWorkerWaiting
  BY DEF ControlInv, TaskInv, TaskFindsWorkerWaiting
<1>3. AssertionsHold
  BY DEF TypeOK, WorkerState, ControlInv, LockInv, StateInv, CallInv, TaskInv,
         UiHoldsMutex, AssertionsHold, IsRunning
<1>4. RebuildIsExclusive
  BY WkFields DEF TypeOK, WkPc, ControlInv, StateInv, CallInv, BusyPc, RunPc,
                  RebuildIsExclusive, InProcess
<1>5. NoTornRead
  BY ReadsAreRelied DEF DataInv, NoTornRead
<1>6. DoneIsCurrent
  BY DEF DataInv, DoneIsCurrent
<1>7. ASSUME Exporting PROVE fresh = Steps
  <2>1. wk.k = NSteps + 1 /\ wk.pc \in RunPc
    BY <1>7 DEF Exporting, ControlInv, StateInv, RunPc
  <2>2. \A s \in Steps : s < wk.k
    BY <2>1, BoundsAssumption DEF Steps
  <2> QED BY <2>1, <2>2 DEF TypeOK, DataInv, Relied
<1> QED BY <1>1, <1>2, <1>3, <1>4, <1>5, <1>6, <1>7 DEF ExportIsCurrent

\* Every variable keeps its type; in particular no milestone beyond the last
\* one is ever computed.
THEOREM TypeCorrect == Spec => []TypeOK
  BY Invariance, PTL

\* The one who sets m_cancel_status, in stop() or in stop_internal(), is still
\* waiting when the worker acts upon it, and when it is reset.
THEOREM CancelAwaited == Spec => []CancelIsAwaited
  BY Safety, Invariance, PTL

\* The lambda that execute_ui_task() posts to the event loop runs only while
\* the worker waits for it, whatever became of the run that posted it.
THEOREM TaskFindsWorker == Spec => []TaskFindsWorkerWaiting
  BY Safety, Invariance, PTL

\* The assertions of execute_ui_task(), stop_internal(), start() and
\* join_background_thread() hold, for all that one of them reads m_state
\* before it locks m_mutex.
THEOREM AssertionsPass == Spec => []AssertionsHold
  BY Safety, Invariance, PTL

\* apply() and clear() delete PrintObjects only while the worker is outside
\* process(), export_gcode() and finalize().
THEOREM RebuildExclusive == Spec => []RebuildIsExclusive
  BY Safety, Invariance, PTL

\* apply() does not wait for a worker whose milestones it leaves alone, and
\* yet never writes what the worker is reading.
THEOREM ReadsAreWhole == Spec => []NoTornRead
  BY Safety, Invariance, PTL

\* A milestone that reads Done was computed from the current inputs: no
\* set_done() is late enough to survive an invalidation.
THEOREM DoneCurrent == Spec => []DoneIsCurrent
  BY Safety, Invariance, PTL

\* What is exported or uploaded was computed, in all its milestones, from the
\* current inputs.
THEOREM ExportCurrent == Spec => []ExportIsCurrent
  BY Safety, Invariance, PTL

-----------------------------------------------------------------------------
(* The milestone that ends is Started                                      *)
(*                                                                         *)
(* do_export() goes on with a milestone that is Done when its file is      *)
(* missing, so this holds only of a print whose temporary file nobody      *)
(* removes: a G-code that is done has its file.                            *)

FileInv ==
    /\ ~Sla /\ step[NSteps] = "Done" /\ wk.pc # "exited" => gcodeFile
    /\ ~Sla /\ wk.pc = "end" /\ wk.k = NSteps => gcodeFile
    /\ wk.pc \in {"compute", "render", "taskwait", "taskdone", "end"} /\ wk.k \in Steps
         => step[wk.k] # "Done"

\* Nothing but set_done() makes a milestone Done.
LEMMA OnlySetDone ==
    ASSUME TypeOK, [Next]_vars, ~SetDone
    PROVE  \A s \in Steps : step'[s] = "Done" => step[s] = "Done"
<1> USE DEF TypeOK, vars, workerVars, printVars, outVars, taskVars
<1>1. CASE ApplyInvalidate
  BY <1>1, ApplyInvalidateEffect, TransitionType DEF IsLive
<1>2. CASE ApplyWrite
  <2> DEFINE st == [s \in Steps |-> IF ui.rebuild /\ s \in ObjSteps THEN "Fresh" ELSE step[s]]
  <2>1. st \in [Steps -> StepState] /\ \A s \in Steps : st[s] = "Done" => step[s] = "Done"
    BY DEF StepState
  <2>2. step' = CleanedUp(st)
    BY <1>2 DEF ApplyWrite
  <2> HIDE DEF st
  <2> QED BY <2>1, <2>2 DEF CleanedUp, ResetDirty
<1>3. CASE ResetClear
  BY <1>3 DEF ResetClear, TryInvalidate
<1>4. CASE SetStarted
  BY <1>4 DEF SetStarted
<1>5. CASE FinalizePrint
  BY <1>5, TransitionType DEF FinalizePrint
<1>6. CASE Cleanup
  BY <1>6 DEF Cleanup, CleanedUp, ResetDirty
<1>7. CASE ~(ApplyInvalidate \/ ApplyWrite \/ ResetClear \/ SetStarted
              \/ FinalizePrint \/ Cleanup)
  <2>1. step' = step
    BY <1>7
    DEF Next, UiInCall, UiCall, UiStart, UiStop, UiStopInternal, UiApply, UiReset,
        Worker, WorkerIdle, WorkerProcess, WorkerTask, WorkerExport, WorkerFinish,
        Terminated, StartCreateThread, StartWake, StartRefused, StartGo, StopNothing,
        StopCancel, StopWake, StopConfirm, SiCheck, SiLock, SiCancel, SiWake, SiRelock,
        SiConfirm, ApplyResult, Unlock, ExportSet, JoinNothing, JoinRequest, JoinDone,
        TaskFinished, StartLock, StopLock, ApplyLock, SetTask, Schedule, ResetExport,
        TakeEvent, Ready, LoopHead, WaitForWork, BeginRun, ExitThread, ThrowIfCanceled,
        SkipStep, AskForThumbnails, ComputeDone, ComputeFailed, RenderRefused, PlanTask,
        TaskAnswered, ResetTask, FinalizeSkip, FinalizeStarted, Export, ExportFailed,
        FinalizeDone, Finish, Release, LoseTempFile
  <2> QED BY <2>1
<1> QED BY <1>1, <1>2, <1>3, <1>4, <1>5, <1>6, <1>7

\* Every step preserves that there is a file if somebody may rely on it.
LEMMA FileStep ==
    ASSUME TypeOK, ControlInv, FileInv, TempFileLoss => Sla, [Next]_vars
    PROVE  FileInv'
<1> USE DEF FileInv, TypeOK, vars, workerVars, printVars, outVars, taskVars
<1>0. NSteps \in Steps
  BY BoundsAssumption DEF Steps
<1>1. CASE SetDone
  <2>1. wk'.pc \in {"begin", "fin.begin"} /\ wk.k \in Steps
    BY <1>1, NextMilestoneType DEF SetDone
  <2>2. step'[NSteps] = "Done" => step[NSteps] = "Done" \/ wk.k = NSteps
    BY <1>1, <1>0 DEF SetDone
  <2> QED BY <1>1, <2>1, <2>2 DEF SetDone
<1>2. CASE SetStarted
  <2>1. wk'.pc = "compute" /\ wk'.k = wk.k /\ wk.k \in Steps
    BY <1>2 DEF SetStarted, WkControl
  <2>2. step'[wk.k] # "Done"
    <3>1. step[wk.k] # "Done"
      BY <1>2 DEF SetStarted, FileMissing
    <3> QED BY <1>2, <2>1, <3>1 DEF SetStarted
  <2>3. ~Sla /\ step'[NSteps] = "Done" => gcodeFile'
    <3>1. SUFFICES ASSUME ~Sla, step'[NSteps] = "Done" PROVE gcodeFile'
      OBVIOUS
    <3>2. wk.k # NSteps /\ step[NSteps] = "Done"
      BY <1>2, <1>0, <2>1, <2>2, <3>1 DEF SetStarted
    <3>3. wk.k < NSteps /\ gcodeFile
      BY <1>2, <2>1, <3>1, <3>2, BoundsAssumption DEF SetStarted, Steps
    <3> QED BY <1>2, <3>3 DEF SetStarted, FileAtStart
  <2> QED BY <2>1, <2>2, <2>3
<1>3. CASE ~SetDone /\ ~SetStarted
  <2>1. \A s \in Steps : step'[s] = "Done" => step[s] = "Done"
    BY <1>3, OnlySetDone
  <2>2. CASE ComputeDone
    <3>1. wk'.pc = "end" /\ wk'.k = wk.k /\ wk.pc = "compute"
      BY <2>2, WkGotoType DEF ComputeDone, WkPc
    <3> QED BY <1>0, <2>1, <2>2, <3>1 DEF ComputeDone
  <2>3. CASE JoinDone
    BY <2>3, <1>0 DEF JoinDone
  <2>4. CASE LoseTempFile
    BY <2>4, <1>0, <2>1 DEF LoseTempFile
  <2>6. CASE Worker /\ ~ComputeDone
    <3>0. gcodeFile' = gcodeFile
      BY <1>3, <2>6
      DEF Worker, WorkerIdle, WorkerProcess, WorkerTask, WorkerExport, WorkerFinish,
          Ready, LoopHead, WaitForWork, BeginRun, ExitThread, ThrowIfCanceled, SkipStep,
          AskForThumbnails, ComputeFailed, RenderRefused, PlanTask, TaskAnswered,
          ResetTask, FinalizeSkip, FinalizeStarted, Export, ExportFailed, FinalizeDone,
          FinalizePrint, Finish, Cleanup, Release
    <3> USE <1>0, <2>1, <3>0
    <3>1. CASE Ready \/ LoopHead \/ BeginRun \/ ExitThread
      <4>1. /\ wk.pc \in {"init", "loop", "top"}
            /\ wk'.pc \in {"loop", "top", "begin", "exited"}
        BY <3>1, WkGotoType DEF Ready, LoopHead, BeginRun, ExitThread, AtTop, WkPc
      <4> QED BY <4>1
    <3>2. CASE WaitForWork
      BY <3>2 DEF WaitForWork
    <3>3. CASE ThrowIfCanceled \/ ComputeFailed \/ ExportFailed
      BY <3>3, ThrowType DEF ThrowIfCanceled, ComputeFailed, ExportFailed
    <3>4. CASE SkipStep
      BY <3>4, NextMilestoneType DEF SkipStep
    <3>5. CASE AskForThumbnails
      <4>1. wk'.k = wk.k /\ wk'.pc = "render" /\ wk.pc \in {"compute", "export"}
        BY <3>5, WkGotoType DEF AskForThumbnails, WkPc
      <4>2. wk.pc = "compute" \/ wk.k \notin Steps
        BY <3>5, BoundsAssumption DEF AskForThumbnails, ControlInv, StateInv, Steps
      <4> QED BY <4>1, <4>2
    <3>6. CASE RenderRefused \/ ResetTask
      BY <3>6, RenderedType DEF RenderRefused, ResetTask
    <3>7. CASE PlanTask \/ TaskAnswered
      BY <3>7, WkGotoType DEF PlanTask, TaskAnswered, WkPc
    <3>8. CASE FinalizeSkip \/ FinalizeStarted \/ Export \/ FinalizeDone
      BY <3>8, WkGotoType DEF FinalizeSkip, FinalizeStarted, Export, FinalizeDone, WkPc
    <3>9. CASE FinalizePrint \/ Finish \/ Cleanup
      BY <3>9, WkGotoType DEF FinalizePrint, Finish, Cleanup, WkPc
    <3>10. CASE Release
      BY <3>10, WkAtType DEF Release, WkPc
    <3> QED
      BY <1>3, <2>6, <3>1, <3>2, <3>3, <3>4, <3>5, <3>6, <3>7, <3>8, <3>9, <3>10
      DEF Worker, WorkerIdle, WorkerProcess, WorkerTask, WorkerExport, WorkerFinish
  <2>7. CASE ~Worker /\ ~JoinDone /\ ~LoseTempFile
    <3>1. wk'.k = wk.k /\ (wk'.pc = wk.pc \/ wk'.pc = "init")
      BY <2>7, WkFields
      DEF Next, UiInCall, UiCall, UiStart, UiStop, UiStopInternal, UiApply, UiReset,
          Terminated, StartCreateThread, StartWake, StartRefused, StartGo, StopNothing,
          StopCancel, StopWake, StopConfirm, SiCheck, SiLock, SiCancel, SiWake, SiRelock,
          SiConfirm, ApplyInvalidate, ApplyWrite, ApplyResult, Unlock, ExportSet, ResetClear,
          JoinNothing, JoinRequest, TaskFinished, StartLock, StopLock, ApplyLock, SetTask,
          Schedule, ResetExport, TakeEvent, WkControl
    <3>2. StartCreateThread \/ wk'.pc = wk.pc
      BY <2>7, WkFields
      DEF Next, UiInCall, UiCall, UiStart, UiStop, UiStopInternal, UiApply, UiReset,
          Terminated, StartWake, StartRefused, StartGo, StopNothing,
          StopCancel, StopWake, StopConfirm, SiCheck, SiLock, SiCancel, SiWake, SiRelock,
          SiConfirm, ApplyInvalidate, ApplyWrite, ApplyResult, Unlock, ExportSet, ResetClear,
          JoinNothing, JoinRequest, TaskFinished, StartLock, StopLock, ApplyLock, SetTask,
          Schedule, ResetExport, TakeEvent, WkControl
    <3>3. CASE wk'.pc = wk.pc
      <4>1. gcodeFile' = gcodeFile
        BY <2>7
        DEF Next, UiInCall, UiCall, UiStart, UiStop, UiStopInternal, UiApply, UiReset,
            Terminated, StartCreateThread, StartWake, StartRefused, StartGo, StopNothing,
            StopCancel, StopWake, StopConfirm, SiCheck, SiLock, SiCancel, SiWake,
            SiRelock, SiConfirm, ApplyInvalidate, ApplyWrite, ApplyResult, Unlock,
            ExportSet, ResetClear, JoinNothing, JoinRequest, TaskFinished, StartLock,
            StopLock, ApplyLock, SetTask, Schedule, ResetExport, TakeEvent
      <4> QED BY <1>0, <2>1, <3>1, <3>3, <4>1
    <3>4. CASE StartCreateThread
      <4>1. wk'.pc = "init" /\ UNCHANGED <<gcodeFile, step>> /\ wk.pc \in {"none", "init"}
        BY <3>4 DEF StartCreateThread, WkControl, ControlInv, StateInv
      <4> QED BY <4>1
    <3> QED BY <3>2, <3>3, <3>4
  <2> QED BY <2>2, <2>3, <2>4, <2>6, <2>7
<1> QED BY <1>1, <1>2, <1>3

\* The assertion of set_done() holds: whoever gets to the end of a milestone
\* finds it Started, as long as the G-code file is not removed behind it.
THEOREM SetDoneStarted ==
    ASSUME TempFileLoss => Sla
    PROVE  Spec => []SetDoneFindsStarted
<1>1. Init => FileInv
  <2>1. NSteps \in Steps
    BY BoundsAssumption DEF Steps
  <2> QED BY <2>1 DEF Init, FileInv, WkAt
<1>2. TypeOK /\ ControlInv /\ FileInv /\ [Next]_vars => FileInv'
  BY FileStep
<1>3. TypeOK /\ ControlInv /\ DataInv /\ FileInv => SetDoneFindsStarted
  <2> SUFFICES ASSUME TypeOK, ControlInv, DataInv, FileInv,
                      wk.pc = "end", stateMutex = "none", ~Canceled
               PROVE  step[wk.k] = "Started"
    BY DEF SetDoneFindsStarted
  <2>1. wk.k \in Steps /\ wk.k \in Relied
    BY DEF TypeOK, Relied, RunPc
  <2>2. IsLive(step[wk.k])
    BY <2>1, MilestoneIsUndisturbed DEF DataInv, BusyPc, RunPc
  <2> QED BY <2>1, <2>2 DEF FileInv, IsLive
<1> QED BY <1>1, <1>2, <1>3, Invariance, PTL DEF Spec

-----------------------------------------------------------------------------
(* The targets of an export                                                *)
(*                                                                         *)
(* The strengthening says where the calls are that edit the inputs, and    *)
(* those that set a target.                                                *)

\* The UI thread is inside apply() exactly while it remembers a change.
EditInv ==
    /\ Applying \/ ui.pc \in {"apply.write", "apply.result"} <=> ui.change # "none"
    /\ Applying \/ ui.pc \in {"apply.write", "apply.result"} => ui.change \in Classes

\* An export is announced by bspsGCodeFinalize, unless that was just withdrawn
\* and the worker is being stopped for it.
TargetInv ==
    /\ Exporting => finalizeStep = "Started" \/ (Stopping /\ ui.ret = "exp.set")
    /\ ui.pc = "exp.set" => ~Exporting

\* Every step preserves where the calls that edit the inputs and those that set
\* a target are.
LEMMA TargetStep ==
    ASSUME TypeOK, ControlInv, EditInv, TargetInv, [Next]_vars
    PROVE  EditInv' /\ TargetInv'
<1> USE DEF ControlInv, LockInv, StateInv, CallInv, CancelInv, EditInv, TargetInv,
     Exporting, Applying, Stopping, UiHoldsMutex, UiHoldsState, WkHoldsMutex,
     StopPc, StopInternalPc, RunPc, BusyPc, vars, workerVars, printVars, outVars,
     taskVars, IsRunning, Executing, Canceled
<1>1. CASE StartCreateThread
  BY <1>1, UiGotoType DEF StartCreateThread, UiPc, WkControl, TypeOK
<1>2. CASE StartWake
  BY <1>2, UiGotoType DEF StartWake, UiPc, TypeOK
<1>3. CASE StartRefused
  BY <1>3, UiGotoType DEF StartRefused, UiPc, TypeOK
<1>4. CASE StartGo
  BY <1>4, UiGotoType DEF StartGo, UiPc, TypeOK
<1>5. CASE StopNothing
  BY <1>5, UiGotoType, UiFields DEF StopNothing, UiPc, TypeOK
<1>6. CASE StopCancel
  BY <1>6, UiGotoType DEF StopCancel, UiPc, TypeOK
<1>7. CASE StopWake
  BY <1>7, UiGotoType, UiFields DEF StopWake, UiPc, TypeOK
<1>8. CASE StopConfirm
  BY <1>8, UiGotoType, UiFields DEF StopConfirm, UiPc, TypeOK
<1>9. CASE SiCheck
  BY <1>9, SiCheckEffect DEF SiCheck, TypeOK
<1>10. CASE SiLock
  BY <1>10, UiGotoType DEF SiLock, UiPc, TypeOK
<1>11. CASE SiCancel
  BY <1>11, UiGotoType DEF SiCancel, UiPc, TypeOK
<1>12. CASE SiWake
  BY <1>12, UiGotoType DEF SiWake, UiPc, TypeOK
<1>13. CASE SiRelock
  BY <1>13, UiGotoType, UiFields DEF SiRelock, UiPc, TypeOK
<1>14. CASE SiConfirm
  BY <1>14, UiGotoType, UiFields DEF SiConfirm, UiPc, TypeOK
<1>15. CASE ApplyInvalidate
  BY <1>15, ApplyInvalidateEffect DEF ApplyInvalidate, TypeOK
<1>16. CASE ApplyWrite
  BY <1>16, UiGotoType DEF ApplyWrite, UiPc, WkControl, TypeOK
<1>17. CASE ApplyResult
  BY <1>17, UiGotoType DEF ApplyResult, UiPc, TypeOK
<1>18. CASE Unlock
  BY <1>18, UiGotoType DEF Unlock, UiPc, TypeOK
<1>19. CASE ExportSet
  BY <1>19, UiGotoType DEF ExportSet, UiPc, TypeOK
<1>20. CASE ResetClear
  BY <1>20, UiGotoType DEF ResetClear, UiPc, TryInvalidate, IsLive, TypeOK
<1>21. CASE JoinNothing
  BY <1>21, UiGotoType DEF JoinNothing, UiPc, TypeOK
<1>22. CASE JoinRequest
  BY <1>22, UiGotoType DEF JoinRequest, UiPc, TypeOK
<1>23. CASE JoinDone
  BY <1>23, UiGotoType DEF JoinDone, UiPc, TypeOK
<1>24. CASE TaskFinished
  BY <1>24, UiGotoType DEF TaskFinished, UiPc, TypeOK
<1>25. CASE StartLock
  BY <1>25, UiGotoType DEF StartLock, UiPc, TypeOK
<1>26. ASSUME NEW ret \in {"idle", "reset", "exit"},
     StopLock(ret) PROVE EditInv' /\ TargetInv'
  BY <1>26 DEF StopLock, UiControl, TypeOK
<1>27. ASSUME NEW c \in Classes, NEW kill \in BOOLEAN, NEW rebuild \in BOOLEAN,
     ApplyLock(c, kill, rebuild) PROVE EditInv' /\ TargetInv'
  BY <1>27, ApplyLockEffect, PrintAssumption DEF ApplyLock, TypeOK
<1>28. CASE SetTask
  BY <1>28, CancelCallbackType DEF SetTask, Continuation, TypeOK
<1>29. ASSUME NEW upload \in BOOLEAN, Schedule(upload) PROVE EditInv' /\ TargetInv'
  BY <1>29 DEF Schedule, TryInvalidate, IsLive, UiControl, TypeOK
<1>30. CASE ResetExport
  BY <1>30 DEF ResetExport, TryInvalidate, IsLive, TypeOK
<1>31. CASE TakeEvent
  BY <1>31 DEF TakeEvent, UiControl, TypeOK
<1>32. CASE Ready
  BY <1>32, WkGotoType DEF Ready, WkPc, TypeOK
<1>33. CASE LoopHead
  BY <1>33, WkGotoType DEF LoopHead, WkPc, TypeOK
<1>34. CASE WaitForWork
  BY <1>34 DEF WaitForWork, AtTop, TypeOK
<1>35. CASE BeginRun
  BY <1>35, WkGotoType DEF BeginRun, WkPc, AtTop, TypeOK
<1>36. CASE ExitThread
  BY <1>36, WkGotoType DEF ExitThread, WkPc, AtTop, TypeOK
<1>37. CASE ThrowIfCanceled
  BY <1>37, ThrowType DEF ThrowIfCanceled, TypeOK
<1>38. CASE SkipStep
  BY <1>38, NextMilestoneType DEF SkipStep, TypeOK
<1>39. CASE SetStarted
  BY <1>39 DEF SetStarted, WkControl, TypeOK
<1>40. CASE AskForThumbnails
  BY <1>40, WkGotoType, BoundsAssumption DEF AskForThumbnails, WkPc, Steps, TypeOK
<1>41. CASE ComputeDone
  BY <1>41, WkGotoType DEF ComputeDone, WkPc, TypeOK
<1>42. CASE ComputeFailed
  BY <1>42, ThrowType DEF ComputeFailed, TypeOK
<1>43. CASE SetDone
  BY <1>43, NextMilestoneType DEF SetDone, TypeOK
<1>44. CASE RenderRefused
  BY <1>44, RenderedType DEF RenderRefused, TypeOK
<1>45. CASE PlanTask
  BY <1>45, WkGotoType DEF PlanTask, WkPc, TypeOK
<1>46. CASE TaskAnswered
  BY <1>46, WkGotoType DEF TaskAnswered, WkPc, TypeOK
<1>47. CASE ResetTask
  BY <1>47, RenderedType DEF ResetTask, TypeOK
<1>48. CASE FinalizeSkip
  BY <1>48, WkGotoType DEF FinalizeSkip, WkPc, TypeOK
<1>49. CASE FinalizeStarted
  BY <1>49, WkGotoType DEF FinalizeStarted, WkPc, TypeOK
<1>50. CASE Export
  BY <1>50, WkGotoType DEF Export, WkPc, TypeOK
<1>51. CASE ExportFailed
  BY <1>51, ThrowType DEF ExportFailed, TypeOK
<1>52. CASE FinalizeDone
  BY <1>52, WkGotoType DEF FinalizeDone, WkPc, TypeOK
<1>53. CASE FinalizePrint
  BY <1>53, WkGotoType DEF FinalizePrint, WkPc, TypeOK
<1>54. CASE Finish
  BY <1>54, WkGotoType DEF Finish, WkPc, TypeOK
<1>55. CASE Cleanup
  BY <1>55, WkGotoType DEF Cleanup, WkPc, TypeOK
<1>56. CASE Release
  BY <1>56, WkAtType DEF Release, WkPc, TypeOK
<1>57. CASE LoseTempFile
  BY <1>57 DEF LoseTempFile, TypeOK
<1>58. CASE UNCHANGED vars
  BY <1>58
<1> HIDE DEF ControlInv, LockInv, StateInv, CallInv, CancelInv, EditInv, TargetInv,
     Exporting, Applying, Stopping, UiHoldsMutex, UiHoldsState, WkHoldsMutex,
     StopPc, StopInternalPc, RunPc, BusyPc, vars, workerVars, printVars, outVars,
     taskVars, IsRunning, Executing, Canceled
<1> QED
  BY <1>1, <1>2, <1>3, <1>4, <1>5, <1>6, <1>7, <1>8, <1>9, <1>10, <1>11, <1>12,
       <1>13, <1>14, <1>15, <1>16, <1>17, <1>18, <1>19, <1>20, <1>21, <1>22, <1>23,
       <1>24, <1>25, <1>26, <1>27, <1>28, <1>29, <1>30, <1>31, <1>32, <1>33, <1>34,
       <1>35, <1>36, <1>37, <1>38, <1>39, <1>40, <1>41, <1>42, <1>43, <1>44, <1>45,
       <1>46, <1>47, <1>48, <1>49, <1>50, <1>51, <1>52, <1>53, <1>54, <1>55, <1>56,
       <1>57, <1>58 DEF Next, UiStart, UiStop, UiStopInternal, UiApply, UiReset,
       UiInCall, WorkerIdle, WorkerProcess, WorkerTask, WorkerExport, WorkerFinish,
       UiCall, Worker, Terminated

\* No step changes a target under an export.
LEMMA TargetIsKept ==
    ASSUME TypeOK, ControlInv, TargetInv, [Next]_vars
    PROVE  Exporting => exportPath' = exportPath /\ (uploadJob' = uploadJob \/ Export)
<1> SUFFICES ASSUME Exporting
             PROVE  exportPath' = exportPath /\ (uploadJob' = uploadJob \/ Export)
  OBVIOUS
<1> USE DEF vars, outVars
<1>1. state = "RUNNING"
  BY DEF Exporting, ControlInv, StateInv, BusyPc, RunPc
<1>2. CASE UiStart \/ UiStop
  BY <1>2 DEF UiStart, UiStop, StartCreateThread, StartWake, StartRefused, StartGo,
             StopNothing, StopCancel, StopWake, StopConfirm
<1>3. CASE UiStopInternal
  BY <1>3 DEF UiStopInternal, SiCheck, SiLock, SiCancel, SiWake, SiRelock, SiConfirm
<1>4. CASE UiApply \/ TaskFinished \/ TakeEvent
  BY <1>4 DEF UiApply, ApplyInvalidate, ApplyWrite, ApplyResult, Unlock, TaskFinished,
             TakeEvent
<1>5. CASE UiReset
  BY <1>1, <1>5 DEF UiReset, ExportSet, ResetClear, JoinNothing, JoinRequest, JoinDone,
                   TargetInv, ControlInv, CallInv
<1>6. CASE UiCall
  BY <1>1, <1>6 DEF UiCall, StartLock, StopLock, ApplyLock, SetTask, Schedule,
                   ResetExport, IsRunning
<1>7. CASE WorkerIdle \/ WorkerProcess \/ WorkerTask
  BY <1>7 DEF WorkerIdle, Ready, LoopHead, WaitForWork, BeginRun, ExitThread,
             WorkerProcess, ThrowIfCanceled, SkipStep, SetStarted, AskForThumbnails,
             ComputeDone, ComputeFailed, SetDone,
             WorkerTask, RenderRefused, PlanTask, TaskAnswered, ResetTask
<1>8. CASE WorkerExport \/ WorkerFinish \/ LoseTempFile
  BY <1>8 DEF WorkerExport, FinalizeSkip, FinalizeStarted, Export, ExportFailed,
             FinalizeDone, WorkerFinish, FinalizePrint, Finish, Cleanup, Release,
             LoseTempFile
<1>9. CASE UNCHANGED vars
  BY <1>9
<1> QED
  BY <1>2, <1>3, <1>4, <1>5, <1>6, <1>7, <1>8, <1>9 DEF Next, UiInCall, Worker, Terminated

-----------------------------------------------------------------------------
(* The refinement of ResultStore                                           *)
(*                                                                         *)
(* A milestone is published when it reads Done, and the inputs are being   *)
(* edited from the lock Print::apply() takes to its last write.  set_done  *)
(* is Publish, invalidate() of a Done milestone is Withdraw, the write of  *)
(* apply() is EndEdit, clear() is Clear; every other step is a stutter.    *)
\* Editing is a truth value, so that equivalence is equality.
LEMMA EditingType == Editing \in BOOLEAN /\ Editing' \in BOOLEAN
  BY DEF Editing

\* Every step of the threads is a step of the result store or leaves it alone.
LEMMA StoreStep ==
    ASSUME TypeOK, ControlInv, DataInv, EditInv, EditInv', [Next]_vars
    PROVE  [Results!Next]_(Results!vars)
<1> DEFINE Quiet == Published' = Published /\ fresh' = fresh /\ (Editing' <=> Editing)
<1>1. SUFFICES Quiet \/ Results!Next
  BY EditingType DEF Results!vars
<1> USE DEF vars, workerVars, printVars, outVars, taskVars
<1>2. CASE StartCreateThread
  BY <1>2, UiGotoType DEF StartCreateThread, UiPc, WkControl, TypeOK, Published,
       EditInv, Editing, Applying, StopInternalPc
<1>3. CASE StartWake
  BY <1>3, UiGotoType DEF StartWake, UiPc, TypeOK, Published, EditInv, Editing,
       Applying, StopInternalPc
<1>4. CASE StartRefused
  BY <1>4, UiGotoType DEF StartRefused, UiPc, TypeOK, Published, EditInv, Editing,
       Applying, StopInternalPc
<1>5. CASE StartGo
  BY <1>5, UiGotoType DEF StartGo, UiPc, TypeOK, Published, EditInv, Editing,
       Applying, StopInternalPc
<1>6. CASE StopNothing
  BY <1>6, UiGotoType, UiFields DEF StopNothing, UiPc, TypeOK, Published, EditInv,
       Editing, Applying, StopInternalPc, ControlInv, CallInv, StopPc
<1>7. CASE StopCancel
  BY <1>7, UiGotoType DEF StopCancel, UiPc, TypeOK, Published, EditInv, Editing,
       Applying, StopInternalPc, ControlInv, CallInv, StopPc
<1>8. CASE StopWake
  BY <1>8, UiGotoType, UiFields DEF StopWake, UiPc, TypeOK, Published, EditInv,
       Editing, Applying, StopInternalPc, ControlInv, CallInv, StopPc
<1>9. CASE StopConfirm
  BY <1>9, UiGotoType, UiFields DEF StopConfirm, UiPc, TypeOK, Published, EditInv,
       Editing, Applying, StopInternalPc, ControlInv, CallInv, StopPc
<1>10. CASE SiCheck
  BY <1>10, SiCheckEffect DEF SiCheck, TypeOK, Published, EditInv, Editing,
       Applying, StopInternalPc, ControlInv, CallInv, StopPc
<1>11. CASE SiLock
  BY <1>11, UiGotoType DEF SiLock, UiPc, TypeOK, Published, EditInv, Editing,
       Applying, StopInternalPc, ControlInv, CallInv, StopPc
<1>12. CASE SiCancel
  BY <1>12, UiGotoType DEF SiCancel, UiPc, TypeOK, Published, EditInv, Editing,
       Applying, StopInternalPc, ControlInv, CallInv, StopPc
<1>13. CASE SiWake
  BY <1>13, UiGotoType DEF SiWake, UiPc, TypeOK, Published, EditInv, Editing,
       Applying, StopInternalPc, ControlInv, CallInv, StopPc
<1>14. CASE SiRelock
  BY <1>14, UiGotoType, UiFields DEF SiRelock, UiPc, TypeOK, Published, EditInv,
       Editing, Applying, StopInternalPc, ControlInv, CallInv, StopPc
<1>15. CASE SiConfirm
  BY <1>15, UiGotoType, UiFields DEF SiConfirm, UiPc, TypeOK, Published, EditInv,
       Editing, Applying, StopInternalPc, ControlInv, CallInv, StopPc
<1>16. CASE ApplyInvalidate
  <2>1. /\ fresh' = fresh /\ ui'.change = ui.change /\ ui'.pc # "apply.result"
        /\ ui.pc = "apply.inval"
    BY <1>16, ApplyInvalidateEffect DEF ApplyInvalidate
  <2>2. Editing /\ Editing'
    BY <2>1 DEF Editing, EditInv, Applying
  <2>3. CASE step' = step
    BY <2>1, <2>2, <2>3 DEF Published
  <2>4. ASSUME NEW s \in ui.todo, step' = [step EXCEPT ![s] = TryInvalidate(@)]
        PROVE  Quiet \/ Results!Next
    <3>1. s \in Steps
      BY UiFields DEF TypeOK
    <3>2. Published' = Published \ {s}
      BY <2>4, <3>1, TransitionType DEF TypeOK, Published
    <3>3. CASE s \in Published
      BY <2>1, <2>2, <3>1, <3>2, <3>3, EditingType DEF Results!Next, Results!Withdraw
    <3>4. CASE s \notin Published
      BY <2>1, <2>2, <3>2, <3>4
    <3> QED BY <3>3, <3>4
  <2> QED BY <1>16, <2>3, <2>4, ApplyInvalidateEffect
<1>17. CASE ApplyWrite
  <2> DEFINE st == [s \in Steps |-> IF ui.rebuild /\ s \in ObjSteps THEN "Fresh" ELSE step[s]]
  <2>1. /\ ui.pc = "apply.write" /\ ui'.pc \in {"apply.result", "idle"}
        /\ ui'.pc = "idle" => ui'.change = "none"
        /\ step' = CleanedUp(st) /\ fresh' = fresh \ Affects[ui.change]
    BY <1>17, UiGotoType DEF ApplyWrite, UiPc, TypeOK
  <2>2. Editing /\ ~Editing'
    BY <2>1 DEF Editing, EditInv
  <2>3. ui.change \in Classes /\ Affects[ui.change] \subseteq Steps
    BY <2>1, PrintAssumption DEF DataInv
  <2>4. Affects[ui.change] \cap Published = {}
    BY <2>1 DEF DataInv, Published, IsLive
  <2>5. Published' \subseteq Published
    <3>1. st \in [Steps -> StepState] /\ \A s \in Steps : IsLive(st[s]) => st[s] = step[s]
      BY DEF TypeOK, StepState, IsLive
    <3> HIDE DEF st
    <3> QED BY <2>1, <3>1, CleanedUpType DEF Published, IsLive
  <2>6. Results!EndEdit(Affects[ui.change])
    BY <2>1, <2>2, <2>4, <2>5, EditingType DEF Results!EndEdit
  <2> QED BY <2>3, <2>6 DEF Results!Next
<1>18. CASE ApplyResult
  BY <1>18, UiGotoType DEF ApplyResult, UiPc, TypeOK, Published, EditInv, Editing,
       Applying, StopInternalPc
<1>19. CASE Unlock
  BY <1>19, UiGotoType DEF Unlock, UiPc, TypeOK, Published, EditInv, Editing,
       Applying, StopInternalPc
<1>20. CASE ExportSet
  BY <1>20, UiGotoType DEF ExportSet, UiPc, TypeOK, Published, EditInv, Editing,
       Applying, StopInternalPc
<1>21. CASE ResetClear
  <2>1. /\ ui.pc = "reset" /\ ui'.pc = "idle" /\ ui'.change = "none" /\ fresh' = {}
    BY <1>21, UiGotoType DEF ResetClear, UiPc, TypeOK
  <2>2. ~Editing /\ ~Editing'
    BY <2>1 DEF Editing, EditInv, Applying, StopInternalPc
  <2>3. Published' = {}
    BY <1>21, TransitionType DEF ResetClear, TypeOK, Published, IsLive
  <2> QED BY <2>1, <2>2, <2>3, EditingType DEF Results!Next, Results!Clear
<1>22. CASE JoinNothing
  BY <1>22, UiGotoType DEF JoinNothing, UiPc, TypeOK, Published, EditInv, Editing,
       Applying, StopInternalPc
<1>23. CASE JoinRequest
  BY <1>23, UiGotoType DEF JoinRequest, UiPc, TypeOK, Published, EditInv, Editing,
       Applying, StopInternalPc
<1>24. CASE JoinDone
  BY <1>24, UiGotoType DEF JoinDone, UiPc, TypeOK, Published, EditInv, Editing,
       Applying, StopInternalPc
<1>25. CASE TaskFinished
  BY <1>25, UiGotoType DEF TaskFinished, UiPc, TypeOK, Published, EditInv, Editing,
       Applying, StopInternalPc
<1>26. CASE StartLock
  BY <1>26, UiGotoType DEF StartLock, UiPc, TypeOK, Published, EditInv, Editing,
       Applying, StopInternalPc
<1>27. ASSUME NEW ret \in {"idle", "reset", "exit"},
     StopLock(ret) PROVE Quiet \/ Results!Next
  BY <1>27 DEF StopLock, UiControl, TypeOK, Published, EditInv, Editing, Applying,
       StopInternalPc, ControlInv, CallInv, StopPc
<1>28. ASSUME NEW c \in Classes, NEW kill \in BOOLEAN, NEW rebuild \in BOOLEAN,
     ApplyLock(c, kill, rebuild) PROVE Quiet \/ Results!Next
  <2>1. /\ UNCHANGED <<step, fresh>> /\ ui.pc = "idle"
        /\ ui'.pc \in {"apply.inval", "si.check"} /\ ui'.change = c
    BY <1>28, ApplyLockEffect DEF ApplyLock
  <2>2. ~Editing /\ Editing'
    BY <2>1, PrintAssumption DEF Editing, EditInv, Applying, StopInternalPc
  <2> QED BY <2>1, <2>2, EditingType DEF Published, Results!Next, Results!BeginEdit
<1>29. CASE SetTask
  BY <1>29, CancelCallbackType DEF SetTask, Continuation, TypeOK, Published,
       EditInv, Editing, Applying, StopInternalPc
<1>30. ASSUME NEW upload \in BOOLEAN, Schedule(upload) PROVE Quiet \/ Results!Next
  BY <1>30 DEF Schedule, UiControl, TypeOK, Published, EditInv, Editing, Applying,
       StopInternalPc
<1>31. CASE ResetExport
  BY <1>31 DEF ResetExport, TypeOK, Published, EditInv, Editing, Applying,
       StopInternalPc
<1>32. CASE TakeEvent
  BY <1>32 DEF TakeEvent, UiControl, TypeOK, Published, EditInv, Editing, Applying,
       StopInternalPc
<1>33. CASE SetStarted
  <2>1. /\ UNCHANGED <<fresh, ui>> /\ wk.k \in Steps
        /\ step' = [step EXCEPT ![wk.k] = IF @ = "Done" THEN @ ELSE "Started"]
    BY <1>33 DEF SetStarted, TypeOK
  <2>2. Published' = Published
    BY <2>1 DEF TypeOK, Published
  <2> QED BY <2>1, <2>2 DEF Editing
<1>34. CASE SetDone
  <2>1. /\ UNCHANGED ui /\ wk.pc = "end" /\ wk.k \in Steps
        /\ stateMutex = "none" /\ ~Canceled
        /\ step' = [step EXCEPT ![wk.k] = "Done"] /\ fresh' = fresh \cup {wk.k}
    BY <1>34 DEF SetDone, TypeOK, DataInv
  <2>2. ~Editing /\ Editing' = Editing
    BY <2>1, MilestoneIsUndisturbed DEF BusyPc, RunPc, Editing, EditInv
  <2>3. Published' = Published \cup {wk.k}
    BY <2>1 DEF TypeOK, Published
  <2> QED BY <2>1, <2>2, <2>3 DEF Results!Next, Results!Publish
<1>35. CASE FinalizePrint
  <2>1. Published' = Published /\ UNCHANGED <<fresh, ui>>
    BY <1>35 DEF FinalizePrint, MarkCanceled, Published
  <2> QED BY <2>1 DEF Editing
<1>36. CASE Cleanup
  <2>1. UNCHANGED <<fresh, ui>> /\ (step' = step \/ step' = CleanedUp(step))
    BY <1>36 DEF Cleanup
  <2>2. Published' = Published
    BY <2>1, CleanedUpType DEF TypeOK, Published, IsLive
  <2> QED BY <2>1, <2>2 DEF Editing
<1>37. CASE WorkerIdle \/ WorkerTask \/ WorkerExport
  BY <1>37 DEF Published, Editing, WorkerIdle, WorkerTask, WorkerExport, Ready,
       LoopHead, WaitForWork, BeginRun, ExitThread, RenderRefused, PlanTask,
       TaskAnswered, ResetTask, FinalizeSkip, FinalizeStarted, Export,
       ExportFailed, FinalizeDone
<1>38. CASE ThrowIfCanceled \/ SkipStep \/ AskForThumbnails \/ ComputeDone
     \/ ComputeFailed \/ Finish \/ Release \/ LoseTempFile
  BY <1>38 DEF Published, Editing, ThrowIfCanceled, SkipStep, AskForThumbnails,
       ComputeDone, ComputeFailed, Finish, Release, LoseTempFile
<1>39. CASE UNCHANGED vars
  BY <1>39 DEF Published, Editing
<1> HIDE DEF vars, workerVars, printVars, outVars, taskVars
<1> QED
  BY <1>2, <1>3, <1>4, <1>5, <1>6, <1>7, <1>8, <1>9, <1>10, <1>11, <1>12, <1>13,
       <1>14, <1>15, <1>16, <1>17, <1>18, <1>19, <1>20, <1>21, <1>22, <1>23, <1>24,
       <1>25, <1>26, <1>27, <1>28, <1>29, <1>30, <1>31, <1>32, <1>33, <1>34, <1>35,
       <1>36, <1>37, <1>38, <1>39 DEF Next, UiStart, UiStop, UiStopInternal,
       UiApply, UiReset, UiInCall, UiCall, WorkerProcess, WorkerFinish, Worker,
       Terminated

-----------------------------------------------------------------------------
(* What follows *)

\* EditInv and TargetInv hold in every state.
LEMMA TargetInvariance == Spec => [](EditInv /\ TargetInv)
<1>1. Init => EditInv /\ TargetInv
  BY DEF Init, EditInv, TargetInv, Applying, StopInternalPc, Exporting, UiAt, WkAt
<1>2. TypeOK /\ ControlInv /\ EditInv /\ TargetInv /\ [Next]_vars => (EditInv /\ TargetInv)'
  BY TargetStep
<1> QED BY <1>1, <1>2, Invariance, PTL DEF Spec

\* While the worker exports to a path or an upload job nobody else changes
\* them: schedule_export() and schedule_upload() withdraw bspsGCodeFinalize
\* and stop the worker first, reset_export() and reset() find it stopped.
THEOREM TargetStable == Spec => ExportTargetIsStable
<1>1. TypeOK /\ ControlInv /\ TargetInv /\ [Next]_vars
        => [Exporting => exportPath' = exportPath /\ (uploadJob' = uploadJob \/ Export)]_vars
  BY TargetIsKept
<1> QED BY <1>1, Invariance, TargetInvariance, PTL DEF Spec, ExportTargetIsStable

\* The two threads, the two mutexes, the cancelation and the UI task together
\* are a store that publishes a milestone only while the inputs are at rest,
\* and withdraws it before they change.
THEOREM StoreImplemented == Spec => ImplementsResultStore
<1>1. Init => Results!Init
  BY DEF Init, Results!Init, Published, Editing, UiAt
<1>2. TypeOK /\ ControlInv /\ DataInv /\ EditInv /\ EditInv' /\ [Next]_vars
        => [Results!Next]_(Results!vars)
  BY StoreStep
<1> QED BY <1>1, <1>2, Invariance, TargetInvariance, PTL
        DEF Spec, ImplementsResultStore, Results!Spec

\* What is published is current, in every behaviour of the abstract store and
\* so of whatever implements it.
THEOREM PublishedCurrent == Results!Spec => []Results!PublishedIsCurrent
<1>1. Results!Init => Results!PublishedIsCurrent
  BY DEF Results!Init, Results!PublishedIsCurrent
<1>2. Results!PublishedIsCurrent /\ [Results!Next]_(Results!vars)
        => Results!PublishedIsCurrent'
  BY DEF Results!PublishedIsCurrent, Results!Next, Results!vars, Results!Publish,
         Results!Withdraw, Results!BeginEdit, Results!EndEdit, Results!Clear
<1> QED BY <1>1, <1>2, PTL DEF Results!Spec

-----------------------------------------------------------------------------
(***************************************************************************)
(* Plater: the invariants of its run and, since its handlers are clients   *)
(* of BackgroundSlicing, the safety of background slicing in the program   *)
(* as it calls it.                                                         *)
(***************************************************************************)

-----------------------------------------------------------------------------
(* The strengthening *)

\* What the handlers leave to be called, all of it or a rest.
WithTarget == {<<"apply", "decide", "target", "task", "start">>,
               <<"decide", "target", "task", "start">>, <<"target", "task", "start">>}

Rests == WithTarget \cup
    {<<>>, UpdateRestart, <<"decide", "start">>, <<"start">>,
     <<"apply", "decide", "task", "start">>, <<"decide", "task", "start">>, <<"task", "start">>,
     <<"stop">>, <<"reset", "clear">>, <<"clear">>, <<"exit">>, <<"stop", "reset_export">>,
     <<"reset_export">>}

\* schedule_export() or schedule_upload() is on its way.
Scheduling == ui.pc = "exp.set" \/ (ui.pc \in StopInternalPc /\ ui.ret = "exp.set")

PlaterInv ==
    /\ calls \in Rests
    /\ calls \in WithTarget => ~exportPath /\ ~Scheduling
    /\ calls = <<"reset_export">> => \/ ui.pc \in StopPc /\ ui.ret = "idle"
                                     \/ ui.pc = "idle" /\ ~IsRunning
    /\ edits # "same" /\ ~WillWake /\ ~overslept => calls # <<>> /\ Head(calls) = "apply"

-----------------------------------------------------------------------------
(* The rests of the handlers *)

\* What is left of a handler after a call is what is left of a handler.
LEMMA RestsTail ==
    ASSUME NEW c \in Rests, c # <<>>
    PROVE  /\ Tail(c) \in Rests /\ Head(c) \in Call
           /\ Tail(c) \in WithTarget => c \in WithTarget /\ Head(c) # "target"
           /\ Tail(c) = <<"reset_export">> => Head(c) = "stop"
           /\ Head(c) = "reset_export" => c = <<"reset_export">>
           /\ Head(c) = "target" => c \in WithTarget
<1> USE DEF Rests, WithTarget, UpdateRestart, Call
<1>1. CASE c = <<"apply", "decide", "target", "task", "start">>
  <2>1. Head(c) = "apply" /\ Tail(c) = <<"decide", "target", "task", "start">>
    BY <1>1
  <2> QED BY <1>1, <2>1
<1>2. CASE c = <<"decide", "target", "task", "start">>
  <2>1. Head(c) = "decide" /\ Tail(c) = <<"target", "task", "start">>
    BY <1>2
  <2> QED BY <1>2, <2>1
<1>3. CASE c = <<"target", "task", "start">>
  <2>1. Head(c) = "target" /\ Tail(c) = <<"task", "start">>
    BY <1>3
  <2> QED BY <1>3, <2>1
<1>4. CASE c = <<"apply", "decide", "start">>
  <2>1. Head(c) = "apply" /\ Tail(c) = <<"decide", "start">>
    BY <1>4
  <2> QED BY <1>4, <2>1
<1>5. CASE c = <<"decide", "start">>
  <2>1. Head(c) = "decide" /\ Tail(c) = <<"start">>
    BY <1>5
  <2> QED BY <1>5, <2>1
<1>6. CASE c = <<"start">>
  <2>1. Head(c) = "start" /\ Tail(c) = <<>>
    BY <1>6
  <2> QED BY <1>6, <2>1
<1>7. CASE c = <<"apply", "decide", "task", "start">>
  <2>1. Head(c) = "apply" /\ Tail(c) = <<"decide", "task", "start">>
    BY <1>7
  <2> QED BY <1>7, <2>1
<1>8. CASE c = <<"decide", "task", "start">>
  <2>1. Head(c) = "decide" /\ Tail(c) = <<"task", "start">>
    BY <1>8
  <2> QED BY <1>8, <2>1
<1>9. CASE c = <<"task", "start">>
  <2>1. Head(c) = "task" /\ Tail(c) = <<"start">>
    BY <1>9
  <2> QED BY <1>9, <2>1
<1>10. CASE c = <<"stop">>
  <2>1. Head(c) = "stop" /\ Tail(c) = <<>>
    BY <1>10
  <2> QED BY <1>10, <2>1
<1>11. CASE c = <<"reset", "clear">>
  <2>1. Head(c) = "reset" /\ Tail(c) = <<"clear">>
    BY <1>11
  <2> QED BY <1>11, <2>1
<1>12. CASE c = <<"exit">>
  <2>1. Head(c) = "exit" /\ Tail(c) = <<>>
    BY <1>12
  <2> QED BY <1>12, <2>1
<1>13. CASE c = <<"stop", "reset_export">>
  <2>1. Head(c) = "stop" /\ Tail(c) = <<"reset_export">>
    BY <1>13
  <2> QED BY <1>13, <2>1
<1>14. CASE c = <<"reset_export">>
  <2>1. Head(c) = "reset_export" /\ Tail(c) = <<>>
    BY <1>14
  <2> QED BY <1>14, <2>1
<1>15. CASE c = <<"clear">>
  <2>1. Head(c) = "clear" /\ Tail(c) = <<>>
    BY <1>15
  <2> QED BY <1>15, <2>1
<1> QED
  BY <1>1, <1>2, <1>3, <1>4, <1>5, <1>6, <1>7, <1>8, <1>9, <1>10, <1>11, <1>12, <1>13, <1>14, <1>15

\* Handlers consist of calls.
LEMMA RestsType == Rests \subseteq Seq(Call)
  BY DEF Rests, WithTarget, UpdateRestart, Call

-----------------------------------------------------------------------------
(* What the calls below do to the targets and to the run *)

\* All that Next may do, but for schedule_export() and schedule_upload().
Unscheduled ==
    \/ UiInCall \/ TakeEvent \/ Worker
    \/ StartLock \/ SetTask \/ ResetExport
    \/ \E ret \in {"idle", "reset", "exit"} : StopLock(ret)
    \/ \E c \in Classes, kill, rebuild \in BOOLEAN : ApplyLock(c, kill, rebuild)

\* Nothing else sets a target.
LEMMA UnscheduledTarget ==
    ASSUME TypeOK, ControlInv, Unscheduled, ~Scheduling
    PROVE  ~Scheduling' /\ (exportPath' => exportPath)
<1> USE DEF Scheduling, StopInternalPc, TypeOK, outVars
<1>1. CASE UiStart
  BY <1>1, UiGotoType DEF UiStart, StartCreateThread, StartWake, StartRefused, StartGo, UiPc
<1>2. CASE UiStop
  <2>1. ui.ret \in {"idle", "reset", "exit"}
    BY <1>2 DEF UiStop, StopNothing, StopCancel, StopWake, StopConfirm, ControlInv, CallInv, StopPc
  <2> QED BY <1>2, <2>1, UiGotoType, UiFields
          DEF UiStop, StopNothing, StopCancel, StopWake, StopConfirm, UiPc
<1>3. CASE UiStopInternal
  <2>1. CASE SiCheck
    BY <2>1, SiCheckEffect DEF SiCheck, ControlInv
  <2>2. CASE ~SiCheck
    BY <1>3, <2>2, UiGotoType, UiFields
       DEF UiStopInternal, SiLock, SiCancel, SiWake, SiRelock, SiConfirm, UiPc
  <2> QED BY <2>1, <2>2
<1>4. CASE UiApply
  <2>1. CASE ApplyInvalidate
    BY <2>1, ApplyInvalidateEffect DEF ApplyInvalidate
  <2>2. CASE ~ApplyInvalidate
    BY <1>4, <2>2, UiGotoType DEF UiApply, ApplyWrite, ApplyResult, Unlock, UiPc
  <2> QED BY <2>1, <2>2
<1>5. CASE UiReset \/ TaskFinished
  BY <1>5, UiGotoType DEF UiReset, ExportSet, ResetClear, JoinNothing, JoinRequest, JoinDone,
     TaskFinished, UiPc
<1>6. CASE TakeEvent
  <2>1. ui'.pc \in {"idle", "runtask"}
    <3>1. /\ ui.pc = "idle"
          /\ \/ ui' = ui
             \/ \E r \in {Head(queue).run} : ui' = [ui EXCEPT !.pc = "runtask", !.run = r]
      BY <1>6 DEF TakeEvent
    <3> QED BY <3>1 DEF UiControl
  <2> QED BY <1>6, <2>1 DEF TakeEvent
<1>7. CASE Worker
  <2>1. ui' = ui /\ exportPath' = exportPath
    BY <1>7 DEF Worker, WorkerIdle, WorkerProcess, WorkerTask, WorkerExport, WorkerFinish,
       Ready, LoopHead, WaitForWork, BeginRun, ExitThread, ThrowIfCanceled, SkipStep, SetStarted,
       AskForThumbnails, ComputeDone, ComputeFailed, SetDone, RenderRefused, PlanTask,
       TaskAnswered, ResetTask, FinalizeSkip, FinalizeStarted, Export, ExportFailed,
       FinalizeDone, FinalizePrint, Finish, Cleanup, Release
  <2> QED BY <2>1
<1>8. CASE StartLock
  BY <1>8, UiGotoType DEF StartLock, UiPc
<1>9. CASE SetTask
  BY <1>9, CancelCallbackType DEF SetTask, Continuation
<1>10. CASE ResetExport
  BY <1>10 DEF ResetExport
<1>11. ASSUME NEW ret \in {"idle", "reset", "exit"}, StopLock(ret)
       PROVE  ~Scheduling' /\ (exportPath' => exportPath)
  BY <1>11 DEF StopLock, UiControl
<1>12. ASSUME NEW c \in Classes, NEW kill \in BOOLEAN, NEW rebuild \in BOOLEAN,
              ApplyLock(c, kill, rebuild)
       PROVE  ~Scheduling' /\ (exportPath' => exportPath)
  BY <1>12, ApplyLockEffect DEF ApplyLock
<1> QED
  BY <1>1, <1>2, <1>3, <1>4, <1>5, <1>6, <1>7, <1>8, <1>9, <1>10, <1>11, <1>12
  DEF Unscheduled, UiInCall

\* A run that was stopped from the event loop stays ended until start() is
\* called: neither the worker nor the end of stop() begins another one.
LEMMA StoppedStays ==
    ASSUME TypeOK, ControlInv, Worker \/ UiInCall,
           \/ ui.pc \in StopPc /\ ui.ret = "idle"
           \/ ui.pc = "idle" /\ ~IsRunning
    PROVE  \/ ui'.pc \in StopPc /\ ui'.ret = "idle"
           \/ ui'.pc = "idle" /\ ~IsRunning'
<1>1. CASE Worker
  <2>1. ui' = ui
    BY <1>1 DEF Worker, WorkerIdle, WorkerProcess, WorkerTask, WorkerExport, WorkerFinish,
       Ready, LoopHead, WaitForWork, BeginRun, ExitThread, ThrowIfCanceled, SkipStep, SetStarted,
       AskForThumbnails, ComputeDone, ComputeFailed, SetDone, RenderRefused, PlanTask,
       TaskAnswered, ResetTask, FinalizeSkip, FinalizeStarted, Export, ExportFailed,
       FinalizeDone, FinalizePrint, Finish, Cleanup, Release
  <2>2. ~IsRunning => ~IsRunning'
    <3>1. CASE Ready \/ ExitThread \/ BeginRun
      BY <3>1 DEF Ready, ExitThread, BeginRun, IsRunning
    <3>2. CASE Finish
      BY <3>2 DEF Finish, ControlInv, StateInv, BusyPc, IsRunning
    <3>3. CASE ~(Ready \/ ExitThread \/ BeginRun \/ Finish)
      BY <1>1, <3>3 DEF workerVars, IsRunning,
         Worker, WorkerIdle, WorkerProcess, WorkerTask, WorkerExport, WorkerFinish,
         LoopHead, WaitForWork, ThrowIfCanceled, SkipStep, SetStarted, AskForThumbnails,
         ComputeDone, ComputeFailed, SetDone, RenderRefused, PlanTask, TaskAnswered,
         ResetTask, FinalizeSkip, FinalizeStarted, Export, ExportFailed, FinalizeDone,
         FinalizePrint, Cleanup, Release
    <3> QED BY <3>1, <3>2, <3>3
  <2> QED BY <2>1, <2>2
<1>2. CASE UiInCall /\ ui.pc \in StopPc /\ ui.ret = "idle"
  <2>1. UiStop
    BY <1>2 DEF UiInCall, StopPc, UiStart, StartCreateThread, StartWake, StartRefused, StartGo,
       UiStopInternal, SiCheck, SiLock, SiCancel, SiWake, SiRelock, SiConfirm,
       UiApply, ApplyInvalidate, ApplyWrite, ApplyResult, Unlock,
       UiReset, ExportSet, ResetClear, JoinNothing, JoinRequest, JoinDone, TaskFinished
  <2> QED BY <1>2, <2>1, UiGotoType, UiFields
          DEF UiStop, StopNothing, StopCancel, StopWake, StopConfirm, StopPc, IsRunning, UiPc, TypeOK
<1>3. CASE UiInCall /\ ui.pc = "idle"
  BY <1>3 DEF UiInCall, UiStart, StartCreateThread, StartWake, StartRefused, StartGo,
     UiStop, StopNothing, StopCancel, StopWake, StopConfirm,
     UiStopInternal, SiCheck, SiLock, SiCancel, SiWake, SiRelock, SiConfirm,
     UiApply, ApplyInvalidate, ApplyWrite, ApplyResult, Unlock,
     UiReset, ExportSet, ResetClear, JoinNothing, JoinRequest, JoinDone, TaskFinished
<1> QED BY <1>1, <1>2, <1>3

\* What a step of the window is for the two threads: a step of
\* BackgroundSlicing, if not the completion event the window posts itself.
LEMMA CallsBelow ==
    ASSUME PlaterTypeOK, PlaterNext
    PROVE  Unscheduled \/ UNCHANGED vars \/ CallTarget \/ CallDecide
<1>1. CASE User
  BY <1>1 DEF User, Edit, Reslice, ExportGcode, CancelButton, ResetProject, Close,
     Suppress, Resume
<1>2. CASE TimerFires
  BY <1>2 DEF TimerFires
<1>3. CASE Dispatch
  BY <1>3 DEF Dispatch, Unscheduled
<1>4. CASE Handler
  <2>1. CASE CallApply
    <3>1. CASE edits = "same"
      BY <2>1, <3>1 DEF CallApply
    <3>2. CASE edits # "same"
      <4>1. /\ edits \in Classes /\ (edits \in RebuildClasses) \in BOOLEAN
            /\ ApplyLock(edits, edits \in RebuildClasses, edits \in RebuildClasses)
        BY <2>1, <3>2 DEF CallApply, PlaterTypeOK
      <4> QED BY <4>1 DEF Unscheduled
    <3> QED BY <3>1, <3>2
  <2>2. CASE ApplyReturns
    BY <2>2 DEF ApplyReturns, Unscheduled, UiInCall, UiApply
  <2>3. CASE CallTask \/ CallStart \/ CallStop \/ CallClear \/ CallResetExport
    BY <2>3 DEF CallTask, CallStart, CallStop, CallClear, CallResetExport, Unscheduled
  <2>4. CASE UiStart \/ UiStop \/ UiStopInternal \/ UiReset \/ TaskFinished
             \/ ApplyInvalidate \/ ApplyResult \/ Unlock
    BY <2>4 DEF Unscheduled, UiInCall, UiApply
  <2> QED BY <1>4, <2>1, <2>2, <2>3, <2>4 DEF Handler
<1>5. CASE WorkerStep
  BY <1>5 DEF WorkerStep, Unscheduled
<1>6. CASE Closed
  BY <1>6 DEF Closed, Terminated
<1> QED BY <1>1, <1>2, <1>3, <1>4, <1>5, <1>6 DEF PlaterNext

\* So the window is a client of BackgroundSlicing, but for that event.
LEMMA ClientOfSlicing ==
    ASSUME PlaterTypeOK, PlaterNext
    PROVE  [Next]_vars \/ CallDecide
<1>1. Unscheduled => Next
  BY DEF Unscheduled, Next, UiCall
<1>2. CallTarget => Next
  <2>1. update.upload \in BOOLEAN
    BY DEF PlaterTypeOK, Update
  <2> QED BY <2>1 DEF CallTarget, Next, UiCall
<1> QED BY <1>1, <1>2, CallsBelow

\* The event update_background_process() posts disturbs neither thread.
LEMMA DecideIsHarmless ==
    ASSUME TypeOK, ControlInv, DataInv, EditInv, TargetInv, CallDecide
    PROVE  /\ (TypeOK /\ ControlInv /\ DataInv /\ EditInv /\ TargetInv)'
           /\ UNCHANGED <<workerVars, printVars, outVars, task, taskState, ui, wk, runs>>
<1>1. UNCHANGED <<workerVars, printVars, outVars, task, taskState, ui, wk, runs>>
  BY DEF CallDecide
<1>2. queue' \in Seq(Event)
  <2>1. [type |-> "Completed", outcome |-> "Cancelled", run |-> runs] \in Event
    BY DEF TypeOK, Event, CompletedEvent, Outcome
  <2> QED BY <2>1 DEF CallDecide, TypeOK
<1> USE <1>1 DEF workerVars, printVars, outVars
<1>3. TypeOK'
  BY <1>2 DEF TypeOK
<1>4. ControlInv'
  BY DEF ControlInv, LockInv, StateInv, CallInv, CancelInv, TaskInv, Canceled, Executing,
         IsRunning
<1>5. DataInv'
  BY DEF DataInv, Relied, Applying, Stopping
<1>6. EditInv' /\ TargetInv'
  BY DEF EditInv, TargetInv, Applying, Exporting, Stopping
<1> QED BY <1>1, <1>3, <1>4, <1>5, <1>6

\* The invariants of BackgroundSlicing hold of the threads of the program.
LEMMA SlicingStep ==
    ASSUME TypeOK, ControlInv, DataInv, EditInv, TargetInv, PlaterTypeOK, PlaterNext
    PROVE  (TypeOK /\ ControlInv /\ DataInv /\ EditInv /\ TargetInv)'
<1>1. CASE [Next]_vars
  BY <1>1, TypeStep, ControlStep, DataStep, TargetStep DEF ControlInv
<1>2. CASE CallDecide
  BY <1>2, DecideIsHarmless
<1> QED BY <1>1, <1>2, ClientOfSlicing

-----------------------------------------------------------------------------
(* The window *)

\* How a handler goes on.
LEMMA ProceedType ==
    ASSUME PlaterTypeOK, calls \in Rests, calls # <<>>, NEW known \in Update,
           \/ Proceed(Tail(calls), known)
           \/ Proceed(<<>>, known)
           \/ Proceed(UpdateRestart, known)
    PROVE  calls' \in Seq(Call) /\ calls' \in Rests /\ update' \in Update
<1>1. NoUpdate \in Update
  BY DEF NoUpdate, Update, Forced
<1>2. Tail(calls) \in Rests /\ <<>> \in Rests /\ UpdateRestart \in Rests
  BY RestsTail DEF Rests
<1> QED BY <1>1, <1>2, RestsType DEF Proceed

\* Every step of the window preserves its types and leaves a rest of a handler.
LEMMA PlaterTypeStep ==
    ASSUME TypeOK, PlaterTypeOK, calls \in Rests, PlaterNext
    PROVE  PlaterTypeOK' /\ calls' \in Rests
<1> USE DEF PlaterTypeOK
<1>0. UpdateRestart \in Rests /\ calls \in Seq(Call) /\ update \in Update
  BY DEF Rests
<1>1. CASE User
  <2>1. /\ <<"apply", "decide", "task", "start">> \in Rests
        /\ <<"apply", "decide", "target", "task", "start">> \in Rests
        /\ <<"stop">> \in Rests /\ <<"reset", "clear">> \in Rests /\ <<"exit">> \in Rests
    BY DEF Rests, WithTarget
  <2>2. [update EXCEPT !.force = "restart"] \in Update
    BY <1>0 DEF Update, Forced
  <2>3. \A upload \in BOOLEAN : [update EXCEPT !.force = "export", !.upload = upload] \in Update
    BY <1>0 DEF Update, Forced
  <2>4. CASE \E c \in Classes : Edit(c)
    BY <1>0, <2>4 DEF Edit, Arm
  <2>5. CASE Suppress \/ Resume
    BY <1>0, <2>5 DEF Suppress, Resume
  <2>6. CASE Reslice \/ \E upload \in BOOLEAN : ExportGcode(upload)
    BY <1>0, <2>1, <2>2, <2>3, <2>6, RestsType DEF Reslice, ExportGcode, schedVars
  <2>7. CASE CancelButton \/ ResetProject \/ Close
    BY <1>0, <2>1, <2>7, RestsType DEF CancelButton, ResetProject, Close, schedVars
  <2> QED BY <1>1, <2>4, <2>5, <2>6, <2>7 DEF User
<1>2. CASE TimerFires
  <2>1. calls' \in Rests
    BY <1>0, <1>2 DEF TimerFires, Rests
  <2> QED BY <1>2, <2>1, RestsType DEF TimerFires
<1>3. CASE Dispatch
  <2>1. <<"stop", "reset_export">> \in Rests
    BY DEF Rests
  <2>2. calls' \in Rests
    BY <1>3, <2>1 DEF Dispatch
  <2>3. uploadAsked' \in BOOLEAN
    BY <1>3 DEF Dispatch
  <2> QED BY <1>3, <2>2, <2>3, RestsType DEF Dispatch, schedVars
<1>4. CASE CallApply
  <2>1. [update EXCEPT !.running = IsRunning] \in Update
    <3>1. IsRunning \in BOOLEAN
      BY DEF IsRunning
    <3> QED BY <1>0, <3>1 DEF Update
  <2>2. edits' \in Classes \cup {"same"}
    BY <1>4 DEF CallApply
  <2>3. calls # <<>> /\ Proceed(Tail(calls), [update EXCEPT !.running = IsRunning])
    BY <1>4 DEF CallApply, AtCall
  <2>4. calls' \in Seq(Call) /\ calls' \in Rests /\ update' \in Update
    BY <2>1, <2>3, ProceedType
  <2> QED BY <1>4, <2>2, <2>4 DEF CallApply
<1>5. CASE ApplyReturns
  <2>1. [update EXCEPT !.status = ui.status] \in Update
    BY <1>0, UiFields DEF Update, TypeOK
  <2> QED BY <1>5, <2>1 DEF ApplyReturns, schedVars
<1>6. CASE CallDecide
  <2>1. PICK valid \in BOOLEAN, auto \in BOOLEAN :
            LET changed == update.status # "UNCHANGED"
                restart == changed /\ ~empty /\ valid /\ auto
                invalid == (changed \/ update.force # "none") /\ ~empty /\ ~valid
            IN  Proceed(IF invalid /\ update.force = "export" THEN <<>> ELSE Tail(calls),
                        [update EXCEPT !.restart = restart, !.invalid = invalid])
    BY <1>6 DEF CallDecide
  <2> DEFINE restart == update.status # "UNCHANGED" /\ ~empty /\ valid /\ auto
             invalid == /\ update.status # "UNCHANGED" \/ update.force # "none"
                        /\ ~empty /\ ~valid
             known == [update EXCEPT !.restart = restart, !.invalid = invalid]
  <2>2. restart \in BOOLEAN /\ invalid \in BOOLEAN /\ ~(restart /\ invalid)
    OBVIOUS
  <2>3. Proceed(Tail(calls), known) \/ Proceed(<<>>, known)
    BY <2>1
  <2>4. known \in Update
    <3> HIDE DEF restart, invalid
    <3> QED BY <1>0, <2>2 DEF Update
  <2>5. calls # <<>>
    BY <1>6 DEF CallDecide, AtCall
  <2> HIDE DEF known
  <2>6. calls' \in Seq(Call) /\ calls' \in Rests /\ update' \in Update
    BY <2>3, <2>4, <2>5, ProceedType
  <2> QED BY <1>6, <2>6 DEF CallDecide, schedVars
<1>7. CASE CallTarget \/ CallTask \/ CallStart \/ CallStop \/ CallResetExport
  <2>1. calls # <<>> /\ Proceed(Tail(calls), update)
    BY <1>7 DEF CallTarget, CallTask, CallStart, CallStop, CallResetExport, AtCall
  <2>2. calls' \in Seq(Call) /\ calls' \in Rests /\ update' \in Update
    BY <1>0, <2>1, ProceedType
  <2>3. update.upload \in BOOLEAN
    BY DEF Update
  <2> QED BY <1>7, <2>2, <2>3
          DEF CallTarget, CallTask, CallStart, CallStop, CallResetExport, schedVars
<1>8. CASE CallClear
  <2>1. calls # <<>> /\ (Proceed(UpdateRestart, update) \/ Proceed(<<>>, update))
    BY <1>8 DEF CallClear, AtCall
  <2>2. calls' \in Seq(Call) /\ calls' \in Rests /\ update' \in Update
    BY <1>0, <2>1, ProceedType
  <2>3. edits' \in Classes \cup {"same"}
    BY <1>8, PlaterAssumption DEF CallClear
  <2>4. timer' \in BOOLEAN /\ suppressed' \in BOOLEAN /\ wasScheduled' \in BOOLEAN
          /\ overslept' \in BOOLEAN
    BY <1>8 DEF CallClear, Arm, schedVars
  <2> QED BY <1>8, <2>2, <2>3, <2>4 DEF CallClear
<1>9. CASE UNCHANGED platerVars
  BY <1>9 DEF platerVars, schedVars
<1>10. CASE WorkerStep
  BY <1>10 DEF WorkerStep, schedVars
<1> QED
  BY <1>1, <1>2, <1>3, <1>4, <1>5, <1>6, <1>7, <1>8, <1>9, <1>10
  DEF PlaterNext, Handler, Closed

\* export_gcode() keeps its target until it sets it: it was free when the
\* handler began, and no call before schedule_export() sets another one.
LEMMA TargetStaysFree ==
    ASSUME TypeOK, ControlInv, PlaterTypeOK, PlaterInv, PlaterNext, calls' \in WithTarget
    PROVE  ~exportPath' /\ ~Scheduling'
<1>1. CASE \E upload \in BOOLEAN : ExportGcode(upload)
  BY <1>1 DEF ExportGcode, MayAsk, InLoop, Scheduling, StopInternalPc, vars, outVars
<1>2. CASE ~\E upload \in BOOLEAN : ExportGcode(upload)
  <2>1. calls \in WithTarget /\ ~CallTarget
    <3>0. /\ <<>> \notin WithTarget /\ UpdateRestart \notin WithTarget
          /\ <<"apply", "decide", "task", "start">> \notin WithTarget
          /\ <<"stop">> \notin WithTarget /\ <<"reset", "clear">> \notin WithTarget
          /\ <<"exit">> \notin WithTarget /\ <<"stop", "reset_export">> \notin WithTarget
      BY DEF WithTarget, UpdateRestart
    <3>1. CASE User
      BY <1>2, <3>0, <3>1 DEF User, Edit, Reslice, CancelButton, ResetProject, Close,
         Suppress, Resume, InLoop, MayAsk, MayClick
    <3>2. CASE TimerFires \/ Dispatch
      BY <3>0, <3>2 DEF TimerFires, Dispatch, InLoop
    <3>3. CASE CallApply \/ CallTarget \/ CallTask \/ CallStart \/ CallStop \/ CallResetExport
      <4>1. calls # <<>> /\ calls' = Tail(calls)
        BY <3>3 DEF CallApply, CallTarget, CallTask, CallStart, CallStop, CallResetExport,
           AtCall, Proceed
      <4>2. calls \in WithTarget /\ Head(calls) # "target"
        BY <4>1, RestsTail DEF PlaterInv
      <4> QED BY <4>2 DEF CallTarget, AtCall
    <3>4. CASE CallDecide
      <4>1. AtCall("decide") /\ calls' \in {<<>>, Tail(calls)}
        BY <3>4 DEF CallDecide, Proceed
      <4>2. <<>> \notin WithTarget
        BY DEF WithTarget
      <4>3. calls \in WithTarget
        BY <4>1, <4>2, RestsTail DEF PlaterInv, AtCall
      <4> QED BY <4>1, <4>3 DEF CallTarget, AtCall
    <3>5. CASE CallClear
      BY <3>0, <3>5 DEF CallClear, Proceed
    <3>6. CASE calls' = calls /\ ~CallTarget
      BY <3>6
    <3>7. CallTarget \/ calls' = calls \/ User \/ TimerFires \/ Dispatch \/ CallApply
            \/ CallDecide \/ CallTask \/ CallStart \/ CallStop \/ CallClear \/ CallResetExport
      BY DEF PlaterNext, Handler, ApplyReturns, WorkerStep, Closed, platerVars
    <3> QED BY <3>1, <3>2, <3>3, <3>4, <3>5, <3>6, <3>7
  <2>2. ~exportPath /\ ~Scheduling
    BY <2>1 DEF PlaterInv
  <2>3. CASE Unscheduled
    BY <2>2, <2>3, UnscheduledTarget
  <2>4. CASE UNCHANGED vars \/ CallDecide
    <3>1. CASE UNCHANGED vars
      BY <2>2, <3>1 DEF vars, outVars, Scheduling, StopInternalPc
    <3>2. CASE CallDecide
      <4>1. UNCHANGED <<ui, exportPath>>
        BY <3>2 DEF CallDecide, outVars
      <4> QED BY <2>2, <4>1 DEF Scheduling, StopInternalPc
    <3> QED BY <2>4, <3>1, <3>2
  <2> QED BY <2>1, <2>3, <2>4, CallsBelow
<1> QED BY <1>1, <1>2

\* on_process_completed() finds the run ended when it frees the export path.
LEMMA ResetFindsStopped ==
    ASSUME TypeOK, ControlInv, PlaterTypeOK, PlaterInv, PlaterNext, calls' = <<"reset_export">>
    PROVE  \/ ui'.pc \in StopPc /\ ui'.ret = "idle"
           \/ ui'.pc = "idle" /\ ~IsRunning'
<1>1. CASE User \/ TimerFires \/ Dispatch
  <2>1. CASE User
    <3>1. \/ calls' = calls /\ calls = <<>>
          \/ calls' \in {<<"apply", "decide", "task", "start">>, <<"stop">>, <<"exit">>,
                        <<"apply", "decide", "target", "task", "start">>, <<"reset", "clear">>}
      BY <2>1 DEF User, Edit, Reslice, ExportGcode, CancelButton, ResetProject, Close,
         Suppress, Resume, InLoop, MayAsk, MayClick
    <3> QED BY <3>1
  <2>2. CASE TimerFires
    BY <2>2 DEF TimerFires, UpdateRestart
  <2>3. CASE Dispatch
    <3>1. calls = <<>> /\ calls' \in {calls, <<"stop", "reset_export">>}
      BY <2>3 DEF Dispatch, InLoop
    <3> QED BY <3>1
  <2> QED BY <1>1, <2>1, <2>2, <2>3
<1>2. CASE CallApply \/ CallTarget \/ CallTask \/ CallStart \/ CallResetExport \/ CallDecide
  <2>1. /\ calls # <<>> /\ Head(calls) # "stop"
        /\ calls' = Tail(calls) \/ calls' = <<>>
    BY <1>2 DEF CallApply, CallTarget, CallTask, CallStart, CallResetExport, CallDecide,
       AtCall, Proceed
  <2> QED BY <2>1, RestsTail DEF PlaterInv
<1>3. CASE CallStop
  <2>1. calls # <<>> /\ calls' = Tail(calls)
    BY <1>3 DEF CallStop, AtCall, Proceed
  <2>2. Head(calls) = "stop"
    BY <2>1, RestsTail DEF PlaterInv
  <2>3. StopLock("idle")
    BY <1>3, <2>2 DEF CallStop, AtCall
  <2> QED BY <2>3 DEF StopLock, StopPc, TypeOK, UiControl
<1>4. CASE ApplyReturns \/ WorkerStep
           \/ /\ UiStart \/ UiStop \/ UiStopInternal \/ UiReset \/ TaskFinished
                 \/ ApplyInvalidate \/ ApplyResult \/ Unlock
              /\ UNCHANGED platerVars
  <2>1. calls = <<"reset_export">> /\ (Worker \/ UiInCall)
    BY <1>4 DEF ApplyReturns, WorkerStep, UiInCall, UiApply, platerVars
  <2> QED BY <2>1, StoppedStays DEF PlaterInv
<1>5. CASE CallClear
  BY <1>5 DEF CallClear, Proceed, UpdateRestart
<1>6. CASE Closed
  BY <1>6 DEF Closed, Terminated, platerVars, vars, workerVars, PlaterInv, IsRunning
<1> QED BY <1>1, <1>2, <1>3, <1>4, <1>5, <1>6 DEF PlaterNext, Handler

\* Whatever disarms the timer applies the edits, or it went off in a menu.
LEMMA EditsAreKept ==
    ASSUME PlaterTypeOK, PlaterInv, PlaterNext, edits' # "same", ~WillWake', ~overslept'
    PROVE  calls' # <<>> /\ Head(calls') = "apply"
<1> USE DEF WillWake
<1>1. CASE UNCHANGED <<calls, edits, schedVars>>
  BY <1>1 DEF PlaterInv, schedVars
<1>2. CASE User
  <2>1. InLoop
    BY <1>2 DEF User, Edit, Reslice, ExportGcode, CancelButton, ResetProject, Close,
       Suppress, Resume, MayAsk, MayClick
  <2>2. CASE \E c \in Classes : Edit(c)
    BY <2>2 DEF Edit, Arm
  <2>3. CASE Suppress \/ Resume
    BY <2>1, <2>3 DEF Suppress, Resume, MayAsk, InLoop, PlaterInv, PlaterTypeOK
  <2>4. CASE UNCHANGED <<edits, schedVars>>
    BY <2>1, <2>4 DEF InLoop, PlaterInv, schedVars
  <2> QED BY <1>2, <2>2, <2>3, <2>4
          DEF User, Reslice, ExportGcode, CancelButton, ResetProject, Close
<1>3. CASE TimerFires
  <2>1. ~suppressed
    BY <1>3 DEF TimerFires
  <2> QED BY <1>3, <2>1 DEF TimerFires, UpdateRestart
<1>4. CASE Dispatch
  BY <1>4 DEF Dispatch, InLoop, PlaterInv, schedVars
<1>5. CASE CallApply
  BY <1>5 DEF CallApply
<1>6. CASE CallTarget \/ CallTask \/ CallStart \/ CallStop \/ CallResetExport \/ CallDecide
  <2>1. Head(calls) # "apply" /\ UNCHANGED <<edits, schedVars>>
    BY <1>6 DEF CallTarget, CallTask, CallStart, CallStop, CallResetExport, CallDecide, AtCall
  <2> QED BY <2>1 DEF PlaterInv, schedVars
<1>7. CASE CallClear
  <2>1. CASE Sla
    BY <1>7, <2>1 DEF CallClear, Proceed, UpdateRestart
  <2>2. CASE ~Sla
    BY <1>7, <2>2 DEF CallClear, Arm
  <2> QED BY <2>1, <2>2
<1> QED
  BY <1>1, <1>2, <1>3, <1>4, <1>5, <1>6, <1>7
  DEF PlaterNext, Handler, ApplyReturns, WorkerStep, Closed, platerVars

-----------------------------------------------------------------------------
(* What follows *)

\* The invariants of the two threads and of the window hold in every state of
\* the program.
THEOREM PlaterInvariance ==
    PlaterSpec => []( /\ TypeOK /\ ControlInv /\ DataInv /\ EditInv /\ TargetInv
                      /\ PlaterTypeOK /\ PlaterInv)
<1> DEFINE I == /\ TypeOK /\ ControlInv /\ DataInv /\ EditInv /\ TargetInv
                /\ PlaterTypeOK /\ PlaterInv
<1>1. PlaterInit => I
  <2> SUFFICES ASSUME PlaterInit PROVE I
    OBVIOUS
  <2>1. TypeOK /\ ControlInv /\ DataInv
    BY InitInvariants DEF PlaterInit
  <2>2. EditInv /\ TargetInv
    BY DEF PlaterInit, Init, EditInv, TargetInv, Applying, StopInternalPc, Exporting, UiAt, WkAt
  <2>3. PlaterTypeOK
    <3>1. NoUpdate \in Update /\ <<>> \in Seq(Call)
      BY DEF NoUpdate, Update, Forced
    <3> QED BY <3>1 DEF PlaterInit, PlaterTypeOK
  <2>4. PlaterInv
    BY DEF PlaterInit, PlaterInv, Rests, WithTarget
  <2> QED BY <2>1, <2>2, <2>3, <2>4
<1>2. I /\ [PlaterNext]_allVars => I'
  <2> SUFFICES ASSUME I, [PlaterNext]_allVars PROVE I'
    OBVIOUS
  <2>1. CASE PlaterNext
    <3>1. (TypeOK /\ ControlInv /\ DataInv /\ EditInv /\ TargetInv)'
      BY <2>1, SlicingStep
    <3>2. PlaterTypeOK' /\ calls' \in Rests
      BY <2>1, PlaterTypeStep DEF PlaterInv
    <3>3. PlaterInv'
      BY <2>1, <3>2, TargetStaysFree, ResetFindsStopped, EditsAreKept DEF PlaterInv
    <3> QED BY <3>1, <3>2, <3>3
  <2>2. CASE UNCHANGED allVars
    <3>1. [Next]_vars /\ UNCHANGED platerVars
      BY <2>2 DEF allVars
    <3>2. (TypeOK /\ ControlInv /\ DataInv /\ EditInv /\ TargetInv)'
      BY <3>1, TypeStep, ControlStep, DataStep, TargetStep DEF ControlInv
    <3>3. PlaterTypeOK'
      BY <3>1 DEF platerVars, schedVars, PlaterTypeOK
    <3>4. PlaterInv'
      BY <2>2 DEF allVars, vars, workerVars, outVars, platerVars, schedVars, PlaterInv,
         Scheduling, IsRunning, WillWake
    <3> QED BY <3>2, <3>3, <3>4
  <2> QED BY <2>1, <2>2
<1> QED BY <1>1, <1>2, PTL DEF PlaterSpec

\* Every variable of the window keeps its type: a handler never goes on with
\* calls it does not make, and update_background_process() never reports a
\* print that is both invalid and to be restarted.
THEOREM PlaterTypeCorrect == PlaterSpec => []PlaterTypeOK
  BY PlaterInvariance, PTL

\* The assertions of schedule_export(), schedule_upload() and reset_export()
\* hold of what their handlers established some calls before.
THEOREM PlaterAssertionsPass == PlaterSpec => []PlaterAssertions
<1>1. PlaterInv => PlaterAssertions
  <2> SUFFICES ASSUME PlaterInv PROVE PlaterAssertions
    OBVIOUS
  <2>1. ASSUME AtCall("target") PROVE ~exportPath
    BY <2>1, RestsTail DEF AtCall, PlaterInv
  <2>2. ASSUME AtCall("reset_export") PROVE ~IsRunning
    <3>1. calls = <<"reset_export">> /\ ui.pc = "idle"
      BY <2>2, RestsTail DEF AtCall, PlaterInv
    <3> QED BY <3>1 DEF PlaterInv, StopPc
  <2> QED BY <2>1, <2>2 DEF PlaterAssertions
<1> QED BY <1>1, PlaterInvariance, PTL

\* An edit that waits has the timer armed, or gets it back when the menu is
\* closed, whichever handlers disarmed it.  The one exception is an edit made
\* while the updates were suppressed whose timer went off before the menu was
\* closed: nobody arms it again.
THEOREM EditsScheduled == PlaterSpec => []EditsAreScheduled
<1>1. PlaterInv => EditsAreScheduled
  BY DEF PlaterInv, EditsAreScheduled, InLoop
<1> QED BY <1>1, PlaterInvariance, PTL

\* Called as the window calls it, and with the completion event the window
\* posts itself, background slicing keeps all its safety.
THEOREM PlaterIsSafe ==
    PlaterSpec => []( /\ CancelIsAwaited /\ TaskFindsWorkerWaiting /\ AssertionsHold
                      /\ RebuildIsExclusive /\ NoTornRead /\ DoneIsCurrent /\ ExportIsCurrent)
  BY PlaterInvariance, Safety, PTL

\* The targets of a running export are as stable in the program: the handlers
\* that set or free one stop the worker first.
THEOREM PlaterKeepsTarget == PlaterSpec => ExportTargetIsStable
<1> DEFINE Stable == [Exporting => exportPath' = exportPath /\ (uploadJob' = uploadJob \/ Export)]_vars
<1>1. TypeOK /\ ControlInv /\ TargetInv /\ PlaterTypeOK /\ [PlaterNext]_allVars => Stable
  <2> SUFFICES ASSUME TypeOK, ControlInv, TargetInv, PlaterTypeOK, [PlaterNext]_allVars
               PROVE  Stable
    OBVIOUS
  <2>1. CASE [Next]_vars
    BY <2>1, TargetIsKept
  <2>2. CASE CallDecide
    BY <2>2 DEF CallDecide, outVars
  <2>3. CASE UNCHANGED allVars
    BY <2>3 DEF allVars
  <2> QED BY <2>1, <2>2, <2>3, ClientOfSlicing
<1> QED BY <1>1, PlaterInvariance, PTL DEF PlaterSpec, ExportTargetIsStable

\* The program is a result store, whatever the window has its threads do.
THEOREM PlaterIsStore == PlaterSpec => ImplementsResultStore
<1>1. PlaterInit => Results!Init
  BY DEF PlaterInit, Init, Results!Init, Published, Editing, UiAt
<1>2. TypeOK /\ ControlInv /\ DataInv /\ EditInv /\ EditInv' /\ PlaterTypeOK
        /\ [PlaterNext]_allVars => [Results!Next]_(Results!vars)
  <2> SUFFICES ASSUME TypeOK, ControlInv, DataInv, EditInv, EditInv', PlaterTypeOK,
                      [PlaterNext]_allVars
               PROVE  [Results!Next]_(Results!vars)
    OBVIOUS
  <2>1. CASE [Next]_vars
    BY <2>1, StoreStep
  <2>2. CASE CallDecide
    BY <2>2 DEF CallDecide, printVars, Results!vars, Published, Editing
  <2>3. CASE UNCHANGED allVars
    BY <2>1, <2>3 DEF allVars
  <2> QED BY <2>1, <2>2, <2>3, ClientOfSlicing
<1> QED BY <1>1, <1>2, PlaterInvariance, PTL DEF PlaterSpec, ImplementsResultStore, Results!Spec
=============================================================================
