------------------------------- MODULE Plater -------------------------------
(***************************************************************************)
(* The Plater window as the client of BackgroundSlicing: the handlers of   *)
(* slic3r/GUI/Plater.cpp that run in the event loop of the UI thread and   *)
(* the calls each makes.  A handler is a sequence of calls carried out one *)
(* after the other; while one waits for the worker, the whole UI does.     *)
(* Between two handlers events of the user, the timer and the events the   *)
(* worker has posted are taken in any order, the posted ones in theirs.    *)
(*                                                                         *)
(* Left out: gizmos, the state of buttons, and dialogs but for those that  *)
(* suppress updates as menus do, all of which only keep a handler from     *)
(* running; and the scene.                                                 *)
(***************************************************************************)
EXTENDS BackgroundSlicing

CONSTANTS
    RebuildClasses, \* the classes of changes that affect the list of objects
    UiJobs,         \* TRUE: jobs of the UI worker (arrange, ...) may be running
    MaxQueue        \* bound: posted events above which the user waits

ASSUME PlaterAssumption ==
    /\ RebuildClasses \subseteq Classes
    /\ \A c \in RebuildClasses : Affects[c] = Steps
    /\ UiJobs \in BOOLEAN
    /\ MaxQueue \in Nat

VARIABLES
    calls,       \* the calls the running handler has still to make
    update,      \* what update_background_process() knows and reports
    objects,     \* the model has objects, on the print bed or not
    edits,       \* what the user changed since the last apply(): a class, or "same"
    timer,       \* background_process_timer is armed
    suppressed,  \* suppressed_backround_processing_update: a pop-up menu is open
    wasScheduled,\* SuppressBackgroundProcessingUpdate::m_was_scheduled, of that menu
    overslept,   \* history: the timer of edits made while suppressed went off then
    uploadAsked  \* history: the user was promised an upload and not told it is off

schedVars == <<timer, suppressed, wasScheduled, overslept>>
platerVars == <<calls, update, objects, edits, schedVars, uploadAsked>>
allVars == <<vars, platerVars>>

Forced == {"none", "restart", "export"}

\* What the handlers know: was_running, the result of apply(), the bits of
\* UpdateBackgroundProcessReturnState, of which RESTART and INVALID exclude each
\* other, and the target of export_gcode().
Update ==
    {u \in [running : BOOLEAN, status : ApplyStatus \cup {"UNCHANGED"}, force : Forced,
            upload : BOOLEAN, restart : BOOLEAN, invalid : BOOLEAN] :
        ~(u.restart /\ u.invalid)}

NoUpdate == [running |-> FALSE, status |-> "UNCHANGED", force |-> "none",
             upload |-> FALSE, restart |-> FALSE, invalid |-> FALSE]

Call == {"apply", "decide", "target", "task", "start", "stop", "reset_export", "reset", "clear",
         "exit"}

PlaterTypeOK ==
    /\ calls \in Seq(Call)
    /\ update \in Update
    /\ objects \in BOOLEAN
    /\ edits \in Classes \cup {"same"}
    /\ timer \in BOOLEAN
    /\ suppressed \in BOOLEAN
    /\ wasScheduled \in BOOLEAN
    /\ overslept \in BOOLEAN
    /\ uploadAsked \in BOOLEAN

-----------------------------------------------------------------------------
(* Handlers *)

InLoop == ui.pc = "idle" /\ calls = <<>>

\* Bounds: the user does nothing that needs another run or event.
MayAsk == InLoop /\ runs < MaxRuns /\ Len(queue) <= MaxQueue

\* Nothing else of the window can be clicked while a menu is open.
MayClick == InLoop /\ ~suppressed

UpdateRestart == <<"apply", "decide", "start">>

\* schedule_background_process(): the timer starts, or starts again.
Arm ==
    /\ timer' = TRUE
    /\ overslept' = FALSE
    /\ UNCHANGED <<suppressed, wasScheduled>>

\* The user edits the model or the settings, by a command of a menu too, on top
\* of what already waits: a change of the list of objects contains the others.
Edit(c) ==
    /\ MayAsk /\ (edits \in {"same", c} \/ {c, edits} \cap RebuildClasses # {})
    /\ IF c \in RebuildClasses THEN objects' \in BOOLEAN ELSE ~empty /\ objects' = objects
    /\ edits' = IF edits \in RebuildClasses THEN edits ELSE c
    /\ Arm
    /\ UNCHANGED <<vars, calls, update, uploadAsked>>

\* Mutant: the timer is looked at after it was stopped.
MutSuppress ==
    /\ MayAsk /\ ~suppressed
    /\ suppressed' = TRUE
    /\ wasScheduled' = FALSE
    /\ timer' = FALSE
    /\ UNCHANGED <<vars, calls, update, objects, edits, overslept, uploadAsked>>

\* PopupMenu() opens a menu, or a tab a dialog: suppress_background_process().
Suppress ==
    /\ MayAsk /\ ~suppressed
    /\ suppressed' = TRUE
    /\ wasScheduled' = timer
    /\ timer' = FALSE
    /\ UNCHANGED <<vars, calls, update, objects, edits, overslept, uploadAsked>>

\* The menu is closed: schedule_background_process(m_was_scheduled).
Resume ==
    /\ InLoop /\ suppressed
    /\ suppressed' = FALSE
    /\ wasScheduled' = FALSE
    /\ timer' = (timer \/ wasScheduled)
    /\ UNCHANGED <<vars, calls, update, objects, edits, overslept, uploadAsked>>

\* update_restart_background_process(), unless updates are suppressed: then the
\* timer, which goes off once, has gone off in vain.
TimerFires ==
    /\ InLoop /\ timer
    /\ timer' = FALSE
    /\ calls' = IF suppressed THEN <<>> ELSE UpdateRestart
    /\ overslept' = (suppressed /\ ~wasScheduled /\ edits # "same")
    /\ UNCHANGED <<vars, update, objects, edits, suppressed, wasScheduled, uploadAsked>>

\* The button "Slice now".
Reslice ==
    /\ MayAsk /\ MayClick /\ objects
    /\ calls' = <<"apply", "decide", "task", "start">>
    /\ update' = [update EXCEPT !.force = "restart"]
    /\ UNCHANGED <<vars, objects, edits, schedVars, uploadAsked>>

\* export_gcode(), once the dialog for the file or the host was confirmed.
ExportGcode(upload) ==
    /\ MayAsk /\ MayClick /\ objects
    /\ ~exportPath
    /\ calls' = <<"apply", "decide", "target", "task", "start">>
    /\ update' = [update EXCEPT !.force = "export", !.upload = upload]
    /\ UNCHANGED <<vars, objects, edits, schedVars, uploadAsked>>

\* The button of the slicing progress notification.
CancelButton ==
    /\ MayClick /\ state # "IDLE"
    /\ calls' = <<"stop">>
    /\ UNCHANGED <<vars, update, objects, edits, schedVars, uploadAsked>>

\* "New project", "Delete all".
ResetProject ==
    /\ MayClick
    /\ calls' = <<"reset", "clear">>
    /\ UNCHANGED <<vars, update, objects, edits, schedVars, uploadAsked>>

Close ==
    /\ MayClick
    /\ calls' = <<"exit">>
    /\ UNCHANGED <<vars, update, objects, edits, schedVars, uploadAsked>>

\* Mutant: on_process_completed() trusts that the worker is idle.
MutDispatch ==
    /\ InLoop /\ TakeEvent
    /\ LET e == Head(queue)
       IN  IF e.type = "Completed"
           THEN /\ calls' = <<"reset_export">>
                /\ uploadAsked' = (uploadAsked /\ (e.outcome = "Finished" \/ Executing))
           ELSE UNCHANGED <<calls, uploadAsked>>
    /\ UNCHANGED <<update, objects, edits, schedVars>>

\* on_process_completed() confirms the end of the run and frees the export
\* path.  The user is told when it was canceled or failed, unless a new run
\* is executing by then.
Dispatch ==
    /\ InLoop /\ TakeEvent
    /\ LET e == Head(queue)
       IN  IF e.type = "Completed"
           THEN /\ calls' = <<"stop", "reset_export">>
                /\ uploadAsked' = (uploadAsked /\ (e.outcome = "Finished" \/ Executing))
           ELSE UNCHANGED <<calls, uploadAsked>>
    /\ UNCHANGED <<update, objects, edits, schedVars>>

-----------------------------------------------------------------------------
(* Calls *)

AtCall(call) == ui.pc = "idle" /\ calls # <<>> /\ Head(calls) = call

\* The handler goes on; what it knows dies with it.
Proceed(rest, known) ==
    /\ calls' = rest
    /\ update' = IF rest = <<>> THEN NoUpdate ELSE known

\* update_background_process() stops the timer and applies the edits.
CallApply ==
    /\ AtCall("apply")
    /\ timer' = FALSE /\ overslept' = FALSE
    /\ Proceed(Tail(calls), [update EXCEPT !.running = IsRunning])
    /\ IF edits = "same"
       THEN UNCHANGED <<vars, edits>>
       ELSE /\ ApplyLock(edits, edits \in RebuildClasses, edits \in RebuildClasses)
            /\ edits' = "same"
    /\ UNCHANGED <<objects, suppressed, wasScheduled, uploadAsked>>

\* apply() returns its status.
ApplyReturns ==
    /\ ApplyWrite
    /\ ~objects => empty'
    /\ update' = [update EXCEPT !.status = ui.status]
    /\ UNCHANGED <<calls, objects, edits, schedVars, uploadAsked>>

\* Mutant: an invalid print is restarted.
MutCallDecide ==
    /\ AtCall("decide")
    /\ \E valid, auto \in BOOLEAN :
        LET changed == update.status # "UNCHANGED"
            restart == changed /\ ~empty /\ auto
            invalid == (changed \/ update.force # "none") /\ ~empty /\ ~valid
            killed  == changed /\ update.running /\ ~IsRunning /\ ~restart
        IN  /\ queue' = IF killed
                        THEN Append(queue, [type |-> "Completed", outcome |-> "Cancelled",
                                            run |-> runs])
                        ELSE queue
            /\ Proceed(IF invalid /\ update.force = "export" THEN <<>> ELSE Tail(calls),
                       [update EXCEPT !.restart = restart, !.invalid = invalid])
    /\ UNCHANGED <<workerVars, printVars, outVars, task, taskState, ui, wk, runs,
                   objects, edits, schedVars, uploadAsked>>

\* The rest of update_background_process(): validate, report, and post the
\* completion event of a run that was killed and will not be restarted.  auto
\* is the preference background_processing_enabled().
CallDecide ==
    /\ AtCall("decide")
    /\ \E valid, auto \in BOOLEAN :
        LET changed == update.status # "UNCHANGED"
            restart == changed /\ ~empty /\ valid /\ auto
            invalid == (changed \/ update.force # "none") /\ ~empty /\ ~valid
            killed  == changed /\ update.running /\ ~IsRunning /\ ~restart
        IN  /\ queue' = IF killed
                        THEN Append(queue, [type |-> "Completed", outcome |-> "Cancelled",
                                            run |-> runs])
                        ELSE queue
            /\ Proceed(IF invalid /\ update.force = "export" THEN <<>> ELSE Tail(calls),
                       [update EXCEPT !.restart = restart, !.invalid = invalid])
    /\ UNCHANGED <<workerVars, printVars, outVars, task, taskState, ui, wk, runs,
                   objects, edits, schedVars, uploadAsked>>

\* schedule_export() or schedule_upload().
CallTarget ==
    /\ AtCall("target")
    /\ Schedule(update.upload)
    /\ uploadAsked' = (uploadAsked \/ update.upload)
    /\ Proceed(Tail(calls), update)
    /\ UNCHANGED <<objects, edits, schedVars>>

CallTask ==
    /\ AtCall("task")
    /\ IF SetTaskCancels THEN SetTask ELSE UNCHANGED vars
    /\ Proceed(Tail(calls), update)
    /\ UNCHANGED <<objects, edits, schedVars, uploadAsked>>

\* restart_background_process().
Wanted ==
    /\ ~empty /\ ~update.invalid
    /\ \/ update.force = "restart" /\ step[NSteps] # "Done"
       \/ update.force = "export"
       \/ update.restart

CallStart ==
    /\ AtCall("start")
    /\ \/ Wanted /\ StartLock
       \/ (~Wanted \/ UiJobs) /\ UNCHANGED vars
    /\ Proceed(Tail(calls), update)
    /\ UNCHANGED <<objects, edits, schedVars, uploadAsked>>

CallStop ==
    /\ \/ AtCall("stop") /\ StopLock("idle")
       \/ AtCall("reset") /\ StopLock("reset")
       \/ AtCall("exit") /\ StopLock("exit")
    /\ Proceed(Tail(calls), update)
    /\ UNCHANGED <<objects, edits, schedVars, uploadAsked>>

\* The model is emptied after reset(), and update() applies that at once or has
\* the timer do it.  Of what waited, a change of the settings may be left, and
\* the G-codes put in at layers go, too: for a print without objects any of it
\* is a change of the list of objects.
CallClear ==
    /\ AtCall("clear")
    /\ objects' = FALSE
    /\ edits' \in RebuildClasses \cup {"same"}
    /\ IF Sla THEN Proceed(UpdateRestart, update) /\ UNCHANGED schedVars
              ELSE Proceed(<<>>, update) /\ Arm
    /\ UNCHANGED <<vars, uploadAsked>>

CallResetExport ==
    /\ AtCall("reset_export")
    /\ IF IsRunning THEN UNCHANGED vars ELSE ResetExport
    /\ Proceed(Tail(calls), update)
    /\ UNCHANGED <<objects, edits, schedVars, uploadAsked>>

-----------------------------------------------------------------------------
(* Specification *)

PlaterInit ==
    /\ Init
    /\ calls = <<>> /\ update = NoUpdate
    /\ objects = FALSE /\ edits = "same" /\ uploadAsked = FALSE
    /\ timer = FALSE /\ suppressed = FALSE /\ wasScheduled = FALSE /\ overslept = FALSE

User ==
    \/ \E c \in Classes : Edit(c)
    \/ Reslice
    \/ \E upload \in BOOLEAN : ExportGcode(upload)
    \/ CancelButton
    \/ ResetProject
    \/ Close
    \/ Suppress \/ Resume

Handler ==
    \/ CallApply \/ ApplyReturns \/ CallDecide \/ CallTarget \/ CallTask \/ CallStart
    \/ CallStop \/ CallClear \/ CallResetExport
    \/ /\ UiStart \/ UiStop \/ UiStopInternal \/ UiReset \/ TaskFinished
          \/ ApplyInvalidate \/ ApplyResult \/ Unlock
       /\ UNCHANGED platerVars

\* An upload that is handed to the queue fulfils what the user asked for.
WorkerStep ==
    /\ Worker
    /\ uploadAsked' = (uploadAsked /\ ~(Export /\ uploadJob /\ ~exportPath))
    /\ UNCHANGED <<calls, update, objects, edits, schedVars>>

Closed == Terminated /\ UNCHANGED platerVars

PlaterNext ==
    User \/ TimerFires \/ Dispatch \/ Handler \/ WorkerStep \/ Closed

\* Handlers and the worker go on when they can, and posted events are dispatched
\* however often the user and the timer come first.  Nothing obliges the user.
PlaterSpec ==
    /\ PlaterInit /\ [][PlaterNext]_allVars
    /\ WF_allVars(Handler) /\ WF_allVars(WorkerStep) /\ SF_allVars(Dispatch)

-----------------------------------------------------------------------------
(* Properties *)

\* The assertions of schedule_export(), schedule_upload() and reset_export():
\* what the handler has checked or established still holds some calls later,
\* although the worker has run on meanwhile.
PlaterAssertions ==
    /\ AtCall("target") => ~exportPath
    /\ AtCall("reset_export") => ~IsRunning

\* A run that has ended is collected, by its completion event or by the next
\* apply(), so that start() is not refused forever.
EndedRunsAreCollected ==
    state \in {"FINISHED", "CANCELED"} ~> state \notin {"FINISHED", "CANCELED"}

\* The timer is armed, or will be again when the menu is closed.
WillWake == timer \/ (suppressed /\ wasScheduled)

\* Whatever handlers stop the timer, apply edits, clear the project, suppress the
\* updates and end that: an edit that waits has the timer armed, or gets it back
\* when the menu is closed.  There is one exception: an edit made while the updates
\* are suppressed whose timer goes off before the menu is closed is not applied
\* (Plater.cpp:2151), and nobody arms the timer again; it waits for the next edit
\* or command.
EditsAreScheduled == InLoop /\ edits # "same" => WillWake \/ overslept

\* "Set print host upload job data to be enqueued to the PrintHostJobQueue
\* after current print slicing is complete": of this slicing, not of a later
\* one, after the user was told that this one was canceled or has failed.
UploadIsAsked ==
    [][Export /\ uploadJob /\ ~exportPath => uploadAsked]_allVars
=============================================================================
