----------------------------- MODULE JobWorker -----------------------------
(***************************************************************************)
(* The worker of the UI jobs (arrange, emboss, SLA import, ...): a thread  *)
(* that runs the jobs the main thread queues, one after the other, and     *)
(* reports to it through a second queue.  Translated from                  *)
(* slic3r/GUI/Jobs/BoostThreadWorker.{hpp,cpp} and ThreadSafeQueue.hpp.    *)
(*                                                                         *)
(* Both queues lock for the instant of one operation, and the flags are    *)
(* atomic, so the steps of this module are single accesses to one of them: *)
(* is_idle() is three reads, cancel_all() two writes, and run() sets and   *)
(* clears m_running and m_canceled between other steps of the main thread. *)
(*                                                                         *)
(* The main thread is the most general client: from its event loop it may  *)
(* call any method.  Jobs do not call the worker back from finalize().     *)
(***************************************************************************)
EXTENDS Naturals, Sequences, SequencesExt

CONSTANTS
    MaxJobs,   \* bound: jobs the main thread ever queues
    MaxSent,   \* bound: messages one job sends while it is processed
    Untimed    \* TRUE: waits without a timeout are made, too

ASSUME JobWorkerAssumption ==
    /\ MaxJobs \in Nat \ {0}
    /\ MaxSent \in Nat
    /\ Untimed \in BOOLEAN

VARIABLES
    input,      \* m_input_queue: the jobs, oldest first
    output,     \* m_output_queue: the messages, oldest first
    running,    \* m_running
    canceled,   \* m_canceled
    wk,         \* control of the worker thread
    ui,         \* control of the main thread
    promise,    \* of the last call_on_main_thread() that a job waits for
    pushed,     \* how many jobs were queued
    dropped,    \* history: jobs cancel_all() has deleted
    asked,      \* history: jobs that were asked to cancel while current
    finalized   \* history: jobs finalize() was called for, in that order

queues  == <<input, output>>
flags   == <<running, canceled>>
history == <<dropped, asked, finalized>>
vars == <<queues, flags, wk, ui, promise, pushed, history>>

-----------------------------------------------------------------------------

Jobs == 1 .. MaxJobs

\* JobEntry{nullptr}, which ends the thread.
Poison == 0

Entry == Jobs \cup {Poison}

Finalize == [type : {"Finalize"}, job : Jobs, canceled : BOOLEAN, failed : BOOLEAN]
Message == [type : {"Status", "MainThreadCall"}] \cup Finalize

\* What is_idle() is asked for: by itself, or as a part of a wait.
Purpose == {"ask", "job", "all", "close"}

TypeOK ==
    /\ input \in Seq(Entry)
    /\ output \in Seq(Message)
    /\ running \in BOOLEAN
    /\ canceled \in BOOLEAN
    /\ wk \in [pc : {"wait", "popped", "process", "call", "ended", "pushed", "exited"},
               job : Entry, sent : 0 .. MaxSent, failed : BOOLEAN]
    /\ ui \in [pc : {"loop", "events", "cancel", "idle.input", "idle.running",
                     "idle.output", "dormant", "wait", "close", "join", "gone"},
               for : Purpose, timed : BOOLEAN]
    /\ promise \in {"none", "pending", "set"}
    /\ pushed \in 0 .. MaxJobs
    /\ dropped \subseteq Jobs
    /\ asked \subseteq Jobs
    /\ finalized \in Seq(Jobs)

UiGoto(pc) == ui' = [ui EXCEPT !.pc = pc]

UiLoop == ui' = [pc |-> "loop", for |-> "ask", timed |-> TRUE]

WkGoto(pc) == wk' = [wk EXCEPT !.pc = pc]

\* The job that was taken from the queue and has not returned yet.
Current == IF wk.pc \in {"popped", "process", "call", "ended"} THEN {wk.job} \ {Poison}
           ELSE {}

-----------------------------------------------------------------------------
(* Worker thread: run() *)

\* Mutant: the entry stays in the queue.
MutPop ==
    /\ wk.pc = "wait" /\ input # <<>>
    /\ running' = TRUE
    /\ wk' = [pc |-> "popped", job |-> Head(input), sent |-> 0, failed |-> FALSE]
    /\ UNCHANGED <<queues, canceled, ui, promise, pushed, history>>

\* consume_one() sets m_running under the lock of the queue.
Pop ==
    /\ wk.pc = "wait" /\ input # <<>>
    /\ input' = Tail(input)
    /\ running' = TRUE
    /\ wk' = [pc |-> "popped", job |-> Head(input), sent |-> 0, failed |-> FALSE]
    /\ UNCHANGED <<output, canceled, ui, promise, pushed, history>>

\* Mutant: the flag of the last job is not cleared.
MutBegin ==
    /\ wk.pc = "popped" /\ wk.job # Poison
    /\ WkGoto("process")
    /\ UNCHANGED <<queues, flags, ui, promise, pushed, history>>

Begin ==
    /\ wk.pc = "popped" /\ wk.job # Poison
    /\ canceled' = FALSE
    /\ WkGoto("process")
    /\ UNCHANGED <<queues, running, ui, promise, pushed, history>>

Exit ==
    /\ wk.pc = "popped" /\ wk.job = Poison
    /\ running' = FALSE
    /\ WkGoto("exited")
    /\ UNCHANGED <<queues, canceled, ui, promise, pushed, history>>

\* update_status(), or a call to the main thread the job does not wait for.
Report ==
    /\ wk.pc = "process" /\ wk.sent < MaxSent
    /\ output' = Append(output, [type |-> "Status"])
    /\ wk' = [wk EXCEPT !.sent = @ + 1]
    /\ UNCHANGED <<input, flags, ui, promise, pushed, history>>

\* call_on_main_thread(...).wait().
CallOnMainThread ==
    /\ wk.pc = "process" /\ wk.sent < MaxSent
    /\ output' = Append(output, [type |-> "MainThreadCall"])
    /\ promise' = "pending"
    /\ wk' = [wk EXCEPT !.sent = @ + 1, !.pc = "call"]
    /\ UNCHANGED <<input, flags, ui, pushed, history>>

CallReturns ==
    /\ wk.pc = "call" /\ promise = "set"
    /\ promise' = "none"
    /\ WkGoto("process")
    /\ UNCHANGED <<queues, flags, ui, pushed, history>>

\* process() returns, done or because it was canceled, or throws.
ProcessEnds ==
    /\ wk.pc = "process"
    /\ \E failed \in BOOLEAN : wk' = [wk EXCEPT !.pc = "ended", !.failed = failed]
    /\ UNCHANGED <<queues, flags, ui, promise, pushed, history>>

\* Mutant: the exception takes the finalization message with it.
MutPushFinalize ==
    /\ wk.pc = "ended"
    /\ output' = IF wk.failed THEN output
                 ELSE Append(output, [type |-> "Finalize", job |-> wk.job,
                                      canceled |-> canceled, failed |-> wk.failed])
    /\ WkGoto("pushed")
    /\ UNCHANGED <<input, flags, ui, promise, pushed, history>>

PushFinalize ==
    /\ wk.pc = "ended"
    /\ output' = Append(output, [type |-> "Finalize", job |-> wk.job,
                                 canceled |-> canceled, failed |-> wk.failed])
    /\ WkGoto("pushed")
    /\ UNCHANGED <<input, flags, ui, promise, pushed, history>>

NotRunning ==
    /\ wk.pc = "pushed"
    /\ running' = FALSE
    /\ WkGoto("wait")
    /\ UNCHANGED <<queues, canceled, ui, promise, pushed, history>>

-----------------------------------------------------------------------------
(* Main thread: push(), cancel(), cancel_all() *)

Push ==
    /\ ui.pc = "loop" /\ pushed < MaxJobs
    /\ input' = Append(input, pushed + 1)
    /\ pushed' = pushed + 1
    /\ UNCHANGED <<output, flags, wk, ui, promise, history>>

SetCanceled ==
    /\ canceled' = TRUE
    /\ asked' = asked \cup Current

Cancel ==
    /\ ui.pc = "loop"
    /\ SetCanceled
    /\ UNCHANGED <<queues, running, wk, ui, promise, pushed, dropped, finalized>>

\* cancel_all(), alone, followed by wait_for_idle() in stop_queue(), or as the
\* first step of the destructor.
CancelAll(for, timed) ==
    /\ ui.pc = "loop"
    /\ input' = <<>>
    /\ dropped' = dropped \cup Range(input)
    /\ ui' = [pc |-> "cancel", for |-> for, timed |-> timed]
    /\ UNCHANGED <<output, flags, wk, promise, pushed, asked, finalized>>

CancelAllEnds ==
    /\ ui.pc = "cancel"
    /\ SetCanceled
    /\ UiGoto(IF ui.for = "ask" THEN "loop" ELSE "idle.input")
    /\ UNCHANGED <<queues, running, wk, promise, pushed, dropped, finalized>>

-----------------------------------------------------------------------------
(* Main thread: is_idle() *)

\* is_idle(), wait_for_current_job() or wait_for_idle() is called.
AskIdle(for, timed) ==
    /\ ui.pc = "loop"
    /\ ui' = [pc |-> "idle.input", for |-> for, timed |-> timed]
    /\ UNCHANGED <<queues, flags, wk, promise, pushed, history>>

\* Not idle: a wait goes on to wait for a message.
NotIdle == IF ui.for = "ask" THEN UiLoop ELSE UiGoto("wait")

\* Mutant: the output queue is looked at first.
MutReadIdle ==
    /\ \/ ui.pc = "idle.input" /\ (IF output = <<>> THEN UiGoto("idle.running") ELSE NotIdle)
       \/ ui.pc = "idle.running" /\ (IF ~running THEN UiGoto("idle.output") ELSE NotIdle)
       \/ ui.pc = "idle.output" /\ (IF input = <<>> THEN UiGoto("dormant") ELSE NotIdle)
    /\ UNCHANGED <<queues, flags, wk, promise, pushed, history>>

ReadIdle ==
    /\ \/ ui.pc = "idle.input" /\ (IF input = <<>> THEN UiGoto("idle.running") ELSE NotIdle)
       \/ ui.pc = "idle.running" /\ (IF ~running THEN UiGoto("idle.output") ELSE NotIdle)
       \/ ui.pc = "idle.output" /\ (IF output = <<>> THEN UiGoto("dormant") ELSE NotIdle)
    /\ UNCHANGED <<queues, flags, wk, promise, pushed, history>>

\* is_idle() returned true, and with it the wait.
Dormant ==
    /\ ui.pc = "dormant"
    /\ IF ui.for = "close" THEN UiGoto("close") ELSE UiLoop
    /\ UNCHANGED <<queues, flags, wk, promise, pushed, history>>

-----------------------------------------------------------------------------
(* Main thread: process_events(), wait_for_current_job(), wait_for_idle() *)

\* deliver() of the oldest message.
Deliver(m) ==
    /\ output' = Tail(output)
    /\ promise' = IF m.type = "MainThreadCall" /\ promise = "pending" THEN "set" ELSE promise
    /\ finalized' = IF m.type = "Finalize" THEN Append(finalized, m.job) ELSE finalized
    /\ UNCHANGED <<input, flags, wk, pushed, dropped, asked>>

\* finalize() may leave the exception of the job to be rethrown.
Rethrows(m) == m.type = "Finalize" /\ m.failed

ProcessEvents ==
    /\ ui.pc = "loop" /\ output # <<>>
    /\ UiGoto("events")
    /\ UNCHANGED <<queues, flags, wk, promise, pushed, history>>

EventDelivered ==
    /\ ui.pc = "events"
    /\ IF output = <<>>
       THEN UiLoop /\ UNCHANGED <<queues, flags, wk, promise, pushed, history>>
       ELSE /\ Deliver(Head(output))
            /\ \/ ui' = ui
               \/ Rethrows(Head(output)) /\ UiLoop

\* A message ends wait_for_current_job() if it is the finalization of a job;
\* wait_for_idle() looks again whether the worker is idle.
WaitDelivers ==
    /\ ui.pc = "wait" /\ output # <<>>
    /\ LET m == Head(output)
       IN  /\ Deliver(m)
           /\ \/ IF ui.for # "job" THEN UiGoto("idle.input")
                 ELSE IF m.type = "Finalize" THEN UiLoop ELSE ui' = ui
              \/ /\ Rethrows(m)
                 /\ IF ui.for = "close" THEN UiGoto("gone") ELSE UiLoop

WaitTimesOut ==
    /\ ui.pc = "wait" /\ ui.timed /\ output = <<>>
    /\ IF ui.for = "close" THEN UiGoto("close") ELSE UiLoop
    /\ UNCHANGED <<queues, flags, wk, promise, pushed, history>>

-----------------------------------------------------------------------------
(* Main thread: the destructor, once it has waited *)

PushPoison ==
    /\ ui.pc = "close"
    /\ input' = Append(input, Poison)
    /\ UiGoto("join")
    /\ UNCHANGED <<output, flags, wk, promise, pushed, history>>

\* Mutant: join() without a timeout.
MutJoin ==
    /\ ui.pc = "join" /\ wk.pc = "exited"
    /\ UiGoto("gone")
    /\ UNCHANGED <<queues, flags, wk, promise, pushed, history>>

\* join() returns when the thread has ended, or gives up.
Join ==
    /\ ui.pc = "join"
    /\ UiGoto("gone")
    /\ UNCHANGED <<queues, flags, wk, promise, pushed, history>>

-----------------------------------------------------------------------------
(* Specification *)

Init ==
    /\ input = <<>> /\ output = <<>>
    /\ running = FALSE /\ canceled = FALSE
    /\ wk = [pc |-> "wait", job |-> Poison, sent |-> 0, failed |-> FALSE]
    /\ ui = [pc |-> "loop", for |-> "ask", timed |-> TRUE]
    /\ promise = "none"
    /\ pushed = 0
    /\ dropped = {} /\ asked = {} /\ finalized = <<>>

\* A worker that could not be joined has lost its object.
Worker ==
    /\ ui.pc # "gone"
    /\ \/ Pop \/ Begin \/ Exit \/ Report \/ CallOnMainThread \/ CallReturns
       \/ ProcessEnds \/ PushFinalize \/ NotRunning

\* A timeout of 0 means none; the destructor has one.
Timed == IF Untimed THEN BOOLEAN ELSE {TRUE}

Call ==
    \/ Push
    \/ Cancel
    \/ \E for \in {"ask", "close"} : CancelAll(for, TRUE)
    \/ \E timed \in Timed : CancelAll("all", timed)
    \/ AskIdle("ask", TRUE)
    \/ \E for \in {"job", "all"}, timed \in Timed : AskIdle(for, timed)

InCall ==
    \/ CancelAllEnds \/ ReadIdle \/ Dormant \/ EventDelivered \/ WaitDelivers
    \/ WaitTimesOut \/ PushPoison \/ Join

Terminated == ui.pc = "gone" /\ UNCHANGED vars

Next == Worker \/ Call \/ ProcessEvents \/ InCall \/ Terminated

\* Jobs end, calls go on, and the idle handler of the window is called now and
\* then, whatever else the event loop has to do.
Spec ==
    /\ Init /\ [][Next]_vars
    /\ WF_vars(Worker) /\ WF_vars(InCall) /\ SF_vars(ProcessEvents)

-----------------------------------------------------------------------------
(* Properties *)

\* "We can safely say that the worker is dormant": although is_idle() reads
\* the queues and the flag one after the other while the worker goes on.
IdleIsDormant ==
    ui.pc = "dormant" => input = <<>> /\ output = <<>> /\ wk.pc = "wait"

\* The jobs among the entries of the input queue, and those that messages of
\* the output queue finalize, by their place in the queue.
Queued(q) == [i \in {k \in DOMAIN q : q[k] # Poison} |-> q[i]]
Ended(q) == [i \in {k \in DOMAIN q : q[k].type = "Finalize"} |-> q[i].job]

Increasing(f) == \A i, j \in DOMAIN f : i < j => f[i] < f[j]
Below(S, T) == \A s \in S, t \in T : s < t

\* Every job that was queued is deleted by cancel_all() or finalized, once and
\* in the order of push(), whether or not it fails or is canceled: it is in one
\* place at a time, and never overtakes another one.
JobsAreKept ==
    LET done == Range(finalized)
        ended == Range(Ended(output))
        waiting == Range(Queued(input))
        kept == done \cup ended \cup Current \cup waiting
    IN  /\ Increasing(finalized) /\ Increasing(Ended(output)) /\ Increasing(Queued(input))
        /\ Below(done, ended \cup Current \cup waiting)
        /\ Below(ended, Current \cup waiting)
        /\ Below(Current, waiting)
        /\ kept \cup dropped = 1 .. pushed
        /\ kept \cap dropped = {}

\* finalize(canceled = true) is only ever called for a job that was asked to
\* cancel, never for one that inherits the request of an earlier one.
CancelIsNotInherited ==
    \A i \in DOMAIN output :
        output[i].type = "Finalize" /\ output[i].canceled => output[i].job \in asked

\* A job waiting for the main thread does not keep the destructor waiting.
DestructorReturns == ui.for = "close" ~> ui.pc = "gone"

\* Every job is finalized or deleted in the end, as long as the window lives.
JobsAreFinalized ==
    \A j \in Jobs :
        j \in 1 .. pushed ~> j \in dropped \cup Range(finalized) \/ ui.pc = "gone"
=============================================================================
