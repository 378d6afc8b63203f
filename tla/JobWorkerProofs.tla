--------------------------- MODULE JobWorkerProofs ---------------------------
(***************************************************************************)
(* Proofs that a worker of UI jobs that is found idle is dormant, that no  *)
(* job is finalized as canceled on behalf of another one, and that every   *)
(* job is in one place, in the order of push(), for any number of jobs and *)
(* messages.                                                               *)
(***************************************************************************)
EXTENDS JobWorker, TLAPS

\* m_running and the queues say where the worker is, once the poison pill is
\* known to be the last entry and to be pushed by the destructor only.
WorkerInv ==
    /\ running <=> wk.pc \notin {"wait", "exited"}
    /\ wk.pc \in {"process", "call", "ended"} => wk.job \in Jobs
    /\ ui.pc \notin {"join", "gone"} =>
          /\ wk.pc # "exited"
          /\ wk.pc = "popped" => wk.job # Poison
          /\ \A i \in DOMAIN input : input[i] # Poison

\* What the reads of is_idle() have established so far: while the main thread
\* asks, nobody fills the input queue, and a worker without work stays so.
IdleInv ==
    /\ ui.pc \in {"idle.running", "idle.output", "dormant"} => input = <<>>
    /\ ui.pc \in {"idle.output", "dormant"} => wk.pc = "wait"
    /\ ui.pc = "dormant" => output = <<>>

\* m_canceled was cleared for this job, so a set one was set for it.
CancelInv ==
    /\ wk.pc \in {"process", "call", "ended"} /\ canceled => wk.job \in asked
    /\ CancelIsNotInherited

IInv == TypeOK /\ WorkerInv /\ IdleInv /\ CancelInv

-----------------------------------------------------------------------------

\* What a queue that is read at its front leaves, and what one that is
\* appended to gains.
LEMMA TailKeeps ==
    ASSUME NEW S, NEW q \in Seq(S), q # <<>>
    PROVE  /\ Tail(q) \in Seq(S) /\ Head(q) \in S /\ Head(q) = q[1] /\ 1 \in DOMAIN q
           /\ \A i \in DOMAIN Tail(q) : i + 1 \in DOMAIN q /\ Tail(q)[i] = q[i + 1]
  OBVIOUS

LEMMA AppendAdds ==
    ASSUME NEW S, NEW q \in Seq(S), NEW e \in S
    PROVE  /\ Append(q, e) \in Seq(S)
           /\ \A i \in DOMAIN Append(q, e) :
                 (i \in DOMAIN q /\ Append(q, e)[i] = q[i]) \/ Append(q, e)[i] = e
  OBVIOUS

\* A message that inherits no request leaves none that does in the queue.
LEMMA Sent ==
    ASSUME TypeOK, CancelIsNotInherited, NEW m \in Message,
           m.type = "Finalize" /\ m.canceled => m.job \in asked,
           output' = Append(output, m), asked' = asked
    PROVE  output' \in Seq(Message) /\ CancelIsNotInherited'
<1>1. output \in Seq(Message)
  BY DEF TypeOK
<1>2. /\ Append(output, m) \in Seq(Message)
      /\ \A i \in DOMAIN Append(output, m) :
            (i \in DOMAIN output /\ Append(output, m)[i] = output[i]) \/ Append(output, m)[i] = m
  BY <1>1, AppendAdds
<1> QED
  BY <1>2 DEF CancelIsNotInherited

\* A message that stays keeps the request it was sent with.
LEMMA Unsent ==
    ASSUME TypeOK, CancelIsNotInherited, UNCHANGED output, asked \subseteq asked'
    PROVE  output' \in Seq(Message) /\ CancelIsNotInherited'
BY DEF TypeOK, CancelIsNotInherited

\* The steps of the worker thread, run().
LEMMA WorkerStep == IInv /\ Worker => IInv'
<1> SUFFICES ASSUME IInv, Worker PROVE IInv'
  OBVIOUS
<1>0. TypeOK /\ CancelIsNotInherited
  BY DEF IInv, CancelInv
<1> DEFINE Rest ==
       /\ input' \in Seq(Entry) /\ running' \in BOOLEAN /\ canceled' \in BOOLEAN
       /\ wk' \in [pc : {"wait", "popped", "process", "call", "ended", "pushed", "exited"},
                   job : Entry, sent : 0 .. MaxSent, failed : BOOLEAN]
       /\ promise' \in {"none", "pending", "set"}
       /\ UNCHANGED <<ui, pushed, history>>
       /\ WorkerInv' /\ IdleInv'
       /\ (wk.pc \in {"process", "call", "ended"} /\ canceled => wk.job \in asked)'
<1> SUFFICES Rest /\ output' \in Seq(Message) /\ CancelIsNotInherited'
  BY DEF IInv, TypeOK, CancelInv, history
<1> USE JobWorkerAssumption DEF IInv, TypeOK, WorkerInv, IdleInv, CancelInv, 
        Jobs, Poison, Entry, queues, flags, history, WkGoto
<1>1. CASE Pop
  <2>1. /\ Tail(input) \in Seq(Entry) /\ Head(input) \in Entry
        /\ Head(input) = input[1] /\ 1 \in DOMAIN input
        /\ \A i \in DOMAIN Tail(input) : i + 1 \in DOMAIN input /\ Tail(input)[i] = input[i + 1]
    BY <1>1, TailKeeps DEF Pop
  <2>2. Rest
    BY <1>1, <2>1 DEF Pop
  <2> QED
    BY <1>0, <1>1, <2>2, Unsent DEF Pop
<1>2. CASE Begin
  <2>1. Rest
    BY <1>2 DEF Begin
  <2> QED
    BY <1>0, <1>2, <2>1, Unsent DEF Begin
<1>3. CASE Exit
  <2>1. Rest
    BY <1>3 DEF Exit
  <2> QED
    BY <1>0, <1>3, <2>1, Unsent DEF Exit
<1>4. CASE Report
  <2> DEFINE m == [type |-> "Status"]
  <2>1. m \in Message /\ (m.type = "Finalize" /\ m.canceled => m.job \in asked)
    BY <1>4 DEF Report, Message
  <2>2. Rest
    <3>1. wk.sent + 1 \in 0 .. MaxSent /\ wk.job \in Entry /\ wk.pc = "process" /\ wk.failed \in BOOLEAN
      BY <1>4 DEF Report
    <3>2. /\ wk' = [pc |-> "process", job |-> wk.job, sent |-> wk.sent + 1, failed |-> wk.failed]
      BY <1>4 DEF Report
    <3> QED
      BY <1>4, <3>1, <3>2 DEF Report
  <2> QED
    BY <1>0, <1>4, <2>1, <2>2, Sent DEF Report
<1>5. CASE CallOnMainThread
  <2> DEFINE m == [type |-> "MainThreadCall"]
  <2>1. m \in Message /\ (m.type = "Finalize" /\ m.canceled => m.job \in asked)
    BY <1>5 DEF CallOnMainThread, Message
  <2>2. Rest
    <3>1. wk.sent + 1 \in 0 .. MaxSent /\ wk.job \in Entry /\ wk.pc = "process" /\ wk.failed \in BOOLEAN
      BY <1>5 DEF CallOnMainThread
    <3>2. /\ wk' = [pc |-> "call", job |-> wk.job, sent |-> wk.sent + 1, failed |-> wk.failed]
      BY <1>5 DEF CallOnMainThread
    <3> QED
      BY <1>5, <3>1, <3>2 DEF CallOnMainThread
  <2> QED
    BY <1>0, <1>5, <2>1, <2>2, Sent DEF CallOnMainThread
<1>6. CASE CallReturns
  <2>1. Rest
    BY <1>6 DEF CallReturns
  <2> QED
    BY <1>0, <1>6, <2>1, Unsent DEF CallReturns
<1>7. CASE ProcessEnds
  <2>1. Rest
    BY <1>7 DEF ProcessEnds
  <2> QED
    BY <1>0, <1>7, <2>1, Unsent DEF ProcessEnds
<1>8. CASE PushFinalize
  <2> DEFINE m == [type |-> "Finalize", job |-> wk.job,
              canceled |-> canceled, failed |-> wk.failed]
  <2>1. m \in Message /\ (m.type = "Finalize" /\ m.canceled => m.job \in asked)
    BY <1>8 DEF PushFinalize, Message, Finalize
  <2>2. Rest
    BY <1>8 DEF PushFinalize
  <2> QED
    BY <1>0, <1>8, <2>1, <2>2, Sent DEF PushFinalize
<1>9. CASE NotRunning
  <2>1. Rest
    BY <1>9 DEF NotRunning
  <2> QED
    BY <1>0, <1>9, <2>1, Unsent DEF NotRunning
<1> QED
  BY <1>1, <1>2, <1>3, <1>4, <1>5, <1>6, <1>7, <1>8, <1>9 DEF Worker

\* The main thread takes the oldest message.
LEMMA Delivered ==
    ASSUME TypeOK, CancelIsNotInherited, output # <<>>, Deliver(Head(output))
    PROVE  /\ output' \in Seq(Message) /\ CancelIsNotInherited'
           /\ promise' \in {"none", "pending", "set"} /\ finalized' \in Seq(Jobs)
<1> DEFINE m == Head(output)
<1>1. output \in Seq(Message) /\ finalized \in Seq(Jobs) /\ promise \in {"none", "pending", "set"}
  BY DEF TypeOK
<1>2. /\ Tail(output) \in Seq(Message) /\ m \in Message
      /\ \A i \in DOMAIN Tail(output) : i + 1 \in DOMAIN output /\ Tail(output)[i] = output[i + 1]
  BY <1>1, TailKeeps
<1>3. output' \in Seq(Message) /\ CancelIsNotInherited'
  BY <1>2 DEF Deliver, CancelIsNotInherited
<1>4. m.type = "Finalize" => m.job \in Jobs
  BY <1>2 DEF Message, Finalize
<1>5. finalized' \in Seq(Jobs)
  <2> HIDE DEF m
  <2>1. CASE m.type = "Finalize"
    BY <1>1, <1>4, <2>1 DEF Deliver, m
  <2>2. CASE m.type # "Finalize"
    BY <1>1, <2>2 DEF Deliver, m
  <2> QED
    BY <2>1, <2>2
<1>6. promise' \in {"none", "pending", "set"}
  BY <1>1 DEF Deliver
<1> QED
  BY <1>3, <1>5, <1>6

UiPc == {"loop", "events", "cancel", "idle.input", "idle.running", "idle.output",
         "dormant", "wait", "close", "join", "gone"}

\* How the main thread gets on.
LEMMA Goto ==
    ASSUME TypeOK
    PROVE  /\ \A pc \in UiPc : UiGoto(pc) => ui'.pc = pc /\ ui' \in [pc : UiPc, for : Purpose, timed : BOOLEAN]
           /\ UiLoop => ui'.pc = "loop" /\ ui' \in [pc : UiPc, for : Purpose, timed : BOOLEAN]
<1>1. ui \in [pc : UiPc, for : Purpose, timed : BOOLEAN]
  BY DEF TypeOK, UiPc
<1>2. \A pc \in UiPc : UiGoto(pc) => ui'.pc = pc /\ ui' \in [pc : UiPc, for : Purpose, timed : BOOLEAN]
  BY <1>1 DEF UiGoto
<1>3. UiLoop => ui'.pc = "loop" /\ ui' \in [pc : UiPc, for : Purpose, timed : BOOLEAN]
  BY DEF UiLoop, UiPc, Purpose
<1> QED
  BY <1>2, <1>3

\* The steps of the main thread.
LEMMA MainStep == IInv /\ (Call \/ ProcessEvents \/ InCall) => IInv'
<1> SUFFICES ASSUME IInv, Call \/ ProcessEvents \/ InCall PROVE IInv'
  OBVIOUS
<1>0. TypeOK /\ CancelIsNotInherited
  BY DEF IInv, CancelInv
<1> DEFINE Queues ==
       /\ input' \in Seq(Entry) /\ pushed' \in 0 .. MaxJobs
       /\ dropped' \subseteq Jobs
    Request ==
       /\ canceled' \in BOOLEAN /\ asked' \subseteq Jobs /\ asked \subseteq asked'
       /\ (wk.pc \in {"process", "call", "ended"} /\ canceled => wk.job \in asked)'
    Control ==
       /\ ui' \in [pc : UiPc, for : Purpose, timed : BOOLEAN]
       /\ UNCHANGED <<running, wk>> /\ WorkerInv' /\ IdleInv'
    Messages ==
       /\ output' \in Seq(Message) /\ CancelIsNotInherited'
       /\ promise' \in {"none", "pending", "set"} /\ finalized' \in Seq(Jobs)
<1>1. SUFFICES Queues /\ Request /\ Control /\ Messages
  BY DEF IInv, TypeOK, CancelInv, UiPc
<1>g. /\ \A pc \in UiPc : UiGoto(pc) => ui'.pc = pc /\ ui' \in [pc : UiPc, for : Purpose, timed : BOOLEAN]
      /\ UiLoop => ui'.pc = "loop" /\ ui' \in [pc : UiPc, for : Purpose, timed : BOOLEAN]
  BY <1>0, Goto
<1>t. ui \in [pc : UiPc, for : Purpose, timed : BOOLEAN]
  BY <1>0 DEF TypeOK, UiPc
<1> USE JobWorkerAssumption DEF IInv, TypeOK, WorkerInv, IdleInv, CancelInv, Jobs, Poison, Entry, 
        queues, flags, history
<1>2. CASE Push
  <2>0. /\ pushed + 1 \in Entry /\ pushed + 1 # Poison /\ Append(input, pushed + 1) \in Seq(Entry)
        /\ \A i \in DOMAIN Append(input, pushed + 1) :
              (i \in DOMAIN input /\ Append(input, pushed + 1)[i] = input[i])
              \/ Append(input, pushed + 1)[i] = pushed + 1
    BY <1>2, AppendAdds DEF Push
  <2>1. Queues
    BY <1>2, <2>0 DEF Push
  <2>2. Request
    BY <1>2 DEF Push
  <2>3. Control
    BY <1>2, <2>0, <1>g, <1>t DEF Push, UiPc
  <2>4. Messages
    BY <1>0, <1>2, <2>2, Unsent DEF Push
  <2> QED
    BY <2>1, <2>2, <2>3, <2>4
<1>3. CASE Cancel
  <2>0. Current \subseteq Jobs /\ (wk.pc \in {"process", "call", "ended"} => wk.job \in Current)
    BY DEF Current
  <2>1. Queues
    BY <1>3 DEF Cancel, SetCanceled
  <2>2. Request
    BY <1>3, <2>0 DEF Cancel, SetCanceled
  <2>3. Control
    BY <1>3, <1>g, <1>t DEF Cancel, SetCanceled, UiPc
  <2>4. Messages
    BY <1>0, <1>3, <2>2, Unsent DEF Cancel, SetCanceled
  <2> QED
    BY <2>1, <2>2, <2>3, <2>4
<1>4. CASE \E for \in Purpose, timed \in BOOLEAN : CancelAll(for, timed)
  <2>0. dropped \cup Range(input) \subseteq Jobs
    <3>1. \A i \in DOMAIN input : input[i] \in Jobs
      <4>1. \A i \in DOMAIN input : input[i] # Poison
        BY <1>4 DEF CancelAll
      <4> QED
        BY <1>0, <4>1 DEF TypeOK
    <3>2. Range(input) = {input[i] : i \in DOMAIN input}
      BY Zenon DEF Range
    <3>3. \A e \in Range(input) : e \in Jobs
      BY <3>1, <3>2
    <3> QED
      BY <1>0, <3>3 DEF TypeOK
  <2>1. Queues
    BY <1>4, <2>0 DEF CancelAll
  <2>2. Request
    BY <1>4 DEF CancelAll
  <2>3. Control
    BY <1>4, <1>g, <1>t DEF CancelAll, UiPc
  <2>4. Messages
    BY <1>0, <1>4, <2>2, Unsent DEF CancelAll
  <2> QED
    BY <2>1, <2>2, <2>3, <2>4
<1>5. CASE CancelAllEnds
  <2>0. Current \subseteq Jobs /\ (wk.pc \in {"process", "call", "ended"} => wk.job \in Current)
    BY DEF Current
  <2>1. Queues
    BY <1>5 DEF CancelAllEnds, SetCanceled
  <2>2. Request
    BY <1>5, <2>0 DEF CancelAllEnds, SetCanceled
  <2>3. Control
    BY <1>5, <1>g, <1>t DEF CancelAllEnds, SetCanceled, UiPc
  <2>4. Messages
    BY <1>0, <1>5, <2>2, Unsent DEF CancelAllEnds, SetCanceled
  <2> QED
    BY <2>1, <2>2, <2>3, <2>4
<1>6. CASE \E for \in Purpose, timed \in BOOLEAN : AskIdle(for, timed)
  <2>1. Queues
    BY <1>6 DEF AskIdle
  <2>2. Request
    BY <1>6 DEF AskIdle
  <2>3. Control
    BY <1>6, <1>g, <1>t DEF AskIdle, UiPc
  <2>4. Messages
    BY <1>0, <1>6, <2>2, Unsent DEF AskIdle
  <2> QED
    BY <2>1, <2>2, <2>3, <2>4
<1>7. CASE ReadIdle
  <2>1. Queues
    BY <1>7 DEF ReadIdle, NotIdle
  <2>2. Request
    BY <1>7 DEF ReadIdle, NotIdle
  <2>3. Control
    BY <1>7, <1>g, <1>t DEF ReadIdle, NotIdle, UiPc
  <2>4. Messages
    BY <1>0, <1>7, <2>2, Unsent DEF ReadIdle, NotIdle
  <2> QED
    BY <2>1, <2>2, <2>3, <2>4
<1>8. CASE Dormant
  <2>1. Queues
    BY <1>8 DEF Dormant
  <2>2. Request
    BY <1>8 DEF Dormant
  <2>3. Control
    BY <1>8, <1>g, <1>t DEF Dormant, UiPc
  <2>4. Messages
    BY <1>0, <1>8, <2>2, Unsent DEF Dormant
  <2> QED
    BY <2>1, <2>2, <2>3, <2>4
<1>9. CASE ProcessEvents
  <2>1. Queues
    BY <1>9 DEF ProcessEvents
  <2>2. Request
    BY <1>9 DEF ProcessEvents
  <2>3. Control
    BY <1>9, <1>g, <1>t DEF ProcessEvents, UiPc
  <2>4. Messages
    BY <1>0, <1>9, <2>2, Unsent DEF ProcessEvents
  <2> QED
    BY <2>1, <2>2, <2>3, <2>4
<1>10. CASE EventDelivered
  <2>1. CASE output = <<>>
    <3>0. UiLoop /\ UNCHANGED <<queues, flags, wk, promise, pushed, history>>
      BY <1>10, <2>1 DEF EventDelivered
    <3>1. Queues /\ Request
      BY <3>0
    <3>2. Control
      <4>1. ui'.pc = "loop" /\ ui' \in [pc : UiPc, for : Purpose, timed : BOOLEAN]
        BY <3>0, <1>g
      <4>2. running' = running /\ wk' = wk /\ input' = input /\ ui.pc = "events"
        BY <1>10, <3>0 DEF EventDelivered
      <4> QED
        BY <4>1, <4>2
    <3>3. Messages
      BY <1>0, <3>0, Unsent
    <3> QED
      BY <3>1, <3>2, <3>3
  <2>2. CASE output # <<>>
    <3>0. Deliver(Head(output))
      BY <1>10, <2>2 DEF EventDelivered
    <3>1. Queues /\ Request
      BY <3>0 DEF Deliver
    <3>2. Control
      BY <1>10, <2>2, <3>0, <1>g, <1>t DEF EventDelivered, Deliver, UiPc
    <3>3. Messages
      BY <1>0, <2>2, <3>0, Delivered
    <3> QED
      BY <3>1, <3>2, <3>3
  <2> QED
    BY <2>1, <2>2
<1>11. CASE WaitDelivers
  <2>1. output # <<>> /\ Deliver(Head(output))
    BY <1>11 DEF WaitDelivers
  <2>2. Queues /\ Request
    BY <2>1 DEF Deliver
  <2>3. Control
    <3>1. \/ \E pc \in {"idle.input", "gone"} : UiGoto(pc)
          \/ UiLoop \/ ui' = ui
      BY <1>11 DEF WaitDelivers
    <3>2. ui.pc = "wait"
      BY <1>11 DEF WaitDelivers
    <3> QED
      BY <2>1, <3>1, <3>2, <1>g, <1>t DEF Deliver, UiPc
  <2>4. Messages
    BY <1>0, <2>1, Delivered
  <2> QED
    BY <2>2, <2>3, <2>4
<1>12. CASE WaitTimesOut
  <2>1. Queues
    BY <1>12 DEF WaitTimesOut
  <2>2. Request
    BY <1>12 DEF WaitTimesOut
  <2>3. Control
    BY <1>12, <1>g, <1>t DEF WaitTimesOut, UiPc
  <2>4. Messages
    BY <1>0, <1>12, <2>2, Unsent DEF WaitTimesOut
  <2> QED
    BY <2>1, <2>2, <2>3, <2>4
<1>14. CASE PushPoison
  <2>0. /\ Poison \in Entry /\ Append(input, Poison) \in Seq(Entry)
        /\ \A i \in DOMAIN Append(input, Poison) :
              (i \in DOMAIN input /\ Append(input, Poison)[i] = input[i])
              \/ Append(input, Poison)[i] = Poison
    BY <1>14, AppendAdds DEF PushPoison
  <2>1. Queues
    BY <1>14, <2>0 DEF PushPoison
  <2>2. Request
    BY <1>14 DEF PushPoison
  <2>3. Control
    BY <1>14, <2>0, <1>g, <1>t DEF PushPoison, UiPc
  <2>4. Messages
    BY <1>0, <1>14, <2>2, Unsent DEF PushPoison
  <2> QED
    BY <2>1, <2>2, <2>3, <2>4
<1>15. CASE Join
  <2>1. Queues
    BY <1>15 DEF Join
  <2>2. Request
    BY <1>15 DEF Join
  <2>3. Control
    BY <1>15, <1>g, <1>t DEF Join, UiPc
  <2>4. Messages
    BY <1>0, <1>15, <2>2, Unsent DEF Join
  <2> QED
    BY <2>1, <2>2, <2>3, <2>4
<1> QED
  BY <1>2, <1>3, <1>4, <1>5, <1>6, <1>7, <1>8, <1>9, <1>10, <1>11, <1>12, <1>14, <1>15
  DEF Call, InCall, Timed, Purpose

\* The flags and queues of BoostThreadWorker, read and written one by one, keep
\* the invariant.
THEOREM InvHolds == Spec => []IInv
<1>1. Init => IInv
  <2> SUFFICES ASSUME Init PROVE IInv
    OBVIOUS
  <2>1. TypeOK
    <3>1. 0 \in 0 .. MaxJobs /\ 0 \in 0 .. MaxSent
      BY JobWorkerAssumption
    <3>2. wk \in [pc : {"wait", "popped", "process", "call", "ended", "pushed", "exited"},
                  job : Entry, sent : 0 .. MaxSent, failed : BOOLEAN]
      BY <3>1 DEF Init, Entry, Poison
    <3>3. ui \in [pc : {"loop", "events", "cancel", "idle.input", "idle.running", "idle.output",
                       "dormant", "wait", "close", "join", "gone"},
                  for : Purpose, timed : BOOLEAN]
      BY DEF Init, Purpose
    <3>4. input \in Seq(Entry) /\ output \in Seq(Message) /\ finalized \in Seq(Jobs)
      BY DEF Init
    <3> QED
      BY <3>1, <3>2, <3>3, <3>4 DEF Init, TypeOK
  <2>2. WorkerInv /\ IdleInv
    BY DEF Init, WorkerInv, IdleInv
  <2>3. CancelInv
    BY DEF Init, CancelInv, CancelIsNotInherited
  <2> QED
    BY <2>1, <2>2, <2>3 DEF IInv
<1>2. IInv /\ [Next]_vars => IInv'
  <2>1. IInv /\ UNCHANGED vars => IInv'
    BY DEF IInv, TypeOK, WorkerInv, IdleInv, CancelInv, CancelIsNotInherited, vars, queues, flags, history
  <2> QED
    BY <2>1, WorkerStep, MainStep DEF Next, Terminated
<1> QED
  BY <1>1, <1>2, PTL DEF Spec

\* The queues carry jobs and messages, the promise is in a state it may be in.
THEOREM TypeCorrect == Spec => []TypeOK
<1>1. IInv => TypeOK
  BY DEF IInv
<1> QED
  BY <1>1, InvHolds, PTL

\* A worker for which is_idle() returns true has nothing queued, nothing to
\* report and nothing to do.
THEOREM IdleDormant == Spec => []IdleIsDormant
<1>1. IInv => IdleIsDormant
  BY DEF IInv, IdleInv, IdleIsDormant
<1> QED
  BY <1>1, InvHolds, PTL

\* No job is finalized as canceled unless cancel() or cancel_all() was called
\* while it was the current one.
THEOREM CancelNotInherited == Spec => []CancelIsNotInherited
<1>1. IInv => CancelIsNotInherited
  BY DEF IInv, CancelInv
<1> QED
  BY <1>1, InvHolds, PTL

-----------------------------------------------------------------------------
(* Where the jobs are *)

\* The jobs of a queue, by their places.
LEMMA RangeIs == \A f : Range(f) = {f[x] : x \in DOMAIN f}
  BY Zenon DEF Range

\* The first entry of the input queue is taken.
LEMMA QueuedTail ==
    ASSUME NEW q \in Seq(Entry), q # <<>>, Increasing(Queued(q))
    PROVE  /\ Increasing(Queued(Tail(q)))
           /\ Range(Queued(q)) = ({Head(q)} \ {Poison}) \cup Range(Queued(Tail(q)))
           /\ Head(q) # Poison => Below({Head(q)}, Range(Queued(Tail(q))))
<1> DEFINE r == Tail(q)
<1>1. /\ r \in Seq(Entry) /\ Head(q) = q[1] /\ 1 \in DOMAIN q
      /\ \A i \in DOMAIN r : i \in Nat /\ i + 1 \in DOMAIN q /\ r[i] = q[i + 1]
      /\ \A i \in DOMAIN q : i \in Nat /\ (i = 1 \/ (i > 1 /\ i - 1 \in DOMAIN r /\ q[i] = r[i - 1]))
  OBVIOUS
<1> HIDE DEF r
<1>2. /\ DOMAIN Queued(q) = {k \in DOMAIN q : q[k] # Poison}
      /\ \A i \in DOMAIN Queued(q) : Queued(q)[i] = q[i]
      /\ DOMAIN Queued(r) = {k \in DOMAIN r : r[k] # Poison}
      /\ \A i \in DOMAIN Queued(r) : Queued(r)[i] = r[i]
  BY DEF Queued
<1>3. \A i \in DOMAIN Queued(r) : i + 1 \in DOMAIN Queued(q) /\ Queued(r)[i] = Queued(q)[i + 1]
  BY <1>1, <1>2
<1>4. Increasing(Queued(r))
  <2> SUFFICES ASSUME NEW i \in DOMAIN Queued(r), NEW j \in DOMAIN Queued(r), i < j
               PROVE  Queued(r)[i] < Queued(r)[j]
    BY DEF Increasing
  <2>1. i + 1 < j + 1
    BY <1>1, <1>2
  <2> QED BY <1>3, <2>1 DEF Increasing
<1>5. Range(Queued(q)) = ({Head(q)} \ {Poison}) \cup Range(Queued(r))
  <2>1. \A x \in Range(Queued(q)) : x \in ({Head(q)} \ {Poison}) \cup Range(Queued(r))
    <3> SUFFICES ASSUME NEW i \in DOMAIN Queued(q)
                 PROVE  Queued(q)[i] \in ({Head(q)} \ {Poison}) \cup Range(Queued(r))
      BY RangeIs
    <3>1. CASE i = 1
      BY <1>1, <1>2, <3>1
    <3>2. CASE i # 1
      <4>1. i - 1 \in DOMAIN Queued(r) /\ Queued(q)[i] = Queued(r)[i - 1]
        BY <1>1, <1>2, <3>2
      <4> QED BY <4>1, RangeIs
    <3> QED BY <3>1, <3>2
  <2>2. \A x \in Range(Queued(r)) : x \in Range(Queued(q))
    BY <1>3, RangeIs
  <2>3. Head(q) # Poison => Head(q) \in Range(Queued(q))
    <3>1. Head(q) # Poison => 1 \in DOMAIN Queued(q) /\ Queued(q)[1] = Head(q)
      BY <1>1, <1>2
    <3> QED BY <3>1, RangeIs
  <2> QED BY <2>1, <2>2, <2>3
<1>6. ASSUME Head(q) # Poison PROVE Below({Head(q)}, Range(Queued(r)))
  <2>1. 1 \in DOMAIN Queued(q) /\ Queued(q)[1] = Head(q)
    BY <1>1, <1>2, <1>6
  <2>2. \A i \in DOMAIN Queued(r) : Head(q) < Queued(r)[i]
    <3> SUFFICES ASSUME NEW i \in DOMAIN Queued(r) PROVE Head(q) < Queued(r)[i]
      OBVIOUS
    <3>1. i \in Nat /\ i >= 1 /\ i + 1 \in DOMAIN Queued(q) /\ Queued(r)[i] = Queued(q)[i + 1]
      BY <1>1, <1>2, <1>3
    <3>2. 1 < i + 1
      BY <3>1
    <3> QED BY <2>1, <3>1, <3>2 DEF Increasing
  <2> QED BY <2>2, RangeIs DEF Below
<1> QED BY <1>4, <1>5, <1>6 DEF r

\* An entry is added to the input queue.
LEMMA QueuedAppend ==
    ASSUME NEW q \in Seq(Entry), Increasing(Queued(q)), NEW e \in Entry,
           e # Poison => Below(Range(Queued(q)), {e})
    PROVE  /\ Increasing(Queued(Append(q, e)))
           /\ Range(Queued(Append(q, e))) = Range(Queued(q)) \cup ({e} \ {Poison})
<1> DEFINE r == Append(q, e)
           n == Len(q) + 1
<1>1. /\ DOMAIN r = DOMAIN q \cup {n} /\ r[n] = e /\ n \in Nat
      /\ \A i \in DOMAIN q : i \in Nat /\ i < n /\ r[i] = q[i]
  OBVIOUS
<1> HIDE DEF r, n
<1>2. /\ DOMAIN Queued(q) = {k \in DOMAIN q : q[k] # Poison}
      /\ \A i \in DOMAIN Queued(q) : Queued(q)[i] = q[i]
      /\ DOMAIN Queued(r) = {k \in DOMAIN r : r[k] # Poison}
      /\ \A i \in DOMAIN Queued(r) : Queued(r)[i] = r[i]
  BY DEF Queued
<1>3. /\ \A i \in DOMAIN Queued(q) : i \in DOMAIN Queued(r) /\ Queued(r)[i] = Queued(q)[i]
      /\ \A i \in DOMAIN Queued(r) : i \in DOMAIN Queued(q) \/ (i = n /\ e # Poison)
      /\ e # Poison => n \in DOMAIN Queued(r) /\ Queued(r)[n] = e
  BY <1>1, <1>2
<1>4. Increasing(Queued(r))
  <2> SUFFICES ASSUME NEW i \in DOMAIN Queued(r), NEW j \in DOMAIN Queued(r), i < j
               PROVE  Queued(r)[i] < Queued(r)[j]
    BY DEF Increasing
  <2>1. i \in DOMAIN Queued(q)
    BY <1>1, <1>2, <1>3
  <2>2. CASE j \in DOMAIN Queued(q)
    BY <1>3, <2>1, <2>2 DEF Increasing
  <2>3. CASE j = n /\ e # Poison
    <3>1. Queued(q)[i] \in Range(Queued(q))
      BY <2>1, RangeIs
    <3> QED BY <1>3, <2>1, <2>3, <3>1 DEF Below
  <2> QED BY <1>3, <2>2, <2>3
<1>5. Range(Queued(r)) = Range(Queued(q)) \cup ({e} \ {Poison})
  BY <1>3, RangeIs
<1> QED BY <1>4, <1>5 DEF r

\* The first message is delivered.
LEMMA EndedTail ==
    ASSUME NEW q \in Seq(Message), q # <<>>, Increasing(Ended(q))
    PROVE  /\ Increasing(Ended(Tail(q)))
           /\ Head(q).type # "Finalize" => Range(Ended(q)) = Range(Ended(Tail(q)))
           /\ Head(q).type = "Finalize" =>
                 /\ Range(Ended(q)) = {Head(q).job} \cup Range(Ended(Tail(q)))
                 /\ Below({Head(q).job}, Range(Ended(Tail(q))))
<1> DEFINE r == Tail(q)
<1>1. /\ Head(q) = q[1] /\ 1 \in DOMAIN q
      /\ \A i \in DOMAIN r : i \in Nat /\ i >= 1 /\ i + 1 \in DOMAIN q /\ r[i] = q[i + 1]
      /\ \A i \in DOMAIN q : i \in Nat /\ (i = 1 \/ (i > 1 /\ i - 1 \in DOMAIN r /\ q[i] = r[i - 1]))
  OBVIOUS
<1> HIDE DEF r
<1>2. /\ DOMAIN Ended(q) = {k \in DOMAIN q : q[k].type = "Finalize"}
      /\ \A i \in DOMAIN Ended(q) : Ended(q)[i] = q[i].job
      /\ DOMAIN Ended(r) = {k \in DOMAIN r : r[k].type = "Finalize"}
      /\ \A i \in DOMAIN Ended(r) : Ended(r)[i] = r[i].job
  BY DEF Ended
<1>3. \A i \in DOMAIN Ended(r) : i + 1 \in DOMAIN Ended(q) /\ Ended(r)[i] = Ended(q)[i + 1]
  BY <1>1, <1>2
<1>4. Increasing(Ended(r))
  <2> SUFFICES ASSUME NEW i \in DOMAIN Ended(r), NEW j \in DOMAIN Ended(r), i < j
               PROVE  Ended(r)[i] < Ended(r)[j]
    BY DEF Increasing
  <2>1. i + 1 < j + 1
    BY <1>1, <1>2
  <2> QED BY <1>3, <2>1 DEF Increasing
<1>5. \A i \in DOMAIN Ended(q) : i = 1 \/ (i - 1 \in DOMAIN Ended(r) /\ Ended(q)[i] = Ended(r)[i - 1])
  <2> SUFFICES ASSUME NEW i \in DOMAIN Ended(q), i # 1
               PROVE  i - 1 \in DOMAIN Ended(r) /\ Ended(q)[i] = Ended(r)[i - 1]
    OBVIOUS
  <2>1. i - 1 \in DOMAIN r /\ q[i] = r[i - 1] /\ q[i].type = "Finalize"
    BY <1>1, <1>2
  <2>2. i - 1 \in DOMAIN Ended(r)
    BY <1>2, <2>1
  <2> QED BY <1>2, <2>1, <2>2
<1>6. \A x \in Range(Ended(r)) : x \in Range(Ended(q))
  BY <1>3, RangeIs
<1>7. ASSUME Head(q).type # "Finalize" PROVE Range(Ended(q)) = Range(Ended(r))
  <2>1. 1 \notin DOMAIN Ended(q)
    BY <1>1, <1>2, <1>7
  <2>2. \A x \in Range(Ended(q)) : x \in Range(Ended(r))
    BY <1>5, <2>1, RangeIs
  <2> QED BY <1>6, <2>2
<1>8. ASSUME Head(q).type = "Finalize"
      PROVE  /\ Range(Ended(q)) = {Head(q).job} \cup Range(Ended(r))
             /\ Below({Head(q).job}, Range(Ended(r)))
  <2>1. 1 \in DOMAIN Ended(q) /\ Ended(q)[1] = Head(q).job
    BY <1>1, <1>2, <1>8
  <2>2. \A x \in Range(Ended(q)) : x \in {Head(q).job} \cup Range(Ended(r))
    BY <1>5, <2>1, RangeIs
  <2>3. Head(q).job \in Range(Ended(q))
    BY <2>1, RangeIs
  <2>4. \A i \in DOMAIN Ended(r) : Head(q).job < Ended(r)[i]
    <3> SUFFICES ASSUME NEW i \in DOMAIN Ended(r) PROVE Head(q).job < Ended(r)[i]
      OBVIOUS
    <3>1. i \in Nat /\ i >= 1 /\ i + 1 \in DOMAIN Ended(q) /\ Ended(r)[i] = Ended(q)[i + 1]
      BY <1>1, <1>2, <1>3
    <3>2. 1 < i + 1
      BY <3>1
    <3> QED BY <2>1, <3>1, <3>2 DEF Increasing
  <2>5. Below({Head(q).job}, Range(Ended(r)))
    BY <2>4, RangeIs DEF Below
  <2> QED BY <1>6, <2>2, <2>3, <2>5
<1> QED BY <1>4, <1>7, <1>8 DEF r

\* A message is sent.
LEMMA EndedAppend ==
    ASSUME NEW q \in Seq(Message), Increasing(Ended(q)), NEW m \in Message,
           m.type = "Finalize" => Below(Range(Ended(q)), {m.job})
    PROVE  /\ Increasing(Ended(Append(q, m)))
           /\ m.type = "Finalize" => Range(Ended(Append(q, m))) = Range(Ended(q)) \cup {m.job}
           /\ m.type # "Finalize" => Range(Ended(Append(q, m))) = Range(Ended(q))
<1> DEFINE r == Append(q, m)
           n == Len(q) + 1
<1>1. /\ DOMAIN r = DOMAIN q \cup {n} /\ r[n] = m /\ n \in Nat
      /\ \A i \in DOMAIN q : i \in Nat /\ i < n /\ r[i] = q[i]
  OBVIOUS
<1> HIDE DEF r, n
<1>2. /\ DOMAIN Ended(q) = {k \in DOMAIN q : q[k].type = "Finalize"}
      /\ \A i \in DOMAIN Ended(q) : Ended(q)[i] = q[i].job
      /\ DOMAIN Ended(r) = {k \in DOMAIN r : r[k].type = "Finalize"}
      /\ \A i \in DOMAIN Ended(r) : Ended(r)[i] = r[i].job
  BY DEF Ended
<1>3. /\ \A i \in DOMAIN Ended(q) : i \in DOMAIN Ended(r) /\ Ended(r)[i] = Ended(q)[i]
      /\ \A i \in DOMAIN Ended(r) : i \in DOMAIN Ended(q) \/ (i = n /\ m.type = "Finalize")
      /\ m.type = "Finalize" => n \in DOMAIN Ended(r) /\ Ended(r)[n] = m.job
  BY <1>1, <1>2
<1>4. Increasing(Ended(r))
  <2> SUFFICES ASSUME NEW i \in DOMAIN Ended(r), NEW j \in DOMAIN Ended(r), i < j
               PROVE  Ended(r)[i] < Ended(r)[j]
    BY DEF Increasing
  <2>1. i \in DOMAIN Ended(q)
    BY <1>1, <1>2, <1>3
  <2>2. CASE j \in DOMAIN Ended(q)
    BY <1>3, <2>1, <2>2 DEF Increasing
  <2>3. CASE j = n /\ m.type = "Finalize"
    <3>1. Ended(q)[i] \in Range(Ended(q))
      BY <2>1, RangeIs
    <3> QED BY <1>3, <2>1, <2>3, <3>1 DEF Below
  <2> QED BY <1>3, <2>2, <2>3
<1>5. m.type = "Finalize" => Range(Ended(r)) = Range(Ended(q)) \cup {m.job}
  BY <1>3, RangeIs
<1>6. m.type # "Finalize" => Range(Ended(r)) = Range(Ended(q))
  BY <1>3, RangeIs
<1> QED BY <1>4, <1>5, <1>6 DEF r

\* A job is finalized.
LEMMA FinalizedAppend ==
    ASSUME NEW q \in Seq(Jobs), Increasing(q), NEW j \in Jobs, Below(Range(q), {j})
    PROVE  Increasing(Append(q, j)) /\ Range(Append(q, j)) = Range(q) \cup {j}
<1> DEFINE r == Append(q, j)
           n == Len(q) + 1
<1>1. /\ DOMAIN r = DOMAIN q \cup {n} /\ r[n] = j /\ n \in Nat
      /\ \A i \in DOMAIN q : i \in Nat /\ i < n /\ r[i] = q[i]
  OBVIOUS
<1> HIDE DEF r, n
<1>2. Increasing(r)
  <2> SUFFICES ASSUME NEW i \in DOMAIN r, NEW k \in DOMAIN r, i < k PROVE r[i] < r[k]
    BY DEF Increasing
  <2>1. i \in DOMAIN q
    BY <1>1
  <2>2. q[i] \in Range(q)
    BY <2>1, RangeIs
  <2> QED BY <1>1, <2>1, <2>2 DEF Increasing, Below
<1>3. Range(r) = Range(q) \cup {j}
  BY <1>1, RangeIs
<1> QED BY <1>2, <1>3 DEF r

\* The jobs in the four places a job can be, in their order.
Places(F, E, C, W) ==
    /\ Below(F, E \cup C \cup W)
    /\ Below(E, C \cup W)
    /\ Below(C, W)

\* Nothing moves when no queue is touched and the worker keeps its job.
LEMMA NothingMoves ==
    ASSUME JobsAreKept, UNCHANGED <<input, output, finalized, pushed, dropped>>,
           Current' = Current
    PROVE  JobsAreKept'
  BY DEF JobsAreKept

\* Where the jobs are is all that counts.
LEMMA KeptByPlace ==
    JobsAreKept <=>
        /\ Increasing(finalized) /\ Increasing(Ended(output)) /\ Increasing(Queued(input))
        /\ Places(Range(finalized), Range(Ended(output)), Current, Range(Queued(input)))
        /\ Range(finalized) \cup Range(Ended(output)) \cup Current \cup Range(Queued(input))
              \cup dropped = 1 .. pushed
        /\ (Range(finalized) \cup Range(Ended(output)) \cup Current \cup Range(Queued(input)))
              \cap dropped = {}
  BY DEF JobsAreKept, Places

\* The same of the next state.
LEMMA KeptByPlaceNext ==
    ASSUME Increasing(finalized'), Increasing(Ended(output')), Increasing(Queued(input')),
           Places(Range(finalized'), Range(Ended(output')), Current', Range(Queued(input'))),
           Range(finalized') \cup Range(Ended(output')) \cup Current' \cup Range(Queued(input'))
              \cup dropped' = 1 .. pushed',
           (Range(finalized') \cup Range(Ended(output')) \cup Current' \cup Range(Queued(input')))
              \cap dropped' = {}
    PROVE  JobsAreKept'
  BY DEF JobsAreKept, Places

\* The worker takes a job from the queue and passes it on.
LEMMA WorkerMoves == IInv /\ JobsAreKept /\ Worker => JobsAreKept'
<1> SUFFICES ASSUME IInv, JobsAreKept, Worker PROVE JobsAreKept'
  OBVIOUS
<1> DEFINE F == Range(finalized)
           E == Range(Ended(output))
           W == Range(Queued(input))
<1>1. /\ Increasing(finalized) /\ Increasing(Ended(output)) /\ Increasing(Queued(input))
      /\ Places(F, E, Current, W)
      /\ F \cup E \cup Current \cup W \cup dropped = 1 .. pushed
      /\ (F \cup E \cup Current \cup W) \cap dropped = {}
  BY KeptByPlace
<1>2. /\ input \in Seq(Entry) /\ output \in Seq(Message)
      /\ wk.job \in Entry
      /\ wk.pc \in {"process", "call", "ended"} => wk.job \in Jobs
  BY DEF IInv, TypeOK, WorkerInv
<1>3. CASE Pop
  <2>1. /\ wk.pc = "wait" /\ input # <<>> /\ input' = Tail(input)
        /\ wk'.pc = "popped" /\ wk'.job = Head(input)
        /\ UNCHANGED <<output, finalized, pushed, dropped>>
    BY <1>3 DEF Pop, history
  <2>2. Current = {} /\ Current' = {Head(input)} \ {Poison}
    BY <2>1 DEF Current
  <2>3. /\ Increasing(Queued(input'))
        /\ W = ({Head(input)} \ {Poison}) \cup Range(Queued(input'))
        /\ Head(input) # Poison => Below({Head(input)}, Range(Queued(input')))
    BY <1>1, <1>2, <2>1, QueuedTail
  <2> HIDE DEF F, E, W
  <2>4. Places(F, E, Current', Range(Queued(input')))
    BY <1>1, <2>2, <2>3 DEF Places, Below
  <2>5. F \cup E \cup Current' \cup Range(Queued(input')) = F \cup E \cup Current \cup W
    BY <2>2, <2>3
  <2> QED BY <1>1, <2>1, <2>3, <2>4, <2>5, KeptByPlaceNext DEF F, E
<1>4. CASE Begin \/ CallReturns \/ ProcessEnds \/ NotRunning \/ Exit
  <2>1. UNCHANGED <<input, output, finalized, pushed, dropped>>
    BY <1>4 DEF Begin, CallReturns, ProcessEnds, NotRunning, Exit, queues, history
  <2>2. Current' = Current
    <3>1. CASE Begin \/ CallReturns \/ ProcessEnds
      <4>1. /\ wk.pc \in {"popped", "process", "call", "ended"}
            /\ wk'.pc \in {"popped", "process", "call", "ended"} /\ wk'.job = wk.job
        BY <3>1 DEF Begin, CallReturns, ProcessEnds, WkGoto, IInv, TypeOK
      <4> QED BY <4>1 DEF Current
    <3>2. CASE NotRunning
      BY <3>2 DEF NotRunning, WkGoto, Current, IInv, TypeOK
    <3>3. CASE Exit
      BY <3>3 DEF Exit, WkGoto, Current, IInv, TypeOK
    <3> QED BY <1>4, <3>1, <3>2, <3>3
  <2> QED BY <2>1, <2>2, NothingMoves
<1>5. CASE Report \/ CallOnMainThread
  <2>1. PICK m \in [type : {"Status", "MainThreadCall"}] :
          /\ output' = Append(output, m)
          /\ UNCHANGED <<input, finalized, pushed, dropped>>
    <3>1. CASE Report
      BY <3>1 DEF Report, history
    <3>2. CASE CallOnMainThread
      BY <3>2 DEF CallOnMainThread, history
    <3> QED BY <1>5, <3>1, <3>2
  <2>2. Current' = Current
    <3>1. /\ wk.pc \in {"popped", "process", "call", "ended"}
          /\ wk'.pc \in {"popped", "process", "call", "ended"} /\ wk'.job = wk.job
      BY <1>5 DEF Report, CallOnMainThread, IInv, TypeOK
    <3> QED BY <3>1 DEF Current
  <2>3. m \in Message /\ m.type # "Finalize"
    BY DEF Message
  <2>4. Increasing(Ended(output')) /\ Range(Ended(output')) = Range(Ended(output))
    BY <1>1, <1>2, <2>1, <2>3, EndedAppend
  <2> QED BY <1>1, <2>1, <2>2, <2>4, KeptByPlaceNext
<1>6. CASE PushFinalize
  <2> DEFINE m == [type |-> "Finalize", job |-> wk.job, canceled |-> canceled, failed |-> wk.failed]
  <2>1. /\ wk.pc = "ended" /\ output' = Append(output, m) /\ wk'.pc = "pushed"
        /\ UNCHANGED <<input, finalized, pushed, dropped>>
    BY <1>6 DEF PushFinalize, WkGoto, history, IInv, TypeOK
  <2>2. Current = {wk.job} /\ Current' = {}
    BY <1>2, <2>1 DEF Current, Jobs, Poison
  <2>3. m \in Message /\ m.type = "Finalize" /\ m.job = wk.job
    BY <1>2, <2>1 DEF IInv, TypeOK, Message, Finalize
  <2> HIDE DEF m
  <2>4. Below(E, {m.job})
    BY <1>1, <2>2, <2>3 DEF Places, Below
  <2>5. Increasing(Ended(output')) /\ Range(Ended(output')) = E \cup {wk.job}
    BY <1>1, <1>2, <2>1, <2>3, <2>4, EndedAppend
  <2> HIDE DEF F, E, W
  <2>6. Places(F, Range(Ended(output')), Current', W)
    BY <1>1, <2>2, <2>5 DEF Places, Below
  <2>7. F \cup Range(Ended(output')) \cup Current' \cup W = F \cup E \cup Current \cup W
    BY <2>2, <2>5
  <2> QED BY <1>1, <2>1, <2>5, <2>6, <2>7, KeptByPlaceNext DEF F, W
<1> QED BY <1>3, <1>4, <1>5, <1>6 DEF Worker

\* The main thread takes a message, and with it perhaps a finished job.
LEMMA MessageMoves ==
    ASSUME IInv, JobsAreKept, output # <<>>, Deliver(Head(output))
    PROVE  JobsAreKept'
<1> DEFINE F == Range(finalized)
           E == Range(Ended(output))
           W == Range(Queued(input))
           m == Head(output)
<1>1. /\ Increasing(finalized) /\ Increasing(Ended(output)) /\ Increasing(Queued(input))
      /\ Places(F, E, Current, W)
      /\ F \cup E \cup Current \cup W \cup dropped = 1 .. pushed
      /\ (F \cup E \cup Current \cup W) \cap dropped = {}
  BY KeptByPlace
<1>2. /\ output \in Seq(Message) /\ finalized \in Seq(Jobs)
  BY DEF IInv, TypeOK
<1>3. /\ output' = Tail(output) /\ UNCHANGED <<input, wk, pushed, dropped>>
      /\ finalized' = IF m.type = "Finalize" THEN Append(finalized, m.job) ELSE finalized
  BY DEF Deliver
<1>4. Current' = Current
  BY <1>3 DEF Current
<1>5. /\ Increasing(Ended(output'))
      /\ m.type # "Finalize" => E = Range(Ended(output'))
      /\ m.type = "Finalize" => /\ E = {m.job} \cup Range(Ended(output'))
                                /\ Below({m.job}, Range(Ended(output')))
  BY <1>1, <1>2, <1>3, EndedTail
<1>6. m.type = "Finalize" => m.job \in Jobs
  BY <1>2, TailKeeps DEF Message, Finalize
<1> HIDE DEF m
<1>7. CASE m.type # "Finalize"
  BY <1>1, <1>3, <1>4, <1>5, <1>7, KeptByPlaceNext
<1>8. CASE m.type = "Finalize"
  <2>1. Below(F, {m.job})
    BY <1>1, <1>5, <1>8 DEF Places, Below
  <2>2. Increasing(finalized') /\ Range(finalized') = F \cup {m.job}
    BY <1>1, <1>2, <1>3, <1>6, <1>8, <2>1, FinalizedAppend
  <2> HIDE DEF F, E, W
  <2>3. Places(Range(finalized'), Range(Ended(output')), Current, W)
    BY <1>1, <1>5, <1>8, <2>2 DEF Places, Below
  <2>4. Range(finalized') \cup Range(Ended(output')) \cup Current \cup W = F \cup E \cup Current \cup W
    BY <1>5, <1>8, <2>2
  <2> QED BY <1>1, <1>3, <1>4, <1>5, <2>2, <2>3, <2>4, KeptByPlaceNext DEF W
<1> QED BY <1>7, <1>8

\* The main thread adds jobs and deletes them.
LEMMA MainMoves == IInv /\ JobsAreKept /\ (Call \/ ProcessEvents \/ InCall) => JobsAreKept'
<1> SUFFICES ASSUME IInv, JobsAreKept, Call \/ ProcessEvents \/ InCall PROVE JobsAreKept'
  OBVIOUS
<1> DEFINE F == Range(finalized)
           E == Range(Ended(output))
           W == Range(Queued(input))
<1>1. /\ Increasing(finalized) /\ Increasing(Ended(output)) /\ Increasing(Queued(input))
      /\ Places(F, E, Current, W)
      /\ F \cup E \cup Current \cup W \cup dropped = 1 .. pushed
      /\ (F \cup E \cup Current \cup W) \cap dropped = {}
  BY KeptByPlace
<1>2. /\ input \in Seq(Entry) /\ pushed \in 0 .. MaxJobs /\ MaxJobs \in Nat
  BY JobWorkerAssumption DEF IInv, TypeOK
<1>3. CASE Push
  <2>1. /\ input' = Append(input, pushed + 1) /\ pushed' = pushed + 1 /\ pushed < MaxJobs
        /\ UNCHANGED <<output, finalized, dropped>> /\ Current' = Current
    BY <1>3 DEF Push, history, Current
  <2>2. pushed + 1 \in Entry /\ pushed + 1 # Poison
    BY <1>2, <2>1 DEF Entry, Jobs, Poison
  <2>3. \A x \in F \cup E \cup Current \cup W \cup dropped : x \in Nat /\ x < pushed + 1
    BY <1>1, <1>2
  <2>4. Below(W, {pushed + 1})
    BY <2>3 DEF Below
  <2>5. Increasing(Queued(input')) /\ Range(Queued(input')) = W \cup {pushed + 1}
    BY <1>1, <1>2, <2>1, <2>2, <2>4, QueuedAppend
  <2> HIDE DEF F, E, W
  <2>6. Places(F, E, Current, Range(Queued(input')))
    BY <1>1, <2>3, <2>5 DEF Places, Below
  <2>7. F \cup E \cup Current \cup Range(Queued(input')) \cup dropped = 1 .. pushed'
    <3>1. 1 .. pushed' = (1 .. pushed) \cup {pushed + 1}
      BY <1>2, <2>1
    <3> QED BY <1>1, <2>5, <3>1
  <2>8. (F \cup E \cup Current \cup Range(Queued(input'))) \cap dropped = {}
    <3>1. pushed + 1 \notin dropped
      BY <1>2, <2>3
    <3> QED BY <1>1, <2>5, <3>1
  <2> QED BY <1>1, <2>1, <2>5, <2>6, <2>7, <2>8, KeptByPlaceNext DEF F, E
<1>4. CASE \E for \in Purpose, timed \in BOOLEAN : CancelAll(for, timed)
  <2>1. /\ input' = <<>> /\ dropped' = dropped \cup Range(input) /\ ui.pc = "loop"
        /\ UNCHANGED <<output, finalized, pushed>> /\ Current' = Current
    BY <1>4 DEF CancelAll, Current
  <2>2. Range(input) = W
    <3>1. \A i \in DOMAIN input : input[i] # Poison
      BY <2>1 DEF IInv, WorkerInv
    <3>2. DOMAIN Queued(input) = DOMAIN input /\ \A i \in DOMAIN input : Queued(input)[i] = input[i]
      BY <3>1 DEF Queued
    <3> QED BY <3>2, RangeIs
  <2>3. Increasing(Queued(input')) /\ Range(Queued(input')) = {}
    <3>1. DOMAIN Queued(input') = {}
      BY <2>1 DEF Queued
    <3> QED BY <3>1, RangeIs DEF Increasing
  <2>4. W \cap (F \cup E \cup Current) = {}
    <3>1. \A x \in F \cup E \cup Current \cup W \cup dropped : x \in Nat
      BY <1>1, <1>2
    <3> HIDE DEF F, E, W
    <3> QED BY <1>1, <3>1 DEF Places, Below
  <2> HIDE DEF F, E, W
  <2>5. Places(F, E, Current, Range(Queued(input')))
    BY <1>1, <2>3 DEF Places, Below
  <2>6. /\ F \cup E \cup Current \cup Range(Queued(input')) \cup dropped' = 1 .. pushed
        /\ (F \cup E \cup Current \cup Range(Queued(input'))) \cap dropped' = {}
    BY <1>1, <2>1, <2>2, <2>3, <2>4
  <2> QED BY <1>1, <2>1, <2>3, <2>5, <2>6, KeptByPlaceNext DEF F, E
<1>5. CASE PushPoison
  <2>1. /\ input' = Append(input, Poison) /\ Poison \in Entry
        /\ UNCHANGED <<output, finalized, pushed, dropped>> /\ Current' = Current
    BY <1>5 DEF PushPoison, history, Current, Entry
  <2>2. Increasing(Queued(input')) /\ Range(Queued(input')) = W
    BY <1>1, <1>2, <2>1, QueuedAppend
  <2> QED BY <1>1, <2>1, <2>2, KeptByPlaceNext
<1>6. CASE EventDelivered \/ WaitDelivers
  <2>1. CASE output # <<>>
    <3>1. Deliver(Head(output))
      BY <1>6, <2>1 DEF EventDelivered, WaitDelivers
    <3> QED BY <2>1, <3>1, MessageMoves
  <2>2. CASE output = <<>>
    <3>1. UNCHANGED <<input, output, finalized, pushed, dropped, wk>>
      BY <1>6, <2>2 DEF EventDelivered, WaitDelivers, queues, history
    <3> QED BY <3>1, NothingMoves DEF Current
  <2> QED BY <2>1, <2>2
<1>7. CASE \/ Cancel \/ CancelAllEnds \/ ReadIdle \/ Dormant \/ ProcessEvents
           \/ WaitTimesOut \/ Join \/ \E for \in Purpose, timed \in BOOLEAN : AskIdle(for, timed)
  <2>1. UNCHANGED <<input, output, finalized, pushed, dropped, wk>>
    BY <1>7 DEF Cancel, CancelAllEnds, SetCanceled, ReadIdle, Dormant, ProcessEvents,
                WaitTimesOut, Join, AskIdle, queues, history
  <2> QED BY <2>1, NothingMoves DEF Current
<1> QED BY <1>3, <1>4, <1>5, <1>6, <1>7 DEF Call, InCall, Timed, Purpose

\* Every job that was queued is in one place at a time, deleted or on its way to
\* finalize(), and no job overtakes another one.
THEOREM JobsKept == Spec => []JobsAreKept
<1>1. Init => JobsAreKept
  <2> SUFFICES ASSUME Init PROVE JobsAreKept
    OBVIOUS
  <2>1. /\ input = <<>> /\ output = <<>> /\ finalized = <<>> /\ pushed = 0 /\ dropped = {}
        /\ Current = {}
    BY DEF Init, Current
  <2>2. DOMAIN Queued(input) = {} /\ DOMAIN Ended(output) = {} /\ DOMAIN finalized = {}
    BY <2>1 DEF Queued, Ended
  <2>3. /\ Increasing(finalized) /\ Increasing(Ended(output)) /\ Increasing(Queued(input))
        /\ Range(finalized) = {} /\ Range(Ended(output)) = {} /\ Range(Queued(input)) = {}
    BY <2>2, RangeIs DEF Increasing
  <2>4. Places({}, {}, {}, {}) /\ 1 .. pushed = {}
    BY <2>1 DEF Places, Below
  <2> QED BY <2>1, <2>3, <2>4, KeptByPlace
<1>2. IInv /\ JobsAreKept /\ [Next]_vars => JobsAreKept'
  <2>1. UNCHANGED vars => UNCHANGED <<input, output, finalized, pushed, dropped, wk>>
    BY DEF vars, queues, history
  <2>2. JobsAreKept /\ UNCHANGED vars => JobsAreKept'
    BY <2>1, NothingMoves DEF Current
  <2> QED BY <2>2, WorkerMoves, MainMoves DEF Next, Terminated
<1> QED BY <1>1, <1>2, InvHolds, PTL DEF Spec
=============================================================================
