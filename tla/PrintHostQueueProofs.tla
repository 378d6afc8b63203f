------------------------ MODULE PrintHostQueueProofs ------------------------
(***************************************************************************)
(* Proofs that cancel requests hit the job of their row, that a row tells  *)
(* what became of its job, and that the temporary files follow their jobs, *)
(* for any number of jobs and requests.                                    *)
(***************************************************************************)
EXTENDS PrintHostQueue, TLAPS

\* How many jobs were pushed, and the number of the first one not popped.
Pushed == IF adding THEN Len(rows) - 1 ELSE Len(rows)
Upcoming == IF source_to_remove = NoRow THEN job_id ELSE job_id + 1

\* Until the thread has ended, the channel holds the jobs that were pushed and
\* not popped, in order, behind them the empty job if the queue is closed.
QueueInv ==
    /\ adding => Len(rows) > 0 /\ ~bg_exit
    /\ \A id \in cancels : id < Len(rows)
    /\ pc # "ended" =>
          /\ source_to_remove \in {NoRow, job_id}
          /\ Upcoming <= Pushed
          /\ Len(jobs) = Pushed - Upcoming + IF bg_exit THEN 1 ELSE 0
          /\ \A k \in DOMAIN jobs :
                IF bg_exit /\ k = Len(jobs) THEN jobs[k] = EmptyJob
                ELSE jobs[k].row = Upcoming + k - 1

\* A job is over when the thread has left it.
OutcomeInv ==
    /\ \A id \in Ids : outcome[id] # "open" =>
          id < job_id \/ (id = job_id /\ pc \in {"finish", "ended"})
    /\ pc = "finish" => outcome[job_id] # "open"
    /\ pc # "ended" => \A id \in Ids : id < job_id => outcome[id] # "open"

\* The row shows its job as cancelled, or is about to.
Shown(id) ==
    \/ Row(id) \in DOMAIN rows /\ rows[Row(id)] = "cancelled"
    \/ "cancelled" \in ToSet(posted[id])

\* The job was cancelled, or will be when it is received.
Covered(id) ==
    \/ outcome[id] \in {"skipped", "aborted"}
    \/ \E k \in DOMAIN jobs : jobs[k].row = id /\ jobs[k].cancelled

\* Who is marked, or aborted, was asked for; who is shown as cancelled is
\* marked, or was skipped or aborted.
CancelInv ==
    /\ \A k \in DOMAIN jobs : jobs[k].cancelled => jobs[k].row \in asked
    /\ pc = "abort" => job_id \in asked \/ bg_exit
    /\ \A id \in Ids : Shown(id) => Covered(id)
    /\ \A id \in Ids : outcome[id] \in {"skipped", "aborted"} => id \in asked \/ bg_exit

\* What the row will show when the events are handled.
Latest(id) ==
    IF posted[id] = <<>> THEN rows[Row(id)] ELSE posted[id][Len(posted[id])]

RowInv ==
    /\ \A id \in Ids : posted[id] # <<>> => id < Len(rows)
    /\ \A k \in DOMAIN jobs : jobs[k].cancelled =>
          jobs[k].row < Len(rows) /\ Latest(jobs[k].row) = "cancelled"
    /\ \A id \in Ids : outcome[id] # "open" =>
          id < Len(rows) /\ Latest(id) = RowOf(outcome[id])

\* Of the jobs before the current one the files are gone; when the thread has
\* ended, unless because of an exception, those of all jobs.
FileInv ==
    /\ pc # "ended" => removed = {id \in Ids : id < job_id}
    /\ pc = "ended" => {id \in Ids : id < job_id} \subseteq removed
    /\ pc = "ended" /\ ~Threw => bg_exit /\ removed = {id \in Ids : id < Len(rows)}

IInv == TypeOK /\ QueueInv /\ OutcomeInv /\ CancelInv /\ RowInv /\ FileInv

-----------------------------------------------------------------------------

JobType == [row : Ids \cup {NoRow}, cancelled : BOOLEAN]

\* What the channel is after its head was received, and after a job was sent.
LEMMA TailOfQueue ==
    ASSUME NEW S, NEW q \in Seq(S), q # <<>>
    PROVE  /\ Tail(q) \in Seq(S) /\ Head(q) \in S /\ Head(q) = q[1] /\ 1 \in DOMAIN q
           /\ Len(Tail(q)) = Len(q) - 1 /\ Len(q) > 0
           /\ DOMAIN Tail(q) = 1 .. Len(q) - 1 /\ DOMAIN q = 1 .. Len(q)
           /\ \A i \in DOMAIN Tail(q) : i + 1 \in DOMAIN q /\ Tail(q)[i] = q[i + 1]
  OBVIOUS

LEMMA AppendToQueue ==
    ASSUME NEW S, NEW q \in Seq(S), NEW e \in S
    PROVE  /\ Append(q, e) \in Seq(S) /\ Append(q, e) # <<>>
           /\ Len(Append(q, e)) = Len(q) + 1
           /\ DOMAIN Append(q, e) = 1 .. Len(q) + 1 /\ DOMAIN q = 1 .. Len(q)
           /\ Append(q, e)[Len(q) + 1] = e
           /\ \A i \in DOMAIN q : i \in DOMAIN Append(q, e) /\ Append(q, e)[i] = q[i]
  OBVIOUS

LEMMA ReplaceInQueue ==
    ASSUME NEW S, NEW q \in Seq(S), NEW i, NEW e \in S
    PROVE  /\ [q EXCEPT ![i] = e] \in Seq(S) /\ Len([q EXCEPT ![i] = e]) = Len(q)
           /\ DOMAIN [q EXCEPT ![i] = e] = DOMAIN q
<1> DEFINE r == [q EXCEPT ![i] = e]
<1>1. DOMAIN r = 1 .. Len(q) /\ Len(q) \in Nat
  OBVIOUS
<1>2. \A j \in 1 .. Len(q) : r[j] \in S
  OBVIOUS
<1>3. r = [j \in 1 .. Len(q) |-> r[j]]
  BY <1>1
<1> HIDE DEF r
<1>4. r \in Seq(S) /\ Len(r) = Len(q) /\ DOMAIN r = DOMAIN q
  BY <1>1, <1>2, <1>3
<1> QED
  BY <1>4 DEF r

\* What a callback makes of the channel: the same jobs in the same order, those
\* marked whose row was asked for.
LEMMA Marked ==
    ASSUME TypeOK, QueueInv, pc = "upload"
    PROVE  /\ MarkedJobs \in Seq(JobType) /\ Len(MarkedJobs) = Len(jobs)
           /\ DOMAIN MarkedJobs = DOMAIN jobs
           /\ \A k \in DOMAIN jobs :
                 /\ MarkedJobs[k].row = jobs[k].row
                 /\ jobs[k].cancelled => MarkedJobs[k].cancelled
                 /\ job_id + k \in cancels => MarkedJobs[k].cancelled /\ jobs[k].row = job_id + k
                 /\ job_id + k \notin cancels => MarkedJobs[k] = jobs[k]
<1>1. jobs \in Seq(JobType) /\ DOMAIN jobs = 1 .. Len(jobs) /\ Len(jobs) \in Nat
  BY DEF TypeOK, JobType
<1>2. \A k \in DOMAIN jobs : jobs[k] \in JobType
  BY <1>1
<1>3. \A k \in DOMAIN jobs :
         IF job_id + k \in cancels THEN MarkedJobs[k] = [row |-> jobs[k].row, cancelled |-> TRUE]
         ELSE MarkedJobs[k] = jobs[k]
  BY <1>2 DEF MarkedJobs, JobType
<1>4. DOMAIN MarkedJobs = DOMAIN jobs
  BY DEF MarkedJobs
<1>5. ASSUME NEW k \in DOMAIN jobs
      PROVE  MarkedJobs[k] \in JobType
  <2>1. CASE job_id + k \in cancels
    <3>1. jobs[k].row \in Ids \cup {NoRow}
      BY <1>2 DEF JobType
    <3>2. MarkedJobs[k] = [row |-> jobs[k].row, cancelled |-> TRUE]
      BY <1>3, <2>1
    <3> QED
      BY <3>1, <3>2 DEF JobType
  <2>2. CASE job_id + k \notin cancels
    BY <1>2, <1>3, <2>2
  <2> QED
    BY <2>1, <2>2
<1>6. MarkedJobs \in Seq(JobType) /\ Len(MarkedJobs) = Len(jobs)
  BY <1>1, <1>4, <1>5 DEF MarkedJobs
<1>7. source_to_remove = job_id /\ job_id \in Nat /\ Upcoming = job_id + 1
  BY DEF TypeOK, QueueInv, Upcoming
<1>8. ASSUME NEW k \in DOMAIN jobs, job_id + k \in cancels
      PROVE  jobs[k].row = job_id + k
  <2>1. job_id + k < Len(rows) /\ Len(rows) \in Nat
    BY <1>8 DEF QueueInv, TypeOK
  <2>2. CASE bg_exit /\ k = Len(jobs)
    <3>1. Len(jobs) = Len(rows) - (job_id + 1) + 1
      BY <1>7, <2>1, <2>2 DEF QueueInv, Pushed
    <3> QED
      BY <1>7, <2>1, <2>2, <3>1
  <2>3. CASE ~(bg_exit /\ k = Len(jobs))
    BY <1>1, <1>7, <2>3 DEF QueueInv
  <2> QED
    BY <2>2, <2>3
<1>9. ASSUME NEW k \in DOMAIN jobs, job_id + k \notin cancels
      PROVE  MarkedJobs[k] = jobs[k]
  BY <1>3, <1>9
<1>10. ASSUME NEW k \in DOMAIN jobs
       PROVE  /\ MarkedJobs[k].row = jobs[k].row
              /\ jobs[k].cancelled => MarkedJobs[k].cancelled
              /\ job_id + k \in cancels => MarkedJobs[k].cancelled
  <2>1. CASE job_id + k \in cancels
    <3>1. MarkedJobs[k] = [row |-> jobs[k].row, cancelled |-> TRUE]
      BY <1>3, <2>1
    <3> QED
      BY <2>1, <3>1
  <2>2. CASE job_id + k \notin cancels
    BY <1>3, <2>2
  <2> QED
    BY <2>1, <2>2
<1> QED
  BY <1>4, <1>6, <1>8, <1>9, <1>10

\* What a callback announces: the rows that were asked for and whose jobs wait.
LEMMA AnnouncedRows ==
    ASSUME TypeOK, QueueInv, pc = "upload"
    PROVE  /\ Announced \in [Ids -> Seq(RowState \ {"new"})]
           /\ Announced[job_id] = posted[job_id] /\ job_id \in Ids
           /\ \A id \in Ids :
                 \/ Announced[id] = posted[id]
                 \/ /\ Announced[id] = Append(posted[id], "cancelled") /\ id \in cancels
                    /\ id - job_id \in DOMAIN jobs /\ id = job_id + (id - job_id)
                    /\ id # job_id
<1>1. /\ jobs \in Seq(JobType) /\ DOMAIN jobs = 1 .. Len(jobs) /\ Len(jobs) \in Nat
      /\ posted \in [Ids -> Seq(RowState \ {"new"})]
  BY DEF TypeOK, JobType
<1>2. job_id \in Nat /\ job_id \in Ids
  BY PrintHostQueueAssumption DEF TypeOK, QueueInv, Ids, NoRow
<1>3. \A id \in Ids : Append(posted[id], "cancelled") \in Seq(RowState \ {"new"})
  BY <1>1 DEF RowState, Active
<1>4. Announced \in [Ids -> Seq(RowState \ {"new"})]
  BY <1>1, <1>3 DEF Announced
<1>5. ASSUME NEW id \in Ids
      PROVE  \/ Announced[id] = posted[id]
             \/ /\ Announced[id] = Append(posted[id], "cancelled") /\ id \in cancels
                /\ id - job_id \in DOMAIN jobs /\ id = job_id + (id - job_id) /\ id # job_id
  <2>1. id \in Int
    BY PrintHostQueueAssumption DEF Ids
  <2>2. CASE id \in cancels /\ IsQueued(id)
    <3>1. id - job_id \in 1 .. Len(jobs) /\ id = job_id + (id - job_id) /\ id # job_id
      BY <1>1, <1>2, <2>1, <2>2 DEF IsQueued
    <3> QED
      BY <1>1, <2>2, <3>1 DEF Announced
  <2>3. CASE ~(id \in cancels /\ IsQueued(id))
    BY <2>3 DEF Announced
  <2> QED
    BY <2>2, <2>3
<1>6. Announced[job_id] = posted[job_id]
  BY <1>2, <1>5
<1> QED
  BY <1>2, <1>4, <1>5, <1>6

Events == Seq(RowState \ {"new"})

LEMMA PostKeepsType ==
    ASSUME NEW p \in [Ids -> Events], NEW id \in Ids, NEW state \in RowState \ {"new"}
    PROVE  [p EXCEPT ![id] = Append(@, state)] \in [Ids -> Events]
<1>1. Append(p[id], state) \in Events
  BY DEF Events
<1> QED
  BY <1>1

\* The job at hand has a row.
LEMMA CurrentHasRow ==
    ASSUME TypeOK, QueueInv, pc \in {"upload", "abort", "finish"}
    PROVE  job_id \in Ids /\ job_id < Len(rows) /\ source_to_remove = job_id /\ Upcoming = job_id + 1
<1>1. job_id \in Nat /\ Len(rows) \in Nat /\ Len(rows) <= MaxJobs /\ adding \in BOOLEAN
  BY DEF TypeOK
<1>2. source_to_remove = job_id /\ Upcoming <= Pushed
  BY DEF TypeOK, QueueInv
<1>3. Upcoming = job_id + 1 /\ Pushed <= Len(rows) /\ Pushed \in Int
  BY <1>1, <1>2 DEF Upcoming, Pushed, NoRow
<1> QED
  BY <1>1, <1>2, <1>3, PrintHostQueueAssumption DEF Ids

\* The job that is received is the next one; the empty one is the last.
LEMMA HeadOfQueue ==
    ASSUME TypeOK, QueueInv, pc = "pop", jobs # <<>>
    PROVE  /\ source_to_remove = NoRow /\ Upcoming = job_id
           /\ Head(jobs).row = NoRow => bg_exit /\ Len(jobs) = 1
           /\ Head(jobs).row # NoRow =>
                 /\ Head(jobs).row = job_id /\ job_id \in Ids /\ job_id < Pushed
                 /\ bg_exit => Len(jobs) > 1
<1>1. job_id \in Nat /\ Len(rows) \in Nat /\ Len(rows) <= MaxJobs /\ adding \in BOOLEAN /\ bg_exit \in BOOLEAN
  BY DEF TypeOK
<1>2. source_to_remove = NoRow /\ Upcoming = job_id
  BY DEF TypeOK, Upcoming
<1>3. Pushed \in Int /\ Pushed <= Len(rows)
  BY <1>1 DEF Pushed
<1>4. jobs \in Seq(JobType) /\ Len(jobs) \in Nat /\ Len(jobs) > 0 /\ 1 \in DOMAIN jobs /\ Head(jobs) = jobs[1]
  BY TailOfQueue DEF TypeOK, JobType
<1>5. IF bg_exit /\ Len(jobs) = 1 THEN jobs[1] = EmptyJob ELSE jobs[1].row = job_id
  BY <1>1, <1>2, <1>4 DEF QueueInv
<1>6. Len(jobs) = Pushed - job_id + IF bg_exit THEN 1 ELSE 0
  BY <1>2 DEF QueueInv
<1>7. EmptyJob.row = NoRow /\ job_id # NoRow
  BY <1>1 DEF EmptyJob, Job, NoRow
<1> QED
  BY <1>1, <1>2, <1>3, <1>4, <1>5, <1>6, <1>7, PrintHostQueueAssumption DEF Ids

\* The jobs that are left when the thread ends are those not yet popped.
LEMMA LeftRows ==
    ASSUME TypeOK, QueueInv, pc # "ended"
    PROVE  {j.row : j \in ToSet(jobs) \ {EmptyJob}} = {id \in Ids : Upcoming <= id /\ id < Pushed}
<1>1. /\ job_id \in Nat /\ Len(rows) \in Nat /\ Len(rows) <= MaxJobs /\ adding \in BOOLEAN
      /\ bg_exit \in BOOLEAN /\ Len(jobs) \in Nat /\ DOMAIN jobs = 1 .. Len(jobs)
      /\ \A k \in DOMAIN jobs : jobs[k] \in JobType
  <2>1. jobs \in Seq(JobType)
    BY DEF TypeOK, JobType
  <2>2. Len(jobs) \in Nat /\ DOMAIN jobs = 1 .. Len(jobs) /\ \A k \in DOMAIN jobs : jobs[k] \in JobType
    BY <2>1
  <2> QED
    BY <2>2 DEF TypeOK
<1>2. Pushed \in Int /\ Upcoming \in Nat /\ Pushed <= MaxJobs
  BY <1>1, PrintHostQueueAssumption DEF Pushed, Upcoming
<1>3. /\ Len(jobs) = Pushed - Upcoming + IF bg_exit THEN 1 ELSE 0
      /\ \A k \in DOMAIN jobs :
            IF bg_exit /\ k = Len(jobs) THEN jobs[k] = EmptyJob
            ELSE jobs[k].row = Upcoming + k - 1
  BY DEF QueueInv
<1>4. EmptyJob.row = -1
  BY DEF EmptyJob, Job, NoRow
<1>5. ASSUME NEW j \in ToSet(jobs) \ {EmptyJob}
      PROVE  j.row \in Ids /\ Upcoming <= j.row /\ j.row < Pushed
  <2>1. PICK k \in DOMAIN jobs : j = jobs[k]
    BY <1>5 DEF ToSet
  <2>2. ~(bg_exit /\ k = Len(jobs)) /\ j.row = Upcoming + k - 1
    BY <1>3, <1>5, <2>1
  <2>3. k - 1 < Pushed - Upcoming /\ k \in Nat /\ k >= 1
    BY <1>1, <1>2, <1>3, <2>2
  <2> QED
    BY <1>2, <2>2, <2>3, PrintHostQueueAssumption DEF Ids
<1>6. ASSUME NEW id \in Ids, Upcoming <= id, id < Pushed
      PROVE  \E j \in ToSet(jobs) \ {EmptyJob} : j.row = id
  <2>1. id \in Nat
    BY PrintHostQueueAssumption DEF Ids
  <2> DEFINE k == id - Upcoming + 1
  <2>2. k \in 1 .. Len(jobs) /\ ~(bg_exit /\ k = Len(jobs)) /\ Upcoming + k - 1 = id
    BY <1>1, <1>2, <1>3, <1>6, <2>1
  <2> HIDE DEF k
  <2>3. jobs[k].row = id /\ k \in DOMAIN jobs
    BY <1>1, <1>3, <2>2
  <2>4. jobs[k] # EmptyJob
    BY <1>4, <2>1, <2>3
  <2>5. jobs[k] \in ToSet(jobs)
    BY <2>3 DEF ToSet
  <2> QED
    BY <2>3, <2>4, <2>5
<1> QED
  BY <1>5, <1>6

\* The numbering survives every step.
LEMMA QueueStep == TypeOK /\ QueueInv /\ [Next]_vars => TypeOK' /\ QueueInv'
<1> SUFFICES ASSUME TypeOK, QueueInv, [Next]_vars PROVE TypeOK' /\ QueueInv'
  OBVIOUS
<1> USE PrintHostQueueAssumption
<1>t. /\ rows \in Seq(RowState) /\ Len(rows) \in Nat /\ Len(rows) <= MaxJobs
      /\ posted \in [Ids -> Events] /\ jobs \in Seq(JobType) /\ Len(jobs) \in Nat
      /\ DOMAIN jobs = 1 .. Len(jobs)
      /\ job_id \in Nat /\ adding \in BOOLEAN /\ bg_exit \in BOOLEAN
  BY DEF TypeOK, Events, JobType
<1> DEFINE Rest ==
       /\ cancels \subseteq asked /\ asked \subseteq Ids /\ removed \subseteq Ids
       /\ job_id \in 0 .. MaxJobs
       /\ sent \in BOOLEAN
       /\ source_to_remove \in Ids \cup {NoRow}
       /\ source_to_remove # NoRow <=> pc \in {"upload", "abort", "finish"}
       /\ pc \in {"none", "loop", "pop", "upload", "abort", "finish", "ended"}
       /\ adding \in BOOLEAN /\ bg_exit \in BOOLEAN
       /\ outcome \in [Ids -> Outcome]
    Typed == rows \in Seq(RowState) /\ Len(rows) <= MaxJobs /\ posted \in [Ids -> Events]
             /\ jobs \in Seq(JobType)
<1>r. Rest
  BY DEF TypeOK
<1>s. SUFFICES Rest' /\ Typed' /\ QueueInv'
  BY DEF TypeOK, Events, JobType
<1>1. CASE AppendRow
  <2>1. /\ Append(rows, "new") \in Seq(RowState) /\ Len(Append(rows, "new")) = Len(rows) + 1
    BY <1>t, AppendToQueue DEF RowState, Active
  <2>2. Typed'
    BY <1>1, <1>t, <2>1 DEF AppendRow, channels
  <2>3. Rest'
    BY <1>1, <1>r, <1>t DEF AppendRow, channels, history
  <2>4. QueueInv'
    <3>1. Pushed' = Pushed /\ Upcoming' = Upcoming
      BY <1>1, <1>t, <2>1 DEF AppendRow, Pushed, Upcoming
    <3>2. ~bg_exit' /\ (pc' # "ended" <=> pc # "ended")
      BY <1>1 DEF AppendRow
    <3>3. adding' /\ Len(rows') > 0 /\ \A id \in cancels' : id < Len(rows')
      BY <1>1, <1>t, <2>1 DEF AppendRow, QueueInv, channels, TypeOK, Ids
    <3> QED
      BY <1>1, <3>1, <3>2, <3>3 DEF AppendRow, QueueInv, channels
  <2> QED
    BY <2>2, <2>3, <2>4
<1>2. CASE PushJob
  <2> DEFINE j == Job(Len(rows) - 1)
  <2>0. Len(rows) > 0 /\ ~bg_exit
    BY <1>2 DEF PushJob, QueueInv
  <2>1. j \in JobType /\ j.row = Len(rows) - 1
    BY <1>t, <2>0 DEF JobType, Job, Ids
  <2>2. /\ Append(jobs, j) \in Seq(JobType)
        /\ Len(Append(jobs, j)) = Len(jobs) + 1
        /\ DOMAIN Append(jobs, j) = 1 .. Len(jobs) + 1
        /\ Append(jobs, j)[Len(jobs) + 1] = j
        /\ \A i \in DOMAIN jobs : Append(jobs, j)[i] = jobs[i]
    BY <1>t, <2>1, AppendToQueue
  <2> HIDE DEF j
  <2>3. jobs' = Append(jobs, j) /\ adding /\ ~adding'
    BY <1>2 DEF PushJob, j
  <2>4. Typed'
    BY <1>2, <1>t, <2>2, <2>3 DEF PushJob, dialog
  <2>5. Rest'
    BY <1>2, <1>r DEF PushJob, history, thread
  <2>6. QueueInv'
    <3>1. Pushed' = Pushed + 1 /\ Upcoming' = Upcoming /\ Pushed = Len(rows) - 1
      BY <1>2, <1>t DEF PushJob, Pushed, Upcoming, dialog, thread
    <3>2. ~bg_exit' /\ UNCHANGED <<cancels, rows, pc, source_to_remove, job_id>>
      BY <1>2, <2>0 DEF PushJob, dialog, thread
    <3>3. Upcoming \in Int
      BY <1>t DEF Upcoming
    <3>4. CASE pc # "ended"
      <4>1. Len(jobs) = Pushed - Upcoming /\ Upcoming <= Pushed /\ source_to_remove \in {NoRow, job_id}
            /\ \A k \in DOMAIN jobs : jobs[k].row = Upcoming + k - 1
        BY <1>t, <2>0, <3>1, <3>3, <3>4 DEF QueueInv
      <4>2. \A k \in DOMAIN jobs' : jobs'[k].row = Upcoming' + k - 1
        BY <1>t, <2>1, <2>2, <2>3, <3>1, <3>3, <4>1
      <4> QED
        BY <1>t, <2>2, <2>3, <3>1, <3>2, <3>3, <4>1, <4>2 DEF QueueInv
    <3>5. CASE pc = "ended"
      BY <2>3, <3>2, <3>5 DEF QueueInv
    <3> QED
      BY <3>4, <3>5
  <2> QED
    BY <2>4, <2>5, <2>6
<1>3. CASE \E id \in Ids : Cancel(id)
  <2>1. PICK id \in Ids : Cancel(id)
    BY <1>3
  <2>2. Typed'
    BY <1>t, <2>1 DEF Cancel, dialog
  <2>3. Rest'
    BY <1>r, <2>1 DEF Cancel, thread
  <2>4. id < Len(rows)
    BY <1>t, <2>1 DEF Cancel, Row, Ids
  <2>5. QueueInv'
    BY <2>1, <2>4 DEF Cancel, QueueInv, Pushed, Upcoming, dialog, thread
  <2> QED
    BY <2>2, <2>3, <2>5
<1>4. CASE \E id \in Ids : HandleEvent(id)
  <2>1. PICK id \in Ids : HandleEvent(id)
    BY <1>4
  <2>2. Head(posted[id]) \in RowState /\ Tail(posted[id]) \in Events
    BY <1>t, <2>1 DEF HandleEvent, Events
  <2>3. rows' \in Seq(RowState) /\ Len(rows') = Len(rows)
    BY <1>t, <2>1, <2>2, ReplaceInQueue DEF HandleEvent
  <2>4. posted' \in [Ids -> Events]
    BY <1>t, <2>1, <2>2 DEF HandleEvent
  <2>5. Typed'
    BY <1>t, <2>1, <2>3, <2>4 DEF HandleEvent, channels
  <2>6. Rest'
    BY <1>r, <2>1 DEF HandleEvent, thread, history, channels
  <2>7. QueueInv'
    BY <2>1, <2>3 DEF HandleEvent, QueueInv, Pushed, Upcoming, channels, thread
  <2> QED
    BY <2>5, <2>6, <2>7
<1>5. CASE StopBgThread
  <2>1. EmptyJob \in JobType
    BY DEF EmptyJob, Job, JobType
  <2>2. /\ Append(jobs, EmptyJob) \in Seq(JobType)
        /\ Len(Append(jobs, EmptyJob)) = Len(jobs) + 1
        /\ DOMAIN Append(jobs, EmptyJob) = 1 .. Len(jobs) + 1
        /\ Append(jobs, EmptyJob)[Len(jobs) + 1] = EmptyJob
        /\ \A i \in DOMAIN jobs : Append(jobs, EmptyJob)[i] = jobs[i]
    BY <1>t, <2>1, AppendToQueue
  <2>3. Typed'
    BY <1>5, <1>t, <2>2 DEF StopBgThread, dialog
  <2>4. Rest'
    BY <1>5, <1>r DEF StopBgThread, thread, history
  <2>5. /\ Pushed' = Pushed /\ Upcoming' = Upcoming /\ ~bg_exit /\ bg_exit' /\ ~adding' /\ pc' = pc
        /\ jobs' = Append(jobs, EmptyJob) /\ UNCHANGED <<cancels, rows, source_to_remove, job_id>>
    BY <1>5 DEF StopBgThread, Pushed, Upcoming, dialog, thread
  <2>6. Pushed \in Int /\ Upcoming \in Int
    BY <1>t DEF Pushed, Upcoming
  <2>9. (\A id \in cancels' : id < Len(rows')) /\ ~adding'
    BY <2>5 DEF QueueInv
  <2>7. CASE pc # "ended"
    <3>1. Len(jobs) = Pushed - Upcoming /\ Upcoming <= Pushed
          /\ \A k \in DOMAIN jobs : jobs[k].row = Upcoming + k - 1
      BY <1>t, <2>5, <2>6, <2>7 DEF QueueInv
    <3>2. \A k \in DOMAIN jobs' : IF bg_exit' /\ k = Len(jobs') THEN jobs'[k] = EmptyJob
                                  ELSE jobs'[k].row = Upcoming' + k - 1
      BY <1>t, <2>2, <2>5, <3>1
    <3>3. Len(jobs') = Pushed' - Upcoming' + 1
      BY <1>t, <2>2, <2>5, <2>6, <3>1
    <3>4. Upcoming' <= Pushed' /\ source_to_remove' \in {NoRow, job_id'}
      BY <2>5, <2>7, <3>1 DEF QueueInv
    <3> QED
      BY <2>3, <2>4, <2>5, <2>9, <3>2, <3>3, <3>4 DEF QueueInv
  <2>8. CASE pc = "ended"
    BY <2>3, <2>4, <2>5, <2>8, <2>9 DEF QueueInv
  <2> QED
    BY <2>7, <2>8
<1>6. CASE Loop
  <2>1. Typed'
    BY <1>6, <1>t DEF Loop, dialog, channels
  <2>2. removed' \subseteq Ids
    BY <1>6, <1>r, LeftRows DEF Loop, End
  <2>3. Rest'
    BY <1>6, <1>r, <2>2 DEF Loop, End, channels
  <2>4. QueueInv'
    <3>1. CASE ~bg_exit
      BY <1>6, <3>1 DEF Loop, End, QueueInv, Pushed, Upcoming, dialog, channels
    <3>2. CASE bg_exit
      <4>1. pc' = "ended" /\ UNCHANGED <<adding, rows, cancels, bg_exit>>
        BY <1>6, <3>2 DEF Loop, End, dialog, channels
      <4> QED
        BY <4>1 DEF QueueInv
    <3> QED
      BY <3>1, <3>2
  <2> QED
    BY <2>1, <2>3, <2>4
<1>7. CASE Pop
  <2> DEFINE job == Head(jobs)
  <2>1. /\ pc = "pop" /\ jobs # <<>> /\ jobs' = Tail(jobs)
        /\ UNCHANGED <<rows, adding, cancels, bg_exit, job_id, asked>>
    BY <1>7 DEF Pop
  <2>2. /\ source_to_remove = NoRow /\ Upcoming = job_id
        /\ job.row = NoRow => bg_exit /\ Len(jobs) = 1
        /\ job.row # NoRow =>
              /\ job.row = job_id /\ job_id \in Ids /\ job_id < Pushed
              /\ bg_exit => Len(jobs) > 1
    BY <2>1, HeadOfQueue
  <2>3. /\ Tail(jobs) \in Seq(JobType) /\ job \in JobType /\ job = jobs[1] /\ 1 \in DOMAIN jobs
        /\ Len(Tail(jobs)) = Len(jobs) - 1
        /\ DOMAIN Tail(jobs) = 1 .. Len(jobs) - 1
        /\ \A i \in DOMAIN Tail(jobs) : i + 1 \in DOMAIN jobs /\ Tail(jobs)[i] = jobs[i + 1]
    BY <1>t, <2>1, TailOfQueue
  <2>4. CASE job.row = NoRow
    <3>1. /\ pc' = "ended" /\ removed' = removed \cup {j.row : j \in ToSet(jobs') \ {EmptyJob}}
          /\ UNCHANGED <<posted, source_to_remove, sent, outcome>>
      BY <1>7, <2>2, <2>4 DEF Pop, NoRow, Ids
    <3>2. ToSet(jobs') = {}
      BY <2>1, <2>2, <2>3, <2>4 DEF ToSet
    <3>3. removed' = removed
      BY <3>1, <3>2
    <3>4. Rest' /\ Typed'
      BY <1>r, <1>t, <2>1, <2>3, <3>1, <3>3
    <3>5. QueueInv'
      BY <2>1, <3>1 DEF QueueInv
    <3> QED
      BY <3>4, <3>5
  <2>5. CASE job.row # NoRow
    <3>1. /\ source_to_remove' = job_id
          /\ \/ /\ outcome' = [outcome EXCEPT ![job_id] = "skipped"] /\ pc' = "finish"
                /\ UNCHANGED <<posted, sent, removed>>
             \/ /\ posted' = Post(job_id, "progress") /\ sent' = FALSE /\ pc' = "upload"
                /\ UNCHANGED <<outcome, removed>>
      BY <1>7, <2>2, <2>5 DEF Pop
    <3>2. Post(job_id, "progress") \in [Ids -> Events]
      BY <1>t, <2>2, <2>5, PostKeepsType DEF Post, RowState, Active
    <3>3. Typed'
      BY <1>t, <2>1, <2>3, <3>1, <3>2
    <3>4. outcome' \in [Ids -> Outcome]
      BY <1>r, <3>1 DEF Outcome
    <3>s. sent' \in BOOLEAN
      BY <1>r, <3>1
    <3>5. Rest'
      <4>1. job_id \in Ids /\ job_id # NoRow
        BY <2>2, <2>5 
      <4> QED
        BY <1>r, <2>1, <3>1, <3>4, <3>s, <4>1
    <3>6. QueueInv'
      <4>1. Upcoming' = job_id + 1 /\ Pushed' = Pushed
        BY <2>1, <2>2, <2>5, <3>1 DEF Upcoming, Pushed
      <4>2. Pushed \in Int
        BY <1>t DEF Pushed
      <4>3. Len(jobs) = Pushed - job_id + IF bg_exit THEN 1 ELSE 0
        BY <2>1, <2>2 DEF QueueInv
      <4>4. \A k \in DOMAIN jobs : IF bg_exit /\ k = Len(jobs) THEN jobs[k] = EmptyJob
                                   ELSE jobs[k].row = job_id + k - 1
        BY <2>1, <2>2 DEF QueueInv
      <4>5. \A k \in DOMAIN jobs' : IF bg_exit' /\ k = Len(jobs') THEN jobs'[k] = EmptyJob
                                    ELSE jobs'[k].row = job_id + 1 + k - 1
        BY <1>t, <2>1, <2>3, <4>4
      <4>6. Len(jobs') = Pushed' - Upcoming' + IF bg_exit' THEN 1 ELSE 0
        BY <1>t, <2>1, <2>3, <4>1, <4>2, <4>3
      <4>7. Upcoming' <= Pushed'
        BY <1>t, <2>2, <2>5, <4>1, <4>2
      <4> QED
        BY <2>1, <3>1, <4>1, <4>5, <4>6, <4>7 DEF QueueInv
    <3> QED
      BY <3>3, <3>5, <3>6
  <2> QED
    BY <2>4, <2>5
<1>c. pc \in {"upload", "abort", "finish"} =>
         job_id \in Ids /\ job_id < Len(rows) /\ source_to_remove = job_id /\ Upcoming = job_id + 1
  BY CurrentHasRow
<1>8. CASE Finish
  <2>1. job_id + 1 \in 0 .. MaxJobs /\ job_id \in Ids /\ source_to_remove = job_id /\ Upcoming = job_id + 1
    BY <1>8, <1>t, <1>c DEF Finish
  <2>2. Rest' /\ Typed'
    BY <1>8, <1>t, <1>r, <2>1 DEF Finish, dialog, channels
  <2>3. Upcoming' = Upcoming /\ Pushed' = Pushed
    BY <1>8, <2>1 DEF Finish, Upcoming, Pushed, dialog
  <2>4. QueueInv'
    BY <1>8, <2>3 DEF Finish, QueueInv, dialog, channels
  <2> QED
    BY <2>2, <2>4
<1>9. CASE Callback
  <2>1. PICK all \in BOOLEAN : ProgressFn(all)
    BY <1>9 DEF Callback
  <2>2. CASE bg_exit
    <3>1. pc = "upload" /\ pc' = "abort" /\ sent' \in BOOLEAN
          /\ UNCHANGED <<posted, channels, rows, adding, bg_exit, job_id, source_to_remove, history>>
      BY <2>1, <2>2 DEF ProgressFn
    <3>2. Rest' /\ Typed'
      BY <1>t, <1>r, <3>1 DEF channels, history
    <3>3. QueueInv'
      BY <3>1 DEF QueueInv, Upcoming, Pushed, channels
    <3> QED
      BY <3>2, <3>3
  <2>3. CASE ~bg_exit
    <3>1. /\ pc = "upload" /\ pc' \in {"upload", "abort"} /\ sent' \in BOOLEAN
          /\ jobs' = MarkedJobs /\ cancels' = {}
          /\ posted' = Announced \/ posted' = [Announced EXCEPT ![job_id] = Append(@, "completed")]
          /\ UNCHANGED <<rows, adding, bg_exit, job_id, source_to_remove, history>>
      BY <2>1, <2>3 DEF ProgressFn
    <3>2. Announced \in [Ids -> Events] /\ job_id \in Ids
      BY <3>1, AnnouncedRows DEF Events
    <3>3. [Announced EXCEPT ![job_id] = Append(@, "completed")] \in [Ids -> Events]
      BY <3>2, PostKeepsType DEF RowState
    <3>4. posted' \in [Ids -> Events]
      BY <3>1, <3>2, <3>3
    <3>5. /\ MarkedJobs \in Seq(JobType) /\ Len(MarkedJobs) = Len(jobs)
          /\ DOMAIN MarkedJobs = DOMAIN jobs
          /\ \A k \in DOMAIN jobs : MarkedJobs[k].row = jobs[k].row
      BY <3>1, Marked
    <3>6. Rest' /\ Typed'
      BY <1>t, <1>r, <3>1, <3>4, <3>5 DEF history
    <3>7. Upcoming' = Upcoming /\ Pushed' = Pushed
      BY <3>1 DEF Upcoming, Pushed
    <3>8. QueueInv'
      BY <2>3, <3>1, <3>5, <3>7 DEF QueueInv
    <3> QED
      BY <3>6, <3>8
  <2> QED
    BY <2>2, <2>3
<1>10. CASE ErrorFn
  <2>1. /\ pc = "upload" /\ pc' = "finish"
        /\ jobs' = MarkedJobs /\ cancels' = {}
        /\ UNCHANGED <<rows, adding, bg_exit, asked, removed, job_id, source_to_remove, sent>>
    BY <1>10 DEF ErrorFn
  <2>2. /\ Announced \in [Ids -> Events] /\ job_id \in Ids
    BY <2>1, AnnouncedRows DEF Events
  <2>3. \A state \in RowState \ {"new"} :
           [Announced EXCEPT ![job_id] = Append(@, state)] \in [Ids -> Events]
    BY <2>2, PostKeepsType
  <2>4. posted' \in [Ids -> Events]
    <3>1. PICK state \in {"cancelled", "error"} :
             posted' = [Announced EXCEPT ![job_id] = Append(@, state)]
      BY <1>10 DEF ErrorFn
    <3> QED
      BY <2>3, <3>1 DEF RowState, Active
  <2>5. /\ MarkedJobs \in Seq(JobType) /\ Len(MarkedJobs) = Len(jobs)
        /\ DOMAIN MarkedJobs = DOMAIN jobs
        /\ \A k \in DOMAIN jobs :
              /\ MarkedJobs[k].row = jobs[k].row
              /\ job_id + k \notin cancels => MarkedJobs[k] = jobs[k]
              /\ job_id + k \in cancels => jobs[k].row = job_id + k
    BY <2>1, Marked
  <2>6. outcome' \in [Ids -> Outcome]
    BY <1>10, <1>r DEF ErrorFn, Outcome
  <2>7. Rest' /\ Typed'
    BY <1>t, <1>r, <2>1, <2>4, <2>5, <2>6
  <2>8. Upcoming' = Upcoming /\ Pushed' = Pushed
    BY <2>1 DEF Upcoming, Pushed
  <2>9. bg_exit /\ Len(jobs) \in DOMAIN jobs => MarkedJobs[Len(jobs)] = EmptyJob
    <3>1. bg_exit /\ Len(jobs) \in DOMAIN jobs => jobs[Len(jobs)] = EmptyJob
      BY <2>1 DEF QueueInv
    <3>2. EmptyJob.row = -1
      BY DEF EmptyJob, Job, NoRow
    <3> QED
      BY <1>t, <2>5, <3>1, <3>2
  <2>10. QueueInv'
    BY <2>1, <2>5, <2>8, <2>9 DEF QueueInv
  <2> QED
    BY <2>7, <2>10
<1>11. CASE Aborted \/ Uploaded
  <2>1. /\ pc \in {"upload", "abort"} /\ pc' = "finish"
        /\ UNCHANGED <<rows, adding, channels, bg_exit, asked, removed, job_id, source_to_remove, sent>>
        /\ \E state \in {"cancelled", "completed"} : posted' = Post(job_id, state)
        /\ \E o \in {"aborted", "uploaded"} : outcome' = [outcome EXCEPT ![job_id] = o]
    BY <1>11 DEF Aborted, Uploaded
  <2>2. posted' \in [Ids -> Events]
    BY <1>t, <1>c, <2>1, PostKeepsType DEF Post, RowState, Active
  <2>3. outcome' \in [Ids -> Outcome]
    BY <1>r, <2>1 DEF Outcome
  <2>4. Rest' /\ Typed'
    BY <1>t, <1>r, <2>1, <2>2, <2>3 DEF channels
  <2>5. QueueInv'
    BY <2>1 DEF QueueInv, Upcoming, Pushed, channels
  <2> QED
    BY <2>4, <2>5
<1>12. CASE Throws
  <2>1. /\ pc = "upload" /\ pc' = "ended" /\ source_to_remove' = NoRow
        /\ UNCHANGED <<rows, adding, channels, bg_exit, asked, job_id, sent>>
        /\ posted' = Post(job_id, "error") /\ outcome' = [outcome EXCEPT ![job_id] = "failed"]
    BY <1>12 DEF Throws, End
  <2>2. posted' \in [Ids -> Events]
    BY <1>t, <1>c, <2>1, PostKeepsType DEF Post, RowState, Active
  <2>3. outcome' \in [Ids -> Outcome]
    BY <1>r, <2>1 DEF Outcome
  <2>4. removed' \subseteq Ids
    BY <1>12, <1>r, <2>1, LeftRows DEF Throws, End
  <2>5. Rest' /\ Typed'
    BY <1>t, <1>r, <2>1, <2>2, <2>3, <2>4 DEF channels
  <2>6. QueueInv'
    BY <2>1 DEF QueueInv, channels
  <2> QED
    BY <2>5, <2>6
<1>13. CASE UNCHANGED vars
  <2>1. Rest' /\ Typed'
    BY <1>13, <1>t, <1>r DEF vars, dialog, channels, thread, history
  <2>2. QueueInv'
    BY <1>13 DEF vars, dialog, channels, thread, history, QueueInv, Pushed, Upcoming
  <2> QED
    BY <2>1, <2>2
<1> QED
  BY <1>1, <1>2, <1>3, <1>4, <1>5, <1>6, <1>7, <1>8, <1>9, <1>10, <1>11, <1>12, <1>13
  DEF Next, Terminating

\* A job is left with its outcome known.
LEMMA OutcomeStep == TypeOK /\ QueueInv /\ OutcomeInv /\ [Next]_vars => OutcomeInv'
<1> SUFFICES ASSUME TypeOK, QueueInv, OutcomeInv, [Next]_vars PROVE OutcomeInv'
  OBVIOUS
<1> USE DEF OutcomeInv
<1>t. job_id \in Nat /\ outcome \in [Ids -> Outcome] /\ \A id \in Ids : id \in Nat
  BY PrintHostQueueAssumption DEF TypeOK, Ids
<1>c. pc \in {"upload", "abort", "finish"} => job_id \in Ids
  BY CurrentHasRow
<1>1. CASE AppendRow \/ PushJob \/ StopBgThread \/ \E id \in Ids : Cancel(id) \/ HandleEvent(id)
  <2>1. UNCHANGED <<job_id, outcome>> /\ (pc' = pc \/ (pc = "none" /\ pc' = "loop"))
    BY <1>1 DEF AppendRow, PushJob, StopBgThread, Cancel, HandleEvent, thread, history
  <2> QED
    BY <2>1
<1>2. CASE Loop
  <2>1. UNCHANGED <<job_id, outcome>> /\ pc = "loop" /\ pc' \in {"pop", "ended"}
    BY <1>2 DEF Loop, End
  <2> QED
    BY <2>1
<1>3. CASE Pop
  <2>1. job_id' = job_id /\ pc = "pop"
    BY <1>3 DEF Pop
  <2>2. CASE UNCHANGED outcome /\ pc' \in {"ended", "upload"}
    BY <2>1, <2>2
  <2>3. CASE Head(jobs).row # NoRow /\ outcome' = [outcome EXCEPT ![Head(jobs).row] = "skipped"] /\ pc' = "finish"
    <3>1. Head(jobs).row = job_id /\ job_id \in Ids
      BY <1>3, <2>3, HeadOfQueue DEF Pop
    <3> QED
      BY <1>t, <2>1, <2>3, <3>1
  <2> QED
    BY <1>3, <2>2, <2>3 DEF Pop
<1>4. CASE Finish
  BY <1>4, <1>t, <1>c DEF Finish
<1>5. CASE Callback
  <2>1. UNCHANGED <<job_id, outcome>> /\ pc = "upload" /\ pc' \in {"upload", "abort"}
    BY <1>5 DEF Callback, ProgressFn, history
  <2> QED
    BY <2>1
<1>6. CASE Aborted \/ ErrorFn \/ Uploaded \/ Throws
  <2>1. /\ job_id' = job_id /\ pc \in {"upload", "abort"} /\ pc' \in {"finish", "ended"}
        /\ \E o \in Outcome \ {"open"} : outcome' = [outcome EXCEPT ![job_id] = o]
    BY <1>6 DEF Aborted, ErrorFn, Uploaded, Throws, End, Outcome
  <2> QED
    BY <1>t, <1>c, <2>1
<1>7. CASE UNCHANGED vars
  BY <1>7 DEF vars, thread, history
<1> QED
  BY <1>1, <1>2, <1>3, <1>4, <1>5, <1>6, <1>7 DEF Next, Terminating

\* While a job is at hand it is not shown as cancelled, nor is it in the channel.
LEMMA CurrentIsOpen ==
    ASSUME TypeOK, QueueInv, OutcomeInv, CancelInv, pc \in {"pop", "upload"}
    PROVE  /\ job_id \in Ids => outcome[job_id] = "open"
           /\ pc = "upload" => /\ job_id \in Ids /\ ~Shown(job_id)
                               /\ \A k \in DOMAIN jobs : jobs[k].row # job_id
<1>1. job_id \in Nat /\ jobs \in Seq(JobType) /\ DOMAIN jobs = 1 .. Len(jobs)
  BY DEF TypeOK, JobType
<1>2. job_id \in Ids => outcome[job_id] = "open"
  BY <1>1 DEF OutcomeInv
<1>3. ASSUME pc = "upload", NEW k \in DOMAIN jobs
      PROVE  jobs[k].row # job_id
  <2>1. Upcoming = job_id + 1
    BY <1>3, CurrentHasRow
  <2>2. jobs[k] = EmptyJob \/ jobs[k].row = Upcoming + k - 1
    BY <1>3 DEF QueueInv
  <2> QED
    BY <1>1, <2>1, <2>2 DEF EmptyJob, Job, NoRow
<1>4. pc = "upload" => job_id \in Ids
  BY CurrentHasRow
<1> QED
  BY <1>2, <1>3, <1>4 DEF CancelInv, Covered

\* What is left of the events of a row when the first is handled, and what one
\* more adds to them.
LEMMA EventHandled ==
    ASSUME NEW e \in Events, e # <<>>
    PROVE  /\ Tail(e) \in Events /\ Head(e) \in ToSet(e) /\ ToSet(Tail(e)) \subseteq ToSet(e)
           /\ Tail(e) = <<>> => Head(e) = e[Len(e)]
           /\ Tail(e) # <<>> => Tail(e)[Len(Tail(e))] = e[Len(e)]
<1>1. e \in Seq(RowState \ {"new"})
  BY DEF Events
<1>2. /\ Tail(e) \in Seq(RowState \ {"new"}) /\ Head(e) = e[1] /\ 1 \in DOMAIN e
      /\ Len(Tail(e)) = Len(e) - 1 /\ Len(e) > 0 /\ Len(e) \in Nat
      /\ DOMAIN Tail(e) = 1 .. Len(e) - 1
      /\ \A i \in DOMAIN Tail(e) : i + 1 \in DOMAIN e /\ Tail(e)[i] = e[i + 1]
  BY <1>1, TailOfQueue
<1>3. Head(e) \in ToSet(e) /\ ToSet(Tail(e)) \subseteq ToSet(e)
  BY <1>2 DEF ToSet
<1>4. Tail(e) = <<>> => Head(e) = e[Len(e)]
  BY <1>2
<1>5. Tail(e) # <<>> => Tail(e)[Len(Tail(e))] = e[Len(e)]
  <2>1. Tail(e) # <<>> => Len(e) - 1 \in 1 .. Len(e) - 1
    BY <1>2
  <2> QED
    BY <1>2, <2>1
<1> QED
  BY <1>2, <1>3, <1>4, <1>5 DEF Events

LEMMA EventPosted ==
    ASSUME NEW e \in Events, NEW state \in RowState \ {"new"}
    PROVE  /\ Append(e, state) # <<>> /\ Append(e, state)[Len(Append(e, state))] = state
           /\ ToSet(Append(e, state)) \subseteq ToSet(e) \cup {state}
<1>1. e \in Seq(RowState \ {"new"})
  BY DEF Events
<1>2. /\ Append(e, state) # <<>>
      /\ Len(Append(e, state)) = Len(e) + 1 /\ Len(e) \in Nat
      /\ DOMAIN Append(e, state) = 1 .. Len(e) + 1 /\ DOMAIN e = 1 .. Len(e)
      /\ Append(e, state)[Len(e) + 1] = state
      /\ \A i \in DOMAIN e : Append(e, state)[i] = e[i]
  BY <1>1, AppendToQueue
<1>3. ASSUME NEW i \in DOMAIN Append(e, state)
      PROVE  Append(e, state)[i] \in ToSet(e) \cup {state}
  BY <1>2 DEF ToSet
<1>4. ToSet(Append(e, state)) \subseteq ToSet(e) \cup {state}
  BY <1>3 DEF ToSet
<1> QED
  BY <1>2, <1>4

\* A callback covers what it announces.
LEMMA MarkedAreCovered ==
    ASSUME TypeOK, QueueInv, CancelInv, pc = "upload",
           jobs' = MarkedJobs, rows' = rows, asked' = asked,
           \A id \in Ids : id # job_id => posted'[id] = Announced[id] /\ outcome'[id] = outcome[id]
    PROVE  /\ \A k \in DOMAIN jobs' : jobs'[k].cancelled => jobs'[k].row \in asked'
           /\ \A id \in Ids : id # job_id /\ Shown(id)' => Covered(id)'
<1>1. /\ jobs \in Seq(JobType) /\ posted \in [Ids -> Events] /\ cancels \subseteq asked
      /\ job_id \in Nat /\ DOMAIN jobs = 1 .. Len(jobs)
  <2>1. jobs \in Seq(JobType)
    BY DEF TypeOK, JobType
  <2> QED
    BY <2>1 DEF TypeOK, Events
<1>2. /\ DOMAIN MarkedJobs = DOMAIN jobs
      /\ \A k \in DOMAIN jobs :
            /\ MarkedJobs[k].row = jobs[k].row
            /\ jobs[k].cancelled => MarkedJobs[k].cancelled
            /\ job_id + k \in cancels => MarkedJobs[k].cancelled /\ jobs[k].row = job_id + k
            /\ job_id + k \notin cancels => MarkedJobs[k] = jobs[k]
  BY Marked
<1>3. \A k \in DOMAIN jobs' : jobs'[k].cancelled => jobs'[k].row \in asked'
  BY <1>1, <1>2 DEF CancelInv
<1>4. ASSUME NEW id \in Ids, id # job_id, Shown(id)'
      PROVE  Covered(id)'
  <2>1. CASE Shown(id)
    <3>1. Covered(id)
      BY <2>1 DEF CancelInv
    <3> QED
      BY <1>2, <1>4, <3>1 DEF Covered
  <2>2. CASE ~Shown(id)
    <3>1. posted'[id] # posted[id]
      BY <1>4, <2>2 DEF Shown
    <3>2. id \in cancels /\ id - job_id \in DOMAIN jobs /\ id = job_id + (id - job_id)
      BY <1>4, <3>1, AnnouncedRows
    <3>3. PICK k \in DOMAIN jobs : job_id + k \in cancels /\ id = job_id + k
      BY <3>2
    <3>4. MarkedJobs[k].cancelled /\ MarkedJobs[k].row = id
      BY <1>2, <3>3
    <3> QED
      BY <1>2, <3>4 DEF Covered
  <2> QED
    BY <2>1, <2>2
<1> QED
  BY <1>3, <1>4

\* The effect of a step on what is shown as cancelled, on what is covered.
LEMMA CancelStep == TypeOK /\ QueueInv /\ OutcomeInv /\ CancelInv /\ [Next]_vars => CancelInv'
<1> SUFFICES ASSUME TypeOK, QueueInv, OutcomeInv, CancelInv, [Next]_vars PROVE CancelInv'
  OBVIOUS
<1> USE DEF CancelInv
<1>t. /\ rows \in Seq(RowState) /\ posted \in [Ids -> Events] /\ jobs \in Seq(JobType)
      /\ DOMAIN jobs = 1 .. Len(jobs) /\ Len(jobs) \in Nat
      /\ outcome \in [Ids -> Outcome] /\ cancels \subseteq asked /\ asked \subseteq Ids
      /\ \A id \in Ids : id \in Nat
  <2>1. jobs \in Seq(JobType)
    BY DEF TypeOK, JobType
  <2> QED
    BY <2>1, PrintHostQueueAssumption DEF TypeOK, Events, Ids
<1>j. \A k \in DOMAIN jobs : jobs[k].cancelled => jobs[k].row \in Ids
  BY <1>t
<1>1. CASE AppendRow
  <2>1. /\ rows' = Append(rows, "new") /\ UNCHANGED <<posted, jobs, asked, outcome, bg_exit, job_id>>
        /\ pc' # "abort" \/ pc' = pc
    BY <1>1 DEF AppendRow, channels, history
  <2>2. \A id \in Ids : Shown(id)' => Shown(id)
    <3>1. /\ DOMAIN Append(rows, "new") = 1 .. Len(rows) + 1 /\ DOMAIN rows = 1 .. Len(rows)
          /\ Append(rows, "new")[Len(rows) + 1] = "new"
          /\ \A i \in DOMAIN rows : Append(rows, "new")[i] = rows[i]
      BY <1>t, AppendToQueue DEF RowState, Active
    <3>2. Len(rows) \in Nat
      BY <1>t
    <3> QED
      BY <2>1, <3>1, <3>2 DEF Shown, Row
  <2>3. \A id \in Ids : Covered(id) => Covered(id)'
    BY <2>1 DEF Covered
  <2> QED
    BY <2>1, <2>2, <2>3
<1>2. CASE PushJob \/ StopBgThread
  <2>1. PICK j \in JobType : /\ jobs' = Append(jobs, j) /\ j.cancelled = FALSE
                             /\ UNCHANGED <<rows, posted, asked, outcome, job_id, pc>>
                             /\ bg_exit => bg_exit'
    <3>1. CASE PushJob
      <4>1. Job(Len(rows) - 1) \in JobType /\ Job(Len(rows) - 1).cancelled = FALSE
        <5>1. Len(rows) \in Nat /\ Len(rows) > 0 /\ Len(rows) <= MaxJobs
          BY <3>1 DEF PushJob, QueueInv, TypeOK
        <5> QED
          BY <5>1, PrintHostQueueAssumption DEF Job, JobType, Ids
      <4> QED
        BY <3>1, <4>1 DEF PushJob, dialog, thread, history
    <3>2. CASE StopBgThread
      <4>1. EmptyJob \in JobType /\ EmptyJob.cancelled = FALSE
        BY DEF EmptyJob, Job, JobType
      <4> QED
        BY <3>2, <4>1 DEF StopBgThread, dialog, thread, history
    <3> QED
      BY <1>2, <3>1, <3>2
  <2>2. /\ DOMAIN Append(jobs, j) = 1 .. Len(jobs) + 1
        /\ Append(jobs, j)[Len(jobs) + 1] = j
        /\ \A i \in DOMAIN jobs : i \in DOMAIN Append(jobs, j) /\ Append(jobs, j)[i] = jobs[i]
    BY <1>t, AppendToQueue
  <2>3. \A id \in Ids : Shown(id)' => Shown(id)
    BY <2>1 DEF Shown
  <2>4. \A id \in Ids : Covered(id) => Covered(id)'
    BY <2>1, <2>2 DEF Covered
  <2>5. \A k \in DOMAIN jobs' : jobs'[k].cancelled => jobs'[k].row \in asked'
    BY <1>t, <2>1, <2>2
  <2> QED
    BY <2>1, <2>3, <2>4, <2>5
<1>3. CASE \E id \in Ids : Cancel(id)
  <2>1. /\ UNCHANGED <<rows, posted, jobs, outcome, bg_exit, job_id, pc>> /\ asked \subseteq asked'
    BY <1>3 DEF Cancel, dialog, thread
  <2>2. \A id \in Ids : (Shown(id)' => Shown(id)) /\ (Covered(id) => Covered(id)')
    BY <2>1 DEF Shown, Covered
  <2> QED
    BY <2>1, <2>2
<1>4. CASE \E id \in Ids : HandleEvent(id)
  <2>1. PICK id \in Ids : HandleEvent(id)
    BY <1>4
  <2>2. /\ rows' = [rows EXCEPT ![Row(id)] = Head(posted[id])]
        /\ posted' = [posted EXCEPT ![id] = Tail(@)] /\ posted[id] # <<>>
        /\ UNCHANGED <<jobs, asked, outcome, bg_exit, job_id, pc>>
    BY <2>1 DEF HandleEvent, channels, thread, history
  <2>3. Head(posted[id]) \in ToSet(posted[id]) /\ ToSet(Tail(posted[id])) \subseteq ToSet(posted[id])
    BY <1>t, <2>2, EventHandled
  <2>4. ASSUME NEW i \in Ids, Shown(i)' PROVE Shown(i)
    <3>1. CASE i = id
      BY <1>t, <2>2, <2>3, <2>4, <3>1 DEF Shown
    <3>2. CASE i # id
      BY <1>t, <2>2, <2>4, <3>2 DEF Shown, Row
    <3> QED
      BY <3>1, <3>2
  <2>5. \A i \in Ids : Covered(i) => Covered(i)'
    BY <2>2 DEF Covered
  <2> QED
    BY <2>2, <2>4, <2>5
<1>5. CASE Loop \/ Finish
  <2>1. UNCHANGED <<rows, posted, jobs, asked, outcome, bg_exit>> /\ pc' # "abort"
    BY <1>5 DEF Loop, Finish, End, dialog, channels
  <2>2. \A id \in Ids : (Shown(id)' => Shown(id)) /\ (Covered(id) => Covered(id)')
    BY <2>1 DEF Shown, Covered
  <2> QED
    BY <2>1, <2>2
<1>6. CASE Pop
  <2> DEFINE job == Head(jobs)
  <2>1. /\ pc = "pop" /\ jobs # <<>> /\ jobs' = Tail(jobs) /\ pc' # "abort"
        /\ UNCHANGED <<rows, bg_exit, job_id, asked>>
    BY <1>6 DEF Pop
  <2>2. job.row # NoRow => job.row = job_id /\ job_id \in Ids
    BY <2>1, HeadOfQueue
  <2>3. /\ job = jobs[1] /\ 1 \in DOMAIN jobs
        /\ DOMAIN Tail(jobs) = 1 .. Len(jobs) - 1
        /\ \A i \in DOMAIN Tail(jobs) : i + 1 \in DOMAIN jobs /\ Tail(jobs)[i] = jobs[i + 1]
    BY <1>t, <2>1, TailOfQueue
  <2>4. \A k \in DOMAIN jobs' : jobs'[k].cancelled => jobs'[k].row \in asked'
    BY <2>1, <2>3
  <2>5. \A k \in DOMAIN jobs : k = 1 \/ (k - 1 \in DOMAIN jobs' /\ jobs'[k - 1] = jobs[k])
    BY <1>t, <2>1, <2>3
  <2>6. CASE job.row # NoRow /\ job.cancelled
    <3>1. outcome' = [outcome EXCEPT ![job_id] = "skipped"] /\ posted' = posted
      BY <1>6, <2>2, <2>6 DEF Pop
    <3>2. \A id \in Ids : Shown(id)' => Shown(id)
      BY <2>1, <3>1 DEF Shown
    <3>3. job_id \in asked
      BY <2>2, <2>3, <2>6
    <3>4. ASSUME NEW id \in Ids, Covered(id) PROVE Covered(id)'
      <4>1. CASE id = job_id
        BY <1>t, <3>1, <4>1 DEF Covered
      <4>2. CASE id # job_id
        BY <1>t, <2>2, <2>3, <2>5, <2>6, <3>1, <3>4, <4>2 DEF Covered
      <4> QED
        BY <4>1, <4>2
    <3> QED
      BY <1>t, <2>1, <2>4, <3>1, <3>2, <3>3, <3>4
  <2>7. CASE ~(job.row # NoRow /\ job.cancelled)
    <3>1. outcome' = outcome
      BY <1>6, <2>7 DEF Pop
    <3>2. posted' = posted \/ (job.row # NoRow /\ posted' = Post(job_id, "progress"))
      BY <1>6, <2>7 DEF Pop
    <3>3. ASSUME NEW id \in Ids, Shown(id)' PROVE Shown(id)
      <4>1. ToSet(Append(posted[id], "progress")) \subseteq ToSet(posted[id]) \cup {"progress"}
        BY <1>t, EventPosted DEF RowState, Active
      <4>2. ToSet(posted'[id]) \subseteq ToSet(posted[id]) \cup {"progress"}
        BY <1>t, <2>2, <3>2, <4>1 DEF Post
      <4> QED
        BY <2>1, <3>3, <4>2 DEF Shown
    <3>4. ASSUME NEW id \in Ids, Covered(id) PROVE Covered(id)'
      <4>1. job.row = id => ~job.cancelled
        BY <1>t, <2>7 DEF NoRow
      <4> QED
        BY <2>3, <2>5, <3>1, <3>4, <4>1 DEF Covered
    <3> QED
      BY <2>1, <2>4, <3>1, <3>3, <3>4
  <2> QED
    BY <2>6, <2>7
<1>7. CASE Callback
  <2>1. PICK all \in BOOLEAN : ProgressFn(all)
    BY <1>7 DEF Callback
  <2>2. CASE bg_exit
    <3>1. UNCHANGED <<rows, posted, jobs, asked, outcome, bg_exit, job_id>>
      BY <2>1, <2>2 DEF ProgressFn, channels, history
    <3>2. \A id \in Ids : (Shown(id)' => Shown(id)) /\ (Covered(id) => Covered(id)')
      BY <3>1 DEF Shown, Covered
    <3> QED
      BY <2>2, <3>1, <3>2
  <2>3. CASE ~bg_exit
    <3>1. /\ pc = "upload" /\ jobs' = MarkedJobs
          /\ pc' = "abort" => job_id \in cancels
          /\ posted' = Announced \/ posted' = [Announced EXCEPT ![job_id] = Append(@, "completed")]
          /\ UNCHANGED <<rows, bg_exit, job_id, asked, outcome>>
      BY <2>1, <2>3 DEF ProgressFn, history
    <3>2. /\ job_id \in Ids /\ ~Shown(job_id) /\ Announced[job_id] = posted[job_id]
          /\ Announced \in [Ids -> Events]
      BY <3>1, CurrentIsOpen, AnnouncedRows DEF Events
    <3>3. /\ \A k \in DOMAIN jobs' : jobs'[k].cancelled => jobs'[k].row \in asked'
          /\ \A id \in Ids : id # job_id /\ Shown(id)' => Covered(id)'
      <4>1. \A id \in Ids : id # job_id => posted'[id] = Announced[id]
        BY <3>1, <3>2
      <4> QED
        BY <3>1, <4>1, MarkedAreCovered
    <3>4. ~Shown(job_id)'
      <4>1. ToSet(Append(posted[job_id], "completed")) \subseteq ToSet(posted[job_id]) \cup {"completed"}
        BY <1>t, <3>2, EventPosted DEF RowState
      <4>2. ToSet(posted'[job_id]) \subseteq ToSet(posted[job_id]) \cup {"completed"}
        BY <3>1, <3>2, <4>1
      <4> QED
        BY <3>1, <3>2, <4>2 DEF Shown
    <3> QED
      BY <1>t, <3>1, <3>2, <3>3, <3>4
  <2> QED
    BY <2>2, <2>3
<1>8. CASE ErrorFn
  <2>1. /\ pc = "upload" /\ jobs' = MarkedJobs /\ pc' = "finish"
        /\ UNCHANGED <<rows, bg_exit, job_id, asked>>
        /\ \/ /\ job_id \in cancels
              /\ posted' = [Announced EXCEPT ![job_id] = Append(@, "cancelled")]
              /\ outcome' = [outcome EXCEPT ![job_id] = "aborted"]
           \/ /\ posted' = [Announced EXCEPT ![job_id] = Append(@, "error")]
              /\ outcome' = [outcome EXCEPT ![job_id] = "failed"]
    BY <1>8 DEF ErrorFn
  <2>2. /\ job_id \in Ids /\ ~Shown(job_id) /\ Announced[job_id] = posted[job_id]
        /\ Announced \in [Ids -> Events]
    BY <2>1, CurrentIsOpen, AnnouncedRows DEF Events
  <2>3. /\ \A k \in DOMAIN jobs' : jobs'[k].cancelled => jobs'[k].row \in asked'
        /\ \A id \in Ids : id # job_id /\ Shown(id)' => Covered(id)'
    <3>1. \A id \in Ids : id # job_id => posted'[id] = Announced[id] /\ outcome'[id] = outcome[id]
      BY <1>t, <2>1, <2>2
    <3> QED
      BY <2>1, <3>1, MarkedAreCovered
  <2>4. CASE /\ job_id \in cancels
             /\ outcome' = [outcome EXCEPT ![job_id] = "aborted"]
    <3>1. Covered(job_id)'
      BY <1>t, <2>1, <2>2, <2>4 DEF Covered
    <3> QED
      BY <1>t, <2>1, <2>2, <2>3, <2>4, <3>1
  <2>5. CASE /\ posted' = [Announced EXCEPT ![job_id] = Append(@, "error")]
             /\ outcome' = [outcome EXCEPT ![job_id] = "failed"]
    <3>1. ToSet(Append(posted[job_id], "error")) \subseteq ToSet(posted[job_id]) \cup {"error"}
      BY <1>t, <2>2, EventPosted DEF RowState
    <3>2. ToSet(posted'[job_id]) \subseteq ToSet(posted[job_id]) \cup {"error"}
      BY <2>2, <2>5, <3>1
    <3>3. ~Shown(job_id)'
      BY <2>1, <2>2, <3>2 DEF Shown
    <3> QED
      BY <1>t, <2>1, <2>2, <2>3, <2>5, <3>3
  <2> QED
    BY <2>1, <2>4, <2>5
<1>c. pc \in {"upload", "abort"} => job_id \in Ids
  BY CurrentHasRow
<1>9. CASE Aborted
  <2>1. /\ UNCHANGED <<rows, jobs, asked, bg_exit, job_id>> /\ pc' = "finish" /\ pc = "abort"
        /\ posted' = Post(job_id, "cancelled") /\ outcome' = [outcome EXCEPT ![job_id] = "aborted"]
    BY <1>9 DEF Aborted, channels
  <2>2. job_id \in Ids
    BY <1>c, <2>1
  <2>3. Covered(job_id)'
    BY <1>t, <2>1, <2>2 DEF Covered
  <2>4. \A id \in Ids : id # job_id => (Shown(id)' => Shown(id)) /\ (Covered(id) => Covered(id)')
    BY <1>t, <2>1 DEF Shown, Covered, Post
  <2> QED
    BY <1>t, <2>1, <2>2, <2>3, <2>4
<1>10. CASE Uploaded \/ Throws
  <2>1. /\ UNCHANGED <<rows, jobs, asked, bg_exit, job_id>> /\ pc' # "abort" /\ pc = "upload"
        /\ \E state \in {"completed", "error"} : posted' = Post(job_id, state)
        /\ \E o \in {"uploaded", "failed"} : outcome' = [outcome EXCEPT ![job_id] = o]
    BY <1>10 DEF Uploaded, Throws, End, channels
  <2>2. job_id \in Ids /\ ~Shown(job_id)
    BY <2>1, CurrentIsOpen
  <2>3. \A id \in Ids : id # job_id => (Shown(id)' => Shown(id)) /\ (Covered(id) => Covered(id)')
    BY <1>t, <2>1 DEF Shown, Covered, Post
  <2>4. ~Shown(job_id)'
    <3>1. \A state \in {"completed", "error"} :
             ToSet(Append(posted[job_id], state)) \subseteq ToSet(posted[job_id]) \cup {state}
      BY <1>t, <2>2, EventPosted DEF RowState
    <3>2. ToSet(posted'[job_id]) \subseteq ToSet(posted[job_id]) \cup {"completed", "error"}
      BY <1>t, <2>1, <2>2, <3>1 DEF Post
    <3> QED
      BY <2>1, <2>2, <3>2 DEF Shown
  <2> QED
    BY <1>t, <2>1, <2>2, <2>3, <2>4
<1>11. CASE UNCHANGED vars
  BY <1>11 DEF vars, dialog, channels, thread, history, Shown, Covered
<1> QED
  BY <1>1, <1>2, <1>3, <1>4, <1>5, <1>6, <1>7, <1>8, <1>9, <1>10, <1>11 DEF Next, Terminating

\* What a callback announces is what the rows of the marked jobs will show.
LEMMA MarkedAreShown ==
    ASSUME TypeOK, QueueInv, RowInv, pc = "upload",
           jobs' = MarkedJobs, rows' = rows,
           \A id \in Ids : id # job_id => posted'[id] = Announced[id]
    PROVE  /\ \A id \in Ids : id # job_id /\ posted'[id] # <<>> => id < Len(rows)
           /\ \A id \in Ids : id < job_id => Latest(id)' = Latest(id)
           /\ \A id \in Ids : \A k \in DOMAIN jobs' :
                 id # job_id /\ jobs'[k].row = id /\ jobs'[k].cancelled =>
                    id < Len(rows) /\ Latest(id)' = "cancelled"
<1>1. /\ jobs \in Seq(JobType) /\ posted \in [Ids -> Events] /\ cancels \subseteq Ids
      /\ job_id \in Nat /\ DOMAIN jobs = 1 .. Len(jobs) /\ Len(jobs) \in Nat /\ \A id \in Ids : id \in Nat
  <2>1. jobs \in Seq(JobType)
    BY DEF TypeOK, JobType
  <2> QED
    BY <2>1, PrintHostQueueAssumption DEF TypeOK, Events, Ids
<1>2. \A id \in Ids :
         \/ Announced[id] = posted[id]
         \/ /\ Announced[id] = Append(posted[id], "cancelled") /\ id \in cancels
            /\ id - job_id \in DOMAIN jobs /\ id # job_id
  BY AnnouncedRows
<1>3. \A id \in Ids :
         /\ Append(posted[id], "cancelled") # <<>>
         /\ Append(posted[id], "cancelled")[Len(Append(posted[id], "cancelled"))] = "cancelled"
  BY <1>1, EventPosted DEF RowState
<1>4. \A id \in Ids : id # job_id /\ posted'[id] # <<>> => id < Len(rows)
  BY <1>2 DEF QueueInv, RowInv
<1>5. \A id \in Ids : id < job_id => Latest(id)' = Latest(id)
  <2>1. \A id \in Ids : id < job_id => id # job_id /\ id - job_id \notin DOMAIN jobs
    BY <1>1
  <2> QED
    BY <1>2, <2>1 DEF Latest
<1>6. \A id \in Ids : id # job_id /\ Latest(id) = "cancelled" => Latest(id)' = "cancelled"
  BY <1>2, <1>3 DEF Latest
<1>7. ASSUME NEW id \in Ids, NEW k \in DOMAIN jobs,
             id # job_id, MarkedJobs[k].row = id, MarkedJobs[k].cancelled
      PROVE  id < Len(rows) /\ Latest(id)' = "cancelled"
  <2>0. /\ jobs[k].row = id
        /\ job_id + k \in cancels => id = job_id + k
        /\ job_id + k \notin cancels => jobs[k].cancelled
    BY <1>7, Marked
  <2>1. CASE job_id + k \in cancels
    <3>1. id \in cancels /\ id < Len(rows)
      BY <2>0, <2>1 DEF QueueInv
    <3>2. IsQueued(id)
      BY <1>1, <2>0, <2>1 DEF IsQueued
    <3>3. posted'[id] = Append(posted[id], "cancelled")
      BY <1>7, <3>1, <3>2 DEF Announced
    <3> QED
      BY <1>3, <3>1, <3>3 DEF Latest
  <2>2. CASE job_id + k \notin cancels
    BY <1>6, <1>7, <2>0, <2>2 DEF RowInv
  <2> QED
    BY <2>1, <2>2
<1>8. DOMAIN jobs' = DOMAIN jobs
  BY Marked
<1> QED
  BY <1>4, <1>5, <1>7, <1>8

\* Handling an event does not change what the row will show in the end, and the
\* last event posted is what it will.
LEMMA RowStep ==
    TypeOK /\ QueueInv /\ OutcomeInv /\ CancelInv /\ RowInv /\ [Next]_vars => RowInv'
<1> SUFFICES ASSUME TypeOK, QueueInv, OutcomeInv, CancelInv, RowInv, [Next]_vars PROVE RowInv'
  OBVIOUS
<1> USE DEF RowInv
<1>t. /\ rows \in Seq(RowState) /\ posted \in [Ids -> Events] /\ jobs \in Seq(JobType)
      /\ DOMAIN rows = 1 .. Len(rows) /\ Len(rows) \in Nat
      /\ DOMAIN jobs = 1 .. Len(jobs) /\ Len(jobs) \in Nat /\ job_id \in Nat
      /\ outcome \in [Ids -> Outcome] /\ cancels \subseteq asked /\ asked \subseteq Ids
      /\ \A id \in Ids : id \in Nat
  <2>1. jobs \in Seq(JobType)
    BY DEF TypeOK, JobType
  <2> QED
    BY <2>1, PrintHostQueueAssumption DEF TypeOK, Events, Ids
<1>j. \A k \in DOMAIN jobs : jobs[k].cancelled => jobs[k].row \in Ids
  BY <1>t DEF CancelInv
<1>c. pc \in {"upload", "abort", "finish"} => job_id \in Ids /\ job_id < Len(rows)
  BY CurrentHasRow
<1>k. pc = "upload" => \A k \in DOMAIN jobs : jobs[k].row # job_id
  BY CurrentIsOpen
<1>1. CASE AppendRow
  <2>1. rows' = Append(rows, "new") /\ UNCHANGED <<posted, jobs, outcome>>
    BY <1>1 DEF AppendRow, channels, history
  <2>2. /\ Len(rows') = Len(rows) + 1 /\ \A i \in DOMAIN rows : rows'[i] = rows[i]
    BY <1>t, <2>1, AppendToQueue DEF RowState, Active
  <2>3. \A id \in Ids : id < Len(rows) => Latest(id)' = Latest(id)
    BY <1>t, <2>1, <2>2 DEF Latest, Row
  <2> QED
    BY <1>t, <1>j, <2>1, <2>2, <2>3
<1>2. CASE PushJob \/ StopBgThread
  <2>1. PICK j \in JobType : /\ jobs' = Append(jobs, j) /\ j.cancelled = FALSE
                             /\ UNCHANGED <<rows, posted, outcome>>
    <3>1. CASE PushJob
      <4>1. Job(Len(rows) - 1) \in JobType /\ Job(Len(rows) - 1).cancelled = FALSE
        <5>1. Len(rows) \in Nat /\ Len(rows) > 0 /\ Len(rows) <= MaxJobs
          BY <3>1 DEF PushJob, QueueInv, TypeOK
        <5> QED
          BY <5>1, PrintHostQueueAssumption DEF Job, JobType, Ids
      <4> QED
        BY <3>1, <4>1 DEF PushJob, dialog, history
    <3>2. CASE StopBgThread
      <4>1. EmptyJob \in JobType /\ EmptyJob.cancelled = FALSE
        BY DEF EmptyJob, Job, JobType
      <4> QED
        BY <3>2, <4>1 DEF StopBgThread, dialog, history
    <3> QED
      BY <1>2, <3>1, <3>2
  <2>2. /\ DOMAIN Append(jobs, j) = 1 .. Len(jobs) + 1
        /\ Append(jobs, j)[Len(jobs) + 1] = j
        /\ \A i \in DOMAIN jobs : Append(jobs, j)[i] = jobs[i]
    BY <1>t, AppendToQueue
  <2>3. \A id : Latest(id)' = Latest(id)
    BY <2>1 DEF Latest
  <2>4. \A k \in DOMAIN jobs' : jobs'[k].cancelled => k \in DOMAIN jobs /\ jobs'[k] = jobs[k]
    BY <1>t, <2>1, <2>2
  <2> QED
    BY <2>1, <2>3, <2>4
<1>3. CASE (\E id \in Ids : Cancel(id)) \/ Loop \/ Finish
  <2>1. UNCHANGED <<rows, posted, jobs, outcome>>
    BY <1>3 DEF Cancel, Loop, Finish, End, dialog, channels
  <2>2. \A id : Latest(id)' = Latest(id)
    BY <2>1 DEF Latest
  <2> QED
    BY <2>1, <2>2
<1>4. CASE \E id \in Ids : HandleEvent(id)
  <2>1. PICK id \in Ids : HandleEvent(id)
    BY <1>4
  <2>2. /\ rows' = [rows EXCEPT ![Row(id)] = Head(posted[id])]
        /\ posted' = [posted EXCEPT ![id] = Tail(@)] /\ posted[id] # <<>>
        /\ UNCHANGED <<jobs, outcome>>
    BY <2>1 DEF HandleEvent, channels, history
  <2>3. /\ Head(posted[id]) \in RowState
        /\ Tail(posted[id]) = <<>> => Head(posted[id]) = posted[id][Len(posted[id])]
        /\ Tail(posted[id]) # <<>> =>
              Tail(posted[id])[Len(Tail(posted[id]))] = posted[id][Len(posted[id])]
    <3>1. Head(posted[id]) \in RowState
      BY <1>t, <2>2 DEF Events
    <3> QED
      BY <1>t, <2>2, <3>1, EventHandled
  <2>4. Len(rows') = Len(rows)
    BY <1>t, <2>2, <2>3, ReplaceInQueue
  <2>5. Row(id) \in DOMAIN rows
    BY <1>t, <2>2 DEF Row
  <2>6. Latest(id)' = Latest(id)
    BY <1>t, <2>2, <2>3, <2>5 DEF Latest
  <2>7. \A i \in Ids : i # id => Latest(i)' = Latest(i)
    BY <1>t, <2>2 DEF Latest, Row
  <2>8. \A i \in Ids : posted'[i] # <<>> => posted[i] # <<>>
    BY <1>t, <2>2
  <2> QED
    BY <1>j, <2>2, <2>4, <2>6, <2>7, <2>8
<1>5. CASE Pop
  <2> DEFINE job == Head(jobs)
  <2>1. pc = "pop" /\ jobs # <<>> /\ jobs' = Tail(jobs) /\ UNCHANGED <<rows, job_id>>
    BY <1>5 DEF Pop
  <2>2. job.row # NoRow => job.row = job_id /\ job_id \in Ids /\ outcome[job_id] = "open"
                           /\ job_id < Len(rows)
    <3>1. job.row # NoRow => job.row = job_id /\ job_id \in Ids /\ job_id < Pushed
      BY <2>1, HeadOfQueue
    <3>2. job_id \in Ids => outcome[job_id] = "open"
      BY <2>1, CurrentIsOpen
    <3>3. Pushed <= Len(rows) /\ Pushed \in Int
      BY <1>t DEF Pushed
    <3> QED
      BY <1>t, <3>1, <3>2, <3>3
  <2>3. /\ job = jobs[1] /\ 1 \in DOMAIN jobs
        /\ DOMAIN Tail(jobs) = 1 .. Len(jobs) - 1
        /\ \A i \in DOMAIN Tail(jobs) : i + 1 \in DOMAIN jobs /\ Tail(jobs)[i] = jobs[i + 1]
    BY <1>t, <2>1, TailOfQueue
  <2>4. CASE job.row # NoRow /\ ~job.cancelled
    <3>1. posted' = Post(job_id, "progress") /\ outcome' = outcome
      BY <1>5, <2>2, <2>4 DEF Pop
    <3>2. \A id \in Ids : id # job_id => posted'[id] = posted[id] /\ Latest(id)' = Latest(id)
      BY <1>t, <2>1, <3>1 DEF Post, Latest
    <3>3. \A k \in DOMAIN jobs' : jobs'[k].row # job_id
      <4>1. \A k \in DOMAIN jobs : k > 1 => jobs[k].row # job_id
        <5>1. Upcoming = job_id
          BY <2>1, HeadOfQueue
        <5>2. \A k \in DOMAIN jobs : jobs[k] = EmptyJob \/ jobs[k].row = job_id + k - 1
          BY <2>1, <5>1 DEF QueueInv
        <5> QED
          BY <1>t, <5>2 DEF EmptyJob, Job, NoRow
      <4> QED
        BY <1>t, <2>1, <2>3, <4>1
    <3> QED
      BY <1>j, <2>1, <2>2, <2>3, <2>4, <3>1, <3>2, <3>3
  <2>5. CASE job.row # NoRow /\ job.cancelled
    <3>1. posted' = posted /\ outcome' = [outcome EXCEPT ![job_id] = "skipped"]
      BY <1>5, <2>2, <2>5 DEF Pop
    <3>2. \A id : Latest(id)' = Latest(id)
      BY <2>1, <3>1 DEF Latest
    <3>3. Latest(job_id) = RowOf("skipped")
      BY <2>2, <2>3, <2>5 DEF RowOf
    <3>4. \A id \in Ids : outcome'[id] # "open" => Latest(id) = RowOf(outcome'[id]) /\ id < Len(rows)
      BY <1>t, <2>2, <2>5, <3>1, <3>3
    <3> QED
      BY <2>1, <2>3, <3>1, <3>2, <3>4
  <2>6. CASE job.row = NoRow
    <3>1. UNCHANGED <<posted, outcome>>
      <4>1. job.row = NoRow => job_id # NoRow
        BY <1>t DEF NoRow
      <4> QED
        BY <1>5, <2>6 DEF Pop
    <3>2. \A id : Latest(id)' = Latest(id)
      BY <2>1, <3>1 DEF Latest
    <3> QED
      BY <2>1, <2>3, <3>1, <3>2
  <2> QED
    BY <2>4, <2>5, <2>6
<1>6. CASE Aborted \/ Uploaded \/ Throws
  <2>1. PICK o \in {"aborted", "uploaded", "failed"} :
           /\ UNCHANGED <<rows, jobs, job_id>> /\ pc \in {"upload", "abort"}
           /\ posted' = Post(job_id, RowOf(o)) /\ outcome' = [outcome EXCEPT ![job_id] = o]
    BY <1>6 DEF Aborted, Uploaded, Throws, End, channels, RowOf
  <2>2. job_id \in Ids /\ job_id < Len(rows) /\ RowOf(o) \in RowState \ {"new"}
    BY <1>c, <2>1 DEF RowOf, RowState, Active
  <2>3. posted'[job_id] # <<>> /\ Latest(job_id)' = RowOf(o)
    BY <1>t, <2>1, <2>2, EventPosted DEF Post, Latest
  <2>4. \A id \in Ids : id # job_id => posted'[id] = posted[id] /\ Latest(id)' = Latest(id)
    BY <1>t, <2>1 DEF Post, Latest
  <2>5. \A k \in DOMAIN jobs : jobs[k].cancelled => jobs[k].row # job_id
    <3>1. Upcoming = job_id + 1 /\ pc # "ended"
      BY <2>1, CurrentHasRow
    <3>2. \A k \in DOMAIN jobs : jobs[k] = EmptyJob \/ jobs[k].row = job_id + 1 + k - 1
      BY <3>1 DEF QueueInv
    <3> QED
      BY <1>t, <3>2 DEF EmptyJob, Job, NoRow
  <2> QED
    BY <1>t, <1>j, <2>1, <2>2, <2>3, <2>4, <2>5
<1>7. CASE Callback
  <2>1. PICK all \in BOOLEAN : ProgressFn(all)
    BY <1>7 DEF Callback
  <2>2. CASE bg_exit
    <3>1. UNCHANGED <<rows, posted, jobs, outcome>>
      BY <2>1, <2>2 DEF ProgressFn, channels, history
    <3>2. \A id : Latest(id)' = Latest(id)
      BY <3>1 DEF Latest
    <3> QED
      BY <3>1, <3>2
  <2>3. CASE ~bg_exit
    <3>1. /\ pc = "upload" /\ jobs' = MarkedJobs
          /\ posted' = Announced \/ posted' = [Announced EXCEPT ![job_id] = Append(@, "completed")]
          /\ UNCHANGED <<rows, outcome, asked>>
      BY <2>1, <2>3 DEF ProgressFn, history
    <3>2. Announced \in [Ids -> Events] /\ outcome[job_id] = "open" /\ job_id \in Ids
      BY <3>1, AnnouncedRows, CurrentIsOpen DEF Events
    <3>3. \A id \in Ids : id # job_id => posted'[id] = Announced[id]
      BY <3>1, <3>2
    <3>4. /\ \A id \in Ids : id # job_id /\ posted'[id] # <<>> => id < Len(rows)
          /\ \A id \in Ids : id < job_id => Latest(id)' = Latest(id)
          /\ \A id \in Ids : \A k \in DOMAIN jobs' :
                id # job_id /\ jobs'[k].row = id /\ jobs'[k].cancelled =>
                   id < Len(rows) /\ Latest(id)' = "cancelled"
      BY <3>1, <3>3, MarkedAreShown
    <3>5. \A k \in DOMAIN jobs' : jobs'[k].cancelled => jobs'[k].row \in Ids /\ jobs'[k].row # job_id
      <4>1. \A k \in DOMAIN jobs' : k \in DOMAIN jobs /\ jobs'[k].row = jobs[k].row
        BY <3>1, Marked
      <4>2. CancelInv'
        BY CancelStep
      <4>3. \A k \in DOMAIN jobs' : jobs'[k].cancelled => jobs'[k].row \in Ids
        BY <1>t, <3>1, <4>2 DEF CancelInv
      <4> QED
        BY <1>k, <3>1, <4>1, <4>3
    <3>6. \A id \in Ids : outcome[id] # "open" => id < job_id
      BY <3>1, <3>2 DEF OutcomeInv
    <3> QED
      BY <1>c, <3>1, <3>2, <3>4, <3>5, <3>6
  <2> QED
    BY <2>2, <2>3
<1>8. CASE ErrorFn
  <2>1. PICK o \in {"aborted", "failed"} :
           /\ pc = "upload" /\ jobs' = MarkedJobs /\ UNCHANGED <<rows, asked, job_id>>
           /\ posted' = [Announced EXCEPT ![job_id] = Append(@, RowOf(o))]
           /\ outcome' = [outcome EXCEPT ![job_id] = o]
    BY <1>8 DEF ErrorFn, RowOf
  <2>2. /\ Announced \in [Ids -> Events] /\ Announced[job_id] = posted[job_id]
        /\ outcome[job_id] = "open" /\ job_id \in Ids
    BY <2>1, AnnouncedRows, CurrentIsOpen DEF Events
  <2>3. \A id \in Ids : id # job_id => posted'[id] = Announced[id]
    BY <2>1, <2>2
  <2>4. /\ \A id \in Ids : id # job_id /\ posted'[id] # <<>> => id < Len(rows)
        /\ \A id \in Ids : id < job_id => Latest(id)' = Latest(id)
        /\ \A id \in Ids : \A k \in DOMAIN jobs' :
              id # job_id /\ jobs'[k].row = id /\ jobs'[k].cancelled =>
                 id < Len(rows) /\ Latest(id)' = "cancelled"
    BY <2>1, <2>3, MarkedAreShown
  <2>5. \A k \in DOMAIN jobs' : jobs'[k].cancelled => jobs'[k].row \in Ids /\ jobs'[k].row # job_id
    <3>1. \A k \in DOMAIN jobs' : k \in DOMAIN jobs /\ jobs'[k].row = jobs[k].row
      BY <2>1, Marked
    <3>2. CancelInv'
      BY CancelStep
    <3>3. \A k \in DOMAIN jobs' : jobs'[k].cancelled => jobs'[k].row \in Ids
      BY <1>t, <2>1, <3>2 DEF CancelInv
    <3> QED
      BY <1>k, <2>1, <3>1, <3>3
  <2>6. RowOf(o) \in RowState \ {"new"}
    BY DEF RowOf, RowState
  <2>7. Latest(job_id)' = RowOf(o)
    BY <1>t, <2>1, <2>2, <2>6, EventPosted DEF Latest
  <2>8. \A id \in Ids : outcome[id] # "open" => id < job_id
    BY <2>1, <2>2 DEF OutcomeInv
  <2> QED
    BY <1>t, <1>c, <2>1, <2>2, <2>4, <2>5, <2>7, <2>8
<1>9. CASE UNCHANGED vars
  BY <1>9 DEF vars, dialog, channels, history, Latest
<1> QED
  BY <1>1, <1>2, <1>3, <1>4, <1>5, <1>6, <1>7, <1>8, <1>9 DEF Next, Terminating

\* The files that are removed are those of the jobs that are over.
LEMMA FileStep == TypeOK /\ QueueInv /\ OutcomeInv /\ FileInv /\ [Next]_vars => FileInv'
<1> SUFFICES ASSUME TypeOK, QueueInv, OutcomeInv, FileInv, [Next]_vars PROVE FileInv'
  OBVIOUS
<1> USE DEF FileInv
<1>t. /\ job_id \in Nat /\ Len(rows) \in Nat /\ Len(rows) <= MaxJobs
      /\ outcome \in [Ids -> Outcome] /\ removed \subseteq Ids
      /\ \A id \in Ids : id \in Nat
  BY PrintHostQueueAssumption DEF TypeOK, Ids
<1>c. pc \in {"upload", "abort", "finish"} =>
         job_id \in Ids /\ job_id < Len(rows) /\ source_to_remove = job_id /\ Upcoming = job_id + 1
  BY CurrentHasRow
<1>1. CASE AppendRow \/ PushJob \/ StopBgThread \/ \E id \in Ids : Cancel(id) \/ HandleEvent(id)
  <2>1. /\ UNCHANGED <<job_id, outcome, removed>> /\ (pc' = "ended" <=> pc = "ended")
        /\ bg_exit => bg_exit'
    BY <1>1 DEF AppendRow, PushJob, StopBgThread, Cancel, HandleEvent, thread, history
  <2>2. Threw' <=> Threw
    BY <2>1 DEF Threw
  <2>3. bg_exit => Len(rows') = Len(rows)
    <3>1. CASE AppendRow \/ PushJob \/ StopBgThread \/ \E id \in Ids : Cancel(id)
      BY <3>1 DEF AppendRow, PushJob, StopBgThread, Cancel, dialog, QueueInv
    <3>2. CASE \E id \in Ids : HandleEvent(id)
      <4>1. PICK id \in Ids : HandleEvent(id)
        BY <3>2
      <4>2. Head(posted[id]) \in RowState /\ rows \in Seq(RowState)
        BY <4>1 DEF HandleEvent, TypeOK
      <4> QED
        BY <4>1, <4>2, ReplaceInQueue DEF HandleEvent
    <3> QED
      BY <1>1, <3>1, <3>2
  <2> QED
    BY <2>1, <2>2, <2>3
<1>2. CASE Loop
  <2>1. pc = "loop" /\ UNCHANGED <<job_id, rows, outcome, bg_exit>>
    BY <1>2 DEF Loop, dialog
  <2>2. CASE pc' = "pop" /\ removed' = removed
    BY <2>1, <2>2
  <2>3. CASE bg_exit /\ End
    <3>1. source_to_remove = NoRow /\ pc' = "ended"
      BY <2>1, <2>3 DEF End, TypeOK
    <3>2. removed' = removed \cup {id \in Ids : Upcoming <= id /\ id < Pushed}
      BY <2>1, <2>3, <3>1, LeftRows DEF End
    <3>3. Upcoming = job_id /\ Pushed = Len(rows) /\ job_id <= Len(rows)
      BY <2>1, <2>3, <3>1 DEF Upcoming, Pushed, QueueInv
    <3>4. removed' = {id \in Ids : id < Len(rows)}
      BY <1>t, <2>1, <3>2, <3>3
    <3> QED
      BY <1>t, <2>1, <2>3, <3>1, <3>3, <3>4
  <2> QED
    BY <1>2, <2>2, <2>3 DEF Loop
<1>3. CASE Pop
  <2>1. pc = "pop" /\ jobs # <<>> /\ jobs' = Tail(jobs) /\ UNCHANGED <<job_id, rows, bg_exit>>
    BY <1>3 DEF Pop
  <2>2. CASE Head(jobs).row # NoRow
    BY <1>3, <2>1, <2>2 DEF Pop
  <2>3. CASE Head(jobs).row = NoRow
    <3>1. bg_exit /\ Len(jobs) = 1 /\ source_to_remove = NoRow /\ Upcoming = job_id
      BY <2>1, <2>3, HeadOfQueue
    <3>2. pc' = "ended" /\ removed' = removed \cup {j.row : j \in ToSet(jobs') \ {EmptyJob}}
      BY <1>3, <2>3 DEF Pop
    <3>3. ToSet(jobs') = {}
      <4>1. jobs \in Seq(JobType)
        BY DEF TypeOK, JobType
      <4> QED
        BY <2>1, <3>1, <4>1, TailOfQueue DEF ToSet
    <3>4. Pushed = Len(rows) /\ Len(jobs) = Pushed - job_id + 1
      BY <2>1, <3>1 DEF Pushed, QueueInv
    <3>5. job_id = Len(rows)
      <4>1. 1 = Len(rows) - job_id + 1
        BY <3>1, <3>4
      <4>2. \A a, b \in Nat : 1 = a - b + 1 => b = a
        OBVIOUS
      <4> QED
        BY <1>t, <4>1, <4>2
    <3>6. removed' = {id \in Ids : id < Len(rows)}
      BY <2>1, <3>2, <3>3, <3>5
    <3> QED
      BY <2>1, <3>1, <3>2, <3>5, <3>6
  <2> QED
    BY <2>2, <2>3
<1>4. CASE Finish
  <2>1. removed' = removed \cup {job_id} /\ job_id' = job_id + 1 /\ pc' = "loop" /\ pc = "finish" /\ job_id \in Ids
    BY <1>4, <1>c DEF Finish
  <2> QED
    BY <1>t, <2>1
<1>5. CASE Callback \/ Aborted \/ ErrorFn \/ Uploaded
  <2>1. UNCHANGED <<job_id, removed>> /\ pc \in {"upload", "abort"} /\ pc' # "ended"
    BY <1>5 DEF Callback, ProgressFn, Aborted, ErrorFn, Uploaded, history
  <2> QED
    BY <2>1
<1>6. CASE Throws
  <2>1. /\ pc = "upload" /\ pc' = "ended" /\ job_id' = job_id /\ removed \subseteq removed'
        /\ outcome' = [outcome EXCEPT ![job_id] = "failed"]
    BY <1>6 DEF Throws, End
  <2>2. Threw'
    BY <1>t, <1>c, <2>1 DEF Threw
  <2> QED
    BY <2>1, <2>2
<1>7. CASE UNCHANGED vars
  <2>1. UNCHANGED <<job_id, outcome, removed, pc, bg_exit, rows>>
    BY <1>7 DEF vars, dialog, thread, history
  <2>2. Threw' <=> Threw
    BY <2>1 DEF Threw
  <2> QED
    BY <2>1, <2>2
<1> QED
  BY <1>1, <1>2, <1>3, <1>4, <1>5, <1>6, <1>7 DEF Next, Terminating

-----------------------------------------------------------------------------
LEMMA Initially == Init => IInv
<1> SUFFICES ASSUME Init PROVE IInv
  OBVIOUS
<1> USE PrintHostQueueAssumption DEF Init
<1>1. /\ DOMAIN jobs = {} /\ Len(jobs) = 0 /\ DOMAIN rows = {} /\ Len(rows) = 0
      /\ \A id \in Ids : posted[id] = <<>> /\ outcome[id] = "open"
  OBVIOUS
<1>2. TypeOK
  BY <1>1 DEF TypeOK, Ids, NoRow, Outcome, RowState, Active
<1>3. QueueInv
  BY <1>1 DEF QueueInv, Upcoming, Pushed
<1>4. OutcomeInv /\ RowInv
  BY <1>1 DEF OutcomeInv, RowInv, Ids
<1>5. CancelInv
  <2>1. ToSet(<<>>) = {}
    BY DEF ToSet
  <2> QED
    BY <1>1, <2>1 DEF CancelInv, Shown
<1>6. FileInv
  BY DEF FileInv, Ids
<1> QED
  BY <1>2, <1>3, <1>4, <1>5, <1>6 DEF IInv

\* The three threads of PrintHost.cpp and PrintHostDialogs.cpp keep the
\* invariant, in whatever order their steps come.
THEOREM InvHolds == Spec => []IInv
<1>1. IInv /\ [Next]_vars => IInv'
  BY QueueStep, OutcomeStep, CancelStep, RowStep, FileStep DEF IInv
<1> QED
  BY Initially, <1>1, PTL DEF Spec

\* Channels, rows and events hold what they are meant to.
THEOREM TypeCorrect == Spec => []TypeOK
<1>1. IInv => TypeOK
  BY DEF IInv
<1> QED
  BY <1>1, InvHolds, PTL

\* bg_thread_main()'s count of the jobs is the dialog's count of the rows.
THEOREM Aligned == Spec => []IdsAlign
<1>1. IInv => IdsAlign
  <2> SUFFICES ASSUME IInv, pc # "ended"
               PROVE  /\ source_to_remove \in {NoRow, job_id}
                      /\ \A k \in DOMAIN jobs :
                            jobs[k].row \in {NoRow, (IF source_to_remove = NoRow THEN job_id - 1 ELSE job_id) + k}
    BY DEF IdsAlign
  <2>1. job_id \in Nat /\ \A k \in DOMAIN jobs : k \in Int
    BY DEF IInv, TypeOK
  <2>2. source_to_remove \in {NoRow, job_id}
    BY DEF IInv, QueueInv
  <2>3. \A k \in DOMAIN jobs : jobs[k] = EmptyJob \/ jobs[k].row = Upcoming + k - 1
    BY DEF IInv, QueueInv
  <2> QED
    BY <2>1, <2>2, <2>3 DEF Upcoming, EmptyJob, Job
<1> QED
  BY <1>1, InvHolds, PTL

\* The request of a cancel button reaches the job of its row, through two
\* channels and three threads, and no other.
THEOREM CancelsHit == Spec => []CancelsHitTheirJob
<1>1. IInv => CancelsHitTheirJob
  BY DEF IInv, CancelInv, Shown, Covered, CancelsHitTheirJob
<1> QED
  BY <1>1, InvHolds, PTL

\* When its events are handled, the row shows how the upload ended.
THEOREM RowsTell == Spec => []RowTellsOutcome
<1>1. IInv => RowTellsOutcome
  BY DEF IInv, RowInv, Latest, RowTellsOutcome
<1> QED
  BY <1>1, InvHolds, PTL

\* remove_source() and the loop behind bg_thread_main() remove each temporary
\* file, and none too early.
THEOREM FilesFollow == Spec => []FilesFollowJobs
<1>1. IInv => FilesFollowJobs
  <2> SUFFICES ASSUME IInv PROVE FilesFollowJobs
    OBVIOUS
  <2>1. rows \in Seq(RowState) /\ removed \subseteq Ids /\ job_id \in Nat /\ \A id \in Ids : id \in Nat
    BY PrintHostQueueAssumption DEF IInv, TypeOK, Ids
  <2>2. \A id \in Ids : IsDone(id) => id \in removed
    BY DEF IInv, FileInv, IsDone
  <2>3. pc # "ended" => \A id \in removed : IsDone(id)
    BY DEF IInv, FileInv, OutcomeInv, IsDone
  <2>4. pc = "ended" /\ ~Threw => removed = {id \in Ids : Row(id) \in DOMAIN rows}
    <3>1. \A id \in Ids : Row(id) \in DOMAIN rows <=> id < Len(rows)
      BY <2>1 DEF Row
    <3> QED
      BY <3>1 DEF IInv, FileInv
  <2> QED
    BY <2>2, <2>3, <2>4 DEF FilesFollowJobs
<1> QED
  BY <1>1, InvHolds, PTL
=============================================================================
