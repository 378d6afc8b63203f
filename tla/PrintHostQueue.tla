--------------------------- MODULE PrintHostQueue ---------------------------
(***************************************************************************)
(* The queue of uploads to print hosts.  Translated from                   *)
(* slic3r/Utils/PrintHost.cpp, with the dialog that shows the uploads,     *)
(* slic3r/GUI/PrintHostDialogs.cpp, an upload as OctoPrint.cpp makes it,   *)
(* and the callbacks of Utils/Http.cpp.                                    *)
(*                                                                         *)
(* Three threads: the slicing thread enqueues jobs, the UI thread cancels  *)
(* them and shows what became of them, the thread of the queue uploads.    *)
(* A job has no name: the queue numbers the jobs as it takes them, the     *)
(* dialog numbers its rows as it appends them, and a cancel request is     *)
(* the number of a row.                                                    *)
(***************************************************************************)
EXTENDS Integers, Sequences, SequencesExt

CONSTANTS
    MaxJobs,    \* bound: jobs enqueued
    MaxWaiting  \* bound: the user does not cancel a row again while it has
                \* as many events to be handled

ASSUME PrintHostQueueAssumption == MaxJobs \in Nat \ {0} /\ MaxWaiting \in Nat \ {0}

Ids == 0 .. MaxJobs - 1
NoRow == -1

VARIABLES
    rows,              \* dialog: the states of the rows
    posted,            \* events of the queue for the dialog, by row, in order
    adding,            \* enqueue() has appended a row but not yet the job
    jobs,              \* channel_jobs
    cancels,           \* channel_cancels; double requests are equal to one
    job_id,
    source_to_remove,
    bg_exit,
    pc,                \* where the thread of the queue is
    sent,              \* all of the current file was sent
    outcome,           \* history: what became of each job
    asked,             \* history: the rows the user asked to cancel
    removed            \* history: the jobs whose temporary file was removed

dialog == <<rows, posted>>
channels == <<jobs, cancels>>
thread == <<job_id, source_to_remove, pc, sent>>
history == <<outcome, asked, removed>>
vars == <<dialog, adding, channels, bg_exit, thread, history>>

Active == {"new", "progress"}
RowState == Active \cup {"completed", "error", "cancelled"}
Outcome == {"open", "skipped", "aborted", "failed", "uploaded"}

Job(row) == [row |-> row, cancelled |-> FALSE]
EmptyJob == Job(NoRow)

TypeOK ==
    /\ rows \in Seq(RowState) /\ Len(rows) <= MaxJobs
    /\ posted \in [Ids -> Seq(RowState \ {"new"})]
    /\ jobs \in Seq([row : Ids \cup {NoRow}, cancelled : BOOLEAN])
    /\ cancels \subseteq asked /\ asked \subseteq Ids /\ removed \subseteq Ids
    /\ job_id \in 0 .. MaxJobs
    /\ sent \in BOOLEAN
    /\ source_to_remove \in Ids \cup {NoRow}
    /\ source_to_remove # NoRow <=> pc \in {"upload", "abort", "finish"}
    /\ pc \in {"none", "loop", "pop", "upload", "abort", "finish", "ended"}
    /\ adding \in BOOLEAN /\ bg_exit \in BOOLEAN
    /\ outcome \in [Ids -> Outcome]

Init ==
    /\ rows = <<>>
    /\ posted = [i \in Ids |-> <<>>]
    /\ adding = FALSE
    /\ jobs = <<>>
    /\ cancels = {}
    /\ job_id = 0
    /\ source_to_remove = NoRow
    /\ bg_exit = FALSE
    /\ pc = "none"
    /\ sent = FALSE
    /\ outcome = [i \in Ids |-> "open"]
    /\ asked = {}
    /\ removed = {}

-----------------------------------------------------------------------------
(* The slicing thread: enqueue().                                          *)

\* The thread of the queue is started once; having ended, it stays joinable.
AppendRow ==
    /\ ~adding /\ ~bg_exit
    /\ Len(rows) < MaxJobs
    /\ pc' = IF pc = "none" THEN "loop" ELSE pc
    /\ rows' = Append(rows, "new")
    /\ adding' = TRUE
    /\ UNCHANGED <<posted, channels, bg_exit, history>>
    /\ UNCHANGED <<job_id, source_to_remove, sent>>

PushJob ==
    /\ adding
    /\ jobs' = Append(jobs, Job(Len(rows) - 1))
    /\ adding' = FALSE
    /\ UNCHANGED <<dialog, cancels, bg_exit, thread, history>>

-----------------------------------------------------------------------------
(* The UI thread.                                                          *)

\* The row numbered id, in a list numbered from 1.
Row(id) == id + 1

\* The cancel buttons of the dialog and of the notification.
Cancel(id) ==
    /\ ~bg_exit
    /\ Row(id) \in DOMAIN rows
    /\ rows[Row(id)] \in Active
    /\ Len(posted[id]) < MaxWaiting
    /\ cancels' = cancels \cup {id}
    /\ asked' = asked \cup {id}
    /\ UNCHANGED <<dialog, adding, jobs, bg_exit, thread, outcome, removed>>

\* on_progress(), on_error(), on_cancel().
HandleEvent(id) ==
    /\ ~bg_exit
    /\ posted[id] # <<>>
    /\ rows' = [rows EXCEPT ![Row(id)] = Head(posted[id])]
    /\ posted' = [posted EXCEPT ![id] = Tail(@)]
    /\ UNCHANGED <<adding, channels, bg_exit, thread, history>>

\* Mutant: the thread, asleep for a job, is not woken up.
MutStopBgThread ==
    /\ ~bg_exit /\ ~adding
    /\ pc # "none"
    /\ bg_exit' = TRUE
    /\ UNCHANGED <<dialog, adding, channels, thread, history>>

\* The destructor of the queue: stop_bg_thread().
StopBgThread ==
    /\ ~bg_exit /\ ~adding
    /\ pc # "none"
    /\ bg_exit' = TRUE
    /\ jobs' = Append(jobs, EmptyJob)
    /\ UNCHANGED <<dialog, adding, cancels, thread, history>>

-----------------------------------------------------------------------------
(* The thread of the queue: bg_thread_main().                              *)

Post(id, state) == [posted EXCEPT ![id] = Append(@, state)]

\* Mutant: the files of the jobs that are left stay.
MutEnd ==
    /\ pc' = "ended"
    /\ removed' = removed \cup ({source_to_remove} \ {NoRow})
    /\ source_to_remove' = NoRow

\* Behind the loop: the files of all jobs that are left are removed.
End ==
    /\ pc' = "ended"
    /\ removed' = removed \cup ({source_to_remove} \ {NoRow})
                      \cup {j.row : j \in ToSet(jobs) \ {EmptyJob}}
    /\ source_to_remove' = NoRow

Loop ==
    /\ pc = "loop"
    /\ UNCHANGED <<dialog, adding, channels, bg_exit>>
    /\ UNCHANGED <<job_id, sent, outcome, asked>>
    /\ \/ ~bg_exit /\ pc' = "pop" /\ UNCHANGED <<source_to_remove, removed>>
       \/ bg_exit /\ End

\* A job is taken from the channel; unless it was cancelled there, its upload
\* starts.  An empty job stops the thread.
Pop ==
    /\ pc = "pop"
    /\ jobs # <<>>
    /\ jobs' = Tail(jobs)
    /\ UNCHANGED <<rows, adding, cancels, bg_exit, job_id, asked>>
    /\ LET job == Head(jobs)
       IN \/ /\ job.row = NoRow
             /\ pc' = "ended"
             /\ removed' = removed \cup {j.row : j \in ToSet(jobs') \ {EmptyJob}}
             /\ UNCHANGED <<posted, source_to_remove, sent, outcome>>
          \/ /\ job.row # NoRow /\ job.cancelled
             /\ source_to_remove' = job.row
             /\ outcome' = [outcome EXCEPT ![job.row] = "skipped"]
             /\ pc' = "finish"
             /\ UNCHANGED <<posted, sent, removed>>
          \/ /\ job.row # NoRow /\ ~job.cancelled
             /\ source_to_remove' = job.row
             /\ posted' = Post(job_id, "progress")
             /\ sent' = FALSE
             /\ pc' = "upload"
             /\ UNCHANGED <<outcome, removed>>

\* Mutant: the job number is forgotten when the job was skipped.
MutFinish ==
    /\ pc = "finish"
    /\ removed' = removed \cup {source_to_remove}
    /\ source_to_remove' = NoRow
    /\ job_id' = IF outcome[source_to_remove] = "skipped" THEN job_id ELSE job_id + 1
    /\ pc' = "loop"
    /\ UNCHANGED <<dialog, adding, channels, bg_exit, sent, outcome, asked>>

\* remove_source(), and the next job.
Finish ==
    /\ pc = "finish"
    /\ removed' = removed \cup {source_to_remove}
    /\ source_to_remove' = NoRow
    /\ job_id' = job_id + 1
    /\ pc' = "loop"
    /\ UNCHANGED <<dialog, adding, channels, bg_exit, sent, outcome, asked>>

-----------------------------------------------------------------------------
(* The callbacks of an upload.  Both look for cancel requests.             *)

\* Mutant: the jobs of the channel are counted from the current one.
MutIsQueued(id) == id > job_id /\ id - job_id < Len(jobs)

\* Request id is for a job that waits in the channel.
IsQueued(id) == id > job_id /\ id - job_id - 1 < Len(jobs)

\* Mutant: the wrong job is marked.
MutMarkedJobs ==
    [k \in DOMAIN jobs |->
        IF job_id + k - 1 \in cancels THEN [jobs[k] EXCEPT !.cancelled = TRUE] ELSE jobs[k]]

\* The channel with the requested jobs marked: the k-th is number job_id + k.
MarkedJobs ==
    [k \in DOMAIN jobs |->
        IF job_id + k \in cancels THEN [jobs[k] EXCEPT !.cancelled = TRUE] ELSE jobs[k]]

\* The events with the cancelled jobs announced, the current one never.
Announced ==
    [i \in Ids |-> IF i \in cancels /\ IsQueued(i)
                   THEN Append(posted[i], "cancelled") ELSE posted[i]]

\* Mutant: the current job is only looked for if others wait.
MutProgressFn(all) ==
    /\ pc = "upload"
    /\ sent => all
    /\ sent' = all
    /\ UNCHANGED <<rows, adding, bg_exit, job_id, source_to_remove, history>>
    /\ \/ /\ bg_exit
          /\ pc' = "abort"
          /\ UNCHANGED <<posted, channels>>
       \/ /\ ~bg_exit
          /\ jobs' = MarkedJobs
          /\ cancels' = {}
          /\ pc' = IF job_id \in cancels /\ jobs # <<>> THEN "abort" ELSE pc
          /\ posted' = Announced

\* Http calls it all through the transfer, about once a second.  Once the file
\* is sent the progress is 100, while the host has not answered yet.  Whether
\* that is posted depends on prev_progress, which may be that of another job.
\* A lower progress leaves the row as emit_progress(0) made it.
ProgressFn(all) ==
    /\ pc = "upload"
    /\ sent => all
    /\ sent' = all
    /\ UNCHANGED <<rows, adding, bg_exit, job_id, source_to_remove, history>>
    /\ \/ /\ bg_exit
          /\ pc' = "abort"
          /\ UNCHANGED <<posted, channels>>
       \/ /\ ~bg_exit
          /\ jobs' = MarkedJobs
          /\ cancels' = {}
          /\ pc' = IF job_id \in cancels THEN "abort" ELSE pc
          /\ \/ posted' = Announced
             \/ /\ job_id \notin cancels /\ all /\ ~sent
                /\ posted' = [Announced EXCEPT ![job_id] = Append(@, "completed")]

\* http_perform() after the abort: progress_fn() once more, cancel is set.
Aborted ==
    /\ pc = "abort"
    /\ posted' = Post(job_id, "cancelled")
    /\ outcome' = [outcome EXCEPT ![job_id] = "aborted"]
    /\ pc' = "finish"
    /\ UNCHANGED <<rows, adding, channels, bg_exit, asked, removed>>
    /\ UNCHANGED <<job_id, source_to_remove, sent>>

\* error_fn(), and upload() returns false.  What was to be canceled is not
\* shown as failed.
ErrorFn ==
    /\ pc = "upload"
    /\ jobs' = MarkedJobs
    /\ cancels' = {}
    /\ posted' = [Announced EXCEPT ![job_id] =
                     Append(@, IF job_id \in cancels THEN "cancelled" ELSE "error")]
    /\ outcome' = [outcome EXCEPT ![job_id] =
                     IF job_id \in cancels THEN "aborted" ELSE "failed"]
    /\ pc' = "finish"
    /\ UNCHANGED <<rows, adding, bg_exit, asked, removed>>
    /\ UNCHANGED <<job_id, source_to_remove, sent>>

\* upload() returns true.
Uploaded ==
    /\ pc = "upload"
    /\ posted' = Post(job_id, "completed")
    /\ outcome' = [outcome EXCEPT ![job_id] = "uploaded"]
    /\ pc' = "finish"
    /\ UNCHANGED <<rows, adding, channels, bg_exit, asked, removed>>
    /\ UNCHANGED <<job_id, source_to_remove, sent>>

\* upload() throws: the thread ends, though the queue lives on.
Throws ==
    /\ pc = "upload"
    /\ posted' = Post(job_id, "error")
    /\ outcome' = [outcome EXCEPT ![job_id] = "failed"]
    /\ End
    /\ UNCHANGED <<rows, adding, channels, bg_exit, asked>>
    /\ UNCHANGED <<job_id, sent>>

-----------------------------------------------------------------------------
Terminating ==
    /\ pc = "ended" /\ bg_exit
    /\ UNCHANGED vars

Callback == \E all \in BOOLEAN : ProgressFn(all)

Next ==
    \/ AppendRow \/ PushJob \/ StopBgThread
    \/ \E id \in Ids : Cancel(id) \/ HandleEvent(id)
    \/ Loop \/ Pop \/ Finish
    \/ Callback \/ Aborted \/ ErrorFn \/ Uploaded \/ Throws
    \/ Terminating

\* The threads run on, the dialog handles its events, and Http reports the
\* progress of a transfer again and again, even of one that is stuck.
Fairness ==
    /\ WF_vars(PushJob)
    /\ WF_vars(Loop \/ Pop \/ Finish \/ Aborted)
    /\ WF_vars(Callback)
    /\ \A id \in Ids : WF_vars(HandleEvent(id))

Spec == Init /\ [][Next]_vars /\ Fairness

-----------------------------------------------------------------------------
(* Properties.                                                             *)

IsDone(id) == outcome[id] # "open" /\ id < job_id

\* The three ways of counting agree: job number job_id is the row of the same
\* number, and the k-th job of the channel is k rows below it.
IdsAlign ==
    LET ahead == IF source_to_remove = NoRow THEN job_id - 1 ELSE job_id
    IN pc # "ended" =>
          /\ source_to_remove \in {NoRow, job_id}
          /\ \A k \in DOMAIN jobs : jobs[k].row \in {NoRow, ahead + k}

\* A cancel request hits the job of its row.  What the dialog shows, or is about
\* to show, as cancelled is over or will be skipped; and no other job is skipped
\* or aborted than one the user asked to cancel, unless the program is closed.
CancelsHitTheirJob ==
    \A id \in Ids :
        /\ \/ Row(id) \in DOMAIN rows /\ rows[Row(id)] = "cancelled"
           \/ "cancelled" \in ToSet(posted[id])
           => \/ outcome[id] \in {"skipped", "aborted"}
              \/ \E k \in DOMAIN jobs : jobs[k].row = id /\ jobs[k].cancelled
        /\ outcome[id] \in {"skipped", "aborted"} => id \in asked \/ bg_exit

RowOf(result) ==
    CASE result = "uploaded" -> "completed"
      [] result = "failed" -> "error"
      [] OTHER -> "cancelled"

\* Once a job is over and its events are handled, the row tells what became
\* of the job.
RowTellsOutcome ==
    \A id \in Ids :
        outcome[id] # "open" /\ posted[id] = <<>> => rows[Row(id)] = RowOf(outcome[id])

\* The temporary file of a job stays as long as it may be uploaded, and is
\* gone when the job is over or the thread has stopped.  (Of what is enqueued
\* after an upload threw the files stay forever.)
Threw == \E id \in Ids : outcome[id] # "open" /\ pc = "ended" /\ id >= job_id

FilesFollowJobs ==
    /\ \A id \in Ids : IsDone(id) => id \in removed
    /\ pc # "ended" => \A id \in removed : IsDone(id)
    /\ pc = "ended" /\ ~Threw => removed = {id \in Ids : Row(id) \in DOMAIN rows}

\* The user can get rid of an upload that is stuck: the request reaches it,
\* and its row shows how it ended.
CancelEndsUpload ==
    \A id \in Ids :
        (pc = "upload" /\ job_id = id /\ id \in cancels)
            ~> (bg_exit \/ \E k \in DOMAIN rows : k = Row(id) /\ rows[k] \notin Active)

\* "Let the background thread go, it should exit on its own" (stop_bg_thread).
ThreadExits == bg_exit ~> pc = "ended"
=============================================================================
