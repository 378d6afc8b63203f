------------------------------ MODULE FileGet ------------------------------
(***************************************************************************)
(* A download with pause, resume and cancel.  Translated from              *)
(* slic3r/GUI/DownloaderFileGet.cpp and Downloader.cpp, with the           *)
(* notification of NotificationManager.cpp, whose buttons decide what the  *)
(* user can ask for, and the calls of Utils/Http.cpp.                      *)
(*                                                                         *)
(* Two threads: one downloads (m_io_thread, started anew by every resume), *)
(* the other is the UI.  They share three atomic flags; what the thread    *)
(* has to say it posts as events.                                          *)
(*                                                                         *)
(* The server tells the size of the file with the first piece, obeys the   *)
(* range it is asked for, and sends nothing with an error.  What fwrite()  *)
(* was given counts as written: every end of the thread closes the file.   *)
(***************************************************************************)
EXTENDS Naturals, Sequences, SequencesExt

CONSTANTS
    Size,      \* of the file, in pieces
    MaxChunk,  \* DOWNLOAD_MAX_CHUNK_SIZE, in pieces
    MaxStarts, \* bound: how often the thread is started
    None       \* no file

ASSUME FileGetAssumption ==
    /\ Size \in Nat \ {0} /\ MaxChunk \in Nat /\ MaxStarts \in Nat \ {0}
    /\ None \notin Seq(1 .. Size)

VARIABLES
    m_state,           \* Download: "ongoing", "paused", "stopped", "done" or "error"
    m_cancel,
    m_pause,
    m_stopped,         \* "either canceled or paused - download is not running"
    m_written,         \* the pieces that were written
    tmp,               \* the content of m_tmp_path
    dest,              \* the content of the file at its final name
    session,           \* the request: where it began, what has arrived and was written since
    io,                \* where the thread is; "none" when it is not joinable
    events,            \* posted, not yet handled
    m_percentage,      \* notification: "partial", "full", "error", or "closed"
    m_download_paused, \* notification: the button reads continue, not pause
    ui,                \* where the UI thread is
    starts

flags == <<m_cancel, m_pause, m_stopped>>
files == <<tmp, dest>>
notification == <<m_percentage, m_download_paused>>
thread == <<m_stopped, m_written, files, session, io>>
vars == <<m_state, flags, m_written, files, session, io, events, notification, ui, starts>>

Pieces(from, to) == [i \in 1 .. to - from |-> from + i]
NoSession == [from |-> 0, now |-> 0, written |-> 0]

\* Downloader::start_download().
Init ==
    /\ m_state = "ongoing"
    /\ m_cancel = FALSE /\ m_pause = FALSE /\ m_stopped = FALSE
    /\ m_written = 0
    /\ tmp = None /\ dest = None
    /\ session = NoSession
    /\ io = "start"
    /\ events = <<>>
    /\ m_percentage = "partial" /\ m_download_paused = FALSE
    /\ ui = "idle"
    /\ starts = 1

-----------------------------------------------------------------------------
(* The thread: get_perform().                                              *)

\* Of equal events in a row one is enough: handling it twice changes nothing.
Post(event) ==
    events' = IF events # <<>> /\ Last(events) = event THEN events ELSE Append(events, event)

AtUi == UNCHANGED <<m_state, m_cancel, m_pause, notification, ui, starts>>

\* With nothing written yet a name is chosen that no file has.
Start ==
    /\ io = "start"
    /\ m_stopped' = FALSE
    /\ io' = "open"
    /\ IF m_written = 0 THEN tmp' = None /\ dest' = None ELSE UNCHANGED files
    /\ UNCHANGED <<m_written, session, events>> /\ AtUi

\* There is no such name, the file cannot be opened, or the transfer fails.
\* What was written stays where it is.
Fails ==
    /\ \/ io = "start" /\ m_written = 0 /\ m_stopped' = FALSE
       \/ io \in {"open", "transfer"} /\ UNCHANGED m_stopped
    /\ io' = "ended"
    /\ Post("error")
    /\ UNCHANGED <<m_written, files, session>> /\ AtUi

\* The file is created, or opened to be appended to; the rest is requested.
OpenFile ==
    /\ io = "open"
    /\ tmp' = IF m_written = 0 \/ tmp = None THEN <<>> ELSE tmp
    /\ session' = [NoSession EXCEPT !.from = m_written]
    /\ io' = "transfer"
    /\ UNCHANGED <<m_stopped, m_written, dest, events>> /\ AtUi

Requested == Size - session.from

Receive ==
    /\ io = "transfer"
    /\ \E n \in session.now + 1 .. Requested : session' = [session EXCEPT !.now = n]
    /\ UNCHANGED <<m_stopped, m_written, files, io, events>> /\ AtUi

\* on_progress, first half: m_cancel.  Http calls it all the time, even when
\* nothing arrives.  The file is removed, the transfer aborted; Http then calls
\* once more, which m_stopped makes void.
CheckCancel ==
    /\ io = "transfer"
    /\ \/ /\ m_cancel
          /\ m_stopped' = TRUE
          /\ tmp' = None
          /\ m_written' = 0
          /\ io' = "ended"
          /\ Post("canceled")
       \/ /\ ~m_cancel
          /\ io' = "checked"
          /\ UNCHANGED <<m_stopped, tmp, m_written, events>>
    /\ UNCHANGED <<dest, session>> /\ AtUi

\* Mutant: m_pause is looked at only where something has arrived.
MutPause ==
    /\ io = "checked"
    /\ m_pause
    /\ session.now # 0
    /\ m_stopped' = TRUE
    /\ tmp' = IF m_written = 0 THEN None ELSE tmp
    /\ io' = "ended"
    /\ Post("paused")
    /\ UNCHANGED <<m_written, dest, session>> /\ AtUi

\* Second half: m_pause.  What has arrived and was not written is lost.
Pause ==
    /\ io = "checked"
    /\ m_pause
    /\ m_stopped' = TRUE
    /\ tmp' = IF m_written = 0 THEN None ELSE tmp
    /\ io' = "ended"
    /\ Post("paused")
    /\ UNCHANGED <<m_written, dest, session>> /\ AtUi

\* Mutant: what earlier sessions wrote is not counted.
MutWrite ==
    LET ripe == session.now - session.written > MaxChunk \/ session.now = Requested
    IN  /\ io = "checked"
        /\ ~m_pause
        /\ io' = "transfer"
        /\ IF session.now # 0 /\ ripe
           THEN /\ tmp' = tmp \o Pieces(session.from + session.written, session.from + session.now)
                /\ session' = [session EXCEPT !.written = session.now]
                /\ m_written' = session.now
           ELSE UNCHANGED <<tmp, session, m_written>>
        /\ IF session.now # 0
           THEN Post(IF session.from + session.now = Size THEN "full" ELSE "progress")
           ELSE UNCHANGED events
        /\ UNCHANGED <<m_stopped, dest>> /\ AtUi

\* Otherwise what has arrived is written, if it is much or if it is all.
Write ==
    LET ripe == session.now - session.written > MaxChunk \/ session.now = Requested
    IN  /\ io = "checked"
        /\ ~m_pause
        /\ io' = "transfer"
        /\ IF session.now # 0 /\ ripe
           THEN /\ tmp' = tmp \o Pieces(session.from + session.written, session.from + session.now)
                /\ session' = [session EXCEPT !.written = session.now]
                /\ m_written' = session.from + session.now
           ELSE UNCHANGED <<tmp, session, m_written>>
        /\ IF session.now # 0
           THEN Post(IF session.from + session.now = Size THEN "full" ELSE "progress")
           ELSE UNCHANGED events
        /\ UNCHANGED <<m_stopped, dest>> /\ AtUi

\* on_complete, which follows a call of on_progress with all that was
\* requested; the renaming may fail.
Complete ==
    /\ io = "transfer"
    /\ session.written = Requested /\ Requested > 0
    /\ io' = "ended"
    /\ \/ dest' = tmp /\ tmp' = None /\ Post("complete")
       \/ UNCHANGED files /\ Post("error")
    /\ UNCHANGED <<m_stopped, m_written, session>> /\ AtUi

-----------------------------------------------------------------------------
(* The UI thread.                                                          *)

AtThread == UNCHANGED <<m_stopped, m_written, files, session>>

\* The buttons are there until the bar is full, shows an error or is closed.
Buttons == ui = "idle" /\ m_percentage = "partial"

PressPause ==
    /\ Buttons /\ ~m_download_paused
    /\ m_state = "ongoing"
    /\ m_state' = "paused"
    /\ m_pause' = TRUE
    /\ UNCHANGED <<m_cancel, io, events, notification, ui, starts>> /\ AtThread

\* resume() first ends the thread, if any.
PressContinue ==
    /\ Buttons /\ m_download_paused
    /\ m_state = "paused"
    /\ starts < MaxStarts
    /\ m_state' = "ongoing"
    /\ m_cancel' = TRUE
    /\ ui' = "join_resume"
    /\ UNCHANGED <<m_pause, io, events, notification, starts>> /\ AtThread

Resume ==
    /\ ui = "join_resume" /\ io = "ended"
    /\ m_cancel' = FALSE /\ m_pause' = FALSE
    /\ io' = "start"
    /\ starts' = starts + 1
    /\ ui' = "idle"
    /\ UNCHANGED <<m_state, events, notification>> /\ AtThread

\* cancel() waits for a thread that has stopped; of one that has not m_cancel
\* is set, some time after m_stopped was read.
PressCancel ==
    /\ Buttons
    /\ m_state' = "stopped"
    /\ IF m_stopped /\ io # "none"
       THEN m_cancel' = TRUE /\ ui' = "join_cancel"
       ELSE UNCHANGED m_cancel /\ ui' = "cancel"
    /\ UNCHANGED <<m_pause, io, events, notification, starts>> /\ AtThread

SetCancel ==
    /\ ui = "cancel"
    /\ m_cancel' = TRUE
    /\ ui' = "idle"
    /\ UNCHANGED <<m_state, m_pause, io, events, notification, starts>> /\ AtThread

Cancel ==
    /\ ui = "join_cancel" /\ io = "ended"
    /\ io' = "none"
    /\ Post("canceled")
    /\ ui' = "idle"
    /\ UNCHANGED <<m_state, m_cancel, m_pause, notification, starts>> /\ AtThread

\* What an event does to the notification, if it is still there.
Notify(event) ==
    /\ m_percentage' = CASE m_percentage = "closed" \/ event = "canceled" -> "closed"
                         [] event = "progress" -> "partial"
                         [] event \in {"full", "error"} -> event
                         [] OTHER -> m_percentage
    /\ m_download_paused' = CASE event \in {"progress", "full"} -> FALSE
                              [] event = "paused" -> TRUE
                              [] OTHER -> m_download_paused

\* The handlers of Downloader.
HandleEvent ==
    /\ ui = "idle"
    /\ events # <<>>
    /\ events' = Tail(events)
    /\ m_state' = CASE Head(events) = "error" -> "error"
                    [] Head(events) = "complete" -> "done"
                    [] OTHER -> m_state
    /\ Notify(Head(events))
    /\ UNCHANGED <<m_cancel, m_pause, io, ui, starts>> /\ AtThread

\* The program is closed: ~FileGet().
Exit ==
    /\ ui = "idle"
    /\ m_cancel' = (m_cancel \/ io # "none")
    /\ ui' = "join_exit"
    /\ UNCHANGED <<m_state, m_pause, io, events, notification, starts>> /\ AtThread

Exited ==
    /\ ui = "join_exit" /\ io \in {"ended", "none"}
    /\ io' = "none"
    /\ ui' = "gone"
    /\ UNCHANGED <<m_state, m_cancel, m_pause, events, notification, starts>> /\ AtThread

-----------------------------------------------------------------------------
Terminated == ui = "gone" /\ UNCHANGED vars

Progress == Start \/ OpenFile \/ CheckCancel \/ Pause \/ Write
Joins == Resume \/ SetCancel \/ Cancel \/ Exited
User == PressPause \/ PressContinue \/ PressCancel \/ Exit

Next ==
    \/ Progress \/ Fails \/ Receive \/ Complete
    \/ Joins \/ User \/ HandleEvent
    \/ Terminated

\* The thread runs on and is told of progress even if there is none, and the
\* calls of the UI go on.  Nothing obliges the server or the user.
Spec ==
    /\ Init /\ [][Next]_vars
    /\ WF_vars(Progress) /\ WF_vars(Joins)

-----------------------------------------------------------------------------
(* Properties.                                                             *)

\* A file under its final name is the whole file; until then the temporary file
\* holds the pieces that were written, in order and each once, over all pauses
\* (get_perform()).  And a resume() always finds the thread at its end: its
\* m_cancel, meant for a thread that still runs, would delete those pieces.
KeepsWhatItGot ==
    /\ dest # None => dest = Pieces(0, Size)
    /\ m_written > 0 /\ dest = None => tmp = Pieces(0, m_written)
    /\ m_written = 0 => tmp \in {None, <<>>}
    /\ ui = "join_resume" => io = "ended"

\* A download that was paused or canceled, or whose program is closed, comes to
\* an end whatever the server does, and no join of the UI waits for good
\* (cancel(), resume(), ~FileGet()).
StopsWhenAsked ==
    /\ m_state \in {"paused", "stopped"} ~> io \in {"ended", "none"}
    /\ ui # "idle" ~> ui \in {"idle", "gone"}
=============================================================================
