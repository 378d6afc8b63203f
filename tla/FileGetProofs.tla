--------------------------- MODULE FileGetProofs ---------------------------
(***************************************************************************)
(* The proof that a download keeps what it got, for files and pieces of    *)
(* any size and any number of pauses.                                      *)
(***************************************************************************)
EXTENDS FileGet, SequenceTheorems, TLAPS

-----------------------------------------------------------------------------
(* The inductive invariant *)

State == {"ongoing", "paused", "stopped", "done", "error"}
EventName == {"progress", "full", "paused", "canceled", "complete", "error"}
Running == {"start", "open", "transfer", "checked"}
UiAt == {"idle", "cancel", "join_resume", "join_cancel", "join_exit", "gone"}

Session == [from : 0 .. Size, now : 0 .. Size, written : 0 .. Size]

TypeOK ==
    /\ m_state \in State
    /\ m_cancel \in BOOLEAN /\ m_pause \in BOOLEAN
    /\ m_written \in 0 .. Size
    /\ session \in Session
    /\ io \in Running \cup {"ended", "none"}
    /\ events \in Seq(EventName)
    /\ ui \in UiAt

\* The file: what the running session wrote continues what was written before.
FileInv ==
    /\ io \in Running => dest = None
    /\ dest = None \/ dest = Pieces(0, Size)
    /\ m_written > 0 /\ dest = None => tmp = Pieces(0, m_written)
    /\ m_written = 0 => tmp \in {None, <<>>}
    /\ io \in {"transfer", "checked"} =>
         /\ m_written = session.from + session.written
         /\ session.written <= session.now /\ session.now <= Requested
         /\ tmp = Pieces(0, m_written)

\* The end of a paused session is on its way to the notification.
Announced == \E i \in 1 .. Len(events) : events[i] = "paused"

Once ==
    \A i, j \in 1 .. Len(events) : events[i] = "paused" /\ events[j] = "paused" => i = j

\* Both know of the pause: the user may continue.
MayContinue == m_state = "paused" /\ m_download_paused

\* The pauses: the button reads continue only after the thread that was paused
\* came to its end, which it announces once.
PauseInv ==
    /\ Once
    /\ Announced => /\ io \in {"ended", "none"} /\ dest = None
                    /\ m_state # "ongoing" /\ ui # "join_resume"
                    /\ ~MayContinue
    /\ MayContinue => (io = "ended" /\ dest = None) \/ ui = "gone"
    /\ m_pause => m_state # "ongoing" \/ ui = "join_resume"
    /\ ui = "join_resume" => io = "ended" /\ dest = None /\ m_state = "ongoing"
    /\ ui = "join_cancel" => m_state = "stopped"
    /\ io = "none" => m_state \in {"stopped", "done", "error"} \/ ui = "gone"
    /\ ui = "gone" => io = "none"

IInv == TypeOK /\ FileInv /\ PauseInv

-----------------------------------------------------------------------------
(* Pieces and events *)

\* A run of pieces has a piece for each index.
LEMMA PiecesType ==
    ASSUME NEW a \in Nat, NEW b \in a .. Size
    PROVE  /\ Pieces(a, b) \in Seq(1 .. Size)
           /\ Len(Pieces(a, b)) = b - a
           /\ \A i \in 1 .. b - a : Pieces(a, b)[i] = a + i
<1>1. b - a \in Nat /\ \A i \in 1 .. b - a : a + i \in 1 .. Size
  BY FileGetAssumption
<1>2. Pieces(a, b) \in [1 .. b - a -> 1 .. Size]
  BY <1>1 DEF Pieces
<1>3. Pieces(a, b) \in Seq(1 .. Size)
  BY <1>1, <1>2, SeqDef
<1>4. DOMAIN Pieces(a, b) = 1 .. b - a
  BY DEF Pieces
<1> QED BY <1>1, <1>3, <1>4, LenProperties DEF Pieces

\* The first pieces are in order.
LEMMA FirstPieces ==
    ASSUME NEW n \in 0 .. Size
    PROVE  /\ Pieces(0, n) \in Seq(1 .. Size) /\ Len(Pieces(0, n)) = n
           /\ \A i \in 1 .. n : Pieces(0, n)[i] = i
<1>1. 0 \in Nat /\ n - 0 = n /\ \A i \in 1 .. n : 0 + i = i
  BY FileGetAssumption
<1>2. /\ Pieces(0, n) \in Seq(1 .. Size) /\ Len(Pieces(0, n)) = n - 0
      /\ \A i \in 1 .. n - 0 : Pieces(0, n)[i] = 0 + i
  BY <1>1, PiecesType
<1> QED BY <1>1, <1>2

\* What is written in one go follows what was written before.
LEMMA PiecesConcat ==
    ASSUME NEW n \in 0 .. Size, NEW m \in n .. Size
    PROVE  Pieces(0, n) \o Pieces(n, m) = Pieces(0, m)
<1>0. n \in Nat /\ m \in Nat /\ n <= m /\ m \in 0 .. Size
  BY FileGetAssumption
<1>1. /\ Pieces(0, n) \in Seq(1 .. Size) /\ Len(Pieces(0, n)) = n
      /\ \A i \in 1 .. n : Pieces(0, n)[i] = i
  BY FirstPieces
<1>2. /\ Pieces(n, m) \in Seq(1 .. Size) /\ Len(Pieces(n, m)) = m - n
      /\ \A i \in 1 .. m - n : Pieces(n, m)[i] = n + i
  BY <1>0, PiecesType
<1>3. /\ Pieces(0, m) \in Seq(1 .. Size) /\ Len(Pieces(0, m)) = m
      /\ \A i \in 1 .. m : Pieces(0, m)[i] = i
  BY <1>0, FirstPieces
<1> DEFINE s == Pieces(0, n) \o Pieces(n, m)
<1>4. n + (m - n) = m
  BY <1>0
<1>5. /\ s \in Seq(1 .. Size) /\ Len(s) = m
      /\ \A i \in 1 .. m : s[i] = IF i <= n THEN Pieces(0, n)[i] ELSE Pieces(n, m)[i - n]
  BY <1>1, <1>2, <1>4, ConcatProperties
<1> HIDE DEF s
<1>6. \A i \in 1 .. m : s[i] = i
  <2> SUFFICES ASSUME NEW i \in 1 .. m PROVE s[i] = i
    OBVIOUS
  <2>1. CASE i <= n
    <3>1. i \in 1 .. n
      BY <1>0, <2>1
    <3> QED BY <1>1, <1>5, <2>1, <3>1
  <2>2. CASE ~(i <= n)
    <3>1. i - n \in 1 .. m - n /\ n + (i - n) = i
      BY <1>0, <2>2
    <3>2. s[i] = Pieces(n, m)[i - n]
      BY <1>5, <2>2
    <3> QED BY <1>2, <3>1, <3>2
  <2> QED BY <2>1, <2>2
<1>7. s = Pieces(0, m)
  BY <1>3, <1>5, <1>6, SeqEqual
<1> QED BY <1>7 DEF s

\* Nothing written is the empty file, and no file of pieces is no file.
LEMMA PiecesNone ==
    /\ Pieces(0, 0) = <<>>
    /\ \A n \in 0 .. Size : Pieces(0, n) # None
<1>1. 0 \in 0 .. Size
  BY FileGetAssumption
<1>2. Pieces(0, 0) = <<>>
  BY <1>1, FirstPieces, EmptySeq
<1> QED BY <1>2, FirstPieces, FileGetAssumption

\* An event is posted once, whether it is added or not.
LEMMA PostType ==
    ASSUME events \in Seq(EventName), Once, NEW e \in EventName, Post(e)
    PROVE  /\ events' \in Seq(EventName)
           /\ e # "paused" => Once' /\ (Announced' => Announced)
           /\ ~Announced => Once'
<1>1. CASE events' = events
  BY <1>1 DEF Once, Announced
<1>2. CASE events' = Append(events, e)
  <2>1. /\ events' \in Seq(EventName) /\ Len(events) \in Nat /\ Len(events') = Len(events) + 1
        /\ events'[Len(events) + 1] = e
        /\ \A i \in 1 .. Len(events) : events'[i] = events[i]
    BY <1>2
  <2> QED BY <2>1 DEF Once, Announced
<1> QED BY <1>1, <1>2 DEF Post

\* What is taken was first, and the rest stays in order.
LEMMA TakeType ==
    ASSUME events \in Seq(EventName), Once, events # <<>>, events' = Tail(events)
    PROVE  /\ events' \in Seq(EventName) /\ Head(events) \in EventName
           /\ Once'
           /\ Announced' => Announced /\ Head(events) # "paused"
           /\ Head(events) = "paused" => Announced
<1>1. /\ Head(events) \in EventName /\ events' \in Seq(EventName)
      /\ Len(events) \in Nat \ {0} /\ Len(events') = Len(events) - 1
      /\ Head(events) = events[1]
      /\ \A i \in 1 .. Len(events') : events'[i] = events[i + 1]
  BY HeadTailProperties, EmptySeq
<1>2. \A i \in 1 .. Len(events') : i + 1 \in 1 .. Len(events) /\ i + 1 # 1
  BY <1>1
<1>3. 1 \in 1 .. Len(events)
  BY <1>1
<1> QED BY <1>1, <1>2, <1>3 DEF Once, Announced

\* Neither thread changes the events of the other: they keep what they say.
LEMMA SameEvents ==
    ASSUME events' = events
    PROVE  (Once' <=> Once) /\ (Announced' <=> Announced)
  BY DEF Once, Announced

-----------------------------------------------------------------------------
(* The steps *)

\* A session that begins has received and written nothing.
LEMMA SessionFields ==
    \A s \in Session : s.from \in 0 .. Size /\ s.now \in 0 .. Size /\ s.written \in 0 .. Size
  BY DEF Session

\* Every step preserves the types.
LEMMA TypeStep ==
    ASSUME TypeOK, FileInv, Once, [Next]_vars
    PROVE  TypeOK'
<1> USE FileGetAssumption DEF TypeOK, AtUi, AtThread, flags, files, notification, State,
        Running, UiAt
<1>1. CASE Start
  BY <1>1 DEF Start
<1>2. CASE OpenFile
  <2>1. session' \in Session
    BY <1>2 DEF OpenFile, NoSession, Session
  <2> QED BY <1>2, <2>1 DEF OpenFile
<1>3. CASE CheckCancel
  BY <1>3, PostType DEF CheckCancel, EventName
<1>4. CASE Pause
  BY <1>4, PostType DEF Pause, EventName
<1>5. CASE Write
  <2>1. /\ io = "checked" /\ io' = "transfer"
        /\ UNCHANGED <<m_state, m_cancel, m_pause, ui>>
    BY <1>5 DEF Write
  <2>2. session' \in Session /\ m_written' \in 0 .. Size
    <3>1. session.from + session.now \in 0 .. Size
      BY <2>1, SessionFields DEF FileInv, Requested
    <3>2. CASE UNCHANGED <<session, m_written>>
      BY <3>2
    <3>3. CASE /\ session' = [session EXCEPT !.written = session.now]
               /\ m_written' = session.from + session.now
      BY <3>1, <3>3, SessionFields DEF Session
    <3> QED BY <1>5, <3>2, <3>3 DEF Write
  <2>3. events' \in Seq(EventName)
    BY <1>5, PostType DEF Write, EventName
  <2> QED BY <2>1, <2>2, <2>3
<1>6. CASE Fails
  BY <1>6, PostType DEF Fails, EventName
<1>7. CASE Receive
  <2>1. PICK n \in session.now + 1 .. Requested : session' = [session EXCEPT !.now = n]
    BY <1>7 DEF Receive
  <2>2. n \in 0 .. Size
    BY SessionFields DEF Requested
  <2>3. session' \in Session
    BY <2>1, <2>2 DEF Session
  <2> QED BY <1>7, <2>3 DEF Receive
<1>8. CASE Complete
  BY <1>8, PostType DEF Complete, EventName
<1>9. CASE Joins
  BY <1>9, PostType DEF Joins, Resume, SetCancel, Cancel, Exited, EventName
<1>10. CASE User
  <2>1. m_cancel' \in BOOLEAN
    BY <1>10 DEF User, PressPause, PressContinue, PressCancel, Exit
  <2> QED BY <1>10, <2>1 DEF User, PressPause, PressContinue, PressCancel, Exit
<1>11. CASE HandleEvent
  <2>1. events' \in Seq(EventName)
    BY <1>11, TakeType DEF HandleEvent
  <2> QED BY <1>11, <2>1 DEF HandleEvent
<1>12. CASE UNCHANGED vars
  BY <1>12 DEF vars
<1> QED
  BY <1>1, <1>2, <1>3, <1>4, <1>5, <1>6, <1>7, <1>8, <1>9, <1>10, <1>11, <1>12
  DEF Next, Progress, Terminated

\* Every step preserves what the files hold.
LEMMA FileStep ==
    ASSUME TypeOK, FileInv, PauseInv, [Next]_vars
    PROVE  FileInv'
<1> USE FileGetAssumption DEF TypeOK, FileInv, AtUi, AtThread, flags, files, notification,
        Running, Requested
<1>1. CASE Start
  BY <1>1 DEF Start
<1>2. CASE OpenFile
  <2>1. /\ io = "open" /\ io' = "transfer" /\ dest' = None /\ m_written' = m_written
        /\ session'.from = m_written /\ session'.now = 0 /\ session'.written = 0
    BY <1>2 DEF OpenFile, NoSession
  <2>2. tmp' = Pieces(0, m_written)
    BY <1>2, <2>1, PiecesNone DEF OpenFile
  <2>3. m_written = 0 => tmp' \in {None, <<>>}
    BY <2>2, PiecesNone
  <2> QED BY <2>1, <2>2, <2>3
<1>3. CASE CheckCancel
  BY <1>3 DEF CheckCancel
<1>4. CASE Pause
  BY <1>4 DEF Pause
<1>5. CASE Write
  <2>1. /\ io = "checked" /\ io' = "transfer" /\ UNCHANGED dest
    BY <1>5 DEF Write
  <2>2. CASE UNCHANGED <<tmp, session, m_written>>
    BY <2>1, <2>2
  <2>3. CASE /\ session.now # 0
             /\ tmp' = tmp \o Pieces(session.from + session.written, session.from + session.now)
             /\ session' = [session EXCEPT !.written = session.now]
             /\ m_written' = session.from + session.now
    <3>1. /\ session'.from = session.from /\ session'.now = session.now
          /\ session'.written = session.now
      BY <2>3 DEF Session
    <3>2. m_written' \in m_written .. Size /\ m_written' > 0
      BY <2>1, <2>3, SessionFields
    <3>3. tmp' = Pieces(0, m_written')
      <4>1. tmp' = Pieces(0, m_written) \o Pieces(m_written, m_written')
        BY <2>1, <2>3
      <4> QED BY <3>2, <4>1, PiecesConcat
    <3>4. /\ m_written' = session'.from + session'.written
          /\ session'.written <= session'.now /\ session'.now <= Size - session'.from
      BY <2>1, <2>3, <3>1, SessionFields
    <3>5. dest' = None /\ m_written' # 0
      BY <2>1, <3>2
    <3> QED BY <2>1, <3>3, <3>4, <3>5
  <2> QED BY <1>5, <2>2, <2>3 DEF Write
<1>6. CASE Fails
  BY <1>6 DEF Fails
<1>7. CASE Receive
  <2>1. PICK n \in session.now + 1 .. Requested : session' = [session EXCEPT !.now = n]
    BY <1>7 DEF Receive
  <2>2. /\ session'.from = session.from /\ session'.written = session.written
        /\ session'.now = n
    BY <2>1 DEF Session
  <2>3. session.written <= n /\ n <= Requested
    BY <1>7, SessionFields DEF Receive
  <2> QED BY <1>7, <2>2, <2>3 DEF Receive
<1>8. CASE Complete
  <2>1. /\ io' = "ended" /\ m_written' = m_written /\ m_written = Size
    BY <1>8, SessionFields DEF Complete
  <2>2. CASE dest' = tmp /\ tmp' = None
    <3>1. dest' = Pieces(0, Size) /\ dest' # None
      BY <1>8, <2>1, <2>2, PiecesNone DEF Complete
    <3> QED BY <2>1, <2>2, <3>1
  <2>3. CASE UNCHANGED files
    BY <2>1, <2>3
  <2> QED BY <1>8, <2>2, <2>3 DEF Complete
<1>9. CASE Joins
  <2>1. io' \in {io, "start", "none"} /\ (io' = "start" => dest = None)
    BY <1>9 DEF Joins, Resume, SetCancel, Cancel, Exited, PauseInv
  <2>2. UNCHANGED <<m_written, files, session>>
    BY <1>9 DEF Joins, Resume, SetCancel, Cancel, Exited
  <2> QED BY <2>1, <2>2
<1>10. CASE User \/ HandleEvent
  BY <1>10 DEF User, PressPause, PressContinue, PressCancel, Exit, HandleEvent
<1>11. CASE UNCHANGED vars
  BY <1>11 DEF vars
<1> QED
  BY <1>1, <1>2, <1>3, <1>4, <1>5, <1>6, <1>7, <1>8, <1>9, <1>10, <1>11
  DEF Next, Progress, Terminated

\* Every step preserves that a pause is announced once, by the thread that ended.
LEMMA PauseStep ==
    ASSUME TypeOK, FileInv, PauseInv, [Next]_vars
    PROVE  PauseInv'
<1> USE DEF TypeOK, PauseInv, AtUi, AtThread, flags, files, notification, MayContinue
<1>1. CASE Start \/ OpenFile \/ Receive
  BY <1>1, SameEvents DEF Start, OpenFile, Receive
<1>2. CASE CheckCancel
  BY <1>2, SameEvents, PostType DEF CheckCancel, EventName
<1>3. CASE Pause
  <2>1. dest = None /\ ~Announced /\ Once'
    BY <1>3, PostType DEF Pause, FileInv, Running, EventName
  <2> QED BY <1>3, <2>1 DEF Pause
<1>4. CASE Write
  BY <1>4, SameEvents, PostType DEF Write, EventName
<1>5. CASE Fails
  BY <1>5, PostType DEF Fails, EventName
<1>6. CASE Complete
  BY <1>6, PostType DEF Complete, EventName
<1>7. CASE Resume \/ SetCancel \/ Exited
  BY <1>7, SameEvents DEF Resume, SetCancel, Exited
<1>8. CASE Cancel
  BY <1>8, PostType DEF Cancel, EventName
<1>9. CASE User
  BY <1>9, SameEvents DEF User, PressPause, PressContinue, PressCancel, Exit, Buttons
<1>10. CASE HandleEvent
  <2>1. /\ Once' /\ Head(events) \in EventName
        /\ Announced' => Announced /\ Head(events) # "paused"
        /\ Head(events) = "paused" => Announced
    BY <1>10, TakeType DEF HandleEvent
  <2>2. /\ UNCHANGED <<io, dest, ui, m_pause>> /\ ui = "idle"
        /\ m_state' \in {m_state, "error", "done"}
        /\ Head(events) # "paused" => (m_download_paused' => m_download_paused)
    BY <1>10 DEF HandleEvent, Notify
  <2> QED BY <2>1, <2>2
<1>11. CASE UNCHANGED vars
  BY <1>11, SameEvents DEF vars
<1> QED
  BY <1>1, <1>2, <1>3, <1>4, <1>5, <1>6, <1>7, <1>8, <1>9, <1>10, <1>11
  DEF Next, Progress, Joins, Terminated

-----------------------------------------------------------------------------
(* What follows *)

\* A file under its final name is the whole file, the temporary file holds what
\* was written, and a resume() finds the thread at its end, however often a
\* download is paused, whatever arrives when, and however large the pieces are.
THEOREM KeepsAll == Spec => []KeepsWhatItGot
<1>1. Init => IInv
  <2> SUFFICES ASSUME Init PROVE IInv
    OBVIOUS
  <2>1. TypeOK
    <3>1. NoSession \in Session /\ <<>> \in Seq(EventName) /\ 0 \in 0 .. Size
      BY FileGetAssumption DEF Session, NoSession
    <3> QED BY <3>1 DEF Init, TypeOK, State, Running, UiAt
  <2>2. FileInv
    BY DEF Init, FileInv
  <2>3. ~Announced /\ Once
    BY DEF Init, Announced, Once
  <2> QED BY <2>1, <2>2, <2>3 DEF Init, IInv, PauseInv, MayContinue
<1>2. IInv /\ [Next]_vars => IInv'
  BY TypeStep, FileStep, PauseStep DEF IInv, PauseInv
<1>3. IInv => KeepsWhatItGot
  BY DEF IInv, FileInv, PauseInv, KeepsWhatItGot
<1> QED BY <1>1, <1>2, <1>3, PTL DEF Spec
=============================================================================
