----------------------------- MODULE PrintState -----------------------------
(***************************************************************************)
(* The life of one milestone of a print: the states PrintStateBase::State  *)
(* can take and the transitions the methods of PrintState perform on one   *)
(* milestone (libslic3r/PrintBase.hpp).  The operators act on the state    *)
(* alone; locking, cancelation and the other milestones are the business   *)
(* of the modules that use them.                                           *)
(***************************************************************************)

\* PrintStateBase::State.
StepState == {"Fresh", "Started", "Canceled", "Done", "Invalidated"}

\* The milestone may hold data that is no longer valid.
IsDirty(s) == s \in {"Canceled", "Invalidated"}

\* The states try_invalidate() acts upon; in any other state it returns false.
IsLive(s) == s \in {"Started", "Done"}

\* StateWithTimeStamp::try_invalidate().
TryInvalidate(s) ==
    CASE s = "Started" -> "Canceled"
      [] s = "Done"    -> "Invalidated"
      [] OTHER         -> s

\* mark_canceled_unguarded(): an abandoned milestone stops being Started.
MarkCanceled(s) == IF s = "Started" THEN "Canceled" ELSE s

\* query_reset_dirty_unguarded(): the invalid data are released.
ResetDirty(s) == IF IsDirty(s) THEN "Fresh" ELSE s
=============================================================================
