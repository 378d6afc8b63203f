---------------------------- MODULE ResultStore ----------------------------
(***************************************************************************)
(* What background slicing promises about its results, whatever threads,   *)
(* locks and cancelations it takes: a set of milestones is published as    *)
(* done, and an edit of the inputs withdraws what it affects before it     *)
(* writes anything, so that a result that is published is a result of the  *)
(* current inputs.  The contract of PrintState::set_done() and             *)
(* invalidate() in libslic3r/PrintBase.hpp.                                *)
(***************************************************************************)
CONSTANT Milestones

VARIABLES
    done,     \* the milestones published as Done
    current,  \* those whose data match the current inputs
    editing   \* Print::apply() is changing the inputs

vars == <<done, current, editing>>

TypeOK ==
    /\ done \subseteq Milestones
    /\ current \subseteq Milestones
    /\ editing \in BOOLEAN

Init == done = {} /\ current = {} /\ editing = FALSE

\* set_done(): never while the inputs are being edited.
Publish(s) ==
    /\ ~editing
    /\ done' = done \cup {s}
    /\ current' = current \cup {s}
    /\ UNCHANGED editing

BeginEdit ==
    /\ ~editing
    /\ editing' = TRUE
    /\ UNCHANGED <<done, current>>

\* invalidate() of a Done milestone.
Withdraw(s) ==
    /\ editing
    /\ s \in done
    /\ done' = done \ {s}
    /\ UNCHANGED <<current, editing>>

\* The inputs of the milestones in changed are written.  Results may be
\* dropped with the objects they belong to.
EndEdit(changed) ==
    /\ editing
    /\ changed \cap done = {}
    /\ editing' = FALSE
    /\ current' = current \ changed
    /\ done' \in SUBSET done

\* The print is cleared.
Clear ==
    /\ ~editing
    /\ done' = {} /\ current' = {}
    /\ UNCHANGED editing

Next ==
    \/ \E s \in Milestones : Publish(s) \/ Withdraw(s)
    \/ BeginEdit
    \/ \E changed \in SUBSET Milestones : EndEdit(changed)
    \/ Clear

Spec == Init /\ [][Next]_vars

\* The promise: published results are current.
PublishedIsCurrent == done \subseteq current
=============================================================================
