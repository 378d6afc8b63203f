---------------------------- MODULE UndoHistory ----------------------------
(***************************************************************************)
(* What the Undo / Redo stack promises: a list of whole states, each with  *)
(* the time it was taken at.  A new snapshot forgets the states ahead of   *)
(* the current one; a jump in time shows again exactly the state that was  *)
(* kept.  Old states may be forgotten, never altered.                      *)
(***************************************************************************)
EXTENDS Naturals

CONSTANTS
    State,  \* what the states are
    Time    \* the times, naturals

VARIABLES
    kept,  \* the states that can be shown again, by their time
    pos,   \* the time of the current state, which need not be kept yet
    live   \* the current state

vars == <<kept, pos, live>>

Init ==
    /\ \E s \in State : kept = [t \in {0} |-> s]
    /\ pos = 1
    /\ live \in State

\* Of the states kept so far those at the times `old' may stay, unaltered; the
\* current state may be added, at the time `new'.
Keep(old, new) ==
    \A u \in DOMAIN kept' :
        IF u \in old THEN kept'[u] = kept[u] ELSE u = new /\ kept'[u] = live

\* The current state is kept at the time t, then changed.  The states ahead of
\* it are forgotten, of those behind it some may be.
Record(t) ==
    /\ pos' = t + 1
    /\ t \in DOMAIN kept'
    /\ live' \in State
    /\ Keep({u \in DOMAIN kept : u < pos /\ u < t}, t)

\* A jump to the time t of a kept state or of the current one, which is kept
\* by that.  Some of the other states may be forgotten.
Jump(t) ==
    /\ pos' = t
    /\ t # pos
    /\ t \in DOMAIN kept'
    /\ live' = kept'[t]
    /\ Keep(DOMAIN kept, pos)

Next == \E t \in Time : Record(t) \/ Jump(t)

Spec == Init /\ [][Next]_vars
=============================================================================
