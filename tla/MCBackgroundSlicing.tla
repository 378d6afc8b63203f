------------------------ MODULE MCBackgroundSlicing ------------------------
(***************************************************************************)
(* Instances of BackgroundSlicing for TLC.  An FFF print of two            *)
(* milestones: 1 belongs to its PrintObjects and is cleaned up, 2 is       *)
(* psGCodeExport, which every invalidation reaches.  An SLA print has the  *)
(* same shape, but exports by itself.                                      *)
(***************************************************************************)
EXTENDS BackgroundSlicing

\* "all" invalidates every milestone, "late" the last one, "nothing" nothing.
MCClasses == {"all", "late", "nothing"}

MCAffects == [c \in MCClasses |-> CASE c = "all"  -> Steps
                                    [] c = "late" -> {NSteps}
                                    [] c = "nothing" -> {}]

\* For the run with the liveness properties: one class is enough.
MCLiveClasses == {"all"}
MCLiveAffects == [c \in MCLiveClasses |-> Steps]

MCObjSteps == {1}
MCCleanSteps == {1}
=============================================================================
