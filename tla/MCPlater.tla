------------------------------ MODULE MCPlater ------------------------------
(***************************************************************************)
(* Instances of Plater for TLC: the FFF print of MCBackgroundSlicing, and  *)
(* changes of the object list ("objects"), of the G-code only ("late").    *)
(***************************************************************************)
EXTENDS Plater

MCClasses == {"objects", "late"}

MCAffects == [c \in MCClasses |-> IF c = "objects" THEN Steps ELSE {NSteps}]

MCRebuildClasses == {"objects"}
MCObjSteps == {1}
MCCleanSteps == {1}
=============================================================================
