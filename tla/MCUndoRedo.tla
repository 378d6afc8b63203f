----------------------------- MODULE MCUndoRedo -----------------------------
(***************************************************************************)
(* An instance of UndoRedo for TLC: one volume, which may be absent, and   *)
(* the mesh it refers to.                                                  *)
(***************************************************************************)
EXTENDS UndoRedo

CONSTANTS Volume, Mesh, None

MCObjects == {Model, Gizmos, Volume, Mesh}
MCImmutable == {Mesh}

MCProject(g, v) ==
    [o \in MCObjects |->
        CASE o = Model -> IF v = None THEN {} ELSE {Volume, Mesh}
          [] o = Gizmos -> g
          [] o = Volume -> IF v = None THEN Absent ELSE v
          [] o = Mesh -> IF v = None THEN Absent ELSE Mesh]

MCProjects == {MCProject(g, v) : g \in {"open", "closed"}, v \in {None, "a"}}
=============================================================================
