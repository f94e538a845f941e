-------------------------- MODULE MCSceneTransfer --------------------------
(* Every node has one scene and one goroutine, of its own name.  No run of PROJECT.json uses *)
(* this module: see SceneTransferLost.cfg.                                 *)
EXTENDS SceneTransfer

HomeOf == [s \in Scenes |-> s]
AtHome == [g \in Callers |-> g]
=============================================================================
