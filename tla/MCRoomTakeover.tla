--------------------------- MODULE MCRoomTakeover ---------------------------
EXTENDS RoomTakeover, TLC

CONSTANTS n1, n2, c1, c2, c3

(* Two goroutines on the node that takes over, one on the other. *)
HomeOf == (c1 :> n1) @@ (c2 :> n2) @@ (c3 :> n2)
OneOf == c1 :> n1
=============================================================================
