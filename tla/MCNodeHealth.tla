---------------------------- MODULE MCNodeHealth ----------------------------
EXTENDS NodeHealth, TLC

CONSTANTS n1, n2

(* One node goes through several lives, the other is there to be confused  *)
(* with it: its type, tag, players and place in the scan are its own.      *)
LivesOf == (n1 :> 2) @@ (n2 :> 1)
OneLife == n1 :> 1
=============================================================================
