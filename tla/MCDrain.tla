------------------------------ MODULE MCDrain ------------------------------
(* Instances of Drain for TLC. *)
EXTENDS Drain

Hybrid  == [mode : {"hybrid"}, stop : {FALSE}]
Mixed   == {[mode |-> "migrate", stop |-> FALSE], [mode |-> "hybrid", stop |-> TRUE]}
=============================================================================
