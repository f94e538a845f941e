---------------------------- MODULE MCCrossNode ----------------------------
(***************************************************************************)
(* Two settings of CrossNodeDelivery in one run: "faulty", with crashes    *)
(* and refused events, for what no step may do; "quiet", without them and  *)
(* with fairness, for what must come about in the end.                     *)
(***************************************************************************)
EXTENDS CrossNodeDelivery

CONSTANT evt

VARIABLE setting

Quiet == INSTANCE CrossNodeDelivery WITH
    Events <- {evt}, BadEvents <- {}, MaxCrashes <- 0

MCInit == setting \in {"faulty", "quiet"} /\ Init
Faulty == setting = "faulty" /\ Next /\ UNCHANGED setting
Calm   == setting = "quiet" /\ Quiet!Next /\ UNCHANGED setting

mcVars == <<setting, vars>>
MCSpec ==
    /\ MCInit /\ [][Faulty \/ Calm]_mcVars
    /\ \A m \in Ids : WF_mcVars(setting = "quiet" /\ Quiet!Deliver(m) /\ UNCHANGED setting)
    /\ WF_mcVars(setting = "quiet" /\ Quiet!CloseReturns /\ UNCHANGED setting)

(* DeliveryEnds of CrossNodeDelivery, in the setting that has fairness:    *)
(* every accepted delivery is acknowledged, rejected, cancelled, given up  *)
(* or dead-lettered (deliver, retry.Do, backgroundCtx).                    *)
QuietDeliveryEnds == setting = "quiet" => DeliveryEnds
=============================================================================
