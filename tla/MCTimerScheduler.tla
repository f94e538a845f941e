-------------------------- MODULE MCTimerScheduler --------------------------
EXTENDS TimerScheduler, TLC

CONSTANTS sa, sb, hb, save, daily, c1, c2

(* Two players with a timer of the same name; one has a second timer that  *)
(* fires once, and a cron.                                                 *)
PairsOf == {<<sa, hb>>, <<sb, hb>>, <<sa, save>>, <<sa, daily>>}
ImportsOf == {<<sa, save>>, <<sa, daily>>}
Kinds == hb :> "every" @@ save :> "once" @@ daily :> "cron"
CallerSymmetry == Permutations(Callers)
=============================================================================
