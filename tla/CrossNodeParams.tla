-------------------------- MODULE CrossNodeParams --------------------------
(* The parameters of CrossNodeDelivery, and what is assumed of them.       *)
EXTENDS Naturals

CONSTANTS
    Ids,            \* message ids the generator can hand out
    Events,         \* business events
    BadEvents,      \* events the receiver's input validation refuses
    None,           \* no event, no origin, no reply
    MaxAttempts, PendingLimit, DLQCapacity, DedupCapacity,
    MaxCrashes      \* bound on receiver crashes

ASSUME ParamsOK ==
    /\ BadEvents \subseteq Events
    /\ None \notin Ids \cup Events \cup {"ok", "dup", "fail", "reject"}
    /\ MaxAttempts \in Nat \ {0} /\ PendingLimit \in Nat \ {0}
    /\ DLQCapacity \in Nat \ {0} /\ DedupCapacity \in Nat \ {0}
    /\ MaxCrashes \in Nat
=============================================================================
