--------------------------- MODULE ReplicaContract ---------------------------
(***************************************************************************)
(* What the replica manager promises about the replica counts, whatever    *)
(* goroutines overlap and whatever fails: one service changes at a time,   *)
(* requests and wake-ups leave it at least one replica, and a service goes *)
(* to zero only while a scale-down to zero is announced for it, that is    *)
(* after a keep-alive period has ended and every node was asked to listen  *)
(* on the service's port.  Every announcement is used up or withdrawn, and *)
(* a restart of the autoscaler withdraws them all.                         *)
(***************************************************************************)
EXTENDS Naturals

CONSTANT Services

VARIABLES
    replicas,    \* replicas[s]: the count recorded in the Swarm store
    announced    \* services that may be scaled to zero now

vars == <<replicas, announced>>

Init ==
    /\ replicas \in [Services -> Nat \ {0}]
    /\ announced = {}

Resize(s) ==
    /\ replicas'[s] \in Nat \ {0}
    /\ replicas' = [replicas EXCEPT ![s] = replicas'[s]]
    /\ UNCHANGED announced

Announce(s) ==
    /\ announced' = announced \cup {s}
    /\ UNCHANGED replicas

\* Two keep-alive operations may have announced s: one use need not end both.
Zero(s) ==
    /\ s \in announced
    /\ replicas' = [replicas EXCEPT ![s] = 0]
    /\ announced' \in {announced, announced \ {s}}

Withdraw(s) ==
    /\ announced' = announced \ {s}
    /\ UNCHANGED replicas

WithdrawAll ==
    /\ announced' = {}
    /\ UNCHANGED replicas

Next ==
    \/ \E s \in Services : Resize(s) \/ Announce(s) \/ Zero(s) \/ Withdraw(s)
    \/ WithdrawAll

Spec == Init /\ [][Next]_vars
=============================================================================
