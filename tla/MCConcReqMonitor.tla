-------------------------- MODULE MCConcReqMonitor --------------------------
(* ConcReqMonitor for TLC: every container gets the same namespace number.  *)
EXTENDS ConcReqMonitor

CONSTANT n1

OneNetns == [c \in Containers |-> n1]
=============================================================================
