---------------------------- MODULE MCScaleToZero ----------------------------
(***************************************************************************)
(* Instances of ScaleToZero for TLC.                                       *)
(***************************************************************************)
EXTENDS ScaleToZero, TLC

\* Any handler may serve a request for any service.
AnyService == [h \in Handlers |-> Services]

Symmetry == Permutations(Ops) \cup Permutations(Handlers)
=============================================================================
