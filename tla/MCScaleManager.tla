--------------------------- MODULE MCScaleManager ---------------------------
(***************************************************************************)
(* Instances of ScaleManager for TLC.                                      *)
(***************************************************************************)
EXTENDS ScaleManager, FiniteSets, TLC

CONSTANTS s1, s2, h1, h2

\* Each service has one monitor, and no worker asks for a wake-up meanwhile.
OwnService  == (h1 :> {s1}) @@ (h2 :> {s2})
\* Several monitors, or a monitor and a worker's wake-up, name one service.
SameService == [h \in Handlers |-> Services]

Symmetry == Permutations(Ops)
SymmetrySame == Permutations(Ops) \cup Permutations(Handlers)

\* With as many operations as services, a handler that stores an entry finds a
\* free one as long as requests for one service do not overlap.
ASSUME OpsAssumption == Cardinality(Ops) >= Cardinality(Services)
=============================================================================
