--------------------------- MODULE MCConcReqProbe ---------------------------
(* ConcReqProbe for TLC: CPUs and elements are interchangeable.            *)
EXTENDS ConcReqProbe, TLC

ProbeSymmetry == Permutations(CPUs) \cup Permutations(Elements)

\* What an element holds matters only while it is in the table or pointed to:
\* a spare that nobody points to is filled before it is read.
Pointed == Range(live) \cup {cpu[c].ptr : c \in CPUs}
ProbeView ==
    <<valid, counts, scaling, live, spare,
      [e \in Elements |-> IF e \in Pointed THEN val[e] ELSE 0],
      cpu, events, streak, alone>>
=============================================================================
