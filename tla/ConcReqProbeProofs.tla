------------------------- MODULE ConcReqProbeProofs -------------------------
(***************************************************************************)
(* Theorems about ConcReqProbe, for every set of CPUs, namespaces and      *)
(* elements, every limit and every length of the buffer.                   *)
(***************************************************************************)
EXTENDS ConcReqProbe, TLAPS

(***************************************************************************)
(* The inductive invariants.                                               *)
(***************************************************************************)
\* A CPU has no pointer before the lookup, nor once it has decided.
HoldsNothing ==
    \A c \in CPUs :
        /\ cpu[c].at \notin {"load", "write", "update", "compare"} => cpu[c].ptr = None
        /\ cpu[c].at \notin {"write", "update", "compare"} => cpu[c].buf = 0

\* Where count points into the map, the entry is there.
Pointing == \A c \in CPUs : cpu[c].count = "entry" => counts[cpu[c].ns] # -1

\* A CPU that has met nobody is by itself in the probe for its namespace, and
\* one that has met another has left the streak unknown.
Company ==
    /\ \A c \in alone : cpu[c].at # "out" /\ Inside(Ns(c)) = {c}
    /\ \A c \in CPUs \ alone : cpu[c].at # "out" => streak[Ns(c)] = -1

\* What the table holds for n.
Buffered(n) == IF live[n] = None THEN 0 ELSE val[live[n]]

\* A CPU by itself has the element of the table or `initial` in hand until it
\* updates the entry; it then reads its own spare, which holds the same.
Grip(c) ==
    /\ In(c, "insert") => live[Ns(c)] = None
    /\ cpu[c].at \in {"load", "write", "update"} =>
         live[Ns(c)] # None /\ cpu[c].ptr \in {None, live[Ns(c)]}
    /\ cpu[c].at \in {"load", "write"} /\ cpu[c].ptr = None => val[live[Ns(c)]] = 0
    /\ In(c, "write") =>
         cpu[c].buf = IF OutOfRange(cpu[c].new) THEN val[live[Ns(c)]] ELSE 0
    /\ In(c, "compare") =>
         /\ live[Ns(c)] # None
         /\ cpu[c].ptr \in {None, spare[c]}
         /\ Deref(c) = val[live[Ns(c)]]

\* The places of the steps that count the request.
Counting == {"count", "insertCount", "loadCount", "store", "gate"}
CountStep(c) == LookupCount(c) \/ InsertCount(c) \/ LoadCount(c) \/ StoreCount(c)

\* How the streak follows from what that CPU has in hand.
Tally(c) ==
    LET st == streak[Ns(c)]
        judged == st <= BufferLength /\ (OutOfRange(cpu[c].new) \/ st = 0)
    IN  /\ cpu[c].at \in {"count", "insertCount", "loadCount", "store", "gate",
                         "lookup", "insert", "load", "write"}
             => st = Buffered(Ns(c)) /\ st < BufferLength
        /\ In(c, "update") => st = Deref(c) /\ judged
        /\ In(c, "compare") => st = Buffered(Ns(c)) /\ judged
        /\ cpu[c].at \in {"close", "post", "reset"}
             => st = BufferLength /\ OutOfRange(cpu[c].new)

Exact ==
    /\ \A c \in alone : Grip(c) /\ (streak[Ns(c)] # -1 => Tally(c))
    /\ BufferIsStreak

IInv ==
    /\ TypeOK
    /\ HoldsNothing
    /\ Pointing
    /\ Company
    /\ Exact

(***************************************************************************)
(* Type correctness.                                                       *)
(***************************************************************************)
\* What a CPU's local variables are.
LEMMA CpuTyped ==
    ASSUME TypeOK, NEW c \in CPUs
    PROVE  /\ cpu[c].at = "out" <=> cpu[c] = Idle
           /\ cpu[c].at \in Places \cup {"out"}
           /\ cpu[c].at # "out" <=> cpu[c].ns \in Namespaces
           /\ cpu[c].at = "out" <=> cpu[c].ns = None
           /\ cpu[c].count \in Targets
           /\ cpu[c].new \in 0..MaxCount
           /\ cpu[c].ptr \in Elements \cup {None}
           /\ cpu[c].buf \in 0..MaxBuffer
<1>1. cpu[c] \in CpuState
    BY DEF TypeOK
<1>2. CASE cpu[c] = Idle
    BY <1>2, ProbeAssumption DEF Idle, Places, Targets
<1>3. CASE cpu[c] \in [at : Places, ns : Namespaces, count : Targets,
                       new : 0..MaxCount, ptr : Elements \cup {None},
                       buf : 0..MaxBuffer]
    BY <1>3, ProbeAssumption DEF Idle, Places
<1> QED
    BY <1>1, <1>2, <1>3 DEF CpuState

LEMMA CpuFields ==
    ASSUME TypeOK, NEW c \in CPUs
    PROVE  DOMAIN cpu[c] = {"at", "ns", "count", "new", "ptr", "buf"}
BY DEF TypeOK, CpuState, Idle

\* Writing a local variable of a CPU that is in the probe.
Busy == [at : Places, ns : Namespaces, count : Targets, new : 0..MaxCount,
         ptr : Elements \cup {None}, buf : 0..MaxBuffer]

LEMMA WriteLocal ==
    ASSUME NEW r \in Busy
    PROVE  /\ \A x \in Places : [r EXCEPT !.at = x] \in Busy
           /\ \A x \in Targets : [r EXCEPT !.count = x] \in Busy
           /\ \A x \in 0..MaxCount : [r EXCEPT !.new = x] \in Busy
           /\ \A x \in Elements \cup {None} : [r EXCEPT !.ptr = x] \in Busy
           /\ \A x \in 0..MaxBuffer : [r EXCEPT !.buf = x] \in Busy
<1>1. \A x \in Places : [r EXCEPT !.at = x] \in Busy
    BY DEF Busy
<1>2. \A x \in Targets : [r EXCEPT !.count = x] \in Busy
    BY DEF Busy
<1>3. \A x \in 0..MaxCount : [r EXCEPT !.new = x] \in Busy
    BY DEF Busy
<1>4. \A x \in Elements \cup {None} : [r EXCEPT !.ptr = x] \in Busy
    BY DEF Busy
<1>5. \A x \in 0..MaxBuffer : [r EXCEPT !.buf = x] \in Busy
    BY DEF Busy
<1> QED
    BY <1>1, <1>2, <1>3, <1>4, <1>5

\* A CPU that is in the probe and goes on in it, and one that leaves it.
LEMMA BusyTyped == ASSUME TypeOK, NEW c \in CPUs
                   PROVE  cpu[c] \in Busy <=> cpu[c].at # "out"
BY CpuTyped DEF TypeOK, CpuState, Busy

LEMMA Moves ==
    ASSUME TypeOK, NEW c \in CPUs, NEW r \in Busy, cpu' = [cpu EXCEPT ![c] = r]
    PROVE  cpu' \in [CPUs -> CpuState]
BY DEF TypeOK, CpuState, Busy

LEMMA Leaves ==
    ASSUME TypeOK, NEW c \in CPUs, cpu' = [cpu EXCEPT ![c] = Idle]
    PROVE  cpu' \in [CPUs -> CpuState]
BY DEF TypeOK, CpuState

\* The elements of buffer_map: none is in two places.
Stored ==
    /\ live \in [Namespaces -> Elements \cup {None}]
    /\ spare \in [CPUs -> Elements]
    /\ val \in [Elements -> 0..MaxBuffer]
    /\ \A m, n \in Namespaces : live[m] = live[n] /\ live[m] # None => m = n
    /\ \A c, d \in CPUs : spare[c] = spare[d] => c = d
    /\ \A n \in Namespaces, c \in CPUs : live[n] # spare[c]

LEMMA StoredTyped == TypeOK => Stored
BY DEF TypeOK, Stored, IsInjective, Range

LEMMA StoredTypeOK ==
    ASSUME Stored',
           valid' \subseteq Namespaces, scaling' \subseteq Namespaces,
           counts' \in [Namespaces -> -1..MaxCount],
           cpu' \in [CPUs -> CpuState],
           events' \in [Namespaces -> 0..Ring],
           streak' \in [Namespaces -> -1..BufferLength],
           alone' \subseteq CPUs
    PROVE  TypeOK'
<1>1. IsInjective(spare)'
    BY DEF IsInjective, Stored
<1>2. (Range(live) \cap Range(spare))' = {}
    BY DEF Range, Stored
<1> QED
    BY <1>1, <1>2 DEF TypeOK, Stored

LEMMA InsertStored ==
    ASSUME Stored, NEW n \in Namespaces, live[n] = None, NEW v \in 0..MaxBuffer, InsertElem(n, v)
    PROVE  Stored'
<1>1. PICK e \in Spares : /\ live' = [live EXCEPT ![n] = e]
                          /\ val' = [val EXCEPT ![e] = v]
                          /\ spare' = spare
    BY DEF InsertElem
<1>2. /\ e \in Elements
      /\ \A m \in Namespaces : live[m] # e
      /\ \A c \in CPUs : spare[c] # e
    BY DEF Spares, Stored, Range
<1> QED
    BY <1>1, <1>2, ProbeAssumption DEF Stored

LEMMA UpdateStored ==
    ASSUME Stored, NEW c \in CPUs, NEW n \in Namespaces, NEW v \in 0..MaxBuffer,
           UpdateElem(c, n, v)
    PROVE  Stored'
<1>1. CASE live[n] = None
    BY <1>1, InsertStored DEF UpdateElem
<1>2. CASE live[n] # None
  <2>1. /\ live' = [live EXCEPT ![n] = spare[c]]
        /\ spare' = [spare EXCEPT ![c] = live[n]]
        /\ val' = [val EXCEPT ![spare[c]] = v]
      BY <1>2 DEF UpdateElem
  <2>2. /\ live' \in [Namespaces -> Elements \cup {None}]
        /\ spare' \in [CPUs -> Elements]
        /\ val' \in [Elements -> 0..MaxBuffer]
      BY <2>1, <1>2 DEF Stored
  <2>3. \A k, m \in Namespaces : live'[k] = live'[m] /\ live'[k] # None => k = m
      BY <2>1 DEF Stored
  <2>4. \A b, d \in CPUs : spare'[b] = spare'[d] => b = d
      BY <2>1 DEF Stored
  <2>5. \A m \in Namespaces, d \in CPUs : live'[m] # spare'[d]
      BY <2>1, <1>2 DEF Stored
  <2> QED
      BY <2>2, <2>3, <2>4, <2>5 DEF Stored
<1> QED
    BY <1>1, <1>2

LEMMA InitTypeOK == Init => TypeOK
BY ProbeAssumption DEF Init, TypeOK, CpuState, Injection, Range

\* Steps of a CPU that touch neither the streaks nor the elements.
LEMMA MoveToTyped ==
    ASSUME TypeOK, NEW c \in CPUs, cpu[c].at # "out", NEW at \in Places, MoveTo(c, at)
    PROVE  cpu' \in [CPUs -> CpuState]
<1> DEFINE r == [cpu[c] EXCEPT !.at = at]
<1>1. cpu' = [cpu EXCEPT ![c] = r]
    BY DEF MoveTo, TypeOK
<1>2. r \in Busy
    BY BusyTyped, WriteLocal
<1> HIDE DEF r
<1> QED
    BY <1>1, <1>2, Moves

\* A step of a CPU that counts the request writes at most its place, its count
\* and what count points to, and no element, streak, gate or event.
LEMMA CountMoves ==
    ASSUME TypeOK, NEW c \in CPUs, CountStep(c)
    PROVE  /\ cpu[c].at \in Counting \ {"gate"} /\ cpu'[c].at \in Counting
           /\ cpu'[c].ns = cpu[c].ns /\ cpu'[c].ptr = cpu[c].ptr
           /\ cpu'[c].buf = cpu[c].buf
           /\ \A d \in CPUs \ {c} : cpu'[d] = cpu[d]
           /\ UNCHANGED <<valid, scaling, buffers, events, history>>
<1> cpu = [d \in CPUs |-> cpu[d]]
    BY DEF TypeOK
<1>1. CASE LookupCount(c)
  <2>1. PICK at \in {"insertCount", "loadCount"}, to \in Targets :
          cpu' = [cpu EXCEPT ![c].at = at, ![c].count = to]
      BY <1>1 DEF LookupCount, Targets
  <2>2. cpu[c].at = "count" /\ UNCHANGED <<valid, scaling, buffers, events, history>>
      BY <1>1 DEF LookupCount, In, maps
  <2> QED
      BY <2>1, <2>2, CpuFields DEF Counting
<1>2. CASE InsertCount(c)
    BY <1>2, CpuFields DEF InsertCount, MoveTo, In, Counting
<1>3. CASE LoadCount(c)
  <2>1. PICK v : cpu' = [cpu EXCEPT ![c].at = "store", ![c].new = v]
      BY <1>3 DEF LoadCount
  <2>2. cpu[c].at = "loadCount" /\ UNCHANGED <<valid, scaling, buffers, events, history>>
      BY <1>3 DEF LoadCount, In, maps
  <2> QED
      BY <2>1, <2>2, CpuFields DEF Counting
<1>4. CASE StoreCount(c)
  <2>1. PICK v : cpu' = [cpu EXCEPT ![c].at = "gate", ![c].new = v, ![c].count = "local"]
      BY <1>4 DEF StoreCount
  <2>2. cpu[c].at = "store" /\ UNCHANGED <<valid, scaling, buffers, events, history>>
      BY <1>4 DEF StoreCount, In
  <2> QED
      BY <2>1, <2>2, CpuFields DEF Counting
<1> QED
    BY <1>1, <1>2, <1>3, <1>4 DEF CountStep

LEMMA CountTypeOK ==
    ASSUME TypeOK, Pointing, NEW c \in CPUs, CountStep(c)
    PROVE  TypeOK'
<1>1. Ns(c) \in Namespaces /\ cpu[c] \in Busy /\ cpu[c].new \in 0..MaxCount
    BY CountMoves, CpuTyped, BusyTyped DEF Counting, Ns
<1>2. UNCHANGED <<valid, scaling, buffers, events, history>>
    BY CountMoves
<1>3. SUFFICES cpu' \in [CPUs -> CpuState] /\ counts' \in [Namespaces -> -1..MaxCount]
    BY <1>2 DEF TypeOK, buffers, history
<1>4. CASE LookupCount(c)
  <2>1. PICK at \in Places, to \in Targets :
          cpu' = [cpu EXCEPT ![c].at = at, ![c].count = to]
      BY <1>4 DEF LookupCount, Places, Targets
  <2> DEFINE r1 == [cpu[c] EXCEPT !.at = at]
             r2 == [r1 EXCEPT !.count = to]
  <2>2. cpu' = [cpu EXCEPT ![c] = r2]
      BY <2>1 DEF TypeOK
  <2>3. r1 \in Busy
      BY <1>1, WriteLocal
  <2> HIDE DEF r1
  <2>4. r2 \in Busy
      BY <2>3, WriteLocal
  <2> HIDE DEF r2
  <2> QED
      BY <1>4, <2>2, <2>4, Moves DEF LookupCount, maps, TypeOK
<1>5. CASE InsertCount(c)
  <2>1. cpu' \in [CPUs -> CpuState]
      BY <1>5, MoveToTyped DEF InsertCount, In, Places
  <2>2. counts' \in [Namespaces -> -1..MaxCount]
      BY <1>1, <1>5, ProbeAssumption DEF InsertCount, TypeOK
  <2> QED
      BY <2>1, <2>2
<1>6. CASE LoadCount(c)
  <2>1. PICK v \in IF cpu[c].count = "entry" THEN {counts[Ns(c)]} ELSE 0..MaxCount :
          cpu' = [cpu EXCEPT ![c].at = "store", ![c].new = v]
      BY <1>6 DEF LoadCount
  <2>2. v \in 0..MaxCount
    <3>1. counts[Ns(c)] \in -1..MaxCount
        BY <1>1 DEF TypeOK
    <3>2. CASE cpu[c].count = "entry"
        BY <2>1, <3>1, <3>2, ProbeAssumption DEF Pointing, Ns
    <3>3. CASE cpu[c].count # "entry"
        BY <2>1, <3>3
    <3> QED
        BY <3>2, <3>3
  <2> DEFINE r1 == [cpu[c] EXCEPT !.at = "store"]
             r2 == [r1 EXCEPT !.new = v]
  <2>3. cpu' = [cpu EXCEPT ![c] = r2]
      BY <2>1 DEF TypeOK
  <2>4. r1 \in Busy
      BY <1>1, WriteLocal DEF Places
  <2> HIDE DEF r1
  <2>5. r2 \in Busy
      BY <2>2, <2>4, WriteLocal
  <2> HIDE DEF r2
  <2> QED
      BY <1>6, <2>3, <2>5, Moves DEF LoadCount, maps, TypeOK
<1>7. CASE StoreCount(c)
  <2>1. PICK established \in BOOLEAN :
          LET v == Counted(cpu[c].new, established) IN
            /\ established => v <= MaxCount
            /\ counts' \in IF v = cpu[c].new THEN {counts} ELSE CountsAfter(c, v)
            /\ cpu' = [cpu EXCEPT ![c].at = "gate", ![c].new = v,
                                  ![c].count = "local"]
      BY <1>7 DEF StoreCount
  <2> DEFINE v == Counted(cpu[c].new, established)
             r1 == [cpu[c] EXCEPT !.at = "gate"]
             r2 == [r1 EXCEPT !.new = v]
             r3 == [r2 EXCEPT !.count = "local"]
  <2>2. cpu' = [cpu EXCEPT ![c] = r3]
      BY <2>1 DEF TypeOK
  <2>3. v \in 0..MaxCount
      BY <1>1, <2>1, ProbeAssumption DEF Counted
  <2>4. counts' \in {counts} \cup CountsAfter(c, v)
      BY <2>1
  <2> HIDE DEF v
  <2>5. r1 \in Busy
      BY <1>1, WriteLocal DEF Places
  <2> HIDE DEF r1
  <2>6. r2 \in Busy
      BY <2>3, <2>5, WriteLocal
  <2> HIDE DEF r2
  <2>7. r3 \in Busy
      BY <2>6, WriteLocal DEF Targets
  <2> HIDE DEF r3
  <2>8. cpu' \in [CPUs -> CpuState]
      BY <2>2, <2>7, Moves
  <2>9. counts' = counts \/ \E n \in Namespaces : counts' = [counts EXCEPT ![n] = v]
    <3>1. cpu[c].count \in Targets
        BY CpuTyped
    <3> QED
        BY <1>1, <2>4, <3>1 DEF CountsAfter, Targets
  <2>10. counts' \in [Namespaces -> -1..MaxCount]
      BY <2>3, <2>9, ProbeAssumption DEF TypeOK
  <2> QED
      BY <2>8, <2>10
<1> QED
    BY <1>4, <1>5, <1>6, <1>7 DEF CountStep

LEMMA ExitTyped ==
    ASSUME TypeOK, NEW c \in CPUs, NEW zeroed \in BOOLEAN, Exit(c, zeroed)
    PROVE  /\ cpu' \in [CPUs -> CpuState]
           /\ streak' \in [Namespaces -> -1..BufferLength]
           /\ alone' \subseteq CPUs
<1>1. cpu' \in [CPUs -> CpuState]
    BY Leaves DEF Exit
<1>2. 0 \in -1..BufferLength
    BY ProbeAssumption
<1>3. streak' \in [Namespaces -> -1..BufferLength]
    BY <1>2 DEF Exit, TypeOK
<1>4. alone' \subseteq CPUs
    BY DEF Exit, TypeOK
<1> QED
    BY <1>1, <1>3, <1>4

LEMMA GateTyped ==
    ASSUME TypeOK, NEW c \in CPUs,
           \/ \E n \in Namespaces : Arrive(c, n)
           \/ CheckGate(c) \/ LookupBuffer(c) \/ LoadBuffer(c)
           \/ Compare(c) \/ Close(c) \/ Post(c)
    PROVE  TypeOK'
<1>1. ASSUME NEW n \in Namespaces, Arrive(c, n) PROVE TypeOK'
  <2> DEFINE r == [Idle EXCEPT !.at = "count", !.ns = n]
  <2>1. r \in Busy
    <3>1. r = [at |-> "count", ns |-> n, count |-> "local", new |-> 0,
               ptr |-> None, buf |-> 0]
      <4>1. Idle = [at |-> "out", ns |-> None, count |-> "local", new |-> 0,
                    ptr |-> None, buf |-> 0]
          BY DEF Idle
      <4> DEFINE q == [Idle EXCEPT !.at = "count"]
      <4>2. q = [Idle EXCEPT !.at = "count"]
          OBVIOUS
      <4>3. r = [q EXCEPT !.ns = n]
          OBVIOUS
      <4> HIDE DEF q, r
      <4>4. q = [at |-> "count", ns |-> None, count |-> "local", new |-> 0,
                 ptr |-> None, buf |-> 0]
          BY <4>1, <4>2
      <4> QED
          BY <4>3, <4>4
    <3>2. 0 \in 0..MaxCount /\ 0 \in 0..MaxBuffer /\ "count" \in Places /\ "local" \in Targets
        BY ProbeAssumption DEF Places, Targets
    <3> HIDE DEF r
    <3> QED
        BY <3>1, <3>2 DEF Busy
  <2>2. cpu' = [cpu EXCEPT ![c] = r]
      BY <1>1 DEF Arrive
  <2> HIDE DEF r
  <2>3. cpu' \in [CPUs -> CpuState]
      BY <2>1, <2>2, Moves
  <2>4. -1 \in -1..BufferLength
      BY ProbeAssumption
  <2>5. streak' \in [Namespaces -> -1..BufferLength] /\ alone' \subseteq CPUs
      BY <1>1, <2>4 DEF Arrive, Meet, TypeOK
  <2> QED
      BY <1>1, <2>3, <2>5 DEF Arrive, TypeOK, maps, buffers
<1>2. CASE CheckGate(c)
  <2>1. CASE Ns(c) \in scaling
      BY <1>2, <2>1, ExitTyped DEF CheckGate, TypeOK, maps, buffers
  <2>2. CASE Ns(c) \notin scaling
    <3>1. cpu' \in [CPUs -> CpuState]
        BY <1>2, <2>2, MoveToTyped DEF CheckGate, In, Places
    <3> QED
        BY <1>2, <2>2, <3>1 DEF CheckGate, TypeOK, maps, buffers, history
  <2> QED
      BY <2>1, <2>2
<1>3. CASE LookupBuffer(c)
  <2> DEFINE at == IF live[Ns(c)] = None THEN "insert" ELSE "load"
             r1 == [cpu[c] EXCEPT !.ptr = live[Ns(c)]]
             r2 == [r1 EXCEPT !.at = at]
  <2>1. cpu' = [cpu EXCEPT ![c] = r2]
      BY <1>3 DEF LookupBuffer, TypeOK
  <2>2. Ns(c) \in Namespaces /\ cpu[c] \in Busy
      BY <1>3, CpuTyped, BusyTyped DEF LookupBuffer, In, Ns
  <2>3. at \in Places /\ live[Ns(c)] \in Elements \cup {None}
      BY <2>2 DEF Places, TypeOK
  <2>4. r1 \in Busy
      BY <2>2, <2>3, WriteLocal
  <2> HIDE DEF r1, at
  <2>5. r2 \in Busy
      BY <2>3, <2>4, WriteLocal
  <2> HIDE DEF r2
  <2>6. cpu' \in [CPUs -> CpuState]
      BY <2>1, <2>5, Moves
  <2> QED
      BY <1>3, <2>6 DEF LookupBuffer, TypeOK, maps, buffers, history
<1>4. CASE LoadBuffer(c)
  <2> DEFINE b == IF OutOfRange(cpu[c].new) THEN Deref(c) ELSE 0
             r1 == [cpu[c] EXCEPT !.at = "write"]
             r2 == [r1 EXCEPT !.buf = b]
  <2>1. cpu' = [cpu EXCEPT ![c] = r2]
      BY <1>4 DEF LoadBuffer, TypeOK
  <2>2. cpu[c] \in Busy
      BY <1>4, BusyTyped DEF LoadBuffer, In
  <2>3. b \in 0..MaxBuffer
      BY CpuTyped, ProbeAssumption DEF Deref, TypeOK
  <2>4. r1 \in Busy
      BY <2>2, WriteLocal DEF Places
  <2> HIDE DEF r1, b
  <2>5. r2 \in Busy
      BY <2>3, <2>4, WriteLocal
  <2> HIDE DEF r2
  <2>6. cpu' \in [CPUs -> CpuState]
      BY <2>1, <2>5, Moves
  <2> QED
      BY <1>4, <2>6 DEF LoadBuffer, TypeOK, maps, buffers, history
<1>5. CASE Compare(c)
  <2>1. CASE Deref(c) = BufferLength
    <3> DEFINE r1 == [cpu[c] EXCEPT !.at = "close"]
               r2 == [r1 EXCEPT !.ptr = None]
               r3 == [r2 EXCEPT !.buf = 0]
    <3>1. cpu' = [cpu EXCEPT ![c] = r3]
        BY <1>5, <2>1 DEF Compare, TypeOK
    <3>2. cpu[c] \in Busy /\ 0 \in 0..MaxBuffer
        BY <1>5, BusyTyped, ProbeAssumption DEF Compare, In
    <3>3. r1 \in Busy
        BY <3>2, WriteLocal DEF Places
    <3> HIDE DEF r1
    <3>4. r2 \in Busy
        BY <3>3, WriteLocal
    <3> HIDE DEF r2
    <3>5. r3 \in Busy
        BY <3>2, <3>4, WriteLocal
    <3> HIDE DEF r3
    <3>6. cpu' \in [CPUs -> CpuState]
        BY <3>1, <3>5, Moves
    <3> QED
        BY <1>5, <2>1, <3>6 DEF Compare, TypeOK, maps, buffers, history
  <2>2. CASE Deref(c) # BufferLength
      BY <1>5, <2>2, ExitTyped DEF Compare, TypeOK, maps, buffers
  <2> QED
      BY <2>1, <2>2
<1>6. CASE Close(c)
  <2>1. cpu' \in [CPUs -> CpuState]
      BY <1>6, MoveToTyped DEF Close, In, Places
  <2>2. scaling' \subseteq Namespaces
      BY <1>6, CpuTyped DEF Close, In, Ns, TypeOK
  <2> QED
      BY <1>6, <2>1, <2>2 DEF Close, TypeOK, buffers, history
<1>7. CASE Post(c)
  <2>1. cpu' \in [CPUs -> CpuState]
      BY <1>7, MoveToTyped DEF Post, In, Places
  <2>2. Ns(c) \in Namespaces
      BY <1>7, CpuTyped DEF Post, In, Ns
  <2>3. events' \in [Namespaces -> 0..Ring]
      BY <1>7, <2>2, ProbeAssumption DEF Post, TypeOK
  <2> QED
      BY <1>7, <2>1, <2>3 DEF Post, TypeOK, maps, buffers, history
<1> QED
    BY <1>1, <1>2, <1>3, <1>4, <1>5, <1>6, <1>7

LEMMA DerefTyped == ASSUME TypeOK, NEW c \in CPUs PROVE Deref(c) \in 0..MaxBuffer
BY CpuTyped DEF Deref, TypeOK

\* Steps of a CPU that touch an element.  The streak cannot pass the limit: it
\* is below it, or unknown, before a sample is judged.
LEMMA BufferTyped ==
    ASSUME IInv, NEW c \in CPUs,
           InsertBuffer(c) \/ WriteBuffer(c) \/ UpdateBuffer(c) \/ Reset(c)
    PROVE  TypeOK'
<1> TypeOK /\ Stored /\ 0 \in 0..MaxBuffer
    BY StoredTyped, ProbeAssumption DEF IInv
<1>1. CASE InsertBuffer(c)
  <2>1. cpu' \in [CPUs -> CpuState]
      BY <1>1, MoveToTyped DEF InsertBuffer, In, Places
  <2>2. Ns(c) \in Namespaces
      BY <1>1, CpuTyped DEF InsertBuffer, In, Ns
  <2>3. Stored'
    <3>1. CASE live[Ns(c)] = None
        BY <1>1, <3>1, <2>2, InsertStored DEF InsertBuffer
    <3>2. CASE live[Ns(c)] # None
        BY <1>1, <3>2 DEF InsertBuffer, buffers, Stored
    <3> QED
        BY <3>1, <3>2
  <2> QED
      BY <1>1, <2>1, <2>3, StoredTypeOK DEF InsertBuffer, maps, history, TypeOK
<1>2. CASE WriteBuffer(c)
  <2> DEFINE b == Judged(c)
  <2>1. Ns(c) \in Namespaces /\ cpu[c] \in Busy /\ In(c, "write")
      BY <1>2, CpuTyped, BusyTyped DEF WriteBuffer, In, Ns
  <2>2. b \in 0..MaxBuffer
      BY <1>2, CpuTyped, ProbeAssumption DEF WriteBuffer, Judged
  <2> DEFINE d == IF cpu[c].ptr = None THEN b ELSE 0
             r1 == [cpu[c] EXCEPT !.at = "update"]
             r2 == [r1 EXCEPT !.buf = d]
  <2>3. cpu' = [cpu EXCEPT ![c] = r2]
      BY <1>2 DEF WriteBuffer, TypeOK
  <2>4. d \in 0..MaxBuffer
      BY <2>2, ProbeAssumption
  <2>5. r1 \in Busy
      BY <2>1, WriteLocal DEF Places
  <2> HIDE DEF r1, d
  <2>6. r2 \in Busy
      BY <2>4, <2>5, WriteLocal
  <2> HIDE DEF r2
  <2>7. cpu' \in [CPUs -> CpuState]
      BY <2>3, <2>6, Moves
  <2>8. val' \in [Elements -> 0..MaxBuffer]
    <3>1. CASE cpu[c].ptr = None
        BY <1>2, <3>1 DEF WriteBuffer, TypeOK
    <3>2. CASE cpu[c].ptr # None
      <4>1. val' = [val EXCEPT ![cpu[c].ptr] = b]
          BY <1>2, <3>2 DEF WriteBuffer
      <4> HIDE DEF b
      <4> QED
          BY <4>1, <2>2 DEF TypeOK
    <3> QED
        BY <3>1, <3>2
  <2>9. streak[Ns(c)] # -1 => streak[Ns(c)] < BufferLength
    <3>1. c \in alone \/ streak[Ns(c)] = -1
        BY <2>1 DEF IInv, Company, In
    <3>2. c \in alone /\ streak[Ns(c)] # -1 => streak[Ns(c)] < BufferLength
        BY <2>1 DEF IInv, Exact, Tally, In
    <3> QED
        BY <3>1, <3>2
  <2>10. streak' \in [Namespaces -> -1..BufferLength]
    <3>1. ASSUME NEW n \in Namespaces
          PROVE  streak'[n] \in -1..BufferLength
      <4>1. streak'[n] = IF streak[n] = -1 \/ n \in Hit(c) THEN -1
                         ELSE IF n # Ns(c) THEN streak[n]
                         ELSE IF OutOfRange(cpu[c].new) THEN streak[n] + 1 ELSE 0
          BY <1>2 DEF WriteBuffer
      <4>2. streak[n] \in -1..BufferLength
          BY DEF TypeOK
      <4> QED
          BY <4>1, <4>2, <2>9, ProbeAssumption
    <3>2. streak' = [n \in Namespaces |-> streak'[n]]
        BY <1>2 DEF WriteBuffer
    <3> QED
        BY <3>1, <3>2
  <2>11. alone' \subseteq CPUs
      BY <1>2 DEF WriteBuffer, TypeOK
  <2> QED
      BY <1>2, <2>7, <2>8, <2>10, <2>11 DEF WriteBuffer, TypeOK, maps
<1>3. CASE UpdateBuffer(c)
  <2>1. cpu' \in [CPUs -> CpuState]
      BY <1>3, MoveToTyped DEF UpdateBuffer, In, Places
  <2>2. Ns(c) \in Namespaces
      BY <1>3, CpuTyped DEF UpdateBuffer, In, Ns
  <2>3. Stored'
      BY <1>3, <2>2, UpdateStored, DerefTyped DEF UpdateBuffer
  <2> QED
      BY <1>3, <2>1, <2>3, StoredTypeOK DEF UpdateBuffer, maps, history, TypeOK
<1>4. CASE Reset(c)
  <2>1. Ns(c) \in Namespaces
      BY <1>4, CpuTyped DEF Reset, In, Ns
  <2>2. Stored'
      BY <1>4, <2>1, UpdateStored DEF Reset
  <2>3. /\ cpu' \in [CPUs -> CpuState]
        /\ streak' \in [Namespaces -> -1..BufferLength]
        /\ alone' \subseteq CPUs
      BY <1>4, ExitTyped DEF Reset
  <2> QED
      BY <1>4, <2>2, <2>3, StoredTypeOK DEF Reset, maps, TypeOK
<1> QED
    BY <1>1, <1>2, <1>3, <1>4

LEMMA StaleCountTyped ==
    ASSUME TypeOK, NEW n \in Namespaces, StaleCount(n)
    PROVE  cpu' \in [CPUs -> CpuState]
<1>1. ASSUME NEW c \in CPUs PROVE cpu'[c] \in CpuState
  <2>1. CASE Ns(c) = n /\ cpu[c].count = "entry"
    <3>1. cpu'[c] = [cpu[c] EXCEPT !.count = "stale"]
        BY <2>1 DEF StaleCount
    <3>2. cpu[c] \in Busy
        BY <2>1, CpuTyped, BusyTyped DEF Ns
    <3>3. cpu'[c] \in Busy
        BY <3>1, <3>2, WriteLocal DEF Targets
    <3> QED
        BY <3>3 DEF CpuState, Busy
  <2>2. CASE ~(Ns(c) = n /\ cpu[c].count = "entry")
      BY <2>2 DEF StaleCount, TypeOK
  <2> QED
      BY <2>1, <2>2
<1> QED
    BY <1>1 DEF StaleCount

LEMMA GoTyped ==
    ASSUME TypeOK, NEW n \in Namespaces, GoStep(n)
    PROVE  TypeOK'
<1> Stored /\ 0 \in 0..MaxCount /\ {-1, 0} \subseteq -1..BufferLength
    BY StoredTyped, ProbeAssumption
<1>1. CASE PutCount(n)
  <2>1. counts' \in [Namespaces -> -1..MaxCount]
      BY <1>1 DEF PutCount, TypeOK
  <2> QED
      BY <1>1, <2>1, StaleCountTyped DEF PutCount, TypeOK, buffers, history
<1>2. CASE RemoveCount(n)
  <2>1. counts' \in [Namespaces -> -1..MaxCount]
      BY <1>2, ProbeAssumption DEF RemoveCount, TypeOK
  <2> QED
      BY <1>2, <2>1, StaleCountTyped DEF RemoveCount, TypeOK, buffers, history
<1>3. CASE RemoveBuffer(n)
  <2>1. Stored'
      BY <1>3, ProbeAssumption DEF RemoveBuffer, Stored
  <2>2. streak' \in [Namespaces -> -1..BufferLength] /\ alone' \subseteq CPUs
      BY <1>3 DEF RemoveBuffer, Meet, TypeOK
  <2>3. UNCHANGED <<valid, counts, scaling, cpu, events>>
      BY <1>3 DEF RemoveBuffer, maps
  <2> QED
      BY <2>1, <2>2, <2>3, StoredTypeOK DEF TypeOK
<1>4. CASE SetValid(n)
    BY <1>4 DEF SetValid, TypeOK, buffers, history
<1>5. CASE Open(n)
    BY <1>5 DEF Open, TypeOK, buffers, history
<1>6. CASE Take(n)
  <2>1. events' \in [Namespaces -> 0..Ring]
      BY <1>6, ProbeAssumption DEF Take, TypeOK
  <2> QED
      BY <1>6, <2>1 DEF Take, TypeOK, maps, buffers, history
<1> QED
    BY <1>1, <1>2, <1>3, <1>4, <1>5, <1>6 DEF GoStep

LEMMA NextTypeOK == IInv /\ [Next]_vars => TypeOK'
<1> SUFFICES ASSUME IInv, [Next]_vars PROVE TypeOK'
    OBVIOUS
<1> TypeOK /\ Pointing
    BY DEF IInv
<1>1. ASSUME NEW c \in CPUs, ProbeStep(c) PROVE TypeOK'
    BY <1>1, CountTypeOK, GateTyped, BufferTyped DEF ProbeStep, CountStep
<1>2. ASSUME NEW n \in Namespaces, GoStep(n) PROVE TypeOK'
    BY <1>2, GoTyped
<1>3. CASE UNCHANGED vars
    BY <1>3 DEF vars, TypeOK
<1> QED
    BY <1>1, <1>2, <1>3 DEF Next

(***************************************************************************)
(* What a CPU holds, and who is alone.                                     *)
(***************************************************************************)
LEMMA NextHoldsNothing == TypeOK /\ HoldsNothing /\ [Next]_vars => HoldsNothing'
<1> SUFFICES ASSUME TypeOK, HoldsNothing, [Next]_vars PROVE HoldsNothing'
    OBVIOUS
<1> cpu = [c \in CPUs |-> cpu[c]]
    BY DEF TypeOK
<1>1. ASSUME NEW c \in CPUs, ProbeStep(c) PROVE HoldsNothing'
  <2>1. ASSUME NEW n \in Namespaces, Arrive(c, n) PROVE HoldsNothing'
      BY <2>1 DEF Arrive, HoldsNothing, Idle
  <2>2. CASE CountStep(c)
      BY <2>2, CountMoves DEF HoldsNothing, Counting
  <2>3. ASSUME cpu' = [cpu EXCEPT ![c] = Idle] PROVE HoldsNothing'
      BY <2>3 DEF HoldsNothing, Idle
  <2>4. CASE CheckGate(c)
      BY <2>4, <2>3, CpuFields DEF CheckGate, Exit, MoveTo, HoldsNothing, In
  <2>5. CASE LookupBuffer(c)
      BY <2>5, CpuFields DEF LookupBuffer, HoldsNothing, In
  <2>6. CASE InsertBuffer(c) \/ LoadBuffer(c)
      BY <2>6, CpuFields DEF InsertBuffer, LoadBuffer, MoveTo, HoldsNothing, In
  <2>7. CASE WriteBuffer(c) \/ UpdateBuffer(c)
      BY <2>7, CpuFields DEF WriteBuffer, UpdateBuffer, MoveTo, HoldsNothing, In
  <2>8. CASE Compare(c)
    <3>1. CASE Deref(c) = BufferLength
      <4>1. cpu'[c].ptr = None /\ cpu'[c].buf = 0 /\ \A d \in CPUs \ {c} : cpu'[d] = cpu[d]
        <5>1. cpu' = [cpu EXCEPT ![c].at = "close", ![c].ptr = None, ![c].buf = 0]
            BY <2>8, <3>1 DEF Compare
        <5> QED
            BY <5>1, CpuFields
      <4> QED
          BY <4>1 DEF HoldsNothing
    <3>2. CASE Deref(c) # BufferLength
        BY <2>8, <2>3, <3>2 DEF Compare, Exit
    <3> QED
        BY <3>1, <3>2
  <2>9. CASE Close(c) \/ Post(c)
      BY <2>9, CpuFields DEF Close, Post, MoveTo, HoldsNothing, In
  <2>10. CASE Reset(c)
      BY <2>10, <2>3 DEF Reset, Exit
  <2> QED
      BY <1>1, <2>1, <2>2, <2>4, <2>5, <2>6, <2>7, <2>8, <2>9, <2>10
      DEF ProbeStep, CountStep
<1>2. ASSUME NEW n \in Namespaces, GoStep(n) PROVE HoldsNothing'
  <2>1. CASE StaleCount(n)
      BY <2>1, CpuFields DEF StaleCount, HoldsNothing
  <2>2. CASE UNCHANGED cpu
      BY <2>2 DEF HoldsNothing
  <2> QED
      BY <1>2, <2>1, <2>2
         DEF GoStep, PutCount, RemoveCount, RemoveBuffer, SetValid, Open, Take
<1>3. CASE UNCHANGED vars
    BY <1>3 DEF vars, HoldsNothing
<1> QED
    BY <1>1, <1>2, <1>3 DEF Next

LEMMA NextPointing == TypeOK /\ Pointing /\ [Next]_vars => Pointing'
<1> SUFFICES ASSUME TypeOK, Pointing, [Next]_vars PROVE Pointing'
    OBVIOUS
<1> cpu = [c \in CPUs |-> cpu[c]] /\ counts = [n \in Namespaces |-> counts[n]]
    BY DEF TypeOK
<1>1. ASSUME \A n \in Namespaces : counts[n] # -1 => counts'[n] # -1,
             \A d \in CPUs : cpu'[d].count = "entry"
                => \/ cpu[d].count = "entry" /\ cpu'[d].ns = cpu[d].ns
                   \/ cpu'[d].ns \in Namespaces /\ counts[cpu'[d].ns] # -1
      PROVE  Pointing'
  <2>1. \A d \in CPUs : cpu[d].count = "entry" => cpu[d].ns \in Namespaces
    <3>1. ASSUME NEW d \in CPUs, cpu[d].count = "entry" PROVE cpu[d] # Idle
        BY <3>1 DEF Idle
    <3> QED
        BY <3>1, CpuTyped
  <2> QED
      BY <1>1, <2>1 DEF Pointing
<1>2. ASSUME NEW c \in CPUs, ProbeStep(c) PROVE Pointing'
  <2>1. CASE LookupCount(c)
    <3>1. cpu[c].ns \in Namespaces
        BY <2>1, CpuTyped DEF LookupCount, In
    <3>2. cpu'[c].ns = cpu[c].ns /\ \A d \in CPUs \ {c} : cpu'[d] = cpu[d]
        BY <2>1, CountMoves DEF CountStep
    <3>3. cpu'[c].count = "entry" => counts[cpu[c].ns] # -1
        BY <2>1, CpuFields DEF LookupCount, Ns
    <3>4. counts' = counts
        BY <2>1 DEF LookupCount, maps
    <3> QED
        BY <1>1, <3>1, <3>2, <3>3, <3>4
  <2>2. CASE InsertCount(c) \/ LoadCount(c)
    <3>1. /\ cpu'[c].count = cpu[c].count
          /\ \A n \in Namespaces : counts[n] # -1 => counts'[n] # -1
      <4>1. CASE InsertCount(c)
          BY <4>1, CpuFields DEF InsertCount, MoveTo
      <4>2. CASE LoadCount(c)
        <5>1. PICK v : cpu' = [cpu EXCEPT ![c].at = "store", ![c].new = v]
            BY <4>2 DEF LoadCount
        <5> QED
            BY <4>2, <5>1, CpuFields DEF LoadCount, maps
      <4> QED
          BY <2>2, <4>1, <4>2
    <3>2. cpu'[c].ns = cpu[c].ns /\ \A d \in CPUs \ {c} : cpu'[d] = cpu[d]
        BY <2>2, CountMoves DEF CountStep
    <3> QED
        BY <1>1, <3>1, <3>2
  <2>3. CASE StoreCount(c)
    <3>1. PICK v \in 0..MaxCount :
            /\ cpu' = [cpu EXCEPT ![c].at = "gate", ![c].new = v, ![c].count = "local"]
            /\ counts' \in {counts} \cup CountsAfter(c, v)
      <4>1. PICK established \in BOOLEAN :
              LET v == Counted(cpu[c].new, established) IN
                /\ established => v <= MaxCount
                /\ counts' \in IF v = cpu[c].new THEN {counts} ELSE CountsAfter(c, v)
                /\ cpu' = [cpu EXCEPT ![c].at = "gate", ![c].new = v,
                                      ![c].count = "local"]
          BY <2>3 DEF StoreCount
      <4>2. Counted(cpu[c].new, established) \in 0..MaxCount
          BY <4>1, CpuTyped, ProbeAssumption DEF Counted
      <4> QED
          BY <4>1, <4>2
    <3>2. \A n \in Namespaces : counts[n] # -1 => counts'[n] # -1
      <4>1. cpu[c].count \in Targets
          BY CpuTyped
      <4>2. counts' = counts \/ \E n \in Namespaces \cup {Ns(c)} :
                                  counts' = [counts EXCEPT ![n] = v]
          BY <3>1, <4>1 DEF CountsAfter, Targets
      <4>3. v # -1
          BY <3>1, ProbeAssumption
      <4> QED
          BY <4>2, <4>3
    <3>3. /\ cpu'[c].count # "entry"
          /\ \A d \in CPUs \ {c} : cpu'[d] = cpu[d]
        BY <3>1, CpuFields
    <3> QED
        BY <1>1, <3>2, <3>3
  <2>4. CASE \/ \E n \in Namespaces : Arrive(c, n)
             \/ CheckGate(c) \/ LookupBuffer(c) \/ InsertBuffer(c) \/ LoadBuffer(c)
             \/ WriteBuffer(c) \/ UpdateBuffer(c) \/ Compare(c)
             \/ Close(c) \/ Post(c) \/ Reset(c)
    <3>1. counts' = counts
        BY <2>4 DEF Arrive, CheckGate, LookupBuffer, InsertBuffer, LoadBuffer, WriteBuffer,
                    UpdateBuffer, Compare, Close, Post, Reset, maps
    <3>2. ASSUME cpu' = [cpu EXCEPT ![c] = Idle] PROVE Pointing'
      <4>1. cpu'[c].count # "entry" /\ \A d \in CPUs \ {c} : cpu'[d] = cpu[d]
          BY <3>2 DEF Idle
      <4> QED
          BY <1>1, <3>1, <4>1
    <3>3. ASSUME cpu'[c].count = cpu[c].count, cpu'[c].ns = cpu[c].ns,
                 \A d \in CPUs \ {c} : cpu'[d] = cpu[d]
          PROVE  Pointing'
        BY <1>1, <3>1, <3>3
    <3>4. ASSUME NEW n \in Namespaces, Arrive(c, n) PROVE Pointing'
      <4>1. cpu'[c].count # "entry" /\ \A d \in CPUs \ {c} : cpu'[d] = cpu[d]
          BY <3>4 DEF Arrive, Idle
      <4> QED
          BY <1>1, <3>1, <4>1
    <3>5. CASE CheckGate(c)
        BY <3>5, <3>2, <3>3, CpuFields DEF CheckGate, Exit, MoveTo
    <3>6. CASE LookupBuffer(c)
        BY <3>6, <3>3, CpuFields DEF LookupBuffer
    <3>7. CASE InsertBuffer(c) \/ UpdateBuffer(c) \/ Close(c) \/ Post(c)
        BY <3>7, <3>3, CpuFields DEF InsertBuffer, UpdateBuffer, Close, Post, MoveTo
    <3>8. CASE LoadBuffer(c)
        BY <3>8, <3>3, CpuFields DEF LoadBuffer
    <3>9. CASE WriteBuffer(c)
      <4>1. \E b : cpu' = [cpu EXCEPT ![c].at = "update", ![c].buf = b]
          BY <3>9 DEF WriteBuffer
      <4> QED
          BY <3>3, <4>1, CpuFields
    <3>10. CASE Compare(c)
      <4>1. CASE Deref(c) = BufferLength
        <5>1. cpu' = [cpu EXCEPT ![c].at = "close", ![c].ptr = None, ![c].buf = 0]
            BY <3>10, <4>1 DEF Compare
        <5> QED
            BY <3>3, <5>1, CpuFields
      <4>2. CASE Deref(c) # BufferLength
          BY <3>10, <3>2, <4>2 DEF Compare, Exit
      <4> QED
          BY <4>1, <4>2
    <3>11. CASE Reset(c)
        BY <3>11, <3>2 DEF Reset, Exit
    <3> QED
        BY <2>4, <3>4, <3>5, <3>6, <3>7, <3>8, <3>9, <3>10, <3>11
  <2> QED
      BY <1>2, <2>1, <2>2, <2>3, <2>4 DEF ProbeStep
<1>3. ASSUME NEW n \in Namespaces, GoStep(n) PROVE Pointing'
  <2>1. CASE PutCount(n) \/ RemoveCount(n)
    <3>1. StaleCount(n) /\ \A m \in Namespaces \ {n} : counts'[m] = counts[m]
        BY <2>1 DEF PutCount, RemoveCount
    <3>2. ASSUME NEW d \in CPUs, cpu'[d].count = "entry"
          PROVE  counts'[cpu'[d].ns] # -1
      <4>1. cpu'[d] = cpu[d] /\ Ns(d) # n
          BY <3>1, <3>2, CpuFields DEF StaleCount
      <4>2. cpu[d] # Idle
          BY <3>2, <4>1 DEF Idle
      <4> QED
          BY <3>1, <3>2, <4>1, <4>2, CpuTyped DEF Pointing, Ns
    <3> QED
        BY <3>2 DEF Pointing
  <2>2. CASE RemoveBuffer(n) \/ SetValid(n) \/ Open(n) \/ Take(n)
      BY <2>2 DEF RemoveBuffer, SetValid, Open, Take, maps, Pointing
  <2> QED
      BY <1>3, <2>1, <2>2 DEF GoStep
<1>4. CASE UNCHANGED vars
    BY <1>4 DEF vars, Pointing
<1> QED
    BY <1>2, <1>3, <1>4 DEF Next

\* A step in which no CPU enters or leaves the probe.
Stay ==
    \A d \in CPUs : /\ cpu'[d].ns = cpu[d].ns
                    /\ cpu'[d].at = "out" <=> cpu[d].at = "out"

LEMMA StayInside == ASSUME Stay, NEW n PROVE Inside(n)' = Inside(n)
BY DEF Stay, Inside, Ns

LEMMA StayCompany ==
    ASSUME TypeOK, Company, Stay, alone' \subseteq alone,
           \A d \in CPUs \ alone' : cpu[d].at # "out" => streak'[cpu[d].ns] = -1
    PROVE  Company'
<1>1. ASSUME NEW d \in alone'
      PROVE  cpu'[d].at # "out" /\ {e \in CPUs : cpu'[e].ns = cpu'[d].ns} = {d}
  <2>1. d \in CPUs /\ d \in alone /\ cpu'[d].ns = cpu[d].ns
      BY <1>1 DEF Stay, TypeOK
  <2>2. cpu[d].at # "out" /\ Inside(cpu[d].ns) = {d}
      BY <2>1 DEF Company, Ns
  <2>3. \A e \in CPUs : cpu'[e].ns = cpu[e].ns
      BY DEF Stay
  <2> QED
      BY <2>1, <2>2, <2>3 DEF Stay, Inside, Ns
<1>2. ASSUME NEW d \in CPUs \ alone', cpu'[d].at # "out"
      PROVE  streak'[cpu'[d].ns] = -1
    BY <1>2 DEF Stay
<1> QED
    BY <1>1, <1>2 DEF Company, Ns, Inside

LEMMA ExitCompany ==
    ASSUME TypeOK, Company, NEW c \in CPUs, cpu[c].at # "out",
           NEW zeroed \in BOOLEAN, Exit(c, zeroed)
    PROVE  Company'
<1>1. /\ cpu'[c] = Idle
      /\ \A d \in CPUs \ {c} : cpu'[d] = cpu[d]
      /\ alone' = alone \ {c}
    BY DEF Exit, TypeOK
<1>2. ASSUME NEW d \in alone' PROVE cpu'[d].at # "out" /\ {e \in CPUs : cpu'[e].ns = cpu'[d].ns} = {d}
  <2>1. d \in CPUs /\ d # c /\ d \in alone /\ cpu'[d] = cpu[d]
      BY <1>1, <1>2 DEF TypeOK
  <2>2. cpu[d].at # "out" /\ Inside(cpu[d].ns) = {d} /\ cpu[d].ns \in Namespaces
      BY <2>1, CpuTyped DEF Company, Ns
  <2>3. cpu'[c].ns = None
      BY <1>1 DEF Idle
  <2> QED
      BY <1>1, <2>1, <2>2, <2>3, ProbeAssumption DEF Inside, Ns
<1>3. ASSUME NEW d \in CPUs \ alone', cpu'[d].at # "out"
      PROVE  streak'[cpu'[d].ns] = -1
  <2>1. d # c /\ d \notin alone /\ cpu'[d] = cpu[d]
      BY <1>1, <1>3 DEF Idle
  <2>2. streak[cpu[d].ns] = -1 /\ cpu[d].ns \in Namespaces
      BY <1>3, <2>1, CpuTyped DEF Company, Ns
  <2>3. c \in alone => cpu[d].ns # cpu[c].ns
      BY <2>1 DEF Company, Inside, Ns
  <2> QED
      BY <2>1, <2>2, <2>3 DEF Exit, TypeOK, Ns
<1> QED
    BY <1>2, <1>3 DEF Company, Ns, Inside

LEMMA ArriveCompany ==
    ASSUME TypeOK, Company, NEW c \in CPUs, NEW n \in Namespaces, Arrive(c, n)
    PROVE  Company'
<1>1. /\ cpu'[c].ns = n /\ cpu'[c].at = "count"
      /\ \A d \in CPUs \ {c} : cpu'[d] = cpu[d]
      /\ cpu[c].at = "out" /\ cpu[c].ns = None
    BY CpuTyped DEF Arrive, In, TypeOK, Idle
<1>2. c \notin alone
    BY <1>1 DEF Company
<1>3. ASSUME NEW d \in alone' PROVE cpu'[d].at # "out" /\ {e \in CPUs : cpu'[e].ns = cpu'[d].ns} = {d}
  <2>1. CASE d = c
    <3>1. Inside(n) = {}
        BY <1>2, <1>3, <2>1 DEF Arrive, Meet
    <3> QED
        BY <1>1, <2>1, <3>1 DEF Inside, Ns
  <2>2. CASE d # c
    <3>1. d \in alone /\ d \in CPUs /\ cpu'[d] = cpu[d]
        BY <1>1, <1>3, <2>2 DEF Arrive, Meet, TypeOK
    <3>2. cpu[d].ns # n
        BY <1>3, <2>2, <3>1 DEF Arrive, Meet, Inside, Ns
    <3>3. cpu[d].at # "out" /\ Inside(cpu[d].ns) = {d} /\ cpu[d].ns \in Namespaces
        BY <3>1, CpuTyped DEF Company, Ns
    <3> QED
        BY <1>1, <3>1, <3>2, <3>3 DEF Inside, Ns
  <2> QED
      BY <2>1, <2>2
<1>4. ASSUME NEW d \in CPUs \ alone', cpu'[d].at # "out"
      PROVE  streak'[cpu'[d].ns] = -1
  <2>1. CASE d = c
      BY <1>1, <1>4, <2>1 DEF Arrive, Meet, TypeOK
  <2>2. CASE d # c
    <3>1. cpu'[d] = cpu[d] /\ cpu[d].ns \in Namespaces
        BY <1>1, <1>4, <2>2, CpuTyped
    <3>2. CASE d \in alone
        BY <1>4, <3>1, <3>2 DEF Arrive, Meet, Inside, Ns, TypeOK
    <3>3. CASE d \notin alone
      <4>1. streak[cpu[d].ns] = -1
          BY <1>4, <3>1, <3>3 DEF Company, Ns
      <4> QED
          BY <3>1, <4>1 DEF Arrive, Meet, TypeOK
    <3> QED
        BY <3>2, <3>3
  <2> QED
      BY <2>1, <2>2
<1> QED
    BY <1>3, <1>4 DEF Company, Ns, Inside

(***************************************************************************)
(* The buffer and the streak.                                              *)
(***************************************************************************)
\* Everything that Exact says of a CPU that is alone.
Sound(c) == Grip(c) /\ (streak[Ns(c)] # -1 => Tally(c))

\* Everything that BufferIsStreak says of a namespace.
Settled(n) ==
    (streak[n] # -1 /\ Inside(n) = {}) =>
        streak[n] = Buffered(n) /\ streak[n] < BufferLength

LEMMA ExactParts ==
    Exact <=> (\A c \in alone : Sound(c)) /\ (\A n \in Namespaces : Settled(n))
BY DEF Exact, Sound, Settled, BufferIsStreak, Buffered

LEMMA ExactAssembled ==
    ASSUME \A c \in alone' : Sound(c)', \A n \in Namespaces : Settled(n)'
    PROVE  Exact'
BY DEF Exact, Sound, Settled, BufferIsStreak, Buffered

\* A CPU stays sound while nobody writes what it has in hand.
LEMMA Undisturbed ==
    ASSUME NEW d \in CPUs, Sound(d),
           /\ cpu'[d].at = cpu[d].at /\ cpu'[d].ns = cpu[d].ns /\ cpu'[d].new = cpu[d].new
           /\ cpu'[d].ptr = cpu[d].ptr /\ cpu'[d].buf = cpu[d].buf,
           live'[cpu[d].ns] = live[cpu[d].ns], streak'[cpu[d].ns] = streak[cpu[d].ns],
           spare'[d] = spare[d],
           live[cpu[d].ns] # None => val'[live[cpu[d].ns]] = val[live[cpu[d].ns]],
           cpu[d].ptr # None => val'[cpu[d].ptr] = val[cpu[d].ptr]
    PROVE  Sound(d)'
<1>1. Deref(d)' = Deref(d) /\ Buffered(Ns(d))' = Buffered(Ns(d))
    BY DEF Deref, Buffered, Ns
<1>2. Grip(d)'
    BY <1>1 DEF Sound, Grip, In, Ns
<1>3. (streak[Ns(d)] # -1 => Tally(d))'
    BY <1>1 DEF Sound, Tally, In, Ns
<1> QED
    BY <1>2, <1>3 DEF Sound

LEMMA AlonePointer ==
    ASSUME TypeOK, HoldsNothing, NEW d \in CPUs, Sound(d)
    PROVE  cpu[d].ptr \in {None, live[cpu[d].ns], spare[d]}
BY CpuTyped DEF Sound, Grip, In, Ns, HoldsNothing

\* Two CPUs that are both in the probe for a namespace are not alone.
LEMMA ApartFrom ==
    ASSUME TypeOK, Company, NEW c \in CPUs, NEW d \in alone, d # c
    PROVE  cpu[d].ns # cpu[c].ns /\ cpu[d].ns \in Namespaces /\ d \in CPUs
<1>1. cpu[d].at # "out" /\ Inside(cpu[d].ns) = {d} /\ d \in CPUs
    BY DEF Company, Ns, TypeOK
<1> QED
    BY <1>1, CpuTyped DEF Inside, Ns

\* A step of c, for namespace n, that writes the elements W: the CPUs that are
\* alone elsewhere stay sound and the other namespaces settled, if W has none
\* of their elements or the step leaves their streak unknown.
LEMMA OthersExact ==
    ASSUME IInv, NEW c \in CPUs, NEW n \in Namespaces, NEW W,
           \A d \in CPUs \ {c} : cpu'[d] = cpu[d] /\ spare'[d] = spare[d],
           \A m \in Namespaces \ {n} : live'[m] = live[m],
           \A m \in Namespaces \ {n} : Inside(m)' = Inside(m),
           \A e \in Elements \ W : val'[e] = val[e],
           \A d \in alone' \ {c} : /\ d \in alone /\ cpu[d].ns # n
                                   /\ streak'[cpu[d].ns] = streak[cpu[d].ns]
                                   /\ cpu[d].ptr \notin W,
           \A m \in Namespaces \ {n} :
               streak'[m] = -1 \/ (streak'[m] = streak[m] /\ live[m] \notin W),
           \A d \in alone' \ {c} : live[cpu[d].ns] \notin W
    PROVE  /\ \A d \in alone' \ {c} : Sound(d)'
           /\ \A m \in Namespaces \ {n} : Settled(m)'
<1> TypeOK /\ Company /\ HoldsNothing
    BY DEF IInv
<1>1. ASSUME NEW d \in alone' \ {c} PROVE Sound(d)'
  <2>1. /\ d \in CPUs /\ d \in alone /\ d # c /\ cpu[d].ns # n
        /\ cpu[d].ns \in Namespaces /\ cpu[d].ptr \in Elements \cup {None}
        /\ live[cpu[d].ns] \in Elements \cup {None}
    <3>1. d \in CPUs /\ d \in alone /\ d # c /\ cpu[d].ns # n
        BY <1>1 DEF TypeOK
    <3>2. cpu[d].at # "out"
        BY <3>1 DEF Company
    <3> QED
        BY <3>1, <3>2, CpuTyped DEF TypeOK
  <2>2. Sound(d)
      BY <2>1, ExactParts DEF IInv
  <2>3. /\ cpu'[d] = cpu[d] /\ spare'[d] = spare[d]
        /\ live'[cpu[d].ns] = live[cpu[d].ns]
        /\ streak'[cpu[d].ns] = streak[cpu[d].ns]
      BY <1>1, <2>1
  <2>4. /\ live[cpu[d].ns] # None => val'[live[cpu[d].ns]] = val[live[cpu[d].ns]]
        /\ cpu[d].ptr # None => val'[cpu[d].ptr] = val[cpu[d].ptr]
      BY <1>1, <2>1
  <2> QED
      BY <2>1, <2>2, <2>3, <2>4, Undisturbed
<1>2. ASSUME NEW m \in Namespaces \ {n} PROVE Settled(m)'
  <2>1. Settled(m)
      BY ExactParts DEF IInv
  <2>2. CASE streak'[m] = -1
      BY <2>2 DEF Settled
  <2>3. CASE streak'[m] = streak[m] /\ live[m] \notin W
    <3>1. live'[m] = live[m] /\ Inside(m)' = Inside(m)
        OBVIOUS
    <3>2. live[m] # None => val'[live[m]] = val[live[m]]
        BY <2>3 DEF TypeOK
    <3>3. Buffered(m)' = Buffered(m)
        BY <3>1, <3>2 DEF Buffered
    <3> QED
        BY <2>1, <2>3, <3>1, <3>3 DEF Settled
  <2> QED
      BY <2>2, <2>3
<1> QED
    BY <1>1, <1>2

\* A step of c that only moves c on, within the probe.
LEMMA QuietExact ==
    ASSUME IInv, NEW c \in CPUs, cpu[c].at # "out", cpu'[c].at # "out",
           cpu'[c].ns = cpu[c].ns, \A d \in CPUs \ {c} : cpu'[d] = cpu[d],
           UNCHANGED <<buffers, history>>, c \in alone => Sound(c)'
    PROVE  Company' /\ Exact'
<1> TypeOK /\ Company /\ UNCHANGED <<live, spare, val, streak, alone>>
    BY DEF IInv, buffers, history
<1> DEFINE n == cpu[c].ns
<1>1. n \in Namespaces /\ Stay
    BY CpuTyped DEF Stay
<1>2. Company'
  <2>1. \A d \in CPUs \ alone' : cpu[d].at # "out" => streak'[cpu[d].ns] = -1
      BY DEF Company, Ns
  <2> QED
      BY <1>1, <2>1, StayCompany
<1>3. /\ \A d \in alone' \ {c} : Sound(d)'
      /\ \A m \in Namespaces \ {n} : Settled(m)'
  <2>1. \A m \in Namespaces \ {n} : Inside(m)' = Inside(m)
      BY <1>1, StayInside
  <2>2. \A d \in alone' \ {c} : d \in alone /\ cpu[d].ns # n
      BY ApartFrom
  <2> DEFINE W == {}
  <2>3. /\ \A d \in CPUs \ {c} : cpu'[d] = cpu[d] /\ spare'[d] = spare[d]
        /\ \A m \in Namespaces \ {n} : live'[m] = live[m]
        /\ \A e \in Elements \ W : val'[e] = val[e]
      OBVIOUS
  <2>4. \A d \in alone' \ {c} : /\ d \in alone /\ cpu[d].ns # n
                                /\ streak'[cpu[d].ns] = streak[cpu[d].ns]
                                /\ cpu[d].ptr \notin W
      BY <2>2
  <2>5. /\ \A m \in Namespaces \ {n} :
               streak'[m] = -1 \/ (streak'[m] = streak[m] /\ live[m] \notin W)
        /\ \A d \in alone' \ {c} : live[cpu[d].ns] \notin W
      OBVIOUS
  <2> HIDE DEF n, W
  <2> QED
      BY <1>1, <2>1, <2>3, <2>4, <2>5, OthersExact
<1>4. Settled(n)'
  <2>1. c \in Inside(n)'
      BY DEF Inside, Ns
  <2> QED
      BY <2>1 DEF Settled
<1>5. \A m \in Namespaces : Settled(m)'
    BY <1>3, <1>4
<1>6. \A d \in alone' : Sound(d)'
    BY <1>3
<1> QED
    BY <1>2, <1>5, <1>6, ExactAssembled

\* The steps that only move a CPU on.
LEMMA QuietSteps ==
    ASSUME IInv, NEW c \in CPUs,
           \/ CountStep(c)
           \/ CheckGate(c) /\ Ns(c) \notin scaling
           \/ LookupBuffer(c) \/ LoadBuffer(c)
           \/ Compare(c) /\ Deref(c) = BufferLength
           \/ Close(c) \/ Post(c)
    PROVE  Company' /\ Exact'
<1> TypeOK /\ HoldsNothing
    BY DEF IInv
<1>0. c \in alone => Sound(c)
    BY ExactParts DEF IInv
<1>1. CASE CountStep(c)
  <2>1. /\ cpu[c].at \in Counting /\ cpu'[c].at \in Counting /\ cpu'[c].ns = cpu[c].ns
        /\ \A d \in CPUs \ {c} : cpu'[d] = cpu[d]
        /\ UNCHANGED <<buffers, history>>
      BY <1>1, CountMoves
  <2>2. c \in alone => Sound(c)'
      BY <1>0, <2>1 DEF Sound, Grip, Tally, Buffered, Counting, In, Ns, buffers, history
  <2> QED
      BY <2>1, <2>2, QuietExact DEF Counting
<1>3. CASE CheckGate(c) /\ Ns(c) \notin scaling
  <2>1. /\ cpu[c].at = "gate" /\ cpu'[c].at = "lookup" /\ cpu'[c].ns = cpu[c].ns
        /\ \A d \in CPUs \ {c} : cpu'[d] = cpu[d]
        /\ UNCHANGED <<buffers, history>>
      BY <1>3, CpuFields DEF CheckGate, MoveTo, In, TypeOK
  <2>2. c \in alone => Sound(c)'
      BY <1>0, <2>1 DEF Sound, Grip, Tally, Buffered, In, Ns, buffers, history
  <2> QED
      BY <2>1, <2>2, QuietExact
<1>4. CASE LookupBuffer(c)
  <2>1. /\ cpu[c].at = "lookup" /\ cpu'[c].ns = cpu[c].ns
        /\ cpu'[c].ptr = live[cpu[c].ns]
        /\ cpu'[c].at = IF live[cpu[c].ns] = None THEN "insert" ELSE "load"
        /\ \A d \in CPUs \ {c} : cpu'[d] = cpu[d]
        /\ UNCHANGED <<buffers, history>>
      BY <1>4, CpuFields DEF LookupBuffer, In, Ns, TypeOK
  <2>2. c \in alone => Sound(c)'
      BY <1>0, <2>1 DEF Sound, Grip, Tally, Buffered, In, Ns, buffers, history
  <2> QED
      BY <2>1, <2>2, QuietExact
<1>5. CASE LoadBuffer(c)
  <2>1. /\ cpu[c].at = "load" /\ cpu'[c].at = "write" /\ cpu'[c].ns = cpu[c].ns
        /\ cpu'[c].ptr = cpu[c].ptr /\ cpu'[c].new = cpu[c].new
        /\ cpu'[c].buf = IF OutOfRange(cpu[c].new) THEN Deref(c) ELSE 0
        /\ \A d \in CPUs \ {c} : cpu'[d] = cpu[d]
        /\ UNCHANGED <<buffers, history>>
      BY <1>5, CpuFields DEF LoadBuffer, In, TypeOK
  <2>2. c \in alone => Sound(c)'
    <3> HAVE c \in alone
    <3>1. live[cpu[c].ns] # None /\ Deref(c) = val[live[cpu[c].ns]]
        BY <1>0, <2>1 DEF Sound, Grip, HoldsNothing, Deref, Ns
    <3>2. OutOfRange(cpu'[c].new) <=> OutOfRange(cpu[c].new)
        BY <2>1 DEF OutOfRange
    <3>3. Grip(c)'
        BY <1>0, <2>1, <3>1, <3>2 DEF Sound, Grip, In, Ns, buffers
    <3>4. (streak[Ns(c)] # -1 => Tally(c))'
        BY <1>0, <2>1, <3>1 DEF Sound, Tally, Buffered, In, Ns, buffers, history
    <3> QED
        BY <3>3, <3>4 DEF Sound
  <2> QED
      BY <2>1, <2>2, QuietExact
<1>6. CASE Compare(c) /\ Deref(c) = BufferLength
  <2>1. /\ cpu[c].at = "compare" /\ cpu'[c].at = "close" /\ cpu'[c].ns = cpu[c].ns
        /\ cpu'[c].new = cpu[c].new
        /\ \A d \in CPUs \ {c} : cpu'[d] = cpu[d]
        /\ UNCHANGED <<buffers, history>>
      BY <1>6, CpuFields DEF Compare, In, TypeOK
  <2>2. c \in alone => Sound(c)'
    <3> HAVE c \in alone
    <3>1. live[cpu[c].ns] # None /\ val[live[cpu[c].ns]] = BufferLength
        BY <1>0, <1>6, <2>1 DEF Sound, Grip, In, Ns
    <3>2. streak[cpu[c].ns] # -1
            => streak[cpu[c].ns] = BufferLength /\ OutOfRange(cpu[c].new)
        BY <1>0, <2>1, <3>1, ProbeAssumption DEF Sound, Tally, Buffered, In, Ns
    <3>3. Grip(c)'
        BY <2>1 DEF Grip, In
    <3>4. (streak[Ns(c)] # -1 => Tally(c))'
        BY <2>1, <3>2 DEF Tally, OutOfRange, In, Ns, history
    <3> QED
        BY <3>3, <3>4 DEF Sound
  <2> QED
      BY <2>1, <2>2, QuietExact
<1>7. CASE Close(c) \/ Post(c)
  <2>1. /\ cpu[c].at \in {"close", "post"} /\ cpu'[c].at \in {"post", "reset"}
        /\ cpu'[c].ns = cpu[c].ns /\ cpu'[c].new = cpu[c].new
        /\ \A d \in CPUs \ {c} : cpu'[d] = cpu[d]
        /\ UNCHANGED <<buffers, history>>
    <3>1. CASE Close(c)
        BY <3>1, CpuFields DEF Close, MoveTo, In, TypeOK
    <3>2. CASE Post(c)
        BY <3>2, CpuFields DEF Post, MoveTo, In, TypeOK
    <3> QED
        BY <1>7, <3>1, <3>2
  <2>2. c \in alone => Sound(c)'
    <3> HAVE c \in alone
    <3>1. Grip(c)'
        BY <2>1 DEF Grip, In
    <3>2. (streak[Ns(c)] # -1 => Tally(c))'
        BY <1>0, <2>1 DEF Sound, Tally, OutOfRange, In, Ns, history
    <3> QED
        BY <3>1, <3>2 DEF Sound
  <2> QED
      BY <2>1, <2>2, QuietExact
<1> QED
    BY <1>1, <1>3, <1>4, <1>5, <1>6, <1>7

\* The elements W that c writes for namespace n are not in others' hands.
Clear(c, n, W) ==
    /\ \A d \in CPUs \ {c} : spare'[d] = spare[d]
    /\ \A m \in Namespaces \ {n} : live'[m] = live[m] /\ live[m] \notin W
    /\ \A e \in Elements \ W : val'[e] = val[e]
    /\ \A d \in alone \ {c} : cpu[d].ptr \notin W /\ live[cpu[d].ns] \notin W

\* An insertion takes an element that nobody who is alone has in hand.
LEMMA InsertClear ==
    ASSUME IInv, NEW c \in CPUs, NEW n \in Namespaces, NEW v, InsertElem(n, v)
    PROVE  /\ \E W : Clear(c, n, W)
           /\ spare' = spare /\ live'[n] \in Elements /\ val'[live'[n]] = v
<1> TypeOK /\ Company /\ HoldsNothing /\ Stored
    BY StoredTyped DEF IInv
<1>1. PICK e \in Spares : /\ live' = [live EXCEPT ![n] = e]
                          /\ val' = [val EXCEPT ![e] = v]
                          /\ spare' = spare
    BY DEF InsertElem
<1>2. /\ e \in Elements /\ e # None
      /\ \A m \in Namespaces : live[m] # e
      /\ \A d \in CPUs : spare[d] # e
    BY ProbeAssumption DEF Spares, Stored, Range
<1>3. ASSUME NEW d \in alone PROVE cpu[d].ptr # e /\ live[cpu[d].ns] # e
  <2>1. d \in CPUs /\ Sound(d) /\ cpu[d].at # "out"
      BY ExactParts DEF IInv, Company, TypeOK
  <2>2. cpu[d].ns \in Namespaces
      BY <2>1, CpuTyped
  <2>3. cpu[d].ptr \in {None, live[cpu[d].ns], spare[d]}
      BY <2>1, AlonePointer
  <2> QED
      BY <1>2, <2>1, <2>2, <2>3
<1>4. Clear(c, n, {e})
    BY <1>1, <1>2, <1>3 DEF Clear, Stored
<1>5. live'[n] = e /\ val'[e] = v
    BY <1>1, <1>2 DEF Stored
<1> QED
    BY <1>1, <1>2, <1>4, <1>5

\* An update fills c's own spare element, or inserts.
LEMMA UpdateClear ==
    ASSUME IInv, NEW c \in CPUs, NEW n \in Namespaces, cpu[c].ns = n, NEW v,
           UpdateElem(c, n, v)
    PROVE  /\ \E W : Clear(c, n, W)
           /\ live'[n] \in Elements /\ val'[live'[n]] = v
<1> TypeOK /\ Company /\ HoldsNothing /\ Stored
    BY StoredTyped DEF IInv
<1>1. CASE live[n] = None
    BY <1>1, InsertClear DEF UpdateElem
<1>2. CASE live[n] # None
  <2>1. /\ live' = [live EXCEPT ![n] = spare[c]]
        /\ spare' = [spare EXCEPT ![c] = live[n]]
        /\ val' = [val EXCEPT ![spare[c]] = v]
      BY <1>2 DEF UpdateElem
  <2>2. ASSUME NEW d \in alone \ {c}
        PROVE  cpu[d].ptr # spare[c] /\ live[cpu[d].ns] # spare[c]
    <3>1. d \in CPUs /\ Sound(d) /\ cpu[d].ns \in Namespaces
        BY ExactParts, ApartFrom DEF IInv
    <3>2. cpu[d].ptr \in {None, live[cpu[d].ns], spare[d]}
        BY <3>1, AlonePointer
    <3> QED
        BY <3>1, <3>2, ProbeAssumption DEF Stored
  <2>3. Clear(c, n, {spare[c]})
      BY <2>1, <2>2 DEF Clear, Stored
  <2>4. live'[n] = spare[c] /\ spare[c] \in Elements /\ val'[spare[c]] = v
      BY <2>1 DEF Stored
  <2> QED
      BY <2>3, <2>4
<1> QED
    BY <1>1, <1>2

\* A step of c, in the probe for n and afterwards too, that writes elements in
\* nobody else's hands.
LEMMA StoreExact ==
    ASSUME IInv, NEW c \in CPUs, NEW n \in Namespaces, cpu[c].ns = n, cpu'[c].ns = n,
           cpu'[c].at # "out", \A d \in CPUs \ {c} : cpu'[d] = cpu[d],
           UNCHANGED history, NEW W, Clear(c, n, W), c \in alone => Sound(c)'
    PROVE  Company' /\ Exact'
<1> TypeOK /\ Company /\ streak' = streak /\ alone' = alone
    BY DEF IInv, history
<1>1. Stay
    BY CpuTyped, ProbeAssumption DEF Stay
<1>2. Company'
  <2>1. \A d \in CPUs \ alone' : cpu[d].at # "out" => streak'[cpu[d].ns] = -1
      BY DEF Company, Ns
  <2> QED
      BY <1>1, <2>1, StayCompany
<1>3. /\ \A d \in alone' \ {c} : Sound(d)'
      /\ \A m \in Namespaces \ {n} : Settled(m)'
  <2>1. \A m \in Namespaces \ {n} : Inside(m)' = Inside(m)
      BY <1>1, StayInside
  <2>2. \A d \in alone' \ {c} : d \in alone /\ cpu[d].ns # n
      BY ApartFrom
  <2>3. \A d \in alone' \ {c} : /\ d \in alone /\ cpu[d].ns # n
                                /\ streak'[cpu[d].ns] = streak[cpu[d].ns]
                                /\ cpu[d].ptr \notin W
      BY <2>2 DEF Clear
  <2>4. /\ \A m \in Namespaces \ {n} :
               streak'[m] = -1 \/ (streak'[m] = streak[m] /\ live[m] \notin W)
        /\ \A d \in alone' \ {c} : live[cpu[d].ns] \notin W
      BY DEF Clear
  <2>5. /\ \A d \in CPUs \ {c} : cpu'[d] = cpu[d] /\ spare'[d] = spare[d]
        /\ \A m \in Namespaces \ {n} : live'[m] = live[m]
        /\ \A e \in Elements \ W : val'[e] = val[e]
      BY DEF Clear
  <2> QED
      BY <2>1, <2>3, <2>4, <2>5, OthersExact
<1>4. Settled(n)'
  <2>1. c \in Inside(n)'
      BY DEF Inside, Ns
  <2> QED
      BY <2>1 DEF Settled
<1>5. \A m \in Namespaces : Settled(m)'
    BY <1>3, <1>4
<1>6. \A d \in alone' : Sound(d)'
    BY <1>3
<1> QED
    BY <1>2, <1>5, <1>6, ExactAssembled

\* A CPU leaves the probe.
LEMMA LeaveExact ==
    ASSUME IInv, NEW c \in CPUs, NEW n \in Namespaces, cpu[c].ns = n,
           NEW zeroed \in BOOLEAN, Exit(c, zeroed), NEW W, Clear(c, n, W),
           c \in alone /\ streak'[n] # -1
             => streak'[n] = Buffered(n)' /\ streak'[n] < BufferLength
    PROVE  Company' /\ Exact'
<1> TypeOK /\ Company
    BY DEF IInv
<1>1. cpu[c].at # "out"
    BY CpuTyped
<1>2. Company'
    BY <1>1, ExitCompany
<1>3. /\ cpu'[c].ns = None /\ \A d \in CPUs \ {c} : cpu'[d] = cpu[d]
      /\ alone' = alone \ {c}
      /\ \A m \in Namespaces \ {n} : streak'[m] = streak[m]
    BY DEF Exit, Idle, TypeOK, Ns
<1>4. \A d \in alone' \ {c} : d \in alone /\ cpu[d].ns # n /\ cpu[d].ns \in Namespaces
    BY <1>3, ApartFrom
<1>5. \A m \in Namespaces \ {n} : Inside(m)' = Inside(m)
    BY <1>3, ProbeAssumption DEF Inside, Ns
<1>6. /\ \A d \in alone' \ {c} : Sound(d)'
      /\ \A m \in Namespaces \ {n} : Settled(m)'
    BY <1>3, <1>4, <1>5, OthersExact DEF Clear
<1>7. Settled(n)'
  <2>1. CASE c \in alone
      BY <2>1 DEF Settled
  <2>2. CASE c \notin alone
    <3>1. streak[n] = -1
        BY <1>1, <2>2 DEF Company, Ns
    <3>2. streak'[n] = -1
        BY <2>2, <3>1 DEF Exit
    <3> QED
        BY <3>2 DEF Settled
  <2> QED
      BY <2>1, <2>2
<1>8. \A m \in Namespaces : Settled(m)'
    BY <1>6, <1>7
<1>9. \A d \in alone' : Sound(d)'
    BY <1>3, <1>6
<1> QED
    BY <1>2, <1>8, <1>9, ExactAssembled

LEMMA LeaveSteps ==
    ASSUME IInv, NEW c \in CPUs,
           \/ CheckGate(c) /\ Ns(c) \in scaling
           \/ Compare(c) /\ Deref(c) # BufferLength
           \/ Reset(c)
    PROVE  Company' /\ Exact'
<1> TypeOK
    BY DEF IInv
<1>1. PICK n \in Namespaces : n = cpu[c].ns
    BY CpuTyped DEF CheckGate, Compare, Reset, In
<1>2. c \in alone => Sound(c)
    BY ExactParts DEF IInv
<1>3. ASSUME UNCHANGED buffers PROVE Clear(c, n, {}) /\ Buffered(n)' = Buffered(n)
  <2>1. live' = live /\ spare' = spare /\ val' = val
      BY <1>3 DEF buffers
  <2>2. Clear(c, n, {})
      BY <2>1 DEF Clear
  <2> QED
      BY <2>1, <2>2 DEF Buffered
<1>4. CASE CheckGate(c) /\ Ns(c) \in scaling
  <2>1. Exit(c, FALSE) /\ UNCHANGED buffers /\ cpu[c].at = "gate"
      BY <1>4 DEF CheckGate, In
  <2>2. streak' = streak
      BY <2>1 DEF Exit
  <2>3. c \in alone /\ streak'[n] # -1
          => streak'[n] = Buffered(n) /\ streak'[n] < BufferLength
      BY <1>1, <1>2, <2>1, <2>2 DEF Sound, Tally, Ns
  <2> QED
      BY <1>1, <1>3, <2>1, <2>3, LeaveExact
<1>5. CASE Compare(c) /\ Deref(c) # BufferLength
  <2>1. Exit(c, Deref(c) = 0) /\ UNCHANGED buffers /\ cpu[c].at = "compare"
      BY <1>5 DEF Compare, In
  <2>2. c \in alone /\ streak'[n] # -1
          => streak'[n] = Buffered(n) /\ streak'[n] < BufferLength
    <3> HAVE c \in alone /\ streak'[n] # -1
    <3>1. live[n] # None /\ Deref(c) = val[live[n]]
        BY <1>1, <1>2, <2>1 DEF Sound, Grip, In, Ns
    <3>2. CASE Deref(c) = 0
      <4>1. streak'[n] = 0
          BY <1>1, <2>1, <3>2 DEF Exit, TypeOK, Ns
      <4> QED
          BY <3>1, <3>2, <4>1, ProbeAssumption DEF Buffered
    <3>3. CASE Deref(c) # 0
      <4>1. streak' = streak
          BY <2>1, <3>3 DEF Exit
      <4>2. streak[n] = Buffered(n) /\ streak[n] <= BufferLength
          BY <1>1, <1>2, <2>1, <4>1 DEF Sound, Tally, In, Ns
      <4>3. Buffered(n) # BufferLength
          BY <1>5, <3>1 DEF Buffered
      <4> QED
          BY <1>1, <4>1, <4>2, <4>3, ProbeAssumption DEF TypeOK
    <3> QED
        BY <3>2, <3>3
  <2>3. (Deref(c) = 0) \in BOOLEAN
      OBVIOUS
  <2> QED
      BY <1>1, <1>3, <2>1, <2>2, <2>3, LeaveExact
<1>6. CASE Reset(c)
  <2>1. Exit(c, TRUE) /\ UpdateElem(c, n, 0)
      BY <1>1, <1>6 DEF Reset, Ns
  <2>2. /\ \E W : Clear(c, n, W)
        /\ live'[n] \in Elements /\ val'[live'[n]] = 0
      BY <1>1, <2>1, UpdateClear
  <2>3. c \in alone => streak'[n] = 0
      BY <1>1, <2>1 DEF Exit, TypeOK, Ns
  <2>4. Buffered(n)' = 0
      BY <2>2, ProbeAssumption DEF Buffered
  <2>5. PICK W : Clear(c, n, W)
      BY <2>2
  <2>6. c \in alone /\ streak'[n] # -1
          => streak'[n] = Buffered(n)' /\ streak'[n] < BufferLength
      BY <2>3, <2>4, ProbeAssumption
  <2> QED
      BY <1>1, <2>1, <2>5, <2>6, LeaveExact
<1> QED
    BY <1>4, <1>5, <1>6

LEMMA StoreSteps ==
    ASSUME IInv, NEW c \in CPUs, InsertBuffer(c) \/ UpdateBuffer(c)
    PROVE  Company' /\ Exact'
<1> TypeOK /\ Stored /\ HoldsNothing
    BY StoredTyped DEF IInv
<1>1. PICK n \in Namespaces : n = cpu[c].ns
    BY CpuTyped DEF InsertBuffer, UpdateBuffer, In
<1>2. c \in alone => Sound(c)
    BY ExactParts DEF IInv
<1>3. CASE InsertBuffer(c)
  <2>1. /\ cpu[c].at = "insert" /\ cpu'[c].at = "load"
        /\ cpu'[c].ns = n /\ cpu'[c].ptr = None /\ cpu'[c].new = cpu[c].new
        /\ \A d \in CPUs \ {c} : cpu'[d] = cpu[d]
        /\ UNCHANGED history
      BY <1>1, <1>3, CpuFields DEF InsertBuffer, MoveTo, In, TypeOK, HoldsNothing
  <2>2. CASE live[n] = None
    <3>1. InsertElem(n, 0)
        BY <1>1, <1>3, <2>2 DEF InsertBuffer, Ns
    <3>2. /\ \E W : Clear(c, n, W)
          /\ live'[n] \in Elements /\ val'[live'[n]] = 0
        BY <3>1, InsertClear
    <3>3. live'[n] # None
        BY <3>2, ProbeAssumption
    <3>4. c \in alone => Sound(c)'
      <4> HAVE c \in alone
      <4>1. Grip(c)'
          BY <2>1, <3>2, <3>3 DEF Grip, In, Ns
      <4>2. streak[n] # -1 => streak[n] = 0
          BY <1>1, <1>2, <2>1, <2>2 DEF Sound, Tally, Buffered, Ns
      <4>3. (streak[Ns(c)] # -1 => Tally(c))'
          BY <2>1, <3>2, <3>3, <4>2, ProbeAssumption DEF Tally, Buffered, In, Ns, history
      <4> QED
          BY <4>1, <4>3 DEF Sound
    <3>5. PICK W : Clear(c, n, W)
        BY <3>2
    <3>6. cpu[c].ns = n /\ cpu'[c].at # "out"
        BY <1>1, <2>1
    <3> QED
        BY <2>1, <3>4, <3>5, <3>6, StoreExact
  <2>3. CASE live[n] # None
    <3>1. UNCHANGED buffers
        BY <1>1, <1>3, <2>3 DEF InsertBuffer, Ns
    <3>2. Clear(c, n, {})
        BY <3>1 DEF Clear, buffers
    <3>3. c \notin alone
        BY <1>1, <1>2, <2>1, <2>3 DEF Sound, Grip, In, Ns
    <3>4. cpu[c].ns = n /\ cpu'[c].at # "out"
        BY <1>1, <2>1
    <3> QED
        BY <2>1, <3>2, <3>3, <3>4, StoreExact
  <2> QED
      BY <2>2, <2>3
<1>4. CASE UpdateBuffer(c)
  <2>1. /\ cpu[c].at = "update" /\ cpu'[c].at = "compare"
        /\ cpu'[c].ns = n /\ cpu'[c].ptr = cpu[c].ptr /\ cpu'[c].buf = cpu[c].buf
        /\ cpu'[c].new = cpu[c].new
        /\ \A d \in CPUs \ {c} : cpu'[d] = cpu[d]
        /\ UNCHANGED history /\ UpdateElem(c, n, Deref(c))
      BY <1>1, <1>4, CpuFields DEF UpdateBuffer, MoveTo, In, TypeOK, Ns
  <2>2. PICK v : v = Deref(c)
      OBVIOUS
  <2>3. /\ \E W : Clear(c, n, W)
        /\ live'[n] \in Elements /\ val'[live'[n]] = v
      BY <1>1, <2>1, <2>2, UpdateClear
  <2>4. live'[n] # None
      BY <2>3, ProbeAssumption
  <2>5. c \in alone => Sound(c)'
    <3> HAVE c \in alone
    <3>1. live[n] # None /\ cpu[c].ptr \in {None, live[n]}
        BY <1>1, <1>2, <2>1 DEF Sound, Grip, Ns
    <3>2. /\ spare' = [spare EXCEPT ![c] = live[n]]
          /\ val' = [val EXCEPT ![spare[c]] = Deref(c)]
        BY <2>1, <3>1 DEF UpdateElem
    <3>3. spare'[c] = live[n] /\ val'[live[n]] = val[live[n]]
        BY <3>2 DEF Stored
    <3>4. Deref(c)' = v
        BY <2>1, <2>2, <3>1, <3>3 DEF Deref
    <3>5. Grip(c)'
        BY <2>1, <2>3, <2>4, <3>1, <3>3, <3>4 DEF Grip, In, Ns
    <3>6. streak[n] # -1 =>
            /\ streak[n] = v /\ streak[n] <= BufferLength
            /\ OutOfRange(cpu[c].new) \/ streak[n] = 0
        BY <1>1, <1>2, <2>1, <2>2 DEF Sound, Tally, In, Ns
    <3>7. (streak[Ns(c)] # -1 => Tally(c))'
        BY <2>1, <2>3, <2>4, <3>6 DEF Tally, Buffered, OutOfRange, In, Ns, history
    <3> QED
        BY <3>5, <3>7 DEF Sound
  <2>6. PICK W : Clear(c, n, W)
      BY <2>3
  <2>7. cpu[c].ns = n /\ cpu'[c].at # "out"
      BY <1>1, <2>1
  <2> QED
      BY <2>1, <2>5, <2>6, <2>7, StoreExact
<1> QED
    BY <1>3, <1>4

\* The write through a pointer.  Whoever has the element in hand is in Hit(c).
LEMMA WriteExact ==
    ASSUME IInv, NEW c \in CPUs, WriteBuffer(c)
    PROVE  Company' /\ Exact'
<1> TypeOK /\ Company /\ HoldsNothing
    BY DEF IInv
<1>1. PICK n \in Namespaces : n = cpu[c].ns
    BY CpuTyped DEF WriteBuffer, In
<1>2. /\ cpu[c].at = "write" /\ cpu'[c].at = "update" /\ cpu'[c].ns = n
      /\ cpu'[c].ptr = cpu[c].ptr /\ cpu'[c].new = cpu[c].new
      /\ cpu'[c].buf = IF cpu[c].ptr = None THEN Judged(c) ELSE 0
      /\ \A d \in CPUs \ {c} : cpu'[d] = cpu[d]
      /\ UNCHANGED <<live, spare>>
  <2>1. CASE cpu[c].ptr = None
      BY <1>1, <2>1, CpuFields DEF WriteBuffer, In, TypeOK
  <2>2. CASE cpu[c].ptr # None
      BY <1>1, <2>2, CpuFields DEF WriteBuffer, In, TypeOK
  <2> QED
      BY <2>1, <2>2
<1>3. val' = IF cpu[c].ptr = None THEN val ELSE [val EXCEPT ![cpu[c].ptr] = Judged(c)]
    BY DEF WriteBuffer
<1>4. \A m \in Namespaces :
        streak'[m] = IF streak[m] = -1 \/ m \in Hit(c) THEN -1
                     ELSE IF m # n THEN streak[m]
                     ELSE IF OutOfRange(cpu[c].new) THEN streak[m] + 1 ELSE 0
    BY <1>1 DEF WriteBuffer, Ns
<1>5. alone' = {d \in alone : cpu[d].ns \notin Hit(c)}
    BY DEF WriteBuffer, Ns
<1>6. Stay
    BY <1>1, <1>2 DEF Stay
<1>7. n \notin Hit(c) /\ Hit(c) \subseteq Namespaces
    BY <1>1 DEF Hit, Ns
<1>8. Company'
  <2>1. ASSUME NEW d \in CPUs \ alone', cpu[d].at # "out"
        PROVE  streak'[cpu[d].ns] = -1
    <3>1. cpu[d].ns \in Namespaces
        BY <2>1, CpuTyped
    <3>2. CASE d \in alone
        BY <1>4, <1>5, <2>1, <3>1, <3>2
    <3>3. CASE d \notin alone
      <4>1. streak[cpu[d].ns] = -1
          BY <2>1, <3>3 DEF Company, Ns
      <4> QED
          BY <1>4, <3>1, <4>1
    <3> QED
        BY <3>2, <3>3
  <2>2. alone' \subseteq alone
      BY <1>5
  <2> QED
      BY <1>6, <2>1, <2>2, StayCompany
<1>9. /\ \A d \in alone' \ {c} : Sound(d)'
      /\ \A m \in Namespaces \ {n} : Settled(m)'
  <2>1. PICK W : W = {cpu[c].ptr} \ {None}
      OBVIOUS
  <2>2. \A e \in Elements \ W : val'[e] = val[e]
      BY <1>3, <2>1 DEF TypeOK
  <2>3. ASSUME NEW m \in Namespaces \ {n}, m \notin Hit(c)
        PROVE  /\ live[m] \notin W /\ streak'[m] = streak[m]
               /\ \A d \in CPUs : cpu[d].ns = m => cpu[d].ptr \notin W
    <3>1. ~(/\ cpu[c].ptr # None
            /\ cpu[c].ptr \in {live[m]} \cup {cpu[d].ptr : d \in Inside(m)})
        BY <1>1, <2>3 DEF Hit, Ns
    <3>2. streak'[m] = streak[m]
        BY <1>4, <2>3
    <3>3. live[m] \notin W
        BY <2>1, <3>1
    <3>4. \A d \in CPUs : cpu[d].ns = m => cpu[d].ptr \notin W
        BY <2>1, <3>1 DEF Inside, Ns
    <3> QED
        BY <3>2, <3>3, <3>4
  <2>4. ASSUME NEW d \in alone' \ {c}
        PROVE  /\ d \in alone /\ cpu[d].ns # n
               /\ streak'[cpu[d].ns] = streak[cpu[d].ns]
               /\ cpu[d].ptr \notin W /\ live[cpu[d].ns] \notin W
    <3>1. d \in alone /\ cpu[d].ns \notin Hit(c)
        BY <1>5, <2>4
    <3>2. cpu[d].ns # n /\ cpu[d].ns \in Namespaces /\ d \in CPUs
        BY <1>1, <2>4, <3>1, ApartFrom
    <3> QED
        BY <2>3, <3>1, <3>2
  <2>5. ASSUME NEW m \in Namespaces \ {n}
        PROVE  streak'[m] = -1 \/ (streak'[m] = streak[m] /\ live[m] \notin W)
    <3>1. CASE m \in Hit(c)
      <4>1. streak'[m] = IF streak[m] = -1 \/ m \in Hit(c) THEN -1
                         ELSE IF m # n THEN streak[m]
                         ELSE IF OutOfRange(cpu[c].new) THEN streak[m] + 1 ELSE 0
          BY <1>4
      <4> QED
          BY <3>1, <4>1
    <3>2. CASE m \notin Hit(c)
        BY <2>3, <3>2
    <3> QED
        BY <3>1, <3>2
  <2>6. \A m \in Namespaces \ {n} : Inside(m)' = Inside(m)
      BY <1>6, StayInside
  <2>7. \A d \in CPUs \ {c} : cpu'[d] = cpu[d] /\ spare'[d] = spare[d]
      BY <1>2
  <2>8. \A m \in Namespaces \ {n} : live'[m] = live[m]
      BY <1>2
  <2> QED
      BY <2>2, <2>4, <2>5, <2>6, <2>7, <2>8, OthersExact
<1>10. Settled(n)'
  <2>1. c \in Inside(n)'
      BY <1>2 DEF Inside, Ns
  <2> QED
      BY <2>1 DEF Settled
<1>11. c \in alone' => Sound(c)'
  <2> HAVE c \in alone'
  <2>1. c \in alone /\ Sound(c)
      BY <1>5, ExactParts DEF IInv
  <2>2. /\ live[n] # None /\ cpu[c].ptr \in {None, live[n]}
        /\ cpu[c].buf = IF OutOfRange(cpu[c].new) THEN val[live[n]] ELSE 0
      BY <1>1, <1>2, <2>1 DEF Sound, Grip, In, Ns
  <2>3. Grip(c)'
      BY <1>2, <2>2 DEF Grip, In, Ns
  <2>4. Deref(c)' = Judged(c)
    <3>1. CASE cpu[c].ptr = None
        BY <1>2, <3>1 DEF Deref
    <3>2. CASE cpu[c].ptr # None
      <4>1. cpu[c].ptr \in Elements
          BY <3>2, CpuTyped
      <4>2. val'[cpu[c].ptr] = Judged(c)
          BY <1>3, <3>2, <4>1 DEF TypeOK
      <4> QED
          BY <1>2, <3>2, <4>2 DEF Deref
    <3> QED
        BY <3>1, <3>2
  <2>5. streak'[n] # -1 => streak'[n] = Judged(c) /\ streak'[n] <= BufferLength
                           /\ (OutOfRange(cpu[c].new) \/ streak'[n] = 0)
    <3> HAVE streak'[n] # -1
    <3>1. streak[n] # -1
        BY <1>4
    <3>2. streak[n] = val[live[n]] /\ streak[n] < BufferLength
        BY <1>1, <1>2, <2>1, <2>2, <3>1 DEF Sound, Tally, Buffered, Ns
    <3>3. streak'[n] = IF OutOfRange(cpu[c].new) THEN streak[n] + 1 ELSE 0
        BY <1>4, <1>7, <3>1
    <3>4. streak[n] \in Int
        BY DEF TypeOK
    <3>5. Judged(c) = streak'[n]
        BY <2>2, <3>2, <3>3 DEF Judged
    <3> QED
        BY <3>2, <3>3, <3>4, <3>5, ProbeAssumption
  <2>6. (streak[Ns(c)] # -1 => Tally(c))'
      BY <1>2, <2>4, <2>5 DEF Tally, OutOfRange, In, Ns
  <2> QED
      BY <2>3, <2>6 DEF Sound
<1>12. \A m \in Namespaces : Settled(m)'
    BY <1>9, <1>10
<1>13. \A d \in alone' : Sound(d)'
    BY <1>9, <1>11
<1> QED
    BY <1>8, <1>12, <1>13, ExactAssembled

LEMMA ArriveExact ==
    ASSUME IInv, NEW c \in CPUs, NEW n \in Namespaces, Arrive(c, n)
    PROVE  Company' /\ Exact'
<1> TypeOK /\ Company
    BY DEF IInv
<1>1. Company'
    BY ArriveCompany
<1>2. /\ cpu'[c].ns = n /\ cpu'[c].at = "count"
      /\ \A d \in CPUs \ {c} : cpu'[d] = cpu[d]
      /\ cpu[c].ns = None /\ cpu[c].at = "out"
      /\ live' = live /\ spare' = spare /\ val' = val
    BY CpuTyped DEF Arrive, In, TypeOK, Idle, buffers
<1>3. c \notin alone
    BY <1>2 DEF Company
<1>4. \A m \in Namespaces \ {n} : streak'[m] = streak[m]
    BY DEF Arrive, Meet, TypeOK
<1>5. /\ \A d \in alone' \ {c} : Sound(d)'
      /\ \A m \in Namespaces \ {n} : Settled(m)'
  <2>1. PICK W : W = {}
      OBVIOUS
  <2>2. ASSUME NEW d \in alone' \ {c}
        PROVE  /\ d \in alone /\ cpu[d].ns # n
               /\ streak'[cpu[d].ns] = streak[cpu[d].ns]
               /\ cpu[d].ptr \notin W /\ live[cpu[d].ns] \notin W
    <3>1. d \in alone /\ d \in CPUs
        BY <2>2 DEF Arrive, Meet, TypeOK
    <3>2. cpu[d].ns \in Namespaces
        BY <3>1, CpuTyped DEF Company
    <3>3. cpu[d].ns # n
        BY <2>2, <3>1 DEF Arrive, Meet, Inside, Ns
    <3> QED
        BY <1>4, <2>1, <3>1, <3>2, <3>3
  <2>3. \A m \in Namespaces \ {n} : Inside(m)' = Inside(m)
      BY <1>2, ProbeAssumption DEF Inside, Ns
  <2>4. \A m \in Namespaces \ {n} :
            streak'[m] = -1 \/ (streak'[m] = streak[m] /\ live[m] \notin W)
      BY <1>4, <2>1
  <2>5. /\ \A d \in CPUs \ {c} : cpu'[d] = cpu[d] /\ spare'[d] = spare[d]
        /\ \A m \in Namespaces \ {n} : live'[m] = live[m]
        /\ \A e \in Elements \ W : val'[e] = val[e]
      BY <1>2
  <2> QED
      BY <2>2, <2>3, <2>4, <2>5, OthersExact
<1>6. Settled(n)'
  <2>1. c \in Inside(n)'
      BY <1>2 DEF Inside, Ns
  <2> QED
      BY <2>1 DEF Settled
<1>7. c \in alone' => Sound(c)'
  <2> HAVE c \in alone'
  <2>1. Inside(n) = {} /\ streak' = streak
      BY <1>3 DEF Arrive, Meet
  <2>2. streak[n] # -1 => streak[n] = Buffered(n) /\ streak[n] < BufferLength
      BY <2>1, ExactParts DEF Settled, IInv
  <2>3. Grip(c)'
      BY <1>2 DEF Grip, In
  <2>4. (streak[Ns(c)] # -1 => Tally(c))'
      BY <1>2, <2>1, <2>2 DEF Tally, Buffered, In, Ns
  <2> QED
      BY <2>3, <2>4 DEF Sound
<1>8. \A m \in Namespaces : Settled(m)'
    BY <1>5, <1>6
<1>9. \A d \in alone' : Sound(d)'
    BY <1>5, <1>7
<1> QED
    BY <1>1, <1>8, <1>9, ExactAssembled

\* A step that leaves the buffers and what a CPU has in hand as they are.
LEMMA IdleExact ==
    ASSUME IInv, UNCHANGED <<buffers, history>>,
           \A d \in CPUs : /\ cpu'[d].at = cpu[d].at /\ cpu'[d].ns = cpu[d].ns
                           /\ cpu'[d].new = cpu[d].new /\ cpu'[d].ptr = cpu[d].ptr
                           /\ cpu'[d].buf = cpu[d].buf
    PROVE  Company' /\ Exact'
<1> TypeOK /\ Company /\ UNCHANGED <<live, spare, val, streak, alone>>
    BY DEF IInv, buffers, history
<1>1. Stay
    BY DEF Stay
<1>2. Company'
  <2>1. \A d \in CPUs \ alone' : cpu[d].at # "out" => streak'[cpu[d].ns] = -1
      BY DEF Company, Ns
  <2> QED
      BY <1>1, <2>1, StayCompany
<1>3. ASSUME NEW d \in alone' PROVE Sound(d)'
  <2>1. d \in CPUs /\ Sound(d)
      BY ExactParts DEF IInv, TypeOK
  <2> QED
      BY <2>1, Undisturbed
<1>4. ASSUME NEW m \in Namespaces PROVE Settled(m)'
  <2>1. Settled(m)
      BY ExactParts DEF IInv
  <2>2. Inside(m)' = Inside(m)
      BY <1>1, StayInside
  <2> QED
      BY <2>1, <2>2 DEF Settled, Buffered
<1> QED
    BY <1>2, <1>3, <1>4, ExactAssembled

LEMMA RemoveExact ==
    ASSUME IInv, NEW n \in Namespaces, RemoveBuffer(n)
    PROVE  Company' /\ Exact'
<1> TypeOK /\ Company
    BY DEF IInv
<1>1. /\ live' = [live EXCEPT ![n] = None]
      /\ spare' = spare /\ val' = val /\ cpu' = cpu
      /\ alone' = alone \ Inside(n)
      /\ streak' = [streak EXCEPT ![n] = IF Inside(n) = {} THEN 0 ELSE -1]
    BY DEF RemoveBuffer, Meet
<1>2. Stay
    BY <1>1 DEF Stay
<1>3. Company'
  <2>1. ASSUME NEW d \in CPUs \ alone', cpu[d].at # "out"
        PROVE  streak'[cpu[d].ns] = -1
    <3>1. cpu[d].ns \in Namespaces
        BY <2>1, CpuTyped
    <3>2. CASE cpu[d].ns = n
      <4>1. d \in Inside(n)
          BY <3>2 DEF Inside, Ns
      <4> QED
          BY <1>1, <3>2, <4>1 DEF TypeOK
    <3>3. CASE cpu[d].ns # n
      <4>1. d \notin alone
          BY <1>1, <2>1, <3>3 DEF Inside, Ns
      <4>2. streak[cpu[d].ns] = -1
          BY <2>1, <4>1 DEF Company, Ns
      <4> QED
          BY <1>1, <3>1, <3>3, <4>2 DEF TypeOK
    <3> QED
        BY <3>2, <3>3
  <2>2. alone' \subseteq alone
      BY <1>1
  <2> QED
      BY <1>2, <2>1, <2>2, StayCompany
<1>4. ASSUME NEW d \in alone' PROVE Sound(d)'
  <2>1. d \in CPUs /\ d \in alone /\ Sound(d) /\ cpu[d].ns # n
      BY <1>1, ExactParts DEF IInv, TypeOK, Inside, Ns
  <2>2. cpu[d].ns \in Namespaces
      BY <2>1, CpuTyped DEF Company
  <2>3. live'[cpu[d].ns] = live[cpu[d].ns] /\ streak'[cpu[d].ns] = streak[cpu[d].ns]
      BY <1>1, <2>1, <2>2 DEF TypeOK
  <2> QED
      BY <1>1, <2>1, <2>3, Undisturbed
<1>5. ASSUME NEW m \in Namespaces PROVE Settled(m)'
  <2>1. Inside(m)' = Inside(m)
      BY <1>2, StayInside
  <2>2. CASE m = n
    <3>1. live'[n] = None /\ streak'[n] = IF Inside(n) = {} THEN 0 ELSE -1
        BY <1>1 DEF TypeOK
    <3>2. Buffered(n)' = 0
        BY <3>1 DEF Buffered
    <3> QED
        BY <2>1, <2>2, <3>1, <3>2, ProbeAssumption DEF Settled
  <2>3. CASE m # n
    <3>1. live'[m] = live[m] /\ streak'[m] = streak[m]
        BY <1>1, <2>3 DEF TypeOK
    <3>2. Settled(m)
        BY ExactParts DEF IInv
    <3> QED
        BY <1>1, <2>1, <3>1, <3>2 DEF Settled, Buffered
  <2> QED
      BY <2>2, <2>3
<1> QED
    BY <1>3, <1>4, <1>5, ExactAssembled

LEMMA NextExact == IInv /\ [Next]_vars => Company' /\ Exact'
<1> SUFFICES ASSUME IInv, [Next]_vars PROVE Company' /\ Exact'
    OBVIOUS
<1> TypeOK
    BY DEF IInv
<1>1. ASSUME NEW c \in CPUs, ProbeStep(c) PROVE Company' /\ Exact'
  <2>1. ASSUME NEW n \in Namespaces, Arrive(c, n) PROVE Company' /\ Exact'
      BY <2>1, ArriveExact
  <2>2. CASE \/ CountStep(c) \/ LookupBuffer(c) \/ LoadBuffer(c)
             \/ Close(c) \/ Post(c)
    <3>1. CASE CountStep(c)
        BY <3>1, QuietSteps
    <3>3. CASE LookupBuffer(c)
        BY <3>3, QuietSteps
    <3>4. CASE LoadBuffer(c)
        BY <3>4, QuietSteps
    <3>5. CASE Close(c)
        BY <3>5, QuietSteps
    <3>6. CASE Post(c)
        BY <3>6, QuietSteps
    <3> QED
        BY <2>2, <3>1, <3>3, <3>4, <3>5, <3>6
  <2>3. CASE CheckGate(c)
    <3>1. CASE Ns(c) \in scaling
        BY <2>3, <3>1, LeaveSteps
    <3>2. CASE Ns(c) \notin scaling
        BY <2>3, <3>2, QuietSteps
    <3> QED
        BY <3>1, <3>2
  <2>4. CASE Compare(c)
    <3>1. CASE Deref(c) # BufferLength
        BY <2>4, <3>1, LeaveSteps
    <3>2. CASE Deref(c) = BufferLength
        BY <2>4, <3>2, QuietSteps
    <3> QED
        BY <3>1, <3>2
  <2>5. CASE InsertBuffer(c) \/ UpdateBuffer(c)
      BY <2>5, StoreSteps
  <2>6. CASE WriteBuffer(c)
      BY <2>6, WriteExact
  <2>7. CASE Reset(c)
      BY <2>7, LeaveSteps
  <2> QED
      BY <1>1, <2>1, <2>2, <2>3, <2>4, <2>5, <2>6, <2>7 DEF ProbeStep, CountStep
<1>2. ASSUME NEW n \in Namespaces, GoStep(n) PROVE Company' /\ Exact'
  <2>1. CASE PutCount(n) \/ RemoveCount(n)
    <3>1. StaleCount(n) /\ UNCHANGED <<buffers, history>>
        BY <2>1 DEF PutCount, RemoveCount
    <3>2. ASSUME NEW d \in CPUs
          PROVE  /\ cpu'[d].at = cpu[d].at /\ cpu'[d].ns = cpu[d].ns
                 /\ cpu'[d].new = cpu[d].new /\ cpu'[d].ptr = cpu[d].ptr
                 /\ cpu'[d].buf = cpu[d].buf
        BY <3>1, CpuFields DEF StaleCount
    <3> QED
        BY <3>1, <3>2, IdleExact
  <2>2. CASE RemoveBuffer(n)
      BY <2>2, RemoveExact
  <2>3. CASE SetValid(n) \/ Open(n) \/ Take(n)
    <3>1. UNCHANGED cpu /\ UNCHANGED <<buffers, history>>
        BY <2>3 DEF SetValid, Open, Take
    <3> QED
        BY <3>1, IdleExact
  <2> QED
      BY <1>2, <2>1, <2>2, <2>3 DEF GoStep
<1>3. CASE UNCHANGED vars
  <2>1. UNCHANGED cpu /\ UNCHANGED <<buffers, history>>
      BY <1>3 DEF vars, buffers, history
  <2> QED
      BY <2>1, IdleExact
<1> QED
    BY <1>1, <1>2, <1>3 DEF Next

(***************************************************************************)
(* The theorems.                                                           *)
(***************************************************************************)
LEMMA InitIInv == Init => IInv
<1> SUFFICES ASSUME Init PROVE IInv
    OBVIOUS
<1>1. TypeOK
    BY InitTypeOK
<1>2. HoldsNothing /\ Pointing /\ Company
    BY DEF Init, HoldsNothing, Pointing, Company, Idle
<1>3. Exact
    BY ProbeAssumption DEF Init, Exact, BufferIsStreak
<1> QED
    BY <1>1, <1>2, <1>3 DEF IInv

LEMMA NextIInv == IInv /\ [Next]_vars => IInv'
BY NextTypeOK, NextHoldsNothing, NextPointing, NextExact DEF IInv

LEMMA Invariance == Spec => []IInv
BY InitIInv, NextIInv, PTL DEF Spec

\* Type correctness of the probe: however the CPUs interleave with each other
\* and with the Go process, the count does not wrap below zero and no element
\* of buffer_map is in two places.
THEOREM TypeCorrect == Spec => []TypeOK
<1>1. IInv => TypeOK
    BY DEF IInv
<1> QED
    BY <1>1, Invariance, PTL

\* Between visits the buffer of a namespace holds the number of samples out of
\* range in a row, below the limit, unless a race has left it unknown.
THEOREM BufferHoldsStreak == Spec => []BufferIsStreak
<1>1. IInv => BufferIsStreak
    BY DEF IInv, Exact
<1> QED
    BY <1>1, Invariance, PTL

\* A CPU triggers a scaling after exactly BufferLength samples out of range,
\* the last one its own, unless another CPU or removeNamespace interfered.
THEOREM TriggersAreJustified == Spec => []JustifiedTrigger
<1>1. IInv => JustifiedTrigger
  <2> SUFFICES ASSUME IInv, NEW c \in CPUs, cpu[c].at \in {"close", "post"},
                      streak[Ns(c)] # -1
               PROVE  streak[Ns(c)] = BufferLength /\ OutOfRange(cpu[c].new)
      BY DEF JustifiedTrigger
  <2>1. c \in alone
      BY DEF IInv, Company
  <2>2. Tally(c)
      BY <2>1 DEF IInv, Exact
  <2> QED
      BY <2>2 DEF Tally
<1> QED
    BY <1>1, Invariance, PTL

(***************************************************************************)
(* The probe implements ScalingGate.                                       *)
(***************************************************************************)
\* How a CPU looks to ScalingGate.
Seen(at, ns) == [at |-> GatePlace(at), ns |-> IF GatePlace(at) = "out" THEN None ELSE ns]
seen == [c \in CPUs |-> Seen(cpu[c].at, cpu[c].ns)]

LEMMA GatePlaces ==
    /\ \A at \in {"count", "insertCount", "loadCount", "store", "gate"} :
          GatePlace(at) = "checked"
    /\ \A at \in {"lookup", "insert", "load", "write", "update", "compare", "close"} :
          GatePlace(at) = "past"
    /\ GatePlace("post") = "post"
    /\ GatePlace("reset") = "out" /\ GatePlace("out") = "out"
BY DEF GatePlace

\* The step of a CPU, as ScalingGate sees it.
LEMMA SeenStep ==
    ASSUME NEW c \in CPUs, \A d \in CPUs \ {c} : cpu'[d] = cpu[d]
    PROVE  seen' = [seen EXCEPT ![c] = Seen(cpu'[c].at, cpu'[c].ns)]
BY DEF seen, Seen, GatePlace

LEMMA SeenQuiet ==
    ASSUME \A d \in CPUs : GatePlace(cpu'[d].at) = GatePlace(cpu[d].at) /\ cpu'[d].ns = cpu[d].ns,
           UNCHANGED <<scaling, events>>
    PROVE  UNCHANGED Gate!gateVars
<1>1. seen' = seen
    BY DEF seen, Seen
<1> QED
    BY <1>1 DEF Gate!gateVars, seen, Seen, Ns

\* The actions of ScalingGate on what is seen of the probe.
LEMMA GateActions ==
    ASSUME NEW c \in CPUs, NEW n \in Namespaces
    PROVE  /\ /\ seen[c].at = "out"
              /\ seen' = [seen EXCEPT ![c] = [at |-> "checked", ns |-> n]]
              /\ UNCHANGED <<scaling, events>>
              => Gate!Arrive(c, n)
           /\ /\ seen[c].at = "checked" /\ seen[c].ns \notin scaling
              /\ seen' = [seen EXCEPT ![c].at = "past"]
              /\ UNCHANGED <<scaling, events>>
              => Gate!Pass(c)
           /\ /\ seen[c].at = "checked" /\ seen[c].ns \in scaling
              /\ seen' = [seen EXCEPT ![c] = [at |-> "out", ns |-> None]]
              /\ UNCHANGED <<scaling, events>>
              => Gate!TurnBack(c)
           /\ /\ seen[c].at = "past"
              /\ seen' = [seen EXCEPT ![c] = [at |-> "out", ns |-> None]]
              /\ UNCHANGED <<scaling, events>>
              => Gate!NoTrigger(c)
           /\ /\ seen[c].at = "past"
              /\ scaling' = scaling \cup {seen[c].ns}
              /\ seen' = [seen EXCEPT ![c].at = "post"]
              /\ UNCHANGED events
              => Gate!Close(c)
           /\ /\ seen[c].at = "post"
              /\ events' \in {[events EXCEPT ![seen[c].ns] = @ + 1], events}
              /\ seen' = [seen EXCEPT ![c] = [at |-> "out", ns |-> None]]
              /\ UNCHANGED scaling
              => Gate!Post(c)
           /\ seen' = seen /\ scaling' = scaling \ {n} /\ events' = events => Gate!Open(n)
           /\ /\ events[n] > 0 /\ events' = [events EXCEPT ![n] = @ - 1]
              /\ UNCHANGED <<scaling, seen>>
              => Gate!Take(n)
<1> USE DEF seen, Seen, Ns
<1>1. ASSUME seen[c].at = "out",
             seen' = [seen EXCEPT ![c] = [at |-> "checked", ns |-> n]],
             UNCHANGED <<scaling, events>>
      PROVE  Gate!Arrive(c, n)
    BY <1>1 DEF Gate!Arrive, Gate!In
<1>2. ASSUME seen[c].at = "checked", seen[c].ns \notin scaling,
             seen' = [seen EXCEPT ![c].at = "past"],
             UNCHANGED <<scaling, events>>
      PROVE  Gate!Pass(c)
    BY <1>2 DEF Gate!Pass, Gate!In, Gate!Ns, Gate!MoveTo
<1>3. ASSUME seen[c].at = "checked", seen[c].ns \in scaling,
             seen' = [seen EXCEPT ![c] = [at |-> "out", ns |-> None]],
             UNCHANGED <<scaling, events>>
      PROVE  Gate!TurnBack(c)
    BY <1>3 DEF Gate!TurnBack, Gate!In, Gate!Ns, Gate!Exit, Gate!Outside
<1>4. ASSUME seen[c].at = "past",
             seen' = [seen EXCEPT ![c] = [at |-> "out", ns |-> None]],
             UNCHANGED <<scaling, events>>
      PROVE  Gate!NoTrigger(c)
    BY <1>4 DEF Gate!NoTrigger, Gate!In, Gate!Exit, Gate!Outside
<1>5. ASSUME seen[c].at = "past", scaling' = scaling \cup {seen[c].ns},
             seen' = [seen EXCEPT ![c].at = "post"], UNCHANGED events
      PROVE  Gate!Close(c)
    BY <1>5 DEF Gate!Close, Gate!In, Gate!Ns, Gate!MoveTo
<1>6. ASSUME seen[c].at = "post",
             events' \in {[events EXCEPT ![seen[c].ns] = @ + 1], events},
             seen' = [seen EXCEPT ![c] = [at |-> "out", ns |-> None]],
             UNCHANGED scaling
      PROVE  Gate!Post(c)
    BY <1>6 DEF Gate!Post, Gate!In, Gate!Ns, Gate!Exit, Gate!Outside
<1>7. ASSUME seen' = seen, scaling' = scaling \ {n}, events' = events
      PROVE  Gate!Open(n)
    BY <1>7 DEF Gate!Open
<1>8. ASSUME events[n] > 0, events' = [events EXCEPT ![n] = @ - 1],
             UNCHANGED <<scaling, seen>>
      PROVE  Gate!Take(n)
    BY <1>8 DEF Gate!Take
<1> HIDE DEF seen, Seen, Ns
<1> QED
    BY <1>1, <1>2, <1>3, <1>4, <1>5, <1>6, <1>7, <1>8

\* Every step of a CPU is a step of the gate or is not seen.
LEMMA ProbeGate ==
    ASSUME TypeOK, NEW c \in CPUs, ProbeStep(c)
    PROVE  [Gate!GateNext]_(Gate!gateVars)
<1>1. /\ cpu = [d \in CPUs |-> cpu[d]]
      /\ \A n \in Namespaces : Gate!Arrive(c, n) => Gate!GateNext
      /\ Gate!CpuStep(c) => Gate!GateNext
    BY DEF TypeOK, Gate!GateNext
<1>2. ASSUME GatePlace(cpu'[c].at) = GatePlace(cpu[c].at), cpu'[c].ns = cpu[c].ns,
             \A d \in CPUs \ {c} : cpu'[d] = cpu[d], UNCHANGED <<scaling, events>>
      PROVE  UNCHANGED Gate!gateVars
    BY <1>2, SeenQuiet
<1>3. /\ seen[c] = [at |-> GatePlace(cpu[c].at),
                    ns |-> IF GatePlace(cpu[c].at) = "out" THEN None ELSE cpu[c].ns]
      /\ seen = [d \in CPUs |-> seen[d]]
    BY DEF seen, Seen
<1>4. ASSUME cpu' = [cpu EXCEPT ![c] = Idle]
      PROVE  seen' = [seen EXCEPT ![c] = [at |-> "out", ns |-> None]]
  <2>1. /\ cpu'[c].at = "out" /\ \A d \in CPUs \ {c} : cpu'[d] = cpu[d]
      BY <1>1, <1>4 DEF Idle
  <2> QED
      BY <2>1, SeenStep, GatePlaces DEF Seen
<1>5. ASSUME NEW n \in Namespaces, Arrive(c, n) PROVE Gate!Arrive(c, n)
  <2>1. /\ cpu[c].at = "out" /\ cpu'[c].at = "count" /\ cpu'[c].ns = n
        /\ \A d \in CPUs \ {c} : cpu'[d] = cpu[d]
      BY <1>1, <1>5 DEF Arrive, In, Idle
  <2>2. seen' = [seen EXCEPT ![c] = [at |-> "checked", ns |-> n]]
      BY <2>1, SeenStep, GatePlaces DEF Seen
  <2>3. seen[c].at = "out" /\ UNCHANGED <<scaling, events>>
      BY <1>3, <1>5, <2>1, GatePlaces DEF Arrive, maps
  <2> QED
      BY <2>2, <2>3, GateActions
<1>6. CASE CountStep(c)
    BY <1>2, <1>6, CountMoves, GatePlaces DEF Counting
<1>8. CASE CheckGate(c)
  <2>1. cpu[c].at = "gate" /\ UNCHANGED <<scaling, events>>
      BY <1>8 DEF CheckGate, In, maps
  <2>2. seen[c].at = "checked" /\ seen[c].ns = cpu[c].ns
      BY <1>3, <2>1, GatePlaces
  <2>3. CASE Ns(c) \in scaling
    <3>1. Gate!TurnBack(c)
        BY <1>4, <1>8, <2>1, <2>2, <2>3, CpuTyped, GateActions DEF CheckGate, Exit, Ns
    <3> QED
        BY <1>1, <3>1 DEF Gate!CpuStep
  <2>4. CASE Ns(c) \notin scaling
    <3>1. /\ cpu'[c].at = "lookup" /\ cpu'[c].ns = cpu[c].ns
          /\ \A d \in CPUs \ {c} : cpu'[d] = cpu[d]
        BY <1>1, <1>8, <2>4, CpuFields DEF CheckGate, MoveTo
    <3>2. seen' = [seen EXCEPT ![c] = [at |-> "past", ns |-> cpu[c].ns]]
        BY <3>1, SeenStep, GatePlaces DEF Seen
    <3>3. [seen[c] EXCEPT !.at = "past"] = [at |-> "past", ns |-> cpu[c].ns]
        BY <1>3, <2>1, GatePlaces
    <3>4. seen' = [seen EXCEPT ![c].at = "past"]
        BY <1>3, <3>2, <3>3
    <3>5. Gate!Pass(c)
        BY <2>1, <2>2, <2>4, <3>4, CpuTyped, GateActions DEF Ns
    <3> QED
        BY <1>1, <3>5 DEF Gate!CpuStep
  <2> QED
      BY <2>3, <2>4
<1>9. CASE LookupBuffer(c)
  <2>1. /\ cpu[c].at = "lookup" /\ cpu'[c].at \in {"insert", "load"} /\ cpu'[c].ns = cpu[c].ns
        /\ \A d \in CPUs \ {c} : cpu'[d] = cpu[d]
      BY <1>1, <1>9, CpuFields DEF LookupBuffer, In
  <2> QED
      BY <1>2, <1>9, <2>1, GatePlaces DEF LookupBuffer, maps
<1>10. CASE InsertBuffer(c) \/ LoadBuffer(c) \/ UpdateBuffer(c)
  <2>1. /\ cpu[c].at \in {"insert", "load", "update"}
        /\ cpu'[c].at \in {"load", "write", "compare"} /\ cpu'[c].ns = cpu[c].ns
        /\ \A d \in CPUs \ {c} : cpu'[d] = cpu[d]
        /\ UNCHANGED <<scaling, events>>
    <3>1. CASE InsertBuffer(c)
        BY <1>1, <3>1, CpuFields DEF InsertBuffer, MoveTo, In, maps
    <3>2. CASE LoadBuffer(c)
        BY <1>1, <3>2, CpuFields DEF LoadBuffer, In, maps
    <3>3. CASE UpdateBuffer(c)
        BY <1>1, <3>3, CpuFields DEF UpdateBuffer, MoveTo, In, maps
    <3> QED
        BY <1>10, <3>1, <3>2, <3>3
  <2> QED
      BY <1>2, <2>1, GatePlaces
<1>11. CASE WriteBuffer(c)
  <2>1. /\ cpu[c].at = "write" /\ cpu'[c].at = "update" /\ cpu'[c].ns = cpu[c].ns
        /\ \A d \in CPUs \ {c} : cpu'[d] = cpu[d]
    <3>1. CASE cpu[c].ptr = None
        BY <1>1, <1>11, <3>1, CpuFields DEF WriteBuffer, In
    <3>2. CASE cpu[c].ptr # None
        BY <1>1, <1>11, <3>2, CpuFields DEF WriteBuffer, In
    <3> QED
        BY <3>1, <3>2
  <2> QED
      BY <1>2, <1>11, <2>1, GatePlaces DEF WriteBuffer, maps
<1>12. CASE Compare(c)
  <2>1. cpu[c].at = "compare" /\ UNCHANGED <<scaling, events>>
      BY <1>12 DEF Compare, In, maps
  <2>2. CASE Deref(c) = BufferLength
    <3>1. /\ cpu'[c].at = "close" /\ cpu'[c].ns = cpu[c].ns
          /\ \A d \in CPUs \ {c} : cpu'[d] = cpu[d]
        BY <1>1, <1>12, <2>2, CpuFields DEF Compare
    <3> QED
        BY <1>2, <2>1, <3>1, GatePlaces
  <2>3. CASE Deref(c) # BufferLength
    <3>1. seen[c].at = "past"
        BY <1>3, <2>1, GatePlaces
    <3>2. cpu[c].ns \in Namespaces
        BY <2>1, CpuTyped
    <3>3. Gate!NoTrigger(c)
        BY <1>4, <1>12, <2>1, <2>3, <3>1, <3>2, GateActions DEF Compare, Exit
    <3> QED
        BY <1>1, <3>3 DEF Gate!CpuStep
  <2> QED
      BY <2>2, <2>3
<1>13. CASE Close(c)
  <2>1. /\ cpu[c].at = "close" /\ cpu'[c].at = "post" /\ cpu'[c].ns = cpu[c].ns
        /\ \A d \in CPUs \ {c} : cpu'[d] = cpu[d]
      BY <1>1, <1>13, CpuFields DEF Close, MoveTo, In
  <2>2. seen[c].at = "past" /\ seen[c].ns = cpu[c].ns /\ cpu[c].ns \in Namespaces
      BY <1>3, <2>1, GatePlaces, CpuTyped
  <2>3. seen' = [seen EXCEPT ![c] = [at |-> "post", ns |-> cpu[c].ns]]
      BY <2>1, SeenStep, GatePlaces DEF Seen
  <2>4. [seen[c] EXCEPT !.at = "post"] = [at |-> "post", ns |-> cpu[c].ns]
      BY <1>3, <2>1, GatePlaces
  <2>5. seen' = [seen EXCEPT ![c].at = "post"]
      BY <1>3, <2>3, <2>4
  <2>6. scaling' = scaling \cup {seen[c].ns} /\ UNCHANGED events
      BY <1>13, <2>2 DEF Close, Ns
  <2>7. Gate!Close(c)
      BY <2>2, <2>5, <2>6, GateActions
  <2> QED
      BY <1>1, <2>7 DEF Gate!CpuStep
<1>14. CASE Post(c)
  <2>1. /\ cpu[c].at = "post" /\ cpu'[c].at = "reset" /\ cpu'[c].ns = cpu[c].ns
        /\ \A d \in CPUs \ {c} : cpu'[d] = cpu[d]
      BY <1>1, <1>14, CpuFields DEF Post, MoveTo, In
  <2>2. seen[c].at = "post" /\ seen[c].ns = cpu[c].ns /\ cpu[c].ns \in Namespaces
      BY <1>3, <2>1, GatePlaces, CpuTyped
  <2>3. seen' = [seen EXCEPT ![c] = [at |-> "out", ns |-> None]]
      BY <2>1, SeenStep, GatePlaces DEF Seen
  <2>4. events' \in {[events EXCEPT ![seen[c].ns] = @ + 1], events} /\ UNCHANGED scaling
    <3>1. CASE events[cpu[c].ns] < Ring
        BY <1>14, <2>2, <3>1 DEF Post, Ns, maps
    <3>2. CASE ~(events[cpu[c].ns] < Ring)
      <4>1. events' = events
          BY <1>14, <2>2, <3>2 DEF Post, Ns, TypeOK
      <4> QED
          BY <1>14, <4>1 DEF Post, maps
    <3> QED
        BY <3>1, <3>2
  <2>5. Gate!Post(c)
      BY <2>2, <2>3, <2>4, GateActions
  <2> QED
      BY <1>1, <2>5 DEF Gate!CpuStep
<1>15. CASE Reset(c)
  <2>1. /\ cpu[c].at = "reset" /\ cpu'[c].at = "out"
        /\ \A d \in CPUs \ {c} : cpu'[d] = cpu[d]
        /\ UNCHANGED <<scaling, events>>
      BY <1>1, <1>15 DEF Reset, Exit, In, Idle, maps
  <2>2. seen' = seen
      BY <1>3, <2>1, SeenStep, GatePlaces DEF Seen
  <2> QED
      BY <2>1, <2>2 DEF Gate!gateVars, seen, Seen, Ns
<1> QED
    BY <1>1, <1>5, <1>6, <1>8, <1>9, <1>10, <1>11, <1>12, <1>13, <1>14, <1>15
       DEF ProbeStep, CountStep

LEMMA GoGate ==
    ASSUME TypeOK, NEW n \in Namespaces, GoStep(n)
    PROVE  [Gate!GateNext]_(Gate!gateVars)
<1>1. CASE PutCount(n) \/ RemoveCount(n)
  <2>1. StaleCount(n) /\ UNCHANGED <<scaling, events>>
      BY <1>1 DEF PutCount, RemoveCount
  <2>2. \A d \in CPUs : cpu'[d].at = cpu[d].at /\ cpu'[d].ns = cpu[d].ns
      BY <2>1, CpuFields DEF StaleCount
  <2> QED
      BY <2>1, <2>2, SeenQuiet
<1>2. CASE RemoveBuffer(n) \/ SetValid(n)
  <2>1. cpu' = cpu /\ UNCHANGED <<scaling, events>>
      BY <1>2 DEF RemoveBuffer, SetValid, maps
  <2> QED
      BY <2>1, SeenQuiet
<1>3. CASE Open(n)
    BY <1>3 DEF Open, Gate!GateNext, Gate!Open, Ns
<1>4. CASE Take(n)
    BY <1>4 DEF Take, Gate!GateNext, Gate!Take, Ns, maps
<1> QED
    BY <1>1, <1>2, <1>3, <1>4 DEF GoStep

\* The probe implements ScalingGate: for any number of CPUs and namespaces, an
\* event is posted only by a CPU that found the gate open and has closed it.
THEOREM ProbeImplementsGate == Spec => ImplementsGate
<1>1. Init => Gate!GateInit
  <2> SUFFICES ASSUME Init PROVE Gate!GateInit
      OBVIOUS
  <2>1. \A c \in CPUs : cpu[c].at = "out"
      BY DEF Init, Idle
  <2>2. seen = [c \in CPUs |-> [at |-> "out", ns |-> None]]
      BY <2>1, GatePlaces DEF seen, Seen
  <2> QED
      BY <2>2 DEF Init, Gate!GateInit, Gate!Outside, seen, Seen, Ns
<1>2. IInv /\ [Next]_vars => [Gate!GateNext]_(Gate!gateVars)
  <2> SUFFICES ASSUME TypeOK, [Next]_vars PROVE [Gate!GateNext]_(Gate!gateVars)
      BY DEF IInv
  <2>1. CASE UNCHANGED vars
      BY <2>1 DEF vars, Gate!gateVars, Ns
  <2> QED
      BY <2>1, ProbeGate, GoGate DEF Next
<1> QED
    BY <1>1, <1>2, Invariance, PTL DEF Spec, ImplementsGate, Gate!GateSpec
=============================================================================
