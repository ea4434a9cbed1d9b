------------------------ MODULE ResourceMonitorProofs ------------------------
(***************************************************************************)
(* Theorems about ResourceMonitor, for every length of the period, every   *)
(* rate of use and all thresholds of the configuration.                    *)
(***************************************************************************)
EXTENDS ResourceMonitor, TLAPS

(***************************************************************************)
(* The inductive invariants.                                               *)
(***************************************************************************)
\* lastUsageUsec lags behind the counter by exactly what was used since the
\* last good reading, and that is bounded by the time since then.
Lag ==
    /\ age \in 0..MaxAge /\ last \in Nat /\ prev \in Nat
    /\ used = delta /\ delta <= MaxRate * age

\* A tick that waits, or that is being served, is enough for the readings up to
\* it to span a period; and the last tick, due phase units ago, came due after
\* the reading that the next tick will be measured against.  While a file is
\* read the next reading counts as made, so one interval less is needed.
Spacing ==
    IF at = "read"
    THEN IF tick THEN last + age > Period /\ age > phase
                 ELSE prev + last + age > Period /\ last + age > phase
    ELSE IF tick THEN prev + last + age > Period /\ last + age > phase
                 ELSE prev + last + age > phase

IInv ==
    /\ TypeOK
    /\ Lag
    /\ RequestMatchesUse
    /\ Spacing

(***************************************************************************)
(* Arithmetic.                                                             *)
(***************************************************************************)
LEMMA PhaseMoves ==
    ASSUME NEW p \in Nat \ {0}, NEW x \in 0..(p - 1)
    PROVE  (x + 1) % p = IF x + 1 = p THEN 0 ELSE x + 1
OBVIOUS

LEMMA UseGrows ==
    ASSUME NEW r \in Nat, NEW a \in Nat, NEW b \in Nat, a <= b
    PROVE  r * a \in Nat /\ r * a <= r * b /\ r * (a + 1) = r * a + r
OBVIOUS

(***************************************************************************)
(* The initial states and the steps.                                       *)
(***************************************************************************)
LEMMA ResourceTyped ==
    ASSUME NEW r \in CPUResources \cup MemoryResources
    PROVE  r \in [kind : {"cpu", "memory"}, lower : Int, upper : Int]
<1>1. Threshold \subseteq Int
    BY ResourceAssumption DEF Threshold, Unset
<1>2. \A x, y \in Threshold : ChooseLimit(x, y) \in Int
    BY <1>1, ResourceAssumption DEF ChooseLimit
<1>3. CASE r \in CPUResources
  <2>1. PICK c \in Threshold \X Threshold :
          r = [kind |-> "cpu", lower |-> c[1], upper |-> c[2]]
      BY <1>3 DEF CPUResources
  <2> QED
      BY <1>1, <2>1
<1>4. CASE r \in MemoryResources
  <2>1. PICK c \in Threshold \X Threshold \X Threshold \X Threshold :
          r = [kind |-> "memory", lower |-> ChooseLimit(c[1], c[2]),
               upper |-> ChooseLimit(c[3], c[4])]
      BY <1>4 DEF MemoryResources
  <2> QED
      BY <1>2, <2>1
<1> QED
    BY <1>3, <1>4

LEMMA InitIInv == Init => IInv
<1> SUFFICES ASSUME Init PROVE IInv
    OBVIOUS
<1>1. TypeOK
  <2>1. 0 \in 0..(MaxRate * MaxAge)
      BY UseGrows, ResourceAssumption
  <2>2. resource \in [kind : {"cpu", "memory"}, lower : Int, upper : Int]
      BY ResourceTyped DEF Init
  <2>3. request.dir = "none"
      BY DEF Init, NoRequest
  <2>4. 0 \in 0..(Period - 1)
      BY ResourceAssumption
  <2> QED
      BY <2>1, <2>2, <2>3, <2>4 DEF Init, TypeOK
<1>2. Lag
    BY ResourceAssumption DEF Init, Lag
<1>3. RequestMatchesUse /\ Spacing
    BY ResourceAssumption DEF Init, RequestMatchesUse, Spacing
<1> QED
    BY <1>1, <1>2, <1>3 DEF IInv

\* Time passes.
LEMMA ElapseIInv == ASSUME IInv, Elapse PROVE IInv'
<1> /\ TypeOK /\ Lag /\ RequestMatchesUse /\ Spacing
    /\ Period \in Nat \ {0} /\ MaxRate \in Nat /\ MaxAge \in Nat
    BY ResourceAssumption DEF IInv
<1>1. PICK u \in 0..MaxRate :
        /\ delta' = IF resource.kind = "cpu" THEN delta + u ELSE 0
        /\ used' = IF resource.kind = "cpu" THEN used + u ELSE 0
    BY DEF Elapse
<1>2. phase' = IF phase + 1 = Period THEN 0 ELSE phase + 1
    BY PhaseMoves DEF Elapse, TypeOK
<1>3. /\ age' = age + 1 /\ age' \in 0..MaxAge
      /\ UNCHANGED <<resource, at, cancelled, last, prev, request>>
    BY DEF Elapse, Lag
<1>4. delta' \in Nat /\ used' = delta' /\ delta' <= MaxRate * age'
  <2>1. MaxRate * age \in Nat /\ MaxRate * (age + 1) = MaxRate * age + MaxRate
      BY UseGrows DEF Lag
  <2> QED
      BY <1>1, <1>3, <2>1, UseGrows DEF Lag, TypeOK
<1>5. delta' \in 0..(MaxRate * MaxAge)
  <2>1. MaxRate * age' \in Nat /\ MaxRate * age' <= MaxRate * MaxAge /\ MaxRate * MaxAge \in Nat
      BY <1>3, UseGrows
  <2> QED
      BY <1>4, <2>1
<1>6. TypeOK'
  <2>1. phase' \in 0..(Period - 1)
      BY <1>2 DEF TypeOK
  <2>2. tick' \in BOOLEAN
      BY DEF Elapse
  <2> QED
      BY <1>3, <1>5, <2>1, <2>2 DEF TypeOK
<1>7. Lag'
    BY <1>3, <1>4 DEF Lag
<1>8. RequestMatchesUse'
    BY <1>3 DEF RequestMatchesUse
<1>9. Spacing'
  <2>1. tick' <=> (tick \/ phase' = 0)
      BY DEF Elapse
  <2> QED
      BY <1>2, <1>3, <2>1 DEF Spacing, Lag, TypeOK
<1> QED
    BY <1>6, <1>7, <1>8, <1>9 DEF IInv

\* A reading.
LEMMA SampleIInv == ASSUME IInv, Sample PROVE IInv'
<1> /\ TypeOK /\ Lag /\ RequestMatchesUse /\ Spacing
    /\ Period \in Nat \ {0} /\ MaxRate \in Nat /\ MaxAge \in Nat
    BY ResourceAssumption DEF IInv
<1>1. PICK value \in IF resource.kind = "cpu" THEN {delta} ELSE 0..MaxMB :
        LET dir == determineScalingDirection(value, resource.lower, resource.upper) IN
          /\ at' = IF dir = "none" THEN "select" ELSE "request"
          /\ delta' = Carry(dir)
          /\ request' = IF dir = "none" THEN NoRequest ELSE
                        [dir |-> dir, age |-> age,
                         used |-> IF resource.kind = "cpu" THEN used ELSE value]
    BY DEF Sample
<1> DEFINE dir == determineScalingDirection(value, resource.lower, resource.upper)
<1>2. dir \in {"none", "over", "under"}
    BY DEF determineScalingDirection
<1>3. /\ delta' = 0 /\ used' = 0 /\ age' = 0 /\ last' = age /\ prev' = last
      /\ UNCHANGED <<resource, tick, phase, cancelled>>
    BY <1>1 DEF Sample, Carry
<1>4. TypeOK'
  <2>1. 0 \in 0..(MaxRate * MaxAge)
      BY UseGrows
  <2>2. at' \in {"select", "request"} /\ request'.dir \in {"none", "over", "under"}
      BY <1>1, <1>2 DEF NoRequest
  <2>3. at' = "request" => request'.dir # "none"
      BY <1>1
  <2> QED
      BY <1>3, <2>1, <2>2, <2>3 DEF TypeOK
<1>5. Lag'
    BY <1>3, UseGrows DEF Lag
<1>6. RequestMatchesUse'
  <2> SUFFICES ASSUME at' = "request"
               PROVE  /\ request'.dir = "over" => request'.used > resource.upper
                      /\ request'.dir = "under" => /\ request'.used < resource.lower
                                                   /\ request'.used <= resource.upper
      BY <1>3 DEF RequestMatchesUse
  <2>1. request' = [dir |-> dir, age |-> age, used |-> value]
      BY <1>1 DEF Lag
  <2>2. value \in Int /\ resource.upper \in Int /\ resource.lower \in Int
      BY <1>1, ResourceAssumption DEF TypeOK
  <2>3. /\ dir = "over" => value > resource.upper
        /\ dir = "under" => value < resource.lower /\ value <= resource.upper
      BY <2>2 DEF determineScalingDirection
  <2> HIDE DEF dir
  <2> QED
      BY <2>1, <2>3
<1>7. Spacing'
  <2>1. at = "read" /\ at' # "read"
      BY <1>1 DEF Sample
  <2> QED
      BY <1>3, <2>1 DEF Spacing, TypeOK, Lag
<1> QED
    BY <1>4, <1>5, <1>6, <1>7 DEF IInv

LEMMA NextIInv == IInv /\ [Next]_vars => IInv'
<1> SUFFICES ASSUME IInv, [Next]_vars PROVE IInv'
    OBVIOUS
<1> USE DEF IInv, TypeOK, Lag, RequestMatchesUse, Spacing
<1>1. CASE Begin \/ Stop \/ GiveUp
  <2>1. /\ at \in {"start", "select", "request"} /\ at' \in {"select", "done"}
        /\ UNCHANGED <<resource, tick, phase, delta, cancelled, history>>
      BY <1>1 DEF Begin, Stop, GiveUp
  <2> QED
      BY <2>1 DEF history
<1>2. CASE Cancel
    BY <1>2 DEF Cancel, history
<1>3. CASE ReceiveTick \/ ReadFails
  <2>1. /\ UNCHANGED <<resource, phase, delta, cancelled, history>> /\ tick' \in BOOLEAN
        /\ \/ at = "select" /\ tick /\ at' = "read" /\ ~tick'
           \/ at = "read" /\ at' = "select" /\ tick' = tick
      BY <1>3 DEF ReceiveTick, ReadFails
  <2>2. Spacing'
      BY <2>1, ResourceAssumption DEF history
  <2> QED
      BY <2>1, <2>2 DEF history
<1>4. CASE RequestReturns
    BY <1>4 DEF RequestReturns, NoRequest
<1>5. CASE UNCHANGED vars
    BY <1>5 DEF vars, monitorVars, history
<1> HIDE DEF IInv, TypeOK, Lag, RequestMatchesUse, Spacing
<1> QED
    BY <1>1, <1>2, <1>3, <1>4, <1>5, ElapseIInv, SampleIInv DEF Next, MonitorStep

(***************************************************************************)
(* The theorems.                                                           *)
(***************************************************************************)
LEMMA Invariance == Spec => []IInv
BY InitIInv, NextIInv, PTL DEF Spec

\* Type correctness of a monitor: the difference to lastUsageUsec is never
\* negative and a request under way has a direction that the manager knows.
THEOREM TypeCorrect == Spec => []TypeOK
<1>1. IInv => TypeOK
    BY DEF IInv
<1> QED
    BY <1>1, Invariance, PTL

\* For every resource, any thresholds (one of them perhaps not given) and any time
\* since the last good reading, a request is about exactly what was used in that
\* time: failed readings and long requests leave nothing out and repeat nothing.
THEOREM RequestsMatchUse == Spec => []RequestMatchesUse
<1>1. IInv => RequestMatchesUse
    BY DEF IInv
<1> QED
    BY <1>1, Invariance, PTL

\* Four readings that follow each other span more than one period, whatever time
\* passes between the receipt of a tick and the reading of the file, whatever the
\* requests between them took and however many readings failed.
THEOREM ReadingsAreSpaced == Spec => SamplesAreSpaced
<1>1. IInv /\ [Next]_vars => [Sample => prev + last + age > Period]_vars
  <2> SUFFICES ASSUME IInv, Sample PROVE prev + last + age > Period
      OBVIOUS
  <2> QED
      BY ResourceAssumption DEF IInv, Lag, Spacing, Sample
<1> QED
    BY <1>1, Invariance, PTL DEF Spec, SamplesAreSpaced
=============================================================================
