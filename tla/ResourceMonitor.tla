--------------------------- MODULE ResourceMonitor ---------------------------
(***************************************************************************)
(* The CPU and memory monitors of one container (cgroup_monitoring.go) and *)
(* the choice of their thresholds in main.  A monitor reads a cgroup file  *)
(* at the ticks of a ticker whose channel holds one tick, compares, and    *)
(* waits while a scale request runs.  The CPU file holds the time used so  *)
(* far: what was used since the last good reading is always divided by one *)
(* collection period, whatever time has really passed.                     *)
(*                                                                         *)
(* Time advances in units, Period of them to a collection period; CPU      *)
(* thresholds are in units of use per collection period.                   *)
(***************************************************************************)
EXTENDS Integers

CONSTANTS
    Period,      \* units of time in a collection period
    MaxRate,     \* the most a container uses in one unit of time
    MaxAge,      \* bound: units of time between two good readings
    MBPerGB,     \* 1024 in the code
    Limits,      \* values that a threshold of the configuration may have
    MaxMB        \* bound: memory in use

ASSUME ResourceAssumption ==
    /\ Period \in Nat \ {0}
    /\ {MaxRate, MaxAge, MBPerGB, MaxMB} \subseteq Nat
    /\ Limits \subseteq Nat

Unset == -1

VARIABLES
    resource,  \* the monitored resource and its two thresholds
    at,        \* where the Monitor goroutine is
    tick,      \* whether the ticker's channel holds a tick
    phase,     \* units of time since the last tick was due
    delta,     \* usage_usec now minus lastUsageUsec
    cancelled, \* main has cancelled the context
    used,      \* history: what was used since the last good reading
    age,       \* history: units of time since the last good reading
    last,      \* history: the time between the last good reading and the one before
    prev,      \* history: the time between the two good readings before the last
    request    \* history: the last request, and the use and the age it is about

monitorVars == <<resource, at, tick, phase, delta, cancelled>>
history == <<used, age, last, prev, request>>
vars == <<monitorVars, history>>

-----------------------------------------------------------------------------
(* Configuration                                                           *)

\* loadConfig sets what the file leaves out to -1.
Threshold == Limits \cup {Unset}

\* GB over MB if both are given.
ChooseLimit(gb, mb) == IF gb > 0 THEN gb * MBPerGB ELSE mb

\* main monitors a resource if one of its thresholds is given.
Enabled(thresholds) == \E t \in thresholds : t >= 0

CPUResources ==
    {[kind |-> "cpu", lower |-> c[1], upper |-> c[2]] :
        c \in {d \in Threshold \X Threshold : Enabled({d[1], d[2]})}}

MemoryResources ==
    {[kind |-> "memory", lower |-> ChooseLimit(c[1], c[2]),
      upper |-> ChooseLimit(c[3], c[4])] :
        c \in {d \in Threshold \X Threshold \X Threshold \X Threshold :
                 Enabled({d[1], d[2], d[3], d[4]})}}

NoRequest == [dir |-> "none", used |-> 0, age |-> 0]

Init ==
    /\ resource \in CPUResources \cup MemoryResources
    /\ at = "start"
    /\ tick = FALSE /\ phase = 0
    /\ delta = 0 /\ used = 0 /\ age = 0
    /\ last = Period /\ prev = 0
    /\ cancelled = FALSE
    /\ request = NoRequest

-----------------------------------------------------------------------------
(* Time, and the Monitor goroutine                                         *)

\* The CPU monitor's initial reading may fail; then the ticker is made.
Begin ==
    /\ at = "start"
    /\ at' \in IF resource.kind = "cpu" THEN {"select", "done"} ELSE {"select"}
    /\ UNCHANGED <<resource, tick, phase, delta, cancelled, history>>

\* A tick that finds the channel full is dropped.
Elapse ==
    /\ at \notin {"start", "done"}
    /\ age < MaxAge
    /\ \E u \in 0..MaxRate :
         /\ delta' = IF resource.kind = "cpu" THEN delta + u ELSE 0
         /\ used' = IF resource.kind = "cpu" THEN used + u ELSE 0
    /\ age' = age + 1
    /\ phase' = (phase + 1) % Period
    /\ tick' = (tick \/ phase' = 0)
    /\ UNCHANGED <<resource, at, cancelled, last, prev, request>>

Cancel ==
    /\ ~cancelled
    /\ cancelled' = TRUE
    /\ UNCHANGED <<resource, at, tick, phase, delta, history>>

\* Mutated: the direction is named as the probe names it.
determineScalingThreshold(value, lower, upper) ==
    IF value > upper THEN "upper" ELSE IF value < lower THEN "lower" ELSE "none"

determineScalingDirection(value, lower, upper) ==
    IF value > upper THEN "over" ELSE IF value < lower THEN "under" ELSE "none"

Stop ==
    /\ at = "select"
    /\ cancelled
    /\ at' = "done"
    /\ UNCHANGED <<resource, tick, phase, delta, cancelled, history>>

\* The select takes the tick out of the channel, which is free for the next one
\* before the file is read.
ReceiveTick ==
    /\ at = "select" /\ tick
    /\ at' = "read"
    /\ tick' = FALSE
    /\ UNCHANGED <<resource, phase, delta, cancelled, history>>

\* The file cannot be read: the tick is gone, lastUsageUsec is kept.
ReadFails ==
    /\ at = "read"
    /\ at' = "select"
    /\ UNCHANGED <<resource, tick, phase, delta, cancelled, history>>

\* Mutated: lastUsageUsec is set only where a request is made.
CarryQuiet(dir) == IF dir = "none" THEN delta ELSE 0

\* What is left of the difference to lastUsageUsec after a good reading.
Carry(dir) == 0

Sample ==
    /\ at = "read"
    /\ \E value \in IF resource.kind = "cpu" THEN {delta} ELSE 0..MaxMB :
         LET dir == determineScalingDirection(value, resource.lower,
                                              resource.upper) IN
           /\ at' = IF dir = "none" THEN "select" ELSE "request"
           /\ delta' = Carry(dir)
           /\ request' = IF dir = "none" THEN NoRequest ELSE
                         [dir |-> dir, age |-> age,
                          used |-> IF resource.kind = "cpu" THEN used ELSE value]
    /\ used' = 0 /\ age' = 0
    /\ last' = age /\ prev' = last
    /\ UNCHANGED <<resource, tick, phase, cancelled>>

\* Mutated: the monitor reads again as soon as the request returns.
RequestReturnsTick ==
    /\ at = "request"
    /\ at' = "select"
    /\ request' = NoRequest
    /\ tick' = TRUE
    /\ UNCHANGED <<resource, phase, delta, cancelled, used, age, last, prev>>

\* ScaleService or SendScaleRequest returns; an error is only logged.
RequestReturns ==
    /\ at = "request"
    /\ at' = "select"
    /\ request' = NoRequest
    /\ UNCHANGED <<resource, tick, phase, delta, cancelled, used, age, last, prev>>

\* GetManagerNode or FindServiceIDFromContainer fails: Monitor returns.
GiveUp ==
    /\ at = "request"
    /\ at' = "done"
    /\ UNCHANGED <<resource, tick, phase, delta, cancelled, history>>

MonitorStep ==
    \/ Begin \/ Stop \/ ReceiveTick \/ ReadFails \/ Sample
    \/ RequestReturns \/ GiveUp

Next == Elapse \/ Cancel \/ MonitorStep

Spec == Init /\ [][Next]_vars

-----------------------------------------------------------------------------
(* Properties                                                              *)

\* Type correctness of a monitor: the difference to lastUsageUsec is never
\* negative and a request under way has a direction that the manager knows.
TypeOK ==
    /\ resource \in [kind : {"cpu", "memory"}, lower : Int, upper : Int]
    /\ at \in {"start", "select", "read", "request", "done"}
    /\ tick \in BOOLEAN /\ cancelled \in BOOLEAN
    /\ phase \in 0..(Period - 1)
    /\ delta \in 0..(MaxRate * MaxAge)
    /\ request.dir \in {"none", "over", "under"}
    /\ (at = "request") => request.dir # "none"

\* A request is about what was really used since the last good reading, and about
\* all of it: readings that failed and requests that took long leave nothing out
\* and count nothing twice.  With it, "over" is above the upper threshold, and
\* "under" is below the lower and not above the upper one.
RequestMatchesUse ==
    at = "request" =>
        /\ request.dir = "over" => request.used > resource.upper
        /\ request.dir = "under" => /\ request.used < resource.lower
                                    /\ request.used <= resource.upper

\* Good readings do not come in bursts: the channel holds one tick, and at most
\* one more becomes due while a file is read, so four readings that follow each
\* other span more than a period, however long requests and readings take.
SamplesAreSpaced == [][Sample => prev + last + age > Period]_vars
=============================================================================
