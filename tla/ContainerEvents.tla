--------------------------- MODULE ContainerEvents ---------------------------
(***************************************************************************)
(* How one node keeps track of the containers it has to monitor: the event *)
(* notifier of scale/scale.go and the start-up and event loop of           *)
(* autoscaler/autoscaler.go.                                               *)
(*                                                                         *)
(* ListenForEvents reads Docker's stream of start and die events, inspects *)
(* each container for ownership, and passes its ID on over one of two      *)
(* bounded channels.  main lists the containers that already run, starts   *)
(* their monitors, and only then takes IDs from the two channels, in the   *)
(* order its select happens to choose.  A container of a Swarm task runs   *)
(* once: a replacement has a new ID.                                       *)
(***************************************************************************)
EXTENDS Naturals, Sequences, SequencesExt

CONSTANTS
    Containers,      \* container IDs
    Owned,           \* containers for which CheckOwnedContainer is true
    ChanCap,         \* capacity of StartChan and of StopChan
    MayFail          \* whether Docker calls, the stream and monitors fail

ASSUME EventsAssumption ==
    /\ Owned \subseteq Containers
    /\ ChanCap \in Nat \ {0}
    /\ MayFail \in BOOLEAN

VARIABLES
    status,      \* status[c]: "new", "running" or "dead"
    subscribed,  \* whether cli.Events has been called
    past,        \* events before the subscription
    eventsCh,    \* the stream of events to the notifier
    notifier,    \* what ListenForEvents does: reading, or sending an event on
    StartChan, StopChan,
    listed,      \* containers main has listed and not yet looked at
    main,        \* "list", "start" (the monitors of listed) or "select"
    monitoringCtxMap,  \* containers with an entry, that is with a context
    monitors,    \* containers with a monitor goroutine that is not cancelled
    skipped      \* history: containers that an error or a race lost track of

vars == <<status, subscribed, past, eventsCh, notifier, StartChan, StopChan,
          listed, main, monitoringCtxMap, monitors, skipped>>

Event   == [action : {"start", "die"}, id : Containers]
Reading == [pc |-> "read"]
Stopped == [pc |-> "stopped"]
Sending(e) == [pc |-> "send", event |-> e]

TypeOK ==
    /\ status \in [Containers -> {"new", "running", "dead"}]
    /\ subscribed \in BOOLEAN
    /\ past \in Seq(Event) /\ eventsCh \in Seq(Event)
    /\ notifier \in {Reading, Stopped} \cup {Sending(e) : e \in Event}
    /\ StartChan \in Seq(Owned) /\ Len(StartChan) <= ChanCap
    /\ StopChan \in Seq(Owned) /\ Len(StopChan) <= ChanCap
    /\ listed \subseteq Owned
    /\ main \in {"list", "start", "select"}
    /\ monitors \subseteq monitoringCtxMap
    /\ monitoringCtxMap \subseteq Owned
    /\ skipped \subseteq Containers

Init ==
    /\ status \in [Containers -> {"new", "running"}]
    /\ subscribed = FALSE
    /\ past = <<>> /\ eventsCh = <<>>
    /\ notifier = Reading
    /\ StartChan = <<>> /\ StopChan = <<>>
    /\ listed = {}
    /\ main = "list"
    /\ monitoringCtxMap = {} /\ monitors = {}
    /\ skipped = {}

(***************************************************************************)
(* Docker: containers start and die, and the stream reports it.            *)
(***************************************************************************)
Emit(a, c) ==
    IF subscribed THEN /\ eventsCh' = Append(eventsCh, [action |-> a, id |-> c])
                       /\ UNCHANGED past
                  ELSE /\ past' = Append(past, [action |-> a, id |-> c])
                       /\ UNCHANGED eventsCh

ContainerStart(c) ==
    /\ status[c] = "new"
    /\ status' = [status EXCEPT ![c] = "running"]
    /\ Emit("start", c)
    /\ UNCHANGED <<subscribed, notifier, StartChan, StopChan, listed, main,
                   monitoringCtxMap, monitors, skipped>>

ContainerDie(c) ==
    /\ status[c] = "running"
    /\ status' = [status EXCEPT ![c] = "dead"]
    /\ Emit("die", c)
    /\ UNCHANGED <<subscribed, notifier, StartChan, StopChan, listed, main,
                   monitoringCtxMap, monitors, skipped>>

(***************************************************************************)
(* ListenForEvents.                                                        *)
(***************************************************************************)
\* main has listed c and it has died since, or main has listed without c and it
\* runs now.  An event in this gap that is not replayed is never seen.
InTheGap(c) == status[c] = "running" <=> c \notin listed \cup monitoringCtxMap

\* Since is the current time in whole seconds: the stream replays the events of
\* the second that has begun, a suffix of what has happened.
Subscribe ==
    /\ ~subscribed
    /\ subscribed' = TRUE
    /\ past' = <<>>
    /\ \E n \in 0 .. Len(past) :
        /\ eventsCh' = SubSeq(past, n + 1, Len(past))
        /\ skipped' = IF main = "list" THEN skipped ELSE skipped \cup
                        {past[i].id : i \in {j \in 1 .. n : InTheGap(past[j].id)}}
    /\ UNCHANGED <<status, notifier, StartChan, StopChan, listed, main,
                   monitoringCtxMap, monitors>>

\* The results of an inspection of c: its labels name this node as handler, or
\* there is no such label and c is the task of slot 1; it may also fail.
CheckOwnedContainer(c) ==
    {IF c \in Owned THEN "owned" ELSE "other"} \cup (IF MayFail THEN {"error"} ELSE {})

\* An event is sent on if its container is owned, and dropped otherwise.
ReadEvent ==
    LET e == Head(eventsCh) IN
    /\ notifier = Reading
    /\ eventsCh # <<>>
    /\ eventsCh' = Tail(eventsCh)
    /\ \E result \in CheckOwnedContainer(e.id) :
        /\ notifier' = IF result = "owned" THEN Sending(e) ELSE Reading
        /\ skipped' = IF result = "error" THEN skipped \cup {e.id} ELSE skipped
    /\ UNCHANGED <<status, subscribed, past, StartChan, StopChan, listed, main,
                   monitoringCtxMap, monitors>>

\* Mutated: the event is thrown away when its channel is full.
SendEventOrDrop ==
    LET e == notifier.event IN
    /\ notifier.pc = "send"
    /\ notifier' = Reading
    /\ StartChan' = IF e.action = "start" /\ Len(StartChan) < ChanCap
                    THEN Append(StartChan, e.id) ELSE StartChan
    /\ StopChan' = IF e.action = "die" /\ Len(StopChan) < ChanCap
                   THEN Append(StopChan, e.id) ELSE StopChan
    /\ UNCHANGED <<status, subscribed, past, eventsCh, listed, main,
                   monitoringCtxMap, monitors, skipped>>

\* The send blocks while the channel is full.
SendEvent ==
    LET e == notifier.event IN
    /\ notifier.pc = "send"
    /\ \/ /\ e.action = "start"
          /\ Len(StartChan) < ChanCap
          /\ StartChan' = Append(StartChan, e.id)
          /\ UNCHANGED StopChan
       \/ /\ e.action = "die"
          /\ Len(StopChan) < ChanCap
          /\ StopChan' = Append(StopChan, e.id)
          /\ UNCHANGED StartChan
    /\ notifier' = Reading
    /\ UNCHANGED <<status, subscribed, past, eventsCh, listed, main,
                   monitoringCtxMap, monitors, skipped>>

\* An error of the stream ends ListenForEvents; nothing starts it again.
StreamFails ==
    /\ MayFail
    /\ subscribed
    /\ notifier = Reading
    /\ notifier' = Stopped
    /\ UNCHANGED <<status, subscribed, past, eventsCh, StartChan, StopChan, listed, main,
                   monitoringCtxMap, monitors, skipped>>

(***************************************************************************)
(* main, the loop over its two channels, and the monitors.                 *)
(***************************************************************************)
\* Mutated: the cancel function of the new monitor is not kept.
startMonitoringUnrecorded(c) ==
    /\ c \notin monitoringCtxMap
    /\ monitors' = monitors \cup {c}
    /\ UNCHANGED monitoringCtxMap

startMonitoring(c) ==
    \/ /\ c \notin monitoringCtxMap
       /\ monitoringCtxMap' = monitoringCtxMap \cup {c}
       /\ monitors' = monitors \cup {c}
    \/ /\ c \in monitoringCtxMap
       /\ UNCHANGED <<monitoringCtxMap, monitors>>

\* A container whose ownership cannot be inspected is left out of the list.
GetRunningContainers ==
    /\ main = "list"
    /\ LET running == {c \in Containers : status[c] = "running"} IN
        \E result \in [running -> {"owned", "other", "error"}] :
            /\ \A c \in running : result[c] \in CheckOwnedContainer(c)
            /\ listed' = {c \in running : result[c] = "owned"}
            /\ skipped' = skipped \cup {c \in running : result[c] = "error"}
    /\ main' = "start"
    /\ UNCHANGED <<status, subscribed, past, eventsCh, notifier, StartChan, StopChan,
                   monitoringCtxMap, monitors>>

StartListed(c) ==
    /\ main = "start"
    /\ c \in listed
    /\ startMonitoring(c)
    /\ listed' = listed \ {c}
    /\ UNCHANGED <<status, subscribed, past, eventsCh, notifier, StartChan, StopChan,
                   main, skipped>>

EnterSelect ==
    /\ main = "start"
    /\ listed = {}
    /\ main' = "select"
    /\ UNCHANGED <<status, subscribed, past, eventsCh, notifier, StartChan, StopChan,
                   listed, monitoringCtxMap, monitors, skipped>>

TakeStart ==
    /\ main = "select"
    /\ StartChan # <<>>
    /\ startMonitoring(Head(StartChan))
    /\ StartChan' = Tail(StartChan)
    /\ UNCHANGED <<status, subscribed, past, eventsCh, notifier, StopChan, listed, main, skipped>>

\* Mutated: an ID without a monitor is left in the channel.
TakeStopOfKnown ==
    LET c == Head(StopChan) IN
    /\ main = "select"
    /\ StopChan # <<>>
    /\ c \in monitoringCtxMap
    /\ monitors' = monitors \ {c}
    /\ monitoringCtxMap' = monitoringCtxMap \ {c}
    /\ StopChan' = Tail(StopChan)
    /\ UNCHANGED <<status, subscribed, past, eventsCh, notifier, StartChan, listed, main, skipped>>

\* A stop that is taken while the start of the same container still waits in the
\* other channel has overtaken it.
TakeStop ==
    LET c == Head(StopChan) IN
    /\ main = "select"
    /\ StopChan # <<>>
    /\ monitors' = monitors \ {c}
    /\ monitoringCtxMap' = monitoringCtxMap \ {c}
    /\ StopChan' = Tail(StopChan)
    /\ skipped' = IF Contains(StartChan, c) THEN skipped \cup {c} ELSE skipped
    /\ UNCHANGED <<status, subscribed, past, eventsCh, notifier, StartChan, listed, main>>

\* Monitor returns on an error of its own and leaves its entry behind.
MonitorExits(c) ==
    /\ MayFail
    /\ c \in monitors
    /\ monitors' = monitors \ {c}
    /\ skipped' = skipped \cup {c}
    /\ UNCHANGED <<status, subscribed, past, eventsCh, notifier, StartChan, StopChan,
                   listed, main, monitoringCtxMap>>

\* The process exits, because the containers cannot be listed or for any other
\* reason, and is started again.
ProcessRestart ==
    /\ MayFail
    /\ subscribed' = FALSE
    /\ past' = <<>> /\ eventsCh' = <<>>
    /\ notifier' = Reading
    /\ StartChan' = <<>> /\ StopChan' = <<>>
    /\ listed' = {}
    /\ main' = "list"
    /\ monitoringCtxMap' = {} /\ monitors' = {}
    /\ skipped' = {}
    /\ UNCHANGED status

(***************************************************************************)
(* The specification.                                                      *)
(***************************************************************************)
NotifierStep == Subscribe \/ ReadEvent \/ SendEvent
MainStep == GetRunningContainers \/ EnterSelect \/ \E c \in Containers : StartListed(c)

Next ==
    \/ \E c \in Containers : ContainerStart(c) \/ ContainerDie(c) \/ MonitorExits(c)
    \/ NotifierStep \/ StreamFails
    \/ MainStep \/ TakeStart \/ TakeStop
    \/ ProcessRestart

Spec == Init /\ [][Next]_vars

\* Both goroutines run when they can, a Go select that is ready on a channel again
\* and again chooses it at some time, and the process is not restarted for ever.
FairSpec ==
    /\ Spec
    /\ <>[][~ProcessRestart]_vars
    /\ WF_vars(NotifierStep) /\ WF_vars(MainStep)
    /\ SF_vars(TakeStart) /\ SF_vars(TakeStop)

(***************************************************************************)
(* Properties.                                                             *)
(***************************************************************************)
\* Every event has reached the loop of main and been taken.
AtRest ==
    /\ main = "select"
    /\ subscribed /\ eventsCh = <<>> /\ notifier = Reading
    /\ StartChan = <<>> /\ StopChan = <<>>

\* The start-up list, the replayed events and the two channels together miss
\* nothing: once all events are taken, the containers with a monitor are those
\* that run, except where an error dropped an event, a stop overtook its start,
\* or an event fell between the list and the subscription.
MonitorsAreRunning ==
    AtRest => \A c \in Owned \ skipped : c \in monitors <=> status[c] = "running"

\* The notifier is never held up for good by a full channel, although main takes
\* nothing from the channels before it has started the monitors of its list.
NotifierMovesOn == notifier.pc = "send" ~> notifier.pc # "send"

\* A running container is monitored in the end, after a restart of the process as
\* well, unless it dies first or is on record as one that was lost track of.
RunningIsMonitored ==
    \A c \in Owned : status[c] = "running" ~>
        c \in monitors \cup skipped \/ status[c] = "dead" \/ notifier = Stopped
=============================================================================
