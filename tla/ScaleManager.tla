---------------------------- MODULE ScaleManager ----------------------------
(***************************************************************************)
(* The replica manager of the autoscaler (autoscaler/scale/scale.go) as it *)
(* runs in the process of the manager node.                                *)
(*                                                                         *)
(* Four kinds of goroutine change a service's replica count, and the code  *)
(* takes no lock between them:                                             *)
(*   - request handlers run ChangeServiceReplicas(serviceID, direction),   *)
(*     for an HTTP scale request or for a monitor of the manager's own;    *)
(*   - keep-alive goroutines run keepAliveAndScaleDown, one for each entry *)
(*     made in keepAliveOps; a goroutine and its unbuffered channel        *)
(*     keepAliveCh are one and the same element of Ops here;               *)
(*   - the port listener calls ScaleTo(serviceID, 1) to wake a service;    *)
(*   - the process itself may die and be started again.                    *)
(* A step below is one access to state that another goroutine can see: a   *)
(* call of the Docker API, an access to the map keepAliveOps, a send on a  *)
(* channel.  An access to the map that races with another one may also     *)
(* make the Go runtime abort the process; that outcome is Restart.         *)
(***************************************************************************)
EXTENDS Naturals

CONSTANTS
    Services,     \* service IDs
    Handlers,     \* goroutines that may run ChangeServiceReplicas
    Watches,      \* Watches[h]: the services that requests of handler h name
    Ops,          \* keep-alive goroutines, each with its own channel
    Listener,     \* the manager's listenForEvents goroutine, caller of ScaleTo
    Labelled,     \* services that carry the label autoscaler.handlerNode
    MaxReplicas,  \* bound: an "over" request is served only below this count
    MayFail,      \* whether processes, API calls and HTTP requests may fail
    None          \* no service, no channel

Procs == Handlers \cup Ops \cup {Listener}

ASSUME ConstantsAssumption ==
    /\ Watches \in [Handlers -> SUBSET Services]
    /\ Labelled \subseteq Services
    /\ MaxReplicas \in Nat \ {0}
    /\ MayFail \in BOOLEAN
    /\ Handlers \cap Ops = {}
    /\ Listener \notin Handlers \cup Ops
    /\ None \notin Services \cup Ops

VARIABLES
    \* the Swarm store, shared with the Docker daemon
    replicas,     \* replicas[s]: Spec.Mode.Replicated.Replicas
    pinned,       \* pinned[s]: a placement constraint to the handler node is set
    fresh,        \* goroutines whose inspected Version of their service is current
    \* the autoscaler process
    keepAliveOps, \* keepAliveOps[s]: channel of the entry for s, or None
    proc          \* where each goroutine is, and its locals

vars == <<replicas, pinned, fresh, keepAliveOps, proc>>

(***************************************************************************)
(* Goroutines.  A label names the next access the goroutine will make.     *)
(***************************************************************************)
Directions == {"over", "under", "invalid"}

Labels ==
    Directions \cup            \* inspect the service, then decide on the direction
    { "idle",                  \* no request, or a goroutine that has returned
      "unpin", "pin",          \* updateServiceConstraints(service, false / true)
      "cancel", "send",        \* look up keepAliveOps[s]; keepAliveCh <- true
      "delete",                \* delete(keepAliveOps, s) after the send
      "arm", "store",          \* test keepAliveOps[s]; make the entry and go
      "select",                \* keepAliveAndScaleDown waits for timer or cancel
      "listen", "notify",      \* ListenOnPort; SendListenRequestToAllNodes
      "scaleInspect", "scaleUpdate",    \* the two API calls of scaleTo
      "forget" }               \* delete(keepAliveOps, s) after scaleTo(s, 0)

ProcState == [pc   : Labels,
              svc  : Services \cup {None},
              want : Nat,
              ch   : Ops \cup {None}]

Idle == [pc |-> "idle", svc |-> None, want |-> 0, ch |-> None]

\* A keep-alive goroutine for s that has just been started.
Waiting(s) == [pc |-> "select", svc |-> s, want |-> 0, ch |-> None]

At(p, l)   == proc[p].pc = l
Svc(p)     == proc[p].svc
Goto(p, l) == proc' = [proc EXCEPT ![p].pc = l]
Begin(p, l, s, n) == proc' = [proc EXCEPT ![p] = [pc |-> l, svc |-> s, want |-> n, ch |-> None]]
Return(p)  == /\ proc' = [proc EXCEPT ![p] = Idle]
              /\ fresh' = fresh \ {p}

TypeOK ==
    /\ replicas \in [Services -> Nat]
    /\ pinned \in [Services -> BOOLEAN]
    /\ fresh \subseteq Procs
    /\ keepAliveOps \in [Services -> Ops \cup {None}]
    /\ proc \in [Procs -> ProcState]
    /\ \A p \in Procs : ~At(p, "idle") => Svc(p) \in Services
    /\ \A h \in Procs : At(h, "send") => proc[h].ch \in Ops

Init ==
    /\ replicas \in [Services -> 1 .. MaxReplicas]
    /\ pinned = [s \in Services |-> FALSE]
    /\ fresh = {}
    /\ keepAliveOps = [s \in Services |-> None]
    /\ proc = [p \in Procs |-> Idle]

(***************************************************************************)
(* The Docker API.  ServiceUpdate succeeds only if nobody has updated the  *)
(* service since the caller inspected it.  If calls may fail, one may fail *)
(* without effect, or take effect and still return an error.               *)
(***************************************************************************)
ServiceInspectWithRaw(p) == fresh' = fresh \cup {p}

ServiceUpdate(p) ==
    /\ p \in fresh
    /\ fresh' = {q \in fresh : Svc(q) # Svc(p)}

(***************************************************************************)
(* ChangeServiceReplicas.                                                  *)
(***************************************************************************)
Request(h, s, d) ==
    /\ At(h, "idle")
    /\ s \in Watches[h]
    /\ Begin(h, d, s, 0)
    /\ UNCHANGED <<replicas, pinned, fresh, keepAliveOps>>

\* At the bound MaxReplicas the model turns an "over" request away.
AtBound(h) == At(h, "over") /\ replicas[Svc(h)] >= MaxReplicas

\* The inspection fails, the service is not replicated, or the direction is
\* neither "over" nor "under": the request returns an error.
Reject(h) ==
    /\ proc[h].pc \in Directions
    /\ MayFail \/ At(h, "invalid") \/ AtBound(h)
    /\ Return(h)
    /\ UNCHANGED <<replicas, pinned, keepAliveOps>>

\* updateServiceConstraints calls the API only for a service with the label.
ConstraintChanges(s, n) == s \in Labelled /\ n = 1

InspectOver(h) ==
    LET s == Svc(h) IN
    /\ At(h, "over")
    /\ replicas[s] < MaxReplicas
    /\ \/ /\ ConstraintChanges(s, replicas[s])
          /\ ServiceInspectWithRaw(h)
          /\ Begin(h, "unpin", s, replicas[s] + 1)
       \/ /\ ~ConstraintChanges(s, replicas[s])
          /\ Begin(h, "cancel", s, replicas[s] + 1)
          /\ UNCHANGED fresh
    /\ UNCHANGED <<replicas, pinned, keepAliveOps>>

\* Mutated: the floor of one replica is tested with >= instead of >.
InspectUnderFloor0(h) ==
    LET s == Svc(h) IN
    /\ At(h, "under")
    /\ \/ /\ replicas[s] >= 1
          /\ Begin(h, "scaleInspect", s, replicas[s] - 1)
       \/ /\ replicas[s] < 1
          /\ Begin(h, "arm", s, 0)
    /\ UNCHANGED <<replicas, pinned, fresh, keepAliveOps>>

InspectUnder(h) ==
    LET s == Svc(h) IN
    /\ At(h, "under")
    /\ \/ /\ replicas[s] > 1
          /\ ConstraintChanges(s, replicas[s] - 1)
          /\ ServiceInspectWithRaw(h)
          /\ Begin(h, "pin", s, replicas[s] - 1)
       \/ /\ replicas[s] > 1
          /\ ~ConstraintChanges(s, replicas[s] - 1)
          /\ Begin(h, "scaleInspect", s, replicas[s] - 1)
          /\ UNCHANGED fresh
       \/ /\ replicas[s] <= 1
          /\ Begin(h, "arm", s, 0)
          /\ UNCHANGED fresh
    /\ UNCHANGED <<replicas, pinned, keepAliveOps>>

\* updateServiceConstraints writes the specification it was given with the
\* Version it was given.  An error ends the request, even if the update was made.
UpdateConstraints(h) ==
    /\ proc[h].pc \in {"unpin", "pin"}
    /\ \/ /\ ServiceUpdate(h)
          /\ pinned' = [pinned EXCEPT ![Svc(h)] = At(h, "pin")]
          /\ Goto(h, IF At(h, "pin") THEN "scaleInspect" ELSE "cancel")
       \/ /\ MayFail
          /\ ServiceUpdate(h)
          /\ pinned' = [pinned EXCEPT ![Svc(h)] = At(h, "pin")]
          /\ proc' = [proc EXCEPT ![h] = Idle]
       \/ /\ MayFail \/ h \notin fresh
          /\ Return(h)
          /\ UNCHANGED pinned
    /\ UNCHANGED <<replicas, keepAliveOps>>

\* Mutated: a scale-up that no longer looks for a keep-alive operation.
CancelSkipped(h) ==
    /\ At(h, "cancel")
    /\ Goto(h, "scaleInspect")
    /\ UNCHANGED <<replicas, pinned, fresh, keepAliveOps>>

\* Mutated: the channel is used without a test whether the entry exists.
CancelUnchecked(h) ==
    /\ At(h, "cancel")
    /\ proc' = [proc EXCEPT ![h].pc = "send", ![h].ch = keepAliveOps[Svc(h)]]
    /\ UNCHANGED <<replicas, pinned, fresh, keepAliveOps>>

\* Mutated: the entry is deleted before the send instead of after it.
CancelDeletesFirst(h) ==
    /\ At(h, "cancel")
    /\ \/ /\ keepAliveOps[Svc(h)] = None
          /\ Goto(h, "scaleInspect")
       \/ /\ keepAliveOps[Svc(h)] # None
          /\ proc' = [proc EXCEPT ![h].pc = "send", ![h].ch = keepAliveOps[Svc(h)]]
    /\ keepAliveOps' = [keepAliveOps EXCEPT ![Svc(h)] = None]
    /\ UNCHANGED <<replicas, pinned, fresh>>

Cancel(h) ==
    /\ At(h, "cancel")
    /\ \/ /\ keepAliveOps[Svc(h)] = None
          /\ Goto(h, "scaleInspect")
       \/ /\ keepAliveOps[Svc(h)] # None
          /\ proc' = [proc EXCEPT ![h].pc = "send", ![h].ch = keepAliveOps[Svc(h)]]
    /\ UNCHANGED <<replicas, pinned, fresh, keepAliveOps>>

\* keepAliveCh is unbuffered: the send completes together with the receive in
\* the goroutine's select, which then returns.  Without a receiver the handler
\* stays where it is.
Send(h) ==
    /\ At(h, "send")
    /\ At(proc[h].ch, "select")
    /\ proc' = [proc EXCEPT ![h].pc = "delete", ![h].ch = None,
                            ![proc[h].ch] = Idle]
    /\ UNCHANGED <<replicas, pinned, fresh, keepAliveOps>>

Delete(h) ==
    /\ At(h, "delete")
    /\ keepAliveOps' = [keepAliveOps EXCEPT ![Svc(h)] = None]
    /\ Goto(h, "scaleInspect")
    /\ UNCHANGED <<replicas, pinned, fresh>>

\* Mutated: an existing keep-alive operation no longer makes the request return.
ArmAlways(h) ==
    /\ At(h, "arm")
    /\ Goto(h, "store")
    /\ UNCHANGED <<replicas, pinned, fresh, keepAliveOps>>

Arm(h) ==
    /\ At(h, "arm")
    /\ \/ /\ keepAliveOps[Svc(h)] # None
          /\ Return(h)
       \/ /\ keepAliveOps[Svc(h)] = None
          /\ Goto(h, "store")
          /\ UNCHANGED fresh
    /\ UNCHANGED <<replicas, pinned, keepAliveOps>>

\* A channel that was never made, or that nothing refers to any more.
Unused(k) ==
    /\ At(k, "idle")
    /\ \A s \in Services : keepAliveOps[s] # k
    /\ \A h \in Handlers : proc[h].ch # k

Store(h) ==
    /\ At(h, "store")
    /\ \E k \in Ops :
        /\ Unused(k)
        /\ keepAliveOps' = [keepAliveOps EXCEPT ![Svc(h)] = k]
        /\ proc' = [proc EXCEPT ![h] = Idle, ![k] = Waiting(Svc(h))]
    /\ fresh' = fresh \ {h}
    /\ UNCHANGED <<replicas, pinned>>

(***************************************************************************)
(* keepAliveAndScaleDown.  Every early return leaves the entry of          *)
(* keepAliveOps in place.                                                  *)
(***************************************************************************)
Expire(k) ==
    /\ At(k, "select")
    /\ \/ /\ keepAliveOps[Svc(k)] # None
          /\ Goto(k, "listen")
          /\ UNCHANGED fresh
       \/ /\ keepAliveOps[Svc(k)] = None
          /\ Return(k)
    /\ UNCHANGED <<replicas, pinned, keepAliveOps>>

ListenOk(k) ==
    /\ At(k, "listen")
    /\ Goto(k, "notify")
    /\ UNCHANGED <<replicas, pinned, fresh, keepAliveOps>>

NotifyOk(k) ==
    /\ At(k, "notify")
    /\ Begin(k, "scaleInspect", Svc(k), 0)
    /\ UNCHANGED <<replicas, pinned, fresh, keepAliveOps>>

\* GetPublishedPort, ListenOnPort or a listen request returns an error.
GiveUp(k) ==
    /\ MayFail
    /\ proc[k].pc \in {"listen", "notify"}
    /\ Return(k)
    /\ UNCHANGED <<replicas, pinned, keepAliveOps>>

Forget(k) ==
    /\ At(k, "forget")
    /\ keepAliveOps' = [keepAliveOps EXCEPT ![Svc(k)] = None]
    /\ Return(k)
    /\ UNCHANGED <<replicas, pinned>>

(***************************************************************************)
(* scaleTo, called by a handler, by a keep-alive goroutine with 0 and by   *)
(* the port listener (through ScaleTo) with 1.  It inspects the service    *)
(* once more, so the Version it presents says nothing about the count the  *)
(* caller computed its target from.                                        *)
(***************************************************************************)
Wake(s) ==
    /\ At(Listener, "idle")
    /\ Begin(Listener, "scaleInspect", s, 1)
    /\ UNCHANGED <<replicas, pinned, fresh, keepAliveOps>>

ScaleInspect(p) ==
    /\ At(p, "scaleInspect")
    /\ ServiceInspectWithRaw(p)
    /\ Goto(p, "scaleUpdate")
    /\ UNCHANGED <<replicas, pinned, keepAliveOps>>

\* A keep-alive operation that gets an error returns before it deletes its entry,
\* also when the service has been scaled to zero.
ScaleUpdate(p) ==
    /\ At(p, "scaleUpdate")
    /\ ServiceUpdate(p)
    /\ replicas' = [replicas EXCEPT ![Svc(p)] = proc[p].want]
    /\ \/ p \in Ops /\ Goto(p, "forget")
       \/ (p \in Ops => MayFail) /\ proc' = [proc EXCEPT ![p] = Idle]
    /\ UNCHANGED <<pinned, keepAliveOps>>

\* Mutated: a failed scaleTo is tried again without end.
ScaleRetries(p) ==
    /\ proc[p].pc \in {"scaleInspect", "scaleUpdate"}
    /\ Goto(p, "scaleInspect")
    /\ UNCHANGED <<replicas, pinned, fresh, keepAliveOps>>

\* Either call returns an error and changes nothing: the API failed, or the
\* Version is out of date.
ScaleFails(p) ==
    /\ proc[p].pc \in {"scaleInspect", "scaleUpdate"}
    /\ MayFail \/ (At(p, "scaleUpdate") /\ p \notin fresh)
    /\ Return(p)
    /\ UNCHANGED <<replicas, pinned, keepAliveOps>>

\* The process dies and is started again: the map and every goroutine are gone.
Restart ==
    /\ MayFail
    /\ keepAliveOps' = [s \in Services |-> None]
    /\ proc' = [p \in Procs |-> Idle]
    /\ fresh' = {}
    /\ UNCHANGED <<replicas, pinned>>

(***************************************************************************)
(* The specification.                                                      *)
(***************************************************************************)
HandlerStep(h) ==
    \/ Reject(h) \/ InspectOver(h) \/ InspectUnder(h) \/ UpdateConstraints(h)
    \/ Cancel(h) \/ Send(h) \/ Delete(h) \/ Arm(h) \/ Store(h)

OpStep(k) == Expire(k) \/ ListenOk(k) \/ NotifyOk(k) \/ GiveUp(k) \/ Forget(k)

ScaleToStep(p) == ScaleInspect(p) \/ ScaleUpdate(p) \/ ScaleFails(p)

Next ==
    \/ \E h \in Handlers, s \in Services, d \in Directions : Request(h, s, d)
    \/ \E h \in Handlers : HandlerStep(h)
    \/ \E k \in Ops : OpStep(k)
    \/ \E p \in Procs : ScaleToStep(p)
    \/ \E s \in Services : Wake(s)
    \/ Restart

Spec == Init /\ [][Next]_vars

\* The Go scheduler runs every goroutine that can run, the keep-alive timer
\* fires, and API and HTTP calls return, with or without an error.  Requests,
\* packets and restarts come from outside and are not promised.
Fairness ==
    /\ \A h \in Handlers : WF_vars(HandlerStep(h))
    /\ \A k \in Ops : WF_vars(OpStep(k))
    /\ \A p \in Procs : WF_vars(ScaleToStep(p))

FairSpec == Spec /\ Fairness

(***************************************************************************)
(* Properties.                                                             *)
(***************************************************************************)
\* The keep-alive operations that have asked every node to listen and are about
\* to set their service to zero.
Announced == {s \in Services : \E k \in Ops :
                /\ Svc(k) = s
                /\ proc[k].pc \in {"scaleInspect", "scaleUpdate"}}

Contract == INSTANCE ReplicaContract WITH announced <- Announced

\* However requests, keep-alive operations, wake-ups, failures and restarts
\* interleave, the manager implements ReplicaContract: a count becomes zero only
\* by scaleTo(s, 0) of a keep-alive operation that got through its listen
\* requests, never by an "under" request or by an update with a stale target.
ImplementsContract == Contract!Spec

Alive(k) == ~At(k, "idle")

\* keepAliveAndScaleDown takes a service "from 1 to 0" (build/config.yaml): the
\* count it overwrites with zero is never two or more, although scaleTo(s, 0)
\* does not look at the count.
ZeroOnlyFromOne ==
    [][\A s \in Services : replicas'[s] = 0 => replicas[s] <= 1]_vars

\* ChangeServiceReplicas ignores an "under" request while a keep-alive operation
\* exists, so a service never has two keep-alive goroutines running at a time.
OneKeepAlivePerService ==
    \A k1, k2 \in Ops : k1 # k2 /\ Alive(k1) /\ Alive(k2) => Svc(k1) # Svc(k2)

\* A keep-alive goroutine is never out of reach of the next scale-up: while it
\* can still be cancelled, the entry of its service in keepAliveOps is its own
\* channel, so "over" cancels it and no other.
KeepAliveCancellable ==
    \A k \in Ops : At(k, "select") => keepAliveOps[Svc(k)] = k

\* The send on keepAliveCh is the only place where a request can wait without
\* end: a running request always returns, or comes to that send.
RequestReturnsOrSends ==
    \A h \in Handlers : ~At(h, "idle") ~> proc[h].pc \in {"idle", "send"}

\* Every keep-alive goroutine ends: the timer or a cancellation takes it out of
\* the select, and nothing it does afterwards can hold it up for ever.
KeepAliveEnds ==
    \A k \in Ops : Alive(k) ~> At(k, "idle")

\* "Cancel keep-alive operation if exists": a scale-up that finds a keep-alive
\* operation gets past the cancellation and goes on to scale the service.
CancellationCompletes ==
    \A h \in Handlers : At(h, "send") ~> ~At(h, "send")

(***************************************************************************)
(* Inductive strengthenings, used by the proofs.                           *)
(***************************************************************************)
ScaleLabels == {"scaleInspect", "scaleUpdate"}

\* What each kind of goroutine asks scaleTo for: a keep-alive operation for zero,
\* the port listener for one, a handler for one or more.
Targets ==
    /\ \A k \in Ops : /\ proc[k].pc \in {"idle", "select", "listen", "notify", "forget"}
                                         \cup ScaleLabels
                      /\ proc[k].want = 0
    /\ proc[Listener].pc \in ScaleLabels => proc[Listener].want = 1
    /\ \A h \in Handlers :
        proc[h].pc \in {"unpin", "pin", "cancel", "send", "delete"} \cup ScaleLabels =>
            proc[h].want >= 1

\* Requests for one service never overlap: each has a handler of its own.
Serial == \A h1, h2 \in Handlers : h1 # h2 => Watches[h1] \cap Watches[h2] = {}

\* A handler serves only the services it watches.
OwnRequests == \A h \in Handlers : ~At(h, "idle") => Svc(h) \in Watches[h]

\* A running keep-alive operation and the entry of its service are one.
EntryIsAlive ==
    \A k \in Ops : Alive(k) =>
        \A s \in Services : keepAliveOps[s] = k <=> s = Svc(k)

NoOperation(s) == \A k \in Ops : Alive(k) => Svc(k) # s

\* What a handler knows of its service at each label, since nobody else serves it.
Knows(h) ==
    /\ proc[h].pc \in {"arm", "store"} => replicas[Svc(h)] <= 1
    /\ At(h, "store") => keepAliveOps[Svc(h)] = None
    /\ At(h, "send") /\ Alive(proc[h].ch) => Svc(proc[h].ch) = Svc(h)
    /\ proc[h].pc \in {"pin", "delete"} \cup ScaleLabels => NoOperation(Svc(h))

\* A service is at most at one replica while a keep-alive operation runs for it.
KeptAliveAtOne == \A k \in Ops : Alive(k) => replicas[Svc(k)] <= 1

SerialInv ==
    /\ OwnRequests
    /\ EntryIsAlive
    /\ \A h \in Handlers : Knows(h)
    /\ KeptAliveAtOne
=============================================================================
