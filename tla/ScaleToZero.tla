----------------------------- MODULE ScaleToZero -----------------------------
(***************************************************************************)
(* Scaling to zero and waking up again, across the nodes of the swarm:     *)
(* the replica manager of ScaleManager, the listen and remove requests of  *)
(* server/server.go, and the event loop of each node's port listener       *)
(* (bpf_port_listen/listener.go).                                          *)
(*                                                                         *)
(* Before keepAliveAndScaleDown sets a service to zero, it registers the   *)
(* service's port on the manager and asks the other nodes, one by one, to  *)
(* do the same.  A node that sees a packet for a registered port takes the *)
(* registration back, asks the others to do the same, and has the service  *)
(* scaled up: ScaleTo(s, 1) on the manager, an "over" request from a       *)
(* worker.  Registering and removing a port are single steps here, and a   *)
(* service stands for its published port.                                  *)
(***************************************************************************)
EXTENDS ScaleManager

CONSTANTS
    Nodes,      \* the nodes of the swarm
    Manager     \* the node whose autoscaler is the manager

ASSUME NodesAssumption ==
    /\ Manager \in Nodes
    /\ None \notin Nodes \cup Procs

VARIABLES
    listening,  \* listening[n]: services registered with the listener of node n
    unasked,    \* unasked[k]: nodes that operation k has still to ask to listen
    wake,       \* wake[n]: what the event loop of node n is doing
    missed      \* history: services whose wake-up was overtaken or lost

wakeVars  == <<listening, unasked, wake, missed>>
swarmVars == <<vars, wakeVars>>

\* step "remove": remove requests to the nodes in left are still to be sent;
\* step "scale": goroutine by of the manager scales the service for this node.
WakeState == [step : {"none", "remove", "scale"},
              svc  : Services \cup {None},
              left : SUBSET Nodes,
              by   : Handlers \cup {Listener, None}]

NoWake == [step |-> "none", svc |-> None, left |-> {}, by |-> None]

SwarmTypeOK ==
    /\ TypeOK
    /\ listening \in [Nodes -> SUBSET Services]
    /\ unasked \in [Ops -> SUBSET (Nodes \ {Manager})]
    /\ wake \in [Nodes -> WakeState]
    /\ missed \subseteq Services

SwarmInit ==
    /\ Init
    /\ listening = [n \in Nodes |-> {}]
    /\ unasked = [k \in Ops |-> {}]
    /\ wake = [n \in Nodes |-> NoWake]
    /\ missed = {}

\* The nodes in a node's list: the manager leaves itself out, but every worker
\* is in the list of every node, its own too.
OtherNodes(n) == IF n = Manager THEN Nodes \ {n} ELSE Nodes

Register(n, s)   == listening' = [listening EXCEPT ![n] = @ \cup {s}]
Unregister(n, s) == listening' = [listening EXCEPT ![n] = @ \ {s}]

(***************************************************************************)
(* keepAliveAndScaleDown: ListenOnPort and SendListenRequestToAllNodes.    *)
(***************************************************************************)
\* Mutated: the manager leaves the listening to the other nodes.
ListenHereSkipped(k) ==
    /\ ListenOk(k)
    /\ unasked' = [unasked EXCEPT ![k] = Nodes \ {Manager}]
    /\ missed' = missed \ {Svc(k)}
    /\ UNCHANGED <<listening, wake>>

\* Mutated: the manager is one of the nodes it sends listen requests to.
ListenHereAndAskSelf(k) ==
    /\ ListenOk(k)
    /\ Register(Manager, Svc(k))
    /\ unasked' = [unasked EXCEPT ![k] = Nodes]
    /\ missed' = missed \ {Svc(k)}
    /\ UNCHANGED wake

ListenHere(k) ==
    /\ ListenOk(k)
    /\ Register(Manager, Svc(k))
    /\ unasked' = [unasked EXCEPT ![k] = OtherNodes(Manager)]
    /\ missed' = missed \ {Svc(k)}
    /\ UNCHANGED wake

\* Only the transport's error is looked at: a node that answers with status 500,
\* because its port map is full, counts as one that listens.
AskNode(k, n) ==
    /\ At(k, "notify")
    /\ n \in unasked[k]
    /\ unasked' = [unasked EXCEPT ![k] = @ \ {n}]
    /\ \/ Register(n, Svc(k))
       \/ MayFail /\ UNCHANGED listening
    /\ UNCHANGED <<vars, wake, missed>>

AllAsked(k) ==
    /\ unasked[k] = {}
    /\ NotifyOk(k)
    /\ UNCHANGED wakeVars

\* GetPublishedPort or ListenOnPort fails, or a listen request does, perhaps
\* after the node has acted on it: nobody takes the registrations back.
ListenFails(k) ==
    /\ GiveUp(k)
    /\ unasked' = [unasked EXCEPT ![k] = {}]
    /\ \/ At(k, "listen") /\ UNCHANGED listening
       \/ /\ At(k, "notify")
          /\ \E n \in unasked[k] : Register(n, Svc(k)) \/ UNCHANGED listening
    /\ UNCHANGED <<wake, missed>>

(***************************************************************************)
(* listenForEvents.                                                        *)
(***************************************************************************)
\* The manager's registration of s is taken back although an operation that counts
\* on it is about to set s to zero.
Overtaken(m, s) ==
    IF m = Manager /\ \E k \in Ops :
        Svc(k) = s /\ proc[k].pc \in {"notify", "scaleInspect", "scaleUpdate"}
    THEN {s} ELSE {}

\* A packet for a registered port: the loop calls RemovePort on its own node.
Packet(n, s) ==
    /\ wake[n].step = "none"
    /\ s \in listening[n]
    /\ Unregister(n, s)
    /\ wake' = [wake EXCEPT ![n] = [step |-> "remove", svc |-> s,
                                    left |-> OtherNodes(n), by |-> None]]
    /\ missed' = missed \cup Overtaken(n, s)
    /\ UNCHANGED <<vars, unasked>>

\* SendRemoveRequest to one node; a port that is not registered there is an
\* error of that node, which the sender does not look at.
RemoveAt(n, m) ==
    /\ wake[n].step = "remove"
    /\ m \in wake[n].left
    /\ Unregister(m, wake[n].svc)
    /\ wake' = [wake EXCEPT ![n].left = @ \ {m}]
    /\ missed' = missed \cup Overtaken(m, wake[n].svc)
    /\ UNCHANGED <<vars, unasked>>

\* A remove request is lost: SendRemoveRequestToAllNodes returns without asking
\* the rest, and the loop goes on.
RemoveFails(n) ==
    /\ MayFail
    /\ wake[n].step = "remove"
    /\ \E m \in wake[n].left :
        \/ /\ Unregister(m, wake[n].svc)
           /\ missed' = missed \cup Overtaken(m, wake[n].svc)
        \/ UNCHANGED <<listening, missed>>
    /\ wake' = [wake EXCEPT ![n].left = {}]
    /\ UNCHANGED <<vars, unasked>>

Removed(n) == wake[n].step = "remove" /\ wake[n].left = {}

\* A handler that runs the request of a worker serves no other one.
Taken(h) == \E n \in Nodes : wake[n].by = h

\* Mutated: the manager asks for one replica more, as the workers do.
ScaleUpHereOver(n) ==
    /\ n = Manager
    /\ Removed(n)
    /\ \E h \in Handlers :
        /\ ~Taken(h)
        /\ Request(h, wake[n].svc, "over")
        /\ wake' = [wake EXCEPT ![n].step = "scale", ![n].by = h]
    /\ UNCHANGED <<listening, unasked, missed>>

\* The manager calls ScaleTo(s, 1) and does not look at its result.
ScaleUpHere(n) ==
    /\ n = Manager
    /\ Removed(n)
    /\ Wake(wake[n].svc)
    /\ wake' = [wake EXCEPT ![n].step = "scale", ![n].by = Listener]
    /\ UNCHANGED <<listening, unasked, missed>>

\* A worker posts "over" to the manager and waits for the answer.
SendScaleRequest(n, h) ==
    /\ n # Manager
    /\ Removed(n)
    /\ ~Taken(h)
    /\ Request(h, wake[n].svc, "over")
    /\ wake' = [wake EXCEPT ![n].step = "scale", ![n].by = h]
    /\ UNCHANGED <<listening, unasked, missed>>

SendScaleRequestFails(n) ==
    /\ MayFail
    /\ n # Manager
    /\ Removed(n)
    /\ missed' = missed \cup {wake[n].svc}
    /\ wake' = [wake EXCEPT ![n] = NoWake]
    /\ UNCHANGED <<vars, listening, unasked>>

\* The call returns, whatever its result, and the loop reads the next event.
ScaleReturns(n) ==
    /\ wake[n].step = "scale"
    /\ At(wake[n].by, "idle")
    /\ wake' = [wake EXCEPT ![n] = NoWake]
    /\ UNCHANGED <<vars, listening, unasked, missed>>

(***************************************************************************)
(* The rest of the manager, and restarts.                                  *)
(***************************************************************************)
\* A request of a monitor, served by a handler that no worker waits for.
MonitorRequest(h, s, d) ==
    /\ ~Taken(h)
    /\ Request(h, s, d)
    /\ UNCHANGED wakeVars

\* The wake-ups that a step ends with the service still at zero: scaleTo or a call
\* before it returned an error, and nobody tries again.
LostWakes ==
    {s \in Services : \E n \in Nodes :
        /\ wake[n].step = "scale"
        /\ wake[n].svc = s
        /\ proc[wake[n].by].pc # "idle"
        /\ proc'[wake[n].by].pc = "idle"
        /\ replicas'[s] = 0}

\* Every other step of the manager's goroutines, as in ScaleManager.
ManagerStep ==
    /\ \/ \E h \in Handlers : HandlerStep(h)
       \/ \E k \in Ops : Expire(k) \/ Forget(k)
       \/ \E p \in Procs : ScaleToStep(p)
    /\ missed' = missed \cup LostWakes
    /\ UNCHANGED <<listening, unasked, wake>>

\* The wake-ups that end with the process of node n: its own, and with the
\* manager also those of the workers that wait for its answer.
WakesOf(n) ==
    {s \in Services : \E m \in Nodes :
        /\ wake[m].step # "none" /\ wake[m].svc = s
        /\ m = n \/ (n = Manager /\ wake[m].step = "scale")}

\* A restart of an autoscaler process: nothing registers the ports of services
\* at zero again.  A worker that waits for the manager's answer gets an error.
NodeRestart(n) ==
    /\ MayFail
    /\ listening' = [listening EXCEPT ![n] = {}]
    /\ missed' = missed \cup WakesOf(n) \cup (IF n = Manager THEN listening[n] ELSE {})
    /\ \/ /\ n = Manager
          /\ Restart
          /\ unasked' = [k \in Ops |-> {}]
          /\ wake' = [m \in Nodes |-> IF m = n \/ wake[m].step = "scale"
                                      THEN NoWake ELSE wake[m]]
       \/ /\ n # Manager
          /\ wake' = [wake EXCEPT ![n] = NoWake]
          /\ UNCHANGED <<vars, unasked>>

(***************************************************************************)
(* The specification.                                                      *)
(***************************************************************************)
ListenStep(k) ==
    \/ ListenHere(k) \/ AllAsked(k) \/ ListenFails(k)
    \/ \E n \in Nodes : AskNode(k, n)

LoopStep(n) ==
    \/ \E m \in Nodes : RemoveAt(n, m)
    \/ RemoveFails(n) \/ ScaleUpHere(n) \/ SendScaleRequestFails(n) \/ ScaleReturns(n)
    \/ \E h \in Handlers : SendScaleRequest(n, h)

SwarmNext ==
    \/ \E k \in Ops : ListenStep(k)
    \/ \E n \in Nodes : LoopStep(n) \/ NodeRestart(n)
    \/ \E n \in Nodes, s \in Services : Packet(n, s)
    \/ \E h \in Handlers, s \in Services, d \in {"over", "under"} : MonitorRequest(h, s, d)
    \/ ManagerStep

SwarmSpec == SwarmInit /\ [][SwarmNext]_swarmVars

\* As in ScaleManager: goroutines that can run do, and calls return.
SwarmFairSpec ==
    /\ SwarmSpec
    /\ \A k \in Ops : WF_swarmVars(ListenStep(k))
    /\ \A n \in Nodes : WF_swarmVars(LoopStep(n))
    /\ \A p \in Procs : WF_swarmVars(ScaleToStep(p) /\ ManagerStep)
    /\ \A h \in Handlers : WF_swarmVars(HandlerStep(h) /\ ManagerStep)
    /\ \A k \in Ops : WF_swarmVars((Expire(k) \/ Forget(k)) /\ ManagerStep)

(***************************************************************************)
(* Properties.                                                             *)
(***************************************************************************)
\* A node is on its way to have s scaled up.
Waking(s) == \E n \in Nodes : wake[n].step # "none" /\ wake[n].svc = s

\* A service at zero that nothing has overtaken can be woken: the manager still
\* listens on its port, or some node is waking it.  keepAliveAndScaleDown gets
\* this from its order: the listeners first, the replica count last.
ZeroStaysWakeable ==
    \A s \in Services : replicas[s] = 0 /\ s \notin missed =>
        s \in listening[Manager] \/ Waking(s)

\* "When scaled to zero, will use BPF to wake back up and scale to 1": when all
\* goroutines have come to rest, some node listens for a service at zero.
ZeroIsWakeable ==
    (\A p \in Procs : At(p, "idle")) /\ (\A n \in Nodes : wake[n].step = "none") =>
        \A s \in Services : replicas[s] = 0 => \E n \in Nodes : s \in listening[n]

\* The manager's event loop calls scaleTo directly and waits for no channel: it
\* always comes back to read the next packet event.
ManagerLoopReturns == wake[Manager].step # "none" ~> wake[Manager].step = "none"
=============================================================================
