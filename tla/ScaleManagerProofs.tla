------------------------- MODULE ScaleManagerProofs -------------------------
(***************************************************************************)
(* Theorems about ScaleManager, for every value of its constants.          *)
(***************************************************************************)
EXTENDS ScaleManager, TLAPS

(***************************************************************************)
(* Type correctness.                                                       *)
(***************************************************************************)
LEMMA InitTypeOK == Init => TypeOK
BY ConstantsAssumption DEF Init, TypeOK, Idle, ProcState, Labels, Directions, Procs, At, Svc

\* A record built by Begin, or by moving to another label, is a goroutine state.
LEMMA MoveTyped ==
    ASSUME TypeOK, NEW p \in Procs, proc[p].pc # "idle",
           NEW l \in Labels \ {"idle", "send"},
           Goto(p, l)
    PROVE  /\ proc' \in [Procs -> ProcState]
           /\ \A q \in Procs : ~At(q, "idle")' => Svc(q)' \in Services
           /\ \A q \in Procs : At(q, "send")' => proc'[q].ch \in Ops
BY DEF TypeOK, Goto, ProcState, At, Svc

LEMMA BeginTyped ==
    ASSUME TypeOK, NEW p \in Procs, NEW l \in Labels \ {"idle", "send"},
           NEW s \in Services, NEW n \in Nat, Begin(p, l, s, n)
    PROVE  /\ proc' \in [Procs -> ProcState]
           /\ \A q \in Procs : ~At(q, "idle")' => Svc(q)' \in Services
           /\ \A q \in Procs : At(q, "send")' => proc'[q].ch \in Ops
BY DEF TypeOK, Begin, ProcState, At, Svc

LEMMA ReturnTyped ==
    ASSUME TypeOK, NEW p \in Procs, proc' = [proc EXCEPT ![p] = Idle]
    PROVE  /\ proc' \in [Procs -> ProcState]
           /\ \A q \in Procs : ~At(q, "idle")' => Svc(q)' \in Services
           /\ \A q \in Procs : At(q, "send")' => proc'[q].ch \in Ops
BY DEF TypeOK, Idle, ProcState, Labels, At, Svc

LEMMA NextTypeOK == TypeOK /\ [Next]_vars => TypeOK'
<1> SUFFICES ASSUME TypeOK, [Next]_vars PROVE TypeOK'
    OBVIOUS
<1> USE ConstantsAssumption
<1>h. Handlers \subseteq Procs /\ Ops \subseteq Procs /\ Listener \in Procs
    BY DEF Procs
<1>l. Directions \cup {"unpin", "pin", "cancel", "delete", "arm", "store", "select",
          "listen", "notify", "scaleInspect", "scaleUpdate", "forget"}
          \subseteq Labels \ {"idle", "send"}
    BY DEF Labels, Directions
<1>1. ASSUME NEW h \in Handlers, NEW s \in Services, NEW d \in Directions, Request(h, s, d)
      PROVE  TypeOK'
    BY <1>1, <1>h, <1>l, BeginTyped DEF Request, TypeOK
<1>2. ASSUME NEW h \in Handlers, Reject(h) PROVE TypeOK'
    BY <1>2, <1>h, ReturnTyped DEF Reject, Return, TypeOK
<1>3. ASSUME NEW h \in Handlers, InspectOver(h) PROVE TypeOK'
  <2>1. Svc(h) \in Services /\ replicas[Svc(h)] + 1 \in Nat
      BY <1>3, <1>h DEF InspectOver, TypeOK, At
  <2> QED
      BY <1>3, <1>h, <1>l, <2>1, BeginTyped DEF InspectOver, ServiceInspectWithRaw, TypeOK
<1>4. ASSUME NEW h \in Handlers, InspectUnder(h) PROVE TypeOK'
  <2>1. Svc(h) \in Services
      BY <1>4, <1>h DEF InspectUnder, TypeOK, At
  <2>2. replicas[Svc(h)] > 1 => replicas[Svc(h)] - 1 \in Nat
      BY <2>1 DEF TypeOK
  <2> QED
      BY <1>4, <1>h, <1>l, <2>1, <2>2, BeginTyped
      DEF InspectUnder, ServiceInspectWithRaw, TypeOK
<1>5. ASSUME NEW h \in Handlers, UpdateConstraints(h) PROVE TypeOK'
  <2>1. CASE /\ ServiceUpdate(h)
             /\ pinned' = [pinned EXCEPT ![Svc(h)] = At(h, "pin")]
             /\ Goto(h, IF At(h, "pin") THEN "scaleInspect" ELSE "cancel")
    <3>1. proc[h].pc # "idle"
        BY <1>5 DEF UpdateConstraints
    <3>2. (IF At(h, "pin") THEN "scaleInspect" ELSE "cancel") \in Labels \ {"idle", "send"}
        BY <1>l
    <3> QED
        BY <1>5, <1>h, <2>1, <3>1, <3>2, MoveTyped
        DEF UpdateConstraints, ServiceUpdate, TypeOK, At
  <2>2. CASE Return(h) /\ UNCHANGED pinned
      BY <1>5, <1>h, <2>2, ReturnTyped DEF UpdateConstraints, Return, TypeOK
  <2>3. CASE /\ ServiceUpdate(h)
             /\ pinned' = [pinned EXCEPT ![Svc(h)] = At(h, "pin")]
             /\ proc' = [proc EXCEPT ![h] = Idle]
      BY <1>5, <1>h, <2>3, ReturnTyped DEF UpdateConstraints, ServiceUpdate, TypeOK, At
  <2> QED
      BY <1>5, <2>1, <2>2, <2>3 DEF UpdateConstraints
<1>6. ASSUME NEW h \in Handlers, Cancel(h) PROVE TypeOK'
  <2>1. CASE Goto(h, "scaleInspect")
      BY <1>6, <1>h, <1>l, <2>1, MoveTyped DEF Cancel, TypeOK, At
  <2>2. CASE /\ keepAliveOps[Svc(h)] # None
             /\ proc' = [proc EXCEPT ![h].pc = "send", ![h].ch = keepAliveOps[Svc(h)]]
    <3>1. keepAliveOps[Svc(h)] \in Ops /\ "send" \in Labels
        BY <1>6, <1>h, <2>2 DEF Cancel, TypeOK, At, Labels
    <3> QED
        BY <1>6, <1>h, <2>2, <3>1 DEF Cancel, TypeOK, At, Svc, ProcState
  <2> QED
      BY <1>6, <2>1, <2>2 DEF Cancel
<1>7. ASSUME NEW h \in Handlers, Send(h) PROVE TypeOK'
  <2>1. proc[h].ch \in Ops /\ h # proc[h].ch /\ "delete" \in Labels /\ "idle" \in Labels
      BY <1>7, <1>h DEF Send, TypeOK, At, Labels
  <2> QED
      BY <1>7, <1>h, <2>1 DEF Send, TypeOK, At, Svc, ProcState, Idle
<1>8. ASSUME NEW h \in Handlers, Delete(h) PROVE TypeOK'
    BY <1>8, <1>h, <1>l, MoveTyped DEF Delete, TypeOK, At
<1>9. ASSUME NEW h \in Handlers, Arm(h) PROVE TypeOK'
  <2>1. CASE Return(h)
      BY <1>9, <1>h, <2>1, ReturnTyped DEF Arm, Return, TypeOK
  <2>2. CASE Goto(h, "store") /\ UNCHANGED fresh
      BY <1>9, <1>h, <1>l, <2>2, MoveTyped DEF Arm, TypeOK, At
  <2> QED
      BY <1>9, <2>1, <2>2 DEF Arm
<1>10. ASSUME NEW h \in Handlers, Store(h) PROVE TypeOK'
  <2>1. Svc(h) \in Services /\ "select" \in Labels /\ "idle" \in Labels
      BY <1>10, <1>h DEF Store, TypeOK, At, Labels
  <2>2. PICK k \in Ops :
            /\ keepAliveOps' = [keepAliveOps EXCEPT ![Svc(h)] = k]
            /\ proc' = [proc EXCEPT ![h] = Idle, ![k] = Waiting(Svc(h))]
      BY <1>10 DEF Store
  <2>3. keepAliveOps' \in [Services -> Ops \cup {None}]
      BY <2>1, <2>2 DEF TypeOK
  <2>4. Idle \in ProcState /\ Waiting(Svc(h)) \in ProcState
      BY <2>1 DEF Idle, Waiting, ProcState
  <2>5. /\ proc' \in [Procs -> ProcState]
        /\ \A q \in Procs : proc'[q] \in {proc[q], Idle, Waiting(Svc(h))}
      BY <1>h, <2>2, <2>4 DEF TypeOK
  <2> QED
      BY <1>10, <2>1, <2>3, <2>5 DEF Store, TypeOK, At, Svc, Idle, Waiting
<1>11. ASSUME NEW k \in Ops, Expire(k) PROVE TypeOK'
  <2>1. CASE Goto(k, "listen") /\ UNCHANGED fresh
      BY <1>11, <1>h, <1>l, <2>1, MoveTyped DEF Expire, TypeOK, At
  <2>2. CASE Return(k)
      BY <1>11, <1>h, <2>2, ReturnTyped DEF Expire, Return, TypeOK
  <2> QED
      BY <1>11, <2>1, <2>2 DEF Expire
<1>12. ASSUME NEW k \in Ops, ListenOk(k) PROVE TypeOK'
    BY <1>12, <1>h, <1>l, MoveTyped DEF ListenOk, TypeOK, At
<1>13. ASSUME NEW k \in Ops, NotifyOk(k) PROVE TypeOK'
  <2>1. Svc(k) \in Services
      BY <1>13, <1>h DEF NotifyOk, TypeOK, At
  <2> QED
      BY <1>13, <1>h, <1>l, <2>1, BeginTyped DEF NotifyOk, TypeOK
<1>14. ASSUME NEW k \in Ops, GiveUp(k) PROVE TypeOK'
    BY <1>14, <1>h, ReturnTyped DEF GiveUp, Return, TypeOK
<1>15. ASSUME NEW k \in Ops, Forget(k) PROVE TypeOK'
    BY <1>15, <1>h, ReturnTyped DEF Forget, Return, TypeOK
<1>16. ASSUME NEW p \in Procs, ScaleInspect(p) PROVE TypeOK'
    BY <1>16, <1>l, MoveTyped DEF ScaleInspect, ServiceInspectWithRaw, TypeOK, At
<1>17. ASSUME NEW p \in Procs, ScaleUpdate(p) PROVE TypeOK'
  <2>1. proc[p].want \in Nat /\ Svc(p) \in Services /\ proc[p].pc # "idle"
      BY <1>17 DEF ScaleUpdate, TypeOK, ProcState, At
  <2>2. replicas' \in [Services -> Nat] /\ fresh' \subseteq Procs
      BY <1>17, <2>1 DEF ScaleUpdate, ServiceUpdate, TypeOK
  <2>3. CASE Goto(p, "forget")
      BY <1>17, <1>l, <2>1, <2>2, <2>3, MoveTyped DEF ScaleUpdate, TypeOK
  <2>4. CASE proc' = [proc EXCEPT ![p] = Idle]
      BY <1>17, <2>2, <2>4, ReturnTyped DEF ScaleUpdate, TypeOK
  <2> QED
      BY <1>17, <2>3, <2>4 DEF ScaleUpdate
<1>18. ASSUME NEW p \in Procs, ScaleFails(p) PROVE TypeOK'
    BY <1>18, ReturnTyped DEF ScaleFails, Return, TypeOK
<1>19. ASSUME NEW s \in Services, Wake(s) PROVE TypeOK'
    BY <1>19, <1>h, <1>l, BeginTyped DEF Wake, TypeOK
<1>20. CASE Restart
    BY <1>20, InitTypeOK DEF Restart, TypeOK, Idle, ProcState, Labels, At, Svc
<1>21. CASE UNCHANGED vars
    BY <1>21 DEF vars, TypeOK, At, Svc
<1> QED
    BY <1>1, <1>2, <1>3, <1>4, <1>5, <1>6, <1>7, <1>8, <1>9, <1>10, <1>11, <1>12, <1>13,
       <1>14, <1>15, <1>16, <1>17, <1>18, <1>19, <1>20, <1>21
    DEF Next, HandlerStep, OpStep, ScaleToStep

\* Type correctness of the replica manager: in particular a handler that sends
\* on a keep-alive channel has a channel that was really made, never the nil one.
THEOREM TypeCorrect == Spec => []TypeOK
BY InitTypeOK, NextTypeOK, PTL DEF Spec

(***************************************************************************)
(* What the goroutines ask scaleTo for.                                    *)
(***************************************************************************)
LEMMA InitTargets == Init => Targets
BY DEF Init, Targets, ScaleLabels, Idle, Procs

\* The step of a handler that begins anew at a label with a target.
LEMMA HandlerTargets ==
    ASSUME TypeOK, Targets, NEW h \in Handlers, NEW l, NEW s, NEW n \in Nat,
           Begin(h, l, s, n),
           n >= 1 \/ l \notin {"unpin", "pin", "cancel", "send", "delete"} \cup ScaleLabels
    PROVE  Targets'
BY ConstantsAssumption DEF TypeOK, Targets, Begin, Procs

\* The step of a goroutine that returns.
LEMMA ReturnTargets ==
    ASSUME TypeOK, Targets, NEW p \in Procs, proc' = [proc EXCEPT ![p] = Idle]
    PROVE  Targets'
BY ConstantsAssumption DEF TypeOK, Targets, ScaleLabels, Idle, Procs

LEMMA NextTargets == TypeOK /\ Targets /\ [Next]_vars => Targets'
<1> SUFFICES ASSUME TypeOK, Targets, [Next]_vars PROVE Targets'
    OBVIOUS
<1> USE ConstantsAssumption DEF Targets, ScaleLabels, At, Svc
<1>t. /\ Handlers \subseteq Procs /\ Ops \subseteq Procs /\ Listener \in Procs
      /\ proc \in [Procs -> ProcState]
      /\ replicas \in [Services -> Nat]
      /\ \A p \in Procs : ~At(p, "idle") => Svc(p) \in Services
      /\ \A p \in Procs : At(p, "send") => proc[p].ch \in Ops
    BY DEF Procs, TypeOK
<1>1. ASSUME NEW h \in Handlers, NEW s \in Services, NEW d \in Directions, Request(h, s, d)
      PROVE  Targets'
    BY <1>1, <1>t DEF Request, Begin, Directions, ProcState
<1>2. ASSUME NEW h \in Handlers, Reject(h) PROVE Targets'
    BY <1>2, <1>t, ReturnTargets DEF Reject, Return
<1>3. ASSUME NEW h \in Handlers, InspectOver(h) PROVE Targets'
  <2>1. replicas[Svc(h)] + 1 \in Nat /\ replicas[Svc(h)] + 1 >= 1
      BY <1>3, <1>t DEF InspectOver
  <2> QED
      BY <1>3, <2>1, HandlerTargets DEF InspectOver
<1>4. ASSUME NEW h \in Handlers, InspectUnder(h) PROVE Targets'
  <2>1. replicas[Svc(h)] \in Nat
      BY <1>4, <1>t DEF InspectUnder
  <2>2. CASE Begin(h, "arm", Svc(h), 0)
      BY <2>2, HandlerTargets
  <2>3. CASE \E l \in {"pin", "scaleInspect"} : Begin(h, l, Svc(h), replicas[Svc(h)] - 1)
    <3>1. replicas[Svc(h)] > 1 \/ Begin(h, "arm", Svc(h), 0)
        BY <1>4 DEF InspectUnder
    <3>2. replicas[Svc(h)] > 1 => replicas[Svc(h)] - 1 \in Nat /\ replicas[Svc(h)] - 1 >= 1
        BY <2>1
    <3> QED
        BY <2>2, <2>3, <3>1, <3>2, HandlerTargets
  <2> QED
      BY <1>4, <2>2, <2>3 DEF InspectUnder
<1>5. ASSUME NEW h \in Handlers, UpdateConstraints(h) PROVE Targets'
  <2>1. CASE \E l \in {"scaleInspect", "cancel"} : proc' = [proc EXCEPT ![h].pc = l]
      BY <1>5, <1>t, <2>1 DEF UpdateConstraints, ProcState
  <2>2. CASE proc' = [proc EXCEPT ![h] = Idle]
      BY <1>t, <2>2, ReturnTargets
  <2> QED
      BY <1>5, <2>1, <2>2 DEF UpdateConstraints, Goto, Return
<1>6. ASSUME NEW h \in Handlers, Cancel(h) PROVE Targets'
  <2>1. /\ proc'[h].want = proc[h].want /\ proc[h].pc = "cancel"
        /\ \A q \in Procs \ {h} : proc'[q] = proc[q]
      BY <1>6, <1>t DEF Cancel, Goto, ProcState
  <2> QED
      BY <1>t, <2>1
<1>7. ASSUME NEW h \in Handlers, Send(h) PROVE Targets'
    BY <1>7, <1>t DEF Send, Idle, ProcState
<1>8. ASSUME NEW h \in Handlers, Delete(h) PROVE Targets'
    BY <1>8, <1>t DEF Delete, Goto, ProcState
<1>9. ASSUME NEW h \in Handlers, Arm(h) PROVE Targets'
  <2>1. CASE Goto(h, "store")
      BY <1>9, <1>t, <2>1 DEF Goto, ProcState
  <2>2. CASE Return(h)
      BY <1>t, <2>2, ReturnTargets DEF Return
  <2> QED
      BY <1>9, <2>1, <2>2 DEF Arm
<1>10. ASSUME NEW h \in Handlers, Store(h) PROVE Targets'
  <2>1. PICK k \in Ops : proc' = [proc EXCEPT ![h] = Idle, ![k] = Waiting(Svc(h))]
      BY <1>10 DEF Store
  <2>2. /\ h # k /\ proc'[h] = Idle /\ proc'[k] = Waiting(Svc(h))
        /\ \A q \in Procs \ {h, k} : proc'[q] = proc[q]
      BY <1>t, <2>1
  <2> QED
      BY <1>t, <2>2 DEF Idle, Waiting
<1>11. ASSUME NEW k \in Ops, Expire(k) PROVE Targets'
  <2>1. CASE Goto(k, "listen")
      BY <1>t, <2>1 DEF Goto, ProcState
  <2>2. CASE Return(k)
      BY <1>t, <2>2, ReturnTargets DEF Return
  <2> QED
      BY <1>11, <2>1, <2>2 DEF Expire
<1>12. ASSUME NEW k \in Ops, ListenOk(k) PROVE Targets'
    BY <1>12, <1>t DEF ListenOk, Goto, ProcState
<1>13. ASSUME NEW k \in Ops, NotifyOk(k) PROVE Targets'
    BY <1>13, <1>t DEF NotifyOk, Begin, ProcState
<1>14. ASSUME NEW k \in Ops, GiveUp(k) PROVE Targets'
    BY <1>14, <1>t, ReturnTargets DEF GiveUp, Return
<1>15. ASSUME NEW k \in Ops, Forget(k) PROVE Targets'
    BY <1>15, <1>t, ReturnTargets DEF Forget, Return
<1>16. ASSUME NEW p \in Procs, ScaleInspect(p) PROVE Targets'
    BY <1>16, <1>t DEF ScaleInspect, Goto, ProcState
<1>17. ASSUME NEW p \in Procs, ScaleUpdate(p) PROVE Targets'
  <2>1. CASE p \in Ops /\ Goto(p, "forget")
    <3>1. /\ proc'[p].pc = "forget" /\ proc'[p].want = proc[p].want
          /\ \A q \in Procs \ {p} : proc'[q] = proc[q]
        BY <1>17, <1>t, <2>1 DEF Goto, ProcState
    <3> QED
        BY <1>t, <2>1, <3>1
  <2>2. CASE proc' = [proc EXCEPT ![p] = Idle]
      BY <2>2, ReturnTargets
  <2> QED
      BY <1>17, <2>1, <2>2 DEF ScaleUpdate
<1>18. ASSUME NEW p \in Procs, ScaleFails(p) PROVE Targets'
    BY <1>18, <1>t, ReturnTargets DEF ScaleFails, Return
<1>19. ASSUME NEW s \in Services, Wake(s) PROVE Targets'
    BY <1>19, <1>t DEF Wake, Begin, ProcState
<1>20. CASE Restart
    BY <1>20, <1>t DEF Restart, Idle, ProcState
<1>21. CASE UNCHANGED vars
    BY <1>21 DEF vars
<1> QED
    BY <1>1, <1>2, <1>3, <1>4, <1>5, <1>6, <1>7, <1>8, <1>9, <1>10, <1>11, <1>12, <1>13, <1>14, <1>15, <1>16, <1>17, <1>18, <1>19, <1>20, <1>21
    DEF Next, HandlerStep, OpStep, ScaleToStep

(***************************************************************************)
(* The manager implements ReplicaContract.                                 *)
(***************************************************************************)
LEMMA InitContract == Init => Contract!Init
<1> SUFFICES ASSUME Init PROVE Contract!Init
    OBVIOUS
<1>1. replicas \in [Services -> Nat \ {0}]
    BY ConstantsAssumption DEF Init
<1>2. Announced = {}
    BY DEF Init, Announced, Idle, Procs
<1> QED
    BY <1>1, <1>2 DEF Contract!Init

\* A step that moves no keep-alive operation into or out of scaleTo leaves the
\* announcements as they are.
LEMMA SameAnnounced ==
    ASSUME \A k \in Ops :
               /\ proc'[k].pc \in ScaleLabels <=> proc[k].pc \in ScaleLabels
               /\ proc[k].pc \in ScaleLabels => proc'[k].svc = proc[k].svc
    PROVE  Announced' = Announced
<1> USE DEF Announced, ScaleLabels, Svc
<1>1. ASSUME NEW s \in Services PROVE s \in Announced <=> s \in Announced'
  <2>1. ASSUME NEW k \in Ops
        PROVE  (proc[k].svc = s /\ proc[k].pc \in ScaleLabels) <=>
               (proc'[k].svc = s /\ proc'[k].pc \in ScaleLabels)
      OBVIOUS
  <2> QED
      BY <2>1
<1> QED
    BY <1>1

\* What every step of the manager does to the counts and the announcements.
LEMMA NextContract == TypeOK /\ Targets /\ [Next]_vars => [Contract!Next]_(Contract!vars)
<1> SUFFICES ASSUME TypeOK, Targets, [Next]_vars PROVE [Contract!Next]_(Contract!vars)
    OBVIOUS
<1> DEFINE Same ==
        /\ \A k \in Ops :
            /\ proc'[k].pc \in ScaleLabels <=> proc[k].pc \in ScaleLabels
            /\ proc[k].pc \in ScaleLabels => proc'[k].svc = proc[k].svc
        /\ replicas' = replicas
<1>s. Same => UNCHANGED Contract!vars
    BY SameAnnounced DEF Contract!vars
<1>t. /\ Handlers \subseteq Procs /\ Ops \subseteq Procs /\ Listener \in Procs
      /\ Handlers \cap Ops = {} /\ Listener \notin Ops
      /\ proc \in [Procs -> ProcState]
      /\ \A p \in Procs : ~At(p, "idle") => Svc(p) \in Services
      /\ \A p \in Procs : At(p, "send") => proc[p].ch \in Ops
    BY ConstantsAssumption DEF Procs, TypeOK
<1>1. ASSUME NEW h \in Handlers, NEW s \in Services, NEW d \in Directions, Request(h, s, d)
      PROVE  Same
    BY <1>1, <1>t DEF Request, Begin
<1>2. ASSUME NEW h \in Handlers, Reject(h) PROVE Same
    BY <1>2, <1>t DEF Reject, Return, Idle, Directions, ScaleLabels, At, Svc, ProcState
<1>3. ASSUME NEW h \in Handlers, InspectOver(h) PROVE Same
    BY <1>3, <1>t DEF InspectOver, Begin, ScaleLabels, At, Svc, ProcState
<1>4. ASSUME NEW h \in Handlers, InspectUnder(h) PROVE Same
    BY <1>4, <1>t DEF InspectUnder, Begin, ScaleLabels, At, Svc, ProcState
<1>5. ASSUME NEW h \in Handlers, UpdateConstraints(h) PROVE Same
    BY <1>5, <1>t DEF UpdateConstraints, Goto, Return, Idle, ScaleLabels, At, Svc, ProcState
<1>6. ASSUME NEW h \in Handlers, Cancel(h) PROVE Same
    BY <1>6, <1>t DEF Cancel, Goto, ScaleLabels, At, Svc, ProcState
<1>7. ASSUME NEW h \in Handlers, Send(h) PROVE Same
    BY <1>7, <1>t DEF Send, Idle, ScaleLabels, At, Svc, ProcState
<1>8. ASSUME NEW h \in Handlers, Delete(h) PROVE Same
    BY <1>8, <1>t DEF Delete, Goto, ScaleLabels, At, Svc, ProcState
<1>9. ASSUME NEW h \in Handlers, Arm(h) PROVE Same
    BY <1>9, <1>t DEF Arm, Goto, Return, Idle, ScaleLabels, At, Svc, ProcState
<1>10. ASSUME NEW h \in Handlers, Store(h) PROVE Same
    BY <1>10, <1>t DEF Store, Unused, Idle, Waiting, ScaleLabels, At, Svc, ProcState
<1>11. ASSUME NEW k \in Ops, Expire(k) PROVE Same
    BY <1>11, <1>t DEF Expire, Goto, Return, Idle, ScaleLabels, At, Svc, ProcState
<1>12. ASSUME NEW k \in Ops, ListenOk(k) PROVE Same
    BY <1>12, <1>t DEF ListenOk, Goto, ScaleLabels, At, Svc, ProcState
<1>13. ASSUME NEW k \in Ops, GiveUp(k) PROVE Same
    BY <1>13, <1>t DEF GiveUp, Return, Idle, ScaleLabels, At, Svc, ProcState
<1>14. ASSUME NEW k \in Ops, Forget(k) PROVE Same
    BY <1>14, <1>t DEF Forget, Return, Idle, ScaleLabels, At, Svc, ProcState
<1>15. ASSUME NEW k \in Ops, NotifyOk(k) PROVE Contract!Next
  <2>1. Svc(k) \in Services
      BY <1>15, <1>t DEF NotifyOk, At
  <2>2. Announced' = Announced \cup {Svc(k)}
      BY <1>15, <1>t, <2>1 DEF NotifyOk, Begin, Announced, Svc, At
  <2>3. Contract!Announce(Svc(k))
      BY <1>15, <2>2 DEF NotifyOk, Contract!Announce
  <2> QED
      BY <2>1, <2>3 DEF Contract!Next
<1>16. ASSUME NEW p \in Procs, ScaleInspect(p) PROVE Same
    BY <1>16, <1>t DEF ScaleInspect, Goto, ScaleLabels, At, ProcState
<1>17. ASSUME NEW p \in Procs, ScaleUpdate(p) PROVE Contract!Next
  <2>1. /\ Svc(p) \in Services
        /\ replicas' = [replicas EXCEPT ![Svc(p)] = proc[p].want]
        /\ replicas'[Svc(p)] = proc[p].want
      BY <1>17, <1>t DEF ScaleUpdate, At, TypeOK
  <2>2. CASE p \in Ops
    <3>1. proc[p].want = 0 /\ Svc(p) \in Announced
        BY <1>17, <2>1, <2>2 DEF ScaleUpdate, Targets, Announced, At
    <3>2. /\ proc'[p].pc \in {"forget", "idle"}
          /\ \A q \in Procs \ {p} : proc'[q] = proc[q]
        BY <1>17, <1>t, <2>2 DEF ScaleUpdate, Goto, Idle, ProcState
    <3>3. Announced' \in {Announced, Announced \ {Svc(p)}}
        BY <1>t, <2>2, <3>1, <3>2 DEF Announced, Svc
    <3>4. Contract!Zero(Svc(p))
        BY <2>1, <3>1, <3>3 DEF Contract!Zero
    <3> QED
        BY <2>1, <3>4 DEF Contract!Next
  <2>3. CASE p \notin Ops
    <3>1. proc[p].want \in Nat \ {0}
        BY <1>17, <1>t, <2>3 DEF ScaleUpdate, Targets, ScaleLabels, ProcState, At, Procs
    <3>2. Announced' = Announced
        BY <1>17, <1>t, <2>3, SameAnnounced DEF ScaleUpdate
    <3>3. Contract!Resize(Svc(p))
        BY <2>1, <3>1, <3>2 DEF Contract!Resize
    <3> QED
        BY <2>1, <3>3 DEF Contract!Next
  <2> QED
      BY <2>2, <2>3
<1>18. ASSUME NEW p \in Procs, ScaleFails(p) PROVE [Contract!Next]_(Contract!vars)
  <2>1. Svc(p) \in Services /\ proc' = [proc EXCEPT ![p] = Idle] /\ replicas' = replicas
      BY <1>18, <1>t DEF ScaleFails, Return, At
  <2>2. CASE p \in Ops
    <3>1. Announced' \in {Announced, Announced \ {Svc(p)}}
        BY <1>t, <2>1, <2>2 DEF Announced, Svc, Idle
    <3>2. Contract!Withdraw(Svc(p)) \/ UNCHANGED Contract!vars
        BY <2>1, <3>1 DEF Contract!Withdraw, Contract!vars
    <3> QED
        BY <2>1, <3>2 DEF Contract!Next
  <2>3. CASE p \notin Ops
      BY <1>s, <1>t, <2>1, <2>3
  <2> QED
      BY <2>2, <2>3
<1>19. ASSUME NEW s \in Services, Wake(s) PROVE Same
    BY <1>19, <1>t DEF Wake, Begin
<1>20. CASE Restart
  <2>1. Announced' = {}
      BY <1>20, <1>t DEF Restart, Announced, Idle
  <2> QED
      BY <1>20, <2>1 DEF Restart, Contract!Next, Contract!WithdrawAll
<1>21. ASSUME UNCHANGED vars PROVE Same
    BY <1>21 DEF vars
<1> QED
    BY <1>s, <1>1, <1>2, <1>3, <1>4, <1>5, <1>6, <1>7, <1>8, <1>9, <1>10, <1>11, <1>12, <1>13, <1>14, <1>15, <1>16, <1>17, <1>18, <1>19, <1>20, <1>21
    DEF Next, HandlerStep, OpStep, ScaleToStep

\* The replica manager implements ReplicaContract, whatever overlaps or fails: a
\* service reaches zero replicas only by a keep-alive operation that has asked
\* every node to listen, and every other update leaves at least one replica.
THEOREM ManagerImplementsContract == Spec => ImplementsContract
<1>1. Init => TypeOK /\ Targets
    BY InitTypeOK, InitTargets
<1>2. TypeOK /\ Targets /\ [Next]_vars => (TypeOK /\ Targets)'
    BY NextTypeOK, NextTargets
<1> QED
    BY <1>1, <1>2, InitContract, NextContract, PTL DEF Spec, ImplementsContract, Contract!Spec

(***************************************************************************)
(* Requests that do not overlap.                                           *)
(***************************************************************************)
LEMMA InitSerialInv == Init => SerialInv
BY DEF Init, SerialInv, OwnRequests, EntryIsAlive, Knows, KeptAliveAtOne, Alive,
       NoOperation, ScaleLabels, Idle, Procs, At, Svc

\* A step of one handler that touches nothing but its own locals.
LEMMA HandlerMoves ==
    ASSUME TypeOK, SerialInv, NEW h \in Handlers,
           \A q \in Procs : q # h => proc'[q] = proc[q],
           proc'[h].pc # "idle" => proc'[h].svc \in Watches[h],
           replicas' = replicas, keepAliveOps' = keepAliveOps,
           Knows(h)'
    PROVE  SerialInv'
<1>1. h \in Procs /\ h \notin Ops /\ Handlers \subseteq Procs /\ Ops \subseteq Procs
    BY ConstantsAssumption DEF Procs
<1>2. \A k \in Ops : proc'[k] = proc[k]
    BY <1>1
<1>3. OwnRequests'
    BY <1>1 DEF SerialInv, OwnRequests, At, Svc
<1>4. EntryIsAlive' /\ KeptAliveAtOne'
    BY <1>2 DEF SerialInv, EntryIsAlive, KeptAliveAtOne, Alive, At, Svc
<1>5. ASSUME NEW g \in Handlers, g # h PROVE Knows(g)'
  <2>1. proc'[g] = proc[g] /\ Knows(g) /\ (At(g, "send") => proc[g].ch \in Ops)
      BY <1>1, <1>5 DEF SerialInv, TypeOK
  <2> QED
      BY <1>2, <2>1 DEF Knows, NoOperation, Alive, At, Svc
<1> QED
    BY <1>3, <1>4, <1>5 DEF SerialInv

\* A step of a running keep-alive operation that touches nothing but its own
\* locals: it may end, and otherwise stays with its service.
LEMMA OperationMoves ==
    ASSUME TypeOK, SerialInv, NEW k \in Ops, Alive(k),
           \A q \in Procs : q # k => proc'[q] = proc[q],
           proc'[k].pc # "idle" => proc'[k].svc = proc[k].svc,
           replicas' = replicas, keepAliveOps' = keepAliveOps
    PROVE  SerialInv'
<1>1. k \in Procs /\ k \notin Handlers /\ Handlers \subseteq Procs /\ Ops \subseteq Procs
    BY ConstantsAssumption DEF Procs
<1>2. \A o \in Ops : Alive(o)' => Alive(o) /\ proc'[o].svc = proc[o].svc
    BY <1>1 DEF Alive, At
<1>3. OwnRequests'
    BY <1>1 DEF SerialInv, OwnRequests, At, Svc
<1>4. EntryIsAlive' /\ KeptAliveAtOne'
    BY <1>2 DEF SerialInv, EntryIsAlive, KeptAliveAtOne, Svc
<1>5. ASSUME NEW g \in Handlers PROVE Knows(g)'
  <2>1. proc'[g] = proc[g] /\ Knows(g) /\ (At(g, "send") => proc[g].ch \in Ops)
      BY <1>1 DEF SerialInv, TypeOK
  <2> QED
      BY <1>2, <2>1 DEF Knows, NoOperation, At, Svc
<1> QED
    BY <1>3, <1>4, <1>5 DEF SerialInv

\* The port listener is in none of the conjuncts.
LEMMA ListenerMoves ==
    ASSUME TypeOK, SerialInv, \A q \in Procs : q # Listener => proc'[q] = proc[q],
           replicas' = replicas, keepAliveOps' = keepAliveOps
    PROVE  SerialInv'
<1>1. Listener \notin Handlers \cup Ops /\ Handlers \subseteq Procs /\ Ops \subseteq Procs
    BY ConstantsAssumption DEF Procs
<1>2. \A q \in Handlers \cup Ops : proc'[q] = proc[q]
    BY <1>1
<1>3. OwnRequests' /\ EntryIsAlive' /\ KeptAliveAtOne'
    BY <1>2 DEF SerialInv, OwnRequests, EntryIsAlive, KeptAliveAtOne, Alive, At, Svc
<1>4. ASSUME NEW g \in Handlers PROVE Knows(g)'
  <2>1. proc'[g] = proc[g] /\ Knows(g) /\ (At(g, "send") => proc[g].ch \in Ops)
      BY <1>1, <1>2 DEF SerialInv, TypeOK
  <2> QED
      BY <1>2, <2>1 DEF Knows, NoOperation, Alive, At, Svc
<1> QED
    BY <1>3, <1>4 DEF SerialInv

LEMMA NextSerialInv ==
    ASSUME Serial, TypeOK, Targets, SerialInv, [Next]_vars
    PROVE  SerialInv'
<1>t. /\ Handlers \subseteq Procs /\ Ops \subseteq Procs /\ Listener \in Procs
      /\ Handlers \cap Ops = {} /\ Listener \notin Handlers \cup Ops /\ None \notin Ops
      /\ proc \in [Procs -> ProcState]
      /\ replicas \in [Services -> Nat]
      /\ keepAliveOps \in [Services -> Ops \cup {None}]
      /\ \A p \in Procs : ~At(p, "idle") => Svc(p) \in Services
      /\ \A p \in Procs : At(p, "send") => proc[p].ch \in Ops
    BY ConstantsAssumption DEF Procs, TypeOK
<1>i. /\ OwnRequests /\ EntryIsAlive /\ KeptAliveAtOne
      /\ \A h \in Handlers : Knows(h)
    BY DEF SerialInv
\* Two requests never name the same service.
<1>d. \A g, h \in Handlers : g # h /\ ~At(g, "idle") /\ ~At(h, "idle") => Svc(g) # Svc(h)
    BY <1>i DEF OwnRequests, Serial
<1>1. ASSUME NEW h \in Handlers, NEW s \in Services, NEW d \in Directions, Request(h, s, d)
      PROVE  SerialInv'
  <2>1. Knows(h)'
      BY <1>1, <1>t DEF Request, Begin, Knows, Directions, ScaleLabels, At
  <2> QED
      BY <1>1, <1>t, <2>1, HandlerMoves DEF Request, Begin
<1>2. ASSUME NEW h \in Handlers, Reject(h) PROVE SerialInv'
  <2>1. Knows(h)'
      BY <1>2, <1>t DEF Reject, Return, Idle, Knows, ScaleLabels, At
  <2> QED
      BY <1>2, <1>t, <2>1, HandlerMoves DEF Reject, Return, Idle
<1>3. ASSUME NEW h \in Handlers, InspectOver(h) PROVE SerialInv'
  <2>1. Svc(h) \in Watches[h]
      BY <1>3, <1>i DEF InspectOver, OwnRequests, At
  <2>2. Knows(h)'
      BY <1>3, <1>t DEF InspectOver, Begin, Knows, ScaleLabels, At
  <2> QED
      BY <1>3, <1>t, <2>1, <2>2, HandlerMoves DEF InspectOver, Begin
<1>4. ASSUME NEW h \in Handlers, InspectUnder(h) PROVE SerialInv'
  <2>1. Svc(h) \in Watches[h] /\ Svc(h) \in Services
      BY <1>4, <1>i, <1>t DEF InspectUnder, OwnRequests, At
  <2>2. CASE /\ replicas[Svc(h)] > 1
             /\ \E l \in {"pin", "scaleInspect"} : Begin(h, l, Svc(h), replicas[Svc(h)] - 1)
    \* Above one replica no keep-alive operation runs for the service.
    <3>1. NoOperation(Svc(h))
        BY <1>i, <1>t, <2>1, <2>2 DEF KeptAliveAtOne, NoOperation
    <3>2. Svc(h)' = Svc(h) /\ \A k \in Ops : proc'[k] = proc[k]
        BY <1>t, <2>2 DEF Begin, Svc
    <3>3. NoOperation(Svc(h))'
        BY <3>1, <3>2 DEF NoOperation, Alive, At, Svc
    <3>4. proc'[h].pc \in {"pin", "scaleInspect"}
        BY <1>t, <2>2 DEF Begin
    <3>5. Knows(h)'
        BY <3>3, <3>4 DEF Knows, At
    <3> QED
        BY <1>4, <1>t, <2>1, <2>2, <3>5, HandlerMoves DEF InspectUnder, Begin
  <2>3. CASE replicas[Svc(h)] <= 1 /\ Begin(h, "arm", Svc(h), 0)
    <3>1. Knows(h)'
        BY <1>4, <1>t, <2>3 DEF InspectUnder, Begin, Knows, ScaleLabels, At, Svc
    <3> QED
        BY <1>4, <1>t, <2>1, <2>3, <3>1, HandlerMoves DEF InspectUnder, Begin
  <2> QED
      BY <1>4, <2>2, <2>3 DEF InspectUnder
<1>5. ASSUME NEW h \in Handlers, UpdateConstraints(h) PROVE SerialInv'
  <2>1. Svc(h) \in Watches[h] /\ Knows(h)
      BY <1>5, <1>i DEF UpdateConstraints, OwnRequests, At
  <2>2. CASE At(h, "pin") /\ Goto(h, "scaleInspect")
    <3>1. proc'[h].pc = "scaleInspect" /\ Svc(h)' = Svc(h) /\ \A k \in Ops : proc'[k] = proc[k]
        BY <1>t, <2>2 DEF Goto, Svc, ProcState
    <3>2. NoOperation(Svc(h))'
        BY <2>1, <2>2, <3>1 DEF Knows, NoOperation, Alive, At, Svc
    <3>3. Knows(h)'
        BY <3>1, <3>2 DEF Knows, At
    <3> QED
        BY <1>5, <1>t, <2>1, <2>2, <3>1, <3>3, HandlerMoves DEF UpdateConstraints, Goto, Svc
  <2>3. CASE Goto(h, "cancel")
    <3>1. proc'[h].pc = "cancel" /\ Svc(h)' = Svc(h)
        BY <1>t, <2>3 DEF Goto, Svc, ProcState
    <3>2. Knows(h)'
        BY <3>1 DEF Knows, ScaleLabels, At
    <3> QED
        BY <1>5, <1>t, <2>1, <2>3, <3>1, <3>2, HandlerMoves DEF UpdateConstraints, Goto, Svc
  <2>4. CASE proc' = [proc EXCEPT ![h] = Idle]
    <3>1. Knows(h)'
        BY <1>t, <2>4 DEF Idle, Knows, ScaleLabels, At
    <3> QED
        BY <1>5, <1>t, <2>4, <3>1, HandlerMoves DEF UpdateConstraints, Idle
  <2> QED
      BY <1>5, <2>2, <2>3, <2>4 DEF UpdateConstraints, Return
<1>6. ASSUME NEW h \in Handlers, Cancel(h) PROVE SerialInv'
  <2>1. Svc(h) \in Watches[h] /\ Svc(h) \in Services
      BY <1>6, <1>i, <1>t DEF Cancel, OwnRequests, At
  <2>2. CASE keepAliveOps[Svc(h)] = None /\ Goto(h, "scaleInspect")
    <3>1. proc'[h].pc = "scaleInspect" /\ Svc(h)' = Svc(h) /\ \A k \in Ops : proc'[k] = proc[k]
        BY <1>t, <2>2 DEF Goto, Svc, ProcState
    <3>2. NoOperation(Svc(h))
        BY <1>i, <1>t, <2>1, <2>2 DEF EntryIsAlive, NoOperation
    <3>3. NoOperation(Svc(h))'
        BY <3>1, <3>2 DEF NoOperation, Alive, At, Svc
    <3>4. Knows(h)'
        BY <3>1, <3>3 DEF Knows, At
    <3> QED
        BY <1>6, <1>t, <2>1, <2>2, <3>1, <3>4, HandlerMoves DEF Cancel, Goto, Svc
  <2>3. CASE /\ keepAliveOps[Svc(h)] # None
             /\ proc' = [proc EXCEPT ![h].pc = "send", ![h].ch = keepAliveOps[Svc(h)]]
    <3>1. /\ proc'[h].pc = "send" /\ Svc(h)' = Svc(h)
          /\ proc'[h].ch = keepAliveOps[Svc(h)]
          /\ \A q \in Procs : q # h => proc'[q] = proc[q]
        BY <1>t, <2>3 DEF Svc, ProcState
    <3>2. keepAliveOps[Svc(h)] \in Ops
        BY <1>t, <2>1, <2>3
    <3>3. Alive(keepAliveOps[Svc(h)]) => Svc(keepAliveOps[Svc(h)]) = Svc(h)
        BY <1>i, <2>1, <3>2 DEF EntryIsAlive
    <3>4. Knows(h)'
        BY <1>t, <3>1, <3>2, <3>3 DEF Knows, ScaleLabels, Alive, At, Svc
    <3> QED
        BY <1>6, <1>t, <2>1, <3>1, <3>4, HandlerMoves DEF Cancel, Svc
  <2> QED
      BY <1>6, <2>2, <2>3 DEF Cancel
<1>7. ASSUME NEW h \in Handlers, Send(h) PROVE SerialInv'
  <2>0. PICK k \in Ops : k = proc[h].ch
      BY <1>7, <1>t DEF Send
  <2>1. /\ k \in Ops /\ At(k, "select") /\ Alive(k) /\ At(h, "send") /\ Svc(k) = Svc(h)
        /\ UNCHANGED <<replicas, keepAliveOps>>
      BY <1>7, <1>t, <1>i, <2>0 DEF Send, Knows, Alive, At
  <2>2. /\ proc'[h].pc = "delete" /\ Svc(h)' = Svc(h) /\ proc'[k] = Idle
        /\ \A q \in Procs : q # h /\ q # k => proc'[q] = proc[q]
      BY <1>7, <1>t, <2>0, <2>1 DEF Send, Svc, ProcState
  <2>3. ~Alive(k)' /\ \A o \in Ops : o # k => proc'[o] = proc[o]
      BY <1>t, <2>1, <2>2 DEF Alive, At, Idle
  <2>4. \A o \in Ops : Alive(o)' => o # k /\ Alive(o) /\ Svc(o)' = Svc(o)
      BY <2>3 DEF Alive, At, Svc
  \* The receiver was the only operation of the service.
  <2>5. NoOperation(Svc(h))'
      BY <1>i, <1>t, <2>1, <2>2, <2>4 DEF NoOperation, EntryIsAlive, At
  <2>6. OwnRequests'
      BY <1>i, <1>t, <2>1, <2>2 DEF OwnRequests, At, Svc
  <2>7. EntryIsAlive' /\ KeptAliveAtOne'
      BY <1>i, <2>1, <2>4 DEF EntryIsAlive, KeptAliveAtOne
  <2>8. Knows(h)'
      BY <2>2, <2>5 DEF Knows, At
  <2>9. ASSUME NEW g \in Handlers, g # h PROVE Knows(g)'
    <3>1. proc'[g] = proc[g] /\ Knows(g) /\ (At(g, "send") => proc[g].ch \in Ops)
        BY <1>i, <1>t, <2>1, <2>2, <2>9
    <3> QED
        BY <2>1, <2>4, <3>1 DEF Knows, NoOperation, At, Svc
  <2> QED
      BY <2>6, <2>7, <2>8, <2>9 DEF SerialInv
<1>8. ASSUME NEW h \in Handlers, Delete(h) PROVE SerialInv'
  <2>1. /\ proc'[h].pc = "scaleInspect" /\ Svc(h)' = Svc(h) /\ Svc(h) \in Services
        /\ \A q \in Procs : q # h => proc'[q] = proc[q]
        /\ keepAliveOps' = [keepAliveOps EXCEPT ![Svc(h)] = None]
        /\ replicas' = replicas
      BY <1>8, <1>t DEF Delete, Goto, At, Svc, ProcState
  <2>2. NoOperation(Svc(h)) /\ \A o \in Ops : proc'[o] = proc[o]
      BY <1>8, <1>i, <1>t, <2>1 DEF Delete, Knows, At
  <2>3. OwnRequests'
      BY <1>8, <1>i, <1>t, <2>1 DEF Delete, OwnRequests, At, Svc
  <2>4. EntryIsAlive'
      BY <1>i, <1>t, <2>1, <2>2 DEF EntryIsAlive, NoOperation, Alive, At, Svc
  <2>5. KeptAliveAtOne'
      BY <1>i, <2>1, <2>2 DEF KeptAliveAtOne, Alive, At, Svc
  <2>6. Knows(h)'
      BY <2>1, <2>2 DEF Knows, NoOperation, Alive, At, Svc
  <2>7. ASSUME NEW g \in Handlers, g # h PROVE Knows(g)'
    <3>1. proc'[g] = proc[g] /\ Knows(g) /\ (At(g, "send") => proc[g].ch \in Ops)
        BY <1>i, <1>t, <2>1, <2>7
    <3>2. keepAliveOps'[Svc(g)] = keepAliveOps[Svc(g)] \/ keepAliveOps'[Svc(g)] = None
        BY <1>t, <2>1
    <3> QED
        BY <2>1, <2>2, <3>1, <3>2 DEF Knows, NoOperation, Alive, At, Svc
  <2> QED
      BY <2>3, <2>4, <2>5, <2>6, <2>7 DEF SerialInv
<1>9. ASSUME NEW h \in Handlers, Arm(h) PROVE SerialInv'
  <2>1. Svc(h) \in Watches[h] /\ Knows(h)
      BY <1>9, <1>i DEF Arm, OwnRequests, At
  <2>2. CASE keepAliveOps[Svc(h)] = None /\ Goto(h, "store")
    <3>1. proc'[h].pc = "store" /\ Svc(h)' = Svc(h)
        BY <1>t, <2>2 DEF Goto, Svc, ProcState
    <3>2. Knows(h)'
        BY <1>9, <2>1, <2>2, <3>1 DEF Arm, Knows, ScaleLabels, At, Svc
    <3> QED
        BY <1>9, <1>t, <2>1, <2>2, <3>1, <3>2, HandlerMoves DEF Arm, Goto, Svc
  <2>3. CASE Return(h)
    <3>1. Knows(h)'
        BY <1>t, <2>3 DEF Return, Idle, Knows, ScaleLabels, At
    <3> QED
        BY <1>9, <1>t, <2>3, <3>1, HandlerMoves DEF Arm, Return, Idle
  <2> QED
      BY <1>9, <2>2, <2>3 DEF Arm
<1>10. ASSUME NEW h \in Handlers, Store(h) PROVE SerialInv'
  <2>1. PICK k \in Ops :
            /\ Unused(k)
            /\ keepAliveOps' = [keepAliveOps EXCEPT ![Svc(h)] = k]
            /\ proc' = [proc EXCEPT ![h] = Idle, ![k] = Waiting(Svc(h))]
      BY <1>10 DEF Store
  <2>2. /\ ~At(h, "idle") /\ Svc(h) \in Services /\ replicas[Svc(h)] <= 1 /\ replicas' = replicas
        /\ keepAliveOps[Svc(h)] = None
      BY <1>10, <1>i, <1>t DEF Store, Knows, At
  <2>3. /\ proc'[h] = Idle /\ proc'[k] = Waiting(Svc(h)) /\ h # k
        /\ \A q \in Procs : q # h /\ q # k => proc'[q] = proc[q]
      BY <1>t, <2>1
  <2>4. /\ Alive(k)' /\ Svc(k)' = Svc(h)
        /\ \A o \in Ops : o # k => proc'[o] = proc[o] /\ (Alive(o) => Svc(o) # Svc(h))
      BY <1>i, <1>t, <2>2, <2>3 DEF Alive, At, Svc, Waiting, EntryIsAlive
  <2>5. OwnRequests'
      BY <1>i, <1>t, <2>3 DEF OwnRequests, At, Svc, Idle
  <2>6. EntryIsAlive'
    <3>1. \A s \in Services : keepAliveOps'[s] = k <=> s = Svc(k)'
        BY <1>t, <2>1, <2>2, <2>4 DEF Unused
    <3>2. ASSUME NEW o \in Ops, o # k, Alive(o)'
          PROVE  \A s \in Services : keepAliveOps'[s] = o <=> s = Svc(o)'
      <4>1. Alive(o) /\ Svc(o)' = Svc(o) /\ Svc(o) # Svc(h)
          BY <2>4, <3>2 DEF Alive, At, Svc
      <4> QED
          BY <1>i, <1>t, <2>1, <2>2, <3>2, <4>1 DEF EntryIsAlive
    <3> QED
        BY <3>1, <3>2 DEF EntryIsAlive
  <2>7. KeptAliveAtOne'
    <3>1. ASSUME NEW o \in Ops, o # k, Alive(o)' PROVE (replicas[Svc(o)] <= 1)'
        BY <1>i, <2>2, <2>4, <3>1 DEF KeptAliveAtOne, Alive, At, Svc
    <3> QED
        BY <2>2, <2>4, <3>1 DEF KeptAliveAtOne
  <2>8. Knows(h)'
      BY <2>3 DEF Knows, ScaleLabels, At, Idle
  <2>9. ASSUME NEW g \in Handlers, g # h PROVE Knows(g)'
    <3>1. /\ proc'[g] = proc[g] /\ Knows(g) /\ proc[g].ch # k
          /\ At(g, "send") => proc[g].ch \in Ops
          /\ ~At(g, "idle") => Svc(g) # Svc(h) /\ Svc(g) \in Services
        BY <1>d, <1>i, <1>t, <2>1, <2>2, <2>3, <2>9 DEF Unused
    <3>2. ~At(g, "idle") => keepAliveOps'[Svc(g)] = keepAliveOps[Svc(g)]
        BY <1>t, <2>1, <3>1
    <3>3. ~At(g, "idle") /\ NoOperation(Svc(g)) => NoOperation(Svc(g))'
        BY <2>4, <3>1 DEF NoOperation, Alive, At, Svc
    <3>4. At(g, "send") => proc'[proc[g].ch] = proc[proc[g].ch]
        BY <2>4, <3>1
    <3> QED
        BY <2>2, <3>1, <3>2, <3>3, <3>4 DEF Knows, ScaleLabels, Alive, At, Svc
  <2> QED
      BY <2>5, <2>6, <2>7, <2>8, <2>9 DEF SerialInv
<1>11. ASSUME NEW k \in Ops, Expire(k) PROVE SerialInv'
    BY <1>11, <1>t, OperationMoves DEF Expire, Goto, Return, Idle, Alive, At, Svc, ProcState
<1>12. ASSUME NEW k \in Ops, ListenOk(k) PROVE SerialInv'
    BY <1>12, <1>t, OperationMoves DEF ListenOk, Goto, Alive, At, Svc, ProcState
<1>13. ASSUME NEW k \in Ops, NotifyOk(k) PROVE SerialInv'
    BY <1>13, <1>t, OperationMoves DEF NotifyOk, Begin, Alive, At, Svc, ProcState
<1>14. ASSUME NEW k \in Ops, GiveUp(k) PROVE SerialInv'
    BY <1>14, <1>t, OperationMoves DEF GiveUp, Return, Idle, Alive, At, Svc, ProcState
<1>15. ASSUME NEW k \in Ops, Forget(k) PROVE SerialInv'
  <2>1. /\ Alive(k) /\ Svc(k) \in Services /\ proc'[k] = Idle /\ replicas' = replicas
        /\ \A q \in Procs : q # k => proc'[q] = proc[q]
        /\ keepAliveOps' = [keepAliveOps EXCEPT ![Svc(k)] = None]
      BY <1>15, <1>t DEF Forget, Return, Alive, At
  <2>2. \A o \in Ops : Alive(o)' => o # k /\ Alive(o) /\ Svc(o)' = Svc(o)
      BY <1>t, <2>1 DEF Alive, At, Svc, Idle
  <2>3. OwnRequests'
      BY <1>i, <1>t, <2>1 DEF OwnRequests, At, Svc
  <2>4. EntryIsAlive'
      BY <1>i, <1>t, <2>1, <2>2 DEF EntryIsAlive
  <2>5. KeptAliveAtOne'
      BY <1>i, <2>1, <2>2 DEF KeptAliveAtOne
  <2>6. ASSUME NEW g \in Handlers PROVE Knows(g)'
    <3>1. proc'[g] = proc[g] /\ Knows(g) /\ (At(g, "send") => proc[g].ch \in Ops)
        BY <1>i, <1>t, <2>1
    <3>2. keepAliveOps'[Svc(g)] = keepAliveOps[Svc(g)] \/ keepAliveOps'[Svc(g)] = None
        BY <1>t, <2>1
    <3> QED
        BY <2>1, <2>2, <3>1, <3>2 DEF Knows, NoOperation, At, Svc
  <2> QED
      BY <2>3, <2>4, <2>5, <2>6 DEF SerialInv
<1>16. ASSUME NEW p \in Procs, ScaleInspect(p) PROVE SerialInv'
  <2>1. /\ At(p, "scaleInspect") /\ proc'[p].pc = "scaleUpdate" /\ proc'[p].svc = proc[p].svc
        /\ \A q \in Procs : q # p => proc'[q] = proc[q]
        /\ UNCHANGED <<replicas, keepAliveOps>>
      BY <1>16, <1>t DEF ScaleInspect, Goto, ProcState
  <2>2. CASE p \in Handlers
    <3>1. Svc(p) \in Watches[p] /\ NoOperation(Svc(p)) /\ \A o \in Ops : proc'[o] = proc[o]
        BY <1>i, <1>t, <2>1, <2>2 DEF OwnRequests, Knows, ScaleLabels, At
    <3>2. Knows(p)'
        BY <2>1, <3>1 DEF Knows, NoOperation, Alive, At, Svc
    <3> QED
        BY <2>1, <2>2, <3>1, <3>2, HandlerMoves DEF Svc
  <2>3. CASE p \in Ops
      BY <2>1, <2>3, OperationMoves DEF Alive, At
  <2>4. CASE p = Listener
      BY <2>1, <2>4, ListenerMoves
  <2> QED
      BY <2>2, <2>3, <2>4 DEF Procs
<1>17. ASSUME NEW p \in Procs, ScaleUpdate(p) PROVE SerialInv'
  <2>1. /\ At(p, "scaleUpdate") /\ Svc(p) \in Services /\ keepAliveOps' = keepAliveOps
        /\ replicas' = [replicas EXCEPT ![Svc(p)] = proc[p].want]
        /\ \A q \in Procs : q # p => proc'[q] = proc[q]
        /\ \/ p \in Ops /\ proc'[p].pc = "forget" /\ proc'[p].svc = proc[p].svc
           \/ proc'[p] = Idle
      BY <1>17, <1>t DEF ScaleUpdate, Goto, At, ProcState
  <2>2. /\ proc[p].want \in Nat
        /\ p \notin Handlers => proc[p].want <= 1
        /\ p \in Handlers => NoOperation(Svc(p))
      BY <1>i, <1>t, <2>1 DEF Targets, Knows, ScaleLabels, ProcState, At, Procs
  <2>3. \A o \in Ops : Alive(o)' => Alive(o) /\ Svc(o)' = Svc(o)
      BY <1>t, <2>1 DEF Alive, At, Svc, Idle
  <2>4. OwnRequests'
      BY <1>i, <1>t, <2>1 DEF OwnRequests, At, Svc, Idle
  <2>5. EntryIsAlive'
      BY <1>i, <2>1, <2>3 DEF EntryIsAlive
  <2>6. KeptAliveAtOne'
    <3>1. ASSUME NEW o \in Ops, Alive(o)' PROVE (replicas[Svc(o)] <= 1)'
      <4>1. Svc(o)' = Svc(o) /\ Svc(o) \in Services /\ replicas[Svc(o)] <= 1
          BY <1>i, <1>t, <2>3, <3>1 DEF KeptAliveAtOne, Alive
      <4>2. Svc(o) = Svc(p) => p \notin Handlers
          BY <2>2, <2>3, <3>1 DEF NoOperation
      <4> QED
          BY <1>t, <2>1, <2>2, <4>1, <4>2
    <3> QED
        BY <3>1 DEF KeptAliveAtOne
  <2>7. ASSUME NEW g \in Handlers PROVE Knows(g)'
    <3>1. CASE g = p
        BY <1>t, <2>1, <3>1 DEF Knows, ScaleLabels, Idle, At
    <3>2. CASE g # p
      <4>1. proc'[g] = proc[g] /\ Knows(g) /\ (At(g, "send") => proc[g].ch \in Ops)
          BY <1>i, <1>t, <2>1, <3>2
      <4>2. /\ ~At(g, "idle") => Svc(g) \in Services
            /\ ~At(g, "idle") /\ p \in Handlers => Svc(g) # Svc(p)
          BY <1>d, <1>t, <2>1, <3>2 DEF At
      <4>3. ~At(g, "idle") /\ replicas[Svc(g)] <= 1 => replicas'[Svc(g)] <= 1
          BY <1>t, <2>1, <2>2, <4>2
      <4> QED
          BY <2>1, <2>3, <4>1, <4>3 DEF Knows, NoOperation, ScaleLabels, At, Svc
    <3> QED
        BY <3>1, <3>2
  <2> QED
      BY <2>4, <2>5, <2>6, <2>7 DEF SerialInv
<1>18. ASSUME NEW p \in Procs, ScaleFails(p) PROVE SerialInv'
  <2>1. /\ ~At(p, "idle") /\ proc'[p] = Idle /\ UNCHANGED <<replicas, keepAliveOps>>
        /\ \A q \in Procs : q # p => proc'[q] = proc[q]
      BY <1>18, <1>t DEF ScaleFails, Return, At
  <2>2. CASE p \in Handlers
    <3>1. Knows(p)'
        BY <2>1 DEF Knows, ScaleLabels, Idle, At
    <3> QED
        BY <2>1, <2>2, <3>1, HandlerMoves DEF Idle
  <2>3. CASE p \in Ops
      BY <2>1, <2>3, OperationMoves DEF Alive, Idle
  <2>4. CASE p = Listener
      BY <2>1, <2>4, ListenerMoves
  <2> QED
      BY <2>2, <2>3, <2>4 DEF Procs
<1>19. ASSUME NEW s \in Services, Wake(s) PROVE SerialInv'
    BY <1>19, <1>t, ListenerMoves DEF Wake, Begin
<1>20. CASE Restart
  <2>1. \A q \in Procs : proc'[q] = Idle
      BY <1>20 DEF Restart
  <2> QED
      BY <1>t, <2>1 DEF SerialInv, OwnRequests, EntryIsAlive, Knows, KeptAliveAtOne, Alive,
                        NoOperation, ScaleLabels, Idle, At
<1>21. CASE UNCHANGED vars
    BY <1>21, ListenerMoves DEF vars
<1> QED
    BY <1>1, <1>2, <1>3, <1>4, <1>5, <1>6, <1>7, <1>8, <1>9, <1>10, <1>11, <1>12, <1>13,
       <1>14, <1>15, <1>16, <1>17, <1>18, <1>19, <1>20, <1>21
    DEF Next, HandlerStep, OpStep, ScaleToStep

LEMMA SerialInductive ==
    ASSUME Serial
    PROVE  Spec => [](TypeOK /\ Targets /\ SerialInv)
<1>1. Init => TypeOK /\ Targets /\ SerialInv
    BY InitTypeOK, InitTargets, InitSerialInv
<1>2. TypeOK /\ Targets /\ SerialInv /\ [Next]_vars => (TypeOK /\ Targets /\ SerialInv)'
    BY NextTypeOK, NextTargets, NextSerialInv
<1> QED
    BY <1>1, <1>2, PTL DEF Spec

\* Every running operation is the entry of its service.
LEMMA RunningIsEntry ==
    TypeOK /\ SerialInv =>
        \A k \in Ops : Alive(k) => Svc(k) \in Services /\ keepAliveOps[Svc(k)] = k
BY DEF TypeOK, SerialInv, EntryIsAlive, Alive, Procs

\* If requests for one service never overlap, then at most one keep-alive
\* goroutine runs for a service at a time: ChangeServiceReplicas starts a second one
\* only after the first has ended.
THEOREM SerialKeepAlive ==
    ASSUME Serial
    PROVE  Spec => []OneKeepAlivePerService
<1>1. TypeOK /\ SerialInv => OneKeepAlivePerService
    BY RunningIsEntry DEF OneKeepAlivePerService
<1> QED
    BY <1>1, SerialInductive, PTL

\* If requests for one service never overlap, then as long as a keep-alive
\* goroutine waits in its select the entry in keepAliveOps is its own, so the next
\* scale-up finds it and can cancel it.
THEOREM SerialCancellable ==
    ASSUME Serial
    PROVE  Spec => []KeepAliveCancellable
<1>1. TypeOK /\ SerialInv => KeepAliveCancellable
    BY RunningIsEntry DEF KeepAliveCancellable, Alive, At
<1> QED
    BY <1>1, SerialInductive, PTL

\* If requests for one service never overlap, a service is set to zero only from
\* zero or one replica, although scaleTo(s, 0) overwrites the count unseen.
THEOREM SerialZeroOnlyFromOne ==
    ASSUME Serial
    PROVE  Spec => ZeroOnlyFromOne
<1>1. ASSUME TypeOK, Targets, SerialInv, [Next]_vars
      PROVE  [\A s \in Services : replicas'[s] = 0 => replicas[s] <= 1]_vars
  <2> SUFFICES ASSUME NEW s \in Services, replicas'[s] = 0 PROVE replicas[s] <= 1
      OBVIOUS
  <2>1. replicas[s] \in Nat
      BY <1>1 DEF TypeOK
  <2>2. CASE replicas' = replicas
      BY <2>1, <2>2
  <2>3. ASSUME NEW p \in Procs, ScaleUpdate(p) PROVE replicas[s] <= 1
    <3>1. CASE s = Svc(p)
      <4>1. At(p, "scaleUpdate") /\ proc[p].want = 0
          BY <1>1, <2>3, <3>1 DEF ScaleUpdate, TypeOK
      <4>2. p \in Ops
          BY <1>1, <4>1 DEF Targets, ScaleLabels, Procs, At
      <4> QED
          BY <1>1, <3>1, <4>1, <4>2 DEF SerialInv, KeptAliveAtOne, Alive, At
    <3>2. CASE s # Svc(p)
        BY <1>1, <2>1, <2>3, <3>2 DEF ScaleUpdate, TypeOK
    <3> QED
        BY <3>1, <3>2
  <2> QED
      BY <1>1, <2>2, <2>3
      DEF Next, HandlerStep, OpStep, ScaleToStep, Request, Reject, InspectOver, InspectUnder,
          UpdateConstraints, Cancel, Send, Delete, Arm, Store, Expire, ListenOk, NotifyOk,
          GiveUp, Forget, Wake, ScaleInspect, ScaleFails, Restart, vars
<1> QED
    BY <1>1, SerialInductive, PTL DEF Spec, ZeroOnlyFromOne
=============================================================================
