------------------------- MODULE PortListenerProofs -------------------------
(***************************************************************************)
(* Theorems about PortListener, for every set of ports and callers and     *)
(* every size of the kernel's map and of the ring.                         *)
(***************************************************************************)
EXTENDS PortListener, TLAPS

(***************************************************************************)
(* The inductive invariants.                                               *)
(***************************************************************************)
\* A goroutine that is not in a call works on no port.
IdleHasNoPort == \A g \in Procs : At(g, "idle") => Port(g) = None

\* The loop has found p registered and has yet to have it scaled up.
Waking(p) == Port(Loop) = p /\ proc[Loop].pc \in {"remove", "delete", "unmap", "scale"}

\* The loop has yet to scale p up, and the registration that it found is gone.
Spent(p) == Port(Loop) = p /\ proc[Loop].pc \in {"unmap", "scale"}

\* A scale-up uses up a registration: one is left over while the port is
\* registered or is being woken, and two if it was registered again after the
\* loop had taken the registration it found.
WakesAreCovered ==
    \A p \in Ports :
        /\ wakes[p] <= listens[p]
        /\ p \in portToServiceID \/ Waking(p) => wakes[p] + 1 <= listens[p]
        /\ p \in portToServiceID /\ Spent(p) => wakes[p] + 2 <= listens[p]

Agree(p) == p \in portToServiceID <=> p \in portsMap

\* A port whose calls have not overlapped has one call at most, the two maps
\* agree on it or ListenOnPort has refused it, except between the two writes
\* of that one call.
OneCall ==
    \A g, h \in Procs : Port(g) = Port(h) /\ Port(g) \in Ports \ raced => g = h

HalfWritten(p) == \E g \in Procs : Port(g) = p /\ proc[g].pc \in {"update", "unmap"}

MapsInStep ==
    \A p \in Ports \ raced :
        /\ HalfWritten(p) \/ p \in refused \/ Agree(p)
        /\ \A g \in Procs : Port(g) = p =>
              /\ At(g, "update") => p \in portToServiceID
              /\ At(g, "unmap") => p \notin portToServiceID

IInv ==
    /\ TypeOK
    /\ IdleHasNoPort
    /\ WakesAreCovered
    /\ OneCall
    /\ MapsInStep

(***************************************************************************)
(* Type correctness.                                                       *)
(***************************************************************************)
\* A goroutine that moves within a call on a port, or returns, keeps its type.
LEMMA GotoTyped ==
    ASSUME TypeOK, IdleHasNoPort, NEW g \in Procs, NEW l \in Labels,
           NEW p \in Ports \cup {None}, l = "idle" <=> p = None,
           Goto(g, l, p)
    PROVE  /\ proc' \in [Procs -> [pc : Labels, port : Ports \cup {None}]]
           /\ \A h \in Procs : ~At(h, "idle")' => Port(h)' \in Ports
           /\ IdleHasNoPort'
<1>1. proc' \in [Procs -> [pc : Labels, port : Ports \cup {None}]]
    BY DEF TypeOK, Goto
<1>2. \A h \in Procs : ~At(h, "idle")' => Port(h)' \in Ports
    BY DEF TypeOK, Goto, At, Port
<1>3. IdleHasNoPort'
    BY DEF TypeOK, IdleHasNoPort, Goto, At, Port
<1> QED
    BY <1>1, <1>2, <1>3

Typed == TypeOK /\ IdleHasNoPort

LEMMA InitTyped == Init => Typed
BY PortsAssumption DEF Init, Typed, TypeOK, IdleHasNoPort, At, Port, Labels

\* Every step of a call keeps the types.
LEMMA CallTyped ==
    ASSUME Typed, NEW g \in Procs, CallStep(g)
    PROVE  Typed'
<1> USE PortsAssumption
<1>p. ~At(g, "idle") /\ Port(g) \in Ports /\ Port(g) # None
    BY DEF Typed, TypeOK, CallStep, Update, RemoveLoad, Delete, Unmap, At
<1>1. CASE Update(g)
    BY <1>1, <1>p, GotoTyped DEF Update, Return, Labels, Typed, TypeOK
<1>2. CASE RemoveLoad(g)
    BY <1>2, <1>p, GotoTyped DEF RemoveLoad, AfterRemove, Return, Labels, Typed, TypeOK
<1>3. CASE Delete(g)
    BY <1>3, <1>p, GotoTyped DEF Delete, Labels, Typed, TypeOK
<1>4. CASE Unmap(g)
    BY <1>4, <1>p, GotoTyped DEF Unmap, AfterRemove, Return, Labels, Typed, TypeOK
<1> QED
    BY <1>1, <1>2, <1>3, <1>4 DEF CallStep

LEMMA NextTyped == Typed /\ [Next]_vars => Typed'
<1> SUFFICES ASSUME Typed, [Next]_vars PROVE Typed'
    OBVIOUS
<1> USE PortsAssumption
<1>p. Loop \in Procs /\ Callers \subseteq Procs
    BY DEF Procs
<1>1. ASSUME NEW c \in Callers, NEW p \in Ports, ListenOnPort(c, p) PROVE Typed'
    BY <1>1, <1>p, GotoTyped DEF ListenOnPort, Start, Labels, Typed, TypeOK
<1>2. ASSUME NEW c \in Callers, NEW p \in Ports, RemovePort(c, p) PROVE Typed'
    BY <1>2, <1>p, GotoTyped DEF RemovePort, Start, Labels, Typed, TypeOK
<1>3. ASSUME NEW p \in Ports, Packet(p) PROVE Typed'
    BY <1>3 DEF Packet, Typed, TypeOK, IdleHasNoPort, At, Port
<1>4. ASSUME NEW p \in Ports, Read(p) PROVE Typed'
    BY <1>4, <1>p, GotoTyped DEF Read, Start, Labels, Typed, TypeOK
<1>5. CASE Load
  <2>1. Port(Loop) \in Ports /\ Port(Loop) # None
      BY <1>5, <1>p DEF Load, Typed, TypeOK, At
  <2> QED
      BY <1>5, <1>p, <2>1, GotoTyped DEF Load, Return, Labels, Typed, TypeOK
<1>6. CASE Scale
  <2>1. Port(Loop) \in Ports /\ Port(Loop) # None
      BY <1>6, <1>p DEF Scale, Typed, TypeOK, At
  <2> QED
      BY <1>6, <1>p, <2>1, GotoTyped DEF Scale, Return, Labels, Typed, TypeOK
<1>7. CASE UNCHANGED vars
    BY <1>7 DEF vars, Typed, TypeOK, IdleHasNoPort, At, Port
<1> QED
    BY <1>1, <1>2, <1>3, <1>4, <1>5, <1>6, <1>7, CallTyped DEF Next

\* Type correctness: both maps hold published ports only, no counter of unread
\* events goes below zero, and a goroutine in a call works on a published port.
THEOREM TypeCorrect == Spec => []TypeOK
<1>1. Spec => []Typed
    BY InitTyped, NextTyped, PTL DEF Spec
<1>2. Typed => TypeOK
    BY DEF Typed
<1> QED
    BY <1>1, <1>2, PTL

(***************************************************************************)
(* One wake-up per registration.                                           *)
(***************************************************************************)
LEMMA NextWakesAreCovered == Typed /\ WakesAreCovered /\ [Next]_vars => WakesAreCovered'
<1> SUFFICES ASSUME Typed, WakesAreCovered, [Next]_vars, NEW p \in Ports
             PROVE  /\ wakes'[p] <= listens'[p]
                    /\ p \in portToServiceID' \/ Waking(p)' => wakes'[p] + 1 <= listens'[p]
                    /\ p \in portToServiceID' /\ Spent(p)' => wakes'[p] + 2 <= listens'[p]
    BY DEF WakesAreCovered
<1> USE PortsAssumption
<1>p. /\ Loop \in Procs /\ Callers \subseteq Procs
      /\ wakes[p] \in Nat /\ listens[p] \in Nat
    BY DEF Procs, Typed, TypeOK
<1>w. /\ wakes[p] <= listens[p]
      /\ p \in portToServiceID \/ Waking(p) => wakes[p] + 1 <= listens[p]
      /\ p \in portToServiceID /\ Spent(p) => wakes[p] + 2 <= listens[p]
    BY DEF WakesAreCovered
<1>1. ASSUME NEW c \in Callers, NEW q \in Ports, ListenOnPort(c, q)
      PROVE  (/\ wakes[p] <= listens[p]
              /\ p \in portToServiceID \/ Waking(p) => wakes[p] + 1 <= listens[p]
              /\ p \in portToServiceID /\ Spent(p) => wakes[p] + 2 <= listens[p])'
  <2>1. proc'[Loop] = proc[Loop] /\ wakes' = wakes
      BY <1>1, <1>p DEF Goto, TypeOK, ListenOnPort, Labels, Typed
  <2>2. CASE q = p
    <3>1. listens'[p] = listens[p] + 1
        BY <1>1, <2>2 DEF ListenOnPort, Typed, TypeOK
    <3>2. Spent(p)' => Waking(p)
        BY <2>1 DEF Spent, Waking, Port
    <3> QED
        BY <1>p, <1>w, <2>1, <3>1, <3>2
  <2>3. CASE q # p
    <3>1. listens'[p] = listens[p] /\ (p \in portToServiceID' <=> p \in portToServiceID)
        BY <1>1, <2>3 DEF ListenOnPort, Typed, TypeOK
    <3> QED
        BY <1>p, <1>w, <2>1, <3>1 DEF Spent, Waking, Port
  <2> QED
      BY <2>2, <2>3
<1>2. ASSUME NEW g \in Procs, g # Loop, CallStep(g) \/ \E q \in Ports : RemovePort(g, q)
      PROVE  /\ proc'[Loop] = proc[Loop]
             /\ UNCHANGED <<wakes, listens>>
             /\ portToServiceID' \subseteq portToServiceID
    BY <1>2, <1>p
       DEF Goto, TypeOK, CallStep, Update, RemoveLoad, Delete, Unmap, RemovePort, AfterRemove, Return,
           Labels, Typed
<1>3. CASE CallStep(Loop)
  <2>1. UNCHANGED <<wakes, listens>>
      BY <1>3 DEF CallStep, Update, RemoveLoad, Delete, Unmap
  <2>2. Waking(p)' => Waking(p)
      BY <1>3, <1>p
         DEF Goto, TypeOK, CallStep, Update, RemoveLoad, Delete, Unmap, AfterRemove, Return, Labels,
             Typed, Waking, At, Port
  <2>3. p \in portToServiceID' /\ Spent(p)' => p \in portToServiceID /\ Spent(p)
      BY <1>3, <1>p
         DEF Goto, TypeOK, CallStep, Update, RemoveLoad, Delete, Unmap, AfterRemove, Return, Labels,
             Typed, Spent, At, Port
  <2>4. portToServiceID' \subseteq portToServiceID
      BY <1>3 DEF CallStep, Update, RemoveLoad, Delete, Unmap
  <2> QED
      BY <1>w, <2>1, <2>2, <2>3, <2>4
<1>4. ASSUME NEW q \in Ports, Packet(q) \/ Read(q)
      PROVE  /\ UNCHANGED <<wakes, listens, portToServiceID>>
             /\ Waking(p)' => Waking(p)
             /\ Spent(p)' => Spent(p)
    BY <1>4, <1>p DEF Goto, TypeOK, Packet, Read, Labels, Typed, Waking, Spent, Port
<1>5. CASE Load
  <2>1. /\ UNCHANGED <<wakes, listens, portToServiceID>>
        /\ Waking(p)' => p \in portToServiceID
        /\ ~Spent(p)'
      BY <1>5, <1>p DEF Goto, TypeOK, Load, Return, Labels, Typed, Waking, Spent, Port
  <2> QED
      BY <1>w, <2>1
<1>6. CASE Scale
  <2>1. UNCHANGED <<listens, portToServiceID>> /\ ~Waking(p)' /\ ~Spent(p)'
      BY <1>6, <1>p DEF Goto, TypeOK, Scale, Return, Labels, Typed, Waking, Spent
  <2>2. CASE Port(Loop) = p
    <3>1. wakes'[p] = wakes[p] + 1 /\ Waking(p) /\ Spent(p)
        BY <1>6, <2>2 DEF Scale, Typed, TypeOK, Waking, Spent, At
    <3> QED
        BY <1>p, <1>w, <2>1, <3>1
  <2>3. CASE Port(Loop) # p
    <3>1. wakes'[p] = wakes[p]
        BY <1>6, <2>3 DEF Scale, Typed, TypeOK
    <3> QED
        BY <1>w, <2>1, <3>1
  <2> QED
      BY <2>2, <2>3
<1>7. CASE UNCHANGED vars
    BY <1>7, <1>w DEF vars, Waking, Spent, Port
<1>8. ASSUME NEW g \in Procs, g # Loop, CallStep(g) \/ \E q \in Ports : RemovePort(g, q)
      PROVE  (/\ wakes[p] <= listens[p]
              /\ p \in portToServiceID \/ Waking(p) => wakes[p] + 1 <= listens[p]
              /\ p \in portToServiceID /\ Spent(p) => wakes[p] + 2 <= listens[p])'
    BY <1>2, <1>8, <1>w DEF Waking, Spent, Port
<1>9. ASSUME NEW q \in Ports, Packet(q) \/ Read(q)
      PROVE  (/\ wakes[p] <= listens[p]
              /\ p \in portToServiceID \/ Waking(p) => wakes[p] + 1 <= listens[p]
              /\ p \in portToServiceID /\ Spent(p) => wakes[p] + 2 <= listens[p])'
    BY <1>4, <1>9, <1>w
<1> QED
    BY <1>p, <1>1, <1>3, <1>5, <1>6, <1>7, <1>8, <1>9 DEF Next

(***************************************************************************)
(* The two maps.                                                           *)
(***************************************************************************)
\* A call that starts on p leaves p unraced only if no other call is on it.
LEMMA StartsAlone ==
    ASSUME Typed, OneCall, NEW g \in Procs, NEW l \in Labels, NEW p \in Ports,
           At(g, "idle"), Start(p), Goto(g, l, p)
    PROVE  OneCall' /\ raced \subseteq raced' /\ (p \notin raced' => Quiet(p))
<1>1. raced \subseteq raced' /\ (p \notin raced' => Quiet(p))
    BY DEF Start
<1>2. proc'[g] = [pc |-> l, port |-> p] /\ \A h \in Procs \ {g} : proc'[h] = proc[h]
    BY DEF Goto, Typed, TypeOK
<1> QED
    BY <1>1, <1>2 DEF OneCall, Quiet, Port

\* A call that goes on, or returns, meets no other one.
LEMMA GoesOnAlone ==
    ASSUME Typed, OneCall, NEW g \in Procs, NEW l \in Labels,
           Goto(g, l, Port(g)) \/ Return(g), UNCHANGED raced
    PROVE  OneCall'
<1>1. proc'[g].port \in {Port(g), None} /\ \A h \in Procs \ {g} : proc'[h] = proc[h]
    BY DEF Goto, Return, Typed, TypeOK, Port
<1> QED
    BY <1>1, PortsAssumption DEF OneCall, Port

LEMMA NextOneCall == Typed /\ OneCall /\ [Next]_vars => OneCall'
<1> SUFFICES ASSUME Typed, OneCall, [Next]_vars PROVE OneCall'
    OBVIOUS
<1>p. Loop \in Procs /\ Callers \subseteq Procs /\ "load" \in Labels
    BY DEF Procs, Labels
<1>1. ASSUME NEW c \in Callers, NEW p \in Ports, ListenOnPort(c, p) \/ RemovePort(c, p)
      PROVE  OneCall'
    BY <1>1, <1>p, StartsAlone DEF ListenOnPort, RemovePort, Labels
<1>2. ASSUME NEW p \in Ports, Read(p) PROVE OneCall'
    BY <1>2, <1>p, StartsAlone DEF Read
<1>3. ASSUME NEW g \in Procs, CallStep(g) PROVE OneCall'
  <2>1. UNCHANGED raced /\ \E l \in Labels : Goto(g, l, Port(g)) \/ Return(g)
      BY <1>3 DEF CallStep, Update, RemoveLoad, Delete, Unmap, AfterRemove, Labels
  <2> QED
      BY <2>1, GoesOnAlone
<1>4. CASE Load \/ Scale
  <2>1. UNCHANGED raced /\ \E l \in Labels : Goto(Loop, l, Port(Loop)) \/ Return(Loop)
      BY <1>4 DEF Load, Scale, Labels
  <2> QED
      BY <1>p, <2>1, GoesOnAlone
<1>5. ASSUME NEW p \in Ports, Packet(p) PROVE OneCall'
    BY <1>5 DEF Packet, OneCall, Port
<1>6. CASE UNCHANGED vars
    BY <1>6 DEF vars, OneCall, Port
<1> QED
    BY <1>1, <1>2, <1>3, <1>4, <1>5, <1>6 DEF Next

\* The part of MapsInStep that is about one port.
InStep(p) ==
    /\ HalfWritten(p) \/ p \in refused \/ Agree(p)
    /\ \A g \in Procs : Port(g) = p =>
          /\ At(g, "update") => p \in portToServiceID
          /\ At(g, "unmap") => p \notin portToServiceID

\* A step of a goroutine that works on another port, before and after, and
\* leaves p alone in the maps.
LEMMA OtherPort ==
    ASSUME NEW p \in Ports, InStep(p), NEW g \in Procs,
           \A h \in Procs \ {g} : proc'[h] = proc[h],
           Port(g) # p, Port(g)' # p,
           p \in portToServiceID' <=> p \in portToServiceID,
           p \in portsMap' <=> p \in portsMap,
           p \in refused' <=> p \in refused
    PROVE  InStep(p)'
BY DEF InStep, HalfWritten, Agree, Port, At

\* The only goroutine that works on p moves on.
LEMMA OnlyCall ==
    ASSUME NEW p \in Ports, NEW g \in Procs,
           \A h \in Procs \ {g} : proc'[h] = proc[h] /\ Port(h) # p,
           \/ /\ At(g, "update")' /\ Port(g)' = p /\ p \in portToServiceID'
           \/ /\ At(g, "unmap")' /\ Port(g)' = p /\ p \notin portToServiceID'
           \/ /\ Port(g)' = p => proc'[g].pc \notin {"update", "unmap"}
              /\ p \in refused' \/ Agree(p)'
    PROVE  InStep(p)'
BY DEF InStep, HalfWritten, Agree, Port, At

\* Between the writes of a call nobody else is on the port.
LEMMA OnlyOne ==
    ASSUME Typed, OneCall, NEW p \in Ports \ raced, NEW g \in Procs, Port(g) = p
    PROVE  \A h \in Procs \ {g} : Port(h) # p
BY DEF OneCall

LEMMA NextMapsInStep == Typed /\ OneCall /\ MapsInStep /\ [Next]_vars => MapsInStep'
<1> SUFFICES ASSUME Typed, OneCall, MapsInStep, [Next]_vars, NEW p \in Ports \ raced'
             PROVE  InStep(p)'
    BY DEF MapsInStep, InStep
<1> USE PortsAssumption
<1>p. Loop \in Procs /\ Callers \subseteq Procs
    BY DEF Procs
<1>r. p \notin raced /\ InStep(p)
    BY DEF Next, ListenOnPort, RemovePort, CallStep, Update, RemoveLoad, Delete, Unmap,
           Packet, Read, Load, Scale, Start, vars, MapsInStep, InStep
<1>1. ASSUME NEW c \in Callers, NEW q \in Ports, ListenOnPort(c, q) PROVE InStep(p)'
  <2>1. /\ proc'[c] = [pc |-> "update", port |-> q] /\ Port(c) = None
        /\ \A h \in Procs \ {c} : proc'[h] = proc[h]
      BY <1>1, <1>p DEF ListenOnPort, Goto, Typed, TypeOK, IdleHasNoPort
  <2>2. CASE q = p
    <3>1. \A h \in Procs : Port(h) # p
        BY <1>1, <2>2 DEF ListenOnPort, Start, Quiet
    <3> QED
        BY <1>1, <1>p, <2>1, <2>2, <3>1, OnlyCall DEF ListenOnPort, At, Port
  <2>3. CASE q # p
      BY <1>1, <1>p, <1>r, <2>1, <2>3, OtherPort DEF ListenOnPort, Port
  <2> QED
      BY <2>2, <2>3
<1>2. ASSUME NEW c \in Callers, NEW q \in Ports, RemovePort(c, q) PROVE InStep(p)'
  <2>1. /\ proc'[c] = [pc |-> "remove", port |-> q] /\ Port(c) = None
        /\ \A h \in Procs \ {c} : proc'[h] = proc[h]
      BY <1>2, <1>p DEF RemovePort, Goto, Typed, TypeOK, IdleHasNoPort
  <2>2. CASE q = p
    <3>1. \A h \in Procs : Port(h) # p
        BY <1>2, <2>2 DEF RemovePort, Start, Quiet
    <3>2. p \in refused' \/ Agree(p)'
        BY <1>2, <1>r, <3>1 DEF RemovePort, InStep, HalfWritten, Agree
    <3> QED
        BY <1>p, <2>1, <3>1, <3>2, OnlyCall DEF Port
  <2>3. CASE q # p
      BY <1>2, <1>p, <1>r, <2>1, <2>3, OtherPort DEF RemovePort, Port
  <2> QED
      BY <2>2, <2>3
<1>3. ASSUME NEW q \in Ports, Read(q) PROVE InStep(p)'
  <2>1. /\ proc'[Loop] = [pc |-> "load", port |-> q] /\ Port(Loop) = None
        /\ \A h \in Procs \ {Loop} : proc'[h] = proc[h]
      BY <1>3, <1>p DEF Read, Goto, Typed, TypeOK, IdleHasNoPort
  <2>2. CASE q = p
    <3>1. \A h \in Procs : Port(h) # p
        BY <1>3, <2>2 DEF Read, Start, Quiet
    <3>2. p \in refused' \/ Agree(p)'
        BY <1>3, <1>r, <3>1 DEF Read, InStep, HalfWritten, Agree
    <3> QED
        BY <1>p, <2>1, <3>1, <3>2, OnlyCall DEF Port
  <2>3. CASE q # p
      BY <1>3, <1>p, <1>r, <2>1, <2>3, OtherPort DEF Read, Port
  <2> QED
      BY <2>2, <2>3
<1>4. ASSUME NEW g \in Procs, CallStep(g), Port(g) # p PROVE InStep(p)'
  <2>1. proc'[g].port \in {Port(g), None} /\ \A h \in Procs \ {g} : proc'[h] = proc[h]
      BY <1>4 DEF CallStep, Update, RemoveLoad, Delete, Unmap, AfterRemove, Return,
                  Goto, Typed, TypeOK, Port
  <2>2. /\ p \in portToServiceID' <=> p \in portToServiceID
        /\ p \in portsMap' <=> p \in portsMap
        /\ p \in refused' <=> p \in refused
      BY <1>4 DEF CallStep, Update, RemoveLoad, Delete, Unmap
  <2> QED
      BY <1>4, <1>r, <2>1, <2>2, OtherPort DEF Port
<1>5. ASSUME NEW g \in Procs, CallStep(g), Port(g) = p PROVE InStep(p)'
  <2>1. \A h \in Procs \ {g} : proc'[h] = proc[h] /\ Port(h) # p
      BY <1>5, <1>r, OnlyOne
         DEF CallStep, Update, RemoveLoad, Delete, Unmap, AfterRemove, Return, Goto,
             Typed, TypeOK
  <2>2. CASE Update(g)
    <3>1. proc'[g].port = None /\ p \in portToServiceID'
        BY <2>2, <1>5, <1>r DEF Update, Return, Goto, Typed, TypeOK, InStep
    <3>2. p \in refused' \/ Agree(p)'
        BY <2>2, <1>5, <3>1 DEF Update, Agree
    <3> QED
        BY <2>1, <3>1, <3>2, OnlyCall DEF Port
  <2>3. CASE RemoveLoad(g)
    <3>1. Port(g)' = p => proc'[g].pc \notin {"update", "unmap"}
        BY <2>3 DEF RemoveLoad, AfterRemove, Return, Goto, Typed, TypeOK, Port
    <3>2. p \in refused \/ Agree(p)
        BY <2>1, <2>3, <1>5, <1>r DEF RemoveLoad, InStep, HalfWritten, At
    <3> QED
        BY <2>1, <2>3, <3>1, <3>2, OnlyCall DEF RemoveLoad, Agree
  <2>4. CASE Delete(g)
    <3>1. proc'[g] = [pc |-> "unmap", port |-> p] /\ p \notin portToServiceID'
        BY <2>4, <1>5 DEF Delete, Goto, Typed, TypeOK
    <3> QED
        BY <2>1, <3>1, OnlyCall DEF At, Port
  <2>5. CASE Unmap(g)
    <3>1. Port(g)' = p => proc'[g].pc \notin {"update", "unmap"}
        BY <2>5 DEF Unmap, AfterRemove, Return, Goto, Typed, TypeOK, Port
    <3>2. Agree(p)'
        BY <2>5, <1>5, <1>r DEF Unmap, InStep, Agree
    <3> QED
        BY <2>1, <3>1, <3>2, OnlyCall
  <2> QED
      BY <1>5, <2>2, <2>3, <2>4, <2>5 DEF CallStep
<1>6. CASE Load \/ Scale
  <2>1. /\ \A h \in Procs \ {Loop} : proc'[h] = proc[h]
        /\ proc'[Loop].port \in {Port(Loop), None}
        /\ proc'[Loop].pc \in {"remove", "idle"} /\ ~At(Loop, "update") /\ ~At(Loop, "unmap")
        /\ UNCHANGED <<portToServiceID, portsMap, refused>>
      BY <1>6, <1>p DEF Load, Scale, Return, Goto, Typed, TypeOK, Port, At
  <2>2. CASE Port(Loop) = p
    <3>1. \A h \in Procs \ {Loop} : Port(h) # p
        BY <1>p, <1>r, <2>2, OnlyOne
    <3>2. p \in refused \/ Agree(p)
        BY <1>r, <2>1, <3>1 DEF InStep, HalfWritten, At
    <3> QED
        BY <1>p, <2>1, <3>1, <3>2, OnlyCall DEF Agree
  <2>3. CASE Port(Loop) # p
      BY <1>p, <1>r, <2>1, <2>3, OtherPort DEF Port
  <2> QED
      BY <2>2, <2>3
<1>7. ASSUME NEW q \in Ports, Packet(q) PROVE InStep(p)'
    BY <1>7, <1>r DEF Packet, InStep, HalfWritten, Agree, Port, At
<1>8. CASE UNCHANGED vars
    BY <1>8, <1>r DEF vars, InStep, HalfWritten, Agree, Port, At
<1> QED
    BY <1>1, <1>2, <1>3, <1>4, <1>5, <1>6, <1>7, <1>8 DEF Next

(***************************************************************************)
(* The theorems.                                                           *)
(***************************************************************************)
LEMMA InitIInv == Init => IInv
<1> SUFFICES ASSUME Init PROVE IInv
    OBVIOUS
<1>1. Typed
    BY InitTyped
<1>2. WakesAreCovered
    BY PortsAssumption DEF Init, WakesAreCovered, Waking, Spent, Port, Procs
<1>3. OneCall /\ MapsInStep
    BY PortsAssumption DEF Init, OneCall, MapsInStep, Agree, Port
<1> QED
    BY <1>1, <1>2, <1>3 DEF IInv, Typed

LEMMA Invariance == Spec => []IInv
<1>1. IInv /\ [Next]_vars => IInv'
    BY NextTyped, NextWakesAreCovered, NextOneCall, NextMapsInStep DEF IInv, Typed
<1> QED
    BY <1>1, InitIInv, PTL DEF Spec

\* A burst of packets, re-registrations and remove requests in any order: the loop
\* never asks for more scale-ups of a port than there were calls of ListenOnPort.
THEOREM BurstWakesOnce == Spec => []OneWakePerListen
<1>1. IInv => OneWakePerListen
    BY DEF IInv, WakesAreCovered, OneWakePerListen
<1> QED
    BY <1>1, Invariance, PTL

\* The Go map and the kernel's map agree on every port whose calls have not
\* overlapped and whose last ListenOnPort was not refused, whenever no call is on it.
THEOREM MapsStayInStep == Spec => []MapsAgree
<1>1. IInv => MapsAgree
    BY DEF IInv, MapsInStep, MapsAgree, HalfWritten, Agree, Quiet
<1> QED
    BY <1>1, Invariance, PTL
=============================================================================
