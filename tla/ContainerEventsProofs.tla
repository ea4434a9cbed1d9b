------------------------ MODULE ContainerEventsProofs ------------------------
(***************************************************************************)
(* Theorems about ContainerEvents, for every set of containers and every   *)
(* capacity of the channels.                                               *)
(***************************************************************************)
EXTENDS ContainerEvents, TLAPS

(***************************************************************************)
(* The inductive invariants.                                               *)
(***************************************************************************)
Ev(a, c) == [action |-> a, id |-> c]
Has(s, a, c) == \E i \in 1 .. Len(s) : s[i] = Ev(a, c)

\* A start of c in s has a die of c behind it.
DieBehind(s, c) ==
    \A i \in 1 .. Len(s) : s[i] = Ev("start", c) =>
        \E j \in 1 .. Len(s) : i < j /\ s[j] = Ev("die", c)

\* An event of c is on its way to the loop of main.
OnItsWay(a, c) == Has(past, a, c) \/ Has(eventsCh, a, c) \/ notifier = Sending(Ev(a, c))
StartPending(c) == OnItsWay("start", c) \/ Contains(StartChan, c)
DiePending(c)   == OnItsWay("die", c) \/ Contains(StopChan, c)

Tracked(c) == c \in listed \cup monitoringCtxMap

\* What has happened to c and main does not know is on its way, and a start
\* that is on its way though c is dead has the die behind it.
Followed(c) ==
    /\ status[c] = "new" => ~Tracked(c) /\ ~StartPending(c) /\ ~DiePending(c)
    /\ status[c] = "running" => /\ ~DiePending(c)
                                /\ main = "list" \/ Tracked(c) \/ StartPending(c)
    /\ status[c] = "dead" =>
         /\ Tracked(c) \/ Contains(StartChan, c) => DiePending(c)
         /\ DieBehind(past, c) /\ DieBehind(eventsCh, c)
         /\ notifier = Sending(Ev("start", c)) => Has(eventsCh, "die", c)
    /\ c \in monitoringCtxMap => c \in monitors

Follow == \A c \in Owned \ skipped : Followed(c)

\* The order in which main and ListenForEvents begin, and what is sent on.
Stages ==
    /\ main = "list" => listed = {} /\ monitoringCtxMap = {}
    /\ main = "select" => listed = {}
    /\ subscribed => past = <<>>
    /\ ~subscribed => /\ eventsCh = <<>> /\ notifier = Reading
                      /\ StartChan = <<>> /\ StopChan = <<>>
    /\ \A e \in Event : notifier = Sending(e) => e.id \in Owned

IInv == TypeOK /\ Stages /\ Follow

(***************************************************************************)
(* Events in a sequence.                                                   *)
(***************************************************************************)
LEMMA HasAppend ==
    ASSUME NEW s \in Seq(Event), NEW e \in Event, NEW a, NEW c
    PROVE  Has(Append(s, e), a, c) <=> Has(s, a, c) \/ e = Ev(a, c)
<1>1. ASSUME Has(s, a, c) PROVE Has(Append(s, e), a, c)
    BY <1>1 DEF Has
<1>2. ASSUME e = Ev(a, c) PROVE Has(Append(s, e), a, c)
  <2>1. Append(s, e)[Len(s) + 1] = e /\ Len(s) + 1 \in 1 .. Len(Append(s, e))
      OBVIOUS
  <2> QED
      BY <1>2, <2>1 DEF Has
<1>3. ASSUME Has(Append(s, e), a, c) PROVE Has(s, a, c) \/ e = Ev(a, c)
    BY <1>3 DEF Has
<1> QED
    BY <1>1, <1>2, <1>3

LEMMA HasTail ==
    ASSUME NEW s \in Seq(Event), s # <<>>, NEW a, NEW c
    PROVE  Has(s, a, c) <=> Head(s) = Ev(a, c) \/ Has(Tail(s), a, c)
<1>1. ASSUME Has(s, a, c), Head(s) # Ev(a, c) PROVE Has(Tail(s), a, c)
  <2>1. PICK i \in 1 .. Len(s) : s[i] = Ev(a, c)
      BY <1>1 DEF Has
  <2>2. i # 1 /\ i - 1 \in 1 .. Len(Tail(s)) /\ Tail(s)[i - 1] = s[i]
      BY <1>1, <2>1
  <2> QED
      BY <2>1, <2>2 DEF Has
<1>2. ASSUME Has(Tail(s), a, c) PROVE Has(s, a, c)
  <2>1. PICK i \in 1 .. Len(Tail(s)) : Tail(s)[i] = Ev(a, c)
      BY <1>2 DEF Has
  <2>2. i + 1 \in 1 .. Len(s) /\ s[i + 1] = Tail(s)[i]
      BY <2>1
  <2> QED
      BY <2>1, <2>2 DEF Has
<1>3. ASSUME Head(s) = Ev(a, c) PROVE Has(s, a, c)
  <2>1. 1 \in 1 .. Len(s) /\ s[1] = Head(s)
      OBVIOUS
  <2> QED
      BY <1>3, <2>1 DEF Has
<1> QED
    BY <1>1, <1>2, <1>3

LEMMA HasNone == \A a, c : ~Has(<<>>, a, c) /\ DieBehind(<<>>, c)
BY DEF Has, DieBehind

LEMMA BehindAppend ==
    ASSUME NEW s \in Seq(Event), NEW e \in Event, NEW c,
           e = Ev("die", c) \/ (e.id # c /\ DieBehind(s, c))
    PROVE  DieBehind(Append(s, e), c)
<1> DEFINE t == Append(s, e)
<1>1. /\ Len(t) = Len(s) + 1 /\ t[Len(s) + 1] = e /\ Len(s) \in Nat
      /\ \A i \in 1 .. Len(s) : t[i] = s[i]
    OBVIOUS
<1> HIDE DEF t
<1> SUFFICES ASSUME NEW i \in 1 .. Len(t), t[i] = Ev("start", c)
             PROVE  \E j \in 1 .. Len(t) : i < j /\ t[j] = Ev("die", c)
    BY DEF DieBehind, t
<1>2. i # Len(s) + 1
    BY <1>1 DEF Ev
<1>3. i \in 1 .. Len(s) /\ s[i] = Ev("start", c)
    BY <1>1, <1>2
<1>4. CASE e = Ev("die", c)
    BY <1>1, <1>3, <1>4
<1>5. CASE DieBehind(s, c)
    BY <1>1, <1>3, <1>5 DEF DieBehind
<1> QED
    BY <1>4, <1>5

LEMMA BehindTail ==
    ASSUME NEW s \in Seq(Event), s # <<>>, NEW c, DieBehind(s, c)
    PROVE  /\ DieBehind(Tail(s), c)
           /\ Head(s) = Ev("start", c) => Has(Tail(s), "die", c)
<1> DEFINE t == Tail(s)
<1>1. /\ Len(s) = Len(t) + 1 /\ Len(t) \in Nat /\ Head(s) = s[1]
      /\ \A i \in 1 .. Len(t) : t[i] = s[i + 1]
    OBVIOUS
<1> HIDE DEF t
<1>2. ASSUME NEW i \in 1 .. Len(t), t[i] = Ev("start", c)
      PROVE  \E j \in 1 .. Len(t) : i < j /\ t[j] = Ev("die", c)
  <2>1. PICK j \in 1 .. Len(s) : i + 1 < j /\ s[j] = Ev("die", c)
      BY <1>1, <1>2 DEF DieBehind
  <2>2. j - 1 \in 1 .. Len(t) /\ i < j - 1 /\ t[j - 1] = s[j]
      BY <1>1, <2>1
  <2> QED
      BY <2>1, <2>2
<1>3. ASSUME Head(s) = Ev("start", c) PROVE Has(t, "die", c)
  <2>1. PICK j \in 1 .. Len(s) : 1 < j /\ s[j] = Ev("die", c)
      BY <1>1, <1>3 DEF DieBehind
  <2>2. j - 1 \in 1 .. Len(t) /\ t[j - 1] = s[j]
      BY <1>1, <2>1
  <2> QED
      BY <2>1, <2>2 DEF Has
<1> QED
    BY <1>2, <1>3 DEF DieBehind, t

\* What is left of s when the first n events are dropped.
LEMMA Dropped ==
    ASSUME NEW s \in Seq(Event), NEW n \in 0 .. Len(s), NEW c
    PROVE  /\ SubSeq(s, n + 1, Len(s)) \in Seq(Event)
           /\ \A a : Has(SubSeq(s, n + 1, Len(s)), a, c) => Has(s, a, c)
           /\ \A a : Has(s, a, c) =>
                \/ Has(SubSeq(s, n + 1, Len(s)), a, c)
                \/ \E i \in 1 .. n : s[i].id = c
           /\ DieBehind(s, c) => DieBehind(SubSeq(s, n + 1, Len(s)), c)
<1> DEFINE t == SubSeq(s, n + 1, Len(s))
<1>1. /\ t \in Seq(Event) /\ Len(t) = Len(s) - n /\ Len(t) \in Nat
      /\ \A i \in 1 .. Len(t) : t[i] = s[n + i]
  <2>1. \A i \in n + 1 .. Len(s) : s[i] \in Event
      OBVIOUS
  <2>2. Len(s) \in Nat /\ n \in Nat /\ n <= Len(s)
      OBVIOUS
  <2>3. Len(t) = Len(s) - n
      BY <2>2
  <2>4. ASSUME NEW i \in 1 .. Len(t) PROVE t[i] = s[n + i]
      BY <2>2, <2>3
  <2>5. t \in Seq(Event)
      BY <2>1, <2>2
  <2> QED
      BY <2>2, <2>3, <2>4, <2>5
<1> HIDE DEF t
<1>2. ASSUME NEW a, Has(t, a, c) PROVE Has(s, a, c)
  <2>1. PICK i \in 1 .. Len(t) : t[i] = Ev(a, c)
      BY <1>2 DEF Has
  <2>2. n + i \in 1 .. Len(s) /\ s[n + i] = t[i]
      BY <1>1
  <2> QED
      BY <2>1, <2>2 DEF Has
<1>3. ASSUME NEW a, Has(s, a, c) PROVE Has(t, a, c) \/ \E i \in 1 .. n : s[i].id = c
  <2>1. PICK i \in 1 .. Len(s) : s[i] = Ev(a, c)
      BY <1>3 DEF Has
  <2>2. CASE i <= n
      BY <2>1, <2>2 DEF Ev
  <2>3. CASE i > n
    <3>1. i - n \in 1 .. Len(t) /\ t[i - n] = s[i]
        BY <1>1, <2>3
    <3> QED
        BY <2>1, <3>1 DEF Has
  <2> QED
      BY <2>2, <2>3
<1>4. ASSUME DieBehind(s, c) PROVE DieBehind(t, c)
  <2> SUFFICES ASSUME NEW i \in 1 .. Len(t), t[i] = Ev("start", c)
               PROVE  \E j \in 1 .. Len(t) : i < j /\ t[j] = Ev("die", c)
      BY DEF DieBehind
  <2>1. n + i \in 1 .. Len(s) /\ s[n + i] = Ev("start", c)
      BY <1>1
  <2>2. PICK j \in 1 .. Len(s) : n + i < j /\ s[j] = Ev("die", c)
      BY <1>4, <2>1 DEF DieBehind
  <2>3. j - n \in 1 .. Len(t) /\ i < j - n /\ t[j - n] = s[j]
      BY <1>1, <2>2
  <2> QED
      BY <2>2, <2>3
<1> QED
    BY <1>1, <1>2, <1>3, <1>4 DEF t

\* The two channels hold IDs.
LEMMA ChanAppend ==
    ASSUME NEW s \in Seq(Owned), NEW e \in Owned, NEW c
    PROVE  Contains(Append(s, e), c) <=> Contains(s, c) \/ e = c
<1>1. ASSUME Contains(s, c) PROVE Contains(Append(s, e), c)
    BY <1>1 DEF Contains
<1>2. ASSUME e = c PROVE Contains(Append(s, e), c)
  <2>1. Append(s, e)[Len(s) + 1] = e /\ Len(s) + 1 \in 1 .. Len(Append(s, e))
      OBVIOUS
  <2> QED
      BY <1>2, <2>1 DEF Contains
<1>3. ASSUME Contains(Append(s, e), c) PROVE Contains(s, c) \/ e = c
    BY <1>3 DEF Contains
<1> QED
    BY <1>1, <1>2, <1>3

LEMMA ChanTail ==
    ASSUME NEW s \in Seq(Owned), s # <<>>, NEW c
    PROVE  /\ Head(s) \in Owned /\ Tail(s) \in Seq(Owned)
           /\ Len(Tail(s)) = Len(s) - 1
           /\ Contains(s, c) <=> Head(s) = c \/ Contains(Tail(s), c)
<1>1. ASSUME Contains(s, c), Head(s) # c PROVE Contains(Tail(s), c)
  <2>1. PICK i \in 1 .. Len(s) : s[i] = c
      BY <1>1 DEF Contains
  <2>2. i # 1 /\ i - 1 \in 1 .. Len(Tail(s)) /\ Tail(s)[i - 1] = s[i]
      BY <1>1, <2>1
  <2> QED
      BY <2>1, <2>2 DEF Contains
<1>2. ASSUME Contains(Tail(s), c) PROVE Contains(s, c)
  <2>1. PICK i \in 1 .. Len(Tail(s)) : Tail(s)[i] = c
      BY <1>2 DEF Contains
  <2>2. i + 1 \in 1 .. Len(s) /\ s[i + 1] = Tail(s)[i]
      BY <2>1
  <2> QED
      BY <2>1, <2>2 DEF Contains
<1>3. ASSUME Head(s) = c PROVE Contains(s, c)
  <2>1. 1 \in 1 .. Len(s) /\ s[1] = Head(s)
      OBVIOUS
  <2> QED
      BY <1>3, <2>1 DEF Contains
<1>4. Head(s) \in Owned /\ Tail(s) \in Seq(Owned) /\ Len(Tail(s)) = Len(s) - 1
    OBVIOUS
<1> QED
    BY <1>1, <1>2, <1>3, <1>4

LEMMA ChanNone == \A c : ~Contains(<<>>, c)
BY DEF Contains

\* The forms of the notifier.
LEMMA NotifierForms ==
    /\ \A e : Sending(e) # Reading /\ Sending(e) # Stopped
    /\ \A e, f : Sending(e) = Sending(f) => e = f
    /\ Reading.pc # "send" /\ Stopped.pc # "send"
    /\ \A e : Sending(e).pc = "send" /\ Sending(e).event = e
<1>1. \A e : Sending(e).pc = "send" /\ Sending(e).event = e
    BY DEF Sending
<1>2. Reading.pc = "read" /\ Stopped.pc = "stopped"
    BY DEF Reading, Stopped
<1>3. \A e : Sending(e) # Reading /\ Sending(e) # Stopped
    BY <1>1, <1>2
<1>4. ASSUME NEW e, NEW f, Sending(e) = Sending(f) PROVE e = f
    BY <1>1, <1>4
<1> QED
    BY <1>1, <1>2, <1>3, <1>4

LEMMA EventTyped ==
    /\ \A e \in Event : e.id \in Containers /\ e.action \in {"start", "die"}
    /\ \A e \in Event : \A a, c : e = Ev(a, c) <=> e.action = a /\ e.id = c
    /\ \A a \in {"start", "die"}, c \in Containers : Ev(a, c) \in Event
BY DEF Event, Ev

LEMMA EmptyTyped == \A S : <<>> \in Seq(S) /\ Len(<<>>) = 0
OBVIOUS

LEMMA AppendTyped ==
    ASSUME NEW S, NEW s \in Seq(S), NEW e \in S
    PROVE  Append(s, e) \in Seq(S) /\ Len(Append(s, e)) = Len(s) + 1 /\ Len(s) \in Nat
OBVIOUS

LEMMA HeadTyped ==
    ASSUME NEW s \in Seq(Event), s # <<>>
    PROVE  Head(s) \in Event /\ Tail(s) \in Seq(Event)
OBVIOUS

LEMMA SendingForm ==
    ASSUME TypeOK, notifier.pc = "send"
    PROVE  \E e \in Event : notifier = Sending(e)
BY NotifierForms DEF TypeOK

(***************************************************************************)
(* Type correctness and the order of the start-up.                         *)
(***************************************************************************)
LEMMA InitIInv == Init => IInv
<1> SUFFICES ASSUME Init PROVE IInv
    OBVIOUS
<1>1. TypeOK
  <2>1. status \in [Containers -> {"new", "running", "dead"}]
      BY DEF Init
  <2>2. past \in Seq(Event) /\ eventsCh \in Seq(Event)
      BY EmptyTyped DEF Init
  <2>3. StartChan \in Seq(Owned) /\ StopChan \in Seq(Owned)
      BY EmptyTyped DEF Init
  <2>4. Len(StartChan) <= ChanCap /\ Len(StopChan) <= ChanCap
    <3>1. Len(StartChan) = 0 /\ Len(StopChan) = 0
        BY EmptyTyped DEF Init
    <3> QED
        BY <3>1, EventsAssumption
  <2> QED
      BY <2>1, <2>2, <2>3, <2>4 DEF Init, TypeOK
<1>2. Stages
    BY NotifierForms DEF Init, Stages
<1>3. Follow
  <2> SUFFICES ASSUME NEW c \in Owned PROVE Followed(c)
      BY DEF Follow
  <2>1. status[c] \in {"new", "running"}
      BY EventsAssumption DEF Init
  <2>2. \A a : ~OnItsWay(a, c)
      BY HasNone, NotifierForms DEF Init, OnItsWay
  <2>3. ~StartPending(c) /\ ~DiePending(c) /\ ~Tracked(c)
      BY <2>2, ChanNone DEF Init, StartPending, DiePending, Tracked
  <2> QED
      BY <2>1, <2>3 DEF Init, Followed
<1> QED
    BY <1>1, <1>2, <1>3 DEF IInv

LEMMA NextTypeOK == TypeOK /\ Stages /\ [Next]_vars => TypeOK'
<1> SUFFICES ASSUME TypeOK, Stages, [Next]_vars PROVE TypeOK'
    OBVIOUS
<1> USE EventsAssumption
<1>1. CASE UNCHANGED vars
    BY <1>1 DEF TypeOK, vars
<1>2. ASSUME NEW c \in Containers, ContainerStart(c) \/ ContainerDie(c) PROVE TypeOK'
  <2>1. PICK a \in {"start", "die"} : Emit(a, c)
      BY <1>2 DEF ContainerStart, ContainerDie
  <2>2. Ev(a, c) \in Event
      BY EventTyped
  <2>3. past' \in {past, Append(past, Ev(a, c))} /\ eventsCh' \in {eventsCh, Append(eventsCh, Ev(a, c))}
      BY <2>1 DEF Emit, Ev
  <2>4. past' \in Seq(Event) /\ eventsCh' \in Seq(Event)
    <3>1. \A s \in Seq(Event) : Append(s, Ev(a, c)) \in Seq(Event)
        BY <2>2, AppendTyped
    <3> QED
        BY <2>3, <3>1 DEF TypeOK
  <2> QED
      BY <1>2, <2>4 DEF TypeOK, ContainerStart, ContainerDie
<1>3. ASSUME NEW c \in Containers, MonitorExits(c) PROVE TypeOK'
    BY <1>3 DEF TypeOK, MonitorExits
<1>4. CASE Subscribe
  <2>1. PICK n \in 0 .. Len(past) :
          /\ eventsCh' = SubSeq(past, n + 1, Len(past))
          /\ skipped' = IF main = "list" THEN skipped ELSE skipped \cup
                          {past[i].id : i \in {j \in 1 .. n : InTheGap(past[j].id)}}
      BY <1>4 DEF Subscribe
  <2>2. eventsCh' \in Seq(Event)
      BY <2>1, Dropped DEF TypeOK
  <2>3. ASSUME NEW i \in 1 .. n PROVE past[i].id \in Containers
    <3>1. past[i] \in Event
        BY DEF TypeOK
    <3> QED
        BY <3>1, EventTyped
  <2>4. skipped' \subseteq Containers
      BY <2>1, <2>3 DEF TypeOK
  <2>5. past' = <<>> /\ past' \in Seq(Event)
      BY <1>4 DEF Subscribe
  <2> QED
      BY <1>4, <2>2, <2>4, <2>5 DEF TypeOK, Subscribe
<1>5. CASE ReadEvent
  <2>1. Head(eventsCh) \in Event /\ Tail(eventsCh) \in Seq(Event)
      BY <1>5, HeadTyped DEF TypeOK, ReadEvent
  <2>2. Head(eventsCh).id \in Containers
      BY <2>1, EventTyped
  <2>3. notifier' \in {Reading, Stopped} \cup {Sending(e) : e \in Event}
      BY <1>5, <2>1 DEF ReadEvent
  <2>4. skipped' \subseteq Containers
      BY <1>5, <2>2 DEF ReadEvent, TypeOK
  <2> QED
      BY <1>5, <2>1, <2>3, <2>4 DEF TypeOK, ReadEvent
<1>6. CASE SendEvent
  <2>1. PICK e \in Event : notifier = Sending(e)
      BY <1>6, SendingForm DEF SendEvent
  <2>2. notifier.event = e /\ e.id \in Owned
      BY <2>1, NotifierForms DEF Stages
  <2>3. StartChan' \in Seq(Owned) /\ Len(StartChan') <= ChanCap
    <3>1. CASE UNCHANGED StartChan
        BY <3>1 DEF TypeOK
    <3>2. CASE Len(StartChan) < ChanCap /\ StartChan' = Append(StartChan, e.id)
      <4>1. /\ StartChan' \in Seq(Owned) /\ Len(StartChan') = Len(StartChan) + 1
            /\ Len(StartChan) \in Nat
          BY <2>2, <3>2, AppendTyped DEF TypeOK
      <4> QED
          BY <3>2, <4>1
    <3> QED
        BY <1>6, <2>2, <3>1, <3>2 DEF SendEvent
  <2>4. StopChan' \in Seq(Owned) /\ Len(StopChan') <= ChanCap
    <3>1. CASE UNCHANGED StopChan
        BY <3>1 DEF TypeOK
    <3>2. CASE Len(StopChan) < ChanCap /\ StopChan' = Append(StopChan, e.id)
      <4>1. /\ StopChan' \in Seq(Owned) /\ Len(StopChan') = Len(StopChan) + 1
            /\ Len(StopChan) \in Nat
          BY <2>2, <3>2, AppendTyped DEF TypeOK
      <4> QED
          BY <3>2, <4>1
    <3> QED
        BY <1>6, <2>2, <3>1, <3>2 DEF SendEvent
  <2> QED
      BY <1>6, <2>3, <2>4 DEF TypeOK, SendEvent
<1>7. CASE StreamFails
    BY <1>7 DEF TypeOK, StreamFails
<1>8. CASE GetRunningContainers
  <2>1. PICK result :
          /\ \A c \in {d \in Containers : status[d] = "running"} :
                result[c] \in CheckOwnedContainer(c)
          /\ listed' = {c \in {d \in Containers : status[d] = "running"} :
                            result[c] = "owned"}
          /\ skipped' = skipped \cup {c \in {d \in Containers : status[d] = "running"} :
                                        result[c] = "error"}
      BY <1>8 DEF GetRunningContainers
  <2>2. listed' \subseteq Owned
      BY <2>1 DEF CheckOwnedContainer
  <2>3. skipped' \subseteq Containers
      BY <2>1 DEF TypeOK
  <2> QED
      BY <1>8, <2>2, <2>3 DEF TypeOK, GetRunningContainers
<1>9. CASE EnterSelect
    BY <1>9 DEF TypeOK, EnterSelect
<1>10. ASSUME NEW c \in Containers, StartListed(c) PROVE TypeOK'
    BY <1>10 DEF TypeOK, StartListed, startMonitoring
<1>11. CASE TakeStart
  <2>1. /\ Head(StartChan) \in Owned /\ Tail(StartChan) \in Seq(Owned)
        /\ Len(Tail(StartChan)) <= ChanCap
      BY <1>11, ChanTail DEF TypeOK, TakeStart
  <2> QED
      BY <1>11, <2>1 DEF TypeOK, TakeStart, startMonitoring
<1>12. CASE TakeStop
  <2>1. /\ Head(StopChan) \in Owned /\ Tail(StopChan) \in Seq(Owned)
        /\ Len(Tail(StopChan)) <= ChanCap
      BY <1>12, ChanTail DEF TypeOK, TakeStop
  <2> QED
      BY <1>12, <2>1 DEF TypeOK, TakeStop
<1>13. CASE ProcessRestart
  <2>2. past' \in Seq(Event) /\ eventsCh' \in Seq(Event)
      BY <1>13, EmptyTyped DEF ProcessRestart
  <2>3. StartChan' \in Seq(Owned) /\ StopChan' \in Seq(Owned)
      BY <1>13, EmptyTyped DEF ProcessRestart
  <2>4. Len(StartChan') <= ChanCap /\ Len(StopChan') <= ChanCap
    <3>1. Len(StartChan') = 0 /\ Len(StopChan') = 0
        BY <1>13, EmptyTyped DEF ProcessRestart
    <3> QED
        BY <3>1, EventsAssumption
  <2> QED
      BY <1>13, <2>2, <2>3, <2>4 DEF ProcessRestart, TypeOK
<1> QED
    BY <1>1, <1>2, <1>3, <1>4, <1>5, <1>6, <1>7, <1>8, <1>9, <1>10, <1>11, <1>12, <1>13
    DEF Next, NotifierStep, MainStep

LEMMA NextStages == TypeOK /\ Stages /\ [Next]_vars => Stages'
<1> SUFFICES ASSUME TypeOK, Stages, [Next]_vars PROVE Stages'
    OBVIOUS
<1> USE EventsAssumption
<1>1. CASE UNCHANGED vars
    BY <1>1 DEF Stages, vars
<1>2. ASSUME NEW c \in Containers, ContainerStart(c) \/ ContainerDie(c) PROVE Stages'
    BY <1>2 DEF Stages, ContainerStart, ContainerDie, Emit
<1>3. ASSUME NEW c \in Containers, MonitorExits(c) PROVE Stages'
    BY <1>3 DEF Stages, MonitorExits
<1>4. CASE Subscribe
    BY <1>4 DEF Stages, Subscribe
<1>5. CASE ReadEvent
  <2>1. subscribed /\ subscribed' /\ past' = <<>>
      BY <1>5 DEF ReadEvent, Stages
  <2>2. Head(eventsCh).id \in Containers
      BY <1>5, HeadTyped, EventTyped DEF TypeOK, ReadEvent
  <2>3. notifier' = Reading \/ (notifier' = Sending(Head(eventsCh)) /\ Head(eventsCh).id \in Owned)
      BY <1>5, <2>2 DEF ReadEvent, CheckOwnedContainer
  <2>4. \A e \in Event : notifier' = Sending(e) => e.id \in Owned
      BY <2>3, NotifierForms
  <2> QED
      BY <1>5, <2>1, <2>4 DEF Stages, ReadEvent
<1>6. CASE SendEvent
  <2>1. subscribed
      BY <1>6, NotifierForms DEF SendEvent, Stages
  <2> QED
      BY <1>6, <2>1, NotifierForms DEF Stages, SendEvent
<1>7. CASE StreamFails
    BY <1>7, NotifierForms DEF Stages, StreamFails
<1>8. CASE GetRunningContainers
    BY <1>8 DEF Stages, GetRunningContainers
<1>9. CASE EnterSelect
    BY <1>9 DEF Stages, EnterSelect
<1>10. ASSUME NEW c \in Containers, StartListed(c) PROVE Stages'
    BY <1>10 DEF Stages, StartListed
<1>11. CASE TakeStart
    BY <1>11 DEF Stages, TakeStart
<1>12. CASE TakeStop
    BY <1>12 DEF Stages, TakeStop
<1>13. CASE ProcessRestart
    BY <1>13, NotifierForms DEF Stages, ProcessRestart
<1> QED
    BY <1>1, <1>2, <1>3, <1>4, <1>5, <1>6, <1>7, <1>8, <1>9, <1>10, <1>11, <1>12, <1>13
    DEF Next, NotifierStep, MainStep

(***************************************************************************)
(* Every step keeps track of a container that it does not put on record.   *)
(***************************************************************************)
LEMMA EmitReports ==
    ASSUME TypeOK, Stages, NEW a \in {"start", "die"}, NEW d \in Containers, NEW c,
           Emit(a, d)
    PROVE  /\ \A b : Has(past', b, c) \/ Has(eventsCh', b, c) <=>
                        Has(past, b, c) \/ Has(eventsCh, b, c) \/ (b = a /\ c = d)
           /\ Has(eventsCh, "die", c) => Has(eventsCh', "die", c)
           /\ subscribed /\ a = "die" /\ c = d => Has(eventsCh', "die", c)
           /\ \/ a = "die" /\ c = d
              \/ c # d /\ DieBehind(past, c) /\ DieBehind(eventsCh, c)
              => DieBehind(past', c) /\ DieBehind(eventsCh', c)
<1>1. PICK e \in Event : e = Ev(a, d)
    BY EventTyped
<1>2. e.id = d /\ \A b : e = Ev(b, c) <=> b = a /\ c = d
    BY <1>1, EventTyped
<1>3. past \in Seq(Event) /\ eventsCh \in Seq(Event)
    BY DEF TypeOK
<1>4. CASE subscribed
  <2>1. past' = past /\ past = <<>> /\ eventsCh' = Append(eventsCh, e)
      BY <1>1, <1>4 DEF Emit, Ev, Stages
  <2>2. \A b : Has(eventsCh', b, c) <=> Has(eventsCh, b, c) \/ e = Ev(b, c)
      BY <1>3, <2>1, HasAppend
  <2>3. e = Ev("die", c) \/ (e.id # c /\ DieBehind(eventsCh, c)) => DieBehind(eventsCh', c)
      BY <1>3, <2>1, BehindAppend
  <2>4. DieBehind(past', c)
      BY <2>1, HasNone
  <2> QED
      BY <1>2, <2>1, <2>2, <2>3, <2>4
<1>5. CASE ~subscribed
  <2>1. past' = Append(past, e) /\ eventsCh' = eventsCh /\ eventsCh = <<>>
      BY <1>1, <1>5 DEF Emit, Ev, Stages
  <2>2. \A b : Has(past', b, c) <=> Has(past, b, c) \/ e = Ev(b, c)
      BY <1>3, <2>1, HasAppend
  <2>3. e = Ev("die", c) \/ (e.id # c /\ DieBehind(past, c)) => DieBehind(past', c)
      BY <1>3, <2>1, BehindAppend
  <2>4. DieBehind(eventsCh', c)
      BY <2>1, HasNone
  <2> QED
      BY <1>2, <1>5, <2>1, <2>2, <2>3, <2>4
<1> QED
    BY <1>4, <1>5

LEMMA StartFollows ==
    ASSUME TypeOK, Stages, NEW c \in Owned, Followed(c), NEW d \in Containers,
           ContainerStart(d)
    PROVE  Followed(c)'
<1>1. /\ \A b : Has(past', b, c) \/ Has(eventsCh', b, c) <=>
                   Has(past, b, c) \/ Has(eventsCh, b, c) \/ (b = "start" /\ c = d)
      /\ Has(eventsCh, "die", c) => Has(eventsCh', "die", c)
      /\ c # d /\ DieBehind(past, c) /\ DieBehind(eventsCh, c)
           => DieBehind(past', c) /\ DieBehind(eventsCh', c)
  <2>1. Emit("start", d)
      BY DEF ContainerStart
  <2> QED
      BY <2>1, EmitReports
<1>2. StartPending(c)' <=> StartPending(c) \/ c = d
    BY <1>1 DEF ContainerStart, StartPending, OnItsWay
<1>3. DiePending(c)' <=> DiePending(c)
    BY <1>1 DEF ContainerStart, DiePending, OnItsWay
<1>4. Tracked(c)' <=> Tracked(c)
    BY DEF ContainerStart, Tracked
<1>5. CASE c = d
  <2>1. status[c] = "new" /\ status'[c] = "running"
      BY <1>5 DEF ContainerStart, TypeOK
  <2> QED
      BY <1>2, <1>3, <1>4, <1>5, <2>1 DEF Followed, ContainerStart
<1>6. CASE c # d
  <2>1. status'[c] = status[c]
      BY <1>6 DEF ContainerStart, TypeOK
  <2> QED
      BY <1>1, <1>2, <1>3, <1>4, <1>6, <2>1 DEF Followed, ContainerStart
<1> QED
    BY <1>5, <1>6

LEMMA DieFollows ==
    ASSUME TypeOK, Stages, NEW c \in Owned, Followed(c), NEW d \in Containers,
           ContainerDie(d)
    PROVE  Followed(c)'
<1>1. /\ \A b : Has(past', b, c) \/ Has(eventsCh', b, c) <=>
                   Has(past, b, c) \/ Has(eventsCh, b, c) \/ (b = "die" /\ c = d)
      /\ Has(eventsCh, "die", c) => Has(eventsCh', "die", c)
      /\ subscribed /\ c = d => Has(eventsCh', "die", c)
      /\ \/ c = d
         \/ c # d /\ DieBehind(past, c) /\ DieBehind(eventsCh, c)
         => DieBehind(past', c) /\ DieBehind(eventsCh', c)
  <2>1. Emit("die", d)
      BY DEF ContainerDie
  <2> QED
      BY <2>1, EmitReports
<1>2. StartPending(c)' <=> StartPending(c)
    BY <1>1 DEF ContainerDie, StartPending, OnItsWay
<1>3. DiePending(c)' <=> DiePending(c) \/ c = d
    BY <1>1 DEF ContainerDie, DiePending, OnItsWay
<1>4. Tracked(c)' <=> Tracked(c)
    BY DEF ContainerDie, Tracked
<1>5. CASE c = d
  <2>1. status[c] = "running" /\ status'[c] = "dead"
      BY <1>5 DEF ContainerDie, TypeOK
  <2>2. notifier' = Sending(Ev("start", c)) => subscribed
      BY NotifierForms DEF Stages, ContainerDie
  <2> QED
      BY <1>1, <1>3, <1>5, <2>1, <2>2 DEF Followed, ContainerDie
<1>6. CASE c # d
  <2>1. status'[c] = status[c]
      BY <1>6 DEF ContainerDie, TypeOK
  <2> QED
      BY <1>1, <1>2, <1>3, <1>4, <1>6, <2>1 DEF Followed, ContainerDie
<1> QED
    BY <1>5, <1>6

LEMMA SubscribeFollows ==
    ASSUME TypeOK, Stages, NEW c \in Owned, c \notin skipped', Followed(c), Subscribe
    PROVE  Followed(c)'
<1>1. PICK n \in 0 .. Len(past) :
        /\ eventsCh' = SubSeq(past, n + 1, Len(past))
        /\ skipped' = IF main = "list" THEN skipped ELSE skipped \cup
                        {past[i].id : i \in {j \in 1 .. n : InTheGap(past[j].id)}}
    BY DEF Subscribe
<1>2. /\ \A a : Has(eventsCh', a, c) => Has(past, a, c)
      /\ \A a : Has(past, a, c) => Has(eventsCh', a, c) \/ \E i \in 1 .. n : past[i].id = c
      /\ DieBehind(past, c) => DieBehind(eventsCh', c)
    BY <1>1, Dropped DEF TypeOK
<1>3. \A i \in 1 .. n : past[i].id = c /\ main # "list" => ~InTheGap(c)
    BY <1>1
<1>4. /\ past' = <<>> /\ eventsCh = <<>> /\ notifier = Reading /\ notifier' = Reading
      /\ StartChan' = <<>> /\ StopChan' = <<>> /\ StartChan = <<>> /\ StopChan = <<>>
    BY DEF Subscribe, Stages
<1>5. /\ StartPending(c) <=> Has(past, "start", c)
      /\ DiePending(c) <=> Has(past, "die", c)
    BY <1>4, HasNone, ChanNone, NotifierForms DEF StartPending, DiePending, OnItsWay
<1>6. /\ StartPending(c)' <=> Has(eventsCh', "start", c)
      /\ DiePending(c)' <=> Has(eventsCh', "die", c)
    BY <1>4, HasNone, ChanNone, NotifierForms DEF StartPending, DiePending, OnItsWay
<1>7. (Tracked(c)' <=> Tracked(c)) /\ status' = status /\ main' = main
    BY DEF Subscribe, Tracked
<1>8. InTheGap(c) <=> (status[c] = "running" <=> ~Tracked(c))
    BY DEF InTheGap, Tracked
<1>9. main = "list" => ~Tracked(c)
    BY DEF Stages, Tracked
<1>10. CASE status[c] = "new"
    BY <1>2, <1>5, <1>6, <1>7, <1>10 DEF Followed, Subscribe
<1>11. CASE status[c] = "running"
    BY <1>2, <1>3, <1>5, <1>6, <1>7, <1>8, <1>11 DEF Followed, Subscribe
<1>12. CASE status[c] = "dead"
  <2>1. Tracked(c)' => DiePending(c)'
      BY <1>2, <1>3, <1>5, <1>6, <1>7, <1>8, <1>9, <1>12 DEF Followed
  <2>2. ~Contains(StartChan', c) /\ DieBehind(past', c) /\ DieBehind(eventsCh', c)
      BY <1>2, <1>4, <1>12, HasNone, ChanNone DEF Followed
  <2>3. notifier' # Sending(Ev("start", c))
      BY <1>4, NotifierForms
  <2> QED
      BY <1>7, <1>12, <2>1, <2>2, <2>3 DEF Followed, Subscribe
<1> QED
    BY <1>10, <1>11, <1>12, EventsAssumption DEF TypeOK

LEMMA ReadFollows ==
    ASSUME TypeOK, Stages, NEW c \in Owned, c \notin skipped', Followed(c), ReadEvent
    PROVE  Followed(c)'
<1>1. PICK e \in Event : e = Head(eventsCh)
    BY HeadTyped DEF TypeOK, ReadEvent
<1>2. \A a : Has(eventsCh, a, c) <=> e = Ev(a, c) \/ Has(eventsCh', a, c)
    BY <1>1, HasTail DEF TypeOK, ReadEvent
<1>3. DieBehind(eventsCh, c) => /\ DieBehind(eventsCh', c)
                                /\ e = Ev("start", c) => Has(eventsCh', "die", c)
    BY <1>1, BehindTail DEF TypeOK, ReadEvent
<1>4. notifier' = Sending(e) \/ (notifier' = Reading /\ e.id # c)
    BY <1>1 DEF ReadEvent, CheckOwnedContainer
<1>5. \A a : notifier' = Sending(Ev(a, c)) <=> e = Ev(a, c)
    BY <1>4, NotifierForms, EventTyped
<1>6. \A a : notifier # Sending(Ev(a, c))
    BY NotifierForms DEF ReadEvent
<1>7. \A a : OnItsWay(a, c)' <=> OnItsWay(a, c)
    BY <1>2, <1>5, <1>6 DEF OnItsWay, ReadEvent
<1>8. (StartPending(c)' <=> StartPending(c)) /\ (DiePending(c)' <=> DiePending(c))
    BY <1>7 DEF StartPending, DiePending, ReadEvent
<1>9. Tracked(c)' <=> Tracked(c)
    BY DEF Tracked, ReadEvent
<1> QED
    BY <1>3, <1>5, <1>8, <1>9 DEF Followed, ReadEvent

LEMMA SendFollows ==
    ASSUME TypeOK, Stages, NEW c \in Owned, Followed(c), SendEvent
    PROVE  Followed(c)'
<1>1. PICK e \in Event : notifier = Sending(e)
    BY SendingForm DEF SendEvent
<1>2. notifier.event = e /\ e.id \in Owned
    BY <1>1, NotifierForms DEF Stages
<1>3. \A a : notifier = Sending(Ev(a, c)) <=> e = Ev(a, c)
    BY <1>1, NotifierForms
<1>4. \A a : notifier' # Sending(Ev(a, c))
    BY NotifierForms DEF SendEvent
<1>5. Contains(StartChan', c) <=> Contains(StartChan, c) \/ e = Ev("start", c)
  <2>1. \/ e.action = "start" /\ StartChan' = Append(StartChan, e.id)
        \/ e.action # "start" /\ StartChan' = StartChan
      BY <1>2 DEF SendEvent
  <2>2. Contains(Append(StartChan, e.id), c) <=> Contains(StartChan, c) \/ e.id = c
      BY <1>2, ChanAppend DEF TypeOK
  <2>3. e = Ev("start", c) <=> e.action = "start" /\ e.id = c
      BY EventTyped
  <2> QED
      BY <2>1, <2>2, <2>3
<1>6. Contains(StopChan', c) <=> Contains(StopChan, c) \/ e = Ev("die", c)
  <2>1. \/ e.action = "die" /\ StopChan' = Append(StopChan, e.id)
        \/ e.action # "die" /\ StopChan' = StopChan
      BY <1>2 DEF SendEvent
  <2>2. Contains(Append(StopChan, e.id), c) <=> Contains(StopChan, c) \/ e.id = c
      BY <1>2, ChanAppend DEF TypeOK
  <2>3. e = Ev("die", c) <=> e.action = "die" /\ e.id = c
      BY EventTyped
  <2> QED
      BY <2>1, <2>2, <2>3
<1>7. StartPending(c)' <=> StartPending(c)
    BY <1>3, <1>4, <1>5 DEF StartPending, OnItsWay, SendEvent
<1>8. DiePending(c)' <=> DiePending(c)
    BY <1>3, <1>4, <1>6 DEF DiePending, OnItsWay, SendEvent
<1>9. Tracked(c)' <=> Tracked(c)
    BY DEF Tracked, SendEvent
<1>10. status[c] = "dead" /\ e = Ev("start", c) => DiePending(c)
    BY <1>3 DEF Followed, DiePending, OnItsWay
<1> QED
    BY <1>4, <1>5, <1>7, <1>8, <1>9, <1>10 DEF Followed, SendEvent

LEMMA StartListedFollows ==
    ASSUME TypeOK, NEW c \in Owned, Followed(c), NEW d \in Containers, StartListed(d)
    PROVE  Followed(c)'
<1>1. (StartPending(c)' <=> StartPending(c)) /\ (DiePending(c)' <=> DiePending(c))
    BY DEF StartListed, StartPending, DiePending, OnItsWay
<1>2. Tracked(c)' <=> Tracked(c)
    BY DEF Tracked, StartListed, startMonitoring
<1>3. c \in monitoringCtxMap' => c \in monitors'
    BY DEF Followed, StartListed, startMonitoring
<1> QED
    BY <1>1, <1>2, <1>3 DEF Followed, StartListed

LEMMA TakeStartFollows ==
    ASSUME TypeOK, NEW c \in Owned, Followed(c), TakeStart
    PROVE  Followed(c)'
<1>1. PICK d \in Owned : d = Head(StartChan)
    BY ChanTail DEF TypeOK, TakeStart
<1>2. Contains(StartChan, c) <=> d = c \/ Contains(StartChan', c)
    BY <1>1, ChanTail DEF TypeOK, TakeStart
<1>3. StartPending(c) <=> StartPending(c)' \/ d = c
    BY <1>2 DEF TakeStart, StartPending, OnItsWay
<1>4. DiePending(c)' <=> DiePending(c)
    BY DEF TakeStart, DiePending, OnItsWay
<1>5. Tracked(c)' <=> Tracked(c) \/ d = c
    BY <1>1 DEF Tracked, TakeStart, startMonitoring
<1>6. c \in monitoringCtxMap' => c \in monitors'
    BY <1>1 DEF Followed, TakeStart, startMonitoring
<1> QED
    BY <1>2, <1>3, <1>4, <1>5, <1>6 DEF Followed, TakeStart

LEMMA TakeStopFollows ==
    ASSUME TypeOK, Stages, NEW c \in Owned, c \notin skipped', Followed(c), TakeStop
    PROVE  Followed(c)'
<1>1. PICK d \in Owned : d = Head(StopChan)
    BY ChanTail DEF TypeOK, TakeStop
<1>2. Contains(StopChan, c) <=> d = c \/ Contains(StopChan', c)
    BY <1>1, ChanTail DEF TypeOK, TakeStop
<1>3. DiePending(c) <=> DiePending(c)' \/ d = c
    BY <1>2 DEF TakeStop, DiePending, OnItsWay
<1>4. StartPending(c)' <=> StartPending(c)
    BY DEF TakeStop, StartPending, OnItsWay
<1>5. Tracked(c)' <=> Tracked(c) /\ d # c
    BY <1>1 DEF Tracked, TakeStop, Stages
<1>6. c \in monitoringCtxMap' => c \in monitors'
    BY <1>1 DEF Followed, TakeStop
<1>7. ~(d = c /\ Contains(StartChan', c))
    BY <1>1 DEF TakeStop
<1>8. status[c] \in {"new", "running", "dead"}
    BY EventsAssumption DEF TypeOK
<1>9. CASE d = c
  <2>1. status[c] = "dead"
      BY <1>3, <1>8, <1>9 DEF Followed
  <2> QED
      BY <1>5, <1>6, <1>7, <1>9, <2>1 DEF Followed, TakeStop
<1>10. CASE d # c
    BY <1>3, <1>4, <1>5, <1>6, <1>10 DEF Followed, TakeStop
<1> QED
    BY <1>9, <1>10

LEMMA ListFollows ==
    ASSUME TypeOK, Stages, NEW c \in Owned, c \notin skipped', Followed(c),
           GetRunningContainers
    PROVE  Followed(c)'
<1>1. c \in Containers /\ listed = {} /\ monitoringCtxMap = {}
    BY EventsAssumption DEF Stages, GetRunningContainers
<1>2. c \in listed' <=> status[c] = "running"
    BY <1>1 DEF GetRunningContainers, CheckOwnedContainer
<1>3. (StartPending(c)' <=> StartPending(c)) /\ (DiePending(c)' <=> DiePending(c))
    BY DEF GetRunningContainers, StartPending, DiePending, OnItsWay
<1>4. /\ Tracked(c)' <=> status[c] = "running"
      /\ ~Tracked(c)
    BY <1>1, <1>2 DEF Tracked, GetRunningContainers
<1> QED
    BY <1>3, <1>4 DEF Followed, GetRunningContainers

\* Nothing of c changes.
LEMMA SameFollows ==
    ASSUME NEW c, Followed(c),
           UNCHANGED <<status, past, eventsCh, StartChan, StopChan, listed, monitoringCtxMap>>,
           main = "list" => main' = "list",
           c \in monitors' <=> c \in monitors,
           \A e : notifier' = Sending(e) <=> notifier = Sending(e)
    PROVE  Followed(c)'
<1>1. (StartPending(c)' <=> StartPending(c)) /\ (DiePending(c)' <=> DiePending(c))
    BY DEF StartPending, DiePending, OnItsWay
<1>2. Tracked(c)' <=> Tracked(c)
    BY DEF Tracked
<1> QED
    BY <1>1, <1>2 DEF Followed

LEMMA RestartFollows ==
    ASSUME TypeOK, NEW c \in Owned, ProcessRestart
    PROVE  Followed(c)'
<1>1. \A a : ~OnItsWay(a, c)'
    BY HasNone, NotifierForms DEF ProcessRestart, OnItsWay
<1>2. ~StartPending(c)' /\ ~DiePending(c)' /\ ~Tracked(c)'
    BY <1>1, ChanNone DEF ProcessRestart, StartPending, DiePending, Tracked
<1>3. ~Contains(StartChan', c) /\ DieBehind(past', c) /\ DieBehind(eventsCh', c)
    BY HasNone, ChanNone DEF ProcessRestart
<1>4. notifier' # Sending(Ev("start", c))
    BY NotifierForms DEF ProcessRestart
<1> QED
    BY <1>2, <1>3, <1>4 DEF Followed, ProcessRestart

LEMMA NextFollow == IInv /\ [Next]_vars => Follow'
<1> SUFFICES ASSUME TypeOK, Stages, Follow, [Next]_vars,
                    NEW c \in Owned, c \notin skipped'
             PROVE  Followed(c)'
    BY DEF IInv, Follow
<1> USE EventsAssumption
<1>1. CASE ProcessRestart
    BY <1>1, RestartFollows
<1>2. CASE ~ProcessRestart
  <2>1. skipped \subseteq skipped'
    <3>1. CASE UNCHANGED skipped
        BY <3>1
    <3>2. CASE Subscribe \/ ReadEvent \/ GetRunningContainers \/ TakeStop
        BY <3>2 DEF Subscribe, ReadEvent, GetRunningContainers, TakeStop
    <3>3. ASSUME NEW d \in Containers, MonitorExits(d) PROVE skipped \subseteq skipped'
        BY <3>3 DEF MonitorExits
    <3> QED
        BY <1>2, <3>1, <3>2, <3>3
        DEF Next, NotifierStep, MainStep, vars, ContainerStart, ContainerDie, SendEvent,
            StreamFails, StartListed, EnterSelect, TakeStart
  <2>2. Followed(c)
      BY <2>1 DEF Follow
  <2>3. CASE UNCHANGED vars
      BY <2>2, <2>3, SameFollows DEF vars
  <2>4. ASSUME NEW d \in Containers, ContainerStart(d) PROVE Followed(c)'
      BY <2>2, <2>4, StartFollows
  <2>5. ASSUME NEW d \in Containers, ContainerDie(d) PROVE Followed(c)'
      BY <2>2, <2>5, DieFollows
  <2>6. ASSUME NEW d \in Containers, MonitorExits(d) PROVE Followed(c)'
    <3>1. c \in monitors' <=> c \in monitors
        BY <2>6 DEF MonitorExits
    <3> QED
        BY <2>2, <2>6, <3>1, SameFollows DEF MonitorExits
  <2>7. CASE Subscribe
      BY <2>2, <2>7, SubscribeFollows
  <2>8. CASE ReadEvent
      BY <2>2, <2>8, ReadFollows
  <2>9. CASE SendEvent
      BY <2>2, <2>9, SendFollows
  <2>10. CASE StreamFails
    <3>1. \A e : notifier' # Sending(e) /\ notifier # Sending(e)
        BY <2>10, NotifierForms DEF StreamFails
    <3> QED
        BY <2>2, <2>10, <3>1, SameFollows DEF StreamFails
  <2>11. CASE GetRunningContainers
      BY <2>2, <2>11, ListFollows
  <2>12. CASE EnterSelect
      BY <2>2, <2>12, SameFollows DEF EnterSelect
  <2>13. ASSUME NEW d \in Containers, StartListed(d) PROVE Followed(c)'
      BY <2>2, <2>13, StartListedFollows
  <2>14. CASE TakeStart
      BY <2>2, <2>14, TakeStartFollows
  <2>15. CASE TakeStop
      BY <2>2, <2>15, TakeStopFollows
  <2> QED
      BY <1>2, <2>3, <2>4, <2>5, <2>6, <2>7, <2>8, <2>9, <2>10, <2>11, <2>12, <2>13,
         <2>14, <2>15 DEF Next, NotifierStep, MainStep
<1> QED
    BY <1>1, <1>2

LEMMA Inductive == Spec => []IInv
<1>1. IInv /\ [Next]_vars => IInv'
    BY NextTypeOK, NextStages, NextFollow DEF IInv
<1> QED
    BY <1>1, InitIInv, PTL DEF Spec

(***************************************************************************)
(* The theorems.                                                           *)
(***************************************************************************)
\* Type correctness: only IDs of owned containers get into the two channels and
\* into monitoringCtxMap, the channels stay within their capacity, and a monitor
\* that runs has an entry through which it can be cancelled.
THEOREM TypeCorrect == Spec => []TypeOK
<1>1. IInv => TypeOK
    BY DEF IInv
<1> QED
    BY <1>1, Inductive, PTL

\* Whenever every event has been taken, the monitors of a node are those of its
\* running containers, for any number of containers and any capacity of the
\* channels, however the list, the subscription and the events interleave and
\* however often the process restarts; only containers on record in skipped, for
\* an error or one of the two races, are excepted.
THEOREM MonitorsFollowContainers == Spec => []MonitorsAreRunning
<1>1. IInv => MonitorsAreRunning
  <2> SUFFICES ASSUME IInv, AtRest, NEW c \in Owned, c \notin skipped
               PROVE  c \in monitors <=> status[c] = "running"
      BY DEF MonitorsAreRunning
  <2>1. listed = {} /\ past = <<>> /\ main # "list"
      BY DEF IInv, Stages, AtRest
  <2>2. \A a : ~OnItsWay(a, c)
      BY <2>1, HasNone, NotifierForms DEF OnItsWay, AtRest
  <2>3. ~StartPending(c) /\ ~DiePending(c)
      BY <2>2, ChanNone DEF StartPending, DiePending, AtRest
  <2>4. Tracked(c) <=> c \in monitoringCtxMap
      BY <2>1 DEF Tracked
  <2>5. Followed(c) /\ (c \in monitors => c \in monitoringCtxMap)
      BY DEF IInv, Follow, TypeOK
  <2>6. status[c] \in {"new", "running", "dead"}
      BY EventsAssumption DEF IInv, TypeOK
  <2> QED
      BY <2>1, <2>3, <2>4, <2>5, <2>6 DEF Followed
<1> QED
    BY <1>1, Inductive, PTL
=============================================================================
