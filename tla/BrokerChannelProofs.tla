-------------------------- MODULE BrokerChannelProofs --------------------------
(***************************************************************************)
(* One connection at a time, and notifications that settle themselves      *)
(* only, for any number of messages, losses, failed attempts, shutdowns    *)
(* and crashes: scheduleReconnect, the "close" listeners and performReconnect *)
(* never run two reconnects, and a channel's tags name one delivery each.  *)
(***************************************************************************)
EXTENDS BrokerChannel, TLAPS

\* A new channel is the current one, is open and has handed out no tag.
LEMMA OpeningTypes ==
  ASSUME TypeOK, OpenChannel
  PROVE  /\ opened' \in Nat /\ channel' \in 0..opened'
         /\ alive' \subseteq 1..opened'
         /\ tags' \in [1..opened' -> Nat]
         /\ 1..opened \subseteq 1..opened'
<1> USE DEF TypeOK, OpenChannel
<1>1. opened' \in Nat /\ channel' \in 0..opened' /\ 1..opened \subseteq 1..opened'
  OBVIOUS
<1>2. alive' \subseteq 1..opened'
  OBVIOUS
<1>3. tags' \in [1..opened' -> Nat]
  <2>1. \A c \in 1..opened : tags[c] \in Nat /\ DOMAIN tags = 1..opened
    OBVIOUS
  <2> QED
    BY <2>1
<1> QED
  BY <1>1, <1>2, <1>3

\* Arming a reconnect timer, or leaving it, keeps the types.
LEMMA ReconnectTypes ==
  ASSUME TypeOK, ScheduleReconnect \/ Reschedule
  PROVE  isReconnecting' \in BOOLEAN /\ timers' \in Nat
<1>1. isReconnecting' \in BOOLEAN
  <2>1. isReconnecting \in BOOLEAN
    BY DEF TypeOK
  <2>2. isReconnecting' = isReconnecting \/ isReconnecting' = TRUE \/ isReconnecting' = FALSE
    BY Zenon DEF ScheduleReconnect, Reschedule
  <2> QED
    BY <2>1, <2>2
<1>2. timers' \in Nat
  BY DEF TypeOK, ScheduleReconnect, Reschedule
<1> QED
  BY <1>1, <1>2

\* What a closed channel leaves unacked goes back to its queue.
LEMMA ClosingTypes ==
  ASSUME TypeOK, NEW c, Closed(c)
  PROVE  /\ alive' \subseteq 1..opened
         /\ ready' \subseteq Messages
         /\ unacked' \subseteq Delivery
         /\ isReconnecting' \in BOOLEAN /\ timers' \in Nat
<1>1. isReconnecting' \in BOOLEAN /\ timers' \in Nat
  BY ReconnectTypes DEF Closed
<1>2. alive' \subseteq 1..opened /\ unacked' \subseteq unacked
  BY DEF Closed, TypeOK
<1>3. ready' \subseteq Messages
  <2>1. \A d \in unacked : d.msg \in Messages
    BY DEF TypeOK, Delivery
  <2> QED
    BY <2>1 DEF Closed, TypeOK
<1> QED
  BY <1>1, <1>2, <1>3 DEF TypeOK

\* The end of the process empties everything it held, and nothing else.
LEMMA ProcessGoneTypes ==
  ASSUME TypeOK, ProcessGone, served' \subseteq Messages, faults' \in 0..MaxFaults
  PROVE  TypeOK'
<1> USE DEF TypeOK, ProcessGone
<1>0. registered' \in BOOLEAN /\ isReconnecting' \in BOOLEAN /\ closing' \in BOOLEAN
  OBVIOUS
<1>1. ready' \subseteq Messages
  <2>1. \A d \in unacked : d.msg \in Messages
    BY DEF Delivery
  <2> QED
    BY <2>1
<1>2. tags' \in [1..opened' -> Nat]
  OBVIOUS
<1>3. opened' \in Nat /\ channel' \in 0..opened' /\ timers' \in Nat /\ attempts' \in Nat
  OBVIOUS
<1>4. resuming' \cup alive' \cup consumers' \subseteq 1..opened'
  OBVIOUS
<1>5. unacked' \cup running' \subseteq Delivery
  OBVIOUS
<1> QED
  BY <1>0, <1>1, <1>2, <1>3, <1>4, <1>5

\* At the start nothing is open and every message waits.
LEMMA InitialTypes == Init => TypeOK
<1> SUFFICES ASSUME Init PROVE TypeOK
  OBVIOUS
<1> USE FaultsAssumption DEF Init, TypeOK
<1>1. tags \in [1..opened -> Nat]
  OBVIOUS
<1>2. ready \cup served \subseteq Messages
  BY DEF Messages
<1>3. settledBy \in [Messages -> Messages \cup {Nobody}]
  OBVIOUS
<1>4. registered \in BOOLEAN /\ isReconnecting \in BOOLEAN /\ closing \in BOOLEAN
  OBVIOUS
<1>5. opened \in Nat /\ channel \in 0..opened /\ timers \in Nat /\ attempts \in Nat
  OBVIOUS
<1> QED
  BY <1>1, <1>2, <1>3, <1>4, <1>5

-----------------------------------------------------------------------------
\* Every step of the queue manager, of start() and of the consumers keeps the
\* types: tags and channels stay among those opened since the process started.
THEOREM TypeCorrect == Spec => []TypeOK
<1> USE FaultsAssumption
<1>1. Init => TypeOK
  BY InitialTypes
<1>2. TypeOK /\ [Next]_vars => TypeOK'
  <2> SUFFICES ASSUME TypeOK, [Next]_vars PROVE TypeOK'
    OBVIOUS
  <2> USE DEF managerVars, brokerVars
  <2>1. CASE PerformReconnect
    BY <2>1 DEF PerformReconnect, TypeOK
  <2>2. CASE ReconnectConnects
    <3>0. isReconnecting' \in BOOLEAN
      <4>1. isReconnecting \in BOOLEAN
        BY DEF TypeOK
      <4>2. isReconnecting' = isReconnecting \/ isReconnecting' = FALSE
        BY <2>2, Zenon DEF ReconnectConnects
      <4> QED
        BY <4>1, <4>2
    <3>1. resuming' \subseteq 1..opened'
      <4>1. resuming' \subseteq resuming \cup {opened'} /\ opened' = opened + 1
        BY <2>2 DEF ReconnectConnects, OpenChannel
      <4> QED
        BY <4>1 DEF TypeOK
    <3>2. consumers' \subseteq 1..opened' /\ attempts' \in Nat
      BY <2>2, OpeningTypes DEF ReconnectConnects, TypeOK
    <3> QED
      BY <2>2, <3>0, <3>1, <3>2, OpeningTypes DEF ReconnectConnects, TypeOK
  <2>3. CASE \E c \in resuming : Resume(c)
    <3>1. isReconnecting' \in BOOLEAN /\ timers' \in Nat
      BY <2>3, ReconnectTypes DEF Resume, TypeOK
    <3>2. consumers' \subseteq 1..opened /\ resuming' \subseteq resuming
      BY <2>3 DEF Resume, Reinitialise, StartConsumers, TypeOK
    <3> QED
      BY <2>3, <3>1, <3>2 DEF Resume, TypeOK
  <2>4. CASE ReconnectFails
    <3>1. isReconnecting' \in BOOLEAN /\ timers' \in Nat
      BY <2>4, ReconnectTypes DEF ReconnectFails
    <3>2. faults' \in 0..MaxFaults /\ attempts' \in Nat
      BY <2>4 DEF ReconnectFails, Fault, TypeOK
    <3> QED
      BY <2>4, <3>1, <3>2 DEF ReconnectFails, TypeOK
  <2>5. CASE BootConnect
    BY <2>5, OpeningTypes DEF BootConnect, TypeOK
  <2>6. CASE BootConsume
    BY <2>6 DEF BootConsume, StartConsumers, TypeOK
  <2>7. CASE BootFails
    BY <2>7, ProcessGoneTypes DEF BootFails, TypeOK
  <2>8. CASE SetReconnectHandler
    BY <2>8 DEF SetReconnectHandler, TypeOK
  <2>9. CASE Close
    <3>1. faults' \in 0..MaxFaults
      BY <2>9 DEF Close, Fault, TypeOK
    <3>2. ready' \subseteq Messages /\ unacked' \subseteq Delivery
      <4>1. \A d \in unacked : d.msg \in Messages
        BY DEF TypeOK, Delivery
      <4> QED
        BY <2>9, <4>1 DEF Close, TypeOK
    <3> QED
      BY <2>9, <3>1, <3>2 DEF Close, TypeOK
  <2>10. CASE Exit
    <3>1. faults' \in 0..MaxFaults
      BY <2>10 DEF Exit, Fault, TypeOK
    <3> QED
      BY <2>10, <3>1, ProcessGoneTypes DEF Exit, TypeOK
  <2>11. ASSUME NEW c \in alive, ConnectionLost(c) PROVE TypeOK'
    <3>1. faults' \in 0..MaxFaults
      BY <2>11 DEF ConnectionLost, Fault, TypeOK
    <3> QED
      BY <2>11, <3>1, ClosingTypes DEF ConnectionLost, TypeOK
  <2>12. ASSUME NEW m \in Messages, NEW c \in consumers, Deliver(m, c) PROVE TypeOK'
    <3> DEFINE d == [msg |-> m, chan |-> c, tag |-> tags[c] + 1]
    <3>1. c \in 1..opened /\ tags[c] \in Nat
      BY <2>12 DEF TypeOK
    <3>2. d \in Delivery
      BY <3>1 DEF Delivery
    <3>3. tags' \in [1..opened -> Nat]
      BY <2>12, <3>1 DEF Deliver, TypeOK
    <3>4. unacked' = unacked \cup {d} /\ running' = running \cup {d}
      BY <2>12 DEF Deliver
    <3> HIDE DEF d
    <3> QED
      BY <2>12, <3>2, <3>3, <3>4 DEF Deliver, TypeOK
  <2>13. ASSUME NEW m \in Messages, NEW d \in running, HandlerEnds(d) PROVE TypeOK'
    <3>1. d.msg \in Messages /\ served' \subseteq Messages
      BY <2>13 DEF HandlerEnds, TypeOK, Delivery
    <3>2. CASE AckSettles(d)
      <4>1. settledBy' \in [Messages -> Messages \cup {Nobody}]
        BY <3>1, <3>2 DEF AckSettles, TypeOK
      <4> QED
        BY <2>13, <3>1, <3>2, <4>1 DEF HandlerEnds, AckSettles, TypeOK
    <3>3. CASE AckUnknown(d)
      BY <2>13, <3>1, <3>3, ClosingTypes DEF HandlerEnds, AckUnknown, TypeOK
    <3>4. CASE AckThrows(d)
      BY <2>13, <3>1, <3>4, ProcessGoneTypes DEF HandlerEnds, AckThrows, TypeOK
    <3> QED
      BY <2>13, <3>2, <3>3, <3>4 DEF HandlerEnds
  <2>14. CASE UNCHANGED vars
    BY <2>14 DEF vars, TypeOK
  <2> QED
    BY <2>1, <2>2, <2>3, <2>4, <2>5, <2>6, <2>7, <2>8, <2>9, <2>10, <2>11, <2>12, <2>13, <2>14
       DEF Next, ManagerStep, BootStep, DeliveryStep, HandlerStep
<1> QED
  BY <1>1, <1>2, PTL DEF Spec

-----------------------------------------------------------------------------
\* A "close" event arms a timer only if no reconnect is under way, and none is
\* while the connection that closes is open.
LEMMA ClosingKeepsOne ==
  ASSUME TypeOK, OneReconnect, NEW c \in alive, Closed(c),
         UNCHANGED <<attempts, resuming, channel>>
  PROVE  OneReconnect'
<1>1. alive' = {} /\ timers = 0 /\ attempts = 0
  BY DEF Closed, OneReconnect
<1>2. CASE isReconnecting \/ closing
  <2>1. UNCHANGED <<isReconnecting, timers>>
    BY <1>2, Zenon DEF Closed, ScheduleReconnect
  <2> QED
    BY <1>1, <2>1 DEF OneReconnect
<1>3. CASE ~ (isReconnecting \/ closing)
  <2>1. isReconnecting' = TRUE /\ timers' = timers + 1
    BY <1>3, Zenon DEF Closed, ScheduleReconnect
  <2> QED
    BY <1>1, <1>3, <2>1 DEF OneReconnect
<1> QED
  BY <1>2, <1>3

\* Nothing is under way in a process that has ended.
LEMMA GoneHasNone ==
  ASSUME ProcessGone
  PROVE  OneReconnect' /\ DownIsEmpty'
BY DEF ProcessGone, OneReconnect, DownIsEmpty

\* A timer becomes an attempt, an attempt a channel whose handler runs, and
\* only that handler's failure arms the next timer.
LEMMA ManagerStepKeepsOne ==
  ASSUME TypeOK, OneReconnect, ManagerStep \/ ReconnectFails
  PROVE  OneReconnect'
<1>1. CASE PerformReconnect
  BY <1>1 DEF PerformReconnect, OneReconnect
<1>2. CASE ReconnectConnects
  <2>1. attempts = 1 /\ timers = 0 /\ attempts' = 0 /\ timers' = 0
    BY <1>2 DEF ReconnectConnects, OneReconnect
  <2>2. alive' = {channel'} /\ resuming = {}
    BY <1>2, <2>1 DEF ReconnectConnects, OpenChannel, OneReconnect
  <2>3. CASE registered
    <3>1. isReconnecting' = isReconnecting /\ resuming' = {opened + 1}
      BY <1>2, <2>2, <2>3 DEF ReconnectConnects
    <3>2. isReconnecting
      <4>1. attempts # 0
        BY <2>1
      <4> QED
        BY <4>1, Zenon DEF OneReconnect
    <3> QED
      BY <2>1, <2>2, <3>1, <3>2 DEF OneReconnect
  <2>4. CASE ~ registered
    <3>1. resuming' = {}
      BY <1>2, <2>2, <2>4 DEF ReconnectConnects
    <3> QED
      BY <2>1, <2>2, <3>1 DEF OneReconnect
  <2> QED
    BY <2>3, <2>4
<1>3. ASSUME NEW c \in resuming, Resume(c) PROVE OneReconnect'
  <2>1. timers = 0 /\ attempts = 0 /\ attempts' = 0 /\ resuming' = {}
    BY <1>3 DEF Resume, OneReconnect
  <2>2. alive' = alive /\ channel' = channel
    BY <1>3 DEF Resume
  <2>3. CASE channel \in alive /\ timers' = timers
    BY <2>1, <2>2, <2>3 DEF OneReconnect
  <2>4. CASE channel \notin alive /\ Reschedule
    <3>1. alive = {}
      BY <2>4 DEF OneReconnect
    <3>2. timers' = 0 \/ (timers' = 1 /\ isReconnecting' = TRUE)
      <4>1. timers' = timers \/ (timers' = timers + 1 /\ isReconnecting' = TRUE)
        BY <2>4, Zenon DEF Reschedule
      <4> QED
        BY <2>1, <4>1
    <3> QED
      BY <2>1, <2>2, <3>1, <3>2 DEF OneReconnect
  <2> QED
    BY <1>3, <2>3, <2>4 DEF Resume
<1>4. CASE ReconnectFails
  <2>1. timers = 0 /\ attempts' = 0 /\ resuming' = {} /\ alive' = {}
    BY <1>4 DEF ReconnectFails, OneReconnect
  <2>2. timers' = timers \/ (timers' = timers + 1 /\ isReconnecting' = TRUE)
    BY <1>4, Zenon DEF ReconnectFails, Reschedule
  <2> QED
    BY <2>1, <2>2 DEF OneReconnect
<1> QED
  BY <1>1, <1>2, <1>3, <1>4 DEF ManagerStep

\* The manager's flags, counters and handlers agree after every step.
LEMMA OneReconnectIsKept ==
  ASSUME TypeOK, OneReconnect, DownIsEmpty, [Next]_vars
  PROVE  OneReconnect' /\ DownIsEmpty'
<1> USE DEF managerVars, brokerVars
<1>1. CASE ManagerStep \/ ReconnectFails
  <2>1. boot' = boot
    BY <1>1 DEF ManagerStep, ReconnectFails, PerformReconnect, ReconnectConnects, Resume
  <2>2. boot # "down"
    BY <1>1 DEF ManagerStep, ReconnectFails, PerformReconnect, ReconnectConnects, Resume,
                DownIsEmpty, TypeOK
  <2> QED
    BY <1>1, <2>1, <2>2, ManagerStepKeepsOne DEF DownIsEmpty
<1>2. CASE BootConnect
  <2>1. alive = {} /\ resuming = {} /\ timers = 0 /\ attempts = 0
    BY <1>2 DEF BootConnect, DownIsEmpty, TypeOK
  <2> QED
    BY <1>2, <2>1 DEF BootConnect, OpenChannel, OneReconnect, DownIsEmpty
<1>3. CASE BootConsume \/ SetReconnectHandler
  BY <1>3 DEF BootConsume, SetReconnectHandler, OneReconnect, DownIsEmpty
<1>4. CASE BootFails \/ Exit
  BY <1>4, GoneHasNone DEF BootFails, Exit
<1>5. CASE Close
  BY <1>5 DEF Close, OneReconnect, DownIsEmpty
<1>6. ASSUME NEW c \in alive, ConnectionLost(c) PROVE OneReconnect' /\ DownIsEmpty'
  <2>1. boot' = boot /\ boot # "down"
    BY <1>6 DEF ConnectionLost, DownIsEmpty, TypeOK
  <2> QED
    BY <1>6, <2>1, ClosingKeepsOne DEF ConnectionLost, DownIsEmpty
<1>7. ASSUME NEW m \in Messages, NEW c \in consumers, Deliver(m, c)
      PROVE  OneReconnect' /\ DownIsEmpty'
  BY <1>7 DEF Deliver, OneReconnect, DownIsEmpty
<1>8. ASSUME NEW d \in running, HandlerEnds(d) PROVE OneReconnect' /\ DownIsEmpty'
  <2>1. CASE AckSettles(d)
    BY <2>1 DEF AckSettles, OneReconnect, DownIsEmpty
  <2>2. CASE AckUnknown(d)
    <3>1. boot' = boot /\ boot # "down"
      BY <2>2 DEF AckUnknown, DownIsEmpty, TypeOK
    <3> QED
      BY <2>2, <3>1, ClosingKeepsOne DEF AckUnknown, DownIsEmpty
  <2>3. CASE AckThrows(d)
    BY <2>3, GoneHasNone DEF AckThrows
  <2> QED
    BY <1>8, <2>1, <2>2, <2>3 DEF HandlerEnds
<1>9. CASE UNCHANGED vars
  BY <1>9 DEF vars, OneReconnect, DownIsEmpty
<1> QED
  BY <1>1, <1>2, <1>3, <1>4, <1>5, <1>6, <1>7, <1>8, <1>9
     DEF Next, BootStep, DeliveryStep, HandlerStep

-----------------------------------------------------------------------------
\* Deliveries that were settled, requeued or given up leave the others unique,
\* and so does a channel that has delivered nothing yet.
LEMMA FewerDeliveries ==
  ASSUME TagsAreUnique, TypeOK,
         running' \cup unacked' \subseteq running \cup unacked,
         opened' \in Nat, opened <= opened',
         \A c \in 1..opened : tags'[c] = tags[c]
  PROVE  TagsAreUnique'
BY DEF TagsAreUnique, TypeOK

\* Whoever settles a delivery and is a notification was that delivery.
LEMMA SettlesItself ==
  ASSUME TypeOK, TagsAreUnique, NotificationAcksItself,
         NEW d \in running, AckSettles(d)
  PROVE  NotificationAcksItself'
<1>1. PICK e \in Named(AckChannel(d), d.tag) :
        settledBy' = [settledBy EXCEPT ![e.msg] = d.msg]
  BY DEF AckSettles
<1>2. e \in unacked /\ e.chan = AckChannel(d) /\ e.tag = d.tag
  BY <1>1 DEF Named
<1>3. d.msg \in Notifications => e = d
  BY <1>2 DEF AckChannel, TagsAreUnique
<1>4. d.msg \in Messages
  BY DEF TypeOK, Delivery
<1> QED
  BY <1>1, <1>3, <1>4 DEF NotificationAcksItself, TypeOK

\* A delivery's tag is the next one of its channel.
LEMMA DeliveringIsUnique ==
  ASSUME TypeOK, TagsAreUnique, NEW m \in Messages, NEW c \in consumers, Deliver(m, c)
  PROVE  TagsAreUnique'
<1> DEFINE d == [msg |-> m, chan |-> c, tag |-> tags[c] + 1]
<1>1. c \in 1..opened /\ tags[c] \in Nat
  BY DEF Deliver, TypeOK
<1>2. /\ running' \cup unacked' \subseteq (running \cup unacked) \cup {d}
      /\ opened' = opened
      /\ tags' = [tags EXCEPT ![c] = tags[c] + 1]
  BY DEF Deliver, managerVars
<1>3. d.chan = c /\ d.tag = tags[c] + 1
  OBVIOUS
<1> HIDE DEF d
<1>4. tags'[c] = tags[c] + 1 /\ \A k \in 1..opened : k # c => tags'[k] = tags[k]
  BY <1>1, <1>2 DEF TypeOK
<1>5. ASSUME NEW e \in running \cup unacked
      PROVE  e.chan \in 1..opened /\ e.tag \in Nat /\ tags[e.chan] \in Nat /\ e.tag <= tags[e.chan]
  BY <1>5 DEF TypeOK, Delivery, TagsAreUnique
<1>6. ASSUME NEW e \in running' \cup unacked'
      PROVE  e.chan \in 1..opened /\ e.tag <= tags'[e.chan]
  <2>1. CASE e = d
    BY <1>1, <1>3, <1>4, <2>1
  <2>2. CASE e \in running \cup unacked
    BY <1>4, <1>5, <2>2
  <2> QED
    BY <1>2, <1>6, <2>1, <2>2
<1>7. ASSUME NEW e \in running' \cup unacked', NEW f \in running' \cup unacked',
             e.chan = f.chan, e.tag = f.tag
      PROVE  e = f
  <2>1. CASE e = d /\ f \in running \cup unacked
    BY <1>1, <1>3, <1>5, <1>7, <2>1
  <2>2. CASE f = d /\ e \in running \cup unacked
    BY <1>1, <1>3, <1>5, <1>7, <2>2
  <2>3. CASE e \in running \cup unacked /\ f \in running \cup unacked
    BY <1>7, <2>3 DEF TagsAreUnique
  <2> QED
    BY <1>2, <1>7, <2>1, <2>2, <2>3
<1> QED
  BY <1>2, <1>6, <1>7 DEF TagsAreUnique

\* Tags stay unique and no notification settles another delivery: a handler
\* names its delivery by the channel it was started on.
LEMMA DeliveriesAreKept ==
  ASSUME TypeOK, DownIsEmpty, TagsAreUnique, NotificationAcksItself, [Next]_vars
  PROVE  TagsAreUnique' /\ NotificationAcksItself'
<1> USE DEF managerVars, brokerVars
<1>1. CASE \/ PerformReconnect \/ \E c \in resuming : Resume(c)
           \/ ReconnectFails \/ BootConsume \/ SetReconnectHandler
  BY <1>1 DEF PerformReconnect, Resume, ReconnectFails, BootConsume,
              SetReconnectHandler, TagsAreUnique, NotificationAcksItself
<1>2. CASE ReconnectConnects \/ BootConnect
  <2>1. /\ OpenChannel /\ running' = running /\ unacked' = unacked
        /\ settledBy' = settledBy
    BY <1>2 DEF ReconnectConnects, BootConnect
  <2>2. \A c \in 1..opened : tags'[c] = tags[c]
    <3>1. DOMAIN tags = 1..opened /\ opened \in Nat
      BY DEF TypeOK
    <3> QED
      BY <2>1, <3>1 DEF OpenChannel
  <2>3. opened' \in Nat /\ opened <= opened'
    BY <2>1 DEF OpenChannel, TypeOK
  <2>4. TagsAreUnique'
    BY <2>1, <2>2, <2>3, FewerDeliveries
  <2> QED
    BY <2>1, <2>4 DEF NotificationAcksItself
<1>3. ASSUME ProcessGone PROVE TagsAreUnique' /\ NotificationAcksItself'
  BY <1>3 DEF ProcessGone, TagsAreUnique, NotificationAcksItself
<1>4. ASSUME NEW c, Closed(c), running' \subseteq running, UNCHANGED <<opened, tags>>
      PROVE  TagsAreUnique'
  <2>1. running' \cup unacked' \subseteq running \cup unacked
    BY <1>4 DEF Closed
  <2> QED
    BY <1>4, <2>1, FewerDeliveries DEF TypeOK
<1>5. CASE Close
  <2>1. /\ running' \cup unacked' \subseteq running \cup unacked
        /\ UNCHANGED <<opened, tags, settledBy>>
    BY <1>5 DEF Close
  <2> QED
    BY <2>1, FewerDeliveries DEF NotificationAcksItself, TypeOK
<1>6. ASSUME NEW c \in alive, ConnectionLost(c)
      PROVE  TagsAreUnique' /\ NotificationAcksItself'
  BY <1>4, <1>6 DEF ConnectionLost, NotificationAcksItself
<1>7. ASSUME NEW m \in Messages, NEW c \in consumers, Deliver(m, c)
      PROVE  TagsAreUnique' /\ NotificationAcksItself'
  BY <1>7, DeliveringIsUnique DEF Deliver, NotificationAcksItself
<1>8. ASSUME NEW d \in running, HandlerEnds(d)
      PROVE  TagsAreUnique' /\ NotificationAcksItself'
  <2>1. CASE AckSettles(d)
    <3>1. running' \cup unacked' \subseteq running \cup unacked /\ UNCHANGED <<opened, tags>>
      BY <2>1 DEF AckSettles
    <3> QED
      BY <2>1, <3>1, SettlesItself, FewerDeliveries DEF TypeOK
  <2>2. CASE AckUnknown(d)
    BY <1>4, <2>2 DEF AckUnknown, NotificationAcksItself
  <2>3. CASE AckThrows(d)
    BY <1>3, <2>3 DEF AckThrows
  <2> QED
    BY <1>8, <2>1, <2>2, <2>3 DEF HandlerEnds
<1>9. CASE UNCHANGED vars
  BY <1>9 DEF vars, TagsAreUnique, NotificationAcksItself
<1> QED
  BY <1>1, <1>2, <1>3, <1>5, <1>6, <1>7, <1>8, <1>9
     DEF Next, ManagerStep, BootStep, BootFails, Exit, DeliveryStep, HandlerStep

-----------------------------------------------------------------------------
\* The notifier's handler is set before anything it has to notice: while it
\* starts no reconnect is under way, and afterwards every new channel is the
\* handler's, which ends on the current channel or schedules the next attempt.
LEMMA ReconsumingIsKept ==
  ASSUME TypeOK, OneReconnect, DownIsEmpty, NotifierRegistered, NotifierReconsumes,
         [Next]_vars
  PROVE  NotifierRegistered' /\ NotifierReconsumes'
<1> USE DEF managerVars, brokerVars, NotifierRegistered, NotifierReconsumes,
            ReconnectConsumes
<1>1. ASSUME ProcessGone PROVE NotifierRegistered' /\ NotifierReconsumes'
  BY <1>1 DEF ProcessGone
<1>2. CASE PerformReconnect \/ ReconnectFails
  <2>1. alive' = {} /\ UNCHANGED <<role, boot, registered>>
    BY <1>2 DEF PerformReconnect, ReconnectFails, OneReconnect, TypeOK
  <2> QED
    BY <2>1
<1>3. CASE ReconnectConnects
  <2>1. UNCHANGED <<role, boot, registered>> /\ attempts = 1
    BY <1>3 DEF ReconnectConnects, OneReconnect
  <2>2. isReconnecting
    <3>1. attempts # 0
      BY <2>1
    <3> QED
      BY <3>1, Zenon DEF OneReconnect
  <2>3. registered => isReconnecting'
    BY <1>3, <2>2 DEF ReconnectConnects
  <2> QED
    BY <2>1, <2>3
<1>4. ASSUME NEW c \in resuming, Resume(c)
      PROVE  NotifierRegistered' /\ NotifierReconsumes'
  <2>1. UNCHANGED <<role, boot, registered, alive, channel>>
    BY <1>4 DEF Resume
  <2>2. channel \in alive => channel \in consumers'
    BY <1>4 DEF Resume, Reinitialise, StartConsumers
  <2> QED
    BY <2>1, <2>2
<1>5. CASE BootConnect
  BY <1>5 DEF BootConnect
<1>6. CASE BootConsume
  BY <1>6 DEF BootConsume, StartConsumers
<1>7. CASE SetReconnectHandler
  BY <1>7 DEF SetReconnectHandler
<1>8. CASE Close
  <2>1. channel' \notin alive' /\ UNCHANGED <<role, boot, registered>>
    BY <1>8 DEF Close, TypeOK
  <2> QED
    BY <2>1
<1>9. ASSUME NEW c, Closed(c), channel' = channel, consumers' = consumers,
             UNCHANGED <<role, boot, registered>>
      PROVE  NotifierRegistered' /\ NotifierReconsumes'
  <2>1. isReconnecting => isReconnecting'
    BY <1>9, Zenon DEF Closed, ScheduleReconnect
  <2>2. alive' \subseteq alive
    BY <1>9 DEF Closed
  <2> QED
    BY <1>9, <2>1, <2>2
<1>10. ASSUME NEW m \in Messages, NEW c \in consumers, Deliver(m, c)
       PROVE  NotifierRegistered' /\ NotifierReconsumes'
  BY <1>10 DEF Deliver
<1>11. ASSUME NEW d \in running, HandlerEnds(d)
       PROVE  NotifierRegistered' /\ NotifierReconsumes'
  <2>1. CASE AckSettles(d)
    BY <2>1 DEF AckSettles
  <2>2. CASE AckUnknown(d)
    BY <1>9, <2>2 DEF AckUnknown
  <2>3. CASE AckThrows(d)
    BY <1>1, <2>3 DEF AckThrows
  <2> QED
    BY <1>11, <2>1, <2>2, <2>3 DEF HandlerEnds
<1>12. ASSUME NEW c \in alive, ConnectionLost(c)
       PROVE  NotifierRegistered' /\ NotifierReconsumes'
  BY <1>9, <1>12 DEF ConnectionLost
<1>13. CASE UNCHANGED vars
  BY <1>13 DEF vars
<1> QED
  BY <1>1, <1>2, <1>3, <1>4, <1>5, <1>6, <1>7, <1>8, <1>10, <1>11, <1>12, <1>13
     DEF Next, ManagerStep, BootStep, BootFails, Exit, DeliveryStep, HandlerStep

-----------------------------------------------------------------------------
\* The inductive invariant of the shared channel, across every loss, failed
\* attempt, shutdown and crash.
THEOREM ChannelInvariant == Spec => []ChannelInv
<1>1. Init => ChannelInv
  <2> SUFFICES ASSUME Init PROVE ChannelInv
    OBVIOUS
  <2>1. OneReconnect /\ DownIsEmpty /\ TagsAreUnique
    BY DEF Init, OneReconnect, DownIsEmpty, TagsAreUnique
  <2>2. NotificationAcksItself
    BY NobodyAssumption DEF Init, NotificationAcksItself, Messages
  <2>3. NotifierRegistered /\ NotifierReconsumes
    BY DEF Init, NotifierRegistered, NotifierReconsumes, ReconnectConsumes
  <2> QED
    BY <2>1, <2>2, <2>3, InitialTypes DEF ChannelInv
<1>2. TypeOK' /\ ChannelInv /\ [Next]_vars => ChannelInv'
  BY OneReconnectIsKept, DeliveriesAreKept, ReconsumingIsKept DEF ChannelInv
<1> QED
  BY <1>1, <1>2, TypeCorrect, PTL DEF Spec

\* However losses, failed attempts and close events fall, QueueManager holds
\* one connection at most.
THEOREM OneConnectionOpen == Spec => []OneConnection
<1>1. ChannelInv => OneConnection
  BY DEF ChannelInv, OneReconnect, OneConnection
<1> QED
  BY <1>1, ChannelInvariant, PTL

\* A release notification's handler settles no other message, although it may
\* end after any number of reconnects (NotificationQueue keeps its channel).
THEOREM NotificationsAckThemselves == Spec => []NotificationAcksItself
BY ChannelInvariant, PTL DEF ChannelInv

\* Whatever is lost while the notifier starts, reconnects or handles messages,
\* it never has an open channel it does not consume on, once its reconnect is
\* over. (The API has: it sets its handler late.)
THEOREM NotifierNeverDeaf == Spec => []NotifierReconsumes
BY ChannelInvariant, PTL DEF ChannelInv

-----------------------------------------------------------------------------
(* How far the loss of a notification can go. *)

\* Only a handler that ran to its end settles anything.
SettledByServed ==
  \A m \in Messages : settledBy[m] # Nobody => settledBy[m] \in served

LEMMA SettlersAreServed == Spec => []SettledByServed
<1>1. Init => SettledByServed
  BY DEF Init, SettledByServed
<1>2. TypeOK /\ SettledByServed /\ [Next]_vars => SettledByServed'
  <2> SUFFICES ASSUME TypeOK, SettledByServed, [Next]_vars PROVE SettledByServed'
    OBVIOUS
  <2> USE DEF managerVars, brokerVars, SettledByServed
  <2>1. ASSUME NEW d \in running, HandlerEnds(d) PROVE SettledByServed'
    <3>1. served' = served \cup {d.msg}
      BY <2>1 DEF HandlerEnds
    <3>2. CASE AckSettles(d)
      <4>1. PICK e \in Named(AckChannel(d), d.tag) :
              settledBy' = [settledBy EXCEPT ![e.msg] = d.msg]
        BY <3>2 DEF AckSettles
      <4> QED
        BY <3>1, <4>1 DEF TypeOK
    <3>3. CASE AckUnknown(d) \/ AckThrows(d)
      BY <3>1, <3>3 DEF AckUnknown, AckThrows, ProcessGone
    <3> QED
      BY <2>1, <3>2, <3>3 DEF HandlerEnds
  <2>2. CASE UNCHANGED <<settledBy, served>>
    BY <2>2
  <2>3. ASSUME Next, \A d \in running : ~ HandlerEnds(d)
        PROVE  UNCHANGED <<settledBy, served>>
    BY <2>3 DEF Next, ManagerStep, PerformReconnect, ReconnectConnects, Resume,
       ReconnectFails, BootStep, BootConnect, BootConsume, BootFails,
       SetReconnectHandler, Close, Exit, ProcessGone, ConnectionLost,
       DeliveryStep, Deliver, HandlerStep
  <2> QED
    BY <2>1, <2>2, <2>3 DEF vars
<1> QED
  BY <1>1, <1>2, TypeCorrect, PTL DEF Spec

\* A notification that is off its queue without a handler having finished it
\* was taken by a saga command's stale ack, and by nothing else.
LostOnlyToCommands ==
  \A m \in Notifications :
    settledBy[m] # Nobody => m \in served \/ settledBy[m] \in Commands

\* The loss that channel_stale_ack shows has one cause: SagaCommandsQueue acks
\* on the current channel. Losses, reconnects, shutdowns and crashes in any
\* number and order do not lose a notification by themselves.
THEOREM OnlyCommandsLose == Spec => []LostOnlyToCommands
<1>1. TypeOK /\ NotificationAcksItself /\ SettledByServed => LostOnlyToCommands
  BY DEF TypeOK, NotificationAcksItself, SettledByServed, LostOnlyToCommands, Messages
<1> QED
  BY <1>1, TypeCorrect, NotificationsAckThemselves, SettlersAreServed, PTL

\* On the gRPC transport nothing is published to saga.commands: there a release
\* notification is never silently lost.
THEOREM NothingLostWithoutCommands ==
  ASSUME Commands = {}
  PROVE  Spec => []NeverSilentlyLost
<1>1. LostOnlyToCommands => NeverSilentlyLost
  BY DEF LostOnlyToCommands, NeverSilentlyLost
<1> QED
  BY <1>1, OnlyCommandsLose, PTL
=============================================================================
