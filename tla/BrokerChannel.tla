---------------------------- MODULE BrokerChannel ----------------------------
(***************************************************************************)
(* QueueManager and the consumers that share its one channel, in one       *)
(* process: how a lost connection is reopened, and which delivery an ack   *)
(* settles afterwards.                                                     *)
(*                                                                         *)
(* A delivery tag means something only on the channel that delivered it.   *)
(* NotificationQueue keeps the channel it consumes on; SagaCommandsQueue   *)
(* asks for the current one when it acks. An ack that throws throws again  *)
(* in the catch block, and the unhandled rejection ends the process.       *)
(***************************************************************************)
EXTENDS Naturals

CONSTANTS
  Notifications,  \* messages of release.notifications
  Commands,       \* messages of saga.commands; for the API, of saga.replies
  Roles,          \* the processes to model: "api", "notifier"
  MaxFaults       \* bound: losses, failed attempts and crashes

ASSUME MessagesAssumption == Notifications \cap Commands = {}
ASSUME RolesAssumption == Roles \subseteq {"api", "notifier"}
ASSUME FaultsAssumption == MaxFaults \in Nat

VARIABLES
  role,
  boot,            \* where start() is
  registered,      \* is there a reconnectHandler
  isReconnecting,
  timers,          \* reconnect timers armed
  attempts,        \* performReconnect calls awaiting connect()
  resuming,        \* channels whose reconnectHandler is running
  closing,
  channel,         \* the current channel, 0 for null
  opened,          \* channels opened since the process started
  alive,           \* of those, the ones the broker holds open
  consumers,       \* channels the queues are consumed on
  ready,           \* messages on their queue
  unacked,         \* deliveries the broker waits for an ack of
  running,         \* deliveries whose handler has not returned
  tags,            \* the last delivery tag, per channel
  served,          \* messages a handler ran to its end for
  settledBy,       \* the message whose handler took it off its queue
  faults

managerVars == <<isReconnecting, timers, attempts, resuming, channel, opened>>
brokerVars == <<ready, unacked, tags, settledBy>>
vars == <<role, boot, registered, managerVars, closing, alive, consumers,
          brokerVars, running, served, faults>>

Messages == Notifications \cup Commands
Nobody == "nobody"

ASSUME NobodyAssumption == Nobody \notin Messages

Delivery == [msg : Messages, chan : Nat \ {0}, tag : Nat \ {0}]

TypeOK ==
  /\ role \in Roles
  /\ boot \in {"down", "connected", "starting", "up"}
  /\ registered \in BOOLEAN /\ isReconnecting \in BOOLEAN /\ closing \in BOOLEAN
  /\ timers \in Nat /\ attempts \in Nat
  /\ opened \in Nat /\ channel \in 0..opened
  /\ faults \in 0..MaxFaults
  /\ resuming \cup alive \cup consumers \subseteq 1..opened
  /\ ready \cup served \subseteq Messages
  /\ unacked \cup running \subseteq Delivery
  /\ tags \in [1..opened -> Nat]
  /\ settledBy \in [Messages -> Messages \cup {Nobody}]

\* The process is down and its messages wait.
Init ==
  /\ role \in Roles
  /\ boot = "down"
  /\ registered = FALSE /\ isReconnecting = FALSE /\ closing = FALSE
  /\ timers = 0 /\ attempts = 0 /\ channel = 0 /\ opened = 0
  /\ resuming = {} /\ alive = {} /\ consumers = {}
  /\ ready = IF role = "api" THEN Commands ELSE Messages
  /\ unacked = {} /\ running = {} /\ served = {}
  /\ tags = << >>
  /\ settledBy = [m \in Messages |-> Nobody]
  /\ faults = 0

Fault == faults < MaxFaults /\ faults' = faults + 1

-----------------------------------------------------------------------------
(* QueueManager. *)

\* connect(): the current channel is a new one.
OpenChannel ==
  /\ opened' = opened + 1
  /\ channel' = opened + 1
  /\ alive' = alive \cup {opened + 1}
  /\ tags' = [c \in 1..(opened + 1) |-> IF c \in DOMAIN tags THEN tags[c] ELSE 0]

\* Mutant: the guard on isReconnecting is dropped.
ScheduleAlways == IF closing THEN UNCHANGED <<isReconnecting, timers>>
                  ELSE isReconnecting' = TRUE /\ timers' = timers + 1

ScheduleReconnect ==
  IF isReconnecting \/ closing THEN UNCHANGED <<isReconnecting, timers>>
  ELSE isReconnecting' = TRUE /\ timers' = timers + 1

\* Mutant: isReconnecting is not reset before the next attempt is scheduled.
RescheduleBlocked == UNCHANGED <<isReconnecting, timers>>

\* The catch block of performReconnect.
Reschedule ==
  IF closing THEN isReconnecting' = FALSE /\ UNCHANGED timers
  ELSE isReconnecting' = TRUE /\ timers' = timers + 1

PerformReconnect ==
  /\ timers > 0
  /\ timers' = timers - 1
  /\ attempts' = attempts + 1
  /\ channel' = 0
  /\ UNCHANGED <<role, boot, registered, isReconnecting, resuming, closing, opened,
                 alive, consumers, brokerVars, running, served, faults>>

\* Without a handler the attempt is over: nothing is consumed on the channel.
ReconnectConnects ==
  /\ attempts > 0
  /\ attempts' = attempts - 1
  /\ OpenChannel
  /\ IF registered
     THEN resuming' = resuming \cup {opened + 1} /\ UNCHANGED isReconnecting
     ELSE isReconnecting' = FALSE /\ UNCHANGED resuming
  /\ UNCHANGED <<role, boot, registered, timers, closing, consumers, ready,
                 unacked, settledBy, running, served, faults>>

ReconnectFails ==
  /\ attempts > 0
  /\ Fault
  /\ attempts' = attempts - 1
  /\ Reschedule
  /\ UNCHANGED <<role, boot, registered, resuming, closing, channel, opened,
                 alive, consumers, brokerVars, running, served>>

StartConsumers == consumers' = consumers \cup {channel}

\* Mutant: the handler declares the queues and starts no consumer.
RedeclareOnly == UNCHANGED consumers

Reinitialise == StartConsumers

\* The reconnectHandler redeclares the queues and starts the consumers, on the
\* current channel; if that is closed it throws.
Resume(c) ==
  /\ c \in resuming
  /\ resuming' = resuming \ {c}
  /\ \/ /\ channel \in alive
        /\ Reinitialise
        /\ isReconnecting' = FALSE
        /\ UNCHANGED timers
     \/ /\ channel \notin alive
        /\ Reschedule
        /\ UNCHANGED consumers
  /\ UNCHANGED <<role, boot, registered, attempts, closing, channel, opened,
                 alive, brokerVars, running, served, faults>>

\* The broker closes c and puts back what was delivered on it; the "close"
\* listener schedules a reconnect.
Closed(c) ==
  /\ alive' = alive \ {c}
  /\ ready' = ready \cup {d.msg : d \in {e \in unacked : e.chan = c}}
  /\ unacked' = {d \in unacked : d.chan # c}
  /\ ScheduleReconnect

ConnectionLost(c) ==
  /\ c \in alive
  /\ Fault
  /\ Closed(c)
  /\ UNCHANGED <<role, boot, registered, attempts, resuming, closing, channel,
                 opened, consumers, tags, settledBy, running, served>>

\* close(): an attempt under way is not looked at.
Close ==
  /\ boot \in {"starting", "up"}
  /\ ~ closing
  /\ Fault
  /\ closing' = TRUE
  /\ channel' = 0
  /\ alive' = alive \ {channel}
  /\ ready' = ready \cup {d.msg : d \in {e \in unacked : e.chan = channel}}
  /\ unacked' = {d \in unacked : d.chan # channel}
  /\ UNCHANGED <<role, boot, registered, isReconnecting, timers, attempts,
                 resuming, opened, consumers, tags, settledBy, running, served>>

-----------------------------------------------------------------------------
(* start() of the two processes. *)

ProcessGone ==
  /\ boot' = "down"
  /\ registered' = FALSE /\ isReconnecting' = FALSE /\ closing' = FALSE
  /\ timers' = 0 /\ attempts' = 0 /\ channel' = 0 /\ opened' = 0
  /\ resuming' = {} /\ alive' = {} /\ consumers' = {}
  /\ ready' = ready \cup {d.msg : d \in unacked}
  /\ unacked' = {} /\ running' = {}
  /\ tags' = << >>
  /\ UNCHANGED <<role, settledBy>>

\* createNotificationQueue connects.
BootConnect ==
  /\ boot = "down"
  /\ boot' = "connected"
  /\ OpenChannel
  /\ UNCHANGED <<role, registered, isReconnecting, timers, attempts, resuming,
                 closing, consumers, ready, unacked, settledBy, running, served, faults>>

\* The queues are declared and consumed. The notifier sets its reconnect
\* handler in the same tick, the API once it listens.
BootConsume ==
  /\ boot = "connected"
  /\ channel \in alive
  /\ StartConsumers
  /\ IF role = "api" THEN boot' = "starting" /\ UNCHANGED registered
                     ELSE boot' = "up" /\ registered' = TRUE
  /\ UNCHANGED <<role, managerVars, closing, alive, brokerVars, running, served, faults>>

\* Declaring the queues throws on a closed channel: process.exit(1).
BootFails ==
  /\ boot = "connected"
  /\ channel \notin alive
  /\ ProcessGone
  /\ UNCHANGED <<served, faults>>

SetReconnectHandler ==
  /\ boot = "starting"
  /\ boot' = "up"
  /\ registered' = TRUE
  /\ UNCHANGED <<role, managerVars, closing, alive, consumers, brokerVars,
                 running, served, faults>>

\* The process is killed, or dies of the rejected consume() that nobody awaits when
\* its channel closes on it, or its graceful shutdown is over.
Exit ==
  /\ boot # "down"
  /\ IF closing THEN UNCHANGED faults ELSE Fault
  /\ ProcessGone
  /\ UNCHANGED served

-----------------------------------------------------------------------------
(* The consumers. *)

Deliver(m, c) ==
  /\ m \in ready
  /\ c \in consumers \cap alive
  /\ tags' = [tags EXCEPT ![c] = @ + 1]
  /\ LET d == [msg |-> m, chan |-> c, tag |-> tags[c] + 1]
     IN  unacked' = unacked \cup {d} /\ running' = running \cup {d}
  /\ ready' = ready \ {m}
  /\ UNCHANGED <<role, boot, registered, managerVars, closing, alive, consumers,
                 settledBy, served, faults>>

\* Mutant: both queues ack on the current channel.
CurrentChannel(d) == channel

\* The channel a handler settles its delivery on.
AckChannel(d) == IF d.msg \in Notifications THEN d.chan ELSE channel

Named(c, t) == {d \in unacked : d.chan = c /\ d.tag = t}

\* Mutant: the handler returns without acknowledging.
AckForgotten(d) ==
  /\ AckChannel(d) \in alive
  /\ running' = running \ {d}
  /\ UNCHANGED <<role, boot, registered, managerVars, closing, alive, consumers, brokerVars>>

\* The broker takes the delivery with this tag on this channel off its queue,
\* whoever acked it.
AckSettles(d) ==
  /\ AckChannel(d) \in alive
  /\ \E e \in Named(AckChannel(d), d.tag) :
       /\ unacked' = unacked \ {e}
       /\ settledBy' = [settledBy EXCEPT ![e.msg] = d.msg]
  /\ running' = running \ {d}
  /\ UNCHANGED <<role, boot, registered, managerVars, closing, alive, consumers,
                 ready, tags>>

\* No such tag: a channel error, upon which the connection is closed too.
AckUnknown(d) ==
  /\ AckChannel(d) \in alive
  /\ Named(AckChannel(d), d.tag) = {}
  /\ Closed(AckChannel(d))
  /\ running' = running \ {d}
  /\ UNCHANGED <<role, boot, registered, attempts, resuming, closing, channel,
                 opened, consumers, tags, settledBy>>

\* The channel is null or closed.
AckThrows(d) == AckChannel(d) \notin alive /\ ProcessGone

\* A handler ends and settles its delivery in the same tick.
HandlerEnds(d) ==
  /\ d \in running
  /\ served' = served \cup {d.msg}
  /\ UNCHANGED faults
  /\ AckSettles(d) \/ AckUnknown(d) \/ AckThrows(d)

-----------------------------------------------------------------------------
ManagerStep == PerformReconnect \/ ReconnectConnects \/ \E c \in resuming : Resume(c)
BootStep == BootConnect \/ BootConsume \/ BootFails \/ SetReconnectHandler
DeliveryStep(m) == \E c \in consumers : Deliver(m, c)
HandlerStep(m) == \E d \in running : d.msg = m /\ HandlerEnds(d)

Next ==
  \/ ManagerStep \/ ReconnectFails \/ BootStep \/ Close \/ Exit
  \/ \E c \in alive : ConnectionLost(c)
  \/ \E m \in Messages : DeliveryStep(m) \/ HandlerStep(m)

Spec == Init /\ [][Next]_vars

\* Timers fire, the broker answers and delivers, handlers end, a process that
\* closes exits, and the containers restart. No fault has to happen.
FairSpec ==
  /\ Spec
  /\ WF_vars(ManagerStep)
  /\ WF_vars(BootStep)
  /\ WF_vars(closing /\ Exit)
  /\ \A m \in Messages : WF_vars(DeliveryStep(m)) /\ WF_vars(HandlerStep(m))

-----------------------------------------------------------------------------
\* There is one reconnect under way at most, and none while a connection is open.
OneReconnect ==
  /\ timers \in {0, 1} /\ attempts \in {0, 1}
  /\ alive \subseteq {channel}
  /\ \A c, d \in resuming : c = d
  /\ timers = 1 => attempts = 0 /\ resuming = {} /\ alive = {}
  /\ attempts = 1 => resuming = {} /\ alive = {}
  /\ ~ isReconnecting => timers = 0 /\ attempts = 0 /\ resuming = {}

\* A process that is down has opened nothing, and no timer survives it.
DownIsEmpty == boot = "down" => opened = 0 /\ timers = 0 /\ attempts = 0

\* On one channel a delivery tag names one delivery.
TagsAreUnique ==
  \A d \in running \cup unacked :
    /\ d.chan \in 1..opened
    /\ d.tag <= tags[d.chan]
    /\ \A e \in running \cup unacked : d.chan = e.chan /\ d.tag = e.tag => d = e

\* However losses, failed attempts and close events fall, the process never
\* holds two connections, each with consumers of its own (isReconnecting).
OneConnection == \A c, d \in alive : c = d

\* A notification's handler never takes another message off its queue, on
\* whatever channel that was delivered since (NotificationQueue.consume).
NotificationAcksItself ==
  \A m \in Messages : settledBy[m] \in Notifications => settledBy[m] = m

\* After a successful reconnect the consumer is restarted (ADR 001): a process
\* that is up, has a channel and reconnects no more, consumes on it.
ReconnectConsumes ==
  boot = "up" /\ channel \in alive /\ ~ isReconnecting => channel \in consumers

\* The notifier keeps to that, since it sets its reconnect handler in the tick
\* in which it starts its consumers: no loss during the start-up, a reconnect or
\* a running handler leaves it with a channel nobody consumes on.
NotifierReconsumes == role = "notifier" => ReconnectConsumes

\* A notifier that is up has its handler, and was never up without it.
NotifierRegistered ==
  role = "notifier" => boot # "starting" /\ (boot = "up" => registered)

\* The inductive invariant (BrokerChannelProofs): scheduleReconnect arms one
\* timer at a time, a connection is opened only once the last one is gone, and
\* tags are handed out once per channel, across every restart and reconnect; and
\* no reconnect of the notifier ends without its consumers.
ChannelInv ==
  /\ TypeOK /\ OneReconnect /\ DownIsEmpty /\ TagsAreUnique /\ NotificationAcksItself
  /\ NotifierRegistered /\ NotifierReconsumes

\* The notifier ends up consuming on its current channel, whatever was lost
\* while it started or reconnected.
NotifierConsumes ==
  role = "notifier" => <>[](channel \in consumers \cap alive)

\* Every message of the notifier leaves its queue for good: no longer waiting,
\* put back or unacknowledged, and with a handler that ran to its end for it,
\* unless a saga command's ack took it off on the way (NeverSilentlyLost).
NotifierDrains ==
  role = "notifier" => \A m \in Messages :
    <>[](/\ m \notin ready
         /\ \A d \in unacked : d.msg # m
         /\ m \in served \/ settledBy[m] \in Commands \ {m})

\* A release notification is never silently lost (N1): it is off its queue
\* only once a handler ran to its end for it, or is running.
NeverSilentlyLost ==
  \A m \in Notifications :
    settledBy[m] # Nobody => m \in served \/ \E d \in running : d.msg = m
=============================================================================
