------------------------ MODULE NotificationDelivery ------------------------
(***************************************************************************)
(* Delivery of release notifications by the notifier: NotificationQueue    *)
(* consumes release.notifications, NotificationService mails, a failure    *)
(* parks a copy on the retry queue, and after MaxRetries retries a message *)
(* goes to the dead-letter queue.                                          *)
(*                                                                         *)
(* A publish and an ack are separate frames on the connection, so it can   *)
(* be lost between them. A handler keeps the channel it was started with:  *)
(* when that channel is closed under it, its ack throws, handleRetry       *)
(* throws in turn, and the unhandled rejection ends the process.           *)
(***************************************************************************)
EXTENDS Naturals, FiniteSets

CONSTANTS
  Notifications,  \* messages the scanner may publish
  Invalid,        \* those whose payload the schema rejects
  MaxPublished,   \* bound: how often the scanner publishes one of them
  MaxRetries,     \* MAX_RETRIES
  MaxFaults       \* bound: connections lost, to the broker or in the middle of
                  \* a mail, and notifier crashes

ASSUME InvalidAssumption == Invalid \subseteq Notifications
ASSUME PublishedAssumption == MaxPublished \in 1..2
ASSUME RetryAssumption == MaxRetries \in Nat
ASSUME FaultAssumption == MaxFaults \in Nat

VARIABLES
  published, \* how often the message arrived at the broker, up to 2
  notifier,  \* the process: consuming, reconnecting after a lost connection, or down
  copies,    \* how many copies of a message are where, by x-retry-count
  stale,     \* phases of the message's handlers left on a closed channel
  mails,     \* mails the provider accepted for the message, up to 2
  failures,  \* handler runs that failed, up to MaxRetries + 1
  dead,      \* copies in release.notifications.dead
  faults

vars == <<published, notifier, copies, stale, mails, failures, dead, faults>>

-----------------------------------------------------------------------------
Counts == 0..MaxRetries

\* "working": delivered, mail being sent; "mailed": mail accepted, not acked;
\* "copied": failed and republished to the retry queue ("parked"), not acked.
Places == {"ready", "working", "mailed", "copied", "parked"}

\* The places at which a handler of the message has not returned.
Running == {"working", "mailed"}

TypeOK ==
  /\ published \in [Notifications -> 0..2]
  /\ notifier \in {"consuming", "reconnecting", "down"}
  /\ copies \in [Notifications -> [Places \X Counts -> Nat]]
  /\ stale \in [Notifications -> SUBSET Running]
  /\ mails \in [Notifications -> Nat]
  /\ failures \in [Notifications -> Nat]
  /\ dead \in [Notifications -> Nat]
  /\ faults \in 0..MaxFaults

Init ==
  /\ published = [m \in Notifications |-> 0]
  /\ notifier = "consuming"
  /\ copies = [m \in Notifications |-> [p \in Places \X Counts |-> 0]]
  /\ stale = [m \in Notifications |-> {}]
  /\ mails = [m \in Notifications |-> 0]
  /\ failures = [m \in Notifications |-> 0]
  /\ dead = [m \in Notifications |-> 0]
  /\ faults = 0

\* A counter's next value for m: more than the cap is not told apart from it.
Counted(counter, m, cap) ==
  [counter EXCEPT ![m] = IF @ < cap THEN @ + 1 ELSE @]

\* There is a copy of m with retry count n at a place, and it leaves it, for
\* the places "to", if any.
Leaves(m, place, n, to) ==
  /\ copies[m][<<place, n>>] > 0
  /\ copies' = [copies EXCEPT ![m] = [p \in Places \X Counts |->
                  IF p = <<place, n>> THEN @[p] - 1
                  ELSE IF p \in to THEN @[p] + 1 ELSE @[p]]]

\* A channel's frames reach the broker in the order they were sent in: nothing
\* overtakes the ack of a message whose copy is parked.
InOrder == \A m \in Notifications, n \in Counts : copies[m][<<"copied", n>>] = 0

-----------------------------------------------------------------------------
\* The messages of M arrive at the broker, which keeps the queue whether or not
\* the notifier consumes it, without a retry header.
Arrive(M) ==
  /\ published' = [m \in Notifications |->
       IF m \in M /\ published[m] < 2 THEN published[m] + 1 ELSE published[m]]
  /\ copies' = [m \in Notifications |-> [p \in Places \X Counts |->
       IF m \in M /\ p = <<"ready", 0>> THEN copies[m][p] + 1 ELSE copies[m][p]]]
  /\ UNCHANGED <<notifier, stale, mails, failures, dead, faults>>

\* The scanner publishes, a second time after a scan that failed or overlapped.
Publish(m) == published[m] < MaxPublished /\ Arrive({m})

-----------------------------------------------------------------------------
(* processMessage. *)

\* A payload that does not parse is dead-lettered without running the handler.
RejectInvalid(m, n) ==
  /\ notifier = "consuming"
  /\ m \in Invalid
  /\ InOrder
  /\ Leaves(m, "ready", n, {})
  /\ dead' = [dead EXCEPT ![m] = @ + 1]
  /\ UNCHANGED <<published, notifier, stale, mails, failures, faults>>

Deliver(m, n) ==
  /\ notifier = "consuming"
  /\ m \notin Invalid
  /\ Leaves(m, "ready", n, {<<"working", n>>})
  /\ UNCHANGED <<published, notifier, stale, mails, failures, dead, faults>>

MailAccepted(m, n) ==
  /\ Leaves(m, "working", n, {<<"mailed", n>>})
  /\ mails' = Counted(mails, m, 2)
  /\ UNCHANGED <<published, notifier, stale, failures, dead, faults>>

\* channel.ack, after the handler or after the copy was parked.
Ack(m, n) ==
  /\ \/ InOrder /\ Leaves(m, "mailed", n, {})
     \/ Leaves(m, "copied", n, {})
  /\ UNCHANGED <<published, notifier, stale, mails, failures, dead, faults>>

-----------------------------------------------------------------------------
(* The handler fails (NotificationService rethrows): handleRetry, in the     *)
(* same tick.                                                                *)

\* Mutant: one retry too few.
RetriesLeftShort(n) == n + 1 < MaxRetries

RetriesLeft(n) == n < MaxRetries

\* Mutants: the original is acked before the copy is on the retry queue; the
\* copy keeps its count; the count is raised twice; the original is requeued.
CopyAfterAck(n) == {<<"copied", n>>}
CopyKeepsCount(n) == {<<"copied", n>>, <<"parked", n>>}
CopySkipsCount(n) == {<<"copied", n>>, <<"parked", n + 2>>}
CopyAndRequeue(n) == {<<"ready", n>>, <<"parked", n + 1>>}

\* A copy with the next retry count is parked; the original is still unacked.
CopyBeforeAck(n) == {<<"copied", n>>, <<"parked", n + 1>>}

\* The send throws. When the connection to the provider is what failed, the
\* mail may have been accepted all the same.
SendFails(m) ==
  /\ failures' = Counted(failures, m, MaxRetries + 1)
  /\ \/ UNCHANGED <<mails, faults>>
     \/ faults < MaxFaults /\ faults' = faults + 1 /\ mails' = Counted(mails, m, 2)

Park(m, n) ==
  /\ RetriesLeft(n)
  /\ InOrder
  /\ Leaves(m, "working", n, CopyBeforeAck(n))
  /\ SendFails(m)
  /\ UNCHANGED <<published, notifier, stale, dead>>

\* Mutant: the last failure is nacked with requeue.
DeadLetterRequeues(m, n) ==
  /\ ~ RetriesLeft(n)
  /\ InOrder
  /\ Leaves(m, "working", n, {<<"ready", n>>})
  /\ SendFails(m)
  /\ UNCHANGED <<published, notifier, stale, dead>>

DeadLetter(m, n) ==
  /\ ~ RetriesLeft(n)
  /\ InOrder
  /\ Leaves(m, "working", n, {})
  /\ SendFails(m)
  /\ dead' = [dead EXCEPT ![m] = @ + 1]
  /\ UNCHANGED <<published, notifier, stale>>

\* The copy's expiration passes and the broker dead-letters it to the main queue.
RetryExpires(m, n) ==
  /\ Leaves(m, "parked", n, {<<"ready", n>>})
  /\ UNCHANGED <<published, notifier, stale, mails, failures, dead, faults>>

-----------------------------------------------------------------------------
(* Faults. *)

Unacked(b, n) == b[<<"working", n>>] + b[<<"mailed", n>>] + b[<<"copied", n>>]

\* The broker requeues what it delivered and saw no ack for.
Requeued(b) ==
  [p \in Places \X Counts |->
     CASE p[1] = "ready"  -> b[p] + Unacked(b, p[2])
       [] p[1] = "parked" -> b[p]
       [] OTHER           -> 0]

Requeue == copies' = [m \in Notifications |-> Requeued(copies[m])]

\* The broker connection closes under the handlers that have not returned.
ConnectionLost ==
  /\ notifier = "consuming"
  /\ faults < MaxFaults
  /\ faults' = faults + 1
  /\ notifier' = "reconnecting"
  /\ Requeue
  /\ stale' = [m \in Notifications |->
       {p \in Running : \E n \in Counts : copies[m][<<p, n>>] > 0}]
  /\ UNCHANGED <<published, mails, failures, dead>>

\* performReconnect succeeds and its handler starts the consumers again.
Reconnect ==
  /\ notifier = "reconnecting"
  /\ notifier' = "consuming"
  /\ UNCHANGED <<published, copies, stale, mails, failures, dead, faults>>

ProcessLost ==
  /\ notifier' = "down"
  /\ Requeue
  /\ stale' = [m \in Notifications |-> {}]

NotifierCrash ==
  /\ notifier # "down"
  /\ faults < MaxFaults
  /\ faults' = faults + 1
  /\ ProcessLost
  /\ UNCHANGED <<published, mails, failures, dead>>

\* A handler on a closed channel ends: whether its mail was accepted or not,
\* ack and handleRetry throw and the process dies of an unhandled rejection.
StaleHandlerEnds(m) ==
  /\ \/ "working" \in stale[m] /\ mails' = Counted(mails, m, 2) /\ UNCHANGED failures
     \/ "working" \in stale[m] /\ failures' = Counted(failures, m, MaxRetries + 1) /\ UNCHANGED mails
     \/ "mailed" \in stale[m] /\ UNCHANGED <<mails, failures>>
  /\ ProcessLost
  /\ UNCHANGED <<published, dead, faults>>

Restart ==
  /\ notifier = "down"
  /\ notifier' = "consuming"
  /\ UNCHANGED <<published, copies, stale, mails, failures, dead, faults>>

-----------------------------------------------------------------------------
MessageStep(m, n) ==
  \/ RejectInvalid(m, n) \/ Deliver(m, n) \/ MailAccepted(m, n) \/ Ack(m, n)
  \/ Park(m, n) \/ DeadLetter(m, n) \/ RetryExpires(m, n)

Next ==
  \/ \E m \in Notifications, n \in Counts : MessageStep(m, n)
  \/ \E m \in Notifications : Publish(m) \/ StaleHandlerEnds(m)
  \/ ConnectionLost \/ Reconnect \/ NotifierCrash \/ Restart

Spec == Init /\ [][Next]_vars

(***************************************************************************)
(* The broker delivers and expires, a mail attempt ends, the event loop    *)
(* runs the continuation, reconnect attempts go on until one succeeds and  *)
(* the container restarts. Nothing makes a mail succeed or a fault happen. *)
(***************************************************************************)
FairSpec ==
  /\ Spec
  /\ \A m \in Notifications :
       /\ WF_vars(StaleHandlerEnds(m))
       /\ \A n \in Counts : WF_vars(MessageStep(m, n))
  /\ WF_vars(Reconnect)
  /\ WF_vars(Restart)

-----------------------------------------------------------------------------
Held(m) == \E p \in Places \X Counts : copies[m][p] > 0

\* A release notification is never silently lost (N1): whatever is acked,
\* parked, requeued or crashed when, what arrived at the broker is still on a
\* queue, was mailed, or is quarantined in the dead-letter queue.
NeverLost ==
  \A m \in Notifications : published[m] > 0 => Held(m) \/ mails[m] > 0 \/ dead[m] > 0

\* Nobody is mailed, or about to be, what was not published.
OnlyPublished ==
  \A m \in Notifications :
    Held(m) \/ stale[m] # {} \/ mails[m] > 0 \/ dead[m] > 0 => published[m] > 0

\* A copy's retry count never runs ahead of the failures behind it, whatever
\* was duplicated by a fault.
CountsFailures ==
  \A m \in Notifications, p \in Places \X Counts :
    copies[m][p] > 0 => p[2] <= failures[m]

\* What is mailed but not acked was mailed; what is copied but not acked has
\* another copy, for nothing overtakes its ack.
InFlightIsSafe ==
  \A m \in Notifications, n \in Counts :
    /\ copies[m][<<"mailed", n>>] > 0 => mails[m] > 0
    /\ copies[m][<<"copied", n>>] > 0 =>
         \/ mails[m] > 0 \/ dead[m] > 0
         \/ \E p \in Places \X Counts : p[1] # "copied" /\ copies[m][p] > 0

\* A valid message is quarantined only after MaxRetries retries: its handler
\* failed at least MaxRetries + 1 times, counted over all its copies.
DeadOnlyAfterRetries ==
  \A m \in Notifications \ Invalid : dead[m] > 0 => failures[m] > MaxRetries

\* Copies, counts and outcomes agree, through every fault.
QueueInv ==
  /\ TypeOK
  /\ CountsFailures
  /\ InFlightIsSafe
  /\ NeverLost
  /\ OnlyPublished
  /\ DeadOnlyAfterRetries

One(b) == IF b THEN 1 ELSE 0

\* The places of a copy that has not ended in a mail or a dead letter yet. (One
\* that is "mailed" has, and beside one that is "copied" there is its twin.)
Open == {"ready", "working", "parked"} \X Counts
Ended == <<"ended", 0>>

\* Of m, published twice at most, one publication is at p and one at q or they
\* have ended, and there is nothing else.
Accounted(m, p, q) ==
  /\ \A r \in Open : copies[m][r] <= One(r = p) + One(r = q)
  /\ mails[m] + dead[m] + One(p # Ended) + One(q # Ended) <= published[m]

Followed(m) == \E p, q \in Open \cup {Ended} : Accounted(m, p, q)

\* Without faults no handler is on a closed channel and nothing is duplicated.
NoDuplicates ==
  faults = 0 => \A m \in Notifications : stale[m] = {} /\ Followed(m)

\* The inductive invariant (NotificationDeliveryProofs).
DeliveryInv == QueueInv /\ NoDuplicates

\* Unless a connection is lost, to the broker before an ack or to the provider
\* before its answer, or the notifier crashes, a subscriber gets one mail at most
\* for each time the message was published, and none that is also reported dead.
OneOutcomeWithoutFaults ==
  faults = 0 => \A m \in Notifications : mails[m] + dead[m] <= published[m]

\* Every message that arrived ends: mailed or quarantined, in spite of the faults.
Settles == \A m \in Notifications : (published[m] > 0) ~> (mails[m] > 0 \/ dead[m] > 0)

\* The queues drain: a message that was mailed or quarantined is not retried
\* for ever.
Drains == \A m \in Notifications : <>[](~ Held(m))
=============================================================================
