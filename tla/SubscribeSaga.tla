--------------------------- MODULE SubscribeSaga ---------------------------
(***************************************************************************)
(* The SUBSCRIBE saga: the API process stores a pending subscription and   *)
(* a saga row in one transaction, has the notifier send the confirmation   *)
(* e-mail over RabbitMQ ("queue") or gRPC ("grpc"), and then completes the *)
(* saga or compensates it by deleting the subscription.                    *)
(*                                                                         *)
(* Every SQL statement or transaction is one atomic step; between two of   *)
(* them (each await of the code) any other actor may act: other requests,  *)
(* reply handlers, the reply timer, the notifier, the user, a crash.       *)
(***************************************************************************)
EXTENDS Naturals, FiniteSets

CONSTANTS
  Sagas,          \* correlation ids; a saga's subscription row has the same id
  Pairs, PairOf,  \* the (email, repository) pair each request is about
  Transport,      \* config.transport
  MaxDeliveries,  \* bound: times the broker delivers one command
  MaxCrashes,     \* bound: crashes of the API process from outside
  MaxDbFailures   \* bound: SQL statements that throw

ASSUME PairOfAssumption == PairOf \in [Sagas -> Pairs]
ASSUME TransportAssumption == Transport \in {"queue", "grpc"}
ASSUME BoundsAssumption ==
  /\ MaxDeliveries \in Nat \ {0}
  /\ MaxCrashes \in Nat
  /\ MaxDbFailures \in Nat

VARIABLES
  api,         \* phase of the API process, from start() in index.ts
  recovering,  \* recoverPendingSagas: what it has done about each saga
  status,      \* saga_instances.status
  row,         \* the subscriptions row of each saga
  pc,          \* where each execute() call is
  pending,     \* keys of pendingReplies
  got,         \* how replyPromise was settled
  answer,      \* what the subscribing client was told
  command,     \* the e-mail command, in the broker or at the notifier
  tries,       \* deliveries of the command so far
  replyKind, replyAt,  \* the reply published by each delivery
  mailed,      \* sagas whose confirmation mail was accepted
  confirming, unsubscribing,  \* sagas with such a click on a mailed link under way
  left,        \* sagas whose subscription a link has ended
  crashes, dbFailures

apiVars    == <<api, recovering>>
dbVars     == <<status, row>>
execVars   == <<pc, pending, got, answer>>
brokerVars == <<command, tries, replyKind, replyAt>>
userVars   == <<confirming, unsubscribing, left>>
faultVars  == <<crashes, dbFailures>>
vars == <<apiVars, dbVars, execVars, brokerVars, mailed, userVars, faultVars>>

-----------------------------------------------------------------------------
Deliveries == 1..MaxDeliveries

SagaStatus == {"SUBSCRIPTION_CREATED", "AWAITING_EMAIL", "COMPENSATING",
               "COMPENSATED", "COMPLETED"}

\* The points of execute() at which the request is still being served.
Live == {"created", "marking", "waiting", "sending", "sent", "failing",
         "compensating"}

\* The command is at the notifier and not acknowledged.
Unacked == {"sending", "sent", "failed", "replied"}

TypeOK ==
  /\ api \in {"down", "grace", "recoverAwaiting", "recoverCompensating", "serving"}
  /\ recovering \in [Sagas -> {"no", "listed", "marked"}]
  /\ status \in [Sagas -> SagaStatus \cup {"none"}]
  /\ row \in [Sagas -> {"absent", "pending", "confirmed"}]
  /\ pc \in [Sagas -> Live \cup {"idle", "done", "dead"}]
  /\ pending \in SUBSET Sagas
  /\ got \in [Sagas -> {"none", "SUCCESS", "FAILURE", "TIMEOUT"}]
  /\ answer \in [Sagas -> {"none", "ok", "failed", "pending", "refused", "error", "dropped"}]
  /\ command \in [Sagas -> Unacked \cup {"none", "queued", "lost", "acked"}]
  /\ tries \in [Sagas -> 0..MaxDeliveries]
  /\ replyKind \in [Sagas -> [Deliveries -> {"SUCCESS", "FAILURE"}]]
  /\ replyAt \in [Sagas -> [Deliveries ->
                  {"none", "queued", "lost", "looked", "marked", "acked", "dead"}]]
  /\ mailed \in SUBSET Sagas
  /\ confirming \in SUBSET Sagas /\ unsubscribing \in SUBSET Sagas
  /\ left \in SUBSET Sagas
  /\ crashes \in 0..MaxCrashes
  /\ dbFailures \in 0..MaxDbFailures

Init ==
  /\ api = "down"
  /\ recovering = [s \in Sagas |-> "no"]
  /\ status = [s \in Sagas |-> "none"]
  /\ row = [s \in Sagas |-> "absent"]
  /\ pc = [s \in Sagas |-> "idle"]
  /\ pending = {}
  /\ got = [s \in Sagas |-> "none"]
  /\ answer = [s \in Sagas |-> "none"]
  /\ command = [s \in Sagas |-> "none"]
  /\ tries = [s \in Sagas |-> 0]
  /\ replyKind = [s \in Sagas |-> [k \in Deliveries |-> "FAILURE"]]
  /\ replyAt = [s \in Sagas |-> [k \in Deliveries |-> "none"]]
  /\ mailed = {}
  /\ confirming = {} /\ unsubscribing = {} /\ left = {}
  /\ crashes = 0
  /\ dbFailures = 0

-----------------------------------------------------------------------------
(* SagaRepository and the compensation transaction. *)

\* Mutant: COMPLETED is never recorded.
UpdateStatusDropsCompleted(s, new) ==
  status' = IF new = "COMPLETED" THEN status ELSE [status EXCEPT ![s] = new]

UpdateStatus(s, new) == status' = [status EXCEPT ![s] = new]

\* Mutant: the WHERE clause drops the expected status.
UpdateStatusRegardless(s, new, expected) == UpdateStatus(s, new)

UpdateStatusIfCurrent(s, new, expected) ==
  status' = IF status[s] = expected THEN [status EXCEPT ![s] = new] ELSE status

\* One unit of work: the subscription is deleted and the saga COMPENSATED.
CompensationTx(s) ==
  /\ row' = [row EXCEPT ![s] = "absent"]
  /\ UpdateStatus(s, "COMPENSATED")

\* Mutant: COMPLETED is written inside the try block, and what comes after it
\* throws into the catch block, which compensates.
FinishInTry(s, result) ==
  /\ pc' = [pc EXCEPT ![s] = IF result = "ok" THEN "failing" ELSE "done"]
  /\ answer' = [answer EXCEPT ![s] = IF result = "ok" THEN @ ELSE result]

\* execute() returns or throws: the request is over.
Finish(s, result) ==
  /\ pc' = [pc EXCEPT ![s] = "done"]
  /\ answer' = [answer EXCEPT ![s] = result]

GoTo(s, place) == /\ pc' = [pc EXCEPT ![s] = place]
                  /\ UNCHANGED answer

-----------------------------------------------------------------------------
(* execute(), common to both transports. *)

\* The unit of work of CreateSubscriptionStep commits.
CreateSubscription(s) ==
  /\ api = "serving"
  /\ pc[s] = "idle"
  /\ \A t \in Sagas : PairOf[t] = PairOf[s] => row[t] = "absent"
  /\ row' = [row EXCEPT ![s] = "pending"]
  /\ UpdateStatus(s, "SUBSCRIPTION_CREATED")
  /\ GoTo(s, "created")
  /\ UNCHANGED <<apiVars, pending, got, brokerVars, mailed, userVars, faultVars>>

\* The step throws and its transaction leaves nothing behind: GitHub does not
\* know the repository, or the pair is already subscribed.
RefuseSubscription(s) ==
  /\ api = "serving"
  /\ pc[s] = "idle"
  /\ Finish(s, "refused")
  /\ UNCHANGED <<apiVars, dbVars, pending, got, brokerVars, mailed, userVars, faultVars>>

\* The write of AWAITING_EMAIL, after the publish (queue) or before the
\* call (grpc), which is then in flight.
MarkAwaiting(s) ==
  /\ UpdateStatus(s, "AWAITING_EMAIL")
  /\ \/ /\ Transport = "queue"
        /\ pc[s] = "marking"
        /\ GoTo(s, "waiting")
        /\ UNCHANGED command
     \/ /\ Transport = "grpc"
        /\ pc[s] = "created"
        /\ GoTo(s, "sending")
        /\ command' = [command EXCEPT ![s] = "sending"]
  /\ UNCHANGED <<apiVars, row, pending, got, tries, replyKind, replyAt,
                 mailed, userVars, faultVars>>

\* The e-mail is known to be sent: COMPLETED is written unconditionally.
Complete(s) ==
  /\ \/ pc[s] = "waiting" /\ got[s] = "SUCCESS"
     \/ pc[s] = "sent"
  /\ UpdateStatus(s, "COMPLETED")
  /\ Finish(s, "ok")
  /\ UNCHANGED <<apiVars, row, pending, got, brokerVars, mailed, userVars, faultVars>>

\* compensate() without expected statuses: COMPENSATING is written whatever
\* the saga's status is by then.
MarkCompensating(s) ==
  /\ \/ pc[s] = "waiting" /\ got[s] \in {"FAILURE", "TIMEOUT"}
     \/ pc[s] = "failing"
  /\ UpdateStatus(s, "COMPENSATING")
  /\ GoTo(s, "compensating")
  /\ UNCHANGED <<apiVars, row, pending, got, brokerVars, mailed, userVars, faultVars>>

FinishCompensation(s) ==
  /\ pc[s] = "compensating"
  /\ CompensationTx(s)
  /\ Finish(s, "failed")
  /\ UNCHANGED <<apiVars, pending, got, brokerVars, mailed, userVars, faultVars>>

\* The statement execute() is about to run throws instead: the request fails
\* with a 500 and nothing is undone; a registered resolver and its timer stay.
RequestDbFailure(s) ==
  /\ dbFailures < MaxDbFailures
  /\ \/ pc[s] \in {"marking", "failing", "compensating", "sent"}
     \/ pc[s] = "waiting" /\ got[s] # "none"
     \/ pc[s] = "created" /\ Transport = "grpc"
  /\ dbFailures' = dbFailures + 1
  /\ Finish(s, "error")
  /\ UNCHANGED <<apiVars, dbVars, pending, got, brokerVars, mailed, userVars, crashes>>

-----------------------------------------------------------------------------
(* Queue transport: waitForReply and publishCommand, in one tick. *)

\* sendToQueue accepted the command; without publisher confirms it may never
\* reach the broker.
PublishCommand(s) ==
  /\ Transport = "queue"
  /\ pc[s] = "created"
  /\ pending' = pending \cup {s}
  /\ \E fate \in {"queued", "lost"} : command' = [command EXCEPT ![s] = fate]
  /\ GoTo(s, "marking")
  /\ UNCHANGED <<apiVars, dbVars, got, tries, replyKind, replyAt, mailed, userVars, faultVars>>

\* getChannel() or sendToQueue throws: the resolver is cancelled.
PublishCommandThrows(s) ==
  /\ Transport = "queue"
  /\ pc[s] = "created"
  /\ GoTo(s, "failing")
  /\ UNCHANGED <<apiVars, dbVars, pending, got, brokerVars, mailed, userVars, faultVars>>

\* Mutant: the promise of waitForReply is never settled.
ForgetResolver(s, how) == /\ pending' = pending \ {s}
                          /\ UNCHANGED got

Settle(s, how) == /\ pending' = pending \ {s}
                  /\ got' = [got EXCEPT ![s] = how]

\* The reply timer rejects a promise that execute() is awaiting.
ReplyTimeout(s) ==
  /\ s \in pending
  /\ pc[s] = "waiting"
  /\ Settle(s, "TIMEOUT")
  /\ UNCHANGED <<apiVars, dbVars, pc, answer, brokerVars, mailed, userVars, faultVars>>

-----------------------------------------------------------------------------
(* gRPC transport: GrpcConfirmationEmailSender.send. *)

\* Mutant: the error of the callback is not looked at.
IgnoreOutcome(outcome) == "sent"

AfterCall(outcome) == IF outcome = "sent" THEN "sent" ELSE "failing"

\* The callback of the call: {} or the INTERNAL error of a rejected mail.
GrpcReturns(s) ==
  /\ pc[s] = "sending"
  /\ command[s] \in {"sent", "failed"}
  /\ GoTo(s, AfterCall(command[s]))
  /\ command' = [command EXCEPT ![s] = "acked"]
  /\ UNCHANGED <<apiVars, dbVars, pending, got, tries, replyKind, replyAt,
                 mailed, userVars, faultVars>>

\* DEADLINE_EXCEEDED, CANCELLED, UNAVAILABLE or UNKNOWN: the call may never
\* have reached the notifier, or may still be running there.
GrpcAmbiguous(s) ==
  /\ pc[s] = "sending"
  /\ \/ UNCHANGED command
     \/ command[s] = "sending" /\ command' = [command EXCEPT ![s] = "lost"]
  /\ Finish(s, "pending")
  /\ UNCHANGED <<apiVars, dbVars, pending, got, tries, replyKind, replyAt,
                 mailed, userVars, faultVars>>

-----------------------------------------------------------------------------
(* The notifier: SagaCommandHandler and the saga-mail gRPC handler. *)

DeliverCommand(s) ==
  /\ command[s] = "queued"
  /\ tries[s] < MaxDeliveries
  /\ command' = [command EXCEPT ![s] = "sending"]
  /\ tries' = [tries EXCEPT ![s] = @ + 1]
  /\ UNCHANGED <<apiVars, dbVars, execVars, replyKind, replyAt, mailed, userVars, faultVars>>

MailAccepted(s) ==
  /\ command[s] = "sending"
  /\ command' = [command EXCEPT ![s] = "sent"]
  /\ mailed' = mailed \cup {s}
  /\ UNCHANGED <<apiVars, dbVars, execVars, tries, replyKind, replyAt, userVars, faultVars>>

MailRejected(s) ==
  /\ command[s] = "sending"
  /\ command' = [command EXCEPT ![s] = "failed"]
  /\ UNCHANGED <<apiVars, dbVars, execVars, tries, replyKind, replyAt, mailed, userVars, faultVars>>

\* Mutant: the failure branch falls through to the success reply.
AlwaysSuccess(outcome) == "SUCCESS"

ReplyFor(outcome) == IF outcome = "sent" THEN "SUCCESS" ELSE "FAILURE"

\* Like the command, the reply may be accepted and never reach the broker.
PublishReply(s) ==
  /\ Transport = "queue"
  /\ command[s] \in {"sent", "failed"}
  /\ command' = [command EXCEPT ![s] = "replied"]
  /\ replyKind' = [replyKind EXCEPT ![s][tries[s]] = ReplyFor(command[s])]
  /\ \E fate \in {"queued", "lost"} : replyAt' = [replyAt EXCEPT ![s][tries[s]] = fate]
  /\ UNCHANGED <<apiVars, dbVars, execVars, tries, mailed, userVars, faultVars>>

AckCommand(s) ==
  /\ command[s] = "replied"
  /\ command' = [command EXCEPT ![s] = "acked"]
  /\ UNCHANGED <<apiVars, dbVars, execVars, tries, replyKind, replyAt, mailed, userVars, faultVars>>

\* The notifier dies, or loses its connection: the broker requeues every
\* command it has not acknowledged. (A gRPC call in flight ends ambiguously.)
NotifierCrash ==
  /\ Transport = "queue"
  /\ \E s \in Sagas : command[s] \in Unacked
  /\ \A s \in Sagas : command[s] \in Unacked => tries[s] < MaxDeliveries
  /\ command' = [s \in Sagas |-> IF command[s] \in Unacked THEN "queued" ELSE command[s]]
  /\ UNCHANGED <<apiVars, dbVars, execVars, tries, replyKind, replyAt, mailed, userVars, faultVars>>

-----------------------------------------------------------------------------
(* startReplyConsumer and resolveOrphanedReply. *)

ConsumerRuns == api # "down"

\* A live resolver takes the reply, which is acknowledged in the same tick.
ResolveReply(s, k) ==
  /\ ConsumerRuns
  /\ replyAt[s][k] = "queued"
  /\ s \in pending
  /\ Settle(s, replyKind[s][k])
  /\ replyAt' = [replyAt EXCEPT ![s][k] = "acked"]
  /\ UNCHANGED <<apiVars, dbVars, pc, answer, command, tries, replyKind,
                 mailed, userVars, faultVars>>

\* No resolver: findByCorrelationId. Unless the saga is AWAITING_EMAIL the
\* reply is ignored and acknowledged.
OrphanLookup(s, k) ==
  /\ ConsumerRuns
  /\ replyAt[s][k] = "queued"
  /\ s \notin pending
  /\ replyAt' = [replyAt EXCEPT ![s][k] =
                   IF status[s] = "AWAITING_EMAIL" THEN "looked" ELSE "acked"]
  /\ UNCHANGED <<apiVars, dbVars, execVars, command, tries, replyKind,
                 mailed, userVars, faultVars>>

OrphanSuccess(s, k) ==
  /\ replyAt[s][k] = "looked"
  /\ replyKind[s][k] = "SUCCESS"
  /\ UpdateStatusIfCurrent(s, "COMPLETED", "AWAITING_EMAIL")
  /\ replyAt' = [replyAt EXCEPT ![s][k] = "acked"]
  /\ UNCHANGED <<apiVars, row, execVars, command, tries, replyKind,
                 mailed, userVars, faultVars>>

\* compensate() with expected status AWAITING_EMAIL: first its conditional
\* write, then, if that applied, its transaction.
OrphanFailure(s, k) ==
  /\ replyAt[s][k] = "looked"
  /\ replyKind[s][k] = "FAILURE"
  /\ UpdateStatusIfCurrent(s, "COMPENSATING", "AWAITING_EMAIL")
  /\ replyAt' = [replyAt EXCEPT ![s][k] =
                   IF status[s] = "AWAITING_EMAIL" THEN "marked" ELSE "acked"]
  /\ UNCHANGED <<apiVars, row, execVars, command, tries, replyKind,
                 mailed, userVars, faultVars>>

OrphanCompensate(s, k) ==
  /\ replyAt[s][k] = "marked"
  /\ CompensationTx(s)
  /\ replyAt' = [replyAt EXCEPT ![s][k] = "acked"]
  /\ UNCHANGED <<apiVars, execVars, command, tries, replyKind, mailed, userVars, faultVars>>

\* The handler throws: consumeReplies dead-letters the reply.
OrphanDbFailure(s, k) ==
  /\ ConsumerRuns
  /\ dbFailures < MaxDbFailures
  /\ \/ replyAt[s][k] = "queued" /\ s \notin pending
     \/ replyAt[s][k] \in {"looked", "marked"}
  /\ dbFailures' = dbFailures + 1
  /\ replyAt' = [replyAt EXCEPT ![s][k] = "dead"]
  /\ UNCHANGED <<apiVars, dbVars, execVars, command, tries, replyKind,
                 mailed, userVars, crashes>>

-----------------------------------------------------------------------------
(* start() of index.ts and recoverPendingSagas. *)

StartApi ==
  /\ api = "down"
  /\ api' = "grace"
  /\ UNCHANGED <<recovering, dbVars, execVars, brokerVars, mailed, userVars, faultVars>>

\* Mutant: COMPENSATING sagas are not recovered.
FindAwaiting(wanted) == {s \in Sagas : status[s] = "AWAITING_EMAIL"}

FindByStatus(wanted) == {s \in Sagas : status[s] = wanted}

\* findByStatus, for the next of the statuses to recover.
ListSagas(phase, wanted) ==
  /\ api' = phase
  /\ recovering' = [s \in Sagas |-> IF s \in FindByStatus(wanted) THEN "listed" ELSE "no"]
  /\ UNCHANGED <<dbVars, execVars, brokerVars, mailed, userVars, faultVars>>

\* Mutant: the compensations of a pass are not awaited.
PassUnawaited == TRUE

PassOver == \A s \in Sagas : recovering[s] = "no"

ListAwaiting == api = "grace" /\ ListSagas("recoverAwaiting", "AWAITING_EMAIL")

ListCompensating ==
  /\ api = "recoverAwaiting"
  /\ PassOver
  /\ ListSagas("recoverCompensating", "COMPENSATING")

\* compensate() with the listed status expected; sagas are taken one at a time.
RecoverMark(s) ==
  LET expected == IF api = "recoverAwaiting" THEN "AWAITING_EMAIL" ELSE "COMPENSATING"
  IN  /\ recovering[s] = "listed"
      /\ \A t \in Sagas : recovering[t] # "marked"
      /\ UpdateStatusIfCurrent(s, "COMPENSATING", expected)
      /\ recovering' = [recovering EXCEPT ![s] =
                          IF status[s] = expected THEN "marked" ELSE "no"]
      /\ UNCHANGED <<api, row, execVars, brokerVars, mailed, userVars, faultVars>>

RecoverCompensate(s) ==
  /\ recovering[s] = "marked"
  /\ CompensationTx(s)
  /\ recovering' = [recovering EXCEPT ![s] = "no"]
  /\ UNCHANGED <<api, execVars, brokerVars, mailed, userVars, faultVars>>

\* Recovery is over: the routes are registered and the servers listen.
Serve ==
  /\ api = "recoverCompensating"
  /\ PassOver
  /\ api' = "serving"
  /\ UNCHANGED <<recovering, dbVars, execVars, brokerVars, mailed, userVars, faultVars>>

\* The process is gone: requests in flight are dropped, resolvers and timers
\* vanish, and the broker requeues the replies it had not acknowledged.
ProcessLost ==
  /\ api' = "down"
  /\ recovering' = [s \in Sagas |-> "no"]
  /\ pc' = [s \in Sagas |-> IF pc[s] \in Live THEN "dead" ELSE pc[s]]
  /\ answer' = [s \in Sagas |-> IF pc[s] \in Live THEN "dropped" ELSE answer[s]]
  /\ pending' = {}
  /\ replyAt' = [s \in Sagas |-> [k \in Deliveries |->
                   IF replyAt[s][k] \in {"looked", "marked"} THEN "queued"
                   ELSE replyAt[s][k]]]
  /\ confirming' = {} /\ unsubscribing' = {}
  /\ UNCHANGED <<dbVars, got, command, tries, replyKind, mailed, left>>

ApiCrash ==
  /\ api # "down"
  /\ crashes < MaxCrashes
  /\ crashes' = crashes + 1
  /\ ProcessLost
  /\ UNCHANGED dbFailures

\* The timer rejects a promise nobody awaits yet (the AWAITING_EMAIL write is
\* in flight) or any more (it threw): an unhandled rejection ends the process.
UnhandledTimeout(s) ==
  /\ s \in pending
  /\ pc[s] \in {"marking", "done"}
  /\ ProcessLost
  /\ UNCHANGED faultVars

\* A statement of the recovery throws: start() exits the process.
RecoveryDbFailure ==
  /\ api \in {"grace", "recoverAwaiting", "recoverCompensating"}
  /\ dbFailures < MaxDbFailures
  /\ dbFailures' = dbFailures + 1
  /\ ProcessLost
  /\ UNCHANGED crashes

-----------------------------------------------------------------------------
(* SubscriptionService: the links of the mail, each a read and a write, in any *)
(* order, any number of times, and one of them between the two of another.     *)

FindByToken(s) ==
  /\ api = "serving"
  /\ s \in mailed
  /\ row[s] # "absent"

\* Two clicks on the same link at the same time do what one does.
ConfirmFind(s) ==
  /\ FindByToken(s)
  /\ confirming' = confirming \cup {s}
  /\ UNCHANGED <<apiVars, dbVars, execVars, brokerVars, mailed, unsubscribing, left, faultVars>>

\* Mutant: an upsert brings a deleted subscription back.
Upsert(old) == "confirmed"

\* UPDATE ... WHERE id: no row, no effect, and still a success to the user.
SetConfirmed(old) == IF old = "absent" THEN old ELSE "confirmed"

ConfirmWrite(s) ==
  /\ s \in confirming
  /\ confirming' = confirming \ {s}
  /\ row' = [row EXCEPT ![s] = SetConfirmed(@)]
  /\ UNCHANGED <<apiVars, status, execVars, brokerVars, mailed, unsubscribing, left, faultVars>>

UnsubscribeFind(s) ==
  /\ FindByToken(s)
  /\ unsubscribing' = unsubscribing \cup {s}
  /\ UNCHANGED <<apiVars, dbVars, execVars, brokerVars, mailed, confirming, left, faultVars>>

UnsubscribeWrite(s) ==
  /\ s \in unsubscribing
  /\ unsubscribing' = unsubscribing \ {s}
  /\ left' = left \cup {s}
  /\ row' = [row EXCEPT ![s] = "absent"]
  /\ UNCHANGED <<apiVars, status, execVars, brokerVars, mailed, confirming, faultVars>>

-----------------------------------------------------------------------------
RequestStep(s) ==
  \/ CreateSubscription(s) \/ RefuseSubscription(s)
  \/ PublishCommand(s) \/ PublishCommandThrows(s)
  \/ MarkAwaiting(s) \/ ReplyTimeout(s) \/ GrpcReturns(s) \/ GrpcAmbiguous(s)
  \/ Complete(s) \/ MarkCompensating(s) \/ FinishCompensation(s)
  \/ RequestDbFailure(s) \/ UnhandledTimeout(s)

NotifierStep(s) ==
  \/ DeliverCommand(s) \/ MailAccepted(s) \/ MailRejected(s)
  \/ PublishReply(s) \/ AckCommand(s)

ReplyStep(s, k) ==
  \/ ResolveReply(s, k) \/ OrphanLookup(s, k) \/ OrphanSuccess(s, k)
  \/ OrphanFailure(s, k) \/ OrphanCompensate(s, k) \/ OrphanDbFailure(s, k)

StartupStep ==
  \/ StartApi \/ ListAwaiting \/ ListCompensating \/ Serve
  \/ \E s \in Sagas : RecoverMark(s) \/ RecoverCompensate(s)
  \/ RecoveryDbFailure

UserStep(s) ==
  \/ ConfirmFind(s) \/ ConfirmWrite(s) \/ UnsubscribeFind(s) \/ UnsubscribeWrite(s)

Next ==
  \/ \E s \in Sagas : RequestStep(s) \/ NotifierStep(s) \/ UserStep(s)
  \/ \E s \in Sagas, k \in Deliveries : ReplyStep(s, k)
  \/ StartupStep
  \/ ApiCrash
  \/ NotifierCrash

Spec == Init /\ [][Next]_vars

(***************************************************************************)
(* The event loop runs every continuation that is ready, timers fire, the  *)
(* broker delivers, and both containers restart (restart: unless-stopped). *)
(* Nothing makes a client subscribe, a user click, or anything fail.       *)
(***************************************************************************)
Fairness ==
  /\ WF_vars(StartupStep)
  /\ \A s \in Sagas :
       /\ WF_vars(PublishCommand(s) \/ PublishCommandThrows(s))
       /\ WF_vars(MarkAwaiting(s))
       /\ WF_vars(GrpcReturns(s) \/ GrpcAmbiguous(s))
       /\ WF_vars(ReplyTimeout(s) \/ UnhandledTimeout(s))
       /\ WF_vars(Complete(s) \/ MarkCompensating(s) \/ FinishCompensation(s))
       /\ WF_vars(NotifierStep(s))
       /\ \A k \in Deliveries : WF_vars(ReplyStep(s, k))

FairSpec == Spec /\ Fairness

-----------------------------------------------------------------------------
(* Correctness. *)

\* A client told "Subscription failed" really is not subscribed: the saga is
\* COMPENSATED and the row is gone, and no late reply handler, recovery or
\* user click (execute, resolveOrphanedReply, compensate) brings either back.
FailedMeansRemoved ==
  \A s \in Sagas : answer[s] = "failed" => status[s] = "COMPENSATED" /\ row[s] = "absent"

\* A saga is COMPLETED, or its client told so, only if the mail provider
\* accepted a confirmation mail, whichever of the request, the orphaned
\* reply handler or the gRPC call recorded it.
CompletedMeansMailed ==
  \A s \in Sagas : status[s] = "COMPLETED" \/ answer[s] = "ok" => s \in mailed

\* No subscription survives its compensation, and none exists without a saga
\* row that can compensate it: the two units of work keep the tables in step
\* through crashes, failed statements and concurrent compensations.
CompensatedRowIsGone ==
  \A s \in Sagas : row[s] # "absent" => status[s] \notin {"none", "COMPENSATED"}

\* Once the restarted API serves again, a saga whose request died with the
\* process is settled, except one that had not reached AWAITING_EMAIL:
\* nothing that races the two passes of recoverPendingSagas slips through.
RecoveredSagasSettled ==
  \A s \in Sagas : api = "serving" /\ pc[s] = "dead" =>
    status[s] \in {"SUBSCRIPTION_CREATED", "COMPENSATED", "COMPLETED"}

\* A client told 200 keeps the subscription until the user unsubscribes, if
\* the broker delivered the command once: the timer, orphaned replies and the
\* recovery never compensate a saga execute() has completed. (A redelivered
\* command can: its second reply is an orphan that races the COMPLETED write.)
OkMeansKept ==
  \A s \in Sagas : answer[s] = "ok" /\ tries[s] <= 1 =>
    /\ status[s] = "COMPLETED"
    /\ row[s] # "absent" \/ s \in left

Resolved(s) == status[s] \in {"COMPLETED", "COMPENSATED"}

\* As long as no statement fails, no saga stays AWAITING_EMAIL or
\* COMPENSATING: a reply, the timer of execute() or the recovery of the next
\* start ends it. (On gRPC an ambiguous outcome stays until the next start.)
AwaitingIsResolved ==
  \A s \in Sagas :
    status[s] \in {"AWAITING_EMAIL", "COMPENSATING"} ~>
      Resolved(s) \/ dbFailures # 0 \/ answer[s] = "pending"

\* Every accepted request is answered, or dropped by a crash of the process:
\* a lost command or reply cannot hang the caller.
RequestEnds == \A s \in Sagas : pc[s] = "created" ~> pc[s] \in {"done", "dead"}

-----------------------------------------------------------------------------
(* The inductive invariant behind them. *)

\* Nothing happens about a saga before its unit of work has committed, and
\* a request that is being served has not been answered.
Begun ==
  \A s \in Sagas :
    /\ pc[s] \in Live \cup {"idle"} => answer[s] = "none"
    /\ pc[s] = "idle" => status[s] = "none"
    /\ status[s] = "none" =>
         /\ pc[s] \in {"idle", "done"} /\ command[s] = "none"
         /\ s \notin mailed /\ recovering[s] = "no"
         /\ \A k \in Deliveries : replyAt[s][k] = "none"

\* Whoever acts on a sent mail acts on a mail that was accepted.
MailKnown ==
  \A s \in Sagas :
    /\ pc[s] = "sent" \/ command[s] = "sent" \/ got[s] = "SUCCESS" => s \in mailed
    /\ \A k \in Deliveries : replyKind[s][k] = "SUCCESS" => s \in mailed
    /\ s \in confirming \cup unsubscribing => s \in mailed

\* No request is served before recovery is over; while it runs, every saga
\* it must still compensate is on its list or in its hands.
RecoveryComplete ==
  \A s \in Sagas :
    /\ pc[s] \in Live => api = "serving"
    /\ recovering[s] # "no" => api \in {"recoverAwaiting", "recoverCompensating"}
    /\ api = "recoverAwaiting" /\ status[s] = "AWAITING_EMAIL" => recovering[s] = "listed"
    /\ api = "recoverCompensating" =>
         /\ status[s] # "AWAITING_EMAIL"
         /\ status[s] = "COMPENSATING" => recovering[s] # "no"

\* An answered "failed" leaves execute() with nothing more to write.
FailedIsOver == \A s \in Sagas : answer[s] = "failed" => pc[s] = "done"

Consistent ==
  /\ Begun
  /\ MailKnown
  /\ RecoveryComplete
  /\ FailedIsOver
  /\ FailedMeansRemoved
  /\ CompletedMeansMailed
  /\ CompensatedRowIsGone
  /\ RecoveredSagasSettled

\* A reply belongs to a delivery that was made. A resolver waits only as long
\* as no reply has been taken, by itself or as an orphan; once it has one, that
\* reply is acknowledged and no handler has it any more.
ReplyTaken ==
  \A s \in Sagas :
    /\ pc[s] \in {"idle", "created"} =>
         /\ command[s] = "none" /\ tries[s] = 0
         /\ got[s] = "none" /\ s \notin pending
    /\ pc[s] \in {"sending", "sent"} => Transport = "grpc"
    /\ Transport = "grpc" => tries[s] = 0 /\ command[s] # "queued"
    /\ s \in pending =>
         got[s] = "none" /\ \A k \in Deliveries : replyAt[s][k] \in {"none", "queued", "lost"}
    /\ pc[s] \in {"marking", "waiting"} /\ got[s] = "none" => s \in pending
    /\ got[s] \in {"SUCCESS", "FAILURE"} =>
         \E k \in Deliveries : replyAt[s][k] = "acked"
    /\ \A k \in Deliveries : replyAt[s][k] # "none" => k <= tries[s]
    /\ command[s] \in {"sending", "sent", "failed"} =>
         \A k \in Deliveries : k = tries[s] => replyAt[s][k] = "none"

\* Until execute() learns that the mail failed, nobody but the user deletes the
\* row of a saga whose command was delivered once, and after its 200 nobody
\* touches its status.
Kept ==
  \A s \in Sagas : tries[s] <= 1 =>
    /\ \/ pc[s] \in {"created", "sending", "sent"}
       \/ pc[s] \in {"marking", "waiting"} /\ got[s] \in {"none", "SUCCESS"}
       \/ answer[s] = "ok"
       => row[s] # "absent" \/ s \in left
    /\ answer[s] = "ok" =>
         /\ status[s] = "COMPLETED" /\ recovering[s] # "marked"
         /\ got[s] = "SUCCESS" \/ Transport = "grpc"

\* On gRPC there is no second taker of an outcome: execute() alone completes.
OnlyExecuteCompletes ==
  Transport = "grpc" =>
    \A s \in Sagas : pc[s] \in Live \cup {"idle"} => status[s] # "COMPLETED"

SagaInv == TypeOK /\ Consistent /\ ReplyTaken /\ Kept /\ OnlyExecuteCompletes

-----------------------------------------------------------------------------
(* The saga implements the contract of the subscribe request. *)

\* A row that is absent from the table was never stored, or is gone.
Life == [s \in Sagas |->
           IF row[s] # "absent" THEN row[s]
           ELSE IF status[s] = "none" THEN "none" ELSE "gone"]

Contract == INSTANCE SubscribeContract
              WITH Requests <- Sagas, life <- Life, reply <- answer, notified <- mailed

\* Every step of the saga, seen through the client's answer, the life of the
\* row and the accepted mails, is a step of SubscribeContract or none at all.
ImplementsContract == Contract!Spec

-----------------------------------------------------------------------------
\* A COMPLETED saga is never put back to COMPENSATING: over gRPC execute() and
\* the recovery of the next start are all that touch a saga, one after the other,
\* and what follows the COMPLETED write cannot throw into compensate().
ResolvedNotCompensated ==
  [][\A s \in Sagas : status[s] = "COMPLETED" => status'[s] # "COMPENSATING"]_vars

-----------------------------------------------------------------------------
(* What the documents and tests say and the code does not always do. *)

\* "does not touch subscriptions.deleteById on success": who is told "Subscription
\* successful" has the subscription until a link of the mail ends it. The reply
\* of a redelivered command is an orphan that may compensate behind execute().
SuccessIsSubscribed ==
  \A s \in Sagas : answer[s] = "ok" => row[s] # "absent" \/ s \in left

\* "compensate on failure": a stored subscription whose saga got no further
\* is eventually completed or compensated.
CreatedIsSettled == \A s \in Sagas : status[s] = "SUBSCRIPTION_CREATED" ~> Resolved(s)
=============================================================================
