------------------------ MODULE ReleasePipelineProofs ------------------------
(***************************************************************************)
(* Scanner, queue and notifier together implement ReleaseContract, for any *)
(* number of subscribers, releases, overlapping scans, retries and faults. *)
(* The invariants proved of each process apart are carried over to the     *)
(* pipeline; the refinement follows from them.                             *)
(***************************************************************************)
EXTENDS ReleasePipeline, TLAPS

SP == INSTANCE ReleaseScannerProofs WITH
  MaxFaults <- MaxScannerFaults, faults <- scannerFaults

DP == INSTANCE NotificationDeliveryProofs WITH
  Notifications <- Messages, Invalid <- {}, MaxPublished <- 2,
  MaxFaults <- MaxNotifierFaults, faults <- notifierFaults,
  published <- [m \in Messages |-> published[m[1]][m[2]]]

-----------------------------------------------------------------------------
(* The pipeline's steps are the scanner's. *)

LEMMA WorldSteps ==
  /\ Scanner!NewRelease => SP!NewRelease
  /\ Scanner!ChannelCloses => SP!ChannelCloses
  /\ Scanner!ChannelReopens => SP!ChannelReopens
  /\ Scanner!ApiCrash => SP!ApiCrash
  /\ \A s \in Subscriptions : Scanner!Confirm(s) => SP!Confirm(s)
  /\ \A s \in Subscriptions : Scanner!Leave(s) => SP!Leave(s)
BY DEF Scanner!NewRelease, SP!NewRelease, Scanner!Confirmed, SP!Confirmed,
       Scanner!ChannelCloses, SP!ChannelCloses, Scanner!Fault, SP!Fault,
       Scanner!ChannelReopens, SP!ChannelReopens,
       Scanner!ApiCrash, SP!ApiCrash, Scanner!NoScan, SP!NoScan,
       Scanner!Confirm, SP!Confirm, Scanner!Leave, SP!Leave

LEMMA RunSteps ==
  ASSUME NEW x \in Scans
  PROVE  /\ Scanner!StartScan(x) => SP!StartScan(x)
         /\ Scanner!Fetch(x) => SP!Fetch(x)
         /\ Scanner!NothingNew(x) => SP!NothingNew(x)
         /\ Scanner!PublishThrows(x) => SP!PublishThrows(x)
         /\ Scanner!UpdateLastSeenTag(x) => SP!UpdateLastSeenTag(x)
         /\ Scanner!StepFails(x) => SP!StepFails(x)
         /\ \A arrived : Scanner!PublishTo(x, arrived) => SP!PublishTo(x, arrived)
<1> USE DEF Scanner!NoScan, SP!NoScan, Scanner!Proceeds, SP!Proceeds
<1>1. Scanner!StartScan(x) => SP!StartScan(x)
  BY DEF Scanner!StartScan, SP!StartScan, Scanner!Busy, SP!Busy, Scanner!Confirmed, SP!Confirmed
<1>2. Scanner!Fetch(x) => SP!Fetch(x)
  BY DEF Scanner!Fetch, SP!Fetch, Scanner!LatestRelease, SP!LatestRelease
<1>3. Scanner!NothingNew(x) => SP!NothingNew(x)
  BY DEF Scanner!NothingNew, SP!NothingNew, Scanner!IsNew, SP!IsNew
<1>4. Scanner!PublishThrows(x) => SP!PublishThrows(x)
  BY DEF Scanner!PublishThrows, SP!PublishThrows, Scanner!IsNew, SP!IsNew,
         Scanner!AfterThrow, SP!AfterThrow
<1>5. Scanner!UpdateLastSeenTag(x) => SP!UpdateLastSeenTag(x)
  BY DEF Scanner!UpdateLastSeenTag, SP!UpdateLastSeenTag, Scanner!Recorded, SP!Recorded
<1>6. Scanner!StepFails(x) => SP!StepFails(x)
  BY DEF Scanner!StepFails, SP!StepFails, Scanner!Fault, SP!Fault
<1>7. ASSUME NEW arrived, Scanner!PublishTo(x, arrived) PROVE SP!PublishTo(x, arrived)
  BY <1>7 DEF Scanner!PublishTo, SP!PublishTo, Scanner!IsNew, SP!IsNew, Scanner!Send, SP!Send,
              Scanner!Tags, SP!Tags, Scanner!Fault, SP!Fault
<1> QED
  BY <1>1, <1>2, <1>3, <1>4, <1>5, <1>6, <1>7

LEMMA ScannerSteps == [Next]_vars => [SP!Next]_(SP!vars)
<1> SUFFICES ASSUME [Next]_vars PROVE [SP!Next]_(SP!vars)
  OBVIOUS
<1>1. UNCHANGED scannerVars => UNCHANGED SP!vars
  BY DEF scannerVars, SP!vars
<1>2. ASSUME NEW x \in Scans, StartScan(x) \/ ScanStep(x) PROVE SP!Next
  <2>1. Publish(x) => SP!Publish(x)
    BY RunSteps DEF Publish, SP!Publish
  <2> QED
    BY <1>2, <2>1, RunSteps DEF StartScan, ScanStep, SP!ScanStep, SP!Next
<1>3. CASE ChannelReopens \/ Environment
  BY <1>3, WorldSteps, RunSteps DEF ChannelReopens, Environment, SP!Next
<1>4. CASE UNCHANGED vars
  BY <1>1, <1>4 DEF vars
<1>5. CASE NotifierStep \/ NotifierFault
  BY <1>1, <1>5 DEF NotifierStep, NotifierFault
<1>6. ASSUME NEW m \in Messages, NEW n \in Delivery!Counts, MessageStep(m, n) PROVE UNCHANGED SP!vars
  BY <1>1, <1>6 DEF MessageStep
<1> QED
  BY <1>2, <1>3, <1>4, <1>5, <1>6 DEF Next

LEMMA ScannerStarts == Scanner!Init => SP!Init
BY DEF Scanner!Init, SP!Init, Scanner!NoScan, SP!NoScan, Scanner!Tags, SP!Tags

LEMMA CoverageHolds == Spec => []SP!CoverageInv
<1>1. Init => SP!Init
  BY ScannerStarts DEF Init
<1>2. Spec => SP!Spec
  BY <1>1, ScannerSteps, PTL DEF Spec, SP!Spec
<1> QED
  BY <1>2, SP!ScannerCovers, WatchedAssumption, BoundsAssumption, PTL

-----------------------------------------------------------------------------
(* The pipeline's steps are the delivery's, or an arrival of messages.       *)

LEMMA SameState ==
  /\ Delivery!Counts = DP!Counts
  /\ UNCHANGED <<published, deliveryVars>> => UNCHANGED DP!vars
BY DEF Delivery!Counts, DP!Counts, deliveryVars, DP!vars

LEMMA MessageSteps ==
  ASSUME NEW m \in Messages, NEW n \in DP!Counts, Delivery!MessageStep(m, n)
  PROVE  DP!MessageStep(m, n)
<1> USE DEF Delivery!Leaves, DP!Leaves, Delivery!Places, DP!Places, Delivery!Counts, DP!Counts,
            Delivery!InOrder, DP!InOrder, Delivery!Counted, DP!Counted,
            Delivery!RetriesLeft, DP!RetriesLeft, Delivery!SendFails, DP!SendFails
<1>1. Delivery!RejectInvalid(m, n) => DP!RejectInvalid(m, n)
  BY DEF Delivery!RejectInvalid, DP!RejectInvalid
<1>2. Delivery!Deliver(m, n) => DP!Deliver(m, n)
  BY DEF Delivery!Deliver, DP!Deliver
<1>3. Delivery!MailAccepted(m, n) => DP!MailAccepted(m, n)
  BY DEF Delivery!MailAccepted, DP!MailAccepted
<1>4. Delivery!Ack(m, n) => DP!Ack(m, n)
  BY DEF Delivery!Ack, DP!Ack
<1>5. Delivery!Park(m, n) => DP!Park(m, n)
  BY DEF Delivery!Park, DP!Park, Delivery!CopyBeforeAck, DP!CopyBeforeAck
<1>6. Delivery!DeadLetter(m, n) => DP!DeadLetter(m, n)
  BY DEF Delivery!DeadLetter, DP!DeadLetter
<1>7. Delivery!RetryExpires(m, n) => DP!RetryExpires(m, n)
  BY DEF Delivery!RetryExpires, DP!RetryExpires
<1> QED
  BY <1>1, <1>2, <1>3, <1>4, <1>5, <1>6, <1>7 DEF Delivery!MessageStep, DP!MessageStep

LEMMA NotifierSteps ==
  /\ Delivery!Reconnect => DP!Reconnect
  /\ Delivery!Restart => DP!Restart
  /\ Delivery!ConnectionLost => DP!ConnectionLost
  /\ Delivery!NotifierCrash => DP!NotifierCrash
  /\ \A m \in Messages : Delivery!StaleHandlerEnds(m) => DP!StaleHandlerEnds(m)
  /\ \A M : Delivery!Arrive(M) => DP!Arrive(M)
<1> USE DEF Delivery!Places, DP!Places, Delivery!Counts, DP!Counts, Delivery!Running, DP!Running,
            Delivery!Requeue, DP!Requeue, Delivery!Requeued, DP!Requeued,
            Delivery!Unacked, DP!Unacked, Delivery!ProcessLost, DP!ProcessLost
<1>1. Delivery!Reconnect => DP!Reconnect
  BY DEF Delivery!Reconnect, DP!Reconnect
<1>2. Delivery!Restart => DP!Restart
  BY DEF Delivery!Restart, DP!Restart
<1>3. Delivery!ConnectionLost => DP!ConnectionLost
  BY DEF Delivery!ConnectionLost, DP!ConnectionLost
<1>4. Delivery!NotifierCrash => DP!NotifierCrash
  BY DEF Delivery!NotifierCrash, DP!NotifierCrash
<1>5. ASSUME NEW m \in Messages, Delivery!StaleHandlerEnds(m) PROVE DP!StaleHandlerEnds(m)
  BY <1>5 DEF Delivery!StaleHandlerEnds, DP!StaleHandlerEnds, Delivery!Counted, DP!Counted
<1>6. ASSUME NEW M, Delivery!Arrive(M) PROVE DP!Arrive(M)
  BY <1>6 DEF Delivery!Arrive, DP!Arrive
<1> QED
  BY <1>1, <1>2, <1>3, <1>4, <1>5, <1>6

LEMMA DeliverySteps ==
  ASSUME [Next]_vars
  PROVE  [DP!Next]_(DP!vars) \/ \E x \in Scans : Publish(x)
<1>1. UNCHANGED <<published, deliveryVars>> => UNCHANGED DP!vars
  BY SameState
<1>2. ASSUME NEW x \in Scans, StartScan(x) \/ ScanStep(x), ~ Publish(x)
      PROVE  UNCHANGED <<published, deliveryVars>>
  BY <1>2 DEF StartScan, ScanStep, Scanner!StartScan, Scanner!Fetch, Scanner!NothingNew,
              Scanner!PublishThrows, Scanner!UpdateLastSeenTag
<1>3. ChannelReopens \/ Environment => UNCHANGED <<published, deliveryVars>>
  BY DEF ChannelReopens, Environment, Scanner!ChannelReopens, Scanner!NewRelease,
         Scanner!ChannelCloses, Scanner!ApiCrash, Scanner!Confirm, Scanner!Leave,
         Scanner!StepFails
<1>4. ASSUME NEW m \in Messages, NEW n \in Delivery!Counts, MessageStep(m, n)
      PROVE  DP!Next
  BY <1>4, MessageSteps, SameState DEF MessageStep, DP!Next
<1>5. NotifierStep \/ NotifierFault => DP!Next
  BY NotifierSteps DEF NotifierStep, NotifierFault, DP!Next
<1>6. UNCHANGED vars => UNCHANGED <<published, deliveryVars>>
  BY DEF vars, scannerVars
<1> QED
  BY <1>1, <1>2, <1>3, <1>4, <1>5, <1>6 DEF Next

\* What the publish loop sends arrives as one batch.
LEMMA PublishArrives ==
  ASSUME NEW x \in Scans, Publish(x)
  PROVE  \E M : DP!Arrive(M) /\ \A m \in M : m[2] = scan[x].found
<1>1. PICK arrived : Delivery!Arrive(arrived \X {scan[x].found})
  BY DEF Publish
<1>2. PICK M : M = arrived \X {scan[x].found}
  OBVIOUS
<1>3. Delivery!Arrive(M)
  BY <1>1, <1>2 DEF Delivery!Arrive
<1>4. DP!Arrive(M)
  BY <1>3, NotifierSteps
<1> QED
  BY <1>2, <1>4

LEMMA DeliveryStarts == Init => DP!Init
<1>1. DP!Init <=> Delivery!Init
  BY DEF Delivery!Init, DP!Init, Delivery!Places, DP!Places, Delivery!Counts, DP!Counts
<1> QED
  BY <1>1 DEF Init

LEMMA QueueInvHolds == Spec => []DP!QueueInv
<1> USE BoundsAssumption
<1>1. {} \subseteq Messages /\ 2 \in 1..2
  OBVIOUS
<1>2. Init => DP!QueueInv
  BY <1>1, DeliveryStarts, DP!InitialState
<1>3. DP!QueueInv /\ [Next]_vars => DP!QueueInv'
  <2> SUFFICES ASSUME DP!QueueInv, [Next]_vars PROVE DP!QueueInv'
    OBVIOUS
  <2>1. [DP!Next]_(DP!vars) => DP!QueueInv'
    BY <1>1, DP!StepKeepsInv
  <2>2. ASSUME NEW M, DP!Arrive(M) PROVE DP!QueueInv'
    BY <1>1, <2>2, DP!ArriveKeepsInv
  <2>3. ASSUME NEW x \in Scans, Publish(x) PROVE DP!QueueInv'
    BY <2>2, <2>3, PublishArrives
  <2> QED
    BY <2>1, <2>3, DeliverySteps
<1> QED
  BY <1>2, <1>3, PTL DEF Spec

-----------------------------------------------------------------------------
(* One mail per release, as long as nothing goes wrong. *)

Undisturbed == ~ overlapped /\ scannerFaults = 0

LEMMA TurnsHold == Spec => []SP!InTurn
<1>1. Init => SP!Init
  BY ScannerStarts DEF Init
<1>2. Spec => SP!Spec
  BY <1>1, ScannerSteps, PTL DEF Spec, SP!Spec
<1> QED
  BY <1>2, SP!ScansTakeTurns, WatchedAssumption, BoundsAssumption, PTL

\* Neither an overlap nor a fault of the scanner is ever undone.
LEMMA DisturbedForGood ==
  ASSUME SP!TypeOK, [Next]_vars, Undisturbed'
  PROVE  Undisturbed
<1>1. scannerFaults \in Nat
  BY BoundsAssumption DEF SP!TypeOK
<1>2. [SP!Next]_(SP!vars)
  BY ScannerSteps
<1> DEFINE Later == /\ overlapped => overlapped'
                    /\ scannerFaults' = scannerFaults \/ scannerFaults' = scannerFaults + 1
<1>3. ASSUME SP!NewRelease \/ SP!ChannelCloses \/ SP!ChannelReopens \/ SP!ApiCrash
      PROVE  Later
  BY <1>3 DEF SP!NewRelease, SP!ChannelCloses, SP!ChannelReopens, SP!ApiCrash, SP!Fault
<1>4. ASSUME NEW s \in Subscriptions, SP!Confirm(s) \/ SP!Leave(s) PROVE Later
  BY <1>4 DEF SP!Confirm, SP!Leave
<1>5. ASSUME NEW x \in Scans, SP!StartScan(x) \/ SP!ScanStep(x) \/ SP!StepFails(x)
      PROVE  Later
  <2>1. CASE SP!Publish(x)
    <3>1. PICK arrived : SP!PublishTo(x, arrived)
      BY <2>1 DEF SP!Publish
    <3> QED
      BY <3>1 DEF SP!PublishTo, SP!Fault
  <2>2. CASE SP!StartScan(x)
    BY <2>2 DEF SP!StartScan
  <2>3. CASE SP!StepFails(x)
    BY <2>3 DEF SP!StepFails, SP!Fault
  <2>4. CASE SP!Fetch(x) \/ SP!NothingNew(x) \/ SP!PublishThrows(x) \/ SP!UpdateLastSeenTag(x)
    BY <2>4 DEF SP!Fetch, SP!NothingNew, SP!PublishThrows, SP!UpdateLastSeenTag
  <2> QED
    BY <1>5, <2>1, <2>2, <2>3, <2>4 DEF SP!ScanStep
<1>6. ASSUME UNCHANGED SP!vars PROVE Later
  BY <1>6 DEF SP!vars
<1>7. Later
  BY <1>2, <1>3, <1>4, <1>5, <1>6 DEF SP!Next
<1> QED
  BY <1>1, <1>7 DEF Undisturbed

\* While scans take turns each message arrives once, so the delivery's own
\* invariant holds of the queue that the scanner fills.
LEMMA PipelineDuplicatesNothing == Spec => [](Undisturbed => DP!NoDuplicates)
<1> USE BoundsAssumption
<1>1. {} \subseteq Messages /\ 2 \in 1..2
  OBVIOUS
<1>2. Init => DP!NoDuplicates
  BY <1>1, DeliveryStarts, DP!NothingDuplicated
<1>3. /\ SP!CoverageInv /\ SP!InTurn /\ DP!QueueInv
      /\ (Undisturbed => DP!NoDuplicates) /\ [Next]_vars
      => (Undisturbed => DP!NoDuplicates)'
  <2> SUFFICES ASSUME SP!CoverageInv, SP!InTurn, DP!QueueInv, Undisturbed => DP!NoDuplicates,
                      [Next]_vars, Undisturbed'
               PROVE  DP!NoDuplicates'
    OBVIOUS
  <2>1. Undisturbed /\ DP!NoDuplicates /\ DP!TypeOK
    BY DisturbedForGood DEF SP!CoverageInv, DP!QueueInv
  <2>2. [DP!Next]_(DP!vars) => DP!NoDuplicates'
    BY <1>1, <2>1, DP!StepAccounts
  <2>3. ASSUME NEW x \in Scans, Publish(x) PROVE DP!NoDuplicates'
    <3>1. PICK M : DP!Arrive(M) /\ \A m \in M : m[2] = scan[x].found
      BY <2>3, PublishArrives
    <3>2. \A m \in Messages : [o \in Messages |-> published[o[1]][o[2]]][m] < 2
      <4>1. \A s \in Subscriptions, t \in SP!Tags :
              published[s][t] \in 0..2 /\ published[s][t] <= 1
        BY <2>1 DEF SP!CoverageInv, SP!TypeOK, SP!InTurn, Undisturbed
      <4>2. \A m \in Messages : m[1] \in Subscriptions /\ m[2] \in SP!Tags
        BY DEF Messages, Releases, SP!Tags
      <4> QED
        BY <4>1, <4>2
    <3> QED
      BY <1>1, <2>1, <3>1, <3>2, DP!ArriveAccounts
  <2> QED
    BY <2>2, <2>3, DeliverySteps
<1> QED
  BY <1>2, <1>3, CoverageHolds, TurnsHold, QueueInvHolds, PTL DEF Spec

-----------------------------------------------------------------------------
(* The refinement. *)

\* What the invariants say of the pipeline's own variables, now and next.
PipelineInv == SP!CoverageInv /\ DP!QueueInv

Messaged(m) == Delivery!Held(m) \/ mails[m] > 0 \/ dead[m] > 0

Known ==
  /\ sub \in [Subscriptions -> {"pending", "confirmed", "gone"}]
  /\ released \in 0..MaxRelease
  /\ published \in [Subscriptions -> [0..MaxRelease -> 0..2]]
  /\ mails \in [Messages -> Nat] /\ dead \in [Messages -> Nat]
  /\ \A x \in Scans :
       /\ scan[x].found \in 0..released
       /\ scan[x].audience \subseteq Subscriptions
       /\ \A s \in scan[x].audience : sub[s] # "pending"
       /\ scan[x].at = "updating" =>
            /\ scan[x].found # 0
            /\ \A s \in Subscriptions :
                 Scanner!Owed(s, scan[x].found) => Scanner!Reached(s, scan[x].found)
  /\ \A s \in Subscriptions, t \in Releases :
       published[s][t] > 0 <=> Messaged(<<s, t>>)

LEMMA WhatIsKnown == PipelineInv => Known
<1> SUFFICES ASSUME PipelineInv PROVE Known
  OBVIOUS
<1> USE BoundsAssumption
<1>1. /\ SP!TypeOK /\ \A x \in Scans : SP!Covered(x)
      /\ DP!TypeOK /\ DP!NeverLost /\ DP!OnlyPublished
  BY DEF PipelineInv, SP!CoverageInv, DP!QueueInv
<1>2. /\ sub \in [Subscriptions -> {"pending", "confirmed", "gone"}]
      /\ released \in 0..MaxRelease
      /\ published \in [Subscriptions -> [0..MaxRelease -> 0..2]]
      /\ scan \in [Scans -> SP!Scan]
  BY <1>1 DEF SP!TypeOK, SP!Tags
<1>3. mails \in [Messages -> Nat] /\ dead \in [Messages -> Nat]
  BY <1>1 DEF DP!TypeOK
<1>4. ASSUME NEW x \in Scans
      PROVE  /\ scan[x].found \in 0..released
             /\ scan[x].audience \subseteq Subscriptions
             /\ \A s \in scan[x].audience : sub[s] # "pending"
             /\ scan[x].at = "updating" =>
                  /\ scan[x].found # 0
                  /\ \A s \in Subscriptions :
                       Scanner!Owed(s, scan[x].found) => Scanner!Reached(s, scan[x].found)
  <2>1. scan[x].found \in 0..MaxRelease /\ scan[x].audience \subseteq Subscriptions
    BY <1>2 DEF SP!Scan, SP!Tags
  <2>2. scan[x].found <= released /\ \A s \in scan[x].audience : sub[s] # "pending"
    BY <1>1 DEF SP!Covered
  <2>3. scan[x].at = "updating" =>
          /\ scan[x].found # 0
          /\ \A s \in Subscriptions :
               Scanner!Owed(s, scan[x].found) => Scanner!Reached(s, scan[x].found)
    BY <1>1 DEF SP!Covered, SP!Owed, SP!Reached, Scanner!Owed, Scanner!Reached
  <2> QED
    BY <1>2, <2>1, <2>2, <2>3
<1>5. ASSUME NEW s \in Subscriptions, NEW t \in Releases
      PROVE  published[s][t] > 0 <=> Messaged(<<s, t>>)
  <2>1. <<s, t>> \in Messages
    BY DEF Messages
  <2>2. [m \in Messages |-> published[m[1]][m[2]]][<<s, t>>] = published[s][t]
    BY <2>1
  <2>3. Delivery!Held(<<s, t>>) <=> DP!Held(<<s, t>>)
    BY DEF Delivery!Held, DP!Held, Delivery!Places, DP!Places, Delivery!Counts, DP!Counts
  <2> QED
    BY <1>1, <2>1, <2>2, <2>3 DEF DP!NeverLost, DP!OnlyPublished, Messaged
<1> QED
  BY <1>2, <1>3, <1>4, <1>5 DEF Known

LEMMA WhatIsKnownNext == PipelineInv' => Known'
BY WhatIsKnown, PTL

\* The fate of a message, once the invariants have told where its copies are.
PlainFate(s, t) ==
  IF mails[<<s, t>>] > 0 THEN "told"
  ELSE IF dead[<<s, t>>] > 0 THEN "quarantined"
  ELSE IF published[s][t] > 0 THEN "queued"
  ELSE IF <<s, t>> \in lost THEN "lost"
  ELSE "unsent"

PlainFates == [s \in Subscriptions |-> [t \in Releases |-> PlainFate(s, t)]]

FatesPlain == fates = PlainFates

LEMMA FatesArePlain == PipelineInv => FatesPlain
<1> SUFFICES ASSUME PipelineInv PROVE FatesPlain
  OBVIOUS
<1>1. ASSUME NEW s \in Subscriptions, NEW t \in Releases
      PROVE  Fate(s, t) = PlainFate(s, t)
  BY WhatIsKnown DEF Known, Messaged, Fate, PlainFate
<1> QED
  BY <1>1 DEF FatesPlain, fates, PlainFates

LEMMA FatesStayPlain == PipelineInv' => FatesPlain'
BY FatesArePlain, PTL

\* A step of the notifier concerns one message, and only adds to its outcomes.
LEMMA OneMessageMoves ==
  ASSUME PipelineInv,
         \/ \E m \in Messages, n \in Delivery!Counts : MessageStep(m, n)
         \/ NotifierStep \/ NotifierFault
  PROVE  /\ UNCHANGED scannerVars
         /\ \/ UNCHANGED <<mails, dead>>
            \/ \E m \in Messages :
                 \/ /\ mails' = Delivery!Counted(mails, m, 2)
                    /\ dead' = dead \/ dead' = [dead EXCEPT ![m] = @ + 1]
                 \/ mails' = mails /\ dead' = [dead EXCEPT ![m] = @ + 1]
<1>1. ASSUME NEW m \in Messages, NEW n \in Delivery!Counts, MessageStep(m, n)
      PROVE  /\ UNCHANGED scannerVars
             /\ \/ UNCHANGED <<mails, dead>>
                \/ /\ mails' = Delivery!Counted(mails, m, 2)
                   /\ dead' = dead \/ dead' = [dead EXCEPT ![m] = @ + 1]
                \/ mails' = mails /\ dead' = [dead EXCEPT ![m] = @ + 1]
  BY <1>1 DEF MessageStep, Delivery!MessageStep, Delivery!RejectInvalid, Delivery!Deliver,
              Delivery!MailAccepted, Delivery!Ack, Delivery!Park, Delivery!DeadLetter,
              Delivery!SendFails, Delivery!RetryExpires
<1>2. ASSUME NEW m \in Messages, Delivery!StaleHandlerEnds(m)
      PROVE  dead' = dead /\ (mails' = mails \/ mails' = Delivery!Counted(mails, m, 2))
  BY <1>2 DEF Delivery!StaleHandlerEnds
<1>3. ASSUME NotifierStep \/ NotifierFault
      PROVE  /\ UNCHANGED scannerVars
             /\ \/ UNCHANGED <<mails, dead>>
                \/ \E m \in Messages : dead' = dead /\ mails' = Delivery!Counted(mails, m, 2)
  BY <1>2, <1>3 DEF NotifierStep, NotifierFault, Delivery!Reconnect, Delivery!Restart,
                    Delivery!ConnectionLost, Delivery!NotifierCrash
<1> QED
  BY <1>1, <1>3

\* Which the contract sees as Tell, Quarantine, or nothing.
LEMMA NotifierImplements ==
  ASSUME PipelineInv, PipelineInv',
         \/ \E m \in Messages, n \in Delivery!Counts : MessageStep(m, n)
         \/ NotifierStep \/ NotifierFault
  PROVE  [Contract!Next]_(Contract!contract)
<1>1. /\ UNCHANGED <<released, lastSeen, sub, published, lost, due>>
      /\ \/ UNCHANGED <<mails, dead>>
         \/ \E m \in Messages :
              \/ /\ mails' = Delivery!Counted(mails, m, 2)
                 /\ dead' = dead \/ dead' = [dead EXCEPT ![m] = @ + 1]
              \/ mails' = mails /\ dead' = [dead EXCEPT ![m] = @ + 1]
  BY OneMessageMoves DEF scannerVars
<1>2. fates = PlainFates /\ fates' = PlainFates'
  BY FatesArePlain, FatesStayPlain DEF FatesPlain
<1>3. CASE UNCHANGED <<mails, dead>>
  BY <1>1, <1>2, <1>3 DEF PlainFates, PlainFate, Contract!contract
<1>4. ASSUME NEW m \in Messages,
             \/ /\ mails' = Delivery!Counted(mails, m, 2)
                /\ dead' = dead \/ dead' = [dead EXCEPT ![m] = @ + 1]
             \/ mails' = mails /\ dead' = [dead EXCEPT ![m] = @ + 1]
      PROVE  [Contract!Next]_(Contract!contract)
  <2>1. PICK s \in Subscriptions, t \in Releases : m = <<s, t>>
    BY DEF Messages
  <2>2. /\ mails \in [Messages -> Nat] /\ dead \in [Messages -> Nat]
        /\ mails[m] > 0 \/ dead[m] > 0 => published[s][t] > 0
        /\ mails'[m] > 0 \/ dead'[m] > 0 => published[s][t] > 0
    <3>1. published' = published
      BY <1>1
    <3> QED
      BY WhatIsKnown, WhatIsKnownNext, <2>1, <3>1 DEF Known, Messaged
  <2>3. ASSUME NEW r \in Subscriptions, NEW u \in Releases, <<r, u>> # m
        PROVE  PlainFate(r, u)' = PlainFate(r, u)
    <3>1. <<r, u>> \in Messages
      BY DEF Messages
    <3>2. mails'[<<r, u>>] = mails[<<r, u>>] /\ dead'[<<r, u>>] = dead[<<r, u>>]
      BY <1>4, <2>2, <2>3, <3>1 DEF Delivery!Counted
    <3> QED
      BY <1>1, <3>2 DEF PlainFate
  <2>4. PlainFates' = [PlainFates EXCEPT ![s][t] = PlainFate(s, t)']
    <3>1. ASSUME NEW r \in Subscriptions, NEW u \in Releases
          PROVE  PlainFate(r, u)' = [PlainFates EXCEPT ![s][t] = PlainFate(s, t)'][r][u]
      <4>1. <<r, u>> # m => r # s \/ u # t
        BY <2>1
      <4> QED
        BY <2>1, <2>3, <4>1 DEF PlainFates
    <3> QED
      BY <3>1 DEF PlainFates
  <2>5. PlainFates[s][t] = PlainFate(s, t) /\ m \in Messages
    BY <2>1 DEF PlainFates, Messages
  <2>6. \/ PlainFate(s, t)' = PlainFate(s, t)
        \/ PlainFate(s, t) \in {"queued", "quarantined"} /\ PlainFate(s, t)' = "told"
        \/ PlainFate(s, t) = "queued" /\ PlainFate(s, t)' = "quarantined"
    <3>1. CASE mails' = Delivery!Counted(mails, m, 2)
      <4>1. mails[m] = 0 \/ mails[m] > 0
        BY <2>2, <2>5
      <4>2. mails'[m] > 0
        BY <2>2, <2>5, <3>1, <4>1 DEF Delivery!Counted
      <4>3. PlainFate(s, t)' = "told"
        BY <2>1, <4>2 DEF PlainFate
      <4>4. PlainFate(s, t) \in {"told", "quarantined", "queued"}
        BY <2>1, <2>2, <4>2 DEF PlainFate
      <4> QED
        BY <4>3, <4>4
    <3>2. CASE mails' = mails /\ dead' = [dead EXCEPT ![m] = @ + 1]
      <4>1. dead'[m] > 0
        BY <2>2, <2>5, <3>2
      <4>2. PlainFate(s, t)' = IF mails[m] > 0 THEN "told" ELSE "quarantined"
        BY <2>1, <3>2, <4>1 DEF PlainFate
      <4>3. PlainFate(s, t) = IF mails[m] > 0 THEN "told"
                              ELSE IF dead[m] > 0 THEN "quarantined" ELSE "queued"
        BY <2>1, <2>2, <4>1 DEF PlainFate
      <4> QED
        BY <4>2, <4>3
    <3> QED
      BY <1>4, <3>1, <3>2
  <2>7. CASE PlainFate(s, t)' = PlainFate(s, t)
    <3>1. PlainFates' = PlainFates
      <4>1. ASSUME NEW r \in Subscriptions, NEW u \in Releases
            PROVE  PlainFate(r, u)' = PlainFate(r, u)
        <5>1. <<r, u>> # m \/ (r = s /\ u = t)
          BY <2>1
        <5> QED
          BY <2>3, <2>7, <5>1
      <4> QED
        BY <4>1 DEF PlainFates
    <3> QED
      BY <1>1, <1>2, <3>1 DEF Contract!contract
  <2>8. CASE PlainFate(s, t) \in {"queued", "quarantined"} /\ PlainFate(s, t)' = "told"
    <3>1. Contract!Tell(s, t)
      BY <1>1, <1>2, <2>4, <2>5, <2>8 DEF Contract!Tell
    <3> QED
      BY <3>1 DEF Contract!Next, Releases, Contract!Releases
  <2>9. CASE PlainFate(s, t) = "queued" /\ PlainFate(s, t)' = "quarantined"
    <3>1. Contract!Quarantine(s, t)
      BY <1>1, <1>2, <2>4, <2>5, <2>9 DEF Contract!Quarantine
    <3> QED
      BY <3>1 DEF Contract!Next, Releases, Contract!Releases
  <2> QED
    BY <2>6, <2>7, <2>8, <2>9
<1> QED
  BY <1>1, <1>3, <1>4

\* The scanner's steps, but for Publish, move no message.
LEMMA FatesKept ==
  ASSUME PipelineInv, PipelineInv', UNCHANGED <<published, lost, mails, dead>>
  PROVE  fates' = fates
<1>1. fates = PlainFates /\ fates' = PlainFates'
  BY FatesArePlain, FatesStayPlain DEF FatesPlain
<1> QED
  BY <1>1 DEF PlainFates, PlainFate

LEMMA WorldImplements ==
  ASSUME PipelineInv, PipelineInv', ChannelReopens \/ Environment
  PROVE  [Contract!Next]_(Contract!contract)
<1>1. UNCHANGED <<published, lost, mails, dead, lastSeen>>
  BY DEF ChannelReopens, Environment, Scanner!ChannelReopens, Scanner!NewRelease,
         Scanner!ChannelCloses, Scanner!ApiCrash, Scanner!Confirm, Scanner!Leave,
         Scanner!StepFails, deliveryVars
<1>2. fates' = fates
  BY <1>1, FatesKept
<1>3. CASE Scanner!NewRelease
  <2>1. PICK audience \in SUBSET Scanner!Confirmed :
          due' = due \cup {<<s, released + 1>> : s \in audience}
    BY <1>3 DEF Scanner!NewRelease
  <2>2. {<<s, released + 1>> : s \in audience} = audience \X {released + 1}
    OBVIOUS
  <2>3. audience \in SUBSET Subscriptions /\ Contract!Release(audience)
    BY <1>1, <1>2, <1>3, <2>1, <2>2 DEF Scanner!NewRelease, Scanner!Confirmed, Contract!Release
  <2> QED
    BY <2>3 DEF Contract!Next
<1>4. ASSUME NEW s \in Subscriptions, Scanner!Confirm(s) \/ Scanner!Leave(s)
      PROVE  Contract!Next
  BY <1>1, <1>2, <1>4 DEF Scanner!Confirm, Scanner!Leave, Contract!Confirm, Contract!Leave,
                          Contract!Next
<1>5. CASE \/ Scanner!ChannelReopens \/ Scanner!ChannelCloses \/ Scanner!ApiCrash
           \/ \E x \in Scans : Scanner!StepFails(x)
  BY <1>1, <1>2, <1>5 DEF Scanner!ChannelReopens, Scanner!ChannelCloses, Scanner!ApiCrash,
                          Scanner!StepFails, Contract!contract
<1> QED
  BY <1>3, <1>4, <1>5 DEF ChannelReopens, Environment

\* A tag that is recorded is one the invariant covers.
LEMMA RecordImplements ==
  ASSUME PipelineInv, PipelineInv', NEW x \in Scans,
         Scanner!UpdateLastSeenTag(x), UNCHANGED deliveryVars
  PROVE  Contract!Next
<1> DEFINE t == scan[x].found
<1>1. /\ UNCHANGED <<released, sub, due, published, lost, mails, dead>>
      /\ lastSeen' = t
  BY DEF Scanner!UpdateLastSeenTag, Scanner!Recorded, deliveryVars
<1>2. fates' = fates /\ fates = PlainFates
  BY <1>1, FatesKept, FatesArePlain DEF FatesPlain
<1>3. /\ t \in Releases
      /\ t <= released
      /\ \A s \in Subscriptions : Scanner!Owed(s, t) => Scanner!Reached(s, t)
  <2>1. scan[x].at = "updating"
    BY DEF Scanner!UpdateLastSeenTag
  <2> QED
    BY <2>1, WhatIsKnown, BoundsAssumption DEF Known, Releases
<1>4. ASSUME NEW s \in Subscriptions, <<s, t>> \in due, sub[s] = "confirmed"
      PROVE  fates[s][t] # "unsent"
  <2>1. fates[s][t] = PlainFate(s, t)
    BY <1>2, <1>3 DEF PlainFates
  <2>2. published[s][t] > 0 \/ <<s, t>> \in lost
    BY <1>3, <1>4 DEF Scanner!Owed, Scanner!Reached
  <2> QED
    BY <2>1, <2>2 DEF PlainFate
<1>5. Contract!Record(t)
  BY <1>1, <1>2, <1>3, <1>4 DEF Contract!Record
<1> QED
  BY <1>3, <1>5 DEF Contract!Next, Releases, Contract!Releases

\* Publishing announces the release that was found to everyone in the snapshot.
LEMMA PublishImplements ==
  ASSUME PipelineInv, PipelineInv', NEW x \in Scans, Publish(x)
  PROVE  Contract!Next
<1> DEFINE t == scan[x].found
           audience == scan[x].audience
<1>1. PICK arrived \in SUBSET audience :
        Scanner!PublishTo(x, arrived) /\ Delivery!Arrive(arrived \X {t})
  BY DEF Publish
<1>2. /\ UNCHANGED <<released, lastSeen, sub, due, mails, dead>>
      /\ lost' = lost \cup ((audience \ arrived) \X {t})
      /\ Scanner!Send(x, arrived)
      /\ t # 0
  BY <1>1 DEF Scanner!PublishTo, Scanner!IsNew, Delivery!Arrive
<1>3. /\ t \in Releases /\ t <= released /\ released \in Nat
      /\ audience \subseteq Subscriptions
      /\ \A s \in audience : sub[s] # "pending"
      /\ published \in [Subscriptions -> [0..MaxRelease -> 0..2]]
  BY <1>2, WhatIsKnown, BoundsAssumption DEF Known, Releases
<1>4. fates = PlainFates /\ fates' = PlainFates'
  BY FatesArePlain, FatesStayPlain DEF FatesPlain
<1>5. ASSUME NEW s \in Subscriptions, NEW u \in Releases
      PROVE  PlainFate(s, u)' =
               IF u # t THEN PlainFate(s, u)
               ELSE IF s \in arrived /\ PlainFate(s, u) \in {"unsent", "lost"} THEN "queued"
               ELSE IF s \in audience \ arrived /\ PlainFate(s, u) = "unsent" THEN "lost"
               ELSE PlainFate(s, u)
  <2>1. /\ published[s][u] \in 0..2 /\ u \in 0..MaxRelease
        /\ published'[s][u] = IF s \in arrived /\ u = t /\ published[s][u] < 2
                              THEN published[s][u] + 1 ELSE published[s][u]
    BY <1>2, <1>3, BoundsAssumption DEF Scanner!Send, Scanner!Tags, Releases
  <2>2. published'[s][u] > 0 <=> published[s][u] > 0 \/ (s \in arrived /\ u = t)
    BY <2>1
  <2>3. <<s, u>> \in lost' <=> <<s, u>> \in lost \/ (s \in audience \ arrived /\ u = t)
    BY <1>2
  <2>4. mails' = mails /\ dead' = dead
    BY <1>2
  <2> QED
    BY <2>2, <2>3, <2>4 DEF PlainFate
<1>6. PlainFates' = [s \in Subscriptions |-> [PlainFates[s] EXCEPT ![t] =
        IF s \in arrived /\ @ \in {"unsent", "lost"} THEN "queued"
        ELSE IF s \in audience \ arrived /\ @ = "unsent" THEN "lost"
        ELSE @]]
  BY <1>3, <1>5 DEF PlainFates
<1>7. Contract!Announce(t, arrived, audience \ arrived)
  BY <1>1, <1>2, <1>3, <1>4, <1>6 DEF Contract!Announce
<1>8. arrived \in SUBSET Subscriptions /\ audience \ arrived \in SUBSET Subscriptions
  BY <1>1, <1>3
<1> QED
  BY <1>3, <1>7, <1>8 DEF Contract!Next, Releases, Contract!Releases

LEMMA StepImplements ==
  ASSUME PipelineInv, PipelineInv', [Next]_vars
  PROVE  [Contract!Next]_(Contract!contract)
<1>1. ASSUME NEW x \in Scans, StartScan(x) \/ ScanStep(x)
      PROVE  [Contract!Next]_(Contract!contract)
  <2>1. CASE Publish(x)
    BY <2>1, PublishImplements
  <2>2. CASE Scanner!UpdateLastSeenTag(x) /\ UNCHANGED deliveryVars
    BY <2>2, RecordImplements
  <2>3. CASE /\ \/ Scanner!StartScan(x) \/ Scanner!Fetch(x)
                \/ Scanner!NothingNew(x) \/ Scanner!PublishThrows(x)
             /\ UNCHANGED deliveryVars
    <3>1. UNCHANGED <<released, lastSeen, sub, due, published, lost, mails, dead>>
      BY <2>3 DEF Scanner!StartScan, Scanner!Fetch, Scanner!NothingNew,
                  Scanner!PublishThrows, deliveryVars
    <3> QED
      BY <3>1, FatesKept DEF Contract!contract
  <2> QED
    BY <1>1, <2>1, <2>2, <2>3 DEF StartScan, ScanStep
<1>2. CASE UNCHANGED vars
  <2>1. UNCHANGED <<released, lastSeen, sub, due, published, lost, mails, dead>>
    BY <1>2 DEF vars, scannerVars, deliveryVars
  <2> QED
    BY <2>1, FatesKept DEF Contract!contract
<1> QED
  BY <1>1, <1>2, WorldImplements, NotifierImplements DEF Next

LEMMA InitImplements == Init /\ PipelineInv => Contract!Init
<1> SUFFICES ASSUME Init, PipelineInv PROVE Contract!Init
  OBVIOUS
<1>1. /\ released = 0 /\ lastSeen = 0 /\ lost = {} /\ due = {}
      /\ sub = [s \in Subscriptions |-> "pending"]
      /\ mails = [m \in Messages |-> 0] /\ dead = [m \in Messages |-> 0]
      /\ published = [s \in Subscriptions |-> [t \in 0..MaxRelease |-> 0]]
  BY DEF Init, Scanner!Init, Delivery!Init, Scanner!Tags
<1>2. ASSUME NEW s \in Subscriptions, NEW t \in Releases PROVE PlainFate(s, t) = "unsent"
  <2>1. <<s, t>> \in Messages /\ t \in 0..MaxRelease
    BY BoundsAssumption DEF Messages, Releases
  <2>2. mails[<<s, t>>] = 0 /\ dead[<<s, t>>] = 0 /\ published[s][t] = 0
    BY <1>1, <2>1
  <2> QED
    BY <1>1, <2>2 DEF PlainFate
<1>3. fates = [s \in Subscriptions |-> [t \in Releases |-> "unsent"]]
  BY <1>2, FatesArePlain DEF FatesPlain, PlainFates
<1> QED
  BY <1>1, <1>3 DEF Contract!Init, Releases, Contract!Releases

\* Nothing that was queued vanishes between the two processes, nobody is told
\* of what was not announced to him, and last_seen_tag is written only over
\* announcements to everyone a release is owed to (F6, N1), for any number of
\* subscribers, releases, overlapping scans, retries and faults.
THEOREM PipelineImplementsContract == Spec => ImplementsReleaseContract
<1>1. Spec => []PipelineInv
  BY CoverageHolds, QueueInvHolds, PTL DEF PipelineInv
<1>2. Init /\ PipelineInv => Contract!Init
  BY InitImplements
<1>3. PipelineInv /\ PipelineInv' /\ [Next]_vars => [Contract!Next]_(Contract!contract)
  BY StepImplements
<1> QED
  BY <1>1, <1>2, <1>3, PTL DEF Spec, ImplementsReleaseContract, Contract!Spec

-----------------------------------------------------------------------------
(* What the contract's invariants say of the program. *)

LEMMA ContractIsKept ==
  ASSUME Contract!ContractInv, [Contract!Next]_(Contract!contract)
  PROVE  Contract!ContractInv'
<1> USE BoundsAssumption
<1> USE DEF Contract!ContractInv, Contract!ContractTypeOK, Contract!OnlyConfirmedHear,
            Contract!OwedToConfirmed, Contract!NobodyLeftOut, Contract!Releases, Contract!Fates
<1>1. ASSUME NEW s \in Subscriptions, Contract!Confirm(s) \/ Contract!Leave(s)
      PROVE  Contract!ContractInv'
  BY <1>1 DEF Contract!Confirm, Contract!Leave
<1>2. ASSUME NEW audience \in SUBSET Subscriptions, Contract!Release(audience)
      PROVE  Contract!ContractInv'
  BY <1>2 DEF Contract!Release
<1>3. ASSUME NEW t \in Contract!Releases, NEW Q \in SUBSET Subscriptions,
             NEW L \in SUBSET Subscriptions, Contract!Announce(t, Q, L)
      PROVE  Contract!ContractInv'
  <2>1. /\ fates' \in [Subscriptions -> [Contract!Releases -> Contract!Fates]]
        /\ \A s \in Subscriptions, u \in Contract!Releases :
             /\ fates[s][u] # "unsent" => fates'[s][u] # "unsent"
             /\ fates'[s][u] # "unsent" => fates[s][u] # "unsent" \/ (u = t /\ s \in Q \cup L)
    BY <1>3 DEF Contract!Announce
  <2> QED
    BY <1>3, <2>1 DEF Contract!Announce
<1>4. ASSUME NEW s \in Subscriptions, NEW t \in Contract!Releases,
             Contract!Tell(s, t) \/ Contract!Quarantine(s, t)
      PROVE  Contract!ContractInv'
  <2>1. /\ fates[s][t] # "unsent" /\ UNCHANGED <<sub, released, due, lastSeen>>
        /\ \E v \in {"told", "quarantined"} : fates' = [fates EXCEPT ![s][t] = v]
    BY <1>4 DEF Contract!Tell, Contract!Quarantine
  <2>2. PICK v \in {"told", "quarantined"} : fates' = [fates EXCEPT ![s][t] = v]
    BY <2>1
  <2>3. \A r \in Subscriptions, u \in Contract!Releases :
          fates'[r][u] = IF r = s /\ u = t THEN v ELSE fates[r][u]
    BY <2>2
  <2>4. fates' \in [Subscriptions -> [Contract!Releases -> Contract!Fates]]
    BY <2>2
  <2> QED
    BY <2>1, <2>3, <2>4
<1>5. ASSUME NEW t \in Contract!Releases, Contract!Record(t)
      PROVE  Contract!ContractInv'
  BY <1>5 DEF Contract!Record
<1>6. CASE UNCHANGED Contract!contract
  BY <1>6 DEF Contract!contract
<1> QED
  BY <1>1, <1>2, <1>3, <1>4, <1>5, <1>6 DEF Contract!Next

\* Every step being one of the contract's, what the contract keeps true is true
\* of scanner, queue and notifier.
LEMMA ContractHolds == Spec => []Contract!ContractInv
<1>1. Contract!Init => Contract!ContractInv
  BY BoundsAssumption DEF Contract!Init, Contract!ContractInv, Contract!ContractTypeOK,
     Contract!OnlyConfirmedHear, Contract!OwedToConfirmed, Contract!NobodyLeftOut,
     Contract!Releases, Contract!Fates
<1> QED
  BY <1>1, ContractIsKept, PipelineImplementsContract, PTL
     DEF ImplementsReleaseContract, Contract!Spec

\* No address that was never confirmed gets a mail, or waits for one, however the
\* snapshots of overlapping scans, redeliveries and faults meet.
THEOREM OnlyConfirmedHearIt == Spec => []OnlyConfirmedHear
BY ContractHolds, PTL DEF Contract!ContractInv, OnlyConfirmedHear

\* Of the release in last_seen_tag everyone it is owed to has been mailed, or has
\* a message that is queued, quarantined or was lost on the way to the broker.
THEOREM NobodyIsLeftOut == Spec => []NobodyLeftOut
BY ContractHolds, PTL DEF Contract!ContractInv, NobodyLeftOut

LEMMA NothingIsTakenBack ==
  ASSUME Contract!ContractInv, [Contract!Next]_(Contract!contract)
  PROVE  Contract!NothingTakenBack
<1> USE DEF Contract!ContractInv, Contract!ContractTypeOK, Contract!NothingTakenBack,
            Contract!Fates
<1>1. ASSUME NEW s \in Subscriptions, Contract!Confirm(s) \/ Contract!Leave(s)
      PROVE  Contract!NothingTakenBack
  BY <1>1 DEF Contract!Confirm, Contract!Leave
<1>2. ASSUME NEW t \in Contract!Releases, NEW Q \in SUBSET Subscriptions,
             NEW L \in SUBSET Subscriptions, Contract!Announce(t, Q, L)
      PROVE  Contract!NothingTakenBack
  BY <1>2 DEF Contract!Announce
<1>3. ASSUME NEW s \in Subscriptions, NEW t \in Contract!Releases,
             Contract!Tell(s, t) \/ Contract!Quarantine(s, t)
      PROVE  Contract!NothingTakenBack
  BY <1>3 DEF Contract!Tell, Contract!Quarantine
<1>4. ASSUME UNCHANGED <<fates, sub>>
      PROVE  Contract!NothingTakenBack
  BY <1>4
<1> QED
  BY <1>1, <1>2, <1>3, <1>4
     DEF Contract!Next, Contract!Release, Contract!Record, Contract!contract

\* No step of the scanner or the notifier takes a release back: what was queued for
\* a subscriber is not forgotten, a mail is the last word, and a dead letter is
\* followed by nothing but the mail of another copy.
THEOREM FatesOnlyMoveForward == Spec => [][Contract!NothingTakenBack]_vars
<1>1. [Contract!NothingTakenBack]_(Contract!contract) => [Contract!NothingTakenBack]_vars
  <2> SUFFICES ASSUME UNCHANGED Contract!contract PROVE Contract!NothingTakenBack
    OBVIOUS
  <2> QED
    BY DEF Contract!contract, Contract!NothingTakenBack
<1> QED
  BY <1>1, NothingIsTakenBack, ContractHolds, PipelineImplementsContract, PTL
     DEF ImplementsReleaseContract, Contract!Spec

\* Scanner and notifier together: unless scans overlap or a process fails, a
\* subscriber hears of a release once, by a mail or by a dead letter.
THEOREM HeardOnce == Spec => []HeardOnceUndisturbed
<1>1. SP!CoverageInv /\ SP!InTurn /\ DP!QueueInv /\ (Undisturbed => DP!NoDuplicates)
        => HeardOnceUndisturbed
  <2> SUFFICES ASSUME SP!CoverageInv, SP!InTurn, DP!TypeOK, DP!NoDuplicates, Undisturbed,
                      notifierFaults = 0, NEW m \in Messages
               PROVE  mails[m] + dead[m] <= 1
    BY DEF HeardOnceUndisturbed, Undisturbed, DP!QueueInv
  <2>1. PICK s \in Subscriptions, t \in Releases : m = <<s, t>>
    BY DEF Messages
  <2>2. t \in SP!Tags
    BY DEF Releases, SP!Tags
  <2>3. published[s][t] \in 0..1
    BY <2>2 DEF SP!CoverageInv, SP!TypeOK, SP!InTurn, Undisturbed
  <2>4. PICK p, q : DP!Accounted(m, p, q)
    BY <2>1 DEF DP!NoDuplicates, DP!Followed
  <2>5. mails[m] + dead[m] + DP!One(p # DP!Ended) + DP!One(q # DP!Ended) <= published[s][t]
    BY <2>1, <2>4 DEF DP!Accounted
  <2>6. mails[m] \in Nat /\ dead[m] \in Nat
    BY DEF DP!TypeOK
  <2> QED
    BY <2>1, <2>3, <2>5, <2>6 DEF DP!One
<1> QED
  BY <1>1, CoverageHolds, TurnsHold, QueueInvHolds, PipelineDuplicatesNothing, PTL
=============================================================================
