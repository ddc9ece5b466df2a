--------------------------- MODULE ReleasePipeline ---------------------------
(***************************************************************************)
(* From a release on GitHub to a subscriber's mailbox: the scanner in the  *)
(* API's process and the delivery in the notifier's, which share nothing   *)
(* but the queue release.notifications. A message is a subscriber and a    *)
(* tag. Each process has faults of its own.                                *)
(***************************************************************************)
EXTENDS Naturals

CONSTANTS
  Subscriptions, Watched, Scans, MaxRelease,
  MaxScannerFaults,   \* bound: faults of the API's process
  MaxRetries,
  MaxNotifierFaults   \* bound: faults of the notifier

ASSUME WatchedAssumption == Watched \in BOOLEAN
ASSUME BoundsAssumption ==
  /\ MaxRelease \in Nat /\ MaxRetries \in Nat
  /\ MaxScannerFaults \in Nat /\ MaxNotifierFaults \in Nat

VARIABLES
  released, lastSeen, sub, scan, channelOpen, published, lost, due,
  overlapped, scannerFaults,
  notifier, copies, stale, mails, failures, dead, notifierFaults

scannerVars == <<released, lastSeen, sub, scan, channelOpen, published, lost,
                 due, overlapped, scannerFaults>>
deliveryVars == <<notifier, copies, stale, mails, failures, dead, notifierFaults>>
vars == <<scannerVars, deliveryVars>>

Releases == 1..MaxRelease
Messages == Subscriptions \X Releases

Scanner == INSTANCE ReleaseScanner WITH
  MaxFaults <- MaxScannerFaults, faults <- scannerFaults

\* Every payload the scanner writes is one that the consumer's schema accepts.
Delivery == INSTANCE NotificationDelivery WITH
  Notifications <- Messages, Invalid <- {}, MaxPublished <- 2,
  MaxFaults <- MaxNotifierFaults, faults <- notifierFaults,
  published <- [m \in Messages |-> published[m[1]][m[2]]]

Init == Scanner!Init /\ Delivery!Init

-----------------------------------------------------------------------------
\* The loop of scanRepository fills the queue the notifier consumes.
Publish(x) ==
  \E arrived \in SUBSET scan[x].audience :
    /\ Scanner!PublishTo(x, arrived)
    /\ Delivery!Arrive(arrived \X {scan[x].found})

ScanStep(x) ==
  \/ Publish(x)
  \/ /\ \/ Scanner!Fetch(x) \/ Scanner!NothingNew(x)
        \/ Scanner!PublishThrows(x) \/ Scanner!UpdateLastSeenTag(x)
     /\ UNCHANGED deliveryVars

StartScan(x) == Scanner!StartScan(x) /\ UNCHANGED deliveryVars

ChannelReopens == Scanner!ChannelReopens /\ UNCHANGED deliveryVars

\* What nobody has to do.
Environment ==
  /\ \/ Scanner!NewRelease \/ Scanner!ChannelCloses \/ Scanner!ApiCrash
     \/ \E s \in Subscriptions : Scanner!Confirm(s) \/ Scanner!Leave(s)
     \/ \E x \in Scans : Scanner!StepFails(x)
  /\ UNCHANGED deliveryVars

MessageStep(m, n) == UNCHANGED scannerVars /\ Delivery!MessageStep(m, n)

NotifierStep ==
  /\ UNCHANGED scannerVars
  /\ \/ Delivery!Reconnect \/ Delivery!Restart
     \/ \E m \in Messages : Delivery!StaleHandlerEnds(m)

NotifierFault == UNCHANGED scannerVars /\ (Delivery!ConnectionLost \/ Delivery!NotifierCrash)

Next ==
  \/ \E x \in Scans : StartScan(x) \/ ScanStep(x)
  \/ ChannelReopens \/ Environment
  \/ \E m \in Messages, n \in Delivery!Counts : MessageStep(m, n)
  \/ NotifierStep \/ NotifierFault

Spec == Init /\ [][Next]_vars

\* The fairness of both processes.
FairSpec ==
  /\ Spec
  /\ WF_vars(ChannelReopens)
  /\ \A x \in Scans : WF_vars(StartScan(x)) /\ WF_vars(ScanStep(x))
  /\ \A m \in Messages, n \in Delivery!Counts : WF_vars(MessageStep(m, n))
  /\ WF_vars(NotifierStep)

-----------------------------------------------------------------------------
\* What became of a release for a subscriber, read off both processes.
Fate(s, t) ==
  LET m == <<s, t>>
  IN  IF mails[m] > 0 THEN "told"
      ELSE IF dead[m] > 0 THEN "quarantined"
      ELSE IF Delivery!Held(m) THEN "queued"
      ELSE IF m \in lost THEN "lost"
      ELSE "unsent"

fates == [s \in Subscriptions |-> [t \in Releases |-> Fate(s, t)]]

Contract == INSTANCE ReleaseContract WITH
  life <- sub, latest <- released, owed <- due, recorded <- lastSeen,
  fate <- fates

\* Scanner, queue and notifier together keep the promises of ReleaseContract:
\* nothing that was queued vanishes, nobody is told of what was not announced
\* to him, and last_seen_tag is written only over announcements to everyone a
\* release is owed to, however the faults of the two processes meet.
ImplementsReleaseContract == Contract!Spec

\* What follows from the contract, said of the program (this one is proved only;
\* the run of the refinement checks the guard behind it). An address that was
\* never confirmed gets no mail, and waits on no queue for one: neither the
\* snapshot of an overtaken scan nor a redelivery brings one about.
OnlyConfirmedHear == Contract!OnlyConfirmedHear

\* Of the release in last_seen_tag everyone it is owed to has been mailed, or
\* still has his message at the broker, quarantined or lost on the way there.
NobodyLeftOut == Contract!NobodyLeftOut

\* What each process promises without faults adds up: a subscriber hears of a
\* release once, by one mail or one dead letter, unless scans overlap, a call
\* fails between publish and updateLastSeenTag, or the notifier loses a
\* connection before the broker has its ack or it has the provider's answer.
HeardOnceUndisturbed ==
  ~ overlapped /\ scannerFaults = 0 /\ notifierFaults = 0 =>
    \A m \in Messages : mails[m] + dead[m] <= 1

\* A release that is due to a subscriber ends: he is told, the message is
\* quarantined or was lost on its way to the broker, he left, or a newer
\* release took its place.
Settled(s, t) ==
  \/ Fate(s, t) \in {"told", "quarantined", "lost"}
  \/ sub[s] = "gone"
  \/ released # t

OwedIsSettled ==
  \A s \in Subscriptions, t \in Releases : (<<s, t>> \in due) ~> Settled(s, t)
=============================================================================
