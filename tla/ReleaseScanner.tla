--------------------------- MODULE ReleaseScanner ---------------------------
(***************************************************************************)
(* ScannerService over one tracked repository (repositories share nothing  *)
(* but the snapshot query). Every cron tick starts a scan, whether or not  *)
(* the last one is over: it reads last_seen_tag and the confirmed          *)
(* subscribers, asks GitHub, publishes one message per subscriber it read, *)
(* and then records the tag. Users confirm and leave, releases appear, the *)
(* channel closes and the process dies between any two of these.           *)
(***************************************************************************)
EXTENDS Naturals

CONSTANTS
  Subscriptions,  \* rows of subscriptions for the repository
  Watched,        \* is there a confirmed row besides them all along
  Scans,          \* runs of scan() that may be under way together
  MaxRelease,     \* bound: releases GitHub publishes
  MaxFaults       \* bound: failed calls, closed channels and crashes

ASSUME WatchedAssumption == Watched \in BOOLEAN
ASSUME ReleaseAssumption == MaxRelease \in Nat
ASSUME FaultsAssumption == MaxFaults \in Nat

VARIABLES
  released,     \* the latest release on GitHub, 0 for none
  lastSeen,     \* repositories.last_seen_tag, 0 for NULL
  sub,          \* the subscription row
  scan,         \* a run of scanRepository and what it has read
  channelOpen,
  published,    \* messages on release.notifications, up to 2 per release
  lost,         \* messages that were written and did not reach the broker
  due,          \* who was confirmed before a release and every open snapshot
  overlapped,   \* two scans were under way together
  faults

vars == <<released, lastSeen, sub, scan, channelOpen, published, lost, due,
          overlapped, faults>>

Tags == 0..MaxRelease

Scan == [at : {"idle", "fetching", "fetched", "updating"},
         seen : Tags, audience : SUBSET Subscriptions, found : Tags]

NoScan == [at |-> "idle", seen |-> 0, audience |-> {}, found |-> 0]

TypeOK ==
  /\ released \in Tags /\ lastSeen \in Tags
  /\ sub \in [Subscriptions -> {"pending", "confirmed", "gone"}]
  /\ scan \in [Scans -> Scan]
  /\ channelOpen \in BOOLEAN /\ overlapped \in BOOLEAN
  /\ published \in [Subscriptions -> [Tags -> 0..2]]
  /\ lost \cup due \subseteq Subscriptions \X Tags
  /\ faults \in 0..MaxFaults

Init ==
  /\ released = 0 /\ lastSeen = 0
  /\ sub = [s \in Subscriptions |-> "pending"]
  /\ scan = [x \in Scans |-> NoScan]
  /\ channelOpen = TRUE /\ overlapped = FALSE
  /\ published = [s \in Subscriptions |-> [t \in Tags |-> 0]]
  /\ lost = {} /\ due = {}
  /\ faults = 0

Fault == faults < MaxFaults /\ faults' = faults + 1

\* Mutant: the join does not look at the status of the subscription.
AnyStatus == {s \in Subscriptions : sub[s] # "gone"}

Confirmed == {s \in Subscriptions : sub[s] = "confirmed"}

Busy(x) == scan[x].at # "idle"

-----------------------------------------------------------------------------
(* The world around the scanner. *)

\* A release is due to who is confirmed, unless a scan that has not asked
\* GitHub yet read the table before that.
NewRelease ==
  /\ released < MaxRelease
  /\ released' = released + 1
  /\ due' = due \cup
       {<<s, released + 1>> : s \in
          {c \in Confirmed : \A x \in Scans : scan[x].at = "fetching" => c \in scan[x].audience}}
  /\ UNCHANGED <<lastSeen, sub, scan, channelOpen, published, lost, overlapped, faults>>

Confirm(s) ==
  /\ sub[s] = "pending"
  /\ sub' = [sub EXCEPT ![s] = "confirmed"]
  /\ UNCHANGED <<released, lastSeen, scan, channelOpen, published, lost, due, overlapped, faults>>

\* Unsubscribed, or deleted by a compensation.
Leave(s) ==
  /\ sub[s] # "gone"
  /\ sub' = [sub EXCEPT ![s] = "gone"]
  /\ UNCHANGED <<released, lastSeen, scan, channelOpen, published, lost, due, overlapped, faults>>

ChannelCloses ==
  /\ channelOpen
  /\ Fault
  /\ channelOpen' = FALSE
  /\ UNCHANGED <<released, lastSeen, sub, scan, published, lost, due, overlapped>>

ChannelReopens ==
  /\ ~ channelOpen
  /\ channelOpen' = TRUE
  /\ UNCHANGED <<released, lastSeen, sub, scan, published, lost, due, overlapped, faults>>

\* The process dies and is restarted; the channel is opened before it scans.
ApiCrash ==
  /\ Fault
  /\ scan' = [x \in Scans |-> NoScan]
  /\ channelOpen' = TRUE
  /\ UNCHANGED <<released, lastSeen, sub, published, lost, due, overlapped>>

-----------------------------------------------------------------------------
(* scan() and scanRepository(). *)

\* A cron tick: getRepositoriesWithActiveSubscriptions. A repository without a
\* confirmed subscription is not among its rows.
StartScan(x) ==
  /\ ~ Busy(x)
  /\ Confirmed # {} \/ Watched
  /\ scan' = [scan EXCEPT ![x] = [at |-> "fetching", seen |-> lastSeen,
                                  audience |-> Confirmed, found |-> 0]]
  /\ overlapped' = (overlapped \/ \E y \in Scans : Busy(y))
  /\ UNCHANGED <<released, lastSeen, sub, channelOpen, published, lost, due, faults>>

\* The run goes on to its next await.
Proceeds(x, at, found) ==
  scan' = [scan EXCEPT ![x] = [at |-> at, seen |-> scan[x].seen,
                               audience |-> scan[x].audience, found |-> found]]

LatestRelease == released

\* GitHub answers getLatestRelease.
Fetch(x) ==
  /\ scan[x].at = "fetching"
  /\ Proceeds(x, "fetched", LatestRelease)
  /\ UNCHANGED <<released, lastSeen, sub, channelOpen, published, lost, due, overlapped, faults>>

\* The error is logged and this run is over: a fetch that failed (rate limit,
\* timeout), or an updateLastSeenTag that did.
StepFails(x) ==
  /\ scan[x].at \in {"fetching", "updating"}
  /\ Fault
  /\ scan' = [scan EXCEPT ![x] = NoScan]
  /\ UNCHANGED <<released, lastSeen, sub, channelOpen, published, lost, due, overlapped>>

IsNew(x) == scan[x].found # 0 /\ scan[x].found # scan[x].seen

NothingNew(x) ==
  /\ scan[x].at = "fetched"
  /\ ~ IsNew(x)
  /\ scan' = [scan EXCEPT ![x] = NoScan]
  /\ UNCHANGED <<released, lastSeen, sub, channelOpen, published, lost, due, overlapped, faults>>

Send(x, audience) ==
  published' = [s \in Subscriptions |-> [t \in Tags |->
    IF s \in audience /\ t = scan[x].found /\ published[s][t] < 2
    THEN published[s][t] + 1 ELSE published[s][t]]]

\* The publish loop, in one tick. There are no publisher confirms: when the
\* connection is lost under it, some of what was written may not arrive.
PublishTo(x, arrived) ==
  /\ scan[x].at = "fetched"
  /\ IsNew(x)
  /\ channelOpen
  /\ Send(x, arrived)
  /\ lost' = lost \cup ((scan[x].audience \ arrived) \X {scan[x].found})
  /\ \/ arrived = scan[x].audience /\ UNCHANGED <<channelOpen, faults>>
     \/ Fault /\ channelOpen' = FALSE
  /\ Proceeds(x, "updating", scan[x].found)
  /\ UNCHANGED <<released, lastSeen, sub, due, overlapped>>

Publish(x) == \E arrived \in SUBSET scan[x].audience : PublishTo(x, arrived)

\* Mutant: the error of publish is swallowed and the tag recorded.
CarryOn(x) == [scan[x] EXCEPT !.at = "updating"]

AfterThrow(x) == NoScan

\* publish throws at the first subscriber: the catch block ends the run.
PublishThrows(x) ==
  /\ scan[x].at = "fetched"
  /\ IsNew(x)
  /\ ~ channelOpen
  /\ scan' = [scan EXCEPT ![x] = AfterThrow(x)]
  /\ UNCHANGED <<released, lastSeen, sub, channelOpen, published, lost, due, overlapped, faults>>

\* Mutants: the tag is never recorded; it is read from GitHub again.
Unrecorded(x) == lastSeen
RecordedAnew(x) == released

Recorded(x) == scan[x].found

UpdateLastSeenTag(x) ==
  /\ scan[x].at = "updating"
  /\ lastSeen' = Recorded(x)
  /\ scan' = [scan EXCEPT ![x] = NoScan]
  /\ UNCHANGED <<released, sub, channelOpen, published, lost, due, overlapped, faults>>

-----------------------------------------------------------------------------
ScanStep(x) ==
  \/ Fetch(x) \/ NothingNew(x) \/ Publish(x) \/ PublishThrows(x) \/ UpdateLastSeenTag(x)

Next ==
  \/ NewRelease \/ ChannelCloses \/ ChannelReopens \/ ApiCrash
  \/ \E s \in Subscriptions : Confirm(s) \/ Leave(s)
  \/ \E x \in Scans : StartScan(x) \/ ScanStep(x) \/ StepFails(x)

Spec == Init /\ [][Next]_vars

\* The cron ticks, calls return, the queue manager reconnects. Nobody has to
\* confirm or leave, nothing has to be released and nothing has to fail.
FairSpec ==
  /\ Spec
  /\ WF_vars(ChannelReopens)
  /\ \A x \in Scans : WF_vars(StartScan(x)) /\ WF_vars(ScanStep(x))

-----------------------------------------------------------------------------
Reached(s, t) == published[s][t] > 0 \/ <<s, t>> \in lost

Owed(s, t) == <<s, t>> \in due /\ sub[s] = "confirmed"

\* What an open scan has to have read, or sent, for everyone its tag is due to;
\* and it tells nobody who has not confirmed, and of nothing that is not new.
Covered(x) ==
  LET sc == scan[x]
  IN  /\ sc.found <= released
      /\ sc.at = "updating" => sc.found # 0
      /\ \A s \in sc.audience : sub[s] # "pending"
      /\ \A s \in Subscriptions :
           /\ sc.at = "fetching" /\ Owed(s, released) => s \in sc.audience
           /\ sc.at = "fetched" /\ Owed(s, sc.found) => s \in sc.audience
           /\ sc.at = "updating" /\ Owed(s, sc.found) => Reached(s, sc.found)

\* A tag is recorded only over messages to everyone it is due to: whatever
\* crashed, threw or overlapped, no subscriber is skipped for the release in
\* last_seen_tag (scanRepository publishes before updateLastSeenTag).
NobodySkipped ==
  \A s \in Subscriptions, t \in Tags :
    Owed(s, t) /\ lastSeen = t => Reached(s, t)

\* The snapshot, the answer and the messages of every open scan agree with who
\* the release is due to.
CoverageInv ==
  /\ TypeOK
  /\ lastSeen <= released
  /\ \A d \in due : d[2] <= released /\ sub[d[1]] # "pending"
  /\ \A x \in Scans : Covered(x)
  /\ NobodySkipped

\* While scans take turns and nothing fails, the open one has a current
\* snapshot, and what was sent is recorded or about to be.
InTurn ==
  ~ overlapped /\ faults = 0 =>
    /\ \A x, y \in Scans : Busy(x) /\ Busy(y) => x = y
    /\ \A x \in Scans :
         /\ Busy(x) => scan[x].seen = lastSeen
         /\ scan[x].at = "fetched" => lastSeen <= scan[x].found
         /\ scan[x].at = "updating" => lastSeen < scan[x].found
    /\ \A s \in Subscriptions, t \in Tags :
         /\ published[s][t] <= 1
         /\ published[s][t] = 0 \/ t <= lastSeen
              \/ \E x \in Scans : scan[x].at = "updating" /\ scan[x].found = t

\* The inductive invariant (ReleaseScannerProofs).
ScannerInv == CoverageInv /\ InTurn

\* A subscriber gets one message per release, unless scans overlap or
\* something fails between the publish and the update.
OneMessagePerRelease ==
  ~ overlapped /\ faults = 0 =>
    \A s \in Subscriptions, t \in Tags : published[s][t] <= 1

\* Every release reaches the queue for everyone it is due to, however often
\* the broker or GitHub was out of reach (N2), unless the subscriber leaves or
\* a newer release takes its place.
DueIsPublished ==
  \A s \in Subscriptions, t \in Tags :
    (<<s, t>> \in due) ~> (Reached(s, t) \/ sub[s] = "gone" \/ released # t)
=============================================================================
