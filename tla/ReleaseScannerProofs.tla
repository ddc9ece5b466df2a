------------------------- MODULE ReleaseScannerProofs -------------------------
(***************************************************************************)
(* Nobody is skipped, for every number of subscribers, concurrent scans,   *)
(* releases and faults: what the scanner records in last_seen_tag it has   *)
(* sent to everyone it was due to.                                         *)
(***************************************************************************)
EXTENDS ReleaseScanner, TLAPS

\* Nothing has been released, seen or sent.
LEMMA InitialTypes == Init => TypeOK
<1> USE ReleaseAssumption, FaultsAssumption DEF TypeOK, Tags, Scan, NoScan, Init
<1> SUFFICES ASSUME Init PROVE TypeOK
  OBVIOUS
<1>1. /\ released \in Tags /\ lastSeen \in Tags /\ faults \in 0..MaxFaults
      /\ sub \in [Subscriptions -> {"pending", "confirmed", "gone"}]
  OBVIOUS
<1>2. channelOpen \in BOOLEAN /\ overlapped \in BOOLEAN
  OBVIOUS
<1>3. scan \in [Scans -> Scan]
  OBVIOUS
<1>4. published \in [Subscriptions -> [Tags -> 0..2]]
  OBVIOUS
<1>5. lost \cup due \subseteq Subscriptions \X Tags
  OBVIOUS
<1> QED
  BY <1>1, <1>2, <1>3, <1>4, <1>5

\* Every step of the scanner and of the world around it keeps the types.
THEOREM TypeCorrect == Spec => []TypeOK
<1> USE ReleaseAssumption, FaultsAssumption
<1> USE DEF TypeOK, Tags, Scan, NoScan
<1>1. Init => TypeOK
  BY InitialTypes
<1>2. TypeOK /\ [Next]_vars => TypeOK'
  <2> SUFFICES ASSUME TypeOK, [Next]_vars PROVE TypeOK'
    OBVIOUS
  <2>1. CASE NewRelease
    <3>1. released' \in Tags
      BY <2>1 DEF NewRelease
    <3>2. due' \subseteq Subscriptions \X Tags
      BY <2>1, <3>1 DEF NewRelease, Confirmed
    <3> QED
      BY <2>1, <3>1, <3>2 DEF NewRelease
  <2>2. CASE ChannelCloses \/ ChannelReopens \/ ApiCrash
    <3>1. channelOpen' \in BOOLEAN
      BY <2>2 DEF ChannelCloses, ChannelReopens, ApiCrash
    <3>2. scan' \in [Scans -> Scan] /\ faults' \in 0..MaxFaults
      BY <2>2 DEF ChannelCloses, ChannelReopens, ApiCrash, Fault
    <3> QED
      BY <2>2, <3>1, <3>2 DEF ChannelCloses, ChannelReopens, ApiCrash
  <2>3. ASSUME NEW s \in Subscriptions, Confirm(s) \/ Leave(s) PROVE TypeOK'
    BY <2>3 DEF Confirm, Leave
  <2>4. ASSUME NEW x \in Scans, StartScan(x) PROVE TypeOK'
    BY <2>4 DEF StartScan, Confirmed
  <2>5. ASSUME NEW x \in Scans, Fetch(x) PROVE TypeOK'
    BY <2>5 DEF Fetch, LatestRelease, Proceeds
  <2>6. ASSUME NEW x \in Scans, NothingNew(x) PROVE TypeOK'
    BY <2>6 DEF NothingNew
  <2>7. ASSUME NEW x \in Scans, NEW sent \in SUBSET scan[x].audience, PublishTo(x, sent)
        PROVE  TypeOK'
    <3>1. ASSUME NEW a, Send(x, a) PROVE published' \in [Subscriptions -> [Tags -> 0..2]]
      BY <3>1 DEF Send
    <3>2. scan' \in [Scans -> Scan]
      BY <2>7 DEF PublishTo, Proceeds
    <3>3. scan[x].audience \in SUBSET Subscriptions /\ scan[x].found \in Tags
      OBVIOUS
    <3>4. lost' \subseteq Subscriptions \X Tags
      BY <2>7, <3>3 DEF PublishTo
    <3>5. channelOpen' \in BOOLEAN
      BY <2>7 DEF PublishTo
    <3>6. faults' \in 0..MaxFaults
      <4>1. faults' = faults \/ (faults < MaxFaults /\ faults' = faults + 1)
        BY <2>7, Zenon DEF PublishTo, Fault
      <4>2. faults \in 0..MaxFaults
        OBVIOUS
      <4> HIDE DEF TypeOK
      <4> QED
        BY <4>1, <4>2
    <3>7. published' \in [Subscriptions -> [Tags -> 0..2]]
      BY <2>7, <3>1 DEF PublishTo
    <3> QED
      BY <2>7, <3>2, <3>4, <3>5, <3>6, <3>7 DEF PublishTo
  <2>8. ASSUME NEW x \in Scans, PublishThrows(x) PROVE TypeOK'
    BY <2>8 DEF PublishThrows, AfterThrow
  <2>9. ASSUME NEW x \in Scans, UpdateLastSeenTag(x) PROVE TypeOK'
    BY <2>9 DEF UpdateLastSeenTag, Recorded
  <2>10. ASSUME NEW x \in Scans, StepFails(x) PROVE TypeOK'
    BY <2>10 DEF StepFails, Fault
  <2>11. CASE UNCHANGED vars
    BY <2>11 DEF vars
  <2> QED
    BY <2>1, <2>2, <2>3, <2>4, <2>5, <2>6, <2>7, <2>8, <2>9, <2>10, <2>11
       DEF Next, ScanStep, Publish
<1> QED
  BY <1>1, <1>2, PTL DEF Spec

-----------------------------------------------------------------------------
\* A run of scanRepository that is over owes nothing more.
LEMMA IdleIsCovered ==
  ASSUME TypeOK, NEW x \in Scans, scan[x] = NoScan
  PROVE  Covered(x)
BY ReleaseAssumption DEF TypeOK, Tags, Covered, NoScan

\* The answer of GitHub, the snapshot it was compared with and the messages
\* sent agree with who the release is due to, at every await of every scan.
LEMMA ScannerCovers == Spec => []CoverageInv
<1> USE ReleaseAssumption, FaultsAssumption
<1>1. Init => CoverageInv
  <2> SUFFICES ASSUME Init PROVE CoverageInv
    OBVIOUS
  <2>1. TypeOK
    BY InitialTypes
  <2>2. \A x \in Scans : Covered(x)
    BY <2>1, IdleIsCovered DEF Init
  <2> QED
    BY <2>1, <2>2 DEF Init, CoverageInv, NobodySkipped, Owed
<1>2. TypeOK' /\ CoverageInv /\ [Next]_vars => CoverageInv'
  <2> SUFFICES ASSUME TypeOK', CoverageInv, [Next]_vars PROVE CoverageInv'
    OBVIOUS
  <2> DEFINE Rest == /\ lastSeen <= released
                     /\ \A d \in due : d[2] <= released /\ sub[d[1]] # "pending"
                     /\ \A x \in Scans : Covered(x)
                     /\ NobodySkipped
  <2> SUFFICES Rest'
    BY DEF CoverageInv
  <2> USE DEF CoverageInv, TypeOK, Tags
  <2>1. CASE NewRelease
    <3>1. due \subseteq due' /\ \A s \in Subscriptions, t \in Tags :
             <<s, t>> \in due' => \/ <<s, t>> \in due
                                  \/ /\ t = released + 1 /\ s \in Confirmed
                                     /\ \A x \in Scans : scan[x].at = "fetching" => s \in scan[x].audience
      BY <2>1 DEF NewRelease
    <3>2. \A d \in due' : d[2] <= released' /\ sub'[d[1]] # "pending"
      BY <2>1 DEF NewRelease, Confirmed
    <3>3. ASSUME NEW x \in Scans PROVE Covered(x)'
      <4> USE <2>1 DEF NewRelease
      <4>1. scan'[x].found <= released'
        BY DEF Covered, Scan
      <4>2. ASSUME NEW s \in Subscriptions, scan[x].at = "fetching", Owed(s, released)'
            PROVE  s \in scan[x].audience
        BY <3>1, <4>2 DEF Owed, Confirmed
      <4>3. ASSUME NEW s \in Subscriptions, Owed(s, scan[x].found)'
            PROVE  Owed(s, scan[x].found)
        BY <3>1, <4>3 DEF Owed, Covered, Scan
      <4> QED
        BY <4>1, <4>2, <4>3 DEF Covered, Reached
    <3>4. NobodySkipped'
      BY <2>1, <3>1 DEF NewRelease, NobodySkipped, Owed, Reached
    <3> QED
      BY <2>1, <3>2, <3>3, <3>4 DEF NewRelease
  <2>2. CASE ChannelCloses \/ ChannelReopens
    BY <2>2 DEF ChannelCloses, ChannelReopens, Covered, NobodySkipped, Owed, Reached
  <2>3. CASE ApiCrash
    <3>1. \A x \in Scans : scan'[x] = NoScan
      BY <2>3 DEF ApiCrash
    <3>2. \A x \in Scans : Covered(x)'
      BY <2>3, <3>1 DEF ApiCrash, Covered, NoScan
    <3> QED
      BY <2>3, <3>2 DEF ApiCrash, NobodySkipped, Owed, Reached
  <2>4. ASSUME NEW s \in Subscriptions, Confirm(s) PROVE Rest'
    <3>1. \A r \in Subscriptions, t \in Tags : Owed(r, t)' => Owed(r, t)
      BY <2>4 DEF Confirm, Owed
    <3>2. \A x \in Scans : Covered(x)'
      BY <2>4, <3>1 DEF Confirm, Covered, Reached, Scan
    <3>3. NobodySkipped'
      BY <2>4, <3>1 DEF Confirm, NobodySkipped, Reached
    <3> QED
      BY <2>4, <3>2, <3>3 DEF Confirm
  <2>5. ASSUME NEW s \in Subscriptions, Leave(s) PROVE Rest'
    <3>1. \A r \in Subscriptions, t \in Tags : Owed(r, t)' => Owed(r, t)
      BY <2>5 DEF Leave, Owed
    <3>2. \A x \in Scans : Covered(x)'
      BY <2>5, <3>1 DEF Leave, Covered, Reached, Scan
    <3>3. NobodySkipped'
      BY <2>5, <3>1 DEF Leave, NobodySkipped, Reached
    <3> QED
      BY <2>5, <3>2, <3>3 DEF Leave
  <2>6. ASSUME NEW x \in Scans, StartScan(x) PROVE Rest'
    <3> USE <2>6 DEF StartScan
    <3>1. ASSUME NEW y \in Scans PROVE Covered(y)'
      <4>1. CASE y = x
        BY <4>1 DEF Covered, Owed, Confirmed
      <4>2. CASE y # x
        BY <4>2 DEF Covered, Owed, Reached
      <4> QED
        BY <4>1, <4>2
    <3> QED
      BY <3>1 DEF NobodySkipped, Owed, Reached
  <2>7. ASSUME NEW x \in Scans, Fetch(x) PROVE Rest'
    <3> USE <2>7 DEF Fetch, LatestRelease, Proceeds
    <3>1. ASSUME NEW y \in Scans PROVE Covered(y)'
      <4>1. CASE y = x
        <5>1. scan'[x].at = "fetched" /\ scan'[x].found = released
              /\ scan'[x].audience = scan[x].audience
          OBVIOUS
        <5>2. released' = released /\ due' = due /\ sub' = sub
          OBVIOUS
        <5>3. ASSUME NEW s \in Subscriptions, Owed(s, released) PROVE s \in scan[x].audience
          BY <5>3 DEF Covered
        <5>4. /\ scan'[x].found <= released'
              /\ \A s \in Subscriptions : Owed(s, released)' => s \in scan'[x].audience
          BY <5>1, <5>2, <5>3 DEF Owed
        <5> QED
          BY <4>1, <5>1, <5>2, <5>4 DEF Covered, Owed
      <4>2. CASE y # x
        BY <4>2 DEF Covered, Owed, Reached
      <4> QED
        BY <4>1, <4>2
    <3> QED
      BY <3>1 DEF NobodySkipped, Owed, Reached
  <2>8. ASSUME NEW x \in Scans, NothingNew(x) \/ PublishThrows(x) \/ StepFails(x) PROVE Rest'
    <3> USE <2>8 DEF NothingNew, PublishThrows, StepFails, AfterThrow
    <3>1. ASSUME NEW y \in Scans PROVE Covered(y)'
      <4>1. CASE y = x
        BY <4>1 DEF Covered, NoScan
      <4>2. CASE y # x
        BY <4>2 DEF Covered, Owed, Reached
      <4> QED
        BY <4>1, <4>2
    <3> QED
      BY <3>1 DEF NobodySkipped, Owed, Reached
  <2>9. ASSUME NEW x \in Scans, NEW sent \in SUBSET scan[x].audience, PublishTo(x, sent)
        PROVE  Rest'
    <3> DEFINE tag == scan[x].found
    <3>1. tag \in Tags /\ scan[x].audience \subseteq Subscriptions
      BY DEF Scan
    <3>0. /\ Send(x, sent)
          /\ lost \subseteq lost'
          /\ \A s \in scan[x].audience \ sent : <<s, tag>> \in lost'
      BY <2>9 DEF PublishTo
    <3>2. ASSUME NEW s \in Subscriptions, NEW t \in Tags, Reached(s, t)
          PROVE  Reached(s, t)'
      <4>1. published[s][t] > 0 => published'[s][t] > 0
        <5>1. published[s][t] \in 0..2
          OBVIOUS
        <5>2. \/ published'[s][t] = published[s][t] + 1
              \/ published'[s][t] = published[s][t]
          BY <3>0 DEF Send
        <5> QED
          BY <5>1, <5>2
      <4> QED
        BY <3>0, <3>2, <4>1 DEF Reached
    <3>3. ASSUME NEW s \in scan[x].audience, NEW t \in Tags, t = tag
          PROVE  Reached(s, t)'
      <4>1. CASE s \in sent
        <5>1. s \in Subscriptions /\ published[s][t] \in 0..2
          BY <3>1
        <5>2. published'[s][t] = IF published[s][t] < 2 THEN published[s][t] + 1
                                 ELSE published[s][t]
          BY <3>0, <3>3, <4>1, <5>1 DEF Send
        <5>3. published'[s][t] > 0
          BY <5>1, <5>2
        <5> QED
          BY <5>3 DEF Reached
      <4>2. CASE s \notin sent
        BY <3>0, <3>3, <4>2 DEF Reached
      <4> QED
        BY <4>1, <4>2
    <3>4. ASSUME NEW y \in Scans PROVE Covered(y)'
      <4>1. CASE y = x
        BY <2>9, <3>1, <3>3, <4>1 DEF PublishTo, IsNew, Proceeds, Covered, Owed, Scan
      <4>2. CASE y # x
        BY <2>9, <3>2, <4>2 DEF PublishTo, Proceeds, Covered, Owed, Scan
      <4> QED
        BY <4>1, <4>2
    <3>5. NobodySkipped'
      BY <2>9, <3>2 DEF PublishTo, Proceeds, NobodySkipped, Owed
    <3> QED
      BY <2>9, <3>4, <3>5 DEF PublishTo, Proceeds
  <2>10. ASSUME NEW x \in Scans, UpdateLastSeenTag(x) PROVE Rest'
    <3> USE <2>10 DEF UpdateLastSeenTag, Recorded
    <3>1. ASSUME NEW y \in Scans PROVE Covered(y)'
      <4>1. CASE y = x
        BY <4>1 DEF Covered, NoScan
      <4>2. CASE y # x
        BY <4>2 DEF Covered, Owed, Reached
      <4> QED
        BY <4>1, <4>2
    <3>2. lastSeen' <= released
      BY DEF Covered
    <3>3. NobodySkipped'
      BY DEF Covered, NobodySkipped, Owed, Reached
    <3> QED
      BY <3>1, <3>2, <3>3
  <2>11. CASE UNCHANGED vars
    BY <2>11 DEF vars, Covered, NobodySkipped, Owed, Reached
  <2> QED
    BY <2>1, <2>2, <2>3, <2>4, <2>5, <2>6, <2>7, <2>8, <2>9, <2>10, <2>11
       DEF Next, ScanStep, Publish
<1> QED
  BY <1>1, <1>2, TypeCorrect, PTL DEF Spec

-----------------------------------------------------------------------------
\* A tag that is new to a scan in turn has not been sent to anyone, so what
\* the publish loop sends is sent once.
LEMMA ScansTakeTurns == Spec => []InTurn
<1> USE ReleaseAssumption, FaultsAssumption
<1>1. Init => InTurn
  BY DEF Init, InTurn, Busy, NoScan
<1>2. CoverageInv /\ InTurn /\ [Next]_vars => InTurn'
  <2> SUFFICES ASSUME CoverageInv, InTurn, [Next]_vars, ~ overlapped', faults' = 0
               PROVE  InTurn'
    BY DEF InTurn
  <2> USE DEF Tags
  <2>1. TypeOK
    BY DEF CoverageInv
  <2>2. ~ Fault
    BY <2>1 DEF Fault, TypeOK
  <2>3. CASE NewRelease \/ ChannelReopens \/ UNCHANGED vars
    BY <2>3 DEF NewRelease, ChannelReopens, vars, InTurn, Busy
  <2>4. ~ ChannelCloses /\ ~ ApiCrash /\ \A x \in Scans : ~ StepFails(x)
    BY <2>2 DEF ChannelCloses, ApiCrash, StepFails
  <2>5. ASSUME NEW s \in Subscriptions, Confirm(s) \/ Leave(s) PROVE InTurn'
    BY <2>5 DEF Confirm, Leave, InTurn, Busy
  <2>6. ASSUME NEW x \in Scans, StartScan(x) PROVE InTurn'
    BY <2>1, <2>6 DEF StartScan, TypeOK, InTurn, Busy
  <2>7. ASSUME NEW x \in Scans, Fetch(x) PROVE InTurn'
    BY <2>1, <2>7 DEF Fetch, LatestRelease, Proceeds, TypeOK, CoverageInv, InTurn, Busy
  <2>8. ASSUME NEW x \in Scans, NothingNew(x) \/ PublishThrows(x) PROVE InTurn'
    <3>1. /\ scan[x].at = "fetched"
          /\ scan' = [scan EXCEPT ![x] = NoScan]
          /\ UNCHANGED <<lastSeen, published, overlapped, faults>>
      BY <2>8 DEF NothingNew, PublishThrows, AfterThrow
    <3>2. scan'[x].at = "idle" /\ \A y \in Scans : y # x => scan'[y] = scan[y]
      BY <2>1, <3>1 DEF TypeOK, NoScan
    <3>3. \A y \in Scans : scan[y].at = "updating" => y # x
      BY <3>1
    <3> QED
      BY <3>1, <3>2, <3>3 DEF InTurn, Busy
  <2>9. ASSUME NEW x \in Scans, NEW sent \in SUBSET scan[x].audience, PublishTo(x, sent)
        PROVE  InTurn'
    <3> DEFINE tag == scan[x].found
    <3>1. /\ scan[x].at = "fetched" /\ IsNew(x) /\ Send(x, sent)
          /\ scan' = [scan EXCEPT ![x] = [at |-> "updating", seen |-> scan[x].seen,
                                          audience |-> scan[x].audience, found |-> tag]]
          /\ UNCHANGED <<lastSeen, overlapped>>
      BY <2>9 DEF PublishTo, Proceeds
    <3>2. faults = 0
      BY <2>2, <2>9 DEF PublishTo
    <3>3. /\ scan'[x].at = "updating" /\ scan'[x].seen = scan[x].seen /\ scan'[x].found = tag
          /\ \A y \in Scans : y # x => scan'[y] = scan[y]
      BY <2>1, <3>1 DEF TypeOK
    <3>4. \A y \in Scans : scan[y].at # "idle" => y = x
      BY <3>1, <3>2 DEF InTurn, Busy
    <3>5. tag \in Nat /\ lastSeen \in Nat /\ lastSeen < tag
      BY <2>1, <3>1, <3>2 DEF TypeOK, Scan, InTurn, IsNew, Busy
    <3>6. ASSUME NEW s \in Subscriptions, NEW t \in Tags
          PROVE  /\ published'[s][t] <= 1
                 /\ published'[s][t] = 0 \/ t <= lastSeen \/ t = tag
      <4>1. published[s][t] \in 0..2 /\ published[s][t] <= 1
        BY <2>1, <3>1, <3>2 DEF TypeOK, InTurn
      <4>2. published[s][t] = 0 \/ t <= lastSeen
        BY <3>1, <3>2, <3>4 DEF InTurn
      <4>3. published'[s][t] = IF s \in sent /\ t = tag /\ published[s][t] < 2
                               THEN published[s][t] + 1 ELSE published[s][t]
        BY <3>1 DEF Send
      <4>4. CASE t = tag
        BY <3>5, <4>1, <4>2, <4>3, <4>4
      <4>5. CASE t # tag
        BY <4>1, <4>2, <4>3, <4>5
      <4> QED
        BY <4>4, <4>5
    <3>7. scan'[x].seen = lastSeen /\ \A y \in Scans : y # x => scan'[y].at = "idle"
      BY <3>1, <3>2, <3>3, <3>4 DEF InTurn, Busy
    <3>8. \A y \in Scans :
            /\ Busy(y)' => y = x /\ scan'[y].seen = lastSeen
            /\ scan'[y].at # "fetched"
            /\ scan'[y].at = "updating" => lastSeen < scan'[y].found
      BY <3>3, <3>5, <3>7 DEF Busy
    <3>9. ASSUME NEW s \in Subscriptions, NEW t \in Tags
          PROVE  /\ published'[s][t] <= 1
                 /\ published'[s][t] = 0 \/ t <= lastSeen
                      \/ \E y \in Scans : scan'[y].at = "updating" /\ scan'[y].found = t
      BY <3>3, <3>6
    <3> QED
      BY <3>1, <3>8, <3>9 DEF InTurn
  <2>10. ASSUME NEW x \in Scans, UpdateLastSeenTag(x) PROVE InTurn'
    <3>1. /\ scan[x].at = "updating" /\ lastSeen' = scan[x].found
          /\ scan' = [scan EXCEPT ![x] = NoScan]
          /\ UNCHANGED <<published, overlapped, faults>>
      BY <2>10 DEF UpdateLastSeenTag, Recorded
    <3>2. \A y \in Scans : scan'[y].at = "idle"
      BY <2>1, <3>1 DEF TypeOK, NoScan, InTurn, Busy
    <3>3. lastSeen \in Nat /\ lastSeen' \in Nat /\ lastSeen < lastSeen'
      BY <2>1, <3>1 DEF TypeOK, Scan, InTurn
    <3>4. \A s \in Subscriptions, t \in Tags :
            published[s][t] <= 1 /\ (published[s][t] = 0 \/ t <= lastSeen \/ t = lastSeen')
      BY <3>1 DEF InTurn, Busy
    <3> QED
      BY <3>1, <3>2, <3>3, <3>4 DEF InTurn, Busy
  <2> QED
    BY <2>3, <2>4, <2>5, <2>6, <2>7, <2>8, <2>9, <2>10 DEF Next, ScanStep, Publish
<1> QED
  BY <1>1, <1>2, ScannerCovers, PTL DEF Spec

\* Coverage of everyone a release is due to, and one open scan at a time with
\* a current snapshot as long as scans take turns and nothing fails.
THEOREM ScannerInvariant == Spec => []ScannerInv
BY ScannerCovers, ScansTakeTurns, PTL DEF ScannerInv

\* scanRepository publishes before updateLastSeenTag: a recorded release was
\* sent to everyone it was due to, with any overlap, failure or crash.
THEOREM NobodyIsSkipped == Spec => []NobodySkipped
BY ScannerInvariant, PTL DEF ScannerInv, CoverageInv

\* Without overlapping scans and without faults the loop of scanRepository
\* publishes a release once to each subscriber.
THEOREM OneMessage == Spec => []OneMessagePerRelease
<1>1. InTurn => OneMessagePerRelease
  BY DEF InTurn, OneMessagePerRelease
<1> QED
  BY <1>1, ScansTakeTurns, PTL
=============================================================================
