-------------------------- MODULE ReleaseContract --------------------------
(***************************************************************************)
(* What the program promises about releases, without scans, channels,      *)
(* queues, retries or restarts: whom a release is announced to, what may   *)
(* become of an announcement, and when a release may be taken for done.    *)
(***************************************************************************)
EXTENDS Naturals

CONSTANTS Subscriptions, MaxRelease

VARIABLES
  life,      \* of a subscription
  latest,    \* the latest release, 0 for none
  owed,      \* whom a release has to be announced to
  fate,      \* what became of a release for a subscriber
  recorded   \* the release that counts as announced

contract == <<life, latest, owed, fate, recorded>>

Releases == 1..MaxRelease

Fates == {"unsent", "lost", "queued", "quarantined", "told"}

ContractTypeOK ==
  /\ life \in [Subscriptions -> {"pending", "confirmed", "gone"}]
  /\ latest \in 0..MaxRelease /\ recorded \in 0..MaxRelease
  /\ owed \subseteq Subscriptions \X Releases
  /\ fate \in [Subscriptions -> [Releases -> Fates]]

Init ==
  /\ life = [s \in Subscriptions |-> "pending"]
  /\ latest = 0 /\ recorded = 0
  /\ owed = {}
  /\ fate = [s \in Subscriptions |-> [t \in Releases |-> "unsent"]]

Confirm(s) ==
  /\ life[s] = "pending"
  /\ life' = [life EXCEPT ![s] = "confirmed"]
  /\ UNCHANGED <<latest, owed, fate, recorded>>

Leave(s) ==
  /\ life' = [life EXCEPT ![s] = "gone"]
  /\ UNCHANGED <<latest, owed, fate, recorded>>

\* A release is owed to confirmed subscribers only.
Release(audience) ==
  /\ latest < MaxRelease
  /\ latest' = latest + 1
  /\ audience \subseteq {s \in Subscriptions : life[s] = "confirmed"}
  /\ owed' = owed \cup (audience \X {latest + 1})
  /\ UNCHANGED <<life, fate, recorded>>

\* An existing release is announced to subscribers who have confirmed (and may
\* have left since). What had no trace before is queued or lost on the way.
Announce(t, queued, lost) ==
  /\ t <= latest
  /\ \A s \in queued \cup lost : life[s] # "pending"
  /\ fate' = [s \in Subscriptions |-> [fate[s] EXCEPT ![t] =
       IF s \in queued /\ @ \in {"unsent", "lost"} THEN "queued"
       ELSE IF s \in lost /\ @ = "unsent" THEN "lost"
       ELSE @]]
  /\ UNCHANGED <<life, latest, owed, recorded>>

\* A queued announcement ends mailed or quarantined, and never otherwise; one
\* of several copies may still be mailed after another was quarantined.
Tell(s, t) ==
  /\ fate[s][t] \in {"queued", "quarantined"}
  /\ fate' = [fate EXCEPT ![s][t] = "told"]
  /\ UNCHANGED <<life, latest, owed, recorded>>

Quarantine(s, t) ==
  /\ fate[s][t] = "queued"
  /\ fate' = [fate EXCEPT ![s][t] = "quarantined"]
  /\ UNCHANGED <<life, latest, owed, recorded>>

\* An existing release is taken for announced when nobody it is owed to is
\* left out.
Record(t) ==
  /\ t <= latest
  /\ \A s \in Subscriptions :
       <<s, t>> \in owed /\ life[s] = "confirmed" => fate[s][t] # "unsent"
  /\ recorded' = t
  /\ UNCHANGED <<life, latest, owed, fate>>

Next ==
  \/ \E s \in Subscriptions : Confirm(s) \/ Leave(s)
  \/ \E audience \in SUBSET Subscriptions : Release(audience)
  \/ \E t \in Releases, queued, lost \in SUBSET Subscriptions : Announce(t, queued, lost)
  \/ \E s \in Subscriptions, t \in Releases : Tell(s, t) \/ Quarantine(s, t)
  \/ \E t \in Releases : Record(t)

Spec == Init /\ [][Next]_contract

-----------------------------------------------------------------------------
\* Nobody hears, or is on the way to hear, of a release that does not exist, nor
\* before he has confirmed his address.
OnlyConfirmedHear ==
  \A s \in Subscriptions, t \in Releases :
    fate[s][t] # "unsent" => t <= latest /\ life[s] # "pending"

\* Of the release that counts as announced, everyone it is owed to has a trace.
NobodyLeftOut ==
  \A s \in Subscriptions, t \in Releases :
    recorded = t /\ <<s, t>> \in owed /\ life[s] = "confirmed" => fate[s][t] # "unsent"

\* A release that is owed exists, and is owed to those who had confirmed.
OwedToConfirmed ==
  /\ recorded <= latest
  /\ \A d \in owed : d[2] <= latest /\ life[d[1]] # "pending"

ContractInv ==
  ContractTypeOK /\ OnlyConfirmedHear /\ OwedToConfirmed /\ NobodyLeftOut

\* A step takes back neither an announcement nor an unsubscription: a mail is the
\* last word on a release, and a dead letter only gives way to a mail.
NothingTakenBack ==
  /\ \A s \in Subscriptions, t \in Releases :
       /\ fate[s][t] = "lost" => fate'[s][t] # "unsent"
       /\ fate[s][t] = "queued" => fate'[s][t] \notin {"unsent", "lost"}
       /\ fate[s][t] = "quarantined" => fate'[s][t] \in {"quarantined", "told"}
       /\ fate[s][t] = "told" => fate'[s][t] = "told"
  /\ \A s \in Subscriptions : life[s] = "gone" => life'[s] = "gone"
=============================================================================
