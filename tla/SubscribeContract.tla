------------------------- MODULE SubscribeContract -------------------------
(***************************************************************************)
(* What the subscribe request promises to the outside, without sagas,      *)
(* queues, statements or recovery: how a subscription lives, and which     *)
(* answer the client may be given when.                                    *)
(***************************************************************************)
CONSTANT Requests

VARIABLES
  life,     \* of the request's subscription
  reply,    \* the answer the client has
  notified  \* requests whose confirmation mail was accepted

contract == <<life, reply, notified>>

ContractTypeOK ==
  /\ life \in [Requests -> {"none", "pending", "confirmed", "gone"}]
  /\ reply \in [Requests -> {"none", "ok", "failed", "pending", "refused", "error", "dropped"}]
  /\ notified \in SUBSET Requests

Init ==
  /\ life = [r \in Requests |-> "none"]
  /\ reply = [r \in Requests |-> "none"]
  /\ notified = {}

Tell(r, what) == /\ reply[r] = "none"
                 /\ reply' = [reply EXCEPT ![r] = what]

Store(r) == /\ life[r] = "none" /\ reply[r] = "none"
            /\ life' = [life EXCEPT ![r] = "pending"]
            /\ UNCHANGED <<reply, notified>>

Refuse(r) == /\ life[r] = "none"
             /\ Tell(r, "refused")
             /\ UNCHANGED <<life, notified>>

Notify(r) == /\ life[r] # "none"
             /\ notified' = notified \cup {r}
             /\ UNCHANGED <<life, reply>>

\* Only the holder of the mailed link can confirm, and never a deleted row.
Confirm(r) == /\ r \in notified
              /\ life[r] \in {"pending", "confirmed"}
              /\ life' = [life EXCEPT ![r] = "confirmed"]
              /\ UNCHANGED <<reply, notified>>

\* By the user, or by a compensation. A deleted subscription never returns.
Remove(r) == /\ life[r] # "none"
             /\ life' = [life EXCEPT ![r] = "gone"]
             /\ UNCHANGED <<reply, notified>>

Succeed(r) == /\ r \in notified
              /\ Tell(r, "ok")
              /\ UNCHANGED <<life, notified>>

Fail(r) == /\ life[r] # "none"
           /\ life' = [life EXCEPT ![r] = "gone"]
           /\ Tell(r, "failed")
           /\ UNCHANGED notified

\* The outcome is unknown to the client: a 500, a pending e-mail, or the
\* process dying under several requests at once.
GiveUp(R, what) == /\ \A r \in R : life[r] # "none" /\ reply[r] = "none"
                   /\ reply' = [r \in Requests |-> IF r \in R THEN what ELSE reply[r]]
                   /\ UNCHANGED <<life, notified>>

Next ==
  \/ \E r \in Requests :
       \/ Store(r) \/ Refuse(r) \/ Notify(r) \/ Confirm(r)
       \/ Remove(r) \/ Succeed(r) \/ Fail(r)
  \/ \E R \in SUBSET Requests, what \in {"pending", "error", "dropped"} : GiveUp(R, what)

Spec == Init /\ [][Next]_contract

-----------------------------------------------------------------------------
\* Nobody confirms, or is told 200, without an accepted mail; who is told that it
\* failed has no subscription; a refused request never stored one.
AnsweredTruly ==
  \A r \in Requests :
    /\ life[r] = "confirmed" \/ reply[r] = "ok" => r \in notified
    /\ reply[r] = "failed" => life[r] = "gone"
    /\ reply[r] = "refused" => life[r] = "none"

ContractInv == ContractTypeOK /\ AnsweredTruly

\* A step takes back neither a removal nor an answer, and no subscription that was
\* confirmed waits for its confirmation again.
NothingTakenBack ==
  \A r \in Requests :
    /\ life[r] = "gone" => life'[r] = "gone"
    /\ life[r] = "confirmed" => life'[r] \in {"confirmed", "gone"}
    /\ reply[r] # "none" => reply'[r] = reply[r]
=============================================================================
