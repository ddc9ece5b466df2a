---------------------- MODULE NotificationDeliveryProofs ----------------------
(***************************************************************************)
(* No notification is lost, and none is quarantined early, for every       *)
(* number of messages, retries, publications and faults.                   *)
(***************************************************************************)
EXTENDS NotificationDelivery, TLAPS

Spots == Places \X Counts

LEMMA NoneIsNotSome == ~ (0 > 0)
OBVIOUS

\* A message that moves keeps its copies typed; what is where is known.
LEMMA LeavesMoves ==
  ASSUME TypeOK, NEW m \in Notifications, NEW place \in Places, NEW n \in Counts,
         NEW to, Leaves(m, place, n, to)
  PROVE  /\ copies' \in [Notifications -> [Spots -> Nat]]
         /\ \A o \in Notifications : o # m => copies'[o] = copies[o]
         /\ \A p \in Spots : p # <<place, n>> /\ p \notin to => copies'[m][p] = copies[m][p]
         /\ \A p \in Spots : p # <<place, n>> /\ p \in to => copies'[m][p] = copies[m][p] + 1
         /\ copies'[m][<<place, n>>] < copies[m][<<place, n>>]
         /\ copies[m][<<place, n>>] > 0
<1>1. copies \in [Notifications -> [Spots -> Nat]]
  BY DEF TypeOK, Spots
<1>2. <<place, n>> \in Spots
  BY DEF Spots
<1>3. copies' = [copies EXCEPT ![m] = [p \in Spots |->
                  IF p = <<place, n>> THEN copies[m][p] - 1
                  ELSE IF p \in to THEN copies[m][p] + 1 ELSE copies[m][p]]]
  BY DEF Leaves, Spots
<1>4. copies[m][<<place, n>>] > 0 /\ \A p \in Spots : copies[m][p] \in Nat
  BY <1>1 DEF Leaves
<1>5. copies'[m] = [p \in Spots |->
                  IF p = <<place, n>> THEN copies[m][p] - 1
                  ELSE IF p \in to THEN copies[m][p] + 1 ELSE copies[m][p]]
  BY <1>1, <1>3
<1>6. copies'[m] \in [Spots -> Nat]
  BY <1>4, <1>5
<1>7. copies' \in [Notifications -> [Spots -> Nat]]
  BY <1>1, <1>3, <1>5, <1>6
<1> QED
  BY <1>1, <1>2, <1>3, <1>4, <1>5, <1>7

\* The same of a channel or a process that is lost.
LEMMA RequeueMoves ==
  ASSUME TypeOK, Requeue
  PROVE  /\ copies' \in [Notifications -> [Spots -> Nat]]
         /\ \A m \in Notifications, n \in Counts :
              /\ copies'[m][<<"ready", n>>] =
                   copies[m][<<"ready", n>>] + Unacked(copies[m], n)
              /\ copies'[m][<<"parked", n>>] = copies[m][<<"parked", n>>]
              /\ copies'[m][<<"working", n>>] = 0
              /\ copies'[m][<<"mailed", n>>] = 0
              /\ copies'[m][<<"copied", n>>] = 0
<1> USE DEF Spots
<1>1. copies \in [Notifications -> [Spots -> Nat]]
  BY DEF TypeOK
<1>2. ASSUME NEW m \in Notifications, NEW n \in Counts
      PROVE  Unacked(copies[m], n) \in Nat
  BY <1>1 DEF Unacked, Places
<1>3. ASSUME NEW m \in Notifications, NEW p \in Spots
      PROVE  copies'[m][p] = CASE p[1] = "ready"  -> copies[m][p] + Unacked(copies[m], p[2])
                               [] p[1] = "parked" -> copies[m][p]
                               [] OTHER           -> 0
  BY DEF Requeue, Requeued
<1>4. ASSUME NEW m \in Notifications, NEW p \in Spots
      PROVE  copies'[m][p] \in Nat
  BY <1>1, <1>2, <1>3
<1>5. copies' = [m \in Notifications |-> [p \in Spots |-> copies'[m][p]]]
  BY DEF Requeue, Requeued
<1>6. copies' \in [Notifications -> [Spots -> Nat]]
  BY <1>4, <1>5
<1>7. ASSUME NEW m \in Notifications, NEW n \in Counts
      PROVE  /\ copies'[m][<<"ready", n>>] =
                   copies[m][<<"ready", n>>] + Unacked(copies[m], n)
             /\ copies'[m][<<"parked", n>>] = copies[m][<<"parked", n>>]
             /\ copies'[m][<<"working", n>>] = 0
             /\ copies'[m][<<"mailed", n>>] = 0
             /\ copies'[m][<<"copied", n>>] = 0
  <2>1. \A place \in Places : <<place, n>> \in Spots
    OBVIOUS
  <2> QED
    BY <1>3, <2>1 DEF Places
<1> QED
  BY <1>6, <1>7

LEMMA CountedCounts ==
  ASSUME NEW counter \in [Notifications -> Nat], NEW m \in Notifications, NEW cap \in Nat
  PROVE  /\ Counted(counter, m, cap) \in [Notifications -> Nat]
         /\ \A o \in Notifications : Counted(counter, m, cap)[o] >= counter[o]
         /\ \A o \in Notifications : o # m => Counted(counter, m, cap)[o] = counter[o]
         /\ counter[m] < cap => Counted(counter, m, cap)[m] = counter[m] + 1
         /\ counter[m] >= cap => Counted(counter, m, cap)[m] = counter[m]
BY DEF Counted

LEMMA InitialState == Init => QueueInv
<1> SUFFICES ASSUME Init PROVE QueueInv
  OBVIOUS
<1>1. TypeOK
  BY FaultAssumption DEF Init, TypeOK
<1>2. \A m \in Notifications, p \in Places \X Counts : copies[m][p] = 0
  BY DEF Init
<1>3. CountsFailures
  BY <1>2 DEF CountsFailures
<1>4. InFlightIsSafe
  <2>1. \A n \in Counts : <<"mailed", n>> \in Places \X Counts /\ <<"copied", n>> \in Places \X Counts
    BY DEF Places
  <2>2. \A m \in Notifications, n \in Counts :
          ~ (copies[m][<<"mailed", n>>] > 0) /\ ~ (copies[m][<<"copied", n>>] > 0)
    BY <1>2, <2>1, NoneIsNotSome
  <2> QED
    BY <2>2, Zenon DEF InFlightIsSafe
<1>5. NeverLost /\ DeadOnlyAfterRetries
  BY DEF Init, NeverLost, DeadOnlyAfterRetries
<1>6. OnlyPublished
  BY <1>2, NoneIsNotSome DEF Init, OnlyPublished, Held
<1> QED
  BY <1>1, <1>3, <1>4, <1>5, <1>6 DEF QueueInv

-----------------------------------------------------------------------------
(* A message moves. *)

\* The counters only grow.
Grows(counter) ==
  /\ counter' \in [Notifications -> Nat]
  /\ \A o \in Notifications : counter'[o] >= counter[o]

\* What a move has to respect: the counts it writes, mails before acks, a copy
\* before the ack of a failed original, and MaxRetries before a dead letter.
LEMMA MoveKeepsInv ==
  ASSUME QueueInv,
         NEW m \in Notifications, NEW place \in Places, NEW n \in Counts, NEW to,
         Leaves(m, place, n, to),
         UNCHANGED <<published, notifier, stale>>, faults' \in 0..MaxFaults,
         Grows(mails), Grows(failures), Grows(dead),
         \A o \in Notifications : o # m => mails'[o] = mails[o] /\ dead'[o] = dead[o],
         \A p \in Spots : p \in to => p[2] <= failures'[m],
         \A k \in Counts : <<"mailed", k>> \in to => mails'[m] > 0,
         \/ \E t \in Spots : t \in to /\ t # <<place, n>> /\ t[1] # "copied"
         \/ /\ \A k \in Counts : <<"copied", k>> \notin to
            /\ \/ InOrder /\ (mails'[m] > 0 \/ dead'[m] > 0)
               \/ place = "copied",
         \A o \in Notifications \ Invalid : dead'[o] # dead[o] => failures'[o] > MaxRetries
  PROVE  QueueInv'
<1> DEFINE Twin(o) == \E p \in Spots : p[1] # "copied" /\ copies[o][p] > 0
<1>1. TypeOK /\ CountsFailures /\ InFlightIsSafe /\ NeverLost /\ DeadOnlyAfterRetries
  BY DEF QueueInv
<1>2. copies \in [Notifications -> [Spots -> Nat]]
  BY <1>1 DEF TypeOK, Spots
<1>3. /\ copies' \in [Notifications -> [Spots -> Nat]]
      /\ \A o \in Notifications : o # m => copies'[o] = copies[o]
      /\ \A p \in Spots : p # <<place, n>> /\ p \notin to => copies'[m][p] = copies[m][p]
      /\ \A p \in Spots : p # <<place, n>> /\ p \in to => copies'[m][p] = copies[m][p] + 1
      /\ copies'[m][<<place, n>>] < copies[m][<<place, n>>]
      /\ copies[m][<<place, n>>] > 0
  BY <1>1, LeavesMoves
<1>4. /\ mails \in [Notifications -> Nat] /\ mails' \in [Notifications -> Nat]
      /\ dead \in [Notifications -> Nat] /\ dead' \in [Notifications -> Nat]
      /\ failures \in [Notifications -> Nat] /\ failures' \in [Notifications -> Nat]
      /\ \A o \in Notifications :
           mails'[o] >= mails[o] /\ dead'[o] >= dead[o] /\ failures'[o] >= failures[o]
  BY <1>1 DEF TypeOK, Grows
<1>5. \A p \in Spots : p[2] \in Nat /\ <<place, n>> \in Spots
  BY RetryAssumption DEF Spots, Counts
<1>6. ASSUME NEW p \in Spots, p # <<place, n>>
      PROVE  copies'[m][p] >= copies[m][p]
  BY <1>2, <1>3, <1>6
<1>7. TypeOK'
  BY <1>1, <1>3, <1>4 DEF TypeOK, Spots
<1>8. CountsFailures'
  <2> SUFFICES ASSUME NEW o \in Notifications, NEW p \in Spots, copies'[o][p] > 0
               PROVE  p[2] <= failures'[o]
    BY DEF CountsFailures, Spots
  <2>1. copies[o][p] > 0 => p[2] <= failures[o]
    BY <1>1 DEF CountsFailures, Spots
  <2>2. copies[o][p] > 0 \/ (o = m /\ p \in to)
    BY <1>2, <1>3
  <2>3. p[2] \in Nat /\ failures[o] \in Nat /\ failures'[o] \in Nat /\ failures'[o] >= failures[o]
    BY <1>4, <1>5
  <2> QED
    BY <2>1, <2>2, <2>3
<1>9. ASSUME \E t \in Spots : t \in to /\ t # <<place, n>> /\ t[1] # "copied"
      PROVE  Twin(m)'
  <2>1. PICK t \in Spots : t \in to /\ t # <<place, n>> /\ t[1] # "copied"
    BY <1>9
  <2>2. copies'[m][t] > 0
    BY <1>2, <1>3, <2>1
  <2> QED
    BY <2>1, <2>2
<1>10. ASSUME place = "copied"
       PROVE  mails'[m] > 0 \/ dead'[m] > 0 \/ Twin(m)'
  <2>1. mails[m] > 0 \/ dead[m] > 0 \/ Twin(m)
    BY <1>1, <1>3, <1>10 DEF InFlightIsSafe, Spots
  <2>2. ASSUME Twin(m) PROVE Twin(m)'
    <3>1. PICK p \in Spots : p[1] # "copied" /\ copies[m][p] > 0
      BY <2>2
    <3>2. p # <<place, n>>
      BY <1>10, <3>1
    <3>3. copies'[m][p] > 0
      BY <1>2, <1>3, <1>6, <3>1, <3>2
    <3> QED
      BY <3>1, <3>3
  <2> QED
    BY <1>4, <2>1, <2>2
<1>11. mails'[m] > 0 \/ dead'[m] > 0 \/ Twin(m)'
  BY <1>9, <1>10
<1>12. InFlightIsSafe'
  <2> SUFFICES ASSUME NEW o \in Notifications, NEW k \in Counts
               PROVE  /\ copies'[o][<<"mailed", k>>] > 0 => mails'[o] > 0
                      /\ copies'[o][<<"copied", k>>] > 0 =>
                           mails'[o] > 0 \/ dead'[o] > 0 \/ Twin(o)'
    BY DEF InFlightIsSafe, Spots
  <2>1. <<"mailed", k>> \in Spots /\ <<"copied", k>> \in Spots
    BY DEF Spots, Places
  <2>2. /\ copies[o][<<"mailed", k>>] > 0 => mails[o] > 0
        /\ copies[o][<<"copied", k>>] > 0 =>
             mails[o] > 0 \/ dead[o] > 0 \/ Twin(o)
    BY <1>1 DEF InFlightIsSafe, Spots
  <2>3. CASE o # m
    <3>1. copies'[o] = copies[o] /\ Twin(o)' = Twin(o)
      BY <1>3, <2>3
    <3> QED
      BY <1>4, <2>2, <3>1
  <2>4. CASE o = m
    <3>1. copies'[m][<<"mailed", k>>] > 0 =>
             copies[m][<<"mailed", k>>] > 0 \/ <<"mailed", k>> \in to
      BY <1>2, <1>3, <2>1
    <3> QED
      BY <1>4, <1>11, <2>2, <2>4, <3>1
  <2> QED
    BY <2>3, <2>4
<1>13. NeverLost'
  <2> SUFFICES ASSUME NEW o \in Notifications, published[o] > 0
               PROVE  Held(o)' \/ mails'[o] > 0 \/ dead'[o] > 0
    BY DEF NeverLost
  <2>1. CASE o # m
    <3>1. Held(o)' = Held(o)
      BY <1>3, <2>1 DEF Held
    <3> QED
      BY <1>1, <1>4, <3>1 DEF NeverLost
  <2>2. CASE o = m
    <3>1. Twin(m)' => Held(m)'
      BY DEF Held, Spots
    <3> QED
      BY <1>11, <2>2, <3>1
  <2> QED
    BY <2>1, <2>2
<1>14. DeadOnlyAfterRetries'
  BY <1>1, <1>4, RetryAssumption DEF DeadOnlyAfterRetries
<1>15. OnlyPublished'
  <2> SUFFICES ASSUME NEW o \in Notifications,
                      Held(o)' \/ stale[o] # {} \/ mails'[o] > 0 \/ dead'[o] > 0
               PROVE  published[o] > 0
    BY DEF OnlyPublished
  <2>1. Held(o) \/ stale[o] # {} \/ mails[o] > 0 \/ dead[o] > 0 => published[o] > 0
    BY DEF QueueInv, OnlyPublished
  <2>2. CASE o # m
    <3>1. Held(o)' = Held(o)
      BY <1>3, <2>2 DEF Held
    <3> QED
      BY <2>1, <2>2, <3>1
  <2>3. CASE o = m
    BY <1>3, <1>5, <2>1, <2>3 DEF Held, Spots
  <2> QED
    BY <2>2, <2>3
<1> QED
  BY <1>7, <1>8, <1>12, <1>13, <1>14, <1>15 DEF QueueInv

\* Everything that was delivered and not acked is requeued.
LEMMA RequeueKeepsInv ==
  ASSUME QueueInv, Requeue, TypeOK',
         published' = published, dead' = dead,
         Grows(mails), Grows(failures),
         \A m \in Notifications : stale'[m] # {} \/ mails'[m] > 0 =>
           Held(m) \/ stale[m] # {} \/ mails[m] > 0
  PROVE  QueueInv'
<1>1. TypeOK /\ CountsFailures /\ NeverLost /\ DeadOnlyAfterRetries
  BY DEF QueueInv
<1>2. copies \in [Notifications -> [Spots -> Nat]]
  BY <1>1 DEF TypeOK, Spots
<1>3. \A m \in Notifications, n \in Counts :
              /\ copies'[m][<<"ready", n>>] =
                   copies[m][<<"ready", n>>] + Unacked(copies[m], n)
              /\ copies'[m][<<"parked", n>>] = copies[m][<<"parked", n>>]
              /\ copies'[m][<<"working", n>>] = 0
              /\ copies'[m][<<"mailed", n>>] = 0
              /\ copies'[m][<<"copied", n>>] = 0
  BY <1>1, RequeueMoves
<1>4. /\ mails \in [Notifications -> Nat] /\ mails' \in [Notifications -> Nat]
      /\ failures \in [Notifications -> Nat] /\ failures' \in [Notifications -> Nat]
      /\ \A o \in Notifications : mails'[o] >= mails[o] /\ failures'[o] >= failures[o]
  BY <1>1 DEF TypeOK, Grows
<1>5. ASSUME NEW m \in Notifications, NEW n \in Counts
      PROVE  /\ \A place \in Places : copies[m][<<place, n>>] \in Nat
             /\ Unacked(copies[m], n) = copies[m][<<"working", n>>]
                  + copies[m][<<"mailed", n>>] + copies[m][<<"copied", n>>]
  BY <1>2 DEF Unacked, Spots
<1>6. ASSUME NEW m \in Notifications, NEW place \in Places, NEW n \in Counts,
              copies'[m][<<place, n>>] > 0
       PROVE  \E origin \in Places : copies[m][<<origin, n>>] > 0
  <2>1. place \in {"ready", "parked"}
    BY <1>3, <1>6, NoneIsNotSome DEF Places
  <2>2. \A q \in Places : copies[m][<<q, n>>] \in Nat
    BY <1>5
  <2>3. {"ready", "working", "mailed", "copied", "parked"} = Places
    BY DEF Places
  <2>4. CASE place = "parked"
    BY <1>3, <1>6, <2>4
  <2>5. CASE place = "ready"
    <3>1. copies[m][<<"ready", n>>] + (copies[m][<<"working", n>>]
            + copies[m][<<"mailed", n>>] + copies[m][<<"copied", n>>]) > 0
      BY <1>3, <1>5, <1>6, <2>5
    <3> QED
      BY <2>2, <2>3, <3>1
  <2> QED
    BY <2>1, <2>4, <2>5
<1>7. ASSUME NEW m \in Notifications, NEW place \in Places, NEW n \in Counts,
             copies'[m][<<place, n>>] > 0
      PROVE  n <= failures'[m]
  <2>1. PICK origin \in Places : copies[m][<<origin, n>>] > 0
    BY <1>7, <1>6
  <2>2. n <= failures[m]
    BY <1>1, <2>1 DEF CountsFailures
  <2> QED
    BY <1>4, <2>2, RetryAssumption DEF Counts
<1>8. CountsFailures'
  BY <1>7 DEF CountsFailures
<1>9. InFlightIsSafe'
  <2>1. \A m \in Notifications, n \in Counts :
          ~ (copies'[m][<<"mailed", n>>] > 0) /\ ~ (copies'[m][<<"copied", n>>] > 0)
    BY <1>3, NoneIsNotSome
  <2> QED
    BY <2>1, Zenon DEF InFlightIsSafe
<1>10. ASSUME NEW m \in Notifications, Held(m)
      PROVE  Held(m)'
  <2>1. PICK place \in Places, n \in Counts : copies[m][<<place, n>>] > 0
    BY <1>10 DEF Held
  <2>2. copies'[m][<<"ready", n>>] > 0 \/ copies'[m][<<"parked", n>>] > 0
    <3>1. \A q \in {"ready", "working", "mailed", "copied", "parked"} :
            copies[m][<<q, n>>] \in Nat
      BY <1>5 DEF Places
    <3>2. copies'[m][<<"ready", n>>] = copies[m][<<"ready", n>>] + (copies[m][<<"working", n>>]
            + copies[m][<<"mailed", n>>] + copies[m][<<"copied", n>>])
      BY <1>3, <1>5
    <3>3. CASE place = "parked"
      BY <1>3, <2>1, <3>3
    <3>4. CASE place \in {"ready", "working", "mailed", "copied"}
      BY <2>1, <3>1, <3>2, <3>4
    <3> QED
      BY <3>3, <3>4 DEF Places
  <2> QED
    BY <2>2 DEF Held, Places
<1>11. NeverLost'
  BY <1>1, <1>4, <1>10 DEF NeverLost
<1>12. DeadOnlyAfterRetries'
  BY <1>1, <1>4, RetryAssumption DEF DeadOnlyAfterRetries
<1>13. ASSUME NEW m \in Notifications, Held(m)'
       PROVE  Held(m)
  <2>1. PICK place \in Places, n \in Counts : copies'[m][<<place, n>>] > 0
    BY <1>13 DEF Held
  <2>2. PICK origin \in Places : copies[m][<<origin, n>>] > 0
    BY <1>6, <2>1
  <2> QED
    BY <2>2 DEF Held
<1>14. OnlyPublished'
  BY <1>13 DEF QueueInv, OnlyPublished
<1> QED
  BY <1>8, <1>9, <1>11, <1>12, <1>14 DEF QueueInv

\* What arrives is added to the main queue.
LEMMA ArriveKeepsInv ==
  ASSUME QueueInv, NEW M, Arrive(M)
  PROVE  QueueInv'
<1>1. TypeOK /\ CountsFailures /\ InFlightIsSafe /\ NeverLost /\ DeadOnlyAfterRetries
  BY DEF QueueInv
<1>2. copies \in [Notifications -> [Spots -> Nat]]
  BY <1>1 DEF TypeOK, Spots
<1>3. /\ copies' = [m \in Notifications |-> [p \in Spots |->
             IF m \in M /\ p = <<"ready", 0>> THEN copies[m][p] + 1 ELSE copies[m][p]]]
      /\ UNCHANGED <<notifier, stale, mails, failures, dead, faults>>
  BY DEF Arrive, Spots
<1>4. /\ copies' \in [Notifications -> [Spots -> Nat]]
      /\ \A m \in Notifications, p \in Spots : copies'[m][p] >= copies[m][p]
      /\ \A m \in Notifications, p \in Spots :
           copies'[m][p] = copies[m][p] \/ (p = <<"ready", 0>> /\ m \in M)
      /\ \A m \in Notifications : m \in M =>
           \A p \in Spots : p = <<"ready", 0>> => copies'[m][p] > 0
  BY <1>2, <1>3
<1>5. <<"ready", 0>> \in Spots
  BY RetryAssumption DEF Spots, Places, Counts
<1>6. published' \in [Notifications -> 0..2]
  BY <1>1 DEF Arrive, TypeOK
<1>7. TypeOK'
  BY <1>1, <1>3, <1>4, <1>6 DEF TypeOK, Spots
<1>8. CountsFailures'
  <2> SUFFICES ASSUME NEW m \in Notifications, NEW p \in Spots, copies'[m][p] > 0
               PROVE  p[2] <= failures[m]
    BY <1>3 DEF CountsFailures, Spots
  <2>1. copies[m][p] > 0 => p[2] <= failures[m]
    BY <1>1 DEF CountsFailures, Spots
  <2>2. failures[m] \in Nat
    BY <1>1 DEF TypeOK
  <2> QED
    BY <1>4, <2>1, <2>2
<1>9. InFlightIsSafe'
  <2> SUFFICES ASSUME NEW m \in Notifications, NEW k \in Counts
               PROVE  /\ copies'[m][<<"mailed", k>>] > 0 => mails[m] > 0
                      /\ copies'[m][<<"copied", k>>] > 0 =>
                           \/ mails[m] > 0 \/ dead[m] > 0
                           \/ \E p \in Spots : p[1] # "copied" /\ copies'[m][p] > 0
    BY <1>3 DEF InFlightIsSafe, Spots
  <2>1. /\ <<"mailed", k>> \in Spots /\ <<"mailed", k>> # <<"ready", 0>>
        /\ <<"copied", k>> \in Spots /\ <<"copied", k>> # <<"ready", 0>>
    BY DEF Spots, Places
  <2>2. /\ copies'[m][<<"mailed", k>>] = copies[m][<<"mailed", k>>]
        /\ copies'[m][<<"copied", k>>] = copies[m][<<"copied", k>>]
    BY <1>4, <2>1
  <2>3. /\ copies[m][<<"mailed", k>>] > 0 => mails[m] > 0
        /\ copies[m][<<"copied", k>>] > 0 =>
             \/ mails[m] > 0 \/ dead[m] > 0
             \/ \E p \in Spots : p[1] # "copied" /\ copies[m][p] > 0
    BY <1>1 DEF InFlightIsSafe, Spots
  <2>4. ASSUME NEW p \in Spots, copies[m][p] > 0
        PROVE  copies'[m][p] > 0
    BY <1>2, <1>4, <2>4
  <2> QED
    BY <2>2, <2>3, <2>4
<1>10. NeverLost'
  <2> SUFFICES ASSUME NEW m \in Notifications, published'[m] > 0
               PROVE  Held(m)' \/ mails[m] > 0 \/ dead[m] > 0
    BY <1>3 DEF NeverLost
  <2>1. CASE m \in M
    BY <1>4, <1>5, <2>1 DEF Held, Spots
  <2>2. CASE m \notin M
    <3>1. published[m] > 0
      BY <2>2 DEF Arrive
    <3>2. Held(m) => Held(m)'
      <4>1. ASSUME NEW p \in Spots, copies[m][p] > 0
            PROVE  copies'[m][p] > 0
        BY <1>2, <1>4, <4>1
      <4> QED
        BY <4>1 DEF Held, Spots
    <3> QED
      BY <1>1, <3>1, <3>2 DEF NeverLost
  <2> QED
    BY <2>1, <2>2
<1>11. DeadOnlyAfterRetries'
  BY <1>1, <1>3 DEF DeadOnlyAfterRetries
<1>12. OnlyPublished'
  <2> SUFFICES ASSUME NEW m \in Notifications,
                      Held(m)' \/ stale[m] # {} \/ mails[m] > 0 \/ dead[m] > 0
               PROVE  published'[m] > 0
    BY <1>3 DEF OnlyPublished
  <2>1. /\ published[m] \in 0..2
        /\ published'[m] = IF m \in M /\ published[m] < 2 THEN published[m] + 1 ELSE published[m]
    BY <1>1 DEF TypeOK, Arrive
  <2>2. CASE m \in M
    BY <2>1, <2>2
  <2>3. CASE m \notin M
    <3>1. copies'[m] = copies[m]
      BY <1>2, <1>3, <2>3
    <3>2. Held(m)' = Held(m)
      BY <3>1 DEF Held
    <3> QED
      BY <2>1, <2>3, <3>2 DEF QueueInv, OnlyPublished
  <2> QED
    BY <2>2, <2>3
<1> QED
  BY <1>7, <1>8, <1>9, <1>10, <1>11, <1>12 DEF QueueInv

-----------------------------------------------------------------------------
(* The steps of the notifier. *)

LEMMA MessageStepKeepsInv ==
  ASSUME QueueInv, NEW m \in Notifications, NEW n \in Counts, MessageStep(m, n)
  PROVE  QueueInv'
<1>1. TypeOK /\ CountsFailures /\ InFlightIsSafe
  BY DEF QueueInv
<1>2. /\ mails \in [Notifications -> Nat] /\ dead \in [Notifications -> Nat]
      /\ failures \in [Notifications -> Nat] /\ faults \in 0..MaxFaults
      /\ \A p \in Spots : copies[m][p] \in Nat
  BY <1>1 DEF TypeOK, Spots
<1>3. n \in Nat /\ n <= MaxRetries /\ MaxRetries \in Nat
  BY RetryAssumption DEF Counts
<1>4. \A place \in Places : /\ <<place, n>> \in Spots
                            /\ copies[m][<<place, n>>] > 0 => n <= failures[m]
  BY <1>1 DEF CountsFailures, Spots
<1>5. \A counter \in [Notifications -> Nat] : counter' = counter => Grows(counter)
  BY DEF Grows
<1>6. ASSUME failures' = Counted(failures, m, MaxRetries + 1), n <= failures[m]
      PROVE  Grows(failures) /\ n + 1 <= failures'[m]
  <2>1. MaxRetries + 1 \in Nat /\ failures \in [Notifications -> Nat]
    BY <1>2, <1>3
  <2>2. /\ failures' \in [Notifications -> Nat]
        /\ \A o \in Notifications : failures'[o] >= failures[o]
        /\ failures[m] < MaxRetries + 1 => failures'[m] = failures[m] + 1
        /\ failures[m] >= MaxRetries + 1 => failures'[m] = failures[m]
    BY <1>6, <2>1, CountedCounts
  <2>3. n + 1 <= failures'[m]
    BY <1>3, <1>6, <2>1, <2>2
  <2> QED
    BY <2>2, <2>3 DEF Grows
<1>7. ASSUME dead' = [dead EXCEPT ![m] = @ + 1]
      PROVE  Grows(dead) /\ dead'[m] > 0 /\ \A o \in Notifications : o # m => dead'[o] = dead[o]
  BY <1>2, <1>7 DEF Grows
<1>7a. ASSUME SendFails(m), n <= failures[m]
       PROVE  /\ Grows(mails) /\ \A o \in Notifications : o # m => mails'[o] = mails[o]
              /\ Grows(failures) /\ n + 1 <= failures'[m] /\ failures'[m] \in Nat
              /\ faults' \in 0..MaxFaults
  <2>1. failures' = Counted(failures, m, MaxRetries + 1)
    BY <1>7a DEF SendFails
  <2>2. Grows(failures) /\ n + 1 <= failures'[m] /\ failures'[m] \in Nat
    BY <1>6, <1>7a, <2>1 DEF Grows
  <2>3. CASE UNCHANGED <<mails, faults>>
    <3>1. Grows(mails) /\ \A o \in Notifications : o # m => mails'[o] = mails[o]
      BY <1>2, <2>3 DEF Grows
    <3>2. faults' \in 0..MaxFaults
      BY <1>2, <2>3
    <3> QED
      BY <2>2, <3>1, <3>2
  <2>4. CASE faults < MaxFaults /\ faults' = faults + 1 /\ mails' = Counted(mails, m, 2)
    <3>1. Grows(mails) /\ \A o \in Notifications : o # m => mails'[o] = mails[o]
      <4>1. /\ Counted(mails, m, 2) \in [Notifications -> Nat]
            /\ \A o \in Notifications : Counted(mails, m, 2)[o] >= mails[o]
            /\ \A o \in Notifications : o # m => Counted(mails, m, 2)[o] = mails[o]
        <5>1. 2 \in Nat
          OBVIOUS
        <5> QED
          BY <1>2, <5>1, CountedCounts
      <4> QED
        BY <2>4, <4>1 DEF Grows
    <3>2. faults' \in 0..MaxFaults
      BY <1>2, <2>4, FaultAssumption
    <3> QED
      BY <2>2, <3>1, <3>2
  <2> QED
    BY <1>7a, <2>3, <2>4 DEF SendFails
<1>8. CASE RejectInvalid(m, n)
  <2>1. Grows(dead) /\ dead'[m] > 0 /\ \A o \in Notifications : o # m => dead'[o] = dead[o]
    BY <1>7, <1>8 DEF RejectInvalid
  <2>2. Leaves(m, "ready", n, {}) /\ InOrder /\ m \in Invalid
    BY <1>8 DEF RejectInvalid
  <2> QED
    BY <1>2, <1>8, <2>1, <2>2, MoveKeepsInv DEF RejectInvalid, Grows, Places
<1>9. CASE Deliver(m, n)
  <2>1. Leaves(m, "ready", n, {<<"working", n>>})
    BY <1>9 DEF Deliver
  <2>2. copies[m][<<"ready", n>>] > 0
    BY <2>1 DEF Leaves
  <2>3. <<"working", n>> \in Spots /\ <<"working", n>> # <<"ready", n>> /\ n <= failures[m]
    BY <1>4, <2>2 DEF Places
  <2> QED
    BY <1>2, <1>9, <2>1, <2>3, MoveKeepsInv DEF Deliver, Grows, Places
<1>10. CASE MailAccepted(m, n)
  <2>1. Leaves(m, "working", n, {<<"mailed", n>>})
    BY <1>10 DEF MailAccepted
  <2>2. copies[m][<<"working", n>>] > 0
    BY <2>1 DEF Leaves
  <2>3. <<"mailed", n>> \in Spots /\ <<"mailed", n>> # <<"working", n>> /\ n <= failures[m]
    BY <1>4, <2>2 DEF Places
  <2>4. Grows(mails) /\ mails'[m] > 0 /\ \A o \in Notifications : o # m => mails'[o] = mails[o]
    <3>1. mails' = Counted(mails, m, 2) /\ mails \in [Notifications -> Nat] /\ 2 \in Nat
      BY <1>2, <1>10 DEF MailAccepted
    <3>2. /\ mails' \in [Notifications -> Nat]
          /\ \A o \in Notifications : mails'[o] >= mails[o]
          /\ \A o \in Notifications : o # m => mails'[o] = mails[o]
          /\ mails[m] < 2 => mails'[m] = mails[m] + 1
          /\ mails[m] >= 2 => mails'[m] = mails[m]
      BY <3>1, CountedCounts
    <3>3. mails'[m] > 0
      BY <3>1, <3>2
    <3> QED
      BY <3>2, <3>3 DEF Grows
  <2> QED
    BY <1>2, <1>10, <2>1, <2>3, <2>4, MoveKeepsInv DEF MailAccepted, Grows, Places
<1>11. CASE Ack(m, n)
  <2>1. UNCHANGED <<published, notifier, stale, mails, failures, dead, faults>>
    BY <1>11 DEF Ack
  <2>2. CASE InOrder /\ Leaves(m, "mailed", n, {})
    <3>1. copies[m][<<"mailed", n>>] > 0
      BY <2>2 DEF Leaves
    <3>2. mails[m] > 0
      BY <1>1, <3>1 DEF InFlightIsSafe
    <3> QED
      BY <1>2, <2>1, <2>2, <3>2, MoveKeepsInv DEF Grows, Places
  <2>3. CASE Leaves(m, "copied", n, {})
    BY <1>2, <2>1, <2>3, MoveKeepsInv DEF Grows, Places
  <2> QED
    BY <1>11, <2>2, <2>3 DEF Ack
<1>12. CASE Park(m, n)
  <2>1. Leaves(m, "working", n, {<<"copied", n>>, <<"parked", n + 1>>})
    BY <1>12 DEF Park, CopyBeforeAck
  <2>2. copies[m][<<"working", n>>] > 0
    BY <2>1 DEF Leaves
  <2>3. /\ Grows(mails) /\ \A o \in Notifications : o # m => mails'[o] = mails[o]
        /\ Grows(failures) /\ n + 1 <= failures'[m] /\ failures'[m] \in Nat
        /\ faults' \in 0..MaxFaults
    BY <1>4, <1>7a, <1>12, <2>2 DEF Park, Places
  <2>4. n + 1 \in Counts /\ <<"parked", n + 1>> \in Spots
    BY <1>3, <1>12 DEF Park, RetriesLeft, Counts, Spots, Places
  <2>5. \A p \in Spots : p \in {<<"copied", n>>, <<"parked", n + 1>>} => p[2] <= failures'[m]
    <3>1. failures'[m] \in Nat
      BY <2>3 DEF Grows
    <3> QED
      BY <1>3, <2>3, <3>1
  <2> QED
    BY <1>2, <1>12, <2>1, <2>3, <2>4, <2>5, MoveKeepsInv DEF Park, Grows, Places
<1>13. CASE DeadLetter(m, n)
  <2>1. Leaves(m, "working", n, {}) /\ InOrder
    BY <1>13 DEF DeadLetter
  <2>2. copies[m][<<"working", n>>] > 0
    BY <2>1 DEF Leaves
  <2>3. /\ Grows(mails) /\ \A o \in Notifications : o # m => mails'[o] = mails[o]
        /\ Grows(failures) /\ n + 1 <= failures'[m] /\ failures'[m] \in Nat
        /\ faults' \in 0..MaxFaults
    BY <1>4, <1>7a, <1>13, <2>2 DEF DeadLetter, Places
  <2>4. failures'[m] > MaxRetries
    BY <1>3, <1>13, <2>3 DEF DeadLetter, RetriesLeft
  <2>5. Grows(dead) /\ dead'[m] > 0 /\ \A o \in Notifications : o # m => dead'[o] = dead[o]
    BY <1>7, <1>13 DEF DeadLetter
  <2> QED
    BY <1>2, <1>13, <2>1, <2>3, <2>4, <2>5, MoveKeepsInv DEF DeadLetter, Grows, Places
<1>14. CASE RetryExpires(m, n)
  <2>1. Leaves(m, "parked", n, {<<"ready", n>>})
    BY <1>14 DEF RetryExpires
  <2>2. copies[m][<<"parked", n>>] > 0
    BY <2>1 DEF Leaves
  <2>3. <<"ready", n>> \in Spots /\ <<"ready", n>> # <<"parked", n>> /\ n <= failures[m]
    BY <1>4, <2>2 DEF Places
  <2> QED
    BY <1>2, <1>14, <2>1, <2>3, MoveKeepsInv DEF RetryExpires, Grows, Places
<1> QED
  BY <1>8, <1>9, <1>10, <1>11, <1>12, <1>13, <1>14 DEF MessageStep

LEMMA FaultsKeepInv ==
  ASSUME QueueInv,
         \/ ConnectionLost \/ NotifierCrash
         \/ \E m \in Notifications : StaleHandlerEnds(m)
  PROVE  QueueInv'
<1>1. TypeOK
  BY DEF QueueInv
<1>2. Requeue /\ published' = published /\ dead' = dead
  BY DEF ConnectionLost, NotifierCrash, StaleHandlerEnds, ProcessLost
<1>3. copies' \in [Notifications -> [Spots -> Nat]]
  BY <1>1, <1>2, RequeueMoves
<1>4. notifier' \in {"reconnecting", "down"}
  BY DEF ConnectionLost, NotifierCrash, StaleHandlerEnds, ProcessLost
<1>5. stale' \in [Notifications -> SUBSET Running]
  BY DEF ConnectionLost, NotifierCrash, StaleHandlerEnds, ProcessLost
<1>6. faults' \in 0..MaxFaults
  BY <1>1, FaultAssumption DEF TypeOK, ConnectionLost, NotifierCrash, StaleHandlerEnds
<1>7. Grows(mails) /\ Grows(failures)
  <2>1. mails \in [Notifications -> Nat] /\ failures \in [Notifications -> Nat]
    BY <1>1 DEF TypeOK
  <2>2. CASE ConnectionLost \/ NotifierCrash
    BY <2>1, <2>2 DEF ConnectionLost, NotifierCrash, Grows
  <2>3. CASE \E m \in Notifications : StaleHandlerEnds(m)
    <3>1. PICK m \in Notifications : StaleHandlerEnds(m)
      BY <2>3
    <3>2. /\ mails' = mails \/ mails' = Counted(mails, m, 2)
          /\ failures' = failures \/ failures' = Counted(failures, m, MaxRetries + 1)
      BY <3>1 DEF StaleHandlerEnds
    <3>3. MaxRetries + 1 \in Nat
      BY RetryAssumption
    <3>4. ASSUME NEW counter \in [Notifications -> Nat], NEW cap \in Nat
          PROVE  /\ Counted(counter, m, cap) \in [Notifications -> Nat]
                 /\ \A o \in Notifications : Counted(counter, m, cap)[o] >= counter[o]
      BY CountedCounts
    <3>5. /\ mails' \in [Notifications -> Nat]
          /\ \A o \in Notifications : mails'[o] >= mails[o]
      BY <2>1, <3>2, <3>4
    <3>6. /\ failures' \in [Notifications -> Nat]
          /\ \A o \in Notifications : failures'[o] >= failures[o]
      BY <2>1, <3>2, <3>3, <3>4
    <3> QED
      BY <3>5, <3>6 DEF Grows
  <2> QED
    BY <2>2, <2>3
<1>8. TypeOK'
  BY <1>1, <1>2, <1>3, <1>4, <1>5, <1>6, <1>7 DEF TypeOK, Spots, Grows
<1>9. ASSUME NEW m \in Notifications, stale'[m] # {} \/ mails'[m] > 0
      PROVE  Held(m) \/ stale[m] # {} \/ mails[m] > 0
  <2>1. CASE ConnectionLost
    <3>1. mails' = mails /\ stale'[m] = {p \in Running : \E n \in Counts : copies[m][<<p, n>>] > 0}
      BY <2>1 DEF ConnectionLost
    <3> QED
      BY <1>9, <3>1 DEF Held, Running, Places
  <2>2. CASE NotifierCrash
    BY <1>9, <2>2 DEF NotifierCrash, ProcessLost
  <2>3. CASE \E o \in Notifications : StaleHandlerEnds(o)
    <3>1. PICK o \in Notifications : StaleHandlerEnds(o)
      BY <2>3
    <3>2. stale'[m] = {} /\ stale[o] # {}
      BY <3>1 DEF StaleHandlerEnds, ProcessLost
    <3>3. o # m => mails'[m] = mails[m]
      <4>1. mails' = mails \/ mails' = Counted(mails, o, 2)
        BY <3>1 DEF StaleHandlerEnds
      <4>2. mails \in [Notifications -> Nat] /\ 2 \in Nat
        BY <1>1 DEF TypeOK
      <4> QED
        BY <4>1, <4>2, CountedCounts
    <3> QED
      BY <1>9, <3>2, <3>3
  <2> QED
    BY <2>1, <2>2, <2>3
<1> QED
  BY <1>2, <1>7, <1>8, <1>9, RequeueKeepsInv

LEMMA StepKeepsInv == QueueInv /\ [Next]_vars => QueueInv'
<1> SUFFICES ASSUME QueueInv, [Next]_vars
             PROVE  QueueInv'
  OBVIOUS
<1>1. ASSUME UNCHANGED <<published, copies, stale, mails, failures, dead>>, TypeOK'
      PROVE  QueueInv'
  BY <1>1 DEF QueueInv, CountsFailures, InFlightIsSafe, NeverLost, OnlyPublished,
              Held, DeadOnlyAfterRetries
<1>2. CASE Reconnect \/ Restart
  <2>1. TypeOK'
    BY <1>2 DEF QueueInv, TypeOK, Reconnect, Restart
  <2> QED
    BY <1>1, <1>2, <2>1 DEF Reconnect, Restart
<1>3. CASE UNCHANGED vars
  <2>1. TypeOK'
    BY <1>3 DEF QueueInv, TypeOK, vars
  <2> QED
    BY <1>1, <1>3, <2>1 DEF vars
<1> QED
  BY <1>2, <1>3, MessageStepKeepsInv, FaultsKeepInv, ArriveKeepsInv DEF Next, Publish

-----------------------------------------------------------------------------
\* Retry counts and copies in flight agree with failures and mails, whatever a
\* fault interrupts or duplicates.
LEMMA QueueInvariant == Spec => []QueueInv
BY InitialState, StepKeepsInv, PTL DEF Spec

-----------------------------------------------------------------------------
(* Without faults every publication is at one place until it ends. *)

\* What leaves an open place for another one, or for an outcome, takes its
\* publication with it.
LEMMA StillFollowed ==
  ASSUME NEW m, NEW p \in Open \cup {Ended}, NEW q \in Open \cup {Ended}, Accounted(m, p, q)'
  PROVE  Followed(m)'
BY DEF Followed, Open, Ended

LEMMA OpenMove ==
  ASSUME TypeOK, NEW m \in Notifications, NEW place \in {"ready", "working", "parked"},
         NEW n \in Counts, NEW to, Leaves(m, place, n, to),
         NEW next \in Open \cup {Ended}, next # <<place, n>>,
         \A r \in Open : r \in to => r = next,
         mails' \in [Notifications -> Nat], dead' \in [Notifications -> Nat],
         mails'[m] + dead'[m] + One(next # Ended) <= mails[m] + dead[m] + 1,
         UNCHANGED published,
         NEW p \in Open \cup {Ended}, NEW q \in Open \cup {Ended}, Accounted(m, p, q)
  PROVE  Followed(m)'
<1> DEFINE spot == <<place, n>>
<1>1. Open \subseteq Spots /\ spot \in Open /\ spot # Ended
  BY DEF Open, Spots, Places, Ended
<1>2. /\ \A r \in Open : r # spot => copies'[m][r] = copies[m][r] \/ (r = next /\ copies'[m][r] = copies[m][r] + 1)
      /\ copies'[m][spot] < copies[m][spot]
      /\ copies[m][spot] > 0
      /\ \A r \in Open : copies[m][r] \in Nat /\ copies'[m][r] \in Nat
  <2>1. place \in Places
    BY DEF Places
  <2>2. copies \in [Notifications -> [Spots -> Nat]]
    BY DEF TypeOK, Spots
  <2>3. /\ copies' \in [Notifications -> [Spots -> Nat]]
        /\ \A r \in Spots : r # spot /\ r \notin to => copies'[m][r] = copies[m][r]
        /\ \A r \in Spots : r # spot /\ r \in to => copies'[m][r] = copies[m][r] + 1
        /\ copies'[m][spot] < copies[m][spot]
        /\ copies[m][spot] > 0
    BY <2>1, LeavesMoves
  <2> QED
    BY <1>1, <2>2, <2>3
<1>3. /\ \A r \in Open : copies[m][r] <= One(r = p) + One(r = q)
      /\ mails[m] + dead[m] + One(p # Ended) + One(q # Ended) <= published[m]
      /\ mails[m] \in Nat /\ dead[m] \in Nat /\ published[m] \in Nat
      /\ mails'[m] \in Nat /\ dead'[m] \in Nat
  BY DEF Accounted, TypeOK
<1>4. spot = p \/ spot = q
  BY <1>1, <1>2, <1>3 DEF One
<1>5. ASSUME NEW other \in Open \cup {Ended},
             \A r \in Open : copies[m][r] <= One(r = spot) + One(r = other),
             mails[m] + dead[m] + 1 + One(other # Ended) <= published[m]
      PROVE  Accounted(m, next, other)'
  <2>1. ASSUME NEW r \in Open PROVE copies'[m][r] <= One(r = next) + One(r = other)
    <3>1. copies[m][r] <= One(r = spot) + One(r = other)
      BY <1>5
    <3>2. CASE r = spot
      BY <1>2, <3>1, <3>2 DEF One
    <3>3. CASE r # spot
      BY <1>2, <3>1, <3>3 DEF One
    <3> QED
      BY <3>2, <3>3
  <2>2. mails'[m] + dead'[m] + One(next # Ended) + One(other # Ended) <= published[m]
    <3>1. One(next # Ended) \in Nat /\ One(other # Ended) \in Nat
      BY DEF One
    <3> QED
      BY <1>3, <1>5, <3>1
  <2> QED
    BY <2>1, <2>2 DEF Accounted, One
<1>6. CASE spot = p
  <2>1. Accounted(m, next, q)'
    BY <1>1, <1>3, <1>5, <1>6 DEF One
  <2> QED
    BY <2>1, StillFollowed
<1>7. CASE spot = q
  <2>1. /\ \A r \in Open : copies[m][r] <= One(r = spot) + One(r = p)
        /\ mails[m] + dead[m] + 1 + One(p # Ended) <= published[m]
    BY <1>1, <1>3, <1>7 DEF One
  <2>2. Accounted(m, next, p)'
    BY <1>5, <2>1
  <2> QED
    BY <2>2, StillFollowed
<1> QED
  BY <1>4, <1>6, <1>7

\* Nothing else of m, and of no other message, is touched by such a move.
LEMMA OthersAccounted ==
  ASSUME NEW o \in Notifications, NEW p, NEW q, Accounted(o, p, q),
         \A r \in Open : copies'[o][r] = copies[o][r],
         mails'[o] = mails[o], dead'[o] = dead[o], published'[o] = published[o]
  PROVE  Accounted(o, p, q)'
BY DEF Accounted, Open, One, Ended

\* Every step of processMessage and handleRetry moves one publication.
LEMMA MessageStepAccounts ==
  ASSUME TypeOK, NoDuplicates, faults = 0,
         NEW m \in Notifications, NEW n \in Counts, MessageStep(m, n), faults' = 0
  PROVE  NoDuplicates'
<1>1. UNCHANGED <<published, stale, faults>>
  BY DEF MessageStep, RejectInvalid, Deliver, MailAccepted, Ack, Park, DeadLetter, RetryExpires
<1>1a. ASSUME SendFails(m) PROVE mails' = mails
  BY <1>1a DEF SendFails
<1>2. /\ mails \in [Notifications -> Nat] /\ dead \in [Notifications -> Nat]
      /\ copies \in [Notifications -> [Spots -> Nat]]
  BY DEF TypeOK, Spots
<1>3. \A o \in Notifications : stale[o] = {} /\ Followed(o)
  BY DEF NoDuplicates
<1>3a. PICK place \in Places : \E to : Leaves(m, place, n, to)
  BY DEF MessageStep, RejectInvalid, Deliver, MailAccepted, Ack, Park, DeadLetter, RetryExpires, Places
<1>4. PICK to : Leaves(m, place, n, to)
  BY <1>3a
<1>5. \A o \in Notifications : o # m => copies'[o] = copies[o]
  BY <1>4, LeavesMoves
<1>6. /\ mails' = mails \/ mails' = Counted(mails, m, 2)
      /\ dead' = dead \/ dead' = [dead EXCEPT ![m] = @ + 1]
  BY <1>1a DEF MessageStep, RejectInvalid, Deliver, MailAccepted, Ack, Park, DeadLetter, RetryExpires
<1>7. /\ mails' \in [Notifications -> Nat] /\ dead' \in [Notifications -> Nat]
      /\ \A o \in Notifications : o # m => mails'[o] = mails[o] /\ dead'[o] = dead[o]
      /\ mails'[m] = mails[m] \/ mails'[m] = mails[m] + 1
      /\ dead'[m] = dead[m] \/ dead'[m] = dead[m] + 1
  <2>1. /\ mails' \in [Notifications -> Nat]
        /\ \A o \in Notifications : o # m => mails'[o] = mails[o]
        /\ mails'[m] = mails[m] \/ mails'[m] = mails[m] + 1
    BY <1>2, <1>6 DEF Counted
  <2>2. /\ dead' \in [Notifications -> Nat]
        /\ \A o \in Notifications : o # m => dead'[o] = dead[o]
        /\ dead'[m] = dead[m] \/ dead'[m] = dead[m] + 1
    BY <1>2, <1>6
  <2> QED
    BY <2>1, <2>2
<1>8. ASSUME NEW o \in Notifications, o # m PROVE Followed(o)'
  <2>1. PICK p \in Open \cup {Ended}, q \in Open \cup {Ended} : Accounted(o, p, q)
    BY <1>3 DEF Followed
  <2>2. Accounted(o, p, q)'
    BY <1>1, <1>5, <1>7, <1>8, <2>1, OthersAccounted
  <2> QED
    BY <2>1, <2>2, StillFollowed
<1>9. PICK p \in Open \cup {Ended}, q \in Open \cup {Ended} : Accounted(m, p, q)
  BY <1>3 DEF Followed
<1>10. ASSUME NEW from \in {"ready", "working", "parked"}, NEW dst, Leaves(m, from, n, dst),
              NEW next \in Open \cup {Ended}, next # <<from, n>>,
              \A r \in Open : r \in dst => r = next,
              mails'[m] + dead'[m] + One(next # Ended) <= mails[m] + dead[m] + 1
       PROVE  Followed(m)'
  BY <1>1, <1>7, <1>9, <1>10, OpenMove
<1>11. /\ mails[m] \in Nat /\ dead[m] \in Nat /\ n \in Nat
       /\ <<"working", n>> \in Open /\ <<"ready", n>> \in Open /\ Ended \notin Open
  BY <1>2, RetryAssumption DEF Open, Ended, Counts
<1>12. ASSUME RejectInvalid(m, n) PROVE Followed(m)'
  <2>1. Leaves(m, "ready", n, {}) /\ mails' = mails /\ dead'[m] = dead[m] + 1
    BY <1>2, <1>12 DEF RejectInvalid
  <2>2. mails'[m] + dead'[m] + One(Ended # Ended) <= mails[m] + dead[m] + 1
    BY <1>11, <2>1 DEF One
  <2> QED
    BY <1>10, <1>11, <2>1, <2>2
<1>13. ASSUME Deliver(m, n) PROVE Followed(m)'
  <2>1. Leaves(m, "ready", n, {<<"working", n>>}) /\ UNCHANGED <<mails, dead>>
    BY <1>13 DEF Deliver
  <2>2. mails'[m] + dead'[m] + One(<<"working", n>> # Ended) <= mails[m] + dead[m] + 1
    BY <1>11, <2>1 DEF One
  <2> QED
    BY <1>10, <1>11, <2>1, <2>2
<1>14. ASSUME MailAccepted(m, n) PROVE Followed(m)'
  <2>1. Leaves(m, "working", n, {<<"mailed", n>>}) /\ dead' = dead /\ <<"mailed", n>> \notin Open
    BY <1>14 DEF MailAccepted, Open
  <2>2. mails'[m] + dead'[m] + One(Ended # Ended) <= mails[m] + dead[m] + 1
    BY <1>7, <1>11, <2>1 DEF One
  <2> QED
    BY <1>10, <1>11, <2>1, <2>2
<1>15. ASSUME Ack(m, n) PROVE Followed(m)'
  <2>1. UNCHANGED <<mails, dead>>
    BY <1>15 DEF Ack
  <2>2. Leaves(m, "mailed", n, {}) \/ Leaves(m, "copied", n, {})
    BY <1>15 DEF Ack
  <2>3. \A r \in Open : r # <<"mailed", n>> /\ r # <<"copied", n>> /\ r \in Spots
    BY DEF Open, Spots, Places
  <2>4. \A r \in Open : copies'[m][r] = copies[m][r]
    <3>1. PICK from \in {"mailed", "copied"}, none \in {{}} : Leaves(m, from, n, none)
      BY <2>2
    <3>2. from \in Places
      BY DEF Places
    <3>3. \A r \in Spots : r # <<from, n>> /\ r \notin none => copies'[m][r] = copies[m][r]
      BY <3>1, <3>2, LeavesMoves
    <3> QED
      BY <2>3, <3>3
  <2>5. Accounted(m, p, q)'
    BY <1>1, <1>9, <2>1, <2>4, OthersAccounted
  <2> QED
    BY <1>9, <2>5, StillFollowed
<1>16. ASSUME Park(m, n) PROVE Followed(m)'
  <2>1. Leaves(m, "working", n, {<<"copied", n>>, <<"parked", n + 1>>}) /\ UNCHANGED <<mails, dead>>
    BY <1>1a, <1>16 DEF Park, CopyBeforeAck
  <2>2. <<"copied", n>> \notin Open /\ <<"parked", n + 1>> \in Open
    BY <1>16, RetryAssumption DEF Park, RetriesLeft, Open, Counts
  <2>3. mails'[m] + dead'[m] + One(<<"parked", n + 1>> # Ended) <= mails[m] + dead[m] + 1
    BY <1>11, <2>1, <2>2 DEF One
  <2> QED
    BY <1>10, <1>11, <2>1, <2>2, <2>3
<1>17. ASSUME DeadLetter(m, n) PROVE Followed(m)'
  <2>1. Leaves(m, "working", n, {}) /\ mails' = mails
    BY <1>1a, <1>17 DEF DeadLetter
  <2>2. mails'[m] + dead'[m] + One(Ended # Ended) <= mails[m] + dead[m] + 1
    BY <1>7, <1>11, <2>1 DEF One
  <2> QED
    BY <1>10, <1>11, <2>1, <2>2
<1>18. ASSUME RetryExpires(m, n) PROVE Followed(m)'
  <2>1. Leaves(m, "parked", n, {<<"ready", n>>}) /\ UNCHANGED <<mails, dead>>
    BY <1>18 DEF RetryExpires
  <2>2. mails'[m] + dead'[m] + One(<<"ready", n>> # Ended) <= mails[m] + dead[m] + 1
    BY <1>11, <2>1 DEF One
  <2> QED
    BY <1>10, <1>11, <2>1, <2>2
<1>19. Followed(m)'
  BY <1>12, <1>13, <1>14, <1>15, <1>16, <1>17, <1>18 DEF MessageStep
<1>20. \A o \in Notifications : Followed(o)'
  BY <1>8, <1>19
<1> QED
  BY <1>1, <1>3, <1>20 DEF NoDuplicates

\* What is published is at the main queue, in the place of a publication that
\* has not been made before.
LEMMA ArriveAccounts ==
  ASSUME TypeOK, NoDuplicates, NEW M, Arrive(M),
         \A m \in Notifications : m \in M => published[m] < 2
  PROVE  NoDuplicates'
<1> SUFFICES ASSUME faults = 0, NEW m \in Notifications
             PROVE  stale[m] = {} /\ Followed(m)'
  BY DEF Arrive, NoDuplicates
<1> DEFINE first == <<"ready", 0>>
<1>1. stale[m] = {} /\ UNCHANGED <<mails, dead>>
  BY DEF NoDuplicates, Arrive
<1>2. PICK p \in Open \cup {Ended}, q \in Open \cup {Ended} : Accounted(m, p, q)
  BY DEF NoDuplicates, Followed
<1>3. /\ copies \in [Notifications -> [Spots -> Nat]] /\ Open \subseteq Spots
      /\ first \in Open /\ first # Ended /\ Ended \notin Open
  <2>1. copies \in [Notifications -> [Spots -> Nat]]
    BY DEF TypeOK, Spots
  <2>2. Open \subseteq Spots
    BY DEF Spots, Places, Open
  <2> QED
    BY <2>1, <2>2, RetryAssumption DEF Open, Counts, Ended
<1>4. \A r \in Open : /\ copies[m][r] \in Nat
                      /\ copies'[m][r] = IF m \in M /\ r = first THEN copies[m][r] + 1
                                         ELSE copies[m][r]
  BY <1>3 DEF Arrive, Spots
<1>5. CASE m \notin M
  <2>1. published'[m] = published[m]
    BY <1>5 DEF Arrive
  <2>2. Accounted(m, p, q)'
    BY <1>1, <1>2, <1>4, <1>5, <2>1, OthersAccounted
  <2> QED
    BY <1>1, <1>2, <2>2, StillFollowed
<1>6. CASE m \in M
  <2>1. /\ published[m] \in 0..1 /\ published'[m] = published[m] + 1
        /\ mails[m] \in Nat /\ dead[m] \in Nat
    BY <1>6 DEF TypeOK, Arrive
  <2>2. /\ \A r \in Open : copies[m][r] <= One(r = p) + One(r = q)
        /\ mails[m] + dead[m] + One(p # Ended) + One(q # Ended) <= published[m]
    BY <1>2 DEF Accounted
  <2>3. CASE p = Ended
    <3>1. \A r \in Open : copies'[m][r] <= One(r = first) + One(r = q)
      <4> SUFFICES ASSUME NEW r \in Open PROVE copies'[m][r] <= One(r = first) + One(r = q)
        BY DEF One
      <4>1. copies[m][r] <= One(r = q) /\ copies[m][r] \in Nat
        BY <1>3, <1>4, <2>2, <2>3 DEF One
      <4>2. copies'[m][r] = copies[m][r] + One(r = first)
        BY <1>4, <1>6 DEF One
      <4> QED
        BY <4>1, <4>2 DEF One
    <3>2. mails[m] + dead[m] + One(first # Ended) + One(q # Ended) <= published'[m]
      BY <1>3, <2>1, <2>2, <2>3 DEF One
    <3>3. Accounted(m, first, q)'
      BY <1>1, <3>1, <3>2 DEF Accounted, One
    <3> QED
      BY <1>1, <1>3, <3>3, StillFollowed
  <2>4. CASE q = Ended
    <3>1. \A r \in Open : copies'[m][r] <= One(r = p) + One(r = first)
      <4> SUFFICES ASSUME NEW r \in Open PROVE copies'[m][r] <= One(r = p) + One(r = first)
        BY DEF One
      <4>1. copies[m][r] <= One(r = p) /\ copies[m][r] \in Nat
        BY <1>3, <1>4, <2>2, <2>4 DEF One
      <4>2. copies'[m][r] = copies[m][r] + One(r = first)
        BY <1>4, <1>6 DEF One
      <4> QED
        BY <4>1, <4>2 DEF One
    <3>2. mails[m] + dead[m] + One(p # Ended) + One(first # Ended) <= published'[m]
      BY <1>3, <2>1, <2>2, <2>4 DEF One
    <3>3. Accounted(m, p, first)'
      BY <1>1, <3>1, <3>2 DEF Accounted, One
    <3> QED
      BY <1>1, <1>3, <3>3, StillFollowed
  <2>5. p = Ended \/ q = Ended
    BY <2>1, <2>2 DEF One
  <2> QED
    BY <2>3, <2>4, <2>5
<1> QED
  BY <1>5, <1>6

LEMMA NothingDuplicated == Init => NoDuplicates
<1> SUFFICES ASSUME Init, NEW m \in Notifications
             PROVE  stale[m] = {} /\ Followed(m)
  BY DEF NoDuplicates
<1>1. \A r \in Open : copies[m][r] = 0
  BY DEF Init, Open, Places
<1>2. Accounted(m, Ended, Ended)
  BY <1>1 DEF Init, Accounted, One
<1> QED
  BY <1>2 DEF Init, Followed

\* A fault ends the case; without one no handler is stale.
LEMMA StepAccounts == TypeOK /\ NoDuplicates /\ [Next]_vars => NoDuplicates'
<1> SUFFICES ASSUME TypeOK, NoDuplicates, [Next]_vars, faults' = 0
             PROVE  NoDuplicates'
  BY DEF NoDuplicates
<1>1. faults \in Nat
  BY FaultAssumption DEF TypeOK
<1>2. ~ ConnectionLost /\ ~ NotifierCrash
  BY <1>1 DEF ConnectionLost, NotifierCrash
<1>3. ASSUME NEW m \in Notifications, StaleHandlerEnds(m) PROVE FALSE
  BY <1>3 DEF StaleHandlerEnds, NoDuplicates
<1>4. ASSUME NEW m \in Notifications, Publish(m) PROVE NoDuplicates'
  <2>1. Arrive({m}) /\ published[m] < 2
    BY <1>4, PublishedAssumption DEF Publish, TypeOK
  <2> QED
    BY <2>1, ArriveAccounts
<1>5. ASSUME NEW m \in Notifications, NEW n \in Counts, MessageStep(m, n) PROVE NoDuplicates'
  <2>1. faults = 0
    BY <1>1, <1>5 DEF MessageStep, RejectInvalid, Deliver, MailAccepted, Ack, Park, DeadLetter,
                      SendFails, RetryExpires
  <2> QED
    BY <1>5, <2>1, MessageStepAccounts
<1>6. CASE Reconnect \/ Restart \/ UNCHANGED vars
  BY <1>6 DEF Reconnect, Restart, vars, NoDuplicates, Followed, Accounted
<1> QED
  BY <1>2, <1>3, <1>4, <1>5, <1>6 DEF Next

-----------------------------------------------------------------------------
\* Copies, counts and outcomes agree, whatever a fault interrupts; and without
\* one every publication is at one place of the queues until it ends.
THEOREM DeliveryInvariant == Spec => []DeliveryInv
<1>1. QueueInv => TypeOK
  BY DEF QueueInv
<1> QED
  BY <1>1, NothingDuplicated, StepAccounts, QueueInvariant, PTL DEF Spec, DeliveryInv

\* No notification that reached the broker is ever lost (N1).
COROLLARY NothingIsLost == Spec => []NeverLost
<1>1. QueueInv => NeverLost
  BY DEF QueueInv
<1> QED
  BY <1>1, QueueInvariant, PTL

\* No valid message is quarantined before its MaxRetries retries failed.
COROLLARY QuarantinedLast == Spec => []DeadOnlyAfterRetries
<1>1. QueueInv => DeadOnlyAfterRetries
  BY DEF QueueInv
<1> QED
  BY <1>1, QueueInvariant, PTL

\* Without a lost connection or a crash, what is published once is mailed or
\* quarantined once: at most one mail, and none that is also reported dead.
COROLLARY OneOutcome == Spec => []OneOutcomeWithoutFaults
<1>1. TypeOK /\ NoDuplicates => OneOutcomeWithoutFaults
  <2> SUFFICES ASSUME TypeOK, NoDuplicates, faults = 0, NEW m \in Notifications
               PROVE  mails[m] + dead[m] <= published[m]
    BY DEF OneOutcomeWithoutFaults
  <2>1. PICK p \in Open \cup {Ended}, q \in Open \cup {Ended} : Accounted(m, p, q)
    BY DEF NoDuplicates, Followed
  <2>2. mails[m] \in Nat /\ dead[m] \in Nat /\ published[m] \in Nat
    BY DEF TypeOK
  <2> QED
    BY <2>1, <2>2 DEF Accounted, One
<1>2. DeliveryInv => TypeOK /\ NoDuplicates
  BY DEF DeliveryInv, QueueInv
<1> QED
  BY <1>1, <1>2, DeliveryInvariant, PTL
=============================================================================
