------------------------- MODULE SubscribeSagaProofs -------------------------
(***************************************************************************)
(* Theorems about SubscribeSaga, for every set of sagas, both transports   *)
(* and every bound on deliveries, crashes and failed statements: the type  *)
(* invariant, the inductive invariant SagaInv, the safety properties it    *)
(* contains, and the implementation of SubscribeContract.                  *)
(***************************************************************************)
EXTENDS SubscribeSaga, TLAPS

-----------------------------------------------------------------------------
\* Every step of the orchestrator, the notifier, the recovery and the users
\* keeps the variables in their types.
THEOREM TypeCorrect == Spec => []TypeOK
<1> USE PairOfAssumption, TransportAssumption, BoundsAssumption
<1> USE DEF TypeOK, Live, Unacked, SagaStatus, Deliveries
<1>1. Init => TypeOK
  BY DEF Init
<1>2. TypeOK /\ [Next]_vars => TypeOK'
  <2> SUFFICES ASSUME TypeOK, [Next]_vars PROVE TypeOK'
    OBVIOUS
  <2> USE DEF apiVars, dbVars, execVars, brokerVars, userVars, faultVars
  <2>1. ASSUME NEW s \in Sagas, CreateSubscription(s) PROVE TypeOK'
    BY <2>1 DEF CreateSubscription, UpdateStatus, GoTo
  <2>2. ASSUME NEW s \in Sagas, RefuseSubscription(s) PROVE TypeOK'
    BY <2>2 DEF RefuseSubscription, Finish
  <2>3. ASSUME NEW s \in Sagas, PublishCommand(s) PROVE TypeOK'
    BY <2>3 DEF PublishCommand, GoTo
  <2>4. ASSUME NEW s \in Sagas, PublishCommandThrows(s) PROVE TypeOK'
    BY <2>4 DEF PublishCommandThrows, GoTo
  <2>5. ASSUME NEW s \in Sagas, MarkAwaiting(s) PROVE TypeOK'
    <3>1. CASE Transport = "queue"
      BY <2>5, <3>1 DEF MarkAwaiting, UpdateStatus, GoTo
    <3>2. CASE Transport = "grpc"
      BY <2>5, <3>2 DEF MarkAwaiting, UpdateStatus, GoTo
    <3> QED
      BY <3>1, <3>2
  <2>6. ASSUME NEW s \in Sagas, ReplyTimeout(s) PROVE TypeOK'
    BY <2>6 DEF ReplyTimeout, Settle
  <2>7. ASSUME NEW s \in Sagas, GrpcReturns(s) PROVE TypeOK'
    BY <2>7 DEF GrpcReturns, GoTo, AfterCall
  <2>8. ASSUME NEW s \in Sagas, GrpcAmbiguous(s) PROVE TypeOK'
    BY <2>8 DEF GrpcAmbiguous, Finish
  <2>9. ASSUME NEW s \in Sagas, Complete(s) PROVE TypeOK'
    BY <2>9 DEF Complete, UpdateStatus, Finish
  <2>10. ASSUME NEW s \in Sagas, MarkCompensating(s) PROVE TypeOK'
    BY <2>10 DEF MarkCompensating, UpdateStatus, GoTo
  <2>11. ASSUME NEW s \in Sagas, FinishCompensation(s) PROVE TypeOK'
    BY <2>11 DEF FinishCompensation, Finish, CompensationTx, UpdateStatus
  <2>12. ASSUME NEW s \in Sagas, RequestDbFailure(s) PROVE TypeOK'
    BY <2>12 DEF RequestDbFailure, Finish
  <2>13. ASSUME NEW s \in Sagas, UnhandledTimeout(s) PROVE TypeOK'
    BY <2>13 DEF UnhandledTimeout, ProcessLost
  <2>14. ASSUME NEW s \in Sagas, DeliverCommand(s) PROVE TypeOK'
    BY <2>14 DEF DeliverCommand
  <2>15. ASSUME NEW s \in Sagas, MailAccepted(s) PROVE TypeOK'
    BY <2>15 DEF MailAccepted
  <2>16. ASSUME NEW s \in Sagas, MailRejected(s) PROVE TypeOK'
    BY <2>16 DEF MailRejected
  <2>17. ASSUME NEW s \in Sagas, PublishReply(s) PROVE TypeOK'
    <3>1. PICK fate \in {"queued", "lost"} : replyAt' = [replyAt EXCEPT ![s][tries[s]] = fate]
      BY <2>17 DEF PublishReply
    <3>2. replyAt' \in [Sagas -> [Deliveries ->
                           {"none", "queued", "lost", "looked", "marked", "acked", "dead"}]]
      BY <3>1
    <3> QED
      BY <2>17, <3>2 DEF PublishReply, ReplyFor
  <2>18. ASSUME NEW s \in Sagas, AckCommand(s) PROVE TypeOK'
    BY <2>18 DEF AckCommand
  <2>19. ASSUME NEW s \in Sagas, ConfirmFind(s) PROVE TypeOK'
    BY <2>19 DEF ConfirmFind, FindByToken
  <2>20. ASSUME NEW s \in Sagas, ConfirmWrite(s) PROVE TypeOK'
    BY <2>20 DEF ConfirmWrite, SetConfirmed
  <2>21. ASSUME NEW s \in Sagas, UnsubscribeFind(s) PROVE TypeOK'
    BY <2>21 DEF UnsubscribeFind, FindByToken
  <2>22. ASSUME NEW s \in Sagas, UnsubscribeWrite(s) PROVE TypeOK'
    BY <2>22 DEF UnsubscribeWrite
  <2>23. ASSUME NEW s \in Sagas, RecoverMark(s) PROVE TypeOK'
    BY <2>23 DEF RecoverMark, UpdateStatusIfCurrent
  <2>24. ASSUME NEW s \in Sagas, RecoverCompensate(s) PROVE TypeOK'
    BY <2>24 DEF RecoverCompensate, CompensationTx, UpdateStatus
  <2>25. ASSUME NEW s \in Sagas, NEW k \in Deliveries, ResolveReply(s, k)
       PROVE TypeOK'
    BY <2>25 DEF ResolveReply, Settle
  <2>26. ASSUME NEW s \in Sagas, NEW k \in Deliveries, OrphanLookup(s, k)
       PROVE TypeOK'
    BY <2>26 DEF OrphanLookup
  <2>27. ASSUME NEW s \in Sagas, NEW k \in Deliveries, OrphanSuccess(s, k)
       PROVE TypeOK'
    BY <2>27 DEF OrphanSuccess, UpdateStatusIfCurrent
  <2>28. ASSUME NEW s \in Sagas, NEW k \in Deliveries, OrphanFailure(s, k)
       PROVE TypeOK'
    BY <2>28 DEF OrphanFailure, UpdateStatusIfCurrent
  <2>29. ASSUME NEW s \in Sagas, NEW k \in Deliveries, OrphanCompensate(s, k)
       PROVE TypeOK'
    BY <2>29 DEF OrphanCompensate, CompensationTx, UpdateStatus
  <2>30. ASSUME NEW s \in Sagas, NEW k \in Deliveries, OrphanDbFailure(s, k)
       PROVE TypeOK'
    BY <2>30 DEF OrphanDbFailure
  <2>31. CASE StartApi
    BY <2>31 DEF StartApi
  <2>32. CASE ListAwaiting
    BY <2>32 DEF ListAwaiting, ListSagas, FindByStatus
  <2>33. CASE ListCompensating
    BY <2>33 DEF ListCompensating, ListSagas, FindByStatus, PassOver
  <2>34. CASE Serve
    BY <2>34 DEF Serve, PassOver
  <2>35. CASE RecoveryDbFailure
    BY <2>35 DEF RecoveryDbFailure, ProcessLost
  <2>36. CASE ApiCrash
    BY <2>36 DEF ApiCrash, ProcessLost
  <2>37. CASE NotifierCrash
    BY <2>37 DEF NotifierCrash
  <2>38. CASE UNCHANGED vars
    BY <2>38 DEF vars
  <2>39. QED
    BY <2>1, <2>2, <2>3, <2>4, <2>5, <2>6, <2>7, <2>8, <2>9, <2>10, <2>11,
         <2>12, <2>13, <2>14, <2>15, <2>16, <2>17, <2>18, <2>19, <2>20, <2>21,
         <2>22, <2>23, <2>24, <2>25, <2>26, <2>27, <2>28, <2>29, <2>30, <2>31,
         <2>32, <2>33, <2>34, <2>35, <2>36, <2>37, <2>38 DEF Next,
         RequestStep, NotifierStep, UserStep, ReplyStep, StartupStep
<1>3. QED
  BY <1>1, <1>2, PTL DEF Spec

-----------------------------------------------------------------------------
\* The inductive invariant: what the orchestrator's reply handlers, its
\* timer, the recovery and execute() may each assume of the others when they
\* run their next statement.
LEMMA AlwaysConsistent == Spec => []Consistent
<1> USE PairOfAssumption, TransportAssumption, BoundsAssumption
<1> USE DEF Live, Deliveries, Consistent, Begun, MailKnown, RecoveryComplete,
            FailedIsOver, FailedMeansRemoved, CompletedMeansMailed,
            CompensatedRowIsGone, RecoveredSagasSettled
<1>1. Init => Consistent
  BY DEF Init
<1>2. TypeOK /\ Consistent /\ [Next]_vars => Consistent'
  <2> SUFFICES ASSUME TypeOK, Consistent, [Next]_vars PROVE Consistent'
    OBVIOUS
  <2> USE DEF TypeOK, Unacked, SagaStatus, apiVars, dbVars, execVars,
              brokerVars, userVars, faultVars
  <2>1. ASSUME NEW s \in Sagas, CreateSubscription(s) PROVE Consistent'
    BY <2>1 DEF CreateSubscription, UpdateStatus, GoTo
  <2>2. ASSUME NEW s \in Sagas, RefuseSubscription(s) PROVE Consistent'
    BY <2>2 DEF RefuseSubscription, Finish
  <2>3. ASSUME NEW s \in Sagas, PublishCommand(s) PROVE Consistent'
    BY <2>3 DEF PublishCommand, GoTo
  <2>4. ASSUME NEW s \in Sagas, PublishCommandThrows(s) PROVE Consistent'
    BY <2>4 DEF PublishCommandThrows, GoTo
  <2>5. ASSUME NEW s \in Sagas, MarkAwaiting(s) PROVE Consistent'
    BY <2>5 DEF MarkAwaiting, UpdateStatus, GoTo
  <2>6. ASSUME NEW s \in Sagas, ReplyTimeout(s) PROVE Consistent'
    BY <2>6 DEF ReplyTimeout, Settle
  <2>7. ASSUME NEW s \in Sagas, GrpcReturns(s) PROVE Consistent'
    BY <2>7 DEF GrpcReturns, GoTo, AfterCall
  <2>8. ASSUME NEW s \in Sagas, GrpcAmbiguous(s) PROVE Consistent'
    BY <2>8 DEF GrpcAmbiguous, Finish
  <2>9. ASSUME NEW s \in Sagas, Complete(s) PROVE Consistent'
    BY <2>9 DEF Complete, UpdateStatus, Finish
  <2>10. ASSUME NEW s \in Sagas, MarkCompensating(s) PROVE Consistent'
    BY <2>10 DEF MarkCompensating, UpdateStatus, GoTo
  <2>11. ASSUME NEW s \in Sagas, FinishCompensation(s) PROVE Consistent'
    BY <2>11 DEF FinishCompensation, Finish, CompensationTx, UpdateStatus
  <2>12. ASSUME NEW s \in Sagas, RequestDbFailure(s) PROVE Consistent'
    BY <2>12 DEF RequestDbFailure, Finish
  <2>13. ASSUME NEW s \in Sagas, UnhandledTimeout(s) PROVE Consistent'
    BY <2>13 DEF UnhandledTimeout, ProcessLost
  <2>14. ASSUME NEW s \in Sagas, DeliverCommand(s) PROVE Consistent'
    BY <2>14 DEF DeliverCommand
  <2>15. ASSUME NEW s \in Sagas, MailAccepted(s) PROVE Consistent'
    BY <2>15 DEF MailAccepted
  <2>16. ASSUME NEW s \in Sagas, MailRejected(s) PROVE Consistent'
    BY <2>16 DEF MailRejected
  <2>17. ASSUME NEW s \in Sagas, PublishReply(s) PROVE Consistent'
    BY <2>17 DEF PublishReply, ReplyFor
  <2>18. ASSUME NEW s \in Sagas, AckCommand(s) PROVE Consistent'
    BY <2>18 DEF AckCommand
  <2>19. ASSUME NEW s \in Sagas, ConfirmFind(s) PROVE Consistent'
    BY <2>19 DEF ConfirmFind, FindByToken
  <2>20. ASSUME NEW s \in Sagas, ConfirmWrite(s) PROVE Consistent'
    BY <2>20 DEF ConfirmWrite, SetConfirmed
  <2>21. ASSUME NEW s \in Sagas, UnsubscribeFind(s) PROVE Consistent'
    BY <2>21 DEF UnsubscribeFind, FindByToken
  <2>22. ASSUME NEW s \in Sagas, UnsubscribeWrite(s) PROVE Consistent'
    BY <2>22 DEF UnsubscribeWrite
  <2>23. ASSUME NEW s \in Sagas, RecoverMark(s) PROVE Consistent'
    BY <2>23 DEF RecoverMark, UpdateStatusIfCurrent
  <2>24. ASSUME NEW s \in Sagas, RecoverCompensate(s) PROVE Consistent'
    BY <2>24 DEF RecoverCompensate, CompensationTx, UpdateStatus
  <2>25. ASSUME NEW s \in Sagas, NEW k \in Deliveries, ResolveReply(s, k)
       PROVE Consistent'
    BY <2>25 DEF ResolveReply, Settle
  <2>26. ASSUME NEW s \in Sagas, NEW k \in Deliveries, OrphanLookup(s, k)
       PROVE Consistent'
    BY <2>26 DEF OrphanLookup
  <2>27. ASSUME NEW s \in Sagas, NEW k \in Deliveries, OrphanSuccess(s, k)
       PROVE Consistent'
    BY <2>27 DEF OrphanSuccess, UpdateStatusIfCurrent
  <2>28. ASSUME NEW s \in Sagas, NEW k \in Deliveries, OrphanFailure(s, k)
       PROVE Consistent'
    BY <2>28 DEF OrphanFailure, UpdateStatusIfCurrent
  <2>29. ASSUME NEW s \in Sagas, NEW k \in Deliveries, OrphanCompensate(s, k)
       PROVE Consistent'
    BY <2>29 DEF OrphanCompensate, CompensationTx, UpdateStatus
  <2>30. ASSUME NEW s \in Sagas, NEW k \in Deliveries, OrphanDbFailure(s, k)
       PROVE Consistent'
    BY <2>30 DEF OrphanDbFailure
  <2>31. CASE StartApi
    BY <2>31 DEF StartApi
  <2>32. CASE ListAwaiting
    BY <2>32 DEF ListAwaiting, ListSagas, FindByStatus
  <2>33. CASE ListCompensating
    BY <2>33 DEF ListCompensating, ListSagas, FindByStatus, PassOver
  <2>34. CASE Serve
    <3>1. UNCHANGED <<recovering, dbVars, execVars, brokerVars, mailed, userVars>>
      BY <2>34 DEF Serve
    <3>2. /\ api = "recoverCompensating" /\ api' = "serving"
          /\ \A s \in Sagas : recovering[s] = "no"
      BY <2>34 DEF Serve, PassOver
    <3>3. \A s \in Sagas : status[s] \notin {"AWAITING_EMAIL", "COMPENSATING"}
      BY <3>2
    <3>4. RecoveredSagasSettled'
      <4>1. \A s \in Sagas : status[s] \in SagaStatus \cup {"none"}
        BY DEF TypeOK
      <4>2. \A s \in Sagas : pc[s] = "dead" => status[s] # "none"
        OBVIOUS
      <4>3. \A s \in Sagas : pc[s] = "dead" =>
              status[s] \in {"SUBSCRIPTION_CREATED", "COMPENSATED", "COMPLETED"}
        BY <3>3, <4>1, <4>2 DEF SagaStatus
      <4>4. pc' = pc /\ status' = status
        BY <3>1 DEF execVars, dbVars
      <4> QED
        BY <4>3, <4>4
    <3>5. RecoveryComplete'
      BY <3>1, <3>2 DEF dbVars, execVars
    <3>6. (Begun /\ MailKnown)'
      BY <3>1 DEF dbVars, execVars, brokerVars, userVars
    <3>7. (FailedIsOver /\ FailedMeansRemoved /\ CompletedMeansMailed
             /\ CompensatedRowIsGone)'
      BY <3>1 DEF dbVars, execVars
    <3> QED
      BY <3>4, <3>5, <3>6, <3>7
  <2>35. CASE RecoveryDbFailure
    BY <2>35 DEF RecoveryDbFailure, ProcessLost
  <2>36. CASE ApiCrash
    BY <2>36 DEF ApiCrash, ProcessLost
  <2>37. CASE NotifierCrash
    BY <2>37 DEF NotifierCrash
  <2>38. CASE UNCHANGED vars
    BY <2>38 DEF vars
  <2>39. QED
    BY <2>1, <2>2, <2>3, <2>4, <2>5, <2>6, <2>7, <2>8, <2>9, <2>10, <2>11,
         <2>12, <2>13, <2>14, <2>15, <2>16, <2>17, <2>18, <2>19, <2>20, <2>21,
         <2>22, <2>23, <2>24, <2>25, <2>26, <2>27, <2>28, <2>29, <2>30, <2>31,
         <2>32, <2>33, <2>34, <2>35, <2>36, <2>37, <2>38 DEF Next,
         RequestStep, NotifierStep, UserStep, ReplyStep, StartupStep
<1>3. QED
  BY <1>1, <1>2, TypeCorrect, PTL DEF Spec

\* A process that dies hands every reply it was handling back to the queue.
LEMMA LossKeepsTaken ==
  ASSUME TypeOK, ReplyTaken, ProcessLost
  PROVE  ReplyTaken'
<1> USE BoundsAssumption DEF TypeOK, Live, Deliveries
<1>1. \A s \in Sagas, k \in Deliveries :
        replyAt'[s][k] = IF replyAt[s][k] \in {"looked", "marked"} THEN "queued"
                         ELSE replyAt[s][k]
  BY DEF ProcessLost
<1>2. \A s \in Sagas : pc'[s] = IF pc[s] \in Live THEN "dead" ELSE pc[s]
  BY DEF ProcessLost
<1>3. pending' = {} /\ UNCHANGED <<got, command, tries>>
  BY DEF ProcessLost
<1>4. \A s \in Sagas, k \in Deliveries :
        /\ replyAt[s][k] \in {"none", "acked"} => replyAt'[s][k] = replyAt[s][k]
        /\ replyAt'[s][k] = "none" => replyAt[s][k] = "none"
  BY <1>1
<1>5. ASSUME NEW s \in Sagas, got[s] \in {"SUCCESS", "FAILURE"}
      PROVE  \E k \in Deliveries : replyAt'[s][k] = "acked"
  <2>1. PICK k \in Deliveries : replyAt[s][k] = "acked"
    BY <1>5 DEF ReplyTaken
  <2> QED
    BY <2>1, <1>4
<1> HIDE DEF Deliveries
<1> QED
  BY <1>2, <1>3, <1>4, <1>5 DEF ReplyTaken

\* Replies and deliveries: execute(), its timer, the reply consumer and the
\* notifier agree on which reply can still be handed to whom.
LEMMA AlwaysTaken == Spec => []ReplyTaken
<1> USE PairOfAssumption, TransportAssumption, BoundsAssumption
<1> USE DEF Live, Deliveries, Consistent, Begun, ReplyTaken
<1>1. Init => ReplyTaken
  BY DEF Init
<1>2. TypeOK /\ Consistent /\ ReplyTaken /\ [Next]_vars => ReplyTaken'
  <2> SUFFICES ASSUME TypeOK, Consistent, ReplyTaken, [Next]_vars
           PROVE  ReplyTaken'
    OBVIOUS
  <2> USE DEF TypeOK, Unacked, SagaStatus, apiVars, dbVars, execVars,
              brokerVars, userVars, faultVars
  <2>1. ASSUME NEW s \in Sagas, CreateSubscription(s) PROVE ReplyTaken'
    BY <2>1 DEF CreateSubscription, UpdateStatus, GoTo
  <2>2. ASSUME NEW s \in Sagas, RefuseSubscription(s) PROVE ReplyTaken'
    BY <2>2 DEF RefuseSubscription, Finish
  <2>3. ASSUME NEW s \in Sagas, PublishCommand(s) PROVE ReplyTaken'
    BY <2>3 DEF PublishCommand, GoTo
  <2>4. ASSUME NEW s \in Sagas, PublishCommandThrows(s) PROVE ReplyTaken'
    BY <2>4 DEF PublishCommandThrows, GoTo
  <2>5. ASSUME NEW s \in Sagas, MarkAwaiting(s) PROVE ReplyTaken'
    <3>1. CASE Transport = "queue"
      BY <2>5, <3>1 DEF MarkAwaiting, UpdateStatus, GoTo
    <3>2. CASE Transport = "grpc"
      BY <2>5, <3>2 DEF MarkAwaiting, UpdateStatus, GoTo
    <3> QED
      BY <3>1, <3>2
  <2>6. ASSUME NEW s \in Sagas, ReplyTimeout(s) PROVE ReplyTaken'
    BY <2>6 DEF ReplyTimeout, Settle
  <2>7. ASSUME NEW s \in Sagas, GrpcReturns(s) PROVE ReplyTaken'
    BY <2>7 DEF GrpcReturns, GoTo, AfterCall
  <2>8. ASSUME NEW s \in Sagas, GrpcAmbiguous(s) PROVE ReplyTaken'
    BY <2>8 DEF GrpcAmbiguous, Finish
  <2>9. ASSUME NEW s \in Sagas, Complete(s) PROVE ReplyTaken'
    BY <2>9 DEF Complete, UpdateStatus, Finish
  <2>10. ASSUME NEW s \in Sagas, MarkCompensating(s) PROVE ReplyTaken'
    BY <2>10 DEF MarkCompensating, UpdateStatus, GoTo
  <2>11. ASSUME NEW s \in Sagas, FinishCompensation(s) PROVE ReplyTaken'
    BY <2>11 DEF FinishCompensation, Finish, CompensationTx, UpdateStatus
  <2>12. ASSUME NEW s \in Sagas, RequestDbFailure(s) PROVE ReplyTaken'
    BY <2>12 DEF RequestDbFailure, Finish
  <2>13. ASSUME NEW s \in Sagas, UnhandledTimeout(s) PROVE ReplyTaken'
    BY <2>13, LossKeepsTaken DEF UnhandledTimeout
  <2>14. ASSUME NEW s \in Sagas, DeliverCommand(s) PROVE ReplyTaken'
    BY <2>14 DEF DeliverCommand
  <2>15. ASSUME NEW s \in Sagas, MailAccepted(s) PROVE ReplyTaken'
    BY <2>15 DEF MailAccepted
  <2>16. ASSUME NEW s \in Sagas, MailRejected(s) PROVE ReplyTaken'
    BY <2>16 DEF MailRejected
  <2>17. ASSUME NEW s \in Sagas, PublishReply(s) PROVE ReplyTaken'
    <3>1. tries[s] \in Nat /\ \A t \in Sagas, j \in Deliveries :
            IF t = s /\ j = tries[s] THEN replyAt'[t][j] \in {"queued", "lost"}
                                    ELSE replyAt'[t][j] = replyAt[t][j]
      <4>1. PICK fate \in {"queued", "lost"} : replyAt' = [replyAt EXCEPT ![s][tries[s]] = fate]
        BY <2>17 DEF PublishReply
      <4>2. \A t \in Sagas, j \in Deliveries :
              replyAt'[t][j] = IF t = s /\ j = tries[s] THEN fate ELSE replyAt[t][j]
        BY <4>1
      <4> QED
        BY <4>1, <4>2
    <3>2. s \in pending => \A j \in Deliveries : replyAt'[s][j] \in {"none", "queued", "lost"}
      <4>1. s \in pending => \A j \in Deliveries : replyAt[s][j] \in {"none", "queued", "lost"}
        OBVIOUS
      <4>2. ASSUME NEW j \in Deliveries
            PROVE  replyAt'[s][j] \in {"queued", "lost", replyAt[s][j]}
        <5> HIDE DEF Deliveries, TypeOK, Consistent, ReplyTaken
        <5>1. CASE j = tries[s]
          BY <3>1, <5>1
        <5>2. CASE j # tries[s]
          BY <3>1, <5>2
        <5> QED
          BY <5>1, <5>2
      <4> HIDE DEF Deliveries
      <4> QED
        BY <4>1, <4>2
    <3>3. \A j \in Deliveries : j = tries[s] => replyAt[s][j] = "none"
      BY <2>17 DEF PublishReply
    <3> HIDE DEF Deliveries
    <3> QED
      BY <2>17, <3>1, <3>2, <3>3 DEF PublishReply
  <2>18. ASSUME NEW s \in Sagas, AckCommand(s) PROVE ReplyTaken'
    BY <2>18 DEF AckCommand
  <2>19. ASSUME NEW s \in Sagas, ConfirmFind(s) PROVE ReplyTaken'
    BY <2>19 DEF ConfirmFind, FindByToken
  <2>20. ASSUME NEW s \in Sagas, ConfirmWrite(s) PROVE ReplyTaken'
    BY <2>20 DEF ConfirmWrite, SetConfirmed
  <2>21. ASSUME NEW s \in Sagas, UnsubscribeFind(s) PROVE ReplyTaken'
    BY <2>21 DEF UnsubscribeFind, FindByToken
  <2>22. ASSUME NEW s \in Sagas, UnsubscribeWrite(s) PROVE ReplyTaken'
    BY <2>22 DEF UnsubscribeWrite
  <2>23. ASSUME NEW s \in Sagas, RecoverMark(s) PROVE ReplyTaken'
    BY <2>23 DEF RecoverMark, UpdateStatusIfCurrent
  <2>24. ASSUME NEW s \in Sagas, RecoverCompensate(s) PROVE ReplyTaken'
    BY <2>24 DEF RecoverCompensate, CompensationTx, UpdateStatus
  <2>25. ASSUME NEW s \in Sagas, NEW k \in Deliveries, ResolveReply(s, k)
       PROVE ReplyTaken'
    BY <2>25 DEF ResolveReply, Settle
  <2>26. ASSUME NEW s \in Sagas, NEW k \in Deliveries, OrphanLookup(s, k)
       PROVE ReplyTaken'
    <3>1. \A t \in Sagas, j \in Deliveries : t # s \/ j # k =>
            replyAt'[t][j] = replyAt[t][j]
      BY <2>26 DEF OrphanLookup
    <3>2. replyAt'[s][k] \in {"looked", "acked"} /\ replyAt[s][k] \notin {"none", "acked"}
      BY <2>26 DEF OrphanLookup
    <3>3. s \in pending => replyAt[s][k] \in {"none", "queued", "lost"}
      OBVIOUS
    <3> HIDE DEF Deliveries
    <3> QED
      BY <2>26, <3>1, <3>2, <3>3 DEF OrphanLookup
  <2>27. ASSUME NEW s \in Sagas, NEW k \in Deliveries, OrphanSuccess(s, k)
       PROVE ReplyTaken'
    BY <2>27 DEF OrphanSuccess, UpdateStatusIfCurrent
  <2>28. ASSUME NEW s \in Sagas, NEW k \in Deliveries, OrphanFailure(s, k)
       PROVE ReplyTaken'
    BY <2>28 DEF OrphanFailure, UpdateStatusIfCurrent
  <2>29. ASSUME NEW s \in Sagas, NEW k \in Deliveries, OrphanCompensate(s, k)
       PROVE ReplyTaken'
    BY <2>29 DEF OrphanCompensate, CompensationTx, UpdateStatus
  <2>30. ASSUME NEW s \in Sagas, NEW k \in Deliveries, OrphanDbFailure(s, k)
       PROVE ReplyTaken'
    <3>1. \A t \in Sagas, j \in Deliveries : t # s \/ j # k =>
            replyAt'[t][j] = replyAt[t][j]
      BY <2>30 DEF OrphanDbFailure
    <3>2. replyAt'[s][k] \in {"dead"} /\ replyAt[s][k] \notin {"none", "acked"}
      BY <2>30 DEF OrphanDbFailure
    <3>3. s \in pending => replyAt[s][k] \in {"none", "queued", "lost"}
      OBVIOUS
    <3> HIDE DEF Deliveries
    <3> QED
      BY <2>30, <3>1, <3>2, <3>3 DEF OrphanDbFailure
  <2>31. CASE StartApi
    BY <2>31 DEF StartApi
  <2>32. CASE ListAwaiting
    BY <2>32 DEF ListAwaiting, ListSagas, FindByStatus
  <2>33. CASE ListCompensating
    BY <2>33 DEF ListCompensating, ListSagas, FindByStatus, PassOver
  <2>34. CASE Serve
    BY <2>34 DEF Serve, PassOver
  <2>35. CASE RecoveryDbFailure
    BY <2>35, LossKeepsTaken DEF RecoveryDbFailure
  <2>36. CASE ApiCrash
    BY <2>36, LossKeepsTaken DEF ApiCrash
  <2>37. CASE NotifierCrash
    BY <2>37 DEF NotifierCrash
  <2>38. CASE UNCHANGED vars
    BY <2>38 DEF vars
  <2>39. QED
    BY <2>1, <2>2, <2>3, <2>4, <2>5, <2>6, <2>7, <2>8, <2>9, <2>10, <2>11,
         <2>12, <2>13, <2>14, <2>15, <2>16, <2>17, <2>18, <2>19, <2>20, <2>21,
         <2>22, <2>23, <2>24, <2>25, <2>26, <2>27, <2>28, <2>29, <2>30, <2>31,
         <2>32, <2>33, <2>34, <2>35, <2>36, <2>37, <2>38 DEF Next,
         RequestStep, NotifierStep, UserStep, ReplyStep, StartupStep
<1>3. QED
  BY <1>1, <1>2, TypeCorrect, AlwaysConsistent, PTL DEF Spec

\* No reply handler and no recovery has its hands on a saga execute() is about
\* to complete, or has completed, when its command was delivered once.
LEMMA AlwaysKept == Spec => []Kept
<1> USE PairOfAssumption, TransportAssumption, BoundsAssumption
<1> USE DEF Live, Deliveries, Consistent, Begun, RecoveryComplete,
            ReplyTaken, Kept
<1>1. Init => Kept
  BY DEF Init
<1>2. TypeOK /\ Consistent /\ ReplyTaken /\ Kept /\ [Next]_vars
       => Kept'
  <2> SUFFICES ASSUME TypeOK, Consistent, ReplyTaken, Kept, [Next]_vars
           PROVE  Kept'
    OBVIOUS
  <2> USE DEF TypeOK, Unacked, SagaStatus, apiVars, dbVars, execVars,
              brokerVars, userVars, faultVars
  <2>1. ASSUME NEW s \in Sagas, CreateSubscription(s) PROVE Kept'
    BY <2>1 DEF CreateSubscription, UpdateStatus, GoTo
  <2>2. ASSUME NEW s \in Sagas, RefuseSubscription(s) PROVE Kept'
    BY <2>2 DEF RefuseSubscription, Finish
  <2>3. ASSUME NEW s \in Sagas, PublishCommand(s) PROVE Kept'
    BY <2>3 DEF PublishCommand, GoTo
  <2>4. ASSUME NEW s \in Sagas, PublishCommandThrows(s) PROVE Kept'
    BY <2>4 DEF PublishCommandThrows, GoTo
  <2>5. ASSUME NEW s \in Sagas, MarkAwaiting(s) PROVE Kept'
    BY <2>5 DEF MarkAwaiting, UpdateStatus, GoTo
  <2>6. ASSUME NEW s \in Sagas, ReplyTimeout(s) PROVE Kept'
    BY <2>6 DEF ReplyTimeout, Settle
  <2>7. ASSUME NEW s \in Sagas, GrpcReturns(s) PROVE Kept'
    BY <2>7 DEF GrpcReturns, GoTo, AfterCall
  <2>8. ASSUME NEW s \in Sagas, GrpcAmbiguous(s) PROVE Kept'
    BY <2>8 DEF GrpcAmbiguous, Finish
  <2>9. ASSUME NEW s \in Sagas, Complete(s) PROVE Kept'
    BY <2>9 DEF Complete, UpdateStatus, Finish
  <2>10. ASSUME NEW s \in Sagas, MarkCompensating(s) PROVE Kept'
    BY <2>10 DEF MarkCompensating, UpdateStatus, GoTo
  <2>11. ASSUME NEW s \in Sagas, FinishCompensation(s) PROVE Kept'
    BY <2>11 DEF FinishCompensation, Finish, CompensationTx, UpdateStatus
  <2>12. ASSUME NEW s \in Sagas, RequestDbFailure(s) PROVE Kept'
    BY <2>12 DEF RequestDbFailure, Finish
  <2>13. ASSUME NEW s \in Sagas, UnhandledTimeout(s) PROVE Kept'
    BY <2>13 DEF UnhandledTimeout, ProcessLost
  <2>14. ASSUME NEW s \in Sagas, DeliverCommand(s) PROVE Kept'
    BY <2>14 DEF DeliverCommand
  <2>15. ASSUME NEW s \in Sagas, MailAccepted(s) PROVE Kept'
    BY <2>15 DEF MailAccepted
  <2>16. ASSUME NEW s \in Sagas, MailRejected(s) PROVE Kept'
    BY <2>16 DEF MailRejected
  <2>17. ASSUME NEW s \in Sagas, PublishReply(s) PROVE Kept'
    BY <2>17 DEF PublishReply, ReplyFor
  <2>18. ASSUME NEW s \in Sagas, AckCommand(s) PROVE Kept'
    BY <2>18 DEF AckCommand
  <2>19. ASSUME NEW s \in Sagas, ConfirmFind(s) PROVE Kept'
    BY <2>19 DEF ConfirmFind, FindByToken
  <2>20. ASSUME NEW s \in Sagas, ConfirmWrite(s) PROVE Kept'
    BY <2>20 DEF ConfirmWrite, SetConfirmed
  <2>21. ASSUME NEW s \in Sagas, UnsubscribeFind(s) PROVE Kept'
    BY <2>21 DEF UnsubscribeFind, FindByToken
  <2>22. ASSUME NEW s \in Sagas, UnsubscribeWrite(s) PROVE Kept'
    BY <2>22 DEF UnsubscribeWrite
  <2>23. ASSUME NEW s \in Sagas, RecoverMark(s) PROVE Kept'
    BY <2>23 DEF RecoverMark, UpdateStatusIfCurrent
  <2>24. ASSUME NEW s \in Sagas, RecoverCompensate(s) PROVE Kept'
    BY <2>24 DEF RecoverCompensate, CompensationTx, UpdateStatus
  <2>25. ASSUME NEW s \in Sagas, NEW k \in Deliveries, ResolveReply(s, k)
       PROVE Kept'
    BY <2>25 DEF ResolveReply, Settle
  <2>26. ASSUME NEW s \in Sagas, NEW k \in Deliveries, OrphanLookup(s, k)
       PROVE Kept'
    BY <2>26 DEF OrphanLookup
  <2>27. ASSUME NEW s \in Sagas, NEW k \in Deliveries, OrphanSuccess(s, k)
       PROVE Kept'
    BY <2>27 DEF OrphanSuccess, UpdateStatusIfCurrent
  <2>28. ASSUME NEW s \in Sagas, NEW k \in Deliveries, OrphanFailure(s, k)
       PROVE Kept'
    BY <2>28 DEF OrphanFailure, UpdateStatusIfCurrent
  <2>29. ASSUME NEW s \in Sagas, NEW k \in Deliveries, OrphanCompensate(s, k)
       PROVE Kept'
    <3>1. replyAt[s][k] = "marked"
      BY <2>29 DEF OrphanCompensate
    <3>2. s \notin pending
      BY <3>1
    <3>3. k <= tries[s]
      BY <3>1
    <3>4. tries[s] <= 1 =>
            Transport # "grpc" /\ got[s] # "SUCCESS" /\ pc[s] # "created"
      <4> SUFFICES ASSUME tries[s] <= 1
                   PROVE  Transport # "grpc" /\ got[s] # "SUCCESS" /\ pc[s] # "created"
        OBVIOUS
      <4>1. \A j \in Deliveries : replyAt[s][j] # "none" => j = 1
        OBVIOUS
      <4>2. k = 1
        BY <4>1, <3>1
      <4>3. \A j \in Deliveries : replyAt[s][j] # "acked"
        BY <4>1, <4>2, <3>1
      <4>4. got[s] # "SUCCESS"
        BY <4>3
      <4>5. Transport # "grpc" /\ pc[s] # "created"
        BY <3>1, <3>3
      <4> QED
        BY <4>4, <4>5
    <3> HIDE DEF Deliveries
    <3> QED
      BY <2>29, <3>2, <3>4 DEF OrphanCompensate, CompensationTx, UpdateStatus
  <2>30. ASSUME NEW s \in Sagas, NEW k \in Deliveries, OrphanDbFailure(s, k)
       PROVE Kept'
    BY <2>30 DEF OrphanDbFailure
  <2>31. CASE StartApi
    BY <2>31 DEF StartApi
  <2>32. CASE ListAwaiting
    BY <2>32 DEF ListAwaiting, ListSagas, FindByStatus
  <2>33. CASE ListCompensating
    BY <2>33 DEF ListCompensating, ListSagas, FindByStatus, PassOver
  <2>34. CASE Serve
    BY <2>34 DEF Serve, PassOver
  <2>35. CASE RecoveryDbFailure
    BY <2>35 DEF RecoveryDbFailure, ProcessLost
  <2>36. CASE ApiCrash
    BY <2>36 DEF ApiCrash, ProcessLost
  <2>37. CASE NotifierCrash
    BY <2>37 DEF NotifierCrash
  <2>38. CASE UNCHANGED vars
    BY <2>38 DEF vars
  <2>39. QED
    BY <2>1, <2>2, <2>3, <2>4, <2>5, <2>6, <2>7, <2>8, <2>9, <2>10, <2>11,
         <2>12, <2>13, <2>14, <2>15, <2>16, <2>17, <2>18, <2>19, <2>20, <2>21,
         <2>22, <2>23, <2>24, <2>25, <2>26, <2>27, <2>28, <2>29, <2>30, <2>31,
         <2>32, <2>33, <2>34, <2>35, <2>36, <2>37, <2>38 DEF Next,
         RequestStep, NotifierStep, UserStep, ReplyStep, StartupStep
<1>3. QED
  BY <1>1, <1>2, TypeCorrect, AlwaysConsistent, AlwaysTaken, PTL DEF Spec

\* On gRPC no reply exists, and the recovery only ever compensates: the one
\* statement that writes COMPLETED is the last of execute().
LEMMA AlwaysOnlyExecute == Spec => []OnlyExecuteCompletes
<1> USE PairOfAssumption, TransportAssumption, BoundsAssumption
<1>1. Init => OnlyExecuteCompletes
  BY DEF Init, OnlyExecuteCompletes
<1>2. TypeOK /\ ReplyTaken /\ OnlyExecuteCompletes /\ [Next]_vars => OnlyExecuteCompletes'
  <2> SUFFICES ASSUME TypeOK, ReplyTaken, OnlyExecuteCompletes, [Next]_vars
               PROVE  OnlyExecuteCompletes'
    OBVIOUS
  <2> USE DEF TypeOK, Live, Deliveries, OnlyExecuteCompletes, apiVars, dbVars,
              execVars, brokerVars, userVars, faultVars
  <2>1. ASSUME NEW s \in Sagas, RequestStep(s) PROVE OnlyExecuteCompletes'
    <3>1. CASE UnhandledTimeout(s)
      BY <3>1 DEF UnhandledTimeout, ProcessLost
    <3>2. CASE ~ UnhandledTimeout(s)
      BY <2>1, <3>2 DEF RequestStep, CreateSubscription, RefuseSubscription,
           PublishCommand, PublishCommandThrows, MarkAwaiting, ReplyTimeout,
           GrpcReturns, GrpcAmbiguous, Complete, MarkCompensating,
           FinishCompensation, RequestDbFailure, UpdateStatus, CompensationTx,
           Finish, GoTo
    <3> QED
      BY <3>1, <3>2
  <2>2. ASSUME NEW s \in Sagas, NotifierStep(s) \/ UserStep(s)
        PROVE  OnlyExecuteCompletes'
    BY <2>2 DEF NotifierStep, DeliverCommand, MailAccepted, MailRejected,
         PublishReply, AckCommand, UserStep, ConfirmFind, ConfirmWrite,
         UnsubscribeFind, UnsubscribeWrite, FindByToken
  <2>3. ASSUME NEW s \in Sagas, NEW k \in Deliveries, ReplyStep(s, k)
        PROVE  OnlyExecuteCompletes'
    <3>1. CASE Transport = "grpc"
      <4>1. replyAt[s][k] = "none"
        BY <3>1 DEF ReplyTaken
      <4> QED
        BY <2>3, <4>1 DEF ReplyStep, ResolveReply, OrphanLookup, OrphanSuccess,
             OrphanFailure, OrphanCompensate, OrphanDbFailure
    <3> QED
      BY <3>1
  <2>4. ASSUME NEW s \in Sagas, RecoverMark(s) \/ RecoverCompensate(s)
        PROVE  OnlyExecuteCompletes'
    BY <2>4 DEF RecoverMark, RecoverCompensate, UpdateStatusIfCurrent,
         CompensationTx, UpdateStatus
  <2>5. CASE StartApi \/ ListAwaiting \/ ListCompensating \/ Serve
    BY <2>5 DEF StartApi, ListAwaiting, ListCompensating, Serve, ListSagas
  <2>6. CASE RecoveryDbFailure \/ ApiCrash
    BY <2>6 DEF RecoveryDbFailure, ApiCrash, ProcessLost
  <2>7. CASE NotifierCrash \/ UNCHANGED vars
    BY <2>7 DEF NotifierCrash, vars
  <2>8. QED
    BY <2>1, <2>2, <2>3, <2>4, <2>5, <2>6, <2>7 DEF Next, StartupStep
<1>3. QED
  BY <1>1, <1>2, TypeCorrect, AlwaysTaken, PTL DEF Spec

\* The inductive invariant of the saga on both transports, through crashes,
\* redeliveries and failing statements.
THEOREM SagaInvariant == Spec => []SagaInv
BY TypeCorrect, AlwaysConsistent, AlwaysTaken, AlwaysKept, AlwaysOnlyExecute, PTL
   DEF SagaInv

\* "Subscription failed" is final and true: whatever late reply handlers,
\* the recovery and the user's clicks do, the saga stays COMPENSATED and its
\* subscription deleted.
THEOREM FailureIsFinal == Spec => []FailedMeansRemoved
BY SagaInvariant, PTL DEF SagaInv, Consistent

\* COMPLETED, by whichever of execute(), its gRPC branch and the orphaned
\* reply handler, is only written for a mail the provider accepted.
THEOREM CompletionIsMailed == Spec => []CompletedMeansMailed
BY SagaInvariant, PTL DEF SagaInv, Consistent

\* The unit of work of the creation and that of the compensation keep the
\* subscription and the saga row in step.
THEOREM TablesAgree == Spec => []CompensatedRowIsGone
BY SagaInvariant, PTL DEF SagaInv, Consistent

\* recoverPendingSagas settles every saga that died AWAITING_EMAIL or
\* COMPENSATING before the API serves again.
THEOREM RecoverySettles == Spec => []RecoveredSagasSettled
BY SagaInvariant, PTL DEF SagaInv, Consistent

\* A client told 200 keeps the subscription unless the user removes it: after
\* a single delivery of the command neither the timer, nor an orphaned reply,
\* nor the recovery undoes what execute() completed.
THEOREM OkIsKept == Spec => []OkMeansKept
<1>1. SagaInv => OkMeansKept
  BY DEF SagaInv, Kept, OkMeansKept
<1>2. QED
  BY <1>1, SagaInvariant, PTL

\* On gRPC what the test of the orchestrator says is true: a COMPLETED saga is
\* never put back to COMPENSATING. Over RabbitMQ a timer and an orphaned reply
\* can do it, so this is where the two transports part.
THEOREM CompletedIsFinalOnGrpc ==
  ASSUME Transport = "grpc"
  PROVE  Spec => ResolvedNotCompensated
<1>1. SagaInv /\ [Next]_vars =>
        [\A s \in Sagas : status[s] = "COMPLETED" => status'[s] # "COMPENSATING"]_vars
  <2> SUFFICES ASSUME SagaInv, Next, NEW t \in Sagas, status[t] = "COMPLETED",
                      status'[t] = "COMPENSATING"
               PROVE  FALSE
    OBVIOUS
  <2> USE DEF SagaInv, TypeOK, Live, Deliveries, apiVars, dbVars, execVars,
              brokerVars, userVars, faultVars
  <2>1. ASSUME NEW s \in Sagas, RequestStep(s) PROVE FALSE
    <3>1. CASE UnhandledTimeout(s)
      BY <3>1 DEF UnhandledTimeout, ProcessLost
    <3>2. CASE ~ UnhandledTimeout(s)
      BY <2>1, <3>2 DEF RequestStep, CreateSubscription, RefuseSubscription,
           PublishCommand, PublishCommandThrows, MarkAwaiting, ReplyTimeout,
           GrpcReturns, GrpcAmbiguous, Complete, MarkCompensating,
           FinishCompensation, RequestDbFailure, UpdateStatus, CompensationTx,
           Finish, GoTo, OnlyExecuteCompletes
    <3> QED
      BY <3>1, <3>2
  <2>2. ASSUME NEW s \in Sagas, NotifierStep(s) \/ UserStep(s) PROVE FALSE
    BY <2>2 DEF NotifierStep, DeliverCommand, MailAccepted, MailRejected,
         PublishReply, AckCommand, UserStep, ConfirmFind, ConfirmWrite,
         UnsubscribeFind, UnsubscribeWrite, FindByToken
  <2>3. ASSUME NEW s \in Sagas, NEW k \in Deliveries, ReplyStep(s, k) PROVE FALSE
    <3>1. status' = status \/ OrphanSuccess(s, k) \/ OrphanFailure(s, k)
          \/ OrphanCompensate(s, k)
      BY <2>3 DEF ReplyStep, ResolveReply, OrphanLookup, OrphanDbFailure
    <3>2. CASE OrphanSuccess(s, k)
      BY <3>2 DEF OrphanSuccess, UpdateStatusIfCurrent
    <3>3. CASE OrphanFailure(s, k)
      BY <3>3 DEF OrphanFailure, UpdateStatusIfCurrent
    <3>4. CASE OrphanCompensate(s, k)
      BY <3>4 DEF OrphanCompensate, CompensationTx, UpdateStatus
    <3> QED
      BY <3>1, <3>2, <3>3, <3>4
  <2>4. ASSUME NEW s \in Sagas, RecoverMark(s) \/ RecoverCompensate(s) PROVE FALSE
    BY <2>4 DEF RecoverMark, RecoverCompensate, UpdateStatusIfCurrent,
         CompensationTx, UpdateStatus
  <2>5. CASE StartApi \/ ListAwaiting \/ ListCompensating \/ Serve
    BY <2>5 DEF StartApi, ListAwaiting, ListCompensating, Serve, ListSagas
  <2>6. CASE RecoveryDbFailure \/ ApiCrash
    BY <2>6 DEF RecoveryDbFailure, ApiCrash, ProcessLost
  <2>7. CASE NotifierCrash
    BY <2>7 DEF NotifierCrash
  <2>8. QED
    BY <2>1, <2>2, <2>3, <2>4, <2>5, <2>6, <2>7 DEF Next, StartupStep
<1>2. QED
  BY <1>1, SagaInvariant, PTL DEF Spec, ResolvedNotCompensated

-----------------------------------------------------------------------------
(* Refinement: the saga implements SubscribeContract. *)

\* A saga with a row in saga_instances has had a subscription.
LEMMA StoredHasLife ==
  ASSUME TypeOK, NEW s \in Sagas, status[s] # "none"
  PROVE  Life[s] # "none"
BY DEF TypeOK, Life

\* A request being served has a subscription and no answer yet.
LEMMA LiveUnanswered ==
  ASSUME TypeOK, Begun, NEW s \in Sagas, pc[s] \in Live
  PROVE  Life[s] # "none" /\ answer[s] = "none"
<1>1. status[s] # "none"
  BY DEF Begun, Live
<1> QED
  BY <1>1, StoredHasLife DEF Begun

\* Each step of the saga is a step of the contract, or changes nothing that
\* the contract sees.
LEMMA StepImplements ==
  TypeOK /\ Consistent /\ [Next]_vars => [Contract!Next]_(Contract!contract)
<1> USE PairOfAssumption, TransportAssumption, BoundsAssumption
<1> SUFFICES ASSUME TypeOK, Consistent, [Next]_vars
             PROVE  [Contract!Next]_(Contract!contract)
  OBVIOUS
<1> USE DEF TypeOK, Live, Unacked, SagaStatus, Deliveries, apiVars, dbVars,
            execVars, brokerVars, userVars, faultVars, Consistent, Begun, MailKnown,
            CompensatedRowIsGone
<1>1. ASSUME NEW s \in Sagas, CreateSubscription(s) PROVE
     [Contract!Next]_(Contract!contract)
  <2>1. Life' = [Life EXCEPT ![s] = "pending"]
    BY <1>1 DEF CreateSubscription, UpdateStatus, GoTo, Life
  <2>2. Life[s] = "none"
    BY <1>1 DEF CreateSubscription, UpdateStatus, GoTo, Life
  <2>3. Contract!Store(s)
    BY <1>1, <2>1, <2>2 DEF CreateSubscription, UpdateStatus, GoTo,
         Contract!Store, Contract!Tell
  <2> QED
    BY <2>3 DEF Contract!Next
<1>2. ASSUME NEW s \in Sagas, RefuseSubscription(s) PROVE
     [Contract!Next]_(Contract!contract)
  <2>1. Life' = Life
    BY <1>2 DEF RefuseSubscription, Finish, Life
  <2>2. Life[s] = "none"
    BY <1>2 DEF RefuseSubscription, Finish, Life
  <2>3. Contract!Refuse(s)
    BY <1>2, <2>1, <2>2 DEF RefuseSubscription, Finish, Contract!Refuse,
         Contract!Tell
  <2> QED
    BY <2>3 DEF Contract!Next
<1>3. ASSUME NEW s \in Sagas, PublishCommand(s) PROVE
     [Contract!Next]_(Contract!contract)
  <2>1. Life' = Life
    BY <1>3 DEF PublishCommand, GoTo, Life
  <2> QED
    BY <1>3, <2>1 DEF PublishCommand, GoTo, Contract!contract
<1>4. ASSUME NEW s \in Sagas, PublishCommandThrows(s) PROVE
     [Contract!Next]_(Contract!contract)
  <2>1. Life' = Life
    BY <1>4 DEF PublishCommandThrows, GoTo, Life
  <2> QED
    BY <1>4, <2>1 DEF PublishCommandThrows, GoTo, Contract!contract
<1>5. ASSUME NEW s \in Sagas, MarkAwaiting(s) PROVE
     [Contract!Next]_(Contract!contract)
  <2>1. Life' = Life
    BY <1>5 DEF MarkAwaiting, UpdateStatus, GoTo, Life
  <2> QED
    BY <1>5, <2>1 DEF MarkAwaiting, UpdateStatus, GoTo, Contract!contract
<1>6. ASSUME NEW s \in Sagas, ReplyTimeout(s) PROVE
     [Contract!Next]_(Contract!contract)
  <2>1. Life' = Life
    BY <1>6 DEF ReplyTimeout, Settle, Life
  <2> QED
    BY <1>6, <2>1 DEF ReplyTimeout, Settle, Contract!contract
<1>7. ASSUME NEW s \in Sagas, GrpcReturns(s) PROVE
     [Contract!Next]_(Contract!contract)
  <2>1. Life' = Life
    BY <1>7 DEF GrpcReturns, GoTo, AfterCall, Life
  <2> QED
    BY <1>7, <2>1 DEF GrpcReturns, GoTo, AfterCall, Contract!contract
<1>8. ASSUME NEW s \in Sagas, GrpcAmbiguous(s) PROVE
     [Contract!Next]_(Contract!contract)
  <2> DEFINE R == {s}
  <2>1. Life' = Life
    BY <1>8 DEF GrpcAmbiguous, Finish, Life
  <2>2. \A r \in R : Life[r] # "none" /\ answer[r] = "none"
    <3>1. pc[s] \in Live
      BY <1>8 DEF GrpcAmbiguous
    <3> QED
      BY <3>1, LiveUnanswered
  <2>3. answer' = [r \in Sagas |-> IF r \in R THEN "pending" ELSE answer[r]]
    BY <1>8 DEF GrpcAmbiguous, Finish
  <2>4. Contract!GiveUp(R, "pending")
    BY <1>8, <2>1, <2>2, <2>3 DEF GrpcAmbiguous, Finish, Contract!GiveUp
  <2>5. R \in SUBSET Sagas
    OBVIOUS
  <2> QED
    BY <2>4, <2>5 DEF Contract!Next
<1>9. ASSUME NEW s \in Sagas, Complete(s) PROVE
     [Contract!Next]_(Contract!contract)
  <2>1. Life' = Life
    BY <1>9 DEF Complete, UpdateStatus, Finish, Life
  <2>3. Contract!Succeed(s)
    BY <1>9, <2>1 DEF Complete, UpdateStatus, Finish, Contract!Succeed,
         Contract!Tell
  <2> QED
    BY <2>3 DEF Contract!Next
<1>10. ASSUME NEW s \in Sagas, MarkCompensating(s) PROVE
     [Contract!Next]_(Contract!contract)
  <2>1. Life' = Life
    BY <1>10 DEF MarkCompensating, UpdateStatus, GoTo, Life
  <2> QED
    BY <1>10, <2>1 DEF MarkCompensating, UpdateStatus, GoTo, Contract!contract
<1>11. ASSUME NEW s \in Sagas, FinishCompensation(s) PROVE
     [Contract!Next]_(Contract!contract)
  <2>1. Life' = [Life EXCEPT ![s] = "gone"]
    BY <1>11 DEF FinishCompensation, Finish, CompensationTx, UpdateStatus,
         Life
  <2>2. Life[s] # "none"
    <3>1. status[s] # "none"
      BY <1>11 DEF FinishCompensation
    <3> QED
      BY <3>1, StoredHasLife
  <2>3. Contract!Fail(s)
    BY <1>11, <2>1, <2>2 DEF FinishCompensation, Finish, CompensationTx,
         UpdateStatus, Contract!Fail, Contract!Tell
  <2> QED
    BY <2>3 DEF Contract!Next
<1>12. ASSUME NEW s \in Sagas, RequestDbFailure(s) PROVE
     [Contract!Next]_(Contract!contract)
  <2> DEFINE R == {s}
  <2>1. Life' = Life
    BY <1>12 DEF RequestDbFailure, Finish, Life
  <2>2. \A r \in R : Life[r] # "none" /\ answer[r] = "none"
    <3>1. pc[s] \in Live
      BY <1>12 DEF RequestDbFailure
    <3> QED
      BY <3>1, LiveUnanswered
  <2>3. answer' = [r \in Sagas |-> IF r \in R THEN "error" ELSE answer[r]]
    BY <1>12 DEF RequestDbFailure, Finish
  <2>4. Contract!GiveUp(R, "error")
    BY <1>12, <2>1, <2>2, <2>3 DEF RequestDbFailure, Finish, Contract!GiveUp
  <2>5. R \in SUBSET Sagas
    OBVIOUS
  <2> QED
    BY <2>4, <2>5 DEF Contract!Next
<1>13. ASSUME NEW s \in Sagas, UnhandledTimeout(s) PROVE
     [Contract!Next]_(Contract!contract)
  <2> DEFINE R == {t \in Sagas : pc[t] \in Live}
  <2>1. Life' = Life
    BY <1>13 DEF UnhandledTimeout, ProcessLost, Life
  <2>2. \A r \in R : Life[r] # "none" /\ answer[r] = "none"
    BY LiveUnanswered
  <2>3. answer' = [r \in Sagas |-> IF r \in R THEN "dropped" ELSE answer[r]]
    BY <1>13 DEF UnhandledTimeout, ProcessLost
  <2>4. Contract!GiveUp(R, "dropped")
    BY <1>13, <2>1, <2>2, <2>3 DEF UnhandledTimeout, ProcessLost,
         Contract!GiveUp
  <2>5. R \in SUBSET Sagas
    OBVIOUS
  <2> QED
    BY <2>4, <2>5 DEF Contract!Next
<1>14. ASSUME NEW s \in Sagas, DeliverCommand(s) PROVE
     [Contract!Next]_(Contract!contract)
  <2>1. Life' = Life
    BY <1>14 DEF DeliverCommand, Life
  <2> QED
    BY <1>14, <2>1 DEF DeliverCommand, Contract!contract
<1>15. ASSUME NEW s \in Sagas, MailAccepted(s) PROVE
     [Contract!Next]_(Contract!contract)
  <2>1. Life' = Life
    BY <1>15 DEF MailAccepted, Life
  <2>2. Life[s] # "none"
    <3>1. status[s] # "none"
      BY <1>15 DEF MailAccepted
    <3> QED
      BY <3>1, StoredHasLife
  <2>3. Contract!Notify(s)
    BY <1>15, <2>1, <2>2 DEF MailAccepted, Contract!Notify, Contract!Tell
  <2> QED
    BY <2>3 DEF Contract!Next
<1>16. ASSUME NEW s \in Sagas, MailRejected(s) PROVE
     [Contract!Next]_(Contract!contract)
  <2>1. Life' = Life
    BY <1>16 DEF MailRejected, Life
  <2> QED
    BY <1>16, <2>1 DEF MailRejected, Contract!contract
<1>17. ASSUME NEW s \in Sagas, PublishReply(s) PROVE
     [Contract!Next]_(Contract!contract)
  <2>1. Life' = Life
    BY <1>17 DEF PublishReply, ReplyFor, Life
  <2> QED
    BY <1>17, <2>1 DEF PublishReply, ReplyFor, Contract!contract
<1>18. ASSUME NEW s \in Sagas, AckCommand(s) PROVE
     [Contract!Next]_(Contract!contract)
  <2>1. Life' = Life
    BY <1>18 DEF AckCommand, Life
  <2> QED
    BY <1>18, <2>1 DEF AckCommand, Contract!contract
<1>19. ASSUME NEW s \in Sagas, ConfirmFind(s) PROVE
     [Contract!Next]_(Contract!contract)
  <2>1. Life' = Life
    BY <1>19 DEF ConfirmFind, FindByToken, Life
  <2> QED
    BY <1>19, <2>1 DEF ConfirmFind, FindByToken, Contract!contract
<1>20. ASSUME NEW s \in Sagas, ConfirmWrite(s) PROVE
     [Contract!Next]_(Contract!contract)
  <2>1. CASE row[s] = "absent"
    <3>1. row' = row
      BY <1>20, <2>1 DEF ConfirmWrite, SetConfirmed
    <3> QED
      BY <1>20, <3>1 DEF ConfirmWrite, SetConfirmed, Life, Contract!contract
  <2>2. CASE row[s] # "absent"
    <3>1. Life' = [Life EXCEPT ![s] = "confirmed"]
      BY <1>20, <2>2 DEF ConfirmWrite, SetConfirmed, Life
    <3>2. Life[s] \in {"pending", "confirmed"}
      BY <2>2 DEF Life
    <3>3. Contract!Confirm(s)
      BY <1>20, <3>1, <3>2 DEF ConfirmWrite, SetConfirmed, Contract!Confirm
    <3> QED
      BY <3>3 DEF Contract!Next
  <2> QED
    BY <2>1, <2>2
<1>21. ASSUME NEW s \in Sagas, UnsubscribeFind(s) PROVE
     [Contract!Next]_(Contract!contract)
  <2>1. Life' = Life
    BY <1>21 DEF UnsubscribeFind, FindByToken, Life
  <2> QED
    BY <1>21, <2>1 DEF UnsubscribeFind, FindByToken, Contract!contract
<1>22. ASSUME NEW s \in Sagas, UnsubscribeWrite(s) PROVE
     [Contract!Next]_(Contract!contract)
  <2>1. status[s] # "none"
    BY <1>22 DEF UnsubscribeWrite, Consistent, Begun, MailKnown
  <2>2. Life[s] # "none"
    BY <2>1, StoredHasLife
  <2>3. Life' = [Life EXCEPT ![s] = "gone"]
    <3>1. row' = [row EXCEPT ![s] = "absent"] /\ status' = status
      BY <1>22 DEF UnsubscribeWrite
    <3>2. row \in [Sagas -> {"absent", "pending", "confirmed"}]
      BY DEF TypeOK
    <3>3. Life'[s] = "gone"
      BY <2>1, <3>1, <3>2 DEF Life
    <3>4. \A t \in Sagas : t # s => Life'[t] = Life[t]
      BY <3>1, <3>2 DEF Life
    <3>5. Life = [t \in Sagas |-> Life[t]] /\ Life' = [t \in Sagas |-> Life'[t]]
      BY DEF Life
    <3>6. DOMAIN Life = Sagas /\ DOMAIN Life' = Sagas
      BY DEF Life
    <3> QED
      BY <3>3, <3>4, <3>5, <3>6
  <2>4. Contract!Remove(s)
    BY <1>22, <2>2, <2>3 DEF UnsubscribeWrite, Contract!Remove, Contract!Tell
  <2> QED
    BY <2>4 DEF Contract!Next
<1>23. ASSUME NEW s \in Sagas, RecoverMark(s) PROVE
     [Contract!Next]_(Contract!contract)
  <2>1. Life' = Life
    BY <1>23 DEF RecoverMark, UpdateStatusIfCurrent, Life
  <2> QED
    BY <1>23, <2>1 DEF RecoverMark, UpdateStatusIfCurrent, Contract!contract
<1>24. ASSUME NEW s \in Sagas, RecoverCompensate(s) PROVE
     [Contract!Next]_(Contract!contract)
  <2>1. Life' = [Life EXCEPT ![s] = "gone"]
    BY <1>24 DEF RecoverCompensate, CompensationTx, UpdateStatus, Life
  <2>2. Life[s] # "none"
    <3>1. status[s] # "none"
      BY <1>24 DEF RecoverCompensate
    <3> QED
      BY <3>1, StoredHasLife
  <2>3. Contract!Remove(s)
    BY <1>24, <2>1, <2>2 DEF RecoverCompensate, CompensationTx, UpdateStatus,
         Contract!Remove, Contract!Tell
  <2> QED
    BY <2>3 DEF Contract!Next
<1>25. ASSUME NEW s \in Sagas, NEW k \in Deliveries, ResolveReply(s, k) PROVE
     [Contract!Next]_(Contract!contract)
  <2>1. Life' = Life
    BY <1>25 DEF ResolveReply, Settle, Life
  <2> QED
    BY <1>25, <2>1 DEF ResolveReply, Settle, Contract!contract
<1>26. ASSUME NEW s \in Sagas, NEW k \in Deliveries, OrphanLookup(s, k) PROVE
     [Contract!Next]_(Contract!contract)
  <2>1. Life' = Life
    BY <1>26 DEF OrphanLookup, Life
  <2> QED
    BY <1>26, <2>1 DEF OrphanLookup, Contract!contract
<1>27. ASSUME NEW s \in Sagas, NEW k \in Deliveries, OrphanSuccess(s, k) PROVE
     [Contract!Next]_(Contract!contract)
  <2>1. Life' = Life
    BY <1>27 DEF OrphanSuccess, UpdateStatusIfCurrent, Life
  <2> QED
    BY <1>27, <2>1 DEF OrphanSuccess, UpdateStatusIfCurrent, Contract!contract
<1>28. ASSUME NEW s \in Sagas, NEW k \in Deliveries, OrphanFailure(s, k) PROVE
     [Contract!Next]_(Contract!contract)
  <2>1. Life' = Life
    BY <1>28 DEF OrphanFailure, UpdateStatusIfCurrent, Life
  <2> QED
    BY <1>28, <2>1 DEF OrphanFailure, UpdateStatusIfCurrent, Contract!contract
<1>29. ASSUME NEW s \in Sagas, NEW k \in Deliveries, OrphanCompensate(s, k)
     PROVE [Contract!Next]_(Contract!contract)
  <2>1. Life' = [Life EXCEPT ![s] = "gone"]
    BY <1>29 DEF OrphanCompensate, CompensationTx, UpdateStatus, Life
  <2>2. Life[s] # "none"
    <3>1. status[s] # "none"
      BY <1>29 DEF OrphanCompensate
    <3> QED
      BY <3>1, StoredHasLife
  <2>3. Contract!Remove(s)
    BY <1>29, <2>1, <2>2 DEF OrphanCompensate, CompensationTx, UpdateStatus,
         Contract!Remove, Contract!Tell
  <2> QED
    BY <2>3 DEF Contract!Next
<1>30. ASSUME NEW s \in Sagas, NEW k \in Deliveries, OrphanDbFailure(s, k)
     PROVE [Contract!Next]_(Contract!contract)
  <2>1. Life' = Life
    BY <1>30 DEF OrphanDbFailure, Life
  <2> QED
    BY <1>30, <2>1 DEF OrphanDbFailure, Contract!contract
<1>31. CASE StartApi
  <2>1. Life' = Life
    BY <1>31 DEF StartApi, Life
  <2> QED
    BY <1>31, <2>1 DEF StartApi, Contract!contract
<1>32. CASE ListAwaiting
  <2>1. Life' = Life
    BY <1>32 DEF ListAwaiting, ListSagas, FindByStatus, Life
  <2> QED
    BY <1>32, <2>1 DEF ListAwaiting, ListSagas, FindByStatus,
         Contract!contract
<1>33. CASE ListCompensating
  <2>1. Life' = Life
    BY <1>33 DEF ListCompensating, ListSagas, FindByStatus, PassOver, Life
  <2> QED
    BY <1>33, <2>1 DEF ListCompensating, ListSagas, FindByStatus, PassOver,
         Contract!contract
<1>34. CASE Serve
  <2>1. Life' = Life
    BY <1>34 DEF Serve, PassOver, Life
  <2> QED
    BY <1>34, <2>1 DEF Serve, PassOver, Contract!contract
<1>35. CASE RecoveryDbFailure
  <2> DEFINE R == {t \in Sagas : pc[t] \in Live}
  <2>1. Life' = Life
    BY <1>35 DEF RecoveryDbFailure, ProcessLost, Life
  <2>2. \A r \in R : Life[r] # "none" /\ answer[r] = "none"
    BY LiveUnanswered
  <2>3. answer' = [r \in Sagas |-> IF r \in R THEN "dropped" ELSE answer[r]]
    BY <1>35 DEF RecoveryDbFailure, ProcessLost
  <2>4. Contract!GiveUp(R, "dropped")
    BY <1>35, <2>1, <2>2, <2>3 DEF RecoveryDbFailure, ProcessLost,
         Contract!GiveUp
  <2>5. R \in SUBSET Sagas
    OBVIOUS
  <2> QED
    BY <2>4, <2>5 DEF Contract!Next
<1>36. CASE ApiCrash
  <2> DEFINE R == {t \in Sagas : pc[t] \in Live}
  <2>1. Life' = Life
    BY <1>36 DEF ApiCrash, ProcessLost, Life
  <2>2. \A r \in R : Life[r] # "none" /\ answer[r] = "none"
    BY LiveUnanswered
  <2>3. answer' = [r \in Sagas |-> IF r \in R THEN "dropped" ELSE answer[r]]
    BY <1>36 DEF ApiCrash, ProcessLost
  <2>4. Contract!GiveUp(R, "dropped")
    BY <1>36, <2>1, <2>2, <2>3 DEF ApiCrash, ProcessLost, Contract!GiveUp
  <2>5. R \in SUBSET Sagas
    OBVIOUS
  <2> QED
    BY <2>4, <2>5 DEF Contract!Next
<1>37. CASE NotifierCrash
  <2>1. Life' = Life
    BY <1>37 DEF NotifierCrash, Life
  <2> QED
    BY <1>37, <2>1 DEF NotifierCrash, Contract!contract
<1>38. CASE UNCHANGED vars
  BY <1>38 DEF vars, Life, Contract!contract
<1>39. QED
  BY <1>1, <1>2, <1>3, <1>4, <1>5, <1>6, <1>7, <1>8, <1>9, <1>10, <1>11,
       <1>12, <1>13, <1>14, <1>15, <1>16, <1>17, <1>18, <1>19, <1>20, <1>21,
       <1>22, <1>23, <1>24, <1>25, <1>26, <1>27, <1>28, <1>29, <1>30, <1>31,
       <1>32, <1>33, <1>34, <1>35, <1>36, <1>37, <1>38 DEF Next, RequestStep,
       NotifierStep, UserStep, ReplyStep, StartupStep

\* Orchestrator, reply handlers, recovery, notifier and links together
\* implement the abstract life of a subscribe request.
THEOREM SagaImplementsContract == Spec => ImplementsContract
<1>1. Init => Contract!Init
  BY DEF Init, Life, Contract!Init
<1>2. TypeOK /\ Consistent /\ [Next]_vars => [Contract!Next]_(Contract!contract)
  BY StepImplements
<1>3. QED
  BY <1>1, <1>2, TypeCorrect, AlwaysConsistent, PTL
     DEF Spec, ImplementsContract, Contract!Spec

-----------------------------------------------------------------------------
(* What the contract's invariant and steps say of the program. *)

LEMMA ContractIsKept ==
  ASSUME Contract!ContractInv, [Contract!Next]_(Contract!contract)
  PROVE  Contract!ContractInv' /\ Contract!NothingTakenBack
<1> USE DEF Contract!ContractInv, Contract!ContractTypeOK, Contract!AnsweredTruly,
            Contract!NothingTakenBack, Contract!Tell
<1> DEFINE KeptByStep == Contract!ContractInv' /\ Contract!NothingTakenBack
<1>1. ASSUME NEW r \in Sagas, Contract!Store(r) PROVE KeptByStep
  BY <1>1 DEF Contract!Store
<1>2. ASSUME NEW r \in Sagas, Contract!Refuse(r) PROVE KeptByStep
  BY <1>2 DEF Contract!Refuse
<1>3. ASSUME NEW r \in Sagas, Contract!Notify(r) PROVE KeptByStep
  BY <1>3 DEF Contract!Notify
<1>4. ASSUME NEW r \in Sagas, Contract!Confirm(r) PROVE KeptByStep
  BY <1>4 DEF Contract!Confirm
<1>5. ASSUME NEW r \in Sagas, Contract!Remove(r) PROVE KeptByStep
  BY <1>5 DEF Contract!Remove
<1>6. ASSUME NEW r \in Sagas, Contract!Succeed(r) PROVE KeptByStep
  BY <1>6 DEF Contract!Succeed
<1>7. ASSUME NEW r \in Sagas, Contract!Fail(r) PROVE KeptByStep
  BY <1>7 DEF Contract!Fail
<1>8. ASSUME NEW R \in SUBSET Sagas, NEW what \in {"pending", "error", "dropped"},
             Contract!GiveUp(R, what)
      PROVE  KeptByStep
  BY <1>8 DEF Contract!GiveUp
<1>9. CASE UNCHANGED Contract!contract
  BY <1>9 DEF Contract!contract
<1> QED
  BY <1>1, <1>2, <1>3, <1>4, <1>5, <1>6, <1>7, <1>8, <1>9 DEF Contract!Next

LEMMA ContractHolds ==
  Spec => []Contract!ContractInv /\ [][Contract!NothingTakenBack]_(Contract!contract)
<1>1. Contract!Init => Contract!ContractInv
  BY DEF Contract!Init, Contract!ContractInv, Contract!ContractTypeOK, Contract!AnsweredTruly
<1> QED
  BY <1>1, ContractIsKept, SagaImplementsContract, PTL
     DEF ImplementsContract, Contract!Spec

\* The row is confirmed, and the client told 200, only after the mail with the link
\* was accepted; a 500 for a failed mail leaves no row, and neither does a 409.
AnswersAreTrue ==
  \A s \in Sagas :
    /\ row[s] = "confirmed" \/ answer[s] = "ok" => s \in mailed
    /\ answer[s] = "failed" => row[s] = "absent"
    /\ answer[s] = "refused" => row[s] = "absent" /\ status[s] = "none"

\* Whatever races, crashes and redeliveries come between: the client's answer is
\* covered by the two tables and the mail.
THEOREM AnswersAreTrueAlways == Spec => []AnswersAreTrue
<1>1. TypeOK /\ Contract!ContractInv => AnswersAreTrue
  BY DEF TypeOK, Contract!ContractInv, Contract!ContractTypeOK, Contract!AnsweredTruly,
     AnswersAreTrue, Life
<1> QED
  BY <1>1, TypeCorrect, ContractHolds, PTL

\* No statement brings back a row that was deleted, turns a confirmed one back into
\* a pending one, or is followed by a second answer to the client: confirmations
\* and unsubscriptions read before they write, and compensations delete in between.
NothingReturns ==
  \A s \in Sagas :
    /\ row[s] = "absent" /\ status[s] # "none" => row'[s] = "absent"
    /\ row[s] = "confirmed" => row'[s] # "pending"
    /\ answer[s] # "none" => answer'[s] = answer[s]

THEOREM NothingEverReturns == Spec => [][NothingReturns]_vars
<1>1. TypeOK /\ TypeOK' /\ [Contract!NothingTakenBack]_(Contract!contract) => NothingReturns
  BY DEF TypeOK, Contract!NothingTakenBack, Contract!contract, NothingReturns, Life
<1> QED
  BY <1>1, TypeCorrect, ContractHolds, PTL
=============================================================================
