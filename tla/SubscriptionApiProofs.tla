------------------------ MODULE SubscriptionApiProofs ------------------------
(***************************************************************************)
(* ApiInv is inductive, and what the subscription API promises follows     *)
(* from it, for any number of calls, names, renames and faults.            *)
(***************************************************************************)
EXTENDS SubscriptionApi, TLAPS

\* What the run checks beside ApiInv, kept by the same steps.
Promises == NotFoundIsTrue /\ ClientErrorLeavesNothing /\ LinksActOnTheirRow

\* Every status is a string of its own, and none of them is "none".
LEMMA StatusFacts ==
  /\ HttpStatus \in [Kinds -> Statuses] /\ GrpcStatus \in [Kinds -> Statuses]
  /\ "none" \notin Statuses
  /\ \A k \in Kinds : \A status \in {HttpStatus[k], GrpcStatus[k]} :
       /\ status \in {"404", "NOT_FOUND"} => k = "NotFound"
       /\ status \in {"409", "ALREADY_EXISTS"} => k = "Conflict"
       /\ status \in ClientErrors => k \notin {"Ok", "Error"}
       /\ status \in {"200", "OK"} => k = "Ok"
  /\ HttpStatus["NotFound"] = "404"
BY DEF HttpStatus, GrpcStatus, Kinds, Statuses, ClientErrors

LEMMA ResponseFacts ==
  \A res \in Response : FetchRepository(res) \in {"Ok", "NotFound", "RateLimit", "Unreadable", "Error"}
BY DEF Response, FetchRepository

\* An answer ends the call with a status of its kind.
LEMMA AnswerFacts ==
  ASSUME TypeOK, NEW r \in Requests, NEW kind \in Kinds, Answer(r, kind)
  PROVE  /\ at' = [at EXCEPT ![r] = "answered"]
         /\ \E status \in Statuses :
              /\ told' = [told EXCEPT ![r] = status]
              /\ status \in {"404", "NOT_FOUND"} => kind = "NotFound"
              /\ status \in {"409", "ALREADY_EXISTS"} => kind = "Conflict"
              /\ status \in ClientErrors => kind \notin {"Ok", "Error"}
              /\ status \in {"200", "OK"} => kind = "Ok"
<1>1. PICK status \in {HttpStatus[kind], GrpcStatus[kind]} : told' = [told EXCEPT ![r] = status]
  BY DEF Answer
<1>2. status \in Statuses
  BY DEF Statuses
<1>3. /\ status \in {"404", "NOT_FOUND"} => kind = "NotFound"
      /\ status \in {"409", "ALREADY_EXISTS"} => kind = "Conflict"
      /\ status \in ClientErrors => kind \notin {"Ok", "Error"}
      /\ status \in {"200", "OK"} => kind = "Ok"
  BY StatusFacts
<1> QED
  BY <1>1, <1>2, <1>3 DEF Answer, GoesTo

LEMMA KindFacts ==
  /\ {"Ok", "Unauthorized", "Validation", "NotFound", "Conflict", "Error"} \subseteq Kinds
  /\ \A res \in Response : FetchRepository(res) \in Kinds
BY ResponseFacts DEF Kinds

-----------------------------------------------------------------------------
LEMMA InitInv == Init => ApiInv /\ Promises
<1> SUFFICES ASSUME Init PROVE ApiInv /\ Promises
  OBVIOUS
<1>1. TypeOK
  BY BoundsAssumption DEF Init, TypeOK, Call, Row, Places
<1>2. Canonical /\ UniqueRows /\ MissingIsNoticed
  BY DEF Init, Canonical, Known, UniqueRows, Live, MissingIsNoticed
<1>3. CallsInOrder /\ Promises
  BY StatusFacts DEF Init, CallsInOrder, Promises, NotFoundIsTrue, ClientErrorLeavesNothing,
     LinksActOnTheirRow, ClientErrors
<1> QED
  BY <1>1, <1>2, <1>3 DEF ApiInv

LEMMA TypeStep == TypeOK /\ [Next]_vars => TypeOK'
<1> SUFFICES ASSUME TypeOK, [Next]_vars PROVE TypeOK'
  OBVIOUS
<1> USE DEF TypeOK
<1>1. CASE Rename
  BY <1>1, BoundsAssumption DEF Rename
<1>2. CASE Disappear
  BY <1>2 DEF Disappear, UnderWay
<1>3. CASE Appear
  BY <1>3 DEF Appear
<1>4. ASSUME NEW n \in Names, CacheExpires(n) PROVE TypeOK'
  BY <1>4 DEF CacheExpires
<1>5. ASSUME NEW r \in Requests, NEW kind \in Kinds, Answer(r, kind), UNCHANGED call
      PROVE  /\ at' \in [Requests -> Places] /\ told' \in [Requests -> {"none"} \cup Statuses]
             /\ \A q \in Requests : at'[q] \in {"looking", "asking", "caching"} => call'[q].by # NoName
  BY <1>5, AnswerFacts DEF Places
<1>6. ASSUME NEW r \in Requests, NEW place \in Places, GoesTo(r, place)
      PROVE  at' \in [Requests -> Places]
  BY <1>6 DEF GoesTo
<1>7. Fault => faults' \in 0..MaxFaults
  BY BoundsAssumption DEF Fault
<1>8. ASSUME NEW r \in Requests, Arrives(r) PROVE missing' \subseteq Requests
  BY <1>8 DEF Arrives
<1>9. ASSUME NEW r \in Requests, Reject(r) PROVE TypeOK'
  BY <1>9, <1>5, <1>8, KindFacts DEF Reject
<1>9a. ASSUME NEW r \in Requests, List(r) PROVE TypeOK'
  BY <1>9a, <1>5, <1>7, <1>8, KindFacts DEF List
<1>10. ASSUME NEW r \in Requests, Subscribe(r) PROVE TypeOK'
  BY <1>10, <1>8, NoNameAssumption DEF Subscribe, GoesTo, Places, Call
<1>11. ASSUME NEW r \in Requests, CacheGet(r) PROVE TypeOK'
  <2>1. cache[call[r].by] \in Names \cup {NoName}
    BY <1>11 DEF CacheGet, Call
  <2> QED
    BY <1>11, <2>1 DEF CacheGet, GoesTo, Returns, Places
<1>12. ASSUME NEW r \in Requests, AskGitHub(r) PROVE TypeOK'
  <2>1. PICK res \in Response :
          /\ Replies(res)
          /\ IF FetchRepository(res) = "Ok"
             THEN Returns(r, name, "caching") /\ UNCHANGED told
             ELSE Answer(r, FetchRepository(res)) /\ UNCHANGED found
    BY <1>12 DEF AskGitHub
  <2>2. faults' \in 0..MaxFaults
    BY <2>1, <1>7 DEF Replies
  <2>3. CASE FetchRepository(res) = "Ok"
    BY <1>12, <2>1, <2>2, <2>3 DEF AskGitHub, Returns, GoesTo, Places
  <2>4. CASE FetchRepository(res) # "Ok"
    BY <1>12, <2>1, <2>2, <2>4, <1>5, KindFacts DEF AskGitHub
  <2> QED
    BY <2>3, <2>4
<1>13. ASSUME NEW r \in Requests, CachePut(r) PROVE TypeOK'
  BY <1>13 DEF CachePut, ToCache, GoesTo, Places
<1>14. ASSUME NEW r \in Requests, Store(r) PROVE TypeOK'
  <2>1. CASE Answer(r, "Conflict") /\ UNCHANGED row
    BY <1>14, <2>1, <1>5, KindFacts DEF Store
  <2>2. CASE /\ row' = [row EXCEPT ![r] = [state |-> "pending", name |-> Repository(r)]]
             /\ GoesTo(r, "stored") /\ UNCHANGED told
    BY <1>14, <2>2 DEF Store, GoesTo, Repository, Places, Row
  <2> QED
    BY <1>14, <2>1, <2>2 DEF Store
<1>15. ASSUME NEW r \in Requests, SagaEnds(r) PROVE TypeOK'
  <2>1. row' \in [Requests -> Row]
    BY <1>15 DEF SagaEnds, Row
  <2> QED
    BY <1>15, <2>1, <1>5, <1>7, KindFacts DEF SagaEnds
<1>16. ASSUME NEW r \in Requests, FindByToken(r) PROVE TypeOK'
  <2>1. CASE Answer(r, "NotFound")
    BY <1>16, <2>1, <1>5, KindFacts DEF FindByToken
  <2>2. CASE GoesTo(r, "writing") /\ UNCHANGED told
    BY <1>16, <2>2 DEF FindByToken, GoesTo, Places
  <2> QED
    BY <1>16, <2>1, <2>2 DEF FindByToken
<1>17. ASSUME NEW r \in Requests, Write(r) PROVE TypeOK'
  <2>1. row' \in [Requests -> Row]
    BY <1>17 DEF Write, Row
  <2> QED
    BY <1>17, <2>1, <1>5, KindFacts DEF Write
<1>18. ASSUME NEW r \in Requests, DatabaseFails(r) PROVE TypeOK'
  BY <1>18, <1>5, <1>7, KindFacts DEF DatabaseFails
<1>19. ASSUME NEW r \in Requests, NEW t \in Requests, FollowLink(r, t) PROVE TypeOK'
  BY <1>19, <1>8 DEF FollowLink, GoesTo, Places, Call
<1>20. CASE UNCHANGED vars
  BY <1>20 DEF vars
<1> QED
  BY <1>1, <1>2, <1>3, <1>4, <1>9, <1>10, <1>11, <1>12, <1>13, <1>14, <1>15, <1>16,
     <1>17, <1>18, <1>19, <1>20, <1>9a DEF Next

-----------------------------------------------------------------------------
\* What each step leaves of a call: only r's place and status change, and
\* never those of a call that was answered.
LEMMA CallsStep ==
  ASSUME TypeOK, CallsInOrder, [Next]_vars
  PROVE  \A r \in Requests : at[r] = "answered" =>
           /\ at'[r] = "answered" /\ told'[r] = told[r]
           /\ call'[r] = call[r] /\ found'[r] = found[r]
<1> USE DEF TypeOK
<1>0. ASSUME NEW r \in Requests, NEW kind \in Kinds, Answer(r, kind)
      PROVE  \A q \in Requests : q # r => at'[q] = at[q] /\ told'[q] = told[q]
  BY <1>0, AnswerFacts
<1>1. CASE UNCHANGED <<at, told, call, found>>
  BY <1>1
<1>2. ASSUME NEW r \in Requests, at[r] # "answered",
             \A q \in Requests : q # r => /\ at'[q] = at[q] /\ told'[q] = told[q]
                                          /\ call'[q] = call[q] /\ found'[q] = found[q]
      PROVE  \A q \in Requests : at[q] = "answered" =>
               /\ at'[q] = "answered" /\ told'[q] = told[q]
               /\ call'[q] = call[q] /\ found'[q] = found[q]
  BY <1>2
<1>3. ASSUME NEW r \in Requests,
             \/ Reject(r) \/ List(r) \/ Subscribe(r) \/ CacheGet(r) \/ AskGitHub(r) \/ CachePut(r)
             \/ Store(r) \/ SagaEnds(r) \/ FindByToken(r) \/ Write(r) \/ DatabaseFails(r)
             \/ \E t \in Requests : FollowLink(r, t)
      PROVE  /\ at[r] # "answered"
             /\ \A q \in Requests : q # r => /\ at'[q] = at[q] /\ told'[q] = told[q]
                                             /\ call'[q] = call[q] /\ found'[q] = found[q]
  BY <1>3, <1>0, KindFacts DEF Reject, List, Arrives, Subscribe, CacheGet, AskGitHub, CachePut, Store,
     SagaEnds, FindByToken, Write, DatabaseFails, FollowLink, GoesTo, Returns
<1> QED
  BY <1>1, <1>2, <1>3 DEF Next, vars, Rename, Disappear, Appear, CacheExpires

\* A name is learnt from GitHub or from Redis, and a row takes it over; an
\* answer touches neither.
LEMMA CanonicalStep == ApiInv /\ [Next]_vars => Canonical'
<1> SUFFICES ASSUME ApiInv, [Next]_vars, renames' = 0 PROVE Known' \subseteq {name', NoName}
  BY DEF Canonical
<1> USE DEF ApiInv, TypeOK
<1>1. CASE Rename
  BY <1>1 DEF Rename
<1>2. ASSUME ~ Rename
      PROVE  /\ name' = name /\ renames' = renames
  BY <1>2 DEF Next, vars, Rename, Disappear, Appear, CacheExpires, Reject, List, Subscribe, CacheGet,
     AskGitHub, CachePut, Store, SagaEnds, FindByToken, Write, DatabaseFails, FollowLink
<1>3. CASE ~ Rename
  <2> DEFINE Good(n) == n \in {name, NoName}
  <2>1. /\ \A n \in Names : Good(cache[n])
        /\ \A r \in Requests : Good(found[r]) /\ Good(row[r].name)
    BY <1>2, <1>3 DEF Canonical, Known
  <2>2. \A n \in Names : Good(cache'[n])
    BY <1>3, <2>1 DEF Next, vars, Disappear, Appear, CacheExpires, Reject, List, Subscribe, CacheGet,
       AskGitHub, CachePut, Store, SagaEnds, FindByToken, Write, DatabaseFails, FollowLink, ToCache
  <2>3. \A r \in Requests : Good(found'[r])
    <3>1. ASSUME NEW r \in Requests, CacheGet(r) PROVE \A q \in Requests : Good(found'[q])
      <4>1. at[r] = "looking" => cache[call[r].by] \in {name, NoName}
        BY <2>1 DEF Call
      <4> QED
        BY <3>1, <4>1, <2>1 DEF CacheGet, Returns
    <3>2. ASSUME NEW r \in Requests, AskGitHub(r) PROVE \A q \in Requests : Good(found'[q])
      BY <3>2, <2>1 DEF AskGitHub, Returns
    <3> QED
      BY <1>3, <2>1, <3>1, <3>2 DEF Next, vars, Disappear, Appear, CacheExpires, Reject, List, Subscribe,
         CachePut, Store, SagaEnds, FindByToken, Write, DatabaseFails, FollowLink
  <2>4. \A r \in Requests : Good(row'[r].name)
    <3>1. ASSUME NEW r \in Requests, Store(r) PROVE \A q \in Requests : Good(row'[q].name)
      BY <3>1, <2>1 DEF Store, Repository
    <3>2. ASSUME NEW r \in Requests, SagaEnds(r) PROVE \A q \in Requests : Good(row'[q].name)
      BY <3>2, <2>1 DEF SagaEnds, Row
    <3>3. ASSUME NEW r \in Requests, Write(r) PROVE \A q \in Requests : Good(row'[q].name)
      BY <3>3, <2>1 DEF Write, Row
    <3> QED
      BY <1>3, <2>1, <3>1, <3>2, <3>3 DEF Next, vars, Disappear, Appear, CacheExpires, Reject, List,
         Subscribe, CacheGet, AskGitHub, CachePut, FindByToken, DatabaseFails, FollowLink
  <2> QED
    BY <1>2, <1>3, <2>2, <2>3, <2>4 DEF Known
<1> QED
  BY <1>1, <1>3

\* What a step may do to the rows: a row is stored once, under a name no row
\* that lives has, and afterwards only its state moves on.
LEMMA RowsStep ==
  ASSUME TypeOK, UniqueRows, CallsInOrder, [Next]_vars
  PROVE  \/ UNCHANGED row
         \/ \E r \in Requests :
              /\ row[r].state = "none" /\ at[r] = "storing" /\ at'[r] = "stored"
              /\ found[r] # NoName
              /\ \A q \in Live : row[q].name # found[r]
              /\ row' = [row EXCEPT ![r] = [state |-> "pending", name |-> found[r]]]
         \/ \A q \in Requests :
              /\ row'[q].name = row[q].name
              /\ \/ row'[q].state = row[q].state
                 \/ row[q].state # "none" /\ row'[q].state = "gone"
                 \/ q \in Live /\ row'[q].state = "confirmed"
<1> USE DEF TypeOK
<1>1. ASSUME NEW r \in Requests, Store(r), row' # row
      PROVE  /\ row[r].state = "none" /\ at[r] = "storing" /\ at'[r] = "stored"
             /\ found[r] # NoName
             /\ \A q \in Live : row[q].name # found[r]
             /\ row' = [row EXCEPT ![r] = [state |-> "pending", name |-> found[r]]]
  BY <1>1 DEF Store, Repository, GoesTo, UniqueRows, CallsInOrder, Row
<1>2. ASSUME NEW r \in Requests, SagaEnds(r)
      PROVE  \/ UNCHANGED row
             \/ \A q \in Requests :
                  /\ row'[q].name = row[q].name
                  /\ \/ row'[q].state = row[q].state
                     \/ row[q].state # "none" /\ row'[q].state = "gone"
  BY <1>2 DEF SagaEnds, Row, CallsInOrder
<1>3. ASSUME NEW r \in Requests, Write(r)
      PROVE  \A q \in Requests :
               /\ row'[q].name = row[q].name
               /\ \/ row'[q].state = row[q].state
                  \/ row[q].state # "none" /\ row'[q].state = "gone"
                  \/ q \in Live /\ row'[q].state = "confirmed"
  BY <1>3 DEF Write, Written, Live, Row
<1> QED
  BY <1>1, <1>2, <1>3 DEF Next, vars, Rename, Disappear, Appear, CacheExpires, Reject, List,
     Subscribe, CacheGet, AskGitHub, CachePut, FindByToken, DatabaseFails, FollowLink

\* Two rows that live have different names: the unique constraint on the row
\* GitHub's name led to.
LEMMA UniqueStep == ApiInv /\ [Next]_vars => UniqueRows'
<1> SUFFICES ASSUME ApiInv, [Next]_vars PROVE UniqueRows'
  OBVIOUS
<1> USE DEF ApiInv, TypeOK
<1>1. \A r \in Requests : row'[r].state # "none" => row'[r].name # NoName
  BY RowsStep DEF UniqueRows, Live
<1>2. \A r, q \in Live' : row'[r].name = row'[q].name => r = q
  BY RowsStep DEF UniqueRows, Live
<1>3. \A r \in Requests : at'[r] \in {"caching", "storing"} => found'[r] # NoName
  <2>1. \A r \in Requests : at[r] \in {"caching", "storing"} => found[r] # NoName
    BY DEF UniqueRows
  <2>2. ASSUME NEW r \in Requests, NEW kind \in Kinds, Answer(r, kind), UNCHANGED found
        PROVE  \A q \in Requests : at'[q] \in {"caching", "storing"} => found'[q] # NoName
    BY <2>1, <2>2, AnswerFacts
  <2>3. ASSUME NEW r \in Requests, CacheGet(r) \/ AskGitHub(r)
        PROVE  \A q \in Requests : at'[q] \in {"caching", "storing"} => found'[q] # NoName
    BY <2>1, <2>2, <2>3, KindFacts, NoNameAssumption DEF CacheGet, AskGitHub, GoesTo, Returns
  <2>4. ASSUME NEW r \in Requests, Store(r) \/ SagaEnds(r) \/ FindByToken(r) \/ Write(r)
                                   \/ DatabaseFails(r) \/ Reject(r) \/ List(r)
        PROVE  \A q \in Requests : at'[q] \in {"caching", "storing"} => found'[q] # NoName
    BY <2>1, <2>2, <2>4, KindFacts DEF Store, SagaEnds, FindByToken, Write, DatabaseFails,
       Reject, List, GoesTo
  <2> QED
    BY <2>1, <2>3, <2>4 DEF Next, vars, Rename, Disappear, Appear, CacheExpires, Subscribe,
       CachePut, FollowLink, GoesTo
<1> QED
  BY <1>1, <1>2, <1>3 DEF UniqueRows

\* A call goes through its places in the order of its handler.
LEMMA OrderStep == ApiInv /\ [Next]_vars => CallsInOrder'
<1> SUFFICES ASSUME ApiInv, [Next]_vars PROVE CallsInOrder'
  OBVIOUS
<1> USE DEF ApiInv, TypeOK
<1>0. \A r \in Requests : call[r].target \in Requests
  BY DEF Call
<1>1. \A r \in Requests : row[r].state # "none" => row'[r].state # "none"
  BY RowsStep
<1>2. ASSUME NEW r \in Requests, at[r] # "answered", at'[r] = "answered",
             \A q \in Requests : q # r => at'[q] = at[q] /\ told'[q] = told[q],
             UNCHANGED call
      PROVE  CallsInOrder'
  <2>1. \A q \in Requests : row[q].state # "none" <=> row'[q].state # "none"
    BY <1>2, RowsStep DEF Live
  <2> QED
    BY <1>0, <1>2, <2>1 DEF CallsInOrder
<1>3. ASSUME NEW r \in Requests, at[r] # "answered", UNCHANGED told,
             \A q \in Requests : q # r => at'[q] = at[q], UNCHANGED call,
             \/ at[r] \in {"looking", "asking", "caching"} /\ at'[r] \in {"asking", "caching", "storing"}
             \/ at[r] = "finding" /\ at'[r] = "writing",
             row' = row
      PROVE  CallsInOrder'
  BY <1>0, <1>3 DEF CallsInOrder
<1>4. ASSUME NEW r \in Requests, NEW kind \in Kinds, Answer(r, kind), UNCHANGED call,
             at[r] # "answered"
      PROVE  CallsInOrder'
  BY <1>2, <1>4, AnswerFacts
<1>5. ASSUME NEW r \in Requests, Subscribe(r) PROVE CallsInOrder'
  BY <1>5 DEF Subscribe, Arrives, GoesTo, CallsInOrder
<1>6. ASSUME NEW r \in Requests, NEW t \in Requests, FollowLink(r, t) PROVE CallsInOrder'
  BY <1>6 DEF FollowLink, Arrives, GoesTo, CallsInOrder
<1>7. ASSUME NEW r \in Requests, CacheGet(r) \/ CachePut(r) PROVE CallsInOrder'
  BY <1>3, <1>7 DEF CacheGet, CachePut, GoesTo, Returns
<1>8. ASSUME NEW r \in Requests, AskGitHub(r) PROVE CallsInOrder'
  BY <1>3, <1>4, <1>8, KindFacts DEF AskGitHub, Returns, GoesTo
<1>9. ASSUME NEW r \in Requests, Store(r) PROVE CallsInOrder'
  <2>1. CASE Answer(r, "Conflict")
    BY <1>4, <1>9, <2>1, KindFacts DEF Store
  <2>2. CASE /\ row' = [row EXCEPT ![r] = [state |-> "pending", name |-> Repository(r)]]
             /\ GoesTo(r, "stored") /\ UNCHANGED told
    BY <1>9, <2>2 DEF Store, GoesTo, CallsInOrder
  <2> QED
    BY <1>9, <2>1, <2>2 DEF Store
<1>10. ASSUME NEW r \in Requests, FindByToken(r) PROVE CallsInOrder'
  BY <1>3, <1>4, <1>10, KindFacts DEF FindByToken, GoesTo
<1>11. ASSUME NEW r \in Requests, Reject(r) \/ List(r) \/ SagaEnds(r) \/ Write(r) \/ DatabaseFails(r)
       PROVE  CallsInOrder'
  BY <1>4, <1>11, KindFacts DEF Reject, List, Arrives, SagaEnds, Write, DatabaseFails
<1>12. CASE UNCHANGED <<at, told, call, row>>
  BY <1>12 DEF CallsInOrder
<1> QED
  BY <1>5, <1>6, <1>7, <1>8, <1>9, <1>10, <1>11, <1>12 DEF Next, vars, Rename, Disappear,
     Appear, CacheExpires

\* A repository that goes marks the calls under way, and those that arrive
\* while it is gone mark themselves.
LEMMA MissingStep == ApiInv /\ [Next]_vars => MissingIsNoticed' /\ missing \subseteq missing'
<1> SUFFICES ASSUME ApiInv, [Next]_vars
             PROVE  MissingIsNoticed' /\ missing \subseteq missing'
  OBVIOUS
<1> USE DEF ApiInv, TypeOK
<1>1. CASE Disappear
  BY <1>1 DEF Disappear, MissingIsNoticed, UnderWay
<1>2. ASSUME NEW r \in Requests, Arrives(r), UNCHANGED exists,
             \A q \in Requests : q # r => at'[q] = at[q]
      PROVE  MissingIsNoticed' /\ missing \subseteq missing'
  BY <1>2 DEF Arrives, MissingIsNoticed, UnderWay
<1>3. ASSUME NEW r \in Requests, at[r] \notin {"idle", "answered"}, UNCHANGED <<exists, missing>>,
             \A q \in Requests : q # r => at'[q] = at[q]
      PROVE  MissingIsNoticed' /\ missing \subseteq missing'
  BY <1>3 DEF MissingIsNoticed, UnderWay
<1>4. ASSUME NEW r \in Requests, NEW kind \in Kinds, Answer(r, kind)
      PROVE  \A q \in Requests : q # r => at'[q] = at[q]
  BY <1>4, AnswerFacts
<1>5. ASSUME NEW r \in Requests,
             Reject(r) \/ List(r) \/ Subscribe(r) \/ \E t \in Requests : FollowLink(r, t)
      PROVE  MissingIsNoticed' /\ missing \subseteq missing'
  BY <1>2, <1>4, <1>5, KindFacts DEF Reject, List, Subscribe, FollowLink, Arrives, GoesTo
<1>6. ASSUME NEW r \in Requests,
             \/ CacheGet(r) \/ AskGitHub(r) \/ CachePut(r) \/ Store(r) \/ SagaEnds(r)
             \/ FindByToken(r) \/ Write(r) \/ DatabaseFails(r)
      PROVE  MissingIsNoticed' /\ missing \subseteq missing'
  BY <1>3, <1>4, <1>6, KindFacts DEF CacheGet, AskGitHub, CachePut, Store, SagaEnds,
     FindByToken, Write, DatabaseFails, GoesTo, Returns
<1>7. CASE UNCHANGED <<exists, missing, at>> \/ Appear
  BY <1>7 DEF Appear, MissingIsNoticed, UnderWay
<1> QED
  BY <1>1, <1>5, <1>6, <1>7 DEF Next, vars, Rename, CacheExpires

LEMMA InvStep == ApiInv /\ [Next]_vars => ApiInv'
BY TypeStep, CanonicalStep, UniqueStep, OrderStep, MissingStep DEF ApiInv

-----------------------------------------------------------------------------
\* Which answers give a status of each class, and in which state.
LEMMA ToldStep ==
  ASSUME ApiInv, [Next]_vars, NEW r \in Requests, told'[r] # told[r]
  PROVE  /\ at[r] # "answered" /\ at'[r] = "answered" /\ told'[r] \in Statuses
         /\ told'[r] \in {"404", "NOT_FOUND"} =>
              \/ at[r] = "asking" /\ ~ exists /\ UNCHANGED call
              \/ at[r] = "finding" /\ call[r].target \notin Live /\ UNCHANGED <<call, row>>
         /\ told'[r] \in {"409", "ALREADY_EXISTS"} =>
              /\ at[r] = "storing" /\ UNCHANGED <<call, found, row>>
              /\ \E q \in Live : row[q].name = found[r]
         /\ told'[r] \in ClientErrors => at[r] # "stored" /\ UNCHANGED row
         /\ told'[r] \in {"200", "OK"} =>
              \/ at[r] \in {"idle", "stored"} /\ UNCHANGED call
              \/ Write(r)
<1> USE DEF ApiInv, TypeOK
<1> DEFINE Client == told'[r] \in ClientErrors
           Conflict == told'[r] \in {"409", "ALREADY_EXISTS"}
           Missing == told'[r] \in {"404", "NOT_FOUND"}
           Fine == told'[r] \in {"200", "OK"}
           Told == r \in Requests /\ at'[r] = "answered" /\ told'[r] \in Statuses
<1>1. ASSUME NEW q \in Requests, NEW kind \in Kinds, Answer(q, kind)
      PROVE  /\ q = r /\ Told
             /\ Missing => kind = "NotFound"
             /\ Conflict => kind = "Conflict"
             /\ Client => kind \notin {"Ok", "Error"}
             /\ Fine => kind = "Ok"
  BY <1>1, AnswerFacts
<1>2. ASSUME NEW q \in Requests, AskGitHub(q)
      PROVE  /\ q = r /\ at[r] = "asking" /\ Told /\ UNCHANGED <<call, row>>
             /\ Missing => ~ exists
             /\ ~ Conflict /\ ~ Fine
  <2>1. PICK res \in Response :
          /\ Replies(res) /\ FetchRepository(res) # "Ok" /\ Answer(q, FetchRepository(res))
    BY <1>2 DEF AskGitHub
  <2>2. FetchRepository(res) = "NotFound" => ~ exists
    BY <2>1 DEF FetchRepository, Replies
  <2> QED
    BY <1>1, <1>2, <2>1, <2>2, KindFacts, ResponseFacts DEF AskGitHub
<1>3. ASSUME NEW q \in Requests, Reject(q)
      PROVE  /\ q = r /\ at[r] = "idle" /\ Told /\ UNCHANGED row
             /\ ~ Missing /\ ~ Conflict /\ ~ Fine
  BY <1>1, <1>3, KindFacts DEF Reject, Arrives
<1>4. ASSUME NEW q \in Requests, Store(q)
      PROVE  /\ q = r /\ at[r] = "storing" /\ Told /\ UNCHANGED <<call, found, row>>
             /\ \E p \in Live : row[p].name = found[r]
             /\ ~ Missing /\ ~ Fine
  BY <1>1, <1>4, KindFacts DEF Store, Repository
<1>5. ASSUME NEW q \in Requests, SagaEnds(q)
      PROVE  /\ q = r /\ at[r] = "stored" /\ Told /\ UNCHANGED call
             /\ ~ Missing /\ ~ Conflict /\ ~ Client
  BY <1>1, <1>5, KindFacts DEF SagaEnds
<1>6. ASSUME NEW q \in Requests, FindByToken(q)
      PROVE  /\ q = r /\ at[r] = "finding" /\ Told
             /\ UNCHANGED <<call, row>> /\ call[r].target \notin Live
             /\ ~ Conflict /\ ~ Fine
  BY <1>1, <1>6, KindFacts DEF FindByToken
<1>7. ASSUME NEW q \in Requests, Write(q)
      PROVE  /\ q = r /\ at[r] = "writing" /\ Told
             /\ ~ Missing /\ ~ Conflict /\ ~ Client
  BY <1>1, <1>7, KindFacts DEF Write
<1>8. ASSUME NEW q \in Requests, DatabaseFails(q)
      PROVE  /\ q = r /\ at[r] # "answered" /\ Told
             /\ ~ Missing /\ ~ Conflict /\ ~ Client /\ ~ Fine
  BY <1>1, <1>8, KindFacts DEF DatabaseFails
<1>9. ASSUME NEW q \in Requests, List(q)
      PROVE  /\ q = r /\ at[r] = "idle" /\ Told /\ UNCHANGED call
             /\ ~ Missing /\ ~ Conflict /\ ~ Client
  BY <1>1, <1>9, KindFacts DEF List, Arrives
<1> QED
  BY <1>2, <1>3, <1>4, <1>5, <1>6, <1>7, <1>8, <1>9 DEF Next, vars, Rename, Disappear, Appear,
     CacheExpires, Subscribe, CacheGet, CachePut, FollowLink

\* 404 is only told when it was so, and stays so: rows that are gone are gone.
LEMMA NotFoundStep == ApiInv /\ NotFoundIsTrue /\ [Next]_vars => NotFoundIsTrue'
<1> SUFFICES ASSUME ApiInv, NotFoundIsTrue, [Next]_vars, NEW r \in Requests,
                    told'[r] \in {"404", "NOT_FOUND"}
             PROVE  IF call'[r].op = "subscribe" THEN r \in missing'
                    ELSE row'[call'[r].target].state = "gone"
  BY DEF NotFoundIsTrue, HttpStatus
<1> USE DEF ApiInv, TypeOK
<1>1. call[r].target \in Requests
  BY DEF Call
<1>2. \A q \in Requests : row[q].state = "gone" => row'[q].state = "gone"
  BY RowsStep DEF Live
<1>3. CASE told'[r] = told[r]
  <2>1. at[r] = "answered"
    BY <1>3 DEF CallsInOrder
  <2>2. call'[r] = call[r]
    BY <2>1, CallsStep
  <2>3. IF call[r].op = "subscribe" THEN r \in missing ELSE row[call[r].target].state = "gone"
    BY <1>3 DEF NotFoundIsTrue, HttpStatus
  <2> QED
    BY <1>1, <1>2, <2>2, <2>3, MissingStep
<1>4. CASE told'[r] # told[r]
  <2>1. CASE at[r] = "asking" /\ ~ exists /\ UNCHANGED call
    <3>1. call[r].op = "subscribe" /\ r \in missing
      BY <2>1 DEF CallsInOrder, MissingIsNoticed, UnderWay
    <3> QED
      BY <2>1, <3>1, MissingStep
  <2>2. CASE at[r] = "finding" /\ call[r].target \notin Live /\ UNCHANGED <<call, row>>
    <3>1. call[r].op # "subscribe" /\ row[call[r].target].state # "none"
      BY <2>2 DEF CallsInOrder
    <3>2. row[call[r].target].state = "gone"
      BY <1>1, <2>2, <3>1 DEF Live, Row
    <3> QED
      BY <2>2, <3>1, <3>2
  <2> QED
    BY <1>4, <2>1, <2>2, ToldStep
<1> QED
  BY <1>3, <1>4

\* A client error is told where nothing is stored, and a row outlives its name.
LEMMA ClientErrorStep ==
  ApiInv /\ ClientErrorLeavesNothing /\ [Next]_vars => ClientErrorLeavesNothing'
<1> SUFFICES ASSUME ApiInv, ClientErrorLeavesNothing, [Next]_vars
             PROVE  ClientErrorLeavesNothing'
  OBVIOUS
<1> USE DEF ApiInv, TypeOK
<1>1. ASSUME NEW r \in Requests, call'[r].op = "subscribe", told'[r] \in ClientErrors
      PROVE  row'[r].state = "none"
  <2>1. CASE told'[r] = told[r]
    <3>1. at[r] = "answered"
      BY <1>1, <2>1 DEF CallsInOrder, ClientErrors
    <3>2. call'[r] = call[r]
      BY <3>1, CallsStep
    <3>3. row[r].state = "none"
      BY <1>1, <2>1, <3>2 DEF ClientErrorLeavesNothing
    <3> QED
      BY <3>1, <3>3, RowsStep DEF Live
  <2>2. CASE told'[r] # told[r]
    <3>1. at[r] \notin {"stored", "answered"} /\ UNCHANGED row
      BY <1>1, <2>2, ToldStep
    <3> QED
      BY <3>1 DEF CallsInOrder
  <2> QED
    BY <2>1, <2>2
<1>2. ASSUME NEW r \in Requests, call'[r].op = "subscribe", told'[r] \in {"409", "ALREADY_EXISTS"}
      PROVE  \E q \in Requests \ {r} : row'[q].state # "none" /\ row'[q].name = found'[r]
  <2>1. CASE told'[r] = told[r]
    <3>1. at[r] = "answered"
      BY <1>2, <2>1 DEF CallsInOrder
    <3>2. call'[r] = call[r] /\ found'[r] = found[r]
      BY <3>1, CallsStep
    <3>3. PICK q \in Requests \ {r} : row[q].state # "none" /\ row[q].name = found[r]
      BY <1>2, <2>1, <3>2 DEF ClientErrorLeavesNothing
    <3>4. row'[q].state # "none" /\ row'[q].name = row[q].name
      BY <3>3, RowsStep DEF Live
    <3> QED
      BY <3>2, <3>3, <3>4
  <2>2. CASE told'[r] # told[r]
    <3>1. at[r] = "storing" /\ UNCHANGED <<found, row>>
      BY <1>2, <2>2, ToldStep
    <3>2. PICK q \in Live : row[q].name = found[r]
      BY <1>2, <2>2, ToldStep
    <3>3. row[r].state = "none"
      BY <3>1 DEF CallsInOrder
    <3> QED
      BY <3>1, <3>2, <3>3 DEF Live
  <2> QED
    BY <2>1, <2>2
<1>3. \A q \in Requests : row'[q].state # "none" => call'[q].op = "subscribe"
  BY OrderStep DEF CallsInOrder
<1>4. \A r \in Requests : call'[r].op = "subscribe" =>
        /\ told'[r] \in ClientErrors => row'[r].state = "none"
        /\ told'[r] \in {"409", "ALREADY_EXISTS"} =>
             \E q \in Requests \ {r} : /\ row'[q].state # "none" /\ row'[q].name = found'[r]
                                       /\ told'[q] \notin ClientErrors
  BY <1>1, <1>2, <1>3
<1> QED
  BY <1>4 DEF ClientErrorLeavesNothing

\* Only the write of a link confirms, and it confirms the row it was mailed for.
LEMMA LinksStep == ApiInv /\ LinksActOnTheirRow /\ [Next]_vars => LinksActOnTheirRow'
<1> SUFFICES ASSUME ApiInv, LinksActOnTheirRow, [Next]_vars PROVE LinksActOnTheirRow'
  OBVIOUS
<1> USE DEF ApiInv, TypeOK
<1>1. \A r \in Requests : call[r].target \in Requests
  BY DEF Call
<1>2. ASSUME NEW r \in Requests, Write(r)
      PROVE  /\ at[r] = "writing" /\ at'[r] = "answered" /\ call' = call
             /\ row[call[r].target].state # "none"
             /\ \A q \in Requests :
                  row'[q].state = IF q = call[r].target /\ q \in Live
                                  THEN IF call[r].op = "confirm" THEN "confirmed" ELSE "gone"
                                  ELSE row[q].state
  <2>1. at'[r] = "answered"
    BY <1>2, AnswerFacts, KindFacts DEF Write
  <2>2. at[r] = "writing" /\ row[call[r].target].state # "none"
    BY <1>2 DEF Write, CallsInOrder
  <2>3. \A q \in Requests : q \in Written(r) <=> q = call[r].target /\ q \in Live
    BY DEF Written
  <2> QED
    BY <1>2, <2>1, <2>2, <2>3 DEF Write, Row
<1>3. ASSUME NEW t \in Requests, row'[t].state = "confirmed"
      PROVE  \E r \in Requests : call'[r].op = "confirm" /\ call'[r].target = t
                                 /\ at'[r] = "answered"
  <2>1. CASE row[t].state = "confirmed"
    <3>1. PICK r \in Requests : call[r].op = "confirm" /\ call[r].target = t
                                /\ at[r] = "answered"
      BY <2>1 DEF LinksActOnTheirRow
    <3> QED
      BY <3>1, CallsStep
  <2>2. CASE row[t].state # "confirmed"
    <3>1. \E r \in Requests : Write(r)
      <4>1. ASSUME NEW r \in Requests, Store(r) PROVE FALSE
        BY <1>3, <2>2, <4>1 DEF Store
      <4>2. ASSUME NEW r \in Requests, SagaEnds(r) PROVE FALSE
        BY <1>3, <2>2, <4>2 DEF SagaEnds, Row
      <4> QED
        BY <1>3, <2>2, <4>1, <4>2 DEF Next, vars, Rename, Disappear, Appear, CacheExpires, Reject, List,
           Subscribe, CacheGet, AskGitHub, CachePut, FindByToken, DatabaseFails, FollowLink
    <3> QED
      BY <1>2, <1>3, <2>2, <3>1
  <2> QED
    BY <2>1, <2>2
<1>4. ASSUME NEW r \in Requests, told'[r] \in {"200", "OK"}
      PROVE  /\ call'[r].op = "confirm" => row'[call'[r].target].state \in {"confirmed", "gone"}
             /\ call'[r].op = "unsubscribe" => row'[call'[r].target].state = "gone"
  <2>1. CASE told'[r] = told[r]
    <3>1. at[r] = "answered"
      BY <1>4, <2>1 DEF CallsInOrder
    <3>2. call'[r] = call[r]
      BY <3>1, CallsStep
    <3>3. \A q \in Requests :
            /\ row[q].state = "gone" => row'[q].state = "gone"
            /\ row[q].state = "confirmed" => row'[q].state \in {"confirmed", "gone"}
      BY RowsStep DEF Live
    <3>4. /\ call[r].op = "confirm" => row[call[r].target].state \in {"confirmed", "gone"}
          /\ call[r].op = "unsubscribe" => row[call[r].target].state = "gone"
      BY <1>4, <2>1 DEF LinksActOnTheirRow
    <3> QED
      BY <1>1, <3>2, <3>3, <3>4
  <2>2. CASE told'[r] # told[r] /\ at[r] \in {"idle", "stored"} /\ UNCHANGED call
    BY <2>2 DEF CallsInOrder
  <2>3. CASE Write(r)
    <3>1. call[r].op \in {"confirm", "unsubscribe"}
      BY <1>2, <2>3 DEF CallsInOrder
    <3>2. row[call[r].target].state \in {"pending", "confirmed", "gone"}
      BY <1>1, <1>2, <2>3 DEF Row
    <3> QED
      BY <1>1, <1>2, <2>3, <3>1, <3>2 DEF Live
  <2> QED
    BY <1>4, <2>1, <2>2, <2>3, ToldStep
<1> QED
  BY <1>3, <1>4 DEF LinksActOnTheirRow

-----------------------------------------------------------------------------
\* In every reachable state, for any number of calls, names, renames and
\* faults: the invariant, and what the API promises.
LEMMA Invariant == Spec => [](ApiInv /\ Promises)
<1>1. (ApiInv /\ Promises) /\ [Next]_vars => (ApiInv /\ Promises)'
  BY InvStep, NotFoundStep, ClientErrorStep, LinksStep DEF Promises
<1> QED
  BY <1>1, InitInv, PTL DEF Spec

\* The API's inductive invariant, its types included (SubscriptionService, the
\* handlers of both APIs, the caching decorator).
THEOREM ApiInvariant == Spec => []ApiInv
BY Invariant, PTL

\* Without renames, two spellings of a repository never become two rows that
\* live (CreateSubscriptionStep, findOrCreate, createSubscription).
THEOREM OneSubscription == Spec => []OneSubscriptionPerRepository
<1>1. ApiInv => OneSubscriptionPerRepository
  BY DEF ApiInv, Canonical, UniqueRows, Known, Live, OneSubscriptionPerRepository
<1> QED
  BY <1>1, Invariant, PTL

\* 404 is told of nothing that was there all along (fetchRepository, the cache,
\* confirm and unsubscribe).
THEOREM NotFoundHolds == Spec => []NotFoundIsTrue
<1>1. Promises => NotFoundIsTrue
  BY DEF Promises
<1> QED
  BY <1>1, Invariant, PTL

\* What is told a client error has stored nothing and stands in nobody's way
\* (the creation transaction, resolveStatus, toGrpcError).
THEOREM ClientErrorHolds == Spec => []ClientErrorLeavesNothing
<1>1. Promises => ClientErrorLeavesNothing
  BY DEF Promises
<1> QED
  BY <1>1, Invariant, PTL

\* A link acts on the row it was mailed for, and who was told it is done finds
\* it done (SubscriptionService.confirm and unsubscribe).
THEOREM LinksHold == Spec => []LinksActOnTheirRow
<1>1. Promises => LinksActOnTheirRow
  BY DEF Promises
<1> QED
  BY <1>1, Invariant, PTL
=============================================================================
