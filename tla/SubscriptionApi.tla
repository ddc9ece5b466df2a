--------------------------- MODULE SubscriptionApi ---------------------------
(***************************************************************************)
(* The HTTP and gRPC subscription API in front of the saga, for one e-mail *)
(* and one repository on GitHub: the API key and validation, the lookup of *)
(* the repository through CachingGithubHttpClientDecorator and Redis, the  *)
(* row under its unique constraint, the links of the mails, and the two    *)
(* tables that turn an error into a status.                                *)
(*                                                                         *)
(* Every name in Names leads to the repository: GitHub ignores case and    *)
(* follows renames. The full_name it answers with is the canonical one.    *)
(* Calls are readable: Fastify's own errors (a body that is not JSON) never*)
(* reach a handler and are left out.                                       *)
(***************************************************************************)
EXTENDS Naturals

CONSTANTS
  Requests,    \* calls of either API
  Names,       \* owner/repo names that lead to the repository
  NoName,
  MaxRenames,  \* bound: renames on GitHub
  MaxFaults    \* bound: failed statements, sagas and GitHub calls

ASSUME NoNameAssumption == NoName \notin Names
ASSUME BoundsAssumption == MaxRenames \in Nat /\ MaxFaults \in Nat

VARIABLES
  name,     \* the repository's canonical name on GitHub
  exists,   \* GitHub has it
  renames,
  cache,    \* Redis, by the name asked for
  at,       \* where a call is
  call,     \* what it asks for
  found,    \* the name getRepository returned to it
  row,      \* the subscription a subscribe call has stored
  told,     \* the status a call was answered with
  missing,  \* calls under way while GitHub did not have the repository
  faults

vars == <<name, exists, renames, cache, at, call, found, row, told, missing, faults>>

Places == {"idle", "looking", "asking", "caching", "storing", "stored",
           "finding", "writing", "answered"}

Call == [op : {"none", "subscribe", "confirm", "unsubscribe"},
         by : Names \cup {NoName},  \* request.body.repo
         target : Requests]         \* whose mail the link is from

Row == [state : {"none", "pending", "confirmed", "gone"},
        name : Names \cup {NoName}]

-----------------------------------------------------------------------------
(* Errors and what the APIs make of them. *)

\* Plain errors and an AppError of no listed class have no entry of their own.
\* Unreadable is a ZodError that is not about the request: HTTP asks for
\* error.validation, which only the route's own schema sets, gRPC for a ZodError.
Kinds == {"Ok", "Unauthorized", "Validation", "NotFound", "Conflict", "RateLimit",
          "Unreadable", "Error"}

HttpStatus ==
  [Ok |-> "200", Unauthorized |-> "401", Validation |-> "400", NotFound |-> "404",
   Conflict |-> "409", RateLimit |-> "429", Unreadable |-> "500", Error |-> "500"]

GrpcStatus ==
  [Ok |-> "OK", Unauthorized |-> "UNAUTHENTICATED", Validation |-> "INVALID_ARGUMENT",
   NotFound |-> "NOT_FOUND", Conflict |-> "ALREADY_EXISTS",
   RateLimit |-> "RESOURCE_EXHAUSTED", Unreadable |-> "INVALID_ARGUMENT",
   Error |-> "INTERNAL"]

Statuses == {HttpStatus[k] : k \in Kinds} \cup {GrpcStatus[k] : k \in Kinds}

TypeOK ==
  /\ name \in Names /\ exists \in BOOLEAN
  /\ renames \in 0..MaxRenames /\ faults \in 0..MaxFaults
  /\ cache \in [Names -> Names \cup {NoName}]
  /\ at \in [Requests -> Places]
  /\ call \in [Requests -> Call]
  /\ found \in [Requests -> Names \cup {NoName}]
  /\ \A r \in Requests : at[r] \in {"looking", "asking", "caching"} => call[r].by # NoName
  /\ row \in [Requests -> Row]
  /\ told \in [Requests -> {"none"} \cup Statuses]
  /\ missing \subseteq Requests

Init ==
  /\ name \in Names /\ exists = TRUE
  /\ renames = 0 /\ faults = 0
  /\ cache = [n \in Names |-> NoName]
  /\ at = [r \in Requests |-> "idle"]
  /\ call = [r \in Requests |-> [op |-> "none", by |-> NoName, target |-> r]]
  /\ found = [r \in Requests |-> NoName]
  /\ row = [r \in Requests |-> [state |-> "none", name |-> NoName]]
  /\ told = [r \in Requests |-> "none"]
  /\ missing = {}

Fault == faults < MaxFaults /\ faults' = faults + 1

GoesTo(r, place) == at' = [at EXCEPT ![r] = place]

\* The handler returns or throws, on the API it was called by.
Answer(r, kind) ==
  /\ GoesTo(r, "answered")
  /\ \E status \in {HttpStatus[kind], GrpcStatus[kind]} : told' = [told EXCEPT ![r] = status]

Arrives(r) ==
  /\ at[r] = "idle"
  /\ missing' = IF exists THEN missing ELSE missing \cup {r}

\* The API key is looked at first, the schema next, and nothing after them.
Reject(r) ==
  /\ Arrives(r)
  /\ \E kind \in {"Unauthorized", "Validation"} : Answer(r, kind)
  /\ UNCHANGED <<name, exists, renames, cache, call, found, row, faults>>

\* getSubscriptionsByEmail: one query that changes nothing.
List(r) ==
  /\ Arrives(r)
  /\ \/ Answer(r, "Ok") /\ UNCHANGED faults
     \/ Answer(r, "Error") /\ Fault
  /\ UNCHANGED <<name, exists, renames, cache, call, found, row>>

-----------------------------------------------------------------------------
(* Subscribe: getRepository, then the creation transaction and the saga. *)

Subscribe(r) ==
  /\ Arrives(r)
  /\ \E n \in Names :
       call' = [call EXCEPT ![r] = [op |-> "subscribe", by |-> n, target |-> r]]
  /\ GoesTo(r, "looking")
  /\ UNCHANGED <<name, exists, renames, cache, found, row, told, faults>>

Returns(r, n, place) == found' = [found EXCEPT ![r] = n] /\ GoesTo(r, place)

\* A hit is taken as it is; a miss and a Redis that fails both go on to GitHub.
CacheGet(r) ==
  /\ at[r] = "looking"
  /\ \/ cache[call[r].by] # NoName /\ Returns(r, cache[call[r].by], "storing")
     \/ GoesTo(r, "asking") /\ UNCHANGED found
  /\ UNCHANGED <<name, exists, renames, cache, call, row, told, missing, faults>>

\* limited: x-ratelimit-remaining is 0 or a retry-after header is there.
\* readable: the JSON of a 200 is a repository (gitHubRepositorySchema).
Response == [status : {200, 403, 404, 429, 500}, limited : BOOLEAN, readable : BOOLEAN]

IsRateLimited(res) == res.status = 429 \/ (res.status = 403 /\ res.limited)

\* Mutant: a repository one may not read counts as one that is not there.
FetchRepositoryHidden(res) ==
  IF res.status \in {403, 404} THEN "NotFound"
  ELSE IF IsRateLimited(res) THEN "RateLimit"
  ELSE IF res.status # 200 THEN "Error"
  ELSE IF res.readable THEN "Ok" ELSE "Unreadable"

FetchRepository(res) ==
  IF res.status = 404 THEN "NotFound"
  ELSE IF IsRateLimited(res) THEN "RateLimit"
  ELSE IF res.status # 200 THEN "Error"
  ELSE IF res.readable THEN "Ok" ELSE "Unreadable"

\* 500 stands for every other failure, an unreachable GitHub and a body that is
\* not JSON included. A limit may be hit at any time; the rest are faults.
Replies(res) ==
  /\ res.status = 200 => exists
  /\ res.status = 404 => ~ exists
  /\ IF \/ res.status = 500
        \/ res.status = 403 /\ ~ res.limited
        \/ res.status = 200 /\ ~ res.readable
     THEN Fault ELSE UNCHANGED faults

AskGitHub(r) ==
  /\ at[r] = "asking"
  /\ \E res \in Response :
       /\ Replies(res)
       /\ IF FetchRepository(res) = "Ok"
          THEN Returns(r, name, "caching") /\ UNCHANGED told
          ELSE Answer(r, FetchRepository(res)) /\ UNCHANGED found
  /\ UNCHANGED <<name, exists, renames, cache, call, row, missing>>

\* Mutant: the name is cached as it was asked for.
ToCacheAsAsked(r) == call[r].by

ToCache(r) == found[r]

\* setWithExpiry stores the name or logs what Redis threw.
CachePut(r) ==
  /\ at[r] = "caching"
  /\ GoesTo(r, "storing")
  /\ \/ cache' = [cache EXCEPT ![call[r].by] = ToCache(r)]
     \/ UNCHANGED cache
  /\ UNCHANGED <<name, exists, renames, call, found, row, told, missing, faults>>

Live == {q \in Requests : row[q].state \in {"pending", "confirmed"}}

\* Mutant: the repository row is keyed by what the client wrote.
RepositoryAsAsked(r) == call[r].by

\* findOrCreate(owner, repo): one repository row for each name GitHub gave.
Repository(r) == found[r]

\* Mutant: the row is inserted outside the transaction the conflict rolls back.
StoreUnrolled(r) ==
  /\ at[r] = "storing"
  /\ row' = [row EXCEPT ![r] = [state |-> "pending", name |-> Repository(r)]]
  /\ IF \E q \in Live : row[q].name = Repository(r)
     THEN Answer(r, "Conflict")
     ELSE GoesTo(r, "stored") /\ UNCHANGED told
  /\ UNCHANGED <<name, exists, renames, cache, call, found, missing, faults>>

Store(r) ==
  /\ at[r] = "storing"
  /\ IF \E q \in Live : row[q].name = Repository(r)
     THEN Answer(r, "Conflict") /\ UNCHANGED row
     ELSE /\ row' = [row EXCEPT ![r] = [state |-> "pending", name |-> Repository(r)]]
          /\ GoesTo(r, "stored")
          /\ UNCHANGED told
  /\ UNCHANGED <<name, exists, renames, cache, call, found, missing, faults>>

\* The saga is over (SubscribeSaga): mailed, compensated, or neither for now.
SagaEnds(r) ==
  /\ at[r] = "stored"
  /\ \/ Answer(r, "Ok") /\ UNCHANGED <<row, faults>>
     \/ Fault /\ Answer(r, "Error") /\ row' = [row EXCEPT ![r].state = "gone"]
     \/ Fault /\ Answer(r, "Error") /\ UNCHANGED row
  /\ UNCHANGED <<name, exists, renames, cache, call, found, missing>>

-----------------------------------------------------------------------------
(* The links of the mail that request t's saga sent. *)

FollowLink(r, t) ==
  /\ Arrives(r)
  /\ call[t].op = "subscribe" /\ row[t].state # "none"
  /\ \E op \in {"confirm", "unsubscribe"} :
       call' = [call EXCEPT ![r] = [op |-> op, by |-> NoName, target |-> t]]
  /\ GoesTo(r, "finding")
  /\ UNCHANGED <<name, exists, renames, cache, found, row, told, faults>>

FindByToken(r) ==
  /\ at[r] = "finding"
  /\ IF call[r].target \in Live
     THEN GoesTo(r, "writing") /\ UNCHANGED told
     ELSE Answer(r, "NotFound")
  /\ UNCHANGED <<name, exists, renames, cache, call, found, row, missing, faults>>

\* Mutant: the row is written by its e-mail and repository.
WrittenByPair(r) == {q \in Live : row[q].name = row[call[r].target].name}

\* By the id that was read: nothing is written, or noticed, if it is gone.
Written(r) == {call[r].target} \cap Live

Write(r) ==
  /\ at[r] = "writing"
  /\ row' = [q \in Requests |->
       IF q \in Written(r)
       THEN [row[q] EXCEPT !.state = IF call[r].op = "confirm" THEN "confirmed" ELSE "gone"]
       ELSE row[q]]
  /\ Answer(r, "Ok")
  /\ UNCHANGED <<name, exists, renames, cache, call, found, missing, faults>>

DatabaseFails(r) ==
  /\ at[r] \in {"storing", "finding", "writing"}
  /\ Fault
  /\ Answer(r, "Error")
  /\ UNCHANGED <<name, exists, renames, cache, call, found, row, missing>>

-----------------------------------------------------------------------------
(* GitHub and Redis. *)

UnderWay == {r \in Requests : at[r] \notin {"idle", "answered"}}

Rename ==
  /\ renames < MaxRenames
  /\ renames' = renames + 1
  /\ name' \in Names \ {name}
  /\ UNCHANGED <<exists, cache, at, call, found, row, told, missing, faults>>

Disappear ==
  /\ exists
  /\ exists' = FALSE
  /\ missing' = missing \cup UnderWay
  /\ UNCHANGED <<name, renames, cache, at, call, found, row, told, faults>>

Appear ==
  /\ ~ exists
  /\ exists' = TRUE
  /\ UNCHANGED <<name, renames, cache, at, call, found, row, told, missing, faults>>

CacheExpires(n) ==
  /\ cache[n] # NoName
  /\ cache' = [cache EXCEPT ![n] = NoName]
  /\ UNCHANGED <<name, exists, renames, at, call, found, row, told, missing, faults>>

-----------------------------------------------------------------------------
Next ==
  \/ Rename \/ Disappear \/ Appear
  \/ \E n \in Names : CacheExpires(n)
  \/ \E r \in Requests :
       \/ Reject(r) \/ List(r) \/ Subscribe(r) \/ CacheGet(r) \/ AskGitHub(r) \/ CachePut(r)
       \/ Store(r) \/ SagaEnds(r) \/ FindByToken(r) \/ Write(r) \/ DatabaseFails(r)
       \/ \E t \in Requests : FollowLink(r, t)

Spec == Init /\ [][Next]_vars

-----------------------------------------------------------------------------
Known == {cache[n] : n \in Names} \cup {found[r] : r \in Requests}
           \cup {row[r].name : r \in Requests}

\* Two spellings of one repository are one subscription: rows carry the name
\* GitHub gave, through the cache too, so the second request is a conflict
\* (createSubscription). A rename on GitHub breaks it: see the README.
OneSubscriptionPerRepository ==
  renames = 0 => \A r, q \in Live : r = q

\* "Not found" is never said of what was there all along (fetchRepository, the
\* cache, the token queries): neither a limit, an error or an old answer is
\* told as 404, nor is the link of a subscription that lives.
NotFoundIsTrue ==
  \A r \in Requests : told[r] \in {HttpStatus["NotFound"], "NOT_FOUND"} =>
    IF call[r].op = "subscribe" THEN r \in missing ELSE row[call[r].target].state = "gone"

\* What a client takes as its own fault, or as a reason to ask again.
ClientErrors ==
  {"400", "401", "404", "409", "429", "INVALID_ARGUMENT", "UNAUTHENTICATED", "NOT_FOUND",
   "ALREADY_EXISTS", "RESOURCE_EXHAUSTED"}

\* A client error to a subscribe call, on either API, leaves nothing behind:
\* the call has stored no row, so it may be corrected and repeated, and it is
\* not what makes another call a conflict. A conflict has another call's row
\* (the creation transaction, resolveStatus, toGrpcError, throwIfRateLimited).
ClientErrorLeavesNothing ==
  \A r \in Requests : call[r].op = "subscribe" =>
    /\ told[r] \in ClientErrors => row[r].state = "none"
    /\ told[r] \in {"409", "ALREADY_EXISTS"} =>
         \E q \in Requests \ {r} : /\ row[q].state # "none" /\ row[q].name = found[r]
                                   /\ told[q] \notin ClientErrors

\* A link acts on the subscription it was mailed for, and on no later one of
\* the same pair: what is confirmed has been confirmed by its own link, and who
\* was told that it is done finds it done, or the row gone. (A confirm whose row
\* goes between its read and its write is told so as well.)
LinksActOnTheirRow ==
  /\ \A t \in Requests : row[t].state = "confirmed" =>
       \E r \in Requests : call[r].op = "confirm" /\ call[r].target = t
                           /\ at[r] = "answered"
  /\ \A r \in Requests : told[r] \in {"200", "OK"} =>
       /\ call[r].op = "confirm" => row[call[r].target].state \in {"confirmed", "gone"}
       /\ call[r].op = "unsubscribe" => row[call[r].target].state = "gone"

-----------------------------------------------------------------------------
(* The inductive invariant (SubscriptionApiProofs). *)

\* While nothing was renamed every name the program holds is the canonical one.
Canonical == renames = 0 => Known \subseteq {name, NoName}

\* No two rows that live share a name, which is the one GitHub gave.
UniqueRows ==
  /\ \A r \in Requests : row[r].state # "none" => row[r].name # NoName
  /\ \A r, q \in Live : row[r].name = row[q].name => r = q
  /\ \A r \in Requests : at[r] \in {"caching", "storing"} => found[r] # NoName

\* Where a call is fits what it is, what it stored and what it was told.
CallsInOrder ==
  \A r \in Requests :
    /\ at[r] = "idle" => call[r].op = "none"
    /\ at[r] \in {"looking", "asking", "caching", "storing", "stored"}
         => call[r].op = "subscribe"
    /\ at[r] \in {"finding", "writing"} => call[r].op \in {"confirm", "unsubscribe"}
    /\ call[r].op \in {"confirm", "unsubscribe"} => row[call[r].target].state # "none"
    /\ at[r] = "stored" => row[r].state # "none"
    /\ row[r].state # "none" => at[r] \in {"stored", "answered"} /\ call[r].op = "subscribe"
    /\ told[r] # "none" => at[r] = "answered"

\* A call under way has noticed if GitHub did not have the repository.
MissingIsNoticed == ~ exists => UnderWay \subseteq missing

ApiInv == TypeOK /\ Canonical /\ UniqueRows /\ CallsInOrder /\ MissingIsNoticed
=============================================================================
