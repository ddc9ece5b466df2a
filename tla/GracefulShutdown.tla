--------------------------- MODULE GracefulShutdown ---------------------------
(***************************************************************************)
(* How a process ends on a signal. registerGracefulShutdown closes the     *)
(* listed resources one after the other, with no deadline, and then exits. *)
(* Meanwhile calls and message handlers go on, a second signal starts a    *)
(* second pass, and the API may not have finished starting, since it       *)
(* registers its list before it listens. What a process leaves behind is   *)
(* taken up by its next start (SubscribeSaga, NotificationDelivery). Scans *)
(* catch and log whatever they meet: ReleaseScanner has them lose the      *)
(* channel, the database and the process at any of their awaits.           *)
(***************************************************************************)
EXTENDS Naturals, Sequences

CONSTANTS
  Deployments,  \* which of the processes are considered
  HttpCalls,    \* calls of HTTP clients that may be under way together
  GrpcCalls,    \* calls of gRPC clients
  Handlers,     \* deliveries whose handler may run together
  Passes        \* signals that may be received

ASSUME DeploymentsAssumption ==
  Deployments \subseteq {"api", "api over grpc", "notifier"}

ASSUME KindsAssumption ==
  /\ HttpCalls \cap GrpcCalls = {}
  /\ (HttpCalls \cup GrpcCalls) \cap Handlers = {}

VARIABLES
  role,     \* the deployment, which does not change
  phase,    \* how far start() is: "routes", "listening", "serving"
  proc,     \* "up", "exited" by process.exit(0), or "died"
  state,    \* each resource: "open", "closing" once close() was called, "closed"
  pass,     \* the resource each shutdown pass awaits, 0 before its signal
  busy,     \* the work under way
  todo,     \* what it still has to use, in this order
  client,   \* the calls whose client still waits for an answer
  broken,   \* calls that failed on a closed resource under a waiting client
  dropped   \* deliveries taken off their queue because a resource was closed

vars == <<role, phase, proc, state, pass, busy, todo, client, broken, dropped>>

-----------------------------------------------------------------------------
Calls == HttpCalls \cup GrpcCalls
Work == Calls \cup Handlers

Servers == {"http", "grpc"}
Infrastructure == {"queue", "pool", "cache", "sender"}
Resources == Servers \cup Infrastructure

\* What a step of some work uses; "mail" is the provider, which nobody closes.
Uses == Infrastructure \cup {"mail"}

\* Mutants: the database is closed before the queue; the queue before gRPC's
\* calls are over; the pool is listed twice.
PoolBeforeQueue ==
  CASE role = "notifier" -> <<"http", "grpc", "queue">>
    [] role = "api" -> <<"http", "grpc", "pool", "queue", "cache">>
    [] OTHER -> <<"http", "grpc", "pool", "queue", "cache", "sender">>

QueueBeforeGrpc ==
  CASE role = "notifier" -> <<"http", "queue", "grpc">>
    [] role = "api" -> <<"http", "queue", "grpc", "pool", "cache">>
    [] OTHER -> <<"http", "queue", "grpc", "pool", "cache", "sender">>

PoolTwice ==
  CASE role = "notifier" -> <<"http", "grpc", "queue">>
    [] role = "api" -> <<"http", "grpc", "queue", "pool", "pool", "cache">>
    [] OTHER -> <<"http", "grpc", "queue", "pool", "pool", "cache", "sender">>

\* The argument of registerGracefulShutdown.
ShutdownResources ==
  CASE role = "notifier" -> <<"http", "grpc", "queue">>
    [] role = "api" -> <<"http", "grpc", "queue", "pool", "cache">>
    [] OTHER -> <<"http", "grpc", "queue", "pool", "cache", "sender">>

\* execute(): the creation, then the command, AWAITING_EMAIL, the reply (or the
\* call of the sender) and the outcome. Lookups in Redis cannot fail a call.
Subscribe ==
  IF role = "api" THEN <<"pool", "queue", "pool", "queue", "pool">>
  ELSE <<"pool", "pool", "sender", "pool">>

\* What an arriving call may go through. The notifier's health probe reads
\* isHealthy() and its only gRPC call mails.
HttpPlans ==
  IF role = "notifier" THEN {<<>>} ELSE {Subscribe, <<"pool", "cache">>}

GrpcPlans == IF role = "notifier" THEN {<<"mail">>} ELSE {Subscribe}

\* A message is mailed and acked; an orphaned reply is looked up, written and acked.
HandlerPlan ==
  IF role = "notifier" THEN <<"mail", "queue">> ELSE <<"pool", "pool", "queue">>

Init ==
  /\ role \in Deployments
  /\ phase = IF role = "notifier" THEN "serving" ELSE "routes"
  /\ proc = "up"
  /\ state = [r \in Resources |-> "open"]
  /\ pass = [p \in Passes |-> 0]
  /\ busy = [w \in Work |-> FALSE]
  /\ todo = [w \in Work |-> <<>>]
  /\ client = [c \in Calls |-> FALSE]
  /\ broken = {} /\ dropped = {}

TypeOK ==
  /\ role \in Deployments
  /\ phase \in {"routes", "listening", "serving"}
  /\ proc \in {"up", "exited", "died"}
  /\ state \in [Resources -> {"open", "closing", "closed"}]
  /\ pass \in [Passes -> 0..(Len(ShutdownResources) + 1)]
  /\ busy \in [Work -> BOOLEAN]
  /\ todo \in [Work -> Seq(Uses)]
  /\ client \in [Calls -> BOOLEAN]
  /\ broken \subseteq Calls /\ dropped \subseteq Handlers

-----------------------------------------------------------------------------
(* The work. *)

Begin(w, plan) ==
  /\ ~ busy[w]
  /\ busy' = [busy EXCEPT ![w] = TRUE]
  /\ todo' = [todo EXCEPT ![w] = plan]

\* Mutant: a closing server goes on taking calls.
AcceptsWhileClosing(server) == state[server] # "closed"

\* close() and tryShutdown() stop a server from taking new calls at once.
Accepts(server) == state[server] = "open"

HttpCall(c) ==
  /\ proc = "up"
  /\ c \in HttpCalls
  /\ phase # "routes"
  /\ Accepts("http")
  /\ \E plan \in HttpPlans : Begin(c, plan)
  /\ client' = [client EXCEPT ![c] = TRUE]
  /\ UNCHANGED <<role, phase, proc, state, pass, broken, dropped>>

GrpcCall(c) ==
  /\ proc = "up"
  /\ c \in GrpcCalls
  /\ phase = "serving"
  /\ Accepts("grpc")
  /\ \E plan \in GrpcPlans : Begin(c, plan)
  /\ client' = [client EXCEPT ![c] = TRUE]
  /\ UNCHANGED <<role, phase, proc, state, pass, broken, dropped>>

\* A message or a reply is delivered: the consumers are never cancelled.
HandlerStarts(h) ==
  /\ proc = "up"
  /\ state["queue"] = "open"
  /\ Begin(h, HandlerPlan)
  /\ UNCHANGED <<role, phase, proc, state, pass, client, broken, dropped>>

Usable(use) == use \in Infrastructure => state[use] = "open"

\* The next step of some work finds what it needs.
Step(w) ==
  /\ proc = "up"
  /\ busy[w]
  /\ todo[w] # <<>> /\ Usable(Head(todo[w]))
  /\ todo' = [todo EXCEPT ![w] = Tail(@)]
  /\ UNCHANGED <<role, phase, proc, state, pass, busy, client, broken, dropped>>

Ends(w) ==
  /\ busy' = [busy EXCEPT ![w] = FALSE]
  /\ todo' = [todo EXCEPT ![w] = <<>>]
  /\ client' = IF w \in Calls THEN [client EXCEPT ![w] = FALSE] ELSE client

Done(w) ==
  /\ proc = "up"
  /\ busy[w]
  /\ todo[w] = <<>>
  /\ Ends(w)
  /\ UNCHANGED <<role, phase, proc, state, pass, broken, dropped>>

\* The client hangs up; what its call started goes on.
ClientLeaves(c) ==
  /\ proc = "up"
  /\ client[c]
  /\ client' = [client EXCEPT ![c] = FALSE]
  /\ UNCHANGED <<role, phase, proc, state, pass, busy, todo, broken, dropped>>

Stuck(w) ==
  /\ proc = "up"
  /\ busy[w]
  /\ todo[w] # <<>> /\ ~ Usable(Head(todo[w]))

\* The error handlers answer.
CallFails(c) ==
  /\ c \in Calls
  /\ Stuck(c)
  /\ Ends(c)
  /\ broken' = IF client[c] THEN broken \cup {c} ELSE broken
  /\ UNCHANGED <<role, phase, proc, state, pass, dropped>>

\* execute() fails on AWAITING_EMAIL without cancelling its reply timer, which
\* fires before the process has exited.
ReplyTimerRejects(c) ==
  /\ c \in Calls
  /\ Stuck(c)
  /\ role = "api" /\ todo[c] = <<"pool", "queue", "pool">>
  /\ proc' = "died"
  /\ UNCHANGED <<role, phase, state, pass, busy, todo, client, broken, dropped>>

\* The catch block of a consumer nacks without requeue, and throws if the
\* channel is gone: an unhandled rejection.
HandlerFails(h) ==
  /\ h \in Handlers
  /\ Stuck(h)
  /\ \/ /\ state["queue"] = "open"
        /\ Ends(h)
        /\ dropped' = dropped \cup {h}
        /\ UNCHANGED proc
     \/ /\ state["queue"] # "open"
        /\ proc' = "died"
        /\ UNCHANGED <<busy, todo, client, dropped>>
  /\ UNCHANGED <<role, phase, state, pass, broken>>

-----------------------------------------------------------------------------
(* start(), after the list was registered: listening fails if a pass has     *)
(* closed the server in the meantime, and the catch block exits with 1.      *)

Opens(server, from, to) ==
  /\ proc = "up"
  /\ phase = from
  /\ IF state[server] = "open"
     THEN phase' = to /\ UNCHANGED proc
     ELSE proc' = "died" /\ UNCHANGED phase
  /\ UNCHANGED <<role, state, pass, busy, todo, client, broken, dropped>>

Listen == Opens("http", "routes", "listening")
StartGrpc == Opens("grpc", "listening", "serving")

-----------------------------------------------------------------------------
(* The passes. *)

Awaited(p) == ShutdownResources[pass[p]]

\* close() of the n-th resource is called, after the earlier ones resolved.
CallClose(p, n, closed) ==
  /\ pass' = [pass EXCEPT ![p] = n]
  /\ state' = [r \in Resources |->
       IF r \in closed THEN "closed"
       ELSE IF n <= Len(ShutdownResources) /\ r = ShutdownResources[n] /\ state[r] = "open"
       THEN "closing" ELSE state[r]]

Signal(p) ==
  /\ proc = "up"
  /\ pass[p] = 0
  /\ CallClose(p, 1, {})
  /\ UNCHANGED <<role, phase, proc, busy, todo, client, broken, dropped>>

\* Mutant: nobody waits for the calls under way.
ClosesAtOnce(r) == TRUE

\* A server's close resolves when the clients it serves have their answers.
Closes(r) ==
  /\ r = "http" => \A c \in HttpCalls : ~ client[c]
  /\ r = "grpc" => \A c \in GrpcCalls : ~ client[c]

\* pool.end() may be called once only.
EndsPoolAgain(p) ==
  /\ pass[p] < Len(ShutdownResources)
  /\ ShutdownResources[pass[p] + 1] = "pool"
  /\ state["pool"] # "open"

CloseResolves(p) ==
  /\ proc = "up"
  /\ pass[p] \in 1..Len(ShutdownResources)
  /\ Closes(Awaited(p))
  /\ IF EndsPoolAgain(p)
     THEN proc' = "died" /\ UNCHANGED <<pass, state>>
     ELSE CallClose(p, pass[p] + 1, {Awaited(p)}) /\ UNCHANGED proc
  /\ UNCHANGED <<role, phase, busy, todo, client, broken, dropped>>

\* The log is flushed, process.exit(0).
Exit(p) ==
  /\ proc = "up"
  /\ pass[p] = Len(ShutdownResources) + 1
  /\ proc' = "exited"
  /\ UNCHANGED <<role, phase, state, pass, busy, todo, client, broken, dropped>>

-----------------------------------------------------------------------------
WorkStep(w) == Step(w) \/ Done(w) \/ CallFails(w) \/ HandlerFails(w)

PassStep(p) == CloseResolves(p) \/ Exit(p)

Next ==
  \/ \E w \in Work : WorkStep(w)
  \/ \E c \in Calls : HttpCall(c) \/ GrpcCall(c) \/ ClientLeaves(c) \/ ReplyTimerRejects(c)
  \/ \E h \in Handlers : HandlerStarts(h)
  \/ \E p \in Passes : Signal(p) \/ PassStep(p)
  \/ Listen \/ StartGrpc

Spec == Init /\ [][Next]_vars

\* Every await returns: statements and mails end, replies come or time out,
\* close() resolves, the log is flushed. Nobody has to call or to signal.
FairSpec ==
  /\ Spec
  /\ \A w \in Work : WF_vars(WorkStep(w))
  /\ \A p \in Passes : WF_vars(PassStep(p))
  /\ WF_vars(Listen) /\ WF_vars(StartGrpc)

-----------------------------------------------------------------------------
Waiting(c) == busy[c] /\ client[c]

\* Resources are closed by the passes only and in the order of the list,
\* whatever a second pass does, and no pass is ahead of what has been closed.
ClosedInOrder ==
  LET list == ShutdownResources
  IN  /\ \A r \in Resources : state[r] # "open" =>
           \E p \in Passes, i \in 1..Len(list) : list[i] = r /\ i <= pass[p]
      /\ \A p \in Passes, i \in 1..Len(list) :
           /\ i < pass[p] => state[list[i]] = "closed"
           /\ i = pass[p] => state[list[i]] # "open"

\* A server that is closed, or was never started, serves nobody.
ServesNobody ==
  /\ state["http"] = "closed" \/ phase = "routes" => \A c \in HttpCalls : ~ client[c]
  /\ state["grpc"] = "closed" \/ phase # "serving" => \A c \in GrpcCalls : ~ client[c]
  /\ \A c \in Calls : client[c] => busy[c]

\* N4, "on SIGTERM the service finishes active requests": a call whose client
\* waits never fails on a closed resource, nor does the process end under it,
\* with any number of signals, at any moment of the start-up and of the call.
CallsFinish ==
  /\ broken = {}
  /\ proc # "up" => \A c \in Calls : ~ Waiting(c)

\* A handler that the shutdown overtakes leaves its message to the next start:
\* the queue is closed before the database, so a reply whose statement fails
\* because of the shutdown cannot be nacked to the dead-letter queue any more.
NothingDropped == dropped = {}

\* A single signal to a process that is up ends it by exit(0), with everything
\* on its list closed, unless a handler or an abandoned call is under way.
EndsInOrder ==
  /\ proc = "exited" =>
       \A i \in 1..Len(ShutdownResources) : state[ShutdownResources[i]] = "closed"
  /\ proc = "died" =>
       \/ phase # "serving"
       \/ \E p, q \in Passes : p # q /\ pass[p] > 0 /\ pass[q] > 0
       \/ \E w \in Work : busy[w]

\* The inductive invariant (GracefulShutdownProofs).
ShutdownInv ==
  /\ TypeOK
  /\ ClosedInOrder
  /\ ServesNobody
  /\ CallsFinish
  /\ NothingDropped
  /\ EndsInOrder

\* Every signal ends the process, though nothing sets it a deadline.
SignalEnds == \A p \in Passes : (pass[p] > 0) ~> (proc # "up")
=============================================================================
