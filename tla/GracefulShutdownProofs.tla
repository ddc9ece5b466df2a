------------------------ MODULE GracefulShutdownProofs ------------------------
(***************************************************************************)
(* Shutting down breaks no call and drops no message, for any number of    *)
(* calls, handlers and signals, of either process: the order of the list   *)
(* and the awaits between its resources are enough.                        *)
(***************************************************************************)
EXTENDS GracefulShutdown, TLAPS

List == ShutdownResources

\* What the proofs need to know of the three lists.
LEMMA TheList ==
  /\ Len(List) \in 3..6
  /\ \A i \in 1..Len(List) : List[i] \in Resources
  /\ List[1] = "http" /\ List[2] = "grpc" /\ List[3] = "queue"
  /\ \A i \in 1..Len(List) : i > 3 => List[i] \in {"pool", "cache", "sender"}
  /\ \A i, j \in 1..Len(List) : List[i] = List[j] => i = j
<1> USE DEF List, ShutdownResources, Resources, Servers, Infrastructure
<1>1. CASE role = "notifier"
  BY <1>1
<1>2. CASE role = "api"
  BY <1>2
<1>3. CASE role # "notifier" /\ role # "api"
  BY <1>3
<1> QED
  BY <1>1, <1>2, <1>3

\* The plans consist of uses.
LEMMA PlansAreUses ==
  /\ HttpPlans \subseteq Seq(Uses)
  /\ GrpcPlans \subseteq Seq(Uses)
  /\ HandlerPlan \in Seq(Uses)
<1> USE DEF Uses, Infrastructure
<1>1. <<>> \in Seq(Uses) /\ <<"mail">> \in Seq(Uses) /\ <<"pool", "cache">> \in Seq(Uses)
  OBVIOUS
<1>2. Subscribe \in Seq(Uses)
  <2>1. <<"pool", "queue", "pool", "queue", "pool">> \in Seq(Uses)
    OBVIOUS
  <2>2. <<"pool", "pool", "sender", "pool">> \in Seq(Uses)
    OBVIOUS
  <2> QED
    BY <2>1, <2>2 DEF Subscribe
<1>3. HandlerPlan \in Seq(Uses)
  <2>1. <<"mail", "queue">> \in Seq(Uses) /\ <<"pool", "pool", "queue">> \in Seq(Uses)
    OBVIOUS
  <2> QED
    BY <2>1 DEF HandlerPlan
<1>4. HttpPlans \subseteq Seq(Uses) /\ GrpcPlans \subseteq Seq(Uses)
  <2>1. CASE role = "notifier"
    BY <1>1, <2>1 DEF HttpPlans, GrpcPlans
  <2>2. CASE role # "notifier"
    BY <1>1, <1>2, <2>2 DEF HttpPlans, GrpcPlans
  <2> QED
    BY <2>1, <2>2
<1> QED
  BY <1>3, <1>4

\* What is closed tells what was closed before it.
LEMMA EarlierAreClosed ==
  ASSUME TypeOK, ClosedInOrder
  PROVE  /\ state["grpc"] # "open" => state["http"] = "closed"
         /\ \A r \in Infrastructure : state[r] # "open" =>
              /\ state["http"] = "closed" /\ state["grpc"] = "closed"
              /\ r # "queue" => state["queue"] = "closed"
<1>1. ASSUME NEW r \in Resources, state[r] # "open",
             NEW n \in 1..3, r # List[1], n > 1 => r # List[2], n > 2 => r # List[3]
      PROVE  state[List[n]] = "closed"
  <2>1. PICK p \in Passes, i \in 1..Len(List) : List[i] = r /\ i <= pass[p]
    BY <1>1 DEF ClosedInOrder, List
  <2>2. n < i /\ n \in 1..Len(List)
    BY <1>1, <2>1, TheList
  <2>3. pass[p] \in Nat
    BY DEF TypeOK, List
  <2> QED
    BY <2>1, <2>2, <2>3, TheList DEF ClosedInOrder, List
<1>2. state["grpc"] # "open" => state["http"] = "closed"
  BY <1>1, TheList DEF Resources, Servers
<1>3. ASSUME NEW r \in Infrastructure, state[r] # "open"
      PROVE  /\ state["http"] = "closed" /\ state["grpc"] = "closed"
             /\ r # "queue" => state["queue"] = "closed"
  BY <1>1, <1>3, TheList DEF Resources, Infrastructure
<1> QED
  BY <1>2, <1>3

LEMMA InitialState == Init => ShutdownInv
<1> SUFFICES ASSUME Init PROVE ShutdownInv
  OBVIOUS
<1>1. TypeOK
  <2>1. 0 \in 0..(Len(ShutdownResources) + 1)
    BY TheList DEF List
  <2>2. <<>> \in Seq(Uses)
    OBVIOUS
  <2> QED
    BY <2>1, <2>2 DEF Init, TypeOK
<1>2. ClosedInOrder
  BY TheList DEF Init, ClosedInOrder, List
<1>3. ServesNobody /\ CallsFinish /\ NothingDropped /\ EndsInOrder
  BY DEF Init, ServesNobody, CallsFinish, Waiting, NothingDropped, EndsInOrder, Calls, Resources, Servers
<1> QED
  BY <1>1, <1>2, <1>3 DEF ShutdownInv

-----------------------------------------------------------------------------
(* What the steps of the passes do to the resources. *)

LEMMA ListUnchanged == role' = role => List' = List /\ ShutdownResources' = ShutdownResources
BY DEF List, ShutdownResources

\* A pass that goes on keeps the order.
LEMMA CallCloseKeepsOrder ==
  ASSUME TypeOK, ClosedInOrder, role' = role,
         NEW p \in Passes, pass[p] \in 0..Len(List),
         NEW closed,
         closed = IF pass[p] = 0 THEN {} ELSE {List[pass[p]]},
         CallClose(p, pass[p] + 1, closed)
  PROVE  /\ ClosedInOrder'
         /\ pass' \in [Passes -> 0..(Len(List) + 1)]
         /\ state' \in [Resources -> {"open", "closing", "closed"}]
         /\ \A r \in Resources : state'[r] = "closed" => state[r] = "closed" \/ r \in closed
<1> DEFINE n == pass[p] + 1
<1>1. /\ pass \in [Passes -> 0..(Len(List) + 1)]
      /\ state \in [Resources -> {"open", "closing", "closed"}]
      /\ Len(List) \in Nat
  BY TheList DEF TypeOK, List
<1>2. /\ pass' = [pass EXCEPT ![p] = n]
      /\ state' = [r \in Resources |->
           IF r \in closed THEN "closed"
           ELSE IF n <= Len(List) /\ r = List[n] /\ state[r] = "open"
           THEN "closing" ELSE state[r]]
  BY DEF CallClose, List
<1>3. List' = List /\ Len(List) = Len(List')
  BY ListUnchanged
<1>4. pass' \in [Passes -> 0..(Len(List) + 1)] /\ n \in 1..(Len(List) + 1)
  BY <1>1, <1>2
<1>5. state' \in [Resources -> {"open", "closing", "closed"}]
  BY <1>1, <1>2
<1>6. \A r \in Resources : state'[r] = "closed" => state[r] = "closed" \/ r \in closed
  BY <1>2
<1>7. \A r \in Resources : state'[r] # "open" =>
         \E q \in Passes, i \in 1..Len(List) : List[i] = r /\ i <= pass'[q]
  <2> SUFFICES ASSUME NEW r \in Resources, state'[r] # "open"
               PROVE  \E q \in Passes, i \in 1..Len(List) : List[i] = r /\ i <= pass'[q]
    OBVIOUS
  <2>1. CASE state[r] # "open"
    <3>1. PICK q \in Passes, i \in 1..Len(List) : List[i] = r /\ i <= pass[q]
      BY <2>1 DEF ClosedInOrder, List
    <3>2. i <= pass'[q]
      BY <1>1, <1>2, <3>1
    <3> QED
      BY <3>1, <3>2
  <2>2. CASE r \in closed
    <3>1. pass[p] \in 1..Len(List) /\ List[pass[p]] = r /\ pass[p] <= pass'[p]
      BY <1>1, <1>2, <2>2
    <3> QED
      BY <3>1
  <2>3. CASE n <= Len(List) /\ r = List[n]
    <3>1. n \in 1..Len(List) /\ n <= pass'[p]
      BY <1>1, <1>2, <2>3
    <3> QED
      BY <2>3, <3>1
  <2> QED
    BY <1>2, <2>1, <2>2, <2>3
<1>8. ASSUME NEW q \in Passes, NEW i \in 1..Len(List)
      PROVE  /\ i < pass'[q] => state'[List[i]] = "closed"
             /\ i = pass'[q] => state'[List[i]] # "open"
  <2>1. List[i] \in Resources
    BY TheList
  <2>2. CASE q # p
    <3>1. pass'[q] = pass[q]
      BY <1>1, <1>2, <2>2
    <3>2. /\ i < pass[q] => state[List[i]] = "closed"
          /\ i = pass[q] => state[List[i]] # "open"
      BY DEF ClosedInOrder, List
    <3> QED
      BY <1>1, <1>2, <2>1, <3>1, <3>2
  <2>3. CASE q = p
    <3>1. pass'[q] = n
      BY <1>1, <1>2, <2>3
    <3>2. i < pass[p] => state'[List[i]] = "closed"
      <4>1. i < pass[p] => state[List[i]] = "closed"
        BY DEF ClosedInOrder, List
      <4> QED
        BY <1>2, <2>1, <4>1
    <3>3. i = pass[p] => state'[List[i]] = "closed"
      BY <1>2, <2>1
    <3>4. i = n => state'[List[i]] # "open"
      BY <1>2, <2>1
    <3> QED
      BY <1>1, <3>1, <3>2, <3>3, <3>4
  <2> QED
    BY <2>2, <2>3
<1> QED
  BY <1>3, <1>4, <1>5, <1>6, <1>7, <1>8 DEF ClosedInOrder, List

-----------------------------------------------------------------------------
(* Each kind of step keeps the invariant. *)

\* Whoever waits for an answer waits with everything but a server open.
LEMMA StuckIsUnseen ==
  ASSUME ShutdownInv, NEW w \in Work, Stuck(w)
  PROVE  /\ \A c \in Calls : ~ client[c]
         /\ state["queue"] = "open" => w \notin Handlers
<1>1. todo[w] \in Seq(Uses) /\ todo[w] # <<>>
  BY DEF ShutdownInv, TypeOK, Stuck
<1>2. Head(todo[w]) \in Uses
  BY <1>1
<1>3. /\ Head(todo[w]) \in Infrastructure
      /\ state[Head(todo[w])] # "open"
  BY <1>2 DEF Stuck, Usable
<1>4. /\ state["http"] = "closed" /\ state["grpc"] = "closed"
      /\ Head(todo[w]) # "queue" => state["queue"] = "closed"
  BY <1>3, EarlierAreClosed DEF ShutdownInv
<1>5. state["queue"] # "open"
  BY <1>3, <1>4
<1> QED
  BY <1>4, <1>5 DEF ShutdownInv, ServesNobody, Calls

\* A step that leaves the list, the resources and the passes alone keeps the order.
LEMMA OrderUntouched ==
  ASSUME ClosedInOrder, role' = role, state' = state, pass' = pass
  PROVE  ClosedInOrder'
BY ListUnchanged DEF ClosedInOrder

\* Work begins, goes on and ends while the process is up.
LEMMA WorkKeepsInv ==
  ASSUME ShutdownInv,
         UNCHANGED <<role, phase, proc, state, pass>>, proc = "up",
         busy' \in [Work -> BOOLEAN], todo' \in [Work -> Seq(Uses)],
         client' \in [Calls -> BOOLEAN],
         \A c \in Calls : client'[c] => busy'[c],
         \A c \in HttpCalls : client'[c] =>
           client[c] \/ (state["http"] # "closed" /\ phase # "routes"),
         \A c \in GrpcCalls : client'[c] =>
           client[c] \/ (state["grpc"] # "closed" /\ phase = "serving"),
         broken' = broken, dropped' = dropped
  PROVE  ShutdownInv'
<1>1. ShutdownResources' = ShutdownResources
  BY ListUnchanged
<1>2. TypeOK'
  BY <1>1 DEF ShutdownInv, TypeOK
<1>3. ClosedInOrder'
  BY OrderUntouched DEF ShutdownInv
<1>4. ServesNobody'
  BY DEF ShutdownInv, ServesNobody
<1>5. CallsFinish' /\ NothingDropped' /\ EndsInOrder'
  BY DEF ShutdownInv, CallsFinish, NothingDropped, EndsInOrder
<1> QED
  BY <1>2, <1>3, <1>4, <1>5 DEF ShutdownInv

\* Calls and handlers begin.
LEMMA BeginsKeepInv ==
  ASSUME ShutdownInv,
         \/ \E c \in Calls : HttpCall(c) \/ GrpcCall(c)
         \/ \E h \in Handlers : HandlerStarts(h)
  PROVE  ShutdownInv'
<1> USE KindsAssumption
<1>1. TypeOK /\ ServesNobody
  BY DEF ShutdownInv
<1>2. ASSUME NEW c \in Calls, HttpCall(c)
      PROVE  ShutdownInv'
  <2>1. PICK plan \in Seq(Uses) : Begin(c, plan)
    BY <1>2, PlansAreUses DEF HttpCall
  <2>2. busy' \in [Work -> BOOLEAN] /\ todo' \in [Work -> Seq(Uses)]
    BY <1>1, <2>1 DEF Begin, TypeOK
  <2>3. client' \in [Calls -> BOOLEAN] /\ \A d \in Calls : client'[d] => busy'[d]
    BY <1>1, <1>2, <2>1 DEF HttpCall, Begin, TypeOK, ServesNobody, Calls, Work
  <2>4. c \in HttpCalls /\ \A d \in Calls : client'[d] => client[d] \/ d = c
    BY <1>1, <1>2 DEF HttpCall, TypeOK
  <2> QED
    <3>1. \A d \in HttpCalls : client'[d] =>
            client[d] \/ (state["http"] # "closed" /\ phase # "routes")
      BY <1>2, <2>4 DEF HttpCall, Accepts
    <3>2. \A d \in GrpcCalls : client'[d] => client[d]
      BY <2>4 DEF Calls
    <3>3. /\ UNCHANGED <<role, phase, proc, state, pass>> /\ proc = "up"
          /\ broken' = broken /\ dropped' = dropped
      BY <1>2 DEF HttpCall
    <3> QED
      BY <2>2, <2>3, <3>1, <3>2, <3>3, WorkKeepsInv
<1>3. ASSUME NEW c \in Calls, GrpcCall(c)
      PROVE  ShutdownInv'
  <2>1. PICK plan \in Seq(Uses) : Begin(c, plan)
    BY <1>3, PlansAreUses DEF GrpcCall
  <2>2. busy' \in [Work -> BOOLEAN] /\ todo' \in [Work -> Seq(Uses)]
    BY <1>1, <2>1 DEF Begin, TypeOK
  <2>3. client' \in [Calls -> BOOLEAN] /\ \A d \in Calls : client'[d] => busy'[d]
    BY <1>1, <1>3, <2>1 DEF GrpcCall, Begin, TypeOK, ServesNobody, Calls, Work
  <2>4. c \in GrpcCalls /\ \A d \in Calls : client'[d] => client[d] \/ d = c
    BY <1>1, <1>3 DEF GrpcCall, TypeOK
  <2> QED
    BY <1>3, <2>2, <2>3, <2>4, WorkKeepsInv DEF GrpcCall, Accepts, Calls
<1>4. ASSUME NEW h \in Handlers, HandlerStarts(h)
      PROVE  ShutdownInv'
  <2>1. busy' \in [Work -> BOOLEAN] /\ todo' \in [Work -> Seq(Uses)]
    BY <1>1, <1>4, PlansAreUses DEF HandlerStarts, Begin, TypeOK
  <2>2. \A d \in Calls : client'[d] => busy'[d]
    BY <1>1, <1>4 DEF HandlerStarts, Begin, TypeOK, ServesNobody, Calls, Work
  <2>3. client' = client /\ client' \in [Calls -> BOOLEAN]
    BY <1>1, <1>4 DEF HandlerStarts, TypeOK
  <2>4. /\ UNCHANGED <<role, phase, proc, state, pass>> /\ proc = "up"
        /\ broken' = broken /\ dropped' = dropped
    BY <1>4 DEF HandlerStarts
  <2> QED
    BY <2>1, <2>2, <2>3, <2>4, WorkKeepsInv
<1> QED
  BY <1>2, <1>3, <1>4

\* The work goes on, ends, fails, and loses its client.
LEMMA GoesOnKeepsInv ==
  ASSUME ShutdownInv, NEW w \in Work,
         \/ Step(w) \/ Done(w) \/ CallFails(w)
         \/ w \in Calls /\ ClientLeaves(w)
  PROVE  ShutdownInv'
<1> USE KindsAssumption
<1>1. TypeOK /\ ServesNobody
  BY DEF ShutdownInv
<1>2. CASE Step(w)
  <2>1. busy' = busy /\ client' = client /\ todo' \in [Work -> Seq(Uses)]
    <3>1. Tail(todo[w]) \in Seq(Uses)
      BY <1>1, <1>2 DEF Step, TypeOK
    <3> QED
      BY <1>1, <1>2, <3>1 DEF Step, TypeOK
  <2>2. busy' \in [Work -> BOOLEAN] /\ client' \in [Calls -> BOOLEAN]
    BY <1>1, <2>1 DEF TypeOK
  <2>3. \A c \in Calls : client'[c] => busy'[c]
    BY <1>1, <2>1 DEF ServesNobody
  <2>4. /\ UNCHANGED <<role, phase, proc, state, pass>> /\ proc = "up"
        /\ broken' = broken /\ dropped' = dropped
    BY <1>2 DEF Step
  <2> QED
    BY <2>1, <2>2, <2>3, <2>4, WorkKeepsInv
<1>3. ASSUME Ends(w), UNCHANGED <<role, phase, proc, state, pass>>, proc = "up",
             broken' = broken, dropped' = dropped
      PROVE  ShutdownInv'
  <2>1. busy' \in [Work -> BOOLEAN] /\ todo' \in [Work -> Seq(Uses)]
    <3>1. <<>> \in Seq(Uses)
      OBVIOUS
    <3> QED
      BY <1>1, <1>3, <3>1 DEF Ends, TypeOK
  <2>2. client' \in [Calls -> BOOLEAN] /\ \A c \in Calls : client'[c] => client[c] /\ c # w
    BY <1>1, <1>3 DEF Ends, TypeOK
  <2>3. \A c \in Calls : client'[c] => busy'[c]
    BY <1>1, <1>3, <2>2 DEF Ends, TypeOK, ServesNobody, Calls, Work
  <2>4. /\ \A c \in HttpCalls : client'[c] => client[c]
        /\ \A c \in GrpcCalls : client'[c] => client[c]
    BY <2>2 DEF Calls
  <2> QED
    BY <1>3, <2>1, <2>2, <2>3, <2>4, WorkKeepsInv
<1>4. CASE Done(w)
  BY <1>3, <1>4 DEF Done
<1>5. CASE CallFails(w)
  <2>1. ~ client[w]
    BY <1>5, StuckIsUnseen DEF CallFails
  <2> QED
    BY <1>3, <1>5, <2>1 DEF CallFails, Stuck
<1>6. CASE w \in Calls /\ ClientLeaves(w)
  <2>1. client' \in [Calls -> BOOLEAN] /\ \A c \in Calls : client'[c] => client[c]
    BY <1>1, <1>6 DEF ClientLeaves, TypeOK
  <2>2. /\ busy' = busy /\ busy' \in [Work -> BOOLEAN]
        /\ todo' = todo /\ todo' \in [Work -> Seq(Uses)]
    BY <1>1, <1>6 DEF ClientLeaves, TypeOK
  <2>3. \A c \in Calls : client'[c] => busy'[c]
    BY <1>1, <2>1, <2>2 DEF ServesNobody
  <2>4. /\ \A c \in HttpCalls : client'[c] => client[c]
        /\ \A c \in GrpcCalls : client'[c] => client[c]
    BY <2>1 DEF Calls
  <2>5. /\ UNCHANGED <<role, phase, proc, state, pass>> /\ proc = "up"
        /\ broken' = broken /\ dropped' = dropped
    BY <1>6 DEF ClientLeaves
  <2> QED
    BY <2>1, <2>2, <2>3, <2>4, <2>5, WorkKeepsInv
<1> QED
  BY <1>2, <1>4, <1>5, <1>6

\* The process ends while nothing else changes.
LEMMA EndingKeepsInv ==
  ASSUME ShutdownInv,
         UNCHANGED <<role, phase, state, pass, busy, todo, client, broken, dropped>>,
         proc' \in {"exited", "died"},
         \A c \in Calls : ~ client[c],
         proc' = "exited" =>
           \A i \in 1..Len(List) : state[List[i]] = "closed",
         proc' = "died" =>
           \/ phase # "serving"
           \/ \E p, q \in Passes : p # q /\ pass[p] > 0 /\ pass[q] > 0
           \/ \E w \in Work : busy[w]
  PROVE  ShutdownInv'
<1>1. ShutdownResources' = ShutdownResources
  BY ListUnchanged
<1>2. TypeOK'
  BY <1>1 DEF ShutdownInv, TypeOK
<1>3. ClosedInOrder'
  BY OrderUntouched DEF ShutdownInv
<1>4. ServesNobody' /\ CallsFinish' /\ NothingDropped'
  BY DEF ShutdownInv, ServesNobody, CallsFinish, Waiting, NothingDropped
<1>5. EndsInOrder'
  BY <1>1 DEF EndsInOrder, List
<1> QED
  BY <1>2, <1>3, <1>4, <1>5 DEF ShutdownInv

\* A timer, a failing handler and an opening server end the process.
LEMMA DeathsKeepInv ==
  ASSUME ShutdownInv,
         \/ \E c \in Calls : ReplyTimerRejects(c)
         \/ \E h \in Handlers : HandlerFails(h)
         \/ Listen \/ StartGrpc
  PROVE  ShutdownInv'
<1>1. TypeOK /\ ServesNobody
  BY DEF ShutdownInv
<1>2. ASSUME NEW c \in Calls, ReplyTimerRejects(c)
      PROVE  ShutdownInv'
  <2>1. c \in Work /\ Stuck(c) /\ busy[c]
    BY <1>2 DEF ReplyTimerRejects, Stuck, Work
  <2>2. \A d \in Calls : ~ client[d]
    BY <2>1, StuckIsUnseen
  <2> QED
    BY <1>2, <2>1, <2>2, EndingKeepsInv DEF ReplyTimerRejects
<1>3. ASSUME NEW h \in Handlers, HandlerFails(h)
      PROVE  ShutdownInv'
  <2>1. h \in Work /\ Stuck(h) /\ busy[h]
    BY <1>3 DEF HandlerFails, Stuck, Work
  <2>2. (\A d \in Calls : ~ client[d]) /\ state["queue"] # "open"
    BY <2>1, StuckIsUnseen
  <2> QED
    BY <1>3, <2>1, <2>2, EndingKeepsInv DEF HandlerFails
<1>4. ASSUME NEW server \in Servers, NEW from \in {"routes", "listening"},
             NEW to \in {"listening", "serving"},
             Opens(server, from, to),
             from = "routes" => server = "http" /\ to = "listening",
             from = "listening" => server = "grpc" /\ to = "serving"
      PROVE  ShutdownInv'
  <2>1. CASE state[server] = "open"
    <3>1. ShutdownResources' = ShutdownResources
      BY <1>4, ListUnchanged DEF Opens
    <3>2. phase = from /\ phase' = to /\ proc' = "up"
      BY <1>4, <2>1 DEF Opens
    <3>3. UNCHANGED <<role, proc, state, pass, busy, todo, client, broken, dropped>>
      BY <1>4, <2>1 DEF Opens
    <3>4. TypeOK'
      BY <1>1, <3>1, <3>2, <3>3 DEF TypeOK
    <3>5. ClosedInOrder'
      BY <3>3, OrderUntouched DEF ShutdownInv
    <3>6. ServesNobody'
      BY <1>1, <1>4, <3>2, <3>3 DEF ServesNobody
    <3>7. CallsFinish' /\ NothingDropped' /\ EndsInOrder'
      BY <3>2, <3>3 DEF ShutdownInv, CallsFinish, NothingDropped, EndsInOrder
    <3> QED
      BY <3>4, <3>5, <3>6, <3>7 DEF ShutdownInv
  <2>2. CASE state[server] # "open"
    <3>1. phase = from /\ proc' = "died"
      BY <1>4, <2>2 DEF Opens
    <3>2. UNCHANGED <<role, phase, state, pass, busy, todo, client, broken, dropped>>
      BY <1>4, <2>2 DEF Opens
    <3>3. \A c \in GrpcCalls : ~ client[c]
      BY <1>1, <3>1 DEF ServesNobody
    <3>4. \A c \in HttpCalls : ~ client[c]
      BY <1>1, <1>4, <2>2, <3>1, EarlierAreClosed DEF ServesNobody, ShutdownInv
    <3> QED
      BY <3>1, <3>2, <3>3, <3>4, EndingKeepsInv DEF Calls
  <2> QED
    BY <2>1, <2>2
<1>5. CASE Listen
  BY <1>4, <1>5 DEF Listen, Servers
<1>6. CASE StartGrpc
  BY <1>4, <1>6 DEF StartGrpc, Servers
<1> QED
  BY <1>2, <1>3, <1>5, <1>6

\* The passes.
LEMMA PassesKeepInv ==
  ASSUME ShutdownInv, NEW p \in Passes, Signal(p) \/ CloseResolves(p) \/ Exit(p)
  PROVE  ShutdownInv'
<1>1. TypeOK /\ ServesNobody /\ ClosedInOrder
  BY DEF ShutdownInv
<1>2. pass[p] \in 0..(Len(List) + 1) /\ Len(List) \in Nat
  BY <1>1, TheList DEF TypeOK, List
<1>3. ASSUME NEW closed, CallClose(p, pass[p] + 1, closed),
             pass[p] \in 0..Len(List),
             closed = IF pass[p] = 0 THEN {} ELSE {List[pass[p]]},
             "http" \in closed => \A c \in HttpCalls : ~ client[c],
             "grpc" \in closed => \A c \in GrpcCalls : ~ client[c],
             UNCHANGED <<role, phase, proc, busy, todo, client, broken, dropped>>,
             proc = "up"
      PROVE  ShutdownInv'
  <2>1. /\ ClosedInOrder'
        /\ pass' \in [Passes -> 0..(Len(List) + 1)]
        /\ state' \in [Resources -> {"open", "closing", "closed"}]
        /\ \A r \in Resources : state'[r] = "closed" => state[r] = "closed" \/ r \in closed
    BY <1>1, <1>3, CallCloseKeepsOrder
  <2>2. ShutdownResources' = ShutdownResources
    BY <1>3, ListUnchanged
  <2>3. TypeOK'
    BY <1>1, <1>3, <2>1, <2>2 DEF TypeOK, List
  <2>4. ServesNobody'
    BY <1>1, <1>3, <2>1 DEF ServesNobody, Resources, Servers
  <2>5. CallsFinish' /\ NothingDropped' /\ EndsInOrder'
    BY <1>3 DEF ShutdownInv, CallsFinish, NothingDropped, EndsInOrder
  <2> QED
    BY <2>1, <2>3, <2>4, <2>5 DEF ShutdownInv
<1>4. CASE Signal(p)
  <2>1. CallClose(p, pass[p] + 1, {}) /\ pass[p] = 0
    BY <1>4 DEF Signal
  <2> QED
    BY <1>2, <1>3, <1>4, <2>1 DEF Signal
<1>5. CASE CloseResolves(p)
  <2>1. pass[p] \in 1..Len(List) /\ Closes(List[pass[p]])
    BY <1>5 DEF CloseResolves, Awaited, List
  <2>2. CASE EndsPoolAgain(p)
    <3>1. /\ pass[p] + 1 \in 1..Len(List)
          /\ List[pass[p] + 1] = "pool" /\ state["pool"] # "open"
      BY <1>2, <2>1, <2>2 DEF EndsPoolAgain, List
    <3>2. PICK q \in Passes, i \in 1..Len(List) : List[i] = "pool" /\ i <= pass[q]
      BY <1>1, <3>1 DEF ClosedInOrder, List, Resources, Infrastructure
    <3>3. i = pass[p] + 1
      BY <3>1, <3>2, TheList
    <3>4. pass[q] \in Nat
      BY <1>1, TheList DEF TypeOK, List
    <3>5. p # q /\ pass[p] > 0 /\ pass[q] > 0
      BY <1>2, <2>1, <3>2, <3>3, <3>4
    <3>6. \A c \in Calls : ~ client[c]
      BY <1>1, <3>1, EarlierAreClosed DEF ServesNobody, Infrastructure, Calls
    <3> QED
      BY <1>5, <2>2, <3>5, <3>6, EndingKeepsInv DEF CloseResolves
  <2>3. CASE ~ EndsPoolAgain(p)
    <3>1. CallClose(p, pass[p] + 1, {List[pass[p]]})
      BY <1>5, <2>3 DEF CloseResolves, Awaited, List
    <3> QED
      BY <1>2, <1>3, <1>5, <2>1, <2>3, <3>1 DEF CloseResolves, Closes
  <2> QED
    BY <2>2, <2>3
<1>6. CASE Exit(p)
  <2>1. \A i \in 1..Len(List) : state[List[i]] = "closed"
    BY <1>1, <1>2, <1>6 DEF Exit, ClosedInOrder, List
  <2>2. state["http"] = "closed" /\ state["grpc"] = "closed"
    BY <2>1, TheList
  <2> QED
    BY <1>1, <1>6, <2>1, <2>2, EndingKeepsInv DEF Exit, ServesNobody, Calls
<1> QED
  BY <1>4, <1>5, <1>6

-----------------------------------------------------------------------------
\* The invariant: what is closed was closed in the order of the list, whoever
\* waits has everything he needs open, nothing fails under him, nothing is
\* dropped, and a process ends the way EndsInOrder says.
THEOREM ShutdownInvariant == Spec => []ShutdownInv
<1>1. ShutdownInv /\ [Next]_vars => ShutdownInv'
  <2> SUFFICES ASSUME ShutdownInv, [Next]_vars
               PROVE  ShutdownInv'
    OBVIOUS
  <2>1. CASE UNCHANGED vars
    <3>1. ShutdownResources' = ShutdownResources
      BY <2>1, ListUnchanged DEF vars
    <3>2. TypeOK' /\ ClosedInOrder'
      BY <2>1, <3>1, OrderUntouched DEF vars, ShutdownInv, TypeOK
    <3>3. ServesNobody' /\ CallsFinish' /\ NothingDropped' /\ EndsInOrder'
      BY <2>1, <3>1 DEF vars, ShutdownInv, ServesNobody, CallsFinish, Waiting,
                        NothingDropped, EndsInOrder
    <3> QED
      BY <3>2, <3>3 DEF ShutdownInv
  <2>2. ASSUME NEW w \in Work, WorkStep(w) PROVE ShutdownInv'
    <3>1. CASE HandlerFails(w)
      BY <3>1, DeathsKeepInv DEF HandlerFails
    <3> QED
      BY <2>2, <3>1, GoesOnKeepsInv DEF WorkStep
  <2>3. ASSUME NEW c \in Calls,
               HttpCall(c) \/ GrpcCall(c) \/ ClientLeaves(c) \/ ReplyTimerRejects(c)
        PROVE  ShutdownInv'
    <3>1. c \in Work
      BY DEF Work
    <3> QED
      BY <2>3, <3>1, BeginsKeepInv, GoesOnKeepsInv, DeathsKeepInv
  <2>4. ASSUME NEW h \in Handlers, HandlerStarts(h) PROVE ShutdownInv'
    BY <2>4, BeginsKeepInv
  <2>5. ASSUME NEW p \in Passes, Signal(p) \/ PassStep(p) PROVE ShutdownInv'
    BY <2>5, PassesKeepInv DEF PassStep
  <2>6. CASE Listen \/ StartGrpc
    BY <2>6, DeathsKeepInv
  <2> QED
    BY <2>1, <2>2, <2>3, <2>4, <2>5, <2>6 DEF Next
<1> QED
  BY InitialState, <1>1, PTL DEF Spec

\* No client is left without its answer by a shutdown.
COROLLARY CallsAlwaysFinish == Spec => []CallsFinish
<1>1. ShutdownInv => CallsFinish
  BY DEF ShutdownInv
<1> QED
  BY <1>1, ShutdownInvariant, PTL

\* No delivery goes to the dead-letter queue because of a shutdown.
COROLLARY NothingIsDropped == Spec => []NothingDropped
<1>1. ShutdownInv => NothingDropped
  BY DEF ShutdownInv
<1> QED
  BY <1>1, ShutdownInvariant, PTL

\* A process exits with everything closed, and dies for three reasons only.
COROLLARY AlwaysEndsInOrder == Spec => []EndsInOrder
<1>1. ShutdownInv => EndsInOrder
  BY DEF ShutdownInv
<1> QED
  BY <1>1, ShutdownInvariant, PTL
=============================================================================
