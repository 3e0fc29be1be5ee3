-------------------------- MODULE MessageBusProofs --------------------------
(***************************************************************************)
(* The types of MessageBus, that a thread of iMessage has one debounce     *)
(* worker at a time, that no fragment overtakes another of its thread or   *)
(* is dispatched twice, and that typed lines are answered: for any         *)
(* fragments, requests, listeners and capacities.                          *)
(***************************************************************************)
EXTENDS MessageBus, SequenceTheorems, TLAPS

Live == {"gathering", "sending", "leaving"}

\* A handler runs only if its channel is configured, starts at most one
\* worker, and puts its fragment into the channel of one there is.
RequestInv(r) ==
    /\ request[r].pc # "none" => "imessage" \in Listeners
    /\ request[r].pc = "putting" => request[r].worker \in Requests
    /\ worker[r].pc # "none" => request[r].pc \in {"putting", "answered"}

DiscordInv == \A m \in DiscordMessages : handler[m] # "none" => "discord" \in Listeners

\* Channel.pending is the inverse of "works for": each entry leads to a worker
\* of that thread that has not left, and each worker that has not left is its
\* thread's entry.
RouteInv ==
    /\ \A t \in Threads : pending[t] # None =>
           worker[pending[t]].pc \in Live /\ ThreadOf[pending[t][1]] = t
    /\ \A w \in Requests : worker[w].pc \in Live => pending[ThreadOf[w[1]]] = w

\* What iMessage's own steps have to keep.
IMessageInv ==
    /\ HandlersOK
    /\ \A r \in Requests : RequestInv(r)
    /\ RouteInv

IInv ==
    /\ TypeOK
    /\ IMessageInv
    /\ DiscordInv

\* The initial state satisfies the invariant.
LEMMA InitIInv == Init => IInv
  <1> SUFFICES ASSUME Init PROVE IInv OBVIOUS
  <1> USE IMessageAssumption, MessageBusAssumption
  <1>1. BusOK
    <2>1. inbound \in Seq(Message) /\ Len(inbound) <= BusSize BY EmptySeq DEF Init
    <2>2. closed \in BOOLEAN /\ stopped \in BOOLEAN /\ panicked \in BOOLEAN
      BY Zenon DEF Init
    <2> QED BY <2>1, <2>2 DEF BusOK
  <1>2. HandlersOK
    BY EmptySeq DEF Init, InitIMessage, HandlersOK, NoHandler, NoWorker, HandlerPC, WorkerPC
  <1>3. ListenersOK
    <2>1. listener \in [Listeners -> {"listening", "pushing", "returned"}] BY DEF Init
    <2>2. taken \in [Sequential -> 0 .. MaxItems] BY DEF Init
    <2>3. ended \in BOOLEAN BY Zenon DEF Init
    <2>4. handler \in [DiscordMessages -> {"none", "pushing", "returned"}] BY DEF Init
    <2> QED BY <2>1, <2>2, <2>3, <2>4 DEF ListenersOK
  <1>4. returned \in BOOLEAN /\ processed \in [Listeners -> Seq(Items)]
    BY EmptySeq DEF Init
  <1>5. \A r \in Requests : RequestInv(r)
    BY DEF Init, InitIMessage, RequestInv, NoHandler, NoWorker
  <1>6. DiscordInv BY DEF Init, DiscordInv
  <1>7. RouteInv BY DEF Init, InitIMessage, RouteInv, NoWorker, Live
  <1> QED BY <1>1, <1>2, <1>3, <1>4, <1>5, <1>6, <1>7 DEF IInv, IMessageInv, TypeOK

\* A request is a fragment and a number, and its thread is one of the threads.
LEMMA ThreadOfRequest ==
  ASSUME NEW r \in Requests
  PROVE  r[1] \in Fragments /\ ThreadOf[r[1]] \in Threads /\ r # None
  BY IMessageAssumption DEF Threads

-----------------------------------------------------------------------------
(* The bus, seen by its senders.                                           *)

\* A send that finds room leaves the bus within its capacity.
LEMMA Pushing ==
  ASSUME BusOK, NEW msg \in Message, Push(msg)
  PROVE  BusOK'
  BY IMessageAssumption DEF BusOK, Push

\* A send on the closed bus leaves the invariant as it was.
LEMMA Panicking ==
  ASSUME BusOK, PushPanics
  PROVE  BusOK'
  BY DEF BusOK, PushPanics

-----------------------------------------------------------------------------
(* The handlers and workers of iMessage.                                   *)

\* A step that leaves the variables of iMessage alone keeps its invariant.
LEMMA IMessageStutter ==
  ASSUME IMessageInv, UNCHANGED imessageVars
  PROVE  IMessageInv'
  BY DEF IMessageInv, HandlersOK, RequestInv, RouteInv, imessageVars

\* The dedup keeps the invariant.
LEMMA ReceiveStep ==
  ASSUME IMessageInv, NEW r \in Requests, "imessage" \in Listeners, Receive(r)
  PROVE  IMessageInv' /\ UNCHANGED busVars
  <1> USE DEF IMessageInv
  <1>1. r[1] \in Fragments BY ThreadOfRequest
  <1>2. request' = [request EXCEPT ![r] = [pc |-> "answered", worker |-> None]]
        \/ request' = [request EXCEPT ![r].pc = "accepted"]
    BY DEF Receive, Answered
  <1>3. request[r].pc = "none" /\ UNCHANGED <<busVars, pending, worker, accepted>>
    BY DEF Receive
  <1>4. HandlersOK'
    <2>1. seenIDs' \subseteq Fragments \ Unnamed BY <1>1 DEF Receive, HandlersOK
    <2>2. request \in [Requests -> [pc : HandlerPC, worker : Requests \cup {None}]]
      BY DEF HandlersOK
    <2>3. request' \in [Requests -> [pc : HandlerPC, worker : Requests \cup {None}]]
      <3>1. CASE request' = [request EXCEPT ![r] = [pc |-> "answered", worker |-> None]]
        BY <2>2, <3>1 DEF HandlerPC
      <3>2. CASE request' = [request EXCEPT ![r].pc = "accepted"]
        BY <2>2, <3>2 DEF HandlerPC
      <3> QED BY <1>2, <3>1, <3>2
    <2> QED BY <1>3, <2>1, <2>3 DEF HandlersOK
  <1>5. ASSUME NEW q \in Requests PROVE RequestInv(q)'
    <2>1. CASE q = r
      <3>1. request'[r].pc \in {"accepted", "answered"}
        <4>1. CASE request' = [request EXCEPT ![r] = [pc |-> "answered", worker |-> None]]
          BY <4>1 DEF HandlersOK
        <4>2. CASE request' = [request EXCEPT ![r].pc = "accepted"]
          BY <4>2 DEF HandlersOK
        <4> QED BY <1>2, <4>1, <4>2
      <3>2. worker'[r].pc = "none" BY <1>3 DEF RequestInv
      <3> QED BY <2>1, <3>1, <3>2 DEF RequestInv
    <2>2. CASE q # r BY <1>2, <1>3, <2>2 DEF RequestInv, HandlersOK
    <2> QED BY <2>1, <2>2
  <1>6. RouteInv' BY <1>3 DEF RouteInv
  <1> QED BY <1>3, <1>4, <1>5, <1>6

\* The lookup in pending, which may start a worker, keeps it.
LEMMA EnqueueStep ==
  ASSUME IMessageInv, NEW r \in Requests, Enqueue(r)
  PROVE  IMessageInv' /\ UNCHANGED busVars
  <1> DEFINE t == ThreadOf[r[1]]
             w == WorkerFor(r)
  <1> USE DEF IMessageInv
  <1>1. t \in Threads /\ r # None BY ThreadOfRequest
  <1>2. /\ w \in Requests
        /\ w = pending[t] \/ (w = r /\ pending[t] = None)
    <2>1. CASE pending[t] # None
      <3>1. w = pending[t] BY <2>1 DEF WorkerFor
      <3> QED BY <1>1, <2>1, <3>1 DEF HandlersOK
    <2>2. CASE pending[t] = None BY <2>2 DEF WorkerFor
    <2> QED BY <2>1, <2>2
  <1>3. /\ request[r].pc = "accepted"
        /\ request' = [request EXCEPT ![r] = [pc |-> "putting", worker |-> w]]
        /\ pending' = [pending EXCEPT ![t] = w]
        /\ worker' = IF w = r THEN [worker EXCEPT ![r].pc = "gathering"] ELSE worker
        /\ UNCHANGED <<busVars, seenIDs, accepted>>
    BY DEF Enqueue
  <1>4. worker[r].pc = "none" /\ "imessage" \in Listeners BY <1>3 DEF RequestInv, HandlersOK, WorkerPC
  <1>5. w = r => pending[t] = None BY <1>1, <1>2, <1>4 DEF RouteInv, Live
  <1>6. HandlersOK'
    <2>1. pending' \in [Threads -> Requests \cup {None}] BY <1>1, <1>2, <1>3 DEF HandlersOK
    <2>2. request' \in [Requests -> [pc : HandlerPC, worker : Requests \cup {None}]]
      BY <1>2, <1>3 DEF HandlersOK, HandlerPC
    <2>3. worker' \in [Requests -> [pc : WorkerPC, queue : Seq(Fragments),
                                    parts : Seq(Fragments), timer : BOOLEAN]]
      BY <1>3 DEF HandlersOK, WorkerPC
    <2>4. \A v \in Requests : worker'[v].queue = worker[v].queue BY <1>3 DEF HandlersOK
    <2> QED BY <1>3, <2>1, <2>2, <2>3, <2>4 DEF HandlersOK
  <1>7. ASSUME NEW q \in Requests PROVE RequestInv(q)'
    <2>1. CASE q = r BY <1>2, <1>3, <1>4, <2>1 DEF RequestInv, HandlersOK
    <2>2. CASE q # r BY <1>3, <2>2 DEF RequestInv, HandlersOK
    <2> QED BY <2>1, <2>2
  <1>8. RouteInv'
    <2>1. ASSUME NEW u \in Threads, pending'[u] # None
          PROVE  worker'[pending'[u]].pc \in Live /\ ThreadOf[pending'[u][1]] = u
      <3>1. CASE u = t /\ w = r BY <1>1, <1>3, <3>1 DEF HandlersOK, Live
      <3>2. CASE ~(u = t /\ w = r)
        <4>1. pending'[u] = pending[u] BY <1>1, <1>2, <1>3, <3>2 DEF HandlersOK
        <4>2. pending[u] \in Requests /\ worker[pending[u]].pc \in Live
              /\ ThreadOf[pending[u][1]] = u
          BY <2>1, <4>1 DEF RouteInv, HandlersOK
        <4>3. worker'[pending[u]].pc \in Live BY <1>3, <4>2 DEF HandlersOK, Live
        <4> QED BY <4>1, <4>2, <4>3
      <3> QED BY <3>1, <3>2
    <2>2. ASSUME NEW v \in Requests, worker'[v].pc \in Live
          PROVE  pending'[ThreadOf[v[1]]] = v
      <3>1. CASE v = r /\ w = r BY <1>1, <1>3, <3>1 DEF HandlersOK
      <3>2. CASE ~(v = r /\ w = r)
        <4>1. worker[v].pc \in Live BY <1>3, <2>2, <3>2 DEF HandlersOK
        <4>2. pending[ThreadOf[v[1]]] = v /\ v # None BY <4>1, ThreadOfRequest DEF RouteInv
        <4>3. pending'[ThreadOf[v[1]]] = pending[ThreadOf[v[1]]]
          BY <1>1, <1>2, <1>3, <1>5, <4>2 DEF HandlersOK
        <4> QED BY <4>2, <4>3
      <3> QED BY <3>1, <3>2
    <2> QED BY <2>1, <2>2 DEF RouteInv
  <1> QED BY <1>3, <1>6, <1>7, <1>8

\* A step that moves no worker on, or only among the phases in which it is its
\* thread's, keeps the routing.
LEMMA RouteKept ==
  ASSUME HandlersOK, RouteInv, UNCHANGED pending,
         \A v \in Requests : worker'[v].pc \in Live <=> worker[v].pc \in Live
  PROVE  RouteInv'
  BY DEF RouteInv, HandlersOK

\* The send into the worker's channel keeps it.
LEMMA PutStep ==
  ASSUME IMessageInv, NEW r \in Requests, Put(r)
  PROVE  IMessageInv' /\ UNCHANGED busVars
  <1> DEFINE w == request[r].worker
  <1> USE DEF IMessageInv
  <1>1. /\ request[r].pc = "putting" /\ Len(worker[w].queue) < PartsSize
        /\ worker' = [worker EXCEPT ![w].queue = Append(@, r[1])]
        /\ request' = [request EXCEPT ![r] = [pc |-> "answered", worker |-> None]]
        /\ accepted' = Append(accepted, r[1])
        /\ UNCHANGED <<busVars, seenIDs, pending>>
    BY DEF Put, Answered
  <1>2. w \in Requests /\ r[1] \in Fragments BY <1>1, ThreadOfRequest DEF RequestInv
  <1>3. Append(worker[w].queue, r[1]) \in Seq(Fragments)
        /\ Len(Append(worker[w].queue, r[1])) = Len(worker[w].queue) + 1
        /\ Len(worker[w].queue) \in Nat
    BY <1>2, AppendProperties, LenProperties DEF HandlersOK
  <1>4. HandlersOK'
    <2>1. accepted' \in Seq(Fragments) BY <1>1, <1>2, AppendProperties DEF HandlersOK
    <2>2. request' \in [Requests -> [pc : HandlerPC, worker : Requests \cup {None}]]
      BY <1>1 DEF HandlersOK, HandlerPC
    <2>3. worker' \in [Requests -> [pc : WorkerPC, queue : Seq(Fragments),
                                    parts : Seq(Fragments), timer : BOOLEAN]]
      BY <1>1, <1>2, <1>3 DEF HandlersOK
    <2>4. \A v \in Requests : Len(worker'[v].queue) <= PartsSize
      <3> TAKE v \in Requests
      <3>1. CASE v = w BY <1>1, <1>2, <1>3, <3>1, IMessageAssumption DEF HandlersOK
      <3>2. CASE v # w BY <1>1, <3>2 DEF HandlersOK
      <3> QED BY <3>1, <3>2
    <2> QED BY <1>1, <2>1, <2>2, <2>3, <2>4 DEF HandlersOK
  <1>5. \A v \in Requests : worker'[v].pc = worker[v].pc BY <1>1 DEF HandlersOK
  <1>6. ASSUME NEW q \in Requests PROVE RequestInv(q)'
    <2>1. CASE q = r BY <1>1, <1>5, <2>1 DEF RequestInv, HandlersOK
    <2>2. CASE q # r BY <1>1, <1>5, <2>2 DEF RequestInv, HandlersOK
    <2> QED BY <2>1, <2>2
  <1>7. RouteInv' BY <1>1, <1>5, RouteKept
  <1> QED BY <1>1, <1>4, <1>6, <1>7

\* So does giving that send up at the shutdown.
LEMMA PutStopsStep ==
  ASSUME IMessageInv, NEW r \in Requests, PutStops(r)
  PROVE  IMessageInv' /\ UNCHANGED busVars
  <1> USE DEF IMessageInv
  <1>1. /\ request[r].pc = "putting"
        /\ request' = [request EXCEPT ![r] = [pc |-> "answered", worker |-> None]]
        /\ UNCHANGED <<busVars, seenIDs, pending, worker, accepted>>
    BY DEF PutStops, Answered
  <1>2. HandlersOK' BY <1>1 DEF HandlersOK, HandlerPC
  <1>3. ASSUME NEW q \in Requests PROVE RequestInv(q)'
    <2>1. CASE q = r BY <1>1, <2>1 DEF RequestInv, HandlersOK
    <2>2. CASE q # r BY <1>1, <2>2 DEF RequestInv, HandlersOK
    <2> QED BY <2>1, <2>2
  <1>4. RouteInv' BY <1>1 DEF RouteInv
  <1> QED BY <1>1, <1>2, <1>3, <1>4

\* A worker that stays at work, with parts and a queue no longer than before.
LEMMA WorkerKept ==
  ASSUME IMessageInv, NEW w \in Requests, worker[w].pc # "none",
         NEW v \in [pc : WorkerPC, queue : Seq(Fragments),
                    parts : Seq(Fragments), timer : BOOLEAN],
         Len(v.queue) <= PartsSize, v.pc # "none",
         worker' = [worker EXCEPT ![w] = v],
         UNCHANGED <<seenIDs, pending, request, accepted>>
  PROVE  HandlersOK' /\ \A r \in Requests : RequestInv(r)'
  <1> USE DEF IMessageInv
  <1>1. HandlersOK'
    <2>1. worker' \in [Requests -> [pc : WorkerPC, queue : Seq(Fragments),
                                    parts : Seq(Fragments), timer : BOOLEAN]]
      BY DEF HandlersOK
    <2>2. \A u \in Requests : Len(worker'[u].queue) <= PartsSize BY DEF HandlersOK
    <2> QED BY <2>1, <2>2 DEF HandlersOK
  <1>2. ASSUME NEW r \in Requests PROVE RequestInv(r)'
    <2>1. CASE r = w BY <2>1 DEF RequestInv
    <2>2. CASE r # w BY <2>2 DEF RequestInv, HandlersOK
    <2> QED BY <2>1, <2>2
  <1> QED BY <1>1, <1>2

\* A worker that takes a fragment keeps it.
LEMMA GatherStep ==
  ASSUME IMessageInv, NEW w \in Requests, Gather(w)
  PROVE  IMessageInv' /\ UNCHANGED busVars
  <1> DEFINE v == Gathered(w)
  <1>1. /\ worker[w].pc = "gathering" /\ worker[w].queue # <<>>
        /\ worker' = [worker EXCEPT ![w] = v]
        /\ UNCHANGED <<busVars, seenIDs, pending, request, accepted>>
    BY DEF Gather
  <1>2. worker[w] \in [pc : WorkerPC, queue : Seq(Fragments),
                       parts : Seq(Fragments), timer : BOOLEAN]
        /\ Len(worker[w].queue) <= PartsSize
    BY DEF IMessageInv, HandlersOK
  <1>3. /\ Head(worker[w].queue) \in Fragments /\ Tail(worker[w].queue) \in Seq(Fragments)
        /\ Len(Tail(worker[w].queue)) <= PartsSize
    BY <1>1, <1>2, HeadTailProperties, LenProperties, IMessageAssumption
  <1>4. Append(worker[w].parts, Head(worker[w].queue)) \in Seq(Fragments)
    BY <1>2, <1>3, AppendProperties
  <1>5. /\ v.pc = worker[w].pc /\ v.queue = Tail(worker[w].queue)
        /\ v \in [pc : WorkerPC, queue : Seq(Fragments),
                  parts : Seq(Fragments), timer : BOOLEAN]
    BY <1>2, <1>3, <1>4 DEF Gathered
  <1>6. HandlersOK' /\ \A r \in Requests : RequestInv(r)'
    <2>1. Len(v.queue) <= PartsSize /\ v.pc # "none" /\ worker[w].pc # "none"
      BY <1>1, <1>3, <1>5
    <2> HIDE DEF v
    <2> QED BY <1>1, <1>5, <2>1, WorkerKept
  <1>7. RouteInv'
    <2>1. \A u \in Requests : worker'[u].pc = worker[u].pc
      BY <1>1, <1>5 DEF IMessageInv, HandlersOK
    <2> QED BY <1>1, <2>1, RouteKept DEF IMessageInv
  <1> QED BY <1>1, <1>6, <1>7 DEF IMessageInv

\* The other steps of a worker that stay with its thread.
LEMMA WorkerMoves ==
  ASSUME IMessageInv, NEW w \in Requests, worker[w].pc \in Live,
         UNCHANGED <<seenIDs, pending, request, accepted>>,
         \/ worker' = [worker EXCEPT ![w].pc = "sending"]
         \/ worker' = [worker EXCEPT ![w].pc = "leaving", ![w].parts = <<>>, ![w].timer = FALSE]
  PROVE  IMessageInv'
  <1> DEFINE v == worker'[w]
  <1>1. worker[w] \in [pc : WorkerPC, queue : Seq(Fragments),
                       parts : Seq(Fragments), timer : BOOLEAN]
        /\ Len(worker[w].queue) <= PartsSize
    BY DEF IMessageInv, HandlersOK
  <1>2. <<>> \in Seq(Fragments) BY EmptySeq
  <1>3. /\ v \in [pc : WorkerPC, queue : Seq(Fragments),
                  parts : Seq(Fragments), timer : BOOLEAN]
        /\ v.queue = worker[w].queue /\ v.pc \in {"sending", "leaving"}
        /\ worker' = [worker EXCEPT ![w] = v]
    <2>1. CASE worker' = [worker EXCEPT ![w].pc = "sending"]
      BY <1>1, <2>1 DEF WorkerPC, IMessageInv, HandlersOK
    <2>2. CASE worker' = [worker EXCEPT ![w].pc = "leaving", ![w].parts = <<>>, ![w].timer = FALSE]
      BY <1>1, <1>2, <2>2 DEF WorkerPC, IMessageInv, HandlersOK
    <2> QED BY <2>1, <2>2
  <1>4. HandlersOK' /\ \A r \in Requests : RequestInv(r)'
    <2>1. Len(v.queue) <= PartsSize /\ v.pc # "none" /\ worker[w].pc # "none"
      BY <1>1, <1>3 DEF Live
    <2> HIDE DEF v
    <2> QED BY <1>3, <2>1, WorkerKept
  <1>5. RouteInv'
    <2>1. \A u \in Requests : worker'[u].pc \in Live <=> worker[u].pc \in Live
      BY <1>3 DEF IMessageInv, HandlersOK, Live
    <2> QED BY <2>1, RouteKept DEF IMessageInv
  <1> QED BY <1>4, <1>5 DEF IMessageInv

\* A worker that takes its entry out of pending keeps it.
LEMMA LeaveStep ==
  ASSUME IMessageInv, NEW w \in Requests, Leave(w)
  PROVE  IMessageInv' /\ UNCHANGED busVars
  <1> DEFINE t == ThreadOf[w[1]]
  <1>1. /\ worker[w].pc = "leaving"
        /\ worker' = [worker EXCEPT ![w].pc = "gone"]
        /\ pending' = [pending EXCEPT ![t] = IF @ = w THEN None ELSE @]
        /\ UNCHANGED <<busVars, seenIDs, request, accepted>>
    BY DEF Leave
  <1>2. t \in Threads /\ pending[t] = w
    BY <1>1, ThreadOfRequest DEF IMessageInv, RouteInv, Live
  <1>3. pending' = [pending EXCEPT ![t] = None] BY <1>1, <1>2
  <1>4. HandlersOK'
    <2>1. worker' \in [Requests -> [pc : WorkerPC, queue : Seq(Fragments),
                                    parts : Seq(Fragments), timer : BOOLEAN]]
      BY <1>1 DEF IMessageInv, HandlersOK, WorkerPC
    <2>2. \A u \in Requests : worker'[u].queue = worker[u].queue
      BY <1>1 DEF IMessageInv, HandlersOK
    <2>3. pending' \in [Threads -> Requests \cup {None}]
      BY <1>3 DEF IMessageInv, HandlersOK
    <2> QED BY <1>1, <2>1, <2>2, <2>3 DEF IMessageInv, HandlersOK
  <1>5. ASSUME NEW r \in Requests PROVE RequestInv(r)'
    <2>1. CASE r = w BY <1>1, <2>1 DEF IMessageInv, RequestInv, HandlersOK
    <2>2. CASE r # w BY <1>1, <2>2 DEF IMessageInv, RequestInv, HandlersOK
    <2> QED BY <2>1, <2>2
  <1>6. RouteInv'
    <2>1. ASSUME NEW u \in Threads, pending'[u] # None
          PROVE  worker'[pending'[u]].pc \in Live /\ ThreadOf[pending'[u][1]] = u
      <3>1. u # t /\ pending'[u] = pending[u] /\ pending[u] \in Requests
        BY <1>2, <1>3, <2>1 DEF IMessageInv, HandlersOK
      <3>2. worker[pending[u]].pc \in Live /\ ThreadOf[pending[u][1]] = u
        BY <2>1, <3>1 DEF IMessageInv, RouteInv
      <3>3. pending[u] # w BY <3>1, <3>2
      <3> QED BY <1>1, <3>1, <3>2, <3>3 DEF IMessageInv, HandlersOK
    <2>2. ASSUME NEW v \in Requests, worker'[v].pc \in Live
          PROVE  pending'[ThreadOf[v[1]]] = v
      <3>1. v # w BY <1>1, <2>2 DEF IMessageInv, HandlersOK, Live
      <3>2. worker[v].pc \in Live BY <1>1, <2>2, <3>1 DEF IMessageInv, HandlersOK
      <3>3. pending[ThreadOf[v[1]]] = v BY <3>2 DEF IMessageInv, RouteInv
      <3>4. ThreadOf[v[1]] # t BY <1>2, <3>1, <3>3
      <3> QED BY <1>3, <3>3, <3>4, ThreadOfRequest DEF IMessageInv, HandlersOK
    <2> QED BY <2>1, <2>2 DEF RouteInv
  <1> QED BY <1>1, <1>4, <1>5, <1>6 DEF IMessageInv

\* The requests and the workers, as MessageBus composes them.
RestKept == UNCHANGED <<listenerVars, returned, processed>>

\* Every step of the iMessage channel keeps it.
LEMMA IMessageStep ==
  ASSUME IInv, NEW r \in Requests, WebhookReceive(r) \/ WebhookHandle(r) \/ Debounce(r)
  PROVE  IMessageInv' /\ BusOK' /\ RestKept
  <1>1. IMessageInv /\ BusOK BY DEF IInv, TypeOK
  <1>2. RestKept BY DEF RestKept, WebhookReceive, WebhookHandle, Debounce
  <1>3. UNCHANGED busVars => BusOK' BY <1>1 DEF BusOK, busVars
  <1>4. CASE WebhookReceive(r)
    BY <1>1, <1>2, <1>3, <1>4, ReceiveStep DEF WebhookReceive
  <1>5. CASE WebhookHandle(r)
    BY <1>1, <1>2, <1>3, <1>5, EnqueueStep, PutStep, PutStopsStep DEF WebhookHandle, Handle
  <1>6. CASE Debounce(r)
    <2>1. CASE Gather(r) BY <1>1, <1>2, <1>3, <2>1, GatherStep
    <2>2. CASE TimerFires(r)
      <3>1. worker[r].pc \in Live /\ UNCHANGED busVars BY <2>2 DEF TimerFires, Live
      <3>2. IMessageInv' BY <1>1, <2>2, <3>1, WorkerMoves DEF TimerFires
      <3> QED BY <1>2, <1>3, <3>1, <3>2
    <2>3. CASE SendParts(r)
      <3>1. worker[r].pc \in Live BY <2>3 DEF SendParts, Live
      <3>2. IMessageInv' BY <1>1, <2>3, <3>1, WorkerMoves DEF SendParts, Discharged
      <3>3. [channel |-> "imessage", body |-> worker[r].parts] \in Message
        <4>1. "imessage" \in Listeners
          BY <1>1, <3>1 DEF IMessageInv, RequestInv, Live
        <4>2. worker[r].parts \in Seq(Fragments) BY <1>1 DEF IMessageInv, HandlersOK
        <4>3. worker[r].parts \in Seq(Items)
          <5>1. Fragments \subseteq Items BY DEF Items
          <5> QED BY <4>2, <5>1, SeqMonotonic
        <4> QED BY <4>1, <4>3 DEF Message
      <3>4. BusOK' BY <1>1, <2>3, <3>3, Pushing DEF SendParts
      <3> QED BY <1>2, <3>2, <3>4
    <2>4. CASE SendPartsPanics(r)
      BY <1>1, <1>2, <2>4, Panicking, IMessageStutter DEF SendPartsPanics
    <2>5. CASE WorkerStops(r)
      <3>1. worker[r].pc \in Live /\ UNCHANGED busVars BY <2>5 DEF WorkerStops, Live
      <3>2. IMessageInv' BY <1>1, <2>5, <3>1, WorkerMoves DEF WorkerStops, Discharged
      <3> QED BY <1>2, <1>3, <3>1, <3>2
    <2>6. CASE Leave(r) BY <1>1, <1>2, <1>3, <2>6, LeaveStep
    <2> QED BY <1>6, <2>1, <2>2, <2>3, <2>4, <2>5, <2>6 DEF Debounce, Work
  <1> QED BY <1>4, <1>5, <1>6

-----------------------------------------------------------------------------
(* The listeners and Dispatcher.Run.                                       *)

\* What the other steps have to keep.
BusInv ==
    /\ BusOK /\ ListenersOK /\ DiscordInv
    /\ returned \in BOOLEAN
    /\ processed \in [Listeners -> Seq(Items)]

\* A listener that returns keeps it.
LEMMA Returning ==
  ASSUME BusInv, NEW l \in Listeners, Returns(l),
         UNCHANGED <<taken, handler>>, ended' \in BOOLEAN
  PROVE  BusInv' /\ UNCHANGED imessageVars
  <1>1. BusOK'
    BY Zenon DEF BusInv, BusOK, Returns, Cancel
  <1>2. ListenersOK' BY DEF BusInv, ListenersOK, Returns
  <1>3. DiscordInv' BY DEF BusInv, DiscordInv
  <1> QED BY <1>1, <1>2, <1>3 DEF BusInv, Returns

\* Every step of the other listeners keeps it.
LEMMA ListenerStep ==
  ASSUME BusInv, NEW l \in Listeners,
         TakeItem(l) \/ PushItem(l) \/ ListenerFails(l) \/ ListenerStops(l)
  PROVE  BusInv' /\ UNCHANGED imessageVars
  <1>0. ended \in BOOLEAN BY DEF BusInv, ListenersOK
  <1>1. CASE TakeItem(l)
    <2>1. taken' \in [Sequential -> 0 .. MaxItems]
      BY <1>1, MessageBusAssumption DEF TakeItem, BusInv, ListenersOK
    <2>2. listener' \in [Listeners -> {"listening", "pushing", "returned"}]
      BY <1>1 DEF TakeItem, BusInv, ListenersOK
    <2>3. BusOK' BY <1>1 DEF TakeItem, BusInv, BusOK, busVars
    <2> QED BY <1>1, <2>1, <2>2, <2>3 DEF TakeItem, BusInv, ListenersOK, DiscordInv
  <1>2. CASE PushItem(l)
    <2>1. [channel |-> l, body |-> <<taken[l]>>] \in Message
      <3>1. taken[l] \in Nat BY <1>2, MessageBusAssumption DEF PushItem, BusInv, ListenersOK
      <3>2. taken[l] \in Items BY <3>1 DEF Items
      <3>3. <<taken[l]>> \in Seq(Items) BY <3>2
      <3> QED BY <3>3 DEF Message
    <2>2. BusOK' BY <1>2, <2>1, Pushing DEF PushItem, BusInv
    <2>3. ListenersOK' BY <1>2 DEF PushItem, BusInv, ListenersOK
    <2> QED BY <1>2, <2>2, <2>3 DEF PushItem, BusInv, DiscordInv
  <1>3. CASE ListenerFails(l) BY <1>0, <1>3, Returning DEF ListenerFails
  <1>4. CASE ListenerStops(l) BY <1>0, <1>4, Returning DEF ListenerStops
  <1> QED BY <1>1, <1>2, <1>3, <1>4

\* A Discord handler's send keeps it.
LEMMA DiscordStep ==
  ASSUME BusInv, NEW m \in DiscordMessages, DiscordReceive(m) \/ DiscordHandle(m)
  PROVE  BusInv' /\ UNCHANGED imessageVars
  <1>1. CASE DiscordReceive(m)
    <2>1. BusOK' BY <1>1 DEF DiscordReceive, BusInv, BusOK, busVars
    <2>2. ListenersOK' BY <1>1 DEF DiscordReceive, BusInv, ListenersOK
    <2>3. DiscordInv' BY <1>1 DEF DiscordReceive, BusInv, DiscordInv
    <2> QED BY <1>1, <2>1, <2>2, <2>3 DEF DiscordReceive, BusInv
  <1>2. CASE DiscordHandle(m)
    <2>1. [channel |-> "discord", body |-> <<m>>] \in Message
      <3>1. "discord" \in Listeners BY <1>2 DEF DiscordHandle, BusInv, DiscordInv
      <3>2. m \in Items BY DEF Items
      <3>3. <<m>> \in Seq(Items) BY <3>2
      <3> QED BY <3>1, <3>3 DEF Message
    <2>2. BusOK'
      <3>1. BusOK BY DEF BusInv
      <3>2. CASE Push([channel |-> "discord", body |-> <<m>>]) BY <2>1, <3>1, <3>2, Pushing
      <3>3. CASE PushPanics BY <3>1, <3>3, Panicking
      <3>4. CASE UNCHANGED busVars BY <3>1, <3>4 DEF BusOK, busVars
      <3> QED BY <1>2, <3>2, <3>3, <3>4 DEF DiscordHandle
    <2>3. ListenersOK' BY <1>2 DEF DiscordHandle, BusInv, ListenersOK
    <2>4. DiscordInv' BY <1>2 DEF DiscordHandle, BusInv, DiscordInv
    <2> QED BY <1>2, <2>2, <2>3, <2>4 DEF DiscordHandle, BusInv
  <1> QED BY <1>1, <1>2

\* The dispatcher's turn keeps it.
LEMMA TakeStep ==
  ASSUME BusInv, Take
  PROVE  BusInv' /\ UNCHANGED imessageVars
  <1>1. /\ inbound # <<>> /\ inbound' = Tail(inbound)
        /\ processed' = [processed EXCEPT ![Head(inbound).channel] = @ \o Head(inbound).body]
    BY DEF Take
  <1>2. /\ Head(inbound) \in Message /\ Tail(inbound) \in Seq(Message)
        /\ Len(Tail(inbound)) = Len(inbound) - 1 /\ Len(inbound) \in Nat
    BY <1>1, HeadTailProperties, LenProperties DEF BusInv, BusOK
  <1>3. BusOK'
    <2>1. Len(inbound') <= BusSize BY <1>1, <1>2, IMessageAssumption DEF BusInv, BusOK
    <2> QED BY <1>1, <1>2, <2>1 DEF Take, BusInv, BusOK
  <1>4. processed' \in [Listeners -> Seq(Items)]
    <2>1. Head(inbound).channel \in Listeners /\ Head(inbound).body \in Seq(Items)
      BY <1>2 DEF Message
    <2>2. processed[Head(inbound).channel] \o Head(inbound).body \in Seq(Items)
      BY <2>1, ConcatProperties DEF BusInv
    <2> QED BY <1>1, <2>1, <2>2 DEF BusInv
  <1>5. UNCHANGED <<imessageVars, listenerVars, returned>> BY DEF Take
  <1>6. ListenersOK' /\ DiscordInv' BY <1>5 DEF BusInv, ListenersOK, DiscordInv, listenerVars
  <1> QED BY <1>3, <1>4, <1>5, <1>6 DEF BusInv

\* Every step keeps the invariant.
LEMMA NextIInv == IInv /\ [Next]_vars => IInv'
  <1> SUFFICES ASSUME IInv, [Next]_vars PROVE IInv' OBVIOUS
  <1>1. BusInv /\ IMessageInv BY DEF IInv, TypeOK, BusInv
  <1>2. BusInv' /\ IMessageInv' => IInv' BY DEF IInv, TypeOK, BusInv, IMessageInv
  <1>3. CASE \E l \in Listeners :
               TakeItem(l) \/ PushItem(l) \/ ListenerFails(l) \/ ListenerStops(l)
    BY <1>1, <1>2, <1>3, ListenerStep, IMessageStutter
  <1>4. CASE EndOfInput
    <2>1. "cli" \in Listeners /\ Returns("cli") /\ ended' \in BOOLEAN
          /\ UNCHANGED <<taken, handler>>
      BY <1>4 DEF EndOfInput
    <2> QED BY <1>1, <1>2, <2>1, Returning, IMessageStutter
  <1>5. CASE \E m \in DiscordMessages : DiscordReceive(m) \/ DiscordHandle(m)
    BY <1>1, <1>2, <1>5, DiscordStep, IMessageStutter
  <1>6. CASE \E r \in Requests : WebhookReceive(r) \/ WebhookHandle(r) \/ Debounce(r)
    <2>1. IMessageInv' /\ BusOK' /\ RestKept BY <1>6, IMessageStep
    <2>2. BusInv'
      BY <1>1, <2>1 DEF RestKept, BusInv, ListenersOK, DiscordInv, listenerVars
    <2> QED BY <1>2, <2>1, <2>2
  <1>7. CASE Close
    <2>1. BusOK' BY <1>1, <1>7, Zenon DEF Close, BusInv, BusOK
    <2>2. BusInv'
      BY <1>1, <1>7, <2>1 DEF Close, BusInv, ListenersOK, DiscordInv, listenerVars
    <2> QED BY <1>1, <1>2, <1>7, <2>2, IMessageStutter DEF Close
  <1>8. CASE Take BY <1>1, <1>2, <1>8, TakeStep, IMessageStutter
  <1>9. CASE RunReturns
    <2>1. BusOK' BY <1>1, <1>9 DEF RunReturns, BusInv, BusOK, busVars
    <2>2. returned' \in BOOLEAN BY <1>9, Zenon DEF RunReturns
    <2>3. BusInv'
      BY <1>1, <1>9, <2>1, <2>2 DEF RunReturns, BusInv, ListenersOK, DiscordInv, listenerVars
    <2> QED BY <1>1, <1>2, <1>9, <2>3, IMessageStutter DEF RunReturns
  <1>10. CASE UNCHANGED vars
    <2>1. BusInv'
      BY <1>1, <1>10 DEF vars, busVars, listenerVars, BusInv, BusOK, ListenersOK, DiscordInv
    <2> QED BY <1>1, <1>2, <1>10, <2>1, IMessageStutter DEF vars
  <1> QED BY <1>3, <1>4, <1>5, <1>6, <1>7, <1>8, <1>9, <1>10 DEF Next

\* The variables of the bus, its listeners and iMessage stay in their sets: no
\* channel ever holds more than its capacity, whoever sends.
THEOREM TypeCorrect == Spec => []TypeOK
  <1>1. IInv => TypeOK BY DEF IInv
  <1> QED BY <1>1, InitIInv, NextIInv, PTL DEF Spec

\* A thread has one debounce worker at a time, however its requests and the
\* leaving of an earlier worker interleave (imessage.go, enqueue and
\* debounceWorker).
THEOREM OneWorker == Spec => []OneWorkerPerThread
  <1>1. IInv => OneWorkerPerThread
    BY DEF IInv, IMessageInv, RouteInv, OneWorkerPerThread, Live
  <1> QED BY <1>1, InitIInv, NextIInv, PTL DEF Spec

-----------------------------------------------------------------------------
(* The order of the fragments.                                             *)

\* Where a fragment is on its way to the dispatcher: the k-th of those that went,
\* the k-th of the i-th message on the bus, the k-th gathered by a worker at work,
\* the k-th in the channel of one that still gathers.
Went(f, k) ==
    /\ "imessage" \in Listeners
    /\ k \in DOMAIN processed["imessage"]
    /\ processed["imessage"][k] = f

OnBus(f, i, k) ==
    /\ i \in DOMAIN inbound
    /\ inbound[i].channel = "imessage"
    /\ k \in DOMAIN inbound[i].body
    /\ inbound[i].body[k] = f

PartOf(w, f, k) ==
    /\ worker[w].pc \in {"gathering", "sending"}
    /\ k \in DOMAIN worker[w].parts
    /\ worker[w].parts[k] = f

QueuedFor(w, f, k) ==
    /\ worker[w].pc = "gathering"
    /\ k \in DOMAIN worker[w].queue
    /\ worker[w].queue[k] = f

Held(f, s, i, k) ==
    \/ s = 1 /\ i = 0 /\ Went(f, k)
    \/ s = 2 /\ OnBus(f, i, k)
    \/ s = 3 /\ i = 0 /\ \E w \in Requests : PartOf(w, f, k)
    \/ s = 4 /\ i = 0 /\ \E w \in Requests : QueuedFor(w, f, k)

\* The first of two such places is further on.
Before(s, i, k, t, j, l) == s < t \/ (s = t /\ (i < j \/ (i = j /\ k < l)))

Named == Fragments \ Unnamed

\* A fragment with a GUID is handled once, and is accepted once.
DedupInv ==
    /\ \A f \in Range(accepted) : f \in Named => f \in seenIDs
    /\ \A r \in Requests : request[r].pc \in {"accepted", "putting"} /\ r[1] \in Named =>
         /\ r[1] \in seenIDs /\ r[1] \notin Range(accepted)
         /\ \A q \in Requests \ {r} :
              q[1] = r[1] => request[q].pc \notin {"accepted", "putting"}

\* A handler puts its fragment into the channel of a worker of its thread; a worker
\* holds fragments of its thread only, and keeps no parts when it leaves.
ThreadInv ==
    /\ \A r \in Requests : request[r].pc = "putting" =>
         /\ ThreadOf[request[r].worker[1]] = ThreadOf[r[1]]
         /\ worker[request[r].worker].pc # "none"
    /\ \A w \in Requests :
         /\ \A k \in DOMAIN worker[w].queue : ThreadOf[worker[w].queue[k]] = ThreadOf[w[1]]
         /\ \A k \in DOMAIN worker[w].parts : ThreadOf[worker[w].parts[k]] = ThreadOf[w[1]]
         /\ worker[w].pc = "none" => worker[w].queue = <<>>
         /\ worker[w].pc \notin {"gathering", "sending"} => worker[w].parts = <<>>

HeldInv == \A f, s, i, k : Held(f, s, i, k) => f \in Range(accepted)

\* Of two fragments of a thread the one accepted first is further on, and a
\* fragment is in one place.
OrderInv ==
    \A f, g \in Named : ThreadOf[f] = ThreadOf[g] =>
      \A s, i, k, t, j, l :
        Held(f, s, i, k) /\ Held(g, t, j, l) =>
          /\ Precedes(f, g, accepted) => Before(s, i, k, t, j, l)
          /\ f = g => s = t /\ i = j /\ k = l

FragmentInv == DedupInv /\ ThreadInv /\ HeldInv /\ OrderInv

\* What the invariant says of the sequences.
LEMMA Shapes ==
  ASSUME IInv
  PROVE  /\ inbound \in Seq(Message) /\ DOMAIN inbound = 1 .. Len(inbound)
         /\ Len(inbound) \in Nat
         /\ \A i \in DOMAIN inbound : inbound[i] \in Message
         /\ accepted \in Seq(Fragments)
         /\ \A l \in Listeners : processed[l] \in Seq(Items)
         /\ DOMAIN processed = Listeners
         /\ \A w \in Requests :
              /\ worker[w].queue \in Seq(Fragments) /\ worker[w].parts \in Seq(Fragments)
              /\ DOMAIN worker[w].queue = 1 .. Len(worker[w].queue)
              /\ DOMAIN worker[w].parts = 1 .. Len(worker[w].parts)
              /\ Len(worker[w].queue) \in Nat /\ Len(worker[w].parts) \in Nat
  <1>1. inbound \in Seq(Message) /\ DOMAIN inbound = 1 .. Len(inbound)
        /\ Len(inbound) \in Nat
    BY DEF IInv, TypeOK, BusOK
  <1>2. \A i \in DOMAIN inbound : inbound[i] \in Message BY <1>1
  <1>3. accepted \in Seq(Fragments) BY DEF IInv, TypeOK, HandlersOK
  <1>4. (\A l \in Listeners : processed[l] \in Seq(Items)) /\ DOMAIN processed = Listeners
    BY DEF IInv, TypeOK
  <1>5. ASSUME NEW w \in Requests
        PROVE  worker[w].queue \in Seq(Fragments) /\ worker[w].parts \in Seq(Fragments)
    BY DEF IInv, TypeOK, HandlersOK
  <1>6. \A S, q : q \in Seq(S) => Len(q) \in Nat /\ DOMAIN q = 1 .. Len(q) OBVIOUS
  <1> QED BY <1>1, <1>2, <1>3, <1>4, <1>5, <1>6

\* A thread has one worker that is not gone.
LEMMA OneAtWork ==
  ASSUME IInv, NEW u \in Requests, NEW w \in Requests,
         worker[u].pc \in Live, worker[w].pc \in Live, ThreadOf[u[1]] = ThreadOf[w[1]]
  PROVE  u = w
  BY DEF IInv, IMessageInv, RouteInv

\* A place is a stage and two numbers.
LEMMA PlacesAreNumbers ==
  ASSUME IInv, NEW f, NEW s, NEW i, NEW k, Held(f, s, i, k)
  PROVE  s \in 1 .. 4 /\ i \in Nat /\ k \in Nat
  <1>1. CASE s = 1 /\ i = 0 /\ Went(f, k)
    <2>1. processed["imessage"] \in Seq(Items) BY <1>1, Shapes DEF Went
    <2> QED BY <1>1, <2>1 DEF Went
  <1>2. CASE s = 2 /\ OnBus(f, i, k)
    <2>1. i \in 1 .. Len(inbound) /\ inbound[i] \in Message BY <1>2, Shapes DEF OnBus
    <2>2. inbound[i].body \in Seq(Items) BY <2>1 DEF Message
    <2> QED BY <1>2, <2>1, <2>2 DEF OnBus
  <1>3. CASE s = 3 /\ i = 0 /\ \E w \in Requests : PartOf(w, f, k)
    BY <1>3, Shapes DEF PartOf
  <1>4. CASE s = 4 /\ i = 0 /\ \E w \in Requests : QueuedFor(w, f, k)
    BY <1>4, Shapes DEF QueuedFor
  <1> QED BY <1>1, <1>2, <1>3, <1>4 DEF Held

\* A step that moves nothing, though it may drop fragments.
LEMMA NothingMoves ==
  ASSUME HeldInv, OrderInv, UNCHANGED accepted,
         \A f, s, i, k : Held(f, s, i, k)' => Held(f, s, i, k)
  PROVE  HeldInv' /\ OrderInv'
  <1>1. HeldInv' BY DEF HeldInv
  <1>2. \A f, g : Precedes(f, g, accepted)' <=> Precedes(f, g, accepted) BY DEF Precedes
  <1>3. OrderInv' BY <1>2 DEF OrderInv, Before
  <1> QED BY <1>1, <1>3

\* A step that leaves the bus, what went, and the workers' phases and channels.
LEMMA SamePlaces ==
  ASSUME UNCHANGED <<inbound, processed>>,
         \A w \in Requests :
            /\ worker'[w].pc \in {"gathering", "sending"}
                 => \/ worker'[w].parts = <<>>
                    \/ /\ worker[w].pc \in {"gathering", "sending"}
                       /\ worker'[w].parts = worker[w].parts
            /\ worker'[w].pc = "gathering"
                 => \/ worker'[w].queue = <<>>
                    \/ worker[w].pc = "gathering" /\ worker'[w].queue = worker[w].queue
  PROVE  \A f, s, i, k : Held(f, s, i, k)' => Held(f, s, i, k)
  <1> SUFFICES ASSUME NEW f, NEW s, NEW i, NEW k, Held(f, s, i, k)' PROVE Held(f, s, i, k)
    OBVIOUS
  <1>1. Went(f, k)' => Went(f, k) BY DEF Went
  <1>2. OnBus(f, i, k)' => OnBus(f, i, k) BY DEF OnBus
  <1>3. DOMAIN <<>> = {} OBVIOUS
  <1>4. \A w \in Requests : PartOf(w, f, k)' => PartOf(w, f, k) BY <1>3 DEF PartOf
  <1>5. \A w \in Requests : QueuedFor(w, f, k)' => QueuedFor(w, f, k) BY <1>3 DEF QueuedFor
  <1> QED BY <1>1, <1>2, <1>4, <1>5 DEF Held

-----------------------------------------------------------------------------
(* The steps that move fragments.                                          *)

\* makeHandler: a fragment that was not seen before is handled, now and once.
LEMMA ReceiveOrder ==
  ASSUME IInv, FragmentInv, NEW r \in Requests, WebhookReceive(r)
  PROVE  FragmentInv'
  <1>1. /\ request[r].pc = "none"
        /\ request' = IF Duplicate(r[1]) THEN Answered(r)
                      ELSE [request EXCEPT ![r].pc = "accepted"]
        /\ seenIDs' = seenIDs \cup ({r[1]} \ Unnamed)
        /\ UNCHANGED <<inbound, processed, pending, worker, accepted>>
    BY DEF WebhookReceive, Receive, busVars
  <1>2. request \in [Requests -> [pc : HandlerPC, worker : Requests \cup {None}]]
    BY DEF IInv, TypeOK, HandlersOK
  <1>3. \A q \in Requests \ {r} : request'[q] = request[q] BY <1>1, <1>2 DEF Answered
  <1>4. request'[r].pc = IF Duplicate(r[1]) THEN "answered" ELSE "accepted"
    <2>1. CASE Duplicate(r[1]) BY <1>1, <1>2, <2>1 DEF Answered
    <2>2. CASE ~Duplicate(r[1]) BY <1>1, <1>2, <2>2
    <2> QED BY <2>1, <2>2
  <1>5. r[1] \in Fragments BY ThreadOfRequest
  <1>6. DedupInv'
    <2>1. \A f \in Range(accepted') : f \in Named => f \in seenIDs'
      BY <1>1 DEF FragmentInv, DedupInv
    <2>2. ASSUME NEW p \in Requests, request'[p].pc \in {"accepted", "putting"},
                 p[1] \in Named
          PROVE  /\ p[1] \in seenIDs' /\ p[1] \notin Range(accepted')
                 /\ \A q \in Requests \ {p} :
                      q[1] = p[1] => request'[q].pc \notin {"accepted", "putting"}
      <3>1. CASE p = r
        <4>1. ~Duplicate(r[1]) BY <1>4, <2>2, <3>1
        <4>2. r[1] \notin seenIDs BY <4>1, <2>2, <3>1 DEF Duplicate, Named
        <4>3. \A q \in Requests \ {r} :
                q[1] = r[1] => request[q].pc \notin {"accepted", "putting"}
          BY <4>2, <2>2, <3>1 DEF FragmentInv, DedupInv
        <4> QED BY <4>2, <4>3, <1>1, <1>3, <2>2, <3>1 DEF FragmentInv, DedupInv, Named
      <3>2. CASE p # r
        <4>1. request[p].pc \in {"accepted", "putting"} BY <1>3, <2>2, <3>2
        <4>2. /\ p[1] \in seenIDs /\ p[1] \notin Range(accepted)
              /\ \A q \in Requests \ {p} :
                   q[1] = p[1] => request[q].pc \notin {"accepted", "putting"}
          BY <4>1, <2>2 DEF FragmentInv, DedupInv
        <4>3. r[1] = p[1] => request'[r].pc = "answered"
          BY <4>2, <1>4, <2>2 DEF Duplicate, Named
        <4> QED BY <4>2, <4>3, <1>1, <1>3
      <3> QED BY <3>1, <3>2
    <2> QED BY <2>1, <2>2 DEF DedupInv
  <1>7. ThreadInv' BY <1>1, <1>3, <1>4 DEF FragmentInv, ThreadInv
  <1>8. \A f, s, i, k : Held(f, s, i, k)' => Held(f, s, i, k) BY <1>1, SamePlaces
  <1>9. HeldInv' /\ OrderInv' BY <1>1, <1>8, NothingMoves DEF FragmentInv
  <1> QED BY <1>6, <1>7, <1>9 DEF FragmentInv

\* enqueue: the fragment is routed to its thread's worker, or to a new one.
LEMMA EnqueueOrder ==
  ASSUME IInv, FragmentInv, NEW r \in Requests, Enqueue(r), UNCHANGED processed
  PROVE  FragmentInv'
  <1> DEFINE t == ThreadOf[r[1]]
             w == WorkerFor(r)
  <1>1. /\ request[r].pc = "accepted"
        /\ request' = [request EXCEPT ![r] = [pc |-> "putting", worker |-> w]]
        /\ worker' = IF w = r THEN [worker EXCEPT ![r].pc = "gathering"] ELSE worker
        /\ UNCHANGED <<inbound, seenIDs, accepted>>
    BY DEF Enqueue, busVars
  <1>2. /\ request \in [Requests -> [pc : HandlerPC, worker : Requests \cup {None}]]
        /\ worker \in [Requests -> [pc : WorkerPC, queue : Seq(Fragments),
                                    parts : Seq(Fragments), timer : BOOLEAN]]
    BY DEF IInv, TypeOK, HandlersOK
  <1>3. t \in Threads /\ r # None /\ r[1] \in Fragments BY ThreadOfRequest
  <1>4. worker[r].pc = "none"
    BY <1>1, <1>2 DEF IInv, IMessageInv, RequestInv, WorkerPC
  <1>5. w \in Requests /\ ThreadOf[w[1]] = t /\ (w # r => worker[w].pc \in Live)
    <2>1. CASE pending[t] # None
      <3>1. w = pending[t] /\ pending[t] \in Requests
        BY <2>1, <1>3 DEF WorkerFor, IInv, TypeOK, HandlersOK
      <3> QED BY <2>1, <3>1, <1>3 DEF IInv, IMessageInv, RouteInv
    <2>2. CASE pending[t] = None
      <3>1. w = r BY <2>2 DEF WorkerFor
      <3> QED BY <3>1
    <2> QED BY <2>1, <2>2
  <1> HIDE DEF w
  <1>6. \A q \in Requests \ {r} : request'[q] = request[q] BY <1>1, <1>2
  <1>7. request'[r] = [pc |-> "putting", worker |-> w] BY <1>1, <1>2
  <1>8. \A u \in Requests :
          /\ worker'[u].queue = worker[u].queue /\ worker'[u].parts = worker[u].parts
          /\ worker'[u].pc = IF u = w /\ w = r THEN "gathering" ELSE worker[u].pc
    BY <1>1, <1>2
  <1>9. DedupInv' BY <1>1, <1>6, <1>7 DEF FragmentInv, DedupInv
  <1>10. ThreadInv'
    <2>1. ASSUME NEW q \in Requests, request'[q].pc = "putting"
          PROVE  /\ ThreadOf[request'[q].worker[1]] = ThreadOf[q[1]]
                 /\ worker'[request'[q].worker].pc # "none"
      <3>1. CASE q = r BY <3>1, <1>5, <1>7, <1>8 DEF Live
      <3>2. CASE q # r
        <4>1. request[q].pc = "putting" /\ request'[q] = request[q] BY <2>1, <3>2, <1>6
        <4>2. request[q].worker \in Requests
          BY <4>1 DEF IInv, IMessageInv, RequestInv
        <4> QED BY <4>1, <4>2, <1>8 DEF FragmentInv, ThreadInv
      <3> QED BY <3>1, <3>2
    <2>2. \A u \in Requests :
            /\ \A k \in DOMAIN worker'[u].queue :
                 ThreadOf[worker'[u].queue[k]] = ThreadOf[u[1]]
            /\ \A k \in DOMAIN worker'[u].parts :
                 ThreadOf[worker'[u].parts[k]] = ThreadOf[u[1]]
            /\ worker'[u].pc = "none" => worker'[u].queue = <<>>
            /\ worker'[u].pc \notin {"gathering", "sending"} => worker'[u].parts = <<>>
      BY <1>8 DEF FragmentInv, ThreadInv
    <2> QED BY <2>1, <2>2 DEF ThreadInv
  <1>11. worker[r].queue = <<>> /\ worker[r].parts = <<>>
    BY <1>4 DEF FragmentInv, ThreadInv
  <1>12. \A f, s, i, k : Held(f, s, i, k)' => Held(f, s, i, k)
    <2>1. UNCHANGED <<inbound, processed>> BY <1>1
    <2> QED BY <2>1, <1>8, <1>11, SamePlaces
  <1>13. HeldInv' /\ OrderInv' BY <1>1, <1>12, NothingMoves DEF FragmentInv
  <1> QED BY <1>9, <1>10, <1>13 DEF FragmentInv

\* The send into the worker's channel: the fragment is behind all of its thread.
LEMMA PutOrder ==
  ASSUME IInv, FragmentInv, NEW r \in Requests, Put(r), UNCHANGED processed
  PROVE  FragmentInv'
  <1> DEFINE w == request[r].worker
             n == Len(worker[w].queue)
             new == r[1]
             longer == Append(worker[w].queue, new)
  <1>1. /\ request[r].pc = "putting"
        /\ worker' = [worker EXCEPT ![w].queue = Append(@, new)]
        /\ request' = [request EXCEPT ![r] = [pc |-> "answered", worker |-> None]]
        /\ accepted' = Append(accepted, new)
        /\ UNCHANGED <<inbound, seenIDs>>
    BY DEF Put, Answered, busVars
  <1>2. /\ request \in [Requests -> [pc : HandlerPC, worker : Requests \cup {None}]]
        /\ worker \in [Requests -> [pc : WorkerPC, queue : Seq(Fragments),
                                    parts : Seq(Fragments), timer : BOOLEAN]]
    BY DEF IInv, TypeOK, HandlersOK
  <1>3. w \in Requests /\ new \in Fragments
    BY <1>1, ThreadOfRequest DEF IInv, IMessageInv, RequestInv
  <1>4. ThreadOf[w[1]] = ThreadOf[new] /\ worker[w].pc # "none"
    BY <1>1 DEF FragmentInv, ThreadInv
  <1>5. /\ n \in Nat /\ DOMAIN worker[w].queue = 1 .. n
        /\ DOMAIN longer = 1 .. (n + 1)
        /\ \A k \in 1 .. n : longer[k] = worker[w].queue[k]
        /\ longer[n + 1] = new
    <2>1. worker[w].queue \in Seq(Fragments) BY <1>3, Shapes
    <2>2. \A S, q, e : q \in Seq(S) /\ e \in S =>
            /\ Len(q) \in Nat /\ DOMAIN q = 1 .. Len(q)
            /\ DOMAIN Append(q, e) = 1 .. (Len(q) + 1)
            /\ \A k \in 1 .. Len(q) : Append(q, e)[k] = q[k]
            /\ Append(q, e)[Len(q) + 1] = e
      OBVIOUS
    <2> HIDE DEF new
    <2> QED BY <2>1, <2>2, <1>3
  <1>6. \A q \in Requests \ {r} : request'[q] = request[q] BY <1>1, <1>2
  <1>7. request'[r].pc = "answered" BY <1>1, <1>2
  <1>8. \A u \in Requests :
          /\ worker'[u].parts = worker[u].parts /\ worker'[u].pc = worker[u].pc
          /\ worker'[u].queue = IF u = w THEN longer ELSE worker[u].queue
    BY <1>1, <1>2, <1>3
  <1>9. /\ accepted \in Seq(Fragments) /\ Len(accepted) \in Nat
        /\ DOMAIN accepted = 1 .. Len(accepted)
        /\ DOMAIN accepted' = 1 .. (Len(accepted) + 1)
        /\ \A k \in DOMAIN accepted : accepted'[k] = accepted[k]
        /\ accepted'[Len(accepted) + 1] = new
    BY <1>1, <1>3, Shapes, AppendProperties
  <1>10. Range(accepted') = Range(accepted) \cup {new}
    <2>1. \A x : x \in Range(accepted') => x \in Range(accepted) \cup {new}
      BY <1>9 DEF Range
    <2>2. \A x : x \in Range(accepted) \cup {new} => x \in Range(accepted')
      <3>1. new \in Range(accepted') BY <1>9 DEF Range
      <3>2. \A k \in DOMAIN accepted : k \in DOMAIN accepted' BY <1>9
      <3> QED BY <1>9, <3>1, <3>2 DEF Range
    <2> QED BY <2>1, <2>2
  <1>11. new \in Named => new \notin Range(accepted) /\ new \in seenIDs
    BY <1>1 DEF FragmentInv, DedupInv
  <1> HIDE DEF n, w, new, longer
  <1>12. DedupInv'
    <2>1. \A f \in Range(accepted') : f \in Named => f \in seenIDs'
      BY <1>1, <1>10, <1>11 DEF FragmentInv, DedupInv
    <2>2. ASSUME NEW p \in Requests, request'[p].pc \in {"accepted", "putting"},
                 p[1] \in Named
          PROVE  /\ p[1] \in seenIDs' /\ p[1] \notin Range(accepted')
                 /\ \A q \in Requests \ {p} :
                      q[1] = p[1] => request'[q].pc \notin {"accepted", "putting"}
      <3>1. p # r /\ request'[p] = request[p] BY <2>2, <1>6, <1>7
      <3>2. /\ p[1] \in seenIDs /\ p[1] \notin Range(accepted)
            /\ \A q \in Requests \ {p} :
                 q[1] = p[1] => request[q].pc \notin {"accepted", "putting"}
        BY <2>2, <3>1 DEF FragmentInv, DedupInv
      <3>3. p[1] # new BY <3>1, <3>2, <1>1 DEF new
      <3> QED BY <3>2, <3>3, <1>1, <1>6, <1>7, <1>10
    <2> QED BY <2>1, <2>2 DEF DedupInv
  <1>13. ThreadInv'
    <2>1. ASSUME NEW q \in Requests, request'[q].pc = "putting"
          PROVE  /\ ThreadOf[request'[q].worker[1]] = ThreadOf[q[1]]
                 /\ worker'[request'[q].worker].pc # "none"
      <3>1. q # r /\ request'[q] = request[q] BY <2>1, <1>6, <1>7
      <3>2. request[q].worker \in Requests
        BY <2>1, <3>1 DEF IInv, IMessageInv, RequestInv
      <3> QED BY <2>1, <3>1, <3>2, <1>8 DEF FragmentInv, ThreadInv
    <2>2. ASSUME NEW u \in Requests
          PROVE  /\ \A k \in DOMAIN worker'[u].queue :
                      ThreadOf[worker'[u].queue[k]] = ThreadOf[u[1]]
                 /\ \A k \in DOMAIN worker'[u].parts :
                      ThreadOf[worker'[u].parts[k]] = ThreadOf[u[1]]
                 /\ worker'[u].pc = "none" => worker'[u].queue = <<>>
                 /\ worker'[u].pc \notin {"gathering", "sending"}
                      => worker'[u].parts = <<>>
      <3>1. CASE u = w
        <4>1. ASSUME NEW k \in DOMAIN worker'[w].queue
              PROVE  ThreadOf[worker'[w].queue[k]] = ThreadOf[w[1]]
          <5>1. k \in 1 .. n \/ k = n + 1 BY <4>1, <1>3, <1>5, <1>8
          <5>2. CASE k = n + 1 BY <5>2, <1>3, <1>4, <1>5, <1>8
          <5>3. CASE k \in 1 .. n
            BY <5>3, <1>3, <1>5, <1>8 DEF FragmentInv, ThreadInv
          <5> QED BY <5>1, <5>2, <5>3
        <4> QED BY <3>1, <4>1, <1>3, <1>4, <1>8 DEF FragmentInv, ThreadInv
      <3>2. CASE u # w BY <3>2, <1>8 DEF FragmentInv, ThreadInv
      <3> QED BY <3>1, <3>2
    <2> QED BY <2>1, <2>2 DEF ThreadInv
  <1>14. ASSUME NEW f, NEW s, NEW i, NEW k, Held(f, s, i, k)'
         PROVE  \/ /\ Held(f, s, i, k)
                   /\ worker[w].pc = "gathering" /\ s = 4 /\ ThreadOf[f] = ThreadOf[new]
                        => k <= n
                \/ f = new /\ s = 4 /\ i = 0 /\ k = n + 1 /\ worker[w].pc = "gathering"
    <2>1. CASE s = 1 /\ i = 0 /\ Went(f, k)'
      <3>1. Went(f, k) BY <2>1, <1>1 DEF Went
      <3> QED BY <2>1, <3>1 DEF Held
    <2>2. CASE s = 2 /\ OnBus(f, i, k)'
      <3>1. OnBus(f, i, k) BY <2>2, <1>1 DEF OnBus
      <3> QED BY <2>2, <3>1 DEF Held
    <2>3. CASE s = 3 /\ i = 0 /\ \E u \in Requests : PartOf(u, f, k)'
      <3>1. \E u \in Requests : PartOf(u, f, k) BY <2>3, <1>8 DEF PartOf
      <3> QED BY <2>3, <3>1 DEF Held
    <2>4. CASE s = 4 /\ i = 0 /\ \E u \in Requests : QueuedFor(u, f, k)'
      <3>1. PICK u \in Requests : QueuedFor(u, f, k)' BY <2>4
      <3>2. CASE u = w
        <4>1. k \in 1 .. n \/ k = n + 1 BY <3>1, <3>2, <1>3, <1>5, <1>8 DEF QueuedFor
        <4>2. CASE k = n + 1
          <5>1. f = new /\ worker[w].pc = "gathering"
            BY <3>1, <3>2, <4>2, <1>3, <1>5, <1>8 DEF QueuedFor
          <5> QED BY <5>1, <4>2, <2>4
        <4>3. CASE k \in 1 .. n
          <5>1. QueuedFor(u, f, k) BY <3>1, <3>2, <4>3, <1>3, <1>5, <1>8 DEF QueuedFor
          <5>2. Held(f, s, i, k) BY <5>1, <2>4 DEF Held
          <5> QED BY <5>2, <4>3, <1>5
        <4> QED BY <4>1, <4>2, <4>3
      <3>3. CASE u # w
        <4>1. QueuedFor(u, f, k) BY <3>1, <3>3, <1>8 DEF QueuedFor
        <4>2. Held(f, s, i, k) BY <4>1, <2>4 DEF Held
        <4>3. ThreadOf[f] = ThreadOf[u[1]] BY <4>1 DEF QueuedFor, FragmentInv, ThreadInv
        <4>4. worker[u].pc \in Live BY <4>1 DEF QueuedFor, Live
        <4>5. ASSUME worker[w].pc = "gathering", ThreadOf[f] = ThreadOf[new] PROVE FALSE
          BY <4>3, <4>4, <4>5, <1>3, <1>4, <3>3, OneAtWork DEF Live
        <4> QED BY <4>2, <4>5
      <3> QED BY <3>2, <3>3
    <2> QED BY <1>14, <2>1, <2>2, <2>3, <2>4 DEF Held
  <1>15. HeldInv'
    <2> SUFFICES ASSUME NEW f, NEW s, NEW i, NEW k, Held(f, s, i, k)'
                 PROVE  f \in Range(accepted')
      BY DEF HeldInv
    <2>1. Held(f, s, i, k) \/ f = new BY <1>14
    <2> QED BY <2>1, <1>10 DEF FragmentInv, HeldInv
  <1>16. OrderInv'
    <2> SUFFICES ASSUME NEW f \in Named, NEW g \in Named, ThreadOf[f] = ThreadOf[g],
                        NEW s, NEW i, NEW k, NEW t, NEW j, NEW l,
                        Held(f, s, i, k)', Held(g, t, j, l)'
                 PROVE  /\ Precedes(f, g, accepted') => Before(s, i, k, t, j, l)
                        /\ f = g => s = t /\ i = j /\ k = l
      BY DEF OrderInv, Before
    <2>1. ASSUME f # new, Precedes(f, g, accepted'), g # new PROVE Precedes(f, g, accepted)
      BY <1>9, <2>1 DEF Precedes
    <2>2. ASSUME f = new PROVE ~Precedes(f, g, accepted')
      <3> SUFFICES ASSUME NEW a \in DOMAIN accepted', NEW b \in DOMAIN accepted',
                          a < b, accepted'[a] = new
                   PROVE  FALSE
        BY <2>2 DEF Precedes
      <3>1. a \in DOMAIN accepted BY <1>9
      <3>2. accepted[a] = new BY <3>1, <1>9
      <3>3. new \in Range(accepted) BY <3>1, <3>2 DEF Range
      <3> QED BY <3>3, <2>2, <1>11
    <2>3. (~Held(new, s, i, k) /\ ~Held(new, t, j, l)) \/ new \notin Named
      BY <1>11 DEF FragmentInv, HeldInv
    <2>4. CASE f = new
      <3>1. s = 4 /\ i = 0 /\ k = n + 1 BY <1>14, <2>3, <2>4
      <3>2. g = new => t = 4 /\ j = 0 /\ l = n + 1 BY <1>14, <2>3, <2>4
      <3> QED BY <2>2, <2>4, <3>1, <3>2
    <2>5. CASE f # new /\ g = new
      <3>1. t = 4 /\ j = 0 /\ l = n + 1 /\ worker[w].pc = "gathering"
        BY <1>14, <2>3, <2>5
      <3>2. Held(f, s, i, k) /\ (s = 4 => k <= n) BY <1>14, <2>5, <3>1
      <3>3. s \in 1 .. 4 /\ i \in Nat /\ k \in Nat BY <3>2, PlacesAreNumbers
      <3>4. s = 4 => i = 0 BY <3>2 DEF Held
      <3>5. Before(s, i, k, t, j, l) BY <3>1, <3>2, <3>3, <3>4, <1>5 DEF Before
      <3> QED BY <2>5, <3>5
    <2>6. CASE f # new /\ g # new
      <3>1. Held(f, s, i, k) /\ Held(g, t, j, l) BY <1>14, <2>6
      <3> QED BY <2>1, <2>6, <3>1 DEF FragmentInv, OrderInv
    <2> QED BY <2>4, <2>5, <2>6
  <1> QED BY <1>12, <1>13, <1>15, <1>16 DEF FragmentInv

\* Handlers answer at most; workers go on, with what they have or without the parts.
RequestsAsBefore ==
    \A q \in Requests : request'[q] = request[q] \/ request'[q].pc = "answered"

WorkersAsBefore ==
    \A u \in Requests :
        /\ worker'[u].queue = worker[u].queue
        /\ \/ worker'[u].parts = worker[u].parts /\ worker'[u].pc = worker[u].pc
           \/ /\ worker[u].pc = "gathering" /\ worker'[u].pc = "sending"
              /\ worker'[u].parts = worker[u].parts
           \/ worker'[u].pc = "leaving" /\ worker'[u].parts = <<>>
           \/ /\ worker[u].pc = "leaving" /\ worker'[u].pc = "gone"
              /\ worker'[u].parts = worker[u].parts

\* The steps of handlers and workers that leave the fragments where they are, or
\* drop them: a worker that goes on to send, stops, or leaves; a handler that stops.
LEMMA DropOrder ==
  ASSUME IInv, FragmentInv, UNCHANGED <<inbound, processed, accepted, seenIDs>>,
         RequestsAsBefore, WorkersAsBefore
  PROVE  FragmentInv'
  <1>1. DedupInv' BY DEF FragmentInv, DedupInv, RequestsAsBefore
  <1>2. ThreadInv'
    <2>1. ASSUME NEW q \in Requests, request'[q].pc = "putting"
          PROVE  /\ ThreadOf[request'[q].worker[1]] = ThreadOf[q[1]]
                 /\ worker'[request'[q].worker].pc # "none"
      <3>1. request'[q] = request[q] BY <2>1 DEF RequestsAsBefore
      <3>2. request[q].worker \in Requests
        BY <2>1, <3>1 DEF IInv, IMessageInv, RequestInv
      <3> QED BY <2>1, <3>1, <3>2 DEF FragmentInv, ThreadInv, WorkersAsBefore
    <2>2. ASSUME NEW u \in Requests
          PROVE  /\ \A k \in DOMAIN worker'[u].queue :
                      ThreadOf[worker'[u].queue[k]] = ThreadOf[u[1]]
                 /\ \A k \in DOMAIN worker'[u].parts :
                      ThreadOf[worker'[u].parts[k]] = ThreadOf[u[1]]
                 /\ worker'[u].pc = "none" => worker'[u].queue = <<>>
                 /\ worker'[u].pc \notin {"gathering", "sending"}
                      => worker'[u].parts = <<>>
      <3>1. DOMAIN <<>> = {} OBVIOUS
      <3> QED BY <3>1 DEF FragmentInv, ThreadInv, WorkersAsBefore
    <2> QED BY <2>1, <2>2 DEF ThreadInv
  <1>3. \A f, s, i, k : Held(f, s, i, k)' => Held(f, s, i, k)
    <2>1. UNCHANGED <<inbound, processed>> OBVIOUS
    <2>2. \A u \in Requests :
            /\ worker'[u].pc \in {"gathering", "sending"}
                 => \/ worker'[u].parts = <<>>
                    \/ /\ worker[u].pc \in {"gathering", "sending"}
                       /\ worker'[u].parts = worker[u].parts
            /\ worker'[u].pc = "gathering"
                 => \/ worker'[u].queue = <<>>
                    \/ worker[u].pc = "gathering" /\ worker'[u].queue = worker[u].queue
      BY DEF WorkersAsBefore
    <2> QED BY <2>1, <2>2, SamePlaces
  <1>4. HeldInv' /\ OrderInv' BY <1>3, NothingMoves DEF FragmentInv
  <1> QED BY <1>1, <1>2, <1>4 DEF FragmentInv

\* debounceWorker takes a fragment from its channel: behind the parts it has, before
\* those that are left.
LEMMA GatherOrder ==
  ASSUME IInv, FragmentInv, NEW w \in Requests, Gather(w), UNCHANGED processed
  PROVE  FragmentInv'
  <1> DEFINE v == Gathered(w)
             q == worker[w].queue
             n == Len(worker[w].parts)
             T == ThreadOf[w[1]]
  <1>1. /\ worker[w].pc = "gathering" /\ q # <<>>
        /\ worker' = [worker EXCEPT ![w] = v]
        /\ UNCHANGED <<inbound, seenIDs, request, accepted>>
    BY DEF Gather, busVars
  <1>2. /\ worker \in [Requests -> [pc : WorkerPC, queue : Seq(Fragments),
                                    parts : Seq(Fragments), timer : BOOLEAN]]
    BY DEF IInv, TypeOK, HandlersOK
  <1>3. /\ v.pc = "gathering" /\ v.queue = Tail(q)
        /\ v.parts = Append(worker[w].parts, Head(q))
    BY <1>1, <1>2 DEF Gathered
  <1>4. /\ q \in Seq(Fragments) /\ Len(q) \in Nat \ {0} /\ DOMAIN q = 1 .. Len(q)
        /\ DOMAIN Tail(q) = 1 .. (Len(q) - 1)
        /\ \A k \in 1 .. (Len(q) - 1) : Tail(q)[k] = q[k + 1]
        /\ Head(q) = q[1] /\ 1 \in DOMAIN q /\ Head(q) \in Fragments
    BY <1>1, Shapes, HeadTailProperties, EmptySeq
  <1>5. /\ n \in Nat /\ DOMAIN worker[w].parts = 1 .. n
        /\ DOMAIN v.parts = 1 .. (n + 1)
        /\ \A k \in 1 .. n : v.parts[k] = worker[w].parts[k]
        /\ v.parts[n + 1] = Head(q)
    BY <1>3, <1>4, Shapes, AppendProperties
  <1>6. \A u \in Requests : worker'[u] = IF u = w THEN v ELSE worker[u] BY <1>1, <1>2
  <1>7. ThreadOf[Head(q)] = T BY <1>4 DEF FragmentInv, ThreadInv
  <1>h. \A k : QueuedFor(w, q[k], k) <=> k \in DOMAIN q BY <1>1 DEF QueuedFor
  <1> HIDE DEF v, q, n, T
  <1>8. DedupInv' BY <1>1 DEF FragmentInv, DedupInv
  <1>9. ThreadInv'
    <2>1. ASSUME NEW p \in Requests, request'[p].pc = "putting"
          PROVE  /\ ThreadOf[request'[p].worker[1]] = ThreadOf[p[1]]
                 /\ worker'[request'[p].worker].pc # "none"
      <3>1. request'[p] = request[p] BY <1>1
      <3>2. request[p].worker \in Requests
        BY <2>1, <3>1 DEF IInv, IMessageInv, RequestInv
      <3> QED BY <2>1, <3>1, <3>2, <1>3, <1>6 DEF FragmentInv, ThreadInv
    <2>2. ASSUME NEW u \in Requests
          PROVE  /\ \A k \in DOMAIN worker'[u].queue :
                      ThreadOf[worker'[u].queue[k]] = ThreadOf[u[1]]
                 /\ \A k \in DOMAIN worker'[u].parts :
                      ThreadOf[worker'[u].parts[k]] = ThreadOf[u[1]]
                 /\ worker'[u].pc = "none" => worker'[u].queue = <<>>
                 /\ worker'[u].pc \notin {"gathering", "sending"}
                      => worker'[u].parts = <<>>
      <3>1. CASE u = w
        <4>1. \A k \in DOMAIN q : ThreadOf[q[k]] = T
          BY DEF q, T, FragmentInv, ThreadInv
        <4>2. \A k \in DOMAIN Tail(q) : ThreadOf[Tail(q)[k]] = T BY <4>1, <1>4
        <4>3. \A k \in 1 .. n : ThreadOf[worker[w].parts[k]] = T
          BY <1>5 DEF T, FragmentInv, ThreadInv
        <4>4. \A k \in DOMAIN v.parts : ThreadOf[v.parts[k]] = T
          BY <4>3, <1>5, <1>7
        <4> QED BY <3>1, <4>2, <4>4, <1>3, <1>6 DEF T
      <3>2. CASE u # w BY <3>2, <1>6 DEF FragmentInv, ThreadInv
      <3> QED BY <3>1, <3>2
    <2> QED BY <2>1, <2>2 DEF ThreadInv
  <1>10. ASSUME NEW f, NEW s, NEW i, NEW k, Held(f, s, i, k)'
         PROVE  \/ /\ Held(f, s, i, k)
                   /\ s = 3 /\ ThreadOf[f] = T => k <= n
                   /\ s # 4 \/ ThreadOf[f] # T
                \/ ThreadOf[f] = T /\ s = 3 /\ i = 0 /\ k = n + 1 /\ Held(f, 4, 0, 1)
                \/ ThreadOf[f] = T /\ s = 4 /\ i = 0 /\ k \in Nat \ {0} /\ Held(f, 4, 0, k + 1)
    <2>0. ASSUME NEW u \in Requests, u # w, worker[u].pc \in Live, ThreadOf[u[1]] = T
          PROVE  FALSE
      <3>1. worker[w].pc \in Live BY <1>1 DEF Live
      <3> QED BY <2>0, <3>1, OneAtWork DEF T
    <2>1. CASE s = 1 /\ i = 0 /\ Went(f, k)'
      <3>1. Went(f, k) BY <2>1, <1>1 DEF Went
      <3> QED BY <2>1, <3>1 DEF Held
    <2>2. CASE s = 2 /\ OnBus(f, i, k)'
      <3>1. OnBus(f, i, k) BY <2>2, <1>1 DEF OnBus
      <3> QED BY <2>2, <3>1 DEF Held
    <2>3. CASE s = 3 /\ i = 0 /\ \E u \in Requests : PartOf(u, f, k)'
      <3>1. PICK u \in Requests : PartOf(u, f, k)' BY <2>3
      <3>2. CASE u = w
        <4>1. k \in 1 .. (n + 1) /\ v.parts[k] = f BY <3>1, <3>2, <1>5, <1>6 DEF PartOf
        <4>2. CASE k = n + 1
          <5>1. f = Head(q) /\ QueuedFor(w, f, 1) BY <4>1, <4>2, <1>4, <1>5, <1>h
          <5>2. Held(f, 4, 0, 1) BY <5>1 DEF Held
          <5> QED BY <5>1, <5>2, <4>2, <2>3, <1>7
        <4>3. CASE k \in 1 .. n
          <5>1. PartOf(w, f, k) BY <4>1, <4>3, <1>1, <1>5 DEF PartOf
          <5>2. Held(f, s, i, k) BY <5>1, <2>3 DEF Held
          <5> QED BY <5>2, <4>3, <2>3, <1>5
        <4> QED BY <4>1, <4>2, <4>3, <1>5
      <3>3. CASE u # w
        <4>1. PartOf(u, f, k) BY <3>1, <3>3, <1>6 DEF PartOf
        <4>2. Held(f, s, i, k) BY <4>1, <2>3 DEF Held
        <4>3. ThreadOf[f] = ThreadOf[u[1]] BY <4>1 DEF PartOf, FragmentInv, ThreadInv
        <4>4. worker[u].pc \in Live BY <4>1 DEF PartOf, Live
        <4> QED BY <4>2, <4>3, <4>4, <3>3, <2>0, <2>3
      <3> QED BY <3>2, <3>3
    <2>4. CASE s = 4 /\ i = 0 /\ \E u \in Requests : QueuedFor(u, f, k)'
      <3>1. PICK u \in Requests : QueuedFor(u, f, k)' BY <2>4
      <3>2. CASE u = w
        <4>1. k \in 1 .. (Len(q) - 1) /\ Tail(q)[k] = f
          BY <3>1, <3>2, <1>3, <1>4, <1>6 DEF QueuedFor
        <4>2. k \in Nat \ {0} /\ k + 1 \in DOMAIN q /\ f = q[k + 1] BY <4>1, <1>4
        <4>3. QueuedFor(w, f, k + 1) BY <4>2, <1>h
        <4>4. Held(f, 4, 0, k + 1) BY <4>3 DEF Held
        <4>5. ThreadOf[f] = T BY <4>3 DEF QueuedFor, FragmentInv, ThreadInv, T
        <4> QED BY <4>2, <4>4, <4>5, <2>4
      <3>3. CASE u # w
        <4>1. QueuedFor(u, f, k) BY <3>1, <3>3, <1>6 DEF QueuedFor
        <4>2. Held(f, s, i, k) BY <4>1, <2>4 DEF Held
        <4>3. ThreadOf[f] = ThreadOf[u[1]] BY <4>1 DEF QueuedFor, FragmentInv, ThreadInv
        <4>4. worker[u].pc \in Live BY <4>1 DEF QueuedFor, Live
        <4> QED BY <4>2, <4>3, <4>4, <3>3, <2>0, <2>4
      <3> QED BY <3>2, <3>3
    <2> QED BY <1>10, <2>1, <2>2, <2>3, <2>4 DEF Held
  <1>11. HeldInv' BY <1>1, <1>10 DEF FragmentInv, HeldInv
  <1>12. OrderInv'
    <2> SUFFICES ASSUME NEW f \in Named, NEW g \in Named, ThreadOf[f] = ThreadOf[g],
                        NEW s, NEW i, NEW k, NEW t, NEW j, NEW l,
                        Held(f, s, i, k)', Held(g, t, j, l)'
                 PROVE  /\ Precedes(f, g, accepted) => Before(s, i, k, t, j, l)
                        /\ f = g => s = t /\ i = j /\ k = l
      BY <1>1 DEF OrderInv, Before
    <2>o. \A a, b, c, x, y, z : Held(f, a, b, c) /\ Held(g, x, y, z) =>
             /\ Precedes(f, g, accepted) => Before(a, b, c, x, y, z)
             /\ f = g => a = x /\ b = y /\ c = z
      BY DEF FragmentInv, OrderInv
    <2>n. \A a, b, c : Held(f, a, b, c) \/ Held(g, a, b, c) =>
             a \in 1 .. 4 /\ b \in Nat /\ c \in Nat /\ (a \in {3, 4} => b = 0)
      <3>1. \A h, a, b, c : Held(h, a, b, c) => a \in 1 .. 4 /\ b \in Nat /\ c \in Nat
        BY PlacesAreNumbers
      <3>2. \A h, a, b, c : Held(h, a, b, c) => (a \in {3, 4} => b = 0)
        BY DEF Held
      <3> QED BY <3>1, <3>2
    <2>1. CASE ThreadOf[f] # T
      BY <2>1, <2>o, <1>10
    <2>2. CASE ThreadOf[f] = T
      <3> DEFINE Kept(h, a, b, c) == Held(h, a, b, c) /\ a # 4 /\ (a = 3 => c <= n)
                 Moved(h, a, b, c) == a = 3 /\ b = 0 /\ c = n + 1 /\ Held(h, 4, 0, 1)
                 Shifted(h, a, b, c) == a = 4 /\ b = 0 /\ c \in Nat \ {0} /\ Held(h, 4, 0, c + 1)
      <3>1. Kept(f, s, i, k) \/ Moved(f, s, i, k) \/ Shifted(f, s, i, k)
        BY <1>10, <2>2
      <3>0. ThreadOf[g] = T BY <2>2
      <3>2. Kept(g, t, j, l) \/ Moved(g, t, j, l) \/ Shifted(g, t, j, l)
        BY <1>10, <3>0
      <3>3. CASE Kept(f, s, i, k)
        BY <3>2, <3>3, <2>o, <2>n, <1>5 DEF Before
      <3>4. CASE Moved(f, s, i, k)
        BY <3>2, <3>4, <2>o, <2>n, <1>5 DEF Before
      <3>5. CASE Shifted(f, s, i, k)
        BY <3>2, <3>5, <2>o, <2>n, <1>5 DEF Before
      <3> QED BY <3>1, <3>3, <3>4, <3>5
    <2> QED BY <2>1, <2>2
  <1> QED BY <1>8, <1>9, <1>11, <1>12 DEF FragmentInv

\* debounceWorker sends its parts as one message: behind all the thread has on the
\* bus.  What is left in its channel will not be gathered.
LEMMA SendOrder ==
  ASSUME IInv, FragmentInv, NEW w \in Requests, SendParts(w), UNCHANGED processed
  PROVE  FragmentInv'
  <1> DEFINE T == ThreadOf[w[1]]
             m == Len(inbound)
             parts == worker[w].parts
             msg == [channel |-> "imessage", body |-> parts]
             longer == Append(inbound, msg)
  <1>1. /\ worker[w].pc = "sending"
        /\ inbound' = longer
        /\ worker' = [worker EXCEPT ![w].pc = "leaving", ![w].parts = <<>>, ![w].timer = FALSE]
        /\ UNCHANGED <<seenIDs, request, accepted>>
    BY DEF SendParts, Push, Discharged
  <1>2. worker \in [Requests -> [pc : WorkerPC, queue : Seq(Fragments),
                                 parts : Seq(Fragments), timer : BOOLEAN]]
    BY DEF IInv, TypeOK, HandlersOK
  <1>3. \A u \in Requests :
          /\ worker'[u].queue = worker[u].queue
          /\ worker'[u].parts = IF u = w THEN <<>> ELSE worker[u].parts
          /\ worker'[u].pc = IF u = w THEN "leaving" ELSE worker[u].pc
    BY <1>1, <1>2
  <1>4. /\ m \in Nat /\ DOMAIN inbound = 1 .. m /\ DOMAIN longer = 1 .. (m + 1)
        /\ \A i \in 1 .. m : longer[i] = inbound[i]
        /\ longer[m + 1] = msg
    <2>1. inbound \in Seq(Message) BY Shapes
    <2>2. \A S, q, e : q \in Seq(S) =>
            /\ Len(q) \in Nat /\ DOMAIN q = 1 .. Len(q)
            /\ DOMAIN Append(q, e) = 1 .. (Len(q) + 1)
            /\ \A k \in 1 .. Len(q) : Append(q, e)[k] = q[k]
            /\ Append(q, e)[Len(q) + 1] = e
      OBVIOUS
    <2> HIDE DEF msg
    <2> QED BY <2>1, <2>2
  <1>5. msg.channel = "imessage" /\ msg.body = parts OBVIOUS
  <1> HIDE DEF T, m, parts, msg, longer
  <1>6. DedupInv' BY <1>1 DEF FragmentInv, DedupInv
  <1>7. ThreadInv'
    <2>1. ASSUME NEW p \in Requests, request'[p].pc = "putting"
          PROVE  /\ ThreadOf[request'[p].worker[1]] = ThreadOf[p[1]]
                 /\ worker'[request'[p].worker].pc # "none"
      <3>1. request'[p] = request[p] BY <1>1
      <3>2. request[p].worker \in Requests
        BY <2>1, <3>1 DEF IInv, IMessageInv, RequestInv
      <3> QED BY <2>1, <3>1, <3>2, <1>3 DEF FragmentInv, ThreadInv
    <2>2. DOMAIN <<>> = {} OBVIOUS
    <2>3. \A u \in Requests :
            /\ \A k \in DOMAIN worker'[u].queue :
                 ThreadOf[worker'[u].queue[k]] = ThreadOf[u[1]]
            /\ \A k \in DOMAIN worker'[u].parts :
                 ThreadOf[worker'[u].parts[k]] = ThreadOf[u[1]]
            /\ worker'[u].pc = "none" => worker'[u].queue = <<>>
            /\ worker'[u].pc \notin {"gathering", "sending"} => worker'[u].parts = <<>>
      BY <1>3, <2>2 DEF FragmentInv, ThreadInv
    <2> QED BY <2>1, <2>3 DEF ThreadInv
  <1>8. ASSUME NEW f, NEW s, NEW i, NEW k, Held(f, s, i, k)'
        PROVE  \/ /\ Held(f, s, i, k)
                  /\ s = 2 => i <= m
                  /\ s \in {1, 2} \/ ThreadOf[f] # T
               \/ s = 2 /\ i = m + 1 /\ ThreadOf[f] = T /\ Held(f, 3, 0, k)
    <2>0. ASSUME NEW u \in Requests, u # w, worker[u].pc \in Live, ThreadOf[u[1]] = T
          PROVE  FALSE
      <3>1. worker[w].pc \in Live BY <1>1 DEF Live
      <3> QED BY <2>0, <3>1, OneAtWork DEF T
    <2>1. CASE s = 1 /\ i = 0 /\ Went(f, k)'
      <3>1. Went(f, k) BY <2>1 DEF Went
      <3> QED BY <2>1, <3>1 DEF Held
    <2>2. CASE s = 2 /\ OnBus(f, i, k)'
      <3>1. i \in 1 .. m \/ i = m + 1 BY <2>2, <1>1, <1>4 DEF OnBus
      <3>2. CASE i \in 1 .. m
        <4>1. OnBus(f, i, k) BY <2>2, <3>2, <1>1, <1>4 DEF OnBus
        <4>2. Held(f, s, i, k) BY <2>2, <4>1 DEF Held
        <4> QED BY <2>2, <3>2, <4>2, <1>4
      <3>3. CASE i = m + 1
        <4>1. k \in DOMAIN parts /\ parts[k] = f BY <2>2, <3>3, <1>1, <1>4, <1>5 DEF OnBus
        <4>2. PartOf(w, f, k) BY <4>1, <1>1 DEF PartOf, parts
        <4>3. Held(f, 3, 0, k) BY <4>2 DEF Held
        <4>4. ThreadOf[f] = T BY <4>2 DEF PartOf, FragmentInv, ThreadInv, T
        <4> QED BY <2>2, <3>3, <4>3, <4>4
      <3> QED BY <3>1, <3>2, <3>3
    <2>3. CASE s = 3 /\ i = 0 /\ \E u \in Requests : PartOf(u, f, k)'
      <3>1. PICK u \in Requests : PartOf(u, f, k)' BY <2>3
      <3>2. u # w BY <3>1, <1>3 DEF PartOf
      <3>3. PartOf(u, f, k) BY <3>1, <3>2, <1>3 DEF PartOf
      <3>4. Held(f, s, i, k) BY <2>3, <3>3 DEF Held
      <3>5. ThreadOf[f] = ThreadOf[u[1]] BY <3>3 DEF PartOf, FragmentInv, ThreadInv
      <3>6. worker[u].pc \in Live BY <3>3 DEF PartOf, Live
      <3> QED BY <2>0, <2>3, <3>2, <3>4, <3>5, <3>6
    <2>4. CASE s = 4 /\ i = 0 /\ \E u \in Requests : QueuedFor(u, f, k)'
      <3>1. PICK u \in Requests : QueuedFor(u, f, k)' BY <2>4
      <3>2. u # w BY <3>1, <1>3 DEF QueuedFor
      <3>3. QueuedFor(u, f, k) BY <3>1, <3>2, <1>3 DEF QueuedFor
      <3>4. Held(f, s, i, k) BY <2>4, <3>3 DEF Held
      <3>5. ThreadOf[f] = ThreadOf[u[1]] BY <3>3 DEF QueuedFor, FragmentInv, ThreadInv
      <3>6. worker[u].pc \in Live BY <3>3 DEF QueuedFor, Live
      <3> QED BY <2>0, <2>4, <3>2, <3>4, <3>5, <3>6
    <2> QED BY <1>8, <2>1, <2>2, <2>3, <2>4 DEF Held
  <1>9. HeldInv' BY <1>1, <1>8 DEF FragmentInv, HeldInv
  <1>10. OrderInv'
    <2> SUFFICES ASSUME NEW f \in Named, NEW g \in Named, ThreadOf[f] = ThreadOf[g],
                        NEW s, NEW i, NEW k, NEW t, NEW j, NEW l,
                        Held(f, s, i, k)', Held(g, t, j, l)'
                 PROVE  /\ Precedes(f, g, accepted) => Before(s, i, k, t, j, l)
                        /\ f = g => s = t /\ i = j /\ k = l
      BY <1>1 DEF OrderInv, Before
    <2>o. \A a, b, c, x, y, z : Held(f, a, b, c) /\ Held(g, x, y, z) =>
             /\ Precedes(f, g, accepted) => Before(a, b, c, x, y, z)
             /\ f = g => a = x /\ b = y /\ c = z
      BY DEF FragmentInv, OrderInv
    <2>n. \A h, a, b, c : Held(h, a, b, c) => a \in 1 .. 4 /\ b \in Nat /\ c \in Nat
      BY PlacesAreNumbers
    <2>1. CASE ThreadOf[f] # T
      BY <2>1, <2>o, <1>8
    <2>2. CASE ThreadOf[f] = T
      <3> DEFINE Kept(h, a, b, c) ==
                   Held(h, a, b, c) /\ a \in {1, 2} /\ (a = 2 => b <= m)
                 Sent(h, a, b, c) == a = 2 /\ b = m + 1 /\ Held(h, 3, 0, c)
      <3>1. Kept(f, s, i, k) \/ Sent(f, s, i, k) BY <1>8, <2>2
      <3>2. ThreadOf[g] = T BY <2>2
      <3>3. Kept(g, t, j, l) \/ Sent(g, t, j, l) BY <1>8, <3>2
      <3>4. CASE Kept(f, s, i, k) BY <3>3, <3>4, <2>o, <2>n, <1>4 DEF Before
      <3>5. CASE Sent(f, s, i, k) BY <3>3, <3>5, <2>o, <2>n, <1>4 DEF Before
      <3> QED BY <3>1, <3>4, <3>5
    <2> QED BY <2>1, <2>2
  <1> QED BY <1>6, <1>7, <1>9, <1>10 DEF FragmentInv

\* A concatenation, element by element.
LEMMA Concatenated ==
  ASSUME NEW S, NEW q \in Seq(S), NEW r \in Seq(S)
  PROVE  /\ DOMAIN q = 1 .. Len(q) /\ DOMAIN r = 1 .. Len(r)
         /\ Len(q) \in Nat /\ Len(r) \in Nat
         /\ DOMAIN (q \o r) = 1 .. (Len(q) + Len(r))
         /\ \A x \in 1 .. Len(q) : (q \o r)[x] = q[x]
         /\ \A x \in 1 .. (Len(q) + Len(r)) : x > Len(q) => (q \o r)[x] = r[x - Len(q)]
  OBVIOUS

\* Dispatcher.Run takes the first message: all move up.
LEMMA TakeOrder ==
  ASSUME IInv, FragmentInv, Take
  PROVE  FragmentInv'
  <1> DEFINE b == Head(inbound)
             m == Len(inbound)
             went == processed["imessage"]
             n == Len(went)
             shorter == Tail(inbound)
  <1>1. /\ inbound # <<>> /\ inbound' = shorter
        /\ processed' = [processed EXCEPT ![b.channel] = @ \o b.body]
        /\ UNCHANGED <<seenIDs, request, worker, accepted>>
    BY DEF Take, imessageVars
  <1>2. /\ m \in Nat \ {0} /\ DOMAIN inbound = 1 .. m /\ b = inbound[1]
        /\ DOMAIN shorter = 1 .. (m - 1)
        /\ \A i \in 1 .. (m - 1) : shorter[i] = inbound[i + 1]
        /\ b \in Message
    <2>1. inbound \in Seq(Message) BY Shapes
    <2>2. \A S, q : q \in Seq(S) /\ q # <<>> =>
            /\ Len(q) \in Nat \ {0} /\ DOMAIN q = 1 .. Len(q) /\ Head(q) = q[1]
            /\ DOMAIN Tail(q) = 1 .. (Len(q) - 1)
            /\ \A k \in 1 .. (Len(q) - 1) : Tail(q)[k] = q[k + 1]
            /\ Head(q) \in S
      OBVIOUS
    <2> QED BY <2>1, <2>2, <1>1
  <1>3. b.channel \in Listeners /\ b.body \in Seq(Items) BY <1>2 DEF Message
  <1>4. /\ processed \in [Listeners -> Seq(Items)]
        /\ "imessage" \in Listeners => went \in Seq(Items) /\ n \in Nat
    <2>1. processed \in [Listeners -> Seq(Items)] BY DEF IInv, TypeOK
    <2>2. \A S, q : q \in Seq(S) => Len(q) \in Nat OBVIOUS
    <2> QED BY <2>1, <2>2
  <1>6. \A f, k : Went(f, k)' =>
          \/ k \in 1 .. n /\ Went(f, k)
          \/ /\ k \in Nat /\ k > n /\ b.channel = "imessage"
             /\ k - n \in DOMAIN b.body /\ b.body[k - n] = f
    <2> SUFFICES ASSUME NEW f, NEW k, Went(f, k)'
                 PROVE  \/ k \in 1 .. n /\ Went(f, k)
                        \/ /\ k \in Nat /\ k > n /\ b.channel = "imessage"
                           /\ k - n \in DOMAIN b.body /\ b.body[k - n] = f
      OBVIOUS
    <2>1. "imessage" \in Listeners /\ went \in Seq(Items) /\ n \in Nat
      BY <1>4 DEF Went
    <2>2. CASE b.channel # "imessage"
      <3>1. processed'["imessage"] = went BY <2>1, <2>2, <1>1, <1>4
      <3>2. Went(f, k) BY <3>1 DEF Went
      <3>3. k \in 1 .. n BY <3>2, <2>1 DEF Went
      <3> QED BY <3>2, <3>3
    <2>3. CASE b.channel = "imessage"
      <3>1. processed'["imessage"] = went \o b.body BY <2>1, <2>3, <1>1, <1>4
      <3> DEFINE both == went \o b.body
                 o == Len(b.body)
      <3>3. /\ DOMAIN went = 1 .. n /\ DOMAIN b.body = 1 .. o /\ n \in Nat /\ o \in Nat
            /\ DOMAIN both = 1 .. (n + o)
            /\ \A x \in 1 .. n : both[x] = went[x]
            /\ \A x \in 1 .. (n + o) : x > n => both[x] = b.body[x - n]
        <4> HIDE DEF went, b
        <4> QED BY <2>1, <1>3, Concatenated
      <3>4. processed'["imessage"] = both BY <3>1
      <3> HIDE DEF both, o, n, went
      <3>5. k \in 1 .. (n + o) /\ both[k] = f BY <3>3, <3>4 DEF Went
      <3>6. CASE k <= n
        <4>1. k \in DOMAIN went /\ went[k] = f BY <3>3, <3>5, <3>6
        <4> QED BY <4>1, <3>3, <2>1 DEF Went, went
      <3>7. CASE k > n
        <4>1. k - n \in 1 .. o /\ b.body[k - n] = f BY <3>3, <3>5, <3>7
        <4> QED BY <4>1, <3>3, <3>5, <3>7, <2>3
      <3> QED BY <3>3, <3>5, <3>6, <3>7
    <2> QED BY <2>2, <2>3
  <1>7. \A f, k : b.channel = "imessage" /\ k \in DOMAIN b.body /\ b.body[k] = f => OnBus(f, 1, k)
    BY <1>2 DEF OnBus
  <1>8. \A f, i, k : OnBus(f, i, k)' => i \in Nat \ {0} /\ OnBus(f, i + 1, k)
    BY <1>1, <1>2 DEF OnBus
  <1>9. \A f, k : Went(f, k) => n \in Nat BY <1>4 DEF Went
  <1>10. b.channel = "imessage" => n \in Nat BY <1>3, <1>4
  <1> HIDE DEF b, m, went, n, shorter
  <1>11. ASSUME NEW f, NEW s, NEW i, NEW k, Held(f, s, i, k)'
         PROVE  \/ s \in {3, 4} /\ Held(f, s, i, k)
                \/ s = 2 /\ i \in Nat \ {0} /\ Held(f, 2, i + 1, k)
                \/ s = 1 /\ i = 0 /\ n \in Nat /\ k \in 1 .. n /\ Held(f, 1, 0, k)
                \/ /\ s = 1 /\ i = 0 /\ n \in Nat /\ k \in Nat /\ k > n
                   /\ Held(f, 2, 1, k - n)
    <2>1. CASE s = 1 /\ i = 0 /\ Went(f, k)'
      <3>1. CASE k \in 1 .. n /\ Went(f, k) BY <2>1, <3>1, <1>9 DEF Held
      <3>2. CASE /\ k \in Nat /\ k > n /\ b.channel = "imessage"
                 /\ k - n \in DOMAIN b.body /\ b.body[k - n] = f
        BY <2>1, <3>2, <1>7, <1>10 DEF Held
      <3> QED BY <2>1, <3>1, <3>2, <1>6
    <2>2. CASE s = 2 /\ OnBus(f, i, k)' BY <2>2, <1>8 DEF Held
    <2>3. CASE s = 3 /\ i = 0 /\ \E u \in Requests : PartOf(u, f, k)'
      <3>1. \E u \in Requests : PartOf(u, f, k) BY <2>3, <1>1 DEF PartOf
      <3> QED BY <2>3, <3>1 DEF Held
    <2>4. CASE s = 4 /\ i = 0 /\ \E u \in Requests : QueuedFor(u, f, k)'
      <3>1. \E u \in Requests : QueuedFor(u, f, k) BY <2>4, <1>1 DEF QueuedFor
      <3> QED BY <2>4, <3>1 DEF Held
    <2> QED BY <1>11, <2>1, <2>2, <2>3, <2>4 DEF Held
  <1>12. DedupInv' BY <1>1 DEF FragmentInv, DedupInv
  <1>13. ThreadInv' BY <1>1 DEF FragmentInv, ThreadInv
  <1>14. HeldInv' BY <1>1, <1>11 DEF FragmentInv, HeldInv
  <1>15. OrderInv'
    <2> SUFFICES ASSUME NEW f \in Named, NEW g \in Named, ThreadOf[f] = ThreadOf[g],
                        NEW s, NEW i, NEW k, NEW t, NEW j, NEW l,
                        Held(f, s, i, k)', Held(g, t, j, l)'
                 PROVE  /\ Precedes(f, g, accepted) => Before(s, i, k, t, j, l)
                        /\ f = g => s = t /\ i = j /\ k = l
      BY <1>1 DEF OrderInv, Before
    <2>o. \A a, c, d, x, y, z : Held(f, a, c, d) /\ Held(g, x, y, z) =>
             /\ Precedes(f, g, accepted) => Before(a, c, d, x, y, z)
             /\ f = g => a = x /\ c = y /\ d = z
      BY DEF FragmentInv, OrderInv
    <2>n. \A h, a, c, d : Held(h, a, c, d) => a \in 1 .. 4 /\ c \in Nat /\ d \in Nat
      BY PlacesAreNumbers
    <2> DEFINE Waits(h, a, c, d) == a \in {3, 4} /\ Held(h, a, c, d)
               Nearer(h, a, c, d) == a = 2 /\ c \in Nat \ {0} /\ Held(h, 2, c + 1, d)
               Gone(h, a, c, d) == a = 1 /\ c = 0 /\ n \in Nat /\ d \in 1 .. n /\ Held(h, 1, 0, d)
               Goes(h, a, c, d) == /\ a = 1 /\ c = 0 /\ n \in Nat /\ d \in Nat /\ d > n
                                   /\ Held(h, 2, 1, d - n)
    <2>1. Waits(f, s, i, k) \/ Nearer(f, s, i, k) \/ Gone(f, s, i, k) \/ Goes(f, s, i, k)
      BY <1>11
    <2>2. Waits(g, t, j, l) \/ Nearer(g, t, j, l) \/ Gone(g, t, j, l) \/ Goes(g, t, j, l)
      BY <1>11
    <2>3. CASE Waits(f, s, i, k) BY <2>2, <2>3, <2>o, <2>n DEF Before
    <2>4. CASE Nearer(f, s, i, k) BY <2>2, <2>4, <2>o, <2>n DEF Before
    <2>5. CASE Gone(f, s, i, k) BY <2>2, <2>5, <2>o, <2>n DEF Before
    <2>6. CASE Goes(f, s, i, k) BY <2>2, <2>6, <2>o, <2>n DEF Before
    <2> QED BY <2>1, <2>3, <2>4, <2>5, <2>6
  <1> QED BY <1>12, <1>13, <1>14, <1>15 DEF FragmentInv

\* What the others send is nothing of iMessage.
LEMMA OthersOrder ==
  ASSUME IInv, FragmentInv, UNCHANGED <<imessageVars, processed>>,
         \/ UNCHANGED inbound
         \/ \E msg : msg.channel # "imessage" /\ inbound' = Append(inbound, msg)
  PROVE  FragmentInv'
  <1>1. UNCHANGED <<seenIDs, request, worker, accepted>> BY DEF imessageVars
  <1>2. DedupInv' BY <1>1 DEF FragmentInv, DedupInv
  <1>3. ThreadInv' BY <1>1 DEF FragmentInv, ThreadInv
  <1>4. \A f, i, k : OnBus(f, i, k)' => OnBus(f, i, k)
    <2>1. CASE UNCHANGED inbound BY <2>1 DEF OnBus
    <2>2. CASE \E msg : msg.channel # "imessage" /\ inbound' = Append(inbound, msg)
      <3>1. PICK msg : msg.channel # "imessage" /\ inbound' = Append(inbound, msg) BY <2>2
      <3> DEFINE longer == Append(inbound, msg)
                 m == Len(inbound)
      <3>2. /\ m \in Nat /\ DOMAIN inbound = 1 .. m /\ DOMAIN longer = 1 .. (m + 1)
            /\ \A i \in 1 .. m : longer[i] = inbound[i]
            /\ longer[m + 1] = msg
        <4>1. inbound \in Seq(Message) BY Shapes
        <4>2. \A S, q, e : q \in Seq(S) =>
                /\ Len(q) \in Nat /\ DOMAIN q = 1 .. Len(q)
                /\ DOMAIN Append(q, e) = 1 .. (Len(q) + 1)
                /\ \A k \in 1 .. Len(q) : Append(q, e)[k] = q[k]
                /\ Append(q, e)[Len(q) + 1] = e
          OBVIOUS
        <4> QED BY <4>1, <4>2
      <3>3. inbound' = longer BY <3>1
      <3> HIDE DEF longer, m
      <3> SUFFICES ASSUME NEW f, NEW i, NEW k, OnBus(f, i, k)' PROVE OnBus(f, i, k)
        OBVIOUS
      <3>4. i \in 1 .. (m + 1) /\ longer[i].channel = "imessage" BY <3>2, <3>3 DEF OnBus
      <3>5. i # m + 1 BY <3>1, <3>2, <3>4
      <3>6. i \in 1 .. m BY <3>2, <3>4, <3>5
      <3> QED BY <3>2, <3>3, <3>6 DEF OnBus
    <2> QED BY <2>1, <2>2
  <1>5. \A f, s, i, k : Held(f, s, i, k)' => Held(f, s, i, k)
    BY <1>1, <1>4 DEF Held, Went, PartOf, QueuedFor
  <1>6. HeldInv' /\ OrderInv' BY <1>1, <1>5, NothingMoves DEF FragmentInv
  <1> QED BY <1>2, <1>3, <1>6 DEF FragmentInv

\* The workers' other steps, and the handlers that give up.
LEMMA WorkerOrder ==
  ASSUME IInv, FragmentInv, NEW w \in Requests, UNCHANGED processed,
         \/ TimerFires(w) \/ SendPartsPanics(w) \/ WorkerStops(w) \/ Leave(w) \/ PutStops(w)
  PROVE  FragmentInv'
  <1>1. /\ request \in [Requests -> [pc : HandlerPC, worker : Requests \cup {None}]]
        /\ worker \in [Requests -> [pc : WorkerPC, queue : Seq(Fragments),
                                    parts : Seq(Fragments), timer : BOOLEAN]]
    BY DEF IInv, TypeOK, HandlersOK
  <1>2. CASE TimerFires(w)
    <2>1. /\ worker[w].pc = "gathering" /\ worker' = [worker EXCEPT ![w].pc = "sending"]
          /\ UNCHANGED <<inbound, accepted, seenIDs, request>>
      BY <1>2 DEF TimerFires, busVars
    <2>2. \A u \in Requests :
            /\ worker'[u].queue = worker[u].queue /\ worker'[u].parts = worker[u].parts
            /\ worker'[u].pc = IF u = w THEN "sending" ELSE worker[u].pc
      BY <1>1, <2>1
    <2>3. WorkersAsBefore /\ RequestsAsBefore
      BY <2>1, <2>2 DEF WorkersAsBefore, RequestsAsBefore
    <2> QED BY <2>1, <2>3, DropOrder
  <1>3. CASE SendPartsPanics(w)
    BY <1>3, OthersOrder DEF SendPartsPanics, PushPanics
  <1>4. CASE WorkerStops(w)
    <2>1. /\ worker' = [worker EXCEPT ![w].pc = "leaving", ![w].parts = <<>>,
                                      ![w].timer = FALSE]
          /\ UNCHANGED <<inbound, accepted, seenIDs, request>>
      BY <1>4 DEF WorkerStops, Discharged, busVars
    <2>2. \A u \in Requests :
            /\ worker'[u].queue = worker[u].queue
            /\ worker'[u].parts = IF u = w THEN <<>> ELSE worker[u].parts
            /\ worker'[u].pc = IF u = w THEN "leaving" ELSE worker[u].pc
      BY <1>1, <2>1
    <2>3. WorkersAsBefore /\ RequestsAsBefore
      BY <2>1, <2>2 DEF WorkersAsBefore, RequestsAsBefore
    <2> QED BY <2>1, <2>3, DropOrder
  <1>5. CASE Leave(w)
    <2>1. /\ worker[w].pc = "leaving" /\ worker' = [worker EXCEPT ![w].pc = "gone"]
          /\ UNCHANGED <<inbound, accepted, seenIDs, request>>
      BY <1>5 DEF Leave, busVars
    <2>2. \A u \in Requests :
            /\ worker'[u].queue = worker[u].queue /\ worker'[u].parts = worker[u].parts
            /\ worker'[u].pc = IF u = w THEN "gone" ELSE worker[u].pc
      BY <1>1, <2>1
    <2>3. WorkersAsBefore /\ RequestsAsBefore
      BY <2>1, <2>2 DEF WorkersAsBefore, RequestsAsBefore
    <2> QED BY <2>1, <2>3, DropOrder
  <1>6. CASE PutStops(w)
    <2>1. /\ request' = [request EXCEPT ![w] = [pc |-> "answered", worker |-> None]]
          /\ UNCHANGED <<inbound, accepted, seenIDs, worker>>
      BY <1>6 DEF PutStops, Answered, busVars
    <2>2. \A q \in Requests : request'[q] = request[q] \/ request'[q].pc = "answered"
      BY <1>1, <2>1
    <2>3. WorkersAsBefore /\ RequestsAsBefore
      BY <2>1, <2>2 DEF WorkersAsBefore, RequestsAsBefore
    <2> QED BY <2>1, <2>3, DropOrder
  <1> QED BY <1>2, <1>3, <1>4, <1>5, <1>6

\* Initially there are no fragments anywhere.
LEMMA OrderInitially == Init => FragmentInv
  <1> SUFFICES ASSUME Init PROVE FragmentInv OBVIOUS
  <1>1. DOMAIN <<>> = {} OBVIOUS
  <1>2. DedupInv BY <1>1 DEF Init, InitIMessage, NoHandler, DedupInv, Range
  <1>3. ThreadInv BY <1>1 DEF Init, InitIMessage, NoHandler, NoWorker, ThreadInv
  <1>4. \A f, s, i, k : ~Held(f, s, i, k)
    BY <1>1
       DEF Init, InitIMessage, NoWorker, Held, Went, OnBus, PartOf, QueuedFor
  <1>5. HeldInv /\ OrderInv BY <1>4 DEF HeldInv, OrderInv
  <1> QED BY <1>2, <1>3, <1>5 DEF FragmentInv

\* Every step keeps the order.
LEMMA NextOrder == IInv /\ FragmentInv /\ [Next]_vars => FragmentInv'
  <1> SUFFICES ASSUME IInv, FragmentInv, [Next]_vars PROVE FragmentInv' OBVIOUS
  <1>1. CASE \E l \in Listeners :
               TakeItem(l) \/ PushItem(l) \/ ListenerFails(l) \/ ListenerStops(l)
    <2>1. PICK l \in Listeners :
               TakeItem(l) \/ PushItem(l) \/ ListenerFails(l) \/ ListenerStops(l)
      BY <1>1
    <2>2. CASE PushItem(l)
      <3> DEFINE msg == [channel |-> l, body |-> <<taken[l]>>]
      <3>1. /\ UNCHANGED <<imessageVars, processed>>
            /\ inbound' = Append(inbound, msg) /\ msg.channel # "imessage"
        BY <2>2 DEF PushItem, Push, Sequential
      <3> HIDE DEF msg
      <3> QED BY <3>1, OthersOrder
    <2>3. CASE TakeItem(l) \/ ListenerFails(l) \/ ListenerStops(l)
      <3>1. UNCHANGED <<imessageVars, processed, inbound>>
        BY <2>3 DEF TakeItem, ListenerFails, ListenerStops, Returns, busVars
      <3> QED BY <3>1, OthersOrder
    <2> QED BY <2>1, <2>2, <2>3
  <1>2. CASE EndOfInput
    <2>1. UNCHANGED <<imessageVars, processed, inbound>> BY <1>2 DEF EndOfInput, Returns
    <2> QED BY <2>1, OthersOrder
  <1>3. CASE \E m \in DiscordMessages : DiscordReceive(m) \/ DiscordHandle(m)
    <2>1. PICK m \in DiscordMessages : DiscordReceive(m) \/ DiscordHandle(m) BY <1>3
    <2> DEFINE msg == [channel |-> "discord", body |-> <<m>>]
    <2>2. /\ UNCHANGED <<imessageVars, processed>> /\ msg.channel # "imessage"
          /\ UNCHANGED inbound \/ inbound' = Append(inbound, msg)
      BY <2>1 DEF DiscordReceive, DiscordHandle, Push, PushPanics, busVars
    <2> HIDE DEF msg
    <2> QED BY <2>2, OthersOrder
  <1>4. CASE \E r \in Requests : WebhookReceive(r) \/ WebhookHandle(r) \/ Debounce(r)
    <2>1. PICK r \in Requests : WebhookReceive(r) \/ WebhookHandle(r) \/ Debounce(r) BY <1>4
    <2>2. CASE WebhookReceive(r) BY <2>2, ReceiveOrder
    <2>3. CASE WebhookHandle(r)
      <3>1. UNCHANGED processed BY <2>3 DEF WebhookHandle
      <3>2. Enqueue(r) \/ Put(r) \/ PutStops(r) BY <2>3 DEF WebhookHandle, Handle
      <3> QED BY <3>1, <3>2, EnqueueOrder, PutOrder, WorkerOrder
    <2>4. CASE Debounce(r)
      <3>1. UNCHANGED processed BY <2>4 DEF Debounce
      <3>2. \/ Gather(r) \/ TimerFires(r) \/ SendParts(r)
            \/ SendPartsPanics(r) \/ WorkerStops(r) \/ Leave(r)
        BY <2>4 DEF Debounce, Work
      <3> QED BY <3>1, <3>2, GatherOrder, SendOrder, WorkerOrder
    <2> QED BY <2>1, <2>2, <2>3, <2>4
  <1>5. CASE Close
    <2>1. UNCHANGED <<imessageVars, processed, inbound>> BY <1>5 DEF Close
    <2> QED BY <2>1, OthersOrder
  <1>6. CASE Take BY <1>6, TakeOrder
  <1>7. CASE RunReturns
    <2>1. UNCHANGED <<imessageVars, processed, inbound>> BY <1>7 DEF RunReturns, busVars
    <2> QED BY <2>1, OthersOrder
  <1>8. CASE UNCHANGED vars
    <2>1. UNCHANGED <<imessageVars, processed, inbound>> BY <1>8 DEF vars, busVars
    <2> QED BY <2>1, OthersOrder
  <1> QED BY <1>1, <1>2, <1>3, <1>4, <1>5, <1>6, <1>7, <1>8 DEF Next

\* The fragments of a thread reach the dispatcher in the order in which they were
\* accepted and none with a GUID twice, through replays, debounce workers that come
\* and go, and a shutdown (imessage.go, makeHandler, enqueue and debounceWorker).
THEOREM InOrder == Spec => []FragmentsInOrder
  <1>1. IInv /\ FragmentInv => FragmentsInOrder
    <2> DEFINE went == processed["imessage"]
    <2> SUFFICES ASSUME IInv, FragmentInv, "imessage" \in Listeners,
                        NEW f \in Range(went) \ Unnamed, NEW g \in Range(went) \ Unnamed
                 PROVE  /\ ~Precedes(f, f, went)
                        /\ ThreadOf[f] = ThreadOf[g] /\ Precedes(f, g, accepted)
                             => Precedes(f, g, went)
      BY DEF FragmentsInOrder
    <2>1. \A h : \A k \in DOMAIN went : went[k] = h => Held(h, 1, 0, k)
      BY DEF Held, Went
    <2>2. PICK x \in DOMAIN went : went[x] = f BY DEF Range
    <2>3. PICK y \in DOMAIN went : went[y] = g BY DEF Range
    <2>4. f \in Named /\ g \in Named
      <3>1. Held(f, 1, 0, x) /\ Held(g, 1, 0, y) BY <2>1, <2>2, <2>3
      <3>2. f \in Range(accepted) /\ g \in Range(accepted)
        BY <3>1 DEF FragmentInv, HeldInv
      <3>3. \A S, q : q \in Seq(S) => Range(q) \subseteq S BY DEF Range
      <3> QED BY <3>2, <3>3, Shapes DEF Named
    <2>5. \A k \in DOMAIN went : k \in Nat
      <3>1. went \in Seq(Items) BY Shapes
      <3>2. \A S, q : q \in Seq(S) => DOMAIN q \subseteq Nat OBVIOUS
      <3> QED BY <3>1, <3>2
    <2>6. ~Precedes(f, f, went)
      <3> SUFFICES ASSUME NEW i \in DOMAIN went, NEW j \in DOMAIN went, i < j,
                          went[i] = f, went[j] = f
                   PROVE  FALSE
        BY DEF Precedes
      <3>1. Held(f, 1, 0, i) /\ Held(f, 1, 0, j) BY <2>1
      <3>2. i = j BY <3>1, <2>4 DEF FragmentInv, OrderInv
      <3> QED BY <3>2, <2>5
    <2>7. ASSUME ThreadOf[f] = ThreadOf[g], Precedes(f, g, accepted)
          PROVE  Precedes(f, g, went)
      <3>1. Held(f, 1, 0, x) /\ Held(g, 1, 0, y) BY <2>1, <2>2, <2>3
      <3>2. Before(1, 0, x, 1, 0, y) BY <3>1, <2>4, <2>7 DEF FragmentInv, OrderInv
      <3>3. x < y BY <3>2, <2>5 DEF Before
      <3> QED BY <3>3, <2>2, <2>3 DEF Precedes
    <2> QED BY <2>6, <2>7
  <1> QED BY <1>1, InitIInv, NextIInv, OrderInitially, NextOrder, PTL DEF Spec

-----------------------------------------------------------------------------
(* The lines that are typed.                                               *)

LineOnBus(i) == i \in DOMAIN inbound /\ inbound[i].channel = "cli"

Line(i) == inbound[i].body[1]

\* The first m lines were put on the bus: the first n are answered, the others wait
\* in the order in which they were typed.
SentUpTo(m) ==
    LET n == Len(processed["cli"])
    IN  /\ n <= m
        /\ processed["cli"] = [i \in 1 .. n |-> i]
        /\ \A i : LineOnBus(i) =>
             Line(i) \in (n + 1) .. m /\ inbound[i].body = <<Line(i)>>
        /\ \A i, j : i < j /\ LineOnBus(i) /\ LineOnBus(j) => Line(i) < Line(j)
        /\ \A v \in (n + 1) .. m : \E i : LineOnBus(i) /\ Line(i) = v

\* All lines were put on the bus, but for one that waits for room; where the input
\* ended none is waiting.  Run returned with the bus closed and empty.
LineInv ==
    /\ "cli" \in Listeners => \E m \in Nat :
         /\ SentUpTo(m)
         /\ listener["cli"] = "listening" \/ ended => m = taken["cli"]
         /\ listener["cli"] = "pushing" => m + 1 = taken["cli"]
    /\ ended => "cli" \in Listeners /\ listener["cli"] = "returned"
    /\ returned => closed /\ inbound = <<>>

\* A step that leaves the lines on the bus, at their places or all others behind them.
LEMMA LinesKept ==
  ASSUME NEW m, SentUpTo(m), UNCHANGED processed,
         \A i : LineOnBus(i)' <=> LineOnBus(i),
         \A i : LineOnBus(i) => inbound'[i] = inbound[i]
  PROVE  SentUpTo(m)'
  BY DEF SentUpTo, Line

\* A message that is put on the bus is behind all others.
LEMMA Appended ==
  ASSUME IInv, NEW msg, inbound' = Append(inbound, msg)
  PROVE  /\ DOMAIN inbound = 1 .. Len(inbound) /\ Len(inbound) \in Nat
         /\ DOMAIN inbound' = 1 .. (Len(inbound) + 1)
         /\ \A i \in 1 .. Len(inbound) : inbound'[i] = inbound[i]
         /\ inbound'[Len(inbound) + 1] = msg
  <1>1. inbound \in Seq(Message) BY Shapes
  <1>2. \A S, q, e : q \in Seq(S) =>
          /\ Len(q) \in Nat /\ DOMAIN q = 1 .. Len(q)
          /\ DOMAIN Append(q, e) = 1 .. (Len(q) + 1)
          /\ \A k \in 1 .. Len(q) : Append(q, e)[k] = q[k]
          /\ Append(q, e)[Len(q) + 1] = e
    OBVIOUS
  <1> QED BY <1>1, <1>2

\* What others append is no line.
LEMMA OthersAppend ==
  ASSUME IInv, NEW m, SentUpTo(m), UNCHANGED processed,
         \/ UNCHANGED inbound
         \/ \E msg : msg.channel # "cli" /\ inbound' = Append(inbound, msg)
  PROVE  SentUpTo(m)'
  <1>1. CASE UNCHANGED inbound BY <1>1, LinesKept DEF LineOnBus
  <1>2. CASE \E msg : msg.channel # "cli" /\ inbound' = Append(inbound, msg)
    <2> DEFINE n == Len(inbound)
    <2>1. /\ n \in Nat /\ DOMAIN inbound = 1 .. n /\ DOMAIN inbound' = 1 .. (n + 1)
          /\ \A i \in 1 .. n : inbound'[i] = inbound[i]
          /\ inbound'[n + 1].channel # "cli"
      BY <1>2, Appended
    <2> HIDE DEF n
    <2>2. \A i : i \in 1 .. (n + 1) <=> i \in 1 .. n \/ i = n + 1 BY <2>1
    <2>3. n + 1 \notin 1 .. n BY <2>1
    <2>4. \A i : LineOnBus(i)' <=> LineOnBus(i)
      BY <2>1, <2>2, <2>3 DEF LineOnBus
    <2>5. \A i : LineOnBus(i) => inbound'[i] = inbound[i]
      BY <2>1 DEF LineOnBus
    <2> QED BY <2>4, <2>5, LinesKept
  <1> QED BY <1>1, <1>2

\* The terminal puts the next line on the bus.
LEMMA LinePushed ==
  ASSUME IInv, NEW m \in Nat, SentUpTo(m), UNCHANGED processed, "cli" \in Listeners,
         NEW msg, msg.channel = "cli", msg.body = <<m + 1>>,
         inbound' = Append(inbound, msg)
  PROVE  SentUpTo(m + 1)'
  <1>0. PICK n \in Nat : n = Len(processed["cli"])
    <2>1. processed["cli"] \in Seq(Items) BY Shapes
    <2>2. \A S, q : q \in Seq(S) => Len(q) \in Nat OBVIOUS
    <2> QED BY <2>1, <2>2
  <1>1. PICK b \in Nat :
          /\ DOMAIN inbound = 1 .. b /\ DOMAIN inbound' = 1 .. (b + 1)
          /\ \A i \in 1 .. b : inbound'[i] = inbound[i]
          /\ inbound'[b + 1] = msg
    BY Appended
  <1>2. msg.body[1] = m + 1 OBVIOUS
  <1>3. /\ n <= m
        /\ processed["cli"] = [i \in 1 .. n |-> i]
        /\ \A i : LineOnBus(i) =>
             Line(i) \in (n + 1) .. m /\ inbound[i].body = <<Line(i)>>
        /\ \A i, j : i < j /\ LineOnBus(i) /\ LineOnBus(j) => Line(i) < Line(j)
        /\ \A v \in (n + 1) .. m : \E i : LineOnBus(i) /\ Line(i) = v
    BY <1>0 DEF SentUpTo
  <1>4. \A i : LineOnBus(i)' <=> LineOnBus(i) \/ i = b + 1
    <2>1. \A i : i \in 1 .. (b + 1) <=> i \in 1 .. b \/ i = b + 1 OBVIOUS
    <2> QED BY <2>1, <1>1 DEF LineOnBus
  <1>5. \A i : LineOnBus(i) => i \in 1 .. b /\ inbound'[i] = inbound[i]
    BY <1>1 DEF LineOnBus
  <1>6. \A i : LineOnBus(i) => Line(i)' = Line(i) BY <1>5 DEF Line
  <1>7. Line(b + 1)' = m + 1 /\ inbound'[b + 1].body = <<m + 1>>
    BY <1>1, <1>2 DEF Line
  <1>8. \A i : LineOnBus(i)' =>
          Line(i)' \in (n + 1) .. (m + 1) /\ inbound'[i].body = <<Line(i)'>>
    <2>1. \A v \in (n + 1) .. m : v \in (n + 1) .. (m + 1) OBVIOUS
    <2>2. m + 1 \in (n + 1) .. (m + 1) BY <1>3
    <2>3. ASSUME NEW i, LineOnBus(i)
          PROVE  Line(i)' \in (n + 1) .. (m + 1) /\ inbound'[i].body = <<Line(i)'>>
      <3>1. Line(i) \in (n + 1) .. m /\ inbound[i].body = <<Line(i)>> BY <2>3, <1>3
      <3>2. Line(i)' = Line(i) /\ inbound'[i] = inbound[i] BY <2>3, <1>5, <1>6
      <3> QED BY <3>1, <3>2, <2>1
    <2>4. Line(b + 1)' \in (n + 1) .. (m + 1) /\ inbound'[b + 1].body = <<Line(b + 1)'>>
      BY <2>2, <1>7
    <2> QED BY <2>3, <2>4, <1>4
  <1>9. ASSUME NEW i, NEW j, i < j, LineOnBus(i)', LineOnBus(j)'
        PROVE  Line(i)' < Line(j)'
    <2>1. i \in Nat /\ j \in Nat /\ i <= b + 1 /\ j <= b + 1 BY <1>1, <1>9 DEF LineOnBus
    <2>2. LineOnBus(i) BY <2>1, <1>4, <1>9
    <2>3. Line(i)' = Line(i) /\ Line(i) \in (n + 1) .. m BY <2>2, <1>3, <1>6
    <2>4. CASE j = b + 1 BY <2>3, <2>4, <1>7
    <2>5. CASE LineOnBus(j) BY <2>2, <2>3, <2>5, <1>3, <1>6, <1>9
    <2> QED BY <2>4, <2>5, <1>4, <1>9
  <1>10. ASSUME NEW v \in (n + 1) .. (m + 1)
         PROVE  \E i : LineOnBus(i)' /\ Line(i)' = v
    <2>1. CASE v = m + 1 BY <2>1, <1>4, <1>7
    <2>2. CASE v # m + 1
      <3>1. v \in (n + 1) .. m BY <2>2
      <3> QED BY <3>1, <1>3, <1>4, <1>6
    <2> QED BY <2>1, <2>2
  <1>11. n <= m + 1 /\ processed'["cli"] = [i \in 1 .. n |-> i]
         /\ Len(processed'["cli"]) = n
    BY <1>0, <1>3
  <1> QED BY <1>8, <1>9, <1>10, <1>11 DEF SentUpTo

\* The dispatcher takes a message: if it is a line, it is the next one.
LEMMA LineTaken ==
  ASSUME IInv, NEW m \in Nat, SentUpTo(m), "cli" \in Listeners, Take
  PROVE  SentUpTo(m)'
  <1>0. PICK n \in Nat : n = Len(processed["cli"])
    <2>1. processed["cli"] \in Seq(Items) BY Shapes
    <2>2. \A S, q : q \in Seq(S) => Len(q) \in Nat OBVIOUS
    <2> QED BY <2>1, <2>2
  <1>1. PICK b \in Nat \ {0} :
          /\ DOMAIN inbound = 1 .. b /\ DOMAIN inbound' = 1 .. (b - 1)
          /\ \A i \in 1 .. (b - 1) : inbound'[i] = inbound[i + 1]
          /\ Head(inbound) = inbound[1]
    <2>1. inbound \in Seq(Message) BY Shapes
    <2>2. inbound # <<>> /\ inbound' = Tail(inbound) BY DEF Take
    <2>3. \A S, q : q \in Seq(S) /\ q # <<>> =>
            /\ Len(q) \in Nat \ {0} /\ DOMAIN q = 1 .. Len(q) /\ Head(q) = q[1]
            /\ DOMAIN Tail(q) = 1 .. (Len(q) - 1)
            /\ \A k \in 1 .. (Len(q) - 1) : Tail(q)[k] = q[k + 1]
      OBVIOUS
    <2> QED BY <2>1, <2>2, <2>3
  <1>2. processed' = [processed EXCEPT ![inbound[1].channel] = @ \o inbound[1].body]
    BY <1>1 DEF Take
  <1>3. /\ n <= m
        /\ processed["cli"] = [i \in 1 .. n |-> i]
        /\ \A i : LineOnBus(i) =>
             Line(i) \in (n + 1) .. m /\ inbound[i].body = <<Line(i)>>
        /\ \A i, j : i < j /\ LineOnBus(i) /\ LineOnBus(j) => Line(i) < Line(j)
        /\ \A v \in (n + 1) .. m : \E i : LineOnBus(i) /\ Line(i) = v
    BY <1>0 DEF SentUpTo
  <1>4. \A i : LineOnBus(i) => i \in 1 .. b BY <1>1 DEF LineOnBus
  <1>5. \A i \in 1 .. (b - 1) :
          /\ LineOnBus(i)' <=> LineOnBus(i + 1)
          /\ Line(i)' = Line(i + 1) /\ inbound'[i].body = inbound[i + 1].body
    BY <1>1 DEF LineOnBus, Line
  <1>6. \A i : LineOnBus(i)' => i \in 1 .. (b - 1) BY <1>1 DEF LineOnBus
  <1>7. \A i, j : i < j /\ LineOnBus(i)' /\ LineOnBus(j)' => Line(i)' < Line(j)'
    <2> SUFFICES ASSUME NEW i, NEW j, i < j, LineOnBus(i)', LineOnBus(j)'
                 PROVE  Line(i)' < Line(j)'
      OBVIOUS
    <2>1. i \in 1 .. (b - 1) /\ j \in 1 .. (b - 1) BY <1>6
    <2>2. LineOnBus(i + 1) /\ LineOnBus(j + 1) /\ i + 1 < j + 1 BY <2>1, <1>5
    <2>3. Line(i + 1) < Line(j + 1) BY <2>2, <1>3
    <2> QED BY <2>1, <2>3, <1>5
  <1>8. \A i : LineOnBus(i)' => inbound'[i].body = <<Line(i)'>>
    <2> SUFFICES ASSUME NEW i, LineOnBus(i)' PROVE inbound'[i].body = <<Line(i)'>> OBVIOUS
    <2>1. i \in 1 .. (b - 1) BY <1>6
    <2>2. LineOnBus(i + 1) BY <2>1, <1>5
    <2>3. inbound[i + 1].body = <<Line(i + 1)>> BY <2>2, <1>3
    <2> QED BY <2>1, <2>3, <1>5
  <1>d. DOMAIN processed = Listeners BY Shapes
  <1>9. CASE inbound[1].channel # "cli"
    <2>1. processed'["cli"] = processed["cli"] BY <1>9, <1>2, <1>d
    <2>2. ~LineOnBus(1) BY <1>9 DEF LineOnBus
    <2>3. ASSUME NEW v \in (n + 1) .. m PROVE \E i : LineOnBus(i)' /\ Line(i)' = v
      <3>1. PICK i : LineOnBus(i) /\ Line(i) = v BY <1>3
      <3>2. i - 1 \in 1 .. (b - 1) /\ (i - 1) + 1 = i BY <3>1, <2>2, <1>4
      <3> QED BY <3>1, <3>2, <1>5
    <2>4. \A i : LineOnBus(i)' => Line(i)' \in (n + 1) .. m
      <3> SUFFICES ASSUME NEW i, LineOnBus(i)' PROVE Line(i)' \in (n + 1) .. m OBVIOUS
      <3>1. i \in 1 .. (b - 1) BY <1>6
      <3>2. LineOnBus(i + 1) BY <3>1, <1>5
      <3> QED BY <3>1, <3>2, <1>3, <1>5
    <2>5. Len(processed'["cli"]) = n BY <2>1, <1>0
    <2> QED BY <2>1, <2>3, <2>4, <2>5, <1>3, <1>7, <1>8 DEF SentUpTo
  <1>10. CASE inbound[1].channel = "cli"
    <2>1. LineOnBus(1) BY <1>1, <1>10 DEF LineOnBus
    <2>2. Line(1) \in (n + 1) .. m /\ inbound[1].body = <<Line(1)>> BY <2>1, <1>3
    <2>3. Line(1) = n + 1
      <3>1. n + 1 \in (n + 1) .. m BY <2>2
      <3>2. PICK i : LineOnBus(i) /\ Line(i) = n + 1 BY <3>1, <1>3
      <3>3. i = 1
        <4>1. i \in 1 .. b BY <3>2, <1>4
        <4>2. ASSUME i # 1 PROVE FALSE
          <5>1. 1 < i BY <4>1, <4>2
          <5>2. Line(1) < Line(i) BY <5>1, <2>1, <3>2, <1>3
          <5> QED BY <5>2, <2>2, <3>2
        <4> QED BY <4>2
      <3> QED BY <3>2, <3>3
    <2>4. processed'["cli"] = processed["cli"] \o <<n + 1>>
      BY <2>2, <2>3, <1>2, <1>10, <1>d
    <2>5. processed'["cli"] = [i \in 1 .. (n + 1) |-> i] /\ Len(processed'["cli"]) = n + 1
      <3>1. \A k \in Nat : [i \in 1 .. k |-> i] \o <<k + 1>> = [i \in 1 .. (k + 1) |-> i]
                           /\ Len([i \in 1 .. (k + 1) |-> i]) = k + 1
        OBVIOUS
      <3> QED BY <3>1, <2>4, <1>3
    <2>6. ASSUME NEW v \in (n + 2) .. m PROVE \E i : LineOnBus(i)' /\ Line(i)' = v
      <3>1. v \in (n + 1) .. m /\ v # n + 1 OBVIOUS
      <3>2. PICK i : LineOnBus(i) /\ Line(i) = v BY <3>1, <1>3
      <3>3. i # 1 BY <3>1, <3>2, <2>3
      <3>4. i - 1 \in 1 .. (b - 1) /\ (i - 1) + 1 = i BY <3>2, <3>3, <1>4
      <3> QED BY <3>2, <3>4, <1>5
    <2>7. \A i : LineOnBus(i)' => Line(i)' \in (n + 2) .. m
      <3> SUFFICES ASSUME NEW i, LineOnBus(i)' PROVE Line(i)' \in (n + 2) .. m OBVIOUS
      <3>1. i \in 1 .. (b - 1) /\ 1 < i + 1 BY <1>6
      <3>2. LineOnBus(i + 1) BY <3>1, <1>5
      <3>3. Line(1) < Line(i + 1) /\ Line(i + 1) \in (n + 1) .. m
        BY <3>1, <3>2, <2>1, <1>3
      <3>4. Line(i + 1) \in (n + 2) .. m BY <3>3, <2>3
      <3> QED BY <3>1, <3>4, <1>5
    <2>8. n + 1 <= m /\ (n + 1) + 1 = n + 2 BY <2>2
    <2> QED BY <2>5, <2>6, <2>7, <2>8, <1>7, <1>8 DEF SentUpTo
  <1> QED BY <1>9, <1>10

\* A step that leaves the terminal and its lines alone.
Elsewhere ==
  /\ UNCHANGED <<processed, taken, ended>>
  /\ "cli" \in Listeners => listener'["cli"] = listener["cli"]
  /\ \/ UNCHANGED inbound
     \/ ~closed /\ \E msg : msg.channel # "cli" /\ inbound' = Append(inbound, msg)
  /\ closed => closed'
  /\ returned' => returned \/ (closed /\ inbound = <<>>)

LEMMA OthersLines == IInv /\ LineInv /\ Elsewhere => LineInv'
  <1> SUFFICES ASSUME IInv, LineInv, Elsewhere PROVE LineInv' OBVIOUS
  <1>1. ASSUME "cli" \in Listeners
        PROVE  \E m \in Nat :
                 /\ SentUpTo(m)'
                 /\ listener'["cli"] = "listening" \/ ended' => m = taken'["cli"]
                 /\ listener'["cli"] = "pushing" => m + 1 = taken'["cli"]
    <2>1. PICK m \in Nat :
            /\ SentUpTo(m)
            /\ listener["cli"] = "listening" \/ ended => m = taken["cli"]
            /\ listener["cli"] = "pushing" => m + 1 = taken["cli"]
      BY <1>1 DEF LineInv
    <2>2. SentUpTo(m)' BY <2>1, OthersAppend DEF Elsewhere
    <2> QED BY <2>1, <2>2, <1>1 DEF Elsewhere
  <1>2. ended' => "cli" \in Listeners /\ listener'["cli"] = "returned" BY DEF LineInv, Elsewhere
  <1>3. returned' => closed' /\ inbound' = <<>> BY DEF LineInv, Elsewhere
  <1> QED BY <1>1, <1>2, <1>3 DEF LineInv

\* The terminal's own steps.
LEMMA TerminalLines ==
  ASSUME IInv, LineInv, "cli" \in Listeners,
         TakeItem("cli") \/ PushItem("cli") \/ ListenerFails("cli") \/ ListenerStops("cli")
           \/ EndOfInput
  PROVE  LineInv'
  <1>1. PICK m \in Nat :
          /\ SentUpTo(m)
          /\ listener["cli"] = "listening" \/ ended => m = taken["cli"]
          /\ listener["cli"] = "pushing" => m + 1 = taken["cli"]
    BY DEF LineInv
  <1>2. /\ ended => listener["cli"] = "returned"
        /\ returned => closed /\ inbound = <<>>
    BY DEF LineInv
  <1>3. /\ DOMAIN listener = Listeners
        /\ listener \in [Listeners -> {"listening", "pushing", "returned"}]
        /\ taken \in [Sequential -> 0 .. MaxItems]
    BY DEF IInv, TypeOK, ListenersOK
  <1>4. UNCHANGED inbound /\ UNCHANGED processed => SentUpTo(m)' BY <1>1, OthersAppend
  <1>5. CASE TakeItem("cli")
    <2>1. /\ listener["cli"] = "listening"
          /\ taken' = [taken EXCEPT !["cli"] = @ + 1]
          /\ listener' = [listener EXCEPT !["cli"] = "pushing"]
          /\ UNCHANGED <<inbound, closed, ended, returned, processed>>
      BY <1>5 DEF TakeItem, busVars
    <2>2. taken'["cli"] = m + 1 /\ listener'["cli"] = "pushing" /\ ~ended
      BY <2>1, <1>1, <1>2, <1>3 DEF Sequential
    <2> QED BY <2>1, <2>2, <1>2, <1>4 DEF LineInv
  <1>6. CASE PushItem("cli")
    <2> DEFINE msg == [channel |-> "cli", body |-> <<taken["cli"]>>]
    <2>1. /\ listener["cli"] = "pushing" /\ ~closed
          /\ inbound' = Append(inbound, msg)
          /\ listener' = [listener EXCEPT !["cli"] = "listening"]
          /\ UNCHANGED <<taken, closed, ended, returned, processed>>
      BY <1>6 DEF PushItem, Push
    <2>2. msg.channel = "cli" /\ msg.body = <<m + 1>> BY <2>1, <1>1
    <2> HIDE DEF msg
    <2>3. SentUpTo(m + 1)' BY <2>1, <2>2, <1>1, LinePushed
    <2>4. listener'["cli"] = "listening" /\ taken'["cli"] = m + 1 /\ ~ended /\ ~returned
      BY <2>1, <1>1, <1>2, <1>3
    <2> QED BY <2>1, <2>3, <2>4 DEF LineInv
  <1>7. CASE ListenerFails("cli") BY <1>7 DEF ListenerFails
  <1>8. CASE ListenerStops("cli")
    <2>1. /\ listener["cli"] # "returned"
          /\ listener' = [listener EXCEPT !["cli"] = "returned"]
          /\ UNCHANGED <<inbound, closed, taken, ended, returned, processed>>
      BY <1>8 DEF ListenerStops, Returns
    <2>2. listener'["cli"] = "returned" /\ ~ended BY <2>1, <1>2, <1>3
    <2> QED BY <2>1, <2>2, <1>2, <1>4 DEF LineInv
  <1>9. CASE EndOfInput
    <2>1. /\ listener["cli"] = "listening" /\ ended'
          /\ listener' = [listener EXCEPT !["cli"] = "returned"]
          /\ UNCHANGED <<inbound, closed, taken, returned, processed>>
      BY <1>9 DEF EndOfInput, Returns
    <2>2. listener'["cli"] = "returned" /\ m = taken'["cli"] BY <2>1, <1>1, <1>3
    <2> QED BY <2>1, <2>2, <1>2, <1>4 DEF LineInv
  <1> QED BY <1>5, <1>6, <1>7, <1>8, <1>9

\* Every step keeps the lines.
LEMMA NextLines == IInv /\ LineInv /\ [Next]_vars => LineInv'
  <1> SUFFICES ASSUME IInv, LineInv, [Next]_vars PROVE LineInv' OBVIOUS
  <1>1. CASE \E l \in Listeners :
               TakeItem(l) \/ PushItem(l) \/ ListenerFails(l) \/ ListenerStops(l)
    <2>1. PICK l \in Listeners :
               TakeItem(l) \/ PushItem(l) \/ ListenerFails(l) \/ ListenerStops(l)
      BY <1>1
    <2>2. CASE l = "cli" BY <2>1, <2>2, TerminalLines
    <2>3. CASE l # "cli"
      <3>1. listener \in [Listeners -> {"listening", "pushing", "returned"}]
        BY DEF IInv, TypeOK, ListenersOK
      <3>2. ASSUME TakeItem(l) PROVE LineInv'
        <4>1. /\ UNCHANGED <<inbound, closed, returned, processed, ended>>
              /\ taken' = [taken EXCEPT ![l] = @ + 1]
              /\ "cli" \in Listeners => listener'["cli"] = listener["cli"]
          BY <3>1, <3>2, <2>3 DEF TakeItem, busVars
        <4>2. taken'["cli"] = taken["cli"]
          BY <4>1, <2>3 DEF IInv, TypeOK, ListenersOK, Sequential
        <4>3. ASSUME "cli" \in Listeners
              PROVE  \E m \in Nat :
                       /\ SentUpTo(m)'
                       /\ listener'["cli"] = "listening" \/ ended' => m = taken'["cli"]
                       /\ listener'["cli"] = "pushing" => m + 1 = taken'["cli"]
          <5>1. PICK m \in Nat :
                  /\ SentUpTo(m)
                  /\ listener["cli"] = "listening" \/ ended => m = taken["cli"]
                  /\ listener["cli"] = "pushing" => m + 1 = taken["cli"]
            BY <4>3 DEF LineInv
          <5>2. SentUpTo(m)' BY <4>1, <5>1, OthersAppend
          <5> QED BY <4>1, <4>2, <4>3, <5>1, <5>2
        <4> QED BY <4>1, <4>3 DEF LineInv
      <3>3. ASSUME PushItem(l) PROVE LineInv'
        <4> DEFINE msg == [channel |-> l, body |-> <<taken[l]>>]
        <4>1. /\ UNCHANGED <<closed, returned, processed, taken, ended>> /\ ~closed
              /\ inbound' = Append(inbound, msg) /\ msg.channel # "cli"
              /\ "cli" \in Listeners => listener'["cli"] = listener["cli"]
          BY <3>1, <3>3, <2>3 DEF PushItem, Push
        <4> HIDE DEF msg
        <4>2. Elsewhere BY <4>1 DEF Elsewhere
        <4> QED BY <4>2, OthersLines
      <3>4. ASSUME ListenerFails(l) \/ ListenerStops(l) PROVE LineInv'
        <4>1. /\ UNCHANGED <<inbound, closed, returned, processed, taken, ended>>
              /\ "cli" \in Listeners => listener'["cli"] = listener["cli"]
          BY <3>1, <3>4, <2>3 DEF ListenerFails, ListenerStops, Returns
        <4>2. Elsewhere BY <4>1 DEF Elsewhere
        <4> QED BY <4>2, OthersLines
      <3> QED BY <2>1, <3>2, <3>3, <3>4
    <2> QED BY <2>2, <2>3
  <1>2. CASE EndOfInput BY <1>2, TerminalLines DEF EndOfInput
  <1>3. CASE \E m \in DiscordMessages : DiscordReceive(m) \/ DiscordHandle(m)
    <2>1. PICK m \in DiscordMessages : DiscordReceive(m) \/ DiscordHandle(m) BY <1>3
    <2> DEFINE msg == [channel |-> "discord", body |-> <<m>>]
    <2>2. /\ UNCHANGED <<closed, returned, processed, listener, taken, ended>>
          /\ msg.channel # "cli"
          /\ UNCHANGED inbound \/ (~closed /\ inbound' = Append(inbound, msg))
      BY <2>1 DEF DiscordReceive, DiscordHandle, Push, PushPanics, busVars
    <2> HIDE DEF msg
    <2>3. Elsewhere BY <2>2 DEF Elsewhere
    <2> QED BY <2>3, OthersLines
  <1>4. CASE \E r \in Requests : WebhookReceive(r) \/ WebhookHandle(r) \/ Debounce(r)
    <2>1. PICK r \in Requests : WebhookReceive(r) \/ WebhookHandle(r) \/ Debounce(r) BY <1>4
    <2>2. UNCHANGED <<listener, taken, ended, returned, processed>>
      BY <2>1 DEF WebhookReceive, WebhookHandle, Debounce, listenerVars
    <2>3. CASE SendParts(r)
      <3> DEFINE msg == [channel |-> "imessage", body |-> worker[r].parts]
      <3>1. /\ UNCHANGED closed /\ ~closed
            /\ inbound' = Append(inbound, msg) /\ msg.channel # "cli"
        BY <2>3 DEF SendParts, Push
      <3> HIDE DEF msg
      <3>2. Elsewhere BY <2>2, <3>1 DEF Elsewhere
      <3> QED BY <3>2, OthersLines
    <2>4. CASE ~SendParts(r)
      <3>1. UNCHANGED <<inbound, closed>>
        BY <2>1, <2>4
           DEF WebhookReceive, Receive, WebhookHandle, Handle, Enqueue, Put, PutStops, Debounce,
               Work, Gather, TimerFires, SendPartsPanics, PushPanics, WorkerStops, Leave, busVars
      <3>2. Elsewhere BY <2>2, <3>1 DEF Elsewhere
      <3> QED BY <3>2, OthersLines
    <2> QED BY <2>3, <2>4
  <1>5. CASE Close
    <2>1. UNCHANGED <<listener, taken, ended, returned, processed, inbound>> /\ closed'
      BY <1>5 DEF Close, listenerVars
    <2>2. Elsewhere BY <2>1 DEF Elsewhere
    <2> QED BY <2>2, OthersLines
  <1>6. CASE Take
    <2>1. /\ UNCHANGED <<listener, taken, ended, returned, closed>> /\ ~returned
      BY <1>6 DEF Take, listenerVars
    <2>2. ASSUME "cli" \in Listeners
          PROVE  \E m \in Nat :
                   /\ SentUpTo(m)'
                   /\ listener'["cli"] = "listening" \/ ended' => m = taken'["cli"]
                   /\ listener'["cli"] = "pushing" => m + 1 = taken'["cli"]
      <3>1. PICK m \in Nat :
              /\ SentUpTo(m)
              /\ listener["cli"] = "listening" \/ ended => m = taken["cli"]
              /\ listener["cli"] = "pushing" => m + 1 = taken["cli"]
        BY <2>2 DEF LineInv
      <3>2. SentUpTo(m)' BY <2>2, <3>1, <1>6, LineTaken
      <3> QED BY <2>1, <3>1, <3>2
    <2> QED BY <2>1, <2>2 DEF LineInv
  <1>7. CASE RunReturns
    <2>1. UNCHANGED <<listener, taken, ended, closed, processed, inbound>>
          /\ closed /\ inbound = <<>>
      BY <1>7 DEF RunReturns, Drained, listenerVars, busVars
    <2>2. Elsewhere BY <2>1 DEF Elsewhere
    <2> QED BY <2>2, OthersLines
  <1>8. CASE UNCHANGED vars
    <2>1. UNCHANGED <<listener, taken, ended, closed, returned, processed, inbound>>
      BY <1>8 DEF vars, listenerVars, busVars
    <2>2. Elsewhere BY <2>1 DEF Elsewhere
    <2> QED BY <2>2, OthersLines
  <1> QED BY <1>1, <1>2, <1>3, <1>4, <1>5, <1>6, <1>7, <1>8 DEF Next

\* Every line typed before Ctrl-D is answered, in order and once, before Run
\* returns, whatever the other listeners send and however small the bus
\* (dispatcher.go: the channel is drained before the process ends).
THEOREM LinesAreAnswered == Spec => []LinesAnswered
  <1>1. Init => LineInv
    <2> SUFFICES ASSUME Init PROVE LineInv OBVIOUS
    <2>1. ~ended /\ ~returned BY DEF Init
    <2>2. ASSUME "cli" \in Listeners
          PROVE  /\ SentUpTo(0) /\ 0 \in Nat
                 /\ listener["cli"] = "listening" /\ taken["cli"] = 0
      <3>1. processed["cli"] = <<>> /\ inbound = <<>> /\ listener["cli"] = "listening"
            /\ taken["cli"] = 0
        BY <2>2 DEF Init, Sequential
      <3>2. DOMAIN <<>> = {} /\ <<>> = [i \in 1 .. 0 |-> i] /\ Len(<<>>) = 0 OBVIOUS
      <3>3. \A i : ~LineOnBus(i) BY <3>1, <3>2 DEF LineOnBus
      <3>4. (0 + 1) .. 0 = {} OBVIOUS
      <3> QED BY <3>1, <3>2, <3>3, <3>4 DEF SentUpTo
    <2> QED BY <2>1, <2>2 DEF LineInv
  <1>2. IInv /\ LineInv => LinesAnswered
    <2> SUFFICES ASSUME IInv, LineInv, ended, returned
                 PROVE  processed["cli"] = [i \in 1 .. taken["cli"] |-> i]
      BY DEF LinesAnswered
    <2>1. "cli" \in Listeners /\ inbound = <<>> BY DEF LineInv
    <2>2. PICK m \in Nat : SentUpTo(m) /\ m = taken["cli"] BY <2>1 DEF LineInv
    <2>3. PICK n \in Nat : n = Len(processed["cli"])
      <3>1. processed["cli"] \in Seq(Items) BY <2>1, Shapes
      <3>2. \A S, q : q \in Seq(S) => Len(q) \in Nat OBVIOUS
      <3> QED BY <3>1, <3>2
    <2>4. /\ n <= m /\ processed["cli"] = [i \in 1 .. n |-> i]
          /\ \A v \in (n + 1) .. m : \E i : LineOnBus(i)
      BY <2>2, <2>3 DEF SentUpTo
    <2>5. \A i : ~LineOnBus(i)
      <3>1. DOMAIN <<>> = {} OBVIOUS
      <3> QED BY <2>1, <3>1 DEF LineOnBus
    <2>6. n = m
      <3>1. n < m => m \in (n + 1) .. m OBVIOUS
      <3> QED BY <3>1, <2>4, <2>5
    <2> QED BY <2>2, <2>4, <2>6
  <1> QED BY <1>1, <1>2, InitIInv, NextIInv, NextLines, PTL DEF Spec
=============================================================================
