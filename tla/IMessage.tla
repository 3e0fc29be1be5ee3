------------------------------ MODULE IMessage ------------------------------
(***************************************************************************)
(* internal/channel/imessage/imessage.go: the webhook's request handlers,  *)
(* each in a goroutine of its own, and the debounce workers that gather    *)
(* the fragments of a thread and send them to the dispatcher as one        *)
(* message.  MessageBus composes them with the dispatcher and the other    *)
(* listeners, with which they share the bus.                               *)
(*                                                                         *)
(* A step is what happens under one lock (seenMu, pendMu) or at one        *)
(* select.  The debounce timer may expire at any time after it was set.    *)
(* Requests that the filters reject (password, type, sender, tag, empty    *)
(* text) reach no worker and are left out, as is the text of a message.    *)
(***************************************************************************)
EXTENDS Naturals, Sequences, SequencesExt

CONSTANTS
    Fragments,   \* the messages owners send
    ThreadOf,    \* fragment -> the chat it belongs to
    Unnamed,     \* the fragments whose payload has no GUID
    Requests,    \* bound: the posts of BlueBubbles, <<f, n>> for the n-th of f
    PartsSize,   \* the capacity of a worker's channel
    BusSize,     \* the capacity of the dispatcher's inbound channel
    None         \* no worker

Threads == {ThreadOf[f] : f \in Fragments}

ASSUME IMessageAssumption ==
    /\ Unnamed \subseteq Fragments
    /\ Requests \subseteq Fragments \X Nat
    /\ PartsSize \in Nat \ {0} /\ BusSize \in Nat \ {0}
    /\ None \notin Requests

VARIABLES
    inbound,   \* the dispatcher's channel: the messages in it
    closed,    \* it has been closed
    stopped,   \* the listeners' context is cancelled
    panicked,  \* a goroutine sent on the closed channel: the process is dead
    seenIDs,   \* Channel.seenIDs
    pending,   \* Channel.pending: thread -> its worker
    request,   \* request -> its handler
    worker,    \* request -> the worker its handler started, if any
    accepted   \* the fragments put into workers' channels (not in the code)

busVars == <<inbound, closed, stopped, panicked>>
imessageVars == <<seenIDs, pending, request, worker, accepted>>

HandlerPC == {"none", "accepted", "putting", "answered"}
WorkerPC == {"none", "gathering", "sending", "leaving", "gone"}

NoHandler == [pc |-> "none", worker |-> None]
NoWorker == [pc |-> "none", queue |-> <<>>, parts |-> <<>>, timer |-> FALSE]

InitIMessage ==
    /\ seenIDs = {}
    /\ pending = [t \in Threads |-> None]
    /\ request = [r \in Requests |-> NoHandler]
    /\ worker = [r \in Requests |-> NoWorker]
    /\ accepted = <<>>

-----------------------------------------------------------------------------
(* The bus, as every sender sees it: a select on the send and on the       *)
(* listeners' context.  A send on a closed channel panics.                 *)

\* Bug for the checks: the capacity of the channel is not respected.
Push_Unbounded(msg) ==
    /\ ~closed
    /\ inbound' = Append(inbound, msg)
    /\ UNCHANGED <<closed, stopped, panicked>>

Push(msg) ==
    /\ ~closed
    /\ Len(inbound) < BusSize
    /\ inbound' = Append(inbound, msg)
    /\ UNCHANGED <<closed, stopped, panicked>>

PushPanics ==
    /\ closed
    /\ panicked' = TRUE
    /\ UNCHANGED <<inbound, closed, stopped>>

-----------------------------------------------------------------------------
(* makeHandler and enqueue.                                                *)

\* Bug for the checks: replays are not recognised.
Duplicate_Never(f) == FALSE

Duplicate(f) == f \notin Unnamed /\ f \in seenIDs

Answered(r) == [request EXCEPT ![r] = [pc |-> "answered", worker |-> None]]

\* A request is accepted unless its GUID was seen before.
Receive(r) ==
    /\ ~panicked /\ request[r].pc = "none"
    /\ request' = IF Duplicate(r[1]) THEN Answered(r)
                  ELSE [request EXCEPT ![r].pc = "accepted"]
    /\ seenIDs' = seenIDs \cup ({r[1]} \ Unnamed)
    /\ UNCHANGED <<busVars, pending, worker, accepted>>

\* Bug for the checks: every fragment gets a worker of its own.
WorkerFor_Fresh(r) == r

\* The worker of the fragment's thread, or a new one.
WorkerFor(r) ==
    LET t == ThreadOf[r[1]] IN IF pending[t] # None THEN pending[t] ELSE r

Enqueue(r) ==
    LET w == WorkerFor(r)
    IN  /\ ~panicked /\ request[r].pc = "accepted"
        /\ request' = [request EXCEPT ![r] = [pc |-> "putting", worker |-> w]]
        /\ pending' = [pending EXCEPT ![ThreadOf[r[1]]] = w]
        /\ worker' = IF w = r THEN [worker EXCEPT ![r].pc = "gathering"] ELSE worker
        /\ UNCHANGED <<busVars, seenIDs, accepted>>

\* The handler puts the fragment into the channel it found.
Put(r) ==
    LET w == request[r].worker
    IN  /\ ~panicked /\ request[r].pc = "putting"
        /\ Len(worker[w].queue) < PartsSize
        /\ worker' = [worker EXCEPT ![w].queue = Append(@, r[1])]
        /\ request' = Answered(r)
        /\ accepted' = Append(accepted, r[1])
        /\ UNCHANGED <<busVars, seenIDs, pending>>

PutStops(r) ==
    /\ ~panicked /\ request[r].pc = "putting"
    /\ stopped
    /\ request' = Answered(r)
    /\ UNCHANGED <<busVars, seenIDs, pending, worker, accepted>>

Handle(r) == Enqueue(r) \/ Put(r) \/ PutStops(r)

-----------------------------------------------------------------------------
(* debounceWorker.                                                         *)

\* Bug for the checks: the timer is not set.
Gathered_NoTimer(w) ==
    [worker[w] EXCEPT !.queue = Tail(@), !.parts = Append(@, Head(worker[w].queue))]

Gathered(w) ==
    [worker[w] EXCEPT !.queue = Tail(@), !.parts = Append(@, Head(worker[w].queue)),
                      !.timer = TRUE]

Gather(w) ==
    /\ ~panicked /\ worker[w].pc = "gathering"
    /\ worker[w].queue # <<>>
    /\ worker' = [worker EXCEPT ![w] = Gathered(w)]
    /\ UNCHANGED <<busVars, seenIDs, pending, request, accepted>>

\* The delay has passed without a fragment, or with one that came as late.
TimerFires(w) ==
    /\ ~panicked /\ worker[w].pc = "gathering"
    /\ worker[w].timer
    /\ worker' = [worker EXCEPT ![w].pc = "sending"]
    /\ UNCHANGED <<busVars, seenIDs, pending, request, accepted>>

\* The worker is done with its parts, sent or not.
Discharged(w) ==
    [worker EXCEPT ![w].pc = "leaving", ![w].parts = <<>>, ![w].timer = FALSE]

SendParts(w) ==
    /\ ~panicked /\ worker[w].pc = "sending"
    /\ Push([channel |-> "imessage", body |-> worker[w].parts])
    /\ worker' = Discharged(w)
    /\ UNCHANGED <<seenIDs, pending, request, accepted>>

SendPartsPanics(w) ==
    /\ ~panicked /\ worker[w].pc = "sending"
    /\ PushPanics
    /\ UNCHANGED imessageVars

WorkerStops(w) ==
    /\ ~panicked /\ worker[w].pc \in {"gathering", "sending"}
    /\ stopped
    /\ worker' = Discharged(w)
    /\ UNCHANGED <<busVars, seenIDs, pending, request, accepted>>

\* The deferred clean-up, after which the worker's channel is unreachable but
\* for the handlers that already hold it.
Leave(w) ==
    LET t == ThreadOf[w[1]]
    IN  /\ ~panicked /\ worker[w].pc = "leaving"
        /\ worker' = [worker EXCEPT ![w].pc = "gone"]
        /\ pending' = [pending EXCEPT ![t] = IF @ = w THEN None ELSE @]
        /\ UNCHANGED <<busVars, seenIDs, request, accepted>>

Work(w) ==
    \/ Gather(w) \/ TimerFires(w)
    \/ SendParts(w) \/ SendPartsPanics(w) \/ WorkerStops(w)
    \/ Leave(w)
=============================================================================
