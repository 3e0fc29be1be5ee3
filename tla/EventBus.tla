------------------------------ MODULE EventBus ------------------------------
(***************************************************************************)
(* The web UI's event bus (internal/plugin/webui/events.go) and the        *)
(* /events handlers that read from it (server.go): agents publish, every   *)
(* browser is a client that comes, catches up, streams and leaves.         *)
(*                                                                         *)
(* Publish holds the lock while it appends to the history and copies the   *)
(* clients, and sends after it unlocked: the two are separate actions, and *)
(* so is every send.  An event is its index in `log'; what it says is left *)
(* to Plugins.                                                             *)
(***************************************************************************)
EXTENDS Naturals, SequencesExt

CONSTANTS
    Agents,          \* the agents that publish, each from its own goroutine
    Clients,         \* the /events requests there will be
    HistorySize,     \* events.go's historySize
    ClientChanSize   \* events.go's clientChanSize

ASSUME EventBusAssumption ==
    /\ IsFiniteSet(Clients)
    /\ HistorySize \in Nat /\ ClientChanSize \in Nat \ {0}

VARIABLES
    log,      \* who published which event, in the order of the lock (not in the code)
    history,  \* EventBus.history
    subs,     \* EventBus.clients: those whose channel a Publish copies
    closed,   \* the clients whose channel is closed
    queue,    \* client -> its channel
    sending,  \* the sends that a Publish still has to do
    conn,     \* client -> what its handler has done
    got,      \* client -> what was written to it
    dropped,  \* client -> the events it could not keep up with (not in the code)
    readAt,   \* client -> the length of the log when it read the history (not in the code)
    late,     \* the clients that left with a send to them under way (not in the code)
    crashed   \* a send to a closed channel has panicked

busVars == <<log, history, subs, closed, queue, sending, conn, got, dropped,
             readAt, late, crashed>>

clientVars == <<subs, closed, conn, got, readAt, late>>

Send == [agent : Agents, event : Nat, to : SUBSET Clients]

BusInit ==
    /\ log = <<>>
    /\ history = <<>>
    /\ subs = {}
    /\ closed = {}
    /\ queue = [c \in Clients |-> <<>>]
    /\ sending = {}
    /\ conn = [c \in Clients |-> 0]
    /\ got = [c \in Clients |-> <<>>]
    /\ dropped = [c \in Clients |-> {}]
    /\ readAt = [c \in Clients |-> 0]
    /\ late = {}
    /\ crashed = FALSE

-----------------------------------------------------------------------------
(* Publish.                                                                *)

\* Bug for the checks: every send in a goroutine of its own.
Publishing_Async(a) == FALSE

\* The agent's goroutine is still in Publish.
Publishing(a) == \E s \in sending : s.agent = a

\* The history is cut to its last historySize events.
LastOf(h) == IF Len(h) > HistorySize THEN Tail(h) ELSE h

\* Under the lock: history, and the copy of the clients.
Publish(a) ==
    LET event == Len(log) + 1
    IN  /\ log' = Append(log, a)
        /\ history' = LastOf(Append(history, event))
        /\ sending' = IF subs = {} THEN sending
                      ELSE sending \cup {[agent |-> a, event |-> event, to |-> subs]}
        /\ UNCHANGED <<queue, dropped, crashed>>
        /\ UNCHANGED clientVars

Sent(s, c) ==
    (sending \ {s}) \cup (IF s.to = {c} THEN {} ELSE {[s EXCEPT !.to = @ \ {c}]})

SendFits(s, c) ==
    /\ c \notin closed
    /\ Len(queue[c]) < ClientChanSize
    /\ queue' = [queue EXCEPT ![c] = Append(@, s.event)]
    /\ UNCHANGED <<dropped, crashed>>

\* Bug for the checks: a send that waits for the client.
SendDropped_Blocks(s, c) == FALSE

\* The select's default: the client's channel is full.
SendDropped(s, c) ==
    /\ c \notin closed
    /\ Len(queue[c]) >= ClientChanSize
    /\ dropped' = [dropped EXCEPT ![c] = @ \cup {s.event}]
    /\ UNCHANGED <<queue, crashed>>

\* A send on a closed channel panics, in a select too: the process ends.
SendPanics(s, c) ==
    /\ c \in closed
    /\ crashed' = TRUE
    /\ UNCHANGED <<queue, dropped>>

\* One round of the loop over the copied clients, in the order of a map.
SendOne(a) ==
    \E s \in sending : \E c \in s.to :
        /\ s.agent = a
        /\ sending' = Sent(s, c)
        /\ SendFits(s, c) \/ SendDropped(s, c) \/ SendPanics(s, c)
        /\ UNCHANGED <<log, history>>
        /\ UNCHANGED clientVars

-----------------------------------------------------------------------------
(* handleSSE.                                                              *)

\* Bug for the checks: the history first.
JoinOrder_HistoryFirst == <<"history", "subscribe">>

\* What handleSSE does before it streams.
JoinOrder == <<"subscribe", "history">>

Joins(c, step) == conn[c] < Len(JoinOrder) /\ JoinOrder[conn[c] + 1] = step

Streaming(c) == conn[c] = Len(JoinOrder)

Gone == Len(JoinOrder) + 1

Subscribe(c) ==
    /\ Joins(c, "subscribe")
    /\ subs' = subs \cup {c}
    /\ conn' = [conn EXCEPT ![c] = @ + 1]
    /\ UNCHANGED <<log, history, closed, queue, sending, got, dropped, readAt, late, crashed>>

\* History() copies under the read lock; the copy is written to the client.
CatchUp(c) ==
    /\ Joins(c, "history")
    /\ got' = [got EXCEPT ![c] = history]
    /\ readAt' = [readAt EXCEPT ![c] = Len(log)]
    /\ conn' = [conn EXCEPT ![c] = @ + 1]
    /\ UNCHANGED <<log, history, subs, closed, queue, sending, dropped, late, crashed>>

Stream(c) ==
    /\ Streaming(c)
    /\ queue[c] # <<>>
    /\ got' = [got EXCEPT ![c] = Append(@, Head(queue[c]))]
    /\ queue' = [queue EXCEPT ![c] = Tail(@)]
    /\ UNCHANGED <<log, history, subs, closed, sending, conn, dropped, readAt, late, crashed>>

\* Bug for the checks: the channel is closed but stays in the map.
Unsubscribe_KeepsClient(c) ==
    /\ closed' = closed \cup {c}
    /\ subs' = subs

Unsubscribe(c) ==
    /\ closed' = closed \cup {c}
    /\ subs' = subs \ {c}

\* The request's context ends; the deferred Unsubscribe runs.
Leave(c) ==
    /\ Streaming(c)
    /\ Unsubscribe(c)
    /\ conn' = [conn EXCEPT ![c] = Gone]
    /\ late' = IF \E s \in sending : c \in s.to THEN late \cup {c} ELSE late
    /\ UNCHANGED <<log, history, queue, sending, got, dropped, readAt, crashed>>

ClientStep(c) == Subscribe(c) \/ CatchUp(c) \/ Stream(c) \/ Leave(c)

-----------------------------------------------------------------------------
(* Properties.                                                             *)

OnTheWay(c) == {s.event : s \in {t \in sending : c \in t.to}}

\* A browser misses nothing when it joins while agents work: it has, or will
\* get, the events its history went back to and every later one, but for those
\* it could not keep up with (events.go: "Client can't keep up; drop the event.").
NothingMissed ==
    \A c \in Clients : Streaming(c) =>
        \A i \in DOMAIN log :
            i + HistorySize > readAt[c] =>
                i \in Range(got[c]) \cup Range(queue[c]) \cup dropped[c] \cup OnTheWay(c)

\* What the client got and will get from its channel.
Seen(c) == got[c] \o queue[c]

\* However the sends of two agents interleave, a browser sees the events of
\* one agent in the order they happened: a tool's end never before its start.
\* (Past its history, which repeats events that were on the way to it.)
AgentOrderKept ==
    \A c \in Clients : \A i, j \in DOMAIN Seen(c) :
        LET e == Seen(c)[i]
            f == Seen(c)[j]
        IN  i < j /\ e > readAt[c] /\ f > readAt[c] /\ log[e] = log[f] => e < f

\* The process dies of a send only after some browser left between the copy of
\* the clients and the send to it: as long as none does, no channel in use is
\* closed.
PanicNeedsALateLeaver == crashed => late # {}

\* A browser that stops reading never holds up an agent.
PublishEnds ==
    \A a \in Agents : Publishing(a) ~> ~Publishing(a) \/ crashed
=============================================================================
