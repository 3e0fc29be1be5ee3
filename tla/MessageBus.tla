----------------------------- MODULE MessageBus -----------------------------
(***************************************************************************)
(* Dispatcher.Run (internal/channel/dispatcher.go) with the listeners it   *)
(* starts: the terminal (cli), the scheduler's channel (sched), Discord    *)
(* and iMessage.  They share one bounded channel, which the dispatcher     *)
(* empties one message, that is one turn, at a time.  The first listener   *)
(* that returns cancels the context of the others; when all have returned  *)
(* the channel is closed, and Run returns once it is empty.                *)
(*                                                                         *)
(* What a turn does is AgentTurn's subject; here it is one step, which may *)
(* come as late as it likes.  The context that main passes to Run is not   *)
(* cancelled before Run returns.                                           *)
(***************************************************************************)
EXTENDS IMessage, FiniteSetsExt

CONSTANTS
    Listeners,       \* the channels that are configured
    MaxItems,        \* bound: the lines typed, and the events delivered
    DiscordMessages  \* the messages owners send on Discord

\* The channels that take one item and push it before they take the next: the
\* lines of the terminal, the events of the scheduler.
Sequential == {"cli", "sched"}

ASSUME MessageBusAssumption ==
    /\ Listeners \subseteq Sequential \cup {"discord", "imessage"}
    /\ MaxItems \in Nat

VARIABLES
    listener,    \* listener -> what its Listen is doing
    taken,       \* sequential listener -> how many items it has taken
    ended,       \* the terminal's Listen returned because the input ended
    handler,     \* Discord message -> its handler's goroutine
    returned,    \* Run has returned
    processed    \* listener -> the items it brought that were taken, in order

listenerVars == <<listener, taken, ended, handler>>
vars == <<busVars, imessageVars, listenerVars, returned, processed>>

Init ==
    /\ inbound = <<>>
    /\ closed = FALSE
    /\ stopped = FALSE
    /\ panicked = FALSE
    /\ InitIMessage
    /\ listener = [l \in Listeners |-> "listening"]
    /\ taken = [l \in Sequential |-> 0]
    /\ ended = FALSE
    /\ handler = [m \in DiscordMessages |-> "none"]
    /\ returned = FALSE
    /\ processed = [l \in Listeners |-> <<>>]

-----------------------------------------------------------------------------
(* The listeners.                                                          *)

\* Bug for the checks: a listener that returns leaves the others running.
Cancel_Never == UNCHANGED stopped

\* The deferred cancel of a listener's goroutine.
Cancel == stopped' = TRUE

Returns(l) ==
    /\ listener' = [listener EXCEPT ![l] = "returned"]
    /\ Cancel
    /\ UNCHANGED <<inbound, closed, panicked, imessageVars, returned, processed>>

\* A listener notices, at its select, that its context is cancelled.
\* iMessage's then waits for its handlers, but no longer than five seconds,
\* and Discord's closes the gateway.
ListenerStops(l) ==
    /\ ~panicked /\ stopped
    /\ listener[l] # "returned"
    /\ Returns(l)
    /\ UNCHANGED <<taken, ended, handler>>

\* The gateway does not open, or the webhook's server gives up.
ListenerFails(l) ==
    /\ ~panicked
    /\ \/ l = "discord" /\ \A m \in DiscordMessages : handler[m] = "none"
       \/ l = "imessage"
    /\ listener[l] = "listening"
    /\ Returns(l)
    /\ UNCHANGED <<taken, ended, handler>>

\* A line that is not blank is read, or an event taken from the scheduler
\* (inside the active hours if it is a heartbeat).
TakeItem(l) ==
    /\ ~panicked /\ l \in Sequential
    /\ listener[l] = "listening"
    /\ taken[l] < MaxItems
    /\ taken' = [taken EXCEPT ![l] = @ + 1]
    /\ listener' = [listener EXCEPT ![l] = "pushing"]
    /\ UNCHANGED <<busVars, imessageVars, ended, handler, returned, processed>>

PushItem(l) ==
    /\ ~panicked /\ l \in Sequential
    /\ listener[l] = "pushing"
    /\ Push([channel |-> l, body |-> <<taken[l]>>])
    /\ listener' = [listener EXCEPT ![l] = "listening"]
    /\ UNCHANGED <<imessageVars, taken, ended, handler, returned, processed>>

\* Ctrl-D, or the prompt cannot be written.
EndOfInput ==
    /\ ~panicked
    /\ "cli" \in Listeners /\ listener["cli"] = "listening"
    /\ Returns("cli")
    /\ ended' = TRUE
    /\ UNCHANGED <<taken, handler>>

\* Discord: the library runs the handler of an accepted message in a goroutine
\* of its own, which Close does not wait for.
DiscordReceive(m) ==
    /\ ~panicked
    /\ "discord" \in Listeners /\ listener["discord"] = "listening"
    /\ handler[m] = "none"
    /\ handler' = [handler EXCEPT ![m] = "pushing"]
    /\ UNCHANGED <<busVars, imessageVars, listener, taken, ended, returned, processed>>

DiscordHandle(m) ==
    /\ ~panicked /\ handler[m] = "pushing"
    /\ handler' = [handler EXCEPT ![m] = "returned"]
    /\ \/ Push([channel |-> "discord", body |-> <<m>>])
       \/ PushPanics
       \/ stopped /\ UNCHANGED busVars
    /\ UNCHANGED <<imessageVars, listener, taken, ended, returned, processed>>

\* iMessage: the server takes requests until it is shut down.
WebhookReceive(r) ==
    /\ "imessage" \in Listeners /\ listener["imessage"] = "listening"
    /\ Receive(r)
    /\ UNCHANGED <<listenerVars, returned, processed>>

WebhookHandle(r) == Handle(r) /\ UNCHANGED <<listenerVars, returned, processed>>

Debounce(w) == Work(w) /\ UNCHANGED <<listenerVars, returned, processed>>

-----------------------------------------------------------------------------
(* Dispatcher.Run.                                                         *)

\* The goroutine that waits for the listeners.
Close ==
    /\ ~panicked /\ ~closed
    /\ \A l \in Listeners : listener[l] = "returned"
    /\ closed' = TRUE
    /\ UNCHANGED <<inbound, stopped, panicked, imessageVars, listenerVars,
                   returned, processed>>

\* A message is taken, and process() runs its turn.
Take ==
    /\ ~panicked /\ ~returned
    /\ inbound # <<>>
    /\ inbound' = Tail(inbound)
    /\ processed' = [processed EXCEPT ![Head(inbound).channel] = @ \o Head(inbound).body]
    /\ UNCHANGED <<closed, stopped, panicked, imessageVars, listenerVars, returned>>

\* Bug for the checks: Run returns as soon as the context is cancelled.
Drained_Cancelled == stopped

\* The receive from the channel reports that it is closed, and empty.
Drained == closed /\ inbound = <<>>

RunReturns ==
    /\ ~panicked /\ ~returned
    /\ Drained
    /\ returned' = TRUE
    /\ UNCHANGED <<busVars, imessageVars, listenerVars, processed>>

Next ==
    \/ \E l \in Listeners :
           TakeItem(l) \/ PushItem(l) \/ ListenerFails(l) \/ ListenerStops(l)
    \/ EndOfInput
    \/ \E m \in DiscordMessages : DiscordReceive(m) \/ DiscordHandle(m)
    \/ \E r \in Requests : WebhookReceive(r) \/ WebhookHandle(r) \/ Debounce(r)
    \/ Close
    \/ Take
    \/ RunReturns

Spec == Init /\ [][Next]_vars

\* Goroutines that can take a step do so sooner or later, a timer that was set
\* expires, and a turn ends.  Nothing is assumed of what comes from outside.
Fairness ==
    /\ WF_vars(\E l \in Listeners : ListenerStops(l) \/ PushItem(l))
    /\ WF_vars(\E m \in DiscordMessages : DiscordHandle(m))
    /\ WF_vars(\E r \in Requests : WebhookHandle(r) \/ Debounce(r))
    /\ WF_vars(Close)
    /\ WF_vars(Take \/ RunReturns)

FairSpec == Spec /\ Fairness

-----------------------------------------------------------------------------
(* Properties.                                                             *)

Items == Nat \cup DiscordMessages \cup Fragments

Message == [channel : Listeners, body : Seq(Items)]

BusOK ==
    /\ inbound \in Seq(Message) /\ Len(inbound) <= BusSize
    /\ closed \in BOOLEAN /\ stopped \in BOOLEAN /\ panicked \in BOOLEAN

HandlersOK ==
    /\ seenIDs \subseteq Fragments \ Unnamed
    /\ pending \in [Threads -> Requests \cup {None}]
    /\ request \in [Requests -> [pc : HandlerPC, worker : Requests \cup {None}]]
    /\ worker \in [Requests -> [pc : WorkerPC, queue : Seq(Fragments),
                                parts : Seq(Fragments), timer : BOOLEAN]]
    /\ \A w \in Requests : Len(worker[w].queue) <= PartsSize
    /\ accepted \in Seq(Fragments)

ListenersOK ==
    /\ listener \in [Listeners -> {"listening", "pushing", "returned"}]
    /\ taken \in [Sequential -> 0 .. MaxItems]
    /\ ended \in BOOLEAN
    /\ handler \in [DiscordMessages -> {"none", "pushing", "returned"}]

\* The variables stay in their sets.
TypeOK ==
    /\ BusOK /\ HandlersOK /\ ListenersOK
    /\ returned \in BOOLEAN
    /\ processed \in [Listeners -> Seq(Items)]

\* x comes before y in s.
Precedes(x, y, s) == \E i, j \in DOMAIN s : i < j /\ s[i] = x /\ s[j] = y

\* A thread has one worker at work at a time, the one that fragments are
\* routed to.
OneWorkerPerThread ==
    \A w \in Requests :
        worker[w].pc \in {"gathering", "sending"} => pending[ThreadOf[w[1]]] = w

\* Fragments of a thread reach the dispatcher in the order in which they were
\* accepted, within a message and over several, and none of them twice, though
\* BlueBubbles replays (imessage.go: "Drop any message whose GUID we have
\* already dispatched this session").
FragmentsInOrder ==
    "imessage" \in Listeners =>
    LET went == processed["imessage"]
    IN  \A f, g \in Range(went) \ Unnamed :
            /\ ~Precedes(f, f, went)
            /\ ThreadOf[f] = ThreadOf[g] /\ Precedes(f, g, accepted) => Precedes(f, g, went)

\* What is typed before Ctrl-D is answered before the process ends: Run does
\* not return while lines are on the bus.
LinesAnswered ==
    ended /\ returned
        => processed["cli"] = [i \in 1 .. taken["cli"] |-> i]

\* Once any listener has returned, Run returns too (dispatcher.go: "lets the
\* dispatcher exit cleanly without blocking on long-lived listeners").
RunEnds ==
    (\E l \in Listeners : listener[l] = "returned")
        ~> (returned \/ panicked)

\* A fragment that a worker has gathered reaches the dispatcher, unless the
\* listeners are stopped first.
GatheredIsDispatched ==
    \A f \in Fragments :
        (\E w \in Requests : f \in Range(worker[w].parts))
            ~> (f \in Range(processed["imessage"]) \/ stopped)

\* No fragment is left behind in the channel of a worker that is gone
\* (imessage.go: "Messages that arrive within debounceDelay of each other are
\* accumulated and dispatched as a single combined message").
NoFragmentLeftBehind ==
    \A w \in Requests : worker[w].pc = "gone" /\ ~stopped => worker[w].queue = <<>>
=============================================================================
