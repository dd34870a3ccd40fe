----------------------------- MODULE ChangeFeed -----------------------------
(* How a change in the engine's store reaches a connected client: the event bus
   and the event loop (internal/engine/events.go, mcp.go), the session channel
   and its dispatcher, the socket, the client's read loop and pending requests
   (transport/uds_client.go), and the adapter's debounced callback (adapter.go).
   Nothing on the way carries data: a signal makes the client read again, and
   signals are dropped wherever one is pending already. *)
EXTENDS Naturals, Sequences, SequencesExt

CONSTANTS Event,        \* notifications_changed, enrichment_updated
          Client,
          ChanCap,      \* capacity of a session's channel (100)
          MaxChanges    \* bound on changes of the store

ASSUME FeedAssumption ==
    ChanCap \in Nat \ {0} /\ MaxChanges \in Nat

VARIABLES version, writing,         \* the store; events of commits not yet published
          subscribed, signal, loop, \* the bus: subscribers, their channels, the event loop
          session, chan, handling,  \* the server: sessions, queued signals, the request served
          up, down, serverOpen,     \* the socket, in either direction
          request, pending, answer, reader, connOpen,  \* the client's transport
          update, timer, callback, shutdown,           \* the adapter
          wants, known,             \* the client: a reload is due; what it shows
          missed                    \* history: clients whose feed has had a hole

bus == <<version, writing, subscribed, signal, loop>>
server == <<session, chan, handling>>
wires == <<up, down, serverOpen>>
transport == <<request, pending, answer, reader, connOpen>>
adapter == <<update, timer, callback, shutdown>>
client == <<wants, known>>
vars == <<version, writing, subscribed, signal, loop, session, chan, handling, up, down,
          serverOpen, request, pending, answer, reader, connOpen, update, timer, callback,
          shutdown, wants, known, missed>>

Version == 0 .. MaxChanges
NoAnswer == MaxChanges + 1
Lost == MaxChanges + 2
Signal == MaxChanges + 3    \* on the wire, beside the responses: versions

TypeOK ==
    /\ version \in 0 .. MaxChanges /\ writing \in [Event -> 0 .. MaxChanges]
    /\ subscribed \subseteq Event /\ signal \subseteq subscribed
    /\ loop \in {"idle", "push"}
    /\ session \in [Client -> {"none", "registered", "initialized"}]
    /\ chan \in [Client -> 0 .. ChanCap]
    /\ handling \in [Client -> Version \cup {NoAnswer}]
    /\ up \in [Client -> BOOLEAN]
    /\ down \in [Client -> Seq(Version \cup {Signal})]
    /\ serverOpen \in BOOLEAN
    /\ request \in [Client -> {"idle", "stored", "sent"}]
    /\ pending \in [Client -> BOOLEAN]
    /\ answer \in [Client -> 0 .. Lost]
    /\ reader \in [Client -> {"off", "reading", "clearing", "ended"}]
    /\ connOpen \in [Client -> BOOLEAN]
    /\ update \in [Client -> {"none", "checked"}]
    /\ timer \in [Client -> BOOLEAN] /\ callback \in [Client -> BOOLEAN]
    /\ shutdown \in [Client -> {"no", "stored", "done"}]
    /\ wants \in [Client -> BOOLEAN] /\ known \in [Client -> 0 .. MaxChanges]
    /\ missed \subseteq Client

Init ==
    /\ version = 0 /\ writing = [e \in Event |-> 0]
    /\ subscribed = {} /\ signal = {} /\ loop = "idle"
    /\ session = [c \in Client |-> "none"] /\ chan = [c \in Client |-> 0]
    /\ handling = [c \in Client |-> NoAnswer]
    /\ up = [c \in Client |-> FALSE] /\ down = [c \in Client |-> <<>>] /\ serverOpen = TRUE
    /\ request = [c \in Client |-> "idle"]
    /\ pending = [c \in Client |-> FALSE]
    /\ answer = [c \in Client |-> NoAnswer]
    /\ reader = [c \in Client |-> "off"] /\ connOpen = [c \in Client |-> FALSE]
    /\ update = [c \in Client |-> "none"] /\ timer = [c \in Client |-> FALSE]
    /\ callback = [c \in Client |-> FALSE] /\ shutdown = [c \in Client |-> "no"]
    /\ wants = [c \in Client |-> FALSE] /\ known = [c \in Client |-> 0]
    /\ missed = {}

-----------------------------------------------------------------------------
(* The engine: a service commits, then calls its hook *)

Commit(e) ==
    /\ serverOpen /\ version < MaxChanges
    /\ version' = version + 1
    /\ writing' = [writing EXCEPT ![e] = @ + 1]
    /\ UNCHANGED <<subscribed, signal, loop, server, wires, transport, adapter, client, missed>>

(* The channel of a subscriber holds one signal; a second is dropped, and so is
   one that comes before the event loop has subscribed. *)
Publish(e) ==
    /\ serverOpen /\ writing[e] > 0
    /\ writing' = [writing EXCEPT ![e] = @ - 1]
    /\ signal' = IF e \in subscribed THEN signal \cup {e} ELSE signal
    /\ missed' = IF e \in subscribed THEN missed ELSE Client
    /\ UNCHANGED <<version, subscribed, loop, server, wires, transport, adapter, client>>

(* The services write enrichment that is not published: the enrich_notification
   tool calls the enricher, and only the backend's method has the hook. *)
CommitSilently ==
    /\ serverOpen /\ version < MaxChanges
    /\ version' = version + 1 /\ missed' = Client
    /\ UNCHANGED <<writing, subscribed, signal, loop, server, wires, transport, adapter, client>>

Subscribe(e) ==
    /\ serverOpen /\ e \notin subscribed
    /\ subscribed' = subscribed \cup {e}
    /\ UNCHANGED <<version, writing, signal, loop, server, wires, transport, adapter, client, missed>>

EventLoop(e) ==
    /\ serverOpen /\ subscribed = Event /\ loop = "idle" /\ e \in signal
    /\ signal' = signal \ {e} /\ loop' = "push"
    /\ UNCHANGED <<version, writing, subscribed, server, wires, transport, adapter, client, missed>>

NotifyFull ==
    /\ serverOpen /\ loop = "push"
    /\ loop' = "idle"
    /\ chan' = [c \in Client |-> IF session[c] = "initialized" /\ chan[c] <= ChanCap
                                 THEN chan[c] + 1 ELSE chan[c]]
    /\ UNCHANGED <<version, writing, subscribed, signal, session, handling, wires, transport,
                   adapter, client, missed>>

(* SendNotificationToAllClients: initialized sessions only, never waiting. *)
NotifyClients ==
    /\ serverOpen /\ loop = "push"
    /\ loop' = "idle"
    /\ chan' = [c \in Client |-> IF session[c] = "initialized" /\ chan[c] < ChanCap
                                 THEN chan[c] + 1 ELSE chan[c]]
    /\ UNCHANGED <<version, writing, subscribed, signal, session, handling, wires, transport,
                   adapter, client, missed>>

DispatchUnlessBusy(c) ==
    /\ serverOpen /\ chan[c] > 0
    /\ chan' = [chan EXCEPT ![c] = @ - 1]
    /\ down' = [down EXCEPT ![c] = IF handling[c] = NoAnswer THEN Append(@, Signal) ELSE @]
    /\ UNCHANGED <<bus, session, handling, up, serverOpen, transport, adapter, client, missed>>

Dispatch(c) ==
    /\ serverOpen /\ chan[c] > 0
    /\ chan' = [chan EXCEPT ![c] = @ - 1]
    /\ down' = [down EXCEPT ![c] = Append(@, Signal)]
    /\ UNCHANGED <<bus, session, handling, up, serverOpen, transport, adapter, client, missed>>

(* One request of a connection at a time: it reads the store, and later writes
   its response, while the dispatcher may write in between. *)
HandleMessage(c) ==
    /\ serverOpen /\ handling[c] = NoAnswer /\ up[c]
    /\ handling' = [handling EXCEPT ![c] = version]
    /\ up' = [up EXCEPT ![c] = FALSE]
    /\ UNCHANGED <<bus, session, chan, down, serverOpen, transport, adapter, client, missed>>

Respond(c) ==
    /\ serverOpen /\ handling[c] # NoAnswer
    /\ down' = [down EXCEPT ![c] = Append(@, handling[c])]
    /\ handling' = [handling EXCEPT ![c] = NoAnswer]
    /\ UNCHANGED <<bus, session, chan, up, serverOpen, transport, adapter, client, missed>>

(* The engine ends, or crashes: what it has written can still be read. *)
EngineEnds ==
    /\ serverOpen
    /\ serverOpen' = FALSE
    /\ up' = [c \in Client |-> FALSE]
    /\ handling' = [c \in Client |-> NoAnswer]
    /\ missed' = Client
    /\ UNCHANGED <<bus, session, chan, down, transport, adapter, client>>

-----------------------------------------------------------------------------
(* The client's transport *)

Connect(c) ==
    /\ serverOpen /\ session[c] = "none"
    /\ session' = [session EXCEPT ![c] = "registered"]
    /\ connOpen' = [connOpen EXCEPT ![c] = TRUE]
    /\ reader' = [reader EXCEPT ![c] = "reading"]
    /\ UNCHANGED <<bus, chan, handling, wires, request, pending, answer, adapter, client, missed>>

(* The handshake; the TUI's first load follows it. *)
Initialize(c) ==
    /\ serverOpen /\ session[c] = "registered"
    /\ session' = [session EXCEPT ![c] = "initialized"]
    /\ wants' = [wants EXCEPT ![c] = TRUE]
    /\ UNCHANGED <<bus, chan, handling, wires, transport, adapter, known, missed>>

(* A request ID is used once: nothing of an earlier request is left. *)
IDUnused(c) ==
    /\ ~up[c] /\ handling[c] = NoAnswer /\ answer[c] = NoAnswer
    /\ \A i \in 1 .. Len(down[c]) : down[c][i] = Signal

Store(c) ==
    /\ wants[c] /\ session[c] = "initialized" /\ request[c] = "idle" /\ IDUnused(c)
    /\ wants' = [wants EXCEPT ![c] = FALSE]
    /\ request' = [request EXCEPT ![c] = "stored"]
    /\ pending' = [pending EXCEPT ![c] = TRUE]
    /\ UNCHANGED <<bus, server, wires, answer, reader, connOpen, adapter, known, missed>>

Write(c) ==
    /\ request[c] = "stored"
    /\ IF serverOpen /\ connOpen[c]
       THEN /\ request' = [request EXCEPT ![c] = "sent"]
            /\ up' = [up EXCEPT ![c] = TRUE]
            /\ UNCHANGED <<pending, answer, missed>>
       ELSE /\ request' = [request EXCEPT ![c] = "idle"]
            /\ pending' = [pending EXCEPT ![c] = FALSE]
            /\ answer' = [answer EXCEPT ![c] = NoAnswer]
            /\ missed' = missed \cup {c}
            /\ UNCHANGED up
    /\ UNCHANGED <<bus, server, down, serverOpen, reader, connOpen, adapter, client>>

(* The read loop.  A response nobody waits for any more is dropped. *)
ReadResponse(c) ==
    /\ reader[c] = "reading" /\ update[c] = "none" /\ down[c] # <<>> /\ Head(down[c]) # Signal
    /\ answer' = [answer EXCEPT ![c] = IF pending[c] THEN Head(down[c]) ELSE @]
    /\ pending' = [pending EXCEPT ![c] = FALSE]
    /\ down' = [down EXCEPT ![c] = Tail(@)]
    /\ UNCHANGED <<bus, server, up, serverOpen, request, reader, connOpen, adapter, client, missed>>

ClearPendingUnanswered(c) ==
    /\ reader[c] = "clearing"
    /\ pending' = [pending EXCEPT ![c] = FALSE]
    /\ reader' = [reader EXCEPT ![c] = "ended"]
    /\ UNCHANGED <<bus, server, wires, request, answer, connOpen, adapter, client, missed>>

ReadEnds(c) ==
    /\ reader[c] = "reading" /\ update[c] = "none"
    /\ ~connOpen[c] \/ (~serverOpen /\ down[c] = <<>>)
    /\ reader' = [reader EXCEPT ![c] = "clearing"]
    /\ UNCHANGED <<bus, server, wires, request, pending, answer, connOpen, adapter, client, missed>>

ClearPending(c) ==
    /\ reader[c] = "clearing"
    /\ answer' = [answer EXCEPT ![c] = IF pending[c] THEN Lost ELSE @]
    /\ pending' = [pending EXCEPT ![c] = FALSE]
    /\ reader' = [reader EXCEPT ![c] = "ended"]
    /\ UNCHANGED <<bus, server, wires, request, connOpen, adapter, client, missed>>

Receive(c) ==
    /\ request[c] = "sent" /\ answer[c] # NoAnswer
    /\ request' = [request EXCEPT ![c] = "idle"]
    /\ answer' = [answer EXCEPT ![c] = NoAnswer]
    /\ known' = [known EXCEPT ![c] = IF answer[c] = Lost THEN @ ELSE answer[c]]
    /\ missed' = IF answer[c] = Lost THEN missed \cup {c} ELSE missed
    /\ UNCHANGED <<bus, server, wires, pending, reader, connOpen, adapter, wants>>

(* The context of the caller ends: its response is dropped when it comes. *)
GiveUp(c) ==
    /\ request[c] = "sent"
    /\ request' = [request EXCEPT ![c] = "idle"]
    /\ pending' = [pending EXCEPT ![c] = FALSE]
    /\ answer' = [answer EXCEPT ![c] = NoAnswer]
    /\ missed' = missed \cup {c}
    /\ UNCHANGED <<bus, server, wires, reader, connOpen, adapter, client>>

Close(c) ==
    /\ connOpen[c]
    /\ connOpen' = [connOpen EXCEPT ![c] = FALSE]
    /\ missed' = missed \cup {c}
    /\ UNCHANGED <<bus, server, wires, request, pending, answer, reader, adapter, client>>

-----------------------------------------------------------------------------
(* The adapter: handleResourceUpdate runs in the read loop, the callback in a
   timer's goroutine *)

ReadSignal(c) ==
    /\ reader[c] = "reading" /\ update[c] = "none" /\ down[c] # <<>> /\ Head(down[c]) = Signal
    /\ down' = [down EXCEPT ![c] = Tail(@)]
    /\ update' = [update EXCEPT ![c] = IF shutdown[c] = "no" THEN "checked" ELSE "none"]
    /\ UNCHANGED <<bus, server, up, serverOpen, transport, timer, callback, shutdown, client, missed>>

ArmUnchecked(c) ==
    /\ update[c] = "checked"
    /\ update' = [update EXCEPT ![c] = "none"]
    /\ timer' = [timer EXCEPT ![c] = TRUE]
    /\ UNCHANGED <<bus, server, wires, transport, callback, shutdown, client, missed>>

ArmStopped(c) ==
    /\ update[c] = "checked"
    /\ update' = [update EXCEPT ![c] = "none"]
    /\ timer' = [timer EXCEPT ![c] = shutdown[c] = "no" /\ ~@]
    /\ UNCHANGED <<bus, server, wires, transport, callback, shutdown, client, missed>>

(* Under debounceMu; shutdown is looked at once more. *)
Arm(c) ==
    /\ update[c] = "checked"
    /\ update' = [update EXCEPT ![c] = "none"]
    /\ timer' = [timer EXCEPT ![c] = shutdown[c] = "no" \/ @]
    /\ UNCHANGED <<bus, server, wires, transport, callback, shutdown, client, missed>>

TimerFires(c) ==
    /\ timer[c] /\ ~callback[c]
    /\ timer' = [timer EXCEPT ![c] = FALSE]
    /\ callback' = [callback EXCEPT ![c] = shutdown[c] = "no"]
    /\ UNCHANGED <<bus, server, wires, transport, update, shutdown, client, missed>>

OnMutation(c) ==
    /\ callback[c]
    /\ callback' = [callback EXCEPT ![c] = FALSE]
    /\ wants' = [wants EXCEPT ![c] = TRUE]
    /\ UNCHANGED <<bus, server, wires, transport, update, timer, shutdown, known, missed>>

ShutdownBegins(c) ==
    /\ shutdown[c] = "no" /\ session[c] # "none"
    /\ shutdown' = [shutdown EXCEPT ![c] = "stored"]
    /\ missed' = missed \cup {c}
    /\ UNCHANGED <<bus, server, wires, transport, update, timer, callback, client>>

ShutdownStops(c) ==
    /\ shutdown[c] = "stored"
    /\ shutdown' = [shutdown EXCEPT ![c] = "done"]
    /\ timer' = [timer EXCEPT ![c] = FALSE]
    /\ UNCHANGED <<bus, server, wires, transport, update, callback, client, missed>>

-----------------------------------------------------------------------------
EngineRuns ==
    \/ \E e \in Event : Publish(e) \/ Subscribe(e) \/ EventLoop(e)
    \/ NotifyClients
    \/ \E c \in Client : Dispatch(c) \/ HandleMessage(c) \/ Respond(c)

ReadLoop(c) == ReadResponse(c) \/ ReadSignal(c) \/ Arm(c) \/ ReadEnds(c) \/ ClearPending(c)
Debounce(c) == TimerFires(c) \/ OnMutation(c)
Send(c) == Write(c) \/ Receive(c)

Next ==
    \/ EngineRuns \/ CommitSilently \/ EngineEnds
    \/ \E e \in Event : Commit(e)
    \/ \E c \in Client :
        \/ Connect(c) \/ Initialize(c) \/ Close(c) \/ ReadLoop(c) \/ Debounce(c)
        \/ ShutdownBegins(c) \/ ShutdownStops(c)
        \/ Store(c) \/ Send(c) \/ GiveUp(c)

Spec == Init /\ [][Next]_vars

(* Goroutines run and a client that wants the list asks for it; commits, new
   connections, time-outs and the ends of engine and client are not assumed. *)
FairSpec ==
    /\ Spec
    /\ \A e \in Event : WF_vars(Publish(e)) /\ WF_vars(Subscribe(e)) /\ SF_vars(EventLoop(e))
    /\ WF_vars(NotifyClients)
    /\ \A c \in Client :
        /\ WF_vars(Dispatch(c)) /\ WF_vars(HandleMessage(c)) /\ WF_vars(Respond(c))
        /\ WF_vars(ReadLoop(c)) /\ WF_vars(Debounce(c)) /\ WF_vars(Store(c)) /\ WF_vars(Send(c))

-----------------------------------------------------------------------------
Listening(c) == session[c] = "initialized" /\ c \notin missed

(* NoLostWakeup: however signals are dropped on full channels, coalesced and
   debounced, a client that shows an old list has a signal, or a reload that
   will read the new one, on its way; unless the change was published before
   the event loop subscribed, was not published, or an end was closed. *)
OnTheWay(c) ==
    \/ \E e \in Event : writing[e] > 0 \/ e \in signal
    \/ loop = "push" \/ chan[c] > 0 \/ update[c] = "checked" \/ timer[c] \/ callback[c] \/ wants[c]
    \/ Contains(down[c], Signal) \/ request[c] = "stored" \/ up[c]
    \/ version \in {handling[c], answer[c]} \/ Contains(down[c], version)
NoLostWakeup == \A c \in Client : Listening(c) /\ known[c] # version => OnTheWay(c)

(* LearnsTheLastChange: a listening client comes to show the last change. *)
LearnsTheLastChange ==
    \A c \in Client : Listening(c) ~> (c \in missed \/ known[c] = version)

(* RequestsEnd: a request that was sent is answered, or failed when the other
   side has gone, without any deadline (SendRequest, clearPendingRequests). *)
RequestsEnd ==
    \A c \in Client : request[c] # "idle" ~> request[c] = "idle"

(* QuietAfterShutdown: no timer is left after the adapter's Shutdown; a callback
   that had passed its check may still run. *)
QuietAfterShutdown == \A c \in Client : shutdown[c] = "done" => ~timer[c]
=============================================================================
