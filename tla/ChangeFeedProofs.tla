--------------------------- MODULE ChangeFeedProofs ---------------------------
(* No wakeup is lost between the engine's store and a listening client, proved
   for any number of clients and events, any capacity of the session channels
   and any number of changes. *)
EXTENDS ChangeFeed, TLAPS

USE FeedAssumption

LEMMA Numbers ==
  /\ NoAnswer \in Nat /\ Lost \in Nat /\ Signal \in Nat
  /\ NoAnswer # Lost /\ NoAnswer # Signal /\ Lost # Signal
  /\ \A v \in Version : v \in Nat /\ v # NoAnswer /\ v # Lost /\ v # Signal
  /\ \A a \in 0 .. Lost : a \in Version \/ a = NoAnswer \/ a = Lost
  /\ Version \subseteq 0 .. Lost /\ NoAnswer \in 0 .. Lost /\ Lost \in 0 .. Lost
BY DEF NoAnswer, Lost, Signal, Version

-----------------------------------------------------------------------------
(* What is on a wire *)

Message == Version \cup {Signal}
OnlySignals(s) == \A i \in 1 .. Len(s) : s[i] = Signal
OneResponse(s) == \A i, j \in 1 .. Len(s) : s[i] # Signal /\ s[j] # Signal => i = j

LEMMA Appended ==
  ASSUME NEW s \in Seq(Message), NEW m \in Message
  PROVE  /\ Append(s, m) \in Seq(Message)
         /\ \A x : Contains(Append(s, m), x) <=> Contains(s, x) \/ x = m
<1>1. /\ Append(s, m) \in Seq(Message) /\ Len(s) \in Nat /\ Len(Append(s, m)) = Len(s) + 1
      /\ \A i \in 1 .. Len(s) : Append(s, m)[i] = s[i]
      /\ Append(s, m)[Len(s) + 1] = m
  OBVIOUS
<1>2. \A x : Contains(s, x) \/ x = m => Contains(Append(s, m), x)
  BY <1>1 DEF Contains
<1>3. \A x : Contains(Append(s, m), x) => Contains(s, x) \/ x = m
  <2>1. SUFFICES ASSUME NEW x, NEW i \in 1 .. Len(s) + 1, Append(s, m)[i] = x
                 PROVE  Contains(s, x) \/ x = m
    BY <1>1 DEF Contains
  <2>2. i \in 1 .. Len(s) \/ i = Len(s) + 1
    BY <1>1
  <2>3. QED  BY <1>1, <2>1, <2>2 DEF Contains
<1>4. QED  BY <1>1, <1>2, <1>3

LEMMA AppendedOne ==
  ASSUME NEW s \in Seq(Message), NEW m \in Message, OneResponse(s), m = Signal \/ OnlySignals(s)
  PROVE  OneResponse(Append(s, m))
<1>1. /\ Len(s) \in Nat /\ Len(Append(s, m)) = Len(s) + 1
      /\ \A i \in 1 .. Len(s) : Append(s, m)[i] = s[i]
      /\ Append(s, m)[Len(s) + 1] = m
  OBVIOUS
<1>2. \A i \in 1 .. Len(s) + 1 : i \in 1 .. Len(s) \/ i = Len(s) + 1
  BY <1>1
<1>3. QED  BY <1>1, <1>2 DEF OneResponse, OnlySignals

LEMMA Taken ==
  ASSUME NEW s \in Seq(Message), s # <<>>
  PROVE  /\ Tail(s) \in Seq(Message) /\ Head(s) \in Message
         /\ \A x : Contains(s, x) <=> x = Head(s) \/ Contains(Tail(s), x)
         /\ OneResponse(s) => OneResponse(Tail(s)) /\ (Head(s) # Signal => OnlySignals(Tail(s)))
<1>1. /\ Tail(s) \in Seq(Message) /\ Len(s) \in Nat /\ Len(s) > 0 /\ Len(Tail(s)) = Len(s) - 1
      /\ \A i \in 1 .. Len(s) - 1 : Tail(s)[i] = s[i + 1]
      /\ Head(s) = s[1] /\ Head(s) \in Message
  OBVIOUS
<1>2. \A x : Contains(s, x) => x = Head(s) \/ Contains(Tail(s), x)
  <2>1. SUFFICES ASSUME NEW x, NEW i \in 1 .. Len(s), s[i] = x, i # 1
                 PROVE  Contains(Tail(s), x)
    BY <1>1 DEF Contains
  <2>2. i - 1 \in 1 .. Len(s) - 1 /\ Tail(s)[i - 1] = x
    BY <1>1, <2>1
  <2>3. QED  BY <1>1, <2>2 DEF Contains
<1>3. \A x : x = Head(s) \/ Contains(Tail(s), x) => Contains(s, x)
  <2>1. ASSUME NEW i \in 1 .. Len(s) - 1 PROVE i + 1 \in 1 .. Len(s) /\ s[i + 1] = Tail(s)[i]
    BY <1>1
  <2>2. 1 \in 1 .. Len(s)
    BY <1>1
  <2>3. QED  BY <1>1, <2>1, <2>2 DEF Contains
<1>4. OneResponse(s) => OneResponse(Tail(s)) /\ (Head(s) # Signal => OnlySignals(Tail(s)))
  <2>1. ASSUME NEW i \in 1 .. Len(s) - 1
        PROVE  i + 1 \in 1 .. Len(s) /\ s[i + 1] = Tail(s)[i] /\ i + 1 # 1 /\ i \in Nat
    BY <1>1
  <2>2. 1 \in 1 .. Len(s)
    BY <1>1
  <2>3. QED  BY <1>1, <2>1, <2>2 DEF OneResponse, OnlySignals
<1>5. QED  BY <1>1, <1>2, <1>3, <1>4
-----------------------------------------------------------------------------
(* Types *)

Typed == TypeOK /\ \A e \in Event : writing[e] <= version

EventStep(e) == Commit(e) \/ Publish(e) \/ Subscribe(e) \/ EventLoop(e)
ServerStep(c) == Dispatch(c) \/ HandleMessage(c) \/ Respond(c)
ClientStep(c) ==
    Connect(c) \/ Initialize(c) \/ Close(c) \/ ReadLoop(c) \/ Debounce(c) \/ ShutdownBegins(c)
    \/ ShutdownStops(c) \/ Store(c) \/ Send(c) \/ GiveUp(c)

LEMMA EventTypes ==
  ASSUME Typed, NEW e \in Event, EventStep(e)
  PROVE  Typed'
<1>0. version \in Nat /\ writing \in [Event -> 0 .. MaxChanges]
  BY DEF Typed, TypeOK
<1>1. CASE Commit(e)
  BY <1>0, <1>1 DEF Commit, Typed, TypeOK, server, wires, transport, adapter, client, Version
<1>2. CASE Publish(e)
  BY <1>0, <1>2 DEF Publish, Typed, TypeOK, server, wires, transport, adapter, client, Version
<1>3. CASE Subscribe(e)
  BY <1>0, <1>3 DEF Subscribe, Typed, TypeOK, server, wires, transport, adapter, client, Version
<1>4. CASE EventLoop(e)
  BY <1>0, <1>4 DEF EventLoop, Typed, TypeOK, server, wires, transport, adapter, client, Version
<1>5. QED  BY <1>1, <1>2, <1>3, <1>4 DEF EventStep

LEMMA ServerTypes ==
  ASSUME Typed, NEW c \in Client, ServerStep(c)
  PROVE  Typed'
<1>1. down[c] \in Seq(Message) /\ handling[c] \in Version \cup {NoAnswer}
  BY DEF Typed, TypeOK, Message
<1>2. CASE Dispatch(c)
  <2>1. down' \in [Client -> Seq(Version \cup {Signal})]
    BY <1>1, <1>2 DEF Dispatch, Typed, TypeOK, Message
  <2>2. chan' \in [Client -> 0 .. ChanCap]
    BY <1>2 DEF Dispatch, Typed, TypeOK
  <2>3. QED  BY <1>2, <2>1, <2>2 DEF Dispatch, Typed, TypeOK, bus, transport, adapter, client
<1>3. CASE HandleMessage(c)
  BY <1>3 DEF HandleMessage, Typed, TypeOK, bus, transport, adapter, client, Version
<1>4. CASE Respond(c)
  <2>1. down' \in [Client -> Seq(Version \cup {Signal})]
    BY <1>1, <1>4 DEF Respond, Typed, TypeOK, Message
  <2>2. handling' \in [Client -> Version \cup {NoAnswer}]
    BY <1>4 DEF Respond, Typed, TypeOK
  <2>3. QED  BY <1>4, <2>1, <2>2 DEF Respond, Typed, TypeOK, bus, transport, adapter, client
<1>5. QED  BY <1>2, <1>3, <1>4 DEF ServerStep

LEMMA ClientTypes ==
  ASSUME Typed, NEW c \in Client, ClientStep(c)
  PROVE  Typed'
<1>0. /\ down \in [Client -> Seq(Version \cup {Signal})]
      /\ answer \in [Client -> 0 .. Lost]
  BY DEF Typed, TypeOK
<1>r. ASSUME down[c] # <<>>
      PROVE  /\ [down EXCEPT ![c] = Tail(@)] \in [Client -> Seq(Version \cup {Signal})]
             /\ Head(down[c]) \in Version \cup {Signal}
  <2>1. down[c] \in Seq(Message)
    BY <1>0 DEF Message
  <2>2. Tail(down[c]) \in Seq(Message) /\ Head(down[c]) \in Message
    BY <1>r, <2>1, Taken
  <2>3. QED  BY <1>0, <2>2 DEF Message
<1>1. CASE Connect(c)
  BY <1>1, Numbers DEF Connect, Typed, TypeOK, bus, server, wires, transport, adapter, client
<1>2. CASE Initialize(c)
  BY <1>2, Numbers DEF Initialize, Typed, TypeOK, bus, server, wires, transport, adapter, client
<1>3. CASE Store(c)
  BY <1>3, Numbers DEF Store, Typed, TypeOK, bus, server, wires, transport, adapter, client
<1>4. CASE Write(c)
  <2>1. CASE serverOpen /\ connOpen[c]
    BY <1>4, <2>1 DEF Write, Typed, TypeOK, bus, server, adapter, client
  <2>2. CASE ~(serverOpen /\ connOpen[c])
    <3>1. answer' \in [Client -> 0 .. Lost]
      BY <1>0, <1>4, <2>2, Numbers DEF Write
    <3>2. request' \in [Client -> {"idle", "stored", "sent"}] /\ up' = up
      <4>1. request' = [request EXCEPT ![c] = "idle"] /\ up' = up
        BY <1>4, <2>2 DEF Write
      <4>2. QED  BY <4>1 DEF Typed, TypeOK
    <3>3. pending' \in [Client -> BOOLEAN]
      <4>1. pending' = [pending EXCEPT ![c] = FALSE]
        BY <1>4, <2>2 DEF Write
      <4>2. QED  BY <4>1 DEF Typed, TypeOK
    <3>4. missed' \subseteq Client
      <4>1. missed' = missed \cup {c}
        BY <1>4, <2>2 DEF Write
      <4>2. QED  BY <4>1 DEF Typed, TypeOK
    <3>5. QED  BY <1>4, <3>1, <3>2, <3>3, <3>4 DEF Write, Typed, TypeOK, bus, server, adapter, client
  <2>3. QED  BY <2>1, <2>2
<1>5. CASE ReadResponse(c)
  <2>1. /\ down' \in [Client -> Seq(Version \cup {Signal})]
        /\ Head(down[c]) \in Version \cup {Signal}
    BY <1>r, <1>5 DEF ReadResponse
  <2>2. pending[c] => Head(down[c]) \in 0 .. Lost
    BY <1>5, <2>1, Numbers DEF ReadResponse
  <2>3. answer' \in [Client -> 0 .. Lost]
    BY <1>0, <1>5, <2>2 DEF ReadResponse
  <2>4. pending' \in [Client -> BOOLEAN]
    BY <1>5 DEF ReadResponse, Typed, TypeOK
  <2>5. QED  BY <1>5, <2>1, <2>3, <2>4 DEF ReadResponse, Typed, TypeOK, bus, server, adapter, client
<1>6. CASE ReadEnds(c)
  BY <1>6, Numbers DEF ReadEnds, Typed, TypeOK, bus, server, wires, transport, adapter, client
<1>7. CASE ClearPending(c)
  BY <1>7, Numbers DEF ClearPending, Typed, TypeOK, bus, server, wires, transport, adapter, client
<1>8. CASE Receive(c)
  <2>1. answer[c] # Lost => answer[c] \in Version
    BY <1>0, <1>8, Numbers DEF Receive
  <2>2. known' \in [Client -> 0 .. MaxChanges]
    BY <1>8, <2>1 DEF Receive, Typed, TypeOK, Version
  <2>3. answer' \in [Client -> 0 .. Lost]
    BY <1>0, <1>8, Numbers DEF Receive
  <2>4. request' \in [Client -> {"idle", "stored", "sent"}] /\ missed' \subseteq Client
    BY <1>8 DEF Receive, Typed, TypeOK
  <2>5. QED  BY <1>8, <2>2, <2>3, <2>4 DEF Receive, Typed, TypeOK, bus, server, wires, adapter
<1>9. CASE GiveUp(c)
  BY <1>9, Numbers DEF GiveUp, Typed, TypeOK, bus, server, wires, transport, adapter, client
<1>10. CASE Close(c)
  BY <1>10, Numbers DEF Close, Typed, TypeOK, bus, server, wires, transport, adapter, client
<1>11. CASE ReadSignal(c)
  <2>1. /\ down' \in [Client -> Seq(Version \cup {Signal})]
        /\ Head(down[c]) \in Version \cup {Signal}
    BY <1>r, <1>11 DEF ReadSignal
  <2>2. update' \in [Client -> {"none", "checked"}]
    BY <1>11 DEF ReadSignal, Typed, TypeOK
  <2>3. QED  BY <1>11, <2>1, <2>2 DEF ReadSignal, Typed, TypeOK, bus, server, transport, client
<1>12. CASE Arm(c)
  BY <1>12, Numbers DEF Arm, Typed, TypeOK, bus, server, wires, transport, adapter, client
<1>13. CASE TimerFires(c)
  BY <1>13, Numbers DEF TimerFires, Typed, TypeOK, bus, server, wires, transport, adapter, client
<1>14. CASE OnMutation(c)
  BY <1>14, Numbers DEF OnMutation, Typed, TypeOK, bus, server, wires, transport, adapter, client
<1>15. CASE ShutdownBegins(c)
  BY <1>15, Numbers DEF ShutdownBegins, Typed, TypeOK, bus, server, wires, transport, adapter, client
<1>16. CASE ShutdownStops(c)
  BY <1>16, Numbers DEF ShutdownStops, Typed, TypeOK, bus, server, wires, transport, adapter, client
<1>q. QED  BY <1>1, <1>2, <1>3, <1>4, <1>5, <1>6, <1>7, <1>8, <1>9, <1>10, <1>11, <1>12, <1>13, <1>14, <1>15, <1>16 DEF ClientStep, ReadLoop, Debounce, Send

LEMMA TypeStep == Typed /\ [Next]_vars => Typed'
<1> SUFFICES ASSUME Typed, [Next]_vars PROVE Typed'
  OBVIOUS
<1>1. CASE NotifyClients
  <2>1. ASSUME NEW c \in Client
        PROVE  (IF session[c] = "initialized" /\ chan[c] < ChanCap THEN chan[c] + 1 ELSE chan[c]) \in 0 .. ChanCap
    BY DEF Typed, TypeOK
  <2>2. chan' \in [Client -> 0 .. ChanCap]
    BY <1>1, <2>1 DEF NotifyClients
  <2>3. QED  BY <1>1, <2>2 DEF NotifyClients, Typed, TypeOK, wires, transport, adapter, client
<1>2. CASE CommitSilently
  BY <1>2 DEF CommitSilently, Typed, TypeOK, server, wires, transport, adapter, client, Version
<1>3. CASE EngineEnds
  BY <1>3 DEF EngineEnds, Typed, TypeOK, bus, transport, adapter, client
<1>4. CASE UNCHANGED vars
  BY <1>4 DEF vars, Typed, TypeOK
<1>5. QED  BY <1>1, <1>2, <1>3, <1>4, EventTypes, ServerTypes, ClientTypes
           DEF Next, EngineRuns, EventStep, ServerStep, ClientStep

LEMMA TypeInit == Init => Typed
BY Numbers DEF Init, Typed, TypeOK, Version

-----------------------------------------------------------------------------
(* The invariant of one client whose feed has no hole *)

Alive(c) ==
    /\ serverOpen /\ shutdown[c] = "no" /\ reader[c] \notin {"clearing", "ended"}
    /\ reader[c] = "reading" => connOpen[c]
    /\ answer[c] # Lost

(* A request on its way, or its response. *)
Outstanding(c) == up[c] \/ handling[c] # NoAnswer \/ ~OnlySignals(down[c])

Single(c) ==
    /\ Outstanding(c) => pending[c]
    /\ answer[c] # NoAnswer => ~pending[c]
    /\ up[c] => handling[c] = NoAnswer /\ OnlySignals(down[c])
    /\ handling[c] # NoAnswer => OnlySignals(down[c])
    /\ OneResponse(down[c])
    /\ request[c] = "stored" => ~Outstanding(c) /\ answer[c] = NoAnswer /\ pending[c]

(* What a response will show is no older than what the client shows. *)
Ahead(c) ==
    /\ known[c] <= version
    /\ \A v \in Version : handling[c] = v \/ answer[c] = v \/ Contains(down[c], v)
                            => known[c] <= v /\ v <= version

Woken(c) == session[c] = "initialized" /\ known[c] # version => OnTheWay(c)

Tight(c) == Alive(c) /\ Single(c) /\ Ahead(c) /\ Woken(c)

Inv == Typed /\ \A c \in Client : c \notin missed => Tight(c)

Announced == \E e \in Event : writing[e] > 0 \/ e \in signal

(* Steps that leave the client alone *)
Untouched(c) ==
    /\ session'[c] = session[c] /\ chan'[c] = chan[c] /\ handling'[c] = handling[c]
    /\ up'[c] = up[c] /\ down'[c] = down[c] /\ request'[c] = request[c]
    /\ pending'[c] = pending[c] /\ answer'[c] = answer[c] /\ reader'[c] = reader[c]
    /\ connOpen'[c] = connOpen[c] /\ update'[c] = update[c] /\ timer'[c] = timer[c]
    /\ callback'[c] = callback[c] /\ shutdown'[c] = shutdown[c]
    /\ wants'[c] = wants[c] /\ known'[c] = known[c]

LEMMA Carried ==
  ASSUME Typed, NEW c \in Client, Tight(c), Untouched(c), UNCHANGED <<version, serverOpen>>,
         Announced \/ loop = "push" => Announced' \/ loop' = "push" \/ chan'[c] > 0 \/ session[c] # "initialized"
  PROVE  Tight(c)'
<1>1. Alive(c)' /\ Single(c)'
  BY DEF Tight, Untouched, Alive, Single, Outstanding
<1>2. Ahead(c)'
  BY DEF Tight, Untouched, Ahead
<1>3. Woken(c)'
  BY DEF Tight, Untouched, Woken, OnTheWay, Announced
<1>4. QED  BY <1>1, <1>2, <1>3 DEF Tight

LEMMA TightEvent ==
  ASSUME Typed, NEW c \in Client, Tight(c), c \notin missed', NEW e \in Event, EventStep(e)
  PROVE  Tight(c)'
<1>0. Untouched(c) /\ UNCHANGED serverOpen
  BY DEF EventStep, Commit, Publish, Subscribe, EventLoop, Untouched, server, wires, transport, adapter, client
<1>1. CASE Commit(e)
  <2>1. version' = version + 1 /\ writing'[e] > 0 /\ version \in Nat
    BY <1>1 DEF Commit, Typed, TypeOK
  <2>2. Alive(c)' /\ Single(c)'
    BY <1>0 DEF Tight, Untouched, Alive, Single, Outstanding
  <2>3. known[c] \in Nat /\ \A v \in Version : v \in Nat
    BY Numbers DEF Typed, TypeOK
  <2>4. Ahead(c)'
    BY <1>0, <2>1, <2>3 DEF Tight, Untouched, Ahead
  <2>5. Woken(c)'
    BY <2>1 DEF Woken, OnTheWay
  <2>6. QED  BY <2>2, <2>4, <2>5 DEF Tight
<1>2. CASE Publish(e)
  <2>1. signal' = signal \cup {e}
    BY <1>2 DEF Publish
  <2>2. Announced'
    BY <2>1 DEF Announced
  <2>3. QED  BY <1>0, <1>2, <2>2, Carried DEF Publish
<1>3. CASE Subscribe(e)
  BY <1>0, <1>3, Carried DEF Subscribe, Announced
<1>4. CASE EventLoop(e)
  BY <1>0, <1>4, Carried DEF EventLoop
<1>5. QED  BY <1>1, <1>2, <1>3, <1>4 DEF EventStep

LEMMA TightNotify ==
  ASSUME Typed, NEW c \in Client, Tight(c), NotifyClients
  PROVE  Tight(c)'
<1>1. session[c] = "initialized" => chan'[c] > 0 /\ chan'[c] \in Nat
  <2>1. chan[c] \in 0 .. ChanCap
    BY DEF Typed, TypeOK
  <2>2. chan'[c] = IF session[c] = "initialized" /\ chan[c] < ChanCap THEN chan[c] + 1 ELSE chan[c]
    BY DEF NotifyClients
  <2>3. chan[c] < ChanCap \/ chan[c] = ChanCap
    BY <2>1
  <2>4. QED  BY <2>1, <2>2, <2>3
<1>2. /\ session'[c] = session[c] /\ handling'[c] = handling[c] /\ known'[c] = known[c]
      /\ answer'[c] = answer[c] /\ down' = down
      /\ UNCHANGED <<version, serverOpen>>
  BY DEF NotifyClients, wires, transport, client
<1>3. Alive(c)' /\ Single(c)'
  BY DEF NotifyClients, wires, transport, adapter, Tight, Alive, Single, Outstanding
<1>4. Ahead(c)'
  BY <1>2 DEF Tight, Ahead
<1>5. Woken(c)'
  BY <1>1, <1>2 DEF Woken, OnTheWay
<1>6. QED  BY <1>3, <1>4, <1>5 DEF Tight

-----------------------------------------------------------------------------
(* Steps of the client itself, and of the server for it *)

Functions ==
    /\ session \in [Client -> {"none", "registered", "initialized"}] /\ chan \in [Client -> 0 .. ChanCap]
    /\ handling \in [Client -> Version \cup {NoAnswer}] /\ up \in [Client -> BOOLEAN]
    /\ down \in [Client -> Seq(Message)] /\ request \in [Client -> {"idle", "stored", "sent"}]
    /\ pending \in [Client -> BOOLEAN] /\ answer \in [Client -> 0 .. Lost]
    /\ reader \in [Client -> {"off", "reading", "clearing", "ended"}] /\ connOpen \in [Client -> BOOLEAN]
    /\ update \in [Client -> {"none", "checked"}] /\ timer \in [Client -> BOOLEAN]
    /\ callback \in [Client -> BOOLEAN] /\ shutdown \in [Client -> {"no", "stored", "done"}]
    /\ wants \in [Client -> BOOLEAN] /\ known \in [Client -> Version] /\ version \in Version

LEMMA FunctionTypes == Typed => Functions
BY DEF Typed, TypeOK, Functions, Message, Version

LEMMA OnlySignalsIn == \A s : OnlySignals(s) => \A v : Contains(s, v) => v = Signal
BY DEF OnlySignals, Contains

LEMMA SignalsIn ==
  ASSUME NEW s \in Seq(Message)
  PROVE  OnlySignals(s) <=> \A m \in Message : Contains(s, m) => m = Signal
<1>1. \A i \in 1 .. Len(s) : s[i] \in Message
  OBVIOUS
<1>2. QED  BY <1>1 DEF OnlySignals, Contains

LEMMA TightServer ==
  ASSUME Typed, NEW c \in Client, Tight(c), ServerStep(c)
  PROVE  Tight(c)'
<1>t. Functions
  BY FunctionTypes
<1>0. /\ Alive(c) /\ Single(c) /\ Ahead(c) /\ Woken(c)
      /\ down[c] \in Seq(Message) /\ handling[c] \in Version \cup {NoAnswer} /\ version \in Version
      /\ known[c] \in Version /\ Signal \in Message /\ answer[c] \in 0 .. Lost
  BY <1>t DEF Tight, Functions, Message
<1>s. \A m \in Message :
        /\ \A x : Contains(Append(down[c], m), x) <=> Contains(down[c], x) \/ x = m
        /\ OneResponse(down[c]) /\ (m = Signal \/ OnlySignals(down[c])) => OneResponse(Append(down[c], m))
  BY <1>0, Appended, AppendedOne
<1>o. OnlySignals(Append(down[c], Signal)) <=> OnlySignals(down[c])
  BY <1>0, <1>s, Appended, SignalsIn
<1>1. CASE Dispatch(c)
  <2>1. /\ chan'[c] = chan[c] - 1 /\ down'[c] = Append(down[c], Signal)
    BY <1>t, <1>1 DEF Dispatch, Functions
  <2>2. /\ session'[c] = session[c] /\ handling'[c] = handling[c] /\ up'[c] = up[c]
        /\ request'[c] = request[c] /\ pending'[c] = pending[c] /\ answer'[c] = answer[c]
        /\ reader'[c] = reader[c] /\ connOpen'[c] = connOpen[c] /\ update'[c] = update[c]
        /\ timer'[c] = timer[c] /\ callback'[c] = callback[c] /\ shutdown'[c] = shutdown[c]
        /\ wants'[c] = wants[c] /\ known'[c] = known[c]
    BY <1>t, <1>1 DEF Dispatch, Functions, bus, server, wires, transport, adapter, client
  <2>3. UNCHANGED <<version, serverOpen, writing, signal, loop>>
    BY <1>1 DEF Dispatch, bus, server, wires, transport, adapter, client
  <2>4. Alive(c)'
    BY <1>0, <2>1, <2>2, <2>3 DEF Alive
  <2>5. Single(c)'
    BY <1>0, <2>1, <2>2, <2>3, <1>s, <1>o DEF Single, Outstanding
  <2>6. Ahead(c)'
    <3>1. \A v \in Version : handling'[c] = v \/ answer'[c] = v \/ Contains(down'[c], v)
             => handling[c] = v \/ answer[c] = v \/ Contains(down[c], v)
      BY <1>0, <2>1, <2>2, <2>3, <1>s, Numbers
    <3>2. QED  BY <1>0, <3>1, <2>1, <2>2, <2>3 DEF Ahead
  <2>7. Contains(down'[c], Signal)
    BY <1>0, <2>1, <1>s
  <2>8. Woken(c)'
    BY <2>7 DEF Woken, OnTheWay
  <2>9. QED  BY <2>4, <2>5, <2>6, <2>8 DEF Tight
<1>2. CASE HandleMessage(c)
  <2>1. /\ up[c] /\ handling[c] = NoAnswer /\ OnlySignals(down[c]) /\ pending[c]
        /\ request[c] # "stored"
    BY <1>0, <1>2 DEF HandleMessage, Alive, Single, Outstanding
  <2>2. /\ handling'[c] = version /\ up'[c] = FALSE
    BY <1>t, <1>2, <2>1 DEF HandleMessage, Functions
  <2>3. /\ session'[c] = session[c] /\ chan'[c] = chan[c] /\ down'[c] = down[c]
        /\ request'[c] = request[c] /\ pending'[c] = pending[c] /\ answer'[c] = answer[c]
        /\ reader'[c] = reader[c] /\ connOpen'[c] = connOpen[c] /\ update'[c] = update[c]
        /\ timer'[c] = timer[c] /\ callback'[c] = callback[c] /\ shutdown'[c] = shutdown[c]
        /\ wants'[c] = wants[c] /\ known'[c] = known[c]
    BY <1>t, <1>2, <2>1 DEF HandleMessage, Functions, bus, server, wires, transport, adapter, client
  <2>4. UNCHANGED <<version, serverOpen, writing, signal, loop>>
    BY <1>2, <2>1 DEF HandleMessage, bus, server, wires, transport, adapter, client
  <2>5. Alive(c)'
    BY <1>0, <2>1, <2>2, <2>3, <2>4 DEF Alive
  <2>6. Single(c)'
    BY <1>0, <2>1, <2>2, <2>3, <2>4 DEF Single, Outstanding
  <2>7. Ahead(c)'
    BY <1>0, <2>1, <2>2, <2>3, <2>4, Numbers DEF Ahead
  <2>8. Woken(c)'
    BY <1>0, <2>1, <2>2, <2>3, <2>4 DEF Woken, OnTheWay
  <2>9. QED  BY <2>5, <2>6, <2>7, <2>8 DEF Tight
<1>3. CASE Respond(c)
  <2>1. /\ handling[c] \in Version /\ handling[c] \in Message /\ ~up[c] /\ OnlySignals(down[c])
        /\ pending[c] /\ answer[c] = NoAnswer /\ request[c] # "stored"
    BY <1>0, <1>3, Numbers DEF Respond, Alive, Single, Outstanding, Message
  <2>2. /\ handling'[c] = NoAnswer /\ down'[c] = Append(down[c], handling[c])
    BY <1>t, <1>3, <2>1 DEF Respond, Functions
  <2>3. /\ session'[c] = session[c] /\ chan'[c] = chan[c] /\ up'[c] = up[c]
        /\ request'[c] = request[c] /\ pending'[c] = pending[c] /\ answer'[c] = answer[c]
        /\ reader'[c] = reader[c] /\ connOpen'[c] = connOpen[c] /\ update'[c] = update[c]
        /\ timer'[c] = timer[c] /\ callback'[c] = callback[c] /\ shutdown'[c] = shutdown[c]
        /\ wants'[c] = wants[c] /\ known'[c] = known[c]
    BY <1>t, <1>3, <2>1 DEF Respond, Functions, bus, server, wires, transport, adapter, client
  <2>4. UNCHANGED <<version, serverOpen, writing, signal, loop>>
    BY <1>3, <2>1 DEF Respond, bus, server, wires, transport, adapter, client
  <2>5. \A v : Contains(down'[c], v) <=> Contains(down[c], v) \/ v = handling[c]
    BY <1>0, <2>1, <2>2, <2>3, <2>4, <1>s
  <2>6. Alive(c)'
    BY <1>0, <2>1, <2>2, <2>3, <2>4, <2>5 DEF Alive
  <2>7. Single(c)'
    BY <1>0, <2>1, <2>2, <2>3, <2>4, <2>5, <1>s DEF Single, Outstanding
  <2>8. Ahead(c)'
    <3>1. \A v \in Version : handling'[c] = v \/ answer'[c] = v \/ Contains(down'[c], v)
             => handling[c] = v \/ answer[c] = v \/ Contains(down[c], v)
      BY <1>0, <2>1, <2>2, <2>3, <2>4, <2>5, Numbers
    <3>2. QED  BY <1>0, <3>1, <2>1, <2>2, <2>3, <2>4, <2>5 DEF Ahead
  <2>9. Woken(c)'
    BY <1>0, <2>1, <2>2, <2>3, <2>4, <2>5 DEF Woken, OnTheWay
  <2>10. QED  BY <2>6, <2>7, <2>8, <2>9 DEF Tight
<1>4. QED  BY <1>1, <1>2, <1>3 DEF ServerStep

LEMMA TightClient ==
  ASSUME Typed, NEW c \in Client, Tight(c), c \notin missed', ClientStep(c)
  PROVE  Tight(c)'
<1>t. Functions
  BY FunctionTypes
<1>0. /\ Alive(c) /\ Single(c) /\ Ahead(c) /\ Woken(c)
      /\ down[c] \in Seq(Message) /\ handling[c] \in Version \cup {NoAnswer} /\ version \in Version
      /\ known[c] \in Version /\ Signal \in Message /\ answer[c] \in 0 .. Lost
  BY <1>t DEF Tight, Functions, Message
<1>r. down[c] # <<>> =>
        /\ Head(down[c]) \in Message
        /\ \A x : Contains(down[c], x) <=> x = Head(down[c]) \/ Contains(Tail(down[c]), x)
        /\ OneResponse(Tail(down[c])) /\ (Head(down[c]) # Signal => OnlySignals(Tail(down[c])))
        /\ OnlySignals(down[c]) => OnlySignals(Tail(down[c]))
        /\ Head(down[c]) # Signal => ~OnlySignals(down[c])
        /\ Head(down[c]) = Signal /\ OnlySignals(Tail(down[c])) => OnlySignals(down[c])
  BY <1>0, Taken, SignalsIn DEF Single
<1>1. CASE Connect(c)
  <2>1. /\ session'[c] = "registered" /\ reader'[c] = "reading" /\ connOpen'[c] = TRUE
    BY <1>t, <1>1 DEF Connect, Functions
  <2>2. /\ chan'[c] = chan[c] /\ handling'[c] = handling[c] /\ up'[c] = up[c] /\ down'[c] = down[c]
        /\ request'[c] = request[c] /\ pending'[c] = pending[c] /\ answer'[c] = answer[c]
        /\ update'[c] = update[c] /\ timer'[c] = timer[c] /\ callback'[c] = callback[c]
        /\ shutdown'[c] = shutdown[c] /\ wants'[c] = wants[c] /\ known'[c] = known[c]
    BY <1>t, <1>1 DEF Connect, Functions, bus, server, wires, transport, adapter, client
  <2>3. UNCHANGED <<version, serverOpen, writing, signal, loop>>
    BY <1>1 DEF Connect, bus, server, wires, transport, adapter, client
  <2>4. Alive(c)'
    BY <1>0, <2>1, <2>2, <2>3 DEF Alive
  <2>5. Single(c)' /\ Ahead(c)'
    BY <1>0, <2>1, <2>2, <2>3 DEF Single, Outstanding, Ahead
  <2>6. Woken(c)'
    BY <1>0, <2>1, <2>2, <2>3 DEF Woken, OnTheWay
  <2>7. QED  BY <2>4, <2>5, <2>6 DEF Tight
<1>2. CASE Initialize(c)
  <2>1. /\ session'[c] = "initialized" /\ wants'[c] = TRUE
    BY <1>t, <1>2 DEF Initialize, Functions
  <2>2. /\ chan'[c] = chan[c] /\ handling'[c] = handling[c] /\ up'[c] = up[c] /\ down'[c] = down[c]
        /\ request'[c] = request[c] /\ pending'[c] = pending[c] /\ answer'[c] = answer[c]
        /\ reader'[c] = reader[c] /\ connOpen'[c] = connOpen[c] /\ update'[c] = update[c]
        /\ timer'[c] = timer[c] /\ callback'[c] = callback[c] /\ shutdown'[c] = shutdown[c]
        /\ known'[c] = known[c]
    BY <1>t, <1>2 DEF Initialize, Functions, bus, server, wires, transport, adapter, client
  <2>3. UNCHANGED <<version, serverOpen, writing, signal, loop>>
    BY <1>2 DEF Initialize, bus, server, wires, transport, adapter, client
  <2>4. Alive(c)'
    BY <1>0, <2>1, <2>2, <2>3 DEF Alive
  <2>5. Single(c)' /\ Ahead(c)'
    BY <1>0, <2>1, <2>2, <2>3 DEF Single, Outstanding, Ahead
  <2>6. Woken(c)'
    BY <1>0, <2>1, <2>2, <2>3 DEF Woken, OnTheWay
  <2>7. QED  BY <2>4, <2>5, <2>6 DEF Tight
<1>3. CASE Store(c)
  <2>1. /\ answer[c] = NoAnswer /\ ~up[c] /\ handling[c] = NoAnswer /\ OnlySignals(down[c])
    BY <1>0, <1>3 DEF Store, Alive, Single, Outstanding, IDUnused, OnlySignals
  <2>2. /\ request'[c] = "stored" /\ pending'[c] = TRUE /\ wants'[c] = FALSE
    BY <1>t, <1>3, <2>1 DEF Store, Functions
  <2>3. /\ session'[c] = session[c] /\ chan'[c] = chan[c] /\ handling'[c] = handling[c]
        /\ up'[c] = up[c] /\ down'[c] = down[c] /\ answer'[c] = answer[c] /\ reader'[c] = reader[c]
        /\ connOpen'[c] = connOpen[c] /\ update'[c] = update[c] /\ timer'[c] = timer[c]
        /\ callback'[c] = callback[c] /\ shutdown'[c] = shutdown[c] /\ known'[c] = known[c]
    BY <1>t, <1>3, <2>1 DEF Store, Functions, bus, server, wires, transport, adapter, client
  <2>4. UNCHANGED <<version, serverOpen, writing, signal, loop>>
    BY <1>3, <2>1 DEF Store, bus, server, wires, transport, adapter, client
  <2>5. Alive(c)'
    BY <1>0, <2>1, <2>2, <2>3, <2>4 DEF Alive
  <2>6. Single(c)'
    BY <1>0, <2>1, <2>2, <2>3, <2>4 DEF Single, Outstanding
  <2>7. Ahead(c)'
    BY <1>0, <2>1, <2>2, <2>3, <2>4 DEF Ahead
  <2>8. Woken(c)'
    BY <1>0, <2>1, <2>2, <2>3, <2>4 DEF Woken, OnTheWay
  <2>9. QED  BY <2>5, <2>6, <2>7, <2>8 DEF Tight
<1>4. CASE Write(c)
  <2>1. /\ serverOpen /\ connOpen[c] /\ ~up[c] /\ handling[c] = NoAnswer /\ OnlySignals(down[c])
        /\ pending[c] /\ answer[c] = NoAnswer
    BY <1>0, <1>4 DEF Write, Alive, Single, Outstanding
  <2>2. /\ up'[c] = TRUE /\ request'[c] = "sent"
    BY <1>t, <1>4, <2>1 DEF Write, Functions
  <2>3. /\ session'[c] = session[c] /\ chan'[c] = chan[c] /\ handling'[c] = handling[c]
        /\ down'[c] = down[c] /\ pending'[c] = pending[c] /\ answer'[c] = answer[c]
        /\ reader'[c] = reader[c] /\ connOpen'[c] = connOpen[c] /\ update'[c] = update[c]
        /\ timer'[c] = timer[c] /\ callback'[c] = callback[c] /\ shutdown'[c] = shutdown[c]
        /\ wants'[c] = wants[c] /\ known'[c] = known[c]
    BY <1>t, <1>4, <2>1 DEF Write, Functions, bus, server, wires, transport, adapter, client
  <2>4. UNCHANGED <<version, serverOpen, writing, signal, loop>>
    BY <1>4, <2>1 DEF Write, bus, server, wires, transport, adapter, client
  <2>5. Alive(c)'
    BY <1>0, <2>1, <2>2, <2>3, <2>4 DEF Alive
  <2>6. Single(c)'
    BY <1>0, <2>1, <2>2, <2>3, <2>4 DEF Single, Outstanding
  <2>7. Ahead(c)'
    BY <1>0, <2>1, <2>2, <2>3, <2>4 DEF Ahead
  <2>8. Woken(c)'
    BY <1>0, <2>1, <2>2, <2>3, <2>4 DEF Woken, OnTheWay
  <2>9. QED  BY <2>5, <2>6, <2>7, <2>8 DEF Tight
<1>5. CASE ReadResponse(c)
  <2>1. /\ down[c] # <<>> /\ Head(down[c]) # Signal /\ pending[c] /\ ~up[c]
        /\ handling[c] = NoAnswer /\ OnlySignals(Tail(down[c])) /\ request[c] # "stored"
        /\ answer[c] = NoAnswer /\ Head(down[c]) \in Version
    BY <1>0, <1>5, <1>r, Numbers DEF ReadResponse, Alive, Single, Outstanding, Message
  <2>2. /\ down'[c] = Tail(down[c]) /\ pending'[c] = FALSE /\ answer'[c] = Head(down[c])
    BY <1>t, <1>5, <2>1 DEF ReadResponse, Functions
  <2>3. /\ session'[c] = session[c] /\ chan'[c] = chan[c] /\ handling'[c] = handling[c]
        /\ up'[c] = up[c] /\ request'[c] = request[c] /\ reader'[c] = reader[c]
        /\ connOpen'[c] = connOpen[c] /\ update'[c] = update[c] /\ timer'[c] = timer[c]
        /\ callback'[c] = callback[c] /\ shutdown'[c] = shutdown[c] /\ wants'[c] = wants[c]
        /\ known'[c] = known[c]
    BY <1>t, <1>5, <2>1 DEF ReadResponse, Functions, bus, server, wires, transport, adapter, client
  <2>4. UNCHANGED <<version, serverOpen, writing, signal, loop>>
    BY <1>5, <2>1 DEF ReadResponse, bus, server, wires, transport, adapter, client
  <2>5. \A m : Contains(down[c], m) <=> m = answer'[c] \/ Contains(down'[c], m)
    BY <1>0, <2>1, <2>2, <2>3, <2>4, <1>r
  <2>6. Alive(c)'
    BY <1>0, <2>1, <2>2, <2>3, <2>4, <2>5, Numbers DEF Alive
  <2>7. Single(c)'
    BY <1>0, <2>1, <2>2, <2>3, <2>4, <2>5, <1>r, Numbers DEF Single, Outstanding
  <2>8. Ahead(c)'
    <3>1. \A v \in Version : handling'[c] = v \/ answer'[c] = v \/ Contains(down'[c], v)
             => handling[c] = v \/ answer[c] = v \/ Contains(down[c], v)
      BY <1>0, <2>1, <2>2, <2>3, <2>4, <2>5, Numbers
    <3>2. QED  BY <1>0, <3>1, <2>1, <2>2, <2>3, <2>4, <2>5 DEF Ahead
  <2>9. Woken(c)'
    BY <1>0, <2>1, <2>2, <2>3, <2>4, <2>5 DEF Woken, OnTheWay
  <2>10. QED  BY <2>6, <2>7, <2>8, <2>9 DEF Tight
<1>6. CASE Receive(c)
  <2>1. /\ request[c] = "sent" /\ answer[c] \in Version /\ known[c] <= answer[c] /\ ~up[c]
        /\ handling[c] = NoAnswer /\ OnlySignals(down[c]) /\ answer[c] <= version
    BY <1>0, <1>6, Numbers DEF Receive, Alive, Single, Outstanding, Ahead
  <2>2. /\ request'[c] = "idle" /\ answer'[c] = NoAnswer /\ known'[c] = answer[c]
    BY <1>t, <1>6, <2>1 DEF Receive, Functions
  <2>3. /\ session'[c] = session[c] /\ chan'[c] = chan[c] /\ handling'[c] = handling[c]
        /\ up'[c] = up[c] /\ down'[c] = down[c] /\ pending'[c] = pending[c]
        /\ reader'[c] = reader[c] /\ connOpen'[c] = connOpen[c] /\ update'[c] = update[c]
        /\ timer'[c] = timer[c] /\ callback'[c] = callback[c] /\ shutdown'[c] = shutdown[c]
        /\ wants'[c] = wants[c]
    BY <1>t, <1>6, <2>1 DEF Receive, Functions, bus, server, wires, transport, adapter, client
  <2>4. UNCHANGED <<version, serverOpen, writing, signal, loop>>
    BY <1>6, <2>1 DEF Receive, bus, server, wires, transport, adapter, client
  <2>5. Alive(c)'
    BY <1>0, <2>1, <2>2, <2>3, <2>4, Numbers DEF Alive
  <2>6. Single(c)'
    BY <1>0, <2>1, <2>2, <2>3, <2>4 DEF Single, Outstanding
  <2>7. Ahead(c)'
    BY <1>0, <2>1, <2>2, <2>3, <2>4, OnlySignalsIn, Numbers DEF Ahead
  <2>8. Woken(c)'
    BY <1>0, <2>1, <2>2, <2>3, <2>4, Numbers DEF Woken, OnTheWay
  <2>9. QED  BY <2>5, <2>6, <2>7, <2>8 DEF Tight
<1>7. CASE ReadSignal(c)
  <2>1. /\ down[c] # <<>> /\ Head(down[c]) = Signal /\ shutdown[c] = "no"
    BY <1>0, <1>7 DEF ReadSignal, Alive, Single, Outstanding
  <2>2. /\ down'[c] = Tail(down[c]) /\ update'[c] = "checked"
    BY <1>t, <1>7, <2>1 DEF ReadSignal, Functions
  <2>3. /\ session'[c] = session[c] /\ chan'[c] = chan[c] /\ handling'[c] = handling[c]
        /\ up'[c] = up[c] /\ request'[c] = request[c] /\ pending'[c] = pending[c]
        /\ answer'[c] = answer[c] /\ reader'[c] = reader[c] /\ connOpen'[c] = connOpen[c]
        /\ timer'[c] = timer[c] /\ callback'[c] = callback[c] /\ shutdown'[c] = shutdown[c]
        /\ wants'[c] = wants[c] /\ known'[c] = known[c]
    BY <1>t, <1>7, <2>1 DEF ReadSignal, Functions, bus, server, wires, transport, adapter, client
  <2>4. UNCHANGED <<version, serverOpen, writing, signal, loop>>
    BY <1>7, <2>1 DEF ReadSignal, bus, server, wires, transport, adapter, client
  <2>5. \A m : Contains(down[c], m) <=> m = Signal \/ Contains(down'[c], m)
    BY <1>0, <2>1, <2>2, <2>3, <2>4, <1>r
  <2>6. Alive(c)'
    BY <1>0, <2>1, <2>2, <2>3, <2>4, <2>5 DEF Alive
  <2>7. Single(c)'
    BY <1>0, <2>1, <2>2, <2>3, <2>4, <2>5, <1>r DEF Single, Outstanding
  <2>8. Ahead(c)'
    <3>1. \A v \in Version : handling'[c] = v \/ answer'[c] = v \/ Contains(down'[c], v)
             => handling[c] = v \/ answer[c] = v \/ Contains(down[c], v)
      BY <1>0, <2>1, <2>2, <2>3, <2>4, <2>5, <1>r, Numbers
    <3>2. QED  BY <1>0, <3>1, <2>1, <2>2, <2>3, <2>4, <2>5 DEF Ahead
  <2>9. Woken(c)'
    BY <1>0, <2>1, <2>2, <2>3, <2>4, <2>5 DEF Woken, OnTheWay
  <2>10. QED  BY <2>6, <2>7, <2>8, <2>9 DEF Tight
<1>8. CASE Arm(c)
  <2>1. /\ shutdown[c] = "no"
    BY <1>0, <1>8 DEF Arm, Alive, Single, Outstanding
  <2>2. /\ update'[c] = "none" /\ timer'[c] = TRUE
    BY <1>t, <1>8, <2>1 DEF Arm, Functions
  <2>3. /\ session'[c] = session[c] /\ chan'[c] = chan[c] /\ handling'[c] = handling[c]
        /\ up'[c] = up[c] /\ down'[c] = down[c] /\ request'[c] = request[c]
        /\ pending'[c] = pending[c] /\ answer'[c] = answer[c] /\ reader'[c] = reader[c]
        /\ connOpen'[c] = connOpen[c] /\ callback'[c] = callback[c] /\ shutdown'[c] = shutdown[c]
        /\ wants'[c] = wants[c] /\ known'[c] = known[c]
    BY <1>t, <1>8, <2>1 DEF Arm, Functions, bus, server, wires, transport, adapter, client
  <2>4. UNCHANGED <<version, serverOpen, writing, signal, loop>>
    BY <1>8, <2>1 DEF Arm, bus, server, wires, transport, adapter, client
  <2>5. Alive(c)'
    BY <1>0, <2>1, <2>2, <2>3, <2>4 DEF Alive
  <2>6. Single(c)' /\ Ahead(c)'
    BY <1>0, <2>1, <2>2, <2>3, <2>4 DEF Single, Outstanding, Ahead
  <2>7. Woken(c)'
    BY <1>0, <2>1, <2>2, <2>3, <2>4 DEF Woken, OnTheWay
  <2>8. QED  BY <2>5, <2>6, <2>7 DEF Tight
<1>9. CASE TimerFires(c)
  <2>1. /\ shutdown[c] = "no"
    BY <1>0, <1>9 DEF TimerFires, Alive, Single, Outstanding
  <2>2. /\ timer'[c] = FALSE /\ callback'[c] = TRUE
    BY <1>t, <1>9, <2>1 DEF TimerFires, Functions
  <2>3. /\ session'[c] = session[c] /\ chan'[c] = chan[c] /\ handling'[c] = handling[c]
        /\ up'[c] = up[c] /\ down'[c] = down[c] /\ request'[c] = request[c]
        /\ pending'[c] = pending[c] /\ answer'[c] = answer[c] /\ reader'[c] = reader[c]
        /\ connOpen'[c] = connOpen[c] /\ update'[c] = update[c] /\ shutdown'[c] = shutdown[c]
        /\ wants'[c] = wants[c] /\ known'[c] = known[c]
    BY <1>t, <1>9, <2>1 DEF TimerFires, Functions, bus, server, wires, transport, adapter, client
  <2>4. UNCHANGED <<version, serverOpen, writing, signal, loop>>
    BY <1>9, <2>1 DEF TimerFires, bus, server, wires, transport, adapter, client
  <2>5. Alive(c)'
    BY <1>0, <2>1, <2>2, <2>3, <2>4 DEF Alive
  <2>6. Single(c)' /\ Ahead(c)'
    BY <1>0, <2>1, <2>2, <2>3, <2>4 DEF Single, Outstanding, Ahead
  <2>7. Woken(c)'
    BY <1>0, <2>1, <2>2, <2>3, <2>4 DEF Woken, OnTheWay
  <2>8. QED  BY <2>5, <2>6, <2>7 DEF Tight
<1>10. CASE OnMutation(c)
  <2>1. /\ callback'[c] = FALSE /\ wants'[c] = TRUE
    BY <1>t, <1>10 DEF OnMutation, Functions
  <2>2. /\ session'[c] = session[c] /\ chan'[c] = chan[c] /\ handling'[c] = handling[c]
        /\ up'[c] = up[c] /\ down'[c] = down[c] /\ request'[c] = request[c]
        /\ pending'[c] = pending[c] /\ answer'[c] = answer[c] /\ reader'[c] = reader[c]
        /\ connOpen'[c] = connOpen[c] /\ update'[c] = update[c] /\ timer'[c] = timer[c]
        /\ shutdown'[c] = shutdown[c] /\ known'[c] = known[c]
    BY <1>t, <1>10 DEF OnMutation, Functions, bus, server, wires, transport, adapter, client
  <2>3. UNCHANGED <<version, serverOpen, writing, signal, loop>>
    BY <1>10 DEF OnMutation, bus, server, wires, transport, adapter, client
  <2>4. Alive(c)'
    BY <1>0, <2>1, <2>2, <2>3 DEF Alive
  <2>5. Single(c)' /\ Ahead(c)'
    BY <1>0, <2>1, <2>2, <2>3 DEF Single, Outstanding, Ahead
  <2>6. Woken(c)'
    BY <1>0, <2>1, <2>2, <2>3 DEF Woken, OnTheWay
  <2>7. QED  BY <2>4, <2>5, <2>6 DEF Tight
<1>11. CASE ReadEnds(c) \/ ClearPending(c) \/ ShutdownStops(c)
  BY <1>0, <1>11 DEF ReadEnds, ClearPending, ShutdownStops, Alive
<1>12. CASE GiveUp(c) \/ Close(c) \/ ShutdownBegins(c)
  BY <1>12 DEF GiveUp, Close, ShutdownBegins
<1>13. QED  BY <1>1, <1>2, <1>3, <1>4, <1>5, <1>6, <1>7, <1>8, <1>9, <1>10, <1>11, <1>12
            DEF ClientStep, ReadLoop, Debounce, Send

-----------------------------------------------------------------------------
(* The invariant is kept *)

LEMMA InvInit == Init => Inv
<1> SUFFICES ASSUME Init PROVE Inv
  OBVIOUS
<1>1. ASSUME NEW c \in Client PROVE Tight(c)
  <2>1. /\ version = 0 /\ serverOpen = TRUE /\ session[c] = "none" /\ handling[c] = NoAnswer /\ up[c] = FALSE
        /\ down[c] = <<>> /\ request[c] = "idle" /\ pending[c] = FALSE /\ answer[c] = NoAnswer
        /\ reader[c] = "off" /\ shutdown[c] = "no" /\ known[c] = 0
    BY DEF Init
  <2>2. OnlySignals(down[c]) /\ OneResponse(down[c]) /\ \A v : ~Contains(down[c], v)
    BY <2>1 DEF OnlySignals, OneResponse, Contains
  <2>3. Alive(c)
    BY <2>1, Numbers DEF Alive
  <2>4. Single(c) /\ Ahead(c) /\ Woken(c)
    BY <2>1, <2>2, Numbers DEF Single, Outstanding, Ahead, Woken
  <2>5. QED  BY <2>3, <2>4 DEF Tight
<1>2. QED  BY <1>1, TypeInit DEF Inv

LEMMA OtherUntouched ==
  ASSUME Typed, NEW c \in Client, NEW d \in Client, c # d, ServerStep(d) \/ ClientStep(d)
  PROVE  Untouched(c) /\ UNCHANGED <<version, serverOpen, writing, signal, loop>>
<1>t. Functions
  BY FunctionTypes
<1>1. CASE ServerStep(d)
  <2>1. CASE Dispatch(d)
    BY <1>t, <2>1 DEF Dispatch, Functions, Untouched, bus, server, wires, transport, adapter, client
  <2>2. CASE HandleMessage(d)
    BY <1>t, <2>2 DEF HandleMessage, Functions, Untouched, bus, server, wires, transport, adapter, client
  <2>3. CASE Respond(d)
    BY <1>t, <2>3 DEF Respond, Functions, Untouched, bus, server, wires, transport, adapter, client
  <2>4. QED  BY <1>1, <2>1, <2>2, <2>3 DEF ServerStep
<1>2. CASE ClientStep(d)
  <2>1. CASE Connect(d)
    BY <1>t, <2>1 DEF Connect, Functions, Untouched, bus, server, wires, transport, adapter, client
  <2>2. CASE Initialize(d)
    BY <1>t, <2>2 DEF Initialize, Functions, Untouched, bus, server, wires, transport, adapter, client
  <2>3. CASE Close(d)
    BY <1>t, <2>3 DEF Close, Functions, Untouched, bus, server, wires, transport, adapter, client
  <2>4. CASE ReadResponse(d)
    BY <1>t, <2>4 DEF ReadResponse, Functions, Untouched, bus, server, wires, transport, adapter, client
  <2>5. CASE ReadSignal(d)
    BY <1>t, <2>5 DEF ReadSignal, Functions, Untouched, bus, server, wires, transport, adapter, client
  <2>6. CASE Arm(d)
    BY <1>t, <2>6 DEF Arm, Functions, Untouched, bus, server, wires, transport, adapter, client
  <2>7. CASE ReadEnds(d)
    BY <1>t, <2>7 DEF ReadEnds, Functions, Untouched, bus, server, wires, transport, adapter, client
  <2>8. CASE ClearPending(d)
    BY <1>t, <2>8 DEF ClearPending, Functions, Untouched, bus, server, wires, transport, adapter, client
  <2>9. CASE TimerFires(d)
    BY <1>t, <2>9 DEF TimerFires, Functions, Untouched, bus, server, wires, transport, adapter, client
  <2>10. CASE OnMutation(d)
    BY <1>t, <2>10 DEF OnMutation, Functions, Untouched, bus, server, wires, transport, adapter, client
  <2>11. CASE ShutdownBegins(d)
    BY <1>t, <2>11 DEF ShutdownBegins, Functions, Untouched, bus, server, wires, transport, adapter, client
  <2>12. CASE ShutdownStops(d)
    BY <1>t, <2>12 DEF ShutdownStops, Functions, Untouched, bus, server, wires, transport, adapter, client
  <2>13. CASE Store(d)
    BY <1>t, <2>13 DEF Store, Functions, Untouched, bus, server, wires, transport, adapter, client
  <2>14. CASE Write(d)
    BY <1>t, <2>14 DEF Write, Functions, Untouched, bus, server, wires, transport, adapter, client
  <2>15. CASE Receive(d)
    BY <1>t, <2>15 DEF Receive, Functions, Untouched, bus, server, wires, transport, adapter, client
  <2>16. CASE GiveUp(d)
    BY <1>t, <2>16 DEF GiveUp, Functions, Untouched, bus, server, wires, transport, adapter, client
  <2>17. QED  BY <1>2, <2>1, <2>2, <2>3, <2>4, <2>5, <2>6, <2>7, <2>8,
                 <2>9, <2>10, <2>11, <2>12, <2>13, <2>14, <2>15, <2>16
             DEF ClientStep, ReadLoop, Debounce, Send
<1>3. QED  BY <1>1, <1>2

LEMMA MissedGrows == ASSUME TypeOK, [Next]_vars PROVE missed \subseteq missed'
<1>1. missed \subseteq Client
  BY DEF TypeOK
<1>2. ASSUME NEW e \in Event, EventStep(e) PROVE missed \subseteq missed'
  BY <1>1, <1>2 DEF EventStep, Commit, Publish, Subscribe, EventLoop
<1>3. ASSUME NEW c \in Client, ServerStep(c) \/ ClientStep(c) PROVE missed \subseteq missed'
  BY <1>3 DEF ServerStep, Dispatch, HandleMessage, Respond, ClientStep, Connect, Initialize, Close, ReadLoop,
     ReadResponse, ReadSignal, Arm, ReadEnds, ClearPending, Debounce, TimerFires, OnMutation, ShutdownBegins,
     ShutdownStops, Store, Send, Write, Receive, GiveUp
<1>4. CASE NotifyClients \/ CommitSilently \/ EngineEnds \/ UNCHANGED vars
  BY <1>1, <1>4 DEF NotifyClients, CommitSilently, EngineEnds, vars
<1>5. QED  BY <1>2, <1>3, <1>4 DEF Next, EngineRuns, EventStep, ServerStep, ClientStep

LEMMA InvStep == Inv /\ [Next]_vars => Inv'
<1> SUFFICES ASSUME Inv, [Next]_vars PROVE Inv'
  OBVIOUS
<1>0. Typed /\ TypeOK
  BY DEF Inv, Typed
<1>1. ASSUME NEW c \in Client, c \notin missed'
      PROVE  Tight(c)'
  <2>1. Tight(c)
    BY <1>0, <1>1, MissedGrows DEF Inv
  <2>2. ASSUME NEW e \in Event, EventStep(e) PROVE Tight(c)'
    BY <1>0, <1>1, <2>1, <2>2, TightEvent
  <2>3. CASE NotifyClients
    BY <1>0, <2>1, <2>3, TightNotify
  <2>4. CASE CommitSilently \/ EngineEnds
    BY <1>1, <2>4 DEF CommitSilently, EngineEnds
  <2>5. CASE UNCHANGED vars
    BY <1>0, <2>1, <2>5, Carried DEF vars, Untouched, Announced
  <2>6. ASSUME NEW d \in Client, ServerStep(d) \/ ClientStep(d) PROVE Tight(c)'
    <3>1. CASE c = d
      BY <1>0, <1>1, <2>1, <2>6, <3>1, TightServer, TightClient
    <3>2. CASE c # d
      <4>1. Untouched(c) /\ UNCHANGED <<version, serverOpen, writing, signal, loop>>
        BY <1>0, <2>6, <3>2, OtherUntouched
      <4>2. QED  BY <1>0, <2>1, <4>1, Carried DEF Announced
    <3>3. QED  BY <3>1, <3>2
  <2>7. QED  BY <2>2, <2>3, <2>4, <2>5, <2>6 DEF Next, EngineRuns, EventStep, ServerStep, ClientStep
<1>2. QED  BY <1>0, <1>1, TypeStep DEF Inv

LEMMA Invariance == Spec => []Inv
<1>1. QED  BY InvInit, InvStep, PTL DEF Spec

(* TypeCorrect: every variable keeps its type, whatever the number of clients,
   events and changes; the channel of a session never exceeds its capacity. *)
THEOREM TypeCorrect == Spec => []TypeOK
<1>1. Inv => TypeOK
  BY DEF Inv, Typed
<1>2. QED  BY <1>1, Invariance, PTL

(* NoWakeupIsLost: as long as the feed of a client has no hole, an old list never
   stands without a signal, or a read that will see the last change, on its way,
   for any number of clients and any channel capacity (events.go, mcp.go,
   uds_client.go, adapter.go). *)
THEOREM NoWakeupIsLost == Spec => []NoLostWakeup
<1>1. Inv => NoLostWakeup
  BY DEF Inv, Tight, Woken, NoLostWakeup, Listening
<1>2. QED  BY <1>1, Invariance, PTL

-----------------------------------------------------------------------------
(* The adapter's Shutdown *)

(* A step of a client leaves its timer running only if it was, or if the adapter
   has not been shut down. *)
LEMMA TimerSteps ==
  ASSUME TypeOK, NEW c \in Client, QuietAfterShutdown, ServerStep(c) \/ ClientStep(c)
  PROVE  QuietAfterShutdown'
<1>0. timer \in [Client -> BOOLEAN] /\ shutdown \in [Client -> {"no", "stored", "done"}]
  BY DEF TypeOK
<1>1. CASE Arm(c) \/ TimerFires(c) \/ ShutdownBegins(c) \/ ShutdownStops(c)
  BY <1>0, <1>1 DEF Arm, TimerFires, ShutdownBegins, ShutdownStops, QuietAfterShutdown
<1>2. CASE UNCHANGED <<timer, shutdown>>
  BY <1>2 DEF QuietAfterShutdown
<1>3. QED  BY <1>1, <1>2 DEF ServerStep, Dispatch, HandleMessage, Respond, ClientStep, Connect, Initialize,
     Close, ReadLoop, ReadResponse, ReadSignal, ReadEnds, ClearPending, Debounce, OnMutation, Store, Send,
     Write, Receive, GiveUp, adapter

(* AdapterStopsItsTimer: once Shutdown of the adapter has returned no debounce
   timer of it runs, although handleResourceUpdate may have been between its
   check and debounceMu when Shutdown began (adapter.go). *)
THEOREM AdapterStopsItsTimer == Spec => []QuietAfterShutdown
<1>1. Init => QuietAfterShutdown
  BY DEF Init, QuietAfterShutdown
<1>2. TypeOK /\ QuietAfterShutdown /\ [Next]_vars => QuietAfterShutdown'
  <2>1. SUFFICES ASSUME TypeOK, QuietAfterShutdown, [Next]_vars PROVE QuietAfterShutdown'
    OBVIOUS
  <2>2. ASSUME NEW e \in Event, EventStep(e) PROVE QuietAfterShutdown'
    BY <2>1, <2>2 DEF EventStep, Commit, Publish, Subscribe, EventLoop, adapter, QuietAfterShutdown
  <2>3. ASSUME NEW c \in Client, ServerStep(c) \/ ClientStep(c) PROVE QuietAfterShutdown'
    BY <2>1, <2>3, TimerSteps
  <2>4. CASE NotifyClients \/ CommitSilently \/ EngineEnds \/ UNCHANGED vars
    BY <2>1, <2>4 DEF NotifyClients, CommitSilently, EngineEnds, vars, adapter, QuietAfterShutdown
  <2>5. QED  BY <2>1, <2>2, <2>3, <2>4 DEF Next, EngineRuns, EventStep, ServerStep, ClientStep
<1>3. QED  BY <1>1, <1>2, TypeCorrect, PTL DEF Spec
=============================================================================
