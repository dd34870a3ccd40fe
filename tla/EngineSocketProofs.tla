-------------------------- MODULE EngineSocketProofs --------------------------
(* One engine at the path, and no second authority without cause, proved for any
   number of engines and TUIs. *)
EXTENDS EngineSocket, TLAPS

USE SocketAssumption

(* An engine between its bind and its unlink holds the path. *)
Owns(e) == epc[e] \in {"bound", "chmod", "serving", "unlink"}
OneOwner == ~stolen => \A e \in Engine : Owns(e) => path = e

(* A TUI under way that has noticed nothing stands before a healthy engine. *)
Starting(t) == tpc[t] \notin {"down", "connected", "refused"}
StartsHealthy == \A t \in TUI : Starting(t) /\ t \notin outage => Healthy

Inv == TypeOK /\ OneOwner /\ StartsHealthy /\ SecondAuthorityNeedsAnOutage

LEMMA InvInit == Init => Inv
<1> SUFFICES ASSUME Init PROVE Inv
  OBVIOUS
<1>1. TypeOK
  <2>1. conn \in [TUI -> Engine \cup {None, Dead}]
    BY DEF Init
  <2>2. \A t \in TUI : tpc[t] = "down" /\ conn[t] = None
    BY DEF Init
  <2>3. epc \in [Engine -> EnginePhase] /\ tpc \in [TUI -> TUIPhase]
    BY DEF Init, EnginePhase, TUIPhase
  <2>4. path \in Engine \cup {None, Dead} /\ crashes \in 0 .. MaxCrashes
    BY DEF Init
  <2>5. stolen \in BOOLEAN /\ outage \subseteq TUI
    BY DEF Init
  <2>6. QED  BY <2>1, <2>2, <2>3, <2>4, <2>5 DEF TypeOK
<1>2. OneOwner /\ StartsHealthy /\ SecondAuthorityNeedsAnOutage
  BY DEF Init, OneOwner, Owns, StartsHealthy, Starting, SecondAuthorityNeedsAnOutage
<1>3. QED  BY <1>1, <1>2 DEF Inv

-----------------------------------------------------------------------------
(* Types *)

EngineNext(e) == Launch(e) \/ Serve(e) \/ Stop(e)
TUINext(t) == StartTUI(t) \/ RunTUI(t) \/ Quit(t)

(* The steps of an engine, but for the two that lose connections. *)
LEMMA EngineFrame ==
  ASSUME NEW e \in Engine, EngineNext(e)
  PROVE  \/ UNCHANGED tuiVars /\ UNCHANGED crashes /\ Noticed
         \/ Exit(e)
BY DEF EngineNext, Serve, Launch, StatSocket, ProbeFindsLive, ProbeRefused, Purge, Bind, Listen,
       Chmod, Abandon, Stop, CloseListener, Remove, EngineStep

LEMMA EngineTypes ==
  ASSUME TypeOK, NEW e \in Engine, EngineNext(e)
  PROVE  epc' \in [Engine -> EnginePhase] /\ path' \in Engine \cup {None, Dead} /\ stolen' \in BOOLEAN
<1>1. \E to \in EnginePhase : epc' = [epc EXCEPT ![e] = to]
  BY DEF EngineNext, Serve, Launch, StatSocket, ProbeFindsLive, ProbeRefused, Purge, Bind, Listen,
         Chmod, Abandon, Stop, CloseListener, Remove, Exit, EngineGoes, EnginePhase
<1>2. path' \in {path, None, e}
  BY DEF EngineNext, Serve, Launch, StatSocket, ProbeFindsLive, ProbeRefused, Purge, Bind, Listen,
         Chmod, Abandon, Stop, CloseListener, Remove, Exit, Unlinks
<1>3. stolen' \in BOOLEAN
  BY DEF EngineNext, Serve, Launch, StatSocket, ProbeFindsLive, ProbeRefused, Purge, Bind, Listen,
         Chmod, Abandon, Stop, CloseListener, Remove, Exit, Unlinks, TypeOK
<1>4. QED  BY <1>1, <1>2, <1>3 DEF TypeOK

LEMMA LoseTypes ==
  ASSUME TypeOK, NEW e \in Engine, Lose(e), UNCHANGED tpc
  PROVE  /\ conn' \in [TUI -> Engine \cup {None, Dead}]
         /\ \A t \in TUI : (tpc'[t] \in {"init", "tools", "user", "connected"}) <=> (conn'[t] # None)
<1>1. conn' \in [TUI -> Engine \cup {None, Dead}]
  BY DEF Lose, TypeOK
<1>2. \A t \in TUI : conn'[t] # None <=> conn[t] # None
  BY DEF Lose, TypeOK
<1>3. QED  BY <1>1, <1>2 DEF TypeOK

LEMMA NoticedType == Noticed => outage' \subseteq TUI
BY DEF Noticed

LEMMA EngineType ==
  ASSUME TypeOK, NEW e \in Engine, EngineNext(e)
  PROVE  TypeOK'
<1>1. epc' \in [Engine -> EnginePhase] /\ path' \in Engine \cup {None, Dead} /\ stolen' \in BOOLEAN
  BY EngineTypes
<1>2. CASE UNCHANGED tuiVars /\ UNCHANGED crashes /\ Noticed
  BY <1>1, <1>2, NoticedType DEF TypeOK, tuiVars
<1>3. CASE Exit(e)
  BY <1>1, <1>3, LoseTypes, NoticedType DEF Exit, TypeOK
<1>4. QED  BY <1>2, <1>3, EngineFrame

LEMMA CrashType ==
  ASSUME TypeOK, NEW e \in Engine, Crash(e)
  PROVE  TypeOK'
<1>1. epc' \in [Engine -> EnginePhase] /\ path' \in Engine \cup {None, Dead} /\ crashes' \in 0 .. MaxCrashes
  BY DEF Crash, TypeOK, EnginePhase
<1>2. QED  BY <1>1, LoseTypes, NoticedType DEF Crash, TypeOK

LEMMA TUIMoves ==
  ASSUME TypeOK, NEW t \in TUI, TUINext(t)
  PROVE  \E from, to \in TUIPhase, c \in Engine \cup {None, Dead} :
            /\ tpc[t] = from /\ tpc' = [tpc EXCEPT ![t] = to]
            /\ conn' = [conn EXCEPT ![t] = c]
            /\ (to \in {"init", "tools", "user", "connected"}) <=> (c # None)
            /\ UNCHANGED <<engineVars, crashes>>
<1>0. /\ tpc[t] \in TUIPhase /\ conn[t] \in Engine \cup {None, Dead} /\ conn = [conn EXCEPT ![t] = conn[t]]
      /\ (tpc[t] \in {"init", "tools", "user", "connected"}) <=> (conn[t] # None)
      /\ path \in Engine => path # None
  BY DEF TypeOK
<1>1. CASE StartTUI(t) \/ FindSocket(t)
  BY <1>0, <1>1 DEF StartTUI, FindSocket, TUIGoes, Fallback, TUIPhase
<1>2. CASE Connect(t) \/ HandshakeFails(t)
  BY <1>0, <1>2 DEF Connect, HandshakeFails, TUIGoes, Fallback, TUIPhase
<1>3. CASE Initialize(t)
  BY <1>0, <1>3 DEF Initialize, TUIGoes, TUIPhase
<1>4. CASE CheckTools(t)
  <2> DEFINE ok == Answers(t) /\ conn[t] \in Compatible
  <2>1. /\ tpc[t] = "tools" /\ tpc' = [tpc EXCEPT ![t] = IF ok THEN "user" ELSE "refused"]
        /\ conn' = [conn EXCEPT ![t] = IF ok THEN conn[t] ELSE None]
        /\ UNCHANGED <<engineVars, crashes>>
    BY <1>4 DEF CheckTools, TUIGoes
  <2> HIDE DEF ok
  <2>2. CASE ok
    BY <1>0, <2>1, <2>2 DEF TUIPhase
  <2>3. CASE ~ok
    BY <1>0, <2>1, <2>3 DEF TUIPhase
  <2>4. QED  BY <2>2, <2>3
<1>5. CASE ResolveUser(t)
  BY <1>0, <1>5 DEF ResolveUser, TUIGoes, TUIPhase
<1>6. CASE Quit(t)
  BY <1>0, <1>6 DEF Quit, TUIGoes, TUIPhase
<1>7. QED  BY <1>1, <1>2, <1>3, <1>4, <1>5, <1>6 DEF TUINext, RunTUI

LEMMA TUIOutage ==
  ASSUME NEW t \in TUI, TUINext(t)
  PROVE  Noticed \/ HandshakeFails(t)
BY DEF TUINext, StartTUI, RunTUI, FindSocket, Connect, Initialize, CheckTools, ResolveUser, Quit

LEMMA TUIType ==
  ASSUME TypeOK, NEW t \in TUI, TUINext(t)
  PROVE  TypeOK'
<1>1. PICK to \in TUIPhase, c \in Engine \cup {None, Dead} :
            /\ tpc' = [tpc EXCEPT ![t] = to] /\ conn' = [conn EXCEPT ![t] = c]
            /\ (to \in {"init", "tools", "user", "connected"}) <=> (c # None)
            /\ UNCHANGED <<engineVars, crashes>>
  BY TUIMoves
<1>2. outage' \subseteq TUI
  BY TUIOutage, NoticedType DEF HandshakeFails, TypeOK
<1>3. QED  BY <1>1, <1>2 DEF TypeOK, engineVars
-----------------------------------------------------------------------------
(* Owners *)

LEMMA OwnerStep ==
  ASSUME TypeOK, OneOwner, NEW e \in Engine, EngineNext(e) \/ Crash(e)
  PROVE  OneOwner'
<1>0. /\ epc \in [Engine -> EnginePhase] /\ stolen \in BOOLEAN
      /\ None \notin Engine /\ Dead \notin Engine /\ path \in Engine \cup {None, Dead}
  BY DEF TypeOK
<1>1. ASSUME NEW to, epc' = [epc EXCEPT ![e] = to], UNCHANGED <<path, stolen>>,
             to \in {"bound", "chmod", "serving", "unlink"} => Owns(e)
      PROVE  OneOwner'
  BY <1>0, <1>1 DEF OneOwner, Owns
<1>2. CASE Launch(e) \/ StatSocket(e) \/ ProbeFindsLive(e) \/ ProbeRefused(e) \/ Exit(e)
  BY <1>1, <1>2 DEF Launch, StatSocket, ProbeFindsLive, ProbeRefused, Exit, EngineGoes
<1>3. CASE Listen(e) \/ Chmod(e) \/ Stop(e)
  BY <1>1, <1>3 DEF Listen, Chmod, Stop, EngineGoes, Owns
<1>4. CASE Purge(e)
  <2>1. stolen' = (stolen \/ path \in Engine) /\ path' = None
    BY <1>4 DEF Purge
  <2>2. ~stolen' => \A o \in Engine : ~Owns(o)
    BY <1>0, <2>1 DEF OneOwner
  <2>3. \E to \in {"shutdown", "bind"} : epc' = [epc EXCEPT ![e] = to]
    BY <1>4 DEF Purge, EngineGoes
  <2>4. QED  BY <1>0, <2>2, <2>3 DEF OneOwner, Owns
<1>5. CASE Bind(e)
  <2>1. CASE path = None
    <3>1. ~stolen => \A o \in Engine : ~Owns(o)
      BY <1>0, <2>1 DEF OneOwner
    <3>2. QED  BY <1>0, <1>5, <2>1, <3>1 DEF Bind, EngineGoes, OneOwner, Owns
  <2>2. CASE path # None
    BY <1>1, <1>5, <2>2 DEF Bind, EngineGoes
  <2>3. QED  BY <2>1, <2>2
<1>6. ASSUME Abandon(e) \/ CloseListener(e) \/ Remove(e)
      PROVE  OneOwner'
  <2>1. stolen' = (stolen \/ path \in Engine \ {e})
    BY <1>6 DEF Abandon, CloseListener, Remove, Unlinks
  <2>2. ~stolen' => \A o \in Engine : Owns(o) => o = e
    BY <1>0, <2>1 DEF OneOwner
  <2>3. \E to \in {"shutdown", "remove"} : epc' = [epc EXCEPT ![e] = to]
    BY <1>6 DEF Abandon, CloseListener, Remove, EngineGoes
  <2>4. QED  BY <1>0, <2>2, <2>3 DEF OneOwner, Owns
<1>7. CASE Crash(e)
  <2>1. \A o \in Engine : Owns(o)' => Owns(o) /\ o # e
    BY <1>0, <1>7 DEF Crash, Owns
  <2>2. path' = IF path = e THEN Dead ELSE path
    BY <1>7 DEF Crash
  <2>3. QED  BY <1>7, <2>1, <2>2 DEF OneOwner, Crash
<1>8. QED  BY <1>2, <1>3, <1>4, <1>5, <1>6, <1>7 DEF EngineNext, Serve

-----------------------------------------------------------------------------
(* TUIs *)

LEMMA NoticedHealthy ==
  ASSUME TypeOK, StartsHealthy, Noticed,
         \A t \in TUI : tpc[t] \in {"connected", "refused"} => ~Starting(t)'
  PROVE  StartsHealthy'
<1>1. SUFFICES ASSUME NEW t \in TUI, Starting(t)', t \notin outage'
               PROVE  Healthy'
  BY DEF StartsHealthy
<1>2. t \notin outage /\ (tpc[t] = "down" => Healthy) /\ ~Disturbed
  BY <1>1 DEF Noticed, Starting
<1>3. Starting(t) \/ tpc[t] = "down" \/ tpc[t] \in {"connected", "refused"}
  BY DEF Starting
<1>4. QED  BY <1>1, <1>2, <1>3 DEF StartsHealthy, Healthy, Disturbed
LEMMA TUIStays ==
  ASSUME TypeOK, NEW t \in TUI, TUINext(t)
  PROVE  /\ \A u \in TUI : u # t => tpc'[u] = tpc[u]
         /\ tpc[t] \in {"connected", "refused"} => tpc'[t] = "down"
         /\ UNCHANGED <<path, epc, stolen>>
<1>1. \E from, to \in TUIPhase : tpc[t] = from /\ tpc' = [tpc EXCEPT ![t] = to]
  BY TUIMoves
<1>2. tpc[t] \in {"connected", "refused"} => Quit(t)
  BY DEF TUINext, RunTUI, StartTUI, FindSocket, Connect, Initialize, HandshakeFails, CheckTools,
         ResolveUser, TUIGoes
<1>3. Quit(t) => tpc'[t] = "down"
  BY DEF Quit, TUIGoes, TypeOK
<1>4. UNCHANGED <<path, epc, stolen>>
  BY TUIMoves DEF engineVars
<1>5. QED  BY <1>1, <1>2, <1>3, <1>4 DEF TypeOK

LEMMA HealthyStep ==
  ASSUME Inv, [Next]_vars
  PROVE  StartsHealthy'
<1>0. TypeOK /\ StartsHealthy
  BY DEF Inv
<1>1. ASSUME NEW e \in Engine, EngineNext(e) \/ Crash(e)
      PROVE  StartsHealthy'
  <2>1. Noticed /\ UNCHANGED tpc
    BY <1>1, EngineFrame DEF Exit, Crash, tuiVars
  <2>2. QED  BY <1>0, <2>1, NoticedHealthy DEF Starting
<1>2. ASSUME NEW t \in TUI, TUINext(t)
      PROVE  StartsHealthy'
  <2>1. CASE Noticed
    <3>1. \A u \in TUI : tpc[u] \in {"connected", "refused"} => ~Starting(u)'
      BY <1>0, <1>2, TUIStays DEF Starting
    <3>2. QED  BY <1>0, <2>1, <3>1, NoticedHealthy
  <2>2. CASE HandshakeFails(t)
    <3>1. outage' = outage \cup {t} /\ UNCHANGED <<path, epc>>
      BY <2>2 DEF HandshakeFails, TUIGoes, engineVars
    <3>2. \A u \in TUI : u # t => tpc'[u] = tpc[u]
      BY <1>0, <1>2, TUIStays
    <3>3. Healthy' = Healthy
      BY <3>1 DEF Healthy
    <3>4. QED  BY <1>0, <3>1, <3>2, <3>3 DEF StartsHealthy, Starting
  <2>3. QED  BY <1>2, <2>1, <2>2, TUIOutage
<1>3. CASE UNCHANGED vars
  BY <1>0, <1>3 DEF vars, StartsHealthy, Starting, Healthy
<1>4. QED  BY <1>1, <1>2, <1>3 DEF Next, EngineNext, TUINext

(* A TUI that falls back has met no healthy engine on the way. *)
LEMMA FallbackCause ==
  ASSUME TypeOK, StartsHealthy, NEW t \in TUI, TUINext(t), tpc[t] # "standalone", tpc'[t] = "standalone"
  PROVE  t \in outage' \ Required
<1>1. FindSocket(t) \/ Connect(t) \/ HandshakeFails(t)
  BY DEF TUINext, RunTUI, StartTUI, Initialize, CheckTools, ResolveUser, Quit, TUIGoes, TypeOK
<1>2. t \notin Required
  BY <1>1 DEF FindSocket, Connect, HandshakeFails, TUIGoes, Fallback, TypeOK
<1>3. CASE HandshakeFails(t)
  BY <1>2, <1>3 DEF HandshakeFails
<1>4. CASE FindSocket(t) \/ Connect(t)
  <2>1. ~Healthy /\ Starting(t) /\ Noticed
    BY <1>4 DEF FindSocket, Connect, TUIGoes, Fallback, Healthy, Listening, Starting, TypeOK
  <2>2. t \in outage
    BY <2>1 DEF StartsHealthy
  <2>3. QED  BY <1>2, <2>1, <2>2 DEF Noticed
<1>5. QED  BY <1>1, <1>3, <1>4

LEMMA FallbackStep ==
  ASSUME Inv, [Next]_vars
  PROVE  SecondAuthorityNeedsAnOutage'
<1>0. TypeOK /\ StartsHealthy /\ SecondAuthorityNeedsAnOutage
  BY DEF Inv
<1>1. ASSUME Noticed, NEW t \in TUI, tpc[t] = "standalone", tpc'[t] = "standalone"
      PROVE  t \in outage' \ Required
  BY <1>0, <1>1 DEF Noticed, SecondAuthorityNeedsAnOutage
<1>2. ASSUME NEW e \in Engine, EngineNext(e) \/ Crash(e)
      PROVE  SecondAuthorityNeedsAnOutage'
  <2>1. Noticed /\ UNCHANGED tpc
    BY <1>2, EngineFrame DEF Exit, Crash, tuiVars
  <2>2. QED  BY <1>1, <2>1 DEF SecondAuthorityNeedsAnOutage
<1>3. ASSUME NEW t \in TUI, TUINext(t)
      PROVE  SecondAuthorityNeedsAnOutage'
  <2>1. SUFFICES ASSUME NEW u \in TUI, tpc'[u] = "standalone"
                 PROVE  u \in outage' \ Required
    BY DEF SecondAuthorityNeedsAnOutage
  <2>2. CASE tpc[u] # "standalone"
    <3>1. u = t
      BY <1>0, <1>3, <2>1, <2>2, TUIStays
    <3>2. QED  BY <1>0, <1>3, <2>1, <2>2, <3>1, FallbackCause
  <2>3. CASE tpc[u] = "standalone"
    <3>1. Noticed \/ HandshakeFails(t)
      BY <1>3, TUIOutage
    <3>2. HandshakeFails(t) => outage \subseteq outage'
      BY DEF HandshakeFails
    <3>3. QED  BY <1>0, <1>1, <2>1, <2>3, <3>1, <3>2 DEF SecondAuthorityNeedsAnOutage
  <2>4. QED  BY <2>2, <2>3
<1>4. CASE UNCHANGED vars
  BY <1>0, <1>4 DEF vars, SecondAuthorityNeedsAnOutage
<1>5. QED  BY <1>2, <1>3, <1>4 DEF Next, EngineNext, TUINext

-----------------------------------------------------------------------------
LEMMA InvStep == Inv /\ [Next]_vars => Inv'
<1> SUFFICES ASSUME Inv, [Next]_vars PROVE Inv'
  OBVIOUS
<1>0. TypeOK /\ OneOwner
  BY DEF Inv
<1>1. TypeOK'
  <2>1. CASE UNCHANGED vars
    BY <1>0, <2>1 DEF vars, TypeOK
  <2>2. QED  BY <1>0, <2>1, EngineType, CrashType, TUIType DEF Next, EngineNext, TUINext
<1>2. OneOwner'
  <2>1. ASSUME UNCHANGED <<path, epc, stolen>> PROVE OneOwner'
    BY <1>0, <2>1 DEF OneOwner, Owns
  <2>2. CASE \E t \in TUI : TUINext(t)
    BY <1>0, <2>1, <2>2, TUIStays
  <2>3. CASE UNCHANGED vars
    BY <2>1, <2>3 DEF vars
  <2>4. QED  BY <1>0, <2>2, <2>3, OwnerStep DEF Next, EngineNext, TUINext
<1>3. QED  BY <1>1, <1>2, HealthyStep, FallbackStep DEF Inv

LEMMA Invariance == Spec => []Inv
<1>1. QED  BY InvInit, InvStep, PTL DEF Spec

(* TypeCorrect: every variable keeps its type, and a TUI holds a connection in
   exactly the phases in which the code has one (Serve, runTUI). *)
THEOREM TypeCorrect == Spec => []TypeOK
<1>1. Inv => TypeOK
  BY DEF Inv
<1>2. QED  BY <1>1, Invariance, PTL

(* ServingEngineOwnsThePath: any number of engines may be launched, stopped and
   crash at any point; while no engine has removed a file that it had not probed,
   whoever serves is the engine at the path (Serve, handleStaleSocket). *)
THEOREM ServingEngineOwnsThePath == Spec => []ServingIsReachable
<1>1. Inv => ServingIsReachable
  BY DEF Inv, OneOwner, Owns, ServingIsReachable
<1>2. QED  BY <1>1, Invariance, PTL

(* FallbackHasACause: a TUI runs a backend of its own only after it has met no
   healthy engine on its way, and never when it requires one (runTUI). *)
THEOREM FallbackHasACause == Spec => []SecondAuthorityNeedsAnOutage
<1>1. Inv => SecondAuthorityNeedsAnOutage
  BY DEF Inv
<1>2. QED  BY <1>1, Invariance, PTL
=============================================================================
