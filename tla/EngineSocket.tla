---------------------------- MODULE EngineSocket ----------------------------
(* Who owns the engine socket, and which backend a TUI ends up with
   (internal/engine/mcp.go Serve and handleStaleSocket, cmd/gh-orbit/main.go
   runTUI and runEngine).  Engines are started by hand, by the Cockpit or by a
   supervisor; nothing but the socket file keeps them apart. *)
EXTENDS Naturals

CONSTANTS Engine, TUI,
          Compatible,    \* engines that expose the mutation tools a TUI requires
          Required,      \* TUIs launched with GH_ORBIT_REQUIRE_ENGINE=1
          None,          \* no socket file, no connection
          Dead,          \* a file nobody listens on, a connection that is lost
          MaxCrashes

ASSUME SocketAssumption ==
    /\ Compatible \subseteq Engine /\ Required \subseteq TUI
    /\ None \notin Engine /\ Dead \notin Engine /\ None # Dead
    /\ MaxCrashes \in Nat

VARIABLES epc,      \* where each engine stands in runEngine and Serve
          path,     \* whose socket file is at the path
          tpc,      \* where each TUI stands in runTUI
          conn,     \* the engine each TUI is connected to
          crashes,
          stolen,   \* history: a file was removed by one that had not checked it
          outage    \* history: TUIs that met no healthy engine while starting

engineVars == <<epc, path, stolen>>
tuiVars == <<tpc, conn>>
vars == <<epc, path, tpc, conn, crashes, stolen, outage>>

EnginePhase == {"down", "crashed", "stat", "dial", "purge", "bind", "bound", "chmod",
                "abandon", "serving", "unlink", "remove", "shutdown"}
TUIPhase == {"down", "stat", "start", "init", "tools", "user", "connected",
             "standalone", "refused"}

TypeOK ==
    /\ epc \in [Engine -> EnginePhase]
    /\ path \in Engine \cup {None, Dead}
    /\ tpc \in [TUI -> TUIPhase]
    /\ conn \in [TUI -> Engine \cup {None, Dead}]
    /\ \A t \in TUI : (tpc[t] \in {"init", "tools", "user", "connected"}) <=> (conn[t] # None)
    /\ crashes \in 0 .. MaxCrashes
    /\ stolen \in BOOLEAN /\ outage \subseteq TUI

Listening(e) == epc[e] \in {"chmod", "abandon", "serving", "unlink"}
Healthy == path \in Engine /\ epc[path] = "serving"

Init ==
    /\ epc = [e \in Engine |-> "down"] /\ path \in {None, Dead}
    /\ tpc = [t \in TUI |-> "down"] /\ conn = [t \in TUI |-> None]
    /\ crashes = 0 /\ stolen = FALSE /\ outage = {}

EngineGoes(e, from, to) == epc[e] = from /\ epc' = [epc EXCEPT ![e] = to]

Disturbed == path' # path \/ (path \in Engine /\ epc'[path] # epc[path])

(* The TUIs that started without a healthy engine, or saw it change since. *)
Noticed ==
    outage' = {t \in TUI :
        /\ tpc'[t] \notin {"down", "connected", "refused"}
        /\ t \in outage \/ (tpc[t] = "down" /\ ~Healthy) \/ Disturbed}
EngineStep == UNCHANGED <<tuiVars, crashes>> /\ Noticed

-----------------------------------------------------------------------------
(* The engine: the probe of the path, the listener, and the way out *)

Launch(e) ==
    /\ epc[e] \in {"down", "crashed"}
    /\ epc' = [epc EXCEPT ![e] = "stat"]
    /\ UNCHANGED <<path, stolen>> /\ EngineStep

StatSocket(e) ==
    /\ EngineGoes(e, "stat", IF path = None THEN "bind" ELSE "dial")
    /\ UNCHANGED <<path, stolen>> /\ EngineStep

ProbeFindsLive(e) ==
    /\ path \in Engine /\ Listening(path)
    /\ EngineGoes(e, "dial", "shutdown")
    /\ UNCHANGED <<path, stolen>> /\ EngineStep

ProbeRefused(e) ==
    /\ ~(path \in Engine /\ Listening(path))
    /\ EngineGoes(e, "dial", "purge")
    /\ UNCHANGED <<path, stolen>> /\ EngineStep

PurgeRefused(e) ==
    /\ EngineGoes(e, "purge", "shutdown")
    /\ UNCHANGED <<path, stolen>> /\ EngineStep

(* Whatever is at the path by now is removed; nothing there is an error. *)
Purge(e) ==
    /\ EngineGoes(e, "purge", IF path = None THEN "shutdown" ELSE "bind")
    /\ path' = None
    /\ stolen' = (stolen \/ path \in Engine)
    /\ EngineStep

BindOver(e) ==
    /\ EngineGoes(e, "bind", "bound")
    /\ path' = e
    /\ UNCHANGED stolen /\ EngineStep

(* net.Listen binds, which makes the file, and then listens. *)
Bind(e) ==
    /\ EngineGoes(e, "bind", IF path = None THEN "bound" ELSE "shutdown")
    /\ path' = IF path = None THEN e ELSE path
    /\ UNCHANGED stolen /\ EngineStep

Listen(e) ==
    /\ EngineGoes(e, "bound", "chmod")
    /\ UNCHANGED <<path, stolen>> /\ EngineStep

Chmod(e) ==
    /\ EngineGoes(e, "chmod", IF path = None THEN "abandon" ELSE "serving")
    /\ UNCHANGED <<path, stolen>> /\ EngineStep

(* Closing a listener unlinks its path, whoever's file is there. *)
Unlinks(e) ==
    /\ path' = None
    /\ stolen' = (stolen \/ path \in Engine \ {e})

Abandon(e) == EngineGoes(e, "abandon", "shutdown") /\ Unlinks(e) /\ EngineStep

(* A signal, or the end of the context. *)
Stop(e) ==
    /\ EngineGoes(e, "serving", "unlink")
    /\ UNCHANGED <<path, stolen>> /\ EngineStep

CloseListener(e) == EngineGoes(e, "unlink", "remove") /\ Unlinks(e) /\ EngineStep

(* os.Remove, after the listener has been closed: the path is free in between. *)
Remove(e) == EngineGoes(e, "remove", "shutdown") /\ Unlinks(e) /\ EngineStep

Lose(e) == conn' = [t \in TUI |-> IF conn[t] = e THEN Dead ELSE conn[t]]

(* eng.Shutdown and the end of the process, which closes its connections. *)
Exit(e) ==
    /\ EngineGoes(e, "shutdown", "down")
    /\ Lose(e) /\ UNCHANGED <<path, stolen, tpc, crashes>>
    /\ Noticed

Crash(e) ==
    /\ epc[e] \notin {"down", "crashed"} /\ crashes < MaxCrashes
    /\ epc' = [epc EXCEPT ![e] = "crashed"]
    /\ crashes' = crashes + 1
    /\ path' = IF path = e THEN Dead ELSE path
    /\ Lose(e) /\ UNCHANGED <<stolen, tpc>>
    /\ Noticed

Serve(e) ==
    \/ StatSocket(e) \/ ProbeFindsLive(e) \/ ProbeRefused(e) \/ Purge(e) \/ Bind(e)
    \/ Listen(e) \/ Chmod(e) \/ Abandon(e) \/ CloseListener(e) \/ Remove(e) \/ Exit(e)

-----------------------------------------------------------------------------
(* The TUI: connected, standalone, or refused *)

TUIGoes(t, from, to) ==
    /\ tpc[t] = from /\ tpc' = [tpc EXCEPT ![t] = to]
    /\ UNCHANGED <<engineVars, crashes>>

StartTUI(t) == TUIGoes(t, "down", "stat") /\ Noticed /\ UNCHANGED conn

FallbackAnyway(t) == "standalone"

(* Without an engine the TUI composes one in its own process, unless it was told
   to require one. *)
Fallback(t) == IF t \in Required THEN "refused" ELSE "standalone"

FindSocket(t) ==
    /\ TUIGoes(t, "stat", IF path = None THEN Fallback(t) ELSE "start")
    /\ Noticed /\ UNCHANGED conn

Connect(t) ==
    /\ TUIGoes(t, "start", IF path \in Engine /\ Listening(path) THEN "init" ELSE Fallback(t))
    /\ conn' = [conn EXCEPT ![t] = IF path \in Engine /\ Listening(path) THEN path ELSE None]
    /\ Noticed

Answers(t) == conn[t] \in Engine /\ epc[conn[t]] \in {"serving", "unlink", "remove", "shutdown"}

Initialize(t) ==
    /\ tpc[t] = "init" /\ Answers(t)
    /\ TUIGoes(t, "init", "tools") /\ Noticed /\ UNCHANGED conn

(* The peer is refused, the engine dies or the two seconds run out. *)
HandshakeFails(t) ==
    /\ TUIGoes(t, "init", Fallback(t))
    /\ conn' = [conn EXCEPT ![t] = None]
    /\ outage' = outage \cup {t}

(* An engine without the tools is fatal in either mode, as is one that cannot
   say who the user is. *)
CheckTools(t) ==
    /\ tpc[t] = "tools"
    /\ LET ok == Answers(t) /\ conn[t] \in Compatible IN
       /\ TUIGoes(t, "tools", IF ok THEN "user" ELSE "refused")
       /\ conn' = [conn EXCEPT ![t] = IF ok THEN @ ELSE None]
    /\ Noticed

ResolveUser(t) ==
    /\ tpc[t] = "user"
    /\ \E ok \in {FALSE, Answers(t)} :
         /\ TUIGoes(t, "user", IF ok THEN "connected" ELSE "refused")
         /\ conn' = [conn EXCEPT ![t] = IF ok THEN @ ELSE None]
    /\ Noticed

QuitOpen(t) ==
    /\ tpc[t] \in {"connected", "standalone", "refused"}
    /\ TUIGoes(t, tpc[t], "down")
    /\ UNCHANGED conn /\ Noticed

Quit(t) ==
    /\ tpc[t] \in {"connected", "standalone", "refused"}
    /\ TUIGoes(t, tpc[t], "down")
    /\ conn' = [conn EXCEPT ![t] = None]
    /\ Noticed

RunTUI(t) ==
    \/ FindSocket(t) \/ Connect(t) \/ Initialize(t) \/ HandshakeFails(t)
    \/ CheckTools(t) \/ ResolveUser(t)

-----------------------------------------------------------------------------
Next ==
    \/ \E e \in Engine : Launch(e) \/ Serve(e) \/ Stop(e) \/ Crash(e)
    \/ \E t \in TUI : StartTUI(t) \/ RunTUI(t) \/ Quit(t)

Spec == Init /\ [][Next]_vars

(* A process that has been started runs: no fairness for starting or stopping one. *)
FairSpec == Spec /\ (\A e \in Engine : WF_vars(Serve(e))) /\ (\A t \in TUI : WF_vars(RunTUI(t)))

-----------------------------------------------------------------------------
(* ServingIsReachable: an engine that serves is the one clients find at the path,
   so that two engines never serve at once, as long as no engine has removed a
   file it had not probed.  The probe, the refusal of net.Listen and the unlink
   on the way out add up to this over the lives of all engines. *)
ServingIsReachable ==
    ~stolen => \A e \in Engine : epc[e] \in {"chmod", "serving"} => path = e

(* SecondAuthorityNeedsAnOutage: a TUI establishes a second backend beside the
   engine only if the engine was not healthy, changed or failed the handshake
   while the TUI was starting; one that requires the engine never does (runTUI). *)
SecondAuthorityNeedsAnOutage ==
    \A t \in TUI : tpc[t] = "standalone" => t \in outage \ Required

(* Restartable: an engine started while no other is up ends up serving whatever
   an earlier one, crashed at any point, has left at the path. *)
Alone(e) == \A o \in Engine \ {e} : epc[o] \in {"down", "crashed"}
Restartable ==
    \A e \in Engine :
        (epc[e] = "stat" /\ Alone(e)) ~> (epc[e] \in {"serving", "crashed"} \/ ~Alone(e))
=============================================================================
