------------------------------- MODULE Gateway -------------------------------
(***************************************************************************)
(* The gateway editors are pointed at (desktop/internal/gateway), on top   *)
(* of the manager of the proxy: requests that bring the proxy up and are   *)
(* forwarded to where it listens, the clicks that start and stop the       *)
(* gateway, and the end of the app, which stops both (desktop/app.go and   *)
(* main.go).  Every request and every click is a caller of the manager.    *)
(***************************************************************************)
EXTENDS ProxyManager

VARIABLES
    ln,         \* g.ln: the gateway has a listener
    accepting,  \* the goroutine of Serve is still running
    stage,      \* per caller: what it is about, besides the call of the manager
    target,     \* per caller: the port resolved for its request
    owner,      \* history: the manager's child when ensure returned
    quit        \* "no", "gateway stopped", "stopping proxy", "exited"

gateway == <<ln, accepting>>
requests == <<stage, target, owner>>
gatewayVars == <<gateway, requests, quit>>
all == <<vars, gatewayVars>>

GatewayInit ==
    /\ Init
    /\ ln = FALSE /\ accepting = FALSE
    /\ stage = [c \in Callers |-> "none"]
    /\ target = [c \in Callers |-> Configured] /\ owner = [c \in Callers |-> 0]
    /\ quit = "no"

Goes(c, where) == stage' = [stage EXCEPT ![c] = where]

-----------------------------------------------------------------------------
(* A request *)

\* ServeHTTP has found an active account and asks ensure for the proxy.
Request(c) ==
    /\ ln /\ accepting /\ stage[c] = "none"
    /\ Call(c, "ensure") /\ Goes(c, "ensuring")
    /\ UNCHANGED <<gateway, target, owner, quit>>

\* ensure has failed: a 502.
EnsureFails(c) ==
    /\ stage[c] = "ensuring" /\ pc[c] = "idle" /\ result[c] = "error"
    /\ Goes(c, "none")
    /\ UNCHANGED <<vars, gateway, target, owner, quit>>

Ensured(c) ==
    /\ stage[c] = "ensuring" /\ pc[c] = "idle" /\ result[c] = "ok"
    /\ owner' = [owner EXCEPT ![c] = cmd] /\ Goes(c, "resolve")
    /\ UNCHANGED <<vars, gateway, target, quit>>

\* Mutant of Resolve: the address is that of the configuration.
ResolveConfigured(c) ==
    /\ stage[c] = "resolve" /\ mu = "none"
    /\ target' = [target EXCEPT ![c] = Configured] /\ Goes(c, "forward")
    /\ UNCHANGED <<vars, gateway, owner, quit>>

\* The address is asked for after ensure, which may have moved the proxy.
Resolve(c) ==
    /\ stage[c] = "resolve" /\ mu = "none"
    /\ target' = [target EXCEPT ![c] = state.base] /\ Goes(c, "forward")
    /\ UNCHANGED <<vars, gateway, owner, quit>>

\* The reverse proxy forwards the request, or reports a 502; the handler returns.
Forward(c) ==
    /\ stage[c] = "forward" /\ Goes(c, "none")
    /\ target' = [target EXCEPT ![c] = Configured] /\ owner' = [owner EXCEPT ![c] = 0]
    /\ UNCHANGED <<vars, gateway, quit>>

-----------------------------------------------------------------------------
(* The clicks *)

\* StartGateway, from the menu or at the start of the app: the proxy comes first.
StartGateway(c) ==
    /\ quit = "no" /\ stage[c] = "none"
    /\ Call(c, "ensureRunning") /\ Goes(c, "starting")
    /\ UNCHANGED <<gateway, target, owner, quit>>

ProxyNotReady(c) ==
    /\ stage[c] = "starting" /\ pc[c] = "idle" /\ result[c] = "error"
    /\ Goes(c, "none")
    /\ UNCHANGED <<vars, gateway, target, owner, quit>>

\* Gateway.Start: nothing to do for a gateway that listens; or the port is taken.
Listen(c) ==
    /\ stage[c] = "starting" /\ pc[c] = "idle" /\ result[c] = "ok"
    /\ Goes(c, "none")
    /\ IF ln THEN UNCHANGED gateway
       ELSE \/ ln' = TRUE /\ accepting' = TRUE
            \/ UNCHANGED gateway
    /\ UNCHANGED <<vars, target, owner, quit>>

\* Gateway.Stop: Shutdown closes the listener and waits for the requests, for
\* three seconds at most.
StopListening == ln' = FALSE /\ accepting' = FALSE

StopGateway ==
    /\ quit = "no" /\ ln
    /\ StopListening
    /\ UNCHANGED <<vars, requests, quit>>

\* Serve returns with an error: it is noted in lastErr.
ServeFails ==
    /\ accepting /\ accepting' = FALSE
    /\ UNCHANGED <<vars, ln, requests, quit>>

\* The toggle of the proxy: a Status decides which way.
ToggleProxy(c) ==
    /\ quit = "no" /\ stage[c] = "none" /\ mu = "none"
    /\ state' = Refreshed(cmd)
    /\ Calls(c, IF state'.running THEN "stop" ELSE "ensureRunning")
    /\ UNCHANGED <<env, child, cmd, mu, polls, gatewayVars>>

-----------------------------------------------------------------------------
(* The end of the app *)

Quit ==
    /\ quit = "no" /\ quit' = "gateway stopped"
    /\ StopListening
    /\ UNCHANGED <<vars, requests>>

ShutdownProxy(c) ==
    /\ quit = "gateway stopped" /\ stage[c] = "none" /\ pc[c] = "idle"
    /\ quit' = "stopping proxy" /\ Goes(c, "quitting")
    /\ Go(c, "stop") /\ purpose' = [purpose EXCEPT ![c] = "stop"]
    /\ UNCHANGED <<env, child, manager, result, calls, gateway, target, owner>>

\* The process ends, and all its goroutines with it.
Exit(c) ==
    /\ quit = "stopping proxy" /\ stage[c] = "quitting" /\ pc[c] = "idle"
    /\ quit' = "exited"
    /\ UNCHANGED <<vars, gateway, requests>>

-----------------------------------------------------------------------------
Serve(c) == EnsureFails(c) \/ Ensured(c) \/ Resolve(c) \/ Forward(c)
             \/ ProxyNotReady(c) \/ Listen(c)

GatewayNext ==
    \/ Host /\ UNCHANGED gatewayVars
    \/ /\ quit # "exited"
       /\ \/ \E c \in Callers : \/ Request(c) \/ StartGateway(c) \/ ToggleProxy(c)
                                \/ Step(c) /\ UNCHANGED gatewayVars
                                \/ Serve(c) \/ ShutdownProxy(c) \/ Exit(c)
          \/ StopGateway \/ ServeFails \/ Quit

GatewaySpec == GatewayInit /\ [][GatewayNext]_all

-----------------------------------------------------------------------------
\* A request is forwarded to the port of the child that was brought up for it, as
\* long as that child is still the manager's and serves, wherever the fallback has
\* put it, and whoever called the manager meanwhile.
TargetIsCurrent ==
    \A c \in Callers :
        stage[c] = "forward" /\ owner[c] # 0 /\ cmd = owner[c]
            /\ child[cmd].status = "serving" => target[c] = child[cmd].port

\* The last Stop leaves no child of the app alive and not killed, whatever was under
\* way when the app was told to quit: a child that is still starting, one that never
\* answered, one left behind by a failed Start (main.go: stop the proxy child process).
LastStopKillsAll ==
    [][\A c \in Callers :
        stage[c] = "quitting" /\ pc[c] = "stop" /\ pc'[c] = "idle" =>
            \A k \in DOMAIN child : Dead(k) \/ child'[k].killed
      ]_all

\* The app stops the proxy child it started (main.go).  Refuted: a start still under
\* way when the app quits, or a request that outlasts the three seconds, takes the
\* mutex after the last Stop and starts a child that nobody stops.
NoChildOutlivesTheApp ==
    quit = "exited" => \A k \in DOMAIN child : Dead(k) \/ child[k].killed
=============================================================================
