---------------------------- MODULE ProxyManager ----------------------------
(***************************************************************************)
(* The manager of the local proxy process (desktop/internal/proxy): Status,*)
(* Start and Stop, called concurrently by gateway requests and by the tray,*)
(* each under the manager's mutex.  Around it: the ports of the host, with *)
(* programs that come and go on them, and the child processes, which may   *)
(* fail to bind, exit, or be killed, at any time; the goroutine that waits *)
(* for a child records its end some time later.                            *)
(***************************************************************************)
EXTENDS Naturals, Sequences, FiniteSets

CONSTANTS
    Callers,      \* goroutines that use the manager
    Ports, Configured,
    Unix,         \* ProcessState.Exited() is false for a process ended by a signal
    MaxChildren,  \* bound: processes ever started
    MaxCalls,     \* bound: calls made
    MaxPolls,     \* health checks before Start gives up (50 in the code)
    MaxTenancies  \* bound: comings and goings of other programs

ASSUME PortAssumption == Configured \in Ports /\ Unix \in BOOLEAN
ASSUME CallersAssumption == "none" \notin Callers
ASSUME BoundsAssumption ==
    /\ MaxChildren \in Nat /\ MaxCalls \in Nat /\ MaxTenancies \in Nat
    /\ MaxPolls \in Nat \ {0}

VARIABLES
    tenant,    \* per port: "free", "external" (answers /health), "other"
    child,     \* the child processes, in the order they were started
    cmd,       \* m.cmd: the child the manager owns, 0 for nil
    state,     \* m.state: running, external, base (the port of BaseURL)
    mu,        \* the holder of m.mu across steps of Start
    pc,        \* where each caller stands
    purpose,   \* what it called
    result,    \* how its last call returned
    polls,     \* health checks of the Start under way
    calls, tenancies

env == <<tenant, tenancies>>
manager == <<cmd, state, mu, polls>>
caller == <<pc, purpose, result, calls>>
vars == <<env, child, manager, caller>>

Init ==
    /\ tenant \in [Ports -> {"free", "external", "other"}]
    /\ child = <<>> /\ cmd = 0
    /\ state = [running |-> FALSE, external |-> FALSE, base |-> Configured]
    /\ mu = "none" /\ polls = 0
    /\ pc = [c \in Callers |-> "idle"] /\ purpose = [c \in Callers |-> "none"]
    /\ result = [c \in Callers |-> "none"]
    /\ calls = 0 /\ tenancies = 0

Serving(p) == {k \in DOMAIN child : child[k].status = "serving" /\ child[k].port = p}
Occupied(p) == tenant[p] # "free" \/ Serving(p) # {}
Healthy(p) == tenant[p] = "external" \/ Serving(p) # {}
Dead(k) == child[k].status \in {"exited", "signalled"}

\* ProcessState of child k is set, and says that the process exited.
Exited(k) == child[k].waited /\ (child[k].status = "exited" \/ ~Unix)

-----------------------------------------------------------------------------
(* The host *)

\* A child binds its port, or exits if something else has it by now.
ChildBinds(k) ==
    /\ child[k].status = "starting"
    /\ child' = [child EXCEPT ![k].status =
                    IF Occupied(child[k].port) THEN "exited" ELSE "serving"]
    /\ UNCHANGED <<env, manager, caller>>

\* A child exits by itself, or a signal ends it: Stop's, or the system's.
ChildEnds(k, how) ==
    /\ child[k].status \in {"starting", "serving"}
    /\ how \in {"exited", "signalled"} /\ (child[k].killed => how = "signalled")
    /\ child' = [child EXCEPT ![k].status = how]
    /\ UNCHANGED <<env, manager, caller>>

\* The Wait goroutine records the end in ProcessState; it does not take m.mu.
Reap(k) ==
    /\ Dead(k) /\ ~child[k].waited
    /\ child' = [child EXCEPT ![k].waited = TRUE]
    /\ UNCHANGED <<env, manager, caller>>

Tenancy(p) ==
    /\ tenancies < MaxTenancies /\ Serving(p) = {}
    /\ \E t \in {"free", "external", "other"} \ {tenant[p]} :
            tenant' = [tenant EXCEPT ![p] = t]
    /\ tenancies' = tenancies + 1
    /\ UNCHANGED <<child, manager, caller>>

Host ==
    \/ \E k \in DOMAIN child :
        ChildBinds(k) \/ Reap(k) \/ \E how \in {"exited", "signalled"} : ChildEnds(k, how)
    \/ \E p \in Ports : Tenancy(p)

-----------------------------------------------------------------------------
(* The manager *)

\* refreshHealthLocked, for a manager that owns child own.
Refreshed(own) ==
    LET running == Healthy(state.base) /\ ~(own # 0 /\ Exited(own))
    IN [state EXCEPT !.running = running, !.external = running /\ own = 0]

Go(c, where) == pc' = [pc EXCEPT ![c] = where]
Moves(c, where) == Go(c, where) /\ UNCHANGED <<purpose, result>>
Returns(c, r) ==
    /\ Go(c, "idle") /\ result' = [result EXCEPT ![c] = r]
    /\ purpose' = [purpose EXCEPT ![c] = "none"]

Calls(c, what) ==
    /\ pc[c] = "idle" /\ calls < MaxCalls
    /\ calls' = calls + 1
    /\ purpose' = [purpose EXCEPT ![c] = what]
    /\ result' = [result EXCEPT ![c] = "none"]
    /\ Go(c, IF what = "stop" THEN "stop" ELSE "status")

\* A call: the gateway's ensure, App.EnsureProxyRunning, or App.StopProxy.
Call(c, what) == Calls(c, what) /\ UNCHANGED <<env, child, manager>>

\* Status, then Start if the proxy is not running.
CheckStatus(c) ==
    /\ pc[c] = "status" /\ mu = "none"
    /\ state' = Refreshed(cmd)
    /\ IF state'.running THEN Returns(c, "ok") ELSE Moves(c, "start")
    /\ UNCHANGED <<env, child, cmd, mu, polls, calls>>

\* Mutants of Ours: an owned child is never given up; or never recognised.
OursWhateverItsState == cmd # 0
OursIfHealthy == cmd # 0 /\ Healthy(state.base)

Ours == cmd # 0 /\ ~Exited(cmd)

\* Start's caller goes on with st: EnsureProxyRunning asks for Status once more.
Started(c) ==
    /\ mu' = "none"
    /\ IF purpose[c] = "ensure" THEN Returns(c, "ok") ELSE Moves(c, "recheck")

\* Start takes the mutex: nothing to do for a child it takes for alive.
StartBegins(c) ==
    /\ pc[c] = "start" /\ mu = "none"
    /\ IF Ours THEN Started(c) ELSE mu' = c /\ Moves(c, "probe")
    /\ UNCHANGED <<env, child, cmd, state, polls, calls>>

\* Mutant of Fails: an early return leaves the mutex locked.
FailsLocked(c) == UNCHANGED mu /\ Returns(c, "error")

Fails(c) == mu' = "none" /\ Returns(c, "error")

\* No binary: neither an override nor an extracted or embedded copy.
NoBinary(c) ==
    /\ pc[c] = "probe" /\ Fails(c)
    /\ UNCHANGED <<env, child, cmd, state, polls, calls>>

\* A proxy that answers on the configured port is used as it is.
Reuse(c) ==
    /\ pc[c] = "probe" /\ Healthy(Configured)
    /\ state' = [state EXCEPT !.base = Configured]
    /\ Started(c)
    /\ UNCHANGED <<env, child, cmd, polls, calls>>

\* Mutant of PickPort: any free port will do, and the caller is not told.
PickPortSilently(p) ==
    /\ (~Occupied(p) \/ p = Configured)
    /\ UNCHANGED state

\* pickPort: the configured port if it is free, else one the system chooses;
\* its listener is closed again before the child is started.
PickPort(p) ==
    /\ IF ~Occupied(Configured) THEN p = Configured
       ELSE IF \E q \in Ports : ~Occupied(q) THEN ~Occupied(p) ELSE p = Configured
    /\ state' = [state EXCEPT !.base = p]

CannotReuse(c) ==
    /\ pc[c] = "probe" /\ ~Healthy(Configured)
    /\ Go(c, "spawn")
    /\ UNCHANGED <<env, child, manager, purpose, result, calls>>

Spawn(c) ==
    /\ pc[c] = "spawn" /\ Len(child) < MaxChildren
    /\ \E p \in Ports :
        /\ PickPort(p)
        /\ child' = Append(child, [port |-> p, status |-> "starting",
                                   waited |-> FALSE, killed |-> FALSE])
    /\ cmd' = Len(child) + 1 /\ polls' = 0
    /\ Go(c, "poll")
    /\ UNCHANGED <<env, mu, purpose, result, calls>>

\* The operating system does not start the process.
SpawnFails(c) ==
    /\ pc[c] = "spawn"
    /\ \E p \in Ports : PickPort(p)
    /\ Fails(c)
    /\ UNCHANGED <<env, child, cmd, polls, calls>>

\* Mutant of Poll: one health check too many.
PollOnceMore(c) ==
    /\ pc[c] = "poll"
    /\ state' = Refreshed(cmd) /\ polls' = polls + 1
    /\ IF state'.running THEN Started(c)
       ELSE IF polls' > MaxPolls THEN Fails(c) ELSE UNCHANGED <<mu, pc, purpose, result>>
    /\ UNCHANGED <<env, child, cmd, calls>>

\* Start polls /health, holding the mutex, and gives up after MaxPolls.
Poll(c) ==
    /\ pc[c] = "poll"
    /\ state' = Refreshed(cmd) /\ polls' = polls + 1
    /\ IF state'.running THEN Started(c)
       ELSE IF polls' >= MaxPolls THEN Fails(c) ELSE UNCHANGED <<mu, pc, purpose, result>>
    /\ UNCHANGED <<env, child, cmd, calls>>

\* EnsureProxyRunning believes only a second Status.
Recheck(c) ==
    /\ pc[c] = "recheck" /\ mu = "none"
    /\ state' = Refreshed(cmd)
    /\ Returns(c, IF state'.running THEN "ok" ELSE "error")
    /\ UNCHANGED <<env, child, cmd, mu, polls, calls>>

\* Mutant of Stop: a child that does not answer is taken for no child.
StopIfRunning(c) ==
    /\ pc[c] = "stop" /\ mu = "none"
    /\ IF cmd = 0 \/ ~state.running THEN Returns(c, "ok") /\ UNCHANGED <<child, state>>
       ELSE /\ child' = [child EXCEPT ![cmd].killed = TRUE]
            /\ state' = Refreshed(0)
            /\ Returns(c, IF child[cmd].waited THEN "error" ELSE "ok")
    /\ cmd' = 0
    /\ UNCHANGED <<env, mu, polls, calls>>

\* Stop kills the child, forgets it, and looks at the health at once, although
\* the process may live a little longer.  Killing a reaped process is an error.
Stop(c) ==
    /\ pc[c] = "stop" /\ mu = "none"
    /\ IF cmd = 0 THEN Returns(c, "ok") /\ UNCHANGED <<child, state>>
       ELSE /\ child' = [child EXCEPT ![cmd].killed = TRUE]
            /\ state' = Refreshed(0)
            /\ Returns(c, IF child[cmd].waited THEN "error" ELSE "ok")
    /\ cmd' = 0
    /\ UNCHANGED <<env, mu, polls, calls>>

Step(c) ==
    CheckStatus(c) \/ StartBegins(c) \/ NoBinary(c) \/ Reuse(c) \/ CannotReuse(c)
    \/ Spawn(c) \/ SpawnFails(c) \/ Poll(c) \/ Recheck(c) \/ Stop(c)

Next ==
    \/ Host
    \/ \E c \in Callers : Step(c) \/ \E what \in {"ensure", "ensureRunning", "stop"} : Call(c, what)

\* Goroutines run and the mutex is fair; nothing is assumed of the host but that
\* a killed process ends and that Wait returns for a process that has ended.
Fairness ==
    /\ \A c \in Callers : SF_vars(Step(c))
    /\ \A k \in 1..MaxChildren :
        WF_vars(k \in DOMAIN child /\ (Reap(k) \/ (child[k].killed /\ ChildEnds(k, "signalled"))))

Spec == Init /\ [][Next]_vars /\ Fairness

-----------------------------------------------------------------------------
TypeOK ==
    /\ tenant \in [Ports -> {"free", "external", "other"}]
    /\ child \in Seq([port : Ports, status : {"starting", "serving", "exited", "signalled"},
                      waited : BOOLEAN, killed : BOOLEAN])
    /\ cmd \in 0..Len(child)
    /\ state \in [running : BOOLEAN, external : BOOLEAN, base : Ports]
    /\ mu \in Callers \cup {"none"} /\ polls \in 0..MaxPolls
    /\ pc \in [Callers -> {"idle", "status", "start", "probe", "spawn", "poll", "recheck", "stop"}]
    /\ purpose \in [Callers -> {"none", "ensure", "ensureRunning", "stop"}]
    /\ result \in [Callers -> {"none", "ok", "error"}]
    /\ calls \in 0..MaxCalls /\ tenancies \in 0..MaxTenancies

\* However calls interleave, at most one child is alive that was not killed, and
\* it is the one the manager owns: no process is leaked by a lost m.cmd.
OneLiveChild ==
    \A k \in DOMAIN child : ~Dead(k) /\ ~child[k].killed => k = cmd

\* The manager's address is that of its own child while that child serves,
\* wherever the port fallback has put it: the gateway asks for it per request.
BaseFollowsChild ==
    cmd # 0 /\ child[cmd].status = "serving" => state.base = child[cmd].port

\* A gateway request is told that the proxy is there only if something answers at
\* the address it will use, or the child it owns has not been seen to end: a dead
\* child is replaced (gateway.New: a stopped proxy can be started on demand).
EnsureIsNotInVain ==
    [][\A c \in Callers :
        purpose[c] = "ensure" /\ pc[c] # "idle" /\ pc'[c] = "idle" /\ result'[c] = "ok" =>
            \/ Healthy(state'.base)
            \/ cmd # 0 /\ ~(Dead(cmd) /\ child[cmd].waited)
      ]_vars

\* Every call returns, though Start polls with the mutex held.
CallsReturn == \A c \in Callers : pc[c] # "idle" ~> pc[c] = "idle"
=============================================================================
