--------------------------- MODULE Gateway_proofs ---------------------------
(***************************************************************************)
(* For any number of callers, requests and clicks, ports and children: the *)
(* manager never leaks a child, its address is its child's, and, where     *)
(* ProcessState reports any end of a process, a gateway request is not     *)
(* told of a dead child.  On the manager's invariant, which the actions of *)
(* the gateway preserve, rests that the gateway forwards a request to the  *)
(* child that was brought up for it, and that the last Stop of the app     *)
(* spares no child there is.                                               *)
(***************************************************************************)
EXTENDS Gateway, TLAPS

(* ProxyManager *)

Child == [port : Ports, status : {"starting", "serving", "exited", "signalled"},
          waited : BOOLEAN, killed : BOOLEAN]

\* Wait returns after the end of a process.
WaitedIsDead == \A k \in DOMAIN child : child[k].waited => Dead(k)

\* Start holds the mutex from its probe to its last poll, and goes on only without
\* a child that it takes for alive.
Mutex ==
    \A c \in Callers :
        /\ pc[c] \in {"probe", "spawn", "poll"} <=> mu = c
        /\ pc[c] \in {"probe", "spawn"} => ~Ours
        /\ pc[c] = "poll" => polls < MaxPolls
        /\ pc[c] = "stop" => purpose[c] = "stop"

\* The manager's address is its child's as soon as the child is started.
BaseIsChilds == cmd # 0 /\ ~Dead(cmd) => state.base = child[cmd].port

IInv == TypeOK /\ WaitedIsDead /\ Mutex /\ OneLiveChild /\ BaseIsChilds

-----------------------------------------------------------------------------
LEMMA InitInv == Init => IInv
<1> SUFFICES ASSUME Init PROVE IInv
  OBVIOUS
<1>1. TypeOK
  <2>1. calls \in 0..MaxCalls /\ tenancies \in 0..MaxTenancies /\ polls \in 0..MaxPolls
    BY BoundsAssumption DEF Init
  <2>2. child \in Seq(Child) /\ cmd \in 0..Len(child)
    BY DEF Init
  <2>3. state \in [running : BOOLEAN, external : BOOLEAN, base : Ports]
    BY PortAssumption DEF Init
  <2>4. /\ pc \in [Callers -> {"idle", "status", "start", "probe", "spawn", "poll", "recheck", "stop"}]
        /\ purpose \in [Callers -> {"none", "ensure", "ensureRunning", "stop"}]
        /\ result \in [Callers -> {"none", "ok", "error"}]
    BY DEF Init
  <2> QED BY <2>1, <2>2, <2>3, <2>4 DEF Init, TypeOK, Child
<1>2. Mutex
  BY CallersAssumption DEF Init, Mutex
<1> QED BY <1>1, <1>2 DEF Init, IInv, WaitedIsDead, OneLiveChild, BaseIsChilds

-----------------------------------------------------------------------------
(* The host *)

\* What a step of a child may change: nothing of a dead one but that Wait returns.
ChildAges ==
    /\ child' \in Seq(Child) /\ Len(child') = Len(child)
    /\ \A j \in DOMAIN child :
        /\ child'[j].port = child[j].port /\ child'[j].killed = child[j].killed
        /\ Dead(j) => child'[j].status = child[j].status
        /\ child[j].waited => child'[j].waited
        /\ child'[j].waited => child[j].waited \/ Dead(j)

\* One child of the sequence becomes r.
LEMMA OneChildChanges ==
    ASSUME child \in Seq(Child), NEW k \in DOMAIN child, NEW r \in Child,
           child' = [child EXCEPT ![k] = r]
    PROVE  /\ child' \in Seq(Child) /\ Len(child') = Len(child)
           /\ DOMAIN child' = DOMAIN child
           /\ child'[k] = r /\ \A j \in DOMAIN child : j # k => child'[j] = child[j]
  OBVIOUS

LEMMA ChildSteps ==
    ASSUME IInv, NEW k \in DOMAIN child,
           ChildBinds(k) \/ Reap(k) \/ (\E how \in {"exited", "signalled"} : ChildEnds(k, how))
    PROVE  ChildAges /\ UNCHANGED <<env, manager, caller>>
<1>1. child \in Seq(Child) /\ child[k] \in Child
  <2>1. child \in Seq(Child)
    BY DEF IInv, TypeOK, Child
  <2> QED BY <2>1
<1>2. ASSUME NEW s \in {"serving", "exited", "signalled"}, ~Dead(k),
             child' = [child EXCEPT ![k] = [child[k] EXCEPT !.status = s]]
      PROVE  ChildAges
  <2> DEFINE r == [child[k] EXCEPT !.status = s]
  <2>1. /\ r \in Child /\ r.port = child[k].port /\ r.killed = child[k].killed
        /\ r.waited = child[k].waited
    BY <1>1, <1>2 DEF Child
  <2>2. child' = [child EXCEPT ![k] = r]
    BY <1>2
  <2> HIDE DEF r
  <2> QED BY <1>1, <1>2, <2>1, <2>2, OneChildChanges DEF ChildAges
<1>3. CASE ChildBinds(k)
  <2>1. \E s \in {"serving", "exited"} :
            child' = [child EXCEPT ![k] = [child[k] EXCEPT !.status = s]]
    BY <1>1, <1>3 DEF ChildBinds
  <2>2. ~Dead(k)
    BY <1>3 DEF ChildBinds, Dead
  <2> QED BY <1>2, <1>3, <2>1, <2>2 DEF ChildBinds
<1>4. ASSUME NEW how \in {"exited", "signalled"}, ChildEnds(k, how)
      PROVE  ChildAges /\ UNCHANGED <<env, manager, caller>>
  <2>1. ~Dead(k)
    BY <1>4 DEF ChildEnds, Dead
  <2> QED BY <1>2, <1>4, <2>1 DEF ChildEnds
<1>5. CASE Reap(k)
  <2> DEFINE r == [child[k] EXCEPT !.waited = TRUE]
  <2>1. /\ r \in Child /\ r.port = child[k].port /\ r.killed = child[k].killed
        /\ r.waited = TRUE /\ r.status = child[k].status
    BY <1>1 DEF Child
  <2>2. child' = [child EXCEPT ![k] = r] /\ Dead(k)
    BY <1>5 DEF Reap
  <2> HIDE DEF r
  <2>3. ChildAges
    BY <1>1, <2>1, <2>2, OneChildChanges DEF ChildAges
  <2> QED BY <1>5, <2>3 DEF Reap
<1> QED BY <1>3, <1>4, <1>5

LEMMA HostInv == IInv /\ Host => IInv'
<1> SUFFICES ASSUME IInv, Host PROVE IInv'
  OBVIOUS
<1>1. ASSUME ChildAges, UNCHANGED <<env, manager, caller>> PROVE IInv'
  <2>1. DOMAIN child' = DOMAIN child /\ cmd \in 0..Len(child) /\ cmd' = cmd
    BY <1>1 DEF ChildAges, manager, IInv, TypeOK, Child
  <2>2. \A j \in DOMAIN child : (Dead(j) => Dead(j)') /\ (Exited(j) => Exited(j)')
    BY <1>1, <2>1 DEF ChildAges, Dead, Exited, IInv, WaitedIsDead
  <2>3. TypeOK'
    BY <1>1, <2>1 DEF ChildAges, Child, env, manager, caller, IInv, TypeOK
  <2>4. cmd # 0 => cmd \in DOMAIN child
    BY <2>1 DEF IInv, TypeOK
  <2>5. Mutex'
    BY <1>1, <2>2, <2>4 DEF manager, caller, IInv, Mutex, Ours
  <2>6. WaitedIsDead'
    BY <1>1, <2>1, <2>2 DEF ChildAges, IInv, WaitedIsDead
  <2>7. OneLiveChild'
    BY <1>1, <2>1, <2>2 DEF ChildAges, IInv, OneLiveChild
  <2>8. BaseIsChilds'
    BY <1>1, <2>1, <2>2, <2>4 DEF ChildAges, manager, IInv, BaseIsChilds
  <2> QED BY <2>3, <2>5, <2>6, <2>7, <2>8 DEF IInv
<1>2. ASSUME NEW p \in Ports, Tenancy(p) PROVE IInv'
  <2>1. UNCHANGED <<child, manager, caller>>
    BY <1>2 DEF Tenancy
  <2>2. tenant' \in [Ports -> {"free", "external", "other"}]
    BY <1>2 DEF Tenancy, IInv, TypeOK
  <2>3. tenancies' \in 0..MaxTenancies
    BY <1>2, BoundsAssumption DEF Tenancy, IInv, TypeOK
  <2>4. TypeOK'
    BY <2>1, <2>2, <2>3 DEF manager, caller, IInv, TypeOK
  <2> QED BY <2>1, <2>4 DEF manager, caller, IInv, WaitedIsDead, Mutex, OneLiveChild,
             BaseIsChilds, Dead, Ours, Exited
<1> QED BY <1>1, <1>2, ChildSteps DEF Host

-----------------------------------------------------------------------------
(* The manager *)

\* A health check touches neither the base nor a type.
LEMMA RefreshedType ==
    ASSUME IInv, NEW own
    PROVE  /\ Refreshed(own) \in [running : BOOLEAN, external : BOOLEAN, base : Ports]
           /\ Refreshed(own).base = state.base
           /\ Refreshed(own).running => Healthy(state.base)
<1>1. state \in [running : BOOLEAN, external : BOOLEAN, base : Ports]
  BY DEF IInv, TypeOK
<1> DEFINE running == Healthy(state.base) /\ ~(own # 0 /\ Exited(own))
           external == running /\ own = 0
<1>2. running \in BOOLEAN /\ external \in BOOLEAN
  OBVIOUS
<1>3. Refreshed(own) = [state EXCEPT !.running = running, !.external = external]
  BY DEF Refreshed
<1>4. running => Healthy(state.base)
  OBVIOUS
<1> HIDE DEF running, external
<1> QED BY <1>1, <1>2, <1>3, <1>4

\* Where a caller that moves may go.
Places == {"idle", "status", "start", "probe", "spawn", "poll", "recheck", "stop"}

\* How caller c moves: alone, to a place, with a purpose and a result.
CallerMoves(c) ==
    \E where \in Places, what \in {"none", "ensure", "ensureRunning", "stop"},
       r \in {"none", "ok", "error"} :
        /\ pc' = [pc EXCEPT ![c] = where]
        /\ purpose' = [purpose EXCEPT ![c] = what]
        /\ result' = [result EXCEPT ![c] = r]

LEMMA MoveTypes ==
    ASSUME IInv, NEW c \in Callers, CallerMoves(c)
    PROVE  /\ pc' \in [Callers -> Places]
           /\ purpose' \in [Callers -> {"none", "ensure", "ensureRunning", "stop"}]
           /\ result' \in [Callers -> {"none", "ok", "error"}]
           /\ \A d \in Callers \ {c} :
                pc'[d] = pc[d] /\ purpose'[d] = purpose[d] /\ result'[d] = result[d]
           /\ pc'[c] \in Places
  BY DEF CallerMoves, IInv, TypeOK, Places

\* A step of c that starts and kills no child keeps the invariant, if it leaves the
\* base alone or there is no live child, and if it keeps to the mutex.
LEMMA QuietStep ==
    ASSUME IInv, NEW c \in Callers, CallerMoves(c), UNCHANGED <<env, child, cmd>>,
           calls' \in 0..MaxCalls, polls' \in 0..MaxPolls, polls' = polls \/ mu = c,
           state' \in [running : BOOLEAN, external : BOOLEAN, base : Ports],
           state'.base = state.base \/ ~Ours,
           mu' = mu \/ (mu' = "none" /\ mu = c) \/ (mu = "none" /\ mu' = c),
           pc'[c] \in {"probe", "spawn", "poll"} <=> mu' = c,
           pc'[c] \in {"probe", "spawn"} => ~Ours,
           pc'[c] = "poll" => polls' < MaxPolls,
           pc'[c] = "stop" => purpose'[c] = "stop"
    PROVE  IInv'
<1>1. TypeOK'
  <2>1. mu' \in Callers \cup {"none"}
    BY DEF IInv, TypeOK
  <2> QED BY <2>1, MoveTypes DEF Places, env, IInv, TypeOK
<1>2. \A d \in Callers \ {c} : mu' = d <=> mu = d
  BY CallersAssumption
<1>3. Ours' <=> Ours
  BY DEF Ours, Exited
<1>4. Mutex'
  <2>1. \A d \in Callers \ {c} : pc[d] = "poll" => polls' = polls
    BY CallersAssumption DEF IInv, Mutex
  <2> QED BY <1>2, <1>3, <2>1, MoveTypes DEF IInv, Mutex
<1>5. BaseIsChilds'
  <2>1. CASE state'.base = state.base
    BY <2>1 DEF IInv, BaseIsChilds, Dead
  <2>2. CASE ~Ours
    <3>1. cmd # 0 => cmd \in DOMAIN child
      BY DEF IInv, TypeOK
    <3>2. cmd # 0 => Dead(cmd)
      BY <2>2, <3>1 DEF Ours, Exited, IInv, WaitedIsDead
    <3> QED BY <3>2 DEF BaseIsChilds, Dead
  <2> QED BY <2>1, <2>2
<1>6. WaitedIsDead' /\ OneLiveChild'
  BY DEF IInv, WaitedIsDead, OneLiveChild, Dead
<1> QED BY <1>1, <1>4, <1>5, <1>6 DEF IInv

\* Go, Moves, Returns and Calls are moves of one caller.
LEMMA Moving ==
    ASSUME IInv, NEW c \in Callers
    PROVE  /\ \A where \in Places : Moves(c, where) => CallerMoves(c) /\ pc'[c] = where
           /\ \A r \in {"ok", "error"} : Returns(c, r) => CallerMoves(c) /\ pc'[c] = "idle"
           /\ \A what \in {"ensure", "ensureRunning", "stop"} :
                Calls(c, what) =>
                    /\ CallerMoves(c) /\ purpose'[c] = what
                    /\ pc'[c] = IF what = "stop" THEN "stop" ELSE "status"
<1>1. /\ pc \in [Callers -> Places]
      /\ purpose \in [Callers -> {"none", "ensure", "ensureRunning", "stop"}]
      /\ result \in [Callers -> {"none", "ok", "error"}]
  BY DEF IInv, TypeOK, Places
<1>2. /\ purpose = [purpose EXCEPT ![c] = purpose[c]] /\ result = [result EXCEPT ![c] = result[c]]
      /\ purpose[c] \in {"none", "ensure", "ensureRunning", "stop"}
      /\ result[c] \in {"none", "ok", "error"}
  BY <1>1
<1>3. ASSUME NEW where \in Places, Moves(c, where) PROVE CallerMoves(c) /\ pc'[c] = where
  BY <1>1, <1>2, <1>3 DEF Moves, Go, CallerMoves
<1>4. ASSUME NEW r \in {"ok", "error"}, Returns(c, r) PROVE CallerMoves(c) /\ pc'[c] = "idle"
  BY <1>1, <1>4 DEF Returns, Go, CallerMoves, Places
<1>5. ASSUME NEW what \in {"ensure", "ensureRunning", "stop"}, Calls(c, what)
      PROVE  /\ CallerMoves(c) /\ purpose'[c] = what
             /\ pc'[c] = IF what = "stop" THEN "stop" ELSE "status"
  BY <1>1, <1>5 DEF Calls, Go, CallerMoves, Places
<1> QED BY <1>3, <1>4, <1>5

\* Start's caller goes on outside the mutex.
LEMMA StartedMoves ==
    ASSUME IInv, NEW c \in Callers, Started(c)
    PROVE  CallerMoves(c) /\ mu' = "none" /\ pc'[c] \in {"idle", "recheck"}
  BY Moving DEF Started, Places

LEMMA CallInv ==
    ASSUME IInv, NEW c \in Callers, NEW what \in {"ensure", "ensureRunning", "stop"}, Call(c, what)
    PROVE  IInv'
<1>1. Calls(c, what) /\ pc[c] = "idle" /\ UNCHANGED <<env, child, manager>>
  BY DEF Call, Calls
<1>2. /\ CallerMoves(c) /\ purpose'[c] = what
      /\ pc'[c] = IF what = "stop" THEN "stop" ELSE "status"
  BY <1>1, Moving
<1>3. calls' \in 0..MaxCalls
  BY BoundsAssumption DEF Call, Calls, IInv, TypeOK
<1>4. mu # c /\ polls \in 0..MaxPolls
      /\ state \in [running : BOOLEAN, external : BOOLEAN, base : Ports]
  BY <1>1 DEF IInv, TypeOK, Mutex
<1> QED BY <1>1, <1>2, <1>3, <1>4, QuietStep DEF manager

\* The steps of Status and Start that neither start a child nor poll one.
LEMMA StartInv ==
    ASSUME IInv, NEW c \in Callers,
           CheckStatus(c) \/ Recheck(c) \/ StartBegins(c) \/ NoBinary(c) \/ Reuse(c)
               \/ CannotReuse(c) \/ SpawnFails(c)
    PROVE  IInv'
<1>1. /\ calls \in 0..MaxCalls /\ polls \in 0..MaxPolls
      /\ state \in [running : BOOLEAN, external : BOOLEAN, base : Ports]
      /\ mu # "none" => mu \in Callers
  BY DEF IInv, TypeOK
<1>2. /\ pc[c] \in {"probe", "spawn", "poll"} <=> mu = c
      /\ pc[c] \in {"probe", "spawn"} => ~Ours
  BY DEF IInv, Mutex
<1>3. c # "none"
  BY CallersAssumption
<1>4. CASE CheckStatus(c)
  <2>1. CallerMoves(c) /\ pc'[c] \in {"idle", "start"}
    BY <1>4, Moving DEF CheckStatus, Places
  <2> QED BY <1>1, <1>2, <1>3, <1>4, <2>1, QuietStep, RefreshedType DEF CheckStatus
<1>5. CASE Recheck(c)
  <2>1. CallerMoves(c) /\ pc'[c] = "idle"
    BY <1>5, Moving DEF Recheck
  <2> QED BY <1>1, <1>2, <1>3, <1>5, <2>1, QuietStep, RefreshedType DEF Recheck
<1>6. CASE StartBegins(c)
  <2>1. /\ mu = "none" /\ UNCHANGED <<env, child, cmd, state, polls, calls>>
        /\ (Ours /\ Started(c)) \/ (~Ours /\ mu' = c /\ Moves(c, "probe"))
    BY <1>6 DEF StartBegins
  <2>2. CASE Started(c)
    BY <1>1, <1>3, <2>1, <2>2, StartedMoves, QuietStep
  <2>3. CASE ~Ours /\ mu' = c /\ Moves(c, "probe")
    <3>1. CallerMoves(c) /\ pc'[c] = "probe"
      BY <2>3, Moving DEF Places
    <3> QED BY <1>1, <1>3, <2>1, <2>3, <3>1, QuietStep
  <2> QED BY <2>1, <2>2, <2>3
<1>7. CASE NoBinary(c)
  <2>1. CallerMoves(c) /\ pc'[c] = "idle" /\ mu' = "none"
    BY <1>7, Moving DEF NoBinary, Fails
  <2> QED BY <1>1, <1>2, <1>3, <1>7, <2>1, QuietStep DEF NoBinary
<1>8. CASE Reuse(c)
  <2>1. CallerMoves(c) /\ pc'[c] \in {"idle", "recheck"} /\ mu' = "none"
    BY <1>8, StartedMoves DEF Reuse
  <2>2. state' \in [running : BOOLEAN, external : BOOLEAN, base : Ports]
    BY <1>1, <1>8, PortAssumption DEF Reuse
  <2> QED BY <1>1, <1>2, <1>3, <1>8, <2>1, <2>2, QuietStep DEF Reuse
<1>9. CASE CannotReuse(c)
  <2>1. Moves(c, "spawn") /\ UNCHANGED <<env, child, manager, calls>>
    BY <1>9 DEF CannotReuse, Moves
  <2>2. CallerMoves(c) /\ pc'[c] = "spawn" /\ pc[c] = "probe"
    BY <1>9, <2>1, Moving DEF Places, CannotReuse
  <2> QED BY <1>1, <1>2, <2>1, <2>2, QuietStep DEF manager
<1>10. CASE SpawnFails(c)
  <2>1. CallerMoves(c) /\ pc'[c] = "idle" /\ mu' = "none"
    BY <1>10, Moving DEF SpawnFails, Fails
  <2>2. state' \in [running : BOOLEAN, external : BOOLEAN, base : Ports]
    BY <1>1, <1>10 DEF SpawnFails, PickPort
  <2> QED BY <1>1, <1>2, <1>3, <1>10, <2>1, <2>2, QuietStep DEF SpawnFails
<1> QED BY <1>4, <1>5, <1>6, <1>7, <1>8, <1>9, <1>10

LEMMA PollInv == ASSUME IInv, NEW c \in Callers, Poll(c) PROVE IInv'
<1>1. /\ calls \in 0..MaxCalls /\ polls \in 0..MaxPolls /\ mu = c /\ polls < MaxPolls
      /\ c # "none" /\ pc[c] = "poll" /\ purpose[c] \in {"none", "ensure", "ensureRunning", "stop"}
  BY CallersAssumption DEF Poll, IInv, TypeOK, Mutex
<1>2. UNCHANGED <<env, child, cmd, calls>> /\ state' = Refreshed(cmd) /\ polls' = polls + 1
  BY DEF Poll
<1>3. polls' \in 0..MaxPolls
  BY <1>1, <1>2, BoundsAssumption
<1>4. CASE Started(c)
  BY <1>1, <1>2, <1>3, <1>4, StartedMoves, RefreshedType, QuietStep
<1>5. CASE Fails(c)
  <2>1. CallerMoves(c) /\ pc'[c] = "idle" /\ mu' = "none"
    BY <1>5, Moving DEF Fails
  <2> QED BY <1>1, <1>2, <1>3, <2>1, RefreshedType, QuietStep
<1>6. CASE ~(polls' >= MaxPolls) /\ UNCHANGED <<mu, pc, purpose, result>>
  <2>1. Moves(c, "poll") /\ polls' < MaxPolls
    BY <1>1, <1>3, <1>6, BoundsAssumption DEF Moves, Go, IInv, TypeOK
  <2>2. CallerMoves(c) /\ pc'[c] = "poll"
    BY <2>1, Moving DEF Places
  <2> QED BY <1>1, <1>2, <1>3, <1>6, <2>1, <2>2, RefreshedType, QuietStep
<1> QED BY <1>4, <1>5, <1>6 DEF Poll

\* Only a manager without a live child starts one, and it becomes the manager's.
LEMMA SpawnInv == ASSUME IInv, NEW c \in Callers, Spawn(c) PROVE IInv'
<1>1. /\ pc[c] = "spawn" /\ mu = c /\ ~Ours /\ c # "none"
      /\ child \in Seq(Child) /\ cmd \in 0..Len(child)
  BY CallersAssumption DEF Spawn, IInv, TypeOK, Mutex, Child
<1>2. PICK p \in Ports :
        /\ PickPort(p)
        /\ child' = Append(child, [port |-> p, status |-> "starting",
                                   waited |-> FALSE, killed |-> FALSE])
  BY DEF Spawn
<1>3. /\ state' = [state EXCEPT !.base = p] /\ cmd' = Len(child) + 1 /\ polls' = 0
      /\ pc' = [pc EXCEPT ![c] = "poll"] /\ UNCHANGED <<env, mu, purpose, result, calls>>
  BY <1>2 DEF Spawn, PickPort, Go
<1> DEFINE r == [port |-> p, status |-> "starting", waited |-> FALSE, killed |-> FALSE]
<1>4. r \in Child /\ r.port = p /\ r.status = "starting" /\ r.waited = FALSE
  BY DEF Child
<1>5. child' = Append(child, r)
  BY <1>2
<1> HIDE DEF r
<1>6. /\ child' \in Seq(Child) /\ Len(child') = Len(child) + 1
      /\ \A k \in DOMAIN child : child'[k] = child[k]
      /\ DOMAIN child' = DOMAIN child \cup {Len(child) + 1}
      /\ child'[Len(child) + 1] = r
  BY <1>1, <1>4, <1>5
<1>7. cmd # 0 => cmd \in DOMAIN child /\ Dead(cmd)
  BY <1>1 DEF Ours, Exited, IInv, WaitedIsDead
<1>8. TypeOK'
  <2>1. cmd' \in 0..Len(child') /\ polls' \in 0..MaxPolls
    BY <1>1, <1>3, <1>6, BoundsAssumption
  <2>2. state' \in [running : BOOLEAN, external : BOOLEAN, base : Ports]
    BY <1>3 DEF IInv, TypeOK
  <2>3. pc' \in [Callers -> Places]
    BY <1>3 DEF Places, IInv, TypeOK
  <2> QED BY <1>3, <1>6, <2>1, <2>2, <2>3 DEF Places, Child, env, IInv, TypeOK
<1>9. WaitedIsDead'
  BY <1>4, <1>6 DEF IInv, WaitedIsDead, Dead
<1>10. Mutex'
  <2>1. \A d \in Callers \ {c} : pc'[d] = pc[d] /\ mu # d
    BY <1>1, <1>3 DEF IInv, TypeOK
  <2>2. pc'[c] = "poll" /\ mu' = c /\ polls' < MaxPolls
    BY <1>1, <1>3, BoundsAssumption DEF IInv, TypeOK
  <2> QED BY <1>3, <2>1, <2>2 DEF IInv, Mutex
<1>11. OneLiveChild'
  <2>1. \A k \in DOMAIN child : Dead(k) \/ child[k].killed
    <3>1. \A k \in DOMAIN child : k # 0
      BY <1>1
    <3> QED BY <1>7, <3>1 DEF IInv, OneLiveChild
  <2> QED BY <1>3, <1>6, <2>1 DEF OneLiveChild, Dead
<1>12. BaseIsChilds'
  <2>1. state'.base = p
    BY <1>3 DEF IInv, TypeOK
  <2> QED BY <1>3, <1>4, <1>6, <2>1 DEF BaseIsChilds
<1> QED BY <1>8, <1>9, <1>10, <1>11, <1>12 DEF IInv

\* The child that Stop forgets has been killed.
LEMMA StopInv == ASSUME IInv, NEW c \in Callers, Stop(c) PROVE IInv'
<1>1. /\ pc[c] = "stop" /\ mu = "none" /\ cmd' = 0 /\ UNCHANGED <<env, mu, polls, calls>>
      /\ child \in Seq(Child) /\ cmd \in 0..Len(child) /\ c # "none"
  BY CallersAssumption DEF Stop, IInv, TypeOK, Child
<1>2. CallerMoves(c) /\ pc'[c] = "idle"
  BY Moving DEF Stop
<1>3. /\ child' \in Seq(Child) /\ Len(child') = Len(child) /\ DOMAIN child' = DOMAIN child
      /\ \A k \in DOMAIN child :
            /\ child'[k].status = child[k].status /\ child'[k].waited = child[k].waited
            /\ k = cmd => child'[k].killed
            /\ k # cmd => child'[k].killed = child[k].killed
  <2>1. CASE cmd = 0
    <3>1. child' = child
      BY <2>1 DEF Stop
    <3> QED BY <1>1, <2>1, <3>1
  <2>2. CASE cmd # 0
    <3> DEFINE r == [child[cmd] EXCEPT !.killed = TRUE]
    <3>1. cmd \in DOMAIN child /\ child[cmd] \in Child
      BY <1>1, <2>2
    <3>2. /\ r \in Child /\ r.status = child[cmd].status /\ r.waited = child[cmd].waited
          /\ r.killed = TRUE
      BY <3>1 DEF Child
    <3>3. child' = [child EXCEPT ![cmd] = r]
      BY <2>2 DEF Stop
    <3> HIDE DEF r
    <3> QED BY <1>1, <3>1, <3>2, <3>3, OneChildChanges
  <2> QED BY <2>1, <2>2
<1>4. TypeOK'
  <2>1. state' \in [running : BOOLEAN, external : BOOLEAN, base : Ports]
    <3>1. state \in [running : BOOLEAN, external : BOOLEAN, base : Ports]
      BY DEF IInv, TypeOK
    <3> QED BY <3>1, RefreshedType DEF Stop
  <2>2. cmd' \in 0..Len(child')
    BY <1>1, <1>3
  <2> QED BY <1>1, <1>2, <1>3, <2>1, <2>2, MoveTypes DEF Places, Child, env, IInv, TypeOK
<1>5. Mutex'
  BY <1>1, <1>2, MoveTypes DEF IInv, Mutex, Ours
<1>6. WaitedIsDead' /\ OneLiveChild' /\ BaseIsChilds'
  BY <1>1, <1>3 DEF IInv, WaitedIsDead, OneLiveChild, BaseIsChilds, Dead
<1> QED BY <1>4, <1>5, <1>6 DEF IInv

LEMMA StepInv == IInv /\ [Next]_vars => IInv'
<1> SUFFICES ASSUME IInv, [Next]_vars PROVE IInv'
  OBVIOUS
<1>1. CASE Host
  BY <1>1, HostInv
<1>2. ASSUME NEW c \in Callers, Step(c) PROVE IInv'
  BY <1>2, StartInv, SpawnInv, PollInv, StopInv DEF Step
<1>3. ASSUME NEW c \in Callers, NEW what \in {"ensure", "ensureRunning", "stop"}, Call(c, what)
      PROVE  IInv'
  BY <1>3, CallInv
<1>4. CASE UNCHANGED vars
  BY <1>4 DEF vars, env, manager, caller, IInv, TypeOK, WaitedIsDead, Mutex, OneLiveChild,
              BaseIsChilds, Dead, Ours, Exited
<1> QED BY <1>1, <1>2, <1>3, <1>4 DEF Next

-----------------------------------------------------------------------------
\* The manager, its children and its callers fit together in every reachable state.
THEOREM ManagerInvariant == Spec => []IInv
  BY InitInv, StepInv, PTL DEF Spec

\* Type correctness; in particular Start's polls are bounded.
THEOREM ManagerTypeOK == Spec => []TypeOK
<1>1. IInv => TypeOK
  BY DEF IInv
<1> QED BY <1>1, ManagerInvariant, PTL

\* No child is leaked: any number of callers, one live child at most, the manager's.
THEOREM ManagerOneLiveChild == Spec => []OneLiveChild
<1>1. IInv => OneLiveChild
  BY DEF IInv
<1> QED BY <1>1, ManagerInvariant, PTL

\* The address handed to the gateway is that of the serving child.
THEOREM ManagerBaseFollowsChild == Spec => []BaseFollowsChild
<1>1. IInv => BaseFollowsChild
  BY DEF IInv, BaseIsChilds, BaseFollowsChild, Dead
<1> QED BY <1>1, ManagerInvariant, PTL

\* Where any end of a process counts as an exit, ensure is not in vain.
LEMMA EnsureStep ==
    ASSUME ~Unix, IInv, [Next]_vars, NEW c \in Callers,
           purpose[c] = "ensure", pc[c] # "idle", pc'[c] = "idle", result'[c] = "ok"
    PROVE  \/ Healthy(state'.base)
           \/ cmd # 0 /\ ~(Dead(cmd) /\ child[cmd].waited)
<1>1. ~Host /\ ~UNCHANGED vars
  BY DEF Host, ChildBinds, Reap, ChildEnds, Tenancy, vars, caller
<1>2. ASSUME NEW d \in Callers, NEW what \in {"ensure", "ensureRunning", "stop"}, Call(d, what)
      PROVE  FALSE
  <2>1. pc[d] = "idle" /\ CallerMoves(d)
    BY <1>2, Moving DEF Call, Calls
  <2>2. d = c
    BY <2>1, MoveTypes
  <2> QED BY <2>1, <2>2
<1>3. PICK d \in Callers : Step(d)
  BY <1>1, <1>2 DEF Next
<1>4. d = c
  <2>1. CASE d # c
    <3>1. pc'[c] = pc[c]
      BY <1>3, <2>1 DEF Step, CheckStatus, StartBegins, NoBinary, Reuse, CannotReuse, Spawn,
         SpawnFails, Poll, Recheck, Stop, Started, Fails, Moves, Returns, Go, IInv, TypeOK
    <3> QED BY <3>1
  <2> QED BY <2>1
<1>5. state \in [running : BOOLEAN, external : BOOLEAN, base : Ports]
  BY DEF IInv, TypeOK
<1>6. CASE CheckStatus(c) \/ Recheck(c) \/ Poll(c)
  <2>1. state' = Refreshed(cmd) /\ state'.running
    BY <1>6 DEF CheckStatus, Recheck, Poll, Returns, Fails, Moves, Go, IInv, TypeOK
  <2> QED BY <2>1, RefreshedType
<1>7. CASE StartBegins(c)
  <2>1. Ours
    BY <1>7 DEF StartBegins, Moves, Go, IInv, TypeOK
  <2> QED BY <2>1 DEF Ours, Exited
<1>8. CASE Reuse(c)
  BY <1>5, <1>8 DEF Reuse
<1>9. CASE NoBinary(c) \/ SpawnFails(c)
  BY <1>9 DEF NoBinary, SpawnFails, Fails, Returns, IInv, TypeOK
<1>10. CASE CannotReuse(c) \/ Spawn(c)
  BY <1>10 DEF CannotReuse, Spawn, Go, IInv, TypeOK
<1>11. CASE Stop(c)
  BY <1>11 DEF Stop, IInv, Mutex
<1> QED BY <1>3, <1>4, <1>6, <1>7, <1>8, <1>9, <1>10, <1>11 DEF Step

\* A gateway request is not told of a proxy that nobody answers for, on a system
\* that reports any end of a process as an exit (Windows).
THEOREM ManagerEnsureIsNotInVain == ASSUME ~Unix PROVE Spec => EnsureIsNotInVain
<1>1. IInv /\ [Next]_vars =>
        [\A c \in Callers :
            purpose[c] = "ensure" /\ pc[c] # "idle" /\ pc'[c] = "idle" /\ result'[c] = "ok" =>
                \/ Healthy(state'.base)
                \/ cmd # 0 /\ ~(Dead(cmd) /\ child[cmd].waited)]_vars
  BY EnsureStep
<1> QED BY <1>1, ManagerInvariant, PTL DEF Spec, EnsureIsNotInVain

-----------------------------------------------------------------------------
(* Gateway *)

Stages == {"none", "ensuring", "resolve", "forward", "starting", "quitting"}

RequestTypes ==
    /\ stage \in [Callers -> Stages] /\ target \in [Callers -> Ports]
    /\ owner \in [Callers -> Nat]

\* A request knows of no child to come; and one that is forwarded goes to the child
\* it was brought up for, from the moment that child is started to its end.
Forwarding ==
    \A c \in Callers :
        /\ owner[c] <= Len(child)
        /\ stage[c] = "forward" /\ owner[c] # 0 /\ cmd = owner[c] /\ ~Dead(cmd)
            => target[c] = child[cmd].port

GatewayIInv == IInv /\ RequestTypes /\ Forwarding

LEMMA GatewayInitInv == GatewayInit => GatewayIInv
<1> SUFFICES ASSUME GatewayInit PROVE GatewayIInv
  OBVIOUS
<1>1. RequestTypes
  BY PortAssumption DEF GatewayInit, RequestTypes, Stages
<1>2. Forwarding
  BY DEF GatewayInit, Init, Forwarding
<1> QED BY <1>1, <1>2, InitInv DEF GatewayInit, GatewayIInv

-----------------------------------------------------------------------------
(* The steps of the manager *)

\* Children keep their ports, and the dead stay dead; the manager keeps its child,
\* gives it up, or has a new one.
Grows ==
    /\ Len(child') >= Len(child)
    /\ \A k \in DOMAIN child :
        k \in DOMAIN child' /\ child'[k].port = child[k].port /\ (Dead(k) => Dead(k)')
    /\ cmd' = cmd \/ cmd' = 0 \/ cmd' > Len(child)

LEMMA ChildTypes == ASSUME IInv PROVE child \in Seq(Child) /\ cmd \in 0..Len(child)
  BY DEF IInv, TypeOK, Child

LEMMA HostGrows == IInv /\ Host => Grows
<1> SUFFICES ASSUME IInv, Host PROVE Grows
  OBVIOUS
<1>1. child \in Seq(Child)
  BY ChildTypes
<1>2. CASE ChildAges /\ UNCHANGED <<env, manager, caller>>
  BY <1>1, <1>2 DEF ChildAges, manager, Grows, Dead
<1>3. CASE UNCHANGED <<child, manager, caller>>
  BY <1>1, <1>3 DEF manager, Grows, Dead
<1> QED BY <1>2, <1>3, ChildSteps DEF Host, Tenancy

LEMMA StepGrows == ASSUME IInv, NEW c \in Callers, Step(c) PROVE Grows
<1>1. child \in Seq(Child) /\ cmd \in 0..Len(child)
  BY ChildTypes
<1>2. CASE UNCHANGED <<child, cmd>>
  BY <1>1, <1>2 DEF Grows, Dead
<1>3. CASE Spawn(c)
  <2>1. PICK p \in Ports :
            child' = Append(child, [port |-> p, status |-> "starting",
                                    waited |-> FALSE, killed |-> FALSE])
    BY <1>3 DEF Spawn
  <2> DEFINE r == [port |-> p, status |-> "starting", waited |-> FALSE, killed |-> FALSE]
  <2>2. r \in Child /\ child' = Append(child, r)
    BY <2>1 DEF Child
  <2> HIDE DEF r
  <2>3. /\ Len(child') = Len(child) + 1
        /\ \A k \in DOMAIN child : k \in DOMAIN child' /\ child'[k] = child[k]
    BY <1>1, <2>2
  <2>4. cmd' = Len(child) + 1
    BY <1>3 DEF Spawn
  <2> QED BY <1>1, <2>3, <2>4 DEF Grows, Dead
<1>4. CASE Stop(c)
  <2>1. CASE cmd = 0
    BY <1>1, <1>4, <2>1 DEF Stop, Grows, Dead
  <2>2. CASE cmd # 0
    <3> DEFINE r == [child[cmd] EXCEPT !.killed = TRUE]
    <3>1. cmd \in DOMAIN child /\ child[cmd] \in Child
      BY <1>1, <2>2
    <3>2. r \in Child /\ r.status = child[cmd].status /\ r.port = child[cmd].port
      BY <3>1 DEF Child
    <3>3. child' = [child EXCEPT ![cmd] = r] /\ cmd' = 0
      BY <1>4, <2>2 DEF Stop
    <3> HIDE DEF r
    <3>4. /\ Len(child') = Len(child) /\ DOMAIN child' = DOMAIN child
          /\ child'[cmd] = r /\ \A j \in DOMAIN child : j # cmd => child'[j] = child[j]
      BY <1>1, <3>1, <3>2, <3>3, OneChildChanges
    <3> QED BY <1>1, <3>2, <3>3, <3>4 DEF Grows, Dead
  <2> QED BY <2>1, <2>2
<1> QED BY <1>2, <1>3, <1>4 DEF Step, CheckStatus, StartBegins, NoBinary, Reuse, CannotReuse,
         SpawnFails, Poll, Recheck, manager

\* A step of the manager that the requests do not notice.
LEMMA GrowsKeeps ==
    ASSUME GatewayIInv, IInv', Grows, UNCHANGED requests
    PROVE  GatewayIInv'
<1>1. /\ child \in Seq(Child) /\ cmd \in 0..Len(child)
      /\ child' \in Seq(Child) /\ cmd' \in 0..Len(child')
  BY DEF GatewayIInv, IInv, TypeOK, Child
<1>2. RequestTypes'
  BY DEF GatewayIInv, RequestTypes, requests
<1>3. Forwarding'
  <2> SUFFICES ASSUME NEW c \in Callers
               PROVE  /\ owner[c] <= Len(child')
                      /\ stage[c] = "forward" /\ owner[c] # 0 /\ cmd' = owner[c] /\ ~Dead(cmd)'
                            => target[c] = child'[cmd'].port
    BY DEF Forwarding, requests
  <2>1. owner[c] \in Nat /\ owner[c] <= Len(child) /\ Len(child') >= Len(child)
    BY DEF GatewayIInv, RequestTypes, Forwarding, Grows
  <2>2. ASSUME stage[c] = "forward", owner[c] # 0, cmd' = owner[c], ~Dead(cmd)'
        PROVE  target[c] = child'[cmd'].port
    <3>1. cmd' = cmd /\ cmd \in DOMAIN child
      BY <1>1, <2>1, <2>2 DEF Grows
    <3>2. ~Dead(cmd) /\ child'[cmd].port = child[cmd].port
      BY <2>2, <3>1 DEF Grows
    <3> QED BY <2>2, <3>1, <3>2 DEF GatewayIInv, Forwarding
  <2> QED BY <1>1, <2>1, <2>2
<1> QED BY <1>2, <1>3 DEF GatewayIInv

-----------------------------------------------------------------------------
(* The steps of the gateway *)

\* A step of caller c that leaves the children alone and does not forward its request
\* elsewhere.
LEMMA RequestStep ==
    ASSUME GatewayIInv, NEW c \in Callers, IInv', UNCHANGED <<child, cmd>>,
           NEW where \in Stages, stage' = [stage EXCEPT ![c] = where],
           NEW k \in 0..Len(child), owner' = [owner EXCEPT ![c] = k],
           NEW p \in Ports, target' = [target EXCEPT ![c] = p],
           where = "forward" /\ k # 0 /\ cmd = k /\ ~Dead(cmd) => p = child[cmd].port
    PROVE  GatewayIInv'
<1>1. child \in Seq(Child)
  BY ChildTypes DEF GatewayIInv
<1>2. RequestTypes'
  BY <1>1 DEF GatewayIInv, RequestTypes
<1>3. Forwarding'
  BY <1>1 DEF GatewayIInv, RequestTypes, Forwarding, Dead
<1> QED BY <1>2, <1>3 DEF GatewayIInv

LEMMA UnchangedInv == ASSUME IInv, UNCHANGED vars PROVE IInv'
  BY StepInv

\* Quit brings the manager another Stop, whose caller is like any other.
LEMMA ShutdownInv == ASSUME IInv, NEW c \in Callers, ShutdownProxy(c) PROVE IInv'
<1>1. /\ pc[c] = "idle" /\ UNCHANGED <<env, child, manager, result, calls>>
      /\ pc' = [pc EXCEPT ![c] = "stop"] /\ purpose' = [purpose EXCEPT ![c] = "stop"]
  BY DEF ShutdownProxy, Go
<1>2. result' = [result EXCEPT ![c] = result[c]] /\ result[c] \in {"none", "ok", "error"}
  BY <1>1 DEF IInv, TypeOK
<1>3. CallerMoves(c) /\ pc'[c] = "stop" /\ purpose'[c] = "stop"
  BY <1>1, <1>2 DEF CallerMoves, Places, IInv, TypeOK
<1>4. /\ mu # c /\ polls \in 0..MaxPolls /\ calls \in 0..MaxCalls
      /\ state \in [running : BOOLEAN, external : BOOLEAN, base : Ports]
  BY <1>1 DEF IInv, TypeOK, Mutex
<1> QED BY <1>1, <1>3, <1>4, QuietStep DEF manager

LEMMA ToggleInv == ASSUME IInv, NEW c \in Callers, ToggleProxy(c) PROVE IInv'
<1> DEFINE what == IF state'.running THEN "stop" ELSE "ensureRunning"
<1>1. /\ Calls(c, what) /\ pc[c] = "idle" /\ mu = "none"
      /\ state' = Refreshed(cmd) /\ UNCHANGED <<env, child, cmd, mu, polls>>
  BY DEF ToggleProxy, Calls
<1>2. what \in {"ensure", "ensureRunning", "stop"}
  OBVIOUS
<1>3. calls' \in 0..MaxCalls
  BY <1>1, BoundsAssumption DEF Calls, IInv, TypeOK
<1> HIDE DEF what
<1>4. /\ CallerMoves(c) /\ purpose'[c] = what
      /\ pc'[c] = IF what = "stop" THEN "stop" ELSE "status"
  BY <1>1, <1>2, Moving
<1>5. /\ polls \in 0..MaxPolls /\ c # "none"
      /\ Refreshed(cmd) \in [running : BOOLEAN, external : BOOLEAN, base : Ports]
      /\ Refreshed(cmd).base = state.base
  BY RefreshedType, CallersAssumption DEF IInv, TypeOK
<1> QED BY <1>1, <1>3, <1>4, <1>5, QuietStep

\* A click, or a request, that calls the manager.
LEMMA CallsInv ==
    ASSUME GatewayIInv, NEW c \in Callers, Request(c) \/ StartGateway(c)
    PROVE  GatewayIInv'
<1>1. PICK what \in {"ensure", "ensureRunning", "stop"} : Call(c, what)
  BY DEF Request, StartGateway
<1>2. IInv'
  BY <1>1, CallInv DEF GatewayIInv
<1>3. UNCHANGED <<child, cmd, target, owner>>
  BY DEF Request, StartGateway, Call, manager
<1>4. PICK where \in Stages \ {"forward"} : stage' = [stage EXCEPT ![c] = where]
  BY DEF Request, StartGateway, Goes, Stages
<1>5. /\ owner' = [owner EXCEPT ![c] = owner[c]] /\ target' = [target EXCEPT ![c] = target[c]]
      /\ owner[c] \in 0..Len(child) /\ target[c] \in Ports
  <2>1. owner[c] \in Nat /\ owner[c] <= Len(child) /\ child \in Seq(Child)
    BY ChildTypes DEF GatewayIInv, RequestTypes, Forwarding
  <2> QED BY <1>3, <2>1 DEF GatewayIInv, RequestTypes
<1> QED BY <1>2, <1>3, <1>4, <1>5, RequestStep

\* What a caller does between its calls.  The address is resolved while nobody starts
\* a child, and is then that of the manager's.
LEMMA ServeInv == ASSUME GatewayIInv, NEW c \in Callers, Serve(c) PROVE GatewayIInv'
<1>1. /\ child \in Seq(Child) /\ cmd \in 0..Len(child) /\ state.base \in Ports
      /\ owner[c] \in 0..Len(child) /\ target[c] \in Ports /\ Configured \in Ports
  <2>1. owner[c] \in Nat /\ owner[c] <= Len(child) /\ child \in Seq(Child)
            /\ cmd \in 0..Len(child)
    BY ChildTypes DEF GatewayIInv, RequestTypes, Forwarding
  <2> QED BY <2>1, PortAssumption DEF GatewayIInv, RequestTypes, IInv, TypeOK
<1>2. UNCHANGED vars
  BY DEF Serve, EnsureFails, Ensured, Resolve, Forward, ProxyNotReady, Listen
<1>3. IInv' /\ UNCHANGED <<child, cmd>>
  BY <1>2, UnchangedInv DEF GatewayIInv, vars, manager
<1>4. owner = [owner EXCEPT ![c] = owner[c]] /\ target = [target EXCEPT ![c] = target[c]]
  BY DEF GatewayIInv, RequestTypes
<1>5. CASE EnsureFails(c) \/ ProxyNotReady(c) \/ Listen(c)
  <2>1. stage' = [stage EXCEPT ![c] = "none"] /\ UNCHANGED <<owner, target>>
    BY <1>5 DEF EnsureFails, ProxyNotReady, Listen, Goes
  <2> QED BY <1>1, <1>3, <1>4, <2>1, RequestStep DEF Stages
<1>6. CASE Ensured(c)
  <2>1. /\ stage' = [stage EXCEPT ![c] = "resolve"] /\ owner' = [owner EXCEPT ![c] = cmd]
        /\ UNCHANGED target
    BY <1>6 DEF Ensured, Goes
  <2> QED BY <1>1, <1>3, <1>4, <2>1, RequestStep DEF Stages
<1>7. CASE Resolve(c)
  <2>1. /\ stage' = [stage EXCEPT ![c] = "forward"] /\ UNCHANGED owner
        /\ target' = [target EXCEPT ![c] = state.base]
    BY <1>7 DEF Resolve, Goes
  <2>2. owner[c] # 0 /\ cmd = owner[c] /\ ~Dead(cmd) => state.base = child[cmd].port
    BY DEF GatewayIInv, IInv, BaseIsChilds
  <2> QED BY <1>1, <1>3, <1>4, <2>1, <2>2, RequestStep DEF Stages
<1>8. CASE Forward(c)
  <2>1. /\ stage' = [stage EXCEPT ![c] = "none"] /\ owner' = [owner EXCEPT ![c] = 0]
        /\ target' = [target EXCEPT ![c] = Configured]
    BY <1>8 DEF Forward, Goes
  <2>2. 0 \in 0..Len(child) /\ "none" \in Stages
    BY <1>1 DEF Stages
  <2> QED BY <1>1, <1>3, <2>1, <2>2, RequestStep
<1> QED BY <1>5, <1>6, <1>7, <1>8 DEF Serve

LEMMA NoRequestStep ==
    ASSUME GatewayIInv, IInv', UNCHANGED <<child, cmd, requests>> PROVE GatewayIInv'
  BY DEF GatewayIInv, RequestTypes, Forwarding, requests, Dead

LEMMA GatewayStepInv == GatewayIInv /\ [GatewayNext]_all => GatewayIInv'
<1> SUFFICES ASSUME GatewayIInv, [GatewayNext]_all PROVE GatewayIInv'
  OBVIOUS
<1>1. IInv
  BY DEF GatewayIInv
<1>2. CASE Host /\ UNCHANGED gatewayVars
  BY <1>1, <1>2, HostInv, HostGrows, GrowsKeeps DEF gatewayVars
<1>3. ASSUME NEW c \in Callers, Step(c), UNCHANGED gatewayVars PROVE GatewayIInv'
  <2>1. IInv'
    BY <1>1, <1>3, StepInv DEF Next
  <2> QED BY <1>1, <1>3, <2>1, StepGrows, GrowsKeeps DEF gatewayVars
<1>4. ASSUME NEW c \in Callers, Request(c) \/ StartGateway(c) PROVE GatewayIInv'
  BY <1>4, CallsInv
<1>5. ASSUME NEW c \in Callers, Serve(c) PROVE GatewayIInv'
  BY <1>5, ServeInv
<1>6. ASSUME NEW c \in Callers, ToggleProxy(c) PROVE GatewayIInv'
  BY <1>1, <1>6, ToggleInv, NoRequestStep DEF ToggleProxy, gatewayVars
<1>7. ASSUME NEW c \in Callers, ShutdownProxy(c) PROVE GatewayIInv'
  <2>1. /\ stage' = [stage EXCEPT ![c] = "quitting"] /\ UNCHANGED <<child, cmd, target, owner>>
    BY <1>7 DEF ShutdownProxy, Goes, manager
  <2>2. /\ owner = [owner EXCEPT ![c] = owner[c]] /\ target = [target EXCEPT ![c] = target[c]]
        /\ owner[c] \in Nat /\ owner[c] <= Len(child) /\ child \in Seq(Child)
        /\ target[c] \in Ports
    BY ChildTypes DEF GatewayIInv, RequestTypes, Forwarding
  <2>3. owner[c] \in 0..Len(child) /\ IInv'
    BY <1>1, <1>7, <2>2, ShutdownInv
  <2> QED BY <2>1, <2>2, <2>3, RequestStep DEF Stages
<1>8. CASE UNCHANGED <<vars, requests>>
  BY <1>1, <1>8, UnchangedInv, NoRequestStep DEF vars, manager
<1>9. ASSUME StopGateway \/ ServeFails \/ Quit \/ (\E c \in Callers : Exit(c)) \/ UNCHANGED all
      PROVE  UNCHANGED <<vars, requests>>
  BY <1>9 DEF StopGateway, ServeFails, Quit, Exit, all, gatewayVars
<1> QED BY <1>2, <1>3, <1>4, <1>5, <1>6, <1>7, <1>8, <1>9 DEF GatewayNext

-----------------------------------------------------------------------------
\* The manager under the gateway keeps its invariant, and requests what they know.
THEOREM GatewayInvariant == GatewaySpec => []GatewayIInv
  BY GatewayInitInv, GatewayStepInv, PTL DEF GatewaySpec

\* A request is forwarded to the child that was brought up for it, for any number of
\* requests and clicks.
THEOREM GatewayTargetIsCurrent == GatewaySpec => []TargetIsCurrent
<1>1. GatewayIInv => TargetIsCurrent
  BY DEF GatewayIInv, Forwarding, TargetIsCurrent, Dead
<1> QED BY <1>1, GatewayInvariant, PTL

-----------------------------------------------------------------------------
(* The last Stop *)

\* While it waits to stop the proxy, the app's last caller is moved by nobody else.
LEMMA OnlyStopEnds ==
    ASSUME GatewayIInv, [GatewayNext]_all, NEW c \in Callers,
           stage[c] = "quitting", pc[c] = "stop", pc'[c] # pc[c]
    PROVE  Stop(c)
<1>1. IInv /\ pc \in [Callers -> Places]
  BY DEF GatewayIInv, IInv, TypeOK, Places
<1>2. ASSUME NEW d \in Callers, CallerMoves(d) PROVE d = c
  BY <1>1, <1>2, MoveTypes
<1>3. ASSUME NEW d \in Callers, NEW what \in {"ensure", "ensureRunning", "stop"}, Calls(d, what)
      PROVE  FALSE
  <2>1. CallerMoves(d) /\ pc[d] = "idle"
    BY <1>1, <1>3, Moving DEF Calls
  <2> QED BY <1>2, <2>1
<1>4. ASSUME NEW d \in Callers, Request(d) \/ StartGateway(d) \/ ToggleProxy(d) PROVE FALSE
  BY <1>3, <1>4 DEF Request, StartGateway, ToggleProxy, Call
<1>5. ASSUME NEW d \in Callers, ShutdownProxy(d) PROVE FALSE
  BY <1>1, <1>5 DEF ShutdownProxy, Go
<1>6. ASSUME NEW d \in Callers, Step(d) PROVE Stop(c)
  <2>1. CASE d # c
    BY <1>1, <1>6, <2>1 DEF Step, CheckStatus, StartBegins, NoBinary, Reuse, CannotReuse, Spawn,
       SpawnFails, Poll, Recheck, Stop, Started, Fails, Moves, Returns, Go
  <2>2. CASE d = c
    BY <1>6, <2>2 DEF Step, CheckStatus, StartBegins, NoBinary, Reuse, CannotReuse, Spawn,
       SpawnFails, Poll, Recheck
  <2> QED BY <2>1, <2>2
<1>7. ~Host
  BY DEF Host, ChildBinds, Reap, ChildEnds, Tenancy, caller
<1>8. /\ ~UNCHANGED all /\ ~StopGateway /\ ~ServeFails /\ ~Quit
      /\ \A d \in Callers : ~Serve(d) /\ ~Exit(d)
  BY DEF StopGateway, ServeFails, Quit, Exit, Serve, EnsureFails, Ensured, Resolve, Forward,
         ProxyNotReady, Listen, all, vars, caller
<1> QED BY <1>4, <1>5, <1>6, <1>7, <1>8 DEF GatewayNext

\* Whatever Stop spares was dead or killed before.
LEMMA StopKillsAll ==
    ASSUME IInv, NEW c \in Callers, Stop(c), NEW k \in DOMAIN child
    PROVE  Dead(k) \/ child'[k].killed
<1>1. child \in Seq(Child) /\ child[k] \in Child /\ k # 0
  BY ChildTypes
<1>2. CASE k = cmd
  BY <1>1, <1>2 DEF Stop, Child
<1>3. CASE k # cmd
  <2>1. child'[k] = child[k]
    BY <1>1, <1>3 DEF Stop
  <2> QED BY <1>3, <2>1 DEF IInv, OneLiveChild
<1> QED BY <1>2, <1>3

\* The last Stop leaves no child alive and not killed, for any number of requests and
\* clicks under way.
THEOREM GatewayLastStopKillsAll == GatewaySpec => LastStopKillsAll
<1>1. GatewayIInv /\ [GatewayNext]_all =>
        [\A c \in Callers :
            stage[c] = "quitting" /\ pc[c] = "stop" /\ pc'[c] = "idle" =>
                \A k \in DOMAIN child : Dead(k) \/ child'[k].killed]_all
  BY OnlyStopEnds, StopKillsAll DEF GatewayIInv
<1> QED BY <1>1, GatewayInvariant, PTL DEF GatewaySpec, LastStopKillsAll
=============================================================================
