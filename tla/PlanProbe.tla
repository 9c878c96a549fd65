------------------------------ MODULE PlanProbe ------------------------------
(***************************************************************************)
(* Probing which models an account's key may use (desktop/internal/probe): *)
(* Plan starts a goroutine per model, lets three of them ask the proxy at  *)
(* a time, and cancels the rest when one learns that the account itself is *)
(* blocked.  RefreshPlans gives all of it five minutes and caches what it  *)
(* returns as the account's plan.                                          *)
(***************************************************************************)
EXTENDS Naturals, FiniteSets

CONSTANTS
    Models,   \* the probe models of the configuration
    Slots     \* capacity of sem (3 in the code)

ASSUME ProbeAssumption == IsFiniteSet(Models) /\ Models # {} /\ Slots \in Nat \ {0}

VARIABLES
    probe,     \* each goroutine: "waiting" (at sem), "asking" (the request is not started),
               \* "sending" (it is on its way), "answered", "done"
    outcome,   \* what probeModel returned
    sent,      \* history: the models whose request has left
    late,      \* history: those whose request left when the context was done already
    ctx,       \* "live", "timed out" (the caller's five minutes), "cancelled" (blocked)
    allowed, denied, blocked, errs,   \* res and errs; denied counts entries
    plan       \* the cached plan: "none" until Plan returns, "error" if it failed

res == <<allowed, denied, blocked, errs>>
planVars == <<probe, outcome, sent, late, ctx, res, plan>>

Outcomes == {"allowed", "denied", "blocked", "error"}

PlanInit ==
    /\ probe = [m \in Models |-> "waiting"] /\ outcome = [m \in Models |-> "error"]
    /\ sent = {} /\ late = {} /\ ctx = "live"
    /\ allowed = {} /\ denied = [m \in Models |-> 0] /\ blocked = FALSE /\ errs = {}
    /\ plan = "none"

\* Mutant of Holding: the slot is not released.
HoldingForever == {m \in Models : probe[m] # "waiting"}

\* The goroutines that hold a slot of the semaphore.
Holding == {m \in Models : probe[m] \in {"asking", "sending", "answered"}}

\* The select: a slot of the semaphore, or the end of the context; with both at
\* hand, either.
Acquire(m) ==
    /\ probe[m] = "waiting" /\ Cardinality(Holding) < Slots
    /\ probe' = [probe EXCEPT ![m] = "asking"]
    /\ UNCHANGED <<outcome, sent, late, ctx, res, plan>>

GiveUp(m) ==
    /\ probe[m] = "waiting" /\ ctx # "live"
    /\ probe' = [probe EXCEPT ![m] = "done"]
    /\ UNCHANGED <<outcome, sent, late, ctx, res, plan>>

\* Mutant of Ask: the request is made without the context.
AskAnyway(m) ==
    /\ probe[m] = "asking"
    /\ probe' = [probe EXCEPT ![m] = "sending"]
    /\ UNCHANGED <<outcome, sent, late, ctx, res, plan>>

\* http.Client.Do starts no request of a context that is done.
Ask(m) ==
    /\ probe[m] = "asking" /\ ctx = "live"
    /\ probe' = [probe EXCEPT ![m] = "sending"]
    /\ UNCHANGED <<outcome, sent, late, ctx, res, plan>>

\* The request leaves; the context may have ended since it was looked at.
Send(m) ==
    /\ probe[m] = "sending" /\ m \notin sent
    /\ sent' = sent \cup {m}
    /\ late' = IF ctx = "live" THEN late ELSE late \cup {m}
    /\ UNCHANGED <<probe, outcome, ctx, res, plan>>

\* probeModel returns: the proxy's verdict, or an error without one (no
\* connection, the client's timeout, the end of the context).
Answered(m, o) ==
    /\ probe[m] \in {"asking", "sending"} /\ (o # "error" => m \in sent)
    /\ probe' = [probe EXCEPT ![m] = "answered"]
    /\ outcome' = [outcome EXCEPT ![m] = o]
    /\ UNCHANGED <<sent, late, ctx, res, plan>>

\* Mutant of CountsError: an error is lost.
CountsErrorNever == FALSE

\* An error counts only if the context is not done.
CountsError == ctx = "live"

\* The result is recorded under the mutex, and the slot is released.
Record(m) ==
    /\ probe[m] = "answered"
    /\ probe' = [probe EXCEPT ![m] = "done"]
    /\ allowed' = IF outcome[m] = "allowed" THEN allowed \cup {m} ELSE allowed
    /\ denied' = IF outcome[m] = "denied" THEN [denied EXCEPT ![m] = @ + 1] ELSE denied
    /\ blocked' = (blocked \/ outcome[m] = "blocked")
    /\ ctx' = IF outcome[m] = "blocked" /\ ctx = "live" THEN "cancelled" ELSE ctx
    /\ errs' = IF outcome[m] = "error" /\ CountsError THEN errs \cup {m} ELSE errs
    /\ UNCHANGED <<outcome, sent, late, plan>>

\* The five minutes of RefreshPlans are over.
TimeOut ==
    /\ plan = "none"
    /\ ctx' = IF ctx = "live" THEN "timed out" ELSE ctx
    /\ UNCHANGED <<probe, outcome, sent, late, res, plan>>

\* Mutant of FoldBlocked: only the models that were asked about.
FoldBlockedSent == [m \in Models |-> denied[m] + IF m \in sent THEN 1 ELSE 0]

\* The blocked verdict is every model's.
FoldBlocked == [m \in Models |-> denied[m] + 1]

\* All goroutines are done: wg.Wait.
Return ==
    /\ plan = "none" /\ \A m \in Models : probe[m] = "done"
    /\ denied' = IF blocked THEN FoldBlocked ELSE denied
    /\ plan' = IF ~blocked /\ allowed = {} /\ errs # {} /\ \A m \in Models : denied[m] = 0
               THEN "error" ELSE "cached"
    /\ UNCHANGED <<probe, outcome, sent, late, ctx, allowed, blocked, errs>>

Goroutine(m) ==
    \/ Acquire(m) \/ GiveUp(m) \/ Ask(m) \/ Send(m) \/ Record(m)
    \/ \E o \in Outcomes : Answered(m, o)

PlanNext == Return \/ TimeOut \/ \E m \in Models : Goroutine(m)

\* The goroutines run, and every request ends: the client's timeout is 45 seconds.
Fairness == WF_planVars(Return) /\ \A m \in Models : WF_planVars(Goroutine(m))

PlanSpec == PlanInit /\ [][PlanNext]_planVars /\ Fairness

-----------------------------------------------------------------------------
Denied == {m \in Models : denied[m] > 0}

\* No model is forgotten, however the probes interleave.  A blocked account is
\* cached with all models denied, also those never asked about; otherwise, unless
\* the time was up, each model is allowed, denied or failed, and no two of them.
EveryModelHasAVerdict ==
    plan # "none" =>
        /\ blocked => plan = "cached" /\ Denied = Models
        /\ ctx = "live" =>
            /\ allowed \cup Denied \cup errs = Models
            /\ allowed \cap Denied = {} /\ (allowed \cup Denied) \cap errs = {}

\* The verdict that an account is blocked stops the other probes: only those that had
\* a slot next to the one it came from may still ask the proxy, however many wait and
\* whatever they find at the semaphore; the end of the time, those with a slot.
FewAskLate ==
    /\ Cardinality(late) <= Slots
    /\ ctx = "cancelled" => Cardinality(late) < Slots

\* Plan returns, whatever the probes run into.
PlanReturns == <>(plan # "none")
=============================================================================
