------------------------- MODULE GovernanceExecutor -------------------------
(***************************************************************************)
(* GovernanceExecutor::trigger_if_needed and execute_action of             *)
(* src/crates/sentinel/src/main.rs.                                        *)
(*                                                                         *)
(* The executor is an Arc<Self> whose only mutable state, GovernanceState, *)
(* sits behind a tokio Mutex.  trigger_if_needed takes the lock for its    *)
(* check-and-set, releases it across the network calls of execute_action,  *)
(* and takes it again to clear action_in_flight and record the success    *)
(* instant.  Callers is the set of concurrent invocations; the detection  *)
(* loop awaits each call, so it is one caller, but the executor is built  *)
(* to be shared and its contract is stated for any number of them.        *)
(*                                                                         *)
(* The on-chain side is reduced to what the executor changes: the active  *)
(* scoring-model hash of the AdminConfig account, written by              *)
(* set_scoring_model_hash when the transaction lands.                     *)
(***************************************************************************)
EXTENDS Integers, FiniteSets

CONSTANTS
    Callers,      \* concurrent invocations of trigger_if_needed
    MinInterval,  \* governance.min_action_interval_secs
    MaxTime,      \* bound on the monotonic clock (Instant), in seconds
    NoTime        \* model value standing for Option<Instant>::None

ASSUME /\ Callers # {}
       /\ MinInterval \in Nat \ {0}
       /\ MaxTime \in Nat

\* ResponseTier and the two answers AgentDecision::should_trigger tells apart.
Tiers   == {"Observe", "Mild", "Severe"}
Actions == {"TRIGGER", "BYPASS"}

\* The patch hash written on chain is a function of the patch, whose
\* policy fields are chosen by the tier (build_scoring_patch); "baseline"
\* is the hash the account holds before the sentinel writes one.
Hashes == {"baseline", "Mild", "Severe"}

\* "bypassed": a Mild tier the advisory said BYPASS, Ok(()) without a
\* submission; "confirmed": send_and_confirm_transaction returned Ok;
\* "failed": the blockhash fetch or the send failed and nothing landed;
\* "landed_err": the transaction landed but the confirmation returned Err.
Outcomes == {"none", "bypassed", "confirmed", "failed", "landed_err"}

VARIABLES
    now,          \* Instant::now(), a discrete clock
    inFlight,     \* GovernanceState.action_in_flight
    lastSuccess,  \* GovernanceState.last_success_action_at
    pc,           \* where each invocation is in trigger_if_needed
    signal,       \* [tier, action] of the invocation's AttackSignal and AgentDecision
    outcome,      \* how the should_trigger branch ended (see Outcomes)
    activeHash,   \* AdminConfig.active_scoring_model_hash on chain
    \* History variables, read only by the properties:
    lastLanded,     \* instant the last mitigation transaction landed
    lastConfirmed,  \* instant the last mitigation reported as Ok landed
    lastMitigated   \* instant trigger_if_needed finalised a confirmed mitigation

vars == <<now, inFlight, lastSuccess, pc, signal, outcome, activeHash,
          lastLanded, lastConfirmed, lastMitigated>>

Time   == 0..MaxTime
OptTime == Time \cup {NoTime}

TypeOK ==
    /\ now \in Time
    /\ inFlight \in BOOLEAN
    /\ lastSuccess \in OptTime
    /\ pc \in [Callers -> {"idle", "check", "acquired", "finalize"}]
    /\ signal \in [Callers -> [tier : Tiers, action : Actions]]
    /\ outcome \in [Callers -> Outcomes]
    /\ activeHash \in Hashes
    /\ lastLanded \in OptTime
    /\ lastConfirmed \in OptTime
    /\ lastMitigated \in OptTime

Init ==
    /\ now = 0
    /\ inFlight = FALSE
    /\ lastSuccess = NoTime
    /\ pc = [c \in Callers |-> "idle"]
    /\ signal = [c \in Callers |-> [tier |-> "Observe", action |-> "TRIGGER"]]
    /\ outcome = [c \in Callers |-> "none"]
    /\ activeHash = "baseline"
    /\ lastLanded = NoTime
    /\ lastConfirmed = NoTime
    /\ lastMitigated = NoTime

-----------------------------------------------------------------------------
\* `last.elapsed() < self.min_action_interval`
InCooldown ==
    /\ lastSuccess # NoTime
    /\ now - lastSuccess < MinInterval

\* `decision.should_trigger() || force_severe`
ShouldTrigger(c) ==
    \/ signal[c].action = "TRIGGER"
    \/ signal[c].tier = "Severe"

\* The passage of time between any two steps.
Tick ==
    /\ now < MaxTime
    /\ now' = now + 1
    /\ UNCHANGED <<inFlight, lastSuccess, pc, signal, outcome, activeHash,
                   lastLanded, lastConfirmed, lastMitigated>>

\* trigger_if_needed is called with an assessed signal and a decision.
Call(c) ==
    /\ pc[c] = "idle"
    /\ \E t \in Tiers, a \in Actions :
          signal' = [signal EXCEPT ![c] = [tier |-> t, action |-> a]]
    /\ pc' = [pc EXCEPT ![c] = "check"]
    /\ UNCHANGED <<now, inFlight, lastSuccess, outcome, activeHash,
                   lastLanded, lastConfirmed, lastMitigated>>

\* The early returns: an Observe tier before the lock, then, under the
\* lock, another action in flight or the cooldown.  No state changes.
Skip(c) ==
    /\ pc[c] = "check"
    /\ \/ signal[c].tier = "Observe"
       \/ inFlight
       \/ InCooldown
    /\ pc' = [pc EXCEPT ![c] = "idle"]
    /\ UNCHANGED <<now, inFlight, lastSuccess, signal, outcome, activeHash,
                   lastLanded, lastConfirmed, lastMitigated>>

\* Mutant: the in-flight test is missing from the check under the lock.
AcquireUnguarded(c) ==
    /\ pc[c] = "check"
    /\ signal[c].tier # "Observe"
    /\ ~InCooldown
    /\ inFlight' = TRUE
    /\ pc' = [pc EXCEPT ![c] = "acquired"]
    /\ UNCHANGED <<now, lastSuccess, signal, outcome, activeHash,
                   lastLanded, lastConfirmed, lastMitigated>>

\* The check-and-set under the lock: `state.action_in_flight = true`.
Acquire(c) ==
    /\ pc[c] = "check"
    /\ signal[c].tier # "Observe"
    /\ ~inFlight
    /\ ~InCooldown
    /\ inFlight' = TRUE
    /\ pc' = [pc EXCEPT ![c] = "acquired"]
    /\ UNCHANGED <<now, lastSuccess, signal, outcome, activeHash,
                   lastLanded, lastConfirmed, lastMitigated>>

\* A Mild tier whose advisory said BYPASS: the branch yields Ok(()).
Bypass(c) ==
    /\ pc[c] = "acquired"
    /\ ~ShouldTrigger(c)
    /\ outcome' = [outcome EXCEPT ![c] = "bypassed"]
    /\ pc' = [pc EXCEPT ![c] = "finalize"]
    /\ UNCHANGED <<now, inFlight, lastSuccess, signal, activeHash,
                   lastLanded, lastConfirmed, lastMitigated>>

\* Mutant: the hash is computed from the decision, not the tier's patch.
LandsDecision(c) ==
    /\ activeHash' = signal[c].action
    /\ lastLanded' = now

\* The transaction carrying the patch hash is applied on chain.
Lands(c) ==
    /\ activeHash' = signal[c].tier
    /\ lastLanded' = now

\* execute_action with the lock released: build the patch and its hash,
\* read the active hash (failure tolerated), fetch a blockhash, send and
\* confirm, read the hash again (logged only).
ExecuteAction(c) ==
    /\ pc[c] = "acquired"
    /\ ShouldTrigger(c)
    /\ pc' = [pc EXCEPT ![c] = "finalize"]
    /\ \E o \in {"confirmed", "failed", "landed_err"} :
          /\ outcome' = [outcome EXCEPT ![c] = o]
          /\ IF o = "failed"
                THEN UNCHANGED <<activeHash, lastLanded>>
                ELSE Lands(c)
          /\ lastConfirmed' = IF o = "confirmed" THEN now ELSE lastConfirmed
    /\ UNCHANGED <<now, inFlight, lastSuccess, signal, lastMitigated>>

\* `result.is_ok()` after the branch.
Succeeded(c) == outcome[c] \in {"bypassed", "confirmed"}

\* Mutant: the success instant is never recorded.
FinalizeNoRecord(c) ==
    /\ pc[c] = "finalize"
    /\ inFlight' = FALSE
    /\ lastMitigated' = IF outcome[c] = "confirmed" THEN now ELSE lastMitigated
    /\ pc' = [pc EXCEPT ![c] = "idle"]
    /\ UNCHANGED <<now, lastSuccess, signal, outcome, activeHash, lastLanded,
                   lastConfirmed>>

\* Mutant: `execute_action(..).await?` returns before the flag is cleared.
FinalizeKeepsFlagOnErr(c) ==
    /\ pc[c] = "finalize"
    /\ inFlight' = ~Succeeded(c) /\ inFlight
    /\ lastSuccess' = IF Succeeded(c) THEN now ELSE lastSuccess
    /\ lastMitigated' = IF outcome[c] = "confirmed" THEN now ELSE lastMitigated
    /\ pc' = [pc EXCEPT ![c] = "idle"]
    /\ UNCHANGED <<now, signal, outcome, activeHash, lastLanded, lastConfirmed>>

\* Mutant: a failed action is retried, still holding the flag, until it
\* succeeds.
FinalizeRetry(c) ==
    /\ pc[c] = "finalize"
    /\ IF Succeeded(c)
       THEN /\ inFlight' = FALSE
            /\ lastSuccess' = now
            /\ pc' = [pc EXCEPT ![c] = "idle"]
       ELSE /\ pc' = [pc EXCEPT ![c] = "acquired"]
            /\ UNCHANGED <<inFlight, lastSuccess>>
    /\ lastMitigated' = IF outcome[c] = "confirmed" THEN now ELSE lastMitigated
    /\ UNCHANGED <<now, signal, outcome, activeHash, lastLanded, lastConfirmed>>

\* The lock is taken again: clear the flag, record success on Ok.
Finalize(c) ==
    /\ pc[c] = "finalize"
    /\ inFlight' = FALSE
    /\ lastSuccess' = IF Succeeded(c) THEN now ELSE lastSuccess
    /\ lastMitigated' = IF outcome[c] = "confirmed" THEN now ELSE lastMitigated
    /\ pc' = [pc EXCEPT ![c] = "idle"]
    /\ UNCHANGED <<now, signal, outcome, activeHash, lastLanded, lastConfirmed>>

Next ==
    \/ Tick
    \/ \E c \in Callers :
          \/ Call(c)
          \/ Skip(c)
          \/ Acquire(c)
          \/ Bypass(c)
          \/ ExecuteAction(c)
          \/ Finalize(c)

\* Once the lock is released, the awaited RPC calls return (RpcClient has a
\* request timeout) and the task is polled again, so every step after the
\* check-and-set is weakly fair.  Calls and the clock are not.
Fairness ==
    \A c \in Callers :
        /\ WF_vars(Bypass(c))
        /\ WF_vars(ExecuteAction(c))
        /\ WF_vars(Finalize(c))

Spec == Init /\ [][Next]_vars /\ Fairness

-----------------------------------------------------------------------------
Holders == {c \in Callers : pc[c] \in {"acquired", "finalize"}}

\* At most one invocation is past the check-and-set, and action_in_flight
\* is set exactly while one is: the flag is the lock's only memory across
\* the network calls, and two callers interleaving their check, release
\* and flip-back must never both get through nor leave it stale.
SingleInFlight ==
    /\ Cardinality(Holders) <= 1
    /\ inFlight <=> Holders # {}

\* A step of caller c in which its mitigation transaction lands on chain,
\* and the one in which it lands and the executor is told so.
LandingStep(c) ==
    pc[c] = "acquired" /\ outcome'[c] \in {"confirmed", "landed_err"}
ConfirmedStep(c) ==
    pc[c] = "acquired" /\ outcome'[c] = "confirmed"

\* Two mitigations the executor saw confirmed landed at least MinInterval
\* apart: the cooldown runs from the instant the previous action was
\* finalised, which is never earlier than when its transaction landed.
ConfirmedSpacing ==
    [][\A c \in Callers :
         ConfirmedStep(c)
         => (lastConfirmed = NoTime \/ now - lastConfirmed >= MinInterval)]_vars

\* Every invocation that got past the check eventually clears
\* action_in_flight, on the error path as on the success path.
InFlightCleared == inFlight ~> ~inFlight

\* Any two mitigation transactions landed on chain at least MinInterval
\* apart (spec 4.6 and 8: "a minimum spacing between successful actions"),
\* counting one whose confirmation returned an error after it landed.
LandedSpacing ==
    [][\A c \in Callers :
         LandingStep(c)
         => (lastLanded = NoTime \/ now - lastLanded >= MinInterval)]_vars

\* A Severe signal is turned away for cooldown only when a mitigation was
\* really confirmed less than MinInterval ago (spec 4.6: the success
\* timestamp is recorded on a successful submission).
SevereDroppedOnlyAfterMitigation ==
    [][\A c \in Callers :
         (pc[c] = "check" /\ pc'[c] = "idle" /\ signal[c].tier = "Severe"
            /\ ~inFlight)
         => (lastMitigated # NoTime /\ now - lastMitigated < MinInterval)]_vars
=============================================================================
