------------------------------- MODULE Pipeline -------------------------------
(***************************************************************************)
(* The sentinel process of src/crates/sentinel/src/main.rs: the chain     *)
(* emitting PreviewPriceEvents, the subscription task                     *)
(* (subscribe_preview_events) forwarding envelopes into the bounded mpsc  *)
(* channel, and the single detection_loop consuming them through          *)
(* SignatureDedupe, SlidingWindow, the attack scorer, the decision agent  *)
(* and GovernanceExecutor, whose steps are those of its own module.       *)
(*                                                                         *)
(* The scorer (judge_attack_probability) is abstracted to a free choice   *)
(* of tier once the window holds min_samples_for_growth samples.          *)
(***************************************************************************)
EXTENDS Integers, Sequences, FiniteSets

CONSTANTS
    Sigs,           \* transaction signatures the chain can emit
    Capacity,       \* runtime.event_channel_capacity
    MaxDeliveries,  \* bound on how often the stream hands over one signature
    TTL,            \* thresholds.dedupe_ttl_secs
    WindowLen,      \* thresholds.window_secs
    MinSamples,     \* thresholds.min_samples_for_growth
    MinInterval,    \* governance.min_action_interval_secs
    RigEnabled,     \* rig.enabled
    MaxTime,        \* bound on the monotonic clock
    NoTime,         \* model value: Option<Instant>::None
    NoEnvelope,     \* model value: the producer holds no envelope
    ClassOf         \* guest / verified markers of the event each signature carries

ASSUME /\ Capacity \in Nat \ {0}
       /\ MaxDeliveries \in Nat \ {0}
       /\ {TTL, WindowLen, MinSamples} \subseteq Nat
       /\ RigEnabled \in BOOLEAN
       /\ ClassOf \in [Sigs -> [guest : BOOLEAN, verified : BOOLEAN]]

Consumer == "detection_loop"

VARIABLES
    \* the chain and the log subscription
    emitted,      \* signatures of PreviewPriceEvents emitted so far
    pending,      \* notifications the open stream has not yet handed over
    delivered,    \* how often the stream handed over each signature
    \* subscribe_preview_events
    pState,       \* "connecting", "streaming" or "backoff"
    outbox,       \* the envelope awaiting tx.send, or NoEnvelope
    \* the mpsc channel
    queue,
    \* detection_loop
    cState,       \* "recv" or "advise" (awaiting agent.decide)
    dq, dset,     \* SignatureDedupe.ordered and .set
    window,       \* SlidingWindow.samples
    tier,         \* tier of the AttackAssessment awaiting a decision
    reply,        \* the advisory's reply to the last decide (history)
    lastPushAt,   \* instant of the last window.push (history)
    \* GovernanceExecutor and the chain's active hash
    now, inFlight, lastSuccess, govPc, govSignal, outcome, activeHash,
    lastLanded, lastConfirmed, lastMitigated

chainVars == <<emitted, pending, delivered>>
prodVars  == <<pState, outbox>>
consVars  == <<cState, dq, dset, window, tier, reply, lastPushAt>>
govVars   == <<inFlight, lastSuccess, govPc, govSignal, outcome, activeHash,
                lastLanded, lastConfirmed, lastMitigated>>
vars == <<chainVars, prodVars, queue, consVars, now, govVars>>

Dedupe == INSTANCE SignatureDedupe WITH ordered <- dq, set <- dset,
                                        fresh <- FALSE
Window == INSTANCE SlidingWindow
Agent  == INSTANCE DecisionAgent
Gov    == INSTANCE GovernanceExecutor WITH Callers <- {Consumer},
                                           pc <- govPc, signal <- govSignal

Time == 0..MaxTime
Envelope == [sig : Sigs, at : Time, guest : BOOLEAN, verified : BOOLEAN]

TypeOK ==
    /\ emitted \subseteq Sigs
    /\ pending \subseteq emitted
    /\ delivered \in [Sigs -> 0..MaxDeliveries]
    /\ pState \in {"connecting", "streaming", "backoff"}
    /\ outbox \in Envelope \cup {NoEnvelope}
    /\ queue \in Seq(Envelope) /\ Len(queue) <= Capacity
    /\ cState \in {"recv", "advise"}
    /\ dq \in Seq(Dedupe!Entry) /\ dset \subseteq Sigs
    /\ window \in Seq(Envelope)
    /\ tier \in Gov!Tiers
    /\ reply \in Agent!Replies
    /\ lastPushAt \in Time \cup {NoTime}
    /\ Gov!TypeOK

Init ==
    /\ emitted = {} /\ pending = {} /\ delivered = [s \in Sigs |-> 0]
    /\ pState = "connecting" /\ outbox = NoEnvelope
    /\ queue = <<>>
    /\ cState = "recv" /\ dq = <<>> /\ dset = {} /\ window = <<>>
    /\ tier = "Observe"
    /\ reply = [kind |-> "json", action |-> "TRIGGER"]
    /\ lastPushAt = NoTime
    /\ Gov!Init

-----------------------------------------------------------------------------
(* The chain and the clock *)

Tick ==
    /\ now < MaxTime
    /\ now' = now + 1
    /\ UNCHANGED <<chainVars, prodVars, queue, consVars, govVars>>

\* A preview_price transaction lands and its event is logged; only an
\* open subscription will ever notify it.
Emit(s) ==
    /\ s \notin emitted
    /\ emitted' = emitted \cup {s}
    /\ pending' = IF pState = "streaming" THEN pending \cup {s} ELSE pending
    /\ UNCHANGED <<delivered, prodVars, queue, consVars, now, govVars>>

-----------------------------------------------------------------------------
(* subscribe_preview_events *)

\* PubsubClient::new and logs_subscribe both succeed.
Connect ==
    /\ pState = "connecting"
    /\ pState' = "streaming"
    /\ UNCHANGED <<chainVars, outbox, queue, consVars, now, govVars>>

\* Either call fails: warn, sleep(reconnect_backoff_ms), continue.
ConnectFails ==
    /\ pState = "connecting"
    /\ pState' = "backoff"
    /\ UNCHANGED <<chainVars, outbox, queue, consVars, now, govVars>>

\* stream.next() yields a decodable notification: the envelope is stamped
\* with Instant::now().  The stream may hand the same signature over again.
Receive(s) ==
    /\ pState = "streaming"
    /\ outbox = NoEnvelope
    /\ s \in pending
    /\ delivered[s] < MaxDeliveries
    /\ delivered' = [delivered EXCEPT ![s] = @ + 1]
    /\ pending' \in {pending, pending \ {s}}
    /\ outbox' = [sig |-> s, at |-> now,
                   guest |-> ClassOf[s].guest, verified |-> ClassOf[s].verified]
    /\ UNCHANGED <<emitted, pState, queue, consVars, now, govVars>>

\* Mutant: the send does not wait for room in the channel.
SendUnbounded ==
    /\ outbox # NoEnvelope
    /\ queue' = Append(queue, outbox)
    /\ outbox' = NoEnvelope
    /\ UNCHANGED <<chainVars, pState, consVars, now, govVars>>

\* tx.send(envelope).await completes once the channel has room.
Send ==
    /\ outbox # NoEnvelope
    /\ Len(queue) < Capacity
    /\ queue' = Append(queue, outbox)
    /\ outbox' = NoEnvelope
    /\ UNCHANGED <<chainVars, pState, consVars, now, govVars>>

\* stream.next() returns None: unsubscribe and back off; notifications the
\* stream still held are gone.
StreamEnds ==
    /\ pState = "streaming"
    /\ outbox = NoEnvelope
    /\ pState' = "backoff"
    /\ pending' = {}
    /\ UNCHANGED <<emitted, delivered, outbox, queue, consVars, now, govVars>>

\* The reconnect sleep elapses.
Reconnect ==
    /\ pState = "backoff"
    /\ pState' = "connecting"
    /\ UNCHANGED <<chainVars, outbox, queue, consVars, now, govVars>>

-----------------------------------------------------------------------------
(* detection_loop *)

\* One iteration from rx.recv() up to the decision: everything between the
\* two awaits runs without yielding.  A duplicate is dropped; otherwise
\* the sample is pushed; the iteration stops if the window holds fewer
\* than min_samples_for_growth samples (an empty window has no metrics) or
\* the assessment is Observe, and otherwise awaits agent.decide.  The next
\* recv waits until the previous trigger_if_needed has returned.
Process ==
    /\ cState = "recv"
    /\ govPc[Consumer] = "idle"
    /\ queue # <<>>
    /\ LET env == Head(queue)
           d   == Dedupe!InsertIfNew(dq, dset, env.sig, now, TTL)
           w   == Window!Push(window, env, now, WindowLen)
       IN  /\ queue' = Tail(queue)
           /\ dq' = d.ordered
           /\ dset' = d.set
           /\ IF ~d.fresh
              THEN UNCHANGED <<window, lastPushAt, cState, tier>>
              ELSE /\ window' = w
                   /\ lastPushAt' = now
                   /\ IF Window!Metrics(w).total < MinSamples
                      THEN UNCHANGED <<cState, tier>>
                      ELSE \E t \in Gov!Tiers :
                              /\ tier' = t
                              /\ cState' = IF t = "Observe" THEN "recv" ELSE "advise"
    /\ UNCHANGED <<chainVars, prodVars, reply, now, govVars>>

\* agent.decide returns (or fails and falls back to TRIGGER) and
\* trigger_if_needed is entered with the signal and the decision.
Advise ==
    /\ cState = "advise"
    /\ \E r \in IF RigEnabled THEN Agent!Replies ELSE {reply} :
          /\ reply' = r
          /\ govSignal' = [govSignal EXCEPT ![Consumer] =
                [tier |-> tier,
                 action |-> IF Agent!ShouldTrigger(Agent!DecisionAction(RigEnabled, r))
                            THEN "TRIGGER" ELSE "BYPASS"]]
    /\ govPc' = [govPc EXCEPT ![Consumer] = "check"]
    /\ cState' = "recv"
    /\ UNCHANGED <<chainVars, prodVars, queue, dq, dset, window, tier,
                   lastPushAt, now, inFlight, lastSuccess, outcome, activeHash,
                   lastLanded, lastConfirmed, lastMitigated>>

\* The steps of trigger_if_needed, as GovernanceExecutor defines them.
Govern ==
    /\ \/ Gov!Skip(Consumer)
       \/ Gov!Acquire(Consumer)
       \/ Gov!Bypass(Consumer)
       \/ Gov!ExecuteAction(Consumer)
       \/ Gov!Finalize(Consumer)
    /\ UNCHANGED <<chainVars, prodVars, queue, consVars>>

-----------------------------------------------------------------------------
(* The sentinel process *)

\* The process dies and main starts it again: the channel, the producer's
\* subscription and envelope, the detection loop's dedupe store and window,
\* and GovernanceState are rebuilt empty.  A mitigation whose transaction
\* was already sent may still land; the chain and its logs are untouched.
Restart ==
    /\ pState' = "connecting"
    /\ outbox' = NoEnvelope
    /\ queue' = <<>>
    /\ pending' = {}
    /\ cState' = "recv" /\ dq' = <<>> /\ dset' = {} /\ window' = <<>>
    /\ tier' = "Observe"
    /\ lastPushAt' = NoTime
    /\ inFlight' = FALSE /\ lastSuccess' = NoTime
    /\ govPc' = [c \in {Consumer} |-> "idle"]
    /\ outcome' = [c \in {Consumer} |-> "none"]
    /\ IF govPc[Consumer] = "acquired" /\ Gov!ShouldTrigger(Consumer)
       THEN \/ Gov!Lands(Consumer)
            \/ UNCHANGED <<activeHash, lastLanded>>
       ELSE UNCHANGED <<activeHash, lastLanded>>
    /\ UNCHANGED <<emitted, delivered, reply, now, govSignal, lastConfirmed,
                   lastMitigated>>

Next ==
    \/ Tick
    \/ \E s \in Sigs : Emit(s) \/ Receive(s)
    \/ Connect \/ ConnectFails \/ Send \/ StreamEnds \/ Reconnect
    \/ Process \/ Advise \/ Govern
    \/ Restart

\* The consumer and the channel make progress whenever they can.  The RPC
\* calls of trigger_if_needed return (RpcClient's timeout).  agent.decide
\* returns at once when rig is disabled; when it is enabled the call has no
\* timeout of its own and nothing guarantees it returns.  Nothing makes
\* the process restart.
Fairness ==
    /\ WF_vars(Send)
    /\ WF_vars(Process)
    /\ WF_vars(Govern)
    /\ IF RigEnabled THEN TRUE ELSE WF_vars(Advise)

Spec == Init /\ [][Next]_vars /\ Fairness

-----------------------------------------------------------------------------
\* No retained sample is older than window_secs at the instant of the last
\* push (spec 8), although samples are stamped by the producer and pushed
\* by the consumer after waiting in the channel and behind governance, and
\* eviction only ever looks at the front.
WindowFresh ==
    \A i \in DOMAIN window : lastPushAt - window[i].at <= WindowLen

\* No signature is counted twice in the window: the dedupe TTL measured
\* from consumer time covers the window measured from producer time,
\* so a redelivered notification cannot inflate the guest counts.
WindowDistinct ==
    \A i, j \in DOMAIN window : i < j => window[i].sig # window[j].sig

\* A producer blocked in tx.send on a full channel is eventually released:
\* the detection loop, its decision and its governance call never wedge.
ProducerReleased == outbox # NoEnvelope ~> outbox = NoEnvelope

\* A Mild signal is let go without mitigation only when the advisory
\* explicitly answered BYPASS (spec 4.5: a malformed answer falls back to
\* TRIGGER, a qualifying signal is never dropped for advisory failure).
BypassOnlyOnExplicitBypass ==
    [][Gov!Bypass(Consumer) => reply.action = "BYPASS"]_vars
=============================================================================
