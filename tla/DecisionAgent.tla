----------------------------- MODULE DecisionAgent -----------------------------
(***************************************************************************)
(* RigGovernanceAgent::decide, parse_agent_decision and extract_json_range *)
(* of src/crates/sentinel/src/main.rs, with the fallback the detection     *)
(* loop applies to an Err.  The advisory's raw text is reduced to how the  *)
(* parser treats it: plain JSON, JSON wrapped in prose (found between the  *)
(* first '{' and the last '}'), text without a brace pair, a brace span    *)
(* that is not an AgentDecision; and the action string it carries.         *)
(***************************************************************************)
EXTENDS Integers

\* Action strings an advisory can return.  should_trigger compares with
\* eq_ignore_ascii_case, so "trigger" stands for every other casing.
ActionWords == {"TRIGGER", "trigger", "BYPASS", "HOLD"}

\* "no_client": enabled without an OpenAI client; "transport_error": the
\* prompt future failed; the rest are the shapes of a returned text.
ReplyKinds == {"no_client", "transport_error", "json", "wrapped_json",
               "no_json", "bad_json"}

Replies == [kind : ReplyKinds, action : ActionWords]

\* `self.action.eq_ignore_ascii_case("TRIGGER")`
ShouldTrigger(word) == word \in {"TRIGGER", "trigger"}

\* The Result of decide: Ok with an action string, or Err.
Decide(enabled, reply) ==
    IF ~enabled
    THEN [ok |-> TRUE, action |-> "TRIGGER"]
    ELSE IF reply.kind \in {"json", "wrapped_json"}
         THEN [ok |-> TRUE, action |-> reply.action]
         ELSE [ok |-> FALSE, action |-> "TRIGGER"]

\* detection_loop: `Err(err) => AgentDecision { action: "TRIGGER", .. }`.
DecisionAction(enabled, reply) ==
    LET r == Decide(enabled, reply)
    IN  IF r.ok THEN r.action ELSE "TRIGGER"
=============================================================================
