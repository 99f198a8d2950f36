----------------------------- MODULE MCWireFormat ------------------------------
(* Every PreviewPriceEvent preview_price emits for a grid of payloads      *)
(* (quotes by VrgdaMath at the scaled widths: negative, zero and positive *)
(* velocities, infinite and blocked quotes, every dignity bucket edge,    *)
(* every user mode), written after up to two lines the decoder must skip; *)
(* every transaction log of up to three lines drawn from seven kinds; and *)
(* AdminConfig accounts with either oracle key and either hash.           *)
EXTENDS WireFormat

VARIABLES
    event,   \* the event preview_price emits
    noise,   \* the log lines written before it in the same transaction
    logs,    \* an arbitrary transaction log, for the reference check
    account  \* an AdminConfig the program wrote

vars == <<event, noise, logs, account>>

Math == INSTANCE VrgdaMath WITH FpScale <- 1000, U64Max <- 65535,
                                U128Max <- 2147483647, MaxTimeElapsed <- 20

Inputs == [price : {0, 1, 300, 65535}, velocity : {-9999, -300, 0, 300, 9000},
           time : {1, 12}, dignity : {0, 20, 21, 81, 100}]
Payloads(q) == [dignity : {q.dignity}, adapter_mask : {0, 255},
                 user_mode : {0, 1, 2}]

\* The events of payloads that pass validate_preview_request_fields and
\* whose quote is Ok.
Events ==
    UNION { { PreviewEvent(Math!CalculateVrgdaQuote(q), p) : p \in Payloads(q) } :
            q \in {x \in Inputs : Math!CalculateVrgdaQuote(x).ok} }

E1 == PreviewEvent([final |-> 300, infinite |-> FALSE, blocked |-> FALSE, velocity |-> -300],
                   [dignity |-> 81, adapter_mask |-> 255, user_mode |-> 2])
E2 == PreviewEvent([final |-> 65535, infinite |-> TRUE, blocked |-> TRUE, velocity |-> 9000],
                   [dignity |-> 0, adapter_mask |-> 0, user_mode |-> 0])

\* Lines the decoder skips: another program's log, a data line that is not
\* base64, a record shorter than a discriminator, a ShieldExecutionEvent
\* record; and a PreviewPriceEvent record one byte short.
OtherLog   == [prefixed |-> FALSE, b64 |-> FALSE, raw |-> [disc |-> "short", body |-> <<>>]]
BadBase64  == [prefixed |-> TRUE, b64 |-> FALSE, raw |-> [disc |-> "short", body |-> <<>>]]
ShortRaw   == ProgramDataLine("short", <<>>)
ShieldLine == ProgramDataLine("ShieldExecutionEvent", EncodePreviewEvent(E1))
ShortPreview == ProgramDataLine("PreviewPriceEvent", SubSeq(EncodePreviewEvent(E1), 1, 21))

SkippedLines == {OtherLog, BadBase64, ShortRaw, ShieldLine}
LineKinds == SkippedLines \cup {ShortPreview,
                                ProgramDataLine("PreviewPriceEvent", EncodePreviewEvent(E1)),
                                ProgramDataLine("PreviewPriceEvent", EncodePreviewEvent(E2))}

AdminConfigs == [authority : {"authority"}, oracle : {"k1", "k2"},
                 hash : {"h1", "h2"}, bump : {254}]

Init ==
    /\ account \in AdminConfigs
    /\ \/ /\ event \in Events
          /\ noise \in Seqs!BoundedSeq(SkippedLines, 2)
          /\ logs = <<>>
       \/ /\ event = E1
          /\ noise = <<>>
          /\ logs \in Seqs!BoundedSeq(LineKinds, 3)
Next == UNCHANGED vars
Spec == Init /\ [][Next]_vars

-----------------------------------------------------------------------------
\* The sentinel reads back exactly the event the v2 program emitted: the
\* fixed offsets of decode_preview_event_body agree with the Borsh layout
\* of PreviewPriceEvent, negative velocities keep their sign through the
\* two's complement bytes, and the lines before it in the transaction are
\* skipped.
EmittedEventDecoded ==
    DecodePreviewEvent(noise \o <<ProgramDataLine("PreviewPriceEvent",
                                                  EncodePreviewEvent(event))>>)
        = event

\* decode_preview_event returns what spec 6 describes: the first well-formed
\* PreviewPriceEvent record of the transaction, or nothing, whatever
\* malformed, mismatched or short lines come before or between.
DecodeMatchesReference ==
    DecodePreviewEvent(logs) = ReferenceDecode(logs)

\* execute_action reads back the active hash set_scoring_model_hash wrote:
\* the offsets of parse_admin_active_hash agree with AdminConfig's layout,
\* and data one byte short of the account is refused.
AdminHashReadBack ==
    /\ ParseAdminActiveHash(EncodeAdminConfig(account)) = Bytes32(account.hash)
    /\ ParseAdminActiveHash(SubSeq(EncodeAdminConfig(account), 1, 104)) = NoEvent
=============================================================================
