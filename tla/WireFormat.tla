------------------------------ MODULE WireFormat -------------------------------
(***************************************************************************)
(* The byte layouts the sentinel reads from the unforgiven_v2 program.    *)
(*                                                                         *)
(* The PreviewPriceEvent on its way from the unforgiven_v2 program to the  *)
(* sentinel.  preview_price (src/programs/unforgiven_v2/src/lib.rs) builds *)
(* the event from the quote and the payload and emit!s it: Anchor writes  *)
(* a "Program data: " log line carrying base64 of the 8-byte event        *)
(* discriminator followed by the Borsh encoding of the struct, fields in  *)
(* declaration order, integers little-endian.  decode_preview_event       *)
(* (src/crates/sentinel/src/main.rs) scans a transaction's log lines for  *)
(* the first one that decodes to a PreviewPriceEvent.                     *)
(*                                                                         *)
(* Bytes are integers in 0..255.  A discriminator (the first 8 bytes of   *)
(* sha256("event:<Name>")) is kept as the event name it stands for, and a *)
(* raw record shorter than 8 bytes as "short".  Base64 is kept by what it *)
(* does: a valid string decodes to the bytes it encodes, any other string *)
(* fails to decode.  Integers are bounded by TLC's, so a u64 value here   *)
(* is below 2^31 and its high bytes are zero; i64 keeps its sign.         *)
(*                                                                         *)
(* The AdminConfig account, which execute_action reads before and after   *)
(* its transaction: Anchor stores the 8-byte account discriminator and    *)
(* the Borsh fields; parse_admin_active_hash takes bytes 72..104.  A      *)
(* 32-byte value is kept as 32 symbolic bytes <<value, i>>.               *)
(***************************************************************************)
EXTENDS Integers, Sequences

Seqs == INSTANCE SequencesExt

EventNames == {"PreviewPriceEvent", "ShieldExecutionEvent"}

\* The decoder's "no event": Option::None.
NoEvent == [none |-> TRUE]

-----------------------------------------------------------------------------
(* Little-endian integers *)

\* `x.to_le_bytes()` for a non-negative x, n bytes.
RECURSIVE LE(_, _)
LE(x, n) == IF n = 0 THEN <<>> ELSE <<x % 256>> \o LE(x \div 256, n - 1)

\* `u64::from_le_bytes`.
RECURSIVE FromLE(_)
FromLE(bs) == IF bs = <<>> THEN 0 ELSE Head(bs) + 256 * FromLE(Tail(bs))

\* i64 two's complement: a negative v is stored as 2^64 + v, whose bytes
\* are those of -v - 1 complemented.
I64LE(v) ==
    IF v >= 0 THEN LE(v, 8)
    ELSE LET c == LE(-v - 1, 8) IN [i \in 1..8 |-> 255 - c[i]]

\* `i64::from_le_bytes`: the top bit of the last byte is the sign.
I64FromLE(bs) ==
    IF bs[8] < 128 THEN FromLE(bs)
    ELSE -(1 + FromLE([i \in 1..8 |-> 255 - bs[i]]))

Bool(b) == IF b THEN 1 ELSE 0

-----------------------------------------------------------------------------
(* unforgiven_v2: building and emitting the event *)

\* dignity_bucket
DignityBucket(score) ==
    CASE score <= 20 -> 0 [] score <= 40 -> 1 [] score <= 60 -> 2
      [] score <= 80 -> 3 [] OTHER -> 4

\* The PreviewPriceEvent preview_price emits for a quote and the payload
\* fields [dignity, adapter_mask, user_mode].
PreviewEvent(quote, p) ==
    [final_price |-> quote.final, is_infinite |-> quote.infinite,
     blocked |-> quote.blocked, effective_velocity_bps |-> quote.velocity,
     dignity_score |-> p.dignity, adapter_mask |-> p.adapter_mask,
     dignity_bucket |-> DignityBucket(p.dignity), user_mode |-> p.user_mode]

\* The Borsh encoding of the struct, fields in declaration order: 22 bytes.
EncodePreviewEvent(e) ==
    LE(e.final_price, 8) \o <<Bool(e.is_infinite), Bool(e.blocked)>>
      \o I64LE(e.effective_velocity_bps)
      \o <<e.dignity_score, e.adapter_mask, e.dignity_bucket, e.user_mode>>

\* The log line emit! writes: base64 of discriminator ++ body.
ProgramDataLine(name, body) ==
    [prefixed |-> TRUE, b64 |-> TRUE, raw |-> [disc |-> name, body |-> body]]

-----------------------------------------------------------------------------
(* sentinel: decode_preview_event *)

\* Mutant: dignity_bucket and user_mode are read from each other's byte.
DecodePreviewEventBodySwapped(bytes) ==
    IF Len(bytes) < 22 THEN NoEvent
    ELSE [final_price |-> FromLE(SubSeq(bytes, 1, 8)),
          is_infinite |-> bytes[9] # 0, blocked |-> bytes[10] # 0,
          effective_velocity_bps |-> I64FromLE(SubSeq(bytes, 11, 18)),
          dignity_score |-> bytes[19], adapter_mask |-> bytes[20],
          dignity_bucket |-> bytes[22], user_mode |-> bytes[21]]

\* decode_preview_event_body: None below 22 bytes, else the fields at
\* their fixed offsets; bytes past the 22nd are ignored.
DecodePreviewEventBody(bytes) ==
    IF Len(bytes) < 22 THEN NoEvent
    ELSE [final_price |-> FromLE(SubSeq(bytes, 1, 8)),
          is_infinite |-> bytes[9] # 0, blocked |-> bytes[10] # 0,
          effective_velocity_bps |-> I64FromLE(SubSeq(bytes, 11, 18)),
          dignity_score |-> bytes[19], adapter_mask |-> bytes[20],
          dignity_bucket |-> bytes[21], user_mode |-> bytes[22]]

\* The line is "Program data: " + valid base64 of a record of at least 8
\* bytes starting with PreviewPriceEvent's discriminator.
IsPreviewRecord(l) ==
    /\ l.prefixed
    /\ l.b64
    /\ l.raw.disc = "PreviewPriceEvent"

\* Mutant: a PreviewPriceEvent record too short to decode ends the scan.
RECURSIVE DecodeLinesStopShort(_)
DecodeLinesStopShort(lines) ==
    IF lines = <<>> THEN NoEvent
    ELSE IF IsPreviewRecord(Head(lines))
         THEN DecodePreviewEventBody(Head(lines).raw.body)
         ELSE DecodeLinesStopShort(Tail(lines))

\* The loop over logs.logs: every line that is not a decodable preview
\* record is skipped (`continue`); the first one that decodes is returned.
RECURSIVE DecodeLines(_)
DecodeLines(lines) ==
    IF lines = <<>> THEN NoEvent
    ELSE IF IsPreviewRecord(Head(lines))
            /\ DecodePreviewEventBody(Head(lines).raw.body) # NoEvent
         THEN DecodePreviewEventBody(Head(lines).raw.body)
         ELSE DecodeLines(Tail(lines))

\* decode_preview_event on the log lines of one transaction.
DecodePreviewEvent(lines) == DecodeLines(lines)

-----------------------------------------------------------------------------
(* AdminConfig and parse_admin_active_hash *)

\* The 32 bytes of a key or hash v.
Bytes32(v) == [i \in 1..32 |-> <<v, i>>]

\* The account data of AdminConfig {authority, oracle_pubkey,
\* active_scoring_model_hash, bump}, after its discriminator.
EncodeAdminConfig(c) ==
    [i \in 1..8 |-> <<"AdminConfig", i>>]
      \o Bytes32(c.authority) \o Bytes32(c.oracle) \o Bytes32(c.hash) \o <<c.bump>>

\* Mutant: the hash is read one field early, from the oracle key's bytes.
ParseAdminActiveHashEarly(data) ==
    IF Len(data) < 105 THEN NoEvent ELSE SubSeq(data, 41, 72)

\* parse_admin_active_hash: None below 105 bytes, else data[72..104].
ParseAdminActiveHash(data) ==
    IF Len(data) < 105 THEN NoEvent ELSE SubSeq(data, 73, 104)

\* Spec 6's reading of the log format: malformed and mismatched lines are
\* skipped, and the event is the first well-formed PreviewPriceEvent record.
ReferenceDecode(lines) ==
    LET wellFormed(l) == IsPreviewRecord(l) /\ Len(l.raw.body) >= 22
        i == Seqs!SelectInSeq(lines, wellFormed)
    IN  IF i = 0 THEN NoEvent ELSE DecodePreviewEventBody(lines[i].raw.body)
=============================================================================
