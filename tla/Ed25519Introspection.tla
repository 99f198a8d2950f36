------------------------- MODULE Ed25519Introspection -------------------------
(***************************************************************************)
(* How unforgiven_v2 and unforgiven (v1) accept an oracle signature: both *)
(* read, through the instructions sysvar, an ed25519 precompile           *)
(* instruction of the same transaction (verify_ed25519_ix) and compare    *)
(* the public key and message stored in ITS data with the oracle key and  *)
(* the expected payload.  The runtime has already run the precompile:     *)
(* for every signature entry it fetched the signature, key and message    *)
(* from the instruction each offsets entry names (u16::MAX: the           *)
(* precompile's own data) and failed the whole transaction unless the     *)
(* signature is valid.  The program's reading is only as good as its      *)
(* agreement with the precompile's.                                       *)
(*                                                                         *)
(* Data is abstracted to the fields the two readers take: the number of   *)
(* signatures, the three instruction indices of the first offsets entry,  *)
(* and the key, signature and message found at its offsets.  A message   *)
(* stands for a whole serialized payload (serialize_shield_payload_v0 or  *)
(* the 81-byte AuthorizationPayload; both fixed layouts, so equal bytes   *)
(* are equal payloads).  A signature is the pair it was made from: the    *)
(* attacker signs anything with its own key and replays signatures the    *)
(* oracle made, and cannot make others.  Offsets that run past the data   *)
(* make both the precompile and the program fail and are left out.        *)
(***************************************************************************)
EXTENDS Naturals, Sequences

CONSTANTS
    OracleKey,      \* the key AdminConfig / GlobalState stores
    AttackerKey,    \* a key the attacker holds
    Messages,       \* serialized payloads
    OracleSigned    \* the payloads the oracle has signed

\* ED25519_CURRENT_IX / the u16::MAX an offsets entry uses for "this
\* instruction".
CurrentIx == 65535

Ed25519Program == "ed25519"
OtherProgram   == "other"

Keys == {OracleKey, AttackerKey}

Sign(k, m) == [key |-> k, msg |-> m]

\* The signatures a transaction may carry: the attacker's own, and the
\* oracle's it has seen on chain.
Signatures == {Sign(AttackerKey, m) : m \in Messages}
                \cup {Sign(OracleKey, m) : m \in OracleSigned}

\* The data of an instruction, as the two readers see it: data[0], the
\* indices of the first offsets entry, and what lies at its offsets.
Data == [num : {0, 1}, sigIx : {CurrentIx, 0, 1}, pkIx : {CurrentIx, 0, 1},
         msgIx : {CurrentIx, 0, 1}, sig : Signatures, pk : Keys, msg : Messages]

Instructions == [program : {Ed25519Program, OtherProgram},
                 noAccounts : BOOLEAN, data : Data]

\* The instruction at 0-based index i of transaction tx.
At(tx, i) == tx[i + 1]

\* The instruction an index field names, seen from instruction self.
Source(tx, self, ix) == IF ix = CurrentIx THEN At(tx, self) ELSE At(tx, ix)

-----------------------------------------------------------------------------
(* The runtime: the ed25519 precompile *)

\* One ed25519 instruction passes when it has no signature entry, or when
\* the signature its first entry names is valid for the key and message
\* its entry names, each fetched from the instruction the index selects.
PrecompilePasses(tx, self) ==
    LET d == At(tx, self).data
    IN  d.num = 0
        \/ Source(tx, self, d.sigIx).data.sig
             = Sign(Source(tx, self, d.pkIx).data.pk,
                    Source(tx, self, d.msgIx).data.msg)

\* A transaction executes only if every ed25519 instruction in it passes.
TxExecutes(tx) ==
    \A i \in 0..(Len(tx) - 1) :
        At(tx, i).program = Ed25519Program => PrecompilePasses(tx, i)

-----------------------------------------------------------------------------
(* unforgiven_v2::verify_ed25519_ix *)

\* Mutant: the message index is not checked.
VerifyEd25519IxV2AnyMsgIx(tx, cur, payload, oracleSignature, oraclePubkey) ==
    LET ix == At(tx, cur - 1)
        d  == ix.data
    IN  /\ cur > 0
        /\ ix.program = Ed25519Program
        /\ d.num = 1
        /\ d.sigIx = CurrentIx /\ d.pkIx = CurrentIx
        /\ d.pk = oraclePubkey
        /\ d.sig = oracleSignature
        /\ d.msg = payload

\* The instruction just before the current one must be the precompile,
\* with one signature whose three indices all name itself; the key, the
\* signature and the message at its offsets must equal the oracle key,
\* the oracle_signature argument and serialize_shield_payload_v0(payload).
VerifyEd25519IxV2(tx, cur, payload, oracleSignature, oraclePubkey) ==
    LET ix == At(tx, cur - 1)
        d  == ix.data
    IN  /\ cur > 0
        /\ ix.program = Ed25519Program
        /\ d.num = 1
        /\ d.sigIx = CurrentIx /\ d.pkIx = CurrentIx /\ d.msgIx = CurrentIx
        /\ d.pk = oraclePubkey
        /\ d.sig = oracleSignature
        /\ d.msg = payload

-----------------------------------------------------------------------------
(* unforgiven::verify_ed25519_ix *)

\* Mutant: only the signature's index is checked.
VerifyEd25519IxV1SigIxOnly(tx, sigInstructionIndex, expected, oraclePubkey) ==
    LET ix == At(tx, sigInstructionIndex)
        d  == ix.data
    IN  /\ sigInstructionIndex < Len(tx)
        /\ ix.program = Ed25519Program
        /\ ix.noAccounts
        /\ d.num = 1
        /\ d.sigIx = CurrentIx
        /\ d.pk = oraclePubkey
        /\ d.msg = expected

\* The instruction at the caller's sig_instruction_index must be the
\* precompile with no accounts and one signature whose three indices all
\* name itself; the key at its offsets must be the stored oracle key and
\* the 81 message bytes the expected buyer, event, tier, expiry and nonce.
VerifyEd25519IxV1(tx, sigInstructionIndex, expected, oraclePubkey) ==
    LET ix == At(tx, sigInstructionIndex)
        d  == ix.data
    IN  /\ sigInstructionIndex < Len(tx)
        /\ ix.program = Ed25519Program
        /\ ix.noAccounts
        /\ d.num = 1
        /\ d.sigIx = CurrentIx /\ d.pkIx = CurrentIx /\ d.msgIx = CurrentIx
        /\ d.pk = oraclePubkey
        /\ d.msg = expected
=============================================================================
