------------------------------- MODULE ShieldV2 -------------------------------
(***************************************************************************)
(* The unforgiven_v2 program of src/programs/unforgiven_v2/src/lib.rs:     *)
(* the AdminConfig PDA and its instructions, preview_price and            *)
(* execute_shield with the ProofUse PDA that makes an attestation         *)
(* single-use.  A Solana transaction is atomic, so each instruction is one *)
(* action whose guard is the conjunction of its account constraints and   *)
(* require!s; a failing instruction changes nothing.                      *)
(*                                                                         *)
(* The oracle is outside the repository: it signs payloads with the key   *)
(* it holds, for whichever scoring-model hash it believes active.  The    *)
(* ed25519 precompile instruction that must precede the program's        *)
(* instruction is reduced to what verify_ed25519_ix accepts: a valid      *)
(* signature over exactly the serialized payload, by the public key it   *)
(* names.  A forger holds the key Forged and can sign anything with it.  *)
(***************************************************************************)
EXTENDS Integers, Sequences, FiniteSets

CONSTANTS
    Users,          \* user wallets, model values
    Authority,      \* the program's upgrade authority, model value
    OracleKeys,     \* oracle public keys the admin may install
    Forged,         \* a key outside OracleKeys, held by an attacker
    ModelHashes,    \* scoring-model hashes
    Proofs,         \* zk_proof_hash values
    Nonces,         \* nonce values
    Inputs,         \* VrgdaInputs the oracle attests (price, velocity, time, dignity)
    Expiries,       \* attestation_expiry values
    MaxClock,       \* bound on Clock::unix_timestamp
    MaxAttestations,\* bound on the oracle's signatures
    MaxExecutions,  \* bound on the history of executions
    FpScale, U64Max, U128Max, MaxTimeElapsed

ASSUME /\ Forged \notin OracleKeys
       /\ Authority \notin Users
       /\ Expiries \subseteq Nat /\ MaxClock \in Nat

Math == INSTANCE VrgdaMath

Signers == Users \cup {Authority}
Keys    == OracleKeys \cup {Forged}

\* ShieldPayloadV0, reduced to the fields the program acts on.
Payloads == [user : Users, hash : ModelHashes, expiry : Expiries,
             proof : Proofs, nonce : Nonces, input : Inputs]

VARIABLES
    clock,        \* Clock::unix_timestamp
    globalInit,   \* the GlobalConfigV2 PDA exists
    adminInit,    \* the AdminConfig PDA exists
    oracle,       \* AdminConfig.oracle_pubkey
    activeHash,   \* AdminConfig.active_scoring_model_hash
    signed,       \* [payload, key] pairs the oracle has signed
    proofUses,    \* ProofUse PDAs: [user, proof, nonce] seeds
    previews,     \* PreviewPriceEvents emitted, as the payloads previewed
    executions    \* ShieldExecutionEvents emitted, as [payload, key, at]

vars == <<clock, globalInit, adminInit, oracle, activeHash, signed, proofUses, previews,
          executions>>

TypeOK ==
    /\ clock \in 0..MaxClock
    /\ globalInit \in BOOLEAN
    /\ adminInit \in BOOLEAN
    /\ oracle \in OracleKeys
    /\ activeHash \in ModelHashes
    /\ signed \subseteq [payload : Payloads, key : OracleKeys]
    /\ proofUses \subseteq [user : Users, proof : Proofs, nonce : Nonces]
    /\ previews \subseteq Payloads
    /\ executions \in Seq([payload : Payloads, key : Keys, at : 0..MaxClock])

Init ==
    /\ clock = 0
    /\ globalInit = FALSE
    /\ adminInit = FALSE
    /\ oracle \in OracleKeys
    /\ activeHash \in ModelHashes
    /\ signed = {}
    /\ proofUses = {}
    /\ previews = {}
    /\ executions = <<>>

-----------------------------------------------------------------------------
(* Helpers of lib.rs *)

\* validate_preview_request_fields: expiry, model hash, payload user.
\* (The policy version, dignity range, velocity floor, user mode and
\* time bound are checked again by the quote, or are constants of a
\* well-formed payload.)
ValidRequest(p, signer) ==
    /\ p.expiry > clock
    /\ p.hash = activeHash
    /\ p.user = signer

\* verify_ed25519_ix: the preceding instruction verified a signature over
\* serialize_shield_payload_v0(p) by key k, and k is the oracle key.
Verified(p, k) ==
    /\ k = Forged \/ [payload |-> p, key |-> k] \in signed
    /\ k = oracle

\* quote_from_payload: the VRGDA quote, or the math error.
QuoteFromPayload(p) == Math!CalculateVrgdaQuote(p.input)

\* Mutant: the scoring-model hash is taken as the proof-hash seed.
ProofKeyWithHash(p) == [user |-> p.user, proof |-> p.hash, nonce |-> p.nonce]

\* The seeds of the ProofUse PDA.
ProofKey(p) == [user |-> p.user, proof |-> p.proof, nonce |-> p.nonce]

-----------------------------------------------------------------------------
(* Environment *)

Tick ==
    /\ clock < MaxClock
    /\ clock' = clock + 1
    /\ UNCHANGED <<globalInit, adminInit, oracle, activeHash, signed, proofUses, previews,
                   executions>>

\* The oracle signs an attestation with the key it holds.  Its view of
\* the active hash may be stale, so any hash can be attested.
Attest(p, k) ==
    /\ Cardinality(signed) < MaxAttestations
    /\ signed' = signed \cup {[payload |-> p, key |-> k]}
    /\ UNCHANGED <<globalInit, clock, adminInit, oracle, activeHash, proofUses, previews,
                   executions>>

-----------------------------------------------------------------------------
(* Instructions *)

\* initialize_v2: `init` of the GlobalConfigV2 PDA fails if it exists; the
\* signer must be the program's upgrade authority.
InitializeV2(s) ==
    /\ ~globalInit
    /\ s = Authority
    /\ globalInit' = TRUE
    /\ UNCHANGED <<clock, adminInit, oracle, activeHash, signed, proofUses,
                   previews, executions>>

\* initialize_admin_config: `init` of the PDA fails if it exists; the
\* signer must be the program's upgrade authority.
InitializeAdminConfig(s, k, h) ==
    /\ ~adminInit
    /\ s = Authority
    /\ adminInit' = TRUE
    /\ oracle' = k
    /\ activeHash' = h
    /\ UNCHANGED <<globalInit, clock, signed, proofUses, previews, executions>>

\* AdminOnly: the PDA exists and has_one = authority.
AdminOnly(s) == adminInit /\ s = Authority

RotateOracle(s, k) ==
    /\ AdminOnly(s)
    /\ oracle' = k
    /\ UNCHANGED <<globalInit, clock, adminInit, activeHash, signed, proofUses, previews,
                   executions>>

SetScoringModelHash(s, h) ==
    /\ AdminOnly(s)
    /\ activeHash' = h
    /\ UNCHANGED <<globalInit, clock, adminInit, oracle, signed, proofUses, previews,
                   executions>>

ResetAdminGuardrails(s, h) ==
    /\ AdminOnly(s)
    /\ activeHash' = h
    /\ UNCHANGED <<globalInit, clock, adminInit, oracle, signed, proofUses, previews,
                   executions>>

\* preview_price: validate, verify the signature, quote, emit.
PreviewPrice(u, p, k) ==
    /\ adminInit
    /\ ValidRequest(p, u)
    /\ Verified(p, k)
    /\ QuoteFromPayload(p).ok
    /\ previews' = previews \cup {p}
    /\ UNCHANGED <<globalInit, clock, adminInit, oracle, activeHash, signed, proofUses,
                   executions>>

\* Mutant: the ProofUse account is `init_if_needed`.
ExecuteShieldReusable(u, p, k) ==
    /\ adminInit
    /\ Len(executions) < MaxExecutions
    /\ ValidRequest(p, u)
    /\ Verified(p, k)
    /\ QuoteFromPayload(p).ok
    /\ ~QuoteFromPayload(p).blocked
    /\ proofUses' = proofUses \cup {ProofKey(p)}
    /\ executions' = Append(executions, [payload |-> p, key |-> k, at |-> clock])
    /\ UNCHANGED <<globalInit, clock, adminInit, oracle, activeHash, signed, previews>>

\* execute_shield: the same checks, the quote must not be blocked, and the
\* ProofUse PDA is created (`init`, which fails if it exists).
ExecuteShield(u, p, k) ==
    /\ adminInit
    /\ Len(executions) < MaxExecutions
    /\ ProofKey(p) \notin proofUses
    /\ ValidRequest(p, u)
    /\ Verified(p, k)
    /\ QuoteFromPayload(p).ok
    /\ ~QuoteFromPayload(p).blocked
    /\ proofUses' = proofUses \cup {ProofKey(p)}
    /\ executions' = Append(executions, [payload |-> p, key |-> k, at |-> clock])
    /\ UNCHANGED <<globalInit, clock, adminInit, oracle, activeHash, signed, previews>>

Next ==
    \/ Tick
    \/ \E p \in Payloads, k \in OracleKeys : Attest(p, k)
    \/ \E s \in Signers :
          \/ InitializeV2(s)
          \/ \E k \in OracleKeys, h \in ModelHashes : InitializeAdminConfig(s, k, h)
          \/ \E k \in OracleKeys : RotateOracle(s, k)
          \/ \E h \in ModelHashes : SetScoringModelHash(s, h) \/ ResetAdminGuardrails(s, h)
    \/ \E u \in Users, p \in Payloads, k \in Keys :
          PreviewPrice(u, p, k) \/ ExecuteShield(u, p, k)

Spec == Init /\ [][Next]_vars

-----------------------------------------------------------------------------
\* An attestation is spent at most once: no two executions share the
\* ProofUse seeds (user, zk_proof_hash, nonce), however the oracle, the
\* admin and the attacker interleave.
NoReplay ==
    \A i, j \in DOMAIN executions :
        i < j => ProofKey(executions[i].payload) # ProofKey(executions[j].payload)

=============================================================================
