------------------------------ MODULE MCPrograms ------------------------------
(* The two on-chain programs, unforgiven_v2 (ShieldV2) and unforgiven v1  *)
(* (UnforgivenV1), and the sentinel's SignatureDedupe, checked in one     *)
(* state space.  They share no state, so `program` picks the one whose    *)
(* steps a behaviour runs; the others stay in their initial states.  This *)
(* explores each exactly as on its own, in the sum of their state spaces. *)
(*                                                                         *)
(* unforgiven_v2: one user, two oracle keys and a forged one, two model   *)
(* hashes, two nonces, two expiries, and two attested inputs: one the     *)
(* shield lets through and one whose quote is infinite and blocked.       *)
(* unforgiven: one buyer, three tiers, two nonces, two expiries, an       *)
(* honest and a forged oracle key, two target rates and start times, and *)
(* three base prices: a small one, one above u64::MAX / 4 of the scaled  *)
(* width, and one whose first rise overflows u64.                        *)
(* SignatureDedupe: three signatures, a TTL of 2 and a clock bounded at 6: *)
(* an identifier is repeated at, just past and well past the TTL while    *)
(* others sit before and after it in the queue.                           *)
EXTENDS Naturals

CONSTANTS u1, Authority, k1, k2, Forged, h1, h2, z1, n1, n2, b1, OracleKey,
          s1, s2, s3, NoTime

VARIABLES
    program,
    clock, globalInit, adminInit, oracle, activeHash, signed, proofUses,
    previews, executions,                                  \* ShieldV2
    v1Clock, initialized, global, v1Signed, tickets, purchases,  \* UnforgivenV1
    dNow, dOrdered, dSet, dFresh                                 \* SignatureDedupe

shieldVars == <<clock, globalInit, adminInit, oracle, activeHash, signed, proofUses,
                previews, executions>>
v1Vars == <<v1Clock, initialized, global, v1Signed, tickets, purchases>>
dedupeVars == <<dNow, dOrdered, dSet, dFresh>>
vars == <<program, shieldVars, v1Vars, dedupeVars>>

S == INSTANCE ShieldV2 WITH
        Users <- {u1}, OracleKeys <- {k1, k2}, ModelHashes <- {h1, h2},
        Proofs <- {z1}, Nonces <- {n1, n2},
        Inputs <- { [price |-> 100, velocity |-> 5000, time |-> 12, dignity |-> 90],
                    [price |-> 65535, velocity |-> 9000, time |-> 12, dignity |-> 0] },
        Expiries <- {1, 2}, MaxClock <- 2, MaxAttestations <- 2, MaxExecutions <- 3,
        FpScale <- 1000, U64Max <- 65535, U128Max <- 2147483647, MaxTimeElapsed <- 20

V1 == INSTANCE UnforgivenV1 WITH
        clock <- v1Clock, signed <- v1Signed,
        Buyers <- {b1}, Nonces <- {n1, n2}, TierLevels <- {1, 2, 3},
        Expiries <- {1, 3}, TargetRates <- {0, 10000}, StartTimes <- {0, 1},
        BasePrices <- {100, 20000, 65000}, MaxClock <- 3, MaxAttestations <- 2,
        FpScale <- 1000, U64Max <- 65535, U128Max <- 2147483647

D == INSTANCE SignatureDedupe WITH
        now <- dNow, ordered <- dOrdered, set <- dSet, fresh <- dFresh,
        Sigs <- {s1, s2, s3}, TTL <- 2, MaxTime <- 6

Init ==
    /\ program \in {"unforgiven_v2", "unforgiven", "dedupe"}
    /\ S!Init
    /\ V1!Init
    /\ D!Init

Next ==
    \/ program = "unforgiven_v2" /\ S!Next /\ UNCHANGED <<program, v1Vars, dedupeVars>>
    \/ program = "unforgiven" /\ V1!Next /\ UNCHANGED <<program, shieldVars, dedupeVars>>
    \/ program = "dedupe" /\ D!Next /\ UNCHANGED <<program, shieldVars, v1Vars>>

Spec == Init /\ [][Next]_vars

-----------------------------------------------------------------------------
\* The accounts of both programs keep their types: ShieldV2's AdminConfig,
\* ProofUse seeds and events, and v1's GlobalState, Ticket seeds and
\* charged amounts (a u64 after every checked step), and the dedupe queue.
TypeOK == S!TypeOK /\ V1!TypeOK /\ D!TypeOK

\* execute_shield: an attestation is spent at most once, across oracle
\* rotations, hash changes and a forged key (the ProofUse `init`).
NoReplay == S!NoReplay

\* buy_ticket: a (buyer, nonce) authorization mints at most one Ticket,
\* whatever tier, expiry or instant it is replayed with.
OneTicketPerNonce == V1!OneTicketPerNonce

\* buy_ticket: at one instant each further sale never lowers the VRGDA
\* price.
PriceRisesWithSales == V1!PriceRisesWithSales

\* SignatureDedupe: the HashSet always mirrors the VecDeque, each signature
\* at most once in it, across front-only evictions and inserts.
SetMirrorsQueue == D!SetMirrorsQueue

\* SignatureDedupe: the queue with lazy front-only eviction implements the
\* contract of spec 4.1, a store that forgets every expired entry before
\* each test.
ImplementsDedupeSpec == D!ImplementsDedupeSpec
=============================================================================
