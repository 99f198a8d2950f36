----------------------- MODULE MCEd25519Introspection -----------------------
(* Every transaction of three instructions an attacker can build around  *)
(* the program's instruction (index 2): instruction 0 belongs to another *)
(* program and carries any key, signature and message bytes; instruction *)
(* 1 is anything, an ed25519 precompile instruction with any indices and *)
(* contents included.  Two payloads, of which the oracle signed one, and *)
(* every call: execute_shield with either payload and any signature      *)
(* argument, buy_ticket with either expected message and any             *)
(* sig_instruction_index.                                                 *)
EXTENDS Ed25519Introspection

VARIABLES tx, call

vars == <<tx, call>>

Foreign == [program : {OtherProgram}, noAccounts : {TRUE},
            data : [num : {0}, sigIx : {CurrentIx}, pkIx : {CurrentIx},
                    msgIx : {CurrentIx}, sig : Signatures, pk : Keys,
                    msg : Messages]]

AnyMessage == CHOOSE m \in Messages : TRUE

\* The program's own instruction; its data is the Anchor arguments, which
\* neither reader takes as a precompile.
ProgramIx == [program |-> OtherProgram, noAccounts |-> FALSE,
              data |-> [num |-> 0, sigIx |-> CurrentIx, pkIx |-> CurrentIx,
                        msgIx |-> CurrentIx, sig |-> Sign(AttackerKey, AnyMessage),
                        pk |-> AttackerKey, msg |-> AnyMessage]]

Calls == [kind : {"execute_shield"}, payload : Messages, sig : Signatures]
           \cup [kind : {"buy_ticket"}, index : 0..2, payload : Messages]

Init ==
    /\ \E i0 \in Foreign, i1 \in Instructions : tx = <<i0, i1, ProgramIx>>
    /\ call \in Calls
Next == UNCHANGED vars
Spec == Init /\ [][Next]_vars

\* A well-formed transaction for payload m: the precompile just before
\* the program, with the oracle's signature over m in its own data.
Honest(m) ==
    LET d == [num |-> 1, sigIx |-> CurrentIx, pkIx |-> CurrentIx,
              msgIx |-> CurrentIx, sig |-> Sign(OracleKey, m),
              pk |-> OracleKey, msg |-> m]
    IN  <<CHOOSE i \in Foreign : TRUE,
          [program |-> Ed25519Program, noAccounts |-> TRUE, data |-> d],
          ProgramIx>>

Accepted ==
    /\ TxExecutes(tx)
    /\ IF call.kind = "execute_shield"
       THEN VerifyEd25519IxV2(tx, 2, call.payload, call.sig, OracleKey)
       ELSE VerifyEd25519IxV1(tx, call.index, call.payload, OracleKey)

-----------------------------------------------------------------------------
\* execute_shield accepts a payload only if the oracle signed it, however
\* the attacker lays out the precompile instruction and its offsets (the
\* three u16::MAX index checks of verify_ed25519_ix), and it accepts the
\* oracle's own well-formed transaction.
ShieldAcceptsOnlyOracleSigned ==
    /\ (call.kind = "execute_shield" /\ Accepted) => call.payload \in OracleSigned
    /\ \A m \in OracleSigned :
          /\ TxExecutes(Honest(m))
          /\ VerifyEd25519IxV2(Honest(m), 2, m, Sign(OracleKey, m), OracleKey)

\* buy_ticket accepts an authorization only if the oracle signed it,
\* whichever instruction sig_instruction_index names, and it accepts the
\* oracle's own well-formed transaction.
TicketAcceptsOnlyOracleSigned ==
    /\ (call.kind = "buy_ticket" /\ Accepted) => call.payload \in OracleSigned
    /\ \A m \in OracleSigned :
          VerifyEd25519IxV1(Honest(m), 1, m, OracleKey)
=============================================================================
