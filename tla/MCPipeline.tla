----------------------------- MODULE MCPipeline -----------------------------
(* Two signatures, each handed over at most twice; a one-slot channel so   *)
(* that the producer blocks; TTL equal to the window (the boundary at     *)
(* which a redelivery could reach the window twice); a clock bounded at 2 *)
(* so that an envelope can wait past the window and past the TTL.         *)
EXTENDS Pipeline, TLC

CONSTANTS s1, s2

MCCapacity == 1
MCMaxDeliveries == 2
MCTTL == 1
MCWindowLen == 1
MCMinSamples == 1
MCMinInterval == 1
MCMaxTime == 2

\* s1 comes from a guest, s2 from a verified user.
MCClassOf == (s1 :> [guest |-> TRUE, verified |-> FALSE])
              @@ (s2 :> [guest |-> FALSE, verified |-> TRUE])
=============================================================================
