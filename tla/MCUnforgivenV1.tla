---------------------------- MODULE MCUnforgivenV1 ----------------------------
(* One buyer, three tiers, two nonces, two expiries, an honest and a    *)
(* forged oracle key, two target rates and start times, and three base    *)
(* prices: a small one, one above u64::MAX / 4 of the scaled width, and  *)
(* one whose first rise overflows u64.                                   *)
EXTENDS UnforgivenV1, TLC

MCFpScale == 1000
MCU64Max == 65535
MCU128Max == 2147483647

MCTierLevels == {1, 2, 3}
MCExpiries == {1, 3}
MCTargetRates == {0, 10000}
MCStartTimes == {0, 1}
MCBasePrices == {100, 20000, 65000}
MCMaxClock == 3
MCMaxAttestations == 2
=============================================================================
