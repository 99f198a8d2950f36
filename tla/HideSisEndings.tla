---------------------------- MODULE HideSisEndings ----------------------------
(***************************************************************************)
(* The ending rules of src/programs/unforgiven_v2/src/hide_sis_types.rs:  *)
(* truth_unlocked, stable_cooperation_path and resolve_ending_code, over   *)
(* the u8 dignity score, the i8 relation score, the pollution flag and    *)
(* the chapter-2 gate.  The chapter and node codes and the event structs  *)
(* of that file are data with no rule attached.                           *)
(***************************************************************************)
EXTENDS Integers

END_BURY_TRUTH    == 11
END_DISCLOSE      == 12
END_DOUBLE_PLAY   == 13

SILK_BURIAL_TRUE  == 1
BROKEN_OATH       == 2
FRAMED_AND_JAILED == 3

\* truth_unlocked
TruthUnlocked(dignity, relation, pollution, c2n3Passed) ==
    /\ dignity >= 70
    /\ relation >= 1
    /\ ~pollution
    /\ c2n3Passed

\* Mutant: the relation bound is tested for equality.
StableCooperationPathExact(decision, dignity, relation, pollution) ==
    /\ decision = END_BURY_TRUTH
    /\ dignity >= 70
    /\ relation = 2
    /\ ~pollution

\* stable_cooperation_path
StableCooperationPath(decision, dignity, relation, pollution) ==
    /\ decision = END_BURY_TRUTH
    /\ dignity >= 70
    /\ relation >= 2
    /\ ~pollution

\* resolve_ending_code: the early returns in order; END_DISCLOSE and every
\* other decision end in BROKEN_OATH.
ResolveEndingCode(decision, dignity, relation, pollution) ==
    IF StableCooperationPath(decision, dignity, relation, pollution)
    THEN SILK_BURIAL_TRUE
    ELSE IF pollution \/ relation <= 0 THEN FRAMED_AND_JAILED
    ELSE IF decision = END_DISCLOSE THEN BROKEN_OATH
    ELSE BROKEN_OATH
=============================================================================
