------------------------------ MODULE DedupeSpec ------------------------------
(***************************************************************************)
(* What SignatureDedupe::insert_if_new promises (spec 4.1): it answers    *)
(* true iff the identifier was not accepted within the trailing TTL, and  *)
(* forgets every entry older than the TTL before it tests.  The state is  *)
(* the acceptance instant of each remembered identifier, with no order.   *)
(***************************************************************************)
EXTENDS Integers

CONSTANTS Sigs, TTL, MaxTime, NoTime

VARIABLES now, seen, fresh

Expired(t) == t # NoTime /\ now - t > TTL

\* Forget what is older than the TTL, then test and record.
Insert(s) ==
    LET kept == [x \in Sigs |-> IF Expired(seen[x]) THEN NoTime ELSE seen[x]]
    IN  /\ fresh' = (kept[s] = NoTime)
        /\ seen' = IF kept[s] = NoTime THEN [kept EXCEPT ![s] = now] ELSE kept
        /\ UNCHANGED now

Advance ==
    /\ now < MaxTime
    /\ now' = now + 1
    /\ UNCHANGED <<seen, fresh>>

Init ==
    /\ now = 0
    /\ seen = [x \in Sigs |-> NoTime]
    /\ fresh = FALSE

Next == Advance \/ \E s \in Sigs : Insert(s)

Spec == Init /\ [][Next]_<<now, seen, fresh>>
=============================================================================
