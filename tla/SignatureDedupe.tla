---------------------------- MODULE SignatureDedupe ----------------------------
(***************************************************************************)
(* SignatureDedupe of src/crates/sentinel/src/main.rs: a VecDeque of      *)
(* (Instant, signature) in insertion order beside a HashSet of the same   *)
(* signatures.  insert_if_new first pops expired entries from the front   *)
(* only, removing each from the set, then tests the set and, if absent,   *)
(* inserts into the set and pushes (Instant::now(), sig) at the back.     *)
(* The two Instant::now() reads of one call are taken as one instant.     *)
(***************************************************************************)
EXTENDS Integers, Sequences, SequencesExt

CONSTANTS
    Sigs,     \* transaction signatures, model values
    TTL,      \* thresholds.dedupe_ttl_secs
    MaxTime,  \* bound on the monotonic clock
    NoTime    \* model value: no entry

ASSUME TTL \in Nat /\ MaxTime \in Nat

VARIABLES
    now,      \* Instant::now()
    ordered,  \* SignatureDedupe.ordered, a sequence of [ts, sig]
    set,      \* SignatureDedupe.set
    fresh     \* the bool the last insert_if_new returned

vars == <<now, ordered, set, fresh>>

Entry == [ts : 0..MaxTime, sig : Sigs]

TypeOK ==
    /\ now \in 0..MaxTime
    /\ ordered \in Seq(Entry)
    /\ set \subseteq Sigs
    /\ fresh \in BOOLEAN

Init ==
    /\ now = 0
    /\ ordered = <<>>
    /\ set = {}
    /\ fresh = FALSE

\* Mutant: an entry exactly TTL old already counts as expired.
RECURSIVE ExpiredPrefixAtTTL(_, _, _)
ExpiredPrefixAtTTL(q, t, ttl) ==
    IF q # <<>> /\ t - Head(q).ts >= ttl
    THEN <<Head(q)>> \o ExpiredPrefixAtTTL(Tail(q), t, ttl)
    ELSE <<>>

\* The `while let Some((ts, _)) = self.ordered.front()` loop: the longest
\* prefix whose entries are older than the TTL at instant t.
RECURSIVE ExpiredPrefix(_, _, _)
ExpiredPrefix(q, t, ttl) ==
    IF q # <<>> /\ t - Head(q).ts > ttl
    THEN <<Head(q)>> \o ExpiredPrefix(Tail(q), t, ttl)
    ELSE <<>>

\* Mutant: eviction pops the queue but leaves the set alone.
InsertIfNewKeepsSet(q, st, s, t, ttl) ==
    LET q1 == SubSeq(q, Len(ExpiredPrefix(q, t, ttl)) + 1, Len(q))
    IN  IF s \in st
        THEN [ordered |-> q1, set |-> st, fresh |-> FALSE]
        ELSE [ordered |-> Append(q1, [ts |-> t, sig |-> s]),
              set |-> st \cup {s}, fresh |-> TRUE]

\* Mutant: the entry records its expiry deadline instead of its instant.
InsertIfNewDeadline(q, st, s, t, ttl) ==
    LET gone == ExpiredPrefix(q, t, ttl)
        q1   == SubSeq(q, Len(gone) + 1, Len(q))
        st1  == st \ {e.sig : e \in ToSet(gone)}
    IN  IF s \in st1
        THEN [ordered |-> q1, set |-> st1, fresh |-> FALSE]
        ELSE [ordered |-> Append(q1, [ts |-> t + ttl, sig |-> s]),
              set |-> st1 \cup {s}, fresh |-> TRUE]

\* evict_expired followed by the test and the insertion, as one function of
\* the state: the new queue, the new set and the returned bool.
InsertIfNew(q, st, s, t, ttl) ==
    LET gone == ExpiredPrefix(q, t, ttl)
        q1   == SubSeq(q, Len(gone) + 1, Len(q))
        st1  == st \ {e.sig : e \in ToSet(gone)}
    IN  IF s \in st1
        THEN [ordered |-> q1, set |-> st1, fresh |-> FALSE]
        ELSE [ordered |-> Append(q1, [ts |-> t, sig |-> s]),
              set |-> st1 \cup {s}, fresh |-> TRUE]

Insert(s) ==
    LET r == InsertIfNew(ordered, set, s, now, TTL)
    IN  /\ ordered' = r.ordered
        /\ set' = r.set
        /\ fresh' = r.fresh
        /\ UNCHANGED now

Advance ==
    /\ now < MaxTime
    /\ now' = now + 1
    /\ UNCHANGED <<ordered, set, fresh>>

Next == Advance \/ \E s \in Sigs : Insert(s)

Spec == Init /\ [][Next]_vars

-----------------------------------------------------------------------------
\* The set always mirrors the queue, each signature at most once in it
\* (spec 3: "the set always exactly mirrors the queue contents").
SetMirrorsQueue ==
    /\ set = {e.sig : e \in ToSet(ordered)}
    /\ Len(ordered) = Cardinality(set)

\* The acceptance instant the queue remembers for each signature.
SeenAt(x) ==
    IF x \in set
    THEN (CHOOSE e \in ToSet(ordered) : e.sig = x).ts
    ELSE NoTime

Abstract == INSTANCE DedupeSpec WITH seen <- [x \in Sigs |-> SeenAt(x)]

\* The queue with lazy front-only eviction implements the contract: its
\* answers are those of a store that forgets every expired entry before
\* each test, which needs the queue to stay ordered by acceptance instant.
ImplementsDedupeSpec == Abstract!Spec
=============================================================================
