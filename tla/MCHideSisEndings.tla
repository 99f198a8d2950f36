--------------------------- MODULE MCHideSisEndings ---------------------------
(* Every combination of the three final decisions and an unknown code,    *)
(* dignity and relation scores at each threshold and at the ends of u8    *)
(* and i8, and both flags.                                                *)
EXTENDS HideSisEndings

VARIABLE input

Decisions == {0, END_BURY_TRUTH, END_DISCLOSE, END_DOUBLE_PLAY}
Dignities == {0, 69, 70, 100, 255}
Relations == {-128, -1, 0, 1, 2, 3, 127}

Inputs == [decision : Decisions, dignity : Dignities, relation : Relations,
           pollution : BOOLEAN, c2n3 : BOOLEAN]

Init == input \in Inputs
Next == UNCHANGED input
Spec == Init /\ [][Next]_input

Ending(x) == ResolveEndingCode(x.decision, x.dignity, x.relation, x.pollution)

\* How good an ending is: the true burial, then the broken oath, then jail.
Rank(code) == CASE code = SILK_BURIAL_TRUE -> 2 [] code = BROKEN_OATH -> 1
                [] OTHER -> 0

\* A better dignity or relation score never earns a worse ending for the
\* same decision and pollution flag.
EndingMonotone ==
    \A d \in Dignities, r \in Relations :
        (d >= input.dignity /\ r >= input.relation)
            => Rank(Ending([input EXCEPT !.dignity = d, !.relation = r]))
               >= Rank(Ending(input))
=============================================================================
