----------------------------- MODULE MCModeString -----------------------------
(***************************************************************************)
(* An instance of ModeString for TLC.                                       *)
(***************************************************************************)
EXTENDS ModeString, TLC

CONSTANTS f1, f2, a, k1, k2, two, twoAndMore, minusOne

TwoSockets == {f1, f2}
OneNameMore == {f1, f2, a}

SocketSymmetry == Permutations(Fd)

\* "2", "2x" and "-1"
AtollOfTexts ==
    [t \in Text |-> IF t = minusOne THEN -1 ELSE 2]

================================================================================
