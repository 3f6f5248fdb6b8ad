--------------------------------- MODULE Gate ---------------------------------
(***************************************************************************)
(* What the password gate of a connection promises: a command runs only     *)
(* after the password that was offered last, before the first command, was  *)
(* the right one; otherwise none ever runs.                                 *)
(***************************************************************************)
EXTENDS Sequences

CONSTANT Command

VARIABLES
    door,   \* "locked", the last password was "right" or "wrong", "open", "shut"
    ran     \* the commands that were run

vars == <<door, ran>>

Init == door = "locked" /\ ran = <<>>

Offer ==
    /\ door \in {"locked", "right", "wrong"}
    /\ door' \in {"right", "wrong"}
    /\ UNCHANGED ran

Open == door = "right" /\ door' = "open" /\ UNCHANGED ran

Refuse == door \in {"locked", "wrong"} /\ door' = "shut" /\ UNCHANGED ran

\* Only QUIT shuts an open door.
Run ==
    /\ door = "open"
    /\ \E c \in Command :
        /\ ran' = Append(ran, c)
        /\ door' = IF c = "QUIT" THEN "shut" ELSE "open"

Spec == Init /\ [][Offer \/ Open \/ Refuse \/ Run]_vars

================================================================================
