------------------------------ MODULE ByteLine ------------------------------
(***************************************************************************)
(* What sending promises: the bytes of the messages handed over leave in   *)
(* the order they were handed over, none lost, repeated or made up.        *)
(***************************************************************************)
EXTENDS Sequences

CONSTANT Msgs   \* the messages there are, each a sequence of bytes

VARIABLES pending,  \* the bytes handed over that have not left
          out       \* the bytes that have left

Init == pending = <<>> /\ out = <<>>

Hand == /\ \E m \in Msgs : pending' = pending \o m
        /\ out' = out

Emit == /\ pending # <<>>
        /\ out' = Append(out, Head(pending))
        /\ pending' = Tail(pending)

Next == Hand \/ Emit

Spec == Init /\ [][Next]_<<pending, out>>
=============================================================================
