------------------------------ MODULE KeyFifo ------------------------------
(***************************************************************************)
(* What the event queue promises: the events put are taken one by one, in  *)
(* order, none lost and none repeated, for as long as it is intact.        *)
(* Events are numbered in the order they are put.                          *)
(***************************************************************************)
EXTENDS Integers, Sequences

VARIABLES pending,  \* the events put and not yet taken
          taken,    \* the events taken
          intact    \* FALSE once the implementation has been broken

Init == pending = <<>> /\ taken = <<>> /\ intact = TRUE

Put  == /\ pending' = Append(pending, Len(taken) + Len(pending) + 1)
        /\ taken' = taken

Take == /\ pending # <<>>
        /\ taken' = Append(taken, Head(pending))
        /\ pending' = Tail(pending)

\* Nothing is promised of a broken queue, and it never mends.
Next == \/ intact /\ intact' /\ (Put \/ Take)
        \/ intact' = FALSE

Spec == Init /\ [][Next]_<<pending, taken, intact>>
=============================================================================
