------------------------------ MODULE MsgLink ------------------------------
(***************************************************************************)
(* What the serial link promises: the messages sent are taken one by one   *)
(* and in order, for as long as the link is intact.  One that the port     *)
(* changes is refused, and the one handled before it stays the last, to be *)
(* handled again; every other is handled as it was sent.  Of a broken link *)
(* nothing is promised.  It mends with the first message sent while        *)
(* nothing is under way.                                                   *)
(***************************************************************************)
EXTENDS Sequences

CONSTANT Msgs   \* the messages there are

VARIABLES pending,  \* the messages sent over the intact link, not yet handled
          handled,  \* the message handled last
          refused,  \* the messages that the port changes
          intact

Init == pending = <<>> /\ intact = TRUE /\ refused \subseteq Msgs

Send == /\ intact'
        /\ \E m \in Msgs : pending' = Append(pending, m)
        /\ handled' = handled

Handle == /\ intact /\ intact'
          /\ pending # <<>>
          /\ handled' = IF Head(pending) \in refused THEN handled ELSE Head(pending)
          /\ pending' = Tail(pending)

Broken == /\ intact' = FALSE
          /\ pending' = <<>>

Next == (Send \/ Handle \/ Broken) /\ UNCHANGED refused

Spec == Init /\ [][Next]_<<pending, handled, refused, intact>>
=============================================================================
