------------------------------ MODULE MC_Board ------------------------------
EXTENDS Board

Cmd(type, fields) == Fill([type |-> type, fields |-> fields])

\* The identity of the first chunk needs both of its bytes; the second chunk
\* has no task; MSG_OK is a message the board has no answer to.
MCCommands == {Cmd(MSG_OK, <<>>), Cmd(MSG_ABORT, <<>>),
               Cmd(MSG_COMPUTE, <<258, 2>>), Cmd(MSG_COMPUTE, <<3, 0>>)}

\* What the board answers.
MCAnswered == {Cmd(MSG_GET_VERSION, <<>>), Cmd(MSG_ABORT, <<>>),
               Cmd(MSG_COMPUTE, <<258, 1>>)}

\* A type that only the newer protocol has.
MCUnknown == {Fill([type |-> MSG_NBR, fields |-> <<>>])}
=============================================================================
