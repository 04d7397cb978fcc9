----------------------------- MODULE MC_HostRx -----------------------------
EXTENDS HostRx

Msg(t, p) == [type |-> t, payload |-> p]

\* The first result of chunk 2 lies right after the last of chunk 1; it is a
\* carriage return.
Data(cid, i, iter) == Msg(MSG_COMPUTE_DATA, <<cid, i, 0, iter>>)

MCReplies  == {Msg(MSG_OK, <<>>), Data(1, 79, 9), Data(2, 0, 13)}
MCStrayMsg == {Msg(255, <<>>), Data(255, 255, 0)}
MCStrayLen == {0, 3}
=============================================================================
