----------------------------- MODULE MC_TxRing -----------------------------
EXTENDS TxRing

\* A short message and one that fills the ring.
MCBytes == 0 .. 5
MCMsgs  == {<<1, 2>>, <<3, 4, 5>>}
=============================================================================
