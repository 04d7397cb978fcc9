---------------------------- MODULE MC_OwnQueue ----------------------------
EXTENDS OwnQueue
=============================================================================
