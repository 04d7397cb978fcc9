---------------------------- MODULE MC_Counter ----------------------------
EXTENDS Counter
=============================================================================
