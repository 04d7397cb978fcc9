------------------------------ MODULE MC_Hw09 ------------------------------
EXTENDS Hw09
=============================================================================
