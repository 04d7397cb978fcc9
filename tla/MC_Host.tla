------------------------------ MODULE MC_Host ------------------------------
EXTENDS Host
=============================================================================
