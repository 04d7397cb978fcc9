------------------------------ MODULE MC_Codec ------------------------------
EXTENDS Codec

\* One or two messages of every type; sums that wrap, and carriage returns as
\* they occur: as a column of a result, and as a checksum.
Filled(type, first) == [type |-> type, payload |-> [i \in 1 .. PayloadSize(type) |->
                         IF i = 1 THEN first ELSE (first * i) % 256]]
MCSample == {Filled(t, b) : t \in KnownType, b \in {3, 255}}
            \cup {[type |-> MSG_COMPUTE_DATA, payload |-> <<0, 13, 9, 5>>],
                  [type |-> MSG_COMPUTE_DATA, payload |-> <<0, 220, 9, 4>>]}
MCDamage == {1, 10, 255}
=============================================================================
