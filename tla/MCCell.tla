------------------------------- MODULE MCCell -------------------------------
EXTENDS Cell
MCInOrder == [i \in Tolva |-> i]
MCRotation == [i \in Tolva |-> NumTolvas - 1 - i]
=============================================================================
