------------------------------- MODULE MCStop -------------------------------
EXTENDS CellStop
MCRotation == [i \in Tolva |-> NumTolvas - 1 - i]
=============================================================================
