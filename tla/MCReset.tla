------------------------------ MODULE MCReset ------------------------------
EXTENDS CellReset
MCRotation == [i \in Tolva |-> NumTolvas - 1 - i]
=============================================================================
