------------------------------- MODULE Boxes -------------------------------
(* What the cell promises about boxes, whichever robots fail: each is made  *)
(* once, at the AMR, and goes from there to the cobot and from the cobot to *)
(* the record of a pallet, one step at a time, keeping its number and its   *)
(* colour; at any of the three it may be given up, and no place holds two.  *)
EXTENDS Naturals

CONSTANTS Colours, Nobody

VARIABLES
  made,                 \* the next number
  amr, cobot, record    \* the box each of them has, or Nobody

boxVars == <<made, amr, cobot, record>>

Init == made = 1 /\ amr = Nobody /\ cobot = Nobody /\ record = Nobody

(* A place keeps its box or gives it up. *)
Keeps(box, next) == next \in {box, Nobody}

Makes == made' = made + 1 /\ amr' \in [tolva: Colours, id: {made}]
Loads == amr # Nobody /\ cobot' = amr /\ amr' = Nobody
Records == cobot # Nobody /\ record' = cobot /\ cobot' = Nobody

Moves ==
  /\ Makes \/ (made' = made /\ Keeps(amr, amr'))
  /\ Loads \/ Keeps(cobot, cobot')
  /\ Records \/ Keeps(record, record')

(* The controller restarts: it knows of no box, and numbers them afresh.    *)
Restarts == Init'

Next == Moves \/ Restarts

Spec == Init /\ [][Next]_boxVars
=============================================================================
