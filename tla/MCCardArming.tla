----------------------------- MODULE MCCardArming -----------------------------
(***************************************************************************)
(* CardArming with a card, a USB stick that holds the images, a fixed USB  *)
(* disk, and two drive numbers for them.                                   *)
(***************************************************************************)
EXTENDS CardArming

CONSTANTS card, stick, disk

Removables == {card, stick}
FixedOnes  == {disk}
TwoNumbers == {1, 2}

\* The disk is as large as the card: such a swap is not seen.
Sizes == [d \in {card, stick, disk} |-> IF d = stick THEN 1 ELSE 2]
===============================================================================
