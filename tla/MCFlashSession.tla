-------------------------- MODULE MCFlashSession --------------------------
(* FlashSession over the deployments of two pairs of cards.                 *)
EXTENDS FlashSession
=============================================================================
