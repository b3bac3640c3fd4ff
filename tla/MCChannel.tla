------------------------------ MODULE MCChannel -----------------------------
(* Small instance of Channel, with a tolerance of 1: src's clock behind, even  *)
(* with or ahead of dst's, within the tolerance and beyond it.                 *)
EXTENDS Channel

MCSkews == -2..2
=============================================================================
