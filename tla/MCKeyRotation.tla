---------------------------- MODULE MCKeyRotation ---------------------------
(* Small instances of KeyRotation.  Keys made by rotations are interchangeable. *)
EXTENDS KeyRotation, TLC

LaterKeys == Permutations(Key \ {FirstKey})
=============================================================================
