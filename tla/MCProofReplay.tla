--------------------------- MODULE MCProofReplay ---------------------------
(* Two Atoms and an Array of two beside four pages of two bytes, in a binary tree of depth two *)
EXTENDS ProofReplay

MCLens == <<1, 1, 2>>
=============================================================================
