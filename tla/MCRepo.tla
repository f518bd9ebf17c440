------------------------------- MODULE MCRepo -------------------------------
(* States that share a chunk, repeat one, end within one, or are empty. *)
EXTENDS Repo

MCStates == {<< >>, <<1, 1, 2>>, <<1, 1, 1, 1>>}
=============================================================================
