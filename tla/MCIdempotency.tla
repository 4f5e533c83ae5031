------------------------------ MODULE MCIdempotency ------------------------------
(***************************************************************************)
(* Idempotency with a few keys and requests.                               *)
(***************************************************************************)
EXTENDS Idempotency, TLC

Symmetry == Permutations(Keys) \cup Permutations(Requests)

================================================================================
