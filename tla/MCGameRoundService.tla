------------------------- MODULE MCGameRoundService -------------------------
(* Small instances of GameRoundService for TLC.  Attempts are alike, and so are
   request handlers; liveness is checked without the symmetry. *)
EXTENDS GameRoundService, TLC

Symmetry == Permutations(Tokens) \cup Permutations(Requests)

=============================================================================
