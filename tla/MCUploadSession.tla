--------------------------- MODULE MCUploadSession ---------------------------
(* Sessions and workers are interchangeable.                               *)
EXTENDS UploadSession, TLC

Symmetry == Permutations(Session) \cup Permutations(Worker)
=============================================================================
