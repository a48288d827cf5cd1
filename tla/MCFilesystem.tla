--------------------------- MODULE MCFilesystem ---------------------------
(* A small instance of CafeFilesystem: both files start with one byte. *)
EXTENDS CafeFilesystem, TLC

MCStartContent == [p \in Files |-> <<CHOOSE b \in Bytes : TRUE>>]
ClientSymmetry == Permutations(Clients)
=============================================================================
