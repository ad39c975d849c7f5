--------------------------- MODULE MCUploadListing ---------------------------
(* Instance of UploadListing for TLC. *)
EXTENDS UploadListing, TLC

Symmetry == Permutations(Job)
=============================================================================
