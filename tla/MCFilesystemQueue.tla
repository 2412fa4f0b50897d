------------------------- MODULE MCFilesystemQueue -------------------------
(***************************************************************************)
(* Instances of FilesystemQueue for TLC.                                   *)
(***************************************************************************)
EXTENDS FilesystemQueue, TLC

ProcessSymmetry == Permutations(Workers) \union Permutations(Handlers)

=============================================================================
