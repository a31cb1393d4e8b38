------------------------------- MODULE MCFiles --------------------------------
(* Files with two processes and two files.                                 *)
EXTENDS Files, TLC

FilesSymmetry == Permutations(Proc) \cup Permutations(Name)
=============================================================================
