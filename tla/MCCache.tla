------------------------------- MODULE MCCache -------------------------------
(* Cache on a few threads, blocks and sectors.                             *)
EXTENDS Cache, TLC

CacheSymmetry == Permutations(Client)
=============================================================================
