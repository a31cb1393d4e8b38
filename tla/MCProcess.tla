------------------------------ MODULE MCProcess ------------------------------
(* Process on a few pages and tids.                                        *)
EXTENDS Process, TLC

PageSymmetry == Permutations(Page)
=============================================================================
