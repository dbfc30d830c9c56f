---------------------------- MODULE MCSession ----------------------------
(* A small instance of Session.                                            *)
EXTENDS Session, TLC

Symmetric == Permutations(Sessions) \cup Permutations(Ids)
=============================================================================
