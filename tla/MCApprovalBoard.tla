--------------------------- MODULE MCApprovalBoard ---------------------------
EXTENDS ApprovalBoard, TLC
CONSTANTS ann, Ann, bob, Bob, cyd, t1, t2, t3
(* ann and bob under two spellings *)
TheFold == [i \in Identities |-> CASE i \in {ann, Ann} -> ann [] i \in {bob, Bob} -> bob [] OTHER -> i]
Symmetry == Permutations({t1, t2, t3})
=============================================================================
