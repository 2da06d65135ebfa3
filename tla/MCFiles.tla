------------------------------ MODULE MCFiles ------------------------------
(***************************************************************************)
(* Instances of Files for TLC: blocks of three bytes, a file that ends in  *)
(* the middle of its second block, and one of three blocks where block     *)
(* numbers wrap at two.                                                    *)
(***************************************************************************)
EXTENDS Files

Image ==
  [e \in 0..3 |->
     CASE e = 0 -> [name |-> ".",     type |-> DirType,  inode |-> 0]
       [] e = 1 -> [name |-> "short", type |-> FileType, inode |-> 1]
       [] e = 2 -> [name |-> "long",  type |-> FileType, inode |-> 2]
       [] e = 3 -> [name |-> "rtc",   type |-> RtcType,  inode |-> 0]]

Blocks ==
  [f \in 1..2 |->
     CASE f = 1 -> [length |-> 5, block_num |-> [b \in 0..2 |-> 4 - b]]
       [] f = 2 -> [length |-> 7, block_num |-> [b \in 0..2 |-> b + 7]]]
=============================================================================
