------------------------------ MODULE MCImage -------------------------------
(***************************************************************************)
(* A disk with a kernel, a data image and a part that fails its check      *)
(* behind it; an environment that names them all, a RAW image, a malformed *)
(* variable and one that is not set.                                       *)
(***************************************************************************)
EXTENDS Image

MCDisk == <<[signed |-> TRUE,  size |-> 3, version |-> 514],
            [signed |-> TRUE,  size |-> 5, version |-> 256],
            [signed |-> TRUE,  size |-> 2, version |-> 256],
            [signed |-> FALSE, size |-> 4, version |-> 514]>>

MCEntry == <<[type |-> "S", lba |-> 1],
             [type |-> "S", lba |-> 3],
             [type |-> "R", lba |-> 1],
             [type |-> "malformed", lba |-> 1],
             [type |-> "unset", lba |-> 1]>>
=============================================================================
