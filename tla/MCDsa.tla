------------------------------- MODULE MCDsa --------------------------------
(***************************************************************************)
(* Digits of two bits; 67 has four of them, the last three not all zero,   *)
(* and 11 divides 66.  9 has the order 11, and its powers 14 and 15 do not *)
(* end in the digit 0.  For the violation Q is 67 itself, whose last digit *)
(* the estimate does not see, P is 269, where 81 has the order 67, and     *)
(* what is checked is what was signed.                                     *)
(***************************************************************************)
EXTENDS Dsa

MCPrivs == {2, 10}
MCDigests == {0, 1, 5, 10, 11, 12, 13}
MCRs == 0 .. 12
MCSs == 0 .. 15

SlipPrivs == {2}
SlipDigests == {1}
SlipSignature == {0}
=============================================================================
