------------------------------- MODULE MCAta --------------------------------
(***************************************************************************)
(* Two-bit bytes and four-bit words: commands of at most three sectors,    *)
(* counts from none to more than a word holds; streams positioned at the   *)
(* beginning, near the end of the disk and near the end of what a command  *)
(* can address.                                                            *)
(***************************************************************************)
EXTENDS Ata

MCCounts == 0 .. 17
MCPositions == {0, 9, 13, 18}
=============================================================================
