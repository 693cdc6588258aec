-------------------------------- MODULE MCMbr --------------------------------
(***************************************************************************)
(* Bytes of two bits and sectors of three bytes, a key of two bytes, every *)
(* environment of up to four bytes (one that is a whole sector among them) *)
(* and, with these, every loader of up to three, and some of four, which   *)
(* the memory does not hold.                                               *)
(***************************************************************************)
EXTENDS Mbr

MCBits == {0, 1}
MCNum == [a \in SUBSET MCBits |->
            (IF 0 \in a THEN 1 ELSE 0) + (IF 1 \in a THEN 2 ELSE 0)]
MCKey == <<{0}, {0, 1}>>
Texts(n) == UNION {[1 .. k -> SUBSET MCBits] : k \in 0 .. n}
MCEnvs == Texts(2) \cup {<<{1}, {}, e>> : e \in SUBSET MCBits}
                   \cup {<<{0}, {1}, e, {}>> : e \in SUBSET MCBits}
MCCodes == Texts(3) \cup {<<{1}, {1}, {0}, e>> : e \in SUBSET MCBits}
=============================================================================
