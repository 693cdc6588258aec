------------------------------ MODULE BitWords ------------------------------
(***************************************************************************)
(* Bytes and the words of four bytes that crypt/blowfish and crypt/sha1.c  *)
(* compute with, as the sets of the places of their bits, the lowest 0.    *)
(***************************************************************************)
EXTENDS Integers, Sequences, SequencesExt

CONSTANT ByteBits    (* 8                                                  *)

ASSUME ByteBitsAssumption == ByteBits \in Nat \ {0}

WordLen == 4
WordBits == WordLen * ByteBits
Byte == SUBSET (0 .. ByteBits - 1)
Word == SUBSET (0 .. WordBits - 1)
Zeros(n) == [k \in 1 .. n |-> {}]

(* x after Op(., a + 1) and so on up to Op(., b).  Each value is a member *)
(* of a set before the next is made of it, so that no evaluation is put    *)
(* off.                                                                    *)
Stretch(Op(_, _), x, a, b) ==
  LET f[k \in a .. b] ==
        IF k = a THEN x ELSE CHOOSE z \in {Op(y, k) : y \in {f[k - 1]}} : TRUE
  IN f[b]

(* x after Op(., 1) and so on up to Op(., n), a stretch of ten at a time:  *)
(* TLC's stack is as deep as a function recurs.                            *)
Iterate(Op(_, _), x, n) ==
  LET tens == (n + 9) \div 10
      Ten(y, c) == Stretch(Op, y, 10 * (c - 1), IF c = tens THEN n ELSE 10 * c)
  IN Stretch(Ten, x, 0, tens)

Xor(a, b) == (a \ b) \cup (b \ a)
Rotl(n, a) == {(i + n) % WordBits : i \in a}

(* The sum of two words; what does not fit is dropped.  A carry comes from *)
(* below if two bits meet there and every place between hands it on.       *)
Carries(a, b) ==
  {i \in 1 .. WordBits - 1 :
     \E j \in a \cap b : j < i /\ j + 1 .. i - 1 \subseteq a \cup b}
Plus(a, b) == Xor(Xor(a, b), Carries(a, b))

(* The word of the value n, of which the lowest bits are kept; the value   *)
(* of a byte.                                                              *)
OfNat(n) == {i \in 0 .. WordBits - 1 : (n \div 2 ^ i) % 2 = 1}
ByteVal(a) == CHOOSE n \in 0 .. 2 ^ ByteBits - 1 : OfNat(n) = a

(* The bytes of a word, the lowest first, and the word at the bytes of m   *)
(* behind the first n.                                                     *)
BytesOf(w) ==
  [k \in 1 .. WordLen |->
     {i \in 0 .. ByteBits - 1 : i + (k - 1) * ByteBits \in w}]
WordAt(m, n) ==
  {i \in 0 .. WordBits - 1 : i % ByteBits \in m[n + (i \div ByteBits) + 1]}

=============================================================================
