-------------------------------- MODULE Cipher -------------------------------
(***************************************************************************)
(* What crypt/crypt.c, crypt/xor_algos.c and crypt/xor_scrambler.c make of *)
(* the first bytes of a buffer, in place: the xor scrambler there and      *)
(* back, and Blowfish in each of the modes crypt.c can be built with.  An  *)
(* unsigned long is a word, as in the loader and on a 32-bit host.         *)
(***************************************************************************)
EXTENDS Blowfish

CONSTANTS
  XorKey,         (* xor_key                                               *)
  BlowfishKey     (* blowfish_key                                          *)

ASSUME CipherAssumption ==
  /\ XorKey \in Seq(Byte) /\ XorKey # <<>>
  /\ BlowfishKey \in Seq(Byte) /\ BlowfishKey # <<>>

AllModes == {"ecb", "ctr_s", "ctr_d", "cbc", "cfb", "ofb"}
BlockLen == 2 * WordLen

-----------------------------------------------------------------------------
(* The xor scrambler keeps where it is in its key, and the byte it chains  *)
(* the next one with, from one call to the next.                           *)
Scrambler == [key : 0 .. Len(XorKey) - 1, b : Byte]

(* Mutant: the byte to chain with is not cleared.                          *)
MutReset(x) == [x EXCEPT !.key = 0]

(* xor_scrambler_reset                                                     *)
Reset(x) == [x EXCEPT !.key = 0, !.b = {}]

(* Gdir or Ginv over the first n bytes of m, and what is kept then: both   *)
(* chain with the scrambled bytes, c.                                      *)
KeyByte(x, k) == XorKey[((x.key + k - 1) % Len(XorKey)) + 1]
Before(x, c, k) == IF k = 1 THEN x.b ELSE c[k - 1]

Gdir(x, m, n) ==
  LET Chain(c, k) == Append(c, Xor(m[k], Xor(KeyByte(x, k), Before(x, c, k))))
  IN Iterate(Chain, <<>>, n) \o SubSeq(m, n + 1, Len(m))

Ginv(x, m, n) ==
  [k \in DOMAIN m |->
     IF k <= n THEN Xor(m[k], Xor(KeyByte(x, k), Before(x, m, k))) ELSE m[k]]

Behind(x, c, n) == [key |-> (x.key + n) % Len(XorKey), b |-> Before(x, c, n + 1)]

-----------------------------------------------------------------------------
(* The modes: from a pair of words, its number and what the one before it  *)
(* left, to the pair that replaces it and what it leaves.                  *)

(* blowfish_reset                                                          *)
Context == Blowfish_Init(BlowfishKey)

Encrypt(x) == Blowfish_Encrypt(Context, x)
Decrypt(y) == Blowfish_Decrypt(Context, y)
XorBoth(x, y) == <<Xor(x[1], y[1]), Xor(x[2], y[2])>>

(* In cfb and ofb what is enciphered is what the pair before left, and the *)
(* data are only masked with it; in the others the data themselves are,    *)
(* after they were masked.                                                 *)
Streams == {"cfb", "ofb"}

Mask(mode, k, before) ==
  CASE mode = "cbc" -> before
    [] mode = "ctr_s" -> <<OfNat(k), OfNat(k)>>
    [] mode = "ctr_d" -> <<OfNat(2 * k), OfNat(2 * k + 1)>>
    [] mode = "ecb" -> <<{}, {}>>

Enciphered(mode, x, k, before) ==
  IF mode \in Streams THEN before ELSE XorBoth(x, Mask(mode, k, before))

(* What a pair leaves for the next one: its cipher text c or, in ofb, the  *)
(* mask e.                                                                 *)
Left(mode, c, e, before) ==
  CASE mode \in {"cbc", "cfb"} -> c [] mode = "ofb" -> e [] OTHER -> before

(* Mutant: cbc goes on with the pair before it was enciphered.             *)
MutSealed(mode, x, e, before) ==
  [out |-> IF mode \in Streams THEN XorBoth(e, x) ELSE e,
   left |-> CASE mode \in Streams -> Left(mode, XorBoth(e, x), e, before)
              [] mode = "cbc" -> XorBoth(x, before)
              [] OTHER -> before]

Sealed(mode, x, e, before) ==
  [out |-> IF mode \in Streams THEN XorBoth(e, x) ELSE e,
   left |-> Left(mode, IF mode = "cfb" THEN XorBoth(e, x) ELSE e, e, before)]

Masked(mode, y, e, before) ==
  [out |-> XorBoth(e, y), left |-> Left(mode, y, e, before)]

EncryptBlock(mode, x, k, before) ==
  Sealed(mode, x, Encrypt(Enciphered(mode, x, k, before)), before)

DecryptBlock(mode, y, k, before) ==
  IF mode \in Streams
  THEN Masked(mode, y, Encrypt(before), before)
  ELSE [out |-> XorBoth(Decrypt(y), Mask(mode, k, before)),
        left |-> Left(mode, y, y, before)]

(* The loop goes on while array + 1 lies below buffer + size + size % 2.   *)
InLoop(k, size) == k * BlockLen + WordLen < size + (size % 2)
Blocks(size) ==
  CHOOSE n \in 0 .. size :
    ~InLoop(n, size) /\ \A k \in 0 .. n - 1 : InLoop(k, size)

Touched(size) == Blocks(size) * BlockLen

(* One pass over m, in place.                                              *)
Pair(m, n) == <<WordAt(m, n), WordAt(m, n + WordLen)>>

Block(way, mode, x, k, before) ==
  IF way = "encrypt" THEN EncryptBlock(mode, x, k, before)
                     ELSE DecryptBlock(mode, x, k, before)

Appended(done, r) ==
  [out |-> done.out \o BytesOf(r.out[1]) \o BytesOf(r.out[2]), left |-> r.left]

Pass(way, mode, m, size) ==
  Iterate(LAMBDA done, k :
            Appended(done, Block(way, mode, Pair(m, (k - 1) * BlockLen), k - 1, done.left)),
          [out |-> <<>>, left |-> <<{}, {}>>], Blocks(size)).out
    \o SubSeq(m, Touched(size) + 1, Len(m))

blowfish_encrypt_memory(mode, m, size) == Pass("encrypt", mode, m, size)
blowfish_decrypt_memory(mode, m, size) == Pass("decrypt", mode, m, size)

=============================================================================
