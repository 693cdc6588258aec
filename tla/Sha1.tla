-------------------------------- MODULE Sha1 --------------------------------
(***************************************************************************)
(* crypt/sha1.c: a buffer is hashed in one call, block by block from a     *)
(* buffer of one block, which the rest of the data and the padding share.  *)
(* The words of the message schedule overwrite each other in a ring of 16. *)
(***************************************************************************)
EXTENDS BitWords

CONSTANTS
  K,          (* K1 .. K4                                                  *)
  HInit       (* h0init .. h4init                                          *)

ASSUME Sha1Assumption == K \in [1 .. 4 -> Word] /\ HInit \in [1 .. 5 -> Word]

DataSize == 64              (* SHS_DATASIZE                                *)
LenBytes == 2 * WordLen

(* f1 .. f4, as they were optimized                                        *)
Mix(q, x, y, z) ==
  CASE q = 1 -> Xor(z, x \cap Xor(y, z))
    [] q = 3 -> (x \cap y) \cup (z \cap (x \cup y))
    [] OTHER -> Xor(Xor(x, y), z)

(* SHSTransform: the registers stay where they are, their roles go round.  *)
(* In round r the role a is played by the register of that number, b by    *)
(* the next, and so on.                                                    *)
Transform(digest, data) ==
  LET Reg(r, role) == ((role + 4 * r) % 5) + 1
      Round(st, k) ==
        LET r == k - 1
            i == r % 16
            new == IF r < 16 THEN st.w[i]
                   ELSE Rotl(1, Xor(Xor(st.w[i], st.w[(r - 14) % 16]),
                                    Xor(st.w[(r - 8) % 16], st.w[(r - 3) % 16])))
            x(role) == st.x[Reg(r, role)]
            q == (r \div 20) + 1
            sum == Plus(Plus(Rotl(5, x(0)), Mix(q, x(1), x(2), x(3))),
                        Plus(K[q], new))
        IN [st EXCEPT !.w[i] = new,
                      !.x[Reg(r, 4)] = Plus(@, sum),
                      !.x[Reg(r, 1)] = Rotl(30, @)]
      out == Iterate(Round, [w |-> data, x |-> digest], 80)
  IN [i \in 1 .. 5 |-> Plus(digest[i], out.x[i])]

(* The data buffer as words.                                               *)
Words(data) == [i \in 0 .. (DataSize \div WordLen) - 1 |-> WordAt(data, WordLen * i)]

(* longReverse of the first n bytes                                        *)
LongReverse(data, n) ==
  [k \in DOMAIN data |->
     IF k <= n THEN data[k + WordLen + 1 - 2 * (((k - 1) % WordLen) + 1)] ELSE data[k]]

(* memcpy of p into m behind its first n bytes                             *)
Put(m, n, p) ==
  [k \in DOMAIN m |-> IF k \in n + 1 .. n + Len(p) THEN p[k - n] ELSE m[k]]

Taken(ctx, block) ==
  [ctx EXCEPT !.data = LongReverse(block, DataSize),
              !.digest = Transform(@, Words(LongReverse(block, DataSize)))]

SHAInit == [digest |-> HInit, lo |-> 0, hi |-> 0, data |-> Zeros(DataSize)]

(* SHAUpdate of a fresh context, as sha1 calls it: the bits are counted in *)
(* two words, and the last bytes are left in the data buffer.              *)
SHAUpdate(ctx, m) ==
  LET bits == Len(m) * ByteBits
      whole == Len(m) \div DataSize
      counted == [ctx EXCEPT !.lo = bits % 2 ^ WordBits, !.hi = bits \div 2 ^ WordBits]
      Chunk(k) == SubSeq(m, (k - 1) * DataSize + 1, k * DataSize)
      done == Iterate(LAMBDA c, k : Taken(c, Chunk(k)), counted, whole)
  IN [done EXCEPT !.data = Put(@, 0, SubSeq(m, whole * DataSize + 1, Len(m)))]

(* Mutant: a block with just the room for the length is taken for full.    *)
MutPadded(ctx, count) ==
  LET marked == Put(ctx.data, count, <<{ByteBits - 1}>>)
      room == DataSize - 1 - count
  IN IF room <= LenBytes
     THEN [Taken(ctx, Put(marked, count + 1, Zeros(room)))
             EXCEPT !.data = Put(@, 0, Zeros(DataSize - LenBytes))]
     ELSE [ctx EXCEPT !.data = Put(marked, count + 1, Zeros(room - LenBytes))]

(* The first bit of the padding is set in the byte that is always free;    *)
(* without room for the length behind it there is one block more.          *)
Padded(ctx, count) ==
  LET marked == Put(ctx.data, count, <<{ByteBits - 1}>>)
      room == DataSize - 1 - count
  IN IF room < LenBytes
     THEN [Taken(ctx, Put(marked, count + 1, Zeros(room)))
             EXCEPT !.data = Put(@, 0, Zeros(DataSize - LenBytes))]
     ELSE [ctx EXCEPT !.data = Put(marked, count + 1, Zeros(room - LenBytes))]

(* SHAtoByte                                                               *)
DigestBytes(digest) ==
  Iterate(LAMBDA out, i : out \o Reverse(BytesOf(digest[i])), <<>>, 5)

(* SHAFinal                                                                *)
SHAFinal(ctx) ==
  LET padded == Padded(ctx, (ctx.lo \div ByteBits) % DataSize)
      block == Put(Put(padded.data, DataSize - LenBytes, BytesOf(OfNat(ctx.hi))),
                   DataSize - WordLen, BytesOf(OfNat(ctx.lo)))
      digest == Transform(padded.digest,
                          Words(LongReverse(block, DataSize - LenBytes)))
  IN DigestBytes(digest)

(* sha1                                                                    *)
Hash(m) == SHAFinal(SHAUpdate(SHAInit, m))

-----------------------------------------------------------------------------
(* SHA-1 as its standard has it: the message is padded to whole blocks     *)
(* with a bit, zeros and its length in bits from the highest byte on; a    *)
(* block is stretched to 80 words and mixed into five registers that are   *)
(* handed on from one to the next.                                         *)
Standard(m) ==
  LET zeros == (DataSize - 1 - LenBytes - Len(m)) % DataSize
      length == OfNat((Len(m) * ByteBits) \div 2 ^ WordBits)
      padded == m \o <<{ByteBits - 1}>> \o Zeros(zeros)
                  \o Reverse(BytesOf(length)) \o Reverse(BytesOf(OfNat(Len(m) * ByteBits)))
      Big(n) == WordAt(Reverse(SubSeq(padded, n + 1, n + WordLen)), 0)
      Schedule(n) ==
        Iterate(LAMBDA w, k : Append(w, Rotl(1, Xor(Xor(w[k + 13], w[k + 8]),
                                                    Xor(w[k + 2], w[k])))),
                [t \in 1 .. 16 |-> Big(n + WordLen * (t - 1))], 64)
      Function(t, b, c, d) ==
        CASE t <= 20 -> (b \cap c) \cup (d \ b)
          [] t \in 41 .. 60 -> (b \cap c) \cup (b \cap d) \cup (c \cap d)
          [] OTHER -> Xor(b, Xor(c, d))
      Block(h, k) ==
        LET w == Schedule((k - 1) * DataSize)
            Step(v, t) ==
              [v EXCEPT ![5] = v[4], ![4] = v[3], ![3] = Rotl(30, v[2]), ![2] = v[1],
                        ![1] = Plus(Plus(Rotl(5, @), Function(t, v[2], v[3], v[4])),
                                    Plus(Plus(v[5], w[t]), K[((t - 1) \div 20) + 1]))]
            v == Iterate(Step, h, 80)
        IN [i \in 1 .. 5 |-> Plus(h[i], v[i])]
  IN DigestBytes(Iterate(Block, HInit, Len(padded) \div DataSize))

=============================================================================
