------------------------------ MODULE Blowfish ------------------------------
(***************************************************************************)
(* crypt/blowfish/blowfish.c: sixteen rounds over a pair of words, forwards *)
(* and backwards, and the boxes made from the key by the rounds themselves. *)
(***************************************************************************)
EXTENDS BitWords

CONSTANTS
  Rounds,     (* N                                                         *)
  OrigP,      (* ORIG_P[0 .. N + 1]                                        *)
  OrigS       (* ORIG_S[0 .. 3][byte]                                      *)

Entries == 2 ^ ByteBits

ASSUME BlowfishAssumption ==
  /\ Rounds \in Nat /\ Rounds % 2 = 0
  /\ OrigP \in [0 .. Rounds + 1 -> Word]
  /\ OrigS \in [0 .. 3 -> [0 .. Entries - 1 -> Word]]

(* The k-th byte of x from the highest on selects from the k-th box.       *)
S(ctx, k, x) == ctx.S[k][ByteVal(BytesOf(x)[WordLen - k])]
F(ctx, x) == Plus(Xor(Plus(S(ctx, 0, x), S(ctx, 1, x)), S(ctx, 2, x)), S(ctx, 3, x))

(* One round, with the exchange of the halves at its end.                  *)
Crossed(ctx, l, r) == <<Xor(F(ctx, l), r), l>>
Round(ctx, x, i) == Crossed(ctx, Xor(x[1], ctx.P[i]), x[2])

(* The last exchange is undone, and the last two words of P come in.       *)
Final(y, p, q) == <<Xor(y[2], p), Xor(y[1], q)>>

Blowfish_Encrypt(ctx, x) ==
  Final(Iterate(LAMBDA z, k : Round(ctx, z, k - 1), x, Rounds),
        ctx.P[Rounds + 1], ctx.P[Rounds])

Blowfish_Decrypt(ctx, x) ==
  Final(Iterate(LAMBDA z, k : Round(ctx, z, Rounds + 2 - k), x, Rounds),
        ctx.P[0], ctx.P[1])

(* Blowfish_Init: P takes up the key, over and over; then P and all boxes  *)
(* are overwritten, two words at a time, with what enciphering the last    *)
(* two gives under what is there so far.                                   *)
Repeated(key, k) == key[(k % Len(key)) + 1]
KeyWord(key, i) ==
  {b \in 0 .. WordBits - 1 :
     b % ByteBits \in Repeated(key, WordLen * i + WordLen - 1 - (b \div ByteBits))}

Two(f, j, y) == [f EXCEPT ![j] = y[1], ![j + 1] = y[2]]

(* The boxes come behind P, one after the other.                           *)
Overwritten(ctx, n, y) ==
  IF n < Rounds + 2 THEN [ctx EXCEPT !.P = Two(@, n, y)]
  ELSE [ctx EXCEPT !.S[(n - Rounds - 2) \div Entries] =
                     Two(@, (n - Rounds - 2) % Entries, y)]

Filling(st, n, y) == [ctx |-> Overwritten(st.ctx, n, y), x |-> y]

Blowfish_Init(key) ==
  Iterate(LAMBDA st, k : Filling(st, 2 * (k - 1), Blowfish_Encrypt(st.ctx, st.x)),
          [ctx |-> [P |-> [i \in 0 .. Rounds + 1 |-> Xor(OrigP[i], KeyWord(key, i))],
                    S |-> OrigS],
           x |-> <<{}, {}>>],
          (Rounds \div 2) + 1 + 2 * Entries).ctx

=============================================================================
