-------------------------------- MODULE Dsa ---------------------------------
(***************************************************************************)
(* dsa_sign of crypt/private/dsa_sign.c and dsa_check of crypt/dsa_check.c *)
(* with what they call of crypt/bch.c: the inverse by a binary gcd,        *)
(* products by doubling, powers by squaring, each of which divides as      *)
(* module Division does.  A behaviour is what mkimg does, which signs a    *)
(* digest and checks its signature, or the loader, which checks one that   *)
(* it read.                                                                *)
(***************************************************************************)
EXTENDS Division, Sequences

CONSTANTS
  BitsPerDigit,   (* 8                                                     *)
  P, Q, G,        (* dsa_P, dsa_Q, dsa_G                                   *)
  Privs,          (* what dsa_priv may be                                  *)
  Digests,        (* what the hash may be                                  *)
  DigestLen,      (* its digits                                            *)
  RandMax,        (* what bch_random_gen asks for below the highest digit  *)
  Rs, Ss          (* what may be stored as a signature                     *)

(* Textbook arithmetic.                                                    *)
Power(b, n, m) ==
  LET f[k \in 0 .. n] == IF k = 0 THEN 1 % m ELSE (f[k - 1] * b) % m IN f[n]

(* dsa_pub                                                                 *)
PubOf(priv) == Power(G, priv, P)

(* bch_rev would drop the lowest digits of a key if they were zero.        *)
ASSUME DsaAssumption ==
  /\ BitsPerDigit \in Nat /\ Base = 2 ^ BitsPerDigit
  /\ {P, Q, G} \subseteq Nat /\ Q > 1 /\ Q % 2 = 1 /\ P > Q /\ G < P
  /\ Privs \subseteq 1 .. Q - 1
  /\ \A x \in {P, Q, G} \cup Privs \cup {PubOf(y) : y \in Privs} : x % Base # 0
  /\ Digests \subseteq Nat /\ Rs \subseteq Nat /\ Ss \subseteq Nat
  /\ DigestLen \in 1 .. Size
  /\ RandMax \in 1 .. Base - 1

(* What DSA asks of its keys, which "openssl dsaparam" makes (gendsa.sh):   *)
(* Q is prime, and a power of G depends on the exponent modulo Q alone.    *)
ASSUME DomainAssumption ==
  /\ \A d \in 2 .. Q - 1 : Q % d # 0
  /\ Power(G, Q, P) = 1

(* What ^ is for the powers of 2, as PowerAssumption says of Base's.       *)
MaxBits == (Size + 1) * BitsPerDigit

ASSUME TwoAssumption ==
  /\ 2 ^ 0 = 1 /\ 2 ^ 1 = 2
  /\ \A i, j \in 0 .. MaxBits :
       /\ 2 ^ i \in Nat \ {0}
       /\ i + j <= MaxBits => 2 ^ (i + j) = 2 ^ i * 2 ^ j

(* The numbers as they are stored.                                         *)
W == INSTANCE Words

DigestOf(x) == W!ValueOf(W!FromBa(x, DigestLen))

(* DSA_SIZE has room for products modulo P, with a digit to spare, and for *)
(* what the coefficients of an inverse may grow to, that of a k or an s.   *)
Fits(x) == Abs(x) < Half \div Base

ASSUME SizeAssumption ==
  /\ Fits(P * P)
  /\ \A x \in Ss \cup {Q} : Fits((x * Q) * Q + Q) /\ Fits((x * Q) * x + x)
  /\ \A x \in Rs : Fits(x)
  /\ \A x \in Digests : DigestOf(x) \in Nat /\ Fits(DigestOf(x) + Q)
  /\ \A x \in Privs : PubOf(x) \in 0 .. P - 1

VARIABLES
  phase,           (* "sign", "signed" when mkimg checks what it signed,   *)
                   (* "check" when the loader checks what it read          *)
  priv, pub, H,    (* the keys and the digest                              *)
  pc,
  gcd,             (* of bch_gcdex_bin: u, v, A, B, C, D                   *)
  reg,             (* r, s, of dsa_sign k and k_inv, and of dsa_check w,   *)
                   (* u1, u2, t0, t1, v                                    *)
  call,            (* the call under way                                   *)
  loop,            (* its variables: acc, the result so far; base, doubled *)
                   (* or squared each time; e, the other operand; bits,    *)
                   (* how many of e's are to come                          *)
  res

args == <<priv, pub, H>>
vars == <<div, slipped, phase, args, pc, gcd, reg, call, loop, res>>

Odd(x) == x % 2 = 1

(* bch_keep_sign_shift_right                                               *)
Halved(x) == x \div 2

(* bch_mul, bch_sqr and bch_bit_shl(x, 1)                                  *)
Product(a, b) == Wrap(a * b)
Squared(x) == Wrap(x * x)
Doubled(x) == Wrap(2 * x)

-----------------------------------------------------------------------------
(* Mutant: the digest is left out.                                         *)
MutSum == reg.s

(* bch_add(s,H)                                                            *)
Sum == Wrap(reg.s + H)

(* What dsa_sign and dsa_check do with the inverse, one call after the     *)
(* other: the product or power of base and exponent, or the base, modulo   *)
(* what, goes to to.                                                       *)
SignCalls ==
  << [op |-> "pow", base |-> G, e |-> reg.k, mod |-> P, to |-> "r"],
     [op |-> "mod", base |-> reg.r, e |-> 0, mod |-> Q, to |-> "r"],
     [op |-> "mul", base |-> priv, e |-> reg.r, mod |-> Q, to |-> "s"],
     [op |-> "mod", base |-> Sum, e |-> 0, mod |-> Q, to |-> "s"],
     [op |-> "mul", base |-> reg.s, e |-> reg.k_inv, mod |-> Q, to |-> "s"] >>

CheckCalls ==
  << [op |-> "mul", base |-> reg.w, e |-> H, mod |-> Q, to |-> "u1"],
     [op |-> "mul", base |-> reg.w, e |-> reg.r, mod |-> Q, to |-> "u2"],
     [op |-> "pow", base |-> G, e |-> reg.u1, mod |-> P, to |-> "t0"],
     [op |-> "pow", base |-> pub, e |-> reg.u2, mod |-> P, to |-> "t1"],
     [op |-> "mul", base |-> reg.t0, e |-> reg.t1, mod |-> P, to |-> "v"],
     [op |-> "mod", base |-> reg.v, e |-> 0, mod |-> Q, to |-> "v"] >>

Calls == IF phase = "sign" THEN SignCalls ELSE CheckCalls
Call == Calls[call]
IsMul == Call.op = "mul"

(* bch_gcdex_bin with x and y = Q begins.                                  *)
GcdOf(x) == [u |-> x, v |-> Q, A |-> 1, B |-> 0, C |-> 0, D |-> 1]

(* What is inverted.                                                       *)
X == IF phase = "sign" THEN reg.k ELSE reg.s

Init ==
  /\ priv \in Privs
  /\ pub = PubOf(priv)
  /\ H \in {DigestOf(x) : x \in Digests}
  /\ \E r \in Rs, s \in Ss :
       /\ reg = [x \in {"k", "k_inv", "r", "s", "w", "u1", "u2", "t0", "t1", "v"} |->
                  IF x = "r" THEN r ELSE IF x = "s" THEN s ELSE 0]
       /\ gcd = GcdOf(s)
       /\ \/ phase = "check" /\ pc = "gcd"
          \/ phase = "sign" /\ pc = "random" /\ r = 0 /\ s = 0
  /\ div = [of |-> 0, by |-> 1, m |-> 0, shifted |-> 1, left |-> 0]
  /\ slipped = FALSE
  /\ call = 1
  /\ loop = [acc |-> 0, base |-> 0, e |-> 0, bits |-> 0]
  /\ res = -1

-----------------------------------------------------------------------------
(* bch_random_gen with mkimg's custom_random, which gives 0 up to what it  *)
(* is asked for: the highest digit is below that of Q.                     *)
Nonces ==
  LET top == Base ^ Hexp(Q)
  IN {k \in 0 .. (Q \div top) * top - 1 :
        \A i \in 0 .. Hexp(Q) - 1 : (k \div Base ^ i) % Base <= RandMax}

Random ==
  /\ pc = "random"
  /\ \E k \in Nonces : reg' = [reg EXCEPT !.k = k] /\ gcd' = GcdOf(k)
  /\ pc' = "gcd"
  /\ UNCHANGED <<div, slipped, phase, args, call, loop, res>>

-----------------------------------------------------------------------------
(* bch_gcdex_bin.  Q is odd, so x and Q have no 2 in common.               *)

(* Mutant: the sum is halved, the difference is not made.                  *)
MutHalve(a, b) ==
  IF ~Odd(a) /\ ~Odd(b) THEN <<Halved(a), Halved(b)>>
                        ELSE <<Halved(a + Q), Halved(b)>>

Halve(a, b) ==
  IF ~Odd(a) /\ ~Odd(b) THEN <<Halved(a), Halved(b)>>
                        ELSE <<Halved(a + Q), Halved(b - X)>>

HalveU ==
  /\ pc = "gcd" /\ gcd.u # 0
  /\ ~Odd(gcd.u)
  /\ LET ab == Halve(gcd.A, gcd.B)
     IN gcd' = [gcd EXCEPT !.u = Halved(@), !.A = ab[1], !.B = ab[2]]
  /\ UNCHANGED <<div, slipped, phase, args, pc, reg, call, loop, res>>

HalveV ==
  /\ pc = "gcd" /\ gcd.u # 0
  /\ Odd(gcd.u) /\ ~Odd(gcd.v)
  /\ LET cd == Halve(gcd.C, gcd.D)
     IN gcd' = [gcd EXCEPT !.v = Halved(@), !.C = cd[1], !.D = cd[2]]
  /\ UNCHANGED <<div, slipped, phase, args, pc, reg, call, loop, res>>

(* Mutant: equal ones are not subtracted to zero.                          *)
MutTakesV == gcd.u > gcd.v

TakesV == Cmp(gcd.u, gcd.v) >= 0

Subtract ==
  /\ pc = "gcd" /\ Odd(gcd.u) /\ Odd(gcd.v)
  /\ gcd' = IF TakesV
            THEN [gcd EXCEPT !.u = @ - gcd.v, !.A = @ - gcd.C, !.B = @ - gcd.D]
            ELSE [gcd EXCEPT !.v = @ - gcd.u, !.C = @ - gcd.A, !.D = @ - gcd.B]
  /\ UNCHANGED <<div, slipped, phase, args, pc, reg, call, loop, res>>

(* bch_inverse_bin: the coefficient of x is the inverse.  It is meant to   *)
(* be made positive.                                                       *)
InverseOfX == IF gcd.C < 0 THEN gcd.C + Q ELSE gcd.C

(* Without an inverse dsa_sign tries another number, dsa_check fails.      *)
Inverted ==
  /\ pc = "gcd" /\ gcd.u = 0
  /\ IF gcd.v = 1
     THEN /\ pc' = "call"
          /\ reg' = [reg EXCEPT ![IF phase = "sign" THEN "k_inv" ELSE "w"] = InverseOfX]
     ELSE pc' = (IF phase = "sign" THEN "random" ELSE "done") /\ UNCHANGED reg
  /\ UNCHANGED <<div, slipped, phase, args, gcd, call, loop, res>>

-----------------------------------------------------------------------------
Bits(x) == (Hexp(x) + 1) * BitsPerDigit

(* bch_mulmod begins with the remainder of both operands; bch_powmod, of   *)
(* which the result begins with 1, does not.                               *)
Begin ==
  /\ pc = "call" /\ call <= Len(Calls)
  /\ CASE Call.op = "mul" ->
            /\ Divide(Call.e, Call.mod)
            /\ loop' = [acc |-> 0, base |-> Call.base, e |-> Call.e, bits |-> 0]
            /\ pc' = "operand"
       [] Call.op = "pow" ->
            /\ loop' = [acc |-> 1, base |-> Call.base, e |-> Call.e,
                        bits |-> Bits(Call.e)]
            /\ pc' = "bit"
            /\ UNCHANGED div
       [] Call.op = "mod" ->
            /\ Divide(Call.base, Call.mod)
            /\ loop' = [acc |-> 0, base |-> 0, e |-> 0, bits |-> 0]
            /\ pc' = "mod"
  /\ UNCHANGED <<slipped, phase, args, gcd, reg, call, res>>

OperandReduced ==
  /\ pc = "operand" /\ ~Dividing
  /\ loop' = [loop EXCEPT !.e = Result, !.bits = Bits(Result)]
  /\ Divide(loop.base, Call.mod)
  /\ pc' = "base"
  /\ UNCHANGED <<slipped, phase, args, gcd, reg, call, res>>

(* A bit that is set: acc + base or acc * base, then its remainder.        *)
Combined == IF IsMul THEN Wrap(loop.acc + loop.base)
                     ELSE Product(loop.acc, loop.base)

SetBit ==
  /\ pc = "bit" /\ loop.bits > 0 /\ Odd(loop.e)
  /\ Divide(Combined, Call.mod)
  /\ pc' = "acc"
  /\ UNCHANGED <<slipped, phase, args, gcd, reg, call, loop, res>>

(* Mutant: the power goes on with the base's double.                       *)
MutGrown == Doubled(loop.base)

(* The next bit's base: 2 * base or base * base, then its remainder.       *)
Grown == IF IsMul THEN Doubled(loop.base) ELSE Squared(loop.base)

Grow ==
  /\ Divide(Grown, Call.mod)
  /\ pc' = "base"

Accumulated ==
  /\ pc = "acc" /\ ~Dividing
  /\ loop' = [loop EXCEPT !.acc = Result, !.e = @ \div 2, !.bits = @ - 1]
  /\ Grow
  /\ UNCHANGED <<slipped, phase, args, gcd, reg, call, res>>

ClearBit ==
  /\ pc = "bit" /\ loop.bits > 0 /\ ~Odd(loop.e)
  /\ loop' = [loop EXCEPT !.e = @ \div 2, !.bits = @ - 1]
  /\ Grow
  /\ UNCHANGED <<slipped, phase, args, gcd, reg, call, res>>

BaseReduced ==
  /\ pc = "base" /\ ~Dividing
  /\ loop' = [loop EXCEPT !.base = Result]
  /\ pc' = "bit"
  /\ UNCHANGED <<div, slipped, phase, args, gcd, reg, call, res>>

Returns(x) ==
  /\ reg' = [reg EXCEPT ![Call.to] = x]
  /\ call' = call + 1
  /\ pc' = "call"
  /\ UNCHANGED <<div, slipped, phase, args, gcd, loop, res>>

Return == pc = "bit" /\ loop.bits = 0 /\ Returns(loop.acc)

(* bch_mod                                                                 *)
ModReturn == pc = "mod" /\ ~Dividing /\ Returns(Result)

(* process_buffer checks what dsa_sign returned.                           *)
Sign ==
  /\ pc = "call" /\ call > Len(Calls) /\ phase = "sign"
  /\ phase' = "signed"
  /\ gcd' = GcdOf(reg.s)
  /\ call' = 1
  /\ pc' = "gcd"
  /\ UNCHANGED <<div, slipped, args, reg, loop, res>>

Compare ==
  /\ pc = "call" /\ call > Len(Calls) /\ phase # "sign"
  /\ res' = Cmp(reg.r, reg.v)
  /\ pc' = "done"
  /\ UNCHANGED <<div, slipped, phase, args, gcd, reg, call, loop>>

DigitDone ==
  /\ Digit
  /\ UNCHANGED <<phase, args, pc, gcd, reg, call, loop, res>>

Next ==
  \/ Random
  \/ HalveU \/ HalveV \/ Subtract \/ Inverted
  \/ Begin \/ OperandReduced \/ SetBit \/ Accumulated \/ ClearBit \/ BaseReduced
  \/ Return \/ ModReturn \/ Sign \/ Compare
  \/ DigitDone

(* A single computation that nothing preempts, and rand() does not give    *)
(* zeros for ever.                                                         *)
Spec ==
  /\ Init /\ [][Next]_vars
  /\ WF_vars(Next) /\ SF_vars(Random /\ reg'.k # 0)

-----------------------------------------------------------------------------
(* The coefficients of the gcd keep what they are for, and what comes out  *)
(* is an inverse.  It need not be between 0 and Q: of 10,000 a hundred are *)
(* above, which does no harm, and one is below 0, which makes mulmod, that *)
(* drops the sign, go wrong.  That of 336 modulo 449 is.                   *)
InverseRight ==
  ~slipped =>
    /\ pc # "random" => /\ gcd.A * X + gcd.B * Q = gcd.u
                        /\ gcd.C * X + gcd.D * Q = gcd.v
    /\ pc = "call" /\ call = 1 =>
         LET inverse == IF phase = "sign" THEN reg.k_inv ELSE reg.w
         IN (inverse * X) % Q = 1

Valid ==
  \E w \in 0 .. Q - 1 :
    /\ (w * reg.s) % Q = 1
    /\ LET u1 == (H * w) % Q
           u2 == (reg.r * w) % Q
       IN ((Power(G, u1, P) * Power(pub, u2, P)) % P) % Q = reg.r

(* Nothing went wrong: no division slipped, no inverse is below 0.         *)
Sound == ~slipped /\ reg.k_inv >= 0 /\ reg.w >= 0

(* The check accepts exactly the signatures for which the formula of DSA   *)
(* holds, as long as nothing went wrong.                                   *)
Verdict == pc = "done" /\ Sound => (res = 0 <=> Valid)

(* What mkimg signs with the private key, with whatever number, passes the *)
(* check with the public key, so that an image is turned down only when    *)
(* its s is 0 (dsa_sign does not try again then) or something went wrong.  *)
SignedAccepted ==
  pc = "done" /\ phase = "signed" /\ Sound =>
    /\ {reg.r, reg.s} \subseteq 0 .. Q - 1
    /\ reg.s = 0 \/ res = 0

(* Every step that goes digit by digit, with carries from word to word,    *)
(* makes of the stored numbers what arithmetic makes of their values.      *)
St(x) == W!Stored(x)

WordsAgree ==
  CASE pc = "gcd" ->
         /\ W!Cmp(St(gcd.u), St(gcd.v)) = Cmp(gcd.u, gcd.v)
         /\ W!Sub(St(gcd.A), St(gcd.C)) = St(gcd.A - gcd.C)
         /\ W!BitShr(St(gcd.u)) = St(Halved(gcd.u))
         /\ W!KeepSignShiftRight(W!Sub(St(gcd.B), St(X))) = St(Halved(gcd.B - X))
    [] Dividing /\ Takes ->
         LET m == W!SubMulS(St(div.m), St(div.shifted), Estimate)
         IN St(Reduced) = IF W!IsNegative(m) THEN W!Add(m, St(div.shifted)) ELSE m
    [] Dividing /\ ~Takes ->
         /\ W!AbsOf(St(div.of)) = St(Abs(div.of))
         /\ W!ByteShr(St(div.shifted), 1) = St(ByteShr(div.shifted, 1))
    [] pc = "bit" /\ loop.bits > 0 ->
         LET b == St(loop.base)
         IN /\ St(Combined) = IF IsMul THEN W!Add(St(loop.acc), b)
                                       ELSE W!Mul(St(loop.acc), b)
            /\ St(Grown) = IF IsMul THEN W!BitShl(b) ELSE W!Sqr(b)
    [] OTHER -> TRUE

(* "G ^ u1 mod p", "pub ^ u2 mod p" (dsa_check.c:46, 49): a signature that *)
(* the formula accepts is accepted.                                        *)
SignatureAccepted == pc = "done" /\ Valid => res = 0

(* Every signature and every check comes to an end.                        *)
CheckEnds == <>(pc = "done")

=============================================================================
