------------------------------- MODULE Words --------------------------------
(***************************************************************************)
(* The numbers of crypt/bch.c as they are stored, and its loops over them. *)
(* A number is a row of Size digits (bytes), the lowest first, negative    *)
(* ones in two's complement; addition and multiplication go over it in     *)
(* words of two digits and negation and shifts in longs of four, so that   *)
(* the carry of one must find its way into the next.  All numbers are of   *)
(* the same size, a multiple of four, as all of DSA's are.                 *)
(***************************************************************************)
EXTENDS Integers, SequencesExt

CONSTANTS
  Base,      (* of the digits: 2^8                                         *)
  Size       (* DSA_SIZE                                                   *)

Places == 0 .. Size - 1
WordBase == Base ^ 2
LongBase == Base ^ 4

(* uint16_data, uint32_data                                                *)
Word(d, i) == d[i] + Base * d[i + 1]
Long(d, i) == Word(d, i) + WordBase * Word(d, i + 2)

PutWord(d, i, w) ==
  [d EXCEPT ![i] = w % Base, ![i + 1] = (w \div Base) % Base]
PutLong(d, i, l) == PutWord(PutWord(d, i, l % WordBase), i + 2, l \div WordBase)

(* The places of the words, and of the longs, from the lowest.             *)
WordPlaces == [k \in 1 .. Size \div 2 |-> 2 * (k - 1)]
LongPlaces == [k \in 1 .. Size \div 4 |-> 4 * (k - 1)]

(* bch_is_negative                                                         *)
IsNegative(d) == d[Size - 1] >= Base \div 2

(* bch_zero, bch_hexp                                                      *)
Zero == [i \in Places |-> 0]
Hexp(d) ==
  IF d = Zero THEN -1
  ELSE CHOOSE e \in Places : d[e] # 0 /\ \A i \in Places : i > e => d[i] = 0

-----------------------------------------------------------------------------
(* The number that is stored, and how a number is stored.                  *)
ValueOf(d) ==
  LET v[k \in 0 .. Size] == IF k = 0 THEN 0 ELSE v[k - 1] + d[k - 1] * Base ^ (k - 1)
  IN IF IsNegative(d) THEN v[Size] - Base ^ Size ELSE v[Size]

Stored(x) == [i \in Places |-> ((x % Base ^ Size) \div Base ^ i) % Base]

-----------------------------------------------------------------------------
(* Mutant: the carry into the next word is lost.                           *)
MutAddArr(d, a, sub) ==
  LET Step(st, i) ==
        LET v == st.v + Word(st.d, i)
                 + (IF sub THEN WordBase - 1 - Word(a, i) ELSE Word(a, i))
        IN [d |-> PutWord(st.d, i, v % WordBase), v |-> IF sub THEN 1 ELSE 0]
  IN FoldLeft(Step, [d |-> d, v |-> IF sub THEN 1 ELSE 0], WordPlaces).d

(* bch_add_arr: to subtract is to add the complement and 1.                *)
AddArr(d, a, sub) ==
  LET Step(st, i) ==
        LET v == st.v + Word(st.d, i)
                 + (IF sub THEN WordBase - 1 - Word(a, i) ELSE Word(a, i))
        IN [d |-> PutWord(st.d, i, v % WordBase), v |-> v \div WordBase]
  IN FoldLeft(Step, [d |-> d, v |-> IF sub THEN 1 ELSE 0], WordPlaces).d

Add(d, a) == AddArr(d, a, FALSE)
Sub(d, a) == AddArr(d, a, TRUE)

(* bch_add_s: a digit, and where its carry goes.                           *)
AddS(d, s) ==
  LET Step(st, i) ==
        LET v == st.v + Word(st.d, i)
        IN [d |-> PutWord(st.d, i, v % WordBase), v |-> v \div WordBase]
  IN FoldLeft(Step, [d |-> d, v |-> s], WordPlaces).d

(* bch_negate, bch_abs                                                     *)
Negate(d) == AddS([i \in Places |-> Base - 1 - d[i]], 1)
AbsOf(d) == IF IsNegative(d) THEN Negate(d) ELSE d

(* bch_cmp: of unlike signs the negative one is taken for the greater.     *)
Cmp(l, r) ==
  LET a == AbsOf(l)
      b == AbsOf(r)
      top == CHOOSE e \in Places :
               a[e] # b[e] /\ \A i \in Places : i > e => a[i] = b[i]
  IN IF IsNegative(l) # IsNegative(r) THEN IF IsNegative(l) THEN 1 ELSE -1
     ELSE IF a = b THEN 0
     ELSE IF (a[top] > b[top]) # IsNegative(l) THEN 1 ELSE -1

(* bch_sub_mul_s: two carries at once, of the product and of the           *)
(* difference.  (The number subtracted is not negative.)                   *)
SubMulS(d, a, mul) ==
  LET Step(st, i) ==
        LET v == st.v + Word(a, i) * mul
            u == st.u + Word(st.d, i) + (WordBase - 1 - (v % WordBase))
        IN [d |-> PutWord(st.d, i, u % WordBase),
            u |-> u \div WordBase, v |-> v \div WordBase]
  IN FoldLeft(Step, [d |-> d, u |-> 1, v |-> 0], WordPlaces).d

(* bch_mul_arr_base: a row for each word of one operand, with the carries  *)
(* of its product and of its sum; what lies behind the size is dropped.    *)
MulArr(a, b) ==
  LET Row(d, i) ==
        LET Step(st, j) ==
              LET v == (st.v + st.u + Word(a, i) * Word(b, j)) % LongBase
                  u == Word(st.d, i + j) + (v % WordBase)
              IN IF i + j < Size
                 THEN [d |-> PutWord(st.d, i + j, u % WordBase),
                       u |-> u \div WordBase, v |-> v \div WordBase]
                 ELSE [st EXCEPT !.u = @ \div WordBase, !.v = v \div WordBase]
        IN FoldLeft(Step, [d |-> d, u |-> 0, v |-> 0], WordPlaces).d
  IN FoldLeft(Row, Zero, WordPlaces)

(* bch_mul                                                                 *)
Mul(a, b) ==
  LET p == MulArr(AbsOf(a), AbsOf(b))
  IN IF IsNegative(a) # IsNegative(b) THEN Negate(p) ELSE p

(* bch_sqr_arr_base: digit by digit, the products of two different digits  *)
(* once and doubled; t is the sum that was made last.  (The number is not  *)
(* negative.)                                                              *)
Sqr(a) ==
  LET n == Hexp(a) + 1
      Put(d, i, x) == IF i < Size THEN [d EXCEPT ![i] = x % Base] ELSE d
      Row(st, i) ==
        LET t0 == IF 2 * i < Size THEN st.d[2 * i] + a[i] * a[i] ELSE st.t
            Step(in, j) ==
              LET t == IF i + j < Size
                       THEN in.d[i + j] + 2 * a[i] * a[j] + (in.t \div Base) ELSE in.t
              IN [d |-> Put(in.d, i + j, t), t |-> t]
            out == FoldLeft(Step, [d |-> Put(st.d, 2 * i, t0), t |-> t0],
                            [k \in 1 .. n - i |-> i + k])
        IN [d |-> Put(out.d, i + n + 1, out.t \div Base), t |-> out.t]
  IN FoldLeft(Row, [d |-> Zero, t |-> 0], [k \in 1 .. n + 1 |-> k - 1]).d

-----------------------------------------------------------------------------
(* bch_byte_shl, bch_byte_shr                                              *)
ByteShl(d, k) == [i \in Places |-> IF i >= k THEN d[i - k] ELSE 0]
ByteShr(d, k) == [i \in Places |-> IF i + k < Size THEN d[i + k] ELSE 0]

(* bch_bit_shl by 1: the highest bit of each long goes to the next.        *)
BitShl(d) ==
  LET Step(st, i) ==
        LET l == Long(st.d, i)
        IN [d |-> PutLong(st.d, i, ((2 * l) % LongBase) + st.bit),
            bit |-> (2 * l) \div LongBase]
  IN FoldLeft(Step, [d |-> d, bit |-> 0], LongPlaces).d

(* bch_bit_shr by 1 and bch_keep_sign_shift_right, from the highest long   *)
(* to the lowest, what comes in at the top being 0 or the sign.            *)
ShiftRight(d, top) ==
  LET Step(st, i) ==
        LET l == Long(st.d, i)
        IN [d |-> PutLong(st.d, i, (l \div 2) + st.bit * (LongBase \div 2)),
            bit |-> l % 2]
  IN FoldLeft(Step, [d |-> d, bit |-> top], Reverse(LongPlaces)).d

BitShr(d) == ShiftRight(d, 0)
KeepSignShiftRight(d) == ShiftRight(d, IF IsNegative(d) THEN 1 ELSE 0)

(* bch_rev after bch_from_ba: a number whose n digits are given from the   *)
(* highest on is turned round and shifted down as far as its last digit    *)
(* that is not 0 tells.                                                    *)
FromBa(x, n) ==
  LET ba == [i \in Places |-> IF i < n THEN (x \div Base ^ (n - 1 - i)) % Base ELSE 0]
      turned == [i \in Places |-> ba[Size - 1 - i]]
  IN IF ba = Zero THEN ba ELSE ByteShr(turned, Size - Hexp(ba) - 1)

=============================================================================
