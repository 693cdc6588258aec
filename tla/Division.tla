------------------------------ MODULE Division ------------------------------
(***************************************************************************)
(* The remainder of big numbers: bch_div_mod of crypt/bch.c without a      *)
(* quotient, as bch_mod calls it, with bch_div_mod_internal_smalln's loop  *)
(* over the digits.  Each quotient digit is estimated from the highest     *)
(* digits of what is left and of the divider, as in long division by hand, *)
(* and corrected once.                                                     *)
(*                                                                         *)
(* A number is an integer of Size digits in two's complement.  Who calls   *)
(* Divide goes on when div.left says that the loop is over.  (For numbers  *)
(* of more than 257 digits, which only follow a slip, bch_div_mod has a    *)
(* variant of the loop with the same estimate; it is not modelled.)        *)
(***************************************************************************)
EXTENDS Integers

CONSTANTS
  Base,      (* of the digits, which are bytes: 256                        *)
  Size       (* DSA_SIZE                                                   *)

ASSUME DivisionAssumption ==
  /\ Base \in Nat /\ Base > 1 /\ Base % 2 = 0
  /\ Size \in Nat \ {0} /\ Size % 4 = 0

(* What ^ is: the proofs know no more of it.                               *)
ASSUME PowerAssumption ==
  /\ Base ^ 0 = 1 /\ Base ^ 1 = Base
  /\ \A i, j \in 0 .. Size + 1 :
       /\ Base ^ i \in Nat \ {0}
       /\ i + j <= Size + 1 => Base ^ (i + j) = Base ^ i * Base ^ j

VARIABLES
  div,       (* of: what is divided, by: the divider, m: what is left of   *)
             (* the first, shifted: the second times a power of Base,      *)
             (* left: the digits to come                                   *)
  slipped    (* has an estimate of Base or more been taken for one with a  *)
             (* digit too many?  (Not in the code.)                        *)

Full == Base ^ Size
Half == Full \div 2
Number == 1 - Half .. Half - 1

(* What is stored of x.                                                    *)
Wrap(x) == ((x + Half) % Full) - Half

Abs(x) == IF x < 0 THEN -x ELSE x

(* bch_cmp, which takes the negative one of two for the greater;           *)
(* bch_byte_shl and bch_byte_shr                                           *)
Cmp(a, b) ==
  IF (a < 0) # (b < 0) THEN IF a < 0 THEN 1 ELSE -1
  ELSE IF a < b THEN -1 ELSE IF a > b THEN 1 ELSE 0
ByteShl(x, k) == Wrap(x * Base ^ k)
ByteShr(x, k) == x \div Base ^ k

-----------------------------------------------------------------------------
(* bch_hexp: the place of the highest digit that is not zero.              *)
Hexp(x) ==
  IF x = 0 THEN -1
  ELSE CHOOSE e \in 0 .. Size : Base ^ e <= x /\ x < Base ^ (e + 1)

(* The k highest digits, with zeros for those there are not.               *)
Highest(k, x) ==
  IF Hexp(x) >= k - 1 THEN x \div Base ^ (Hexp(x) - k + 1)
                      ELSE x * Base ^ (k - 1 - Hexp(x))

Quotient == Highest(4, div.m) \div Highest(3, div.by)

Overlong == Quotient >= Base

(* Mutant: the estimate is taken as it is.                                 *)
MutEstimate == Quotient

(* if (q & 0xFF00) q >>= 8                                                 *)
Estimate == IF Overlong THEN Quotient \div Base ELSE Quotient

-----------------------------------------------------------------------------
(* The digit is right, or one too high.                                    *)
Reduced ==
  LET m == div.m - Estimate * div.shifted
  IN IF m < 0 THEN m + div.shifted ELSE m

Divide(n, d) ==
  div' = LET more == Hexp(Abs(n)) - Hexp(d)
         IN IF Cmp(d, Abs(n)) > 0
            THEN [of |-> n, by |-> d, m |-> Abs(n), shifted |-> d, left |-> 0]
            ELSE [of |-> n, by |-> d, m |-> Abs(n),
                  shifted |-> ByteShl(d, more), left |-> more + 1]

Dividing == div.left > 0

(* A digit that is not 0.                                                  *)
Takes == Cmp(div.shifted, div.m) <= 0

(* A digit whose place the estimate mistakes: what is left has a digit     *)
(* more than the shifted divider, and still the estimate is taken for one  *)
(* of equally long numbers.                                                *)
Slips == Overlong /\ Hexp(div.m) > Hexp(div.shifted)

Digit ==
  /\ Dividing
  /\ div' = [div EXCEPT
       !.m = IF Takes THEN Reduced ELSE @,
       !.shifted = IF div.left > 1 THEN ByteShr(@, 1) ELSE @,
       !.left = @ - 1]
  /\ slipped' = (slipped \/ (Takes /\ Slips))

(* Nothing is left of the last division but its result.                    *)
Result == div.m

-----------------------------------------------------------------------------
DivTypeOK ==
  /\ div \in [of : Number, by : Nat \ {0}, m : 0 .. Half, shifted : Nat,
              left : 0 .. Size]
  /\ slipped \in BOOLEAN

(* At every digit, what is left is congruent to what was divided and below *)
(* the shifted divider's next multiple by Base, so that one digit more is  *)
(* enough; at the end it is the remainder, and the divider, which is the   *)
(* caller's and is shifted in place, is what it was: until an estimate     *)
(* slips, of whose remainder the next product may be too long to be stored.*)
Remainder ==
  ~slipped =>
    /\ DivTypeOK
    /\ (Abs(div.of) - div.m) % div.by = 0
    /\ ~Dividing => div.shifted = div.by
    /\ div.m < (IF Dividing THEN Base * div.shifted ELSE div.by)

=============================================================================
