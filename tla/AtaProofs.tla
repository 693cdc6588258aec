------------------------------ MODULE AtaProofs ------------------------------
(***************************************************************************)
(* The block stream's safety, and that the driver implements it, for every *)
(* width of its counters, every disk and every drive that fails.           *)
(***************************************************************************)
EXTENDS Ata, TLAPS

Busy == pc \notin {"closed", "idle"}

(* What the command under way is asked for.                                *)
Portion == IF More THEN Full ELSE Finish

(* The sectors up to this one are dealt with: those of the commands that   *)
(* ended, and of the one under way those it got, or, when it is through or *)
(* has failed, all of its own.                                             *)
Reached ==
  CASE pc = "command" -> i
    [] pc = "sector" -> i + got
    [] OTHER -> i + want

(* ata_io is at the beginning of a command.                                *)
Position ==
  Busy => caddr = addr /\ \E m \in 0 .. Count : i = m * Full

CommandOK ==
  /\ pc \in {"sector", "flush", "end"} => want = Portion
  /\ pc = "sector" => got < want
  /\ pc = "flush" \/ (pc = "end" /\ ~failed) => got = want

Untouched ==
  Busy => \A k \in Index : k >= Reached => pair[k] = Old

Moved(n) == \A k \in Index : k < n => pair[k] = (addr + k) % Reach

Undisturbed == medium = "disk" /\ ~failed

Exchanged ==
  /\ Busy /\ Undisturbed => Moved(Reached)
  /\ Complete

(* The drive is where the command is.                                      *)
InStep ==
  /\ pc # "closed" => medium # "empty"
  /\ pc = "sector" =>
       \/ /\ medium = "disk"
          /\ drive.left = want - got
          /\ drive.at = (addr + i + got) % Reach
          /\ drive.at < Sectors
       \/ medium = "absent" /\ drive.left = 0

Emptied ==
  /\ pc \in {"idle", "end"} /\ (op = "write" \/ size % Full # 0) => drive.left = 0
  /\ op = "read" /\ Busy => cached = 0
  /\ pc \in {"command", "end"} /\ ~failed => cached = 0

IInv ==
  TypeOK /\ Position /\ CommandOK /\ Untouched /\ Exchanged /\ InStep /\ Emptied

-----------------------------------------------------------------------------
(* Arithmetic.                                                             *)

LEMMA DivMod ==
  ASSUME NEW p \in Nat, NEW a \in Nat \ {0}
  PROVE  /\ p \div a \in Nat
         /\ p % a \in 0 .. (a - 1)
         /\ p = (a * (p \div a)) + (p % a)
BY SMT

LEMMA Multiples ==
  ASSUME NEW m \in Nat, NEW n \in Nat, NEW f \in Nat \ {0}
  PROVE  /\ m * f \in Nat /\ n * f \in Nat
         /\ m <= n => m * f <= n * f
         /\ m * f < n * f => m < n
         /\ (m + 1) * f = m * f + f
<1>1. /\ m * f \in Nat /\ n * f \in Nat
      /\ (m + 1) * f = m * f + f
  BY SMT
<1>2. ASSUME m <= n PROVE m * f <= n * f
  <2> DEFINE d == n - m
  <2>1. d \in Nat /\ n = m + d
    BY <1>2
  <2>2. d * f \in Nat /\ (m + d) * f = m * f + d * f
    BY <2>1, SMT
  <2> QED
    BY <1>1, <2>1, <2>2
<1>3. ASSUME n <= m PROVE n * f <= m * f
  <2> DEFINE d == m - n
  <2>1. d \in Nat /\ m = n + d
    BY <1>3
  <2>2. d * f \in Nat /\ (n + d) * f = n * f + d * f
    BY <2>1, SMT
  <2> QED
    BY <1>1, <2>1, <2>2
<1> QED
  BY <1>1, <1>2, <1>3

LEMMA Remainder ==
  ASSUME NEW x \in Nat, NEW r \in Nat \ {0}
  PROVE  /\ x < r => x % r = x
         /\ (x % r) + 1 < r => (x + 1) % r = (x % r) + 1
<1>1. ASSUME NEW q \in Nat, NEW s \in Nat, s < r PROVE (r * q + s) % r = s
  BY <1>1, SMT
<1>2. /\ x % r \in Nat /\ x \div r \in Nat
      /\ x = r * (x \div r) + (x % r)
  BY DivMod
<1>3. ASSUME x < r PROVE x % r = x
  <2>1. r * 0 + x = x
    BY SMT
  <2> QED
    BY <1>1, <1>3, <2>1
<1>4. ASSUME (x % r) + 1 < r PROVE (x + 1) % r = (x % r) + 1
  <2> DEFINE q == x \div r
             s == (x % r) + 1
  <2>1. q \in Nat /\ s \in Nat /\ s < r
    BY <1>2, <1>4
  <2>2. r * q \in Nat
    BY <2>1, SMT
  <2>3. x + 1 = r * q + s
    BY <1>2, <2>2
  <2> HIDE DEF q, s
  <2>4. (r * q + s) % r = s
    BY <1>1, <2>1
  <2> QED
    BY <2>3, <2>4 DEF s
<1> QED
  BY <1>3, <1>4

(* The full commands and the last one make no more than the transfer, and  *)
(* all of it if their number fits its byte.                                *)
LEMMA Cut ==
  ASSUME size \in Nat
  PROVE  /\ Count \in 0 .. ByteMod - 1
         /\ Finish \in 0 .. Full - 1
         /\ Count * Full \in Nat
         /\ Count * Full <= (ByteMod - 1) * Full
         /\ Count * Full + Finish <= size
         /\ size < Full * ByteMod => Count * Full + Finish = size
<1> DEFINE q == size \div Full
<1>1. q \in Nat /\ Finish \in 0 .. Full - 1 /\ size = Full * q + Finish
  BY DivMod, AtaAssumption DEF Finish
<1>2. ByteMod \in Nat \ {0} /\ Full \in Nat \ {0}
  BY AtaAssumption
<1>3. q \div ByteMod \in Nat /\ Count \in 0 .. ByteMod - 1
      /\ q = ByteMod * (q \div ByteMod) + Count
  BY <1>1, <1>2, DivMod DEF Count
<1> HIDE DEF q
<1>4. Count <= q
  <2>1. ByteMod * (q \div ByteMod) \in Nat
    BY <1>2, <1>3, SMT
  <2> QED
    BY <1>1, <1>2, <1>3, <2>1
<1>5. Count * Full <= q * Full /\ Count * Full <= (ByteMod - 1) * Full
      /\ Count * Full \in Nat /\ q * Full \in Nat
  <2>1. Count \in Nat /\ Count <= ByteMod - 1 /\ ByteMod - 1 \in Nat
    BY <1>2, <1>3
  <2> QED
    BY <1>1, <1>2, <1>4, <2>1, Multiples
<1>6. q * Full = Full * q
  BY <1>1, <1>2, SMT
<1>7. ASSUME size < Full * ByteMod PROVE Count = q
  <2>1. q * Full < ByteMod * Full
    <3>1. Full * ByteMod = ByteMod * Full /\ ByteMod * Full \in Nat
      BY <1>2, SMT
    <3> QED
      BY <1>1, <1>5, <1>6, <1>7, <3>1
  <2>2. q < ByteMod
    BY <1>1, <1>2, <2>1, Multiples
  <2> QED
    BY <1>1, <1>2, <2>2 DEF Count, q
<1> QED
  BY <1>1, <1>3, <1>5, <1>6, <1>7

-----------------------------------------------------------------------------
(* What the invariant says of the command that is due or under way.        *)

LEMMA TypeFacts ==
  ASSUME TypeOK
  PROVE  /\ size \in Nat /\ size < WordMod /\ addr \in Nat /\ caddr \in Nat
         /\ i \in Nat /\ want \in Nat /\ got \in Nat
         /\ got <= want /\ want <= Full
         /\ Full \in Nat \ {0} /\ ByteMod = Full + 1 /\ ByteMod \in Nat
         /\ WordMod \in Nat /\ WordMod > 0 /\ Reach \in Nat \ {0}
         /\ Sectors \in Nat /\ Sectors <= Reach
         /\ Index \subseteq Nat
<1>1. /\ Full \in Nat \ {0} /\ ByteMod = Full + 1 /\ WordMod \in Nat
      /\ WordMod >= ByteMod /\ Reach \in Nat \ {0} /\ Sectors \in Nat
      /\ Sectors <= Reach
  BY AtaAssumption
<1>2. (ByteMod - 1) * Full \in Nat
  <2>1. ByteMod - 1 \in Nat
    BY <1>1
  <2> QED
    BY <1>1, <2>1, Multiples
<1> QED
  BY <1>1, <1>2 DEF TypeOK, Index

LEMMA Due ==
  ASSUME TypeOK, Busy, Position
  PROVE  /\ Portion \in 0 .. Full
         /\ i + Portion <= size
         /\ More => \E m \in 0 .. Count : i + Full = m * Full
         /\ ~More => i = Count * Full
         /\ Portion = 0 => ~More /\ size % Full = 0
<1>1. PICK m \in 0 .. Count : i = m * Full
  BY DEF Position
<1>2. /\ Count \in 0 .. ByteMod - 1 /\ Finish \in 0 .. Full - 1
      /\ Count * Full \in Nat /\ Count * Full + Finish <= size
  BY Cut, TypeFacts
<1>3. m \in Nat /\ Count \in Nat /\ Full \in Nat \ {0} /\ size \in Nat /\ m <= Count
      /\ ByteMod \in Nat
  BY <1>2, TypeFacts
<1>4. m * Full \in Nat /\ m * Full <= Count * Full /\ (m + 1) * Full = m * Full + Full
  BY <1>3, Multiples
<1>5. CASE More
  <2>1. m < Count
    BY <1>1, <1>3, <1>5, Multiples DEF More
  <2>2. m + 1 \in 0 .. Count /\ i + Full = (m + 1) * Full
    BY <1>1, <1>3, <1>4, <2>1
  <2>3. (m + 1) * Full <= Count * Full
    BY <1>3, <2>1, Multiples
  <2>4. i + Full <= size
    BY <1>1, <1>2, <1>3, <1>4, <2>2, <2>3
  <2>5. Portion = Full
    BY <1>5 DEF Portion
  <2>6. \E n \in 0 .. Count : i + Full = n * Full
    BY <2>2
  <2>7. Portion \in 0 .. Full /\ Portion # 0 /\ i + Portion <= size
    BY <1>3, <2>4, <2>5
  <2> QED
    BY <1>5, <2>6, <2>7
<1>6. CASE ~More
  <2>1. i = Count * Full
    BY <1>1, <1>2, <1>4, <1>6 DEF More
  <2> QED
    BY <1>2, <1>3, <1>6, <2>1 DEF Portion, Finish
<1> QED
  BY <1>5, <1>6

(* A closed stream has the invariant.                                      *)
THEOREM InitInvariant == Init => IInv
<1> SUFFICES ASSUME Init PROVE IInv
  OBVIOUS
<1>1. /\ Full \in Nat \ {0} /\ ByteMod = Full + 1 /\ WordMod \in Nat
      /\ WordMod >= ByteMod /\ Reach \in Nat
  BY AtaAssumption
<1>2. (ByteMod - 1) * Full \in Nat
  <2>1. ByteMod - 1 \in Nat
    BY <1>1
  <2> QED
    BY <1>1, <2>1, Multiples
<1>3. TypeOK
  <2>1. 0 \in Index /\ 0 \in 0 .. (ByteMod - 1) * Full /\ 0 \in 0 .. ByteMod
    BY <1>1, <1>2 DEF Index
  <2>2. pair \in [Index -> {Old, Junk} \cup 0 .. Reach - 1]
    BY DEF Init
  <2>3. drive \in [left : 0 .. ByteMod, at : Nat]
    BY <2>1 DEF Init, Idle
  <2>4. /\ pc = "closed" /\ medium = "empty" /\ op = "read" /\ caddr = 0
        /\ addr = 0 /\ size = 0 /\ ret = 0 /\ i = 0 /\ want = 0 /\ got = 0
        /\ cached = 0 /\ failed = FALSE
    BY DEF Init
  <2>5. 0 \in 0 .. Full /\ 0 \in 0 .. 0
    BY <1>1
  <2> QED
    BY <2>1, <2>2, <2>3, <2>4, <2>5 DEF TypeOK, Media
<1>4. ~Busy
  BY DEF Init, Busy
<1> QED
  BY <1>3, <1>4 DEF Init, IInv, Position, CommandOK, Untouched, Exchanged, Complete,
     InStep, Emptied, Idle, Busy

(* Between two transfers.                                                  *)
LEMMA OpenStep ==
  ASSUME IInv, NEW a \in Positions, Open(a)
  PROVE  IInv'
<1>1. a \in Nat /\ 0 \in Index /\ 0 \in 0 .. ByteMod
  BY AtaAssumption, TypeFacts DEF IInv, Index
<1>2. TypeOK'
  BY <1>1 DEF IInv, TypeOK, Open, Media, Idle
<1>3. ~Busy' /\ pc' = "idle"
  BY DEF Open, Busy
<1>4. size' = 0 /\ ret' = 0 /\ cached' = 0 /\ drive'.left = 0 /\ medium' # "empty"
  BY DEF Open, Idle
<1>5. Complete'
  BY <1>4 DEF Complete
<1> QED
  BY <1>2, <1>3, <1>4, <1>5 DEF IInv, Position, CommandOK, Untouched, Exchanged,
     InStep, Emptied, Busy

LEMMA CloseStep ==
  ASSUME IInv, Close
  PROVE  IInv'
<1>1. TypeOK'
  BY DEF IInv, TypeOK, Close, call
<1>2. pc' = "closed"
  BY DEF Close
<1> QED
  BY <1>1, <1>2 DEF IInv, Position, CommandOK, Untouched, Exchanged, Complete,
     InStep, Emptied, Busy

LEMMA SeekStep ==
  ASSUME IInv, NEW a \in Positions, Seek(a)
  PROVE  IInv'
<1>1. a \in Nat
  BY AtaAssumption
<1>2. TypeOK'
  BY <1>1 DEF IInv, TypeOK, Seek
<1>3. pc = "idle" /\ pc' = "idle"
  BY DEF Seek
<1>4. Complete'
  BY DEF IInv, Exchanged, Complete, Seek
<1> QED
  BY <1>2, <1>3, <1>4 DEF IInv, Position, CommandOK, Untouched, Exchanged,
     InStep, Emptied, Busy, Seek

LEMMA BeginStep ==
  ASSUME IInv, NEW n \in Counts, NEW o \in {"read", "write"}, Begin(n, o)
  PROVE  IInv'
<1>1. n \in Nat /\ WordMod \in Nat \ {0}
  BY AtaAssumption, TypeFacts DEF IInv
<1>2. n % WordMod \in Index
  BY <1>1, DivMod DEF Index
<1>3. 0 \in 0 .. (ByteMod - 1) * Full /\ 0 \in 0 .. Full /\ 0 \in 0 .. 0
  <2>1. ByteMod - 1 \in Nat /\ Full \in Nat \ {0}
    BY TypeFacts DEF IInv
  <2>2. (ByteMod - 1) * Full \in Nat
    BY <2>1, Multiples
  <2> QED
    BY <2>1, <2>2
<1>4. TypeOK'
  <2>1. pair' \in [Index -> {Old, Junk} \cup 0 .. Reach - 1]
    BY DEF Begin
  <2>2. /\ size' \in Index /\ addr' \in Nat /\ i' = 0 /\ want' = 0 /\ got' = 0
        /\ op' \in {"read", "write"} /\ failed' = FALSE /\ cached' = 0
        /\ pc' = "command"
    BY <1>2 DEF Begin, IInv, TypeOK
  <2>3. /\ medium' \in Media /\ caddr' \in Nat /\ ret' \in Index
        /\ drive' \in [left : 0 .. ByteMod, at : Nat]
    BY DEF Begin, IInv, TypeOK
  <2> QED
    BY <1>3, <2>1, <2>2, <2>3 DEF TypeOK
<1>5. pc' = "command" /\ Busy' /\ i' = 0 /\ caddr' = addr' /\ cached' = 0
  BY DEF Begin, Busy
<1>6. Position'
  <2>1. size' \in Nat
    BY <1>4 DEF TypeOK, Index
  <2>2. Count' \in Nat
    <3>1. Count' = (size' \div Full) % ByteMod
      BY DEF Count
    <3>2. size' \div Full \in Nat
      BY <2>1, TypeFacts, DivMod DEF IInv
    <3>3. ByteMod \in Nat \ {0}
      BY TypeFacts DEF IInv
    <3>4. (size' \div Full) % ByteMod \in 0 .. ByteMod - 1
      BY <3>2, <3>3, DivMod
    <3> QED
      BY <3>1, <3>3, <3>4
  <2>3. 0 \in 0 .. Count' /\ 0 = 0 * Full
    BY <2>2, TypeFacts DEF IInv
  <2> QED
    BY <1>5, <2>3 DEF Position
<1>7. Untouched' /\ Moved(Reached)'
  BY <1>5, <1>4, TypeFacts DEF IInv, Untouched, Moved, Reached, Begin
<1>8. InStep'
  BY <1>5 DEF IInv, InStep, Begin
<1> QED
  BY <1>4, <1>5, <1>6, <1>7, <1>8 DEF IInv, CommandOK, Exchanged, Complete, Emptied

-----------------------------------------------------------------------------
(* The steps of a transfer.                                                *)

LEMMA SameTransfer ==
  ASSUME UNCHANGED call, UNCHANGED i
  PROVE  /\ Count' = Count /\ Finish' = Finish /\ More' = More /\ Portion' = Portion
         /\ UNCHANGED <<medium, caddr, op, size, addr, ret>>
BY DEF call, Count, Finish, More, Portion

LEMMA CommandStep ==
  ASSUME IInv, Command
  PROVE  IInv'
<1>1. /\ Busy /\ pc = "command" /\ want' = Portion /\ got' = 0
      /\ UNCHANGED <<call, i, pair, cached>>
  BY DEF Command, Busy, Portion
<1>2. /\ Portion \in 0 .. Full /\ (Portion = 0 => size % Full = 0)
      /\ TypeOK /\ Position /\ Untouched /\ Exchanged /\ InStep /\ Emptied
  BY <1>1, Due DEF IInv
<1>3. /\ Count' = Count /\ Portion' = Portion
      /\ UNCHANGED <<medium, caddr, op, size, addr, ret>>
  BY <1>1, SameTransfer
<1>4. /\ i \in Nat /\ addr \in Nat /\ Full \in Nat \ {0} /\ Reach \in Nat \ {0}
      /\ ByteMod = Full + 1
  BY <1>2, TypeFacts
<1>5. addr + i \in Nat /\ (addr + i) % Reach \in Nat
  BY <1>4, DivMod
<1>6. /\ pc' \in {"sector", "flush", "end"}
      /\ \/ /\ medium # "packet" /\ failed' = failed
            /\ drive'.left = IF medium = "absent" THEN 0
                             ELSE IF want' = 0 THEN ByteMod ELSE want'
            /\ drive'.at = (addr + i) % Reach
            /\ medium = "disk" => drive'.at < Sectors
            /\ IF want' = 0 THEN pc' = Through ELSE pc' = "sector"
         \/ drive'.left = 0 /\ pc' = "end" /\ failed' = TRUE
  BY DEF Command, Error, Idle, Through
<1>7. TypeOK'
  <2>1. drive' \in [left : 0 .. ByteMod, at : Nat]
    BY <1>1, <1>2, <1>4, <1>5 DEF Command, Error, Idle
  <2>2. want' \in 0 .. Full /\ got' \in 0 .. want'
    BY <1>1, <1>2
  <2>3. failed' \in BOOLEAN
    BY <1>2, <1>6, Zenon DEF TypeOK
  <2> QED
    BY <1>1, <1>2, <1>3, <1>6, <2>1, <2>2, <2>3 DEF TypeOK, Index
<1>8. Position'
  BY <1>1, <1>2, <1>3 DEF Position, Busy
<1>9. CommandOK'
  BY <1>1, <1>2, <1>3, <1>6 DEF CommandOK, Through
<1>10. Reached = i /\ Reached' \in Nat /\ Reached' >= i
  BY <1>1, <1>2, <1>4, <1>6 DEF Reached, Through
<1>11. Untouched'
  BY <1>1, <1>2, <1>4, <1>10 DEF Untouched, Busy, Index, TypeOK
<1>12. Exchanged'
  <2>1. ASSUME Undisturbed' PROVE Reached' = i /\ Undisturbed
    BY <1>1, <1>3, <1>4, <1>6, <2>1 DEF Undisturbed, Reached, Through
  <2>2. Busy' /\ Undisturbed' => Moved(Reached)'
    BY <1>1, <1>2, <1>3, <1>10, <2>1 DEF Exchanged, Moved
  <2>3. Complete'
    BY <1>6 DEF Complete
  <2> QED
    BY <2>2, <2>3 DEF Exchanged
<1>13. InStep'
  <2>1. medium' # "empty"
    BY <1>1, <1>2, <1>3 DEF InStep
  <2>2. ASSUME pc' = "sector"
        PROVE  \/ /\ medium' = "disk" /\ drive'.left = want' - got'
                  /\ drive'.at = (addr' + i' + got') % Reach
                  /\ drive'.at < Sectors
               \/ medium' = "absent" /\ drive'.left = 0
    <3>1. /\ medium # "packet" /\ want' # 0
          /\ drive'.left = IF medium = "absent" THEN 0 ELSE want'
          /\ drive'.at = (addr + i) % Reach
          /\ medium = "disk" => drive'.at < Sectors
      BY <1>6, <2>2 DEF Through
    <3>2. medium \in {"disk", "absent"}
      BY <1>2, <1>3, <2>1, <3>1 DEF TypeOK, Media
    <3>3. addr' + i' + got' = addr + i /\ want' - got' = want'
      BY <1>1, <1>2, <1>3, <1>4
    <3> QED
      BY <1>3, <3>1, <3>2, <3>3
  <2> QED
    BY <2>1, <2>2 DEF InStep
<1>14. Emptied'
  <2>1. pc' = "end" /\ (op = "write" \/ size % Full # 0) => drive'.left = 0
    BY <1>1, <1>2, <1>6 DEF Through
  <2>2. failed' = FALSE => failed = FALSE
    BY <1>2, <1>6 DEF TypeOK
  <2>3. pc' \notin {"command", "idle"}
    BY <1>6
  <2> QED
    BY <1>1, <1>2, <1>3, <2>1, <2>2, <2>3 DEF Emptied, Busy, TypeOK
<1> QED
  BY <1>7, <1>8, <1>9, <1>11, <1>12, <1>13, <1>14 DEF IInv

LEMMA SectorStep ==
  ASSUME IInv, Sector
  PROVE  IInv'
<1>1. /\ Busy /\ pc = "sector" /\ want' = want
      /\ UNCHANGED <<call, i>>
  BY DEF Sector, Busy
<1>2. /\ Portion \in 0 .. Full /\ i + Portion <= size /\ want = Portion /\ got < want
      /\ TypeOK /\ Position /\ CommandOK /\ Untouched /\ Exchanged /\ InStep /\ Emptied
  BY <1>1, Due DEF IInv, CommandOK
<1>3. /\ Count' = Count /\ Portion' = Portion
      /\ UNCHANGED <<medium, caddr, op, size, addr, ret>>
  BY <1>1, SameTransfer
<1>4. /\ i \in Nat /\ addr \in Nat /\ Full \in Nat \ {0} /\ Reach \in Nat \ {0}
      /\ ByteMod = Full + 1 /\ want \in Nat /\ got \in Nat /\ want <= Full
      /\ size \in Nat /\ size < WordMod /\ WordMod \in Nat /\ Sectors \in Nat
      /\ Sectors <= Reach
  BY <1>2, TypeFacts
<1>5. i + got \in Index /\ Place = i + got /\ Reached = i + got
  BY <1>1, <1>2, <1>4 DEF Index, Place, Reached
<1>6. \/ /\ medium = "disk" /\ drive.left = want - got
         /\ drive.at = (addr + i + got) % Reach /\ drive.at < Sectors
      \/ medium = "absent" /\ drive.left = 0
  BY <1>1, <1>2 DEF InStep
<1>7. /\ drive \in [left : 0 .. ByteMod, at : Nat] /\ drive.at \in Nat
      /\ pair \in [Index -> {Old, Junk} \cup 0 .. Reach - 1] /\ cached \in Nat
      /\ failed \in BOOLEAN
  BY <1>2 DEF TypeOK
<1> DEFINE v == IF medium = "absent" THEN Junk ELSE drive.at
<1>8. pair' = [pair EXCEPT ![i + got] = v] /\ v \in {Old, Junk} \cup 0 .. Reach - 1
  <2>1. medium = "disk" => drive.at \in 0 .. Reach - 1
    BY <1>4, <1>6, <1>7
  <2> QED
    BY <1>5, <1>6, <2>1 DEF Sector
<1> HIDE DEF v
<1>9. \/ /\ got' = got + 1 /\ failed' = failed
         /\ pc' = IF got + 1 = want THEN Through ELSE "sector"
         /\ \/ /\ medium = "disk"
               /\ drive' = [left |-> drive.left - 1, at |-> drive.at + 1]
               /\ got + 1 # want => drive.at + 1 < Sectors
               /\ cached' = IF op = "write" THEN cached + 1 ELSE cached
            \/ medium = "absent" /\ drive' = drive /\ cached' = cached
      \/ /\ medium = "disk" /\ got' = got /\ cached' = cached
         /\ drive' = Idle /\ pc' = "end" /\ failed' = TRUE
  BY DEF Sector, All, Error
<1>10. pc' \in {"sector", "flush", "end"}
  BY <1>9 DEF Through
<1>11. TypeOK'
  <2>1. drive' \in [left : 0 .. ByteMod, at : Nat]
    <3>1. CASE drive' = [left |-> drive.left - 1, at |-> drive.at + 1] /\ medium = "disk"
      BY <1>2, <1>4, <1>6, <1>7, <3>1
    <3>2. CASE drive' = drive
      BY <1>7, <3>2
    <3>3. CASE drive' = Idle
      BY <1>4, <3>3 DEF Idle
    <3> QED
      BY <1>9, <3>1, <3>2, <3>3
  <2>2. got' \in 0 .. want /\ cached' \in Nat
    BY <1>2, <1>4, <1>7, <1>9
  <2>4. failed' \in BOOLEAN
    BY <1>7, <1>9, Zenon
  <2>3. pair' \in [Index -> {Old, Junk} \cup 0 .. Reach - 1]
    BY <1>5, <1>7, <1>8
  <2> QED
    BY <1>1, <1>2, <1>3, <1>10, <2>1, <2>2, <2>3, <2>4 DEF TypeOK, Index
<1>12. Position'
  BY <1>1, <1>2, <1>3 DEF Position, Busy
<1>13. CommandOK'
  BY <1>1, <1>2, <1>3, <1>4, <1>9 DEF CommandOK, Through
<1>14. Reached' \in Nat /\ Reached' > i + got
  BY <1>1, <1>2, <1>4, <1>9 DEF Reached, Through
<1>15. Untouched'
  <2>1. ASSUME NEW k \in Index, k >= Reached' PROVE pair'[k] = Old
    <3>1. k \in Nat /\ k > i + got
      BY <1>4, <1>14, <2>1 DEF Index
    <3>2. pair[k] = Old
      BY <1>1, <1>2, <1>4, <1>5, <3>1, <2>1 DEF Untouched
    <3> QED
      BY <1>4, <1>5, <1>7, <1>8, <2>1, <3>1, <3>2
  <2>2. Index' = Index
    BY DEF Index
  <2> QED
    BY <2>1, <2>2 DEF Untouched
<1>16. Exchanged'
  <2>1. ASSUME Undisturbed'
        PROVE  Reached' = i + got + 1 /\ Undisturbed /\ v = (addr + i + got) % Reach
    <3>1. medium = "disk" /\ failed' = FALSE
      BY <1>3, <2>1 DEF Undisturbed
    <3>2. /\ got' = got + 1 /\ failed' = failed
          /\ pc' = IF got + 1 = want THEN Through ELSE "sector"
      BY <1>9, <3>1
    <3>3. Reached' = i + got + 1
      BY <1>1, <1>4, <3>2 DEF Reached, Through
    <3> QED
      BY <1>6, <3>1, <3>2, <3>3 DEF Undisturbed, v
  <2>2. ASSUME Undisturbed', NEW k \in Index, k < Reached'
        PROVE  pair'[k] = (addr + k) % Reach
    <3>1. k \in Nat /\ k <= i + got
      BY <1>4, <2>1, <2>2 DEF Index
    <3>2. CASE k = i + got
      <4>1. addr + k = addr + i + got
        BY <1>4, <3>2
      <4> QED
        BY <1>7, <1>8, <2>1, <2>2, <3>2, <4>1
    <3>3. CASE k # i + got
      <4>1. k < Reached
        BY <1>4, <1>5, <3>1, <3>3
      <4>2. pair[k] = (addr + k) % Reach
        BY <1>1, <1>2, <2>1, <2>2, <4>1 DEF Exchanged, Moved
      <4> QED
        BY <1>5, <1>7, <1>8, <2>2, <3>3, <4>2
    <3> QED
      BY <3>2, <3>3
  <2>3. Index' = Index
    BY DEF Index
  <2>4. Complete'
    BY <1>10 DEF Complete
  <2> QED
    BY <1>3, <2>2, <2>3, <2>4 DEF Exchanged, Moved
<1>17. InStep'
  <2>1. medium' # "empty"
    BY <1>3, <1>6
  <2>2. ASSUME pc' = "sector", medium = "disk"
        PROVE  /\ drive'.left = want - got'
               /\ drive'.at = (addr + i + got') % Reach
               /\ drive'.at < Sectors
    <3>1. /\ got' = got + 1 /\ got + 1 # want /\ drive.at + 1 < Sectors
          /\ drive' = [left |-> drive.left - 1, at |-> drive.at + 1]
      BY <1>9, <2>2 DEF Through
    <3>2. drive.left = want - got /\ drive.at = (addr + i + got) % Reach
      BY <1>6, <2>2
    <3>3. drive.at + 1 < Reach
      BY <1>4, <1>7, <3>1
    <3>4. addr + i + got \in Nat /\ addr + i + got' = (addr + i + got) + 1
      BY <1>4, <3>1
    <3>5. ((addr + i + got) + 1) % Reach = drive.at + 1
      <4> DEFINE x == addr + i + got
      <4>1. x \in Nat /\ x % Reach = drive.at /\ Reach \in Nat \ {0}
        BY <1>4, <3>2, <3>4
      <4> HIDE DEF x
      <4>2. (x + 1) % Reach = drive.at + 1
        BY <3>3, <4>1, Remainder
      <4> QED
        BY <4>2 DEF x
    <3> QED
      BY <1>4, <3>1, <3>2, <3>4, <3>5
  <2>3. ASSUME pc' = "sector", medium = "absent" PROVE drive'.left = 0
    BY <1>6, <1>9, <2>3
  <2> QED
    BY <1>1, <1>3, <1>6, <2>1, <2>2, <2>3 DEF InStep
<1>18. Emptied'
  <2>1. pc' = "end" => drive'.left = 0
    <3> SUFFICES ASSUME pc' = "end" PROVE drive'.left = 0
      OBVIOUS
    <3>1. CASE medium = "disk" /\ failed' = TRUE /\ drive' = Idle
      BY <3>1 DEF Idle
    <3>2. CASE medium = "disk" /\ got + 1 = want
               /\ drive' = [left |-> drive.left - 1, at |-> drive.at + 1]
      BY <1>4, <1>6, <3>2
    <3>3. CASE medium = "absent" /\ drive' = drive
      BY <1>6, <3>3
    <3> QED
      BY <1>9, <3>1, <3>2, <3>3
  <2>2. op = "read" => cached' = 0
    BY <1>1, <1>2, <1>9 DEF Emptied
  <2>3. pc' = "end" /\ failed' = FALSE => op = "read"
    BY <1>2, <1>9 DEF Through, TypeOK
  <2>4. pc' \notin {"command", "idle"}
    BY <1>10
  <2> QED
    BY <1>3, <2>1, <2>2, <2>3, <2>4 DEF Emptied
<1> QED
  BY <1>11, <1>12, <1>13, <1>15, <1>16, <1>17, <1>18 DEF IInv

LEMMA FlushStep ==
  ASSUME IInv, Flush
  PROVE  IInv'
<1>1. /\ Busy /\ pc = "flush" /\ pc' = "end" /\ drive' = Idle /\ Busy'
      /\ UNCHANGED <<call, i, want, got, pair>>
      /\ \/ cached' = 0 /\ failed' = failed
         \/ cached' = cached /\ failed' = TRUE
  BY DEF Flush, Busy
<1>2. TypeOK /\ Position /\ CommandOK /\ Untouched /\ Exchanged /\ InStep /\ Emptied
  BY DEF IInv
<1>3. /\ Count' = Count /\ Portion' = Portion
      /\ UNCHANGED <<medium, caddr, op, size, addr, ret>>
  BY <1>1, SameTransfer
<1>4. TypeOK'
  <2>1. drive' \in [left : 0 .. ByteMod, at : Nat]
    BY <1>1, <1>2, TypeFacts DEF Idle
  <2>2. cached' \in Nat
    BY <1>1, <1>2 DEF TypeOK
  <2>3. failed' \in BOOLEAN
    BY <1>1, <1>2, Zenon DEF TypeOK
  <2> QED
    BY <1>1, <1>2, <1>3, <2>1, <2>2, <2>3 DEF TypeOK, Index
<1>5. Position' /\ CommandOK'
  BY <1>1, <1>2, <1>3 DEF Position, CommandOK
<1>6. Reached' = Reached
  BY <1>1 DEF Reached
<1>7. Untouched'
  BY <1>1, <1>2, <1>6 DEF Untouched, Index
<1>8. Exchanged'
  <2>1. Undisturbed' => Undisturbed
    BY <1>1, <1>3 DEF Undisturbed
  <2> QED
    BY <1>1, <1>2, <1>3, <1>6, <2>1 DEF Exchanged, Moved, Complete, Index
<1>9. InStep' /\ Emptied'
  BY <1>1, <1>2, <1>3 DEF InStep, Emptied, Idle
<1> QED
  BY <1>4, <1>5, <1>7, <1>8, <1>9 DEF IInv

LEMMA NextCommandStep ==
  ASSUME IInv, NextCommand
  PROVE  IInv'
<1>1. /\ Busy /\ pc = "end" /\ pc' = "command" /\ Busy' /\ More
      /\ i' = i + Full
      /\ UNCHANGED <<call, want, got, pair, drive, cached, failed>>
  BY DEF NextCommand, Busy
<1>2. TypeOK /\ Position /\ CommandOK /\ Untouched /\ Exchanged /\ InStep /\ Emptied
  BY DEF IInv
<1>3. /\ Count' = Count /\ UNCHANGED <<medium, caddr, op, size, addr, ret>>
  BY <1>1 DEF Count, call
<1>4. PICK m \in 0 .. Count : i + Full = m * Full
  BY <1>1, <1>2, Due
<1>5. want = Full
  BY <1>1, <1>2 DEF CommandOK, Portion
<1>6. i + Full \in 0 .. (ByteMod - 1) * Full
  <2>1. /\ Count \in 0 .. ByteMod - 1 /\ Count * Full <= (ByteMod - 1) * Full
        /\ Count * Full \in Nat
    BY <1>2, TypeFacts, Cut
  <2>2. Full \in Nat \ {0} /\ ByteMod \in Nat /\ ByteMod = Full + 1
    BY <1>2, TypeFacts
  <2>3. m \in Nat /\ Count \in Nat /\ m <= Count /\ ByteMod - 1 \in Nat
    BY <2>1, <2>2
  <2>4. m * Full \in Nat /\ m * Full <= Count * Full /\ (ByteMod - 1) * Full \in Nat
    BY <2>2, <2>3, Multiples
  <2> QED
    BY <1>4, <2>1, <2>4
<1>7. TypeOK'
  BY <1>1, <1>2, <1>3, <1>6 DEF TypeOK, Index
<1>8. Position'
  BY <1>1, <1>2, <1>3, <1>4 DEF Position
<1>9. Reached' = Reached
  BY <1>1, <1>5 DEF Reached
<1>10. Untouched'
  BY <1>1, <1>2, <1>9 DEF Untouched, Index
<1>11. Exchanged'
  BY <1>1, <1>2, <1>3, <1>9 DEF Exchanged, Undisturbed, Moved, Complete, Index
<1>12. CommandOK' /\ InStep' /\ Emptied'
  BY <1>1, <1>2, <1>3 DEF CommandOK, InStep, Emptied
<1> QED
  BY <1>7, <1>8, <1>10, <1>11, <1>12 DEF IInv

(* What is returned is what was asked for at most, and all of it if        *)
(* nothing went wrong.                                                     *)
LEMMA ReturnedFacts ==
  ASSUME IInv, Return
  PROVE  /\ Returned \in 0 .. size
         /\ ~failed /\ size < Full * ByteMod =>
              Returned = size /\ Reached = size
<1>1. /\ Busy /\ pc = "end" /\ (GaveUp \/ ~More)
  BY DEF Return, Busy
<1>2. /\ Portion \in 0 .. Full /\ i + Portion <= size /\ want = Portion
      /\ (~More => i = Count * Full) /\ (Portion = 0 => ~More)
      /\ (~failed => got = want)
      /\ TypeOK
  BY <1>1, Due DEF IInv, CommandOK
<1>3. i \in Nat /\ got \in Nat /\ want \in Nat /\ got <= want /\ size \in Nat
  BY <1>2, TypeFacts
<1>4. Returned \in 0 .. size
  BY <1>2, <1>3 DEF Returned
<1>5. ASSUME ~failed, size < Full * ByteMod
      PROVE  Returned = size /\ Reached = size
  <2>1. Count * Full + Finish = size /\ Count * Full \in Nat
    BY <1>3, <1>5, Cut
  <2>2. ~More
    BY <1>1, <1>2, <1>5 DEF GaveUp
  <2>3. Portion = Finish
    BY <2>2 DEF Portion
  <2> QED
    BY <1>1, <1>2, <1>3, <1>5, <2>1, <2>2, <2>3 DEF Returned, Reached
<1> QED
  BY <1>4, <1>5

LEMMA ReturnStep ==
  ASSUME IInv, Return
  PROVE  IInv'
<1>1. /\ Busy /\ pc = "end" /\ pc' = "idle" /\ ~Busy'
      /\ ret' = Returned /\ caddr' = caddr + ret'
      /\ UNCHANGED <<medium, op, size, addr, i, want, got, pair, drive, cached, failed>>
  BY DEF Return, Busy
<1>2. TypeOK /\ Position /\ CommandOK /\ Untouched /\ Exchanged /\ InStep /\ Emptied
  BY DEF IInv
<1>3. /\ Returned \in 0 .. size
      /\ ~failed /\ size < Full * ByteMod => Returned = size /\ Reached = size
  BY ReturnedFacts
<1>4. /\ size \in Nat /\ size < WordMod /\ WordMod \in Nat /\ caddr \in Nat
      /\ addr \in Nat /\ Reach \in Nat \ {0}
  BY <1>2, TypeFacts
<1>5. TypeOK'
  <2>1. ret' \in Index /\ caddr' \in Nat
    BY <1>1, <1>3, <1>4 DEF Index
  <2> QED
    BY <1>1, <1>2, <2>1 DEF TypeOK, Index
<1>6. Complete'
  <2> SUFFICES ASSUME medium = "disk", failed = FALSE,
                      size < Full * ByteMod, addr + size <= Reach
               PROVE  /\ ret' = size
                      /\ \A k \in 0 .. size - 1 : pair[k] = addr + k
                      /\ cached = 0
    BY <1>1, <1>2 DEF Complete, TypeOK
  <2>1. Returned = size /\ Reached = size
    BY <1>3
  <2>2. Moved(size)
    BY <1>1, <1>2, <2>1 DEF Exchanged, Undisturbed
  <2>3. ASSUME NEW k \in 0 .. size - 1 PROVE pair[k] = addr + k
    <3>1. k \in Index /\ k < size /\ addr + k \in Nat /\ addr + k < Reach
      BY <1>4 DEF Index
    <3> QED
      BY <1>4, <2>2, <3>1, Remainder DEF Moved
  <2>4. cached = 0
    BY <1>1, <1>2 DEF Emptied
  <2> QED
    BY <1>1, <2>1, <2>3, <2>4
<1>7. Position' /\ CommandOK' /\ Untouched'
  BY <1>1 DEF Position, CommandOK, Untouched
<1>8. Exchanged' /\ InStep' /\ Emptied'
  BY <1>1, <1>2, <1>6 DEF Exchanged, InStep, Emptied
<1> QED
  BY <1>5, <1>7, <1>8 DEF IInv

(* Whatever the caller, ata_io or the drive does next keeps it.            *)
THEOREM StepInvariant == IInv /\ [Next]_vars => IInv'
<1> SUFFICES ASSUME IInv, [Next]_vars PROVE IInv'
  OBVIOUS
<1>1. ASSUME NEW a \in Positions, Open(a) PROVE IInv'
  BY <1>1, OpenStep
<1>2. ASSUME NEW a \in Positions, Seek(a) PROVE IInv'
  BY <1>2, SeekStep
<1>3. ASSUME NEW n \in Counts, NEW o \in {"read", "write"}, Begin(n, o) PROVE IInv'
  BY <1>3, BeginStep
<1>4. CASE Command
  BY <1>4, CommandStep
<1>5. CASE Sector
  BY <1>5, SectorStep
<1>6. CASE Flush
  BY <1>6, FlushStep
<1>7. CASE NextCommand
  BY <1>7, NextCommandStep
<1>8. CASE Return
  BY <1>8, ReturnStep
<1>9. CASE Close
  BY <1>9, CloseStep
<1>10. CASE UNCHANGED vars
  BY <1>10 DEF IInv, TypeOK, Position, CommandOK, Untouched, Exchanged, Complete, InStep,
     Emptied, Busy, Undisturbed, Moved, Reached, Portion, More, Count, Finish, Index,
     vars, call
<1> QED
  BY <1>1, <1>2, <1>3, <1>4, <1>5, <1>6, <1>7, <1>8, <1>9, <1>10 DEF Next

(* So it always holds.                                                     *)
THEOREM Invariant == Spec => []IInv
BY InitInvariant, StepInvariant, PTL DEF Spec

(* A transfer in which nothing went wrong is complete: all sectors moved,  *)
(* each between its own places, all of it returned, and the cache flushed. *)
THEOREM CompleteAlways == Spec => []Complete
<1>1. IInv => Complete
  BY DEF IInv, Exchanged
<1> QED
  BY <1>1, Invariant, PTL

(* Between two transfers the drive holds nothing nobody asked for, but for *)
(* the sectors of a last command of none.                                  *)
THEOREM NoDataLeftAlways == Spec => []NoDataLeft
<1>1. IInv => NoDataLeft
  BY DEF IInv, Emptied, NoDataLeft
<1> QED
  BY <1>1, Invariant, PTL

-----------------------------------------------------------------------------
(* The driver is a block stream.                                           *)

LEMMA InitView == Init => StreamView!Init
<1> SUFFICES ASSUME Init PROVE StreamView!Init
  OBVIOUS
<1>1. /\ pc = "closed" /\ medium = "empty" /\ caddr = 0 /\ addr = 0 /\ size = 0
      /\ ret = 0 /\ pair = [k \in Index |-> Old]
  BY DEF Init
<1> QED
  BY <1>1 DEF StreamView!Init, StreamView!Untouched

LEMMA StepView ==
  ASSUME IInv, IInv', [Next]_vars
  PROVE  [StreamView!Next]_(StreamView!view)
<1>1. ASSUME NEW a \in Positions, Open(a) PROVE StreamView!Open
  <2>1. a \in Nat
    BY AtaAssumption
  <2> QED
    BY <1>1, <2>1 DEF Open, StreamView!Open, StreamView!Untouched
<1>2. ASSUME NEW a \in Positions, Seek(a) PROVE StreamView!Seek
  <2>1. a \in Nat
    BY AtaAssumption
  <2> QED
    BY <1>2, <2>1 DEF Seek, StreamView!Seek
<1>3. ASSUME NEW n \in Counts, NEW o \in {"read", "write"}, Begin(n, o)
      PROVE  StreamView!Begin
  <2>1. size' \in Index
    BY DEF IInv, TypeOK, Index
  <2> QED
    BY <1>3, <2>1 DEF Begin, StreamView!Begin, StreamView!Untouched
<1>4. CASE Command
  <2>1. pc' \notin {"closed", "idle"} /\ pc = "command"
    BY <1>4 DEF Command, Error, Through
  <2> QED
    BY <1>4, <2>1 DEF Command, call, StreamView!view
<1>5. CASE Sector
  <2>1. Busy /\ pc = "sector" /\ pc' \notin {"closed", "idle"}
    BY <1>5 DEF Sector, Busy, Error, Through
  <2>2. /\ i + Portion <= size /\ want = Portion /\ got < want /\ Portion \in 0 .. Full
        /\ TypeOK /\ Untouched /\ InStep
    BY <2>1, Due DEF IInv, CommandOK
  <2>3. /\ i \in Nat /\ got \in Nat /\ want \in Nat /\ size \in Nat /\ size < WordMod
        /\ WordMod \in Nat /\ addr \in Nat
    BY <2>2, TypeFacts
  <2>4. Place = i + got /\ Place \in Index /\ Place < size /\ Reached = Place
    BY <2>1, <2>2, <2>3 DEF Place, Index, Reached
  <2>5. pair[Place] = Old
    BY <2>1, <2>2, <2>3, <2>4 DEF Untouched, Index
  <2>6. pair' = [pair EXCEPT ![Place] =
                   IF medium # "absent" THEN (addr + Place) % Reach ELSE Junk]
    <3>1. medium # "absent" => drive.at = (addr + i + got) % Reach
      BY <2>1, <2>2 DEF InStep
    <3>2. addr + i + got = addr + Place
      BY <2>3, <2>4
    <3> QED
      BY <1>5, <3>1, <3>2 DEF Sector
  <2>7. StreamView!Move(Place)
    BY <1>5, <2>1, <2>4, <2>5, <2>6 DEF Sector, call, StreamView!Move
  <2> QED
    BY <2>4, <2>7 DEF StreamView!Next
<1>6. CASE Flush
  BY <1>6 DEF Flush, call, StreamView!view
<1>7. CASE NextCommand
  BY <1>7 DEF NextCommand, call, StreamView!view
<1>8. CASE Return
  <2>1. Returned \in 0 .. size
    BY <1>8, ReturnedFacts
  <2>2. caddr = addr
    BY <1>8 DEF IInv, Position, Busy, Return
  <2>3. StreamView!End
    BY <1>8, <2>1, <2>2 DEF Return, StreamView!End
  <2> QED
    BY <2>3 DEF StreamView!Next
<1>9. CASE Close
  BY <1>9 DEF Close, call, StreamView!view
<1>10. CASE UNCHANGED vars
  BY <1>10 DEF vars, call, StreamView!view
<1> QED
  BY <1>1, <1>2, <1>3, <1>4, <1>5, <1>6, <1>7, <1>8, <1>9, <1>10 DEF Next, StreamView!Next

(* However a transfer is cut into commands and wherever the drive fails,   *)
(* the driver does nothing that a block stream does not do.                *)
THEOREM Implements == Spec => Refinement
<1>1. Init => StreamView!Init
  BY InitView
<1>2. IInv /\ IInv' /\ [Next]_vars => [StreamView!Next]_(StreamView!view)
  BY StepView
<1> QED
  BY <1>1, <1>2, Invariant, PTL DEF Spec, Refinement, StreamView!Spec

=============================================================================
