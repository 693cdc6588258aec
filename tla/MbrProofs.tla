------------------------------ MODULE MbrProofs ------------------------------
(***************************************************************************)
(* What is booted is what was built, for every key, sector size, memory    *)
(* map, environment and loader.                                            *)
(***************************************************************************)
EXTENDS Mbr, TLAPS

(* The byte of the key that byte j of a file is scrambled with, and the    *)
(* byte on the disk that comes before it.                                  *)
KeyAt(j) == Key[((j - 1) % Len(Key)) + 1]
Before(f, j) == IF j = 1 THEN {} ELSE disk[f][j - 1]

(* The cipher's chain: what the descrambler undoes.                        *)
Chained(f) ==
  \A j \in 1 .. Len(disk[f]) :
    disk[f][j] = Xor(built[f][j], Xor(KeyAt(j), Before(f, j)))

(* The tool is in step with the chain, and writes one file after the other.*)
Progress ==
  /\ \A f \in Files :
       /\ Len(disk[f]) <= Len(built[f])
       /\ Chained(f)
       /\ Scrambling(f) => /\ kp = Len(disk[f]) % Len(Key)
                           /\ b = Before(f, Len(disk[f]) + 1)
  /\ pc = "scramble code" => disk["descriptor"] = <<>>
  /\ pc # "scramble code" => Len(disk["code"]) = Len(built["code"])
  /\ pc \notin {"scramble code", "scramble descriptor"} =>
       Len(disk["descriptor"]) = Len(built["descriptor"])

CodeSectors == SectorsOf(Len(built["code"])) + 1
DescriptorSectors == SectorsOf(EnvLen) + 1

(* The descriptor's header counts the sectors of both files.               *)
Layout ==
  /\ Len(built["descriptor"]) >= Sector
  /\ Num[built["descriptor"][2]] = CodeSectors
  /\ Num[built["descriptor"][3]] = DescriptorSectors

DescriptorIntact ==
  \A j \in 2 .. Len(built["descriptor"]) : mem[j - 1] = built["descriptor"][j]

(* What the master boot record knows at each of its steps.                 *)
Booting ==
  /\ pc \in {"scramble code", "scramble descriptor", "header"} =>
       mbrB = {} /\ count = 1
  /\ pc = "descriptor" /\ Fits => count = DescriptorSectors
  /\ pc = "code" /\ Fits => /\ count = CodeSectors
                            /\ Padded => mbrB = {}
  /\ pc \in {"code", "loader"} /\ Fits => DescriptorIntact

IInv == TypeOK /\ Progress /\ Layout /\ Booting /\ BootIntact

-----------------------------------------------------------------------------
(* Arithmetic.                                                             *)

LEMMA DivMod ==
  ASSUME NEW p \in Nat, NEW a \in Nat \ {0}
  PROVE  /\ p \div a \in Nat
         /\ p % a \in 0 .. (a - 1)
         /\ p = (a * (p \div a)) + (p % a)
BY SMT

(* What a number is modulo another one, from how it is made of it.         *)
LEMMA ModOf ==
  ASSUME NEW r \in Nat \ {0}, NEW q \in Nat, NEW s \in Nat, s < r
  PROVE  (r * q + s) % r = s
BY SMT

LEMMA ModAtMost ==
  ASSUME NEW x \in Nat, NEW r \in Nat \ {0}
  PROVE  /\ x % r \in Nat /\ x % r <= x
         /\ x < r => x % r = x
<1>1. ASSUME x < r PROVE x % r = x
  <2>1. (r * 0 + x) % r = x
    BY <1>1, ModOf
  <2>2. r * 0 + x = x
    BY SMT
  <2> QED
    BY <2>1, <2>2
<1>2. x % r \in 0 .. r - 1
  BY DivMod
<1> QED
  BY <1>1, <1>2

(* The key's index goes round with the bytes that were written.            *)
LEMMA ModNext ==
  ASSUME NEW x \in Nat, NEW r \in Nat \ {0}
  PROVE  (x + 1) % r = IF (x % r) + 1 > r - 1 THEN 0 ELSE (x % r) + 1
<1> DEFINE q == x \div r
           s == x % r
<1>1. q \in Nat /\ s \in 0 .. r - 1 /\ x = r * q + s
  BY DivMod
<1> HIDE DEF q, s
<1>2. r * q \in Nat /\ r * (q + 1) = r * q + r
  BY <1>1, SMT
<1>3. CASE s + 1 > r - 1
  <2>1. x + 1 = r * (q + 1) /\ q + 1 \in Nat
    BY <1>1, <1>2, <1>3
  <2>2. \A z \in Nat : z < r => (r * (q + 1) + z) % r = z
    BY <2>1, ModOf
  <2>3. (r * (q + 1) + 0) % r = 0
    BY <2>2
  <2>4. r * (q + 1) + 0 = r * (q + 1)
    BY <1>1, <1>2
  <2> QED
    BY <1>3, <2>1, <2>3, <2>4 DEF s
<1>4. CASE ~(s + 1 > r - 1)
  <2>1. x + 1 = r * q + (s + 1) /\ s + 1 \in Nat /\ s + 1 < r
    BY <1>1, <1>2, <1>4
  <2>2. (r * q + (s + 1)) % r = s + 1
    BY <1>1, <2>1, ModOf
  <2> QED
    BY <1>4, <2>1, <2>2 DEF s
<1> QED
  BY <1>3, <1>4

LEMMA Product ==
  ASSUME NEW m \in Nat, NEW n \in Nat, NEW f \in Nat
  PROVE  /\ m * f \in Nat /\ (m + 1) * f = m * f + f
         /\ m <= n => m * f <= n * f
         /\ n > 0 => f <= n * f
<1>1. /\ m * f \in Nat /\ (m + 1) * f = m * f + f
      /\ n * f \in Nat
  BY SMT
<1>2. ASSUME m <= n PROVE m * f <= n * f
  <2> DEFINE d == n - m
  <2>1. d \in Nat /\ n = m + d
    BY <1>2
  <2> HIDE DEF d
  <2>2. d * f \in Nat /\ (m + d) * f = m * f + d * f
    BY <2>1, SMT
  <2> QED
    BY <1>1, <2>1, <2>2
<1>3. ASSUME n > 0 PROVE f <= n * f
  <2>1. n - 1 \in Nat /\ (n - 1) * f \in Nat /\ n * f = (n - 1) * f + f
    BY <1>3, SMT
  <2> QED
    BY <2>1
<1> QED
  BY <1>1, <1>2, <1>3

(* The sectors of a file hold it, and what its last one does not need is   *)
(* left.                                                                   *)
LEMMA Sectors ==
  ASSUME NEW n \in Nat
  PROVE  /\ SectorsOf(n) \in Nat
         /\ n <= SectorsOf(n) * Sector
         /\ n % Sector # 0 => n < SectorsOf(n) * Sector
<1> DEFINE q == n \div Sector
           s == n % Sector
<1>0. Sector \in Nat \ {0}
  BY MbrAssumption
<1>1. q \in Nat /\ s \in 0 .. Sector - 1 /\ n = Sector * q + s
  BY <1>0, DivMod
<1>2. SectorsOf(n) = q + (IF s = 0 THEN 0 ELSE 1)
  BY DEF SectorsOf
<1> HIDE DEF q, s
<1>3. Sector * q \in Nat /\ q * Sector = Sector * q
  BY <1>0, <1>1, SMT
<1>4. (q + 1) * Sector = q * Sector + Sector
  BY <1>0, <1>1, Product
<1>5. CASE s = 0
  BY <1>0, <1>1, <1>2, <1>3, <1>5 DEF s
<1>6. CASE s # 0
  BY <1>0, <1>1, <1>2, <1>3, <1>4, <1>6
<1> QED
  BY <1>5, <1>6

-----------------------------------------------------------------------------
(* The cipher.                                                             *)

LEMMA XorByte ==
  ASSUME NEW x \in Byte, NEW y \in Byte
  PROVE  /\ Xor(x, y) \in Byte
         /\ Xor(Xor(x, y), y) = x
         /\ Xor(x, {}) = x
BY DEF Xor, Byte

LEMMA KeyLen == Len(Key) \in Nat \ {0} /\ 0 % Len(Key) = 0
<1>1. Len(Key) \in Nat \ {0}
  BY MbrAssumption
<1> QED
  BY <1>1, ModAtMost

LEMMA KeyByte ==
  ASSUME NEW k \in Nat
  PROVE  Key[(k % Len(Key)) + 1] \in Byte
<1>1. Len(Key) \in Nat \ {0} /\ Key \in Seq(Byte)
  BY MbrAssumption
<1>2. k % Len(Key) \in 0 .. Len(Key) - 1
  BY <1>1, DivMod
<1>3. (k % Len(Key)) + 1 \in 1 .. Len(Key)
  BY <1>1, <1>2
<1> QED
  BY <1>1, <1>3

LEMMA NoBits == {} \in Byte
BY DEF Byte

LEMMA OnDiskType ==
  ASSUME TypeOK, NEW f \in Files, NEW j \in Nat
  PROVE  OnDisk(f, j) \in Byte
<1>1. disk[f] \in Seq(Byte)
  BY DEF TypeOK
<1>2. CASE j < Len(disk[f])
  <2>1. j + 1 \in 1 .. Len(disk[f])
    BY <1>1, <1>2
  <2> QED
    BY <1>1, <1>2, <2>1 DEF OnDisk
<1>3. CASE ~(j < Len(disk[f]))
  BY <1>3, NoBits DEF OnDisk
<1> QED
  BY <1>2, <1>3

(* Reading and descrambling n sectors leaves bytes in memory.              *)
LEMMA FetchTypes ==
  ASSUME TypeOK, NEW f \in Files, NEW at \in Nat, NEW n \in Nat,
         at + n * Sector <= MemSize, Fetch(f, at, n)
  PROVE  mem' \in [Address -> Byte] /\ mbrB' \in Byte
<1> DEFINE m == Put(f, at, n)
           len == Length(n)
<1>0. n * Sector \in Nat /\ WordMod \in Nat \ {0} /\ MemSize \in Nat
  BY MbrAssumption, Product
<1>1. len \in Nat /\ len <= n * Sector
  BY <1>0, ModAtMost DEF Length
<1>2. m \in [Address -> Byte]
  <2> SUFFICES ASSUME NEW a \in Address
               PROVE  (IF at <= a /\ a < at + n * Sector
                       THEN OnDisk(f, a - at) ELSE mem[a]) \in Byte
    BY DEF Put
  <2>1. a \in Nat
    BY <1>0 DEF Address
  <2>2. at <= a => a - at \in Nat
    BY <2>1
  <2>3. mem[a] \in Byte
    BY DEF TypeOK
  <2> QED
    BY <2>2, <2>3, OnDiskType
<1>3. Descrambled(m, at, len) \in [Address -> Byte]
  <2> SUFFICES ASSUME NEW a \in Address
               PROVE  (IF at <= a /\ a < at + len
                       THEN Xor(m[a], Xor(Key[((a - at) % Len(Key)) + 1],
                                          IF a = at THEN mbrB ELSE m[a - 1]))
                       ELSE m[a]) \in Byte
    BY DEF Descrambled
  <2>1. a \in Nat /\ m[a] \in Byte
    BY <1>0, <1>2 DEF Address
  <2>2. CASE at <= a
    <3> DEFINE w == IF a = at THEN mbrB ELSE m[a - 1]
    <3>1. a # at => a - 1 \in Address
      BY <1>0, <2>1, <2>2 DEF Address
    <3>2. w \in Byte
      BY <1>2, <3>1 DEF TypeOK
    <3> HIDE DEF w, m
    <3>3. a - at \in Nat
      BY <2>1, <2>2
    <3>4. Xor(m[a], Xor(Key[((a - at) % Len(Key)) + 1], w)) \in Byte
      BY <2>1, <3>2, <3>3, KeyByte, XorByte
    <3> QED
      BY <2>1, <3>4 DEF w
  <2>3. CASE ~(at <= a)
    BY <2>1, <2>3
  <2> QED
    BY <2>2, <2>3
<1>4. LastByte(m, at, len) \in Byte
  <2>1. len # 0 => at + len - 1 \in Address
    BY <1>0, <1>1 DEF Address
  <2> QED
    BY <1>2, <2>1 DEF LastByte, TypeOK
<1> QED
  BY <1>3, <1>4 DEF Fetch

(* What is read of a file that is all on the disk is the file again, but   *)
(* for its first byte if mbr_xor_b is not zero; the memory below stays; and*)
(* mbr_xor_b is what the last byte read was on the disk.                   *)
LEMMA Fetched ==
  ASSUME TypeOK, NEW f \in Files, NEW at \in Nat, NEW n \in Nat,
         Len(disk[f]) = Len(built[f]), Chained(f),
         n * Sector < WordMod, at + n * Sector <= MemSize,
         Fetch(f, at, n)
  PROVE  /\ \A j \in 1 .. Len(built[f]) :
              j <= n * Sector /\ (j > 1 \/ mbrB = {}) =>
                mem'[at + j - 1] = built[f][j]
         /\ \A a \in Address : a < at => mem'[a] = mem[a]
         /\ n > 0 => mbrB' = OnDisk(f, n * Sector - 1)
<1> DEFINE m == Put(f, at, n)
           len == n * Sector
<1>0. /\ len \in Nat /\ Sector \in Nat \ {0} /\ MemSize \in Nat
      /\ n > 0 => len > 0
  BY MbrAssumption, Product
<1>1. /\ disk[f] \in Seq(Byte) /\ built[f] \in Seq(Byte)
      /\ Len(disk[f]) \in Nat
  <2>1. disk[f] \in Seq(Byte) /\ built[f] \in Seq(Byte)
    BY DEF TypeOK
  <2> QED
    BY <2>1
<1>2. Length(n) = len
  BY <1>0, MbrAssumption, ModAtMost DEF Length
<1>3. mem' = Descrambled(m, at, len) /\ mbrB' = LastByte(m, at, len)
  BY <1>2 DEF Fetch
<1>4. ASSUME NEW k \in 0 .. len - 1
      PROVE  at + k \in Address /\ m[at + k] = OnDisk(f, k)
  <2>1. at + k \in Address /\ at <= at + k /\ at + k < at + n * Sector
        /\ (at + k) - at = k
    BY <1>0 DEF Address
  <2> QED
    BY <2>1 DEF Put
<1>5. ASSUME NEW j \in 1 .. Len(built[f]), j <= len, j > 1 \/ mbrB = {}
      PROVE  mem'[at + j - 1] = built[f][j]
  <2> DEFINE key == KeyAt(j)
             w == Before(f, j)
  <2>0. /\ disk[f] \in Seq(Byte) /\ built[f] \in Seq(Byte)
        /\ Len(disk[f]) \in Nat
    BY <1>1
  <2>1. /\ j \in Nat /\ j - 1 \in 0 .. len - 1 /\ j - 1 \in Nat
        /\ j \in 1 .. Len(disk[f])
        /\ at + (j - 1) = at + j - 1
        /\ at + j - 1 \in Address /\ at <= at + j - 1 /\ at + j - 1 < at + len
        /\ (at + j - 1) - at = j - 1
    <3>1. at + len <= MemSize /\ at \in Nat /\ len \in Nat /\ MemSize \in Nat
      BY <1>0
    <3> HIDE DEF len
    <3>2. /\ j \in Nat /\ j >= 1 /\ j <= len
          /\ j \in 1 .. Len(disk[f])
      BY <1>5, <2>0
    <3>3. j - 1 \in 0 .. len - 1 /\ j - 1 \in Nat
      BY <3>1, <3>2
    <3>4. /\ at + (j - 1) = at + j - 1
          /\ at + j - 1 \in Nat
          /\ at <= at + j - 1 /\ at + j - 1 < at + len
          /\ (at + j - 1) - at = j - 1
      BY <3>1, <3>2
    <3>5. at + j - 1 \in Address
      BY <3>1, <3>4 DEF Address
    <3> QED
      BY <3>2, <3>3, <3>4, <3>5
  <2>2. m[at + j - 1] = disk[f][j]
    <3>1. m[at + (j - 1)] = OnDisk(f, j - 1)
      BY <1>4, <2>1
    <3>2. j - 1 < Len(disk[f]) /\ (j - 1) + 1 = j
      BY <2>0, <2>1
    <3> QED
      BY <2>1, <3>1, <3>2 DEF OnDisk
  <2>3. (IF at + j - 1 = at THEN mbrB ELSE m[(at + j - 1) - 1]) = w
    <3>1. CASE j = 1
      BY <1>5, <3>1 DEF Before
    <3>2. CASE j # 1
      <4>0. j \in 2 .. Len(disk[f]) /\ j <= len
        BY <1>5, <2>0, <2>1, <3>2
      <4>1. /\ j - 2 \in 0 .. len - 1 /\ at + (j - 2) = (at + j - 1) - 1
            /\ j - 2 < Len(disk[f]) /\ (j - 2) + 1 = j - 1
            /\ at + j - 1 # at
        <5> HIDE DEF len
        <5> QED
          BY <1>0, <2>0, <4>0
      <4>2. m[at + (j - 2)] = OnDisk(f, j - 2)
        BY <1>4, <4>1
      <4> QED
        BY <3>2, <4>1, <4>2 DEF OnDisk, Before
    <3> QED
      BY <3>1, <3>2
  <2>4. mem'[at + j - 1] = Xor(disk[f][j], Xor(key, w))
    <3> HIDE DEF m, w, len
    <3>1. mem'[at + j - 1] =
            Xor(m[at + j - 1],
                Xor(Key[((at + j - 1 - at) % Len(Key)) + 1],
                    IF at + j - 1 = at THEN mbrB ELSE m[(at + j - 1) - 1]))
      BY <1>3, <2>1 DEF Descrambled
    <3> QED
      BY <2>1, <2>2, <2>3, <3>1 DEF KeyAt
  <2>5. disk[f][j] = Xor(built[f][j], Xor(key, w))
    BY <2>1 DEF Chained
  <2>6. built[f][j] \in Byte /\ key \in Byte /\ w \in Byte
    <3>1. built[f][j] \in Byte
      BY <2>0
    <3>2. key \in Byte
      BY <2>1, KeyByte DEF KeyAt
    <3>3. j # 1 => j - 1 \in 1 .. Len(disk[f])
      BY <2>0, <2>1
    <3>4. w \in Byte
      BY <2>0, <3>3, NoBits DEF Before
    <3> QED
      BY <3>1, <3>2, <3>4
  <2> HIDE DEF key, w
  <2>7. Xor(key, w) \in Byte
    BY <2>6, XorByte
  <2> QED
    BY <2>4, <2>5, <2>6, <2>7, XorByte
<1>6. ASSUME NEW a \in Address, a < at PROVE mem'[a] = mem[a]
  <2>1. a \in Nat /\ ~(at <= a)
    BY <1>0, <1>6 DEF Address
  <2> QED
    BY <1>3, <2>1 DEF Descrambled, Put
<1>7. ASSUME n > 0 PROVE mbrB' = OnDisk(f, n * Sector - 1)
  <2>1. len # 0 /\ len - 1 \in 0 .. len - 1 /\ at + (len - 1) = at + len - 1
    BY <1>0, <1>7
  <2>2. m[at + (len - 1)] = OnDisk(f, len - 1)
    BY <1>4, <2>1
  <2> QED
    BY <1>3, <2>1, <2>2 DEF LastByte
<1> QED
  BY <1>5, <1>6, <1>7

-----------------------------------------------------------------------------
(* The build.                                                              *)

LEMMA Encoded ==
  ASSUME NEW n \in Nat, Encodable(n)
  PROVE  Encode(n) \in Byte /\ Num[Encode(n)] = n
BY DEF Encode, Encodable

LEMMA HeaderType ==
  ASSUME NEW env \in Seq(Byte), NEW code \in Seq(Byte),
         Encodable(SectorsOf(Len(code)) + 1), Encodable(SectorsOf(Len(env)) + 1)
  PROVE  /\ Header(env, code) \in Seq(Byte)
         /\ Len(Header(env, code)) = Sector
         /\ Num[Header(env, code)[2]] = SectorsOf(Len(code)) + 1
         /\ Num[Header(env, code)[3]] = SectorsOf(Len(env)) + 1
<1> DEFINE c == SectorsOf(Len(code)) + 1
           d == SectorsOf(Len(env)) + 1
<1>1. c \in Nat /\ d \in Nat
  <2>1. Len(code) \in Nat /\ Len(env) \in Nat
    OBVIOUS
  <2>2. SectorsOf(Len(code)) \in Nat /\ SectorsOf(Len(env)) \in Nat
    BY <2>1, Sectors, Zenon
  <2> QED
    BY <2>2
<1>2. /\ Encode(c) \in Byte /\ Num[Encode(c)] = c
      /\ Encode(d) \in Byte /\ Num[Encode(d)] = d
  BY <1>1, Encoded
<1>3. Sector \in Nat /\ Sector >= 3 /\ Magic \in Byte
  BY MbrAssumption
<1> HIDE DEF c, d
<1>4. Header(env, code) =
        [k \in 1 .. Sector |-> CASE k = 1 -> Magic
                                 [] k = 2 -> Encode(c)
                                 [] k = 3 -> Encode(d)
                                 [] OTHER -> {}]
  BY DEF Header, c, d
<1>5. Header(env, code) \in [1 .. Sector -> Byte]
  BY <1>2, <1>3, <1>4, NoBits
<1>6. Header(env, code)[2] = Encode(c) /\ Header(env, code)[3] = Encode(d)
  BY <1>3, <1>4
<1>7. Header(env, code) \in Seq(Byte) /\ Len(Header(env, code)) = Sector
  BY <1>3, <1>5
<1> QED
  BY <1>2, <1>6, <1>7 DEF c, d

LEMMA InitInv == Init => IInv
<1> SUFFICES ASSUME Init PROVE IInv
  OBVIOUS
<1>1. PICK env \in Envs, code \in Codes :
        /\ Encodable(SectorsOf(Len(code)) + 1)
        /\ Encodable(SectorsOf(Len(env)) + 1)
        /\ built = [f \in Files |->
                      IF f = "code" THEN code ELSE Header(env, code) \o env]
  BY DEF Init
<1>2. env \in Seq(Byte) /\ code \in Seq(Byte)
  BY MbrAssumption
<1>3. built["code"] = code /\ built["descriptor"] = Header(env, code) \o env
  BY <1>1 DEF Files
<1> DEFINE head == Header(env, code)
<1>4. /\ head \in Seq(Byte) /\ Len(head) = Sector
      /\ Num[head[2]] = SectorsOf(Len(code)) + 1
      /\ Num[head[3]] = SectorsOf(Len(env)) + 1
  BY <1>1, <1>2, HeaderType
<1> HIDE DEF head
<1>5. /\ head \o env \in Seq(Byte)
      /\ Len(head \o env) = Sector + Len(env)
      /\ (head \o env)[2] = head[2] /\ (head \o env)[3] = head[3]
  <2>1. Sector \in Nat /\ Sector >= 3 /\ Len(env) \in Nat
    BY <1>2, MbrAssumption
  <2>2. head \o env \in Seq(Byte) /\ Len(head \o env) = Len(head) + Len(env)
    BY <1>2, <1>4, SMTT(30)
  <2>3. 2 \in 1 .. Len(head) /\ 3 \in 1 .. Len(head)
    BY <1>4, <2>1
  <2>4. (head \o env)[2] = head[2] /\ (head \o env)[3] = head[3]
    BY <1>2, <1>4, <2>1, <2>2, <2>3
  <2> QED
    BY <1>4, <2>2, <2>4
<1>6. built["descriptor"] = head \o env
  BY <1>3 DEF head
<1>7. TypeOK
  <2>1. built \in [Files -> Seq(Byte)]
    BY <1>1, <1>2, <1>5 DEF head
  <2>2. kp \in 0 .. Len(Key) - 1
    <3>1. kp = 0
      BY DEF Init
    <3> QED
      BY <3>1, KeyLen
  <2>3. disk \in [Files -> Seq(Byte)]
    <3>1. disk = [f \in Files |-> <<>>]
      BY DEF Init
    <3>2. <<>> \in Seq(Byte)
      OBVIOUS
    <3> QED
      BY <3>1, <3>2
  <2>4. mem \in [Address -> Byte] /\ mbrB \in Byte /\ b \in Byte
    BY NoBits DEF Init
  <2>5. count \in Nat /\ pc = "scramble code"
    BY DEF Init
  <2> QED
    BY <2>1, <2>2, <2>3, <2>4, <2>5 DEF TypeOK
<1>8. Progress
  <2>1. ASSUME NEW f \in Files
        PROVE  /\ Len(disk[f]) <= Len(built[f])
               /\ Chained(f)
               /\ kp = Len(disk[f]) % Len(Key)
               /\ b = Before(f, Len(disk[f]) + 1)
    <3>1. disk[f] = <<>> /\ Len(disk[f]) = 0
      BY DEF Init
    <3>2. built[f] \in Seq(Byte)
      BY <1>7 DEF TypeOK
    <3>3. Len(built[f]) \in Nat
      BY <3>2
    <3>4. Len(disk[f]) <= Len(built[f])
      BY <3>1, <3>3
    <3>5. Chained(f)
      BY <3>1 DEF Chained
    <3>6. kp = Len(disk[f]) % Len(Key)
      <4>1. kp = 0
        BY DEF Init
      <4> QED
        BY <3>1, <4>1, KeyLen
    <3>7. b = Before(f, Len(disk[f]) + 1)
      <4>1. b = {}
        BY DEF Init
      <4>2. Len(disk[f]) + 1 = 1
        BY <3>1
      <4> QED
        BY <4>1, <4>2 DEF Before
    <3> QED
      BY <3>4, <3>5, <3>6, <3>7
  <2>2. pc = "scramble code" /\ disk["descriptor"] = <<>>
    BY DEF Init, Files
  <2> QED
    BY <2>1, <2>2 DEF Progress
<1>9. Layout
  <2>1. EnvLen = Len(env)
    <3>1. Len(env) \in Nat /\ Sector \in Nat
      BY <1>2, MbrAssumption
    <3> QED
      BY <1>5, <1>6, <3>1 DEF EnvLen
  <2>2. Len(env) \in Nat /\ Sector \in Nat
    BY <1>2, MbrAssumption
  <2>3. Len(built["descriptor"]) >= Sector
    BY <1>5, <1>6, <2>2
  <2>4. Num[built["descriptor"][2]] = CodeSectors
    BY <1>3, <1>4, <1>5, <1>6 DEF CodeSectors
  <2>5. Num[built["descriptor"][3]] = DescriptorSectors
    BY <1>4, <1>5, <1>6, <2>1 DEF DescriptorSectors
  <2> QED
    BY <2>3, <2>4, <2>5 DEF Layout
<1> QED
  BY <1>7, <1>8, <1>9 DEF IInv, Booting, BootIntact, Init

(* Steps that leave what was built alone.                                  *)
LEMMA SameBuild ==
  ASSUME built' = built
  PROVE  /\ EnvLen' = EnvLen /\ CodeSectors' = CodeSectors
         /\ DescriptorSectors' = DescriptorSectors
         /\ Fits' = Fits /\ Padded' = Padded
         /\ Layout => Layout'
BY DEF EnvLen, CodeSectors, DescriptorSectors, Fits, Padded, Layout

LEMMA ScrambleStep ==
  ASSUME IInv, NEW f \in Files, Scramble(f)
  PROVE  IInv'
<1> DEFINE n == Len(disk[f])
           x == Scrambled(f)
<1>1. /\ TypeOK /\ Progress /\ Layout /\ Booting
      /\ Scrambling(f) /\ n < Len(built[f])
      /\ disk' = [disk EXCEPT ![f] = Append(@, x)]
      /\ b' = x /\ kp' = NextKp
      /\ pc' = pc /\ built' = built /\ mem' = mem /\ mbrB' = mbrB
      /\ count' = count
  BY DEF IInv, Scramble, mbr
<1>2. /\ disk[f] \in Seq(Byte) /\ built[f] \in Seq(Byte)
      /\ kp \in 0 .. Len(Key) - 1 /\ b \in Byte
  BY <1>1 DEF TypeOK
<1>3. n \in Nat /\ Len(built[f]) \in Nat
  BY <1>2
<1>4. kp = n % Len(Key) /\ b = Before(f, n + 1) /\ Chained(f)
  BY <1>1 DEF Progress
<1>5. x = Xor(built[f][n + 1], Xor(KeyAt(n + 1), Before(f, n + 1)))
  <2>1. (n + 1) - 1 = n
    BY <1>3
  <2> QED
    BY <1>4, <2>1 DEF Scrambled, KeyAt
<1>6. x \in Byte
  <2>1. built[f][n + 1] \in Byte
    BY <1>1, <1>2, <1>3
  <2>2. Key[kp + 1] \in Byte
    BY <1>3, <1>4, KeyByte
  <2>3. Xor(Key[kp + 1], b) \in Byte
    BY <1>2, <2>2, XorByte
  <2> QED
    BY <2>1, <2>3, XorByte DEF Scrambled
<1> HIDE DEF x
<1>7. /\ disk'[f] = Append(disk[f], x)
      /\ \A g \in Files : g # f => disk'[g] = disk[g]
  BY <1>1 DEF TypeOK
<1>8. /\ disk'[f] \in Seq(Byte) /\ Len(disk'[f]) = n + 1
      /\ disk'[f][n + 1] = x
      /\ \A j \in 1 .. n : disk'[f][j] = disk[f][j]
  BY <1>2, <1>6, <1>7
<1>9. TypeOK'
  <2>1. disk' \in [Files -> Seq(Byte)]
    <3>1. Append(disk[f], x) \in Seq(Byte)
      BY <1>2, <1>6
    <3> QED
      BY <1>1, <3>1 DEF TypeOK
  <2>2. kp' \in 0 .. Len(Key) - 1
    BY <1>1, <1>2, KeyLen DEF NextKp
  <2> QED
    BY <1>1, <1>6, <2>1, <2>2 DEF TypeOK
<1>10. \A j \in 1 .. n + 1 : Before(f, j)' = Before(f, j)
  <2>1. ASSUME NEW j \in 1 .. n + 1, j # 1 PROVE j - 1 \in 1 .. n
    BY <1>3, <2>1
  <2> QED
    BY <1>8, <2>1 DEF Before
<1>11. Chained(f)'
  <2> SUFFICES ASSUME NEW j \in 1 .. n + 1
               PROVE  disk'[f][j] = Xor(built[f][j], Xor(KeyAt(j), Before(f, j)))
    BY <1>1, <1>8, <1>10 DEF Chained
  <2>1. CASE j = n + 1
    BY <1>5, <1>8, <2>1
  <2>2. CASE j # n + 1
    <3>1. j \in 1 .. n
      BY <1>3, <2>2
    <3> QED
      BY <1>4, <1>8, <3>1 DEF Chained
  <2> QED
    BY <2>1, <2>2
<1>12. kp' = Len(disk'[f]) % Len(Key)
  BY <1>1, <1>3, <1>4, <1>8, KeyLen, ModNext DEF NextKp
<1>13. b' = Before(f, Len(disk[f]) + 1)'
  <2>1. (n + 1) + 1 # 1 /\ ((n + 1) + 1) - 1 = n + 1
    BY <1>3
  <2> QED
    BY <1>1, <1>8, <2>1 DEF Before
<1>14. Progress'
  <2>1. Len(disk'[f]) <= Len(built'[f])
    BY <1>1, <1>3, <1>8
  <2>2. ASSUME NEW g \in Files, g # f
        PROVE  /\ Len(disk'[g]) <= Len(built'[g]) /\ Chained(g)'
               /\ ~Scrambling(g)'
    <3>1. Len(disk[g]) <= Len(built[g]) /\ Chained(g) /\ disk'[g] = disk[g]
      BY <1>1, <1>7, <2>2 DEF Progress
    <3>2. Chained(g)'
      BY <1>1, <3>1 DEF Chained, Before
    <3>3. ~Scrambling(g)'
      <4>1. (f = "code" /\ g = "descriptor") \/ (f = "descriptor" /\ g = "code")
        BY <2>2 DEF Files
      <4>2. Scrambling(f) /\ pc' = pc
        BY <1>1
      <4> QED
        BY <4>1, <4>2 DEF Scrambling
    <3> QED
      BY <1>1, <3>1, <3>2, <3>3
  <2>3. pc' = "scramble code" => disk'["descriptor"] = <<>>
    BY <1>1, <1>7 DEF Progress, Scrambling, Files
  <2>4. pc' # "scramble code" => Len(disk'["code"]) = Len(built'["code"])
    BY <1>1, <1>7 DEF Progress, Scrambling, Files
  <2>5. pc' \in {"scramble code", "scramble descriptor"}
    BY <1>1 DEF Scrambling
  <2>6. \A g \in Files :
          /\ Len(disk'[g]) <= Len(built'[g])
          /\ Chained(g)'
          /\ Scrambling(g)' => /\ kp' = Len(disk'[g]) % Len(Key)
                               /\ b' = Before(g, Len(disk[g]) + 1)'
    BY <1>11, <1>12, <1>13, <2>1, <2>2
  <2> QED
    BY <2>3, <2>4, <2>5, <2>6 DEF Progress
<1>15. Booting' /\ BootIntact'
  <2>1. pc' \in {"scramble code", "scramble descriptor"}
    BY <1>1 DEF Scrambling
  <2> QED
    BY <1>1, <1>9, <2>1 DEF Booting, BootIntact
<1> QED
  BY <1>1, <1>9, <1>14, <1>15, SameBuild DEF IInv

LEMMA WrittenStep ==
  ASSUME IInv, NEW f \in Files, Written(f)
  PROVE  IInv'
<1>1. /\ TypeOK /\ Progress /\ Layout /\ Booting
      /\ Scrambling(f) /\ Len(disk[f]) = Len(built[f])
      /\ pc' = IF f = "code" THEN "scramble descriptor" ELSE "header"
      /\ kp' = 0 /\ b' = {}
      /\ built' = built /\ disk' = disk /\ mem' = mem /\ mbrB' = mbrB
      /\ count' = count
  BY DEF IInv, Written, mbr
<1>2. (f = "code" /\ pc = "scramble code") \/ (f = "descriptor" /\ pc = "scramble descriptor")
  BY <1>1 DEF Scrambling, Files
<1>3. TypeOK'
  <2>0. 0 \in 0 .. Len(Key) - 1
    BY KeyLen
  <2>1. kp' \in 0 .. Len(Key) - 1
    BY <1>1, <2>0
  <2> QED
    BY <1>1, <2>1, NoBits DEF TypeOK
<1>4. Progress'
  <2>1. ASSUME NEW g \in Files
        PROVE  Len(disk'[g]) <= Len(built'[g]) /\ Chained(g)'
    BY <1>1 DEF Progress, Chained, Before
  <2>2. ASSUME NEW g \in Files, Scrambling(g)'
        PROVE  kp' = Len(disk'[g]) % Len(Key) /\ b' = Before(g, Len(disk[g]) + 1)'
    <3>1. g = "descriptor" /\ f = "code"
      BY <1>1, <2>2 DEF Scrambling, Files
    <3>2. disk'[g] = <<>>
      BY <1>1, <1>2, <3>1 DEF Progress
    <3>3. Len(disk'[g]) = 0 /\ Len(disk'[g]) + 1 = 1
      BY <3>2
    <3> QED
      BY <1>1, <3>3, KeyLen DEF Before
  <2>3. pc' # "scramble code"
    BY <1>1
  <2>4. Len(disk'["code"]) = Len(built'["code"])
    BY <1>1, <1>2 DEF Progress
  <2>5. pc' # "scramble descriptor" =>
          Len(disk'["descriptor"]) = Len(built'["descriptor"])
    BY <1>1, <1>2
  <2> QED
    BY <2>1, <2>2, <2>3, <2>4, <2>5 DEF Progress
<1>5. Booting' /\ BootIntact'
  BY <1>1, <1>2, <1>3 DEF Booting, BootIntact
<1> QED
  BY <1>1, <1>3, <1>4, <1>5, SameBuild DEF IInv

-----------------------------------------------------------------------------
(* The master boot record.                                                 *)

(* Its steps leave the disk alone.                                         *)
LEMMA BootKeepsDisk ==
  ASSUME TypeOK, Progress, Layout, tool' = tool,
         pc \notin {"scramble code", "scramble descriptor"},
         pc' \notin {"scramble code", "scramble descriptor"}
  PROVE  /\ Progress' /\ Layout'
         /\ built' = built
         /\ built' \in [Files -> Seq(Byte)] /\ disk' \in [Files -> Seq(Byte)]
         /\ kp' \in 0 .. Len(Key) - 1 /\ b' \in Byte
         /\ \A f \in Files : Len(disk[f]) = Len(built[f]) /\ Chained(f)
<1>1. built' = built /\ disk' = disk /\ kp' = kp /\ b' = b
  BY DEF tool
<1>2. \A f \in Files : ~Scrambling(f) /\ ~Scrambling(f)'
  BY DEF Scrambling
<1>3. \A f \in Files : Chained(f) => Chained(f)'
  BY <1>1 DEF Chained, Before
<1>4. \A f \in Files : Len(disk[f]) = Len(built[f]) /\ Chained(f)
  BY DEF Progress, Files
<1>5. Progress'
  BY <1>1, <1>2, <1>3, <1>4 DEF Progress
<1> QED
  BY <1>1, <1>4, <1>5, SameBuild DEF TypeOK

(* The room the descriptor may take ends below the loader, and in memory.  *)
LEMMA BelowCode ==
  ASSUME NEW n \in Nat, n <= Room
  PROVE  /\ n * Sector \in Nat /\ n * Sector <= Room * Sector
         /\ 0 + n * Sector <= MemSize
         /\ Room * Sector < CodeAt /\ CodeAt < MemSize
<1>1. /\ Room \in Nat /\ Sector \in Nat /\ CodeAt \in Nat /\ MemSize \in Nat
      /\ Room * Sector < CodeAt /\ CodeAt < MemSize
  BY MbrAssumption
<1>2. n * Sector \in Nat /\ Room * Sector \in Nat /\ n * Sector <= Room * Sector
  BY <1>1, Product
<1> QED
  BY <1>1, <1>2

LEMMA LoadHeaderStep ==
  ASSUME IInv, LoadHeader
  PROVE  IInv'
<1>1. /\ TypeOK /\ Progress /\ Layout /\ Booting
      /\ pc = "header" /\ pc' = "descriptor" /\ tool' = tool
      /\ Fetch("descriptor", 0, count) /\ count' = Num[mem'[2]]
  BY DEF IInv, LoadHeader
<1>2. /\ Progress' /\ Layout' /\ built' = built
      /\ built' \in [Files -> Seq(Byte)] /\ disk' \in [Files -> Seq(Byte)]
      /\ kp' \in 0 .. Len(Key) - 1 /\ b' \in Byte
      /\ Len(disk["descriptor"]) = Len(built["descriptor"])
      /\ Chained("descriptor")
  BY <1>1, BootKeepsDisk DEF Files
<1>3. count = 1 /\ mbrB = {}
  BY <1>1 DEF Booting
<1>4. /\ Room \in Nat /\ 1 <= Room /\ Sector \in Nat /\ Sector >= 3
      /\ CodeAt \in Nat /\ MemSize \in Nat /\ WordMod \in Nat
      /\ Num \in [Byte -> Nat]
  BY MbrAssumption
<1>5. /\ 1 * Sector = Sector /\ 1 * Sector <= Room * Sector
      /\ 0 + 1 * Sector <= MemSize /\ Sector < MemSize
  BY <1>4, BelowCode
<1>6. mem' \in [Address -> Byte] /\ mbrB' \in Byte
  BY <1>1, <1>3, <1>5, FetchTypes DEF Files
<1>7. count' \in Nat
  <2>1. 2 \in Address
    BY <1>4, <1>5 DEF Address
  <2> QED
    BY <1>1, <1>4, <1>6, <2>1
<1>8. TypeOK'
  BY <1>1, <1>2, <1>6, <1>7 DEF TypeOK
<1>9. ASSUME Fits PROVE count' = DescriptorSectors
  <2>1. 1 * Sector < WordMod
    <3>1. Room * Sector < WordMod /\ Room * Sector \in Nat
      BY <1>4, <1>9, Product DEF Fits
    <3> QED
      BY <1>4, <1>5, <3>1
  <2>2. \A j \in 1 .. Len(built["descriptor"]) :
          j <= 1 * Sector /\ (j > 1 \/ mbrB = {}) =>
            mem'[0 + j - 1] = built["descriptor"][j]
    BY <1>1, <1>2, <1>3, <1>5, <2>1, Fetched DEF Files
  <2>3. 3 \in 1 .. Len(built["descriptor"]) /\ 3 <= 1 * Sector
    <3>1. built["descriptor"] \in Seq(Byte)
      BY <1>1 DEF TypeOK, Files
    <3>2. Len(built["descriptor"]) \in Nat /\ Len(built["descriptor"]) >= Sector
      BY <1>1, <3>1 DEF Layout
    <3> QED
      BY <1>4, <1>5, <3>2
  <2>4. mem'[2] = built["descriptor"][3]
    <3>1. mem'[0 + 3 - 1] = built["descriptor"][3]
      BY <1>3, <2>2, <2>3
    <3> QED
      BY <3>1
  <2> QED
    BY <1>1, <2>4 DEF Layout
<1>10. Booting' /\ BootIntact'
  BY <1>1, <1>2, <1>8, <1>9, SameBuild DEF Booting, BootIntact
<1> QED
  BY <1>2, <1>8, <1>10 DEF IInv

LEMMA LoadDescriptorStep ==
  ASSUME IInv, LoadDescriptor
  PROVE  IInv'
<1>1. /\ TypeOK /\ Progress /\ Layout /\ Booting
      /\ pc = "descriptor" /\ tool' = tool
  BY DEF IInv, LoadDescriptor
<1>2. CASE count > Room
  <2>1. pc' = "wild" /\ mem' = mem /\ mbrB' = mbrB /\ count' = count
    BY <1>2 DEF LoadDescriptor, mbr
  <2>2. Progress' /\ Layout' /\ TypeOK'
    BY <1>1, <2>1, BootKeepsDisk DEF TypeOK
  <2> QED
    BY <2>1, <2>2 DEF IInv, Booting, BootIntact
<1>3. CASE ~(count > Room)
  <2>1. /\ Fetch("descriptor", 0, count) /\ count' = Num[mem'[1]]
        /\ pc' = "code"
    BY <1>3 DEF LoadDescriptor
  <2>2. /\ Progress' /\ Layout' /\ built' = built
        /\ built' \in [Files -> Seq(Byte)] /\ disk' \in [Files -> Seq(Byte)]
        /\ kp' \in 0 .. Len(Key) - 1 /\ b' \in Byte
        /\ Len(disk["descriptor"]) = Len(built["descriptor"])
        /\ Chained("descriptor")
    BY <1>1, <2>1, BootKeepsDisk DEF Files
  <2>3. /\ Room \in Nat /\ Sector \in Nat /\ Sector >= 3
        /\ CodeAt \in Nat /\ MemSize \in Nat /\ WordMod \in Nat
        /\ Num \in [Byte -> Nat]
    BY MbrAssumption
  <2>4. count \in Nat /\ count <= Room
    BY <1>1, <1>3, <2>3 DEF TypeOK
  <2>5. /\ count * Sector \in Nat /\ count * Sector <= Room * Sector
        /\ 0 + count * Sector <= MemSize
        /\ Room * Sector < CodeAt /\ CodeAt < MemSize
    BY <2>4, BelowCode
  <2>6. mem' \in [Address -> Byte] /\ mbrB' \in Byte
    BY <1>1, <2>1, <2>4, <2>5, FetchTypes DEF Files
  <2>7. count' \in Nat
    <3>1. Room * Sector \in Nat /\ Sector <= Room * Sector
      BY <2>3, MbrAssumption, Product
    <3>2. 1 \in Address
      BY <2>3, <2>5, <3>1 DEF Address
    <3> QED
      BY <2>1, <2>3, <2>6, <3>2
  <2>8. TypeOK'
    BY <2>1, <2>2, <2>6, <2>7 DEF TypeOK
  <2>9. ASSUME Fits
        PROVE  /\ count' = CodeSectors
               /\ Padded => mbrB' = {}
               /\ DescriptorIntact'
    <3> DEFINE len == Len(built["descriptor"])
    <3>1. built["descriptor"] \in Seq(Byte) /\ len \in Nat /\ len >= Sector
      <4>1. built["descriptor"] \in Seq(Byte)
        BY <1>1 DEF TypeOK, Files
      <4> QED
        BY <1>1, <4>1 DEF Layout
    <3>2. EnvLen \in Nat /\ len = EnvLen + Sector
      BY <2>3, <3>1 DEF EnvLen
    <3>3. count = SectorsOf(EnvLen) + 1 /\ SectorsOf(EnvLen) \in Nat
      BY <1>1, <2>9, <3>2, Sectors DEF Booting, DescriptorSectors
    <3>4. count * Sector = SectorsOf(EnvLen) * Sector + Sector
      BY <2>3, <3>3, Product
    <3>5. SectorsOf(EnvLen) * Sector \in Nat
      BY <2>3, <3>3, Product
    <3>6. len <= count * Sector /\ (Padded => len < count * Sector)
      <4>1. /\ EnvLen <= SectorsOf(EnvLen) * Sector
            /\ Padded => EnvLen < SectorsOf(EnvLen) * Sector
        BY <3>2, Sectors DEF Padded
      <4> QED
        BY <2>3, <3>2, <3>4, <3>5, <4>1
    <3>7. count * Sector < WordMod
      <4>1. Room * Sector < WordMod /\ Room * Sector \in Nat
        BY <2>3, <2>9, Product DEF Fits
      <4> QED
        BY <2>3, <2>5, <4>1
    <3>8. /\ \A j \in 1 .. len : j <= count * Sector /\ (j > 1 \/ mbrB = {}) =>
                mem'[0 + j - 1] = built["descriptor"][j]
          /\ count > 0 => mbrB' = OnDisk("descriptor", count * Sector - 1)
      BY <1>1, <2>1, <2>2, <2>4, <2>5, <3>7, Fetched DEF Files
    <3>9. ASSUME NEW j \in 2 .. len PROVE mem'[j - 1] = built["descriptor"][j]
      <4>1. j \in 1 .. len /\ j <= count * Sector /\ j > 1 /\ 0 + j - 1 = j - 1
        BY <2>5, <3>1, <3>6, <3>9
      <4> QED
        BY <3>8, <4>1
    <3>10. count' = CodeSectors
      <4>1. 2 \in 2 .. len
        BY <2>3, <3>1
      <4>2. mem'[2 - 1] = built["descriptor"][2]
        BY <3>9, <4>1
      <4> QED
        BY <1>1, <2>1, <4>2 DEF Layout
    <3>11. Padded => mbrB' = {}
      <4>1. count > 0
        BY <3>3
      <4>2. Padded => ~(count * Sector - 1 < Len(disk["descriptor"]))
        BY <2>2, <2>5, <3>1, <3>6
      <4> QED
        BY <3>8, <4>1, <4>2 DEF OnDisk
    <3> QED
      BY <2>2, <3>9, <3>10, <3>11 DEF DescriptorIntact
  <2>10. Booting' /\ BootIntact'
    BY <2>1, <2>2, <2>8, <2>9, SameBuild DEF Booting, BootIntact
  <2> QED
    BY <2>2, <2>8, <2>10 DEF IInv
<1> QED
  BY <1>2, <1>3

LEMMA LoadCodeStep ==
  ASSUME IInv, LoadCode
  PROVE  IInv'
<1>1. /\ TypeOK /\ Progress /\ Layout /\ Booting
      /\ pc = "code" /\ tool' = tool
  BY DEF IInv, LoadCode
<1>2. CASE CodeAt + count * Sector > MemSize
  <2>1. pc' = "wild" /\ mem' = mem /\ mbrB' = mbrB /\ count' = count
    BY <1>2 DEF LoadCode, mbr
  <2>2. Progress' /\ Layout' /\ TypeOK'
    BY <1>1, <2>1, BootKeepsDisk DEF TypeOK
  <2> QED
    BY <2>1, <2>2 DEF IInv, Booting, BootIntact
<1>3. CASE ~(CodeAt + count * Sector > MemSize)
  <2>1. Fetch("code", CodeAt, count) /\ count' = count /\ pc' = "loader"
    BY <1>3 DEF LoadCode
  <2>2. /\ Progress' /\ Layout' /\ built' = built
        /\ built' \in [Files -> Seq(Byte)] /\ disk' \in [Files -> Seq(Byte)]
        /\ kp' \in 0 .. Len(Key) - 1 /\ b' \in Byte
        /\ Len(disk["code"]) = Len(built["code"])
        /\ Chained("code")
    BY <1>1, <2>1, BootKeepsDisk DEF Files
  <2>3. /\ Sector \in Nat \ {0} /\ Room \in Nat /\ CodeAt \in Nat /\ MemSize \in Nat
        /\ Room * Sector < CodeAt /\ CodeAt < MemSize
    BY MbrAssumption
  <2>4. count \in Nat /\ count * Sector \in Nat
    BY <1>1, <2>3, Product DEF TypeOK
  <2>5. CodeAt + count * Sector <= MemSize
    BY <1>3, <2>3, <2>4
  <2>6. mem' \in [Address -> Byte] /\ mbrB' \in Byte
    BY <1>1, <2>1, <2>3, <2>4, <2>5, FetchTypes DEF Files
  <2>7. TypeOK'
    BY <2>1, <2>2, <2>4, <2>6 DEF TypeOK
  <2>8. ASSUME Fits
        PROVE  /\ DescriptorIntact'
               /\ Padded => \A j \in 1 .. Len(built["code"]) :
                              mem'[CodeAt + j - 1] = built["code"][j]
    <3> DEFINE len == Len(built["code"])
    <3>1. built["code"] \in Seq(Byte) /\ built["descriptor"] \in Seq(Byte)
      BY <1>1 DEF TypeOK, Files
    <3>2. len \in Nat /\ Len(built["descriptor"]) \in Nat
      BY <3>1
    <3>3. /\ count = SectorsOf(len) + 1 /\ SectorsOf(len) \in Nat
          /\ len <= SectorsOf(len) * Sector
      BY <1>1, <2>8, <3>2, Sectors DEF Booting, CodeSectors
    <3>4. len <= count * Sector
      <4>1. count * Sector = SectorsOf(len) * Sector + Sector
        BY <2>3, <3>3, Product
      <4>2. SectorsOf(len) * Sector \in Nat
        BY <2>3, <3>3, Product
      <4> QED
        BY <2>3, <3>2, <3>3, <4>1, <4>2
    <3>5. count * Sector < WordMod
      BY <2>8, <3>3 DEF Fits
    <3>6. /\ \A j \in 1 .. len : j <= count * Sector /\ (j > 1 \/ mbrB = {}) =>
                mem'[CodeAt + j - 1] = built["code"][j]
          /\ \A a \in Address : a < CodeAt => mem'[a] = mem[a]
      BY <1>1, <2>1, <2>2, <2>3, <2>4, <2>5, <3>5, Fetched DEF Files
    <3>7. Padded => mbrB = {}
      BY <1>1, <2>8 DEF Booting
    <3>8. \A j \in 1 .. len : j <= count * Sector
      BY <2>4, <3>2, <3>4
    <3>9. Len(built["descriptor"]) <= Room * Sector
      <4>1. EnvLen \in Nat /\ Len(built["descriptor"]) = EnvLen + Sector
        BY <1>1, <2>3, <3>2 DEF EnvLen, Layout
      <4>2. SectorsOf(EnvLen) \in Nat /\ EnvLen <= SectorsOf(EnvLen) * Sector
        BY <4>1, Sectors
      <4>3. SectorsOf(EnvLen) + 1 \in Nat /\ SectorsOf(EnvLen) + 1 <= Room
        BY <2>8, <4>2 DEF Fits
      <4>4. (SectorsOf(EnvLen) + 1) * Sector = SectorsOf(EnvLen) * Sector + Sector
        BY <2>3, <4>2, Product
      <4>5. (SectorsOf(EnvLen) + 1) * Sector <= Room * Sector
        BY <4>3, BelowCode
      <4>6. SectorsOf(EnvLen) * Sector \in Nat /\ Room * Sector \in Nat
        BY <2>3, <4>2, Product
      <4> QED
        BY <2>3, <4>1, <4>2, <4>4, <4>5, <4>6
    <3>10. ASSUME NEW j \in 2 .. Len(built["descriptor"])
           PROVE  mem'[j - 1] = built["descriptor"][j]
      <4>1. Room * Sector \in Nat
        BY <2>3, Product
      <4>2. j - 1 \in Address /\ j - 1 < CodeAt
        BY <2>3, <3>2, <3>9, <4>1 DEF Address
      <4>3. mem[j - 1] = built["descriptor"][j]
        BY <1>1, <2>8 DEF Booting, DescriptorIntact
      <4> QED
        BY <3>6, <4>2, <4>3
    <3> QED
      BY <2>2, <3>6, <3>7, <3>8, <3>10 DEF DescriptorIntact
  <2>9. Booting'
    BY <2>1, <2>2, <2>8, SameBuild DEF Booting
  <2>10. BootIntact'
    BY <2>1, <2>2, <2>7, <2>8, SameBuild DEF BootIntact, DescriptorIntact
  <2> QED
    BY <2>2, <2>7, <2>9, <2>10 DEF IInv
<1> QED
  BY <1>2, <1>3

LEMMA FailStep ==
  ASSUME IInv, Fail
  PROVE  IInv'
<1>1. /\ TypeOK /\ Progress /\ Layout
      /\ pc \in {"header", "descriptor", "code"} /\ pc' = "halted"
      /\ tool' = tool /\ mem' = mem /\ mbrB' = mbrB /\ count' = count
  BY DEF IInv, Fail, mbr
<1>2. Progress' /\ Layout' /\ TypeOK'
  BY <1>1, BootKeepsDisk DEF TypeOK
<1> QED
  BY <1>1, <1>2 DEF IInv, Booting, BootIntact

LEMMA Stutter ==
  ASSUME IInv, UNCHANGED vars
  PROVE  IInv'
<1>1. /\ pc' = pc /\ built' = built /\ disk' = disk /\ kp' = kp /\ b' = b
      /\ mem' = mem /\ mbrB' = mbrB /\ count' = count
  BY DEF vars, tool, mbr
<1>2. TypeOK' /\ Progress' /\ Layout'
  BY <1>1, SameBuild
  DEF IInv, TypeOK, Progress, Chained, Before, Scrambling
<1>3. Booting'
  <2>1. DescriptorIntact => DescriptorIntact'
    BY <1>1 DEF DescriptorIntact
  <2>2. /\ CodeSectors' = CodeSectors /\ DescriptorSectors' = DescriptorSectors
        /\ Fits' = Fits /\ Padded' = Padded
    BY <1>1, SameBuild
  <2>3. Booting
    BY DEF IInv
  <2> QED
    BY <1>1, <2>1, <2>2, <2>3, Zenon DEF Booting
<1>4. BootIntact'
  BY <1>1, <1>2, SameBuild DEF IInv, BootIntact
<1> QED
  BY <1>2, <1>3, <1>4 DEF IInv

LEMMA NextInv == IInv /\ [Next]_vars => IInv'
<1> SUFFICES ASSUME IInv, [Next]_vars PROVE IInv'
  OBVIOUS
<1>1. ASSUME NEW f \in Files, Scramble(f) PROVE IInv'
  BY <1>1, ScrambleStep
<1>2. ASSUME NEW f \in Files, Written(f) PROVE IInv'
  BY <1>2, WrittenStep
<1>3. CASE LoadHeader
  BY <1>3, LoadHeaderStep
<1>4. CASE LoadDescriptor
  BY <1>4, LoadDescriptorStep
<1>5. CASE LoadCode
  BY <1>5, LoadCodeStep
<1>6. CASE Fail
  BY <1>6, FailStep
<1>7. CASE UNCHANGED vars
  BY <1>7, Stutter
<1> QED
  BY <1>1, <1>2, <1>3, <1>4, <1>5, <1>6, <1>7 DEF Next

(* The chain between what was built and what is on the disk, the counts in *)
(* the header, and what the MBR has learned of them at each of its steps.  *)
THEOREM Invariance == Spec => []IInv
BY InitInv, NextInv, PTL DEF Spec

(* Whatever is built and whatever the key is: if it fits the memory map,   *)
(* the loader that is jumped to and the environment it will read are,      *)
(* byte for byte, those that were built (main of tools/xor.c, then mbr.S); *)
(* and all is of its type, so that no fetch leaves the memory.             *)
THEOREM BootsWhatWasBuilt == Spec => []BootIntact
<1>1. IInv => BootIntact
  BY DEF IInv
<1> QED
  BY <1>1, Invariance, PTL
=============================================================================
