--------------------------------- MODULE Mbr ---------------------------------
(***************************************************************************)
(* From the build to the loader's first instruction: the xor tool          *)
(* scrambles the two images that are written to the disk (tools/xor.c,     *)
(* crypt/xor_scrambler.c), and the master boot record reads them back and  *)
(* descrambles them in place (arch/x86/mbr.S, xor_descrambler.S).          *)
(*                                                                         *)
(* A byte is a set of bits, so that xor is the symmetric difference.  The  *)
(* descriptor's first sector is its header; the environment follows.  Only *)
(* three bytes of the header are told apart: the magic, the loader's and   *)
(* the descriptor's own number of sectors.                                 *)
(***************************************************************************)
EXTENDS Integers, Sequences

CONSTANTS
  Bits,      (* of a byte                                                  *)
  Num,       (* the number a byte stands for                               *)
  Key,       (* mbr_xor_key                                                *)
  Sector,    (* bytes of a sector: DISK_SECTOR_SIZE                        *)
  Room,      (* sectors from LOADER_DESCRIPTOR_ADDRESS to the MBR          *)
  CodeAt,    (* LOADER_CODE_ADDRESS, less LOADER_DESCRIPTOR_ADDRESS        *)
  MemSize,   (* bytes from there to the end of the segment, 0xFFFF         *)
  WordMod,   (* a product of mul %bx is kept modulo 2^16                   *)
  Magic,     (* LOADER_MAGIC                                               *)
  Envs,      (* the environments, and                                      *)
  Codes      (* the loaders a build may be made of                         *)

Byte == SUBSET Bits

ASSUME MbrAssumption ==
  /\ Num \in [Byte -> Nat]
  /\ \A a, b \in Byte : Num[a] = Num[b] => a = b
  /\ Num[{}] = 0
  /\ Key \in Seq(Byte) /\ Key # <<>>
  /\ Sector \in Nat /\ Sector >= 3
  /\ Room \in Nat \ {0}
  /\ CodeAt \in Nat /\ CodeAt > Room * Sector
  /\ MemSize \in Nat /\ MemSize > CodeAt
  /\ WordMod \in Nat \ {0}
  /\ Magic \in Byte
  /\ Envs \subseteq Seq(Byte) /\ Codes \subseteq Seq(Byte)

Xor(a, b) == (a \ b) \cup (b \ a)

Files == {"code", "descriptor"}
Address == 0 .. MemSize - 1

VARIABLES
  pc,
  built,      (* the images before they are scrambled: *.img.orig          *)
  disk,       (* the images on the disk, as far as they are written        *)
  kp,         (* xor: data->key, less data->key_orig                       *)
  b,          (* xor: data->b                                              *)
  mem,        (* memory behind LOADER_DESCRIPTOR_ADDRESS                   *)
  mbrB,       (* mbr_xor_b                                                 *)
  count       (* blocks_count                                              *)

tool == <<built, disk, kp, b>>
mbr == <<mem, mbrB, count>>
vars == <<pc, tool, mbr>>

-----------------------------------------------------------------------------
(* The build.                                                              *)

(* du counts the sectors a file takes; one more is written down.           *)
SectorsOf(n) == n \div Sector + (IF n % Sector = 0 THEN 0 ELSE 1)

Encode(n) == CHOOSE a \in Byte : Num[a] = n
Encodable(n) == \E a \in Byte : Num[a] = n

Header(env, code) ==
  [k \in 1 .. Sector |->
     CASE k = 1 -> Magic
       [] k = 2 -> Encode(SectorsOf(Len(code)) + 1)
       [] k = 3 -> Encode(SectorsOf(Len(env)) + 1)
       [] OTHER -> {}]

Init ==
  /\ pc = "scramble code"
  /\ \E env \in Envs, code \in Codes :
       /\ Encodable(SectorsOf(Len(code)) + 1)
       /\ Encodable(SectorsOf(Len(env)) + 1)
       /\ built = [f \in Files |->
                     IF f = "code" THEN code ELSE Header(env, code) \o env]
  /\ disk = [f \in Files |-> <<>>]
  /\ kp = 0 /\ b = {}
  /\ mem = [a \in Address |-> {}]
  /\ mbrB = {}
  /\ count = 1

(* xor_scrambler_get_next_key_byte: the key starts over behind its end.    *)
NextKp == IF kp + 1 > Len(Key) - 1 THEN 0 ELSE kp + 1

Scrambling(f) ==
  pc = IF f = "code" THEN "scramble code" ELSE "scramble descriptor"

(* Mutant: data->b is forgotten between two buffers of the tool.           *)
MutScrambled(f) ==
  LET k == Len(disk[f]) + 1
  IN Xor(built[f][k], Xor(Key[kp + 1], IF k % Sector = 1 THEN {} ELSE b))

Scrambled(f) == Xor(built[f][Len(disk[f]) + 1], Xor(Key[kp + 1], b))

(* xor_scrambler_Gdir, a byte at a time: where fread cuts the file into    *)
(* buffers makes no difference, data lives on from call to call.           *)
Scramble(f) ==
  /\ Scrambling(f)
  /\ Len(disk[f]) < Len(built[f])
  /\ disk' = [disk EXCEPT ![f] = Append(@, Scrambled(f))]
  /\ b' = Scrambled(f)
  /\ kp' = NextKp
  /\ UNCHANGED <<pc, built, mbr>>

(* The tool ends; each of its runs begins with xor_scrambler_reset.        *)
Written(f) ==
  /\ Scrambling(f)
  /\ Len(disk[f]) = Len(built[f])
  /\ pc' = IF f = "code" THEN "scramble descriptor" ELSE "header"
  /\ kp' = 0 /\ b' = {}
  /\ UNCHANGED <<built, disk, mbr>>

-----------------------------------------------------------------------------
(* The master boot record.                                                 *)

(* What int 0x13 reads of n sectors: behind a file the disk holds zeros.   *)
OnDisk(f, j) == IF j < Len(disk[f]) THEN disk[f][j + 1] ELSE {}

Put(f, at, n) ==
  [a \in Address |->
     IF at <= a /\ a < at + n * Sector THEN OnDisk(f, a - at) ELSE mem[a]]

(* mul %bx, of which %ax is kept                                           *)
Length(n) == (n * Sector) % WordMod

(* xor_descramble_memory of the memory m: each byte with the key's and the *)
(* one before it as it was read.  The key starts over in every call, the   *)
(* byte before the first is what mbr_xor_b was left at.                    *)
Descrambled(m, at, len) ==
  [a \in Address |->
     IF at <= a /\ a < at + len
     THEN Xor(m[a], Xor(Key[((a - at) % Len(Key)) + 1],
                        IF a = at THEN mbrB ELSE m[a - 1]))
     ELSE m[a]]

LastByte(m, at, len) == IF len = 0 THEN mbrB ELSE m[at + len - 1]

(* n sectors are read to at, and descrambled there.                        *)
Fetch(f, at, n) ==
  LET m == Put(f, at, n)
  IN /\ mem' = Descrambled(m, at, Length(n))
     /\ mbrB' = LastByte(m, at, Length(n))

(* The first sector of the descriptor says how many it has.                *)
LoadHeader ==
  /\ pc = "header"
  /\ Fetch("descriptor", 0, count)
  /\ count' = Num[mem'[2]]
  /\ pc' = "descriptor"
  /\ UNCHANGED tool

(* All of it, from the start.  More sectors than there is room for end up  *)
(* on the code that runs.                                                  *)
LoadDescriptor ==
  /\ pc = "descriptor"
  /\ IF count > Room
     THEN pc' = "wild" /\ UNCHANGED mbr
     ELSE /\ Fetch("descriptor", 0, count)
          /\ count' = Num[mem'[1]]
          /\ pc' = "code"
  /\ UNCHANGED tool

(* The loader.  buffer is an offset in its segment: what goes beyond its   *)
(* end is not where the loader expects it.                                 *)
LoadCode ==
  /\ pc = "code"
  /\ IF CodeAt + count * Sector > MemSize
     THEN pc' = "wild" /\ UNCHANGED mbr
     ELSE /\ Fetch("code", CodeAt, count)
          /\ count' = count
          /\ pc' = "loader"
  /\ UNCHANGED tool

(* int 0x13 reports an error: cli, hlt.                                    *)
Fail ==
  /\ pc \in {"header", "descriptor", "code"}
  /\ pc' = "halted"
  /\ UNCHANGED <<tool, mbr>>

Next ==
  \/ \E f \in Files : Scramble(f) \/ Written(f)
  \/ LoadHeader
  \/ LoadDescriptor
  \/ LoadCode
  \/ Fail

Spec == Init /\ [][Next]_vars

-----------------------------------------------------------------------------
TypeOK ==
  /\ pc \in {"scramble code", "scramble descriptor", "header", "descriptor",
             "code", "loader", "halted", "wild"}
  /\ built \in [Files -> Seq(Byte)]
  /\ disk \in [Files -> Seq(Byte)]
  /\ kp \in 0 .. Len(Key) - 1
  /\ b \in Byte
  /\ mem \in [Address -> Byte]
  /\ mbrB \in Byte
  /\ count \in Nat

(* The build fits the memory map and the registers: the descriptor ends    *)
(* below the MBR, the loader in memory, and their lengths in a word.       *)
EnvLen == Len(built["descriptor"]) - Sector
Fits ==
  /\ SectorsOf(EnvLen) + 1 <= Room
  /\ Room * Sector < WordMod
  /\ (SectorsOf(Len(built["code"])) + 1) * Sector < WordMod
  /\ CodeAt + (SectorsOf(Len(built["code"])) + 1) * Sector <= MemSize

(* The descriptor ends within its last sector, the rest of which is zeros. *)
Padded == EnvLen % Sector # 0

(* What is booted is what was built, byte for byte: the descriptor with    *)
(* its version and environment (only of the magic this is not so), and,    *)
(* though the MBR never resets mbr_xor_b, the loader, which starts with    *)
(* what the descriptor's last sector ended with.  (All is of its type.)    *)
BootIntact ==
  /\ TypeOK
  /\ pc = "loader" /\ Fits =>
       /\ \A j \in 2 .. Len(built["descriptor"]) :
            mem[j - 1] = built["descriptor"][j]
       /\ Padded => \A j \in 1 .. Len(built["code"]) :
                      mem[CodeAt + j - 1] = built["code"][j]

=============================================================================
