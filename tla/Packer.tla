-------------------------------- MODULE Packer -------------------------------
(***************************************************************************)
(* tools/mkimg.c and what main/simg.c makes of its output.  mkimg takes a  *)
(* file for a kernel or for raw data; a kernel becomes two parts, any      *)
(* other file one.  A part is scrambled, enciphered, hashed and signed,    *)
(* and written behind a start block; the loader hashes what it read, and   *)
(* undoes the two passes.                                                  *)
(***************************************************************************)
EXTENDS Cipher, Sha1

CONSTANTS
  Sector,     (* DISK_SECTOR_SIZE                                          *)
  HeadSectors, (* KERNEL_SETUP_SECTORS                                     *)
  SetupAt,    (* the offsets of setup_sects and header in a kernel         *)
  MagicAt,
  Magic,      (* KERNEL_HDRS                                               *)
  Modes,      (* the modes crypt.c is built with                           *)
  Inputs,     (* the files                                                 *)
  Rests,      (* what may lie on the disk behind the image                 *)
  Earlier     (* what other images may have left of the loader's scrambler *)

ASSUME PackerAssumption ==
  /\ {Sector, HeadSectors} \subseteq Nat \ {0} /\ Sector % BlockLen = 0
  /\ {SetupAt, MagicAt} \subseteq Nat
  /\ {SetupAt + 1, MagicAt + Len(Magic)} \subseteq 1 .. HeadSectors * Sector
  /\ Modes \subseteq AllModes
  /\ Earlier \subseteq Scrambler

Fill == 0 .. ByteBits - 1          (* FILL                                 *)

VARIABLES
  pc, mode,
  file,       (* the input                                                 *)
  kernel,     (* what file_is_kernel returned                              *)
  buffer,     (* mkimg's part, and its size                                *)
  size,
  digest,     (* of the part, as signed                                    *)
  out,        (* the output, then the disk                                 *)
  starts,     (* the start blocks in it, by their places                   *)
  scrambler,  (* scrambler_data, first mkimg's, then the loader's          *)
  pos,        (* how far the loader has read                               *)
  mem,        (* the memory the loader read a part to                      *)
  loaded      (* the parts it has made of them                             *)

host == <<buffer, size, digest, out, starts>>
loader == <<pos, mem, loaded>>
vars == <<pc, mode, file, kernel, host, scrambler, loader>>

-----------------------------------------------------------------------------
Filled(n, b) == [k \in 1 .. n |-> b]
Sectors(n) == n \div Sector + (IF n % Sector = 0 THEN 0 ELSE 1)

(* setup_sects + 1, as a byte                                              *)
RealMode == (ByteVal(file[SetupAt + 1]) + 1) % Entries

(* Mutant: the buffer is as long as the file.                              *)
MutAllocated(n) == n

(* alloc_size: whole words.                                                *)
Allocated(n) == (n \div WordLen + (IF n % WordLen = 0 THEN 0 ELSE 1)) * WordLen

Init ==
  /\ pc = "input"
  /\ mode \in Modes
  /\ file \in Inputs
  /\ kernel = FALSE
  /\ buffer = <<>> /\ size = 0 /\ digest = <<>>
  /\ out = <<>> /\ starts = <<>>
  /\ scrambler = [key |-> 0, b |-> {}]
  /\ pos = 0 /\ mem = <<>> /\ loaded = <<>>

(* file_is_kernel: of a file too short the header is what malloc left      *)
(* there.                                                                  *)
Detect ==
  /\ pc = "input"
  /\ kernel' \in IF Len(file) < MagicAt + Len(Magic) THEN BOOLEAN
                 ELSE {SubSeq(file, MagicAt + 1, MagicAt + Len(Magic)) = Magic}
  /\ pc' = IF kernel' THEN "header" ELSE "raw"
  /\ UNCHANGED <<mode, file, host, scrambler, loader>>

(* process_raw_file                                                        *)
RawFile ==
  /\ pc = "raw"
  /\ size' = Len(file)
  /\ buffer' = file \o Filled(Allocated(Len(file)) - Len(file), {})
  /\ pc' = "process"
  /\ UNCHANGED <<mode, file, kernel, digest, out, starts, scrambler, loader>>

(* process_kernel_file, up to the real mode kernel: a file without a whole *)
(* header is given up, and so is one whose setup_sects wraps to zero or    *)
(* promises more than there is.                                            *)
RealModeKernel ==
  /\ pc = "header"
  /\ IF \/ Len(file) < HeadSectors * Sector
        \/ RealMode = 0
        \/ Len(file) < RealMode * Sector
     THEN pc' = "failed" /\ UNCHANGED <<buffer, size>>
     ELSE /\ size' = RealMode * Sector
          /\ buffer' = SubSeq(file, 1, size')
          /\ pc' = "process"
  /\ UNCHANGED <<mode, file, kernel, digest, out, starts, scrambler, loader>>

(* The rest of the sectors; realloc to nothing returns no buffer.          *)
ProtectedModeKernel ==
  /\ pc = "second"
  /\ LET rest == SubSeq(file, RealMode * Sector + 1, Len(file))
         n == (Sectors(Len(file)) - RealMode) * Sector
     IN IF n = 0
        THEN pc' = "failed" /\ UNCHANGED <<buffer, size>>
        ELSE /\ size' = n
             /\ buffer' = rest \o Filled(n - Len(rest), Fill)
             /\ pc' = "process"
  /\ UNCHANGED <<mode, file, kernel, digest, out, starts, scrambler, loader>>

(* process_buffer, encrypt_buffer: what a pass does behind the end of the  *)
(* buffer is not defined.                                                  *)
Encrypt_buffer ==
  /\ pc = "process"
  /\ IF Touched(size) > Len(buffer)
     THEN pc' = "wild" /\ UNCHANGED <<buffer, scrambler>>
     ELSE LET m == Gdir(Reset(scrambler), buffer, size)
          IN /\ buffer' = blowfish_encrypt_memory(mode, m, size)
             /\ scrambler' = Behind(Reset(scrambler), m, size)
             /\ pc' = "sign"
  /\ UNCHANGED <<mode, file, kernel, size, digest, out, starts, loader>>

(* The hash is signed and the signature checked, which may fail.           *)
SignBuffer ==
  /\ pc = "sign"
  /\ digest' = Hash(SubSeq(buffer, 1, size))
  /\ pc' \in {"write", "failed"}
  /\ UNCHANGED <<mode, file, kernel, buffer, size, out, starts, scrambler, loader>>

(* The start block, as large as a sector, and size bytes of the buffer.    *)
WritePart ==
  /\ pc = "write"
  /\ starts' = (Len(out) :> [size |-> size, digest |-> digest]) @@ starts
  /\ out' = out \o Filled(Sector, {}) \o SubSeq(buffer, 1, size)
  /\ pc' = IF kernel /\ starts = <<>> THEN "second" ELSE "written"
  /\ UNCHANGED <<mode, file, kernel, buffer, size, digest, scrambler, loader>>

(* The image is copied to the disk, and read by a loader that may have     *)
(* loaded others before.                                                   *)
Store ==
  /\ pc = "written"
  /\ \E rest \in Rests : out' = out \o rest
  /\ scrambler' \in Earlier
  /\ pc' = "stored"
  /\ UNCHANGED <<mode, file, kernel, buffer, size, digest, starts, loader>>

-----------------------------------------------------------------------------
(* load_simg: the start block, and the sectors that hold the data.         *)
ReadPart ==
  /\ pc = "stored"
  /\ IF pos \notin DOMAIN starts
     THEN pc' = "refused" /\ UNCHANGED <<pos, mem>>
     ELSE LET next == pos + (1 + Sectors(starts[pos].size)) * Sector
          IN /\ mem' = SubSeq(out, pos + Sector + 1, next)
             /\ pos' = next
             /\ pc' = "read"
  /\ UNCHANGED <<mode, file, kernel, host, scrambler, loaded>>

Start == starts[pos - (1 + Len(mem) \div Sector) * Sector]

(* Only of what was signed the signature is right.                         *)
CheckPart ==
  /\ pc = "read"
  /\ pc' = IF Hash(SubSeq(mem, 1, Start.size)) = Start.digest
           THEN "checked" ELSE "refused"
  /\ UNCHANGED <<mode, file, kernel, host, scrambler, loader>>

(* The two passes back; of a kernel the next part follows.                 *)
Decrypt_buffer ==
  /\ pc = "checked"
  /\ IF Touched(Start.size) > Len(mem)
     THEN pc' = "wild" /\ UNCHANGED <<mem, loaded, scrambler>>
     ELSE /\ LET m == blowfish_decrypt_memory(mode, mem, Start.size)
             IN /\ mem' = Ginv(Reset(scrambler), m, Start.size)
                /\ scrambler' = Behind(Reset(scrambler), m, Start.size)
          /\ loaded' = Append(loaded, SubSeq(mem', 1, Start.size))
          /\ pc' = IF kernel /\ loaded = <<>> THEN "stored" ELSE "loaded"
  /\ UNCHANGED <<mode, file, kernel, host, pos>>

Next ==
  \/ Detect \/ RawFile \/ RealModeKernel \/ ProtectedModeKernel
  \/ Encrypt_buffer \/ SignBuffer \/ WritePart \/ Store
  \/ ReadPart \/ CheckPart \/ Decrypt_buffer

Spec == Init /\ [][Next]_vars

-----------------------------------------------------------------------------
TypeOK ==
  /\ pc \in {"input", "raw", "header", "second", "process", "sign", "write",
             "written", "failed", "stored", "read", "checked", "loaded", "refused",
             "wild"}
  /\ mode \in Modes /\ file \in Inputs /\ kernel \in BOOLEAN
  /\ {buffer, digest, out, mem} \subseteq Seq(Byte) /\ loaded \in Seq(Seq(Byte))
  /\ scrambler \in Scrambler
  /\ {size, pos} \subseteq Nat /\ DOMAIN starts \subseteq Nat

(* The loops of crypt.c have an end of their own reckoning; whatever the   *)
(* size, they stay within what mkimg allocated and what the loader read,   *)
(* and all is of its type.                                                 *)
WithinBuffers ==
  /\ TypeOK
  /\ pc = "process" => Touched(size) <= Len(buffer)
  /\ pc = "checked" => Touched(Start.size) <= Len(mem)

(* No block is cut by the end of a part: a kernel's parts are of whole     *)
(* sectors, and of other data a few bytes too few to count are left as     *)
(* they are.                                                               *)
Whole == \A at \in DOMAIN starts : Touched(starts[at].size) <= starts[at].size

(* In every mode, what mkimg packed without an error is never refused, and *)
(* what the loader makes of it is the file, a kernel filled up to whole    *)
(* sectors, whatever it loaded before; but not if the end of the file cuts *)
(* a block.                                                                *)
RoundTrip ==
  LET wanted == file \o (IF kernel THEN Filled((-Len(file)) % Sector, Fill) ELSE <<>>)
  IN /\ pc # "refused"
     /\ pc = "loaded" /\ Whole => FlattenSeq(loaded) = wanted

(* What mkimg signs is the SHA-1 of the part as it lies in the image: the  *)
(* padding fits in the last block or takes one more, the length in bits is *)
(* counted over two words, and the ring of sixteen words and the registers *)
(* that stay where they are come to the same as the schedule of eighty.    *)
HashRight == pc = "write" => digest = Standard(SubSeq(buffer, 1, size))

=============================================================================
