-------------------------------- MODULE Ata ---------------------------------
(***************************************************************************)
(* The block stream of drivers/ata_driver.c: opening it on a drive that    *)
(* identifies itself, and transfers in either direction.  A transfer is    *)
(* cut into commands of at most 0xff sectors (ata_io); each command is a   *)
(* conversation with the drive, which may report an error instead of or    *)
(* after any sector (ata_read_sectors_internal, ata_write_...).            *)
(*                                                                         *)
(* The widths are parameters: Full stands for 0xff, ByteMod for 2^8,       *)
(* WordMod for 2^16 and Reach for the 2^28 sectors that a command can      *)
(* address.  A transfer is known by the pairs of places in the buffer and  *)
(* on the disk between which its sectors have moved.                       *)
(***************************************************************************)
EXTENDS Integers

CONSTANTS
  Full,      (* sectors of a command, at most: 0xff                        *)
  ByteMod,   (* a byte_t is a number below ByteMod                         *)
  WordMod,   (* a word_t is a number below WordMod                         *)
  Reach,     (* an address in a command is a number below Reach            *)
  Sectors,   (* of the disk                                                *)
  Positions, (* where streams are opened and positioned: dword_t           *)
  Counts,    (* the sector counts that callers ask for: dword_t            *)
  MaxAddr    (* bound: transfers begin at addresses up to this one         *)

ASSUME AtaAssumption ==
  /\ Full \in Nat \ {0} /\ ByteMod = Full + 1
  /\ WordMod \in Nat /\ WordMod >= ByteMod
  /\ Sectors \in Nat /\ Reach \in Nat \ {0} /\ Sectors <= Reach
  /\ Positions \subseteq Nat /\ Counts \subseteq Nat /\ MaxAddr \in Nat

VARIABLES
  pc,
  medium,    (* what answers on the bus                                    *)
  caddr,     (* the stream's position on the disk                          *)
  op,        (* the transfer under way: its direction,                     *)
  size,      (* the sectors asked for,                                     *)
  addr,      (* and where it began                                         *)
  i,         (* ata_io: sectors dealt with                                 *)
  want,      (* of the command under way: how many sectors,                *)
  got,       (* and how many it has got                                    *)
  pair,      (* sector of the caller's buffer -> sector of the disk        *)
  ret,       (* what the last transfer returned                            *)
  drive,     (* sectors the drive holds ready or waits for, and the        *)
             (* address of the next                                        *)
  cached,    (* of its sectors, those a drive took but may yet forget      *)
  failed     (* has the drive reported an error during this transfer?      *)

call == <<medium, caddr, op, size, addr, ret>>
vars == <<pc, call, i, want, got, pair, drive, cached, failed>>

Old == -1
Junk == -2
Index == 0 .. WordMod - 1
Idle == [left |-> 0, at |-> 0]

(* A disk; a device that only knows packets, and aborts these commands; a  *)
(* second drive that is not there, for which the first one answers with a  *)
(* status of 0; or an empty bus, where every bit reads 1.                  *)
Media == {"disk", "packet", "absent", "empty"}

(* byte_t count = sectors / 0xff, byte_t finish = sectors % 0xff           *)
Count == (size \div Full) % ByteMod
Finish == size % Full

More == i < Count * Full

-----------------------------------------------------------------------------
Init ==
  /\ pc = "closed"
  /\ medium = "empty"
  /\ caddr = 0
  /\ op = "read"
  /\ size = 0 /\ addr = 0 /\ i = 0 /\ want = 0 /\ got = 0 /\ ret = 0
  /\ pair = [k \in Index |-> Old]
  /\ drive = Idle
  /\ cached = 0
  /\ failed = FALSE

(* ata_identify_device: ERR on an empty bus is ATADEV_NONE; any other type *)
(* is good enough to open.  Only a disk holds data then, one sector, which *)
(* is read word by word until nothing is left.  An open that fails, for    *)
(* this or for want of memory, changes nothing.                            *)
Open(a) ==
  /\ pc = "closed"
  /\ medium' \in Media \ {"empty"}
  /\ pc' = "idle"
  /\ caddr' = a /\ addr' = a
  /\ size' = 0 /\ ret' = 0
  /\ pair' = [k \in Index |-> Old]
  /\ drive' = Idle /\ cached' = 0
  /\ UNCHANGED <<op, i, want, got, failed>>

(* ata_blk_stream_close                                                    *)
Close ==
  /\ pc = "idle"
  /\ pc' = "closed"
  /\ UNCHANGED <<call, i, want, got, pair, drive, cached, failed>>

(* blk_read, blk_write: the count becomes a word_t on the way.             *)
Begin(n, o) ==
  /\ pc = "idle"
  /\ caddr <= MaxAddr
  /\ op' = o
  /\ size' = n % WordMod
  /\ addr' = caddr
  /\ i' = 0 /\ want' = 0 /\ got' = 0
  /\ pair' = [k \in Index |-> Old]
  /\ failed' = FALSE
  /\ cached' = 0
  /\ pc' = "command"
  /\ UNCHANGED <<medium, caddr, ret, drive>>

(* blk_seek                                                                *)
Seek(a) ==
  /\ pc = "idle"
  /\ caddr' = a
  /\ UNCHANGED <<pc, medium, op, size, addr, ret, i, want, got, pair, drive, cached, failed>>

Error ==
  /\ drive' = Idle
  /\ pc' = "end"
  /\ failed' = TRUE

(* When all sectors are through: a write ends with a command of its own.   *)
Through == IF op = "write" THEN "flush" ELSE "end"

(* The drive is told the address, of which the command has 28 bits, and    *)
(* the number of sectors, and what it held before is gone.  To a drive the *)
(* number 0 means 2^8 sectors.                                             *)
Command ==
  /\ pc = "command"
  /\ want' = IF More THEN Full ELSE Finish
  /\ got' = 0
  /\ \/ /\ drive' = [left |-> IF medium = "absent" THEN 0
                              ELSE IF want' = 0 THEN ByteMod ELSE want',
                     at |-> (addr + i) % Reach]
        /\ medium = "disk" => drive'.at < Sectors
        /\ medium # "packet"
        /\ pc' = IF want' = 0 THEN Through ELSE "sector"
        /\ failed' = failed
     \/ medium # "absent" /\ Error
  /\ UNCHANGED <<call, i, pair, cached>>

(* Mutant: the sector's place is counted from the beginning of the buffer. *)
MutPlace == got

(* buffer + DISK_SECTOR_SIZE * i, then i * DISK_SECTOR_SIZE                *)
Place == i + got

(* Mutant: the command stops a sector early.                               *)
MutAll(n) == n + 1 >= want

All(n) == n = want

(* 256 words through the data port; then the status: an error ends the     *)
(* command, and the sector moved before it is not counted.                 *)
Sector ==
  /\ pc = "sector"
  /\ pair' = [pair EXCEPT ![Place] = IF medium = "absent" THEN Junk ELSE drive.at]
  /\ \/ /\ got' = got + 1
        /\ \/ /\ medium = "disk"
              /\ drive' = [left |-> drive.left - 1, at |-> drive.at + 1]
              /\ got' # want => drive'.at < Sectors
              /\ cached' = IF op = "write" THEN cached + 1 ELSE cached
           \/ medium = "absent" /\ UNCHANGED <<drive, cached>>
        /\ pc' = IF All(got') THEN Through ELSE "sector"
        /\ failed' = failed
     \/ /\ medium = "disk"
        /\ Error
        /\ UNCHANGED <<got, cached>>
  /\ UNCHANGED <<call, i, want>>

(* ATA_CMD_FLUSH, which also ends whatever the drive was waiting for.  If  *)
(* it fails, the number of sectors is returned all the same.               *)
Flush ==
  /\ pc = "flush"
  /\ pc' = "end"
  /\ drive' = Idle
  /\ \/ cached' = 0 /\ failed' = failed
     \/ medium = "disk" /\ cached' = cached /\ failed' = TRUE
  /\ UNCHANGED <<call, i, want, got, pair>>

(* A full command that got nothing ends ata_io's loop; one that got some   *)
(* of its sectors counts as if it had got them all.                        *)
GaveUp == More /\ got = 0

(* Mutant: a command that got nothing may be issued again.                 *)
MutNextCommand ==
  /\ pc = "end"
  /\ More
  /\ i' = IF got = 0 THEN i ELSE i + Full
  /\ pc' = "command"
  /\ UNCHANGED <<call, want, got, pair, drive, cached, failed>>

NextCommand ==
  /\ pc = "end"
  /\ More /\ ~GaveUp
  /\ i' = i + Full
  /\ pc' = "command"
  /\ UNCHANGED <<call, want, got, pair, drive, cached, failed>>

(* Mutant: the last, partial command is not counted.                       *)
MutReturned == i

Returned == IF More THEN i ELSE i + got

Return ==
  /\ pc = "end"
  /\ GaveUp \/ ~More
  /\ ret' = Returned
  /\ caddr' = caddr + ret'
  /\ pc' = "idle"
  /\ UNCHANGED <<medium, op, size, addr, i, want, got, pair, drive, cached, failed>>

Next ==
  \/ \E a \in Positions : Open(a) \/ Seek(a)
  \/ \E n \in Counts, o \in {"read", "write"} : Begin(n, o)
  \/ Command
  \/ Sector
  \/ Flush
  \/ NextCommand
  \/ Return
  \/ Close

(* The drive answers every command, with data or with an error.            *)
Answer == Command \/ Sector \/ Flush \/ NextCommand \/ Return

Spec == Init /\ [][Next]_vars /\ WF_vars(Answer)

-----------------------------------------------------------------------------
(* Whatever commands a transfer is cut into and wherever the drive fails,  *)
(* the driver is a block stream: a sector only ever moves between its own  *)
(* places, once, nothing behind what was asked for is touched, and the     *)
(* position goes on behind what was returned.                              *)
StreamView == INSTANCE BlockStream WITH
  busy <- pc \notin {"closed", "idle"},
  present <- medium # "absent",
  pos <- caddr,
  base <- addr,
  asked <- size

Refinement == StreamView!Spec

TypeOK ==
  /\ pc \in {"closed", "idle", "command", "sector", "flush", "end"}
  /\ medium \in Media /\ op \in {"read", "write"}
  /\ caddr \in Nat /\ addr \in Nat
  /\ size \in Index /\ ret \in Index
  /\ i \in 0 .. (ByteMod - 1) * Full
  /\ want \in 0 .. Full /\ got \in 0 .. want
  /\ pair \in [Index -> {Old, Junk} \cup 0 .. Reach - 1]
  /\ drive \in [left : 0 .. ByteMod, at : Nat]
  /\ cached \in Nat /\ failed \in BOOLEAN

(* A transfer during which the drive reported no error returns all it was  *)
(* asked for, all of it moved to or from the sectors asked for and, when   *)
(* written, nothing of it left in the drive's cache - as long as the       *)
(* number of full commands fits its byte_t, the drive is there, and the    *)
(* last address fits the 28 bits of a command.                             *)
Complete ==
  pc = "idle" /\ medium = "disk" /\ ~failed
  /\ size < Full * ByteMod /\ addr + size <= Reach =>
    /\ ret = size
    /\ \A k \in 0 .. size - 1 : pair[k] = addr + k
    /\ cached = 0

(* Between two transfers the drive holds no data nobody asked for, unless  *)
(* it was read and the number of sectors was a multiple of 0xff: then the  *)
(* last command asked for 0 sectors, which to the drive are 2^8.  (And all *)
(* is of its type.)                                                        *)
NoDataLeft ==
  /\ TypeOK
  /\ pc = "idle" /\ (op = "write" \/ size % Full # 0) => drive.left = 0

(* Every transfer returns.                                                 *)
ReadsEnd == []<>(pc \in {"closed", "idle"})

=============================================================================
