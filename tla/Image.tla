-------------------------------- MODULE Image -------------------------------
(***************************************************************************)
(* Loading signed images and booting the kernel: the commands kernelload,  *)
(* load and boot of main/main.c, image_load_sig and image_boot of          *)
(* linux/image.c, and load_simg of main/simg.c.                            *)
(*                                                                         *)
(* A stored image is a row of parts, each a start block (size, signature)  *)
(* followed by the enciphered data the signature covers.  A kernel has two *)
(* parts: the real mode code and the protected mode code.  One step is one *)
(* call that may fail: opening the drive, reading the start block, reading *)
(* the data, checking the signature.  The drive may fail any read, and     *)
(* load_simg does not look at how many sectors of data it got.             *)
(***************************************************************************)
EXTENDS Integers, Sequences, FiniteSets

CONSTANTS
  Disk,        (* the stored parts, one after the other: signed, size and  *)
               (* (of a real mode part) the boot protocol version          *)
  Entry,       (* IMAGE_0 ... of the environment: type and first part      *)
  LoadAreas,   (* where load is told to put its data                       *)
  HeapBlocks,  (* how many buffers the heap has room for                   *)
  HasAppend    (* is APPEND, the kernel's command line, set?               *)

Areas == {"real", "kernel", "other"}
(* of the Linux boot protocol, those image_boot tells apart *)
Versions == {256, 512, 513, 514}
PartType == [signed : BOOLEAN, size : Nat \ {0}, version : Versions]
EntryType == [type : {"S", "R", "malformed", "unset"}, lba : 1 .. Len(Disk)]

(* A part has data: what mkimg makes of an empty file is left out.         *)
ASSUME ImageAssumption ==
  /\ Disk \in Seq(PartType) /\ Disk # <<>>
  /\ \A i \in DOMAIN Entry : Entry[i] \in EntryType
  /\ LoadAreas \subseteq Areas
  /\ HeapBlocks \in Nat
  /\ HasAppend \in BOOLEAN

VARIABLES
  pc,            (* what the loader does next                              *)
  job,           (* the command under way, its image, the area it writes   *)
  pos,           (* the part the stream is at: caddr                       *)
  mem,           (* what each area holds                                   *)
  end,           (* simg_end_address, less KERNEL_CODE_ADDRESS             *)
  overwritten,   (* has load written the kernel's areas since kernelload?  *)
  held,          (* the buffers allocated, by what they are for            *)
  room,          (* the buffers the heap can still provide                 *)
  cmdline        (* where the kernel finds its command line, 0 for nowhere *)

heap == <<held, room>>
vars == <<pc, job, pos, mem, end, overwritten, held, room, cmdline>>

Buffers == {"env_s", "stream", "ctx", "start_block", "dsa_r", "dsa_s", "bch_sha2"}
Content == [part : Nat, form : {"unknown", "partial", "cipher", "plain"}]
Job == [op : {"none", "kernelload", "load"}, entry : EntryType, area : Areas]
Steps == {"prompt", "open", "start", "data", "check", "loaded", "failed",
          "kernel", "wild"}

(* Behind the last part the disk holds nothing that was signed.            *)
Signed(p) == p \in DOMAIN Disk /\ Disk[p].signed
Size(p) == IF p \in DOMAIN Disk THEN Disk[p].size ELSE 1

NoJob == [op |-> "none", entry |-> [type |-> "unset", lba |-> 1], area |-> "other"]

-----------------------------------------------------------------------------

Init ==
  /\ pc = "prompt"
  /\ job = NoJob
  /\ pos = 0
  /\ mem = [a \in Areas |-> [part |-> 0, form |-> "unknown"]]
  /\ end = 0
  /\ overwritten = FALSE
  /\ held = [b \in Buffers |-> 0]
  /\ room = HeapBlocks
  /\ cmdline = 0

(* A buffer is allocated, or freed, for each purpose in B.                 *)
Take(B) ==
  /\ held' = [b \in Buffers |-> held[b] + (IF b \in B THEN 1 ELSE 0)]
  /\ room' = room - Cardinality(B)

Give(B) ==
  /\ held' = [b \in Buffers |-> held[b] - (IF b \in B THEN 1 ELSE 0)]
  /\ room' = room + Cardinality(B)

(* malloc returned NULL and the code writes through it all the same.       *)
Wild == pc' = "wild" /\ UNCHANGED <<job, pos, mem, end, overwritten, heap, cmdline>>

(***************************************************************************)
(* The commands.  Both parse a copy of the image's variable (strdup); of a *)
(* variable that is not set, env_get gives NULL and the copy is whatever   *)
(* the memory at address 0 spells.                                         *)
(***************************************************************************)
CopyOf(i) ==
  IF Entry[i].type = "unset"
  THEN [type : {"S", "R", "malformed"}, lba : 1 .. Len(Disk)]
  ELSE {Entry[i]}

Command(op, i, area) ==
  /\ pc = "prompt"
  /\ IF room = 0
     THEN Wild
     ELSE /\ Take({"env_s"})
          /\ pc' = "open"
          /\ \E e \in CopyOf(i) : job' = [op |-> op, entry |-> e, area |-> area]
          /\ UNCHANGED <<pos, mem, end, overwritten, cmdline>>

(* load without an address keeps the copy.                                 *)
LoadNoAddress ==
  /\ pc = "prompt"
  /\ room > 0
  /\ Take({"env_s"})
  /\ UNCHANGED <<pc, job, pos, mem, end, overwritten, cmdline>>

(* The variable is malformed, or the drive does not answer, or there is no *)
(* memory for the stream (what was allocated of it is freed).              *)
GiveUp ==
  /\ pc = "open"
  /\ Give({"env_s"})
  /\ pc' = "prompt"
  /\ job' = NoJob
  /\ UNCHANGED <<pos, mem, end, overwritten, cmdline>>

(* Mutant: kernelload leaves simg_end_address alone until it is done.      *)
MutOpen ==
  /\ pc = "open"
  /\ job.entry.type # "malformed"
  /\ room >= 2
  /\ Take({"stream", "ctx"})
  /\ pos' = job.entry.lba
  /\ pc' = IF job.entry.type = "R" THEN "failed" ELSE "start"
  /\ overwritten' = (overwritten /\ job.op # "kernelload")
  /\ UNCHANGED <<job, mem, end, cmdline>>

(* ata_blk_stream_open, then image_load_sig or load_simg.  RAW images are  *)
(* not configured: the stream is closed again at once.                     *)
Open ==
  /\ pc = "open"
  /\ job.entry.type # "malformed"
  /\ room >= 2
  /\ Take({"stream", "ctx"})
  /\ pos' = job.entry.lba
  /\ pc' = IF job.entry.type = "R" THEN "failed" ELSE "start"
  /\ IF job.op = "kernelload" /\ job.entry.type = "S"
     THEN end' = 0 /\ overwritten' = FALSE
     ELSE UNCHANGED <<end, overwritten>>
  /\ UNCHANGED <<job, mem, cmdline>>

(***************************************************************************)
(* load_simg.                                                              *)
(***************************************************************************)
ReadStart ==
  /\ pc = "start"
  /\ \/ /\ room > 0
        /\ Take({"start_block"})
        /\ pc' = "data"
     \/ /\ pc' = "failed"              (* no memory, or the read failed    *)
        /\ UNCHANGED heap
  /\ UNCHANGED <<job, pos, mem, end, overwritten, cmdline>>

(* dsa_alloc is not checked.  All the data is read, or some of it.         *)
ReadData ==
  /\ pc = "data"
  /\ IF room < 2
     THEN Wild
     ELSE /\ Take({"dsa_r", "dsa_s"})
          /\ \E form \in {"cipher", "partial"} :
               mem' = [mem EXCEPT ![job.area] = [part |-> pos, form |-> form]]
          /\ overwritten' = (overwritten \/ (job.op = "load" /\ job.area # "other"))
          /\ pc' = "check"
          /\ UNCHANGED <<job, pos, end, cmdline>>

(* Mutant: the signature is not looked at.                                 *)
MutMatches == mem[job.area].form = "cipher"

(* The digest of what lies in memory against the signature.                *)
Matches == mem[job.area].form = "cipher" /\ Signed(pos)

Accept ==
  /\ pc = "check"
  /\ room > 0
  /\ Matches
  /\ mem' = [mem EXCEPT ![job.area].form = "plain"]
  /\ Give({"dsa_r", "dsa_s", "start_block"})
  /\ pos' = pos + 1
  /\ pc' = "loaded"
  /\ UNCHANGED <<job, end, overwritten, cmdline>>

(* Mutant: nothing is freed when the signature is wrong.                   *)
MutReject ==
  /\ pc = "check"
  /\ room > 0
  /\ ~Matches
  /\ Take({"bch_sha2"})
  /\ pc' = "failed"
  /\ UNCHANGED <<job, pos, mem, end, overwritten, cmdline>>

(* Wrong digital signature: only the start block is freed.                 *)
Reject ==
  /\ pc = "check"
  /\ room > 0
  /\ ~Matches
  /\ held' = [held EXCEPT !["start_block"] = @ - 1, !["bch_sha2"] = @ + 1]
  /\ pc' = "failed"
  /\ UNCHANGED <<job, pos, mem, end, overwritten, room, cmdline>>

NoDigest == pc = "check" /\ room = 0 /\ Wild

(***************************************************************************)
(* Back in the command.                                                    *)
(***************************************************************************)
(* Mutant: the stream's context is freed twice.                            *)
MutCloseAndFree ==
  /\ held' = [b \in Buffers |->
                held[b] - (CASE b = "ctx" -> 2 [] b \in {"stream", "env_s"} -> 1
                             [] OTHER -> 0)]
  /\ room' = room + 3
  /\ pc' = "prompt"
  /\ job' = NoJob
  /\ pos' = 0

CloseAndFree ==
  /\ Give({"stream", "ctx", "env_s"})
  /\ pc' = "prompt"
  /\ job' = NoJob
  /\ pos' = 0

RealLoaded ==
  /\ pc = "loaded"
  /\ job.op = "kernelload"
  /\ job.area = "real"
  /\ job' = [job EXCEPT !.area = "kernel"]
  /\ pc' = "start"
  /\ UNCHANGED <<pos, mem, end, overwritten, heap, cmdline>>

KernelLoaded ==
  /\ pc = "loaded"
  /\ job.op = "kernelload"
  /\ job.area = "kernel"
  /\ end' = Size(mem["kernel"].part)
  /\ CloseAndFree
  /\ UNCHANGED <<mem, overwritten, cmdline>>

DataLoaded ==
  /\ pc = "loaded"
  /\ job.op = "load"
  /\ CloseAndFree
  /\ UNCHANGED <<mem, end, overwritten, cmdline>>

(* Mutant: a load that fails is tried again.                               *)
MutLoadFailed ==
  /\ pc = "failed"
  /\ pc' = "start"
  /\ UNCHANGED <<job, pos, mem, end, overwritten, heap, cmdline>>

LoadFailed ==
  /\ pc = "failed"
  /\ CloseAndFree
  /\ UNCHANGED <<mem, end, overwritten, cmdline>>

(***************************************************************************)
(* image_boot: the header is read from the real mode area as it is.        *)
(***************************************************************************)
HeaderVersions ==
  IF mem["real"].form = "plain" /\ mem["real"].part \in DOMAIN Disk
  THEN {Disk[mem["real"].part].version}
  ELSE Versions

(* Mutant: boot does not ask whether an image is loaded.                   *)
MutBootable(v) == v >= 512

Bootable(v) == end # 0 /\ v >= 512

(* APPEND is copied to where the protected part ends (protocol 2.02 on).   *)
Boot ==
  /\ pc = "prompt"
  /\ \E v \in HeaderVersions :
       /\ Bootable(v)
       /\ cmdline' = IF HasAppend /\ v >= 514 THEN end ELSE 0
  /\ pc' = "kernel"
  /\ UNCHANGED <<job, pos, mem, end, overwritten, heap>>

Next ==
  \/ \E i \in DOMAIN Entry : Command("kernelload", i, "real")
  \/ \E i \in DOMAIN Entry, area \in LoadAreas : Command("load", i, area)
  \/ LoadNoAddress
  \/ GiveUp
  \/ Open
  \/ ReadStart
  \/ ReadData
  \/ Accept
  \/ Reject
  \/ NoDigest
  \/ RealLoaded
  \/ KernelLoaded
  \/ DataLoaded
  \/ LoadFailed
  \/ Boot

(* Nothing preempts a command: it goes on by itself to its end.            *)
Work ==
  \/ GiveUp \/ Open \/ ReadStart \/ ReadData \/ Accept \/ Reject \/ NoDigest
  \/ RealLoaded \/ KernelLoaded \/ DataLoaded \/ LoadFailed

Spec == Init /\ [][Next]_vars /\ WF_vars(Work)

-----------------------------------------------------------------------------
TypeOK ==
  /\ pc \in Steps
  /\ job \in Job
  /\ pos \in Nat
  /\ mem \in [Areas -> Content]
  /\ end \in Nat
  /\ overwritten \in BOOLEAN
  /\ held \in [Buffers -> Nat]
  /\ room \in 0 .. HeapBlocks
  /\ cmdline \in Nat

(* simg_end_address vouches for the kernel: while it is set and load was   *)
(* not told to write the kernel's areas, both areas hold the deciphered    *)
(* data of two signed parts of one image, the protected part ends where    *)
(* simg_end_address says, and the two come from the last kernelload.  It   *)
(* takes the reset at its start, the order of the two loads, and a failing *)
(* read at any point to get this wrong.                                    *)
Vouched(a) ==
  /\ mem[a].form = "plain"
  /\ Signed(mem[a].part)

FlagVouches ==
  end # 0 /\ ~overwritten =>
    /\ Vouched("real")
    /\ Vouched("kernel")
    /\ mem["kernel"].part = mem["real"].part + 1
    /\ end = Size(mem["kernel"].part)

(* The kernel is only entered on an image that is there and vouched for,   *)
(* its command line right behind it and only where the kernel looks for it.*)
BootOnlyVouched ==
  pc = "kernel" /\ ~overwritten =>
    /\ Vouched("real")
    /\ Vouched("kernel")
    /\ cmdline \in {0, Size(mem["kernel"].part)}
    /\ cmdline # 0 => Disk[mem["real"].part].version >= 514

(* Only data whose signature matched is ever deciphered: what a failed     *)
(* load leaves in memory stays enciphered.                                 *)
PlainIsSigned == \A a \in Areas : mem[a].form = "plain" => Signed(mem[a].part)

(* Whichever way a command ends, its stream is closed and its start block  *)
(* is freed: at the prompt nothing of them is held.                        *)
StreamsClosed ==
  pc \in {"prompt", "kernel"} =>
    \A b \in {"stream", "ctx", "start_block"} : held[b] = 0

(* Every command comes to its end: the loader is always again at the       *)
(* prompt, unless it booted or ran out of memory.                          *)
CommandsEnd == []<>(pc \in {"prompt", "kernel", "wild"})

=============================================================================
