---------------------------- MODULE ImageProofs -----------------------------
(***************************************************************************)
(* What the loader may boot, for every disk, environment and heap.         *)
(*                                                                         *)
(* Two inductive invariants: Custody follows the image from the disk to    *)
(* the kernel's areas, Accounts the buffers a command holds.               *)
(***************************************************************************)
EXTENDS Image, FiniteSetTheorems, TLAPS

Working == {"start", "data", "check", "loaded"}

TypeInv ==
  /\ pc \in Steps
  /\ job \in Job
  /\ pos \in Nat
  /\ mem \in [Areas -> Content]
  /\ end \in Nat
  /\ overwritten \in BOOLEAN
  /\ cmdline \in Nat

(* kernelload has reset the flags, and its first part is in place and      *)
(* vouched for while the second one is under way.                          *)
KernelUnderWay ==
  pc \in Working /\ job.op = "kernelload" =>
    /\ end = 0
    /\ ~overwritten
    /\ job.area \in {"real", "kernel"}
    /\ job.area = "kernel" => Vouched("real")
    /\ job.area = "kernel" /\ pc # "loaded" => mem["real"].part + 1 = pos
    /\ job.area = "kernel" /\ pc = "loaded" => mem["real"].part + 2 = pos

PartUnderWay ==
  /\ pc = "check" => mem[job.area].part = pos
  /\ pc = "loaded" => Vouched(job.area) /\ mem[job.area].part + 1 = pos

LoadIsNoted ==
  pc \in {"check", "loaded"} /\ job.op = "load" /\ job.area # "other" => overwritten

JobUnderWay ==
  /\ pc \in Working \cup {"open"} => job.op \in {"kernelload", "load"}
  /\ pc = "open" => job.entry.type # "unset"
  /\ pc = "open" /\ job.op = "kernelload" => job.area = "real"

Custody ==
  /\ TypeInv
  /\ JobUnderWay
  /\ KernelUnderWay
  /\ PartUnderWay
  /\ LoadIsNoted
  /\ FlagVouches
  /\ PlainIsSigned
  /\ BootOnlyVouched

-----------------------------------------------------------------------------
(* What a command holds at each of its steps.                              *)
Held ==
  held["env_s"] + held["stream"] + held["ctx"] + held["start_block"]
    + held["dsa_r"] + held["dsa_s"] + held["bch_sha2"]

HoldsAt ==
  pc # "wild" =>
    /\ held["stream"] = IF pc \in Working \cup {"failed"} THEN 1 ELSE 0
    /\ held["ctx"] = IF pc \in Working \cup {"failed"} THEN 1 ELSE 0
    /\ held["start_block"] = IF pc \in {"data", "check"} THEN 1 ELSE 0
    /\ pc \in Working \cup {"open", "failed"} => held["env_s"] >= 1
    /\ pc = "check" => held["dsa_r"] >= 1 /\ held["dsa_s"] >= 1

Accounts ==
  /\ pc \in Steps
  /\ held \in [Buffers -> Nat]
  /\ room \in Nat
  /\ Held + room = HeapBlocks
  /\ HoldsAt

-----------------------------------------------------------------------------
LEMMA Sizes ==
  /\ Cardinality({"env_s"}) = 1
  /\ Cardinality({"start_block"}) = 1
  /\ Cardinality({"stream", "ctx"}) = 2
  /\ Cardinality({"dsa_r", "dsa_s"}) = 2
  /\ Cardinality({"dsa_r", "dsa_s", "start_block"}) = 3
  /\ Cardinality({"stream", "ctx", "env_s"}) = 3
<1>1. ASSUME NEW a
      PROVE  IsFiniteSet({a}) /\ Cardinality({a}) = 1
  BY FS_Singleton
<1>2. ASSUME NEW a, NEW b, a # b
      PROVE  IsFiniteSet({a, b}) /\ Cardinality({a, b}) = 2
  <2>1. {a, b} = {a} \cup {b} /\ b \notin {a}
    BY <1>2
  <2>2. IsFiniteSet({a}) /\ Cardinality({a}) = 1
    BY <1>1
  <2> QED
    BY <2>1, <2>2, FS_AddElement
<1>3. ASSUME NEW a, NEW b, NEW c, a # b, a # c, b # c
      PROVE  Cardinality({a, b, c}) = 3
  <2>1. {a, b, c} = {a, b} \cup {c} /\ c \notin {a, b}
    BY <1>3
  <2>2. IsFiniteSet({a, b}) /\ Cardinality({a, b}) = 2
    BY <1>2, <1>3
  <2> QED
    BY <2>1, <2>2, FS_AddElement
<1>4. /\ Cardinality({"env_s"}) = 1
      /\ Cardinality({"start_block"}) = 1
  BY <1>1
<1>5. /\ Cardinality({"stream", "ctx"}) = 2
      /\ Cardinality({"dsa_r", "dsa_s"}) = 2
  BY <1>2
<1>6. /\ Cardinality({"dsa_r", "dsa_s", "start_block"}) = 3
      /\ Cardinality({"stream", "ctx", "env_s"}) = 3
  BY <1>3
<1> QED
  BY <1>4, <1>5, <1>6

(* One more buffer for each purpose in B, the others as before.            *)
LEMMA TakeHeld ==
  ASSUME held \in [Buffers -> Nat], NEW B \in SUBSET Buffers, Take(B)
  PROVE  /\ held' \in [Buffers -> Nat]
         /\ \A b \in Buffers : held'[b] = held[b] + (IF b \in B THEN 1 ELSE 0)
<1>1. \A b \in Buffers : held'[b] = held[b] + (IF b \in B THEN 1 ELSE 0)
  BY DEF Take
<1>2. \A b \in Buffers : held[b] + (IF b \in B THEN 1 ELSE 0) \in Nat
  OBVIOUS
<1> QED
  BY <1>1, <1>2 DEF Take

THEOREM AccountsInit == Init => Accounts
<1> SUFFICES ASSUME Init PROVE Accounts
  OBVIOUS
<1> USE ImageAssumption DEF Init
<1>1. held \in [Buffers -> Nat] /\ pc \in Steps /\ room \in Nat
  BY DEF Steps
<1>2. \A b \in Buffers : held[b] = 0
  OBVIOUS
<1>3. Held + room = HeapBlocks
  BY <1>2 DEF Held, Buffers
<1>4. HoldsAt
  BY <1>2 DEF HoldsAt, Buffers, Working
<1> QED
  BY <1>1, <1>3, <1>4 DEF Accounts

(* Every step of the loader keeps the books.                               *)
THEOREM AccountsStep == Accounts /\ [Next]_vars => Accounts'
<1> SUFFICES ASSUME Accounts, [Next]_vars PROVE Accounts'
  OBVIOUS
<1> USE Sizes DEF Accounts, HoldsAt, Held, Buffers, Working, Steps
<1>1. ASSUME NEW op, NEW i, NEW area, Command(op, i, area)
      PROVE  Accounts'
  BY <1>1 DEF Command, Wild, Take, heap
<1>2. CASE LoadNoAddress
  BY <1>2, SMTT(30) DEF LoadNoAddress, Take
<1>3. CASE GiveUp
  <2>1. /\ pc = "open" /\ pc' = "prompt"
        /\ held' = [b \in Buffers |-> held[b] - (IF b = "env_s" THEN 1 ELSE 0)]
        /\ room' = room + 1
    BY <1>3 DEF GiveUp, Give
  <2>2. held["env_s"] >= 1
    BY <2>1
  <2>3. held' \in [Buffers -> Nat]
    BY <2>1, <2>2
  <2> QED
    BY <2>1, <2>2, <2>3
<1>4. CASE Open
  <2>1. /\ pc = "open" /\ pc' \in {"failed", "start"}
        /\ room >= 2
        /\ room' = room - 2
    BY <1>4 DEF Open, Take
  <2>2. /\ held' \in [Buffers -> Nat]
        /\ \A b \in Buffers :
             held'[b] = held[b] + (IF b \in {"stream", "ctx"} THEN 1 ELSE 0)
    BY <1>4, TakeHeld DEF Open
  <2>3. /\ held'["stream"] = held["stream"] + 1 /\ held'["ctx"] = held["ctx"] + 1
        /\ \A b \in Buffers \ {"stream", "ctx"} : held'[b] = held[b]
    BY <2>2
  <2>4. HoldsAt'
    <3>1. /\ held["stream"] = 0 /\ held["ctx"] = 0 /\ held["start_block"] = 0
          /\ held["env_s"] >= 1
      BY <2>1
    <3>2. /\ held'["stream"] = 1 /\ held'["ctx"] = 1 /\ held'["start_block"] = 0
          /\ held'["env_s"] >= 1
      BY <2>3, <3>1
    <3> HIDE Sizes
    <3> QED
      BY <2>1, <3>2
  <2>5. (Held + room = HeapBlocks)' /\ room' \in Nat
    <3> HIDE DEF HoldsAt
    <3> QED
      BY <2>1, <2>2, <2>3
  <2> QED
    BY <2>1, <2>2, <2>4, <2>5
<1>5. CASE ReadStart
  BY <1>5 DEF ReadStart, Take, heap
<1>6. CASE ReadData
  BY <1>6 DEF ReadData, Take, Wild, heap
<1>7. CASE Accept
  BY <1>7 DEF Accept, Give
<1>8. CASE Reject
  BY <1>8 DEF Reject
<1>9. CASE NoDigest
  BY <1>9 DEF NoDigest, Wild, heap
<1>10. CASE RealLoaded
  BY <1>10 DEF RealLoaded, heap
<1>11. CASE KernelLoaded \/ DataLoaded \/ LoadFailed
  <2>1. /\ pc \in {"loaded", "failed"} /\ pc' = "prompt"
        /\ held' = [b \in Buffers |->
                      held[b] - (IF b \in {"stream", "ctx", "env_s"} THEN 1 ELSE 0)]
        /\ room' = room + 3
    BY <1>11 DEF KernelLoaded, DataLoaded, LoadFailed, CloseAndFree, Give
  <2>2. held["stream"] = 1 /\ held["ctx"] = 1 /\ held["env_s"] >= 1
    BY <2>1
  <2>3. /\ \A b \in {"stream", "ctx", "env_s"} : held'[b] = held[b] - 1
        /\ \A b \in Buffers \ {"stream", "ctx", "env_s"} : held'[b] = held[b]
    BY <2>1
  <2>4. held' \in [Buffers -> Nat]
    <3>1. /\ \A b \in Buffers : held[b] \in Nat /\ held'[b] \in Nat
          /\ held' = [b \in Buffers |-> held'[b]]
      BY <2>1, <2>2, <2>3, SMTT(30)
    <3> QED
      BY <3>1, SMTT(30)
  <2>5. HoldsAt'
    BY <2>1, <2>2, <2>3, <2>4
  <2>6. (Held + room = HeapBlocks)' /\ room' \in Nat
    <3> HIDE DEF HoldsAt
    <3> QED
      BY <2>1, <2>3, <2>4
  <2> QED
    BY <2>1, <2>4, <2>5, <2>6
<1>12. CASE Boot
  BY <1>12 DEF Boot, heap
<1>13. CASE UNCHANGED vars
  BY <1>13 DEF vars, heap
<1> QED
  BY <1>1, <1>2, <1>3, <1>4, <1>5, <1>6, <1>7, <1>8, <1>9, <1>10, <1>11,
     <1>12, <1>13 DEF Next

-----------------------------------------------------------------------------
LEMMA AreaUpdate ==
  ASSUME NEW M \in [Areas -> Content], NEW a \in Areas, NEW c \in Content
  PROVE  /\ [M EXCEPT ![a] = c] \in [Areas -> Content]
         /\ [M EXCEPT ![a] = c][a] = c
         /\ \A b \in Areas \ {a} : [M EXCEPT ![a] = c][b] = M[b]
OBVIOUS

LEMMA EntryFacts ==
  /\ Len(Disk) \in Nat
  /\ Disk # <<>>
  /\ \A e \in EntryType : e.lba \in 1 .. Len(Disk)
  /\ \A p \in DOMAIN Disk : Disk[p] \in PartType
BY ImageAssumption DEF EntryType

LEMMA SizeType == \A p : Size(p) \in Nat \ {0}
BY EntryFacts DEF Size, PartType

THEOREM CustodyInit == Init => Custody
<1> SUFFICES ASSUME Init PROVE Custody
  OBVIOUS
<1>1. NoJob \in Job
  <2>1. 1 \in 1 .. Len(Disk)
    BY ImageAssumption
  <2> QED
    BY <2>1 DEF NoJob, Job, EntryType, Areas
<1>2. TypeInv
  BY <1>1 DEF TypeInv, Init, Steps, Content
<1>3. FlagVouches /\ PlainIsSigned /\ BootOnlyVouched
  BY DEF Init, FlagVouches, PlainIsSigned, BootOnlyVouched
<1>4. JobUnderWay /\ KernelUnderWay /\ PartUnderWay /\ LoadIsNoted
  BY DEF Init, JobUnderWay, KernelUnderWay, PartUnderWay, LoadIsNoted, Working
<1> QED
  BY <1>2, <1>3, <1>4 DEF Custody

(* While the areas and the flags are left alone, what is said of them      *)
(* stays.                                                                  *)
LEMMA Untouched ==
  ASSUME FlagVouches, PlainIsSigned, UNCHANGED <<mem, end, overwritten>>,
         pc' # "kernel"
  PROVE  FlagVouches' /\ PlainIsSigned' /\ BootOnlyVouched'
BY DEF FlagVouches, PlainIsSigned, BootOnlyVouched, Vouched

LEMMA CommandCustody ==
  ASSUME Custody, NEW i \in DOMAIN Entry, NEW area \in Areas,
         NEW op \in {"kernelload", "load"}, Command(op, i, area),
         op = "kernelload" => area = "real"
  PROVE  Custody'
<1>1. pc' \in {"open", "wild"} /\ UNCHANGED <<pos, mem, end, overwritten, cmdline>>
  BY DEF Command, Wild, heap
<1>2. \A e \in CopyOf(i) : e \in EntryType /\ e.type # "unset"
  BY ImageAssumption DEF CopyOf, EntryType
<1>3. job' \in Job
  BY <1>2 DEF Command, Wild, Job, Custody, TypeInv
<1>4. pc' = "open" => job'.op = op /\ job'.area = area /\ job'.entry.type # "unset"
  BY <1>2 DEF Command, Wild
<1> QED
  BY <1>1, <1>3, <1>4, Untouched
     DEF Custody, TypeInv, Steps, JobUnderWay, KernelUnderWay, PartUnderWay,
         LoadIsNoted, Working

LEMMA OpenCustody == Custody /\ Open => Custody'
<1> SUFFICES ASSUME Custody, Open PROVE Custody'
  OBVIOUS
<1> USE DEF Custody, TypeInv
<1>1. /\ pc = "open" /\ pc' \in {"failed", "start"}
      /\ pos' = job.entry.lba
      /\ UNCHANGED <<job, mem, cmdline>>
      /\ \/ end' = 0 /\ overwritten' = FALSE
         \/ UNCHANGED <<end, overwritten>>
  BY DEF Open
<1>2. pos' \in Nat
  <2>1. job.entry.lba \in 1 .. Len(Disk)
    BY EntryFacts DEF Job
  <2> QED
    BY <1>1, <2>1, EntryFacts
<1>3. TypeInv'
  <2>1. end' \in Nat
    BY <1>1
  <2>2. overwritten' \in BOOLEAN
    BY <1>1, Zenon
  <2> QED
    BY <1>1, <1>2, <2>1, <2>2 DEF Steps
<1>4. pc' = "start" /\ job'.op = "kernelload" =>
        end' = 0 /\ ~overwritten' /\ job'.area = "real"
  <2>1. job.entry.type \in {"S", "R", "malformed"}
    BY <1>1 DEF JobUnderWay, Job, EntryType
  <2> QED
    BY <1>1, <2>1 DEF Open, JobUnderWay
<1>5. JobUnderWay' /\ KernelUnderWay' /\ PartUnderWay' /\ LoadIsNoted'
  BY <1>1, <1>4 DEF JobUnderWay, KernelUnderWay, PartUnderWay, LoadIsNoted, Working
<1>6. FlagVouches' /\ PlainIsSigned' /\ BootOnlyVouched'
  BY <1>1 DEF FlagVouches, PlainIsSigned, BootOnlyVouched, Vouched
<1> QED
  BY <1>3, <1>5, <1>6

LEMMA ReadDataCustody == Custody /\ ReadData => Custody'
<1>a. CASE room < 2 /\ Custody /\ ReadData
  BY <1>a, Untouched
     DEF ReadData, Wild, heap, Custody, TypeInv, Steps, JobUnderWay,
         KernelUnderWay, PartUnderWay, LoadIsNoted, Working
<1> SUFFICES ASSUME Custody, ReadData, ~(room < 2) PROVE Custody'
  BY <1>a
<1> USE DEF Custody, TypeInv
<1> DEFINE a == job.area
<1>1. PICK form \in {"cipher", "partial"} :
        mem' = [mem EXCEPT ![a] = [part |-> pos, form |-> form]]
  BY DEF ReadData
<1>2. /\ pc = "data" /\ pc' = "check"
      /\ overwritten' = (overwritten \/ (job.op = "load" /\ a # "other"))
      /\ UNCHANGED <<job, pos, end, cmdline>>
  BY DEF ReadData
<1>3. a \in Areas
  BY DEF Job
<1>4. [part |-> pos, form |-> form] \in Content
  BY <1>1 DEF Content
<1>5. /\ mem' \in [Areas -> Content]
      /\ mem'[a] = [part |-> pos, form |-> form]
      /\ \A b \in Areas \ {a} : mem'[b] = mem[b]
  BY <1>1, <1>3, <1>4, AreaUpdate
<1>6. TypeInv' /\ JobUnderWay' /\ PartUnderWay'
  BY <1>2, <1>5 DEF Steps, JobUnderWay, PartUnderWay, Working
<1>7. LoadIsNoted'
  BY <1>2 DEF LoadIsNoted
<1>8. KernelUnderWay'
  BY <1>2, <1>5 DEF KernelUnderWay, Working, Vouched, Areas
<1>9. PlainIsSigned'
  BY <1>1, <1>3, <1>5 DEF PlainIsSigned
<1>10. FlagVouches'
  <2>1. CASE job.op = "kernelload"
    BY <1>2, <2>1 DEF KernelUnderWay, FlagVouches, Working
  <2>2. CASE job.op = "load"
    BY <1>2, <1>5, <2>2 DEF FlagVouches, Vouched, Areas
  <2> QED
    BY <1>2, <2>1, <2>2 DEF JobUnderWay, Working
<1> QED
  BY <1>2, <1>6, <1>7, <1>8, <1>9, <1>10 DEF BootOnlyVouched

LEMMA AcceptCustody == Custody /\ Accept => Custody'
<1> SUFFICES ASSUME Custody, Accept PROVE Custody'
  OBVIOUS
<1> USE DEF Custody, TypeInv
<1> DEFINE a == job.area
           c == [mem[a] EXCEPT !.form = "plain"]
<1>1. /\ pc = "check" /\ pc' = "loaded"
      /\ mem' = [mem EXCEPT ![a] = c]
      /\ Signed(pos)
      /\ pos' = pos + 1
      /\ UNCHANGED <<job, end, overwritten, cmdline>>
  BY DEF Accept, Matches
<1>2. a \in Areas /\ mem[a].part = pos
  BY <1>1 DEF Job, PartUnderWay
<1>3. c \in Content /\ c.part = pos /\ c.form = "plain"
  BY <1>2 DEF Content
<1>4. /\ mem' \in [Areas -> Content]
      /\ mem'[a] = c
      /\ \A b \in Areas \ {a} : mem'[b] = mem[b]
  <2> HIDE DEF c
  <2> QED
    BY <1>1, <1>2, <1>3, AreaUpdate
<1> HIDE DEF c
<1>5. TypeInv' /\ JobUnderWay' /\ LoadIsNoted'
  BY <1>1, <1>4 DEF Steps, JobUnderWay, LoadIsNoted, Working
<1>6. PartUnderWay'
  BY <1>1, <1>3, <1>4 DEF PartUnderWay, Vouched
<1>7. KernelUnderWay'
  <2> SUFFICES ASSUME job.op = "kernelload" PROVE KernelUnderWay'
    BY <1>1 DEF KernelUnderWay
  <2>1. /\ end = 0 /\ ~overwritten /\ a \in {"real", "kernel"}
        /\ a = "kernel" => Vouched("real") /\ mem["real"].part + 1 = pos
    BY <1>1 DEF KernelUnderWay, Working
  <2>2. a = "kernel" => mem'["real"] = mem["real"]
    BY <1>4 DEF Areas
  <2>3. a = "kernel" => mem["real"].part + 2 = pos + 1
    <3>1. mem["real"].part \in Nat
      BY DEF Areas, Content
    <3> QED
      BY <2>1, <3>1
  <2> QED
    BY <1>1, <2>1, <2>2, <2>3 DEF KernelUnderWay, Vouched
<1>8. PlainIsSigned'
  BY <1>1, <1>2, <1>3, <1>4 DEF PlainIsSigned
<1>9. FlagVouches'
  <2>1. CASE job.op = "kernelload"
    BY <1>1, <2>1 DEF KernelUnderWay, FlagVouches, Working
  <2>2. CASE job.op = "load"
    BY <1>1, <1>4, <2>2 DEF FlagVouches, Vouched, Areas, LoadIsNoted
  <2> QED
    BY <1>1, <2>1, <2>2 DEF JobUnderWay, Working
<1> QED
  BY <1>1, <1>5, <1>6, <1>7, <1>8, <1>9 DEF BootOnlyVouched

LEMMA RealLoadedCustody == Custody /\ RealLoaded => Custody'
<1> SUFFICES ASSUME Custody, RealLoaded PROVE Custody'
  OBVIOUS
<1> USE DEF Custody, TypeInv
<1>1. /\ pc = "loaded" /\ pc' = "start"
      /\ job.op = "kernelload" /\ job.area = "real"
      /\ job' = [job EXCEPT !.area = "kernel"]
      /\ UNCHANGED <<pos, mem, end, overwritten, cmdline>>
  BY DEF RealLoaded, heap
<1>2. job' \in Job /\ job'.area = "kernel" /\ job'.op = "kernelload"
  BY <1>1 DEF Job, Areas
<1>3. TypeInv' /\ JobUnderWay' /\ PartUnderWay' /\ LoadIsNoted'
  BY <1>1, <1>2 DEF Steps, JobUnderWay, PartUnderWay, LoadIsNoted, Working
<1>4. KernelUnderWay'
  BY <1>1, <1>2 DEF KernelUnderWay, PartUnderWay, Vouched, Working
<1>5. FlagVouches' /\ PlainIsSigned' /\ BootOnlyVouched'
  BY <1>1, Untouched
<1> QED
  BY <1>3, <1>4, <1>5

LEMMA EndCustody ==
  Custody /\ (KernelLoaded \/ DataLoaded \/ LoadFailed) => Custody'
<1> SUFFICES ASSUME Custody, KernelLoaded \/ DataLoaded \/ LoadFailed
             PROVE  Custody'
  OBVIOUS
<1> USE DEF Custody, TypeInv
<1>1. /\ pc' = "prompt" /\ pos' = 0 /\ job' = NoJob
      /\ UNCHANGED <<mem, overwritten, cmdline>>
  BY DEF KernelLoaded, DataLoaded, LoadFailed, CloseAndFree
<1>2. /\ JobUnderWay' /\ KernelUnderWay' /\ PartUnderWay' /\ LoadIsNoted'
      /\ BootOnlyVouched'
  BY <1>1 DEF JobUnderWay, KernelUnderWay, PartUnderWay, LoadIsNoted, Working,
              BootOnlyVouched
<1>3. NoJob \in Job
  <2>1. 1 \in 1 .. Len(Disk)
    BY ImageAssumption
  <2> QED
    BY <2>1 DEF NoJob, Job, EntryType, Areas
<1>4. end' \in Nat
  BY SizeType DEF KernelLoaded, DataLoaded, LoadFailed
<1>5. TypeInv'
  BY <1>1, <1>3, <1>4 DEF Steps
<1>6. PlainIsSigned'
  BY <1>1 DEF PlainIsSigned
<1>7. FlagVouches'
  <2>1. CASE KernelLoaded
    <3>1. /\ pc = "loaded" /\ job.op = "kernelload" /\ job.area = "kernel"
          /\ end' = Size(mem["kernel"].part)
      BY <2>1 DEF KernelLoaded
    <3>2. /\ Vouched("real") /\ Vouched("kernel")
          /\ mem["real"].part + 2 = pos /\ mem["kernel"].part + 1 = pos
      BY <3>1 DEF KernelUnderWay, PartUnderWay, Working
    <3>3. mem["kernel"].part = mem["real"].part + 1
      BY <3>2 DEF Areas, Content
    <3> QED
      BY <1>1, <3>1, <3>2, <3>3 DEF FlagVouches, Vouched
  <2>2. CASE DataLoaded \/ LoadFailed
    BY <1>1, <2>2 DEF DataLoaded, LoadFailed, FlagVouches, Vouched
  <2> QED
    BY <2>1, <2>2
<1> QED
  BY <1>2, <1>5, <1>6, <1>7

LEMMA BootCustody == Custody /\ Boot => Custody'
<1> SUFFICES ASSUME Custody, Boot PROVE Custody'
  OBVIOUS
<1> USE DEF Custody, TypeInv
<1>1. PICK v \in HeaderVersions :
        /\ end # 0
        /\ cmdline' = IF HasAppend /\ v >= 514 THEN end ELSE 0
  BY DEF Boot, Bootable
<1>2. /\ pc' = "kernel"
      /\ UNCHANGED <<job, pos, mem, end, overwritten>>
  BY DEF Boot, heap
<1>3. TypeInv' /\ JobUnderWay' /\ KernelUnderWay' /\ PartUnderWay' /\ LoadIsNoted'
  BY <1>1, <1>2
     DEF Steps, JobUnderWay, KernelUnderWay, PartUnderWay, LoadIsNoted, Working
<1>4. FlagVouches' /\ PlainIsSigned'
  BY <1>2 DEF FlagVouches, PlainIsSigned, Vouched
<1>5. BootOnlyVouched'
  <2> SUFFICES ASSUME ~overwritten PROVE BootOnlyVouched'
    BY <1>2 DEF BootOnlyVouched
  <2>1. /\ Vouched("real") /\ Vouched("kernel")
        /\ end = Size(mem["kernel"].part)
    BY <1>1 DEF FlagVouches
  <2>2. v = Disk[mem["real"].part].version
    BY <1>1, <2>1 DEF HeaderVersions, Vouched, Signed
  <2> QED
    BY <1>1, <1>2, <2>1, <2>2 DEF BootOnlyVouched, Vouched
<1> QED
  BY <1>3, <1>4, <1>5

THEOREM CustodyStep == Custody /\ [Next]_vars => Custody'
<1> SUFFICES ASSUME Custody, [Next]_vars PROVE Custody'
  OBVIOUS
<1>1. ASSUME NEW i \in DOMAIN Entry, Command("kernelload", i, "real")
      PROVE  Custody'
  BY <1>1, CommandCustody DEF Areas
<1>2. ASSUME NEW i \in DOMAIN Entry, NEW area \in LoadAreas,
             Command("load", i, area)
      PROVE  Custody'
  <2>1. area \in Areas
    BY ImageAssumption
  <2> QED
    BY <1>2, <2>1, CommandCustody
<1>3. CASE LoadNoAddress \/ UNCHANGED vars
  BY <1>3
     DEF LoadNoAddress, vars, heap, Custody, TypeInv, JobUnderWay, KernelUnderWay,
         PartUnderWay, LoadIsNoted, FlagVouches, PlainIsSigned,
         BootOnlyVouched, Vouched
<1>4. CASE GiveUp
  <2>1. NoJob \in Job
    <3>1. 1 \in 1 .. Len(Disk)
      BY ImageAssumption
    <3> QED
      BY <3>1 DEF NoJob, Job, EntryType, Areas
  <2> QED
    BY <1>4, <2>1, Untouched
       DEF GiveUp, Custody, TypeInv, Steps, JobUnderWay, KernelUnderWay,
           PartUnderWay, LoadIsNoted, Working
<1>5. CASE ReadStart \/ Reject \/ NoDigest
  BY <1>5, Untouched
     DEF ReadStart, Reject, NoDigest, Wild, heap, Custody, TypeInv, Steps,
         JobUnderWay, KernelUnderWay, PartUnderWay, LoadIsNoted, Working, Vouched
<1> QED
  BY <1>1, <1>2, <1>3, <1>4, <1>5, OpenCustody, ReadDataCustody, AcceptCustody,
     RealLoadedCustody, EndCustody, BootCustody
     DEF Next

-----------------------------------------------------------------------------
THEOREM Invariance == Spec => [](Accounts /\ Custody)
<1>1. Init => Accounts /\ Custody
  BY AccountsInit, CustodyInit
<1>2. Accounts /\ Custody /\ [Next]_vars => (Accounts /\ Custody)'
  BY AccountsStep, CustodyStep
<1> QED
  BY <1>1, <1>2, PTL DEF Spec

(* The loader's state stays well typed; the heap never gives out more than *)
(* it has.                                                                 *)
THEOREM TypeCorrect == Spec => []TypeOK
<1>1. Accounts /\ Custody => TypeOK
  <2> SUFFICES ASSUME Accounts, Custody PROVE TypeOK
    OBVIOUS
  <2>1. room \in 0 .. HeapBlocks
    <3>1. \A b \in Buffers : held[b] \in Nat
      BY DEF Accounts
    <3> QED
      BY <3>1, ImageAssumption, SMTT(30) DEF Accounts, Held, Buffers
  <2> QED
    BY <2>1 DEF Accounts, Custody, TypeInv, TypeOK
<1> QED
  BY <1>1, Invariance, PTL

(* simg_end_address is set only while two consecutive signed parts,        *)
(* deciphered, lie in the kernel's areas.                                  *)
THEOREM FlagIsTrue == Spec => []FlagVouches
<1>1. Custody => FlagVouches
  BY DEF Custody
<1> QED
  BY <1>1, Invariance, PTL

(* image_boot jumps only into such an image.                               *)
THEOREM SecureBoot == Spec => []BootOnlyVouched
<1>1. Custody => BootOnlyVouched
  BY DEF Custody
<1> QED
  BY <1>1, Invariance, PTL

(* load_simg deciphers only data whose signature matched.                  *)
THEOREM NothingDeciphered == Spec => []PlainIsSigned
<1>1. Custody => PlainIsSigned
  BY DEF Custody
<1> QED
  BY <1>1, Invariance, PTL

(* Every way through a command closes the stream and frees the start block.*)
THEOREM StreamsAreClosed == Spec => []StreamsClosed
<1>1. Accounts => StreamsClosed
  BY DEF Accounts, HoldsAt, Working, StreamsClosed
<1> QED
  BY <1>1, Invariance, PTL

=============================================================================
