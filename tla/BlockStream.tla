---------------------------- MODULE BlockStream -----------------------------
(***************************************************************************)
(* What the client of a block stream (core/stdio.h) may rely on, with no   *)
(* word of commands or status bits: sector k of the buffer is exchanged    *)
(* with sector base + k of the device, at most once in a transfer; nothing *)
(* outside of what was asked for is touched; and the position advances by  *)
(* what the transfer returned, which is never more than was asked for.     *)
(***************************************************************************)
EXTENDS Integers

CONSTANTS
  Old,       (* a sector of the buffer that no transfer has touched        *)
  Junk,      (* what a bus without a drive delivers                        *)
  Index,     (* the sectors of the buffer                                  *)
  Reach      (* the addresses the device can be given are below Reach      *)

VARIABLES
  busy,      (* is a transfer under way?                                   *)
  present,   (* is there a drive behind the stream?                        *)
  pos,       (* the position of the stream                                 *)
  base,      (* where the transfer began,                                  *)
  asked,     (* how many sectors it was asked for,                         *)
  ret,       (* and what the last one returned                             *)
  pair       (* sector of the buffer -> sector of the device               *)

view == <<busy, present, pos, base, asked, ret, pair>>

Untouched == [k \in Index |-> Old]

Init ==
  /\ ~busy
  /\ present \in BOOLEAN
  /\ pos \in Nat
  /\ base = pos /\ asked = 0 /\ ret = 0
  /\ pair = Untouched

Open ==
  /\ ~busy
  /\ present' \in BOOLEAN
  /\ pos' \in Nat
  /\ base' = pos' /\ asked' = 0 /\ ret' = 0
  /\ pair' = Untouched
  /\ UNCHANGED busy

Seek ==
  /\ ~busy
  /\ pos' \in Nat
  /\ UNCHANGED <<busy, present, base, asked, ret, pair>>

Begin ==
  /\ ~busy /\ busy'
  /\ asked' \in Index
  /\ base' = pos
  /\ pair' = Untouched
  /\ UNCHANGED <<present, pos, ret>>

Move(k) ==
  /\ busy
  /\ k < asked /\ pair[k] = Old
  /\ pair' = [pair EXCEPT ![k] = IF present THEN (base + k) % Reach ELSE Junk]
  /\ UNCHANGED <<busy, present, pos, base, asked, ret>>

End ==
  /\ busy /\ ~busy'
  /\ ret' \in 0 .. asked
  /\ pos' = base + ret'
  /\ UNCHANGED <<present, base, asked, pair>>

Next == Open \/ Seek \/ Begin \/ End \/ \E k \in Index : Move(k)

Spec == Init /\ [][Next]_view
=============================================================================
