------------------------------ MODULE Console -------------------------------
(***************************************************************************)
(* Waiting for the console with a timeout: waitc of core/stdio.c on the    *)
(* clock of core/time.h and drivers/rtc_driver.c, and the two loops that   *)
(* are built on it, console_auth and the wait for the BREAK command of     *)
(* main/main.c.                                                            *)
(*                                                                         *)
(* The clock runs on while the loader reads it.  It is read register by    *)
(* register, the seconds first; of the registers the model has two, one of *)
(* SecPerMin values and one that counts what the first one loses.  Its     *)
(* hours come in halves of a day and are read as if they did not: at noon  *)
(* and at midnight, and an hour after each, what is read leaps.            *)
(***************************************************************************)
EXTENDS Integers, Sequences

CONSTANTS
  SecPerMin,      (* 60                                                    *)
  Quad,           (* a quad_t is a number below Quad: 2^64                 *)
  Need,           (* AUTH_BLOCK_SIZE, DSA_SIZE and DSA_SIZE                *)
  AuthTimeout,    (* 1 s, for each character of console_auth               *)
  BreakTimeout,   (* 5 s                                                   *)
  Chars,          (* what may be sent to the console, in this order        *)
  Break,          (* 'B'                                                   *)
  Leaps,          (* <<when, how far>>; one may come while the loader      *)
                  (* waits.  It is hours, farther than BreakTimeout        *)
  MaxTime,        (* bounds: the model's clock stops there,                *)
  MaxTorn         (* or there if it may be misread                         *)

Content == {Chars[k] : k \in DOMAIN Chars}

ASSUME ConsoleAssumption ==
  /\ SecPerMin \in Nat \ {0}
  /\ Quad \in Nat /\ MaxTime \in Nat /\ MaxTime >= SecPerMin
  /\ MaxTorn \in 0 .. MaxTime
  /\ AuthTimeout \in 1 .. Quad - 1 /\ BreakTimeout \in 1 .. Quad - 1
  /\ Need \in Seq(Nat) /\ Need # <<>>
  /\ Chars \in Seq(Content)
  /\ Leaps \subseteq Nat \X Int
  /\ \A x \in Leaps : x[1] + x[2] \in Nat
  /\ \A x \in Leaps : x[2] > 0 => BreakTimeout + x[2] < Quad
  /\ \A x \in Leaps : x[2] < 0 => x[2] + BreakTimeout < 0 /\ x[2] + Quad >= 0

VARIABLES
  torn,     (* may the clock go on between the reads of two registers?     *)
  leap,     (* when and how far the hours leap                             *)
  now,      (* seconds gone by                                             *)
  polled,   (* has the loader read the clock in this second?               *)
  sent,     (* how many of Chars were sent                                 *)
  queue,    (* those the console holds                                     *)
  pc,
  stage,    (* of console_auth; behind its last one the wait for BREAK     *)
  tm,       (* what is left of the timeout                                 *)
  sec,      (* the seconds register, as read                               *)
  s,        (* waitc: when it began; -1 before that is read                *)
  delta,    (* waitc: how long it has waited                               *)
  got,      (* what each stage stored                                      *)
  from,     (* where among Chars each stage, and the wait for BREAK, began *)
  opened,   (* when the wait for BREAK did                                 *)
  brk       (* ctrl_break                                                  *)

wait == <<tm, sec, s, delta>>
record == <<got, from, opened, brk>>
vars == <<torn, leap, now, polled, sent, queue, pc, stage, wait, record>>

Auth == 1 .. Len(Need)
Window == Len(Need) + 1

-----------------------------------------------------------------------------
Init ==
  /\ torn \in BOOLEAN
  /\ leap \in IF torn THEN {<<MaxTime + 1, 0>>} ELSE Leaps
  /\ now \in 0 .. SecPerMin - 1
  /\ polled = TRUE
  /\ sent = 0 /\ queue = <<>>
  /\ pc = "read" /\ stage = 1
  /\ tm = AuthTimeout /\ sec = 0 /\ s = -1 /\ delta = 0
  /\ got = [a \in Auth |-> <<>>]
  /\ from = [a \in 1 .. Window |-> 0] /\ opened = 0
  /\ brk = FALSE

(* Nothing delays the loader's loop: it reads the clock in every second.   *)
Tick ==
  /\ now < (IF torn THEN MaxTorn ELSE MaxTime)
  /\ polled
  /\ now' = now + 1
  /\ polled' = FALSE
  /\ UNCHANGED <<torn, leap, sent, queue, pc, stage, wait, record>>

Send ==
  /\ sent < Len(Chars)
  /\ sent' = sent + 1
  /\ queue' = Append(queue, Chars[sent + 1])
  /\ UNCHANGED <<torn, leap, now, polled, pc, stage, wait, record>>

(* ctime() has been read: waitc begins with it, or sees how long it waits, *)
(* a quad_t.                                                               *)
Clocked(t) ==
  /\ IF s = -1
     THEN s' = t /\ delta' = 0
     ELSE s' = s /\ delta' = (t - s) % Quad
  /\ polled' = TRUE
  /\ pc' = "test"

(* rtc_current, with the hours % 24                                        *)
Shown == now + (IF now >= leap[1] THEN leap[2] ELSE 0)

ReadClock ==
  /\ pc = "read" /\ ~torn
  /\ Clocked(Shown)
  /\ UNCHANGED <<torn, leap, now, sent, queue, stage, tm, sec, record>>

ReadSec ==
  /\ pc = "read" /\ torn
  /\ sec' = now % SecPerMin
  /\ pc' = "min"
  /\ UNCHANGED <<torn, leap, now, polled, sent, queue, stage, tm, s, delta,
                 record>>

ReadMin ==
  /\ pc = "min"
  /\ Clocked((now \div SecPerMin) * SecPerMin + sec)
  /\ UNCHANGED <<torn, leap, now, sent, queue, stage, tm, sec, record>>

(* Mutants: the loop does not look at the time; it goes on for a second    *)
(* too many, or too few.                                                   *)
MutTimeLeft == TRUE
MutLate == delta <= tm
MutEarly == delta + 1 < tm

TimeLeft == delta < tm

WaitOn ==
  /\ pc = "test"
  /\ TimeLeft /\ queue = <<>>
  /\ pc' = "read"
  /\ UNCHANGED <<torn, leap, now, polled, sent, queue, stage, wait, record>>

(* *tm -= delta                                                            *)
Rest == (tm - delta) % Quad

(* waitc is called again, with the time t.                                 *)
Again(t) == tm' = t /\ s' = -1 /\ delta' = 0 /\ sec' = 0 /\ pc' = "read"

(* How many of Chars the loader has taken from the console.               *)
Consumed == sent - Len(queue)

(* The next stage goes on with what is left of tm; the wait for BREAK has  *)
(* a time of its own.                                                      *)
NextStage(consumed) ==
  /\ stage' = stage + 1
  /\ from' = [from EXCEPT ![stage'] = consumed]
  /\ Again(IF stage' = Window THEN BreakTimeout ELSE Rest)
  /\ opened' = IF stage' = Window THEN now ELSE opened

(* Mutant: the stage stores one character too many.                        *)
MutStageFull == Len(got[stage]) > Need[stage]

StageFull == Len(got[stage]) >= Need[stage]

(* recv = waitc(...) && nr_recv < N: the character is stored, or, when the *)
(* stage has all of its own, it is taken from the console and forgotten.  *)
AuthChar ==
  /\ pc = "test" /\ stage \in Auth
  /\ TimeLeft /\ queue # <<>>
  /\ queue' = Tail(queue)
  /\ IF StageFull
     THEN NextStage(Consumed + 1) /\ UNCHANGED got
     ELSE /\ got' = [got EXCEPT ![stage] = Append(@, Head(queue))]
          /\ Again(AuthTimeout)
          /\ UNCHANGED <<stage, from, opened>>
  /\ UNCHANGED <<torn, leap, now, polled, sent, brk>>

AuthTimedOut ==
  /\ pc = "test" /\ stage \in Auth
  /\ ~TimeLeft
  /\ NextStage(Consumed)
  /\ UNCHANGED <<torn, leap, now, polled, sent, queue, got, brk>>

(* Mutant: any character is a break.                                       *)
MutIsBreak(c) == TRUE

IsBreak(c) == c = Break

BreakChar ==
  /\ pc = "test" /\ stage = Window
  /\ TimeLeft /\ queue # <<>>
  /\ queue' = Tail(queue)
  /\ IF IsBreak(Head(queue))
     THEN brk' = TRUE /\ pc' = "boot" /\ UNCHANGED wait
     ELSE brk' = brk /\ Again(Rest)
  /\ UNCHANGED <<torn, leap, now, polled, sent, stage, got, from, opened>>

WindowOver ==
  /\ pc = "test" /\ stage = Window
  /\ ~TimeLeft
  /\ pc' = "boot"
  /\ UNCHANGED <<torn, leap, now, polled, sent, queue, stage, wait, record>>

Loader ==
  \/ ReadClock \/ ReadSec \/ ReadMin \/ WaitOn
  \/ AuthChar \/ AuthTimedOut \/ BreakChar \/ WindowOver

Next == Tick \/ Send \/ Loader

(* The clock runs, nothing preempts the loader; nobody need send anything. *)
Spec == Init /\ [][Next]_vars /\ WF_vars(Tick) /\ WF_vars(Loader)

-----------------------------------------------------------------------------
TypeOK ==
  /\ torn \in BOOLEAN /\ leap \in Leaps \cup {<<MaxTime + 1, 0>>}
  /\ now \in 0 .. MaxTime
  /\ polled \in BOOLEAN
  /\ sent \in 0 .. Len(Chars)
  /\ queue \in Seq(Content)
  /\ pc \in {"read", "min", "test", "boot"}
  /\ stage \in 1 .. Window
  /\ tm \in 0 .. Quad - 1 /\ delta \in 0 .. Quad - 1
  /\ sec \in 0 .. SecPerMin - 1
  /\ s \in Nat \cup {-1}
  /\ got \in [Auth -> Seq(Content)]
  /\ \A a \in Auth : Len(got[a]) <= Need[a]
  /\ from \in [1 .. Window -> 0 .. Len(Chars)]
  /\ opened \in 0 .. MaxTime
  /\ brk \in BOOLEAN

(* What the stages of console_auth store is what was sent, in its order,   *)
(* but for the first character that follows a full stage: it is taken as   *)
(* the end of that stage, and lost for the next.                           *)
Stored(a) ==
  LET end == from[a] + Len(got[a])
  IN /\ a <= stage => got[a] = SubSeq(Chars, from[a] + 1, end)
     /\ a > stage => got[a] = <<>>
     /\ a = stage => Consumed = end
     /\ a < stage => \/ from[a + 1] = end
                     \/ (from[a + 1] = end + 1 /\ Len(got[a]) = Need[a])
AuthStores == from[1] = 0 /\ \A a \in Auth : Stored(a)

(* STARTUP is passed over exactly if a BREAK was among what the wait took  *)
(* from the console: none is lost between console_auth, which takes what   *)
(* came before, and what the console still holds when the wait is over.    *)
BreakIsHeard ==
  pc = "boot" =>
    (brk <=> \E k \in from[Window] + 1 .. Consumed : Chars[k] = Break)

(* "Waiting %ld seconds for the BREAK command" (main.c:493): without a     *)
(* BREAK the loader goes on only after that time, unless the hours leap    *)
(* in it or the clock is read while it is updated.                         *)
WindowLasts ==
  pc = "boot" /\ ~torn /\ ~brk /\ leap[1] \notin opened + 1 .. now =>
    now - opened >= BreakTimeout

(* The wait does not last much longer either: the second in which it       *)
(* begins and the one in which it ends come on top, and again so with      *)
(* every character, for which waitc begins anew.  A leap never prolongs    *)
(* it; of a clock that is misread nothing is said.  (And all is of its     *)
(* type.)                                                                  *)
Taken == Consumed - from[Window]
WindowBounded ==
  /\ TypeOK
  /\ pc = "boot" /\ ~torn => now - opened <= BreakTimeout + 2 * (Taken + 1)

(* The loader always goes on to boot, whatever is or is not sent, unless   *)
(* the hours leap ahead during console_auth, which may leave it a timeout  *)
(* that was taken below zero.                                              *)
BootGoesOn ==
  ~torn /\ [](stage \in Auth => now < leap[1] \/ leap[2] <= 0) => <>(pc = "boot")
=============================================================================
