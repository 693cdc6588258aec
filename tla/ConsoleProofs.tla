---------------------------- MODULE ConsoleProofs ----------------------------
(***************************************************************************)
(* The wait for BREAK and the authorization, for every timeout, length of  *)
(* the authorization's parts, stream of characters and leap of the hours.  *)
(***************************************************************************)
EXTENDS Console, SequenceTheorems, TLAPS

(* The second in which the loader last read the clock.                     *)
LastRead == now - (IF polled THEN 0 ELSE 1)

ShownAt(t) == t + (IF t >= leap[1] THEN leap[2] ELSE 0)

NoLeap == leap[1] \notin opened + 1 .. now

(* What the console holds are the next characters that were sent.          *)
InOrder ==
  /\ Len(queue) <= sent
  /\ \A i \in 1 .. Len(queue) : queue[i] = Chars[Consumed + i]

(* Where the loader is.                                                    *)
Position ==
  /\ pc = "min" => torn
  /\ pc = "boot" => stage = Window
  /\ brk => pc = "boot"
  /\ stage = Window => from[Window] <= Consumed

(* Of what the wait took, nothing but what ended it was a BREAK.           *)
Heard ==
  stage = Window =>
    (brk <=> \E k \in from[Window] + 1 .. Consumed : Chars[k] = Break)

(* A call of waitc that has yet to read the clock: what went by since the  *)
(* wait for BREAK began is what it was charged for, and at most two        *)
(* seconds more for every character.                                       *)
Fresh ==
  /\ pc = "read"
  /\ now - opened <= (BreakTimeout - tm) + 2 * Taken + (now - LastRead)
  /\ NoLeap => BreakTimeout - tm <= now - opened

(* One that read it first in the second w.                                 *)
Since(w) ==
  /\ w \in opened .. LastRead
  /\ s = ShownAt(w)
  /\ LastRead - w <= tm /\ (pc = "read" => LastRead - w < tm)
  /\ LastRead - w <= delta /\ (NoLeap => delta <= LastRead - w)
  /\ w - opened <= (BreakTimeout - tm) + 2 * Taken + 1
  /\ NoLeap => BreakTimeout - tm <= w - opened

Ended ==
  /\ now - opened <= BreakTimeout + 2 * Taken + 1 + (now - LastRead)
  /\ ~brk /\ NoLeap => now - opened >= BreakTimeout

Timed ==
  ~torn /\ stage = Window =>
    /\ opened <= now
    /\ pc = "boot" => Ended
    /\ pc # "boot" => /\ tm \in 1 .. BreakTimeout
                      /\ s = -1 => Fresh
                      /\ s # -1 => \E w \in 0 .. MaxTime : Since(w)

IInv == TypeOK /\ InOrder /\ Position /\ AuthStores /\ Heard /\ Timed

-----------------------------------------------------------------------------
(* Arithmetic, and what the constants are.                                 *)

LEMMA Mod ==
  ASSUME NEW x \in Int, NEW r \in Nat \ {0}
  PROVE  /\ x % r \in 0 .. r - 1
         /\ x \in 0 .. r - 1 => x % r = x
         /\ x < 0 /\ x + r >= 0 => x % r = x + r
         /\ x >= 0 => x % r <= x
<1>1. x % r \in 0 .. r - 1
  BY SMT
<1>2. x \in 0 .. r - 1 => x % r = x
  BY SMT
<1>3. x < 0 /\ x + r >= 0 => x % r = x + r
  BY SMT
<1>4. x >= 0 => x % r <= x
  BY <1>1, <1>2
<1> QED
  BY <1>1, <1>2, <1>3, <1>4

LEMMA Constants ==
  /\ Len(Need) \in Nat /\ Len(Need) >= 1 /\ Window \in Nat /\ Window > 1
  /\ \A a \in Auth : Need[a] \in Nat
  /\ Quad \in Nat \ {0} /\ MaxTime \in Nat /\ SecPerMin \in Nat \ {0}
  /\ AuthTimeout \in 1 .. Quad - 1 /\ BreakTimeout \in 1 .. Quad - 1
  /\ MaxTorn \in Nat /\ MaxTorn <= MaxTime /\ SecPerMin <= MaxTime
<1>1. Need \in Seq(Nat) /\ Need # <<>>
  BY ConsoleAssumption
<1>2. Len(Need) \in Nat /\ Len(Need) >= 1
  BY <1>1
<1>3. \A a \in Auth : Need[a] \in Nat
  BY <1>1 DEF Auth
<1> QED
  BY <1>2, <1>3, ConsoleAssumption DEF Window

(* What a leap may be.                                                     *)
LEMMA LeapType ==
  ASSUME TypeOK
  PROVE  /\ leap[1] \in Nat /\ leap[2] \in Int /\ leap[1] + leap[2] \in Nat
         /\ leap[2] > 0 => BreakTimeout + leap[2] < Quad
         /\ leap[2] < 0 => leap[2] + BreakTimeout < 0 /\ leap[2] + Quad >= 0
<1>1. CASE leap \in Leaps
  <2>1. leap \in Nat \X Int
    BY <1>1, ConsoleAssumption
  <2> QED
    BY <1>1, <2>1, ConsoleAssumption
<1>2. CASE leap = <<MaxTime + 1, 0>>
  BY <1>2, Constants
<1> QED
  BY <1>1, <1>2 DEF TypeOK

LEMMA ShownType ==
  ASSUME TypeOK, NEW t \in Nat
  PROVE  ShownAt(t) \in Nat
BY LeapType DEF ShownAt

(* What waitc sees go by between two readings of the clock is at least what*)
(* went by, whatever the hours do, and no more if they do not leap.        *)
LEMMA Elapsed ==
  ASSUME TypeOK, NEW w \in Nat, NEW t \in Nat, w <= t, t - w <= BreakTimeout
  PROVE  LET d == (ShownAt(t) - ShownAt(w)) % Quad
         IN /\ t - w <= d
            /\ (t >= leap[1] => w >= leap[1]) => d <= t - w
<1> DEFINE x == ShownAt(t) - ShownAt(w)
<1>1. x \in Int /\ Quad \in Nat \ {0}
  BY ShownType, Constants
<1>2. /\ x % Quad \in 0 .. Quad - 1
      /\ x \in 0 .. Quad - 1 => x % Quad = x
      /\ x < 0 /\ x + Quad >= 0 => x % Quad = x + Quad
  BY <1>1, Mod
<1>3. CASE t >= leap[1] => w >= leap[1]
  <2>1. x = t - w
    BY <1>3, LeapType DEF ShownAt
  <2>2. x \in 0 .. Quad - 1
    BY <2>1, Constants
  <2> QED
    BY <1>2, <2>1, <2>2
<1>4. CASE t >= leap[1] /\ ~(w >= leap[1])
  <2>1. x = (t - w) + leap[2]
    BY <1>4, LeapType DEF ShownAt
  <2>2. CASE leap[2] >= 0
    <3>1. x \in 0 .. Quad - 1
      BY <2>1, <2>2, LeapType, Constants, SMTT(30)
    <3> QED
      BY <1>2, <1>4, <2>1, <2>2, <3>1, LeapType
  <2>3. CASE leap[2] < 0
    <3>1. x < 0 /\ x + Quad >= 0 /\ x + Quad >= t - w
      BY <2>1, <2>3, LeapType, Constants, SMTT(30)
    <3> QED
      BY <1>2, <1>4, <3>1
  <2> QED
    BY <2>2, <2>3, LeapType
<1> QED
  BY <1>3, <1>4

-----------------------------------------------------------------------------
(* The characters.                                                         *)

LEMMA Lengths ==
  ASSUME TypeOK
  PROVE  /\ Len(queue) \in Nat /\ Len(Chars) \in Nat
         /\ sent \in Nat /\ sent <= Len(Chars) /\ Consumed \in Int
         /\ Consumed + Len(queue) = sent
         /\ InOrder => Consumed \in Nat /\ Consumed <= Len(Chars)
<1>1. queue \in Seq(Content) /\ Chars \in Seq(Content)
  BY ConsoleAssumption DEF TypeOK
<1>2. Len(queue) \in Nat /\ Len(Chars) \in Nat
  BY <1>1
<1> QED
  BY <1>2 DEF TypeOK, Consumed, InOrder

(* A character taken from the console is the next of those sent.           *)
LEMMA Taking ==
  ASSUME TypeOK, InOrder, queue # <<>>, queue' = Tail(queue), sent' = sent
  PROVE  /\ queue' \in Seq(Content) /\ InOrder'
         /\ Consumed' = Consumed + 1
         /\ Consumed + 1 \in 1 .. Len(Chars)
         /\ Head(queue) = Chars[Consumed + 1] /\ Head(queue) \in Content
<1>1. queue \in Seq(Content)
  BY DEF TypeOK
<1>2. /\ Head(queue) \in Content
      /\ Tail(queue) \in Seq(Content) /\ Len(Tail(queue)) = Len(queue) - 1
      /\ \A i \in 1 .. Len(Tail(queue)) : Tail(queue)[i] = queue[i + 1]
  BY <1>1, HeadTailProperties
<1>3. Len(queue) \in Nat /\ Len(queue) >= 1 /\ Head(queue) = queue[1]
  BY <1>1
<1>4. Consumed' = Consumed + 1
  BY <1>2, <1>3, Lengths DEF Consumed
<1>5. Consumed + 1 \in 1 .. Len(Chars)
  BY <1>3, Lengths
<1>6. InOrder'
  <2>1. Len(queue') <= sent'
    BY <1>2, <1>3 DEF InOrder, TypeOK
  <2>2. ASSUME NEW i \in 1 .. Len(queue') PROVE queue'[i] = Chars[Consumed' + i]
    <3>1. i + 1 \in 1 .. Len(queue) /\ Consumed + (i + 1) = Consumed' + i
      BY <1>2, <1>3, <1>4, Lengths
    <3>2. queue'[i] = queue[i + 1]
      BY <1>2
    <3>3. queue[i + 1] = Chars[Consumed + (i + 1)]
      BY <3>1 DEF InOrder
    <3> QED
      BY <3>1, <3>2, <3>3
  <2> QED
    BY <2>1, <2>2 DEF InOrder
<1> QED
  BY <1>2, <1>3, <1>4, <1>5, <1>6 DEF InOrder

LEMMA Grow ==
  ASSUME NEW S, NEW q \in Seq(S), NEW m \in 0 .. Len(q), NEW n \in m .. Len(q) - 1
  PROVE  SubSeq(q, m + 1, n + 1) = Append(SubSeq(q, m + 1, n), q[n + 1])
<1>1. /\ m + 1 \in 1 .. Len(q) /\ n + 1 \in m + 1 .. Len(q)
      /\ (n + 1) - 1 = n
  OBVIOUS
<1>2. SubSeq(q, m + 1, n + 1) = SubSeq(q, m + 1, (n + 1) - 1) \o <<q[n + 1]>>
  BY <1>1, SubSeqRecursiveSecond
<1>3. SubSeq(q, m + 1, n) \in Seq(S)
  <2>1. \A i \in m + 1 .. n : q[i] \in S
    OBVIOUS
  <2> QED
    BY <2>1, SubSeqProperties
<1>4. Append(SubSeq(q, m + 1, n), q[n + 1]) = SubSeq(q, m + 1, n) \o <<q[n + 1]>>
  BY <1>1, <1>3, AppendIsConcat
<1> QED
  BY <1>1, <1>2, <1>4

-----------------------------------------------------------------------------
(* What steps leave alone.                                                 *)

LEMMA SameQueue ==
  ASSUME queue' = queue, sent' = sent
  PROVE  Consumed' = Consumed /\ (InOrder => InOrder')
BY DEF Consumed, InOrder

LEMMA SameStore ==
  ASSUME got' = got, from' = from, stage' = stage, brk' = brk,
         Consumed' = Consumed
  PROVE  /\ AuthStores => AuthStores'
         /\ Heard => Heard'
         /\ Taken' = Taken
BY DEF AuthStores, Stored, Heard, Taken

LEMMA SameTime ==
  ASSUME torn' = torn, leap' = leap, now' = now, polled' = polled, pc' = pc,
         stage' = stage, wait' = wait, opened' = opened, brk' = brk,
         Taken' = Taken
  PROVE  Timed => Timed'
<1>1. tm' = tm /\ s' = s /\ delta' = delta
  BY DEF wait
<1>2. LastRead' = LastRead /\ NoLeap' = NoLeap
  BY DEF LastRead, NoLeap
<1>3. Fresh' = Fresh
  BY <1>1, <1>2 DEF Fresh
<1>4. Ended' = Ended
  BY <1>2 DEF Ended
<1>5. ASSUME NEW w PROVE Since(w)' = Since(w)
  BY <1>1, <1>2 DEF Since, ShownAt
<1> QED
  BY <1>1, <1>3, <1>4, <1>5 DEF Timed

-----------------------------------------------------------------------------
(* The steps.                                                              *)

LEMMA InitInv == Init => IInv
<1> SUFFICES ASSUME Init PROVE IInv
  OBVIOUS
<1>1. /\ torn \in BOOLEAN /\ now \in 0 .. SecPerMin - 1 /\ polled = TRUE
      /\ leap \in Leaps \cup {<<MaxTime + 1, 0>>}
      /\ sent = 0 /\ queue = <<>> /\ pc = "read" /\ stage = 1
      /\ tm = AuthTimeout /\ sec = 0 /\ s = -1 /\ delta = 0
      /\ got = [a \in Auth |-> <<>>] /\ from = [a \in 1 .. Window |-> 0]
      /\ opened = 0 /\ brk = FALSE
  BY DEF Init
<1>2. TypeOK
  <2>1. Len(Chars) \in Nat
    BY ConsoleAssumption
  <2>2. <<>> \in Seq(Content) /\ Len(<<>>) = 0
    OBVIOUS
  <2>3. got \in [Auth -> Seq(Content)] /\ \A a \in Auth : Len(got[a]) <= Need[a]
    BY <1>1, <2>2, Constants
  <2>4. from \in [1 .. Window -> 0 .. Len(Chars)]
    BY <1>1, <2>1
  <2>5. /\ now \in 0 .. MaxTime /\ opened \in 0 .. MaxTime
        /\ stage \in 1 .. Window /\ sec \in 0 .. SecPerMin - 1
        /\ tm \in 0 .. Quad - 1 /\ delta \in 0 .. Quad - 1
    BY <1>1, Constants
  <2>6. sent \in 0 .. Len(Chars) /\ queue \in Seq(Content)
    BY <1>1, <2>1, <2>2
  <2> QED
    BY <1>1, <2>3, <2>4, <2>5, <2>6 DEF TypeOK
<1>3. stage # Window /\ Len(queue) = 0 /\ Consumed = 0
  <2>1. stage # Window
    BY <1>1, Constants
  <2>2. Len(queue) = 0
    BY <1>1
  <2>3. sent = 0
    BY <1>1
  <2> QED
    BY <2>1, <2>2, <2>3 DEF Consumed
<1>4. InOrder /\ Position /\ Heard /\ Timed
  BY <1>1, <1>3 DEF InOrder, Position, Heard, Timed
<1>5. AuthStores
  <2>1. from[1] = 0
    BY <1>1, Constants
  <2>2. ASSUME NEW a \in Auth
        PROVE  Stored(a)
    <3>1. a \in Nat /\ a >= 1 /\ a \in 1 .. Window
      BY Constants DEF Auth, Window
    <3>2. SubSeq(Chars, 1, 0) = <<>>
      BY SubSeqEmpty
    <3>3. got[a] = <<>> /\ from[a] = 0
      BY <1>1, <3>1
    <3>4. Len(got[a]) = 0
      BY <3>3
    <3>5. from[a] + 1 = 1 /\ from[a] + Len(got[a]) = 0
      BY <3>3, <3>4
    <3> QED
      BY <1>1, <1>3, <3>1, <3>2, <3>3, <3>5 DEF Stored
  <2> QED
    BY <2>1, <2>2 DEF AuthStores
<1> QED
  BY <1>2, <1>4, <1>5 DEF IInv

LEMMA TickStep ==
  ASSUME IInv, Tick
  PROVE  IInv'
<1>1. /\ TypeOK /\ InOrder /\ Position /\ AuthStores /\ Heard /\ Timed
      /\ polled /\ now' = now + 1 /\ polled' = FALSE
      /\ torn' = torn /\ leap' = leap /\ sent' = sent /\ queue' = queue
      /\ pc' = pc /\ stage' = stage /\ tm' = tm /\ sec' = sec /\ s' = s
      /\ delta' = delta /\ got' = got /\ from' = from /\ opened' = opened
      /\ brk' = brk
      /\ now < (IF torn THEN MaxTorn ELSE MaxTime)
  BY DEF IInv, Tick, wait, record
<1>2. now' \in 0 .. MaxTime
  BY <1>1, Constants DEF TypeOK
<1>3. TypeOK'
  BY <1>1, <1>2 DEF TypeOK
<1>4. Consumed' = Consumed /\ InOrder' /\ Position' /\ AuthStores' /\ Heard'
      /\ Taken' = Taken
  BY <1>1, SameQueue, SameStore DEF Position
<1>5. Timed'
  <2> SUFFICES ASSUME ~torn', stage' = Window
               PROVE  /\ opened' <= now'
                      /\ pc' = "boot" => Ended'
                      /\ pc' # "boot" => /\ tm' \in 1 .. BreakTimeout
                                         /\ s' = -1 => Fresh'
                                         /\ s' # -1 => \E w \in 0 .. MaxTime : Since(w)'
    BY DEF Timed
  <2>1. /\ now \in Nat /\ opened \in Nat /\ opened <= now
        /\ pc = "boot" => Ended
        /\ pc # "boot" => /\ tm \in 1 .. BreakTimeout
                          /\ s = -1 => Fresh
                          /\ s # -1 => \E w \in 0 .. MaxTime : Since(w)
    BY <1>1 DEF Timed, TypeOK
  <2>2. LastRead' = now /\ LastRead = now
    BY <1>1, <2>1 DEF LastRead
  <2>3. NoLeap' => NoLeap
    BY <1>1, <2>1, LeapType DEF NoLeap
  <2>4. Taken \in Int /\ BreakTimeout \in Nat /\ delta \in Nat /\ tm \in Nat
    BY <1>1, Lengths, Constants DEF Taken, TypeOK
  <2>5. ASSUME pc = "boot" PROVE Ended'
    BY <1>1, <1>4, <2>1, <2>2, <2>3, <2>4, <2>5 DEF Ended
  <2>6. ASSUME Fresh PROVE Fresh'
    BY <1>1, <1>4, <2>1, <2>2, <2>3, <2>4, <2>6 DEF Fresh
  <2>7. ASSUME NEW w \in 0 .. MaxTime, Since(w) PROVE Since(w)'
    BY <1>1, <1>4, <2>1, <2>2, <2>3, <2>4, <2>7 DEF Since, ShownAt
  <2> QED
    BY <1>1, <2>1, <2>5, <2>6, <2>7
<1> QED
  BY <1>3, <1>4, <1>5 DEF IInv

LEMMA SendStep ==
  ASSUME IInv, Send
  PROVE  IInv'
<1>1. /\ TypeOK /\ InOrder /\ Position /\ AuthStores /\ Heard /\ Timed
      /\ sent < Len(Chars) /\ sent' = sent + 1
      /\ queue' = Append(queue, Chars[sent + 1])
      /\ torn' = torn /\ leap' = leap /\ now' = now /\ polled' = polled
      /\ pc' = pc /\ stage' = stage /\ wait' = wait
      /\ got' = got /\ from' = from /\ opened' = opened /\ brk' = brk
  BY DEF IInv, Send, record
<1>2. queue \in Seq(Content) /\ Chars \in Seq(Content)
  BY <1>1, ConsoleAssumption DEF TypeOK
<1>3. Chars[sent + 1] \in Content
  BY <1>1, <1>2 DEF TypeOK
<1>4. /\ queue' \in Seq(Content) /\ Len(queue') = Len(queue) + 1
      /\ \A i \in 1 .. Len(queue) : queue'[i] = queue[i]
      /\ queue'[Len(queue) + 1] = Chars[sent + 1]
  BY <1>1, <1>2, <1>3, AppendProperties
<1>5. Consumed' = Consumed
  BY <1>1, <1>4, Lengths DEF Consumed
<1>6. TypeOK'
  <2>1. sent' \in 0 .. Len(Chars)
    BY <1>1, Lengths
  <2> QED
    BY <1>1, <1>4, <2>1 DEF TypeOK, wait
<1>7. InOrder'
  <2>1. Len(queue') <= sent'
    BY <1>1, <1>4, Lengths DEF InOrder
  <2>2. ASSUME NEW i \in 1 .. Len(queue') PROVE queue'[i] = Chars[Consumed + i]
    <3>1. CASE i = Len(queue) + 1
      <4>1. Consumed + i = sent + 1
        BY <1>1, <3>1, Lengths
      <4> QED
        BY <1>4, <3>1, <4>1
    <3>2. CASE i # Len(queue) + 1
      <4>1. i \in 1 .. Len(queue)
        BY <1>1, <1>4, <3>2, Lengths
      <4> QED
        BY <1>1, <1>4, <4>1 DEF InOrder
    <3> QED
      BY <3>1, <3>2
  <2> QED
    BY <1>5, <2>1, <2>2 DEF InOrder
<1>8. Position' /\ AuthStores' /\ Heard' /\ Taken' = Taken
  BY <1>1, <1>5, SameStore DEF Position
<1>9. Timed'
  BY <1>1, <1>8, SameTime
<1> QED
  BY <1>6, <1>7, <1>8, <1>9 DEF IInv

(* The clock is read in one piece: waitc begins, or sees how long it waits.*)
LEMMA ReadClockStep ==
  ASSUME IInv, ReadClock
  PROVE  IInv'
<1>1. /\ TypeOK /\ InOrder /\ Position /\ AuthStores /\ Heard /\ Timed
      /\ pc = "read" /\ ~torn /\ pc' = "test" /\ polled' = TRUE
      /\ s = -1 => s' = ShownAt(now) /\ delta' = 0
      /\ s # -1 => s' = s /\ delta' = (ShownAt(now) - s) % Quad
      /\ torn' = torn /\ leap' = leap /\ now' = now /\ sent' = sent
      /\ queue' = queue /\ stage' = stage /\ tm' = tm /\ sec' = sec
      /\ got' = got /\ from' = from /\ opened' = opened /\ brk' = brk
  BY DEF IInv, ReadClock, Clocked, Shown, ShownAt, record
<1>2. now \in Nat /\ now <= MaxTime /\ ShownAt(now) \in Nat
  <2>1. now \in Nat /\ now <= MaxTime
    BY <1>1, Constants DEF TypeOK
  <2> QED
    BY <1>1, <2>1, ShownType
<1>3. s \in Int /\ s' \in Nat \cup {-1} /\ delta' \in 0 .. Quad - 1
  <2>1. s \in Int
    BY <1>1 DEF TypeOK
  <2>2. ShownAt(now) - s \in Int /\ Quad \in Nat \ {0}
    BY <1>2, <2>1, Constants
  <2>3. (ShownAt(now) - s) % Quad \in 0 .. Quad - 1
    BY <2>2, Mod
  <2>4. 0 \in 0 .. Quad - 1
    BY Constants
  <2>5. delta' \in 0 .. Quad - 1
    BY <1>1, <2>3, <2>4
  <2>6. s' \in Nat \cup {-1}
    BY <1>1, <1>2 DEF TypeOK
  <2> QED
    BY <2>1, <2>5, <2>6
<1>4. TypeOK'
  BY <1>1, <1>3 DEF TypeOK
<1>5. Consumed' = Consumed /\ InOrder' /\ Position' /\ AuthStores' /\ Heard'
      /\ Taken' = Taken
  BY <1>1, SameQueue, SameStore DEF Position
<1>6. Timed'
  <2> SUFFICES ASSUME stage = Window
               PROVE  /\ opened <= now /\ tm \in 1 .. BreakTimeout
                      /\ s' # -1 /\ \E w \in 0 .. MaxTime : Since(w)'
    BY <1>1 DEF Timed
  <2>1. /\ opened \in Nat /\ opened <= now /\ tm \in 1 .. BreakTimeout
        /\ s = -1 => Fresh
        /\ s # -1 => \E w \in 0 .. MaxTime : Since(w)
    BY <1>1 DEF Timed, TypeOK
  <2>2. LastRead' = now /\ NoLeap' = NoLeap
    BY <1>1, <1>2 DEF LastRead, NoLeap
  <2>3. LastRead \in {now - 1, now}
    BY <1>1, <1>2 DEF LastRead
  <2>4. Taken \in Int /\ BreakTimeout \in Nat /\ BreakTimeout < Quad
    BY <1>1, Lengths, Constants DEF Taken, TypeOK
  <2>5. NoLeap => (\A t \in opened .. now : now >= leap[1] => t >= leap[1])
    BY <1>1, <1>2, <2>1, LeapType DEF NoLeap
  <2>6. CASE s = -1
    <3>1. /\ now - opened <= (BreakTimeout - tm) + 2 * Taken + (now - LastRead)
          /\ NoLeap => BreakTimeout - tm <= now - opened
      BY <2>1, <2>6 DEF Fresh
    <3>2. PICK w \in 0 .. MaxTime : w = now
      BY <1>2
    <3>3. w \in opened .. now /\ now - w = 0
      BY <1>2, <2>1, <3>2
    <3>4. w - opened <= (BreakTimeout - tm) + 2 * Taken + 1
      BY <1>2, <2>1, <2>3, <2>4, <3>1, <3>2
    <3>5. s' = ShownAt(w)' /\ delta' = 0 /\ s' # -1
      BY <1>1, <1>2, <2>6, <3>2 DEF ShownAt
    <3>6. Since(w)'
      BY <1>1, <1>2, <1>5, <2>1, <2>2, <3>1, <3>2, <3>3, <3>4, <3>5 DEF Since
    <3> QED
      BY <2>1, <3>5, <3>6
  <2>7. CASE s # -1
    <3>1. PICK w \in 0 .. MaxTime : Since(w)
      BY <2>1, <2>7
    <3>2. /\ w \in opened .. LastRead /\ s = ShownAt(w)
          /\ LastRead - w < tm
          /\ w - opened <= (BreakTimeout - tm) + 2 * Taken + 1
          /\ NoLeap => BreakTimeout - tm <= w - opened
      BY <1>1, <3>1 DEF Since
    <3>3. w \in Nat /\ w \in opened .. now /\ now - w <= tm /\ now - w <= BreakTimeout
      BY <1>2, <2>1, <2>3, <2>4, <3>2
    <3>4. delta' = (ShownAt(now) - ShownAt(w)) % Quad
      BY <1>1, <2>7, <3>2
    <3>5. now - w <= delta' /\ (NoLeap => delta' <= now - w)
      BY <1>1, <1>2, <2>5, <3>3, <3>4, Elapsed
    <3>6. s' = ShownAt(w)' /\ s' # -1
      BY <1>1, <2>7, <3>2 DEF ShownAt
    <3>7. Since(w)'
      BY <1>1, <1>5, <2>2, <3>2, <3>3, <3>5, <3>6 DEF Since
    <3> QED
      BY <2>1, <3>6, <3>7
  <2> QED
    BY <2>6, <2>7
<1> QED
  BY <1>4, <1>5, <1>6 DEF IInv

(* It is read register by register: nothing is said of the time then.      *)
LEMMA ReadTornStep ==
  ASSUME IInv, ReadSec \/ ReadMin
  PROVE  IInv'
<1>1. /\ TypeOK /\ InOrder /\ Position /\ AuthStores /\ Heard
      /\ pc \in {"read", "min"} /\ torn
      /\ torn' = torn /\ leap' = leap /\ now' = now /\ sent' = sent
      /\ queue' = queue /\ stage' = stage /\ tm' = tm
      /\ got' = got /\ from' = from /\ opened' = opened /\ brk' = brk
  BY DEF IInv, ReadSec, ReadMin, record, Position
<1>2. TypeOK' /\ pc' \in {"min", "test"}
  <2>1. CASE ReadSec
    <3>1. sec' = now % SecPerMin /\ pc' = "min" /\ polled' = polled /\ s' = s
          /\ delta' = delta
      BY <2>1 DEF ReadSec
    <3>2. now \in Int /\ SecPerMin \in Nat \ {0}
      BY <1>1, Constants DEF TypeOK
    <3>3. now % SecPerMin \in 0 .. SecPerMin - 1
      BY <3>2, Mod
    <3> QED
      BY <1>1, <3>1, <3>3 DEF TypeOK
  <2>2. CASE ReadMin
    <3> DEFINE t == (now \div SecPerMin) * SecPerMin + sec
    <3>1. /\ pc' = "test" /\ polled' = TRUE /\ sec' = sec
          /\ s = -1 => s' = t /\ delta' = 0
          /\ s # -1 => s' = s /\ delta' = (t - s) % Quad
      BY <2>2 DEF ReadMin, Clocked
    <3>2. now \in Nat /\ sec \in Nat /\ s \in Int /\ SecPerMin \in Nat \ {0}
      BY <1>1, Constants DEF TypeOK
    <3>3. now \div SecPerMin \in Nat
      BY <3>2, SMT
    <3>4. (now \div SecPerMin) * SecPerMin \in Nat
      BY <3>2, <3>3, SMT
    <3>5. t \in Nat
      BY <3>2, <3>4
    <3> HIDE DEF t
    <3>6. (t - s) % Quad \in 0 .. Quad - 1
      <4>1. t - s \in Int /\ Quad \in Nat \ {0}
        BY <3>2, <3>5, Constants
      <4> QED
        BY <4>1, Mod
    <3>7. delta' \in 0 .. Quad - 1
      <4>1. 0 \in 0 .. Quad - 1
        BY Constants
      <4> QED
        BY <3>1, <3>6, <4>1
    <3>8. s' \in Nat \cup {-1}
      BY <1>1, <3>1, <3>5 DEF TypeOK
    <3> QED
      BY <1>1, <3>1, <3>7, <3>8 DEF TypeOK
  <2> QED
    BY <2>1, <2>2
<1>3. Consumed' = Consumed /\ InOrder' /\ AuthStores' /\ Heard'
  BY <1>1, SameQueue, SameStore
<1>4. Position' /\ Timed'
  BY <1>1, <1>2, <1>3 DEF Position, Timed
<1> QED
  BY <1>2, <1>3, <1>4 DEF IInv

(* waitc looks again: what it waited so far is less than the timeout.      *)
LEMMA WaitOnStep ==
  ASSUME IInv, WaitOn
  PROVE  IInv'
<1>1. /\ TypeOK /\ InOrder /\ Position /\ AuthStores /\ Heard /\ Timed
      /\ pc = "test" /\ delta < tm /\ pc' = "read"
      /\ torn' = torn /\ leap' = leap /\ now' = now /\ polled' = polled
      /\ sent' = sent /\ queue' = queue /\ stage' = stage
      /\ tm' = tm /\ sec' = sec /\ s' = s /\ delta' = delta
      /\ got' = got /\ from' = from /\ opened' = opened /\ brk' = brk
  BY DEF IInv, WaitOn, TimeLeft, wait, record
<1>2. TypeOK'
  BY <1>1 DEF TypeOK
<1>3. Consumed' = Consumed /\ InOrder' /\ Position' /\ AuthStores' /\ Heard'
      /\ Taken' = Taken
  BY <1>1, SameQueue, SameStore DEF Position
<1>4. Timed'
  <2> SUFFICES ASSUME ~torn, stage = Window
               PROVE  /\ opened <= now /\ tm \in 1 .. BreakTimeout
                      /\ s # -1 /\ \E w \in 0 .. MaxTime : Since(w)'
    BY <1>1 DEF Timed
  <2>1. /\ opened <= now /\ tm \in 1 .. BreakTimeout /\ s # -1
        /\ \E w \in 0 .. MaxTime : Since(w)
    BY <1>1 DEF Timed, Fresh
  <2>2. PICK w \in 0 .. MaxTime : Since(w)
    BY <2>1
  <2>3. /\ LastRead' = LastRead /\ NoLeap' = NoLeap /\ ShownAt(w)' = ShownAt(w)
        /\ LastRead \in Int /\ tm \in Int /\ delta \in Int
    BY <1>1, Constants DEF LastRead, NoLeap, ShownAt, TypeOK
  <2>4. LastRead - w < tm
    BY <1>1, <2>2, <2>3 DEF Since
  <2>5. Since(w)'
    BY <1>1, <1>3, <2>2, <2>3, <2>4 DEF Since
  <2> QED
    BY <2>1, <2>5
<1> QED
  BY <1>2, <1>3, <1>4 DEF IInv

-----------------------------------------------------------------------------
(* The authorization.                                                      *)

LEMMA RestType ==
  ASSUME TypeOK
  PROVE  Rest \in 0 .. Quad - 1
<1>1. tm - delta \in Int /\ Quad \in Nat \ {0}
  BY Constants DEF TypeOK
<1> QED
  BY <1>1, Mod DEF Rest

(* The character c stages take is where the next one begins.               *)
LEMMA StoresNext ==
  ASSUME TypeOK, InOrder, AuthStores, stage \in Auth,
         NEW c \in 0 .. Len(Chars), NextStage(c), got' = got, Consumed' = c,
         c = Consumed \/ (c = Consumed + 1 /\ Len(got[stage]) = Need[stage])
  PROVE  AuthStores'
<1>1. /\ stage' = stage + 1 /\ stage \in Nat /\ stage >= 1 /\ stage + 1 \in 1 .. Window
      /\ from' = [from EXCEPT ![stage + 1] = c]
      /\ from \in [1 .. Window -> 0 .. Len(Chars)] /\ Len(Chars) \in Nat
  BY Constants, Lengths DEF NextStage, Auth, Window, TypeOK
<1>2. /\ from'[stage + 1] = c
      /\ \A a \in 1 .. Window : a # stage + 1 => from'[a] = from[a]
  BY <1>1
<1>3. from'[1] = 0
  BY <1>1, <1>2, Constants DEF AuthStores
<1>4. ASSUME NEW a \in Auth
      PROVE  Stored(a)'
  <2>1. a \in Nat /\ a \in 1 .. Window /\ a + 1 \in 1 .. Window
    BY Constants DEF Auth, Window
  <2>2. Stored(a)
    BY DEF AuthStores
  <2>3. CASE a < stage
    <3>1. from'[a] = from[a] /\ from'[a + 1] = from[a + 1]
      BY <1>1, <1>2, <2>1, <2>3
    <3> QED
      BY <1>1, <2>1, <2>2, <2>3, <3>1 DEF Stored
  <2>4. CASE a = stage
    <3>1. from'[a] = from[a] /\ from'[a + 1] = c
      BY <1>1, <1>2, <2>1, <2>4
    <3>2. /\ got[a] = SubSeq(Chars, from[a] + 1, from[a] + Len(got[a]))
          /\ Consumed = from[a] + Len(got[a])
      BY <2>1, <2>2, <2>4 DEF Stored
    <3> QED
      BY <1>1, <2>1, <2>4, <3>1, <3>2 DEF Stored
  <2>5. CASE a = stage + 1
    <3>1. got[a] = <<>> /\ from'[a] = c
      BY <1>1, <1>2, <2>1, <2>2, <2>5 DEF Stored
    <3>2. Len(got[a]) = 0
      BY <3>1
    <3>3. c + 0 = c /\ SubSeq(Chars, c + 1, c) = <<>>
      BY SubSeqEmpty
    <3> QED
      BY <1>1, <2>1, <2>5, <3>1, <3>2, <3>3 DEF Stored
  <2>6. CASE a > stage + 1
    BY <1>1, <2>1, <2>2, <2>6 DEF Stored
  <2> QED
    BY <1>1, <2>1, <2>3, <2>4, <2>5, <2>6
<1> QED
  BY <1>3, <1>4 DEF AuthStores

(* When a stage is over, the next one or the wait for BREAK begins.        *)
LEMMA StageOver ==
  ASSUME TypeOK, InOrder, Position, AuthStores, Heard, stage \in Auth, pc = "test",
         NEW c \in 0 .. Len(Chars), NextStage(c), Consumed' = c,
         c = Consumed \/ (c = Consumed + 1 /\ Len(got[stage]) = Need[stage]),
         torn' = torn, leap' = leap, now' = now, polled' = polled, sent' = sent,
         queue' \in Seq(Content), InOrder', got' = got, brk' = brk
  PROVE  IInv'
<1>1. /\ stage' = stage + 1 /\ stage + 1 \in 1 .. Window
      /\ from' = [from EXCEPT ![stage + 1] = c]
      /\ tm' = IF stage' = Window THEN BreakTimeout ELSE Rest
      /\ s' = -1 /\ delta' = 0 /\ sec' = 0 /\ pc' = "read"
      /\ opened' = IF stage' = Window THEN now ELSE opened
  BY Constants DEF NextStage, Again, Auth, Window
<1>2. TypeOK'
  <2>1. /\ tm' \in 0 .. Quad - 1 /\ delta' \in 0 .. Quad - 1
        /\ sec' \in 0 .. SecPerMin - 1
    <3>1. BreakTimeout \in 0 .. Quad - 1 /\ 0 \in 0 .. Quad - 1
          /\ 0 \in 0 .. SecPerMin - 1
      BY Constants
    <3> QED
      BY <1>1, <3>1, RestType
  <2>2. from' \in [1 .. Window -> 0 .. Len(Chars)]
    BY <1>1 DEF TypeOK
  <2>3. opened' \in 0 .. MaxTime /\ stage' \in 1 .. Window
    BY <1>1 DEF TypeOK
  <2> QED
    BY <1>1, <2>1, <2>2, <2>3 DEF TypeOK
<1>3. AuthStores'
  BY StoresNext
<1>4. ~brk
  BY DEF Position
<1>5. stage' = Window => from'[Window] = c /\ Taken' = 0
  <2>1. stage' = Window => from'[Window] = c
    BY <1>1 DEF TypeOK
  <2> QED
    BY <2>1 DEF Taken
<1>6. Position' /\ Heard'
  <2>1. Position'
    BY <1>1, <1>4, <1>5 DEF Position
  <2>2. \A k \in c + 1 .. c : FALSE
    OBVIOUS
  <2> QED
    BY <1>4, <1>5, <2>1, <2>2 DEF Heard
<1>7. Timed'
  <2> SUFFICES ASSUME stage' = Window
               PROVE  opened' <= now' /\ tm' \in 1 .. BreakTimeout /\ Fresh'
    BY <1>1 DEF Timed
  <2>1. opened' = now /\ tm' = BreakTimeout
    BY <1>1
  <2>2. now \in Nat /\ BreakTimeout \in Nat /\ BreakTimeout >= 1
    BY Constants DEF TypeOK
  <2>3. now' - LastRead' \in {0, 1} /\ now' - opened' = 0
    BY <2>1, <2>2 DEF LastRead
  <2>4. BreakTimeout - tm' = 0 /\ 2 * Taken' = 0
    BY <1>5, <2>1, <2>2
  <2>5. Fresh'
    BY <1>1, <2>3, <2>4 DEF Fresh
  <2> QED
    BY <2>1, <2>2, <2>5
<1> QED
  BY <1>2, <1>3, <1>6, <1>7 DEF IInv

LEMMA AuthCharStep ==
  ASSUME IInv, AuthChar
  PROVE  IInv'
<1>1. /\ TypeOK /\ InOrder /\ Position /\ AuthStores /\ Heard
      /\ pc = "test" /\ stage \in Auth /\ queue # <<>> /\ queue' = Tail(queue)
      /\ torn' = torn /\ leap' = leap /\ now' = now /\ polled' = polled
      /\ sent' = sent /\ brk' = brk
  BY DEF IInv, AuthChar
<1>2. /\ queue' \in Seq(Content) /\ InOrder'
      /\ Consumed' = Consumed + 1 /\ Consumed + 1 \in 1 .. Len(Chars)
      /\ Head(queue) = Chars[Consumed + 1] /\ Head(queue) \in Content
  BY <1>1, Taking
<1>3. /\ got[stage] \in Seq(Content) /\ Len(got[stage]) \in Nat
      /\ Len(got[stage]) <= Need[stage] /\ Need[stage] \in Nat
      /\ stage \in Nat /\ stage < Window /\ Len(Chars) \in Nat
  <2>1. got[stage] \in Seq(Content) /\ Len(got[stage]) <= Need[stage]
    BY <1>1 DEF TypeOK
  <2> QED
    BY <1>1, <2>1, Constants, Lengths DEF Auth, Window
<1>4. CASE StageFull
  <2>1. NextStage(Consumed + 1) /\ got' = got
    BY <1>4 DEF AuthChar
  <2>2. Len(got[stage]) = Need[stage]
    BY <1>3, <1>4 DEF StageFull
  <2>3. Consumed + 1 \in 0 .. Len(Chars)
    BY <1>2
  <2> QED
    BY <1>1, <1>2, <2>1, <2>2, <2>3, StageOver
<1>5. CASE ~StageFull
  <2>1. /\ got' = [got EXCEPT ![stage] = Append(@, Head(queue))]
        /\ tm' = AuthTimeout /\ s' = -1 /\ delta' = 0 /\ sec' = 0 /\ pc' = "read"
        /\ stage' = stage /\ from' = from /\ opened' = opened
    BY <1>5 DEF AuthChar, Again
  <2>2. /\ Append(got[stage], Head(queue)) \in Seq(Content)
        /\ Len(Append(got[stage], Head(queue))) = Len(got[stage]) + 1
    BY <1>2, <1>3, AppendProperties
  <2>3. /\ got'[stage] = Append(got[stage], Head(queue))
        /\ \A a \in Auth : a # stage => got'[a] = got[a]
    BY <1>1, <2>1 DEF TypeOK
  <2>4. TypeOK'
    <3>1. got' \in [Auth -> Seq(Content)]
      BY <1>1, <2>1, <2>2 DEF TypeOK
    <3>2. ASSUME NEW a \in Auth PROVE Len(got'[a]) <= Need[a]
      <4>1. a # stage => Len(got'[a]) <= Need[a]
        BY <1>1, <2>3 DEF TypeOK
      <4>2. Len(got'[stage]) <= Need[stage]
        BY <1>3, <1>5, <2>2, <2>3 DEF StageFull
      <4> QED
        BY <4>1, <4>2
    <3>3. /\ tm' \in 0 .. Quad - 1 /\ delta' \in 0 .. Quad - 1
          /\ sec' \in 0 .. SecPerMin - 1
      BY <2>1, Constants
    <3> QED
      BY <1>1, <1>2, <2>1, <3>1, <3>2, <3>3 DEF TypeOK
  <2>5. AuthStores'
    <3>1. from'[1] = 0
      BY <1>1, <2>1 DEF AuthStores
    <3>2. ASSUME NEW a \in Auth
          PROVE  Stored(a)'
      <4>1. a \in Nat /\ stage \in Nat /\ Stored(a)
        BY <1>1, Constants DEF Auth, AuthStores
      <4>2. CASE a # stage
        BY <2>1, <2>3, <4>1, <4>2 DEF Stored
      <4>3. CASE a = stage
        <5>1. from[stage] \in 0 .. Len(Chars) /\ stage \in 1 .. Window
          BY <1>1, <1>3, Constants DEF TypeOK
        <5>2. /\ got[stage] = SubSeq(Chars, from[stage] + 1, Consumed)
              /\ Consumed = from[stage] + Len(got[stage])
          BY <4>1, <4>3 DEF Stored
        <5>3. Consumed \in from[stage] .. Len(Chars) - 1
          <6>1. Len(Chars) \in Nat /\ Len(got[stage]) \in Nat
            BY <1>3
          <6>2. from[stage] \in Nat
            BY <5>1, <6>1
          <6>3. Consumed = from[stage] + Len(got[stage])
            BY <5>2
          <6> QED
            BY <1>2, <6>1, <6>2, <6>3
        <5>4. Chars \in Seq(Content)
          BY ConsoleAssumption
        <5>5. SubSeq(Chars, from[stage] + 1, Consumed + 1)
                = Append(SubSeq(Chars, from[stage] + 1, Consumed), Chars[Consumed + 1])
          BY <5>1, <5>3, <5>4, Grow
        <5>6. got'[stage] = SubSeq(Chars, from[stage] + 1, Consumed + 1)
          BY <1>2, <2>3, <5>2, <5>5
        <5>7. from[stage] + Len(got'[stage]) = Consumed + 1
          BY <1>3, <2>2, <2>3, <5>1, <5>2
        <5>8. from'[a] = from[stage] /\ got'[a] = got'[stage] /\ stage' = a
          BY <2>1, <4>3
        <5>9. from'[a] + Len(got'[a]) = Consumed' /\ Consumed' = Consumed + 1
          BY <1>2, <5>7, <5>8
        <5>10. got'[a] = SubSeq(Chars, from'[a] + 1, from'[a] + Len(got'[a]))
          BY <5>6, <5>8, <5>9
        <5> QED
          BY <4>1, <5>8, <5>9, <5>10 DEF Stored
      <4> QED
        BY <4>2, <4>3
    <3> QED
      BY <3>1, <3>2 DEF AuthStores
  <2>6. Position' /\ Heard' /\ Timed'
    BY <1>1, <1>3, <2>1 DEF Position, Heard, Timed
  <2> QED
    BY <1>2, <2>4, <2>5, <2>6 DEF IInv
<1> QED
  BY <1>4, <1>5

LEMMA AuthTimedOutStep ==
  ASSUME IInv, AuthTimedOut
  PROVE  IInv'
<1>1. /\ TypeOK /\ InOrder /\ Position /\ AuthStores /\ Heard
      /\ pc = "test" /\ stage \in Auth /\ NextStage(Consumed)
      /\ torn' = torn /\ leap' = leap /\ now' = now /\ polled' = polled
      /\ sent' = sent /\ queue' = queue /\ got' = got /\ brk' = brk
  BY DEF IInv, AuthTimedOut
<1>2. Consumed' = Consumed /\ InOrder' /\ queue' \in Seq(Content)
  BY <1>1, SameQueue DEF TypeOK
<1>3. Consumed \in 0 .. Len(Chars)
  BY <1>1, Lengths
<1> QED
  BY <1>1, <1>2, <1>3, StageOver

-----------------------------------------------------------------------------
(* The wait for BREAK.                                                     *)

(* In the wait, when waitc has read the clock: how long the wait lasts is  *)
(* what waitc was charged for before, and what it sees now.                *)
LEMMA Waiting ==
  ASSUME TypeOK, Timed, stage = Window, pc = "test", ~torn
  PROVE  /\ opened <= now /\ tm \in 1 .. BreakTimeout
         /\ LastRead \in Int /\ LastRead <= now /\ Taken \in Int
         /\ LastRead - opened <= BreakTimeout + 2 * Taken + 1
         /\ LastRead - opened <= (BreakTimeout - tm) + delta + 2 * Taken + 1
         /\ NoLeap => /\ BreakTimeout - tm + delta <= now - opened
                      /\ ~TimeLeft => BreakTimeout <= now - opened
<1>1. /\ opened <= now /\ tm \in 1 .. BreakTimeout
      /\ s = -1 => Fresh
      /\ s # -1 => \E w \in 0 .. MaxTime : Since(w)
  BY DEF Timed
<1>2. PICK w \in 0 .. MaxTime : Since(w)
  BY <1>1 DEF Fresh
<1>3. /\ now \in Nat /\ opened \in Nat /\ delta \in Nat /\ w \in Nat
      /\ BreakTimeout \in Nat
  BY Constants DEF TypeOK
<1>4. LastRead \in Int /\ LastRead <= now
  BY <1>3 DEF LastRead
<1>5. Taken \in Int
  <2>1. from[Window] \in 0 .. Len(Chars)
    BY Constants DEF TypeOK
  <2> QED
    BY <2>1, Lengths DEF Taken
<1>6. /\ LastRead - w <= tm /\ LastRead - w <= delta
      /\ NoLeap => delta <= LastRead - w
      /\ w - opened <= (BreakTimeout - tm) + 2 * Taken + 1
      /\ NoLeap => BreakTimeout - tm <= w - opened
  BY <1>2 DEF Since
<1>7. /\ LastRead - opened <= BreakTimeout + 2 * Taken + 1
      /\ LastRead - opened <= (BreakTimeout - tm) + delta + 2 * Taken + 1
  BY <1>1, <1>3, <1>4, <1>5, <1>6
<1>8. NoLeap => /\ BreakTimeout - tm + delta <= now - opened
                /\ ~TimeLeft => BreakTimeout <= now - opened
  BY <1>1, <1>3, <1>4, <1>6 DEF TimeLeft
<1> QED
  BY <1>1, <1>4, <1>5, <1>7, <1>8

LEMMA BreakCharStep ==
  ASSUME IInv, BreakChar
  PROVE  IInv'
<1>1. /\ TypeOK /\ InOrder /\ Position /\ AuthStores /\ Heard /\ Timed
      /\ pc = "test" /\ stage = Window /\ TimeLeft
      /\ queue # <<>> /\ queue' = Tail(queue)
      /\ torn' = torn /\ leap' = leap /\ now' = now /\ polled' = polled
      /\ sent' = sent /\ stage' = stage /\ got' = got /\ from' = from
      /\ opened' = opened
  BY DEF IInv, BreakChar
<1>2. /\ queue' \in Seq(Content) /\ InOrder'
      /\ Consumed' = Consumed + 1 /\ Consumed + 1 \in 1 .. Len(Chars)
      /\ Head(queue) = Chars[Consumed + 1]
  BY <1>1, Taking
<1>3. ~brk /\ from[Window] <= Consumed
  BY <1>1 DEF Position
<1>4. \/ brk' /\ pc' = "boot" /\ wait' = wait /\ Head(queue) = Break
      \/ ~brk' /\ Again(Rest) /\ Head(queue) # Break
  BY <1>1, <1>3 DEF BreakChar, IsBreak
<1>5. from[Window] \in Nat /\ Consumed \in Int /\ tm \in Int /\ delta \in Nat
  <2>1. from[Window] \in 0 .. Len(Chars)
    BY <1>1, Constants DEF TypeOK
  <2> QED
    BY <1>1, <2>1, Lengths, Constants DEF TypeOK
<1>6. ~brk' => Rest = tm - delta
  <2>1. tm - delta \in 0 .. Quad - 1 /\ Quad \in Nat \ {0}
    BY <1>1, <1>5, Constants DEF TimeLeft, TypeOK
  <2>2. tm - delta \in Int
    BY <1>5
  <2>3. (tm - delta) % Quad = tm - delta
    BY <2>1, <2>2, Mod
  <2> QED
    BY <2>3 DEF Rest
<1>7. TypeOK'
  <2>1. brk' \in BOOLEAN /\ pc' \in {"read", "boot"}
    <3>1. brk' = TRUE \/ brk' = brk
      BY DEF BreakChar
    <3>2. pc' \in {"read", "boot"}
      BY <1>4 DEF Again
    <3> QED
      BY <1>1, <3>1, <3>2 DEF TypeOK
  <2>2. /\ tm' \in 0 .. Quad - 1 /\ delta' \in 0 .. Quad - 1
        /\ sec' \in 0 .. SecPerMin - 1 /\ s' \in Nat \cup {-1}
    <3>1. CASE wait' = wait
      BY <1>1, <3>1 DEF wait, TypeOK
    <3>2. CASE Again(Rest)
      <4>1. 0 \in 0 .. Quad - 1 /\ 0 \in 0 .. SecPerMin - 1
        BY Constants
      <4> QED
        BY <1>1, <3>2, <4>1, RestType DEF Again
    <3> QED
      BY <1>4, <3>1, <3>2
  <2> QED
    BY <1>1, <1>2, <2>1, <2>2 DEF TypeOK
<1>8. AuthStores'
  <2>1. ASSUME NEW a \in Auth PROVE Stored(a)'
    <3>1. a < stage /\ Stored(a)
      BY <1>1, Constants DEF Auth, Window, AuthStores
    <3>2. a # stage /\ a \in Nat /\ stage \in Nat
      BY <1>1, Constants DEF Auth, Window
    <3> QED
      BY <1>1, <3>1, <3>2 DEF Stored
  <2> QED
    BY <1>1, <2>1 DEF AuthStores
<1>9. Heard'
  <2>1. \A k \in from[Window] + 1 .. Consumed : Chars[k] # Break
    BY <1>1, <1>3 DEF Heard
  <2>2. \A k \in from[Window] + 1 .. Consumed + 1 :
          k = Consumed + 1 \/ k \in from[Window] + 1 .. Consumed
    BY <1>5
  <2>3. Consumed + 1 \in from[Window] + 1 .. Consumed + 1
    BY <1>3, <1>5
  <2>4. brk' <=> Chars[Consumed + 1] = Break
    BY <1>2, <1>4
  <2>5. brk' <=> \E k \in from[Window] + 1 .. Consumed + 1 : Chars[k] = Break
    BY <2>1, <2>2, <2>3, <2>4
  <2> QED
    BY <1>1, <1>2, <2>5 DEF Heard
<1>10. Position'
  BY <1>1, <1>2, <1>3, <1>4, <1>5 DEF Position, Again
<1>11. Timed'
  <2> SUFFICES ASSUME ~torn
               PROVE  /\ opened' <= now'
                      /\ pc' = "boot" => Ended'
                      /\ pc' # "boot" => /\ tm' \in 1 .. BreakTimeout
                                         /\ s' = -1 /\ Fresh'
    BY <1>1 DEF Timed
  <2>1. /\ opened <= now /\ tm \in 1 .. BreakTimeout
        /\ LastRead \in Int /\ LastRead <= now /\ Taken \in Int
        /\ LastRead - opened <= BreakTimeout + 2 * Taken + 1
        /\ LastRead - opened <= (BreakTimeout - tm) + delta + 2 * Taken + 1
        /\ NoLeap => BreakTimeout - tm + delta <= now - opened
    BY <1>1, Waiting
  <2>2. /\ LastRead' = LastRead /\ NoLeap' = NoLeap /\ Taken' = Taken + 1
        /\ now \in Nat /\ opened \in Nat /\ BreakTimeout \in Nat
    BY <1>1, <1>2, <1>5, Constants DEF LastRead, NoLeap, Taken, TypeOK
  <2>3. CASE brk'
    <3>1. pc' = "boot"
      BY <1>4, <2>3
    <3>2. Ended'
      BY <1>1, <2>1, <2>2, <2>3 DEF Ended
    <3> QED
      BY <1>1, <2>1, <3>1, <3>2
  <2>4. CASE ~brk'
    <3>1. tm' = tm - delta /\ s' = -1 /\ pc' = "read"
      BY <1>4, <1>6, <2>4 DEF Again
    <3>2. tm' \in 1 .. BreakTimeout
      BY <1>1, <1>5, <2>1, <2>2, <3>1 DEF TimeLeft
    <3>3. /\ now - opened <= (BreakTimeout - tm') + 2 * (Taken + 1) + (now - LastRead)
          /\ NoLeap => BreakTimeout - tm' <= now - opened
      BY <1>5, <2>1, <2>2, <3>1
    <3>4. Fresh'
      BY <1>1, <2>2, <3>1, <3>3 DEF Fresh
    <3> QED
      BY <1>1, <2>1, <3>1, <3>2, <3>4
  <2> QED
    BY <2>3, <2>4
<1> QED
  BY <1>2, <1>7, <1>8, <1>9, <1>10, <1>11 DEF IInv

LEMMA WindowOverStep ==
  ASSUME IInv, WindowOver
  PROVE  IInv'
<1>1. /\ TypeOK /\ InOrder /\ Position /\ AuthStores /\ Heard /\ Timed
      /\ pc = "test" /\ stage = Window /\ ~TimeLeft /\ pc' = "boot"
      /\ torn' = torn /\ leap' = leap /\ now' = now /\ polled' = polled
      /\ sent' = sent /\ queue' = queue /\ stage' = stage
      /\ tm' = tm /\ sec' = sec /\ s' = s /\ delta' = delta
      /\ got' = got /\ from' = from /\ opened' = opened /\ brk' = brk
  BY DEF IInv, WindowOver, wait, record
<1>2. TypeOK'
  BY <1>1 DEF TypeOK
<1>3. Consumed' = Consumed /\ InOrder' /\ AuthStores' /\ Heard' /\ Taken' = Taken
  BY <1>1, SameQueue, SameStore
<1>4. Position'
  BY <1>1, <1>3 DEF Position
<1>5. Timed'
  <2> SUFFICES ASSUME ~torn PROVE opened <= now /\ Ended'
    BY <1>1 DEF Timed
  <2>1. /\ opened <= now /\ LastRead \in Int /\ Taken \in Int
        /\ LastRead - opened <= BreakTimeout + 2 * Taken + 1
        /\ NoLeap => BreakTimeout <= now - opened
    BY <1>1, Waiting
  <2>2. /\ LastRead' = LastRead /\ NoLeap' = NoLeap
        /\ now \in Nat /\ opened \in Nat /\ BreakTimeout \in Nat
    BY <1>1, Constants DEF LastRead, NoLeap, TypeOK
  <2>3. now - opened <= BreakTimeout + 2 * Taken + 1 + (now - LastRead)
    BY <2>1, <2>2
  <2>4. Ended'
    BY <1>1, <1>3, <2>1, <2>2, <2>3 DEF Ended
  <2> QED
    BY <2>1, <2>4
<1> QED
  BY <1>2, <1>3, <1>4, <1>5 DEF IInv

LEMMA Stutter ==
  ASSUME IInv, UNCHANGED vars
  PROVE  IInv'
<1>1. /\ torn' = torn /\ leap' = leap /\ now' = now /\ polled' = polled
      /\ sent' = sent /\ queue' = queue /\ pc' = pc /\ stage' = stage
      /\ wait' = wait /\ got' = got /\ from' = from /\ opened' = opened
      /\ brk' = brk
  BY DEF vars, record
<1>2. TypeOK'
  BY <1>1 DEF IInv, TypeOK, wait
<1>3. Consumed' = Consumed /\ InOrder' /\ AuthStores' /\ Heard' /\ Taken' = Taken
  BY <1>1, SameQueue, SameStore DEF IInv
<1>4. Position' /\ Timed'
  BY <1>1, <1>3, SameTime DEF IInv, Position
<1> QED
  BY <1>2, <1>3, <1>4 DEF IInv

LEMMA NextInv == IInv /\ [Next]_vars => IInv'
BY TickStep, SendStep, ReadClockStep, ReadTornStep, WaitOnStep, AuthCharStep,
   AuthTimedOutStep, BreakCharStep, WindowOverStep, Stutter
   DEF Next, Loader

-----------------------------------------------------------------------------
(* What the loader keeps, whatever the clock does and whatever is sent to  *)
(* the console, and when: what the console holds is what was sent and not  *)
(* taken, the stages store what was sent, a BREAK that was taken ends the  *)
(* wait, and what the wait was charged fits the time that went by.         *)
THEOREM Invariance == Spec => []IInv
BY InitInv, NextInv, PTL DEF Spec

(* Each of console_auth's three stages stores what was sent, in its order, *)
(* from where the stage began; the first character behind a full stage is  *)
(* taken and lost, and no other.                                           *)
THEOREM PartsAreWhatWasSent == Spec => []AuthStores
<1>1. IInv => AuthStores
  BY DEF IInv
<1> QED
  BY <1>1, Invariance, PTL

(* No BREAK that the wait took from the console goes unheard, and nothing  *)
(* else is taken for one, also if the clock is misread or leaps.  Nothing  *)
(* is said of what the console still holds when the wait is over.          *)
THEOREM NoBreakIsLost == Spec => []BreakIsHeard
<1>1. IInv => BreakIsHeard
  BY DEF IInv, Heard, Position, BreakIsHeard
<1> QED
  BY <1>1, Invariance, PTL

(* Without a BREAK the loader waits as long as it says, if its clock is    *)
(* always read in one piece and the hours do not leap meanwhile; a read    *)
(* that the clock's own update tears apart may end the wait early.         *)
THEOREM WaitsLongEnough == Spec => []WindowLasts
<1>1. IInv => WindowLasts
  BY DEF IInv, Position, Timed, Ended, NoLeap, WindowLasts
<1> QED
  BY <1>1, Invariance, PTL

(* With a clock read in one piece it does not wait much longer: a          *)
(* character may cost two seconds, and no leap prolongs the wait.          *)
THEOREM WaitsNoLonger == Spec => []WindowBounded
<1>1. IInv => WindowBounded
  <2> SUFFICES ASSUME IInv, pc = "boot", ~torn
               PROVE  now - opened <= BreakTimeout + 2 * (Taken + 1)
    BY DEF IInv, WindowBounded
  <2>1. TypeOK /\ Ended /\ stage = Window
    BY DEF IInv, Position, Timed
  <2>2. now \in Nat /\ opened \in Nat /\ BreakTimeout \in Nat
    BY <2>1, Constants DEF TypeOK
  <2>3. now - LastRead \in {0, 1}
    BY <2>2 DEF LastRead
  <2>4. Taken \in Int
    <3>1. from[Window] \in 0 .. Len(Chars)
      BY <2>1, Constants DEF TypeOK
    <3> QED
      BY <2>1, <3>1, Lengths DEF Taken
  <2>5. now - opened <= BreakTimeout + 2 * Taken + 1 + (now - LastRead)
    BY <2>1 DEF Ended
  <2> QED
    BY <2>2, <2>3, <2>4, <2>5
<1> QED
  BY <1>1, Invariance, PTL
=============================================================================
