--------------------------- MODULE KeyboardProofs ---------------------------
(***************************************************************************)
(* Every key let go is delivered once and in its turn, and as the          *)
(* character its user meant, for every keyboard, every buffer and every    *)
(* length of typing.                                                       *)
(*                                                                         *)
(* The bytes under way are what makes the two ends agree.  IInv pairs the  *)
(* keys let go in fifo with the ones of typed that are not delivered, and  *)
(* (while nothing is blurred) runs the modifiers of the loader over fifo:  *)
(* they end as the user holds them, and at each key let go they give the   *)
(* character that typed holds.                                             *)
(***************************************************************************)
EXTENDS Keyboard, TLAPS

(* What the proofs see of the modifiers, and what a byte does to it.       *)
Mods == [shift : SUBSET Held, lock : BOOLEAN]
Seen(m) == [shift |-> m \intersect Held, lock |-> "caps" \in m]
Meant(d, on) == [shift |-> {k.code : k \in d} \intersect Held, lock |-> on]

After(b, m) ==
  [shift |-> IF b.kind = "key" /\ b.code \in Held
             THEN IF b.up THEN m.shift \ {b.code} ELSE m.shift \union {b.code}
             ELSE m.shift,
   lock |-> IF b.kind = "key" /\ b.code = "caps" /\ ~b.up THEN ~m.lock
            ELSE m.lock]

(* Coming and InTurn of the bytes f, the keys t and n delivered.           *)
Places(f) == {i \in DOMAIN f : f[i].up /\ f[i].code \in Typing}

Aligned(f, t, n, turn) ==
  /\ turn \in [Places(f) -> n + 1 .. Len(t)]
  /\ \A i \in Places(f) : t[turn[i]].code = f[i].code
  /\ \A i, j \in Places(f) : i < j => turn[i] < turn[j]
  /\ \A m \in n + 1 .. Len(t) : \E i \in Places(f) : turn[i] = m

(* The modifiers over f.                                                   *)
Traced(f, after, first, last) ==
  /\ after \in [0 .. Len(f) -> Mods]
  /\ after[0] = first /\ after[Len(f)] = last
  /\ \A i \in 1 .. Len(f) : after[i] = After(f[i], after[i - 1])

CharAt(f, after, i) == Ascii(f[i].code, after[i].shift # {}, after[i].lock)
Marked(f, t, turn, after) ==
  \A i \in Places(f) : t[turn[i]].char = CharAt(f, after, i)

CharOf(b, m) == Ascii(b.code, m.shift # {}, m.lock)

Clears(b) == b.kind = "key" /\ b.code \in Twin /\ b.up
Clear(f) == \A i \in DOMAIN f : ~Clears(f[i])

Sharp(f, t, turn, first, last) ==
  /\ Clear(f)
  /\ \E after \in [0 .. Len(f) -> Mods] :
       Traced(f, after, first, last) /\ Marked(f, t, turn, after)

Paired(f, t, n, blur, first, last) ==
  \E turn \in [Places(f) -> n + 1 .. Len(t)] :
    Aligned(f, t, n, turn) /\ (blur = {} => Sharp(f, t, turn, first, last))

Agreed(d, t, blur) ==
  /\ Len(d) <= Len(t)
  /\ \A i \in DOMAIN d : /\ d[i].code = t[i].code
                         /\ blur = {} => d[i] = t[i]

IInv ==
  /\ TypeOK
  /\ pc # "idle" => ~recieved
  /\ Agreed(Delivered, typed, blurred)
  /\ Paired(fifo, typed, Len(Delivered), blurred, Seen(mod), Meant(down, caps))

-----------------------------------------------------------------------------
(* The bytes under way.                                                    *)

LEMMA ByteFacts ==
  ASSUME NEW b \in Byte
  PROVE  /\ b.kind \in {"key", "esc0", "esc1", "error", "mouse"}
         /\ b.up \in BOOLEAN
         /\ b.kind = "key" => b.code \in Typing \union Held \union Twin \union Lock
         /\ b.kind # "key" => b.code = "" /\ ~b.up
<1>1. CASE \E k \in Typing \union Held \union Twin \union Lock, up \in BOOLEAN :
             b = Code(k, up)
  <2>1. PICK k \in Typing \union Held \union Twin \union Lock, up \in BOOLEAN :
          b = [kind |-> "key", code |-> k, up |-> up]
    BY <1>1 DEF Code
  <2>2. b.kind = "key" /\ b.code = k /\ b.up = up
    BY <2>1
  <2>3. QED
    BY <2>2
<1>2. CASE \E kind \in {"esc0", "esc1", "error", "mouse"} : b = Other(kind)
  <2>1. PICK kind \in {"esc0", "esc1", "error", "mouse"} :
          b = [kind |-> kind, code |-> "", up |-> FALSE]
    BY <1>2 DEF Other
  <2>2. b.kind = kind /\ b.code = "" /\ b.up = FALSE
    BY <2>1
  <2>3. QED
    BY <2>2
<1>3. \/ \E k \in Typing \union Held \union Twin \union Lock, up \in BOOLEAN :
           b = Code(k, up)
      \/ \E kind \in {"esc0", "esc1", "error", "mouse"} : b = Other(kind)
  BY SMT DEF Byte
<1>4. QED
  BY <1>1, <1>2, <1>3

LEMMA SentBytes ==
  /\ \A k \in Typing \union Held \union Twin \union Lock, up \in BOOLEAN :
       Code(k, up) \in Byte
  /\ \A kind \in {"esc0", "esc1", "error", "mouse"} : Other(kind) \in Byte
  BY DEF Byte

LEMMA AfterType ==
  ASSUME NEW b \in Byte, NEW m \in Mods
  PROVE  After(b, m) \in Mods
  BY DEF After, Mods

(* Bytes behind that let go no key that types.                             *)
LEMMA AlignedBehind ==
  ASSUME NEW f \in Seq(Byte), NEW g \in Seq(Byte), Places(g) = {},
         NEW t, NEW n, NEW turn, Aligned(f, t, n, turn)
  PROVE  /\ Places(f \o g) = Places(f)
         /\ Aligned(f \o g, t, n, turn)
<1>1. /\ f \o g \in Seq(Byte) /\ Len(f \o g) = Len(f) + Len(g)
      /\ \A i \in 1 .. Len(f) : (f \o g)[i] = f[i]
      /\ \A i \in Len(f) + 1 .. Len(f) + Len(g) : (f \o g)[i] = g[i - Len(f)]
  OBVIOUS
<1>2. ASSUME NEW i \in Len(f) + 1 .. Len(f) + Len(g)
      PROVE  ~((f \o g)[i].up /\ (f \o g)[i].code \in Typing)
  <2>1. i - Len(f) \in DOMAIN g
    OBVIOUS
  <2>2. QED
    BY <1>1, <2>1 DEF Places
<1>3. Places(f \o g) = Places(f)
  BY <1>1, <1>2 DEF Places
<1>4. \A i \in Places(f) : (f \o g)[i] = f[i]
  BY <1>1 DEF Places
<1>5. QED
  BY <1>3, <1>4 DEF Aligned

(* A key that types is let go.                                             *)
LEMMA AlignedLetGo ==
  ASSUME NEW f \in Seq(Byte), NEW b \in Byte, b.up, b.code \in Typing,
         NEW t \in Seq(Char), NEW x \in Char, x.code = b.code,
         NEW n \in Nat, n <= Len(t), NEW turn, Aligned(f, t, n, turn)
  PROVE  LET next == [i \in Places(Append(f, b)) |->
                        IF i = Len(f) + 1 THEN Len(t) + 1 ELSE turn[i]]
         IN  /\ Aligned(Append(f, b), Append(t, x), n, next)
             /\ Places(Append(f, b)) = Places(f) \union {Len(f) + 1}
             /\ Len(f) + 1 \notin Places(f)
<1> DEFINE F == Append(f, b)
           T == Append(t, x)
           next == [i \in Places(F) |-> IF i = Len(f) + 1 THEN Len(t) + 1 ELSE turn[i]]
<1>1. /\ F \in Seq(Byte) /\ Len(F) = Len(f) + 1 /\ F[Len(f) + 1] = b
      /\ \A i \in 1 .. Len(f) : F[i] = f[i]
      /\ T \in Seq(Char) /\ Len(T) = Len(t) + 1 /\ T[Len(t) + 1] = x
      /\ \A i \in 1 .. Len(t) : T[i] = t[i]
  OBVIOUS
<1> HIDE DEF F, T
<1>2. /\ Places(F) = Places(f) \union {Len(f) + 1}
      /\ Places(f) \subseteq 1 .. Len(f) /\ Len(f) + 1 \notin Places(f)
  BY <1>1 DEF Places
<1>3. \A i \in Places(f) : /\ next[i] = turn[i] /\ turn[i] \in n + 1 .. Len(t)
                           /\ i \in 1 .. Len(f)
  BY <1>2 DEF Aligned
<1>4. next[Len(f) + 1] = Len(t) + 1
  BY <1>2
<1>5. next \in [Places(F) -> n + 1 .. Len(T)]
  <2>1. \A i \in Places(F) : next[i] \in n + 1 .. Len(T)
    BY <1>1, <1>2, <1>3, <1>4
  <2>2. QED
    BY <2>1
<1> HIDE DEF next
<1>6. \A i \in Places(F) : T[next[i]].code = F[i].code
  BY <1>1, <1>2, <1>3, <1>4 DEF Aligned
<1>7. \A i, j \in Places(F) : i < j => next[i] < next[j]
  BY <1>2, <1>3, <1>4 DEF Aligned
<1>8. \A m \in n + 1 .. Len(T) : \E i \in Places(F) : next[i] = m
  <2> SUFFICES ASSUME NEW m \in n + 1 .. Len(T)
               PROVE  \E i \in Places(F) : next[i] = m
    OBVIOUS
  <2>1. CASE m = Len(t) + 1
    BY <2>1, <1>2, <1>4
  <2>2. CASE m # Len(t) + 1
    <3>1. m \in n + 1 .. Len(t)
      BY <2>2, <1>1
    <3>2. PICK i \in Places(f) : turn[i] = m
      BY <3>1 DEF Aligned
    <3>3. QED
      BY <3>2, <1>2, <1>3
  <2>3. QED
    BY <2>1, <2>2
<1>9. Aligned(F, T, n, next)
  BY <1>5, <1>6, <1>7, <1>8 DEF Aligned
<1>10. QED
  BY <1>9, <1>2 DEF F, T, next

Later(turn, f) == [i \in Places(Tail(f)) |-> turn[i + 1]]

(* The first byte is read: when it lets go a key that types, that key is   *)
(* the first that is not delivered.                                        *)
LEMMA AlignedTaken ==
  ASSUME NEW f \in Seq(Byte), f # <<>>, NEW t \in Seq(Char),
         NEW n \in Nat, n <= Len(t), NEW turn, Aligned(f, t, n, turn)
  PROVE  /\ 1 \notin Places(f) => Aligned(Tail(f), t, n, Later(turn, f))
         /\ 1 \in Places(f) => /\ n + 1 <= Len(t)
                               /\ turn[1] = n + 1
                               /\ Aligned(Tail(f), t, n + 1, Later(turn, f))
<1> DEFINE F == Tail(f)
           later == Later(turn, f)
<1>1. /\ F \in Seq(Byte) /\ Len(f) \in Nat /\ Len(f) >= 1 /\ Len(F) = Len(f) - 1
      /\ \A i \in 1 .. Len(f) - 1 : F[i] = f[i + 1]
  OBVIOUS
<1>2. later = [i \in Places(F) |-> turn[i + 1]]
  BY DEF Later
<1> HIDE DEF F, later
<1>3. /\ Places(f) \subseteq 1 .. Len(f)
      /\ \A i \in Places(F) : i \in 1 .. Len(f) - 1 /\ i + 1 \in Places(f)
      /\ \A j \in Places(f) : j # 1 => j - 1 \in Places(F)
  <2>1. Places(f) \subseteq 1 .. Len(f)
    BY DEF Places
  <2>2. ASSUME NEW i \in Places(F)
        PROVE  i \in 1 .. Len(f) - 1 /\ i + 1 \in Places(f)
    BY <1>1, SMTT(30) DEF Places
  <2>3. ASSUME NEW j \in Places(f), j # 1
        PROVE  j - 1 \in Places(F)
    <3>1. PICK h \in 1 .. Len(f) - 1 : j = h + 1 /\ h = j - 1
      BY <2>1, <2>3, <1>1
    <3>2. QED
      BY <3>1, <1>1 DEF Places
  <2>4. QED
    BY <2>1, <2>2, <2>3
<1>4. \A i \in Places(f) : turn[i] \in n + 1 .. Len(t)
  BY DEF Aligned
<1>5. ASSUME 1 \in Places(f)
      PROVE  n + 1 <= Len(t) /\ turn[1] = n + 1
  <2>1. n + 1 \in n + 1 .. Len(t)
    BY <1>4, <1>5
  <2>2. PICK i \in Places(f) : turn[i] = n + 1
    BY <2>1 DEF Aligned
  <2>3. i = 1 \/ turn[1] < turn[i]
    BY <1>3, <1>5 DEF Aligned
  <2>4. QED
    BY <1>4, <1>5, <2>1, <2>2, <2>3
<1>6. ASSUME NEW h \in {n, n + 1}, \A i \in Places(f) : i # 1 => turn[i] >= h + 1,
             \A m \in h + 1 .. Len(t) : \E i \in Places(f) : i # 1 /\ turn[i] = m
      PROVE  Aligned(F, t, h, later)
  <2>1. \A i \in Places(F) : later[i] = turn[i + 1] /\ turn[i + 1] \in h + 1 .. Len(t)
    BY <1>2, <1>3, <1>4, <1>6
  <2>2. later \in [Places(F) -> h + 1 .. Len(t)]
    BY <1>2, <2>1
  <2>3. \A i \in Places(F) : t[later[i]].code = F[i].code
    BY <1>1, <1>3, <2>1, SMTT(30) DEF Aligned
  <2>4. \A i, j \in Places(F) : i < j => later[i] < later[j]
    <3> SUFFICES ASSUME NEW i \in Places(F), NEW j \in Places(F), i < j
                 PROVE  turn[i + 1] < turn[j + 1]
      BY <2>1
    <3>1. i + 1 < j + 1 /\ i + 1 \in Places(f) /\ j + 1 \in Places(f)
      BY <1>3
    <3>2. QED
      BY <3>1 DEF Aligned
  <2>5. ASSUME NEW m \in h + 1 .. Len(t)
        PROVE  \E i \in Places(F) : later[i] = m
    <3>1. PICK i \in Places(f) : i # 1 /\ turn[i] = m
      BY <1>6
    <3>2. i - 1 \in Places(F) /\ (i - 1) + 1 = i
      BY <3>1, <1>3
    <3>3. QED
      BY <3>1, <3>2, <2>1
  <2>6. QED
    BY <2>2, <2>3, <2>4, <2>5 DEF Aligned
<1>7. CASE 1 \notin Places(f)
  <2>1. \A i \in Places(f) : i # 1 => turn[i] >= n + 1
    BY <1>4
  <2>2. \A m \in n + 1 .. Len(t) : \E i \in Places(f) : i # 1 /\ turn[i] = m
    BY <1>7 DEF Aligned
  <2>3. Aligned(F, t, n, later)
    BY <1>6, <2>1, <2>2
  <2>4. QED
    BY <1>7, <2>3 DEF F, later
<1>8. CASE 1 \in Places(f)
  <2>1. \A i \in Places(f) : i # 1 => turn[i] >= (n + 1) + 1
    <3> SUFFICES ASSUME NEW i \in Places(f), i # 1
                 PROVE  turn[i] >= (n + 1) + 1
      OBVIOUS
    <3>1. turn[1] < turn[i]
      BY <1>3, <1>8 DEF Aligned
    <3>2. QED
      BY <3>1, <1>4, <1>5, <1>8
  <2>2. ASSUME NEW m \in (n + 1) + 1 .. Len(t)
        PROVE  \E i \in Places(f) : i # 1 /\ turn[i] = m
    <3>1. m \in n + 1 .. Len(t)
      OBVIOUS
    <3>2. PICK i \in Places(f) : turn[i] = m
      BY <3>1 DEF Aligned
    <3>3. i # 1
      BY <3>2, <1>5, <1>8
    <3>4. QED
      BY <3>2, <3>3
  <2>3. Aligned(F, t, n + 1, later)
    BY <1>6, <2>1, <2>2
  <2>4. QED
    BY <1>5, <1>8, <2>3 DEF F, later
<1>9. QED
  BY <1>7, <1>8


-----------------------------------------------------------------------------
(* The modifiers over the bytes.                                           *)

Then(f, after, b) ==
  [i \in 0 .. Len(f) + 1 |-> IF i = Len(f) + 1 THEN After(b, after[Len(f)])
                             ELSE after[i]]

LEMMA TracedBehind ==
  ASSUME NEW f \in Seq(Byte), NEW b \in Byte, NEW after, NEW first, NEW last,
         Traced(f, after, first, last)
  PROVE  /\ Traced(Append(f, b), Then(f, after, b), first, After(b, last))
         /\ Then(f, after, b) \in [0 .. Len(Append(f, b)) -> Mods]
         /\ \A i \in 0 .. Len(f) : Then(f, after, b)[i] = after[i]
<1> DEFINE F == Append(f, b)
           on == Then(f, after, b)
<1>1. /\ F \in Seq(Byte) /\ Len(F) = Len(f) + 1 /\ F[Len(f) + 1] = b
      /\ \A i \in 1 .. Len(f) : F[i] = f[i]
      /\ Len(f) \in Nat
  OBVIOUS
<1> HIDE DEF F
<1>2. /\ after \in [0 .. Len(f) -> Mods] /\ after[0] = first
      /\ after[Len(f)] = last /\ last \in Mods
  BY <1>1 DEF Traced
<1>3. After(b, last) \in Mods
  BY <1>2, AfterType
<1>4. /\ \A i \in 0 .. Len(f) : on[i] = after[i]
      /\ on[Len(f) + 1] = After(b, last)
  BY <1>1, <1>2 DEF Then
<1>5. on \in [0 .. Len(F) -> Mods]
  BY <1>1, <1>2, <1>3 DEF Then
<1> HIDE DEF on
<1>6. \A i \in 1 .. Len(F) : on[i] = After(F[i], on[i - 1])
  <2> SUFFICES ASSUME NEW i \in 1 .. Len(F)
               PROVE  on[i] = After(F[i], on[i - 1])
    OBVIOUS
  <2>1. CASE i = Len(f) + 1
    <3>1. i - 1 = Len(f) /\ i - 1 \in 0 .. Len(f)
      BY <1>1, <2>1
    <3>2. on[i - 1] = last
      BY <1>2, <1>4, <3>1
    <3> QED
      BY <1>1, <1>4, <2>1, <3>2
  <2>2. CASE i # Len(f) + 1
    <3>1. i \in 1 .. Len(f) /\ i \in 0 .. Len(f) /\ i - 1 \in 0 .. Len(f)
      BY <1>1, <2>2
    <3>2. after[i] = After(f[i], after[i - 1])
      BY <3>1 DEF Traced
    <3> QED
      BY <1>1, <1>4, <3>1, <3>2
  <2> QED
    BY <2>1, <2>2
<1>7. on[0] = first /\ on[Len(F)] = After(b, last)
  BY <1>1, <1>2, <1>4
<1> QED
  BY <1>4, <1>5, <1>6, <1>7 DEF Traced, F, on

(* A byte that lets go no key that types, and clears nothing.              *)
LEMMA SharpBehind ==
  ASSUME NEW f \in Seq(Byte), NEW b \in Byte,
         ~(b.up /\ b.code \in Typing), ~Clears(b),
         NEW t, NEW turn, NEW first, NEW last, Sharp(f, t, turn, first, last)
  PROVE  Sharp(Append(f, b), t, turn, first, After(b, last))
<1> DEFINE F == Append(f, b)
<1>1. /\ F \in Seq(Byte) /\ Len(F) = Len(f) + 1 /\ F[Len(f) + 1] = b
      /\ \A i \in 1 .. Len(f) : F[i] = f[i]
      /\ Len(f) \in Nat
  OBVIOUS
<1>2. PICK after \in [0 .. Len(f) -> Mods] :
        Traced(f, after, first, last) /\ Marked(f, t, turn, after)
  BY DEF Sharp
<1> DEFINE on == Then(f, after, b)
<1>3. /\ Traced(F, on, first, After(b, last))
      /\ on \in [0 .. Len(F) -> Mods]
      /\ \A i \in 0 .. Len(f) : on[i] = after[i]
  BY <1>2, TracedBehind
<1> HIDE DEF F, on
<1>4. Clear(F)
  <2>1. Clear(f)
    BY DEF Sharp
  <2> QED
    BY <1>1, <2>1 DEF Clear
<1>5. Places(F) \subseteq Places(f) /\ Places(f) \subseteq 1 .. Len(f)
  BY <1>1 DEF Places
<1>6. Marked(F, t, turn, on)
  <2> SUFFICES ASSUME NEW i \in Places(F)
               PROVE  t[turn[i]].char = CharAt(F, on, i)
    BY DEF Marked
  <2>1. i \in Places(f) /\ i \in 1 .. Len(f) /\ i \in 0 .. Len(f)
    BY <1>5
  <2>2. t[turn[i]].char = CharAt(f, after, i)
    BY <1>2, <2>1 DEF Marked
  <2>3. F[i] = f[i] /\ on[i] = after[i]
    BY <1>1, <1>3, <2>1
  <2> QED
    BY <2>2, <2>3 DEF CharAt
<1> QED
  BY <1>3, <1>4, <1>6 DEF Sharp, F

(* A key that types is let go with these modifiers.                        *)
LEMMA SharpLetGo ==
  ASSUME NEW f \in Seq(Byte), NEW b \in Byte, b.up, b.code \in Typing,
         NEW t \in Seq(Char), NEW x \in Char,
         NEW turn, NEW next, NEW first, NEW last, Sharp(f, t, turn, first, last),
         x.char = Ascii(b.code, last.shift # {}, last.lock),
         After(b, last) = last,
         Places(Append(f, b)) = Places(f) \union {Len(f) + 1},
         next[Len(f) + 1] = Len(t) + 1,
         \A i \in Places(f) : next[i] = turn[i] /\ turn[i] \in 1 .. Len(t)
  PROVE  Sharp(Append(f, b), Append(t, x), next, first, last)
<1> DEFINE F == Append(f, b)
           T == Append(t, x)
<1>1. /\ F \in Seq(Byte) /\ Len(F) = Len(f) + 1 /\ F[Len(f) + 1] = b
      /\ \A i \in 1 .. Len(f) : F[i] = f[i]
      /\ Len(f) \in Nat
      /\ T[Len(t) + 1] = x
      /\ \A i \in 1 .. Len(t) : T[i] = t[i]
  OBVIOUS
<1>2. PICK after \in [0 .. Len(f) -> Mods] :
        Traced(f, after, first, last) /\ Marked(f, t, turn, after)
  BY DEF Sharp
<1> DEFINE on == Then(f, after, b)
<1>3. /\ Traced(F, on, first, last)
      /\ on \in [0 .. Len(F) -> Mods]
      /\ \A i \in 0 .. Len(f) : on[i] = after[i]
  <2>1. /\ Traced(F, on, first, After(b, last))
        /\ on \in [0 .. Len(F) -> Mods]
        /\ \A i \in 0 .. Len(f) : on[i] = after[i]
    BY <1>2, TracedBehind
  <2> HIDE DEF F, on
  <2> QED
    BY <2>1
<1>4. Places(F) = Places(f) \union {Len(f) + 1}
  OBVIOUS
<1> HIDE DEF F, T, on
<1>5. Clear(F)
  <2>1. Clear(f)
    BY DEF Sharp
  <2>2. b.code \notin Twin
    BY KeyboardAssumption
  <2>3. ~Clears(b)
    BY <2>2 DEF Clears
  <2> QED
    BY <1>1, <2>1, <2>3, SMTT(30) DEF Clear
<1>6. Marked(F, T, next, on)
  <2> SUFFICES ASSUME NEW i \in Places(F)
               PROVE  T[next[i]].char = CharAt(F, on, i)
    BY DEF Marked
  <2>1. CASE i \in Places(f)
    <3>1. i \in 1 .. Len(f) /\ i \in 0 .. Len(f)
      BY <2>1 DEF Places
    <3>2. t[turn[i]].char = CharAt(f, after, i)
      BY <1>2, <2>1 DEF Marked
    <3>3. F[i] = f[i] /\ on[i] = after[i]
      BY <1>1, <1>3, <3>1
    <3>4. T[next[i]] = t[turn[i]]
      BY <1>1, <2>1
    <3> QED
      BY <3>2, <3>3, <3>4 DEF CharAt
  <2>2. CASE i = Len(f) + 1
    <3>1. on[i] = last
      BY <1>1, <1>3, <2>2 DEF Traced
    <3>2. T[next[i]] = x /\ F[i] = b
      BY <1>1, <2>2
    <3> QED
      BY <3>1, <3>2 DEF CharAt
  <2> QED
    BY <1>4, <2>1, <2>2
<1> QED
  BY <1>3, <1>5, <1>6 DEF Sharp, F, T

(* The first byte is read.                                                 *)
LEMMA SharpTaken ==
  ASSUME NEW f \in Seq(Byte), f # <<>>, NEW t, NEW turn, NEW first, NEW last,
         Sharp(f, t, turn, first, last)
  PROVE  /\ ~Clears(Head(f))
         /\ Sharp(Tail(f), t, Later(turn, f), After(Head(f), first), last)
         /\ 1 \in Places(f) =>
              t[turn[1]].char = Ascii(Head(f).code, After(Head(f), first).shift # {},
                                      After(Head(f), first).lock)
<1> DEFINE F == Tail(f)
           later == Later(turn, f)
<1>1. /\ F \in Seq(Byte) /\ Len(f) \in Nat /\ Len(f) >= 1 /\ Len(F) = Len(f) - 1
      /\ \A i \in 1 .. Len(f) - 1 : F[i] = f[i + 1]
      /\ Head(f) = f[1]
  OBVIOUS
<1>2. later = [i \in Places(F) |-> turn[i + 1]]
  BY DEF Later
<1> HIDE DEF F, later
<1>3. PICK after \in [0 .. Len(f) -> Mods] :
        Traced(f, after, first, last) /\ Marked(f, t, turn, after)
  BY DEF Sharp
<1> DEFINE on == [i \in 0 .. Len(F) |-> after[i + 1]]
<1>4. /\ on \in [0 .. Len(F) -> Mods]
      /\ \A i \in 0 .. Len(F) : on[i] = after[i + 1]
  BY <1>1
<1> HIDE DEF on
<1>5. after[1] = After(Head(f), first)
  <2>1. 1 \in 1 .. Len(f) /\ 1 - 1 = 0
    BY <1>1
  <2> QED
    BY <1>1, <1>3, <2>1 DEF Traced
<1>6. Traced(F, on, After(Head(f), first), last)
  <2>1. on[0] = After(Head(f), first)
    BY <1>1, <1>4, <1>5
  <2>2. on[Len(F)] = last
    <3>1. Len(F) \in 0 .. Len(F) /\ Len(F) + 1 = Len(f)
      BY <1>1
    <3> QED
      BY <1>3, <1>4, <3>1 DEF Traced
  <2>3. ASSUME NEW i \in 1 .. Len(F)
        PROVE  on[i] = After(F[i], on[i - 1])
    <3>1. /\ i \in 0 .. Len(F) /\ i - 1 \in 0 .. Len(F)
          /\ (i - 1) + 1 = i /\ (i + 1) - 1 = i /\ i + 1 \in 1 .. Len(f)
          /\ F[i] = f[i + 1]
      BY <1>1
    <3>2. after[i + 1] = After(f[i + 1], after[(i + 1) - 1])
      BY <1>3, <3>1 DEF Traced
    <3> QED
      BY <1>4, <3>1, <3>2
  <2> QED
    BY <1>4, <2>1, <2>2, <2>3 DEF Traced
<1>7. Marked(F, t, later, on)
  <2> SUFFICES ASSUME NEW i \in Places(F)
               PROVE  t[later[i]].char = CharAt(F, on, i)
    BY DEF Marked
  <2>1. /\ i \in 0 .. Len(F) /\ F[i] = f[i + 1] /\ i + 1 \in Places(f)
    BY <1>1 DEF Places
  <2>2. t[turn[i + 1]].char = CharAt(f, after, i + 1)
    BY <1>3, <2>1 DEF Marked
  <2>3. on[i] = after[i + 1] /\ later[i] = turn[i + 1]
    BY <1>2, <1>4, <2>1
  <2> QED
    BY <2>1, <2>2, <2>3 DEF CharAt
<1>8. Clear(F) /\ ~Clears(Head(f))
  <2>1. Clear(f)
    BY DEF Sharp
  <2>2. ~Clears(f[1])
    BY <1>1, <2>1 DEF Clear
  <2>3. ASSUME NEW i \in 1 .. Len(F)
        PROVE  ~Clears(F[i])
    <3>1. i + 1 \in DOMAIN f /\ F[i] = f[i + 1]
      BY <1>1
    <3> QED
      BY <2>1, <3>1 DEF Clear
  <2>4. Clear(F)
    BY <1>1, <2>3 DEF Clear
  <2> QED
    BY <1>1, <2>2, <2>4
<1>9. ASSUME 1 \in Places(f)
      PROVE  t[turn[1]].char = Ascii(Head(f).code, after[1].shift # {}, after[1].lock)
  BY <1>1, <1>3, <1>9 DEF Marked, CharAt
<1> QED
  BY <1>4, <1>5, <1>6, <1>7, <1>8, <1>9 DEF Sharp, F, later


-----------------------------------------------------------------------------
(* What is sent.                                                           *)

LEMMA AfterOther ==
  ASSUME NEW b, NEW m \in Mods, b.kind # "key"
  PROVE  After(b, m) = m
  BY DEF After, Mods

LEMMA SharpType ==
  ASSUME NEW f \in Seq(Byte), NEW t, NEW turn, NEW first, NEW last,
         Sharp(f, t, turn, first, last)
  PROVE  last \in Mods
<1>1. PICK after \in [0 .. Len(f) -> Mods] : Traced(f, after, first, last)
  BY DEF Sharp
<1>2. Len(f) \in 0 .. Len(f)
  OBVIOUS
<1> QED
  BY <1>1, <1>2 DEF Traced

LEMMA PairedBehind ==
  ASSUME NEW f \in Seq(Byte), NEW b \in Byte, ~(b.up /\ b.code \in Typing),
         NEW t, NEW n, NEW blur, NEW first, NEW last,
         Paired(f, t, n, blur, first, last),
         NEW more, more = {} => blur = {} /\ ~Clears(b)
  PROVE  Paired(Append(f, b), t, n, more, first, After(b, last))
<1>1. PICK turn \in [Places(f) -> n + 1 .. Len(t)] :
        Aligned(f, t, n, turn) /\ (blur = {} => Sharp(f, t, turn, first, last))
  BY DEF Paired
<1> DEFINE g == <<b>>
<1>2. g \in Seq(Byte) /\ Append(f, b) = f \o g
  OBVIOUS
<1>3. Places(g) = {}
  BY DEF Places
<1> HIDE DEF g
<1>4. Aligned(Append(f, b), t, n, turn)
  <2>1. Aligned(f \o g, t, n, turn)
    BY <1>1, <1>2, <1>3, AlignedBehind
  <2> QED
    BY <1>2, <2>1, Zenon
<1>5. more = {} => Sharp(Append(f, b), t, turn, first, After(b, last))
  BY <1>1, SharpBehind
<1>6. turn \in [Places(Append(f, b)) -> n + 1 .. Len(t)]
  BY <1>4 DEF Aligned
<1> QED
  BY <1>4, <1>5, <1>6 DEF Paired

LEMMA PairedPast ==
  ASSUME NEW f \in Seq(Byte), NEW g \in Seq(Byte), Places(g) = {},
         NEW t, NEW n, NEW blur, NEW first, NEW last,
         Paired(f, t, n, blur, first, last),
         NEW more, more # {}, NEW other
  PROVE  Paired(f \o g, t, n, more, first, other)
<1>1. PICK turn \in [Places(f) -> n + 1 .. Len(t)] : Aligned(f, t, n, turn)
  BY DEF Paired
<1>2. Aligned(f \o g, t, n, turn)
  BY <1>1, AlignedBehind
<1>3. turn \in [Places(f \o g) -> n + 1 .. Len(t)]
  BY <1>2 DEF Aligned
<1> QED
  BY <1>2, <1>3 DEF Paired

LEMMA PairedEscaped ==
  ASSUME NEW f \in Seq(Byte), NEW t, NEW n, NEW blur, NEW first, NEW last \in Mods,
         Paired(f, t, n, blur, first, last), NEW kind \in {"esc0", "esc1", "error", "mouse"}
  PROVE  /\ Append(f, Other(kind)) \in Seq(Byte)
         /\ Paired(Append(f, Other(kind)), t, n, blur, first, last)
<1> DEFINE b == Other(kind)
<1>1. b \in Byte /\ b.kind = kind /\ ~b.up
  BY SentBytes DEF Other
<1> HIDE DEF b
<1>2. b.kind # "key"
  BY <1>1
<1>3. After(b, last) = last
  BY <1>2, AfterOther
<1>4. ~Clears(b)
  BY <1>2 DEF Clears
<1>5. Paired(Append(f, b), t, n, blur, first, After(b, last))
  BY <1>1, <1>4, PairedBehind
<1>6. Append(f, b) \in Seq(Byte)
  BY <1>1
<1> QED
  BY <1>3, <1>5, <1>6 DEF b

(* The bytes of a key.                                                     *)
LEMMA BytesOf ==
  ASSUME NEW f \in Seq(Byte), NEW k \in Keys, NEW up \in BOOLEAN
  PROVE  f \o Bytes(k, up) =
           Append(IF k.ext THEN Append(f, Other("esc0")) ELSE f, Code(k.code, up))
<1> DEFINE a == Other("esc0")
           b == Code(k.code, up)
<1>1. a \in Byte /\ b \in Byte
  BY SentBytes, KeyboardAssumption
<1> HIDE DEF a, b
<1>2. CASE k.ext
  <2>1. Bytes(k, up) = <<a>> \o <<b>>
    BY <1>2 DEF Bytes, a, b
  <2>2. f \o (<<a>> \o <<b>>) = Append(Append(f, a), b)
    BY <1>1
  <2> QED
    BY <1>2, <2>1, <2>2 DEF a, b
<1>3. CASE ~k.ext
  <2>1. Bytes(k, up) = <<>> \o <<b>>
    BY <1>3 DEF Bytes, a, b
  <2>2. f \o (<<>> \o <<b>>) = Append(f, b)
    BY <1>1
  <2> QED
    BY <1>3, <2>1, <2>2 DEF a, b
<1> QED
  BY <1>2, <1>3

LEMMA PairedKey ==
  ASSUME NEW f \in Seq(Byte), NEW k \in Keys, NEW up \in BOOLEAN,
         ~(up /\ k.code \in Typing),
         NEW t, NEW n, NEW blur, NEW first, NEW last \in Mods,
         Paired(f, t, n, blur, first, last),
         NEW more, more = {} => blur = {} /\ ~(up /\ k.code \in Twin)
  PROVE  /\ f \o Bytes(k, up) \in Seq(Byte)
         /\ Paired(f \o Bytes(k, up), t, n, more, first, After(Code(k.code, up), last))
<1> DEFINE g == IF k.ext THEN Append(f, Other("esc0")) ELSE f
           b == Code(k.code, up)
<1>1. b \in Byte /\ b.code = k.code /\ b.up = up
  BY SentBytes, KeyboardAssumption DEF Code
<1>2. g \in Seq(Byte) /\ Paired(g, t, n, blur, first, last)
  BY PairedEscaped
<1>3. f \o Bytes(k, up) = Append(g, b)
  BY BytesOf
<1> HIDE DEF g, b
<1>4. ~(b.up /\ b.code \in Typing)
  BY <1>1
<1>5. Clears(b) => up /\ k.code \in Twin
  BY <1>1 DEF Clears
<1>6. Paired(Append(g, b), t, n, more, first, After(b, last))
  BY <1>1, <1>2, <1>4, <1>5, PairedBehind
<1>7. Append(g, b) \in Seq(Byte)
  BY <1>1, <1>2
<1> QED
  BY <1>3, <1>6, <1>7 DEF b

LEMMA PairedLetGo ==
  ASSUME NEW f \in Seq(Byte), NEW k \in Keys, k.code \in Typing,
         NEW t \in Seq(Char), NEW n \in Nat, n <= Len(t), NEW blur, NEW first,
         NEW last \in Mods, Paired(f, t, n, blur, first, last),
         NEW x \in Char, x.code = k.code,
         x.char = Ascii(k.code, last.shift # {}, last.lock)
  PROVE  /\ f \o Bytes(k, TRUE) \in Seq(Byte)
         /\ Paired(f \o Bytes(k, TRUE), Append(t, x), n, blur, first, last)
<1> DEFINE g == IF k.ext THEN Append(f, Other("esc0")) ELSE f
           b == Code(k.code, TRUE)
           F == Append(g, b)
           T == Append(t, x)
<1>1. b \in Byte /\ b.code = k.code /\ b.up
  BY SentBytes, KeyboardAssumption DEF Code
<1>2. g \in Seq(Byte) /\ Paired(g, t, n, blur, first, last)
  BY PairedEscaped
<1>3. f \o Bytes(k, TRUE) = F
  BY BytesOf
<1>4. After(b, last) = last
  <2>1. b.code \notin Held /\ b.code # "caps"
    BY <1>1, KeyboardAssumption DEF Lock
  <2> QED
    BY <2>1 DEF After, Mods
<1> HIDE DEF g, b
<1>5. PICK turn \in [Places(g) -> n + 1 .. Len(t)] :
        /\ Aligned(g, t, n, turn)
        /\ blur = {} => Sharp(g, t, turn, first, last)
  BY <1>2 DEF Paired
<1> DEFINE next == [i \in Places(F) |-> IF i = Len(g) + 1 THEN Len(t) + 1 ELSE turn[i]]
<1>6. /\ Aligned(F, T, n, next)
      /\ Places(F) = Places(g) \union {Len(g) + 1}
      /\ Len(g) + 1 \notin Places(g)
  BY <1>1, <1>2, <1>5, AlignedLetGo
<1>7. next[Len(g) + 1] = Len(t) + 1
  BY <1>6
<1>8. \A i \in Places(g) : next[i] = turn[i] /\ turn[i] \in 1 .. Len(t)
  <2>1. \A i \in Places(g) : turn[i] \in 1 .. Len(t)
    BY <1>5
  <2> QED
    BY <1>6, <2>1
<1> HIDE DEF next
<1>9. ASSUME blur = {}
      PROVE  Sharp(F, T, next, first, last)
  <2>1. x.char = Ascii(b.code, last.shift # {}, last.lock)
    BY <1>1
  <2>2. Sharp(g, t, turn, first, last)
    BY <1>5, <1>9
  <2> QED
    BY <1>1, <1>2, <1>4, <1>6, <1>7, <1>8, <2>1, <2>2, SharpLetGo
<1>10. next \in [Places(F) -> n + 1 .. Len(T)]
  BY <1>6 DEF Aligned
<1>11. F \in Seq(Byte)
  BY <1>1, <1>2
<1> QED
  BY <1>3, <1>6, <1>9, <1>10, <1>11 DEF Paired

(* What is read.                                                           *)
LEMMA PairedTaken ==
  ASSUME NEW f \in Seq(Byte), f # <<>>, NEW t \in Seq(Char),
         NEW n \in Nat, n <= Len(t), NEW blur, NEW first, NEW last,
         Paired(f, t, n, blur, first, last)
  PROVE  LET b == Head(f)
             m == After(b, first)
         IN  /\ Tail(f) \in Seq(Byte) /\ b \in Byte
             /\ Len(Tail(f)) <= Len(f)
             /\ blur = {} => ~Clears(b)
             /\ ~(b.up /\ b.code \in Typing) => Paired(Tail(f), t, n, blur, m, last)
             /\ b.up /\ b.code \in Typing =>
                  /\ n + 1 <= Len(t)
                  /\ t[n + 1].code = b.code
                  /\ blur = {} => t[n + 1].char = CharOf(b, m)
                  /\ Paired(Tail(f), t, n + 1, blur, m, last)
<1> DEFINE b == Head(f)
           m == After(b, first)
           F == Tail(f)
<1>1. /\ F \in Seq(Byte) /\ b \in Byte /\ Len(F) <= Len(f) /\ b = f[1]
      /\ 1 \in DOMAIN f
  OBVIOUS
<1>2. PICK turn \in [Places(f) -> n + 1 .. Len(t)] :
        /\ Aligned(f, t, n, turn)
        /\ blur = {} => Sharp(f, t, turn, first, last)
  BY DEF Paired
<1> DEFINE later == Later(turn, f)
<1>3. /\ 1 \notin Places(f) => Aligned(F, t, n, later)
      /\ 1 \in Places(f) => /\ n + 1 <= Len(t)
                            /\ turn[1] = n + 1
                            /\ Aligned(F, t, n + 1, later)
  BY <1>2, AlignedTaken
<1>4. ASSUME blur = {}
      PROVE  /\ ~Clears(b)
             /\ Sharp(F, t, later, m, last)
             /\ 1 \in Places(f) =>
                  t[turn[1]].char = CharOf(b, m)
  BY <1>2, <1>4, SharpTaken DEF CharOf
<1>5. (b.up /\ b.code \in Typing) <=> 1 \in Places(f)
  BY <1>1 DEF Places
<1>6. 1 \in Places(f) => t[turn[1]].code = b.code
  BY <1>1, <1>2 DEF Aligned
<1> HIDE DEF b, m, F, later
<1>7. /\ Aligned(F, t, n, later) => later \in [Places(F) -> n + 1 .. Len(t)]
      /\ Aligned(F, t, n + 1, later) => later \in [Places(F) -> (n + 1) + 1 .. Len(t)]
  BY DEF Aligned
<1>8. 1 \notin Places(f) => Paired(F, t, n, blur, m, last)
  BY <1>3, <1>4, <1>7 DEF Paired
<1>9. 1 \in Places(f) => Paired(F, t, n + 1, blur, m, last)
  BY <1>3, <1>4, <1>7 DEF Paired
<1>10. 1 \in Places(f) => /\ n + 1 <= Len(t)
                          /\ t[n + 1].code = b.code
                          /\ blur = {} => t[n + 1].char = CharOf(b, m)
  <2> SUFFICES ASSUME 1 \in Places(f)
               PROVE  /\ n + 1 <= Len(t)
                      /\ t[n + 1].code = b.code
                      /\ blur = {} => t[n + 1].char = CharOf(b, m)
    OBVIOUS
  <2>1. turn[1] = n + 1 /\ n + 1 <= Len(t)
    BY <1>3
  <2> QED
    BY <1>4, <1>6, <2>1
<1>11. /\ F \in Seq(Byte) /\ b \in Byte
       /\ Len(F) <= Len(f)
       /\ blur = {} => ~Clears(b)
  BY <1>1, <1>4
<1> QED
  BY <1>5, <1>8, <1>9, <1>10, <1>11 DEF b, m, F


-----------------------------------------------------------------------------
(* What is delivered, and the modifiers of the two ends.                   *)

LEMMA CharFacts ==
  /\ NoChar \in Char
  /\ \A k \in Typing, shift, lock \in BOOLEAN :
       [code |-> k, char |-> Ascii(k, shift, lock)] \in Char
  /\ \A x, y \in Char : x.code = y.code /\ x.char = y.char => x = y
<1>1. NoChar \in Char
  BY DEF Char
<1>2. ASSUME NEW k \in Typing, NEW shift \in BOOLEAN, NEW lock \in BOOLEAN
      PROVE  [code |-> k, char |-> Ascii(k, shift, lock)] \in Char
  <2>1. Ascii(k, shift, lock) \in {Glyphs[k].plain, Glyphs[k].upper, Glyphs[k].shifted}
    BY DEF Ascii
  <2>2. [code |-> k, char |-> Ascii(k, shift, lock)] \in
          [code : {k}, char : {Glyphs[k].plain, Glyphs[k].upper, Glyphs[k].shifted}]
    BY <2>1
  <2> QED
    BY <2>2 DEF Char
<1>3. ASSUME NEW x \in Char
      PROVE  x = [code |-> x.code, char |-> x.char]
  <2>1. CASE x = NoChar
    BY <2>1 DEF NoChar
  <2>2. CASE x # NoChar
    <3>1. PICK k \in Typing :
            x \in [code : {k}, char : {Glyphs[k].plain, Glyphs[k].upper,
                                       Glyphs[k].shifted}]
      BY <2>2 DEF Char
    <3> QED
      BY <3>1
  <2> QED
    BY <2>1, <2>2
<1>4. ASSUME NEW x \in Char, NEW y \in Char, x.code = y.code, x.char = y.char
      PROVE  x = y
  BY <1>3, <1>4
<1> QED
  BY <1>1, <1>2, <1>4

LEMMA DeliveredType ==
  ASSUME TypeOK
  PROVE  /\ Delivered \in Seq(Char) /\ Len(Delivered) \in Nat
         /\ ~recieved => Delivered = got
         /\ recieved => Delivered = Append(got, c)
<1>1. got \in Seq(Char) /\ c \in Char /\ recieved \in BOOLEAN
  BY DEF TypeOK
<1>2. CASE recieved
  <2>1. Delivered = got \o <<c>>
    BY <1>2 DEF Delivered, Waiting
  <2> QED
    BY <1>1, <1>2, <2>1
<1>3. CASE ~recieved
  <2>1. Delivered = got \o <<>>
    BY <1>3 DEF Delivered, Waiting
  <2> QED
    BY <1>1, <1>3, <2>1
<1> QED
  BY <1>1, <1>2, <1>3

LEMMA AgreedTyped ==
  ASSUME NEW d \in Seq(Char), NEW t \in Seq(Char), NEW x \in Char,
         NEW blur, Agreed(d, t, blur)
  PROVE  Agreed(d, Append(t, x), blur)
<1>1. /\ Len(Append(t, x)) = Len(t) + 1
      /\ \A i \in 1 .. Len(t) : Append(t, x)[i] = t[i]
      /\ Len(d) \in Nat /\ Len(t) \in Nat /\ DOMAIN d = 1 .. Len(d)
  OBVIOUS
<1>2. Len(d) <= Len(t)
  BY DEF Agreed
<1>3. \A i \in DOMAIN d : Append(t, x)[i] = t[i]
  BY <1>1, <1>2
<1>4. Len(d) <= Len(Append(t, x))
  BY <1>1, <1>2
<1> QED
  BY <1>3, <1>4 DEF Agreed

LEMMA AgreedBlurred ==
  ASSUME NEW d, NEW t, NEW blur, NEW more, more = {} => blur = {},
         Agreed(d, t, blur)
  PROVE  Agreed(d, t, more)
  BY DEF Agreed

LEMMA AgreedDelivered ==
  ASSUME NEW d \in Seq(Char), NEW t \in Seq(Char), NEW x \in Char,
         NEW blur, Agreed(d, t, blur), Len(d) + 1 <= Len(t),
         t[Len(d) + 1].code = x.code,
         blur = {} => t[Len(d) + 1].char = x.char
  PROVE  Agreed(Append(d, x), t, blur)
<1> DEFINE D == Append(d, x)
<1>1. /\ Len(D) = Len(d) + 1 /\ D[Len(d) + 1] = x
      /\ \A i \in 1 .. Len(d) : D[i] = d[i]
      /\ DOMAIN d = 1 .. Len(d) /\ DOMAIN D = 1 .. Len(d) + 1
      /\ Len(d) \in Nat
  OBVIOUS
<1>2. t[Len(d) + 1] \in Char
  OBVIOUS
<1> HIDE DEF D
<1>3. blur = {} => x = t[Len(d) + 1]
  BY <1>2, CharFacts
<1>4. ASSUME NEW i \in DOMAIN D
      PROVE  D[i].code = t[i].code /\ (blur = {} => D[i] = t[i])
  <2>1. CASE i = Len(d) + 1
    BY <1>1, <1>3, <2>1
  <2>2. CASE i # Len(d) + 1
    <3>1. i \in 1 .. Len(d)
      BY <1>1, <2>2
    <3> QED
      BY <1>1, <3>1 DEF Agreed
  <2> QED
    BY <2>1, <2>2
<1> QED
  BY <1>1, <1>4 DEF Agreed, D

LEMMA MeantType ==
  ASSUME NEW d \in SUBSET Keys, NEW on \in BOOLEAN
  PROVE  Meant(d, on) \in Mods
  BY DEF Meant, Mods

LEMMA SeenType ==
  ASSUME NEW m
  PROVE  Seen(m) \in Mods
  BY DEF Seen, Mods

(* The user's end.                                                         *)
LEMMA MeantPressed ==
  ASSUME NEW d \in SUBSET Keys, NEW on \in BOOLEAN, NEW k \in Keys
  PROVE  Meant(d \union {k}, IF k.code = "caps" THEN ~on ELSE on) =
           After(Code(k.code, FALSE), Meant(d, on))
<1> DEFINE b == Code(k.code, FALSE)
           m == Meant(d, on)
<1>1. b.kind = "key" /\ b.code = k.code /\ ~b.up
  BY DEF Code
<1>2. m.lock = on /\ m.shift = {l.code : l \in d} \intersect Held
  BY DEF Meant
<1>3. {l.code : l \in d \union {k}} \intersect Held =
        IF k.code \in Held THEN m.shift \union {k.code} ELSE m.shift
  BY <1>2
<1> HIDE DEF b, m
<1>4. After(b, m) = [shift |-> IF k.code \in Held THEN m.shift \union {k.code} ELSE m.shift,
                     lock |-> IF k.code = "caps" THEN ~on ELSE on]
  BY <1>1, <1>2 DEF After
<1>5. Meant(d \union {k}, IF k.code = "caps" THEN ~on ELSE on) =
        [shift |-> {l.code : l \in d \union {k}} \intersect Held,
         lock |-> IF k.code = "caps" THEN ~on ELSE on]
  BY Zenon DEF Meant
<1> QED
  BY <1>3, <1>4, <1>5 DEF b, m

LEMMA MeantRepeated ==
  ASSUME NEW d \in SUBSET Keys, NEW on \in BOOLEAN, NEW k \in d, k.code # "caps"
  PROVE  Meant(d, on) = After(Code(k.code, FALSE), Meant(d, on))
<1>1. d \union {k} = d /\ k \in Keys
  OBVIOUS
<1> QED
  BY <1>1, MeantPressed

LEMMA MeantLetGo ==
  ASSUME NEW d \in SUBSET Keys, NEW on \in BOOLEAN, NEW k \in d
  PROVE  Meant(d \ {k}, on) = After(Code(k.code, TRUE), Meant(d, on))
<1> DEFINE b == Code(k.code, TRUE)
           m == Meant(d, on)
<1>1. b.kind = "key" /\ b.code = k.code /\ b.up
  BY DEF Code
<1>2. m.lock = on /\ m.shift = {l.code : l \in d} \intersect Held
  BY DEF Meant
<1>3. \A l \in d : l.code = k.code /\ k.code \in Held => l = k
  BY KeyboardAssumption
<1>4. {l.code : l \in d \ {k}} \intersect Held =
        IF k.code \in Held THEN m.shift \ {k.code} ELSE m.shift
  BY <1>2, <1>3
<1> HIDE DEF b, m
<1>5. After(b, m) = [shift |-> IF k.code \in Held THEN m.shift \ {k.code} ELSE m.shift,
                     lock |-> on]
  BY <1>1, <1>2 DEF After
<1>6. Meant(d \ {k}, on) = [shift |-> {l.code : l \in d \ {k}} \intersect Held,
                            lock |-> on]
  BY Zenon DEF Meant
<1> QED
  BY <1>4, <1>5, <1>6 DEF b, m


-----------------------------------------------------------------------------
(* The user's steps.                                                       *)

LEMMA SendKeeps ==
  ASSUME IInv, NEW bytes \in Seq(Byte), Send(bytes),
         down' \in SUBSET Keys, caps' \in BOOLEAN, typed' \in Seq(Char),
         blurred \subseteq blurred', blurred' \subseteq {"twin", "lock"},
         Agreed(Delivered, typed', blurred'),
         Paired(fifo \o bytes, typed', Len(Delivered), blurred', Seen(mod),
                Meant(down', caps'))
  PROVE  IInv'
<1>1. fifo' \in Seq(Byte) /\ Len(fifo') <= FifoSize
  <2>1. fifo \in Seq(Byte) /\ fifo' = fifo \o bytes
    BY DEF IInv, TypeOK, Send
  <2>2. Len(fifo) + Len(bytes) <= FifoSize
    BY DEF Send
  <2> QED
    BY <2>1, <2>2
<1>2. events' \in 0 .. MaxEvents
  BY KeyboardAssumption DEF IInv, TypeOK, Send
<1>3. /\ UNCHANGED <<parity, mod, pc, c, recieved, got>>
      /\ fifo' = fifo \o bytes
  BY DEF Send, console
<1>4. TypeOK'
  BY <1>1, <1>2, <1>3 DEF IInv, TypeOK
<1>5. Delivered' = Delivered
  BY <1>3 DEF Delivered, Waiting
<1>6. Seen(mod)' = Seen(mod)
  BY <1>3 DEF Seen
<1>7. Agreed(Delivered, typed, blurred)'
  BY <1>5
<1>8. Paired(fifo, typed, Len(Delivered), blurred, Seen(mod), Meant(down, caps))'
  BY <1>3, <1>5, <1>6
<1>9. (pc # "idle" => ~recieved)'
  BY <1>3 DEF IInv
<1> QED
  BY <1>4, <1>7, <1>8, <1>9 DEF IInv

(* What every step of the user starts from.                                *)
LEMMA UserFacts ==
  ASSUME IInv
  PROVE  /\ fifo \in Seq(Byte) /\ down \in SUBSET Keys /\ caps \in BOOLEAN
         /\ typed \in Seq(Char) /\ blurred \subseteq {"twin", "lock"}
         /\ Delivered \in Seq(Char) /\ Len(Delivered) \in Nat
         /\ Len(Delivered) <= Len(typed)
         /\ Agreed(Delivered, typed, blurred)
         /\ Paired(fifo, typed, Len(Delivered), blurred, Seen(mod), Meant(down, caps))
         /\ Meant(down, caps) \in Mods
  BY DeliveredType, MeantType DEF IInv, TypeOK, Agreed

LEMMA BytesType ==
  ASSUME NEW k \in Keys, NEW up \in BOOLEAN
  PROVE  Bytes(k, up) \in Seq(Byte)
<1>1. Other("esc0") \in Byte /\ Code(k.code, up) \in Byte
  BY SentBytes, KeyboardAssumption
<1> QED
  BY <1>1 DEF Bytes

LEMMA PressKeeps ==
  ASSUME IInv, NEW k \in Keys, Press(k)
  PROVE  IInv'
<1>1. /\ Send(Bytes(k, FALSE)) /\ down' = down \union {k}
      /\ caps' = IF k.code = "caps" THEN ~caps ELSE caps
      /\ typed' = typed /\ blurred' = blurred
  BY DEF Press
<1>2. down' \in SUBSET Keys /\ caps' \in BOOLEAN
  BY <1>1, UserFacts
<1>3. Meant(down', caps') = After(Code(k.code, FALSE), Meant(down, caps))
  BY <1>1, UserFacts, MeantPressed
<1>4. Paired(fifo \o Bytes(k, FALSE), typed, Len(Delivered), blurred, Seen(mod),
             After(Code(k.code, FALSE), Meant(down, caps)))
  BY UserFacts, PairedKey
<1>5. Paired(fifo \o Bytes(k, FALSE), typed', Len(Delivered), blurred', Seen(mod),
             Meant(down', caps'))
  BY <1>1, <1>3, <1>4
<1> QED
  BY <1>1, <1>2, <1>5, UserFacts, BytesType, SendKeeps

LEMMA RepeatKeeps ==
  ASSUME IInv, NEW k \in Keys, Repeat(k)
  PROVE  IInv'
<1>1. /\ k \in down /\ Send(Bytes(k, FALSE))
      /\ blurred' = blurred \union (IF k.code \in Lock THEN {"lock"} ELSE {})
      /\ down' = down /\ caps' = caps /\ typed' = typed
  BY DEF Repeat
<1>2. blurred \subseteq blurred' /\ blurred' \subseteq {"twin", "lock"}
  BY <1>1, UserFacts
<1>3. Agreed(Delivered, typed', blurred')
  BY <1>1, <1>2, UserFacts, AgreedBlurred
<1>4. Paired(fifo \o Bytes(k, FALSE), typed, Len(Delivered), blurred', Seen(mod),
             After(Code(k.code, FALSE), Meant(down, caps)))
  BY <1>2, UserFacts, PairedKey
<1>5. Paired(fifo \o Bytes(k, FALSE), typed, Len(Delivered), blurred', Seen(mod),
             Meant(down, caps))
  <2>1. CASE k.code \in Lock
    <3>1. blurred' # {}
      BY <1>1, <2>1
    <3> QED
      BY <1>4, <3>1 DEF Paired
  <2>2. CASE k.code \notin Lock
    <3>1. k.code # "caps"
      BY <2>2 DEF Lock
    <3>2. Meant(down, caps) = After(Code(k.code, FALSE), Meant(down, caps))
      BY <1>1, <3>1, UserFacts, MeantRepeated
    <3> QED
      BY <1>4, <3>2, Zenon
  <2> QED
    BY <2>1, <2>2
<1>6. Paired(fifo \o Bytes(k, FALSE), typed', Len(Delivered), blurred', Seen(mod),
             Meant(down', caps'))
  BY <1>1, <1>5
<1> QED
  BY <1>1, <1>2, <1>3, <1>6, UserFacts, BytesType, SendKeeps

LEMMA LetGoKeeps ==
  ASSUME IInv, NEW k \in Keys, LetGo(k)
  PROVE  IInv'
<1> DEFINE x == [code |-> k.code, char |-> Ascii(k.code, ShiftHeld, caps)]
<1>1. /\ k \in down /\ Send(Bytes(k, TRUE)) /\ down' = down \ {k}
      /\ typed' = IF k.code \in Typing THEN Append(typed, x) ELSE typed
      /\ blurred' = blurred \union (IF k.code \in Twin THEN {"twin"} ELSE {})
      /\ caps' = caps
  BY DEF LetGo
<1>2. /\ blurred \subseteq blurred' /\ blurred' \subseteq {"twin", "lock"}
      /\ down' \in SUBSET Keys
  BY <1>1, UserFacts
<1>3. Meant(down', caps') = After(Code(k.code, TRUE), Meant(down, caps))
  BY <1>1, UserFacts, MeantLetGo
<1>4. CASE k.code \notin Typing
  <2>1. typed' = typed
    BY <1>1, <1>4
  <2>2. Agreed(Delivered, typed', blurred')
    BY <1>2, <2>1, UserFacts, AgreedBlurred
  <2>3. blurred' = {} => blurred = {} /\ k.code \notin Twin
    BY <1>1
  <2>4. Paired(fifo \o Bytes(k, TRUE), typed, Len(Delivered), blurred', Seen(mod),
               After(Code(k.code, TRUE), Meant(down, caps)))
    BY <1>4, <2>3, UserFacts, PairedKey
  <2>5. Paired(fifo \o Bytes(k, TRUE), typed', Len(Delivered), blurred', Seen(mod),
               Meant(down', caps'))
    BY <1>3, <2>1, <2>4
  <2> QED
    BY <1>1, <1>2, <2>1, <2>2, <2>5, UserFacts, BytesType, SendKeeps
<1>5. CASE k.code \in Typing
  <2>1. x \in Char /\ x.code = k.code
    <3>1. ShiftHeld \in BOOLEAN
      BY DEF ShiftHeld
    <3> QED
      BY <1>5, <3>1, UserFacts, CharFacts
  <2>2. x.char = Ascii(k.code, Meant(down, caps).shift # {}, Meant(down, caps).lock)
    <3>1. Meant(down, caps).lock = caps
      BY DEF Meant
    <3>2. ShiftHeld <=> Meant(down, caps).shift # {}
      BY DEF ShiftHeld, Meant
    <3>3. x.char = Ascii(k.code, ShiftHeld, caps)
      OBVIOUS
    <3> HIDE DEF x
    <3> QED
      BY <3>1, <3>2, <3>3, Zenon
  <2> HIDE DEF x
  <2>3. typed' = Append(typed, x) /\ typed' \in Seq(Char)
    BY <1>1, <1>5, <2>1, UserFacts
  <2>4. blurred' = blurred
    <3>1. k.code \notin Twin
      BY <1>5, KeyboardAssumption
    <3> QED
      BY <1>1, <3>1
  <2>5. Agreed(Delivered, typed', blurred')
    BY <2>1, <2>3, <2>4, UserFacts, AgreedTyped
  <2>6. Paired(fifo \o Bytes(k, TRUE), Append(typed, x), Len(Delivered), blurred,
               Seen(mod), Meant(down, caps))
    BY <1>5, <2>1, <2>2, UserFacts, PairedLetGo
  <2>7. Meant(down', caps') = Meant(down, caps)
    <3>1. k.code \notin Held /\ k.code # "caps"
      BY <1>5, KeyboardAssumption DEF Lock
    <3>2. /\ Code(k.code, TRUE).code = k.code
      BY DEF Code
    <3> QED
      BY <1>3, <3>1, <3>2, UserFacts DEF After, Mods
  <2>8. Paired(fifo \o Bytes(k, TRUE), typed', Len(Delivered), blurred', Seen(mod),
               Meant(down', caps'))
    BY <2>3, <2>4, <2>6, <2>7
  <2> QED
    BY <1>1, <1>2, <2>3, <2>5, <2>8, UserFacts, BytesType, SendKeeps
<1> QED
  BY <1>4, <1>5

LEMMA SixBytes ==
  ASSUME NEW a \in Byte, NEW b \in Byte, NEW d \in Byte, NEW e \in Byte, NEW g \in Byte,
         \A h \in {a, b, d, e, g} : ~(h.up /\ h.code \in Typing)
  PROVE  <<a, b, d, a, e, g>> \in Seq(Byte) /\ Places(<<a, b, d, a, e, g>>) = {}
<1> DEFINE bytes == <<a, b, d, a, e, g>>
<1>1. /\ DOMAIN bytes = 1 .. 6 /\ Len(bytes) = 6
      /\ bytes[1] = a /\ bytes[2] = b /\ bytes[3] = d
      /\ bytes[4] = a /\ bytes[5] = e /\ bytes[6] = g
  OBVIOUS
<1>2. bytes \in Seq(Byte)
  OBVIOUS
<1> HIDE DEF bytes
<1>3. \A i \in 1 .. 6 : bytes[i] \in {a, b, d, e, g}
  BY <1>1
<1>4. Places(bytes) = {}
  BY <1>1, <1>3 DEF Places
<1> QED
  BY <1>2, <1>4 DEF bytes

LEMMA PressPauseKeeps ==
  ASSUME IInv, PressPause
  PROVE  IInv'
<1> DEFINE bytes == <<Other("esc1"), Code("ctrl", FALSE), Code("num", FALSE),
                      Other("esc1"), Code("ctrl", TRUE), Code("num", TRUE)>>
<1>1. /\ Send(bytes) /\ blurred' = blurred \union {"twin"}
      /\ down' = down /\ caps' = caps /\ typed' = typed
  BY DEF PressPause
<1>2. bytes \in Seq(Byte) /\ Places(bytes) = {}
  <2>1. /\ Other("esc1") \in Byte
        /\ Code("ctrl", FALSE) \in Byte /\ Code("num", FALSE) \in Byte
        /\ Code("ctrl", TRUE) \in Byte /\ Code("num", TRUE) \in Byte
    BY SentBytes DEF Twin, Lock
  <2>2. "ctrl" \notin Typing /\ "num" \notin Typing
    BY KeyboardAssumption DEF Twin, Lock
  <2>3. /\ ~Other("esc1").up
        /\ Code("ctrl", FALSE).code = "ctrl" /\ Code("num", FALSE).code = "num"
        /\ Code("ctrl", TRUE).code = "ctrl" /\ Code("num", TRUE).code = "num"
    BY DEF Other, Code
  <2> DEFINE a == Other("esc1")
             b == Code("ctrl", FALSE)
             d == Code("num", FALSE)
             e == Code("ctrl", TRUE)
             g == Code("num", TRUE)
  <2>4. \A h \in {a, b, d, e, g} : ~(h.up /\ h.code \in Typing)
    BY <2>2, <2>3
  <2>5. bytes = <<a, b, d, a, e, g>>
    OBVIOUS
  <2> HIDE DEF bytes, a, b, d, e, g
  <2>6. a \in Byte /\ b \in Byte /\ d \in Byte /\ e \in Byte /\ g \in Byte
    BY <2>1 DEF a, b, d, e, g
  <2>7. <<a, b, d, a, e, g>> \in Seq(Byte) /\ Places(<<a, b, d, a, e, g>>) = {}
    BY <2>4, <2>6, SixBytes
  <2> QED
    BY <2>5, <2>7, Zenon
<1> HIDE DEF bytes
<1>4. blurred \subseteq blurred' /\ blurred' \subseteq {"twin", "lock"} /\ blurred' # {}
  BY <1>1, UserFacts
<1>5. Agreed(Delivered, typed', blurred')
  BY <1>1, <1>4, UserFacts, AgreedBlurred
<1>6. Paired(fifo \o bytes, typed', Len(Delivered), blurred', Seen(mod),
             Meant(down', caps'))
  BY <1>1, <1>2, <1>4, UserFacts, PairedPast
<1> QED
  BY <1>1, <1>2, <1>4, <1>5, <1>6, UserFacts, SendKeeps

LEMMA SendOtherKeeps ==
  ASSUME IInv, NEW kind \in {"error", "mouse"}, SendOther(kind)
  PROVE  IInv'
<1> DEFINE b == Other(kind)
<1>1. /\ Send(<<b>>)
      /\ down' = down /\ caps' = caps /\ typed' = typed /\ blurred' = blurred
  BY DEF SendOther
<1>2. b \in Byte
  BY SentBytes
<1>3. Paired(Append(fifo, b), typed, Len(Delivered), blurred, Seen(mod),
             Meant(down, caps))
  BY UserFacts, PairedEscaped
<1> HIDE DEF b
<1>4. <<b>> \in Seq(Byte) /\ fifo \o <<b>> = Append(fifo, b)
  BY <1>2, UserFacts
<1>5. Paired(fifo \o <<b>>, typed', Len(Delivered), blurred', Seen(mod),
             Meant(down', caps'))
  BY <1>1, <1>3, <1>4, Zenon
<1> QED
  BY <1>1, <1>4, <1>5, UserFacts, SendKeeps


-----------------------------------------------------------------------------
(* The loader's steps.                                                     *)

(* A step that reads nothing.                                              *)
LEMMA StandKeeps ==
  ASSUME IInv, UNCHANGED <<fifo, mod, down, caps, typed, blurred>>,
         parity' \in BOOLEAN, events' \in 0 .. MaxEvents,
         pc' \in {"idle", "recieved", "get"}, c' \in Char, recieved' \in BOOLEAN,
         got' \in Seq(Char), pc' # "idle" => ~recieved', Delivered' = Delivered
  PROVE  IInv'
<1>1. TypeOK'
  BY DEF IInv, TypeOK
<1>2. Agreed(Delivered, typed, blurred)'
  BY DEF IInv
<1>3. Paired(fifo, typed, Len(Delivered), blurred, Seen(mod), Meant(down, caps))'
  <2>1. Seen(mod)' = Seen(mod) /\ Meant(down, caps)' = Meant(down, caps)
    BY DEF Seen, Meant
  <2> QED
    BY <2>1 DEF IInv
<1> QED
  BY <1>1, <1>2, <1>3 DEF IInv

(* A byte is read that delivers nothing.                                   *)
LEMMA ReadKeeps ==
  ASSUME IInv, fifo # <<>>, fifo' = Tail(fifo), UNCHANGED <<parity, user>>,
         ~(Head(fifo).up /\ Head(fifo).code \in Typing),
         mod' \subseteq Bits,
         ~Clears(Head(fifo)) => Seen(mod') = After(Head(fifo), Seen(mod)),
         pc' \in {"idle", "recieved", "get"}, c' \in Char,
         recieved' = recieved, got' = got,
         pc' # "idle" => ~recieved, recieved => c' = c
  PROVE  IInv'
<1>1. /\ fifo \in Seq(Byte) /\ Len(fifo) <= FifoSize /\ Len(fifo) \in Nat
      /\ typed \in Seq(Char) /\ Len(Delivered) \in Nat
      /\ Len(Delivered) <= Len(typed) /\ FifoSize \in Nat
      /\ Paired(fifo, typed, Len(Delivered), blurred, Seen(mod), Meant(down, caps))
  <2>1. fifo \in Seq(Byte) /\ Len(fifo) <= FifoSize
    BY DEF IInv, TypeOK
  <2>2. Len(fifo) \in Nat
    BY <2>1
  <2> QED
    BY <2>1, <2>2, UserFacts, KeyboardAssumption
<1>2. /\ Tail(fifo) \in Seq(Byte) /\ Head(fifo) \in Byte
      /\ Len(Tail(fifo)) <= Len(fifo)
      /\ blurred = {} => ~Clears(Head(fifo))
      /\ Paired(Tail(fifo), typed, Len(Delivered), blurred,
                After(Head(fifo), Seen(mod)), Meant(down, caps))
  BY <1>1, PairedTaken
<1>3. /\ UNCHANGED <<down, caps, typed, blurred, events>>
  BY DEF user
<1>4. TypeOK'
  <2>1. Len(fifo') <= FifoSize /\ fifo' \in Seq(Byte)
    <3>1. Len(Tail(fifo)) \in Nat
      BY <1>2
    <3> QED
      BY <1>1, <1>2, <3>1
  <2> QED
    BY <1>3, <2>1 DEF IInv, TypeOK
<1>5. Delivered' = Delivered
  BY DEF Delivered, Waiting
<1>6. Paired(fifo', typed, Len(Delivered), blurred, Seen(mod'), Meant(down, caps))
  <2>1. CASE blurred = {}
    <3>1. Seen(mod') = After(Head(fifo), Seen(mod))
      BY <1>2, <2>1
    <3> QED
      BY <1>2, <3>1, Zenon
  <2>2. CASE blurred # {}
    BY <1>2, <2>2 DEF Paired
  <2> QED
    BY <2>1, <2>2
<1>7. Paired(fifo, typed, Len(Delivered), blurred, Seen(mod), Meant(down, caps))'
  <2>1. /\ Seen(mod)' = Seen(mod') /\ Meant(down, caps)' = Meant(down, caps)
        /\ typed' = typed /\ blurred' = blurred
    BY <1>3 DEF Seen, Meant
  <2> QED
    BY <1>5, <1>6, <2>1
<1>8. Agreed(Delivered, typed, blurred)'
  BY <1>3, <1>5 DEF IInv
<1> QED
  BY <1>4, <1>7, <1>8 DEF IInv

(* The first byte, and what every step of the loop starts from.            *)
LEMMA LoopFacts ==
  ASSUME IInv, NEW kind, Next0(kind)
  PROVE  /\ pc \in {"recieved", "get"} /\ ~recieved /\ parity \in BOOLEAN
         /\ fifo # <<>> /\ fifo' = Tail(fifo)
         /\ Head(fifo) \in Byte /\ Head(fifo).kind = kind
         /\ Head(fifo).up \in BOOLEAN /\ KeyUp = Head(fifo).up
         /\ kind # "key" => Head(fifo).code = "" /\ ~Head(fifo).up
         /\ mod \subseteq Bits /\ c \in Char /\ got \in Seq(Char)
<1>1. /\ fifo # <<>> /\ fifo' = Tail(fifo) /\ Head(fifo).kind = kind
      /\ pc # "idle"
  BY DEF Next0
<1>2. fifo \in Seq(Byte)
  BY DEF IInv, TypeOK
<1>3. Head(fifo) \in Byte
  BY <1>1, <1>2
<1>4. /\ pc \in {"recieved", "get"} /\ ~recieved /\ parity \in BOOLEAN
      /\ mod \subseteq Bits /\ c \in Char /\ got \in Seq(Char)
  BY <1>1 DEF IInv, TypeOK
<1> QED
  BY <1>1, <1>3, <1>4, ByteFacts DEF KeyUp

LEMMA EscapeKeeps ==
  ASSUME IInv, NEW esc \in {"esc0", "esc1"}, Escape(esc)
  PROVE  IInv'
<1>1. /\ Next0(esc) /\ mod' = mod \union {esc} /\ UNCHANGED <<parity, user>>
      /\ pc' = pc /\ c' = c /\ recieved' = recieved /\ got' = got
  BY DEF Escape, console
<1>2. Seen(mod') = Seen(mod)
  BY <1>1 DEF Seen, Held
<1>3. After(Head(fifo), Seen(mod)) = Seen(mod)
  BY <1>1, LoopFacts, SeenType, AfterOther
<1>4. mod' \subseteq Bits
  BY <1>1, LoopFacts DEF Bits
<1> QED
  BY <1>1, <1>2, <1>3, <1>4, LoopFacts, ReadKeeps

LEMMA DropKeeps ==
  ASSUME IInv, Drop
  PROVE  IInv'
<1>1. PICK kind \in {"error", "mouse"} : Next0(kind)
  BY DEF Drop
<1>2. /\ UNCHANGED <<parity, user>> /\ mod' = mod
      /\ pc' = pc /\ c' = c /\ recieved' = recieved /\ got' = got
  BY DEF Drop, console
<1>3. After(Head(fifo), Seen(mod)) = Seen(mod)
  BY <1>1, LoopFacts, SeenType, AfterOther
<1> QED
  BY <1>1, <1>2, <1>3, LoopFacts, ReadKeeps

LEMMA HeldByteKeeps ==
  ASSUME IInv, HeldByte
  PROVE  IInv'
<1> DEFINE k == Head(fifo).code
           b == Head(fifo)
<1>1. /\ Next0("key") /\ k \in Held /\ UNCHANGED <<parity, user>>
      /\ mod' = IF KeyUp THEN Noted \ {k} ELSE Noted \union {k}
      /\ pc' = pc /\ c' = c /\ recieved' = recieved /\ got' = got
  BY DEF HeldByte, console
<1>2. b.kind = "key" /\ b.code = k /\ b.up \in BOOLEAN /\ KeyUp = b.up
      /\ mod \subseteq Bits
  BY <1>1, LoopFacts
<1>3. k \notin Typing
  BY <1>1, KeyboardAssumption
<1> HIDE DEF k, b
<1>4. mod' = IF b.up THEN (mod \union {"up"}) \ {k} ELSE (mod \ {"up"}) \union {k}
  BY <1>1, <1>2 DEF Noted
<1>5. mod' \subseteq Bits
  BY <1>1, <1>2, <1>4 DEF Bits, Held
<1>6. "up" \notin Held /\ "caps" \notin Held /\ k # "caps" /\ k # "up"
  BY <1>1 DEF Held
<1>7. /\ mod' \intersect Held = IF b.up THEN (mod \intersect Held) \ {k}
                                ELSE (mod \intersect Held) \union {k}
      /\ "caps" \in mod' <=> "caps" \in mod
  BY <1>1, <1>4, <1>6
<1>8. Seen(mod') = After(b, Seen(mod))
  BY <1>1, <1>2, <1>6, <1>7 DEF Seen, After
<1> QED
  BY <1>1, <1>3, <1>5, <1>8, LoopFacts, ReadKeeps DEF k, b

LEMMA LockByteKeeps ==
  ASSUME IInv, LockByte
  PROVE  IInv'
<1> DEFINE k == Head(fifo).code
           b == Head(fifo)
<1>1. /\ Next0("key") /\ k \in Lock /\ UNCHANGED <<parity, user>>
      /\ mod' = Locked(Noted, k)
      /\ pc' = pc /\ c' = c /\ recieved' = recieved /\ got' = got
  BY DEF LockByte, console
<1>2. b.kind = "key" /\ b.code = k /\ b.up \in BOOLEAN /\ KeyUp = b.up
      /\ mod \subseteq Bits
  BY <1>1, LoopFacts
<1>3. k \notin Typing
  BY <1>1, KeyboardAssumption
<1> HIDE DEF k, b
<1>4. mod' = IF b.up THEN mod \union {"up"}
             ELSE IF k \in mod \ {"up"} THEN (mod \ {"up"}) \ {k}
             ELSE (mod \ {"up"}) \union {k}
  BY <1>1, <1>2 DEF Noted, Locked, Toggle
<1>5. mod' \subseteq Bits
  BY <1>1, <1>2, <1>4 DEF Bits, Lock
<1>6. /\ "up" \notin Held /\ "caps" \notin Held /\ k \notin Held /\ k # "up"
  BY <1>1 DEF Held, Lock
<1>7. /\ mod' \intersect Held = mod \intersect Held
      /\ "caps" \in mod' <=> (IF k = "caps" /\ ~b.up THEN "caps" \notin mod
                              ELSE "caps" \in mod)
  BY <1>2, <1>4, <1>6
<1>8. Seen(mod') = After(b, Seen(mod))
  <2>1. Seen(mod') = [shift |-> mod \intersect Held, lock |-> "caps" \in mod']
    BY <1>7 DEF Seen
  <2>2. CASE k = "caps" /\ ~b.up
    <3>1. After(b, Seen(mod)) = [shift |-> mod \intersect Held, lock |-> ~("caps" \in mod)]
      BY <1>2, <1>6, <2>2 DEF Seen, After
    <3>2. "caps" \in mod' <=> ~("caps" \in mod)
      BY <1>7, <2>2
    <3> QED
      BY <2>1, <3>1, <3>2
  <2>3. CASE ~(k = "caps" /\ ~b.up)
    <3>1. After(b, Seen(mod)) = [shift |-> mod \intersect Held, lock |-> "caps" \in mod]
      BY <1>2, <1>6, <2>3 DEF Seen, After
    <3>2. "caps" \in mod' <=> "caps" \in mod
      BY <1>7, <2>3
    <3> QED
      BY <2>1, <3>1, <3>2
  <2> QED
    BY <2>2, <2>3
<1> QED
  BY <1>1, <1>3, <1>5, <1>8, LoopFacts, ReadKeeps DEF k, b

LEMMA TwinByteKeeps ==
  ASSUME IInv, TwinByte
  PROVE  IInv'
<1> DEFINE k == Head(fifo).code
           b == Head(fifo)
           this == IF "esc0" \in mod THEN Right[k] ELSE Left[k]
           other == IF "esc0" \in mod THEN Left[k] ELSE Right[k]
<1>1. /\ Next0("key") /\ k \in Twin /\ UNCHANGED <<parity, user>>
      /\ mod' = Unescaped(IF KeyUp THEN Noted \intersect {other}
                                   ELSE Noted \union {this})
      /\ pc' = pc /\ c' = c /\ recieved' = recieved /\ got' = got
  BY DEF TwinByte, console
<1>2. b.kind = "key" /\ b.code = k /\ b.up \in BOOLEAN /\ KeyUp = b.up
      /\ mod \subseteq Bits
  BY <1>1, LoopFacts
<1>3. k \notin Typing
  BY <1>1, KeyboardAssumption
<1>4. this \in {"lctrl", "lalt", "rctrl", "ralt"}
  BY <1>1 DEF Twin, Left, Right
<1> HIDE DEF k, b, this, other
<1>5. mod' = (IF b.up THEN (mod \union {"up"}) \intersect {other}
              ELSE (mod \ {"up"}) \union {this}) \ {"esc0", "esc1"}
  BY <1>1, <1>2 DEF Noted, Unescaped
<1>6. mod' \subseteq Bits
  BY <1>2, <1>4, <1>5 DEF Bits
<1>7. ASSUME ~Clears(b)
      PROVE  Seen(mod') = After(b, Seen(mod))
  <2>1. ~b.up
    BY <1>1, <1>2, <1>7 DEF Clears
  <2>2. k \notin Held /\ k # "caps"
    BY <1>1 DEF Twin, Held
  <2>3. /\ mod' \intersect Held = mod \intersect Held
        /\ "caps" \in mod' <=> "caps" \in mod
    <3>1. this \notin Held /\ this # "caps"
      BY <1>4 DEF Held
    <3> QED
      BY <1>5, <2>1, <3>1 DEF Held
  <2> QED
    BY <1>2, <2>1, <2>2, <2>3 DEF Seen, After
<1> QED
  BY <1>1, <1>3, <1>6, <1>7, LoopFacts, ReadKeeps DEF k, b


(* A key that types.                                                       *)
LEMMA KeyByteKeeps ==
  ASSUME IInv, KeyByte
  PROVE  IInv'
<1> DEFINE k == Head(fifo).code
           b == Head(fifo)
           x == [code |-> k, char |-> Ascii(k, Noted \intersect Held # {},
                                            "caps" \in Noted)]
           m == After(b, Seen(mod))
<1>1. /\ Next0("key") /\ k \in Typing /\ UNCHANGED <<parity, user>>
      /\ mod' = Unescaped(Noted) /\ c' = x
      /\ \/ /\ KeyUp /\ pc = "get" /\ got' = Append(got, c') /\ pc' = "idle"
            /\ recieved' = recieved
         \/ /\ ~KeyUp /\ pc = "get" /\ pc' = pc /\ recieved' = recieved /\ got' = got
         \/ /\ pc = "recieved" /\ recieved' = (recieved \/ KeyUp)
            /\ pc' = "idle" /\ got' = got
  BY DEF KeyByte, Delivers
<1>0. recieved \in BOOLEAN
  BY DEF IInv, TypeOK
<1>2. /\ b.kind = "key" /\ b.up \in BOOLEAN /\ KeyUp = b.up /\ b.code = k
      /\ ~recieved /\ pc \in {"recieved", "get"}
      /\ mod \subseteq Bits /\ got \in Seq(Char)
      /\ fifo # <<>> /\ fifo' = Tail(fifo)
  BY <1>1, LoopFacts
<1>3. x \in Char /\ x.code = k /\ x.char = Ascii(k, Noted \intersect Held # {}, "caps" \in Noted)
  <2>1. x.char \in {Glyphs[k].plain, Glyphs[k].upper, Glyphs[k].shifted}
    BY DEF Ascii
  <2>2. x = [code |-> k, char |-> x.char]
    OBVIOUS
  <2>3. x.code = k /\ x.char = Ascii(k, Noted \intersect Held # {}, "caps" \in Noted)
    BY Zenon
  <2> HIDE DEF x, k
  <2>4. x \in Char
    BY <1>1, <2>1, <2>2 DEF Char
  <2> QED
    BY <2>3, <2>4
<1>4. k \notin Held /\ k # "caps" /\ k \notin Twin
  BY <1>1, KeyboardAssumption DEF Lock
<1> HIDE DEF x
<1>5. /\ Noted \intersect Held = mod \intersect Held
      /\ "caps" \in Noted <=> "caps" \in mod
  BY DEF Noted, Held
<1>6. m = Seen(mod)
  BY <1>4, SeenType DEF After, Mods
<1>7. /\ mod' \subseteq Bits
      /\ mod' \intersect Held = mod \intersect Held
      /\ "caps" \in mod' <=> "caps" \in mod
  BY <1>1, <1>2, <1>5 DEF Unescaped, Held, Noted, Bits
<1>8. Seen(mod') = m
  BY <1>6, <1>7 DEF Seen
<1>9. x.char = CharOf(b, m)
  <2> HIDE DEF k, m, b
  <2>1. m.shift = mod \intersect Held /\ m.lock = ("caps" \in mod)
    BY <1>6 DEF Seen
  <2>2. (Noted \intersect Held # {}) = (m.shift # {})
    BY <1>5, <2>1
  <2>3. ("caps" \in Noted) = m.lock
    BY <1>5, <2>1
  <2>4. x.char = Ascii(b.code, Noted \intersect Held # {}, "caps" \in Noted)
    BY <1>2, <1>3, Zenon
  <2>5. x.char = Ascii(b.code, m.shift # {}, m.lock)
    BY <2>2, <2>3, <2>4, Zenon
  <2> QED
    BY <2>5 DEF CharOf
<1>10. CASE ~b.up
  <2>1. recieved' = recieved
    <3>1. recieved' = recieved \/ recieved' = FALSE
      BY <1>1, <1>2, <1>10
    <3> QED
      BY <1>0, <1>2, <3>1
  <2>2. /\ got' = got /\ pc' \in {"idle", "recieved", "get"}
    <3> HIDE DEF b
    <3> QED
      BY <1>1, <1>2, <1>10
  <2> QED
    BY <1>1, <1>2, <1>3, <1>7, <1>8, <1>10, <2>1, <2>2, ReadKeeps
<1>11. CASE b.up
  <2>1. pc' = "idle" /\ recieved' \in BOOLEAN /\ got' \in Seq(Char)
    <3> HIDE DEF b
    <3>1. /\ pc' = "idle"
          /\ recieved' = recieved \/ recieved' = (recieved \/ KeyUp)
          /\ got' = Append(got, x) \/ got' = got
      BY <1>1, <1>2, <1>11
    <3>2. recieved' \in BOOLEAN
      BY <1>0, <3>1
    <3>3. got' \in Seq(Char)
      BY <1>2, <1>3, <3>1
    <3> QED
      BY <3>1, <3>2, <3>3
  <2>2. Delivered' = Append(Delivered, x)
    <3>1. Delivered = got
      BY <1>2, DeliveredType DEF IInv
    <3>2. CASE pc = "get"
      <4>1. got' = Append(got, x) /\ ~recieved'
        BY <1>1, <1>2, <1>11, <3>2
      <4>2. Delivered' = Append(got, x) \o <<>>
        BY <4>1 DEF Delivered, Waiting
      <4> QED
        BY <1>2, <1>3, <3>1, <4>2
    <3>3. CASE pc = "recieved"
      <4>1. got' = got /\ recieved' /\ c' = x
        BY <1>1, <1>2, <1>11, <3>3
      <4>2. Delivered' = got \o <<x>>
        BY <4>1 DEF Delivered, Waiting
      <4> QED
        BY <1>2, <1>3, <3>1, <4>2
    <3> QED
      BY <1>2, <3>2, <3>3
  <2>3. /\ fifo \in Seq(Byte) /\ Len(fifo) <= FifoSize
        /\ typed \in Seq(Char) /\ Len(Delivered) \in Nat /\ Delivered \in Seq(Char)
        /\ Len(Delivered) <= Len(typed) /\ FifoSize \in Nat
        /\ Agreed(Delivered, typed, blurred)
        /\ Paired(fifo, typed, Len(Delivered), blurred, Seen(mod), Meant(down, caps))
    <3>1. Len(fifo) <= FifoSize
      BY DEF IInv, TypeOK
    <3> QED
      BY <3>1, UserFacts, KeyboardAssumption
  <2> DEFINE n == Len(Delivered) + 1
  <2>4. /\ Tail(fifo) \in Seq(Byte) /\ Len(Tail(fifo)) <= Len(fifo)
        /\ n <= Len(typed) /\ typed[n].code = k
        /\ blurred = {} => typed[n].char = CharOf(b, m)
        /\ Paired(Tail(fifo), typed, n, blurred, m, Meant(down, caps))
    BY <1>1, <1>2, <1>11, <2>3, PairedTaken
  <2> HIDE DEF k, b, m
  <2>5. Len(Append(Delivered, x)) = n
    BY <1>3, <2>3
  <2>6. Agreed(Append(Delivered, x), typed, blurred)
    <3>1. blurred = {} => typed[Len(Delivered) + 1].char = x.char
      BY <1>9, <2>4
    <3> QED
      BY <1>3, <2>3, <2>4, <3>1, AgreedDelivered
  <2> HIDE DEF n
  <2>7. UNCHANGED <<down, caps, typed, blurred, events, parity>>
    BY <1>1 DEF user
  <2>8. Len(fifo') <= FifoSize /\ fifo' \in Seq(Byte)
    <3>1. Len(Tail(fifo)) \in Nat /\ Len(fifo) \in Nat
      BY <2>3, <2>4
    <3> QED
      BY <1>2, <2>3, <2>4, <3>1
  <2>9. TypeOK'
    BY <1>1, <1>3, <1>7, <2>1, <2>7, <2>8 DEF IInv, TypeOK
  <2>10. Agreed(Delivered, typed, blurred)'
    BY <2>2, <2>6, <2>7
  <2>11. Paired(fifo, typed, Len(Delivered), blurred, Seen(mod), Meant(down, caps))'
    <3>1. /\ Seen(mod)' = m /\ Meant(down, caps)' = Meant(down, caps)
          /\ Len(Delivered)' = n
      BY <1>8, <2>2, <2>5, <2>7 DEF Seen, Meant
    <3> QED
      BY <1>2, <2>4, <2>7, <3>1
  <2> QED
    BY <2>1, <2>9, <2>10, <2>11 DEF IInv
<1> QED
  BY <1>2, <1>10, <1>11

-----------------------------------------------------------------------------

LEMMA InitHolds == Init => IInv
<1> SUFFICES ASSUME Init PROVE IInv
  OBVIOUS
<1>1. TypeOK
  <2>1. fifo \in Seq(Byte) /\ Len(fifo) = 0 /\ got \in Seq(Char) /\ typed \in Seq(Char)
    BY DEF Init
  <2>2. 0 <= FifoSize /\ 0 \in 0 .. MaxEvents
    BY KeyboardAssumption
  <2>3. /\ parity \in BOOLEAN /\ mod \subseteq Bits
        /\ pc \in {"idle", "recieved", "get"} /\ c \in Char /\ recieved \in BOOLEAN
        /\ down \subseteq Keys /\ caps \in BOOLEAN /\ blurred \subseteq {"twin", "lock"}
    BY CharFacts DEF Init
  <2> QED
    BY <2>1, <2>2, <2>3 DEF TypeOK, Init
<1>2. Delivered = <<>>
  BY <1>1, DeliveredType DEF Init
<1>3. Agreed(Delivered, typed, blurred)
  BY <1>2 DEF Init, Agreed
<1> DEFINE after == [i \in 0 .. 0 |-> Seen(mod)]
           turn == [i \in {} |-> 1]
<1>4. /\ fifo = <<>> /\ typed = <<>> /\ Len(Delivered) = 0 /\ Len(fifo) = 0
      /\ Places(fifo) = {} /\ Len(typed) = 0
  BY <1>2 DEF Init, Places
<1>5. Meant(down, caps) = Seen(mod)
  <2>1. {k.code : k \in down} \intersect Held = mod \intersect Held
    BY DEF Init
  <2>2. caps = FALSE /\ ("caps" \in mod) = FALSE
    BY DEF Init
  <2> QED
    BY <2>1, <2>2, Zenon DEF Meant, Seen
<1>6. Traced(fifo, after, Seen(mod), Meant(down, caps))
  BY <1>4, <1>5, SeenType DEF Traced
<1>7. Sharp(fifo, typed, turn, Seen(mod), Meant(down, caps))
  <2>1. after \in [0 .. Len(fifo) -> Mods]
    BY <1>6 DEF Traced
  <2>2. Marked(fifo, typed, turn, after)
    BY <1>4 DEF Marked
  <2>3. Clear(fifo)
    BY <1>4 DEF Clear
  <2> HIDE DEF after
  <2> QED
    BY <1>6, <2>1, <2>2, <2>3 DEF Sharp
<1>8. Aligned(fifo, typed, Len(Delivered), turn)
  BY <1>4 DEF Aligned
<1>9. Paired(fifo, typed, Len(Delivered), blurred, Seen(mod), Meant(down, caps))
  <2>1. turn \in [Places(fifo) -> Len(Delivered) + 1 .. Len(typed)]
    BY <1>8 DEF Aligned
  <2> HIDE DEF turn
  <2> QED
    BY <1>7, <1>8, <2>1 DEF Paired
<1> QED
  BY <1>1, <1>3, <1>9 DEF IInv, Init

LEMMA StepKeeps == IInv /\ [Next]_vars => IInv'
<1> SUFFICES ASSUME IInv, [Next]_vars PROVE IInv'
  OBVIOUS
<1>0. /\ parity \in BOOLEAN /\ events \in 0 .. MaxEvents
      /\ pc \in {"idle", "recieved", "get"} /\ c \in Char /\ recieved \in BOOLEAN
      /\ got \in Seq(Char) /\ (pc # "idle" => ~recieved)
  BY DEF IInv, TypeOK
<1>1. CASE User
  <2>1. ASSUME NEW k \in Keys, Press(k) \/ Repeat(k) \/ LetGo(k)
        PROVE  IInv'
    BY <2>1, PressKeeps, RepeatKeeps, LetGoKeeps
  <2>2. ASSUME NEW kind \in {"error", "mouse"}, SendOther(kind)
        PROVE  IInv'
    BY <2>2, SendOtherKeeps
  <2>3. CASE ParityError
    <3>1. /\ UNCHANGED <<fifo, mod, pc, c, recieved, got, down, caps, typed, blurred>>
          /\ parity' = TRUE /\ events' \in 0 .. MaxEvents
      BY <1>0, <2>3, KeyboardAssumption DEF ParityError, console
    <3>2. Delivered' = Delivered
      BY <3>1 DEF Delivered, Waiting
    <3> QED
      BY <1>0, <3>1, <3>2, StandKeeps
  <2> QED
    BY <1>1, <2>1, <2>2, <2>3, PressPauseKeeps DEF User
<1>2. CASE Recieved \/ Get
  <2>1. /\ UNCHANGED <<fifo, mod, parity, events, c, recieved, got, down, caps, typed, blurred>>
        /\ pc' \in {"recieved", "get"} /\ ~recieved
    BY <1>2 DEF Recieved, Get, Polls, console, user
  <2>2. Delivered' = Delivered
    BY <2>1 DEF Delivered, Waiting
  <2> QED
    BY <1>0, <2>1, <2>2, StandKeeps
<1>3. CASE GetWaiting
  <2>1. /\ UNCHANGED <<fifo, mod, parity, events, c, pc, down, caps, typed, blurred>>
        /\ recieved' = FALSE /\ recieved /\ got' = Append(got, c) /\ pc = "idle"
    BY <1>3 DEF GetWaiting, user
  <2>2. Delivered = Append(got, c)
    BY <2>1, DeliveredType DEF IInv
  <2>3. Delivered' = Append(got, c) \o <<>>
    BY <2>1 DEF Delivered, Waiting
  <2>4. Delivered' = Delivered /\ got' \in Seq(Char)
    BY <1>0, <2>1, <2>2, <2>3
  <2> QED
    BY <1>0, <2>1, <2>4, StandKeeps
<1>4. CASE Loop
  <2>1. CASE GivesUp
    <3>1. /\ UNCHANGED <<fifo, mod, parity, events, c, recieved, got, down, caps, typed, blurred>>
          /\ pc' = "idle"
      BY <2>1 DEF GivesUp, AfterIdle, console, user
    <3>2. Delivered' = Delivered
      BY <3>1 DEF Delivered, Waiting
    <3> QED
      BY <1>0, <3>1, <3>2, StandKeeps
  <2>2. ASSUME NEW esc \in {"esc0", "esc1"}, Escape(esc)
        PROVE  IInv'
    BY <2>2, EscapeKeeps
  <2> QED
    BY <1>4, <2>1, <2>2, DropKeeps, HeldByteKeeps, LockByteKeeps, TwinByteKeeps,
       KeyByteKeeps DEF Loop
<1>5. CASE UNCHANGED vars
  <2>1. UNCHANGED <<fifo, mod, parity, events, pc, c, recieved, got, down, caps, typed, blurred>>
    BY <1>5 DEF vars, console, user
  <2>2. Delivered' = Delivered
    BY <2>1 DEF Delivered, Waiting
  <2> QED
    BY <1>0, <2>1, <2>2, StandKeeps
<1> QED
  BY <1>1, <1>2, <1>3, <1>4, <1>5 DEF Next

(* The bytes under way hold what the two ends still differ by.             *)
THEOREM Invariance == Spec => []IInv
<1> QED
  BY InitHolds, StepKeeps, PTL DEF Spec

LEMMA KeptMeant == IInv => KeysKept /\ CharsMeant
<1> SUFFICES ASSUME IInv PROVE KeysKept /\ CharsMeant
  OBVIOUS
<1>1. PICK turn \in [Places(fifo) -> Len(Delivered) + 1 .. Len(typed)] :
        Aligned(fifo, typed, Len(Delivered), turn)
  BY DEF IInv, Paired
<1>2. Coming = Places(fifo)
  BY DEF Coming, Places
<1>3. turn \in Turns /\ InTurn(turn)
  BY <1>1, <1>2 DEF Turns, InTurn, Aligned
<1>4. /\ Len(Delivered) <= Len(typed)
      /\ \A i \in DOMAIN Delivered : Delivered[i].code = typed[i].code
      /\ CharsMeant
  BY DEF IInv, Agreed, CharsMeant
<1> QED
  BY <1>3, <1>4 DEF KeysKept, IInv

(* However recieved() and get() of text_display_console.c are mixed, every *)
(* key let go is delivered once and in its turn: for every keyboard, every *)
(* buffer and every typing.                                                *)
THEOREM EveryKeyArrives == Spec => []KeysKept
<1> QED
  BY Invariance, KeptMeant, PTL

(* And it is the character of ascii_driver.c for the shift keys and the    *)
(* caps lock of the moment it was let go, as long as nothing is blurred.   *)
THEOREM EveryCharIsMeant == Spec => []CharsMeant
<1> QED
  BY Invariance, KeptMeant, PTL
=============================================================================
