---------------------------- MODULE CmdLineProofs ----------------------------
(***************************************************************************)
(* Every line runs what it asks for, and strtok's position never leaves    *)
(* the line for good: for every table, every line and every STARTUP.       *)
(*                                                                         *)
(* From strtok's position on, the copy of the line is still what was       *)
(* given, and the commands run are the ones that start before it.  IInv    *)
(* says so; a strtok that ends a part ends it where the line does, because *)
(* both are the first separator from the position on.                      *)
(***************************************************************************)
EXTENDS CmdLine, FiniteSetTheorems, TLAPS

-----------------------------------------------------------------------------
(* The least of some numbers.                                              *)

LEMMA LeastOf ==
  ASSUME NEW S, S \subseteq Nat, S # {}
  PROVE  Min(S) \in S /\ \A y \in S : Min(S) <= y
<1> DEFINE F == {0 .. m : m \in S}
<1>1. F \subseteq FiniteSubsetsOf(Nat)
  <2>1. ASSUME NEW m \in S PROVE 0 .. m \in FiniteSubsetsOf(Nat)
    <3>1. m \in Nat
      OBVIOUS
    <3>2. IsFiniteSet(0 .. m)
      BY <3>1, FS_Interval
    <3> QED
      BY <3>1, <3>2 DEF FiniteSubsetsOf
  <2> QED
    BY <2>1
<1>2. F # {}
  OBVIOUS
<1>3. IsWellFoundedOn(StrictSubsetOrdering(Nat), FiniteSubsetsOf(Nat))
  BY FS_StrictSubsetOrderingWellFounded
<1> HIDE DEF F
<1>4. \E x \in F : \A y \in F : ~(<<y, x>> \in StrictSubsetOrdering(Nat))
  BY <1>1, <1>2, <1>3, WFMin
<1>5. PICK g \in S : \A y \in F : ~(<<y, 0 .. g>> \in StrictSubsetOrdering(Nat))
  BY <1>4 DEF F
<1>6. ASSUME NEW m \in S, m < g PROVE FALSE
  <2>1. 0 .. m \in F
    BY DEF F
  <2>2. 0 .. m \subseteq 0 .. g /\ g \in 0 .. g /\ g \notin 0 .. m
    BY <1>6
  <2>3. <<0 .. m, 0 .. g>> \in StrictSubsetOrdering(Nat)
    BY <2>2 DEF StrictSubsetOrdering
  <2> QED
    BY <1>5, <2>1, <2>3
<1>7. \E g1 \in S : \A y \in S : g1 <= y
  BY <1>6
<1> QED
  BY <1>7 DEF Min

LEMMA LeastIs ==
  ASSUME NEW S, S \subseteq Nat, NEW m \in S, \A y \in S : m <= y
  PROVE  Min(S) = m
<1>1. Min(S) \in S /\ \A y \in S : Min(S) <= y
  BY LeastOf
<1>2. Min(S) <= m /\ m <= Min(S) /\ Min(S) \in Nat /\ m \in Nat
  BY <1>1
<1> QED
  BY <1>2


-----------------------------------------------------------------------------
(* Texts.                                                                  *)

LEMMA CharText ==
  /\ Nul \notin Char
  /\ \A t \in Typed \union Startups : t \in Seq(Char)
<1>1. Nul \notin Char
  BY CmdAssumption DEF Char, IsText
<1>2. ASSUME NEW t \in Typed \union Startups
      PROVE  t \in Seq(Char)
  <2>1. t \in Seq(ToSet(t)) /\ ToSet(t) \subseteq Char
    BY CmdAssumption DEF Char, IsText
  <2> QED
    BY <2>1
<1> QED
  BY <1>1, <1>2

LEMMA CStringOf ==
  ASSUME NEW t \in Seq(Char)
  PROVE  /\ CString(t) \in Seq(Char \union {Nul})
         /\ Len(CString(t)) = Len(t) + 1
         /\ CString(t)[Len(t) + 1] = Nul
         /\ \A i \in 1 .. Len(t) : CString(t)[i] = t[i] /\ t[i] # Nul /\ t[i] \in Char
<1>1. /\ CString(t) \in Seq(Char \union {Nul})
      /\ Len(CString(t)) = Len(t) + 1
      /\ CString(t)[Len(t) + 1] = Nul
      /\ \A i \in 1 .. Len(t) : CString(t)[i] = t[i]
  BY DEF CString
<1>2. \A i \in 1 .. Len(t) : t[i] \in Char /\ t[i] # Nul
  BY CharText
<1> QED
  BY <1>1, <1>2

(* The text of a C string is what it was made of.                          *)
LEMMA TextOf ==
  ASSUME NEW t \in Seq(Char)
  PROVE  Text(CString(t), 1) = t
<1> DEFINE s == CString(t)
           n == Len(t)
<1>1. /\ s \in Seq(Char \union {Nul}) /\ Len(s) = n + 1 /\ s[n + 1] = Nul /\ n \in Nat
      /\ \A i \in 1 .. n : s[i] = t[i] /\ t[i] # Nul
  BY CStringOf
<1> HIDE DEF s, n
<1>2. TokEnd(s, 1, Nul) = n + 1
  <2> DEFINE S == {q \in 1 .. Len(s) : s[q] \in {Nul, Nul}}
  <2>1. S \subseteq Nat /\ n + 1 \in S
    BY <1>1
  <2>2. \A y \in S : n + 1 <= y
    <3> SUFFICES ASSUME NEW y \in S PROVE n + 1 <= y
      OBVIOUS
    <3>1. y \in 1 .. n + 1 /\ s[y] = Nul
      BY <1>1
    <3>2. y \notin 1 .. n
      BY <1>1, <3>1
    <3> QED
      BY <1>1, <3>1, <3>2
  <2> HIDE DEF S
  <2>3. Min(S) = n + 1
    BY <2>1, <2>2, LeastIs
  <2> QED
    BY <2>3 DEF TokEnd, S
<1>3. Text(s, 1) = SubSeq(s, 1, n)
  BY <1>1, <1>2 DEF Text
<1>4. SubSeq(s, 1, n) = t
  <2>1. SubSeq(s, 1, n) \in Seq(Char \union {Nul}) /\ Len(SubSeq(s, 1, n)) = n
        /\ \A i \in 1 .. n : SubSeq(s, 1, n)[i] = s[i]
    BY <1>1
  <2>2. t \in Seq(Char \union {Nul}) /\ Len(t) = n
    BY DEF n
  <2> QED
    BY <1>1, <2>1, <2>2
<1> QED
  BY <1>3, <1>4 DEF s

-----------------------------------------------------------------------------
(* The parts of a text.                                                    *)

LEMMA PartFacts ==
  ASSUME NEW t \in Seq(Char), NEW s \in 1 .. Len(t) + 1
  PROVE  /\ Ends(t, s) \subseteq Nat /\ Begins(t, s) \subseteq Nat
         /\ Min(Ends(t, s)) \in Ends(t, s) /\ Min(Begins(t, s)) \in Begins(t, s)
         /\ s <= Min(Begins(t, s)) /\ Min(Begins(t, s)) <= Min(Ends(t, s))
         /\ Min(Ends(t, s)) <= Len(t) + 1
         /\ \A q \in Ends(t, s) : Min(Ends(t, s)) <= q
         /\ \A q \in Begins(t, s) : Min(Begins(t, s)) <= q
<1>1. /\ Ends(t, s) \subseteq Nat /\ Begins(t, s) \subseteq Nat
      /\ Len(t) + 1 \in Ends(t, s) /\ Len(t) + 1 \in Begins(t, s)
      /\ Ends(t, s) \subseteq Begins(t, s)
      /\ Ends(t, s) \subseteq s .. Len(t) + 1 /\ Begins(t, s) \subseteq s .. Len(t) + 1
  <2>1. s \in Nat /\ Len(t) \in Nat /\ s <= Len(t) + 1
    OBVIOUS
  <2>2. Len(t) + 1 \in s .. Len(t) + 1 /\ Len(t) + 1 > Len(t)
    BY <2>1
  <2>3. s .. Len(t) + 1 \subseteq Nat
    BY <2>1
  <2>4. \A q : t[q] = CmdSep => t[q] # Blank
    BY DEF CmdSep, Blank
  <2> QED
    BY <2>2, <2>3, <2>4 DEF Ends, Begins
<1>2. /\ Min(Ends(t, s)) \in Ends(t, s) /\ \A q \in Ends(t, s) : Min(Ends(t, s)) <= q
  BY <1>1, LeastOf
<1>3. /\ Min(Begins(t, s)) \in Begins(t, s)
      /\ \A q \in Begins(t, s) : Min(Begins(t, s)) <= q
  BY <1>1, LeastOf
<1>4. s <= Min(Begins(t, s)) /\ Min(Ends(t, s)) <= Len(t) + 1
  BY <1>1, <1>2, <1>3
<1> QED
  BY <1>1, <1>2, <1>3, <1>4

LEMMA StartsIn ==
  ASSUME NEW t \in Seq(Char)
  PROVE  /\ Starts(t) \subseteq 1 .. Len(t) + 1
         /\ Known(t) \subseteq 1 .. Len(t) /\ Known(t) \subseteq Starts(t)
         /\ \A s \in Starts(t) : PartAt(t, s) \in Seq(Char)
<1>1. Starts(t) \subseteq 1 .. Len(t) + 1
  BY DEF Starts
<1>2. ASSUME NEW s \in Starts(t)
      PROVE  PartAt(t, s) \in Seq(Char)
  <2> DEFINE b == Min(Begins(t, s))
             e == Min(Ends(t, s))
  <2>1. b \in 1 .. Len(t) + 1 /\ e \in 1 .. Len(t) + 1
    BY <1>1, PartFacts
  <2> HIDE DEF b, e
  <2>2. SubSeq(t, b, e - 1) \in Seq(Char)
    BY <2>1
  <2> QED
    BY <2>2 DEF PartAt, b, e
<1>3. ASSUME NEW s \in Known(t)
      PROVE  s \in 1 .. Len(t) /\ s \in Starts(t)
  <2>1. s \in Starts(t) /\ s \in 1 .. Len(t) + 1 /\ PartAt(t, s) # <<>>
    BY <1>1 DEF Known, Lettered
  <2>2. s # Len(t) + 1
    <3> SUFFICES ASSUME s = Len(t) + 1 PROVE FALSE
      OBVIOUS
    <3> DEFINE b == Min(Begins(t, s))
               e == Min(Ends(t, s))
    <3>1. b = Len(t) + 1 /\ e = Len(t) + 1
      BY <2>1, PartFacts
    <3> HIDE DEF b, e
    <3>2. SubSeq(t, b, e - 1) = <<>>
      BY <3>1
    <3> QED
      BY <2>1, <3>2 DEF PartAt, b, e
  <2> QED
    BY <2>1, <2>2
<1> QED
  BY <1>1, <1>2, <1>3

-----------------------------------------------------------------------------
(* The table: the first entry whose name or alias a text begins with is    *)
(* the one with its first letter for its alias.                            *)

LEMMA PrefixHead ==
  ASSUME NEW S, NEW T, NEW a \in Seq(S), NEW t \in Seq(T), a # <<>>, IsPrefix(a, t)
  PROVE  t # <<>> /\ Head(a) = Head(t)
<1>1. Len(a) \in Nat /\ Len(a) >= 1 /\ Len(t) \in Nat /\ Len(a) <= Len(t)
  BY DEF IsPrefix
<1>2. SubSeq(a, 1, Len(a)) = SubSeq(t, 1, Len(a))
  BY DEF IsPrefix
<1>3. SubSeq(a, 1, Len(a))[1] = a[1] /\ SubSeq(t, 1, Len(a))[1] = t[1]
  BY <1>1
<1>4. Head(a) = a[1] /\ Head(t) = t[1] /\ t # <<>>
  BY <1>1
<1> QED
  BY <1>2, <1>3, <1>4

LEMMA LetterMatches ==
  ASSUME NEW T, NEW t \in Seq(T), t # <<>>, NEW S, NEW a \in Seq(S), a = <<Head(t)>>
  PROVE  IsPrefix(a, t)
<1>1. Len(a) = 1 /\ a[1] = t[1] /\ Len(t) \in Nat /\ Len(t) >= 1
  OBVIOUS
<1>2. SubSeq(a, 1, 1) \in Seq(S) /\ Len(SubSeq(a, 1, 1)) = 1 /\ SubSeq(a, 1, 1)[1] = a[1]
  BY <1>1
<1>3. SubSeq(t, 1, 1) \in Seq(T) /\ Len(SubSeq(t, 1, 1)) = 1 /\ SubSeq(t, 1, 1)[1] = t[1]
  BY <1>1
<1>4. SubSeq(a, 1, 1) = SubSeq(t, 1, 1)
  BY <1>1, <1>2, <1>3
<1> QED
  BY <1>1, <1>4 DEF IsPrefix

LEMMA OneLetter ==
  ASSUME NEW S, NEW a \in Seq(S), Len(a) = 1
  PROVE  a # <<>> /\ a = <<Head(a)>>
<1> DEFINE b == <<Head(a)>>
<1>1. a # <<>>
  OBVIOUS
<1>2. Head(a) \in S /\ Head(a) = a[1]
  BY <1>1
<1>3. b \in Seq(S) /\ Len(b) = 1 /\ b[1] = a[1]
  BY <1>2
<1> HIDE DEF b
<1>4. a = b
  BY <1>3
<1> QED
  BY <1>1, <1>4 DEF b

LEMMA FirstMatches ==
  ASSUME NEW t \in Seq(Char)
  PROVE  /\ Matching(t) = {} <=> Lettered(t) = {}
         /\ Lettered(t) # {} =>
              /\ Min(Matching(t)) = CHOOSE k \in Lettered(t) : TRUE
              /\ Min(Matching(t)) \in DOMAIN Commands
<1>1. DOMAIN Commands \subseteq Nat /\ \A k \in DOMAIN Commands : 1 .. k \subseteq DOMAIN Commands
  BY CmdAssumption
<1>2. ASSUME NEW k \in Matching(t)
      PROVE  \E j \in Lettered(t) : j <= k
  <2>1. /\ k \in DOMAIN Commands
        /\ Commands[k].name \in Seq(ToSet(Commands[k].name)) /\ Commands[k].name # <<>>
        /\ Commands[k].alias \in Seq(ToSet(Commands[k].alias)) /\ Len(Commands[k].alias) = 1
    BY CmdAssumption, TableAssumption DEF Matching, IsText
  <2>2. CASE IsPrefix(Commands[k].name, t)
    <3>1. t # <<>> /\ Head(Commands[k].name) = Head(t)
      BY <2>1, <2>2, PrefixHead
    <3>2. PICK j \in 1 .. k : Commands[j].alias = <<Head(Commands[k].name)>>
      BY <2>1, TableAssumption
    <3> QED
      BY <1>1, <2>1, <3>1, <3>2 DEF Lettered
  <2>3. CASE IsPrefix(Commands[k].alias, t)
    <3>1. Commands[k].alias # <<>> /\ Commands[k].alias = <<Head(Commands[k].alias)>>
      BY <2>1, OneLetter
    <3>2. t # <<>> /\ Head(Commands[k].alias) = Head(t)
      BY <2>1, <2>3, <3>1, PrefixHead
    <3> QED
      BY <1>1, <2>1, <3>1, <3>2 DEF Lettered
  <2> QED
    BY <2>2, <2>3 DEF Matching
<1>3. ASSUME NEW j \in Lettered(t)
      PROVE  /\ j \in Matching(t)
             /\ \A i \in Lettered(t) : i = j
  <2>1. /\ j \in DOMAIN Commands /\ t # <<>> /\ Commands[j].alias = <<Head(t)>>
        /\ Commands[j].alias \in Seq(ToSet(Commands[j].alias))
    BY CmdAssumption DEF Lettered, IsText
  <2>2. IsPrefix(Commands[j].alias, t)
    BY <2>1, LetterMatches
  <2>3. \A i \in Lettered(t) : i = j
    BY <2>1, TableAssumption DEF Lettered
  <2> QED
    BY <2>1, <2>2, <2>3 DEF Matching
<1>4. Matching(t) = {} <=> Lettered(t) = {}
  BY <1>2, <1>3
<1>5. ASSUME NEW j \in Lettered(t)
      PROVE  Min(Matching(t)) = j
  <2>1. \A k \in Matching(t) : j <= k
    BY <1>2, <1>3
  <2>2. Matching(t) \subseteq Nat
    BY <1>1 DEF Matching
  <2> QED
    BY <1>3, <2>1, <2>2, LeastIs
<1>6. Lettered(t) \subseteq DOMAIN Commands
  BY DEF Lettered
<1> QED
  BY <1>3, <1>4, <1>5, <1>6


(* Two sequences that agree between two places.                            *)
LEMMA SameText ==
  ASSUME NEW S, NEW T, NEW m \in Seq(S), NEW t \in Seq(T), NEW b \in Nat, NEW e \in Nat,
         1 <= b, b - 1 <= e, e <= Len(m), e <= Len(t),
         \A r \in b .. e : m[r] = t[r]
  PROVE  SubSeq(m, b, e) = SubSeq(t, b, e) /\ Len(SubSeq(t, b, e)) <= Len(t)
<1> DEFINE x == SubSeq(m, b, e)
           y == SubSeq(t, b, e)
<1>1. /\ x \in Seq(S) /\ Len(x) = e - b + 1
      /\ \A i \in 1 .. e - b + 1 : x[i] = m[b + i - 1]
  OBVIOUS
<1>2. /\ y \in Seq(T) /\ Len(y) = e - b + 1
      /\ \A i \in 1 .. e - b + 1 : y[i] = t[b + i - 1]
  OBVIOUS
<1> HIDE DEF x, y
<1>3. \A i \in 1 .. e - b + 1 : x[i] = y[i]
  <2> SUFFICES ASSUME NEW i \in 1 .. e - b + 1 PROVE x[i] = y[i]
    OBVIOUS
  <2>1. b + i - 1 \in b .. e
    OBVIOUS
  <2> QED
    BY <1>1, <1>2, <2>1
<1>4. x = y
  BY <1>1, <1>2, <1>3
<1>5. Len(y) <= Len(t)
  BY <1>2
<1> QED
  BY <1>4, <1>5 DEF x, y


-----------------------------------------------------------------------------
(* What was run, up to a place in the text.                                *)

Early(t, p) == {r \in Known(t) : r < p}

Frontier(t, d, p) ==
  /\ Len(d) = Cardinality(Early(t, p))
  /\ \A s \in Known(t) : s < p => d[Turn(t, s)] = Asked(t, s)

LEMMA EarlyFacts ==
  ASSUME NEW t \in Seq(Char), NEW p \in Nat
  PROVE  /\ IsFiniteSet(Known(t)) /\ Cardinality(Known(t)) \in Nat
         /\ IsFiniteSet(Early(t, p)) /\ Cardinality(Early(t, p)) \in Nat
         /\ Cardinality(Early(t, p)) <= Cardinality(Known(t))
         /\ \A s \in Known(t) : s \in Nat /\ Turn(t, s) = Cardinality(Early(t, s + 1))
<1>1. Known(t) \subseteq 1 .. Len(t)
  BY StartsIn
<1>2. IsFiniteSet(1 .. Len(t))
  BY FS_Interval
<1>3. IsFiniteSet(Known(t)) /\ Cardinality(Known(t)) \in Nat
  BY <1>1, <1>2, FS_Subset, FS_CardinalityType
<1>4. /\ Early(t, p) \subseteq Known(t)
  BY DEF Early
<1>5. /\ IsFiniteSet(Early(t, p)) /\ Cardinality(Early(t, p)) <= Cardinality(Known(t))
  BY <1>3, <1>4, FS_Subset
<1>6. Cardinality(Early(t, p)) \in Nat
  BY <1>5, FS_CardinalityType
<1>7. ASSUME NEW s \in Known(t)
      PROVE  s \in Nat /\ Turn(t, s) = Cardinality(Early(t, s + 1))
  <2>1. s \in Nat
    BY <1>1
  <2>2. \A r \in Known(t) : r <= s <=> r < s + 1
    BY <1>1, <2>1
  <2>3. {r \in Known(t) : r <= s} = Early(t, s + 1)
    BY <2>2 DEF Early
  <2> QED
    BY <2>1, <2>3 DEF Turn
<1> QED
  BY <1>3, <1>5, <1>6, <1>7

LEMMA EarlyGrows ==
  ASSUME NEW t \in Seq(Char), NEW p \in Nat, NEW q \in Nat, p <= q
  PROVE  Cardinality(Early(t, p)) <= Cardinality(Early(t, q))
<1>1. IsFiniteSet(Early(t, q))
  BY EarlyFacts
<1>2. \A r \in Known(t) : r \in Nat
  BY StartsIn
<1>3. Early(t, p) \subseteq Early(t, q)
  BY <1>2 DEF Early
<1> QED
  BY <1>1, <1>3, FS_Subset

LEMMA EarlyNext ==
  ASSUME NEW t \in Seq(Char), NEW s \in Known(t)
  PROVE  Cardinality(Early(t, s + 1)) = Cardinality(Early(t, s)) + 1
<1>1. \A r \in Known(t) : r \in Nat
  BY StartsIn
<1>2. IsFiniteSet(Early(t, s))
  BY <1>1, EarlyFacts
<1>3. s \notin Early(t, s)
  BY <1>1 DEF Early
<1>4. Early(t, s + 1) = Early(t, s) \union {s}
  <2>1. \A r \in Known(t) : r < s + 1 <=> r < s \/ r = s
    BY <1>1
  <2> QED
    BY <2>1 DEF Early
<1> QED
  BY <1>2, <1>3, <1>4, FS_AddElement

LEMMA FrontierStands ==
  ASSUME NEW t \in Seq(Char), NEW d, NEW p \in Nat, NEW q \in Nat, p <= q,
         Frontier(t, d, p), \A s \in Known(t) : s < q => s < p
  PROVE  Frontier(t, d, q)
<1>1. \A r \in Known(t) : r \in Nat
  BY StartsIn
<1>2. Early(t, q) = Early(t, p)
  BY <1>1 DEF Early
<1> QED
  BY <1>2 DEF Frontier

(* The known part at s is run.                                             *)
LEMMA FrontierMoves ==
  ASSUME NEW t \in Seq(Char), NEW S, NEW d \in Seq(S), NEW s \in Known(t),
         Frontier(t, d, s)
  PROVE  Frontier(t, Append(d, Asked(t, s)), s + 1)
<1> DEFINE D == Append(d, Asked(t, s))
<1>1. /\ \A r \in Known(t) : r \in Nat /\ Turn(t, r) = Cardinality(Early(t, r + 1))
                             /\ Cardinality(Early(t, r)) \in Nat
                             /\ Cardinality(Early(t, r + 1)) = Cardinality(Early(t, r)) + 1
  <2>1. \A r \in Known(t) : r \in Nat
    BY StartsIn
  <2> QED
    BY <2>1, EarlyFacts, EarlyNext
<1>2. Len(d) = Cardinality(Early(t, s)) /\ Len(d) \in Nat
  BY DEF Frontier
<1>3. /\ Len(D) = Len(d) + 1 /\ D[Len(d) + 1] = Asked(t, s)
      /\ \A i \in 1 .. Len(d) : D[i] = d[i]
  OBVIOUS
<1> HIDE DEF D
<1>4. Len(D) = Cardinality(Early(t, s + 1))
  BY <1>1, <1>2, <1>3
<1>5. ASSUME NEW r \in Known(t), r < s + 1
      PROVE  D[Turn(t, r)] = Asked(t, r)
  <2>1. CASE r = s
    <3>1. Turn(t, r) = Len(d) + 1
      BY <1>1, <1>2, <2>1
    <3> QED
      BY <1>3, <2>1, <3>1
  <2>2. CASE r # s
    <3>1. r < s /\ r + 1 <= s /\ r \in Nat /\ r + 1 \in Nat /\ s \in Nat
      BY <1>1, <1>5, <2>2
    <3>2. Cardinality(Early(t, r + 1)) <= Cardinality(Early(t, s))
      BY <3>1, EarlyGrows
    <3>3. Turn(t, r) \in 1 .. Len(d)
      BY <1>1, <1>2, <3>2
    <3>4. d[Turn(t, r)] = Asked(t, r)
      BY <3>1 DEF Frontier
    <3> QED
      BY <1>3, <3>3, <3>4
  <2> QED
    BY <2>1, <2>2
<1> QED
  BY <1>4, <1>5 DEF Frontier, D

LEMMA FrontierMeans ==
  ASSUME NEW t \in Seq(Char), NEW d, NEW p \in Nat, Frontier(t, d, p)
  PROVE  /\ Len(d) <= Cardinality(Known(t))
         /\ \A s \in Known(t) : Turn(t, s) <= Len(d) => d[Turn(t, s)] = Asked(t, s)
         /\ p = Len(t) + 1 => Len(d) = Cardinality(Known(t))
<1>1. /\ Len(d) = Cardinality(Early(t, p)) /\ Len(d) <= Cardinality(Known(t))
      /\ Len(d) \in Nat
  BY EarlyFacts DEF Frontier
<1>2. ASSUME NEW s \in Known(t), Turn(t, s) <= Len(d)
      PROVE  d[Turn(t, s)] = Asked(t, s)
  <2>1. s \in Nat
    BY StartsIn
  <2>2. s < p
    <3> SUFFICES ASSUME ~(s < p) PROVE FALSE
      OBVIOUS
    <3>1. Cardinality(Early(t, p)) <= Cardinality(Early(t, s))
      BY <2>1, EarlyGrows
    <3>2. Turn(t, s) = Cardinality(Early(t, s)) + 1 /\ Cardinality(Early(t, s)) \in Nat
      BY <2>1, EarlyFacts, EarlyNext
    <3> QED
      BY <1>1, <1>2, <3>1, <3>2
  <2> QED
    BY <2>2 DEF Frontier
<1>3. ASSUME p = Len(t) + 1
      PROVE  Len(d) = Cardinality(Known(t))
  <2>1. \A r \in Known(t) : r < p
    <3>1. Len(t) \in Nat /\ Known(t) \subseteq 1 .. Len(t)
      BY StartsIn
    <3> QED
      BY <1>3, <3>1
  <2>2. Early(t, p) = Known(t)
    BY <2>1 DEF Early
  <2> QED
    BY <1>1, <2>2
<1> QED
  BY <1>1, <1>2, <1>3

-----------------------------------------------------------------------------
(* strtok, strltrim and strcpy on a copy that still is the text from p on. *)

Intact(l, t, p) ==
  /\ l \in Seq(Char \union {Nul}) /\ Len(l) = Len(t) + 1
  /\ l[Len(t) + 1] = Nul
  /\ p \in Starts(t) \union {Len(t) + 1}
  /\ \A q \in p .. Len(t) + 1 : l[q] = CString(t)[q]

LEMMA Scan ==
  ASSUME NEW t \in Seq(Char), NEW l, NEW p, Intact(l, t, p), l[p] # Nul
  PROVE  LET m == Cut(l, p, CmdSep)
             b == LTrim(m, p)
             n == Behind(l, p, CmdSep)
         IN  /\ p \in Starts(t) /\ p \in 1 .. Len(t)
             /\ Intact(m, t, n) /\ p < n /\ n <= Len(t) + 1
             /\ \A s \in Starts(t) : s < n => s <= p
             /\ b \in 1 .. Len(t) + 1
             /\ Text(m, b) = PartAt(t, p)
             /\ Len(PartAt(t, p)) <= Len(t)
<1> DEFINE N == Len(t) + 1
           q == TokEnd(l, p, CmdSep)
           m == Cut(l, p, CmdSep)
           b == LTrim(m, p)
           n == Behind(l, p, CmdSep)
<1>1. /\ l \in Seq(Char \union {Nul}) /\ Len(l) = N /\ l[N] = Nul
      /\ \A r \in p .. N : l[r] = CString(t)[r]
      /\ Len(t) \in Nat /\ N \in Nat
  BY DEF Intact
<1>2. p \in Starts(t) /\ p \in 1 .. Len(t) /\ p \in 1 .. N
  <2>1. p # N
    BY <1>1
  <2>2. p \in Starts(t) /\ p \in 1 .. N
    BY <2>1, StartsIn DEF Intact
  <2> QED
    BY <1>1, <2>1, <2>2
<1>3. /\ \A r \in p .. Len(t) : l[r] = t[r] /\ t[r] # Nul
      /\ \A r \in p .. N : r > Len(t) <=> r = N
  BY <1>1, <1>2, CStringOf
<1> HIDE DEF N
<1>4. /\ Ends(t, p) = {r \in p .. Len(l) : l[r] \in {CmdSep, Nul}}
  <2>1. \A r \in p .. N : (r > Len(t) \/ t[r] = CmdSep) <=> l[r] \in {CmdSep, Nul}
    <3> SUFFICES ASSUME NEW r \in p .. N
                 PROVE  (r > Len(t) \/ t[r] = CmdSep) <=> l[r] \in {CmdSep, Nul}
      OBVIOUS
    <3>1. CASE r = N
      BY <1>1, <1>3, <3>1
    <3>2. CASE r # N
      <4>1. r \in p .. Len(t)
        BY <1>1, <1>2, <1>3, <3>2
      <4> QED
        BY <1>3, <4>1
    <3> QED
      BY <3>1, <3>2
  <2> QED
    BY <1>1, <2>1 DEF Ends, N
<1>5. q = Min(Ends(t, p))
  BY <1>4 DEF TokEnd
<1>6. /\ q \in p .. N /\ (q > Len(t) \/ t[q] = CmdSep)
      /\ \A r \in Ends(t, p) : q <= r
  <2>1. q \in Ends(t, p) /\ \A r \in Ends(t, p) : q <= r
    BY <1>2, <1>5, PartFacts DEF N
  <2> QED
    BY <2>1 DEF Ends, N
<1> HIDE DEF q
<1>7. /\ m \in Seq(Char \union {Nul}) /\ Len(m) = N /\ m[q] = Nul
      /\ \A r \in 1 .. N : r # q => m[r] = l[r]
  <2>1. m = [l EXCEPT ![q] = Nul]
    BY DEF Cut, q
  <2>2. q \in 1 .. N
    BY <1>1, <1>2, <1>6
  <2> QED
    BY <1>1, <2>1, <2>2
<1> HIDE DEF m
<1>8. Begins(t, p) = {r \in p .. Len(m) : m[r] # Blank}
  <2>1. \A r \in p .. N : (r > Len(t) \/ t[r] # Blank) <=> m[r] # Blank
    <3> SUFFICES ASSUME NEW r \in p .. N
                 PROVE  (r > Len(t) \/ t[r] # Blank) <=> m[r] # Blank
      OBVIOUS
    <3>1. CASE r = q
      BY <1>6, <1>7, <3>1 DEF CmdSep, Blank, Nul
    <3>2. CASE r # q
      <4>1. m[r] = l[r]
        BY <1>1, <1>2, <1>7, <3>2
      <4>2. CASE r = N
        BY <1>1, <1>3, <4>1, <4>2 DEF Blank, Nul
      <4>3. CASE r # N
        <5>1. r \in p .. Len(t)
          BY <1>1, <1>2, <1>3, <4>3
        <5> QED
          BY <1>3, <4>1, <5>1
      <4> QED
        BY <4>2, <4>3
    <3> QED
      BY <3>1, <3>2
  <2> QED
    BY <1>7, <2>1 DEF Begins, N
<1>9. b = Min(Begins(t, p)) /\ p <= b /\ b <= q /\ b \in 1 .. N /\ b \in Nat
  <2>1. b = Min(Begins(t, p))
    BY <1>8 DEF LTrim
  <2>2. p <= b /\ b <= q /\ b \in Begins(t, p)
    BY <1>2, <1>5, <2>1, PartFacts DEF N
  <2>3. b \in p .. N
    BY <2>2 DEF Begins, N
  <2> QED
    BY <1>1, <1>2, <2>1, <2>2, <2>3
<1> HIDE DEF b
<1>10. TokEnd(m, b, Nul) = q
  <2> DEFINE S == {r \in b .. Len(m) : m[r] \in {Nul, Nul}}
  <2>1. S \subseteq Nat /\ q \in S
    BY <1>1, <1>6, <1>7, <1>9
  <2>2. ASSUME NEW y \in S
        PROVE  q <= y
    <3> SUFFICES ASSUME y < q PROVE FALSE
      BY <1>1, <1>6, <2>1
    <3>1. y \in p .. Len(t) /\ y # q /\ y \in 1 .. N /\ m[y] = Nul
      BY <1>1, <1>2, <1>3, <1>6, <1>7, <1>9
    <3>2. m[y] = t[y] /\ t[y] # Nul
      BY <1>3, <1>7, <3>1
    <3> QED
      BY <3>1, <3>2
  <2> HIDE DEF S
  <2>3. Min(S) = q
    BY <2>1, <2>2, LeastIs
  <2> QED
    BY <2>3 DEF TokEnd, S
<1>11. Text(m, b) = PartAt(t, p) /\ Len(PartAt(t, p)) <= Len(t)
  <2>1. Text(m, b) = SubSeq(m, b, q - 1)
    BY <1>10 DEF Text
  <2>2. PartAt(t, p) = SubSeq(t, b, q - 1)
    BY <1>5, <1>9 DEF PartAt
  <2>3. /\ q - 1 <= Len(t) /\ q - 1 \in Int /\ b - 1 <= q - 1 /\ 1 <= b /\ q - 1 \in Nat
        /\ q - 1 <= N
    BY <1>1, <1>2, <1>6, <1>9 DEF N
  <2>4. \A r \in b .. q - 1 : m[r] = t[r]
    <3> SUFFICES ASSUME NEW r \in b .. q - 1 PROVE m[r] = t[r]
      OBVIOUS
    <3>1. r \in p .. Len(t) /\ r # q /\ r \in 1 .. N
      BY <1>1, <1>2, <1>6, <1>9, <2>3 DEF N
    <3> QED
      BY <1>3, <1>7, <3>1
  <2>5. SubSeq(m, b, q - 1) = SubSeq(t, b, q - 1) /\ Len(SubSeq(t, b, q - 1)) <= Len(t)
    BY <1>7, <1>9, <2>3, <2>4, SameText, SMTT(30)
  <2> QED
    BY <2>1, <2>2, <2>5
<1>12. n = IF l[q] = Nul THEN q ELSE q + 1
  BY DEF Behind, q
<1>13. l[q] = Nul <=> q = N
  <2>1. CASE q = N
    BY <1>1, <2>1
  <2>2. CASE q # N
    <3>1. q \in p .. Len(t)
      BY <1>1, <1>2, <1>6, <2>2 DEF N
    <3> QED
      BY <1>3, <2>2, <3>1
  <2> QED
    BY <2>1, <2>2
<1>14. /\ p < n /\ n <= N /\ n \in Nat
       /\ n \in Starts(t) \union {N}
  <2>1. CASE q = N
    BY <1>1, <1>2, <1>12, <1>13, <2>1 DEF N
  <2>2. CASE q # N
    <3>1. n = q + 1 /\ q \in DOMAIN t /\ t[q] = CmdSep
      BY <1>1, <1>2, <1>6, <1>12, <1>13, <2>2 DEF N
    <3> QED
      BY <1>1, <1>2, <1>6, <2>2, <3>1 DEF Starts, N
  <2> QED
    BY <2>1, <2>2
<1>15. \A s \in Starts(t) : s < n => s <= p
  <2> SUFFICES ASSUME NEW s \in Starts(t), s < n, ~(s <= p) PROVE FALSE
    OBVIOUS
  <2>1. s \in 1 .. N
    BY StartsIn DEF N
  <2>2. PICK j \in DOMAIN t : t[j] = CmdSep /\ s = j + 1
    BY <1>2, <2>1 DEF Starts
  <2>3. j \in p .. Len(t) + 1 /\ j < q
    BY <1>1, <1>2, <1>6, <1>12, <1>13, <2>1, <2>2 DEF N
  <2>4. j \in Ends(t, p)
    BY <2>2, <2>3 DEF Ends
  <2> QED
    BY <1>1, <1>2, <1>6, <2>3, <2>4
<1>16. Intact(m, t, n)
  <2>1. m[N] = Nul
    BY <1>1, <1>2, <1>7
  <2>2. \A r \in n .. N : m[r] = CString(t)[r]
    <3> SUFFICES ASSUME NEW r \in n .. N PROVE m[r] = CString(t)[r]
      OBVIOUS
    <3>1. r \in p .. N /\ r \in 1 .. N
      BY <1>1, <1>2, <1>14
    <3>2. CASE r = q
      <4>1. q = N
        BY <1>1, <1>6, <1>12, <1>13, <3>2
      <4> QED
        BY <1>7, <3>2, <4>1, CStringOf DEF N
    <3>3. CASE r # q
      BY <1>1, <1>7, <3>1, <3>3
    <3> QED
      BY <3>2, <3>3
  <2> QED
    BY <1>7, <1>14, <2>1, <2>2 DEF Intact, N
<1> QED
  BY <1>2, <1>9, <1>11, <1>14, <1>15, <1>16 DEF N, b, m


-----------------------------------------------------------------------------
(* The inductive invariant.                                                *)

InLine == tok.of = "line" /\ Intact(line, given, tok.at)

IInv ==
  /\ TypeOK
  /\ Len(line) <= CmdMax /\ Len(part) <= CmdMax
  /\ pc \in {"start", "prompt", "typing"} => seg = 1
  /\ pc = "parts" => InLine /\ Frontier(given, done, tok.at)
  /\ pc = "run" =>
       /\ InLine
       /\ \E s \in Known(given) :
            /\ s < tok.at /\ Frontier(given, done, s)
            /\ \A r \in Known(given) : r < tok.at => r <= s
            /\ Text(part, 1) = PartAt(given, s)
  /\ pc = "done" => Frontier(given, done, Len(given) + 1)
  /\ pc \in {"kernel", "lost"} => \E p \in Nat : Frontier(given, done, p)

LEMMA TypeFacts ==
  ASSUME TypeOK
  PROVE  /\ want \in Seq(Char) /\ input \in Seq(Char) /\ given \in Seq(Char)
         /\ top \in 0 .. CmdMax /\ CmdMax \in Nat /\ CmdMax >= 2
         /\ line \in Seq(Char \union {Nul}) /\ part \in Seq(Char \union {Nul})
         /\ tok \in Position /\ safe \in Position /\ res \in Results
         /\ tok.at \in 1 .. CmdMax
         /\ done \in Seq([cmd : DOMAIN Commands, text : Seq(Char)])
  BY CmdAssumption DEF TypeOK, Position

LEMMA EmptyString ==
  /\ CString(<<>>) \in Seq(Char \union {Nul}) /\ Last(CString(<<>>)) = Nul
  /\ DOMAIN CString(<<>>) = 1 .. 1 /\ Len(CString(<<>>)) = 1
<1> DEFINE e == <<>>
<1>1. e \in Seq(Char) /\ Len(e) = 0
  OBVIOUS
<1> HIDE DEF e
<1>2. CString(e) \in Seq(Char \union {Nul}) /\ Len(CString(e)) = 1
      /\ CString(e)[1] = Nul
  <2>1. /\ CString(e) \in Seq(Char \union {Nul}) /\ Len(CString(e)) = Len(e) + 1
        /\ CString(e)[Len(e) + 1] = Nul
    BY <1>1, CStringOf, Zenon
  <2>2. Len(e) + 1 = 1
    BY <1>1
  <2> QED
    BY <2>1, <2>2
<1>3. Last(CString(e)) = Nul /\ DOMAIN CString(e) = 1 .. 1
  BY <1>2 DEF Last
<1> QED
  BY <1>2, <1>3 DEF e

(* Between the lines.                                                      *)
LEMMA RestHolds ==
  ASSUME pc \in {"start", "prompt"}, want = <<>>, input = <<>>, top = 0, given = <<>>,
         line = CString(<<>>), part = CString(<<>>), seg = 1, tok = NoPosition,
         safe = NoPosition, done = <<>>, res = "NOT_SUPPORTED"
  PROVE  IInv
<1>1. NoPosition \in Position
  BY CmdAssumption DEF NoPosition, Position
<1>2. TypeOK
  <2>1. /\ want \in Seq(Char) /\ input \in Seq(Char) /\ given \in Seq(Char)
        /\ done \in Seq([cmd : DOMAIN Commands, text : Seq(Char)])
    OBVIOUS
  <2>2. top \in 0 .. CmdMax /\ res \in Results
    BY CmdAssumption DEF Results
  <2> QED
    BY <1>1, <2>1, <2>2, EmptyString DEF TypeOK
<1>3. Len(line) <= CmdMax /\ Len(part) <= CmdMax
  <2>1. Len(line) = 1 /\ Len(part) = 1
    BY EmptyString, Zenon
  <2>2. 1 <= CmdMax
    BY CmdAssumption
  <2> QED
    BY <2>1, <2>2
<1> QED
  BY <1>2, <1>3 DEF IInv

LEMMA InitHolds == Init => IInv
  BY RestHolds DEF Init

(* A step that leaves cmd_process_command alone, or is outside of it.      *)
LEMMA TypingKeeps ==
  ASSUME IInv, UNCHANGED process, pc \in {"start", "prompt", "typing"},
         pc' \in {"start", "prompt", "typing", "wild"},
         want' \in Seq(Char), input' \in Seq(Char), top' \in 0 .. CmdMax
  PROVE  IInv'
<1>1. UNCHANGED <<given, line, part, seg, tok, safe, done, res>>
  BY DEF process
<1>2. TypeOK'
  BY <1>1 DEF IInv, TypeOK
<1>3. (Len(line) <= CmdMax /\ Len(part) <= CmdMax /\ seg = 1)'
  BY <1>1 DEF IInv
<1> QED
  BY <1>2, <1>3 DEF IInv

LEMMA UserKeeps ==
  ASSUME IInv, User
  PROVE  IInv'
<1>1. UNCHANGED <<input, top, process>> /\ pc' = "typing" /\ want' \in Typed
      /\ pc = "prompt"
  BY DEF User
<1>2. want' \in Seq(Char)
  BY <1>1, CharText
<1> QED
  BY <1>1, <1>2, TypingKeeps, TypeFacts DEF IInv

LEMMA TypeKeeps ==
  ASSUME IInv, Type
  PROVE  IInv'
<1>1. /\ want # <<>> /\ want' = Tail(want) /\ UNCHANGED process /\ pc' = pc
      /\ pc = "typing"
      /\ IF FitsInput
         THEN input' = Append(input, Head(want)) /\ top' = Max({top, Len(input) + 1})
         ELSE input' = input /\ top' = top
  BY DEF Type
<1>2. /\ want \in Seq(Char) /\ input \in Seq(Char) /\ top \in 0 .. CmdMax
      /\ CmdMax \in Nat
  BY TypeFacts DEF IInv
<1>3. want' \in Seq(Char) /\ Head(want) \in Char
  BY <1>1, <1>2
<1>4. input' \in Seq(Char)
  <2> DEFINE e == Head(want)
  <2>1. e \in Char /\ (input' = Append(input, e) \/ input' = input)
    BY <1>1, <1>3
  <2> HIDE DEF e
  <2> QED
    BY <1>2, <2>1
<1>5. top' \in 0 .. CmdMax
  <2>1. CASE FitsInput
    <3> DEFINE n == Len(input) + 1
    <3>1. n \in 0 .. CmdMax
      BY <1>2, <2>1 DEF FitsInput
    <3> HIDE DEF n
    <3>2. \E x \in {top, n} : \A y \in {top, n} : x >= y
      BY <1>2, <3>1
    <3>3. Max({top, n}) \in {top, n}
      BY <3>2 DEF Max
    <3>4. top' = Max({top, n})
      BY <1>1, <2>1 DEF n
    <3> QED
      BY <1>2, <3>1, <3>3, <3>4
  <2>2. CASE ~FitsInput
    BY <1>1, <1>2, <2>2
  <2> QED
    BY <2>1, <2>2
<1> QED
  BY <1>1, <1>3, <1>4, <1>5, TypingKeeps

(* A line begins: the copy is what is given, and nothing was run of it.    *)
LEMMA ProcessKeeps ==
  ASSUME IInv, NEW text \in Seq(Char), Process(text), pc \in {"start", "typing"}, UNCHANGED <<want, input, top>>
  PROVE  IInv'
<1>1. /\ want \in Seq(Char) /\ input \in Seq(Char) /\ top \in 0 .. CmdMax
      /\ CmdMax \in Nat /\ CmdMax >= 2
  BY TypeFacts DEF IInv
<1>2. CASE Len(text) + 2 > CmdMax
  <2>1. pc' = "wild" /\ UNCHANGED process
    BY <1>2 DEF Process
  <2> QED
    BY <1>1, <2>1, TypingKeeps
<1>3. CASE ~(Len(text) + 2 > CmdMax)
  <2>1. /\ given' = text /\ line' = CString(text) /\ tok' = [of |-> "line", at |-> 1]
        /\ done' = <<>> /\ res' = "NOT_SUPPORTED" /\ pc' = "parts"
        /\ UNCHANGED <<part, seg, safe>>
    BY <1>3 DEF Process
  <2>2. /\ line' \in Seq(Char \union {Nul}) /\ Len(line') = Len(text) + 1
        /\ line'[Len(text) + 1] = Nul /\ Len(text) \in Nat
    BY <2>1, CStringOf
  <2>3. Last(line') = Nul /\ Len(line') <= CmdMax
    BY <1>1, <1>3, <2>2 DEF Last
  <2>4. tok' \in Position
    BY <1>1, <2>1 DEF Position
  <2>5. done' \in Seq([cmd : DOMAIN Commands, text : Seq(Char)]) /\ res' \in Results
    BY <2>1 DEF Results
  <2>6. Intact(line', given', 1)
    BY <2>1, <2>2 DEF Intact, Starts
  <2>7. Frontier(given', done', 1)
    <3>1. Known(text) \subseteq 1 .. Len(text)
      BY StartsIn
    <3>2. Early(text, 1) = {} /\ \A s \in Known(text) : ~(s < 1)
      BY <3>1 DEF Early
    <3>3. Len(<<>>) = Cardinality({})
      BY FS_EmptySet
    <3> QED
      BY <2>1, <3>2, <3>3 DEF Frontier
  <2>8. TypeOK'
    <3>1. seg' \in DOMAIN line'
      BY <2>1, <2>2 DEF IInv
    <3> QED
      BY <1>1, <2>1, <2>2, <2>3, <2>4, <2>5 DEF IInv, TypeOK
  <2>9. InLine'
    BY <2>1, <2>6 DEF InLine
  <2>10. (Len(part) <= CmdMax)'
    BY <2>1 DEF IInv
  <2> QED
    BY <2>1, <2>3, <2>7, <2>8, <2>9, <2>10 DEF IInv
<1> QED
  BY <1>2, <1>3

LEMMA StartupKeeps ==
  ASSUME IInv, Startup
  PROVE  IInv'
<1>1. pc = "start" /\ UNCHANGED <<want, input, top>>
  BY DEF Startup
<1>2. CASE pc' = "prompt" /\ UNCHANGED process
  BY <1>1, <1>2, TypingKeeps, TypeFacts DEF IInv
<1>3. ASSUME NEW text \in Startups, Process(text)
      PROVE  IInv'
  BY <1>1, <1>3, CharText, ProcessKeeps
<1> QED
  BY <1>2, <1>3 DEF Startup

LEMMA EnterKeeps ==
  ASSUME IInv, Enter
  PROVE  IInv'
<1>1. pc = "typing" /\ UNCHANGED <<want, input, top>> /\ Process(input)
  BY DEF Enter
<1> QED
  BY <1>1, TypeFacts, ProcessKeeps DEF IInv

(* strtok ends the next part, which is run if it is known.                 *)
LEMMA NextPartKeeps ==
  ASSUME IInv, NextPart
  PROVE  IInv'
<1> DEFINE p == tok.at
           m == Cut(line, p, CmdSep)
           b == LTrim(m, p)
           n == Behind(line, p, CmdSep)
           text == PartAt(given, p)
<1>1. /\ pc = "parts" /\ line[p] # Nul
      /\ line' = m /\ seg' = LTrim(line', p) /\ part' = CString(Text(line', seg'))
      /\ pc' = IF Matching(Text(line', seg')) = {} THEN "parts" ELSE "run"
      /\ tok' = [tok EXCEPT !.at = n]
      /\ UNCHANGED <<want, input, top, given, safe, done, res>>
  BY DEF NextPart
<1>2. /\ given \in Seq(Char) /\ tok \in Position /\ p \in 1 .. CmdMax
      /\ CmdMax \in Nat /\ Len(line) <= CmdMax
      /\ tok.of = "line" /\ Intact(line, given, p) /\ Frontier(given, done, p)
  BY <1>1, TypeFacts DEF IInv, InLine
<1>3. /\ p \in Starts(given) /\ p \in 1 .. Len(given)
      /\ Intact(m, given, n) /\ p < n /\ n <= Len(given) + 1
      /\ \A s \in Starts(given) : s < n => s <= p
      /\ b \in 1 .. Len(given) + 1
      /\ Text(m, b) = text /\ Len(text) <= Len(given)
  BY <1>1, <1>2, Scan
<1>4. text \in Seq(Char)
  BY <1>2, <1>3, StartsIn
<1> HIDE DEF m, n, text
<1>5. seg' = b /\ Text(line', seg') = text /\ part' = CString(text)
  BY <1>1, <1>3
<1> HIDE DEF b
<1>6. /\ part' \in Seq(Char \union {Nul}) /\ Last(part') = Nul
      /\ Text(part', 1) = text /\ Len(part') <= CmdMax
  <2>1. /\ CString(text) \in Seq(Char \union {Nul}) /\ Len(CString(text)) = Len(text) + 1
        /\ CString(text)[Len(text) + 1] = Nul
    BY <1>4, CStringOf
  <2>2. /\ part' \in Seq(Char \union {Nul}) /\ Last(part') = Nul
        /\ Text(part', 1) = text
    BY <1>4, <1>5, <2>1, TextOf DEF Last
  <2>3. Len(line) = Len(given) + 1 /\ Len(given) \in Nat /\ Len(text) \in Nat
    BY <1>2, <1>4 DEF Intact
  <2>4. Len(part') <= CmdMax
    BY <1>2, <1>3, <1>5, <2>1, <2>3
  <2> QED
    BY <2>2, <2>4
<1>7. /\ line' \in Seq(Char \union {Nul}) /\ Len(line') = Len(given) + 1
      /\ Last(line') = Nul /\ Len(line') <= CmdMax /\ seg' \in DOMAIN line'
      /\ n \in 1 .. CmdMax /\ n \in Nat /\ p \in Nat /\ p + 1 \in Nat /\ p + 1 <= n
  <2>1. /\ line' \in Seq(Char \union {Nul}) /\ Len(line') = Len(given) + 1
        /\ line'[Len(given) + 1] = Nul /\ Len(given) \in Nat
        /\ n \in Starts(given) \union {Len(given) + 1}
    BY <1>1, <1>2, <1>3 DEF Intact
  <2>2. Len(line') = Len(line)
    BY <1>2, <2>1 DEF Intact
  <2>3. Last(line') = Nul /\ Len(line') <= CmdMax /\ seg' \in DOMAIN line'
    BY <1>2, <1>3, <1>5, <2>1, <2>2 DEF Last
  <2>4. n \in 1 .. Len(given) + 1
    BY <1>2, <2>1, StartsIn
  <2> QED
    BY <1>2, <1>3, <2>1, <2>2, <2>3, <2>4
<1>8. tok' \in Position /\ tok'.of = "line" /\ tok'.at = n
  BY <1>1, <1>2, <1>7 DEF Position
<1>9. pc' \in {"parts", "run"}
  BY <1>1
<1>10. TypeOK'
  BY <1>1, <1>6, <1>7, <1>8, <1>9 DEF IInv, TypeOK
<1>11. InLine'
  BY <1>1, <1>3, <1>8 DEF InLine
<1>12. pc' = IF Lettered(text) = {} THEN "parts" ELSE "run"
  BY <1>1, <1>4, <1>5, FirstMatches
<1>13. \A r \in Known(given) : r < n => r <= p
  BY <1>2, <1>3, StartsIn
<1>14. ASSUME Lettered(text) = {}
       PROVE  Frontier(given, done, n)
  <2>1. p \notin Known(given)
    BY <1>14 DEF Known, text
  <2>2. \A r \in Known(given) : r < n => r < p
    <3>1. \A r \in Known(given) : r \in Nat
      BY <1>2, StartsIn
    <3> QED
      BY <1>7, <1>13, <2>1, <3>1
  <2> QED
    BY <1>2, <1>7, <2>2, FrontierStands
<1>15. ASSUME Lettered(text) # {}
       PROVE  p \in Known(given)
  BY <1>3, <1>15 DEF Known, text
<1>16. (pc = "parts" => InLine /\ Frontier(given, done, tok.at))'
  BY <1>1, <1>8, <1>11, <1>12, <1>14
<1>17. (pc = "run" => \E s \in Known(given) :
            /\ s < tok.at /\ Frontier(given, done, s)
            /\ \A r \in Known(given) : r < tok.at => r <= s
            /\ Text(part, 1) = PartAt(given, s))'
  <2> SUFFICES ASSUME pc' = "run"
               PROVE  \E s \in Known(given) :
                        /\ s < n /\ Frontier(given, done, s)
                        /\ \A r \in Known(given) : r < n => r <= s
                        /\ Text(part', 1) = PartAt(given, s)
    BY <1>1, <1>8
  <2>1. p \in Known(given)
    BY <1>12, <1>15
  <2>2. Text(part', 1) = PartAt(given, p)
    BY <1>6 DEF text
  <2> HIDE DEF p
  <2> QED
    BY <1>2, <1>3, <1>13, <2>1, <2>2
<1> QED
  BY <1>6, <1>7, <1>9, <1>10, <1>11, <1>16, <1>17 DEF IInv

(* The position a command leaves lies in its part, the line or behind it.  *)
LEMMA LeavesType ==
  ASSUME TypeOK, Len(line) <= CmdMax, Len(part) <= CmdMax,
         NEW kind \in Kinds, NEW left \in Leaves(kind)
  PROVE  left \in Position
<1>1. /\ line \in Seq(Char \union {Nul}) /\ part \in Seq(Char \union {Nul})
      /\ CmdMax \in Nat /\ CmdMax >= 2 /\ seg \in 1 .. Len(line)
  BY TypeFacts DEF TypeOK
<1>2. [of |-> "line", at |-> seg] \in Position
  BY <1>1 DEF Position
<1>3. [of |-> "env", at |-> 1] \in Position
  BY <1>1 DEF Position
<1>4. InPart \subseteq Position
  BY <1>1 DEF InPart, Position
<1> QED
  BY <1>2, <1>3, <1>4 DEF Leaves, Kinds

(* The command is run; if it returns, strtok is where it was.              *)
LEMMA RunKeeps ==
  ASSUME IInv, Run
  PROVE  IInv'
<1> DEFINE k == Min(Matching(Text(part, 1)))
           x == [cmd |-> k, text |-> Text(part, 1)]
           kind == Commands[k].kind
<1>1. /\ pc = "run" /\ safe' = tok /\ done' = Append(done, x)
      /\ UNCHANGED <<want, input, top, given, line, part, seg>>
      /\ \/ pc' = "parts" /\ res' \in Returns(kind) /\ tok' = tok
         \/ /\ pc' \in Enters(kind) /\ res' = res
            /\ \E left \in Leaves(kind) : tok' = left
  BY DEF Run, Restore
<1>2. /\ given \in Seq(Char) /\ tok \in Position /\ tok.at \in Nat
      /\ done \in Seq([cmd : DOMAIN Commands, text : Seq(Char)]) /\ InLine
  BY <1>1, TypeFacts DEF IInv
<1>3. PICK s \in Known(given) :
        /\ s < tok.at /\ Frontier(given, done, s)
        /\ \A r \in Known(given) : r < tok.at => r <= s
        /\ Text(part, 1) = PartAt(given, s)
  BY <1>1 DEF IInv
<1>4. s \in Nat /\ PartAt(given, s) \in Seq(Char) /\ Lettered(PartAt(given, s)) # {}
  BY <1>2, StartsIn DEF Known
<1>5. x = Asked(given, s) /\ k \in DOMAIN Commands
  BY <1>3, <1>4, FirstMatches DEF Asked
<1>6. x \in [cmd : DOMAIN Commands, text : Seq(Char)]
  BY <1>3, <1>4, <1>5
<1>7. Commands[k].kind \in Kinds
  BY <1>5, CmdAssumption
<1> HIDE DEF k, x
<1>8. /\ res' \in Results /\ tok' \in Position
      /\ \/ pc' = "parts" /\ tok' = tok
         \/ pc' \in {"kernel", "lost"}
  <2>1. CASE pc' = "parts" /\ res' \in Returns(kind) /\ tok' = tok
    BY <1>2, <1>7, <2>1 DEF Kinds, Returns, Results
  <2>2. CASE /\ pc' \in Enters(kind) /\ res' = res
             /\ \E left \in Leaves(kind) : tok' = left
    <3>1. TypeOK /\ Len(line) <= CmdMax /\ Len(part) <= CmdMax
      BY DEF IInv
    <3>2. tok' \in Position
      BY <1>7, <2>2, <3>1, LeavesType
    <3>3. res' \in Results
      BY <2>2, <3>1, TypeFacts
    <3>4. pc' \in {"kernel", "lost"}
      BY <1>7, <2>2 DEF Kinds, Enters
    <3> QED
      BY <3>2, <3>3, <3>4
  <2> QED
    BY <1>1, <2>1, <2>2
<1>9. done' \in Seq([cmd : DOMAIN Commands, text : Seq(Char)])
  BY <1>1, <1>2, <1>6
<1>10. Frontier(given, Append(done, x), tok.at)
  <2>1. Frontier(given, Append(done, x), s + 1)
    BY <1>2, <1>3, <1>5, FrontierMoves
  <2>2. \A r \in Known(given) : r < tok.at => r < s + 1
    <3>1. \A r \in Known(given) : r \in Nat
      BY <1>2, StartsIn
    <3> QED
      BY <1>3, <1>4, <3>1
  <2>3. s + 1 \in Nat /\ s + 1 <= tok.at
    BY <1>2, <1>3, <1>4
  <2> QED
    BY <1>2, <2>1, <2>2, <2>3, FrontierStands
<1>11. TypeOK'
  BY <1>1, <1>2, <1>8, <1>9 DEF IInv, TypeOK
<1>12. tok' = tok => InLine'
  BY <1>1, <1>2 DEF InLine
<1> QED
  BY <1>1, <1>2, <1>8, <1>10, <1>11, <1>12 DEF IInv

(* The line is at its end.                                                 *)
LEMMA LineDoneKeeps ==
  ASSUME IInv, LineDone
  PROVE  IInv'
<1>1. /\ pc = "parts" /\ line[tok.at] = Nul /\ pc' = "done"
      /\ UNCHANGED <<want, input, top, given, line, part, seg, tok, safe, done, res>>
  BY DEF LineDone, process
<1>2. given \in Seq(Char) /\ Intact(line, given, tok.at) /\ Frontier(given, done, tok.at)
  BY <1>1, TypeFacts DEF IInv, InLine
<1>3. tok.at = Len(given) + 1
  <2> SUFFICES ASSUME tok.at # Len(given) + 1 PROVE FALSE
    OBVIOUS
  <2>1. tok.at \in 1 .. Len(given)
    <3>1. tok.at \in 1 .. Len(given) + 1 /\ Len(given) \in Nat
      BY <1>2, StartsIn DEF Intact
    <3> QED
      BY <3>1
  <2>2. line[tok.at] = CString(given)[tok.at]
    BY <1>2, <2>1 DEF Intact
  <2> QED
    BY <1>1, <1>2, <2>1, <2>2, CStringOf
<1>4. TypeOK'
  BY <1>1 DEF IInv, TypeOK
<1> QED
  BY <1>1, <1>2, <1>3, <1>4 DEF IInv

LEMMA PromptKeeps ==
  ASSUME IInv, Prompt
  PROVE  IInv'
<1>1. NoPosition \in Position
  BY CmdAssumption DEF NoPosition, Position
<1>2. TypeOK'
  <2>1. /\ want' \in Seq(Char) /\ input' \in Seq(Char) /\ given' \in Seq(Char)
        /\ done' \in Seq([cmd : DOMAIN Commands, text : Seq(Char)])
    BY DEF Prompt
  <2>2. top' \in 0 .. CmdMax /\ res' \in Results
    BY CmdAssumption DEF Results, Prompt
  <2> QED
    BY <1>1, <2>1, <2>2, EmptyString DEF TypeOK, Prompt
<1>3. (Len(line) <= CmdMax /\ Len(part) <= CmdMax)'
  <2>1. line' = CString(<<>>) /\ part' = CString(<<>>) /\ 1 <= CmdMax
    BY CmdAssumption DEF Prompt
  <2>2. Len(CString(<<>>)) = 1
    BY EmptyString
  <2> QED
    BY <2>1, <2>2, Zenon
<1> QED
  BY <1>2, <1>3 DEF IInv, Prompt

-----------------------------------------------------------------------------

LEMMA StepKeeps == IInv /\ [Next]_vars => IInv'
<1> SUFFICES ASSUME IInv, [Next]_vars PROVE IInv'
  OBVIOUS
<1>1. CASE UNCHANGED vars
  <2>1. UNCHANGED <<want, input, top, pc, given, line, part, seg, tok, safe, done, res>>
    BY <1>1 DEF vars, process
  <2>2. TypeOK' /\ (InLine' <=> InLine)
    BY <2>1 DEF IInv, TypeOK, InLine
  <2> QED
    BY <2>1, <2>2 DEF IInv
<1> QED
  BY <1>1, StartupKeeps, UserKeeps, TypeKeeps, EnterKeeps, NextPartKeeps, RunKeeps,
     LineDoneKeeps, PromptKeeps DEF Next

(* From strtok's position on the copy is what was given, and the commands  *)
(* run are the known ones before it.                                       *)
THEOREM Invariance == Spec => []IInv
<1> QED
  BY InitHolds, StepKeeps, PTL DEF Spec

LEMMA HomeAndRun == IInv => TokenizerHome /\ RunsWhatWasTyped
<1> SUFFICES ASSUME IInv PROVE TokenizerHome /\ RunsWhatWasTyped
  OBVIOUS
<1>1. TokenizerHome
  BY DEF IInv, TokenizerHome, InLine
<1>2. given \in Seq(Char) /\ tok.at \in Nat /\ Len(given) + 1 \in Nat
  BY TypeFacts DEF IInv
<1>3. ASSUME pc \in {"parts", "run", "done", "kernel", "lost"}
      PROVE  \E p \in Nat : Frontier(given, done, p) /\ (pc = "done" => p = Len(given) + 1)
  <2>1. CASE pc = "parts"
    BY <1>2, <2>1 DEF IInv
  <2>2. CASE pc = "run"
    <3>1. \A r \in Known(given) : r \in Nat
      BY <1>2, StartsIn
    <3> QED
      BY <2>2, <3>1 DEF IInv
  <2>3. CASE pc = "done"
    BY <1>2, <2>3 DEF IInv
  <2>4. CASE pc \in {"kernel", "lost"}
    BY <2>4 DEF IInv
  <2> QED
    BY <1>3, <2>1, <2>2, <2>3, <2>4
<1>4. RunsWhatWasTyped
  BY <1>2, <1>3, FrontierMeans DEF RunsWhatWasTyped
<1> QED
  BY <1>1, <1>4

(* cmd_process_command's loop is in its own line whenever it asks strtok   *)
(* to go on, whatever the commands did to strtok's position.               *)
THEOREM LoopStaysInItsLine == Spec => []TokenizerHome
<1> QED
  BY Invariance, HomeAndRun, PTL

(* cmd_process_command runs what its line asks for, once each, in order,   *)
(* for every line, every STARTUP and every table as main.c builds it.      *)
THEOREM LinesAreRun == Spec => []RunsWhatWasTyped
<1> QED
  BY Invariance, HomeAndRun, PTL
=============================================================================
