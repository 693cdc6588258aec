--------------------------------- MODULE Env ---------------------------------
(***************************************************************************)
(* The environment, core/env.c: a list of variables, parsed once from the  *)
(* text that follows the descriptor's header, then read and written by     *)
(* name.  Nothing ends the text where its file ends: it goes on with what  *)
(* descrambling made of the rest of the sector, up to some zero byte.      *)
(*                                                                         *)
(* The heap has room for all of it: eight megabytes against two sectors.   *)
(***************************************************************************)
EXTENDS Integers, Sequences, SequencesExt, FiniteSetsExt

CONSTANTS
  Files,      (* the texts of loader_env.gen                               *)
  Tails,      (* what may follow                                           *)
  EnvMax,     (* ENV_MAX_SIZE                                              *)
  Values,     (* what env_set is given                                     *)
  MaxSets     (* how often it is called, at most                           *)

ASSUME EnvAssumption == EnvMax \in Nat \ {0} /\ MaxSets \in Nat

Sep == "="
Msk == "\\"
NewLine == "\n"

NoText == [is |-> "none", text |-> <<>>]
Text(t) == [is |-> "text", text |-> t]

VARIABLES
  pc,
  file, rest,   (* the text of the file; what is still to be parsed        *)
  buffer,       (* buffer, up to ptr                                       *)
  msk,
  list,         (* envlist: each variable's name and value, or NULL        *)
  sets          (* the calls of env_set                                    *)

vars == <<pc, file, rest, buffer, msk, list, sets>>

Unset == [name |-> NoText, value |-> NoText]

-----------------------------------------------------------------------------
Init ==
  /\ pc = "parse"
  /\ file \in Files
  /\ \E tail \in Tails : rest = file \o tail
  /\ buffer = <<>>
  /\ msk = FALSE
  /\ list = <<Unset>>
  /\ sets = 0

(* Of the variable that is parsed, the last of the list, the first name    *)
(* and the first value count.                                              *)
Named(v, t) == IF v.name = NoText THEN [v EXCEPT !.name = Text(t)] ELSE v
Valued(v, t) == IF v.value = NoText THEN [v EXCEPT !.value = Text(t)] ELSE v

(* The byte behind the text is written too.                                *)
Fits == Len(buffer) < EnvMax

(* Mutant: env is not counted up.                                          *)
MutRead(c) ==
  /\ pc = "parse"
  /\ rest # <<>>
  /\ Head(rest) = c
  /\ UNCHANGED <<pc, file, rest, sets>>

Read(c) ==
  /\ pc = "parse"
  /\ rest # <<>>
  /\ Head(rest) = c
  /\ rest' = Tail(rest)
  /\ UNCHANGED <<pc, file, sets>>

EndLine ==
  /\ Read(NewLine)
  /\ Fits
  /\ list' = Append(Front(list) \o <<Valued(Last(list), buffer)>>, Unset)
  /\ buffer' = <<>>
  /\ UNCHANGED msk

Mask ==
  /\ Read(Msk)
  /\ msk' = TRUE
  /\ UNCHANGED <<buffer, list>>

EndName ==
  /\ Read(Sep)
  /\ ~msk
  /\ Fits
  /\ list' = Front(list) \o <<Named(Last(list), buffer)>>
  /\ buffer' = <<>>
  /\ UNCHANGED msk

(* Mutant: a mask holds for the rest of the line.                          *)
MutUnmask == msk

Unmask == FALSE

Store ==
  \E c \in ToSet(rest) \ {NewLine, Msk} :
    /\ Read(c)
    /\ c = Sep => msk
    /\ Fits
    /\ buffer' = Append(buffer, c)
    /\ msk' = Unmask
    /\ UNCHANGED list

(* The text has more between two separators than buffer holds.             *)
Overrun ==
  /\ pc = "parse"
  /\ ~Fits
  /\ rest # <<>> => Head(rest) # Msk
  /\ pc' = "wild"
  /\ UNCHANGED <<file, rest, buffer, msk, list, sets>>

EndText ==
  /\ pc = "parse"
  /\ rest = <<>>
  /\ Fits
  /\ list' = Front(list) \o <<Valued(Last(list), buffer)>>
  /\ pc' = "ready"
  /\ UNCHANGED <<file, rest, buffer, msk, sets>>

-----------------------------------------------------------------------------
(* By name.  A variable without a name is compared with what lies at       *)
(* address 0, which spells no name that anyone asks for.                   *)

Having(l, n) == {k \in DOMAIN l : l[k].name = Text(n)}

Found(l, n) == Min(Having(l, n))

EnvGet(l, n) == IF Having(l, n) = {} THEN NoText ELSE l[Found(l, n)].value

(* Mutant: a variable that is there is entered once more.                  *)
MutPut(l, n, v) == Append(l, [name |-> Text(n), value |-> Text(v)])

Put(l, n, v) ==
  IF Having(l, n) = {}
  THEN Append(l, [name |-> Text(n), value |-> Text(v)])
  ELSE [l EXCEPT ![Found(l, n)].value = Text(v)]

EnvSet(n, v) ==
  /\ pc = "ready"
  /\ sets < MaxSets
  /\ sets' = sets + 1
  /\ list' = Put(list, n, v)
  /\ UNCHANGED <<pc, file, rest, buffer, msk>>

(* env_parse                                                               *)
Parse == EndLine \/ Mask \/ EndName \/ Store \/ Overrun \/ EndText

Next == Parse \/ \E n, v \in Values : EnvSet(n, v)

(* Nothing preempts the parser.                                            *)
Spec == Init /\ [][Next]_vars /\ WF_vars(Parse)

-----------------------------------------------------------------------------
Char == UNION {ToSet(t) : t \in Files \cup Tails \cup Values}
MaybeText == {NoText} \cup [is : {"text"}, text : Seq(Char)]

TypeOK ==
  /\ pc \in {"parse", "ready", "wild"}
  /\ file \in Files
  /\ rest \in Seq(Char)
  /\ buffer \in Seq(Char) /\ Len(buffer) <= EnvMax
  /\ msk \in BOOLEAN
  /\ list # <<>>
  /\ \A k \in DOMAIN list : list[k].name \in MaybeText /\ list[k].value \in MaybeText
  /\ sets \in 0 .. MaxSets

(* How the file is read by whoever writes it (loader_env): lines of a      *)
(* name, a separator and a value, in which a separator is written with a   *)
(* mask before it; and empty lines.  A mask before another character is    *)
(* dropped and does not reach beyond that; the end of a line has none.     *)
Lines(t) ==
  LET cuts == SetToSortSeq({i \in DOMAIN t : t[i] = NewLine} \cup {0},
                           LAMBDA i, j : i < j)
  IN [k \in 1 .. Len(cuts) - 1 |-> SubSeq(t, cuts[k] + 1, cuts[k + 1] - 1)]

Plain(l, i) == l[i] = Sep /\ (i = 1 \/ l[i - 1] # Msk)

WellFormed(t) ==
  /\ t # <<>> => Last(t) = NewLine
  /\ \A i \in DOMAIN t : t[i] = Msk => t[i + 1] # NewLine
  /\ \A k \in DOMAIN Lines(t) :
       Lines(t)[k] # <<>> =>
         /\ Cardinality({i \in DOMAIN Lines(t)[k] : Plain(Lines(t)[k], i)}) = 1
         /\ Len(Lines(t)[k]) <= EnvMax

Unmasked(t) == SelectSeq(t, LAMBDA c : c # Msk)
NameIn(l) ==
  Unmasked(SubSeq(l, 1, Min({i \in DOMAIN l : Plain(l, i)}) - 1))
ValueIn(l) ==
  Unmasked(SubSeq(l, Min({i \in DOMAIN l : Plain(l, i)}) + 1, Len(l)))

Meant(t) ==
  LET lines == SelectSeq(Lines(t), LAMBDA l : l # <<>>)
  IN [k \in DOMAIN lines |-> [name |-> NameIn(lines[k]), value |-> ValueIn(lines[k])]]

(* Every variable of the file has its value, the first where a name comes  *)
(* twice, and what follows the file in the sector takes none of them away. *)
(* (And all is of its type.)                                               *)
GetsWhatIsMeant ==
  /\ TypeOK
  /\ pc = "ready" /\ sets = 0 /\ WellFormed(file) =>
       \A k \in DOMAIN Meant(file) :
         (\A j \in 1 .. k - 1 : Meant(file)[j].name # Meant(file)[k].name) =>
            EnvGet(list, Meant(file)[k].name) = Text(Meant(file)[k].value)

(* env_set makes env_get give the value set, and leaves every other name   *)
(* as it was, however often the names come in the list.                    *)
SetThenGet ==
  [][\A n, v \in Values :
       sets' # sets /\ list' = Put(list, n, v) =>
         /\ EnvGet(list', n) = Text(v)
         /\ \A m \in Values \ {n} : EnvGet(list', m) = EnvGet(list, m)]_vars

(* The parser comes to an end.                                             *)
ParserEnds == <>(pc # "parse")

=============================================================================
