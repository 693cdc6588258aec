------------------------------ MODULE CmdLine -------------------------------
(***************************************************************************)
(* The command line: cmd_input gathers what is typed, cmd_process_command  *)
(* takes the line apart and runs its commands (main/cmd.c), both with the  *)
(* one static position of strtok (core/string.c), which the commands move  *)
(* as well (main/main.c).  The first line comes from the environment.      *)
(***************************************************************************)
EXTENDS Integers, Sequences, FiniteSets, SequencesExt, FiniteSetsExt

CONSTANTS
  Commands,     (* the table of main.c: name, alias, kind                  *)
  Startups,     (* the texts STARTUP may be set to                         *)
  Typed,        (* the lines the user may type                             *)
  CmdMax        (* CMD_BUFFER_MAX                                          *)

Nul == "NUL"
Blank == " "
CmdSep == ";"

Kinds == {"plain", "load", "display", "boot"}

(* A text is a C string without its end.                                   *)
IsText(t) == t \in Seq(ToSet(t)) /\ Nul \notin ToSet(t)

ASSUME CmdAssumption ==
  /\ CmdMax \in Nat \ {0, 1}
  /\ Commands \in Seq(ToSet(Commands)) /\ Commands # <<>>
  /\ \A k \in DOMAIN Commands : /\ IsText(Commands[k].name)
                                 /\ IsText(Commands[k].alias)
                                 /\ Commands[k].kind \in Kinds
  /\ \A t \in Typed \union Startups : IsText(t)

(* main.c: the aliases are letters of their own, and a name begins with    *)
(* the letter of its command or of one before it.                          *)
ASSUME TableAssumption ==
  /\ \A k \in DOMAIN Commands : Commands[k].name # <<>> /\ Len(Commands[k].alias) = 1
  /\ \A j, k \in DOMAIN Commands : Commands[j].alias = Commands[k].alias => j = k
  /\ \A k \in DOMAIN Commands : \E j \in 1 .. k :
       Commands[j].alias = <<Head(Commands[k].name)>>

VARIABLES
  want,       (* the line being typed                                      *)
  input,      (* cmd_buffer of cmd_input, up to pos                        *)
  top,        (* the highest index of it written for this line             *)
  pc,
  given,      (* what cmd_process_command is given                         *)
  line,       (* cmd_process_command's copy, with its terminating Nul      *)
  part,       (* buffer: the command that is run                           *)
  seg,        (* buf: where the part starts in the line                    *)
  tok,        (* buf of strtok                                             *)
  safe,       (* safe_buf                                                  *)
  done,       (* the commands run for this line                            *)
  res         (* r                                                         *)

process == <<given, line, part, seg, tok, safe, done, res>>
vars == <<want, input, top, pc, process>>

Results == {"OK", "FAIL", "NOT_SUPPORTED", "BAD_PARAMS"}

-----------------------------------------------------------------------------
(* A C string is a sequence that ends with Nul; s[p..] its text from p.    *)
CString(t) == Append(t, Nul)

TokEnd(s, p, sep) == Min({q \in p .. Len(s) : s[q] \in {sep, Nul}})
Text(s, p) == SubSeq(s, p, TokEnd(s, p, Nul) - 1)

(* Mutants: the position stays on the separator, or does not move at all.  *)
MutBehind(s, p, sep) == TokEnd(s, p, sep)
MutStay(s, p, sep) == p

(* strtok(sep, 0): the token ends with a Nul, the position behind it.      *)
Behind(s, p, sep) ==
  LET q == TokEnd(s, p, sep) IN IF s[q] = Nul THEN q ELSE q + 1
Cut(s, p, sep) == [s EXCEPT ![TokEnd(s, p, sep)] = Nul]

(* strltrim                                                                *)
LTrim(s, p) == Min({q \in p .. Len(s) : s[q] # Blank})

(* starts_from with the name or the alias; the first entry counts.         *)
Matching(t) ==
  {k \in DOMAIN Commands :
     IsPrefix(Commands[k].name, t) \/ IsPrefix(Commands[k].alias, t)}

-----------------------------------------------------------------------------
NoPosition == [of |-> "none", at |-> 1]

Init ==
  /\ pc = "start"
  /\ want = <<>> /\ input = <<>> /\ top = 0
  /\ given = <<>>
  /\ line = CString(<<>>) /\ part = CString(<<>>) /\ seg = 1
  /\ tok = NoPosition /\ safe = NoPosition
  /\ done = <<>> /\ res = "NOT_SUPPORTED"

(* The user starts on a line.                                              *)
User ==
  /\ pc = "prompt"
  /\ want' \in Typed
  /\ pc' = "typing"
  /\ UNCHANGED <<input, top, process>>

(* cmd_buffer + CMD_BUFFER_MAX >= pos + 1                                  *)
FitsInput == CmdMax >= Len(input) + 1

(* The character goes to pos, a Nul behind it.  A line is typed            *)
(* without its CR; what does not fit is dropped.                           *)
Type ==
  /\ pc = "typing"
  /\ want # <<>>
  /\ want' = Tail(want)
  /\ IF FitsInput
     THEN /\ input' = Append(input, Head(want))
          /\ top' = Max({top, Len(input) + 1})
     ELSE UNCHANGED <<input, top>>
  /\ UNCHANGED <<pc, process>>

(* cmd_process_command copies what it is given; strcpy writes two bytes    *)
(* more than the text, and what happens when they do not fit is not        *)
(* defined.                                                                *)
Process(text) ==
  IF Len(text) + 2 > CmdMax
  THEN pc' = "wild" /\ UNCHANGED process
  ELSE /\ given' = text
       /\ line' = CString(text)
       /\ tok' = [of |-> "line", at |-> 1]
       /\ done' = <<>>
       /\ res' = "NOT_SUPPORTED"
       /\ pc' = "parts"
       /\ UNCHANGED <<part, seg, safe>>

(* CR; on an empty line it only repeats the prompt.                        *)
Enter ==
  /\ pc = "typing"
  /\ want = <<>>
  /\ input # <<>>
  /\ Process(input)
  /\ UNCHANGED <<want, input, top>>

(* Before the first prompt: STARTUP, if it is set and no BREAK came.       *)
Startup ==
  /\ pc = "start"
  /\ \/ pc' = "prompt" /\ UNCHANGED process
     \/ \E text \in Startups : Process(text)
  /\ UNCHANGED <<want, input, top>>

(* The while loop's strtok, strltrim and strcpy, and the search for the    *)
(* command.  strtok is asked to go on where its position is.               *)
NextPart ==
  /\ pc = "parts"
  /\ tok.of = "line"
  /\ line[tok.at] # Nul
  /\ line' = Cut(line, tok.at, CmdSep)
  /\ seg' = LTrim(line', tok.at)
  /\ part' = CString(Text(line', seg'))
  /\ pc' = IF Matching(Text(line', seg')) = {} THEN "parts" ELSE "run"
  /\ tok' = [tok EXCEPT !.at = Behind(line, tok.at, CmdSep)]
  /\ UNCHANGED <<want, input, top, given, safe, done, res>>

(* What the command leaves of strtok's position: the loads parse their     *)
(* part and then the image's variable, display restores what it found.     *)
InPart == {[of |-> "part", at |-> q] : q \in 1 .. Len(part)}

Leaves(kind) ==
  CASE kind \in {"plain", "boot"} -> {[of |-> "line", at |-> seg]}
    [] kind = "load" -> InPart \cup {[of |-> "env", at |-> 1]}
    [] kind = "display" -> InPart \cup {[of |-> "line", at |-> seg]}

(* What the handlers return; boot does only if no kernel was loaded, or    *)
(* one too old.                                                            *)
Returns(kind) ==
  CASE kind \in {"plain", "boot"} -> {"OK"}
    [] kind = "load" -> {"OK", "FAIL"}
    [] kind = "display" -> {"OK", "BAD_PARAMS"}

(* Where a command leads that does not return: boot enters the kernel.  A  *)
(* load may wait for a drive that never answers, or write over the program *)
(* itself; nothing is said of what comes then.                             *)
Enters(kind) ==
  CASE kind = "boot" -> {"kernel"}
    [] kind = "load" -> {"lost"}
    [] OTHER -> {}

(* Mutant: the position is not restored after the command.                 *)
MutRestore(old, left) == left

(* strtok(CMD_CMD_SEP, safe_buf)                                           *)
Restore(old, left) == old

(* strtok's position is kept in safe_buf, the command is run and, if it    *)
(* returns, the position is put back.                                      *)
Run ==
  /\ pc = "run"
  /\ safe' = tok
  /\ LET k == Min(Matching(Text(part, 1)))
     IN /\ done' = Append(done, [cmd |-> k, text |-> Text(part, 1)])
        /\ \E left \in Leaves(Commands[k].kind) :
             \/ /\ pc' = "parts"
                /\ res' \in Returns(Commands[k].kind)
                /\ tok' = Restore(tok, left)
             \/ /\ pc' \in Enters(Commands[k].kind)
                /\ tok' = left
                /\ UNCHANGED res
  /\ UNCHANGED <<want, input, top, given, line, part, seg>>

LineDone ==
  /\ pc = "parts"
  /\ tok.of = "line"
  /\ line[tok.at] = Nul
  /\ pc' = "done"
  /\ UNCHANGED <<want, input, top, process>>

(* The prompt is written and the buffer reset; what cmd_process_command    *)
(* kept in its locals is gone, and strtok is given a new position before   *)
(* it is asked to go on.                                                   *)
Prompt ==
  /\ \/ pc = "done"
     \/ pc = "typing" /\ want = <<>> /\ input = <<>>
  /\ pc' = "prompt"
  /\ want' = <<>> /\ input' = <<>> /\ top' = 0 /\ given' = <<>>
  /\ line' = CString(<<>>) /\ part' = CString(<<>>) /\ seg' = 1
  /\ tok' = NoPosition /\ safe' = NoPosition
  /\ done' = <<>> /\ res' = "NOT_SUPPORTED"

Next == Startup \/ User \/ Type \/ Enter \/ NextPart \/ Run \/ LineDone \/ Prompt

(* Nobody but the user waits: in a line that was entered, what can be done *)
(* next is done.                                                           *)
Work == NextPart \/ Run \/ LineDone

Spec == Init /\ [][Next]_vars /\ WF_vars(Work)

-----------------------------------------------------------------------------
Char == UNION {ToSet(t) : t \in Typed \cup Startups}
Position == [of : {"none", "line", "part", "env"}, at : 1 .. CmdMax]

TypeOK ==
  /\ want \in Seq(Char)
  /\ input \in Seq(Char)
  /\ top \in 0 .. CmdMax
  /\ pc \in {"start", "prompt", "typing", "parts", "run", "done", "wild",
             "kernel", "lost"}
  /\ given \in Seq(Char)
  /\ line \in Seq(Char \cup {Nul}) /\ Last(line) = Nul
  /\ part \in Seq(Char \cup {Nul}) /\ Last(part) = Nul
  /\ seg \in DOMAIN line
  /\ tok \in Position
  /\ safe \in Position
  /\ done \in Seq([cmd : DOMAIN Commands, text : Seq(Char)])
  /\ res \in Results

(* What the line says, without strtok: its parts start at its beginning    *)
(* and behind each separator, blanks before a part left out, and of the    *)
(* parts those are known that start with the letter of a command: no       *)
(* command hides another's.                                                *)
Starts(t) == {1} \union {i + 1 : i \in {j \in DOMAIN t : t[j] = CmdSep}}

Ends(t, s) == {q \in s .. Len(t) + 1 : q > Len(t) \/ t[q] = CmdSep}
Begins(t, s) == {q \in s .. Len(t) + 1 : q > Len(t) \/ t[q] # Blank}
PartAt(t, s) == SubSeq(t, Min(Begins(t, s)), Min(Ends(t, s)) - 1)

Lettered(p) == {k \in DOMAIN Commands : p # <<>> /\ Commands[k].alias = <<Head(p)>>}

Known(t) == {s \in Starts(t) : Lettered(PartAt(t, s)) # {}}
Asked(t, s) == [cmd |-> CHOOSE k \in Lettered(PartAt(t, s)) : TRUE, text |-> PartAt(t, s)]

(* Which of the known parts it is.                                         *)
Turn(t, s) == Cardinality({r \in Known(t) : r <= s})

(* Every command of the line, typed or from STARTUP, is run, once, in the  *)
(* order of the line, with its own part as its parameters, and by the      *)
(* letter it begins with: at every point what was run is a beginning of    *)
(* what the line asks for, also where a command does not return, and at    *)
(* its end all of it.                                                      *)
RunsWhatWasTyped ==
  /\ pc \in {"parts", "run", "done", "kernel", "lost"} =>
       /\ Len(done) <= Cardinality(Known(given))
       /\ \A s \in Known(given) :
            Turn(given, s) <= Len(done) => done[Turn(given, s)] = Asked(given, s)
  /\ pc = "done" => Len(done) = Cardinality(Known(given))

(* The loop goes on in its own line: the strtok calls of the commands do   *)
(* not lead it astray, though all share one position.  (And all is of its  *)
(* type.)                                                                  *)
TokenizerHome ==
  /\ TypeOK
  /\ pc = "parts" => tok.of = "line"

(* Every line that is entered, and STARTUP, is worked off to its end,      *)
(* behind which the prompt comes, unless it asks for a command that need   *)
(* not return: one with boot may end in the kernel, and one with a load    *)
(* where the load got lost.  Of any other line the end always comes.       *)
MayEndIn(t) == UNION {Enters(Commands[Asked(t, s).cmd].kind) : s \in Known(t)}

LinesEnd == pc = "parts" ~> pc \in {"done"} \cup MayEndIn(given)

(* "command buffer overflow protection" (cmd.c:109): no write goes behind  *)
(* the buffers of CMD_BUFFER_MAX bytes, the one that is typed to and the   *)
(* one the line is copied to.                                              *)
InputProtected == top < CmdMax /\ pc # "wild"

=============================================================================
