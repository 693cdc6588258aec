------------------------------ MODULE Keyboard ------------------------------
(***************************************************************************)
(* The keyboard as a console: drivers/keyboard_driver.c reads what the     *)
(* keyboard sent, keeps the modifiers, and hands keys to the console of    *)
(* drivers/text_display_console.c, whose recieved() and get() poll it.     *)
(* A key is delivered when it is let go, with drivers/ascii_driver.c's     *)
(* character for the modifiers of that moment.                             *)
(*                                                                         *)
(* A byte of the keyboard is an escape (0xe0, 0xe1), an error (0x00, 0xff) *)
(* or a key's code with the bit that says up; the mouse shares the port.   *)
(***************************************************************************)
EXTENDS Integers, Sequences

CONSTANTS
  Glyphs,      (* code |-> its character, plain, upper case and shifted    *)
  Keys,        (* the keys there are: [code, ext]                          *)
  Pause,       (* is there the key that sends 0xe1?                        *)
  FifoSize,    (* bytes between the keyboard and the loader                *)
  MaxEvents    (* bound: what the user does                                *)

Typing == DOMAIN Glyphs
Held == {"lshift", "rshift"}
Twin == {"ctrl", "alt"}               (* a right one with an escape        *)
Left == [ctrl |-> "lctrl", alt |-> "lalt"]
Right == [ctrl |-> "rctrl", alt |-> "ralt"]
Lock == {"caps", "num", "scroll"}

ASSUME KeyboardAssumption ==
  /\ Typing \intersect (Held \union Twin \union Lock) = {}
  /\ Keys \subseteq [code : Typing \union Held \union Twin \union Lock,
                     ext : BOOLEAN]
  /\ \A k, l \in Keys : k.code = l.code /\ k.code \in Held => k = l
  /\ Pause \in BOOLEAN
  /\ FifoSize \in Nat /\ MaxEvents \in Nat

VARIABLES
  fifo,       (* bytes sent and not yet read                               *)
  parity,     (* does the port report a parity error?                      *)
  mod,        (* the bits of thiz->mod                                     *)
  pc,         (* idle, or in recieved() or get() of the console            *)
  c,          (* the console's character, and the key it comes from        *)
  recieved,
  got,        (* what get() has returned                                   *)
  down,       (* the keys held                                             *)
  caps,       (* is caps lock on, as the user sees it?                     *)
  typed,      (* the keys let go so far, with the characters meant         *)
  blurred,    (* twin: Ctrl or Alt was let go; lock: a lock key was held   *)
              (* until it repeated                                         *)
  events

user == <<down, caps, typed, blurred, events>>
console == <<c, recieved, got>>
vars == <<fifo, parity, mod, pc, console, user>>

Code(k, up) == [kind |-> "key", code |-> k, up |-> up]
Other(kind) == [kind |-> kind, code |-> "", up |-> FALSE]

Bits == {"esc0", "esc1", "up"} \union Held \union Lock
          \union {"lctrl", "lalt", "rctrl", "ralt"}

-----------------------------------------------------------------------------
(* ascii_2ascii: both tables hold letters in lower case; the shifted one   *)
(* is raised without caps lock.                                            *)
Ascii(k, shift, lock) ==
  LET g == Glyphs[k]
  IN IF g.letter THEN (IF shift # lock THEN g.upper ELSE g.plain)
     ELSE IF shift THEN g.shifted ELSE g.plain

NoChar == [code |-> "", char |-> ""]

Init ==
  /\ fifo = <<>> /\ parity = FALSE
  /\ mod = {}
  /\ pc = "idle"
  /\ c = NoChar /\ recieved = FALSE /\ got = <<>>
  /\ down = {} /\ caps = FALSE /\ typed = <<>> /\ blurred = {}
  /\ events = 0

-----------------------------------------------------------------------------
(* The user.                                                               *)

Send(bytes) ==
  /\ events < MaxEvents /\ events' = events + 1
  /\ Len(fifo) + Len(bytes) <= FifoSize
  /\ fifo' = fifo \o bytes
  /\ UNCHANGED <<parity, mod, pc, console>>

Bytes(k, up) == (IF k.ext THEN <<Other("esc0")>> ELSE <<>>) \o <<Code(k.code, up)>>

Press(k) ==
  /\ k \notin down
  /\ Send(Bytes(k, FALSE))
  /\ down' = down \union {k}
  /\ caps' = IF k.code = "caps" THEN ~caps ELSE caps
  /\ UNCHANGED <<typed, blurred>>

(* A key that is held repeats.                                             *)
Repeat(k) ==
  /\ k \in down
  /\ Send(Bytes(k, FALSE))
  /\ blurred' = blurred \union (IF k.code \in Lock THEN {"lock"} ELSE {})
  /\ UNCHANGED <<down, caps, typed>>

ShiftHeld == \E k \in down : k.code \in Held

LetGo(k) ==
  /\ k \in down
  /\ Send(Bytes(k, TRUE))
  /\ down' = down \ {k}
  /\ typed' = IF k.code \in Typing
              THEN Append(typed, [code |-> k.code,
                                  char |-> Ascii(k.code, ShiftHeld, caps)])
              ELSE typed
  /\ blurred' = blurred \union (IF k.code \in Twin THEN {"twin"} ELSE {})
  /\ UNCHANGED caps

(* Pause sends e1 1d 45 e1 9d c5 when it is pressed, and nothing after.    *)
PressPause ==
  /\ Pause
  /\ Send(<<Other("esc1"), Code("ctrl", FALSE), Code("num", FALSE),
            Other("esc1"), Code("ctrl", TRUE), Code("num", TRUE)>>)
  /\ blurred' = blurred \union {"twin"}
  /\ UNCHANGED <<down, caps, typed>>

(* The mouse moves, or the keyboard reports an error.                      *)
SendOther(kind) ==
  /\ Send(<<Other(kind)>>)
  /\ UNCHANGED <<down, caps, typed, blurred>>

ParityError ==
  /\ fifo # <<>> /\ ~parity
  /\ events < MaxEvents /\ events' = events + 1
  /\ parity' = TRUE
  /\ UNCHANGED <<fifo, mod, pc, console, down, caps, typed, blurred>>

-----------------------------------------------------------------------------
(* The console's caller.                                                   *)

(* Mutant: recieved() polls although a character is waiting.               *)
MutPolls == TRUE

Polls == ~recieved

Recieved ==
  /\ pc = "idle"
  /\ Polls
  /\ pc' = "recieved"
  /\ UNCHANGED <<fifo, parity, mod, console, user>>

(* get() with a character waiting returns it at once.                      *)
GetWaiting ==
  /\ pc = "idle" /\ recieved
  /\ recieved' = FALSE
  /\ got' = Append(got, c)
  /\ UNCHANGED <<fifo, parity, mod, pc, c, user>>

Get ==
  /\ pc = "idle" /\ ~recieved
  /\ pc' = "get"
  /\ UNCHANGED <<fifo, parity, mod, console, user>>

-----------------------------------------------------------------------------
(* keyboard_run_input_loop.  With the parity bit set it never comes to the *)
(* data port.                                                              *)

Next0(kind) ==
  /\ pc # "idle" /\ ~parity
  /\ fifo # <<>> /\ Head(fifo).kind = kind
  /\ fifo' = Tail(fifo)

Unescaped(m) == m \ {"esc0", "esc1"}

Escape(esc) ==
  /\ Next0(esc)
  /\ mod' = mod \union {esc}
  /\ UNCHANGED <<parity, pc, console, user>>

(* No handler for the mouse; an error is only dropped.                     *)
Drop ==
  /\ \E kind \in {"error", "mouse"} : Next0(kind)
  /\ UNCHANGED <<parity, mod, pc, console, user>>

KeyUp == Head(fifo).up
Noted == IF KeyUp THEN mod \union {"up"} ELSE mod \ {"up"}
Toggle(m, bit) == IF bit \in m THEN m \ {bit} ELSE m \union {bit}

(* MOD_PRESS keeps the escape.                                             *)
HeldByte ==
  /\ Next0("key") /\ Head(fifo).code \in Held
  /\ mod' = IF KeyUp THEN Noted \ {Head(fifo).code}
                     ELSE Noted \union {Head(fifo).code}
  /\ UNCHANGED <<parity, pc, console, user>>

(* Mutant: the lock goes over to the other state when the key comes up,    *)
(* too.                                                                    *)
MutLocked(m, bit) == Toggle(m, bit)

(* MOD keeps it as well.                                                   *)
Locked(m, bit) == IF KeyUp THEN m ELSE Toggle(m, bit)

LockByte ==
  /\ Next0("key") /\ Head(fifo).code \in Lock
  /\ mod' = Locked(Noted, Head(fifo).code)
  /\ UNCHANGED <<parity, pc, console, user>>

(* MOD_PRESS_ESCAPED.  Its release reads                                   *)
(* mod &= (~mod & ESCAPE_0 ? ESCAPE_0_MODIFIER : MODIFIER):                *)
(* what stays is at most the bit of the other side.                        *)
TwinByte ==
  /\ Next0("key") /\ Head(fifo).code \in Twin
  /\ LET k == Head(fifo).code
         this == IF "esc0" \in mod THEN Right[k] ELSE Left[k]
         other == IF "esc0" \in mod THEN Left[k] ELSE Right[k]
     IN mod' = Unescaped(IF KeyUp THEN Noted \intersect {other}
                                  ELSE Noted \union {this})
  /\ UNCHANGED <<parity, pc, console, user>>

Delivers == KeyUp

(* key_handler ends the loop, whatever the key does; get() starts it again *)
(* until a key comes up.                                                   *)
KeyByte ==
  /\ Next0("key") /\ Head(fifo).code \in Typing
  /\ mod' = Unescaped(Noted)
  /\ c' = [code |-> Head(fifo).code,
           char |-> Ascii(Head(fifo).code, Noted \intersect Held # {},
                          "caps" \in Noted)]
  /\ \/ /\ Delivers /\ pc = "get"
        /\ got' = Append(got, c')
        /\ pc' = "idle"
        /\ UNCHANGED recieved
     \/ /\ ~Delivers /\ pc = "get"
        /\ UNCHANGED <<pc, recieved, got>>
     \/ /\ pc = "recieved"
        /\ recieved' = (recieved \/ Delivers)
        /\ pc' = "idle"
        /\ UNCHANGED got
  /\ UNCHANGED <<parity, user>>

(* Mutant: the handler returns KEYBOARD_OK.                                *)
MutAfterIdle == "recieved"

(* recieved() passes a handler that gives up when there is nothing; get()  *)
(* goes on.                                                                *)
AfterIdle == "idle"

GivesUp ==
  /\ pc = "recieved" /\ ~parity /\ fifo = <<>>
  /\ pc' = AfterIdle
  /\ UNCHANGED <<fifo, parity, mod, console, user>>

User ==
  \/ \E k \in Keys : Press(k) \/ Repeat(k) \/ LetGo(k)
  \/ PressPause
  \/ \E kind \in {"error", "mouse"} : SendOther(kind)
  \/ ParityError

Loop ==
  \/ \E esc \in {"esc0", "esc1"} : Escape(esc)
  \/ Drop \/ HeldByte \/ LockByte \/ TwinByte \/ KeyByte \/ GivesUp

Next == User \/ Recieved \/ GetWaiting \/ Get \/ Loop

(* Nothing interrupts the loop.                                            *)
Spec == Init /\ [][Next]_vars /\ WF_vars(Loop)

-----------------------------------------------------------------------------
Byte == {Code(k, up) : k \in Typing \union Held \union Twin \union Lock, up \in BOOLEAN}
        \union {Other(kind) : kind \in {"esc0", "esc1", "error", "mouse"}}
Char == {NoChar} \union
        UNION {[code : {k}, char : {Glyphs[k].plain, Glyphs[k].upper,
                                    Glyphs[k].shifted}] : k \in Typing}

(* Everything stays within its type, the bytes between keyboard and loader *)
(* within their buffer.                                                    *)
TypeOK ==
  /\ fifo \in Seq(Byte) /\ Len(fifo) <= FifoSize
  /\ parity \in BOOLEAN
  /\ mod \subseteq Bits
  /\ pc \in {"idle", "recieved", "get"}
  /\ c \in Char /\ recieved \in BOOLEAN /\ got \in Seq(Char)
  /\ down \subseteq Keys /\ caps \in BOOLEAN /\ blurred \subseteq {"twin", "lock"}
  /\ typed \in Seq(Char)
  /\ events \in 0 .. MaxEvents

Waiting == IF recieved THEN <<c>> ELSE <<>>
Delivered == got \o Waiting

(* Where in fifo keys are let go that type.                                *)
Coming == {i \in DOMAIN fifo : fifo[i].up /\ fifo[i].code \in Typing}

(* Which of the keys let go each of them is: the next ones, in their order.*)
Turns == [Coming -> Len(Delivered) + 1 .. Len(typed)]
InTurn(turn) ==
  /\ \A i \in Coming : typed[turn[i]].code = fifo[i].code
  /\ \A i, j \in Coming : i < j => turn[i] < turn[j]
  /\ \A n \in Len(Delivered) + 1 .. Len(typed) : \E i \in Coming : turn[i] = n

(* However recieved() and get() are mixed, and whatever else comes through *)
(* the port, every key let go is delivered once and in its turn.  (And all *)
(* is of its type.)                                                        *)
KeysKept ==
  /\ TypeOK
  /\ Len(Delivered) <= Len(typed)
  /\ \A i \in DOMAIN Delivered : Delivered[i].code = typed[i].code
  /\ \E turn \in Turns : InTurn(turn)

(* It is the character its user meant, with the shift keys held and caps   *)
(* lock as they were when the key was let go - unless, since the start,    *)
(* Ctrl or Alt was let go, which clears the other modifiers, or a lock key *)
(* repeated.                                                               *)
CharsMeant ==
  blurred = {} => \A i \in DOMAIN Delivered : Delivered[i] = typed[i]

(* recieved() returns, and get() does when a key comes up; only a parity   *)
(* error, which the loop does not clear, can keep them.                    *)
Answers ==
  (pc = "recieved" \/ (pc = "get" /\ Coming # {})) ~> (pc = "idle" \/ parity)
=============================================================================
