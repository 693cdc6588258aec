# x86-safebooter: a TLA+ model

x86-safebooter is a boot loader for PCs. An MBR reads and descrambles a
descriptor and the loader from the disk; the loader talks to its user over a
serial line (or a screen and a keyboard), reads an environment of variables,
and loads, checks, deciphers and boots a signed Linux kernel. It runs alone on
the machine: one thread, no interrupts, every device polled. Host tools pack
and sign images and scramble the loader.

This directory holds TLA+ modules for most of that, TLC runs that check them on
small instances, and TLAPS proofs of their safety for every instance: the
allocator, the image commands, the ATA driver, the MBR, the console, the DSA
arithmetic, the keyboard and the command line.
`PROJECT.json` lists components, runs, mutants, the map from definitions to
source lines, findings, hazards and theorems.

To check: `tlc -config Heap.cfg Heap` (each run's module and configuration are
in `PROJECT.json`), and `tlapm M.tla` for each of `HeapProofs`, `ImageProofs`,
`AtaProofs`, `MbrProofs`, `ConsoleProofs`, `DsaProofs`, `KeyboardProofs` and
`CmdLineProofs`.

## Inventory

| Component | State | Operations | Talks to |
|---|---|---|---|
| Heap (`core/heap.c`) | node list in the heap, `heap->last`, busy bytes | malloc, memalign, free | everybody |
| Environment (`core/env.c`) | list of name/value pairs | init (parser), get, set | heap, descriptor |
| Image commands (`main/main.c`, `linux/image.c`, `main/simg.c`) | kernel areas, `simg_end_address`, open stream, allocated buffers | kernelload, load, boot | environment, heap, ATA, ciphers, DSA |
| Command line (`main/cmd.c`, `core/string.c`) | line buffer, strtok's one position | input, process | console, commands |
| Console waits (`main/main.c`, `core/stdio.c`, `core/time.h`, `drivers/rtc_driver.c`) | remaining timeout, stage of the authorization | console_auth, wait for BREAK | clock, console device |
| ATA driver (`drivers/ata_driver.c`) | stream position, command under way | identify and open, seek, read, write | drive |
| MBR (`arch/x86/mbr.S`, `xor_descrambler.S`) | memory, key position, last cipher byte | load descriptor, load loader | int 0x13 |
| xor tool and build (`tools/xor.c`, `makefile`) | built and scrambled images | scramble, write | disk |
| Ciphers and hash (`crypt/crypt.c`, `crypt/xor_scrambler.c`, `crypt/blowfish/blowfish.c`, `crypt/sha1.c`) | IV, counter, key position; boxes; digest | reset, encrypt, decrypt, hash | packer, image loader |
| Packer (`tools/mkimg.c`) | the part being made | detect, split, encrypt, sign, write | ciphers, hash, DSA, files |
| Keyboard console (`drivers/keyboard_driver.c`, `text_display_console.c`, `ascii_driver.c`) | modifier bits, one character, received flag | received, get | keyboard controller |
| DSA and big numbers (`crypt/dsa_check.c`, `crypt/private/dsa_sign.c`, `crypt/bch.c`) | numbers of one signature or check, a division under way | inverse, mulmod, powmod, mod; the word loops under them | image loader, packer |
| Text display (`drivers/text_display_driver.c`) | cells, cursor | putc, clear | video memory |
| Formatted output, serial transmitter, start-up code | none, or straight-line | | |

How they interact: the MBR hands over to the loader with nothing but memory
(Mbr). The loader opens its console, reads the environment out of its
descriptor (Env on Heap), lets an authorization and a BREAK interrupt the boot
for some seconds (Console), and otherwise runs the commands of the variable
STARTUP (CmdLine, Env). The command `kernelload` takes its image from a disk
(Image on Ata), checks it (Dsa) and deciphers it (Packer); `boot` enters it.
On the host mkimg makes what the loader undoes (Packer, Dsa).
Everything is a call that returns, but for `boot`, which enters the kernel and
is the normal end of STARTUP; what one part leaves for another is in memory both
know, and most hazards are there.

What is hard here is not parallelism, of which there is little, but:

* **long sequences**: the heap after many allocations, a line of commands that
  share one tokenizer, failed commands that leave something behind;
* **partial failure**: any sector read, any allocation, any check may fail
  between two steps that belong together;
* **state that outlives its use**: `simg_end_address`, strtok's position, the
  descrambler's last byte, the remaining timeout, modifier bits;
* **devices that go on by themselves**: the clock between two register reads,
  a sender that does not wait, a user who types, a drive that stops early;
* **boundaries**: 8, 16 and 64 bit widths, sizes that are no multiple of a
  block, a sector or a word, buffers that are exactly full.

`PROJECT.json` lists each such hazard at its line with the properties aimed at
it.

## Modules and what they say

Every module is the loader's code with its data abstracted: an address is a
number, a part of an image a record of what is true of it, a character a model
value or a short string. A definition named `Mut...` is a plausible mistake in
the definition behind it and is used only to see that a property notices it.

### Allocator, Heap, HeapProofs

`Heap` is `core/heap.c`: `nodes` is the list in order (so `prev` and `next` are
the neighbours), `last` is `heap->last`, `sentinelBusy` the busy byte of the
zeroed header at the end, and `live` what clients hold. `Malloc`, `Memalign`,
`Free` and `FreeAgain` (a pointer nobody holds: NULL, or one freed before) are
the entry points; `Reuse`, `TakeSentinel`, `Extend` and `NoMemory` are the ways
through `get_free_node`. Nodes are never split or merged, because the code does
neither. `Allocator` is what a client may rely on, and `Refinement` says that
the list implements it.

*Properties.* Blocks in use are disjoint and lie clear of all headers
(`LiveDisjoint`, `BlocksAvoidHeaders`); free finds the owner (`OwnerFound`);
busy nodes have one (`NothingLost`); the list implements the allocator
(`Refinement`). They hold. Two edges are stated in the properties: a block of
no bytes at the very end of the heap cannot be freed, since its address is not
"in the heap", and the sentinel's header may lie partly behind the heap's end,
where no block is.

*Bounds.* A heap of 12 bytes with headers of 2 and requests of 0, 1 and 5 bytes,
alignment 4: up to six nodes, every order of operations, exhausted and not.

The model's blocks have no contents. `strcpy`, which the environment uses on
blocks of exactly its size, writes a second zero byte behind the first
(`string.c:66`). In a fresh node nothing happens, because the next header is
zero there; in a reused one it would be the lowest byte of the next node's
`start`.

### Image, ImageProofs

`kernelload`, `load` and `boot`. The disk is a row of parts, each signed or not;
`mem` says of each memory area which part lies there, complete, partial,
enciphered or plain; `end` is `simg_end_address`; `held` and `room` count
buffers. One step is one call that may fail. `overwritten` remembers whether
`load`, which takes any address, wrote into the kernel's areas since
kernelload: the loader does not know, and the properties exclude it openly.

*Properties.* Whenever the flag is set, two consecutive signed parts lie whole
and deciphered where the kernel belongs (`FlagVouches`); only then is the kernel
entered (`BootOnlyVouched`); nothing unsigned is ever deciphered
(`PlainIsSigned`); streams and start blocks are given back on every path
(`StreamsClosed`); commands end (`CommandsEnd`). They hold, though the result of
the data read is overwritten unread (`simg.c:93`): a short read is caught by
the signature.

*What the model shows besides.* A failed check leaves three numbers allocated
and `load` without an address one string, so failed commands use up the heap;
`dsa_alloc` is not checked, and a NULL buffer is written through. Both are in
the model: `room` runs out, and the step to `wild` stands for undefined
behaviour, from which nothing is claimed.

*Bounds.* A good kernel, a good data image, a part that fails its check, five
environment entries and a heap of eight buffers, so that leaks exhaust it
within the run. A number counts as one buffer; `dsa_check`'s own temporaries,
all freed, are left out. Images larger than the 7 MB below the heap, or than
65535 sectors, are out of scope, as are the header fields that `image_boot`
fills in for the kernel (only where the command line goes is kept).

### CmdLine, CmdLineProofs

`cmd_input` and `cmd_process_command` with the command table: `tok` is strtok's
position, `safe` where the loop parks it while a command uses strtok itself.
The first line is not typed: it is the variable STARTUP (`Startup`), and it is
copied into a buffer that was sized for typed lines. A STARTUP that does not
fit leads to `wild`. A command returns, or leads where its kind may (`Enters`):
`boot` into the `kernel` (`image.c:163`), if there is one to enter, which is
`Image`'s business and here left open; a load to `lost`, for it may wait for a
drive that never answers or write over the program (`Image`'s `wild`).

*Properties.* At every point what was run is a beginning of what the line asks
for, and at its end all of it (`RunsWhatWasTyped`); "asks for" is said without
strtok and without the table's order: a part starts at the line's beginning and
behind every separator, and the n-th part whose first letter is some command's
alias is the n-th to run, also in a line that a command does not return to. The
position comes back (`TokenizerHome`). A line comes to its end, unless it asks
for `boot` and ends in the kernel, or for a load that got lost (`LinesEnd`). The letter is the honest reference: a command typed by its
name is the one that begins with the name's first letter, which for `heapinfo`
is help ("h"), whatever its entry says; only "e" reaches it.

*Assumptions.* Texts have no NUL in them. `TableAssumption` is what holds of the
table in `main.c` and what the code needs of it: aliases are letters, all
different, and a name begins with the alias of its own entry or of one before
it, so that looking for the first match finds the letter's command.

*Finding.* The guard lets the terminator be written behind a full buffer
(`InputProtected`, run `cmd_overflow`, without STARTUP so that the guard alone
is to blame).

*Bounds.* All lines of up to five characters over six letters, all names, a
line of four commands, one that goes on behind `boot` and one longer than the
buffer; as STARTUP a line that fits and ends with `boot`, one that does not fit,
and an empty one. A command that tokenizes may leave
the position anywhere behind where it started: more than the code can do, so
what holds, holds of it.

### BlockStream, Ata

`BlockStream` is what the client of a block stream relies on: sector `k` of the
buffer is exchanged with sector `base + k` of the device, at most once per
transfer, nothing outside what was asked for moves, the position goes on behind
what was returned. `Ata` is the driver: opening on whatever identifies itself,
transfers in both directions cut into commands of 255 sectors, and the
conversation with the drive, which may fail at any command, sector or flush.
What answers the bus may be a disk, a packet device that aborts these commands,
or nothing: for an absent second drive the first one answers with a status of
0, so opening succeeds and the data are junk.

*Properties.* The driver implements the stream (`Refinement`). A transfer
without an error returns all of it, at its places, nothing left in the drive's
cache (`Complete`); the drive holds nothing nobody asked for (`NoDataLeft`),
except after a read of a multiple of 255 sectors, whose last command asks for 0
and is given 256; transfers end (`ReadsEnd`). The provisos of `Complete` are
the widths: the number of full commands has eight bits, an address 28.

*Bounds.* Bytes of two bits, words of four, addresses below 20 on a disk of 16
sectors; counts from 0 to 17 (beyond what a word holds) in both directions,
streams positioned at the beginning, near the end of the disk, and near the end
of the addresses.

### Console, ConsoleProofs

`waitc` on a clock that goes on while it is read, the three stages of the
authorization and the wait for BREAK. `torn` says whether, in a behaviour, the
clock may go on between the registers of one reading; the code reads them
without looking at the update flag, so it may. `leap` is when and how far the
hour register leaps: the clock is left in 12 hour mode and the hours are taken
modulo 24, so that noon, midnight and the hour after each are hours off.
`from` remembers, in no variable of the code, how far the sender was when a
stage began; what a stage should store, `Stored`, is said from there. A leap is
assumed to be farther than the wait for BREAK is long: hours against seconds.

*Properties.* With an untorn clock the wait for BREAK lasts its time, unless
the hours leap in it (`WindowLasts`), and no longer than each character
accounts for (`WindowBounded`). The boot goes on (`BootGoesOn`), unless the
hours leap ahead during the authorization: the wait is taken off the timeout
without a test, so the next stage may begin with almost 2^64 seconds. Torn or
not, a BREAK that is taken is heard (`BreakIsHeard`), and the authorization
stores what was sent but for the first character behind a full stage
(`AuthStores`): each stage takes one character more than it stores before it
notices that it is full (`main.c:408`), so of parts sent without a pause, as
`tools/auth.c` sends them, the first character of the next is lost.

*What the model shows besides.* A torn reading can end the wait at once, since
a minute that ends between two registers makes the time jump ahead: that is why
`WindowLasts` excludes it.

*Bounds.* Minutes of three seconds, two registers of the clock's six, a time
out of one and two seconds, eight characters, leaps of five ahead and three
back at two moments or never, behaviours of thirty seconds, torn ones of ten.
The clock and the loop are coupled by one assumption: the loop reads the clock
at least once a second.

### Mbr, MbrProofs

Builds of descriptor and loader, the xor tool, and the MBR that reads them back
with int 0x13 failing at any sector. Bytes are sets of bits, so xor is exact.
*Properties.* `BootIntact`: the loader entered is the one built, and the
descriptor it finds is, but for the magic, the one built, the former provided
the environment does not fill its last sector, so that zeros follow it. The
chain byte is not reset between buffers, so the second reading of the
descriptor garbles its first byte: the property leaves that byte of the magic
out, which nothing looks at. The loader's first byte survives because the chain
ends in zeros, which is what the proviso is for. An environment that does not
fit below the code that reads it, or a loader that reaches beyond its segment,
overwrites what it should not: from there on (`wild`) nothing is claimed.

*Bounds.* Two bit bytes, three byte sectors, a key of two bytes (longer and
shorter than buffers), every environment of up to two bytes and a selection of
longer ones, every loader of up to three.

### Env

The parser a character at a time, then `env_get` and `env_set`. The text has no
terminator of its own: what follows it in memory is part of the input.
*Properties.* Every variable of a well-formed file reads as it was written
(`GetsWhatIsMeant`), where a mask counts for the character behind it alone; in
a file with a mask at a line's end, which is not well-formed, it counts for the
next line. `env_set` changes one name (`SetThenGet`), the parser ends
(`ParserEnds`). *Bounds.* All texts of up to four characters, and files of two
and three lines; a buffer of five characters in place of 510.

### BitWords, Blowfish, Sha1, Cipher, Packer

`Packer` is `tools/mkimg.c` and, behind it, `main/simg.c`: a file is taken for
a kernel or for raw data, a kernel is cut into its real mode part (one sector
more than a byte of its header says) and the rest, and each part is scrambled,
enciphered, hashed and written behind a start block; the loader, whose scrambler
is as another image left it (`Earlier`), reads it back, checks and undoes it.
Every early return is an action's way to `failed` or `refused`. What it
computes with are modules of operators: `Cipher` has the
passes of `crypt.c` in its six modes, whose IV and counter are locals of a call,
and the xor scrambler, whose key position and chain byte are not and must be
reset before each part (`Reset`); `Blowfish` the rounds and the key
schedule; `Sha1` the hash with its one-block buffer, the ring of sixteen words
and the registers that stay in place; `BitWords` words of four bytes as sets of
bits, with the bits of a byte as a parameter. `Sha1!Standard` is the published
algorithm (schedule of eighty words, registers that move). Evaluated once with
bytes of eight bits and the constants of the source, `Hash` of "abc" is the
digest the standard prints, and `Blowfish_Encrypt` of zeros under a key of
eight zero bytes the published 4EF99745 6198DD78; the run uses bytes of two.

*Properties.* No pass leaves its buffer, neither mkimg's nor what the loader
read (`WithinBuffers`). What mkimg packed is never refused and comes back, a
kernel filled up to whole sectors (`RoundTrip`), unless the last block is more
than half full without being full (`Whole`). Then its end does not: the loops
take the whole block, of which mkimg does not store the padding, so the loader
deciphers it with whatever follows on the disk. Kernels are whole sectors and
are not affected. What is signed is the standard's SHA-1 of the part as it lies
in the image (`HashRight`).

*Bounds.* Words of eight bits, so that the length of 128 bytes needs the second
count; the hash's real block of 64 bytes and all of Blowfish's rounds with
boxes of four entries; sectors of two blocks; raw files of every length up to
18 bytes and around 56, 64, 120 and 128; kernels of seven lengths with every
value of `setup_sects`, the one that wraps to no sector among them; two
contents of the disk behind the image. An `unsigned long` is a word, as in the
loader and on a 32-bit host: on one of 64 bits mkimg's blocks are twice as long
as the loader's, which is not modelled.

### Keyboard, KeyboardProofs

The controller's bytes, the modifier bits and the one-character console. The
user presses, holds and lets go; mouse bytes, keyboard errors and parity errors
come in between; `recieved()` and `get()` are called in any order.
*Properties.* Every key let go is delivered once, in order (`KeysKept`): the
keys still to be delivered are, one for one and in order, the places of the
buffer where one is let go (`Coming`). Each comes as the character meant
(`CharsMeant`) unless Ctrl or Alt was let go or a lock key repeated; calls
return (`Answers`) unless the controller reports a parity error, which the loop
never clears because it never reads the byte. The first proviso is there
because letting go of Ctrl or Alt clears the other modifiers
(`keyboard_driver.c:44`: `~` binds tighter than `?:`). Every shift code belongs
to one key: the fake shifts (`e0 2a`) some keyboards send around an extended
key are not modelled.

*Bounds.* Five keys and Pause, five events, six bytes of buffer.

### Words, Division, Dsa, DsaProofs

`Dsa` is what mkimg does, `dsa_sign` and then `dsa_check` of what it signed,
and what the loader does, `dsa_check` of what it read: the inverse by the
binary gcd, then products by doubling and powers by squaring, each of which
divides. `Division` is that division's loop over the digits, with the estimate
of a digit from the highest four of what is left and the highest three of the
divider. In both, numbers are integers; one that does not fit `Size` digits
wraps. The modules assume a few things beside the keys: `PowerAssumption` and
`TwoAssumption` say what `^` is as far as the proofs use it, `SizeAssumption`
that DSA_SIZE has room for products modulo P and for both coefficients of the
inverse of a number up to Q or of an s that comes with an image, `DomainAssumption` that Q is
prime and G's Q-th power is 1. The last is what DSA asks of its parameters:
`tools/gendsa.sh` has them made by `openssl dsaparam`, and those of
`crypt/dsa_key.c` are such. The r and s that `console_auth` reads at full
length are not covered by it. `Words` has the loops below them, over rows of
digits in two's complement: comparison, addition and subtraction with a carry
from word to word, products, squares, negation and shifts.

*Properties.* What is left is congruent to what was divided and one digit more
is always enough for it (`Remainder`); the coefficients of the gcd keep their
equations and the inverse is one (`InverseRight`); the check accepts exactly
what DSA's formula does (`Verdict`); what mkimg signs passes it, with any
random number, unless s is 0, which dsa_sign does not try again
(`SignedAccepted`); signing and checking end (`CheckEnds`). They exclude
behaviours in which an estimate *slipped*; `Verdict` and `SignedAccepted` also
those in which an inverse came out below 0 (`Sound`). Every operation of a run
that has a loop over words is done a second time by that loop, on the numbers
at hand, and agrees (`WordsAgree`). The runs need no proviso for that; the
theorem has one, that no estimate slipped, because the sizes of the numbers are
known only until then.

*What the model shows besides.* The inverse may be negative. `bch_inverse_bin`
adds Q once to a negative coefficient (`bch.c:1436`), which need not be enough:
that of 336 modulo 449 is -600, and -151 comes out. `bch_div_mod`, which divides
absolute values, makes 151 of it, the wrong number for the signature or the
check. Counted over small primes about one inverse in ten thousand is negative;
slightly less than one in a hundred is Q or more, which does no harm. The
primes of the runs are too small for either, so that TLC never sees what
`Sound` excludes; it is there because the proof of the inverse's range failed.

*Finding.* An estimate slips when what is left is a digit longer than the
divider and so near to Base times it that the estimate is Base: the code takes
this for an estimate with a digit too many and makes it 1. The remainder is
then congruent but too large, and when its square no longer fits, a valid
signature is refused (run `dsa_accepted`, where mkimg turns down what it has
just signed). With bytes this needs a coincidence of about 24 bits per digit,
and a check divides tens of thousands of digits.

*Bounds.* Digits of two bits, primes of four digits and of two, numbers of
twelve (a multiple of the longs the loops use, and more than twice the
prime's), two key pairs, digests and signatures below and above the prime,
random numbers of every value `bch_random_gen` can make. For the finding the
primes have five and four digits, one more than the estimate sees.

## Fairness

Weak fairness of the loader's own steps: it is a single thread that nothing
preempts, so what it can do next it does. In `CmdLine` that is not to say that a
command returns: `Run`'s other outcome is as fair. `Ata` assumes in addition that the
drive answers a command, which the driver, polling without a timeout, needs;
`Console` that the clock runs; `Dsa`, strongly, that rand() does not give zeros
for ever, for which dsa_sign draws again. Users and senders have none.

## Proofs

`HeapProofs` proves, for every heap, header size, set of sizes and alignments:
type correctness, `LiveDisjoint`, `BlocksAvoidHeaders`, `OwnerFound`,
`NothingLost` and the refinement of `Allocator`. The inductive invariant `IInv`
adds to the type a *layout* (headers and blocks follow each other without gaps
or overlap, `last` is the last node, a free node starts where its block does)
and *ownership* (every block in use belongs to a busy node that starts at its
pointer and holds it, and pointers determine blocks). None of the checked
properties is inductive alone: disjointness, for one, follows from the layout
of nodes that the blocks belong to.

`ImageProofs` proves for every disk, environment, set of load areas and size of
the heap: type correctness, `FlagVouches`, `BootOnlyVouched`, `PlainIsSigned`
and `StreamsClosed`. The argument has two invariants. *Accounts* ties the
counts of buffers to the step the command is in, and bounds what is held by
what the heap has. *Custody* says what each area holds at each step: while
kernelload is at its second part, the first lies checked in the real mode area
and its number is one below; the flag is zero from kernelload's start to its
end.

`AtaProofs` proves, for every number of sectors to a command, every width of
the counts and addresses and every disk: `Complete`, `NoDataLeft` with the
types, and that `Ata` implements `BlockStream`. Its `IInv` says where a
transfer is at each step: `i` is a multiple of the full command and never
beyond the last one (`Position`), all sectors up to `Reached` and none behind
it have moved (`Exchanged`, `Untouched`), and the drive is at the command's
next sector (`InStep`). `Due` bounds the command under way by what is left of
the transfer; it rests on a few lemmas about quotients, remainders and
multiples. `Complete` only speaks of the end of a transfer, and so needs all of
this.

`MbrProofs` proves `BootIntact` for every key, sector size, memory map,
environment and loader. The invariant is the *chain* (`Chained`): each byte on
the disk is the one built, xored with the key's byte for its place and with the
byte on the disk before it. `Progress` says how far the tool is and that its key
position and last byte are the chain's, `Layout` that the header counts the
sectors of both files, `Booting` what memory, the count and the descrambler's
last byte are at each of the MBR's steps. That the last byte is zero when the
loader is read follows from the proviso about zeros behind the environment.

`ConsoleProofs` proves `AuthStores`, `BreakIsHeard`, `WindowLasts` and
`WindowBounded` for every clock, timeouts, lengths of the stages, sender and
leap. The queue is what was sent and not yet consumed (`InOrder`), so what a
stage stores is known from where it began. For the time, `Since` names the
second in which waitc first read the clock and relates what was charged to what
went by since the wait began: no more than that unless the hours leap, and no
less but for two seconds per character and one. `Elapsed` is the lemma behind
it: a difference modulo 2^64 is at least what went by, whatever the hours do.

`DsaProofs` proves `Remainder`, `InverseRight`, `Verdict` and `SignedAccepted`
for every base, key, digest and random number, and `WordsAgree` until an
estimate slips. For the division: the estimate of a digit is at most one too
high, and never too low unless it slips (`NotTooHigh`, `NotTooLow`,
`EstimateRight`), so that putting back one divider sets each digit right and
what is left stays below the shifted divider (`Shape`). For the inverse: the
gcd's equations (`Coefficients`), and for the room its numbers need, a
*potential* (`Growth`): for some K, `u * v * K` is at most `X * Q` and no
coefficient exceeds `2 * K * Q`; each halving of u or v allows K to double. The
loops of mulmod, powmod and dsa_check are followed as far as the sizes of their
operands go (`Legal`), because a number that does not fit wraps.

For the verdict, a second invariant, `JInv`, says what those loops compute
(`Computation`). Of a loop: what is to be made of the result so far, of the
base and of the bits that are left (`Made`) is what the call is to return
(`Value`), at every bit and between its two divisions (`Computes`). Of the
calls: each register is the product, power or remainder that DSA's text names
(`Signs`, `Checks`), from the same r, s and key. Of an inverse that does not
exist: a common divisor stays one through the gcd's steps (`Common`), so
dsa_check fails for no other s. `Computation` needs `Sound`: a slip, or an
inverse below 0, and the registers are something else.

The laws these rest on are lemmas of the same module: remainders of sums and
products (`ModSum`, `ModProduct`), powers (`PowerAdd`, `PowerTimes`), the bits
of a number (`BitsCover`). `Power` is a recursive function of the exponent;
that it exists and what it is at each step (`PowersExist`, `PowerSteps`) is
proved by `Counting`, induction over the numbers for a set in place of a
predicate, which the prover cannot instantiate. `VerdictIsTheFormulas` follows
from `Checks` and from the inverse being the only one; it uses nothing of
`DomainAssumption`. `SignaturesAreAccepted` does: the exponents of the check
add up to the random number modulo Q (`Exponents`), G's powers repeat after Q
(`Period`), and s, unless 0, has an inverse because Q is prime.

`WordsMakeTheNumbers` is `WordsAgree`, unless an estimate slipped, for every
Base and Size: `bch_add` to `bch_sqr`, whose steps are those of `Words`, make
of what is stored of two numbers what is stored of their sum, product or half,
so that `Division` and `Dsa` may speak of integers. Each loop is a fold, and a
fold's states are given in closed form: `Part(x, i)` is a number without its
lowest i digits, also of a negative one, and after k words the row holds the
words of the result below the k-th and those it began with above (`Mix`), the
carry is what the parts differ by (`Carried`), the product's is `Multiplied`,
the bit shifted out `Twice`. That those are the states is one lemma for all
loops (`FoldSteps`, by `Counting` again); that each follows from the one before
is one per loop, digit arithmetic in which `v % WordBase` and `v \div WordBase`
must be the result's next word and the next carry (`AddSteps`, `ShlFold`,
`HalfOn`, `MultipliedOn`, `MulStepOn`, `SqrStepOn`). Where a loop nests another
(`bch_mul_arr_base`, `bch_sqr_arr_base`) the outer one's state is the sum of
the rows so far. The carries of a product stay so small that no `% LongBase`
cuts them (`MulRange`), a square's row is done before its sum reaches beyond
the digit that takes its last carry (`SqrBound`), and the row behind the
highest digit, which `bch_sqr_arr_base` makes too, adds nothing (`SqrLastRow`).
To know that the coefficient of Q is stored whole, and so keeps its sign when
it is shifted, a third invariant, `WInv`, adds to `IInv` that u and v only fall
and that x's coefficient is at most `2 * X * Q * Q + 1` (`Reach`, from
`Growth`); Q's then follows from the gcd's equation (`OtherBound`).

`KeyboardProofs` proves `KeysKept` and `CharsMeant` for every set of keys and
size of the buffer. The bytes under way are read as they will be: where a key
that types is let go is paired, in order, with the keys typed and not delivered
(`Aligned`), and the modifiers, run over those bytes from the driver's to the
user's (`Traced`), give each its character (`Marked`), unless one of the
provisos applies. Each byte read takes the first of the pairs, each key let go
adds one at the end.

`CmdLineProofs` proves `RunsWhatWasTyped` and `TokenizerHome` for every table
as assumed, every line and every length of the buffer. From strtok's position
on the copy is what was given (`Intact`): what strtok and the trimming wrote
lies before it. What was run are the known parts that start before the
position (`Frontier`), or, once a command did not return, before where it was. `Scan` is the lemma about one call of strtok, which ends
at the next separator; `FirstMatches` the one about the table, where the first
entry that matches is the letter's.

Assumptions are the modules' `ASSUME`s alone, which TLC evaluates in the runs.
TLC finds no state of the runs' instances in which an `IInv`, or `Reach` where
`WInv` asks for it, is false; in
`Growth` it needs K bounded by `X * Q + 1`, in `Common` the divisors bounded,
and of `Shape`, whose quotient it cannot enumerate, it checks `Remainder`
instead.

Only model-checked are

* liveness (`CommandsEnd`, `ReadsEnd`, `BootGoesOn`, `LinesEnd`, `ParserEnds`,
  `Answers`, `CheckEnds`), which the prover does not reach under fairness;
* `WordsAgree` after a slip;
* `Packer` and what it computes with: the ciphers and the hash are recursive
  functions of their data;
* `Env`, whose property compares the parser with `SelectSeq` and
  `SetToSortSeq` over a whole text; a proof would be an induction over texts.

## Not modelled

* `Image` takes "the signature matches" as a fact of complete, signed data and
  does not compose with `Dsa` or `Packer`, and leaves out parts without data,
  which mkimg makes of an empty file.
* Division of numbers of more than 257 bytes, which DSA has none of, and what
  of `bch.c` nothing calls. A 64-bit host's longs.
* The contents of heap blocks. `strcpy`, which the environment uses on blocks
  of exactly its text's size, writes a second zero byte behind the first
  (`string.c:66`): in a fresh node the next header is zero there, in a reused
  one it is the lowest byte of the next node's `start`. To tell the harmless
  from the harmful one needs headers as bytes, which would hide the list.
* The text display, which nothing reads back; what could be said of it restates
  its cursor's arithmetic. (It wraps one column late: the character behind the
  last column is stored in the next row's first cell, where the following one
  goes too, `text_display_driver.c:71`.)
* printf, itoa, atol and the rest of the formatting and parsing of numbers:
  pure, and no state depends on more than whether they succeed.
* The GDT, the switches between real and protected mode, the jump to the
  kernel: straight-line assembler.
* RAW images, signatures of the start block, SHA-2, the xor key generator:
  compiled out in the default configuration.
* The calendar of mktime.
* Host-side helpers, the kernel configuration and the custom partition module.

## Plan

1. Done: the modules above, with the abstract specifications `Allocator` and
   `BlockStream`, and the proofs above.
2. Worth modelling next: `Image` on `Ata`'s stream, so that a short read is one
   the driver makes; the heap's bytes, for what overruns its blocks.
