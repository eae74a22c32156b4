# A TLA+ model of avr-emu

avr-emu loads an AVR ROM image and executes it, optionally under the control of
avr-gdb.  It is one C program with one thread; what makes it hard to test is
the number of ways in which a client, SIGINT, the network and replays of the
program interleave with the loop that executes instructions, and the number of
edges in the arithmetic of the instructions.

## The system

| Part | State | Operations | Talks to |
|---|---|---|---|
| `emulate()` loop (main.c) | `pc`, `memory`, `insns`, `insnreplaylim`, `replay_mode`, `ctrlc`, trace file | one iteration: ^C test, end of replay, `gdbstub_intr()`, rewind, `emulate1()`, limit test | calls the stub and the processor |
| GDB stub (gdbstub.c) | `csock`, `breakpoints`, `stepone`, `execute` | g G m M Z0 z0 c s bs and constant replies; stop replies | sets the loop's `stepone`, `replay_mode`, `insnreplaylim`; reads and writes the machine |
| packet layer (gdbstub.c) | `clientbuf`, `cblen` | poll, recv, scan, checksum, dispatch, memmove | the socket; the commands |
| decoder (main.c) | the table `avr_instr`, `skip_next_instruction` | match a word, take its operands, skip | handlers |
| handlers (instr.c, emu.h) | `memory` (registers, SREG, SP, RAMP), `pc`, the knobs | 56 handlers, flag helpers, stack helpers | called by `emulate1()` |
| SIGINT handler (main.c) | `ctrlc` | sets it | read by the loop; interrupts `poll()` |
| unit tests (check_instr.c) | a test's `code[]`, its fixture | install words, store inputs, `emulate1()`, assertions | call `emulate1()` directly |
| recorded input, command line, console output | - | - | not modelled, see below |

What has to be right:

* loop and stub: every resume command is answered by one stop reply; a reverse
  step ends, and ends at the instruction count before; the trace holds what was
  executed live; the limit holds; ^C ends the process wherever it is;
* packet layer: packets are handled once, in order, and all of them, however
  the network cuts the stream; a resume command takes effect before what comes
  after it;
* the two together: a client that does not wait for answers gets the answers of
  one that does;
* processor: sequences of instructions compute what AVR programs use them for;
  calls return; skips pass over one instruction; addresses wrap as the size of
  memory says; the decode table is unambiguous and has the instruction set,
  no more and no less; an instruction leaves alone what it has no business with.

PROJECT.json lists the hazards behind these, each at its line.

## Modules

| Module | What it is |
|---|---|
| `Emulator` | The loop and the commands: one action per branch of an iteration and per command handler. The processor is the constant operator `Exec(pc, memory)`. Properties at the end. |
| `DebugTarget` | What a client is promised, in terms of a clock (`time`), a `phase` and the numbers of resume commands and stop replies. `Emulator!ImplementsTarget` is the refinement. |
| `EmulatorProofs` | The theorems about `Emulator`. |
| `GdbPacket` | `gdbstub_interactive()` and `gdb_cmd()` byte by byte. |
| `SeqLemmas` | Lemmas for the proofs: induction on sets of naturals, what `FlattenSeq` computes, counting in a sequence. |
| `GdbPacketProofs` | The theorems about `GdbPacket`. |
| `Session` | `Emulator` and `GdbPacket` as one program: a packet found by the scan is a command, a stop of the program a call of `gdbstub_interactive()`. |
| `SessionProofs` | The theorems about `Session`; extends `EmulatorProofs` and instantiates `GdbPacketProofs`. |
| `AvrWord` | Bytes, bits and data memory (emu.h). |
| `AvrFlags` | The flag helpers of instr.c. |
| `AvrInstr` | The handlers, each an operator from machine and decoded instruction to machine. |
| `AvrDecode` | The decode table and the operand fields. |
| `AvrCore` | `emulate1()` as an operator of knobs, flash, pc and memory; `Emulator`'s `Exec`. |
| `AvrCpu` | The processor as a state machine on its own, on one flash image; what may make it trap. |
| `AvrSteps` | What a step of `AvrCpu` has to do and may do, for any program: pointers, calls and returns, the end of the process, the bytes written, arithmetic, transfers. Each is described from the instruction's meaning, on its own; the handlers share code. |
| `AvrFlagsProofs` | What the flag helpers say, in terms of the numbers added or subtracted. |
| `AvrCpuProofs` | The types and the traps of `AvrCpu`, one lemma per handler; `emulate1()` as the processor `Emulator` assumes. |
| `AvrStepProofs` | The properties of `AvrSteps` but for arithmetic, for every program. |
| `AvrArithProofs` | The remaining one: what every instruction that computes does. |
| `AvrTests` | The unit tests of check_instr.c, one definition per test under its C name: the words it installs, and for each call of `emulate1()` what it stores before and asserts after. `PC_START` is a parameter. |
| `MCAvrAsm` | An assembler for the programs of the MC modules. |
| `MCEmulator`, `MCHistory` | `Emulator` on an AVR program run by `AvrCore`; with a record of past machines. |
| `MCSession` | `Session` on a program of three instructions, and the reference transcript. |
| `MCAvrArith`, `MCAvrFlow`, `MCAvrData` | Programs and properties for the processor. |
| `MCAvrTests` | Runs `AvrTests`, and every 16-bit word. |

### How the state corresponds

`Emulator.loc` is where the thread is: in `gdbstub_init()` ("accept"), at the
head of the loop ("top"), in `gdbstub_interactive()` ("interactive"), past
`gdbstub_intr()` ("exec"), or gone.  One iteration of the loop takes two steps,
because a client gets control in between.  The other variables have the names
they have in C.  `csock` stands for `csock != -1`; `breakpoints` is the key set
of the hash table.  `resumes`, `stops` and `reversed` are history.  `resumes` is
capped by `MaxResumes`, which bounds the commands c, s and bs of a session;
commands that do not resume are not bounded.

`gdb_readmem` and `gdb_writemem` are modelled for one byte; longer packets are
loops over the same assignment.  A failed assertion anywhere is `abort_nodump`.
`InterruptedPoll` is SIGINT inside `poll()`, be it the first one or not, which
fails with EINTR and trips `ASSERT(rc >= 0)`; `ctrlc_handler` is SIGINT anywhere else.

In `GdbPacket` a packet is five symbols; "y" and "n" stand for checksum digits
that are right and wrong.  `whole` chooses, once, whether `recv()` may cut a
packet.  `consumed`, `items` and `ran` are history.  Acknowledgements and GDB's
interrupt are single bytes; the scan knows the first and not the second.  Besides
good packets the client may send damaged ones (NAK), ones without "$" (acknowledged,
with an empty reply) and ones whose checksum is not a number ("unsummed"), at which
`ASSERT(rc == 1)` in `gdb_cmd()` ends the process.

In `Session` the actions are conjunctions of one of `Emulator` and one of
`GdbPacket`: `Handled` joins the handler that runs and the packet the scan
passes over, `Loop` joins the return of `gdbstub_interactive()` and its next
call.  `Handled` answers every packet there is: those of gdb_disp's rows ("q" stands
for the rows with a constant reply), those it does not list, those without "$" and
damaged ones; `Malformed` is a packet that trips an assertion.  `stage` ("running" outside the stub) and `loc` agree in every step.  The
user's ^C is in `emulator` and left out of `session`.

In the AVR modules `memory` is a function on the addresses used so far and zero
elsewhere, and a handler's effect on SREG is a set of bits to set and one to
clear, applied by `Retire` as `emulate1()` does it, with the assertion that the
two are disjoint.  `pc` is an integer: a negative one stands for its residue
mod 2^32, outside flash either way.  OpenSSL's DES is the constant
`DES_ecb_encrypt`; the runs use a keyed permutation.

## Runs

| Run | Shows |
|---|---|
| `emulator` | All of `Emulator` with a real AVR program of eight words: it loops, skips, writes the register it depends on, and has an illegal word behind a skip that a `G` packet can lead to. Safety, refinement and liveness. |
| `packet` | `GdbPacket` with up to three items, single bytes, damaged, headless and unreadable packets among them, and a buffer of 12, which two packets and two single bytes fill. |
| `session` | All the commands, one that gdb_disp does not list, damaged packets and unreadable ones, from a client up to three items ahead of the answers: the transcript is that of `AfterCommand`, one command at a time, every packet has its reply, in order (`AnsweredInOrder`), every stop is told once (`StopsOnWire`), and whole packets are all answered. |
| `avr_arith` | Twenty idioms of multi-byte arithmetic on 13 x 13 words at the edges, from SREG 0 and 255: sums, products, negation, and comparisons with all that a branch may read of them afterwards, Z included (`ComparesWords`); nothing traps but for a cause (`TrapsForCause`), and every step that computes does what arithmetic says (`ArithmeticExact`). |
| `avr_flow` | Calls, returns, recursion, indirect jumps, skips; 16-bit and 22-bit `pc`; code across 256 and across 2^17; SP in the middle of a page, at its end, at 65535 and where a push takes it below 0. Every call and return does to the stack what the other expects (`CallsReturn`). |
| `avr_data` | Loads and stores on the three memory sizes, pointers at each wrap; flash reads, XCH/LAS/LAC/LAT, bits, ports, DES. Of every step: the byte a pointer reaches (`PointerAccess`), the bytes written (`Footprint`), whether it ends the process (`StopsExactly`), what it moves (`TransfersExact`). |
| `suite` | The 85 unit tests, at address 0 as in C and at 766; and one execution of each of the 65536 words on a 22-bit machine with SREG 255 and on a 256-byte machine with SREG 0: decoding, and what is executed at all. |
| `reverse` | Fails, as the code does: a reverse step does not restore data memory. |
| `breakpoint` | Fails: breakpoints compare byte addresses with word addresses. |
| `memory` | Fails: an m for the address an M has just written, with nothing stored in between and without any G, is answered with a byte of flash. |
| `packet_split` | Fails: the scan never ends on part of a packet. |
| `lds256` | Fails: LDS leaves the page of the 256-byte machine, STS does not. |

The failing runs state what a comment or the README of the repository says;
PROJECT.json quotes the line.

### Bounds

`emulator`: `InsnLimit = 6` lets the program go through both arms of its skip
and stops a `c` that never ends; `MaxResumes = 4` is enough for a step, two
reverse steps and a step, that is, a replay after a replay and live execution
after it.  Two breakpoint addresses, one of which is the word address of an
instruction the program reaches; a `G` packet with a valid and with an invalid
pc; an m/M address below and above 0x800000.  `memory`: the one address is in data
space, and no `G` is sent, so that M is what writes; `MCHistory` keeps the address and
byte of the last M in `written` as long as memory is as it left it.  The theorems about `Emulator` do
not depend on these bounds.  `packet`: with three items a resume command can
have two packets behind it, and the buffer can be filled.  `session`: three items
are enough for a breakpoint, a c and a command behind it, for a replay between two
steps, or for a write, a run and a read behind it; `InsnLimit = 5` lets c reach the
breakpoint twice.  One pc, one byte and one address are written, and `StoresNothing`
says that the program itself writes no memory, which the reference relies on.
Acknowledgements, interrupts and headless packets are in `packet`.  `suite`:
a word is executed once, from machines whose pointers and stack lie in data
memory.  The AVR runs execute fixed programs from sets of machines; a machine is
what a `G` packet and `M` packets can set up before `c`.  The theorems about
`AvrSteps` do not depend on the programs.  Programs of `avr_flow` and `avr_data` that are
meant to end in an illegal instruction stop there, so these runs do not check
for deadlock.

### Fairness

`Emulator!FairSpec` has weak fairness of `Run`, the steps the thread takes
without waiting for anybody: the process is not suspended for ever.  Nothing is
assumed of the client, of the user or of a `send()` that fails.
`GdbPacket!FairSpec` has weak fairness of the stub; a step of the program is
assumed to come back, which `ReplayEnds` and the single instruction of an `s`
justify.  `AllAnswered` and `HangUpNoticed` are stated for whole packets, since
`packet_split` shows that they fail otherwise, and excuse a stream with an
interrupt byte, on which the scan may spin for the same reason.
`Session!SessionSpec` has weak fairness of `Program`, all that the process does
without the client or a failing `send()`; that a run comes back to the stub is
no longer assumed there but follows from the loop.

### Mutants

Each module has a few definitions marked "Mutant": wrong variants of the
definition after them, such as a missing `else`, a `>` for a `>=` or a missing
mask.  With one in place of the original, the property named in PROJECT.json
fails.

## Proofs

The theorems hold for all values of the constants; the runs are one instance.

### Emulator

`EmulatorProofs` proves, for all values of the constants that satisfy
`ConstAssumption` and `ExecAssumption` (types, and that `Exec` returns a
well-typed result), hence for every ROM image and every client:

* `TypeCorrect`, `StopRepliesCorrect`, `ReplayCorrect`, `TraceCorrect`,
  `LimitCorrect`: `Spec => []P` for the invariants of the `emulator` run.
  `LimitRespected` is about the counter at the head of the loop and, since `init()`
  takes the counter back to 0 under a replay, about all that was executed live: at
  most the limit and one instruction for each reverse step;
* `Refinement`: `Spec => ImplementsTarget`.

None of the invariants is inductive.  `IInv` adds `Control`, which says what
each location implies: while the stub waits to accept a client nothing is set
and nothing has run; in `gdbstub_interactive()` there is a client, `stepone` is
clear and no replay is under way; in the loop a replay or a pending `stepone`
means that there is a client, and the two never hold at once.
A stop reply can then be counted once per resume
command (`StopStep` needs to know that a breakpoint is not reported at the end of a
replay), and `TraceAccounts` follows from `ReplayOnCourse`, since the client's
clock during a replay is where the replay will end.  There is one lemma per
conjunct, with one step per action; the refinement uses `IInv` and maps
`replay_mode` to a clock that has already been set back.

### Packet layer

`GdbPacketProofs` proves the three invariants of the `packet` run,
`HandledOnceInOrder`, `OneRunPerResume` and `OnlyDropsTheGone`, for every set of
commands, every number of items, every buffer size
and every way `recv()` may cut the stream.  The inductive invariant
`PacketInv` says that for some n the scan has passed over the first n items, in two
parts.  `Frame(n)` is about framing, and the same whatever the commands do:

* `InOrder`: what the scan has passed over, what is in `clientbuf` and what is
  on the wire are, in this order, the bytes of the items the client sent;
* `Stands(n)`: the scan stands behind item n, not between an interrupt
  byte and the end of the packet it damages;
* `Room`: `recv()` is never reached with a full buffer.  The memmove leaves only
  what lies behind a resume command, and part of a packet never gets as far: the
  scan spins on it, which is what `packet_split` shows.

`Replied(n)` is about the commands: the replies are those to the first n items.

The heart is that a packet the scan finds in `clientbuf` is an item: its "$" is
where an item starts, so its "#" is that item's.  This is a fact about all
streams, by induction on the number of items.  The provers cannot use the
library's induction rule, whose predicate is an operator; `SeqLemmas` has one
whose predicate is a set of naturals, derived from well-foundedness, and uses it
for what `FlattenSeq` computes.

### Sessions

`SessionProofs` proves that a session implements `Emulator` (`SessionEmulates`):
each of its steps is a step of the emulator or none.  The theorems about
`Emulator` therefore hold of a client that sends bytes without waiting, and so
does `ImplementsTarget`.  `InStep`, which says that `loc` and `stage` agree on
who has control, needs `IInv`, as a run comes back to the stub in a state only
`Control` describes.  With it, `StopsOnWire` follows: the stop replies on the
connection are as many as `Emulator` counts, so that `StopRepliesMatch` is about
bytes the client gets.

`EveryPacketAnswered` (`AnsweredInOrder`) says what a client relies on to match
replies with packets, since the protocol has no other means: the k-th reply is of the
kind the k-th packet calls for, and there is one for each packet the stub has read, but
for a c while the program runs.  In a session the reply to a packet comes from
`Emulator`, so `Replied` does not hold there, but `Frame` does: the lemmas about it in
`GdbPacketProofs` are used through `INSTANCE`, under `SessionAssumption`, which is what
`GdbPacket` assumes of the same constants.  The invariant `Answers(n)` joins `Frame(n)` and the
two counts: `Ordinal(n)`, the packets among the first n items, is the number of
replies plus the number of stops that are due.  `IInv` bounds the latter by one, and by
none when the stub reads commands; so the packet without a reply is the last one
passed, and it is a c, as s and bs are answered when they are read.
`AlwaysRoom` is the part of `Frame` about `recv()`: a client that is ahead of the
answers is never dropped for it, for every size of `clientbuf`.

### Processor

`AvrFlagsProofs` is about `AvrFlags` alone.  `adc_flags8()` and `sub_flags8()` read
C, H, V and S off single bits of operands and result; `AddFlags` and `SubFlags`
say, for all bytes and both carries, that these are the overflow of the unsigned,
the low-nibble and the signed sum or difference and its sign.  `WordSum` and
`WordDifference` chain them: ADD/ADC add any two words, CP/CPC and SUB/SBC compare
and subtract them.  The run `avr_arith` has 13 x 13 words.

`AvrCpuProofs` proves `TypeOK` and `TrapsForCause` of `AvrCpu` for every image, every
machine it starts from and all three knobs, under `FlashAssumption` and
`StartAssumption` (words and bytes are in range) and the hypothesis `DesTyped`, that
the DES library maps blocks to blocks.  The last is a hypothesis of the theorems
and not an assumption of the module because it quantifies over all blocks,
more than TLC can enumerate.  `TypeOK` says that no store leaves `memory[]`, whatever
RAMP registers, displacement and pointer are; `TrapsForCause` says that the
assertions of `emulate1()` on flags never fail and that the process only ends at
what `NotDefined` lists, which is written down from `instr_unimp` and the handlers'
assertions on operands.  The invariant `CpuInv` is their conjunction, and each
handler has a lemma that it leaves a machine of the right type and flags in
disjoint sets, and traps at most where `NotDefined` says.

`ExecTyped`, in the same module, closes a gap between the two halves of the model:
`Emulator` is about any processor that satisfies `ExecAssumption`, and `emulate1()`
does, for every image and all knobs.  There the memory is the array of 16 MiB that
C has (`Array`: the model's functions are zero where they are not defined) and `pc`
is taken mod 2^32.  What is proved of the loop, of replays, of the trace and of
sessions is therefore true of AVR programs.

`AvrStepProofs` and `AvrArithProofs` prove the six properties of `AvrSteps`, with
the same assumptions and hypothesis, for every step of every program:

* `StepsHaveFootprint` (`Footprint`): no byte is written but those the instruction
  names.  Each of the 56 handlers has a lemma that says which bytes it writes, which
  flags it asks for and where `pc` goes; one step of the proof per row of the decode
  table then compares that with `MayWrite`.
* `PointersAccess` (`PointerAccess`): the access and the new pointer.  The masks and
  shifts of `instr_ldst_common()` are shown to be arithmetic mod 256, 2^16 or 2^24
  first; a store that hits the registers its own pointer is kept in is excluded,
  as the pointer is written last.
* `ProcessEnds` (`StopsExactly`): `TrapsForCause` in both directions.
* `CallsAndReturns` (`CallsReturn`): what is pushed is where a return goes.  The
  hypotheses `RoomToPush` and `RoomToPop` say that the frame is clear of SREG and the
  registers and does not wrap: SP is itself in memory, and a frame over it is lost.
* `ArithmeticIsExact` (`ArithmeticExact`): ADD, ADC, the subtractions and comparisons,
  INC, DEC, NEG, the shifts, AND, OR, EOR, COM, ADIW, SBIW and the six multiplications
  leave the number and the flags that arithmetic on integers gives.  A flag helper's
  chain of tests is turned into one equivalence per flag, `Retire` into what SREG
  shows afterwards, and each handler's lemma puts the two together with the bytes
  it writes.  Z is as the code has it: the four register subtractions keep
  Z when the result is zero, CP and SUB too.

* `TransfersAreExact` (`TransfersExact`): MOV, MOVW, SWAP, IN, OUT, LDS, STS, LPM, ELPM,
  PUSH, POP and the bit instructions move what they say, and XCH, LAS, LAC and LAT
  hand out the byte as it was, also where Z points at Rd.  A push or pop over SP
  itself, or a pop from beyond 64 KiB, is excluded, and so is LDS on the
  256-byte machine, where it disagrees with STS (run `lds256`).

Writing a property once for all programs is what makes these provable: no program
and no number of steps occurs in them, and the invariant they need is `CpuInv`.

### Not proved

Left to TLC, and why:

* `ReplayEnds`, `CtrlCEnds`, `AllAnswered`, `HangUpNoticed`, `SessionAnswered`: liveness
  under fairness is out of the prover's reach.
* `SequentialTranscript`: its reference is a fold over the commands, on the program of
  that run.  That the replies are one per packet and of the right kind is proved
  (`AnsweredInOrder`); that the registers in them are those of the right moment is not.
* The properties stated in `MCAvrArith`, `MCAvrFlow` and `MCAvrData` themselves: they
  say what fixed programs compute after many steps.  The steps are covered by
  the theorems about `AvrSteps`, except the values LDI and DES store, of which only
  the footprint is proved.
* The properties of `suite`: they evaluate the model on every word and every unit
  test, which is already all there is.

## Not modelled

* `getsn()` and `ins_inprec()`: nothing calls them.
* Option parsing: its results are the constants `InsnLimit` and `Tracing` and the
  first location.
* Console output, `print_ips()`, the words of a trace record, and check_emu.c,
  whose one test compares the text of a trace file.
* The sizes of reply buffers in `gdb_readmem` and `gdb_sendstr`: they follow from
  two constants, and nothing interleaves with them.
* What a pc beyond 16 bits should do on a machine without `pc22`: the code does not
  mask it, the model does not either, and no document says what is meant.
* Several clients: the stub accepts one.

## Plan

Done: `Emulator` with its abstraction, proofs and findings; the processor; the
packet layer; their composition; the unit tests; the invariants of the packet
layer, the session and the processor; what a step does in every program; one reply
per packet.  What could be added:

1. `SequentialTranscript` for every program, from `AnsweredInOrder` and an inductive
   definition of the registers in the answers.
2. In `AvrSteps`, where branches, jumps and skips go in every program; now `SkipsOne`
   and the unit tests say it.
