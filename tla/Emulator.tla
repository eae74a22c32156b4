------------------------------ MODULE Emulator ------------------------------
(***************************************************************************)
(* The control of avr-emu: the emulate() loop of main.c, the command       *)
(* handlers of gdbstub.c, reverse stepping by replay, the instruction      *)
(* limit, the trace file and the SIGINT flag.                              *)
(*                                                                         *)
(* The processor is a parameter: Exec(p, m) is what one call of emulate1() *)
(* makes of program counter p and data memory m.  AvrCpu.tla models that   *)
(* call; this module only relies on its type, so what is proved here holds *)
(* for every ROM image.  A GDB packet is a command of this module once it  *)
(* is complete and its checksum matches; GdbPacket.tla models the bytes.   *)
(***************************************************************************)
EXTENDS Integers

CONSTANTS
  Pcs,          \* values of pc, a word address of flash
  PcLimit,      \* gdb_setregs accepts a pc below it: 2^16, as init() clears pc22
  Cells,        \* data memory addresses that are modelled
  RegCells,     \* the cells that G writes and g reads: r0..r31, SREG, SP_LO, SP_HI
  Bytes,        \* values of a data memory cell
  Flash,        \* the image main() loads, word address -> word
  BreakAddrs,   \* addresses the client puts in Z0 and z0 packets
  MemAddrs,     \* addresses the client puts in m and M packets
  GdbPcs,       \* byte-addressed PC values the client puts in G packets
  GdbBytes,     \* byte values the client puts in G and M packets
  Exec(_, _),   \* one emulate1() call: [trap, done, pc, mem]
  InsnLimit,    \* option -l; 0 is no limit
  Tracing,      \* option -t
  MaxResumes    \* bound: resume commands (c, s, bs) in one session

ASSUME ConstAssumption ==
  /\ Pcs \subseteq Nat /\ 0 \in Pcs
  /\ PcLimit \in Nat
  /\ RegCells \subseteq Cells
  /\ 0 \in Bytes /\ GdbBytes \subseteq Bytes
  /\ BreakAddrs \subseteq Nat
  /\ \A a \in MemAddrs : a \in Nat /\ a % 65536 \in Cells
  /\ \A b \in GdbPcs : b \in Nat /\ (b \div 2 < PcLimit => b \div 2 \in Pcs)
  /\ InsnLimit \in Nat /\ MaxResumes \in Nat
  /\ Tracing \in BOOLEAN

Memories == [Cells -> Bytes]

ASSUME ExecAssumption ==
  \A p \in Pcs, m \in Memories :
    Exec(p, m) \in [trap : BOOLEAN, done : BOOLEAN, pc : Pcs, mem : Memories]

VARIABLES
  loc,            \* where the emulator thread is (see Locations)
  pc, memory,     \* machine state
  insns,          \* instructions executed since init()
  insnreplaylim,  \* instruction count at which a replay stops
  replay_mode,
  stepone,        \* hand control to the client at the next gdbstub_intr()
  breakpoints,    \* keys of the breakpoints table, as the client sent them
  csock,          \* csock # -1
  hungup,         \* the client has closed its end of the connection
  ctrlc,          \* set by the SIGINT handler
  reply,          \* last reply packet sent to the client
  traced,         \* records in the trace file
  resumes, stops, \* history: resume commands taken, stop replies sent
  reversed        \* history: reverse steps taken

debugVars == <<breakpoints, hungup>>
histVars  == <<resumes, stops, reversed>>
counters  == <<insns, traced>>
cpuVars   == <<pc, memory, counters>>
vars == <<loc, pc, memory, insns, insnreplaylim, replay_mode, stepone,
          breakpoints, csock, hungup, ctrlc, reply, traced, resumes, stops,
          reversed>>

(***************************************************************************)
(* "accept": in gdbstub_init(), waiting for a client;  "top": head of the  *)
(* loop of emulate();  "interactive": in gdbstub_interactive();  "exec":   *)
(* past gdbstub_intr();  the others: the process has ended.                *)
(***************************************************************************)
Terminal  == {"halted", "aborted", "dropped"}
Locations == {"accept", "top", "interactive", "exec"} \cup Terminal

Reply(t) == [tag |-> t]

(***************************************************************************)
(* GDB's program counter is byte addressed: gdb_getregs sends the low 23   *)
(* bits of pc << 1 and gdb_setregs halves what it gets.                    *)
(***************************************************************************)
ToGdbPc(p)   == (2 * p) % 8388608

FromGdbPc(b) == b \div 2

\* gdb_readmem reads flash as bytes, low byte of a word first.
FlashByte(a) ==
  LET i == a \div 2
      w == IF i \in DOMAIN Flash THEN Flash[i] ELSE 0
  IN  IF a % 2 = 0 THEN w % 256 ELSE w \div 256

\* gdb_writemem keeps the low 16 bits of the address.
DataCell(a) == a % 65536

Replies ==
  {Reply(t) : t \in {"none", "OK", "S05", "begin", "const", "empty"}}
  \cup [tag : {"regs"}, regs : [RegCells -> Bytes], pc : {ToGdbPc(p) : p \in Pcs}]
  \cup [tag : {"mem"}, addr : MemAddrs, val : {FlashByte(a) : a \in MemAddrs}]

TypeOK ==
  /\ loc \in Locations
  /\ pc \in Pcs /\ memory \in Memories
  /\ insns \in Nat /\ insnreplaylim \in Nat
  /\ replay_mode \in BOOLEAN /\ stepone \in BOOLEAN
  /\ breakpoints \subseteq BreakAddrs
  /\ csock \in BOOLEAN /\ hungup \in BOOLEAN /\ ctrlc \in BOOLEAN
  /\ reply \in Replies
  /\ traced \in Nat /\ resumes \in Nat /\ stops \in Nat /\ reversed \in Nat

-----------------------------------------------------------------------------
(* main(): options are read, init() has run, the image is loaded and the   *)
(* SIGINT handler installed; with -g, gdbstub_init() waits for a client.   *)

Init ==
  /\ loc \in {"accept", "top"}
  /\ pc = 0 /\ memory = [c \in Cells |-> 0]
  /\ insns = 0 /\ insnreplaylim = 0
  /\ replay_mode = FALSE /\ stepone = FALSE
  /\ breakpoints = {} /\ csock = FALSE /\ hungup = FALSE /\ ctrlc = FALSE
  /\ reply = Reply("none")
  /\ traced = 0 /\ resumes = 0 /\ stops = 0 /\ reversed = 0

gdbstub_init ==
  /\ loc = "accept"
  /\ loc' = "top" /\ csock' = TRUE /\ stepone' = TRUE
  /\ UNCHANGED <<cpuVars, debugVars, histVars, insnreplaylim, replay_mode, ctrlc,
                 reply>>

\* abort_nodump(), behind every ASSERT, illins and unhandled: closes the
\* client connection and exits.
abort_nodump ==
  /\ loc' = "aborted" /\ csock' = FALSE
  /\ UNCHANGED <<pc, memory, debugVars, histVars, insnreplaylim, replay_mode,
                 stepone, reply>>

\* exit() from the stub, without gdbstub_stopped().
exit ==
  /\ loc' = "dropped"
  /\ UNCHANGED <<cpuVars, debugVars, histVars, insnreplaylim, replay_mode,
                 stepone, csock, ctrlc, reply>>

-----------------------------------------------------------------------------
(* The environment: SIGINT and a client that goes away.                    *)

\* accept() is restarted after the handler, so the flag waits for the loop.
ctrlc_handler ==
  /\ loc \notin Terminal /\ ~ctrlc
  /\ ctrlc' = TRUE
  /\ UNCHANGED <<cpuVars, debugVars, histVars, loc, insnreplaylim, replay_mode,
                 stepone, csock, reply>>

\* A signal that arrives inside poll(), the first one or a later one, makes it
\* return -1, and ASSERT(rc >= 0) fails.
InterruptedPoll ==
  /\ loc = "interactive"
  /\ ctrlc' = TRUE
  /\ abort_nodump /\ UNCHANGED counters

ClientHangsUp ==
  /\ csock /\ ~hungup
  /\ hungup' = TRUE
  /\ UNCHANGED <<cpuVars, histVars, loc, insnreplaylim, replay_mode, stepone,
                 breakpoints, csock, ctrlc, reply>>

-----------------------------------------------------------------------------
(* The head of the loop of emulate().                                      *)

\* Mutant: the flag is cleared and the loop goes on.
GotCtrlC_forgotten ==
  /\ loc = "top" /\ ctrlc
  /\ ctrlc' = FALSE
  /\ UNCHANGED <<cpuVars, debugVars, histVars, loc, insnreplaylim, replay_mode,
                 stepone, csock, reply>>

GotCtrlC ==
  /\ loc = "top" /\ ctrlc
  /\ abort_nodump /\ UNCHANGED <<ctrlc, counters>>

\* Mutant: a breakpoint under a step is reported as well.
gdbstub_intr_no_else(step) ==
  /\ UNCHANGED <<cpuVars, debugVars, csock, ctrlc, resumes, reversed>>
  /\ loc' = IF csock /\ (step \/ pc \in breakpoints) THEN "interactive" ELSE "exec"
  /\ stepone' = (step /\ ~csock)
  /\ IF csock /\ pc \in breakpoints
       THEN reply' = Reply("S05") /\ stops' = stops + 1
       ELSE UNCHANGED <<reply, stops>>

\* gdbstub_intr(), called with stepone = step.
gdbstub_intr(step) ==
  /\ UNCHANGED <<cpuVars, debugVars, csock, ctrlc, resumes, reversed>>
  /\ \/ /\ ~csock
        /\ loc' = "exec" /\ stepone' = step /\ UNCHANGED <<reply, stops>>
     \/ /\ csock /\ step
        /\ loc' = "interactive" /\ stepone' = FALSE /\ UNCHANGED <<reply, stops>>
     \/ /\ csock /\ ~step /\ pc \in breakpoints
        /\ loc' = "interactive" /\ stepone' = step
        /\ reply' = Reply("S05") /\ stops' = stops + 1
     \/ /\ csock /\ ~step /\ pc \notin breakpoints
        /\ loc' = "exec" /\ stepone' = step /\ UNCHANGED <<reply, stops>>

\* Mutant: off by one.
ReplayDone_late == insns > insnreplaylim

ReplayDone == insns >= insnreplaylim

\* Mutant: replay_mode is not reset.
EndReplay_no_reset ==
  /\ loc = "top" /\ ~ctrlc /\ replay_mode /\ ReplayDone
  /\ insnreplaylim' = 0 /\ UNCHANGED replay_mode
  /\ gdbstub_intr(TRUE)

\* The replay has reached its target: the client gets control back.
EndReplay ==
  /\ loc = "top" /\ ~ctrlc /\ replay_mode /\ ReplayDone
  /\ replay_mode' = FALSE /\ insnreplaylim' = 0
  /\ gdbstub_intr(TRUE)

LiveIteration ==
  /\ loc = "top" /\ ~ctrlc /\ ~replay_mode
  /\ gdbstub_intr(stepone) /\ UNCHANGED <<replay_mode, insnreplaylim>>

\* While a replay is under way gdbstub_intr() is not called.
ReplayIteration ==
  /\ loc = "top" /\ ~ctrlc /\ replay_mode /\ ~ReplayDone
  /\ loc' = "exec"
  /\ UNCHANGED <<cpuVars, debugVars, histVars, insnreplaylim, replay_mode,
                 stepone, csock, ctrlc, reply>>

-----------------------------------------------------------------------------
(* The rest of an iteration, after gdbstub_intr().                         *)

MustRewind == replay_mode /\ insnreplaylim < insns

\* init() clears the counters and pc; data memory keeps its contents.
Rewind ==
  /\ loc = "exec" /\ MustRewind
  /\ pc' = 0 /\ insns' = 0
  /\ loc' = "top"
  /\ UNCHANGED <<memory, traced, debugVars, histVars, insnreplaylim,
                 replay_mode, stepone, csock, ctrlc, reply>>

\* Mutant: replayed instructions are traced again.
Retires_always_traced ==
  /\ insns' = insns + 1
  /\ traced' = IF Tracing THEN traced + 1 ELSE traced

\* The trace record and insns++.
Retires ==
  /\ insns' = insns + 1
  /\ traced' = IF ~replay_mode /\ Tracing THEN traced + 1 ELSE traced

\* Mutant: one instruction more than was asked for.
LimitReached_late == InsnLimit # 0 /\ insns' > InsnLimit

\* Option -l, looked at after insns++.
LimitReached == InsnLimit # 0 /\ insns' >= InsnLimit

emulate1 ==
  /\ loc = "exec" /\ ~MustRewind
  /\ LET r == Exec(pc, memory) IN
     /\ ~r.trap
     /\ pc' = r.pc /\ memory' = r.mem
  /\ Retires
  /\ IF LimitReached
       THEN loc' = "halted" /\ csock' = FALSE
       ELSE loc' = "top" /\ UNCHANGED csock
  /\ UNCHANGED <<debugVars, histVars, insnreplaylim, replay_mode, stepone,
                 ctrlc, reply>>

\* An illegal or unimplemented instruction, or a fetch outside flash; when it
\* is one that was to be skipped, the skip itself is done and counted.
emulate1Traps ==
  /\ loc = "exec" /\ ~MustRewind
  /\ LET r == Exec(pc, memory) IN
     /\ r.trap
     /\ IF r.done THEN Retires ELSE UNCHANGED counters
  /\ abort_nodump /\ UNCHANGED ctrlc

-----------------------------------------------------------------------------
(* gdbstub_interactive(): one action per command of gdb_disp.              *)

\* The part of the state no command but a resume command touches.
StaysStopped ==
  /\ loc = "interactive"
  /\ UNCHANGED <<loc, insns, traced, insnreplaylim, replay_mode, stepone, csock,
                 hungup, ctrlc, histVars>>

gdb_getregs ==
  /\ StaysStopped
  /\ reply' = [tag |-> "regs", regs |-> [c \in RegCells |-> memory[c]],
               pc |-> ToGdbPc(pc)]
  /\ UNCHANGED <<pc, memory, breakpoints>>

gdb_setregs(regs, b) ==
  /\ StaysStopped
  /\ FromGdbPc(b) < PcLimit
  /\ memory' = [c \in Cells |-> IF c \in RegCells THEN regs[c] ELSE memory[c]]
  /\ pc' = FromGdbPc(b)
  /\ reply' = Reply("OK")
  /\ UNCHANGED breakpoints

gdb_readmem(a) ==
  /\ StaysStopped
  /\ reply' = [tag |-> "mem", addr |-> a, val |-> FlashByte(a)]
  /\ UNCHANGED <<pc, memory, breakpoints>>

gdb_writemem(a, v) ==
  /\ StaysStopped
  /\ memory' = [memory EXCEPT ![DataCell(a)] = v]
  /\ reply' = Reply("OK")
  /\ UNCHANGED <<pc, breakpoints>>

gdb_addbreak(a) ==
  /\ StaysStopped
  /\ breakpoints' = breakpoints \cup {a}
  /\ reply' = Reply("OK")
  /\ UNCHANGED <<pc, memory>>

gdb_rembreak(a) ==
  /\ StaysStopped
  /\ breakpoints' = breakpoints \ {a}
  /\ reply' = Reply("OK")
  /\ UNCHANGED <<pc, memory>>

\* qAttached, qSupported, ?, Hg, Hc; and a command gdb_disp does not list,
\* which gets an empty reply.
gdb_conststring ==
  /\ StaysStopped
  /\ reply' \in {Reply("const"), Reply("empty")}
  /\ UNCHANGED <<pc, memory, breakpoints>>

\* What the resume commands share; n is 1 when a stop reply goes out at once.
Resume(n) ==
  /\ loc = "interactive" /\ resumes < MaxResumes
  /\ resumes' = resumes + 1 /\ stops' = stops + n
  /\ UNCHANGED <<cpuVars, debugVars, csock, ctrlc>>

gdb_continue ==
  /\ Resume(0)
  /\ loc' = "exec"
  /\ UNCHANGED <<insnreplaylim, replay_mode, stepone, reply, reversed>>

gdb_step ==
  /\ Resume(1)
  /\ loc' = "exec" /\ stepone' = TRUE /\ reply' = Reply("S05")
  /\ UNCHANGED <<insnreplaylim, replay_mode, reversed>>

\* Mutants: the start of the program is not looked for; the replay is to end
\* where it began.
CanStepBack_always == insns >= 0
ReplayTarget_here == insns

CanStepBack == insns > 0
ReplayTarget == insns - 1

gdb_bstep ==
  /\ Resume(1)
  /\ \/ /\ CanStepBack
        /\ replay_mode' = TRUE /\ insnreplaylim' = ReplayTarget
        /\ reply' = Reply("S05") /\ loc' = "exec" /\ reversed' = reversed + 1
     \/ /\ ~CanStepBack
        /\ reply' = Reply("begin")
        /\ UNCHANGED <<loc, replay_mode, insnreplaylim, reversed>>
  /\ UNCHANGED stepone

\* A PC of more than 16 bits in G, or arguments or a checksum sscanf cannot
\* read: the ASSERTs of the handlers and of gdb_cmd(); an M without its data
\* exits.
MalformedCommand ==
  /\ loc = "interactive"
  /\ \/ abort_nodump /\ UNCHANGED <<ctrlc, counters>>
     \/ exit

\* recv() returns 0 once the client has closed and all it sent was read, or
\* fails.
ClientDropped == loc = "interactive" /\ hungup /\ exit

\* send() to a client that is gone: ASSERT(wr > 0) in gdb_sendraw.
SendFails ==
  /\ csock /\ hungup
  /\ \/ loc = "interactive"
     \/ loc = "top" /\ ~ctrlc /\ ~replay_mode /\ ~stepone /\ pc \in breakpoints
  /\ abort_nodump /\ UNCHANGED <<ctrlc, counters>>

-----------------------------------------------------------------------------
Command ==
  \/ gdb_getregs
  \/ \E regs \in [RegCells -> GdbBytes], b \in GdbPcs : gdb_setregs(regs, b)
  \/ \E a \in MemAddrs : gdb_readmem(a) \/ \E v \in GdbBytes : gdb_writemem(a, v)
  \/ \E a \in BreakAddrs : gdb_addbreak(a) \/ gdb_rembreak(a)
  \/ gdb_conststring
  \/ gdb_continue \/ gdb_step \/ gdb_bstep
  \/ MalformedCommand

Environment == ctrlc_handler \/ InterruptedPoll \/ ClientHangsUp

\* Steps the emulator thread takes without waiting for anybody.
Run ==
  \/ GotCtrlC \/ EndReplay \/ LiveIteration \/ ReplayIteration
  \/ Rewind \/ emulate1 \/ emulate1Traps
  \/ ClientDropped

Exited == loc \in Terminal /\ UNCHANGED vars

Next == gdbstub_init \/ Run \/ SendFails \/ Command \/ Environment \/ Exited

Spec == Init /\ [][Next]_vars

\* The emulator thread is never descheduled for ever.  Nothing is assumed of
\* the client or of the user at the terminal.
FairSpec == Spec /\ WF_vars(Run)
-----------------------------------------------------------------------------
(* Properties.                                                             *)

\* The clock a client sees: a replay counts as finished when it is asked for.
Time == IF replay_mode THEN insnreplaylim ELSE insns

Phase ==
  CASE loc \in Terminal -> "gone"
    [] loc = "interactive" -> "stopped"
    [] loc = "accept" \/ (loc \in {"top", "exec"} /\ replay_mode)
         \/ (loc = "top" /\ stepone) -> "arriving"
    [] loc \in {"top", "exec"} /\ ~replay_mode /\ ~csock -> "free"
    [] loc = "exec" /\ ~replay_mode /\ csock -> IF stepone THEN "step" ELSE "ahead"
    [] OTHER -> "between"

Target == INSTANCE DebugTarget WITH phase <- Phase, time <- Time

\* The emulate() loop with the stub and its replay is a DebugTarget: s, bs
\* and c move the client's clock as they should and are answered once.
ImplementsTarget == Target!Spec

\* While the client has control every resume command it sent has been answered
\* by one stop reply; a stop reply is outstanding only while a c is running
\* (gdb_step and gdb_bstep answer at once, gdbstub_intr answers for c).
StopRepliesMatch ==
  /\ loc \in {"accept", "interactive"} => stops = resumes
  /\ loc \in {"top", "exec"} =>
       stops = IF csock /\ ~stepone /\ ~replay_mode THEN resumes - 1 ELSE resumes
  /\ stops \in {resumes - 1, resumes}

\* A replay never overshoots: at the loop head it has not passed its target,
\* so it ends with insns = insnreplaylim; and a replay about to execute is
\* either still to be rewound or strictly before its target.
ReplayOnCourse ==
  (replay_mode /\ loc \notin Terminal) =>
    /\ loc = "top" => insns <= insnreplaylim
    /\ loc = "exec" => insns # insnreplaylim
    /\ loc \in {"top", "exec"}

\* The trace file holds one record per instruction executed live and none for
\* a replayed one: its length is the client's clock plus the steps taken back.
TraceAccounts == Tracing => traced = Time + reversed

\* Option -l: the loop never goes round again once the limit is reached, in
\* replays either; and although init() takes the counter back to 0 under a
\* replay, the instructions run live in the whole session, each of which left
\* a trace record, are no more than the limit and one for each step back.
LimitRespected ==
  InsnLimit # 0 =>
    /\ insns <= InsnLimit
    /\ loc \notin Terminal => insns < InsnLimit
    /\ traced <= InsnLimit + reversed

\* A reverse step ends: the replay it starts reaches its target and gives
\* control back, or the process ends on the way.
ReplayEnds == replay_mode ~> (~replay_mode \/ loc \in Terminal)

\* ^C on a running program ends the process, also in the middle of a replay.
CtrlCEnds == (ctrlc /\ loc \in {"top", "exec"}) ~> loc \in Terminal

\* gdbstub.c:416 says "GDB expects byte-addressed fake PC": the PC at which a
\* breakpoint stops the program is, in GDB's terms, one the client asked for.
BreaksWhereAsked ==
  [][(loc = "top" /\ loc' = "interactive" /\ stops' # stops)
       => ToGdbPc(pc) \in breakpoints]_vars
=============================================================================
