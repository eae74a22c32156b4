----------------------------- MODULE MCSession ------------------------------
(***************************************************************************)
(* Sessions on a program that goes round three instructions, against a     *)
(* client that waits for nothing: it sends the next command before the     *)
(* last one is answered.                                                   *)
(***************************************************************************)
EXTENDS Session, MCAvrAsm

MCFlash == Image(<<<<NOP, NOP, RJMP(-3)>>>>)
MCPcs == 0..2
MCCells == {4, 95}
MCBytes == {0, 1}
MCDes(key, block, decrypt) == block

Core == INSTANCE AvrCore WITH DES_ecb_encrypt <- MCDes
Plain == [pc22 |-> FALSE, pc_mem_max_64k |-> FALSE, pc_mem_max_256b |-> FALSE]
\* What each instruction does but for memory, which none of the three touches.
ExecTable == [p \in MCPcs |-> Core!emulate1(Plain, MCFlash, p, [c \in MCCells |-> 0])]
MCExec(p, m) == [ExecTable[p] EXCEPT !.mem = m]

ASSUME StoresNothing ==
  \A p \in MCPcs, m \in [MCCells -> MCBytes] :
    MCExec(p, m) = Core!emulate1(Plain, MCFlash, p, m)

-----------------------------------------------------------------------------
(* The session as a client that waits for every answer sees it: the        *)
(* instructions run, the pc, register r4, whether a breakpoint is set,     *)
(* what was answered, and over once the process has ended: the program     *)
(* ran to its limit, or a checksum could not be read.  The client writes   *)
(* one pc and one byte, and reads the byte of flash where r4 is in memory. *)

Begun == [n |-> 0, pc |-> 0, r4 |-> 0, breaks |-> {}, said |-> <<>>, over |-> FALSE]

Says(s, r) == [s EXCEPT !.said = Append(@, r)]
Done(s)    == Says(s, Reply("OK"))

\* The program runs n instructions; the limit may end it.
Runs(s, n) ==
  [s EXCEPT !.n = @ + n, !.pc = (@ + n) % 3, !.over = s.n + n >= InsnLimit]

\* A reverse step runs it from the start.
RunsBack(s) == [s EXCEPT !.n = @ - 1, !.pc = (s.n - 1) % 3]

\* The instructions until the program is next at a breakpoint, or at its limit.
ToStop(s) ==
  CHOOSE n \in 1..InsnLimit :
    /\ s.n + n = InsnLimit \/ (s.pc + n) % 3 \in s.breaks
    /\ \A k \in 1..n - 1 : s.n + k # InsnLimit /\ (s.pc + k) % 3 \notin s.breaks

SetPc   == CHOOSE p \in MCPcs : 2 * p \in GdbPcs
SetByte == CHOOSE v \in GdbBytes : TRUE
CodeByte == MCFlash[2] % 256

AfterCommand(s, cmd) ==
  CASE cmd = "g"  -> Says(s, [tag |-> "regs", regs |-> [c \in RegCells |-> s.r4],
                              pc |-> 2 * s.pc])
    [] cmd = "G"  -> Done([s EXCEPT !.pc = SetPc, !.r4 = SetByte])
    [] cmd = "m"  -> Says(s, [tag |-> "mem", addr |-> 4, val |-> CodeByte])
    [] cmd = "M"  -> Done([s EXCEPT !.r4 = SetByte])
    [] cmd = "Z0" -> Done([s EXCEPT !.breaks = BreakAddrs])
    [] cmd = "z0" -> Done([s EXCEPT !.breaks = {}])
    [] cmd = "q"  -> Says(s, Reply("const"))
    [] cmd \in {"u", "headless"} -> Says(s, Reply("empty"))
    [] cmd = "s"  -> Says(Runs(s, 1), Reply("S05"))
    [] cmd = "bs" /\ s.n > 0 -> Says(RunsBack(s), Reply("S05"))
    [] cmd = "bs" /\ s.n = 0 -> Says(s, Reply("begin"))
    [] cmd = "c"  -> LET r == Runs(s, ToStop(s))
                     IN  IF r.over THEN r ELSE Says(r, Reply("S05"))
    [] cmd = "damaged" -> Says(s, Reply("NAK"))
    [] cmd = "unsummed" -> [s EXCEPT !.over = TRUE]
    [] cmd = "+"  -> s

After(cmds) ==
  FoldLeft(LAMBDA s, cmd : IF s.over THEN s ELSE AfterCommand(s, cmd), Begun, cmds)

-----------------------------------------------------------------------------
\* However the network cuts the client's bytes, however far the client is ahead
\* of the answers and whenever it hangs up, the answers it gets are those of a
\* client that sends one command at a time; and when the program is stopped it
\* is where that client would find it.  A c that is still running is the one
\* command whose answer may be outstanding.
SequentialTranscript ==
  \E k \in 0..Len(items) :
    LET ref == After(SubSeq(items, 1, k))
    IN  /\ consumed \o SubSeq(clientbuf, 1, bp) = Packet!Stream(SubSeq(items, 1, k))
        /\ \/ replies = ref.said
           \/ resumes # stops /\ items[k] = "c" /\ Append(replies, Reply("S05")) = ref.said
        /\ loc = "interactive" => <<insns, pc, memory[4]>> = <<ref.n, ref.pc, ref.r4>>

\* When packets arrive whole every command of the session is answered, or the
\* process has ended: the program ran to its limit, the client hung up, or a
\* packet could not be read.
SessionAnswered ==
  whole ~> \/ loc \in Terminal
           \/ consumed = Packet!Stream(items) /\ replies = After(items).said
=============================================================================
