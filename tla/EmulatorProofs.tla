--------------------------- MODULE EmulatorProofs ---------------------------
(***************************************************************************)
(* Proofs about Emulator for every processor, image, set of addresses,     *)
(* instruction limit and number of resume commands: its invariants, and    *)
(* that it implements DebugTarget.                                         *)
(***************************************************************************)
EXTENDS Emulator, TLAPS

\* Who has control, and which of the flags may be up meanwhile: a step or a
\* replay is only ever pending for a client, and never both at once.
Control ==
  /\ loc = "accept" => ~csock /\ ~stepone /\ ~replay_mode /\ insns = 0
  /\ loc = "interactive" => csock /\ ~stepone /\ ~replay_mode
  /\ loc \in {"top", "exec"} =>
       /\ replay_mode => csock /\ ~stepone
       /\ stepone => csock

IInv ==
  /\ TypeOK /\ Control
  /\ StopRepliesMatch /\ ReplayOnCourse /\ TraceAccounts /\ LimitRespected

\* The replies without arguments.
LEMMA PlainReply ==
  \A t \in {"none", "OK", "S05", "begin", "const", "empty"} : Reply(t) \in Replies
BY Zenon DEF Replies

\* The type invariant, by location, machine, and debugger state, so that a step
\* only has to look at what it changes.
LEMMA TypeInit == Init => TypeOK
<1> SUFFICES ASSUME Init PROVE TypeOK
  OBVIOUS
<1>1. pc \in Pcs /\ memory \in Memories
  BY ConstAssumption DEF Init, Memories
<1>2. reply \in Replies
  BY PlainReply DEF Init
<1>3. QED
  BY <1>1, <1>2 DEF Init, TypeOK, Locations

LEMMA TypeStep == TypeOK /\ [Next]_vars => TypeOK'
<1> SUFFICES ASSUME TypeOK, [Next]_vars PROVE TypeOK'
  OBVIOUS
<1> USE DEF TypeOK, Locations, Terminal, cpuVars, counters, debugVars, histVars
<1>1. CASE gdbstub_init
  BY <1>1 DEF gdbstub_init
<1>2. CASE GotCtrlC
  BY <1>2 DEF GotCtrlC, abort_nodump
<1>3. ASSUME NEW step \in BOOLEAN, gdbstub_intr(step),
             replay_mode' \in BOOLEAN, insnreplaylim' \in Nat
      PROVE  TypeOK'
  <2>1. stops' \in Nat
    BY <1>3 DEF gdbstub_intr
  <2>2. reply' \in Replies /\ loc' \in Locations /\ stepone' \in BOOLEAN
    BY <1>3, PlainReply, Zenon DEF gdbstub_intr
  <2>3. QED
    BY <1>3, <2>1, <2>2, Zenon DEF gdbstub_intr
<1>4. CASE EndReplay
  BY <1>3, <1>4 DEF EndReplay
<1>5. CASE LiveIteration
  BY <1>3, <1>5 DEF LiveIteration
<1>6. CASE ReplayIteration
  BY <1>6 DEF ReplayIteration
<1>7. CASE Rewind
  BY <1>7, ConstAssumption DEF Rewind
<1>8. CASE emulate1
  <2>1. Exec(pc, memory).pc \in Pcs /\ Exec(pc, memory).mem \in Memories
    BY ExecAssumption
  <2>2. insns' \in Nat /\ traced' \in Nat
    BY <1>8 DEF emulate1, Retires
  <2>3. csock' \in BOOLEAN /\ loc' \in Locations
    BY <1>8, Zenon DEF emulate1, Retires
  <2>4. pc' \in Pcs /\ memory' \in Memories
    BY <1>8, <2>1, Zenon DEF emulate1, Retires
  <2>5. QED
    BY <1>8, <2>2, <2>3, <2>4, Zenon DEF emulate1, Retires
<1>9. CASE emulate1Traps
  <2>1. insns' \in Nat /\ traced' \in Nat
    BY <1>9 DEF emulate1Traps, Retires
  <2>2. QED
    BY <1>9, <2>1, Zenon DEF emulate1Traps, abort_nodump
<1>10. CASE ClientDropped
  BY <1>10 DEF ClientDropped, exit
<1>11. CASE SendFails
  BY <1>11 DEF SendFails, abort_nodump
<1>12. CASE Environment
  BY <1>12 DEF Environment, ctrlc_handler, InterruptedPoll, ClientHangsUp,
               abort_nodump
<1>13. CASE Command
  <2> USE DEF StaysStopped
  <2>1. CASE gdb_getregs
    <3>1. reply' \in [tag : {"regs"}, regs : [RegCells -> Bytes],
                      pc : {ToGdbPc(p) : p \in Pcs}]
      BY <2>1, ConstAssumption DEF gdb_getregs, Memories
    <3>2. reply' \in Replies
      BY <3>1 DEF Replies
    <3>3. QED
      BY <2>1, <3>2 DEF gdb_getregs
  <2>2. ASSUME NEW regs \in [RegCells -> GdbBytes], NEW b \in GdbPcs,
               gdb_setregs(regs, b)
        PROVE  TypeOK'
    <3>1. pc' \in Pcs /\ memory' \in Memories
      BY <2>2, ConstAssumption DEF gdb_setregs, FromGdbPc, Memories
    <3>2. QED
      BY <2>2, <3>1, PlainReply DEF gdb_setregs
  <2>3. ASSUME NEW a \in MemAddrs, gdb_readmem(a) PROVE TypeOK'
    <3>1. reply' \in [tag : {"mem"}, addr : MemAddrs,
                      val : {FlashByte(x) : x \in MemAddrs}]
      BY <2>3 DEF gdb_readmem
    <3>2. reply' \in Replies
      BY <3>1 DEF Replies
    <3>3. QED
      BY <2>3, <3>2 DEF gdb_readmem
  <2>4. ASSUME NEW a \in MemAddrs, NEW v \in GdbBytes, gdb_writemem(a, v)
        PROVE  TypeOK'
    <3>1. memory' \in Memories
      BY <2>4, ConstAssumption DEF gdb_writemem, DataCell, Memories
    <3>2. QED
      BY <2>4, <3>1, PlainReply DEF gdb_writemem
  <2>5. ASSUME NEW a \in BreakAddrs, gdb_addbreak(a) \/ gdb_rembreak(a)
        PROVE  TypeOK'
    BY <2>5, PlainReply DEF gdb_addbreak, gdb_rembreak
  <2>6. CASE gdb_conststring
    BY <2>6, PlainReply DEF gdb_conststring
  <2>7. CASE gdb_continue \/ gdb_step
    <3>1. resumes' \in Nat /\ stops' \in Nat
      BY <2>7 DEF gdb_continue, gdb_step, Resume
    <3>2. reply' \in Replies /\ stepone' \in BOOLEAN
      BY <2>7, PlainReply, Zenon DEF gdb_continue, gdb_step
    <3>3. QED
      BY <2>7, <3>1, <3>2, Zenon DEF gdb_continue, gdb_step, Resume
  <2>8. CASE gdb_bstep
    <3>1. resumes' \in Nat /\ stops' \in Nat
      BY <2>8 DEF gdb_bstep, CanStepBack, ReplayTarget, Resume
    <3>2. insnreplaylim' \in Nat /\ reversed' \in Nat
      BY <2>8 DEF gdb_bstep, CanStepBack, ReplayTarget, Resume
    <3>3. reply' \in Replies /\ loc' \in Locations /\ replay_mode' \in BOOLEAN
      BY <2>8, PlainReply, Zenon DEF gdb_bstep
    <3>4. QED
      BY <2>8, <3>1, <3>2, <3>3, Zenon DEF gdb_bstep, CanStepBack, ReplayTarget, Resume
  <2>9. CASE MalformedCommand
    BY <2>9 DEF MalformedCommand, abort_nodump, exit
  <2>10. QED
    BY <1>13, <2>1, <2>2, <2>3, <2>4, <2>5, <2>6, <2>7, <2>8, <2>9 DEF Command
<1>14. CASE Exited \/ UNCHANGED vars
  BY <1>14 DEF Exited, vars
<1>15. QED
  BY <1>1, <1>2, <1>4, <1>5, <1>6, <1>7, <1>8, <1>9, <1>10, <1>11, <1>12, <1>13,
     <1>14 DEF Next, Run

\* No step breaks the discipline of the flags.
LEMMA ControlStep == TypeOK /\ Control /\ [Next]_vars => Control'
<1> SUFFICES ASSUME TypeOK, Control, [Next]_vars PROVE Control'
  OBVIOUS
<1> USE DEF Control, TypeOK, Terminal, cpuVars, counters, debugVars, histVars
<1>1. CASE gdbstub_init
  BY <1>1 DEF gdbstub_init
<1>2. CASE GotCtrlC \/ emulate1Traps \/ SendFails
  BY <1>2 DEF GotCtrlC, emulate1Traps, Retires, SendFails, abort_nodump
<1>3. CASE EndReplay
  BY <1>3 DEF EndReplay, gdbstub_intr, ReplayDone
<1>4. CASE LiveIteration
  BY <1>4 DEF LiveIteration, gdbstub_intr
<1>5. CASE ReplayIteration
  BY <1>5 DEF ReplayIteration, ReplayDone
<1>6. CASE Rewind
  BY <1>6 DEF Rewind, MustRewind
<1>7. CASE emulate1
  BY <1>7 DEF emulate1, Retires, MustRewind
<1>8. CASE ClientDropped
  BY <1>8 DEF ClientDropped, exit
<1>9. CASE Environment
  BY <1>9 DEF Environment, ctrlc_handler, InterruptedPoll, ClientHangsUp,
              abort_nodump
<1>10. CASE Command
  <2>1. CASE StaysStopped
    BY <2>1 DEF StaysStopped
  <2>2. CASE gdb_continue \/ gdb_step
    BY <2>2 DEF gdb_continue, gdb_step, Resume
  <2>3. CASE gdb_bstep
    BY <2>3 DEF gdb_bstep, CanStepBack, ReplayTarget, Resume
  <2>4. CASE MalformedCommand
    BY <2>4 DEF MalformedCommand, abort_nodump, exit
  <2>5. QED
    BY <1>10, <2>1, <2>2, <2>3, <2>4 DEF Command, gdb_getregs, gdb_setregs,
       gdb_readmem, gdb_writemem, gdb_addbreak, gdb_rembreak, gdb_conststring
<1>11. CASE Exited \/ UNCHANGED vars
  BY <1>11 DEF Exited, vars
<1>12. QED
  BY <1>1, <1>2, <1>3, <1>4, <1>5, <1>6, <1>7, <1>8, <1>9, <1>10, <1>11
     DEF Next, Run

\* No step loses a stop reply or sends a second one.
LEMMA StopStep == TypeOK /\ Control /\ StopRepliesMatch /\ [Next]_vars => StopRepliesMatch'
<1> SUFFICES ASSUME TypeOK, Control, StopRepliesMatch, [Next]_vars PROVE StopRepliesMatch'
  OBVIOUS
<1> USE DEF Control, StopRepliesMatch, TypeOK, Terminal, cpuVars, counters, debugVars, histVars
<1>1. CASE gdbstub_init
  BY <1>1 DEF gdbstub_init
<1>2. CASE GotCtrlC \/ emulate1Traps \/ SendFails
  BY <1>2 DEF GotCtrlC, emulate1Traps, Retires, SendFails, abort_nodump
<1>3. CASE EndReplay
  BY <1>3 DEF EndReplay, gdbstub_intr, ReplayDone
<1>4. CASE LiveIteration
  BY <1>4 DEF LiveIteration, gdbstub_intr
<1>5. CASE ReplayIteration
  BY <1>5 DEF ReplayIteration, ReplayDone
<1>6. CASE Rewind
  BY <1>6 DEF Rewind, MustRewind
<1>7. CASE emulate1
  BY <1>7 DEF emulate1, Retires, MustRewind
<1>8. CASE ClientDropped
  BY <1>8 DEF ClientDropped, exit
<1>9. CASE Environment
  BY <1>9 DEF Environment, ctrlc_handler, InterruptedPoll, ClientHangsUp,
              abort_nodump
<1>10. CASE Command
  <2>1. CASE StaysStopped
    BY <2>1 DEF StaysStopped
  <2>2. CASE gdb_continue \/ gdb_step
    BY <2>2 DEF gdb_continue, gdb_step, Resume
  <2>3. CASE gdb_bstep
    BY <2>3 DEF gdb_bstep, CanStepBack, ReplayTarget, Resume
  <2>4. CASE MalformedCommand
    BY <2>4 DEF MalformedCommand, abort_nodump, exit
  <2>5. QED
    BY <1>10, <2>1, <2>2, <2>3, <2>4 DEF Command, gdb_getregs, gdb_setregs,
       gdb_readmem, gdb_writemem, gdb_addbreak, gdb_rembreak, gdb_conststring
<1>11. CASE Exited \/ UNCHANGED vars
  BY <1>11 DEF Exited, vars
<1>12. QED
  BY <1>1, <1>2, <1>3, <1>4, <1>5, <1>6, <1>7, <1>8, <1>9, <1>10, <1>11
     DEF Next, Run

\* No step makes a replay overshoot.
LEMMA ReplayStep == TypeOK /\ Control /\ ReplayOnCourse /\ [Next]_vars => ReplayOnCourse'
<1> SUFFICES ASSUME TypeOK, Control, ReplayOnCourse, [Next]_vars PROVE ReplayOnCourse'
  OBVIOUS
<1> USE DEF Control, ReplayOnCourse, TypeOK, Terminal, cpuVars, counters, debugVars, histVars
<1>1. CASE gdbstub_init
  BY <1>1 DEF gdbstub_init
<1>2. CASE GotCtrlC \/ emulate1Traps \/ SendFails
  BY <1>2 DEF GotCtrlC, emulate1Traps, Retires, SendFails, abort_nodump
<1>3. CASE EndReplay
  BY <1>3 DEF EndReplay, gdbstub_intr, ReplayDone
<1>4. CASE LiveIteration
  BY <1>4 DEF LiveIteration, gdbstub_intr
<1>5. CASE ReplayIteration
  BY <1>5 DEF ReplayIteration, ReplayDone
<1>6. CASE Rewind
  BY <1>6 DEF Rewind, MustRewind
<1>7. CASE emulate1
  <2>1. insns' = insns + 1 /\ insnreplaylim' = insnreplaylim
    BY <1>7 DEF emulate1, Retires
  <2>2. replay_mode => insns <= insnreplaylim /\ insns # insnreplaylim
    BY <1>7 DEF emulate1, Retires, MustRewind
  <2>3. loc' \in {"top", "halted"} /\ replay_mode' = replay_mode
    BY <1>7 DEF emulate1, Retires
  <2>4. QED
    BY <2>1, <2>2, <2>3
<1>8. CASE ClientDropped
  BY <1>8 DEF ClientDropped, exit
<1>9. CASE Environment
  BY <1>9 DEF Environment, ctrlc_handler, InterruptedPoll, ClientHangsUp,
              abort_nodump
<1>10. CASE Command
  <2>1. CASE StaysStopped
    BY <2>1 DEF StaysStopped
  <2>2. CASE gdb_continue \/ gdb_step
    BY <2>2 DEF gdb_continue, gdb_step, Resume
  <2>3. CASE gdb_bstep
    <3>1. CASE insns > 0
      <4>1. insnreplaylim' = insns - 1 /\ insns' = insns /\ loc' = "exec"
        BY <2>3, <3>1 DEF gdb_bstep, CanStepBack, ReplayTarget, Resume
      <4>2. QED
        BY <4>1
    <3>2. CASE ~(insns > 0)
      BY <2>3, <3>2 DEF gdb_bstep, CanStepBack, ReplayTarget, Resume
    <3>3. QED
      BY <3>1, <3>2
  <2>4. CASE MalformedCommand
    BY <2>4 DEF MalformedCommand, abort_nodump, exit
  <2>5. QED
    BY <1>10, <2>1, <2>2, <2>3, <2>4 DEF Command, gdb_getregs, gdb_setregs,
       gdb_readmem, gdb_writemem, gdb_addbreak, gdb_rembreak, gdb_conststring
<1>11. CASE Exited \/ UNCHANGED vars
  BY <1>11 DEF Exited, vars
<1>12. QED
  BY <1>1, <1>2, <1>3, <1>4, <1>5, <1>6, <1>7, <1>8, <1>9, <1>10, <1>11
     DEF Next, Run

\* Every step keeps the trace file in step with the client's clock.
LEMMA TraceStep == TypeOK /\ Control /\ ReplayOnCourse /\ TraceAccounts /\ [Next]_vars => TraceAccounts'
<1> SUFFICES ASSUME TypeOK, Control, ReplayOnCourse, TraceAccounts, [Next]_vars PROVE TraceAccounts'
  OBVIOUS
<1> USE DEF Control, ReplayOnCourse, TraceAccounts, Time, TypeOK, Terminal, cpuVars, counters, debugVars, histVars
<1>1. CASE gdbstub_init
  BY <1>1 DEF gdbstub_init
<1>2. CASE GotCtrlC \/ emulate1Traps \/ SendFails
  BY <1>2 DEF GotCtrlC, emulate1Traps, Retires, SendFails, abort_nodump
<1>3. CASE EndReplay
  BY <1>3 DEF EndReplay, gdbstub_intr, ReplayDone
<1>4. CASE LiveIteration
  BY <1>4 DEF LiveIteration, gdbstub_intr
<1>5. CASE ReplayIteration
  BY <1>5 DEF ReplayIteration, ReplayDone
<1>6. CASE Rewind
  BY <1>6 DEF Rewind, MustRewind
<1>7. CASE emulate1
  BY <1>7 DEF emulate1, Retires, MustRewind
<1>8. CASE ClientDropped
  BY <1>8 DEF ClientDropped, exit
<1>9. CASE Environment
  BY <1>9 DEF Environment, ctrlc_handler, InterruptedPoll, ClientHangsUp,
              abort_nodump
<1>10. CASE Command
  <2>1. CASE StaysStopped
    BY <2>1 DEF StaysStopped
  <2>2. CASE gdb_continue \/ gdb_step
    BY <2>2 DEF gdb_continue, gdb_step, Resume
  <2>3. CASE gdb_bstep
    BY <2>3 DEF gdb_bstep, CanStepBack, ReplayTarget, Resume
  <2>4. CASE MalformedCommand
    <3>1. UNCHANGED <<insns, traced, insnreplaylim, replay_mode, reversed>>
      BY <2>4 DEF MalformedCommand, abort_nodump, exit
    <3>2. QED
      BY <3>1
  <2>5. QED
    BY <1>10, <2>1, <2>2, <2>3, <2>4 DEF Command, gdb_getregs, gdb_setregs,
       gdb_readmem, gdb_writemem, gdb_addbreak, gdb_rembreak, gdb_conststring
<1>11. CASE Exited \/ UNCHANGED vars
  BY <1>11 DEF Exited, vars
<1>12. QED
  BY <1>1, <1>2, <1>3, <1>4, <1>5, <1>6, <1>7, <1>8, <1>9, <1>10, <1>11
     DEF Next, Run

\* What LimitStep needs of sums.
LEMMA SumAtMost ==
  /\ \A x, y, z \in Nat : x <= y => x + z <= y + z
  /\ \A x, y, z \in Nat : x <= y + z => x <= y + (z + 1)
OBVIOUS

\* No step runs past the instruction limit.  Of the records in the trace file
\* only the one of a live instruction is new, and TraceAccounts says how many
\* there are then.
LEMMA LimitStep ==
  TypeOK /\ TypeOK' /\ Control /\ TraceAccounts' /\ LimitRespected /\ [Next]_vars
    => LimitRespected'
<1> SUFFICES ASSUME TypeOK, TypeOK', Control, TraceAccounts', LimitRespected, [Next]_vars
             PROVE  LimitRespected'
  OBVIOUS
<1>0. InsnLimit \in Nat
  BY ConstAssumption
<1>a. insns' \in Nat /\ reversed \in Nat /\ traced \in Nat /\ reversed' \in Nat
  BY DEF TypeOK
<1> USE DEF Control, LimitRespected, TypeOK, Terminal, cpuVars, counters, debugVars, histVars
<1>1. CASE gdbstub_init
  BY <1>1 DEF gdbstub_init
<1>2. CASE GotCtrlC \/ emulate1Traps \/ SendFails
  <2>1. InsnLimit # 0 => insns' <= InsnLimit /\ loc' \in Terminal
    BY <1>2, ConstAssumption DEF GotCtrlC, emulate1Traps, Retires, SendFails,
       abort_nodump
  <2>2. /\ UNCHANGED <<reversed, replay_mode>>
        /\ traced' = traced \/ (Tracing /\ ~replay_mode)
    BY <1>2, Zenon DEF GotCtrlC, emulate1Traps, Retires, SendFails, abort_nodump
  <2>3. CASE traced' = traced
    BY <2>1, <2>2, <2>3
  <2>4. CASE Tracing /\ ~replay_mode
    <3>1. traced' = insns' + reversed'
      BY <2>2, <2>4, Zenon DEF TraceAccounts, Time
    <3>2. InsnLimit # 0 => traced' <= InsnLimit + reversed'
      BY ONLY <1>0, <1>a, <2>1, <3>1, SumAtMost, Zenon
    <3>3. QED
      BY <2>1, <3>2, Zenon
  <2>5. QED
    BY <2>2, <2>3, <2>4
<1>3. CASE EndReplay
  BY <1>3 DEF EndReplay, gdbstub_intr, ReplayDone
<1>4. CASE LiveIteration
  BY <1>4 DEF LiveIteration, gdbstub_intr
<1>5. CASE ReplayIteration
  BY <1>5 DEF ReplayIteration, ReplayDone
<1>6. CASE Rewind
  BY <1>6, ConstAssumption DEF Rewind, MustRewind
<1>7. CASE emulate1
  <2>1. InsnLimit # 0 => insns' <= InsnLimit /\ (loc' \notin Terminal => insns' < InsnLimit)
    BY <1>7, ConstAssumption DEF emulate1, Retires, LimitReached, MustRewind
  <2>2. InsnLimit # 0 => traced' <= InsnLimit + reversed'
    BY <1>7, <2>1, ConstAssumption DEF emulate1, Retires, TraceAccounts, Time
  <2>3. QED
    BY <2>1, <2>2
<1>8. CASE ClientDropped
  BY <1>8 DEF ClientDropped, exit
<1>9. CASE Environment
  BY <1>9 DEF Environment, ctrlc_handler, InterruptedPoll, ClientHangsUp,
              abort_nodump
<1>10. CASE Command
  <2>1. CASE StaysStopped
    BY <2>1 DEF StaysStopped
  <2>2. CASE gdb_continue \/ gdb_step
    BY <2>2 DEF gdb_continue, gdb_step, Resume
  <2>3. CASE gdb_bstep
    <3>0. InsnLimit # 0 => traced <= InsnLimit + reversed
      BY DEF LimitRespected
    <3>1. UNCHANGED <<insns, traced>> /\ loc \notin Terminal
      BY <2>3, Zenon DEF gdb_bstep, Resume
    <3>2. reversed' \in {reversed, reversed + 1}
      BY <2>3, Zenon DEF gdb_bstep
    <3>3. InsnLimit # 0 => traced' <= InsnLimit + reversed'
      BY ONLY <1>0, <1>a, <3>0, <3>1, <3>2, SumAtMost, Zenon
    <3>4. QED
      BY <3>1, <3>3
  <2>4. CASE MalformedCommand
    BY <2>4 DEF MalformedCommand, abort_nodump, exit
  <2>5. QED
    BY <1>10, <2>1, <2>2, <2>3, <2>4 DEF Command, gdb_getregs, gdb_setregs,
       gdb_readmem, gdb_writemem, gdb_addbreak, gdb_rembreak, gdb_conststring
<1>11. CASE Exited \/ UNCHANGED vars
  BY <1>11 DEF Exited, vars
<1>12. QED
  BY <1>1, <1>2, <1>3, <1>4, <1>5, <1>6, <1>7, <1>8, <1>9, <1>10, <1>11
     DEF Next, Run

LEMMA InitIInv == Init => IInv
<1> SUFFICES ASSUME Init PROVE IInv
  OBVIOUS
<1>1. TypeOK
  BY TypeInit
<1>2. Control /\ StopRepliesMatch /\ ReplayOnCourse /\ TraceAccounts
  BY DEF Init, Control, StopRepliesMatch, ReplayOnCourse, TraceAccounts, Time
<1>3. LimitRespected
  BY ConstAssumption DEF Init, LimitRespected
<1>4. QED
  BY <1>1, <1>2, <1>3 DEF IInv

LEMMA StepIInv == IInv /\ [Next]_vars => IInv'
BY TypeStep, ControlStep, StopStep, ReplayStep, TraceStep, LimitStep DEF IInv

\* The inductive invariant: the flags are used as Control says and the five
\* properties below hold together, in every reachable state of emulate().
THEOREM Invariance == Spec => []IInv
BY InitIInv, StepIInv, PTL DEF Spec

\* Type correctness: whatever the client, the user and the program do, the
\* variables of main.c and gdbstub.c keep their types; insnreplaylim, which
\* gdb_bstep computes as insns - 1, is never negative.
THEOREM TypeCorrect == Spec => []TypeOK
BY Invariance, PTL DEF IInv

\* Every c, s and bs is answered by exactly one stop reply, for every program
\* and every set of breakpoints (gdb_step, gdb_bstep and gdbstub_intr).
THEOREM StopRepliesCorrect == Spec => []StopRepliesMatch
BY Invariance, PTL DEF IInv

\* A replay stops at exactly the instruction gdb_bstep aimed at.
THEOREM ReplayCorrect == Spec => []ReplayOnCourse
BY Invariance, PTL DEF IInv

\* The trace file holds exactly the instructions executed live (emulate1).
THEOREM TraceCorrect == Spec => []TraceAccounts
BY Invariance, PTL DEF IInv

\* Option -l is respected whatever mixture of steps, continues and replays
\* the client asks for (the end of the loop of emulate()).
THEOREM LimitCorrect == Spec => []LimitRespected
BY Invariance, PTL DEF IInv

-----------------------------------------------------------------------------
(* Refinement.                                                             *)

LEMMA StartsAsTarget == Init => Target!Start
BY DEF Init, Target!Start, Phase, Time, Terminal

\* Every step of the emulator is a step of a debug target or is invisible to
\* the client; so is every step of a replay.
LEMMA StepsAsTarget ==
  IInv /\ [Next]_vars => [Target!Act]_(Target!tvars)
<1> SUFFICES ASSUME IInv, [Next]_vars
             PROVE  Target!Act \/ UNCHANGED <<Phase, Time, resumes, stops>>
  BY DEF Target!tvars
<1> USE DEF IInv, TypeOK, Locations, Terminal, Control, Phase, Time, cpuVars,
            counters, debugVars, histVars
<1>1. CASE gdbstub_init
  BY <1>1 DEF gdbstub_init
<1>2. CASE GotCtrlC \/ SendFails \/ InterruptedPoll \/ MalformedCommand
  <2>1. Target!Quit
    BY <1>2 DEF GotCtrlC, SendFails, InterruptedPoll, MalformedCommand,
       abort_nodump, exit, Target!Quit
  <2>2. QED
    BY <2>1 DEF Target!Act
<1>3. CASE EndReplay
  <2>1. Target!Arrive
    BY <1>3 DEF EndReplay, gdbstub_intr, ReplayDone, ReplayOnCourse,
       Target!Arrive
  <2>2. QED
    BY <2>1 DEF Target!Act
<1>4. CASE LiveIteration
  <2>1. CASE ~csock
    BY <1>4, <2>1 DEF LiveIteration, gdbstub_intr
  <2>2. CASE csock /\ stepone
    <3>1. Target!Arrive
      BY <1>4, <2>2 DEF LiveIteration, gdbstub_intr, Target!Arrive
    <3>2. QED
      BY <3>1 DEF Target!Act
  <2>3. CASE csock /\ ~stepone /\ pc \in breakpoints
    <3>1. Target!Break
      BY <1>4, <2>3 DEF LiveIteration, gdbstub_intr, Target!Break
    <3>2. QED
      BY <3>1 DEF Target!Act
  <2>4. CASE csock /\ ~stepone /\ pc \notin breakpoints
    <3>1. Target!PassBy
      BY <1>4, <2>4 DEF LiveIteration, gdbstub_intr, Target!PassBy
    <3>2. QED
      BY <3>1 DEF Target!Act
  <2>5. QED
    BY <2>1, <2>2, <2>3, <2>4
<1>5. CASE ReplayIteration
  BY <1>5 DEF ReplayIteration
<1>6. CASE Rewind
  BY <1>6 DEF Rewind, MustRewind
<1>7. CASE emulate1
  <2>1. CASE replay_mode /\ loc' = "top"
    BY <1>7, <2>1 DEF emulate1, Retires
  <2>2. CASE replay_mode /\ loc' = "halted"
    <3>1. Target!Quit
      BY <1>7, <2>2 DEF emulate1, Retires, Target!Quit
    <3>2. QED
      BY <3>1 DEF Target!Act
  <2>3. CASE ~replay_mode
    <3>1. Target!Tick
      BY <1>7, <2>3 DEF emulate1, Retires, Target!Tick
    <3>2. QED
      BY <3>1 DEF Target!Act
  <2>4. QED
    BY <1>7, <2>1, <2>2, <2>3 DEF emulate1, Retires
<1>8. CASE emulate1Traps
  <2>1. CASE insns' = insns + 1 /\ ~replay_mode
    <3>1. Target!Tick
      BY <1>8, <2>1 DEF emulate1Traps, abort_nodump, Target!Tick
    <3>2. QED
      BY <3>1 DEF Target!Act
  <2>2. CASE insns' = insns \/ replay_mode
    <3>1. Target!Quit
      BY <1>8, <2>2 DEF emulate1Traps, abort_nodump, Target!Quit
    <3>2. QED
      BY <3>1 DEF Target!Act
  <2>3. QED
    BY <1>8, <2>1, <2>2 DEF emulate1Traps, Retires
<1>9. CASE ClientDropped
  <2>1. Target!Quit
    BY <1>9 DEF ClientDropped, exit, Target!Quit
  <2>2. QED
    BY <2>1 DEF Target!Act
<1>10. CASE ctrlc_handler \/ ClientHangsUp
  BY <1>10 DEF ctrlc_handler, ClientHangsUp
<1>11. CASE StaysStopped
  BY <1>11 DEF StaysStopped
<1>12. CASE gdb_continue
  <2>1. Target!Continue
    BY <1>12 DEF gdb_continue, Resume, Target!Continue
  <2>2. QED
    BY <2>1 DEF Target!Act
<1>13. CASE gdb_step
  <2>1. Target!Step
    BY <1>13 DEF gdb_step, Resume, Target!Step
  <2>2. QED
    BY <2>1 DEF Target!Act
<1>14. CASE gdb_bstep
  <2>1. Target!Back
    BY <1>14 DEF gdb_bstep, CanStepBack, ReplayTarget, Resume, Target!Back
  <2>2. QED
    BY <2>1 DEF Target!Act
<1>15. CASE Exited \/ UNCHANGED vars
  BY <1>15 DEF Exited, vars
<1>16. Next => \/ gdbstub_init \/ EndReplay \/ LiveIteration \/ ReplayIteration
               \/ GotCtrlC \/ emulate1Traps \/ SendFails \/ InterruptedPoll
               \/ MalformedCommand \/ Rewind \/ emulate1 \/ ClientDropped
               \/ ctrlc_handler \/ ClientHangsUp \/ StaysStopped
               \/ gdb_continue \/ gdb_step \/ gdb_bstep \/ Exited
  BY DEF Next, Run, Command, Environment, gdb_getregs, gdb_setregs,
     gdb_readmem, gdb_writemem, gdb_addbreak, gdb_rembreak, gdb_conststring
<1>17. QED
  BY <1>1, <1>2, <1>3, <1>4, <1>5, <1>6, <1>7, <1>9, <1>10, <1>11, <1>12, <1>13,
     <1>14, <1>15, <1>16, <1>8

\* The emulate() loop with the GDB stub implements DebugTarget: to a client the
\* rerun from the first instruction behind bs is one step back of the clock.
THEOREM Refinement == Spec => ImplementsTarget
<1>1. Init => Target!Start
  BY StartsAsTarget
<1>2. IInv /\ [Next]_vars => [Target!Act]_(Target!tvars)
  BY StepsAsTarget
<1>3. QED
  BY <1>1, <1>2, Invariance, PTL DEF Spec, ImplementsTarget, Target!Spec
=============================================================================
