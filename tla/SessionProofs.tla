---------------------------- MODULE SessionProofs ---------------------------
(***************************************************************************)
(* Proofs about Session: the byte stream only decides which command comes  *)
(* next, so all that is proved of Emulator holds of a session; the packet  *)
(* layer and the emulate() loop never both have control; every stop is on  *)
(* the connection once; and every packet is answered, in order.            *)
(***************************************************************************)
EXTENDS Session, EmulatorProofs, SeqLemmas

\* The framing of GdbPacketProofs, which does not depend on what commands do.
Framing == INSTANCE GdbPacketProofs

-----------------------------------------------------------------------------
(* A session is an emulator with a client.                                 *)

\* Every step of a session is a step of Emulator or one it does not see.
LEMMA SessionSteps == [SessionNext]_all => [Next]_vars
<1> SUFFICES ASSUME [SessionNext]_all PROVE Next \/ UNCHANGED vars
  OBVIOUS
<1>1. CASE UNCHANGED all
  BY <1>1 DEF all
<1>2. CASE Connect
  BY <1>2 DEF Connect, Next
<1>3. CASE Receiving \/ ClientSends \/ SessionExited
  BY <1>3 DEF Receiving, ClientSends, SessionExited, all
<1>4. CASE Drops
  BY <1>4 DEF Drops, Next, Run
<1>5. CASE Handled
  <2>1. CASE \E cmd \in Stationary : Serves(cmd)
    BY <2>1, Zenon DEF Serves, Next, Command
  <2>2. CASE ~ \E cmd \in Stationary : Serves(cmd)
    BY <1>5, <2>2, Zenon DEF Handled, Next, Command
  <2>3. QED
    BY <2>1, <2>2
<1>6. CASE Loop
  BY <1>6 DEF Loop, Next, Run
<1>7. CASE Unsent
  BY <1>7 DEF Unsent, Next
<1>8. CASE ClientLeaves
  BY <1>8 DEF ClientLeaves, Next, Environment
<1>9. CASE Malformed
  BY <1>9 DEF Malformed, Next, Command
<1>10. QED
  BY <1>1, <1>2, <1>3, <1>4, <1>5, <1>6, <1>7, <1>8, <1>9 DEF SessionNext, Program

\* Whatever bytes the client sends and however they arrive, a session shows no
\* behaviour of main.c and of the command handlers that Emulator does not have.
THEOREM SessionEmulates == SessionSpec => Spec
<1>1. SessionInit => Init
  BY DEF SessionInit
<1>2. QED
  BY <1>1, SessionSteps, PTL DEF SessionSpec, Spec

\* So the client of a session has a DebugTarget before it.
THEOREM SessionImplementsTarget == SessionSpec => ImplementsTarget
BY SessionEmulates, Refinement, PTL

-----------------------------------------------------------------------------
(* Who has control.                                                        *)

\* gdbstub_interactive() reads commands exactly when emulate() has called it; a
\* resume command that was taken has left the command loop, not yet the scan.
InStep ==
  /\ loc \in {"accept", "top"} => stage = "running"
  /\ loc = "interactive" => stage \in {"poll", "recv", "scan"} /\ ~execute
  /\ loc = "exec" => stage = "running" \/ (stage = "scan" /\ execute)
  /\ stage = "gone" => loc = "dropped"
  /\ stage = "aborted" => loc = "aborted"

\* The replies are replies.
Said == Replies \cup {Reply("NAK")}

SessionInv == IInv /\ InStep /\ replies \in Seq(Said) /\ execute \in BOOLEAN
                /\ StopsSent = stops

\* The handlers that leave the program stopped leave it so, and send no stop.
LEMMA ServesStays ==
  ASSUME NEW cmd \in Stationary, Serves(cmd)
  PROVE  StaysStopped /\ reply' \notin StopSigns /\ Suits(cmd, reply')
<1> USE DEF StopSigns, Reply, Suits, Stationary, Listed
<1>1. CASE cmd = "g" /\ gdb_getregs
  BY <1>1 DEF gdb_getregs
<1>2. CASE cmd = "G" /\ \E regs \in [RegCells -> GdbBytes], b \in GdbPcs : gdb_setregs(regs, b)
  BY <1>2 DEF gdb_setregs
<1>3. CASE cmd = "m" /\ \E a \in MemAddrs : gdb_readmem(a)
  BY <1>3 DEF gdb_readmem
<1>4. CASE cmd = "M" /\ \E a \in MemAddrs, v \in GdbBytes : gdb_writemem(a, v)
  BY <1>4 DEF gdb_writemem
<1>5. CASE cmd = "Z0" /\ \E a \in BreakAddrs : gdb_addbreak(a)
  BY <1>5 DEF gdb_addbreak
<1>6. CASE cmd = "z0" /\ \E a \in BreakAddrs : gdb_rembreak(a)
  BY <1>6 DEF gdb_rembreak
<1>7. CASE cmd = "q" /\ gdb_conststring /\ reply' = Reply("const")
  BY <1>7 DEF gdb_conststring
<1>8. QED
  BY <1>1, <1>2, <1>3, <1>4, <1>5, <1>6, <1>7, Zenon DEF Serves

\* A step of Malformed ends the process and answers nothing.
LEMMA MalformedEnds ==
  ASSUME Malformed
  PROVE  /\ loc = "interactive" /\ loc' \in {"aborted", "dropped"}
         /\ UNCHANGED <<execute, replies, resumes, stops, hungup>>
         /\ stage' = stage \/ (stage' = "aborted" /\ loc' = "aborted")
         /\ Packet!Aborts \/ UNCHANGED <<packetVars, hungup>>
<1>1. loc = "interactive" /\ loc' \in {"aborted", "dropped"}
      /\ UNCHANGED <<resumes, stops, hungup>>
  BY DEF Malformed, MalformedCommand, abort_nodump, exit, histVars, debugVars
<1>2. \/ Packet!Aborts /\ loc' = "aborted"
      \/ UNCHANGED packetVars
  BY DEF Malformed
<1>3. QED
  BY <1>1, <1>2 DEF Packet!Aborts, packetVars

\* Control passes from one to the other in single steps.
LEMMA InStepKept ==
  ASSUME IInv, InStep, execute \in BOOLEAN, [SessionNext]_all
  PROVE  InStep' /\ execute' \in BOOLEAN
<1> USE DEF InStep, IInv, TypeOK, Locations, Terminal
<1>1. CASE UNCHANGED all
  BY <1>1 DEF all, vars, packetVars
<1>2. CASE Connect
  BY <1>2 DEF Connect, gdbstub_init, packetVars
<1>3. CASE Receiving
  <2>1. UNCHANGED loc /\ loc \notin Terminal
    BY <1>3 DEF Receiving, vars
  <2>2. CASE Packet!Poll
    BY <2>1, <2>2 DEF Packet!Poll
  <2>3. CASE Packet!Recv
    BY <2>1, <2>3 DEF Packet!Recv, Packet!StartScan
  <2>4. CASE Packet!SkipSign
    BY <2>1, <2>4 DEF Packet!SkipSign
  <2>5. CASE Packet!Spin
    BY <2>1, <2>5 DEF Packet!Spin, Packet!vars, Packet!stub
  <2>6. CASE Packet!Compact
    BY <2>1, <2>6 DEF Packet!Compact
  <2>7. QED
    BY <1>3, <2>2, <2>3, <2>4, <2>5, <2>6 DEF Receiving
<1>4. CASE ClientSends
  BY <1>4 DEF ClientSends, Packet!Send, Packet!stub, vars
<1>5. CASE Drops
  BY <1>5 DEF Drops, Packet!Dropped, ClientDropped, exit
<1>6. CASE Handled
  <2>1. loc = "interactive" /\ stage = "scan" /\ UNCHANGED stage
    BY <1>6 DEF Handled, Answered, Packet!AtPacket, Packet!Scanning, Packet!gdb_cmd
  <2>2. CASE UNCHANGED vars /\ execute' = FALSE
    BY <2>1, <2>2 DEF vars
  <2>3. CASE StaysStopped /\ execute' = FALSE
    BY <2>1, <2>3 DEF StaysStopped
  <2>4. CASE loc' = "exec" /\ execute' = TRUE
    BY <2>1, <2>4
  <2>5. CASE gdb_bstep /\ execute' = CanStepBack
    <3>1. CASE CanStepBack
      <4>1. loc' = "exec" /\ execute' = TRUE
        BY <2>5, <3>1, Zenon DEF gdb_bstep
      <4>2. QED
        BY <2>1, <4>1
    <3>2. CASE ~CanStepBack
      <4>1. ~execute' /\ execute' \in BOOLEAN
        <5>1. CanStepBack \in BOOLEAN
          BY DEF CanStepBack
        <5>2. ~execute'
          BY <2>5, <3>2, Zenon
        <5>3. QED
          BY <2>5, <5>1, <5>2, Zenon
      <4>2. loc' = loc
        BY <2>5, <3>2 DEF gdb_bstep
      <4>3. QED
        BY <2>1, <4>1, <4>2
    <3>3. QED
      BY <3>1, <3>2
  <2>6. CASE \E cmd \in Stationary : Serves(cmd) /\ Answered(FALSE)
    BY <2>3, <2>6, ServesStays DEF Answered, Packet!gdb_cmd
  <2>7. CASE gdb_conststring /\ Answered(FALSE)
    BY <2>3, <2>7 DEF Answered, Packet!gdb_cmd, gdb_conststring
  <2>8. QED
    BY <1>6, <2>2, <2>4, <2>5, <2>6, <2>7 DEF Handled, Answered, Packet!gdb_cmd,
       gdb_step, gdb_continue
<1>7. CASE Loop
  <2>1. CASE LiveIteration \/ EndReplay
    <3>1. loc' = "interactive" \/ loc' = "exec"
      BY <2>1 DEF LiveIteration, EndReplay, gdbstub_intr
    <3>2. CASE loc' = "interactive"
      BY <1>7, <2>1, <3>2 DEF Loop, Packet!gdbstub_interactive, LiveIteration, EndReplay,
         ReplayIteration, Rewind, emulate1, emulate1Traps, abort_nodump
    <3>3. CASE loc' = "exec"
      BY <1>7, <2>1, <3>3 DEF Loop, packetVars
    <3>4. QED
      BY <3>1, <3>2, <3>3
  <2>2. CASE /\ ReplayIteration \/ Rewind \/ emulate1 \/ emulate1Traps
             /\ UNCHANGED packetVars
    BY <1>7, <2>2 DEF Loop, packetVars, ReplayIteration, Rewind, emulate1, emulate1Traps,
       abort_nodump
  <2>3. QED
    BY <1>7, <2>1, <2>2 DEF Loop
<1>8. CASE Unsent
  BY <1>8 DEF Unsent, SendFails, abort_nodump, packetVars
<1>9. CASE ClientLeaves
  BY <1>9 DEF ClientLeaves, ClientHangsUp, Packet!HangUp, Packet!stub
<1>10. CASE SessionExited
  BY <1>10 DEF SessionExited, all, vars, packetVars
<1>11. CASE Malformed
  BY <1>11, MalformedEnds
<1>12. QED
  BY <1>1, <1>2, <1>3, <1>4, <1>5, <1>6, <1>7, <1>8, <1>9, <1>10, <1>11
     DEF SessionNext, Program

-----------------------------------------------------------------------------
(* Stop replies.                                                           *)

\* One more reply counts if it is a stop.
LEMMA OneMore ==
  ASSUME replies \in Seq(Said), NEW x \in Said, replies' = replies \o <<x>>
  PROVE  /\ replies' \in Seq(Said)
         /\ StopsSent' = StopsSent + IF x \in StopSigns THEN 1 ELSE 0
<1>1. StopsSent' = Count(replies', StopSigns) /\ StopsSent = Count(replies, StopSigns)
  BY DEF StopsSent, Count, StopSigns, Reply
<1>2. Count(replies \o <<x>>, StopSigns)
        = Count(replies, StopSigns) + IF x \in StopSigns THEN 1 ELSE 0
  BY CountAppend
<1>3. QED
  BY <1>1, <1>2

\* No more replies, no more stops.
LEMMA NoMore ==
  ASSUME replies \in Seq(Said), replies' = replies \/ replies' = replies \o <<>>
  PROVE  replies' \in Seq(Said) /\ StopsSent' = StopsSent
<1>1. replies' = replies
  OBVIOUS
<1>2. QED
  BY <1>1, Zenon DEF StopsSent, StopSigns

\* A command that is answered, with its count.
LEMMA AnsweredCounts ==
  ASSUME SessionInv, TypeOK', replies' = replies \o <<reply'>>,
         stops' = stops + IF reply' \in StopSigns THEN 1 ELSE 0
  PROVE  replies' \in Seq(Said) /\ StopsSent' = stops'
<1>1. reply' \in Said /\ replies \in Seq(Said)
  BY Zenon DEF TypeOK, Said, SessionInv
<1>2. /\ StopsSent' = StopsSent + IF reply' \in StopSigns THEN 1 ELSE 0
      /\ replies' \in Seq(Said)
  BY <1>1, OneMore
<1>3. QED
  BY <1>2, Zenon DEF SessionInv

\* Each step sends the stop replies it counts.
LEMMA StopsKept ==
  ASSUME SessionInv, TypeOK', [SessionNext]_all
  PROVE  replies' \in Seq(Said) /\ StopsSent' = stops'
<1>1. replies \in Seq(Said) /\ StopsSent = stops /\ stops \in Nat
  BY DEF SessionInv, IInv, TypeOK
<1>2. ASSUME replies' = replies \/ replies' = replies \o <<>>, stops' = stops
      PROVE  replies' \in Seq(Said) /\ StopsSent' = stops'
  BY <1>1, <1>2, NoMore
<1>3. CASE UNCHANGED all
  BY <1>2, <1>3 DEF all, vars, packetVars
<1>4. CASE Connect
  BY <1>2, <1>4 DEF Connect, gdbstub_init, packetVars, histVars
<1>5. CASE Receiving
  <2>1. stops' = stops
    BY <1>5 DEF Receiving, vars
  <2>2. replies' = replies
    BY <1>5 DEF Receiving, Packet!Poll, Packet!Recv, Packet!StartScan, Packet!SkipSign,
       Packet!Spin, Packet!Compact, Packet!vars, Packet!stub
  <2>3. QED
    BY <1>2, <2>1, <2>2
<1>6. CASE ClientSends \/ SessionExited
  BY <1>2, <1>6 DEF ClientSends, SessionExited, Packet!Send, Packet!stub, all, vars, packetVars
<1>7. CASE Drops
  BY <1>2, <1>7 DEF Drops, Packet!Dropped, ClientDropped, exit, histVars
<1>8. CASE Handled
  <2>1. CASE replies' = replies \o <<Reply("NAK")>> /\ UNCHANGED vars
    <3>1. Reply("NAK") \in Said /\ Reply("NAK") \notin StopSigns
      BY DEF Said, StopSigns, Reply
    <3>2. StopsSent' = StopsSent + 0 /\ replies' \in Seq(Said) /\ stops' = stops
      BY <1>1, <2>1, <3>1, OneMore DEF vars
    <3>3. QED
      BY <1>1, <3>2
  <2>2. CASE replies' = replies \o <<reply'>> /\ \E cmd \in Stationary : Serves(cmd)
    <3>1. StaysStopped /\ reply' \notin StopSigns
      BY <2>2, ServesStays
    <3>2. stops' = stops + 0
      BY <1>1, <3>1 DEF StaysStopped, histVars
    <3>3. QED
      BY <2>2, <3>1, <3>2, AnsweredCounts
  <2>3. CASE replies' = replies \o <<reply'>> /\ gdb_conststring
    <3>1. reply' \notin StopSigns
      BY <2>3 DEF gdb_conststring, StopSigns, Reply
    <3>2. stops' = stops + 0
      BY <1>1, <2>3 DEF gdb_conststring, StaysStopped, histVars
    <3>3. QED
      BY <2>3, <3>1, <3>2, AnsweredCounts
  <2>4. CASE replies' = replies \o <<reply'>> /\ (gdb_step \/ gdb_bstep)
    <3>1. reply' \in StopSigns
      BY <2>4 DEF gdb_step, gdb_bstep, StopSigns
    <3>2. stops' = stops + 1
      BY <2>4 DEF gdb_step, gdb_bstep, Resume
    <3>3. QED
      BY <2>4, <3>1, <3>2, AnsweredCounts
  <2>5. CASE replies' = replies \o <<>> /\ gdb_continue
    <3>1. stops' = stops
      BY <1>1, <2>5 DEF gdb_continue, Resume
    <3>2. QED
      BY <1>2, <2>5, <3>1
  <2>6. QED
    BY <1>8, <2>1, <2>2, <2>3, <2>4, <2>5 DEF Handled, Answered, Packet!gdb_cmd
<1>9. CASE Loop
  <2>1. CASE LiveIteration \/ EndReplay
    <3>1. \/ stops' = stops
          \/ stops' = stops + 1 /\ reply' = Reply("S05") /\ loc' = "interactive"
      BY <2>1 DEF LiveIteration, EndReplay, gdbstub_intr
    <3>2. \/ UNCHANGED packetVars /\ loc' # "interactive"
          \/ Packet!gdbstub_interactive(IF stops' # stops THEN <<reply'>> ELSE <<>>)
          \/ UNCHANGED packetVars /\ UNCHANGED histVars
      BY <1>9, Zenon DEF Loop, ReplayIteration, Rewind, emulate1, emulate1Traps, abort_nodump
    <3>3. CASE stops' = stops
      BY <1>2, <3>2, <3>3 DEF packetVars, Packet!gdbstub_interactive
    <3>4. CASE stops' = stops + 1 /\ reply' = Reply("S05") /\ loc' = "interactive"
      <4>1. stops' # stops /\ reply' \in StopSigns
        BY <1>1, <3>4 DEF StopSigns
      <4>2. replies' = replies \o <<reply'>>
        BY <3>2, <3>4, <4>1 DEF Packet!gdbstub_interactive, histVars
      <4>3. QED
        BY <3>4, <4>1, <4>2, AnsweredCounts
    <3>5. QED
      BY <3>1, <3>3, <3>4
  <2>2. CASE /\ ReplayIteration \/ Rewind \/ emulate1 \/ emulate1Traps
             /\ UNCHANGED packetVars
    BY <1>2, <2>2 DEF packetVars, ReplayIteration, Rewind, emulate1, emulate1Traps,
       abort_nodump, histVars
  <2>3. QED
    BY <1>9, <2>1, <2>2 DEF Loop
<1>10. CASE Unsent
  BY <1>2, <1>10 DEF Unsent, SendFails, abort_nodump, packetVars, histVars
<1>11. CASE ClientLeaves
  BY <1>2, <1>11 DEF ClientLeaves, ClientHangsUp, Packet!HangUp, Packet!stub, histVars
<1>12. CASE Malformed
  BY <1>2, <1>12, MalformedEnds
<1>13. QED
  BY <1>3, <1>4, <1>5, <1>6, <1>7, <1>8, <1>9, <1>10, <1>11, <1>12
     DEF SessionNext, Program

-----------------------------------------------------------------------------
(* The framing, in a session.                                              *)

\* gdb_cmd() passes over one packet, and the command it takes is that packet's.
LEMMA PassesPacket ==
  ASSUME NEW n, Framing!Frame(n), NEW say, NEW go \in BOOLEAN, Packet!gdb_cmd(say, go)
  PROVE  /\ UNCHANGED items
         /\ \E m \in n + 1..Len(items) :
              /\ Framing!Frame(m)' /\ IsPacket(m)
              /\ \A k \in n + 1..m - 1 : ~IsPacket(k)
              /\ ~Packet!Checks /\ ~Packet!Unreadable => Spoilt(m)
              /\ Packet!Headless => items[m] = "headless" /\ ~Spoilt(m)
              /\ \A cmd : Packet!IsCommand(cmd) => items[m] = cmd /\ ~Spoilt(m)
<1>1. Framing!gdb_cmd(say, go)
  BY Zenon DEF Packet!gdb_cmd, Framing!gdb_cmd, Packet!AtPacket, Framing!AtPacket,
     Packet!Scanning, Framing!Scanning, Packet!Rest, Framing!Rest, Packet!AtSign,
     Framing!AtSign, Packet!Complete, Framing!Complete, Packet!pound, Framing!pound,
     Packet!PacketEnd, Framing!PacketEnd, Packet!Signs, Framing!Signs
<1>2. /\ Packet!Checks <=> Framing!Checks
      /\ Packet!Unreadable <=> Framing!Unreadable
      /\ Packet!Rest = Framing!Rest
  BY Zenon DEF Packet!Checks, Framing!Checks, Packet!Unreadable, Framing!Unreadable,
     Packet!Rest, Framing!Rest, Packet!pound, Framing!pound
<1>3. /\ \A cmd : Packet!IsCommand(cmd) => Framing!IsCommand(cmd) /\ Framing!Checks
      /\ Packet!Headless => Framing!Headless /\ Framing!Checks
  BY <1>2, Zenon DEF Packet!IsCommand, Framing!IsCommand, Packet!Headless, Framing!Headless
<1>4. Packet!Single = Framing!Single
  BY DEF Packet!Single, Framing!Single, Packet!Signs, Framing!Signs
<1>5. \A i : Spoilt(i) <=> Framing!Interrupted(items, i) \/ items[i] = "damaged"
  BY <1>4, Zenon DEF Spoilt, Packet!Interrupted, Framing!Interrupted
<1>6. "damaged" \notin Commands
  BY SessionAssumption DEF Packet!Broken
<1>7. /\ UNCHANGED items
      /\ \E m \in n + 1..Len(items) :
           /\ Framing!Frame(m)'
           /\ items[m] \in Framing!Items \ Framing!Single
           /\ \A k \in n + 1..m - 1 : items[k] \in Framing!Single
           /\ ~Framing!Checks => \/ Framing!Interrupted(items, m) \/ items[m] = "damaged"
                                 \/ items[m] = "unsummed" /\ Framing!Unreadable
           /\ Framing!Checks => ~Framing!Interrupted(items, m)
           /\ Framing!Headless => items[m] = "headless"
           /\ \A cmd : Framing!IsCommand(cmd) => items[m] = cmd /\ cmd \in Commands
  BY <1>1, Framing!FrameCommand, SessionAssumption DEF Packet!Single, Packet!Signs,
     Framing!Single, Framing!Signs, Packet!Broken, Framing!Broken
<1>8. "headless" # "damaged"
  OBVIOUS
<1>9. QED
  BY <1>2, <1>3, <1>4, <1>5, <1>6, <1>7, <1>8, Zenon DEF IsPacket

\* An acknowledgement is passed over.
LEMMA PassesSign ==
  ASSUME NEW n, Framing!Frame(n), Packet!SkipSign
  PROVE  Framing!Frame(n + 1)' /\ ~IsPacket(n + 1) /\ UNCHANGED <<items, replies>>
<1>1. Framing!SkipSign
  BY Zenon DEF Packet!SkipSign, Framing!SkipSign, Packet!Scanning, Framing!Scanning,
     Packet!Rest, Framing!Rest, Packet!AtSign, Framing!AtSign, Packet!Signs, Framing!Signs
<1>2. Framing!Frame(n + 1)' /\ items[n + 1] \in Framing!Signs /\ UNCHANGED <<items, replies>>
  BY <1>1, Framing!FrameSign, SessionAssumption DEF Packet!Single, Packet!Signs,
     Framing!Single, Framing!Signs, Packet!Broken, Framing!Broken
<1>3. QED
  BY <1>2 DEF IsPacket, Packet!Single, Packet!Signs, Framing!Signs

\* poll(), recv(), the memmove, and what leaves the packet layer as it is.
LEMMA PassesNothing ==
  ASSUME NEW n, Framing!Frame(n),
         \/ Packet!Poll \/ Packet!Recv \/ Packet!Compact \/ Packet!Spin
         \/ Packet!HangUp \/ Packet!Dropped \/ Packet!Aborts
         \/ \E say : Packet!gdbstub_interactive(say)
         \/ UNCHANGED <<packetVars, hungup>>
  PROVE  Framing!Frame(n)' /\ UNCHANGED items
<1> USE DEF Packet!Single, Packet!Signs, Framing!Single, Framing!Signs, Packet!Broken,
            Framing!Broken
<1>1. CASE Packet!Recv
  <2>1. Framing!Recv
    BY <1>1, Zenon DEF Packet!Recv, Framing!Recv, Packet!Received, Framing!Received,
       Packet!StartScan, Framing!StartScan, Packet!Stream, Framing!Stream,
       Packet!FlattenSeq, Framing!FlattenSeq, Packet!Encode, Framing!Encode
  <2>2. QED
    BY <2>1, Framing!FrameRecv, SessionAssumption
<1>2. CASE Packet!Compact
  <2>1. Framing!Compact
    BY <1>2, Zenon DEF Packet!Compact, Framing!Compact, Packet!ScanDone, Framing!ScanDone,
       Packet!Leftover, Framing!Leftover, Packet!Rest, Framing!Rest
  <2>2. QED
    BY <2>1, Framing!FrameCompact, SessionAssumption
<1>3. CASE ~Packet!Recv /\ ~Packet!Compact
  <2>1. \/ Framing!HangUp \/ Framing!Poll \/ Framing!Dropped \/ Framing!Aborts
        \/ (\E say : Framing!gdbstub_interactive(say)) \/ UNCHANGED Framing!vars
    BY <1>3, Zenon DEF Packet!HangUp, Framing!HangUp, Packet!Poll, Framing!Poll,
       Packet!Dropped, Framing!Dropped, Packet!gdbstub_interactive,
       Framing!gdbstub_interactive, Packet!Spin, Packet!vars, Framing!vars, Packet!stub,
       Framing!stub, packetVars, Packet!Aborts, Framing!Aborts, Packet!AtPacket,
       Framing!AtPacket, Packet!Unreadable, Framing!Unreadable, Packet!Rest, Framing!Rest,
       Packet!pound, Framing!pound, Packet!Scanning, Framing!Scanning, Packet!AtSign,
       Framing!AtSign, Packet!Complete, Framing!Complete
  <2>2. QED
    BY <2>1, Framing!FrameStays, SessionAssumption
<1>4. QED
  BY <1>1, <1>2, <1>3

\* The client sends one more item.
LEMMA SendsMore ==
  ASSUME NEW n, Framing!Frame(n), ClientSends
  PROVE  Framing!Frame(n)' /\ Agree(items, items', n) /\ n \in Nat
<1> USE DEF Packet!Single, Packet!Signs, Framing!Single, Framing!Signs, Packet!Broken,
            Framing!Broken
<1>1. PICK it \in Packet!Items : Packet!Send(it)
  BY DEF ClientSends
<1>2. Framing!Send(it) /\ it \in Framing!Items
  BY <1>1, Zenon DEF Packet!Send, Framing!Send, Packet!stub, Framing!stub, Packet!Encode,
     Framing!Encode, Packet!Items, Framing!Items
<1>3. Framing!Frame(n)' /\ Framing!Agree(items, items', n)
  BY <1>2, Framing!FrameSend, SessionAssumption
<1>4. n \in Nat
  BY DEF Framing!Frame
<1>5. QED
  BY <1>3, <1>4 DEF Agree, Framing!Agree

-----------------------------------------------------------------------------
(* Counting packets.                                                       *)

\* Packets are counted by naturals.
LEMMA OrdinalType ==
  ASSUME NEW n \in Nat
  PROVE  IsFiniteSet({j \in 1..n : IsPacket(j)}) /\ Ordinal(n) \in Nat
<1>1. IsFiniteSet(1..n)
  BY FS_Interval
<1>2. IsFiniteSet({j \in 1..n : IsPacket(j)})
  <2>1. {j \in 1..n : IsPacket(j)} \subseteq 1..n
    OBVIOUS
  <2>2. QED
    BY <1>1, <2>1, FS_Subset
<1>3. QED
  BY <1>2, FS_CardinalityType DEF Ordinal

\* Later packets have larger numbers.
LEMMA OrdinalUp ==
  ASSUME NEW i \in Nat, NEW n \in Nat, i <= n
  PROVE  Ordinal(i) <= Ordinal(n)
<1>1. {j \in 1..i : IsPacket(j)} \subseteq {j \in 1..n : IsPacket(j)}
  OBVIOUS
<1>2. QED
  BY <1>1, OrdinalType, FS_Subset DEF Ordinal

\* The next packet has the next number.
LEMMA OrdinalNext ==
  ASSUME NEW n \in Nat, NEW m \in Nat, n < m, \A k \in n + 1..m - 1 : ~IsPacket(k)
  PROVE  Ordinal(m) = Ordinal(n) + IF IsPacket(m) THEN 1 ELSE 0
<1> DEFINE S == {j \in 1..n : IsPacket(j)}
           T == {j \in 1..m : IsPacket(j)}
<1>1. \A j \in 1..m : j \in 1..n \/ j \in n + 1..m - 1 \/ j = m
  OBVIOUS
<1>2. m \in 1..m /\ m \notin 1..n /\ 1..n \subseteq 1..m
  OBVIOUS
<1>3. IsPacket(m) => T = S \cup {m} /\ m \notin S
  BY <1>1, <1>2, Zenon
<1>4. ~IsPacket(m) => T = S
  BY <1>1, <1>2, Zenon
<1>5. IsFiniteSet(S) /\ Ordinal(n) = Cardinality(S) /\ Cardinality(S) \in Nat
  BY OrdinalType DEF Ordinal
<1>6. Ordinal(m) = Cardinality(T)
  BY DEF Ordinal
<1> HIDE DEF S, T
<1>7. IsPacket(m) => Cardinality(T) = Cardinality(S) + 1
  BY <1>3, <1>5, FS_AddElement
<1>8. QED
  BY <1>4, <1>5, <1>6, <1>7

\* A packet is its own first.
LEMMA OrdinalPositive ==
  ASSUME NEW i \in Nat, 1 <= i, IsPacket(i)
  PROVE  Ordinal(i) \in Nat /\ 1 <= Ordinal(i)
<1>1. i - 1 \in Nat /\ i - 1 < i /\ \A k \in (i - 1) + 1..i - 1 : FALSE
  OBVIOUS
<1>2. Ordinal(i) = Ordinal(i - 1) + 1
  BY <1>1, OrdinalNext
<1>3. Ordinal(i - 1) \in Nat
  BY <1>1, OrdinalType, Zenon
<1>4. QED
  BY <1>2, <1>3

-----------------------------------------------------------------------------
(* Every packet is answered, in order.                                     *)

Answers(n) ==
  /\ Framing!Frame(n)
  /\ Len(replies) + (resumes - stops) = Ordinal(n)
  /\ \A i \in 1..n : IsPacket(i) => Settled(i)

\* What nobody disturbs.
LEMMA AnswersStay ==
  ASSUME NEW n, Answers(n), Framing!Frame(n)', UNCHANGED <<items, replies, resumes, stops>>
  PROVE  Answers(n)'
BY Zenon DEF Answers, Settled, Fits, Spoilt, Ordinal, IsPacket, Packet!Interrupted, StopSigns

\* A later item does not change what came before.
LEMMA AnswersAgree ==
  ASSUME NEW n \in Nat, Answers(n), Framing!Frame(n)', Agree(items, items', n),
         UNCHANGED <<replies, resumes, stops>>
  PROVE  Answers(n)'
<1>1. \A i \in 1..n : items'[i] = items[i]
  BY DEF Agree
<1>2. \A i \in 1..n : IsPacket(i)' <=> IsPacket(i)
  BY <1>1, Zenon DEF IsPacket, Packet!Single, Packet!Signs
<1>3. ASSUME NEW i \in Nat, i <= n PROVE Ordinal(i)' = Ordinal(i)
  <2>1. \A j \in 1..i : j \in 1..n
    BY <1>3
  <2>2. {j \in 1..i : IsPacket(j)'} = {j \in 1..i : IsPacket(j)}
    BY <1>2, <2>1, Zenon
  <2>3. QED
    BY <2>2, Zenon DEF Ordinal
<1>4. \A i \in 1..n : Spoilt(i)' <=> Spoilt(i)
  <2>1. \A i \in 1..n : \A j \in 1..i - 1 : j \in 1..n /\ \A k \in j..i - 1 : k \in 1..n
    OBVIOUS
  <2>2. \A i \in 1..n : Packet!Interrupted(items', i) <=> Packet!Interrupted(items, i)
    BY <1>1, <2>1, Zenon DEF Packet!Interrupted
  <2>3. QED
    BY <1>1, <2>2, Zenon DEF Spoilt, Packet!Interrupted, Packet!Single, Packet!Signs
<1>5. ASSUME NEW i \in 1..n, Settled(i) PROVE Settled(i)'
  <2>1. Ordinal(i)' = Ordinal(i)
    BY <1>3
  <2>2. QED
    BY <1>1, <1>4, <1>5, <2>1, Zenon DEF Settled, Fits
<1>6. Ordinal(n)' = Ordinal(n)
  BY <1>3
<1>7. QED
  BY <1>2, <1>5, <1>6, Zenon DEF Answers

\* One reply more, to the packet that had none.
LEMMA OneAnswer ==
  ASSUME NEW i \in Nat, 1 <= i, IsPacket(i), UNCHANGED items, replies \in Seq(Said),
         NEW x \in Said, replies' = replies \o <<x>>, Ordinal(i) <= Len(replies) + 1,
         Ordinal(i) <= Len(replies) => Settled(i),
         Ordinal(i) = Len(replies) + 1 => Fits(i, x)
  PROVE  Settled(i)'
<1>1. Ordinal(i) \in Nat /\ 1 <= Ordinal(i)
  BY OrdinalPositive
<1>2. Ordinal(i)' = Ordinal(i)
  BY Zenon DEF Ordinal, IsPacket, Packet!Single, Packet!Signs
<1>3. \A r : Fits(i, r)' <=> Fits(i, r)
  BY Zenon DEF Fits, Spoilt, Packet!Interrupted, Packet!Single, Packet!Signs
<1>4. Len(replies') = Len(replies) + 1 /\ replies'[Len(replies) + 1] = x
       /\ \A k \in 1..Len(replies) : replies'[k] = replies[k]
  OBVIOUS
<1>5. Ordinal(i) <= Len(replies')
  BY <1>4
<1>6. Fits(i, replies'[Ordinal(i)])
  <2>1. CASE Ordinal(i) <= Len(replies)
    <3>1. Fits(i, replies[Ordinal(i)])
      BY <2>1 DEF Settled
    <3>2. replies'[Ordinal(i)] = replies[Ordinal(i)]
      BY <1>1, <1>4, <2>1
    <3>3. QED
      BY <3>1, <3>2, Zenon
  <2>2. CASE Ordinal(i) = Len(replies) + 1
    BY <1>4, <2>2
  <2>3. QED
    BY <1>1, <2>1, <2>2
<1>7. QED
  BY <1>2, <1>3, <1>5, <1>6, Zenon DEF Settled

\* A packet that is answered where it is found.
LEMMA AnswersPacket ==
  ASSUME NEW n, Answers(n), replies \in Seq(Said), resumes = stops, resumes \in Nat,
         NEW x \in Said, NEW go \in BOOLEAN, Packet!gdb_cmd(<<x>>, go),
         resumes' = stops', resumes' \in Nat,
         \/ ~Packet!Checks /\ ~Packet!Unreadable /\ x = Reply("NAK")
         \/ \E cmd : Packet!IsCommand(cmd) /\ Suits(cmd, x)
         \/ Packet!Headless /\ Suits("headless", x)
  PROVE  \E m \in Nat : Answers(m)'
<1>1. UNCHANGED items /\ replies' = replies \o <<x>>
  BY PassesPacket DEF Packet!gdb_cmd, Answers
<1>2. PICK m \in n + 1..Len(items) :
        /\ Framing!Frame(m)' /\ IsPacket(m)
        /\ \A k \in n + 1..m - 1 : ~IsPacket(k)
        /\ ~Packet!Checks /\ ~Packet!Unreadable => Spoilt(m)
        /\ Packet!Headless => items[m] = "headless" /\ ~Spoilt(m)
        /\ \A cmd : Packet!IsCommand(cmd) => items[m] = cmd /\ ~Spoilt(m)
  BY PassesPacket DEF Answers
<1>3. n \in Nat /\ m \in Nat /\ n < m
  <2>1. n \in 0..Len(items)
    BY DEF Answers, Framing!Frame
  <2>2. QED
    BY <1>2, <2>1
<1>4. Ordinal(m) = Ordinal(n) + 1 /\ Ordinal(n) \in Nat
  BY <1>2, <1>3, OrdinalNext, OrdinalType
<1>5. Len(replies) = Ordinal(n) /\ \A i \in 1..n : IsPacket(i) => Settled(i)
  BY <1>4 DEF Answers
<1>6. Fits(m, x)
  BY <1>2, Zenon DEF Fits
<1>7. ASSUME NEW i \in 1..m, IsPacket(i) PROVE Settled(i)'
  <2>1. CASE i = m
    <3>1. Ordinal(m) = Len(replies) + 1
      BY <1>4, <1>5
    <3>2. m \in Nat /\ 1 <= m /\ Ordinal(m) <= Len(replies) + 1 /\ ~(Ordinal(m) <= Len(replies))
      BY <1>3, <1>4, <3>1
    <3>3. QED
      BY <1>1, <1>2, <1>6, <2>1, <3>1, <3>2, OneAnswer
  <2>2. CASE i # m
    <3>1. i \in 1..n /\ i \in Nat /\ 1 <= i /\ i <= n
      BY <1>2, <1>3, <1>7, <2>2
    <3>2. Ordinal(i) <= Ordinal(n) /\ Ordinal(i) \in Nat
      BY <1>3, <3>1, OrdinalUp, OrdinalType
    <3>3. Settled(i)
      BY <1>5, <1>7, <3>1
    <3>4. Ordinal(i) <= Len(replies) + 1 /\ Ordinal(i) # Len(replies) + 1
      BY <1>4, <1>5, <3>2
    <3>5. QED
      BY <1>1, <1>7, <3>1, <3>3, <3>4, OneAnswer
  <2>3. QED
    BY <2>1, <2>2
<1>8. Ordinal(m)' = Ordinal(m) /\ \A i \in 1..m : IsPacket(i)' <=> IsPacket(i)
  BY <1>1, Zenon DEF Ordinal, IsPacket, Packet!Single, Packet!Signs
<1>9. Len(replies') + (resumes' - stops') = Ordinal(m)
  <2>1. Len(replies') = Len(replies) + 1
    BY <1>1
  <2>2. QED
    BY <1>4, <1>5, <2>1
<1>10. Answers(m)'
  BY <1>2, <1>7, <1>8, <1>9, Zenon DEF Answers
<1>11. QED
  BY <1>3, <1>10

\* A c, which is not answered yet.
LEMMA AnswersLater ==
  ASSUME NEW n, Answers(n), replies \in Seq(Said), resumes = stops, resumes \in Nat,
         Packet!IsCommand("c"), Packet!gdb_cmd(<<>>, TRUE),
         resumes' = resumes + 1, stops' = stops
  PROVE  \E m \in Nat : Answers(m)'
<1>1. UNCHANGED <<items, replies>>
  <2>1. replies' = replies \o <<>> /\ replies \o <<>> = replies
    BY DEF Packet!gdb_cmd
  <2>2. QED
    BY <2>1, PassesPacket DEF Answers
<1>2. PICK m \in n + 1..Len(items) :
        /\ Framing!Frame(m)' /\ IsPacket(m)
        /\ \A k \in n + 1..m - 1 : ~IsPacket(k)
        /\ \A cmd : Packet!IsCommand(cmd) => items[m] = cmd /\ ~Spoilt(m)
  BY PassesPacket DEF Answers
<1>3. n \in Nat /\ m \in Nat /\ n < m
  <2>1. n \in 0..Len(items)
    BY DEF Answers, Framing!Frame
  <2>2. QED
    BY <1>2, <2>1
<1>4. Ordinal(m) = Ordinal(n) + 1 /\ Ordinal(n) \in Nat
  BY <1>2, <1>3, OrdinalNext, OrdinalType
<1>5. Len(replies) = Ordinal(n) /\ \A i \in 1..n : IsPacket(i) => Settled(i)
  BY <1>4 DEF Answers
<1>6. ~(Ordinal(m) <= Len(replies))
  BY <1>4, <1>5
<1>7. Settled(m)
  BY <1>2, <1>6, Zenon DEF Settled
<1>8. \A i \in 1..m : IsPacket(i) => Settled(i)
  <2>1. \A i \in 1..m : i \in 1..n \/ i \in n + 1..m - 1 \/ i = m
    BY <1>3
  <2>2. QED
    BY <1>2, <1>5, <1>7, <2>1, Zenon
<1>9. /\ Ordinal(m)' = Ordinal(m)
      /\ \A i \in 1..m : (IsPacket(i)' <=> IsPacket(i)) /\ (Settled(i)' <=> Settled(i))
  BY <1>1, Zenon DEF Settled, Fits, Spoilt, Ordinal, IsPacket, Packet!Interrupted,
     Packet!Single, Packet!Signs, StopSigns
<1>10. Len(replies') + (resumes' - stops') = Ordinal(m)
  BY <1>1, <1>4, <1>5
<1>11. Answers(m)'
  BY <1>2, <1>8, <1>9, <1>10, Zenon DEF Answers
<1>12. QED
  BY <1>3, <1>11

\* The stop of a c.
LEMMA AnswersStop ==
  ASSUME NEW n, Answers(n), replies \in Seq(Said), resumes \in Nat, stops \in Nat,
         resumes - stops \in {0, 1}, NEW x \in StopSigns, x \in Said,
         Packet!gdbstub_interactive(<<x>>), UNCHANGED resumes, stops' = stops + 1
  PROVE  Answers(n)'
<1>1. replies' = replies \o <<x>>
  BY DEF Packet!gdbstub_interactive
<1>2. Framing!Frame(n)' /\ UNCHANGED items
  BY PassesNothing DEF Answers
<1>3. n \in Nat
  BY DEF Answers, Framing!Frame
<1>4. /\ Len(replies) + (resumes - stops) = Ordinal(n) /\ Ordinal(n) \in Nat
      /\ \A i \in 1..n : IsPacket(i) => Settled(i)
  BY <1>3, OrdinalType DEF Answers
<1>5. ASSUME NEW i \in 1..n, IsPacket(i) PROVE Settled(i)'
  <2>1. i \in Nat /\ 1 <= i /\ i <= n
    BY <1>3
  <2>2. Ordinal(i) <= Ordinal(n) /\ Ordinal(i) \in Nat
    BY <1>3, <2>1, OrdinalUp, OrdinalType
  <2>3. Ordinal(i) <= Len(replies) + 1
    BY <1>4, <2>2
  <2>4. Settled(i)
    BY <1>4, <1>5
  <2>5. Ordinal(i) = Len(replies) + 1 => Fits(i, x)
    <3> SUFFICES ASSUME Ordinal(i) = Len(replies) + 1 PROVE Fits(i, x)
      OBVIOUS
    <3>1. ~(Ordinal(i) <= Len(replies))
      BY <2>2
    <3>2. items[i] = "c" /\ ~Spoilt(i)
      BY <2>4, <3>1, Zenon DEF Settled
    <3>3. QED
      BY <3>2 DEF Fits, Suits, Listed
  <2>6. QED
    BY <1>1, <1>2, <1>5, <2>1, <2>3, <2>4, <2>5, OneAnswer
<1>6. Ordinal(n)' = Ordinal(n) /\ \A i \in 1..n : IsPacket(i)' <=> IsPacket(i)
  BY <1>2, Zenon DEF Ordinal, IsPacket, Packet!Single, Packet!Signs
<1>7. Len(replies') + (resumes' - stops') = Ordinal(n)
  <2>1. Len(replies') = Len(replies) + 1
    BY <1>1
  <2>2. QED
    BY <1>4, <2>1
<1>8. QED
  BY <1>2, <1>5, <1>6, <1>7, Zenon DEF Answers

\* Each step answers the packet it takes.
LEMMA AnswersKept ==
  ASSUME SessionInv, TypeOK', NEW n, Answers(n), [SessionNext]_all
  PROVE  \E m \in Nat : Answers(m)'
<1>1. /\ replies \in Seq(Said) /\ resumes \in Nat /\ stops \in Nat /\ n \in Nat
      /\ Framing!Frame(n) /\ resumes - stops \in {0, 1}
      /\ loc = "interactive" => resumes = stops
  BY DEF SessionInv, IInv, TypeOK, StopRepliesMatch, Answers, Framing!Frame
<1>2. ASSUME Framing!Frame(n)', UNCHANGED <<items, replies, resumes, stops>>
      PROVE  \E m \in Nat : Answers(m)'
  BY <1>1, <1>2, AnswersStay
<1>3. ASSUME UNCHANGED <<packetVars, hungup, resumes, stops>>
      PROVE  \E m \in Nat : Answers(m)'
  <2>1. Framing!Frame(n)'
    BY <1>1, <1>3, PassesNothing
  <2>2. QED
    BY <1>2, <1>3, <2>1 DEF packetVars
<1>4. CASE UNCHANGED all \/ SessionExited
  BY <1>3, <1>4 DEF all, vars, SessionExited
<1>5. CASE Connect
  BY <1>3, <1>5 DEF Connect, gdbstub_init, histVars, debugVars
<1>6. CASE Receiving
  <2>1. UNCHANGED <<resumes, stops>>
    BY <1>6 DEF Receiving, vars
  <2>2. CASE Packet!SkipSign
    <3>1. Framing!Frame(n + 1)' /\ ~IsPacket(n + 1) /\ UNCHANGED <<items, replies>>
      BY <1>1, <2>2, PassesSign
    <3>2. Ordinal(n + 1) = Ordinal(n) + 0 /\ Ordinal(n) \in Nat
      <4>1. n + 1 \in Nat /\ n < n + 1 /\ \A k \in n + 1..(n + 1) - 1 : ~IsPacket(k)
        BY <1>1, <3>1
      <4>2. QED
        BY <1>1, <3>1, <4>1, OrdinalNext, OrdinalType
    <3>3. \A i \in 1..n + 1 : IsPacket(i) => Settled(i)
      <4>1. \A i \in 1..n + 1 : i \in 1..n \/ i = n + 1
        BY <1>1
      <4>2. QED
        BY <3>1, <4>1, Zenon DEF Answers
    <3>4. /\ Ordinal(n + 1)' = Ordinal(n + 1)
          /\ \A i \in 1..n + 1 : (IsPacket(i)' <=> IsPacket(i)) /\ (Settled(i)' <=> Settled(i))
      BY <3>1, Zenon DEF Settled, Fits, Spoilt, Ordinal, IsPacket, Packet!Interrupted,
         Packet!Single, Packet!Signs, StopSigns
    <3>5. Len(replies') + (resumes' - stops') = Ordinal(n + 1)
      BY <2>1, <3>1, <3>2 DEF Answers
    <3>6. Answers(n + 1)'
      BY <3>1, <3>3, <3>4, <3>5, Zenon DEF Answers
    <3>7. QED
      BY <1>1, <3>6
  <2>3. CASE Packet!Poll \/ Packet!Recv \/ Packet!Spin \/ Packet!Compact
    <3>1. Framing!Frame(n)' /\ UNCHANGED items
      BY <1>1, <2>3, PassesNothing
    <3>2. UNCHANGED replies
      BY <2>3 DEF Packet!Poll, Packet!Recv, Packet!StartScan, Packet!Spin, Packet!Compact,
         Packet!vars, Packet!stub
    <3>3. QED
      BY <1>2, <2>1, <3>1, <3>2
  <2>4. QED
    BY <1>6, <2>2, <2>3 DEF Receiving
<1>7. CASE ClientSends
  <2>1. Framing!Frame(n)' /\ Agree(items, items', n)
    BY <1>1, <1>7, SendsMore
  <2>2. UNCHANGED <<replies, resumes, stops>>
    BY <1>7 DEF ClientSends, Packet!Send, Packet!stub, vars
  <2>3. QED
    BY <1>1, <2>1, <2>2, AnswersAgree
<1>8. CASE Drops
  <2>1. Framing!Frame(n)' /\ UNCHANGED items
    BY <1>1, <1>8, PassesNothing DEF Drops
  <2>2. UNCHANGED <<replies, resumes, stops>>
    BY <1>8 DEF Drops, Packet!Dropped, ClientDropped, exit, histVars
  <2>3. QED
    BY <1>2, <2>1, <2>2
<1>9. CASE Handled
  <2>1. resumes = stops
    BY <1>1, <1>9 DEF Handled
  <2>2. reply' \in Said /\ resumes' \in Nat
    BY Zenon DEF TypeOK, Said
  <2>3. CASE /\ ~Packet!Checks /\ ~Packet!Unreadable
             /\ Packet!gdb_cmd(<<Reply("NAK")>>, FALSE) /\ UNCHANGED vars
    <3>1. Reply("NAK") \in Said /\ resumes' = stops'
      BY <2>1, <2>3 DEF Said, vars
    <3>2. QED
      BY <1>1, <2>1, <2>2, <2>3, <3>1, AnswersPacket
  <2>4. CASE \E cmd \in Stationary : Packet!IsCommand(cmd) /\ Serves(cmd) /\ Answered(FALSE)
    <3>1. PICK cmd \in Stationary : Packet!IsCommand(cmd) /\ Serves(cmd) /\ Answered(FALSE)
      BY <2>4
    <3>2. StaysStopped /\ Suits(cmd, reply')
      BY <3>1, ServesStays
    <3>3. resumes' = stops' /\ Packet!gdb_cmd(<<reply'>>, FALSE)
      BY <2>1, <3>1, <3>2 DEF StaysStopped, histVars, Answered
    <3>4. QED
      BY <1>1, <2>1, <2>2, <3>1, <3>2, <3>3, AnswersPacket
  <2>5. CASE /\ Unlisted /\ gdb_conststring /\ reply' = Reply("empty")
             /\ Answered(FALSE)
    <3>1. resumes' = stops' /\ Packet!gdb_cmd(<<reply'>>, FALSE)
      BY <2>1, <2>5 DEF gdb_conststring, StaysStopped, histVars, Answered
    <3>2. \A cmd : cmd \notin Listed => Suits(cmd, reply')
      BY <2>5 DEF Suits, Listed, Stationary
    <3>3. "headless" \notin Listed
      BY DEF Listed, Stationary
    <3>4. CASE Packet!Rest[1] = "$"
      <4>1. Packet!IsCommand(Packet!Rest[2])
        BY <2>5, <3>4, Zenon DEF Unlisted, Packet!IsCommand
      <4>2. Suits(Packet!Rest[2], reply')
        BY <2>5, <3>2, <4>1, Zenon DEF Unlisted
      <4>3. QED
        BY <1>1, <2>1, <2>2, <3>1, <4>1, <4>2, AnswersPacket
    <3>5. CASE Packet!Rest[1] # "$"
      <4>1. Packet!Headless /\ Suits("headless", reply')
        BY <2>5, <3>2, <3>3, <3>5, Zenon DEF Unlisted, Packet!Headless
      <4>2. QED
        BY <1>1, <2>1, <2>2, <3>1, <4>1, AnswersPacket
    <3>6. QED
      BY <3>4, <3>5
  <2>6. CASE Packet!IsCommand("s") /\ gdb_step /\ Answered(TRUE)
    <3>1. Suits("s", reply') /\ resumes' = stops' /\ Packet!gdb_cmd(<<reply'>>, TRUE)
      BY <2>1, <2>6 DEF gdb_step, Resume, Answered, StopSigns, Suits, Listed
    <3>2. QED
      BY <1>1, <2>1, <2>2, <2>6, <3>1, AnswersPacket
  <2>7. CASE Packet!IsCommand("bs") /\ gdb_bstep /\ Answered(CanStepBack)
    <3>1. Suits("bs", reply') /\ resumes' = stops'
      BY <2>1, <2>7 DEF gdb_bstep, Resume, StopSigns, Suits, Listed
    <3>2. Packet!gdb_cmd(<<reply'>>, CanStepBack) /\ CanStepBack \in BOOLEAN
      BY <2>7 DEF Answered, CanStepBack
    <3>3. QED
      BY <1>1, <2>1, <2>2, <2>7, <3>1, <3>2, AnswersPacket
  <2>8. CASE Packet!IsCommand("c") /\ gdb_continue /\ Packet!gdb_cmd(<<>>, TRUE)
    <3>1. resumes' = resumes + 1 /\ stops' = stops
      BY <1>1, <2>8 DEF gdb_continue, Resume
    <3>2. QED
      BY <1>1, <2>1, <2>8, <3>1, AnswersLater
  <2>9. QED
    BY <1>9, <2>3, <2>4, <2>5, <2>6, <2>7, <2>8 DEF Handled
<1>10. CASE Loop
  <2>1. CASE LiveIteration \/ EndReplay
    <3>1. UNCHANGED <<resumes, hungup>>
      BY <2>1 DEF LiveIteration, EndReplay, gdbstub_intr, debugVars
    <3>2. \/ stops' = stops
          \/ stops' = stops + 1 /\ reply' = Reply("S05") /\ loc' = "interactive"
      BY <2>1 DEF LiveIteration, EndReplay, gdbstub_intr
    <3>3. \/ UNCHANGED packetVars /\ loc' # "interactive"
          \/ Packet!gdbstub_interactive(IF stops' # stops THEN <<reply'>> ELSE <<>>)
          \/ UNCHANGED packetVars /\ UNCHANGED histVars
      BY <1>10, Zenon DEF Loop, ReplayIteration, Rewind, emulate1, emulate1Traps, abort_nodump
    <3>4. CASE UNCHANGED packetVars /\ stops' = stops
      BY <1>3, <3>1, <3>4
    <3>5. CASE stops' = stops /\ Packet!gdbstub_interactive(<<>>)
      <4>1. Framing!Frame(n)' /\ UNCHANGED items
        BY <1>1, <3>5, PassesNothing
      <4>2. replies' = replies
        <5>1. replies' = replies \o <<>> /\ replies \o <<>> = replies
          BY <1>1, <3>5 DEF Packet!gdbstub_interactive
        <5>2. QED
          BY <5>1
      <4>3. QED
        BY <1>2, <3>1, <3>5, <4>1, <4>2
    <3>6. CASE /\ stops' = stops + 1 /\ reply' = Reply("S05")
               /\ Packet!gdbstub_interactive(<<reply'>>)
      <4>1. reply' \in StopSigns /\ reply' \in Said
        BY <3>6, Zenon DEF StopSigns, TypeOK, Said
      <4>2. Answers(n)'
        BY <1>1, <3>1, <3>6, <4>1, AnswersStop
      <4>3. QED
        BY <1>1, <4>2
    <3>7. stops + 1 # stops
      BY <1>1
    <3>8. QED
      BY <3>2, <3>3, <3>4, <3>5, <3>6, <3>7 DEF histVars
  <2>2. CASE /\ ReplayIteration \/ Rewind \/ emulate1 \/ emulate1Traps
             /\ UNCHANGED packetVars
    BY <1>3, <2>2 DEF ReplayIteration, Rewind, emulate1, emulate1Traps, abort_nodump,
       histVars, debugVars
  <2>3. QED
    BY <1>10, <2>1, <2>2 DEF Loop
<1>11. CASE Unsent
  BY <1>3, <1>11 DEF Unsent, SendFails, abort_nodump, histVars, debugVars
<1>12. CASE ClientLeaves
  <2>1. Framing!Frame(n)' /\ UNCHANGED items
    BY <1>1, <1>12, PassesNothing DEF ClientLeaves
  <2>2. UNCHANGED <<replies, resumes, stops>>
    BY <1>12 DEF ClientLeaves, ClientHangsUp, Packet!HangUp, Packet!stub, histVars
  <2>3. QED
    BY <1>2, <2>1, <2>2
<1>13. CASE Malformed
  <2>1. Framing!Frame(n)' /\ UNCHANGED items
    BY <1>1, <1>13, MalformedEnds, PassesNothing
  <2>2. UNCHANGED <<replies, resumes, stops>>
    BY <1>13, MalformedEnds
  <2>3. QED
    BY <1>2, <2>1, <2>2
<1>14. QED
  BY <1>4, <1>5, <1>6, <1>7, <1>8, <1>9, <1>10, <1>11, <1>12, <1>13
     DEF SessionNext, Program

-----------------------------------------------------------------------------
(* The theorems.                                                           *)

\* The invariant, where the session begins.
LEMMA SessionStarts == SessionInit => SessionInv
<1> SUFFICES ASSUME SessionInit PROVE SessionInv
  OBVIOUS
<1>1. IInv
  BY InitIInv DEF SessionInit
<1>2. InStep /\ execute \in BOOLEAN
  BY DEF SessionInit, InStep, Packet!Init
<1>3. replies = <<>> /\ stops = 0
  BY DEF SessionInit, Packet!Init, Init
<1>4. replies \in Seq(Said) /\ StopsSent = stops
  <2>1. {i \in DOMAIN replies : replies[i] \in StopSigns} = {}
    BY <1>3
  <2>2. StopsSent = Cardinality({})
    BY <2>1, Zenon DEF StopsSent
  <2>3. QED
    BY <1>3, <2>2, FS_EmptySet
<1>5. QED
  BY <1>1, <1>2, <1>4 DEF SessionInv

\* And in every step.
LEMMA SessionKeeps == SessionInv /\ [SessionNext]_all => SessionInv'
<1> SUFFICES ASSUME SessionInv, [SessionNext]_all PROVE SessionInv'
  OBVIOUS
<1>1. IInv'
  BY SessionSteps, StepIInv DEF SessionInv
<1>2. InStep' /\ execute' \in BOOLEAN
  BY InStepKept DEF SessionInv
<1>3. replies' \in Seq(Said) /\ StopsSent' = stops'
  BY <1>1, StopsKept DEF IInv
<1>4. QED
  BY <1>1, <1>2, <1>3 DEF SessionInv

\* The packet layer is in its command loop exactly while the emulate() loop waits
\* for it: no command is read while the program runs, and none is lost between
\* the two.
THEOREM OneInControl == SessionSpec => []InStep
<1>1. SessionInv => InStep
  BY DEF SessionInv
<1>2. QED
  BY <1>1, SessionStarts, SessionKeeps, PTL DEF SessionSpec

\* Every stop is told to the client once, for every program, every split of the
\* stream and any number of commands waiting in clientbuf.
THEOREM StopsReachClient == SessionSpec => []StopsOnWire
<1>1. SessionInv => StopsOnWire
  BY DEF SessionInv, StopsOnWire, IInv, StopRepliesMatch
<1>2. QED
  BY <1>1, SessionStarts, SessionKeeps, PTL DEF SessionSpec

\* The first packet is yet to come.
LEMMA AnswersStart == SessionInit => Answers(0)
<1> SUFFICES ASSUME SessionInit PROVE Answers(0)
  OBVIOUS
<1>1. Framing!Frame(0)
  <2>1. Framing!Init
    BY Zenon DEF SessionInit, Packet!Init, Framing!Init
  <2>2. QED
    BY <2>1, Framing!FrameStarts, SessionAssumption DEF Packet!Single, Packet!Signs,
       Framing!Single, Framing!Signs, Packet!Broken, Framing!Broken
<1>2. replies = <<>> /\ resumes = 0 /\ stops = 0
  BY DEF SessionInit, Packet!Init, Init
<1>3. Ordinal(0) = 0
  <2>1. {j \in 1..0 : IsPacket(j)} = {}
    OBVIOUS
  <2>2. QED
    BY <2>1, FS_EmptySet, Zenon DEF Ordinal
<1>4. Len(replies) + (resumes - stops) = Ordinal(0)
  BY <1>2, <1>3
<1>5. \A i \in 1..0 : IsPacket(i) => Settled(i)
  OBVIOUS
<1>6. QED
  BY <1>1, <1>4, <1>5, Zenon DEF Answers

\* The framing holds throughout a session, and every packet is settled.
LEMMA SessionAnswers == SessionSpec => [](SessionInv /\ \E n \in Nat : Answers(n))
<1> DEFINE J == SessionInv /\ \E n \in Nat : Answers(n)
<1>1. SessionInit => J
  BY SessionStarts, AnswersStart
<1>2. J /\ [SessionNext]_all => J'
  <2> SUFFICES ASSUME J, [SessionNext]_all PROVE J'
    OBVIOUS
  <2>1. SessionInv'
    BY SessionKeeps
  <2>2. PICK n \in Nat : Answers(n)
    OBVIOUS
  <2>3. \E m \in Nat : Answers(m)'
    BY <2>1, <2>2, AnswersKept DEF SessionInv, IInv
  <2>4. QED
    BY <2>1, <2>3
<1>3. QED
  BY <1>1, <1>2, PTL DEF SessionSpec

\* The k-th reply of gdb_cmd() and gdbstub_intr() is the answer to the k-th packet, for
\* every program, every stream of packets and every way it is cut.
THEOREM EveryPacketAnswered == SessionSpec => []AnsweredInOrder
<1>1. (\E n \in Nat : Answers(n)) => AnsweredInOrder
  <2> SUFFICES ASSUME NEW n \in Nat, Answers(n) PROVE AnsweredInOrder
    OBVIOUS
  <2>1. \A s : Packet!Stream(s) = Framing!Stream(s)
    BY Zenon DEF Packet!Stream, Framing!Stream, Packet!FlattenSeq, Framing!FlattenSeq,
       Packet!Encode, Framing!Encode, Packet!Single, Framing!Single, Packet!Signs, Framing!Signs
  <2>2. consumed \o SubSeq(clientbuf, 1, bp) = Framing!Stream(SubSeq(items, 1, n))
    BY Framing!Passed, SessionAssumption DEF Answers, Packet!Single, Packet!Signs,
       Framing!Single, Framing!Signs, Packet!Broken, Framing!Broken
  <2>3. n \in 0..Len(items) /\ consumed \o clientbuf \o wire = Framing!Stream(items)
    BY DEF Answers, Framing!Frame, Framing!InOrder
  <2>4. QED
    BY <2>1, <2>2, <2>3, Zenon DEF AnsweredInOrder, Answers
<1>2. QED
  BY <1>1, SessionAnswers, PTL

\* recv() is not called on a full clientbuf, where its 0 would be taken for a
\* client that hung up.
RoomToReceive == stage = "recv" => Len(clientbuf) < PKT_BUF_MAX

\* That holds whatever the commands do, for every size of clientbuf.
THEOREM AlwaysRoom == SessionSpec => []RoomToReceive
<1>1. (\E n \in Nat : Answers(n)) => RoomToReceive
  BY DEF Answers, Framing!Frame, Framing!Room, RoomToReceive
<1>2. QED
  BY <1>1, SessionAnswers, PTL
=============================================================================
