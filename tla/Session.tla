------------------------------ MODULE Session -------------------------------
(***************************************************************************)
(* A debugging session: Emulator and GdbPacket as one program.  A packet   *)
(* that gdb_cmd() finds in the byte stream is a command of Emulator, the   *)
(* emulate() loop goes on when gdbstub_interactive() returns, and calls it *)
(* again when the program stops.                                           *)
(***************************************************************************)
EXTENDS Emulator, Sequences, SequencesExt

CONSTANTS Commands, Oddities, MaxItems, PKT_BUF_MAX     \* of GdbPacket

VARIABLES stage, clientbuf, bp, processed_any, execute, wire, replies, items,
          consumed, ran, whole

Packet == INSTANCE GdbPacket

\* What GdbPacket assumes.
ASSUME SessionAssumption ==
  /\ Oddities \subseteq Packet!Single \cup Packet!Broken
  /\ Commands \cap (Packet!Single \cup Packet!Broken \cup {"$", "#"}) = {}
  /\ MaxItems \in Nat /\ PKT_BUF_MAX \in Nat \ {0}

packetVars == <<stage, clientbuf, bp, processed_any, execute, wire, replies, items,
                consumed, ran, whole>>
all == <<vars, packetVars>>

\* The program was started with -g.
SessionInit == Init /\ loc = "accept" /\ Packet!Init

-----------------------------------------------------------------------------
(* The client and its connection.                                          *)

Connect == gdbstub_init /\ UNCHANGED packetVars

ClientSends == \E item \in Packet!Items : Packet!Send(item) /\ UNCHANGED vars

ClientLeaves == Packet!HangUp /\ ClientHangsUp

-----------------------------------------------------------------------------
(* gdbstub_interactive().                                                  *)

\* Steps that only move bytes.
Receiving ==
  /\ loc \notin Terminal
  /\ Packet!Poll \/ Packet!Recv \/ Packet!SkipSign \/ Packet!Spin \/ Packet!Compact
  /\ UNCHANGED vars

Drops == Packet!Dropped /\ ClientDropped

\* The rows of gdb_disp; "q" stands for those of constant strings.
Stationary == {"g", "G", "m", "M", "Z0", "z0", "q"}
Listed == Stationary \cup {"s", "bs", "c"}

\* The handlers that leave the program stopped.
Serves(cmd) ==
  \/ cmd = "g"  /\ gdb_getregs
  \/ cmd = "G"  /\ \E regs \in [RegCells -> GdbBytes], b \in GdbPcs : gdb_setregs(regs, b)
  \/ cmd = "m"  /\ \E a \in MemAddrs : gdb_readmem(a)
  \/ cmd = "M"  /\ \E a \in MemAddrs, v \in GdbBytes : gdb_writemem(a, v)
  \/ cmd = "Z0" /\ \E a \in BreakAddrs : gdb_addbreak(a)
  \/ cmd = "z0" /\ \E a \in BreakAddrs : gdb_rembreak(a)
  \/ cmd = "q"  /\ gdb_conststring /\ reply' = Reply("const")

\* The packet arrived whole but is none of a command gdb_disp lists.
Unlisted == Packet!Checks /\ \A cmd \in Listed : ~Packet!IsCommand(cmd)

\* Every row has a handler that answers, but for c.
Answered(go) == Packet!gdb_cmd(<<reply'>>, go)

Handled ==
  /\ loc = "interactive" /\ Packet!AtPacket
  /\ \/ /\ ~Packet!Checks /\ ~Packet!Unreadable
        /\ Packet!gdb_cmd(<<Reply("NAK")>>, FALSE) /\ UNCHANGED vars
     \/ Unlisted /\ gdb_conststring /\ reply' = Reply("empty") /\ Answered(FALSE)
     \/ \E cmd \in Stationary : Packet!IsCommand(cmd) /\ Serves(cmd) /\ Answered(FALSE)
     \/ Packet!IsCommand("s") /\ gdb_step /\ Answered(TRUE)
     \/ Packet!IsCommand("bs") /\ gdb_bstep /\ Answered(CanStepBack)
     \/ Packet!IsCommand("c") /\ gdb_continue /\ Packet!gdb_cmd(<<>>, TRUE)

\* A checksum, or arguments, that sscanf() cannot read, or a PC that is out of
\* range: nothing is answered and the process ends.
Malformed ==
  /\ MalformedCommand
  /\ \/ Packet!Aborts /\ loc' = "aborted"
     \/ /\ Packet!AtPacket
        /\ \E cmd \in {"G", "m", "M", "Z0", "z0"} : Packet!IsCommand(cmd)
        /\ UNCHANGED packetVars

\* send() fails where a reply is due.
Unsent ==
  /\ (Packet!AtPacket /\ ~Packet!Unreadable) \/ loc = "top"
  /\ SendFails /\ UNCHANGED packetVars

-----------------------------------------------------------------------------
(* The emulate() loop.                                                     *)

Loop ==
  /\ stage = "running"
  /\ \/ /\ LiveIteration \/ EndReplay
        /\ IF loc' = "interactive"
             THEN Packet!gdbstub_interactive(IF stops' # stops THEN <<reply'>> ELSE <<>>)
             ELSE UNCHANGED packetVars
     \/ /\ ReplayIteration \/ Rewind \/ emulate1 \/ emulate1Traps
        /\ UNCHANGED packetVars

Program == Loop \/ Receiving \/ Handled \/ Connect \/ Drops \/ Malformed

SessionExited == loc \in Terminal /\ UNCHANGED all

SessionNext == Program \/ Unsent \/ ClientSends \/ ClientLeaves \/ SessionExited

SessionSpec == SessionInit /\ [][SessionNext]_all /\ WF_all(Program)
-----------------------------------------------------------------------------
(* Properties.                                                             *)

\* What has the client believe that the program has stopped.
StopSigns == {Reply("S05"), Reply("begin")}

StopsSent == Cardinality({i \in DOMAIN replies : replies[i] \in StopSigns})

\* Every stop is told to the client once, whoever sends the reply: gdb_step or
\* gdb_bstep at once, gdbstub_intr() when a breakpoint ends a c.  While the stub
\* reads commands there are as many stop replies on the connection as resume
\* commands were taken, however many more of them wait in clientbuf.
StopsOnWire ==
  /\ StopsSent = stops
  /\ loc = "interactive" => StopsSent = resumes

\* Item i is a packet; and which packet of the stream it is.
IsPacket(i) == items[i] \notin Packet!Single
Ordinal(i)  == Cardinality({j \in 1..i : IsPacket(j)})

\* The checksum of packet i is found to be wrong.
Spoilt(i) == Packet!Interrupted(items, i) \/ items[i] = "damaged"

\* r is the kind of answer that a command calls for.
Suits(cmd, r) ==
  /\ cmd = "g" => r.tag = "regs"
  /\ cmd = "m" => r.tag = "mem"
  /\ cmd \in {"G", "M", "Z0", "z0"} => r = Reply("OK")
  /\ cmd = "q" => r = Reply("const")
  /\ cmd \in {"s", "bs", "c"} => r \in StopSigns
  /\ cmd \notin Listed => r = Reply("empty")

\* And that packet i calls for.
Fits(i, r) == IF Spoilt(i) THEN r = Reply("NAK") ELSE Suits(items[i], r)

\* Packet i has its answer, or is the c whose stop is to come.
Settled(i) ==
  IF Ordinal(i) <= Len(replies) THEN Fits(i, replies[Ordinal(i)])
  ELSE items[i] = "c" /\ ~Spoilt(i)

\* However far the client is ahead and however its bytes arrive: the stub has read
\* a number of packets, of which it lost none; the k-th reply on the connection is
\* of the kind that the k-th packet calls for; and there is one for each of them, but
\* for a c while the program runs.  The replies of a c come from gdbstub_intr(), all
\* others from gdb_cmd(), with packets waiting in clientbuf in between.
AnsweredInOrder ==
  /\ consumed \o clientbuf \o wire = Packet!Stream(items)
  /\ \E n \in 0..Len(items) :
       /\ consumed \o SubSeq(clientbuf, 1, bp) = Packet!Stream(SubSeq(items, 1, n))
       /\ Len(replies) + (resumes - stops) = Ordinal(n)
       /\ \A i \in 1..n : IsPacket(i) => Settled(i)
=============================================================================
