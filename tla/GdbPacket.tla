----------------------------- MODULE GdbPacket ------------------------------
(***************************************************************************)
(* gdbstub_interactive() and gdb_cmd() at the level of bytes: poll, recv   *)
(* into clientbuf, the scan for packets, and the memmove of what is left.  *)
(* What the commands do is in Emulator.tla; here a command either resumes  *)
(* the program or does not.                                                *)
(*                                                                         *)
(* A packet is "$", a command, "#" and two checksum digits.  A command is  *)
(* one symbol here; "y" stands for a digit that is right for what is       *)
(* between the "$" and the "#", "n" for one that is not, and "x" for what  *)
(* is no hexadecimal digit.                                                *)
(***************************************************************************)
EXTENDS Sequences, SequencesExt, Naturals, FiniteSets

CONSTANTS
  Commands,      \* commands in well-formed packets
  Oddities,      \* what else the client sends, of those below
  MaxItems,      \* bound: packets and single bytes the client sends
  PKT_BUF_MAX    \* size of clientbuf

\* Acknowledgements and GDB's interrupt are single bytes.
Signs == {"+", "-"}
Single == Signs \cup {"^C"}

\* A step damaged on the way, one that does not begin with "$", and one whose
\* checksum is not a number.
Broken == {"damaged", "headless", "unsummed"}

ASSUME PacketAssumption ==
  /\ Oddities \subseteq Single \cup Broken
  /\ Commands \cap (Single \cup Broken \cup {"$", "#"}) = {}
  /\ MaxItems \in Nat /\ PKT_BUF_MAX \in Nat \ {0}

Items == Commands \cup Oddities

Encode(item) ==
  CASE item \in Single     -> <<item>>
    [] item = "damaged"    -> <<"$", "s", "#", "n", "y">>
    [] item = "headless"   -> <<"%", "s", "#", "y", "y">>
    [] item = "unsummed"   -> <<"$", "s", "#", "x", "y">>
    [] item \in Commands   -> <<"$", item, "#", "y", "y">>

Stream(items) == FlattenSeq([i \in DOMAIN items |-> Encode(items[i])])

VARIABLES
  stage,          \* "poll", "recv", "scan": in gdbstub_interactive();
                  \* "running": out of it;  "gone" and "aborted": the process
                  \* has ended, for want of a client or by an assertion
  clientbuf,      \* its first cblen bytes
  bp,             \* bytes of clientbuf the scan has passed
  processed_any, execute,
  wire,           \* bytes on their way to the stub
  hungup,
  replies,        \* what gdb_cmd() has answered
  items,          \* history: what the client has sent
  consumed,       \* history: bytes removed from clientbuf
  ran,            \* history: times the program was resumed
  whole           \* the network keeps packets whole

stub == <<stage, clientbuf, bp, processed_any, execute, replies, consumed, ran>>
vars == <<stub, wire, hungup, items, whole>>

Init ==
  /\ stage = "running" /\ clientbuf = <<>> /\ bp = 0
  /\ processed_any = TRUE /\ execute = FALSE
  /\ wire = <<>> /\ hungup = FALSE /\ replies = <<>>
  /\ items = <<>> /\ consumed = <<>> /\ ran = 0
  /\ whole \in BOOLEAN

-----------------------------------------------------------------------------
(* The client.                                                             *)

Send(item) ==
  /\ ~hungup /\ Len(items) < MaxItems
  /\ items' = Append(items, item) /\ wire' = wire \o Encode(item)
  /\ UNCHANGED <<stub, hungup, whole>>

HangUp ==
  /\ ~hungup /\ hungup' = TRUE
  /\ UNCHANGED <<stub, wire, items, whole>>

-----------------------------------------------------------------------------
(* The stub.                                                               *)

\* poll() returns when there is something to read or the client is gone.
Poll ==
  /\ stage = "poll" /\ (wire # <<>> \/ hungup)
  /\ stage' = "recv"
  /\ UNCHANGED <<clientbuf, bp, processed_any, execute, replies, consumed, ran,
                 wire, hungup, items, whole>>

\* recv() brings n bytes; a network that keeps packets whole does not divide
\* one.
Received(n) ==
  /\ n <= PKT_BUF_MAX - Len(clientbuf)
  /\ clientbuf' = clientbuf \o SubSeq(wire, 1, n)
  /\ wire' = SubSeq(wire, n + 1, Len(wire))
  /\ whole => \E k \in 0..Len(items) :
                consumed \o clientbuf \o SubSeq(wire, 1, n) = Stream(SubSeq(items, 1, k))

StartScan ==
  /\ stage' = "scan" /\ processed_any' = FALSE /\ bp' = 0
  /\ UNCHANGED <<execute, replies, consumed, ran, hungup, items, whole>>

\* Mutant: nothing to receive is nothing to do.
Recv_eagain_waits ==
  /\ stage = "recv"
  /\ \/ \E n \in 1..Len(wire) : Received(n) /\ StartScan
     \/ wire = <<>> /\ ~hungup /\ stage' = "poll"
        /\ UNCHANGED <<clientbuf, bp, processed_any, execute, replies, consumed,
                       ran, wire, hungup, items, whole>>

Recv ==
  /\ stage = "recv"
  /\ \/ \E n \in 1..Len(wire) : Received(n) /\ StartScan
     \/ wire = <<>> /\ ~hungup /\ Len(clientbuf) < PKT_BUF_MAX    \* EAGAIN
        /\ StartScan /\ UNCHANGED <<clientbuf, wire>>

\* Mutant: end of stream is taken for EAGAIN.
Dropped_ignored ==
  /\ stage = "recv" /\ wire = <<>> /\ hungup
  /\ stage' = "poll"
  /\ UNCHANGED <<clientbuf, bp, processed_any, execute, replies, consumed, ran,
                 wire, hungup, items, whole>>

\* recv() returns 0: end of stream, or no room was left to receive into.
Dropped ==
  /\ stage = "recv"
  /\ \/ wire = <<>> /\ hungup
     \/ Len(clientbuf) = PKT_BUF_MAX
  /\ stage' = "gone"
  /\ UNCHANGED <<clientbuf, bp, processed_any, execute, replies, consumed, ran,
                 wire, hungup, items, whole>>

Rest == SubSeq(clientbuf, bp + 1, Len(clientbuf))
AtSign == Rest # <<>> /\ Head(Rest) \in Signs

\* Offset in Rest of the first '#' (memchr), 0 if there is none.
pound ==
  LET rest == Rest
  IN  IF \E i \in DOMAIN rest : rest[i] = "#"
        THEN CHOOSE i \in DOMAIN rest :
               rest[i] = "#" /\ \A j \in 1..i - 1 : rest[j] # "#"
        ELSE 0

\* Mutant: the second checksum digit is left behind.
PacketEnd_short == bp + pound + 1

\* Where the scan goes on after a packet.
PacketEnd == bp + pound + 2

\* Mutant: a packet is complete when a byte more has arrived.
Complete_late == pound # 0 /\ pound + 2 < Len(Rest)

Complete == pound # 0 /\ pound + 2 <= Len(Rest)

\* Mutant: the scan goes on after a resume command.
Scanning_no_break == stage = "scan"

\* A resume command breaks out of the scan.
Scanning == stage = "scan" /\ ~execute

SkipSign ==
  /\ Scanning /\ AtSign
  /\ bp' = bp + 1 /\ processed_any' = TRUE
  /\ UNCHANGED <<stage, clientbuf, execute, replies, consumed, ran, wire, hungup,
                 items, whole>>

\* The checksum is that of what is between the first byte and the '#'.
Checks == /\ Rest[pound + 1] = "y" /\ Rest[pound + 2] = "y"
          /\ pound = 3

\* sscanf() finds no number behind the '#'.
Unreadable == Rest[pound + 1] = "x"

Headless == Checks /\ Rest[1] # "$"

AtPacket == Scanning /\ Rest # <<>> /\ ~AtSign /\ Complete

IsCommand(cmd) == Rest[1] = "$" /\ Rest[2] = cmd /\ Checks

\* The packet at bp is answered with say, and execute set to go.
gdb_cmd(say, go) ==
  /\ AtPacket
  /\ replies' = replies \o say /\ execute' = go
  /\ processed_any' = TRUE /\ bp' = PacketEnd
  /\ UNCHANGED <<stage, clientbuf, consumed, ran, wire, hungup, items, whole>>

\* ASSERT(rc == 1), before anything is answered.
Aborts ==
  /\ AtPacket /\ Unreadable
  /\ stage' = "aborted"
  /\ UNCHANGED <<clientbuf, bp, processed_any, execute, replies, consumed, ran,
                 wire, hungup, items, whole>>

\* NAK; or ACK and an empty reply, without a look at gdb_disp.
Refused == AtPacket /\ ~Checks /\ ~Unreadable /\ gdb_cmd(<<"NAK">>, FALSE)
Weird   == AtPacket /\ Headless /\ gdb_cmd(<<"empty">>, FALSE)

\* ACK and one reply.  q stands for the commands that do not resume, s for those
\* that do, u for those gdb_disp does not list.
Dispatch ==
  /\ AtPacket
  /\ \/ IsCommand("q") /\ gdb_cmd(<<"answer">>, FALSE)
     \/ IsCommand("s") /\ gdb_cmd(<<"stop">>, TRUE)
     \/ IsCommand("u") /\ gdb_cmd(<<"empty">>, FALSE)

\* The scan goes round without a change while part of a packet is at bp.
Spin ==
  /\ Scanning /\ Rest # <<>> /\ ~AtSign /\ ~Complete
  /\ UNCHANGED vars

\* The loop is left at the end of the buffer, or at once by a resume command;
\* what was passed over is removed.
ScanDone == Rest = <<>> \/ execute

\* Mutant: a resume command leaves the buffer as it is.
Leftover_all == IF execute THEN clientbuf ELSE Rest

Leftover == Rest

Compact ==
  /\ stage = "scan" /\ ScanDone
  /\ clientbuf' = Leftover /\ consumed' = consumed \o SubSeq(clientbuf, 1, bp)
  /\ bp' = 0
  /\ stage' = IF execute THEN "running" ELSE IF processed_any THEN "recv" ELSE "poll"
  /\ ran' = IF execute THEN ran + 1 ELSE ran
  /\ UNCHANGED <<processed_any, execute, replies, wire, hungup, items, whole>>

\* Mutant: the stop reply of a breakpoint is not sent.
gdbstub_interactive_silent(say) ==
  /\ stage = "running"
  /\ stage' = "recv" /\ execute' = FALSE /\ processed_any' = TRUE
  /\ UNCHANGED <<replies, clientbuf, bp, consumed, ran, wire, hungup, items, whole>>

\* gdbstub_interactive() is called, for the first time or when the program has
\* stopped again, with say sent before.
gdbstub_interactive(say) ==
  /\ stage = "running"
  /\ stage' = "recv" /\ execute' = FALSE /\ processed_any' = TRUE
  /\ replies' = replies \o say
  /\ UNCHANGED <<clientbuf, bp, consumed, ran, wire, hungup, items, whole>>

Stub ==
  \/ Poll \/ Recv \/ Dropped
  \/ SkipSign \/ Aborts \/ Refused \/ Weird \/ Dispatch \/ Spin \/ Compact
  \/ gdbstub_interactive(<<>>)

Ended == stage \in {"gone", "aborted"}

Exited == Ended /\ UNCHANGED vars

Next == Stub \/ Exited \/ HangUp \/ (\E item \in Items : Send(item))

Spec == Init /\ [][Next]_vars

\* The stub runs on; a step always comes back to the client.
FairSpec == Spec /\ WF_vars(Stub)
-----------------------------------------------------------------------------
(* Properties.                                                             *)

\* GDB's interrupt is not known to the scan: it and what follows it, up to the
\* end of a packet, is one packet whose checksum is wrong, if it is a number.
Interrupted(sent, i) ==
  \E j \in 1..i - 1 : sent[j] = "^C" /\ \A k \in j..i - 1 : sent[k] \in Single

Outcome(sent, i) ==
  IF sent[i] \in Single THEN <<>>
  ELSE IF Interrupted(sent, i) THEN <<"NAK">>
  ELSE CASE sent[i] = "damaged"          -> <<"NAK">>
         [] sent[i] = "unsummed"         -> <<>>
         [] sent[i] \in {"u", "headless"} -> <<"empty">>
         [] sent[i] = "q"                -> <<"answer">>
         [] sent[i] = "s"                -> <<"stop">>

Outcomes(sent) == FlattenSeq([i \in DOMAIN sent |-> Outcome(sent, i)])

\* The scan and the memmove after it lose, repeat and reorder nothing, however
\* recv() cuts the stream: the bytes passed over are a whole number of packets,
\* and the replies are exactly those packets' replies, in order.
HandledOnceInOrder ==
  /\ consumed \o clientbuf \o wire = Stream(items)
  /\ \E n \in 0..Len(items) :
       /\ consumed \o SubSeq(clientbuf, 1, bp) = Stream(SubSeq(items, 1, n))
       /\ replies = Outcomes(SubSeq(items, 1, n))

StopReplies(said) == Cardinality({i \in DOMAIN said : said[i] = "stop"})

\* A resume command runs the program before any command behind it in the same
\* buffer is looked at: one run per stop reply.
OneRunPerResume ==
  StopReplies(replies) = ran + IF stage = "scan" /\ execute THEN 1 ELSE 0

\* recv() is never called without room in clientbuf, where its 0 would be
\* taken for a client that dropped.
OnlyDropsTheGone == stage = "gone" => hungup

\* Packets that arrive whole are all answered, those left in clientbuf when a
\* resume command cut the scan short too, unless the process ends, or the client
\* sends an interrupt, on which the scan may wait for ever.
AllAnswered ==
  whole ~> \/ consumed = Stream(items) /\ replies = Outcomes(items)
           \/ Ended \/ "^C" \in ToSet(items)

\* A client that hangs up is noticed, and the process ends, with the same
\* exception.
HangUpNoticed == (whole /\ hungup) ~> (Ended \/ "^C" \in ToSet(items))

\* gdbstub.c:261 says "Process as many full packets as possible...": when no
\* full packet is left the scan is over and the rest of one can be received.
ScanEnds == stage = "scan" ~> stage # "scan"
=============================================================================
