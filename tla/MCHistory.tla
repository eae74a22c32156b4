----------------------------- MODULE MCHistory ------------------------------
(***************************************************************************)
(* The emulator with a record of the past: the machine at every            *)
(* instruction count, to compare with what a reverse step brings back, and *)
(* what an M packet wrote, to compare with what an m packet reads.         *)
(***************************************************************************)
EXTENDS MCEmulator

VARIABLES
  past,     \* past[n]: pc and memory when n instructions had run live
  written   \* address and byte of the last M, while memory is as it left it

histvars == <<vars, past, written>>

HistInit == Init /\ past = <<>> /\ written = {}

Live == insns' = insns + 1 /\ ~replay_mode

HistNext ==
  /\ Next
  /\ past' = IF Live THEN [n \in DOMAIN past \cup {insns} |->
                             IF n = insns THEN <<pc, memory>> ELSE past[n]]
                     ELSE past
  /\ written' = IF memory' = memory
                  THEN written
                  ELSE {w \in MemAddrs \X GdbBytes : gdb_writemem(w[1], w[2])}

HistSpec == HistInit /\ [][HistNext]_histvars

\* README.md:81 says that "you can use `reverse-stepi` [...] to step backwards":
\* the machine a finished replay hands to the client is the one it had then.
ReverseRestores ==
  [][(replay_mode /\ loc = "top" /\ loc' = "interactive")
       => <<pc, memory>> = past[insns]]_histvars

\* gdbstub.c:470 says "Read/write memory as a stream of bytes": m and M are
\* about the same bytes, so an m for the address of the last M, with nothing
\* stored since, is answered with the byte that M wrote.
ReadsWhatWasWritten ==
  [][\A w \in written : gdb_readmem(w[1]) => reply'.val = w[2]]_histvars
=============================================================================
