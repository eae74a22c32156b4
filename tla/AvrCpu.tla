------------------------------- MODULE AvrCpu -------------------------------
(***************************************************************************)
(* The processor on its own: emulate1() again and again, from a machine    *)
(* that a G packet, or an earlier part of the program, has set up.         *)
(***************************************************************************)
EXTENDS AvrCore

CONSTANTS
  Flash,            \* the image, word address -> word
  Start             \* machines to start from: [pc, mem, k]

ASSUME FlashAssumption ==
  /\ DOMAIN Flash \subseteq Nat
  /\ \A a \in DOMAIN Flash : Flash[a] \in Nat /\ Flash[a] < 65536

\* Bytes at 24-bit addresses.
IsMemory(m) == \A a \in DOMAIN m : a \in Nat /\ a < MemorySize /\ m[a] \in Byte

ASSUME StartAssumption ==
  \A s \in Start : s.pc \in Int /\ s.k \in Knobs /\ IsMemory(s.mem)

VARIABLES
  pc, memory,       \* machine state
  knobs,            \* pc22, pc_mem_max_64k, pc_mem_max_256b
  trapped,          \* the process has ended in abort_nodump()
  began             \* history: the machine the run began with

vars == <<pc, memory, knobs, trapped, began>>

-----------------------------------------------------------------------------
Init ==
  /\ began \in Start
  /\ pc = began.pc /\ memory = began.mem /\ knobs = began.k
  /\ trapped = FALSE

Next ==
  /\ ~trapped
  /\ \E r \in {emulate1(knobs, Flash, pc, memory)} :
       pc' = r.pc /\ memory' = r.mem /\ trapped' = r.trap
  /\ UNCHANGED <<knobs, began>>

Spec == Init /\ [][Next]_vars

\* Data memory holds bytes; the 24-bit address space is never left.
TypeOK ==
  /\ pc \in Int /\ trapped \in BOOLEAN /\ knobs \in Knobs
  /\ IsMemory(memory)

\* What the instruction set leaves undefined, or emulate1() does not implement:
\* a load or a store of the pointer it moves, an ELPM Z+ into Z, an extended jump
\* or call with a 16-bit pc, and the instructions marked as such.
NotDefined(p) ==
  LET w      == romword(Flash, p)
      row    == Row(w)
      reg    == Operands(w, row, romword(Flash, p + 1)).ddddd
      moving == Field(w, 1, 0) \in {1, 2}
  IN  \/ row.code = "unimp"
      \/ row.code \in {"ldx", "stx"} /\ moving /\ reg \in {26, 27}
      \/ row.code \in {"ldyz", "styz"} /\ IsSet(w, 12) /\ moving
           /\ reg \in IF IsSet(w, 3) THEN {28, 29} ELSE {30, 31}
      \/ row.code = "elpmz" /\ IsSet(w, 0) /\ reg \in {30, 31}
      \/ row.code = "eicalljump" /\ IsSet(w, 4) /\ ~knobs.pc22

\* The process ends where there is no instruction to fetch or to skip, or one
\* that is not defined, and for no other reason: in particular no handler asks
\* emulate1() to set and to clear the same flag, which its assertion would catch.
TrapsForCause == trapped => ~Fetches(Flash, pc) \/ NotDefined(pc)
=============================================================================
