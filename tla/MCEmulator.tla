----------------------------- MODULE MCEmulator -----------------------------
(***************************************************************************)
(* The emulator running a small AVR program.  Started with r16 = 0 it goes *)
(* through both arms of the skip at 0; what it does depends on r16, which  *)
(* it changes, so a second run from the start need not be like the first.  *)
(***************************************************************************)
EXTENDS Emulator, MCAvrAsm

Program ==
  << SBRC(16, 4),    \* 0: skip the jump while bit 4 of r16 is clear
     RJMP(2),        \* 1: to 4
     LDI(16, 16),    \* 2
     RJMP(-4),       \* 3: to 0
     SWAP(16),       \* 4
     RJMP(-6),       \* 5: to 0
     SBRC(16, 0),    \* 6: skips a word that is no instruction
     \h9404 >>       \* 7
MCFlash == Image(<<Program>>)
MCPcs == 0..7
MCCells == {16, 95}
MCBytes == {0, 1, 16}
MCDes(key, block, decrypt) == block

Core == INSTANCE AvrCore WITH DES_ecb_encrypt <- MCDes

\* What init() sets the knobs to.
Plain == [pc22 |-> FALSE, pc_mem_max_64k |-> FALSE, pc_mem_max_256b |-> FALSE]

\* emulate1() on every machine of the instance, evaluated once.
ExecTable ==
  {[pc |-> p, mem |-> m, res |-> Core!emulate1(Plain, MCFlash, p, m)] :
     p \in MCPcs, m \in [MCCells -> MCBytes]}
MCExec(p, m) == (CHOOSE x \in ExecTable : x.pc = p /\ x.mem = m).res
=============================================================================
