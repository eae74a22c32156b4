------------------------------ MODULE AvrFlags ------------------------------
(***************************************************************************)
(* The flag helpers of instr.c.  Each takes a result and the operands it   *)
(* was computed from and says which bits of SREG are to be set and which   *)
(* are to be cleared; emulate1() applies them after the handler.           *)
(***************************************************************************)
EXTENDS AvrWord

\* A chain of "if (...) *set |= flag; else *clr |= flag;".
Affect(flags) ==
  [set |-> {SregBit[f] : f \in {g \in DOMAIN flags : flags[g]}},
   clr |-> {SregBit[f] : f \in {g \in DOMAIN flags : ~flags[g]}}]

\* Mutant: a carry that comes in under a one of rd is missed.
CarryOut_two_terms(res, rd, rr, n) ==
  \/ IsSet(rd, n) /\ IsSet(rr, n)
  \/ IsSet(rr, n) /\ ~IsSet(res, n)

\* Carry out of bit n of rd + rr (+ carry), read off the result.
CarryOut(res, rd, rr, n) ==
  \/ IsSet(rd, n) /\ IsSet(rr, n)
  \/ IsSet(rr, n) /\ ~IsSet(res, n)
  \/ ~IsSet(res, n) /\ IsSet(rd, n)

\* Mutant: a borrow that comes in under equal bits is missed.
BorrowOut_one_term(res, rd, rr, n) == ~IsSet(rd, n) /\ IsSet(rr, n)

\* Borrow into bit n of rd - rr (- carry), read off the result.
BorrowOut(res, rd, rr, n) ==
  \/ ~IsSet(rd, n) /\ IsSet(rr, n)
  \/ IsSet(rr, n) /\ IsSet(res, n)
  \/ IsSet(res, n) /\ ~IsSet(rd, n)

adc_flags8(res, rd, rr) ==
  LET n == IsSet(res, 7)
      v == \/ IsSet(rd, 7) /\ IsSet(rr, 7) /\ ~IsSet(res, 7)
           \/ ~IsSet(rd, 7) /\ ~IsSet(rr, 7) /\ IsSet(res, 7)
  IN  Affect([N |-> n, V |-> v, S |-> n # v, Z |-> res = 0,
              C |-> CarryOut(res, rd, rr, 7), H |-> CarryOut(res, rd, rr, 3)])

sub_flags8(res, rd, rr) ==
  LET n == IsSet(res, 7)
      v == \/ IsSet(rd, 7) /\ ~IsSet(rr, 7) /\ ~IsSet(res, 7)
           \/ ~IsSet(rd, 7) /\ IsSet(rr, 7) /\ IsSet(res, 7)
  IN  Affect([N |-> n, V |-> v, S |-> n # v, Z |-> res = 0,
              C |-> BorrowOut(res, rd, rr, 7), H |-> BorrowOut(res, rd, rr, 3)])

adiw_flags16(res, rd) ==
  LET n == IsSet(res, 15)
      v == ~IsSet(rd, 15) /\ IsSet(res, 15)
  IN  Affect([N |-> n, V |-> v, S |-> n # v, Z |-> res = 0,
              C |-> ~IsSet(res, 15) /\ IsSet(rd, 15)])

\* The flags of instr_sbiw, which has no helper of its own.
sbiw_flags16(res, rd) ==
  LET n == IsSet(res, 15)
      v == IsSet(rd, 15) /\ ~IsSet(res, 15)
  IN  Affect([N |-> n, V |-> v, S |-> n # v, Z |-> res = 0,
              C |-> IsSet(res, 15) /\ ~IsSet(rd, 15)])

asr_flags8(res, rd) ==
  LET n == IsSet(res, 7)
      c == IsSet(rd, 0)
      v == c # n
  IN  Affect([N |-> n, Z |-> res = 0, C |-> c, V |-> v, S |-> v # n])

logic_flags8(res) ==
  LET n == IsSet(res, 7)
  IN  Affect([V |-> FALSE, N |-> n, S |-> n, Z |-> res = 0])

mul_flags16(res) == Affect([C |-> IsSet(res, 15), Z |-> res = 0])

\* Z looks at the result after the shift that fmul makes.
fmul_flags16(res) == Affect([C |-> IsSet(res, 15), Z |-> (2 * res) % 65536 = 0])

\* What emulate1() does with them.
ApplyFlags(sreg, set, clr) == FromBits((BitsOf(sreg) \ clr) \cup set)
=============================================================================
