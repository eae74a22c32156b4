------------------------------ MODULE AvrTests ------------------------------
(***************************************************************************)
(* The unit tests of check_instr.c as data.  A test is the words it        *)
(* installs and, for each of its calls of emulate1(), what it stores in    *)
(* memory before the call, the pc it expects after it and the bytes it     *)
(* expects memory to hold.  The stores that undo a test's own are left     *)
(* out: every test runs in a process of its own.                           *)
(***************************************************************************)
EXTENDS AvrWord, MCAvrAsm, TLC

CONSTANT PC_START      \* where the tests install their code

SREG_C == 1
SREG_Z == 2
SREG_N == 4
SREG_V == 8
SREG_S == 16
SREG_H == 32
SREG_T == 64
SREG_I == 128

Nothing == <<>>
MemWord(a, w) == a :> Low(w) @@ a + 1 :> High(w)
Sp(w) == SP_LO :> Low(w) @@ SP_HI :> High(w)

\* Return addresses on a stack whose pointer was sp, as CALL leaves them.
Pushed(sp, a) == sp :> a % 256 @@ sp - 1 :> a \div 256
Pushed22(sp, a) == sp :> a % 256 @@ sp - 1 :> (a \div 256) % 256 @@ sp - 2 :> a \div 65536

\* One call: stores, pc expected after it, bytes expected.  from: the test sets
\* pc to it first, unless it is -1; words: what it installs in flash first.
Step(puts, pc, gets) ==
  [puts |-> puts, from |-> -1, words |-> Nothing, pc |-> pc, gets |-> gets]
Next1(n, puts, gets) == Step(puts, PC_START + n, gets)
Test(code, steps) == [code |-> code, steps |-> steps]

-----------------------------------------------------------------------------
(* Transfers, I/O and the stack.                                           *)

test_nop ==
  Test(<<NOP, NOP>>, <<Next1(1, Nothing, Nothing), Next1(2, Nothing, Nothing)>>)

test_mov ==
  Test(<<MOV(30, 31), MOV(5, 30), MOV(0, 5)>>,
       <<Next1(1, 31 :> \hab, 30 :> \hab @@ 5 :> 0),
         Next1(2, Nothing, 5 :> \hab @@ 0 :> 0),
         Next1(3, Nothing, 0 :> \hab)>>)

test_or ==
  Test(<<OR(30, 31), OR(5, 29), OR(0, 5)>>,
       <<Next1(1, 31 :> 0 @@ 30 :> 0 @@ 29 :> \haa @@ 5 :> \h55 @@ 0 :> \hff,
               30 :> 0 @@ SREG :> SREG_Z),
         Next1(2, Nothing, 5 :> \hff @@ SREG :> SREG_N + SREG_S),
         Next1(3, Nothing, 0 :> \hff @@ SREG :> SREG_N + SREG_S)>>)

test_ori ==
  Test(<<ORI(16, \hff), ORI(21, 0), ORI(31, \haa)>>,
       <<Next1(1, 31 :> \h55, 16 :> \hff @@ SREG :> SREG_N + SREG_S),
         Next1(2, Nothing, 21 :> 0 @@ SREG :> SREG_Z),
         Next1(3, Nothing, 31 :> \hff @@ SREG :> SREG_N + SREG_S)>>)

test_out ==
  Test(<<OUTP(31, \h3e)>>, <<Next1(1, 31 :> \hab, IO_BASE + \h3e :> \hab)>>)

test_in ==
  Test(<<INP(31, \h3e)>>, <<Next1(1, IO_BASE + \h3e :> \hab, 31 :> \hab)>>)

test_push ==
  Test(<<PUSH(31)>>,
       <<Next1(1, 31 :> \hab @@ Sp(\hffff), Sp(\hfffe) @@ \hffff :> \hab)>>)

test_movw ==
  Test(<<MOVW(28, 30)>>,
       <<Next1(1, 31 :> \hab @@ 30 :> \hcd, 29 :> \hab @@ 28 :> \hcd)>>)

test_call ==
  Test(CALL(\h3fdead),
       <<Step(Sp(\hffff), \hdead, Sp(\hfffd) @@ Pushed(\hffff, PC_START + 2))>>)

test_call22 ==
  Test(CALL(\h3fbeef),
       <<Step(Sp(\hffff), \h3fbeef, Sp(\hfffc) @@ Pushed22(\hffff, PC_START + 2))>>)

-----------------------------------------------------------------------------
(* Arithmetic and logic.                                                   *)

AllBut(flags) == 255 - flags

test_mul ==
  LET s == AllBut(SREG_Z + SREG_C)
  IN  Test(<<MUL(31, 30), MUL(0, 1), MUL(4, 5)>>,
           <<Next1(1, 31 :> \hff @@ 30 :> \hff @@ 4 :> \h15 @@ SREG :> s,
                   MemWord(0, \hff * \hff) @@ SREG :> s + SREG_C),
             Next1(2, Nothing, MemWord(0, \hfe * 1) @@ SREG :> s),
             Next1(3, Nothing, MemWord(0, 0) @@ SREG :> s + SREG_Z)>>)

test_muls ==
  LET s == AllBut(SREG_Z + SREG_C)
  IN  Test(<<MULS(31, 30), MULS(20, 21)>>,
           <<Next1(1, 31 :> \hff @@ 30 :> 2 @@ 20 :> \h15 @@ SREG :> s,
                   MemWord(0, \hfffe) @@ SREG :> s + SREG_C),
             Next1(2, Nothing, MemWord(0, 0) @@ SREG :> s + SREG_Z)>>)

test_mulsu ==
  LET s == AllBut(SREG_Z + SREG_C)
  IN  Test(<<MULSU(23, 22), MULSU(20, 21)>>,
           <<Next1(1, 23 :> \hff @@ 22 :> \hff @@ 20 :> \h15 @@ SREG :> s,
                   MemWord(0, \hff01) @@ SREG :> s + SREG_C),
             Next1(2, Nothing, MemWord(0, 0) @@ SREG :> s + SREG_Z)>>)

test_adc ==
  LET s == SREG_I + SREG_T
  IN  Test(<<ADC(0, 1), ADC(2, 3), ADC(4, 5)>>,
           <<Next1(1, 0 :> \hf0 @@ 1 :> \h0f @@ SREG :> s + SREG_C,
                   0 :> 0 @@ SREG :> s + SREG_C + SREG_Z + SREG_H),
             Next1(2, 2 :> \h40 @@ 3 :> \h40, 2 :> \h81 @@ SREG :> s + SREG_V + SREG_N),
             Next1(3, 4 :> \hff @@ 5 :> 0, 4 :> \hff @@ SREG :> s + SREG_N + SREG_S)>>)

test_add ==
  LET s == SREG_I + SREG_T
  IN  Test(<<ADD(0, 1), ADD(2, 3), ADD(4, 5)>>,
           <<Next1(1, 0 :> \hf1 @@ 1 :> \h0f @@ SREG :> s,
                   0 :> 0 @@ SREG :> s + SREG_C + SREG_Z + SREG_H),
             Next1(2, 2 :> \h40 @@ 3 :> \h40, 2 :> \h80 @@ SREG :> s + SREG_V + SREG_N),
             Next1(3, 4 :> \hff @@ 5 :> 0, 4 :> \hff @@ SREG :> s + SREG_N + SREG_S)>>)

test_adiw ==
  LET s == SREG_I + SREG_T + SREG_H
  IN  Test(<<ADIW(24, 5), ADIW(30, \h3f)>>,
           <<Next1(1, 24 :> \hfb @@ 25 :> \hff @@ SREG :> s,
                   24 :> 0 @@ 25 :> 0 @@ SREG :> s + SREG_C + SREG_Z),
             Next1(2, 30 :> \hff @@ 31 :> \h7f,
                   30 :> \h3e @@ 31 :> \h80 @@ SREG :> s + SREG_V + SREG_N)>>)

test_and ==
  LET s == SREG_I + SREG_T + SREG_H + SREG_C
  IN  Test(<<AND(0, 1), AND(4, 5)>>,
           <<Next1(1, 1 :> \hff @@ 0 :> \hff @@ SREG :> s,
                   0 :> \hff @@ SREG :> s + SREG_N + SREG_S),
             Next1(2, 4 :> \hff @@ 5 :> 0, 4 :> 0 @@ SREG :> s + SREG_Z)>>)

test_andi ==
  LET s == SREG_I + SREG_T + SREG_H + SREG_C
  IN  Test(<<ANDI(16, \hff), ANDI(20, 0)>>,
           <<Next1(1, 16 :> \hff @@ SREG :> s, 16 :> \hff @@ SREG :> s + SREG_N + SREG_S),
             Next1(2, 20 :> \hff, 20 :> 0 @@ SREG :> s + SREG_Z)>>)

test_asr ==
  LET s == SREG_I + SREG_T + SREG_H
      Asr(n, r, puts, res, flags) ==
        Next1(n, 31 :> r @@ puts, 31 :> res @@ SREG :> s + flags)
  IN  Test(<<ASR(31), ASR(31), ASR(31), ASR(31), ASR(31)>>,
           <<Asr(1, \hff, SREG :> s, \hff, SREG_N + SREG_C + SREG_S),
             Asr(2, \h81, Nothing, \hc0, SREG_N + SREG_C + SREG_S),
             Asr(3, \h7f, Nothing, \h3f, SREG_C + SREG_V + SREG_S),
             Asr(4, \h70, Nothing, \h38, 0),
             Asr(5, \h1, Nothing, 0, SREG_C + SREG_Z + SREG_V + SREG_S)>>)

test_bclr ==
  Test(<<BCLR(7), BCLR(1)>>,
       <<Next1(1, SREG :> \hff, SREG :> AllBut(SREG_I)),
         Next1(2, Nothing, SREG :> AllBut(SREG_I + SREG_Z))>>)

test_bset ==
  Test(<<BSET(6), BSET(3)>>,
       <<Next1(1, SREG :> 0, SREG :> SREG_T),
         Next1(2, Nothing, SREG :> SREG_T + SREG_V)>>)

test_bld ==
  Test(<<BLD(31, 4), BLD(31, 4)>>,
       <<Next1(1, SREG :> SREG_T, 31 :> 16), Next1(2, SREG :> 0, 31 :> 0)>>)

test_bst ==
  Test(<<BST(31, 4), BST(31, 4)>>,
       <<Next1(1, SREG :> 0 @@ 31 :> 16, SREG :> SREG_T),
         Next1(2, 31 :> 0, SREG :> 0)>>)

test_brb ==
  Test(<<BRBC(7, 2), NOP, BRBS(0, 63), BRBS(6, -2)>>,
       <<Next1(3, SREG :> SREG_T + SREG_C, Nothing),
         Next1(2, Nothing, Nothing), Next1(2 + 63 + 1, Nothing, Nothing)>>)

test_cbisbi ==
  Test(<<CBI(\h15, 3), SBI(\h15, 3)>>,
       <<Next1(1, IO_BASE + \h15 :> \hff, IO_BASE + \h15 :> \hf7),
         Next1(2, Nothing, IO_BASE + \h15 :> \hff)>>)

test_com ==
  LET s == SREG_I + SREG_T + SREG_H
  IN  Test(<<COM(31), COM(31)>>,
           <<Next1(1, SREG :> s + SREG_V @@ 31 :> \h55,
                   31 :> \haa @@ SREG :> s + SREG_C + SREG_N + SREG_S),
             Next1(2, 31 :> \hff, 31 :> 0 @@ SREG :> s + SREG_C + SREG_Z)>>)

\* SREG |= f before a call is written out, as the test has checked SREG.
test_cpc ==
  LET s == SREG_I + SREG_T
  IN  Test(<<CP(0, 1), CPC(2, 3), CP(4, 5)>>,
           <<Next1(1, 0 :> \hf1 @@ 1 :> \h0f @@ SREG :> s,
                   0 :> \hf1 @@ SREG :> s + SREG_H + SREG_N + SREG_S),
             Next1(2, 2 :> \h80 @@ 3 :> \h7f
                        @@ SREG :> s + SREG_H + SREG_N + SREG_S + SREG_C,
                   2 :> \h80 @@ SREG :> s + SREG_V + SREG_S + SREG_H),
             Next1(3, 4 :> 0 @@ 5 :> \hff
                        @@ SREG :> s + SREG_V + SREG_S + SREG_H + SREG_Z,
                   4 :> 0 @@ SREG :> s + SREG_H + SREG_C)>>)

test_cpi ==
  LET s == SREG_I + SREG_T
  IN  Test(<<CPI(17, \h7f)>>,
           <<Next1(1, 17 :> \h80 @@ SREG :> s,
                   17 :> \h80 @@ SREG :> s + SREG_V + SREG_S + SREG_H)>>)

test_cpse ==
  Test(<<CPSE(0, 1), CPSE(0, 2)>> \o CALL(\h3fbeef) \o <<CPSE(0, 2), NOP, NOP>>,
       <<Next1(1, 1 :> 1, 0 :> 0), Next1(4, Nothing, 0 :> 0),
         Next1(6, Nothing, Nothing), Next1(7, Nothing, Nothing)>>)

test_dec ==
  LET s == SREG_I + SREG_T + SREG_H + SREG_C
  IN  Test(<<DEC(0), DEC(0), DEC(0)>>,
           <<Next1(1, SREG :> s @@ 0 :> \h81, 0 :> \h80 @@ SREG :> s + SREG_N + SREG_S),
             Next1(2, Nothing, 0 :> \h7f @@ SREG :> s + SREG_V + SREG_S),
             Next1(3, 0 :> 1, 0 :> 0 @@ SREG :> s + SREG_Z)>>)

test_eicall22 ==
  Test(<<ICALL, EICALL>>,
       <<Next1(1, Sp(\hffff) @@ EIND :> \h3f @@ MemWord(REGP_Z, PC_START + 1),
               Sp(\hfffc) @@ Pushed22(\hffff, PC_START + 1)),
         Step(EIND :> 5 @@ MemWord(REGP_Z, 0), \h50000,
              Sp(\hfff9) @@ Pushed22(\hfffc, PC_START + 2))>>)

test_icall ==
  Test(<<ICALL>>,
       <<Step(Sp(\hffff) @@ MemWord(REGP_Z, \hffee), \hffee,
              Sp(\hfffd) @@ Pushed(\hffff, PC_START + 1))>>)

test_eijump22 ==
  Test(<<IJMP, EIJMP>>,
       <<Next1(1, Sp(\hffff) @@ EIND :> \h3f @@ MemWord(REGP_Z, PC_START + 1),
               Sp(\hffff)),
         Step(EIND :> 5 @@ MemWord(REGP_Z, \h1234), \h51234, Sp(\hffff))>>)

test_ijump ==
  Test(<<IJMP>>, <<Step(Sp(\hffff) @@ MemWord(REGP_Z, \hffee), \hffee, Sp(\hffff))>>)

\* The test reads the words it runs, from address 0.
test_elpm ==
  LET Installing(step, a, w) == [step EXCEPT !.words = a :> w]
  IN  Test(<<LPM, ELPM, LPMZ(29), ELPMZ(29), LPMZP(29), ELPMZP(29)>>,
           <<Next1(1, MemWord(REGP_Z, 0), 0 :> \hc8 @@ MemWord(REGP_Z, 0)),
             Installing(Next1(2, RAMPZ :> 1, 0 :> \hd8), \h10000 \div 2, ELPM),
             Next1(3, MemWord(REGP_Z, 4), 29 :> \hd4 @@ MemWord(REGP_Z, 4)),
             Next1(4, RAMPZ :> 0, 29 :> \hd4),
             Next1(5, RAMPZ :> \h3f, 29 :> \hd4 @@ MemWord(REGP_Z, 5)),
             Installing(Next1(6, RAMPZ :> \h3e @@ MemWord(REGP_Z, \hffff),
                              29 :> \hb5 @@ MemWord(REGP_Z, 0) @@ RAMPZ :> \h3e),
                        \h3efffe \div 2, \hb5b5)>>)

test_xor ==
  LET s == SREG_I + SREG_T + SREG_H + SREG_C
  IN  Test(<<EOR(30, 31), EOR(5, 29), EOR(0, 5)>>,
           <<Next1(1, 31 :> 0 @@ 30 :> 0 @@ 29 :> \haa @@ 5 :> \h55 @@ 0 :> \hff
                        @@ SREG :> s + SREG_V,
                   30 :> 0 @@ SREG :> s + SREG_Z),
             Next1(2, Nothing, 5 :> \hff @@ SREG :> s + SREG_N + SREG_S),
             Next1(3, Nothing, 0 :> 0 @@ SREG :> s + SREG_Z)>>)

test_fmul ==
  LET s == AllBut(SREG_Z + SREG_C)
  IN  Test(<<FMUL(23, 22), FMUL(16, 17), FMUL(20, 21)>>,
           <<Next1(1, 23 :> \hff @@ 22 :> \hff @@ SREG :> s,
                   MemWord(0, (\hff * \hff * 2) % 65536) @@ SREG :> s + SREG_C),
             Next1(2, 16 :> \h80 @@ 17 :> \h80, MemWord(0, \h8000) @@ SREG :> s),
             Next1(3, 20 :> \h15 @@ 21 :> 0, MemWord(0, 0) @@ SREG :> s + SREG_Z)>>)

test_fmuls ==
  LET s == AllBut(SREG_Z + SREG_C)
  IN  Test(<<FMULS(23, 22), FMULS(20, 21), FMULS(20, 21)>>,
           <<Next1(1, 23 :> \hff @@ 22 :> 2 @@ SREG :> s,
                   MemWord(0, \hfffc) @@ SREG :> s + SREG_C),
             Next1(2, 20 :> \h80 @@ 21 :> \h80, MemWord(0, \h8000) @@ SREG :> s),
             Next1(3, 21 :> 0, MemWord(0, 0) @@ SREG :> s + SREG_Z)>>)

test_fmulsu ==
  LET s == AllBut(SREG_Z + SREG_C)
  IN  Test(<<FMULSU(23, 22), FMULSU(20, 21)>>,
           <<Next1(1, 23 :> \hff @@ 22 :> \hff @@ SREG :> s,
                   MemWord(0, \hfe02) @@ SREG :> s + SREG_C),
             Next1(2, 20 :> \h15 @@ 21 :> 0, MemWord(0, 0) @@ SREG :> s + SREG_Z)>>)

test_inc ==
  LET s == SREG_I + SREG_T + SREG_H + SREG_C
  IN  Test(<<INC(0), INC(0), INC(0)>>,
           <<Next1(1, SREG :> s @@ 0 :> \h7f, 0 :> \h80 @@ SREG :> s + SREG_N + SREG_V),
             Next1(2, Nothing, 0 :> \h81 @@ SREG :> s + SREG_N + SREG_S),
             Next1(3, 0 :> \hff, 0 :> 0 @@ SREG :> s + SREG_Z)>>)

test_jmp   == Test(JMP(\h3fdead), <<Step(Sp(\hffff), \hdead, Sp(\hffff))>>)
test_jmp22 == Test(JMP(\h3fbeef), <<Step(Sp(\hffff), \h3fbeef, Sp(\hffff))>>)

-----------------------------------------------------------------------------
(* Loads, by the pointer in r[rp + 1]:r[rp] and its RAMP register.  The    *)
(* tests for X, Y and Z differ in little else.                             *)

LoadX == <<LDX(5), LDXP(5), LDMX(5)>>
LoadY == <<LDDY(5, 0), LDYP(5), LDMY(5), LDDY(5, 15)>>
LoadZ == <<LDDZ(5, 0), LDZP(5), LDMZ(5), LDDZ(5, 15)>>

\* X = 0x100 (twice, with an increment); then 0 with RAMP = 0x3f, decremented:
\* to below, where the byte is read, with RAMP as given.
Loads(rp, ramp, below, ramped) ==
  <<Next1(1, \h100 :> \haa @@ MemWord(rp, \h100), MemWord(rp, \h100) @@ 5 :> \haa),
    Next1(2, Nothing, MemWord(rp, \h101) @@ 5 :> \haa),
    Next1(3, ramp :> \h3f @@ MemWord(rp, 0) @@ below :> \h55,
          MemWord(rp, \hffff) @@ ramp :> ramped @@ 5 :> \h55)>>

\* On the machine with a page of memory only the low byte of a pointer moves.
Loads256(rp, ramp) ==
  <<Next1(1, 0 :> \haa @@ MemWord(rp, \h100), MemWord(rp, \h100) @@ 5 :> \haa),
    Next1(2, MemWord(rp, \h1ff) @@ \hff :> \hbb, MemWord(rp, \h100) @@ 5 :> \hbb),
    Next1(3, ramp :> \h3f @@ MemWord(rp, 0),
          MemWord(rp, \h00ff) @@ ramp :> \h3f @@ 5 :> \hbb)>>

\* A displacement of 15 from p, to at.
Displaced(rp, ramp, p, at) ==
  Next1(4, ramp :> 0 @@ MemWord(rp, p) @@ at :> \hba,
        MemWord(rp, p) @@ ramp :> 0 @@ 5 :> \hba)

test_ldx    == Test(LoadX, Loads(REGP_X, RAMPX, \h3effff, \h3e))
test_ldx64  == Test(LoadX, Loads(REGP_X, RAMPX, \hffff, \h3f))
test_ldx256 == Test(LoadX, Loads256(REGP_X, RAMPX))

test_ldy    == Test(LoadY, Loads(REGP_Y, RAMPY, \h3effff, \h3e)
                             \o <<Displaced(REGP_Y, RAMPY, \hfff1, \h10000)>>)
test_ldy64  == Test(LoadY, Loads(REGP_Y, RAMPY, \hffff, \h3f)
                             \o <<Displaced(REGP_Y, RAMPY, \hfff1, 0)>>)
test_ldy256 == Test(LoadY, Loads256(REGP_Y, RAMPY)
                             \o <<Next1(4, MemWord(REGP_Y, \h5f1) @@ 0 :> \hba,
                                        MemWord(REGP_Y, \h5f1) @@ 5 :> \hba)>>)

test_ldz    == Test(LoadZ, Loads(REGP_Z, RAMPZ, \h3effff, \h3e)
                             \o <<Displaced(REGP_Z, RAMPZ, \hfff1, \h10000)>>)
test_ldz64  == Test(LoadZ, Loads(REGP_Z, RAMPZ, \hffff, \h3f)
                             \o <<Displaced(REGP_Z, RAMPZ, \hfff1, 0)>>)
test_ldz256 == Test(LoadZ, Loads256(REGP_Z, RAMPZ)
                             \o <<Displaced(REGP_Z, RAMPZ, \h3ff1, 0)>>)

test_ldi == Test(<<LDI(17, \hff)>>, <<Next1(1, Nothing, 17 :> \hff)>>)

test_lds ==
  Test(LDS(1, \hbeef), <<Next1(2, RAMPD :> 1 @@ \h1beef :> \hc0, 1 :> \hc0)>>)
test_lds64 ==
  Test(LDS(1, \hbeef), <<Next1(2, RAMPD :> 1 @@ \hbeef :> \hc0, 1 :> \hc0)>>)

test_lsr ==
  LET s == SREG_I + SREG_T + SREG_H
  IN  Test(<<LSR(1), LSR(1), LSR(1)>>,
           <<Next1(1, SREG :> s + SREG_N @@ 1 :> \hff,
                   1 :> \h7f @@ SREG :> s + SREG_C + SREG_V + SREG_S),
             Next1(2, 1 :> 1, 1 :> 0 @@ SREG :> s + SREG_C + SREG_Z + SREG_V + SREG_S),
             Next1(3, 1 :> 0, 1 :> 0 @@ SREG :> s + SREG_Z)>>)

test_neg ==
  LET s == SREG_I + SREG_T
  IN  Test(<<NEG(31), NEG(31), NEG(31)>>,
           <<Next1(1, SREG :> s @@ 31 :> \h55,
                   31 :> \hab @@ SREG :> s + SREG_C + SREG_N + SREG_S + SREG_H),
             Next1(2, 31 :> \h80, 31 :> \h80 @@ SREG :> s + SREG_C + SREG_N + SREG_V),
             Next1(3, 31 :> 0, 31 :> 0 @@ SREG :> s + SREG_Z)>>)

test_pop ==
  Test(<<POP(31)>>, <<Next1(1, \hffff :> \hbe @@ Sp(\hfffe), Sp(\hffff) @@ 31 :> \hbe)>>)

-----------------------------------------------------------------------------
(* Jumps, calls, returns and skips.                                        *)

\* The second call is made with pc set back.
Again(step) == [step EXCEPT !.from = PC_START + 1]

test_rcall ==
  Test(<<RCALL(\h7ff), RCALL(-1)>>,
       <<Next1(1 + \h7ff, Sp(\hffff), Sp(\hfffd) @@ Pushed(\hffff, PC_START + 1)),
         Again(Next1(2 - 1, Nothing, Sp(\hfffb) @@ Pushed(\hfffd, PC_START + 2)))>>)

test_rcall22 ==
  Test(<<RCALL(\h7ff), RCALL(-1)>>,
       <<Next1(1 + \h7ff, Sp(\hffff), Sp(\hfffc) @@ Pushed22(\hffff, PC_START + 1)),
         Again(Next1(2 - 1, Nothing, Sp(\hfff9) @@ Pushed22(\hfffc, PC_START + 2)))>>)

test_rjmp ==
  Test(<<RJMP(\h7ff), RJMP(-1)>>,
       <<Next1(1 + \h7ff, Sp(\hffff), Sp(\hffff)),
         Again(Next1(2 - 1, Nothing, Sp(\hffff)))>>)

test_ret ==
  Test(<<RET>>, <<Step(Sp(\hfffd) @@ \hfffe :> \hab @@ \hffff :> \hcd, \habcd, Sp(\hffff))>>)

test_ret22 ==
  Test(<<RET>>,
       <<Step(Sp(\hfffc) @@ \hfffd :> \hf0 @@ \hfffe :> \hab @@ \hffff :> \hcd,
              \h30abcd, Sp(\hffff))>>)

test_reti ==
  Test(<<RETI>>,
       <<Step(Sp(\hfffd) @@ \hfffe :> \hab @@ \hffff :> \hcd @@ SREG :> 0,
              \habcd, SREG :> SREG_I @@ Sp(\hffff))>>)

test_reti22 ==
  Test(<<RETI>>,
       <<Step(Sp(\hfffc) @@ \hfffd :> \hf0 @@ \hfffe :> \hab @@ \hffff :> \hcd
                @@ SREG :> 0,
              \h30abcd, SREG :> SREG_I @@ Sp(\hffff))>>)

test_ror ==
  LET s == SREG_I + SREG_T + SREG_H
  IN  Test(<<ROR(5), ROR(5), ROR(5)>>,
           <<Next1(1, SREG :> s @@ 5 :> 0, 5 :> 0 @@ SREG :> s + SREG_Z),
             Next1(2, 5 :> \hf1 @@ SREG :> s + SREG_C,
                   5 :> \hf8 @@ SREG :> s + SREG_C + SREG_N + SREG_S),
             Next1(3, 5 :> 1 @@ SREG :> s,
                   5 :> 0 @@ SREG :> s + SREG_C + SREG_Z + SREG_V + SREG_S)>>)

test_sbc ==
  LET s == SREG_I + SREG_T
      Sbc(n, rd, rr, sreg, res, flags) ==
        Next1(n, SREG :> s + sreg @@ 5 :> rd @@ 4 :> rr, 5 :> res @@ SREG :> s + flags)
  IN  Test(<<SBC(5, 4), SBC(5, 4), SBC(5, 4), SBC(5, 4)>>,
           <<Sbc(1, 0, 0, 0, 0, 0),
             Sbc(2, 1, 0, SREG_Z + SREG_C, 0, SREG_Z),
             Sbc(3, 0, \hfe, 0, 2, SREG_H + SREG_C),
             Sbc(4, \h80, 1, 0, \h7f, SREG_H + SREG_V + SREG_S)>>)

test_sbci ==
  LET s == SREG_I + SREG_T
  IN  Test(<<SBCI(17, \hff)>>,
           <<Next1(1, 17 :> 0 @@ SREG :> s + SREG_C,
                   17 :> 0 @@ SREG :> s + SREG_Z + SREG_C + SREG_H)>>)

test_subi ==
  LET s == SREG_I + SREG_T
  IN  Test(<<SUBI(17, \h7f)>>,
           <<Next1(1, 17 :> \h80 @@ SREG :> s,
                   17 :> 1 @@ SREG :> s + SREG_V + SREG_S + SREG_H)>>)

test_sbic ==
  Test(<<SBIC(\h1f, 7), SBIC(\h1e, 5)>> \o CALL(\h3fbeef) \o <<SBIC(0, 0), NOP, NOP>>,
       <<Next1(1, IO_BASE + \h1f :> \h80, Nothing),
         Next1(4, IO_BASE + \h1e :> \hdf, Nothing),
         Next1(6, IO_BASE :> \hfe, Nothing), Next1(7, Nothing, Nothing)>>)

test_sbis == Test(<<SBIS(0, 0), NOP>>, <<Next1(2, IO_BASE :> 1, Nothing)>>)

test_sbiw ==
  LET s == SREG_I + SREG_T + SREG_H
  IN  Test(<<SBIW(30, 63)>>,
           <<Next1(1, 31 :> \hff @@ 30 :> \h3e @@ SREG :> s,
                   30 :> \hff @@ 31 :> \hfe @@ SREG :> s + SREG_S + SREG_N)>>)

test_sbrc ==
  Test(<<SBRC(31, 7), SBRC(30, 5)>> \o CALL(\h3fbeef) \o <<SBRC(0, 0), NOP, NOP>>,
       <<Next1(1, 31 :> \h80, Nothing), Next1(4, 30 :> \hdf, Nothing),
         Next1(6, 0 :> \hfe, Nothing), Next1(7, Nothing, Nothing)>>)

test_sbrs == Test(<<SBRS(0, 0), NOP>>, <<Next1(2, 0 :> 1, Nothing)>>)

-----------------------------------------------------------------------------
(* Stores.                                                                 *)

\* At 0x100, again with an increment, and below 0x3f0000.
Stores(rp, ramp) ==
  <<Next1(1, 5 :> \haa @@ ramp :> 0 @@ MemWord(rp, \h100),
          MemWord(rp, \h100) @@ \h100 :> \haa),
    Next1(2, Nothing, MemWord(rp, \h101)),
    Next1(3, ramp :> \h3f @@ MemWord(rp, 0) @@ 5 :> \h55,
          MemWord(rp, \hffff) @@ ramp :> \h3e @@ \h3effff :> \h55)>>

test_stx == Test(<<STX(5), STXP(5), STMX(5)>>, Stores(REGP_X, RAMPX))

test_stx64 ==
  Test(<<STMX(5)>>,
       <<Next1(1, RAMPX :> 1 @@ MemWord(REGP_X, 0) @@ 5 :> \h55,
               MemWord(REGP_X, \hffff) @@ RAMPX :> 1 @@ \hffff :> \h55)>>)

test_stx256 ==
  Test(<<STMX(5)>>,
       <<Next1(1, RAMPX :> \h12 @@ MemWord(REGP_X, \h3400) @@ 5 :> \h55,
               MemWord(REGP_X, \h34ff) @@ RAMPX :> \h12 @@ \hff :> \h55)>>)

test_sty ==
  Test(<<STDY(5, 0), STYP(5), STMY(5), STDY(31, 63)>>,
       Stores(REGP_Y, RAMPY)
         \o <<Next1(4, RAMPY :> \hff @@ MemWord(REGP_Y, \hffff) @@ 31 :> \h55,
                    MemWord(REGP_Y, \hffff) @@ RAMPY :> \hff @@ \h3e :> \h55)>>)

test_sty64 ==
  Test(<<STYP(5), STDY(31, 63)>>,
       <<Next1(1, 5 :> \haa @@ RAMPY :> 1 @@ MemWord(REGP_Y, \hffff),
               \hffff :> \haa @@ MemWord(REGP_Y, 0)),
         Next1(2, RAMPY :> 5 @@ MemWord(REGP_Y, \hffff) @@ 31 :> \h55,
               MemWord(REGP_Y, \hffff) @@ \h3e :> \h55)>>)

test_styz256 ==
  Test(<<STMY(5), STDY(31, 63), STMZ(5), STDZ(29, 63)>>,
       <<Next1(1, RAMPY :> 1 @@ MemWord(REGP_Y, 0) @@ 5 :> \h55,
               MemWord(REGP_Y, \h00ff) @@ RAMPY :> 1 @@ \hff :> \h55),
         Next1(2, MemWord(REGP_Y, \h1ff) @@ 31 :> \h55,
               MemWord(REGP_Y, \h1ff) @@ \h3e :> \h55),
         Next1(3, RAMPZ :> 1 @@ MemWord(REGP_Z, 0) @@ 5 :> \h44,
               MemWord(REGP_Z, \h00ff) @@ RAMPZ :> 1 @@ \hff :> \h44),
         Next1(4, MemWord(REGP_Z, \h1ff) @@ 29 :> \h66,
               MemWord(REGP_Z, \h1ff) @@ \h3e :> \h66)>>)

test_sts ==
  Test(STS(31, \h2345), <<Next1(2, RAMPD :> 1 @@ 31 :> \h1b, \h12345 :> \h1b)>>)
test_sts64 ==
  Test(STS(31, \h2345), <<Next1(2, RAMPD :> 1 @@ 31 :> \h1b, \h2345 :> \h1b)>>)
test_sts256 ==
  Test(STS(31, \h2345), <<Next1(2, 31 :> \h1b, \h45 :> \h1b)>>)

test_swap == Test(<<SWAP(31)>>, <<Next1(1, 31 :> \ha5, 31 :> \h5a)>>)

test_xch ==
  LET at == \habcd
  IN  Test(<<XCH(29), LAS(29), LAC(29), LAT(29)>>,
           <<Next1(1, MemWord(REGP_Z, at) @@ at :> \hfe @@ 29 :> \h12,
                   29 :> \hfe @@ at :> \h12),
             Next1(2, at :> \ha5 @@ 29 :> \h5a, 29 :> \ha5 @@ at :> \hff),
             Next1(3, 29 :> \ha5, 29 :> \hff @@ at :> \h5a),
             Next1(4, 29 :> \hd2 @@ at :> \h3c, 29 :> \h3c @@ at :> \hee)>>)

-----------------------------------------------------------------------------
(* DES: key, input and output of sixteen trials.  What OpenSSL makes of    *)
(* other inputs the tests do not say.                                      *)

Trial(enc, key, inp, exp) == [enc |-> enc, key |-> key, inp |-> inp, exp |-> exp]

trials ==
  <<
    Trial(TRUE, <<\h07, \h6e, \hb0, \h8a, \h16, \hec, \h37, \hce>>,
      <<\h1f, \h40, \hec, \hd7, \h46, \h8e, \hb3, \h23>>,
      <<\hc3, \h83, \h83, \hf7, \h0f, \h86, \ha4, \he1>>),
    Trial(TRUE, <<\hf1, \h10, \hfe, \hc1, \h5d, \h62, \h7c, \hd3>>,
      <<\hf9, \ha6, \hab, \h9b, \h0b, \hc6, \h76, \h7a>>,
      <<\h94, \hda, \h96, \hd1, \hc2, \hf2, \hb6, \h94>>),
    Trial(TRUE, <<\h6d, \hc7, \h4a, \hd5, \h16, \ha7, \h1a, \h1a>>,
      <<\h3f, \h4e, \he4, \h13, \hc6, \h20, \h98, \h89>>,
      <<\h68, \hc1, \he5, \h18, \h0c, \h60, \h5f, \h49>>),
    Trial(TRUE, <<\hb0, \h64, \h67, \hd3, \hdf, \h7a, \hb9, \hd0>>,
      <<\h3c, \h28, \h83, \h1b, \hf2, \h7b, \hb6, \ha3>>,
      <<\h11, \h83, \h95, \hd1, \h55, \h87, \h06, \h7c>>),
    Trial(TRUE, <<\h98, \h86, \ha4, \he6, \ha7, \ha8, \hc2, \h20>>,
      <<\hf4, \h49, \h53, \h50, \hb1, \h46, \h16, \h4b>>,
      <<\hc8, \hc8, \hf6, \h91, \h5f, \hb7, \h27, \hed>>),
    Trial(TRUE, <<\h92, \h64, \hd9, \hb0, \hf4, \h10, \h4a, \hce>>,
      <<\ha6, \h58, \h5c, \h6f, \h20, \h51, \hfb, \hec>>,
      <<\h46, \he7, \h54, \h01, \h81, \hec, \h64, \h4c>>),
    Trial(TRUE, <<\h7a, \h02, \h89, \hae, \h1f, \h5d, \hf4, \h32>>,
      <<\ha4, \hd3, \heb, \h27, \h5e, \hd9, \h48, \h66>>,
      <<\h72, \hcb, \h22, \h2a, \he2, \h62, \hf2, \h2e>>),
    Trial(TRUE, <<\h0b, \hea, \h9e, \h52, \h26, \ha4, \h57, \h40>>,
      <<\h64, \hb3, \h32, \h39, \h86, \heb, \h1e, \h8b>>,
      <<\hbd, \hc1, \hdf, \h35, \h78, \h75, \h61, \h25>>),
    Trial(FALSE, <<\hda, \h98, \ha1, \hc7, \h3b, \hea, \h45, \had>>,
      <<\hac, \hc3, \hd6, \h88, \h17, \h4c, \h75, \he1>>,
      <<\h54, \h16, \h69, \h44, \hea, \h93, \h0f, \h1a>>),
    Trial(FALSE, <<\h1c, \h26, \hb9, \hb9, \hf7, \hef, \hc2, \h40>>,
      <<\h91, \h05, \h89, \hae, \hc9, \he5, \h26, \h2f>>,
      <<\h8f, \h31, \hf5, \hdc, \ha8, \h44, \hca, \h3f>>),
    Trial(FALSE, <<\h94, \hdf, \h1a, \h32, \hf2, \h31, \h6b, \hbf>>,
      <<\hff, \h75, \h50, \h3e, \hee, \hf9, \hf2, \hde>>,
      <<\h0d, \hd4, \hf3, \he8, \h50, \hb9, \h4e, \h83>>),
    Trial(FALSE, <<\h89, \hbf, \he9, \hc4, \h10, \h3d, \hc1, \he6>>,
      <<\h3c, \h1e, \hd0, \hbd, \h88, \hda, \hc6, \hc0>>,
      <<\h88, \h12, \hf7, \h85, \h09, \hb9, \h99, \h75>>),
    Trial(FALSE, <<\h76, \h6d, \h16, \h43, \h25, \h64, \h43, \h6e>>,
      <<\h48, \h8c, \h07, \hb3, \h06, \hb9, \hee, \h7f>>,
      <<\hf9, \ha1, \h5c, \h3b, \hdf, \h32, \hca, \h19>>),
    Trial(FALSE, <<\ha4, \h76, \h76, \hb9, \h37, \h91, \ha7, \h3b>>,
      <<\h32, \hf1, \h51, \h3c, \h87, \h53, \hb1, \hf3>>,
      <<\hd7, \h27, \h1e, \h0f, \hbf, \hb2, \haa, \hee>>),
    Trial(FALSE, <<\hf2, \h16, \hf8, \hc1, \hce, \h8a, \h37, \hc7>>,
      <<\hac, \h5e, \hb1, \h68, \hf9, \h46, \hba, \h12>>,
      <<\hc8, \h79, \h9b, \hb8, \hed, \h32, \hf3, \h02>>),
    Trial(FALSE, <<\hd0, \ha7, \hdc, \hdc, \hf2, \hc1, \h20, \h4a>>,
      <<\h50, \h75, \h0b, \h81, \h76, \h40, \hde, \h01>>,
      <<\h0b, \h3f, \h6a, \hca, \hb6, \hcd, \h40, \h73>>)
  >>

Bytes(at, b) == [a \in at..at + 7 |-> b[a - at + 1]]

\* SREG is written whole: only H of it is ever set.
test_des ==
  LET Begin(t) == Bytes(0, t.inp) @@ Bytes(8, t.key) @@ SREG :> IF t.enc THEN 0 ELSE SREG_H
      Round(t, n) ==
        [Next1(n, IF n = 1 THEN Begin(t) ELSE Nothing,
                  IF n = 16 THEN Bytes(0, t.exp) ELSE Nothing)
           EXCEPT !.from = IF n = 1 THEN PC_START ELSE -1]
  IN  Test([n \in 1..16 |-> DES(n - 1)],
           FlattenSeq([i \in DOMAIN trials |-> [n \in 1..16 |-> Round(trials[i], n)]]))

-----------------------------------------------------------------------------
(* The fixtures and the suite.                                             *)

Knob(pc22, max64k, max256b) ==
  [pc22 |-> pc22, pc_mem_max_64k |-> max64k, pc_mem_max_256b |-> max256b]

setup_machine    == Knob(FALSE, FALSE, FALSE)
setup_machine22  == Knob(TRUE, FALSE, FALSE)
setup_machine64  == Knob(FALSE, TRUE, FALSE)
setup_machine256 == Knob(FALSE, TRUE, TRUE)

With(fixture, tests) == {[k |-> fixture, base |-> PC_START] @@ t : t \in tests}

suite_instr ==
  With(setup_machine,
       {test_nop, test_and, test_andi, test_bclr, test_bld, test_bset, test_bst,
        test_call, test_cbisbi, test_in, test_jmp, test_ldi, test_lds, test_mov,
        test_or, test_ori, test_out, test_pop, test_push, test_ldx, test_ldy,
        test_ldz, test_ret, test_reti, test_stx, test_sty, test_sts, test_swap,
        test_xch, test_xor, test_movw, test_adc, test_add, test_adiw, test_com,
        test_cpc, test_cpi, test_dec, test_des, test_fmul, test_fmuls, test_fmulsu,
        test_inc, test_mul, test_muls, test_mulsu, test_neg, test_sbc, test_sbci,
        test_subi, test_sbiw, test_asr, test_lsr, test_ror, test_brb, test_cpse,
        test_icall, test_ijump, test_rcall, test_rjmp, test_sbic, test_sbis,
        test_sbrc, test_sbrs})
  \cup (IF PC_START = 0 THEN With(setup_machine, {test_elpm}) ELSE {})
  \cup With(setup_machine22,
       {test_call22, test_eicall22, test_eijump22, test_jmp22, test_rcall22,
        test_ret22, test_reti22})
  \cup With(setup_machine256,
       {test_ldx256, test_ldy256, test_ldz256, test_sts256, test_stx256, test_styz256})
  \cup With(setup_machine64,
       {test_lds64, test_ldx64, test_ldy64, test_ldz64, test_sts64, test_stx64,
        test_sty64})
=============================================================================
