----------------------------- MODULE MCAvrTests -----------------------------
(***************************************************************************)
(* The unit tests of the repository run on the model, where they install   *)
(* their code and elsewhere in flash; and every 16-bit word there is,      *)
(* decoded and executed once on each of a few machines.                    *)
(***************************************************************************)
EXTENDS AvrCore, MCAvrAsm

VARIABLES
  test,               \* the unit test, or the single word executed
  done,               \* calls of emulate1() so far
  flash, pc, memory, insns, trapped

vars == <<test, done, flash, pc, memory, insns, trapped>>

At(PC_START) == INSTANCE AvrTests

\* OpenSSL's cipher is known by the trials of test_des.
MCDes(key, block, decrypt) ==
  LET known == {t \in ToSet(At(0)!trials) :
                  /\ t.enc = ~decrypt
                  /\ \A i \in 0..7 : t.key[i + 1] = key[i] /\ t.inp[i + 1] = block[i]}
  IN  IF known = {} THEN block ELSE LET t == CHOOSE t \in known : TRUE
                                    IN  [i \in 0..7 |-> t.exp[i + 1]]

-----------------------------------------------------------------------------
Bases == {0, 766}
Suites == UNION {At(base)!suite_instr : base \in Bases}

\* Machines to execute a word on: pointers and stack clear of the registers, SREG
\* all ones or all zeros.
Machines ==
  <<[k |-> At(0)!setup_machine22, sreg |-> 255], [k |-> At(0)!setup_machine256, sreg |-> 0]>>
MachineMemory ==
  [i \in DOMAIN Machines |->
     [a \in 0..95 |->
        CASE a \in 0..25 -> (37 * a + 11) % 256
          [] a \in {27, 29, 31} -> 1
          [] a \in {26, 28, 30} -> 160 + a
          [] a = SP_HI -> 2 [] a = SREG -> Machines[i].sreg [] OTHER -> 128]]
WordBase == 100

WordTest(w, i) ==
  [k |-> Machines[i].k, machine |-> i, base |-> WordBase, word |-> w,
   code |-> <<w, 500>>, steps |-> <<>>]

\* install_words()
install_words(f, code, addr) ==
  [a \in addr..addr + Len(code) - 1 |-> code[a - addr + 1]] @@ f

Init ==
  /\ \/ \E t \in Suites : test = t @@ [word |-> -1] /\ memory = <<>>
     \/ \E w \in 0..65535, i \in DOMAIN Machines :
          test = WordTest(w, i) /\ memory = MachineMemory[i]
  /\ flash = install_words(<<>>, test.code, test.base)
  /\ pc = test.base
  /\ done = 0 /\ insns = 0 /\ trapped = FALSE

\* emulate1() from p with memory m.
Call(p, m) ==
  \E r \in {emulate1(test.k, flash', p, m)} :
      /\ pc' = r.pc /\ memory' = r.mem /\ trapped' = r.trap
      /\ insns' = insns + IF r.done THEN 1 ELSE 0
      /\ done' = done + 1
      /\ UNCHANGED test

\* A test stores what the next call is to find, and makes it.
TestCalls ==
  /\ test.word = -1 /\ done < Len(test.steps) /\ ~trapped
  /\ LET s == test.steps[done + 1]
     IN  /\ flash' = s.words @@ flash
         /\ Call(IF s.from = -1 THEN pc ELSE s.from, s.puts @@ memory)

WordCalls == test.word # -1 /\ done = 0 /\ UNCHANGED flash /\ Call(pc, memory)

Next == TestCalls \/ WordCalls
Spec == Init /\ [][Next]_vars

-----------------------------------------------------------------------------
(* The unit tests.                                                         *)

\* Every unit test of check_instr.c passes: after each of its calls pc, registers,
\* flags and data memory are what the test asserts, every call counted one
\* instruction, and the process is still there.  Where in flash the code is
\* installed makes no difference, but to the test that reads its own code.
TestsPass ==
  test.word = -1 /\ done > 0 =>
    LET s == test.steps[done]
    IN  /\ ~trapped /\ pc = s.pc /\ insns = done
        /\ \A a \in DOMAIN s.gets : membyte(memory, a) = s.gets[a]

-----------------------------------------------------------------------------
(* Every word.                                                             *)

Executed == test.word # -1 /\ done = 1

\* No word has two rows of avr_instr, so the order of the rows, which the search
\* of emulate1() stops at the first match of, is of no consequence.
Unambiguous == Executed => Cardinality(Rows(test.word)) <= 1

\* The operands a row takes out of a word are what the row's handler expects:
\* a bit number once 16 is taken off, an even register pair, r16..r31 or r16..r23
\* for the multiplications, a register; and the long instructions are LDS, STS,
\* JMP and CALL.
OperandsFit ==
  Executed /\ IsInstr(test.word) =>
    LET row == Row(test.word)
        d   == Operands(test.word, row, 0)
        Is(codes) == row.code \in codes
    IN  /\ d.ddddd \in 0..31 /\ d.rrrrr \in 0..31
        /\ Is({"bld", "bst", "brb", "sbrcs", "sbics", "cbisbi"}) => d.rrrrr - 16 \in 0..7
        /\ Is({"bclrset"}) => d.ddddd - 16 \in 0..7
        /\ Is({"movw"}) => 2 * (d.ddddd - 16) \in 0..30 /\ 2 * (d.rrrrr - 16) \in 0..30
        /\ Is({"des"}) => d.ddddd - 16 \in 0..15
        /\ Is({"muls", "cpi", "ldi", "andi", "ori"}) => d.ddddd >= 16
        /\ Is({"mulsu", "fmul", "fmulsu"}) => d.ddddd \in 16..23 /\ d.rrrrr \in 16..23
        /\ SizeOf(row) = 2 <=> Is({"lds", "sts", "jmp", "call"})

R == 0..31

\* The words an assembler can produce, form by form.
Forms ==
  UNION {{ADD(d, r), ADC(d, r), SUB(d, r), SBC(d, r), CP(d, r), CPC(d, r), CPSE(d, r),
          AND(d, r), EOR(d, r), OR(d, r), MOV(d, r), MUL(d, r)} : d \in R, r \in R}
  \cup {MULS(d, r) : d \in 16..31, r \in 16..31}
  \cup UNION {{MULSU(d, r), FMUL(d, r), FMULS(d, r), FMULSU(d, r)} :
                d \in 16..23, r \in 16..23}
  \cup {MOVW(2 * d, 2 * r) : d \in 0..15, r \in 0..15}
  \cup UNION {{CPI(d, k), SBCI(d, k), SUBI(d, k), ORI(d, k), ANDI(d, k), LDI(d, k)} :
                d \in 16..31, k \in Byte}
  \cup UNION {{ADIW(d, k), SBIW(d, k)} : d \in {24, 26, 28, 30}, k \in 0..63}
  \cup UNION {{COM(d), NEG(d), SWAP(d), INC(d), ASR(d), LSR(d), ROR(d), DEC(d), PUSH(d),
               POP(d), Head(LDS(d, 0)), Head(STS(d, 0)), LDX(d), LDXP(d), LDMX(d), STX(d),
               STXP(d), STMX(d), LDYP(d), LDMY(d), STYP(d), STMY(d), LDZP(d), LDMZ(d),
               STZP(d), STMZ(d), LPMZ(d), LPMZP(d), ELPMZ(d), ELPMZP(d), XCH(d), LAS(d),
               LAC(d), LAT(d)} : d \in R}
  \cup UNION {{LDDY(d, q), LDDZ(d, q), STDY(d, q), STDZ(d, q)} : d \in R, q \in 0..63}
  \cup UNION {{BSET(s), BCLR(s)} : s \in 0..7} \cup {DES(i) : i \in 0..15}
  \cup UNION {{BRBS(s, k), BRBC(s, k)} : s \in 0..7, k \in -64..63}
  \cup UNION {{RJMP(k), RCALL(k)} : k \in -2048..2047}
  \cup UNION {{Head(JMP(65536 * h)), Head(CALL(65536 * h))} : h \in 0..63}
  \cup UNION {{BLD(d, b), BST(d, b), SBRC(d, b), SBRS(d, b)} : d \in R, b \in 0..7}
  \cup UNION {{CBI(a, b), SBIC(a, b), SBI(a, b), SBIS(a, b)} : a \in R, b \in 0..7}
  \cup UNION {{INP(d, a), OUTP(d, a)} : d \in R, a \in 0..63}
  \cup {NOP, RET, RETI, IJMP, ICALL, EIJMP, EICALL, LPM, ELPM, SLEEP, BREAK, WDR, SPM,
        SPMZP}

Assembled == {w : w \in Forms}      \* one set, built once

\* README.md: "Notably absent are SPM", SLEEP, WDR and BREAK.
Absent == {SLEEP, BREAK, WDR, SPM, SPMZP}

\* What the AVR instruction set manual leaves undefined.
Undefined ==
  UNION {{LDXP(d), LDMX(d), STXP(d), STMX(d)} : d \in {26, 27}}
  \cup UNION {{LDYP(d), LDMY(d), STYP(d), STMY(d)} : d \in {28, 29}}
  \cup UNION {{LDZP(d), LDMZ(d), STZP(d), STMZ(d), LPMZP(d), ELPMZP(d)} : d \in {30, 31}}

\* The decode table and the handlers' own checks together execute exactly the
\* instruction set: every word an assembler produces, but for the instructions
\* README.md names as absent, the undefined ones and the extended indirect jumps
\* of a machine without a 22-bit pc; any other word ends the process uncounted
\* and with memory as it was.
ExecutesTheSet ==
  Executed =>
    LET w == test.word
        stops == \/ w \notin Assembled \/ w \in Absent \cup Undefined
                 \/ w \in {EIJMP, EICALL} /\ ~test.k.pc22
    IN  /\ trapped <=> stops
        /\ insns = IF stops THEN 0 ELSE 1
        /\ stops => memory = MachineMemory[test.machine]
=============================================================================
