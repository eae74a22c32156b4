------------------------------ MODULE AvrSteps ------------------------------
(***************************************************************************)
(* What one step of the processor may do and has to do, for any program:   *)
(* which bytes it writes, where it goes on, when it ends the process, what *)
(* a pointer, a call and a return amount to.  The handlers of instr.c      *)
(* share code between instructions; here each is described on its own.     *)
(***************************************************************************)
EXTENDS AvrCpu

\* The instruction about to be emulated, and its operands.
Code    == Row(romword(Flash, pc)).code
Decoded == Operands(romword(Flash, pc), Row(romword(Flash, pc)), romword(Flash, pc + 1))
Rd      == membyte(memory, Decoded.ddddd)
Rr      == membyte(memory, Decoded.rrrrr)
SregHas(f) == IsSet(membyte(memory, SREG), SregBit[f])
Following == pc + InstrSize(Flash, pc)

-----------------------------------------------------------------------------
(* Pointers.  A pointer is a number below the size of data memory, in two  *)
(* registers and, where memory is larger than 64 KiB, a RAMP register.     *)

DataSize ==
  IF knobs.pc_mem_max_256b THEN 256
  ELSE IF knobs.pc_mem_max_64k THEN 65536 ELSE MemorySize

Pointer(m, rp, ramp) == (memword(m, rp) + 65536 * membyte(m, ramp)) % DataSize

Loads  == {"ldx", "ldyz"}
Stores == {"stx", "styz"}

\* The pointer of the instruction, how it moves it (1: after, 2: before the
\* access), and the distance of the byte it accesses.
Rp ==
  IF Code \in {"ldx", "stx"} THEN REGP_X
  ELSE IF IsSet(Decoded.instr, 3) THEN REGP_Y ELSE REGP_Z
Ramp == IF Rp = REGP_X THEN RAMPX ELSE IF Rp = REGP_Y THEN RAMPY ELSE RAMPZ
Displaced == Code \in {"ldyz", "styz"} /\ ~IsSet(Decoded.instr, 12)
Mode == IF Displaced THEN 0 ELSE Field(Decoded.instr, 1, 0)
Moves == Mode \in {1, 2}
Distance == IF Displaced THEN Displacement(Decoded) ELSE IF Mode = 2 THEN -1 ELSE 0

Here == Pointer(memory, Rp, Ramp)
Accessed == (Here + Distance) % DataSize

\* The bytes a moving pointer is kept in.
PointerBytes ==
  IF ~Moves THEN {}
  ELSE IF knobs.pc_mem_max_256b THEN {Rp}
  ELSE IF knobs.pc_mem_max_64k THEN {Rp, Rp + 1} ELSE {Rp, Rp + 1, Ramp}

PointerStep ==
  /\ Moves => Pointer(memory', Rp, Ramp) = (Here + IF Mode = 1 THEN 1 ELSE -1) % DataSize
  /\ Code \in Loads => membyte(memory', Decoded.ddddd) = membyte(memory, Accessed)
  /\ Code \in Stores /\ Accessed \notin PointerBytes => membyte(memory', Accessed) = Rd

\* On every size of memory and at every wrap, a load and a store through X, Y or Z
\* reach the byte the pointer, its displacement or its decrement says, and leave
\* the pointer one further, one back or where it was: instr_ldst_common() does so
\* with masks and shifts that differ for the three sizes.
PointerAccess ==
  [][Fetches(Flash, pc) /\ Code \in Loads \cup Stores /\ ~trapped' => PointerStep]_vars

-----------------------------------------------------------------------------
(* Calls and returns.                                                      *)

FrameSize == IF knobs.pc22 THEN 3 ELSE 2

\* The address on top of the stack, its low byte pushed first.
ReturnAddress(m) ==
  LET sp == getsp(m) + FrameSize
  IN  membyte(m, sp) + 256 * membyte(m, sp - 1)
        + IF knobs.pc22 THEN 65536 * membyte(m, sp - 2) ELSE 0

Calls ==
  \/ Code = "call"
  \/ Code = "eicalljump" /\ IsSet(Decoded.instr, 8)
  \/ Code = "rcalljmp" /\ IsSet(Decoded.instr, 12)
Returns == Code \in {"ret", "reti"}

CallStep ==
  /\ getsp(memory') = getsp(memory) - FrameSize
  /\ ReturnAddress(memory') = Following % IF knobs.pc22 THEN 16777216 ELSE 65536

ReturnStep ==
  /\ getsp(memory') = getsp(memory) + FrameSize
  /\ pc' = ReturnAddress(memory) % IF knobs.pc22 THEN 4194304 ELSE 65536

\* A frame clear of SREG and the registers, to push and to pop, that does not wrap.
RoomToPush == getsp(memory) - FrameSize >= SREG
RoomToPop == getsp(memory) >= SREG /\ getsp(memory) + FrameSize < 65536

\* However a subroutine is called, what is on top of the stack afterwards is the
\* address of the instruction after the call, of two bytes or three; and a return
\* goes where the top of the stack says and takes just that off.  So a subroutine
\* that leaves its frame alone and SP where it found it comes back to its caller.
\* Where the stack runs into SREG and the registers, or over 64 KiB, all bets are
\* off.  The pushes and the pops are written out in four handlers of instr.c, call,
\* rcall, icall and ret, which have to agree on the order of the bytes.
CallsReturn ==
  [][Fetches(Flash, pc) /\ ~trapped'
       => /\ Calls /\ RoomToPush => CallStep
          /\ Returns /\ RoomToPop => ReturnStep]_vars

-----------------------------------------------------------------------------
(* Skips, and the end of the process.                                      *)

SkipCodes == {"cpse", "sbrcs", "sbics"}

\* The instruction at pc skips the one after it.
SkipsNext ==
  LET set(v) == IsSet(Decoded.instr, 9) = IsSet(v, Decoded.rrrrr - 16)
  IN  \/ Code = "cpse" /\ Rd = Rr
      \/ Code = "sbrcs" /\ set(Rd)
      \/ Code = "sbics" /\ set(membyte(memory, IoBit(Decoded)))

Ends ==
  \/ ~Fetches(Flash, pc) \/ NotDefined(pc)
  \/ SkipsNext /\ ~Fetches(Flash, Following)

\* The process ends where there is no instruction, where it is undefined or not
\* implemented, or where a skip finds none to pass over, and only there.  What is
\* passed over is decoded and not executed: any instruction will do.
StopsExactly == [][trapped' <=> Ends]_vars

-----------------------------------------------------------------------------
(* What a step leaves alone.                                               *)

Computes ==
  {"adc", "cpc", "cpi", "and", "andi", "or", "ori", "xor", "com", "neg", "inc", "dec",
   "asr", "lsr", "ror", "adiw", "sbiw", "mul", "muls", "mulsu", "fmul", "fmulsu"}
Jumps == {"jmp", "call", "ret", "reti", "eicalljump", "rcalljmp", "brb"}

\* Nothing but SREG is written: CP, CPC and CPI.
Compares ==
  \/ Code = "cpc" /\ Field(Decoded.instr, 11, 10) = 1
  \/ Code = "cpi" /\ Field(Decoded.instr, 14, 13) # 2

Direct ==
  LET a == Decoded.imm_u16
            + IF knobs.pc_mem_max_64k THEN 0 ELSE 65536 * membyte(memory, RAMPD)
  IN  IF knobs.pc_mem_max_256b THEN a % 256 ELSE a

Pushed(n) == {(getsp(memory) - i) % 65536 : i \in 0..n - 1}

Products == {"mul", "muls", "mulsu", "fmul", "fmulsu"}
WordOps  == {"adiw", "sbiw"}

\* The result goes to Rd.
ToRd ==
  \/ Code \in Computes \ (Products \cup WordOps) /\ ~Compares
  \/ Code \in {"swap", "bld", "mov", "ldi", "in", "lds", "elpmz", "xch", "pop"} \cup Loads

When(cond, S) == IF cond THEN S ELSE {}

\* The bytes the instruction at pc may write.
MayWrite ==
  When(Code \in Computes \cup {"bclrset", "bst", "reti"}, {SREG})
    \cup When(ToRd, {Decoded.ddddd})
    \cup When(Code \in Products, {0, 1})
    \cup When(Code \in WordOps, {WordPair(Decoded), WordPair(Decoded) + 1})
    \cup When(Code = "movw", {2 * (Decoded.ddddd - 16), 2 * (Decoded.ddddd - 16) + 1})
    \cup When(Code = "des", 0..7)
    \cup When(Code = "elpm", {0})
    \cup When(Code = "elpmz" /\ IsSet(Decoded.instr, 0), {REGP_Z, REGP_Z + 1})
    \cup When(Code \in Loads \cup Stores, PointerBytes)
    \cup When(Code \in Stores, {Accessed})
    \cup When(Code = "sts", {Direct})
    \cup When(Code = "xch", {memword(memory, REGP_Z)})
    \cup When(Code = "cbisbi", {IoBit(Decoded)})
    \cup When(Code = "out", {IoPort(Decoded)})
    \cup When(Code = "push", Pushed(1))
    \cup When(Calls, Pushed(FrameSize))
    \cup When(Calls \/ Returns \/ Code \in {"push", "pop"}, {SP_LO, SP_HI})

FootprintStep ==
  /\ \A a \in (DOMAIN memory \cup DOMAIN memory') \ MayWrite :
       membyte(memory', a) = membyte(memory, a)
  /\ Code \in Computes => \A f \in {"T", "I"} : SregHas(f)' = SregHas(f)
  /\ Code \notin Jumps =>
       pc' = Following + IF SkipsNext THEN InstrSize(Flash, Following) ELSE 0

\* A comparison, a test or a branch writes no register, a transfer no flag, I and T
\* are out of reach of arithmetic, a RAMP register is written on the machine that
\* has more than 64 KiB alone, and whatever is not a jump goes on after itself,
\* or after the one instruction of one word or two that it skips.
Footprint == [][Fetches(Flash, pc) /\ ~trapped' => FootprintStep]_vars

-----------------------------------------------------------------------------
(* Arithmetic and logic: the numbers, and what SREG says of them.          *)

\* The carry that the next instruction finds.
Carry == IF SregHas("C") THEN 1 ELSE 0

\* After the step, flag f is set when P held, and otherwise clear.
Shows(f, P) == IsSet(membyte(memory', SREG), SregBit[f]) <=> P

\* The step goes on to the next instruction and writes SREG, and at most the bytes at S besides.
GoesOn(S) ==
  /\ ~trapped' /\ pc' = pc + InstrSize(Flash, pc)
  /\ \A a \in (DOMAIN memory \cup DOMAIN memory') \ (S \cup {SREG}) :
       membyte(memory', a) = membyte(memory, a)

\* The flags in F are as they were.
Keeps(F) == \A f \in F : Shows(f, SregHas(f))

\* ADD and ADC: the sum of the registers and, for ADC, the carry.
AddStep ==
  LET cin == IF IsSet(Decoded.instr, 12) THEN Carry ELSE 0
      sum == Signed(Rd, 8) + Signed(Rr, 8) + cin
      res == (Rd + Rr + cin) % 256
  IN  /\ GoesOn({Decoded.ddddd})
      /\ membyte(memory', Decoded.ddddd) = res
      /\ Shows("C", Rd + Rr + cin > 255)
      /\ Shows("H", (Rd % 16) + (Rr % 16) + cin > 15)
      /\ Shows("V", sum < -128 \/ sum > 127)
      /\ Shows("S", sum < 0)
      /\ Shows("N", Signed(res, 8) < 0)
      /\ Shows("Z", res = 0)
      /\ Shows("T", SregHas("T")) /\ Shows("I", SregHas("I"))

\* Rd less rr and cin, stored or not.  C and S compare the two numbers without and with a
\* sign, whether the difference fits or not.
SubStep(rr, cin, stored) ==
  LET diff == Signed(Rd, 8) - Signed(rr, 8) - cin
      res  == (Rd - rr - cin) % 256
  IN  /\ GoesOn(IF stored THEN {Decoded.ddddd} ELSE {})
      /\ stored => membyte(memory', Decoded.ddddd) = res
      /\ Shows("C", Rd < rr + cin)
      /\ Shows("H", Rd % 16 < (rr % 16) + cin)
      /\ Shows("V", diff < -128 \/ diff > 127)
      /\ Shows("S", diff < 0)
      /\ Shows("N", Signed(res, 8) < 0)
      /\ Shows("T", SregHas("T")) /\ Shows("I", SregHas("I"))

\* The carry a subtraction takes in: that of SBC, CPC and SBCI.
Borrow == IF IsSet(Decoded.instr, 12) THEN 0 ELSE Carry

\* CPI, SUBI and SBCI: CPI stores nothing.
SubImmediateStep ==
  /\ SubStep(Decoded.imm_u8, Borrow, Field(Decoded.instr, 14, 13) = 2)
  /\ Shows("Z", (Rd - Decoded.imm_u8 - Borrow) % 256 = 0)

\* CP, CPC, SUB and SBC: CP and CPC store nothing.  All four keep Z for a result of zero.
SubRegisterStep ==
  /\ SubStep(Rr, Borrow, Field(Decoded.instr, 11, 10) # 1)
  /\ Shows("Z", (Rd - Rr - Borrow) % 256 = 0 /\ SregHas("Z"))

\* INC and DEC: one more or one less.
CountStep(by) ==
  LET num == Signed(Rd, 8) + by
      res == (Rd + by) % 256
  IN  /\ GoesOn({Decoded.ddddd})
      /\ membyte(memory', Decoded.ddddd) = res
      /\ Shows("V", num < -128 \/ num > 127)
      /\ Shows("S", num < 0)
      /\ Shows("N", Signed(res, 8) < 0)
      /\ Shows("Z", res = 0)
      /\ Keeps({"C", "H", "T", "I"})

\* NEG: the number with the other sign.
NegStep ==
  LET num == 0 - Signed(Rd, 8)
      res == (0 - Rd) % 256
  IN  /\ GoesOn({Decoded.ddddd})
      /\ membyte(memory', Decoded.ddddd) = res
      /\ Shows("C", 0 < Rd)
      /\ Shows("H", 0 < Rd % 16)
      /\ Shows("V", num > 127)
      /\ Shows("S", num < 0)
      /\ Shows("N", Signed(res, 8) < 0)
      /\ Shows("Z", res = 0)
      /\ Keeps({"T", "I"})

\* ASR, LSR and ROR: half the number, with what comes in at the top.
HalfStep(top) ==
  LET res == (Rd \div 2) + IF top THEN 128 ELSE 0
  IN  /\ GoesOn({Decoded.ddddd})
      /\ membyte(memory', Decoded.ddddd) = res
      /\ Shows("C", Rd % 2 = 1) /\ Shows("S", Rd % 2 = 1)
      /\ Shows("N", top) /\ Shows("V", top # (Rd % 2 = 1))
      /\ Shows("Z", res = 0)
      /\ Keeps({"H", "T", "I"})

\* The bits that are in one of the two.
OneOf(S, T) == (S \cup T) \ (S \cap T)

\* AND, OR, EOR and COM: the bits B in Rd.  COM sets C, the others leave it.
LogicStep(B, carry) ==
  /\ GoesOn({Decoded.ddddd})
  /\ BitsOf(membyte(memory', Decoded.ddddd)) = B
  /\ Shows("V", FALSE) /\ Shows("N", 7 \in B) /\ Shows("S", 7 \in B) /\ Shows("Z", B = {})
  /\ Shows("C", carry) /\ Keeps({"H", "T", "I"})

\* ADIW and SBIW: a constant below 64 more or less in a pair of registers.
WordAddStep ==
  LET a   == WordPair(Decoded)
      n   == memword(memory, a)
      num == Signed(n, 16) + WordConst(Decoded)
      res == (n + WordConst(Decoded)) % 65536
  IN  /\ GoesOn({a, a + 1}) /\ memword(memory', a) = res
      /\ Shows("C", n + WordConst(Decoded) > 65535)
      /\ Shows("V", num > 32767) /\ Shows("S", num < 0)
      /\ Shows("N", Signed(res, 16) < 0) /\ Shows("Z", res = 0)
      /\ Keeps({"H", "T", "I"})

WordSubStep ==
  LET a   == WordPair(Decoded)
      n   == memword(memory, a)
      num == Signed(n, 16) - WordConst(Decoded)
      res == (n - WordConst(Decoded)) % 65536
  IN  /\ GoesOn({a, a + 1}) /\ memword(memory', a) = res
      /\ Shows("C", n < WordConst(Decoded))
      /\ Shows("V", num < -32768) /\ Shows("S", num < 0)
      /\ Shows("N", Signed(res, 16) < 0) /\ Shows("Z", res = 0)
      /\ Keeps({"H", "T", "I"})

\* The product of the registers, each with a sign or without.
Times(rds, rrs) ==
  (IF rds THEN Signed(Rd, 8) ELSE Rd) * (IF rrs THEN Signed(Rr, 8) ELSE Rr)

\* MUL, MULS and MULSU: the product, exactly, in r1:r0.
ProductStep(num, signed) ==
  /\ GoesOn({0, 1})
  /\ num = IF signed THEN Signed(memword(memory', 0), 16) ELSE memword(memory', 0)
  /\ Shows("C", IF signed THEN num < 0 ELSE num > 32767)
  /\ Shows("Z", num = 0) /\ Keeps({"N", "V", "S", "H", "T", "I"})

\* FMUL, FMULS and FMULSU: twice the product, whose top bit goes to C.
FractionStep(num) ==
  /\ GoesOn({0, 1})
  /\ memword(memory', 0) = (2 * num) % 65536
  /\ Shows("C", num % 65536 > 32767)
  /\ Shows("Z", (2 * num) % 65536 = 0) /\ Keeps({"N", "V", "S", "H", "T", "I"})

ArithmeticStep ==
  /\ Code = "adc" => AddStep
  /\ Code = "cpi" => SubImmediateStep
  /\ Code = "cpc" => SubRegisterStep
  /\ Code = "inc" => CountStep(1)
  /\ Code = "dec" => CountStep(-1)
  /\ Code = "neg" => NegStep
  /\ Code = "asr" => HalfStep(IsSet(Rd, 7))
  /\ Code = "lsr" => HalfStep(FALSE)
  /\ Code = "ror" => HalfStep(SregHas("C"))
  /\ Code = "and" => LogicStep(BitsOf(Rd) \cap BitsOf(Rr), SregHas("C"))
  /\ Code = "andi" => LogicStep(BitsOf(Rd) \cap BitsOf(Decoded.imm_u8), SregHas("C"))
  /\ Code = "or" => LogicStep(BitsOf(Rd) \cup BitsOf(Rr), SregHas("C"))
  /\ Code = "ori" => LogicStep(BitsOf(Rd) \cup BitsOf(Decoded.imm_u8), SregHas("C"))
  /\ Code = "xor" => LogicStep(OneOf(BitsOf(Rd), BitsOf(Rr)), SregHas("C"))
  /\ Code = "com" => LogicStep((0..7) \ BitsOf(Rd), TRUE)
  /\ Code = "adiw" => WordAddStep
  /\ Code = "sbiw" => WordSubStep
  /\ Code = "mul" => ProductStep(Times(FALSE, FALSE), FALSE)
  /\ Code = "muls" => ProductStep(Times(TRUE, TRUE), TRUE)
  /\ Code = "mulsu" => ProductStep(Times(TRUE, FALSE), TRUE)
  /\ Code = "fmul" => FractionStep(Times(FALSE, FALSE))
  /\ Code = "fmulsu" => FractionStep(Times(TRUE, ~IsSet(Decoded.instr, 3)))

\* Every instruction that computes leaves the number arithmetic on integers gives,
\* and flags that are true of that number, cut off or not: C and S are the order
\* of the operands of a subtraction without and with a sign, V says that the byte
\* or the word is not the number; Z of the subtractions of two registers is never
\* set, only kept.  The helpers of instr.c read the flags off the bits of operands
\* and result, and INC and DEC repair the chain of another helper.
ArithmeticExact == [][Fetches(Flash, pc) => ArithmeticStep]_vars

-----------------------------------------------------------------------------
(* Transfers.                                                              *)

\* The bits of v, with bit n as P says.
WithBit(v, n, P) == {k \in 0..7 : IF k = n THEN P ELSE IsSet(v, k)}

\* XCH, LAS, LAC and LAT: Rd gets the byte at Z as it was, which then has the bits
\* of Rd, has them too, has none of them, or has them the other way round.
ExchangeStep ==
  LET z    == memword(memory, REGP_Z)
      old  == membyte(memory, z)
      kind == Field(Decoded.instr, 1, 0)
      bits == BitsOf(membyte(memory', z))
  IN  /\ membyte(memory', Decoded.ddddd) = old
      /\ z # Decoded.ddddd =>
           /\ kind = 0 => bits = BitsOf(Rd)
           /\ kind = 1 => bits = BitsOf(old) \cup BitsOf(Rd)
           /\ kind = 2 => bits = BitsOf(old) \ BitsOf(Rd)
           /\ kind = 3 => bits = OneOf(BitsOf(old), BitsOf(Rd))

\* LPM and ELPM: the byte at Z of flash, whose words have their low byte first.
FlashStep(reg, extended) ==
  LET z    == memword(memory, REGP_Z)
      a    == IF extended THEN z + 65536 * membyte(memory, RAMPZ) ELSE z
      word == romword(Flash, a \div 2)
  IN  membyte(memory', reg) = IF a % 2 = 0 THEN word % 256 ELSE word \div 256

FlashMoves == memword(memory', REGP_Z) = (memword(memory, REGP_Z) + 1) % 65536

\* PUSH and POP, on a stack that does not reach SP itself nor the end of 64 KiB.
PushStep ==
  LET sp == getsp(memory)
  IN  /\ getsp(memory') = (sp - 1) % 65536
      /\ sp \notin {SP_LO, SP_HI} => membyte(memory', sp) = Rd

PopStep ==
  LET sp == getsp(memory)
  IN  /\ getsp(memory') = (sp + 1) % 65536
      /\ sp + 1 \notin {SP_LO, SP_HI, 65536}
           => membyte(memory', Decoded.ddddd) = membyte(memory, sp + 1)

\* SREG keeps its flags, but bit n, which is then as P says.
FlagGets(n, P) ==
  \A f \in DOMAIN SregBit : Shows(f, IF SregBit[f] = n THEN P ELSE SregHas(f))

TransferStep ==
  LET dest  == membyte(memory', Decoded.ddddd)
      bit   == Decoded.rrrrr - 16
      port  == IoPort(Decoded)
      iobit == IoBit(Decoded)
  IN  /\ Code = "mov" => dest = Rr
      /\ Code = "movw" => memword(memory', 2 * (Decoded.ddddd - 16))
                            = memword(memory, 2 * (Decoded.rrrrr - 16))
      /\ Code = "swap" => BitsOf(dest) = {k \in 0..7 : IsSet(Rd, (k + 4) % 8)}
      /\ Code = "in" => dest = membyte(memory, port)
      /\ Code = "out" => membyte(memory', port) = Rd
      /\ Code = "lds" /\ ~knobs.pc_mem_max_256b => dest = membyte(memory, Direct)
      /\ Code = "sts" => membyte(memory', Direct) = Rd
      /\ Code = "xch" => ExchangeStep
      /\ Code = "elpm" => FlashStep(0, IsSet(Decoded.instr, 4))
      /\ Code = "elpmz" => /\ FlashStep(Decoded.ddddd, IsSet(Decoded.instr, 1))
                           /\ IsSet(Decoded.instr, 0) => FlashMoves
      /\ Code = "push" => PushStep
      /\ Code = "pop" => PopStep
      /\ Code = "bld" => BitsOf(dest) = WithBit(Rd, bit, SregHas("T"))
      /\ Code = "bst" => FlagGets(SregBit["T"], IsSet(Rd, bit))
      /\ Code = "bclrset" => FlagGets(Decoded.ddddd - 16, ~IsSet(Decoded.instr, 7))
      /\ Code = "cbisbi" => BitsOf(membyte(memory', iobit))
                              = WithBit(membyte(memory, iobit), bit, IsSet(Decoded.instr, 9))

\* What is moved arrives as it was: between registers, ports, data memory, flash, the
\* stack and T.  The four read-modify-write instructions hand out the byte as it was
\* before and leave it as they should, also where Z points at a register; one bit of
\* a byte or of SREG changes and no other; and the registers, SREG and SP are
\* themselves in memory, so that each of these may be source or target of another.
\* LDS on the smallest machine is left out: it does not agree with STS there.
TransfersExact == [][Fetches(Flash, pc) /\ ~trapped' => TransferStep]_vars
=============================================================================
