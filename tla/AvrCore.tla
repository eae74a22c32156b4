------------------------------ MODULE AvrCore -------------------------------
(***************************************************************************)
(* emulate1() of main.c as an operator: fetch, decode, execute, flags, and *)
(* the decoding of the instruction that a skip passes over.  It is the     *)
(* Exec parameter of Emulator.                                             *)
(***************************************************************************)
EXTENDS AvrInstr, AvrDecode

\* avr_instr[i].code(&idc)
Execute(code, c, d) ==
  CASE code = "nop"       -> instr_nop(c, d)
    [] code = "movw"      -> instr_movw(c, d)
    [] code = "muls"      -> instr_muls(c, d)
    [] code = "mulsu"     -> instr_mulsu(c, d)
    [] code = "fmul"      -> instr_fmul(c, d)
    [] code = "fmulsu"    -> instr_fmulsu(c, d)
    [] code = "cpc"       -> instr_cpc(c, d)
    [] code = "adc"       -> instr_adc(c, d)
    [] code = "cpse"      -> instr_cpse(c, d)
    [] code = "and"       -> instr_and(c, d)
    [] code = "xor"       -> instr_xor(c, d)
    [] code = "or"        -> instr_or(c, d)
    [] code = "mov"       -> instr_mov(c, d)
    [] code = "cpi"       -> instr_cpi(c, d)
    [] code = "ori"       -> instr_ori(c, d)
    [] code = "andi"      -> instr_andi(c, d)
    [] code = "ldyz"      -> instr_ldyz(c, d)
    [] code = "styz"      -> instr_styz(c, d)
    [] code = "lds"       -> instr_lds(c, d)
    [] code = "elpmz"     -> instr_elpmz(c, d)
    [] code = "ldx"       -> instr_ldx(c, d)
    [] code = "pop"       -> instr_pop(c, d)
    [] code = "sts"       -> instr_sts(c, d)
    [] code = "xch"       -> instr_xch(c, d)
    [] code = "stx"       -> instr_stx(c, d)
    [] code = "push"      -> instr_push(c, d)
    [] code = "com"       -> instr_com(c, d)
    [] code = "neg"       -> instr_neg(c, d)
    [] code = "swap"      -> instr_swap(c, d)
    [] code = "inc"       -> instr_inc(c, d)
    [] code = "asr"       -> instr_asr(c, d)
    [] code = "lsr"       -> instr_lsr(c, d)
    [] code = "ror"       -> instr_ror(c, d)
    [] code = "bclrset"   -> instr_bclrset(c, d)
    [] code = "dec"       -> instr_dec(c, d)
    [] code = "des"       -> instr_des(c, d)
    [] code = "jmp"       -> instr_jmp(c, d)
    [] code = "call"      -> instr_call(c, d)
    [] code = "ret"       -> instr_ret(c, d)
    [] code = "eicalljump" -> instr_eicalljump(c, d)
    [] code = "reti"      -> instr_reti(c, d)
    [] code = "unimp"     -> instr_unimp(c, d)
    [] code = "elpm"      -> instr_elpm(c, d)
    [] code = "adiw"      -> instr_adiw(c, d)
    [] code = "sbiw"      -> instr_sbiw(c, d)
    [] code = "cbisbi"    -> instr_cbisbi(c, d)
    [] code = "sbics"     -> instr_sbics(c, d)
    [] code = "mul"       -> instr_mul(c, d)
    [] code = "in"        -> instr_in(c, d)
    [] code = "out"       -> instr_out(c, d)
    [] code = "rcalljmp"  -> instr_rcalljmp(c, d)
    [] code = "ldi"       -> instr_ldi(c, d)
    [] code = "brb"       -> instr_brb(c, d)
    [] code = "bld"       -> instr_bld(c, d)
    [] code = "bst"       -> instr_bst(c, d)
    [] code = "sbrcs"     -> instr_sbrcs(c, d)

\* The word at p and, for a long instruction, the one after it can be read and
\* the word is in the table.
Fetches(flash, p) ==
  /\ InFlash(p) /\ IsInstr(romword(flash, p))
  /\ "imm16" \in Row(romword(flash, p)).fields => InFlash(p + 1)

InstrSize(flash, p) == SizeOf(Row(romword(flash, p)))

Trapped(p, m, done) == [trap |-> TRUE, done |-> done, pc |-> p, mem |-> m]

\* Mutant: a skip passes over one word.
SkipTo_word(c, next) == next + 1

\* The instruction at next is to be skipped and cannot be decoded.
BadSkip(c, next) == c.skip /\ ~Fetches(c.flash, next)

SkipTo(c, next) == next + InstrSize(c.flash, next)

\* After the handler: the flags, the pc, and the decoding of a skipped
\* instruction, which has to be a legal one.  done: the instruction was counted.
Retire(c) ==
  LET next == c.pc + c.instr_size
      mem  == Store(c.mem, SREG, ApplyFlags(Reg(c, SREG), c.set, c.clr))
  IN  IF c.trap \/ c.set \cap c.clr # {} THEN Trapped(c.pc_start, c.mem, FALSE)
      ELSE IF BadSkip(c, next) THEN Trapped(next, mem, TRUE)
      ELSE [trap |-> FALSE, done |-> TRUE, mem |-> mem,
            pc |-> IF c.skip THEN SkipTo(c, next) ELSE next]

emulate1(k, flash, p, m) ==
  LET word == romword(flash, p)
      row  == Row(word)
      c    == [pc |-> p, pc_start |-> p, instr_size |-> SizeOf(row), mem |-> m,
               flash |-> flash, k |-> k,
               skip |-> FALSE, set |-> {}, clr |-> {}, trap |-> FALSE]
  IN  IF Fetches(flash, p)
        THEN Retire(Execute(row.code, c, Operands(word, row, romword(flash, p + 1))))
        ELSE Trapped(p, m, FALSE)
=============================================================================
