------------------------------ MODULE AvrInstr ------------------------------
(***************************************************************************)
(* The instruction handlers of instr.c, one operator each: instr_x(c, d)   *)
(* is the machine after the handler was called with machine c and decoded  *)
(* instruction d.  A machine has the globals a handler works on (pc, mem,  *)
(* flash, pc_start, instr_size, skip_next_instruction, the knobs) and the  *)
(* outcome so far: the SREG bits to set and to clear, and trap when the    *)
(* handler ends the process.                                               *)
(*                                                                         *)
(* pc is a uint32_t; a negative number stands for its residue mod 2^32, an *)
(* address outside flash either way.                                       *)
(***************************************************************************)
EXTENDS AvrFlags

CONSTANT DES_ecb_encrypt(_, _, _)     \* OpenSSL: key, block, decrypt -> block

\* The knobs: a 22-bit program counter, data memory of 64 KiB or 256 bytes.
\* The 256-byte machine is a 64 KiB machine too.
Knobs == {k \in [pc22 : BOOLEAN, pc_mem_max_64k : BOOLEAN, pc_mem_max_256b : BOOLEAN] :
            k.pc_mem_max_256b => k.pc_mem_max_64k}

\* flash[] is a function on the words that were installed; every other of its
\* 2^23 words is zero.
InFlash(a) == a \in 0..8388607
romword(flash, a) == IF a \in DOMAIN flash THEN flash[a] ELSE 0
\* Mutant: high byte first.
rombyte_swapped(flash, a) ==
  IF a % 2 = 0 THEN High(romword(flash, a \div 2)) ELSE Low(romword(flash, a \div 2))

rombyte(flash, a) ==
  IF a % 2 = 1 THEN High(romword(flash, a \div 2)) ELSE Low(romword(flash, a \div 2))

Reg(c, a) == membyte(c.mem, a)
Put(c, a, v) == [c EXCEPT !.mem = Store(@, a, v)]
PutWord(c, a, w) == [c EXCEPT !.mem = memwriteword(@, a, w)]
Trap(c) == [c EXCEPT !.trap = TRUE]
Flags(c, f) == [c EXCEPT !.set = @ \cup f.set, !.clr = @ \cup f.clr]
SkipIf(c, cond) == [c EXCEPT !.skip = cond]

Flag(c, f) == IsSet(Reg(c, SREG), SregBit[f])
CarryIn(c) == IF Flag(c, "C") THEN 1 ELSE 0

\* Writes a result to Rd and takes its flags.
Result(c, d, res, f) == Flags(Put(c, d.ddddd, res), f)

SetBit(v, n, on) == FromBits(IF on THEN BitsOf(v) \cup {n} ELSE BitsOf(v) \ {n})

-----------------------------------------------------------------------------
(* Arithmetic and logic.                                                   *)

instr_adc(c, d) ==
  LET rr  == Reg(c, d.rrrrr)
      rd  == Reg(c, d.ddddd)
      res == (rd + rr + IF IsSet(d.instr, 12) THEN CarryIn(c) ELSE 0) % 256
  IN  Result(c, d, res, adc_flags8(res, rd, rr))

\* CP, CPC, SUB, SBC: none of them ever sets Z.
instr_cpc(c, d) ==
  LET rr    == Reg(c, d.rrrrr)
      rd    == Reg(c, d.ddddd)
      res   == (rd - rr - IF IsSet(d.instr, 12) THEN 0 ELSE CarryIn(c)) % 256
      f     == sub_flags8(res, rd, rr)
      store == Field(d.instr, 11, 10) # 1
  IN  Flags(IF store THEN Put(c, d.ddddd, res) ELSE c,
            [f EXCEPT !.set = @ \ {SregBit.Z}])

\* CPI, SBCI, SUBI
instr_cpi(c, d) ==
  LET rd    == Reg(c, d.ddddd)
      res   == (rd - d.imm_u8 - IF IsSet(d.instr, 12) THEN 0 ELSE CarryIn(c)) % 256
      store == Field(d.instr, 14, 13) = 2
  IN  Flags(IF store THEN Put(c, d.ddddd, res) ELSE c,
            sub_flags8(res, rd, d.imm_u8))

\* The register pair and the 6-bit constant of ADIW and SBIW.
WordPair(d)  == 24 + 2 * Field(d.instr, 5, 4)
WordConst(d) == 16 * Field(d.instr, 7, 6) + Field(d.instr, 3, 0)

instr_adiw(c, d) ==
  LET rd  == memword(c.mem, WordPair(d))
      res == (rd + WordConst(d)) % 65536
  IN  Flags(PutWord(c, WordPair(d), res), adiw_flags16(res, rd))

instr_sbiw(c, d) ==
  LET rd  == memword(c.mem, WordPair(d))
      res == (rd - WordConst(d)) % 65536
  IN  Flags(PutWord(c, WordPair(d), res), sbiw_flags16(res, rd))

Logic(c, d, res) == Result(c, d, res, logic_flags8(res))
instr_and(c, d)  == Logic(c, d, And(Reg(c, d.ddddd), Reg(c, d.rrrrr)))
instr_andi(c, d) == Logic(c, d, And(Reg(c, d.ddddd), d.imm_u8))
instr_or(c, d)   == Logic(c, d, Or(Reg(c, d.ddddd), Reg(c, d.rrrrr)))
instr_ori(c, d)  == Logic(c, d, Or(Reg(c, d.ddddd), d.imm_u8))
instr_xor(c, d)  == Logic(c, d, Xor(Reg(c, d.ddddd), Reg(c, d.rrrrr)))

instr_com(c, d) ==
  LET res == Not(Reg(c, d.ddddd))
      n   == IsSet(res, 7)
  IN  Result(c, d, res,
             Affect([C |-> TRUE, V |-> FALSE, Z |-> res = 0, N |-> n, S |-> n]))

\* Mutant: H wants bit 3 of both, not of either.
instr_neg_h_both(c, d) ==
  LET rd  == Reg(c, d.ddddd)
      res == (0 - rd) % 256
      n   == IsSet(res, 7)
      v   == res = 128
  IN  Result(c, d, res,
             Affect([Z |-> res = 0, C |-> res # 0, N |-> n, V |-> v,
                     H |-> IsSet(res, 3) /\ IsSet(rd, 3), S |-> n # v]))

instr_neg(c, d) ==
  LET rd  == Reg(c, d.ddddd)
      res == (0 - rd) % 256
      n   == IsSet(res, 7)
      v   == res = 128
  IN  Result(c, d, res,
             Affect([Z |-> res = 0, C |-> res # 0, N |-> n, V |-> v,
                     H |-> IsSet(res, 3) \/ IsSet(rd, 3), S |-> n # v]))

instr_inc(c, d) ==
  LET res == (Reg(c, d.ddddd) + 1) % 256
      f   == logic_flags8(res)
  IN  Result(c, d, res,
             IF res = 128
               THEN [set |-> (f.set \ {SregBit.S}) \cup {SregBit.V},
                     clr |-> (f.clr \ {SregBit.V}) \cup {SregBit.S}]
               ELSE f)

\* Mutant: S is set and not taken out of the bits to clear.
instr_dec_overlap(c, d) ==
  LET res == (Reg(c, d.ddddd) - 1) % 256
      f   == logic_flags8(res)
  IN  Result(c, d, res,
             IF res = 127 THEN [set |-> f.set \cup {SregBit.V, SregBit.S},
                                clr |-> f.clr \ {SregBit.V}]
                          ELSE f)

instr_dec(c, d) ==
  LET res == (Reg(c, d.ddddd) - 1) % 256
      f   == logic_flags8(res)
      VS  == {SregBit.V, SregBit.S}
  IN  Result(c, d, res,
             IF res = 127 THEN [set |-> f.set \cup VS, clr |-> f.clr \ VS] ELSE f)

Shift(c, d, top) ==
  LET rd  == Reg(c, d.ddddd)
      res == rd \div 2 + (IF top THEN 128 ELSE 0)
  IN  Result(c, d, res, asr_flags8(res, rd))
instr_asr(c, d) == Shift(c, d, IsSet(Reg(c, d.ddddd), 7))
instr_lsr(c, d) == Shift(c, d, FALSE)
\* Mutant: a shift in place of a rotation.
instr_ror_no_carry(c, d) == Shift(c, d, FALSE)

instr_ror(c, d) == Shift(c, d, Flag(c, "C"))

instr_swap(c, d) ==
  LET rd == Reg(c, d.ddddd) IN Put(c, d.ddddd, rd \div 16 + 16 * (rd % 16))

\* A 16-bit product in r1:r0; the operands are signed or not.
Product(c, d, rds, rrs) ==
  LET S(v, s) == IF s THEN Signed(v, 8) ELSE v
  IN  (S(Reg(c, d.ddddd), rds) * S(Reg(c, d.rrrrr), rrs)) % 65536
Mul(c, res)  == Flags(PutWord(c, 0, res), mul_flags16(res))
Fmul(c, res) == Flags(PutWord(c, 0, (2 * res) % 65536), fmul_flags16(res))
instr_mul(c, d)    == Mul(c, Product(c, d, FALSE, FALSE))
instr_muls(c, d)   == Mul(c, Product(c, d, TRUE, TRUE))
instr_mulsu(c, d)  == Mul(c, Product(c, d, TRUE, FALSE))
instr_fmul(c, d)   == Fmul(c, Product(c, d, FALSE, FALSE))
instr_fmulsu(c, d) == Fmul(c, Product(c, d, TRUE, ~IsSet(d.instr, 3)))

\* Mutant: every round runs the whole cipher.
LastRound_any(d) == d.ddddd - 16 >= 0

\* The sixteen DES rounds are done at once, in the last one.
LastRound(d) == d.ddddd - 16 >= 15

instr_des(c, d) ==
  IF ~LastRound(d) THEN c
  ELSE LET out == DES_ecb_encrypt([i \in 0..7 |-> Reg(c, 8 + i)],
                                  [i \in 0..7 |-> Reg(c, i)], Flag(c, "H"))
       IN  [c EXCEPT !.mem = [a \in DOMAIN @ \cup 0..7 |->
                                IF a \in 0..7 THEN out[a] ELSE @[a]]]

-----------------------------------------------------------------------------
(* Bits.  The bit number is decoded as 16 + sss.                           *)

instr_bclrset(c, d) ==
  LET sss == {d.ddddd - 16}
  IN  Flags(c, IF IsSet(d.instr, 7) THEN [set |-> {}, clr |-> sss]
                                    ELSE [set |-> sss, clr |-> {}])

instr_bld(c, d) ==
  Put(c, d.ddddd, SetBit(Reg(c, d.ddddd), d.rrrrr - 16, Flag(c, "T")))

instr_bst(c, d) == Flags(c, Affect([T |-> IsSet(Reg(c, d.ddddd), d.rrrrr - 16)]))

\* Mutant: a port number is used as an address.
IoBit_unbased(d) == Field(d.instr, 7, 3)

IoBit(d) == IO_BASE + Field(d.instr, 7, 3)

instr_cbisbi(c, d) ==
  Put(c, IoBit(d), SetBit(Reg(c, IoBit(d)), d.rrrrr - 16, IsSet(d.instr, 9)))

instr_cpse(c, d)  == SkipIf(c, Reg(c, d.ddddd) = Reg(c, d.rrrrr))
instr_sbics(c, d) ==
  SkipIf(c, IsSet(d.instr, 9) = IsSet(Reg(c, IoBit(d)), d.rrrrr - 16))
instr_sbrcs(c, d) ==
  SkipIf(c, IsSet(d.instr, 9) = IsSet(Reg(c, d.ddddd), d.rrrrr - 16))

-----------------------------------------------------------------------------
(* Transfers.                                                              *)

instr_nop(c, d) == c
instr_unimp(c, d) == Trap(c)

instr_mov(c, d) == Put(c, d.ddddd, Reg(c, d.rrrrr))
instr_ldi(c, d) == Put(c, d.ddddd, d.imm_u8)
instr_movw(c, d) ==
  PutWord(c, 2 * (d.ddddd - 16), memword(c.mem, 2 * (d.rrrrr - 16)))

IoPort(d) == IO_BASE + 16 * Field(d.instr, 10, 9) + Field(d.instr, 3, 0)
instr_in(c, d)  == Put(c, d.ddddd, Reg(c, IoPort(d)))
instr_out(c, d) == Put(c, IoPort(d), Reg(c, d.ddddd))

\* An address extended by a RAMP register, unless the machine has 64 KiB.
Extend(c, addr, ramp) ==
  IF c.k.pc_mem_max_64k THEN addr ELSE addr + 65536 * Reg(c, ramp)

instr_lds(c, d) == Put(c, d.ddddd, Reg(c, Extend(c, d.imm_u16, RAMPD)))
instr_sts(c, d) ==
  LET a == Extend(c, d.imm_u16, RAMPD)
  IN  Put(c, IF c.k.pc_mem_max_256b THEN a % 256 ELSE a, Reg(c, d.ddddd))

\* Mutants: the 24-bit mask is missing; the decrement is.
Moved_unmasked(base, mode, displace) ==
  CASE mode = 1 -> base [] mode = 2 -> base - 1 [] OTHER -> base + displace

Moved_no_decrement(base, mode, displace) ==
  IF mode \in {1, 2} THEN base ELSE (base + displace) % MemorySize

\* mode 1: post-increment, 2: pre-decrement, others: displacement.
Moved(base, mode, displace) ==
  CASE mode = 1 -> base
    [] mode = 2 -> (base - 1) % MemorySize
    [] mode \notin {1, 2} -> (base + displace) % MemorySize

\* Mutant: the post-increment is not looked at.
MovesItself_predec(d, rp, mode) == mode = 2 /\ d.ddddd \in {rp, rp + 1}

\* Undefined on AVR: a load into, or a store from, the pointer being moved.
MovesItself(d, rp, mode) == mode \in {1, 2} /\ d.ddddd \in {rp, rp + 1}

\* Mutants: the carry into RAMP is lost; RAMP is written on every machine but
\* the smallest.
PutPointer_no_ramp(c, rp, ramp, next) ==
  IF c.k.pc_mem_max_256b THEN Put(c, rp, next % 256)
                         ELSE PutWord(c, rp, next % 65536)

PutPointer_always_ramp(c, rp, ramp, next) ==
  IF c.k.pc_mem_max_256b THEN Put(c, rp, next % 256)
  ELSE Put(PutWord(c, rp, next % 65536), ramp, (next \div 65536) % 256)

\* The pointer, with its RAMP register on the machine with 16 MiB.
PutPointer(c, rp, ramp, next) ==
  IF c.k.pc_mem_max_256b THEN Put(c, rp, next % 256)
  ELSE IF c.k.pc_mem_max_64k THEN PutWord(c, rp, next % 65536)
  ELSE Put(PutWord(c, rp, next % 65536), ramp, (next \div 65536) % 256)

instr_ldst_common(c, d, rp, ramp, mode, displace, store) ==
  LET moved == Moved(Extend(c, memword(c.mem, rp), ramp), mode, displace)
      addr  == IF c.k.pc_mem_max_256b THEN moved % 256
               ELSE IF c.k.pc_mem_max_64k THEN moved % 65536 ELSE moved
      done  == IF store THEN Put(c, addr, Reg(c, d.ddddd))
                        ELSE Put(c, d.ddddd, Reg(c, addr))
      next  == IF mode = 1 THEN addr + 1 ELSE addr
  IN  IF MovesItself(d, rp, mode) THEN Trap(c)
      ELSE IF mode \in {1, 2} THEN PutPointer(done, rp, ramp, next) ELSE done

LoadStoreX(c, d, store) ==
  instr_ldst_common(c, d, REGP_X, RAMPX, Field(d.instr, 1, 0), 0, store)
instr_ldx(c, d) == LoadStoreX(c, d, FALSE)
instr_stx(c, d) == LoadStoreX(c, d, TRUE)

\* Mutant: the top bit is left out.
Displacement_short(d) == 8 * Field(d.instr, 11, 10) + Field(d.instr, 2, 0)

\* LDD and STD: the six bits of q.
Displacement(d) ==
  32 * Bit(d.instr, 13) + 8 * Field(d.instr, 11, 10) + Field(d.instr, 2, 0)

LoadStoreYZ(c, d, store) ==
  LET displaced == ~IsSet(d.instr, 12)
      mode      == IF displaced THEN 0 ELSE Field(d.instr, 1, 0)
      displace  == IF displaced THEN Displacement(d) ELSE 0
  IN  IF IsSet(d.instr, 3)
        THEN instr_ldst_common(c, d, REGP_Y, RAMPY, mode, displace, store)
        ELSE instr_ldst_common(c, d, REGP_Z, RAMPZ, mode, displace, store)
instr_ldyz(c, d) == LoadStoreYZ(c, d, FALSE)
instr_styz(c, d) == LoadStoreYZ(c, d, TRUE)

\* Mutant: a load that does not store.
instr_xch_load(c, d) == Put(c, d.ddddd, Reg(c, memword(c.mem, REGP_Z)))

\* XCH, LAS, LAC, LAT: the address is Z, without RAMPZ.
instr_xch(c, d) ==
  LET z   == memword(c.mem, REGP_Z)
      rd  == Reg(c, d.ddddd)
      old == Reg(c, z)
      new == CASE Field(d.instr, 1, 0) = 0 -> rd
               [] Field(d.instr, 1, 0) = 1 -> Or(old, rd)
               [] Field(d.instr, 1, 0) = 2 -> And(old, Not(rd))
               [] Field(d.instr, 1, 0) = 3 -> Xor(old, rd)
  IN  Put(Put(c, z, new), d.ddddd, old)

\* Z, extended by RAMPZ for ELPM, is a byte address of flash.
FlashAddr(c, ext) ==
  memword(c.mem, REGP_Z) + IF ext THEN 65536 * Reg(c, RAMPZ) ELSE 0

instr_elpm(c, d) == Put(c, 0, rombyte(c.flash, FlashAddr(c, IsSet(d.instr, 4))))

\* The post-increment does not carry into RAMPZ.
instr_elpmz(c, d) ==
  LET addr    == FlashAddr(c, IsSet(d.instr, 1))
      loaded  == Put(c, d.ddddd, rombyte(c.flash, addr))
      postinc == IsSet(d.instr, 0)
  IN  CASE postinc /\ d.ddddd \in {30, 31} -> Trap(c)
        [] postinc /\ d.ddddd \notin {30, 31} ->
             PutWord(loaded, REGP_Z, (addr + 1) % 65536)
        [] ~postinc -> loaded

-----------------------------------------------------------------------------
(* The stack and the flow of control.  emulate1() adds instr_size to the   *)
(* pc a handler leaves.                                                    *)

pushbyte(m, b) ==
  LET sp == getsp(m) IN setsp(Store(m, sp, b), (sp - 1) % 65536)

\* Mutant: the byte is read before SP was moved.
popbyte_early(m) == membyte(m, getsp(m))

\* The byte is read after SP was moved, at sp + 1 in int arithmetic: past
\* 64 KiB when SP wraps.
popped(m) == setsp(m, (getsp(m) + 1) % 65536)
popbyte(m) == membyte(popped(m), getsp(m) + 1)

instr_push(c, d) == [c EXCEPT !.mem = pushbyte(@, Reg(c, d.ddddd))]
instr_pop(c, d) ==
  [c EXCEPT !.mem = Store(popped(@), d.ddddd, popbyte(@))]

\* Mutant: high byte first.
PushPc_swapped(m, pc2, wide) ==
  LET two == pushbyte(pushbyte(m, High(pc2)), Low(pc2))
  IN  IF wide THEN pushbyte(two, (pc2 \div 65536) % 256) ELSE two

\* Pushes a return address, low byte first.
PushPc(m, pc2, wide) ==
  LET two == pushbyte(pushbyte(m, Low(pc2)), High(pc2))
  IN  IF wide THEN pushbyte(two, (pc2 \div 65536) % 256) ELSE two

Jump(c, addr) == [c EXCEPT !.pc = addr - c.instr_size]
\* Mutant: a long call is taken for a short one.
CallPc_short(c, size) == [c EXCEPT !.mem = PushPc(@, c.pc_start + 1, c.k.pc22)]

CallPc(c, size) == [c EXCEPT !.mem = PushPc(@, c.pc_start + size, c.k.pc22)]

\* The 22-bit address of CALL and JMP; the upper bits count with pc22 only.
LongAddr(c, d) ==
  d.imm_u16 + IF c.k.pc22 THEN 65536 * (2 * Field(d.instr, 8, 4) + Bit(d.instr, 0))
                      ELSE 0
instr_jmp(c, d)  == Jump(c, LongAddr(c, d))
instr_call(c, d) == Jump(CallPc(c, 2), LongAddr(c, d))

\* ICALL, IJMP, EICALL, EIJMP
instr_eicalljump(c, d) ==
  LET ext  == IsSet(d.instr, 4)
      addr == memword(c.mem, REGP_Z) + IF ext THEN 65536 * Reg(c, EIND) ELSE 0
  IN  IF ext /\ ~c.k.pc22 THEN Trap(c)
      ELSE Jump(IF IsSet(d.instr, 8) THEN CallPc(c, 1) ELSE c, addr)

instr_rcalljmp(c, d) ==
  LET k == Signed(Field(d.instr, 11, 0), 12)
      s == IF IsSet(d.instr, 12) THEN CallPc(c, 1) ELSE c
  IN  [s EXCEPT !.pc = @ + k]

instr_ret(c, d) ==
  LET m1   == popped(c.mem)
      m2   == popped(m1)
      two  == 256 * popbyte(c.mem) + popbyte(m1)
      addr == IF c.k.pc22 THEN (256 * two + popbyte(m2)) % 4194304 ELSE two
  IN  Jump([c EXCEPT !.mem = IF c.k.pc22 THEN popped(m2) ELSE m2], addr)

instr_reti(c, d) ==
  LET s == instr_ret(c, d) IN Put(s, SREG, SetBit(Reg(s, SREG), SregBit.I, TRUE))

instr_brb(c, d) ==
  LET on == IsSet(Reg(c, SREG), d.rrrrr - 16)
  IN  IF on # IsSet(d.instr, 10)
        THEN [c EXCEPT !.pc = @ + Signed(Field(d.instr, 9, 3), 7)]
        ELSE c
=============================================================================
