---------------------------- MODULE AvrCpuProofs ----------------------------
(***************************************************************************)
(* Proofs about AvrCpu for every image, every machine it starts from and   *)
(* every setting of the knobs: whatever the program does, its stores stay  *)
(* in the 16 MiB of memory[], what they store are bytes, and the process   *)
(* ends for a cause.                                                       *)
(***************************************************************************)
EXTENDS AvrCpu, SeqLemmas, AvrFlagsProofs

\* What is relied on of OpenSSL's DES_ecb_encrypt: blocks go in and come out.
Blocks == [0..7 -> Byte]
DesTyped ==
  \A key \in Blocks, block \in Blocks, decrypt \in BOOLEAN :
    DES_ecb_encrypt(key, block, decrypt) \in Blocks

Addr == {a \in Nat : a < MemorySize}
Word16 == {w \in Nat : w < 65536}

-----------------------------------------------------------------------------
(* Bits and bytes.                                                         *)

\* A set of bits is a byte.
LEMMA FromBitsType == ASSUME NEW S PROVE FromBits(S) \in Byte
BY DEF FromBits, Byte, Weight

\* So are the results of the operators on sets of bits.
LEMMA ByteOps ==
  ASSUME NEW a \in Byte, NEW b \in Byte, NEW n, NEW on
  PROVE  /\ And(a, b) \in Byte /\ Or(a, b) \in Byte /\ Xor(a, b) \in Byte
         /\ Not(a) \in Byte /\ SetBit(a, n, on) \in Byte
<1>1. And(a, b) \in Byte /\ Or(a, b) \in Byte /\ Xor(a, b) \in Byte /\ SetBit(a, n, on) \in Byte
  BY FromBitsType, Zenon DEF And, Or, Xor, SetBit
<1>2. Not(a) \in Byte
  BY ByteIs, SMT DEF Not
<1>3. QED
  BY <1>1, <1>2

\* The two bytes of a word.
LEMMA LowHigh == ASSUME NEW w \in Int PROVE Low(w) \in Byte /\ High(w) \in Byte
BY ByteIs, SMT DEF Low, High

\* The bits of an instruction word that the handlers and the decoder look at.
LEMMA FieldTypes ==
  ASSUME NEW w \in Nat
  PROVE  /\ Field(w, 8, 4) \in 0..31 /\ Field(w, 7, 4) \in 0..15 /\ Field(w, 6, 4) \in 0..7
         /\ Field(w, 3, 0) \in 0..15 /\ Field(w, 2, 0) \in 0..7 /\ Field(w, 11, 8) \in 0..15
         /\ Field(w, 5, 4) \in 0..3 /\ Field(w, 7, 6) \in 0..3 /\ Field(w, 7, 3) \in 0..31
         /\ Field(w, 10, 9) \in 0..3 /\ Field(w, 1, 0) \in 0..3 /\ Field(w, 11, 10) \in 0..3
         /\ Field(w, 11, 0) \in Nat /\ Field(w, 9, 3) \in 0..127
<1>1. Field(w, 8, 4) \in 0..31
  <2>1. 2^4 = 16 /\ 2^(8 - 4 + 1) = 32
    OBVIOUS
  <2>2. Field(w, 8, 4) = (w \div 16) % 32
    BY <2>1, Zenon DEF Field
  <2>3. QED
    BY <2>2
<1>2. Field(w, 7, 4) \in 0..15
  <2>1. 2^4 = 16 /\ 2^(7 - 4 + 1) = 16
    OBVIOUS
  <2>2. Field(w, 7, 4) = (w \div 16) % 16
    BY <2>1, Zenon DEF Field
  <2>3. QED
    BY <2>2
<1>3. Field(w, 6, 4) \in 0..7
  <2>1. 2^4 = 16 /\ 2^(6 - 4 + 1) = 8
    OBVIOUS
  <2>2. Field(w, 6, 4) = (w \div 16) % 8
    BY <2>1, Zenon DEF Field
  <2>3. QED
    BY <2>2
<1>4. Field(w, 3, 0) \in 0..15
  <2>1. 2^0 = 1 /\ 2^(3 - 0 + 1) = 16
    OBVIOUS
  <2>2. Field(w, 3, 0) = (w \div 1) % 16
    BY <2>1, Zenon DEF Field
  <2>3. QED
    BY <2>2
<1>5. Field(w, 2, 0) \in 0..7
  <2>1. 2^0 = 1 /\ 2^(2 - 0 + 1) = 8
    OBVIOUS
  <2>2. Field(w, 2, 0) = (w \div 1) % 8
    BY <2>1, Zenon DEF Field
  <2>3. QED
    BY <2>2
<1>6. Field(w, 11, 8) \in 0..15
  <2>1. 2^8 = 256 /\ 2^(11 - 8 + 1) = 16
    OBVIOUS
  <2>2. Field(w, 11, 8) = (w \div 256) % 16
    BY <2>1, Zenon DEF Field
  <2>3. QED
    BY <2>2
<1>7. Field(w, 5, 4) \in 0..3
  <2>1. 2^4 = 16 /\ 2^(5 - 4 + 1) = 4
    OBVIOUS
  <2>2. Field(w, 5, 4) = (w \div 16) % 4
    BY <2>1, Zenon DEF Field
  <2>3. QED
    BY <2>2
<1>8. Field(w, 7, 6) \in 0..3
  <2>1. 2^6 = 64 /\ 2^(7 - 6 + 1) = 4
    OBVIOUS
  <2>2. Field(w, 7, 6) = (w \div 64) % 4
    BY <2>1, Zenon DEF Field
  <2>3. QED
    BY <2>2
<1>9. Field(w, 7, 3) \in 0..31
  <2>1. 2^3 = 8 /\ 2^(7 - 3 + 1) = 32
    OBVIOUS
  <2>2. Field(w, 7, 3) = (w \div 8) % 32
    BY <2>1, Zenon DEF Field
  <2>3. QED
    BY <2>2
<1>10. Field(w, 10, 9) \in 0..3
  <2>1. 2^9 = 512 /\ 2^(10 - 9 + 1) = 4
    OBVIOUS
  <2>2. Field(w, 10, 9) = (w \div 512) % 4
    BY <2>1, Zenon DEF Field
  <2>3. QED
    BY <2>2
<1>11. Field(w, 1, 0) \in 0..3
  <2>1. 2^0 = 1 /\ 2^(1 - 0 + 1) = 4
    OBVIOUS
  <2>2. Field(w, 1, 0) = (w \div 1) % 4
    BY <2>1, Zenon DEF Field
  <2>3. QED
    BY <2>2
<1>12. Field(w, 11, 10) \in 0..3
  <2>1. 2^10 = 1024 /\ 2^(11 - 10 + 1) = 4
    OBVIOUS
  <2>2. Field(w, 11, 10) = (w \div 1024) % 4
    BY <2>1, Zenon DEF Field
  <2>3. QED
    BY <2>2
<1>13. Field(w, 11, 0) \in Nat
  <2>1. 2^0 = 1 /\ 2^(11 - 0 + 1) = 4096
    OBVIOUS
  <2>2. Field(w, 11, 0) = (w \div 1) % 4096
    BY <2>1, SMT DEF Field
  <2>3. QED
    BY <2>2, SMT
<1>14. Field(w, 9, 3) \in 0..127
  <2>1. 2^3 = 8 /\ 2^(9 - 3 + 1) = 128
    OBVIOUS
  <2>2. Field(w, 9, 3) = (w \div 8) % 128
    BY <2>1, Zenon DEF Field
  <2>3. QED
    BY <2>2
<1>15. QED
  BY <1>1, <1>2, <1>3, <1>4, <1>5, <1>6, <1>7, <1>8, <1>9, <1>10, <1>11, <1>12, <1>13, <1>14

\* The bits of a byte, and numbers read as signed, stay numbers.
LEMMA BitTypes == ASSUME NEW w \in Nat PROVE Bit(w, 9) \in 0..1 /\ Bit(w, 13) \in 0..1 /\ Bit(w, 0) \in 0..1
BY SMT DEF Bit

\* The signed displacements of branches and relative jumps, and signed bytes.
LEMMA SignedTypes ==
  /\ \A v \in Int : Signed(v, 7) \in Int /\ Signed(v, 8) \in Int /\ Signed(v, 12) \in Int
<1>1. 2^7 = 128 /\ 2^(7 - 1) = 64 /\ 2^8 = 256 /\ 2^(8 - 1) = 128 /\ 2^12 = 4096 /\ 2^(12 - 1) = 2048
  BY SMT
<1>2. QED
  BY <1>1, SMT DEF Signed

-----------------------------------------------------------------------------
(* Data memory.                                                            *)

\* What is read are bytes and words, wherever it is read.
LEMMA ReadType ==
  ASSUME NEW m, IsMemory(m), NEW a
  PROVE  membyte(m, a) \in Byte /\ memword(m, a) \in Word16 /\ getsp(m) \in Word16
<1>1. \A x : membyte(m, x) \in Byte
  BY ByteIs, SMT DEF membyte, IsMemory
<1>2. membyte(m, a) \in Byte /\ membyte(m, a + 1) \in Byte
       /\ membyte(m, SP_LO) \in Byte /\ membyte(m, SP_HI) \in Byte
  BY <1>1
<1>3. \A x, y \in Byte : x + 256 * y \in Word16 /\ 256 * y + x \in Word16
  BY ByteIs, SMT DEF Word16
<1>4. QED
  BY <1>2, <1>3 DEF memword, getsp

\* A byte stored at an address of memory[] leaves a memory.
LEMMA StoreType ==
  ASSUME NEW m, IsMemory(m), NEW a \in Addr, NEW v \in Byte
  PROVE  IsMemory(Store(m, a, v))
<1>1. DOMAIN Store(m, a, v) = DOMAIN m \cup {a}
       /\ \A x \in DOMAIN m \cup {a} : Store(m, a, v)[x] = IF x = a THEN v ELSE m[x]
  BY DEF Store
<1>2. DOMAIN m \subseteq Addr /\ \A x \in DOMAIN m : m[x] \in Byte
  BY SMT DEF IsMemory, Addr, MemorySize
<1>3. \A x \in DOMAIN m \cup {a} : Store(m, a, v)[x] \in Byte
  BY <1>1, <1>2
<1>4. DOMAIN Store(m, a, v) \subseteq Addr
  BY <1>1, <1>2
<1>5. QED
  BY <1>1, <1>3, <1>4, SMT DEF IsMemory, Addr, MemorySize

\* Registers, ports and the first 64 KiB are addresses.
LEMMA Addresses ==
  /\ Word16 \subseteq Addr /\ 0..31 \subseteq Word16 /\ 0..31 \subseteq Addr /\ 0..97 \subseteq Addr
  /\ SP_LO \in Addr /\ SP_HI \in Addr /\ SREG \in Addr /\ Byte \subseteq Word16
BY ByteIs, SMT DEF Addr, Word16, SP_LO, SP_HI, SREG, MemorySize

\* So does a word: memwriteword().
LEMMA WriteWordType ==
  ASSUME NEW m, IsMemory(m), NEW a \in Addr, a + 1 \in Addr, NEW w \in Int
  PROVE  IsMemory(memwriteword(m, a, w))
<1>1. Low(w) \in Byte /\ High(w) \in Byte
  BY LowHigh
<1>2. IsMemory(Store(m, a, Low(w)))
  BY <1>1, StoreType
<1>3. QED
  BY <1>1, <1>2, StoreType DEF memwriteword

\* And moving the stack pointer: setsp().
LEMMA SetSpType == ASSUME NEW m, IsMemory(m), NEW sp \in Int PROVE IsMemory(setsp(m, sp))
<1>1. Low(sp) \in Byte /\ High(sp) \in Byte /\ SP_LO \in Addr /\ SP_HI \in Addr
  BY LowHigh, Addresses
<1>2. IsMemory(Store(m, SP_LO, Low(sp)))
  BY <1>1, StoreType
<1>3. QED
  BY <1>1, <1>2, StoreType DEF setsp

\* The stack: what is pushed and popped.
LEMMA StackType ==
  ASSUME NEW m, IsMemory(m)
  PROVE  /\ \A b \in Byte : IsMemory(pushbyte(m, b))
         /\ IsMemory(popped(m)) /\ popbyte(m) \in Byte
<1> DEFINE sp == getsp(m)
<1>1. sp \in Word16 /\ sp \in Addr
  BY ReadType, Addresses
<1> HIDE DEF sp
<1>2. (sp - 1) % 65536 \in Int /\ (sp + 1) % 65536 \in Int
  BY <1>1, SMT DEF Word16
<1>3. ASSUME NEW b \in Byte PROVE IsMemory(pushbyte(m, b))
  <2>1. IsMemory(Store(m, sp, b))
    BY <1>1, StoreType
  <2>2. IsMemory(setsp(Store(m, sp, b), (sp - 1) % 65536))
    BY <1>2, <2>1, SetSpType
  <2>3. QED
    BY <2>2, SMT DEF pushbyte, sp
<1>4. IsMemory(popped(m))
  <2>1. IsMemory(setsp(m, (sp + 1) % 65536))
    BY <1>2, SetSpType
  <2>2. QED
    BY <2>1, SMT DEF popped, sp
<1>5. popbyte(m) \in Byte
  BY <1>4, ReadType DEF popbyte
<1>6. QED
  BY <1>3, <1>4, <1>5

\* A return address of two or three bytes is pushed.
LEMMA PushPcType ==
  ASSUME NEW m, IsMemory(m), NEW p \in Int, NEW wide
  PROVE  IsMemory(PushPc(m, p, wide))
<1>1. Low(p) \in Byte /\ High(p) \in Byte
  BY LowHigh
<1>2. (p \div 65536) % 256 \in Byte
  BY ByteIs, SMT
<1> DEFINE two == pushbyte(pushbyte(m, Low(p)), High(p))
<1>3. IsMemory(two)
  BY <1>1, StackType
<1> HIDE DEF two
<1>4. IsMemory(pushbyte(two, (p \div 65536) % 256))
  BY <1>2, <1>3, StackType
<1>5. PushPc(m, p, wide) = IF wide THEN pushbyte(two, (p \div 65536) % 256) ELSE two
  BY SMT DEF PushPc, two
<1>6. QED
  BY <1>3, <1>4, <1>5

-----------------------------------------------------------------------------
(* Machines.                                                               *)

IsFlash(f) == \A a \in DOMAIN f : f[a] \in Word16

IsMachine(c) ==
  /\ DOMAIN c = {"pc", "pc_start", "instr_size", "mem", "flash", "k", "skip", "set",
                 "clr", "trap"}
  /\ c.pc \in Int /\ c.pc_start \in Int /\ c.instr_size \in Int
  /\ IsMemory(c.mem) /\ IsFlash(c.flash)
  /\ c.skip \in BOOLEAN /\ c.trap \in BOOLEAN

\* What no handler changes.
Same(c, r) ==
  r.pc_start = c.pc_start /\ r.instr_size = c.instr_size /\ r.flash = c.flash /\ r.k = c.k

\* Nothing asked of emulate1() yet; and what may be asked of it.
Idle(c) == IsMachine(c) /\ ~c.trap /\ c.set = {} /\ c.clr = {}
Fine(c, r) == IsMachine(r) /\ Same(c, r) /\ ~r.trap /\ r.set \cap r.clr = {}

Registers == {n \in Nat : n < 32}

IsOperands(d) ==
  /\ d.ddddd \in Registers /\ d.rrrrr \in Registers
  /\ d.imm_u8 \in Byte /\ d.imm_u16 \in Word16 /\ d.instr \in Word16

Clean(f) == f.set \cap f.clr = {}

\* A handler that only writes memory.
LEMMA MemFine ==
  ASSUME NEW c, Idle(c), NEW m, IsMemory(m)
  PROVE  LET r == [c EXCEPT !.mem = m]
         IN  Idle(r) /\ Same(c, r) /\ r.mem = m /\ r.pc = c.pc /\ r.skip = c.skip
BY DEF Idle, IsMachine, Same

\* A byte to a register, a port or data memory.
LEMMA PutFine ==
  ASSUME NEW c, Idle(c), NEW a \in Addr, NEW v \in Byte
  PROVE  Idle(Put(c, a, v)) /\ Same(c, Put(c, a, v))
<1>1. IsMemory(Store(c.mem, a, v))
  BY StoreType DEF Idle, IsMachine
<1>2. Put(c, a, v) = [c EXCEPT !.mem = Store(c.mem, a, v)]
  BY DEF Put
<1>3. QED
  BY <1>1, <1>2, MemFine

\* A word to a register pair or data memory.
LEMMA PutWordFine ==
  ASSUME NEW c, Idle(c), NEW a \in Addr, a + 1 \in Addr, NEW w \in Int
  PROVE  Idle(PutWord(c, a, w)) /\ Same(c, PutWord(c, a, w))
<1>1. IsMemory(memwriteword(c.mem, a, w))
  BY WriteWordType DEF Idle, IsMachine
<1>2. PutWord(c, a, w) = [c EXCEPT !.mem = memwriteword(c.mem, a, w)]
  BY DEF PutWord
<1>3. QED
  BY <1>1, <1>2, MemFine

\* What two steps of a handler leave alone, both together do.
LEMMA SameTrans ==
  ASSUME NEW c, NEW r, NEW s, Same(c, r), Same(r, s)
  PROVE  Same(c, s)
BY DEF Same

\* Flags, when the handler has asked for none before.
LEMMA FlagsFine ==
  ASSUME NEW c, NEW r, Idle(r), Same(c, r), NEW f, Clean(f)
  PROVE  Fine(c, Flags(r, f))
BY DEF Idle, Fine, IsMachine, Same, Clean, Flags

\* A handler that asks for no flags.
LEMMA IdleFine == ASSUME NEW c, NEW r, Idle(r), Same(c, r) PROVE Fine(c, r)
BY DEF Idle, Fine

\* A handler that does nothing.
LEMMA SelfFine == ASSUME NEW c, Idle(c) PROVE Same(c, c) /\ Fine(c, c)
BY DEF Idle, Fine, Same

\* Control: pc and the skip.
LEMMA JumpFine ==
  ASSUME NEW c, Idle(c), NEW a \in Int
  PROVE  /\ Idle(Jump(c, a)) /\ Same(c, Jump(c, a))
         /\ Idle([c EXCEPT !.pc = a]) /\ Same(c, [c EXCEPT !.pc = a])
BY DEF Idle, IsMachine, Same, Jump

\* The request to skip the next instruction.
LEMMA SkipFine ==
  ASSUME NEW c, Idle(c), NEW b \in BOOLEAN
  PROVE  Idle(SkipIf(c, b)) /\ Same(c, SkipIf(c, b))
BY DEF Idle, IsMachine, Same, SkipIf

\* What a handler reads.
LEMMA RegType ==
  ASSUME NEW c, Idle(c), NEW a
  PROVE  /\ Reg(c, a) \in Byte /\ memword(c.mem, a) \in Word16 /\ getsp(c.mem) \in Word16
         /\ Reg(c, a) \in Int /\ IsMemory(c.mem)
<1>1. IsMemory(c.mem)
  BY DEF Idle, IsMachine
<1>2. Reg(c, a) \in Byte /\ memword(c.mem, a) \in Word16 /\ getsp(c.mem) \in Word16
  BY <1>1, ReadType DEF Reg
<1>3. QED
  BY <1>1, <1>2, ByteIs

-----------------------------------------------------------------------------
(* Flags.                                                                  *)

\* "if (...) set else clr" never asks for both, as no two flags share a bit.
LEMMA AffectClean ==
  ASSUME NEW flags, DOMAIN flags \subseteq {"C", "Z", "N", "V", "S", "H", "T", "I"}
  PROVE  Clean(Affect(flags))
<1>1. \A f, g \in {"C", "Z", "N", "V", "S", "H", "T", "I"} : SregBit[f] = SregBit[g] => f = g
  BY DEF SregBit
<1>2. QED
  BY <1>1 DEF Affect, Clean

\* The helpers of instr.c.
LEMMA HelpersClean ==
  ASSUME NEW res, NEW rd, NEW rr
  PROVE  /\ Clean(adc_flags8(res, rd, rr)) /\ Clean(sub_flags8(res, rd, rr))
         /\ Clean(adiw_flags16(res, rd)) /\ Clean(sbiw_flags16(res, rd))
         /\ Clean(asr_flags8(res, rd)) /\ Clean(logic_flags8(res))
         /\ Clean(mul_flags16(res)) /\ Clean(fmul_flags16(res))
<1>1. Clean(adc_flags8(res, rd, rr))
  BY AffectClean DEF adc_flags8
<1>2. Clean(sub_flags8(res, rd, rr))
  BY AffectClean DEF sub_flags8
<1>3. Clean(adiw_flags16(res, rd))
  BY AffectClean DEF adiw_flags16
<1>4. Clean(sbiw_flags16(res, rd))
  BY AffectClean DEF sbiw_flags16
<1>5. Clean(asr_flags8(res, rd))
  BY AffectClean DEF asr_flags8
<1>6. Clean(logic_flags8(res))
  BY AffectClean DEF logic_flags8
<1>7. Clean(mul_flags16(res)) /\ Clean(fmul_flags16(res))
  BY AffectClean DEF mul_flags16, fmul_flags16
<1>8. QED
  BY <1>1, <1>2, <1>3, <1>4, <1>5, <1>6, <1>7

-----------------------------------------------------------------------------
(* The handlers.                                                           *)

\* Arithmetic modulo the widths of the machine.
LEMMA Widths ==
  \A x \in Int : /\ x % 256 \in Byte /\ x % 65536 \in Word16 /\ x % MemorySize \in Addr
                 /\ x % 65536 \in Int
BY ByteIs, SMT DEF Word16, Addr, MemorySize

\* What IsOperands says of the numbers a handler computes addresses from.
LEMMA OperandTypes ==
  ASSUME NEW d, IsOperands(d)
  PROVE  /\ d.ddddd \in Addr /\ d.ddddd \in Nat /\ d.rrrrr \in Nat
         /\ d.imm_u8 \in Byte /\ d.imm_u8 \in Int /\ d.imm_u16 \in Word16 /\ d.imm_u16 \in Int
         /\ d.instr \in Nat
BY ByteIs, SMT DEF IsOperands, Registers, Addr, Word16, MemorySize

\* A byte result and its flags.
LEMMA ResultFine ==
  ASSUME NEW c, Idle(c), NEW d, IsOperands(d), NEW res \in Byte, NEW f, Clean(f)
  PROVE  Fine(c, Result(c, d, res, f))
<1>1. Idle(Put(c, d.ddddd, res)) /\ Same(c, Put(c, d.ddddd, res))
  BY PutFine, OperandTypes
<1>2. QED
  BY <1>1, FlagsFine DEF Result

\* The carry is a bit.
LEMMA CarryType == ASSUME NEW c PROVE CarryIn(c) \in {0, 1}
BY Zenon DEF CarryIn

\* ADD and ADC.
LEMMA AdcFine == ASSUME NEW c, Idle(c), NEW d, IsOperands(d) PROVE Fine(c, instr_adc(c, d))
<1> DEFINE rd == Reg(c, d.ddddd)
           rr == Reg(c, d.rrrrr)
           cy == IF IsSet(d.instr, 12) THEN CarryIn(c) ELSE 0
           res == (rd + rr + cy) % 256
<1>1. rd \in Int /\ rr \in Int
  BY RegType
<1>2. cy \in {0, 1}
  BY CarryType, Zenon
<1>3. res \in Byte
  <2> HIDE DEF rd, rr, cy
  <2>1. rd + rr + cy \in Int
    BY <1>1, <1>2, SMT
  <2>2. QED
    BY <2>1, Widths
<1>4. instr_adc(c, d) = Result(c, d, res, adc_flags8(res, rd, rr))
  BY Zenon DEF instr_adc
<1>5. QED
  BY <1>3, <1>4, ResultFine, HelpersClean

\* Dropping a bit to set leaves no overlap.
LEMMA DropClean == ASSUME NEW f, Clean(f), NEW S, DOMAIN f = {"set", "clr"}
                   PROVE Clean([f EXCEPT !.set = @ \ S])
BY DEF Clean

\* CP, CPC, SUB, SBC and their immediate forms.
LEMMA SubFine ==
  ASSUME NEW c, Idle(c), NEW d, IsOperands(d)
  PROVE  Fine(c, instr_cpc(c, d)) /\ Fine(c, instr_cpi(c, d))
<1>1. Fine(c, instr_cpc(c, d))
  <2> DEFINE rd == Reg(c, d.ddddd)
             rr == Reg(c, d.rrrrr)
             cy == IF IsSet(d.instr, 12) THEN 0 ELSE CarryIn(c)
             res == (rd - rr - cy) % 256
             f  == sub_flags8(res, rd, rr)
             s  == IF Field(d.instr, 11, 10) # 1 THEN Put(c, d.ddddd, res) ELSE c
  <2>1. rd \in Int /\ rr \in Int
    BY RegType
  <2>2. cy \in {0, 1}
    BY CarryType, Zenon
  <2>3. res \in Byte
    <3> HIDE DEF rd, rr, cy
    <3>1. rd - rr - cy \in Int
      BY <2>1, <2>2, SMT
    <3>2. QED
      BY <3>1, Widths
  <2>4. instr_cpc(c, d) = Flags(s, [f EXCEPT !.set = @ \ {SregBit.Z}])
    BY Zenon DEF instr_cpc
  <2> HIDE DEF res, rd, rr
  <2>5. Idle(Put(c, d.ddddd, res)) /\ Same(c, Put(c, d.ddddd, res)) /\ Same(c, c)
    BY <2>3, PutFine, OperandTypes, SelfFine
  <2>6. Idle(s) /\ Same(c, s)
    BY <2>5
  <2>7. Clean(f) /\ DOMAIN f = {"set", "clr"}
    <3>1. \A flags : DOMAIN Affect(flags) = {"set", "clr"}
      BY DEF Affect
    <3>2. DOMAIN sub_flags8(res, rd, rr) = {"set", "clr"}
      BY <3>1, Zenon DEF sub_flags8
    <3>3. QED
      BY <3>2, HelpersClean
  <2> HIDE DEF f, s
  <2>8. Clean([f EXCEPT !.set = @ \ {SregBit.Z}])
    BY <2>7, DropClean
  <2>9. QED
    BY <2>4, <2>6, <2>8, FlagsFine
<1>2. Fine(c, instr_cpi(c, d))
  <2> DEFINE rd == Reg(c, d.ddddd)
             cy == IF IsSet(d.instr, 12) THEN 0 ELSE CarryIn(c)
             res == (rd - d.imm_u8 - cy) % 256
             s  == IF Field(d.instr, 14, 13) = 2 THEN Put(c, d.ddddd, res) ELSE c
  <2>1. rd \in Int /\ d.imm_u8 \in Int
    BY RegType, OperandTypes
  <2>2. cy \in {0, 1}
    BY CarryType, Zenon
  <2>3. res \in Byte
    <3> HIDE DEF rd, cy
    <3>1. rd - d.imm_u8 - cy \in Int
      BY <2>1, <2>2, SMT
    <3>2. QED
      BY <3>1, Widths
  <2>4. instr_cpi(c, d) = Flags(s, sub_flags8(res, rd, d.imm_u8))
    BY Zenon DEF instr_cpi
  <2> HIDE DEF res, rd
  <2>5. Idle(Put(c, d.ddddd, res)) /\ Same(c, Put(c, d.ddddd, res)) /\ Same(c, c)
    BY <2>3, PutFine, OperandTypes, SelfFine
  <2>6. Idle(s) /\ Same(c, s)
    BY <2>5
  <2>7. QED
    BY <2>4, <2>6, FlagsFine, HelpersClean
<1>3. QED
  BY <1>1, <1>2

\* ADIW and SBIW.
LEMMA WordFine ==
  ASSUME NEW c, Idle(c), NEW d, IsOperands(d)
  PROVE  Fine(c, instr_adiw(c, d)) /\ Fine(c, instr_sbiw(c, d))
<1> DEFINE p == WordPair(d)
           k == WordConst(d)
           rd == memword(c.mem, p)
           up == (rd + k) % 65536
           down == (rd - k) % 65536
<1>1. /\ Field(d.instr, 5, 4) \in 0..3 /\ Field(d.instr, 7, 6) \in 0..3
      /\ Field(d.instr, 3, 0) \in 0..15
  BY OperandTypes, FieldTypes
<1>2. p \in 24..30 /\ k \in Int
  BY <1>1, SMT DEF WordPair, WordConst
<1>3. rd \in Word16
  BY RegType
<1>4. instr_adiw(c, d) = Flags(PutWord(c, p, up), adiw_flags16(up, rd))
  BY SMT DEF instr_adiw
<1>5. instr_sbiw(c, d) = Flags(PutWord(c, p, down), sbiw_flags16(down, rd))
  BY SMT DEF instr_sbiw
<1> HIDE DEF p, k, rd
<1>6. p \in Addr /\ p + 1 \in Addr
  BY <1>2, SMT DEF Addr, MemorySize
<1>7. rd + k \in Int /\ rd - k \in Int
  BY <1>2, <1>3, SMT DEF Word16
<1>8. up \in Int /\ down \in Int
  BY <1>7, Widths
<1> HIDE DEF up, down
<1>9. /\ Idle(PutWord(c, p, up)) /\ Same(c, PutWord(c, p, up))
      /\ Idle(PutWord(c, p, down)) /\ Same(c, PutWord(c, p, down))
  BY <1>6, <1>8, PutWordFine
<1>10. QED
  BY <1>4, <1>5, <1>9, FlagsFine, HelpersClean

\* AND, OR, EOR and their immediate forms.
LEMMA LogicFine ==
  ASSUME NEW c, Idle(c), NEW d, IsOperands(d)
  PROVE  /\ Fine(c, instr_and(c, d)) /\ Fine(c, instr_andi(c, d)) /\ Fine(c, instr_or(c, d))
         /\ Fine(c, instr_ori(c, d)) /\ Fine(c, instr_xor(c, d))
<1>1. \A res \in Byte : Fine(c, Logic(c, d, res))
  BY ResultFine, HelpersClean DEF Logic
<1> DEFINE rd == Reg(c, d.ddddd)
           rr == Reg(c, d.rrrrr)
<1>2. rd \in Byte /\ rr \in Byte /\ d.imm_u8 \in Byte
  BY RegType, OperandTypes
<1>3. /\ And(rd, rr) \in Byte /\ And(rd, d.imm_u8) \in Byte /\ Or(rd, rr) \in Byte
      /\ Or(rd, d.imm_u8) \in Byte /\ Xor(rd, rr) \in Byte
  BY <1>2, ByteOps
<1>4. QED
  BY <1>1, <1>3, Zenon DEF instr_and, instr_andi, instr_or, instr_ori, instr_xor

\* COM, NEG, SWAP and the shifts.
LEMMA UnaryFine ==
  ASSUME NEW c, Idle(c), NEW d, IsOperands(d)
  PROVE  /\ Fine(c, instr_com(c, d)) /\ Fine(c, instr_neg(c, d)) /\ Fine(c, instr_swap(c, d))
         /\ Fine(c, instr_asr(c, d)) /\ Fine(c, instr_lsr(c, d)) /\ Fine(c, instr_ror(c, d))
<1> DEFINE rd == Reg(c, d.ddddd)
<1>1. rd \in Byte /\ rd \in Int
  BY RegType
<1>2. Fine(c, instr_com(c, d))
  <2> DEFINE res == Not(rd)
             n   == IsSet(res, 7)
             fl  == [C |-> TRUE, V |-> FALSE, Z |-> res = 0, N |-> n, S |-> n]
  <2>1. res \in Byte
    BY <1>1, ByteOps
  <2>2. instr_com(c, d) = Result(c, d, res, Affect(fl))
    BY Zenon DEF instr_com
  <2>3. Clean(Affect(fl))
    BY AffectClean
  <2>4. QED
    BY <2>1, <2>2, <2>3, ResultFine
<1>3. Fine(c, instr_neg(c, d))
  <2> DEFINE res == (0 - rd) % 256
             n   == IsSet(res, 7)
             v   == res = 128
             fl  == [Z |-> res = 0, C |-> res # 0, N |-> n, V |-> v,
                     H |-> IsSet(res, 3) \/ IsSet(rd, 3), S |-> n # v]
  <2>1. res \in Byte
    <3> HIDE DEF rd
    <3>1. 0 - rd \in Int
      BY <1>1, SMT
    <3>2. QED
      BY <3>1, Widths
  <2>2. instr_neg(c, d) = Result(c, d, res, Affect(fl))
    BY Zenon DEF instr_neg
  <2>3. Clean(Affect(fl))
    BY AffectClean
  <2>4. QED
    BY <2>1, <2>2, <2>3, ResultFine
<1>4. Fine(c, instr_swap(c, d))
  <2>1. rd \div 16 + 16 * (rd % 16) \in Byte
    <3> HIDE DEF rd
    <3>1. \A x \in Nat : x < 256 => x \div 16 + 16 * (x % 16) \in Nat
                                      /\ x \div 16 + 16 * (x % 16) < 256
      BY SMT
    <3>2. QED
      BY <1>1, <3>1, ByteIs, SMT
  <2>2. instr_swap(c, d) = Put(c, d.ddddd, rd \div 16 + 16 * (rd % 16))
    BY Zenon DEF instr_swap
  <2>3. QED
    BY <2>1, <2>2, PutFine, OperandTypes, IdleFine
<1>5. \A top \in BOOLEAN : Fine(c, Shift(c, d, top))
  <2> TAKE top \in BOOLEAN
  <2> DEFINE res == rd \div 2 + (IF top THEN 128 ELSE 0)
  <2>1. res \in Byte
    <3> HIDE DEF rd
    <3>1. QED
      BY <1>1, ByteIs, SMT
  <2>2. Shift(c, d, top) = Result(c, d, res, asr_flags8(res, rd))
    BY Zenon DEF Shift
  <2>3. QED
    BY <2>1, <2>2, ResultFine, HelpersClean
<1>6. IsSet(rd, 7) \in BOOLEAN /\ FALSE \in BOOLEAN /\ Flag(c, "C") \in BOOLEAN
  BY DEF IsSet, Flag
<1>7. QED
  BY <1>2, <1>3, <1>4, <1>5, <1>6, Zenon DEF instr_asr, instr_lsr, instr_ror

\* INC and DEC move bits between the two sets.
LEMMA IncDecFine ==
  ASSUME NEW c, Idle(c), NEW d, IsOperands(d)
  PROVE  Fine(c, instr_inc(c, d)) /\ Fine(c, instr_dec(c, d))
<1> DEFINE up   == (Reg(c, d.ddddd) + 1) % 256
           down == (Reg(c, d.ddddd) - 1) % 256
<1>1. up \in Byte /\ down \in Byte
  <2>1. Reg(c, d.ddddd) + 1 \in Int /\ Reg(c, d.ddddd) - 1 \in Int
    BY RegType, SMT
  <2>2. QED
    BY <2>1, Widths
<1>2. SregBit.S = 4 /\ SregBit.V = 3
  BY DEF SregBit
<1>3. Fine(c, instr_inc(c, d))
  <2> DEFINE f == logic_flags8(up)
             g == [set |-> (f.set \ {SregBit.S}) \cup {SregBit.V},
                   clr |-> (f.clr \ {SregBit.V}) \cup {SregBit.S}]
  <2>1. instr_inc(c, d) = Result(c, d, up, IF up = 128 THEN g ELSE f)
    BY Zenon DEF instr_inc
  <2>2. Clean(f)
    BY HelpersClean
  <2> HIDE DEF f
  <2>3. Clean(g)
    BY <1>2, <2>2 DEF Clean
  <2> HIDE DEF g, up
  <2>4. Clean(IF up = 128 THEN g ELSE f)
    BY <2>2, <2>3
  <2>5. QED
    BY <1>1, <2>1, <2>4, ResultFine
<1>4. Fine(c, instr_dec(c, d))
  <2> DEFINE f == logic_flags8(down)
             g == [set |-> f.set \cup {SregBit.V, SregBit.S},
                   clr |-> f.clr \ {SregBit.V, SregBit.S}]
  <2>1. instr_dec(c, d) = Result(c, d, down, IF down = 127 THEN g ELSE f)
    BY Zenon DEF instr_dec
  <2>2. Clean(f)
    BY HelpersClean
  <2> HIDE DEF f
  <2>3. Clean(g)
    BY <2>2 DEF Clean
  <2> HIDE DEF g, down
  <2>4. Clean(IF down = 127 THEN g ELSE f)
    BY <2>2, <2>3
  <2>5. QED
    BY <1>1, <2>1, <2>4, ResultFine
<1>5. QED
  BY <1>3, <1>4

\* The multiplications.
LEMMA ProductFine ==
  ASSUME NEW c, Idle(c), NEW d, IsOperands(d)
  PROVE  /\ Fine(c, instr_mul(c, d)) /\ Fine(c, instr_muls(c, d)) /\ Fine(c, instr_mulsu(c, d))
         /\ Fine(c, instr_fmul(c, d)) /\ Fine(c, instr_fmulsu(c, d))
<1>1. \A s, u \in BOOLEAN : Product(c, d, s, u) \in Int
  <2> TAKE s, u \in BOOLEAN
  <2> DEFINE rd == Reg(c, d.ddddd)
             rr == Reg(c, d.rrrrr)
             x  == IF s THEN Signed(rd, 8) ELSE rd
             y  == IF u THEN Signed(rr, 8) ELSE rr
  <2>1. rd \in Int /\ rr \in Int
    BY RegType
  <2>2. x \in Int /\ y \in Int
    BY <2>1, SignedTypes, Zenon
  <2>3. Product(c, d, s, u) = (x * y) % 65536
    BY SMT DEF Product
  <2> HIDE DEF x, y
  <2>4. x * y \in Int
    BY <2>2, SMT
  <2>5. QED
    BY <2>3, <2>4, Widths
<1>2. \A res \in Int : Fine(c, Mul(c, res)) /\ Fine(c, Fmul(c, res))
  <2> TAKE res \in Int
  <2>1. (2 * res) % 65536 \in Int
    BY SMT
  <2>2. 0 \in Addr /\ 0 + 1 \in Addr
    BY SMT DEF Addr, MemorySize
  <2>3. /\ Idle(PutWord(c, 0, res)) /\ Same(c, PutWord(c, 0, res))
        /\ Idle(PutWord(c, 0, (2 * res) % 65536)) /\ Same(c, PutWord(c, 0, (2 * res) % 65536))
    BY <2>1, <2>2, PutWordFine, SMT
  <2>4. QED
    BY <2>3, FlagsFine, HelpersClean, SMT DEF Mul, Fmul
<1>3. TRUE \in BOOLEAN /\ FALSE \in BOOLEAN /\ (~IsSet(d.instr, 3)) \in BOOLEAN
  BY DEF IsSet
<1>4. QED
  BY <1>1, <1>2, <1>3, Zenon
  DEF instr_mul, instr_muls, instr_mulsu, instr_fmul, instr_fmulsu

\* The cipher: eight bytes in, eight bytes out.
LEMMA DesFine ==
  ASSUME DesTyped, NEW c, Idle(c), NEW d
  PROVE  Fine(c, instr_des(c, d))
<1> DEFINE key   == [i \in 0..7 |-> Reg(c, 8 + i)]
           block == [i \in 0..7 |-> Reg(c, i)]
           out   == DES_ecb_encrypt(key, block, Flag(c, "H"))
           m     == [a \in DOMAIN c.mem \cup 0..7 |-> IF a \in 0..7 THEN out[a] ELSE c.mem[a]]
<1>1. \A a : Reg(c, a) \in Byte
  BY RegType
<1>2. key \in Blocks /\ block \in Blocks /\ Flag(c, "H") \in BOOLEAN
  BY <1>1, Zenon DEF Blocks, Flag, IsSet
<1>3. out \in Blocks
  BY <1>2, Zenon DEF DesTyped
<1>4. instr_des(c, d) = IF ~LastRound(d) THEN c ELSE [c EXCEPT !.mem = m]
  BY Zenon DEF instr_des
<1> HIDE DEF key, block, out
<1>5. \A i \in 0..7 : out[i] \in Byte
  BY <1>3, Zenon DEF Blocks
<1>6. IsMemory(c.mem)
  BY RegType
<1>7. IsMemory(m)
  <2>1. DOMAIN m = DOMAIN c.mem \cup 0..7
         /\ \A a \in DOMAIN m : m[a] = IF a \in 0..7 THEN out[a] ELSE c.mem[a]
    BY Zenon
  <2> HIDE DEF m
  <2>2. \A a \in DOMAIN m : m[a] \in Byte
    BY <1>5, <1>6, <2>1, SMT DEF IsMemory
  <2>3. \A a \in DOMAIN m : a \in Nat /\ a < MemorySize
    BY <1>6, <2>1, SMT DEF IsMemory, MemorySize
  <2>4. QED
    BY <2>2, <2>3, SMT DEF IsMemory
<1> HIDE DEF m
<1>8. QED
  BY <1>4, <1>7, MemFine, IdleFine, SelfFine

\* Single bits and the tests that skip.
LEMMA BitFine ==
  ASSUME NEW c, Idle(c), NEW d, IsOperands(d)
  PROVE  /\ Fine(c, instr_bclrset(c, d)) /\ Fine(c, instr_bld(c, d)) /\ Fine(c, instr_bst(c, d))
         /\ Fine(c, instr_cbisbi(c, d)) /\ Fine(c, instr_cpse(c, d)) /\ Fine(c, instr_sbics(c, d))
         /\ Fine(c, instr_sbrcs(c, d))
<1>1. Fine(c, instr_bclrset(c, d))
  <2> DEFINE sss == {d.ddddd - 16}
             f == IF IsSet(d.instr, 7) THEN [set |-> {}, clr |-> sss]
                                       ELSE [set |-> sss, clr |-> {}]
  <2>1. instr_bclrset(c, d) = Flags(c, f)
    BY Zenon DEF instr_bclrset
  <2>2. Clean(f)
    BY DEF Clean
  <2>3. QED
    BY <2>1, <2>2, SelfFine, FlagsFine
<1>2. Fine(c, instr_bld(c, d))
  <2>1. SetBit(Reg(c, d.ddddd), d.rrrrr - 16, Flag(c, "T")) \in Byte
    BY FromBitsType, Zenon DEF SetBit
  <2>2. QED
    BY <2>1, PutFine, OperandTypes, IdleFine DEF instr_bld
<1>3. Fine(c, instr_bst(c, d))
  <2>1. Clean(Affect([T |-> IsSet(Reg(c, d.ddddd), d.rrrrr - 16)]))
    BY AffectClean
  <2>2. QED
    BY <2>1, SelfFine, FlagsFine DEF instr_bst
<1>4. Fine(c, instr_cbisbi(c, d))
  <2>1. SetBit(Reg(c, IoBit(d)), d.rrrrr - 16, IsSet(d.instr, 9)) \in Byte
    BY FromBitsType, Zenon DEF SetBit
  <2>2. Field(d.instr, 7, 3) \in 0..31
    BY OperandTypes, FieldTypes
  <2>3. IoBit(d) \in Addr
    BY <2>2, SMT DEF IoBit, IO_BASE, Addr, MemorySize
  <2>4. QED
    BY <2>1, <2>3, PutFine, IdleFine DEF instr_cbisbi
<1>5. /\ (Reg(c, d.ddddd) = Reg(c, d.rrrrr)) \in BOOLEAN
      /\ (IsSet(d.instr, 9) = IsSet(Reg(c, IoBit(d)), d.rrrrr - 16)) \in BOOLEAN
      /\ (IsSet(d.instr, 9) = IsSet(Reg(c, d.ddddd), d.rrrrr - 16)) \in BOOLEAN
  BY Zenon
<1>6. \A b \in BOOLEAN : Fine(c, SkipIf(c, b))
  BY SkipFine, IdleFine
<1>7. Fine(c, instr_cpse(c, d)) /\ Fine(c, instr_sbics(c, d)) /\ Fine(c, instr_sbrcs(c, d))
  BY <1>5, <1>6, Zenon DEF instr_cpse, instr_sbics, instr_sbrcs
<1>8. QED
  BY <1>1, <1>2, <1>3, <1>4, <1>7

\* Moves between registers, and registers and ports.
LEMMA MoveFine ==
  ASSUME NEW c, Idle(c), NEW d, IsOperands(d)
  PROVE  /\ Fine(c, instr_nop(c, d)) /\ Fine(c, instr_mov(c, d)) /\ Fine(c, instr_ldi(c, d))
         /\ Fine(c, instr_in(c, d)) /\ Fine(c, instr_out(c, d))
         /\ d.ddddd >= 16 => Fine(c, instr_movw(c, d))
<1>1. Fine(c, instr_nop(c, d))
  BY SelfFine DEF instr_nop
<1>2. \A a \in Addr, v \in Byte : Fine(c, Put(c, a, v))
  BY PutFine, IdleFine
<1>3. \A a : Reg(c, a) \in Byte
  BY RegType
<1>4. d.ddddd \in Addr /\ d.imm_u8 \in Byte
  BY OperandTypes
<1>5. IoPort(d) \in Addr
  <2>1. Field(d.instr, 10, 9) \in 0..3 /\ Field(d.instr, 3, 0) \in 0..15
    BY OperandTypes, FieldTypes
  <2>2. QED
    BY <2>1, SMT DEF IoPort, IO_BASE, Addr, MemorySize
<1>6. Fine(c, instr_mov(c, d)) /\ Fine(c, instr_ldi(c, d))
      /\ Fine(c, instr_in(c, d)) /\ Fine(c, instr_out(c, d))
  BY <1>2, <1>3, <1>4, <1>5, Zenon DEF instr_mov, instr_ldi, instr_in, instr_out
<1>7. ASSUME d.ddddd >= 16 PROVE Fine(c, instr_movw(c, d))
  <2> DEFINE w == memword(c.mem, 2 * (d.rrrrr - 16))
             a == 2 * (d.ddddd - 16)
  <2>1. w \in Word16
    BY RegType
  <2>2. a \in Addr /\ a + 1 \in Addr
    BY <1>7, SMT DEF IsOperands, Registers, Addr, MemorySize
  <2>3. instr_movw(c, d) = PutWord(c, a, w)
    BY Zenon DEF instr_movw
  <2> HIDE DEF a, w
  <2>4. w \in Int
    BY <2>1, SMT DEF Word16
  <2>5. QED
    BY <2>2, <2>3, <2>4, PutWordFine, IdleFine
<1>8. QED
  BY <1>1, <1>6, <1>7

\* Addresses extended by a RAMP register have 24 bits.
LEMMA ExtendType ==
  ASSUME NEW c, Idle(c), NEW a \in Word16, NEW ramp
  PROVE  Extend(c, a, ramp) \in Addr
<1>1. Reg(c, ramp) \in Nat /\ Reg(c, ramp) < 256
  BY RegType, ByteIs
<1>2. QED
  BY <1>1, SMT DEF Extend, Word16, Addr, MemorySize

\* LDS and STS; XCH and its kin.
LEMMA DirectFine ==
  ASSUME NEW c, Idle(c), NEW d, IsOperands(d)
  PROVE  Fine(c, instr_lds(c, d)) /\ Fine(c, instr_sts(c, d)) /\ Fine(c, instr_xch(c, d))
<1>1. \A a : Reg(c, a) \in Byte
  BY RegType
<1>2. d.ddddd \in Addr /\ d.imm_u16 \in Word16
  BY OperandTypes
<1>3. Fine(c, instr_lds(c, d))
  BY <1>1, <1>2, PutFine, IdleFine DEF instr_lds
<1>4. Fine(c, instr_sts(c, d))
  <2> DEFINE a == Extend(c, d.imm_u16, RAMPD)
             t == IF c.k.pc_mem_max_256b THEN a % 256 ELSE a
  <2>1. a \in Addr
    BY <1>2, ExtendType
  <2>2. instr_sts(c, d) = Put(c, t, Reg(c, d.ddddd))
    BY Zenon DEF instr_sts
  <2> HIDE DEF a
  <2>3. t \in Addr
    BY <2>1, SMT DEF Addr, MemorySize
  <2>4. QED
    BY <1>1, <2>2, <2>3, PutFine, IdleFine
<1>5. Fine(c, instr_xch(c, d))
  <2> DEFINE z   == memword(c.mem, REGP_Z)
             rd  == Reg(c, d.ddddd)
             old == Reg(c, z)
             f   == Field(d.instr, 1, 0)
             new == CASE f = 0 -> rd
                      [] f = 1 -> Or(old, rd)
                      [] f = 2 -> And(old, Not(rd))
                      [] f = 3 -> Xor(old, rd)
  <2>1. z \in Addr /\ rd \in Byte /\ old \in Byte
    BY <1>1, RegType, Addresses
  <2>2. Or(old, rd) \in Byte /\ And(old, Not(rd)) \in Byte /\ Xor(old, rd) \in Byte
    BY <2>1, ByteOps
  <2>3. instr_xch(c, d) = Put(Put(c, z, new), d.ddddd, old)
    BY Zenon DEF instr_xch
  <2>4. f \in 0..3
    BY OperandTypes, FieldTypes
  <2> HIDE DEF f, z, rd, old
  <2>5. f = 0 \/ f = 1 \/ f = 2 \/ f = 3
    BY <2>4
  <2>6. new \in Byte
    BY <2>1, <2>2, <2>5, Zenon
  <2> HIDE DEF new
  <2>7. Idle(Put(c, z, new)) /\ Same(c, Put(c, z, new))
    BY <2>1, <2>6, PutFine
  <2>8. /\ Idle(Put(Put(c, z, new), d.ddddd, old))
        /\ Same(Put(c, z, new), Put(Put(c, z, new), d.ddddd, old))
    BY <1>2, <2>1, <2>7, PutFine
  <2>9. QED
    BY <2>3, <2>7, <2>8, SameTrans, IdleFine
<1>6. QED
  BY <1>3, <1>4, <1>5

\* A handler that either does its work or, for a cause, ends the process.
Stops(c, r, cause) == Fine(c, r) \/ (cause /\ r = Trap(c))

\* The pointer that is written back.
LEMMA PutPointerFine ==
  ASSUME NEW c, NEW s, Idle(s), Same(c, s), NEW rp \in Registers, rp < 31,
         NEW ramp \in Registers \cup 88..91, NEW next \in Int
  PROVE  Idle(PutPointer(s, rp, ramp, next)) /\ Same(c, PutPointer(s, rp, ramp, next))
<1>1. rp \in Addr /\ rp + 1 \in Addr /\ ramp \in Addr
  BY SMT DEF Registers, Addr, MemorySize
<1> DEFINE low == next % 256
           word == next % 65536
           top == (next \div 65536) % 256
<1>2. low \in Byte /\ word \in Int
  BY Widths
<1>3. top \in Byte
  BY Widths, SMT
<1>4. PutPointer(s, rp, ramp, next) =
        IF s.k.pc_mem_max_256b THEN Put(s, rp, low)
        ELSE IF s.k.pc_mem_max_64k THEN PutWord(s, rp, word)
        ELSE Put(PutWord(s, rp, word), ramp, top)
  BY SMT DEF PutPointer
<1> HIDE DEF low, word, top
<1>5. Idle(Put(s, rp, low)) /\ Same(s, Put(s, rp, low))
  BY <1>1, <1>2, PutFine
<1>6. Idle(PutWord(s, rp, word)) /\ Same(s, PutWord(s, rp, word))
  BY <1>1, <1>2, PutWordFine
<1>7. /\ Idle(Put(PutWord(s, rp, word), ramp, top))
      /\ Same(PutWord(s, rp, word), Put(PutWord(s, rp, word), ramp, top))
  BY <1>1, <1>3, <1>6, PutFine
<1>8. Same(c, Put(s, rp, low)) /\ Same(c, PutWord(s, rp, word))
       /\ Same(c, Put(PutWord(s, rp, word), ramp, top))
  BY <1>5, <1>6, <1>7, SameTrans
<1>9. QED
  BY <1>4, <1>5, <1>6, <1>7, <1>8, Zenon

\* instr_ldst_common(): the address has 24 bits in each of its modes.
LEMMA LdStFine ==
  ASSUME NEW c, Idle(c), NEW d, IsOperands(d), NEW rp \in Registers, rp < 31,
         NEW ramp \in 88..91, NEW mode, NEW displace \in Int, NEW store
  PROVE  Stops(c, instr_ldst_common(c, d, rp, ramp, mode, displace, store),
               MovesItself(d, rp, mode))
<1> DEFINE base  == Extend(c, memword(c.mem, rp), ramp)
           moved == Moved(base, mode, displace)
           addr  == IF c.k.pc_mem_max_256b THEN moved % 256
                    ELSE IF c.k.pc_mem_max_64k THEN moved % 65536 ELSE moved
           done  == IF store THEN Put(c, addr, Reg(c, d.ddddd))
                             ELSE Put(c, d.ddddd, Reg(c, addr))
           next  == IF mode = 1 THEN addr + 1 ELSE addr
           r     == instr_ldst_common(c, d, rp, ramp, mode, displace, store)
<1>1. r = IF MovesItself(d, rp, mode) THEN Trap(c)
          ELSE IF mode \in {1, 2} THEN PutPointer(done, rp, ramp, next) ELSE done
  BY SMT DEF instr_ldst_common
<1>2. base \in Addr
  BY RegType, ExtendType
<1> HIDE DEF base
<1>3. moved \in Addr
  <2>1. (base - 1) % MemorySize \in Addr /\ (base + displace) % MemorySize \in Addr
    <3>1. base - 1 \in Int /\ base + displace \in Int
      BY <1>2, SMT DEF Addr, MemorySize
    <3>2. QED
      BY <3>1, Widths
  <2> DEFINE down == (base - 1) % MemorySize
             at   == (base + displace) % MemorySize
  <2>2. moved = CASE mode = 1 -> base [] mode = 2 -> down [] mode \notin {1, 2} -> at
    BY Zenon DEF Moved
  <2> HIDE DEF moved, down, at
  <2>3. QED
    BY <1>2, <2>1, <2>2, Zenon DEF down, at
<1> HIDE DEF moved
<1>4. addr \in Addr
  BY <1>3, SMT DEF Addr, MemorySize
<1> HIDE DEF addr
<1>5. next \in Int
  BY <1>4, SMT DEF Addr, MemorySize
<1>6. Idle(done) /\ Same(c, done)
  <2>1. Reg(c, d.ddddd) \in Byte /\ Reg(c, addr) \in Byte /\ d.ddddd \in Addr
    BY RegType, OperandTypes
  <2>2. /\ Idle(Put(c, addr, Reg(c, d.ddddd))) /\ Same(c, Put(c, addr, Reg(c, d.ddddd)))
        /\ Idle(Put(c, d.ddddd, Reg(c, addr))) /\ Same(c, Put(c, d.ddddd, Reg(c, addr)))
    BY <1>4, <2>1, PutFine
  <2>3. QED
    BY <2>2, Zenon
<1> HIDE DEF done, next
<1>7. Idle(PutPointer(done, rp, ramp, next)) /\ Same(c, PutPointer(done, rp, ramp, next))
  BY <1>5, <1>6, PutPointerFine
<1>8. Fine(c, done) /\ Fine(c, PutPointer(done, rp, ramp, next))
  BY <1>6, <1>7, IdleFine
<1> HIDE DEF r
<1>9. QED
  BY <1>1, <1>8, Zenon DEF Stops, r

\* Loads and stores through X, Y and Z.
LEMMA IndirectFine ==
  ASSUME NEW c, Idle(c), NEW d, IsOperands(d)
  PROVE  LET moving == Field(d.instr, 1, 0) \in {1, 2}
             xcause == moving /\ d.ddddd \in {26, 27}
             cause  == IsSet(d.instr, 12) /\ moving
                         /\ d.ddddd \in IF IsSet(d.instr, 3) THEN {28, 29} ELSE {30, 31}
         IN  /\ Stops(c, instr_ldx(c, d), xcause) /\ Stops(c, instr_stx(c, d), xcause)
             /\ Stops(c, instr_ldyz(c, d), cause) /\ Stops(c, instr_styz(c, d), cause)
<1> DEFINE f == Field(d.instr, 1, 0)
           moving == f \in {1, 2}
           xcause == moving /\ d.ddddd \in {26, 27}
           cause  == IsSet(d.instr, 12) /\ moving
                       /\ d.ddddd \in IF IsSet(d.instr, 3) THEN {28, 29} ELSE {30, 31}
<1>1. /\ REGP_X = 26 /\ REGP_Y = 28 /\ REGP_Z = 30
      /\ RAMPX \in 88..91 /\ RAMPY \in 88..91 /\ RAMPZ \in 88..91
  BY DEF REGP_X, REGP_Y, REGP_Z, RAMPX, RAMPY, RAMPZ
<1>2. /\ REGP_X \in Registers /\ REGP_X < 31 /\ REGP_Y \in Registers /\ REGP_Y < 31
      /\ REGP_Z \in Registers /\ REGP_Z < 31 /\ 0 \in Int
  BY <1>1 DEF Registers
<1>3. \A mode : MovesItself(d, REGP_X, mode) <=> mode \in {1, 2} /\ d.ddddd \in {26, 27}
  BY <1>1 DEF MovesItself
<1>4. \A mode : MovesItself(d, REGP_Y, mode) <=> mode \in {1, 2} /\ d.ddddd \in {28, 29}
  BY <1>1 DEF MovesItself
<1>5. \A mode : MovesItself(d, REGP_Z, mode) <=> mode \in {1, 2} /\ d.ddddd \in {30, 31}
  BY <1>1 DEF MovesItself
<1>6. \A store : Stops(c, LoadStoreX(c, d, store), xcause)
  <2> TAKE store
  <2>1. Stops(c, LoadStoreX(c, d, store), MovesItself(d, REGP_X, f))
    BY <1>1, <1>2, LdStFine DEF LoadStoreX
  <2>2. QED
    BY <1>3, <2>1, Zenon DEF Stops
<1>7. \A store : Stops(c, LoadStoreYZ(c, d, store), cause)
  <2> TAKE store
  <2> DEFINE displaced == ~IsSet(d.instr, 12)
             mode      == IF displaced THEN 0 ELSE f
             displace  == IF displaced THEN Displacement(d) ELSE 0
             y == instr_ldst_common(c, d, REGP_Y, RAMPY, mode, displace, store)
             z == instr_ldst_common(c, d, REGP_Z, RAMPZ, mode, displace, store)
  <2>1. LoadStoreYZ(c, d, store) = IF IsSet(d.instr, 3) THEN y ELSE z
    BY Zenon DEF LoadStoreYZ
  <2>2. displace \in Int
    <3>1. /\ Bit(d.instr, 13) \in 0..1 /\ Field(d.instr, 11, 10) \in 0..3
          /\ Field(d.instr, 2, 0) \in 0..7
      BY OperandTypes, BitTypes, FieldTypes
    <3>2. Displacement(d) \in Int
      BY <3>1, SMT DEF Displacement
    <3>3. QED
      BY <1>2, <3>2, Zenon
  <2>3. mode \in {1, 2} <=> IsSet(d.instr, 12) /\ moving
    <3>1. 0 \notin {1, 2}
      OBVIOUS
    <3>2. QED
      BY <3>1, Zenon
  <2> HIDE DEF displace, mode
  <2>4. Stops(c, y, MovesItself(d, REGP_Y, mode)) /\ Stops(c, z, MovesItself(d, REGP_Z, mode))
    BY <1>1, <1>2, <2>2, LdStFine
  <2> HIDE DEF y, z, f
  <2>5. QED
    BY <1>4, <1>5, <2>1, <2>3, <2>4, Zenon DEF Stops
<1>8. QED
  BY <1>6, <1>7, Zenon DEF instr_ldx, instr_stx, instr_ldyz, instr_styz

\* Words and bytes of flash.
LEMMA RomType ==
  ASSUME NEW fl, IsFlash(fl), NEW a
  PROVE  romword(fl, a) \in Word16 /\ romword(fl, a) \in Nat /\ rombyte(fl, a) \in Byte
<1>1. \A x : romword(fl, x) \in Word16
  BY SMT DEF romword, IsFlash, Word16
<1>2. \A x : romword(fl, x) \in Nat
  BY <1>1, SMT DEF Word16
<1>3. Low(romword(fl, a \div 2)) \in Byte /\ High(romword(fl, a \div 2)) \in Byte
  BY <1>2, LowHigh
<1>4. rombyte(fl, a) \in Byte
  BY <1>3 DEF rombyte
<1>5. QED
  BY <1>1, <1>2, <1>4

\* LPM and ELPM.
LEMMA ElpmFine ==
  ASSUME NEW c, Idle(c), NEW d, IsOperands(d)
  PROVE  /\ Fine(c, instr_elpm(c, d))
         /\ Stops(c, instr_elpmz(c, d), IsSet(d.instr, 0) /\ d.ddddd \in {30, 31})
<1>1. \A a : rombyte(c.flash, a) \in Byte
  BY RomType DEF Idle, IsMachine
<1>2. 0 \in Addr /\ d.ddddd \in Addr
  BY OperandTypes, SMT DEF Addr, MemorySize
<1>3. Fine(c, instr_elpm(c, d))
  BY <1>1, <1>2, PutFine, IdleFine DEF instr_elpm
<1>4. \A ext : FlashAddr(c, ext) \in Int
  <2>1. memword(c.mem, REGP_Z) \in Nat /\ Reg(c, RAMPZ) \in Nat
    <3>1. memword(c.mem, REGP_Z) \in Word16 /\ Reg(c, RAMPZ) \in Byte
      BY RegType
    <3>2. QED
      BY <3>1, ByteIs, SMT DEF Word16
  <2>2. QED
    BY <2>1, SMT DEF FlashAddr
<1> DEFINE addr    == FlashAddr(c, IsSet(d.instr, 1))
           loaded  == Put(c, d.ddddd, rombyte(c.flash, addr))
           postinc == IsSet(d.instr, 0)
           w       == (addr + 1) % 65536
           moved   == PutWord(loaded, REGP_Z, w)
           inZ     == d.ddddd \in {30, 31}
           r == CASE postinc /\ inZ -> Trap(c) [] postinc /\ ~inZ -> moved [] ~postinc -> loaded
<1>5. instr_elpmz(c, d) = CASE postinc /\ d.ddddd \in {30, 31} -> Trap(c)
        [] postinc /\ d.ddddd \notin {30, 31} -> moved
        [] ~postinc -> loaded
  BY DEF instr_elpmz
<1>6. addr \in Int
  BY <1>4
<1> HIDE DEF addr
<1>7. w \in Int
  BY <1>6, SMT
<1>8. Idle(loaded) /\ Same(c, loaded)
  BY <1>1, <1>2, PutFine
<1> HIDE DEF loaded, w
<1>9. Idle(moved) /\ Same(loaded, moved)
  <2>1. REGP_Z \in Addr /\ REGP_Z + 1 \in Addr
    BY SMT DEF REGP_Z, Addr, MemorySize
  <2>2. QED
    BY <1>7, <1>8, <2>1, PutWordFine
<1> HIDE DEF moved
<1>10. Fine(c, loaded) /\ Fine(c, moved)
  BY <1>8, <1>9, SameTrans, IdleFine
<1>11. Stops(c, instr_elpmz(c, d), IsSet(d.instr, 0) /\ d.ddddd \in {30, 31})
  BY <1>5, <1>10, Zenon DEF Stops
<1>12. QED
  BY <1>3, <1>11

\* PUSH and POP.
LEMMA StackFine ==
  ASSUME NEW c, Idle(c), NEW d, IsOperands(d)
  PROVE  Fine(c, instr_push(c, d)) /\ Fine(c, instr_pop(c, d))
<1>1. IsMemory(c.mem) /\ Reg(c, d.ddddd) \in Byte /\ d.ddddd \in Addr
  BY RegType, OperandTypes
<1>2. IsMemory(pushbyte(c.mem, Reg(c, d.ddddd)))
  BY <1>1, StackType
<1>3. IsMemory(Store(popped(c.mem), d.ddddd, popbyte(c.mem)))
  BY <1>1, StackType, StoreType
<1>4. QED
  BY <1>2, <1>3, MemFine, IdleFine DEF instr_push, instr_pop

\* A call pushes the return address.
LEMMA CallFine ==
  ASSUME NEW c, Idle(c), NEW size \in Int
  PROVE  Idle(CallPc(c, size)) /\ Same(c, CallPc(c, size)) /\ CallPc(c, size).pc = c.pc
<1> DEFINE m == PushPc(c.mem, c.pc_start + size, c.k.pc22)
<1>1. c.pc_start + size \in Int /\ IsMemory(c.mem)
  BY DEF Idle, IsMachine
<1>2. IsMemory(m)
  BY <1>1, PushPcType
<1>3. CallPc(c, size) = [c EXCEPT !.mem = m]
  BY DEF CallPc
<1> HIDE DEF m
<1>4. QED
  BY <1>2, <1>3, MemFine

\* A jump, after whatever the handler did before.
LEMMA JumpsFine ==
  ASSUME NEW c, NEW s, Idle(s), Same(c, s), NEW a \in Int
  PROVE  Fine(c, Jump(s, a)) /\ Fine(c, [s EXCEPT !.pc = a])
<1>1. s.instr_size \in Int
  BY DEF Idle, IsMachine
<1>2. a - s.instr_size \in Int
  BY <1>1
<1>3. /\ Idle(Jump(s, a)) /\ Same(s, Jump(s, a))
      /\ Idle([s EXCEPT !.pc = a]) /\ Same(s, [s EXCEPT !.pc = a])
  BY JumpFine
<1>4. QED
  BY <1>3, SameTrans, IdleFine

\* Jumps, calls and branches.
LEMMA FlowFine ==
  ASSUME NEW c, Idle(c), NEW d, IsOperands(d)
  PROVE  /\ Fine(c, instr_jmp(c, d)) /\ Fine(c, instr_call(c, d))
         /\ Stops(c, instr_eicalljump(c, d), IsSet(d.instr, 4) /\ ~c.k.pc22)
         /\ Fine(c, instr_rcalljmp(c, d)) /\ Fine(c, instr_brb(c, d))
<1>1. Same(c, c) /\ c.pc \in Int /\ Fine(c, c)
  BY SelfFine DEF Idle, IsMachine
<1>2. /\ Idle(CallPc(c, 1)) /\ Same(c, CallPc(c, 1)) /\ CallPc(c, 1).pc \in Int
      /\ Idle(CallPc(c, 2)) /\ Same(c, CallPc(c, 2)) /\ CallPc(c, 1).pc = c.pc
  BY <1>1, CallFine
<1>3. LongAddr(c, d) \in Int
  <2>1. Field(d.instr, 8, 4) \in 0..31 /\ Bit(d.instr, 0) \in 0..1 /\ d.imm_u16 \in Int
    BY OperandTypes, FieldTypes, BitTypes
  <2>2. QED
    BY <2>1, SMT DEF LongAddr
<1>4. Fine(c, instr_jmp(c, d)) /\ Fine(c, instr_call(c, d))
  BY <1>1, <1>2, <1>3, JumpsFine, Zenon DEF instr_jmp, instr_call
<1>5. Stops(c, instr_eicalljump(c, d), IsSet(d.instr, 4) /\ ~c.k.pc22)
  <2> DEFINE ext  == IsSet(d.instr, 4)
             addr == memword(c.mem, REGP_Z) + IF ext THEN 65536 * Reg(c, EIND) ELSE 0
             s    == IF IsSet(d.instr, 8) THEN CallPc(c, 1) ELSE c
  <2>1. memword(c.mem, REGP_Z) \in Nat /\ Reg(c, EIND) \in Nat
    <3>1. memword(c.mem, REGP_Z) \in Word16 /\ Reg(c, EIND) \in Byte
      BY RegType
    <3>2. QED
      BY <3>1, ByteIs, SMT DEF Word16
  <2>2. addr \in Int
    BY <2>1, SMT
  <2>3. instr_eicalljump(c, d) = IF ext /\ ~c.k.pc22 THEN Trap(c) ELSE Jump(s, addr)
    BY SMT DEF instr_eicalljump
  <2>4. Idle(s) /\ Same(c, s)
    BY <1>1, <1>2, Zenon
  <2> HIDE DEF s, addr
  <2>5. Fine(c, Jump(s, addr))
    BY <2>2, <2>4, JumpsFine
  <2>6. QED
    BY <2>3, <2>5, Zenon DEF Stops
<1>6. Fine(c, instr_rcalljmp(c, d))
  <2> DEFINE k == Signed(Field(d.instr, 11, 0), 12)
             s == IF IsSet(d.instr, 12) THEN CallPc(c, 1) ELSE c
  <2>1. k \in Int
    BY OperandTypes, FieldTypes, SignedTypes
  <2>2. instr_rcalljmp(c, d) = [s EXCEPT !.pc = s.pc + k]
    BY DEF instr_rcalljmp
  <2>3. Idle(s) /\ Same(c, s) /\ s.pc \in Int
    BY <1>1, <1>2, Zenon
  <2> HIDE DEF k, s
  <2>4. s.pc + k \in Int
    BY <2>1, <2>3
  <2>5. QED
    BY <2>2, <2>3, <2>4, JumpsFine
<1>7. Fine(c, instr_brb(c, d))
  <2> DEFINE k == Signed(Field(d.instr, 9, 3), 7)
             t == IsSet(Reg(c, SREG), d.rrrrr - 16) # IsSet(d.instr, 10)
  <2>1. k \in Int
    <3>1. Field(d.instr, 9, 3) \in 0..127
      BY OperandTypes, FieldTypes
    <3>2. Field(d.instr, 9, 3) \in Int
      BY <3>1
    <3>3. QED
      BY <3>2, SignedTypes
  <2>2. instr_brb(c, d) = IF t THEN [c EXCEPT !.pc = c.pc + k] ELSE c
    BY DEF instr_brb
  <2> HIDE DEF k, t
  <2>3. c.pc + k \in Int
    BY <1>1, <2>1
  <2>4. Fine(c, [c EXCEPT !.pc = c.pc + k])
    BY <1>1, <2>3, JumpsFine
  <2>5. QED
    BY <1>1, <2>2, <2>4
<1>8. QED
  BY <1>4, <1>5, <1>6, <1>7

\* RET and RETI.
LEMMA RetFine ==
  ASSUME NEW c, Idle(c), NEW d
  PROVE  Fine(c, instr_ret(c, d)) /\ Fine(c, instr_reti(c, d))
<1> DEFINE m1   == popped(c.mem)
           m2   == popped(m1)
           two  == 256 * popbyte(c.mem) + popbyte(m1)
           wide == (256 * two + popbyte(m2)) % 4194304
           addr == IF c.k.pc22 THEN wide ELSE two
           m    == IF c.k.pc22 THEN popped(m2) ELSE m2
           s    == [c EXCEPT !.mem = m]
<1>1. instr_ret(c, d) = Jump(s, addr)
  BY SMT DEF instr_ret
<1>2. IsMemory(c.mem)
  BY RegType
<1>3. IsMemory(m1) /\ IsMemory(m2) /\ IsMemory(popped(m2))
  BY <1>2, StackType
<1>4. popbyte(c.mem) \in Byte /\ popbyte(m1) \in Byte /\ popbyte(m2) \in Byte
  BY <1>2, <1>3, StackType
<1> HIDE DEF m1, m2
<1>5. two \in Int
  BY <1>4, ByteIs, SMT
<1>6. wide \in Int
  BY <1>4, <1>5, ByteIs, SMT
<1>7. addr \in Int
  BY <1>5, <1>6
<1>8. Idle(s) /\ Same(c, s)
  BY <1>2, <1>3, MemFine
<1> HIDE DEF addr, s
<1>9. /\ Fine(c, instr_ret(c, d)) /\ Idle(instr_ret(c, d)) /\ Same(c, instr_ret(c, d))
  BY <1>1, <1>7, <1>8, JumpsFine, JumpFine, SameTrans
<1> DEFINE r == instr_ret(c, d)
<1> HIDE DEF r
<1>10. instr_reti(c, d) = Put(r, SREG, SetBit(Reg(r, SREG), SregBit.I, TRUE))
  BY DEF instr_reti, r
<1>11. SetBit(Reg(r, SREG), SregBit.I, TRUE) \in Byte
  BY FromBitsType, Zenon DEF SetBit
<1>12. Idle(r) /\ Same(c, r) /\ SREG \in Addr
  BY <1>9, Addresses DEF r
<1>13. Idle(instr_reti(c, d)) /\ Same(r, instr_reti(c, d))
  BY <1>10, <1>11, <1>12, PutFine
<1>14. QED
  BY <1>9, <1>12, <1>13, SameTrans, IdleFine

-----------------------------------------------------------------------------
(* Decoding.                                                               *)

\* The row a word is decoded by is a row of the table.
LEMMA RowExists ==
  ASSUME NEW w, IsInstr(w)
  PROVE  \E i \in 1..68 : Row(w) = avr_instr[i]
<1>1. DOMAIN avr_instr = 1..68
  BY DEF avr_instr
<1>2. Rows(w) \subseteq 1..68 /\ Rows(w) # {}
  BY <1>1, Zenon DEF Rows, IsInstr
<1>3. Rows(w) \subseteq Nat
  BY <1>2
<1>4. \E i \in Rows(w) : \A j \in Rows(w) : i <= j
  BY <1>2, <1>3, LeastNatural
<1>5. (CHOOSE i \in Rows(w) : \A j \in Rows(w) : i <= j) \in Rows(w)
  BY <1>4, Zenon
<1>6. QED
  BY <1>2, <1>5, Zenon DEF Row

\* The operands it takes out of the word.
LEMMA OperandsType ==
  ASSUME NEW w \in Word16, NEW row, NEW imm \in Word16
  PROVE  /\ IsOperands(Operands(w, row, imm)) /\ Operands(w, row, imm).instr = w
         /\ "dddd74" \in row.fields /\ "ddddd84" \notin row.fields
              => Operands(w, row, imm).ddddd >= 16
<1> DEFINE d == Operands(w, row, imm)
<1>1. w \in Nat
  BY SMT DEF Word16
<1>2. /\ Field(w, 8, 4) \in 0..31 /\ Field(w, 7, 4) \in 0..15 /\ Field(w, 6, 4) \in 0..7
      /\ Field(w, 3, 0) \in 0..15 /\ Field(w, 2, 0) \in 0..7 /\ Field(w, 11, 8) \in 0..15
      /\ Bit(w, 9) \in 0..1
  BY <1>1, FieldTypes, BitTypes
<1>3. /\ Field(w, 8, 4) \in Registers
      /\ UpperReg(Field(w, 7, 4)) \in Registers /\ UpperReg(Field(w, 7, 4)) >= 16
      /\ UpperReg(Field(w, 6, 4)) \in Registers
      /\ 16 * Bit(w, 9) + Field(w, 3, 0) \in Registers
      /\ UpperReg(Field(w, 3, 0)) \in Registers /\ UpperReg(Field(w, 2, 0)) \in Registers
      /\ 0 \in Registers
  BY <1>2, SMT DEF UpperReg, Registers
<1>4. 16 * Field(w, 11, 8) + Field(w, 3, 0) \in Byte /\ 0 \in Byte /\ 0 \in Word16
  BY <1>2, ByteIs, SMT DEF Word16
<1>5. d.instr = w
  BY DEF Operands
<1>6. d.ddddd = CASE "ddddd84" \in row.fields -> Field(w, 8, 4)
                  [] "dddd74" \in row.fields -> UpperReg(Field(w, 7, 4))
                  [] "ddd64" \in row.fields -> UpperReg(Field(w, 6, 4))
                  [] OTHER -> 0
  BY Zenon DEF Operands
<1>7. d.rrrrr = CASE "rrrrr9_30" \in row.fields -> 16 * Bit(w, 9) + Field(w, 3, 0)
                  [] "rrrr30" \in row.fields -> UpperReg(Field(w, 3, 0))
                  [] "rrr20" \in row.fields -> UpperReg(Field(w, 2, 0))
                  [] OTHER -> 0
  BY Zenon DEF Operands
<1>8. /\ d.imm_u8 = IF "KKKK118_30" \in row.fields
                      THEN 16 * Field(w, 11, 8) + Field(w, 3, 0) ELSE 0
      /\ d.imm_u16 = IF "imm16" \in row.fields THEN imm ELSE 0
  BY Zenon DEF Operands
<1> HIDE DEF d
<1>9. d.ddddd \in Registers
  BY <1>3, <1>6, Zenon
<1>10. d.rrrrr \in Registers
  BY <1>3, <1>7, Zenon
<1>11. d.imm_u8 \in Byte /\ d.imm_u16 \in Word16
  BY <1>4, <1>8, Zenon
<1>12. ASSUME "dddd74" \in row.fields, "ddddd84" \notin row.fields
       PROVE  d.ddddd >= 16
  <2>1. d.ddddd = UpperReg(Field(w, 7, 4)) \/ d.ddddd = UpperReg(Field(w, 6, 4))
    BY <1>6, <1>12, Zenon
  <2>2. UpperReg(Field(w, 6, 4)) >= 16
    BY <1>2, SMT DEF UpperReg
  <2>3. QED
    BY <1>3, <2>1, <2>2
<1>13. QED
  BY <1>5, <1>9, <1>10, <1>11, <1>12 DEF IsOperands, d

-----------------------------------------------------------------------------
(* Dispatch.                                                               *)

\* The handlers that the table names.
Codes ==
  {"nop", "movw", "muls", "mulsu", "fmul", "fmulsu", "cpc", "adc", "cpse", "and",
   "xor", "or", "mov", "cpi", "ori", "andi", "ldyz", "styz", "lds", "elpmz", "ldx",
   "pop", "sts", "xch", "stx", "push", "com", "neg", "swap", "inc", "asr", "lsr",
   "ror", "bclrset", "dec", "des", "jmp", "call", "ret", "eicalljump", "reti",
   "unimp", "elpm", "adiw", "sbiw", "cbisbi", "sbics", "mul", "in", "out",
   "rcalljmp", "ldi", "brb", "bld", "bst", "sbrcs"}

\* Every row names one of them; MOVW is decoded with the upper registers.
LEMMA TableCodes ==
  /\ \A i \in 1..68 : avr_instr[i].code \in Codes
  /\ \A i \in 1..68 : avr_instr[i].code = "movw" =>
        "dddd74" \in avr_instr[i].fields /\ "ddddd84" \notin avr_instr[i].fields
<1>1. \A i \in 1..68 : avr_instr[i].code \in Codes
  BY SMT DEF avr_instr, E, Codes
<1>2. \A i \in 1..68 : avr_instr[i].code = "movw" => avr_instr[i].fields = {"dddd74", "rrrr30"}
  BY SMT DEF avr_instr, E
<1>3. "dddd74" \in {"dddd74", "rrrr30"} /\ "ddddd84" \notin {"dddd74", "rrrr30"}
  OBVIOUS
<1>4. QED
  BY <1>1, <1>2, <1>3, Zenon

\* Each code selects its handler.
LEMMA Dispatch == ASSUME NEW c, NEW d PROVE
  /\ Execute("nop", c, d) = instr_nop(c, d) /\ Execute("movw", c, d) = instr_movw(c, d)
  /\ Execute("muls", c, d) = instr_muls(c, d) /\ Execute("mulsu", c, d) = instr_mulsu(c, d)
  /\ Execute("fmul", c, d) = instr_fmul(c, d) /\ Execute("fmulsu", c, d) = instr_fmulsu(c, d)
  /\ Execute("cpc", c, d) = instr_cpc(c, d) /\ Execute("adc", c, d) = instr_adc(c, d)
  /\ Execute("cpse", c, d) = instr_cpse(c, d) /\ Execute("and", c, d) = instr_and(c, d)
  /\ Execute("xor", c, d) = instr_xor(c, d) /\ Execute("or", c, d) = instr_or(c, d)
  /\ Execute("mov", c, d) = instr_mov(c, d) /\ Execute("cpi", c, d) = instr_cpi(c, d)
  /\ Execute("ori", c, d) = instr_ori(c, d) /\ Execute("andi", c, d) = instr_andi(c, d)
  /\ Execute("ldyz", c, d) = instr_ldyz(c, d) /\ Execute("styz", c, d) = instr_styz(c, d)
  /\ Execute("lds", c, d) = instr_lds(c, d) /\ Execute("elpmz", c, d) = instr_elpmz(c, d)
  /\ Execute("ldx", c, d) = instr_ldx(c, d) /\ Execute("pop", c, d) = instr_pop(c, d)
  /\ Execute("sts", c, d) = instr_sts(c, d) /\ Execute("xch", c, d) = instr_xch(c, d)
  /\ Execute("stx", c, d) = instr_stx(c, d) /\ Execute("push", c, d) = instr_push(c, d)
  /\ Execute("com", c, d) = instr_com(c, d) /\ Execute("neg", c, d) = instr_neg(c, d)
  /\ Execute("swap", c, d) = instr_swap(c, d) /\ Execute("inc", c, d) = instr_inc(c, d)
  /\ Execute("asr", c, d) = instr_asr(c, d) /\ Execute("lsr", c, d) = instr_lsr(c, d)
  /\ Execute("ror", c, d) = instr_ror(c, d) /\ Execute("bclrset", c, d) = instr_bclrset(c, d)
  /\ Execute("dec", c, d) = instr_dec(c, d) /\ Execute("des", c, d) = instr_des(c, d)
  /\ Execute("jmp", c, d) = instr_jmp(c, d) /\ Execute("call", c, d) = instr_call(c, d)
  /\ Execute("ret", c, d) = instr_ret(c, d) /\ Execute("eicalljump", c, d) = instr_eicalljump(c, d)
  /\ Execute("reti", c, d) = instr_reti(c, d) /\ Execute("unimp", c, d) = instr_unimp(c, d)
  /\ Execute("elpm", c, d) = instr_elpm(c, d) /\ Execute("adiw", c, d) = instr_adiw(c, d)
  /\ Execute("sbiw", c, d) = instr_sbiw(c, d) /\ Execute("cbisbi", c, d) = instr_cbisbi(c, d)
  /\ Execute("sbics", c, d) = instr_sbics(c, d) /\ Execute("mul", c, d) = instr_mul(c, d)
  /\ Execute("in", c, d) = instr_in(c, d) /\ Execute("out", c, d) = instr_out(c, d)
  /\ Execute("rcalljmp", c, d) = instr_rcalljmp(c, d) /\ Execute("ldi", c, d) = instr_ldi(c, d)
  /\ Execute("brb", c, d) = instr_brb(c, d) /\ Execute("bld", c, d) = instr_bld(c, d)
  /\ Execute("bst", c, d) = instr_bst(c, d) /\ Execute("sbrcs", c, d) = instr_sbrcs(c, d)
BY ZenonT(60) DEF Execute

\* The machine emulate1() hands to the handler of the instruction at p.
Fetched(p, m) ==
  [pc |-> p, pc_start |-> p, instr_size |-> SizeOf(Row(romword(Flash, p))), mem |-> m,
   flash |-> Flash, k |-> knobs, skip |-> FALSE, set |-> {}, clr |-> {}, trap |-> FALSE]

\* It is sound when the machine at p was.
LEMMA FetchedIdle ==
  ASSUME NEW p \in Int, NEW m, IsMemory(m)
  PROVE  Idle(Fetched(p, m))
<1>1. IsFlash(Flash)
  BY FlashAssumption, SMT DEF IsFlash, Word16
<1>2. SizeOf(Row(romword(Flash, p))) \in Int
  BY DEF SizeOf
<1>3. QED
  BY <1>1, <1>2 DEF Idle, IsMachine, Fetched

\* Whatever the instruction, its handler leaves a sound machine, or it is one that
\* is not defined.
LEMMA ExecuteStops ==
  ASSUME DesTyped, NEW p \in Int, NEW m, IsMemory(m), Fetches(Flash, p)
  PROVE  LET w == romword(Flash, p)
             d == Operands(w, Row(w), romword(Flash, p + 1))
         IN  Stops(Fetched(p, m), Execute(Row(w).code, Fetched(p, m), d), NotDefined(p))
<1> DEFINE w   == romword(Flash, p)
           row == Row(w)
           d   == Operands(w, row, romword(Flash, p + 1))
           c   == Fetched(p, m)
           r   == Execute(row.code, c, d)
           reg    == d.ddddd
           moving == Field(w, 1, 0) \in {1, 2}
           cause ==
             \/ row.code = "unimp"
             \/ row.code \in {"ldx", "stx"} /\ moving /\ reg \in {26, 27}
             \/ row.code \in {"ldyz", "styz"} /\ IsSet(w, 12) /\ moving
                  /\ reg \in IF IsSet(w, 3) THEN {28, 29} ELSE {30, 31}
             \/ row.code = "elpmz" /\ IsSet(w, 0) /\ reg \in {30, 31}
             \/ row.code = "eicalljump" /\ IsSet(w, 4) /\ ~knobs.pc22
<1> SUFFICES Stops(c, r, NotDefined(p))
  BY Zenon
<1>1. NotDefined(p) <=> cause
  BY Zenon DEF NotDefined
<1>2. Idle(c) /\ c.k = knobs
  BY FetchedIdle DEF Fetched
<1>3. IsFlash(Flash)
  BY FlashAssumption, SMT DEF IsFlash, Word16
<1>4. w \in Word16 /\ romword(Flash, p + 1) \in Word16
  BY <1>3, RomType
<1>5. IsInstr(w)
  BY DEF Fetches
<1>6. PICK i \in 1..68 : row = avr_instr[i]
  BY <1>5, RowExists
<1>7. /\ row.code \in Codes
      /\ row.code = "movw" => "dddd74" \in row.fields /\ "ddddd84" \notin row.fields
  BY <1>6, TableCodes
<1> HIDE DEF w, row
<1>8. IsOperands(d) /\ d.instr = w /\ (row.code = "movw" => d.ddddd >= 16)
  BY <1>4, <1>7, OperandsType
<1> HIDE DEF d, c
<1>9. CASE row.code \in {"adc", "cpc", "cpi", "adiw", "sbiw", "and", "andi", "or", "ori", "xor"}
  <2>1. /\ Fine(c, instr_adc(c, d)) /\ Fine(c, instr_cpc(c, d)) /\ Fine(c, instr_cpi(c, d))
        /\ Fine(c, instr_adiw(c, d)) /\ Fine(c, instr_sbiw(c, d)) /\ Fine(c, instr_and(c, d))
        /\ Fine(c, instr_andi(c, d)) /\ Fine(c, instr_or(c, d)) /\ Fine(c, instr_ori(c, d))
        /\ Fine(c, instr_xor(c, d))
    BY <1>2, <1>8, AdcFine, SubFine, WordFine, LogicFine
  <2>2. /\ Fine(c, Execute("adc", c, d)) /\ Fine(c, Execute("cpc", c, d)) /\ Fine(c, Execute("cpi", c, d))
        /\ Fine(c, Execute("adiw", c, d)) /\ Fine(c, Execute("sbiw", c, d)) /\ Fine(c, Execute("and", c, d))
        /\ Fine(c, Execute("andi", c, d)) /\ Fine(c, Execute("or", c, d)) /\ Fine(c, Execute("ori", c, d))
        /\ Fine(c, Execute("xor", c, d))
    BY <2>1, Dispatch, SMT
  <2>3. Fine(c, r)
    BY <1>9, <2>2, Zenon
  <2>4. QED
    BY <2>3 DEF Stops
<1>10. CASE row.code \in {"com", "neg", "swap", "asr", "lsr", "ror", "inc", "dec"}
  <2>1. /\ Fine(c, instr_com(c, d)) /\ Fine(c, instr_neg(c, d)) /\ Fine(c, instr_swap(c, d))
        /\ Fine(c, instr_asr(c, d)) /\ Fine(c, instr_lsr(c, d)) /\ Fine(c, instr_ror(c, d))
        /\ Fine(c, instr_inc(c, d)) /\ Fine(c, instr_dec(c, d))
    BY <1>2, <1>8, UnaryFine, IncDecFine
  <2>2. /\ Fine(c, Execute("com", c, d)) /\ Fine(c, Execute("neg", c, d)) /\ Fine(c, Execute("swap", c, d))
        /\ Fine(c, Execute("asr", c, d)) /\ Fine(c, Execute("lsr", c, d)) /\ Fine(c, Execute("ror", c, d))
        /\ Fine(c, Execute("inc", c, d)) /\ Fine(c, Execute("dec", c, d))
    BY <2>1, Dispatch, SMT
  <2>3. Fine(c, r)
    BY <1>10, <2>2, Zenon
  <2>4. QED
    BY <2>3 DEF Stops
<1>11. CASE row.code \in {"mul", "muls", "mulsu", "fmul", "fmulsu", "des"}
  <2>1. /\ Fine(c, instr_mul(c, d)) /\ Fine(c, instr_muls(c, d)) /\ Fine(c, instr_mulsu(c, d))
        /\ Fine(c, instr_fmul(c, d)) /\ Fine(c, instr_fmulsu(c, d)) /\ Fine(c, instr_des(c, d))
    BY <1>2, <1>8, ProductFine, DesFine
  <2>2. /\ Fine(c, Execute("mul", c, d)) /\ Fine(c, Execute("muls", c, d)) /\ Fine(c, Execute("mulsu", c, d))
        /\ Fine(c, Execute("fmul", c, d)) /\ Fine(c, Execute("fmulsu", c, d)) /\ Fine(c, Execute("des", c, d))
    BY <2>1, Dispatch, SMT
  <2>3. Fine(c, r)
    BY <1>11, <2>2, Zenon
  <2>4. QED
    BY <2>3 DEF Stops
<1>12. CASE row.code \in {"bclrset", "bld", "bst", "cbisbi", "cpse", "sbics", "sbrcs"}
  <2>1. /\ Fine(c, instr_bclrset(c, d)) /\ Fine(c, instr_bld(c, d)) /\ Fine(c, instr_bst(c, d))
        /\ Fine(c, instr_cbisbi(c, d)) /\ Fine(c, instr_cpse(c, d)) /\ Fine(c, instr_sbics(c, d))
        /\ Fine(c, instr_sbrcs(c, d))
    BY <1>2, <1>8, BitFine
  <2>2. /\ Fine(c, Execute("bclrset", c, d)) /\ Fine(c, Execute("bld", c, d)) /\ Fine(c, Execute("bst", c, d))
        /\ Fine(c, Execute("cbisbi", c, d)) /\ Fine(c, Execute("cpse", c, d)) /\ Fine(c, Execute("sbics", c, d))
        /\ Fine(c, Execute("sbrcs", c, d))
    BY <2>1, Dispatch, SMT
  <2>3. Fine(c, r)
    BY <1>12, <2>2, Zenon
  <2>4. QED
    BY <2>3 DEF Stops
<1>13. CASE row.code \in {"nop", "mov", "ldi", "in", "out", "movw", "lds", "sts", "xch"}
  <2>1. /\ Fine(c, instr_nop(c, d)) /\ Fine(c, instr_mov(c, d)) /\ Fine(c, instr_ldi(c, d))
        /\ Fine(c, instr_in(c, d)) /\ Fine(c, instr_out(c, d)) /\ (row.code = "movw" => Fine(c, instr_movw(c, d)))
        /\ Fine(c, instr_lds(c, d)) /\ Fine(c, instr_sts(c, d)) /\ Fine(c, instr_xch(c, d))
    BY <1>2, <1>8, MoveFine, DirectFine
  <2>2. /\ Fine(c, Execute("nop", c, d)) /\ Fine(c, Execute("mov", c, d)) /\ Fine(c, Execute("ldi", c, d))
        /\ Fine(c, Execute("in", c, d)) /\ Fine(c, Execute("out", c, d)) /\ (row.code = "movw" => Fine(c, Execute("movw", c, d)))
        /\ Fine(c, Execute("lds", c, d)) /\ Fine(c, Execute("sts", c, d)) /\ Fine(c, Execute("xch", c, d))
    BY <2>1, Dispatch, SMT
  <2>3. Fine(c, r)
    BY <1>13, <2>2, Zenon
  <2>4. QED
    BY <2>3 DEF Stops
<1>14. CASE row.code \in {"elpm", "push", "pop", "jmp", "call", "rcalljmp", "brb", "ret", "reti"}
  <2>1. /\ Fine(c, instr_elpm(c, d)) /\ Fine(c, instr_push(c, d)) /\ Fine(c, instr_pop(c, d))
        /\ Fine(c, instr_jmp(c, d)) /\ Fine(c, instr_call(c, d)) /\ Fine(c, instr_rcalljmp(c, d))
        /\ Fine(c, instr_brb(c, d)) /\ Fine(c, instr_ret(c, d)) /\ Fine(c, instr_reti(c, d))
    BY <1>2, <1>8, ElpmFine, StackFine, FlowFine, RetFine
  <2>2. /\ Fine(c, Execute("elpm", c, d)) /\ Fine(c, Execute("push", c, d)) /\ Fine(c, Execute("pop", c, d))
        /\ Fine(c, Execute("jmp", c, d)) /\ Fine(c, Execute("call", c, d)) /\ Fine(c, Execute("rcalljmp", c, d))
        /\ Fine(c, Execute("brb", c, d)) /\ Fine(c, Execute("ret", c, d)) /\ Fine(c, Execute("reti", c, d))
    BY <2>1, Dispatch, SMT
  <2>3. Fine(c, r)
    BY <1>14, <2>2, Zenon
  <2>4. QED
    BY <2>3 DEF Stops
<1>15. CASE row.code \in {"ldx", "stx", "ldyz", "styz"}
  <2> DEFINE x == moving /\ reg \in {26, 27}
             y == IsSet(w, 12) /\ moving /\ reg \in IF IsSet(w, 3) THEN {28, 29} ELSE {30, 31}
  <2>1. /\ Stops(c, instr_ldx(c, d), x) /\ Stops(c, instr_stx(c, d), x)
        /\ Stops(c, instr_ldyz(c, d), y) /\ Stops(c, instr_styz(c, d), y)
    BY <1>2, <1>8, IndirectFine, Zenon
  <2>2. /\ row.code = "ldx" => r = instr_ldx(c, d)
        /\ row.code = "stx" => r = instr_stx(c, d)
        /\ row.code = "ldyz" => r = instr_ldyz(c, d)
        /\ row.code = "styz" => r = instr_styz(c, d)
    BY Dispatch, SMT
  <2>3. (row.code \in {"ldx", "stx"} /\ x => cause) /\ (row.code \in {"ldyz", "styz"} /\ y => cause)
    BY Zenon
  <2> HIDE DEF x, y, cause, r
  <2>4. QED
    BY <1>1, <1>15, <2>1, <2>2, <2>3, Zenon DEF Stops
<1>16. CASE row.code = "elpmz"
  <2> DEFINE x == IsSet(w, 0) /\ reg \in {30, 31}
  <2>1. Stops(c, instr_elpmz(c, d), x)
    BY <1>2, <1>8, ElpmFine, Zenon
  <2>2. r = instr_elpmz(c, d)
    BY <1>16, Dispatch, SMT
  <2>3. x => cause
    BY <1>16, Zenon
  <2> HIDE DEF x, cause, r
  <2>4. QED
    BY <1>1, <2>1, <2>2, <2>3, Zenon DEF Stops
<1>17. CASE row.code = "eicalljump"
  <2> DEFINE x == IsSet(w, 4) /\ ~knobs.pc22
  <2>1. Stops(c, instr_eicalljump(c, d), x)
    BY <1>2, <1>8, FlowFine, Zenon
  <2>2. r = instr_eicalljump(c, d)
    BY <1>17, Dispatch, SMT
  <2>3. x => cause
    BY <1>17, Zenon
  <2> HIDE DEF x, cause, r
  <2>4. QED
    BY <1>1, <2>1, <2>2, <2>3, Zenon DEF Stops
<1>18. CASE row.code = "unimp"
  <2>1. r = Trap(c)
    BY <1>18, Dispatch, SMT DEF instr_unimp
  <2>2. QED
    BY <1>1, <1>18, <2>1, Zenon DEF Stops
<1>19. QED
  BY <1>7, <1>9, <1>10, <1>11, <1>12, <1>13, <1>14, <1>15, <1>16, <1>17, <1>18, Zenon DEF Codes

-----------------------------------------------------------------------------
(* Retiring the instruction.                                               *)

\* emulate1() after a handler that did its work.
LEMMA RetireFine ==
  ASSUME NEW r, IsMachine(r), ~r.trap, r.set \cap r.clr = {}, r.flash = Flash
  PROVE  LET s == Retire(r)
         IN  s.pc \in Int /\ IsMemory(s.mem) /\ s.trap \in BOOLEAN /\ s.done \in BOOLEAN
               /\ (s.trap => ~Fetches(Flash, s.pc))
<1> DEFINE next == r.pc + r.instr_size
           mem  == Store(r.mem, SREG, ApplyFlags(Reg(r, SREG), r.set, r.clr))
           s    == Retire(r)
<1>1. next \in Int /\ IsMemory(r.mem)
  BY DEF IsMachine
<1>2. ApplyFlags(Reg(r, SREG), r.set, r.clr) \in Byte
  BY FromBitsType, Zenon DEF ApplyFlags
<1>3. IsMemory(mem)
  BY <1>1, <1>2, Addresses, StoreType
<1>4. SkipTo(r, next) \in Int
  <2>1. InstrSize(r.flash, next) \in Int
    BY DEF InstrSize, SizeOf
  <2>2. QED
    BY <1>1, <2>1 DEF SkipTo
<1>5. s = IF BadSkip(r, next) THEN Trapped(next, mem, TRUE)
          ELSE [trap |-> FALSE, done |-> TRUE, mem |-> mem,
                pc |-> IF r.skip THEN SkipTo(r, next) ELSE next]
  BY Zenon DEF Retire
<1> HIDE DEF next, mem
<1>6. CASE BadSkip(r, next)
  <2>1. s.pc = next /\ s.mem = mem /\ s.trap = TRUE /\ s.done = TRUE
    BY <1>5, <1>6 DEF Trapped
  <2>2. ~Fetches(Flash, next)
    BY <1>6 DEF BadSkip
  <2>3. QED
    BY <1>1, <1>3, <2>1, <2>2
<1>7. CASE ~BadSkip(r, next)
  <2>1. s.pc = (IF r.skip THEN SkipTo(r, next) ELSE next) /\ s.mem = mem /\ s.trap = FALSE
        /\ s.done = TRUE
    BY <1>5, <1>7
  <2>2. QED
    BY <1>1, <1>3, <1>4, <2>1
<1>8. QED
  BY <1>6, <1>7

\* emulate1(), from any machine.
LEMMA EmulateFine ==
  ASSUME DesTyped, NEW p \in Int, NEW m, IsMemory(m)
  PROVE  LET s == emulate1(knobs, Flash, p, m)
         IN  /\ s.pc \in Int /\ IsMemory(s.mem) /\ s.trap \in BOOLEAN /\ s.done \in BOOLEAN
             /\ s.trap => ~Fetches(Flash, s.pc) \/ NotDefined(s.pc)
<1> DEFINE w == romword(Flash, p)
           c == Fetched(p, m)
           r == Execute(Row(w).code, c, Operands(w, Row(w), romword(Flash, p + 1)))
           s == emulate1(knobs, Flash, p, m)
<1>1. s = IF Fetches(Flash, p) THEN Retire(r) ELSE Trapped(p, m, FALSE)
  BY Zenon DEF emulate1, Fetched
<1>2. CASE ~Fetches(Flash, p)
  <2>1. s.pc = p /\ s.mem = m /\ s.trap = TRUE /\ s.done = FALSE
    BY <1>1, <1>2 DEF Trapped
  <2>2. QED
    BY <1>2, <2>1
<1>3. CASE Fetches(Flash, p)
  <2>1. Stops(c, r, NotDefined(p))
    BY <1>3, ExecuteStops, Zenon
  <2>2. s = Retire(r)
    BY <1>1, <1>3, Zenon
  <2>3. c.flash = Flash /\ c.pc_start = p /\ c.mem = m
    BY DEF Fetched
  <2>4. DOMAIN c = {"pc", "pc_start", "instr_size", "mem", "flash", "k", "skip", "set",
                    "clr", "trap"}
    BY DEF Fetched
  <2> HIDE DEF c, r, s
  <2>5. CASE Fine(c, r)
    <3>1. IsMachine(r) /\ ~r.trap /\ r.set \cap r.clr = {} /\ r.flash = Flash
      BY <2>3, <2>5 DEF Fine, Same
    <3>2. /\ Retire(r).pc \in Int /\ IsMemory(Retire(r).mem) /\ Retire(r).trap \in BOOLEAN
          /\ Retire(r).done \in BOOLEAN
          /\ Retire(r).trap => ~Fetches(Flash, Retire(r).pc)
      BY <3>1, RetireFine, Zenon
    <3>3. QED
      BY <2>2, <3>2, Zenon DEF s
  <2>6. CASE NotDefined(p) /\ r = Trap(c)
    <3>1. r.trap /\ r.pc_start = p /\ r.mem = m
      BY <2>3, <2>4, <2>6 DEF Trap
    <3>2. Retire(r) = Trapped(p, m, FALSE)
      BY <3>1, Zenon DEF Retire
    <3>3. s.pc = p /\ s.mem = m /\ s.trap = TRUE /\ s.done = FALSE
      BY <2>2, <3>2 DEF Trapped
    <3>4. QED
      BY <2>6, <3>3, Zenon DEF s
  <2>7. QED
    BY <2>1, <2>5, <2>6, Zenon DEF Stops
<1>4. QED
  BY <1>2, <1>3

-----------------------------------------------------------------------------
(* The theorems.                                                           *)

CpuInv == TypeOK /\ TrapsForCause

\* Every program, from every machine: one step of emulate1() keeps the invariant.
LEMMA StepKeeps ==
  ASSUME DesTyped, CpuInv, [Next]_vars
  PROVE  CpuInv'
<1>1. CASE UNCHANGED vars
  BY <1>1, Zenon DEF CpuInv, TypeOK, TrapsForCause, NotDefined, vars
<1>2. CASE Next
  <2> DEFINE s == emulate1(knobs, Flash, pc, memory)
  <2>1. pc' = s.pc /\ memory' = s.mem /\ trapped' = s.trap /\ knobs' = knobs
    BY <1>2, Zenon DEF Next
  <2>2. pc \in Int /\ IsMemory(memory) /\ knobs \in Knobs
    BY DEF CpuInv, TypeOK
  <2>3. /\ s.pc \in Int /\ IsMemory(s.mem) /\ s.trap \in BOOLEAN
        /\ s.trap => ~Fetches(Flash, s.pc) \/ NotDefined(s.pc)
    BY <2>2, EmulateFine, Zenon
  <2> HIDE DEF s
  <2>4. TypeOK'
    BY <2>1, <2>2, <2>3, Zenon DEF TypeOK
  <2>5. TrapsForCause'
    BY <2>1, <2>3, Zenon DEF TrapsForCause, NotDefined
  <2>6. QED
    BY <2>4, <2>5 DEF CpuInv
<1>3. QED
  BY <1>1, <1>2

\* A machine to start from satisfies it.
LEMMA StartsWell == Init => CpuInv
<1> SUFFICES ASSUME Init PROVE CpuInv
  OBVIOUS
<1>1. began \in Start /\ pc = began.pc /\ memory = began.mem /\ knobs = began.k
      /\ trapped = FALSE
  BY DEF Init
<1>2. TypeOK
  BY <1>1, StartAssumption, Zenon DEF TypeOK
<1>3. TrapsForCause
  BY <1>1, Zenon DEF TrapsForCause
<1>4. QED
  BY <1>2, <1>3 DEF CpuInv

\* For every image, every machine it starts from and every setting of the knobs,
\* no store of any handler leaves memory[] and all that is stored are bytes.
THEOREM CpuTypes == ASSUME DesTyped PROVE Spec => []TypeOK
<1>1. Init => CpuInv
  BY StartsWell
<1>2. CpuInv /\ [Next]_vars => CpuInv'
  BY StepKeeps
<1>3. CpuInv => TypeOK
  BY DEF CpuInv
<1>4. QED
  BY <1>1, <1>2, <1>3, PTL DEF Spec

\* The process ends only where there is no instruction to fetch or to skip, or
\* one that is not defined; the assertion of emulate1() that no flag is both set
\* and cleared holds after every handler.
THEOREM TrapsHaveCause == ASSUME DesTyped PROVE Spec => []TrapsForCause
<1>1. Init => CpuInv
  BY StartsWell
<1>2. CpuInv /\ [Next]_vars => CpuInv'
  BY StepKeeps
<1>3. CpuInv => TrapsForCause
  BY DEF CpuInv
<1>4. QED
  BY <1>1, <1>2, <1>3, PTL DEF Spec

-----------------------------------------------------------------------------
(* The processor as the parameter of Emulator.                             *)

\* A pc of 32 bits, and the array that a memory stands for.
Pc32 == {p \in Nat : p < 4294967296}
Array(m) == [a \in Addr |-> membyte(m, a)]

AvrExec(p, m) ==
  LET s == emulate1(knobs, Flash, p, m)
  IN  [trap |-> s.trap, done |-> s.done, pc |-> s.pc % 4294967296, mem |-> Array(s.mem)]

\* What Emulator assumes of its processor (ExecAssumption, with Pcs the numbers of 32 bits,
\* Cells the addresses of memory[] and Bytes the bytes) is true of emulate1(), for every
\* image and setting of the knobs: what is proved of every processor holds of AVR programs.
THEOREM ExecTyped ==
  ASSUME DesTyped
  PROVE  \A p \in Pc32, m \in [Addr -> Byte] :
           AvrExec(p, m) \in [trap : BOOLEAN, done : BOOLEAN, pc : Pc32, mem : [Addr -> Byte]]
<1> TAKE p \in Pc32, m \in [Addr -> Byte]
<1> DEFINE s == emulate1(knobs, Flash, p, m)
<1>1. p \in Int
  BY SMT DEF Pc32
<1>2. IsMemory(m)
  <2>1. DOMAIN m = Addr /\ \A a \in Addr : m[a] \in Byte
    OBVIOUS
  <2>2. QED
    BY <2>1, SMT DEF IsMemory, Addr
<1>3. s.pc \in Int /\ IsMemory(s.mem) /\ s.trap \in BOOLEAN /\ s.done \in BOOLEAN
  BY <1>1, <1>2, EmulateFine, Zenon
<1>4. AvrExec(p, m)
        = [trap |-> s.trap, done |-> s.done, pc |-> s.pc % 4294967296, mem |-> Array(s.mem)]
  BY DEF AvrExec
<1> HIDE DEF s
<1>5. s.pc % 4294967296 \in Pc32
  BY <1>3, SMT DEF Pc32
<1>6. Array(s.mem) \in [Addr -> Byte]
  BY <1>3, ReadType, Zenon DEF Array
<1>7. QED
  BY <1>3, <1>4, <1>5, <1>6
=============================================================================
