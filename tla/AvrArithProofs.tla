--------------------------- MODULE AvrArithProofs ---------------------------
(***************************************************************************)
(* What a step of emulate1() that adds, subtracts or compares leaves in    *)
(* memory and SREG, for every image and every machine.                     *)
(***************************************************************************)
EXTENDS AvrSteps, AvrCpuProofs

-----------------------------------------------------------------------------
(* From the handler to the step.                                           *)

\* A byte reads back as it was stored.
LEMMA ReadStore ==
  ASSUME NEW m, NEW a, NEW v, NEW x
  PROVE  membyte(Store(m, a, v), x) = IF x = a THEN v ELSE membyte(m, x)
BY DEF membyte, Store

\* Machine r is c after a handler that left memory m and asked for the flags p, no more.
Leaves(c, r, m, p) ==
  /\ r.mem = m /\ r.set = p.set /\ r.clr = p.clr
  /\ r.trap = FALSE /\ r.skip = FALSE
  /\ r.pc = c.pc /\ r.instr_size = c.instr_size

\* A handler that asks for flags, one that writes a byte before.
LEMMA FlagsLeave ==
  ASSUME NEW c, Idle(c), c.skip = FALSE, NEW p, NEW a, NEW v
  PROVE  /\ Leaves(c, Flags(c, p), c.mem, p)
         /\ Leaves(c, Flags(Put(c, a, v), p), Store(c.mem, a, v), p)
<1>1. Leaves(c, Flags(c, p), c.mem, p)
  BY DEF Idle, IsMachine, Leaves, Flags
<1>2. ASSUME NEW m
      PROVE  Leaves(c, Flags([c EXCEPT !.mem = m], p), m, p)
  BY DEF Idle, IsMachine, Leaves, Flags
<1>3. Put(c, a, v) = [c EXCEPT !.mem = Store(c.mem, a, v)]
  BY Zenon DEF Put
<1>4. QED
  BY <1>1, <1>2, <1>3, Zenon

\* Outcome s of emulate1(): on to the next instruction, with the flags p taken.
TakesFlags(c, s, m, p) ==
  /\ s.trap = FALSE /\ s.pc = c.pc + c.instr_size
  /\ s.mem = Store(m, SREG, ApplyFlags(membyte(m, SREG), p.set, p.clr))

\* That is the outcome after such a handler.
LEMMA RetireFlags ==
  ASSUME NEW c, NEW m, NEW p, NEW r, Clean(p), Leaves(c, r, m, p)
  PROVE  TakesFlags(c, Retire(r), m, p)
<1>1. /\ r.trap = FALSE /\ r.set = p.set /\ r.clr = p.clr /\ r.mem = m /\ r.skip = FALSE
      /\ r.pc = c.pc /\ r.instr_size = c.instr_size
  BY Zenon DEF Leaves
<1>2. r.set \cap r.clr = {}
  BY <1>1, Zenon DEF Clean
<1>3. Retire(r) = [trap |-> FALSE, done |-> TRUE,
                   mem |-> Store(r.mem, SREG, ApplyFlags(Reg(r, SREG), r.set, r.clr)),
                   pc |-> r.pc + r.instr_size]
  BY <1>1, <1>2, Zenon DEF Retire, BadSkip
<1>4. Reg(r, SREG) = membyte(m, SREG)
  BY <1>1, Zenon DEF Reg
<1>5. Retire(r) = [trap |-> FALSE, done |-> TRUE,
                   mem |-> Store(m, SREG, ApplyFlags(membyte(m, SREG), p.set, p.clr)),
                   pc |-> c.pc + c.instr_size]
  BY <1>1, <1>3, <1>4, Zenon
<1>6. QED
  BY <1>5 DEF TakesFlags

\* emulate1() is that handler, and then what Retire has.
LEMMA StepRetires ==
  ASSUME Next, Fetches(Flash, pc), NEW r, r = Execute(Code, Fetched(pc, memory), Decoded)
  PROVE  pc' = Retire(r).pc /\ memory' = Retire(r).mem /\ trapped' = Retire(r).trap
<1>1. /\ pc' = emulate1(knobs, Flash, pc, memory).pc
      /\ memory' = emulate1(knobs, Flash, pc, memory).mem
      /\ trapped' = emulate1(knobs, Flash, pc, memory).trap
  BY Zenon DEF Next
<1>2. emulate1(knobs, Flash, pc, memory) = Retire(Execute(Code, Fetched(pc, memory), Decoded))
  BY Zenon DEF emulate1, Fetched, Code, Decoded
<1>3. QED
  BY <1>1, <1>2, Zenon

\* The step of such a handler.
LEMMA FlagStep ==
  ASSUME TypeOK, Next, Fetches(Flash, pc), NEW m, NEW p, Clean(p),
         membyte(m, SREG) = membyte(memory, SREG),
         Leaves(Fetched(pc, memory), Execute(Code, Fetched(pc, memory), Decoded), m, p)
  PROVE  /\ trapped' = FALSE /\ pc' = pc + InstrSize(Flash, pc)
         /\ \A a : a # SREG => membyte(memory', a) = membyte(m, a)
         /\ \A f \in DOMAIN SregBit :
              Shows(f, SregBit[f] \in p.set \/ (SregHas(f) /\ SregBit[f] \notin p.clr))
<1> DEFINE c == Fetched(pc, memory)
           sreg == ApplyFlags(membyte(m, SREG), p.set, p.clr)
<1>1. PICK r : r = Execute(Code, c, Decoded)
  OBVIOUS
<1>2. pc' = Retire(r).pc /\ memory' = Retire(r).mem /\ trapped' = Retire(r).trap
  BY <1>1, StepRetires
<1>3. membyte(memory, SREG) \in Byte
  BY ReadType DEF TypeOK
<1>4. c.pc = pc /\ c.instr_size = InstrSize(Flash, pc)
  BY DEF Fetched, InstrSize
<1>5. Leaves(c, r, m, p)
  BY <1>1, Zenon
<1> HIDE DEF c
<1>6. /\ Retire(r).trap = FALSE /\ Retire(r).pc = c.pc + c.instr_size
      /\ Retire(r).mem = Store(m, SREG, sreg)
  <2>1. TakesFlags(c, Retire(r), m, p)
    BY <1>5, RetireFlags, Zenon
  <2>2. QED
    BY <2>1, Zenon DEF TakesFlags
<1>7. /\ trapped' = FALSE /\ pc' = pc + InstrSize(Flash, pc)
      /\ memory' = Store(m, SREG, sreg)
  BY <1>2, <1>4, <1>6, Zenon
<1>8. membyte(memory', SREG) = sreg /\ \A a : a # SREG => membyte(memory', a) = membyte(m, a)
  <2> HIDE DEF sreg
  <2>1. \A a : membyte(Store(m, SREG, sreg), a) = IF a = SREG THEN sreg ELSE membyte(m, a)
    BY ReadStore
  <2>2. QED
    BY <1>7, <2>1, Zenon
<1>9. \A n \in 0..7 : IsSet(sreg, n) <=> n \in p.set \/ (IsSet(membyte(memory, SREG), n) /\ n \notin p.clr)
  <2> DEFINE old == membyte(m, SREG)
  <2>1. old \in Byte /\ old = membyte(memory, SREG)
    BY <1>3, Zenon
  <2> HIDE DEF old
  <2>2. \A n \in 0..7 : IsSet(ApplyFlags(old, p.set, p.clr), n)
                           <=> n \in p.set \/ (IsSet(old, n) /\ n \notin p.clr)
    BY <2>1, ApplyFlagsIs
  <2>3. sreg = ApplyFlags(old, p.set, p.clr)
    BY Zenon DEF old
  <2>4. QED
    BY <2>1, <2>2, <2>3, Zenon
<1>10. \A f \in DOMAIN SregBit : SregBit[f] \in 0..7
  BY SregBitIs, SMT
<1> HIDE DEF sreg
<1>11. QED
  BY <1>7, <1>8, <1>9, <1>10, Zenon DEF Shows, SregHas

\* Flags that a chain decides are shown after the step.
LEMMA DecidedShows ==
  ASSUME NEW f \in DOMAIN SregBit, NEW p, NEW P, Decides(p, f, P),
         Shows(f, SregBit[f] \in p.set \/ (SregHas(f) /\ SregBit[f] \notin p.clr))
  PROVE  Shows(f, P)
BY Zenon DEF Decides, Shows

\* The operands of the instruction at pc.
LEMMA DecodedTypes ==
  ASSUME TypeOK
  PROVE  /\ IsOperands(Decoded) /\ Decoded.ddddd # SREG /\ Decoded.ddddd \in Addr
         /\ Rd \in Byte /\ Rr \in Byte /\ Decoded.imm_u8 \in Byte /\ Carry \in {0, 1}
<1>1. \A a : romword(Flash, a) \in Word16
  BY FlashAssumption, SMT DEF romword, Word16
<1>2. IsOperands(Decoded)
  BY <1>1, OperandsType, Zenon DEF Decoded
<1>3. Decoded.ddddd # SREG /\ Decoded.ddddd \in Addr /\ Decoded.imm_u8 \in Byte
  BY <1>2, SMT DEF IsOperands, Registers, SREG, Addr, MemorySize
<1>4. Rd \in Byte /\ Rr \in Byte
  BY ReadType, Zenon DEF TypeOK, Rd, Rr
<1>5. Carry \in {0, 1}
  BY Zenon DEF Carry
<1>6. QED
  BY <1>2, <1>3, <1>4, <1>5

\* What the handler reads of the machine it is handed.
LEMMA FetchedReads ==
  ASSUME TypeOK
  PROVE  LET c == Fetched(pc, memory)
         IN  /\ Idle(c) /\ c.skip = FALSE /\ c.mem = memory
             /\ Reg(c, Decoded.ddddd) = Rd /\ Reg(c, Decoded.rrrrr) = Rr
             /\ CarryIn(c) = Carry
<1> DEFINE c == Fetched(pc, memory)
<1>1. c.mem = memory /\ c.skip = FALSE
  BY DEF Fetched
<1>2. Idle(c)
  BY FetchedIdle DEF TypeOK
<1>3. Reg(c, Decoded.ddddd) = Rd /\ Reg(c, Decoded.rrrrr) = Rr /\ CarryIn(c) = Carry
  BY <1>1, Zenon DEF Reg, Rd, Rr, CarryIn, Flag, SregHas, Carry
<1> HIDE DEF c
<1>4. QED
  BY <1>1, <1>2, <1>3, Zenon DEF c

\* One step of ADD or ADC.
LEMMA AddSteps ==
  ASSUME TypeOK, Next, Fetches(Flash, pc), Code = "adc"
  PROVE  AddStep
<1> DEFINE cin == IF IsSet(Decoded.instr, 12) THEN Carry ELSE 0
           sum == Signed(Rd, 8) + Signed(Rr, 8) + cin
           res == (Rd + Rr + cin) % 256
           p   == adc_flags8(res, Rd, Rr)
           m   == Store(memory, Decoded.ddddd, res)
           c   == Fetched(pc, memory)
<1>1. Rd \in Byte /\ Rr \in Byte /\ cin \in {0, 1} /\ Decoded.ddddd # SREG
  BY DecodedTypes, Zenon
<1>2. Idle(c) /\ c.skip = FALSE /\ c.mem = memory
  BY FetchedReads, Zenon
<1>3. Reg(c, Decoded.ddddd) = Rd /\ Reg(c, Decoded.rrrrr) = Rr /\ CarryIn(c) = Carry
  BY FetchedReads, Zenon
<1> HIDE DEF c
<1>4. Leaves(c, Execute(Code, c, Decoded), m, p)
  <2>1. instr_adc(c, Decoded) =
          LET rr == Reg(c, Decoded.rrrrr)
              rd == Reg(c, Decoded.ddddd)
              s  == (rd + rr + IF IsSet(Decoded.instr, 12) THEN CarryIn(c) ELSE 0) % 256
          IN  Result(c, Decoded, s, adc_flags8(s, rd, rr))
    BY Zenon DEF instr_adc
  <2>2. instr_adc(c, Decoded) = Result(c, Decoded, res, p)
    BY <1>3, <2>1
  <2> HIDE DEF res, p
  <2>3. Leaves(c, Flags(Put(c, Decoded.ddddd, res), p), m, p)
    BY <1>2, FlagsLeave, Zenon
  <2> HIDE DEF m
  <2>4. Execute("adc", c, Decoded) = instr_adc(c, Decoded)
    BY Dispatch
  <2>5. QED
    BY <2>2, <2>3, <2>4, Zenon DEF Result
<1>5. Clean(p)
  BY HelpersClean, Zenon
<1>6. SaysSum(p, Rd, Rr, cin)
  <2> HIDE DEF cin
  <2>1. QED
    BY <1>1, AddFlags
<1>7. /\ Decides(p, "C", Rd + Rr + cin > 255)
      /\ Decides(p, "H", (Rd % 16) + (Rr % 16) + cin > 15)
      /\ Decides(p, "V", sum < -128 \/ sum > 127)
      /\ Decides(p, "S", sum < 0)
      /\ Decides(p, "N", Signed(res, 8) < 0)
      /\ Decides(p, "Z", res = 0)
      /\ \A f \in {"T", "I"} : SregBit[f] \notin p.set \cup p.clr
  <2> HIDE DEF p, cin
  <2>1. QED
    BY <1>6, Zenon DEF SaysSum
<1>8. \A a : membyte(m, a) = IF a = Decoded.ddddd THEN res ELSE membyte(memory, a)
  BY ReadStore
<1>9. membyte(m, SREG) = membyte(memory, SREG)
  BY <1>1, <1>8, Zenon
<1> HIDE DEF m, p, res, sum, cin, c
<1>10. /\ trapped' = FALSE /\ pc' = pc + InstrSize(Flash, pc)
       /\ \A a : a # SREG => membyte(memory', a) = membyte(m, a)
       /\ \A f \in DOMAIN SregBit :
            Shows(f, SregBit[f] \in p.set \/ (SregHas(f) /\ SregBit[f] \notin p.clr))
  BY <1>4, <1>5, <1>9, FlagStep DEF c
<1>11. membyte(memory', Decoded.ddddd) = res /\ GoesOn({Decoded.ddddd})
  BY <1>1, <1>8, <1>10, Zenon DEF GoesOn
<1>12. {"C", "H", "V", "S", "N", "Z", "T", "I"} \subseteq DOMAIN SregBit
  BY SregBitIs
<1>13. /\ Shows("C", Rd + Rr + cin > 255)
       /\ Shows("H", (Rd % 16) + (Rr % 16) + cin > 15)
       /\ Shows("V", sum < -128 \/ sum > 127)
       /\ Shows("S", sum < 0)
       /\ Shows("N", Signed(res, 8) < 0)
       /\ Shows("Z", res = 0)
  BY <1>7, <1>10, <1>12, DecidedShows, Zenon
<1>14. Shows("T", SregHas("T")) /\ Shows("I", SregHas("I"))
  BY <1>7, <1>10, <1>12, Zenon DEF Shows
<1>15. QED
  BY <1>11, <1>13, <1>14, Zenon DEF AddStep, cin, sum, res

\* Memory with the result in Rd, or as it was.
After(stored, res) == IF stored THEN Store(memory, Decoded.ddddd, res) ELSE memory

\* The chain p is the chain q, but for what p sets of Z.
ButZ(p, q) ==
  /\ p.clr = q.clr
  /\ \A k : k # SregBit["Z"] => (k \in p.set <=> k \in q.set)

\* Such a chain decides the other flags as q does,
LEMMA ButZDecides ==
  ASSUME NEW p, NEW q, ButZ(p, q), NEW f \in DOMAIN SregBit, f # "Z", NEW P, Decides(q, f, P)
  PROVE  Decides(p, f, P)
<1>1. "Z" \in DOMAIN SregBit
  BY SregBitIs
<1>2. SregBit[f] # SregBit["Z"]
  BY <1>1, SregBitInjective, Zenon
<1>3. QED
  BY <1>2, Zenon DEF ButZ, Decides

\* and leaves those alone that q does.
LEMMA ButZKeeps ==
  ASSUME NEW p, NEW q, ButZ(p, q), NEW f \in DOMAIN SregBit, f # "Z",
         SregBit[f] \notin q.set \cup q.clr
  PROVE  SregBit[f] \notin p.set \cup p.clr
<1>1. "Z" \in DOMAIN SregBit
  BY SregBitIs
<1>2. SregBit[f] # SregBit["Z"]
  BY <1>1, SregBitInjective, Zenon
<1>3. QED
  BY <1>2, Zenon DEF ButZ

\* The byte stored.
LEMMA ReadAfter ==
  ASSUME NEW stored, NEW res, NEW a
  PROVE  membyte(After(stored, res), a)
           = IF stored /\ a = Decoded.ddddd THEN res ELSE membyte(memory, a)
<1>1. membyte(Store(memory, Decoded.ddddd, res), a)
        = IF a = Decoded.ddddd THEN res ELSE membyte(memory, a)
  BY ReadStore
<1>2. QED
  BY <1>1, Zenon DEF After

\* One step of a subtraction whose handler asks for sub_flags8(), but for Z.
LEMMA SubStepOf ==
  ASSUME TypeOK, Next, Fetches(Flash, pc), NEW rr \in Byte, NEW cin \in {0, 1},
         NEW stored \in BOOLEAN, NEW p, Clean(p),
         ButZ(p, sub_flags8((Rd - rr - cin) % 256, Rd, rr)),
         Leaves(Fetched(pc, memory), Execute(Code, Fetched(pc, memory), Decoded),
                After(stored, (Rd - rr - cin) % 256), p)
  PROVE  /\ SubStep(rr, cin, stored)
         /\ Shows("Z", SregBit["Z"] \in p.set \/ (SregHas("Z") /\ SregBit["Z"] \notin p.clr))
<1> DEFINE diff == Signed(Rd, 8) - Signed(rr, 8) - cin
           res  == (Rd - rr - cin) % 256
           q    == sub_flags8(res, Rd, rr)
           m    == After(stored, res)
<1>1. Rd \in Byte /\ Decoded.ddddd # SREG
  BY DecodedTypes, Zenon
<1>2. SaysDifference(q, Rd, rr, cin) /\ ButZ(p, q)
  BY <1>1, SubFlags
<1> HIDE DEF q
<1>3. /\ Decides(q, "C", Rd < rr + cin)
      /\ Decides(q, "H", Rd % 16 < (rr % 16) + cin)
      /\ Decides(q, "V", diff < -128 \/ diff > 127)
      /\ Decides(q, "S", diff < 0)
      /\ Decides(q, "N", Signed(res, 8) < 0)
      /\ \A f \in {"T", "I"} : SregBit[f] \notin q.set \cup q.clr
  BY <1>2, Zenon DEF SaysDifference
<1>4. \A f \in {"C", "H", "V", "S", "N", "T", "I"} : f \in DOMAIN SregBit /\ f # "Z"
  BY SregBitIs, SMT
<1>5. \A a : membyte(m, a) = IF stored /\ a = Decoded.ddddd THEN res ELSE membyte(memory, a)
  BY ReadAfter
<1>6. membyte(m, SREG) = membyte(memory, SREG)
  BY <1>1, <1>5, Zenon
<1>7. Leaves(Fetched(pc, memory), Execute(Code, Fetched(pc, memory), Decoded), m, p)
  BY Zenon
<1> HIDE DEF diff, res, m
<1>8. /\ trapped' = FALSE /\ pc' = pc + InstrSize(Flash, pc)
      /\ \A a : a # SREG => membyte(memory', a) = membyte(m, a)
      /\ \A f \in DOMAIN SregBit :
           Shows(f, SregBit[f] \in p.set \/ (SregHas(f) /\ SregBit[f] \notin p.clr))
  BY <1>6, <1>7, FlagStep
<1>9. stored => membyte(memory', Decoded.ddddd) = res
  BY <1>1, <1>5, <1>8, Zenon
<1>10. GoesOn(IF stored THEN {Decoded.ddddd} ELSE {})
  BY <1>5, <1>8, Zenon DEF GoesOn
<1>11. /\ Decides(p, "C", Rd < rr + cin)
       /\ Decides(p, "H", Rd % 16 < (rr % 16) + cin)
       /\ Decides(p, "V", diff < -128 \/ diff > 127)
       /\ Decides(p, "S", diff < 0)
       /\ Decides(p, "N", Signed(res, 8) < 0)
  BY <1>2, <1>3, <1>4, ButZDecides, Zenon
<1>12. /\ Shows("C", Rd < rr + cin)
       /\ Shows("H", Rd % 16 < (rr % 16) + cin)
       /\ Shows("V", diff < -128 \/ diff > 127)
       /\ Shows("S", diff < 0)
       /\ Shows("N", Signed(res, 8) < 0)
  BY <1>4, <1>8, <1>11, DecidedShows, Zenon
<1>13. Shows("T", SregHas("T")) /\ Shows("I", SregHas("I"))
  <2>1. \A f \in {"T", "I"} : SregBit[f] \notin p.set \cup p.clr
    BY <1>2, <1>3, <1>4, ButZKeeps, Zenon
  <2>2. QED
    BY <1>4, <1>8, <2>1, Zenon DEF Shows
<1>14. SubStep(rr, cin, stored)
  BY <1>9, <1>10, <1>12, <1>13, Zenon DEF SubStep, diff, res
<1>15. "Z" \in DOMAIN SregBit
  BY SregBitIs
<1>16. QED
  BY <1>8, <1>14, <1>15, Zenon

\* The handlers end in flags, with the result stored or not.
LEMMA SubLeaves ==
  ASSUME NEW c, Idle(c), c.skip = FALSE, c.mem = memory, NEW p, NEW stored \in BOOLEAN, NEW res
  PROVE  Leaves(c, Flags(IF stored THEN Put(c, Decoded.ddddd, res) ELSE c, p),
                After(stored, res), p)
<1>1. /\ Leaves(c, Flags(c, p), memory, p)
      /\ Leaves(c, Flags(Put(c, Decoded.ddddd, res), p), Store(memory, Decoded.ddddd, res), p)
  BY FlagsLeave, Zenon
<1>2. QED
  BY <1>1, Zenon DEF After

\* sub_flags8() asks for bits to set and bits to clear, none of them both.
LEMMA SubFlagsClean ==
  ASSUME NEW res, NEW rd, NEW rr
  PROVE  DOMAIN sub_flags8(res, rd, rr) = {"set", "clr"} /\ Clean(sub_flags8(res, rd, rr))
<1>1. \A flags : DOMAIN Affect(flags) = {"set", "clr"}
  BY DEF Affect
<1>2. DOMAIN sub_flags8(res, rd, rr) = {"set", "clr"}
  BY <1>1, Zenon DEF sub_flags8
<1>3. QED
  BY <1>2, HelpersClean

\* One step of CPI, SUBI or SBCI.
LEMMA SubImmediateSteps ==
  ASSUME TypeOK, Next, Fetches(Flash, pc), Code = "cpi"
  PROVE  SubImmediateStep
<1> DEFINE c      == Fetched(pc, memory)
           rr     == Decoded.imm_u8
           stored == Field(Decoded.instr, 14, 13) = 2
           res    == (Rd - rr - Borrow) % 256
           p      == sub_flags8(res, Rd, rr)
<1>1. Rd \in Byte /\ rr \in Byte /\ Borrow \in {0, 1} /\ stored \in BOOLEAN
  BY DecodedTypes, Zenon DEF Borrow
<1>2. Idle(c) /\ c.skip = FALSE /\ c.mem = memory
  BY FetchedReads, Zenon
<1>3. Reg(c, Decoded.ddddd) = Rd /\ CarryIn(c) = Carry
  BY FetchedReads, Zenon
<1> HIDE DEF c
<1>4. Leaves(c, Execute(Code, c, Decoded), After(stored, res), p)
  <2> DEFINE s == (Reg(c, Decoded.ddddd) - rr
                     - IF IsSet(Decoded.instr, 12) THEN 0 ELSE CarryIn(c)) % 256
  <2>1. instr_cpi(c, Decoded)
          = Flags(IF stored THEN Put(c, Decoded.ddddd, s) ELSE c,
                  sub_flags8(s, Reg(c, Decoded.ddddd), rr))
    BY Zenon DEF instr_cpi
  <2>2. s = res
    BY <1>3 DEF Borrow
  <2> HIDE DEF s, res, stored, rr
  <2>3. instr_cpi(c, Decoded) = Flags(IF stored THEN Put(c, Decoded.ddddd, res) ELSE c, p)
    BY <1>3, <2>1, <2>2, Zenon
  <2> HIDE DEF p
  <2>4. Execute("cpi", c, Decoded) = instr_cpi(c, Decoded)
    BY Dispatch
  <2>5. QED
    BY <1>1, <1>2, <2>3, <2>4, SubLeaves, Zenon
<1>5. Clean(p) /\ ButZ(p, p)
  BY HelpersClean, Zenon DEF ButZ
<1>6. /\ SubStep(rr, Borrow, stored)
      /\ Shows("Z", SregBit["Z"] \in p.set \/ (SregHas("Z") /\ SregBit["Z"] \notin p.clr))
  <2> HIDE DEF rr, stored
  <2>1. QED
    BY <1>1, <1>4, <1>5, SubStepOf DEF c
<1>7. Decides(p, "Z", res = 0)
  <2> HIDE DEF rr
  <2>1. SaysDifference(p, Rd, rr, Borrow)
    BY <1>1, SubFlags
  <2>2. QED
    BY <2>1, Zenon DEF SaysDifference
<1>8. Shows("Z", res = 0)
  <2> HIDE DEF p, res
  <2>1. "Z" \in DOMAIN SregBit
    BY SregBitIs
  <2>2. QED
    BY <1>6, <1>7, <2>1, DecidedShows, Zenon
<1>9. QED
  BY <1>6, <1>8, Zenon DEF SubImmediateStep

\* One step of CP, CPC, SUB or SBC.
LEMMA SubRegisterSteps ==
  ASSUME TypeOK, Next, Fetches(Flash, pc), Code = "cpc"
  PROVE  SubRegisterStep
<1> DEFINE c      == Fetched(pc, memory)
           stored == Field(Decoded.instr, 11, 10) # 1
           res    == (Rd - Rr - Borrow) % 256
           q      == sub_flags8(res, Rd, Rr)
           p      == [q EXCEPT !.set = @ \ {SregBit.Z}]
<1>1. Rd \in Byte /\ Rr \in Byte /\ Borrow \in {0, 1} /\ stored \in BOOLEAN
  BY DecodedTypes, Zenon DEF Borrow
<1>2. Idle(c) /\ c.skip = FALSE /\ c.mem = memory
  BY FetchedReads, Zenon
<1>3. Reg(c, Decoded.ddddd) = Rd /\ Reg(c, Decoded.rrrrr) = Rr /\ CarryIn(c) = Carry
  BY FetchedReads, Zenon
<1> HIDE DEF c
<1>4. Leaves(c, Execute(Code, c, Decoded), After(stored, res), p)
  <2> DEFINE s == (Reg(c, Decoded.ddddd) - Reg(c, Decoded.rrrrr)
                     - IF IsSet(Decoded.instr, 12) THEN 0 ELSE CarryIn(c)) % 256
             f == sub_flags8(s, Reg(c, Decoded.ddddd), Reg(c, Decoded.rrrrr))
  <2>1. instr_cpc(c, Decoded)
          = Flags(IF stored THEN Put(c, Decoded.ddddd, s) ELSE c,
                  [f EXCEPT !.set = @ \ {SregBit.Z}])
    BY Zenon DEF instr_cpc
  <2>2. s = res
    BY <1>3 DEF Borrow
  <2> HIDE DEF s, res, stored
  <2>3. f = q
    BY <1>3, <2>2, Zenon
  <2> HIDE DEF f, q
  <2>4. instr_cpc(c, Decoded) = Flags(IF stored THEN Put(c, Decoded.ddddd, res) ELSE c, p)
    BY <2>1, <2>2, <2>3, Zenon
  <2> HIDE DEF p
  <2>5. Execute("cpc", c, Decoded) = instr_cpc(c, Decoded)
    BY Dispatch
  <2>6. QED
    BY <1>1, <1>2, <2>4, <2>5, SubLeaves, Zenon
<1>5. DOMAIN q = {"set", "clr"} /\ Clean(q)
  BY SubFlagsClean
<1>6. SaysDifference(q, Rd, Rr, Borrow)
  BY <1>1, SubFlags
<1> HIDE DEF q
<1>7. p.set = q.set \ {SregBit.Z} /\ p.clr = q.clr
  BY <1>5, Zenon
<1> HIDE DEF p
<1>8. Clean(p) /\ ButZ(p, q)
  BY <1>5, <1>7, Zenon DEF Clean, ButZ
<1>9. /\ SubStep(Rr, Borrow, stored)
      /\ Shows("Z", SregBit["Z"] \in p.set \/ (SregHas("Z") /\ SregBit["Z"] \notin p.clr))
  <2> HIDE DEF stored
  <2>1. QED
    BY <1>1, <1>4, <1>8, SubStepOf DEF c, q
<1>10. Decides(q, "Z", res = 0)
  BY <1>6, Zenon DEF SaysDifference
<1>11. Shows("Z", res = 0 /\ SregHas("Z"))
  <2> HIDE DEF res
  <2>1. QED
    BY <1>7, <1>9, <1>10, Zenon DEF Decides, Shows
<1>12. QED
  BY <1>9, <1>11, Zenon DEF SubRegisterStep

-----------------------------------------------------------------------------
(* Chains of flags, and counting.                                          *)

\* A word, byte by byte.
LEMMA ReadWord ==
  ASSUME NEW m, NEW a, NEW w, NEW x
  PROVE  membyte(memwriteword(m, a, w), x)
           = IF x = a + 1 THEN High(w) ELSE IF x = a THEN Low(w) ELSE membyte(m, x)
<1>1. membyte(Store(m, a, Low(w)), x) = IF x = a THEN Low(w) ELSE membyte(m, x)
  BY ReadStore
<1>2. membyte(Store(Store(m, a, Low(w)), a + 1, High(w)), x)
        = IF x = a + 1 THEN High(w) ELSE membyte(Store(m, a, Low(w)), x)
  BY ReadStore
<1>3. QED
  BY <1>1, <1>2, Zenon DEF memwriteword

\* The chain p decides the flags that the record says, and no other.
Says(p, flags) ==
  /\ Clean(p)
  /\ DOMAIN flags \subseteq DOMAIN SregBit
  /\ \A f \in DOMAIN flags : Decides(p, f, flags[f])
  /\ \A f \in DOMAIN SregBit \ DOMAIN flags : SregBit[f] \notin p.set \cup p.clr

\* A chain of instr.c does.
LEMMA AffectSays ==
  ASSUME NEW flags, DOMAIN flags \subseteq DOMAIN SregBit
  PROVE  Says(Affect(flags), flags)
<1>1. Clean(Affect(flags))
  <2>1. \A f \in DOMAIN flags : Decides(Affect(flags), f, flags[f])
    BY AffectIs
  <2>2. Affect(flags).set = {SregBit[f] : f \in {g \in DOMAIN flags : flags[g]}}
    BY Zenon DEF Affect
  <2>3. QED
    BY <2>1, <2>2, Zenon DEF Clean, Decides
<1>2. QED
  BY <1>1, AffectIs, Zenon DEF Says

\* SREG after the step is what the record says, and as it was in the flags it does not name.
ShowsAll(flags) ==
  /\ \A f \in DOMAIN flags : Shows(f, flags[f])
  /\ \A f \in DOMAIN SregBit \ DOMAIN flags : Shows(f, SregHas(f))

LEMMA ChainStep ==
  ASSUME TypeOK, Next, Fetches(Flash, pc), NEW m, membyte(m, SREG) = membyte(memory, SREG),
         NEW p, NEW flags, Says(p, flags),
         Leaves(Fetched(pc, memory), Execute(Code, Fetched(pc, memory), Decoded), m, p)
  PROVE  /\ trapped' = FALSE /\ pc' = pc + InstrSize(Flash, pc)
         /\ \A a : a # SREG => membyte(memory', a) = membyte(m, a)
         /\ ShowsAll(flags)
<1>1. Clean(p)
  BY DEF Says
<1>2. /\ trapped' = FALSE /\ pc' = pc + InstrSize(Flash, pc)
      /\ \A a : a # SREG => membyte(memory', a) = membyte(m, a)
      /\ \A f \in DOMAIN SregBit :
           Shows(f, SregBit[f] \in p.set \/ (SregHas(f) /\ SregBit[f] \notin p.clr))
  BY <1>1, FlagStep
<1>3. ASSUME NEW f \in DOMAIN flags PROVE Shows(f, flags[f])
  <2>1. f \in DOMAIN SregBit /\ Decides(p, f, flags[f])
    BY Zenon DEF Says
  <2>2. Shows(f, SregBit[f] \in p.set \/ (SregHas(f) /\ SregBit[f] \notin p.clr))
    BY <1>2, <2>1, Zenon
  <2>3. QED
    BY <2>1, <2>2, Zenon DEF Decides, Shows
<1>4. ASSUME NEW f \in DOMAIN SregBit \ DOMAIN flags PROVE Shows(f, SregHas(f))
  <2>1. SregBit[f] \notin p.set \cup p.clr
    BY Zenon DEF Says
  <2>2. Shows(f, SregBit[f] \in p.set \/ (SregHas(f) /\ SregBit[f] \notin p.clr))
    BY <1>2, Zenon
  <2>3. QED
    BY <2>1, <2>2, Zenon DEF Shows
<1>5. QED
  BY <1>2, <1>3, <1>4, Zenon DEF ShowsAll

\* A byte in Rd with its flags.
LEMMA ByteStep ==
  ASSUME TypeOK, Next, Fetches(Flash, pc), NEW res, NEW p, NEW flags, Says(p, flags),
         Execute(Code, Fetched(pc, memory), Decoded) = Result(Fetched(pc, memory), Decoded, res, p)
  PROVE  GoesOn({Decoded.ddddd}) /\ membyte(memory', Decoded.ddddd) = res /\ ShowsAll(flags)
<1> DEFINE m == Store(memory, Decoded.ddddd, res)
           c == Fetched(pc, memory)
<1>1. Idle(c) /\ c.skip = FALSE /\ c.mem = memory
  BY FetchedReads, Zenon
<1>2. Decoded.ddddd # SREG
  BY DecodedTypes
<1>3. Leaves(c, Execute(Code, c, Decoded), m, p)
  <2>1. Execute(Code, c, Decoded) = Result(c, Decoded, res, p)
    OBVIOUS
  <2> HIDE DEF c
  <2>2. Leaves(c, Flags(Put(c, Decoded.ddddd, res), p), Store(c.mem, Decoded.ddddd, res), p)
    BY <1>1, FlagsLeave, Zenon
  <2>3. QED
    BY <1>1, <2>1, <2>2, Zenon DEF Result
<1>4. \A a : membyte(m, a) = IF a = Decoded.ddddd THEN res ELSE membyte(memory, a)
  BY ReadStore
<1>5. membyte(m, SREG) = membyte(memory, SREG)
  BY <1>2, <1>4, Zenon
<1> HIDE DEF m
<1>6. /\ trapped' = FALSE /\ pc' = pc + InstrSize(Flash, pc)
      /\ \A a : a # SREG => membyte(memory', a) = membyte(m, a)
      /\ ShowsAll(flags)
  BY <1>3, <1>5, ChainStep
<1> HIDE DEF c
<1>7. QED
  BY <1>2, <1>4, <1>6, Zenon DEF GoesOn

\* A word in a pair of registers with its flags.
LEMMA WordStep ==
  ASSUME TypeOK, Next, Fetches(Flash, pc), NEW a, a # SREG, a + 1 # SREG, a # a + 1,
         NEW w, NEW p, NEW flags, Says(p, flags),
         Execute(Code, Fetched(pc, memory), Decoded) = Flags(PutWord(Fetched(pc, memory), a, w), p)
  PROVE  /\ GoesOn({a, a + 1}) /\ membyte(memory', a) = Low(w) /\ membyte(memory', a + 1) = High(w)
         /\ ShowsAll(flags)
<1> DEFINE m == memwriteword(memory, a, w)
           c == Fetched(pc, memory)
<1>1. Idle(c) /\ c.skip = FALSE /\ c.mem = memory
  BY FetchedReads, Zenon
<1>2. Leaves(c, Execute(Code, c, Decoded), m, p)
  <2>1. Execute(Code, c, Decoded) = Flags(PutWord(c, a, w), p)
    OBVIOUS
  <2> HIDE DEF c, m
  <2>2. PutWord(c, a, w) = [c EXCEPT !.mem = m]
    BY <1>1, Zenon DEF PutWord, m
  <2>3. Leaves(c, Flags([c EXCEPT !.mem = m], p), m, p)
    BY <1>1 DEF Idle, IsMachine, Leaves, Flags
  <2>4. QED
    BY <2>1, <2>2, <2>3, Zenon
<1>3. \A x : membyte(m, x) = IF x = a + 1 THEN High(w) ELSE IF x = a THEN Low(w) ELSE membyte(memory, x)
  BY ReadWord
<1> HIDE DEF m
<1>4. /\ membyte(m, a) = Low(w) /\ membyte(m, a + 1) = High(w)
      /\ \A x : x # a /\ x # a + 1 => membyte(m, x) = membyte(memory, x)
  BY <1>3, Zenon
<1>5. membyte(m, SREG) = membyte(memory, SREG)
  BY <1>4, Zenon
<1>6. /\ trapped' = FALSE /\ pc' = pc + InstrSize(Flash, pc)
      /\ \A x : x # SREG => membyte(memory', x) = membyte(m, x)
      /\ ShowsAll(flags)
  BY <1>2, <1>5, ChainStep
<1> HIDE DEF c
<1>7. QED
  BY <1>4, <1>6, Zenon DEF GoesOn

\* The flags of INC and DEC.
CountFlags(res, v) == [V |-> v, N |-> IsSet(res, 7), S |-> IsSet(res, 7) # v, Z |-> res = 0]

\* What logic_flags8() says, in full.
LEMMA LogicSays ==
  ASSUME NEW res
  PROVE  Says(logic_flags8(res), CountFlags(res, FALSE))
<1> DEFINE flags == [V |-> FALSE, N |-> IsSet(res, 7), S |-> IsSet(res, 7), Z |-> res = 0]
<1>1. (IsSet(res, 7) # FALSE) = IsSet(res, 7)
  BY Zenon DEF IsSet
<1>2. logic_flags8(res) = Affect(flags) /\ CountFlags(res, FALSE) = flags
  BY <1>1, Zenon DEF logic_flags8, CountFlags
<1>3. DOMAIN flags \subseteq DOMAIN SregBit
  BY SregBitIs
<1> HIDE DEF flags
<1>4. QED
  BY <1>2, <1>3, AffectSays

\* It never sets V.
LEMMA LogicKeepsV == ASSUME NEW res PROVE SregBit["V"] \notin logic_flags8(res).set
<1>1. "V" \in DOMAIN CountFlags(res, FALSE) /\ CountFlags(res, FALSE)["V"] = FALSE
  BY Zenon DEF CountFlags
<1>2. Decides(logic_flags8(res), "V", FALSE)
  BY <1>1, LogicSays, Zenon DEF Says
<1>3. QED
  BY <1>2, Zenon DEF Decides

\* The chain p is that of logic_flags8(), but for V, which is set, and S, which is as s says.
Repairs(p, res, s) ==
  LET f  == logic_flags8(res)
      VS == {SregBit["V"], SregBit["S"]}
  IN  /\ \A k : k \in p.set <=> k = SregBit["V"] \/ (k = SregBit["S"] /\ s) \/ k \in f.set \ VS
      /\ \A k : k \in p.clr <=> (k = SregBit["S"] /\ ~s) \/ k \in f.clr \ VS

\* INC and DEC do so when the result is at the edge.
LEMMA RepairedSays ==
  ASSUME NEW res, NEW p, NEW s \in BOOLEAN, s = ~IsSet(res, 7), Repairs(p, res, s)
  PROVE  Says(p, CountFlags(res, TRUE))
<1> DEFINE f == logic_flags8(res)
           old == CountFlags(res, FALSE)
           new == CountFlags(res, TRUE)
           VS == {SregBit["V"], SregBit["S"]}
<1>1. DOMAIN old = {"V", "N", "S", "Z"} /\ DOMAIN new = {"V", "N", "S", "Z"}
  BY Zenon DEF CountFlags
<1>2. /\ new["V"] = TRUE /\ new["S"] = s /\ new["N"] = old["N"] /\ new["Z"] = old["Z"]
  BY Zenon DEF CountFlags, IsSet
<1>3. Says(f, old)
  BY LogicSays
<1>4. /\ \A k : k \in p.set <=> k = SregBit["V"] \/ (k = SregBit["S"] /\ s) \/ k \in f.set \ VS
      /\ \A k : k \in p.clr <=> (k = SregBit["S"] /\ ~s) \/ k \in f.clr \ VS
  BY Zenon DEF Repairs
<1> HIDE DEF f, old, new
<1>5. /\ SregBit["V"] # SregBit["S"] /\ SregBit["N"] \notin VS /\ SregBit["Z"] \notin VS
      /\ \A h \in DOMAIN SregBit \ DOMAIN new : SregBit[h] \notin VS
  BY <1>1, SregBitIs, SMT
<1>6. Clean(p)
  BY <1>3, <1>4, <1>5, Zenon DEF Says, Clean
<1>7. Decides(p, "V", TRUE) /\ Decides(p, "S", s)
  BY <1>4, <1>5, Zenon DEF Decides
<1>8. Decides(f, "N", old["N"]) /\ Decides(f, "Z", old["Z"])
  BY <1>1, <1>3, Zenon DEF Says
<1>9. Decides(p, "N", old["N"]) /\ Decides(p, "Z", old["Z"])
  BY <1>4, <1>5, <1>8, Zenon DEF Decides
<1>10. \A h \in DOMAIN SregBit \ DOMAIN new : SregBit[h] \notin p.set \cup p.clr
  <2>1. \A h \in DOMAIN SregBit \ DOMAIN new : SregBit[h] \notin f.set \cup f.clr
    BY <1>1, <1>3, Zenon DEF Says
  <2>2. QED
    BY <1>4, <1>5, <2>1, Zenon
<1>11. \A h \in DOMAIN new : Decides(p, h, new[h])
  BY <1>1, <1>2, <1>7, <1>9, Zenon
<1>12. DOMAIN new \subseteq DOMAIN SregBit
  BY <1>1, SregBitIs
<1>13. QED
  BY <1>6, <1>10, <1>11, <1>12, Zenon DEF Says, new

\* INC and DEC, as chains.
LEMMA IncSays ==
  ASSUME NEW res, NEW p,
         LET f == logic_flags8(res)
         IN  p = IF res = 128 THEN [set |-> (f.set \ {SregBit.S}) \cup {SregBit.V},
                                    clr |-> (f.clr \ {SregBit.V}) \cup {SregBit.S}] ELSE f
  PROVE  Says(p, CountFlags(res, res = 128))
<1> DEFINE f == logic_flags8(res)
<1>1. CASE res = 128
  <2>1. IsSet(res, 7)
    BY <1>1, TopBits, SMT
  <2>2. p.set = (f.set \ {SregBit.S}) \cup {SregBit.V} /\ p.clr = (f.clr \ {SregBit.V}) \cup {SregBit.S}
    BY <1>1
  <2>3. SregBit["V"] # SregBit["S"]
    BY SregBitIs, SMT
  <2>4. SregBit["V"] \notin f.set
    BY LogicKeepsV
  <2> HIDE DEF f
  <2>5. Repairs(p, res, FALSE)
    BY <2>2, <2>3, <2>4, Zenon DEF f, Repairs
  <2>6. Says(p, CountFlags(res, TRUE))
    BY <2>1, <2>5, RepairedSays, Zenon
  <2>7. QED
    BY <1>1, <2>6
<1>2. CASE res # 128
  BY <1>2, LogicSays
<1>3. QED
  BY <1>1, <1>2

LEMMA DecSays ==
  ASSUME NEW res, NEW p,
         LET f  == logic_flags8(res)
             VS == {SregBit.V, SregBit.S}
         IN  p = IF res = 127 THEN [set |-> f.set \cup VS, clr |-> f.clr \ VS] ELSE f
  PROVE  Says(p, CountFlags(res, res = 127))
<1> DEFINE f == logic_flags8(res)
           VS == {SregBit.V, SregBit.S}
<1>1. CASE res = 127
  <2>1. ~IsSet(res, 7)
    BY <1>1, TopBits, SMT
  <2>2. p.set = f.set \cup VS /\ p.clr = f.clr \ VS
    BY <1>1
  <2> HIDE DEF f
  <2>3. Repairs(p, res, TRUE)
    BY <2>2, Zenon DEF f, Repairs
  <2>4. Says(p, CountFlags(res, TRUE))
    BY <2>1, <2>3, RepairedSays, Zenon
  <2>5. QED
    BY <1>1, <2>4
<1>2. CASE res # 127
  BY <1>2, LogicSays
<1>3. QED
  BY <1>1, <1>2

\* V and S of INC and DEC, as arithmetic has them.
Counts(res, v, num) ==
  /\ v <=> num < -128 \/ num > 127
  /\ (IsSet(res, 7) # v) <=> num < 0
  /\ IsSet(res, 7) <=> Signed(res, 8) < 0

LEMMA CountSigns ==
  ASSUME NEW rd \in Byte
  PROVE  /\ Counts((rd + 1) % 256, (rd + 1) % 256 = 128, Signed(rd, 8) + 1)
         /\ Counts((rd + -1) % 256, (rd + -1) % 256 = 127, Signed(rd, 8) + -1)
<1> DEFINE up   == (rd + 1) % 256
           down == (rd + -1) % 256
           num  == Signed(rd, 8)
<1>1. rd \in Nat /\ rd < 256
  BY ByteIs
<1>2. /\ up \in Nat /\ up < 256 /\ down \in Nat /\ down < 256
      /\ up = (IF rd = 255 THEN 0 ELSE rd + 1) /\ down = (IF rd = 0 THEN 255 ELSE rd - 1)
  BY <1>1, SMT
<1> HIDE DEF up, down
<1>3. num = (IF rd >= 128 THEN rd - 256 ELSE rd)
  BY <1>1, SignedIs, SMT
<1>4. /\ Signed(up, 8) = (IF up >= 128 THEN up - 256 ELSE up)
      /\ Signed(down, 8) = (IF down >= 128 THEN down - 256 ELSE down)
      /\ IsSet(up, 7) <=> up >= 128
      /\ IsSet(down, 7) <=> down >= 128
  BY <1>2, SignedIs, TopBits, SMT
<1> HIDE DEF num
<1>5. /\ up = 128 <=> num + 1 < -128 \/ num + 1 > 127
      /\ (up >= 128 /\ up # 128) \/ (up < 128 /\ up = 128) <=> num + 1 < 0
      /\ IsSet(up, 7) <=> Signed(up, 8) < 0
      /\ down = 127 <=> num + -1 < -128 \/ num + -1 > 127
      /\ (down >= 128 /\ down # 127) \/ (down < 128 /\ down = 127) <=> num + -1 < 0
      /\ IsSet(down, 7) <=> Signed(down, 8) < 0
  BY <1>1, <1>2, <1>3, <1>4, SMT
<1>6. IsSet(up, 7) \in BOOLEAN /\ IsSet(down, 7) \in BOOLEAN
  BY Zenon DEF IsSet
<1>7. (IsSet(up, 7) # (up = 128)) <=> (up >= 128 /\ up # 128) \/ (up < 128 /\ up = 128)
  BY <1>2, <1>4, <1>6, SMT
<1>8. (IsSet(down, 7) # (down = 127)) <=> (down >= 128 /\ down # 127) \/ (down < 128 /\ down = 127)
  BY <1>2, <1>4, <1>6, SMT
<1>9. QED
  BY <1>5, <1>7, <1>8, Zenon DEF up, down, num, Counts

\* What SREG shows after INC or DEC.
LEMMA CountShows ==
  ASSUME NEW res, NEW v, NEW num, ShowsAll(CountFlags(res, v)), Counts(res, v, num)
  PROVE  /\ Shows("V", num < -128 \/ num > 127) /\ Shows("S", num < 0)
         /\ Shows("N", Signed(res, 8) < 0) /\ Shows("Z", res = 0)
         /\ Keeps({"C", "H", "T", "I"})
<1> DEFINE g == CountFlags(res, v)
<1>1. /\ DOMAIN g = {"V", "N", "S", "Z"} /\ g["V"] = v /\ g["S"] = (IsSet(res, 7) # v)
      /\ g["N"] = IsSet(res, 7) /\ g["Z"] = (res = 0)
  BY Zenon DEF CountFlags
<1>2. DOMAIN SregBit = {"C", "Z", "N", "V", "S", "H", "T", "I"}
  BY SregBitIs
<1>3. ShowsAll(g)
  OBVIOUS
<1> HIDE DEF g
<1>4. {"C", "H", "T", "I"} \subseteq DOMAIN SregBit \ DOMAIN g
  BY <1>1, <1>2
<1>5. Shows("V", g["V"]) /\ Shows("S", g["S"]) /\ Shows("N", g["N"]) /\ Shows("Z", g["Z"])
  BY <1>1, <1>3, Zenon DEF ShowsAll
<1>6. Keeps({"C", "H", "T", "I"})
  BY <1>3, <1>4, Zenon DEF ShowsAll, Keeps
<1>7. QED
  BY <1>1, <1>5, <1>6, Zenon DEF Shows, Counts

\* One step of INC, and of DEC.
LEMMA IncSteps ==
  ASSUME TypeOK, Next, Fetches(Flash, pc), Code = "inc"
  PROVE  CountStep(1)
<1> DEFINE c == Fetched(pc, memory)
           res == (Rd + 1) % 256
           f == logic_flags8(res)
           p == IF res = 128 THEN [set |-> (f.set \ {SregBit.S}) \cup {SregBit.V},
                                   clr |-> (f.clr \ {SregBit.V}) \cup {SregBit.S}] ELSE f
<1>1. Reg(c, Decoded.ddddd) = Rd
  BY FetchedReads, Zenon
<1> HIDE DEF c
<1>2. Execute("inc", c, Decoded) = instr_inc(c, Decoded)
  BY Dispatch
<1>3. instr_inc(c, Decoded) = Result(c, Decoded, res, p)
  BY <1>1, Zenon DEF instr_inc
<1>4. Says(p, CountFlags(res, res = 128))
  <2> HIDE DEF res
  <2>1. QED
    BY IncSays
<1>5. Rd \in Byte
  BY DecodedTypes
<1>6. Counts(res, res = 128, Signed(Rd, 8) + 1)
  BY <1>5, CountSigns
<1> HIDE DEF p, res
<1>7. GoesOn({Decoded.ddddd}) /\ membyte(memory', Decoded.ddddd) = res
         /\ ShowsAll(CountFlags(res, res = 128))
  BY <1>2, <1>3, <1>4, ByteStep DEF c
<1> DEFINE num == Signed(Rd, 8) + 1
<1>8. /\ Shows("V", num < -128 \/ num > 127) /\ Shows("S", num < 0)
      /\ Shows("N", Signed(res, 8) < 0) /\ Shows("Z", res = 0)
      /\ Keeps({"C", "H", "T", "I"})
  <2>1. Counts(res, res = 128, num)
    BY <1>6
  <2> HIDE DEF num
  <2>2. QED
    BY <1>7, <2>1, CountShows
<1>9. QED
  BY <1>7, <1>8, Zenon DEF CountStep, res

LEMMA DecSteps ==
  ASSUME TypeOK, Next, Fetches(Flash, pc), Code = "dec"
  PROVE  CountStep(-1)
<1> DEFINE c == Fetched(pc, memory)
           res == (Rd - 1) % 256
           f == logic_flags8(res)
           VS == {SregBit.V, SregBit.S}
           p == IF res = 127 THEN [set |-> f.set \cup VS, clr |-> f.clr \ VS] ELSE f
<1>1. Reg(c, Decoded.ddddd) = Rd
  BY FetchedReads, Zenon
<1> HIDE DEF c
<1>2. Execute("dec", c, Decoded) = instr_dec(c, Decoded)
  BY Dispatch
<1>3. instr_dec(c, Decoded) = Result(c, Decoded, res, p)
  BY <1>1, Zenon DEF instr_dec
<1>4. Says(p, CountFlags(res, res = 127))
  <2> HIDE DEF res
  <2>1. QED
    BY DecSays
<1>5. Rd \in Byte
  BY DecodedTypes
<1>6. res = (Rd + -1) % 256
  BY <1>5, ByteIs, SMT
<1> HIDE DEF p, res
<1>7. Counts(res, res = 127, Signed(Rd, 8) + -1)
  BY <1>5, <1>6, CountSigns
<1>8. GoesOn({Decoded.ddddd}) /\ membyte(memory', Decoded.ddddd) = res
         /\ ShowsAll(CountFlags(res, res = 127))
  BY <1>2, <1>3, <1>4, ByteStep DEF c
<1> DEFINE num == Signed(Rd, 8) + -1
<1>9. /\ Shows("V", num < -128 \/ num > 127) /\ Shows("S", num < 0)
      /\ Shows("N", Signed(res, 8) < 0) /\ Shows("Z", res = 0)
      /\ Keeps({"C", "H", "T", "I"})
  <2>1. Counts(res, res = 127, num)
    BY <1>7
  <2> HIDE DEF num
  <2>2. QED
    BY <1>8, <2>1, CountShows
<1>10. QED
  BY <1>6, <1>8, <1>9, Zenon DEF CountStep

\* NEG: its flags, as arithmetic has them.
LEMMA NegSigns ==
  ASSUME NEW rd \in Byte
  PROVE  LET num == 0 - Signed(rd, 8)
             res == (0 - rd) % 256
         IN  /\ res # 0 <=> 0 < rd
             /\ IsSet(res, 3) \/ IsSet(rd, 3) <=> 0 < rd % 16
             /\ res = 128 <=> num > 127
             /\ (IsSet(res, 7) # (res = 128)) <=> num < 0
             /\ IsSet(res, 7) <=> Signed(res, 8) < 0
<1> DEFINE num == 0 - Signed(rd, 8)
           res == (0 - rd) % 256
<1>1. rd \in Nat /\ rd < 256
  BY ByteIs
<1>2. res \in Nat /\ res < 256 /\ res = (IF rd = 0 THEN 0 ELSE 256 - rd)
  BY <1>1, SMT
<1> HIDE DEF res
<1>3. num = 0 - (IF rd >= 128 THEN rd - 256 ELSE rd)
  BY <1>1, SignedIs, SMT
<1>4. /\ Signed(res, 8) = (IF res >= 128 THEN res - 256 ELSE res)
      /\ IsSet(res, 7) <=> res >= 128
      /\ IsSet(res, 3) <=> res % 16 >= 8
      /\ IsSet(rd, 3) <=> rd % 16 >= 8
  BY <1>1, <1>2, SignedIs, TopBits, SMT
<1>5. res % 16 = (IF rd % 16 = 0 THEN 0 ELSE 16 - (rd % 16))
  BY <1>1, <1>2, SMT
<1> HIDE DEF num
<1>6. /\ res # 0 <=> 0 < rd
      /\ res = 128 <=> num > 127
      /\ (res >= 128 /\ res # 128) \/ (res < 128 /\ res = 128) <=> num < 0
      /\ IsSet(res, 7) <=> Signed(res, 8) < 0
  BY <1>1, <1>2, <1>3, <1>4, SMT
<1>7. IsSet(res, 3) \/ IsSet(rd, 3) <=> 0 < rd % 16
  BY <1>1, <1>4, <1>5, SMT
<1>8. IsSet(res, 7) \in BOOLEAN
  BY Zenon DEF IsSet
<1>9. (IsSet(res, 7) # (res = 128)) <=> (res >= 128 /\ res # 128) \/ (res < 128 /\ res = 128)
  BY <1>2, <1>4, <1>8, SMT
<1>10. QED
  BY <1>6, <1>7, <1>9, Zenon DEF res, num

NegFlags(res, rd) ==
  [Z |-> res = 0, C |-> res # 0, N |-> IsSet(res, 7), V |-> res = 128,
   H |-> IsSet(res, 3) \/ IsSet(rd, 3), S |-> IsSet(res, 7) # (res = 128)]

\* One step of NEG.
LEMMA NegSteps ==
  ASSUME TypeOK, Next, Fetches(Flash, pc), Code = "neg"
  PROVE  NegStep
<1> DEFINE c == Fetched(pc, memory)
           res == (0 - Rd) % 256
           num == 0 - Signed(Rd, 8)
           g == NegFlags(res, Rd)
<1>1. Reg(c, Decoded.ddddd) = Rd
  BY FetchedReads, Zenon
<1> HIDE DEF c
<1>2. Execute("neg", c, Decoded) = instr_neg(c, Decoded)
  BY Dispatch
<1>3. instr_neg(c, Decoded) = Result(c, Decoded, res, Affect(g))
  <2> DEFINE rd == Reg(c, Decoded.ddddd)
  <2>1. instr_neg(c, Decoded) = Result(c, Decoded, (0 - rd) % 256, Affect(NegFlags((0 - rd) % 256, rd)))
    BY DEF instr_neg, NegFlags
  <2> HIDE DEF rd
  <2>2. QED
    BY <1>1, <2>1, Zenon DEF rd
<1>4. Rd \in Byte
  BY DecodedTypes
<1>5. /\ res # 0 <=> 0 < Rd
      /\ IsSet(res, 3) \/ IsSet(Rd, 3) <=> 0 < Rd % 16
      /\ res = 128 <=> num > 127
      /\ (IsSet(res, 7) # (res = 128)) <=> num < 0
      /\ IsSet(res, 7) <=> Signed(res, 8) < 0
  <2> DEFINE rd == Rd
  <2> HIDE DEF rd
  <2>1. rd \in Byte
    BY <1>4 DEF rd
  <2>2. LET n == 0 - Signed(rd, 8)
            r == (0 - rd) % 256
        IN  /\ r # 0 <=> 0 < rd
            /\ IsSet(r, 3) \/ IsSet(rd, 3) <=> 0 < rd % 16
            /\ r = 128 <=> n > 127
            /\ (IsSet(r, 7) # (r = 128)) <=> n < 0
            /\ IsSet(r, 7) <=> Signed(r, 8) < 0
    BY <2>1, NegSigns
  <2>3. QED
    BY <2>2, Zenon DEF rd
<1> HIDE DEF res, num
<1>6. /\ DOMAIN g = {"Z", "C", "N", "V", "H", "S"}
      /\ g["Z"] = (res = 0) /\ g["C"] = (res # 0) /\ g["N"] = IsSet(res, 7) /\ g["V"] = (res = 128)
      /\ g["H"] = (IsSet(res, 3) \/ IsSet(Rd, 3)) /\ g["S"] = (IsSet(res, 7) # (res = 128))
  BY Zenon DEF NegFlags
<1> HIDE DEF g
<1>7. DOMAIN SregBit = {"C", "Z", "N", "V", "S", "H", "T", "I"}
  BY SregBitIs
<1>8. DOMAIN g \subseteq DOMAIN SregBit /\ {"T", "I"} \subseteq DOMAIN SregBit \ DOMAIN g
  BY <1>6, <1>7
<1>9. Says(Affect(g), g)
  BY <1>8, AffectSays
<1>10. GoesOn({Decoded.ddddd}) /\ membyte(memory', Decoded.ddddd) = res /\ ShowsAll(g)
  BY <1>2, <1>3, <1>9, ByteStep DEF c
<1>11. /\ Shows("Z", g["Z"]) /\ Shows("C", g["C"]) /\ Shows("N", g["N"]) /\ Shows("V", g["V"])
       /\ Shows("H", g["H"]) /\ Shows("S", g["S"])
  BY <1>6, <1>10, Zenon DEF ShowsAll
<1>12. Keeps({"T", "I"})
  BY <1>8, <1>10, Zenon DEF ShowsAll, Keeps
<1>13. /\ Shows("C", 0 < Rd) /\ Shows("H", 0 < Rd % 16) /\ Shows("V", num > 127)
       /\ Shows("S", num < 0) /\ Shows("N", Signed(res, 8) < 0) /\ Shows("Z", res = 0)
  BY <1>5, <1>6, <1>11, Zenon DEF Shows
<1>14. QED
  BY <1>10, <1>12, <1>13, Zenon DEF NegStep, res, num

\* Halves: what bit 7 and bit 0 are.
LEMMA HalfSigns ==
  ASSUME NEW rd \in Byte, NEW top \in BOOLEAN
  PROVE  LET res == (rd \div 2) + IF top THEN 128 ELSE 0
         IN  (IsSet(res, 7) <=> top) /\ (IsSet(rd, 0) <=> rd % 2 = 1)
<1> DEFINE res == (rd \div 2) + IF top THEN 128 ELSE 0
<1>1. rd \in Nat /\ rd < 256
  BY ByteIs
<1>2. res \in Nat /\ res < 256 /\ (top <=> res >= 128)
  BY <1>1, SMT
<1> HIDE DEF res
<1>3. IsSet(res, 7) <=> top
  BY <1>2, TopBits, SMT
<1>4. 2^0 = 1
  BY SMT
<1>5. IsSet(rd, 0) <=> rd % 2 = 1
  BY <1>1, <1>4, SMT DEF IsSet, Bit
<1>6. QED
  BY <1>3, <1>5, Zenon DEF res

HalfFlags(res, n, b) == [N |-> n, Z |-> res = 0, C |-> b, V |-> b # n, S |-> (b # n) # n]

\* One step of a shift.
LEMMA HalfStepOf ==
  ASSUME TypeOK, Next, Fetches(Flash, pc), NEW top \in BOOLEAN,
         Execute(Code, Fetched(pc, memory), Decoded) = Shift(Fetched(pc, memory), Decoded, top)
  PROVE  HalfStep(top)
<1> DEFINE c == Fetched(pc, memory)
           res == (Rd \div 2) + IF top THEN 128 ELSE 0
           n == IsSet(res, 7)
           b == IsSet(Rd, 0)
           g == HalfFlags(res, n, b)
<1>1. Reg(c, Decoded.ddddd) = Rd
  BY FetchedReads, Zenon
<1>2. Execute(Code, c, Decoded) = Shift(c, Decoded, top)
  OBVIOUS
<1> HIDE DEF c
<1>3. Shift(c, Decoded, top) = Result(c, Decoded, res, Affect(g))
  <2> DEFINE rd == Reg(c, Decoded.ddddd)
             half(x) == (x \div 2) + IF top THEN 128 ELSE 0
  <2>1. Shift(c, Decoded, top) = Result(c, Decoded, half(rd), asr_flags8(half(rd), rd))
    BY DEF Shift
  <2>2. rd = Rd /\ half(Rd) = res
    BY <1>1
  <2> HIDE DEF rd, half, res
  <2>3. asr_flags8(res, Rd) = Affect(g)
    BY DEF asr_flags8, HalfFlags
  <2>4. QED
    BY <2>1, <2>2, <2>3, Zenon
<1>4. Rd \in Byte
  BY DecodedTypes
<1>5. (n <=> top) /\ (b <=> Rd % 2 = 1)
  BY <1>4, HalfSigns, Zenon
<1>6. n \in BOOLEAN /\ b \in BOOLEAN
  BY Zenon DEF IsSet
<1> HIDE DEF n, b, res
<1>7. /\ DOMAIN g = {"N", "Z", "C", "V", "S"}
      /\ g["N"] = n /\ g["Z"] = (res = 0) /\ g["C"] = b /\ g["V"] = (b # n) /\ g["S"] = ((b # n) # n)
  BY Zenon DEF HalfFlags
<1> HIDE DEF g
<1>8. DOMAIN SregBit = {"C", "Z", "N", "V", "S", "H", "T", "I"}
  BY SregBitIs
<1>9. DOMAIN g \subseteq DOMAIN SregBit /\ {"H", "T", "I"} \subseteq DOMAIN SregBit \ DOMAIN g
  BY <1>7, <1>8
<1>10. Says(Affect(g), g)
  BY <1>9, AffectSays
<1>11. GoesOn({Decoded.ddddd}) /\ membyte(memory', Decoded.ddddd) = res /\ ShowsAll(g)
  BY <1>2, <1>3, <1>10, ByteStep DEF c
<1>12. Shows("N", g["N"]) /\ Shows("Z", g["Z"]) /\ Shows("C", g["C"]) /\ Shows("V", g["V"]) /\ Shows("S", g["S"])
  BY <1>7, <1>11, Zenon DEF ShowsAll
<1>13. Keeps({"H", "T", "I"})
  BY <1>9, <1>11, Zenon DEF ShowsAll, Keeps
<1>14. /\ (g["V"] <=> (top # (Rd % 2 = 1))) /\ (g["S"] <=> Rd % 2 = 1)
  BY <1>5, <1>6, <1>7, Zenon
<1>15. /\ Shows("C", Rd % 2 = 1) /\ Shows("S", Rd % 2 = 1) /\ Shows("N", top)
       /\ Shows("V", top # (Rd % 2 = 1)) /\ Shows("Z", res = 0)
  BY <1>5, <1>7, <1>12, <1>14, Zenon DEF Shows
<1>16. QED
  BY <1>11, <1>13, <1>15, Zenon DEF HalfStep, res

\* ASR keeps the sign, LSR has none, ROR takes C in.
LEMMA HalfSteps ==
  ASSUME TypeOK, Next, Fetches(Flash, pc)
  PROVE  /\ Code = "asr" => HalfStep(IsSet(Rd, 7))
         /\ Code = "lsr" => HalfStep(FALSE)
         /\ Code = "ror" => HalfStep(SregHas("C"))
<1> DEFINE c == Fetched(pc, memory)
<1>1. Reg(c, Decoded.ddddd) = Rd /\ c.mem = memory
  BY FetchedReads, Zenon
<1>2. ASSUME NEW top \in BOOLEAN, Execute(Code, c, Decoded) = Shift(c, Decoded, top)
      PROVE  HalfStep(top)
  BY <1>2, HalfStepOf
<1> HIDE DEF c
<1>3. /\ Execute("asr", c, Decoded) = instr_asr(c, Decoded)
      /\ Execute("lsr", c, Decoded) = instr_lsr(c, Decoded)
      /\ Execute("ror", c, Decoded) = instr_ror(c, Decoded)
  BY Dispatch
<1>4. /\ instr_asr(c, Decoded) = Shift(c, Decoded, IsSet(Rd, 7))
      /\ instr_lsr(c, Decoded) = Shift(c, Decoded, FALSE)
      /\ instr_ror(c, Decoded) = Shift(c, Decoded, SregHas("C"))
  BY <1>1, Zenon DEF instr_asr, instr_lsr, instr_ror, Flag, Reg, SregHas
<1>5. IsSet(Rd, 7) \in BOOLEAN /\ SregHas("C") \in BOOLEAN
  BY Zenon DEF IsSet, SregHas
<1>6. QED
  BY <1>2, <1>3, <1>4, <1>5, Zenon

\* A word in range is its bytes.
LEMMA WordBytes == ASSUME NEW w \in Word16 PROVE Low(w) + 256 * High(w) = w
BY SMT DEF Low, High, Word16

\* Their flags.
WordFlags(res, v, carry) ==
  [N |-> IsSet(res, 15), V |-> v, S |-> IsSet(res, 15) # v, Z |-> res = 0, C |-> carry]

\* The arithmetic of the flags: a result, its V and C, whether the number is too large or too
\* small, negative, and whether there is a carry.
WordSays(res, v, carry, over, neg, out) ==
  /\ v <=> over
  /\ (IsSet(res, 15) # v) <=> neg
  /\ IsSet(res, 15) <=> Signed(res, 16) < 0
  /\ carry <=> out

UpSays(n, k) ==
  LET up  == (n + k) % 65536
      num == Signed(n, 16) + k
  IN  WordSays(up, ~IsSet(n, 15) /\ IsSet(up, 15), ~IsSet(up, 15) /\ IsSet(n, 15),
               num > 32767, num < 0, n + k > 65535)

DownSays(n, k) ==
  LET down == (n - k) % 65536
      num  == Signed(n, 16) - k
  IN  WordSays(down, IsSet(n, 15) /\ ~IsSet(down, 15), IsSet(down, 15) /\ ~IsSet(n, 15),
               num < -32768, num < 0, n < k)

LEMMA WordSigns == ASSUME NEW n \in Word16, NEW k \in 0..63 PROVE UpSays(n, k) /\ DownSays(n, k)
<1> DEFINE up   == (n + k) % 65536
           down == (n - k) % 65536
           num  == Signed(n, 16)
<1>1. n \in Nat /\ n < 65536 /\ k \in Nat /\ k < 64
  BY SMT DEF Word16
<1>2. /\ up \in Nat /\ up < 65536 /\ down \in Nat /\ down < 65536
      /\ up = (IF n + k > 65535 THEN n + k - 65536 ELSE n + k)
      /\ down = (IF n < k THEN n - k + 65536 ELSE n - k)
  BY <1>1, SMT
<1> HIDE DEF up, down
<1>3. /\ num = (IF n >= 32768 THEN n - 65536 ELSE n)
      /\ IsSet(n, 15) <=> n >= 32768
  BY <1>1, SignedIs, TopBits, SMT
<1>4. /\ Signed(up, 16) = (IF up >= 32768 THEN up - 65536 ELSE up)
      /\ Signed(down, 16) = (IF down >= 32768 THEN down - 65536 ELSE down)
      /\ IsSet(up, 15) <=> up >= 32768
      /\ IsSet(down, 15) <=> down >= 32768
  BY <1>2, SignedIs, TopBits, SMT
<1> HIDE DEF num
<1> DEFINE uv == ~IsSet(n, 15) /\ IsSet(up, 15)
           dv == IsSet(n, 15) /\ ~IsSet(down, 15)
<1>5. /\ uv <=> num + k > 32767
      /\ (IsSet(up, 15) /\ ~uv) \/ (~IsSet(up, 15) /\ uv) <=> num + k < 0
      /\ IsSet(up, 15) <=> Signed(up, 16) < 0
      /\ ~IsSet(up, 15) /\ IsSet(n, 15) <=> n + k > 65535
  BY <1>1, <1>2, <1>3, <1>4, SMT
<1>6. /\ dv <=> num - k < -32768
      /\ (IsSet(down, 15) /\ ~dv) \/ (~IsSet(down, 15) /\ dv) <=> num - k < 0
      /\ IsSet(down, 15) <=> Signed(down, 16) < 0
      /\ IsSet(down, 15) /\ ~IsSet(n, 15) <=> n < k
  BY <1>1, <1>2, <1>3, <1>4, SMT
<1>7. IsSet(up, 15) \in BOOLEAN /\ IsSet(down, 15) \in BOOLEAN /\ uv \in BOOLEAN /\ dv \in BOOLEAN
  BY DEF IsSet
<1> HIDE DEF uv, dv
<1>8. /\ (IsSet(up, 15) # uv) <=> (IsSet(up, 15) /\ ~uv) \/ (~IsSet(up, 15) /\ uv)
      /\ (IsSet(down, 15) # dv) <=> (IsSet(down, 15) /\ ~dv) \/ (~IsSet(down, 15) /\ dv)
  BY <1>7
<1>9. /\ WordSays(up, uv, ~IsSet(up, 15) /\ IsSet(n, 15), num + k > 32767, num + k < 0, n + k > 65535)
      /\ WordSays(down, dv, IsSet(down, 15) /\ ~IsSet(n, 15), num - k < -32768, num - k < 0, n < k)
  BY <1>5, <1>6, <1>8, SMT DEF WordSays
<1>10. QED
  BY <1>9 DEF up, down, num, uv, dv, UpSays, DownSays

\* What SREG shows after one of them.
LEMMA WordShows ==
  ASSUME NEW res, NEW v, NEW carry, NEW over, NEW neg, NEW out,
         WordSays(res, v, carry, over, neg, out), ShowsAll(WordFlags(res, v, carry))
  PROVE  /\ Shows("C", out) /\ Shows("V", over) /\ Shows("S", neg)
         /\ Shows("N", Signed(res, 16) < 0) /\ Shows("Z", res = 0)
         /\ Keeps({"H", "T", "I"})
<1> DEFINE g == WordFlags(res, v, carry)
<1>1. /\ DOMAIN g = {"N", "V", "S", "Z", "C"} /\ g["V"] = v /\ g["S"] = (IsSet(res, 15) # v)
      /\ g["N"] = IsSet(res, 15) /\ g["Z"] = (res = 0) /\ g["C"] = carry
  BY Zenon DEF WordFlags
<1>2. DOMAIN SregBit = {"C", "Z", "N", "V", "S", "H", "T", "I"}
  BY SregBitIs
<1>3. ShowsAll(g)
  OBVIOUS
<1> HIDE DEF g
<1>4. {"H", "T", "I"} \subseteq DOMAIN SregBit \ DOMAIN g
  BY <1>1, <1>2
<1>5. Shows("V", g["V"]) /\ Shows("S", g["S"]) /\ Shows("N", g["N"]) /\ Shows("Z", g["Z"]) /\ Shows("C", g["C"])
  BY <1>1, <1>3, Zenon DEF ShowsAll
<1>6. Keeps({"H", "T", "I"})
  BY <1>3, <1>4, Zenon DEF ShowsAll, Keeps
<1>7. QED
  BY <1>1, <1>5, <1>6, Zenon DEF Shows, WordSays

\* The chain of such flags.
LEMMA WordFlagsSay == ASSUME NEW res, NEW v, NEW carry
                      PROVE  Says(Affect(WordFlags(res, v, carry)), WordFlags(res, v, carry))
<1>1. DOMAIN WordFlags(res, v, carry) = {"N", "V", "S", "Z", "C"}
  BY Zenon DEF WordFlags
<1>2. QED
  BY <1>1, SregBitIs, AffectSays

\* The pair and the constant.
LEMMA WordOperands ==
  ASSUME TypeOK
  PROVE  /\ WordPair(Decoded) # SREG /\ WordPair(Decoded) + 1 # SREG
         /\ WordPair(Decoded) # WordPair(Decoded) + 1
         /\ memword(memory, WordPair(Decoded)) \in Word16 /\ WordConst(Decoded) \in 0..63
<1>1. IsOperands(Decoded)
  BY DecodedTypes
<1>2. Decoded.instr \in Nat
  BY <1>1, SMT DEF IsOperands, Word16
<1>3. /\ Field(Decoded.instr, 5, 4) \in 0..3 /\ Field(Decoded.instr, 7, 6) \in 0..3
      /\ Field(Decoded.instr, 3, 0) \in 0..15
  BY <1>2, FieldTypes
<1>4. QED
  BY <1>3, ReadType, SMT DEF WordPair, WordConst, SREG, TypeOK

\* One step of ADIW, and of SBIW.
LEMMA WordSteps ==
  ASSUME TypeOK, Next, Fetches(Flash, pc)
  PROVE  (Code = "adiw" => WordAddStep) /\ (Code = "sbiw" => WordSubStep)
<1> DEFINE c == Fetched(pc, memory)
           a == WordPair(Decoded)
           n == memword(memory, a)
           k == WordConst(Decoded)
           up == (n + k) % 65536
           down == (n - k) % 65536
           uv == ~IsSet(n, 15) /\ IsSet(up, 15)
           uc == ~IsSet(up, 15) /\ IsSet(n, 15)
           dv == IsSet(n, 15) /\ ~IsSet(down, 15)
           dc == IsSet(down, 15) /\ ~IsSet(n, 15)
<1>1. a # SREG /\ a + 1 # SREG /\ a # a + 1 /\ n \in Word16 /\ k \in 0..63
  BY WordOperands
<1>2. c.mem = memory
  BY FetchedReads, Zenon
<1> HIDE DEF c
<1>3. /\ Execute("adiw", c, Decoded) = instr_adiw(c, Decoded)
      /\ Execute("sbiw", c, Decoded) = instr_sbiw(c, Decoded)
  BY Dispatch
<1>4. /\ instr_adiw(c, Decoded) = Flags(PutWord(c, a, up), adiw_flags16(up, n))
      /\ instr_sbiw(c, Decoded) = Flags(PutWord(c, a, down), sbiw_flags16(down, n))
  BY <1>2, SMT DEF instr_adiw, instr_sbiw
<1>5. up \in Word16 /\ down \in Word16
  <2> HIDE DEF n, k
  <2>1. QED
    BY <1>1, SMT DEF Word16
<1>6. /\ WordSays(up, uv, uc, Signed(n, 16) + k > 32767, Signed(n, 16) + k < 0, n + k > 65535)
      /\ WordSays(down, dv, dc, Signed(n, 16) - k < -32768, Signed(n, 16) - k < 0, n < k)
  <2> HIDE DEF n, k
  <2>1. UpSays(n, k) /\ DownSays(n, k)
    BY <1>1, WordSigns
  <2>2. QED
    BY <2>1 DEF UpSays, DownSays
<1> HIDE DEF up, down, n
<1>7. /\ adiw_flags16(up, n) = Affect(WordFlags(up, uv, uc))
      /\ sbiw_flags16(down, n) = Affect(WordFlags(down, dv, dc))
  BY DEF adiw_flags16, sbiw_flags16, WordFlags
<1> HIDE DEF a, k, uv, uc, dv, dc
<1>8. ASSUME Code = "adiw" PROVE WordAddStep
  <2>1. /\ GoesOn({a, a + 1}) /\ membyte(memory', a) = Low(up) /\ membyte(memory', a + 1) = High(up)
        /\ ShowsAll(WordFlags(up, uv, uc))
    BY <1>1, <1>3, <1>4, <1>7, <1>8, WordFlagsSay, WordStep DEF c
  <2>2. memword(memory', a) = up
    BY <1>5, <2>1, WordBytes DEF memword
  <2> DEFINE over == Signed(n, 16) + k > 32767
             neg == Signed(n, 16) + k < 0
             out == n + k > 65535
  <2>3. WordSays(up, uv, uc, over, neg, out)
    BY <1>6
  <2> HIDE DEF over, neg, out
  <2>4. /\ Shows("C", out) /\ Shows("V", over) /\ Shows("S", neg)
        /\ Shows("N", Signed(up, 16) < 0) /\ Shows("Z", up = 0)
        /\ Keeps({"H", "T", "I"})
    BY <2>1, <2>3, WordShows
  <2>5. QED
    BY <2>1, <2>2, <2>4 DEF WordAddStep, a, n, k, up, over, neg, out
<1>9. ASSUME Code = "sbiw" PROVE WordSubStep
  <2>1. /\ GoesOn({a, a + 1}) /\ membyte(memory', a) = Low(down) /\ membyte(memory', a + 1) = High(down)
        /\ ShowsAll(WordFlags(down, dv, dc))
    BY <1>1, <1>3, <1>4, <1>7, <1>9, WordFlagsSay, WordStep DEF c
  <2>2. memword(memory', a) = down
    BY <1>5, <2>1, WordBytes DEF memword
  <2> DEFINE over == Signed(n, 16) - k < -32768
             neg == Signed(n, 16) - k < 0
             out == n < k
  <2>3. WordSays(down, dv, dc, over, neg, out)
    BY <1>6
  <2> HIDE DEF over, neg, out
  <2>4. /\ Shows("C", out) /\ Shows("V", over) /\ Shows("S", neg)
        /\ Shows("N", Signed(down, 16) < 0) /\ Shows("Z", down = 0)
        /\ Keeps({"H", "T", "I"})
    BY <2>1, <2>3, WordShows
  <2>5. QED
    BY <2>1, <2>2, <2>4 DEF WordSubStep, a, n, k, down, over, neg, out
<1>10. QED
  BY <1>8, <1>9

\* The products of bytes fit a word.
LEMMA ProductsFit ==
  ASSUME NEW x \in Int, NEW y \in Int
  PROVE  /\ 0 <= x /\ x < 256 /\ 0 <= y /\ y < 256 => 0 <= x * y /\ x * y < 65536
         /\ -128 <= x /\ x < 128 /\ -128 <= y /\ y < 256 => -32768 <= x * y /\ x * y < 32768
         /\ x * y \in Int
<1>1. x * y \in Int
  BY SMT
<1>2. ASSUME 0 <= x, x < 256, 0 <= y, y < 256 PROVE 0 <= x * y /\ x * y < 65536
  <2>1. 0 <= x * y
    BY <1>2, SMT
  <2>2. 0 <= x * (255 - y)
    BY <1>2, SMT
  <2>3. x * (255 - y) = 255 * x - x * y
    BY SMT
  <2>4. QED
    BY <1>1, <1>2, <2>1, <2>2, <2>3, SMT
<1>3. ASSUME -128 <= x, x < 128, -128 <= y, y < 256 PROVE -32768 <= x * y /\ x * y < 32768
  <2>1. 0 <= (x + 128) * (y + 128) /\ 0 <= (127 - x) * (255 - y)
        /\ 0 <= (x + 128) * (255 - y) /\ 0 <= (127 - x) * (y + 128)
    BY <1>3, SMT
  <2>2. /\ (x + 128) * (y + 128) = x * y + 128 * x + 128 * y + 16384
        /\ (127 - x) * (255 - y) = x * y - 255 * x - 127 * y + 32385
        /\ (x + 128) * (255 - y) = 255 * x - x * y - 128 * y + 32640
        /\ (127 - x) * (y + 128) = 127 * y - x * y - 128 * x + 16256
    BY SMT
  <2>3. QED
    BY <1>1, <1>3, <2>1, <2>2, SMT
<1>4. QED
  BY <1>1, <1>2, <1>3

\* The flags of a product.
ProductFlags(carry, zero) == [C |-> carry, Z |-> zero]

LEMMA ProductShows ==
  ASSUME NEW carry, NEW zero, NEW C, NEW Z, carry <=> C, zero <=> Z,
         ShowsAll(ProductFlags(carry, zero))
  PROVE  Shows("C", C) /\ Shows("Z", Z) /\ Keeps({"N", "V", "S", "H", "T", "I"})
<1> DEFINE g == ProductFlags(carry, zero)
<1>1. DOMAIN g = {"C", "Z"} /\ g["C"] = carry /\ g["Z"] = zero
  BY Zenon DEF ProductFlags
<1>2. DOMAIN SregBit = {"C", "Z", "N", "V", "S", "H", "T", "I"}
  BY SregBitIs
<1>3. ShowsAll(g)
  OBVIOUS
<1> HIDE DEF g
<1>4. {"N", "V", "S", "H", "T", "I"} \subseteq DOMAIN SregBit \ DOMAIN g
  BY <1>1, <1>2
<1>5. Shows("C", g["C"]) /\ Shows("Z", g["Z"])
  BY <1>1, <1>3, Zenon DEF ShowsAll
<1>6. Keeps({"N", "V", "S", "H", "T", "I"})
  BY <1>3, <1>4, Zenon DEF ShowsAll, Keeps
<1>7. QED
  BY <1>1, <1>5, <1>6, Zenon DEF Shows

LEMMA ProductFlagsSay == ASSUME NEW carry, NEW zero
                         PROVE  Says(Affect(ProductFlags(carry, zero)), ProductFlags(carry, zero))
<1>1. DOMAIN ProductFlags(carry, zero) = {"C", "Z"}
  BY Zenon DEF ProductFlags
<1>2. QED
  BY <1>1, SregBitIs, AffectSays

\* A word w goes to r1:r0, with the flags C and Z.
LEMMA ProductWord ==
  ASSUME TypeOK, Next, Fetches(Flash, pc), NEW w \in Word16, NEW carry, NEW zero,
         Execute(Code, Fetched(pc, memory), Decoded)
           = Flags(PutWord(Fetched(pc, memory), 0, w), Affect(ProductFlags(carry, zero)))
  PROVE  GoesOn({0, 1}) /\ memword(memory', 0) = w /\ ShowsAll(ProductFlags(carry, zero))
<1> DEFINE z == 0
<1>1. z # SREG /\ z + 1 # SREG /\ z # z + 1 /\ z + 1 = 1
  BY SMT DEF SREG
<1>2. Execute(Code, Fetched(pc, memory), Decoded)
        = Flags(PutWord(Fetched(pc, memory), z, w), Affect(ProductFlags(carry, zero)))
  OBVIOUS
<1>3. z = 0
  OBVIOUS
<1> HIDE DEF z
<1>4. Says(Affect(ProductFlags(carry, zero)), ProductFlags(carry, zero))
  BY ProductFlagsSay
<1>5. /\ GoesOn({z, z + 1}) /\ membyte(memory', z) = Low(w) /\ membyte(memory', z + 1) = High(w)
      /\ ShowsAll(ProductFlags(carry, zero))
  BY <1>1, <1>2, <1>4, WordStep
<1>6. memword(memory', z) = w
  BY <1>5, WordBytes DEF memword
<1>7. QED
  BY <1>1, <1>3, <1>5, <1>6, Zenon


\* The number fits a word.
Fits(num, signed) ==
  /\ num \in Int
  /\ IF signed THEN -32768 <= num /\ num < 32768 ELSE 0 <= num /\ num < 65536

LEMMA FitsAreNumbers == ASSUME NEW num, NEW signed \in BOOLEAN, Fits(num, signed) PROVE num \in Int
  BY SMT DEF Fits

\* The words of a product, as arithmetic has them.
ProductSays(num, signed, res) ==
  /\ res \in Word16
  /\ num = IF signed THEN Signed(res, 16) ELSE res
  /\ IsSet(res, 15) <=> (IF signed THEN num < 0 ELSE num > 32767)
  /\ res = 0 <=> num = 0

LEMMA ProductSigns ==
  ASSUME NEW num, NEW signed \in BOOLEAN, Fits(num, signed), NEW res, res = num % 65536
  PROVE  ProductSays(num, signed, res)
<1>1. /\ num \in Int /\ res \in Nat /\ res < 65536
      /\ signed => res = IF num < 0 THEN num + 65536 ELSE num
      /\ ~signed => res = num
      /\ signed => -32768 <= num /\ num < 32768
      /\ ~signed => 0 <= num
  BY SMT DEF Fits
<1>2. /\ Signed(res, 16) = (IF res >= 32768 THEN res - 65536 ELSE res)
      /\ IsSet(res, 15) <=> res >= 32768
  BY <1>1, SignedIs, TopBits, SMT
<1>3. QED
  BY <1>1, <1>2, SMT DEF Word16, ProductSays

\* One step of MUL, MULS or MULSU.
LEMMA ProductStepOf ==
  ASSUME TypeOK, Next, Fetches(Flash, pc), NEW num, NEW signed \in BOOLEAN, Fits(num, signed),
         NEW res, res = num % 65536,
         Execute(Code, Fetched(pc, memory), Decoded) = Mul(Fetched(pc, memory), res)
  PROVE  ProductStep(num, signed)
<1> DEFINE C == IF signed THEN num < 0 ELSE num > 32767
<1>1. /\ res \in Word16 /\ num = IF signed THEN Signed(res, 16) ELSE res
      /\ IsSet(res, 15) <=> C
      /\ res = 0 <=> num = 0
  <2>1. ProductSays(num, signed, res)
    BY ProductSigns
  <2>2. QED
    BY <2>1, SMT DEF ProductSays
<1>2. mul_flags16(res) = Affect(ProductFlags(IsSet(res, 15), res = 0))
  BY SMT DEF mul_flags16, ProductFlags
<1>3. Execute(Code, Fetched(pc, memory), Decoded)
        = Flags(PutWord(Fetched(pc, memory), 0, res), Affect(ProductFlags(IsSet(res, 15), res = 0)))
  BY <1>2, SMT DEF Mul
<1> HIDE DEF C
<1>4. GoesOn({0, 1}) /\ memword(memory', 0) = res /\ ShowsAll(ProductFlags(IsSet(res, 15), res = 0))
  BY <1>1, <1>3, ProductWord
<1> DEFINE carry == IsSet(res, 15)
           zero == res = 0
           Z == num = 0
<1>5. (carry <=> C) /\ (zero <=> Z) /\ ShowsAll(ProductFlags(carry, zero))
  BY <1>1, <1>4
<1> HIDE DEF carry, zero, Z
<1>6. Shows("C", C) /\ Shows("Z", Z) /\ Keeps({"N", "V", "S", "H", "T", "I"})
  BY <1>5, ProductShows
<1>7. QED
  BY <1>1, <1>4, <1>6 DEF ProductStep, C, Z

\* One step of FMUL, FMULS or FMULSU.
IsResidue(res, num) == num \in Int /\ res = num % 65536

LEMMA FractionStepOf ==
  ASSUME TypeOK, Next, Fetches(Flash, pc), NEW num, NEW res, IsResidue(res, num),
         Execute(Code, Fetched(pc, memory), Decoded) = Fmul(Fetched(pc, memory), res)
  PROVE  FractionStep(num)
<1> DEFINE C == num % 65536 > 32767
           w == (2 * res) % 65536
<1>1. num \in Int /\ res = num % 65536 /\ res \in Nat /\ res < 65536
  BY SMT DEF IsResidue
<1>2. w \in Word16 /\ w = (2 * num) % 65536
  BY <1>1, SMT DEF Word16
<1>3. IsSet(res, 15) <=> C
  BY <1>1, TopBits, SMT
<1>4. fmul_flags16(res) = Affect(ProductFlags(IsSet(res, 15), w = 0))
  BY SMT DEF fmul_flags16, ProductFlags
<1>5. Execute(Code, Fetched(pc, memory), Decoded)
        = Flags(PutWord(Fetched(pc, memory), 0, w), Affect(ProductFlags(IsSet(res, 15), w = 0)))
  BY <1>4, SMT DEF Fmul
<1> HIDE DEF C, w
<1>6. GoesOn({0, 1}) /\ memword(memory', 0) = w /\ ShowsAll(ProductFlags(IsSet(res, 15), w = 0))
  BY <1>2, <1>5, ProductWord
<1> DEFINE carry == IsSet(res, 15)
           zero == w = 0
           Z == w = 0
<1>7. (carry <=> C) /\ (zero <=> Z) /\ ShowsAll(ProductFlags(carry, zero))
  BY <1>3, <1>6
<1> HIDE DEF carry, zero, Z
<1>8. Shows("C", C) /\ Shows("Z", Z) /\ Keeps({"N", "V", "S", "H", "T", "I"})
  BY <1>7, ProductShows
<1>9. QED
  BY <1>2, <1>6, <1>8 DEF FractionStep, C, Z

LEMMA TimesFits ==
  ASSUME TypeOK
  PROVE  /\ Fits(Times(FALSE, FALSE), FALSE)
         /\ Fits(Times(TRUE, TRUE), TRUE) /\ Fits(Times(TRUE, FALSE), TRUE)
<1> DEFINE rd == Rd
           rr == Rr
           x == Signed(rd, 8)
           y == Signed(rr, 8)
<1>1. rd \in Byte /\ rr \in Byte
  BY DecodedTypes
<1> HIDE DEF rd, rr
<1>2. rd \in Nat /\ rd < 256 /\ rr \in Nat /\ rr < 256
  BY <1>1, ByteIs
<1>3. x \in Int /\ -128 <= x /\ x < 128 /\ y \in Int /\ -128 <= y /\ y < 128
  BY <1>2, SignedIs, SMT
<1> HIDE DEF x, y
<1>4. rd * rr \in Int /\ 0 <= rd * rr /\ rd * rr < 65536
  BY <1>2, ProductsFit, SMT
<1>5. x * y \in Int /\ -32768 <= x * y /\ x * y < 32768
  BY <1>3, ProductsFit, SMT
<1>6. x * rr \in Int /\ -32768 <= x * rr /\ x * rr < 32768
  BY <1>2, <1>3, ProductsFit, SMT
<1>7. Times(FALSE, FALSE) = rd * rr /\ Times(TRUE, TRUE) = x * y /\ Times(TRUE, FALSE) = x * rr
  BY DEF Times, x, y, rd, rr
<1> DEFINE p == rd * rr
           q == x * y
           r == x * rr
<1>8. /\ p \in Int /\ 0 <= p /\ p < 65536
      /\ q \in Int /\ -32768 <= q /\ q < 32768
      /\ r \in Int /\ -32768 <= r /\ r < 32768
  BY <1>4, <1>5, <1>6
<1>9. Times(FALSE, FALSE) = p /\ Times(TRUE, TRUE) = q /\ Times(TRUE, FALSE) = r
  BY <1>7
<1> HIDE DEF p, q, r
<1>10. Fits(p, FALSE) /\ Fits(q, TRUE) /\ Fits(r, TRUE)
  BY <1>8, SMT DEF Fits
<1>11. QED
  BY <1>9, <1>10, Zenon

\* One step of each.
LEMMA ProductSteps ==
  ASSUME TypeOK, Next, Fetches(Flash, pc)
  PROVE  /\ Code = "mul" => ProductStep(Times(FALSE, FALSE), FALSE)
         /\ Code = "muls" => ProductStep(Times(TRUE, TRUE), TRUE)
         /\ Code = "mulsu" => ProductStep(Times(TRUE, FALSE), TRUE)
         /\ Code = "fmul" => FractionStep(Times(FALSE, FALSE))
         /\ Code = "fmulsu" => FractionStep(Times(TRUE, ~IsSet(Decoded.instr, 3)))
<1> DEFINE c == Fetched(pc, memory)
<1>1. Reg(c, Decoded.ddddd) = Rd /\ Reg(c, Decoded.rrrrr) = Rr
  BY FetchedReads, Zenon
<1> HIDE DEF c
<1>2. \A s, u \in BOOLEAN : Product(c, Decoded, s, u) = Times(s, u) % 65536
  BY <1>1, SMT DEF Product, Times
<1>3. /\ Fits(Times(FALSE, FALSE), FALSE)
      /\ Fits(Times(TRUE, TRUE), TRUE) /\ Fits(Times(TRUE, FALSE), TRUE)
  BY TimesFits
<1>4. Times(FALSE, FALSE) \in Int /\ Times(TRUE, TRUE) \in Int /\ Times(TRUE, FALSE) \in Int
  BY <1>3, FitsAreNumbers, Zenon
<1>5. /\ Execute("mul", c, Decoded) = instr_mul(c, Decoded)
      /\ Execute("muls", c, Decoded) = instr_muls(c, Decoded)
      /\ Execute("mulsu", c, Decoded) = instr_mulsu(c, Decoded)
      /\ Execute("fmul", c, Decoded) = instr_fmul(c, Decoded)
      /\ Execute("fmulsu", c, Decoded) = instr_fmulsu(c, Decoded)
  BY Dispatch
<1>6. ASSUME NEW s \in BOOLEAN, NEW u \in BOOLEAN, NEW signed \in BOOLEAN, Fits(Times(s, u), signed),
             Execute(Code, c, Decoded) = Mul(c, Product(c, Decoded, s, u))
      PROVE  ProductStep(Times(s, u), signed)
  <2> DEFINE num == Times(s, u)
             res == Product(c, Decoded, s, u)
  <2>1. res = num % 65536 /\ Fits(num, signed) /\ Execute(Code, c, Decoded) = Mul(c, res)
    BY <1>2, <1>6
  <2> HIDE DEF num, res
  <2>2. ProductStep(num, signed)
    BY <2>1, ProductStepOf DEF c
  <2>3. QED
    BY <2>2 DEF num
<1>7. ASSUME NEW s \in BOOLEAN, NEW u \in BOOLEAN, Times(s, u) \in Int,
             Execute(Code, c, Decoded) = Fmul(c, Product(c, Decoded, s, u))
      PROVE  FractionStep(Times(s, u))
  <2> DEFINE num == Times(s, u)
             res == Product(c, Decoded, s, u)
  <2>1. IsResidue(res, num) /\ Execute(Code, c, Decoded) = Fmul(c, res)
    BY <1>2, <1>7 DEF IsResidue
  <2> HIDE DEF num, res
  <2>2. FractionStep(num)
    BY <2>1, FractionStepOf DEF c
  <2>3. QED
    BY <2>2 DEF num
<1>8. /\ Code = "mul" => ProductStep(Times(FALSE, FALSE), FALSE)
      /\ Code = "muls" => ProductStep(Times(TRUE, TRUE), TRUE)
      /\ Code = "mulsu" => ProductStep(Times(TRUE, FALSE), TRUE)
  BY <1>3, <1>5, <1>6, Zenon DEF instr_mul, instr_muls, instr_mulsu
<1>9. Code = "fmul" => FractionStep(Times(FALSE, FALSE))
  BY <1>4, <1>5, <1>7, Zenon DEF instr_fmul
<1>10. Code = "fmulsu" => FractionStep(Times(TRUE, ~IsSet(Decoded.instr, 3)))
  <2> DEFINE u == ~IsSet(Decoded.instr, 3)
  <2>1. u \in BOOLEAN
    BY DEF IsSet
  <2>2. instr_fmulsu(c, Decoded) = Fmul(c, Product(c, Decoded, TRUE, u))
    BY Zenon DEF instr_fmulsu
  <2> HIDE DEF u
  <2>3. Times(TRUE, u) \in Int
    BY <1>4, <2>1, Zenon
  <2>4. Code = "fmulsu" => FractionStep(Times(TRUE, u))
    BY <1>5, <1>7, <2>1, <2>2, <2>3, Zenon
  <2>5. QED
    BY <2>4 DEF u
<1>11. QED
  BY <1>8, <1>9, <1>10

-----------------------------------------------------------------------------
(* Logic.                                                                  *)

\* A byte is what its bits say.
LEMMA BitsBack == ASSUME NEW v \in Byte PROVE FromBits(BitsOf(v)) = v
<1> DEFINE b(n) == (v \div 2^n) % 2
<1>1. 2^0 = 1 /\ 2^1 = 2 /\ 2^2 = 4 /\ 2^3 = 8 /\ 2^4 = 16 /\ 2^5 = 32 /\ 2^6 = 64 /\ 2^7 = 128
  BY SMT
<1>2. v \in Nat /\ v < 256
  BY ByteIs
<1>3. \A n \in 0..7 : n \in BitsOf(v) <=> b(n) = 1
  BY Zenon DEF BitsOf, IsSet, Bit
<1>4. /\ b(0) = v % 2 /\ b(1) = (v \div 2) % 2 /\ b(2) = (v \div 4) % 2
      /\ b(3) = (v \div 8) % 2 /\ b(4) = (v \div 16) % 2 /\ b(5) = (v \div 32) % 2
      /\ b(6) = (v \div 64) % 2 /\ b(7) = (v \div 128) % 2
  BY <1>1, <1>2, SMT
<1> HIDE DEF b
<1>5. \A n \in 0..7 : b(n) \in {0, 1}
  BY <1>2, <1>4, SMT
<1>6. /\ Weight(BitsOf(v), 0) = b(0) /\ Weight(BitsOf(v), 1) = 2 * b(1)
      /\ Weight(BitsOf(v), 2) = 4 * b(2) /\ Weight(BitsOf(v), 3) = 8 * b(3)
      /\ Weight(BitsOf(v), 4) = 16 * b(4) /\ Weight(BitsOf(v), 5) = 32 * b(5)
      /\ Weight(BitsOf(v), 6) = 64 * b(6) /\ Weight(BitsOf(v), 7) = 128 * b(7)
  BY <1>1, <1>3, <1>5, SMT DEF Weight
<1>7. v = b(0) + 2 * b(1) + 4 * b(2) + 8 * b(3) + 16 * b(4) + 32 * b(5) + 64 * b(6) + 128 * b(7)
  <2>1. v = b(0) + 2 * (v \div 2) /\ v \div 2 = b(1) + 2 * (v \div 4)
    BY <1>2, <1>4, SMT
  <2>2. v \div 4 = b(2) + 2 * (v \div 8) /\ v \div 8 = b(3) + 2 * (v \div 16)
    BY <1>2, <1>4, SMT
  <2>3. v \div 16 = b(4) + 2 * (v \div 32) /\ v \div 32 = b(5) + 2 * (v \div 64)
    BY <1>2, <1>4, SMT
  <2>4. v \div 64 = b(6) + 2 * (v \div 128) /\ v \div 128 = b(7)
    BY <1>2, <1>4, SMT
  <2>5. QED
    BY <1>5, <2>1, <2>2, <2>3, <2>4, SMT
<1>8. QED
  BY <1>5, <1>6, <1>7, SMT DEF FromBits

\* A set of bits, as a byte: no bit, no number.
LEMMA BitsFrom ==
  ASSUME NEW S \in SUBSET (0..7)
  PROVE  /\ BitsOf(FromBits(S)) = S
         /\ FromBits(S) = 0 <=> S = {}
         /\ IsSet(FromBits(S), 7) <=> 7 \in S
<1>1. \A n \in 0..7 : IsSet(FromBits(S), n) <=> n \in S
  BY FromBitsIs
<1>2. BitsOf(FromBits(S)) = S
  BY <1>1, Zenon DEF BitsOf
<1>3. 2^0 = 1 /\ 2^1 = 2 /\ 2^2 = 4 /\ 2^3 = 8 /\ 2^4 = 16 /\ 2^5 = 32 /\ 2^6 = 64 /\ 2^7 = 128
  BY SMT
<1>4. FromBits(S) = 0 <=> \A n \in 0..7 : n \notin S
  BY <1>3, SMT DEF FromBits, Weight
<1>5. S = {} <=> \A n \in 0..7 : n \notin S
  OBVIOUS
<1>6. 7 \in 0..7
  BY SMT
<1>7. QED
  BY <1>1, <1>2, <1>4, <1>5, <1>6, Zenon

\* The complement of a byte has the other bits.
LEMMA NotIs == ASSUME NEW v, FromBits(BitsOf(v)) = v PROVE Not(v) = FromBits((0..7) \ BitsOf(v))
<1> DEFINE S == BitsOf(v)
           T == (0..7) \ S
<1>1. 2^0 = 1 /\ 2^1 = 2 /\ 2^2 = 4 /\ 2^3 = 8 /\ 2^4 = 16 /\ 2^5 = 32 /\ 2^6 = 64 /\ 2^7 = 128
  BY SMT
<1>2. \A n \in 0..7 : n \in T <=> n \notin S
  OBVIOUS
<1>3. v = FromBits(S)
  OBVIOUS
<1> HIDE DEF S, T
<1>4. FromBits(T) = 255 - FromBits(S)
  BY <1>1, <1>2, SMT DEF FromBits, Weight
<1>5. QED
  BY <1>3, <1>4, Zenon DEF Not, S, T

\* One step of an instruction that leaves the bits B in Rd.
LEMMA LogicStepOf ==
  ASSUME TypeOK, Next, Fetches(Flash, pc), NEW B \in SUBSET (0..7), NEW res, res = FromBits(B),
         NEW carry \in BOOLEAN, NEW p, NEW flags, Says(p, flags),
         {"V", "N", "S", "Z"} \subseteq DOMAIN flags, {"H", "T", "I"} \cap DOMAIN flags = {},
         flags["V"] = FALSE, flags["N"] = IsSet(res, 7), flags["S"] = IsSet(res, 7), flags["Z"] = (res = 0),
         IF "C" \in DOMAIN flags THEN flags["C"] = carry ELSE carry = SregHas("C"),
         Execute(Code, Fetched(pc, memory), Decoded) = Result(Fetched(pc, memory), Decoded, res, p)
  PROVE  LogicStep(B, carry)
<1>1. GoesOn({Decoded.ddddd}) /\ membyte(memory', Decoded.ddddd) = res /\ ShowsAll(flags)
  BY ByteStep
<1>2. BitsOf(res) = B /\ (res = 0 <=> B = {}) /\ (IsSet(res, 7) <=> 7 \in B)
  BY BitsFrom
<1>3. DOMAIN SregBit = {"C", "Z", "N", "V", "S", "H", "T", "I"}
  BY SregBitIs
<1>4. Shows("V", FALSE) /\ Shows("N", IsSet(res, 7)) /\ Shows("S", IsSet(res, 7)) /\ Shows("Z", res = 0)
  BY <1>1, Zenon DEF ShowsAll
<1>5. Keeps({"H", "T", "I"})
  <2>1. {"H", "T", "I"} \subseteq DOMAIN SregBit \ DOMAIN flags
    BY <1>3, Zenon
  <2>2. QED
    BY <1>1, <2>1, Zenon DEF ShowsAll, Keeps
<1>6. Shows("C", carry)
  <2>1. "C" \in DOMAIN SregBit
    BY <1>3, Zenon
  <2>2. QED
    BY <1>1, <2>1, Zenon DEF ShowsAll
<1>7. Shows("N", 7 \in B) /\ Shows("S", 7 \in B) /\ Shows("Z", B = {})
  BY <1>2, <1>4, Zenon DEF Shows
<1>8. QED
  BY <1>1, <1>2, <1>4, <1>5, <1>6, <1>7, Zenon DEF LogicStep

\* AND, OR, EOR and the immediate forms.
LEMMA LogicSteps ==
  ASSUME TypeOK, Next, Fetches(Flash, pc)
  PROVE  /\ Code = "and" => LogicStep(BitsOf(Rd) \cap BitsOf(Rr), SregHas("C"))
         /\ Code = "andi" => LogicStep(BitsOf(Rd) \cap BitsOf(Decoded.imm_u8), SregHas("C"))
         /\ Code = "or" => LogicStep(BitsOf(Rd) \cup BitsOf(Rr), SregHas("C"))
         /\ Code = "ori" => LogicStep(BitsOf(Rd) \cup BitsOf(Decoded.imm_u8), SregHas("C"))
         /\ Code = "xor" => LogicStep(OneOf(BitsOf(Rd), BitsOf(Rr)), SregHas("C"))
<1> DEFINE c == Fetched(pc, memory)
<1>1. Reg(c, Decoded.ddddd) = Rd /\ Reg(c, Decoded.rrrrr) = Rr
  BY FetchedReads, Zenon
<1>2. ASSUME NEW B \in SUBSET (0..7), Execute(Code, c, Decoded) = Logic(c, Decoded, FromBits(B))
      PROVE  LogicStep(B, SregHas("C"))
  <2> DEFINE res == FromBits(B)
             p == logic_flags8(res)
             flags == CountFlags(res, FALSE)
             carry == SregHas("C")
  <2>1. Says(p, flags)
    BY LogicSays
  <2>2. Execute(Code, c, Decoded) = Result(c, Decoded, res, p)
    BY <1>2, Zenon DEF Logic
  <2>3. DOMAIN flags = {"V", "N", "S", "Z"} /\ flags["V"] = FALSE /\ flags["N"] = IsSet(res, 7)
        /\ flags["S"] = (IsSet(res, 7) # FALSE) /\ flags["Z"] = (res = 0)
    BY Zenon DEF CountFlags
  <2>4. /\ flags["V"] = FALSE /\ flags["N"] = IsSet(res, 7) /\ flags["S"] = IsSet(res, 7)
        /\ flags["Z"] = (res = 0)
    BY <2>3, Zenon DEF IsSet
  <2>5. carry \in BOOLEAN
    BY Zenon DEF SregHas, IsSet
  <2>6. res = FromBits(B)
    OBVIOUS
  <2> HIDE DEF p, flags, res, carry
  <2>7. {"V", "N", "S", "Z"} \subseteq DOMAIN flags /\ {"H", "T", "I"} \cap DOMAIN flags = {}
        /\ "C" \notin DOMAIN flags
    BY <2>3
  <2>8. IF "C" \in DOMAIN flags THEN flags["C"] = carry ELSE carry = SregHas("C")
    BY <2>7 DEF carry
  <2>9. LogicStep(B, carry)
    BY <2>1, <2>2, <2>4, <2>5, <2>6, <2>7, <2>8, LogicStepOf
  <2>10. QED
    BY <2>9 DEF carry
<1> HIDE DEF c
<1>3. /\ Execute("and", c, Decoded) = instr_and(c, Decoded)
      /\ Execute("andi", c, Decoded) = instr_andi(c, Decoded)
      /\ Execute("or", c, Decoded) = instr_or(c, Decoded)
      /\ Execute("ori", c, Decoded) = instr_ori(c, Decoded)
      /\ Execute("xor", c, Decoded) = instr_xor(c, Decoded)
  BY Dispatch
<1>4. \A v : BitsOf(v) \in SUBSET (0..7)
  BY DEF BitsOf
<1>5. \A S, T \in SUBSET (0..7) : /\ S \cap T \in SUBSET (0..7)
                                  /\ S \cup T \in SUBSET (0..7) /\ OneOf(S, T) \in SUBSET (0..7)
  BY Zenon DEF OneOf
<1>6. /\ instr_and(c, Decoded) = Logic(c, Decoded, FromBits(BitsOf(Rd) \cap BitsOf(Rr)))
      /\ instr_andi(c, Decoded) = Logic(c, Decoded, FromBits(BitsOf(Rd) \cap BitsOf(Decoded.imm_u8)))
      /\ instr_or(c, Decoded) = Logic(c, Decoded, FromBits(BitsOf(Rd) \cup BitsOf(Rr)))
      /\ instr_ori(c, Decoded) = Logic(c, Decoded, FromBits(BitsOf(Rd) \cup BitsOf(Decoded.imm_u8)))
      /\ instr_xor(c, Decoded) = Logic(c, Decoded, FromBits(OneOf(BitsOf(Rd), BitsOf(Rr))))
  BY <1>1, Zenon DEF instr_and, instr_andi, instr_or, instr_ori, instr_xor, And, Or, Xor, OneOf
<1>7. QED
  BY <1>2, <1>3, <1>4, <1>5, <1>6, Zenon

\* COM sets C besides.
LEMMA ComSteps ==
  ASSUME TypeOK, Next, Fetches(Flash, pc), Code = "com"
  PROVE  LogicStep((0..7) \ BitsOf(Rd), TRUE)
<1> DEFINE c == Fetched(pc, memory)
           B == (0..7) \ BitsOf(Rd)
           res == FromBits(B)
           n == IsSet(res, 7)
           flags == [C |-> TRUE, V |-> FALSE, Z |-> res = 0, N |-> n, S |-> n]
           p == Affect(flags)
<1>1. Reg(c, Decoded.ddddd) = Rd
  BY FetchedReads, Zenon
<1>2. Rd \in Byte
  BY DecodedTypes
<1>3. Not(Rd) = res
  BY <1>2, BitsBack, NotIs, Zenon
<1> HIDE DEF c
<1>4. Execute("com", c, Decoded) = instr_com(c, Decoded)
  BY Dispatch
<1>5. instr_com(c, Decoded) = Result(c, Decoded, res, p)
  BY <1>1, <1>3, Zenon DEF instr_com
<1>6. DOMAIN flags = {"C", "V", "Z", "N", "S"} /\ flags["C"] = TRUE /\ flags["V"] = FALSE
      /\ flags["Z"] = (res = 0) /\ flags["N"] = IsSet(res, 7) /\ flags["S"] = IsSet(res, 7)
  OBVIOUS
<1>7. B \in SUBSET (0..7) /\ res = FromBits(B)
  OBVIOUS
<1> HIDE DEF B, res, flags
<1>8. /\ DOMAIN flags \subseteq DOMAIN SregBit /\ {"V", "N", "S", "Z"} \subseteq DOMAIN flags
      /\ {"H", "T", "I"} \cap DOMAIN flags = {} /\ "C" \in DOMAIN flags
  BY <1>6, SregBitIs
<1>9. Says(p, flags)
  BY <1>8, AffectSays
<1>10. IF "C" \in DOMAIN flags THEN flags["C"] = TRUE ELSE TRUE = SregHas("C")
  BY <1>6, <1>8
<1> HIDE DEF p
<1>11. LogicStep(B, TRUE)
  BY <1>4, <1>5, <1>6, <1>7, <1>8, <1>9, <1>10, LogicStepOf DEF c
<1>12. QED
  BY <1>11 DEF B

-----------------------------------------------------------------------------
(* The theorem.                                                            *)

\* Whatever the program, the machine and the operands, every instruction of instr.c that
\* computes does what arithmetic on numbers says, in its result and in each of its flags.
THEOREM ArithmeticIsExact == ASSUME DesTyped PROVE Spec => ArithmeticExact
<1>1. TypeOK /\ [Next]_vars => [Fetches(Flash, pc) => ArithmeticStep]_vars
  <2>1. ASSUME TypeOK, Next, Fetches(Flash, pc) PROVE ArithmeticStep
    BY <2>1, AddSteps, SubImmediateSteps, SubRegisterSteps, IncSteps, DecSteps, NegSteps, HalfSteps,
       LogicSteps, ComSteps, WordSteps, ProductSteps, Zenon DEF ArithmeticStep
  <2>2. QED
    BY <2>1
<1>2. Spec => []TypeOK
  BY CpuTypes
<1>3. QED
  BY <1>1, <1>2, PTL DEF Spec, ArithmeticExact
=============================================================================
