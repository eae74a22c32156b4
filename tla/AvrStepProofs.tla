--------------------------- MODULE AvrStepProofs ----------------------------
(***************************************************************************)
(* Proofs of the properties of AvrSteps for every image, every machine and *)
(* every setting of the knobs: the bytes a step may write, the end of the  *)
(* process, the pointers, calls and returns, transfers.                    *)
(***************************************************************************)
EXTENDS AvrArithProofs

-----------------------------------------------------------------------------
(* Bytes and flags.                                                        *)

\* emulate1() leaves SREG as it is when the handler asked for no flag.
LEMMA NoFlags == ASSUME NEW v \in Byte PROVE ApplyFlags(v, {}, {}) = v
<1>1. (BitsOf(v) \ {}) \cup {} = BitsOf(v)
  OBVIOUS
<1>2. QED
  BY <1>1, BitsBack, Zenon DEF ApplyFlags

\* C, Z, N, V, S and H: what arithmetic may ask for.
Calc == 0..5

Within(f, F) == f.set \subseteq F /\ f.clr \subseteq F

\* A chain that names none but those.
LEMMA AffectWithin ==
  ASSUME NEW flags, DOMAIN flags \subseteq {"C", "Z", "N", "V", "S", "H"}
  PROVE  Within(Affect(flags), Calc)
<1>1. \A f \in {"C", "Z", "N", "V", "S", "H"} : SregBit[f] \in Calc
  BY SregBitIs, SMT DEF Calc
<1>2. QED
  BY <1>1 DEF Affect, Within

\* The helpers of instr.c are such chains.
LEMMA HelpersWithin ==
  ASSUME NEW res, NEW rd, NEW rr
  PROVE  /\ Within(adc_flags8(res, rd, rr), Calc) /\ Within(sub_flags8(res, rd, rr), Calc)
         /\ Within(adiw_flags16(res, rd), Calc) /\ Within(sbiw_flags16(res, rd), Calc)
         /\ Within(asr_flags8(res, rd), Calc) /\ Within(logic_flags8(res), Calc)
         /\ Within(mul_flags16(res), Calc) /\ Within(fmul_flags16(res), Calc)
<1>1. Within(adc_flags8(res, rd, rr), Calc)
  BY AffectWithin DEF adc_flags8
<1>2. Within(sub_flags8(res, rd, rr), Calc)
  BY AffectWithin DEF sub_flags8
<1>3. Within(adiw_flags16(res, rd), Calc)
  BY AffectWithin DEF adiw_flags16
<1>4. Within(sbiw_flags16(res, rd), Calc)
  BY AffectWithin DEF sbiw_flags16
<1>5. Within(asr_flags8(res, rd), Calc)
  BY AffectWithin DEF asr_flags8
<1>6. Within(logic_flags8(res), Calc)
  BY AffectWithin DEF logic_flags8
<1>7. Within(mul_flags16(res), Calc) /\ Within(fmul_flags16(res), Calc)
  BY AffectWithin DEF mul_flags16, fmul_flags16
<1>8. QED
  BY <1>1, <1>2, <1>3, <1>4, <1>5, <1>6, <1>7

-----------------------------------------------------------------------------
(* From the handler to the step.                                           *)

\* The step after a handler that left machine r and did not end the process.
Ran(r) ==
  LET next == r.pc + InstrSize(Flash, pc)
  IN  /\ trapped' <=> r.skip /\ ~Fetches(Flash, next)
      /\ ~trapped' => pc' = IF r.skip THEN next + InstrSize(Flash, next) ELSE next
      /\ membyte(memory', SREG) = ApplyFlags(membyte(r.mem, SREG), r.set, r.clr)
      /\ \A a : a # SREG => membyte(memory', a) = membyte(r.mem, a)

\* Retire after such a handler.
LEMMA RetireRan ==
  ASSUME NEW r, r.trap = FALSE, r.set \cap r.clr = {}, r.flash = Flash, r.skip \in BOOLEAN,
         r.instr_size = InstrSize(Flash, pc),
         pc' = Retire(r).pc, memory' = Retire(r).mem, trapped' = Retire(r).trap
  PROVE  Ran(r)
<1> DEFINE next == r.pc + InstrSize(Flash, pc)
           sreg == ApplyFlags(membyte(r.mem, SREG), r.set, r.clr)
           mem  == Store(r.mem, SREG, sreg)
           bad  == r.skip /\ ~Fetches(Flash, next)
           dest == IF r.skip THEN next + InstrSize(Flash, next) ELSE next
<1>1. Retire(r) = IF bad THEN Trapped(next, mem, TRUE)
                  ELSE [trap |-> FALSE, done |-> TRUE, mem |-> mem, pc |-> dest]
  BY Zenon DEF Retire, BadSkip, SkipTo, Reg
<1> HIDE DEF mem, next, dest, bad
<1>2. /\ Trapped(next, mem, TRUE).trap = TRUE /\ Trapped(next, mem, TRUE).mem = mem
  BY DEF Trapped
<1>3. /\ bad => trapped' = TRUE /\ memory' = mem
      /\ ~bad => trapped' = FALSE /\ memory' = mem /\ pc' = dest
  <2>1. CASE bad
    <3>1. Retire(r) = Trapped(next, mem, TRUE)
      BY <1>1, <2>1, Zenon
    <3>2. QED
      BY <1>2, <2>1, <3>1, Zenon
  <2>2. CASE ~bad
    <3>1. Retire(r) = [trap |-> FALSE, done |-> TRUE, mem |-> mem, pc |-> dest]
      BY <1>1, <2>2, Zenon
    <3>2. QED
      BY <2>2, <3>1
  <2>3. QED
    BY <2>1, <2>2, Zenon
<1>4. (trapped' <=> bad) /\ (~trapped' => pc' = dest) /\ memory' = mem
  BY <1>3 DEF bad
<1>5. membyte(mem, SREG) = sreg /\ \A a : a # SREG => membyte(mem, a) = membyte(r.mem, a)
  <2> HIDE DEF sreg
  <2>1. \A a : membyte(Store(r.mem, SREG, sreg), a) = IF a = SREG THEN sreg ELSE membyte(r.mem, a)
    BY ReadStore
  <2>2. QED
    BY <2>1, Zenon DEF mem
<1>6. QED
  BY <1>4, <1>5, Zenon DEF Ran, next, bad, dest

\* Either the handler ends the process, because the instruction is not defined, or it did
\* its work and the step goes on from there.
LEMMA StepOf ==
  ASSUME DesTyped, TypeOK, Next, Fetches(Flash, pc),
         NEW r, r = Execute(Code, Fetched(pc, memory), Decoded)
  PROVE  \/ NotDefined(pc) /\ r.trap = TRUE /\ trapped' = TRUE
         \/ r.trap = FALSE /\ IsMemory(r.mem) /\ Ran(r)
<1> DEFINE c == Fetched(pc, memory)
<1>1. pc \in Int /\ IsMemory(memory)
  BY DEF TypeOK
<1>2. Stops(c, r, NotDefined(pc))
  BY <1>1, ExecuteStops, Zenon DEF Code, Decoded
<1>3. pc' = Retire(r).pc /\ memory' = Retire(r).mem /\ trapped' = Retire(r).trap
  BY StepRetires
<1>4. c.flash = Flash /\ c.instr_size = InstrSize(Flash, pc) /\ "trap" \in DOMAIN c
  BY DEF Fetched, InstrSize
<1> HIDE DEF c
<1>5. CASE Fine(c, r)
  <2>1. /\ r.trap = FALSE /\ r.set \cap r.clr = {} /\ r.flash = Flash /\ r.skip \in BOOLEAN
        /\ r.instr_size = InstrSize(Flash, pc) /\ IsMemory(r.mem)
    BY <1>4, <1>5 DEF Fine, Same, IsMachine
  <2>2. QED
    BY <1>3, <2>1, RetireRan
<1>6. CASE NotDefined(pc) /\ r = Trap(c)
  <2>1. r.trap = TRUE
    BY <1>4, <1>6 DEF Trap
  <2>2. Retire(r) = Trapped(r.pc_start, r.mem, FALSE)
    BY <2>1, Zenon DEF Retire
  <2>3. trapped' = TRUE
    BY <1>3, <2>2 DEF Trapped
  <2>4. QED
    BY <1>6, <2>1, <2>3
<1>7. QED
  BY <1>2, <1>5, <1>6, Zenon DEF Stops

\* Handlers that ask for no flag: memory is as they left it.
LEMMA QuietStep ==
  ASSUME NEW r, IsMemory(r.mem), Ran(r), r.set = {}, r.clr = {}, NEW a
  PROVE  membyte(memory', a) = membyte(r.mem, a)
<1>1. membyte(r.mem, SREG) \in Byte
  BY ReadType
<1>2. ApplyFlags(membyte(r.mem, SREG), {}, {}) = membyte(r.mem, SREG)
  BY <1>1, NoFlags
<1>3. QED
  BY <1>2, Zenon DEF Ran

-----------------------------------------------------------------------------
(* The bytes a handler writes.                                             *)

\* Machine r is c but for the bytes at S, with flags of F at most to be set or cleared.
Touches(c, r, S, F) ==
  /\ \A a : a \notin S => membyte(r.mem, a) = membyte(c.mem, a)
  /\ r.set \subseteq F /\ r.clr \subseteq F /\ r.skip = c.skip

\* The same, and the next instruction is the one that follows.
Straight(c, r, S, F) == Touches(c, r, S, F) /\ r.pc = c.pc

\* A record of a machine's fields, with no flags asked for yet.
Plain(c) ==
  /\ DOMAIN c = {"pc", "pc_start", "instr_size", "mem", "flash", "k", "skip", "set", "clr",
                 "trap"}
  /\ c.set = {} /\ c.clr = {}

\* The machine a handler is given is one.
LEMMA IdlePlain == ASSUME NEW c, Idle(c) PROVE Plain(c)
BY DEF Idle, IsMachine, Plain

\* Machines that differ in memory alone.
LEMMA WithMemory ==
  ASSUME NEW c, Plain(c), NEW m
  PROVE  LET r == [c EXCEPT !.mem = m]
         IN  /\ r.mem = m /\ r.set = c.set /\ r.clr = c.clr /\ r.skip = c.skip /\ r.pc = c.pc
             /\ r.k = c.k /\ Plain(r)
BY DEF Plain

\* Memory m, which is that of c but for the bytes at S.
LEMMA MemoryStraight ==
  ASSUME NEW c, Plain(c), NEW m, NEW S, NEW F,
         \A a : a \notin S => membyte(m, a) = membyte(c.mem, a)
  PROVE  Straight(c, [c EXCEPT !.mem = m], S, F)
<1> DEFINE r == [c EXCEPT !.mem = m]
<1>1. r.mem = m /\ r.set = c.set /\ r.clr = c.clr /\ r.skip = c.skip /\ r.pc = c.pc
  BY WithMemory, Zenon
<1>2. c.set = {} /\ c.clr = {}
  BY DEF Plain
<1> HIDE DEF r
<1>3. Straight(c, r, S, F)
  BY <1>1, <1>2 DEF Straight, Touches
<1>4. QED
  BY <1>3, Zenon DEF r

\* A handler that does nothing.
LEMMA SelfStraight == ASSUME NEW c, Plain(c), NEW S, NEW F PROVE Straight(c, c, S, F)
BY DEF Plain, Straight, Touches

\* One byte.
LEMMA PutStraight ==
  ASSUME NEW c, Plain(c), NEW a, NEW v, NEW S, a \in S, NEW F
  PROVE  Straight(c, Put(c, a, v), S, F)
<1> DEFINE m == Store(c.mem, a, v)
<1>1. \A x : x \notin S => membyte(m, x) = membyte(c.mem, x)
  BY ReadStore
<1>2. Put(c, a, v) = [c EXCEPT !.mem = m]
  BY DEF Put
<1> HIDE DEF m
<1>3. Straight(c, [c EXCEPT !.mem = m], S, F)
  BY <1>1, MemoryStraight
<1>4. QED
  BY <1>2, <1>3, Zenon

\* Two bytes.
LEMMA PutWordStraight ==
  ASSUME NEW c, Plain(c), NEW a, NEW w, NEW S, a \in S, a + 1 \in S, NEW F
  PROVE  Straight(c, PutWord(c, a, w), S, F)
<1> DEFINE m == memwriteword(c.mem, a, w)
<1>1. ASSUME NEW x, x \notin S PROVE membyte(m, x) = membyte(c.mem, x)
  <2>1. x # a /\ x # a + 1
    BY <1>1
  <2>2. membyte(m, x) = IF x = a + 1 THEN High(w) ELSE IF x = a THEN Low(w) ELSE membyte(c.mem, x)
    BY ReadWord
  <2>3. QED
    BY <2>1, <2>2
<1>2. PutWord(c, a, w) = [c EXCEPT !.mem = m]
  BY DEF PutWord
<1> HIDE DEF m
<1>3. Straight(c, [c EXCEPT !.mem = m], S, F)
  BY <1>1, MemoryStraight
<1>4. QED
  BY <1>2, <1>3, Zenon

\* Flags, after bytes.
LEMMA FlagsStraight ==
  ASSUME NEW c, Plain(c), NEW s, DOMAIN s = DOMAIN c, NEW S, NEW F, Straight(c, s, S, F),
         NEW f, Within(f, F)
  PROVE  Straight(c, Flags(s, f), S, F)
<1>1. /\ Flags(s, f).mem = s.mem /\ Flags(s, f).skip = s.skip /\ Flags(s, f).pc = s.pc
      /\ Flags(s, f).set = s.set \cup f.set /\ Flags(s, f).clr = s.clr \cup f.clr
  BY DEF Plain, Flags
<1>2. QED
  BY <1>1, Zenon DEF Straight, Touches, Within

\* A byte, and its flags.
LEMMA ResultStraight ==
  ASSUME NEW c, Plain(c), NEW a, NEW v, NEW S, a \in S, NEW F, NEW f, Within(f, F)
  PROVE  Straight(c, Flags(Put(c, a, v), f), S, F)
<1>1. Straight(c, Put(c, a, v), S, F)
  BY PutStraight
<1>2. DOMAIN Put(c, a, v) = DOMAIN c
  BY DEF Plain, Put
<1>3. QED
  BY <1>1, <1>2, FlagsStraight

\* A word, and its flags.
LEMMA WordStraight ==
  ASSUME NEW c, Plain(c), NEW a, NEW w, NEW S, a \in S, a + 1 \in S, NEW F, NEW f, Within(f, F)
  PROVE  Straight(c, Flags(PutWord(c, a, w), f), S, F)
<1>1. Straight(c, PutWord(c, a, w), S, F)
  BY PutWordStraight
<1>2. DOMAIN PutWord(c, a, w) = DOMAIN c
  BY DEF Plain, PutWord
<1>3. QED
  BY <1>1, <1>2, FlagsStraight

-----------------------------------------------------------------------------
(* The handlers that compute.                                              *)

\* A result in Rd, with flags.
LEMMA ComputeStraight ==
  ASSUME NEW c, Plain(c), NEW d
  PROVE  LET rd == {d.ddddd}
         IN  /\ Straight(c, instr_adc(c, d), rd, Calc) /\ Straight(c, instr_and(c, d), rd, Calc)
             /\ Straight(c, instr_andi(c, d), rd, Calc) /\ Straight(c, instr_or(c, d), rd, Calc)
             /\ Straight(c, instr_ori(c, d), rd, Calc) /\ Straight(c, instr_xor(c, d), rd, Calc)
             /\ Straight(c, instr_com(c, d), rd, Calc) /\ Straight(c, instr_neg(c, d), rd, Calc)
             /\ Straight(c, instr_inc(c, d), rd, Calc) /\ Straight(c, instr_dec(c, d), rd, Calc)
             /\ Straight(c, instr_asr(c, d), rd, Calc) /\ Straight(c, instr_lsr(c, d), rd, Calc)
             /\ Straight(c, instr_ror(c, d), rd, Calc)
<1> DEFINE rd == {d.ddddd}
<1>1. \A res, f : Within(f, Calc) => Straight(c, Result(c, d, res, f), rd, Calc)
  BY ResultStraight DEF Result
<1> HIDE DEF rd
<1>2. Straight(c, instr_adc(c, d), rd, Calc)
  <2> DEFINE x   == Reg(c, d.ddddd)
             rr  == Reg(c, d.rrrrr)
             res == (x + rr + IF IsSet(d.instr, 12) THEN CarryIn(c) ELSE 0) % 256
  <2>1. instr_adc(c, d) = Result(c, d, res, adc_flags8(res, x, rr))
    BY Zenon DEF instr_adc
  <2> HIDE DEF x, rr, res
  <2>2. QED
    BY <1>1, <2>1, HelpersWithin, Zenon
<1>3. \A res : Straight(c, Logic(c, d, res), rd, Calc)
  BY <1>1, HelpersWithin, Zenon DEF Logic
<1>4. /\ Straight(c, instr_and(c, d), rd, Calc) /\ Straight(c, instr_andi(c, d), rd, Calc)
      /\ Straight(c, instr_or(c, d), rd, Calc) /\ Straight(c, instr_ori(c, d), rd, Calc)
      /\ Straight(c, instr_xor(c, d), rd, Calc)
  BY <1>3, Zenon DEF instr_and, instr_andi, instr_or, instr_ori, instr_xor
<1>5. Straight(c, instr_com(c, d), rd, Calc)
  <2> DEFINE res == Not(Reg(c, d.ddddd))
             n   == IsSet(res, 7)
             fl  == [C |-> TRUE, V |-> FALSE, Z |-> res = 0, N |-> n, S |-> n]
  <2>1. instr_com(c, d) = Result(c, d, res, Affect(fl))
    BY Zenon DEF instr_com
  <2>2. Within(Affect(fl), Calc)
    BY AffectWithin
  <2> HIDE DEF fl, res
  <2>3. QED
    BY <1>1, <2>1, <2>2, Zenon
<1>6. Straight(c, instr_neg(c, d), rd, Calc)
  <2> DEFINE x   == Reg(c, d.ddddd)
             res == (0 - x) % 256
             n   == IsSet(res, 7)
             v   == res = 128
             fl  == [Z |-> res = 0, C |-> res # 0, N |-> n, V |-> v,
                     H |-> IsSet(res, 3) \/ IsSet(x, 3), S |-> n # v]
  <2>1. instr_neg(c, d) = Result(c, d, res, Affect(fl))
    BY Zenon DEF instr_neg
  <2>2. Within(Affect(fl), Calc)
    BY AffectWithin
  <2> HIDE DEF fl, res
  <2>3. QED
    BY <1>1, <2>1, <2>2, Zenon
<1>7. SregBit.S \in Calc /\ SregBit.V \in Calc
  BY DEF SregBit, Calc
<1>8. Straight(c, instr_inc(c, d), rd, Calc)
  <2> DEFINE up == (Reg(c, d.ddddd) + 1) % 256
             f == logic_flags8(up)
             g == [set |-> (f.set \ {SregBit.S}) \cup {SregBit.V},
                   clr |-> (f.clr \ {SregBit.V}) \cup {SregBit.S}]
  <2>1. instr_inc(c, d) = Result(c, d, up, IF up = 128 THEN g ELSE f)
    BY Zenon DEF instr_inc
  <2>2. Within(f, Calc)
    BY HelpersWithin
  <2> HIDE DEF f
  <2>3. Within(g, Calc)
    BY <1>7, <2>2 DEF Within
  <2> HIDE DEF g, up
  <2>4. Within(IF up = 128 THEN g ELSE f, Calc)
    BY <2>2, <2>3, Zenon
  <2>5. QED
    BY <1>1, <2>1, <2>4, Zenon
<1>9. Straight(c, instr_dec(c, d), rd, Calc)
  <2> DEFINE down == (Reg(c, d.ddddd) - 1) % 256
             f == logic_flags8(down)
             g == [set |-> f.set \cup {SregBit.V, SregBit.S},
                   clr |-> f.clr \ {SregBit.V, SregBit.S}]
  <2>1. instr_dec(c, d) = Result(c, d, down, IF down = 127 THEN g ELSE f)
    BY Zenon DEF instr_dec
  <2>2. Within(f, Calc)
    BY HelpersWithin
  <2> HIDE DEF f
  <2>3. Within(g, Calc)
    BY <1>7, <2>2 DEF Within
  <2> HIDE DEF g, down
  <2>4. Within(IF down = 127 THEN g ELSE f, Calc)
    BY <2>2, <2>3, Zenon
  <2>5. QED
    BY <1>1, <2>1, <2>4, Zenon
<1>10. \A top : Straight(c, Shift(c, d, top), rd, Calc)
  BY <1>1, HelpersWithin, Zenon DEF Shift
<1>11. /\ Straight(c, instr_asr(c, d), rd, Calc) /\ Straight(c, instr_lsr(c, d), rd, Calc)
       /\ Straight(c, instr_ror(c, d), rd, Calc)
  BY <1>10, Zenon DEF instr_asr, instr_lsr, instr_ror
<1>12. QED
  BY <1>2, <1>4, <1>5, <1>6, <1>8, <1>9, <1>11, Zenon DEF rd

\* Subtractions store where they are no comparison.
LEMMA SubStraight ==
  ASSUME NEW c, Plain(c), NEW d
  PROVE  /\ Straight(c, instr_cpc(c, d),
                     IF Field(d.instr, 11, 10) = 1 THEN {} ELSE {d.ddddd}, Calc)
         /\ Straight(c, instr_cpi(c, d),
                     IF Field(d.instr, 14, 13) = 2 THEN {d.ddddd} ELSE {}, Calc)
<1>1. ASSUME NEW f, Within(f, Calc), NEW store, NEW res
      PROVE  Straight(c, Flags(IF store THEN Put(c, d.ddddd, res) ELSE c, f),
                      IF store THEN {d.ddddd} ELSE {}, Calc)
  <2>1. Straight(c, Flags(Put(c, d.ddddd, res), f), {d.ddddd}, Calc)
    BY <1>1, ResultStraight
  <2>2. Straight(c, Flags(c, f), {}, Calc)
    BY <1>1, SelfStraight, FlagsStraight
  <2>3. QED
    BY <2>1, <2>2, Zenon
<1>2. Straight(c, instr_cpc(c, d), IF Field(d.instr, 11, 10) # 1 THEN {d.ddddd} ELSE {}, Calc)
  <2> DEFINE rd  == Reg(c, d.ddddd)
             rr  == Reg(c, d.rrrrr)
             res == (rd - rr - IF IsSet(d.instr, 12) THEN 0 ELSE CarryIn(c)) % 256
             f   == sub_flags8(res, rd, rr)
             g   == [f EXCEPT !.set = @ \ {SregBit.Z}]
             store == Field(d.instr, 11, 10) # 1
  <2>1. instr_cpc(c, d) = Flags(IF store THEN Put(c, d.ddddd, res) ELSE c, g)
    BY Zenon DEF instr_cpc
  <2> HIDE DEF res, rd, rr
  <2>2. Within(f, Calc) /\ DOMAIN f = {"set", "clr"}
    BY HelpersWithin, SubFlagsClean
  <2> HIDE DEF f
  <2>3. Within(g, Calc)
    BY <2>2 DEF Within
  <2> HIDE DEF g, store
  <2>4. Straight(c, instr_cpc(c, d), IF store THEN {d.ddddd} ELSE {}, Calc)
    BY <1>1, <2>1, <2>3, Zenon
  <2>5. QED
    BY <2>4, Zenon DEF store
<1>3. Straight(c, instr_cpi(c, d), IF Field(d.instr, 14, 13) = 2 THEN {d.ddddd} ELSE {}, Calc)
  <2> DEFINE rd  == Reg(c, d.ddddd)
             res == (rd - d.imm_u8 - IF IsSet(d.instr, 12) THEN 0 ELSE CarryIn(c)) % 256
             f   == sub_flags8(res, rd, d.imm_u8)
             store == Field(d.instr, 14, 13) = 2
  <2>1. instr_cpi(c, d) = Flags(IF store THEN Put(c, d.ddddd, res) ELSE c, f)
    BY Zenon DEF instr_cpi
  <2>2. Within(f, Calc)
    BY HelpersWithin
  <2> HIDE DEF res, f, store
  <2>3. Straight(c, instr_cpi(c, d), IF store THEN {d.ddddd} ELSE {}, Calc)
    BY <1>1, <2>1, <2>2, Zenon
  <2>4. QED
    BY <2>3, Zenon DEF store
<1>4. QED
  BY <1>2, <1>3, Zenon

\* Words: ADIW, SBIW and the products.
LEMMA WordsStraight ==
  ASSUME NEW c, Plain(c), NEW d
  PROVE  LET pair == {WordPair(d), WordPair(d) + 1}
         IN  /\ Straight(c, instr_adiw(c, d), pair, Calc) /\ Straight(c, instr_sbiw(c, d), pair, Calc)
             /\ Straight(c, instr_mul(c, d), {0, 1}, Calc) /\ Straight(c, instr_muls(c, d), {0, 1}, Calc)
             /\ Straight(c, instr_mulsu(c, d), {0, 1}, Calc) /\ Straight(c, instr_fmul(c, d), {0, 1}, Calc)
             /\ Straight(c, instr_fmulsu(c, d), {0, 1}, Calc)
<1> DEFINE pair == {WordPair(d), WordPair(d) + 1}
<1>1. \A w, f : Within(f, Calc) => Straight(c, Flags(PutWord(c, WordPair(d), w), f), pair, Calc)
  BY WordStraight
<1> HIDE DEF pair
<1>2. Straight(c, instr_adiw(c, d), pair, Calc) /\ Straight(c, instr_sbiw(c, d), pair, Calc)
  BY <1>1, HelpersWithin DEF instr_adiw, instr_sbiw
<1>3. \A w, f : Within(f, Calc) => Straight(c, Flags(PutWord(c, 0, w), f), {0, 1}, Calc)
  <2>1. 0 \in {0, 1} /\ 0 + 1 \in {0, 1}
    OBVIOUS
  <2>2. QED
    BY <2>1, WordStraight, Zenon
<1>4. \A res : Straight(c, Mul(c, res), {0, 1}, Calc) /\ Straight(c, Fmul(c, res), {0, 1}, Calc)
  BY <1>3, HelpersWithin DEF Mul, Fmul
<1>5. QED
  BY <1>2, <1>4, Zenon
  DEF pair, instr_mul, instr_muls, instr_mulsu, instr_fmul, instr_fmulsu

-----------------------------------------------------------------------------
(* The handlers that move data.                                            *)

\* What a second step writes comes on top of the first.
LEMMA StraightTrans ==
  ASSUME NEW c, NEW s, NEW r, NEW S, NEW F, Straight(c, s, S, F), Straight(s, r, S, F)
  PROVE  Straight(c, r, S, F)
BY Zenon DEF Straight, Touches

\* Putting a byte or a word changes nothing but memory.
LEMMA PutPlain ==
  ASSUME NEW c, Plain(c), NEW a, NEW v
  PROVE  /\ Plain(Put(c, a, v)) /\ Put(c, a, v).k = c.k /\ Put(c, a, v).mem = Store(c.mem, a, v)
         /\ Plain(PutWord(c, a, v)) /\ PutWord(c, a, v).k = c.k
         /\ PutWord(c, a, v).mem = memwriteword(c.mem, a, v)
<1> DEFINE m == Store(c.mem, a, v)
           w == memwriteword(c.mem, a, v)
<1>1. Put(c, a, v) = [c EXCEPT !.mem = m] /\ PutWord(c, a, v) = [c EXCEPT !.mem = w]
  BY DEF Put, PutWord
<1> HIDE DEF m, w
<1>2. /\ [c EXCEPT !.mem = m].mem = m /\ [c EXCEPT !.mem = m].k = c.k
      /\ Plain([c EXCEPT !.mem = m])
  BY WithMemory
<1>3. /\ [c EXCEPT !.mem = w].mem = w /\ [c EXCEPT !.mem = w].k = c.k
      /\ Plain([c EXCEPT !.mem = w])
  BY WithMemory
<1>4. QED
  BY <1>1, <1>2, <1>3, Zenon DEF m, w

\* Registers, ports and direct addresses.
LEMMA MoveStraight ==
  ASSUME NEW c, Plain(c), NEW d
  PROVE  LET rd   == {d.ddddd}
             a    == Extend(c, d.imm_u16, RAMPD)
             pair == {2 * (d.ddddd - 16), 2 * (d.ddddd - 16) + 1}
         IN  /\ Straight(c, instr_swap(c, d), rd, {}) /\ Straight(c, instr_bld(c, d), rd, {})
             /\ Straight(c, instr_mov(c, d), rd, {}) /\ Straight(c, instr_ldi(c, d), rd, {})
             /\ Straight(c, instr_in(c, d), rd, {}) /\ Straight(c, instr_lds(c, d), rd, {})
             /\ Straight(c, instr_elpm(c, d), {0}, {})
             /\ Straight(c, instr_out(c, d), {IoPort(d)}, {})
             /\ Straight(c, instr_cbisbi(c, d), {IoBit(d)}, {})
             /\ Straight(c, instr_sts(c, d), {IF c.k.pc_mem_max_256b THEN a % 256 ELSE a}, {})
             /\ Straight(c, instr_movw(c, d), pair, {}) /\ Straight(c, instr_nop(c, d), {}, {})
<1>1. \A a, v : Straight(c, Put(c, a, v), {a}, {})
  BY PutStraight
<1>2. \A a, w : Straight(c, PutWord(c, a, w), {a, a + 1}, {})
  BY PutWordStraight
<1>3. /\ Straight(c, instr_swap(c, d), {d.ddddd}, {}) /\ Straight(c, instr_bld(c, d), {d.ddddd}, {})
      /\ Straight(c, instr_mov(c, d), {d.ddddd}, {}) /\ Straight(c, instr_ldi(c, d), {d.ddddd}, {})
      /\ Straight(c, instr_in(c, d), {d.ddddd}, {}) /\ Straight(c, instr_lds(c, d), {d.ddddd}, {})
      /\ Straight(c, instr_elpm(c, d), {0}, {})
  BY <1>1, Zenon DEF instr_swap, instr_bld, instr_mov, instr_ldi, instr_in, instr_lds, instr_elpm
<1>4. /\ Straight(c, instr_out(c, d), {IoPort(d)}, {})
      /\ Straight(c, instr_cbisbi(c, d), {IoBit(d)}, {})
  BY <1>1, Zenon DEF instr_out, instr_cbisbi
<1>5. Straight(c, instr_sts(c, d),
               {IF c.k.pc_mem_max_256b THEN Extend(c, d.imm_u16, RAMPD) % 256
                ELSE Extend(c, d.imm_u16, RAMPD)}, {})
  <2> DEFINE at == IF c.k.pc_mem_max_256b THEN Extend(c, d.imm_u16, RAMPD) % 256
                   ELSE Extend(c, d.imm_u16, RAMPD)
  <2>1. instr_sts(c, d) = Put(c, at, Reg(c, d.ddddd))
    BY Zenon DEF instr_sts
  <2> HIDE DEF at
  <2>2. Straight(c, instr_sts(c, d), {at}, {})
    BY <1>1, <2>1, Zenon
  <2>3. QED
    BY <2>2, Zenon DEF at
<1>6. /\ Straight(c, instr_movw(c, d), {2 * (d.ddddd - 16), 2 * (d.ddddd - 16) + 1}, {})
      /\ Straight(c, instr_nop(c, d), {}, {})
  BY <1>2, SelfStraight, Zenon DEF instr_movw, instr_nop
<1>7. QED
  BY <1>3, <1>4, <1>5, <1>6, Zenon

\* XCH and its kin write the register and the byte at Z; ELPM Z+ the register and Z.
LEMMA TwoStraight ==
  ASSUME NEW c, Plain(c), NEW d
  PROVE  /\ Straight(c, instr_xch(c, d), {memword(c.mem, REGP_Z), d.ddddd}, {})
         /\ ~(IsSet(d.instr, 0) /\ d.ddddd \in {30, 31}) =>
              Straight(c, instr_elpmz(c, d),
                       IF IsSet(d.instr, 0) THEN {d.ddddd, REGP_Z, REGP_Z + 1} ELSE {d.ddddd}, {})
<1>1. ASSUME NEW a, NEW b, NEW v, NEW w PROVE Straight(c, Put(Put(c, a, v), b, w), {a, b}, {})
  <2>1. Plain(Put(c, a, v)) /\ a \in {a, b} /\ b \in {a, b}
    BY PutPlain
  <2>2. Straight(c, Put(c, a, v), {a, b}, {})
    BY <2>1, PutStraight
  <2>3. Straight(Put(c, a, v), Put(Put(c, a, v), b, w), {a, b}, {})
    BY <2>1, PutStraight
  <2>4. QED
    BY <2>2, <2>3, StraightTrans
<1>2. Straight(c, instr_xch(c, d), {memword(c.mem, REGP_Z), d.ddddd}, {})
  <2> DEFINE z   == memword(c.mem, REGP_Z)
             old == Reg(c, z)
             f   == Field(d.instr, 1, 0)
             new == CASE f = 0 -> Reg(c, d.ddddd)
                      [] f = 1 -> Or(old, Reg(c, d.ddddd))
                      [] f = 2 -> And(old, Not(Reg(c, d.ddddd)))
                      [] f = 3 -> Xor(old, Reg(c, d.ddddd))
  <2>1. instr_xch(c, d) = Put(Put(c, z, new), d.ddddd, old)
    BY Zenon DEF instr_xch
  <2> HIDE DEF z, new, old
  <2>2. Straight(c, instr_xch(c, d), {z, d.ddddd}, {})
    BY <1>1, <2>1, Zenon
  <2>3. QED
    BY <2>2, Zenon DEF z
<1>3. ASSUME ~(IsSet(d.instr, 0) /\ d.ddddd \in {30, 31})
      PROVE  Straight(c, instr_elpmz(c, d),
                      IF IsSet(d.instr, 0) THEN {d.ddddd, REGP_Z, REGP_Z + 1} ELSE {d.ddddd}, {})
  <2> DEFINE addr   == FlashAddr(c, IsSet(d.instr, 1))
             loaded == Put(c, d.ddddd, rombyte(c.flash, addr))
             moved  == PutWord(loaded, REGP_Z, (addr + 1) % 65536)
             S      == {d.ddddd, REGP_Z, REGP_Z + 1}
             inc    == IsSet(d.instr, 0)
  <2>1. instr_elpmz(c, d) = CASE inc /\ d.ddddd \in {30, 31} -> Trap(c)
          [] inc /\ d.ddddd \notin {30, 31} -> moved
          [] ~inc -> loaded
    BY DEF instr_elpmz
  <2>2. Straight(c, loaded, {d.ddddd}, {}) /\ Straight(c, loaded, S, {}) /\ Plain(loaded)
    BY PutStraight, PutPlain
  <2> HIDE DEF loaded
  <2>3. Straight(loaded, moved, S, {})
    BY <2>2, PutWordStraight
  <2>4. Straight(c, moved, S, {})
    BY <2>2, <2>3, StraightTrans
  <2> HIDE DEF moved, inc, S
  <2>5. /\ inc => instr_elpmz(c, d) = moved
        /\ ~inc => instr_elpmz(c, d) = loaded
    BY <1>3, <2>1, Zenon DEF inc
  <2>6. Straight(c, instr_elpmz(c, d), IF inc THEN S ELSE {d.ddddd}, {})
    BY <2>2, <2>4, <2>5, Zenon
  <2>7. QED
    BY <2>6, Zenon DEF inc, S
<1>4. QED
  BY <1>2, <1>3, Zenon

\* DES writes the block; single flags; what tests a bit only skips.
LEMMA BitsStraight ==
  ASSUME NEW c, Plain(c), NEW d
  PROVE  /\ Straight(c, instr_des(c, d), 0..7, {})
         /\ \E F : Straight(c, instr_bclrset(c, d), {}, F)
         /\ \E F : Straight(c, instr_bst(c, d), {}, F)
<1>1. Straight(c, instr_des(c, d), 0..7, {})
  <2> DEFINE out == DES_ecb_encrypt([i \in 0..7 |-> Reg(c, 8 + i)],
                                    [i \in 0..7 |-> Reg(c, i)], Flag(c, "H"))
             m   == [a \in DOMAIN c.mem \cup 0..7 |-> IF a \in 0..7 THEN out[a] ELSE c.mem[a]]
  <2>1. instr_des(c, d) = IF ~LastRound(d) THEN c ELSE [c EXCEPT !.mem = m]
    BY Zenon DEF instr_des
  <2> HIDE DEF out
  <2>2. \A a : a \notin 0..7 => membyte(m, a) = membyte(c.mem, a)
    BY Zenon DEF membyte
  <2> HIDE DEF m
  <2>3. Straight(c, [c EXCEPT !.mem = m], 0..7, {}) /\ Straight(c, c, 0..7, {})
    BY <2>2, MemoryStraight, SelfStraight
  <2>4. QED
    BY <2>1, <2>3, Zenon
<1>2. ASSUME NEW f PROVE \E F : Straight(c, Flags(c, f), {}, F)
  <2>1. Within(f, f.set \cup f.clr)
    BY DEF Within
  <2>2. Straight(c, Flags(c, f), {}, f.set \cup f.clr)
    BY <2>1, SelfStraight, FlagsStraight
  <2>3. QED
    BY <2>2
<1>3. \E F : Straight(c, instr_bclrset(c, d), {}, F)
  <2> DEFINE sss == {d.ddddd - 16}
             f == IF IsSet(d.instr, 7) THEN [set |-> {}, clr |-> sss]
                                       ELSE [set |-> sss, clr |-> {}]
  <2>1. instr_bclrset(c, d) = Flags(c, f)
    BY Zenon DEF instr_bclrset
  <2> HIDE DEF f
  <2>2. QED
    BY <1>2, <2>1, Zenon
<1>4. \E F : Straight(c, instr_bst(c, d), {}, F)
  BY <1>2, Zenon DEF instr_bst
<1>5. QED
  BY <1>1, <1>3, <1>4, Zenon

-----------------------------------------------------------------------------
(* Pointers.                                                               *)

\* The size of data memory and a pointer, as the handler has them.
SizeIn(k) ==
  IF k.pc_mem_max_256b THEN 256 ELSE IF k.pc_mem_max_64k THEN 65536 ELSE MemorySize
PointerIn(k, m, rp, ramp) == (memword(m, rp) + 65536 * membyte(m, ramp)) % SizeIn(k)

\* The bytes written when the pointer moves.
BytesOf(k, rp, ramp, mode) ==
  IF mode \notin {1, 2} THEN {}
  ELSE IF k.pc_mem_max_256b THEN {rp}
  ELSE IF k.pc_mem_max_64k THEN {rp, rp + 1} ELSE {rp, rp + 1, ramp}

\* How far from the pointer the access is.
Reach(mode, displace) == IF mode = 1 THEN 0 ELSE IF mode = 2 THEN -1 ELSE displace

\* The address instr_ldst_common() computes.
LdStAddr(c, rp, ramp, mode, displace) ==
  LET moved == Moved(Extend(c, memword(c.mem, rp), ramp), mode, displace)
  IN  IF c.k.pc_mem_max_256b THEN moved % 256
      ELSE IF c.k.pc_mem_max_64k THEN moved % 65536 ELSE moved

\* Sums modulo the three sizes of memory, which divide one another.
LEMMA Sizes ==
  ASSUME NEW w \in Word16, NEW b \in Byte, NEW n \in Int
  PROVE  /\ ((w + n) % 16777216) % 256 = (((w + 65536 * b) % 256) + n) % 256
         /\ ((w + n) % 16777216) % 65536 = (((w + 65536 * b) % 65536) + n) % 65536
         /\ (w + 65536 * b + n) % 16777216 = (((w + 65536 * b) % 16777216) + n) % 16777216
         /\ w + 65536 * b \in Nat /\ w + 65536 * b < 16777216
<1>1. w \in Nat /\ w < 65536 /\ b \in Nat /\ b < 256
  BY ByteIs, SMT DEF Word16
<1>2. ((w + n) % 16777216) % 256 = (((w + 65536 * b) % 256) + n) % 256
  <2>1. (w + 65536 * b) % 256 = w % 256
    BY <1>1, SMT
  <2>2. ((w + n) % 16777216) % 256 = (w + n) % 256
    BY <1>1, SMT
  <2>3. ((w % 256) + n) % 256 = (w + n) % 256
    BY <1>1, SMT
  <2>4. QED
    BY <2>1, <2>2, <2>3
<1>3. ((w + n) % 16777216) % 65536 = (((w + 65536 * b) % 65536) + n) % 65536
  <2>1. (w + 65536 * b) % 65536 = w
    BY <1>1, SMT
  <2>2. ((w + n) % 16777216) % 65536 = (w + n) % 65536
    BY <1>1, SMT
  <2>3. QED
    BY <2>1, <2>2
<1>4. w + 65536 * b \in Nat /\ w + 65536 * b < 16777216
  BY <1>1, SMT
<1>5. (w + 65536 * b + n) % 16777216 = (((w + 65536 * b) % 16777216) + n) % 16777216
  BY <1>1, <1>4, SMT
<1>6. QED
  BY <1>2, <1>3, <1>4, <1>5

\* On every machine that is the pointer and the displacement, modulo the size of memory.
LEMMA LdStAddrIs ==
  ASSUME NEW c, Idle(c), c.k.pc_mem_max_256b => c.k.pc_mem_max_64k, NEW rp, NEW ramp,
         NEW mode, NEW displace \in Int
  PROVE  LdStAddr(c, rp, ramp, mode, displace)
           = (PointerIn(c.k, c.mem, rp, ramp) + Reach(mode, displace)) % SizeIn(c.k)
<1> DEFINE w     == memword(c.mem, rp)
           b     == membyte(c.mem, ramp)
           n     == Reach(mode, displace)
           base  == Extend(c, w, ramp)
           moved == Moved(base, mode, displace)
<1>1. w \in Word16 /\ b \in Byte
  BY RegType, Zenon DEF Reg
<1>2. n \in Int
  BY SMT DEF Reach
<1>3. base = IF c.k.pc_mem_max_64k THEN w ELSE w + 65536 * b
  BY SMT DEF Extend, Reg
<1>4. w \in Nat /\ w < 65536 /\ b \in Nat /\ b < 256
  BY <1>1, ByteIs, SMT DEF Word16
<1> HIDE DEF w, b, base
<1>5. base \in Nat /\ base < MemorySize
  BY <1>3, <1>4, SMT DEF MemorySize
<1>6. moved = (base + n) % MemorySize
  <2> DEFINE down == (base - 1) % MemorySize
             at   == (base + displace) % MemorySize
  <2>1. moved = CASE mode = 1 -> base [] mode = 2 -> down [] mode \notin {1, 2} -> at
    BY Zenon DEF Moved
  <2> HIDE DEF moved, down, at
  <2>2. CASE mode = 1
    <3>1. mode # 2 /\ mode \in {1, 2}
      BY <2>2
    <3>2. moved = base
      BY <2>1, <2>2, <3>1, Zenon
    <3>3. n = 0
      BY <2>2 DEF Reach
    <3>4. QED
      BY <1>5, <3>2, <3>3, SMT DEF MemorySize
  <2>3. CASE mode = 2
    <3>1. mode # 1 /\ mode \in {1, 2}
      BY <2>3
    <3>2. moved = down
      BY <2>1, <2>3, <3>1, Zenon
    <3>3. n = -1
      BY <2>3 DEF Reach
    <3>4. QED
      BY <1>5, <3>2, <3>3, SMT DEF MemorySize, down
  <2>4. CASE mode \notin {1, 2}
    <3>1. mode # 1 /\ mode # 2
      BY <2>4
    <3>2. moved = at
      BY <2>1, <2>4, <3>1, Zenon
    <3>3. n = displace
      BY <3>1 DEF Reach
    <3>4. QED
      BY <1>5, <3>2, <3>3, SMT DEF MemorySize, at
  <2>5. QED
    BY <2>2, <2>3, <2>4
<1>7. LdStAddr(c, rp, ramp, mode, displace)
        = IF c.k.pc_mem_max_256b THEN moved % 256
          ELSE IF c.k.pc_mem_max_64k THEN moved % 65536 ELSE moved
  BY SMT DEF LdStAddr, base, w
<1>8. PointerIn(c.k, c.mem, rp, ramp) = (w + 65536 * b) % SizeIn(c.k)
  BY SMT DEF PointerIn, w, b
<1> HIDE DEF moved, n
<1>9. /\ ((w + n) % 16777216) % 256 = (((w + 65536 * b) % 256) + n) % 256
      /\ ((w + n) % 16777216) % 65536 = (((w + 65536 * b) % 65536) + n) % 65536
      /\ (w + 65536 * b + n) % 16777216 = (((w + 65536 * b) % 16777216) + n) % 16777216
  BY <1>1, <1>2, Sizes
<1>10. CASE c.k.pc_mem_max_256b
  <2>1. c.k.pc_mem_max_64k
    BY <1>10
  <2>2. base = w /\ SizeIn(c.k) = 256
    BY <1>3, <1>10, <2>1 DEF SizeIn
  <2>3. LdStAddr(c, rp, ramp, mode, displace) = ((w + n) % 16777216) % 256
    BY <1>6, <1>7, <1>10, <2>2, SMT DEF MemorySize
  <2>4. QED
    BY <1>8, <1>9, <2>2, <2>3, SMT DEF n
<1>11. CASE ~c.k.pc_mem_max_256b /\ c.k.pc_mem_max_64k
  <2>1. base = w /\ SizeIn(c.k) = 65536
    BY <1>3, <1>11, SMT DEF SizeIn
  <2>2. LdStAddr(c, rp, ramp, mode, displace) = ((w + n) % 16777216) % 65536
    BY <1>6, <1>7, <1>11, <2>1, SMT DEF MemorySize
  <2>3. QED
    BY <1>8, <1>9, <2>1, <2>2, SMT DEF n
<1>12. CASE ~c.k.pc_mem_max_256b /\ ~c.k.pc_mem_max_64k
  <2>1. base = w + 65536 * b /\ SizeIn(c.k) = 16777216
    BY <1>3, <1>12, SMT DEF SizeIn, MemorySize
  <2>2. LdStAddr(c, rp, ramp, mode, displace) = (w + 65536 * b + n) % 16777216
    BY <1>6, <1>7, <1>12, <2>1, SMT DEF MemorySize
  <2>3. QED
    BY <1>8, <1>9, <2>1, <2>2, SMT DEF n
<1>13. QED
  BY <1>10, <1>11, <1>12

\* The two bytes of a word, and the three of a pointer.
LEMMA Recompose ==
  /\ \A w \in Int : Low(w % 65536) + 256 * High(w % 65536) = w % 65536
  /\ \A x \in Int : (x % 65536) + 65536 * ((x \div 65536) % 256) = x % 16777216
<1>1. \A w \in Nat : w < 65536 => Low(w) + 256 * High(w) = w
  BY SMT DEF Low, High
<1>2. \A w \in Int : w % 65536 \in Nat /\ w % 65536 < 65536
  BY SMT
<1>3. \A x \in Int : (x % 65536) + 65536 * ((x \div 65536) % 256) = x % 16777216
  BY SMT
<1>4. QED
  BY <1>1, <1>2, <1>3, SMT

\* The pointer is written to its bytes and, modulo the size of memory, reads back.
LEMMA PutPointerIs ==
  ASSUME NEW s, Plain(s), NEW rp \in Registers, NEW ramp \in Int, ramp # rp, ramp # rp + 1,
         NEW next \in Int, NEW mode \in {1, 2},
         IsMemory(PutPointer(s, rp, ramp, next).mem)
  PROVE  LET r == PutPointer(s, rp, ramp, next)
         IN  /\ Straight(s, r, BytesOf(s.k, rp, ramp, mode), {})
             /\ PointerIn(s.k, r.mem, rp, ramp) = next % SizeIn(s.k)
<1> DEFINE r == PutPointer(s, rp, ramp, next)
           low == next % 256
           word == next % 65536
           top == (next \div 65536) % 256
           B == BytesOf(s.k, rp, ramp, mode)
           lo == membyte(r.mem, rp)
           hi == membyte(r.mem, rp + 1)
           ra == membyte(r.mem, ramp)
<1>1. r = IF s.k.pc_mem_max_256b THEN Put(s, rp, low)
          ELSE IF s.k.pc_mem_max_64k THEN PutWord(s, rp, word)
          ELSE Put(PutWord(s, rp, word), ramp, top)
  BY SMT DEF PutPointer
<1>2. lo \in Byte /\ hi \in Byte /\ ra \in Byte
  BY ReadType, Zenon
<1>3. PointerIn(s.k, r.mem, rp, ramp) = (lo + 256 * hi + 65536 * ra) % SizeIn(s.k)
  BY SMT DEF PointerIn, memword
<1>4. lo \in Nat /\ lo < 256 /\ hi \in Nat /\ hi < 256 /\ ra \in Nat /\ ra < 256
  BY <1>2, ByteIs, SMT
<1>5. rp # rp + 1 /\ rp \in Int
  BY SMT DEF Registers
<1>6. Low(word) + 256 * High(word) = word /\ word + 65536 * top = next % 16777216
  BY Recompose, SMT
<1> HIDE DEF r, low, word, top, lo, hi, ra
<1>7. \A x : membyte(memwriteword(s.mem, rp, word), x)
               = IF x = rp + 1 THEN High(word) ELSE IF x = rp THEN Low(word) ELSE membyte(s.mem, x)
  BY ReadWord
<1>8. CASE s.k.pc_mem_max_256b
  <2>1. r = Put(s, rp, low) /\ SizeIn(s.k) = 256 /\ B = {rp}
    BY <1>1, <1>8, SMT DEF SizeIn, BytesOf
  <2>2. Straight(s, Put(s, rp, low), {rp}, {}) /\ r.mem = Store(s.mem, rp, low)
    BY <2>1, PutStraight, PutPlain, SMT
  <2>3. lo = low
    BY <2>2, ReadStore, SMT DEF lo
  <2>4. PointerIn(s.k, r.mem, rp, ramp) = next % SizeIn(s.k)
    BY <1>3, <1>4, <2>1, <2>3, SMT DEF low
  <2>5. QED
    BY <2>1, <2>2, <2>4, Zenon DEF r
<1>9. CASE ~s.k.pc_mem_max_256b /\ s.k.pc_mem_max_64k
  <2>1. r = PutWord(s, rp, word) /\ SizeIn(s.k) = 65536 /\ B = {rp, rp + 1}
    BY <1>1, <1>9, SMT DEF SizeIn, BytesOf
  <2>2. Straight(s, PutWord(s, rp, word), {rp, rp + 1}, {}) /\ r.mem = memwriteword(s.mem, rp, word)
    <3>1. Straight(s, PutWord(s, rp, word), {rp, rp + 1}, {})
      BY PutWordStraight, Zenon
    <3>2. PutWord(s, rp, word).mem = memwriteword(s.mem, rp, word)
      BY PutPlain, Zenon
    <3>3. QED
      BY <2>1, <3>1, <3>2, SMT
  <2>3. lo = Low(word) /\ hi = High(word)
    BY <1>5, <1>7, <2>2, SMT DEF lo, hi
  <2>4. PointerIn(s.k, r.mem, rp, ramp) = next % SizeIn(s.k)
    <3>1. PointerIn(s.k, r.mem, rp, ramp) = (word + 65536 * ra) % 65536
      BY <1>3, <1>6, <2>1, <2>3, SMT
    <3>2. word \in Nat /\ word < 65536
      BY SMT DEF word
    <3>3. (word + 65536 * ra) % 65536 = word
      BY <1>4, <3>2, SMT
    <3>4. QED
      BY <2>1, <3>1, <3>3, SMT DEF word
  <2>5. Straight(s, r, B, {})
    BY <2>1, <2>2, SMT
  <2>6. QED
    BY <2>4, <2>5, Zenon DEF r
<1>10. CASE ~s.k.pc_mem_max_256b /\ ~s.k.pc_mem_max_64k
  <2> DEFINE p == PutWord(s, rp, word)
  <2>1. r = Put(p, ramp, top) /\ SizeIn(s.k) = 16777216 /\ B = {rp, rp + 1, ramp}
    BY <1>1, <1>10, SMT DEF SizeIn, BytesOf, MemorySize
  <2>2. Straight(s, p, {rp, rp + 1, ramp}, {}) /\ p.mem = memwriteword(s.mem, rp, word) /\ Plain(p)
    <3>1. Straight(s, PutWord(s, rp, word), {rp, rp + 1, ramp}, {})
      BY PutWordStraight, Zenon
    <3>2. QED
      BY <3>1, PutPlain, Zenon
  <2> HIDE DEF p
  <2>3. Straight(p, Put(p, ramp, top), {rp, rp + 1, ramp}, {}) /\ r.mem = Store(p.mem, ramp, top)
    BY <2>1, <2>2, PutStraight, PutPlain, SMT
  <2>4. Straight(s, r, {rp, rp + 1, ramp}, {})
    BY <2>1, <2>2, <2>3, StraightTrans, SMT
  <2>5. \A a : membyte(r.mem, a) = IF a = ramp THEN top ELSE membyte(p.mem, a)
    BY <2>3, ReadStore, SMT
  <2>6. ra = top /\ lo = membyte(p.mem, rp) /\ hi = membyte(p.mem, rp + 1)
    BY <2>5, SMT DEF lo, hi, ra
  <2>7. lo = Low(word) /\ hi = High(word)
    BY <1>5, <1>7, <2>2, <2>6, SMT
  <2>8. PointerIn(s.k, r.mem, rp, ramp) = (next % 16777216) % 16777216
    BY <1>3, <1>6, <2>1, <2>6, <2>7, SMT
  <2>9. (next % 16777216) % 16777216 = next % 16777216
    BY SMT
  <2>10. PointerIn(s.k, r.mem, rp, ramp) = next % SizeIn(s.k) /\ Straight(s, r, B, {})
    BY <2>1, <2>4, <2>8, <2>9, SMT
  <2>11. QED
    BY <2>10, Zenon DEF r
<1>11. QED
  BY <1>8, <1>9, <1>10, SMT

\* A load or a store through a pointer: what it writes, and where it leaves the pointer.
Accesses(c, r, d, rp, ramp, mode, displace, store) ==
  LET here == PointerIn(c.k, c.mem, rp, ramp)
      at   == (here + Reach(mode, displace)) % SizeIn(c.k)
      B    == BytesOf(c.k, rp, ramp, mode)
  IN  /\ Straight(c, r, (IF store THEN {at} ELSE {d.ddddd}) \cup B, {})
      /\ mode \in {1, 2} =>
           PointerIn(c.k, r.mem, rp, ramp) = (here + IF mode = 1 THEN 1 ELSE -1) % SizeIn(c.k)
      /\ ~store => membyte(r.mem, d.ddddd) = membyte(c.mem, at)
      /\ store /\ at \notin B => membyte(r.mem, at) = membyte(c.mem, d.ddddd)

\* Stepping once more, modulo the size.
LEMMA NextAddress ==
  ASSUME NEW k, NEW here \in Int, NEW mode \in {1, 2}, NEW displace
  PROVE  LET at == (here + Reach(mode, displace)) % SizeIn(k)
         IN  (IF mode = 1 THEN at + 1 ELSE at) % SizeIn(k)
               = (here + IF mode = 1 THEN 1 ELSE -1) % SizeIn(k)
<1>1. SizeIn(k) = 256 \/ SizeIn(k) = 65536 \/ SizeIn(k) = 16777216
  BY SMT DEF SizeIn, MemorySize
<1>2. Reach(1, displace) = 0 /\ Reach(2, displace) = -1
  BY SMT DEF Reach
<1>3. ASSUME NEW z \in {256, 65536, 16777216}
      PROVE  /\ (((here + 0) % z) + 1) % z = (here + 1) % z
             /\ ((here + -1) % z) % z = (here + -1) % z
  <2>1. CASE z = 256
    BY <2>1, SMT
  <2>2. CASE z = 65536
    BY <2>2, SMT
  <2>3. CASE z = 16777216
    BY <2>3, SMT
  <2>4. QED
    BY <1>3, <2>1, <2>2, <2>3, SMT
<1>4. SizeIn(k) \in {256, 65536, 16777216}
  BY <1>1, SMT
<1>5. CASE mode = 1
  BY <1>2, <1>3, <1>4, <1>5, SMT
<1>6. CASE mode = 2
  BY <1>2, <1>3, <1>4, <1>6, SMT
<1>7. QED
  BY <1>5, <1>6, SMT

\* instr_ldst_common() is such an access.
LEMMA LdStAccesses ==
  ASSUME NEW c, Idle(c), c.k.pc_mem_max_256b => c.k.pc_mem_max_64k, NEW d, IsOperands(d),
         NEW rp \in Registers, rp < 31, NEW ramp \in 88..91, NEW mode, NEW displace \in Int,
         NEW store \in BOOLEAN, ~MovesItself(d, rp, mode), NEW r,
         r = instr_ldst_common(c, d, rp, ramp, mode, displace, store), IsMemory(r.mem)
  PROVE  Accesses(c, r, d, rp, ramp, mode, displace, store)
<1> DEFINE addr == LdStAddr(c, rp, ramp, mode, displace)
           here == PointerIn(c.k, c.mem, rp, ramp)
           at   == (here + Reach(mode, displace)) % SizeIn(c.k)
           B    == BytesOf(c.k, rp, ramp, mode)
           done == IF store THEN Put(c, at, Reg(c, d.ddddd)) ELSE Put(c, d.ddddd, Reg(c, at))
           next == IF mode = 1 THEN at + 1 ELSE at
           S    == IF store THEN {at} ELSE {d.ddddd}
<1>1. addr = at
  BY LdStAddrIs, SMT
<1>2. r = IF mode \in {1, 2} THEN PutPointer(done, rp, ramp, next) ELSE done
  <2> DEFINE dn == IF store THEN Put(c, addr, Reg(c, d.ddddd)) ELSE Put(c, d.ddddd, Reg(c, addr))
             nx == IF mode = 1 THEN addr + 1 ELSE addr
  <2>1. r = IF mode \in {1, 2} THEN PutPointer(dn, rp, ramp, nx) ELSE dn
    BY SMT DEF instr_ldst_common, LdStAddr
  <2> HIDE DEF addr, at
  <2>2. dn = done /\ nx = next
    BY <1>1, SMT
  <2> HIDE DEF dn, nx, done, next
  <2>3. QED
    BY <2>1, <2>2, Zenon
<1>3. here \in Int /\ at \in Int
  <2>1. memword(c.mem, rp) \in Word16 /\ membyte(c.mem, ramp) \in Byte
    BY RegType, Zenon DEF Reg
  <2>2. memword(c.mem, rp) + 65536 * membyte(c.mem, ramp) \in Int
    BY <2>1, ByteIs, SMT DEF Word16
  <2>3. \A x \in Int : x % SizeIn(c.k) \in Int
    BY SMT DEF SizeIn, MemorySize
  <2>4. here \in Int
    BY <2>2, <2>3, SMT DEF PointerIn
  <2>5. Reach(mode, displace) \in Int
    BY SMT DEF Reach
  <2>6. QED
    BY <2>3, <2>4, <2>5, SMT
<1>4. Plain(c) /\ d.ddddd \in Registers
  BY IdlePlain, SMT DEF IsOperands
<1>5. mode \in {1, 2} => next % SizeIn(c.k) = (here + IF mode = 1 THEN 1 ELSE -1) % SizeIn(c.k)
  <2> HIDE DEF here
  <2>1. QED
    BY <1>3, NextAddress, SMT
<1> HIDE DEF addr, at, here
<1>6. next \in Int
  BY <1>3, SMT
<1>7. /\ Straight(c, done, S, {}) /\ Plain(done) /\ done.k = c.k
      /\ ~store => membyte(done.mem, d.ddddd) = membyte(c.mem, at)
      /\ store => membyte(done.mem, at) = membyte(c.mem, d.ddddd)
  <2>1. CASE store
    <3>1. done = Put(c, at, Reg(c, d.ddddd)) /\ at \in S
      BY <2>1, SMT
    <3>2. Straight(c, Put(c, at, Reg(c, d.ddddd)), S, {})
      BY <1>4, <3>1, PutStraight, SMT
    <3>3. /\ Plain(Put(c, at, Reg(c, d.ddddd))) /\ Put(c, at, Reg(c, d.ddddd)).k = c.k
          /\ Put(c, at, Reg(c, d.ddddd)).mem = Store(c.mem, at, Reg(c, d.ddddd))
      BY <1>4, PutPlain, SMT
    <3>4. membyte(Store(c.mem, at, Reg(c, d.ddddd)), at) = Reg(c, d.ddddd)
      BY ReadStore, SMT
    <3>5. QED
      BY <2>1, <3>1, <3>2, <3>3, <3>4, Zenon DEF Reg
  <2>2. CASE ~store
    <3>1. done = Put(c, d.ddddd, Reg(c, at)) /\ d.ddddd \in S
      BY <2>2, SMT
    <3>2. Straight(c, Put(c, d.ddddd, Reg(c, at)), S, {})
      BY <1>4, <3>1, PutStraight, SMT
    <3>3. /\ Plain(Put(c, d.ddddd, Reg(c, at))) /\ Put(c, d.ddddd, Reg(c, at)).k = c.k
          /\ Put(c, d.ddddd, Reg(c, at)).mem = Store(c.mem, d.ddddd, Reg(c, at))
      BY <1>4, PutPlain, SMT
    <3>4. membyte(Store(c.mem, d.ddddd, Reg(c, at)), d.ddddd) = Reg(c, at)
      BY ReadStore, SMT
    <3>5. QED
      BY <2>2, <3>1, <3>2, <3>3, <3>4, Zenon DEF Reg
  <2>3. QED
    BY <2>1, <2>2, Zenon
<1> HIDE DEF done, next, S, B
<1>8. CASE mode \in {1, 2}
  <2>1. r = PutPointer(done, rp, ramp, next)
    BY <1>2, <1>8, Zenon
  <2>2. ramp \in Int /\ ramp # rp /\ ramp # rp + 1
    BY SMT DEF Registers
  <2>3. Straight(done, r, B, {}) /\ PointerIn(c.k, r.mem, rp, ramp) = next % SizeIn(c.k)
    BY <1>6, <1>7, <1>8, <2>1, <2>2, PutPointerIs, SMT DEF B
  <2>4. d.ddddd \notin B
    <3>1. d.ddddd # rp /\ d.ddddd # rp + 1
      BY <1>8, SMT DEF MovesItself
    <3>2. d.ddddd # ramp
      BY <1>4, SMT DEF Registers
    <3>3. QED
      BY <3>1, <3>2, SMT DEF B, BytesOf
  <2>5. Straight(c, r, S \cup B, {})
    BY <1>7, <2>3, Zenon DEF Straight, Touches
  <2>6. /\ ~store => membyte(r.mem, d.ddddd) = membyte(c.mem, at)
        /\ store /\ at \notin B => membyte(r.mem, at) = membyte(c.mem, d.ddddd)
    BY <1>7, <2>3, <2>4, Zenon DEF Straight, Touches
  <2>7. QED
    BY <1>5, <1>8, <2>3, <2>5, <2>6, Zenon DEF Accesses, here, at, B, S
<1>9. CASE mode \notin {1, 2}
  <2>1. r = done
    BY <1>2, <1>9, Zenon
  <2>2. B = {}
    BY <1>9, SMT DEF B, BytesOf
  <2>3. Straight(c, r, S \cup B, {})
    BY <1>7, <2>1, Zenon DEF Straight, Touches
  <2>4. QED
    BY <1>7, <1>9, <2>1, <2>3, Zenon DEF Accesses, here, at, B, S
<1>10. QED
  BY <1>8, <1>9, SMT

-----------------------------------------------------------------------------
(* Loads and stores through a pointer.                                     *)

\* How far LDD and STD reach; 0 for the others.
Offset == IF Displaced THEN Displacement(Decoded) ELSE 0

\* Six handlers, one instr_ldst_common().
LEMMA LoadStoreIs ==
  ASSUME Code \in Loads \cup Stores, NEW c, NEW store \in BOOLEAN, store <=> Code \in Stores
  PROVE  Execute(Code, c, Decoded)
           = instr_ldst_common(c, Decoded, Rp, Ramp, Mode, Offset, store)
<1> DEFINE d == Decoded
           f == Field(d.instr, 1, 0)
<1>1. REGP_X # REGP_Y /\ REGP_X # REGP_Z /\ REGP_Y # REGP_Z
  BY SMT DEF REGP_X, REGP_Y, REGP_Z
<1>2. /\ Execute("ldx", c, d) = instr_ldx(c, d) /\ Execute("stx", c, d) = instr_stx(c, d)
      /\ Execute("ldyz", c, d) = instr_ldyz(c, d) /\ Execute("styz", c, d) = instr_styz(c, d)
  BY Dispatch, SMT
<1>3. CASE Code \in {"ldx", "stx"}
  <2>1. Rp = REGP_X /\ Ramp = RAMPX /\ ~Displaced
    BY <1>3 DEF Rp, Ramp, Displaced
  <2>2. Mode = f /\ Offset = 0
    BY <2>1, Zenon DEF Mode, Offset
  <2>3. LoadStoreX(c, d, store) = instr_ldst_common(c, d, Rp, Ramp, Mode, Offset, store)
    BY <2>1, <2>2, Zenon DEF LoadStoreX
  <2>4. Execute(Code, c, d) = LoadStoreX(c, d, store)
    <3>1. CASE Code = "ldx"
      <4>1. store = FALSE
        BY <3>1 DEF Stores
      <4>2. QED
        BY <1>2, <3>1, <4>1, Zenon DEF instr_ldx
    <3>2. CASE Code = "stx"
      <4>1. store = TRUE
        BY <3>2 DEF Stores
      <4>2. QED
        BY <1>2, <3>2, <4>1, Zenon DEF instr_stx
    <3>3. QED
      BY <1>3, <3>1, <3>2
  <2>5. QED
    BY <2>3, <2>4, Zenon
<1>4. CASE Code \in {"ldyz", "styz"}
  <2>1. /\ Rp = IF IsSet(d.instr, 3) THEN REGP_Y ELSE REGP_Z
        /\ Displaced <=> ~IsSet(d.instr, 12)
    <3>1. Code \notin {"ldx", "stx"}
      BY <1>4
    <3>2. QED
      BY <1>4, <3>1, Zenon DEF Rp, Displaced
  <2>2. Ramp = IF IsSet(d.instr, 3) THEN RAMPY ELSE RAMPZ
    BY <1>1, <2>1, Zenon DEF Ramp
  <2>3. /\ Mode = IF ~IsSet(d.instr, 12) THEN 0 ELSE f
        /\ Offset = IF ~IsSet(d.instr, 12) THEN Displacement(d) ELSE 0
    BY <2>1, Zenon DEF Mode, Offset
  <2>4. LoadStoreYZ(c, d, store) = instr_ldst_common(c, d, Rp, Ramp, Mode, Offset, store)
    <3>1. LoadStoreYZ(c, d, store)
            = IF IsSet(d.instr, 3)
              THEN instr_ldst_common(c, d, REGP_Y, RAMPY, Mode, Offset, store)
              ELSE instr_ldst_common(c, d, REGP_Z, RAMPZ, Mode, Offset, store)
      BY <2>3, Zenon DEF LoadStoreYZ
    <3>2. QED
      BY <2>1, <2>2, <3>1, Zenon
  <2>5. Execute(Code, c, d) = LoadStoreYZ(c, d, store)
    <3>1. CASE Code = "ldyz"
      <4>1. store = FALSE
        BY <3>1 DEF Stores
      <4>2. QED
        BY <1>2, <3>1, <4>1, Zenon DEF instr_ldyz
    <3>2. CASE Code = "styz"
      <4>1. store = TRUE
        BY <3>2 DEF Stores
      <4>2. QED
        BY <1>2, <3>2, <4>1, Zenon DEF instr_styz
    <3>3. QED
      BY <1>4, <3>1, <3>2
  <2>6. QED
    BY <2>4, <2>5, Zenon
<1>5. QED
  BY <1>3, <1>4 DEF Loads, Stores

\* The operands of such an instruction.
LEMMA PointerOperands ==
  ASSUME TypeOK
  PROVE  /\ Rp \in Registers /\ Rp < 31 /\ Ramp \in 88..91 /\ Offset \in Int
         /\ Reach(Mode, Offset) = Distance
<1>1. Rp \in Registers /\ Rp < 31 /\ Ramp \in 88..91
  BY SMT DEF Rp, Ramp, Registers, REGP_X, REGP_Y, REGP_Z, RAMPX, RAMPY, RAMPZ
<1>2. Displacement(Decoded) \in Int
  <2>1. /\ Bit(Decoded.instr, 13) \in 0..1 /\ Field(Decoded.instr, 11, 10) \in 0..3
        /\ Field(Decoded.instr, 2, 0) \in 0..7
    BY DecodedTypes, OperandTypes, BitTypes, FieldTypes
  <2>2. QED
    BY <2>1, SMT DEF Displacement
<1>3. Offset \in Int
  BY <1>2 DEF Offset
<1>4. Reach(Mode, Offset) = Distance
  <2>1. Displaced => Mode = 0
    BY DEF Mode
  <2>2. QED
    BY <2>1 DEF Reach, Distance, Offset
<1>5. QED
  BY <1>1, <1>3, <1>4

\* What the handler of a load or a store that does not end the process has done.
LEMMA LoadStoreHandler ==
  ASSUME TypeOK, Code \in Loads \cup Stores, NEW r,
         r = Execute(Code, Fetched(pc, memory), Decoded), r.trap = FALSE, IsMemory(r.mem),
         NEW store \in BOOLEAN, store <=> Code \in Stores
  PROVE  Accesses(Fetched(pc, memory), r, Decoded, Rp, Ramp, Mode, Offset, store)
<1> DEFINE c == Fetched(pc, memory)
<1>1. Idle(c)
  BY FetchedIdle DEF TypeOK
<1>2. c.k = knobs /\ "trap" \in DOMAIN c
  BY DEF Fetched
<1>3. c.k.pc_mem_max_256b => c.k.pc_mem_max_64k
  BY <1>2 DEF TypeOK, Knobs
<1>4. IsOperands(Decoded)
  BY DecodedTypes
<1> HIDE DEF c
<1>5. r = instr_ldst_common(c, Decoded, Rp, Ramp, Mode, Offset, store)
  BY LoadStoreIs, Zenon DEF c
<1>6. ~MovesItself(Decoded, Rp, Mode)
  <2>1. SUFFICES ASSUME MovesItself(Decoded, Rp, Mode) PROVE FALSE
    OBVIOUS
  <2>2. r = Trap(c)
    BY <1>5, <2>1, SMT DEF instr_ldst_common
  <2>3. Trap(c).trap = TRUE
    BY <1>2 DEF Trap
  <2>4. QED
    BY <2>2, <2>3
<1>7. Accesses(c, r, Decoded, Rp, Ramp, Mode, Offset, store)
  BY <1>1, <1>3, <1>4, <1>5, <1>6, PointerOperands, LdStAccesses
<1>8. QED
  BY <1>7 DEF c

\* The same in the words of AvrSteps.
LEMMA PointerWords ==
  /\ SizeIn(knobs) = DataSize
  /\ \A m : PointerIn(knobs, m, Rp, Ramp) = Pointer(m, Rp, Ramp)
  /\ BytesOf(knobs, Rp, Ramp, Mode) = PointerBytes
<1>1. SizeIn(knobs) = DataSize
  BY SMT DEF SizeIn, DataSize
<1>2. ASSUME NEW m PROVE PointerIn(knobs, m, Rp, Ramp) = Pointer(m, Rp, Ramp)
  BY <1>1, SMT DEF PointerIn, Pointer
<1>3. BytesOf(knobs, Rp, Ramp, Mode) = PointerBytes
  BY Zenon DEF BytesOf, PointerBytes, Moves
<1>4. QED
  BY <1>1, <1>2, <1>3

\* The handler, in those words.
LEMMA HandlerAccess ==
  ASSUME TypeOK, Code \in Loads \cup Stores, NEW r,
         r = Execute(Code, Fetched(pc, memory), Decoded), r.trap = FALSE, IsMemory(r.mem)
  PROVE  /\ Straight(Fetched(pc, memory), r,
                     (IF Code \in Stores THEN {Accessed} ELSE {Decoded.ddddd}) \cup PointerBytes, {})
         /\ Moves => Pointer(r.mem, Rp, Ramp) = (Here + IF Mode = 1 THEN 1 ELSE -1) % DataSize
         /\ Code \notin Stores => membyte(r.mem, Decoded.ddddd) = membyte(memory, Accessed)
         /\ Code \in Stores /\ Accessed \notin PointerBytes => membyte(r.mem, Accessed) = Rd
<1> DEFINE c == Fetched(pc, memory)
           store == Code \in Stores
           B == BytesOf(knobs, Rp, Ramp, Mode)
           here == PointerIn(knobs, memory, Rp, Ramp)
           at == (here + Reach(Mode, Offset)) % SizeIn(knobs)
           size == SizeIn(knobs)
           by == IF Mode = 1 THEN 1 ELSE -1
           S == IF store THEN {at} ELSE {Decoded.ddddd}
<1>1. c.k = knobs /\ c.mem = memory
  BY DEF Fetched
<1>2. store \in BOOLEAN
  BY SMT
<1>3. Accesses(c, r, Decoded, Rp, Ramp, Mode, Offset, store)
  BY <1>2, LoadStoreHandler, Zenon
<1> HIDE DEF c
<1>4. /\ Straight(c, r, S \cup B, {})
      /\ Mode \in {1, 2} => PointerIn(knobs, r.mem, Rp, Ramp) = (here + by) % size
      /\ ~store => membyte(r.mem, Decoded.ddddd) = membyte(memory, at)
      /\ store /\ at \notin B => membyte(r.mem, at) = membyte(memory, Decoded.ddddd)
  BY <1>1, <1>3, Zenon DEF Accesses
<1>5. at = Accessed /\ B = PointerBytes /\ size = DataSize /\ here = Here
  <2>1. here = Here /\ B = PointerBytes /\ size = DataSize
    BY PointerWords, Zenon DEF Here
  <2>2. Reach(Mode, Offset) = Distance
    BY PointerOperands
  <2> HIDE DEF here, B, size
  <2>3. at = (here + Reach(Mode, Offset)) % size
    BY DEF size
  <2>4. QED
    BY <2>1, <2>2, <2>3, Zenon DEF Accessed
<1>6. S = IF Code \in Stores THEN {Accessed} ELSE {Decoded.ddddd}
  BY <1>5, Zenon
<1> HIDE DEF at, B, here, size, store, S, by
<1>7. Straight(c, r, (IF Code \in Stores THEN {Accessed} ELSE {Decoded.ddddd}) \cup PointerBytes, {})
  BY <1>4, <1>5, <1>6, Zenon
<1>8. Moves => Pointer(r.mem, Rp, Ramp) = (Here + IF Mode = 1 THEN 1 ELSE -1) % DataSize
  <2>1. PointerIn(knobs, r.mem, Rp, Ramp) = Pointer(r.mem, Rp, Ramp)
    BY PointerWords
  <2>2. Moves => Pointer(r.mem, Rp, Ramp) = (Here + by) % DataSize
    BY <1>4, <1>5, <2>1, Zenon DEF Moves
  <2>3. QED
    BY <2>2 DEF by
<1>9. QED
  BY <1>4, <1>5, <1>7, <1>8, Zenon DEF store, Rd, c

\* The step.
LEMMA PointerSteps ==
  ASSUME DesTyped, TypeOK, Next, Fetches(Flash, pc), Code \in Loads \cup Stores, ~trapped'
  PROVE  PointerStep
<1>1. PICK r : r = Execute(Code, Fetched(pc, memory), Decoded)
  OBVIOUS
<1>2. r.trap = FALSE /\ IsMemory(r.mem) /\ Ran(r)
  BY <1>1, StepOf
<1>3. /\ r.set \subseteq {} /\ r.clr \subseteq {}
      /\ Moves => Pointer(r.mem, Rp, Ramp) = (Here + IF Mode = 1 THEN 1 ELSE -1) % DataSize
      /\ Code \notin Stores => membyte(r.mem, Decoded.ddddd) = membyte(memory, Accessed)
      /\ Code \in Stores /\ Accessed \notin PointerBytes => membyte(r.mem, Accessed) = Rd
  BY <1>1, <1>2, HandlerAccess, Zenon DEF Straight, Touches
<1>4. r.set = {} /\ r.clr = {}
  BY <1>3
<1>5. \A a : membyte(memory', a) = membyte(r.mem, a)
  BY <1>2, <1>4, QuietStep
<1>6. Pointer(memory', Rp, Ramp) = Pointer(r.mem, Rp, Ramp)
  <2>1. memword(memory', Rp) = memword(r.mem, Rp) /\ membyte(memory', Ramp) = membyte(r.mem, Ramp)
    BY <1>5, SMT DEF memword
  <2>2. QED
    BY <2>1, SMT DEF Pointer
<1>7. Code \in Loads => Code \notin Stores
  BY DEF Loads, Stores
<1>8. QED
  BY <1>3, <1>5, <1>6, <1>7, Zenon DEF PointerStep

\* For every program, machine and size of memory: a load and a store through X, Y or Z reach
\* the byte that the pointer says, and the pointer moves by one, modulo that size.
THEOREM PointersAccess == ASSUME DesTyped PROVE Spec => PointerAccess
<1>1. TypeOK /\ [Next]_vars
        => [Fetches(Flash, pc) /\ Code \in Loads \cup Stores /\ ~trapped' => PointerStep]_vars
  BY PointerSteps
<1>2. Spec => []TypeOK
  BY CpuTypes
<1>3. QED
  BY <1>1, <1>2, PTL DEF Spec, PointerAccess

-----------------------------------------------------------------------------
(* The stack.                                                              *)

\* setsp() writes the two bytes of SP, and getsp() reads them back.
LEMMA SetSp ==
  ASSUME NEW m, NEW x \in Word16
  PROVE  /\ getsp(setsp(m, x)) = x
         /\ \A a : a # SP_LO /\ a # SP_HI => membyte(setsp(m, x), a) = membyte(m, a)
<1> DEFINE s == Store(m, SP_LO, Low(x))
<1>1. \A a : membyte(s, a) = IF a = SP_LO THEN Low(x) ELSE membyte(m, a)
  BY ReadStore
<1>2. \A a : membyte(setsp(m, x), a) = IF a = SP_HI THEN High(x) ELSE membyte(s, a)
  <2> HIDE DEF s
  <2>1. \A a : membyte(Store(s, SP_HI, High(x)), a) = IF a = SP_HI THEN High(x) ELSE membyte(s, a)
    BY ReadStore
  <2>2. QED
    BY <2>1, Zenon DEF setsp, s
<1>3. SP_LO # SP_HI
  BY SMT DEF SP_LO, SP_HI
<1> HIDE DEF s
<1>4. membyte(setsp(m, x), SP_HI) = High(x) /\ membyte(setsp(m, x), SP_LO) = Low(x)
  BY <1>1, <1>2, <1>3
<1>5. 256 * High(x) + Low(x) = x
  BY SMT DEF Low, High, Word16
<1>6. getsp(setsp(m, x)) = x
  BY <1>4, <1>5, SMT DEF getsp
<1>7. QED
  BY <1>1, <1>2, <1>6

\* One byte more.
LEMMA PushIs ==
  ASSUME NEW m, NEW sp \in Word16, sp = getsp(m), NEW b, NEW r, r = pushbyte(m, b)
  PROVE  /\ getsp(r) = (sp - 1) % 65536
         /\ \A a : a # sp /\ a # SP_LO /\ a # SP_HI => membyte(r, a) = membyte(m, a)
         /\ sp # SP_LO /\ sp # SP_HI => membyte(r, sp) = b
<1> DEFINE x == (sp - 1) % 65536
           s == Store(m, sp, b)
<1>1. x \in Word16
  BY SMT DEF Word16
<1>2. r = setsp(s, x)
  BY SMT DEF pushbyte
<1>3. \A a : membyte(s, a) = IF a = sp THEN b ELSE membyte(m, a)
  BY ReadStore
<1> HIDE DEF x, s
<1>4. /\ getsp(r) = x
      /\ \A a : a # SP_LO /\ a # SP_HI => membyte(r, a) = membyte(s, a)
  BY <1>1, <1>2, SetSp
<1>5. getsp(r) = (sp - 1) % 65536
  BY <1>4, SMT DEF x
<1>6. QED
  BY <1>3, <1>4, <1>5, SMT

\* One byte less; it is read where SP points afterwards.
LEMMA PopIs ==
  ASSUME NEW m, NEW sp \in Word16, sp = getsp(m)
  PROVE  /\ getsp(popped(m)) = (sp + 1) % 65536
         /\ \A a : a # SP_LO /\ a # SP_HI => membyte(popped(m), a) = membyte(m, a)
         /\ sp + 1 # SP_LO /\ sp + 1 # SP_HI => popbyte(m) = membyte(m, sp + 1)
<1> DEFINE x == (sp + 1) % 65536
           r == popped(m)
<1>1. x \in Word16
  BY SMT DEF Word16
<1>2. r = setsp(m, x)
  BY SMT DEF popped
<1> HIDE DEF x
<1>3. /\ getsp(r) = x
      /\ \A a : a # SP_LO /\ a # SP_HI => membyte(r, a) = membyte(m, a)
  BY <1>1, <1>2, SetSp
<1>4. getsp(r) = (sp + 1) % 65536
  BY <1>3, SMT DEF x
<1>5. popbyte(m) = membyte(r, sp + 1)
  BY Zenon DEF popbyte
<1> HIDE DEF r
<1>6. sp + 1 # SP_LO /\ sp + 1 # SP_HI => popbyte(m) = membyte(m, sp + 1)
  BY <1>3, <1>5, Zenon
<1>7. QED
  BY <1>3, <1>4, <1>6, SMT DEF r

\* The bytes below sp that a push of n bytes writes.
Below(sp, n) == {(sp - i) % 65536 : i \in 0..n - 1}

\* A return address: what is written, and, off the registers of the machine, what is there.
LEMMA PushPcIs ==
  ASSUME NEW m, NEW sp \in Word16, sp = getsp(m), NEW p, NEW wide \in BOOLEAN,
         NEW r, r = PushPc(m, p, wide), NEW n, n = IF wide THEN 3 ELSE 2
  PROVE  /\ \A a : a \notin Below(sp, n) \cup {SP_LO, SP_HI} => membyte(r, a) = membyte(m, a)
         /\ sp - n >= SREG =>
              /\ getsp(r) = sp - n
              /\ membyte(r, sp) = Low(p) /\ membyte(r, sp - 1) = High(p)
              /\ wide => membyte(r, sp - 2) = (p \div 65536) % 256
<1> DEFINE m1 == pushbyte(m, Low(p))
           m2 == pushbyte(m1, High(p))
           top == (p \div 65536) % 256
           m3 == pushbyte(m2, top)
           s1 == (sp - 1) % 65536
           s2 == (sp - 2) % 65536
           s3 == (sp - 3) % 65536
<1>1. r = IF wide THEN m3 ELSE m2
  BY SMT DEF PushPc
<1>2. /\ getsp(m1) = s1
      /\ \A a : a # sp /\ a # SP_LO /\ a # SP_HI => membyte(m1, a) = membyte(m, a)
      /\ sp # SP_LO /\ sp # SP_HI => membyte(m1, sp) = Low(p)
  BY PushIs
<1>3. s1 \in Word16 /\ s2 \in Word16 /\ (s1 - 1) % 65536 = s2 /\ (s2 - 1) % 65536 = s3
  BY SMT DEF Word16
<1> HIDE DEF m1, top
<1>4. /\ getsp(m2) = (s1 - 1) % 65536
      /\ \A a : a # s1 /\ a # SP_LO /\ a # SP_HI => membyte(m2, a) = membyte(m1, a)
      /\ s1 # SP_LO /\ s1 # SP_HI => membyte(m2, s1) = High(p)
  <2> HIDE DEF s1
  <2>1. QED
    BY <1>2, <1>3, PushIs
<1> HIDE DEF m2
<1>5. /\ getsp(m3) = (s2 - 1) % 65536
      /\ \A a : a # s2 /\ a # SP_LO /\ a # SP_HI => membyte(m3, a) = membyte(m2, a)
      /\ s2 # SP_LO /\ s2 # SP_HI => membyte(m3, s2) = top
  <2> HIDE DEF s2
  <2>1. getsp(m2) = s2
    BY <1>3, <1>4, SMT
  <2>2. QED
    BY <1>3, <2>1, PushIs
<1> HIDE DEF m3
<1>6. sp % 65536 = sp /\ sp - 0 = sp
  BY SMT DEF Word16
<1>7. ASSUME NEW a, a \notin Below(sp, n) \cup {SP_LO, SP_HI} PROVE membyte(r, a) = membyte(m, a)
  <2>1. a # SP_LO /\ a # SP_HI /\ \A i \in 0..n - 1 : a # (sp - i) % 65536
    BY <1>7 DEF Below
  <2>2. 0 \in 0..n - 1 /\ 1 \in 0..n - 1 /\ (wide => 2 \in 0..n - 1)
    BY SMT
  <2>3. a # sp /\ a # s1 /\ (wide => a # s2)
    <3>1. a # (sp - 0) % 65536 /\ a # (sp - 1) % 65536 /\ (wide => a # (sp - 2) % 65536)
      BY <2>1, <2>2, SMT
    <3>2. QED
      BY <1>6, <3>1, SMT
  <2> HIDE DEF s1, s2, s3
  <2>4. QED
    BY <1>1, <1>2, <1>4, <1>5, <2>1, <2>3, SMT
<1>8. ASSUME sp - n >= SREG
      PROVE  /\ getsp(r) = sp - n
             /\ membyte(r, sp) = Low(p) /\ membyte(r, sp - 1) = High(p)
             /\ wide => membyte(r, sp - 2) = (p \div 65536) % 256
  <2>1. n \in {2, 3} /\ (wide => n = 3) /\ (~wide => n = 2)
    BY SMT
  <2>2. /\ s1 = sp - 1 /\ s2 = sp - 2 /\ (wide => s3 = sp - 3)
        /\ sp # SP_LO /\ sp # SP_HI /\ s1 # SP_LO /\ s1 # SP_HI
        /\ (wide => s2 # SP_LO /\ s2 # SP_HI) /\ sp # s1 /\ sp # s2 /\ s1 # s2
    BY <1>8, <2>1, SMT DEF Word16, SREG, SP_LO, SP_HI
  <2> HIDE DEF s1, s2, s3
  <2>3. membyte(m2, sp) = Low(p) /\ membyte(m2, s1) = High(p) /\ getsp(m2) = s2
    BY <1>2, <1>3, <1>4, <2>2, SMT
  <2>4. wide => /\ membyte(m3, sp) = Low(p) /\ membyte(m3, s1) = High(p)
                /\ membyte(m3, s2) = top /\ getsp(m3) = s3
    BY <1>3, <1>5, <2>2, <2>3, SMT
  <2>5. QED
    BY <1>1, <2>1, <2>2, <2>3, <2>4, SMT DEF top
<1>9. QED
  BY <1>7, <1>8

-----------------------------------------------------------------------------
(* Control flow.                                                           *)

\* Machine r is c with memory m and perhaps another pc.
Flows(c, r, m) == r.mem = m /\ r.set = {} /\ r.clr = {} /\ r.skip = c.skip

\* Machines that differ in pc alone.
LEMMA WithPc ==
  ASSUME NEW c, Plain(c), NEW a
  PROVE  LET r == [c EXCEPT !.pc = a] IN Flows(c, r, c.mem) /\ r.pc = a
BY DEF Plain, Flows

\* The return address is pushed.
LEMMA CallPcIs ==
  ASSUME NEW c, Plain(c), NEW size
  PROVE  LET r == CallPc(c, size)
         IN  /\ Plain(r) /\ r.mem = PushPc(c.mem, c.pc_start + size, c.k.pc22)
             /\ r.skip = c.skip /\ r.pc = c.pc /\ r.instr_size = c.instr_size
<1> DEFINE m == PushPc(c.mem, c.pc_start + size, c.k.pc22)
<1>1. CallPc(c, size) = [c EXCEPT !.mem = m]
  BY DEF CallPc
<1> HIDE DEF m
<1>2. /\ Plain([c EXCEPT !.mem = m]) /\ [c EXCEPT !.mem = m].mem = m
      /\ [c EXCEPT !.mem = m].skip = c.skip /\ [c EXCEPT !.mem = m].pc = c.pc
  BY WithMemory
<1>3. [c EXCEPT !.mem = m].instr_size = c.instr_size
  BY DEF Plain
<1>4. QED
  BY <1>1, <1>2, <1>3, Zenon DEF m

\* Jumps after the return address was pushed, and without.
LEMMA FlowIs ==
  ASSUME NEW c, Plain(c), NEW d
  PROVE  LET frame(size) == PushPc(c.mem, c.pc_start + size, c.k.pc22)
         IN  /\ Flows(c, instr_jmp(c, d), c.mem) /\ Flows(c, instr_brb(c, d), c.mem)
             /\ Flows(c, instr_call(c, d), frame(2))
             /\ ~(IsSet(d.instr, 4) /\ ~c.k.pc22) =>
                  Flows(c, instr_eicalljump(c, d), IF IsSet(d.instr, 8) THEN frame(1) ELSE c.mem)
             /\ Flows(c, instr_rcalljmp(c, d), IF IsSet(d.instr, 12) THEN frame(1) ELSE c.mem)
<1> DEFINE frame(size) == PushPc(c.mem, c.pc_start + size, c.k.pc22)
<1>1. ASSUME NEW s, Plain(s), s.skip = c.skip, NEW a PROVE Flows(c, [s EXCEPT !.pc = a], s.mem)
  <2>1. Flows(s, [s EXCEPT !.pc = a], s.mem)
    BY <1>1, WithPc, Zenon
  <2>2. QED
    BY <1>1, <2>1, Zenon DEF Flows
<1>2. ASSUME NEW s, Plain(s), s.skip = c.skip, NEW a PROVE Flows(c, Jump(s, a), s.mem)
  BY <1>1, <1>2, Zenon DEF Jump
<1>3. ASSUME NEW size
      PROVE  LET s == CallPc(c, size) IN Plain(s) /\ s.mem = frame(size) /\ s.skip = c.skip
  BY CallPcIs, Zenon
<1> HIDE DEF frame
<1>4. Flows(c, c, c.mem)
  BY DEF Plain, Flows
<1>5. Flows(c, instr_jmp(c, d), c.mem)
  BY <1>2, Zenon DEF instr_jmp
<1>6. Flows(c, instr_brb(c, d), c.mem)
  <2> DEFINE a == c.pc + Signed(Field(d.instr, 9, 3), 7)
  <2>1. instr_brb(c, d) = c \/ instr_brb(c, d) = [c EXCEPT !.pc = a]
    BY SMT DEF instr_brb
  <2> HIDE DEF a
  <2>2. QED
    BY <1>1, <1>4, <2>1, Zenon
<1>7. Flows(c, instr_call(c, d), frame(2))
  <2>1. Flows(c, Jump(CallPc(c, 2), LongAddr(c, d)), CallPc(c, 2).mem)
    BY <1>2, <1>3, Zenon
  <2>2. QED
    BY <1>3, <2>1, Zenon DEF instr_call
<1>8. ASSUME NEW cond
      PROVE  LET s == IF cond THEN CallPc(c, 1) ELSE c
             IN  Plain(s) /\ s.skip = c.skip /\ s.mem = IF cond THEN frame(1) ELSE c.mem
  BY <1>3, Zenon
<1>9. ASSUME ~(IsSet(d.instr, 4) /\ ~c.k.pc22)
      PROVE  Flows(c, instr_eicalljump(c, d), IF IsSet(d.instr, 8) THEN frame(1) ELSE c.mem)
  <2> DEFINE s == IF IsSet(d.instr, 8) THEN CallPc(c, 1) ELSE c
             a == memword(c.mem, REGP_Z) + IF IsSet(d.instr, 4) THEN 65536 * Reg(c, EIND) ELSE 0
  <2>1. instr_eicalljump(c, d) = Jump(s, a)
    BY <1>9, SMT DEF instr_eicalljump
  <2>2. Plain(s) /\ s.skip = c.skip /\ s.mem = IF IsSet(d.instr, 8) THEN frame(1) ELSE c.mem
    BY <1>8, Zenon
  <2> HIDE DEF s, a
  <2>3. Flows(c, Jump(s, a), s.mem)
    BY <1>2, <2>2
  <2>4. QED
    BY <2>1, <2>2, <2>3, Zenon
<1>10. Flows(c, instr_rcalljmp(c, d), IF IsSet(d.instr, 12) THEN frame(1) ELSE c.mem)
  <2> DEFINE s == IF IsSet(d.instr, 12) THEN CallPc(c, 1) ELSE c
             k == Signed(Field(d.instr, 11, 0), 12)
  <2>1. instr_rcalljmp(c, d) = [s EXCEPT !.pc = s.pc + k]
    BY Zenon DEF instr_rcalljmp
  <2>2. Plain(s) /\ s.skip = c.skip /\ s.mem = IF IsSet(d.instr, 12) THEN frame(1) ELSE c.mem
    BY <1>8, Zenon
  <2> HIDE DEF s, k
  <2>3. Flows(c, [s EXCEPT !.pc = s.pc + k], s.mem)
    BY <1>1, <2>2
  <2>4. QED
    BY <2>1, <2>2, <2>3, Zenon
<1>11. QED
  BY <1>5, <1>6, <1>7, <1>9, <1>10, Zenon DEF frame

\* Memory after a return.
Unwound(c) ==
  IF c.k.pc22 THEN popped(popped(popped(c.mem))) ELSE popped(popped(c.mem))

\* Where it goes.
Target(c) ==
  LET m1   == popped(c.mem)
      two  == 256 * popbyte(c.mem) + popbyte(m1)
  IN  IF c.k.pc22 THEN (256 * two + popbyte(popped(m1))) % 4194304 ELSE two

\* RET; and RETI, which sets I.
LEMMA RetIs ==
  ASSUME NEW c, Plain(c), NEW d
  PROVE  /\ Flows(c, instr_ret(c, d), Unwound(c)) /\ instr_ret(c, d).pc = Target(c) - c.instr_size
         /\ instr_reti(c, d).pc = Target(c) - c.instr_size
         /\ \E v : Flows(c, instr_reti(c, d), Store(Unwound(c), SREG, v))
<1> DEFINE s == [c EXCEPT !.mem = Unwound(c)]
           a == Target(c) - s.instr_size
           r == instr_ret(c, d)
<1>1. r = [s EXCEPT !.pc = a]
  BY SMT DEF instr_ret, Jump, Unwound, Target
<1>2. Plain(s) /\ s.mem = Unwound(c) /\ s.skip = c.skip
  BY WithMemory
<1>3. s.instr_size = c.instr_size
  BY DEF Plain
<1> HIDE DEF s
<1>4. Flows(s, [s EXCEPT !.pc = a], s.mem) /\ [s EXCEPT !.pc = a].pc = a
  <2> HIDE DEF a
  <2>1. QED
    BY <1>2, WithPc
<1>5. Flows(c, r, Unwound(c)) /\ r.pc = a /\ a = Target(c) - c.instr_size
  BY <1>1, <1>2, <1>3, <1>4 DEF Flows
<1>6. Plain(r)
  <2>1. DOMAIN r = DOMAIN s
    BY <1>1
  <2>2. QED
    BY <1>2, <1>5, <2>1, Zenon DEF Plain, Flows
<1> HIDE DEF a, r
<1>7. PICK v : instr_reti(c, d) = Put(r, SREG, v)
  BY Zenon DEF instr_reti, r
<1>8. Put(r, SREG, v) = [r EXCEPT !.mem = Store(r.mem, SREG, v)]
  BY DEF Put
<1> DEFINE m == Store(r.mem, SREG, v)
<1> HIDE DEF m
<1>9. LET q == [r EXCEPT !.mem = m]
      IN  q.mem = m /\ q.set = r.set /\ q.clr = r.clr /\ q.skip = r.skip /\ q.pc = r.pc
  BY <1>6, WithMemory
<1>10. Flows(c, instr_reti(c, d), Store(Unwound(c), SREG, v)) /\ instr_reti(c, d).pc = r.pc
  BY <1>5, <1>7, <1>8, <1>9, Zenon DEF Flows, m
<1>11. QED
  BY <1>5, <1>10, Zenon DEF r

\* What returning and pushing write, wherever SP points.
LEMMA UnwoundReads ==
  ASSUME NEW c, Idle(c)
  PROVE  \A a : a # SP_LO /\ a # SP_HI => membyte(Unwound(c), a) = membyte(c.mem, a)
<1> DEFINE m1 == popped(c.mem)
           m2 == popped(m1)
           m3 == popped(m2)
<1>1. IsMemory(c.mem) /\ IsMemory(m1) /\ IsMemory(m2)
  BY RegType, StackType
<1>2. getsp(c.mem) \in Word16 /\ getsp(m1) \in Word16 /\ getsp(m2) \in Word16
  BY <1>1, ReadType
<1>3. \A a : a # SP_LO /\ a # SP_HI => membyte(m1, a) = membyte(c.mem, a)
  BY <1>2, PopIs
<1> HIDE DEF m1
<1>4. \A a : a # SP_LO /\ a # SP_HI => membyte(m2, a) = membyte(m1, a)
  BY <1>2, PopIs
<1> HIDE DEF m2
<1>5. \A a : a # SP_LO /\ a # SP_HI => membyte(m3, a) = membyte(m2, a)
  BY <1>2, PopIs
<1> HIDE DEF m3
<1>6. Unwound(c) = IF c.k.pc22 THEN m3 ELSE m2
  BY Zenon DEF Unwound, m3, m2, m1
<1>7. QED
  BY <1>3, <1>4, <1>5, <1>6, Zenon

\* PUSH and POP.
LEMMA StackStraight ==
  ASSUME NEW c, Idle(c), NEW d
  PROVE  /\ Straight(c, instr_push(c, d), Below(getsp(c.mem), 1) \cup {SP_LO, SP_HI}, {})
         /\ Straight(c, instr_pop(c, d), {d.ddddd, SP_LO, SP_HI}, {})
<1> DEFINE sp == getsp(c.mem)
           S  == Below(sp, 1) \cup {SP_LO, SP_HI}
           m  == pushbyte(c.mem, Reg(c, d.ddddd))
           n  == Store(popped(c.mem), d.ddddd, popbyte(c.mem))
<1>1. sp \in Word16 /\ Plain(c)
  BY RegType, IdlePlain
<1>2. sp \in Below(sp, 1)
  <2> HIDE DEF sp
  <2>1. 0 \in 0..1 - 1 /\ (sp - 0) % 65536 = sp
    BY <1>1, SMT DEF Word16
  <2>2. QED
    BY <2>1, SMT DEF Below
<1>3. \A a : a # sp /\ a # SP_LO /\ a # SP_HI => membyte(m, a) = membyte(c.mem, a)
  BY <1>1, PushIs
<1>4. \A a : a # SP_LO /\ a # SP_HI => membyte(popped(c.mem), a) = membyte(c.mem, a)
  BY <1>1, PopIs
<1>5. \A a : membyte(n, a) = IF a = d.ddddd THEN popbyte(c.mem) ELSE membyte(popped(c.mem), a)
  BY ReadStore
<1>6. instr_push(c, d) = [c EXCEPT !.mem = m] /\ instr_pop(c, d) = [c EXCEPT !.mem = n]
  BY DEF instr_push, instr_pop
<1> HIDE DEF sp, m, n
<1>7. \A a : a \notin S => membyte(m, a) = membyte(c.mem, a)
  BY <1>2, <1>3, Zenon
<1>8. \A a : a \notin {d.ddddd, SP_LO, SP_HI} => membyte(n, a) = membyte(c.mem, a)
  BY <1>4, <1>5, Zenon
<1> HIDE DEF S
<1>9. Straight(c, [c EXCEPT !.mem = m], S, {})
  BY <1>1, <1>7, MemoryStraight
<1>10. Straight(c, [c EXCEPT !.mem = n], {d.ddddd, SP_LO, SP_HI}, {})
  BY <1>1, <1>8, MemoryStraight
<1>11. QED
  BY <1>6, <1>9, <1>10, Zenon DEF S, sp

-----------------------------------------------------------------------------
(* What every handler leaves alone.                                        *)

\* The machine that the handler is called with.
Given(c) == Idle(c) /\ c.skip = FALSE /\ c.mem = memory /\ c.k = knobs

\* Handler r of the instruction at pc wrote nothing but what it may.
Handled(c, r) ==
  /\ \A a : a \notin MayWrite => membyte(r.mem, a) = membyte(c.mem, a)
  /\ SREG \notin MayWrite => r.set = {} /\ r.clr = {}
  /\ Code \in Computes => Within(r, Calc) /\ membyte(r.mem, SREG) = membyte(c.mem, SREG)
  /\ Code \notin Jumps => r.pc = c.pc
  /\ r.skip <=> SkipsNext

\* The bytes that an instruction may write, one kind of instruction at a time.
LEMMA MayWriteHas ==
  /\ Code \in Computes \cup {"bclrset", "bst", "reti"} => SREG \in MayWrite
  /\ ToRd => Decoded.ddddd \in MayWrite
  /\ Code \in Products => {0, 1} \subseteq MayWrite
  /\ Code \in WordOps => {WordPair(Decoded), WordPair(Decoded) + 1} \subseteq MayWrite
  /\ Code = "movw" => {2 * (Decoded.ddddd - 16), 2 * (Decoded.ddddd - 16) + 1} \subseteq MayWrite
  /\ Code = "des" => 0..7 \subseteq MayWrite
  /\ Code = "elpm" => 0 \in MayWrite
  /\ Code = "elpmz" /\ IsSet(Decoded.instr, 0) => {REGP_Z, REGP_Z + 1} \subseteq MayWrite
  /\ Code \in Loads \cup Stores => PointerBytes \subseteq MayWrite
  /\ Code \in Stores => Accessed \in MayWrite
  /\ Code = "sts" => Direct \in MayWrite
  /\ Code = "xch" => memword(memory, REGP_Z) \in MayWrite
  /\ Code = "cbisbi" => IoBit(Decoded) \in MayWrite
  /\ Code = "out" => IoPort(Decoded) \in MayWrite
  /\ Code = "push" => Pushed(1) \subseteq MayWrite
  /\ Calls => Pushed(FrameSize) \subseteq MayWrite
  /\ Calls \/ Returns \/ Code \in {"push", "pop"} => {SP_LO, SP_HI} \subseteq MayWrite
<1>2. /\ When(Code \in Computes \cup {"bclrset", "bst", "reti"}, {SREG}) \subseteq MayWrite
      /\ When(ToRd, {Decoded.ddddd}) \subseteq MayWrite
      /\ When(Code \in Products, {0, 1}) \subseteq MayWrite
      /\ When(Code \in WordOps, {WordPair(Decoded), WordPair(Decoded) + 1}) \subseteq MayWrite
      /\ When(Code = "movw", {2 * (Decoded.ddddd - 16), 2 * (Decoded.ddddd - 16) + 1}) \subseteq MayWrite
      /\ When(Code = "des", 0..7) \subseteq MayWrite
      /\ When(Code = "elpm", {0}) \subseteq MayWrite
      /\ When(Code = "elpmz" /\ IsSet(Decoded.instr, 0), {REGP_Z, REGP_Z + 1}) \subseteq MayWrite
      /\ When(Code \in Loads \cup Stores, PointerBytes) \subseteq MayWrite
      /\ When(Code \in Stores, {Accessed}) \subseteq MayWrite
      /\ When(Code = "sts", {Direct}) \subseteq MayWrite
      /\ When(Code = "xch", {memword(memory, REGP_Z)}) \subseteq MayWrite
      /\ When(Code = "cbisbi", {IoBit(Decoded)}) \subseteq MayWrite
      /\ When(Code = "out", {IoPort(Decoded)}) \subseteq MayWrite
      /\ When(Code = "push", Pushed(1)) \subseteq MayWrite
      /\ When(Calls, Pushed(FrameSize)) \subseteq MayWrite
      /\ When(Calls \/ Returns \/ Code \in {"push", "pop"}, {SP_LO, SP_HI}) \subseteq MayWrite
  BY Zenon DEF MayWrite
<1>3. Code \in Computes \cup {"bclrset", "bst", "reti"} => {SREG} \subseteq MayWrite
  BY <1>2, Zenon DEF When
<1>4. ToRd => {Decoded.ddddd} \subseteq MayWrite
  BY <1>2, Zenon DEF When
<1>5. Code \in Products => {0, 1} \subseteq MayWrite
  BY <1>2, Zenon DEF When
<1>6. Code \in WordOps => {WordPair(Decoded), WordPair(Decoded) + 1} \subseteq MayWrite
  BY <1>2, Zenon DEF When
<1>7. Code = "movw" => {2 * (Decoded.ddddd - 16), 2 * (Decoded.ddddd - 16) + 1} \subseteq MayWrite
  BY <1>2, Zenon DEF When
<1>8. Code = "des" => 0..7 \subseteq MayWrite
  BY <1>2, Zenon DEF When
<1>9. Code = "elpm" => {0} \subseteq MayWrite
  BY <1>2, Zenon DEF When
<1>10. Code = "elpmz" /\ IsSet(Decoded.instr, 0) => {REGP_Z, REGP_Z + 1} \subseteq MayWrite
  BY <1>2, Zenon DEF When
<1>11. Code \in Loads \cup Stores => PointerBytes \subseteq MayWrite
  BY <1>2, Zenon DEF When
<1>12. Code \in Stores => {Accessed} \subseteq MayWrite
  BY <1>2, Zenon DEF When
<1>13. Code = "sts" => {Direct} \subseteq MayWrite
  BY <1>2, Zenon DEF When
<1>14. Code = "xch" => {memword(memory, REGP_Z)} \subseteq MayWrite
  BY <1>2, Zenon DEF When
<1>15. Code = "cbisbi" => {IoBit(Decoded)} \subseteq MayWrite
  BY <1>2, Zenon DEF When
<1>16. Code = "out" => {IoPort(Decoded)} \subseteq MayWrite
  BY <1>2, Zenon DEF When
<1>17. Code = "push" => Pushed(1) \subseteq MayWrite
  BY <1>2, Zenon DEF When
<1>18. Calls => Pushed(FrameSize) \subseteq MayWrite
  BY <1>2, Zenon DEF When
<1>19. (Calls \/ Returns \/ Code \in {"push", "pop"}) => {SP_LO, SP_HI} \subseteq MayWrite
  BY <1>2, Zenon DEF When
<1>20. QED
  BY <1>3, <1>4, <1>5, <1>6, <1>7, <1>8, <1>9, <1>10, <1>11, <1>12, <1>13, <1>14, <1>15, <1>16, <1>17, <1>18, <1>19

\* A handler that writes bytes of S and asks for flags of F.
LEMMA HandledBy ==
  ASSUME NEW c, c.skip = FALSE, NEW r, NEW S, NEW F, Touches(c, r, S, F), S \subseteq MayWrite,
         F = {} \/ SREG \in MayWrite, Code \in Computes => F = Calc /\ SREG \notin S,
         Code \notin Jumps => r.pc = c.pc, Code \notin SkipCodes
  PROVE  Handled(c, r)
<1>1. ~SkipsNext
  BY DEF SkipsNext, SkipCodes
<1>2. SREG \notin MayWrite => r.set = {} /\ r.clr = {}
  BY DEF Touches
<1>3. Code \in Computes => Within(r, Calc) /\ membyte(r.mem, SREG) = membyte(c.mem, SREG)
  BY Zenon DEF Touches, Within
<1>4. \A a : a \notin MayWrite => membyte(r.mem, a) = membyte(c.mem, a)
  BY Zenon DEF Touches
<1>5. ~r.skip
  BY DEF Touches
<1>6. QED
  BY <1>1, <1>2, <1>3, <1>4, <1>5, Zenon DEF Handled

\* The same for one that goes on with the next instruction.
LEMMA HandledStraight ==
  ASSUME NEW c, c.skip = FALSE, NEW r, NEW S, NEW F, Straight(c, r, S, F), S \subseteq MayWrite,
         F = {} \/ SREG \in MayWrite, Code \in Computes => F = Calc /\ SREG \notin S,
         Code \notin SkipCodes
  PROVE  Handled(c, r)
BY HandledBy, Zenon DEF Straight

\* Arithmetic and logic.
LEMMA ArithHandled ==
  ASSUME TypeOK, NEW c, Given(c), NEW r, r = Execute(Code, c, Decoded),
         Code \in {"adc", "and", "andi", "or", "ori", "xor", "com", "neg", "inc", "dec", "asr", "lsr", "ror"}
  PROVE  Handled(c, r)
<1> DEFINE d == Decoded
           S == {d.ddddd}
<1>1. Plain(c) /\ c.skip = FALSE
  BY IdlePlain DEF Given
<1>2. /\ Straight(c, instr_adc(c, d), S, Calc) /\ Straight(c, instr_and(c, d), S, Calc)
      /\ Straight(c, instr_andi(c, d), S, Calc) /\ Straight(c, instr_or(c, d), S, Calc)
      /\ Straight(c, instr_ori(c, d), S, Calc) /\ Straight(c, instr_xor(c, d), S, Calc)
      /\ Straight(c, instr_com(c, d), S, Calc) /\ Straight(c, instr_neg(c, d), S, Calc)
      /\ Straight(c, instr_inc(c, d), S, Calc) /\ Straight(c, instr_dec(c, d), S, Calc)
      /\ Straight(c, instr_asr(c, d), S, Calc) /\ Straight(c, instr_lsr(c, d), S, Calc)
      /\ Straight(c, instr_ror(c, d), S, Calc)
  BY <1>1, ComputeStraight, Zenon
<1>3. /\ Execute("adc", c, d) = instr_adc(c, d) /\ Execute("and", c, d) = instr_and(c, d)
      /\ Execute("andi", c, d) = instr_andi(c, d) /\ Execute("or", c, d) = instr_or(c, d)
      /\ Execute("ori", c, d) = instr_ori(c, d) /\ Execute("xor", c, d) = instr_xor(c, d)
      /\ Execute("com", c, d) = instr_com(c, d) /\ Execute("neg", c, d) = instr_neg(c, d)
      /\ Execute("inc", c, d) = instr_inc(c, d) /\ Execute("dec", c, d) = instr_dec(c, d)
      /\ Execute("asr", c, d) = instr_asr(c, d) /\ Execute("lsr", c, d) = instr_lsr(c, d)
      /\ Execute("ror", c, d) = instr_ror(c, d)
  BY Dispatch, SMT
<1>4. S \subseteq MayWrite /\ SREG \in MayWrite /\ SREG \notin S
  <2>1. Code \in Computes /\ ToRd
    BY DEF Computes, ToRd, Compares, Products, WordOps
  <2>2. d.ddddd \in MayWrite /\ SREG \in MayWrite
    BY <2>1, MayWriteHas, Zenon
  <2>3. QED
    BY <2>2, DecodedTypes
<1>5. Code \notin SkipCodes
  BY DEF SkipCodes
<1> HIDE DEF S
<1>6. Straight(c, r, S, Calc)
  BY <1>2, <1>3, Zenon
<1>7. QED
  BY <1>1, <1>4, <1>5, <1>6, HandledStraight

\* ADIW and SBIW.
LEMMA WordOpsHandled ==
  ASSUME TypeOK, NEW c, Given(c), NEW r, r = Execute(Code, c, Decoded),
         Code \in {"adiw", "sbiw"}
  PROVE  Handled(c, r)
<1> DEFINE d == Decoded
           S == {WordPair(d), WordPair(d) + 1}
<1>1. Plain(c) /\ c.skip = FALSE
  BY IdlePlain DEF Given
<1>2. /\ Straight(c, instr_adiw(c, d), S, Calc) /\ Straight(c, instr_sbiw(c, d), S, Calc)
  BY <1>1, WordsStraight, Zenon
<1>3. /\ Execute("adiw", c, d) = instr_adiw(c, d) /\ Execute("sbiw", c, d) = instr_sbiw(c, d)
  BY Dispatch, SMT
<1>4. S \subseteq MayWrite /\ SREG \in MayWrite /\ SREG \notin S
  <2>1. Code \in Computes /\ Code \in WordOps
    BY DEF Computes, WordOps
  <2>2. S \subseteq MayWrite /\ SREG \in MayWrite
    BY <2>1, MayWriteHas, Zenon
  <2>3. Field(d.instr, 5, 4) \in 0..3
    BY DecodedTypes, OperandTypes, FieldTypes
  <2>4. SREG \notin S
    BY <2>3, SMT DEF WordPair, SREG
  <2>5. QED
    BY <2>2, <2>4
<1>5. Code \notin SkipCodes
  BY DEF SkipCodes
<1> HIDE DEF S
<1>6. Straight(c, r, S, Calc)
  BY <1>2, <1>3, Zenon
<1>7. QED
  BY <1>1, <1>4, <1>5, <1>6, HandledStraight

\* The multiplications.
LEMMA ProductsHandled ==
  ASSUME TypeOK, NEW c, Given(c), NEW r, r = Execute(Code, c, Decoded),
         Code \in {"mul", "muls", "mulsu", "fmul", "fmulsu"}
  PROVE  Handled(c, r)
<1> DEFINE d == Decoded
           S == {0, 1}
<1>1. Plain(c) /\ c.skip = FALSE
  BY IdlePlain DEF Given
<1>2. /\ Straight(c, instr_mul(c, d), S, Calc) /\ Straight(c, instr_muls(c, d), S, Calc)
      /\ Straight(c, instr_mulsu(c, d), S, Calc) /\ Straight(c, instr_fmul(c, d), S, Calc)
      /\ Straight(c, instr_fmulsu(c, d), S, Calc)
  BY <1>1, WordsStraight, Zenon
<1>3. /\ Execute("mul", c, d) = instr_mul(c, d) /\ Execute("muls", c, d) = instr_muls(c, d)
      /\ Execute("mulsu", c, d) = instr_mulsu(c, d) /\ Execute("fmul", c, d) = instr_fmul(c, d)
      /\ Execute("fmulsu", c, d) = instr_fmulsu(c, d)
  BY Dispatch, SMT
<1>4. S \subseteq MayWrite /\ SREG \in MayWrite /\ SREG \notin S
  <2>1. Code \in Computes /\ Code \in Products
    BY DEF Computes, Products
  <2>2. S \subseteq MayWrite /\ SREG \in MayWrite
    BY <2>1, MayWriteHas, Zenon
  <2>3. SREG \notin S
    BY SMT DEF SREG
  <2>4. QED
    BY <2>2, <2>3
<1>5. Code \notin SkipCodes
  BY DEF SkipCodes
<1> HIDE DEF S
<1>6. Straight(c, r, S, Calc)
  BY <1>2, <1>3, Zenon
<1>7. QED
  BY <1>1, <1>4, <1>5, <1>6, HandledStraight

\* Transfers to Rd.
LEMMA MovesHandled ==
  ASSUME TypeOK, NEW c, Given(c), NEW r, r = Execute(Code, c, Decoded),
         Code \in {"swap", "bld", "mov", "ldi", "in", "lds"}
  PROVE  Handled(c, r)
<1> DEFINE d == Decoded
           S == {d.ddddd}
<1>1. Plain(c) /\ c.skip = FALSE
  BY IdlePlain DEF Given
<1>2. /\ Straight(c, instr_swap(c, d), S, {}) /\ Straight(c, instr_bld(c, d), S, {})
      /\ Straight(c, instr_mov(c, d), S, {}) /\ Straight(c, instr_ldi(c, d), S, {})
      /\ Straight(c, instr_in(c, d), S, {}) /\ Straight(c, instr_lds(c, d), S, {})
  BY <1>1, MoveStraight, Zenon
<1>3. /\ Execute("swap", c, d) = instr_swap(c, d) /\ Execute("bld", c, d) = instr_bld(c, d)
      /\ Execute("mov", c, d) = instr_mov(c, d) /\ Execute("ldi", c, d) = instr_ldi(c, d)
      /\ Execute("in", c, d) = instr_in(c, d) /\ Execute("lds", c, d) = instr_lds(c, d)
  BY Dispatch, SMT
<1>4. S \subseteq MayWrite
  <2>1. ToRd
    BY DEF ToRd
  <2>2. QED
    BY <2>1, MayWriteHas, Zenon
<1>5. Code \notin SkipCodes /\ Code \notin Computes
  BY DEF SkipCodes, Computes
<1> HIDE DEF S
<1>6. Straight(c, r, S, {})
  BY <1>2, <1>3, Zenon
<1>7. QED
  BY <1>1, <1>4, <1>5, <1>6, HandledStraight

\* OUT.
LEMMA OutHandled ==
  ASSUME TypeOK, NEW c, Given(c), NEW r, r = Execute(Code, c, Decoded),
         Code \in {"out"}
  PROVE  Handled(c, r)
<1> DEFINE d == Decoded
           S == {IoPort(d)}
<1>1. Plain(c) /\ c.skip = FALSE
  BY IdlePlain DEF Given
<1>2. /\ Straight(c, instr_out(c, d), S, {})
  BY <1>1, MoveStraight, Zenon
<1>3. /\ Execute("out", c, d) = instr_out(c, d)
  BY Dispatch, SMT
<1>4. S \subseteq MayWrite
  BY MayWriteHas
<1>5. Code \notin SkipCodes /\ Code \notin Computes
  BY DEF SkipCodes, Computes
<1> HIDE DEF S
<1>6. Straight(c, r, S, {})
  BY <1>2, <1>3, Zenon
<1>7. QED
  BY <1>1, <1>4, <1>5, <1>6, HandledStraight

\* CBI and SBI.
LEMMA CbisbiHandled ==
  ASSUME TypeOK, NEW c, Given(c), NEW r, r = Execute(Code, c, Decoded),
         Code \in {"cbisbi"}
  PROVE  Handled(c, r)
<1> DEFINE d == Decoded
           S == {IoBit(d)}
<1>1. Plain(c) /\ c.skip = FALSE
  BY IdlePlain DEF Given
<1>2. /\ Straight(c, instr_cbisbi(c, d), S, {})
  BY <1>1, MoveStraight, Zenon
<1>3. /\ Execute("cbisbi", c, d) = instr_cbisbi(c, d)
  BY Dispatch, SMT
<1>4. S \subseteq MayWrite
  BY MayWriteHas
<1>5. Code \notin SkipCodes /\ Code \notin Computes
  BY DEF SkipCodes, Computes
<1> HIDE DEF S
<1>6. Straight(c, r, S, {})
  BY <1>2, <1>3, Zenon
<1>7. QED
  BY <1>1, <1>4, <1>5, <1>6, HandledStraight

\* MOVW.
LEMMA MovwHandled ==
  ASSUME TypeOK, NEW c, Given(c), NEW r, r = Execute(Code, c, Decoded),
         Code \in {"movw"}
  PROVE  Handled(c, r)
<1> DEFINE d == Decoded
           S == {2 * (d.ddddd - 16), 2 * (d.ddddd - 16) + 1}
<1>1. Plain(c) /\ c.skip = FALSE
  BY IdlePlain DEF Given
<1>2. /\ Straight(c, instr_movw(c, d), S, {})
  BY <1>1, MoveStraight, Zenon
<1>3. /\ Execute("movw", c, d) = instr_movw(c, d)
  BY Dispatch, SMT
<1>4. S \subseteq MayWrite
  BY MayWriteHas
<1>5. Code \notin SkipCodes /\ Code \notin Computes
  BY DEF SkipCodes, Computes
<1> HIDE DEF S
<1>6. Straight(c, r, S, {})
  BY <1>2, <1>3, Zenon
<1>7. QED
  BY <1>1, <1>4, <1>5, <1>6, HandledStraight

\* LPM and ELPM into R0.
LEMMA ElpmHandled ==
  ASSUME TypeOK, NEW c, Given(c), NEW r, r = Execute(Code, c, Decoded),
         Code \in {"elpm"}
  PROVE  Handled(c, r)
<1> DEFINE d == Decoded
           S == {0}
<1>1. Plain(c) /\ c.skip = FALSE
  BY IdlePlain DEF Given
<1>2. /\ Straight(c, instr_elpm(c, d), S, {})
  BY <1>1, MoveStraight, Zenon
<1>3. /\ Execute("elpm", c, d) = instr_elpm(c, d)
  BY Dispatch, SMT
<1>4. S \subseteq MayWrite
  BY MayWriteHas
<1>5. Code \notin SkipCodes /\ Code \notin Computes
  BY DEF SkipCodes, Computes
<1> HIDE DEF S
<1>6. Straight(c, r, S, {})
  BY <1>2, <1>3, Zenon
<1>7. QED
  BY <1>1, <1>4, <1>5, <1>6, HandledStraight

\* NOP.
LEMMA NopHandled ==
  ASSUME TypeOK, NEW c, Given(c), NEW r, r = Execute(Code, c, Decoded),
         Code \in {"nop"}
  PROVE  Handled(c, r)
<1> DEFINE d == Decoded
           S == {}
<1>1. Plain(c) /\ c.skip = FALSE
  BY IdlePlain DEF Given
<1>2. /\ Straight(c, instr_nop(c, d), S, {})
  BY <1>1, MoveStraight, Zenon
<1>3. /\ Execute("nop", c, d) = instr_nop(c, d)
  BY Dispatch, SMT
<1>4. S \subseteq MayWrite
  OBVIOUS
<1>5. Code \notin SkipCodes /\ Code \notin Computes
  BY DEF SkipCodes, Computes
<1> HIDE DEF S
<1>6. Straight(c, r, S, {})
  BY <1>2, <1>3, Zenon
<1>7. QED
  BY <1>1, <1>4, <1>5, <1>6, HandledStraight

\* CP, CPC, SUB, SBC and CPI, SUBI, SBCI.
LEMMA SubHandled ==
  ASSUME TypeOK, NEW c, Given(c), NEW r, r = Execute(Code, c, Decoded), Code \in {"cpc", "cpi"}
  PROVE  Handled(c, r)
<1> DEFINE d == Decoded
           S == IF Compares THEN {} ELSE {d.ddddd}
<1>1. Plain(c) /\ c.skip = FALSE
  BY IdlePlain DEF Given
<1>2. Straight(c, r, S, Calc)
  <2>1. CASE Code = "cpc"
    <3>1. S = IF Field(d.instr, 11, 10) = 1 THEN {} ELSE {d.ddddd}
      BY <2>1 DEF Compares
    <3>2. r = instr_cpc(c, d)
      BY <2>1, Dispatch, SMT
    <3>3. Straight(c, instr_cpc(c, d), IF Field(d.instr, 11, 10) = 1 THEN {} ELSE {d.ddddd}, Calc)
      BY <1>1, SubStraight
    <3>4. QED
      BY <3>1, <3>2, <3>3, Zenon
  <2>2. CASE Code = "cpi"
    <3>1. S = IF Field(d.instr, 14, 13) = 2 THEN {d.ddddd} ELSE {}
      BY <2>2 DEF Compares
    <3>2. r = instr_cpi(c, d)
      BY <2>2, Dispatch, SMT
    <3>3. Straight(c, instr_cpi(c, d), IF Field(d.instr, 14, 13) = 2 THEN {d.ddddd} ELSE {}, Calc)
      BY <1>1, SubStraight
    <3>4. QED
      BY <3>1, <3>2, <3>3, Zenon
  <2>3. QED
    BY <2>1, <2>2
<1>3. S \subseteq MayWrite /\ SREG \in MayWrite /\ SREG \notin S
  <2>1. Code \in Computes /\ (~Compares => ToRd)
    BY DEF Computes, ToRd, Products, WordOps
  <2>2. SREG \in MayWrite /\ (~Compares => d.ddddd \in MayWrite)
    BY <2>1, MayWriteHas, Zenon
  <2>3. QED
    BY <2>2, DecodedTypes
<1>4. Code \notin SkipCodes
  BY DEF SkipCodes
<1> HIDE DEF S
<1>5. QED
  BY <1>1, <1>2, <1>3, <1>4, HandledStraight

\* STS.
LEMMA StsHandled ==
  ASSUME TypeOK, NEW c, Given(c), NEW r, r = Execute(Code, c, Decoded), Code = "sts"
  PROVE  Handled(c, r)
<1> DEFINE d == Decoded
           a == Extend(c, d.imm_u16, RAMPD)
           at == IF c.k.pc_mem_max_256b THEN a % 256 ELSE a
<1>1. Plain(c) /\ c.skip = FALSE /\ c.mem = memory /\ c.k = knobs
  BY IdlePlain DEF Given
<1>2. r = instr_sts(c, d)
  BY Dispatch, SMT
<1>3. Straight(c, r, {at}, {})
  BY <1>1, <1>2, MoveStraight, Zenon
<1>4. at = Direct
  <2>1. d.imm_u16 \in Int
    BY DecodedTypes, OperandTypes
  <2>2. QED
    BY <1>1, <2>1, SMT DEF Extend, Direct, Reg
<1>5. {at} \subseteq MayWrite
  BY <1>4, MayWriteHas
<1>6. Code \notin SkipCodes /\ Code \notin Computes
  BY DEF SkipCodes, Computes
<1> HIDE DEF at
<1>7. QED
  BY <1>1, <1>3, <1>5, <1>6, HandledStraight

\* XCH, LAS, LAC and LAT.
LEMMA XchHandled ==
  ASSUME TypeOK, NEW c, Given(c), NEW r, r = Execute(Code, c, Decoded), Code = "xch"
  PROVE  Handled(c, r)
<1> DEFINE S == {memword(memory, REGP_Z), Decoded.ddddd}
<1>1. Plain(c) /\ c.skip = FALSE /\ c.mem = memory
  BY IdlePlain DEF Given
<1>2. r = instr_xch(c, Decoded)
  BY Dispatch, SMT
<1>3. Straight(c, r, S, {})
  BY <1>1, <1>2, TwoStraight, Zenon
<1>4. S \subseteq MayWrite
  <2>1. ToRd
    BY DEF ToRd
  <2>2. QED
    BY <2>1, MayWriteHas
<1>5. Code \notin SkipCodes /\ Code \notin Computes
  BY DEF SkipCodes, Computes
<1> HIDE DEF S
<1>6. QED
  BY <1>1, <1>3, <1>4, <1>5, HandledStraight

\* ELPM Z+ into Z itself ends the process.
LEMMA ElpmzTraps ==
  ASSUME NEW c, NEW d, IsSet(d.instr, 0), d.ddddd \in {30, 31}
  PROVE  instr_elpmz(c, d) = Trap(c)
<1> DEFINE addr   == FlashAddr(c, IsSet(d.instr, 1))
           loaded == Put(c, d.ddddd, rombyte(c.flash, addr))
           moved  == PutWord(loaded, REGP_Z, (addr + 1) % 65536)
<1>1. instr_elpmz(c, d) = CASE IsSet(d.instr, 0) /\ d.ddddd \in {30, 31} -> Trap(c)
        [] IsSet(d.instr, 0) /\ d.ddddd \notin {30, 31} -> moved
        [] ~IsSet(d.instr, 0) -> loaded
  BY DEF instr_elpmz
<1> HIDE DEF loaded, moved
<1>2. QED
  BY <1>1, Zenon

\* LPM and ELPM through Z, where they are defined.
LEMMA ElpmzHandled ==
  ASSUME TypeOK, NEW c, Given(c), NEW r, r = Execute(Code, c, Decoded), Code = "elpmz",
         r.trap = FALSE
  PROVE  Handled(c, r)
<1> DEFINE d == Decoded
           inc == IsSet(d.instr, 0)
           S == IF inc THEN {d.ddddd, REGP_Z, REGP_Z + 1} ELSE {d.ddddd}
<1>1. Plain(c) /\ c.skip = FALSE
  BY IdlePlain DEF Given
<1>2. r = instr_elpmz(c, d)
  BY Dispatch, SMT
<1>3. ~(inc /\ d.ddddd \in {30, 31})
  <2>1. SUFFICES ASSUME inc /\ d.ddddd \in {30, 31} PROVE FALSE
    OBVIOUS
  <2>2. Trap(c).trap = TRUE
    BY <1>1 DEF Plain, Trap
  <2>3. r = Trap(c)
    BY <1>2, <2>1, ElpmzTraps, Zenon
  <2>4. QED
    BY <2>2, <2>3
<1>4. Straight(c, r, S, {})
  BY <1>1, <1>2, <1>3, TwoStraight, Zenon
<1>5. S \subseteq MayWrite
  <2>1. ToRd
    BY DEF ToRd
  <2>2. d.ddddd \in MayWrite /\ (inc => {REGP_Z, REGP_Z + 1} \subseteq MayWrite)
    BY <2>1, MayWriteHas, Zenon
  <2>3. QED
    BY <2>2
<1>6. Code \notin SkipCodes /\ Code \notin Computes
  BY DEF SkipCodes, Computes
<1> HIDE DEF S
<1>7. QED
  BY <1>1, <1>4, <1>5, <1>6, HandledStraight

\* DES, the instructions on one flag, PUSH and POP.
LEMMA BitsHandled ==
  ASSUME TypeOK, NEW c, Given(c), NEW r, r = Execute(Code, c, Decoded),
         Code \in {"des", "bclrset", "bst", "push", "pop"}
  PROVE  Handled(c, r)
<1> DEFINE d == Decoded
<1>1. Plain(c) /\ c.skip = FALSE /\ Idle(c) /\ c.mem = memory
  BY IdlePlain DEF Given
<1>2. Code \notin SkipCodes /\ Code \notin Computes
  BY DEF SkipCodes, Computes
<1>3. CASE Code = "des"
  <2>1. Straight(c, r, 0..7, {})
    BY <1>1, <1>3, BitsStraight, Dispatch, SMT
  <2>2. 0..7 \subseteq MayWrite
    BY <1>3, MayWriteHas, Zenon
  <2>3. QED
    BY <1>1, <1>2, <2>1, <2>2, HandledStraight
<1>4. CASE Code = "bclrset" \/ Code = "bst"
  <2>1. SREG \in MayWrite
    BY <1>4, MayWriteHas
  <2>2. r = instr_bclrset(c, d) \/ r = instr_bst(c, d)
    BY <1>4, Dispatch, SMT
  <2>3. \E F : Straight(c, r, {}, F)
    BY <1>1, <2>2, BitsStraight, Zenon
  <2>4. PICK F : Straight(c, r, {}, F)
    BY <2>3
  <2> DEFINE S == {}
  <2>5. Straight(c, r, S, F) /\ S \subseteq MayWrite
    BY <2>4
  <2> HIDE DEF S
  <2>6. QED
    BY <1>1, <1>2, <2>1, <2>5, HandledStraight
<1>5. CASE Code = "push"
  <2> DEFINE S == Below(getsp(memory), 1) \cup {SP_LO, SP_HI}
  <2>1. r = instr_push(c, d)
    BY <1>5, Dispatch, SMT
  <2>2. Straight(c, r, S, {})
    BY <1>1, <2>1, StackStraight, Zenon
  <2>3. Pushed(1) \subseteq MayWrite /\ {SP_LO, SP_HI} \subseteq MayWrite
    <3>1. Calls \/ Returns \/ Code \in {"push", "pop"}
      BY <1>5
    <3>2. QED
      BY <1>5, <3>1, MayWriteHas, Zenon
  <2>4. S \subseteq MayWrite
    <3>1. Pushed(1) = Below(getsp(memory), 1)
      BY SMT DEF Pushed, Below
    <3>2. QED
      BY <2>3, <3>1, Zenon
  <2> HIDE DEF S
  <2>5. QED
    BY <1>1, <1>2, <2>2, <2>4, HandledStraight
<1>6. CASE Code = "pop"
  <2> DEFINE S == {d.ddddd, SP_LO, SP_HI}
  <2>1. r = instr_pop(c, d)
    BY <1>6, Dispatch, SMT
  <2>2. Straight(c, r, S, {})
    BY <1>1, <2>1, StackStraight, Zenon
  <2>3. S \subseteq MayWrite
    <3>1. ToRd /\ (Calls \/ Returns \/ Code \in {"push", "pop"})
      BY <1>6 DEF ToRd
    <3>2. d.ddddd \in MayWrite /\ {SP_LO, SP_HI} \subseteq MayWrite
      BY <3>1, MayWriteHas, Zenon
    <3>3. QED
      BY <3>2
  <2> HIDE DEF S
  <2>4. QED
    BY <1>1, <1>2, <2>2, <2>3, HandledStraight
<1>7. QED
  BY <1>3, <1>4, <1>5, <1>6

\* Loads and stores through a pointer.
LEMMA LoadStoreHandled ==
  ASSUME TypeOK, NEW c, Given(c), c = Fetched(pc, memory), NEW r, r = Execute(Code, c, Decoded),
         Code \in Loads \cup Stores, r.trap = FALSE, IsMemory(r.mem)
  PROVE  Handled(c, r)
<1> DEFINE at == IF Code \in Stores THEN {Accessed} ELSE {Decoded.ddddd}
           S == at \cup PointerBytes
<1>1. Straight(c, r, S, {})
  BY HandlerAccess, Zenon
<1>2. S \subseteq MayWrite
  <2>1. PointerBytes \subseteq MayWrite /\ (Code \in Stores => Accessed \in MayWrite)
    BY MayWriteHas, Zenon
  <2>2. Code \notin Stores => ToRd
    BY DEF ToRd
  <2>3. Code \notin Stores => Decoded.ddddd \in MayWrite
    BY <2>2, MayWriteHas, Zenon
  <2>4. QED
    BY <2>1, <2>3, Zenon
<1>3. Code \notin SkipCodes /\ Code \notin Computes /\ c.skip = FALSE
  BY DEF SkipCodes, Computes, Loads, Stores, Given
<1> HIDE DEF S
<1>4. QED
  BY <1>1, <1>2, <1>3, HandledStraight

\* A handler that jumps, with memory as it was at S and elsewhere.
LEMMA FlowHandled ==
  ASSUME NEW c, c.skip = FALSE, NEW r, NEW m, Flows(c, r, m), NEW S, S \subseteq MayWrite,
         \A a : a \notin S => membyte(m, a) = membyte(c.mem, a), Code \in Jumps
  PROVE  Handled(c, r)
<1>1. Touches(c, r, S, {})
  BY Zenon DEF Touches, Flows
<1>2. Code \notin SkipCodes /\ Code \notin Computes
  BY DEF SkipCodes, Computes, Jumps
<1>3. QED
  BY <1>1, <1>2, HandledBy

\* JMP and the conditional branches write nothing.
LEMMA JumpsHandled ==
  ASSUME TypeOK, NEW c, Given(c), NEW r, r = Execute(Code, c, Decoded), Code \in {"jmp", "brb"}
  PROVE  Handled(c, r)
<1>1. Plain(c) /\ c.skip = FALSE
  BY IdlePlain DEF Given
<1>2. r = instr_jmp(c, Decoded) \/ r = instr_brb(c, Decoded)
  BY Dispatch, SMT
<1>3. Flows(c, r, c.mem)
  BY <1>1, <1>2, FlowIs, Zenon
<1>4. Code \in Jumps
  BY DEF Jumps
<1>5. {} \subseteq MayWrite
  OBVIOUS
<1>6. QED
  BY <1>1, <1>3, <1>4, <1>5, FlowHandled, Zenon

\* The size of what CALL, and of what the other two, are decoded from.
LEMMA CallSizes ==
  ASSUME Fetches(Flash, pc)
  PROVE  /\ Code = "call" => InstrSize(Flash, pc) = 2
         /\ Code \in {"eicalljump", "rcalljmp"} => InstrSize(Flash, pc) = 1
<1> DEFINE row == Row(romword(Flash, pc))
<1>1. PICK i \in 1..68 : row = avr_instr[i]
  BY RowExists DEF Fetches
<1>2. avr_instr[i].code = "call" => avr_instr[i].fields = {"imm16"}
  BY SMT DEF avr_instr, E
<1>3. avr_instr[i].code \in {"eicalljump", "rcalljmp"} => avr_instr[i].fields = {}
  BY SMT DEF avr_instr, E
<1>4. Code = row.code /\ InstrSize(Flash, pc) = IF "imm16" \in row.fields THEN 2 ELSE 1
  BY Zenon DEF Code, InstrSize, SizeOf
<1> HIDE DEF row
<1>5. (Code = "call" => row.fields = {"imm16"}) /\ (Code \in {"eicalljump", "rcalljmp"} => row.fields = {})
  BY <1>1, <1>2, <1>3, <1>4, Zenon
<1>6. QED
  BY <1>4, <1>5

\* The calls push the address of the following instruction; the jumps of the same handlers
\* write nothing.
LEMMA CallIs ==
  ASSUME Fetches(Flash, pc), NEW c, Given(c), c = Fetched(pc, memory), NEW r,
         r = Execute(Code, c, Decoded), r.trap = FALSE, Code \in {"call", "eicalljump", "rcalljmp"}
  PROVE  Flows(c, r, IF Calls THEN PushPc(memory, Following, knobs.pc22) ELSE memory)
<1> DEFINE d == Decoded
           frame(size) == PushPc(c.mem, c.pc_start + size, c.k.pc22)
<1>1. Plain(c) /\ c.mem = memory /\ c.k = knobs /\ c.pc_start = pc
  BY IdlePlain DEF Given, Fetched
<1>2. Following = pc + InstrSize(Flash, pc)
  BY Zenon DEF Following
<1>3. \A size : size = InstrSize(Flash, pc) => frame(size) = PushPc(memory, Following, knobs.pc22)
  BY <1>1, <1>2, Zenon
<1>4. CASE Code = "call"
  <2>1. r = instr_call(c, d) /\ Calls
    BY <1>4, Dispatch, SMT DEF Calls
  <2>2. Flows(c, r, frame(2))
    BY <1>1, <2>1, FlowIs, Zenon
  <2>3. InstrSize(Flash, pc) = 2
    BY <1>4, CallSizes
  <2> HIDE DEF frame
  <2>4. QED
    BY <1>3, <2>1, <2>2, <2>3, Zenon
<1>5. CASE Code = "eicalljump"
  <2>1. r = instr_eicalljump(c, d)
    BY <1>5, Dispatch, SMT
  <2>2. ~(IsSet(d.instr, 4) /\ ~c.k.pc22)
    <3>1. SUFFICES ASSUME IsSet(d.instr, 4) /\ ~c.k.pc22 PROVE FALSE
      OBVIOUS
    <3>2. Trap(c).trap = TRUE
      BY <1>1 DEF Plain, Trap
    <3>3. r = Trap(c)
      BY <2>1, <3>1, SMT DEF instr_eicalljump
    <3>4. QED
      BY <3>2, <3>3
  <2>3. Flows(c, r, IF IsSet(d.instr, 8) THEN frame(1) ELSE c.mem)
    BY <1>1, <2>1, <2>2, FlowIs, Zenon
  <2>4. InstrSize(Flash, pc) = 1 /\ (Calls <=> IsSet(d.instr, 8))
    BY <1>5, CallSizes DEF Calls
  <2> HIDE DEF frame
  <2>5. QED
    BY <1>1, <1>3, <2>3, <2>4, Zenon
<1>6. CASE Code = "rcalljmp"
  <2>1. r = instr_rcalljmp(c, d)
    BY <1>6, Dispatch, SMT
  <2>2. Flows(c, r, IF IsSet(d.instr, 12) THEN frame(1) ELSE c.mem)
    BY <1>1, <2>1, FlowIs, Zenon
  <2>3. InstrSize(Flash, pc) = 1 /\ (Calls <=> IsSet(d.instr, 12))
    BY <1>6, CallSizes DEF Calls
  <2> HIDE DEF frame
  <2>4. QED
    BY <1>1, <1>3, <2>2, <2>3, Zenon
<1>7. QED
  BY <1>4, <1>5, <1>6

\* So much for what they write.
LEMMA CallsHandled ==
  ASSUME TypeOK, Fetches(Flash, pc), NEW c, Given(c), c = Fetched(pc, memory), NEW r,
         r = Execute(Code, c, Decoded), r.trap = FALSE, Code \in {"call", "eicalljump", "rcalljmp"}
  PROVE  Handled(c, r)
<1> DEFINE sp == getsp(memory)
           wide == knobs.pc22
           frame == PushPc(memory, Following, wide)
           S == Pushed(FrameSize) \cup {SP_LO, SP_HI}
<1>1. Flows(c, r, IF Calls THEN frame ELSE memory)
  BY CallIs, Zenon
<1>2. c.skip = FALSE /\ c.mem = memory /\ Code \in Jumps
  BY DEF Given, Jumps
<1>3. sp \in Word16
  BY ReadType DEF TypeOK
<1>4. wide \in BOOLEAN /\ FrameSize = IF wide THEN 3 ELSE 2
  BY DEF TypeOK, Knobs, FrameSize
<1>5. Pushed(FrameSize) = Below(sp, FrameSize)
  BY SMT DEF Pushed, Below
<1>6. \A a : a \notin S => membyte(frame, a) = membyte(memory, a)
  <2> DEFINE n == FrameSize
  <2> HIDE DEF sp, frame, wide, n
  <2>1. \A a : a \notin Below(sp, n) \cup {SP_LO, SP_HI} => membyte(frame, a) = membyte(memory, a)
    BY <1>3, <1>4, PushPcIs DEF sp, frame, n
  <2>2. QED
    BY <1>5, <2>1, Zenon DEF n
<1>7. Calls => S \subseteq MayWrite
  BY MayWriteHas, Zenon
<1> HIDE DEF frame, S
<1>8. CASE Calls
  <2>1. Flows(c, r, frame)
    BY <1>1, <1>8, Zenon
  <2>2. \A a : a \notin S => membyte(frame, a) = membyte(c.mem, a)
    BY <1>2, <1>6, Zenon
  <2>3. S \subseteq MayWrite /\ c.skip = FALSE /\ Code \in Jumps
    BY <1>2, <1>7, <1>8, Zenon
  <2>4. Touches(c, r, S, {})
    BY <2>1, <2>2, Zenon DEF Touches, Flows
  <2>5. Code \notin SkipCodes /\ Code \notin Computes
    BY DEF SkipCodes, Computes
  <2>6. QED
    BY <2>3, <2>4, <2>5, HandledBy
<1>9. CASE ~Calls
  <2>1. Flows(c, r, c.mem) /\ c.skip = FALSE /\ Code \in Jumps
    BY <1>1, <1>2, <1>9, Zenon
  <2>2. {} \subseteq MayWrite
    OBVIOUS
  <2>3. QED
    BY <2>1, <2>2, FlowHandled, Zenon
<1>10. QED
  BY <1>8, <1>9

\* RET and RETI.
LEMMA RetHandled ==
  ASSUME TypeOK, NEW c, Given(c), NEW r, r = Execute(Code, c, Decoded), Code \in {"ret", "reti"}
  PROVE  Handled(c, r)
<1>1. Plain(c) /\ Idle(c) /\ c.skip = FALSE
  BY IdlePlain DEF Given
<1>2. Code \in Jumps /\ Returns
  BY DEF Jumps, Returns
<1>3. {SP_LO, SP_HI} \subseteq MayWrite
  BY <1>2, MayWriteHas, Zenon
<1>4. \A a : a # SP_LO /\ a # SP_HI => membyte(Unwound(c), a) = membyte(c.mem, a)
  BY <1>1, UnwoundReads
<1>5. CASE Code = "ret"
  <2>1. r = instr_ret(c, Decoded)
    BY <1>5, Dispatch, SMT
  <2>2. Flows(c, r, Unwound(c))
    BY <1>1, <2>1, RetIs, Zenon
  <2>3. \A a : a \notin {SP_LO, SP_HI} => membyte(Unwound(c), a) = membyte(c.mem, a)
    BY <1>4, Zenon
  <2>4. QED
    BY <1>1, <1>2, <1>3, <2>2, <2>3, FlowHandled, Zenon
<1>6. CASE Code = "reti"
  <2>1. r = instr_reti(c, Decoded)
    BY <1>6, Dispatch, SMT
  <2>2. PICK v : Flows(c, r, Store(Unwound(c), SREG, v))
    BY <1>1, <2>1, RetIs, Zenon
  <2> DEFINE m == Store(Unwound(c), SREG, v)
             S == {SP_LO, SP_HI, SREG}
  <2>3. \A a : membyte(m, a) = IF a = SREG THEN v ELSE membyte(Unwound(c), a)
    BY ReadStore
  <2>4. \A a : a \notin S => membyte(m, a) = membyte(c.mem, a)
    <3> HIDE DEF m
    <3>1. QED
      BY <1>4, <2>3, Zenon
  <2>5. S \subseteq MayWrite
    <3>1. SREG \in MayWrite
      BY <1>6, MayWriteHas
    <3>2. QED
      BY <1>3, <3>1, Zenon
  <2> HIDE DEF m, S
  <2>6. Flows(c, r, m)
    BY <2>2, Zenon DEF m
  <2>7. QED
    BY <1>1, <1>2, <2>4, <2>5, <2>6, FlowHandled, Zenon
<1>7. QED
  BY <1>5, <1>6

\* CPSE, SBRC, SBRS, SBIC and SBIS.
LEMMA SkipHandled ==
  ASSUME TypeOK, NEW c, Given(c), NEW r, r = Execute(Code, c, Decoded), Code \in SkipCodes
  PROVE  Handled(c, r)
<1> DEFINE d == Decoded
           set(v) == IsSet(d.instr, 9) = IsSet(v, d.rrrrr - 16)
<1>1. Plain(c) /\ c.mem = memory
  BY IdlePlain DEF Given
<1>2. ASSUME NEW cond
      PROVE  LET s == SkipIf(c, cond)
             IN  s.mem = memory /\ s.set = {} /\ s.clr = {} /\ s.skip = cond /\ s.pc = c.pc
  BY <1>1 DEF SkipIf, Plain
<1>3. \A a : Reg(c, a) = membyte(memory, a)
  BY <1>1 DEF Reg
<1>4. \E cond : r = SkipIf(c, cond) /\ (r.skip <=> SkipsNext)
  <2>1. CASE Code = "cpse"
    <3>1. r = SkipIf(c, Rd = Rr)
      BY <1>3, <2>1, Dispatch, SMT DEF instr_cpse, Rd, Rr
    <3>2. SkipsNext <=> Rd = Rr
      BY <2>1 DEF SkipsNext
    <3>3. r.skip = (Rd = Rr)
      BY <1>2, <3>1, Zenon
    <3>4. QED
      BY <3>1, <3>2, <3>3, Zenon
  <2>2. CASE Code = "sbrcs"
    <3>1. Execute("sbrcs", c, d) = instr_sbrcs(c, d)
      BY Dispatch, SMT
    <3>2. r = SkipIf(c, set(Rd))
      BY <1>3, <2>2, <3>1, Zenon DEF instr_sbrcs, Rd
    <3>3. Code # "cpse" /\ Code # "sbics"
      BY <2>2
    <3>4. SkipsNext <=> set(Rd)
      BY <2>2, <3>3, Zenon DEF SkipsNext
    <3>5. r.skip = set(Rd)
      BY <1>2, <3>2, Zenon
    <3> HIDE DEF set
    <3>6. QED
      BY <3>2, <3>4, <3>5, Zenon
  <2>3. CASE Code = "sbics"
    <3> DEFINE io == membyte(memory, IoBit(d))
    <3>1. Execute("sbics", c, d) = instr_sbics(c, d)
      BY Dispatch, SMT
    <3>2. r = SkipIf(c, set(io))
      BY <1>3, <2>3, <3>1, Zenon DEF instr_sbics
    <3>3. Code # "cpse" /\ Code # "sbrcs"
      BY <2>3
    <3>4. SkipsNext <=> set(io)
      BY <2>3, <3>3, Zenon DEF SkipsNext
    <3>5. r.skip = set(io)
      BY <1>2, <3>2, Zenon
    <3> HIDE DEF set, io
    <3>6. QED
      BY <3>2, <3>4, <3>5, Zenon
  <2>4. QED
    BY <2>1, <2>2, <2>3, Zenon DEF SkipCodes
<1>5. r.mem = memory /\ r.set = {} /\ r.clr = {} /\ r.pc = c.pc
  <2>1. PICK cond : r = SkipIf(c, cond)
    BY <1>4, Zenon
  <2>2. LET s == SkipIf(c, cond) IN s.mem = memory /\ s.set = {} /\ s.clr = {} /\ s.pc = c.pc
    BY <1>2, Zenon
  <2>3. QED
    BY <2>1, <2>2, Zenon
<1>6. Code \notin Computes
  BY DEF SkipCodes, Computes
<1>7. QED
  BY <1>1, <1>4, <1>5, <1>6, Zenon DEF Handled

\* Every handler that did not end the process.
LEMMA AllHandled ==
  ASSUME TypeOK, Fetches(Flash, pc), NEW r, r = Execute(Code, Fetched(pc, memory), Decoded),
         r.trap = FALSE, IsMemory(r.mem)
  PROVE  Handled(Fetched(pc, memory), r)
<1> DEFINE c == Fetched(pc, memory)
<1>1. Given(c)
  <2>1. Idle(c)
    BY FetchedIdle DEF TypeOK
  <2>2. QED
    BY <2>1 DEF Given, Fetched
<1>2. PICK i \in 1..68 : Row(romword(Flash, pc)) = avr_instr[i]
  BY RowExists DEF Fetches
<1>3. Code \in Codes
  BY <1>2, TableCodes DEF Code
<1>4. Code # "unimp"
  <2>1. SUFFICES ASSUME Code = "unimp" PROVE FALSE
    OBVIOUS
  <2>2. r = Trap(c)
    BY <2>1, Dispatch, SMT DEF instr_unimp
  <2>3. "trap" \in DOMAIN c
    BY DEF Fetched
  <2> HIDE DEF c
  <2>4. QED
    BY <2>2, <2>3 DEF Trap
<1> HIDE DEF c
<1>5. c = Fetched(pc, memory) /\ r = Execute(Code, c, Decoded)
  BY DEF c
<1>6. Code \in {"adc", "and", "andi", "or", "ori", "xor", "com", "neg", "inc", "dec", "asr",
                     "lsr", "ror"} => Handled(c, r)
  BY <1>1, <1>5, ArithHandled
<1>7. Code \in {"adiw", "sbiw"} => Handled(c, r)
  BY <1>1, <1>5, WordOpsHandled
<1>8. Code \in {"mul", "muls", "mulsu", "fmul", "fmulsu"} => Handled(c, r)
  BY <1>1, <1>5, ProductsHandled
<1>9. Code \in {"swap", "bld", "mov", "ldi", "in", "lds"} => Handled(c, r)
  BY <1>1, <1>5, MovesHandled
<1>10. Code \in {"out", "cbisbi", "movw", "elpm", "nop"} => Handled(c, r)
  BY <1>1, <1>5, OutHandled, CbisbiHandled, MovwHandled, ElpmHandled, NopHandled
<1>11. Code \in {"cpc", "cpi"} => Handled(c, r)
  BY <1>1, <1>5, SubHandled
<1>12. Code \in {"sts", "xch", "elpmz"} => Handled(c, r)
  BY <1>1, <1>5, StsHandled, XchHandled, ElpmzHandled
<1>13. Code \in {"des", "bclrset", "bst", "push", "pop"} => Handled(c, r)
  BY <1>1, <1>5, BitsHandled
<1>14. Code \in {"ldx", "ldyz", "stx", "styz"} => Handled(c, r)
  <2>1. SUFFICES ASSUME Code \in {"ldx", "ldyz", "stx", "styz"} PROVE Handled(c, r)
    OBVIOUS
  <2>2. Code \in Loads \cup Stores
    BY <2>1 DEF Loads, Stores
  <2>3. QED
    BY <1>1, <1>5, <2>2, LoadStoreHandled
<1>15. Code \in {"jmp", "brb"} => Handled(c, r)
  BY <1>1, <1>5, JumpsHandled
<1>16. Code \in {"call", "eicalljump", "rcalljmp"} => Handled(c, r)
  BY <1>1, <1>5, CallsHandled
<1>17. Code \in {"ret", "reti"} => Handled(c, r)
  BY <1>1, <1>5, RetHandled
<1>18. Code \in SkipCodes => Handled(c, r)
  BY <1>1, <1>5, SkipHandled
<1>19. \/ Code \in {"adc", "and", "andi", "or", "ori", "xor", "com", "neg", "inc", "dec", "asr",
                   "lsr", "ror"}
       \/ Code \in {"adiw", "sbiw"} \/ Code \in {"mul", "muls", "mulsu", "fmul", "fmulsu"}
       \/ Code \in {"swap", "bld", "mov", "ldi", "in", "lds"}
       \/ Code \in {"out", "cbisbi", "movw", "elpm", "nop"} \/ Code \in {"cpc", "cpi"}
       \/ Code \in {"sts", "xch", "elpmz"} \/ Code \in {"des", "bclrset", "bst", "push", "pop"}
       \/ Code \in {"ldx", "ldyz", "stx", "styz"} \/ Code \in {"jmp", "brb"}
       \/ Code \in {"call", "eicalljump", "rcalljmp"} \/ Code \in {"ret", "reti"}
       \/ Code \in SkipCodes
  BY <1>3, <1>4, SMT DEF Codes, SkipCodes
<1>20. Handled(c, r)
  BY <1>6, <1>7, <1>8, <1>9, <1>10, <1>11, <1>12, <1>13, <1>14, <1>15, <1>16, <1>17, <1>18, <1>19,
     PTL
<1>21. QED
  BY <1>20 DEF c

-----------------------------------------------------------------------------
(* The end of the process.                                                 *)

\* What is not defined, in the words of AvrSteps.
LEMMA NotDefinedIs ==
  NotDefined(pc) <=>
    LET moving == Field(Decoded.instr, 1, 0) \in {1, 2}
        reg    == Decoded.ddddd
    IN  \/ Code = "unimp"
        \/ Code \in {"ldx", "stx"} /\ moving /\ reg \in {26, 27}
        \/ Code \in {"ldyz", "styz"} /\ IsSet(Decoded.instr, 12) /\ moving
             /\ reg \in IF IsSet(Decoded.instr, 3) THEN {28, 29} ELSE {30, 31}
        \/ Code = "elpmz" /\ IsSet(Decoded.instr, 0) /\ reg \in {30, 31}
        \/ Code = "eicalljump" /\ IsSet(Decoded.instr, 4) /\ ~knobs.pc22
<1>1. Decoded.instr = romword(Flash, pc)
  BY DEF Decoded, Operands
<1>2. QED
  BY <1>1, Zenon DEF NotDefined, Code, Decoded

\* A load or a store of the pointer being moved.
LEMMA MovesItselfWhere ==
  ASSUME Code \in Loads \cup Stores, NotDefined(pc)
  PROVE  MovesItself(Decoded, Rp, Mode)
<1> DEFINE f == Field(Decoded.instr, 1, 0)
           reg == Decoded.ddddd
<1>1. \/ Code \in {"ldx", "stx"} /\ f \in {1, 2} /\ reg \in {26, 27}
      \/ Code \in {"ldyz", "styz"} /\ IsSet(Decoded.instr, 12) /\ f \in {1, 2}
           /\ reg \in IF IsSet(Decoded.instr, 3) THEN {28, 29} ELSE {30, 31}
  <2>1. Code # "unimp" /\ Code # "elpmz" /\ Code # "eicalljump"
    BY DEF Loads, Stores
  <2>2. QED
    BY <2>1, NotDefinedIs, Zenon
<1>2. 26 + 1 = 27 /\ 28 + 1 = 29 /\ 30 + 1 = 31
  OBVIOUS
<1>3. CASE Code \in {"ldx", "stx"}
  <2>1. Rp = 26 /\ ~Displaced /\ Code \notin {"ldyz", "styz"}
    BY <1>3 DEF Rp, Displaced, REGP_X
  <2>2. Mode = f /\ f \in {1, 2} /\ reg \in {26, 27}
    BY <1>1, <2>1, Zenon DEF Mode
  <2>3. QED
    BY <2>1, <2>2, SMT DEF MovesItself
<1>4. CASE Code \notin {"ldx", "stx"}
  <2>1. /\ IsSet(Decoded.instr, 12) /\ f \in {1, 2}
        /\ reg \in IF IsSet(Decoded.instr, 3) THEN {28, 29} ELSE {30, 31}
    BY <1>1, <1>4, Zenon
  <2>2. Rp = IF IsSet(Decoded.instr, 3) THEN 28 ELSE 30
    BY <1>4 DEF Rp, REGP_Y, REGP_Z
  <2>3. Mode = f
    BY <2>1, Zenon DEF Mode, Displaced
  <2> HIDE DEF f, reg
  <2>4. reg \in {Rp, Rp + 1}
    BY <2>1, <2>2, SMT
  <2>5. QED
    BY <2>1, <2>3, <2>4, Zenon DEF MovesItself, reg
<1>5. QED
  BY <1>3, <1>4

\* The handler of what is not defined ends the process.
LEMMA UndefinedTraps ==
  ASSUME NotDefined(pc), NEW c, c.k = knobs, NEW r, r = Execute(Code, c, Decoded)
  PROVE  r = Trap(c)
<1>1. CASE Code \in Loads \cup Stores
  <2>1. PICK store \in BOOLEAN : store <=> Code \in Stores
    OBVIOUS
  <2>2. r = instr_ldst_common(c, Decoded, Rp, Ramp, Mode, Offset, store)
    BY <1>1, <2>1, LoadStoreIs, Zenon
  <2>3. MovesItself(Decoded, Rp, Mode)
    BY <1>1, MovesItselfWhere
  <2>4. QED
    BY <2>2, <2>3, SMT DEF instr_ldst_common
<1>2. CASE Code = "unimp"
  BY <1>2, Dispatch, SMT DEF instr_unimp
<1>3. CASE Code = "elpmz"
  <2>1. IsSet(Decoded.instr, 0) /\ Decoded.ddddd \in {30, 31}
    <3>1. Code # "unimp" /\ Code \notin {"ldx", "stx"} /\ Code \notin {"ldyz", "styz"}
            /\ Code # "eicalljump"
      BY <1>3
    <3>2. QED
      BY <3>1, NotDefinedIs, Zenon
  <2>2. r = instr_elpmz(c, Decoded)
    BY <1>3, Dispatch, SMT
  <2>3. QED
    BY <2>1, <2>2, ElpmzTraps, Zenon
<1>4. CASE Code = "eicalljump"
  <2>1. IsSet(Decoded.instr, 4) /\ ~c.k.pc22
    <3>1. Code # "unimp" /\ Code \notin {"ldx", "stx"} /\ Code \notin {"ldyz", "styz"}
            /\ Code # "elpmz"
      BY <1>4
    <3>2. QED
      BY <3>1, NotDefinedIs, Zenon
  <2>2. r = instr_eicalljump(c, Decoded)
    BY <1>4, Dispatch, SMT
  <2>3. QED
    BY <2>1, <2>2, SMT DEF instr_eicalljump
<1>5. QED
  <2>1. \/ Code = "unimp" \/ Code \in {"ldx", "stx"} \/ Code \in {"ldyz", "styz"}
        \/ Code = "elpmz" \/ Code = "eicalljump"
    BY NotDefinedIs, Zenon
  <2>2. Code \in {"ldx", "stx"} \/ Code \in {"ldyz", "styz"} => Code \in Loads \cup Stores
    BY DEF Loads, Stores
  <2>3. QED
    BY <1>1, <1>2, <1>3, <1>4, <2>1, <2>2, Zenon

\* The step.
LEMMA StopSteps ==
  ASSUME DesTyped, TypeOK, Next
  PROVE  trapped' <=> Ends
<1>1. CASE ~Fetches(Flash, pc)
  <2>1. trapped' = emulate1(knobs, Flash, pc, memory).trap
    BY Zenon DEF Next
  <2>2. emulate1(knobs, Flash, pc, memory) = Trapped(pc, memory, FALSE)
    BY <1>1, Zenon DEF emulate1
  <2>3. trapped' = TRUE
    BY <2>1, <2>2 DEF Trapped
  <2>4. QED
    BY <1>1, <2>3, Zenon DEF Ends
<1>2. CASE Fetches(Flash, pc)
  <2> DEFINE c == Fetched(pc, memory)
  <2>1. PICK r : r = Execute(Code, c, Decoded)
    OBVIOUS
  <2>2. \/ NotDefined(pc) /\ r.trap = TRUE /\ trapped' = TRUE
        \/ r.trap = FALSE /\ IsMemory(r.mem) /\ Ran(r)
    BY <1>2, <2>1, StepOf
  <2>3. CASE NotDefined(pc)
    <3>1. c.k = knobs /\ "trap" \in DOMAIN c
      BY DEF Fetched
    <3> HIDE DEF c
    <3>2. r = Trap(c)
      BY <2>1, <2>3, <3>1, UndefinedTraps, Zenon
    <3>3. r.trap = TRUE
      BY <3>1, <3>2 DEF Trap
    <3>4. trapped' = TRUE
      BY <2>2, <3>3
    <3>5. QED
      BY <2>3, <3>4, Zenon DEF Ends
  <2>4. CASE ~NotDefined(pc)
    <3>1. r.trap = FALSE /\ IsMemory(r.mem) /\ Ran(r)
      BY <2>2, <2>4
    <3>2. Handled(c, r)
      BY <1>2, <2>1, <3>1, AllHandled, Zenon
    <3>3. c.pc = pc
      BY DEF Fetched
    <3> HIDE DEF c
    <3>4. r.skip <=> SkipsNext
      BY <3>2, Zenon DEF Handled
    <3>5. SkipsNext => r.pc = pc
      <4>1. SkipsNext => Code \notin Jumps
        BY DEF SkipsNext, Jumps
      <4>2. QED
        BY <3>2, <3>3, <4>1, Zenon DEF Handled
    <3>6. trapped' <=> r.skip /\ ~Fetches(Flash, r.pc + InstrSize(Flash, pc))
      BY <3>1, Zenon DEF Ran
    <3>7. QED
      BY <1>2, <2>4, <3>4, <3>5, <3>6, Zenon DEF Ends, Following
  <2>5. QED
    BY <2>3, <2>4
<1>3. QED
  BY <1>1, <1>2

\* Every program on every machine ends just where there is no instruction, where it is not
\* defined or not implemented, and where a skip finds none to pass over.
THEOREM ProcessEnds == ASSUME DesTyped PROVE Spec => StopsExactly
<1>1. TypeOK /\ [Next]_vars => [trapped' <=> Ends]_vars
  BY StopSteps
<1>2. Spec => []TypeOK
  BY CpuTypes
<1>3. QED
  BY <1>1, <1>2, PTL DEF Spec, StopsExactly

-----------------------------------------------------------------------------
(* The footprint of a step.                                                *)

\* The step that goes on.
LEMMA FootprintSteps ==
  ASSUME DesTyped, TypeOK, Next, Fetches(Flash, pc), ~trapped'
  PROVE  FootprintStep
<1> DEFINE c == Fetched(pc, memory)
           old == membyte(memory, SREG)
<1>1. PICK r : r = Execute(Code, c, Decoded)
  OBVIOUS
<1>2. r.trap = FALSE /\ IsMemory(r.mem) /\ Ran(r)
  BY <1>1, StepOf
<1>3. Handled(c, r)
  BY <1>1, <1>2, AllHandled, Zenon
<1>4. c.pc = pc /\ c.mem = memory
  BY DEF Fetched
<1> HIDE DEF c
<1>5. ASSUME NEW a, a \notin MayWrite
      PROVE  membyte(memory', a) = membyte(memory, a)
  <2>1. membyte(r.mem, a) = membyte(memory, a)
    BY <1>3, <1>4, <1>5, Zenon DEF Handled
  <2>2. CASE a # SREG
    BY <1>2, <2>1, <2>2, Zenon DEF Ran
  <2>3. CASE a = SREG
    <3>1. r.set = {} /\ r.clr = {}
      BY <1>3, <1>5, <2>3, Zenon DEF Handled
    <3>2. QED
      BY <1>2, <2>1, <3>1, QuietStep, Zenon
  <2>4. QED
    BY <2>2, <2>3
<1>6. ASSUME Code \in Computes, NEW f \in {"T", "I"}
      PROVE  SregHas(f)' = SregHas(f)
  <2>1. /\ r.set \subseteq Calc /\ r.clr \subseteq Calc /\ membyte(r.mem, SREG) = old
    BY <1>3, <1>4, <1>6, Zenon DEF Handled, Within
  <2>2. membyte(memory', SREG) = ApplyFlags(old, r.set, r.clr)
    BY <1>2, <2>1, Zenon DEF Ran
  <2>3. old \in Byte
    BY ReadType DEF TypeOK
  <2>4. SregBit[f] \in 0..7 /\ SregBit[f] \notin Calc
    BY <1>6, SregBitIs, SMT DEF Calc
  <2> HIDE DEF old
  <2>5. IsSet(ApplyFlags(old, r.set, r.clr), SregBit[f])
          <=> SregBit[f] \in r.set \/ (IsSet(old, SregBit[f]) /\ SregBit[f] \notin r.clr)
    BY <2>3, <2>4, ApplyFlagsIs
  <2>6. IsSet(membyte(memory', SREG), SregBit[f]) <=> IsSet(old, SregBit[f])
    BY <2>1, <2>2, <2>4, <2>5, Zenon
  <2>7. IsSet(membyte(memory', SREG), SregBit[f]) = IsSet(old, SregBit[f])
    BY <2>6 DEF IsSet
  <2>8. QED
    BY <2>7, Zenon DEF SregHas, old
<1>7. ASSUME Code \notin Jumps
      PROVE  pc' = Following + IF SkipsNext THEN InstrSize(Flash, Following) ELSE 0
  <2>1. r.pc = pc /\ (r.skip <=> SkipsNext)
    BY <1>3, <1>4, <1>7, Zenon DEF Handled
  <2>2. pc' = IF r.skip THEN Following + InstrSize(Flash, Following) ELSE Following
    BY <1>2, <2>1, Zenon DEF Ran, Following
  <2>3. Following \in Int
    BY SMT DEF Following, InstrSize, SizeOf, TypeOK
  <2>4. QED
    BY <2>1, <2>2, <2>3
<1>8. QED
  BY <1>5, <1>6, <1>7, Zenon DEF FootprintStep

\* Every program on every machine: a step writes the bytes that its instruction is to write
\* and no other, arithmetic leaves I and T alone, and what is no jump goes on after itself or
\* after the one instruction it skips.
THEOREM StepsHaveFootprint == ASSUME DesTyped PROVE Spec => Footprint
<1>1. TypeOK /\ [Next]_vars => [Fetches(Flash, pc) /\ ~trapped' => FootprintStep]_vars
  BY FootprintSteps
<1>2. Spec => []TypeOK
  BY CpuTypes
<1>3. QED
  BY <1>1, <1>2, PTL DEF Spec, Footprint

-----------------------------------------------------------------------------
(* Calls and returns.                                                      *)

\* What the two sizes of a frame are called.
LEMMA FrameIs ==
  ASSUME TypeOK
  PROVE  /\ knobs.pc22 \in BOOLEAN /\ FrameSize = IF knobs.pc22 THEN 3 ELSE 2
         /\ getsp(memory) \in Word16 /\ Following \in Int
<1>1. knobs.pc22 \in BOOLEAN /\ FrameSize = IF knobs.pc22 THEN 3 ELSE 2
  BY DEF TypeOK, Knobs, FrameSize
<1>2. getsp(memory) \in Word16
  BY ReadType DEF TypeOK
<1>3. Following \in Int
  BY SMT DEF Following, InstrSize, SizeOf, TypeOK
<1>4. QED
  BY <1>1, <1>2, <1>3

\* The frame after a call.
LEMMA FrameReads ==
  ASSUME TypeOK, NEW m, NEW r, r = PushPc(memory, Following, knobs.pc22),
         \A a : membyte(m, a) = membyte(r, a), RoomToPush
  PROVE  /\ getsp(m) = getsp(memory) - FrameSize
         /\ ReturnAddress(m) = Following % IF knobs.pc22 THEN 16777216 ELSE 65536
<1> DEFINE sp == getsp(memory)
           n == FrameSize
           p == Following
           wide == knobs.pc22
<1>1. sp \in Word16 /\ wide \in BOOLEAN /\ n = (IF wide THEN 3 ELSE 2) /\ p \in Int
  BY FrameIs, Zenon
<1>2. sp - n >= SREG
  BY DEF RoomToPush
<1>3. r = PushPc(memory, p, wide) /\ sp = getsp(memory)
  OBVIOUS
<1> HIDE DEF sp, n, p, wide
<1>4. /\ getsp(r) = sp - n
      /\ membyte(r, sp) = Low(p) /\ membyte(r, sp - 1) = High(p)
      /\ wide => membyte(r, sp - 2) = (p \div 65536) % 256
  BY <1>1, <1>2, <1>3, PushPcIs
<1>5. getsp(m) = sp - n
  BY <1>4, SMT DEF getsp
<1>6. sp \in Int /\ n \in Int /\ getsp(m) + n = sp
  BY <1>1, <1>5, SMT DEF Word16
<1> DEFINE s == getsp(m) + n
<1>7. ReturnAddress(m) = membyte(m, s) + 256 * membyte(m, s - 1)
                           + IF wide THEN 65536 * membyte(m, s - 2) ELSE 0
  BY SMT DEF ReturnAddress, n, wide
<1>8. ReturnAddress(m) = membyte(r, sp) + 256 * membyte(r, sp - 1)
                           + IF wide THEN 65536 * membyte(r, sp - 2) ELSE 0
  BY <1>6, <1>7, SMT
<1>9. /\ Low(p) + 256 * High(p) + 0 = p % 65536
      /\ Low(p) + 256 * High(p) + 65536 * ((p \div 65536) % 256) = p % 16777216
  <2>1. (p % 256) + 256 * ((p \div 256) % 256) = p % 65536
    BY <1>1, SMT
  <2>2. (p % 65536) + 65536 * ((p \div 65536) % 256) = p % 16777216
    BY <1>1, SMT
  <2>3. Low(p) = p % 256 /\ High(p) = (p \div 256) % 256
    BY SMT DEF Low, High
  <2>4. QED
    BY <1>1, <2>1, <2>2, <2>3, SMT
<1>10. CASE wide
  <2>1. ReturnAddress(m) = Low(p) + 256 * High(p) + 65536 * ((p \div 65536) % 256)
    BY <1>4, <1>8, <1>10, SMT
  <2>2. ReturnAddress(m) = p % 16777216
    BY <1>9, <2>1, SMT
  <2>3. QED
    BY <1>5, <1>10, <2>2, SMT DEF p, wide, sp, n
<1>11. CASE ~wide
  <2>1. ReturnAddress(m) = Low(p) + 256 * High(p) + 0
    BY <1>4, <1>8, <1>11, SMT
  <2>2. ReturnAddress(m) = p % 65536
    BY <1>9, <2>1, SMT
  <2>3. QED
    BY <1>5, <1>11, <2>2, SMT DEF p, wide, sp, n
<1>12. QED
  BY <1>10, <1>11

\* A call that does not end the process.
LEMMA CallSteps ==
  ASSUME DesTyped, TypeOK, Next, Fetches(Flash, pc), ~trapped', Calls, RoomToPush
  PROVE  CallStep
<1> DEFINE c == Fetched(pc, memory)
<1>1. PICK r : r = Execute(Code, c, Decoded)
  OBVIOUS
<1>2. r.trap = FALSE /\ IsMemory(r.mem) /\ Ran(r)
  BY <1>1, StepOf
<1>3. Given(c)
  <2>1. Idle(c)
    BY FetchedIdle DEF TypeOK
  <2>2. QED
    BY <2>1 DEF Given, Fetched
<1>4. Code \in {"call", "eicalljump", "rcalljmp"}
  BY DEF Calls
<1>5. Flows(c, r, IF Calls THEN PushPc(memory, Following, knobs.pc22) ELSE memory)
  BY <1>1, <1>2, <1>3, <1>4, CallIs, Zenon
<1>6. r.mem = PushPc(memory, Following, knobs.pc22) /\ r.set = {} /\ r.clr = {}
  BY <1>5, Zenon DEF Flows
<1>7. \A a : membyte(memory', a) = membyte(r.mem, a)
  BY <1>2, <1>6, QuietStep, Zenon
<1> DEFINE m == memory'
<1>8. \A a : membyte(m, a) = membyte(r.mem, a)
  BY <1>7
<1> HIDE DEF m
<1>9. /\ getsp(m) = getsp(memory) - FrameSize
      /\ ReturnAddress(m) = Following % IF knobs.pc22 THEN 16777216 ELSE 65536
  BY <1>6, <1>8, FrameReads
<1>10. QED
  BY <1>9, SMT DEF CallStep, m

\* The bytes a return takes off the stack.
LEMMA UnwoundIs ==
  ASSUME TypeOK, NEW c, Given(c), RoomToPop
  PROVE  /\ getsp(Unwound(c)) = getsp(memory) + FrameSize
         /\ Target(c) = ReturnAddress(memory) % IF knobs.pc22 THEN 4194304 ELSE 65536
         /\ Target(c) \in Int
<1> DEFINE sp == getsp(memory)
           n == FrameSize
           wide == knobs.pc22
           m1 == popped(memory)
           m2 == popped(m1)
           m3 == popped(m2)
           b1 == membyte(memory, sp + 1)
           b2 == membyte(memory, sp + 2)
           b3 == membyte(memory, sp + 3)
<1>1. /\ sp \in Word16 /\ wide \in BOOLEAN /\ n = (IF wide THEN 3 ELSE 2)
      /\ c.mem = memory /\ c.k = knobs
  BY FrameIs, Zenon DEF Given
<1>2. b1 \in Byte /\ b2 \in Byte /\ b3 \in Byte
  BY ReadType, Zenon DEF TypeOK
<1>3. b1 \in Nat /\ b1 < 256 /\ b2 \in Nat /\ b2 < 256 /\ b3 \in Nat /\ b3 < 256
  BY <1>2, ByteIs
<1>4. /\ getsp(m1) = (sp + 1) % 65536
      /\ \A a : a # SP_LO /\ a # SP_HI => membyte(m1, a) = membyte(memory, a)
      /\ sp + 1 # SP_LO /\ sp + 1 # SP_HI => popbyte(memory) = b1
  BY <1>1, PopIs
<1>5. sp >= SREG /\ sp + n < 65536
  BY SMT DEF RoomToPop
<1> DEFINE s1 == sp + 1
           s2 == sp + 2
<1> HIDE DEF sp, n, wide, m1
<1>6. /\ (sp + 1) % 65536 = s1 /\ s1 \in Word16 /\ (s1 + 1) % 65536 = s2 /\ s2 \in Word16
      /\ s1 + 1 = s2 /\ s2 + 1 = sp + 3 /\ (wide => (s2 + 1) % 65536 = sp + 3)
      /\ sp + 1 # SP_LO /\ sp + 1 # SP_HI /\ s2 # SP_LO /\ s2 # SP_HI
      /\ sp + 3 # SP_LO /\ sp + 3 # SP_HI
  BY <1>1, <1>5, SMT DEF Word16, SREG, SP_LO, SP_HI
<1>7. s1 \in Word16 /\ s1 = getsp(m1)
  BY <1>4, <1>6
<1>8. /\ getsp(m2) = (s1 + 1) % 65536
      /\ \A a : a # SP_LO /\ a # SP_HI => membyte(m2, a) = membyte(m1, a)
      /\ s1 + 1 # SP_LO /\ s1 + 1 # SP_HI => popbyte(m1) = membyte(m1, s1 + 1)
  <2> HIDE DEF s1
  <2>1. QED
    BY <1>7, PopIs
<1> HIDE DEF m2
<1>9. s2 \in Word16 /\ s2 = getsp(m2)
  BY <1>6, <1>8
<1>10. /\ getsp(m3) = (s2 + 1) % 65536
       /\ s2 + 1 # SP_LO /\ s2 + 1 # SP_HI => popbyte(m2) = membyte(m2, s2 + 1)
  <2> HIDE DEF s2
  <2>1. QED
    BY <1>9, PopIs
<1> HIDE DEF m3, b1, b2, b3, s1, s2
<1>11. popbyte(memory) = b1
  BY <1>4, <1>6
<1>12. popbyte(m1) = b2
  <2>1. popbyte(m1) = membyte(m1, s2)
    BY <1>6, <1>8
  <2>2. membyte(m1, s2) = membyte(memory, s2)
    BY <1>4, <1>6
  <2>3. QED
    BY <2>1, <2>2 DEF b2, s2
<1>13. popbyte(m2) = b3
  <2>1. popbyte(m2) = membyte(m2, sp + 3)
    BY <1>6, <1>10
  <2>2. membyte(m2, sp + 3) = membyte(memory, sp + 3)
    BY <1>4, <1>6, <1>8
  <2>3. QED
    BY <2>1, <2>2 DEF b3
<1>14. Unwound(c) = IF wide THEN m3 ELSE m2
  BY <1>1, Zenon DEF Unwound, m3, m2, m1, wide
<1>15. Target(c) = IF wide THEN (256 * (256 * b1 + b2) + b3) % 4194304 ELSE 256 * b1 + b2
  <2>1. Target(c) = IF wide THEN (256 * (256 * popbyte(memory) + popbyte(m1)) + popbyte(m2)) % 4194304
                    ELSE 256 * popbyte(memory) + popbyte(m1)
    BY <1>1, SMT DEF Target, m2, m1, wide
  <2>2. QED
    BY <1>11, <1>12, <1>13, <2>1, SMT
<1>16. getsp(Unwound(c)) = sp + n
  BY <1>1, <1>6, <1>9, <1>10, <1>14, SMT DEF s2
<1> DEFINE t == sp + n
<1>17. ReturnAddress(memory) = membyte(memory, t) + 256 * membyte(memory, t - 1)
                                 + IF wide THEN 65536 * membyte(memory, t - 2) ELSE 0
  BY SMT DEF ReturnAddress, n, wide, sp
<1>18. CASE wide
  <2>1. t = sp + 3 /\ t - 1 = sp + 2 /\ t - 2 = sp + 1
    BY <1>1, <1>18, SMT DEF Word16
  <2>2. ReturnAddress(memory) = b3 + 256 * b2 + 65536 * b1
    BY <1>17, <1>18, <2>1, SMT DEF b1, b2, b3
  <2>3. 256 * (256 * b1 + b2) + b3 = b3 + 256 * b2 + 65536 * b1
    BY <1>3, SMT
  <2>4. Target(c) = ReturnAddress(memory) % 4194304 /\ Target(c) \in Int
    BY <1>3, <1>15, <1>18, <2>2, <2>3, SMT
  <2>5. QED
    BY <1>16, <1>18, <2>4, SMT DEF wide, sp, n
<1>19. CASE ~wide
  <2>1. t = sp + 2 /\ t - 1 = sp + 1
    BY <1>1, <1>19, SMT DEF Word16
  <2>2. ReturnAddress(memory) = b2 + 256 * b1 + 0
    BY <1>17, <1>19, <2>1, SMT DEF b1, b2
  <2>3. Target(c) = ReturnAddress(memory) % 65536 /\ Target(c) \in Int
    BY <1>3, <1>15, <1>19, <2>2, SMT
  <2>4. QED
    BY <1>16, <1>19, <2>3, SMT DEF wide, sp, n
<1>20. QED
  BY <1>18, <1>19

\* A return.
LEMMA ReturnSteps ==
  ASSUME DesTyped, TypeOK, Next, Fetches(Flash, pc), ~trapped', Returns, RoomToPop
  PROVE  ReturnStep
<1> DEFINE c == Fetched(pc, memory)
<1>1. PICK r : r = Execute(Code, c, Decoded)
  OBVIOUS
<1>2. r.trap = FALSE /\ IsMemory(r.mem) /\ Ran(r)
  BY <1>1, StepOf
<1>3. Given(c)
  <2>1. Idle(c)
    BY FetchedIdle DEF TypeOK
  <2>2. QED
    BY <2>1 DEF Given, Fetched
<1>4. c.instr_size = InstrSize(Flash, pc) /\ c.instr_size \in Int /\ c.skip = FALSE
  BY DEF Fetched, InstrSize, SizeOf
<1> HIDE DEF c
<1>5. Plain(c)
  BY <1>3, IdlePlain DEF Given
<1>6. /\ r.set = {} /\ r.clr = {} /\ r.skip = FALSE /\ r.pc = Target(c) - c.instr_size
      /\ \A a : a # SREG => membyte(r.mem, a) = membyte(Unwound(c), a)
  <2>1. CASE Code = "ret"
    <3>1. r = instr_ret(c, Decoded)
      BY <1>1, <2>1, Dispatch, SMT
    <3>2. QED
      BY <1>4, <1>5, <3>1, RetIs, Zenon DEF Flows
  <2>2. CASE Code = "reti"
    <3>1. r = instr_reti(c, Decoded)
      BY <1>1, <2>2, Dispatch, SMT
    <3>2. PICK v : Flows(c, r, Store(Unwound(c), SREG, v))
      BY <1>5, <3>1, RetIs, Zenon
    <3>3. \A a : membyte(Store(Unwound(c), SREG, v), a) = IF a = SREG THEN v ELSE membyte(Unwound(c), a)
      BY ReadStore
    <3>4. r.pc = Target(c) - c.instr_size
      BY <1>5, <3>1, RetIs, Zenon
    <3>5. QED
      BY <1>4, <3>2, <3>3, <3>4, Zenon DEF Flows
  <2>3. QED
    BY <2>1, <2>2 DEF Returns
<1>7. /\ getsp(Unwound(c)) = getsp(memory) + FrameSize
      /\ Target(c) = ReturnAddress(memory) % IF knobs.pc22 THEN 4194304 ELSE 65536
      /\ Target(c) \in Int
  BY <1>3, UnwoundIs
<1>8. pc' = Target(c)
  <2>1. pc' = r.pc + InstrSize(Flash, pc)
    BY <1>2, <1>6, Zenon DEF Ran
  <2>2. QED
    BY <1>4, <1>6, <1>7, <2>1, SMT
<1>9. getsp(memory') = getsp(Unwound(c))
  <2>1. \A a : membyte(memory', a) = membyte(r.mem, a)
    BY <1>2, <1>6, QuietStep, Zenon
  <2>2. SREG # SP_LO /\ SREG # SP_HI
    BY SMT DEF SREG, SP_LO, SP_HI
  <2>3. /\ membyte(memory', SP_LO) = membyte(Unwound(c), SP_LO)
        /\ membyte(memory', SP_HI) = membyte(Unwound(c), SP_HI)
    BY <1>6, <2>1, <2>2, Zenon
  <2>4. QED
    BY <2>3, SMT DEF getsp
<1>10. QED
  BY <1>7, <1>8, <1>9, SMT DEF ReturnStep

\* Every program on every machine: a call leaves the address of the instruction after it on
\* the stack, and a return goes where the stack says and takes off just that, with two bytes
\* and with three, as long as the stack is clear of the registers and does not wrap.
THEOREM CallsAndReturns == ASSUME DesTyped PROVE Spec => CallsReturn
<1> DEFINE A ==
      Fetches(Flash, pc) /\ ~trapped'
        => /\ Calls /\ RoomToPush => CallStep
           /\ Returns /\ RoomToPop => ReturnStep
<1>1. TypeOK /\ [Next]_vars => [A]_vars
  BY CallSteps, ReturnSteps
<1>2. Spec => []TypeOK
  BY CpuTypes
<1>3. QED
  BY <1>1, <1>2, PTL DEF Spec, CallsReturn

-----------------------------------------------------------------------------
(* Transfers.                                                              *)

\* The machine of the step, before the handler.
Machine == Fetched(pc, memory)

\* What there is to know of it.
LEMMA MachineIs ==
  ASSUME TypeOK
  PROVE  /\ Plain(Machine) /\ Machine.mem = memory /\ Machine.k = knobs /\ Machine.flash = Flash
         /\ \A a : Reg(Machine, a) = membyte(memory, a)
<1>1. Plain(Machine)
  BY FetchedReads, IdlePlain, Zenon DEF Machine
<1>2. Machine.mem = memory /\ Machine.k = knobs /\ Machine.flash = Flash
  BY DEF Machine, Fetched
<1>3. QED
  BY <1>1, <1>2, Zenon DEF Reg

\* The step of a handler that only writes memory leaves the memory it made.
LEMMA MemoryStep ==
  ASSUME DesTyped, TypeOK, Next, Fetches(Flash, pc), ~trapped', NEW m,
         Execute(Code, Machine, Decoded) = [Machine EXCEPT !.mem = m]
  PROVE  \A a : membyte(memory', a) = membyte(m, a)
<1>1. PICK r : r = Execute(Code, Fetched(pc, memory), Decoded)
  OBVIOUS
<1>2. r.trap = FALSE /\ IsMemory(r.mem) /\ Ran(r)
  BY <1>1, StepOf
<1>3. r = [Machine EXCEPT !.mem = m]
  BY <1>1 DEF Machine
<1>4. r.mem = m /\ r.set = Machine.set /\ r.clr = Machine.clr
  BY <1>3, MachineIs, WithMemory, Zenon
<1>5. r.set = {} /\ r.clr = {}
  BY <1>4, MachineIs DEF Plain
<1>6. QED
  BY <1>2, <1>4, <1>5, QuietStep

\* One byte, two bytes that are one word, two bytes.
LEMMA PutSteps ==
  ASSUME DesTyped, TypeOK, Next, Fetches(Flash, pc), ~trapped', NEW a, NEW v,
         Execute(Code, Machine, Decoded) = Put(Machine, a, v)
  PROVE  \A x : membyte(memory', x) = IF x = a THEN v ELSE membyte(memory, x)
<1> DEFINE m == Store(memory, a, v)
<1>1. Execute(Code, Machine, Decoded) = [Machine EXCEPT !.mem = m]
  BY MachineIs, Zenon DEF Put
<1>2. \A x : membyte(m, x) = IF x = a THEN v ELSE membyte(memory, x)
  BY ReadStore
<1> HIDE DEF m
<1>3. QED
  BY <1>1, <1>2, MemoryStep, Zenon

LEMMA PutWordSteps ==
  ASSUME DesTyped, TypeOK, Next, Fetches(Flash, pc), ~trapped', NEW a \in Int, NEW w \in Word16,
         Execute(Code, Machine, Decoded) = PutWord(Machine, a, w)
  PROVE  memword(memory', a) = w
<1> DEFINE m == memwriteword(memory, a, w)
<1>1. Execute(Code, Machine, Decoded) = [Machine EXCEPT !.mem = m]
  BY MachineIs, Zenon DEF PutWord
<1>2. \A x : membyte(m, x) = IF x = a + 1 THEN High(w) ELSE IF x = a THEN Low(w) ELSE membyte(memory, x)
  BY ReadWord
<1> HIDE DEF m
<1>3. \A x : membyte(memory', x) = membyte(m, x)
  BY <1>1, MemoryStep, Zenon
<1>4. membyte(memory', a) = Low(w) /\ membyte(memory', a + 1) = High(w)
  BY <1>2, <1>3, SMT
<1>5. QED
  BY <1>4, WordBytes, SMT DEF memword

LEMMA PutTwoSteps ==
  ASSUME DesTyped, TypeOK, Next, Fetches(Flash, pc), ~trapped', NEW a, NEW v, NEW b, NEW w,
         Execute(Code, Machine, Decoded) = Put(Put(Machine, a, v), b, w)
  PROVE  \A x : membyte(memory', x) = IF x = b THEN w ELSE IF x = a THEN v ELSE membyte(memory, x)
<1> DEFINE n == Store(memory, a, v)
           m == Store(n, b, w)
<1>1. /\ \A x : membyte(m, x) = IF x = b THEN w ELSE membyte(n, x)
      /\ \A x : membyte(n, x) = IF x = a THEN v ELSE membyte(memory, x)
  <2>1. \A x : membyte(n, x) = IF x = a THEN v ELSE membyte(memory, x)
    BY ReadStore
  <2> HIDE DEF n
  <2>2. \A x : membyte(m, x) = IF x = b THEN w ELSE membyte(n, x)
    BY ReadStore
  <2>3. QED
    BY <2>1, <2>2
<1>2. Put(Machine, a, v) = [Machine EXCEPT !.mem = n]
  BY MachineIs, Zenon DEF Put
<1> HIDE DEF n
<1>3. Put([Machine EXCEPT !.mem = n], b, w) = [Machine EXCEPT !.mem = m]
  BY MachineIs DEF Put, Plain
<1>4. Execute(Code, Machine, Decoded) = [Machine EXCEPT !.mem = m]
  BY <1>2, <1>3, Zenon
<1> HIDE DEF m
<1>5. \A x : membyte(memory', x) = membyte(m, x)
  BY <1>4, MemoryStep, Zenon
<1>6. QED
  BY <1>1, <1>5, Zenon

\* One bit of a byte.
LEMMA SetBitIs ==
  ASSUME NEW v, NEW n, NEW on \in BOOLEAN
  PROVE  BitsOf(SetBit(v, n, on)) = WithBit(v, n, on)
<1> DEFINE S == IF on THEN BitsOf(v) \cup {n} ELSE BitsOf(v) \ {n}
<1>1. SetBit(v, n, on) = FromBits(S)
  BY Zenon DEF SetBit
<1>2. \A k \in 0..7 : k \in S <=> IF k = n THEN on ELSE IsSet(v, k)
  BY Zenon DEF BitsOf
<1> HIDE DEF S
<1>3. \A k \in 0..7 : IsSet(FromBits(S), k) <=> k \in S
  BY FromBitsIs
<1>4. QED
  BY <1>1, <1>2, <1>3, Zenon DEF BitsOf, WithBit

\* The bits of u are those of its upper nibble x and its lower nibble y.
Nibbles(u, x, y) ==
  /\ u % 2 = y % 2 /\ (u \div 2) % 2 = (y \div 2) % 2
  /\ (u \div 4) % 2 = (y \div 4) % 2 /\ (u \div 8) % 2 = (y \div 8) % 2
  /\ (u \div 16) % 2 = x % 2 /\ (u \div 32) % 2 = (x \div 2) % 2
  /\ (u \div 64) % 2 = (x \div 4) % 2 /\ (u \div 128) % 2 = (x \div 8) % 2

\* Every byte is made up so.
LEMMA NibbleBits ==
  ASSUME NEW x \in 0..15, NEW y \in 0..15, NEW u, u = 16 * x + y
  PROVE  Nibbles(u, x, y)
<1>1. /\ u \div 2 = 8 * x + y \div 2 /\ u \div 4 = 4 * x + y \div 4
      /\ u \div 8 = 2 * x + y \div 8 /\ u \div 16 = x
  BY SMT
<1>2. u \div 32 = x \div 2 /\ u \div 64 = x \div 4 /\ u \div 128 = x \div 8
  BY SMT
<1>3. u % 2 = y % 2
  BY SMT
<1>4. (8 * x + y \div 2) % 2 = (y \div 2) % 2 /\ (4 * x + y \div 4) % 2 = (y \div 4) % 2
  BY SMT
<1>5. (2 * x + y \div 8) % 2 = (y \div 8) % 2
  BY SMT
<1>6. QED
  BY <1>1, <1>2, <1>3, <1>4, <1>5 DEF Nibbles

\* The nibbles, exchanged.
LEMMA SwapIs ==
  ASSUME NEW v \in Byte, NEW res, res = v \div 16 + 16 * (v % 16)
  PROVE  BitsOf(res) = {k \in 0..7 : IsSet(v, (k + 4) % 8)}
<1>1. 2^0 = 1 /\ 2^1 = 2 /\ 2^2 = 4 /\ 2^3 = 8 /\ 2^4 = 16 /\ 2^5 = 32 /\ 2^6 = 64 /\ 2^7 = 128
  BY SMT
<1>2. v \in Nat /\ v < 256
  BY ByteIs
<1> DEFINE h == v \div 16
           l == v % 16
<1>3. h \in 0..15 /\ l \in 0..15 /\ v = 16 * h + l /\ res = 16 * l + h
  BY <1>2, SMT
<1> HIDE DEF h, l
<1>4. ASSUME NEW k \in 0..7 PROVE IsSet(res, k) <=> IsSet(v, (k + 4) % 8)
  <2>1. /\ res % 2 = (v \div 16) % 2 /\ (res \div 2) % 2 = (v \div 32) % 2
        /\ (res \div 4) % 2 = (v \div 64) % 2 /\ (res \div 8) % 2 = (v \div 128) % 2
        /\ (res \div 16) % 2 = v % 2 /\ (res \div 32) % 2 = (v \div 2) % 2
        /\ (res \div 64) % 2 = (v \div 4) % 2 /\ (res \div 128) % 2 = (v \div 8) % 2
    <3>1. Nibbles(res, l, h) /\ Nibbles(v, h, l)
      BY <1>3, NibbleBits
    <3>2. QED
      BY <3>1 DEF Nibbles
  <2>2. /\ (0 + 4) % 8 = 4 /\ (1 + 4) % 8 = 5 /\ (2 + 4) % 8 = 6 /\ (3 + 4) % 8 = 7
        /\ (4 + 4) % 8 = 0 /\ (5 + 4) % 8 = 1 /\ (6 + 4) % 8 = 2 /\ (7 + 4) % 8 = 3
    BY SMT
  <2>3. res \div 1 = res /\ v \div 1 = v
    BY <1>2, <1>3, SMT
  <2>4. \A w : /\ Bit(w, 0) = (w \div 1) % 2 /\ Bit(w, 1) = (w \div 2) % 2
               /\ Bit(w, 2) = (w \div 4) % 2 /\ Bit(w, 3) = (w \div 8) % 2
               /\ Bit(w, 4) = (w \div 16) % 2 /\ Bit(w, 5) = (w \div 32) % 2
               /\ Bit(w, 6) = (w \div 64) % 2 /\ Bit(w, 7) = (w \div 128) % 2
    BY <1>1, Zenon DEF Bit
  <2>5. /\ Bit(res, 0) = Bit(v, 4) /\ Bit(res, 1) = Bit(v, 5)
        /\ Bit(res, 2) = Bit(v, 6) /\ Bit(res, 3) = Bit(v, 7)
        /\ Bit(res, 4) = Bit(v, 0) /\ Bit(res, 5) = Bit(v, 1)
        /\ Bit(res, 6) = Bit(v, 2) /\ Bit(res, 7) = Bit(v, 3)
    BY <2>1, <2>3, <2>4
  <2>6. k = 0 \/ k = 1 \/ k = 2 \/ k = 3 \/ k = 4 \/ k = 5 \/ k = 6 \/ k = 7
    BY <1>4, SMT
  <2>7. Bit(res, k) = Bit(v, (k + 4) % 8)
    BY <2>2, <2>5, <2>6, Zenon
  <2>8. QED
    BY <2>7, Zenon DEF IsSet
<1>5. QED
  BY <1>4, Zenon DEF BitsOf

\* Moves between registers, ports and data memory.
LEMMA MoveSteps ==
  ASSUME DesTyped, TypeOK, Next, Fetches(Flash, pc), ~trapped'
  PROVE  LET dest == membyte(memory', Decoded.ddddd)
         IN  /\ Code = "mov" => dest = Rr
             /\ Code = "swap" => BitsOf(dest) = {k \in 0..7 : IsSet(Rd, (k + 4) % 8)}
             /\ Code = "in" => dest = membyte(memory, IoPort(Decoded))
             /\ Code = "out" => membyte(memory', IoPort(Decoded)) = Rd
<1> DEFINE c == Machine
           d == Decoded
<1>1. \A a : Reg(c, a) = membyte(memory, a)
  BY MachineIs
<1>2. Reg(c, d.ddddd) = Rd /\ Reg(c, d.rrrrr) = Rr
  BY <1>1, Zenon DEF Rd, Rr
<1> HIDE DEF c
<1>3. ASSUME NEW a, NEW v, Execute(Code, c, d) = Put(c, a, v) PROVE membyte(memory', a) = v
  BY <1>3, PutSteps, Zenon DEF c
<1>4. ASSUME Code = "mov" PROVE membyte(memory', d.ddddd) = Rr
  <2>1. Execute("mov", c, d) = Put(c, d.ddddd, Rr)
    BY <1>2, Dispatch DEF instr_mov
  <2>2. QED
    BY <1>3, <1>4, <2>1, Zenon
<1>5. ASSUME Code = "swap"
      PROVE  BitsOf(membyte(memory', d.ddddd)) = {k \in 0..7 : IsSet(Rd, (k + 4) % 8)}
  <2> DEFINE res == Rd \div 16 + 16 * (Rd % 16)
  <2>1. instr_swap(c, d) = Put(c, d.ddddd, res)
    BY <1>2, Zenon DEF instr_swap
  <2>2. Execute("swap", c, d) = Put(c, d.ddddd, res)
    BY <2>1, Dispatch
  <2>3. membyte(memory', d.ddddd) = res
    BY <1>3, <1>5, <2>2, Zenon
  <2>4. Rd \in Byte
    BY DecodedTypes
  <2>5. BitsOf(res) = {k \in 0..7 : IsSet(Rd, (k + 4) % 8)}
    BY <2>4, SwapIs
  <2>6. QED
    BY <2>3, <2>5, Zenon
<1>6. ASSUME Code = "in" PROVE membyte(memory', d.ddddd) = membyte(memory, IoPort(d))
  <2>1. Execute("in", c, d) = Put(c, d.ddddd, membyte(memory, IoPort(d)))
    BY <1>1, Dispatch DEF instr_in
  <2>2. QED
    BY <1>3, <1>6, <2>1, Zenon
<1>7. ASSUME Code = "out" PROVE membyte(memory', IoPort(d)) = Rd
  <2>1. Execute("out", c, d) = Put(c, IoPort(d), Rd)
    BY <1>2, Dispatch DEF instr_out
  <2>2. QED
    BY <1>3, <1>7, <2>1, Zenon
<1>8. QED
  BY <1>4, <1>5, <1>6, <1>7, Zenon

\* MOVW.
LEMMA MovwSteps ==
  ASSUME DesTyped, TypeOK, Next, Fetches(Flash, pc), ~trapped', Code = "movw"
  PROVE  memword(memory', 2 * (Decoded.ddddd - 16)) = memword(memory, 2 * (Decoded.rrrrr - 16))
<1> DEFINE c == Machine
           d == Decoded
           a == 2 * (d.ddddd - 16)
           w == memword(memory, 2 * (d.rrrrr - 16))
<1>1. c.mem = memory
  BY MachineIs
<1>2. a \in Int
  BY DecodedTypes, OperandTypes
<1>3. w \in Word16
  BY ReadType DEF TypeOK
<1> HIDE DEF c
<1>4. Execute("movw", c, d) = PutWord(c, a, w)
  BY <1>1, Dispatch DEF instr_movw
<1> HIDE DEF a, w
<1>5. memword(memory', a) = w
  BY <1>2, <1>3, <1>4, PutWordSteps DEF c
<1>6. QED
  BY <1>5 DEF a, w

\* LDS and STS.
LEMMA DirectSteps ==
  ASSUME DesTyped, TypeOK, Next, Fetches(Flash, pc), ~trapped'
  PROVE  /\ Code = "lds" /\ ~knobs.pc_mem_max_256b
              => membyte(memory', Decoded.ddddd) = membyte(memory, Direct)
         /\ Code = "sts" => membyte(memory', Direct) = Rd
<1> DEFINE c == Machine
           d == Decoded
           a == Extend(c, d.imm_u16, RAMPD)
           at == IF c.k.pc_mem_max_256b THEN a % 256 ELSE a
<1>1. c.k = knobs /\ \A x : Reg(c, x) = membyte(memory, x)
  BY MachineIs
<1>2. at = Direct
  <2>1. d.imm_u16 \in Int
    BY DecodedTypes, OperandTypes
  <2> HIDE DEF c
  <2>2. QED
    BY <1>1, <2>1, SMT DEF Extend, Direct
<1>3. Reg(c, d.ddddd) = Rd
  BY <1>1, Zenon DEF Rd
<1> HIDE DEF c
<1>4. Execute("lds", c, d) = Put(c, d.ddddd, Reg(c, a)) /\ Execute("sts", c, d) = Put(c, at, Rd)
  <2>1. instr_lds(c, d) = Put(c, d.ddddd, Reg(c, a)) /\ instr_sts(c, d) = Put(c, at, Rd)
    BY <1>3, Zenon DEF instr_lds, instr_sts
  <2>2. QED
    BY <2>1, Dispatch
<1>5. ~knobs.pc_mem_max_256b => a = Direct
  BY <1>1, <1>2
<1> HIDE DEF a, at
<1>6. ASSUME NEW x, NEW v, Execute(Code, c, d) = Put(c, x, v) PROVE membyte(memory', x) = v
  BY <1>6, PutSteps, Zenon DEF c
<1>7. QED
  BY <1>1, <1>2, <1>4, <1>5, <1>6, Zenon

\* XCH, LAS, LAC and LAT.
LEMMA ExchangeSteps ==
  ASSUME DesTyped, TypeOK, Next, Fetches(Flash, pc), ~trapped', Code = "xch"
  PROVE  ExchangeStep
<1> DEFINE c == Machine
           d == Decoded
           z == memword(memory, REGP_Z)
           old == membyte(memory, z)
           kind == Field(d.instr, 1, 0)
           new == CASE kind = 0 -> Rd
                    [] kind = 1 -> Or(old, Rd)
                    [] kind = 2 -> And(old, Not(Rd))
                    [] kind = 3 -> Xor(old, Rd)
<1>1. c.mem = memory /\ \A x : Reg(c, x) = membyte(memory, x)
  BY MachineIs
<1>2. Reg(c, d.ddddd) = Rd
  BY <1>1, Zenon DEF Rd
<1> HIDE DEF c
<1>3. instr_xch(c, d) = Put(Put(c, z, new), d.ddddd, old)
  BY <1>1, <1>2, Zenon DEF instr_xch
<1>4. Execute("xch", c, d) = Put(Put(c, z, new), d.ddddd, old)
  BY <1>3, Dispatch
<1>5. Rd \in Byte
  BY DecodedTypes
<1>6. ASSUME z # d.ddddd PROVE
        /\ kind = 0 => BitsOf(new) = BitsOf(Rd)
        /\ kind = 1 => BitsOf(new) = BitsOf(old) \cup BitsOf(Rd)
        /\ kind = 2 => BitsOf(new) = BitsOf(old) \ BitsOf(Rd)
        /\ kind = 3 => BitsOf(new) = OneOf(BitsOf(old), BitsOf(Rd))
  <2>1. \A v : BitsOf(v) \in SUBSET (0..7)
    BY DEF BitsOf
  <2>2. \A S : S \in SUBSET (0..7) => BitsOf(FromBits(S)) = S
    BY BitsFrom
  <2>3. Not(Rd) = FromBits((0..7) \ BitsOf(Rd))
    BY <1>5, BitsBack, NotIs
  <2>4. BitsOf(Not(Rd)) = (0..7) \ BitsOf(Rd)
    <3>1. (0..7) \ BitsOf(Rd) \in SUBSET (0..7)
      OBVIOUS
    <3>2. QED
      BY <2>2, <2>3, <3>1, Zenon
  <2>5. /\ kind = 0 => new = Rd
        /\ kind = 1 => new = FromBits(BitsOf(old) \cup BitsOf(Rd))
        /\ kind = 2 => new = FromBits(BitsOf(old) \cap ((0..7) \ BitsOf(Rd)))
        /\ kind = 3 => new = FromBits(OneOf(BitsOf(old), BitsOf(Rd)))
    <3>1. /\ kind = 0 => new = Rd
          /\ kind = 1 => new = Or(old, Rd)
          /\ kind = 2 => new = And(old, Not(Rd))
          /\ kind = 3 => new = Xor(old, Rd)
      <4> HIDE DEF old, kind
      <4>1. QED
        OBVIOUS
    <3> HIDE DEF new, old, kind
    <3>2. QED
      BY <2>4, <3>1, Zenon DEF Or, And, Xor, OneOf
  <2> HIDE DEF new, old, kind
  <2>6. /\ BitsOf(old) \cup BitsOf(Rd) \in SUBSET (0..7)
        /\ BitsOf(old) \cap ((0..7) \ BitsOf(Rd)) \in SUBSET (0..7)
        /\ BitsOf(old) \cap ((0..7) \ BitsOf(Rd)) = BitsOf(old) \ BitsOf(Rd)
        /\ OneOf(BitsOf(old), BitsOf(Rd)) \in SUBSET (0..7)
    BY <2>1, Zenon DEF OneOf
  <2>7. QED
    BY <2>2, <2>5, <2>6, Zenon
<1> HIDE DEF z, old, new, kind
<1>7. \A x : membyte(memory', x) = IF x = d.ddddd THEN old ELSE IF x = z THEN new ELSE membyte(memory, x)
  BY <1>4, PutTwoSteps DEF c
<1>8. QED
  BY <1>6, <1>7, Zenon DEF ExchangeStep, z, old, kind

\* A byte of a word of flash.
LEMMA FlashByteIs ==
  ASSUME NEW a \in Nat
  PROVE  LET word == romword(Flash, a \div 2)
         IN  rombyte(Flash, a) = IF a % 2 = 0 THEN word % 256 ELSE word \div 256
<1> DEFINE word == romword(Flash, a \div 2)
<1>1. word \in Nat /\ word < 65536
  BY FlashAssumption DEF romword
<1>2. rombyte(Flash, a) = IF a % 2 = 1 THEN High(word) ELSE Low(word)
  BY Zenon DEF rombyte
<1> HIDE DEF word
<1>3. High(word) = word \div 256 /\ Low(word) = word % 256
  BY <1>1, SMT DEF High, Low
<1>4. a % 2 = 1 <=> ~(a % 2 = 0)
  BY SMT
<1>5. rombyte(Flash, a) = IF a % 2 = 0 THEN word % 256 ELSE word \div 256
  BY <1>2, <1>3, <1>4, Zenon
<1>6. QED
  BY <1>5 DEF word

\* LPM and ELPM into R0, through Z, and through Z+ where that is defined.
LEMMA FlashSteps ==
  ASSUME DesTyped, TypeOK, Next, Fetches(Flash, pc), ~trapped'
  PROVE  /\ Code = "elpm" => FlashStep(0, IsSet(Decoded.instr, 4))
         /\ Code = "elpmz" => /\ FlashStep(Decoded.ddddd, IsSet(Decoded.instr, 1))
                              /\ IsSet(Decoded.instr, 0) => FlashMoves
<1> DEFINE c == Machine
           d == Decoded
           z == memword(memory, REGP_Z)
           at(ext) == FlashAddr(c, ext)
           v(ext) == rombyte(Flash, at(ext))
<1>1. Plain(c) /\ c.mem = memory /\ c.flash = Flash /\ \A x : Reg(c, x) = membyte(memory, x)
  BY MachineIs
<1>2. z \in Word16 /\ membyte(memory, RAMPZ) \in Byte
  BY ReadType DEF TypeOK
<1> HIDE DEF c
<1>3. ASSUME NEW ext
      PROVE  /\ at(ext) \in Nat
             /\ at(ext) = IF ext THEN z + 65536 * membyte(memory, RAMPZ) ELSE z
  <2>1. z \in Nat /\ membyte(memory, RAMPZ) \in Nat
    BY <1>2, ByteIs, SMT DEF Word16
  <2> DEFINE r == Reg(c, RAMPZ)
  <2>2. at(ext) = memword(c.mem, REGP_Z) + IF ext THEN 65536 * r ELSE 0
    BY DEF FlashAddr
  <2>3. r = membyte(memory, RAMPZ) /\ memword(c.mem, REGP_Z) = z
    BY <1>1, Zenon
  <2> HIDE DEF z, r, at
  <2>4. at(ext) = z + IF ext THEN 65536 * r ELSE 0
    BY <2>2, <2>3
  <2>5. QED
    BY <2>1, <2>3, <2>4, SMT
<1>4. ASSUME NEW reg, NEW ext, membyte(memory', reg) = v(ext) PROVE FlashStep(reg, ext)
  <2> DEFINE a == at(ext)
             word == romword(Flash, a \div 2)
  <2>1. a \in Nat
    BY <1>3
  <2>4. a = IF ext THEN memword(memory, REGP_Z) + 65536 * membyte(memory, RAMPZ)
              ELSE memword(memory, REGP_Z)
    BY <1>3
  <2>5. membyte(memory', reg) = rombyte(Flash, a)
    BY <1>4
  <2> HIDE DEF a
  <2>2. rombyte(Flash, a) = IF a % 2 = 0 THEN word % 256 ELSE word \div 256
    BY <2>1, FlashByteIs
  <2>3. QED
    BY <2>2, <2>4, <2>5 DEF FlashStep
<1>5. ASSUME Code = "elpm" PROVE FlashStep(0, IsSet(d.instr, 4))
  <2> DEFINE ext == IsSet(d.instr, 4)
  <2>1. instr_elpm(c, d) = Put(c, 0, v(ext))
    <3> HIDE DEF at
    <3>1. QED
      BY <1>1, Zenon DEF instr_elpm, at
  <2>2. Execute("elpm", c, d) = Put(c, 0, v(ext))
    BY <2>1, Dispatch
  <2> HIDE DEF v, ext
  <2>3. membyte(memory', 0) = v(ext)
    BY <1>5, <2>2, PutSteps DEF c
  <2>4. QED
    BY <1>4, <2>3, Zenon DEF ext
<1>6. ASSUME Code = "elpmz"
      PROVE  FlashStep(d.ddddd, IsSet(d.instr, 1)) /\ (IsSet(d.instr, 0) => FlashMoves)
  <2> DEFINE ext == IsSet(d.instr, 1)
             inc == IsSet(d.instr, 0)
             loaded == Put(c, d.ddddd, v(ext))
             addr == at(ext)
             next == (addr + 1) % 65536
             moved == PutWord(loaded, REGP_Z, next)
  <2>1. ~(inc /\ d.ddddd \in {30, 31})
    <3>1. SUFFICES ASSUME inc /\ d.ddddd \in {30, 31} PROVE FALSE
      OBVIOUS
    <3>2. Execute(Code, c, d) = Trap(c)
      BY <1>6, <3>1, ElpmzTraps, Dispatch
    <3>3. Trap(c).trap = TRUE
      BY <1>1 DEF Plain, Trap
    <3>4. PICK r : r = Execute(Code, Fetched(pc, memory), Decoded)
      OBVIOUS
    <3>5. r.trap = FALSE
      BY <3>4, StepOf
    <3>6. QED
      BY <3>2, <3>3, <3>4, <3>5, Zenon DEF c, Machine
  <2>2. instr_elpmz(c, d) = CASE inc /\ d.ddddd \in {30, 31} -> Trap(c)
          [] inc /\ d.ddddd \notin {30, 31} -> moved
          [] ~inc -> loaded
    BY <1>1 DEF instr_elpmz
  <2>3. Execute("elpmz", c, d) = instr_elpmz(c, d)
    BY Dispatch
  <2>4. next \in Word16 /\ next = (z + 1) % 65536
    <3>1. z \in Nat /\ membyte(memory, RAMPZ) \in Nat
      BY <1>2, ByteIs, SMT DEF Word16
    <3>2. addr \in Nat /\ addr = IF ext THEN z + 65536 * membyte(memory, RAMPZ) ELSE z
      BY <1>3
    <3> HIDE DEF z, addr, ext
    <3>3. QED
      BY <3>1, <3>2, SMT DEF Word16
  <2>5. CASE ~inc
    <3> HIDE DEF inc, v, moved
    <3>1. Execute(Code, c, d) = loaded
      BY <1>6, <2>2, <2>3, <2>5, Zenon
    <3> HIDE DEF ext
    <3>2. membyte(memory', d.ddddd) = v(ext)
      BY <3>1, PutSteps DEF c
    <3>3. FlashStep(d.ddddd, ext)
      BY <1>4, <3>2, Zenon
    <3>4. QED
      BY <2>5, <3>3, Zenon DEF inc, ext
  <2>6. CASE inc
    <3> HIDE DEF inc, v, next, ext
    <3>1. Execute(Code, c, d) = moved
      <4> HIDE DEF moved, loaded
      <4>1. QED
        BY <1>6, <2>1, <2>2, <2>3, <2>6, Zenon
    <3> DEFINE n == Store(memory, d.ddddd, v(ext))
               m == memwriteword(n, REGP_Z, next)
    <3>2. moved = [c EXCEPT !.mem = m]
      <4>1. loaded = [c EXCEPT !.mem = n]
        BY <1>1, Zenon DEF Put
      <4> HIDE DEF loaded, n
      <4>2. moved = [[c EXCEPT !.mem = n] EXCEPT !.mem = m]
        BY <1>1, <4>1 DEF PutWord, Plain
      <4> HIDE DEF m, moved
      <4>3. QED
        BY <1>1, <4>2 DEF Plain
    <3>3. \A x : membyte(n, x) = IF x = d.ddddd THEN v(ext) ELSE membyte(memory, x)
      BY ReadStore
    <3> HIDE DEF n
    <3>4. \A x : membyte(m, x) = IF x = REGP_Z + 1 THEN High(next)
                                 ELSE IF x = REGP_Z THEN Low(next) ELSE membyte(n, x)
      BY ReadWord
    <3> HIDE DEF m, moved
    <3>5. \A x : membyte(memory', x) = membyte(m, x)
      BY <3>1, <3>2, MemoryStep DEF c
    <3>6. d.ddddd # REGP_Z /\ d.ddddd # REGP_Z + 1
      BY <2>1, <2>6, SMT DEF REGP_Z
    <3>7. membyte(memory', d.ddddd) = v(ext)
      BY <3>3, <3>4, <3>5, <3>6, Zenon
    <3>8. membyte(memory', REGP_Z) = Low(next) /\ membyte(memory', REGP_Z + 1) = High(next)
      BY <3>4, <3>5, SMT DEF REGP_Z
    <3>9. memword(memory', REGP_Z) = next
      BY <2>4, <3>8, WordBytes, SMT DEF memword
    <3>10. FlashStep(d.ddddd, ext)
      BY <1>4, <3>7, Zenon
    <3>11. FlashMoves
      BY <2>4, <3>9 DEF FlashMoves
    <3>12. QED
      BY <3>10, <3>11 DEF ext
  <2>7. QED
    BY <2>5, <2>6
<1>7. QED
  BY <1>5, <1>6, Zenon

\* PUSH and POP.
LEMMA StackSteps ==
  ASSUME DesTyped, TypeOK, Next, Fetches(Flash, pc), ~trapped'
  PROVE  (Code = "push" => PushStep) /\ (Code = "pop" => PopStep)
<1> DEFINE c == Machine
           d == Decoded
           sp == getsp(memory)
<1>1. c.mem = memory /\ \A x : Reg(c, x) = membyte(memory, x)
  BY MachineIs
<1>2. sp \in Word16
  BY ReadType DEF TypeOK
<1>3. Reg(c, d.ddddd) = Rd
  BY <1>1, Zenon DEF Rd
<1> HIDE DEF c
<1>4. ASSUME Code = "push" PROVE PushStep
  <2> DEFINE m == pushbyte(memory, Rd)
  <2>1. Execute("push", c, d) = [c EXCEPT !.mem = m]
    BY <1>1, <1>3, Dispatch DEF instr_push
  <2>2. getsp(m) = (sp - 1) % 65536 /\ (sp # SP_LO /\ sp # SP_HI => membyte(m, sp) = Rd)
    BY <1>2, PushIs
  <2> HIDE DEF m
  <2>3. \A x : membyte(memory', x) = membyte(m, x)
    BY <1>4, <2>1, MemoryStep DEF c
  <2>4. getsp(memory') = getsp(m)
    BY <2>3 DEF getsp
  <2>5. sp # SP_LO /\ sp # SP_HI => membyte(memory', sp) = Rd
    <3>1. membyte(memory', sp) = membyte(m, sp)
      BY <2>3
    <3>2. QED
      BY <2>2, <3>1
  <2>6. QED
    BY <2>2, <2>4, <2>5 DEF PushStep
<1>5. ASSUME Code = "pop" PROVE PopStep
  <2> DEFINE v == popbyte(memory)
             n == popped(memory)
             m == Store(n, d.ddddd, v)
  <2>1. Execute("pop", c, d) = [c EXCEPT !.mem = m]
    BY <1>1, Dispatch DEF instr_pop
  <2>2. /\ getsp(n) = (sp + 1) % 65536
        /\ sp + 1 # SP_LO /\ sp + 1 # SP_HI => v = membyte(memory, sp + 1)
    BY <1>2, PopIs
  <2> HIDE DEF n, v
  <2>3. \A x : membyte(m, x) = IF x = d.ddddd THEN v ELSE membyte(n, x)
    BY ReadStore
  <2> HIDE DEF m
  <2>4. \A x : membyte(memory', x) = membyte(m, x)
    BY <1>5, <2>1, MemoryStep DEF c
  <2>5. d.ddddd # SP_LO /\ d.ddddd # SP_HI
    BY DecodedTypes, SMT DEF IsOperands, Registers, SP_LO, SP_HI
  <2>6. getsp(memory') = getsp(n)
    BY <2>3, <2>4, <2>5 DEF getsp
  <2>7. membyte(memory', d.ddddd) = v
    BY <2>3, <2>4
  <2>8. QED
    BY <2>2, <2>6, <2>7 DEF PopStep
<1>6. QED
  BY <1>4, <1>5

\* BLD, SBI and CBI.
LEMMA BitSteps ==
  ASSUME DesTyped, TypeOK, Next, Fetches(Flash, pc), ~trapped'
  PROVE  LET d == Decoded
             a == IoBit(d)
         IN  /\ Code = "bld" => BitsOf(membyte(memory', d.ddddd))
                                  = WithBit(Rd, d.rrrrr - 16, SregHas("T"))
             /\ Code = "cbisbi" => BitsOf(membyte(memory', a))
                                     = WithBit(membyte(memory, a), d.rrrrr - 16, IsSet(d.instr, 9))
<1> DEFINE c == Machine
           d == Decoded
           n == d.rrrrr - 16
           a == IoBit(d)
<1>1. \A x : Reg(c, x) = membyte(memory, x)
  BY MachineIs
<1>2. Flag(c, "T") = SregHas("T") /\ Reg(c, d.ddddd) = Rd
  BY <1>1, Zenon DEF Flag, SregHas, Rd
<1>3. SregHas("T") \in BOOLEAN /\ IsSet(d.instr, 9) \in BOOLEAN
  BY Zenon DEF SregHas, IsSet
<1> HIDE DEF c
<1>4. /\ Execute("bld", c, d) = Put(c, d.ddddd, SetBit(Rd, n, SregHas("T")))
      /\ Execute("cbisbi", c, d) = Put(c, a, SetBit(membyte(memory, a), n, IsSet(d.instr, 9)))
  BY <1>1, <1>2, Dispatch DEF instr_bld, instr_cbisbi
<1> HIDE DEF n, a
<1>5. ASSUME NEW x, NEW v, NEW on \in BOOLEAN, Execute(Code, c, d) = Put(c, x, SetBit(v, n, on))
      PROVE  BitsOf(membyte(memory', x)) = WithBit(v, n, on)
  <2> DEFINE w == SetBit(v, n, on)
  <2>1. Execute(Code, c, d) = Put(c, x, w)
    BY <1>5
  <2>2. BitsOf(w) = WithBit(v, n, on)
    BY SetBitIs
  <2> HIDE DEF w
  <2>3. membyte(memory', x) = w
    BY <2>1, PutSteps, Zenon DEF c
  <2>4. QED
    BY <2>2, <2>3, Zenon
<1>6. QED
  BY <1>3, <1>4, <1>5, Zenon DEF n, a

\* BST, BSET and BCLR.
LEMMA FlagSteps ==
  ASSUME TypeOK, Next, Fetches(Flash, pc)
  PROVE  /\ Code = "bst" => FlagGets(SregBit["T"], IsSet(Rd, Decoded.rrrrr - 16))
         /\ Code = "bclrset" => FlagGets(Decoded.ddddd - 16, ~IsSet(Decoded.instr, 7))
<1> DEFINE c == Fetched(pc, memory)
           d == Decoded
<1>1. Idle(c) /\ c.skip = FALSE /\ c.mem = memory /\ Reg(c, d.ddddd) = Rd
  BY FetchedReads, Zenon
<1>2. ASSUME NEW p, NEW n, NEW P \in BOOLEAN, Execute(Code, c, d) = Flags(c, p), Clean(p),
             \A f \in DOMAIN SregBit : /\ SregBit[f] \in p.set <=> SregBit[f] = n /\ P
                                       /\ SregBit[f] \in p.clr <=> SregBit[f] = n /\ ~P
      PROVE  FlagGets(n, P)
  <2>1. Leaves(c, Flags(c, p), memory, p)
    BY <1>1, FlagsLeave, Zenon
  <2>2. \A f \in DOMAIN SregBit :
          Shows(f, SregBit[f] \in p.set \/ (SregHas(f) /\ SregBit[f] \notin p.clr))
    BY <1>2, <2>1, FlagStep, Zenon
  <2>3. ASSUME NEW f \in DOMAIN SregBit
        PROVE  Shows(f, IF SregBit[f] = n THEN P ELSE SregHas(f))
    <3>1. CASE SregBit[f] = n
      BY <1>2, <2>2, <3>1, Zenon DEF Shows
    <3>2. CASE SregBit[f] # n
      BY <1>2, <2>2, <3>2, Zenon DEF Shows
    <3>3. QED
      BY <3>1, <3>2
  <2>4. QED
    BY <2>3, Zenon DEF FlagGets
<1> HIDE DEF c
<1>3. ASSUME Code = "bst" PROVE FlagGets(SregBit["T"], IsSet(Rd, d.rrrrr - 16))
  <2> DEFINE P == IsSet(Rd, d.rrrrr - 16)
             flags == [T |-> P]
             p == Affect(flags)
             n == SregBit["T"]
  <2>1. Execute("bst", c, d) = Flags(c, p)
    BY <1>1, Dispatch DEF instr_bst
  <2>2. P \in BOOLEAN
    BY Zenon DEF IsSet
  <2>3. DOMAIN flags = {"T"} /\ flags["T"] = P /\ "T" \in DOMAIN SregBit
    BY SregBitIs
  <2> HIDE DEF P, flags
  <2>4. Says(p, flags)
    BY <2>3, AffectSays
  <2> HIDE DEF p
  <2>5. ASSUME NEW f \in DOMAIN SregBit
        PROVE  /\ SregBit[f] \in p.set <=> SregBit[f] = n /\ P
               /\ SregBit[f] \in p.clr <=> SregBit[f] = n /\ ~P
    <3>1. CASE f = "T"
      BY <2>3, <2>4, <3>1, Zenon DEF Says, Decides
    <3>2. CASE f # "T"
      <4>1. SregBit[f] # n
        BY <2>3, <3>2, SregBitInjective, Zenon
      <4>2. SregBit[f] \notin p.set \cup p.clr
        BY <2>3, <2>4, <3>2, Zenon DEF Says
      <4>3. QED
        BY <4>1, <4>2, Zenon
    <3>3. QED
      BY <3>1, <3>2
  <2>6. Clean(p)
    BY <2>4 DEF Says
  <2> HIDE DEF n
  <2>7. FlagGets(n, P)
    <3>1. Execute(Code, c, d) = Flags(c, p)
      BY <1>3, <2>1
    <3>2. QED
      BY <1>2, <2>2, <2>5, <2>6, <3>1, Zenon
  <2>8. QED
    BY <2>7 DEF n, P
<1>4. ASSUME Code = "bclrset" PROVE FlagGets(d.ddddd - 16, ~IsSet(d.instr, 7))
  <2> DEFINE P == ~IsSet(d.instr, 7)
             n == d.ddddd - 16
             p == IF IsSet(d.instr, 7) THEN [set |-> {}, clr |-> {n}] ELSE [set |-> {n}, clr |-> {}]
  <2>1. Execute("bclrset", c, d) = Flags(c, p)
    BY Dispatch DEF instr_bclrset
  <2>2. P \in BOOLEAN
    OBVIOUS
  <2>3. p.set = (IF P THEN {n} ELSE {}) /\ p.clr = (IF P THEN {} ELSE {n})
    <3> HIDE DEF n
    <3>1. QED
      OBVIOUS
  <2> HIDE DEF P, p, n
  <2>4. Clean(p) /\ \A k : (k \in p.set <=> k = n /\ P) /\ (k \in p.clr <=> k = n /\ ~P)
    BY <2>2, <2>3 DEF Clean
  <2>5. FlagGets(n, P)
    <3>1. Execute(Code, c, d) = Flags(c, p)
      BY <1>4, <2>1
    <3>2. \A f \in DOMAIN SregBit : /\ SregBit[f] \in p.set <=> SregBit[f] = n /\ P
                                    /\ SregBit[f] \in p.clr <=> SregBit[f] = n /\ ~P
      BY <2>4, Zenon
    <3>3. Clean(p)
      BY <2>4
    <3>4. QED
      BY <1>2, <2>2, <3>1, <3>2, <3>3, Zenon
  <2>6. QED
    BY <2>5 DEF n, P
<1>5. QED
  BY <1>3, <1>4

\* For every program and machine: what an instruction moves arrives as it was, and what it
\* changes of a byte or of SREG is the bits it names.
THEOREM TransfersAreExact == ASSUME DesTyped PROVE Spec => TransfersExact
<1>1. TypeOK /\ [Next]_vars => [Fetches(Flash, pc) /\ ~trapped' => TransferStep]_vars
  <2>1. ASSUME TypeOK, Next, Fetches(Flash, pc), ~trapped' PROVE TransferStep
    BY <2>1, MoveSteps, MovwSteps, DirectSteps, ExchangeSteps, FlashSteps, StackSteps, BitSteps,
       FlagSteps, Zenon DEF TransferStep
  <2>2. QED
    BY <2>1
<1>2. Spec => []TypeOK
  BY CpuTypes
<1>3. QED
  BY <1>1, <1>2, PTL DEF Spec, TransfersExact
=============================================================================
