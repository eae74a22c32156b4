----------------------------- MODULE MCAvrFlow ------------------------------
(***************************************************************************)
(* Calls, returns, the stack and skips.  The program is in flash twice:    *)
(* across address 256, so that a return address needs both its bytes, and  *)
(* across address 2^17 for the machines with a 22-bit program counter.     *)
(***************************************************************************)
EXTENDS AvrSteps, MCAvrAsm

BASE   == 246
BASE22 == 131062
ILLEGAL == \h9404

Segs(b) ==
  << \* 1: f calls itself until r16 is zero
     <<RJMP(4), DEC(16), BRBS(1, 1), RCALL(-3), RET, RCALL(-5), HALT>>,
     \* 2: CALL of a function that saves r16 and returns with RETI
     <<RJMP(4), PUSH(16), COM(16), POP(16), RETI>> \o CALL(b + 8) \o <<HALT>>,
     \* 3: ICALL or EICALL of the function of segment 2
     <<LDI(30, (b + 8) % 256), LDI(31, ((b + 8) \div 256) % 256),
       IF b < 65536 THEN ICALL ELSE EICALL, HALT>>,
     \* 4: last in, first out
     <<PUSH(16), PUSH(18), POP(16), POP(18), HALT>>,
     \* 5: skips, over short and long instructions and over another skip; the
     \* addresses of the STS are themselves instructions
     <<SBRC(16, 0)>> \o STS(17, INC(20)) \o <<SBRS(16, 1), INC(20), CPSE(16, 18)>>
       \o STS(17, INC(21)) \o <<SBRC(16, 2), SBRS(16, 3), INC(21), OUTP(16, 5),
       SBIC(5, 4)>> \o JMP(b + 40) \o <<INC(22), SBIS(5, 5)>> \o JMP(b + 44)
       \o <<INC(23), HALT>>,
     \* 6: a skip over an instruction that is not implemented
     <<SBRC(16, 0), SLEEP, HALT>>,
     \* 7: a skip over a word that is no instruction
     <<SBRC(16, 0), ILLEGAL, HALT>>,
     \* 8: a loop
     <<DEC(16), BRBC(1, -2), HALT>>,
     \* 9: a jump through Z over a HALT
     <<LDI(30, (b + 58) % 256), LDI(31, ((b + 58) \div 256) % 256),
       IF b < 65536 THEN IJMP ELSE EIJMP, HALT, HALT>>,
     \* 10: the same, always with EIJMP
     <<LDI(30, (b + 63) % 256), LDI(31, ((b + 63) \div 256) % 256), EIJMP, HALT,
       HALT>> >>

Entries == [i \in 1..10 |-> Entry(Segs(0), i)]
SegEnds == [i \in 1..10 |-> End(Segs(0), i)]
Low2  == Image(Segs(BASE))
High2 == Image(Segs(BASE22))
Halves == DOMAIN Low2
MCFlash == [a \in {BASE + o : o \in Halves} \cup {BASE22 + o : o \in Halves} |->
              IF a >= BASE22 THEN High2[a - BASE22] ELSE Low2[a - BASE]]
MCDes(key, block, decrypt) == block

\* SP starts where it has room, at the end of a page of 256 and at 2^16 - 1;
\* for segment 4 also where a push takes it below 0.
SpStart(i) == {256, 767, 65535} \cup IF i = 4 THEN {0, 1} ELSE {}
MCStart ==
 UNION {
  {[pc |-> b + Entries[i], base |-> b, seg |-> i,
    k |-> [pc22 |-> w, pc_mem_max_64k |-> FALSE, pc_mem_max_256b |-> FALSE],
    mem |-> [a \in {16, 17, 18, EIND, SP_LO, SP_HI, 65536} |->
               CASE a = 16 -> r [] a = 17 -> 9 [] a = 18 -> 5
                 [] a = EIND -> (b + IF i = 3 THEN 8 ELSE 58) \div 65536
                 [] a = SP_LO -> Low(sp) [] a = SP_HI -> High(sp)
                 [] a = 65536 -> 77]] :
     <<b, w>> \in {<<BASE, FALSE>>, <<BASE, TRUE>>, <<BASE22, TRUE>>},
     r \in {1, 2, 5, 8, 42, 53}, sp \in SpStart(i)} : i \in 1..10}

-----------------------------------------------------------------------------
B == began.base
Seg == began.seg
Halted == ~trapped /\ pc = B + SegEnds[Seg]
Now(a) == membyte(memory, a)
Was(a) == membyte(began.mem, a)
R16(n) == IsSet(Was(16), n)
Wide == knobs.pc22
Frame == IF Wide THEN 3 ELSE 2

\* However a subroutine is called and left, the caller goes on after the call
\* with SP where it was, and what was pushed comes back.  The one exception is
\* a byte pushed at address 0: SP wraps to 2^16 - 1 and back, but popbyte reads
\* the byte at 2^16, which no push ever writes.
Popped(a, byte) == IF a = 0 THEN Was(65536) ELSE byte
BalancedStack ==
  (Halted /\ Seg \in 1..4) =>
    /\ getsp(memory) = getsp(began.mem)
    /\ Seg \in {2, 3} => Now(16) = Was(16) /\ IsSet(Now(SREG), SregBit.I)
    /\ Seg = 4 =>
         LET sp == getsp(began.mem)
         IN  /\ Now(18) = Popped(sp, Was(16))
             /\ Now(16) = Popped((sp - 1) % 65536, Was(18))

\* In the recursion every activation has a frame of its own: on entry SP is
\* as many frames down as there are activations, and the frame on top holds
\* the address after the call.
FramePerCall ==
  (Seg = 1 /\ pc = B + 1) =>
    LET depth == Was(16) - Now(16) + 1
        sp    == getsp(memory)
        low   == Now(sp + Frame) + 256 * Now(sp + Frame - 1)
    IN  /\ sp = getsp(began.mem) - Frame * depth
        /\ low + (IF Wide THEN 65536 * Now(sp + 1) ELSE 0)
             = IF depth = 1 THEN B + 6 ELSE B + 4

\* A skip passes over exactly one instruction, of one word or of two: the second
\* word of a long one is never executed, and a skip that is itself skipped has
\* no effect.
SkipsOne ==
  (Halted /\ Seg = 5) =>
    /\ (Now(INC(20)) = 9) = R16(0)
    /\ (Now(20) = 1) = ~R16(1)
    /\ (Now(INC(21)) = 9) = (Was(16) # Was(18))
    /\ (Now(21) = 1) = (~R16(2) \/ ~R16(3))
    /\ (Now(22) = 1) = ~R16(4)
    /\ (Now(23) = 1) = R16(5)
=============================================================================
