----------------------------- MODULE MCAvrArith -----------------------------
(***************************************************************************)
(* The idioms that compilers make 16-bit arithmetic from, run on the edges *)
(* of the value range and compared with arithmetic on numbers.  X is in    *)
(* r17:r16 and Y in r19:r18; each segment ends in a HALT.                  *)
(***************************************************************************)
EXTENDS AvrSteps, MCAvrAsm

Segs ==
  << \* 1: X + Y                2: X - Y
     <<ADD(16, 18), ADC(17, 19), HALT>>,
     <<SUB(16, 18), SBC(17, 19), HALT>>,
     \* 3: X < Y signed: BRLT    4: X < Y unsigned: BRLO
     <<CP(16, 18), CPC(17, 19), LDI(24, 1), BRBS(4, 1), LDI(24, 0), HALT>>,
     <<CP(16, 18), CPC(17, 19), LDI(24, 1), BRBS(0, 1), LDI(24, 0), HALT>>,
     \* 5: -X                    6: X >> 1 unsigned   7: X >> 1 signed
     <<NEG(17), NEG(16), SBCI(17, 0), HALT>>,
     <<LSR(17), ROR(16), HALT>>,
     <<ASR(17), ROR(16), HALT>>,
     \* 8: X * Y in r21:r20
     <<MUL(16, 18), MOVW(20, 0), MUL(17, 18), ADD(21, 0), MUL(16, 19), ADD(21, 0),
       HALT>>,
     \* 9: X + 63 in r25:r24     10: X - 63 in r25:r24
     <<MOVW(24, 16), ADIW(24, 63), HALT>>,
     <<MOVW(24, 16), SBIW(24, 63), HALT>>,
     \* 11: ~(XL & YL) in r20, ~XL | ~YL in r16, then r16 and r20 are exchanged
     <<MOV(20, 16), AND(20, 18), COM(20), COM(16), COM(18), OR(16, 18),
       EOR(16, 20), EOR(20, 16), EOR(16, 20), HALT>>,
     \* 12: XL signed times YL unsigned plus XL unsigned times YL signed
     <<MULSU(16, 18), MOVW(20, 0), MULSU(18, 16), ADD(20, 0), ADC(21, 1), HALT>>,
     \* 13..15: fractional products of XL and YL
     <<FMUL(16, 18), HALT>>, <<FMULS(16, 18), HALT>>, <<FMULSU(16, 18), HALT>>,
     \* 16: XL + 1 and 17: XL - 1, compared with a signed BRLT against zero
     <<INC(16), LDI(24, 1), BRBS(4, 1), LDI(24, 0), HALT>>,
     <<DEC(16), LDI(24, 1), BRBS(4, 1), LDI(24, 0), HALT>>,
     \* 18: nibbles swapped, masked and compared with constants
     <<SWAP(16), MOV(20, 16), ANDI(16, 15), ANDI(20, 240), OR(20, 16), SWAP(20),
       HALT>>,
     \* 19: X - 300
     <<SUBI(16, 44), SBCI(17, 1), HALT>>,
     \* 20: signed product of XL and YL
     <<MULS(16, 18), HALT>> >>

MCFlash == Image(Segs)
MCDes(key, block, decrypt) == block

Edges == {0, 1, 63, 127, 128, 255, 256, 511, 32767, 32768, 33023, 65280, 65535}
Plain == [pc22 |-> FALSE, pc_mem_max_64k |-> FALSE, pc_mem_max_256b |-> FALSE]
Machine(i, x, y, sreg) ==
  [pc |-> Entry(Segs, i), k |-> Plain,
   mem |-> [a \in {16, 17, 18, 19, SREG} |->
              CASE a = 16 -> Low(x) [] a = 17 -> High(x)
                [] a = 18 -> Low(y) [] a = 19 -> High(y) [] a = SREG -> sreg]]
MCStart == {Machine(i, x, y, s) : i \in DOMAIN Segs, x \in Edges, y \in Edges,
                                  s \in {0, 255}}

-----------------------------------------------------------------------------
Done(i) == pc = End(Segs, i)
At(a) == membyte(memory, a)
Word(a) == memword(memory, a)
On(f) == IsSet(At(SREG), SregBit[f])
ZBefore == IsSet(membyte(began.mem, SREG), SregBit.Z)
X == memword(began.mem, 16)
Y == memword(began.mem, 18)
XL == Low(X)
YL == Low(Y)
S8(v) == Signed(v, 8)
S16(v) == Signed(v, 16)

\* ADD/ADC and ADIW add words: carry is the unsigned overflow, V the signed
\* one, N the sign of the result and S the sign of the true sum.  With the MUL
\* family they multiply them: the low word of a 16-bit product, mixed and signed
\* products, and the fractional ones, shifted left with the lost bit in C.
AddsAndMultiplies ==
  LET F(p) == Word(0) = (2 * p) % 65536 /\ On("C") = (p % 65536 >= 32768)
  IN  /\ Done(1) => /\ Word(16) = (X + Y) % 65536
                    /\ On("C") = (X + Y >= 65536)
                    /\ On("V") = (S16(X) + S16(Y) \notin -32768..32767)
                    /\ On("N") = (Word(16) >= 32768)
                    /\ On("S") = (S16(X) + S16(Y) < 0)
      /\ Done(9) => /\ Word(24) = (X + 63) % 65536
                    /\ On("C") = (X + 63 >= 65536)
                    /\ On("S") = (S16(X) + 63 < 0)
                    /\ On("Z") = (Word(24) = 0)
      /\ Done(8) => Word(20) =
           (XL * YL + 256 * ((High(X) * YL + XL * High(Y)) % 256)) % 65536
      /\ Done(12) => Word(20) = (S8(XL) * YL + XL * S8(YL)) % 65536
      /\ Done(13) => F(XL * YL)
      /\ Done(14) => F(S8(XL) * S8(YL))
      /\ Done(15) => F(S8(XL) * YL)
      /\ Done(20) => S16(Word(0)) = S8(XL) * S8(YL)

\* SUB/SBC, SUBI/SBCI and SBIW subtract words, CP/CPC compare them: C after it
\* is the unsigned order and S the signed one, and BRLO and BRLT act on them.
\* Z survives a subtraction or comparison of registers when the words are equal
\* and is cleared when they differ in any byte; instr_cpc never sets it, so it
\* has to be up before.  SBIW sets it by the whole word, SBCI by its own byte.
\* INC and DEC set S to the sign of the true result, also where it does not fit
\* a byte, so that BRLT after them is right.
ComparesWords ==
  /\ Done(2) => /\ Word(16) = (X - Y) % 65536
                /\ On("C") = (X < Y)
                /\ On("S") = (S16(X) < S16(Y))
                /\ On("V") = (S16(X) - S16(Y) \notin -32768..32767)
  /\ Done(2) \/ Done(3) \/ Done(4) => On("Z") = (ZBefore /\ X = Y)
  /\ Done(3) => (At(24) = 1) = (S16(X) < S16(Y))
  /\ Done(4) => (At(24) = 1) = (X < Y)
  /\ Done(3) \/ Done(4) => Word(16) = X
  /\ Done(10) => /\ Word(24) = (X - 63) % 65536
                 /\ On("C") = (X < 63)
                 /\ On("S") = (S16(X) < 63)
                 /\ On("Z") = (X = 63)
  /\ Done(19) => /\ Word(16) = (X - 300) % 65536
                 /\ On("C") = (X < 300)
                 /\ On("S") = (S16(X) < 300)
                 /\ On("Z") = (X \in 300..555)
  /\ Done(16) => (At(24) = 1) = (S8(XL) + 1 < 0) /\ At(16) = (XL + 1) % 256
  /\ Done(17) => (At(24) = 1) = (S8(XL) - 1 < 0) /\ At(16) = (XL - 1) % 256

\* NEG/NEG/SBCI negates a word, LSR/ROR and ASR/ROR halve it towards minus
\* infinity with the lost bit in C; De Morgan's law and the exchange by three
\* EORs hold of COM, AND, OR and EOR, and SWAP takes a byte to its nibbles and
\* back.
NegatesAndHalves ==
  /\ Done(5) => Word(16) = (0 - X) % 65536
  /\ Done(6) => Word(16) = X \div 2 /\ On("C") = (X % 2 = 1)
  /\ Done(7) => S16(Word(16)) = S16(X) \div 2 /\ On("C") = (X % 2 = 1)
  /\ Done(11) => At(16) = At(20) /\ At(20) = Not(And(XL, YL))
  /\ Done(18) => At(16) = XL \div 16 /\ At(20) = XL
=============================================================================
