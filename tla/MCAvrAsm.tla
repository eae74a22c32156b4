------------------------------ MODULE MCAvrAsm ------------------------------
(***************************************************************************)
(* An assembler for the programs of the MC modules.                        *)
(***************************************************************************)
EXTENDS Integers, SequencesExt

TwoReg(op, d, r) == op + 512 * (r \div 16) + 16 * d + (r % 16)
ADD(d, r)  == TwoReg(\h0c00, d, r)
ADC(d, r)  == TwoReg(\h1c00, d, r)
SUB(d, r)  == TwoReg(\h1800, d, r)
SBC(d, r)  == TwoReg(\h0800, d, r)
CP(d, r)   == TwoReg(\h1400, d, r)
CPC(d, r)  == TwoReg(\h0400, d, r)
CPSE(d, r) == TwoReg(\h1000, d, r)
AND(d, r)  == TwoReg(\h2000, d, r)
EOR(d, r)  == TwoReg(\h2400, d, r)
OR(d, r)   == TwoReg(\h2800, d, r)
MOV(d, r)  == TwoReg(\h2c00, d, r)
MUL(d, r)  == TwoReg(\h9c00, d, r)
MULS(d, r)  == \h0200 + 16 * (d - 16) + (r - 16)
MULSU(d, r) == \h0300 + 16 * (d - 16) + (r - 16)
FMUL(d, r)  == \h0308 + 16 * (d - 16) + (r - 16)
FMULS(d, r) == \h0380 + 16 * (d - 16) + (r - 16)
FMULSU(d, r) == \h0388 + 16 * (d - 16) + (r - 16)
MOVW(d, r)  == \h0100 + 16 * (d \div 2) + r \div 2

Imm(op, d, k) == op + 256 * (k \div 16) + 16 * (d - 16) + (k % 16)
CPI(d, k)  == Imm(\h3000, d, k)
SBCI(d, k) == Imm(\h4000, d, k)
SUBI(d, k) == Imm(\h5000, d, k)
ORI(d, k)  == Imm(\h6000, d, k)
ANDI(d, k) == Imm(\h7000, d, k)
LDI(d, k)  == Imm(\he000, d, k)
WordImm(op, d, k) == op + 64 * (k \div 16) + 8 * (d - 24) + (k % 16)
ADIW(d, k) == WordImm(\h9600, d, k)
SBIW(d, k) == WordImm(\h9700, d, k)

COM(d)  == \h9400 + 16 * d
NEG(d)  == \h9401 + 16 * d
SWAP(d) == \h9402 + 16 * d
INC(d)  == \h9403 + 16 * d
ASR(d)  == \h9405 + 16 * d
LSR(d)  == \h9406 + 16 * d
ROR(d)  == \h9407 + 16 * d
DEC(d)  == \h940a + 16 * d
PUSH(d) == \h920f + 16 * d
POP(d)  == \h900f + 16 * d
BSET(s) == \h9408 + 16 * s
BCLR(s) == \h9488 + 16 * s
DES(k)  == \h940b + 16 * k

Off(k, n) == IF k < 0 THEN k + n ELSE k
BRBS(s, k) == \hf000 + 8 * Off(k, 128) + s
BRBC(s, k) == \hf400 + 8 * Off(k, 128) + s
RJMP(k)  == \hc000 + Off(k, 4096)
RCALL(k) == \hd000 + Off(k, 4096)
Upper(a) == 16 * (a \div 131072) + ((a \div 65536) % 2)
JMP(a)   == <<\h940c + Upper(a), a % 65536>>
CALL(a)  == <<\h940e + Upper(a), a % 65536>>
RET   == \h9508
RETI  == \h9518
IJMP  == \h9409
ICALL == \h9509
EIJMP  == \h9419
EICALL == \h9519
HALT == RJMP(-1)

BLD(d, b)  == \hf800 + 16 * d + b
BST(d, b)  == \hfa00 + 16 * d + b
SBRC(d, b) == \hfc00 + 16 * d + b
SBRS(d, b) == \hfe00 + 16 * d + b
CBI(a, b)  == \h9800 + 8 * a + b
SBIC(a, b) == \h9900 + 8 * a + b
SBI(a, b)  == \h9a00 + 8 * a + b
SBIS(a, b) == \h9b00 + 8 * a + b
INP(d, a)   == \hb000 + 512 * (a \div 16) + 16 * d + (a % 16)
OUTP(d, a)  == \hb800 + 512 * (a \div 16) + 16 * d + (a % 16)

LDS(d, a) == <<\h9000 + 16 * d, a>>
STS(d, a) == <<\h9200 + 16 * d, a>>
LDX(d)  == \h900c + 16 * d
LDXP(d) == \h900d + 16 * d
LDMX(d) == \h900e + 16 * d
STX(d)  == \h920c + 16 * d
STXP(d) == \h920d + 16 * d
STMX(d) == \h920e + 16 * d
LDYP(d) == \h9009 + 16 * d
STYP(d) == \h9209 + 16 * d
LDMY(d) == \h900a + 16 * d
STMY(d) == \h920a + 16 * d
LDZP(d) == \h9001 + 16 * d
STZP(d) == \h9201 + 16 * d
LDMZ(d) == \h9002 + 16 * d
STMZ(d) == \h9202 + 16 * d
Disp(q) == 8192 * (q \div 32) + 1024 * ((q \div 8) % 4) + (q % 8)
LDDY(d, q) == \h8008 + 16 * d + Disp(q)
LDDZ(d, q) == \h8000 + 16 * d + Disp(q)
STDY(d, q) == \h8208 + 16 * d + Disp(q)
STDZ(d, q) == \h8200 + 16 * d + Disp(q)
LPM == \h95c8
ELPM == \h95d8
LPMZ(d)   == \h9004 + 16 * d
LPMZP(d)  == \h9005 + 16 * d
ELPMZ(d)  == \h9006 + 16 * d
ELPMZP(d) == \h9007 + 16 * d
XCH(d) == \h9204 + 16 * d
LAS(d) == \h9205 + 16 * d
LAC(d) == \h9206 + 16 * d
LAT(d) == \h9207 + 16 * d

NOP == 0
SLEEP == \h9588
BREAK == \h9598
WDR   == \h95a8
SPM   == \h95e8
SPMZP == \h95f8

-----------------------------------------------------------------------------
(* An image is the segments one after the other.                           *)

Image(segs) == LET s == FlattenSeq(segs) IN [a \in 0..Len(s) - 1 |-> s[a + 1]]
Entry(segs, i) == Len(FlattenSeq(SubSeq(segs, 1, i - 1)))
\* Address of the last word of segment i: its HALT.
End(segs, i) == Len(FlattenSeq(SubSeq(segs, 1, i))) - 1
=============================================================================
