------------------------------ MODULE AvrWord -------------------------------
(***************************************************************************)
(* Bits, bytes and data memory: the inline helpers of emu.h.  A byte is a  *)
(* number in 0..255; bitwise operators work on the set of its one bits.    *)
(*                                                                         *)
(* The 16 MiB array memory[] is a function on the addresses a program has  *)
(* used so far; every other byte is still zero.                            *)
(***************************************************************************)
EXTENDS Integers

Byte == 0..255

Bit(v, n) == (v \div 2^n) % 2
IsSet(v, n) == Bit(v, n) = 1

\* bits(v, max, min) >> min
Field(v, max, min) == (v \div 2^min) % 2^(max - min + 1)

BitsOf(v) == {n \in 0..7 : IsSet(v, n)}
Weight(S, n) == IF n \in S THEN 2^n ELSE 0
FromBits(S) ==
  Weight(S, 0) + Weight(S, 1) + Weight(S, 2) + Weight(S, 3)
    + Weight(S, 4) + Weight(S, 5) + Weight(S, 6) + Weight(S, 7)

And(a, b) == FromBits(BitsOf(a) \cap BitsOf(b))
Or(a, b)  == FromBits(BitsOf(a) \cup BitsOf(b))
Xor(a, b) == FromBits((BitsOf(a) \cup BitsOf(b)) \ (BitsOf(a) \cap BitsOf(b)))
Not(a) == 255 - a

\* (int8_t)v for w = 8, (int16_t)v for w = 16
Signed(v, w) == IF v >= 2^(w - 1) THEN v - 2^w ELSE v

Low(w)  == w % 256
High(w) == (w \div 256) % 256

-----------------------------------------------------------------------------
(* Addresses of emu.h.                                                     *)

REGP_X == 26
REGP_Y == 28
REGP_Z == 30
IO_BASE == 32
RAMPD == 88
RAMPX == 89
RAMPY == 90
RAMPZ == 91
EIND  == 92
SP_LO == 93
SP_HI == 94
SREG  == 95

\* Bits of SREG.
SregBit == [C |-> 0, Z |-> 1, N |-> 2, V |-> 3, S |-> 4, H |-> 5, T |-> 6, I |-> 7]

\* sizeof memory
MemorySize == 16777216

membyte(m, a) == IF a \in DOMAIN m THEN m[a] ELSE 0

Store(m, a, v) == [x \in DOMAIN m \cup {a} |-> IF x = a THEN v ELSE m[x]]

memword(m, a) == membyte(m, a) + 256 * membyte(m, a + 1)

memwriteword(m, a, w) == Store(Store(m, a, Low(w)), a + 1, High(w))

getsp(m) == 256 * membyte(m, SP_HI) + membyte(m, SP_LO)

setsp(m, sp) == Store(Store(m, SP_LO, Low(sp)), SP_HI, High(sp))
=============================================================================
