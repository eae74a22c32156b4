--------------------------- MODULE AvrFlagsProofs ---------------------------
(***************************************************************************)
(* The flag helpers of instr.c against arithmetic on numbers, for every    *)
(* pair of operands and both values of the carry.                          *)
(***************************************************************************)
EXTENDS AvrFlags, TLAPS

\* 0..255, without its elements.
LEMMA ByteIs == \A x : x \in Byte <=> x \in Nat /\ x < 256
BY SMT DEF Byte

-----------------------------------------------------------------------------
(* Bits.                                                                   *)

\* The top bits that the helpers look at.
LEMMA TopBits ==
  /\ \A v \in Nat : v < 256 => (IsSet(v, 7) <=> v >= 128) /\ (IsSet(v, 3) <=> v % 16 >= 8)
  /\ \A w \in Nat : w < 65536 => (IsSet(w, 15) <=> w >= 32768)
<1>1. 2^7 = 128 /\ 2^3 = 8 /\ 2^15 = 32768
  BY SMT
<1>2. \A v : (IsSet(v, 7) <=> (v \div 128) % 2 = 1) /\ (IsSet(v, 3) <=> (v \div 8) % 2 = 1)
              /\ (IsSet(v, 15) <=> (v \div 32768) % 2 = 1)
  BY <1>1, SMT DEF IsSet, Bit
<1>3. \A v \in Nat : v < 256 => ((v \div 128) % 2 = 1 <=> v >= 128)
  BY SMT
<1>4. \A v \in Nat : v < 256 => ((v \div 8) % 2 = 1 <=> v % 16 >= 8)
  BY SMT
<1>5. \A w \in Nat : w < 65536 => ((w \div 32768) % 2 = 1 <=> w >= 32768)
  BY SMT
<1>6. QED
  BY <1>2, <1>3, <1>4, <1>5, SMT

\* A set of bits, as a byte and back.
LEMMA FromBitsIs ==
  ASSUME NEW S
  PROVE  /\ FromBits(S) \in Byte
         /\ \A n \in 0..7 : IsSet(FromBits(S), n) <=> n \in S
<1> DEFINE b(n) == IF n \in S THEN 1 ELSE 0
<1>1. 2^0 = 1 /\ 2^1 = 2 /\ 2^2 = 4 /\ 2^3 = 8 /\ 2^4 = 16 /\ 2^5 = 32 /\ 2^6 = 64 /\ 2^7 = 128
  BY SMT
<1>2. FromBits(S) = b(0) + 2 * b(1) + 4 * b(2) + 8 * b(3) + 16 * b(4) + 32 * b(5)
                      + 64 * b(6) + 128 * b(7)
  BY <1>1, SMT DEF FromBits, Weight
<1>3. \A n \in 0..7 : b(n) \in {0, 1} /\ (b(n) = 1 <=> n \in S)
  BY SMT
<1> HIDE DEF b
<1>4. FromBits(S) \in Nat /\ FromBits(S) < 256
  BY <1>2, <1>3, SMT
<1>5. ASSUME NEW v, v = FromBits(S)
      PROVE  /\ (v \div 1) % 2 = b(0) /\ (v \div 2) % 2 = b(1) /\ (v \div 4) % 2 = b(2)
             /\ (v \div 8) % 2 = b(3) /\ (v \div 16) % 2 = b(4) /\ (v \div 32) % 2 = b(5)
             /\ (v \div 64) % 2 = b(6) /\ (v \div 128) % 2 = b(7)
  BY <1>2, <1>3, <1>5, SMT
<1>6. ASSUME NEW n \in 0..7
      PROVE  Bit(FromBits(S), n) = b(n)
  <2> DEFINE v == FromBits(S)
  <2>1. /\ (v \div 1) % 2 = b(0) /\ (v \div 2) % 2 = b(1) /\ (v \div 4) % 2 = b(2)
        /\ (v \div 8) % 2 = b(3) /\ (v \div 16) % 2 = b(4) /\ (v \div 32) % 2 = b(5)
        /\ (v \div 64) % 2 = b(6) /\ (v \div 128) % 2 = b(7)
    BY <1>5
  <2>2. n = 0 \/ n = 1 \/ n = 2 \/ n = 3 \/ n = 4 \/ n = 5 \/ n = 6 \/ n = 7
    BY SMT
  <2> HIDE DEF v
  <2>3. /\ Bit(v, 0) = b(0) /\ Bit(v, 1) = b(1) /\ Bit(v, 2) = b(2) /\ Bit(v, 3) = b(3)
        /\ Bit(v, 4) = b(4) /\ Bit(v, 5) = b(5) /\ Bit(v, 6) = b(6) /\ Bit(v, 7) = b(7)
    BY <1>1, <2>1, SMT DEF Bit
  <2>4. Bit(v, n) = b(n)
    BY <2>2, <2>3, Zenon
  <2>5. QED
    BY <2>4 DEF v
<1>7. QED
  BY <1>3, <1>4, <1>6, ByteIs, Zenon DEF IsSet

\* The bits of a byte are the byte: emulate1() changes the flags it is told to, and no other.
LEMMA ApplyFlagsIs ==
  ASSUME NEW sreg \in Byte, NEW set, NEW clr
  PROVE  /\ ApplyFlags(sreg, set, clr) \in Byte
         /\ \A n \in 0..7 : IsSet(ApplyFlags(sreg, set, clr), n)
                              <=> n \in set \/ (IsSet(sreg, n) /\ n \notin clr)
<1> DEFINE S == (BitsOf(sreg) \ clr) \cup set
<1>1. ApplyFlags(sreg, set, clr) = FromBits(S)
  BY Zenon DEF ApplyFlags
<1>2. \A n \in 0..7 : n \in S <=> n \in set \/ (IsSet(sreg, n) /\ n \notin clr)
  BY Zenon DEF BitsOf
<1>3. FromBits(S) \in Byte /\ \A n \in 0..7 : IsSet(FromBits(S), n) <=> n \in S
  BY FromBitsIs, Zenon
<1> HIDE DEF S
<1>4. QED
  BY <1>1, <1>2, <1>3, Zenon

-----------------------------------------------------------------------------
(* Flags.                                                                  *)

\* The distinct bits of SREG.
LEMMA SregBitIs ==
  /\ DOMAIN SregBit = {"C", "Z", "N", "V", "S", "H", "T", "I"}
  /\ SregBit["C"] = 0 /\ SregBit["Z"] = 1 /\ SregBit["N"] = 2 /\ SregBit["V"] = 3
  /\ SregBit["S"] = 4 /\ SregBit["H"] = 5 /\ SregBit["T"] = 6 /\ SregBit["I"] = 7
BY Zenon DEF SregBit

\* No two names stand for one bit.
LEMMA SregBitInjective ==
  \A f, g \in DOMAIN SregBit : SregBit[f] = SregBit[g] => f = g
BY SregBitIs, SMT

\* The chain p sets flag f when P holds, clears it otherwise.
Decides(p, f, P) ==
  /\ SregBit[f] \in p.set <=> P
  /\ SregBit[f] \in p.clr <=> ~P

\* A chain decides the flags it names, and leaves the others of SREG alone.
LEMMA AffectIs ==
  ASSUME NEW flags, DOMAIN flags \subseteq DOMAIN SregBit
  PROVE  /\ \A f \in DOMAIN flags : Decides(Affect(flags), f, flags[f])
         /\ \A f \in DOMAIN SregBit \ DOMAIN flags :
              SregBit[f] \notin Affect(flags).set \cup Affect(flags).clr
<1>1. /\ Affect(flags).set = {SregBit[f] : f \in {g \in DOMAIN flags : flags[g]}}
      /\ Affect(flags).clr = {SregBit[f] : f \in {g \in DOMAIN flags : ~flags[g]}}
  BY Zenon DEF Affect
<1>2. ASSUME NEW f \in DOMAIN SregBit
      PROVE  /\ SregBit[f] \in Affect(flags).set <=> f \in DOMAIN flags /\ flags[f]
             /\ SregBit[f] \in Affect(flags).clr <=> f \in DOMAIN flags /\ ~flags[f]
  BY <1>1, SregBitInjective, Zenon
<1>3. QED
  BY <1>2, Zenon DEF Decides

\* Sign, as a comparison.
LEMMA SignedIs ==
  /\ \A v \in Nat : v < 256 => /\ Signed(v, 8) = (IF v >= 128 THEN v - 256 ELSE v)
                               /\ IsSet(v, 7) <=> Signed(v, 8) < 0
  /\ \A w \in Nat : w < 65536 => /\ Signed(w, 16) = (IF w >= 32768 THEN w - 65536 ELSE w)
                                 /\ IsSet(w, 15) <=> Signed(w, 16) < 0
<1>1. 2^(8 - 1) = 128 /\ 2^8 = 256 /\ 2^(16 - 1) = 32768 /\ 2^16 = 65536
  BY SMT
<1>2. \A v : Signed(v, 8) = (IF v >= 128 THEN v - 256 ELSE v)
  BY <1>1, SMT DEF Signed
<1>3. \A w : Signed(w, 16) = (IF w >= 32768 THEN w - 65536 ELSE w)
  BY <1>1, SMT DEF Signed
<1>4. QED
  BY <1>2, <1>3, TopBits, SMT

-----------------------------------------------------------------------------
(* Addition and subtraction of bytes.                                      *)

\* The byte a sum leaves.
Sum8(rd, rr, cin) == (rd + rr + cin) % 256

\* The carries of a sum.
LEMMA AddCarries ==
  ASSUME NEW rd \in Byte, NEW rr \in Byte, NEW cin \in {0, 1}
  PROVE  /\ CarryOut(Sum8(rd, rr, cin), rd, rr, 7) <=> rd + rr + cin > 255
         /\ CarryOut(Sum8(rd, rr, cin), rd, rr, 3) <=> (rd % 16) + (rr % 16) + cin > 15
<1> DEFINE res == Sum8(rd, rr, cin)
<1>1. rd \in Nat /\ rd < 256 /\ rr \in Nat /\ rr < 256 /\ res \in Nat /\ res < 256
  BY ByteIs, SMT DEF Sum8
<1>2. res % 16 = ((rd % 16) + (rr % 16) + cin) % 16
  BY <1>1, SMT DEF Sum8
<1>3. res = (rd + rr + cin) % 256
  BY SMT DEF Sum8
<1> HIDE DEF res
<1>4. /\ CarryOut(res, rd, rr, 7) <=> \/ rd >= 128 /\ rr >= 128
                                      \/ rr >= 128 /\ res < 128
                                      \/ res < 128 /\ rd >= 128
      /\ CarryOut(res, rd, rr, 3) <=> \/ rd % 16 >= 8 /\ rr % 16 >= 8
                                      \/ rr % 16 >= 8 /\ res % 16 < 8
                                      \/ res % 16 < 8 /\ rd % 16 >= 8
  BY <1>1, TopBits, SMT DEF CarryOut
<1>5. /\ CarryOut(res, rd, rr, 7) <=> rd + rr + cin > 255
      /\ CarryOut(res, rd, rr, 3) <=> (rd % 16) + (rr % 16) + cin > 15
  BY <1>1, <1>2, <1>3, <1>4, SMT
<1>6. QED
  BY <1>5 DEF res

\* V as the chain for a sum computes it.
AddV(res, rd, rr) ==
  \/ IsSet(rd, 7) /\ IsSet(rr, 7) /\ ~IsSet(res, 7)
  \/ ~IsSet(rd, 7) /\ ~IsSet(rr, 7) /\ IsSet(res, 7)

\* The signs of a sum.
LEMMA AddSigns ==
  ASSUME NEW rd \in Byte, NEW rr \in Byte, NEW cin \in {0, 1}
  PROVE  LET res  == Sum8(rd, rr, cin)
             true == Signed(rd, 8) + Signed(rr, 8) + cin
         IN  /\ IsSet(res, 7) <=> Signed(res, 8) < 0
             /\ AddV(res, rd, rr) <=> true < -128 \/ true > 127
             /\ (IsSet(res, 7) # AddV(res, rd, rr)) <=> true < 0
<1> DEFINE res  == Sum8(rd, rr, cin)
           true == Signed(rd, 8) + Signed(rr, 8) + cin
<1>1. rd \in Nat /\ rd < 256 /\ rr \in Nat /\ rr < 256 /\ res \in Nat /\ res < 256
  BY ByteIs, SMT DEF Sum8
<1>2. res = IF rd + rr + cin > 255 THEN (rd + rr + cin) - 256 ELSE (rd + rr + cin)
  BY <1>1, SMT DEF Sum8
<1> HIDE DEF res
<1>3. /\ IsSet(rd, 7) <=> rd >= 128
      /\ IsSet(rr, 7) <=> rr >= 128
      /\ IsSet(res, 7) <=> res >= 128
  BY <1>1, TopBits, SMT
<1>4. /\ Signed(rd, 8) = (IF rd >= 128 THEN rd - 256 ELSE rd)
      /\ Signed(rr, 8) = (IF rr >= 128 THEN rr - 256 ELSE rr)
      /\ Signed(res, 8) = (IF res >= 128 THEN res - 256 ELSE res)
  BY <1>1, SignedIs, SMT
<1>5. /\ IsSet(res, 7) <=> Signed(res, 8) < 0
      /\ AddV(res, rd, rr) <=> true < -128 \/ true > 127
      /\ true < 0 <=> (IsSet(res, 7) /\ ~AddV(res, rd, rr)) \/ (~IsSet(res, 7) /\ AddV(res, rd, rr))
  BY <1>1, <1>2, <1>3, <1>4, SMT DEF AddV
<1>6. IsSet(res, 7) \in BOOLEAN /\ AddV(res, rd, rr) \in BOOLEAN
  BY Zenon DEF IsSet, AddV
<1> HIDE DEF true
<1>7. (IsSet(res, 7) # AddV(res, rd, rr)) <=> true < 0
  BY <1>5, <1>6, Zenon
<1>8. QED
  BY <1>5, <1>7, Zenon DEF res, true

\* adc_flags8() says of rd + rr (+ carry) what arithmetic says: C and H, that the sum and the
\* sum of the low nibbles do not fit; V, that the signed sum does not; S, that the signed sum
\* is negative whether it fits or not; N and Z, what the byte in the register is.
SaysSum(p, rd, rr, cin) ==
  LET res  == (rd + rr + cin) % 256
      true == Signed(rd, 8) + Signed(rr, 8) + cin
  IN  /\ Decides(p, "C", rd + rr + cin > 255)
      /\ Decides(p, "H", (rd % 16) + (rr % 16) + cin > 15)
      /\ Decides(p, "V", true < -128 \/ true > 127)
      /\ Decides(p, "S", true < 0)
      /\ Decides(p, "N", Signed(res, 8) < 0)
      /\ Decides(p, "Z", res = 0)
      /\ \A f \in {"T", "I"} : SregBit[f] \notin p.set \cup p.clr

\* adc_flags8() says so, of every pair of operands and both values of the carry.
THEOREM AddFlags ==
  ASSUME NEW rd \in Byte, NEW rr \in Byte, NEW cin \in {0, 1}
  PROVE  SaysSum(adc_flags8((rd + rr + cin) % 256, rd, rr), rd, rr, cin)
<1> DEFINE res == Sum8(rd, rr, cin)
           n == IsSet(res, 7)
           v == AddV(res, rd, rr)
           c == CarryOut(res, rd, rr, 7)
           h == CarryOut(res, rd, rr, 3)
           r == [N |-> n, V |-> v, S |-> n # v, Z |-> res = 0, C |-> c, H |-> h]
           p == Affect(r)
           true == Signed(rd, 8) + Signed(rr, 8) + cin
<1>1. /\ n <=> Signed(res, 8) < 0
      /\ v <=> true < -128 \/ true > 127
      /\ (n # v) <=> true < 0
  BY AddSigns, Zenon
<1>2. (c <=> rd + rr + cin > 255) /\ (h <=> (rd % 16) + (rr % 16) + cin > 15)
  BY AddCarries
<1>3. adc_flags8(res, rd, rr) = p
  BY Zenon DEF adc_flags8, AddV
<1>4. res = (rd + rr + cin) % 256
  BY SMT DEF Sum8
<1> HIDE DEF n, v, c, h, res
<1>5. /\ DOMAIN r = {"N", "V", "S", "Z", "C", "H"}
      /\ r["N"] = n /\ r["V"] = v /\ r["S"] = (n # v) /\ r["Z"] = (res = 0)
      /\ r["C"] = c /\ r["H"] = h
  BY Zenon
<1> HIDE DEF r, true
<1>6. \A f \in DOMAIN r : Decides(p, f, r[f])
  BY <1>5, AffectIs, SregBitIs, Zenon
<1> HIDE DEF p
<1>7. /\ Decides(p, "N", n) /\ Decides(p, "V", v) /\ Decides(p, "S", n # v)
      /\ Decides(p, "Z", res = 0) /\ Decides(p, "C", c) /\ Decides(p, "H", h)
  BY <1>5, <1>6, Zenon
<1>8. Decides(p, "N", Signed(res, 8) < 0)
  BY <1>1, <1>7, Zenon DEF Decides
<1>9. Decides(p, "V", true < -128 \/ true > 127)
  BY <1>1, <1>7, Zenon DEF Decides
<1>10. Decides(p, "S", true < 0)
  BY <1>1, <1>7, Zenon DEF Decides
<1>11. Decides(p, "C", rd + rr + cin > 255) /\ Decides(p, "H", (rd % 16) + (rr % 16) + cin > 15)
  BY <1>2, <1>7, Zenon DEF Decides
<1>12. \A f \in {"T", "I"} : SregBit[f] \notin p.set \cup p.clr
  <2>1. {"T", "I"} \subseteq DOMAIN SregBit \ DOMAIN r /\ DOMAIN r \subseteq DOMAIN SregBit
    BY <1>5, SregBitIs
  <2>2. QED
    BY <2>1, AffectIs, Zenon DEF p
<1>13. SaysSum(p, rd, rr, cin)
  BY <1>4, <1>7, <1>8, <1>9, <1>10, <1>11, <1>12, Zenon DEF true, SaysSum
<1>14. QED
  BY <1>3, <1>4, <1>13, Zenon

\* The byte a difference leaves.
Diff8(rd, rr, cin) == (rd - rr - cin) % 256

\* The carries of a difference.
LEMMA SubCarries ==
  ASSUME NEW rd \in Byte, NEW rr \in Byte, NEW cin \in {0, 1}
  PROVE  /\ BorrowOut(Diff8(rd, rr, cin), rd, rr, 7) <=> rd < rr + cin
         /\ BorrowOut(Diff8(rd, rr, cin), rd, rr, 3) <=> rd % 16 < (rr % 16) + cin
<1> DEFINE res == Diff8(rd, rr, cin)
<1>1. rd \in Nat /\ rd < 256 /\ rr \in Nat /\ rr < 256 /\ res \in Nat /\ res < 256
  BY ByteIs, SMT DEF Diff8
<1>2. res % 16 = ((rd % 16) - (rr % 16) - cin) % 16
  BY <1>1, SMT DEF Diff8
<1>3. res = (rd - rr - cin) % 256
  BY SMT DEF Diff8
<1> HIDE DEF res
<1>4. /\ BorrowOut(res, rd, rr, 7) <=> \/ rd < 128 /\ rr >= 128
                                       \/ rr >= 128 /\ res >= 128
                                       \/ res >= 128 /\ rd < 128
      /\ BorrowOut(res, rd, rr, 3) <=> \/ rd % 16 < 8 /\ rr % 16 >= 8
                                       \/ rr % 16 >= 8 /\ res % 16 >= 8
                                       \/ res % 16 >= 8 /\ rd % 16 < 8
  BY <1>1, TopBits, SMT DEF BorrowOut
<1>5. /\ BorrowOut(res, rd, rr, 7) <=> rd < rr + cin
      /\ BorrowOut(res, rd, rr, 3) <=> rd % 16 < (rr % 16) + cin
  BY <1>1, <1>2, <1>3, <1>4, SMT
<1>6. QED
  BY <1>5 DEF res

\* V as the chain for a difference computes it.
SubV(res, rd, rr) ==
  \/ IsSet(rd, 7) /\ ~IsSet(rr, 7) /\ ~IsSet(res, 7)
  \/ ~IsSet(rd, 7) /\ IsSet(rr, 7) /\ IsSet(res, 7)

\* The signs of a difference.
LEMMA SubSigns ==
  ASSUME NEW rd \in Byte, NEW rr \in Byte, NEW cin \in {0, 1}
  PROVE  LET res  == Diff8(rd, rr, cin)
             true == Signed(rd, 8) - Signed(rr, 8) - cin
         IN  /\ IsSet(res, 7) <=> Signed(res, 8) < 0
             /\ SubV(res, rd, rr) <=> true < -128 \/ true > 127
             /\ (IsSet(res, 7) # SubV(res, rd, rr)) <=> true < 0
<1> DEFINE res  == Diff8(rd, rr, cin)
           true == Signed(rd, 8) - Signed(rr, 8) - cin
<1>1. rd \in Nat /\ rd < 256 /\ rr \in Nat /\ rr < 256 /\ res \in Nat /\ res < 256
  BY ByteIs, SMT DEF Diff8
<1>2. res = IF rd < rr + cin THEN (rd - rr - cin) + 256 ELSE (rd - rr - cin)
  BY <1>1, SMT DEF Diff8
<1> HIDE DEF res
<1>3. /\ IsSet(rd, 7) <=> rd >= 128
      /\ IsSet(rr, 7) <=> rr >= 128
      /\ IsSet(res, 7) <=> res >= 128
  BY <1>1, TopBits, SMT
<1>4. /\ Signed(rd, 8) = (IF rd >= 128 THEN rd - 256 ELSE rd)
      /\ Signed(rr, 8) = (IF rr >= 128 THEN rr - 256 ELSE rr)
      /\ Signed(res, 8) = (IF res >= 128 THEN res - 256 ELSE res)
  BY <1>1, SignedIs, SMT
<1>5. /\ IsSet(res, 7) <=> Signed(res, 8) < 0
      /\ SubV(res, rd, rr) <=> true < -128 \/ true > 127
      /\ true < 0 <=> (IsSet(res, 7) /\ ~SubV(res, rd, rr)) \/ (~IsSet(res, 7) /\ SubV(res, rd, rr))
  BY <1>1, <1>2, <1>3, <1>4, SMT DEF SubV
<1>6. IsSet(res, 7) \in BOOLEAN /\ SubV(res, rd, rr) \in BOOLEAN
  BY Zenon DEF IsSet, SubV
<1> HIDE DEF true
<1>7. (IsSet(res, 7) # SubV(res, rd, rr)) <=> true < 0
  BY <1>5, <1>6, Zenon
<1>8. QED
  BY <1>5, <1>7, Zenon DEF res, true

\* sub_flags8() says of rd - rr (- carry) what arithmetic says: C and S, that rd is the lower of
\* the two, as numbers without and with a sign, which is what BRLO and BRLT ask after a CP; V,
\* that the signed difference does not fit; H, the borrow of the low nibble.
SaysDifference(p, rd, rr, cin) ==
  LET res  == (rd - rr - cin) % 256
      true == Signed(rd, 8) - Signed(rr, 8) - cin
  IN  /\ Decides(p, "C", rd < rr + cin)
      /\ Decides(p, "H", rd % 16 < (rr % 16) + cin)
      /\ Decides(p, "V", true < -128 \/ true > 127)
      /\ Decides(p, "S", true < 0)
      /\ Decides(p, "N", Signed(res, 8) < 0)
      /\ Decides(p, "Z", res = 0)
      /\ \A f \in {"T", "I"} : SregBit[f] \notin p.set \cup p.clr

\* sub_flags8() says so, of every pair of operands and both values of the carry.
THEOREM SubFlags ==
  ASSUME NEW rd \in Byte, NEW rr \in Byte, NEW cin \in {0, 1}
  PROVE  SaysDifference(sub_flags8((rd - rr - cin) % 256, rd, rr), rd, rr, cin)
<1> DEFINE res == Diff8(rd, rr, cin)
           n == IsSet(res, 7)
           v == SubV(res, rd, rr)
           c == BorrowOut(res, rd, rr, 7)
           h == BorrowOut(res, rd, rr, 3)
           r == [N |-> n, V |-> v, S |-> n # v, Z |-> res = 0, C |-> c, H |-> h]
           p == Affect(r)
           true == Signed(rd, 8) - Signed(rr, 8) - cin
<1>1. /\ n <=> Signed(res, 8) < 0
      /\ v <=> true < -128 \/ true > 127
      /\ (n # v) <=> true < 0
  BY SubSigns, Zenon
<1>2. (c <=> rd < rr + cin) /\ (h <=> rd % 16 < (rr % 16) + cin)
  BY SubCarries
<1>3. sub_flags8(res, rd, rr) = p
  BY Zenon DEF sub_flags8, SubV
<1>4. res = (rd - rr - cin) % 256
  BY SMT DEF Diff8
<1> HIDE DEF n, v, c, h, res
<1>5. /\ DOMAIN r = {"N", "V", "S", "Z", "C", "H"}
      /\ r["N"] = n /\ r["V"] = v /\ r["S"] = (n # v) /\ r["Z"] = (res = 0)
      /\ r["C"] = c /\ r["H"] = h
  BY Zenon
<1> HIDE DEF r, true
<1>6. \A f \in DOMAIN r : Decides(p, f, r[f])
  BY <1>5, AffectIs, SregBitIs, Zenon
<1> HIDE DEF p
<1>7. /\ Decides(p, "N", n) /\ Decides(p, "V", v) /\ Decides(p, "S", n # v)
      /\ Decides(p, "Z", res = 0) /\ Decides(p, "C", c) /\ Decides(p, "H", h)
  BY <1>5, <1>6, Zenon
<1>8. Decides(p, "N", Signed(res, 8) < 0)
  BY <1>1, <1>7, Zenon DEF Decides
<1>9. Decides(p, "V", true < -128 \/ true > 127)
  BY <1>1, <1>7, Zenon DEF Decides
<1>10. Decides(p, "S", true < 0)
  BY <1>1, <1>7, Zenon DEF Decides
<1>11. Decides(p, "C", rd < rr + cin) /\ Decides(p, "H", rd % 16 < (rr % 16) + cin)
  BY <1>2, <1>7, Zenon DEF Decides
<1>12. \A f \in {"T", "I"} : SregBit[f] \notin p.set \cup p.clr
  <2>1. {"T", "I"} \subseteq DOMAIN SregBit \ DOMAIN r /\ DOMAIN r \subseteq DOMAIN SregBit
    BY <1>5, SregBitIs
  <2>2. QED
    BY <2>1, AffectIs, Zenon DEF p
<1>13. SaysDifference(p, rd, rr, cin)
  BY <1>4, <1>7, <1>8, <1>9, <1>10, <1>11, <1>12, Zenon DEF true, SaysDifference
<1>14. QED
  BY <1>3, <1>4, <1>13, Zenon

-----------------------------------------------------------------------------
(* Words, a byte at a time.                                                *)

\* The carry that the next byte of a chain takes in.
CarryOf(p) == IF SregBit["C"] \in p.set THEN 1 ELSE 0

\* Words: two bytes, the residue of a number, and the numbers that are words without and with
\* a sign.
Word(low, high)  == low + 256 * high
Residue(n)       == n % 65536
IsWord(n)        == 0 <= n /\ n <= 65535
IsSignedWord(n)  == -32768 <= n /\ n <= 32767

\* What arithmetic says of the high bytes of a sum is true of the words.
LEMMA WordSums ==
  ASSUME NEW al \in Byte, NEW ah \in Byte, NEW bl \in Byte, NEW bh \in Byte,
         NEW c \in {0, 1}, c = 1 <=> al + bl > 255
  PROVE  /\ Word((al + bl) % 256, (ah + bh + c) % 256) = Residue(Word(al, ah) + Word(bl, bh))
         /\ ah + bh + c > 255 <=> ~IsWord(Word(al, ah) + Word(bl, bh))
         /\ Signed(ah, 8) + Signed(bh, 8) + c < -128 \/ Signed(ah, 8) + Signed(bh, 8) + c > 127
           <=> ~IsSignedWord(Signed(Word(al, ah), 16) + Signed(Word(bl, bh), 16))
         /\ Signed(ah, 8) + Signed(bh, 8) + c < 0 <=> Signed(Word(al, ah), 16) + Signed(Word(bl, bh), 16) < 0
<1> DEFINE a == Word(al, ah)
           b == Word(bl, bh)
<1>1. /\ al \in Nat /\ al < 256 /\ ah \in Nat /\ ah < 256
      /\ bl \in Nat /\ bl < 256 /\ bh \in Nat /\ bh < 256
  BY ByteIs
<1>2. a = al + 256 * ah /\ b = bl + 256 * bh
  BY SMT DEF Word
<1> HIDE DEF a, b
<1>3. /\ a \in Nat /\ a < 65536 /\ b \in Nat /\ b < 65536
      /\ a >= 32768 <=> ah >= 128
      /\ b >= 32768 <=> bh >= 128
  BY <1>1, <1>2, SMT
<1>4. /\ Signed(ah, 8) = (IF ah >= 128 THEN ah - 256 ELSE ah)
      /\ Signed(bh, 8) = (IF bh >= 128 THEN bh - 256 ELSE bh)
      /\ Signed(a, 16) = (IF a >= 32768 THEN a - 65536 ELSE a)
      /\ Signed(b, 16) = (IF b >= 32768 THEN b - 65536 ELSE b)
  BY <1>1, <1>3, SignedIs, SMT
<1>5. Word((al + bl) % 256, (ah + bh + c) % 256) = Residue(a + b)
  BY <1>1, <1>2, <1>3, <1>4, SMT DEF Word, Residue, IsWord, IsSignedWord
<1>6. ah + bh + c > 255 <=> ~IsWord(a + b)
  BY <1>1, <1>2, <1>3, <1>4, SMT DEF Word, Residue, IsWord, IsSignedWord
<1>7. Signed(ah, 8) + Signed(bh, 8) + c < -128 \/ Signed(ah, 8) + Signed(bh, 8) + c > 127
           <=> ~IsSignedWord(Signed(a, 16) + Signed(b, 16))
  BY <1>1, <1>2, <1>3, <1>4, SMT DEF Word, Residue, IsWord, IsSignedWord
<1>8. Signed(ah, 8) + Signed(bh, 8) + c < 0 <=> Signed(a, 16) + Signed(b, 16) < 0
  BY <1>1, <1>2, <1>3, <1>4, SMT DEF Word, Residue, IsWord, IsSignedWord
<1>9. QED
  BY <1>5, <1>6, <1>7, <1>8, Zenon DEF a, b

\* And of a difference.
LEMMA WordDifferences ==
  ASSUME NEW al \in Byte, NEW ah \in Byte, NEW bl \in Byte, NEW bh \in Byte,
         NEW c \in {0, 1}, c = 1 <=> al < bl
  PROVE  /\ Word((al - bl) % 256, (ah - bh - c) % 256) = Residue(Word(al, ah) - Word(bl, bh))
         /\ ah < bh + c <=> Word(al, ah) < Word(bl, bh)
         /\ Signed(ah, 8) - Signed(bh, 8) - c < 0 <=> Signed(Word(al, ah), 16) < Signed(Word(bl, bh), 16)
<1> DEFINE a == Word(al, ah)
           b == Word(bl, bh)
<1>1. /\ al \in Nat /\ al < 256 /\ ah \in Nat /\ ah < 256
      /\ bl \in Nat /\ bl < 256 /\ bh \in Nat /\ bh < 256
  BY ByteIs
<1>2. a = al + 256 * ah /\ b = bl + 256 * bh
  BY SMT DEF Word
<1> HIDE DEF a, b
<1>3. /\ a \in Nat /\ a < 65536 /\ b \in Nat /\ b < 65536
      /\ a >= 32768 <=> ah >= 128
      /\ b >= 32768 <=> bh >= 128
  BY <1>1, <1>2, SMT
<1>4. /\ Signed(ah, 8) = (IF ah >= 128 THEN ah - 256 ELSE ah)
      /\ Signed(bh, 8) = (IF bh >= 128 THEN bh - 256 ELSE bh)
      /\ Signed(a, 16) = (IF a >= 32768 THEN a - 65536 ELSE a)
      /\ Signed(b, 16) = (IF b >= 32768 THEN b - 65536 ELSE b)
  BY <1>1, <1>3, SignedIs, SMT
<1>5. Word((al - bl) % 256, (ah - bh - c) % 256) = Residue(a - b)
  BY <1>1, <1>2, <1>3, <1>4, SMT DEF Word, Residue, IsWord, IsSignedWord
<1>6. ah < bh + c <=> a < b
  BY <1>1, <1>2, <1>3, <1>4, SMT DEF Word, Residue, IsWord, IsSignedWord
<1>7. Signed(ah, 8) - Signed(bh, 8) - c < 0 <=> Signed(a, 16) < Signed(b, 16)
  BY <1>1, <1>2, <1>3, <1>4, SMT DEF Word, Residue, IsWord, IsSignedWord
<1>8. QED
  BY <1>5, <1>6, <1>7, Zenon DEF a, b

\* ADD on the low bytes and ADC on the high ones add the words: the register pair holds the sum,
\* and C, V and S say of the words what they say of bytes.
THEOREM WordSum ==
  ASSUME NEW al \in Byte, NEW ah \in Byte, NEW bl \in Byte, NEW bh \in Byte
  PROVE  LET a   == Word(al, ah)
             b   == Word(bl, bh)
             lo  == (al + bl + 0) % 256
             cin == CarryOf(adc_flags8(lo, al, bl))
             hi  == (ah + bh + cin) % 256
             p   == adc_flags8(hi, ah, bh)
         IN  /\ Word(lo, hi) = Residue(a + b)
             /\ Decides(p, "C", ~IsWord(a + b))
             /\ Decides(p, "V", ~IsSignedWord(Signed(a, 16) + Signed(b, 16)))
             /\ Decides(p, "S", Signed(a, 16) + Signed(b, 16) < 0)
<1> DEFINE a   == Word(al, ah)
           b   == Word(bl, bh)
           lo  == (al + bl + 0) % 256
           pl  == adc_flags8(lo, al, bl)
           cin == CarryOf(pl)
           hi  == (ah + bh + cin) % 256
           p   == adc_flags8(hi, ah, bh)
<1>1. al \in Nat /\ bl \in Nat
  BY ByteIs
<1>2. SaysSum(pl, al, bl, 0)
  BY AddFlags, 0 \in {0, 1}
<1> HIDE DEF pl
<1>3. Decides(pl, "C", al + bl + 0 > 255)
  BY <1>2, Zenon DEF SaysSum
<1>4. cin \in {0, 1} /\ (cin = 1 <=> al + bl > 255)
  <2>1. al + bl + 0 > 255 <=> al + bl > 255
    BY <1>1
  <2>2. cin = IF al + bl > 255 THEN 1 ELSE 0
    BY <1>3, <2>1, Zenon DEF CarryOf, Decides
  <2> HIDE DEF cin
  <2>3. QED
    BY <2>2
<1> HIDE DEF cin
<1>5. SaysSum(p, ah, bh, cin)
  BY <1>4, AddFlags
<1>6. lo = (al + bl) % 256
  BY <1>1
<1> HIDE DEF p, lo
<1>7. /\ Decides(p, "C", ah + bh + cin > 255)
      /\ Decides(p, "V", Signed(ah, 8) + Signed(bh, 8) + cin < -128 \/ Signed(ah, 8) + Signed(bh, 8) + cin > 127)
      /\ Decides(p, "S", Signed(ah, 8) + Signed(bh, 8) + cin < 0)
  BY <1>5, Zenon DEF SaysSum
<1>8. /\ Word((al + bl) % 256, hi) = Residue(a + b)
      /\ ah + bh + cin > 255 <=> ~IsWord(a + b)
      /\ Signed(ah, 8) + Signed(bh, 8) + cin < -128 \/ Signed(ah, 8) + Signed(bh, 8) + cin > 127
           <=> ~IsSignedWord(Signed(a, 16) + Signed(b, 16))
      /\ Signed(ah, 8) + Signed(bh, 8) + cin < 0 <=> Signed(a, 16) + Signed(b, 16) < 0
  <2>1. Word((al + bl) % 256, hi) = Residue(a + b)
    BY <1>4, WordSums
  <2>2. ah + bh + cin > 255 <=> ~IsWord(a + b)
    BY <1>4, WordSums
  <2>3. Signed(ah, 8) + Signed(bh, 8) + cin < -128 \/ Signed(ah, 8) + Signed(bh, 8) + cin > 127
          <=> ~IsSignedWord(Signed(a, 16) + Signed(b, 16))
    BY <1>4, WordSums
  <2>4. Signed(ah, 8) + Signed(bh, 8) + cin < 0 <=> Signed(a, 16) + Signed(b, 16) < 0
    BY <1>4, WordSums
  <2>5. QED
    BY <2>1, <2>2, <2>3, <2>4
<1>9. Word(lo, hi) = Residue(a + b)
  BY <1>6, <1>8, Zenon
<1>10. /\ Decides(p, "C", ~IsWord(a + b))
       /\ Decides(p, "V", ~IsSignedWord(Signed(a, 16) + Signed(b, 16)))
       /\ Decides(p, "S", Signed(a, 16) + Signed(b, 16) < 0)
  BY <1>7, <1>8, Zenon DEF Decides
<1>11. QED
  BY <1>9, <1>10, Zenon DEF lo, pl, cin, p

\* CP on the low bytes and CPC on the high ones compare the words: afterwards C is set when a is
\* below b without a sign, S when it is with one.  SUB and SBC leave the difference as well.
THEOREM WordDifference ==
  ASSUME NEW al \in Byte, NEW ah \in Byte, NEW bl \in Byte, NEW bh \in Byte
  PROVE  LET a   == Word(al, ah)
             b   == Word(bl, bh)
             lo  == (al - bl - 0) % 256
             cin == CarryOf(sub_flags8(lo, al, bl))
             hi  == (ah - bh - cin) % 256
             p   == sub_flags8(hi, ah, bh)
         IN  /\ Word(lo, hi) = Residue(a - b)
             /\ Decides(p, "C", a < b)
             /\ Decides(p, "S", Signed(a, 16) < Signed(b, 16))
<1> DEFINE a   == Word(al, ah)
           b   == Word(bl, bh)
           lo  == (al - bl - 0) % 256
           pl  == sub_flags8(lo, al, bl)
           cin == CarryOf(pl)
           hi  == (ah - bh - cin) % 256
           p   == sub_flags8(hi, ah, bh)
<1>1. al \in Nat /\ bl \in Nat
  BY ByteIs
<1>2. SaysDifference(pl, al, bl, 0)
  BY SubFlags, 0 \in {0, 1}
<1> HIDE DEF pl
<1>3. Decides(pl, "C", al < bl + 0)
  BY <1>2, Zenon DEF SaysDifference
<1>4. cin \in {0, 1} /\ (cin = 1 <=> al < bl)
  <2>1. al < bl + 0 <=> al < bl
    BY <1>1
  <2>2. cin = IF al < bl THEN 1 ELSE 0
    BY <1>3, <2>1, Zenon DEF CarryOf, Decides
  <2> HIDE DEF cin
  <2>3. QED
    BY <2>2
<1> HIDE DEF cin
<1>5. SaysDifference(p, ah, bh, cin)
  BY <1>4, SubFlags
<1>6. lo = (al - bl) % 256
  BY <1>1
<1> HIDE DEF p, lo
<1>7. /\ Decides(p, "C", ah < bh + cin)
      /\ Decides(p, "S", Signed(ah, 8) - Signed(bh, 8) - cin < 0)
  BY <1>5, Zenon DEF SaysDifference
<1>8. /\ Word((al - bl) % 256, hi) = Residue(a - b)
      /\ ah < bh + cin <=> a < b
      /\ Signed(ah, 8) - Signed(bh, 8) - cin < 0 <=> Signed(a, 16) < Signed(b, 16)
  <2>1. Word((al - bl) % 256, hi) = Residue(a - b)
    BY <1>4, WordDifferences
  <2>2. ah < bh + cin <=> a < b
    BY <1>4, ByteIs, SMT DEF Word
  <2>3. Signed(ah, 8) - Signed(bh, 8) - cin < 0 <=> Signed(a, 16) < Signed(b, 16)
    BY <1>4, WordDifferences
  <2>4. QED
    BY <2>1, <2>2, <2>3
<1>9. Word(lo, hi) = Residue(a - b)
  BY <1>6, <1>8, Zenon
<1>10. /\ Decides(p, "C", a < b)
       /\ Decides(p, "S", Signed(a, 16) < Signed(b, 16))
  BY <1>7, <1>8, Zenon DEF Decides
<1>11. QED
  BY <1>9, <1>10, Zenon DEF lo, pl, cin, p
=============================================================================
