----------------------------- MODULE MCAvrData ------------------------------
(***************************************************************************)
(* Loads and stores on the three sizes of data memory, with the pointers   *)
(* started where an access, an increment or a displacement wraps.          *)
(***************************************************************************)
EXTENDS AvrSteps, MCAvrAsm

Segs ==
  << \* 1: copy r16 bytes from X to Y
     <<LDXP(20), STYP(20), DEC(16), BRBC(1, -4), HALT>>,
     \* 2: read at X forwards and backwards, writing in between
     <<LDXP(20), COM(20), STMX(20), LDX(21), HALT>>,
     \* 3: store by Y and load by Z with the same displacement
     <<MOVW(30, 28), STDY(16, 37), LDDZ(20, 37), HALT>>,
     \* 4: STS and LDS
     STS(16, 352) \o LDS(20, 352) \o <<HALT>>,
     \* 5: XCH, LAS, LAC and LAT on the byte at Z
     <<MOVW(30, 28), XCH(16), MOV(20, 17), LAS(20), MOV(21, 17), LAT(21),
       MOV(22, 17), LAC(22), LDDZ(23, 0), HALT>>,
     \* 6: the first two words of flash, a byte at a time
     <<LDI(30, 0), LDI(31, 0), ELPMZP(20), ELPMZP(21), ELPMZ(22), LPMZ(23), LPM,
       ELPM, HALT>>,
     \* 7: T moves bit 3 of r16 to bit 6 of r20; bits of I/O ports
     <<BST(16, 3), BLD(20, 6), OUTP(16, 9), SBI(9, 7), CBI(9, 0), INP(21, 9),
       BSET(2), BCLR(1), INP(22, 63), HALT>>,
     \* 8: DES: fifteen rounds that do nothing, then both ways
     [i \in 1..15 |-> DES(i - 1)] \o <<DES(15), MOV(20, 0), BSET(5), DES(15), HALT>>,
     \* 9: an undefined instruction
     <<LDXP(26), HALT>>,
     \* 10: r17 by way of the stack, whose pointer is r16, and back
     <<OUTP(16, 61), PUSH(17), SWAP(17), POP(20), XCH(20), HALT>> >>

MCFlash == Image(Segs)
Entries == [i \in DOMAIN Segs |-> Entry(Segs, i)]
SegEnds == [i \in DOMAIN Segs |-> End(Segs, i)]

\* Stands for the cipher: a different permutation for every key.
MCDes(key, block, decrypt) ==
  [i \in 0..7 |-> (block[i] + (IF decrypt THEN 0 - key[i] ELSE key[i])) % 256]

Sizes == {[pc22 |-> FALSE, pc_mem_max_64k |-> s # "16M", pc_mem_max_256b |-> s = "256"] :
            s \in {"256", "64K", "16M"}}

\* X and RAMPX at the edges of the 256-byte page, of 64 KiB and of memory.
Sources == {<<254, 0>>, <<253, 1>>, <<65534, 0>>, <<65535, 7>>, <<65533, 255>>,
            <<65535, 255>>}

\* What memory holds around the edges where X points.
Filled == {98 + i : i \in 0..2} \cup 253..258 \cup 65533..65538
            \cup {65536 * 7 + 65535 + i : i \in 0..2} \cup 16777213..16777215

MCStart ==
  {[pc |-> Entries[i], seg |-> i, k |-> k,
    mem |-> [a \in Filled \cup {8, 16, 17, 26, 27, 28, 29, RAMPX, RAMPY, RAMPD} |->
               CASE a = 26 -> Low(x[1]) [] a = 27 -> High(x[1]) [] a = RAMPX -> x[2]
                 [] a = 28 -> 224 [] a = 29 -> 0 [] a = RAMPY -> 0
                 [] a = RAMPD -> 3 [] a = 16 -> r [] a = 17 -> 202 [] a = 8 -> 77
                 [] OTHER -> (7 * a + 5) % 256]] :
     <<i, r>> \in {<<1, 3>>} \cup ((2..10) \X {3, 200}), k \in Sizes, x \in Sources}

-----------------------------------------------------------------------------
Seg == began.seg
Halted(i) == Seg = i /\ ~trapped /\ pc = SegEnds[i]
Now(a) == membyte(memory, a)
Was(a) == membyte(began.mem, a)

\* The address n after the one a pointer and its RAMP register hold.
Step(m, rp, ramp, n) == (Pointer(m, rp, ramp) + n) % DataSize
XStart(n) == Step(began.mem, REGP_X, RAMPX, n)
YStart(n) == Step(began.mem, REGP_Y, RAMPY, n)

\* A copy loop with X+ and Y+ copies the bytes it should, across the end of a
\* page, of 64 KiB and of memory, and leaves both pointers after the block; on
\* the smaller machines what is above the pointer stays as it was.
CopiesBlock ==
  Halted(1) =>
    /\ \A n \in 0..2 : XStart(n) > 31 => Now(YStart(n)) = Was(XStart(n))
    /\ Pointer(memory, REGP_X, RAMPX) = XStart(3)
    /\ Pointer(memory, REGP_Y, RAMPY) = YStart(3)
    /\ knobs.pc_mem_max_64k => Now(RAMPX) = Was(RAMPX)
    /\ knobs.pc_mem_max_256b => Now(27) = Was(27)

\* README.md:12 says one may "limit the addressable memory to 64 kiB or 256
\* bytes": what STS stores under an address LDS loads from it.
DirectAgrees == Halted(4) => Now(20) = Was(16)

\* STD by one pointer and LDD by another meet at the address their displacement
\* says; so do STS and LDS, on the machines with more than a page of memory.
AddressesAgree ==
  /\ Halted(3) => Now(20) = Was(16) /\ Now(YStart(37)) = Was(16)
  /\ knobs.pc_mem_max_256b \/ DirectAgrees

\* Flash is read low byte first, and Z+ goes through it byte by byte.
ReadsFlash ==
  Halted(6) =>
    /\ Now(20) + 256 * Now(21) = MCFlash[0]
    /\ Now(22) = Low(MCFlash[1]) /\ Now(23) = Now(22) /\ Now(0) = Now(22)

\* Bits go through T and through the I/O ports, and SREG is one of them: a
\* BSET shows in the next IN.
BitsTravel ==
  Halted(7) =>
    /\ IsSet(Now(20), 6) = IsSet(Was(16), 3)
    /\ Now(21) = SetBit(SetBit(Was(16), 7, TRUE), 0, FALSE)
    /\ IsSet(Now(22), 2) /\ ~IsSet(Now(22), 1)
    /\ IsSet(Now(22), 6) = IsSet(Was(16), 3)

\* Only the last DES round works, and H turns it round.
DesInverts == Halted(8) => Now(0) = Was(0) /\ Now(20) = Was(8)
=============================================================================
