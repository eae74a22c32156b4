----------------------------- MODULE AvrDecode ------------------------------
(***************************************************************************)
(* The decode table of main.c and the operand fields emulate1() takes out  *)
(* of an instruction word.  The first matching row wins.                   *)
(***************************************************************************)
EXTENDS AvrWord, Sequences

\* One row: (instr & mask) == pattern selects handler code.
E(pattern, mask, code, fields) ==
  [pattern |-> pattern, mask |-> mask, code |-> code, fields |-> fields]

avr_instr ==
  <<
     E(\h0000, \hffff, "nop", {}),
     E(\h0100, \hff00, "movw", {"dddd74", "rrrr30"}),
     E(\h0200, \hff00, "muls", {"dddd74", "rrrr30"}),
     E(\h0300, \hff88, "mulsu", {"ddd64", "rrr20"}),
     E(\h0308, \hff88, "fmul", {"ddd64", "rrr20"}),
     E(\h0380, \hff80, "fmulsu", {"ddd64", "rrr20"}),
     E(\h0400, \hec00, "cpc", {"ddddd84", "rrrrr9_30"}),
     E(\h0800, \hec00, "cpc", {"ddddd84", "rrrrr9_30"}),
     E(\h0c00, \hec00, "adc", {"ddddd84", "rrrrr9_30"}),
     E(\h1000, \hfc00, "cpse", {"ddddd84", "rrrrr9_30"}),
     E(\h2000, \hfc00, "and", {"ddddd84", "rrrrr9_30"}),
     E(\h2400, \hfc00, "xor", {"ddddd84", "rrrrr9_30"}),
     E(\h2800, \hfc00, "or", {"ddddd84", "rrrrr9_30"}),
     E(\h2c00, \hfc00, "mov", {"ddddd84", "rrrrr9_30"}),
     E(\h3000, \hf000, "cpi", {"dddd74", "KKKK118_30"}),
     E(\h4000, \he000, "cpi", {"dddd74", "KKKK118_30"}),
     E(\h6000, \hf000, "ori", {"dddd74", "KKKK118_30"}),
     E(\h7000, \hf000, "andi", {"dddd74", "KKKK118_30"}),
     E(\h8000, \hd200, "ldyz", {"ddddd84"}),
     E(\h8200, \hd200, "styz", {"ddddd84"}),
     E(\h9000, \hfe0f, "lds", {"ddddd84", "imm16"}),
     E(\h9001, \hfe07, "ldyz", {"ddddd84"}),
     E(\h9002, \hfe07, "ldyz", {"ddddd84"}),
     E(\h9004, \hfe0c, "elpmz", {"ddddd84"}),
     E(\h900c, \hfe0e, "ldx", {"ddddd84"}),
     E(\h900e, \hfe0f, "ldx", {"ddddd84"}),
     E(\h900f, \hfe0f, "pop", {"ddddd84"}),
     E(\h9200, \hfe0f, "sts", {"ddddd84", "imm16"}),
     E(\h9201, \hfe07, "styz", {"ddddd84"}),
     E(\h9202, \hfe07, "styz", {"ddddd84"}),
     E(\h9204, \hfe0c, "xch", {"ddddd84"}),
     E(\h920c, \hfe0e, "stx", {"ddddd84"}),
     E(\h920e, \hfe0f, "stx", {"ddddd84"}),
     E(\h920f, \hfe0f, "push", {"ddddd84"}),
     E(\h9400, \hfe0f, "com", {"ddddd84"}),
     E(\h9401, \hfe0f, "neg", {"ddddd84"}),
     E(\h9402, \hfe0f, "swap", {"ddddd84"}),
     E(\h9403, \hfe0f, "inc", {"ddddd84"}),
     E(\h9405, \hfe0f, "asr", {"ddddd84"}),
     E(\h9406, \hfe0f, "lsr", {"ddddd84"}),
     E(\h9407, \hfe0f, "ror", {"ddddd84"}),
     E(\h9408, \hff0f, "bclrset", {"ddd64"}),
     E(\h940a, \hfe0f, "dec", {"ddddd84"}),
     E(\h940b, \hff0f, "des", {"dddd74"}),
     E(\h940c, \hfe0e, "jmp", {"imm16"}),
     E(\h940e, \hfe0e, "call", {"imm16"}),
     E(\h9508, \hffff, "ret", {}),
     E(\h9409, \hfeef, "eicalljump", {}),
     E(\h9518, \hffff, "reti", {}),
     E(\h9588, \hffff, "unimp", {}),
     E(\h9598, \hffff, "unimp", {}),
     E(\h95a8, \hffff, "unimp", {}),
     E(\h95c8, \hffef, "elpm", {}),
     E(\h95e8, \hffff, "unimp", {}),
     E(\h95f8, \hffff, "unimp", {}),
     E(\h9600, \hff00, "adiw", {}),
     E(\h9700, \hff00, "sbiw", {}),
     E(\h9800, \hfd00, "cbisbi", {"rrr20"}),
     E(\h9900, \hfd00, "sbics", {"rrr20"}),
     E(\h9c00, \hfc00, "mul", {"ddddd84", "rrrrr9_30"}),
     E(\hb000, \hf800, "in", {"ddddd84"}),
     E(\hb800, \hf800, "out", {"ddddd84"}),
     E(\hc000, \he000, "rcalljmp", {}),
     E(\he000, \hf000, "ldi", {"dddd74", "KKKK118_30"}),
     E(\hf000, \hf800, "brb", {"rrr20"}),
     E(\hf800, \hfe08, "bld", {"ddddd84", "rrr20"}),
     E(\hfa00, \hfe08, "bst", {"ddddd84", "rrr20"}),
     E(\hfc00, \hfc08, "sbrcs", {"ddddd84", "rrr20"})
  >>

Bits16(w) == {n \in 0..15 : IsSet(w, n)}

PatternBits == [i \in DOMAIN avr_instr |-> Bits16(avr_instr[i].pattern)]
MaskBits    == [i \in DOMAIN avr_instr |-> Bits16(avr_instr[i].mask)]

\* Mutant: a pattern matches every word that has its one bits.
Rows_unmasked(w) ==
  LET b == Bits16(w) IN {i \in DOMAIN avr_instr : PatternBits[i] \subseteq b}

\* Rows whose pattern the word has.
Rows(w) ==
  LET b == Bits16(w) IN {i \in DOMAIN avr_instr : b \cap MaskBits[i] = PatternBits[i]}

\* The row the search of emulate1() stops at.
Row(w) ==
  LET rows == Rows(w) IN avr_instr[CHOOSE i \in rows : \A j \in rows : i <= j]

IsInstr(w) == Rows(w) # {}
SizeOf(row) == IF "imm16" \in row.fields THEN 2 ELSE 1

\* Mutant: they count from r17.
UpperReg_high(n) == 17 + n

\* The short fields name the upper registers.
UpperReg(n) == 16 + n

\* struct instr_decode_common for word w, decoded by row, with next word imm.
Operands(w, row, imm) ==
  LET has(field) == field \in row.fields
  IN  [instr   |-> w,
       ddddd   |-> CASE has("ddddd84") -> Field(w, 8, 4)
                     [] has("dddd74")  -> UpperReg(Field(w, 7, 4))
                     [] has("ddd64")   -> UpperReg(Field(w, 6, 4))
                     [] OTHER -> 0,
       rrrrr   |-> CASE has("rrrrr9_30") -> 16 * Bit(w, 9) + Field(w, 3, 0)
                     [] has("rrrr30")    -> UpperReg(Field(w, 3, 0))
                     [] has("rrr20")     -> UpperReg(Field(w, 2, 0))
                     [] OTHER -> 0,
       imm_u8  |-> IF has("KKKK118_30")
                     THEN 16 * Field(w, 11, 8) + Field(w, 3, 0) ELSE 0,
       imm_u16 |-> IF has("imm16") THEN imm ELSE 0]
=============================================================================
