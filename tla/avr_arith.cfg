SPECIFICATION Spec
CONSTANTS
  Flash <- MCFlash
  DES_ecb_encrypt <- MCDes
  Start <- MCStart
INVARIANTS TrapsForCause AddsAndMultiplies ComparesWords NegatesAndHalves
PROPERTY ArithmeticExact
