SPECIFICATION Spec
CONSTANTS
  Flash <- MCFlash
  DES_ecb_encrypt <- MCDes
  Start <- MCStart
INVARIANTS DirectAgrees
CHECK_DEADLOCK FALSE
