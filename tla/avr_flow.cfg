SPECIFICATION Spec
CONSTANTS
  Flash <- MCFlash
  DES_ecb_encrypt <- MCDes
  Start <- MCStart
INVARIANTS BalancedStack FramePerCall SkipsOne
PROPERTY CallsReturn
CHECK_DEADLOCK FALSE
