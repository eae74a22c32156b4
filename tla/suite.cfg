SPECIFICATION Spec
CONSTANT DES_ecb_encrypt <- MCDes
INVARIANTS TestsPass Unambiguous OperandsFit ExecutesTheSet
CHECK_DEADLOCK FALSE
