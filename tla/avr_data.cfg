SPECIFICATION Spec
CONSTANTS
  Flash <- MCFlash
  DES_ecb_encrypt <- MCDes
  Start <- MCStart
INVARIANTS TypeOK CopiesBlock AddressesAgree ReadsFlash BitsTravel DesInverts
PROPERTIES PointerAccess StopsExactly Footprint TransfersExact
CHECK_DEADLOCK FALSE
