SPECIFICATION FairSpec
CONSTANTS
  Commands = {"q", "s", "u"}
  Oddities = {"+", "-", "damaged", "headless"}
  MaxItems = 2
  PKT_BUF_MAX = 12
PROPERTIES ScanEnds
