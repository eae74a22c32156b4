SPECIFICATION FairSpec
CONSTANTS
  Commands = {"q", "s", "u"}
  Oddities = {"+", "-", "^C", "damaged", "headless", "unsummed"}
  MaxItems = 3
  PKT_BUF_MAX = 12
INVARIANTS HandledOnceInOrder OneRunPerResume OnlyDropsTheGone
PROPERTIES AllAnswered HangUpNoticed
