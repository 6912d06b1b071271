SPECIFICATION FairSpec
CONSTANTS
  Ids = {i1, i2, i3}
  Threads = {t1, t2}
PROPERTIES FlashIsAnswered
