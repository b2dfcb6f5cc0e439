SPECIFICATION FairSpec
CONSTANTS
  t1 = t1
  t2 = t2
  s1 = s1
  s2 = s2
  None = None
  Threads <- MCThreads
  Salts <- MCSalts
  SlotCount = 2
  Capacity = 2
  MaxAdds = 5
INVARIANTS
  TypeOK
  Remembered
  Forgets
PROPERTIES
  NoIsRight
  Returns
