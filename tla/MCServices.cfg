CONSTANTS
  Loggers = {t1, t2}
  Lengths = {2, 5}
  MaxLen = 2
  MaxRefs = 2
  MaxPrints = 3
  MaxSize = 5
  MaxBuffer = 3
  MaxGain = 3
  c1 = c1
  c2 = c2
  Clients = {c1, c2}
  Asks <- AllAsks
  MaxSets = 1
  MaxHops = 1
SPECIFICATION Spec
INVARIANT LogShowsTexts
INVARIANT ZipTells
INVARIANT HttpKept
CHECK_DEADLOCK FALSE
