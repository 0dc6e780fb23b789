\* One thread on each side: a signal is sent before the producer sleeps.
SPECIFICATION FairSpec
CONSTANTS
  p1 = p1  p2 = p2  c1 = c1  c2 = c2  x = x  y = y
  Producers = {p1}  Consumers = {c1}  NoThread = NoThread
  Elems = {x}  NoElem = NoElem  Capacity = 1  SizeT = 8
PROPERTY SleepEnds
