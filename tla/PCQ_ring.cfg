\* Two producers and two consumers on a queue of two elements.
SPECIFICATION Spec
CONSTANTS
  p1 = p1  p2 = p2  c1 = c1  c2 = c2  x = x  y = y
  Producers = {p1, p2}  Consumers = {c1, c2}  NoThread = NoThread
  Elems = {x, y}  NoElem = NoElem  Capacity = 2  SizeT = 8
INVARIANTS TypeOK SizeWithin
PROPERTY FifoUnlessRaced
SYMMETRY Symmetry
