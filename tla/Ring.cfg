SPECIFICATION ObservedSpec
CONSTANTS
  Producers = {p1, p2}
  Consumers = {c1}
  Items = {x, y}
  Empty = Empty
  size = 2
  IndexModulus = 1024
  MaxEnqueues = 3
INVARIANT RingInv
PROPERTIES ImplementsFIFO NoItemMeansEmpty CallsReturn
