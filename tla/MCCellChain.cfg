SPECIFICATION FairSpec
CONSTANTS
  head = head
  c1 = c1
  c2 = c2
  c3 = c3
  c4 = c4
  a = a
  b = b
  unknown = unknown
  Null = Null
  EndOfString = EndOfString
  Predicted = Predicted
  Cell <- MCCell
  HeadCell = head
  Input <- MCInput
  Known <- MCKnown
  MaxLength = 3
  MaxBatch = 2
INVARIANTS
  TypeOK
  NoDangling
  ChainOK
  NoLeak
PROPERTIES
  ImplementsSession
  CallsReturn
