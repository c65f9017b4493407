SPECIFICATION Spec
CONSTANTS
  Key = {1, 2, 3, 4, 5}
  Record = {a, b}
  NoRecord = NoRecord
  Null = Null
  NoCall = NoCall
INVARIANTS
  TypeOK
  SearchTree
PROPERTIES
  ImplementsOrderedMap
