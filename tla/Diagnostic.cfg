SPECIFICATION FairSpec
CONSTANTS
  e1 = e1
  i1 = i1
  e2 = e2
  n1 = n1
  n2 = n2
  NoNode = none
  External = {e1}
  Internal = {i1}
  Nodes = {n1, n2}
  Group = {n1, n2}
  Streams <- OneLarge
  Patient = TRUE
  First = 4
  Least = 1
  Most = 7
  MaxTaskId = 2
  Workers = 2
  Capacity = 2
  MaxPushes = 6
  MaxSent = 2
  Width = 100
  PosRange = 64
INVARIANTS TypeOK InOrder StreamAccounted 
PROPERTY Delivered
CHECK_DEADLOCK FALSE
