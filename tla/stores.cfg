CONSTANTS
  Path = {p1, p2}
  Key = {k}
  Value = {v1, v2}
  MaxConfigs = 3
  MaxReloads = 2
  Worker = {w1, w2}
  Target = {a}
  Descriptor = {d1, d2}
  MaxPart = 1
  MaxAdds = 2
  Entry = {e1, e2}
  Thing = {x1, x2}
  Array = {a1, a2}
  MaxLength = 1
  MaxMemory = 3
  Selectable = {s1, s2, s3}
  Names = {{s1, s2}, {s3}}
  Types = {{s1}, {s2, s3}}
  PageBytes = 16
  DataLengths = {1, 5, 20}
  QueueSizes = {0, 1, 3, 6}
  Alignments = {1, 4, 8, 16}
  Addresses = {64, 72}
  WordsAfter = {0, 33}
  SizeT = 1000000
  MaxAllocated = 8
SPECIFICATION MCSpec
INVARIANTS TypeOK BlocksApart BlocksInMemory CountCovers
           CacheIsLive QueueMatchesMap DescriptorsKept EntriesLive MemoryHasOneOwner SelectionsHold
PROPERTIES FreshBlock RoomForTotal
CHECK_DEADLOCK FALSE
