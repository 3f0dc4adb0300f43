\* Zips that are the pinned one, or differ from it in a name, a content, a mode or
\* a checksum; any change of bytes at any time; stray files in the destination.
SPECIFICATION Spec
CONSTANTS
  c1 = c1
  c2 = c2
  bad = bad
  twin = twin
  e1 = e1
  e2 = e2
  Contents = {c1, c2, bad, twin}
  Entries = {e1, e2}
  Crc <- MCCrc
  Names = {1, 2, 3}
  WellFormed = {1, 3}
  Expected <- MCExpected
  Zips <- MCZips
  Trees <- MCTrees
  Absent = Absent
  Torn = Torn
  Directory = Directory
INVARIANTS
  WrittenAfterAll
  ExtractedIsPinned
PROPERTIES
  ImplementsExtraction
CHECK_DEADLOCK FALSE
