SPECIFICATION Spec
CONSTANTS
  Section = {"s1", "s2", "s3"}
  Hdr <- MCHdr
  Object = {"f1", "f2"}
  SectionsOf <- MCSectionsOf
  FileName = {"f1", "f2", "missing"}
  Label = {"code", "data"}
  OutName = {"o1", "o2"}
  BlockDecl <- MCBlockDecl
  EntSize <- MCEntSize
  Width <- MCWidth
  MaxFiles = 2
  MaxStatements = 2
  MaxProcessors = 1
INVARIANTS
  DisjointInBlock
  InsideBlock
  FileMatchesMemory
  WrittenIsComplete
  WrittenIsDisjoint
PROPERTIES
  AddressIsFinal
