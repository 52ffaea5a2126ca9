SPECIFICATION Spec
CONSTANTS
  Base = 2
  MemSize = 16
  TableTop = 2
  SwapTable = 10
  ProgramTop = 8
  DataTop = 8
  Executables <- MCExecutables
  Images <- MCImages
  UploadLists <- MCUploadLists
  BufferSize = 12
  MaxFaults = 2
INVARIANT RunsTheProgram
 
INVARIANT UploadDetectsFault
PROPERTY Ends
