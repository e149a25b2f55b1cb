CONSTANTS
  MaxLinks = 3
  NoPath = NoPath
  MaxCalls = 1
  World <- Worlds
  Program <- Programs
  Text <- ModuleTexts
  Specifier <- ModuleSpecifiers
  Specifiers <- Imports
  Parses <- WellFormed
  Compiles <- IsProgram
  Script <- TheScript
  ImportRoot <- TheRoot
  MaxImportDepth = 2
  MaxRuns = 2
  OtherCalls <- Others
  NoSource = NoSource
SPECIFICATION Spec
INVARIANTS GraphIsWhole OneSourcePerModule LoadedIsTrue LoaderFollowsLinker
PROPERTIES ScriptsStayInside ChangesAreGranted LinkReturns
CHECK_DEADLOCK FALSE
