CONSTANTS
  LineCompiler <- TheCompiler
  DriverRound <- TheRound
  DriverRun <- TheRun
  IsRead <- TheReading
  Scripts <- TheScripts
  TotalFuel = 40
  MaxUserCallDepth = 4
  SliceFuels = {1}
SPECIFICATION SessionSpec
INVARIANTS EnginesAgree CodeIsSound LinesStandAlone TextsAreRead
