CONSTANTS
  LineCompiler <- TheCompiler
  DriverRound <- TheRound
  DriverRun <- TheRun
  IsRead <- TheReading
  Scripts <- Rendering
  TotalFuel = 40
  MaxUserCallDepth = 4
  SliceFuels = {1}
SPECIFICATION SessionSpec
INVARIANT EnginesAgreeOnRendering
