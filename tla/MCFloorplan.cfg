SPECIFICATION FlpSpec
CONSTANTS
  NCore = 3
  Shapes <- SomeShapes
  DescWires <- SomeWires
  DescPower <- SomePower
  FlpConfigs <- SomeConfigs
  RimThickness = 1
  L2Size <- Square
  MaxTemp <- Density
  lambdaA = 1
  lambdaT = 1
  lambdaW = 1
  Kmoves <- OneTry
  Rreject <- HalfRejected
  Nmax = 3
INVARIANTS PolishNormalized PlanTiles SizingOptimal SlotsFollowBlocks BestKept
CHECK_DEADLOCK FALSE
