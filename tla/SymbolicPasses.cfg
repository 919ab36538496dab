\* Every graph of five columns under every policy.
CONSTANTS
  Size = 5
  Inputs <- InputSamples
  MinChunk = 1
  MaxChunk = 2
  Slack = 8
SPECIFICATION PanelSpec
INVARIANTS
  TreeKeepsFill
  NoRowIsLost
  ZeroCountIsExact
  FactorsAreAssembled
