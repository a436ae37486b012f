CONSTANTS
  h1 = h1
  h2 = h2
  Handler = {h1, h2}
  Scenario <- MCScenario
  Load <- MCLoad
  Rows <- MCRows
  Confs <- MCConfs
  IsAgent <- MCIsAgent
  MaxUpdates <- MCMaxUpdates
  MaxDepth = 4
SPECIFICATION ProxySpec
INVARIANTS ForwardedWasGranted DeniedWasNotGranted MintedIsCurrent PolicyIsCurrent
