SPECIFICATION Spec
CONSTANTS
  Configs <- MCConfigs
  Ids <- MCIds
PROPERTIES
  WithdrawsMatch
  ChainsRunTheirBets
