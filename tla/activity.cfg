SPECIFICATION Spec
CONSTANTS
  Workers = {w1, w2}
  UI = ui
  preInstalled = preInstalled
  customPath = customPath
  emptyPath = emptyPath
  Configs <- MCConfigs
  Rejected = {emptyPath}
  Speakers = {174}
  DefaultSpeaker = 174
  MaxLoads = 4
  DefaultConfig = preInstalled
  NoConfig = noConfig
  ignoreCase <- MCDistinct
  KeyName = keyName
  MaxVisits = 2
INVARIANTS TypeOK DefaultsWithoutCustom DialogIsAwaited DialogGuardsPredictor LoadedAsShown ReloadsUpToCase
 
SYMMETRY Symmetry
CHECK_DEADLOCK FALSE
