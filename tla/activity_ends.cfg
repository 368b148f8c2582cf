SPECIFICATION FairSpec
CONSTANTS
  Workers = {w1, w2}
  UI = ui
  preInstalled = preInstalled
  customPath = customPath
  emptyPath = emptyPath
  Configs <- MCConfigs
  Rejected = {emptyPath}
  Speakers = {174}
  DefaultSpeaker = 174
  MaxLoads = 3
  DefaultConfig = preInstalled
  NoConfig = noConfig
  ignoreCase <- MCDistinct
  KeyName = keyName
  MaxVisits = 1
PROPERTIES DialogEnds
CHECK_DEADLOCK FALSE
