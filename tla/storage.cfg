SPECIFICATION FairSpec
CONSTANTS
  Workers = {w1, w2}
  UI = ui
  Configs = {asset, custom}
  Rejected = {}
  Speakers = {174}
  DefaultSpeaker = 174
  MaxLoads = 2
  DictFiles <- MCDictFiles
  ModelFiles <- MCModelFiles
  Assets = {asset}
  MaxCreates = 2
  MaxFaults = 1
INVARIANTS  StorageTypeOK EngineRecovers NativeDeathNeedsFault ModelsAreWhole CopiesEndWhole
PROPERTIES StartsAndLoadsEnd
CHECK_DEADLOCK FALSE
