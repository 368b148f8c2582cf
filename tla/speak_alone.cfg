SPECIFICATION FairSpec
CONSTANTS
  Workers = {w1}
  UI = ui
  Configs = {c1}
  Rejected = {}
  Speakers = {174}
  DefaultSpeaker = 174
  MaxLoads = 2
  Threads = {t1}
  NoThread = none
  ping = ping
  bang = bang
  dot = dot
  semi = semi
  comma = comma
  newline = newline
  space = space
  Items <- MCItems
  charSplit <- MCcharSplit
  Texts <- MCAgainTexts
  Comma = comma
  Newline = newline
  Blank = space
  Phone <- MCPhone
  Sil = 277
  Noise = 999
  Loud <- MCLoud
  InitialMax = 1
  BufferSize = 1
  Client = {"pause", "stop", "reload"}
INVARIANTS NoMixedModels TypeOK 
PROPERTIES SessionEnds AllHeard
CHECK_DEADLOCK FALSE
