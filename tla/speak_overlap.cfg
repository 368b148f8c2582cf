SPECIFICATION Spec
CONSTANTS
  Workers = {w1}
  UI = ui
  Configs = {c1}
  Rejected = {}
  Speakers = {174}
  DefaultSpeaker = 174
  MaxLoads = 1
  Threads = {t1, t2}
  NoThread = none
  ping = ping
  bang = bang
  dot = dot
  semi = semi
  comma = comma
  newline = newline
  space = space
  Items <- MCItems
  charSplit <- MCOneSplit
  Texts <- MCShortTexts
  Comma = comma
  Newline = newline
  Blank = space
  Phone <- MCPhone
  Sil = 277
  Noise = 999
  Loud <- MCLoud
  InitialMax = 1
  BufferSize = 1
  Client = {"overlap"}
INVARIANTS HeardWasAsked WaitsAreShort
SYMMETRY Symmetry
CHECK_DEADLOCK FALSE
