SPECIFICATION Spec
CHECK_DEADLOCK FALSE
CONSTANTS
  Letters <- MCLetters
  Digits <- MCDigits
  OtherAscii <- MCOtherAscii
  symbols_ <- MCSymbols
  MinDouble <- MCMinDouble
  Texts <- MCTexts
  Engines <- MCEngines
  Simp <- MCSimp
  Bytes <- MCBytes
  Class <- MCClass
  must_neural_tone_words <- MCMustNeural
  must_not_neural_tone_words <- MCNone
  must_erhua <- MCNone
  not_erhua <- MCNotErhua
  Lower <- MCLower
  cmu_map <- MCCmu
  orderdict_map <- MCOrderdict
  G2pPhones <- MCG2pPhones
  word_phone_map <- MCWord2phone
  phone_id_map <- MCPhoneIds
  OutputMaxLen = 3
  MaxSilent = 1
INVARIANTS
  TypeOK
  BestRoute
  HmmBest
  CutKeepsText
  FullCutIsAllWords
  DefinedOnPlainText
  PlainIgnoresHistory
  SandhiKeepsSyllables
  SandhiApplied
  PlainHasIds
  OnlyLastBuIsEnglish
PROPERTY
  MergeKeepsText
