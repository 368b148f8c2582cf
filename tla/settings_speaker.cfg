SPECIFICATION SettingsSpec
CONSTANTS
  Configs = {c1, c2, c3, c4, c5}
  DefaultConfig = c1
  Speakers = {1, 2, 4, 8, 71, 89, 92, 98, 174, 175, 216, 282}
  DefaultSpeaker = 174
  KeyName = keyName
INVARIANTS SpeakerIsListed
