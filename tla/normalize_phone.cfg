SPECIFICATION Spec
CONSTANT
  Sentences <- PhoneSentences
INVARIANTS PhoneReadAlone
CHECK_DEADLOCK FALSE
