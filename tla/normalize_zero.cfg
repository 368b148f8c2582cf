SPECIFICATION Spec
CONSTANT
  Sentences <- ZeroSentences
INVARIANTS ExampleOfCreateTextValue
CHECK_DEADLOCK FALSE
