SPECIFICATION Spec
CONSTANT
  Sentences <- AllSentences
INVARIANTS SaysTheNumber  
CHECK_DEADLOCK FALSE
