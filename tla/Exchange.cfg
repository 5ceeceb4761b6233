\* Every entry and provider; at most two arguments and two extras, or three messages; answers of two pieces.
CONSTANTS
  a = a
  b = b
  Pieces = {a, b}
  Thought = thought
  Answers <- MCAnswers
SPECIFICATION MCSpec
INVARIANTS
  TypeOK
  
  WhatIsOfferedArrives
  ConversationIsKept
  TextIsFaithful
  WholeAnswerGivesWholeText
  AsTransportsHasIt
\* A rejected call and a finished answer have no further step.
CHECK_DEADLOCK FALSE
