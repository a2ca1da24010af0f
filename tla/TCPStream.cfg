SPECIFICATION Spec
CONSTANT MaxCommands = 3
INVARIANTS CommandsInOrder AnswersMatch AnswersOwed
PROPERTY CallsSettle
CHECK_DEADLOCK FALSE
