SPECIFICATION AccessSpec
CONSTANT Questions <- MCQuestions
INVARIANTS AsPromised RcuAgrees CapsOnlyAdd CreatorRemoves
CHECK_DEADLOCK FALSE
