CONSTANTS
    Answers <- MCAnswers
    Transfer = {t1, t2}
SPECIFICATION FairSpec
INVARIANTS BodyExact Watched SettlesOnce
PROPERTIES Settles
CHECK_DEADLOCK FALSE
