\* Two sends of one operation id, the second by the same user with the same
\* bundle, by another user or with another bundle; two documents, so that a
\* recorded prefix and an unrecorded tail occur.
CONSTANTS
    Op = {op1}
    Req = {r1, r2}
    Owner = {alice, bob}
    Body = {bundle, other}
    DocCount = 2
SPECIFICATION MCFairSpec
CHECK_DEADLOCK FALSE
INVARIANTS TruthfulPrefix ClassifiedTruthfully EngineRunsOnce AnswersTruthful
PROPERTIES FinalRowsFrozen InFlightEnds
