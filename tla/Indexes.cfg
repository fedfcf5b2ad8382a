INIT Init
NEXT Next
INVARIANTS CompactAnswers PerfectAnswers CodesReadBack DictBuildsOneIndex DictAnswers ArenaHoldsTheKeys
CHECK_DEADLOCK FALSE
