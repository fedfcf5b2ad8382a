INIT Init
NEXT Next
INVARIANTS TablesAnswer LoadsAnswerInside RemapsAreExact SearchesTakeTheBest PiecesFitTogether TriesAnswer ClosedAnswers
CHECK_DEADLOCK FALSE
