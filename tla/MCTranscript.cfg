CONSTANTS
  Questions = {q1, q2}
  Calls = {c1, c2}
  MaxVersion = 1
  MaxDeletes = 1
SPECIFICATION Spec
INVARIANTS QuestionOnce NoTwoAnswers AnswersFitInTurn DeletesHoldInTurn
SYMMETRY Symmetry
