CONSTANTS
  g1 = g1
  a1 = a1
  a2 = a2
  t1 = t1
  s1 = s1
  p = p
  q = q
  NoScanner = NoScanner
  Grades <- OneGrade
  Teachers <- OneTeacher
  Scanners <- SoleScanner
  AIWorkers <- TwoAIWorkers
  GradeMode <- ActiveMode
  AIScores <- TwoScores
  Acts <- Repeats
  AISlow <- NoneLate
  MaxAIAttempts = 2
  MaxAIFaults = 1
  MaxAICopies = 1
  MaxRequests = 1
  MaxAICrashes = 1
  MaxCalls = 4
  j1 = j1
  j2 = j2
  w1 = w1
  w2 = w2
  NoWorker = NoWorker
  Jobs <- OneJob
  Workers <- TwoWorkers
  Mode <- LegacyMode
  Slow <- AllSlow
  MaxAttempts = 2
  MaxFaults = 1
  MaxCopies = 1
  MaxCrashes = 1
SPECIFICATION GradingSpec
SYMMETRY GradingSymmetry
CHECK_DEADLOCK FALSE
INVARIANTS NoGradeForgotten SingleGrader CallsBounded OfficialIsFinal SlowInv OverrunBounded
PROPERTIES SettledStays Refinement OnlyLateRunsDamage
