CONSTANTS
  g1 = g1
  a1 = a1
  a2 = a2
  t1 = t1
  s1 = s1
  p = p
  q = q
  NoScanner = NoScanner
  Grades <- OneGrade
  Teachers <- OneTeacher
  Scanners <- SoleScanner
  AIScores <- OneScore
  GradeMode <- ActiveMode
  Acts <- Overrides
  AISlow <- NoneLate
  MaxAIAttempts = 2
  MaxAIFaults = 0
  MaxAICopies = 1
  MaxRequests = 1
  MaxAICrashes = 0
  MaxCalls = 4
  AIWorkers <- TwoAIWorkers
SPECIFICATION AISpec
PROPERTIES OverrideStands
