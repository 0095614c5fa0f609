\* One run of three model calls, responses of one and two calls, one stop.
CONSTANTS
  LastRun = 1
  CallLimit = 3
  Responses <- Answers
  Instructions <- Words
  Given <- Modes
  MaxStops = 1
SPECIFICATION Spec
INVARIANTS TypeOK RunsUnderConsent AnswersFitTheirQuestion QuestionSurvives
PROPERTIES WorkFollowsDecision LeadEnds
CHECK_DEADLOCK FALSE
