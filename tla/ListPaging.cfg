SPECIFICATION Spec
CONSTANTS
  N = 3
  Specs <- MCSpecs
  ExternalServiceType = "NodePort"
  Step = 4
  KeptTexts <- MCKeptTexts
  DefaultPageSize = 2
  MaxPageSize = 1
  MaxChanges = 2
  MaxFailures = 1
INVARIANTS TypeOK SkippedByDeletes RepeatedByCreates ListedAsAsked LoggedAsAnswered AnsweredOnce
PROPERTIES PagingEnds
CHECK_DEADLOCK FALSE
