SPECIFICATION Spec
CONSTANTS
  Streams = {s1, s2}
  Deletions = {d1}
  Guest = guest
  Account = account
  MaxRows = 4
  Accidents = 1
  Horizon = 2
INVARIANTS
  TypeOK
  DeletedThreadsStayDeleted
  CompletionsGoWithTheirThread
  ThreadsHaveOneOwner
  EachMessageIsShownOnce
  ListedThreadsHaveAnAnswer
  FinishedThreadsAreListed
  AncestorsAreFound
SYMMETRY Interchangeable
CHECK_DEADLOCK FALSE
