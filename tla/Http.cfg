SPECIFICATION Spec
CHECK_DEADLOCK FALSE
CONSTANTS
  Token <- MCToken
  Meant <- MCMeant
  Method <- MCMethod
  LowerCase <- MCLowerCase
  Limit = 24
  Registered <- MCRegistered
  Base <- MCBase
  File <- MCFile
  Extension <- MCExtension
INVARIANT IInv
INVARIANT UnderstoodAsMeant
INVARIANT RightHandler
INVARIANT ServedBelowBase
INVARIANT FilesAreFound
INVARIANT AnswerIsReadBack
