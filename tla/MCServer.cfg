SPECIFICATION Spec
CONSTANTS
  c1 = c1
  c2 = c2
  c3 = c3
  w1 = w1
  w2 = w2
  good = good
  bad = bad
  acceptor = acceptor
  None = None
  Piece = Piece
  Cores = 4
  MaxFd = 2
  MaxPending = 2
  Client <- MCClient
  Asking <- MCAsking
  Abrupt <- MCAbrupt
  Worker <- MCWorker
  Request <- MCRequest
  BadRequest <- MCBadRequest
INVARIANTS
  TypeOK
  EverySocketHasOneOwner
  AnswersMatchRequests
PROPERTIES
  ServedClientsAreAnswered
  QueuedClientsAreServed
  PendingClientsAreAccepted
  OnlyPollingKeepsTheAcceptorOut
