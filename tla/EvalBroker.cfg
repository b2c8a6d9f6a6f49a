SPECIFICATION Spec
CONSTANTS
  e1 = e1
  e2 = e2
  e3 = e3
  p1 = p1
  qa = qa
  w1 = w1
  w2 = w2
  None = None
  Evals = {e1, e2, e3}
  Policies = {p1}
  Queues = {qa}
  Workers = {w1, w2}
  DeliveryLimit = 2
  EvalPolicy <- SamePolicy
  EvalQueue <- OneQueue
  EvalPriority <- RaisedPriority
  CreateTime <- InOrder
  WorkerQueue <- AllOnOneQueue
SYMMETRY WorkerSymmetry
INVARIANTS
  TypeOK
  SingleHolder
  OpenDeliveryHasTimer
  DeliveriesBounded
  WakeUpNotLost
PROPERTIES
  NoSilentDrop
CHECK_DEADLOCK FALSE
