SPECIFICATION FairSpec
CONSTANTS
  Deployments = {"api", "api over grpc", "notifier"}
  HttpCalls = {c1}
  GrpcCalls = {c2}
  Handlers = {h1}
  Passes = {p1, p2}
INVARIANTS
  ShutdownInv
  CallsFinish
  NothingDropped
  EndsInOrder
PROPERTIES
  SignalEnds
CHECK_DEADLOCK FALSE
