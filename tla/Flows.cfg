SPECIFICATION Spec
CONSTANTS
  Conn <- OneClient
  Mac = {Client}
  Client = Client
  Neighbour = Neighbour
  Router = Router
  Capacity = 1
  IdleTimeout = 2
  ActiveTimeout = 2
  TTL = 3
  None = None
  MaxTime = 4
  MaxFrames = 3
  MaxChanges = 1
INVARIANTS
  EveryFrameReported DirectionIsKept
