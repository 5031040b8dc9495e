\* Three requests for two roomIds on three Workers.
SPECIFICATION FairSpec
CONSTANTS
  q1 = q1
  q2 = q2
  q3 = q3
  a = a
  b = b
  Request <- Requests3
  RoomId <- Ids
  NumWorkers = 3
  None = None
INVARIANTS
  TableHoldsOpenRooms
  NoRoomAfterClose
  PicksAreBalanced
PROPERTIES
  HandedRoomsAreOpen
  EveryRequestAnswered
CHECK_DEADLOCK FALSE
