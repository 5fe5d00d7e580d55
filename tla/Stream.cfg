SPECIFICATION StreamSpec
CONSTANTS
  a = a
  b = b
  Senders = {a, b}
  SizesOf <- ThreeAndOne
  MaxPayload = 4
  MaxFrame = 6
  RoomOf <- RoomForOne
INVARIANTS StreamTypeOK SpoiledUpToMarker
CHECK_DEADLOCK FALSE
