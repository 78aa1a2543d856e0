\* A frame for each entry of both rings but none for the one the driver may hold, so that
\* the fill ring gets invalid addresses; a batch may take the whole receive ring.
CONSTANTS
  NUM_FRAMES = 4
  FRAME_SIZE = 2
  Headroom = 1
  FqSize = 2
  RxSize = 2
  RX_BATCH_SIZE = 2
  MaxHeld = 1
  NTimeouts = 2
  LinkFails = TRUE
SPECIFICATION Spec
INVARIANTS FrameOwnedOnce BlanksBounded NeverStarves FreeAssertion
