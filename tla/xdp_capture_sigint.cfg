\* Copy mode on a healthy link: traffic that never pauses against Ctrl+C.
CONSTANTS
  NUM_FRAMES = 4
  FRAME_SIZE = 2
  Headroom = 1
  FqSize = 2
  RxSize = 2
  RX_BATCH_SIZE = 1
  MaxHeld = 0
  NTimeouts = 2
  LinkFails = FALSE
SPECIFICATION FairSpec
PROPERTIES StopPtHonoured
