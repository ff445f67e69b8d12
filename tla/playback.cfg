CONSTANTS
  Frames = 3
  NoSeek = NoSeek
  MaxSeeks = 2
  MayFail = {"Startup", "Shutdown", "Pause", "Resume", "FrameStart", "FrameFinish"}
SPECIFICATION Spec
INVARIANTS IInv FramesOnOpenDevice DeviceReleased ClientTold ClientFollowsDevice FinishAnnounced
