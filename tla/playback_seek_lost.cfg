CONSTANTS
  Frames = 3
  NoSeek = NoSeek
  MaxSeeks = 2
  MayFail = {}
SPECIFICATION Spec
PROPERTY SeekNotLost
