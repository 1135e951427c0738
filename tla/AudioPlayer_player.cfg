SPECIFICATION PlayerSpec
CONSTANTS
  Length = 11
  Chunk = 3
  Requests = {1, 2, 4, 7}
  Loops <- MCLoops
  MusicTimes <- MCTimes
  SoundTimes = {0, 1}
  Fades = {2, 5}
  Clients = {"music", "sound", "voice"}
CHECK_DEADLOCK FALSE
INVARIANTS
  BufferInLoop
PROPERTIES
  TerminatedIsFinal
  ImplementsPlayhead
  LoadsReturn
  FiniteMusicEnds
