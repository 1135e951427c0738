CONSTANTS
  Tracks = {dawn, dusk}
  Levels = {0, 2}
  Full = 2
  FadeTimes = {2}
  NoTrack = NoTrack
SPECIFICATION MusicSpec
PROPERTIES MusicIsWaitedFor FadeArrives
