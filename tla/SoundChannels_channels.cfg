CONSTANTS
  NumChannels = 2
  Voices = {voice}
  Effects = {click, blank}
  Empty = {blank}
  Chunks = {k1, k2, k3, k4, k5}
  None = None
SPECIFICATION ChannelsSpec
INVARIANTS SoundIsOwned TableMatchesMixer NothingBroken NoChunkIsLost
PROPERTIES ChannelsComeBack
