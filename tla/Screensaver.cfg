SPECIFICATION Spec
CONSTANTS
  ClockMod = 5
  Timeout = 2
  QueueCap = 2
  Sources <- AllSources
  MaxEvents = 3
PROPERTY WakesUp
PROPERTY PlaybackUncovers
