SPECIFICATION StreamsSpec
CONSTANTS
  Injectors = {bot, tts}
  MaxDepth = 2
  UtteranceLen = 2
  MaxUtterances = 2
  Glitches = 1
  Digits = {one, two}
  Flash = flash
  NoEvent = NoEvent
  Copies = 3
  MaxPresses = 2
  MaxLegs = 2
  Legs = {1, 2, 3}
  MaxPackets = 3
  MaxChanges = 2
INVARIANTS PlaybackInv DtmfInv RtcpInv
PROPERTIES PlayedOrSilenced
CHECK_DEADLOCK FALSE
