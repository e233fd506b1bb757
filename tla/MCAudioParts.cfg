SPECIFICATION PartsSpec
CONSTANTS
  Energies = {0, 1, 2, 4, 9}
  Thresholds <- MCThresholds
  CalibrationFrames = 5
  HangoverFrames = 2
  InitialThreshold = 6
  SafetyFloor = 2
  InputFrame = 2
  FlushFrame = 4
  Chunks = {1, 2, 3, 5}
  MaxFed = 8
  MaxErrors = 1
  MaxToggles = 2
  MaxResets = 1
  Streams = {s1, s2}
  FrameUnits = 2
  MaxStarts = 3
  MaxMedia = 4
  Levels = {0, 1, 4, 12, 25, 30, 33}
  MaxGain = 16
  AttackMs <- MCAttackMs
  Targets <- MCTargets
  SpeakerChangeGap = 2
  MaxFrames = 5
  Taps = 5
  LinearTaps = 4
  Frame48 = 6
  Stream48 = 4
  Rates = {8000, 11025, 12050, 16000, 22050, 24000, 32000, 44100, 48000}
  Buffers = {0, 1, 2, 3, 7, 30}
  Pcm <- MCPcm
  Total = 3
  MaxWorkers = 2
  Texts <- MCTexts
  Delay = 2
  CallTime = 1
  MaxPairs = 2
  Features = {g1, g2}
  PulseMs = 2
  MaxClock = 5
  Requests = {r1, r2}
INVARIANTS VadInv PipelineInv  LevelInv DiarInv ResamplingInv EvaluationInv MeterInv HttpInv
PROPERTIES BurstsDoNotRaiseFloor
CHECK_DEADLOCK FALSE
