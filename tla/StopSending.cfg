SPECIFICATION Spec
CONSTANTS
  StopErrors = {1}
  Writers = {"stop_sending", "reset_stream", "stream", "padding"}
  Epochs = {3}
  Capacities = {24, 80}
  Numbers = {0, 64, 16384}
  Lengths = {0, 17, 63, 64, 75}
  MaxFrames = 2
INVARIANTS
  FramesAreReadBack
CHECK_DEADLOCK FALSE
