\* Two emitters, and ticks of the audio thread at any time.
SPECIFICATION MixerSpec
CONSTANTS
  Emitters = {e1, e2}
  MaxCommands = 2
  Null = Null
INVARIANT DeadEmittersAreRemoved
CHECK_DEADLOCK FALSE
