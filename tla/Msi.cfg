SPECIFICATION LiveSpec
CONSTANTS
  Line = {c2h, h2c}
INVARIANTS TypeOK Handshake NoneForgotten
PROPERTIES Rings EveryPulseRead
