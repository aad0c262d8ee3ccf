SPECIFICATION Spec
CONSTANTS
  Size = 15
  Byte <- MCByte
  Kinds = {"line", "prompt", "cmgr", "clcc", "glued", "cssi", "echo", "long"}
  MaxSent = 3
  CssiLen = 3
INVARIANTS TypeOK BytesInOrder LinesExact OverflowOnlyLong
CHECK_DEADLOCK FALSE
