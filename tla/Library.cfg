CONSTANTS
  Prime = 7
  Root = 2
  B = 3
  Factor <- MCFactor
  Delta <- MCDelta
  EdgeBudget = 14
  WordBits = 2
  MaxLayers = 6
  MaxEdges = 99
  Scalars = 32749
  ScalarBits = 15
  Blind <- MCBlind
  GenG <- MCGenG
  GenH <- MCGenH
  PedersenB = 5
  PedersenBlind = 1789
  Random <- MCRandom
  Values = {1, 3}
  Noises <- MCNoises
  Foreign <- MCForeign
  MaxCts = 3
  Jobs = {j1, j2}
  Keygens = {k1}
  Entries = {e1, e2}
  Ready = ready
  None = none
  Bits = 5
  Cores = 4
  BitGens = 2
  SumGens = 4
  Byte = 4
  Wide = 2
  MaxCount = 7
  MaxSigma = 8
  SigmaWord = 2
  RangeBits = 2
  Points = {0, 1, 2}
  CanonicalScalars = {0, 1, 3}
  KeyBits = 4
  KeySizeBytes = 2
  MaxKey = 255
  RateLimit = 9
  FirstCount = 6
  LimbBits = 4
  FieldWindow = 3
  FrameByte = 16
  XorBytes <- MCXor
  ShortLength = 6
  LengthBytes = 3
  MaskBytes = 2
  Opcodes = 8
  TextOp = 1
  CloseOp = 3
  PingOp = 4
  PongOp = 5
  MaxString = 1000
  ServerLimit = 300
  RelayLimit = 260
SPECIFICATION LibrarySpec
INVARIANTS
  FramesArrive
  RecorderAnswer
  KeysKept
  FieldExact
  CiphersKept
  CiphersSound
  DecodesRight
  RatesRight
  LedgerTypeOK
  ClaimsRight
  EachBitOnce
  GeneratorsAlive
PROPERTIES
  CircuitComplete
  ProofsVerify
  LedgerImplements
CHECK_DEADLOCK FALSE
