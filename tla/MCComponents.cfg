\* Two reporters, three logs in a channel of one, two or three calls of each client,
\* three closers of one program, four portions of a shell's output;
\* one call of a pure function on every small input.
CONSTANTS
  Worker = {w1, w2}
  MaxCells = 2
  MaxCount = 2
  Log = {l1, l2, l3}
  LogCap = 1
  BbcCalls = 2
  SshCalls = 3
  Caller = {c1, c2, c3}
  Key = {k1, k2}
  MaxMade = 2
  Closer = {c1, c2, c3}
  Timeouts <- MCTimeouts
  Portions = 4
  Octet = 4
  Mantissa = 8
  Scales = {1, 2, 4, 8, 16, 32, 64}
  BlockSize = 2
  HexDigit <- MCHexDigit
  HexValue <- MCHexValue
  EncryptBlock <- MCEncryptBlock
  DecryptBlock <- MCDecryptBlock
CHECK_DEADLOCK FALSE
SPECIFICATION Spec
INVARIANTS StoredOnce CountsKept BbcSafe RetriesKeepOne ReturnsWhenGone OutputInOrder SharedAreRegistered ListsRight FormatRight ConversionsRight AccountsRight
PROPERTIES LogsTakenUp CloseReturns ShellTells
