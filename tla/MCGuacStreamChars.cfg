\* A peer that counts characters, as guac_instruction.go:11 says.
CONSTANTS
  Byte <- MCByte
  Digits <- MCDigits
  Peers <- MCPeers
  Capacity = 12
  MaxGuacMessage = 8
SPECIFICATION Spec
INVARIANT DocumentedAccepted
