\* Peers that keep to the protocol and peers that do not, an array that wraps.
CONSTANTS
  Byte <- MCByte
  Digits <- MCDigits
  Peers <- MCPeers
  Capacity = 12
  MaxGuacMessage = 8
SPECIFICATION FairSpec
INVARIANT Safe
PROPERTIES InOrder AllDelivered
