\* Two or three readers behind one handshake.
CONSTANTS
  Goroutine = {g1, g2, g3}
  NoConnection = NoConnection
  Configs <- MCConfigs
  Parameters <- MCParameters
  Asks <- MCAsks
  Given = {"c1", "c2"}
  Instructions = 3
CHECK_DEADLOCK FALSE
SPECIFICATION TunnelSpec
INVARIANTS LockInv Agreed HandedOver
PROPERTIES WaiterServed HandshakeEnds
