--------------------------- MODULE MCSlaveRegistry ---------------------------
(* Model checking of SlaveRegistry.                                        *)
EXTENDS SlaveRegistry
=============================================================================
