--------------------------- MODULE MCEtcdServices ---------------------------
(* Model checking of EtcdServices.                                         *)
EXTENDS EtcdServices
=============================================================================
