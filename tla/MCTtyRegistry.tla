---------------------------- MODULE MCTtyRegistry ----------------------------
(* Model checking of TtyRegistry: the symmetric sets of its instances.     *)
EXTENDS TtyRegistry, TLC

Symmetry ==
  Permutations(Key) \cup Permutations(Caller) \cup Permutations(Slave)
    \cup Permutations(Reader)
    \cup Permutations(Recycler) \cup Permutations(Tty) \cup Permutations(TtyRecycler)
=============================================================================
