---------------------------- MODULE MCSshSession ----------------------------
(* Model checking of SshSession in four instances: one run with messages   *)
(* of every kind, one with a question while output is sent, one with more  *)
(* output, and two runs on one shell.                                      *)
EXTENDS SshSession

VARIABLE focus  \* which of the instances this behaviour belongs to

(* Typed keys, keys that are pasted together, and a forbidden word.        *)
Word == <<"x", "x">>
MCFilterMap == {Word}
MCCommands == UNION {[1..n -> Byte] : n \in 0..2} \cup {Word \o <<"cr">>, Word \o <<"cr", "x">>}

Keys(n) == inputs' <= n /\ filter' \in {<<>>, <<"x">>} /\ receiver'[1].out \in {<<>>, <<"x">>}

(* The bounds of each instance.                                            *)
Bounds ==
  /\ focus = "typing" => runs' = 1 /\ produced' = 0 /\ ~closed' /\ wait'[1] # "error"
  /\ focus = "asking" => runs' = 1 /\ produced' <= 1 /\ inputs' <= 1 /\ receiver'[1].pc # "stdin"
  /\ focus = "output" => runs' = 1 /\ Keys(1)
  /\ focus = "two" => produced' <= 1 /\ Keys(0) /\ ~closed'

MCInit == Init /\ focus \in {"typing", "asking", "output", "two"}

MCNext == Next /\ Bounds /\ UNCHANGED focus

MCSpec == MCInit /\ [][MCNext]_<<vars, focus>> /\ Fairness
=============================================================================
