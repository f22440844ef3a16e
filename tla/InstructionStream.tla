-------------------------- MODULE InstructionStream --------------------------
(* What a guac Stream promises its reader: the instructions the peer sends *)
(* are read one at a time, each complete, none lost, repeated or changed.  *)
EXTENDS Integers, Sequences

CONSTANTS Scripts  \* the sequences of instructions the peer may send

VARIABLES
  script,     \* what the peer sends
  delivered,  \* how many instructions have been read
  last        \* the instruction read last, << >> before the first

vars == <<script, delivered, last>>

Init == script \in Scripts /\ delivered = 0 /\ last = <<>>

Deliver ==
  /\ delivered < Len(script)
  /\ delivered' = delivered + 1
  /\ last' = script[delivered + 1]
  /\ UNCHANGED script

Spec == Init /\ [][Deliver]_vars

(* Everything sent is read in the end.                                     *)
FairSpec == Spec /\ WF_vars(Deliver)
=============================================================================
