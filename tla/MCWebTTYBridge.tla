--------------------------- MODULE MCWebTTYBridge ---------------------------
(* Outputs for WebTTYBridge, and bounds: a second browser attaches only in *)
(* behaviours with a short output, shown from the start, without input and *)
(* without a Run that is canceled.                                         *)
EXTENDS WebTTYBridge

ShortOutputs == { << <<{}>>, <<{"root"}>> >> }

(* Lines before, at and after the line that opens the gate or refuses, in  *)
(* one portion and in several.                                             *)
MCOutputs == { << <<{}, {"start"}, {"root"}>>, <<{}>> >>,
               << <<{"root"}, {"start"}, {}>>, <<{"ora"}, {}>>, <<{}>> >>,
               << <<{}>>, <<{}, {"ora", "root"}, {"start"}>> >> } \cup ShortOutputs

PlainOutputs == { << <<{}>> >> }

Shown == \A i \in Session : out[i].pc # "none" => out[i].open

MCNext ==
  /\ Next
  /\ ~Alone' => /\ output \in ShortOutputs /\ inputs' = 0 /\ Shown'
                /\ \A i \in Session : ~canceled'[i]

(* The bounds never stand in the way of a step that is fair: attaching and *)
(* messages are not, and a second Run can always begin with its output     *)
(* shown.                                                                  *)
MCSpec == Init /\ [][MCNext]_vars /\ Fairness
=============================================================================
