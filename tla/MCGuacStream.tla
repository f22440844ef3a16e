---------------------------- MODULE MCGuacStream ----------------------------
(* Scripts for GuacStream.  Values contain the separators and the digits of *)
(* the protocol, the empty value, and a character of two bytes.            *)
EXTENDS GuacStream

MCByte == {"0", "1", ".", ",", ";", "a", "c3", "a4"}
MCDigits == <<"0", "1">>

a == <<"a">>
dot == <<".">>
semi == <<";">>
one == <<"1">>
umlaut == <<"c3", "a4">>

Counting(b, script) == [countsBytes |-> b, script |-> script]

(* Peers whose instructions are within MaxGuacMessage = 8 bytes each, one  *)
(* whose second instruction is longer than an array of 12 bytes, and one   *)
(* that counts characters.                                                 *)
MCPeers == {
  Counting(TRUE, << << <<a>> >>, << <<semi>>, <<>> >>, << <<one, dot>> >>, << <<>> >> >>),
  Counting(TRUE, << << <<a, semi, one>> >>, << <<dot>> >>, << <<>>, <<a>> >>, << <<one>> >> >>),
  Counting(TRUE, << << <<umlaut>> >>, << <<>> >>, << <<semi, umlaut>> >>, << <<a>>, <<>> >> >>),
  Counting(TRUE, << << <<>> >>, << <<a, semi, one>>, <<a, semi, one>> >> >>),
  Counting(FALSE, << << <<umlaut>> >>, << <<a>> >> >>) }
=============================================================================
