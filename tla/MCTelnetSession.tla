-------------------------- MODULE MCTelnetSession --------------------------
(* Packets that cut lines in all ways, with and without an address: with   *)
(* spaces and with the digit "d", with more digits than a word has, lines  *)
(* longer than the buffer, of digits and of spaces, several dumps of which *)
(* the last wraps around, and one chain of pbufs.                          *)
EXTENDS TelnetSession

P(s) == [first |-> s, rest |-> <<>>]

MCPackets ==
  {P(<<"d">>), P(<<"1", "n">>), P(<<"d", "d", "1", "n">>),
   P(<<"d", " ", "1", "d">>), P(<<"1", "n", "d", "n">>),
   P(<<"x", "n", "d", " ", " ", " ", " ", "n">>),
   [first |-> <<"d", "n", "d", "n", "d", "n", "d", "1">>, rest |-> <<"n">>]}
=============================================================================
