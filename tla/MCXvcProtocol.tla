--------------------------- MODULE MCXvcProtocol ---------------------------
(***************************************************************************)
(* Instances of XvcProtocol for TLC.  The command lists contain every      *)
(* command, vectors that end inside and at the end of a byte, the longest  *)
(* and a too long vector, an empty one, and vector bytes that look like    *)
(* the beginning of a command.                                             *)
(***************************************************************************)
EXTENDS XvcProtocol

Getinfo == [kind |-> "getinfo"]
Settck == [kind |-> "settck", period |-> 100]
ShiftNone == [kind |-> "shift", bits |-> 0, tms |-> <<>>, tdi |-> <<>>]
ShiftByte == [kind |-> "shift", bits |-> 5, tms |-> <<115>>, tdi |-> <<103>>]
ShiftLong ==
  [kind |-> "shift", bits |-> 32,
   tms |-> <<115, 104, 105, 102>>, tdi |-> <<1, 2, 3, 4>>]
ShiftTooLong ==
  [kind |-> "shift", bits |-> 33,
   tms |-> <<1, 2, 3, 4, 5>>, tdi |-> <<1, 2, 3, 4, 5>>]
Junk == [kind |-> "junk", text |-> <<115, 104, 111>>]

MCSessions ==
  {<<a, b>> : a \in {Getinfo, Settck, ShiftNone, ShiftByte, ShiftLong},
              b \in {Getinfo, Settck, ShiftNone, ShiftByte, ShiftLong,
                     ShiftTooLong, Junk}}
=============================================================================
