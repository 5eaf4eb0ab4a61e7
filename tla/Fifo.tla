-------------------------------- MODULE Fifo --------------------------------
(***************************************************************************)
(* What a channel promises (std.channel, language 11.13): the values sent  *)
(* stand in one line, in the order they came; a receiver gets the first of *)
(* it; and a value leaves it otherwise only because its send did not end,  *)
(* or nobody is left to take it.                                           *)
(***************************************************************************)
EXTENDS Naturals, Sequences, Sublist

CONSTANTS Values

NoValue == <<>>

VARIABLES
  line, \* the values sent and not received
  last  \* the value received last

Init == line = <<>> /\ last = NoValue

Send(v) == line' = Append(line, v) /\ UNCHANGED last

Receive ==
  /\ line # <<>>
  /\ line' = Tail(line)
  /\ last' = Head(line)

\* A value handed to a receiver that waits.
Hand(v) ==
  /\ line = <<>>
  /\ last' = v
  /\ UNCHANGED line

Withdraw ==
  /\ \E kept \in SUBSET (1 .. Len(line)) : line' = Sublist(line, kept)
  /\ UNCHANGED last

Next == (\E v \in Values : Send(v) \/ Hand(v)) \/ Receive \/ Withdraw

Spec == Init /\ [][Next]_<<line, last>>
=============================================================================
