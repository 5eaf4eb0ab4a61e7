------------------------------ MODULE MCSelect ------------------------------
(* Select on a small instance: a channel, a rendezvous, a join and a group, *)
(* whose addresses are not in the order of the cases.                       *)
EXTENDS Select

CONSTANTS a, b

\* The first channel has a buffer, the second none.
Room == [c \in Channels |-> IF c = 1 THEN 1 ELSE 0]

\* `a` owns the join and the group.
Lists == [t \in Tasks |->
  IF t = a THEN {<<"block", << <<"receive", 3>>, <<"wait", 2>> >> >>,
                 <<"first", << <<"wait", 2>>, <<"sleep", 1>> >> >>,
                 <<"block", << <<"next", 4>>, <<"send", 1>> >> >>}
  ELSE IF t = b THEN {<<"block", << <<"send", 3>>, <<"receive", 1>> >> >>,
                      <<"else", << <<"send", 1>>, <<"sleep", 0>> >> >>}
  ELSE {<<"block", << <<"receive", 3>>, <<"send", 3>> >> >>,
        <<"block", << <<"receive", 1>>, <<"receive", 3>> >> >>}]

Times == [t \in Tasks |-> IF t = b THEN 1 ELSE 2]
=============================================================================
