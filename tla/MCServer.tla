------------------------------ MODULE MCServer ------------------------------
(***************************************************************************)
(* Instances of Server.  The prefix of an error is the two bytes E and :,  *)
(* and every other byte is a t.  One command line of each kind:            *)
(*   empty   nothing was sent, the usage is printed                        *)
(*   quiet   setvoltage that works: no message at all                      *)
(*   usage   an unknown option: an error, then the usage                   *)
(*   list    a line and then an error, as a constraint script prints       *)
(*   long    an answer that the buffer cannot hold, with an error across   *)
(*           its end                                                       *)
(*   leaky   setclock on the 8A34001: opens the bus, does not close it     *)
(***************************************************************************)
EXTENDS Server

CONSTANTS k1, k2

MCPrefix == <<"E", ":">>
MCFailed == MCPrefix
MCOutput ==
  [c \in Commands |->
     CASE c \in {"empty", "leaky"} -> <<<<"t">>>>
       [] c = "quiet" -> <<>>
       [] c = "usage" -> <<MCPrefix, <<"t">>>>
       [] c = "list"  -> <<<<"t">>, MCPrefix>>
       [] c = "long"  -> <<<<"t", "t", "t">>, MCPrefix>>]
MCOpens == [c \in Commands |-> IF c \in {"leaky", "list"} THEN 1 ELSE 0]
MCLeaks == [c \in Commands |-> IF c = "leaky" THEN 1 ELSE 0]

=============================================================================
