---------------------------- MODULE MCLogDriver -----------------------------
(* An instance of LogDriver: two parsers registered and one of them removed, *)
(* by the GUI thread, by one other thread and from inside the driver's loop. *)
EXTENDS LogDriver

CONSTANTS p1, p2, addFirst, addSecond, removeFirst, gui1, net1

MCParser == {p1, p2}
MCCmd    == {addFirst, addSecond, removeFirst}
MCCaller == {gui1, net1}
MCChange == [c \in MCCmd |->
  CASE c = addFirst    -> [op |-> "append", parser |-> p1]
    [] c = addSecond   -> [op |-> "append", parser |-> p2]
    [] c = removeFirst -> [op |-> "remove", parser |-> p1]]
=============================================================================
