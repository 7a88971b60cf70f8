----------------------------- MODULE MCDispatch -----------------------------
(* Values for the runs of Dispatch: a command, and a rule of each sort. *)
EXTENDS Dispatch

CONSTANTS c1, r1, r2, r3

Actions   == [r \in {r1, r2, r3} |->
                IF r = r1 THEN "llm" ELSE IF r = r2 THEN "send-text" ELSE "run-ability"]
Cooldowns == [s \in {c1, r1, r2, r3} |-> IF s = r3 THEN 0 ELSE 1]
Chat   == [cmd |-> None, rules |-> <<>>, collect |-> TRUE]
Order  == [cmd |-> c1, rules |-> <<>>, collect |-> TRUE]
Gift   == [cmd |-> None, rules |-> <<r1, r2>>, collect |-> TRUE]
System == [cmd |-> None, rules |-> <<r3>>, collect |-> FALSE]
AllKinds == {Chat, Order, Gift, System}
AllFaults == {"routeThrows"}
=============================================================================
