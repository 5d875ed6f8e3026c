------------------------------ MODULE MCCollector ------------------------------
\* Two processes; one server with a cabinet whose load answer always raises, one behind it
\* and a simulated one.
EXTENDS Collector
CONSTANTS p1, p2, one
MCCabinetsOf == [s \in {one} |-> <<"bad", "behind", "sim">>]
MCEVERY == [t \in {"alarms", "load", "reconcile"} |-> IF t = "reconcile" THEN 3 ELSE 2]
MCServerTasks == <<"alarms">>
MCCabinetTasks == <<"load", "reconcile">>
MCRaises == {<<"load", "bad">>}
=============================================================================
