--------------------------- MODULE MCStatsdClients ---------------------------
EXTENDS StatsdClients
MCKinds == <<"puller", "dataFetch", "subscriber">>
MCDefs == {
   [side |-> "java", starts |-> 2, calm |-> 0, calls |-> 1, packages |-> 0, boots |-> FALSE,
    alarms |-> FALSE, days |-> 0],
   [side |-> "java", starts |-> 2, calm |-> 0, calls |-> 0, packages |-> 2, boots |-> FALSE,
    alarms |-> FALSE, days |-> 0],
   [side |-> "java", starts |-> 2, calm |-> 0, calls |-> 0, packages |-> 0, boots |-> TRUE,
    alarms |-> TRUE, days |-> 0],
   [side |-> "java", starts |-> 4, calm |-> 2, calls |-> 0, packages |-> 0, boots |-> FALSE,
    alarms |-> FALSE, days |-> 2],
   [side |-> "native", starts |-> 2, calm |-> 0, calls |-> 0, packages |-> 0, boots |-> FALSE,
    alarms |-> FALSE, days |-> 0]}
=============================================================================
