------------------------------ MODULE MCReports ------------------------------
(***************************************************************************)
(* Small instances of Reports: every world has its own kinds of steps, so  *)
(* that each can go deep.                                                  *)
(***************************************************************************)
EXTENDS Reports

Plain == [valid |-> TRUE, metrics |-> TRUE, report |-> TRUE, persist |-> FALSE, ttl |-> 0,
          allow |-> {}, pull |-> {}]

Persistent == [Plain EXCEPT !.persist = TRUE]

Expiring == [Plain EXCEPT !.ttl = 2]

Broken == [Plain EXCEPT !.valid = FALSE]

Silent == [Plain EXCEPT !.report = FALSE]

Empty == [Silent EXCEPT !.metrics = FALSE]

Scenario(cs, apps, kinds, maxSteps, maxNow) ==
    [configs |-> cs, apps |-> apps, kinds |-> kinds, maxSteps |-> maxSteps, maxNow |-> maxNow]

\* Reports are written, fetched and kept as history.
Fetching == Scenario(<<{Persistent, Plain}>>, {},
                     {"event", "getData", "adb", "write", "stop"}, 5, 3)

\* Configs expire, and the system server dies.
Resetting == Scenario(<<{Expiring}>>, {}, {"event", "write", "restart"}, 5, 5)

\* statsd is stopped too, and the clock is set.
Stopping == Scenario(<<{Expiring}>>, {},
                     {"event", "write", "restart", "stop", "clock"}, 4, 5)

\* Configs come and go, some of them refused or without reports.
Updating == Scenario(<<{Plain, Silent, Broken}>>, {},
                     {"event", "update", "remove", "getData", "crash"}, 5, 3)

\* The owner is told of reports.
Telling == Scenario(<<{Plain}>>, {},
                    {"event", "write", "receiver", "getData", "crash"}, 5, 4)

\* Two configs report the changes of apps.
Changing == Scenario(<<{Plain}, {Plain, Empty}>>, [uid : {10}, pkg : {"p"}],
                     {"install", "uninstall", "getData", "remove"}, 5, 4)

\* The lists of log sources follow the apps.
Listing == Scenario(<<{[Plain EXCEPT !.allow = {"p"}], [Plain EXCEPT !.pull = {"p"}]}>>,
                    [uid : {10, 11}, pkg : {"p"}],
                    {"install", "uninstall", "snapshot", "update"}, 5, 2)

\* File operations fail.
Failing == Scenario(<<{Persistent, Plain}>>, {},
                    {"event", "getData", "adb", "write", "restart", "disk"}, 5, 3)

MCDefs == {Fetching, Failing, Resetting, Stopping, Updating, Telling, Changing, Listing}
=============================================================================
