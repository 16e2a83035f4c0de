------------------------------- MODULE UidMap -------------------------------
(***************************************************************************)
(* UidMap (packages/UidMap.cpp): the apps of the device, the changes that  *)
(* reports still have to tell, and the time of each config's last report.  *)
(*                                                                         *)
(* A map m is [apps, deletedApps, changes, last]: "apps" maps an app, that *)
(* is a [uid, pkg], to its "deleted" flag; "changes" is mChanges, oldest   *)
(* first, with "n" numbering the changes of the history; "last" is         *)
(* mLastUpdatePerConfigKey.  Versions and installers are left out.         *)
(***************************************************************************)
EXTENDS Integers, Sequences, SequencesExt, FiniteSetsExt

(***************************************************************************)
(* kMaxBytesUsedUidMap in change records, and kMaxDeletedAppsInUidMap.     *)
(***************************************************************************)
CONSTANTS MaxChanges, MaxDeletedApps

Without(f, x) == [y \in DOMAIN f \ {x} |-> f[y]]

With(f, x, v) == [y \in DOMAIN f \union {x} |-> IF y = x THEN v ELSE f[y]]

EmptyUidMap == [apps |-> <<>>, deletedApps |-> <<>>, changes |-> <<>>, last |-> <<>>]

getAppUid(m, pkg) ==
    {a.uid : a \in {b \in DOMAIN m.apps : b.pkg = pkg /\ ~m.apps[b]}}

\* The oldest changes make room for the newest.
ensureBytesUsedBelowLimit(changes) ==
    SubSeq(changes, 1 + Max({0, Len(changes) - MaxChanges}), Len(changes))

\* A listed app that was deleted before stays deleted; the others are as listed.
updateMap(m, listed) ==
    [m EXCEPT !.apps = [a \in listed |-> a \in DOMAIN m.apps /\ m.apps[a]],
              !.changes = ensureBytesUsedBelowLimit(m.changes)]

\* Only an app that is known, installed or deleted, is announced to the listener.
Announces(m, app) == app \in DOMAIN m.apps

updateApp(m, ts, n, app) ==
    [m EXCEPT !.apps = With(m.apps, app, FALSE),
              !.changes = ensureBytesUsedBelowLimit(
                  Append(m.changes, [n |-> n, ts |-> ts, app |-> app, deletion |-> FALSE]))]

\* The app leaves the map for good when too many were deleted after it.
removeApp(m, ts, n, app) ==
    LET removed == app \in DOMAIN m.apps /\ ~m.apps[app]
        marked == IF removed THEN With(m.apps, app, TRUE) ELSE m.apps
        queue == IF removed THEN Append(m.deletedApps, app) ELSE m.deletedApps
        over == Len(queue) > MaxDeletedApps
    IN  [m EXCEPT !.apps = IF over THEN Without(marked, Head(queue)) ELSE marked,
                  !.deletedApps = IF over THEN Tail(queue) ELSE queue,
                  !.changes = ensureBytesUsedBelowLimit(
                      Append(m.changes,
                             [n |-> n, ts |-> ts, app |-> app, deletion |-> TRUE]))]

OnConfigUpdated(m, key) == [m EXCEPT !.last = With(m.last, key, -1)]

OnConfigRemoved(m, key) == [m EXCEPT !.last = Without(m.last, key)]

getMinimumTimestampNs(last) ==
    IF DOMAIN last = {} THEN 0 ELSE Min({last[k] : k \in DOMAIN last})

\* The changes a report of the config tells.
ChangesFor(m, key) == SelectSeq(m.changes, LAMBDA c : c.ts > m.last[key])

\* Faulty: what one config has been told is taken as told to all.
Told_ByAny(m, last) ==
    SelectSeq(m.changes, LAMBDA c : c.ts >= Max({last[k] : k \in DOMAIN last}))

\* The changes left once the report times are "last".
Told(m, last) ==
    LET cutoff == getMinimumTimestampNs(last)
    IN  IF cutoff > getMinimumTimestampNs(m.last)
        THEN SelectSeq(m.changes, LAMBDA c : c.ts >= cutoff)
        ELSE m.changes

appendUidMap(m, ts, key) ==
    LET last == With(m.last, key, ts)
    IN  [m EXCEPT !.last = last, !.changes = Told(m, last)]
=============================================================================
