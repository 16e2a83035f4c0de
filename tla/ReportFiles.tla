---------------------------- MODULE ReportFiles ----------------------------
(***************************************************************************)
(* The report files of StorageManager (storage/StorageManager.cpp): the    *)
(* directory /data/misc/stats-data, where a file is named by the wall      *)
(* second it was written in, the config and whether it is local history.   *)
(*                                                                         *)
(* A file is [sec, key, hist, bytes, data, full, told]: the first three    *)
(* are its name, "data" the events its report holds.  "full" (the run of   *)
(* statsd that wrote the reports of all configs at once, or 0) and "told"  *)
(* (the owner was sent a broadcast since) are history for the properties.  *)
(*                                                                         *)
(* The parameter "disk" says whether file operations work: "ok"; "full",   *)
(* files can be opened but not written; "readOnly", they cannot be opened  *)
(* for writing, removed or renamed; "unreadable", they cannot be read.     *)
(* The code logs a failure and goes on.                                    *)
(***************************************************************************)
EXTENDS Integers, FiniteSets, FiniteSetsExt

(***************************************************************************)
(* kMaxFileNumber, kMaxFileSize, kMaxAgeSecond, kMaxLocalHistoryAgeSecond. *)
(***************************************************************************)
CONSTANTS MaxFileNumber, MaxFileSize, MaxAge, MaxHistoryAge

Name(f) == <<f.sec, f.key, f.hist>>

\* A report without events still has a header and so a size.
Bytes(data) == 1 + Cardinality(data)

TotalSize(files) == MapThenSumSet(LAMBDA f : f.bytes, files)

\* Non-history before history, younger before older, then the larger name:
\* the order the last of which is removed first.
SortedBefore(f, g) ==
    IF f.hist # g.hist THEN g.hist
    ELSE IF f.sec # g.sec THEN f.sec > g.sec
    ELSE f.key > g.key

TooOld(f, wall) ==
    \/ wall - f.sec > MaxAge
    \/ f.hist /\ wall - f.sec > MaxHistoryAge

WithinLimits(files) ==
    /\ Cardinality(files) <= MaxFileNumber
    /\ TotalSize(files) <= MaxFileSize

\* Old files go first, then the last of the sorted ones until the rest fits.
trimToFit(files, wall) ==
    LET young == {f \in files : ~TooOld(f, wall)}
        upTo(f) == {g \in young : g = f \/ SortedBefore(g, f)}
        prefixes == {{}} \union {upTo(f) : f \in young}
    IN  CHOOSE kept \in prefixes :
            /\ WithinLimits(kept)
            /\ \A other \in prefixes : WithinLimits(other) => other \subseteq kept

(***************************************************************************)
(* The file is opened, and so counted, before the directory is trimmed: it *)
(* may itself be removed, and is then written to no name.  It is opened    *)
(* without O_TRUNC: a shorter report leaves the tail of a longer one of    *)
(* the same name behind it, and the file cannot be parsed any more.  So    *)
(* does a write that fails half way.                                       *)
(***************************************************************************)
writeFile(files, sec, key, hist, full, data, wall, disk) ==
    LET same == {f \in files : Name(f) = <<sec, key, hist>>}
        empty == [sec |-> sec, key |-> key, hist |-> hist, bytes |-> 0,
                  data |-> {}, full |-> full, told |-> FALSE]
        trimmed == trimToFit(IF same = {} THEN files \union {empty} ELSE files, wall)
        opened == {f \in trimmed : Name(f) = <<sec, key, hist>>}
        written(f) == IF f.bytes > Bytes(data) \/ disk = "full"
                      THEN [empty EXCEPT !.bytes = f.bytes]
                      ELSE [empty EXCEPT !.bytes = Bytes(data), !.data = data]
    IN  IF disk = "readOnly" THEN files
        ELSE (trimmed \ opened) \union {written(f) : f \in opened}

hasConfigMetricsReport(files, key) ==
    \E f \in files : f.key = key /\ ~f.hist

(***************************************************************************)
(* The reports of a config are read; then, whether that worked or not,     *)
(* removed, or, for an owner whose config keeps a local history, renamed   *)
(* over any history of that second.                                        *)
(***************************************************************************)
Read(files, key, isAdb) ==
    {f \in files : f.key = key /\ (f.hist => isAdb)}

appendConfigMetricsReport(files, key, erase, isAdb, disk) ==
    LET read == Read(files, key, isAdb)
        renamed == {[f EXCEPT !.hist = TRUE] : f \in read}
    IN  CASE disk = "readOnly" -> files
          [] erase -> files \ read
          [] isAdb -> files
          [] OTHER -> {f \in files \ read : Name(f) \notin {Name(r) : r \in renamed}}
                      \union renamed
=============================================================================
