----------------------------- MODULE PullMerge -----------------------------
(***************************************************************************)
(* mapAndMergeIsolatedUidsToHostUid (external/puller_util.cpp): what a     *)
(* puller does with the atoms it got before it caches them.  The rows of   *)
(* an isolated uid are attributed to its host uid, and rows that agree on  *)
(* every field that is not additive become one.                            *)
(*                                                                         *)
(* An atom is a tag and the sequence of its values, each with the position *)
(* of its field and its kind: "chain" for a uid of an attribution chain,   *)
(* which has several values at one position, "uid" for the annotated uid   *)
(* field, "other" for the rest.                                            *)
(***************************************************************************)
EXTENDS Integers, Sequences, SequencesExt, FiniteSetsExt

CONSTANTS TagId,       \* the tag of the atoms asked for
          HostUid,     \* host uid of each isolated uid, itself for others
          MergeInputs, \* sequences of atoms to try
          AdditiveSets \* sets of additive fields to try

\* Where an atom has values of a kind.
IndexRange(atom, kind) == {i \in DOMAIN atom.values : atom.values[i].kind = kind}

ToHost(atom, indices) ==
    [atom EXCEPT !.values = [i \in DOMAIN @ |->
        IF i \in indices THEN [@[i] EXCEPT !.val = HostUid[@]] ELSE @[i]]]

\* Isolated uids become their host's.  Where the chain is, is taken from the
\* first atom: a longer chain in another one is mapped only as far as that.
\* (One so short that the range leaves the atom would end the process.)
MapUids(atom, attrIndexRange) ==
    ToHost(atom, IF attrIndexRange # {} THEN attrIndexRange \cap IndexRange(atom, "chain")
                 ELSE IndexRange(atom, "uid"))

\* The order of the sort: by size, then value by value.
Before(a, b) ==
    LET x == a.values  y == b.values IN
    \/ Len(x) < Len(y)
    \/ /\ Len(x) = Len(y)
       /\ \E i \in DOMAIN x : x[i].val < y[i].val /\ \A j \in 1..(i-1) : x[j].val = y[j].val

\* Faulty: fields that are not additive are not compared.
Mergeable_Size(a, b, additive) == Len(a.values) = Len(b.values)

Mergeable(a, b, additive) ==
    LET x == a.values  y == b.values IN
    Len(x) = Len(y) /\ \A i \in DOMAIN x : x[i].val # y[i].val => x[i].pos \in additive

Merged(a, b, additive) ==
    [b EXCEPT !.values = [i \in DOMAIN @ |->
        IF @[i].pos \in additive THEN [@[i] EXCEPT !.val = @ + a.values[i].val] ELSE @[i]]]

\* Each atom in sorted order is merged into the one after it, or kept.
MergeSorted(data, additive) ==
    LET step(acc, atom) ==
            IF Mergeable(acc.last, atom, additive)
            THEN [acc EXCEPT !.last = Merged(acc.last, atom, additive)]
            ELSE [out |-> Append(acc.out, acc.last), last |-> atom]
        end == FoldLeft(step, [out |-> <<>>, last |-> Head(data)], Tail(data))
    IN Append(end.out, end.last)

\* Without a uid in the first atom nothing is done; an atom of another tag ends
\* the function with the atoms before it mapped and none merged.
mapAndMergeIsolatedUidsToHostUid(data, additive) ==
    LET attrIndexRange == IndexRange(data[1], "chain")
        wrong == {i \in DOMAIN data : data[i].tag # TagId}
        mapped == [i \in DOMAIN data |->
            IF \E j \in wrong : j <= i THEN data[i] ELSE MapUids(data[i], attrIndexRange)]
    IN IF attrIndexRange = {} /\ IndexRange(data[1], "uid") = {} THEN data
       ELSE IF wrong # {} THEN mapped
       ELSE MergeSorted(SortSeq(mapped, Before), additive)

-----------------------------------------------------------------------------
(* The reference: what the rows say, by host.                              *)

ByHost(atom) == ToHost(atom, IndexRange(atom, "chain") \cup IndexRange(atom, "uid"))

\* What an atom says of a host apart from its additive fields, and the total of
\* one of those over the atoms that say it.
Key(atom, additive) == SelectSeq(ByHost(atom).values, LAMBDA v : v.pos \notin additive)
Total(data, key, additive, f) ==
    LET rows == {i \in DOMAIN data : Key(data[i], additive) = key}
        at(i) == CHOOSE j \in DOMAIN data[i].values : data[i].values[j].pos = f
    IN MapThenSumSet(LAMBDA i : data[i].values[at(i)].val, rows)

\* What the function expects of its input: one tag, a uid in the first atom and
\* in the others alike, and no chain longer than the first one's.
Regular(data) ==
    \A i \in DOMAIN data :
        /\ data[i].tag = TagId
        /\ \E kind \in {"chain", "uid"} :
              IndexRange(data[1], kind) # {} /\ IndexRange(data[i], kind) # {}
        /\ IndexRange(data[i], "chain") \subseteq IndexRange(data[1], "chain")

\* Merging loses and invents nothing for a host, whatever the atoms are: for
\* every combination of the other fields, with isolated uids taken as their
\* hosts, each additive field has the same total before and after.  In regular
\* input no isolated uid is left; and where the additive fields are moreover the
\* last ones, as in the atoms that have them, no two rows are left that could be
\* merged.
MergesRight ==
    \A data \in MergeInputs, additive \in AdditiveSets :
        LET out == mapAndMergeIsolatedUidsToHostUid(data, additive)
            keys == {Key(data[i], additive) : i \in DOMAIN data}
        IN /\ {Key(out[i], additive) : i \in DOMAIN out} = keys
           /\ \A k \in keys, f \in additive : Total(out, k, additive, f) = Total(data, k, additive, f)
           /\ Regular(data) =>
                /\ \A i \in DOMAIN out : out[i] = ByHost(out[i])
                /\ (\A v \in Range(data[1].values), f \in additive : v.pos \notin additive => v.pos < f)
                    => Len(out) = Cardinality(keys)
=============================================================================
