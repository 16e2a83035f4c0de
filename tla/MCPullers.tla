------------------------------ MODULE MCPullers ------------------------------
(***************************************************************************)
(* Two uids, two configs with one or two metrics, short periods.           *)
(***************************************************************************)
EXTENDS Pullers, PullMerge, TLC

CONSTANTS u1, u2, c1, c2, r1, r2

MCConfigOf == (r1 :> c1) @@ (r2 :> c2)
MCPullUids == (c1 :> <<u1, u2>>) @@ (c2 :> <<u2>>)
MCDefs == {
   [features |-> {"callbacks"}, receivers |-> {r1}, callbacks |-> {u1}, last |-> 5, pulls |-> 0],
   [features |-> {"configs"}, receivers |-> {r1, r2}, callbacks |-> {u2}, last |-> 5, pulls |-> 0],
   [features |-> {"companion"}, receivers |-> {r1, r2}, callbacks |-> {}, last |-> 6, pulls |-> 0],
   [features |-> {"companion"}, receivers |-> {r1}, callbacks |-> {u1}, last |-> 6, pulls |-> 0],
   [features |-> {"events", "configs"}, receivers |-> {r1}, callbacks |-> {u1}, last |-> 5, pulls |-> 1],
   [features |-> {"events", "clear", "shell"}, receivers |-> {r1}, callbacks |-> {u1}, last |-> 5, pulls |-> 2]}

\* Atoms of a uid field or a chain, a state and an amount; uid 2 is isolated,
\* with host 1.  Chains of one or two uids, in every order of lengths; uid
\* fields, one of them without its annotation; and an atom of another tag.
MCHostUid == (1 :> 1) @@ (2 :> 1) @@ (3 :> 3)
MCChains == {<<1>>, <<2>>, <<3>>, <<1, 2>>, <<2, 3>>}
Atom(tag, kind, uids, state, amount) ==
    [tag |-> tag,
     values |-> [i \in DOMAIN uids |-> [pos |-> 1, kind |-> kind, val |-> uids[i]]]
        \o <<[pos |-> 2, kind |-> "other", val |-> state], [pos |-> 3, kind |-> "other", val |-> amount]>>]
MCChainAtoms == {Atom(1, "chain", c, s, a) : c \in MCChains, s \in {1, 2}, a \in {1, 2}}
MCUidAtoms == {Atom(1, "uid", <<u>>, s, 1) : u \in 1..3, s \in {1, 2}}
                \cup {Atom(1, "other", <<2>>, 1, 1), Atom(2, "uid", <<2>>, 1, 1)}
MCMergeInputs ==
    {<<a>> : a \in MCChainAtoms \cup MCUidAtoms}
        \cup {<<a, b, c>> : a \in MCChainAtoms, b \in MCChainAtoms, c \in MCChainAtoms}
        \cup {<<a, b, c>> : a \in MCUidAtoms, b \in MCUidAtoms, c \in MCUidAtoms}

\* Merging the rows of isolated uids into those of their hosts
\* (mapAndMergeIsolatedUidsToHostUid) loses and invents nothing; see
\* MergesRight.  It depends on no variable and is looked at once.
MergeRight == now = Start => MergesRight
=============================================================================
