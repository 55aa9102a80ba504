-------------------------- MODULE MCSourceIngestion --------------------------
(* SourceIngestion on a small instance: four revisions of up to three files. *)
EXTENDS SourceIngestion

\* a -> b renames p to q; b -> c puts a new p and renames q to r, a path
\* the policy excludes; whatever returns to a is a force push.  A walk of d has
\* one file more than the two references an extraction may draw up.
MCTree ==
    [a |-> {<<"p", "x">>},
     b |-> {<<"q", "x">>},
     c |-> {<<"p", "y">>, <<"r", "x">>},
     d |-> {<<"p", "x">>, <<"q", "y">>, <<"s", "z">>}]
MCAhead == {<<"a", "b">>, <<"a", "c">>, <<"b", "c">>, <<"d", "b">>}
MCRenames == {<<"a", "b", "p", "q">>, <<"b", "c", "q", "r">>}
MCEligible == UNION {MCTree[r] : r \in DOMAIN MCTree} \ {<<"r", "x">>}

Points(r) == [revision |-> r, isDefault |-> TRUE]
Branch(r) == [revision |-> r, isDefault |-> FALSE]

\* Forward, back by a force push, deleted and created anew, no longer the
\* default branch, and from a revision that is too large for one extraction.
Forward == {<<Points("a"), Points("b")>>, <<Points("b"), Points("c")>>}
Rewritten == {<<Points("b"), Points("a")>>, <<Points("b"), Points("REF_DELETED"), Points("c")>>}
Renamed == {<<Points("a"), Branch("a")>>}
Large == {<<Points("d"), Points("b")>>}
All == Forward \cup Rewritten \cup Renamed \cup Large
===============================================================================
