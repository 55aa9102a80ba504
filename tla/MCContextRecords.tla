-------------------------- MODULE MCContextRecords --------------------------
(* ContextRecords on small instances: one file of one of two sources,        *)
(* and paths of a few characters.                                           *)
EXTENDS ContextRecords, TLC

ClientSymmetry == Permutations(Clients)

Scope(path, selector, ref) ==
    [facet |-> "code", path |-> path, selector |-> selector, ref |-> ref]

\* The whole project on any ref or on the default branch, the directory of the
\* file, and one whose key LIKE takes for it.
MCScopes == {Scope(<< >>, "ANY_REF", NoRef), Scope(<< >>, "DEFAULT_BRANCH", NoRef),
             Scope(<<"a">>, "ANY_REF", NoRef), Scope(<<"_">>, "ANY_REF", NoRef)}
MCFiles == {<<"s1", "main", <<"a", "/", "f">>>>}
MCSequence == [u \in {"s1", "s2"} \X {"main", "dev"} |->
                  CASE u = <<"s1", "main">> -> 2 [] u = <<"s1", "dev">> -> 1 [] OTHER -> 0]
MCBranch == [s \in {"s1", "s2"} |-> "main"]
MCFacet == [i \in {"i"} |-> "code"]
===============================================================================
