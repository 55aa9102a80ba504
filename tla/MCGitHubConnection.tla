-------------------------- MODULE MCGitHubConnection --------------------------
(* GitHubConnection on small instances: repository r in installation i, and  *)
(* again in installation j after the App was installed anew.                 *)
EXTENDS GitHubConnection

Reinstalled == {<<"i", "r">>, <<"j", "r">>}
Installed == {<<"i", "r">>}

Delivery(id, installation, repository, state) ==
    [id |-> id, installation |-> installation, repository |-> repository, state |-> state]

Suspended == Delivery(1, "i", Whole, "SUSPENDED")
Removed == Delivery(2, "i", "r", "REPOSITORY_ACCESS_REMOVED")
Unsuspended == Delivery(3, "i", Whole, "VERIFICATION_REQUIRED")

SuspendedOnly == {Suspended}
SuspendedAndBack == {Suspended, Unsuspended}
ThreeSignals == {Suspended, Removed, Unsuspended}

KeySymmetry == Permutations(Keys)
===============================================================================
