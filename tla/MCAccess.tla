------------------------------ MODULE MCAccess ------------------------------
(* Accounts and Organizations share no variable, so a behaviour that moves one
   of them while the other rests shows all that an interleaving would. *)
EXTENDS Accounts, Organizations

CONSTANTS owner, studio

MCOrgOf == [u \in Users |-> studio]
MCGrant == [u \in Users |->
    [role |-> IF u = owner THEN "OWNER" ELSE "EMPLOYEE", refunds |-> u = owner,
     employee |-> IF u = owner THEN 0 ELSE 1]]
MCPatches == {[name |-> "new"], [employee |-> 2], [role |-> "OWNER", refunds |-> TRUE], [role |-> "EMPLOYEE"]}
MCMaxCalls == [tab |-> 3, rights |-> 3, passwords |-> 4, rest |-> 0]
MCMaxFlows == [onboarding |-> 3, settings |-> 3, hosts |-> 4, visits |-> 1, rest |-> 0]
MCSymmetry ==
    Permutations(Sids) \cup Permutations(Links) \cup Permutations(Calls) \cup Permutations(Flows)

Init ==
    /\ AccountsInit /\ OrganizationsInit
    /\ topic = "rest" <=> matter # "rest"
    /\ topic = "rest" => tab.user = owner
    /\ topic = "tab" => store[cookie].user # owner
    /\ matter # "visits" => visit.storage
    /\ \A o \in Onboarding : org[o].there <=> matter # "onboarding"

Next ==
    \/ topic # "rest" /\ AccountsNext /\ UNCHANGED organizations
    \/ matter # "rest" /\ OrganizationsNext /\ UNCHANGED accounts

Spec == Init /\ [][Next]_<<accounts, organizations>>
=============================================================================
