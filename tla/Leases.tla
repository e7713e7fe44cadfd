------------------------------- MODULE Leases -------------------------------
(***************************************************************************)
(* What a pool of connections promises to those who use it, without        *)
(* queues, sessions or losses: a connection is with nobody or with one     *)
(* user, a user has one connection at most, and a connection changes hands *)
(* only by being returned, though it may be passed on in the same step.    *)
(***************************************************************************)
CONSTANTS Resources, Users

VARIABLE holders    \* who uses a resource

Init == holders = [r \in Resources |-> {}]

Free(h, r, u) == h[r] = {} /\ \A s \in Resources : u \notin h[s]

Lease(r, u) == Free(holders, r, u) /\ holders' = [holders EXCEPT ![r] = {u}]

Return(r) == holders[r] # {} /\ holders' = [holders EXCEPT ![r] = {}]

Handover(r, s, u) ==
    /\ holders[r] # {} /\ u \notin holders[r]
    /\ LET returned == [holders EXCEPT ![r] = {}]
       IN  Free(returned, s, u) /\ holders' = [returned EXCEPT ![s] = {u}]

Next ==
    \E r \in Resources :
        \/ Return(r)
        \/ \E u \in Users : Lease(r, u) \/ \E s \in Resources : Handover(r, s, u)

Spec == Init /\ [][Next]_holders
=============================================================================
