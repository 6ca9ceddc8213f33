----------------------------- MODULE AppendLog -----------------------------
(***************************************************************************)
(* What RunLedger.append promises its callers, without files or locks: a   *)
(* call takes effect in one step, exactly once if it returns, at most once *)
(* if it raises or its process dies, and nothing recorded ever changes.    *)
(***************************************************************************)
EXTENDS Sequences

CONSTANTS Procs, Events

VARIABLES
    log,       \* the recorded events, oldest first
    requests   \* requests[p]: the event p asked to append; {} when none

vars == <<log, requests>>

Init ==
    /\ log = <<>>
    /\ requests = [p \in Procs |-> {}]

Request(p, e) ==
    /\ requests[p] = {}
    /\ requests' = [requests EXCEPT ![p] = {e}]
    /\ UNCHANGED log

\* The call takes effect and returns.
Commit(p) ==
    \E e \in requests[p] :
        /\ log' = Append(log, e)
        /\ requests' = [requests EXCEPT ![p] = {}]

\* The call raises, or its process dies, before it took effect.
Withdraw(p) ==
    /\ requests[p] # {}
    /\ requests' = [requests EXCEPT ![p] = {}]
    /\ UNCHANGED log

Next ==
    \E p \in Procs :
        \/ \E e \in Events : Request(p, e)
        \/ Commit(p)
        \/ Withdraw(p)

Spec == Init /\ [][Next]_vars
=============================================================================
