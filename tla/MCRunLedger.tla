---------------------------- MODULE MCRunLedger ----------------------------
(***************************************************************************)
(* RunLedger on a small instance: a bounded number of entries and crashes. *)
(***************************************************************************)
EXTENDS RunLedger, TLC

CONSTANTS
    MaxEntries,  \* no append is called once the file has this many lines
    MaxCrashes   \* processes that may die in one behaviour

VARIABLE crashes

mcvars == <<vars, crashes>>

MCEvents == {[event_type |-> "promotion_decision"], [event_type |-> "final_decision"]}
MCLabels == {"promotion_decision"}

MCInit == Init /\ crashes = 0

MCBegin(p) ==
    \/ /\ Len(lines) < MaxEntries
       /\ \E e \in Events : CallAppend(p, e)
    \/ \E label \in Labels : CallAnchor(p, label)

MCCrash(p) == crashes < MaxCrashes /\ crashes' = crashes + 1 /\ Crash(p)

MCNext ==
    \E p \in Procs :
        \/ (MCBegin(p) \/ Step(p) \/ Propagate(p)) /\ UNCHANGED crashes
        \/ MCCrash(p)

MCSpec ==
    /\ MCInit
    /\ [][MCNext]_mcvars
    /\ \A p \in Procs : WF_mcvars((Step(p) \/ Propagate(p)) /\ UNCHANGED crashes)
=============================================================================
