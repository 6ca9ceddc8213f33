------------------------ MODULE MCPromotionCommands ------------------------
(***************************************************************************)
(* PromotionCommands on small instances: a bounded number of crashes and   *)
(* of runs of bind-freeze.                                                 *)
(***************************************************************************)
EXTENDS PromotionCommands, TLC

CONSTANTS
    MaxCrashes,  \* processes that may die in one behaviour
    MaxBinds     \* runs of bind-freeze in one behaviour

VARIABLES crashes, binds

mcvars == <<vars, crashes, binds>>

MCInit == Init /\ crashes = 0 /\ binds = 0

MCCrash(p) == crashes < MaxCrashes /\ crashes' = crashes + 1 /\ Crash(p)

MCBindFreeze(p) == binds < MaxBinds /\ binds' = binds + 1 /\ BindFreeze(p)

MCNext ==
    \E p \in Procs :
        \/ (BeginDecisions(p) \/ CommandStep(p)) /\ UNCHANGED <<crashes, binds>>
        \/ MCBindFreeze(p) /\ UNCHANGED crashes
        \/ MCCrash(p) /\ UNCHANGED binds

MCSpec ==
    /\ MCInit
    /\ [][MCNext]_mcvars
    /\ \A p \in Procs :
           WF_mcvars(CommandStep(p) /\ UNCHANGED <<crashes, binds>>)

Exchangeable == Permutations(Procs) \cup Permutations(Paths)
=============================================================================
