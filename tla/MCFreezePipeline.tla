-------------------------- MODULE MCFreezePipeline --------------------------
(***************************************************************************)
(* FreezePipeline on small instances: a bounded number of deaths and of    *)
(* ledger entries; and the same pipeline in the hands of an operator who   *)
(* keeps trying with the same inputs.                                      *)
(***************************************************************************)
EXTENDS FreezePipeline

CONSTANTS
    MaxCrashes,  \* commands that may die in one behaviour
    MaxEntries   \* a decision is only recorded in a shorter ledger

VARIABLE crashes

mcvars == <<vars, crashes>>

MCInit == Init /\ crashes = 0

MCCrash == crashes < MaxCrashes /\ crashes' = crashes + 1 /\ Crash

MCDecide == Len(ledger) < MaxEntries /\ Decide

MCNext ==
    \/ /\ Start \/ CommandStep \/ MCDecide
       /\ UNCHANGED crashes
    \/ (ProvideAny \/ Train) /\ UNCHANGED crashes
    \/ MCCrash

MCSpec == MCInit /\ [][MCNext]_mcvars

-----------------------------------------------------------------------------
(* An operator who runs every command again until the check passes, and    *)
(* people who provide what is missing once.                                *)

RetryInit ==
    /\ ~Ready
    /\ \E config \in Configs, registry \in Registries :
           InitFormal(config, registry)
    /\ UNCHANGED crashes

RetrySeal ==
    /\ ~Ready
    /\ \E capsules \in Capsules : SealCapsules(capsules)
    /\ UNCHANGED crashes

RetryBind ==
    /\ ~Ready
    /\ \E evaluator \in Evaluators, audit \in Audits, base \in Bases :
           BindFreeze(evaluator, audit, base)
    /\ UNCHANGED crashes

ProvideOnce(f, provided) ==
    /\ files[f] = Absent
    /\ \E x \in provided : Provide(f, x)
    /\ UNCHANGED crashes

GoOn == CommandStep /\ UNCHANGED crashes

DiligentNext ==
    \/ RetryInit \/ RetrySeal \/ RetryBind \/ GoOn
    \/ ProvideOnce("power_receipt", Powers)
    \/ ProvideOnce("human_review_rubric", Evaluators)
    \/ MCDecide /\ UNCHANGED crashes
    \/ MCCrash

DiligentSpec ==
    /\ MCInit
    /\ [][DiligentNext]_mcvars
    /\ SF_mcvars(RetryInit) /\ SF_mcvars(RetrySeal) /\ SF_mcvars(RetryBind)
    /\ WF_mcvars(GoOn)
    /\ WF_mcvars(ProvideOnce("power_receipt", Powers))
    /\ WF_mcvars(ProvideOnce("human_review_rubric", Evaluators))

\* The dead ends are all there is to fear: whatever died when, running the
\* same commands again makes the directory ready, unless it is in one.
ReadyOrDeadEnd == <>[](Ready \/ DeadEnd)
=============================================================================
