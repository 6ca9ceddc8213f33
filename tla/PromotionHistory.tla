-------------------------- MODULE PromotionHistory --------------------------
(***************************************************************************)
(* What a ledger says about the experiment: the decisions that can be      *)
(* recorded, the ExperimentState that PromotionStateMachine.state replays  *)
(* from them (vse/state.py), and what makes a ledger unreplayable.         *)
(*                                                                         *)
(* Every entry of one run directory carries the same frozen bindings, so   *)
(* the replay's binding check is constant and left out.  The bootstrap and *)
(* the gates of vse/promotion.py decide `promoted`; here it is an input.   *)
(*                                                                         *)
(* A definition whose name ends in _bug is a slip the code could have had; *)
(* the property named beside it rules it out.                              *)
(***************************************************************************)
EXTENDS Integers, Sequences, FiniteSetsExt

CONSTANTS
    Groups,      \* training_recipe_digest values: one per model group
    Base,        \* base_group_digest, the first champion
    MaxAttempts  \* evolution.maximum_promotion_attempts

ASSUME HistoryAssumption == Base \in Groups /\ MaxAttempts \in Nat

-----------------------------------------------------------------------------
\* A group is never promoted over itself: _common_checks fails the gate with
\* "candidate_is_champion".
Decisions(kind) ==
    {d \in [decision_kind : {kind}, promoted : BOOLEAN,
            candidate : Groups, champion : Groups] :
        d.promoted => d.candidate # d.champion}

PromotionDecisions == Decisions("promotion")
\* The final comparator must be the frozen base checkpoint: the code compares the id
\* and the digest of its checkpoint (promotion.py:273-281), which stand for the group.
FinalDecisions == {d \in Decisions("final") : d.champion = Base}

ExperimentStates ==
    [promotion_attempts : Nat, champion : Groups,
     final_recorded : BOOLEAN, stopped : BOOLEAN]

PromotionEntries ==
    [event_type : {"promotion_decision"}, attempt : Nat \ {0},
     decision : PromotionDecisions]
FinalEntries ==
    [event_type : {"final_decision"}, decision : FinalDecisions,
     state_before : ExperimentStates]
InitEntry == [event_type |-> "formal_run_initialized"]

HistoryEvents == PromotionEntries \cup FinalEntries \cup {InitEntry}

\* TypeOK: attempts are numbered from 0.
PromotionEntry_bug(attempt, d) ==
    [event_type |-> "promotion_decision", attempt |-> attempt - 1, decision |-> d]
PromotionEntry(attempt, d) ==
    [event_type |-> "promotion_decision", attempt |-> attempt, decision |-> d]

-----------------------------------------------------------------------------
(* state() *)

Promotions(log) == {i \in DOMAIN log : log[i].event_type = "promotion_decision"}
Finals(log) == {i \in DOMAIN log : log[i].event_type = "final_decision"}
Promoted(log) == {i \in Promotions(log) : log[i].decision.promoted}

Before(log, i) == SubSeq(log, 1, i - 1)

\* In a replayable log the last attempt number is the number of attempts.
Attempts(log) ==
    IF Promotions(log) = {} THEN 0 ELSE log[Max(Promotions(log))].attempt

Champion(log) ==
    IF Promoted(log) = {} THEN Base ELSE log[Max(Promoted(log))].decision.candidate

FinalRecorded(log) == Finals(log) # {}
Stopped(log) ==
    \/ FinalRecorded(log)
    \/ Promotions(log) # {} /\ Attempts(log) >= MaxAttempts

AttemptsContiguous(log) ==
    \A i \in Promotions(log) : log[i].attempt = Attempts(Before(log, i)) + 1
FinalOnce(log) == \A i, j \in Finals(log) : i = j

\* state() returns instead of raising.
Replayable(log) == AttemptsContiguous(log) /\ FinalOnce(log)

State(log) ==
    [promotion_attempts |-> Attempts(log),
     champion |-> Champion(log),
     final_recorded |-> FinalRecorded(log),
     stopped |-> Stopped(log)]

FinalEntry(log, d) ==
    [event_type |-> "final_decision", decision |-> d, state_before |-> State(log)]

-----------------------------------------------------------------------------
\* The checks of record_promotion and record_final on the replayed state.
\* JudgedAgainstSomeChampion: the comparator is not looked at.
AcceptsPromotion_bug(log, attempt, d) ==
    /\ ~Stopped(log)
    /\ attempt = Attempts(log) + 1
    /\ attempt <= MaxAttempts
AcceptsPromotion(log, attempt, d) ==
    /\ ~Stopped(log)
    /\ attempt = Attempts(log) + 1
    /\ attempt <= MaxAttempts
    /\ d.champion = Champion(log)

\* RepeatsBounded: the final evaluation may be recorded again.
AcceptsFinal_bug(log, d) == d.candidate = Champion(log)
AcceptsFinal(log, d) ==
    /\ ~FinalRecorded(log)
    /\ d.candidate = Champion(log)

-----------------------------------------------------------------------------
(* What a log shows that only the two recording operations extended, one   *)
(* whole operation after the other.                                        *)

\* Every promotion was judged against the champion of its moment.
JudgedAgainstChampion(log) ==
    \A i \in Promotions(log) : log[i].decision.champion = Champion(Before(log, i))

\* The final evaluation closes the experiment: it tests the last champion and
\* no promotion follows it.
FinalClosesRun(log) ==
    \A i \in Finals(log) :
        /\ log[i].decision.candidate = Champion(log)
        /\ \A j \in Promotions(log) : j < i

\* The state_before of the final entry is the state its ledger replays to.
StateBeforeExact(log) ==
    \A i \in Finals(log) : log[i].state_before = State(Before(log, i))

WithinBudget(log) == \A i \in Promotions(log) : log[i].attempt <= MaxAttempts

Sound(log) ==
    /\ Replayable(log)
    /\ JudgedAgainstChampion(log)
    /\ FinalClosesRun(log)
    /\ StateBeforeExact(log)
    /\ WithinBudget(log)
=============================================================================
