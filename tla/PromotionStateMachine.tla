----------------------- MODULE PromotionStateMachine -----------------------
(***************************************************************************)
(* vse/state.py as its callers read it: record_promotion and record_final  *)
(* check the replayed state and extend the ledger in one step.  In the     *)
(* code the check and the append are separate; PromotionCommands has the   *)
(* steps and is shown to implement this module when commands do not        *)
(* overlap.                                                                *)
(***************************************************************************)
EXTENDS PromotionHistory

VARIABLE log

\* initialize_formal_run records its entry only in an empty ledger, and the
\* decision commands do not ask for it.
Init == log \in {<<>>, <<InitEntry>>}

record_promotion(attempt, d) ==
    /\ Replayable(log)
    /\ AcceptsPromotion(log, attempt, d)
    /\ log' = Append(log, PromotionEntry(attempt, d))

record_final(d) ==
    /\ Replayable(log)
    /\ AcceptsFinal(log, d)
    /\ log' = Append(log, FinalEntry(log, d))

Next ==
    \/ \E attempt \in 1 .. MaxAttempts, d \in PromotionDecisions :
           record_promotion(attempt, d)
    \/ \E d \in FinalDecisions : record_final(d)

Spec == Init /\ [][Next]_log

-----------------------------------------------------------------------------
(* Properties *)

TypeOK == log \in Seq(HistoryEvents)

\* The machine never writes a ledger it cannot replay, and every entry was
\* right about the state it was decided in.
LogSound == Sound(log)
=============================================================================
