------------------------- MODULE PromotionGateProofs -------------------------
(***************************************************************************)
(* For every set of groups and every attempt budget: the ledgers that      *)
(* record_promotion and record_final write replay, number their attempts   *)
(* from 1 within the budget, judge every promotion against the champion of *)
(* its moment, and close with at most one final evaluation of the last     *)
(* champion.  For all tasks, adapter seeds, score tables and thresholds,   *)
(* and for any files of cells: the gates hand the state machine nothing    *)
(* but steps it may take, so its guarantees hold of every ledger they      *)
(* decide; and while no group is scored in two ways, what the promotions   *)
(* gain adds up.                                                           *)
(***************************************************************************)
EXTENDS PromotionGate, SequenceTheorems, WellFoundedInduction, FiniteSetTheorems, TLAPS

-----------------------------------------------------------------------------
(* Max *)

\* The order of the natural numbers as a relation.
LEMMA NatOrder ==
    \E R : /\ IsWellFoundedOn(R, Nat)
           /\ \A t, u \in Nat : u < t => <<u, t>> \in R
<1>1. \A t, u \in Nat : u < t => <<u, t>> \in OpToRel(<, Nat)
    BY DEF OpToRel
<1> QED
    BY <1>1, NatLessThanWellFounded

\* A set of positions of a sequence that is not empty has a last one.
LEMMA LastPosition ==
    ASSUME NEW n \in Nat, NEW S \in SUBSET (1 .. n), S # {}
    PROVE  Max(S) \in S /\ \A i \in S : i <= Max(S)
<1> DEFINE T == {n - i : i \in S}
<1>1. \A i \in S : i \in Nat /\ n - i \in Nat
    OBVIOUS
<1>2. T \in SUBSET Nat /\ T # {}
    BY <1>1
<1>3. \E t \in T : \A u \in T : t <= u
  <2>1. PICK R : /\ IsWellFoundedOn(R, Nat)
                 /\ \A t, u \in Nat : u < t => <<u, t>> \in R
      BY NatOrder
  <2> HIDE DEF T
  <2>2. \E t \in T : \A u \in T : ~(<<u, t>> \in R)
      BY <1>2, <2>1, WFMin
  <2>3. PICK t \in T : \A u \in T : ~(<<u, t>> \in R)
      BY <2>2
  <2>4. \A u \in T : ~(u < t)
      BY <1>2, <2>1, <2>3
  <2>5. t \in Nat /\ \A u \in T : u \in Nat
      BY <1>2
  <2>6. \A u \in T : t <= u
      BY <2>4, <2>5
  <2> QED
      BY <2>6
<1>4. PICK m \in S : \A u \in T : n - m <= u
    BY <1>3
<1>5. \A i \in S : n - m <= n - i
    BY <1>4
<1>6. \A i \in S : m >= i
    BY <1>1, <1>5
<1>7. /\ Max(S) \in S
      /\ \A i \in S : Max(S) >= i
    BY <1>6 DEF Max
<1> QED
    BY <1>1, <1>7

\* The position just added is the last.
LEMMA AddedPosition ==
    ASSUME NEW n \in Nat, NEW S \in SUBSET (1 .. n)
    PROVE  Max(S \cup {n + 1}) = n + 1
<1> DEFINE T == S \cup {n + 1}
<1>1. n + 1 \in Nat /\ T \in SUBSET (1 .. n + 1) /\ T # {}
    OBVIOUS
<1>2. n + 1 \in T /\ \A i \in T : i \in Nat /\ i <= n + 1
    OBVIOUS
<1> HIDE DEF T
<1>3. Max(T) \in T /\ \A i \in T : i <= Max(T)
    BY <1>1, LastPosition
<1>4. Max(T) = n + 1
    BY <1>2, <1>3
<1> QED
    BY <1>4 DEF T

-----------------------------------------------------------------------------
(* How an entry appended to a ledger changes what it replays to *)

LEMMA AppendedEntries ==
    ASSUME NEW ledger \in Seq(HistoryEvents), NEW e \in HistoryEvents
    PROVE  /\ Append(ledger, e) \in Seq(HistoryEvents)
           /\ DOMAIN Append(ledger, e) = 1 .. Len(ledger) + 1
           /\ DOMAIN ledger = 1 .. Len(ledger)
           /\ \A i \in 1 .. Len(ledger) : Append(ledger, e)[i] = ledger[i]
           /\ Append(ledger, e)[Len(ledger) + 1] = e
    BY AppendProperties, LenProperties

LEMMA AppendedBefore ==
    ASSUME NEW ledger \in Seq(HistoryEvents), NEW e \in HistoryEvents
    PROVE  /\ \A i \in 1 .. Len(ledger) :
                  Before(Append(ledger, e), i) = Before(ledger, i)
           /\ Before(Append(ledger, e), Len(ledger) + 1) = ledger
<1> DEFINE new == Append(ledger, e)
<1>1. new \in Seq(HistoryEvents) /\ Len(new) = Len(ledger) + 1 /\ Len(ledger) \in Nat
    BY AppendProperties, LenProperties
<1>2. \A j \in 1 .. Len(ledger) : new[j] = ledger[j]
    BY AppendedEntries
<1> HIDE DEF new
<1>3. ASSUME NEW i \in 1 .. Len(ledger) + 1
      PROVE  Before(new, i) = [j \in 1 .. i - 1 |-> ledger[j]]
    BY <1>1, <1>2 DEF Before
<1>4. ASSUME NEW i \in 1 .. Len(ledger)
      PROVE  Before(ledger, i) = [j \in 1 .. i - 1 |-> ledger[j]]
    BY <1>1 DEF Before
<1>5. ledger = [j \in 1 .. Len(ledger) |-> ledger[j]]
    BY LenProperties
<1>6. Before(new, Len(ledger) + 1) = ledger
    BY <1>1, <1>3, <1>5
<1>7. ASSUME NEW i \in 1 .. Len(ledger) PROVE Before(new, i) = Before(ledger, i)
  <2>1. i \in 1 .. Len(ledger) + 1
      BY <1>1
  <2> QED
      BY <1>3, <1>4, <2>1
<1> QED
    BY <1>6, <1>7 DEF new

LEMMA AppendedPromotion ==
    ASSUME NEW ledger \in Seq(HistoryEvents), NEW e \in PromotionEntries
    PROVE  LET new == Append(ledger, e)
               n == Len(ledger)
           IN  /\ Promotions(new) = Promotions(ledger) \cup {n + 1}
               /\ Finals(new) = Finals(ledger)
               /\ Attempts(new) = e.attempt
               /\ Champion(new) = IF e.decision.promoted THEN e.decision.candidate
                                  ELSE Champion(ledger)
<1> DEFINE new == Append(ledger, e)
           n == Len(ledger)
<1>1. e \in HistoryEvents /\ n \in Nat /\ e.event_type = "promotion_decision"
    BY LenProperties DEF HistoryEvents, PromotionEntries
<1>2. /\ DOMAIN new = 1 .. n + 1 /\ DOMAIN ledger = 1 .. n
      /\ \A i \in 1 .. n : new[i] = ledger[i]
      /\ new[n + 1] = e
    BY <1>1, AppendedEntries
<1> HIDE DEF new, n
<1>3. Promotions(new) = Promotions(ledger) \cup {n + 1}
    BY <1>1, <1>2 DEF Promotions
<1>4. Finals(new) = Finals(ledger)
    BY <1>1, <1>2 DEF Finals
<1>5. /\ Promotions(ledger) \in SUBSET (1 .. n)
      /\ Promoted(ledger) \in SUBSET (1 .. n)
    BY <1>2 DEF Promotions, Promoted
<1>6. Attempts(new) = e.attempt
  <2>1. Max(Promotions(new)) = n + 1
      BY <1>1, <1>3, <1>5, AddedPosition
  <2> QED
      BY <1>2, <1>3, <2>1 DEF Attempts
<1>7. Champion(new) = IF e.decision.promoted THEN e.decision.candidate
                      ELSE Champion(ledger)
  <2>1. CASE e.decision.promoted
    <3>1. Promoted(new) = Promoted(ledger) \cup {n + 1}
        BY <1>1, <1>2, <1>3, <2>1 DEF Promoted, Promotions
    <3>2. Max(Promoted(new)) = n + 1
        BY <1>1, <1>5, <3>1, AddedPosition
    <3> QED
        BY <1>2, <2>1, <3>1, <3>2 DEF Champion
  <2>2. CASE ~e.decision.promoted
    <3>1. Promoted(new) = Promoted(ledger)
        BY <1>1, <1>2, <1>3, <2>2 DEF Promoted, Promotions
    <3>2. Promoted(ledger) # {} => Max(Promoted(ledger)) \in 1 .. n
        BY <1>1, <1>5, LastPosition
    <3> QED
        BY <1>2, <2>2, <3>1, <3>2 DEF Champion
  <2> QED
      BY <2>1, <2>2
<1> QED
    BY <1>3, <1>4, <1>6, <1>7 DEF new, n

LEMMA AppendedFinal ==
    ASSUME NEW ledger \in Seq(HistoryEvents), NEW e \in FinalEntries
    PROVE  LET new == Append(ledger, e)
           IN  /\ Promotions(new) = Promotions(ledger)
               /\ Finals(new) = Finals(ledger) \cup {Len(ledger) + 1}
               /\ Champion(new) = Champion(ledger)
<1> DEFINE new == Append(ledger, e)
           n == Len(ledger)
<1>1. e \in HistoryEvents /\ n \in Nat /\ e.event_type = "final_decision"
    BY LenProperties DEF HistoryEvents, FinalEntries
<1>2. /\ DOMAIN new = 1 .. n + 1 /\ DOMAIN ledger = 1 .. n
      /\ \A i \in 1 .. n : new[i] = ledger[i]
      /\ new[n + 1] = e
    BY <1>1, AppendedEntries
<1> HIDE DEF new, n
<1>3. Promotions(new) = Promotions(ledger)
    BY <1>1, <1>2 DEF Promotions
<1>4. Finals(new) = Finals(ledger) \cup {n + 1}
    BY <1>1, <1>2 DEF Finals
<1>5. Champion(new) = Champion(ledger)
  <2>1. /\ Promoted(ledger) \in SUBSET (1 .. n)
        /\ Promoted(new) = Promoted(ledger)
      BY <1>2, <1>3 DEF Promotions, Promoted
  <2>2. Promoted(ledger) # {} => Max(Promoted(ledger)) \in 1 .. n
      BY <1>1, <2>1, LastPosition
  <2> QED
      BY <1>2, <2>1, <2>2 DEF Champion
<1> QED
    BY <1>3, <1>4, <1>5 DEF new, n

\* The replayed state is a state, in a ledger of well-formed entries.
LEMMA StateTyped ==
    ASSUME NEW ledger \in Seq(HistoryEvents)
    PROVE  State(ledger) \in ExperimentStates
<1>1. DOMAIN ledger = 1 .. Len(ledger) /\ Len(ledger) \in Nat
    BY LenProperties
<1>2. /\ Promotions(ledger) \in SUBSET (1 .. Len(ledger))
      /\ Promoted(ledger) \in SUBSET Promotions(ledger)
    BY <1>1 DEF Promotions, Promoted
<1>3. \A i \in Promotions(ledger) : ledger[i] \in PromotionEntries
  <2> SUFFICES ASSUME NEW i \in Promotions(ledger) PROVE ledger[i] \in PromotionEntries
      OBVIOUS
  <2>1. ledger[i] \in HistoryEvents /\ ledger[i].event_type = "promotion_decision"
      BY <1>1, ElementOfSeq DEF Promotions
  <2> QED
      BY <2>1 DEF HistoryEvents, FinalEntries, InitEntry
<1>4. Attempts(ledger) \in Nat
  <2>1. Promotions(ledger) # {} => Max(Promotions(ledger)) \in Promotions(ledger)
      BY <1>1, <1>2, LastPosition
  <2> QED
      BY <1>3, <2>1 DEF Attempts, PromotionEntries
<1>5. Champion(ledger) \in Groups
  <2>1. Promoted(ledger) # {} => Max(Promoted(ledger)) \in Promotions(ledger)
      BY <1>1, <1>2, LastPosition
  <2> QED
      BY <1>3, <2>1, HistoryAssumption
      DEF Champion, PromotionEntries, PromotionDecisions, Decisions
<1> QED
    BY <1>4, <1>5 DEF State, ExperimentStates, FinalRecorded, Stopped

-----------------------------------------------------------------------------
(* The invariant: LogSound is inductive for well-formed ledgers *)

IInv == TypeOK /\ LogSound

LEMMA InitIInv == Init => IInv
<1> SUFFICES ASSUME Init PROVE IInv
    OBVIOUS
<1>1. InitEntry \in HistoryEvents
    BY DEF HistoryEvents
<1>2. log \in Seq(HistoryEvents)
  <2>1. CASE log = <<>>
      BY <2>1, EmptySeq
  <2>2. CASE log = <<InitEntry>>
      BY <1>1, <2>2
  <2> QED
      BY <2>1, <2>2 DEF Init
<1>3. Promotions(log) = {} /\ Finals(log) = {}
    BY DEF Init, Promotions, Finals, InitEntry
<1> QED
    BY <1>2, <1>3 DEF IInv, TypeOK, LogSound, Sound, Replayable, AttemptsContiguous,
        FinalOnce, JudgedAgainstChampion, FinalClosesRun, StateBeforeExact, WithinBudget

LEMMA PromotionPreserves ==
    ASSUME IInv, NEW attempt \in 1 .. MaxAttempts, NEW d \in PromotionDecisions,
           record_promotion(attempt, d)
    PROVE  IInv'
<1> DEFINE e == PromotionEntry(attempt, d)
           n == Len(log)
<1>1. /\ e \in PromotionEntries /\ e \in HistoryEvents
      /\ e.attempt = attempt /\ e.decision = d
    BY HistoryAssumption DEF PromotionEntry, PromotionEntries, HistoryEvents
<1>2. log \in Seq(HistoryEvents) /\ n \in Nat /\ log' = Append(log, e)
    BY DEF IInv, TypeOK, record_promotion
<1>3. log' \in Seq(HistoryEvents)
    BY <1>1, <1>2, AppendedEntries
<1>4. /\ DOMAIN log = 1 .. n
      /\ \A i \in 1 .. n : log'[i] = log[i]
      /\ log'[n + 1] = e
    BY <1>1, <1>2, AppendedEntries
<1>5. /\ \A i \in 1 .. n : Before(log', i) = Before(log, i)
      /\ Before(log', n + 1) = log
    BY <1>1, <1>2, AppendedBefore
<1>6. /\ Promotions(log') = Promotions(log) \cup {n + 1}
      /\ Finals(log') = Finals(log)
    BY <1>1, <1>2, AppendedPromotion
<1>7. Promotions(log) \subseteq 1 .. n /\ Finals(log) = {}
    BY <1>4 DEF Promotions, record_promotion, AcceptsPromotion, Stopped, FinalRecorded
<1> HIDE DEF e, n
<1>8. Replayable(log')
    BY <1>1, <1>4, <1>5, <1>6, <1>7
    DEF Replayable, AttemptsContiguous, FinalOnce, record_promotion, AcceptsPromotion
<1>9. JudgedAgainstChampion(log')
    BY <1>1, <1>4, <1>5, <1>6, <1>7
    DEF IInv, LogSound, Sound, JudgedAgainstChampion, record_promotion, AcceptsPromotion
<1>10. WithinBudget(log')
    BY <1>1, <1>4, <1>6, <1>7 DEF IInv, LogSound, Sound, WithinBudget,
        record_promotion, AcceptsPromotion
<1>11. FinalClosesRun(log') /\ StateBeforeExact(log')
    BY <1>6, <1>7 DEF FinalClosesRun, StateBeforeExact
<1> QED
    BY <1>3, <1>8, <1>9, <1>10, <1>11 DEF IInv, TypeOK, LogSound, Sound

LEMMA FinalPreserves ==
    ASSUME IInv, NEW d \in FinalDecisions, record_final(d)
    PROVE  IInv'
<1> DEFINE e == FinalEntry(log, d)
           n == Len(log)
<1>0. log \in Seq(HistoryEvents) /\ n \in Nat /\ log' = Append(log, e)
    BY DEF IInv, TypeOK, record_final
<1>1. e \in FinalEntries /\ e \in HistoryEvents
    BY <1>0, StateTyped DEF FinalEntry, FinalEntries, HistoryEvents
<1>2. e.decision = d /\ e.state_before = State(log)
    BY DEF FinalEntry
<1>3. log' \in Seq(HistoryEvents)
    BY <1>0, <1>1, AppendedEntries
<1>4. /\ DOMAIN log = 1 .. n
      /\ \A i \in 1 .. n : log'[i] = log[i]
      /\ log'[n + 1] = e
    BY <1>0, <1>1, AppendedEntries
<1>5. /\ \A i \in 1 .. n : Before(log', i) = Before(log, i)
      /\ Before(log', n + 1) = log
    BY <1>0, <1>1, AppendedBefore
<1>6. /\ Promotions(log') = Promotions(log)
      /\ Finals(log') = Finals(log) \cup {n + 1}
      /\ Champion(log') = Champion(log)
    BY <1>0, <1>1, AppendedFinal
<1>7. Promotions(log) \subseteq 1 .. n /\ Finals(log) = {}
    BY <1>4 DEF Promotions, record_final, AcceptsFinal, FinalRecorded
<1> HIDE DEF e, n
<1>8. Replayable(log')
    BY <1>4, <1>5, <1>6, <1>7
    DEF Replayable, AttemptsContiguous, FinalOnce, record_final
<1>9. JudgedAgainstChampion(log') /\ WithinBudget(log')
    BY <1>4, <1>5, <1>6, <1>7
    DEF IInv, LogSound, Sound, JudgedAgainstChampion, WithinBudget
<1>10. FinalClosesRun(log')
    BY <1>0, <1>2, <1>4, <1>6, <1>7 DEF FinalClosesRun, record_final, AcceptsFinal
<1>11. StateBeforeExact(log')
    BY <1>2, <1>4, <1>5, <1>6, <1>7 DEF StateBeforeExact
<1> QED
    BY <1>3, <1>8, <1>9, <1>10, <1>11 DEF IInv, TypeOK, LogSound, Sound

\* record_promotion and record_final keep the invariant.
THEOREM Inductive == Spec => []IInv
<1>1. IInv /\ [Next]_log => IInv'
  <2> SUFFICES ASSUME IInv, [Next]_log PROVE IInv'
      OBVIOUS
  <2>1. CASE UNCHANGED log
      BY <2>1 DEF IInv, TypeOK, LogSound
  <2>2. ASSUME NEW attempt \in 1 .. MaxAttempts, NEW d \in PromotionDecisions,
               record_promotion(attempt, d)
        PROVE  IInv'
      BY <2>2, PromotionPreserves
  <2>3. ASSUME NEW d \in FinalDecisions, record_final(d) PROVE IInv'
      BY <2>3, FinalPreserves
  <2> QED
      BY <2>1, <2>2, <2>3 DEF Next
<1> QED
    BY InitIInv, <1>1, PTL DEF Spec

\* Every ledger the state machine writes holds well-formed entries, whose
\* attempts are counted from 1.
THEOREM PromotionTypeCorrect == Spec => []TypeOK
<1>1. IInv => TypeOK
    BY DEF IInv
<1> QED
    BY Inductive, <1>1, PTL

\* The state machine of vse/state.py never records what it cannot replay:
\* its checks before each append keep the ledger sound for ever.
THEOREM PromotionLogSound == Spec => []LogSound
<1>1. IInv => LogSound
    BY DEF IInv
<1> QED
    BY Inductive, <1>1, PTL

-----------------------------------------------------------------------------
(* The gates in front of the state machine *)

\* A decision that was judged with no failure is not about one group alone.
LEMMA PromotionJudged ==
    ASSUME NEW cand \in Sheets, NEW champ \in Sheets, NEW low
    PROVE  Decision("promotion", cand, champ, PromotionFailures(cand, champ, low))
               \in PromotionDecisions
<1> DEFINE failures == PromotionFailures(cand, champ, low)
<1>1. cand.group \in Groups /\ champ.group \in Groups
    BY DEF Sheets
<1>2. failures = {} => cand.group # champ.group
    BY DEF PromotionFailures
<1> HIDE DEF failures
<1>3. Decision("promotion", cand, champ, failures) \in PromotionDecisions
    BY <1>1, <1>2 DEF Decision, PromotionDecisions, Decisions
<1> QED
    BY <1>3 DEF failures

LEMMA FinalJudged ==
    ASSUME NEW cand \in Sheets, NEW champ \in Sheets, champ.group = Base,
           NEW low, NEW low_ood
    PROVE  Decision("final", cand, champ, FinalFailures(cand, champ, low, low_ood))
               \in FinalDecisions
<1> DEFINE failures == FinalFailures(cand, champ, low, low_ood)
<1>1. cand.group \in Groups /\ champ.group \in Groups
    BY DEF Sheets
<1>2. failures = {} => cand.group # champ.group
    BY DEF FinalFailures
<1> HIDE DEF failures
<1>3. Decision("final", cand, champ, failures) \in FinalDecisions
    BY <1>1, <1>2 DEF Decision, FinalDecisions, Decisions
<1> QED
    BY <1>3 DEF failures

\* The number a promotion is recorded under is within the budget, whatever numbers
\* the cells carry.
LEMMA GateStep == TypeOK /\ [GateNext]_gatevars => [Next]_log
<1> SUFFICES ASSUME TypeOK, [GateNext]_gatevars PROVE [Next]_log
    OBVIOUS
<1>1. ASSUME NEW cand \in Sheets, NEW champ \in Sheets, DecidePromotion(cand, champ)
      PROVE  Next
  <2>1. PICK low, attempt :
            record_promotion(attempt,
                Decision("promotion", cand, champ, PromotionFailures(cand, champ, low)))
      BY <1>1 DEF DecidePromotion
  <2>2. Attempts(log) \in Nat
      BY StateTyped DEF TypeOK, State, ExperimentStates
  <2>3. attempt \in 1 .. MaxAttempts
      BY <2>1, <2>2, HistoryAssumption DEF record_promotion, AcceptsPromotion
  <2> QED
      BY <2>1, <2>3, PromotionJudged DEF Next
<1>2. ASSUME NEW cand \in Sheets, NEW champ \in Sheets, DecideFinal(cand, champ)
      PROVE  Next
  <2>1. PICK low, low_ood :
            record_final(Decision("final", cand, champ,
                FinalFailures(cand, champ, low, low_ood)))
      BY <1>2 DEF DecideFinal
  <2>2. champ.group = Base
      BY <1>2 DEF DecideFinal
  <2> QED
      BY <2>1, <2>2, FinalJudged DEF Next
<1>3. CASE UNCHANGED gatevars
    BY <1>3 DEF gatevars
<1> QED
    BY <1>1, <1>2, <1>3 DEF GateNext

LEMMA Typed == GateSpec => []TypeOK
<1>1. TypeOK /\ [Next]_log => TypeOK'
  <2> SUFFICES ASSUME TypeOK, Next PROVE TypeOK'
      BY DEF TypeOK
  <2>1. ASSUME NEW attempt \in 1 .. MaxAttempts, NEW d \in PromotionDecisions,
               record_promotion(attempt, d)
        PROVE  TypeOK'
    <3>1. PromotionEntry(attempt, d) \in HistoryEvents
        BY <2>1, HistoryAssumption DEF PromotionEntry, PromotionEntries, HistoryEvents
    <3> QED
        BY <2>1, <3>1, AppendedEntries DEF TypeOK, record_promotion
  <2>2. ASSUME NEW d \in FinalDecisions, record_final(d) PROVE TypeOK'
    <3>1. FinalEntry(log, d) \in HistoryEvents
        BY <2>2, StateTyped DEF TypeOK, FinalEntry, FinalEntries, HistoryEvents
    <3> QED
        BY <2>2, <3>1, AppendedEntries DEF TypeOK, record_final
  <2> QED
      BY <2>1, <2>2 DEF Next
<1>2. GateInit => TypeOK
    BY InitIInv DEF GateInit, IInv
<1> QED
    BY <1>1, <1>2, GateStep, PTL DEF GateSpec

\* Whatever is in the files of cells, a decision the gates of vse/promotion.py reach
\* is one the state machine of vse/state.py may record: none promotes a group over
\* itself, none has an attempt out of turn or over the budget.
THEOREM GateImplementsMachine == GateSpec => Spec
<1>1. GateInit => Init
    BY DEF GateInit
<1> QED
    BY <1>1, Typed, GateStep, PTL DEF GateSpec, Spec

\* A ledger of decisions the gates reached is sound.
THEOREM GateLogSound == GateSpec => []LogSound
    BY GateImplementsMachine, PromotionLogSound, PTL

-----------------------------------------------------------------------------
\* The least of a set of natural numbers that is not empty is one of them.
LEMMA LeastNat ==
    ASSUME NEW S \in SUBSET Nat, S # {}
    PROVE  Min(S) \in S /\ \A u \in S : Min(S) <= u
<1>1. PICK R : /\ IsWellFoundedOn(R, Nat)
               /\ \A t, u \in Nat : u < t => <<u, t>> \in R
    BY NatOrder
<1>2. PICK t \in S : \A u \in S : ~(<<u, t>> \in R)
    BY <1>1, WFMin
<1>3. t \in Nat /\ \A u \in S : u \in Nat /\ ~(u < t)
    BY <1>1, <1>2
<1>4. \A u \in S : t <= u
    BY <1>3
<1> QED
    BY <1>4 DEF Min

\* When no OOD task regressed, the bootstrap bound, which is no less than the least
\* task delta, is above a negative margin.
LEMMA MarginIdle ==
    ASSUME NEW cand, NEW champ, NEW low \in Bounds(cand, champ, OodTasks),
           Margin < 0, OodTasks # {}, IsFiniteSet(OodTasks),
           \A t \in OodTasks : TaskDelta(cand, champ, t) \in Int
    PROVE  OodFailures(cand, champ, low) # {"margin"}
<1>1. CASE SplitFailures(cand, champ, OodTasks, 0) # {}
  <2>1. "margin" \notin SplitFailures(cand, champ, OodTasks, 0)
      BY DEF SplitFailures
  <2> QED
      BY <1>1, <2>1 DEF OodFailures
<1>2. CASE SplitFailures(cand, champ, OodTasks, 0) = {}
  <2> DEFINE deltas == {TaskDelta(cand, champ, t) : t \in OodTasks}
             regressed == Regressed(cand, champ, OodTasks)
  <2>1. regressed = {}
    <3>1. IsFiniteSet(regressed) /\ IsFiniteSet(OodTasks)
        BY FS_Subset DEF Regressed
    <3>2. Cardinality(regressed) \in Nat /\ Cardinality(OodTasks) \in Nat
        BY <3>1, FS_CardinalityType
    <3>3. ~(100 * Cardinality(regressed) > 0 * Cardinality(OodTasks))
        BY <1>2 DEF SplitFailures
    <3> HIDE DEF regressed
    <3>4. Cardinality(regressed) = 0
        BY <3>2, <3>3
    <3> QED
        BY <3>1, <3>4, FS_EmptySet
  <2>2. deltas \in SUBSET Nat /\ deltas # {}
      BY <2>1 DEF Regressed
  <2>3. low \in Int /\ Min(deltas) <= low
      BY DEF Bounds
  <2> HIDE DEF deltas
  <2>4. Min(deltas) \in Nat
      BY <2>2, LeastNat
  <2>5. ~(low <= Margin)
      BY <2>3, <2>4, GateAssumption
  <2> QED
      BY <1>2, <2>5 DEF OodFailures
<1> QED
    BY <1>1, <1>2

-----------------------------------------------------------------------------
(* Sums over finite sets, by least counterexample *)

Pick(s) == CHOOSE x \in s : TRUE
\* One step of the fold, given the sums of smaller sets.
SumStep(f, it, s) == IF s = {} THEN 0 ELSE f[Pick(s)] + it[s \ {Pick(s)}]

LEMMA SumUnfolds ==
    ASSUME NEW f, NEW S
    PROVE  Sum(f, S) = (CHOOSE it : it = [s \in SUBSET S |-> SumStep(f, it, s)])[S]
    BY Zenon DEF Sum, FoldFunctionOnSet, MapThenFoldSet, Pick, SumStep

\* A subset without the element the fold picks is smaller.
LEMMA Smaller ==
    ASSUME NEW S, IsFiniteSet(S), NEW s \in SUBSET S, s # {}
    PROVE  /\ Pick(s) \in s /\ s \ {Pick(s)} \in SUBSET S
           /\ Cardinality(s) \in Nat /\ Cardinality(s \ {Pick(s)}) \in Nat
           /\ Cardinality(s \ {Pick(s)}) = Cardinality(s) - 1
<1>1. Pick(s) \in s
    BY DEF Pick
<1>2. IsFiniteSet(s)
    BY FS_Subset
<1> QED
    BY <1>1, <1>2, FS_RemoveElement, FS_CardinalityType, FS_Subset

\* What fails for a subset of a finite set fails for one all of whose smaller
\* subsets are in order.
LEMMA LeastSubset ==
    ASSUME NEW S, IsFiniteSet(S), NEW bad \in SUBSET (SUBSET S), bad # {}
    PROVE  \E s \in bad : s # {} => s \ {Pick(s)} \notin bad
<1> DEFINE sizes == {Cardinality(s) : s \in bad}
<1>1. sizes \in SUBSET Nat /\ sizes # {}
  <2>1. \A s \in bad : IsFiniteSet(s)
      BY FS_Subset
  <2> QED
      BY <2>1, FS_CardinalityType
<1> HIDE DEF sizes
<1>2. Min(sizes) \in sizes /\ \A n \in sizes : Min(sizes) <= n
    BY <1>1, LeastNat
<1>3. PICK s \in bad : \A t \in bad : Cardinality(s) <= Cardinality(t)
    BY <1>2 DEF sizes
<1> QED
    BY <1>3, Smaller

LEMMA SumExists ==
    ASSUME NEW S, IsFiniteSet(S), NEW f
    PROVE  \E it : it = [s \in SUBSET S |-> SumStep(f, it, s)]
<1> DEFINE P(n) == \E it : \A s \in SUBSET S :
                       Cardinality(s) <= n => it[s] = SumStep(f, it, s)
           bad == {n \in Nat : ~P(n)}
<1>1. P(0)
  <2> DEFINE it == [s \in SUBSET S |-> 0]
  <2>1. ASSUME NEW s \in SUBSET S, Cardinality(s) <= 0 PROVE it[s] = SumStep(f, it, s)
    <3>1. s = {}
        BY <2>1, FS_Subset, FS_CardinalityType, FS_EmptySet
    <3> QED
        BY <3>1 DEF SumStep
  <2> HIDE DEF it
  <2> QED
      BY <2>1
<1>2. ASSUME NEW n \in Nat, P(n) PROVE P(n + 1)
  <2>1. PICK it : \A s \in SUBSET S : Cardinality(s) <= n => it[s] = SumStep(f, it, s)
      BY <1>2
  <2> DEFINE more == [s \in SUBSET S |-> SumStep(f, it, s)]
  <2>2. ASSUME NEW s \in SUBSET S, Cardinality(s) <= n + 1
        PROVE  more[s] = SumStep(f, more, s)
    <3>1. CASE s = {}
        BY <3>1 DEF SumStep
    <3>2. CASE s # {}
      <4>1. more[s \ {Pick(s)}] = it[s \ {Pick(s)}]
          BY <2>1, <2>2, <3>2, Smaller
      <4> QED
          BY <3>2, <4>1 DEF SumStep
    <3> QED
        BY <3>1, <3>2
  <2> HIDE DEF more
  <2> QED
      BY <2>2
<1>3. P(Cardinality(S))
  <2>1. Cardinality(S) \in Nat
      BY FS_CardinalityType
  <2>2. ASSUME bad # {} PROVE FALSE
    <3>1. bad \in SUBSET Nat
        OBVIOUS
    <3> HIDE DEF bad, P
    <3>2. Min(bad) \in bad /\ \A n \in bad : Min(bad) <= n
        BY <2>2, <3>1, LeastNat
    <3> DEFINE m == Min(bad)
    <3>3. m \in Nat /\ ~P(m)
        BY <3>2 DEF bad
    <3> HIDE DEF m
    <3>4. m # 0
        BY <1>1, <3>3
    <3>5. P(m - 1)
      <4>1. m - 1 \in Nat /\ ~(m <= m - 1)
          BY <3>3, <3>4
      <4>2. m - 1 \notin bad
          BY <3>2, <4>1 DEF m
      <4> QED
          BY <4>1, <4>2 DEF bad
    <3>6. P((m - 1) + 1)
        BY <1>2, <3>3, <3>4, <3>5
    <3>7. (m - 1) + 1 = m
        BY <3>3
    <3> QED
        BY <3>3, <3>6, <3>7
  <2> QED
      BY <2>1, <2>2
<1>4. PICK it : \A s \in SUBSET S : Cardinality(s) <= Cardinality(S) => it[s] = SumStep(f, it, s)
    BY <1>3
<1>5. \A s \in SUBSET S : it[s] = SumStep(f, it, s)
    BY <1>4, FS_Subset
<1> DEFINE all == [s \in SUBSET S |-> it[s]]
<1>6. \A s \in SUBSET S : SumStep(f, all, s) = it[s]
    BY <1>5, Smaller DEF SumStep
<1>7. all = [s \in SUBSET S |-> SumStep(f, all, s)]
    BY <1>6
<1> HIDE DEF all
<1> QED
    BY <1>7

\* The sum of a finite set is that of a fold that gives each of its subsets a sum.
LEMMA SumFold ==
    ASSUME NEW S, IsFiniteSet(S), NEW f
    PROVE  \E it : Sum(f, S) = it[S] /\ \A s \in SUBSET S : it[s] = SumStep(f, it, s)
<1> DEFINE it == CHOOSE g : g = [s \in SUBSET S |-> SumStep(f, g, s)]
<1>1. it = [s \in SUBSET S |-> SumStep(f, it, s)]
    BY SumExists
<1>2. Sum(f, S) = it[S]
    BY SumUnfolds
<1> HIDE DEF it
<1>3. \A s \in SUBSET S : it[s] = SumStep(f, it, s)
    BY <1>1
<1> QED
    BY <1>2, <1>3

LEMMA SumInt ==
    ASSUME NEW S, IsFiniteSet(S), NEW f, \A x \in S : f[x] \in Int
    PROVE  Sum(f, S) \in Int
<1>1. PICK it : Sum(f, S) = it[S] /\ \A s \in SUBSET S : it[s] = SumStep(f, it, s)
    BY ONLY SumFold, IsFiniteSet(S)
<1> DEFINE bad == {s \in SUBSET S : it[s] \notin Int}
<1>2. bad = {}
  <2> SUFFICES ASSUME bad # {} PROVE FALSE
      OBVIOUS
  <2>1. PICK s \in bad : s # {} => s \ {Pick(s)} \notin bad
      BY LeastSubset
  <2>2. s \in SUBSET S /\ it[s] \notin Int /\ it[s] = SumStep(f, it, s)
      BY <1>1, <2>1
  <2>3. s # {} => it[s \ {Pick(s)}] \in Int /\ f[Pick(s)] \in Int
      BY <2>1, <2>2, Smaller
  <2> QED
      BY <2>2, <2>3 DEF SumStep
<1> QED
    BY <1>1, <1>2

\* The sum of differences is the difference of the sums.
LEMMA SumDifference ==
    ASSUME NEW S, IsFiniteSet(S), NEW f, NEW g, NEW h,
           \A x \in S : f[x] \in Int /\ g[x] \in Int /\ h[x] = f[x] - g[x]
    PROVE  Sum(h, S) = Sum(f, S) - Sum(g, S)
<1>1. PICK F : Sum(f, S) = F[S] /\ \A s \in SUBSET S : F[s] = SumStep(f, F, s)
    BY ONLY SumFold, IsFiniteSet(S)
<1>2. PICK G : Sum(g, S) = G[S] /\ \A s \in SUBSET S : G[s] = SumStep(g, G, s)
    BY ONLY SumFold, IsFiniteSet(S)
<1>3. PICK H : Sum(h, S) = H[S] /\ \A s \in SUBSET S : H[s] = SumStep(h, H, s)
    BY ONLY SumFold, IsFiniteSet(S)
<1> DEFINE fine(s) == F[s] \in Int /\ G[s] \in Int /\ H[s] = F[s] - G[s]
           bad == {s \in SUBSET S : ~fine(s)}
<1>4. bad = {}
  <2> SUFFICES ASSUME bad # {} PROVE FALSE
      OBVIOUS
  <2>1. PICK s \in bad : s # {} => s \ {Pick(s)} \notin bad
      BY LeastSubset
  <2>2. ~fine(s) /\ s \in SUBSET S
      BY <2>1
  <2>3. CASE s = {}
    <3>1. F[s] = 0 /\ G[s] = 0 /\ H[s] = 0
        BY <1>1, <1>2, <1>3, <2>2, <2>3 DEF SumStep
    <3> QED
        BY <2>2, <3>1
  <2>4. CASE s # {}
    <3> DEFINE x == Pick(s)
               t == s \ {Pick(s)}
    <3>1. x \in S /\ fine(t)
        BY <2>1, <2>2, <2>4, Smaller
    <3>2. F[s] = f[x] + F[t] /\ G[s] = g[x] + G[t] /\ H[s] = h[x] + H[t]
        BY <1>1, <1>2, <1>3, <2>2, <2>4 DEF SumStep
    <3>3. f[x] \in Int /\ g[x] \in Int /\ h[x] = f[x] - g[x]
        BY <3>1
    <3> HIDE DEF x, t
    <3> QED
        BY <2>2, <3>1, <3>2, <3>3
  <2> QED
      BY <2>3, <2>4
<1> QED
    BY <1>1, <1>2, <1>3, <1>4

-----------------------------------------------------------------------------
(* What promotions add up to *)

LEMMA Grid ==
    /\ IsFiniteSet(Keys) /\ Cardinality(Keys) \in Nat
    /\ IsFiniteSet(Tasks)
    /\ Cardinality(Tasks) \in Nat /\ Cardinality(Adapters) \in Nat
    /\ Cardinality(Keys) = Cardinality(Tasks) * Cardinality(Adapters)
    /\ \A t \in Tasks : {t} \X Adapters \subseteq Keys /\ IsFiniteSet({t} \X Adapters)
<1>1. IsFiniteSet(Keys) /\ Keys # {}
    BY GateAssumption
<1>2. PICK t0 \in Tasks, a0 \in Adapters : TRUE
    BY <1>1 DEF Keys
<1>3. IsFiniteSet(Tasks)
  <2> DEFINE first == [key \in Keys |-> key[1]]
  <2>1. \A t \in Tasks : <<t, a0>> \in Keys /\ first[<<t, a0>>] = t
      BY DEF Keys
  <2>2. first \in [Keys -> Tasks]
      BY DEF Keys
  <2> HIDE DEF first
  <2>3. first \in Surjection(Keys, Tasks)
      BY <2>1, <2>2 DEF Surjection
  <2> QED
      BY <1>1, <2>3, FS_Surjection
<1>4. IsFiniteSet(Adapters)
  <2> DEFINE second == [key \in Keys |-> key[2]]
  <2>1. \A a \in Adapters : <<t0, a>> \in Keys /\ second[<<t0, a>>] = a
      BY DEF Keys
  <2>2. second \in [Keys -> Adapters]
      BY DEF Keys
  <2> HIDE DEF second
  <2>3. second \in Surjection(Keys, Adapters)
      BY <2>1, <2>2 DEF Surjection
  <2> QED
      BY <1>1, <2>3, FS_Surjection
<1>5. \A t \in Tasks : {t} \X Adapters \subseteq Keys
    BY DEF Keys
<1>6. /\ Cardinality(Keys) = Cardinality(Tasks) * Cardinality(Adapters)
    BY <1>3, <1>4, FS_Product DEF Keys
<1> QED
    BY <1>1, <1>3, <1>4, <1>5, <1>6, FS_CardinalityType, FS_Subset

\* A delta of sums is the sum of deltas.
LEMMA DeltaOfSums ==
    ASSUME NEW cand \in Sheets, NEW champ \in Sheets, NEW keys \in SUBSET Keys
    PROVE  /\ SumDelta(cand, champ, keys) = Sum(cand.scores, keys) - Sum(champ.scores, keys)
           /\ Sum(cand.scores, keys) \in Int /\ Sum(champ.scores, keys) \in Int
           /\ SumDelta(cand, champ, keys) \in Int
<1> DEFINE h == [key \in Keys |-> Delta(cand, champ, key)]
           f == cand.scores
           g == champ.scores
<1>1. f \in [Keys -> Nat] /\ g \in [Keys -> Nat]
    BY GateAssumption DEF Sheets
<1>2. \A x \in keys : f[x] \in Int /\ g[x] \in Int /\ h[x] = f[x] - g[x]
    BY <1>1 DEF Delta
<1>3. IsFiniteSet(keys)
    BY Grid, FS_Subset
<1>4. SumDelta(cand, champ, keys) = Sum(h, keys)
    BY DEF SumDelta
<1> HIDE DEF h, f, g
<1>5. Sum(h, keys) = Sum(f, keys) - Sum(g, keys)
    BY <1>2, <1>3, SumDifference
<1>6. Sum(f, keys) \in Int /\ Sum(g, keys) \in Int
    BY <1>2, <1>3, SumInt
<1> QED
    BY <1>4, <1>5, <1>6 DEF f, g

LEMMA Products ==
    ASSUME NEW k \in Nat, NEW m \in Nat, NEW t \in Nat, NEW a \in Nat
    PROVE  /\ ((k + 1) * m) * (t * a) = (k * m) * (t * a) + (m * t) * a
           /\ (0 * m) * (t * a) = 0
    OBVIOUS

\* Which entries promote, after one more.
LEMMA AppendedPromoted ==
    ASSUME NEW ledger \in Seq(HistoryEvents), NEW e \in HistoryEvents
    PROVE  LET new == Append(ledger, e)
               n == Len(ledger)
           IN  /\ IsFiniteSet(Promoted(ledger)) /\ Cardinality(Promoted(ledger)) \in Nat
               /\ IF e \in PromotionEntries /\ e.decision.promoted
                  THEN Cardinality(Promoted(new)) = Cardinality(Promoted(ledger)) + 1
                  ELSE Cardinality(Promoted(new)) = Cardinality(Promoted(ledger))
<1> DEFINE new == Append(ledger, e)
           n == Len(ledger)
<1>1. n \in Nat
    BY LenProperties
<1>2. /\ DOMAIN new = 1 .. n + 1 /\ DOMAIN ledger = 1 .. n
      /\ \A i \in 1 .. n : new[i] = ledger[i]
      /\ new[n + 1] = e
    BY AppendedEntries
<1> HIDE DEF new, n
<1>3. e.event_type = "promotion_decision" <=> e \in PromotionEntries
    BY DEF HistoryEvents, PromotionEntries, FinalEntries, InitEntry
<1>4. Promoted(new) = IF e \in PromotionEntries /\ e.decision.promoted
                      THEN Promoted(ledger) \cup {n + 1} ELSE Promoted(ledger)
    BY <1>1, <1>2, <1>3 DEF Promoted, Promotions
<1>5. Promoted(ledger) \subseteq 1 .. n /\ n + 1 \notin Promoted(ledger)
    BY <1>1, <1>2 DEF Promoted, Promotions
<1>6. IsFiniteSet(Promoted(ledger))
    BY <1>1, <1>5, FS_Interval, FS_Subset
<1>7. Cardinality(Promoted(ledger) \cup {n + 1}) = Cardinality(Promoted(ledger)) + 1
    BY <1>5, <1>6, FS_AddElement
<1>8. /\ IsFiniteSet(Promoted(ledger)) /\ Cardinality(Promoted(ledger)) \in Nat
      /\ IF e \in PromotionEntries /\ e.decision.promoted
         THEN Cardinality(Promoted(new)) = Cardinality(Promoted(ledger)) + 1
         ELSE Cardinality(Promoted(new)) = Cardinality(Promoted(ledger))
    BY <1>4, <1>6, <1>7, FS_CardinalityType
<1> QED
    BY <1>8 DEF new, n

OodKeys == OodTasks \X Adapters

\* A promotion without a failure gained the minimum, and lost nothing on the OOD tasks.
LEMMA PromotionGains ==
    ASSUME NEW cand \in Sheets, NEW champ \in Sheets, NEW low,
           PromotionFailures(cand, champ, low) = {}
    PROVE  /\ Sum(cand.scores, Keys) - Sum(champ.scores, Keys)
                  >= (MinDelta * Cardinality(Tasks)) * Cardinality(Adapters)
           /\ Sum(cand.scores, OodKeys) >= Sum(champ.scores, OodKeys)
<1>1. GainOk(cand, champ, Tasks, low, MinDelta)
    BY DEF PromotionFailures
<1>2. SumDelta(cand, champ, Keys) >= (MinDelta * Cardinality(Tasks)) * Cardinality(Adapters)
    BY <1>1 DEF GainOk, Keys
<1>3. ~(SumDelta(cand, champ, OodKeys) < 0)
    BY DEF PromotionFailures, OodKeys
<1>4. OodKeys \in SUBSET Keys
    BY GateAssumption DEF OodKeys, Keys
<1>5. /\ SumDelta(cand, champ, OodKeys) = Sum(cand.scores, OodKeys) - Sum(champ.scores, OodKeys)
      /\ Sum(cand.scores, OodKeys) \in Int /\ Sum(champ.scores, OodKeys) \in Int
    BY <1>4, DeltaOfSums
<1>6. SumDelta(cand, champ, Keys) = Sum(cand.scores, Keys) - Sum(champ.scores, Keys)
    BY DeltaOfSums
<1> QED
    BY <1>2, <1>3, <1>5, <1>6

\* Every table has a sum, on all cells and on the OOD ones.
LEMMA TableSums ==
    ASSUME NEW table \in Tables
    PROVE  Sum(table, Keys) \in Int /\ Sum(table, OodKeys) \in Int
<1>1. table \in [Keys -> Nat] /\ OodKeys \in SUBSET Keys
    BY GateAssumption DEF OodKeys, Keys
<1>2. \A keys \in SUBSET Keys : Sum(table, keys) \in Int
  <2> SUFFICES ASSUME NEW keys \in SUBSET Keys PROVE Sum(table, keys) \in Int
      OBVIOUS
  <2>1. IsFiniteSet(keys) /\ \A x \in keys : table[x] \in Int
      BY <1>1, Grid, FS_Subset
  <2> QED
      BY <2>1, SumInt
<1> QED
    BY <1>1, <1>2

GInv == TypeOK /\ LossMeansRescored

LEMMA InitGInv == GateInit => GInv
<1> SUFFICES ASSUME GateInit PROVE GInv
    OBVIOUS
<1>1. TypeOK
    BY InitIInv DEF GateInit, IInv
<1>2. Promoted(log) = {}
    BY DEF GateInit, Init, Promoted, Promotions, InitEntry
<1>3. Champion(log) = Base /\ Cardinality(Promoted(log)) = 0
    BY <1>2, FS_EmptySet DEF Champion
<1>4. (0 * MinDelta) * Cardinality(Keys) = 0
    BY Grid, Products, GateAssumption
<1>5. ASSUME NEW scores \in [Groups -> Tables] PROVE Accumulated(scores)
  <2>1. scores[Base] \in Tables
      BY HistoryAssumption
  <2>2. Sum(scores[Base], Keys) \in Int /\ Sum(scores[Base], OodKeys) \in Int
      BY <2>1, TableSums
  <2> QED
      BY <1>3, <1>4, <2>2 DEF Accumulated, OodKeys
<1> QED
    BY <1>1, <1>5 DEF GInv, LossMeansRescored

LEMMA PromotionAccumulates ==
    ASSUME GInv, NEW cand \in Sheets, NEW champ \in Sheets, DecidePromotion(cand, champ)
    PROVE  GInv'
<1>1. PICK low, attempt :
          /\ record_promotion(attempt,
                 Decision("promotion", cand, champ, PromotionFailures(cand, champ, low)))
          /\ evidence' = evidence \cup IF PromotionFailures(cand, champ, low) = {}
                                      THEN {Gain(cand, champ)} ELSE {}
    BY DEF DecidePromotion
<1> DEFINE failures == PromotionFailures(cand, champ, low)
           d == Decision("promotion", cand, champ, failures)
           e == PromotionEntry(attempt, d)
           k == Cardinality(Promoted(log))
<1>2. Attempts(log) \in Nat /\ Champion(log) \in Groups
    BY StateTyped DEF GInv, TypeOK, State, ExperimentStates
<1>3. attempt \in 1 .. MaxAttempts
    BY <1>1, <1>2, HistoryAssumption DEF record_promotion, AcceptsPromotion
<1>4. d \in PromotionDecisions
    BY PromotionJudged
<1>5. /\ d.promoted = (failures = {}) /\ d.candidate = cand.group
      /\ d.champion = champ.group
    BY DEF Decision
<1>6. champ.group = Champion(log) /\ log' = Append(log, e)
    BY <1>1, <1>5 DEF record_promotion, AcceptsPromotion
<1> HIDE DEF d, failures
<1>7. e \in PromotionEntries /\ e \in HistoryEvents /\ e.decision = d
    BY <1>3, <1>4, HistoryAssumption DEF PromotionEntry, PromotionEntries, HistoryEvents
<1>8. /\ TypeOK'
      /\ Champion(log') = IF failures = {} THEN cand.group ELSE Champion(log)
  <2>1. log \in Seq(HistoryEvents)
      BY DEF GInv, TypeOK
  <2> HIDE DEF e
  <2> QED
      BY <1>5, <1>6, <1>7, <2>1, AppendedEntries, AppendedPromotion DEF TypeOK
<1>9. k \in Nat /\ Cardinality(Promoted(log')) = IF failures = {} THEN k + 1 ELSE k
  <2>1. log \in Seq(HistoryEvents)
      BY DEF GInv, TypeOK
  <2> HIDE DEF e
  <2> QED
      BY <1>5, <1>6, <1>7, <2>1, AppendedPromoted
<1> HIDE DEF e
<1>10. cand.group \in Groups /\ evidence \subseteq evidence'
    BY <1>1 DEF Sheets
<1>11. failures = {} => Gain(cand, champ) \in evidence'
    BY <1>1 DEF failures
<1>12. ASSUME NEW scores \in [Groups -> Tables], Explains(scores)'
       PROVE  Accumulated(scores)'
  <2> DEFINE total(g) == Sum(scores[g], Keys)
             ood(g) == Sum(scores[g], OodKeys)
  <2>1. \A g \in Groups : total(g) \in Int /\ ood(g) \in Int
      BY TableSums
  <2>2. Accumulated(scores)
      BY <1>10, <1>12 DEF GInv, LossMeansRescored, Explains
  <2>3. /\ total(Champion(log)) - total(Base) >= (k * MinDelta) * Cardinality(Keys)
        /\ ood(Champion(log)) >= ood(Base)
      BY <2>2 DEF Accumulated, OodKeys
  <2>4. /\ total(Champion(log')) - total(Base)
               >= (Cardinality(Promoted(log')) * MinDelta) * Cardinality(Keys)
        /\ ood(Champion(log')) >= ood(Base)
    <3>1. CASE failures # {}
      <4> HIDE DEF total, ood
      <4> QED
        BY <1>8, <1>9, <2>3, <3>1
    <3>2. CASE failures = {}
      <4>1. cand.scores = scores[cand.group] /\ champ.scores = scores[Champion(log)]
          BY <1>6, <1>11, <1>12, <3>2 DEF Explains, Gain
      <4>2. /\ total(cand.group) - total(Champion(log))
                   >= (MinDelta * Cardinality(Tasks)) * Cardinality(Adapters)
            /\ ood(cand.group) >= ood(Champion(log))
          BY <3>2, <4>1, PromotionGains DEF failures
      <4>3. ((k + 1) * MinDelta) * Cardinality(Keys)
                = (k * MinDelta) * Cardinality(Keys)
                      + (MinDelta * Cardinality(Tasks)) * Cardinality(Adapters)
          BY <1>9, Grid, Products, GateAssumption
      <4> HIDE DEF total, ood, k
      <4>4. /\ total(cand.group) \in Int /\ total(Champion(log)) \in Int /\ total(Base) \in Int
            /\ ood(cand.group) \in Int /\ ood(Champion(log)) \in Int /\ ood(Base) \in Int
          BY <1>2, <1>10, <2>1, HistoryAssumption
      <4>5. /\ (k * MinDelta) * Cardinality(Keys) \in Int
            /\ (MinDelta * Cardinality(Tasks)) * Cardinality(Adapters) \in Int
          BY <1>9, Grid, GateAssumption
      <4>6. total(cand.group) - total(Base) >= ((k + 1) * MinDelta) * Cardinality(Keys)
          BY <2>3, <4>2, <4>3, <4>4, <4>5
      <4>7. ood(cand.group) >= ood(Base)
          BY <2>3, <4>2, <4>4
      <4>8. Champion(log') = cand.group /\ Cardinality(Promoted(log')) = k + 1
          BY <1>8, <1>9, <3>2
      <4> QED
          BY <4>6, <4>7, <4>8
    <3> QED
        BY <3>1, <3>2
  <2> QED
      BY <2>4 DEF Accumulated, OodKeys
<1>13. LossMeansRescored'
    BY <1>12 DEF LossMeansRescored
<1> QED
    BY <1>8, <1>13 DEF GInv

LEMMA FinalAccumulates ==
    ASSUME GInv, NEW cand \in Sheets, NEW champ \in Sheets, DecideFinal(cand, champ)
    PROVE  GInv'
<1>1. PICK low, low_ood :
          record_final(Decision("final", cand, champ,
              FinalFailures(cand, champ, low, low_ood)))
    BY DEF DecideFinal
<1> DEFINE d == Decision("final", cand, champ, FinalFailures(cand, champ, low, low_ood))
           e == FinalEntry(log, d)
<1>2. d \in FinalDecisions /\ log \in Seq(HistoryEvents)
    BY FinalJudged DEF DecideFinal, GInv, TypeOK
<1>3. log' = Append(log, e)
    BY <1>1 DEF record_final
<1> HIDE DEF d
<1>4. e \in FinalEntries /\ e \in HistoryEvents /\ e.event_type = "final_decision"
    BY <1>2, StateTyped DEF FinalEntry, FinalEntries, HistoryEvents
<1>5. e \notin PromotionEntries
    BY <1>4 DEF PromotionEntries
<1> HIDE DEF e
<1>6. /\ TypeOK' /\ Champion(log') = Champion(log)
      /\ Cardinality(Promoted(log')) = Cardinality(Promoted(log))
    BY <1>2, <1>3, <1>4, <1>5, AppendedEntries, AppendedFinal, AppendedPromoted DEF TypeOK
<1>7. evidence' = evidence
    BY DEF DecideFinal
<1>8. LossMeansRescored'
    BY <1>6, <1>7 DEF GInv, LossMeansRescored, Explains, Accumulated
<1> QED
    BY <1>6, <1>8 DEF GInv

\* However many promotions follow each other, whatever the cells are and whatever
\* bound the bootstrap reports: as long as no two evaluations scored a group
\* differently, each promotion adds the minimum to what the champion has over the base
\* and takes nothing on the OOD tasks (promotion.py:481-560).
THEOREM PromotionsAccumulate == GateSpec => []LossMeansRescored
<1>1. GInv /\ [GateNext]_gatevars => GInv'
  <2> SUFFICES ASSUME GInv, [GateNext]_gatevars PROVE GInv'
      OBVIOUS
  <2>1. CASE UNCHANGED gatevars
      BY <2>1 DEF gatevars, GInv, TypeOK, LossMeansRescored, Explains, Accumulated
  <2> QED
      BY <2>1, PromotionAccumulates, FinalAccumulates DEF GateNext
<1>2. GInv => LossMeansRescored
    BY DEF GInv
<1> QED
    BY <1>1, <1>2, InitGInv, PTL DEF GateSpec

\* The OOD margin never decides a final evaluation, for every negative margin and
\* every set of OOD tasks (promotion.py:583-600).
THEOREM MarginAlwaysIdle ==
    Margin < 0 /\ OodTasks # {} => (GateSpec => []MarginNeverDecides)
<1> SUFFICES ASSUME Margin < 0, OodTasks # {} PROVE GateSpec => []MarginNeverDecides
    OBVIOUS
<1>1. ASSUME MarginNeverDecides, NEW cand \in Sheets, NEW champ \in Sheets,
             DecideFinal(cand, champ)
      PROVE  MarginNeverDecides'
  <2>1. PICK low_ood \in Bounds(cand, champ, OodTasks) :
            ood_failures' = ood_failures \cup {OodFailures(cand, champ, low_ood)}
      BY <1>1 DEF DecideFinal
  <2>2. IsFiniteSet(OodTasks) /\ \A t \in OodTasks : {t} \X Adapters \in SUBSET Keys
      BY Grid, FS_Subset, GateAssumption
  <2>3. \A t \in OodTasks : TaskDelta(cand, champ, t) \in Int
      BY <2>2, DeltaOfSums DEF TaskDelta
  <2>4. OodFailures(cand, champ, low_ood) # {"margin"}
      BY <2>2, <2>3, MarginIdle
  <2> QED
      BY <1>1, <2>1, <2>4 DEF MarginNeverDecides
<1>2. ASSUME MarginNeverDecides, [GateNext]_gatevars PROVE MarginNeverDecides'
  <2>1. CASE UNCHANGED gatevars
      BY <1>2, <2>1 DEF gatevars, MarginNeverDecides
  <2>2. ASSUME NEW cand \in Sheets, NEW champ \in Sheets, DecidePromotion(cand, champ)
        PROVE  MarginNeverDecides'
      BY <1>2, <2>2 DEF DecidePromotion, MarginNeverDecides
  <2> QED
      BY <1>1, <1>2, <2>1, <2>2 DEF GateNext
<1>3. GateInit => MarginNeverDecides
    BY DEF GateInit, MarginNeverDecides
<1> QED
    BY <1>2, <1>3, PTL DEF GateSpec
=============================================================================
