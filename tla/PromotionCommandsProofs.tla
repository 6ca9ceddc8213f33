----------------------- MODULE PromotionCommandsProofs -----------------------
(***************************************************************************)
(* For every number of processes, groups and paths.                        *)
(*                                                                         *)
(* However the commands overlap and wherever they die: they keep to the    *)
(* shapes and the operations of the ledger, a decision file on disk is     *)
(* backed by the ledger, no recorded promotion was judged against a group  *)
(* that was never the champion when its attempt was due, and no turn is    *)
(* recorded more often than there are processes.                           *)
(*                                                                         *)
(* When they do not overlap: a decision is one step of                     *)
(* PromotionStateMachine, its head is anchored before its file is written, *)
(* and the snapshots are labelled truthfully.                              *)
(***************************************************************************)
EXTENDS PromotionCommands, SequenceTheorems, FiniteSetTheorems, WellFoundedInduction, TLAPS

-----------------------------------------------------------------------------
(* The inductive invariant *)

InLog(e) == \E i \in DOMAIN lines : lines[i].event = e

\* e was an acceptable promotion when the ledger had k - 1 entries.
AcceptedAt(e, k) ==
    /\ e.decision.champion = Champion(Before(Log, k))
    /\ e.attempt = Attempts(Before(Log, k)) + 1
    /\ ~Stopped(Before(Log, k))

Accepted(e) ==
    e.event_type = "promotion_decision" =>
        \E k \in 1 .. Len(lines) + 1 : AcceptedAt(e, k)

DecisionTypes == {"promotion_decision", "final_decision"}

Appending == {"acquire", "write", "finish"}

\* A command that records a decision: its entry is on its way, or recorded.
RecordsOK(p) ==
    LET e == command[p].event
    IN  /\ Accepted(e)
        /\ \/ call[p].at = "acquire" /\ call[p].event = e
           \/ call[p].at \in {"write", "finish"} /\ call[p].entry.event = e
           \/ call[p].at = "raised"
           \/ call[p].at = "out" /\ InLog(e)

DecisionStages == {"append", "anchor", "check", "open", "write"}

CommandShape(c) ==
    IF c.kind = "decision"
    THEN /\ c = [kind |-> "decision", stage |-> c.stage, event |-> c.event, path |-> c.path]
         /\ c.stage \in DecisionStages
         /\ c.path \in Paths
    ELSE IF c.kind = "bind"
    THEN c = [kind |-> "bind", next |-> c.next, stage |-> c.stage]
    ELSE c = Idle

ProcOK(p) ==
    /\ CommandShape(command[p])
    /\ call[p].at \in Appending => Stage(p, "decision", "append")
    /\ command[p].kind = "decision" =>
           /\ command[p].event.event_type \in DecisionTypes
           /\ IF command[p].stage = "append" THEN RecordsOK(p)
              ELSE InLog(command[p].event)

Backed ==
    \A o \in Paths : outputs[o].state = "whole" =>
        \E e : /\ InLog(e) /\ e.event_type \in DecisionTypes
               /\ e.decision = outputs[o].content

Judged ==
    \A i \in 1 .. Len(lines) : lines[i].event.event_type = "promotion_decision" =>
        \E k \in 1 .. i : AcceptedAt(lines[i].event, k)

Shapes ==
    /\ \E S : lines \in Seq(S)
    /\ DOMAIN call = Procs
    /\ DOMAIN command = Procs
    /\ DOMAIN outputs = Paths

IInv == Shapes /\ (\A p \in Procs : ProcOK(p)) /\ Backed /\ Judged

-----------------------------------------------------------------------------
(* The ledger only grows *)

\* The step leaves the lines alone, or completes the one process p writes.
Grows(p) ==
    \/ UNCHANGED lines
    \/ call[p].at = "finish" /\ lines' = Append(lines, call[p].entry)

\* What the entries before a position say does not change.
LEMMA BeforeKept ==
    ASSUME NEW S, lines \in Seq(S), NEW entry, lines' = Append(lines, entry),
           NEW k \in 1 .. Len(lines) + 1
    PROVE  Before(Log', k) = Before(Log, k)
<1> DEFINE n == Len(lines)
<1>1. n \in Nat /\ DOMAIN lines = 1 .. n
    BY LenProperties
<1>2. lines \in Seq(S \cup {entry})
    BY SeqDef
<1>3. /\ DOMAIN lines' = 1 .. n + 1
      /\ \A i \in 1 .. n : lines'[i] = lines[i]
    BY <1>1, <1>2, AppendProperties, LenProperties
<1> HIDE DEF n
<1> DEFINE T == {Log[i] : i \in 1 .. n} \cup {Log'[i] : i \in 1 .. n + 1}
<1>4. Log \in [1 .. n -> T] /\ Log' \in [1 .. n + 1 -> T]
    BY <1>1, <1>3 DEF Log
<1>5. \A i \in 1 .. n : Log'[i] = Log[i]
    BY <1>1, <1>3 DEF Log
<1> DEFINE old == Log
           new == Log'
<1> HIDE DEF T, old, new
<1>6. old \in Seq(T) /\ new \in Seq(T)
    BY <1>1, <1>4, SeqDef DEF old, new
<1>7. Len(old) = n /\ Len(new) = n + 1
    BY <1>1, <1>4, <1>6, LenProperties DEF old, new
<1>8. k \in 1 .. n + 1
    BY DEF n
<1>9. Before(new, k) = [j \in 1 .. k - 1 |-> new[j]]
    BY <1>1, <1>6, <1>7, <1>8 DEF Before
<1>10. Before(old, k) = [j \in 1 .. k - 1 |-> old[j]]
    BY <1>1, <1>6, <1>7, <1>8 DEF Before
<1>11. \A j \in 1 .. k - 1 : new[j] = old[j]
    BY <1>1, <1>5, <1>8 DEF old, new
<1> QED
    BY <1>9, <1>10, <1>11 DEF old, new

LEMMA BeforeAll ==
    ASSUME NEW S, lines \in Seq(S)
    PROVE  Before(Log, Len(lines) + 1) = Log
<1> DEFINE n == Len(lines)
           T == {Log[i] : i \in 1 .. n}
<1>1. n \in Nat /\ DOMAIN lines = 1 .. n
    BY LenProperties
<1>2. Log \in [1 .. n -> T] /\ Log = [i \in 1 .. n |-> Log[i]]
    BY <1>1 DEF Log
<1> DEFINE log == Log
<1> HIDE DEF n, T, log
<1>3. log \in Seq(T) /\ log = [i \in 1 .. n |-> log[i]]
    BY <1>1, <1>2, SeqDef DEF log
<1>4. Len(log) = n
    BY <1>1, <1>3, LenProperties
<1>5. Before(log, n + 1) = [j \in 1 .. n |-> log[j]]
    BY <1>1, <1>3, <1>4 DEF Before
<1> QED
    BY <1>3, <1>5 DEF log, n

LEMMA GrownLog ==
    ASSUME Shapes, NEW p, Grows(p)
    PROVE  /\ \A e : InLog(e) => InLog(e)'
           /\ \A e : Accepted(e) => Accepted(e)'
           /\ \A e, k : k \in 1 .. Len(lines) + 1 /\ AcceptedAt(e, k) => AcceptedAt(e, k)'
           /\ \E S : lines' \in Seq(S)
<1>1. CASE UNCHANGED lines
    BY <1>1 DEF InLog, Accepted, AcceptedAt, Log, Shapes
<1>2. CASE lines' = Append(lines, call[p].entry)
  <2>1. PICK S : lines \in Seq(S)
      BY DEF Shapes
  <2> DEFINE entry == call[p].entry
  <2>2. lines' = Append(lines, entry)
      BY <1>2
  <2> HIDE DEF entry
  <2>3. lines \in Seq(S \cup {entry}) /\ Len(lines) \in Nat
      BY <2>1, SeqDef, LenProperties
  <2>4. /\ lines' \in Seq(S \cup {entry}) /\ Len(lines') = Len(lines) + 1
        /\ DOMAIN lines = 1 .. Len(lines) /\ DOMAIN lines' = 1 .. Len(lines) + 1
        /\ \A i \in 1 .. Len(lines) : lines'[i] = lines[i]
      BY <2>2, <2>3, AppendProperties, LenProperties
  <2>5. ASSUME NEW e, NEW k \in 1 .. Len(lines) + 1, AcceptedAt(e, k)
        PROVE  AcceptedAt(e, k)'
      BY <2>1, <2>2, <2>5, BeforeKept DEF AcceptedAt
  <2>6. \A e : InLog(e) => InLog(e)'
      BY <2>4 DEF InLog
  <2>7. \A e : Accepted(e) => Accepted(e)'
      BY <2>3, <2>4, <2>5 DEF Accepted
  <2> QED
      BY <2>4, <2>5, <2>6, <2>7
<1> QED
    BY <1>1, <1>2 DEF Grows

\* The entry that is appended was accepted when its command replayed the ledger.
LEMMA GrownJudged ==
    ASSUME IInv, NEW p \in Procs, Grows(p)
    PROVE  Judged'
<1>1. \A e, k : k \in 1 .. Len(lines) + 1 /\ AcceptedAt(e, k) => AcceptedAt(e, k)'
    BY GrownLog DEF IInv
<1>2. CASE UNCHANGED lines
    BY <1>2 DEF IInv, Judged, AcceptedAt, Log
<1>3. CASE call[p].at = "finish" /\ lines' = Append(lines, call[p].entry)
  <2>1. PICK S : lines \in Seq(S)
      BY DEF IInv, Shapes
  <2> DEFINE entry == call[p].entry
  <2>2. lines' = Append(lines, entry)
      BY <1>3
  <2>3. Accepted(entry.event)
      BY <1>3 DEF IInv, ProcOK, RecordsOK, Appending, Stage
  <2> HIDE DEF entry
  <2>4. lines \in Seq(S \cup {entry}) /\ Len(lines) \in Nat
      BY <2>1, SeqDef, LenProperties
  <2>5. /\ Len(lines') = Len(lines) + 1
        /\ \A i \in 1 .. Len(lines) : lines'[i] = lines[i]
        /\ lines'[Len(lines) + 1] = entry
      BY <2>2, <2>4, AppendProperties, LenProperties
  <2>6. ASSUME NEW i \in 1 .. Len(lines') ,
               lines'[i].event.event_type = "promotion_decision"
        PROVE  \E k \in 1 .. i : AcceptedAt(lines[i].event, k)'
    <3>1. CASE i = Len(lines) + 1
      <4>1. lines'[i].event = entry.event
          BY <2>5, <3>1
      <4>2. PICK k \in 1 .. i : AcceptedAt(entry.event, k)
          BY <2>3, <2>6, <3>1, <4>1 DEF Accepted
      <4>3. \A e : e = entry.event => AcceptedAt(e, k)'
          BY <1>1, <3>1, <4>2
      <4> QED
          BY <4>1, <4>3
    <3>2. CASE i \in 1 .. Len(lines)
      <4>1. lines'[i].event = lines[i].event
          BY <2>5, <3>2
      <4>2. PICK k \in 1 .. i : AcceptedAt(lines[i].event, k)
          BY <2>6, <3>2, <4>1 DEF IInv, Judged
      <4>3. \A e : e = lines[i].event => AcceptedAt(e, k)'
          BY <1>1, <2>4, <3>2, <4>2
      <4> QED
          BY <4>1, <4>3
    <3> QED
        BY <2>4, <2>5, <3>1, <3>2
  <2> QED
      BY <2>6 DEF Judged
<1> QED
    BY <1>2, <1>3 DEF Grows

-----------------------------------------------------------------------------
(* The steps of one process *)

\* The others do not notice, but for the entry that was added.
LEMMA OthersOK ==
    ASSUME IInv, NEW p \in Procs, NEW q \in Procs, q # p, Grows(p),
           call'[q] = call[q], command'[q] = command[q]
    PROVE  ProcOK(q)'
<1>1. /\ \A e : InLog(e) => InLog(e)'
      /\ \A e : Accepted(e) => Accepted(e)'
    BY GrownLog DEF IInv
<1>2. CommandShape(command'[q])
    BY DEF IInv, ProcOK
<1>3. RecordsOK(q) => RecordsOK(q)'
    BY <1>1 DEF RecordsOK
<1> QED
    BY <1>1, <1>2, <1>3 DEF IInv, ProcOK, Stage, CommandShape

\* One process moved, and what it is at is in order.
LEMMA ProcessStep ==
    ASSUME IInv, NEW p \in Procs, Grows(p),
           DOMAIN call' = Procs, DOMAIN command' = Procs,
           \A q \in Procs \ {p} : call'[q] = call[q] /\ command'[q] = command[q],
           ProcOK(p)', UNCHANGED outputs \/ (Backed' /\ DOMAIN outputs' = Paths)
    PROVE  IInv'
<1>1. \A e : InLog(e) => InLog(e)'
    BY GrownLog DEF IInv
<1>2. Shapes'
    BY GrownLog DEF IInv, Shapes
<1>3. Backed'
    BY <1>1 DEF IInv, Backed
<1>4. \A q \in Procs : ProcOK(q)'
    BY OthersOK
<1> QED
    BY <1>2, <1>3, <1>4, GrownJudged DEF IInv

LEMMA InitIInv == Init => IInv
<1> SUFFICES ASSUME Init PROVE IInv
    OBVIOUS
<1>1. PICK recorded \in {<<>>, <<InitEntry>>} : Ledger!InitWith(recorded)
    BY DEF Init
<1>2. /\ call = [p \in Procs |-> [at |-> "out"]]
      /\ lines = [i \in DOMAIN recorded |-> [sequence |-> i, event |-> recorded[i]]]
    BY <1>1 DEF Ledger!InitWith, Ledger!Out
<1>3. \E n \in {0, 1} : /\ DOMAIN lines = 1 .. n
                        /\ \A i \in 1 .. n : lines[i].event = InitEntry
    BY <1>1, <1>2
<1> DEFINE S == {[sequence |-> 1, event |-> InitEntry]}
<1>4. lines \in Seq(S)
  <2>1. CASE recorded = <<>>
    <3>1. lines = <<>>
        BY <1>2, <2>1
    <3> QED
        BY <3>1
  <2>2. CASE recorded = <<InitEntry>>
    <3>1. lines \in [1 .. 1 -> S]
        BY <1>2, <2>2
    <3> QED
        BY <3>1, SeqDef
  <2> QED
      BY <1>1, <2>1, <2>2
<1> HIDE DEF S
<1>5. Len(lines) \in Nat /\ DOMAIN lines = 1 .. Len(lines)
    BY <1>4, LenProperties
<1>6. Judged
    BY <1>3, <1>5 DEF Judged, InitEntry
<1>7. \A p \in Procs : ProcOK(p)
    BY <1>2 DEF Init, ProcOK, CommandShape, Idle, Appending
<1> QED
    BY <1>2, <1>4, <1>6, <1>7 DEF Init, IInv, Shapes, Backed

LEMMA BeginPreserves ==
    ASSUME IInv, NEW p \in Procs, BeginDecisions(p) \/ BindFreeze(p)
    PROVE  IInv'
<1>1. ASSUME NEW e, NEW o \in Paths, BeginDecision(p, e, o), Accepted(e),
             e.event_type \in DecisionTypes
      PROVE  IInv'
  <2>1. /\ command' = [command EXCEPT ![p] = [kind |-> "decision", stage |-> "append",
                                              event |-> e, path |-> o]]
        /\ call' = [call EXCEPT ![p] = [at |-> "acquire", event |-> e]]
        /\ UNCHANGED lines /\ UNCHANGED outputs
      BY <1>1 DEF BeginDecision, Set, Ledger!CallAppend, Ledger!Goto, Ledger!Acquiring
  <2>2. /\ command'[p] = [kind |-> "decision", stage |-> "append", event |-> e, path |-> o]
        /\ call'[p] = [at |-> "acquire", event |-> e]
        /\ DOMAIN call' = Procs /\ DOMAIN command' = Procs
        /\ \A q \in Procs \ {p} : call'[q] = call[q] /\ command'[q] = command[q]
      BY <2>1 DEF IInv, Shapes
  <2>3. Accepted(e)'
      BY <1>1, <2>1, GrownLog DEF IInv, Grows
  <2>4. CommandShape(command'[p])
      BY <2>2 DEF CommandShape, DecisionStages
  <2>5. RecordsOK(p)'
      BY <2>2, <2>3 DEF RecordsOK
  <2>6. ProcOK(p)'
      BY <1>1, <2>2, <2>4, <2>5 DEF ProcOK, Stage
  <2> QED
      BY <2>1, <2>2, <2>6, ProcessStep DEF Grows
<1>2. ASSUME NEW attempt \in 1 .. MaxAttempts, NEW d \in PromotionDecisions,
             NEW o \in Paths, PromotionDecision(p, attempt, d, o)
      PROVE  IInv'
  <2>1. PICK S : lines \in Seq(S)
      BY DEF IInv, Shapes
  <2>2. Len(lines) + 1 \in 1 .. Len(lines) + 1 /\ Before(Log, Len(lines) + 1) = Log
      BY <2>1, BeforeAll, LenProperties
  <2> DEFINE e == PromotionEntry(attempt, d)
  <2>3. e.attempt = attempt /\ e.decision = d /\ e.event_type = "promotion_decision"
      BY DEF PromotionEntry
  <2> HIDE DEF e
  <2>4. AcceptedAt(e, Len(lines) + 1)
      BY <1>2, <2>2, <2>3 DEF PromotionDecision, AcceptsPromotion, AcceptedAt
  <2>5. Accepted(e) /\ e.event_type \in DecisionTypes
      BY <2>2, <2>3, <2>4 DEF Accepted, DecisionTypes
  <2> QED
      BY <1>1, <1>2, <2>5 DEF PromotionDecision, e
<1>3. ASSUME NEW d \in FinalDecisions, NEW o \in Paths, FinalDecision(p, d, o) PROVE IInv'
  <2> DEFINE e == FinalEntry(Log, d)
  <2>1. Accepted(e) /\ e.event_type \in DecisionTypes
      BY DEF FinalEntry, Accepted, DecisionTypes
  <2> HIDE DEF e
  <2> QED
      BY <1>1, <1>3, <2>1 DEF FinalDecision, e
<1>4. CASE BindFreeze(p)
  <2>1. /\ \E stage : command' = [command EXCEPT ![p] =
                                     [kind |-> "bind", next |-> 1, stage |-> stage]]
        /\ command[p] = Idle
        /\ UNCHANGED <<call, lines, outputs>>
      BY <1>4 DEF BindFreeze, NextManifest, Set, MayStart, ledgervars
  <2>2. /\ \E stage : command'[p] = [kind |-> "bind", next |-> 1, stage |-> stage]
        /\ DOMAIN command' = Procs /\ DOMAIN call' = Procs
        /\ \A q \in Procs \ {p} : call'[q] = call[q] /\ command'[q] = command[q]
      BY <2>1 DEF IInv, Shapes
  <2>3. call'[p].at \notin Appending
      BY <2>1 DEF IInv, ProcOK, Stage, Idle
  <2>4. ProcOK(p)'
      BY <2>2, <2>3 DEF ProcOK, CommandShape
  <2> QED
      BY <2>1, <2>2, <2>4, ProcessStep DEF Grows
<1> QED
    BY <1>2, <1>3, <1>4 DEF BeginDecisions

\* A command that stopped, or goes on with its own files.
LEMMA CommandMoves ==
    ASSUME IInv, NEW p \in Procs, UNCHANGED lines, NEW c,
           command' = [command EXCEPT ![p] = c],
           DOMAIN call' = Procs, \A q \in Procs \ {p} : call'[q] = call[q],
           call'[p].at \notin Appending, CommandShape(c),
           c.kind = "decision" =>
               /\ c.stage # "append"
               /\ c.event.event_type \in DecisionTypes
               /\ InLog(c.event),
           UNCHANGED outputs \/ (Backed' /\ DOMAIN outputs' = Paths)
    PROVE  IInv'
<1>1. /\ command'[p] = c /\ DOMAIN command' = Procs
      /\ \A q \in Procs \ {p} : command'[q] = command[q]
    BY DEF IInv, Shapes
<1>2. \A e : InLog(e) => InLog(e)'
    BY DEF InLog
<1>3. ProcOK(p)'
    BY <1>1, <1>2 DEF ProcOK, Stage
<1> QED
    BY <1>1, <1>3, ProcessStep DEF Grows

\* A decision file gets new content, none that the ledger does not back.
LEMMA FileChanges ==
    ASSUME IInv, UNCHANGED lines, NEW o \in Paths, NEW file,
           outputs' = [outputs EXCEPT ![o] = file],
           file.state = "whole" =>
               \E e : /\ InLog(e) /\ e.event_type \in DecisionTypes
                      /\ e.decision = file.content
    PROVE  Backed' /\ DOMAIN outputs' = Paths
<1>1. \A e : InLog(e) => InLog(e)'
    BY DEF InLog
<1>2. outputs'[o] = file /\ \A q \in Paths \ {o} : outputs'[q] = outputs[q]
    BY DEF IInv, Shapes
<1> QED
    BY <1>1, <1>2 DEF IInv, Shapes, Backed

\* Past "append", the entry is in the ledger and nothing is being appended.
LEMMA Recorded ==
    ASSUME IInv, NEW p \in Procs, command[p].kind = "decision",
           command[p].stage # "append" \/ call[p].at = "out"
    PROVE  /\ call[p].at \notin Appending
           /\ InLog(command[p].event)
           /\ command[p].event.event_type \in DecisionTypes
           /\ command[p].path \in Paths
           /\ \A stage \in DecisionStages :
                  LET c == [command[p] EXCEPT !.stage = stage]
                  IN  /\ c.kind = "decision" /\ c.stage = stage
                      /\ c.event = command[p].event
                      /\ CommandShape(c)
<1> DEFINE c == command[p]
<1>1. c = [kind |-> "decision", stage |-> c.stage, event |-> c.event, path |-> c.path]
    BY DEF IInv, ProcOK, CommandShape
<1>2. \A stage : [c EXCEPT !.stage = stage]
                   = [kind |-> "decision", stage |-> stage,
                      event |-> c.event, path |-> c.path]
    BY <1>1
<1>3. \A stage \in DecisionStages : CommandShape([c EXCEPT !.stage = stage])
    BY <1>2 DEF IInv, ProcOK, CommandShape
<1>4. /\ c.event.event_type \in DecisionTypes
      /\ c.path \in Paths
      /\ InLog(c.event) /\ call[p].at \notin Appending
    BY DEF IInv, ProcOK, CommandShape, RecordsOK, Appending, Stage
<1> QED
    BY <1>2, <1>3, <1>4

LEMMA DecisionPreserves ==
    ASSUME IInv, NEW p \in Procs,
           \/ AnchorDecision(p) \/ ReplayAgain(p)
           \/ CheckOutput(p) \/ OpenOutput(p) \/ WriteOutput(p)
    PROVE  IInv'
<1> USE DEF Stage, Set, Enter, DecisionStages
<1> DEFINE to(stage) == [command[p] EXCEPT !.stage = stage]
<1>1. CASE AnchorDecision(p)
  <2>1. /\ call[p].at = "out" /\ UNCHANGED <<lines, outputs>>
        /\ \E a \in {"check", "raised"} :
               \E c : c.at = a /\ call' = [call EXCEPT ![p] = c]
      BY <1>1 DEF AnchorDecision, Ledger!CallAnchor, Ledger!At, Ledger!Goto,
                  Ledger!Anchoring, Ledger!Raised
  <2>2. /\ call'[p].at \notin Appending /\ DOMAIN call' = Procs
        /\ \A q \in Procs \ {p} : call'[q] = call[q]
      BY <2>1 DEF IInv, Shapes, Appending
  <2>3. command' = [command EXCEPT ![p] = to("anchor")]
      BY <1>1 DEF AnchorDecision
  <2>4. /\ CommandShape(to("anchor")) /\ to("anchor").stage # "append"
        /\ to("anchor").event.event_type \in DecisionTypes
        /\ InLog(to("anchor").event)
      BY <1>1, <2>1, Recorded DEF AnchorDecision
  <2> HIDE DEF to
  <2> QED
      BY <2>1, <2>2, <2>3, <2>4, CommandMoves
<1>2. CASE ReplayAgain(p) \/ CheckOutput(p)
  <2>1. /\ UNCHANGED <<lines, call, outputs>>
        /\ command[p].kind = "decision" /\ command[p].stage # "append"
        /\ \/ command' = [command EXCEPT ![p] = Idle]
           \/ command' = [command EXCEPT ![p] = to("check")]
           \/ command' = [command EXCEPT ![p] = to("open")]
      BY <1>2 DEF ReplayAgain, CheckOutput, ledgervars
  <2>2. /\ call'[p].at \notin Appending /\ DOMAIN call' = Procs
        /\ \A q \in Procs \ {p} : call'[q] = call[q]
      BY <2>1, Recorded DEF IInv, Shapes
  <2>3. \A stage \in {"check", "open"} :
            /\ CommandShape(to(stage)) /\ to(stage).stage # "append"
            /\ to(stage).event.event_type \in DecisionTypes
            /\ InLog(to(stage).event)
      BY <2>1, Recorded
  <2>4. CommandShape(Idle) /\ Idle.kind # "decision"
      BY DEF CommandShape, Idle
  <2> HIDE DEF to
  <2> QED
      BY <2>1, <2>2, <2>3, <2>4, CommandMoves
<1>3. CASE OpenOutput(p)
  <2> DEFINE o == command[p].path
  <2>1. /\ UNCHANGED <<lines, call>>
        /\ command[p].kind = "decision" /\ command[p].stage = "open"
        /\ command' = [command EXCEPT ![p] = to("write")]
        /\ outputs' = [outputs EXCEPT ![o] = Ledger!Truncated]
        /\ Ledger!Truncated.state # "whole"
      BY <1>3 DEF OpenOutput, ledgervars, Ledger!Truncated
  <2>2. /\ call'[p].at \notin Appending /\ DOMAIN call' = Procs
        /\ \A q \in Procs \ {p} : call'[q] = call[q]
      BY <2>1, Recorded DEF IInv, Shapes
  <2>3. /\ CommandShape(to("write")) /\ to("write").stage # "append"
        /\ to("write").event.event_type \in DecisionTypes
        /\ InLog(to("write").event) /\ o \in Paths
      BY <2>1, Recorded
  <2> HIDE DEF to, o
  <2>4. Backed' /\ DOMAIN outputs' = Paths
      BY <2>1, <2>3, FileChanges
  <2> QED
      BY <2>1, <2>2, <2>3, <2>4, CommandMoves
<1>4. CASE WriteOutput(p)
  <2> DEFINE o == command[p].path
             e == command[p].event
  <2>1. /\ UNCHANGED <<lines, call>>
        /\ command[p].kind = "decision" /\ command[p].stage = "write"
        /\ command' = [command EXCEPT ![p] = Idle]
      BY <1>4 DEF WriteOutput, ledgervars
  <2>2. PICK file \in {Ledger!Whole(e.decision), Ledger!Torn} :
            outputs' = [outputs EXCEPT ![o] = file]
      BY <1>4 DEF WriteOutput, Ledger!Overwritten
  <2>3. file.state = "whole" => file.content = e.decision
      BY <2>2 DEF Ledger!Whole, Ledger!Torn
  <2>4. /\ call'[p].at \notin Appending /\ DOMAIN call' = Procs
        /\ \A q \in Procs \ {p} : call'[q] = call[q]
      BY <2>1, Recorded DEF IInv, Shapes
  <2>5. e.event_type \in DecisionTypes /\ InLog(e) /\ o \in Paths
      BY <2>1, Recorded
  <2>6. CommandShape(Idle) /\ Idle.kind # "decision"
      BY DEF CommandShape, Idle
  <2> HIDE DEF e, o
  <2>7. Backed' /\ DOMAIN outputs' = Paths
      BY <2>1, <2>2, <2>3, <2>5, FileChanges
  <2> QED
      BY <2>1, <2>4, <2>6, <2>7, CommandMoves
<1> QED
    BY <1>1, <1>2, <1>3, <1>4

\* bind-freeze leaves the ledger and the decision files alone; it anchors.
LEMMA BindingPreserves ==
    ASSUME IInv, NEW p \in Procs,
           \/ CheckManifest(p) \/ OpenManifest(p) \/ WriteManifest(p)
           \/ AnchorBinding(p) \/ FinishBinding(p)
    PROVE  IInv'
<1> USE DEF Stage, Set, Enter
<1>1. command[p].kind = "bind" /\ UNCHANGED <<lines, outputs>>
    BY DEF CheckManifest, OpenManifest, WriteManifest, AnchorBinding, FinishBinding,
           ledgervars, Ledger!CallAnchor
<1>2. call[p].at \notin Appending
    BY <1>1 DEF IInv, ProcOK
<1>3. /\ DOMAIN call' = Procs /\ call'[p].at \notin Appending
      /\ \A q \in Procs \ {p} : call'[q] = call[q]
  <2>1. \/ UNCHANGED call
        \/ \E a \in {"check", "raised"} :
              \E c : c.at = a /\ call' = [call EXCEPT ![p] = c]
      BY DEF CheckManifest, OpenManifest, WriteManifest, AnchorBinding, FinishBinding,
             ledgervars, Ledger!CallAnchor, Ledger!At, Ledger!Goto,
             Ledger!Anchoring, Ledger!Raised
  <2> QED
      BY <1>2, <2>1 DEF IInv, Shapes, Appending
<1>4. PICK c : /\ command' = [command EXCEPT ![p] = c]
               /\ CommandShape(c) /\ c.kind # "decision"
  <2> DEFINE b == command[p]
  <2>1. b = [kind |-> "bind", next |-> b.next, stage |-> b.stage]
      BY <1>1 DEF IInv, ProcOK, CommandShape
  <2>2. /\ CommandShape(Idle) /\ Idle.kind # "decision"
        /\ \A next, stage :
              LET d == [kind |-> "bind", next |-> next, stage |-> stage]
              IN  CommandShape(d) /\ d.kind # "decision"
      BY DEF CommandShape, Idle
  <2>3. \A stage : [b EXCEPT !.stage = stage]
                     = [kind |-> "bind", next |-> b.next, stage |-> stage]
      BY <2>1
  <2>4. \/ command' = [command EXCEPT ![p] = Idle]
        \/ \E stage : command' = [command EXCEPT ![p] = [b EXCEPT !.stage = stage]]
        \/ \E next, stage : command' = [command EXCEPT ![p] =
                                 [kind |-> "bind", next |-> next, stage |-> stage]]
      BY DEF CheckManifest, OpenManifest, WriteManifest, NextManifest,
             AnchorBinding, FinishBinding
  <2> HIDE DEF b
  <2>5. CASE command' = [command EXCEPT ![p] = Idle]
      BY <2>2, <2>5
  <2>6. ASSUME NEW next, NEW stage,
               command' = [command EXCEPT ![p] =
                              [kind |-> "bind", next |-> next, stage |-> stage]]
        PROVE  \E c : /\ command' = [command EXCEPT ![p] = c]
                      /\ CommandShape(c) /\ c.kind # "decision"
    <3> DEFINE d == [kind |-> "bind", next |-> next, stage |-> stage]
    <3>1. CommandShape(d) /\ d.kind # "decision"
        BY <2>2
    <3>2. command' = [command EXCEPT ![p] = d]
        BY <2>6
    <3> HIDE DEF d
    <3> QED
        BY <3>1, <3>2
  <2>7. ASSUME NEW stage, command' = [command EXCEPT ![p] = [b EXCEPT !.stage = stage]]
        PROVE  \E c : /\ command' = [command EXCEPT ![p] = c]
                      /\ CommandShape(c) /\ c.kind # "decision"
    <3>1. command' = [command EXCEPT ![p] =
                          [kind |-> "bind", next |-> b.next, stage |-> stage]]
        BY <2>3, <2>7
    <3> QED
        BY <2>6, <3>1
  <2> QED
      BY <2>4, <2>5, <2>6, <2>7
<1> QED
    BY <1>1, <1>3, <1>4, CommandMoves

\* append seals what was asked for; anchor_head does not touch the ledger.
LEMMA LedgerPreserves ==
    ASSUME IInv, NEW p \in Procs, LedgerStep(p)
    PROVE  IInv'
<1> USE DEF LedgerStep, Ledger!At, Ledger!Goto
<1>1. UNCHANGED <<command, outputs>>
    OBVIOUS
<1>2. ASSUME NEW c, call' = [call EXCEPT ![p] = c], Grows(p),
             c.at \in Appending => Stage(p, "decision", "append"),
             Stage(p, "decision", "append") =>
                 \/ c.at \in {"write", "finish"} /\ c.entry.event = command[p].event
                 \/ c.at = "raised"
                 \/ c.at = "out" /\ InLog(command[p].event)'
      PROVE  IInv'
  <2>1. /\ call'[p] = c /\ DOMAIN call' = Procs
        /\ \A q \in Procs \ {p} : call'[q] = call[q]
      BY <1>2 DEF IInv, Shapes
  <2>2. /\ \A e : InLog(e) => InLog(e)'
        /\ \A e : Accepted(e) => Accepted(e)'
      BY <1>2, GrownLog DEF IInv
  <2>3. Stage(p, "decision", "append") => RecordsOK(p)'
      BY <1>1, <1>2, <2>1, <2>2 DEF IInv, ProcOK, RecordsOK, Stage
  <2>4. ProcOK(p)'
      BY <1>1, <1>2, <2>1, <2>2, <2>3 DEF IInv, ProcOK, Stage
  <2> QED
      BY <1>1, <1>2, <2>1, <2>4, ProcessStep DEF IInv, Shapes
<1>3. call[p].at \in Appending =>
          /\ Stage(p, "decision", "append")
          /\ RecordsOK(p)
    BY DEF IInv, ProcOK, Stage
<1>4. CASE Ledger!Acquire(p)
  <2>1. /\ UNCHANGED lines /\ call[p].at = "acquire"
        /\ \/ call' = [call EXCEPT ![p] = [at |-> "raised"]]
           \/ \E n : call' = [call EXCEPT ![p] =
                 [at |-> "write", entry |-> [sequence |-> n, event |-> call[p].event]]]
      BY <1>4 DEF Ledger!Acquire, Ledger!Raised, Ledger!Writing, Ledger!SealedEntry
  <2>2. Stage(p, "decision", "append") /\ call[p].event = command[p].event
      BY <1>3, <2>1 DEF Appending, RecordsOK
  <2> QED
      BY <1>2, <2>1, <2>2 DEF Grows
<1>5. CASE Ledger!BeginWrite(p)
  <2>1. /\ UNCHANGED lines /\ call[p].at = "write"
        /\ call' = [call EXCEPT ![p] = [at |-> "finish", entry |-> call[p].entry]]
      BY <1>5 DEF Ledger!BeginWrite, Ledger!Writing
  <2>2. Stage(p, "decision", "append") /\ call[p].entry.event = command[p].event
      BY <1>3, <2>1 DEF Appending, RecordsOK
  <2> QED
      BY <1>2, <2>1, <2>2 DEF Grows
<1>6. CASE Ledger!FinishWrite(p)
  <2>1. /\ lines' = Append(lines, call[p].entry) /\ call[p].at = "finish"
        /\ call' = [call EXCEPT ![p] = [at |-> "out"]]
      BY <1>6 DEF Ledger!FinishWrite, Ledger!Extended, Ledger!Out
  <2>2. Stage(p, "decision", "append") /\ call[p].entry.event = command[p].event
      BY <1>3, <2>1 DEF Appending, RecordsOK
  <2>3. InLog(command[p].event)'
    <3>1. PICK S : lines \in Seq(S)
        BY DEF IInv, Shapes
    <3> DEFINE entry == call[p].entry
    <3>2. lines' = Append(lines, entry)
        BY <2>1
    <3>3. entry.event = command'[p].event
        BY <1>1, <2>2
    <3> HIDE DEF entry
    <3>4. lines \in Seq(S \cup {entry}) /\ Len(lines) \in Nat
        BY <3>1, SeqDef, LenProperties
    <3>5. Len(lines) + 1 \in DOMAIN lines' /\ lines'[Len(lines) + 1] = entry
        BY <3>2, <3>4, AppendProperties, LenProperties
    <3> QED
        BY <3>3, <3>5 DEF InLog
  <2> QED
      BY <1>2, <2>1, <2>2, <2>3 DEF Grows, Appending
<1>7. CASE Ledger!AnchorStep(p)
  <2>1. /\ UNCHANGED lines
        /\ call[p].at \in {"check", "open_snapshot", "write_snapshot",
                           "open_latest", "write_latest"}
      BY <1>7 DEF Ledger!AnchorStep, Ledger!CheckSnapshot, Ledger!OpenSnapshot,
                  Ledger!WriteSnapshot, Ledger!OpenLatest, Ledger!WriteLatest
  <2>2. ~Stage(p, "decision", "append")
      BY <2>1 DEF IInv, ProcOK, Stage, RecordsOK
  <2>3. PICK c : call' = [call EXCEPT ![p] = c] /\ c.at \notin Appending
      BY <1>7 DEF Ledger!AnchorStep, Ledger!CheckSnapshot, Ledger!OpenSnapshot,
                  Ledger!WriteSnapshot, Ledger!OpenLatest, Ledger!WriteLatest,
                  Ledger!Anchoring, Ledger!Raised, Ledger!Out, Appending
  <2> QED
      BY <1>2, <2>1, <2>2, <2>3 DEF Grows
<1> QED
    BY <1>4, <1>5, <1>6, <1>7 DEF Ledger!Step, Ledger!AppendStep

\* An exception, or the death of the process.
LEMMA EndPreserves ==
    ASSUME IInv, NEW p \in Procs, Abort(p) \/ Crash(p)
    PROVE  IInv'
<1>1. UNCHANGED lines /\ command' = [command EXCEPT ![p] = Idle]
    BY DEF Abort, Crash, Set, ledgervars, Ledger!Propagate, Ledger!Crash
<1>2. \/ UNCHANGED call /\ call[p].at = "out"
      \/ call' = [call EXCEPT ![p] = [at |-> "out"]]
    BY DEF Abort, Crash, ledgervars, Ledger!Propagate, Ledger!Crash, Ledger!Goto, Ledger!Out
<1>3. /\ DOMAIN call' = Procs /\ call'[p].at \notin Appending
      /\ \A q \in Procs \ {p} : call'[q] = call[q]
    BY <1>2 DEF IInv, Shapes, Appending
<1>4. CommandShape(Idle) /\ Idle.kind # "decision"
    BY DEF CommandShape, Idle
<1>5. UNCHANGED outputs \/ (Backed' /\ DOMAIN outputs' = Paths)
  <2>1. CASE UNCHANGED outputs
      BY <2>1
  <2>2. CASE /\ Stage(p, "decision", "write")
             /\ outputs' = [outputs EXCEPT ![command[p].path] = Ledger!Torn]
    <3>1. command[p].path \in Paths /\ Ledger!Torn.state # "whole"
        BY <2>2, Recorded DEF Stage, Ledger!Torn
    <3> QED
        BY <1>1, <2>2, <3>1, FileChanges
  <2> QED
      BY <2>1, <2>2 DEF Abort, Crash
<1> QED
    BY <1>1, <1>3, <1>4, <1>5, CommandMoves

-----------------------------------------------------------------------------
(* The theorems *)

LEMMA Inductive == IInv /\ [Next]_vars => IInv'
<1> SUFFICES ASSUME IInv, [Next]_vars PROVE IInv'
    OBVIOUS
<1>1. CASE UNCHANGED vars
    BY <1>1 DEF vars, ledgervars, IInv, Shapes, ProcOK, CommandShape, Stage, RecordsOK,
                InLog, Accepted, AcceptedAt, Log, Backed, Judged
<1>2. ASSUME NEW p \in Procs,
             BeginDecisions(p) \/ BindFreeze(p) \/ CommandStep(p) \/ Crash(p)
      PROVE  IInv'
    BY <1>2, BeginPreserves, DecisionPreserves, BindingPreserves, LedgerPreserves,
       EndPreserves DEF CommandStep
<1> QED
    BY <1>1, <1>2 DEF Next

LEMMA Always == Spec => []IInv
    BY InitIInv, Inductive, PTL DEF Spec

\* Whatever is interrupted or overtaken, a decision file on disk says what
\* the ledger holds: the commands of vse/cli.py record before they write.
THEOREM DecisionFilesAlwaysBacked == Spec => []DecisionFilesBacked
<1>1. IInv => DecisionFilesBacked
  <2> SUFFICES ASSUME IInv, NEW o \in Paths, outputs[o].state = "whole"
               PROVE  \E i \in Promotions(Log) \cup Finals(Log) :
                          Log[i].decision = outputs[o].content
      BY DEF DecisionFilesBacked
  <2>1. PICK e : /\ InLog(e) /\ e.event_type \in DecisionTypes
                 /\ e.decision = outputs[o].content
      BY DEF IInv, Backed
  <2>2. PICK i \in DOMAIN lines : lines[i].event = e
      BY <2>1 DEF InLog
  <2>3. i \in DOMAIN Log /\ Log[i] = e
      BY <2>2 DEF Log
  <2> QED
      BY <2>1, <2>3 DEF DecisionTypes, Promotions, Finals
<1> QED
    BY <1>1, Always, PTL

\* Even overlapping commands judge a promotion against a group that was the
\* champion when its attempt was the next one: record_promotion replays the
\* ledger before it appends, and the ledger only grows.
THEOREM PromotionsAlwaysJudged == Spec => []JudgedAgainstSomeChampion
<1>1. IInv => JudgedAgainstSomeChampion
  <2> SUFFICES ASSUME IInv, NEW i \in Promotions(Log)
               PROVE  \E k \in 1 .. i : AcceptedAt(Log[i], k)
      BY DEF JudgedAgainstSomeChampion, AcceptedAt
  <2>1. PICK S : lines \in Seq(S)
      BY DEF IInv, Shapes
  <2>2. DOMAIN Log = 1 .. Len(lines) /\ \A j \in DOMAIN lines : Log[j] = lines[j].event
      BY <2>1, LenProperties DEF Log
  <2>3. i \in 1 .. Len(lines) /\ Log[i] = lines[i].event
      BY <2>2 DEF Promotions, Log
  <2> QED
      BY <2>3 DEF IInv, Judged, Promotions
<1> QED
    BY <1>1, Always, PTL

-----------------------------------------------------------------------------
(* The ledger and the history, with what is proved of them *)

LP == INSTANCE RunLedgerProofs WITH Events <- HistoryEvents
\* The state machine of the ledger.  The gates in front of it play no part here.
Machine == INSTANCE PromotionGateProofs WITH
    log <- Log, evidence <- {}, ood_failures <- {},
    Tasks <- {0}, OodTasks <- {}, Adapters <- {0}, Tables <- {}, MaxRegressed <- 0,
    MinDelta <- 1, Margin <- 0, MinRate <- 0, MinAdapterPasses <- 0

LEMMA MachineAssumption == Machine!GateAssumption
<1>1. Machine!Keys = {<<0, 0>>}
    BY DEF Machine!Keys
<1>2. IsFiniteSet(Machine!Keys)
    BY <1>1, FS_Singleton
<1>3. Machine!IsFiniteSet(Machine!Keys)
    BY <1>2 DEF IsFiniteSet, Machine!IsFiniteSet
<1>4. Machine!Keys # {}
    BY <1>1
<1> HIDE DEF Machine!Keys
<1> QED
    BY <1>3, <1>4 DEF Machine!GateAssumption

\* The ledger of these commands is the one RunLedgerProofs is about.
LEMMA LedgerActions ==
    ASSUME NEW p \in Procs
    PROVE  /\ \A e : Ledger!CallAppend(p, e) <=> LP!CallAppend(p, e)
           /\ \A label : Ledger!CallAnchor(p, label) <=> LP!CallAnchor(p, label)
           /\ Ledger!Step(p) <=> LP!Step(p)
           /\ Ledger!Propagate(p) <=> LP!Propagate(p)
           /\ Ledger!Crash(p) <=> LP!Crash(p)
           /\ ledgervars = LP!vars
<1> USE DEF Ledger!At, LP!At, Ledger!Goto, LP!Goto, Ledger!Raised, LP!Raised,
            Ledger!Out, LP!Out
<1>1. \A e : Ledger!CallAppend(p, e) <=> LP!CallAppend(p, e)
    BY DEF Ledger!CallAppend, LP!CallAppend, Ledger!Acquiring, LP!Acquiring
<1>2. Ledger!Readable <=> LP!Readable
    BY DEF Ledger!Readable, LP!Readable, Ledger!Contiguous, LP!Contiguous
<1>3. \A label : Ledger!CallAnchor(p, label) <=> LP!CallAnchor(p, label)
    BY <1>2 DEF Ledger!CallAnchor, LP!CallAnchor, Ledger!Anchoring, LP!Anchoring,
                Ledger!HeadAnchor, LP!HeadAnchor
<1>4. Ledger!AppendStep(p) <=> LP!AppendStep(p)
  <2> USE DEF Ledger!Writing, LP!Writing
  <2>1. Ledger!Acquire(p) <=> LP!Acquire(p)
      BY <1>2 DEF Ledger!Acquire, LP!Acquire, Ledger!LockFree, LP!LockFree,
                  Ledger!SealedEntry, LP!SealedEntry
  <2>2. Ledger!BeginWrite(p) <=> LP!BeginWrite(p)
      BY DEF Ledger!BeginWrite, LP!BeginWrite
  <2>3. Ledger!FinishWrite(p) <=> LP!FinishWrite(p)
      BY DEF Ledger!FinishWrite, LP!FinishWrite, Ledger!Extended, LP!Extended,
             Ledger!LockAfter, LP!LockAfter
  <2> QED
      BY <2>1, <2>2, <2>3 DEF Ledger!AppendStep, LP!AppendStep
<1>5. Ledger!AnchorStep(p) <=> LP!AnchorStep(p)
  <2> USE DEF Ledger!Anchoring, LP!Anchoring, Ledger!Name, LP!Name
  <2>1. Ledger!CheckSnapshot(p) <=> LP!CheckSnapshot(p)
      BY DEF Ledger!CheckSnapshot, LP!CheckSnapshot, Ledger!Conflict, LP!Conflict
  <2>2. Ledger!OpenSnapshot(p) <=> LP!OpenSnapshot(p)
      BY DEF Ledger!OpenSnapshot, LP!OpenSnapshot
  <2>3. Ledger!WriteSnapshot(p) <=> LP!WriteSnapshot(p)
      BY DEF Ledger!WriteSnapshot, LP!WriteSnapshot
  <2>4. Ledger!OpenLatest(p) <=> LP!OpenLatest(p)
      BY DEF Ledger!OpenLatest, LP!OpenLatest, Ledger!Truncated, LP!Truncated
  <2>5. Ledger!WriteLatest(p) <=> LP!WriteLatest(p)
      BY DEF Ledger!WriteLatest, LP!WriteLatest, Ledger!Overwritten, LP!Overwritten,
             Ledger!Truncated, LP!Truncated, Ledger!Whole, LP!Whole, Ledger!Torn, LP!Torn
  <2> QED
      BY <2>1, <2>2, <2>3, <2>4, <2>5 DEF Ledger!AnchorStep, LP!AnchorStep
<1>6. Ledger!Step(p) <=> LP!Step(p)
    BY <1>4, <1>5 DEF Ledger!Step, LP!Step
<1>7. Ledger!Propagate(p) <=> LP!Propagate(p)
    BY DEF Ledger!Propagate, LP!Propagate
<1>8. Ledger!Crash(p) <=> LP!Crash(p)
    BY DEF Ledger!Crash, LP!Crash, Ledger!Torn, LP!Torn
<1>9. ledgervars = LP!vars
    BY DEF ledgervars, LP!vars
<1> QED
    BY <1>1, <1>3, <1>6, <1>7, <1>8, <1>9

\* The history is the one PromotionGateProofs is about.
LEMMA SameHistory ==
    ASSUME NEW ledger
    PROVE  /\ State(ledger) = Machine!State(ledger)
           /\ Promotions(ledger) = Machine!Promotions(ledger)
           /\ Finals(ledger) = Machine!Finals(ledger)
           /\ Attempts(ledger) = Machine!Attempts(ledger)
           /\ ExperimentStates = Machine!ExperimentStates
           /\ HistoryEvents = Machine!HistoryEvents
<1> USE DEF Promotions, Machine!Promotions, Finals, Machine!Finals, Promoted, Machine!Promoted,
    Max, Machine!Max, Attempts, Machine!Attempts, ExperimentStates, Machine!ExperimentStates
<1>1. Attempts(ledger) = Machine!Attempts(ledger)
  OBVIOUS
<1>2. HistoryEvents = Machine!HistoryEvents
  BY DEF HistoryEvents, Machine!HistoryEvents, PromotionEntries, Machine!PromotionEntries,
     FinalEntries, Machine!FinalEntries, PromotionDecisions, Machine!PromotionDecisions,
     FinalDecisions, Machine!FinalDecisions, Decisions, Machine!Decisions, InitEntry, Machine!InitEntry
<1>3. State(ledger) = Machine!State(ledger)
  BY DEF State, Machine!State, Champion, Machine!Champion, Stopped, Machine!Stopped,
    FinalRecorded, Machine!FinalRecorded
<1> QED BY <1>1, <1>2, <1>3
-----------------------------------------------------------------------------
(* Types *)

\* bind-freeze is at a manifest of its list until all are written.
AtManifest ==
    \A p \in Procs :
        command[p].kind = "bind" /\ command[p].stage \in {"check", "open", "write"} =>
            command[p].next \in DOMAIN Manifests

CommandsTyped ==
    /\ command \in [Procs -> Commands]
    /\ AtManifest
    /\ outputs \in [Paths -> Ledger!Files(PromotionDecisions \cup FinalDecisions)]
    /\ manifests \in [{Manifests[i] : i \in DOMAIN Manifests} ->
                         {"absent", "partial", "whole"}]

TInv == LP!IInv /\ CommandsTyped

LEMMA LogTyped ==
    ASSUME LP!IInv
    PROVE  Log \in Seq(HistoryEvents) /\ Len(Log) = Len(lines) /\ DOMAIN Log = 1 .. Len(lines)
<1>1. lines \in Seq(LP!Entries)
    BY DEF LP!IInv, LP!TypeOK
<1>2. Len(lines) \in Nat /\ DOMAIN lines = 1 .. Len(lines)
    BY <1>1, LenProperties
<1>3. \A i \in 1 .. Len(lines) : lines[i].event \in HistoryEvents
  <2> SUFFICES ASSUME NEW i \in 1 .. Len(lines) PROVE lines[i].event \in HistoryEvents
      OBVIOUS
  <2>1. lines[i] \in LP!Entries
      BY <1>1, ElementOfSeq
  <2> QED
      BY <2>1 DEF LP!Entries
<1>4. Log \in [1 .. Len(lines) -> HistoryEvents]
    BY <1>2, <1>3 DEF Log
<1> DEFINE log == Log
           n == Len(lines)
<1> HIDE DEF log, n
<1>5. n \in Nat /\ log \in [1 .. n -> HistoryEvents]
    BY <1>2, <1>4 DEF log, n
<1>6. log \in Seq(HistoryEvents)
    BY <1>5, SeqDef
<1>7. Len(log) = n /\ DOMAIN log = 1 .. n
    BY <1>5, <1>6, LenProperties
<1> QED
    BY <1>6, <1>7 DEF log, n

LEMMA LogState ==
    ASSUME LP!IInv
    PROVE  State(Log) \in ExperimentStates /\ Attempts(Log) \in Nat
<1> DEFINE log == Log
<1>1. log \in Seq(HistoryEvents)
    BY LogTyped
<1> HIDE DEF log
<1>2. log \in Seq(Machine!HistoryEvents)
    BY <1>1, SameHistory
<1>3. Machine!State(log) \in Machine!ExperimentStates
    BY <1>2, Machine!StateTyped, HistoryAssumption, MachineAssumption
<1>4. State(log) \in ExperimentStates
    BY <1>3, SameHistory
<1>5. Attempts(log) \in Nat
    BY <1>4 DEF State, ExperimentStates
<1> QED
    BY <1>4, <1>5 DEF log

\* What a decision command begins to append is an entry of the history.
LEMMA EntriesTyped ==
    ASSUME LP!IInv
    PROVE  /\ \A attempt \in 1 .. MaxAttempts, d \in PromotionDecisions :
                  PromotionEntry(attempt, d) \in PromotionEntries
           /\ \A d \in FinalDecisions : FinalEntry(Log, d) \in FinalEntries
<1>1. ASSUME NEW attempt \in 1 .. MaxAttempts, NEW d \in PromotionDecisions
      PROVE  PromotionEntry(attempt, d) \in PromotionEntries
    BY HistoryAssumption DEF PromotionEntry, PromotionEntries
<1>2. State(Log) \in ExperimentStates
    BY LogState
<1>3. ASSUME NEW d \in FinalDecisions PROVE FinalEntry(Log, d) \in FinalEntries
    BY <1>2 DEF FinalEntry, FinalEntries
<1> QED
    BY <1>1, <1>3

\* Every step is one of the ledger, which records nothing but decisions, or
\* leaves the ledger alone.
LEMMA LedgerNext == TInv /\ [Next]_vars => [LP!Next]_(LP!vars)
<1> SUFFICES ASSUME TInv, [Next]_vars PROVE [LP!Next]_(LP!vars)
    OBVIOUS
<1>1. CASE UNCHANGED ledgervars
    BY <1>1, LedgerActions DEF ledgervars, LP!vars
<1>2. ASSUME NEW p \in Procs, NEW e \in HistoryEvents, Ledger!CallAppend(p, e)
      PROVE  LP!Next
    BY <1>2, LedgerActions DEF LP!Next, LP!Begin
<1>3. ASSUME NEW p \in Procs, NEW label \in Labels, Ledger!CallAnchor(p, label)
      PROVE  LP!Next
    BY <1>3, LedgerActions DEF LP!Next, LP!Begin
<1>4. ASSUME NEW p \in Procs, Ledger!Step(p) \/ Ledger!Propagate(p) \/ Ledger!Crash(p)
      PROVE  LP!Next
    BY <1>4, LedgerActions DEF LP!Next
<1>5. ASSUME NEW p \in Procs, BeginDecisions(p) PROVE LP!Next
  <2>1. PICK e \in PromotionEntries \cup FinalEntries : Ledger!CallAppend(p, e)
      BY <1>5, EntriesTyped
      DEF BeginDecisions, PromotionDecision, FinalDecision, BeginDecision, TInv
  <2> QED
      BY <1>2, <2>1 DEF HistoryEvents
<1>6. ASSUME NEW p \in Procs, AnchorDecision(p) PROVE LP!Next
  <2>1. command[p].event.event_type \in Labels
      BY <1>6 DEF AnchorDecision, Stage, TInv, CommandsTyped, Commands, Idle,
                  PromotionEntries, FinalEntries, Labels
  <2> QED
      BY <1>3, <1>6, <2>1 DEF AnchorDecision
<1>7. ASSUME NEW p \in Procs, AnchorBinding(p) PROVE UNCHANGED ledgervars \/ LP!Next
    BY <1>3, <1>7 DEF AnchorBinding, Labels
<1>8. ASSUME NEW p \in Procs, LedgerStep(p) \/ Abort(p) \/ Crash(p)
      PROVE  UNCHANGED ledgervars \/ LP!Next
    BY <1>4, <1>8 DEF LedgerStep, Abort, Crash
<1>9. ASSUME NEW p \in Procs, BindFreeze(p) \/ CommandStep(p),
             ~AnchorDecision(p), ~AnchorBinding(p), ~LedgerStep(p), ~Abort(p)
      PROVE  UNCHANGED ledgervars
    BY <1>9 DEF BindFreeze, CommandStep, ReplayAgain, CheckOutput, OpenOutput, WriteOutput,
                CheckManifest, OpenManifest, WriteManifest, FinishBinding
<1> QED
    BY <1>1, <1>5, <1>6, <1>7, <1>8, <1>9 DEF Next, CommandStep, vars

\* The ledger of a run directory begins empty, or with the entry of
\* init-formal-run.
LEMMA InitLedger == Init => LP!IInv
<1> SUFFICES ASSUME Init PROVE LP!IInv
    OBVIOUS
<1>1. PICK recorded \in {<<>>, <<InitEntry>>} : Ledger!InitWith(recorded)
    BY DEF Init
<1>2. /\ lines = [i \in DOMAIN recorded |-> [sequence |-> i, event |-> recorded[i]]]
      /\ partial = FALSE /\ lock = NoProc /\ call = [p \in Procs |-> [at |-> "out"]]
      /\ snapshots = {} /\ stubs = {} /\ latest = [state |-> "absent"]
    BY <1>1 DEF Ledger!InitWith, Ledger!Out
<1>3. \E n \in {0, 1} : /\ DOMAIN lines = 1 .. n
                        /\ lines = [i \in 1 .. n |-> [sequence |-> i, event |-> InitEntry]]
    BY <1>1, <1>2
<1>4. lines \in Seq(LP!Entries) /\ \A i \in DOMAIN lines : lines[i].sequence = i
  <2>1. PICK n \in {0, 1} : lines = [i \in 1 .. n |-> [sequence |-> i, event |-> InitEntry]]
      BY <1>3
  <2>2. \A i \in 1 .. n : [sequence |-> i, event |-> InitEntry] \in LP!Entries
      BY DEF LP!Entries, HistoryEvents
  <2>3. lines \in [1 .. n -> LP!Entries]
      BY <2>1, <2>2
  <2> QED
      BY <2>1, <2>3, SeqDef
<1>5. LP!TypeOK
    BY <1>2, <1>4 DEF LP!TypeOK, LP!Calls, LP!Files
<1> QED
    BY <1>2, <1>4, <1>5, CommandsAssumption
    DEF LP!IInv, LP!ChainIntact, LP!Contiguous, LP!SoleWriter, LP!SealedNext,
        LP!AnchorsTruthful, LP!SnapshotsFirst, LP!PointerBacked, LP!At,
        LP!AppendPoints, LP!AnchorPoints

LEMMA InitTInv == Init => TInv
<1> SUFFICES ASSUME Init PROVE TInv
    OBVIOUS
<1>1. CommandsTyped
    BY DEF Init, CommandsTyped, AtManifest, Idle, Commands, Ledger!Files
<1> QED
    BY <1>1, InitLedger DEF TInv

\* A process goes on to a well-formed command.
LEMMA CommandSet ==
    ASSUME CommandsTyped, NEW p \in Procs, NEW c \in Commands, Set(p, c),
           c.kind = "bind" /\ c.stage \in {"check", "open", "write"} =>
               c.next \in DOMAIN Manifests
    PROVE  command' \in [Procs -> Commands] /\ AtManifest'
<1>1. /\ command' \in [Procs -> Commands] /\ command'[p] = c
      /\ \A q \in Procs \ {p} : command'[q] = command[q]
    BY DEF CommandsTyped, Set
<1> QED
    BY <1>1 DEF CommandsTyped, AtManifest

LEMMA DecisionTyped ==
    ASSUME TInv, NEW p \in Procs, command[p].kind = "decision",
           NEW stage \in {"append", "anchor", "check", "open", "write"}
    PROVE  LET c == [command[p] EXCEPT !.stage = stage]
           IN  c \in Commands /\ c.kind = "decision"
    BY DEF TInv, CommandsTyped, Commands, Idle

LEMMA DecisionTypesPreserved ==
    ASSUME TInv, NEW p \in Procs,
           \/ BeginDecisions(p) \/ AnchorDecision(p) \/ ReplayAgain(p)
           \/ CheckOutput(p) \/ OpenOutput(p) \/ WriteOutput(p)
    PROVE  CommandsTyped'
<1>0. Idle \in Commands /\ Idle.kind # "bind"
    BY DEF Idle, Commands
<1>1. CASE BeginDecisions(p)
  <2>1. PICK e \in PromotionEntries \cup FinalEntries, o \in Paths : BeginDecision(p, e, o)
      BY <1>1, EntriesTyped DEF BeginDecisions, PromotionDecision, FinalDecision, TInv
  <2> DEFINE c == [kind |-> "decision", stage |-> "append", event |-> e, path |-> o]
  <2>2. c \in Commands /\ c.kind # "bind"
      BY DEF Commands
  <2>3. Set(p, c) /\ UNCHANGED <<outputs, manifests>>
      BY <2>1 DEF BeginDecision
  <2> HIDE DEF c
  <2> QED
      BY <2>2, <2>3, CommandSet DEF TInv, CommandsTyped
<1>2. ASSUME NEW stage \in {"append", "anchor", "check", "open", "write"},
             command[p].kind = "decision", Enter(p, stage)
      PROVE  command' \in [Procs -> Commands] /\ AtManifest'
  <2> DEFINE c == [command[p] EXCEPT !.stage = stage]
  <2>1. c \in Commands /\ c.kind = "decision" /\ Set(p, c)
      BY <1>2, DecisionTyped DEF Enter
  <2> HIDE DEF c
  <2> QED
      BY <2>1, CommandSet DEF TInv
<1>3. ASSUME Set(p, Idle) PROVE command' \in [Procs -> Commands] /\ AtManifest'
    BY <1>0, <1>3, CommandSet DEF TInv
<1>4. CASE AnchorDecision(p) \/ ReplayAgain(p) \/ CheckOutput(p)
    BY <1>2, <1>3, <1>4
    DEF AnchorDecision, ReplayAgain, CheckOutput, Stage, TInv, CommandsTyped
<1>5. CASE OpenOutput(p) \/ WriteOutput(p)
  <2> DEFINE e == command[p].event
             o == command[p].path
  <2>1. e \in PromotionEntries \cup FinalEntries /\ o \in Paths
      BY <1>5 DEF OpenOutput, WriteOutput, Stage, TInv, CommandsTyped, Commands, Idle
  <2>2. e.decision \in PromotionDecisions \cup FinalDecisions
      BY <2>1 DEF PromotionEntries, FinalEntries
  <2>3. PICK file \in {Ledger!Truncated, Ledger!Torn, Ledger!Whole(e.decision)} :
            outputs' = [outputs EXCEPT ![o] = file]
      BY <1>5 DEF OpenOutput, WriteOutput, Ledger!Overwritten
  <2>4. file \in Ledger!Files(PromotionDecisions \cup FinalDecisions)
      BY <2>2 DEF Ledger!Files, Ledger!Truncated, Ledger!Torn, Ledger!Whole
  <2>5. UNCHANGED manifests /\ command' \in [Procs -> Commands] /\ AtManifest'
      BY <1>2, <1>3, <1>5 DEF OpenOutput, WriteOutput, Stage
  <2> HIDE DEF e, o
  <2> QED
      BY <2>1, <2>3, <2>4, <2>5 DEF TInv, CommandsTyped
<1> QED
    BY <1>1, <1>4, <1>5

LEMMA BindingTypesPreserved ==
    ASSUME TInv, NEW p \in Procs,
           \/ BindFreeze(p) \/ CheckManifest(p) \/ OpenManifest(p) \/ WriteManifest(p)
           \/ AnchorBinding(p) \/ FinishBinding(p)
    PROVE  CommandsTyped'
<1>1. Len(Manifests) = 2 /\ DOMAIN Manifests = 1 .. 2
    BY DEF Manifests
<1>2. ASSUME NEW i \in 1 .. 3, NextManifest(p, i)
      PROVE  command' \in [Procs -> Commands] /\ AtManifest'
  <2> DEFINE c == [kind |-> "bind", next |-> i, stage |-> IF i > 2 THEN "anchor" ELSE "check"]
  <2>1. c \in Commands /\ (c.stage = "check" => c.next \in 1 .. 2)
      BY <1>1 DEF Commands
  <2>2. Set(p, c) /\ c.stage \notin {"open", "write"}
      BY <1>1, <1>2 DEF NextManifest
  <2> HIDE DEF c
  <2> QED
      BY <1>1, <2>1, <2>2, CommandSet DEF TInv
<1>3. ASSUME NEW stage \in {"open", "write", "anchored"}, command[p].kind = "bind",
             stage # "anchored" => command[p].stage \in {"check", "open"},
             Enter(p, stage)
      PROVE  command' \in [Procs -> Commands] /\ AtManifest'
  <2> DEFINE c == [command[p] EXCEPT !.stage = stage]
  <2>1. /\ c \in Commands /\ c.stage = stage
        /\ stage # "anchored" => c.next \in DOMAIN Manifests
      BY <1>3 DEF TInv, CommandsTyped, AtManifest, Commands, Idle
  <2>2. Set(p, c)
      BY <1>3 DEF Enter
  <2> HIDE DEF c
  <2> QED
      BY <2>1, <2>2, CommandSet DEF TInv
<1>4. ASSUME Set(p, Idle) PROVE command' \in [Procs -> Commands] /\ AtManifest'
  <2>1. Idle \in Commands /\ Idle.kind # "bind"
      BY DEF Idle, Commands
  <2> QED
      BY <1>4, <2>1, CommandSet DEF TInv
<1>5. CASE BindFreeze(p)
  <2>1. NextManifest(p, 1) /\ UNCHANGED <<outputs, manifests>>
      BY <1>5 DEF BindFreeze
  <2>2. command' \in [Procs -> Commands] /\ AtManifest'
      BY <1>2, <2>1
  <2> QED
      BY <2>1, <2>2 DEF TInv, CommandsTyped
<1>6. CASE CheckManifest(p) \/ AnchorBinding(p) \/ FinishBinding(p)
    BY <1>3, <1>4, <1>6
    DEF CheckManifest, AnchorBinding, FinishBinding, Stage, TInv, CommandsTyped
<1>7. CASE OpenManifest(p)
    BY <1>3, <1>7 DEF OpenManifest, Stage, TInv, CommandsTyped
<1>8. CASE WriteManifest(p)
  <2>1. command[p].next + 1 \in 1 .. 3
      BY <1>1, <1>8 DEF WriteManifest, Stage, TInv, CommandsTyped, AtManifest
  <2> QED
      BY <1>2, <1>8, <2>1 DEF WriteManifest, TInv, CommandsTyped
<1> QED
    BY <1>5, <1>6, <1>7, <1>8

LEMMA EndTypesPreserved ==
    ASSUME TInv, NEW p \in Procs, LedgerStep(p) \/ Abort(p) \/ Crash(p)
    PROVE  CommandsTyped'
<1>1. CASE LedgerStep(p)
    BY <1>1 DEF LedgerStep, TInv, CommandsTyped, AtManifest
<1>2. CASE Abort(p) \/ Crash(p)
  <2>1. Idle \in Commands /\ Idle.kind # "bind"
      BY DEF Idle, Commands
  <2>2. command' \in [Procs -> Commands] /\ AtManifest'
      BY <1>2, <2>1, CommandSet DEF Abort, Crash, TInv
  <2>3. Ledger!Torn \in Ledger!Files(PromotionDecisions \cup FinalDecisions)
      BY DEF Ledger!Torn, Ledger!Files
  <2> QED
      BY <1>2, <2>2, <2>3 DEF Abort, Crash, TInv, CommandsTyped
<1> QED
    BY <1>1, <1>2

LEMMA TypesPreserved == TInv /\ [Next]_vars => TInv'
<1> SUFFICES ASSUME TInv, [Next]_vars PROVE TInv'
    OBVIOUS
<1>1. LP!IInv'
    BY LedgerNext, LP!NextIInv, CommandsAssumption DEF TInv
<1>2. CommandsTyped'
  <2>1. CASE UNCHANGED vars
      BY <2>1 DEF vars, TInv, CommandsTyped, AtManifest
  <2> QED
      BY <2>1, DecisionTypesPreserved, BindingTypesPreserved, EndTypesPreserved
      DEF Next, CommandStep
<1> QED
    BY <1>1, <1>2 DEF TInv

LEMMA AlwaysTyped == Spec => []TInv
    BY InitTInv, TypesPreserved, PTL DEF Spec

\* Files, ledger and commands keep their shapes: the decision entries that the
\* commands record, with the state a final entry quotes, are well formed.
THEOREM CommandsTypeCorrect == Spec => []TypeOK
<1>1. TInv => TypeOK
  <2>1. LP!TypeOK <=> Ledger!TypeOK
      BY DEF LP!TypeOK, Ledger!TypeOK, LP!Entries, Ledger!Entries, LP!Calls, Ledger!Calls,
             LP!AppendPoints, Ledger!AppendPoints, LP!AnchorPoints, Ledger!AnchorPoints,
             LP!Anchors, Ledger!Anchors, LP!SnapshotNames, Ledger!SnapshotNames,
             LP!Files, Ledger!Files
  <2> QED
      BY <2>1 DEF TInv, CommandsTyped, TypeOK, LP!IInv
<1> QED
    BY <1>1, AlwaysTyped, PTL

-----------------------------------------------------------------------------
(* How often an attempt or the final evaluation is recorded *)

LEMMA LastOf ==
    ASSUME NEW n \in Nat, NEW S \in SUBSET (1 .. n), S # {}
    PROVE  Max(S) \in S /\ \A i \in S : i <= Max(S)
<1>1. Machine!Max(S) = Max(S)
    BY DEF Max, Machine!Max
<1> QED
    BY <1>1, Machine!LastPosition, HistoryAssumption, MachineAssumption

\* A set of natural numbers that is not empty has a least one.
LEMMA LeastOf ==
    ASSUME NEW S \in SUBSET Nat, S # {}
    PROVE  \E t \in S : \A u \in S : t <= u
<1>1. PICK t \in S : \A u \in S : ~(<<u, t>> \in OpToRel(<, Nat))
    BY NatLessThanWellFounded, WFMin
<1>2. \A u \in S : ~(u < t)
    BY <1>1 DEF OpToRel
<1> QED
    BY <1>2

\* In a ledger that replays, the last promotion has the greatest attempt.
LEMMA LastAttemptGreatest ==
    ASSUME NEW ledger \in Seq(HistoryEvents), AttemptsContiguous(ledger),
           NEW i \in Promotions(ledger)
    PROVE  ledger[i].attempt <= Attempts(ledger)
<1> DEFINE P == Promotions(ledger)
           at(j) == ledger[j].attempt
<1>1. Len(ledger) \in Nat /\ P \in SUBSET (1 .. Len(ledger))
    BY LenProperties DEF Promotions
<1>2. ASSUME NEW j \in P PROVE at(j) \in Nat
  <2>1. ledger[j] \in HistoryEvents /\ ledger[j].event_type = "promotion_decision"
      BY <1>1, ElementOfSeq DEF Promotions
  <2> QED
      BY <2>1 DEF HistoryEvents, PromotionEntries, FinalEntries, InitEntry
<1>3. ASSUME NEW j \in P, i < j
      PROVE  \E m \in P : m < j /\ i <= m /\ at(j) = at(m) + 1
  <2> DEFINE earlier == Before(ledger, j)
             E == {k \in P : k < j}
  <2>1. earlier = [k \in 1 .. j - 1 |-> ledger[k]]
      BY <1>1 DEF Before
  <2>2. Promotions(earlier) = E
      BY <1>1, <2>1 DEF Promotions
  <2>3. E \in SUBSET (1 .. Len(ledger)) /\ i \in E
      BY <1>1, <1>3
  <2> HIDE DEF E
  <2>4. Max(E) \in E /\ i <= Max(E)
      BY <1>1, <2>3, LastOf
  <2>5. Attempts(earlier) = at(Max(E))
    <3>1. Max(E) \in 1 .. j - 1
        BY <1>1, <2>4 DEF E
    <3>2. earlier[Max(E)] = ledger[Max(E)]
        BY <2>1, <3>1
    <3> HIDE DEF earlier
    <3> QED
        BY <2>2, <2>3, <3>2 DEF Attempts
  <2>6. at(j) = Attempts(earlier) + 1
      BY DEF AttemptsContiguous
  <2> QED
      BY <2>4, <2>5, <2>6 DEF E
<1> DEFINE bad == {j \in P : i < j /\ ~(at(i) < at(j))}
<1>4. bad = {}
  <2> SUFFICES ASSUME bad # {} PROVE FALSE
      OBVIOUS
  <2>1. bad \in SUBSET Nat
      BY <1>1
  <2> HIDE DEF bad
  <2>2. PICK j \in bad : \A k \in bad : j <= k
      BY <2>1, LeastOf
  <2>3. \A k \in bad : ~(k < j)
      BY <2>1, <2>2
  <2> USE DEF bad
  <2>5. PICK m \in P : m < j /\ i <= m /\ at(j) = at(m) + 1
      BY <1>3, <2>2
  <2>6. i \in Nat /\ m \in Nat /\ at(i) \in Nat /\ at(m) \in Nat /\ at(j) \in Nat
      BY <1>1, <1>2
  <2>7. m = i \/ at(i) < at(m)
      BY <2>3, <2>5, <2>6
  <2> HIDE DEF at
  <2>8. at(i) < at(j)
      BY <2>5, <2>6, <2>7
  <2> QED
      BY <2>2, <2>8
<1>5. Max(P) \in P /\ i <= Max(P) /\ Attempts(ledger) = at(Max(P))
    BY <1>1, LastOf DEF Attempts
<1> HIDE DEF at
<1>6. i = Max(P) \/ at(i) < at(Max(P))
    BY <1>1, <1>4, <1>5
<1> QED
    BY <1>2, <1>5, <1>6 DEF at

\* The turn an entry takes: its attempt, or 0 for the final evaluation.
Turn(e) == IF e.event_type = "promotion_decision" THEN e.attempt ELSE 0

Taken(t) ==
    {i \in DOMAIN lines : lines[i].event.event_type \in DecisionTypes
                          /\ Turn(lines[i].event) = t}
Pending(t) == {p \in Procs : call[p].at \in Appending /\ Turn(command[p].event) = t}

\* Whoever recorded a turn began before anybody had.
TurnsBounded ==
    \A t \in Nat : Cardinality(Taken(t)) + Cardinality(Pending(t)) <= Cardinality(Procs)

RInv == IInv /\ TInv /\ TurnsBounded

LEMMA TakenFinite ==
    ASSUME TInv, NEW t
    PROVE  IsFiniteSet(Taken(t))
<1> DEFINE n == Len(lines)
<1>1. n \in Nat /\ DOMAIN lines = 1 .. n
    BY LenProperties DEF TInv, LP!IInv, LP!TypeOK
<1>2. Taken(t) \subseteq 1 .. n
    BY <1>1 DEF Taken
<1> HIDE DEF n
<1>3. IsFiniteSet(1 .. n)
    BY <1>1, FS_Interval
<1> QED
    BY <1>2, <1>3, FS_Subset

\* An acceptable decision takes a turn nobody has recorded.
LEMMA TurnIsFree ==
    ASSUME IInv, TInv, Replayable(Log)
    PROVE  /\ \A attempt \in 1 .. MaxAttempts, d \in PromotionDecisions :
                  AcceptsPromotion(Log, attempt, d)
                      => Taken(Turn(PromotionEntry(attempt, d))) = {}
           /\ \A d \in FinalDecisions :
                  AcceptsFinal(Log, d) => Taken(Turn(FinalEntry(Log, d))) = {}
<1>1. Log \in Seq(HistoryEvents) /\ DOMAIN Log = DOMAIN lines
    BY LogTyped DEF TInv, Log
<1>2. \A i \in DOMAIN lines : Log[i] = lines[i].event
    BY DEF Log
<1>3. ASSUME NEW attempt \in 1 .. MaxAttempts, NEW d \in PromotionDecisions,
             AcceptsPromotion(Log, attempt, d), NEW i \in Taken(attempt)
      PROVE  FALSE
  <2>1. i \in Promotions(Log) /\ Log[i].attempt = attempt
    <3>1. lines[i].event.event_type = "promotion_decision"
        BY <1>3, HistoryAssumption DEF Taken, Turn
    <3> QED
        BY <1>1, <1>2, <1>3, <3>1 DEF Taken, Promotions, Turn
  <2>2. attempt <= Attempts(Log) /\ attempt = Attempts(Log) + 1
      BY <1>1, <1>3, <2>1, LastAttemptGreatest DEF AcceptsPromotion, Replayable
  <2>3. Attempts(Log) \in Nat
      BY LogState DEF TInv
  <2> QED
      BY <2>2, <2>3, HistoryAssumption
<1>4. ASSUME NEW d \in FinalDecisions, AcceptsFinal(Log, d), NEW i \in Taken(0)
      PROVE  FALSE
  <2>1. lines[i].event \in HistoryEvents
      BY <1>1, <1>2, <1>4, ElementOfSeq DEF Taken
  <2>2. lines[i].event.event_type = "final_decision"
      BY <1>4, <2>1 DEF Taken, Turn, DecisionTypes, HistoryEvents, PromotionEntries,
                        FinalEntries, InitEntry
  <2>3. i \in Finals(Log)
      BY <1>1, <1>2, <1>4, <2>2 DEF Taken, Finals
  <2> QED
      BY <1>4, <2>3 DEF AcceptsFinal, FinalRecorded
<1> QED
    BY <1>3, <1>4 DEF Turn, PromotionEntry, FinalEntry

\* No turn is waited for by more processes than before.
LEMMA NobodyAsks ==
    ASSUME IsFiniteSet(Procs), RInv, UNCHANGED lines,
           \A q \in Procs : call'[q].at \in Appending =>
               call[q].at \in Appending /\ command'[q].event = command[q].event
    PROVE  TurnsBounded'
<1> SUFFICES ASSUME NEW t \in Nat
             PROVE  Cardinality(Taken(t)') + Cardinality(Pending(t)') <= Cardinality(Procs)
    BY DEF TurnsBounded
<1>1. Pending(t) \subseteq Procs /\ Pending(t)' \subseteq Pending(t) /\ Taken(t)' = Taken(t)
    BY DEF Pending, Taken
<1>2. IsFiniteSet(Pending(t))
    BY <1>1, FS_Subset
<1>3. /\ Cardinality(Pending(t)) \in Nat /\ Cardinality(Pending(t)') \in Nat
      /\ Cardinality(Pending(t)') <= Cardinality(Pending(t))
    BY <1>1, <1>2, FS_Subset, FS_CardinalityType
<1>4. IsFiniteSet(Taken(t))
    BY TakenFinite DEF RInv
<1>5. Cardinality(Taken(t)) \in Nat /\ Cardinality(Procs) \in Nat
    BY <1>4, FS_CardinalityType
<1> QED
    BY <1>1, <1>3, <1>5 DEF RInv, TurnsBounded

LEMMA BeginTakesTurn ==
    ASSUME IsFiniteSet(Procs), RInv, NEW p \in Procs, BeginDecisions(p)
    PROVE  TurnsBounded'
<1>1. PICK e \in PromotionEntries \cup FinalEntries, o \in Paths :
          BeginDecision(p, e, o) /\ Taken(Turn(e)) = {}
    BY EntriesTyped, TurnIsFree
    DEF BeginDecisions, PromotionDecision, FinalDecision, BeginDecision, StateReadable,
        RInv, TInv
<1>2. /\ UNCHANGED lines
      /\ \A q \in Procs \ {p} : call'[q] = call[q] /\ command'[q] = command[q]
      /\ command'[p].event = e
  <2>1. /\ command' = [command EXCEPT ![p] = [kind |-> "decision", stage |-> "append",
                                              event |-> e, path |-> o]]
        /\ call' = [call EXCEPT ![p] = [at |-> "acquire", event |-> e]]
        /\ UNCHANGED lines
      BY <1>1 DEF BeginDecision, Set, Ledger!CallAppend, Ledger!Goto, Ledger!Acquiring
  <2> QED
      BY <2>1 DEF RInv, IInv, Shapes
<1> SUFFICES ASSUME NEW t \in Nat
             PROVE  Cardinality(Taken(t)') + Cardinality(Pending(t)') <= Cardinality(Procs)
    BY DEF TurnsBounded
<1>3. Taken(t)' = Taken(t)
    BY <1>2 DEF Taken
<1>4. /\ Pending(t) \subseteq Procs /\ Pending(t)' \subseteq Procs
      /\ t # Turn(e) => Pending(t)' \subseteq Pending(t)
    BY <1>2 DEF Pending
<1>5. /\ Cardinality(Pending(t)) \in Nat /\ Cardinality(Pending(t)') \in Nat
      /\ Cardinality(Pending(t)') <= Cardinality(Procs)
      /\ Cardinality(Procs) \in Nat
      /\ t # Turn(e) => Cardinality(Pending(t)') <= Cardinality(Pending(t))
    BY <1>4, FS_Subset, FS_CardinalityType
<1>6. Cardinality(Taken(t)) \in Nat
    BY TakenFinite, FS_CardinalityType DEF RInv
<1>7. t = Turn(e) => Cardinality(Taken(t)) = 0
    BY <1>1, FS_EmptySet
<1> QED
    BY <1>3, <1>5, <1>6, <1>7 DEF RInv, TurnsBounded

\* A turn that is recorded is no longer waited for by its process.
LEMMA RecordMovesTurn ==
    ASSUME IsFiniteSet(Procs), RInv, NEW p \in Procs, LedgerStep(p), Ledger!FinishWrite(p)
    PROVE  TurnsBounded'
<1> DEFINE entry == call[p].entry
           n == Len(lines)
           turn == Turn(command[p].event)
<1>1. /\ lines' = Append(lines, entry) /\ call[p].at = "finish"
      /\ call' = [call EXCEPT ![p] = [at |-> "out"]] /\ UNCHANGED command
    BY DEF LedgerStep, Ledger!FinishWrite, Ledger!Extended, Ledger!Out, Ledger!At, Ledger!Goto
<1>2. entry.event = command[p].event /\ entry.event.event_type \in DecisionTypes
    BY <1>1 DEF RInv, IInv, ProcOK, RecordsOK, Appending, Stage
<1>3. /\ \A q \in Procs \ {p} : call'[q] = call[q]
      /\ call'[p].at \notin Appending /\ call[p].at \in Appending
    BY <1>1 DEF RInv, IInv, Shapes, Appending
<1>4. /\ n \in Nat /\ DOMAIN lines = 1 .. n /\ DOMAIN lines' = 1 .. n + 1
      /\ \A i \in 1 .. n : lines'[i] = lines[i]
      /\ lines'[n + 1] = entry
  <2>1. PICK S : lines \in Seq(S)
      BY DEF RInv, IInv, Shapes
  <2>2. lines' = Append(lines, entry)
      BY <1>1
  <2> HIDE DEF entry
  <2>3. lines \in Seq(S \cup {entry})
      BY <2>1, SeqDef
  <2> QED
      BY <2>2, <2>3, AppendProperties, LenProperties
<1> HIDE DEF entry, n
<1> SUFFICES ASSUME NEW t \in Nat
             PROVE  Cardinality(Taken(t)') + Cardinality(Pending(t)') <= Cardinality(Procs)
    BY DEF TurnsBounded
<1>5. /\ Taken(t) \subseteq 1 .. n
      /\ Taken(t)' = Taken(t) \cup (IF t = turn THEN {n + 1} ELSE {})
    BY <1>2, <1>4 DEF Taken
<1>6. /\ Pending(t) \subseteq Procs
      /\ t = turn => p \in Pending(t)
      /\ Pending(t)' = Pending(t) \ (IF t = turn THEN {p} ELSE {})
    BY <1>1, <1>3 DEF Pending
<1>7. IsFiniteSet(Taken(t)) /\ IsFiniteSet(Pending(t)) /\ n + 1 \notin Taken(t)
  <2>1. Pending(t) \subseteq Procs
      BY <1>6
  <2> QED
      BY <1>4, <1>5, <2>1, TakenFinite, FS_Subset DEF RInv
<1>8. CASE t = turn
  <2>1. Cardinality(Taken(t)') = Cardinality(Taken(t)) + 1
      BY <1>5, <1>7, <1>8, FS_AddElement
  <2>2. Cardinality(Pending(t)') = Cardinality(Pending(t)) - 1
      BY <1>6, <1>7, <1>8, FS_RemoveElement
  <2>3. Cardinality(Taken(t)) \in Nat /\ Cardinality(Pending(t)) \in Nat
      BY <1>7, FS_CardinalityType
  <2> HIDE DEF turn
  <2> QED
      BY <2>1, <2>2, <2>3 DEF RInv, TurnsBounded
<1>9. CASE t # turn
  <2>1. Taken(t)' = Taken(t) /\ Pending(t)' = Pending(t)
      BY <1>5, <1>6, <1>9
  <2> QED
      BY <2>1 DEF RInv, TurnsBounded
<1> QED
    BY <1>8, <1>9

LEMMA TurnsPreserved ==
    ASSUME IsFiniteSet(Procs)
    PROVE  RInv /\ [Next]_vars => TurnsBounded'
<1> SUFFICES ASSUME RInv, [Next]_vars PROVE TurnsBounded'
    OBVIOUS
<1>1. CASE UNCHANGED vars
    BY <1>1 DEF RInv, TurnsBounded, Taken, Pending, vars, ledgervars
<1>2. ASSUME NEW p \in Procs, UNCHANGED lines, NEW c, NEW k,
             command' = [command EXCEPT ![p] = c], call' = [call EXCEPT ![p] = k],
             k.at \notin Appending
      PROVE  TurnsBounded'
    BY <1>2, NobodyAsks DEF RInv, IInv, Shapes
<1>3. ASSUME NEW p \in Procs, UNCHANGED <<lines, call>>, NEW c,
             command' = [command EXCEPT ![p] = c], call[p].at \notin Appending
      PROVE  TurnsBounded'
    BY <1>3, NobodyAsks DEF RInv, IInv, Shapes
<1>4. ASSUME NEW p \in Procs, LedgerStep(p) PROVE TurnsBounded'
  <2>1. CASE Ledger!FinishWrite(p)
      BY <1>4, <2>1, RecordMovesTurn
  <2>2. CASE ~Ledger!FinishWrite(p)
    <3>1. UNCHANGED <<lines, command>>
        BY <1>4, <2>2 DEF LedgerStep, Ledger!Step, Ledger!AppendStep, Ledger!AnchorStep,
           Ledger!Acquire, Ledger!BeginWrite, Ledger!CheckSnapshot, Ledger!OpenSnapshot,
           Ledger!WriteSnapshot, Ledger!OpenLatest, Ledger!WriteLatest
    <3>2. PICK k : /\ call' = [call EXCEPT ![p] = k]
                   /\ k.at \in Appending => call[p].at \in Appending
        BY <1>4, <2>2 DEF LedgerStep, Ledger!Step, Ledger!AppendStep, Ledger!AnchorStep,
           Ledger!Acquire, Ledger!BeginWrite, Ledger!CheckSnapshot, Ledger!OpenSnapshot,
           Ledger!WriteSnapshot, Ledger!OpenLatest, Ledger!WriteLatest, Ledger!At,
           Ledger!Goto, Ledger!Writing, Ledger!Anchoring, Ledger!Raised, Ledger!Out, Appending
    <3> QED
        BY <3>1, <3>2, NobodyAsks DEF RInv, IInv, Shapes
  <2> QED
      BY <2>1, <2>2
<1>5. ASSUME NEW p \in Procs, AnchorDecision(p) \/ AnchorBinding(p) \/ Abort(p) \/ Crash(p),
             ~UNCHANGED call
      PROVE  TurnsBounded'
  <2>1. UNCHANGED lines /\ \E c : command' = [command EXCEPT ![p] = c]
      BY <1>5 DEF AnchorDecision, AnchorBinding, Abort, Crash, Set, Enter, ledgervars,
         Ledger!CallAnchor, Ledger!Propagate, Ledger!Crash
  <2>2. \/ call' = [call EXCEPT ![p] = [at |-> "out"]]
        \/ call' = [call EXCEPT ![p] = [at |-> "raised"]]
        \/ \E a : call' = [call EXCEPT ![p] = [at |-> "check", anchor |-> a]]
    <3>1. ASSUME NEW label, Ledger!CallAnchor(p, label)
          PROVE  \/ call' = [call EXCEPT ![p] = [at |-> "raised"]]
                 \/ \E a : call' = [call EXCEPT ![p] = [at |-> "check", anchor |-> a]]
        BY <3>1 DEF Ledger!CallAnchor, Ledger!Goto, Ledger!Raised, Ledger!Anchoring
    <3>2. ASSUME Ledger!Propagate(p) \/ Ledger!Crash(p)
          PROVE  call' = [call EXCEPT ![p] = [at |-> "out"]]
        BY <3>2 DEF Ledger!Propagate, Ledger!Crash, Ledger!Goto, Ledger!Out
    <3>3. \/ Ledger!Propagate(p) \/ Ledger!Crash(p)
          \/ \E label : Ledger!CallAnchor(p, label)
        BY <1>5 DEF AnchorDecision, AnchorBinding, Abort, Crash, ledgervars
    <3> QED
        BY <3>1, <3>2, <3>3
  <2>3. call'[p].at \notin Appending /\ \A q \in Procs \ {p} : call'[q] = call[q]
      BY <2>2 DEF RInv, IInv, Shapes, Appending
  <2> QED
      BY <2>1, <2>3, NobodyAsks DEF RInv, IInv, Shapes
<1>6. ASSUME NEW p \in Procs, BindFreeze(p) \/ CommandStep(p) \/ Crash(p), UNCHANGED call,
             ~LedgerStep(p)
      PROVE  TurnsBounded'
  <2>1. UNCHANGED lines /\ \E c : command' = [command EXCEPT ![p] = c]
      BY <1>6 DEF BindFreeze, CommandStep, Crash, AnchorDecision, ReplayAgain, CheckOutput,
         OpenOutput, WriteOutput, CheckManifest, OpenManifest, WriteManifest, NextManifest,
         AnchorBinding, FinishBinding, Abort, Set, Enter, ledgervars,
         Ledger!CallAnchor, Ledger!Propagate, Ledger!Crash
  <2>2. CASE call[p].at \in Appending
    <3>1. Stage(p, "decision", "append")
        BY <2>2 DEF RInv, IInv, ProcOK
    <3>2. Abort(p) \/ Crash(p) \/ AnchorDecision(p)
        BY <1>6, <3>1, <2>2 DEF BindFreeze, MayStart, Idle, CommandStep, ReplayAgain, CheckOutput,
           OpenOutput, WriteOutput, CheckManifest, OpenManifest, WriteManifest,
           AnchorBinding, FinishBinding, Stage
    <3> QED
        BY <1>6, <2>2, <3>2 DEF AnchorDecision, Abort, Crash, Ledger!CallAnchor, Ledger!At,
           Ledger!Propagate, Ledger!Crash, Ledger!Goto, Ledger!Out, Appending, RInv, IInv, Shapes
  <2> QED
      BY <1>3, <1>6, <2>1, <2>2
<1>7. ASSUME NEW p \in Procs, BindFreeze(p) \/ CommandStep(p), ~UNCHANGED call
      PROVE  LedgerStep(p) \/ AnchorDecision(p) \/ AnchorBinding(p) \/ Abort(p)
    BY <1>7 DEF BindFreeze, CommandStep, ReplayAgain, CheckOutput, OpenOutput, WriteOutput,
       CheckManifest, OpenManifest, WriteManifest, FinishBinding, ledgervars
<1> QED
    BY <1>1, <1>4, <1>5, <1>6, <1>7, BeginTakesTurn DEF Next

\* With finitely many processes, overlapping commands record an attempt, or the
\* final evaluation, at most once for each of them: state() is replayed before
\* each append (state.py:70-73, 100-103) and refuses what it finds recorded.
THEOREM RepeatsAlwaysBounded == IsFiniteSet(Procs) => (Spec => []RepeatsBounded)
<1> SUFFICES ASSUME IsFiniteSet(Procs) PROVE Spec => []RepeatsBounded
    OBVIOUS
<1>1. Init => RInv
  <2> SUFFICES ASSUME Init PROVE TurnsBounded
      BY InitIInv, InitTInv DEF RInv
  <2> SUFFICES ASSUME NEW t \in Nat
               PROVE  Cardinality(Taken(t)) + Cardinality(Pending(t)) <= Cardinality(Procs)
      BY DEF TurnsBounded
  <2>1. PICK recorded \in {<<>>, <<InitEntry>>} : Ledger!InitWith(recorded)
      BY DEF Init
  <2>2. Taken(t) = {} /\ Pending(t) = {}
      BY <2>1 DEF Ledger!InitWith, Ledger!Out, Taken, Pending, Appending, DecisionTypes,
                  InitEntry
  <2> QED
      BY <2>2, FS_EmptySet, FS_CardinalityType
<1>2. RInv /\ [Next]_vars => RInv'
    BY Inductive, TypesPreserved, TurnsPreserved DEF RInv
<1>3. RInv => RepeatsBounded
  <2> SUFFICES ASSUME RInv PROVE RepeatsBounded
      OBVIOUS
  <2>1. ASSUME NEW S, NEW t \in Nat, S \subseteq Taken(t)
        PROVE  Cardinality(S) <= Cardinality(Procs)
    <3>1. IsFiniteSet(Taken(t)) /\ IsFiniteSet(Pending(t))
        BY TakenFinite, FS_Subset DEF RInv, Pending
    <3>2. /\ Cardinality(S) <= Cardinality(Taken(t))
          /\ Cardinality(S) \in Nat /\ Cardinality(Taken(t)) \in Nat
          /\ Cardinality(Pending(t)) \in Nat /\ Cardinality(Procs) \in Nat
        BY <2>1, <3>1, FS_Subset, FS_CardinalityType
    <3> QED
        BY <3>2 DEF RInv, TurnsBounded
  <2>2. \A a \in 1 .. MaxAttempts :
            {i \in Promotions(Log) : Log[i].attempt = a} \subseteq Taken(a)
      BY DEF Promotions, Log, Taken, Turn, DecisionTypes
  <2>3. Finals(Log) \subseteq Taken(0)
      BY DEF Finals, Log, Taken, Turn, DecisionTypes
  <2> QED
      BY <2>1, <2>2, <2>3, HistoryAssumption DEF RepeatsBounded
<1> QED
    BY <1>1, <1>2, <1>3, PTL DEF Spec

-----------------------------------------------------------------------------
(* Commands that do not overlap *)

\* The decision was accepted for the ledger as it stands.
Due(e) ==
    /\ Replayable(Log)
    /\ \/ \E attempt \in 1 .. MaxAttempts, d \in PromotionDecisions :
              AcceptsPromotion(Log, attempt, d) /\ e = PromotionEntry(attempt, d)
       \/ \E d \in FinalDecisions : AcceptsFinal(Log, d) /\ e = FinalEntry(Log, d)

EndsWith(e) == lines # <<>> /\ lines[Len(lines)].event = e

AnchoredAt(e) ==
    /\ HeadAnchored
    /\ latest.content \in snapshots
    /\ lines[Len(lines)].event = e
    /\ latest.content.event_type = e.event_type

LabelTrue(a) == a.event_type \in {a.head.event.event_type, "freeze_bindings"}

AnchorPoints == {"check", "open_snapshot", "write_snapshot", "open_latest", "write_latest"}

\* anchor_head on behalf of a decision that is the last entry.
AnchorsDecision(p) ==
    /\ EndsWith(command[p].event)
    /\ call[p].at \in AnchorPoints =>
           /\ call[p].anchor.head = lines[Len(lines)]
           /\ call[p].anchor.event_type = command[p].event.event_type
    /\ call[p].at \in {"open_latest", "write_latest"} => call[p].anchor \in snapshots
    /\ call[p].at = "write_latest" => latest = [state |-> "empty"]
    /\ call[p].at = "out" => AnchoredAt(command[p].event)

CommandInOrder(p) ==
    /\ command[p] = Idle => call[p].at = "out"
    /\ command[p].kind = "bind" /\ command[p].stage # "anchored" => call[p].at = "out"
    /\ call[p].at \in Appending => Due(command[p].event)
    /\ call[p].at \in AnchorPoints => LabelTrue(call[p].anchor)
    /\ Stage(p, "decision", "append") /\ call[p].at = "out" => EndsWith(command[p].event)
    /\ Stage(p, "decision", "anchor") => AnchorsDecision(p)
    /\ command[p].kind = "decision" /\ command[p].stage \in {"check", "open", "write"} =>
           call[p].at = "out" /\ AnchoredAt(command[p].event)

Alone(p) == \A q \in Procs \ {p} : command[q] = Idle

SInv ==
    /\ IInv
    /\ TInv
    /\ \A p \in Procs : command[p] # Idle => Alone(p)
    /\ \A p \in Procs : CommandInOrder(p)
    /\ LabelsTruthful

\* Who acts is alone.
LEMMA ActsAlone ==
    ASSUME Serialized, SInv, NEW p \in Procs,
           BeginDecisions(p) \/ BindFreeze(p) \/ CommandStep(p) \/ Crash(p)
    PROVE  Alone(p)
<1>1. CASE MayStart(p)
    BY <1>1 DEF MayStart, Alone
<1>2. CASE command[p] # Idle
    BY <1>2 DEF SInv
<1>3. Ledger!Step(p) \/ Ledger!Propagate(p) => call[p].at # "out"
    BY DEF Ledger!Step, Ledger!AppendStep, Ledger!AnchorStep, Ledger!Acquire,
       Ledger!BeginWrite, Ledger!FinishWrite, Ledger!CheckSnapshot, Ledger!OpenSnapshot,
       Ledger!WriteSnapshot, Ledger!OpenLatest, Ledger!WriteLatest, Ledger!Propagate, Ledger!At
<1>4. call[p].at # "out" => command[p] # Idle
    BY DEF SInv, CommandInOrder
<1>5. MayStart(p) \/ command[p].kind \in {"decision", "bind"} \/ command[p] # Idle
    BY <1>3, <1>4 DEF BeginDecisions, PromotionDecision, FinalDecision, BeginDecision, BindFreeze,
       CommandStep, Crash, Stage, AnchorDecision, ReplayAgain, CheckOutput, OpenOutput,
       WriteOutput, CheckManifest, OpenManifest, WriteManifest, AnchorBinding, FinishBinding,
       LedgerStep, Abort
<1> QED
    BY <1>1, <1>2, <1>5 DEF Idle

LEMMA OnlyOneMoves ==
    ASSUME Shapes, NEW p \in Procs,
           BeginDecisions(p) \/ BindFreeze(p) \/ CommandStep(p) \/ Crash(p)
    PROVE  \A q \in Procs \ {p} : call'[q] = call[q] /\ command'[q] = command[q]
<1>1. UNCHANGED command \/ \E c : command' = [command EXCEPT ![p] = c]
    BY DEF BeginDecisions, PromotionDecision, FinalDecision, BeginDecision, BindFreeze,
       CommandStep, Crash, AnchorDecision, ReplayAgain, CheckOutput, OpenOutput, WriteOutput,
       CheckManifest, OpenManifest, WriteManifest, NextManifest, AnchorBinding, FinishBinding,
       LedgerStep, Abort, Set, Enter
<1>2. UNCHANGED call \/ \E k : call' = [call EXCEPT ![p] = k]
  <2> USE DEF Ledger!Goto
  <2>1. CASE BeginDecisions(p)
      BY <2>1 DEF BeginDecisions, PromotionDecision, FinalDecision, BeginDecision,
                  Ledger!CallAppend
  <2>2. CASE LedgerStep(p)
      BY <2>2 DEF LedgerStep, Ledger!Step, Ledger!AppendStep, Ledger!AnchorStep,
         Ledger!Acquire, Ledger!BeginWrite, Ledger!FinishWrite, Ledger!CheckSnapshot,
         Ledger!OpenSnapshot, Ledger!WriteSnapshot, Ledger!OpenLatest, Ledger!WriteLatest
  <2>3. CASE AnchorDecision(p) \/ AnchorBinding(p) \/ Abort(p) \/ Crash(p)
      BY <2>3 DEF AnchorDecision, AnchorBinding, Abort, Crash, ledgervars, Ledger!CallAnchor,
         Ledger!Propagate, Ledger!Crash
  <2>4. CASE \/ BindFreeze(p) \/ ReplayAgain(p) \/ CheckOutput(p) \/ OpenOutput(p)
             \/ WriteOutput(p) \/ CheckManifest(p) \/ OpenManifest(p) \/ WriteManifest(p)
             \/ FinishBinding(p)
      BY <2>4 DEF BindFreeze, ReplayAgain, CheckOutput, OpenOutput, WriteOutput, CheckManifest,
         OpenManifest, WriteManifest, FinishBinding, ledgervars
  <2> QED
      BY <2>1, <2>2, <2>3, <2>4 DEF CommandStep
<1> QED
    BY <1>1, <1>2 DEF Shapes

\* The command that moved is in order, so all are.
LEMMA MovedAlone ==
    ASSUME SInv, IInv', TInv', NEW p \in Procs, Alone(p),
           \A q \in Procs \ {p} : call'[q] = call[q] /\ command'[q] = command[q],
           CommandInOrder(p)', LabelsTruthful'
    PROVE  SInv'
<1>1. \A q \in Procs \ {p} : command'[q] = Idle /\ call'[q].at = "out"
    BY DEF Alone, SInv, CommandInOrder
<1>2. \A q \in Procs \ {p} : CommandInOrder(q)'
    BY <1>1 DEF CommandInOrder, Idle, Appending, AnchorPoints, Stage
<1>3. \A q \in Procs : (command[q] # Idle => Alone(q))'
    BY <1>1 DEF Alone
<1> QED
    BY <1>2, <1>3 DEF SInv

LEMMA LogGrows ==
    ASSUME TInv, NEW entry, entry.event \in HistoryEvents, lines' = Append(lines, entry)
    PROVE  /\ Log' = Append(Log, entry.event)
           /\ \A e : e = entry.event => EndsWith(e)'
<1> DEFINE n == Len(lines)
<1>1. /\ lines \in Seq(LP!Entries) /\ Log \in Seq(HistoryEvents)
      /\ Len(Log) = n /\ DOMAIN Log = 1 .. n /\ DOMAIN lines = 1 .. n /\ n \in Nat
    BY LogTyped, LenProperties DEF TInv, LP!IInv, LP!TypeOK
<1>2. lines \in Seq(LP!Entries \cup {entry})
    BY <1>1, SeqDef
<1>3. /\ DOMAIN lines' = 1 .. n + 1 /\ Len(lines') = n + 1
      /\ \A i \in 1 .. n : lines'[i] = lines[i]
      /\ lines'[n + 1] = entry
    BY <1>1, <1>2, AppendProperties, LenProperties
<1>4. /\ Append(Log, entry.event) \in Seq(HistoryEvents)
      /\ Len(Append(Log, entry.event)) = n + 1
      /\ \A i \in 1 .. n : Append(Log, entry.event)[i] = Log[i]
      /\ Append(Log, entry.event)[n + 1] = entry.event
    BY <1>1, AppendProperties
<1> DEFINE new == Append(Log, entry.event)
<1>5. new = [i \in 1 .. n + 1 |-> new[i]]
    BY <1>4, LenProperties
<1>6. \A i \in 1 .. n : Log[i] = lines[i].event
    BY <1>1 DEF Log
<1> HIDE DEF n
<1>7. \A i \in 1 .. n + 1 : new[i] = lines'[i].event
  <2> SUFFICES ASSUME NEW i \in 1 .. n + 1 PROVE new[i] = lines'[i].event
      OBVIOUS
  <2>1. i \in 1 .. n \/ i = n + 1
      BY <1>1
  <2> QED
      BY <1>3, <1>4, <1>6, <2>1
<1>8. Log' = [i \in 1 .. n + 1 |-> lines'[i].event]
    BY <1>3 DEF Log
<1> HIDE DEF new
<1>9. Log' = new
    BY <1>5, <1>7, <1>8
<1>10. \A e : e = entry.event => EndsWith(e)'
  <2>1. lines' # <<>>
      BY <1>1, <1>3
  <2> QED
      BY <1>3, <2>1 DEF EndsWith
<1> QED
    BY <1>9, <1>10 DEF new

LEMMA SameLedger ==
    ASSUME UNCHANGED lines
    PROVE  /\ \A e : Due(e) <=> Due(e)'
           /\ \A e : EndsWith(e) <=> EndsWith(e)'
    BY DEF Due, EndsWith, Log

LEMMA SameAnchor ==
    ASSUME UNCHANGED <<lines, snapshots, latest>>
    PROVE  \A e : AnchoredAt(e) <=> AnchoredAt(e)'
    BY DEF AnchoredAt, HeadAnchored

LEMMA BeginInOrder ==
    ASSUME SInv, NEW p \in Procs, BeginDecisions(p) \/ BindFreeze(p)
    PROVE  CommandInOrder(p)' /\ LabelsTruthful'
<1>1. CASE BeginDecisions(p)
  <2>1. PICK e, o : BeginDecision(p, e, o) /\ Due(e)
      BY <1>1 DEF BeginDecisions, PromotionDecision, FinalDecision, BeginDecision,
                  StateReadable, Due
  <2>2. /\ command' = [command EXCEPT ![p] = [kind |-> "decision", stage |-> "append",
                                              event |-> e, path |-> o]]
        /\ call' = [call EXCEPT ![p] = [at |-> "acquire", event |-> e]]
        /\ UNCHANGED <<lines, snapshots>>
      BY <2>1 DEF BeginDecision, Set, Ledger!CallAppend, Ledger!Goto, Ledger!Acquiring
  <2>3. /\ command'[p] = [kind |-> "decision", stage |-> "append", event |-> e, path |-> o]
        /\ call'[p] = [at |-> "acquire", event |-> e]
      BY <2>2 DEF SInv, IInv, Shapes
  <2>4. \A f : f = command'[p].event => Due(f)'
      BY <2>1, <2>2, <2>3, SameLedger
  <2>5. CommandInOrder(p)'
      BY <2>3, <2>4 DEF CommandInOrder, Idle, AnchorPoints, Stage
  <2> QED
      BY <2>2, <2>5 DEF SInv, LabelsTruthful
<1>2. CASE BindFreeze(p)
  <2>1. /\ command[p] = Idle
        /\ UNCHANGED <<call, snapshots>>
        /\ \E stage : command' = [command EXCEPT ![p] =
                                     [kind |-> "bind", next |-> 1, stage |-> stage]]
      BY <1>2 DEF BindFreeze, MayStart, NextManifest, Set, ledgervars
  <2>2. command'[p].kind = "bind"
      BY <2>1 DEF SInv, IInv, Shapes
  <2>3. call'[p].at = "out"
      BY <2>1 DEF SInv, CommandInOrder
  <2>4. CommandInOrder(p)'
      BY <2>2, <2>3 DEF CommandInOrder, Idle, AnchorPoints, Appending, Stage
  <2> QED
      BY <2>1, <2>4 DEF SInv, LabelsTruthful
<1> QED
    BY <1>1, <1>2

\* The commands' own steps; anchor_head starts on the entry just recorded.
LEMMA CommandStaysInOrder ==
    ASSUME SInv, NEW p \in Procs,
           \/ AnchorDecision(p) \/ ReplayAgain(p)
           \/ CheckOutput(p) \/ OpenOutput(p) \/ WriteOutput(p)
    PROVE  CommandInOrder(p)' /\ LabelsTruthful'
<1> USE DEF Stage, Set, Enter
<1>0. UNCHANGED <<lines, snapshots, latest>> /\ LabelsTruthful'
    BY DEF AnchorDecision, ReplayAgain, CheckOutput, OpenOutput, WriteOutput, ledgervars,
           Ledger!CallAnchor, SInv, LabelsTruthful
<1>1. ASSUME command' = [command EXCEPT ![p] = Idle], UNCHANGED call, call[p].at = "out"
      PROVE  CommandInOrder(p)'
  <2>1. command'[p] = [kind |-> "none"] /\ call'[p].at = "out"
      BY <1>1 DEF SInv, IInv, Shapes, Idle
  <2> QED
      BY <2>1 DEF CommandInOrder, AnchorPoints, Appending
<1>2. ASSUME NEW stage \in {"check", "open", "write"},
             command' = [command EXCEPT ![p] = [command[p] EXCEPT !.stage = stage]],
             command[p].kind = "decision", UNCHANGED call,
             call[p].at = "out", AnchoredAt(command[p].event)
      PROVE  CommandInOrder(p)'
  <2>1. /\ command'[p].kind = "decision" /\ command'[p].stage = stage
        /\ command'[p].event = command[p].event /\ call'[p].at = "out"
    <3> DEFINE c == command[p]
    <3>1. c = [kind |-> "decision", stage |-> c.stage, event |-> c.event, path |-> c.path]
        BY <1>2 DEF SInv, IInv, ProcOK, CommandShape
    <3>2. [c EXCEPT !.stage = stage]
              = [kind |-> "decision", stage |-> stage, event |-> c.event, path |-> c.path]
        BY <3>1
    <3>3. command'[p] = [c EXCEPT !.stage = stage]
        BY <1>2 DEF SInv, IInv, Shapes
    <3> QED
        BY <1>2, <3>2, <3>3
  <2>2. \A e : e = command'[p].event => AnchoredAt(e)'
      BY <1>0, <1>2, <2>1, SameAnchor
  <2> QED
      BY <2>1, <2>2 DEF CommandInOrder, Idle, AnchorPoints, Appending
<1>3. CASE ReplayAgain(p)
  <2>1. call[p].at = "out" /\ AnchoredAt(command[p].event) /\ UNCHANGED call
      BY <1>3 DEF ReplayAgain, ledgervars, SInv, CommandInOrder, AnchorsDecision
  <2> QED
      BY <1>0, <1>1, <1>2, <1>3, <2>1 DEF ReplayAgain
<1>4. CASE CheckOutput(p) \/ OpenOutput(p) \/ WriteOutput(p)
  <2>1. call[p].at = "out" /\ AnchoredAt(command[p].event) /\ UNCHANGED call
      BY <1>4 DEF CheckOutput, OpenOutput, WriteOutput, ledgervars, SInv, CommandInOrder
  <2> QED
      BY <1>0, <1>1, <1>2, <1>4, <2>1 DEF CheckOutput, OpenOutput, WriteOutput
<1>5. CASE AnchorDecision(p)
  <2> DEFINE c == command[p]
             e == command[p].event
  <2>1. c.kind = "decision" /\ c.stage = "append" /\ call[p].at = "out"
      BY <1>5 DEF AnchorDecision, Ledger!CallAnchor, Ledger!At
  <2>2. c = [kind |-> "decision", stage |-> c.stage, event |-> c.event, path |-> c.path]
      BY <2>1 DEF SInv, IInv, ProcOK, CommandShape
  <2>3. command'[p] = [kind |-> "decision", stage |-> "anchor", event |-> e, path |-> c.path]
    <3>1. [c EXCEPT !.stage = "anchor"]
              = [kind |-> "decision", stage |-> "anchor", event |-> e, path |-> c.path]
        BY <2>2
    <3>2. command'[p] = [c EXCEPT !.stage = "anchor"]
        BY <1>5 DEF AnchorDecision, SInv, IInv, Shapes
    <3> QED
        BY <3>1, <3>2
  <2>4. EndsWith(e)
      BY <2>1 DEF SInv, CommandInOrder
  <2>5. \/ call'[p] = [at |-> "raised"]
        \/ call'[p] = [at |-> "check",
                         anchor |-> [sequence |-> lines[Len(lines)].sequence,
                                     event_type |-> e.event_type,
                                     head |-> lines[Len(lines)]]]
      BY <1>5 DEF AnchorDecision, Ledger!CallAnchor, Ledger!Goto, Ledger!Raised,
                  Ledger!Anchoring, Ledger!HeadAnchor, SInv, IInv, Shapes
  <2>6. \A f : f = command'[p].event => EndsWith(f)'
      BY <1>0, <2>3, <2>4, SameLedger
  <2>7. call'[p].at \in {"raised", "check"} /\ call'[p].at \notin Appending
      BY <2>5 DEF Appending
  <2>8. call'[p].at \in AnchorPoints =>
            /\ call'[p].anchor.head = lines'[Len(lines')]
            /\ call'[p].anchor.event_type = command'[p].event.event_type
            /\ LabelTrue(call'[p].anchor)
    <3>1. SUFFICES ASSUME call'[p].at = "check"
                   PROVE  /\ call'[p].anchor.head = lines[Len(lines)]
                          /\ call'[p].anchor.event_type = e.event_type
                          /\ LabelTrue(call'[p].anchor)
        BY <1>0, <2>3, <2>7 DEF AnchorPoints
    <3>2. call'[p].anchor.head = lines[Len(lines)] /\ call'[p].anchor.event_type = e.event_type
        BY <2>5, <3>1
    <3> QED
        BY <2>4, <3>2 DEF EndsWith, LabelTrue
  <2>9. AnchorsDecision(p)'
      BY <2>6, <2>7, <2>8 DEF AnchorsDecision
  <2>10. CommandInOrder(p)'
      BY <2>3, <2>7, <2>8, <2>9 DEF CommandInOrder, Idle, LabelTrue
  <2> QED
      BY <1>0, <2>10
<1> QED
    BY <1>0, <1>3, <1>4, <1>5

LEMMA BindingInOrder ==
    ASSUME SInv, NEW p \in Procs,
           \/ CheckManifest(p) \/ OpenManifest(p) \/ WriteManifest(p)
           \/ AnchorBinding(p) \/ FinishBinding(p)
    PROVE  CommandInOrder(p)' /\ LabelsTruthful'
<1> USE DEF Stage, Set, Enter
<1>1. UNCHANGED <<lines, snapshots, latest>> /\ LabelsTruthful'
    BY DEF CheckManifest, OpenManifest, WriteManifest, AnchorBinding, FinishBinding, ledgervars,
           Ledger!CallAnchor, SInv, LabelsTruthful
<1>2. ASSUME command'[p].kind # "decision", call'[p].at \notin Appending,
             \/ call'[p].at = "out"
             \/ command'[p].kind = "bind" /\ command'[p].stage = "anchored",
             call'[p].at \in AnchorPoints => LabelTrue(call'[p].anchor)
      PROVE  CommandInOrder(p)'
    BY <1>2 DEF CommandInOrder, LabelTrue, Idle
<1>3. command[p].kind = "bind"
    BY DEF CheckManifest, OpenManifest, WriteManifest, AnchorBinding, FinishBinding
<1>4. /\ DOMAIN command = Procs /\ DOMAIN call = Procs
      /\ call[p].at \notin Appending
      /\ command[p] = [kind |-> "bind", next |-> command[p].next, stage |-> command[p].stage]
      /\ command[p].stage # "anchored" => call[p].at = "out"
      /\ call[p].at \in AnchorPoints => LabelTrue(call[p].anchor)
    BY <1>3 DEF SInv, IInv, Shapes, ProcOK, CommandShape, CommandInOrder
<1>5. CASE ~AnchorBinding(p)
  <2>1. UNCHANGED call /\ call[p].at = "out"
      BY <1>4, <1>5 DEF CheckManifest, OpenManifest, WriteManifest, FinishBinding, ledgervars
  <2>2. \/ command' = [command EXCEPT ![p] = Idle]
        \/ \E stage : command' = [command EXCEPT ![p] = [command[p] EXCEPT !.stage = stage]]
        \/ \E next, stage : command' = [command EXCEPT ![p] =
                                 [kind |-> "bind", next |-> next, stage |-> stage]]
      BY <1>5 DEF CheckManifest, OpenManifest, WriteManifest, NextManifest, FinishBinding
  <2>3. command'[p].kind # "decision"
    <3>1. CASE command' = [command EXCEPT ![p] = Idle]
        BY <1>4, <3>1 DEF Idle
    <3>2. ASSUME NEW stage,
                 command' = [command EXCEPT ![p] = [command[p] EXCEPT !.stage = stage]]
          PROVE  command'[p].kind # "decision"
        BY <1>4, <3>2
    <3>3. ASSUME NEW next, NEW stage,
                 command' = [command EXCEPT ![p] =
                                 [kind |-> "bind", next |-> next, stage |-> stage]]
          PROVE  command'[p].kind # "decision"
        BY <1>4, <3>3
    <3> QED
        BY <2>2, <3>1, <3>2, <3>3
  <2> QED
      BY <1>1, <1>2, <2>1, <2>3 DEF Appending, AnchorPoints
<1>6. CASE AnchorBinding(p) /\ UNCHANGED call
  <2>1. call[p].at = "out"
      BY <1>4, <1>6 DEF AnchorBinding
  <2>2. command'[p].kind # "decision"
    <3>1. CASE command' = [command EXCEPT ![p] = Idle]
        BY <1>4, <3>1 DEF Idle
    <3>2. CASE command' = [command EXCEPT ![p] = [command[p] EXCEPT !.stage = "anchored"]]
        BY <1>4, <3>2
    <3> QED
        BY <1>6, <3>1, <3>2 DEF AnchorBinding
  <2> QED
      BY <1>1, <1>2, <1>6, <2>1, <2>2 DEF Appending, AnchorPoints
<1>7. CASE AnchorBinding(p) /\ ~UNCHANGED call
  <2>1. Ledger!CallAnchor(p, "freeze_bindings")
        /\ command' = [command EXCEPT ![p] = [command[p] EXCEPT !.stage = "anchored"]]
      BY <1>7 DEF AnchorBinding, ledgervars
  <2>2. \/ call'[p] = [at |-> "raised"]
        \/ call'[p] = [at |-> "check",
                         anchor |-> [sequence |-> lines[Len(lines)].sequence,
                                     event_type |-> "freeze_bindings",
                                     head |-> lines[Len(lines)]]]
      BY <1>4, <2>1 DEF Ledger!CallAnchor, Ledger!Goto, Ledger!Raised,
                  Ledger!Anchoring, Ledger!HeadAnchor
  <2>3. call'[p].at \notin Appending
      BY <2>2 DEF Appending
  <2>4. call'[p].at \in AnchorPoints => LabelTrue(call'[p].anchor)
      BY <2>2 DEF AnchorPoints, LabelTrue
  <2>5. command'[p].kind = "bind" /\ command'[p].stage = "anchored"
      BY <1>4, <2>1
  <2> QED
      BY <1>1, <1>2, <2>3, <2>4, <2>5
<1> QED
    BY <1>5, <1>6, <1>7

\* Who anchors is at it: after a decision, or after bind-freeze.
LEMMA WhoAnchors ==
    ASSUME SInv, NEW p \in Procs, call[p].at \in AnchorPoints
    PROVE  /\ Stage(p, "decision", "anchor") \/ Stage(p, "bind", "anchored")
           /\ LabelTrue(call[p].anchor)
<1>1. /\ CommandShape(command[p]) /\ command[p] # Idle
      /\ call[p].at \notin {"out", "raised"} \cup Appending
    BY DEF SInv, IInv, ProcOK, CommandInOrder, AnchorPoints, Appending
<1>2. command[p].kind = "decision" => command[p].stage = "anchor"
    BY <1>1 DEF SInv, IInv, ProcOK, RecordsOK, CommandInOrder, CommandShape, DecisionStages,
                Appending
<1>3. command[p].kind \in {"decision", "bind"}
    BY <1>1 DEF CommandShape
<1> QED
    BY <1>1, <1>2, <1>3 DEF Stage, SInv, CommandInOrder

LEMMA AppendInOrder ==
    ASSUME SInv, NEW p \in Procs, LedgerStep(p), Ledger!AppendStep(p)
    PROVE  CommandInOrder(p)' /\ LabelsTruthful'
<1>1. UNCHANGED <<command, snapshots>>
    BY DEF LedgerStep, Ledger!AppendStep, Ledger!Acquire, Ledger!BeginWrite,
           Ledger!FinishWrite
<1>2. /\ call[p].at \in Appending /\ Stage(p, "decision", "append")
      /\ Due(command[p].event) /\ command[p] # Idle
    BY DEF Ledger!AppendStep, Ledger!Acquire, Ledger!BeginWrite, Ledger!FinishWrite, Ledger!At,
           Appending, SInv, IInv, ProcOK, CommandInOrder, Stage, Idle
<1>3. LabelsTruthful'
    BY <1>1 DEF SInv, LabelsTruthful
<1>4. CASE Ledger!Acquire(p) \/ Ledger!BeginWrite(p)
  <2>1. UNCHANGED lines /\ call'[p].at \in {"raised", "write", "finish"}
      BY <1>4 DEF Ledger!Acquire, Ledger!BeginWrite, Ledger!Goto, Ledger!Raised,
                  Ledger!Writing, SInv, IInv, Shapes
  <2>2. \A e : e = command'[p].event => Due(e)'
      BY <1>1, <1>2, <2>1, SameLedger
  <2> QED
      BY <1>1, <1>2, <1>3, <2>1, <2>2 DEF CommandInOrder, AnchorPoints, Stage
<1>5. CASE Ledger!FinishWrite(p)
  <2> DEFINE entry == call[p].entry
  <2>1. lines' = Append(lines, entry) /\ call'[p] = [at |-> "out"] /\ call[p].at = "finish"
      BY <1>5 DEF Ledger!FinishWrite, Ledger!Extended, Ledger!Goto, Ledger!Out, Ledger!At,
                  SInv, IInv, Shapes
  <2>2. entry.event = command[p].event
      BY <1>2, <2>1 DEF SInv, IInv, ProcOK, RecordsOK, Stage
  <2>3. entry.event \in HistoryEvents
      BY <1>2, <2>2 DEF Stage, SInv, TInv, CommandsTyped, Commands, Idle, HistoryEvents
  <2> HIDE DEF entry
  <2>4. \A e : e = command'[p].event => EndsWith(e)'
    <3>1. \A e : e = entry.event => EndsWith(e)'
        BY <2>1, <2>3, LogGrows DEF SInv
    <3> QED
        BY <1>1, <2>2, <3>1
  <2> QED
      BY <1>1, <1>2, <1>3, <2>1, <2>4 DEF CommandInOrder, AnchorPoints, Appending, Stage
<1> QED
    BY <1>4, <1>5 DEF Ledger!AppendStep

LEMMA AnchorInOrder ==
    ASSUME SInv, NEW p \in Procs, LedgerStep(p), Ledger!AnchorStep(p)
    PROVE  CommandInOrder(p)' /\ LabelsTruthful'
<1> DEFINE a == call[p].anchor
           e == command[p].event
<1>1. UNCHANGED <<lines, command>> /\ call[p].at \in AnchorPoints
    BY DEF LedgerStep, Ledger!AnchorStep, Ledger!CheckSnapshot, Ledger!OpenSnapshot,
           Ledger!WriteSnapshot, Ledger!OpenLatest, Ledger!WriteLatest, Ledger!At, AnchorPoints
<1>2. /\ Stage(p, "decision", "anchor") \/ Stage(p, "bind", "anchored")
      /\ LabelTrue(a) /\ command[p] # Idle
    BY <1>1, WhoAnchors DEF Stage, Idle
<1>3. Stage(p, "decision", "anchor") =>
          /\ EndsWith(e)
          /\ a.head = lines[Len(lines)] /\ a.event_type = e.event_type
          /\ call[p].at \in {"open_latest", "write_latest"} => a \in snapshots
          /\ call[p].at = "write_latest" => latest = [state |-> "empty"]
    BY <1>1 DEF SInv, CommandInOrder, AnchorsDecision
<1>4. DOMAIN call = Procs /\ \A s \in snapshots : LabelTrue(s)
    BY DEF SInv, IInv, Shapes, LabelsTruthful, LabelTrue
<1>5. /\ \A f : f = command'[p].event => (EndsWith(e) => EndsWith(f)')
      /\ lines'[Len(lines')] = lines[Len(lines)]
    BY <1>1, SameLedger
\* What has to be shown of each step.
<1>6. ASSUME call'[p].at \in AnchorPoints \cup {"raised", "out"},
             call'[p].at \in AnchorPoints => call'[p].anchor = a,
             \A s \in snapshots' : LabelTrue(s),
             Stage(p, "decision", "anchor") =>
                 /\ call'[p].at \in {"open_latest", "write_latest"} => a \in snapshots'
                 /\ call'[p].at = "write_latest" => latest' = [state |-> "empty"]
                 /\ call'[p].at = "out" =>
                        a \in snapshots' /\ latest' = [state |-> "whole", content |-> a]
      PROVE  CommandInOrder(p)' /\ LabelsTruthful'
  <2>1. LabelsTruthful'
      BY <1>6 DEF LabelsTruthful, LabelTrue
  <2>2. call'[p].at \in AnchorPoints => LabelTrue(call'[p].anchor)
      BY <1>2, <1>6
  <2>3. Stage(p, "decision", "anchor") => AnchorsDecision(p)'
    <3> SUFFICES ASSUME Stage(p, "decision", "anchor") PROVE AnchorsDecision(p)'
        OBVIOUS
    <3>1. EndsWith(command[p].event)'
        BY <1>1, <1>3, <1>5
    <3>2. call'[p].at = "out" => AnchoredAt(command[p].event)'
      <4> SUFFICES ASSUME call'[p].at = "out" PROVE AnchoredAt(command[p].event)'
          OBVIOUS
      <4>1. latest'.state = "whole" /\ latest'.content = a /\ a \in snapshots'
          BY <1>6
      <4>2. HeadAnchored'
          BY <1>1, <1>3, <4>1 DEF HeadAnchored, EndsWith
      <4> QED
          BY <1>1, <1>3, <4>1, <4>2 DEF AnchoredAt, EndsWith
    <3>3. call'[p].at \in AnchorPoints =>
              /\ call'[p].anchor.head = lines'[Len(lines')]
              /\ call'[p].anchor.event_type = command'[p].event.event_type
        BY <1>1, <1>3, <1>5, <1>6
    <3>4. call'[p].at \in {"open_latest", "write_latest"} => call'[p].anchor \in snapshots'
        BY <1>6 DEF AnchorPoints
    <3> QED
        BY <1>6, <3>1, <3>2, <3>3, <3>4 DEF AnchorsDecision
  <2>4. call'[p].at \notin Appending
      BY <1>6 DEF AnchorPoints, Appending
  <2>5. /\ Stage(p, "decision", "anchor")' => Stage(p, "decision", "anchor")
        /\ ~Stage(p, "decision", "append")'
        /\ ~(command'[p].kind = "decision" /\ command'[p].stage \in {"check", "open", "write"})
        /\ ~(command'[p].kind = "bind" /\ command'[p].stage # "anchored")
        /\ command'[p] # Idle
      BY <1>1, <1>2 DEF Stage
  <2> QED
      BY <2>1, <2>2, <2>3, <2>4, <2>5 DEF CommandInOrder
<1> USE DEF Ledger!At, Ledger!Goto, Ledger!Anchoring, Ledger!Raised, Ledger!Out
<1>7. CASE Ledger!CheckSnapshot(p)
  <2>1. /\ UNCHANGED snapshots
        /\ \/ call'[p] = [at |-> "open_snapshot", anchor |-> a]
           \/ call'[p] = [at |-> "raised"]
      BY <1>4, <1>7 DEF Ledger!CheckSnapshot
  <2> HIDE DEF a
  <2> QED
      BY <1>4, <1>6, <2>1 DEF AnchorPoints
<1>8. CASE Ledger!OpenSnapshot(p)
  <2>1. snapshots' \subseteq snapshots /\ call'[p] = [at |-> "write_snapshot", anchor |-> a]
      BY <1>4, <1>8 DEF Ledger!OpenSnapshot
  <2> HIDE DEF a
  <2> QED
      BY <1>4, <1>6, <2>1 DEF AnchorPoints
<1>9. CASE Ledger!WriteSnapshot(p)
  <2>1. /\ snapshots' = snapshots \cup {a}
        /\ call'[p] = [at |-> "open_latest", anchor |-> a]
      BY <1>4, <1>9 DEF Ledger!WriteSnapshot
  <2> HIDE DEF a
  <2> QED
      BY <1>2, <1>4, <1>6, <2>1 DEF AnchorPoints
<1>10. CASE Ledger!OpenLatest(p)
  <2>1. /\ UNCHANGED snapshots /\ latest' = [state |-> "empty"] /\ call[p].at = "open_latest"
        /\ call'[p] = [at |-> "write_latest", anchor |-> a]
      BY <1>4, <1>10 DEF Ledger!OpenLatest, Ledger!Truncated
  <2> HIDE DEF a
  <2> QED
      BY <1>3, <1>4, <1>6, <2>1 DEF AnchorPoints
<1>11. CASE Ledger!WriteLatest(p)
  <2>1. /\ UNCHANGED snapshots /\ call[p].at = "write_latest"
        /\ call'[p] = [at |-> "out"]
        /\ latest = [state |-> "empty"] => latest' = [state |-> "whole", content |-> a]
      BY <1>4, <1>11 DEF Ledger!WriteLatest, Ledger!Overwritten, Ledger!Truncated, Ledger!Whole
  <2> HIDE DEF a
  <2> QED
      BY <1>3, <1>4, <1>6, <2>1 DEF AnchorPoints
<1> QED
    BY <1>7, <1>8, <1>9, <1>10, <1>11 DEF Ledger!AnchorStep

LEMMA EndInOrder ==
    ASSUME SInv, NEW p \in Procs, Abort(p) \/ Crash(p)
    PROVE  CommandInOrder(p)' /\ LabelsTruthful'
<1>1. UNCHANGED snapshots /\ command' = [command EXCEPT ![p] = Idle]
    BY DEF Abort, Crash, Set, ledgervars, Ledger!Propagate, Ledger!Crash
<1>2. \/ UNCHANGED call /\ call[p].at = "out"
      \/ call' = [call EXCEPT ![p] = [at |-> "out"]]
    BY DEF Abort, Crash, ledgervars, Ledger!Propagate, Ledger!Crash, Ledger!Goto, Ledger!Out
<1>3. command'[p] = [kind |-> "none"] /\ call'[p].at = "out"
    BY <1>1, <1>2 DEF SInv, IInv, Shapes, Idle
<1> QED
    BY <1>1, <1>3 DEF SInv, LabelsTruthful, CommandInOrder, AnchorPoints, Appending, Stage

LEMMA InOrder ==
    ASSUME Serialized
    PROVE  SInv /\ [Next]_vars => SInv'
<1> SUFFICES ASSUME SInv, [Next]_vars PROVE SInv'
    OBVIOUS
<1>1. IInv' /\ TInv'
    BY Inductive, TypesPreserved DEF SInv
<1>2. CASE UNCHANGED vars
    BY <1>1, <1>2, SameLedger, SameAnchor
    DEF SInv, vars, ledgervars, CommandInOrder, Alone, LabelsTruthful, AnchorsDecision, Stage,
        LabelTrue, Due, EndsWith, AnchoredAt, HeadAnchored, Log
<1>3. ASSUME NEW p \in Procs,
             BeginDecisions(p) \/ BindFreeze(p) \/ CommandStep(p) \/ Crash(p)
      PROVE  SInv'
  <2>1. Alone(p)
      BY <1>3, ActsAlone
  <2>2. \A q \in Procs \ {p} : call'[q] = call[q] /\ command'[q] = command[q]
      BY <1>3, OnlyOneMoves DEF SInv, IInv
  <2>3. CommandInOrder(p)' /\ LabelsTruthful'
      BY <1>3, BeginInOrder, CommandStaysInOrder, BindingInOrder, AppendInOrder, AnchorInOrder,
         EndInOrder DEF CommandStep, LedgerStep, Ledger!Step
  <2> QED
      BY <1>1, <2>1, <2>2, <2>3, MovedAlone
<1> QED
    BY <1>2, <1>3 DEF Next

LEMMA InitSInv == Init => SInv
<1> SUFFICES ASSUME Init PROVE SInv
    OBVIOUS
<1>1. PICK recorded \in {<<>>, <<InitEntry>>} : Ledger!InitWith(recorded)
    BY DEF Init
<1>2. \A p \in Procs : command[p] = Idle /\ call[p].at = "out"
    BY <1>1 DEF Init, Ledger!InitWith, Ledger!Out
<1>3. \A p \in Procs : CommandInOrder(p)
    BY <1>2 DEF CommandInOrder, Idle, Appending, AnchorPoints, Stage
<1>4. LabelsTruthful
    BY <1>1 DEF Ledger!InitWith, LabelsTruthful
<1> QED
    BY <1>2, <1>3, <1>4, InitIInv, InitTInv DEF SInv

LEMMA AlwaysInOrder == Serialized => (Spec => []SInv)
<1> SUFFICES ASSUME Serialized PROVE Spec => []SInv
    OBVIOUS
<1>1. SInv /\ [Next]_vars => SInv'
    BY InOrder
<1> QED
    BY <1>1, InitSInv, PTL DEF Spec

\* When commands do not overlap, a decision command that gets as far as its
\* decision file leaves the ledger anchored at its own entry.
THEOREM SerializedAnchors == Serialized => (Spec => []AnchoredWhenWritten)
<1> SUFFICES ASSUME Serialized PROVE Spec => []AnchoredWhenWritten
    OBVIOUS
<1>1. SInv => AnchoredWhenWritten
    BY DEF SInv, CommandInOrder, AnchoredAt, AnchoredWhenWritten
<1> QED
    BY <1>1, AlwaysInOrder, PTL

\* When commands do not overlap, a snapshot carries the event type of the entry
\* it anchors, or that of bind-freeze.
THEOREM SerializedLabels == Serialized => (Spec => []LabelsTruthful)
<1> SUFFICES ASSUME Serialized PROVE Spec => []LabelsTruthful
    OBVIOUS
<1>1. SInv => LabelsTruthful
    BY DEF SInv
<1> QED
    BY <1>1, AlwaysInOrder, PTL

\* The replayed history grows by the entry that was due.
LEMMA HistoryStep ==
    SInv /\ [Next]_vars =>
        \/ UNCHANGED Log
        \/ \E e : Due(e) /\ Log' = Append(Log, e)
<1> SUFFICES ASSUME SInv, [Next]_vars, ~UNCHANGED lines
             PROVE  \E e : Due(e) /\ Log' = Append(Log, e)
    BY DEF Log
<1>1. PICK p \in Procs : LedgerStep(p) /\ Ledger!FinishWrite(p)
  <2>1. PICK p \in Procs :
            BeginDecisions(p) \/ BindFreeze(p) \/ CommandStep(p) \/ Crash(p)
      BY DEF Next, vars, ledgervars
  <2>2. LedgerStep(p)
      BY <2>1 DEF BeginDecisions, PromotionDecision, FinalDecision, BeginDecision, BindFreeze,
       CommandStep, Crash, AnchorDecision, ReplayAgain, CheckOutput, OpenOutput, WriteOutput,
       CheckManifest, OpenManifest, WriteManifest, AnchorBinding, FinishBinding, Abort,
       ledgervars, Ledger!CallAppend, Ledger!CallAnchor, Ledger!Propagate, Ledger!Crash
  <2>3. Ledger!FinishWrite(p)
      BY <2>2 DEF LedgerStep, Ledger!Step, Ledger!AppendStep, Ledger!AnchorStep,
         Ledger!Acquire, Ledger!BeginWrite, Ledger!CheckSnapshot,
         Ledger!OpenSnapshot, Ledger!WriteSnapshot, Ledger!OpenLatest, Ledger!WriteLatest
  <2> QED
      BY <2>2, <2>3
<1> DEFINE entry == call[p].entry
<1>2. lines' = Append(lines, entry) /\ call[p].at = "finish"
    BY <1>1 DEF Ledger!FinishWrite, Ledger!Extended, Ledger!At
<1>3. Stage(p, "decision", "append") /\ entry.event = command[p].event
    BY <1>2 DEF SInv, IInv, ProcOK, RecordsOK, Appending, Stage
<1>4. Due(entry.event)
    BY <1>2, <1>3 DEF SInv, CommandInOrder, Appending
<1>5. entry.event \in HistoryEvents
    BY <1>3 DEF Stage, SInv, TInv, CommandsTyped, Commands, Idle, HistoryEvents
<1> HIDE DEF entry
<1>6. Log' = Append(Log, entry.event)
    BY <1>2, <1>5, LogGrows DEF SInv
<1> QED
    BY <1>4, <1>6

LEMMA InitLog == Init => Log \in {<<>>, <<InitEntry>>}
<1> SUFFICES ASSUME Init PROVE Log \in {<<>>, <<InitEntry>>}
    OBVIOUS
<1>1. PICK recorded \in {<<>>, <<InitEntry>>} : Ledger!InitWith(recorded)
    BY DEF Init
<1>2. lines = [i \in DOMAIN recorded |-> [sequence |-> i, event |-> recorded[i]]]
    BY <1>1 DEF Ledger!InitWith
<1>3. Log = [i \in DOMAIN recorded |-> recorded[i]]
    BY <1>2 DEF Log
<1> QED
    BY <1>1, <1>3

\* When commands do not overlap, check, append and anchor of one command are one
\* step of PromotionStateMachine, wherever a command dies.
THEOREM SerializedDecisionsAtomic == Serialized => (Spec => AtomicDecisions)
<1> SUFFICES ASSUME Serialized PROVE Spec => AtomicDecisions
    OBVIOUS
<1> USE DEF Promotions, Atomic!Promotions, Finals, Atomic!Finals, Promoted, Atomic!Promoted,
            Max, Atomic!Max, Before, Atomic!Before, Attempts, Atomic!Attempts,
            Champion, Atomic!Champion, FinalRecorded, Atomic!FinalRecorded,
            Stopped, Atomic!Stopped
<1>1. Init => Atomic!Init
    BY InitLog DEF Atomic!Init, InitEntry, Atomic!InitEntry
<1>2. SInv /\ [Next]_vars => [Atomic!Next]_Log
  <2> SUFFICES ASSUME NEW e, Due(e), Log' = Append(Log, e) PROVE Atomic!Next
      BY HistoryStep
  <2>1. Atomic!Replayable(Log)
      BY DEF Due, Replayable, Atomic!Replayable, AttemptsContiguous, Atomic!AttemptsContiguous,
             FinalOnce, Atomic!FinalOnce
  <2>2. ASSUME NEW attempt \in 1 .. MaxAttempts, NEW d \in PromotionDecisions,
               AcceptsPromotion(Log, attempt, d), e = PromotionEntry(attempt, d)
        PROVE  Atomic!Next
    <3>1. Atomic!record_promotion(attempt, d)
        BY <2>1, <2>2 DEF Atomic!record_promotion, AcceptsPromotion, Atomic!AcceptsPromotion,
                          PromotionEntry, Atomic!PromotionEntry
    <3>2. d \in Atomic!PromotionDecisions
        BY DEF PromotionDecisions, Atomic!PromotionDecisions, Decisions, Atomic!Decisions
    <3> QED
        BY <3>1, <3>2 DEF Atomic!Next
  <2>3. ASSUME NEW d \in FinalDecisions, AcceptsFinal(Log, d), e = FinalEntry(Log, d)
        PROVE  Atomic!Next
    <3>1. Atomic!record_final(d)
        BY <2>1, <2>3 DEF Atomic!record_final, AcceptsFinal, Atomic!AcceptsFinal,
                          FinalEntry, Atomic!FinalEntry, State, Atomic!State
    <3>2. d \in Atomic!FinalDecisions
        BY DEF FinalDecisions, Atomic!FinalDecisions, Decisions, Atomic!Decisions
    <3> QED
        BY <3>1, <3>2 DEF Atomic!Next
  <2> QED
      BY <2>2, <2>3 DEF Due
<1> QED
    BY <1>1, <1>2, AlwaysInOrder, PTL DEF Spec, AtomicDecisions, Atomic!Spec

\* When commands do not overlap, what the ledger says about the experiment is
\* sound: it replays, every promotion beat the champion of its moment, and one
\* final evaluation of the last champion closes it (state.py:100).
THEOREM SerializedHistorySound == Serialized => (Spec => [](Sound(Log) /\ FinalOnlyOnce))
<1> SUFFICES ASSUME Serialized PROVE Spec => [](Sound(Log) /\ FinalOnlyOnce)
    OBVIOUS
<1> USE DEF Promotions, Machine!Promotions, Finals, Machine!Finals, Promoted, Machine!Promoted,
            Max, Machine!Max, Before, Machine!Before, Attempts, Machine!Attempts,
            Champion, Machine!Champion, FinalRecorded, Machine!FinalRecorded,
            Stopped, Machine!Stopped, State, Machine!State
<1>1. Atomic!Init => Machine!Init
    BY DEF Atomic!Init, Machine!Init, Machine!InitEntry, Atomic!InitEntry
<1>2. [Atomic!Next]_Log => [Machine!Next]_Log
  <2> USE DEF Atomic!Promotions, Atomic!Finals, Atomic!Promoted, Atomic!Max, Atomic!Before,
              Atomic!Attempts, Atomic!Champion, Atomic!FinalRecorded, Atomic!Stopped,
              Atomic!State
  <2>1. Atomic!Replayable(Log) <=> Machine!Replayable(Log)
      BY DEF Atomic!Replayable, Machine!Replayable, Atomic!AttemptsContiguous,
             Machine!AttemptsContiguous, Atomic!FinalOnce, Machine!FinalOnce
  <2>2. \A attempt, d : Atomic!record_promotion(attempt, d) <=> Machine!record_promotion(attempt, d)
      BY <2>1 DEF Atomic!record_promotion, Machine!record_promotion, Atomic!AcceptsPromotion,
                  Machine!AcceptsPromotion, Atomic!PromotionEntry, Machine!PromotionEntry
  <2>3. \A d : Atomic!record_final(d) <=> Machine!record_final(d)
      BY <2>1 DEF Atomic!record_final, Machine!record_final, Atomic!AcceptsFinal,
                  Machine!AcceptsFinal, Atomic!FinalEntry, Machine!FinalEntry
  <2>4. /\ Atomic!PromotionDecisions = Machine!PromotionDecisions
        /\ Atomic!FinalDecisions = Machine!FinalDecisions
      BY DEF Atomic!PromotionDecisions, Machine!PromotionDecisions, Atomic!FinalDecisions,
             Machine!FinalDecisions, Atomic!Decisions, Machine!Decisions
  <2> QED
      BY <2>2, <2>3, <2>4 DEF Atomic!Next, Machine!Next
<1>3. Machine!LogSound => Sound(Log) /\ FinalOnlyOnce
    BY DEF Machine!LogSound, Sound, Machine!Sound, Replayable, Machine!Replayable,
       AttemptsContiguous, Machine!AttemptsContiguous, FinalOnce, Machine!FinalOnce,
       JudgedAgainstChampion, Machine!JudgedAgainstChampion, FinalClosesRun,
       Machine!FinalClosesRun, StateBeforeExact, Machine!StateBeforeExact, WithinBudget,
       Machine!WithinBudget, FinalOnlyOnce
<1>4. Machine!Spec => []Machine!LogSound
    BY Machine!PromotionLogSound, HistoryAssumption, MachineAssumption
<1> QED
    BY <1>1, <1>2, <1>3, <1>4, SerializedDecisionsAtomic, PTL
    DEF AtomicDecisions, Atomic!Spec, Machine!Spec

\* However commands overlap, they use the ledger by its two operations only, and
\* what RunLedger promises holds of the ledger of a run directory.
THEOREM CommandsUseLedger ==
    Spec => /\ [][Ledger!Next]_ledgervars
            /\ [](Ledger!ChainIntact /\ Ledger!AnchorsTruthful /\ Ledger!PointerBacked)
<1>1. TInv /\ [Next]_vars => [Ledger!Next]_ledgervars
  <2>1. LP!Next => Ledger!Next
      BY LedgerActions DEF LP!Next, Ledger!Next, LP!Begin, Ledger!Begin
  <2> QED
      BY <2>1, LedgerNext DEF ledgervars, LP!vars
<1>2. TInv => Ledger!ChainIntact /\ Ledger!AnchorsTruthful /\ Ledger!PointerBacked
    BY DEF TInv, LP!IInv, LP!ChainIntact, Ledger!ChainIntact, LP!Contiguous, Ledger!Contiguous,
       LP!AnchorsTruthful, Ledger!AnchorsTruthful, LP!AnchorTruthful, Ledger!AnchorTruthful,
       LP!At, Ledger!At, LP!AnchorPoints, Ledger!AnchorPoints,
       LP!PointerBacked, Ledger!PointerBacked, LP!Name, Ledger!Name
<1> QED
    BY <1>1, <1>2, AlwaysTyped, PTL DEF Spec
=============================================================================
