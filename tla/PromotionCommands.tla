------------------------- MODULE PromotionCommands -------------------------
(***************************************************************************)
(* The commands that touch the ledger of a frozen run directory, each one  *)
(* an operating-system process of its own (vse/cli.py):                    *)
(*                                                                         *)
(*   promotion-decision, final-decision: replay the ledger and check the   *)
(*     decision against it, append, anchor the head, replay again, write   *)
(*     the decision file once;                                             *)
(*   bind-freeze, run again: rewrite the frozen manifests it finds, anchor *)
(*     the head.                                                           *)
(*                                                                         *)
(* The ledger's own steps are those of RunLedger.  The first replay is not *)
(* under the ledger's lock.  With Serialized = TRUE an operator starts a   *)
(* command only when none is running; nothing in the code enforces that.   *)
(*                                                                         *)
(* A definition whose name ends in _bug is a slip the code could have had; *)
(* the property named beside it rules it out.                              *)
(***************************************************************************)
EXTENDS PromotionHistory

CONSTANTS
    Procs, NoProc,
    Serialized,  \* commands never overlap
    Paths        \* --output paths the operator uses

ASSUME CommandsAssumption == NoProc \notin Procs /\ Serialized \in BOOLEAN

VARIABLES
    lines, partial, lock, call, snapshots, stubs, latest,  \* RunLedger
    command,    \* command[p]: the command p runs and how far it is
    outputs,    \* outputs[o]: the decision file at path o
    manifests   \* manifests[m]: "absent", "partial" or "whole"

\* What bind-freeze writes, in its order; no command here tells its three
\* receipts apart.
Manifests == <<"receipts", "freeze_bindings">>

Labels == {"promotion_decision", "final_decision", "freeze_bindings"}

Ledger == INSTANCE RunLedger WITH Events <- HistoryEvents

ledgervars == <<lines, partial, lock, call, snapshots, stubs, latest>>
vars == <<ledgervars, command, outputs, manifests>>

Log == [i \in DOMAIN lines |-> lines[i].event]

\* PromotionStateMachine.state() returns.
StateReadable == Ledger!Readable /\ Replayable(Log)

-----------------------------------------------------------------------------
Idle == [kind |-> "none"]

Commands ==
    {Idle}
        \cup [kind : {"decision"},
              stage : {"append", "anchor", "check", "open", "write"},
              event : PromotionEntries \cup FinalEntries, path : Paths]
        \cup [kind : {"bind"},
              stage : {"check", "open", "write", "anchor", "anchored"},
              next : 1 .. Len(Manifests) + 1]

Stage(p, kind, stage) == command[p].kind = kind /\ command[p].stage = stage
Set(p, c) == command' = [command EXCEPT ![p] = c]
Enter(p, stage) == Set(p, [command[p] EXCEPT !.stage = stage])

MayStart(p) ==
    /\ command[p] = Idle
    /\ Serialized => \A q \in Procs : command[q] = Idle

Init ==
    /\ \E recorded \in {<<>>, <<InitEntry>>} : Ledger!InitWith(recorded)
    /\ command = [p \in Procs |-> Idle]
    /\ outputs = [o \in Paths |-> [state |-> "absent"]]
    /\ manifests = [m \in {Manifests[i] : i \in DOMAIN Manifests} |-> "absent"]

-----------------------------------------------------------------------------
(* promotion-decision and final-decision *)

\* DecisionFilesBacked: the decision file is written, nothing is recorded.
BeginDecision_bug(p, event, o) ==
    /\ MayStart(p)
    /\ manifests["freeze_bindings"] = "whole"
    /\ StateReadable
    /\ Set(p, [kind |-> "decision", stage |-> "check", event |-> event, path |-> o])
    /\ UNCHANGED <<ledgervars, outputs, manifests>>

\* The command read freeze_bindings.json, replayed the ledger and found the
\* decision acceptable; it goes on to append.  A refused one changes nothing.
BeginDecision(p, event, o) ==
    /\ MayStart(p)
    /\ manifests["freeze_bindings"] = "whole"
    /\ StateReadable
    /\ Ledger!CallAppend(p, event)
    /\ Set(p, [kind |-> "decision", stage |-> "append", event |-> event, path |-> o])
    /\ UNCHANGED <<outputs, manifests>>

PromotionDecision(p, attempt, d, o) ==
    /\ AcceptsPromotion(Log, attempt, d)
    /\ BeginDecision(p, PromotionEntry(attempt, d), o)

\* AtomicDecisions: a recorded final evaluation does not refuse another.
FinalDecision_bug(p, d, o) ==
    /\ d.candidate = Champion(Log)
    /\ BeginDecision(p, FinalEntry(Log, d), o)

FinalDecision(p, d, o) ==
    /\ AcceptsFinal(Log, d)
    /\ BeginDecision(p, FinalEntry(Log, d), o)

\* AnchoredWhenWritten: a misspelt binding name turns anchoring off.
AnchorDecision_bug1(p) ==
    /\ Stage(p, "decision", "append")
    /\ call[p].at = "out"
    /\ Enter(p, "anchor")
    /\ UNCHANGED <<ledgervars, outputs, manifests>>

\* LabelsTruthful: record_final anchors as record_promotion does.
AnchorDecision_bug2(p) ==
    /\ Stage(p, "decision", "append")
    /\ Ledger!CallAnchor(p, "promotion_decision")
    /\ Enter(p, "anchor")
    /\ UNCHANGED <<outputs, manifests>>

\* append has returned: anchor the head.
AnchorDecision(p) ==
    /\ Stage(p, "decision", "append")
    /\ Ledger!CallAnchor(p, command[p].event.event_type)
    /\ Enter(p, "anchor")
    /\ UNCHANGED <<outputs, manifests>>

\* `return self.state()`: the new state is replayed, or the command raises.
ReplayAgain(p) ==
    /\ Stage(p, "decision", "anchor")
    /\ call[p].at = "out"
    /\ \/ StateReadable /\ Enter(p, "check")
       \/ ~StateReadable /\ Set(p, Idle)
    /\ UNCHANGED <<ledgervars, outputs, manifests>>

\* write_decision_once: other content at the path raises.
CheckOutput(p) ==
    LET file == outputs[command[p].path]
        free == file \in {[state |-> "absent"], Ledger!Whole(command[p].event.decision)}
    IN  /\ Stage(p, "decision", "check")
        /\ \/ free /\ Enter(p, "open")
           \/ ~free /\ Set(p, Idle)
        /\ UNCHANGED <<ledgervars, outputs, manifests>>

OpenOutput(p) ==
    /\ Stage(p, "decision", "open")
    /\ outputs' = [outputs EXCEPT ![command[p].path] = Ledger!Truncated]
    /\ Enter(p, "write")
    /\ UNCHANGED <<ledgervars, manifests>>

WriteOutput(p) ==
    LET o == command[p].path
    IN  /\ Stage(p, "decision", "write")
        /\ \E file \in Ledger!Overwritten(outputs[o], command[p].event.decision) :
               outputs' = [outputs EXCEPT ![o] = file]
        /\ Set(p, Idle)
        /\ UNCHANGED <<ledgervars, manifests>>

-----------------------------------------------------------------------------
(* bind-freeze, over the same inputs as the first time *)

\* The manifest bind-freeze is at, or the anchor when all are written.
NextManifest(p, i) ==
    Set(p, [kind |-> "bind", next |-> i,
            stage |-> IF i > Len(Manifests) THEN "anchor" ELSE "check"])

BindFreeze(p) ==
    /\ MayStart(p)
    /\ NextManifest(p, 1)
    /\ UNCHANGED <<ledgervars, outputs, manifests>>

Manifest(p) == Manifests[command[p].next]

\* _write_once: a file that is there and is not complete differs from what
\* would be written, and raises.
CheckManifest(p) ==
    /\ Stage(p, "bind", "check")
    /\ \/ manifests[Manifest(p)] # "partial" /\ Enter(p, "open")
       \/ manifests[Manifest(p)] = "partial" /\ Set(p, Idle)
    /\ UNCHANGED <<ledgervars, outputs, manifests>>

\* It is written again even when it is already there.
OpenManifest(p) ==
    /\ Stage(p, "bind", "open")
    /\ manifests' = [manifests EXCEPT ![Manifest(p)] = "partial"]
    /\ Enter(p, "write")
    /\ UNCHANGED <<ledgervars, outputs>>

WriteManifest(p) ==
    /\ Stage(p, "bind", "write")
    /\ manifests' = [manifests EXCEPT ![Manifest(p)] = "whole"]
    /\ NextManifest(p, command[p].next + 1)
    /\ UNCHANGED <<ledgervars, outputs>>

\* Nothing to anchor in an empty ledger, else anchor_head.
AnchorBinding(p) ==
    /\ Stage(p, "bind", "anchor")
    /\ \/ /\ Ledger!Readable
          /\ lines = <<>>
          /\ Set(p, Idle)
          /\ UNCHANGED ledgervars
       \/ /\ ~(Ledger!Readable /\ lines = <<>>)
          /\ Ledger!CallAnchor(p, "freeze_bindings")
          /\ Enter(p, "anchored")
    /\ UNCHANGED <<outputs, manifests>>

FinishBinding(p) ==
    /\ Stage(p, "bind", "anchored")
    /\ call[p].at = "out"
    /\ Set(p, Idle)
    /\ UNCHANGED <<ledgervars, outputs, manifests>>

-----------------------------------------------------------------------------
LedgerStep(p) ==
    /\ Ledger!Step(p)
    /\ UNCHANGED <<command, outputs, manifests>>

\* An exception in the ledger's code ends the command.
Abort(p) ==
    /\ Ledger!Propagate(p)
    /\ Set(p, Idle)
    /\ UNCHANGED <<outputs, manifests>>

\* The process dies: its files stay as they are, or half overwritten.
Crash(p) ==
    /\ command[p] # Idle
    /\ \/ call[p].at = "out" /\ UNCHANGED ledgervars
       \/ Ledger!Crash(p)
    /\ \/ UNCHANGED outputs
       \/ /\ Stage(p, "decision", "write")
          /\ outputs' = [outputs EXCEPT ![command[p].path] = Ledger!Torn]
    /\ Set(p, Idle)
    /\ UNCHANGED manifests

CommandStep(p) ==
    \/ AnchorDecision(p) \/ ReplayAgain(p)
    \/ CheckOutput(p) \/ OpenOutput(p) \/ WriteOutput(p)
    \/ CheckManifest(p) \/ OpenManifest(p) \/ WriteManifest(p)
    \/ AnchorBinding(p) \/ FinishBinding(p)
    \/ LedgerStep(p) \/ Abort(p)

BeginDecisions(p) ==
    \/ \E attempt \in 1 .. MaxAttempts, d \in PromotionDecisions, o \in Paths :
           PromotionDecision(p, attempt, d, o)
    \/ \E d \in FinalDecisions, o \in Paths : FinalDecision(p, d, o)

Next ==
    \E p \in Procs :
        BeginDecisions(p) \/ BindFreeze(p) \/ CommandStep(p) \/ Crash(p)

Fairness == \A p \in Procs : WF_vars(CommandStep(p))

Spec == Init /\ [][Next]_vars /\ Fairness

-----------------------------------------------------------------------------
(* Properties of every interleaving *)

TypeOK ==
    /\ Ledger!TypeOK
    /\ command \in [Procs -> Commands]
    /\ outputs \in [Paths -> Ledger!Files(PromotionDecisions \cup FinalDecisions)]
    /\ manifests \in [{Manifests[i] : i \in DOMAIN Manifests} ->
                         {"absent", "partial", "whole"}]

\* A decision file is evidence: what it says is in the ledger, whatever was
\* interrupted or overtaken (cli.py:308-330 records before it writes).
DecisionFilesBacked ==
    \A o \in Paths :
        outputs[o].state = "whole" =>
            \E i \in Promotions(Log) \cup Finals(Log) :
                Log[i].decision = outputs[o].content

\* Even when commands overlap, no promotion is judged against a group that was
\* not the champion when its attempt was the next one.
JudgedAgainstSomeChampion ==
    \A i \in Promotions(Log) : \E k \in 1 .. i :
        /\ Log[i].decision.champion = Champion(Before(Log, k))
        /\ Log[i].attempt = Attempts(Before(Log, k)) + 1
        /\ ~Stopped(Before(Log, k))

\* The damage of overlapping commands is bounded: an attempt number is used at
\* most once per process, and so is the final evaluation, because a replay
\* refuses whoever comes after one of them is recorded.
RepeatsBounded ==
    /\ \A a \in 1 .. MaxAttempts :
           Cardinality({i \in Promotions(Log) : Log[i].attempt = a})
               <= Cardinality(Procs)
    /\ Cardinality(Finals(Log)) <= Cardinality(Procs)

\* Every command comes to an end, whoever holds the ledger's lock in the meantime and
\* however the others run or die: flock waits without a timeout (ledger.py:90), and only
\* the kernel, on close or death, gives the lock back.
CommandsEnd == \A p \in Procs : command[p] # Idle ~> command[p] = Idle

-----------------------------------------------------------------------------
(* Properties of commands that do not overlap *)

Atomic == INSTANCE PromotionStateMachine WITH log <- Log

\* Check, append and anchor of one command are one step of the experiment.
AtomicDecisions == Atomic!Spec

HeadAnchored ==
    /\ lines # <<>>
    /\ latest.state = "whole"
    /\ latest.content.head = lines[Len(lines)]

\* A decision command that gets as far as its decision file leaves the ledger
\* anchored at its own entry, by pointer and by snapshot, whatever earlier
\* commands left half done (freeze.py:289-295 refuses any other head).
AnchoredWhenWritten ==
    \A p \in Procs :
        command[p].kind = "decision" /\ command[p].stage \in {"check", "open", "write"} =>
            /\ HeadAnchored
            /\ latest.content \in snapshots
            /\ lines[Len(lines)].event = command[p].event
            /\ latest.content.event_type = command[p].event.event_type

\* A snapshot carries the event type of the entry it anchors.
LabelsTruthful ==
    \A a \in snapshots :
        a.event_type \in {a.head.event.event_type, "freeze_bindings"}

-----------------------------------------------------------------------------
(* A promise of the repository that overlapping commands break *)

\* state.py:100 "final evaluation may run only once"
FinalOnlyOnce == FinalOnce(Log)
=============================================================================
