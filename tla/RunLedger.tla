----------------------------- MODULE RunLedger -----------------------------
(***************************************************************************)
(* vse/ledger.py: the hash-chained run ledger `ledger/events.jsonl`, its   *)
(* head-anchor snapshots `ledger/anchors/` and the latest-head pointer     *)
(* `ledger/head_anchor.json`, shared by operating-system processes that    *)
(* may die between any two system calls.                                   *)
(*                                                                         *)
(* append takes an flock, re-reads the file and writes one line under it;  *)
(* validate and anchor_head take no lock.  A SHA-256 hash is modelled as   *)
(* the value it is computed from, so an anchor's head_hash is the entry    *)
(* itself, and the hash chain, which the sequence numbers already fix in a *)
(* file that is only appended to, is left out.  A process death is the     *)
(* only failure; a power loss after write() and before fsync() is not      *)
(* modelled, so fsync changes nothing here.                                *)
(*                                                                         *)
(* A definition whose name ends in _bug is a slip the code could have had; *)
(* the property named beside it rules it out.                              *)
(***************************************************************************)
EXTENDS Integers, Sequences

CONSTANTS
    Procs,    \* the operating-system processes
    NoProc,   \* the holder of a free lock
    Events,   \* what can be recorded: event type, payload and bindings
    Labels    \* the event types anchor_head is called with

ASSUME LedgerAssumption == NoProc \notin Procs

VARIABLES
    lines,      \* the complete lines of events.jsonl
    partial,    \* bytes follow the last newline of events.jsonl
    lock,       \* who holds the flock on events.jsonl
    call,       \* call[p]: where p is inside append or anchor_head
    snapshots,  \* the completely written files of ledger/anchors/
    stubs,      \* the names in ledger/anchors/ that are truncated
    latest      \* head_anchor.json

vars == <<lines, partial, lock, call, snapshots, stubs, latest>>

-----------------------------------------------------------------------------
Entries == [sequence : Nat \ {0}, event : Events]
Anchors == [sequence : Nat \ {0}, event_type : Labels, head : Entries]
SnapshotNames == [sequence : Nat \ {0}, event_type : Labels]

\* A file whose writers may disagree: "empty" is just truncated, "torn" a
\* prefix or a mixture of what was written; no reader accepts either.
Files(Contents) ==
    [state : {"absent", "empty", "torn"}]
        \cup [state : {"whole"}, content : Contents]

Truncated == [state |-> "empty"]
Torn == [state |-> "torn"]
Whole(content) == [state |-> "whole", content |-> content]

\* What a write_text at offset 0 leaves in a file that its own open()
\* truncated and that another process may have written meanwhile.
Overwritten(file, content) ==
    IF file \in {Truncated, Whole(content)}
    THEN {Whole(content)}
    ELSE {Whole(content), Torn}

\* The calls in progress, by the next thing the process does.
AppendPoints == {"write", "finish"}
AnchorPoints ==
    {"check", "open_snapshot", "write_snapshot", "open_latest", "write_latest"}
Calls ==
    [at : {"out", "raised"}]
        \cup [at : {"acquire"}, event : Events]
        \cup [at : AppendPoints, entry : Entries]
        \cup [at : AnchorPoints, anchor : Anchors]

At(p) == call[p].at
Goto(p, c) == call' = [call EXCEPT ![p] = c]
Out == [at |-> "out"]
Raised == [at |-> "raised"]
Acquiring(e) == [at |-> "acquire", event |-> e]
Writing(at, entry) == [at |-> at, entry |-> entry]
Anchoring(at, a) == [at |-> at, anchor |-> a]

-----------------------------------------------------------------------------
\* _read: every line parses and the sequence numbers are contiguous.
Contiguous(ls) == \A i \in DOMAIN ls : ls[i].sequence = i

Readable == ~partial /\ Contiguous(lines)

\* TypeOK: sequence numbers start at 0.
SealedEntry_bug(e) == [sequence |-> Len(lines), event |-> e]
SealedEntry(e) == [sequence |-> Len(lines) + 1, event |-> e]

\* AnchorsTruthful: the anchor takes the number of the next entry.
HeadAnchor_bug(label) ==
    [sequence |-> Len(lines) + 1,
     event_type |-> label,
     head |-> lines[Len(lines)]]
HeadAnchor(label) ==
    [sequence |-> lines[Len(lines)].sequence,
     event_type |-> label,
     head |-> lines[Len(lines)]]

Name(a) == [sequence |-> a.sequence, event_type |-> a.event_type]

InitWith(recorded) ==
    /\ lines = [i \in DOMAIN recorded |-> [sequence |-> i, event |-> recorded[i]]]
    /\ partial = FALSE
    /\ lock = NoProc
    /\ call = [p \in Procs |-> Out]
    /\ snapshots = {}
    /\ stubs = {}
    /\ latest = [state |-> "absent"]

Init == InitWith(<<>>)

-----------------------------------------------------------------------------
(* append *)

CallAppend(p, e) ==
    /\ At(p) = "out"
    /\ Goto(p, Acquiring(e))
    /\ UNCHANGED <<lines, partial, lock, snapshots, stubs, latest>>

\* ChainIntact: the flock is not waited for.
LockFree_bug == TRUE
LockFree == lock = NoProc

\* flock(LOCK_EX), then _read: a file that does not read back raises, and
\* closing it on the way out releases the lock.
Acquire(p) ==
    /\ At(p) = "acquire"
    /\ LockFree
    /\ \/ /\ Readable
          /\ lock' = p
          /\ Goto(p, Writing("write", SealedEntry(call[p].event)))
       \/ /\ ~Readable
          /\ Goto(p, Raised)
          /\ UNCHANGED lock
    /\ UNCHANGED <<lines, partial, snapshots, stubs, latest>>

\* The first bytes of the line reach the file.
BeginWrite(p) ==
    /\ At(p) = "write"
    /\ partial' = TRUE
    /\ Goto(p, Writing("finish", call[p].entry))
    /\ UNCHANGED <<lines, lock, snapshots, stubs, latest>>

\* AtomicAppend: a line is written again after its flush.
Extended_bug(ls, entry) == ls \o <<entry, entry>>
Extended(ls, entry) == Append(ls, entry)

\* CallsEnd, CommandsEnd: the descriptor outlives the call and keeps the lock.
LockAfter_bug(p) == p
LockAfter(p) == NoProc

\* The newline is written; fsync, LOCK_UN and return.
FinishWrite(p) ==
    /\ At(p) = "finish"
    /\ lines' = Extended(lines, call[p].entry)
    /\ partial' = FALSE
    /\ lock' = LockAfter(p)
    /\ Goto(p, Out)
    /\ UNCHANGED <<snapshots, stubs, latest>>

-----------------------------------------------------------------------------
(* anchor_head *)

\* validate, without the lock: whatever entry is last now becomes the head.
CallAnchor(p, label) ==
    /\ At(p) = "out"
    /\ \/ /\ Readable
          /\ lines # <<>>
          /\ Goto(p, Anchoring("check", HeadAnchor(label)))
       \/ /\ ~Readable \/ lines = <<>>
          /\ Goto(p, Raised)
    /\ UNCHANGED <<lines, partial, lock, snapshots, stubs, latest>>

\* An existing snapshot of this name with other content raises.
Conflict(a) ==
    \/ Name(a) \in stubs
    \/ \E s \in snapshots : Name(s) = Name(a) /\ s # a

\* PointerBacked: the pointer is written and the snapshot forgotten.
CheckSnapshot_bug(p) ==
    /\ At(p) = "check"
    /\ Goto(p, Anchoring("open_latest", call[p].anchor))
    /\ UNCHANGED <<lines, partial, lock, snapshots, stubs, latest>>

CheckSnapshot(p) ==
    /\ At(p) = "check"
    /\ \/ /\ ~Conflict(call[p].anchor)
          /\ Goto(p, Anchoring("open_snapshot", call[p].anchor))
       \/ /\ Conflict(call[p].anchor)
          /\ Goto(p, Raised)
    /\ UNCHANGED <<lines, partial, lock, snapshots, stubs, latest>>

OpenSnapshot(p) ==
    /\ At(p) = "open_snapshot"
    /\ stubs' = stubs \cup {Name(call[p].anchor)}
    /\ snapshots' = {s \in snapshots : Name(s) # Name(call[p].anchor)}
    /\ Goto(p, Anchoring("write_snapshot", call[p].anchor))
    /\ UNCHANGED <<lines, partial, lock, latest>>

WriteSnapshot(p) ==
    /\ At(p) = "write_snapshot"
    /\ stubs' = stubs \ {Name(call[p].anchor)}
    /\ snapshots' = snapshots \cup {call[p].anchor}
    /\ Goto(p, Anchoring("open_latest", call[p].anchor))
    /\ UNCHANGED <<lines, partial, lock, latest>>

OpenLatest(p) ==
    /\ At(p) = "open_latest"
    /\ latest' = Truncated
    /\ Goto(p, Anchoring("write_latest", call[p].anchor))
    /\ UNCHANGED <<lines, partial, lock, snapshots, stubs>>

WriteLatest(p) ==
    /\ At(p) = "write_latest"
    /\ latest' \in Overwritten(latest, call[p].anchor)
    /\ Goto(p, Out)
    /\ UNCHANGED <<lines, partial, lock, snapshots, stubs>>

-----------------------------------------------------------------------------
\* The exception leaves the ledger's code.
Propagate(p) ==
    /\ At(p) = "raised"
    /\ Goto(p, Out)
    /\ UNCHANGED <<lines, partial, lock, snapshots, stubs, latest>>

\* The process dies inside a call: the kernel drops its flock, what reached
\* a file stays there.
Crash(p) ==
    /\ At(p) \notin {"out", "raised"}
    /\ lock' = IF lock = p THEN NoProc ELSE lock
    /\ latest' \in {latest} \cup (IF At(p) = "write_latest" THEN {Torn} ELSE {})
    /\ Goto(p, Out)
    /\ UNCHANGED <<lines, partial, snapshots, stubs>>

AppendStep(p) == Acquire(p) \/ BeginWrite(p) \/ FinishWrite(p)

AnchorStep(p) ==
    \/ CheckSnapshot(p) \/ OpenSnapshot(p) \/ WriteSnapshot(p)
    \/ OpenLatest(p) \/ WriteLatest(p)

Step(p) == AppendStep(p) \/ AnchorStep(p)

Begin(p) ==
    \/ \E e \in Events : CallAppend(p, e)
    \/ \E label \in Labels : CallAnchor(p, label)

Next == \E p \in Procs : Begin(p) \/ Step(p) \/ Propagate(p) \/ Crash(p)

Fairness == \A p \in Procs : WF_vars(Step(p) \/ Propagate(p))

Spec == Init /\ [][Next]_vars /\ Fairness

-----------------------------------------------------------------------------
(* Properties *)

TypeOK ==
    /\ lines \in Seq(Entries)
    /\ partial \in BOOLEAN
    /\ lock \in Procs \cup {NoProc}
    /\ call \in [Procs -> Calls]
    /\ snapshots \subseteq Anchors
    /\ stubs \subseteq SnapshotNames
    /\ latest \in Files(Anchors)

\* However the processes interleave and die, the complete lines of the ledger
\* read back: _read never meets a repeated or a skipped sequence number
\* (ledger.py:63-69), because append re-reads the file under its lock.
ChainIntact == Contiguous(lines)

\* The process between computing its entry from the file and completing the
\* line is the one that holds the flock: no entry is sealed against a file
\* another process is extending, and none keeps the lock after its call.
SoleWriter ==
    \A p \in Procs : At(p) \in AppendPoints <=> lock = p

\* Every anchor that is on disk or about to be written there names an entry
\* the ledger still holds, at the place the anchor says.
AnchorTruthful(a) ==
    /\ a.sequence \in DOMAIN lines
    /\ lines[a.sequence] = a.head

AnchorsTruthful ==
    /\ \A a \in snapshots : AnchorTruthful(a)
    /\ latest.state = "whole" => AnchorTruthful(latest.content)
    /\ \A p \in Procs :
           At(p) \in AnchorPoints => AnchorTruthful(call[p].anchor)

\* head_anchor.json never names an entry whose snapshot was not started
\* before it: the pointer is written after the snapshot it repeats.
PointerBacked ==
    latest.state = "whole" =>
        latest.content \in snapshots \/ Name(latest.content) \in stubs

\* No step rewrites or drops a recorded line, or adds more than one.
AppendOnly ==
    [][/\ Len(lines') = Len(lines) + 1
       /\ SubSeq(lines', 1, Len(lines)) = lines]_lines

\* After a process died in the middle of a line (ledger.py:100-102), no step
\* ever completes or follows that line: every later append raises, and gives
\* the lock back.
TornForever ==
    [][partial /\ lock = NoProc =>
           lines' = lines /\ partial' /\ lock' = NoProc]_vars

\* append implements an atomic append: the request is pending from the call
\* until its newline is written.
Recorded == [i \in DOMAIN lines |-> lines[i].event]
Asked(p) ==
    IF At(p) = "acquire" THEN {call[p].event}
    ELSE IF At(p) \in AppendPoints THEN {call[p].entry.event}
    ELSE {}

Abstract == INSTANCE AppendLog WITH
    log <- Recorded,
    requests <- [p \in Procs |-> Asked(p)]

AtomicAppend == Abstract!Spec

\* Every call of append or anchor_head comes to an end: it returns, raises or
\* dies with its process; nobody waits for the flock for ever.
CallsEnd == \A p \in Procs : At(p) # "out" ~> At(p) = "out"
=============================================================================
