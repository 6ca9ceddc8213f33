-------------------------- MODULE RunLedgerProofs --------------------------
(***************************************************************************)
(* For every set of processes, events and labels: the ledger stays         *)
(* well formed, its lock has one holder at a time, every anchor names an   *)
(* entry the ledger holds, and append implements the atomic AppendLog.     *)
(***************************************************************************)
EXTENDS RunLedger, SequenceTheorems, TLAPS

-----------------------------------------------------------------------------
(* Types *)

\* What each action may put into call, files and lines keeps its type.
LEMMA TypePreserved == TypeOK /\ [Next]_vars => TypeOK'
<1> SUFFICES ASSUME TypeOK, [Next]_vars PROVE TypeOK'
    OBVIOUS
<1> USE LedgerAssumption DEF TypeOK, At, Goto
<1>1. ASSUME NEW p \in Procs, NEW e \in Events, CallAppend(p, e) PROVE TypeOK'
    BY <1>1 DEF CallAppend, Acquiring, Calls
<1>2. ASSUME NEW p \in Procs, Acquire(p) PROVE TypeOK'
  <2>1. call[p] \in [at : {"acquire"}, event : Events]
      BY <1>2 DEF Acquire, Calls, AppendPoints, AnchorPoints
  <2>2. SealedEntry(call[p].event) \in Entries
      BY <2>1 DEF SealedEntry, Entries
  <2>3. CASE Readable
      BY <1>2, <2>2, <2>3 DEF Acquire, Writing, Calls, AppendPoints
  <2>4. CASE ~Readable
      BY <1>2, <2>4 DEF Acquire, Raised, Calls
  <2> QED
      BY <2>3, <2>4
<1>3. ASSUME NEW p \in Procs, BeginWrite(p) \/ FinishWrite(p) PROVE TypeOK'
  <2>1. call[p] \in [at : AppendPoints, entry : Entries]
      BY <1>3 DEF BeginWrite, FinishWrite, Calls, AppendPoints, AnchorPoints
  <2>2. CASE BeginWrite(p)
      BY <2>1, <2>2 DEF BeginWrite, Writing, Calls, AppendPoints
  <2>3. CASE FinishWrite(p)
    <3>1. lines' \in Seq(Entries)
        BY <2>1, <2>3 DEF FinishWrite, Extended
    <3> QED
        BY <2>3, <3>1 DEF FinishWrite, Out, Calls, LockAfter
  <2> QED
      BY <1>3, <2>2, <2>3
<1>4. ASSUME NEW p \in Procs, NEW label \in Labels, CallAnchor(p, label)
      PROVE  TypeOK'
  <2>1. CASE lines # <<>>
    <3>1. lines[Len(lines)] \in Entries
        BY <2>1
    <3>2. HeadAnchor(label) \in Anchors
        BY <3>1 DEF HeadAnchor, Anchors, Entries
    <3> QED
        BY <1>4, <3>2 DEF CallAnchor, Anchoring, Raised, Calls, AnchorPoints
  <2>2. CASE lines = <<>>
      BY <1>4, <2>2 DEF CallAnchor, Raised, Calls
  <2> QED
      BY <2>1, <2>2
<1>5. ASSUME NEW p \in Procs, AnchorStep(p) PROVE TypeOK'
  <2>1. call[p] \in [at : AnchorPoints, anchor : Anchors]
      BY <1>5 DEF AnchorStep, CheckSnapshot, OpenSnapshot, WriteSnapshot, OpenLatest,
                  WriteLatest, Calls, AppendPoints, AnchorPoints
  <2>2. call[p].anchor \in Anchors /\ Name(call[p].anchor) \in SnapshotNames
      BY <2>1 DEF Anchors, Name, SnapshotNames
  <2>3. CASE CheckSnapshot(p)
      BY <2>2, <2>3 DEF CheckSnapshot, Anchoring, Raised, Calls, AnchorPoints
  <2>4. CASE OpenSnapshot(p)
      BY <2>2, <2>4 DEF OpenSnapshot, Anchoring, Calls, AnchorPoints
  <2>5. CASE WriteSnapshot(p)
      BY <2>2, <2>5 DEF WriteSnapshot, Anchoring, Calls, AnchorPoints
  <2>6. CASE OpenLatest(p)
      BY <2>2, <2>6 DEF OpenLatest, Anchoring, Calls, AnchorPoints, Files, Truncated
  <2>7. CASE WriteLatest(p)
      BY <2>2, <2>7 DEF WriteLatest, Out, Calls, Files, Overwritten, Whole, Torn
  <2> QED
      BY <1>5, <2>3, <2>4, <2>5, <2>6, <2>7 DEF AnchorStep
<1>6. ASSUME NEW p \in Procs, Propagate(p) \/ Crash(p) PROVE TypeOK'
    BY <1>6 DEF Propagate, Crash, Out, Calls, Files, Torn
<1>7. CASE UNCHANGED vars
    BY <1>7 DEF vars
<1> QED
    BY <1>1, <1>2, <1>3, <1>4, <1>5, <1>6, <1>7
    DEF Next, Begin, Step, AppendStep

LEMMA InitTypeOK == Init => TypeOK
<1> SUFFICES ASSUME Init PROVE TypeOK
    OBVIOUS
<1>1. lines \in Seq(Entries)
  <2>1. lines = <<>>
      BY DEF Init, InitWith
  <2> QED
      BY <2>1
<1> QED
    BY <1>1 DEF Init, InitWith, TypeOK, Out, Calls, Files

\* Whatever order the processes run and die in, the files and the calls of
\* ledger.py stay of the shapes the model gives them.
THEOREM TypeCorrect == Spec => []TypeOK
BY InitTypeOK, TypePreserved, PTL DEF Spec

-----------------------------------------------------------------------------
(* The inductive invariant *)

\* An entry is sealed for the place after the last complete line.
SealedNext ==
    \A p \in Procs :
        At(p) \in AppendPoints => call[p].entry.sequence = Len(lines) + 1

\* The snapshot an anchor repeats in the pointer exists, perhaps truncated.
HasSnapshot(a) == a \in snapshots \/ Name(a) \in stubs
SnapshotsFirst ==
    \A p \in Procs :
        At(p) \in AnchorPoints \ {"check", "open_snapshot"}
            => HasSnapshot(call[p].anchor)

IInv ==
    /\ TypeOK
    /\ ChainIntact
    /\ SoleWriter
    /\ SealedNext
    /\ AnchorsTruthful
    /\ SnapshotsFirst
    /\ PointerBacked

\* Two anchors of one name that both name an entry the ledger holds are equal.
LEMMA SameName ==
    ASSUME NEW a \in Anchors, NEW b \in Anchors,
           AnchorTruthful(a), AnchorTruthful(b), Name(a) = Name(b)
    PROVE  a = b
BY DEF Anchors, AnchorTruthful, Name

LEMMA InitIInv == Init => IInv
<1> SUFFICES ASSUME Init PROVE IInv
    OBVIOUS
<1>1. lines = <<>>
    BY DEF Init, InitWith
<1> QED
    BY <1>1, InitTypeOK, LedgerAssumption
    DEF Init, InitWith, IInv, ChainIntact, Contiguous, SoleWriter, SealedNext,
        AnchorsTruthful, SnapshotsFirst, PointerBacked, At, Out, AppendPoints,
        AnchorPoints

\* A step that only moves one process, to a point outside append, and touches
\* no file.
LEMMA MovePreserves ==
    ASSUME IInv, TypeOK', NEW p \in Procs, NEW c \in Calls, Goto(p, c),
           lock # p, c.at \notin AppendPoints,
           c.at \in AnchorPoints => AnchorTruthful(c.anchor),
           c.at \in AnchorPoints \ {"check", "open_snapshot"}
               => HasSnapshot(c.anchor),
           UNCHANGED <<lines, lock, snapshots, stubs, latest>>
    PROVE  IInv'
<1>1. \A q \in Procs : call'[q] = IF q = p THEN c ELSE call[q]
    BY DEF IInv, TypeOK, Goto
<1>2. ChainIntact' /\ PointerBacked'
    BY DEF IInv, ChainIntact, PointerBacked
<1>3. SoleWriter' /\ SealedNext'
    BY <1>1 DEF IInv, SoleWriter, SealedNext, At
<1>4. AnchorsTruthful'
    BY <1>1 DEF IInv, AnchorsTruthful, AnchorTruthful, At
<1>5. SnapshotsFirst'
    BY <1>1 DEF IInv, SnapshotsFirst, HasSnapshot, At
<1> QED
    BY <1>2, <1>3, <1>4, <1>5 DEF IInv

LEMMA AppendPreserves ==
    ASSUME IInv, TypeOK', NEW p \in Procs, AppendStep(p)
    PROVE  IInv'
<1> USE DEF At
<1>1. CASE Acquire(p)
  <2>1. CASE ~Readable
    <3>1. /\ Goto(p, Raised)
          /\ UNCHANGED <<lines, lock, snapshots, stubs, latest>>
        BY <1>1, <2>1 DEF Acquire
    <3>2. lock # p
        BY <1>1, LedgerAssumption DEF Acquire, LockFree
    <3> QED
        BY <3>1, <3>2, MovePreserves DEF Raised, Calls, AppendPoints, AnchorPoints
  <2>2. CASE Readable
    <3>1. /\ lock = NoProc /\ lock' = p
          /\ call' = [call EXCEPT ![p] = Writing("write", SealedEntry(call[p].event))]
          /\ UNCHANGED <<lines, partial, snapshots, stubs, latest>>
        BY <1>1, <2>2 DEF Acquire, LockFree, Goto
    <3>2. \A q \in Procs : call'[q] =
              IF q = p THEN Writing("write", SealedEntry(call[p].event)) ELSE call[q]
        BY <3>1 DEF IInv, TypeOK
    <3>3. SoleWriter'
        BY <3>1, <3>2, LedgerAssumption DEF IInv, SoleWriter, Writing, AppendPoints
    <3>4. SealedNext'
        BY <3>1, <3>2 DEF IInv, SealedNext, Writing, SealedEntry
    <3>5. AnchorsTruthful'
        BY <3>1, <3>2
        DEF IInv, AnchorsTruthful, AnchorTruthful, Writing, AppendPoints, AnchorPoints
    <3>6. SnapshotsFirst'
        BY <3>1, <3>2 DEF IInv, SnapshotsFirst, HasSnapshot, Writing, AnchorPoints
    <3> QED
        BY <3>1, <3>3, <3>4, <3>5, <3>6 DEF IInv, ChainIntact, PointerBacked
  <2> QED
      BY <2>1, <2>2
<1>2. CASE BeginWrite(p)
  <2>1. /\ call' = [call EXCEPT ![p] = Writing("finish", call[p].entry)]
        /\ call[p].at = "write"
        /\ UNCHANGED <<lines, lock, snapshots, stubs, latest>>
      BY <1>2 DEF BeginWrite, Goto
  <2>2. \A q \in Procs : call'[q] =
            IF q = p THEN Writing("finish", call[p].entry) ELSE call[q]
      BY <2>1 DEF IInv, TypeOK
  <2>3. SoleWriter' /\ SealedNext'
      BY <2>1, <2>2 DEF IInv, SoleWriter, SealedNext, Writing, AppendPoints
  <2>4. AnchorsTruthful'
      BY <2>1, <2>2
      DEF IInv, AnchorsTruthful, AnchorTruthful, Writing, AnchorPoints
  <2>5. SnapshotsFirst'
      BY <2>1, <2>2 DEF IInv, SnapshotsFirst, HasSnapshot, Writing, AnchorPoints
  <2> QED
      BY <2>1, <2>3, <2>4, <2>5 DEF IInv, ChainIntact, PointerBacked
<1>3. CASE FinishWrite(p)
  <2>1. /\ call' = [call EXCEPT ![p] = Out]
        /\ call[p].at = "finish"
        /\ lines' = Append(lines, call[p].entry)
        /\ lock' = NoProc
        /\ UNCHANGED <<snapshots, stubs, latest>>
      BY <1>3 DEF FinishWrite, Goto, Extended, LockAfter
  <2>2. \A q \in Procs : call'[q] = IF q = p THEN Out ELSE call[q]
      BY <2>1 DEF IInv, TypeOK
  <2>3. lock = p /\ \A q \in Procs : call[q].at \in AppendPoints => q = p
      BY <2>1 DEF IInv, SoleWriter, AppendPoints
  <2>4. call[p].entry \in Entries /\ call[p].entry.sequence = Len(lines) + 1
      BY <2>1 DEF IInv, TypeOK, Calls, SealedNext, AppendPoints, AnchorPoints
  <2>5. /\ DOMAIN lines' = DOMAIN lines \cup {Len(lines) + 1}
        /\ \A i \in DOMAIN lines : lines'[i] = lines[i]
        /\ lines'[Len(lines) + 1] = call[p].entry
      BY <2>1, <2>4 DEF IInv, TypeOK
  <2>6. ChainIntact'
      BY <2>4, <2>5 DEF IInv, ChainIntact, Contiguous
  <2>7. SoleWriter' /\ SealedNext'
      BY <2>1, <2>2, <2>3, LedgerAssumption
      DEF IInv, SoleWriter, SealedNext, Out, AppendPoints
  <2>8. AnchorsTruthful'
      BY <2>1, <2>2, <2>5
      DEF IInv, AnchorsTruthful, AnchorTruthful, Out, AnchorPoints
  <2>9. SnapshotsFirst' /\ PointerBacked'
      BY <2>1, <2>2
      DEF IInv, SnapshotsFirst, HasSnapshot, PointerBacked, Out, AnchorPoints
  <2> QED
      BY <2>6, <2>7, <2>8, <2>9 DEF IInv
<1> QED
    BY <1>1, <1>2, <1>3 DEF AppendStep

\* A process inside anchor_head carries a well-typed, truthful anchor and does
\* not hold the lock.
LEMMA AnchorInHand ==
    ASSUME IInv, NEW p \in Procs, At(p) \in AnchorPoints
    PROVE  /\ call[p].anchor \in Anchors
           /\ AnchorTruthful(call[p].anchor)
           /\ lock # p
BY DEF IInv, TypeOK, Calls, At, AppendPoints, AnchorPoints, AnchorsTruthful, SoleWriter

LEMMA CallPreserves ==
    ASSUME IInv, TypeOK', NEW p \in Procs, Begin(p) \/ Propagate(p)
    PROVE  IInv'
<1>0. At(p) \in {"out", "raised"} /\ lock # p
    BY DEF Begin, CallAppend, CallAnchor, Propagate, IInv, SoleWriter, AppendPoints
<1>1. ASSUME NEW e \in Events, CallAppend(p, e) PROVE IInv'
    BY <1>0, <1>1, MovePreserves
    DEF CallAppend, Acquiring, Calls, AppendPoints, AnchorPoints
<1>2. ASSUME NEW label \in Labels, CallAnchor(p, label) PROVE IInv'
  <2>1. CASE Readable /\ lines # <<>>
    <3>1. /\ Len(lines) \in DOMAIN lines
          /\ lines[Len(lines)] \in Entries
          /\ lines[Len(lines)].sequence = Len(lines)
        BY <2>1 DEF IInv, TypeOK, Readable, Contiguous
    <3>2. HeadAnchor(label) \in Anchors /\ AnchorTruthful(HeadAnchor(label))
        BY <3>1 DEF HeadAnchor, Anchors, Entries, AnchorTruthful
    <3> QED
        BY <1>0, <1>2, <2>1, <3>2, MovePreserves
        DEF CallAnchor, Anchoring, Calls, AppendPoints, AnchorPoints
  <2>2. CASE ~(Readable /\ lines # <<>>)
      BY <1>0, <1>2, <2>2, MovePreserves
      DEF CallAnchor, Raised, Calls, AppendPoints, AnchorPoints
  <2> QED
      BY <2>1, <2>2
<1>3. CASE Propagate(p)
    BY <1>0, <1>3, MovePreserves
    DEF Propagate, Out, Calls, AppendPoints, AnchorPoints
<1> QED
    BY <1>1, <1>2, <1>3 DEF Begin

LEMMA AnchorPreserves ==
    ASSUME IInv, TypeOK', NEW p \in Procs, AnchorStep(p)
    PROVE  IInv'
<1> DEFINE a == call[p].anchor
<1>0. At(p) \in AnchorPoints
    BY DEF AnchorStep, CheckSnapshot, OpenSnapshot, WriteSnapshot, OpenLatest,
           WriteLatest, AnchorPoints
<1>1. a \in Anchors /\ AnchorTruthful(a) /\ lock # p
    BY <1>0, AnchorInHand
<1>2. ASSUME UNCHANGED <<lines, lock>> PROVE ChainIntact'
    BY <1>2 DEF IInv, ChainIntact
<1>3. ASSUME NEW c, Goto(p, c), c.at \notin AppendPoints, UNCHANGED <<lines, lock>>
      PROVE  SoleWriter' /\ SealedNext'
    BY <1>1, <1>3 DEF IInv, TypeOK, Goto, SoleWriter, SealedNext, At
<1>4. CASE CheckSnapshot(p)
  <2>1. CASE Conflict(a)
      BY <1>1, <1>4, <2>1, MovePreserves
      DEF CheckSnapshot, Raised, Calls, AppendPoints, AnchorPoints
  <2>2. CASE ~Conflict(a)
      BY <1>1, <1>4, <2>2, MovePreserves
      DEF CheckSnapshot, Anchoring, Calls, AppendPoints, AnchorPoints
  <2> QED
      BY <2>1, <2>2
<1>5. CASE OpenSnapshot(p)
  <2>1. /\ stubs' = stubs \cup {Name(a)}
        /\ snapshots' = {s \in snapshots : Name(s) # Name(a)}
        /\ Goto(p, Anchoring("write_snapshot", a))
        /\ UNCHANGED <<lines, lock, latest>>
      BY <1>5 DEF OpenSnapshot
  <2>2. \A q \in Procs : call'[q] =
            IF q = p THEN Anchoring("write_snapshot", a) ELSE call[q]
      BY <2>1 DEF IInv, TypeOK, Goto
  <2>3. ASSUME NEW b, HasSnapshot(b) PROVE HasSnapshot(b)'
      BY <2>1, <2>3 DEF HasSnapshot, Name
  <2>4. Name(a) \in stubs'
      BY <2>1
  <2>5. SoleWriter' /\ SealedNext' /\ ChainIntact'
      BY <1>2, <1>3, <2>1 DEF Anchoring, AppendPoints
  <2>6. AnchorsTruthful'
      BY <1>1, <2>1, <2>2 DEF IInv, AnchorsTruthful, AnchorTruthful, Anchoring, At
  <2>7. SnapshotsFirst'
      BY <2>1, <2>2, <2>3, <2>4 DEF IInv, SnapshotsFirst, HasSnapshot, Anchoring, At, Name
  <2>8. PointerBacked'
      BY <2>1, <2>3 DEF IInv, PointerBacked, HasSnapshot
  <2> QED
      BY <2>5, <2>6, <2>7, <2>8 DEF IInv
<1>6. CASE WriteSnapshot(p)
  <2>1. /\ stubs' = stubs \ {Name(a)}
        /\ snapshots' = snapshots \cup {a}
        /\ Goto(p, Anchoring("open_latest", a))
        /\ UNCHANGED <<lines, lock, latest>>
      BY <1>6 DEF WriteSnapshot
  <2>2. \A q \in Procs : call'[q] =
            IF q = p THEN Anchoring("open_latest", a) ELSE call[q]
      BY <2>1 DEF IInv, TypeOK, Goto
  <2>3. ASSUME NEW b \in Anchors, AnchorTruthful(b), HasSnapshot(b)
        PROVE  b \in snapshots' \/ Name(b) \in stubs'
      BY <1>1, <2>1, <2>3, SameName DEF HasSnapshot
  <2>4. a \in snapshots'
      BY <2>1
  <2>5. SoleWriter' /\ SealedNext' /\ ChainIntact'
      BY <1>2, <1>3, <2>1 DEF Anchoring, AppendPoints
  <2>6. AnchorsTruthful'
      BY <1>1, <2>1, <2>2 DEF IInv, AnchorsTruthful, AnchorTruthful, Anchoring, At
  <2>7. SnapshotsFirst'
    <3> SUFFICES ASSUME NEW q \in Procs,
                        call'[q].at \in AnchorPoints \ {"check", "open_snapshot"}
                 PROVE  \/ call'[q].anchor \in snapshots'
                        \/ Name(call'[q].anchor) \in stubs'
        BY DEF SnapshotsFirst, HasSnapshot, At, Name
    <3>1. CASE q = p
        BY <2>2, <2>4, <3>1 DEF Anchoring
    <3>2. CASE q # p
      <4>1. /\ call'[q] = call[q]
            /\ At(q) \in AnchorPoints
            /\ HasSnapshot(call[q].anchor)
          BY <2>2, <3>2 DEF IInv, SnapshotsFirst, At
      <4>2. call[q].anchor \in Anchors /\ AnchorTruthful(call[q].anchor)
          BY <4>1, AnchorInHand
      <4> QED
          BY <2>3, <4>1, <4>2
    <3> QED
        BY <3>1, <3>2
  <2>8. PointerBacked'
    <3> SUFFICES ASSUME latest.state = "whole"
                 PROVE  \/ latest.content \in snapshots'
                        \/ Name(latest.content) \in stubs'
        BY <2>1 DEF PointerBacked, Name
    <3>1. latest.content \in Anchors /\ AnchorTruthful(latest.content)
        BY DEF IInv, TypeOK, Files, AnchorsTruthful
    <3>2. HasSnapshot(latest.content)
        BY DEF IInv, PointerBacked, HasSnapshot
    <3> QED
        BY <2>3, <3>1, <3>2
  <2> QED
      BY <2>5, <2>6, <2>7, <2>8 DEF IInv
<1>7. CASE OpenLatest(p)
  <2>1. /\ latest' = Truncated
        /\ Goto(p, Anchoring("write_latest", a))
        /\ UNCHANGED <<lines, lock, snapshots, stubs>>
        /\ HasSnapshot(a)
      BY <1>7 DEF OpenLatest, IInv, SnapshotsFirst, AnchorPoints
  <2>2. \A q \in Procs : call'[q] =
            IF q = p THEN Anchoring("write_latest", a) ELSE call[q]
      BY <2>1 DEF IInv, TypeOK, Goto
  <2>3. SoleWriter' /\ SealedNext' /\ ChainIntact'
      BY <1>2, <1>3, <2>1 DEF Anchoring, AppendPoints
  <2>4. AnchorsTruthful'
      BY <1>1, <2>1, <2>2
      DEF IInv, AnchorsTruthful, AnchorTruthful, Anchoring, At, Truncated
  <2>5. SnapshotsFirst' /\ PointerBacked'
      BY <2>1, <2>2
      DEF IInv, SnapshotsFirst, PointerBacked, HasSnapshot, Anchoring, At, Truncated
  <2> QED
      BY <2>3, <2>4, <2>5 DEF IInv
<1>8. CASE WriteLatest(p)
  <2>1. /\ latest' \in {Whole(a), Torn}
        /\ Goto(p, Out)
        /\ UNCHANGED <<lines, lock, snapshots, stubs>>
        /\ HasSnapshot(a)
      BY <1>8 DEF WriteLatest, Overwritten, IInv, SnapshotsFirst, AnchorPoints
  <2>2. \A q \in Procs : call'[q] = IF q = p THEN Out ELSE call[q]
      BY <2>1 DEF IInv, TypeOK, Goto
  <2>3. SoleWriter' /\ SealedNext' /\ ChainIntact'
      BY <1>2, <1>3, <2>1 DEF Out, AppendPoints
  <2>4. AnchorsTruthful'
      BY <1>1, <2>1, <2>2
      DEF IInv, AnchorsTruthful, AnchorTruthful, Out, At, AnchorPoints, Whole, Torn
  <2>5. SnapshotsFirst' /\ PointerBacked'
      BY <2>1, <2>2
      DEF IInv, SnapshotsFirst, PointerBacked, HasSnapshot, Out, At, AnchorPoints,
          Whole, Torn
  <2> QED
      BY <2>3, <2>4, <2>5 DEF IInv
<1> QED
    BY <1>4, <1>5, <1>6, <1>7, <1>8 DEF AnchorStep

LEMMA CrashPreserves ==
    ASSUME IInv, TypeOK', NEW p \in Procs, Crash(p)
    PROVE  IInv'
<1>1. /\ lock' = IF lock = p THEN NoProc ELSE lock
      /\ latest' \in {latest, Torn}
      /\ \A q \in Procs : call'[q] = IF q = p THEN Out ELSE call[q]
      /\ UNCHANGED <<lines, snapshots, stubs>>
    BY DEF Crash, Goto, IInv, TypeOK
<1>2. ChainIntact' /\ SealedNext'
    BY <1>1 DEF IInv, ChainIntact, SealedNext, At, Out, AppendPoints
<1>3. SoleWriter'
    BY <1>1, LedgerAssumption DEF IInv, SoleWriter, At, Out, AppendPoints
<1>4. AnchorsTruthful'
    BY <1>1 DEF IInv, AnchorsTruthful, AnchorTruthful, At, Out, AnchorPoints, Torn
<1>5. SnapshotsFirst' /\ PointerBacked'
    BY <1>1
    DEF IInv, SnapshotsFirst, PointerBacked, HasSnapshot, At, Out, AnchorPoints, Torn
<1> QED
    BY <1>2, <1>3, <1>4, <1>5 DEF IInv

LEMMA NextIInv == IInv /\ [Next]_vars => IInv'
<1> SUFFICES ASSUME IInv, [Next]_vars PROVE IInv'
    OBVIOUS
<1>1. TypeOK'
    BY TypePreserved DEF IInv
<1>2. CASE UNCHANGED vars
    BY <1>1, <1>2
    DEF vars, IInv, ChainIntact, SoleWriter, SealedNext, AnchorsTruthful,
        AnchorTruthful, SnapshotsFirst, HasSnapshot, PointerBacked, At
<1> QED
    BY <1>1, <1>2, AppendPreserves, CallPreserves, AnchorPreserves, CrashPreserves
    DEF Next, Step

-----------------------------------------------------------------------------
(* The results *)

\* The strengthened invariant holds in every reachable state.
THEOREM Inductive == Spec => []IInv
BY InitIInv, NextIInv, PTL DEF Spec

\* However many processes append at once, and wherever they die, the complete
\* lines of the ledger are numbered 1, 2, ... (ChainIntact).
THEOREM LedgerReadsBack == Spec => []ChainIntact
BY Inductive, PTL DEF IInv

\* The flock makes append a critical section (SoleWriter).
THEOREM OneWriter == Spec => []SoleWriter
BY Inductive, PTL DEF IInv

\* No anchor on disk or in flight names an entry the ledger does not hold
\* (AnchorsTruthful).
THEOREM AnchorsHold == Spec => []AnchorsTruthful
BY Inductive, PTL DEF IInv

\* The pointer head_anchor.json never runs ahead of the snapshots, wherever the two
\* processes that write them die (PointerBacked).
THEOREM PointerNeverAhead == Spec => []PointerBacked
BY Inductive, PTL DEF IInv

\* What a step does to the lines of the ledger: nothing, unless it completes
\* the line of the process that holds the lock.
LEMMA LinesStep ==
    ASSUME IInv, [Next]_vars
    PROVE  \/ UNCHANGED lines
           \/ \E p \in Procs : FinishWrite(p) /\ call[p].entry \in Entries /\ lock = p
<1>1. ASSUME NEW p \in Procs, FinishWrite(p)
      PROVE  call[p].entry \in Entries /\ lock = p
    BY <1>1
    DEF FinishWrite, IInv, TypeOK, Calls, SoleWriter, At, AppendPoints, AnchorPoints
<1>2. ASSUME NEW p \in Procs, Begin(p) \/ Step(p) \/ Propagate(p) \/ Crash(p),
             ~FinishWrite(p)
      PROVE  UNCHANGED lines
    BY <1>2
    DEF Begin, CallAppend, CallAnchor, Step, AppendStep, Acquire, BeginWrite,
        AnchorStep, CheckSnapshot, OpenSnapshot, WriteSnapshot, OpenLatest,
        WriteLatest, Propagate, Crash
<1> QED
    BY <1>1, <1>2 DEF Next, vars

\* No step rewrites, drops or inserts a recorded line (AppendOnly).
THEOREM LedgerAppendOnly == Spec => AppendOnly
<1>1. ASSUME IInv, [Next]_vars
      PROVE  [/\ Len(lines') = Len(lines) + 1
              /\ SubSeq(lines', 1, Len(lines)) = lines]_lines
  <2>1. ASSUME NEW p \in Procs, FinishWrite(p), call[p].entry \in Entries
        PROVE  /\ Len(lines') = Len(lines) + 1
               /\ SubSeq(lines', 1, Len(lines)) = lines
    <3>1. lines' = Append(lines, call[p].entry) /\ lines \in Seq(Entries)
        BY <1>1, <2>1 DEF FinishWrite, Extended, IInv, TypeOK
    <3> QED
        BY <2>1, <3>1
  <2> QED
      BY <1>1, <2>1, LinesStep
<1> QED
    BY <1>1, Inductive, PTL DEF Spec, AppendOnly

\* A line torn by a dying process stays the last thing in the file, and nothing
\* is recorded after it (TornForever).
THEOREM TornLedgerStaysTorn == Spec => TornForever
<1>1. ASSUME IInv, [Next]_vars
      PROVE  [partial /\ lock = NoProc =>
                  lines' = lines /\ partial' /\ lock' = NoProc]_vars
  <2> SUFFICES ASSUME partial, lock = NoProc
               PROVE  lines' = lines /\ partial' /\ lock' = NoProc
      OBVIOUS
  <2>1. \A p \in Procs : ~FinishWrite(p)
      BY <1>1, LedgerAssumption
      DEF FinishWrite, IInv, SoleWriter, At, AppendPoints
  <2>2. UNCHANGED lines
      BY <1>1, <2>1, LinesStep
  <2>3. ASSUME NEW p \in Procs, Begin(p) \/ Step(p) \/ Propagate(p) \/ Crash(p)
        PROVE  partial' /\ lock' = NoProc
      BY <2>1, <2>3
      DEF Begin, CallAppend, CallAnchor, Step, AppendStep, Acquire, Readable,
          BeginWrite, AnchorStep, CheckSnapshot, OpenSnapshot, WriteSnapshot, OpenLatest,
          WriteLatest, Propagate, Crash
  <2> QED
      BY <1>1, <2>2, <2>3 DEF Next, vars
<1> QED
    BY <1>1, Inductive, PTL DEF Spec, TornForever

-----------------------------------------------------------------------------
(* Refinement of AppendLog *)

\* A step that leaves the log alone maps to a request, a withdrawal or a
\* stutter, by what it does to the request of the one process that moves.
LEMMA MoveSimulates ==
    ASSUME TypeOK, NEW p \in Procs, NEW c, Goto(p, c), UNCHANGED lines,
           \/ Asked(p)' = Asked(p)
           \/ Asked(p) = {} /\ \E e \in Events : Asked(p)' = {e}
           \/ Asked(p) # {} /\ Asked(p)' = {}
    PROVE  [Abstract!Next]_(Abstract!vars)
<1>1. Recorded' = Recorded
    BY DEF Recorded
<1>2. \A q \in Procs : q # p => Asked(q)' = Asked(q)
    BY DEF Asked, At, TypeOK, Goto
<1> DEFINE R == [q \in Procs |-> Asked(q)]
<1>3. ASSUME NEW r, r = Asked(p)' PROVE R' = [R EXCEPT ![p] = r]
    BY <1>2, <1>3
<1> HIDE DEF R
<1>4. CASE Asked(p)' = Asked(p)
  <2>1. R' = R
      BY <1>3, <1>4 DEF R
  <2> QED
      BY <1>1, <2>1 DEF Abstract!vars, R
<1>5. ASSUME Asked(p) = {}, NEW e \in Events, Asked(p)' = {e}
      PROVE  Abstract!Next
  <2>1. R' = [R EXCEPT ![p] = {e}] /\ R[p] = {}
      BY <1>3, <1>5 DEF R
  <2>2. Abstract!Request(p, e)
      BY <1>1, <2>1 DEF Abstract!Request, R
  <2> QED
      BY <2>2 DEF Abstract!Next
<1>6. CASE Asked(p) # {} /\ Asked(p)' = {}
  <2>1. R' = [R EXCEPT ![p] = {}] /\ R[p] # {}
      BY <1>3, <1>6 DEF R
  <2>2. Abstract!Withdraw(p)
      BY <1>1, <2>1 DEF Abstract!Withdraw, R
  <2> QED
      BY <2>2 DEF Abstract!Next
<1> QED
    BY <1>4, <1>5, <1>6

\* Completing a line is the commit of the request of the process that holds
\* the lock.
LEMMA FinishSimulates ==
    ASSUME IInv, NEW p \in Procs, FinishWrite(p)
    PROVE  Abstract!Next
<1>1. call[p].entry \in Entries /\ At(p) = "finish" /\ lines \in Seq(Entries)
    BY DEF FinishWrite, IInv, TypeOK, Calls, At, AppendPoints, AnchorPoints
<1> DEFINE e == call[p].entry.event
<1>2. Asked(p) = {e} /\ Asked(p)' = {}
    BY <1>1 DEF Asked, At, FinishWrite, Goto, Out, AppendPoints, IInv, TypeOK
<1>3. \A q \in Procs : q # p => Asked(q)' = Asked(q)
    BY DEF Asked, At, FinishWrite, Goto, IInv, TypeOK
<1> DEFINE R == [q \in Procs |-> Asked(q)]
<1>4. R' = [R EXCEPT ![p] = {}] /\ R[p] = {e}
    BY <1>2, <1>3
<1>5. Recorded' = Append(Recorded, e)
  <2>1. lines' = Append(lines, call[p].entry)
      BY DEF FinishWrite, Extended
  <2>2. Recorded \in Seq(Events) /\ Len(Recorded) = Len(lines)
    <3>1. Len(lines) \in Nat /\ DOMAIN lines = 1 .. Len(lines)
        BY <1>1
    <3>a. \A i \in 1 .. Len(lines) : lines[i] \in Entries
        BY <1>1, ElementOfSeq
    <3>2. \A i \in 1 .. Len(lines) : lines[i].event \in Events
        BY <3>a DEF Entries
    <3>3. Recorded \in [1 .. Len(lines) -> Events]
        BY <3>1, <3>2 DEF Recorded
    <3> QED
        BY <3>1, <3>3, SeqDef
  <2>3. DOMAIN Recorded' = 1 .. Len(lines) + 1
      BY <1>1, <2>1 DEF Recorded
  <2>4. \A i \in 1 .. Len(lines) : Recorded'[i] = Recorded[i]
      BY <1>1, <2>1 DEF Recorded
  <2>5. Recorded'[Len(lines) + 1] = e
      BY <1>1, <2>1 DEF Recorded
  <2>6. Append(Recorded, e) =
            [i \in 1 .. Len(lines) + 1 |->
                 IF i = Len(lines) + 1 THEN e ELSE Recorded[i]]
      BY <2>2
  <2> QED
      BY <2>3, <2>4, <2>5, <2>6, <1>1, <2>1 DEF Recorded
<1> HIDE DEF R, e
<1>6. Abstract!Commit(p)
    BY <1>4, <1>5 DEF Abstract!Commit, R
<1> QED
    BY <1>6 DEF Abstract!Next

LEMMA StepSimulates == IInv /\ [Next]_vars => [Abstract!Next]_(Abstract!vars)
<1> SUFFICES ASSUME IInv, [Next]_vars PROVE [Abstract!Next]_(Abstract!vars)
    OBVIOUS
<1>0. TypeOK
    BY DEF IInv
<1> USE DEF At, AppendPoints, AnchorPoints
<1>1. ASSUME NEW p \in Procs, NEW e \in Events, CallAppend(p, e)
      PROVE  [Abstract!Next]_(Abstract!vars)
  <2>1. Asked(p) = {} /\ Asked(p)' = {e}
      BY <1>0, <1>1 DEF CallAppend, Goto, Acquiring, Asked, TypeOK
  <2> QED
      BY <1>0, <1>1, <2>1, MoveSimulates DEF CallAppend
<1>2. ASSUME NEW p \in Procs, Acquire(p)
      PROVE  [Abstract!Next]_(Abstract!vars)
  <2>1. CASE Readable
    <3>1. Goto(p, Writing("write", SealedEntry(call[p].event)))
        BY <1>2, <2>1 DEF Acquire
    <3>2. Asked(p)' = Asked(p)
        BY <1>0, <1>2, <3>1
        DEF Acquire, Goto, Writing, SealedEntry, Asked, TypeOK
    <3> QED
        BY <1>0, <1>2, <3>1, <3>2, MoveSimulates DEF Acquire
  <2>2. CASE ~Readable
    <3>1. Goto(p, Raised)
        BY <1>2, <2>2 DEF Acquire
    <3>2. Asked(p) # {} /\ Asked(p)' = {}
        BY <1>0, <1>2, <3>1 DEF Acquire, Goto, Raised, Asked, TypeOK
    <3> QED
        BY <1>0, <1>2, <3>1, <3>2, MoveSimulates DEF Acquire
  <2> QED
      BY <2>1, <2>2
<1>3. ASSUME NEW p \in Procs, BeginWrite(p)
      PROVE  [Abstract!Next]_(Abstract!vars)
  <2>1. Asked(p)' = Asked(p)
      BY <1>0, <1>3 DEF BeginWrite, Goto, Writing, Asked, TypeOK
  <2> QED
      BY <1>0, <1>3, <2>1, MoveSimulates DEF BeginWrite
<1>4. ASSUME NEW p \in Procs, NEW label \in Labels, CallAnchor(p, label)
      PROVE  [Abstract!Next]_(Abstract!vars)
  <2>1. PICK c \in {Anchoring("check", HeadAnchor(label)), Raised} : Goto(p, c)
      BY <1>4 DEF CallAnchor
  <2>2. Asked(p)' = Asked(p)
      BY <1>0, <1>4, <2>1 DEF CallAnchor, Goto, Anchoring, Raised, Asked, TypeOK
  <2> QED
      BY <1>0, <1>4, <2>1, <2>2, MoveSimulates DEF CallAnchor
<1>5. ASSUME NEW p \in Procs, AnchorStep(p) \/ Propagate(p)
      PROVE  [Abstract!Next]_(Abstract!vars)
  <2>1. PICK c \in {Raised, Out, Anchoring("open_snapshot", call[p].anchor),
                    Anchoring("write_snapshot", call[p].anchor),
                    Anchoring("open_latest", call[p].anchor),
                    Anchoring("write_latest", call[p].anchor)} : Goto(p, c)
      BY <1>5 DEF AnchorStep, CheckSnapshot, OpenSnapshot, WriteSnapshot,
                  OpenLatest, WriteLatest, Propagate
  <2>2. At(p) \in AnchorPoints \cup {"raised"} /\ UNCHANGED lines
      BY <1>5 DEF AnchorStep, CheckSnapshot, OpenSnapshot, WriteSnapshot,
                  OpenLatest, WriteLatest, Propagate
  <2>3. Asked(p) = {} /\ Asked(p)' = {}
      BY <1>0, <2>1, <2>2 DEF Goto, Anchoring, Raised, Out, Asked, TypeOK
  <2> QED
      BY <1>0, <2>1, <2>2, <2>3, MoveSimulates
<1>6. ASSUME NEW p \in Procs, Crash(p)
      PROVE  [Abstract!Next]_(Abstract!vars)
  <2>1. Goto(p, Out) /\ UNCHANGED lines
      BY <1>6 DEF Crash
  <2>2. Asked(p)' = {}
      BY <1>0, <2>1 DEF Goto, Out, Asked, TypeOK
  <2> QED
      BY <1>0, <2>1, <2>2, MoveSimulates
<1>7. CASE UNCHANGED vars
    BY <1>7 DEF vars, Abstract!vars, Recorded, Asked
<1> QED
    BY <1>1, <1>2, <1>3, <1>4, <1>5, <1>6, <1>7, FinishSimulates
    DEF Next, Begin, Step, AppendStep

\* For any number of processes and any interleaving of their system calls and
\* deaths, append takes effect atomically: exactly once when it returns, at most
\* once when it does not (AtomicAppend).
THEOREM AppendIsAtomic == Spec => AtomicAppend
<1>1. Init => Abstract!Init
  <2> SUFFICES ASSUME Init PROVE Abstract!Init
      OBVIOUS
  <2>1. Recorded = <<>>
      BY DEF Init, InitWith, Recorded
  <2>2. [p \in Procs |-> Asked(p)] = [p \in Procs |-> {}]
      BY DEF Init, InitWith, Asked, At, Out, AppendPoints
  <2> QED
      BY <2>1, <2>2 DEF Abstract!Init
<1> QED
    BY <1>1, StepSimulates, Inductive, PTL DEF Spec, AtomicAppend, Abstract!Spec
=============================================================================
