------------------------ MODULE FreezePipelineProofs ------------------------
(***************************************************************************)
(* For every set of inputs, and any number of commands that are run again  *)
(* with other inputs or die: what the complete files of a run directory    *)
(* say of each other is true.                                              *)
(*                                                                         *)
(* A file that was ever written with content x is for ever x, or cut       *)
(* short: it is settled.  A command writes a file only after those its     *)
(* content speaks of, so a file that is complete needs settled ones.       *)
(***************************************************************************)
EXTENDS FreezePipeline, SequenceTheorems, TLAPS

-----------------------------------------------------------------------------
(* The inductive invariant *)

Settled(f, x) ==
    \/ files[f] = Whole(x)
    \/ /\ files[f] = Truncated
       /\ BeingWritten(f) => Pending.content = x

\* The files content x of file f speaks of, with what it says they say.
Needs(f, x) ==
    IF f = "paper_selection" THEN {<<"config", x.config>>}
    ELSE IF f = "candidate_pool" THEN {<<"paper_selection", x>>}
    ELSE IF f = "capsule_task_manifest" THEN {<<"paper_selection", x.paper_selection>>}
    ELSE IF f = "capsule_audits" THEN {<<"capsule_task_manifest", x>>}
    ELSE IF f = "freeze_bindings" THEN
        {<<"config", x.config_digest>>,
         <<"paper_selection", x.paper_selection_digest>>,
         <<"candidate_pool", x.candidate_pool_digest>>,
         <<"capsule_task_manifest", x.task_manifest_digest>>,
         <<"trusted_evaluator_receipt", x.evaluator_digest>>,
         <<"contamination_receipt", x.contamination_audit_digest>>,
         <<"base_checkpoint_receipt", x.base_checkpoint_digest>>}
    ELSE {}

\* A command and the files it has still to write.
CommandOK ==
    \/ command = Idle
    \/ /\ \E kind, after, todo, stage, S :
              /\ command = [kind |-> kind, after |-> after, todo |-> todo, stage |-> stage]
              /\ kind \in {"init", "seal", "bind", "decide"}
              /\ stage \in {"check", "open", "write", "after"}
              /\ todo \in Seq(S)
       /\ command.stage = "after" <=> command.todo = <<>>
       /\ \A i \in 1 .. Len(command.todo) : command.todo[i].file \in WrittenOnce
       /\ command.stage = "open" => files[Pending.file] \in {Absent, Whole(Pending.content)}
       /\ command.stage = "write" => files[Pending.file] = Truncated

\* Settled already, or written by the command before its n-th file.
Secured(f, x, n) ==
    \/ Settled(f, x)
    \/ \E j \in 1 .. n - 1 : command.todo[j] = Write(f, x)

TodoGrounded ==
    command # Idle =>
        \A i \in 1 .. Len(command.todo) :
            \A need \in Needs(command.todo[i].file, command.todo[i].content) :
                Secured(need[1], need[2], i)

FilesGrounded ==
    \A f \in WrittenOnce : IsWhole(f) =>
        \A need \in Needs(f, Content(f)) : Settled(need[1], need[2])

Recorded == {"config", "paper_selection"}

\* What init-formal will record is settled by then, what is recorded is.
EntryGrounded ==
    /\ command # Idle /\ command.kind = "init" =>
           \A f \in DOMAIN command.after \cap Recorded :
               Secured(f, command.after[f], Len(command.todo) + 1)
    /\ ledger # <<>> =>
           \A f \in DOMAIN ledger[1] \cap Recorded : Settled(f, ledger[1][f])

\* A ledger that begins with a decision names no files: bindings are digests.
BindingsShaped ==
    /\ IsWhole("freeze_bindings") => DOMAIN Content("freeze_bindings") \cap Recorded = {}
    /\ command # Idle =>
           \A i \in 1 .. Len(command.todo) :
               command.todo[i].file = "freeze_bindings" =>
                   DOMAIN command.todo[i].content \cap Recorded = {}

TrainedSettled ==
    /\ \A b \in trained : Settled("freeze_bindings", b)
    /\ \A b, c \in trained : b = c

StateOK ==
    /\ DOMAIN files = WrittenOnce \cup Provided
    /\ \A f \in WrittenOnce \cup Provided :
           files[f] \in {Absent, Truncated} \/ \E x : files[f] = Whole(x)
    /\ \E S : ledger \in Seq(S)
    /\ CommandOK

IInv ==
    /\ StateOK
    /\ TodoGrounded
    /\ FilesGrounded
    /\ EntryGrounded
    /\ BindingsShaped
    /\ TrainedSettled

-----------------------------------------------------------------------------
(* The steps, by what they do to the files *)

\* A command that starts leaves the files alone.
LEMMA StartedCommand ==
    ASSUME StateOK, command = Idle, NEW kind \in {"init", "seal", "bind", "decide"},
           NEW after, NEW S, NEW todo \in Seq(S),
           \A i \in 1 .. Len(todo) : todo[i].file \in WrittenOnce,
           Proceed(kind, after, todo), UNCHANGED files
    PROVE  /\ CommandOK'
           /\ command'.todo = todo /\ command'.after = after /\ command'.kind = kind
           /\ command' # Idle
           /\ \A f, x : Settled(f, x) => Settled(f, x)'
<1>1. /\ command' = [kind |-> kind, after |-> after, todo |-> todo,
                     stage |-> IF todo = <<>> THEN "after" ELSE "check"]
      /\ command' # Idle
    BY DEF Proceed, Idle
<1>2. command'.stage \in {"check", "after"} /\ ~Writing("write")'
    BY <1>1 DEF Writing
<1>3. CommandOK'
    BY <1>1, <1>2 DEF CommandOK
<1>4. \A f, x : Settled(f, x) => Settled(f, x)'
    BY <1>2 DEF Settled, BeingWritten
<1> QED
    BY <1>1, <1>3, <1>4

\* No step unsettles a file.
LEMMA SettledStays ==
    ASSUME StateOK, [Next]_vars, NEW f \in WrittenOnce, NEW x, Settled(f, x)
    PROVE  Settled(f, x)'
<1>1. CASE UNCHANGED vars
    BY <1>1 DEF vars, Settled, BeingWritten, Writing, Pending
<1>2. CASE Start \/ Decide
  <2>1. UNCHANGED files /\ \E kind, after, todo : Proceed(kind, after, todo)
      BY <1>2 DEF Start, Decide, InitFormal, SealCapsules, BindFreeze
  <2>2. ~Writing("write")'
      BY <2>1 DEF Proceed, Writing
  <2> QED
      BY <2>1, <2>2 DEF Settled, BeingWritten
<1>3. CASE CheckFile
  <2>1. UNCHANGED files /\ ~Writing("write")'
      BY <1>3 DEF CheckFile, Enter, Writing, Idle, StateOK, CommandOK
  <2> QED
      BY <2>1 DEF Settled, BeingWritten
<1>4. CASE OpenFile
  <2>1. /\ files[Pending.file] \in {Absent, Whole(Pending.content)}
        /\ files' = [files EXCEPT ![Pending.file] = Truncated]
        /\ Pending' = Pending
      BY <1>4 DEF OpenFile, Enter, Writing, Pending, StateOK, CommandOK
  <2>2. CASE Pending.file = f
    <3>1. x = Pending.content
        BY <2>1, <2>2 DEF Settled, Absent, Truncated, Whole, BeingWritten, Writing
    <3> QED
        BY <2>1, <2>2, <3>1 DEF Settled, StateOK
  <2>3. CASE Pending.file # f
      BY <2>1, <2>3 DEF Settled, BeingWritten, StateOK
  <2> QED
      BY <2>2, <2>3
<1>5. CASE WriteFile
  <2>1. /\ files' = [files EXCEPT ![Pending.file] = Whole(Pending.content)]
        /\ files[Pending.file] = Truncated
        /\ ~Writing("write")'
      BY <1>5 DEF WriteFile, Proceed, Writing, StateOK, CommandOK
  <2>2. CASE Pending.file = f
      BY <1>5, <2>1, <2>2 DEF Settled, BeingWritten, WriteFile, StateOK, Truncated, Whole
  <2>3. CASE Pending.file # f
      BY <2>1, <2>3 DEF Settled, BeingWritten, StateOK
  <2> QED
      BY <2>2, <2>3
<1>6. CASE RecordInit \/ FinishSeal \/ FinishBind \/ FinishDecide \/ Crash
  <2>1. UNCHANGED files /\ command' = Idle
      BY <1>6 DEF RecordInit, FinishSeal, FinishBind, FinishDecide, Crash
  <2> QED
      BY <2>1 DEF Settled, BeingWritten, Writing
<1>7. CASE ProvideAny
  <2>1. files'[f] = files[f] /\ command' = command
      BY <1>7 DEF ProvideAny, Provide, WrittenOnce, Provided, StateOK
  <2> QED
      BY <2>1 DEF Settled, BeingWritten, Writing, Pending
<1>8. CASE Train
    BY <1>8 DEF Train, Settled, BeingWritten, Writing, Pending
<1> QED
    BY <1>1, <1>2, <1>3, <1>4, <1>5, <1>6, <1>7, <1>8 DEF Next, CommandStep

LEMMA NeedsWritten ==
    ASSUME NEW f, NEW x, NEW need \in Needs(f, x)
    PROVE  need[1] \in WrittenOnce
    BY DEF Needs, WrittenOnce

LEMMA WholeFile ==
    ASSUME StateOK, NEW f \in WrittenOnce, IsWhole(f)
    PROVE  files[f] = Whole(Content(f)) /\ Settled(f, Content(f))
<1>1. files[f] # Absent /\ files[f] # Truncated
    BY DEF IsWhole, Absent, Truncated
<1>2. PICK x : files[f] = Whole(x)
    BY <1>1 DEF StateOK
<1>3. Content(f) = x
    BY <1>2 DEF Content, Whole
<1> QED
    BY <1>2, <1>3 DEF Settled

\* Taking the first file off the list of those to write.
LEMMA TailEntries ==
    ASSUME NEW S, NEW todo \in Seq(S), todo # <<>>
    PROVE  /\ Tail(todo) \in Seq(S)
           /\ Head(todo) = todo[1]
           /\ Len(todo) \in Nat \ {0}
           /\ Len(Tail(todo)) = Len(todo) - 1
           /\ \A i \in 1 .. Len(todo) - 1 : Tail(todo)[i] = todo[i + 1]
    BY HeadTailProperties, LenProperties, EmptySeq

\* What a step leaves of the command it finds.
LEMMA WriteStep ==
    ASSUME StateOK, WriteFile
    PROVE  /\ command' # Idle
           /\ command'.kind = command.kind /\ command'.after = command.after
           /\ Pending = command.todo[1] /\ Pending.file \in WrittenOnce
           /\ files' = [files EXCEPT ![Pending.file] = Whole(Pending.content)]
           /\ Len(command.todo) \in Nat \ {0}
           /\ Len(command'.todo) = Len(command.todo) - 1
           /\ \A i \in 1 .. Len(command.todo) - 1 : command'.todo[i] = command.todo[i + 1]
           /\ CommandOK'
<1>1. PICK S : command.todo \in Seq(S)
    BY DEF StateOK, CommandOK, WriteFile, Writing
<1>2. /\ command.todo # <<>> /\ command.kind \in {"init", "seal", "bind", "decide"}
      /\ \A i \in 1 .. Len(command.todo) : command.todo[i].file \in WrittenOnce
    BY DEF StateOK, CommandOK, WriteFile, Writing
<1> DEFINE rest == Tail(command.todo)
<1>3. /\ rest \in Seq(S)
      /\ Head(command.todo) = command.todo[1]
      /\ Len(command.todo) \in Nat \ {0}
      /\ Len(rest) = Len(command.todo) - 1
      /\ \A i \in 1 .. Len(command.todo) - 1 : rest[i] = command.todo[i + 1]
    BY <1>1, <1>2, TailEntries
<1>4. Proceed(command.kind, command.after, rest)
    BY DEF WriteFile
<1> HIDE DEF rest
<1>5. /\ command' = [kind |-> command.kind, after |-> command.after, todo |-> rest,
                     stage |-> IF rest = <<>> THEN "after" ELSE "check"]
      /\ command' # Idle
    BY <1>4 DEF Proceed, Idle
<1>6. \A i \in 1 .. Len(rest) : rest[i].file \in WrittenOnce
    BY <1>2, <1>3
<1>7. CommandOK'
    BY <1>2, <1>3, <1>5, <1>6 DEF CommandOK
<1>8. Pending = command.todo[1] /\ Pending.file \in WrittenOnce
    BY <1>2, <1>3 DEF Pending
<1>9. files' = [files EXCEPT ![Pending.file] = Whole(Pending.content)]
    BY DEF WriteFile
<1> QED
    BY <1>3, <1>5, <1>7, <1>8, <1>9

LEMMA CheckOrOpenStep ==
    ASSUME StateOK, CheckFile \/ OpenFile
    PROVE  /\ CommandOK'
           /\ \/ command' = Idle
              \/ /\ command # Idle /\ command' # Idle
                 /\ command'.kind = command.kind /\ command'.after = command.after
                 /\ command'.todo = command.todo
<1>1. /\ command # Idle
      /\ \E stage \in {"check", "open"} : command.stage = stage
      /\ command.todo # <<>>
    BY DEF CheckFile, OpenFile, Writing, StateOK, CommandOK
<1>2. PICK kind, after, todo, stage, S :
          /\ command = [kind |-> kind, after |-> after, todo |-> todo, stage |-> stage]
          /\ kind \in {"init", "seal", "bind", "decide"}
          /\ todo \in Seq(S)
    BY <1>1 DEF StateOK, CommandOK
<1>3. ASSUME NEW next \in {"open", "write"}, Enter(next)
      PROVE  /\ command' = [kind |-> kind, after |-> after, todo |-> todo, stage |-> next]
             /\ command' # Idle
             /\ Pending' = Pending
    BY <1>2, <1>3 DEF Enter, Idle, Pending
<1>4. \A i \in 1 .. Len(todo) : todo[i].file \in WrittenOnce
    BY <1>1, <1>2 DEF StateOK, CommandOK
<1>5. CASE CheckFile
  <2>1. CASE command' = Idle
      BY <2>1 DEF CommandOK
  <2>2. CASE command' # Idle
    <3>1. Enter("open") /\ UNCHANGED files
          /\ files[Pending.file] \in {Absent, Whole(Pending.content)}
        BY <1>5, <2>2 DEF CheckFile
    <3> QED
        BY <1>1, <1>2, <1>3, <1>4, <3>1 DEF CommandOK
  <2> QED
      BY <2>1, <2>2
<1>6. CASE OpenFile
  <2>1. Enter("write") /\ files' = [files EXCEPT ![Pending.file] = Truncated]
      BY <1>6 DEF OpenFile
  <2>2. Pending.file \in DOMAIN files
    <3>1. Pending = command.todo[1] /\ 1 \in 1 .. Len(command.todo)
        BY <1>1, <1>2, TailEntries DEF Pending
    <3> QED
        BY <1>2, <1>4, <3>1 DEF StateOK
  <2> QED
      BY <1>1, <1>2, <1>3, <1>4, <2>1, <2>2 DEF CommandOK
<1> QED
    BY <1>5, <1>6

-----------------------------------------------------------------------------
(* The parts of the invariant *)

LEMMA StatePreserved == StateOK /\ [Next]_vars => StateOK'
<1> SUFFICES ASSUME StateOK, [Next]_vars PROVE StateOK'
    OBVIOUS
<1> DEFINE Shaped == \A f \in WrittenOnce \cup Provided :
                         files'[f] \in {Absent, Truncated} \/ \E x : files'[f] = Whole(x)
<1>1. PICK S : ledger \in Seq(S)
    BY DEF StateOK
<1>2. ASSUME UNCHANGED files
      PROVE  DOMAIN files' = WrittenOnce \cup Provided /\ Shaped
    BY <1>2 DEF StateOK
<1>3. ASSUME NEW f, NEW file, files' = [files EXCEPT ![f] = file],
             file \in {Absent, Truncated} \/ \E x : file = Whole(x)
      PROVE  DOMAIN files' = WrittenOnce \cup Provided /\ Shaped
    BY <1>3 DEF StateOK
<1> HIDE DEF Shaped
<1>4. CASE UNCHANGED vars
    BY <1>4 DEF vars, StateOK, CommandOK, Pending
<1>5. ASSUME NEW kind \in {"init", "seal", "bind", "decide"}, NEW after, NEW T,
             NEW todo \in Seq(T), \A i \in 1 .. Len(todo) : todo[i].file \in WrittenOnce,
             command = Idle, Proceed(kind, after, todo), UNCHANGED files,
             \E U : ledger' \in Seq(U)
      PROVE  StateOK'
    BY <1>2, <1>5, StartedCommand DEF StateOK, Shaped
<1>6. ASSUME NEW config, NEW registry, InitFormal(config, registry) PROVE StateOK'
  <2> DEFINE s == Selection(config, registry)
             a == Write("config", config)
             b == Write("paper_selection", s)
             c == Write("candidate_pool", s)
             todo == <<a, b, c>>
  <2>1. /\ todo \in Seq({a, b, c}) /\ Len(todo) = 3
        /\ todo[1] = a /\ todo[2] = b /\ todo[3] = c
      OBVIOUS
  <2>2. a.file \in WrittenOnce /\ b.file \in WrittenOnce /\ c.file \in WrittenOnce
      BY DEF Write, WrittenOnce
  <2>3. /\ command = Idle /\ UNCHANGED <<files, ledger>>
        /\ Proceed("init", [config |-> config, paper_selection |-> s], todo)
      BY <1>6 DEF InitFormal
  <2> HIDE DEF a, b, c, s, todo
  <2>4. \A i \in 1 .. Len(todo) : todo[i].file \in WrittenOnce
      BY <2>1, <2>2
  <2> QED
      BY <1>1, <1>5, <2>1, <2>3, <2>4
<1>7. ASSUME NEW capsules, SealCapsules(capsules) PROVE StateOK'
  <2> DEFINE e == [paper_selection |-> Content("paper_selection"), capsules |-> capsules]
             a == Write("capsule_task_manifest", e)
             b == Write("capsule_audits", e)
             todo == <<a, b>>
  <2>1. /\ todo \in Seq({a, b}) /\ Len(todo) = 2 /\ todo[1] = a /\ todo[2] = b
      OBVIOUS
  <2>2. a.file \in WrittenOnce /\ b.file \in WrittenOnce
      BY DEF Write, WrittenOnce
  <2>3. command = Idle /\ UNCHANGED <<files, ledger>> /\ Proceed("seal", {}, todo)
      BY <1>7 DEF SealCapsules
  <2> HIDE DEF a, b, e, todo
  <2>4. \A i \in 1 .. Len(todo) : todo[i].file \in WrittenOnce
      BY <2>1, <2>2
  <2> QED
      BY <1>1, <1>5, <2>1, <2>3, <2>4
<1>8. ASSUME NEW evaluator, NEW audit, NEW base, BindFreeze(evaluator, audit, base)
      PROVE  StateOK'
  <2> DEFINE bindings == Bindings(evaluator, audit, base)
             a == Write("trusted_evaluator_receipt", evaluator)
             b == Write("contamination_receipt", audit)
             c == Write("base_checkpoint_receipt", base)
             d == Write("freeze_bindings", bindings)
             todo == <<a, b, c, d>>
  <2>1. /\ todo \in Seq({a, b, c, d}) /\ Len(todo) = 4
        /\ todo[1] = a /\ todo[2] = b /\ todo[3] = c /\ todo[4] = d
      OBVIOUS
  <2>2. /\ a.file \in WrittenOnce /\ b.file \in WrittenOnce
        /\ c.file \in WrittenOnce /\ d.file \in WrittenOnce
      BY DEF Write, WrittenOnce
  <2>3. command = Idle /\ UNCHANGED <<files, ledger>> /\ Proceed("bind", bindings, todo)
      BY <1>8 DEF BindFreeze
  <2> HIDE DEF a, b, c, d, bindings, todo
  <2>4. \A i \in 1 .. Len(todo) : todo[i].file \in WrittenOnce
      BY <2>1, <2>2
  <2> QED
      BY <1>1, <1>5, <2>1, <2>3, <2>4
<1>9. CASE Decide
  <2> DEFINE b == Content("freeze_bindings")
  <2>1. /\ command = Idle /\ UNCHANGED files /\ ledger' = Append(ledger, b)
        /\ Proceed("decide", b, <<>>)
      BY <1>9 DEF Decide
  <2> HIDE DEF b
  <2>2. ledger \in Seq(S \cup {b})
      BY <1>1, SeqDef
  <2>3. ledger' \in Seq(S \cup {b})
      BY <2>1, <2>2, AppendProperties
  <2>4. <<>> \in Seq({}) /\ Len(<<>>) = 0
      OBVIOUS
  <2>5. \A i \in 1 .. Len(<<>>) : <<>>[i].file \in WrittenOnce
      BY <2>4
  <2> QED
      BY <1>5, <2>1, <2>3, <2>4, <2>5
<1>10. CASE CheckFile
    BY <1>1, <1>2, <1>10, CheckOrOpenStep DEF CheckFile, StateOK, Shaped
<1>11. CASE OpenFile
    BY <1>1, <1>3, <1>11, CheckOrOpenStep DEF OpenFile, StateOK, Shaped
<1>12. CASE WriteFile
    BY <1>1, <1>3, <1>12, WriteStep DEF WriteFile, StateOK, Shaped
<1>13. CASE RecordInit \/ FinishSeal \/ FinishBind \/ FinishDecide \/ Crash
  <2>1. UNCHANGED files /\ command' = Idle /\ ledger' \in {ledger, <<command.after>>}
      BY <1>13 DEF RecordInit, FinishSeal, FinishBind, FinishDecide, Crash
  <2>2. <<command.after>> \in Seq({command.after})
      OBVIOUS
  <2>3. CommandOK'
      BY <2>1 DEF CommandOK
  <2> QED
      BY <1>1, <1>2, <2>1, <2>2, <2>3 DEF StateOK, Shaped
<1>14. ASSUME NEW f \in Provided, NEW x, Provide(f, x) PROVE StateOK'
  <2>1. /\ files' = [files EXCEPT ![f] = Whole(x)] /\ UNCHANGED <<command, ledger>>
        /\ \A g \in WrittenOnce : files'[g] = files[g]
      BY <1>14 DEF Provide, StateOK, WrittenOnce, Provided
  <2>2. CommandOK'
    <3>1. CASE command = Idle
        BY <2>1, <3>1 DEF CommandOK
    <3>2. CASE command # Idle
      <4>1. command.stage \in {"open", "write"} => Pending.file \in WrittenOnce
          BY <3>2, TailEntries DEF StateOK, CommandOK, Pending
      <4> QED
          BY <2>1, <3>2, <4>1 DEF StateOK, CommandOK, Pending
    <3> QED
        BY <3>1, <3>2
  <2> QED
      BY <1>1, <1>3, <2>1, <2>2 DEF StateOK, Shaped
<1>15. CASE ProvideAny
    BY <1>14, <1>15 DEF ProvideAny, Provided
<1>16. CASE Train
    BY <1>1, <1>2, <1>16 DEF Train, StateOK, CommandOK, Pending, Shaped
<1> QED
    BY <1>4, <1>6, <1>7, <1>8, <1>9, <1>10, <1>11, <1>12, <1>13, <1>15, <1>16
    DEF Next, Start, CommandStep

LEMMA SecuredStays ==
    ASSUME StateOK, [Next]_vars, NEW f \in WrittenOnce, NEW x, NEW n,
           Secured(f, x, n), command'.todo = command.todo
    PROVE  Secured(f, x, n)'
    BY SettledStays DEF Secured

\* What was to be written first is written; the others are one place further on.
LEMMA SecuredAfterWrite ==
    ASSUME StateOK, WriteFile, NEW f \in WrittenOnce, NEW x,
           NEW n \in 1 .. Len(command.todo), Secured(f, x, n + 1)
    PROVE  Secured(f, x, n)'
<1>1. CASE Settled(f, x)
    BY <1>1, SettledStays DEF Secured, Next, CommandStep
<1>2. ASSUME NEW j \in 1 .. n, command.todo[j] = Write(f, x) PROVE Secured(f, x, n)'
  <2>1. CASE j = 1
    <3>1. files' = [files EXCEPT ![f] = Whole(x)]
        BY <1>2, <2>1, WriteStep DEF Write
    <3> QED
        BY <3>1 DEF Secured, Settled, StateOK
  <2>2. CASE j # 1
    <3>1. /\ j - 1 \in 1 .. n - 1 /\ j - 1 \in 1 .. Len(command.todo) - 1
          /\ Len(command.todo) \in Nat
        BY <2>2, WriteStep
    <3>2. command'.todo[j - 1] = command.todo[j]
        BY <3>1, WriteStep
    <3> QED
        BY <1>2, <3>1, <3>2 DEF Secured, Write
  <2> QED
      BY <2>1, <2>2
<1> QED
    BY <1>1, <1>2, WriteStep DEF Secured

\* The steps of a command that has been started, and those of others, go on with
\* the same list of files, or the rest of it, or none.
LEMMA ListStep ==
    ASSUME StateOK, [Next]_vars, ~Start, ~Decide, ~WriteFile
    PROVE  \/ command' = Idle
           \/ /\ command # Idle /\ command' # Idle
              /\ command'.todo = command.todo /\ command'.after = command.after
              /\ command'.kind = command.kind
<1>1. CASE CheckFile \/ OpenFile
    BY <1>1, CheckOrOpenStep
<1>2. CASE RecordInit \/ FinishSeal \/ FinishBind \/ FinishDecide \/ Crash
    BY <1>2 DEF RecordInit, FinishSeal, FinishBind, FinishDecide, Crash
<1>3. CASE ProvideAny \/ Train \/ UNCHANGED vars
    BY <1>3 DEF ProvideAny, Provide, Train, vars
<1> QED
    BY <1>1, <1>2, <1>3 DEF Next, CommandStep

\* A command that starts finds settled what its files need, or writes it first.
LEMMA StartGrounded ==
    ASSUME IInv, Start \/ Decide
    PROVE  /\ TodoGrounded'
           /\ command'.kind = "init" =>
                  \A f \in DOMAIN command'.after \cap Recorded :
                      Secured(f, command.after[f], Len(command.todo) + 1)'
           /\ \A i \in 1 .. Len(command'.todo) :
                  command'.todo[i].file = "freeze_bindings" =>
                      DOMAIN command'.todo[i].content \cap Recorded = {}
<1> DEFINE Goal ==
        /\ TodoGrounded'
        /\ command'.kind = "init" =>
               \A f \in DOMAIN command'.after \cap Recorded :
                   Secured(f, command.after[f], Len(command.todo) + 1)'
        /\ \A i \in 1 .. Len(command'.todo) :
               command'.todo[i].file = "freeze_bindings" =>
                   DOMAIN command'.todo[i].content \cap Recorded = {}
<1>1. ASSUME NEW f \in WrittenOnce, NEW x, Settled(f, x) PROVE Settled(f, x)'
    BY <1>1, SettledStays DEF IInv, Next
<1>2. ASSUME NEW config, NEW registry, InitFormal(config, registry) PROVE Goal
  <2> DEFINE s == Selection(config, registry)
             todo == <<Write("config", config), Write("paper_selection", s),
                       Write("candidate_pool", s)>>
  <2>1. /\ command'.todo = todo /\ command'.kind = "init"
        /\ command'.after = [config |-> config, paper_selection |-> s]
      BY <1>2 DEF InitFormal, Proceed
  <2>2. /\ Len(todo) = 3 /\ todo[1] = Write("config", config)
        /\ todo[2] = Write("paper_selection", s) /\ todo[3] = Write("candidate_pool", s)
      OBVIOUS
  <2>3. s.config = config
      BY DEF Selection
  <2> HIDE DEF s, todo
  <2>4. ASSUME NEW i \in 1 .. 3, NEW need \in Needs(todo[i].file, todo[i].content)
        PROVE  \E j \in 1 .. i - 1 : todo[j] = Write(need[1], need[2])
      BY <2>2, <2>3, <2>4 DEF Needs, Write
  <2>5. ASSUME NEW f \in DOMAIN command'.after
        PROVE  \E j \in 1 .. 3 : todo[j] = Write(f, command'.after[f])
      BY <2>1, <2>2, <2>5
  <2>6. TodoGrounded'
      BY <2>1, <2>2, <2>4 DEF TodoGrounded, Secured, Write
  <2>7. \A i \in 1 .. 3 : todo[i].file # "freeze_bindings"
      BY <2>2 DEF Write
  <2>8. \A f \in DOMAIN command'.after \cap Recorded :
            Secured(f, command.after[f], Len(command.todo) + 1)'
      BY <2>1, <2>2, <2>5 DEF Secured, Write
  <2> QED
      BY <2>1, <2>2, <2>6, <2>7, <2>8
<1>3. ASSUME NEW capsules, SealCapsules(capsules) PROVE Goal
  <2> DEFINE e == [paper_selection |-> Content("paper_selection"), capsules |-> capsules]
             todo == <<Write("capsule_task_manifest", e), Write("capsule_audits", e)>>
  <2>1. command'.todo = todo /\ command'.kind = "seal" /\ IsWhole("paper_selection")
      BY <1>3 DEF SealCapsules, Proceed
  <2>2. /\ Len(todo) = 2 /\ todo[1] = Write("capsule_task_manifest", e)
        /\ todo[2] = Write("capsule_audits", e)
      OBVIOUS
  <2>3. \A x : x = e.paper_selection => Settled("paper_selection", x)'
      BY <1>1, <2>1, WholeFile DEF IInv, WrittenOnce
  <2> HIDE DEF e, todo
  <2>4. ASSUME NEW i \in 1 .. 2, NEW need \in Needs(todo[i].file, todo[i].content)
        PROVE  \/ need = <<"paper_selection", e.paper_selection>>
               \/ \E j \in 1 .. i - 1 : todo[j] = Write(need[1], need[2])
      BY <2>2, <2>4 DEF Needs, Write
  <2>5. TodoGrounded'
      BY <2>1, <2>2, <2>3, <2>4 DEF TodoGrounded, Secured, Write
  <2>6. \A i \in 1 .. 2 : todo[i].file # "freeze_bindings"
      BY <2>2 DEF Write
  <2> QED
      BY <2>1, <2>2, <2>5, <2>6
<1>4. ASSUME NEW evaluator, NEW audit, NEW base, BindFreeze(evaluator, audit, base)
      PROVE  Goal
  <2> DEFINE b == Bindings(evaluator, audit, base)
             todo == <<Write("trusted_evaluator_receipt", evaluator),
                       Write("contamination_receipt", audit),
                       Write("base_checkpoint_receipt", base),
                       Write("freeze_bindings", b)>>
             Bound == {<<"config", b.config_digest>>,
                       <<"paper_selection", b.paper_selection_digest>>,
                       <<"candidate_pool", b.candidate_pool_digest>>,
                       <<"capsule_task_manifest", b.task_manifest_digest>>}
  <2>1. /\ command'.todo = todo /\ command'.kind = "bind"
        /\ \A f \in {"config", "paper_selection", "candidate_pool",
                     "capsule_task_manifest"} : IsWhole(f)
      BY <1>4 DEF BindFreeze, Proceed
  <2>2. /\ Len(todo) = 4
        /\ todo[1] = Write("trusted_evaluator_receipt", evaluator)
        /\ todo[2] = Write("contamination_receipt", audit)
        /\ todo[3] = Write("base_checkpoint_receipt", base)
        /\ todo[4] = Write("freeze_bindings", b)
      OBVIOUS
  <2>3. /\ b.config_digest = Content("config")
        /\ b.paper_selection_digest = Content("paper_selection")
        /\ b.candidate_pool_digest = Content("candidate_pool")
        /\ b.task_manifest_digest = Content("capsule_task_manifest")
        /\ b.evaluator_digest = evaluator
        /\ b.contamination_audit_digest = audit
        /\ b.base_checkpoint_digest = base
        /\ DOMAIN b \cap Recorded = {}
      BY DEF Bindings, Recorded
  <2>4. \A f \in {"config", "paper_selection", "candidate_pool", "capsule_task_manifest"} :
            \A x : x = Content(f) => Settled(f, x)'
      BY <1>1, <2>1, WholeFile DEF IInv, WrittenOnce
  <2> HIDE DEF b, todo
  <2>5. \A need : need \in Bound => Settled(need[1], need[2])'
      BY <2>3, <2>4
  <2>6. ASSUME NEW i \in 1 .. 4, NEW need \in Needs(todo[i].file, todo[i].content)
        PROVE  \/ need \in Bound
               \/ \E j \in 1 .. i - 1 : todo[j] = Write(need[1], need[2])
    <3>1. CASE i = 4
        BY <2>2, <2>3, <2>6, <3>1 DEF Needs, Write
    <3>2. CASE i # 4
        BY <2>2, <2>6, <3>2 DEF Needs, Write
    <3> QED
        BY <3>1, <3>2
  <2> HIDE DEF Bound
  <2>7. TodoGrounded'
      BY <2>1, <2>2, <2>5, <2>6 DEF TodoGrounded, Secured, Write
  <2>8. \A i \in 1 .. 4 : todo[i].file = "freeze_bindings" =>
                              DOMAIN todo[i].content \cap Recorded = {}
      BY <2>2, <2>3 DEF Write
  <2> QED
      BY <2>1, <2>2, <2>7, <2>8
<1>5. CASE Decide
  <2>1. command'.todo = <<>> /\ command'.kind = "decide"
      BY <1>5 DEF Decide, Proceed
  <2> QED
      BY <2>1 DEF TodoGrounded
<1> QED
    BY <1>2, <1>3, <1>4, <1>5 DEF Start

\* The content of the file that was just completed.
LEMMA Completed ==
    ASSUME StateOK, WriteFile, NEW f, Pending.file = f
    PROVE  /\ Content(f)' = command.todo[1].content
           /\ command.todo[1].file = f
           /\ 1 \in 1 .. Len(command.todo)
           /\ command # Idle
<1>1. /\ files' = [files EXCEPT ![f] = Whole(command.todo[1].content)]
      /\ f \in DOMAIN files
      /\ command.todo[1].file = f
      /\ 1 \in 1 .. Len(command.todo)
    BY WriteStep DEF StateOK
<1>2. files'[f] = Whole(command.todo[1].content)
    BY <1>1
<1>3. Content(f)' = command.todo[1].content
    BY <1>2 DEF Content, Whole
<1> QED
    BY <1>1, <1>3 DEF WriteFile, Writing

LEMMA TodoPreserved == IInv /\ [Next]_vars => TodoGrounded'
<1> SUFFICES ASSUME IInv, [Next]_vars PROVE TodoGrounded'
    OBVIOUS
<1>1. CASE Start \/ Decide
    BY <1>1, StartGrounded
<1>2. CASE WriteFile
  <2> SUFFICES ASSUME NEW i \in 1 .. Len(command'.todo),
                      NEW need \in Needs(command'.todo[i].file, command'.todo[i].content)
               PROVE  Secured(need[1], need[2], i)'
      BY DEF TodoGrounded
  <2>1. /\ i \in 1 .. Len(command.todo) /\ i + 1 \in 1 .. Len(command.todo)
        /\ command'.todo[i] = command.todo[i + 1]
        /\ command # Idle
      BY <1>2, WriteStep DEF IInv, WriteFile, Writing
  <2>2. Secured(need[1], need[2], i + 1)
      BY <2>1 DEF IInv, TodoGrounded
  <2> QED
      BY <1>2, <2>1, <2>2, SecuredAfterWrite, NeedsWritten DEF IInv
<1>3. CASE ~Start /\ ~Decide /\ ~WriteFile
  <2>1. CASE command' = Idle
      BY <2>1 DEF TodoGrounded
  <2>2. CASE command # Idle /\ command'.todo = command.todo
      BY <2>2, SecuredStays, NeedsWritten DEF IInv, TodoGrounded
  <2> QED
      BY <1>3, <2>1, <2>2, ListStep DEF IInv
<1> QED
    BY <1>1, <1>2, <1>3

\* A file of a run directory that is written once changes by OpenFile and WriteFile only.
LEMMA FilesStep ==
    ASSUME StateOK, [Next]_vars, ~WriteFile, NEW f \in WrittenOnce, IsWhole(f)'
    PROVE  files'[f] = files[f]
<1>1. CASE OpenFile
    BY <1>1 DEF OpenFile, StateOK, IsWhole, Truncated
<1>2. CASE Start \/ Decide
    BY <1>2 DEF Start, Decide, InitFormal, SealCapsules, BindFreeze
<1>3. CASE CheckFile \/ RecordInit \/ FinishSeal \/ FinishBind \/ FinishDecide \/ Crash
    BY <1>3 DEF CheckFile, RecordInit, FinishSeal, FinishBind, FinishDecide, Crash
<1>4. CASE ProvideAny
    BY <1>4 DEF ProvideAny, Provide, WrittenOnce, Provided, StateOK
<1>5. CASE Train \/ UNCHANGED vars
    BY <1>5 DEF Train, vars
<1> QED
    BY <1>1, <1>2, <1>3, <1>4, <1>5 DEF Next, CommandStep

LEMMA FilesPreserved == IInv /\ [Next]_vars => FilesGrounded'
<1> SUFFICES ASSUME IInv, [Next]_vars, NEW f \in WrittenOnce, IsWhole(f)',
                    NEW need \in Needs(f, Content(f)')
             PROVE  Settled(need[1], need[2])'
    BY DEF FilesGrounded
<1>1. CASE WriteFile /\ Pending.file = f
  <2>1. Content(f)' = command.todo[1].content /\ command.todo[1].file = f
        /\ 1 \in 1 .. Len(command.todo) /\ command # Idle
      BY <1>1, Completed DEF IInv
  <2>2. Secured(need[1], need[2], 1)
      BY <2>1 DEF IInv, TodoGrounded
  <2>3. Settled(need[1], need[2])
      BY <2>2 DEF Secured
  <2> QED
      BY <2>3, NeedsWritten, SettledStays DEF IInv
<1>2. CASE ~(WriteFile /\ Pending.file = f)
  <2>1. files'[f] = files[f]
      BY <1>2, FilesStep DEF IInv, WriteFile, StateOK
  <2>2. IsWhole(f) /\ Content(f)' = Content(f)
      BY <2>1 DEF IsWhole, Content
  <2>3. Settled(need[1], need[2])
      BY <2>2 DEF IInv, FilesGrounded
  <2> QED
      BY <2>3, NeedsWritten, SettledStays DEF IInv
<1> QED
    BY <1>1, <1>2

LEMMA EntryPreserved == IInv /\ [Next]_vars => EntryGrounded' /\ BindingsShaped'
<1> SUFFICES ASSUME IInv, [Next]_vars PROVE EntryGrounded' /\ BindingsShaped'
    OBVIOUS
<1>1. ASSUME NEW f \in Recorded, NEW x, Settled(f, x) PROVE Settled(f, x)'
    BY <1>1, SettledStays DEF IInv, Recorded, WrittenOnce
<1>2. command' # Idle /\ command'.kind = "init" =>
          \A f \in DOMAIN command'.after \cap Recorded :
              Secured(f, command.after[f], Len(command.todo) + 1)'
  <2>1. CASE Start \/ Decide
      BY <2>1, StartGrounded
  <2>2. CASE WriteFile
    <3> SUFFICES ASSUME command'.kind = "init", NEW f \in DOMAIN command'.after \cap Recorded
                 PROVE  Secured(f, command.after[f], Len(command.todo) + 1)'
        OBVIOUS
    <3>1. /\ command # Idle /\ command.kind = "init" /\ command'.after = command.after
          /\ Len(command.todo) \in 1 .. Len(command.todo)
          /\ Len(command'.todo) + 1 = Len(command.todo)
        BY <2>2, WriteStep DEF IInv, WriteFile, Writing
    <3>2. Secured(f, command.after[f], Len(command.todo) + 1)
        BY <3>1 DEF IInv, EntryGrounded
    <3>3. \A x, n : x = command.after[f] /\ n = Len(command.todo) => Secured(f, x, n)'
        BY <2>2, <3>1, <3>2, SecuredAfterWrite DEF IInv, Recorded, WrittenOnce
    <3> QED
        BY <3>1, <3>3
  <2>3. CASE ~Start /\ ~Decide /\ ~WriteFile /\ command' # Idle
    <3>1. /\ command # Idle /\ command'.todo = command.todo
          /\ command'.after = command.after /\ command'.kind = command.kind
        BY <2>3, ListStep DEF IInv
    <3>2. \A f \in Recorded : \A x, n : Secured(f, x, n) => Secured(f, x, n)'
        BY <3>1, SecuredStays DEF IInv, Recorded, WrittenOnce
    <3> QED
        BY <3>1, <3>2 DEF IInv, EntryGrounded
  <2> QED
      BY <2>1, <2>2, <2>3
<1>3. ledger' # <<>> => \A f \in DOMAIN ledger'[1] \cap Recorded : Settled(f, ledger[1][f])'
  <2>1. PICK S : ledger \in Seq(S)
      BY DEF IInv, StateOK
  <2>2. CASE ledger # <<>> /\ ledger'[1] = ledger[1]
      BY <1>1, <2>2 DEF IInv, EntryGrounded
  <2>3. CASE RecordInit /\ ledger = <<>>
    <3>1. /\ ledger' = <<command.after>> /\ command # Idle /\ command.kind = "init"
          /\ command.todo = <<>>
        BY <2>3 DEF RecordInit, At, IInv, StateOK, CommandOK
    <3>2. \A f \in DOMAIN command.after \cap Recorded : Settled(f, command.after[f])
        BY <3>1 DEF IInv, EntryGrounded, Secured
    <3> QED
        BY <1>1, <3>1, <3>2
  <2>4. CASE Decide /\ ledger = <<>>
    <3>1. ledger'[1] = Content("freeze_bindings") /\ IsWhole("freeze_bindings")
        BY <2>4 DEF Decide
    <3> QED
        BY <3>1 DEF IInv, BindingsShaped
  <2>5. CASE Decide /\ ledger # <<>>
    <3> DEFINE b == Content("freeze_bindings")
    <3>1. ledger' = Append(ledger, b)
        BY <2>5 DEF Decide
    <3> HIDE DEF b
    <3>2. ledger \in Seq(S \cup {b}) /\ Len(ledger) \in Nat \ {0}
        BY <2>1, <2>5, SeqDef, LenProperties, EmptySeq
    <3>3. ledger'[1] = ledger[1]
        BY <3>1, <3>2, AppendProperties
    <3> QED
        BY <2>2, <2>5, <3>3
  <2>6. CASE UNCHANGED ledger
      BY <2>2, <2>6
  <2>7. Decide \/ (RecordInit /\ ledger = <<>>) \/ UNCHANGED ledger
      BY DEF Next, Start, InitFormal, SealCapsules, BindFreeze, CommandStep, CheckFile,
             OpenFile, WriteFile, RecordInit, FinishSeal, FinishBind, FinishDecide,
             Crash, ProvideAny, Provide, Train, vars
  <2> QED
      BY <2>3, <2>4, <2>5, <2>6, <2>7
<1>4. BindingsShaped'
  <2>1. IsWhole("freeze_bindings")' => DOMAIN Content("freeze_bindings")' \cap Recorded = {}
    <3> DEFINE f == "freeze_bindings"
    <3> SUFFICES ASSUME IsWhole(f)' PROVE DOMAIN Content(f)' \cap Recorded = {}
        OBVIOUS
    <3>1. CASE WriteFile /\ Pending.file = f
      <4>1. Content(f)' = command.todo[1].content /\ command.todo[1].file = f
            /\ 1 \in 1 .. Len(command.todo) /\ command # Idle
          BY <3>1, Completed DEF IInv
      <4> QED
          BY <4>1 DEF IInv, BindingsShaped
    <3>2. CASE ~(WriteFile /\ Pending.file = f)
      <4>1. files'[f] = files[f] /\ f \in WrittenOnce
          BY <3>2, FilesStep DEF IInv, WriteFile, StateOK, WrittenOnce
      <4> QED
          BY <4>1 DEF IInv, BindingsShaped, IsWhole, Content
    <3> QED
        BY <3>1, <3>2
  <2>2. command' # Idle =>
            \A i \in 1 .. Len(command'.todo) :
                command'.todo[i].file = "freeze_bindings" =>
                    DOMAIN command'.todo[i].content \cap Recorded = {}
    <3>1. CASE Start \/ Decide
        BY <3>1, StartGrounded
    <3>2. CASE WriteFile
      <4>1. \A i \in 1 .. Len(command'.todo) :
                /\ i + 1 \in 1 .. Len(command.todo)
                /\ command'.todo[i] = command.todo[i + 1]
          BY <3>2, WriteStep DEF IInv
      <4> QED
          BY <3>2, <4>1 DEF IInv, BindingsShaped, WriteFile, Writing
    <3>3. CASE ~Start /\ ~Decide /\ ~WriteFile
        BY <3>3, ListStep DEF IInv, BindingsShaped
    <3> QED
        BY <3>1, <3>2, <3>3
  <2> QED
      BY <2>1, <2>2 DEF BindingsShaped
<1> QED
    BY <1>2, <1>3, <1>4 DEF EntryGrounded

LEMMA TrainedPreserved == IInv /\ [Next]_vars => TrainedSettled'
<1> SUFFICES ASSUME IInv, [Next]_vars PROVE TrainedSettled'
    OBVIOUS
<1>1. ASSUME NEW b, Settled("freeze_bindings", b) PROVE Settled("freeze_bindings", b)'
    BY <1>1, SettledStays DEF IInv, WrittenOnce
<1>2. CASE Train
  <2> DEFINE b == Content("freeze_bindings")
  <2>1. /\ trained' = trained \cup {b}
        /\ IsWhole("freeze_bindings")
        /\ "freeze_bindings" \in WrittenOnce
      BY <1>2 DEF Train, Ready, AllThere, WrittenOnce
  <2>2. files["freeze_bindings"] = Whole(b) /\ Settled("freeze_bindings", b)
      BY <2>1, WholeFile DEF IInv
  <2> HIDE DEF b
  <2>3. \A c : Whole(b) # Truncated /\ (Whole(b) = Whole(c) => b = c)
      BY DEF Whole, Truncated
  <2>4. \A c \in trained : c = b
      BY <2>2, <2>3 DEF IInv, TrainedSettled, Settled
  <2> QED
      BY <1>1, <2>1, <2>2, <2>4 DEF IInv, TrainedSettled
<1>3. CASE ~Train
  <2>1. UNCHANGED trained
      BY <1>3 DEF Next, Start, InitFormal, SealCapsules, BindFreeze, CommandStep, CheckFile,
             OpenFile, WriteFile, RecordInit, FinishSeal, FinishBind, FinishDecide,
             Crash, ProvideAny, Provide, Decide, vars
  <2> QED
      BY <1>1, <2>1 DEF IInv, TrainedSettled
<1> QED
    BY <1>2, <1>3

LEMMA InitIInv == Init => IInv
<1> SUFFICES ASSUME Init PROVE IInv
    OBVIOUS
<1>1. command = Idle /\ ledger = <<>> /\ trained = {}
      /\ files = [f \in WrittenOnce \cup Provided |-> Absent]
    BY DEF Init
<1>2. \A f \in WrittenOnce \cup Provided : files[f] = Absent /\ ~IsWhole(f)
    BY <1>1 DEF IsWhole, Absent
<1>3. <<>> \in Seq({})
    OBVIOUS
<1>4. StateOK
    BY <1>1, <1>2, <1>3 DEF StateOK, CommandOK
<1> QED
    BY <1>1, <1>2, <1>4 DEF IInv, TodoGrounded, FilesGrounded, EntryGrounded,
        BindingsShaped, TrainedSettled, WrittenOnce

LEMMA Inductive == IInv /\ [Next]_vars => IInv'
    BY StatePreserved, TodoPreserved, FilesPreserved, EntryPreserved, TrainedPreserved
    DEF IInv

LEMMA Invariance == Spec => []IInv
    BY InitIInv, Inductive, PTL DEF Spec

-----------------------------------------------------------------------------
(* Theorems *)

LEMMA SettledWhole ==
    ASSUME NEW f, NEW x, Settled(f, x), IsWhole(f)
    PROVE  Content(f) = x
<1>1. files[f] # Truncated
    BY DEF IsWhole, Truncated
<1>2. files[f] = Whole(x)
    BY <1>1 DEF Settled
<1> QED
    BY <1>2 DEF Content, Whole

\* The files of a run directory that are complete never contradict each other, with
\* whatever inputs, in whatever order and however often its commands were run, and
\* wherever they died (formal.py:32-166).
THEOREM BundleNeverMixed == Spec => []BundleCoherent
<1>1. IInv => BundleCoherent
  <2> SUFFICES ASSUME IInv PROVE BundleCoherent
      OBVIOUS
  <2> USE DEF WrittenOnce
  <2>1. ASSUME NEW f \in WrittenOnce, IsWhole(f), NEW need \in Needs(f, Content(f)),
               IsWhole(need[1])
        PROVE  Content(need[1]) = need[2]
      BY <2>1, SettledWhole DEF IInv, FilesGrounded
  <2>2. IsWhole("paper_selection") /\ IsWhole("config") =>
            Content("paper_selection").config = Content("config")
    <3>1. <<"config", Content("paper_selection").config>>
              \in Needs("paper_selection", Content("paper_selection"))
        BY DEF Needs
    <3> QED
        BY <2>1, <3>1
  <2>3. IsWhole("candidate_pool") /\ IsWhole("paper_selection") =>
            Content("candidate_pool") = Content("paper_selection")
    <3>1. <<"paper_selection", Content("candidate_pool")>>
              \in Needs("candidate_pool", Content("candidate_pool"))
        BY DEF Needs
    <3> QED
        BY <2>1, <3>1
  <2>4. IsWhole("capsule_task_manifest") /\ IsWhole("paper_selection") =>
            Content("capsule_task_manifest").paper_selection = Content("paper_selection")
    <3>1. <<"paper_selection", Content("capsule_task_manifest").paper_selection>>
              \in Needs("capsule_task_manifest", Content("capsule_task_manifest"))
        BY DEF Needs
    <3> QED
        BY <2>1, <3>1
  <2>5. IsWhole("capsule_audits") /\ IsWhole("capsule_task_manifest") =>
            Content("capsule_audits") = Content("capsule_task_manifest")
    <3>1. <<"capsule_task_manifest", Content("capsule_audits")>>
              \in Needs("capsule_audits", Content("capsule_audits"))
        BY DEF Needs
    <3> QED
        BY <2>1, <3>1
  <2> QED
      BY <2>2, <2>3, <2>4, <2>5 DEF BundleCoherent
<1> QED
    BY <1>1, Invariance, PTL

\* freeze_bindings.json stays true of every complete file it binds, and all training
\* a run directory ever saw was under one freeze (formal.py:146, train_qlora.py).
THEOREM OneFreezeForAll == Spec => []BindingsHold
<1>1. IInv => BindingsHold
  <2> SUFFICES ASSUME IInv PROVE BindingsHold
      OBVIOUS
  <2>1. ASSUME IsWhole("freeze_bindings"),
               NEW need \in Needs("freeze_bindings", Content("freeze_bindings")),
               IsWhole(need[1])
        PROVE  Content(need[1]) = need[2]
      BY <2>1, SettledWhole DEF IInv, FilesGrounded, WrittenOnce
  <2>2. \A b, c \in trained : b = c
      BY DEF IInv, TrainedSettled
  <2> QED
      BY <2>1, <2>2 DEF BindingsHold, Needs
<1> QED
    BY <1>1, Invariance, PTL

\* The first entry of the ledger and the files of the run directory name one config
\* and one selection, also when init-formal died and was run with others.
THEOREM LedgerNamesTheFiles == Spec => []RecordsAgree
<1>1. IInv => RecordsAgree
    BY SettledWhole DEF IInv, EntryGrounded, RecordsAgree, Recorded
<1> QED
    BY <1>1, Invariance, PTL

\* The anchor is of an entry the ledger has.
AnchorOK ==
    /\ anchor = NoAnchor \/ anchor.head \in 1 .. Len(ledger)
    /\ command # Idle /\ command.kind = "decide" => ledger # <<>>

LEMMA AnchorPreserved == IInv /\ AnchorOK /\ [Next]_vars => AnchorOK'
<1> SUFFICES ASSUME IInv, AnchorOK, [Next]_vars PROVE AnchorOK'
    OBVIOUS
<1>1. PICK S : ledger \in Seq(S)
    BY DEF IInv, StateOK
<1>2. Len(ledger) \in Nat /\ (ledger # <<>> => Len(ledger) \in 1 .. Len(ledger))
    BY <1>1, LenProperties, EmptySeq
<1>3. CASE Start
  <2>1. /\ UNCHANGED <<ledger, anchor>>
        /\ \E kind \in {"init", "seal", "bind"} : \E after, todo : Proceed(kind, after, todo)
      BY <1>3 DEF Start, InitFormal, SealCapsules, BindFreeze
  <2>2. command'.kind # "decide"
      BY <2>1 DEF Proceed
  <2> QED
      BY <2>1, <2>2 DEF AnchorOK
<1>4. CASE Decide
  <2> DEFINE b == Content("freeze_bindings")
  <2>1. ledger' = Append(ledger, b) /\ UNCHANGED anchor
      BY <1>4 DEF Decide
  <2> HIDE DEF b
  <2>2. ledger \in Seq(S \cup {b})
      BY <1>1, SeqDef
  <2>3. Len(ledger') = Len(ledger) + 1 /\ ledger' # <<>>
      BY <2>1, <2>2, AppendProperties
  <2> QED
      BY <1>2, <2>1, <2>3 DEF AnchorOK
<1>5. CASE WriteFile
  <2>1. UNCHANGED <<ledger, anchor>> /\ command # Idle /\ command'.kind = command.kind
      BY <1>5, WriteStep DEF IInv, WriteFile, Writing
  <2> QED
      BY <2>1 DEF AnchorOK
<1>6. CASE CheckFile \/ OpenFile \/ ProvideAny \/ Train \/ Crash \/ FinishSeal \/ UNCHANGED vars
  <2>1. \/ UNCHANGED <<ledger, anchor>> /\ ~Start /\ ~Decide /\ ~WriteFile
        \/ AnchorOK'
      BY <1>3, <1>4, <1>5, <1>6 DEF CheckFile, OpenFile, ProvideAny, Provide, Train, Crash,
          FinishSeal, vars
  <2> QED
      BY <2>1, ListStep DEF IInv, AnchorOK
<1>7. CASE RecordInit
  <2>1. /\ command' = Idle /\ UNCHANGED anchor
        /\ ledger' = IF ledger = <<>> THEN <<command.after>> ELSE ledger
      BY <1>7 DEF RecordInit
  <2>2. ledger = <<>> => anchor = NoAnchor
      BY <1>2, EmptySeq DEF AnchorOK
  <2> QED
      BY <2>1, <2>2 DEF AnchorOK
<1>8. CASE FinishBind \/ FinishDecide
  <2>1. /\ command' = Idle /\ UNCHANGED ledger
        /\ \/ UNCHANGED anchor
           \/ anchor'.head = Len(ledger') /\ ledger # <<>>
      BY <1>8 DEF FinishBind, FinishDecide, AnchorHead, At, AnchorOK
  <2> QED
      BY <1>2, <2>1 DEF AnchorOK
<1> QED
    BY <1>3, <1>4, <1>5, <1>6, <1>7, <1>8 DEF Next, CommandStep

\* Commands and files keep their shapes, and what head_anchor.json names is in the
\* ledger.
THEOREM PipelineTypeCorrect == Spec => []TypeOK
<1>1. IInv /\ AnchorOK => TypeOK
  <2> SUFFICES ASSUME IInv, AnchorOK PROVE TypeOK
      OBVIOUS
  <2>1. \A f \in WrittenOnce \cup Provided : files[f] \in {Absent, Truncated} \/ IsWhole(f)
    <3>1. \A f, x : files[f] = Whole(x) => IsWhole(f)
        BY DEF IsWhole, Whole
    <3> QED
        BY <3>1 DEF IInv, StateOK
  <2> QED
      BY <2>1 DEF IInv, StateOK, CommandOK, AnchorOK, TypeOK
<1>2. Init => AnchorOK
    BY DEF Init, AnchorOK
<1> QED
    BY <1>1, <1>2, InitIInv, Inductive, AnchorPreserved, PTL DEF Spec

-----------------------------------------------------------------------------
(* Dead ends *)

\* A file that is cut short and that no command is writing.
Stuck(f) == files[f] = Truncated /\ ~BeingWritten(f)

\* A stuck file is settled whatever it should have said, and nothing else is.
LEMMA StuckSettled ==
    ASSUME NEW f
    PROVE  Stuck(f) <=> \A x : Settled(f, x)
<1>1. Stuck(f) => \A x : Settled(f, x)
    BY DEF Stuck, Settled
<1>2. ASSUME \A x : Settled(f, x) PROVE Stuck(f)
  <2>1. Settled(f, 1) /\ Settled(f, 2)
      BY <1>2
  <2>2. Whole(1) # Whole(2) /\ Whole(1) # Truncated /\ Whole(2) # Truncated
      BY DEF Whole, Truncated
  <2>3. 1 # 2
      OBVIOUS
  <2> QED
      BY <2>1, <2>2, <2>3 DEF Stuck, Settled
<1> QED
    BY <1>1, <1>2

\* What a file says or will say is settled, and what is settled is said unless the
\* file is stuck.
LEMMA SaidSettled ==
    ASSUME StateOK, NEW f \in WrittenOnce, NEW x
    PROVE  /\ x \in Said(f) => Settled(f, x)
           /\ Settled(f, x) => x \in Said(f) \/ Stuck(f)
<1>1. \A y : Whole(y).content = y /\ Whole(y) # Truncated /\ Whole(y) # Absent
    BY DEF Whole, Truncated, Absent
<1>2. ASSUME x \in Said(f) PROVE Settled(f, x)
  <2>1. CASE BeingWritten(f) /\ x = Pending.content
    <3>1. files[f] = Truncated
        BY <2>1 DEF BeingWritten, Writing, StateOK, CommandOK
    <3> QED
        BY <2>1, <3>1 DEF Settled
  <2>2. CASE files[f] \notin {Absent, Truncated} /\ x = files[f].content
      BY <1>1, <2>2 DEF StateOK, Settled
  <2> QED
      BY <1>2, <2>1, <2>2 DEF Said
<1>3. ASSUME Settled(f, x) PROVE x \in Said(f) \/ Stuck(f)
  <2>1. CASE files[f] = Whole(x)
      BY <1>1, <2>1 DEF Said
  <2>2. CASE files[f] = Truncated
      BY <1>3, <1>1, <2>2 DEF Settled, Said, Stuck
  <2> QED
      BY <1>3, <2>1, <2>2 DEF Settled
<1> QED
    BY <1>2, <1>3

LEMMA SaidAfterwards ==
    ASSUME NEW f \in WrittenOnce, NEW x
    PROVE  (StateOK /\ Settled(f, x) => x \in Said(f) \/ Stuck(f))'
<1>1. StateOK /\ Settled(f, x) => x \in Said(f) \/ Stuck(f)
    BY SaidSettled
<1> QED
    BY <1>1, PTL

LEMMA DeadEndNotReady ==
    ASSUME StateOK, DeadEnd
    PROVE  ~Ready
<1> SUFFICES ASSUME Ready PROVE FALSE
    OBVIOUS
<1>1. ASSUME NEW f \in WrittenOnce, NEW x, x \in Said(f) PROVE Content(f) = x
  <2>1. Settled(f, x) /\ IsWhole(f)
      BY <1>1, SaidSettled DEF Ready, AllThere
  <2> QED
      BY <2>1, SettledWhole
<1>2. ~ \E f \in WrittenOnce : files[f] = Truncated
    BY DEF Ready, AllThere, IsWhole, Truncated
<1>3. Said("config") \subseteq ReadyConfigs
    BY <1>1 DEF Ready, ConfigReady, WrittenOnce
<1>4. ASSUME NEW b \in Said("freeze_bindings") PROVE Complete(b)
  <2>1. b = Bindings(Content("trusted_evaluator_receipt"), Content("contamination_receipt"),
                     Content("base_checkpoint_receipt"))
      BY <1>1, <1>4 DEF Ready, AllBound, WrittenOnce
  <2>2. /\ Digest("power_receipt") = [file |-> Content("power_receipt")]
        /\ Digest("human_review_rubric") = [file |-> Content("trusted_evaluator_receipt")]
      BY DEF Ready, AllThere, AllBound, Digest, Provided
  <2>3. [file |-> Content("power_receipt")] # [none |-> TRUE]
      OBVIOUS
  <2>4. /\ b.power_receipt_digest = Digest("power_receipt")
        /\ b.rubric_digest = Digest("human_review_rubric")
        /\ b.evaluator_digest = Content("trusted_evaluator_receipt")
      BY <2>1 DEF Bindings
  <2> QED
      BY <2>2, <2>3, <2>4 DEF Complete
<1> QED
    BY <1>2, <1>3, <1>4 DEF DeadEnd

LEMMA DeadEndStep ==
    ASSUME IInv, [Next]_vars, DeadEnd
    PROVE  DeadEnd'
<1>0. StateOK /\ StateOK'
    BY Inductive DEF IInv
<1>1. ASSUME NEW f \in WrittenOnce, Stuck(f) PROVE DeadEnd'
  <2>1. \A x : Settled(f, x)
      BY <1>1, StuckSettled
  <2>2. \A x : Settled(f, x)'
      BY <1>0, <2>1, SettledStays
  <2>3. (\A x : Settled(f, x))' => Stuck(f)'
      BY StuckSettled, PTL
  <2>4. Stuck(f)'
      BY <2>2, <2>3
  <2> QED
      BY <2>4 DEF Stuck, DeadEnd
<1>2. ASSUME NEW f \in WrittenOnce, NEW x, x \in Said(f), x \notin Said(f)'
      PROVE  DeadEnd'
  <2>1. Settled(f, x)
      BY <1>0, <1>2, SaidSettled
  <2>2. Settled(f, x)'
      BY <1>0, <2>1, SettledStays
  <2>3. Stuck(f)'
      BY <1>0, <1>2, <2>2, SaidAfterwards
  <2> QED
      BY <2>3 DEF Stuck, DeadEnd
<1>3. CASE \E f \in WrittenOnce : Stuck(f)
    BY <1>1, <1>3
<1>4. CASE \E x \in Said("config") : x \notin ReadyConfigs
    BY <1>2, <1>4 DEF DeadEnd, WrittenOnce
<1>5. CASE \E b \in Said("freeze_bindings") : ~Complete(b)
    BY <1>2, <1>5 DEF DeadEnd, WrittenOnce, Complete
<1> QED
    BY <1>3, <1>4, <1>5 DEF DeadEnd, Stuck

\* A run directory that was once spoiled stays so whatever is run in it, and nobody
\* trains in it: check_freeze cannot be satisfied by running commands again.
THEOREM SpoiledDirectoriesStay == Spec => DeadEndsStay
<1>1. StateOK => (DeadEnd => ~Ready)
    BY DeadEndNotReady
<1>2. IInv /\ IInv' /\ [Next]_vars => [DeadEnd => DeadEnd' /\ ~Ready']_vars
  <2>1. StateOK' => (DeadEnd' => ~Ready')
      BY <1>1, PTL
  <2> QED
      BY <2>1, DeadEndStep DEF IInv
<1> QED
    BY <1>2, Invariance, PTL DEF Spec, DeadEndsStay
=============================================================================
