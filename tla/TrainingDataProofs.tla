------------------------- MODULE TrainingDataProofs -------------------------
(***************************************************************************)
(* For every set of candidates, every order of tasks, every outcome of the *)
(* executions, any number of exports, any lines from outside and any edits *)
(* of the buckets: the libraries keep their shape, and what is trained on  *)
(* is checked or edited, of one moment, in the mixture, and what the       *)
(* receipt says it is.                                                     *)
(***************************************************************************)
EXTENDS TrainingData, Integers, SequenceTheorems, FiniteSetTheorems, TLAPS

-----------------------------------------------------------------------------
(* Records and lines *)

Recs ==
    {Record(c, executions) : c \in Candidates, executions \in SUBSET Results}
        \cup {import.record : import \in Imports}

Rows == Recs \cup UNION {import.record.correction : import \in Imports}

\* What may stand in a bucket.
AllRows == Rows \cup Edits

Lines == {Torn, Garbled} \cup Recs

Appends == [file : Files, record : Recs, glued : BOOLEAN]

\* Every row is a record, with its correction; one of the loop has the verdict of verify.
LEMMA RowsAreRecords ==
    /\ \A r \in Rows : IsRecord(r) /\ r.origin # "edited"
    /\ \A r \in Rows : r.origin = "loop" =>
           r.executions \in SUBSET Results /\ r.accepted = Accepted(r.executions)
    /\ \A r \in Recs : r.correction \in SUBSET Rows
<1>1. ASSUME NEW c \in Candidates, NEW x \in SUBSET Results
      PROVE  /\ IsRecord(Record(c, x)) /\ Record(c, x).correction = {}
             /\ Record(c, x).origin = "loop"
             /\ Record(c, x).executions = x /\ Record(c, x).accepted = Accepted(x)
    BY DEF IsRecord, Record
<1>2. ASSUME NEW r \in Rows
      PROVE  \/ \E c \in Candidates, x \in SUBSET Results : r = Record(c, x)
             \/ From(r, "outside")
  <2>1. CASE r \in Recs
      BY <2>1, ImportAssumption DEF Recs
  <2>2. CASE r \notin Recs
    <3>1. PICK import \in Imports : r \in import.record.correction
        BY <2>2 DEF Rows
    <3> QED
        BY <3>1, ImportAssumption
  <2> QED
      BY <2>1, <2>2
<1>3. ASSUME NEW r \in Rows
      PROVE  /\ IsRecord(r) /\ r.origin # "edited"
             /\ r.origin = "loop" =>
                    r.executions \in SUBSET Results /\ r.accepted = Accepted(r.executions)
  <2>1. CASE \E c \in Candidates, x \in SUBSET Results : r = Record(c, x)
      BY <1>1, <2>1
  <2>2. CASE From(r, "outside")
      BY <2>2 DEF From
  <2> QED
      BY <1>2, <2>1, <2>2
<1>4. ASSUME NEW r \in Recs PROVE r.correction \in SUBSET Rows
  <2>1. CASE \E c \in Candidates, x \in SUBSET Results : r = Record(c, x)
    <3>1. PICK c \in Candidates, x \in SUBSET Results : r = Record(c, x)
        BY <2>1
    <3> QED
        BY <1>1, <3>1
  <2>2. CASE \E import \in Imports : r = import.record
    <3>1. PICK import \in Imports : r = import.record
        BY <2>2
    <3> QED
        BY <3>1 DEF Rows
  <2> QED
      BY <2>1, <2>2 DEF Recs
<1> QED
    BY <1>3, <1>4

LEMMA RecsAreNotTorn == \A r \in Rows : r # Torn /\ r # Garbled
<1> SUFFICES ASSUME NEW r \in Rows PROVE r # Torn /\ r # Garbled
    OBVIOUS
<1>1. "split" \in DOMAIN r
    BY RowsAreRecords DEF IsRecord
<1>2. "split" \notin DOMAIN Torn /\ "split" \notin DOMAIN Garbled
    BY DEF Torn, Garbled
<1> QED
    BY <1>1, <1>2

LEMMA TornIsNotGarbled == Torn # Garbled
<1>1. Torn.text # Garbled.text
    BY DEF Torn, Garbled
<1> QED
    BY <1>1

LEMMA LoopRecords ==
    ASSUME NEW i \in DOMAIN Order, NEW executions \in Outcomes[Order[i]]
    PROVE  Record(Order[i], executions) \in Recs
<1>1. Order[i] \in Candidates
    BY DataAssumption, LenProperties, ElementOfSeq
<1>2. executions \in SUBSET Results
    BY <1>1, DataAssumption
<1> QED
    BY <1>1, <1>2 DEF Recs

-----------------------------------------------------------------------------
(* Sequences of lines *)

PrefixOf(s, t) == Len(s) <= Len(t) /\ \A i \in 1 .. Len(s) : s[i] = t[i]

TornLast(lines) == \A i \in 1 .. Len(lines) : lines[i] = Torn => i = Len(lines)

Whole(s) == \A i \in 1 .. Len(s) : s[i] # Torn

LEMMA Begun ==
    ASSUME NEW old \in Seq(Lines), TornLast(old), ~EndsTorn(old)
    PROVE  /\ Append(old, Torn) \in Seq(Lines)
           /\ TornLast(Append(old, Torn))
           /\ EndsTorn(Append(old, Torn))
           /\ \A s \in Seq(Lines) : PrefixOf(s, old) => PrefixOf(s, Append(old, Torn))
<1> DEFINE new == Append(old, Torn)
<1>1. Torn \in Lines
    BY DEF Lines
<1>2. /\ new \in Seq(Lines) /\ Len(new) = Len(old) + 1 /\ Len(old) \in Nat
      /\ \A i \in 1 .. Len(old) : new[i] = old[i]
      /\ new[Len(old) + 1] = Torn
    BY <1>1, AppendProperties, LenProperties
<1> HIDE DEF new
<1>3. \A i \in 1 .. Len(old) : old[i] # Torn
  <2> SUFFICES ASSUME NEW i \in 1 .. Len(old), old[i] = Torn PROVE FALSE
      OBVIOUS
  <2>1. i = Len(old)
      BY DEF TornLast
  <2>2. old # <<>>
      BY <1>2, EmptySeq
  <2> QED
      BY <2>1, <2>2 DEF EndsTorn
<1>4. TornLast(new)
    BY <1>2, <1>3 DEF TornLast
<1>5. EndsTorn(new)
  <2>1. new # <<>>
      BY <1>2, EmptySeq
  <2> QED
      BY <1>2, <2>1 DEF EndsTorn
<1>6. ASSUME NEW s \in Seq(Lines), PrefixOf(s, old) PROVE PrefixOf(s, new)
  <2>1. Len(s) \in Nat
      BY LenProperties
  <2> QED
      BY <1>2, <1>6, <2>1 DEF PrefixOf
<1> QED
    BY <1>2, <1>4, <1>5, <1>6 DEF new

LEMMA Ended ==
    ASSUME NEW old \in Seq(Lines), TornLast(old), EndsTorn(old),
           NEW line \in Lines, line # Torn
    PROVE  /\ [old EXCEPT ![Len(old)] = line] \in Seq(Lines)
           /\ TornLast([old EXCEPT ![Len(old)] = line])
           /\ \A s \in Seq(Lines) :
                  PrefixOf(s, old) /\ Whole(s)
                      => PrefixOf(s, [old EXCEPT ![Len(old)] = line])
<1> DEFINE new == [old EXCEPT ![Len(old)] = line]
<1>1. Len(old) \in 1 .. Len(old)
    BY EmptySeq DEF EndsTorn
<1>2. /\ new \in Seq(Lines) /\ Len(new) = Len(old) /\ Len(old) \in Nat
      /\ \A i \in 1 .. Len(old) : new[i] = IF i = Len(old) THEN line ELSE old[i]
    BY <1>1, ExceptSeq, LenProperties
<1> HIDE DEF new
<1>3. TornLast(new)
    BY <1>2 DEF TornLast
<1>4. ASSUME NEW s \in Seq(Lines), PrefixOf(s, old), Whole(s) PROVE PrefixOf(s, new)
  <2>1. Len(s) \in Nat
      BY LenProperties
  <2>2. Len(s) # Len(old)
      BY <1>1, <1>4, <2>1 DEF PrefixOf, Whole, EndsTorn
  <2> QED
      BY <1>2, <1>4, <2>1, <2>2 DEF PrefixOf
<1> QED
    BY <1>2, <1>3, <1>4 DEF new

-----------------------------------------------------------------------------
(* The libraries and their writers *)

Books ==
    /\ libraries \in [Files -> Seq(Lines)]
    /\ writers \in [Writers -> SUBSET Appends]
    /\ \A file \in Files : TornLast(libraries[file])
    /\ \A w \in Writers : \A append \in writers[w] : EndsTorn(libraries[append.file])
    /\ \A w, v \in Writers : \A a \in writers[w], b \in writers[v] : a.file = b.file => w = v

\* What was read whole from a library is still how it begins.
Grown ==
    \A file \in Files : \A s \in Seq(Lines) :
        PrefixOf(s, libraries[file]) /\ Whole(s) => PrefixOf(s, libraries'[file])

LEMMA BeginAppendKeeps ==
    ASSUME Books, NEW w \in Writers, writers[w] = {}, NEW record \in Recs, NEW file \in Files,
           BeginAppend(w, record, file)
    PROVE  Books' /\ Grown /\ \A v \in Writers \ {w} : writers'[v] = writers[v]
<1> DEFINE old == libraries[file]
<1>1. PICK append : append = [file |-> file, record |-> record, glued |-> EndsTorn(old)]
    OBVIOUS
<1>2. append \in Appends /\ append.file = file
    BY <1>1 DEF Appends, EndsTorn
<1>3. writers' = [writers EXCEPT ![w] = {append}]
    BY <1>1 DEF BeginAppend
<1>4. PICK new : new = IF EndsTorn(old) THEN old ELSE Append(old, Torn)
    OBVIOUS
<1>5. libraries' = [libraries EXCEPT ![file] = new]
    BY <1>4 DEF BeginAppend
<1>6. old \in Seq(Lines) /\ TornLast(old)
    BY DEF Books
<1>7. /\ new \in Seq(Lines) /\ TornLast(new) /\ EndsTorn(new)
      /\ \A s \in Seq(Lines) : PrefixOf(s, old) => PrefixOf(s, new)
    BY <1>4, <1>6, Begun
<1>8. \A v \in Writers : \A a \in writers[v] : a.file # file /\ a \in Appends
    BY DEF BeginAppend, Locked, Books
<1> HIDE DEF old
<1>9. /\ libraries' \in [Files -> Seq(Lines)]
      /\ libraries'[file] = new
      /\ \A f \in Files \ {file} : libraries'[f] = libraries[f]
    BY <1>5, <1>7 DEF Books
<1>10. /\ writers' \in [Writers -> SUBSET Appends]
       /\ writers'[w] = {append}
       /\ \A v \in Writers \ {w} : writers'[v] = writers[v]
    BY <1>2, <1>3 DEF Books
<1>11. \A f \in Files : TornLast(libraries'[f])
    BY <1>7, <1>9 DEF Books
<1>12. \A v \in Writers : \A a \in writers'[v] : EndsTorn(libraries'[a.file])
  <2> SUFFICES ASSUME NEW v \in Writers, NEW a \in writers'[v] PROVE EndsTorn(libraries'[a.file])
      OBVIOUS
  <2>1. CASE v = w
      BY <2>1, <1>2, <1>7, <1>9, <1>10
  <2>2. CASE v # w
    <3>1. a \in writers[v]
        BY <2>2, <1>10
    <3>2. a.file # file /\ a.file \in Files
        BY <3>1, <1>8 DEF Appends
    <3> QED
        BY <3>1, <3>2, <1>9 DEF Books
  <2> QED
      BY <2>1, <2>2
<1>13. \A u, v \in Writers : \A a \in writers'[u], b \in writers'[v] : a.file = b.file => u = v
    BY <1>2, <1>8, <1>10 DEF Books
<1>14. Grown
    BY <1>7, <1>9 DEF Grown, old
<1> QED
    BY <1>9, <1>10, <1>11, <1>12, <1>13, <1>14 DEF Books

LEMMA EndAppendKeeps ==
    ASSUME Books, NEW w \in Writers, EndAppend(w)
    PROVE  /\ Books' /\ Grown /\ writers[w] # {} /\ writers'[w] = {}
           /\ \A v \in Writers \ {w} : writers'[v] = writers[v]
<1>1. PICK append \in writers[w] :
          /\ libraries' = [libraries EXCEPT ![append.file] =
                 [@ EXCEPT ![Len(@)] = IF append.glued THEN Garbled ELSE append.record]]
          /\ writers' = [writers EXCEPT ![w] = {}]
    BY DEF EndAppend
<1>2. append \in Appends
    BY DEF Books
<1>3. PICK line : line = IF append.glued THEN Garbled ELSE append.record
    OBVIOUS
<1>4. line \in Lines /\ line # Torn
  <2>1. append.record \in Recs
      BY <1>2 DEF Appends
  <2> QED
      BY <1>3, <2>1, RecsAreNotTorn, TornIsNotGarbled DEF Lines, Rows
<1>5. PICK file \in Files : file = append.file
    BY <1>2 DEF Appends
<1>6. PICK old : old = libraries[file]
    OBVIOUS
<1>7. PICK new : new = [old EXCEPT ![Len(old)] = line]
    OBVIOUS
<1>8. libraries' = [libraries EXCEPT ![file] = new]
    BY <1>1, <1>3, <1>5, <1>6, <1>7
<1>9. old \in Seq(Lines) /\ TornLast(old) /\ EndsTorn(old)
    BY <1>5, <1>6 DEF Books
<1>10. /\ new \in Seq(Lines) /\ TornLast(new)
       /\ \A s \in Seq(Lines) : PrefixOf(s, old) /\ Whole(s) => PrefixOf(s, new)
    BY <1>4, <1>7, <1>9, Ended
<1>11. /\ libraries' \in [Files -> Seq(Lines)]
       /\ libraries'[file] = new
       /\ \A f \in Files \ {file} : libraries'[f] = libraries[f]
    BY <1>8, <1>10 DEF Books
<1>12. /\ writers' \in [Writers -> SUBSET Appends]
       /\ writers'[w] = {}
       /\ \A v \in Writers \ {w} : writers'[v] = writers[v]
    BY <1>1 DEF Books
<1>13. \A f \in Files : TornLast(libraries'[f])
    BY <1>10, <1>11 DEF Books
<1>14. \A v \in Writers : \A a \in writers'[v] : EndsTorn(libraries'[a.file])
  <2> SUFFICES ASSUME NEW v \in Writers, NEW a \in writers'[v] PROVE EndsTorn(libraries'[a.file])
      OBVIOUS
  <2>1. v # w /\ a \in writers[v]
      BY <1>12
  <2>2. a.file # file /\ a.file \in Files
      BY <2>1, <1>5 DEF Books, Appends
  <2> QED
      BY <2>1, <2>2, <1>11 DEF Books
<1>15. \A u, v \in Writers : \A a \in writers'[u], b \in writers'[v] : a.file = b.file => u = v
    BY <1>12 DEF Books
<1>16. Grown
    BY <1>6, <1>10, <1>11 DEF Grown
<1> QED
    BY <1>11, <1>12, <1>13, <1>14, <1>15, <1>16 DEF Books

\* A loop that dies keeps its line torn and lets go of the lock.
LEMMA LetGoKeeps ==
    ASSUME Books, NEW w \in Writers, writers' = [writers EXCEPT ![w] = {}], UNCHANGED libraries
    PROVE  Books' /\ Grown
<1>1. /\ writers' \in [Writers -> SUBSET Appends]
      /\ \A v \in Writers : writers'[v] \in SUBSET writers[v]
    BY DEF Books
<1>2. /\ \A v \in Writers : \A a \in writers'[v] : EndsTorn(libraries'[a.file])
      /\ \A u, v \in Writers : \A a \in writers'[u], b \in writers'[v] : a.file = b.file => u = v
    BY <1>1 DEF Books
<1> QED
    BY <1>1, <1>2 DEF Books, Grown

LoopFine ==
    /\ loop \in 0 .. Len(Order) + 1
    /\ writers["loop"] # {} =>
           loop \in 1 .. Len(Order) /\ Split[Order[loop]] \in {"train", "dev"}

LInv == Books /\ LoopFine

LEMMA InitLInv == Init => LInv
<1> SUFFICES ASSUME Init PROVE LInv
    OBVIOUS
<1>1. /\ libraries \in [Files -> Seq(Lines)]
      /\ \A file \in Files : libraries[file] = <<>>
    BY EmptySeq DEF Init
<1>2. /\ writers \in [Writers -> SUBSET Appends]
      /\ \A w \in Writers : writers[w] = {}
    BY DEF Init
<1>3. \A file \in Files : TornLast(libraries[file])
    BY <1>1, EmptySeq DEF TornLast
<1>4. LoopFine
  <2>1. Len(Order) \in Nat
      BY DataAssumption, LenProperties
  <2> QED
      BY <1>2, <2>1 DEF LoopFine, Init, Writers
<1> QED
    BY <1>1, <1>2, <1>3, <1>4 DEF LInv, Books

LEMMA BooksStay ==
    ASSUME Books, UNCHANGED <<libraries, writers>>
    PROVE  Books' /\ Grown
<1>1. libraries' = libraries /\ writers' = writers
    OBVIOUS
<1>2. Books'
    BY <1>1 DEF Books
<1> QED
    BY <1>1, <1>2 DEF Grown

LEMMA LNext ==
    ASSUME LInv, [Next]_vars
    PROVE  LInv' /\ Grown
<1>0. /\ Len(Order) \in Nat /\ DOMAIN Order = 1 .. Len(Order)
      /\ "loop" \in Writers /\ "other" \in Writers
    BY DataAssumption, LenProperties DEF Writers
<1> USE DEF LInv
<1>1. ASSUME UNCHANGED <<libraries, writers, loop>> PROVE LInv' /\ Grown
    BY <1>1, BooksStay DEF LoopFine
<1>2. CASE Start
    BY <1>2, <1>0, BooksStay DEF Start, LoopFine
<1>3. CASE Skip
    BY <1>3, <1>0, BooksStay DEF Skip, LoopFine
<1>4. CASE Try
  <2>1. PICK c : c = Order[loop]
      OBVIOUS
  <2>2. PICK executions \in Outcomes[c] :
            \/ loop' = 0 /\ UNCHANGED <<libraries, writers>>
            \/ /\ BeginAppend("loop", Record(c, executions), Library(Record(c, executions)))
               /\ UNCHANGED loop
      BY <1>4, <2>1 DEF Try
  <2>3. CASE loop' = 0 /\ UNCHANGED <<libraries, writers>>
      BY <1>0, <1>4, <2>3, BooksStay DEF LoopFine, Try
  <2>4. CASE /\ BeginAppend("loop", Record(c, executions), Library(Record(c, executions)))
             /\ UNCHANGED loop
    <3>1. Record(c, executions) \in Recs
        BY <1>4, <2>1, LoopRecords DEF Try
    <3>2. Library(Record(c, executions)) \in Files
        BY DEF Library, Files
    <3>3. Books' /\ Grown
        BY <1>0, <1>4, <2>4, <3>1, <3>2, BeginAppendKeeps DEF Try
    <3>4. LoopFine'
        BY <1>0, <1>4, <2>4 DEF LoopFine, Try
    <3> QED
        BY <3>3, <3>4
  <2> QED
      BY <2>2, <2>3, <2>4
<1>5. CASE Recorded
  <2>1. /\ Books' /\ Grown /\ writers["loop"] # {} /\ writers'["loop"] = {}
      BY <1>0, <1>5, EndAppendKeeps DEF Recorded
  <2>2. LoopFine'
      BY <1>0, <1>5, <2>1 DEF LoopFine, Recorded
  <2> QED
      BY <2>1, <2>2
<1>6. CASE Finish
    BY <1>6, <1>0, BooksStay DEF Finish, LoopFine
<1>7. CASE LoopCrash
  <2>1. Books' /\ Grown
      BY <1>0, <1>7, LetGoKeeps DEF LoopCrash
  <2>2. writers'["loop"] = {} /\ loop' = 0
      BY <1>0, <1>7 DEF LoopCrash, Books
  <2> QED
      BY <2>1, <2>2, <1>0 DEF LoopFine
<1>8. CASE BeginImport
  <2>1. PICK import \in Imports : BeginAppend("other", import.record, import.file)
      BY <1>8 DEF BeginImport
  <2>2. import.record \in Recs /\ import.file \in Files
      BY ImportAssumption DEF Recs
  <2>3. Books' /\ Grown /\ writers'["loop"] = writers["loop"]
      BY <1>0, <1>8, <2>1, <2>2, BeginAppendKeeps DEF BeginImport
  <2> QED
      BY <2>3, <1>8 DEF BeginImport, LoopFine
<1>9. CASE EndImport
  <2>1. Books' /\ Grown /\ writers'["loop"] = writers["loop"]
      BY <1>0, <1>9, EndAppendKeeps DEF EndImport
  <2> QED
      BY <2>1, <1>9 DEF EndImport, LoopFine
<1>10. CASE \E e \in Exporters : ExportStep(e)
  <2>1. PICK e \in Exporters : ExportStep(e)
      BY <1>10
  <2>2. UNCHANGED <<libraries, writers, loop>>
      BY <2>1 DEF ExportStep, BeginExport, ReadCounterexamples, CheckOutput, OpenOutput,
                  FillOutput, ExportCrash, InputsUnchanged
  <2> QED
      BY <2>2, <1>1
<1>11. CASE TrainingStep
  <2>1. UNCHANGED <<libraries, writers, loop>>
      BY <1>11 DEF TrainingStep, BeginTraining, LoadBucket, Schedule, Refuse, WriteReceipt,
                   TrainingCrash, FilesUnchanged
  <2> QED
      BY <2>1, <1>1
<1>12. CASE EditBucket
    BY <1>12, <1>1 DEF EditBucket, InputsUnchanged
<1>13. CASE UNCHANGED vars
    BY <1>13, <1>1 DEF vars
<1> QED
    BY <1>2, <1>3, <1>4, <1>5, <1>6, <1>7, <1>8, <1>9, <1>10, <1>11, <1>12, <1>13
    DEF Next, LoopStep, ImportStep

-----------------------------------------------------------------------------
(* What an export makes of two libraries *)

LEMMA Triple ==
    ASSUME NEW a, NEW b, NEW c, a # b, a # c, b # c
    PROVE  Cardinality({a, b, c}) = 3
<1>1. IsFiniteSet({}) /\ Cardinality({}) = 0
    BY FS_EmptySet
<1>2. IsFiniteSet({a}) /\ Cardinality({a}) = 1
    BY FS_Singleton
<1>3. {b} \cup {a} = {a, b} /\ {a, b} \cup {c} = {a, b, c}
    OBVIOUS
<1>4. IsFiniteSet({a, b}) /\ Cardinality({a, b}) = 2
  <2>1. {a} \cup {b} = {a, b} /\ b \notin {a}
      OBVIOUS
  <2> QED
      BY <1>2, <2>1, FS_AddElement
<1>5. c \notin {a, b}
    OBVIOUS
<1> QED
    BY <1>3, <1>4, <1>5, FS_AddElement

LEMMA Numbers ==
    ASSUME NEW n \in Nat, NEW numbers \in SUBSET (1 .. n)
    PROVE  IsFiniteSet(numbers) /\ Cardinality(numbers) \in Nat
<1>1. IsFiniteSet(1 .. n)
    BY FS_Interval
<1>2. IsFiniteSet(numbers)
    BY <1>1, FS_Subset
<1> QED
    BY <1>2, FS_CardinalityType

\* There is an i-th number for every i up to the number of numbers.
LEMMA NthInNumbers ==
    ASSUME NEW n \in Nat, NEW numbers \in SUBSET (1 .. n), NEW i \in 1 .. Cardinality(numbers)
    PROVE  Nth(numbers, i) \in numbers
<1> DEFINE UpTo(k) == {j \in numbers : j <= k}
<1>1. IsFiniteSet(numbers) /\ Cardinality(numbers) \in Nat
    BY Numbers
<1>2. \A k \in numbers : /\ UpTo(k) \in SUBSET numbers /\ k \in UpTo(k) /\ k \in Nat
                         /\ IsFiniteSet(UpTo(k))
                         /\ Cardinality(UpTo(k)) \in Nat
                         /\ Cardinality(UpTo(k)) <= Cardinality(numbers)
  <2> SUFFICES ASSUME NEW k \in numbers
               PROVE  /\ UpTo(k) \in SUBSET numbers /\ k \in UpTo(k) /\ k \in Nat
                      /\ IsFiniteSet(UpTo(k))
                      /\ Cardinality(UpTo(k)) \in Nat
                      /\ Cardinality(UpTo(k)) <= Cardinality(numbers)
      OBVIOUS
  <2>1. UpTo(k) \in SUBSET numbers /\ k \in UpTo(k) /\ k \in Nat
      OBVIOUS
  <2> HIDE DEF UpTo
  <2> QED
      BY <1>1, <2>1, FS_Subset, FS_CardinalityType
<1>3. \A k \in numbers : Cardinality(UpTo(k)) # 0
  <2> HIDE DEF UpTo
  <2> QED
      BY <1>2, FS_EmptySet
<1>4. \A k, m \in numbers : k < m => m \notin UpTo(k) /\ UpTo(k) \in SUBSET UpTo(m)
  <2> SUFFICES ASSUME NEW k \in numbers, NEW m \in numbers, k < m
               PROVE  m \notin UpTo(k) /\ UpTo(k) \in SUBSET UpTo(m)
      OBVIOUS
  <2>1. k \in Nat /\ m \in Nat /\ \A j \in numbers : j \in Nat
      OBVIOUS
  <2>2. \A j \in numbers : j <= k => j <= m
      BY <2>1
  <2>3. ~(m <= k)
      BY <2>1
  <2> QED
      BY <2>2, <2>3
<1>5. \A k, m \in numbers : k < m => Cardinality(UpTo(k)) # Cardinality(UpTo(m))
  <2> HIDE DEF UpTo
  <2> QED
      BY <1>2, <1>4, FS_Subset
<1> DEFINE rank == [k \in numbers |-> Cardinality(UpTo(k))]
<1>6. rank \in [numbers -> 1 .. Cardinality(numbers)]
  <2> HIDE DEF UpTo
  <2> QED
      BY <1>1, <1>2, <1>3
<1>7. rank \in Injection(numbers, 1 .. Cardinality(numbers))
  <2>1. \A k, m \in numbers : k # m => rank[k] # rank[m]
    <3> HIDE DEF UpTo
    <3> SUFFICES ASSUME NEW k \in numbers, NEW m \in numbers, k # m PROVE rank[k] # rank[m]
        OBVIOUS
    <3>1. k \in Nat /\ m \in Nat
        OBVIOUS
    <3>2. k < m \/ m < k
        BY <3>1
    <3> QED
        BY <1>5, <3>2
  <2> HIDE DEF rank
  <2> QED
      BY <1>6, <2>1 DEF Injection, IsInjective
<1>8. /\ IsFiniteSet(1 .. Cardinality(numbers))
      /\ Cardinality(1 .. Cardinality(numbers)) = Cardinality(numbers)
    BY <1>1, FS_Interval
<1>9. rank \in Surjection(numbers, 1 .. Cardinality(numbers))
  <2> HIDE DEF rank
  <2> QED
      BY <1>7, <1>8, FS_Injection
<1>10. PICK k \in numbers : rank[k] = i
  <2> HIDE DEF rank
  <2> QED
      BY <1>9 DEF Surjection
<1>11. Cardinality({j \in numbers : j <= k}) = i
    BY <1>10
<1> HIDE DEF rank, UpTo
<1> QED
    BY <1>11 DEF Nth

LEMMA Listed ==
    ASSUME NEW S, NEW n \in Nat, NEW f \in [1 .. n -> S]
    PROVE  f \in Seq(S) /\ Len(f) = n /\ DOMAIN f = 1 .. n
    OBVIOUS

LEMMA LinesAtListed ==
    ASSUME NEW lines \in Seq(Lines), NEW numbers \in SUBSET (1 .. Len(lines))
    PROVE  /\ LinesAt(lines, numbers) \in Seq(Lines)
           /\ Cardinality(numbers) \in Nat
           /\ Len(LinesAt(lines, numbers)) = Cardinality(numbers)
           /\ \A i \in 1 .. Cardinality(numbers) :
                  \E k \in numbers : LinesAt(lines, numbers)[i] = lines[k]
<1>1. Len(lines) \in Nat
    BY LenProperties
<1>2. IsFiniteSet(numbers) /\ Cardinality(numbers) \in Nat
    BY <1>1, Numbers
<1>3. \A i \in 1 .. Cardinality(numbers) : Nth(numbers, i) \in numbers
    BY <1>1, NthInNumbers
<1>4. \A k \in numbers : lines[k] \in Lines
    BY ElementOfSeq
<1>5. LinesAt(lines, numbers) \in [1 .. Cardinality(numbers) -> Lines]
    BY <1>3, <1>4 DEF LinesAt
<1>6. \A i \in 1 .. Cardinality(numbers) : LinesAt(lines, numbers)[i] = lines[Nth(numbers, i)]
    BY DEF LinesAt
<1> QED
    BY <1>2, <1>3, <1>5, <1>6, Listed

CheckedRow(b, r) ==
    /\ r.split = "train" /\ r.bound /\ r.accepted
    /\ r.origin = "loop" => r.executions = {"solved"}
    /\ b = "teacher_anchor" => r.source = "closed_teacher"

\* Executions that verify accepts passed on every seed.
LEMMA AcceptedSolved ==
    ASSUME NEW x \in SUBSET Results, Accepted(x)
    PROVE  x = {"solved"}
<1>1. "failed" \notin x
  <2> SUFFICES ASSUME "failed" \in x PROVE FALSE
      OBVIOUS
  <2>1. "execution_failed" \in HardFailures(x)
      BY DEF HardFailures, Broken
  <2> QED
      BY <2>1 DEF Accepted
<1>2. "silent" \notin x
  <2> SUFFICES ASSUME "silent" \in x PROVE FALSE
      OBVIOUS
  <2>1. "missing_result" \in HardFailures(x)
      BY DEF HardFailures, Unmeasured
  <2> QED
      BY <2>1 DEF Accepted
<1>3. "wrong" \notin x
  <2> SUFFICES ASSUME "wrong" \in x PROVE FALSE
      OBVIOUS
  <2>1. "wrong" \in Healthy(x)
      BY DEF Healthy, Broken
  <2>2. "hard_metric_failed" \in HardFailures(x)
      BY <2>1 DEF HardFailures
  <2> QED
      BY <2>2 DEF Accepted
<1>4. x # {}
    BY DEF Accepted
<1>5. Results = {"failed", "silent", "solved", "wrong"}
    BY DEF Results, Broken, Unmeasured, Measured
<1> QED
    BY <1>1, <1>2, <1>3, <1>4, <1>5

\* A row an export takes as accepted was checked, the loop's own by verify itself.
LEMMA TakenChecked ==
    ASSUME NEW r \in Rows, Verifies(r, TRUE)
    PROVE  /\ r.split = "train" /\ r.bound /\ r.accepted
           /\ r.origin = "loop" => r.executions = {"solved"}
<1>1. r.split = "train" /\ r.bound /\ r.accepted
    BY DEF Verifies
<1>2. ASSUME r.origin = "loop" PROVE r.executions = {"solved"}
  <2>1. r.executions \in SUBSET Results /\ Accepted(r.executions)
      BY <1>1, <1>2, RowsAreRecords
  <2> QED
      BY <2>1, AcceptedSolved
<1> QED
    BY <1>1, <1>2

LEMMA ReadableLines ==
    ASSUME NEW s \in Seq(Lines), NEW a \in BOOLEAN, Readable(s, a), NEW i \in 1 .. Len(s)
    PROVE  /\ s[i] \in Recs /\ s[i] # Torn /\ Verifies(s[i], a)
           /\ \A r \in s[i].correction : r \in Rows /\ Verifies(r, TRUE)
<1>1. i \in DOMAIN s /\ s[i] \in Lines
    BY LenProperties, ElementOfSeq
<1>2. s[i] \in Recs /\ Verifies(s[i], a)
    BY <1>1 DEF Readable, Lines
<1>3. s[i].correction \in SUBSET Rows
    BY <1>2, RowsAreRecords
<1>4. \A r \in s[i].correction : Verifies(r, TRUE)
    BY <1>1 DEF Readable
<1>5. s[i] # Torn
    BY <1>1 DEF Readable
<1> QED
    BY <1>2, <1>3, <1>4, <1>5

OfBucketAt(s, b) == {i \in DOMAIN s : BucketOf(s[i]) = b}

CorrectedAt(c) == {i \in DOMAIN c : c[i].correction # {}}

Chosen(r) == CHOOSE x \in r.correction : TRUE

CorrectedRows(c) ==
    [i \in DOMAIN LinesAt(c, CorrectedAt(c)) |-> Chosen(LinesAt(c, CorrectedAt(c))[i])]

\* The rows an export writes to a bucket, and its manifest.
LEMMA Exported ==
    ASSUME NEW s, NEW c, NEW b \in Buckets
    PROVE  /\ b # "corrected_counterexample" => Export(s, c)[b] = LinesAt(s, OfBucketAt(s, b))
           /\ b = "corrected_counterexample" => Export(s, c)[b] = CorrectedRows(c)
           /\ Export(s, c)["manifest"] = <<[x \in Buckets |-> Len(Export(s, c)[x])]>>
<1> DEFINE corrected == Corrected(c)
           rows == [x \in Buckets |->
               IF x = "corrected_counterexample"
               THEN [i \in DOMAIN corrected |-> CHOOSE r \in corrected[i].correction : TRUE]
               ELSE OfBucket(s, x)]
           files == [o \in Buckets \cup {"manifest"} |->
               IF o = "manifest" THEN <<[x \in Buckets |-> Len(rows[x])]>> ELSE rows[o]]
<1>1. Export(s, c) = files
    BY DEF Export
<1>2. \A x \in Buckets : files[x] = rows[x]
  <2>1. "manifest" \notin Buckets
      BY DEF Buckets
  <2> HIDE DEF rows
  <2> QED
      BY <2>1
<1>3. files["manifest"] = <<[x \in Buckets |-> Len(rows[x])]>>
  <2> HIDE DEF rows
  <2> QED
      OBVIOUS
<1>4. [x \in Buckets |-> Len(rows[x])] = [x \in Buckets |-> Len(Export(s, c)[x])]
  <2> HIDE DEF rows, files
  <2> QED
      BY <1>1, <1>2
<1>5. b # "corrected_counterexample" => rows[b] = OfBucket(s, b)
    OBVIOUS
<1>6. b = "corrected_counterexample" =>
          rows[b] = [i \in DOMAIN corrected |-> CHOOSE r \in corrected[i].correction : TRUE]
    OBVIOUS
<1>7. CorrectedRows(c) = [i \in DOMAIN corrected |-> CHOOSE r \in corrected[i].correction : TRUE]
    BY DEF CorrectedRows, Chosen, Corrected, CorrectedAt
<1>8. OfBucket(s, b) = LinesAt(s, OfBucketAt(s, b))
    BY DEF OfBucket, OfBucketAt
<1> HIDE DEF rows, files, corrected
<1> QED
    BY <1>1, <1>2, <1>3, <1>4, <1>5, <1>6, <1>7, <1>8

\* What an export writes to a bucket are rows it checked.
LEMMA ExportChecked ==
    ASSUME NEW s \in Seq(Lines), NEW c \in Seq(Lines), Readable(s, TRUE), Readable(c, FALSE),
           NEW b \in Buckets
    PROVE  /\ Export(s, c)[b] \in Seq(Rows)
           /\ \A i \in 1 .. Len(Export(s, c)[b]) : CheckedRow(b, Export(s, c)[b][i])
<1>1. CASE b # "corrected_counterexample"
  <2> DEFINE at == OfBucketAt(s, b)
             rows == LinesAt(s, at)
  <2>1. Export(s, c)[b] = rows
      BY <1>1, Exported
  <2>2. at \in SUBSET (1 .. Len(s))
      BY LenProperties DEF OfBucketAt
  <2>3. \A k \in at : s[k] \in Rows /\ CheckedRow(b, s[k])
    <3> SUFFICES ASSUME NEW k \in at PROVE s[k] \in Rows /\ CheckedRow(b, s[k])
        OBVIOUS
    <3>1. k \in 1 .. Len(s) /\ BucketOf(s[k]) = b
        BY <2>2 DEF OfBucketAt
    <3>2. s[k] \in Rows /\ Verifies(s[k], TRUE)
        BY <3>1, ReadableLines DEF Rows
    <3>3. b = "teacher_anchor" => s[k].source = "closed_teacher"
        BY <3>1 DEF BucketOf
    <3> QED
        BY <3>2, <3>3, TakenChecked DEF CheckedRow
  <2>4. /\ rows \in Seq(Lines) /\ Len(rows) = Cardinality(at) /\ Cardinality(at) \in Nat
        /\ \A i \in 1 .. Cardinality(at) : \E k \in at : rows[i] = s[k]
      BY <2>2, LinesAtListed
  <2> HIDE DEF rows, at
  <2>5. \A i \in 1 .. Len(rows) : rows[i] \in Rows /\ CheckedRow(b, rows[i])
      BY <2>3, <2>4
  <2>6. rows \in [1 .. Len(rows) -> Rows]
      BY <2>4, <2>5, LenProperties
  <2> QED
      BY <2>1, <2>4, <2>5, <2>6, Listed
<1>2. CASE b = "corrected_counterexample"
  <2> DEFINE at == CorrectedAt(c)
             lines == LinesAt(c, at)
             rows == [i \in DOMAIN lines |-> Chosen(lines[i])]
  <2>1. Export(s, c)[b] = rows
    <3>1. Export(s, c)[b] = CorrectedRows(c)
        BY <1>2, Exported
    <3> QED
        BY ONLY <3>1 DEF CorrectedRows
  <2>2. at \in SUBSET (1 .. Len(c))
      BY LenProperties DEF CorrectedAt
  <2>3. \A k \in at : Chosen(c[k]) \in Rows /\ CheckedRow(b, Chosen(c[k]))
    <3> SUFFICES ASSUME NEW k \in at PROVE Chosen(c[k]) \in Rows /\ CheckedRow(b, Chosen(c[k]))
        OBVIOUS
    <3>1. k \in 1 .. Len(c) /\ c[k].correction # {}
        BY <2>2 DEF CorrectedAt
    <3>2. Chosen(c[k]) \in c[k].correction
        BY <3>1 DEF Chosen
    <3>3. Chosen(c[k]) \in Rows /\ Verifies(Chosen(c[k]), TRUE)
        BY <3>1, <3>2, ReadableLines
    <3> QED
        BY <3>3, <1>2, TakenChecked DEF CheckedRow
  <2>4. /\ lines \in Seq(Lines) /\ Len(lines) = Cardinality(at) /\ Cardinality(at) \in Nat
        /\ \A i \in 1 .. Cardinality(at) : \E k \in at : lines[i] = c[k]
      BY <2>2, LinesAtListed
  <2>5. DOMAIN lines = 1 .. Cardinality(at)
      BY <2>4, LenProperties
  <2> HIDE DEF lines, at
  <2>6. \A i \in 1 .. Cardinality(at) : rows[i] \in Rows /\ CheckedRow(b, rows[i])
      BY <2>3, <2>4, <2>5
  <2>7. rows \in [1 .. Cardinality(at) -> Rows]
      BY <2>5, <2>6
  <2>8. rows \in Seq(Rows) /\ Len(rows) = Cardinality(at)
      BY <2>4, <2>7, Listed
  <2> QED
      BY <2>1, <2>6, <2>8
<1> QED
    BY <1>1, <1>2

LEMMA SameLines ==
    ASSUME NEW lib \in Seq(Lines), NEW s \in Seq(Lines), NEW t \in Seq(Lines),
           PrefixOf(s, lib), PrefixOf(t, lib),
           NEW at \in SUBSET (1 .. Len(s)), at \in SUBSET (1 .. Len(t))
    PROVE  LinesAt(s, at) = LinesAt(t, at)
<1>1. Len(s) \in Nat
    BY LenProperties
<1>2. \A i \in 1 .. Cardinality(at) : Nth(at, i) \in at
    BY <1>1, NthInNumbers
<1>3. \A k \in at : s[k] = t[k]
    BY DEF PrefixOf
<1>4. \A i \in 1 .. Cardinality(at) : s[Nth(at, i)] = t[Nth(at, i)]
    BY <1>2, <1>3
<1> QED
    BY <1>4 DEF LinesAt

LEMMA SameSet ==
    ASSUME NEW n \in Nat, NEW S \in SUBSET (1 .. n), NEW T \in SUBSET S,
           Cardinality(S) = Cardinality(T)
    PROVE  S = T
<1>1. IsFiniteSet(S)
    BY Numbers
<1> QED
    BY <1>1, FS_Subset

\* Two readings of a growing library that have equally many rows of a bucket have the
\* same rows of it.
LEMMA SameBucket ==
    ASSUME NEW lib \in Seq(Lines), NEW s \in Seq(Lines), NEW t \in Seq(Lines),
           PrefixOf(s, lib), PrefixOf(t, lib), NEW b,
           Cardinality(OfBucketAt(s, b)) = Cardinality(OfBucketAt(t, b))
    PROVE  LinesAt(s, OfBucketAt(s, b)) = LinesAt(t, OfBucketAt(t, b))
<1>1. /\ Len(s) \in Nat /\ DOMAIN s = 1 .. Len(s)
      /\ Len(t) \in Nat /\ DOMAIN t = 1 .. Len(t)
    BY LenProperties
<1>2. OfBucketAt(s, b) \in SUBSET (1 .. Len(s)) /\ OfBucketAt(t, b) \in SUBSET (1 .. Len(t))
    BY <1>1 DEF OfBucketAt
<1>3. CASE Len(s) <= Len(t)
  <2>1. \A k \in 1 .. Len(s) : k \in 1 .. Len(t) /\ s[k] = t[k]
      BY <1>1, <1>3 DEF PrefixOf
  <2>2. OfBucketAt(s, b) \in SUBSET OfBucketAt(t, b)
      BY <1>1, <2>1 DEF OfBucketAt
  <2>3. OfBucketAt(s, b) = OfBucketAt(t, b)
    <3>1. PICK S : S = OfBucketAt(s, b)
        OBVIOUS
    <3>2. PICK T : T = OfBucketAt(t, b)
        OBVIOUS
    <3>3. S \in SUBSET (1 .. Len(s)) /\ T \in SUBSET (1 .. Len(t))
        BY <1>2, <3>1, <3>2
    <3>4. Cardinality(S) = Cardinality(T)
        BY <3>1, <3>2
    <3>5. S \in SUBSET T \/ T \in SUBSET S
        BY <2>2, <3>1, <3>2
    <3>6. S = T
        BY ONLY <1>1, <3>3, <3>4, <3>5, SameSet
    <3> QED
        BY <3>1, <3>2, <3>6
  <2> QED
      BY <1>2, <2>3, SameLines
<1>4. CASE Len(t) <= Len(s)
  <2>1. \A k \in 1 .. Len(t) : k \in 1 .. Len(s) /\ s[k] = t[k]
      BY <1>1, <1>4 DEF PrefixOf
  <2>2. OfBucketAt(t, b) \in SUBSET OfBucketAt(s, b)
      BY <1>1, <2>1 DEF OfBucketAt
  <2>3. OfBucketAt(s, b) = OfBucketAt(t, b)
    <3>1. PICK S : S = OfBucketAt(s, b)
        OBVIOUS
    <3>2. PICK T : T = OfBucketAt(t, b)
        OBVIOUS
    <3>3. S \in SUBSET (1 .. Len(s)) /\ T \in SUBSET (1 .. Len(t))
        BY <1>2, <3>1, <3>2
    <3>4. Cardinality(S) = Cardinality(T)
        BY <3>1, <3>2
    <3>5. S \in SUBSET T \/ T \in SUBSET S
        BY <2>2, <3>1, <3>2
    <3>6. S = T
        BY ONLY <1>1, <3>3, <3>4, <3>5, SameSet
    <3> QED
        BY <3>1, <3>2, <3>6
  <2> QED
      BY <1>2, <2>3, SameLines
<1> QED
    BY <1>1, <1>3, <1>4

LEMMA SameCorrected ==
    ASSUME NEW lib \in Seq(Lines), NEW s \in Seq(Lines), NEW t \in Seq(Lines),
           PrefixOf(s, lib), PrefixOf(t, lib),
           Cardinality(CorrectedAt(s)) = Cardinality(CorrectedAt(t))
    PROVE  LinesAt(s, CorrectedAt(s)) = LinesAt(t, CorrectedAt(t))
<1>1. /\ Len(s) \in Nat /\ DOMAIN s = 1 .. Len(s)
      /\ Len(t) \in Nat /\ DOMAIN t = 1 .. Len(t)
    BY LenProperties
<1>2. CorrectedAt(s) \in SUBSET (1 .. Len(s)) /\ CorrectedAt(t) \in SUBSET (1 .. Len(t))
    BY <1>1 DEF CorrectedAt
<1>3. CASE Len(s) <= Len(t)
  <2>1. \A k \in 1 .. Len(s) : k \in 1 .. Len(t) /\ s[k] = t[k]
      BY <1>1, <1>3 DEF PrefixOf
  <2>2. CorrectedAt(s) \in SUBSET CorrectedAt(t)
      BY <1>1, <2>1 DEF CorrectedAt
  <2>3. CorrectedAt(s) = CorrectedAt(t)
      BY <1>1, <1>2, <2>2, SameSet
  <2> QED
      BY <1>2, <2>3, SameLines
<1>4. CASE Len(t) <= Len(s)
  <2>1. \A k \in 1 .. Len(t) : k \in 1 .. Len(s) /\ s[k] = t[k]
      BY <1>1, <1>4 DEF PrefixOf
  <2>2. CorrectedAt(t) \in SUBSET CorrectedAt(s)
      BY <1>1, <2>1 DEF CorrectedAt
  <2>3. CorrectedAt(s) = CorrectedAt(t)
      BY <1>1, <1>2, <2>2, SameSet
  <2> QED
      BY <1>2, <2>3, SameLines
<1> QED
    BY <1>1, <1>3, <1>4

\* What an export read: how the libraries begin, every row checked.
Snapshot(s, c) ==
    /\ Readable(s, TRUE) /\ PrefixOf(s, libraries["success"])
    /\ Readable(c, FALSE) /\ PrefixOf(c, libraries["counterexample"])

LEMMA SameRows ==
    ASSUME Books, NEW b \in Buckets,
           NEW s \in Seq(Lines), NEW c \in Seq(Lines), Snapshot(s, c),
           NEW t \in Seq(Lines), NEW d \in Seq(Lines), Snapshot(t, d),
           Len(Export(s, c)[b]) = Len(Export(t, d)[b])
    PROVE  Export(s, c)[b] = Export(t, d)[b]
<1>1. /\ libraries["success"] \in Seq(Lines)
      /\ libraries["counterexample"] \in Seq(Lines)
    BY DEF Books, Files
<1>2. \A x \in Seq(Lines) : /\ OfBucketAt(x, b) \in SUBSET (1 .. Len(x))
                            /\ CorrectedAt(x) \in SUBSET (1 .. Len(x))
    BY LenProperties DEF OfBucketAt, CorrectedAt
<1>3. CASE b # "corrected_counterexample"
  <2>1. /\ Export(s, c)[b] = LinesAt(s, OfBucketAt(s, b))
        /\ Export(t, d)[b] = LinesAt(t, OfBucketAt(t, b))
      BY <1>3, Exported
  <2>2. Cardinality(OfBucketAt(s, b)) = Cardinality(OfBucketAt(t, b))
      BY <1>2, <2>1, LinesAtListed
  <2> QED
      BY <1>1, <2>1, <2>2, SameBucket DEF Snapshot
<1>4. CASE b = "corrected_counterexample"
  <2> DEFINE L(x) == LinesAt(x, CorrectedAt(x))
             R(x) == [i \in DOMAIN L(x) |-> Chosen(L(x)[i])]
  <2>1. Export(s, c)[b] = R(c) /\ Export(t, d)[b] = R(d)
    <3>1. Export(s, c)[b] = CorrectedRows(c) /\ Export(t, d)[b] = CorrectedRows(d)
        BY <1>4, Exported
    <3> QED
        BY ONLY <3>1 DEF CorrectedRows
  <2>2. /\ L(c) \in Seq(Lines) /\ Len(L(c)) = Cardinality(CorrectedAt(c))
        /\ L(d) \in Seq(Lines) /\ Len(L(d)) = Cardinality(CorrectedAt(d))
      BY <1>2, LinesAtListed
  <2>3. Len(R(c)) = Len(L(c)) /\ Len(R(d)) = Len(L(d))
    <3> HIDE DEF L
    <3>1. /\ Len(L(c)) \in Nat /\ DOMAIN L(c) = 1 .. Len(L(c))
          /\ Len(L(d)) \in Nat /\ DOMAIN L(d) = 1 .. Len(L(d))
        BY <2>2, LenProperties
    <3>2. PICK S : (\A i \in DOMAIN L(c) : Chosen(L(c)[i]) \in S)
                   /\ (\A i \in DOMAIN L(d) : Chosen(L(d)[i]) \in S)
      <4> DEFINE S == {Chosen(L(c)[i]) : i \in DOMAIN L(c)} \cup {Chosen(L(d)[i]) : i \in DOMAIN L(d)}
      <4> QED
          BY (\A i \in DOMAIN L(c) : Chosen(L(c)[i]) \in S)
             /\ (\A i \in DOMAIN L(d) : Chosen(L(d)[i]) \in S)
    <3>3. R(c) \in [1 .. Len(L(c)) -> S] /\ R(d) \in [1 .. Len(L(d)) -> S]
        BY <3>1, <3>2
    <3> HIDE DEF R
    <3> QED
        BY <3>1, <3>3, Listed
  <2> HIDE DEF R
  <2>4. Len(L(c)) = Len(L(d))
      BY <2>1, <2>3
  <2>5. Cardinality(CorrectedAt(c)) = Cardinality(CorrectedAt(d))
      BY <2>2, <2>4
  <2>6. L(c) = L(d)
      BY <1>1, <2>5, SameCorrected DEF Snapshot
  <2> HIDE DEF L
  <2> QED
      BY <2>1, <2>6 DEF R
<1> QED
    BY <1>3, <1>4

-----------------------------------------------------------------------------
(* The exports and the files they write *)

Outs == Buckets \cup {"manifest"}

Contents == Seq(AllRows) \cup Seq([Buckets -> Nat])

ExportStates ==
    [pc : {"idle", "read", "check", "open", "fill"}, turn : 1 .. 4,
     success : Seq(Lines), counterexample : Seq(Lines)]

Written(x) == Export(x.success, x.counterexample)[Outputs[x.turn]]

\* The rows an export wrote, but for those edited since.
SameButEdited(rows, written) ==
    /\ rows \in Seq(AllRows)
    /\ Len(rows) = Len(written)
    /\ \A i \in 1 .. Len(rows) : rows[i] = written[i] \/ rows[i].origin = "edited"

StandsFor(o, content, written) ==
    IF o = "manifest" THEN content = written ELSE SameButEdited(content, written)

\* What is in a file of the export directory: nothing yet, or what an export makes of
\* how the libraries began, but for the edits of a bucket.
Comes(o, content) ==
    \/ content = <<>>
    \/ \E s, c \in Seq(Lines) : Snapshot(s, c) /\ StandsFor(o, content, Export(s, c)[o])

EInv ==
    /\ exports \in [Exporters -> ExportStates]
    /\ dataset \in [Outs -> SUBSET Contents]
    /\ overlapped \in BOOLEAN
    /\ \A e \in Exporters : Snapshot(exports[e].success, exports[e].counterexample)
    /\ \A o \in Outs : \A x \in dataset[o] : Comes(o, x) /\ \A y \in dataset[o] : x = y

LEMMA OutputsListed ==
    /\ \A i \in 1 .. 4 : Outputs[i] \in Outs
    /\ \A i \in 1 .. 3 : Outputs[i] \in Buckets
    /\ \A b \in Buckets : \E i \in 1 .. 3 : b = Outputs[i]
    /\ Outputs[4] = "manifest" /\ Len(Outputs) = 4 /\ DOMAIN Outputs = 1 .. 4
    /\ \A i \in 1 .. 4 : Outputs[i] = "manifest" => i = 4
    /\ \A i, j \in 1 .. 4 : Outputs[i] = Outputs[j] => i = j
    BY DEF Outputs, Outs, Buckets

LEMMA ExportContents ==
    ASSUME NEW s \in Seq(Lines), NEW c \in Seq(Lines), Snapshot(s, c), NEW o \in Outs
    PROVE  Export(s, c)[o] \in Contents /\ StandsFor(o, Export(s, c)[o], Export(s, c)[o])
<1>1. \A b \in Buckets : Export(s, c)[b] \in Seq(Rows)
    BY ExportChecked DEF Snapshot
<1>2. Export(s, c)["manifest"] = <<[x \in Buckets |-> Len(Export(s, c)[x])]>>
    BY Exported DEF Buckets
<1>3. \A b \in Buckets : Len(Export(s, c)[b]) \in Nat
    BY <1>1, LenProperties
<1>4. [x \in Buckets |-> Len(Export(s, c)[x])] \in [Buckets -> Nat]
    BY <1>3
<1>5. Export(s, c)["manifest"] \in Seq([Buckets -> Nat])
    BY <1>2, <1>4
<1>6. \A b \in Buckets : Export(s, c)[b] \in Seq(AllRows)
  <2> SUFFICES ASSUME NEW b \in Buckets PROVE Export(s, c)[b] \in Seq(AllRows)
      OBVIOUS
  <2>1. PICK rows \in Seq(Rows) : rows = Export(s, c)[b]
      BY <1>1
  <2>2. \A i \in 1 .. Len(rows) : rows[i] \in AllRows
      BY ElementOfSeq DEF AllRows
  <2>3. Len(rows) \in Nat /\ rows \in [1 .. Len(rows) -> AllRows]
      BY <2>2, LenProperties
  <2> QED
      BY <2>1, <2>3, Listed
<1>7. \A b \in Buckets : SameButEdited(Export(s, c)[b], Export(s, c)[b])
    BY <1>6 DEF SameButEdited
<1>8. StandsFor(o, Export(s, c)[o], Export(s, c)[o])
    BY <1>7 DEF StandsFor, Outs
<1> QED
    BY <1>5, <1>6, <1>8 DEF Outs, Contents

\* What an export or a file holds stays true while the libraries grow.
LEMMA SnapshotStays ==
    ASSUME Grown, NEW s \in Seq(Lines), NEW c \in Seq(Lines), Snapshot(s, c)
    PROVE  Snapshot(s, c)'
<1>1. Whole(s)
    BY ReadableLines DEF Snapshot, Whole
<1>2. Whole(c)
    BY ReadableLines DEF Snapshot, Whole
<1>3. /\ PrefixOf(s, libraries'["success"])
      /\ PrefixOf(c, libraries'["counterexample"])
    BY <1>1, <1>2 DEF Grown, Snapshot, Files
<1> QED
    BY <1>3 DEF Snapshot

LEMMA ComesStays ==
    ASSUME Grown, NEW o, NEW content, Comes(o, content)
    PROVE  Comes(o, content)'
    BY SnapshotStays DEF Comes

LEMMA EmptySnapshot ==
    ASSUME Books
    PROVE  <<>> \in Seq(Lines) /\ Snapshot(<<>>, <<>>)
<1>1. /\ libraries["success"] \in Seq(Lines)
      /\ libraries["counterexample"] \in Seq(Lines)
    BY DEF Books, Files
<1>2. \A lib \in Seq(Lines) : PrefixOf(<<>>, lib)
  <2>1. \A lib \in Seq(Lines) : Len(lib) \in Nat
      BY LenProperties
  <2> QED
      BY <2>1 DEF PrefixOf
<1>3. \A a \in BOOLEAN : Readable(<<>>, a)
    BY DEF Readable
<1> QED
    BY <1>1, <1>2, <1>3, EmptySeq DEF Snapshot

LEMMA SnapshotParts ==
    ASSUME NEW s, NEW c, NEW t, NEW d, Snapshot(s, c), Snapshot(t, d)
    PROVE  Snapshot(s, d)
    BY DEF Snapshot

IdleState == Idle \in ExportStates /\ Idle.pc = "idle" /\ Idle.success = <<>> /\ Idle.counterexample = <<>>

LEMMA IdleIsState == IdleState
    BY EmptySeq DEF IdleState, Idle, ExportStates

\* How one export moves: what its state becomes, and what happens to the files.
ExportBegins(e, new) ==
    /\ exports[e].pc = "idle" /\ Readable(libraries["success"], TRUE)
    /\ new.pc = "read" /\ new.turn = exports[e].turn
    /\ new.success = libraries["success"] /\ new.counterexample = exports[e].counterexample
    /\ overlapped' = (overlapped \/ \E other \in Exporters \ {e} : exports[other].pc # "idle")
    /\ dataset' = dataset

ExportReads(e, new) ==
    /\ exports[e].pc = "read" /\ Readable(libraries["counterexample"], FALSE)
    /\ new.pc = "check" /\ new.turn = exports[e].turn
    /\ new.success = exports[e].success /\ new.counterexample = libraries["counterexample"]
    /\ overlapped' = overlapped /\ dataset' = dataset

ExportStops(e, new) ==
    /\ exports[e].pc # "idle" /\ new = Idle
    /\ overlapped' = overlapped /\ dataset' = dataset

ExportChecks(e, new) ==
    /\ exports[e].pc = "check"
    /\ dataset[Outputs[exports[e].turn]] \subseteq {Written(exports[e])}
    /\ new.pc = "open" /\ new.turn = exports[e].turn
    /\ new.success = exports[e].success /\ new.counterexample = exports[e].counterexample
    /\ overlapped' = overlapped /\ dataset' = dataset

ExportOpens(e, new) ==
    /\ exports[e].pc = "open"
    /\ new.pc = "fill" /\ new.turn = exports[e].turn
    /\ new.success = exports[e].success /\ new.counterexample = exports[e].counterexample
    /\ overlapped' = overlapped
    /\ dataset' = [dataset EXCEPT ![Outputs[exports[e].turn]] = {<<>>}]

ExportFills(e, new) ==
    /\ exports[e].pc = "fill"
    /\ \/ exports[e].turn = 4 /\ new = Idle
       \/ /\ exports[e].turn < 4
          /\ new.pc = "check" /\ new.turn = exports[e].turn + 1
          /\ new.success = exports[e].success
          /\ new.counterexample = exports[e].counterexample
    /\ overlapped' = overlapped
    /\ dataset' = [dataset EXCEPT ![Outputs[exports[e].turn]] = {Written(exports[e])}]

ExportMoves(e, new) ==
    \/ ExportBegins(e, new) \/ ExportReads(e, new) \/ ExportStops(e, new)
    \/ ExportChecks(e, new) \/ ExportOpens(e, new) \/ ExportFills(e, new)

LEMMA HowExportsMove ==
    ASSUME Books, EInv, NEW e \in Exporters, ExportStep(e)
    PROVE  \E new \in ExportStates :
               exports' = [exports EXCEPT ![e] = new] /\ ExportMoves(e, new)
<1>1. PICK x : x = exports[e]
    OBVIOUS
<1>2. x \in ExportStates
    BY <1>1 DEF EInv
<1>3. PICK s : s = libraries["success"]
    OBVIOUS
<1>4. PICK c : c = libraries["counterexample"]
    OBVIOUS
<1>5. s \in Seq(Lines) /\ c \in Seq(Lines)
    BY <1>3, <1>4 DEF Books, Files
<1>6. CASE BeginExport(e)
  <2>1. PICK new : new = [x EXCEPT !.pc = "read", !.success = s]
      OBVIOUS
  <2>2. /\ new \in ExportStates /\ new.pc = "read" /\ new.turn = x.turn
        /\ new.success = s /\ new.counterexample = x.counterexample
      BY <1>2, <1>5, <2>1 DEF ExportStates
  <2>3. exports' = [exports EXCEPT ![e] = new]
      BY <1>1, <1>3, <1>6, <2>1 DEF BeginExport
  <2>4. ExportBegins(e, new)
      BY <1>1, <1>3, <1>6, <2>2 DEF BeginExport, ExportBegins
  <2> QED
      BY <2>2, <2>3, <2>4 DEF ExportMoves
<1>7. CASE ReadCounterexamples(e)
  <2>1. CASE Readable(c, FALSE)
    <3>1. PICK new : new = [x EXCEPT !.pc = "check", !.counterexample = c]
        OBVIOUS
    <3>2. /\ new \in ExportStates /\ new.pc = "check" /\ new.turn = x.turn
          /\ new.success = x.success /\ new.counterexample = c
        BY <1>2, <1>5, <3>1 DEF ExportStates
    <3>3. exports' = [exports EXCEPT ![e] = new]
        BY <1>1, <1>4, <1>7, <2>1, <3>1 DEF ReadCounterexamples
    <3>4. ExportReads(e, new)
        BY <1>1, <1>4, <1>7, <2>1, <3>2 DEF ReadCounterexamples, ExportReads
    <3> QED
        BY <3>2, <3>3, <3>4 DEF ExportMoves
  <2>2. CASE ~Readable(c, FALSE)
    <3>1. exports' = [exports EXCEPT ![e] = Idle] /\ ExportStops(e, Idle)
        BY <1>4, <1>7, <2>2 DEF ReadCounterexamples, ExportStops
    <3> QED
        BY <3>1, IdleIsState DEF ExportMoves, IdleState
  <2> QED
      BY <2>1, <2>2
<1>8. CASE CheckOutput(e)
  <2>1. ToWrite(e) = Written(x)
      BY <1>1 DEF ToWrite, Written
  <2>2. CASE dataset[Outputs[x.turn]] \subseteq {ToWrite(e)}
    <3>1. PICK new : new = [x EXCEPT !.pc = "open"]
        OBVIOUS
    <3>2. /\ new \in ExportStates /\ new.pc = "open" /\ new.turn = x.turn
          /\ new.success = x.success /\ new.counterexample = x.counterexample
        BY <1>2, <3>1 DEF ExportStates
    <3>3. exports' = [exports EXCEPT ![e] = new]
        BY <1>1, <1>8, <2>2, <3>1 DEF CheckOutput
    <3>4. ExportChecks(e, new)
        BY <1>1, <1>8, <2>1, <2>2, <3>2 DEF CheckOutput, ExportChecks
    <3> QED
        BY <3>2, <3>3, <3>4 DEF ExportMoves
  <2>3. CASE ~(dataset[Outputs[x.turn]] \subseteq {ToWrite(e)})
    <3>1. exports' = [exports EXCEPT ![e] = Idle] /\ ExportStops(e, Idle)
        BY <1>1, <1>8, <2>3 DEF CheckOutput, ExportStops
    <3> QED
        BY <3>1, IdleIsState DEF ExportMoves, IdleState
  <2> QED
      BY <2>2, <2>3
<1>9. CASE OpenOutput(e)
  <2>1. PICK new : new = [x EXCEPT !.pc = "fill"]
      OBVIOUS
  <2>2. /\ new \in ExportStates /\ new.pc = "fill" /\ new.turn = x.turn
        /\ new.success = x.success /\ new.counterexample = x.counterexample
      BY <1>2, <2>1 DEF ExportStates
  <2>3. exports' = [exports EXCEPT ![e] = new]
      BY <1>1, <1>9, <2>1 DEF OpenOutput
  <2>4. ExportOpens(e, new)
      BY <1>1, <1>9, <2>2 DEF OpenOutput, ExportOpens
  <2> QED
      BY <2>2, <2>3, <2>4 DEF ExportMoves
<1>10. CASE FillOutput(e)
  <2>1. ToWrite(e) = Written(x)
      BY <1>1 DEF ToWrite, Written
  <2>2. CASE x.turn = 4
    <3>1. exports' = [exports EXCEPT ![e] = Idle] /\ ExportFills(e, Idle)
        BY <1>1, <1>10, <2>1, <2>2, OutputsListed DEF FillOutput, ExportFills
    <3> QED
        BY <3>1, IdleIsState DEF ExportMoves, IdleState
  <2>3. CASE x.turn # 4
    <3>1. x.turn \in 1 .. 3
        BY <1>2, <2>3 DEF ExportStates
    <3>2. PICK y : y = [x EXCEPT !.pc = "check"]
        OBVIOUS
    <3>3. /\ y \in ExportStates /\ y.pc = "check" /\ y.turn = x.turn
          /\ y.success = x.success /\ y.counterexample = x.counterexample
        BY <1>2, <3>2 DEF ExportStates
    <3>4. PICK new : new = [y EXCEPT !.turn = x.turn + 1]
        OBVIOUS
    <3>5. /\ new \in ExportStates /\ new.pc = "check" /\ new.turn = x.turn + 1
          /\ new.success = x.success /\ new.counterexample = x.counterexample
        BY <3>1, <3>3, <3>4 DEF ExportStates
    <3>6. new = [x EXCEPT !.pc = "check", !.turn = x.turn + 1]
        BY <3>2, <3>3, <3>4
    <3>7. exports' = [exports EXCEPT ![e] = new]
        BY <1>1, <1>10, <2>3, <3>6, OutputsListed DEF FillOutput
    <3>8. ExportFills(e, new)
        BY <1>1, <1>10, <2>1, <3>1, <3>5 DEF FillOutput, ExportFills
    <3> QED
        BY <3>5, <3>7, <3>8 DEF ExportMoves
  <2> QED
      BY <2>2, <2>3
<1>11. CASE ExportCrash(e)
  <2>1. exports' = [exports EXCEPT ![e] = Idle] /\ ExportStops(e, Idle)
      BY <1>11 DEF ExportCrash, ExportStops
  <2> QED
      BY <2>1, IdleIsState DEF ExportMoves, IdleState
<1> QED
    BY <1>6, <1>7, <1>8, <1>9, <1>10, <1>11 DEF ExportStep

LEMMA InitEInv == Init => EInv
<1> SUFFICES ASSUME Init PROVE EInv
    OBVIOUS
<1>1. Books
    BY InitLInv DEF LInv
<1>2. exports \in [Exporters -> ExportStates]
    BY IdleIsState DEF Init, IdleState
<1>3. \A e \in Exporters : exports[e] = Idle
    BY DEF Init
<1>4. \A e \in Exporters : Snapshot(exports[e].success, exports[e].counterexample)
    BY <1>1, <1>3, EmptySnapshot, IdleIsState DEF IdleState
<1>5. dataset \in [Outs -> SUBSET Contents] /\ \A o \in Outs : dataset[o] = {}
    BY DEF Init, Outs
<1> QED
    BY <1>2, <1>4, <1>5 DEF EInv, Init

LEMMA EStays ==
    ASSUME EInv, Grown, UNCHANGED <<exports, dataset, overlapped>>
    PROVE  EInv'
<1>1. exports' = exports /\ dataset' = dataset /\ overlapped' = overlapped
    OBVIOUS
<1>2. ASSUME NEW e \in Exporters PROVE Snapshot(exports[e].success, exports[e].counterexample)'
  <2>1. exports[e].success \in Seq(Lines) /\ exports[e].counterexample \in Seq(Lines)
      BY DEF EInv, ExportStates
  <2>2. PICK s \in Seq(Lines), c \in Seq(Lines) :
            s = exports[e].success /\ c = exports[e].counterexample
      BY <2>1
  <2>3. Snapshot(s, c)'
      BY <2>2, SnapshotStays DEF EInv
  <2> QED
      BY <1>1, <2>2, <2>3
<1>3. ASSUME NEW o \in Outs, NEW x \in dataset[o] PROVE Comes(o, x)'
    BY ComesStays DEF EInv
<1> QED
    BY <1>1, <1>2, <1>3 DEF EInv

\* The state an export moves to still holds a snapshot.
LEMMA MovedSnapshot ==
    ASSUME Books, EInv, NEW e \in Exporters, NEW new \in ExportStates, ExportMoves(e, new)
    PROVE  Snapshot(new.success, new.counterexample)
<1>1. /\ exports[e] \in ExportStates
      /\ Snapshot(exports[e].success, exports[e].counterexample)
    BY DEF EInv
<1>2. Snapshot(Idle.success, Idle.counterexample)
    BY EmptySnapshot, IdleIsState DEF IdleState
<1>3. /\ PrefixOf(libraries["success"], libraries["success"])
      /\ PrefixOf(libraries["counterexample"], libraries["counterexample"])
  <2>1. \A s \in Seq(Lines) : PrefixOf(s, s)
    <3>1. \A s \in Seq(Lines) : Len(s) \in Nat
        BY LenProperties
    <3> QED
        BY <3>1 DEF PrefixOf
  <2> QED
      BY <2>1 DEF Books, Files
<1>4. CASE ExportBegins(e, new)
    BY <1>1, <1>3, <1>4 DEF ExportBegins, Snapshot
<1>5. CASE ExportReads(e, new)
    BY <1>1, <1>3, <1>5 DEF ExportReads, Snapshot
<1>6. CASE ExportStops(e, new)
    BY <1>2, <1>6 DEF ExportStops
<1>7. CASE ExportChecks(e, new)
    BY <1>1, <1>7 DEF ExportChecks
<1>8. CASE ExportOpens(e, new)
    BY <1>1, <1>8 DEF ExportOpens
<1>9. CASE ExportFills(e, new)
    BY <1>1, <1>2, <1>9 DEF ExportFills
<1> QED
    BY <1>4, <1>5, <1>6, <1>7, <1>8, <1>9 DEF ExportMoves

LEMMA WrittenComes ==
    ASSUME EInv, NEW e \in Exporters
    PROVE  /\ Outputs[exports[e].turn] \in Outs
           /\ Written(exports[e]) \in Contents
           /\ Comes(Outputs[exports[e].turn], Written(exports[e]))
           /\ exports[e].turn = 4 => Written(exports[e]) # <<>>
<1>1. exports[e] \in ExportStates
    BY DEF EInv
<1>2. PICK s \in Seq(Lines), c \in Seq(Lines) :
          s = exports[e].success /\ c = exports[e].counterexample
    BY <1>1 DEF ExportStates
<1>3. Snapshot(s, c)
    BY <1>2 DEF EInv
<1>4. PICK o : o = Outputs[exports[e].turn]
    OBVIOUS
<1>5. o \in Outs /\ (exports[e].turn = 4 => o = "manifest")
    BY <1>1, <1>4, OutputsListed DEF ExportStates
<1>6. Written(exports[e]) = Export(s, c)[o]
    BY <1>2, <1>4 DEF Written
<1>7. Export(s, c)["manifest"] # <<>>
  <2>1. Export(s, c)["manifest"] = <<[x \in Buckets |-> Len(Export(s, c)[x])]>>
      BY Exported DEF Buckets
  <2> QED
      BY <2>1
<1> QED
    BY <1>3, <1>4, <1>5, <1>6, <1>7, ExportContents DEF Comes

LEMMA EmptyContents == <<>> \in Contents
    BY EmptySeq DEF Contents

LEMMA ExportKeeps ==
    ASSUME Books, EInv, NEW e \in Exporters, ExportStep(e)
    PROVE  EInv'
<1>1. PICK new \in ExportStates :
          exports' = [exports EXCEPT ![e] = new] /\ ExportMoves(e, new)
    BY HowExportsMove
<1>2. /\ exports' \in [Exporters -> ExportStates]
      /\ exports'[e] = new
      /\ \A f \in Exporters \ {e} : exports'[f] = exports[f]
    BY <1>1 DEF EInv
<1>3. UNCHANGED libraries
    BY DEF ExportStep, BeginExport, ReadCounterexamples, CheckOutput, OpenOutput, FillOutput,
           ExportCrash, InputsUnchanged
<1>4. \A s, c : Snapshot(s, c)' <=> Snapshot(s, c)
    BY <1>3 DEF Snapshot
<1>5. \A f \in Exporters : Snapshot(exports'[f].success, exports'[f].counterexample)
  <2>1. Snapshot(new.success, new.counterexample)
      BY <1>1, MovedSnapshot
  <2> QED
      BY <1>2, <2>1 DEF EInv
<1>6. \A f \in Exporters : Snapshot(exports[f].success, exports[f].counterexample)'
    BY <1>3, <1>5 DEF Snapshot
<1>7. \A o, x : Comes(o, x)' <=> Comes(o, x)
    BY <1>4 DEF Comes
<1>8. PICK o \in Outs : o = Outputs[exports[e].turn]
    BY WrittenComes
<1>9. dataset' = dataset \/ \E y \in Contents : Comes(o, y) /\ dataset' = [dataset EXCEPT ![o] = {y}]
  <2>1. /\ <<>> \in Contents /\ Comes(o, <<>>)
        /\ Written(exports[e]) \in Contents /\ Comes(o, Written(exports[e]))
      BY <1>8, WrittenComes, EmptyContents DEF Comes
  <2> QED
      BY <1>1, <1>8, <2>1 DEF ExportMoves, ExportBegins, ExportReads, ExportStops, ExportChecks,
         ExportOpens, ExportFills
<1>10. /\ dataset' \in [Outs -> SUBSET Contents]
       /\ \A q \in Outs : \A x \in dataset'[q] :
              Comes(q, x) /\ \A y \in dataset'[q] : x = y
  <2>1. CASE dataset' = dataset
      BY <2>1 DEF EInv
  <2>2. CASE \E y \in Contents : Comes(o, y) /\ dataset' = [dataset EXCEPT ![o] = {y}]
    <3>1. PICK y \in Contents : Comes(o, y) /\ dataset' = [dataset EXCEPT ![o] = {y}]
        BY <2>2
    <3>2. /\ dataset' \in [Outs -> SUBSET Contents]
          /\ dataset'[o] = {y}
          /\ \A q \in Outs \ {o} : dataset'[q] = dataset[q]
        BY <3>1 DEF EInv
    <3> QED
        BY <3>1, <3>2 DEF EInv
  <2> QED
      BY <1>9, <2>1, <2>2
<1>11. overlapped' \in BOOLEAN
    BY <1>1 DEF EInv, ExportMoves, ExportBegins, ExportReads, ExportStops, ExportChecks,
         ExportOpens, ExportFills
<1> QED
    BY <1>2, <1>6, <1>7, <1>10, <1>11 DEF EInv

\* An edit puts an edited row where some row was.
LEMMA EditKeeps ==
    ASSUME EInv, EditBucket
    PROVE  /\ EInv'
           /\ UNCHANGED <<libraries, exports, training, overlapped>>
           /\ dataset'["manifest"] = dataset["manifest"]
<1>1. PICK b \in Buckets : \E rows \in dataset[b] : \E i \in DOMAIN rows, row \in Edits :
          dataset' = [dataset EXCEPT ![b] = {[rows EXCEPT ![i] = row]}]
    BY DEF EditBucket
<1>2. PICK rows \in dataset[b] : \E i \in DOMAIN rows, row \in Edits :
          dataset' = [dataset EXCEPT ![b] = {[rows EXCEPT ![i] = row]}]
    BY <1>1
<1>3. PICK i \in DOMAIN rows, row \in Edits :
          dataset' = [dataset EXCEPT ![b] = {[rows EXCEPT ![i] = row]}]
    BY <1>2
<1>4. b \in Outs /\ b # "manifest" /\ "manifest" \in Outs
    BY DEF Outs, Buckets
<1>5. rows # <<>>
    OBVIOUS
<1>6. PICK s \in Seq(Lines), c \in Seq(Lines) :
          Snapshot(s, c) /\ SameButEdited(rows, Export(s, c)[b])
  <2>1. Comes(b, rows)
      BY <1>4 DEF EInv
  <2> QED
      BY <1>4, <1>5, <2>1 DEF Comes, StandsFor
<1>7. PICK new : new = [rows EXCEPT ![i] = row]
    OBVIOUS
<1>8. row \in AllRows /\ row.origin = "edited"
    BY EditAssumption DEF AllRows, From
<1>9. rows \in Seq(AllRows) /\ i \in 1 .. Len(rows)
    BY <1>6, LenProperties DEF SameButEdited
<1>10. /\ new \in Seq(AllRows) /\ Len(new) = Len(rows)
       /\ \A j \in 1 .. Len(rows) : new[j] = IF j = i THEN row ELSE rows[j]
    BY <1>7, <1>8, <1>9, ExceptSeq
<1>11. SameButEdited(new, Export(s, c)[b])
    BY <1>6, <1>8, <1>10 DEF SameButEdited
<1>12. Comes(b, new) /\ new \in Contents
    BY <1>4, <1>6, <1>10, <1>11 DEF Comes, StandsFor, Contents
<1>13. /\ dataset' \in [Outs -> SUBSET Contents]
       /\ dataset'[b] = {new}
       /\ \A q \in Outs \ {b} : dataset'[q] = dataset[q]
    BY <1>3, <1>4, <1>7, <1>12 DEF EInv
<1>14. UNCHANGED <<libraries, exports, training, overlapped>>
    BY DEF EditBucket, InputsUnchanged
<1>15. \A o, x : Comes(o, x)' <=> Comes(o, x)
    BY <1>14 DEF Comes, Snapshot
<1>16. \A e \in Exporters : Snapshot(exports[e].success, exports[e].counterexample)'
    BY <1>14 DEF EInv, Snapshot
<1>17. \A o \in Outs : \A x \in dataset'[o] : Comes(o, x) /\ \A y \in dataset'[o] : x = y
    BY <1>12, <1>13 DEF EInv
<1>18. EInv'
    BY <1>13, <1>14, <1>15, <1>16, <1>17 DEF EInv
<1> QED
    BY <1>4, <1>13, <1>14, <1>18

LEMMA ENext ==
    ASSUME LInv, EInv, [Next]_vars
    PROVE  EInv'
<1>1. CASE \E e \in Exporters : ExportStep(e)
    BY <1>1, ExportKeeps DEF LInv
<1>2. CASE EditBucket
    BY <1>2, EditKeeps
<1>3. CASE ~(\E e \in Exporters : ExportStep(e)) /\ ~EditBucket
  <2>1. UNCHANGED <<exports, dataset, overlapped>>
    <3>1. CASE LoopStep
        BY <3>1 DEF LoopStep, Start, Skip, Try, Recorded, Finish, LoopCrash, OthersUnchanged
    <3>2. CASE ImportStep
        BY <3>2 DEF ImportStep, BeginImport, EndImport, OthersUnchanged
    <3>3. CASE TrainingStep
        BY <3>3 DEF TrainingStep, BeginTraining, LoadBucket, Schedule, Refuse, WriteReceipt,
                    TrainingCrash, FilesUnchanged
    <3>4. CASE UNCHANGED vars
        BY <3>4 DEF vars
    <3> QED
        BY <1>3, <3>1, <3>2, <3>3, <3>4 DEF Next
  <2> QED
      BY <2>1, LNext, EStays
<1> QED
    BY <1>1, <1>2, <1>3

-----------------------------------------------------------------------------
(* Numbers modulo another *)

LEMMA DivMod ==
    ASSUME NEW a \in Nat, NEW n \in Nat \ {0}
    PROVE  a = n * (a \div n) + (a % n) /\ a \div n \in Nat /\ a % n \in 0 .. n - 1
    OBVIOUS

LEMMA Multiple ==
    ASSUME NEW n \in Nat \ {0}, NEW p \in Int, n * p < n, -n < n * p
    PROVE  p = 0
<1>1. CASE p >= 1
    BY <1>1
<1>2. CASE p <= -1
    BY <1>2
<1> QED
    BY <1>1, <1>2

LEMMA Remainder ==
    ASSUME NEW n \in Nat \ {0}, NEW p \in Int, NEW q \in Int, NEW r \in 0 .. n - 1, NEW s \in 0 .. n - 1,
           n * p + r = n * q + s
    PROVE  r = s
<1>1. n * (p - q) = s - r
    OBVIOUS
<1>2. s - r < n /\ -n < s - r
    OBVIOUS
<1>3. p - q \in Int
    OBVIOUS
<1>4. p - q = 0
    BY <1>1, <1>2, <1>3, Multiple
<1> QED
    BY <1>1, <1>4

Congruent(m, i, n) == m % n = i % n

AsFar(k, j, m, i) == k + i = m + j

LEMMA Shifted ==
    ASSUME NEW n \in Nat \ {0}, NEW m \in Nat, NEW i \in Nat, NEW j \in Nat, NEW k \in Nat,
           Congruent(m, i, n), AsFar(k, j, m, i)
    PROVE  Congruent(k, j, n)
<1>0. m % n = i % n /\ k + i = m + j
    BY DEF Congruent, AsFar
<1>1. PICK a \in Nat, r \in 0 .. n - 1 : m = n * a + r /\ r = m % n
    BY DivMod
<1>2. PICK b \in Nat : i = n * b + r
  <2>1. i = n * (i \div n) + (i % n) /\ i \div n \in Nat
      BY DivMod
  <2> QED
      BY <1>0, <1>1, <2>1
<1>3. PICK c \in Nat, s \in 0 .. n - 1 : j = n * c + s /\ s = j % n
    BY DivMod
<1>4. PICK d \in Nat, t \in 0 .. n - 1 : k = n * d + t /\ t = k % n
    BY DivMod
<1>5. PICK p \in Int : p = a - b + c
    OBVIOUS
<1>6. n * d + t = n * p + s
    BY <1>0, <1>1, <1>2, <1>3, <1>4, <1>5
<1>7. t = s
    BY ONLY <1>6, Remainder, n \in Nat \ {0}, d \in Nat, p \in Int, t \in 0 .. n - 1, s \in 0 .. n - 1
<1> QED
    BY <1>3, <1>4, <1>7 DEF Congruent

LEMMA Further ==
    ASSUME NEW n \in Nat \ {0}, NEW l \in Nat
    PROVE  (l + n) % n = l % n
<1>1. l + n \in Nat
    OBVIOUS
<1>2. PICK a \in Nat, r \in 0 .. n - 1 : l = n * a + r /\ r = l % n
    BY DivMod
<1>3. PICK b \in Nat, s \in 0 .. n - 1 : l + n = n * b + s /\ s = (l + n) % n
    BY <1>1, DivMod
<1>4. n * b + s = n * (a + 1) + r
    BY <1>2, <1>3
<1>5. PICK c \in Nat : c = a + 1
    OBVIOUS
<1>6. n * b + s = n * c + r
    BY <1>4, <1>5
<1>7. s = r
    BY ONLY <1>6, Remainder, n \in Nat \ {0}, b \in Nat, c \in Nat, r \in 0 .. n - 1, s \in 0 .. n - 1
<1> QED
    BY <1>2, <1>3, <1>7

\* Among the numbers from 1 on, the first of a class is not above n, the next is n further.
LEMMA FirstOfClass ==
    ASSUME NEW n \in Nat \ {0}, NEW i \in 1 .. n, NEW m \in Nat \ {0}, m % n = i % n
    PROVE  m = i \/ m >= i + n
<1>1. PICK a \in Nat, r \in 0 .. n - 1 : m = n * a + r /\ r = m % n
    BY DivMod
<1>2. PICK b \in Nat : i = n * b + r
  <2>1. i \in Nat
      OBVIOUS
  <2>2. i = n * (i \div n) + (i % n) /\ i \div n \in Nat
      BY <2>1, DivMod
  <2> QED
      BY <1>1, <2>2
<1>3. CASE a = b
    BY <1>1, <1>2, <1>3
<1>4. CASE a > b
  <2>1. a - b >= 1 /\ n * (a - b) >= n
      BY <1>4
  <2>2. m = i + n * (a - b)
      BY <1>1, <1>2
  <2> QED
      BY <2>1, <2>2
<1>5. CASE a < b
  <2>1. b - a >= 1 /\ n * (b - a) >= n
      BY <1>5
  <2>2. i = m + n * (b - a)
      BY <1>1, <1>2
  <2> QED
      BY <2>1, <2>2
<1> QED
    BY <1>3, <1>4, <1>5

\* Going round n positions, none is met twice more often than another.
LEMMA RoundAndRound ==
    ASSUME NEW n \in Nat \ {0}, NEW N \in Nat, n <= N, NEW i \in 1 .. n, NEW j \in 1 .. n
    PROVE  /\ Cardinality({m \in 1 .. N : m % n = i % n}) >= 1
           /\ Cardinality({m \in 1 .. N : m % n = i % n})
                  <= Cardinality({m \in 1 .. N : m % n = j % n}) + 1
<1> DEFINE Class(k) == {m \in 1 .. N : m % n = k % n}
<1> SUFFICES /\ Cardinality(Class(i)) >= 1
             /\ Cardinality(Class(i)) <= Cardinality(Class(j)) + 1
    OBVIOUS
<1>1. IsFiniteSet(1 .. N)
    BY FS_Interval
<1>2. \A k \in 1 .. n : Class(k) \in SUBSET (1 .. N) /\ k \in Class(k)
    OBVIOUS
<1>3. \A k \in 1 .. n : \A m \in Class(k) : m \in 1 .. N /\ m % n = k % n
    OBVIOUS
<1>4. \A k \in 1 .. n : \A m \in 1 .. N : m % n = k % n => m \in Class(k)
    OBVIOUS
<1> HIDE DEF Class
<1>5. \A k \in 1 .. n : IsFiniteSet(Class(k)) /\ Cardinality(Class(k)) \in Nat
  <2>1. \A k \in 1 .. n : IsFiniteSet(Class(k))
      BY <1>1, <1>2, FS_Subset
  <2> QED
      BY <2>1, FS_CardinalityType
<1>6. Cardinality(Class(i)) >= 1
  <2>1. Cardinality(Class(i)) # 0
      BY <1>2, <1>5, FS_EmptySet
  <2> QED
      BY <1>5, <2>1
<1>7. CASE j <= i
  <2> DEFINE f == [m \in Class(i) |-> m - i + j]
  <2>1. ASSUME NEW m \in Class(i) PROVE f[m] \in Class(j)
    <3>1. m \in 1 .. N /\ m % n = i % n /\ m \in Nat \ {0} /\ i \in Nat /\ j \in Nat
        BY <1>3
    <3>2. m >= i
      <4>1. m = i \/ m >= i + n
          BY <3>1, FirstOfClass
      <4> QED
          BY <3>1, <4>1
    <3>3. PICK k \in Nat : k = m - i + j
        BY <3>1, <3>2
    <3>4. k \in 1 .. N /\ k + i = m + j
        BY <1>7, <3>1, <3>2, <3>3
    <3>5. k % n = j % n
      <4>1. AsFar(k, j, m, i) /\ Congruent(m, i, n)
          BY <3>1, <3>4 DEF AsFar, Congruent
      <4>2. Congruent(k, j, n)
          BY <3>1, <4>1, Shifted
      <4> QED
          BY ONLY <4>2 DEF Congruent
    <3> QED
        BY <1>4, <3>3, <3>4, <3>5
  <2>2. \A l, m \in Class(i) : l # m => f[l] # f[m]
      BY <1>3
  <2>3. f \in [Class(i) -> Class(j)]
      BY <2>1
  <2> HIDE DEF f
  <2>4. f \in Injection(Class(i), Class(j))
      BY <2>2, <2>3 DEF Injection, IsInjective
  <2>5. Cardinality(Class(i)) <= Cardinality(Class(j))
      BY <1>5, <2>4, FS_Injection
  <2> QED
      BY <1>5, <1>6, <2>5
<1>8. CASE i < j
  <2> DEFINE T == Class(i) \ {i}
             f == [m \in T |-> m - n - i + j]
  <2>1. ASSUME NEW m \in T PROVE f[m] \in Class(j)
    <3>1. /\ m \in 1 .. N /\ m % n = i % n /\ m # i
          /\ m \in Nat \ {0} /\ i \in Nat /\ j \in Nat
        BY <1>3
    <3>2. m >= i + n
        BY <3>1, FirstOfClass
    <3>3. PICK k \in Nat : k = m - n - i + j
        BY <3>1, <3>2
    <3>4. PICK l \in Nat : l = m - n
        BY <3>1, <3>2
    <3>5. k \in 1 .. N /\ k + i = l + j /\ l + n = m
        BY <1>8, <3>1, <3>2, <3>3, <3>4
    <3>7. l % n = i % n
        BY <3>1, <3>5, Further
    <3>8. k % n = j % n
      <4>1. AsFar(k, j, l, i) /\ Congruent(l, i, n)
          BY <3>1, <3>5, <3>7 DEF AsFar, Congruent
      <4>2. Congruent(k, j, n)
          BY <3>1, <4>1, Shifted
      <4> QED
          BY ONLY <4>2 DEF Congruent
    <3> QED
        BY <1>4, <3>3, <3>5, <3>8
  <2>2. \A l, m \in T : l # m => f[l] # f[m]
      BY <1>3
  <2>3. f \in [T -> Class(j)]
      BY <2>1
  <2>4. IsFiniteSet(T) /\ Cardinality(T) = Cardinality(Class(i)) - 1
      BY <1>2, <1>5, FS_RemoveElement
  <2> HIDE DEF f, T
  <2>5. f \in Injection(T, Class(j))
      BY <2>2, <2>3 DEF Injection, IsInjective
  <2>6. Cardinality(T) <= Cardinality(Class(j))
      BY <1>5, <2>5, FS_Injection
  <2> QED
      BY <1>5, <1>6, <2>4, <2>6
<1> QED
    BY <1>7, <1>8

-----------------------------------------------------------------------------
(* The schedule *)

Filled(rows) ==
    rows \in [Buckets -> Seq(AllRows)] /\ \A b \in Buckets : Len(rows[b]) \in Nat \ {0}

LEMMA Weights ==
    /\ \A b \in Buckets : Weight[b] \in {2, 3, 5}
    /\ Weight["teacher_anchor"] = 5 /\ Weight["verified_success"] = 3
    /\ Weight["corrected_counterexample"] = 2
    BY DEF Weight, Buckets

LEMMA DivUp ==
    ASSUME NEW n \in Nat, NEW w \in {2, 3, 5}
    PROVE  (n + w - 1) \div w \in Nat /\ n <= ((n + w - 1) \div w) * w
<1>1. CASE w = 2
    BY <1>1
<1>2. CASE w = 3
    BY <1>2
<1>3. CASE w = 5
    BY <1>3
<1> QED
    BY <1>1, <1>2, <1>3

\* There are cycles enough for every bucket.
LEMMA CyclesEnough ==
    ASSUME NEW rows, Filled(rows)
    PROVE  /\ Cycles(rows) \in Nat
           /\ \A b \in Buckets : Len(rows[b]) <= Cycles(rows) * Weight[b]
<1> DEFINE needed(b) == (Len(rows[b]) + Weight[b] - 1) \div Weight[b]
           all == {needed(b) : b \in Buckets}
<1>1. \A b \in Buckets : needed(b) \in Nat /\ Len(rows[b]) <= needed(b) * Weight[b]
    BY DivUp, Weights DEF Filled
<1>2. Cycles(rows) = CHOOSE n \in all : \A b \in Buckets : needed(b) <= n
    BY DEF Cycles
<1>3. \A b \in Buckets : needed(b) \in all
    OBVIOUS
<1>4. all \in SUBSET Nat
    BY <1>1
<1> HIDE DEF needed, all
<1>5. \E n \in all : \A b \in Buckets : needed(b) <= n
  <2>1. PICK x : x = needed("teacher_anchor")
      OBVIOUS
  <2>2. PICK y : y = needed("verified_success")
      OBVIOUS
  <2>3. PICK z : z = needed("corrected_counterexample")
      OBVIOUS
  <2>4. x \in Nat /\ y \in Nat /\ z \in Nat /\ x \in all /\ y \in all /\ z \in all
      BY <1>1, <1>3, <2>1, <2>2, <2>3 DEF Buckets
  <2>5. \E n \in {x, y, z} : x <= n /\ y <= n /\ z <= n
      BY <2>4
  <2> QED
      BY <2>1, <2>2, <2>3, <2>4, <2>5 DEF Buckets
<1>6. Cycles(rows) \in all /\ \A b \in Buckets : needed(b) <= Cycles(rows)
    BY <1>2, <1>5
<1>7. Cycles(rows) \in Nat
    BY <1>4, <1>6
<1>8. ASSUME NEW b \in Buckets PROVE Len(rows[b]) <= Cycles(rows) * Weight[b]
  <2>1. Weight[b] \in {2, 3, 5} /\ Len(rows[b]) \in Nat
      BY Weights DEF Filled
  <2>2. needed(b) \in Nat /\ needed(b) <= Cycles(rows) /\ Len(rows[b]) <= needed(b) * Weight[b]
      BY <1>1, <1>6
  <2>3. PICK w \in {2, 3, 5}, n \in Nat, c \in Nat, l \in Nat :
            w = Weight[b] /\ n = needed(b) /\ c = Cycles(rows) /\ l = Len(rows[b])
      BY <1>7, <2>1, <2>2
  <2>4. n * w <= c * w
    <3>1. CASE w = 2
        BY <2>2, <2>3, <3>1
    <3>2. CASE w = 3
        BY <2>2, <2>3, <3>2
    <3>3. CASE w = 5
        BY <2>2, <2>3, <3>3
    <3> QED
        BY <3>1, <3>2, <3>3
  <2>5. n * w \in Nat /\ c * w \in Nat
      OBVIOUS
  <2> QED
      BY <2>2, <2>3, <2>4, <2>5
<1> QED
    BY <1>7, <1>8

LEMMA Modulo ==
    ASSUME NEW i \in Nat, NEW n \in Nat \ {0}
    PROVE  i % n \in 0 .. n - 1
    OBVIOUS

\* The schedule has its share of every bucket, and only rows of the bucket.
LEMMA ScheduledRows ==
    ASSUME NEW rows, Filled(rows)
    PROVE  /\ Scheduled(rows) \in [Buckets -> Seq(AllRows)]
           /\ \A b \in Buckets :
                  /\ Cycles(rows) * Weight[b] \in Nat
                  /\ Len(Scheduled(rows)[b]) = Cycles(rows) * Weight[b]
                  /\ DOMAIN Scheduled(rows)[b] = 1 .. Cycles(rows) * Weight[b]
                  /\ \A i \in 1 .. Cycles(rows) * Weight[b] :
                         \E k \in 1 .. Len(rows[b]) : Scheduled(rows)[b][i] = rows[b][k]
<1>1. Cycles(rows) \in Nat
    BY CyclesEnough
<1>2. ASSUME NEW b \in Buckets
      PROVE  /\ Cycles(rows) * Weight[b] \in Nat
             /\ Scheduled(rows)[b] \in Seq(AllRows)
             /\ Len(Scheduled(rows)[b]) = Cycles(rows) * Weight[b]
             /\ DOMAIN Scheduled(rows)[b] = 1 .. Cycles(rows) * Weight[b]
             /\ \A i \in 1 .. Cycles(rows) * Weight[b] :
                    \E k \in 1 .. Len(rows[b]) : Scheduled(rows)[b][i] = rows[b][k]
  <2>1. PICK m : m = Cycles(rows) * Weight[b]
      OBVIOUS
  <2>2. Weight[b] \in Nat
      BY Weights
  <2>3. m \in Nat
      BY ONLY <1>1, <2>1, <2>2
  <2>4. PICK n \in Nat \ {0} : n = Len(rows[b])
      BY DEF Filled
  <2>5. PICK list \in Seq(AllRows) : list = rows[b]
      BY DEF Filled
  <2>6. Scheduled(rows)[b] = [i \in 1 .. m |-> list[((i - 1) % n) + 1]]
      BY <2>1, <2>4, <2>5 DEF Scheduled
  <2>7. \A i \in 1 .. m : ((i - 1) % n) + 1 \in 1 .. n
    <3> SUFFICES ASSUME NEW i \in 1 .. m PROVE ((i - 1) % n) + 1 \in 1 .. n
        OBVIOUS
    <3>1. i - 1 \in Nat
        BY <2>3
    <3>2. (i - 1) % n \in 0 .. n - 1
        BY <3>1, Modulo
    <3> QED
        BY <3>2
  <2>8. \A k \in 1 .. n : list[k] \in AllRows
      BY <2>4, <2>5, ElementOfSeq
  <2>9. Scheduled(rows)[b] \in [1 .. m -> AllRows]
      BY <2>6, <2>7, <2>8
  <2>10. \A i \in 1 .. m : \E k \in 1 .. n : Scheduled(rows)[b][i] = list[k]
      BY <2>6, <2>7
  <2> QED
      BY <2>1, <2>3, <2>4, <2>5, <2>9, <2>10, Listed
<1>3. Scheduled(rows) \in [Buckets -> Seq(AllRows)]
    BY <1>2 DEF Scheduled
<1> QED
    BY <1>2, <1>3
\* The frozen mixture, no row left out, none shown twice more often than another.
Fair(rows, schedule) ==
    /\ \A b, c \in Buckets : Len(schedule[b]) * Weight[c] = Len(schedule[c]) * Weight[b]
    /\ \A b \in Buckets : \A i \in 1 .. Len(rows[b]) : \A j \in 1 .. Len(rows[b]) :
           LET shown(k) == Cardinality({m \in DOMAIN schedule[b] :
                                            m % Len(rows[b]) = k % Len(rows[b])})
           IN  shown(i) >= 1 /\ shown(i) <= shown(j) + 1

LEMMA ScheduledFair ==
    ASSUME NEW rows, Filled(rows)
    PROVE  Fair(rows, Scheduled(rows))
<1>1. PICK schedule : schedule = Scheduled(rows)
    OBVIOUS
<1>2. PICK n : n = Cycles(rows)
    OBVIOUS
<1>3. n \in Nat
    BY <1>2, CyclesEnough
<1>4. \A b \in Buckets : Len(schedule[b]) = n * Weight[b] /\ DOMAIN schedule[b] = 1 .. n * Weight[b]
    BY <1>1, <1>2, ScheduledRows
<1>5. ASSUME NEW b \in Buckets, NEW c \in Buckets
      PROVE  Len(schedule[b]) * Weight[c] = Len(schedule[c]) * Weight[b]
  <2>1. PICK v \in {2, 3, 5}, w \in {2, 3, 5} : v = Weight[b] /\ w = Weight[c]
      BY Weights
  <2>2. (n * v) * w = (n * w) * v
      BY <1>3
  <2> QED
      BY <1>4, <2>1, <2>2
<1>6. ASSUME NEW b \in Buckets, NEW i \in 1 .. Len(rows[b]), NEW j \in 1 .. Len(rows[b])
      PROVE  LET shown(k) == Cardinality({m \in DOMAIN schedule[b] :
                                              m % Len(rows[b]) = k % Len(rows[b])})
             IN  shown(i) >= 1 /\ shown(i) <= shown(j) + 1
  <2>1. PICK l \in Nat \ {0} : l = Len(rows[b])
      BY DEF Filled
  <2>2. PICK N : N = n * Weight[b]
      OBVIOUS
  <2>3. N \in Nat /\ l <= N
      BY <1>2, <2>1, <2>2, CyclesEnough, ScheduledRows
  <2>4. i \in 1 .. l /\ j \in 1 .. l
      BY <2>1
  <2>5. /\ Cardinality({m \in 1 .. N : m % l = i % l}) >= 1
        /\ Cardinality({m \in 1 .. N : m % l = i % l})
               <= Cardinality({m \in 1 .. N : m % l = j % l}) + 1
      BY ONLY <2>3, <2>4, RoundAndRound, l \in Nat \ {0}
  <2>6. DOMAIN schedule[b] = 1 .. N
      BY <1>4, <2>2
  <2> QED
      BY ONLY <2>1, <2>5, <2>6
<1> QED
    BY <1>1, <1>5, <1>6 DEF Fair

-----------------------------------------------------------------------------
(* The training *)

TrainingStates ==
    [pc : {"idle", "load", "train", "trained", "dead"}, turn : 1 .. 4,
     manifest : SUBSET Contents, receipt : SUBSET Contents,
     rows : [Buckets -> Seq(AllRows)], schedule : [Buckets -> Seq(AllRows)]]

\* What a training has loaded so far is what one export makes of two libraries, but
\* for edited rows.
Loaded(x, s, c) ==
    /\ x.manifest = {Export(s, c)["manifest"]}
    /\ \A k \in 1 .. 3 :
           k < x.turn => /\ SameButEdited(x.rows[Outputs[k]], Export(s, c)[Outputs[k]])
                         /\ x.rows[Outputs[k]] # <<>>

Phase(x) ==
    /\ x.pc = "idle" => x = Untrained
    /\ x.pc \in {"idle", "load"} => \A b \in Buckets : x.schedule[b] = <<>>
    /\ x.pc \in {"train", "trained", "dead"} => x.turn = 4 /\ x.schedule = Scheduled(x.rows)
    /\ x.pc # "trained" => x.receipt = {}

TInv ==
    /\ training \in TrainingStates
    /\ Phase(training)
    /\ training.pc # "idle" => \E s, c \in Seq(Lines) : Snapshot(s, c) /\ Loaded(training, s, c)

LEMMA UntrainedState ==
    /\ Untrained \in TrainingStates /\ Phase(Untrained) /\ Untrained.pc = "idle"
    /\ Untrained.turn = 1 /\ Untrained.manifest = {} /\ Untrained.receipt = {}
<1>1. [b \in Buckets |-> <<>>] \in [Buckets -> Seq(AllRows)]
    BY EmptySeq
<1>2. Untrained \in TrainingStates
    BY <1>1 DEF Untrained, TrainingStates
<1>3. /\ Untrained.pc = "idle" /\ Untrained.turn = 1
      /\ Untrained.manifest = {} /\ Untrained.receipt = {}
      /\ \A b \in Buckets : Untrained.schedule[b] = <<>>
    BY DEF Untrained
<1> QED
    BY <1>2, <1>3 DEF Phase

LEMMA InitTInv == Init => TInv
    BY UntrainedState DEF Init, TInv

LEMMA TStays ==
    ASSUME TInv, Grown, UNCHANGED training
    PROVE  TInv'
<1>1. training' = training
    OBVIOUS
<1>2. ASSUME training.pc # "idle"
      PROVE  \E s, c \in Seq(Lines) : Snapshot(s, c)' /\ Loaded(training, s, c)
  <2>1. PICK s \in Seq(Lines), c \in Seq(Lines) : Snapshot(s, c) /\ Loaded(training, s, c)
      BY <1>2 DEF TInv
  <2> QED
      BY <2>1, SnapshotStays
<1> QED
    BY <1>1, <1>2 DEF TInv

LEMMA BeginTrainingKeeps ==
    ASSUME EInv, TInv, BeginTraining
    PROVE  TInv'
<1>1. PICK x : x = training
    OBVIOUS
<1>2. x \in TrainingStates /\ x = Untrained
    BY <1>1 DEF TInv, Phase, BeginTraining
<1>3. PICK m : m = dataset["manifest"]
    OBVIOUS
<1>4. PICK s \in Seq(Lines), c \in Seq(Lines) :
          Snapshot(s, c) /\ m = {Export(s, c)["manifest"]}
  <2>1. "manifest" \in Outs
      BY DEF Outs
  <2>2. PICK y \in m : y # <<>> /\ \A z \in m : z = y
      BY <1>3, <2>1 DEF BeginTraining, EInv
  <2>3. Comes("manifest", y) /\ m = {y}
      BY <1>3, <2>1, <2>2 DEF EInv
  <2> QED
      BY <2>2, <2>3 DEF Comes, StandsFor
<1>5. PICK y : y = [x EXCEPT !.pc = "load"]
    OBVIOUS
<1>6. /\ y \in TrainingStates /\ y.pc = "load" /\ y.turn = x.turn /\ y.rows = x.rows
      /\ y.schedule = x.schedule /\ y.receipt = x.receipt
    BY <1>2, <1>5 DEF TrainingStates
<1>7. PICK new : new = [y EXCEPT !.manifest = m]
    OBVIOUS
<1>8. m \in SUBSET Contents
    BY <1>3 DEF EInv, Outs
<1>9. /\ new \in TrainingStates /\ new.pc = "load" /\ new.turn = x.turn /\ new.rows = x.rows
      /\ new.schedule = x.schedule /\ new.receipt = x.receipt /\ new.manifest = m
    BY <1>6, <1>7, <1>8 DEF TrainingStates
<1>10. training' = new
    BY <1>1, <1>3, <1>5, <1>7 DEF BeginTraining
<1>11. Phase(new)
    BY <1>2, <1>9, UntrainedState DEF Phase
<1>12. Loaded(new, s, c)
    BY <1>2, <1>4, <1>9, UntrainedState DEF Loaded
<1>13. Snapshot(s, c)'
    BY <1>4 DEF BeginTraining, FilesUnchanged, Snapshot
<1> QED
    BY <1>9, <1>10, <1>11, <1>12, <1>13 DEF TInv

LEMMA Counted ==
    ASSUME NEW s \in Seq(Lines), NEW c \in Seq(Lines),
           training.manifest = {Export(s, c)["manifest"]}, NEW b \in Buckets
    PROVE  Counts(b) = Len(Export(s, c)[b])
<1>1. PICK m : m = [x \in Buckets |-> Len(Export(s, c)[x])]
    OBVIOUS
<1>2. training.manifest = {<<m>>}
    BY <1>1, Exported
<1>3. (CHOOSE y \in training.manifest : TRUE) = <<m>>
    BY <1>2
<1>4. Counts(b) = m[b]
    BY <1>3 DEF Counts
<1> QED
    BY <1>1, <1>4

LEMMA BackToUntrained ==
    ASSUME training' = Untrained
    PROVE  TInv'
    BY UntrainedState DEF TInv

LEMMA LoadBucketKeeps ==
    ASSUME Books, EInv, TInv, LoadBucket
    PROVE  TInv'
<1>1. PICK x : x = training
    OBVIOUS
<1>2. x \in TrainingStates /\ x.pc = "load" /\ Phase(x)
    BY <1>1 DEF TInv, LoadBucket
<1>3. PICK s \in Seq(Lines), c \in Seq(Lines) : Snapshot(s, c) /\ Loaded(x, s, c)
    BY <1>1, <1>2 DEF TInv
<1>4. PICK i \in 1 .. 3 : i = x.turn
  <2>1. Cardinality(Buckets) = 3
    <3>1. Buckets = {"teacher_anchor", "verified_success", "corrected_counterexample"}
        BY DEF Buckets
    <3> QED
        BY <3>1, Triple
  <2>2. x.turn <= 3 /\ x.turn \in 1 .. 4
      BY <1>1, <1>2, <2>1 DEF LoadBucket, TrainingStates
  <2> QED
      BY <2>2
<1>5. PICK b \in Buckets : b = Outputs[i]
    BY OutputsListed
<1>6. CASE training' = Untrained
    BY <1>6, BackToUntrained
<1>7. CASE training' # Untrained
  <2>1. PICK rows \in dataset[b] :
            RowsFit(rows, b) /\ training' = [x EXCEPT !.turn = @ + 1, !.rows[b] = rows]
      BY <1>1, <1>4, <1>5, <1>7 DEF LoadBucket
  <2>2. rows # <<>> /\ Len(rows) = Len(Export(s, c)[b])
      BY <1>1, <1>3, <2>1, Counted DEF RowsFit, Loaded
  <2>3. PICK t \in Seq(Lines), d \in Seq(Lines) :
            Snapshot(t, d) /\ SameButEdited(rows, Export(t, d)[b])
    <3>1. Comes(b, rows) /\ b # "manifest"
        BY <2>1 DEF EInv, Outs, Buckets
    <3> QED
        BY <2>2, <3>1 DEF Comes, StandsFor
  <2>4. SameButEdited(rows, Export(s, c)[b])
    <3>1. Len(Export(t, d)[b]) = Len(Export(s, c)[b])
        BY <2>2, <2>3 DEF SameButEdited
    <3>2. Export(t, d)[b] = Export(s, c)[b]
        BY <1>3, <2>3, <3>1, SameRows
    <3> QED
        BY <2>3, <3>2
  <2>5. rows \in Seq(AllRows)
      BY <2>4 DEF SameButEdited
  <2>6. PICK all : all = [x.rows EXCEPT ![b] = rows]
      OBVIOUS
  <2>7. /\ all \in [Buckets -> Seq(AllRows)] /\ all[b] = rows
        /\ \A a \in Buckets \ {b} : all[a] = x.rows[a]
      BY <1>2, <2>5, <2>6 DEF TrainingStates
  <2> PICK n \in 1 .. 4 : n = i + 1
      OBVIOUS
  <2>8. PICK y : y = [x EXCEPT !.turn = n]
      OBVIOUS
  <2>9. /\ y \in TrainingStates /\ y.pc = x.pc /\ y.turn = n /\ y.rows = x.rows
        /\ y.schedule = x.schedule /\ y.receipt = x.receipt /\ y.manifest = x.manifest
      BY <1>2, <2>8 DEF TrainingStates
  <2>10. PICK new : new = [y EXCEPT !.rows = all]
      OBVIOUS
  <2>11. /\ new \in TrainingStates /\ new.pc = x.pc /\ new.turn = n /\ new.rows = all
         /\ new.schedule = x.schedule /\ new.receipt = x.receipt /\ new.manifest = x.manifest
      BY <2>7, <2>9, <2>10 DEF TrainingStates
  <2>12. training' = new
      BY <1>2, <1>4, <2>1, <2>6, <2>8, <2>10 DEF TrainingStates
  <2>13. Phase(new)
      BY <1>2, <2>11 DEF Phase
  <2>14. Loaded(new, s, c)
    <3>1. \A k \in 1 .. 3 : k < i => Outputs[k] \in Buckets \ {b}
        BY <1>5, OutputsListed
    <3>2. \A k \in 1 .. 3 : k < n => k = i \/ k < i
        OBVIOUS
    <3>3. new.manifest = {Export(s, c)["manifest"]}
        BY <1>3, <2>11 DEF Loaded
    <3>4. ASSUME NEW k \in 1 .. 3, k < n
          PROVE  SameButEdited(all[Outputs[k]], Export(s, c)[Outputs[k]]) /\ all[Outputs[k]] # <<>>
      <4>1. CASE k = i
          BY <1>5, <2>2, <2>4, <2>7, <4>1
      <4>2. CASE k < i
        <5>1. all[Outputs[k]] = x.rows[Outputs[k]]
            BY <2>7, <3>1, <4>2
        <5> QED
            BY <1>3, <1>4, <4>2, <5>1 DEF Loaded
      <4> QED
          BY <3>2, <3>4, <4>1, <4>2
    <3> QED
        BY <2>11, <3>3, <3>4 DEF Loaded
  <2>15. Snapshot(s, c)'
      BY <1>3 DEF LoadBucket, FilesUnchanged, Snapshot
  <2> QED
      BY <2>11, <2>12, <2>13, <2>14, <2>15 DEF TInv
<1> QED
    BY <1>6, <1>7

\* A training that has loaded the three buckets has rows of each, those of one export.
LEMMA AllLoaded ==
    ASSUME NEW x \in TrainingStates, x.turn = 4,
           NEW s \in Seq(Lines), NEW c \in Seq(Lines), Loaded(x, s, c)
    PROVE  Filled(x.rows) /\ \A b \in Buckets : SameButEdited(x.rows[b], Export(s, c)[b])
<1>1. \A b \in Buckets : SameButEdited(x.rows[b], Export(s, c)[b]) /\ x.rows[b] # <<>>
  <2> SUFFICES ASSUME NEW b \in Buckets
               PROVE  SameButEdited(x.rows[b], Export(s, c)[b]) /\ x.rows[b] # <<>>
      OBVIOUS
  <2>1. PICK k \in 1 .. 3 : b = Outputs[k]
      BY OutputsListed
  <2> QED
      BY <2>1 DEF Loaded
<1>2. x.rows \in [Buckets -> Seq(AllRows)]
    BY DEF TrainingStates
<1>3. \A b \in Buckets : Len(x.rows[b]) \in Nat \ {0}
  <2> SUFFICES ASSUME NEW b \in Buckets PROVE Len(x.rows[b]) \in Nat \ {0}
      OBVIOUS
  <2>1. x.rows[b] \in Seq(AllRows) /\ x.rows[b] # <<>>
      BY <1>1, <1>2
  <2> QED
      BY <2>1, EmptySeq, LenProperties
<1> QED
    BY <1>1, <1>2, <1>3 DEF Filled

LEMMA ScheduleKeeps ==
    ASSUME TInv, Schedule
    PROVE  TInv'
<1>1. PICK x : x = training
    OBVIOUS
<1>2. x \in TrainingStates /\ x.pc = "load" /\ Phase(x)
    BY <1>1 DEF TInv, Schedule
<1>3. PICK s \in Seq(Lines), c \in Seq(Lines) : Snapshot(s, c) /\ Loaded(x, s, c)
    BY <1>1, <1>2 DEF TInv
<1>4. x.turn = 4
  <2>1. Buckets = {"teacher_anchor", "verified_success", "corrected_counterexample"}
      BY DEF Buckets
  <2>2. Cardinality(Buckets) = 3
      BY <2>1, Triple
  <2> QED
      BY <1>1, <2>2 DEF Schedule
<1>5. PICK schedule : schedule = Scheduled(x.rows)
    OBVIOUS
<1>6. schedule \in [Buckets -> Seq(AllRows)]
    BY <1>2, <1>3, <1>4, <1>5, AllLoaded, ScheduledRows
<1>7. PICK y : y = [x EXCEPT !.pc = "train"]
    OBVIOUS
<1>8. /\ y \in TrainingStates /\ y.pc = "train" /\ y.turn = x.turn /\ y.rows = x.rows
      /\ y.receipt = x.receipt /\ y.manifest = x.manifest
    BY <1>2, <1>7 DEF TrainingStates
<1>9. PICK new : new = [y EXCEPT !.schedule = schedule]
    OBVIOUS
<1>10. /\ new \in TrainingStates /\ new.pc = "train" /\ new.turn = x.turn /\ new.rows = x.rows
       /\ new.receipt = x.receipt /\ new.manifest = x.manifest /\ new.schedule = schedule
    BY <1>6, <1>8, <1>9 DEF TrainingStates
<1>11. training' = new
    BY <1>1, <1>5, <1>7, <1>9 DEF Schedule
<1>12. Phase(new)
    BY <1>2, <1>4, <1>5, <1>10 DEF Phase
<1>13. Loaded(new, s, c)
    BY <1>3, <1>10 DEF Loaded
<1>14. Snapshot(s, c)'
    BY <1>3 DEF Schedule, FilesUnchanged, Snapshot
<1> QED
    BY <1>10, <1>11, <1>12, <1>13, <1>14 DEF TInv

LEMMA WriteReceiptKeeps ==
    ASSUME EInv, TInv, WriteReceipt
    PROVE  TInv'
<1>1. PICK x : x = training
    OBVIOUS
<1>2. x \in TrainingStates /\ x.pc = "train" /\ Phase(x)
    BY <1>1 DEF TInv, WriteReceipt
<1>3. PICK s \in Seq(Lines), c \in Seq(Lines) : Snapshot(s, c) /\ Loaded(x, s, c)
    BY <1>1, <1>2 DEF TInv
<1>4. PICK m \in SUBSET Contents : m = dataset["manifest"]
    BY DEF EInv, Outs
<1>5. PICK y : y = [x EXCEPT !.pc = "trained"]
    OBVIOUS
<1>6. /\ y \in TrainingStates /\ y.pc = "trained" /\ y.turn = x.turn /\ y.rows = x.rows
      /\ y.schedule = x.schedule /\ y.manifest = x.manifest
    BY <1>2, <1>5 DEF TrainingStates
<1>7. PICK new : new = [y EXCEPT !.receipt = m]
    OBVIOUS
<1>8. /\ new \in TrainingStates /\ new.pc = "trained" /\ new.turn = x.turn /\ new.rows = x.rows
      /\ new.schedule = x.schedule /\ new.manifest = x.manifest
    BY <1>6, <1>7 DEF TrainingStates
<1>9. training' = new
    BY <1>1, <1>4, <1>5, <1>7 DEF WriteReceipt
<1>10. Phase(new)
    BY <1>2, <1>8 DEF Phase
<1>11. Loaded(new, s, c)
    BY <1>3, <1>8 DEF Loaded
<1>12. Snapshot(s, c)'
    BY <1>3 DEF WriteReceipt, FilesUnchanged, Snapshot
<1> QED
    BY <1>8, <1>9, <1>10, <1>11, <1>12 DEF TInv

LEMMA TrainingCrashKeeps ==
    ASSUME TInv, TrainingCrash
    PROVE  TInv'
<1>1. PICK x : x = training
    OBVIOUS
<1>2. x \in TrainingStates /\ x.pc = "train" /\ Phase(x)
    BY <1>1 DEF TInv, TrainingCrash
<1>3. PICK s \in Seq(Lines), c \in Seq(Lines) : Snapshot(s, c) /\ Loaded(x, s, c)
    BY <1>1, <1>2 DEF TInv
<1>4. PICK new : new = [x EXCEPT !.pc = "dead"]
    OBVIOUS
<1>5. /\ new \in TrainingStates /\ new.pc = "dead" /\ new.turn = x.turn /\ new.rows = x.rows
      /\ new.schedule = x.schedule /\ new.manifest = x.manifest /\ new.receipt = x.receipt
    BY <1>2, <1>4 DEF TrainingStates
<1>6. training' = new
    BY <1>1, <1>4 DEF TrainingCrash
<1>7. Phase(new)
    BY <1>2, <1>5 DEF Phase
<1>8. Loaded(new, s, c)
    BY <1>3, <1>5 DEF Loaded
<1>9. Snapshot(s, c)'
    BY <1>3 DEF TrainingCrash, FilesUnchanged, Snapshot
<1> QED
    BY <1>5, <1>6, <1>7, <1>8, <1>9 DEF TInv

LEMMA TNext ==
    ASSUME LInv, EInv, TInv, [Next]_vars
    PROVE  TInv'
<1>1. CASE TrainingStep
  <2>1. CASE BeginTraining
      BY <2>1, BeginTrainingKeeps
  <2>2. CASE LoadBucket
      BY <2>2, LoadBucketKeeps DEF LInv
  <2>3. CASE Schedule
      BY <2>3, ScheduleKeeps
  <2>4. CASE Refuse
      BY <2>4, BackToUntrained DEF Refuse
  <2>5. CASE WriteReceipt
      BY <2>5, WriteReceiptKeeps
  <2>6. CASE TrainingCrash
      BY <2>6, TrainingCrashKeeps
  <2> QED
      BY <1>1, <2>1, <2>2, <2>3, <2>4, <2>5, <2>6 DEF TrainingStep
<1>2. CASE ~TrainingStep
  <2>1. UNCHANGED training
    <3>1. CASE LoopStep
        BY <3>1 DEF LoopStep, Start, Skip, Try, Recorded, Finish, LoopCrash, OthersUnchanged
    <3>2. CASE ImportStep
        BY <3>2 DEF ImportStep, BeginImport, EndImport, OthersUnchanged
    <3>3. CASE \E e \in Exporters : ExportStep(e)
        BY <3>3 DEF ExportStep, BeginExport, ReadCounterexamples, CheckOutput, OpenOutput,
                    FillOutput, ExportCrash, InputsUnchanged
    <3>4. CASE EditBucket
        BY <3>4 DEF EditBucket, InputsUnchanged
    <3>5. CASE UNCHANGED vars
        BY <3>5 DEF vars
    <3> QED
        BY <1>2, <3>1, <3>2, <3>3, <3>4, <3>5 DEF Next
  <2> QED
      BY <2>1, LNext, TStays
<1> QED
    BY <1>1, <1>2

-----------------------------------------------------------------------------
(* The receipt, as long as exports do not overlap *)

Solo == \A e, f \in Exporters : exports[e].pc # "idle" /\ exports[f].pc # "idle" => e = f

\* Nobody but the one export touches the manifest when it is about to write it.
OwnFile ==
    \A e \in Exporters :
        exports[e].turn = 4 =>
            /\ exports[e].pc = "open" => dataset["manifest"] \subseteq {Written(exports[e])}
            /\ exports[e].pc = "fill" => dataset["manifest"] = {<<>>}

\* The manifest that is trained on stays, or is about to be written again.
SameManifest ==
    training.pc # "idle" =>
        /\ dataset["manifest"] \in {training.manifest, {<<>>}}
        /\ \A e \in Exporters :
               exports[e].pc \in {"open", "fill"} /\ exports[e].turn = 4
                   => {Written(exports[e])} = training.manifest

RInv == ~overlapped => Solo /\ OwnFile /\ SameManifest /\ ReceiptTrue

LEMMA InitRInv == Init => RInv
<1> SUFFICES ASSUME Init PROVE RInv
    OBVIOUS
<1>1. \A e \in Exporters : exports[e].pc = "idle"
    BY IdleIsState DEF Init, IdleState
<1>2. training.pc = "idle" /\ training.receipt = {}
    BY UntrainedState DEF Init
<1> QED
    BY <1>1, <1>2 DEF RInv, Solo, OwnFile, SameManifest, ReceiptTrue

LEMMA RStays ==
    ASSUME RInv, UNCHANGED <<exports, dataset, training, overlapped>>
    PROVE  RInv'
    BY DEF RInv, Solo, OwnFile, SameManifest, ReceiptTrue

\* What a training loaded is one manifest, not an emptied file.
LEMMA OneManifest ==
    ASSUME TInv, training.pc # "idle"
    PROVE  \E m : m # <<>> /\ training.manifest = {m}
<1>1. PICK s \in Seq(Lines), c \in Seq(Lines) : Loaded(training, s, c)
    BY DEF TInv
<1>2. Export(s, c)["manifest"] = <<[x \in Buckets |-> Len(Export(s, c)[x])]>>
    BY Exported DEF Buckets
<1>3. Export(s, c)["manifest"] # <<>>
    BY <1>2
<1> QED
    BY <1>1, <1>3 DEF Loaded

LEMMA ExportKeepsReceipt ==
    ASSUME Books, EInv, TInv, RInv, NEW e \in Exporters, ExportStep(e)
    PROVE  RInv'
<1> SUFFICES ASSUME ~overlapped' PROVE (Solo /\ OwnFile /\ SameManifest /\ ReceiptTrue)'
    BY DEF RInv
<1>1. PICK new \in ExportStates :
          exports' = [exports EXCEPT ![e] = new] /\ ExportMoves(e, new)
    BY HowExportsMove
<1>2. exports'[e] = new /\ \A f \in Exporters \ {e} : exports'[f] = exports[f]
    BY <1>1 DEF EInv
<1>3. training' = training
    BY DEF ExportStep, BeginExport, ReadCounterexamples, CheckOutput, OpenOutput, FillOutput,
           ExportCrash, InputsUnchanged
<1>4. ~overlapped
    BY <1>1 DEF ExportMoves, ExportBegins, ExportReads, ExportStops, ExportChecks,
         ExportOpens, ExportFills
<1>5. Solo /\ OwnFile /\ SameManifest /\ ReceiptTrue
    BY <1>4 DEF RInv
<1>6. \A f \in Exporters \ {e} : exports[f].pc = "idle"
  <2>1. CASE ExportBegins(e, new)
      BY <2>1 DEF ExportBegins
  <2>2. CASE exports[e].pc # "idle"
      BY <2>2, <1>5 DEF Solo
  <2> QED
      BY <1>1, <2>1, <2>2 DEF ExportMoves, ExportReads, ExportStops, ExportChecks,
         ExportOpens, ExportFills
<1>7. PICK x \in ExportStates : x = exports[e]
    BY DEF EInv
<1>8. dataset \in [Outs -> SUBSET Contents] /\ "manifest" \in Outs
    BY DEF EInv, Outs
<1>9. Solo'
    BY <1>2, <1>6 DEF Solo
<1>10. ReceiptTrue'
    BY <1>3, <1>4, <1>5 DEF ReceiptTrue
<1>11. /\ x.turn \in 1 .. 4 /\ Outputs[x.turn] \in Outs /\ Outputs[4] = "manifest"
       /\ Outputs[x.turn] = "manifest" => x.turn = 4
       /\ x.turn = 4 => Written(x) # <<>>
  <2>1. x.turn \in 1 .. 4
      BY DEF ExportStates
  <2> QED
      BY <1>7, <2>1, OutputsListed, WrittenComes
<1>12. new.turn = 4 =>
           /\ new.pc = "open" => dataset'["manifest"] \subseteq {Written(new)}
           /\ new.pc = "fill" => dataset'["manifest"] = {<<>>}
  <2>1. CASE ExportChecks(e, new)
      BY <2>1, <1>7, <1>11 DEF ExportChecks, Written
  <2>2. CASE ExportOpens(e, new)
      BY <2>2, <1>7, <1>8, <1>11 DEF ExportOpens
  <2> QED
      BY <1>1, <2>1, <2>2, IdleIsState DEF ExportMoves, ExportBegins, ExportReads, ExportStops,
         ExportFills, IdleState
<1>13. OwnFile'
    BY <1>2, <1>6, <1>12 DEF OwnFile
<1>14. ASSUME training.pc # "idle"
       PROVE  /\ dataset'["manifest"] \in {training.manifest, {<<>>}}
              /\ new.pc \in {"open", "fill"} /\ new.turn = 4 => {Written(new)} = training.manifest
  <2>1. PICK m : m # <<>> /\ training.manifest = {m}
      BY <1>14, OneManifest
  <2>2. /\ dataset["manifest"] \in {{m}, {<<>>}}
        /\ x.pc \in {"open", "fill"} /\ x.turn = 4 => Written(x) = m
      BY <1>5, <1>7, <1>14, <2>1 DEF SameManifest
  <2>3. CASE ExportChecks(e, new)
    <3>1. Written(new) = Written(x) /\ new.turn = x.turn /\ dataset' = dataset
        BY <1>7, <2>3 DEF ExportChecks, Written
    <3>2. x.turn = 4 => Written(x) = m
      <4> SUFFICES ASSUME x.turn = 4 PROVE Written(x) = m
          OBVIOUS
      <4>1. dataset["manifest"] \subseteq {Written(x)} /\ Written(x) # <<>>
          BY <1>7, <1>11, <2>3 DEF ExportChecks
      <4> QED
          BY <2>2, <4>1
    <3> QED
        BY <2>1, <2>2, <3>1, <3>2
  <2>4. CASE ExportOpens(e, new)
    <3>1. Written(new) = Written(x) /\ new.turn = x.turn
        BY <1>7, <2>4 DEF ExportOpens, Written
    <3>2. dataset'["manifest"] \in {dataset["manifest"], {<<>>}}
        BY <1>7, <1>8, <2>4 DEF ExportOpens
    <3>3. x.pc = "open"
        BY <1>7, <2>4 DEF ExportOpens
    <3> QED
        BY <2>1, <2>2, <3>1, <3>2, <3>3
  <2>5. CASE ExportFills(e, new)
    <3>1. new.pc \in {"check", "idle"} /\ x.pc = "fill"
        BY <1>7, <2>5, IdleIsState DEF ExportFills, IdleState
    <3>2. dataset' = [dataset EXCEPT ![Outputs[x.turn]] = {Written(x)}]
        BY <1>7, <2>5 DEF ExportFills
    <3>3. CASE x.turn = 4
        BY <1>8, <1>11, <2>1, <2>2, <3>1, <3>2, <3>3
    <3>4. CASE x.turn # 4
      <4>1. dataset'["manifest"] = dataset["manifest"]
          BY <1>8, <1>11, <3>2, <3>4
      <4> QED
          BY <2>1, <2>2, <3>1, <4>1
    <3> QED
        BY <3>3, <3>4
  <2>6. CASE ExportBegins(e, new) \/ ExportReads(e, new) \/ ExportStops(e, new)
    <3>1. new.pc \notin {"open", "fill"} /\ dataset' = dataset
        BY <2>6, IdleIsState DEF ExportBegins, ExportReads, ExportStops, IdleState
    <3> QED
        BY <2>1, <2>2, <3>1
  <2> QED
      BY <1>1, <2>3, <2>4, <2>5, <2>6 DEF ExportMoves
<1>15. SameManifest'
    BY <1>2, <1>3, <1>6, <1>14 DEF SameManifest
<1> QED
    BY <1>9, <1>10, <1>13, <1>15

\* How a training moves, as far as manifest and receipt are concerned.
LEMMA TrainingKeepsReceipt ==
    ASSUME EInv, TInv, RInv, TInv', TrainingStep
    PROVE  RInv'
<1>1. /\ exports' = exports /\ dataset' = dataset /\ overlapped' = overlapped
    BY DEF TrainingStep, BeginTraining, LoadBucket, Schedule, Refuse, WriteReceipt,
           TrainingCrash, FilesUnchanged
<1> SUFFICES ASSUME ~overlapped PROVE (Solo /\ OwnFile /\ SameManifest /\ ReceiptTrue)'
    BY <1>1 DEF RInv
<1>2. Solo /\ OwnFile /\ SameManifest /\ ReceiptTrue
    BY DEF RInv
<1>3. Solo' /\ OwnFile'
    BY <1>1, <1>2 DEF Solo, OwnFile
<1>4. PICK x \in TrainingStates : x = training
    BY DEF TInv
<1>5. CASE training' = Untrained
    BY <1>1, <1>3, <1>5, UntrainedState DEF SameManifest, ReceiptTrue
<1>6. CASE BeginTraining
  <2>1. training'.manifest = dataset["manifest"] /\ training'.receipt = x.receipt
    <3>1. training' = [x EXCEPT !.pc = "load", !.manifest = dataset["manifest"]]
        BY <1>4, <1>6 DEF BeginTraining
    <3> QED
        BY <3>1 DEF TrainingStates
  <2>2. x.receipt = {}
      BY <1>4, <1>6 DEF TInv, Phase, BeginTraining
  <2>3. ASSUME NEW e \in Exporters, exports[e].pc \in {"open", "fill"}, exports[e].turn = 4
        PROVE  {Written(exports[e])} = dataset["manifest"]
    <3>1. dataset["manifest"] \notin {{}, {<<>>}}
        BY <1>6 DEF BeginTraining
    <3>2. exports[e].pc = "open" /\ dataset["manifest"] \subseteq {Written(exports[e])}
        BY <1>2, <2>3, <3>1, OutputsListed DEF OwnFile
    <3> QED
        BY <3>1, <3>2
  <2>4. SameManifest'
      BY <1>1, <2>1, <2>3 DEF SameManifest
  <2>5. ReceiptTrue'
      BY <2>1, <2>2 DEF ReceiptTrue
  <2> QED
      BY <1>3, <2>4, <2>5
<1>7. CASE WriteReceipt
  <2>1. training' = [x EXCEPT !.pc = "trained", !.receipt = dataset["manifest"]] /\ x.pc = "train"
      BY <1>4, <1>7 DEF WriteReceipt
  <2>2. training'.manifest = x.manifest /\ training'.receipt = dataset["manifest"]
      BY <2>1 DEF TrainingStates
  <2>3. SameManifest'
      BY <1>1, <1>2, <1>4, <2>1, <2>2 DEF SameManifest
  <2>4. ReceiptTrue'
      BY <1>2, <1>4, <2>1, <2>2 DEF SameManifest, ReceiptTrue
  <2> QED
      BY <1>3, <2>3, <2>4
<1>8. CASE training' # Untrained /\ (LoadBucket \/ Schedule \/ TrainingCrash)
  <2>1. x.pc # "idle" /\ training'.manifest = x.manifest /\ training'.receipt = x.receipt
    <3>1. CASE LoadBucket
      <4>1. x.pc = "load"
          BY <1>4, <3>1 DEF LoadBucket
      <4>2. PICK b, rows : training' = [x EXCEPT !.turn = @ + 1, !.rows[b] = rows]
          BY <1>4, <1>8, <3>1 DEF LoadBucket
      <4> QED
          BY <4>1, <4>2 DEF TrainingStates
    <3>2. CASE Schedule
      <4>1. PICK s : training' = [x EXCEPT !.pc = "train", !.schedule = s] /\ x.pc = "load"
          BY <1>4, <3>2 DEF Schedule
      <4> QED
          BY <4>1 DEF TrainingStates
    <3>3. CASE TrainingCrash
      <4>1. training' = [x EXCEPT !.pc = "dead"] /\ x.pc = "train"
          BY <1>4, <3>3 DEF TrainingCrash
      <4> QED
          BY <4>1 DEF TrainingStates
    <3> QED
        BY <1>8, <3>1, <3>2, <3>3
  <2>2. SameManifest'
      BY <1>1, <1>2, <1>4, <2>1 DEF SameManifest
  <2>3. ReceiptTrue'
      BY <1>2, <1>4, <2>1 DEF ReceiptTrue
  <2> QED
      BY <1>3, <2>2, <2>3
<1> QED
    BY <1>5, <1>6, <1>7, <1>8 DEF TrainingStep, Refuse

LEMMA EditKeepsReceipt ==
    ASSUME EInv, RInv, EditBucket
    PROVE  RInv'
<1>1. exports' = exports /\ training' = training /\ overlapped' = overlapped
    BY EditKeeps
<1>2. dataset'["manifest"] = dataset["manifest"]
    BY EditKeeps
<1> QED
    BY <1>1, <1>2 DEF RInv, Solo, OwnFile, SameManifest, ReceiptTrue

LEMMA RNext ==
    ASSUME LInv, EInv, TInv, RInv, [Next]_vars
    PROVE  RInv'
<1>1. CASE \E e \in Exporters : ExportStep(e)
    BY <1>1, ExportKeepsReceipt DEF LInv
<1>2. CASE TrainingStep
    BY <1>2, TNext, TrainingKeepsReceipt
<1>3. CASE LoopStep
    BY <1>3, RStays DEF LoopStep, Start, Skip, Try, Recorded, Finish, LoopCrash, OthersUnchanged
<1>4. CASE ImportStep
    BY <1>4, RStays DEF ImportStep, BeginImport, EndImport, OthersUnchanged
<1>5. CASE EditBucket
    BY <1>5, EditKeepsReceipt
<1>6. CASE UNCHANGED vars
    BY <1>6, RStays DEF vars
<1> QED
    BY <1>1, <1>2, <1>3, <1>4, <1>5, <1>6 DEF Next

-----------------------------------------------------------------------------
(* The theorems *)

Inv == LInv /\ EInv /\ TInv /\ RInv

LEMMA InitInv == Init => Inv
    BY InitLInv, InitEInv, InitTInv, InitRInv DEF Inv

LEMMA NextInv == Inv /\ [Next]_vars => Inv'
<1> SUFFICES ASSUME Inv, [Next]_vars PROVE Inv'
    OBVIOUS
<1>1. LInv /\ EInv /\ TInv /\ RInv
    BY DEF Inv
<1>2. LInv' /\ EInv' /\ TInv' /\ RInv'
    BY ONLY <1>1, [Next]_vars, LNext, ENext, TNext, RNext
<1> QED
    BY <1>2 DEF Inv

LEMMA Invariant == Spec => []Inv
    BY InitInv, NextInv, PTL DEF Spec

LEMMA InvTypeOK == Inv => TypeOK
<1> SUFFICES ASSUME Inv PROVE TypeOK
    OBVIOUS
<1>1. Books /\ LoopFine /\ EInv /\ TInv
    BY DEF Inv, LInv
<1>2. DOMAIN libraries = Files
    BY <1>1 DEF Books
<1>3. ASSUME NEW file \in Files
      PROVE  /\ IsLines(libraries[file])
             /\ \A i \in DOMAIN libraries[file] :
                    libraries[file][i] = Torn => i = Len(libraries[file])
             /\ Locked(file) => EndsTorn(libraries[file])
  <2>1. PICK lines \in Seq(Lines) : lines = libraries[file]
      BY <1>1 DEF Books
  <2>2. DOMAIN lines = 1 .. Len(lines)
      BY LenProperties
  <2>3. IsLines(lines)
    <3> SUFFICES ASSUME NEW i \in 1 .. Len(lines)
                 PROVE  lines[i] \in {Torn, Garbled} \/ IsRecord(lines[i])
        BY <2>2 DEF IsLines
    <3>1. lines[i] \in Lines
        BY ElementOfSeq
    <3> QED
        BY <3>1, RowsAreRecords DEF Lines, Rows
  <2>4. TornLast(lines)
      BY <1>1, <2>1 DEF Books
  <2>5. Locked(file) => EndsTorn(lines)
      BY <1>1, <2>1 DEF Books, Locked
  <2> QED
      BY <2>1, <2>2, <2>3, <2>4, <2>5 DEF TornLast
<1>4. loop \in 0 .. Len(Order) + 1
    BY <1>1 DEF LoopFine
<1>5. \A e \in Exporters : /\ exports[e].pc \in {"idle", "read", "check", "open", "fill"}
                            /\ exports[e].turn \in DOMAIN Outputs
    BY <1>1, OutputsListed DEF EInv, ExportStates
<1>6. training.pc \in {"idle", "load", "train", "trained", "dead"}
    BY <1>1 DEF TInv, TrainingStates
<1>7. overlapped \in BOOLEAN
    BY <1>1 DEF EInv
<1> QED
    BY <1>2, <1>3, <1>4, <1>5, <1>6, <1>7 DEF TypeOK

\* What was loaded by a training that has all it needs.
LEMMA TrainedOn ==
    ASSUME Inv, training.pc \in {"train", "trained", "dead"}
    PROVE  /\ training.schedule = Scheduled(training.rows) /\ Filled(training.rows)
           /\ \E s, c \in Seq(Lines) :
                  /\ Snapshot(s, c)
                  /\ \A b \in Buckets : SameButEdited(training.rows[b], Export(s, c)[b])
<1>1. TInv /\ training.pc # "idle"
    BY DEF Inv
<1>2. PICK s \in Seq(Lines), c \in Seq(Lines) : Snapshot(s, c) /\ Loaded(training, s, c)
    BY <1>1 DEF TInv
<1>3. training \in TrainingStates /\ training.turn = 4
      /\ training.schedule = Scheduled(training.rows)
    BY <1>1 DEF TInv, Phase
<1> QED
    BY <1>2, <1>3, AllLoaded

LEMMA InvChecked == Inv => TrainedRowsChecked
<1> SUFFICES ASSUME Inv, NEW b \in Buckets, NEW i \in DOMAIN training.schedule[b],
                    training.schedule[b][i].origin # "edited"
             PROVE  CheckedRow(b, training.schedule[b][i])
    BY DEF TrainedRowsChecked, CheckedRow
<1>1. training.pc \in {"train", "trained", "dead"}
  <2> SUFFICES ASSUME training.pc \in {"idle", "load"} PROVE FALSE
      BY DEF Inv, TInv, TrainingStates
  <2>1. training.schedule[b] = <<>>
      BY DEF Inv, TInv, Phase
  <2> QED
      BY <2>1
<1>2. /\ training.schedule = Scheduled(training.rows) /\ Filled(training.rows)
    BY <1>1, TrainedOn
<1>3. PICK s \in Seq(Lines), c \in Seq(Lines) :
          /\ Snapshot(s, c)
          /\ \A a \in Buckets : SameButEdited(training.rows[a], Export(s, c)[a])
    BY <1>1, TrainedOn
<1>4. PICK k \in 1 .. Len(training.rows[b]) : training.schedule[b][i] = training.rows[b][k]
    BY <1>2, ScheduledRows
<1>5. Readable(s, TRUE) /\ Readable(c, FALSE)
    BY <1>3 DEF Snapshot
<1>6. \A j \in 1 .. Len(Export(s, c)[b]) : CheckedRow(b, Export(s, c)[b][j])
    BY <1>5, ExportChecked
<1>7. SameButEdited(training.rows[b], Export(s, c)[b])
    BY <1>3
<1>8. /\ Len(training.rows[b]) = Len(Export(s, c)[b])
      /\ training.rows[b][k] = Export(s, c)[b][k] \/ training.rows[b][k].origin = "edited"
    BY <1>4, <1>7 DEF SameButEdited
<1> QED
    BY <1>4, <1>6, <1>8

\* How a library began is a prefix of it.
LEMMA PrefixIsSub ==
    ASSUME NEW s \in Seq(Lines), NEW lib \in Seq(Lines), PrefixOf(s, lib)
    PROVE  Len(s) \in 0 .. Len(lib) /\ s = SubSeq(lib, 1, Len(s))
<1>1. Len(s) \in Nat /\ Len(lib) \in Nat /\ Len(s) <= Len(lib)
    BY LenProperties DEF PrefixOf
<1>2. \A i \in 1 .. Len(s) : s[i] = lib[i]
    BY DEF PrefixOf
<1>3. PICK t : t = SubSeq(lib, 1, Len(s))
    OBVIOUS
<1>4. t = [i \in 1 .. Len(s) |-> lib[i]]
    BY <1>1, <1>3
<1>5. s = [i \in 1 .. Len(s) |-> s[i]]
    BY LenProperties
<1> QED
    BY <1>1, <1>2, <1>3, <1>4, <1>5

\* The rows of training are those of an export, but for edited ones.
RowsOf(export) ==
    \A b \in Buckets :
        /\ Len(training.rows[b]) = Len(export[b])
        /\ \A i \in DOMAIN training.rows[b] :
               \/ training.rows[b][i] = export[b][i]
               \/ training.rows[b][i].origin = "edited"

LEMMA InvSnapshot == Inv => OneSnapshot
<1> SUFFICES ASSUME Inv, training.pc \in {"train", "trained"}
             PROVE  \E k \in 0 .. Len(libraries["success"]),
                       j \in 0 .. Len(libraries["counterexample"]) :
                 /\ Readable(SubSeq(libraries["success"], 1, k), TRUE)
                 /\ Readable(SubSeq(libraries["counterexample"], 1, j), FALSE)
                 /\ RowsOf(Export(SubSeq(libraries["success"], 1, k),
                                  SubSeq(libraries["counterexample"], 1, j)))
    BY DEF OneSnapshot, RowsOf
<1>1. PICK s \in Seq(Lines), c \in Seq(Lines) :
          /\ Snapshot(s, c)
          /\ \A b \in Buckets : SameButEdited(training.rows[b], Export(s, c)[b])
    BY TrainedOn
<1>2. PICK lib \in Seq(Lines), other \in Seq(Lines) :
          lib = libraries["success"] /\ other = libraries["counterexample"]
    BY DEF Inv, LInv, Books, Files
<1>3. PrefixOf(s, lib) /\ PrefixOf(c, other)
    BY <1>1, <1>2 DEF Snapshot
<1>4. PICK k \in 0 .. Len(lib) : s = SubSeq(lib, 1, k)
    BY <1>3, PrefixIsSub
<1>5. PICK j \in 0 .. Len(other) : c = SubSeq(other, 1, j)
    BY <1>3, PrefixIsSub
<1>6. Readable(s, TRUE) /\ Readable(c, FALSE)
    BY <1>1 DEF Snapshot
<1>7. RowsOf(Export(s, c))
  <2> SUFFICES ASSUME NEW b \in Buckets, NEW i \in DOMAIN training.rows[b]
               PROVE  \/ training.rows[b][i] = Export(s, c)[b][i]
                      \/ training.rows[b][i].origin = "edited"
      BY <1>1 DEF RowsOf, SameButEdited
  <2>1. SameButEdited(training.rows[b], Export(s, c)[b])
      BY <1>1
  <2>2. i \in 1 .. Len(training.rows[b])
      BY <2>1, LenProperties DEF SameButEdited
  <2> QED
      BY <2>1, <2>2 DEF SameButEdited
<1>8. \E l \in 0 .. Len(lib), m \in 0 .. Len(other) :
          /\ Readable(SubSeq(lib, 1, l), TRUE)
          /\ Readable(SubSeq(other, 1, m), FALSE)
          /\ RowsOf(Export(SubSeq(lib, 1, l), SubSeq(other, 1, m)))
    BY <1>4, <1>5, <1>6, <1>7
<1> QED
    BY ONLY <1>2, <1>8

LEMMA InvFair == Inv => ScheduleFair
<1> SUFFICES ASSUME Inv, training.pc \in {"train", "trained"}
             PROVE  Fair(training.rows, training.schedule)
    BY DEF ScheduleFair, Fair
<1> QED
    BY TrainedOn, ScheduledFair

\* The shape of every variable: only the last line of a library is torn, and it is
\* while an append holds the lock.
THEOREM TrainingTypeCorrect == Spec => []TypeOK
    BY Invariant, InvTypeOK, PTL

\* What was read whole from a library stays how that library begins, whatever is
\* appended, cut short or continued after it (store.py:13-25).
THEOREM LibrariesOnlyGrow == Spec => [][Grown]_vars
<1>1. Inv /\ [Next]_vars => Grown
    BY LNext DEF Inv
<1> QED
    BY <1>1, Invariant, PTL DEF Spec

\* Every row that is trained on is edited after its export, or was checked by it: of a
\* train task, its parts bound, accepted, and if the loop made it, by verify itself.
THEOREM CheckedRowsTrain == Spec => []TrainedRowsChecked
    BY Invariant, InvChecked, PTL

\* The buckets that are trained on are those of one export but for edited rows, though
\* the manifest holds only counts.
THEOREM SnapshotTrained == Spec => []OneSnapshot
    BY Invariant, InvSnapshot, PTL

\* The schedule has the frozen mixture and repeats no position twice more often than
\* another, however many rows the buckets have.
THEOREM ScheduleAlwaysFair == Spec => []ScheduleFair
    BY Invariant, InvFair, PTL

\* As long as exports do not overlap, the receipt hashes the manifest trained on, or the
\* file an export has just emptied to write the same again.
THEOREM ReceiptsTrue == Spec => []ReceiptTrue
<1>1. Inv => ReceiptTrue
    BY DEF Inv, RInv, ReceiptTrue
<1> QED
    BY <1>1, Invariant, PTL
=============================================================================
