------------------------- MODULE PilotBundleProofs -------------------------
(***************************************************************************)
(* For any cases, reviewers, proposals and answers of the services, and    *)
(* for any number of crashes, failures and reruns: an interrupted          *)
(* hydration can be resumed, a review stands, a report that passes is      *)
(* about what ran, and a case that is spoiled stays so.                    *)
(***************************************************************************)
EXTENDS PilotBundle, FiniteSetTheorems, SequenceTheorems, TLAPS

-----------------------------------------------------------------------------
(* Files: at most one content each                                         *)

Small(S) == S = {} \/ \E x : S = {x}

LEMMA SmallCounted ==
    ASSUME NEW S, Small(S)
    PROVE  Cardinality(S) <= 1
<1>1. CASE S = {}
    BY <1>1, FS_EmptySet
<1>2. ASSUME NEW x, S = {x} PROVE Cardinality(S) <= 1
    BY <1>2, FS_Singleton
<1> QED
    BY <1>1, <1>2 DEF Small

LEMMA SmallOne ==
    ASSUME NEW x
    PROVE  Small({x}) /\ (CHOOSE y \in {x} : TRUE) = x
    BY DEF Small

\* A table of tables, and one place of it changed.
Shaped(table, C, D) == table = [c \in C |-> [d \in D |-> table[c][d]]]

Edited(new, table, c, d, v) == new = [table EXCEPT ![c][d] = v]

LEMMA PlaceChanged ==
    ASSUME NEW C, NEW D, NEW table, Shaped(table, C, D), NEW c0 \in C, NEW d0 \in D, NEW v,
           NEW new, Edited(new, table, c0, d0, v)
    PROVE  /\ Shaped(new, C, D)
           /\ \A c \in C, d \in D : new[c][d] = IF c = c0 /\ d = d0 THEN v ELSE table[c][d]
<1>1. new = [c \in C |-> IF c = c0 THEN [table[c0] EXCEPT ![d0] = v] ELSE table[c]]
    BY DEF Shaped, Edited
<1>2. \A c \in C : table[c] = [d \in D |-> table[c][d]]
    BY DEF Shaped
<1>3. \A c \in C : new[c] = [d \in D |-> IF c = c0 /\ d = d0 THEN v ELSE table[c][d]]
    BY <1>1, <1>2
<1>4. new = [c \in C |-> [d \in D |-> IF c = c0 /\ d = d0 THEN v ELSE table[c][d]]]
    BY <1>1, <1>3
<1>5. Shaped(new, C, D)
    BY <1>4 DEF Shaped
<1>6. \A c \in C, d \in D : new[c][d] = IF c = c0 /\ d = d0 THEN v ELSE table[c][d]
    BY <1>4
<1> QED
    BY <1>5, <1>6

LEMMA FilePlaces ==
    /\ FileNames = {"paper", "text", "archive", "timestamps", "source", "source_text", "lock",
                    "salt", "sealed", "capsule", "packet", "summary"}
    /\ Len(FileOrder) = 12
    /\ FileOrder[1] = "paper" /\ FileOrder[2] = "text" /\ FileOrder[3] = "archive"
    /\ FileOrder[4] = "timestamps" /\ FileOrder[5] = "source" /\ FileOrder[6] = "source_text"
    /\ FileOrder[7] = "lock" /\ FileOrder[8] = "salt" /\ FileOrder[9] = "sealed"
    /\ FileOrder[10] = "capsule" /\ FileOrder[11] = "packet" /\ FileOrder[12] = "summary"
<1>1. /\ DOMAIN FileOrder = 1 .. 12 /\ Len(FileOrder) = 12
      /\ FileOrder[1] = "paper" /\ FileOrder[2] = "text" /\ FileOrder[3] = "archive"
      /\ FileOrder[4] = "timestamps" /\ FileOrder[5] = "source" /\ FileOrder[6] = "source_text"
      /\ FileOrder[7] = "lock" /\ FileOrder[8] = "salt" /\ FileOrder[9] = "sealed"
      /\ FileOrder[10] = "capsule" /\ FileOrder[11] = "packet" /\ FileOrder[12] = "summary"
    BY DEF FileOrder
<1>2. 1 .. 12 = {1, 2, 3, 4, 5, 6, 7, 8, 9, 10, 11, 12}
    OBVIOUS
<1> HIDE DEF FileOrder
<1>3. FileNames = {FileOrder[1], FileOrder[2], FileOrder[3], FileOrder[4], FileOrder[5],
                   FileOrder[6], FileOrder[7], FileOrder[8], FileOrder[9], FileOrder[10],
                   FileOrder[11], FileOrder[12]}
    BY <1>1, <1>2 DEF FileNames
<1> QED
    BY <1>1, <1>3

LEMMA FileAt ==
    /\ \A k \in 1 .. 12 : FileOrder[k] \in FileNames
    /\ \A k, j \in 1 .. 12 : FileOrder[k] = FileOrder[j] => k = j
<1>1. \A k \in 1 .. 12 : \/ k = 1 \/ k = 2 \/ k = 3 \/ k = 4 \/ k = 5 \/ k = 6
                         \/ k = 7 \/ k = 8 \/ k = 9 \/ k = 10 \/ k = 11 \/ k = 12
    OBVIOUS
<1>2. ASSUME NEW k \in 1 .. 12 PROVE FileOrder[k] \in FileNames
    BY <1>1, FilePlaces
<1>3. ASSUME NEW k \in 1 .. 12, NEW j \in 1 .. 12, FileOrder[k] = FileOrder[j] PROVE k = j
    BY <1>1, <1>3, FilePlaces
<1> QED
    BY <1>2, <1>3

LEMMA CasePlaces ==
    /\ Len(Cases) \in Nat \ {0} /\ DOMAIN Cases = 1 .. Len(Cases)
    /\ \A i \in 1 .. Len(Cases) : Cases[i] \in CaseIds
    /\ \A i, j \in 1 .. Len(Cases) : Cases[i] = Cases[j] => i = j
    BY HydrationAssumption, LenProperties, EmptySeq DEF CaseIds

-----------------------------------------------------------------------------
(* The inductive invariant of hydration: a case has its files in order,    *)
(* each of them made from those it has before it.                          *)

IsCapsule(x) ==
    x = [commitment |-> x.commitment, sources |-> x.sources, provisional |-> x.provisional,
         review |-> x.review]

LEMMA CapsulesWhole ==
    /\ \A k, s, p, r :
           IsCapsule([commitment |-> k, sources |-> s, provisional |-> p, review |-> r])
    /\ \A x : IsCapsule(x) => x # Torn
    BY DEF Torn, IsCapsule

LEMMA CapsuleIs ==
    ASSUME NEW c, NEW m
    PROVE  IsCapsule(Capsule(c, m)) /\ Capsule(c, m).review = {}
    BY CapsulesWhole DEF Capsule

LEMMA WantedWhole ==
    ASSUME NEW c, NEW f \in FileNames \ {"salt"}, NEW m \in Metadata
    PROVE  Wanted(c, f, m) # Torn
<1>1. CASE f \in Downloads
    BY <1>1 DEF Wanted, Served, Torn, Downloads
<1>2. CASE f = "text" \/ f = "source_text"
    BY <1>2 DEF Wanted, Downloads, Torn
<1>3. CASE f = "timestamps"
    BY <1>3 DEF Wanted, Downloads, Torn, Metadata
<1>4. CASE f = "lock"
    BY <1>4 DEF Wanted, Downloads, Torn
<1>5. CASE f = "sealed"
    BY <1>5 DEF Wanted, Downloads, Torn, Target
<1>6. CASE f = "capsule"
  <2>1. Wanted(c, f, m) = Capsule(c, m)
      BY <1>6 DEF Wanted, Downloads
  <2> QED
      BY <2>1, CapsuleIs, CapsulesWhole
<1>7. CASE f = "packet"
    BY <1>7 DEF Wanted, Downloads, Torn
<1>8. CASE f = "summary"
    BY <1>8 DEF Wanted, Downloads, Torn
<1> QED
    BY <1>1, <1>2, <1>3, <1>4, <1>5, <1>6, <1>7, <1>8, FilePlaces DEF Downloads

InOrder(c) ==
    \A i, j \in 1 .. 12 :
        i < j /\ files[c][FileOrder[j]] # {} => files[c][FileOrder[i]] # {}

\* The capsule is left out: a reviewer may write it anew.
NoneTorn(c) == \A f \in FileNames \ {"capsule"} : files[c][f] # {Torn}

TextFine(c, f, of) == \A text \in files[c][f] : text = [of |-> files[c][of], by |-> text.by]

SealedFine(c, m) == files[c]["sealed"] \subseteq {Target(c, m)}

CapsuleFine(c, m) ==
    \A x \in files[c]["capsule"] : x # Torn /\ x.review = {} => x = Capsule(c, m)

PacketFine(c, m) ==
    files[c]["packet"] \subseteq {[capsule |-> Capsule(c, m), target |-> Target(c, m)]}

DerivedFine(c) ==
    /\ TextFine(c, "text", "paper")
    /\ TextFine(c, "source_text", "source")
    /\ files[c]["lock"] \subseteq {[state |-> "pinned"]}
    /\ \A m : files[c]["timestamps"] = {m} =>
           SealedFine(c, m) /\ CapsuleFine(c, m) /\ PacketFine(c, m)

CaseFine(c) ==
    /\ \A f \in FileNames : Small(files[c][f])
    /\ files[c]["salt"] \subseteq Salts \cup {Torn}
    /\ \A x \in files[c]["capsule"] : x = Torn \/ IsCapsule(x)
    /\ InOrder(c)
    /\ NoneTorn(c) => DerivedFine(c)

HydrationShape ==
    /\ hydration = [at |-> hydration.at, file |-> hydration.file, seen |-> hydration.seen]
    /\ hydration.at \in 0 .. Len(Cases) + 1
    /\ hydration.file \in 0 .. 12

HydrationFine ==
    /\ hydration.file = 0 => hydration.seen = {}
    /\ hydration.file # 0 =>
           /\ hydration.at \in 1 .. Len(Cases)
           /\ \E m \in Metadata : hydration.seen = {m}
           /\ \A j \in 1 .. 12 : j < hydration.file => files[Here][FileOrder[j]] # {}
    /\ hydration.file > 4 => files[Here]["timestamps"] = hydration.seen

HInv ==
    /\ Shaped(files, CaseIds, FileNames)
    /\ live \in [CaseIds -> Services]
    /\ \A c \in CaseIds : CaseFine(c)
    /\ HydrationShape
    /\ HydrationFine

LEMMA HInvTyped == HInv => HydrationTypeOK
<1> SUFFICES ASSUME HInv PROVE HydrationTypeOK
    OBVIOUS
<1>1. \A c \in CaseIds : \A f \in FileNames : Cardinality(files[c][f]) <= 1
    BY SmallCounted DEF HInv, CaseFine
<1>2. ASSUME NEW c \in CaseIds PROVE files[c]["salt"] \subseteq Salts \cup {Torn}
    BY DEF HInv, CaseFine
<1>3. /\ hydration.at \in 0 .. Len(Cases) + 1
      /\ hydration.file \in 0 .. Len(FileOrder)
      /\ hydration.file # 0 <=> hydration.seen # {}
    BY FilePlaces DEF HInv, HydrationShape, HydrationFine
<1> QED
    BY <1>1, <1>2, <1>3 DEF HydrationTypeOK

LEMMA HInvResumes == HInv => ResumeWorks
<1> SUFFICES ASSUME HInv, NEW c \in CaseIds, NEW f \in FileNames \ {"summary"}, Refused(c, f),
                    \A g \in FileNames : files[c][g] # {Torn}, ~Changed(c),
                    ~(\E capsule \in files[c]["capsule"] : capsule # Torn /\ capsule.review # {})
             PROVE  FALSE
    BY DEF ResumeWorks
<1> DEFINE m == live[c].metadata
<1>1. CaseFine(c) /\ DerivedFine(c)
    BY DEF HInv, CaseFine, NoneTorn
<1>2. PICK x : files[c][f] = {x} /\ x # Torn
    BY <1>1 DEF CaseFine, Small, Refused
<1>3. f # "salt" /\ x # Wanted(c, f, m)
    BY <1>2 DEF Refused
<1> HIDE DEF m
<1>4. CASE f \in Downloads
    BY <1>2, <1>3, <1>4 DEF Changed, Wanted, Downloads
<1>5. CASE f = "text"
  <2>1. x.by = live[c].extractor
      BY <1>2, <1>5 DEF Changed, Texts
  <2>2. x = [of |-> files[c]["paper"], by |-> live[c].extractor]
      BY <1>1, <1>2, <1>5, <2>1 DEF DerivedFine, TextFine
  <2> QED
      BY <1>3, <1>5, <2>2 DEF Wanted, Downloads
<1>6. CASE f = "source_text"
  <2>1. x.by = live[c].extractor
      BY <1>2, <1>6 DEF Changed, Texts
  <2>2. x = [of |-> files[c]["source"], by |-> live[c].extractor]
      BY <1>1, <1>2, <1>6, <2>1 DEF DerivedFine, TextFine
  <2> QED
      BY <1>3, <1>6, <2>2 DEF Wanted, Downloads
<1>7. CASE f = "lock"
    BY <1>1, <1>2, <1>3, <1>7 DEF DerivedFine, Wanted, Downloads
<1>8. CASE f \in {"timestamps", "sealed", "capsule", "packet"}
  <2>1. files[c]["timestamps"] = {m}
    <3>1. files[c]["timestamps"] # {}
      <4>1. InOrder(c) /\ files[c][f] # {}
          BY <1>1, <1>2 DEF CaseFine
      <4> QED
          BY <1>8, <4>1, FilePlaces DEF InOrder
    <3>2. Small(files[c]["timestamps"])
        BY <1>1, FilePlaces DEF CaseFine
    <3>3. \A y \in files[c]["timestamps"] : y = m
        BY DEF Changed, m
    <3> QED
        BY <3>1, <3>2, <3>3 DEF Small
  <2>2. SealedFine(c, m) /\ CapsuleFine(c, m) /\ PacketFine(c, m)
      BY <1>1, <2>1 DEF DerivedFine
  <2>3. CASE f = "timestamps"
      BY <1>2, <1>3, <2>1, <2>3 DEF Wanted, Downloads
  <2>4. CASE f = "sealed"
      BY <1>2, <1>3, <2>2, <2>4 DEF Wanted, Downloads, SealedFine
  <2>5. CASE f = "capsule"
      BY <1>2, <1>3, <2>2, <2>5 DEF Wanted, Downloads, CapsuleFine
  <2>6. CASE f = "packet"
      BY <1>2, <1>3, <2>2, <2>6 DEF Wanted, Downloads, PacketFine
  <2> QED
      BY <1>8, <2>3, <2>4, <2>5, <2>6
<1> QED
    BY <1>3, <1>4, <1>5, <1>6, <1>7, <1>8, FilePlaces DEF Downloads

\* What a target, and a capsule, are made from.
LEMMA TargetStays ==
    ASSUME NEW c, NEW m, files'[c]["paper"] = files[c]["paper"],
           files'[c]["archive"] = files[c]["archive"], files'[c]["salt"] = files[c]["salt"]
    PROVE  Target(c, m)' = Target(c, m)
    BY DEF Target

LEMMA CapsuleStays ==
    ASSUME NEW c, NEW m, Target(c, m)' = Target(c, m),
           files'[c]["source"] = files[c]["source"],
           files'[c]["source_text"] = files[c]["source_text"]
    PROVE  Capsule(c, m)' = Capsule(c, m)
    BY DEF Capsule

\* A case whose files a step leaves alone stays in order.
LEMMA DerivedStays ==
    ASSUME NEW c, DerivedFine(c), \A f \in FileNames \ {"capsule"} : files'[c][f] = files[c][f],
           files'[c]["capsule"] = files[c]["capsule"] \/ files'[c]["capsule"] = {Torn}
               \/ \E x : files'[c]["capsule"] = {x} /\ x.review # {}
    PROVE  DerivedFine(c)'
<1>1. /\ files'[c]["paper"] = files[c]["paper"] /\ files'[c]["text"] = files[c]["text"]
      /\ files'[c]["archive"] = files[c]["archive"]
      /\ files'[c]["timestamps"] = files[c]["timestamps"]
      /\ files'[c]["source"] = files[c]["source"]
      /\ files'[c]["source_text"] = files[c]["source_text"]
      /\ files'[c]["lock"] = files[c]["lock"] /\ files'[c]["salt"] = files[c]["salt"]
      /\ files'[c]["sealed"] = files[c]["sealed"] /\ files'[c]["packet"] = files[c]["packet"]
    BY FilePlaces
<1>2. ASSUME NEW m, files[c]["timestamps"] = {m}
      PROVE  SealedFine(c, m)' /\ CapsuleFine(c, m)' /\ PacketFine(c, m)'
  <2>1. SealedFine(c, m) /\ CapsuleFine(c, m) /\ PacketFine(c, m)
      BY <1>2 DEF DerivedFine
  <2>2. Target(c, m)' = Target(c, m) /\ Capsule(c, m)' = Capsule(c, m)
      BY <1>1, TargetStays, CapsuleStays
  <2> QED
      BY <1>1, <2>1, <2>2 DEF SealedFine, CapsuleFine, PacketFine
<1>3. TextFine(c, "text", "paper")' /\ TextFine(c, "source_text", "source")'
    BY <1>1 DEF DerivedFine, TextFine
<1> QED
    BY <1>1, <1>2, <1>3 DEF DerivedFine

LEMMA CaseStays ==
    ASSUME NEW c, CaseFine(c), \A f \in FileNames : files'[c][f] = files[c][f]
    PROVE  CaseFine(c)'
<1>1. files'[c]["salt"] = files[c]["salt"] /\ files'[c]["capsule"] = files[c]["capsule"]
    BY FilePlaces
<1>2. InOrder(c)'
    BY FileAt DEF CaseFine, InOrder
<1>3. NoneTorn(c)' => DerivedFine(c)'
    BY <1>1, DerivedStays DEF CaseFine, NoneTorn
<1> QED
    BY <1>1, <1>2, <1>3 DEF CaseFine

\* The file at hand gets what is wanted, or is torn, where it is missing or says the
\* same; the salt only where it is missing.
Puts(v) ==
    /\ hydration.file # 0
    /\ files' = [files EXCEPT ![Here][File] = v]
    /\ \/ File = "salt" /\ files[Here]["salt"] = {}
              /\ (v = {Torn} \/ \E s \in Salts : v = {s})
       \/ File # "salt" /\ files[Here][File] \subseteq {Wanted(Here, File, Seen)}
              /\ (v = {Torn} \/ v = {Wanted(Here, File, Seen)})

LEMMA FilePut ==
    ASSUME HInv, NEW v, Puts(v)
    PROVE  /\ Here \in CaseIds /\ File \in FileNames
           /\ File = FileOrder[hydration.file] /\ hydration.file \in 1 .. 12
           /\ Shaped(files', CaseIds, FileNames)
           /\ \A c \in CaseIds, f \in FileNames :
                  files'[c][f] = IF c = Here /\ f = File THEN v ELSE files[c][f]
<1>1. hydration.file \in 1 .. 12 /\ hydration.at \in 1 .. Len(Cases)
    BY DEF HInv, HydrationShape, HydrationFine, Puts
<1>2. Here \in CaseIds
    BY <1>1, CasePlaces DEF Here
<1>3. File \in FileNames
    BY <1>1, FileAt DEF File
<1>4. Shaped(files, CaseIds, FileNames)
    BY DEF HInv
<1>5. files' = [files EXCEPT ![Here][File] = v]
    BY DEF Puts
<1>6. File = FileOrder[hydration.file]
    BY DEF File
<1>7. /\ Shaped(files', CaseIds, FileNames)
      /\ \A c \in CaseIds, f \in FileNames :
             files'[c][f] = IF c = Here /\ f = File THEN v ELSE files[c][f]
  <2>1. PICK c0 \in {Here}, d0 \in {File}, new \in {files'} : TRUE
      OBVIOUS
  <2>2. c0 \in CaseIds /\ d0 \in FileNames /\ Edited(new, files, c0, d0, v)
      BY <1>2, <1>3, <1>5, <2>1 DEF Edited
  <2>3. /\ Shaped(new, CaseIds, FileNames)
        /\ \A c \in CaseIds, f \in FileNames :
               new[c][f] = IF c = c0 /\ f = d0 THEN v ELSE files[c][f]
      BY ONLY <1>4, <2>2, PlaceChanged
  <2> QED
      BY <2>1, <2>3
<1> QED
    BY <1>1, <1>2, <1>3, <1>6, <1>7

\* A file put where there was none, with those before it there and none after it: what
\* the case has is made from the files it has.
Fresh(c, file, v) ==
    /\ \A f \in FileNames : files'[c][f] = IF f = file THEN v ELSE files[c][f]
    /\ files[c][file] = {}
    /\ \A i, j \in 1 .. 12 : FileOrder[i] = file /\ i < j => files[c][FileOrder[j]] = {}

LEMMA FreshFine ==
    ASSUME NEW c, NEW file \in FileNames, NEW v, NEW m \in Metadata, DerivedFine(c),
           Fresh(c, file, v), file # "salt" => v = {Wanted(c, file, m)},
           file \in {"sealed", "capsule", "packet"} => files[c]["timestamps"] = {m}
    PROVE  DerivedFine(c)'
<1> DEFINE same(f) == files'[c][f] = files[c][f]
<1>1. \A f \in FileNames \ {file} : same(f)
    BY DEF Fresh
<1>2. files'[c][file] = v
    BY DEF Fresh
<1>3. file = "paper" => files'[c]["text"] = {}
    BY FilePlaces DEF Fresh
<1>4. file = "source" => files'[c]["source_text"] = {}
    BY FilePlaces DEF Fresh
<1>5. file \in {"paper", "archive", "timestamps", "salt"} => files'[c]["sealed"] = {}
    BY FilePlaces DEF Fresh
<1>6. file \in {"paper", "archive", "timestamps", "source", "source_text", "salt"} =>
          files'[c]["capsule"] = {} /\ files'[c]["packet"] = {}
    BY FilePlaces DEF Fresh
<1>7. TextFine(c, "text", "paper")'
  <2>1. CASE file = "text"
    <3>1. v = {[of |-> files[c]["paper"], by |-> live[c].extractor]}
        BY <2>1 DEF Wanted, Downloads
    <3> QED
        BY <1>1, <1>2, <2>1, <3>1, FilePlaces DEF TextFine
  <2>2. CASE file = "paper"
      BY <1>3, <2>2 DEF TextFine
  <2>3. CASE file # "text" /\ file # "paper"
      BY <1>1, <2>3, FilePlaces DEF DerivedFine, TextFine
  <2> QED
      BY <2>1, <2>2, <2>3
<1>8. TextFine(c, "source_text", "source")'
  <2>1. CASE file = "source_text"
    <3>1. v = {[of |-> files[c]["source"], by |-> live[c].extractor]}
        BY <2>1 DEF Wanted, Downloads
    <3> QED
        BY <1>1, <1>2, <2>1, <3>1, FilePlaces DEF TextFine
  <2>2. CASE file = "source"
      BY <1>4, <2>2 DEF TextFine
  <2>3. CASE file # "source_text" /\ file # "source"
      BY <1>1, <2>3, FilePlaces DEF DerivedFine, TextFine
  <2> QED
      BY <2>1, <2>2, <2>3
<1>9. files'[c]["lock"] \subseteq {[state |-> "pinned"]}
  <2>1. CASE file = "lock"
      BY <1>2, <2>1 DEF Wanted, Downloads
  <2>2. CASE file # "lock"
      BY <1>1, <2>2, FilePlaces DEF DerivedFine
  <2> QED
      BY <2>1, <2>2
<1>10. ASSUME NEW n, files'[c]["timestamps"] = {n}
       PROVE  SealedFine(c, n)' /\ CapsuleFine(c, n)' /\ PacketFine(c, n)'
  <2>1. CASE file \in {"paper", "archive", "timestamps", "salt"}
      BY <1>5, <1>6, <2>1 DEF SealedFine, CapsuleFine, PacketFine
  <2>2. CASE file \notin {"paper", "archive", "timestamps", "salt"}
    <3>1. /\ Target(c, n)' = Target(c, n)
          /\ files[c]["timestamps"] = {n}
        BY <1>1, <1>10, <2>2, TargetStays, FilePlaces
    <3>2. SealedFine(c, n) /\ CapsuleFine(c, n) /\ PacketFine(c, n)
        BY <3>1 DEF DerivedFine
    <3>3. file \in {"sealed", "capsule", "packet"} => m = n
        BY <3>1
    <3>4. SealedFine(c, n)'
      <4>1. CASE file = "sealed"
        <5>1. v = {Target(c, n)}
            BY <3>3, <4>1 DEF Wanted, Downloads
        <5> QED
            BY <1>2, <3>1, <4>1, <5>1 DEF SealedFine
      <4>2. CASE file # "sealed"
          BY <1>1, <3>1, <3>2, <4>2, FilePlaces DEF SealedFine
      <4> QED
          BY <4>1, <4>2
    <3>5. CASE file \in {"source", "source_text"}
        BY <1>6, <3>4, <3>5 DEF CapsuleFine, PacketFine
    <3>6. CASE file \notin {"source", "source_text"}
      <4>1. Capsule(c, n)' = Capsule(c, n)
          BY <1>1, <3>1, <3>6, CapsuleStays, FilePlaces
      <4>2. CapsuleFine(c, n)'
        <5>1. CASE file = "capsule"
          <6>1. v = {Capsule(c, n)}
              BY <3>3, <5>1 DEF Wanted, Downloads
          <6> QED
              BY <1>2, <4>1, <5>1, <6>1 DEF CapsuleFine
        <5>2. CASE file # "capsule"
            BY <1>1, <3>2, <4>1, <5>2, FilePlaces DEF CapsuleFine
        <5> QED
            BY <5>1, <5>2
      <4>3. PacketFine(c, n)'
        <5>1. CASE file = "packet"
          <6>1. v = {[capsule |-> Capsule(c, n), target |-> Target(c, n)]}
              BY <3>3, <5>1 DEF Wanted, Downloads
          <6> QED
              BY <1>2, <3>1, <4>1, <5>1, <6>1 DEF PacketFine
        <5>2. CASE file # "packet"
            BY <1>1, <3>1, <3>2, <4>1, <5>2, FilePlaces DEF PacketFine
        <5> QED
            BY <5>1, <5>2
      <4> QED
          BY <3>4, <4>2, <4>3
    <3> QED
        BY <3>5, <3>6
  <2> QED
      BY <2>1, <2>2
<1> QED
    BY <1>7, <1>8, <1>9, <1>10 DEF DerivedFine

LEMMA PutKeeps ==
    ASSUME HInv, NEW v, Puts(v), NEW c \in CaseIds
    PROVE  CaseFine(c)'
<1>1. CaseFine(c)
    BY DEF HInv
<1>2. CASE c # Here
    BY <1>1, <1>2, FilePut, CaseStays
<1>3. CASE c = Here
  <2>1. PICK k, file : k = hydration.file /\ file = File
      OBVIOUS
  <2>2. /\ k \in 1 .. 12 /\ file = FileOrder[k] /\ file \in FileNames
        /\ \A f \in FileNames : files'[c][f] = IF f = file THEN v ELSE files[c][f]
      BY <1>3, <2>1, FilePut
  <2>3. PICK m \in Metadata : hydration.seen = {m} /\ Seen = m
      BY <2>1, <2>2 DEF HInv, HydrationFine, Seen
  <2>4. \A j \in 1 .. 12 : j < k => files[c][FileOrder[j]] # {}
      BY <1>3, <2>1, <2>2 DEF HInv, HydrationFine
  <2>5. k > 4 => files[c]["timestamps"] = {m}
      BY <1>3, <2>1, <2>3 DEF HInv, HydrationFine
  <2>6. /\ file = "salt" => files[c]["salt"] = {} /\ (v = {Torn} \/ \E s \in Salts : v = {s})
        /\ file # "salt" => /\ files[c][file] \subseteq {Wanted(c, file, m)}
                            /\ v = {Torn} \/ v = {Wanted(c, file, m)}
      BY <1>3, <2>1, <2>3 DEF Puts
  <2>7. v # {} /\ Small(v)
      BY <2>6 DEF Small
  <2>8. InOrder(c)'
    <3>1. InOrder(c)
        BY <1>1 DEF CaseFine
    <3>2. \A j \in 1 .. 12 :
              files'[c][FileOrder[j]] = IF j = k THEN v ELSE files[c][FileOrder[j]]
        BY <2>2, FileAt
    <3> QED
        BY <2>2, <2>4, <2>7, <3>1, <3>2 DEF InOrder
  <2>9. \A f \in FileNames : Small(files'[c][f])
      BY <1>1, <2>2, <2>7 DEF CaseFine
  <2>10. files'[c]["salt"] \subseteq Salts \cup {Torn}
      BY <1>1, <2>2, <2>6, FilePlaces DEF CaseFine
  <2>11. \A x \in files'[c]["capsule"] : x = Torn \/ IsCapsule(x)
    <3>1. CASE file = "capsule"
      <4>1. Wanted(c, file, m) = Capsule(c, m)
          BY <3>1 DEF Wanted, Downloads
      <4>2. v = {Torn} \/ v = {Capsule(c, m)}
          BY <2>6, <3>1, <4>1
      <4>3. files'[c]["capsule"] = v
          BY <2>2, <3>1
      <4> QED
          BY <4>2, <4>3, CapsuleIs
    <3>2. CASE file # "capsule"
        BY <1>1, <2>2, <3>2, FilePlaces DEF CaseFine
    <3> QED
        BY <3>1, <3>2
  <2>12. ASSUME NoneTorn(c)' PROVE DerivedFine(c)'
    <3>1. file # "salt" => Wanted(c, file, m) # Torn
        BY <2>2, WantedWhole
    <3>2. NoneTorn(c)
      <4>1. files[c][file] # {Torn}
          BY <2>6, <3>1
      <4> QED
          BY <2>2, <2>12, <4>1 DEF NoneTorn
    <3>3. DerivedFine(c)
        BY <1>1, <3>2 DEF CaseFine
    <3>4. CASE v = {Torn}
      <4>1. file = "capsule"
          BY <2>2, <2>12, <3>4 DEF NoneTorn
      <4> QED
          BY <2>2, <3>3, <3>4, <4>1, DerivedStays
    <3>5. CASE v # {Torn} /\ files[c][file] # {}
      <4>1. v = files[c][file]
          BY <2>6, <3>5
      <4>2. \A f \in FileNames : files'[c][f] = files[c][f]
          BY <2>2, <4>1
      <4> QED
          BY <3>3, <4>2, DerivedStays, FilePlaces
    <3>6. CASE v # {Torn} /\ files[c][file] = {}
      <4>1. \A i, j \in 1 .. 12 :
                FileOrder[i] = file /\ i < j => files[c][FileOrder[j]] = {}
          BY <1>1, <3>6 DEF CaseFine, InOrder
      <4>2. Fresh(c, file, v)
          BY <2>2, <3>6, <4>1 DEF Fresh
      <4>3. file # "salt" => v = {Wanted(c, file, m)}
          BY <2>6, <3>6
      <4>4. file \in {"sealed", "capsule", "packet"} => k \in {9, 10, 11}
          BY <2>2, FileAt, FilePlaces
      <4>5. file \in {"sealed", "capsule", "packet"} => files[c]["timestamps"] = {m}
          BY <2>5, <4>4
      <4> QED
          BY <2>2, <3>3, <4>2, <4>3, <4>5, FreshFine
    <3> QED
        BY <3>4, <3>5, <3>6
  <2> QED
      BY <2>8, <2>9, <2>10, <2>11, <2>12 DEF CaseFine
<1> QED
    BY <1>2, <1>3

\* Files that no step touches stay in order.
LEMMA FilesStay ==
    ASSUME HInv, UNCHANGED files
    PROVE  Shaped(files, CaseIds, FileNames)' /\ \A c \in CaseIds : CaseFine(c)'
<1>1. ASSUME NEW c \in CaseIds PROVE CaseFine(c)'
    BY CaseStays DEF HInv
<1>2. Shaped(files, CaseIds, FileNames)'
    BY DEF HInv, Shaped
<1> QED
    BY <1>1, <1>2

LEMMA HydrationEnds ==
    ASSUME hydration' = Idle
    PROVE  HydrationShape' /\ HydrationFine'
<1>1. hydration' = [at |-> 0, file |-> 0, seen |-> {}]
    BY DEF Idle
<1>2. Len(Cases) \in Nat
    BY CasePlaces
<1> QED
    BY <1>1, <1>2 DEF HydrationShape, HydrationFine

LEMMA HydrationAdvances ==
    ASSUME HInv, hydration.file # 0, hydration' = NextFile,
           \A j \in 1 .. 12 : j <= hydration.file => files'[Here][FileOrder[j]] # {},
           hydration.file >= 4 => files'[Here]["timestamps"] = hydration.seen
    PROVE  HydrationShape' /\ HydrationFine'
<1>1. /\ hydration = [at |-> hydration.at, file |-> hydration.file, seen |-> hydration.seen]
      /\ hydration.at \in 1 .. Len(Cases) /\ hydration.file \in 1 .. 12
      /\ \E m \in Metadata : hydration.seen = {m}
      /\ Len(Cases) \in Nat
    BY CasePlaces DEF HInv, HydrationShape, HydrationFine
<1>2. CASE hydration.file < 12
  <2>1. hydration' = [at |-> hydration.at, file |-> hydration.file + 1, seen |-> hydration.seen]
      BY <1>1, <1>2, FilePlaces DEF NextFile
  <2>2. Here' = Here
      BY <2>1 DEF Here
  <2> QED
      BY <1>1, <1>2, <2>1, <2>2 DEF HydrationShape, HydrationFine
<1>3. CASE hydration.file = 12
  <2>0. hydration' = [hydration EXCEPT !.at = @ + 1, !.file = 0, !.seen = {}]
      BY <1>3, FilePlaces DEF NextFile
  <2>1. hydration' = [at |-> hydration.at + 1, file |-> 0, seen |-> {}]
      BY <1>1, <2>0
  <2> QED
      BY <1>1, <2>1 DEF HydrationShape, HydrationFine
<1> QED
    BY <1>1, <1>2, <1>3

LEMMA PutAdvances ==
    ASSUME HInv, NEW v, Puts(v), v # {},
           File # "salt" => v = {Wanted(Here, File, Seen)}, hydration' = NextFile
    PROVE  HydrationShape' /\ HydrationFine'
<1>1. /\ Here \in CaseIds /\ File = FileOrder[hydration.file] /\ hydration.file \in 1 .. 12
      /\ \A f \in FileNames : files'[Here][f] = IF f = File THEN v ELSE files[Here][f]
    BY FilePut
<1>2. PICK m \in Metadata : hydration.seen = {m} /\ Seen = m
    BY <1>1 DEF HInv, HydrationFine, Seen
<1>3. ASSUME hydration.file >= 4 PROVE files'[Here]["timestamps"] = hydration.seen
  <2>1. CASE hydration.file = 4
    <3>1. File = "timestamps"
        BY <1>1, <2>1, FilePlaces
    <3> QED
        BY <1>1, <1>2, <3>1, FilePlaces DEF Wanted, Downloads
  <2>2. CASE hydration.file > 4
    <3>1. File # "timestamps"
        BY <1>1, <2>2, FileAt, FilePlaces
    <3> QED
        BY <1>1, <2>2, <3>1, FilePlaces DEF HInv, HydrationFine
  <2> QED
      BY <1>1, <1>3, <2>1, <2>2
<1>4. ASSUME NEW j \in 1 .. 12, j <= hydration.file PROVE files'[Here][FileOrder[j]] # {}
  <2>1. FileOrder[j] \in FileNames
      BY FileAt
  <2>2. CASE FileOrder[j] = File
      BY <1>1, <2>1, <2>2
  <2>3. CASE FileOrder[j] # File
    <3>1. j < hydration.file
        BY <1>1, <1>4, <2>3
    <3>2. files[Here][FileOrder[j]] # {}
        BY <1>1, <3>1 DEF HInv, HydrationFine
    <3> QED
        BY <1>1, <2>1, <2>3, <3>2
  <2> QED
      BY <2>2, <2>3
<1> HIDE DEF NextFile
<1> QED
    BY <1>1, <1>3, <1>4, HydrationAdvances

HydrationMove ==
    \/ HydrationStep \/ NetworkError \/ HydrationCrash \/ ServicesChange

LEMMA HydrationPreserved ==
    ASSUME HInv, HydrationMove
    PROVE  HInv'
<1>0. live' \in [CaseIds -> Services]
    BY DEF HInv, HydrationMove, HydrationStep, BeginHydration, SkipCase, ReadMetadata, WriteFile,
           PersistentSecret, WriteManifest, NetworkError, HydrationCrash, ServicesChange
<1>a. /\ hydration = [at |-> hydration.at, file |-> hydration.file, seen |-> hydration.seen]
      /\ hydration.at \in 0 .. Len(Cases) + 1 /\ hydration.file \in 0 .. 12
      /\ Len(Cases) \in Nat \ {0} /\ DOMAIN Cases = 1 .. Len(Cases)
    BY CasePlaces DEF HInv, HydrationShape
<1>b. ASSUME NEW v, Puts(v)
      PROVE  Shaped(files, CaseIds, FileNames)' /\ \A c \in CaseIds : CaseFine(c)'
  <2>1. \A c \in CaseIds : CaseFine(c)'
      BY <1>b, PutKeeps
  <2>2. Shaped(files, CaseIds, FileNames)'
      BY <1>b, FilePut
  <2> QED
      BY <2>1, <2>2
<1>1. CASE BeginHydration
  <2>1. hydration' = [at |-> 1, file |-> 0, seen |-> {}] /\ UNCHANGED files
      BY <1>1 DEF BeginHydration, Idle
  <2>2. HydrationShape' /\ HydrationFine'
      BY <1>a, <2>1 DEF HydrationShape, HydrationFine
  <2> QED
      BY <1>0, <2>1, <2>2, FilesStay DEF HInv
<1>2. CASE SkipCase
  <2>1. UNCHANGED files /\ hydration.seen = {} /\ hydration.file = 0
      BY <1>2 DEF SkipCase, HInv, HydrationFine
  <2>2. CASE hydration' = Idle
      BY <1>0, <2>1, <2>2, FilesStay, HydrationEnds DEF HInv
  <2>3. CASE hydration' = [hydration EXCEPT !.at = @ + 1]
    <3>1. hydration.at \in 1 .. Len(Cases)
        BY <1>2, <1>a DEF SkipCase
    <3>2. hydration' = [at |-> hydration.at + 1, file |-> 0, seen |-> {}]
        BY <1>a, <2>1, <2>3
    <3>3. HydrationShape' /\ HydrationFine'
        BY <1>a, <3>1, <3>2 DEF HydrationShape, HydrationFine
    <3> QED
        BY <1>0, <2>1, <3>3, FilesStay DEF HInv
  <2> QED
      BY <1>2, <2>2, <2>3 DEF SkipCase
<1>3. CASE ReadMetadata
  <2>1. hydration.at \in 1 .. Len(Cases) /\ UNCHANGED files
      BY <1>3, <1>a DEF ReadMetadata
  <2>2. Here \in CaseIds
      BY <2>1, CasePlaces DEF Here
  <2>3. live[Here].metadata \in Metadata
      BY <2>2 DEF HInv, Services
  <2>4. hydration' = [at |-> hydration.at, file |-> 1, seen |-> {live[Here].metadata}]
      BY <1>3, <1>a DEF ReadMetadata
  <2>5. HydrationShape' /\ HydrationFine'
      BY <1>a, <2>1, <2>3, <2>4 DEF HydrationShape, HydrationFine
  <2> QED
      BY <1>0, <2>1, <2>5, FilesStay DEF HInv
<1>4. CASE WriteFile
  <2>1. CASE hydration' = Idle /\ UNCHANGED files
      BY <1>0, <2>1, FilesStay, HydrationEnds DEF HInv
  <2>2. CASE /\ files[Here][File] \subseteq {Wanted(Here, File, Seen)}
             /\ files' = [files EXCEPT ![Here][File] = {Wanted(Here, File, Seen)}]
             /\ hydration' = NextFile
    <3> DEFINE v == {Wanted(Here, File, Seen)}
    <3>1. Puts(v)
        BY <1>4, <2>2 DEF Puts, WriteFile
    <3>2. HydrationShape' /\ HydrationFine'
        BY <2>2, <3>1, PutAdvances
    <3> QED
        BY <1>0, <1>b, <3>1, <3>2 DEF HInv
  <2> QED
      BY <1>4, <2>1, <2>2 DEF WriteFile
<1>5. CASE PersistentSecret
  <2>1. hydration.file # 0 /\ File = "salt"
      BY <1>5 DEF PersistentSecret
  <2>2. ASSUME NEW salt \in Salts, files[Here]["salt"] = {},
               files' = [files EXCEPT ![Here]["salt"] = {salt}], hydration' = NextFile
        PROVE  HInv'
    <3>1. Puts({salt})
        BY <2>1, <2>2 DEF Puts
    <3>2. HydrationShape' /\ HydrationFine'
        BY <2>1, <2>2, <3>1, PutAdvances
    <3> QED
        BY <1>0, <1>b, <3>1, <3>2 DEF HInv
  <2>3. CASE hydration' = Idle /\ UNCHANGED files
      BY <1>0, <2>3, FilesStay, HydrationEnds DEF HInv
  <2>4. CASE files[Here]["salt"] # {} /\ hydration' = NextFile /\ UNCHANGED files
    <3>1. hydration.file = 8 /\ FileOrder[8] = "salt"
        BY <1>a, <2>1, FileAt, FilePlaces DEF File
    <3>2. /\ files[Here]["timestamps"] = hydration.seen
          /\ \A j \in 1 .. 12 : j < 8 => files[Here][FileOrder[j]] # {}
        BY <3>1 DEF HInv, HydrationFine
    <3>3. \A j \in 1 .. 12 : j <= hydration.file => files'[Here][FileOrder[j]] # {}
        BY <2>4, <3>1, <3>2
    <3>4. HydrationShape' /\ HydrationFine'
        BY <2>1, <2>4, <3>2, <3>3, HydrationAdvances
    <3> QED
        BY <1>0, <2>4, <3>4, FilesStay DEF HInv
  <2> QED
      BY <1>5, <2>2, <2>3, <2>4 DEF PersistentSecret
<1>6. CASE WriteManifest \/ NetworkError
    BY <1>0, <1>6, FilesStay, HydrationEnds DEF HInv, WriteManifest, NetworkError
<1>7. CASE HydrationCrash
  <2>1. hydration' = Idle
      BY <1>7 DEF HydrationCrash
  <2>2. CASE UNCHANGED files
      BY <1>0, <2>1, <2>2, FilesStay, HydrationEnds DEF HInv
  <2>3. CASE /\ hydration.file # 0
             /\ IF File \in Downloads \cup {"salt"} THEN files[Here][File] = {}
                ELSE files[Here][File] \subseteq {Wanted(Here, File, Seen)}
             /\ files' = [files EXCEPT ![Here][File] = {Torn}]
    <3>1. Puts({Torn})
      <4>1. files[Here][File] \subseteq {Wanted(Here, File, Seen)} \/ File = "salt"
          BY <2>3
      <4>2. File = "salt" => files[Here]["salt"] = {}
          BY <2>3
      <4> QED
          BY <2>3, <4>1, <4>2 DEF Puts
    <3> QED
        BY <1>0, <1>b, <2>1, <3>1, HydrationEnds DEF HInv
  <2> QED
      BY <1>7, <2>2, <2>3 DEF HydrationCrash
<1>8. CASE ServicesChange
  <2>1. UNCHANGED <<files, hydration>>
      BY <1>8 DEF ServicesChange
  <2>2. HydrationShape' /\ HydrationFine'
      BY <2>1 DEF HInv, HydrationShape, HydrationFine, Here
  <2> QED
      BY <1>0, <2>1, <2>2, FilesStay DEF HInv
<1> QED
    BY <1>1, <1>2, <1>3, <1>4, <1>5, <1>6, <1>7, <1>8 DEF HydrationMove, HydrationStep

\* Hydration writes a capsule where there is none, or over one that says the same.
LEMMA CapsuleWritten ==
    ASSUME HInv, HydrationMove, NEW c \in CaseIds
    PROVE  \/ files'[c]["capsule"] = files[c]["capsule"]
           \/ \E w : /\ IsCapsule(w) /\ w.review = {}
                     /\ files[c]["capsule"] \subseteq {w}
                     /\ files'[c]["capsule"] \in {{w}, {Torn}}
<1>1. ASSUME NEW v, Puts(v)
      PROVE  \/ files'[c]["capsule"] = files[c]["capsule"]
             \/ \E w : /\ IsCapsule(w) /\ w.review = {}
                       /\ files[c]["capsule"] \subseteq {w}
                       /\ files'[c]["capsule"] \in {{w}, {Torn}}
  <2>1. \A f \in FileNames : files'[c][f] = IF c = Here /\ f = File THEN v ELSE files[c][f]
      BY <1>1, FilePut
  <2>2. CASE c # Here \/ File # "capsule"
      BY <2>1, <2>2, FilePlaces
  <2>3. CASE c = Here /\ File = "capsule"
    <3>1. PICK w : w = Wanted(c, "capsule", Seen)
        OBVIOUS
    <3>2. PICK m : m = Seen
        OBVIOUS
    <3>3. IsCapsule(w) /\ w.review = {}
      <4>1. w = Capsule(c, m)
          BY <3>1, <3>2 DEF Wanted, Downloads
      <4> QED
          BY <4>1, CapsuleIs
    <3>4. files[c]["capsule"] \subseteq {w} /\ v \in {{w}, {Torn}}
        BY <1>1, <2>3, <3>1 DEF Puts
    <3>5. files'[c]["capsule"] = v
        BY <2>1, <2>3, FilePlaces
    <3> QED
        BY <3>3, <3>4, <3>5
  <2> QED
      BY <2>2, <2>3
<1>2. \/ UNCHANGED files
      \/ \E v : Puts(v)
    BY DEF HydrationMove, HydrationStep, BeginHydration, SkipCase, ReadMetadata, WriteFile,
           PersistentSecret, WriteManifest, NetworkError, HydrationCrash, ServicesChange, Puts
<1> QED
    BY <1>1, <1>2

-----------------------------------------------------------------------------
(* The inductive invariant of the reviews                                  *)

ReviewFine(r) ==
    /\ reviewers[r] = [pc |-> reviewers[r].pc, case |-> reviewers[r].case,
                       passed |-> reviewers[r].passed, capsule |-> reviewers[r].capsule,
                       digest |-> reviewers[r].digest]
    /\ reviewers[r].pc \in {"idle", "receipt", "write", "hash", "stamp"}
    /\ reviewers[r].pc = "idle" => reviewers[r] = NoReview
    /\ reviewers[r].pc # "idle" =>
           /\ reviewers[r].case \in CaseIds
           /\ \E x : reviewers[r].capsule = {x} /\ IsCapsule(x)
           /\ files[reviewers[r].case]["capsule"] # {}
    /\ reviewers[r].pc = "hash" => review[reviewers[r].case] # {}
    /\ reviewers[r].pc = "stamp" => reviewers[r].digest # {}

\* Two reviewers of one case know of each other only through contested, and a
\* reviewer whose capsule got its stamp meanwhile was not alone.
Alone ==
    /\ \A c \in CaseIds : \A r, q \in Reviewers :
           r # q /\ Reviewing(r, c) /\ Reviewing(q, c) => c \in contested
    /\ \A c \in CaseIds : \A r \in Reviewers :
           Reviewing(r, c) /\ Stamped(c) => c \in contested

RInv ==
    /\ reviewers = [r \in Reviewers |-> reviewers[r]]
    /\ review = [c \in CaseIds |-> review[c]]
    /\ \A r \in Reviewers : ReviewFine(r)
    /\ \A c \in CaseIds : Small(review[c])
    /\ Alone

LEMMA StampedIs ==
    ASSUME NEW c
    PROVE  /\ \A x : files[c]["capsule"] = {x} => (Stamped(c) <=> x # Torn /\ x.review # {})
           /\ files[c]["capsule"] = {} => ~Stamped(c)
    BY DEF Stamped, Whole, Content

LEMMA SameStamp ==
    ASSUME NEW c, files'[c]["capsule"] = files[c]["capsule"]
    PROVE  Stamped(c)' = Stamped(c) /\ Content(c, "capsule")' = Content(c, "capsule")
<1>1. Content(c, "capsule")' = Content(c, "capsule")
    BY DEF Content
<1> QED
    BY <1>1 DEF Stamped

\* Hydration neither stamps a capsule nor touches one that is stamped or torn.
LEMMA HydrationStamps ==
    ASSUME HInv, HydrationMove, NEW c \in CaseIds
    PROVE  /\ Stamped(c)' => Stamped(c)
           /\ Stamped(c) \/ files[c]["capsule"] = {Torn} =>
                  files'[c]["capsule"] = files[c]["capsule"]
           /\ files[c]["capsule"] # {} => files'[c]["capsule"] # {}
<1>1. CASE files'[c]["capsule"] = files[c]["capsule"]
    BY <1>1, SameStamp
<1>2. ASSUME NEW w, IsCapsule(w), w.review = {}, files[c]["capsule"] \subseteq {w},
             files'[c]["capsule"] \in {{w}, {Torn}}
      PROVE  /\ ~Stamped(c)' /\ ~Stamped(c)
             /\ files[c]["capsule"] # {Torn} /\ files'[c]["capsule"] # {}
  <2>1. w # Torn
      BY <1>2, CapsulesWhole
  <2>2. files[c]["capsule"] = {} \/ files[c]["capsule"] = {w}
      BY <1>2
  <2>3. ~Stamped(c)
      BY <1>2, <2>2, StampedIs
  <2>4. ~Stamped(c)'
      BY <1>2 DEF Stamped, Whole, Content
  <2> QED
      BY <1>2, <2>1, <2>2, <2>3, <2>4
<1> QED
    BY <1>1, <1>2, CapsuleWritten

LEMMA RInvByHydration ==
    ASSUME HInv, RInv, HydrationMove, UNCHANGED reviewVars
    PROVE  RInv'
<1>1. reviewers' = reviewers /\ review' = review /\ contested' = contested
    BY DEF reviewVars
<1>2. ASSUME NEW r \in Reviewers PROVE ReviewFine(r)'
  <2>1. ReviewFine(r)
      BY DEF RInv
  <2>2. reviewers[r].pc # "idle" => files'[reviewers[r].case]["capsule"] # {}
      BY <2>1, HydrationStamps DEF ReviewFine
  <2> QED
      BY <1>1, <2>1, <2>2 DEF ReviewFine
<1>3. Alone'
    BY <1>1, HydrationStamps DEF RInv, Alone, Reviewing
<1> QED
    BY <1>1, <1>2, <1>3 DEF RInv

\* A reviewer goes on with the case it has, or gives it up.
LEMMA ReviewGoesOn ==
    ASSUME RInv, NEW r \in Reviewers, NEW v, reviewers' = [reviewers EXCEPT ![r] = v],
           ReviewFine(r)', contested' = contested,
           v = NoReview \/ (reviewers[r].pc # "idle" /\ v.case = reviewers[r].case),
           review' = [c \in CaseIds |-> review'[c]],
           \A c \in CaseIds : review'[c] = review[c] \/ \E x : review'[c] = {x},
           \A c \in CaseIds : \/ files'[c]["capsule"] = files[c]["capsule"]
                              \/ /\ Reviewing(r, c) /\ v = NoReview
                                 /\ \E x : files'[c]["capsule"] = {x}
    PROVE  RInv'
<1>1. reviewers' = [q \in Reviewers |-> IF q = r THEN v ELSE reviewers[q]]
    BY DEF RInv
<1>2. reviewers' = [q \in Reviewers |-> reviewers'[q]]
    BY <1>1
<1>3. ASSUME NEW q \in Reviewers PROVE ReviewFine(q)'
  <2>1. CASE q = r
      BY <2>1
  <2>2. CASE q # r
    <3>1. reviewers'[q] = reviewers[q] /\ ReviewFine(q)
        BY <1>1, <2>2 DEF RInv
    <3>2. reviewers[q].pc # "idle" =>
              /\ files'[reviewers[q].case]["capsule"] # {}
              /\ review[reviewers[q].case] # {} => review'[reviewers[q].case] # {}
        BY <3>1 DEF ReviewFine
    <3> QED
        BY <3>1, <3>2 DEF ReviewFine
  <2> QED
      BY <2>1, <2>2
<1>4. \A c \in CaseIds : Small(review'[c])
    BY DEF RInv, Small
<1>5. ASSUME NEW c \in CaseIds, NEW q \in Reviewers, Reviewing(q, c)'
      PROVE  Reviewing(q, c) /\ (q = r => v # NoReview)
    BY <1>1, <1>5 DEF Reviewing, NoReview
<1>6. ASSUME NEW c \in CaseIds, NEW q \in Reviewers, Reviewing(q, c)', Stamped(c)'
      PROVE  c \in contested
  <2>1. CASE files'[c]["capsule"] = files[c]["capsule"]
      BY <1>5, <1>6, <2>1, SameStamp DEF RInv, Alone
  <2>2. CASE Reviewing(r, c) /\ v = NoReview
      BY <1>5, <1>6, <2>2 DEF RInv, Alone
  <2> QED
      BY <2>1, <2>2
<1>7. Alone'
    BY <1>5, <1>6 DEF RInv, Alone
<1> QED
    BY <1>2, <1>3, <1>4, <1>7 DEF RInv

LEMMA HInvStays ==
    ASSUME HInv, UNCHANGED <<files, live, hydration>>
    PROVE  HInv'
<1>1. HydrationShape' /\ HydrationFine'
    BY DEF HInv, HydrationShape, HydrationFine, Here
<1> QED
    BY <1>1, FilesStay DEF HInv

\* A capsule that gets a stamp, or is torn, after hydration wrote it.
LEMMA StampKeeps ==
    ASSUME HInv, NEW c0 \in CaseIds, NEW x, x = Torn \/ (IsCapsule(x) /\ x.review # {}),
           files[c0]["capsule"] # {}, Edited(files', files, c0, "capsule", {x}),
           UNCHANGED <<live, hydration>>
    PROVE  /\ HInv'
           /\ \A c \in CaseIds :
                  files'[c]["capsule"] = IF c = c0 THEN {x} ELSE files[c]["capsule"]
<1>1. /\ Shaped(files', CaseIds, FileNames)
      /\ \A c \in CaseIds, f \in FileNames :
             files'[c][f] = IF c = c0 /\ f = "capsule" THEN {x} ELSE files[c][f]
  <2>1. "capsule" \in FileNames /\ Shaped(files, CaseIds, FileNames)
      BY FilePlaces DEF HInv
  <2>2. PICK new \in {files'} : TRUE
      OBVIOUS
  <2>3. Edited(new, files, c0, "capsule", {x})
      BY <2>2
  <2>4. /\ Shaped(new, CaseIds, FileNames)
        /\ \A c \in CaseIds, f \in FileNames :
               new[c][f] = IF c = c0 /\ f = "capsule" THEN {x} ELSE files[c][f]
      BY ONLY <2>1, <2>3, PlaceChanged, c0 \in CaseIds
  <2> QED
      BY <2>2, <2>4
<1>2. ASSUME NEW c \in CaseIds PROVE CaseFine(c)'
  <2>1. CaseFine(c)
      BY DEF HInv
  <2>2. CASE c # c0
      BY <1>1, <2>1, <2>2, CaseStays
  <2>3. CASE c = c0
    <3>1. /\ files'[c]["capsule"] = {x}
          /\ \A f \in FileNames \ {"capsule"} : files'[c][f] = files[c][f]
        BY <1>1, <2>3, FilePlaces
    <3>2. \A f \in FileNames : files'[c][f] # {} <=> files[c][f] # {}
        BY <2>3, <3>1
    <3>3. InOrder(c)'
        BY <2>1, <3>2, FileAt DEF CaseFine, InOrder
    <3>4. \A f \in FileNames : Small(files'[c][f])
        BY <2>1, <3>1 DEF CaseFine, Small
    <3>5. files'[c]["salt"] = files[c]["salt"]
        BY <3>1, FilePlaces
    <3>6. NoneTorn(c)' => DerivedFine(c)'
      <4>1. NoneTorn(c)' => NoneTorn(c)
          BY <3>1 DEF NoneTorn
      <4> QED
          BY <2>1, <3>1, <4>1, DerivedStays DEF CaseFine
    <3> QED
        BY <2>1, <3>1, <3>3, <3>4, <3>5, <3>6 DEF CaseFine
  <2> QED
      BY <2>2, <2>3
<1>3. HydrationShape'
    BY DEF HInv, HydrationShape
<1>4. HydrationFine'
  <2>1. ASSUME hydration.file # 0
        PROVE  /\ files'[Here]["timestamps"] = files[Here]["timestamps"]
               /\ \A j \in 1 .. 12 :
                      files[Here][FileOrder[j]] # {} => files'[Here][FileOrder[j]] # {}
    <3>1. Here \in CaseIds
        BY <2>1, CasePlaces DEF HInv, HydrationFine, Here
    <3>2. \A f \in FileNames : files[Here][f] # {} => files'[Here][f] # {}
        BY <1>1, <3>1
    <3> QED
        BY <1>1, <3>1, <3>2, FileAt, FilePlaces
  <2>2. Here' = Here
      BY DEF Here
  <2>3. hydration.file \in 0 .. 12
      BY DEF HInv, HydrationShape
  <2> QED
      BY <2>1, <2>2, <2>3 DEF HInv, HydrationFine
<1>5. \A c \in CaseIds :
          files'[c]["capsule"] = IF c = c0 THEN {x} ELSE files[c]["capsule"]
    BY <1>1, FilePlaces
<1> QED
    BY <1>1, <1>2, <1>3, <1>4, <1>5 DEF HInv

LEMMA ReviewPreserved ==
    ASSUME HInv, RInv, NEW r \in Reviewers, ReviewStep(r) \/ ReviewCrash(r)
    PROVE  /\ HInv' /\ RInv'
           /\ \A c \in CaseIds :
                  files'[c]["capsule"] = files[c]["capsule"] \/ Reviewing(r, c)
<1>1. ReviewFine(r) /\ reviewers = [q \in Reviewers |-> reviewers[q]]
      /\ review = [c \in CaseIds |-> review[c]]
    BY DEF RInv
<1>2. CASE BeginReview(r)
  <2>1. HInv' /\ UNCHANGED <<files, review>>
      BY <1>2, HInvStays DEF BeginReview, hydrationVars
  <2>2. PICK c0 \in CaseIds, passed \in BOOLEAN :
            /\ Whole(files[c0]["capsule"]) /\ ~Stamped(c0)
            /\ reviewers' = [reviewers EXCEPT ![r] =
                   [pc |-> "receipt", case |-> c0, passed |-> passed,
                    capsule |-> files[c0]["capsule"], digest |-> {}]]
            /\ contested' = IF \E q \in Reviewers : Reviewing(q, c0)
                            THEN contested \cup {c0} ELSE contested
      BY <1>2 DEF BeginReview
  <2>3. PICK x : files[c0]["capsule"] = {x} /\ IsCapsule(x)
    <3>1. CaseFine(c0) /\ files[c0]["capsule"] # {} /\ files[c0]["capsule"] # {Torn}
        BY <2>2 DEF HInv, Whole
    <3>2. Small(files[c0]["capsule"])
        BY <3>1, FilePlaces DEF CaseFine
    <3>3. PICK x : files[c0]["capsule"] = {x}
        BY <3>1, <3>2 DEF Small
    <3> QED
        BY <3>1, <3>3 DEF CaseFine
  <2>4. /\ reviewers' = [q \in Reviewers |-> reviewers'[q]]
        /\ reviewers'[r] = [pc |-> "receipt", case |-> c0, passed |-> passed,
                            capsule |-> {x}, digest |-> {}]
        /\ \A q \in Reviewers \ {r} : reviewers'[q] = reviewers[q]
      BY <1>1, <2>2, <2>3
  <2>5. ASSUME NEW q \in Reviewers PROVE ReviewFine(q)'
    <3>1. CASE q = r
        BY <2>1, <2>3, <2>4, <3>1 DEF ReviewFine
    <3>2. CASE q # r
      <4>1. ReviewFine(q) /\ reviewers'[q] = reviewers[q]
          BY <2>4, <3>2 DEF RInv
      <4> QED
          BY <2>1, <4>1 DEF ReviewFine
    <3> QED
        BY <3>1, <3>2
  <2>6. reviewers[r].pc = "idle"
      BY <1>2 DEF BeginReview, NoReview
  <2>7. \A c \in CaseIds : Stamped(c)' = Stamped(c)
      BY <2>1, SameStamp
  <2>8. \A c \in CaseIds : \A q \in Reviewers :
            Reviewing(q, c)' => (q = r /\ c = c0) \/ (q # r /\ Reviewing(q, c))
      BY <2>4 DEF Reviewing
  <2>9. contested \subseteq contested'
      BY <2>2
  <2>10. ASSUME NEW q \in Reviewers, Reviewing(q, c0) PROVE c0 \in contested'
      BY <2>2, <2>10
  <2>11. Alone'
      BY <2>2, <2>7, <2>8, <2>9, <2>10 DEF RInv, Alone
  <2> QED
      BY <2>1, <2>4, <2>5, <2>11 DEF RInv
<1>3. CASE CheckReview(r)
  <2>1. /\ HInv' /\ UNCHANGED <<files, review, contested>>
      BY <1>3, HInvStays DEF CheckReview, hydrationVars
  <2> DEFINE v == IF review[reviewers[r].case] \subseteq {Reviewed(r)}
                  THEN [reviewers[r] EXCEPT !.pc = "write"] ELSE NoReview
  <2>2. reviewers' = [reviewers EXCEPT ![r] = v] /\ reviewers[r].pc = "receipt"
      BY <1>3 DEF CheckReview
  <2>3. v = NoReview \/ v = [pc |-> "write", case |-> reviewers[r].case,
                             passed |-> reviewers[r].passed, capsule |-> reviewers[r].capsule,
                             digest |-> reviewers[r].digest]
      BY <1>1 DEF ReviewFine
  <2> HIDE DEF v
  <2>4. reviewers'[r] = v
      BY <1>1, <2>2
  <2>5. ReviewFine(r)'
      BY <1>1, <2>1, <2>2, <2>3, <2>4 DEF ReviewFine, NoReview
  <2>6. v = NoReview \/ (reviewers[r].pc # "idle" /\ v.case = reviewers[r].case)
      BY <2>2, <2>3
  <2>7. RInv'
      BY <1>1, <2>1, <2>2, <2>5, <2>6, ReviewGoesOn
  <2> QED
      BY <2>1, <2>7
<1>4. CASE WriteReview(r)
  <2>1. /\ HInv' /\ UNCHANGED <<files, contested>>
      BY <1>4, HInvStays DEF WriteReview, hydrationVars
  <2> DEFINE v == [reviewers[r] EXCEPT !.pc = "hash"]
  <2>2. /\ reviewers' = [reviewers EXCEPT ![r] = v] /\ reviewers[r].pc = "write"
        /\ review' = [review EXCEPT ![reviewers[r].case] = {Reviewed(r)}]
      BY <1>4 DEF WriteReview
  <2>3. v = [pc |-> "hash", case |-> reviewers[r].case,
             passed |-> reviewers[r].passed, capsule |-> reviewers[r].capsule,
             digest |-> reviewers[r].digest]
      BY <1>1 DEF ReviewFine
  <2> HIDE DEF v
  <2>4. reviewers'[r] = v
      BY <1>1, <2>2
  <2>5. /\ review' = [c \in CaseIds |-> review'[c]]
        /\ \A c \in CaseIds : review'[c] = review[c] \/ \E x : review'[c] = {x}
        /\ review'[reviewers[r].case] = {Reviewed(r)}
      BY <1>1, <2>2 DEF ReviewFine
  <2>6. ReviewFine(r)'
      BY <1>1, <2>1, <2>2, <2>3, <2>4, <2>5 DEF ReviewFine, NoReview
  <2>7. reviewers[r].pc # "idle" /\ v.case = reviewers[r].case
      BY <2>2, <2>3
  <2>8. RInv'
      BY <2>1, <2>2, <2>5, <2>6, <2>7, ReviewGoesOn
  <2> QED
      BY <2>1, <2>8
<1>5. CASE HashReview(r)
  <2>1. /\ HInv' /\ UNCHANGED <<files, review, contested>>
      BY <1>5, HInvStays DEF HashReview, hydrationVars
  <2> DEFINE v == [pc |-> "stamp", case |-> reviewers[r].case,
                   passed |-> reviewers[r].passed, capsule |-> reviewers[r].capsule,
                   digest |-> review[reviewers[r].case]]
  <2>2. reviewers' = [reviewers EXCEPT ![r] = v] /\ reviewers[r].pc = "hash"
    <3>1. reviewers' = [reviewers EXCEPT ![r] =
                            [reviewers[r] EXCEPT !.pc = "stamp",
                                                 !.digest = review[reviewers[r].case]]]
        BY <1>1, <1>5 DEF HashReview
    <3>2. v = [reviewers[r] EXCEPT !.pc = "stamp", !.digest = review[reviewers[r].case]]
      <4> DEFINE d == review[reviewers[r].case]
      <4>1. PICK pc, case, passed, capsule, digest :
                reviewers[r] = [pc |-> pc, case |-> case, passed |-> passed,
                                capsule |-> capsule, digest |-> digest]
          BY <1>1 DEF ReviewFine
      <4>2. v = [pc |-> "stamp", case |-> case, passed |-> passed, capsule |-> capsule,
                 digest |-> d]
          BY <4>1
      <4> HIDE DEF d, v
      <4>3. [reviewers[r] EXCEPT !.pc = "stamp", !.digest = d]
                = [pc |-> "stamp", case |-> case, passed |-> passed, capsule |-> capsule,
                   digest |-> d]
        <5>1. PICK y : y = [reviewers[r] EXCEPT !.pc = "stamp"]
            OBVIOUS
        <5>2. y = [pc |-> "stamp", case |-> case, passed |-> passed, capsule |-> capsule,
                   digest |-> digest]
            BY <4>1, <5>1
        <5>3. [reviewers[r] EXCEPT !.pc = "stamp", !.digest = d] = [y EXCEPT !.digest = d]
            BY <5>1
        <5> QED
            BY <5>2, <5>3
      <4> QED
          BY <4>2, <4>3 DEF d
    <3> HIDE DEF v
    <3> QED
        BY <1>5, <3>1, <3>2 DEF HashReview
  <2>3. reviewers'[r] = v
      BY <1>1, <2>2
  <2>4. ReviewFine(r)'
      BY <1>1, <2>1, <2>2, <2>3 DEF ReviewFine, NoReview
  <2>5. v.case = reviewers[r].case
      OBVIOUS
  <2> HIDE DEF v
  <2>6. RInv'
      BY <1>1, <2>1, <2>2, <2>4, <2>5, ReviewGoesOn
  <2> QED
      BY <2>1, <2>6
<1>6. ASSUME NEW x, x = Torn \/ (IsCapsule(x) /\ x.review # {}),
             reviewers[r].pc = "stamp", reviewers' = [reviewers EXCEPT ![r] = NoReview],
             files' = [files EXCEPT ![reviewers[r].case]["capsule"] = {x}],
             UNCHANGED <<live, hydration, review, contested>>
      PROVE  /\ HInv' /\ RInv'
             /\ \A c \in CaseIds :
                    files'[c]["capsule"] = files[c]["capsule"] \/ Reviewing(r, c)
  <2>1. reviewers[r].case \in CaseIds /\ files[reviewers[r].case]["capsule"] # {}
      BY <1>1, <1>6 DEF ReviewFine
  <2>2. Edited(files', files, reviewers[r].case, "capsule", {x})
      BY <1>6 DEF Edited
  <2>3. /\ HInv'
        /\ \A c \in CaseIds :
               files'[c]["capsule"] = IF c = reviewers[r].case THEN {x} ELSE files[c]["capsule"]
      BY <1>6, <2>1, <2>2, StampKeeps
  <2>4. Reviewing(r, reviewers[r].case)
      BY <1>6 DEF Reviewing
  <2>5. reviewers'[r] = NoReview
      BY <1>1, <1>6
  <2>6. ReviewFine(r)'
      BY <2>5 DEF ReviewFine, NoReview
  <2>7. RInv'
      BY <1>1, <1>6, <2>3, <2>4, <2>6, ReviewGoesOn
  <2> QED
      BY <2>3, <2>4, <2>7
<1>7. CASE StampCapsule(r)
  <2>1. reviewers[r].pc = "stamp"
      BY <1>7 DEF StampCapsule
  <2>2. PICK x : reviewers[r].capsule = {x} /\ IsCapsule(x)
      BY <1>1, <2>1 DEF ReviewFine
  <2>3. PICK y : y = [commitment |-> x.commitment, sources |-> x.sources,
                      provisional |-> x.provisional, review |-> reviewers[r].digest]
      OBVIOUS
  <2>4. [x EXCEPT !.review = reviewers[r].digest] = y
      BY <2>2, <2>3 DEF IsCapsule
  <2>5. {[capsule EXCEPT !.review = reviewers[r].digest] : capsule \in reviewers[r].capsule} = {y}
      BY <2>2, <2>4
  <2>6. IsCapsule(y) /\ y.review # {}
      BY <1>1, <2>1, <2>3 DEF IsCapsule, ReviewFine
  <2> QED
      BY <1>6, <1>7, <2>5, <2>6 DEF StampCapsule
<1>8. CASE ReviewCrash(r)
  <2>1. reviewers' = [reviewers EXCEPT ![r] = NoReview] /\ UNCHANGED <<live, hydration, contested>>
      BY <1>8 DEF ReviewCrash
  <2>2. CASE /\ UNCHANGED files /\ review' = [c \in CaseIds |-> review'[c]]
             /\ \A c \in CaseIds : review'[c] = review[c] \/ \E x : review'[c] = {x}
    <3>1. HInv'
        BY <2>1, <2>2, HInvStays
    <3>2. reviewers'[r] = NoReview
        BY <1>1, <2>1
    <3>3. ReviewFine(r)'
        BY <3>2 DEF ReviewFine, NoReview
    <3>4. RInv'
        BY <2>1, <2>2, <3>3, ReviewGoesOn
    <3> QED
        BY <2>2, <3>1, <3>4
  <2>3. CASE UNCHANGED <<files, review>>
      BY <1>1, <2>2, <2>3
  <2>4. CASE UNCHANGED files /\ reviewers[r].pc = "write"
             /\ review' = [review EXCEPT ![reviewers[r].case] = {Torn}]
    <3>1. /\ review' = [c \in CaseIds |-> review'[c]]
          /\ \A c \in CaseIds : review'[c] = review[c] \/ \E x : review'[c] = {x}
        BY <1>1, <2>4
    <3> QED
        BY <2>2, <2>4, <3>1
  <2>5. CASE UNCHANGED review /\ reviewers[r].pc = "stamp"
             /\ files' = [files EXCEPT ![reviewers[r].case]["capsule"] = {Torn}]
      BY <1>6, <2>1, <2>5
  <2> QED
      BY <1>8, <2>3, <2>4, <2>5 DEF ReviewCrash
<1> QED
    BY <1>2, <1>3, <1>4, <1>5, <1>7, <1>8 DEF ReviewStep

-----------------------------------------------------------------------------
(* The inductive invariant of the stages                                   *)

Producers == {"generation", "stages"}

Owns(p, s) == s = "generation" <=> p = "generation"

\* The paths of a run stay new until it ends.
ProducerFine(p) ==
    /\ producers[p] = [pc |-> producers[p].pc, at |-> producers[p].at,
                       stage |-> producers[p].stage, capsule |-> producers[p].capsule,
                       proposal |-> producers[p].proposal]
    /\ producers[p].pc \in {"idle", "case", "run", "receipt"}
    /\ producers[p].pc # "idle" => producers[p].at \in 1 .. Len(Cases)
    /\ producers[p].pc \in {"run", "receipt"} =>
           /\ producers[p].stage \in Stages /\ Owns(p, producers[p].stage)
           /\ Small(producers[p].capsule)
           /\ receipts[Cases[producers[p].at]][producers[p].stage] = {}
    /\ producers[p].pc = "run" =>
           artifacts[Cases[producers[p].at]][producers[p].stage] = {}

StageFine ==
    \A c \in CaseIds :
        /\ \A s \in Stages : Small(artifacts[c][s]) /\ Small(receipts[c][s])
        /\ \A x \in artifacts[c]["execution"] : x.ran \in artifacts[c]["generation"]

PInv ==
    /\ producers = [p \in Producers |-> producers[p]]
    /\ Shaped(artifacts, CaseIds, Stages) /\ Shaped(receipts, CaseIds, Stages)
    /\ \A p \in Producers : ProducerFine(p)
    /\ StageFine

\* What a step of a producer does to a path.
PathKept(c, s) ==
    /\ artifacts'[c][s] = artifacts[c][s] \/ (artifacts[c][s] = {} /\ receipts[c][s] = {})
    /\ receipts'[c][s] = receipts[c][s] \/ (receipts[c][s] = {} /\ Signing(c, s))
    /\ Signing(c, s)' => Signing(c, s) \/ artifacts[c][s] = {}

PathsKept == \A c \in CaseIds : \A s \in Stages : PathKept(c, s)

\* One producer moves, and changes only what its stages write.
LEMMA ProducerMoves ==
    ASSUME PInv, NEW p \in Producers, NEW v, producers' = [producers EXCEPT ![p] = v],
           ProducerFine(p)', StageFine',
           Shaped(artifacts', CaseIds, Stages), Shaped(receipts', CaseIds, Stages),
           \A c \in CaseIds : \A s \in Stages :
               \/ artifacts'[c][s] = artifacts[c][s] /\ receipts'[c][s] = receipts[c][s]
               \/ Owns(p, s)
    PROVE  /\ PInv' /\ producers'[p] = v
           /\ \A q \in Producers \ {p} : producers'[q] = producers[q]
<1>1. /\ producers' = [q \in Producers |-> producers'[q]] /\ producers'[p] = v
      /\ \A q \in Producers \ {p} : producers'[q] = producers[q]
    BY DEF PInv
<1>2. ASSUME NEW q \in Producers PROVE ProducerFine(q)'
  <2>1. CASE q = p
      BY <2>1
  <2>2. CASE q # p
    <3>1. ProducerFine(q) /\ producers'[q] = producers[q]
        BY <1>1, <2>2 DEF PInv
    <3>2. ASSUME producers[q].pc \in {"run", "receipt"}
          PROVE  LET c == Cases[producers[q].at]
                     s == producers[q].stage
                 IN  artifacts'[c][s] = artifacts[c][s] /\ receipts'[c][s] = receipts[c][s]
      <4>1. /\ Cases[producers[q].at] \in CaseIds /\ producers[q].stage \in Stages
            /\ Owns(q, producers[q].stage)
          BY <3>1, <3>2, CasePlaces DEF ProducerFine
      <4>2. ~Owns(p, producers[q].stage)
          BY <2>2, <4>1 DEF Owns, Producers
      <4> QED
          BY <4>1, <4>2
    <3> QED
        BY <3>1, <3>2 DEF ProducerFine
  <2> QED
      BY <2>1, <2>2
<1>3. Shaped(artifacts, CaseIds, Stages)' /\ Shaped(receipts, CaseIds, Stages)'
    BY DEF Shaped
<1> QED
    BY <1>1, <1>2, <1>3 DEF PInv

\* A step that leaves the paths alone and signs for nobody new.
LEMMA PathsStay ==
    ASSUME PInv, NEW p \in Producers, NEW v, producers' = [producers EXCEPT ![p] = v],
           ProducerFine(p)', UNCHANGED <<artifacts, receipts>>, v.pc # "receipt"
    PROVE  PInv' /\ PathsKept
<1>1. StageFine'
    BY DEF PInv, StageFine
<1>2. /\ PInv' /\ producers'[p] = v
      /\ \A q \in Producers \ {p} : producers'[q] = producers[q]
    BY <1>1, ProducerMoves DEF PInv
<1>3. DOMAIN producers = Producers /\ DOMAIN producers' = Producers
    BY <1>2 DEF PInv
<1>4. ASSUME NEW c \in CaseIds, NEW s \in Stages, Signing(c, s)' PROVE Signing(c, s)
    BY <1>2, <1>3, <1>4 DEF Signing
<1> QED
    BY <1>2, <1>4 DEF PathsKept, PathKept

ProducerMove ==
    \/ ProduceStep
    \/ \E p \in DOMAIN producers :
           ContainerFails(p) \/ WriteProducerReceipt(p, 1) \/ ProducerCrash(p)

LEMMA NoRunFine ==
    ASSUME NEW p, producers'[p] = NoRun
    PROVE  ProducerFine(p)'
    BY DEF ProducerFine, NoRun

LEMMA WholeSmall ==
    ASSUME HInv, NEW c \in CaseIds
    PROVE  Small(files[c]["capsule"])
    BY FilePlaces DEF HInv, CaseFine

LEMMA FirstOfCase ==
    ASSUME NEW i
    PROVE  [NoRun EXCEPT !.pc = "case", !.at = i]
               = [pc |-> "case", at |-> i, stage |-> "none", capsule |-> {}, proposal |-> {}]
<1>1. PICK y : y = [NoRun EXCEPT !.pc = "case"]
    OBVIOUS
<1>2. y = [pc |-> "case", at |-> 0, stage |-> "none", capsule |-> {}, proposal |-> {}]
    BY <1>1 DEF NoRun
<1>3. [NoRun EXCEPT !.pc = "case", !.at = i] = [y EXCEPT !.at = i]
    BY <1>1
<1> QED
    BY <1>2, <1>3

LEMMA BeginsPreserved ==
    ASSUME HInv, PInv, BeginGeneration \/ BeginStages \/ EnterCase
    PROVE  PInv' /\ PathsKept
<1>0. /\ "generation" \in Producers /\ "stages" \in Producers
      /\ "generation" \in Stages /\ "execution" \in Stages
      /\ Owns("generation", "generation") /\ Owns("stages", "execution")
    BY DEF Producers, Stages, Owns
<1>1. CASE BeginGeneration
  <2>1. PICK i \in DOMAIN Cases, expected \in Proposals :
            /\ NewPaths(Cases[i], "generation")
            /\ producers' = [producers EXCEPT !["generation"] =
                   [pc |-> "run", at |-> i, stage |-> "generation",
                    capsule |-> files[Cases[i]]["capsule"], proposal |-> {expected}]]
      BY <1>1 DEF BeginGeneration
  <2> DEFINE v == [pc |-> "run", at |-> i, stage |-> "generation",
                   capsule |-> files[Cases[i]]["capsule"], proposal |-> {expected}]
  <2>2. UNCHANGED <<artifacts, receipts>> /\ v.pc # "receipt"
      BY <1>1 DEF BeginGeneration
  <2>3. producers'["generation"] = v
      BY <1>0, <2>1 DEF PInv
  <2>4. i \in 1 .. Len(Cases) /\ Small(files[Cases[i]]["capsule"])
      BY CasePlaces, WholeSmall
  <2>5. ProducerFine("generation")'
    <3>1. /\ artifacts'[Cases[i]]["generation"] = {} /\ receipts'[Cases[i]]["generation"] = {}
        BY <2>1, <2>2 DEF NewPaths
    <3>2. PICK capsule, proposal :
              /\ producers'["generation"] = [pc |-> "run", at |-> i, stage |-> "generation",
                                              capsule |-> capsule, proposal |-> proposal]
              /\ Small(capsule)
        BY <2>3, <2>4
    <3> QED
        BY ONLY <1>0, <2>4, <3>1, <3>2 DEF ProducerFine
  <2> HIDE DEF v
  <2> QED
      BY <1>0, <2>1, <2>2, <2>5, PathsStay DEF v
<1>2. CASE BeginStages
  <2> DEFINE v == [pc |-> "case", at |-> 1, stage |-> "none", capsule |-> {}, proposal |-> {}]
  <2>1. producers' = [producers EXCEPT !["stages"] = v] /\ UNCHANGED <<artifacts, receipts>>
      BY <1>2, FirstOfCase DEF BeginStages
  <2>2. producers'["stages"] = v
      BY <1>0, <2>1 DEF PInv
  <2>3. ProducerFine("stages")'
      BY <2>2, CasePlaces DEF ProducerFine
  <2>4. v.pc # "receipt"
      OBVIOUS
  <2> HIDE DEF v
  <2> QED
      BY <1>0, <2>1, <2>3, <2>4, PathsStay
<1>3. CASE EnterCase
  <2>1. ProducerFine("stages") /\ producers["stages"].pc = "case"
      BY <1>0, <1>3 DEF EnterCase, PInv
  <2> DEFINE i == producers["stages"].at
             v == [pc |-> "run", at |-> i, stage |-> "execution",
                   capsule |-> files[Cases[i]]["capsule"],
                   proposal |-> artifacts[Cases[i]]["generation"]]
  <2>2. UNCHANGED <<artifacts, receipts>>
      BY <1>3 DEF EnterCase
  <2>3. \/ producers' = [producers EXCEPT !["stages"] = NoRun]
        \/ producers' = [producers EXCEPT !["stages"] = v] /\ NewPaths(Cases[i], "execution")
      BY <1>3 DEF EnterCase
  <2>4. CASE producers' = [producers EXCEPT !["stages"] = NoRun]
    <3>1. producers'["stages"] = NoRun
        BY <1>0, <2>4 DEF PInv
    <3>2. NoRun.pc # "receipt"
        BY DEF NoRun
    <3> QED
        BY <1>0, <2>2, <2>4, <3>1, <3>2, NoRunFine, PathsStay
  <2>5. CASE producers' = [producers EXCEPT !["stages"] = v] /\ NewPaths(Cases[i], "execution")
    <3>1. producers'["stages"] = v
        BY <1>0, <2>5 DEF PInv
    <3>2. i \in 1 .. Len(Cases)
        BY <2>1 DEF ProducerFine
    <3>3. Small(files[Cases[i]]["capsule"])
        BY <3>2, CasePlaces, WholeSmall
    <3>4. ProducerFine("stages")'
        BY <1>0, <2>2, <2>5, <3>1, <3>2, <3>3 DEF ProducerFine, NewPaths
    <3>5. v.pc # "receipt"
        OBVIOUS
    <3> HIDE DEF v
    <3> QED
        BY <1>0, <2>2, <2>5, <3>4, <3>5, PathsStay
  <2> QED
      BY <2>3, <2>4, <2>5
<1> QED
    BY <1>1, <1>2, <1>3

LEMMA EndsPreserved ==
    ASSUME PInv, NEW p \in Producers, producers' = [producers EXCEPT ![p] = NoRun],
           UNCHANGED <<artifacts, receipts>>
    PROVE  PInv' /\ PathsKept
<1>1. producers'[p] = NoRun
    BY DEF PInv
<1>2. NoRun.pc # "receipt"
    BY DEF NoRun
<1> QED
    BY <1>1, <1>2, NoRunFine, PathsStay

\* A receipt is written, or torn, and the run goes on without it.
Receives(c0, s0, w) ==
    \A c \in CaseIds, s \in Stages :
        receipts'[c][s] = IF c = c0 /\ s = s0 THEN w ELSE receipts[c][s]

LEMMA Signs ==
    ASSUME PInv, NEW p \in Producers, producers[p].pc = "receipt", UNCHANGED artifacts,
           NEW c0, NEW s0, c0 = Cases[producers[p].at], s0 = producers[p].stage,
           NEW w, Small(w), receipts' = [receipts EXCEPT ![c0][s0] = w],
           NEW v, producers' = [producers EXCEPT ![p] = v], v.pc # "receipt",
           Receives(c0, s0, w) => ProducerFine(p)'
    PROVE  PInv' /\ PathsKept
<1>1. ProducerFine(p)
    BY DEF PInv
<1>2. c0 \in CaseIds /\ s0 \in Stages /\ Owns(p, s0) /\ receipts[c0][s0] = {}
    BY <1>1, CasePlaces DEF ProducerFine
<1>3. /\ Shaped(receipts', CaseIds, Stages)
      /\ \A c \in CaseIds, s \in Stages :
             receipts'[c][s] = IF c = c0 /\ s = s0 THEN w ELSE receipts[c][s]
  <2>1. PICK new : new = receipts'
      OBVIOUS
  <2>2. Edited(new, receipts, c0, s0, w) /\ Shaped(receipts, CaseIds, Stages)
      BY <2>1 DEF Edited, PInv
  <2>3. /\ Shaped(new, CaseIds, Stages)
        /\ \A c \in CaseIds, s \in Stages :
               new[c][s] = IF c = c0 /\ s = s0 THEN w ELSE receipts[c][s]
      BY ONLY <1>2, <2>2, PlaceChanged
  <2> QED
      BY <2>1, <2>3
<1>4. StageFine'
    BY <1>3 DEF PInv, StageFine
<1>5. /\ PInv' /\ producers'[p] = v
      /\ \A q \in Producers \ {p} : producers'[q] = producers[q]
  <2>1. \A c \in CaseIds : \A s \in Stages :
            \/ artifacts'[c][s] = artifacts[c][s] /\ receipts'[c][s] = receipts[c][s]
            \/ Owns(p, s)
      BY <1>2, <1>3
  <2>2. Shaped(artifacts', CaseIds, Stages)
      BY DEF PInv
  <2>3. ProducerFine(p)'
      BY <1>3 DEF Receives
  <2> QED
      BY <1>3, <1>4, <2>1, <2>2, <2>3, ProducerMoves
<1>6. DOMAIN producers = Producers /\ DOMAIN producers' = Producers
    BY <1>5 DEF PInv
<1>7. \A c \in CaseIds : \A s \in Stages : Signing(c, s)' => Signing(c, s)
    BY <1>5, <1>6 DEF Signing
<1>8. Signing(c0, s0)
    BY <1>6 DEF Signing
<1>9. PathsKept
    BY <1>2, <1>3, <1>7, <1>8 DEF PathsKept, PathKept
<1> QED
    BY <1>5, <1>9

LEMMA CrashPreserved ==
    ASSUME PInv, NEW p \in Producers, ProducerCrash(p)
    PROVE  PInv' /\ PathsKept
<1>1. producers' = [producers EXCEPT ![p] = NoRun] /\ UNCHANGED artifacts
    BY DEF ProducerCrash
<1>2. CASE UNCHANGED receipts
    BY <1>1, <1>2, EndsPreserved
<1>3. CASE /\ producers[p].pc = "receipt"
           /\ receipts' = [receipts EXCEPT ![Cases[producers[p].at]][producers[p].stage] = {Torn}]
  <2>1. PICK c0, s0 : c0 = Cases[producers[p].at] /\ s0 = producers[p].stage
      OBVIOUS
  <2>2. producers'[p] = NoRun
      BY <1>1 DEF PInv
  <2>3. NoRun.pc # "receipt"
      BY DEF NoRun
  <2>4. PICK w : w = {Torn} /\ Small(w)
      BY SmallOne
  <2>5. receipts' = [receipts EXCEPT ![c0][s0] = w]
      BY <1>3, <2>1, <2>4
  <2>6. ProducerFine(p)'
      BY <2>2, NoRunFine
  <2>7. PICK v : v = NoRun
      OBVIOUS
  <2>8. /\ producers' = [producers EXCEPT ![p] = v] /\ v.pc # "receipt"
        /\ producers[p].pc = "receipt" /\ UNCHANGED artifacts
      BY <1>1, <1>3, <2>3, <2>7
  <2>9. Small(w) /\ (Receives(c0, s0, w) => ProducerFine(p)')
      BY <2>4, <2>6
  <2> QED
      BY <2>1, <2>5, <2>8, <2>9, Signs
<1> QED
    BY <1>2, <1>3 DEF ProducerCrash

LEMMA RunPreserved ==
    ASSUME PInv, NEW p \in Producers, RunContainer(p)
    PROVE  PInv' /\ PathsKept
<1>1. ProducerFine(p) /\ producers[p].pc = "run" /\ UNCHANGED receipts
    BY DEF PInv, RunContainer
<1>2. PICK c0, s0 : c0 = Cases[producers[p].at] /\ s0 = producers[p].stage
    OBVIOUS
<1>3. /\ c0 \in CaseIds /\ s0 \in Stages /\ Owns(p, s0)
      /\ receipts[c0][s0] = {} /\ artifacts[c0][s0] = {}
    BY <1>1, <1>2, CasePlaces DEF ProducerFine
<1>4. PICK made \in Made(c0, s0) : artifacts' = [artifacts EXCEPT ![c0][s0] = {made}]
    BY <1>2 DEF RunContainer
<1>5. /\ Shaped(artifacts', CaseIds, Stages)
      /\ \A c \in CaseIds, s \in Stages :
             artifacts'[c][s] = IF c = c0 /\ s = s0 THEN {made} ELSE artifacts[c][s]
  <2>1. PICK new : new = artifacts'
      OBVIOUS
  <2>2. Edited(new, artifacts, c0, s0, {made}) /\ Shaped(artifacts, CaseIds, Stages)
      BY <1>4, <2>1 DEF Edited, PInv
  <2>3. /\ Shaped(new, CaseIds, Stages)
        /\ \A c \in CaseIds, s \in Stages :
               new[c][s] = IF c = c0 /\ s = s0 THEN {made} ELSE artifacts[c][s]
      BY ONLY <1>3, <2>2, PlaceChanged
  <2> QED
      BY <2>1, <2>3
<1>6. StageFine'
  <2>1. "generation" \in Stages /\ "execution" \in Stages
      BY DEF Stages
  <2>2. \A c \in CaseIds : \A s \in Stages : Small(artifacts'[c][s]) /\ Small(receipts'[c][s])
      BY <1>1, <1>5, SmallOne DEF PInv, StageFine
  <2>3. ASSUME NEW c \in CaseIds, NEW x \in artifacts'[c]["execution"]
        PROVE  x.ran \in artifacts'[c]["generation"]
    <3>1. CASE c # c0 \/ s0 = "evaluation"
        BY <1>5, <2>1, <2>3, <3>1 DEF PInv, StageFine
    <3>2. CASE c = c0 /\ s0 = "execution"
      <4>1. x = made /\ made \in [ran : artifacts[c]["generation"]]
          BY <1>4, <1>5, <2>1, <2>3, <3>2 DEF Made
      <4>2. artifacts'[c]["generation"] = artifacts[c]["generation"]
          BY <1>5, <2>1, <3>2
      <4> QED
          BY <4>1, <4>2
    <3>3. CASE c = c0 /\ s0 = "generation"
      <4>1. x \in artifacts[c]["execution"] /\ artifacts[c]["generation"] = {}
          BY <1>3, <1>5, <2>1, <2>3, <3>3
      <4> QED
          BY <4>1 DEF PInv, StageFine
    <3> QED
        BY <1>3, <3>1, <3>2, <3>3 DEF Stages
  <2> QED
      BY <2>2, <2>3 DEF StageFine
<1>7. PICK capsule, proposal :
          /\ producers[p] = [pc |-> "run", at |-> producers[p].at, stage |-> s0,
                             capsule |-> capsule, proposal |-> proposal]
          /\ Small(capsule)
    BY <1>1, <1>2 DEF ProducerFine
<1>8. PICK v : v = [pc |-> "receipt", at |-> producers[p].at, stage |-> s0,
                    capsule |-> capsule, proposal |-> proposal]
    OBVIOUS
<1>9. producers' = [producers EXCEPT ![p] = v]
  <2>1. v = [producers[p] EXCEPT !.pc = "receipt"]
      BY <1>7, <1>8
  <2>2. producers' = [producers EXCEPT ![p] = [producers[p] EXCEPT !.pc = "receipt"]]
      BY DEF RunContainer
  <2> QED
      BY ONLY <2>1, <2>2
<1>10. producers'[p] = v
    BY <1>9 DEF PInv
<1>11. ProducerFine(p)'
  <2>1. receipts'[Cases[producers[p].at]][s0] = {} /\ producers[p].at \in 1 .. Len(Cases)
      BY <1>1, <1>2, <1>3 DEF ProducerFine
  <2> QED
      BY ONLY <1>3, <1>7, <1>8, <1>10, <2>1 DEF ProducerFine
<1>12. \A c \in CaseIds : \A s \in Stages :
           \/ artifacts'[c][s] = artifacts[c][s] /\ receipts'[c][s] = receipts[c][s]
           \/ Owns(p, s)
    BY <1>1, <1>3, <1>5
<1>13. /\ PInv' /\ producers'[p] = v
       /\ \A q \in Producers \ {p} : producers'[q] = producers[q]
  <2>1. Shaped(receipts', CaseIds, Stages)
      BY <1>1 DEF PInv
  <2> QED
      BY <1>5, <1>6, <1>9, <1>11, <1>12, <2>1, ProducerMoves
<1>14. DOMAIN producers = Producers /\ DOMAIN producers' = Producers
    BY <1>13 DEF PInv
<1>15. ASSUME NEW c \in CaseIds, NEW s \in Stages, Signing(c, s)'
       PROVE  Signing(c, s) \/ artifacts[c][s] = {}
  <2>1. PICK q \in Producers : /\ producers'[q].pc = "receipt"
                               /\ Cases[producers'[q].at] = c /\ producers'[q].stage = s
      BY <1>14, <1>15 DEF Signing
  <2>2. CASE q = p
      BY <1>2, <1>3, <1>8, <1>10, <2>1, <2>2
  <2>3. CASE q # p
      BY <1>13, <1>14, <2>1, <2>3 DEF Signing
  <2> QED
      BY <2>2, <2>3
<1>16. PathsKept
    BY <1>1, <1>3, <1>5, <1>15 DEF PathsKept, PathKept
<1> QED
    BY <1>13, <1>16

LEMMA ReceiptPreserved ==
    ASSUME PInv, NEW p \in Producers, NEW exit_code, WriteProducerReceipt(p, exit_code)
    PROVE  PInv' /\ PathsKept
<1>1. ProducerFine(p) /\ producers[p].pc = "receipt" /\ UNCHANGED artifacts
    BY DEF PInv, WriteProducerReceipt
<1>2. PICK i, c0, s0 : i = producers[p].at /\ c0 = Cases[i] /\ s0 = producers[p].stage
    OBVIOUS
<1>3. /\ i \in 1 .. Len(Cases) /\ c0 \in CaseIds /\ s0 \in Stages /\ Owns(p, s0)
      /\ receipts[c0][s0] = {}
    BY <1>1, <1>2, CasePlaces DEF ProducerFine
<1>4. PICK w : Small(w) /\ receipts' = [receipts EXCEPT ![c0][s0] = w]
  <2> DEFINE receipt(capsule, artifact) ==
                 [capsule |-> capsule, artifact |-> artifact, exit_code |-> exit_code,
                  proposal |-> IF s0 = "evaluation" THEN 0
                               ELSE CHOOSE d \in producers[p].proposal : TRUE]
             made == {receipt(capsule, artifact) :
                          capsule \in producers[p].capsule, artifact \in artifacts[c0][s0]}
  <2>1. receipts' = [receipts EXCEPT ![c0][s0] = made]
      BY <1>2 DEF WriteProducerReceipt
  <2>2. Small(producers[p].capsule) /\ Small(artifacts[c0][s0])
      BY <1>1, <1>3 DEF ProducerFine, PInv, StageFine
  <2> HIDE DEF receipt
  <2>3. Small(made)
    <3>1. CASE producers[p].capsule = {} \/ artifacts[c0][s0] = {}
        BY <3>1 DEF Small
    <3>2. ASSUME NEW a, NEW b, producers[p].capsule = {a}, artifacts[c0][s0] = {b}
          PROVE  Small(made)
      <4>1. made = {receipt(a, b)}
          BY <3>2
      <4> HIDE DEF made
      <4> QED
          BY <4>1 DEF Small
    <3> QED
        BY <2>2, <3>1, <3>2 DEF Small
  <2> HIDE DEF made
  <2> QED
      BY <2>1, <2>3
<1>7. PICK v : v = AfterReceipt(p) /\ producers' = [producers EXCEPT ![p] = v]
    BY DEF WriteProducerReceipt
<1>8. producers'[p] = v
    BY <1>7 DEF PInv
<1>9. ASSUME Receives(c0, s0, w)
      PROVE  ProducerFine(p)'
  <2>1. CASE v = NoRun
      BY <1>8, <2>1, NoRunFine
  <2>2. CASE v = [NoRun EXCEPT !.pc = "case", !.at = i + 1] /\ i # Len(Cases)
    <3>1. v = [pc |-> "case", at |-> i + 1, stage |-> "none", capsule |-> {}, proposal |-> {}]
        BY <2>2, FirstOfCase
    <3>2. i + 1 \in 1 .. Len(Cases)
        BY <1>3, <2>2, CasePlaces
    <3> QED
        BY ONLY <1>8, <3>1, <3>2 DEF ProducerFine
  <2>3. CASE /\ v = [producers[p] EXCEPT !.pc = "run", !.stage = "evaluation", !.proposal = {}]
             /\ p # "generation" /\ s0 = "execution" /\ NewPaths(c0, "evaluation")
    <3>1. PICK capsule, proposal :
              /\ producers[p] = [pc |-> "receipt", at |-> i, stage |-> s0,
                                 capsule |-> capsule, proposal |-> proposal]
              /\ Small(capsule)
        BY <1>1, <1>2 DEF ProducerFine
    <3>2. v = [pc |-> "run", at |-> i, stage |-> "evaluation", capsule |-> capsule,
               proposal |-> {}]
      <4>1. PICK y : y = [producers[p] EXCEPT !.pc = "run"]
          OBVIOUS
      <4>2. y = [pc |-> "run", at |-> i, stage |-> s0, capsule |-> capsule,
                 proposal |-> proposal]
          BY <3>1, <4>1
      <4>3. PICK z : z = [y EXCEPT !.stage = "evaluation"]
          OBVIOUS
      <4>4. z = [pc |-> "run", at |-> i, stage |-> "evaluation", capsule |-> capsule,
                 proposal |-> proposal]
          BY <4>2, <4>3
      <4>5. v = [z EXCEPT !.proposal = {}]
          BY <2>3, <4>1, <4>3
      <4> QED
          BY <4>4, <4>5
    <3>3. "evaluation" \in Stages /\ "evaluation" # s0 /\ Owns(p, "evaluation")
        BY <2>3 DEF Stages, Owns
    <3>4. /\ receipts'[Cases[i]]["evaluation"] = {}
          /\ artifacts'[Cases[i]]["evaluation"] = {}
        BY <1>1, <1>2, <1>3, <1>9, <2>3, <3>3 DEF NewPaths, Receives
    <3> QED
        BY ONLY <1>3, <1>8, <3>1, <3>2, <3>3, <3>4 DEF ProducerFine
  <2> QED
      BY <1>2, <1>7, <2>1, <2>2, <2>3 DEF AfterReceipt
<1>10. v.pc # "receipt"
  <2>1. NoRun.pc # "receipt" /\ [NoRun EXCEPT !.pc = "case", !.at = i + 1].pc # "receipt"
      BY FirstOfCase DEF NoRun
  <2> DEFINE next == [producers[p] EXCEPT !.pc = "run", !.stage = "evaluation", !.proposal = {}]
  <2>2. next.pc # "receipt"
      BY <1>1 DEF ProducerFine
  <2> HIDE DEF next
  <2>3. v = NoRun \/ v = next \/ v = [NoRun EXCEPT !.pc = "case", !.at = i + 1]
      BY <1>2, <1>7 DEF AfterReceipt, next
  <2> QED
      BY <2>1, <2>2, <2>3
<1>11. c0 = Cases[producers[p].at] /\ UNCHANGED artifacts /\ producers[p].pc = "receipt"
    BY <1>1, <1>2
<1>12. Receives(c0, s0, w) => ProducerFine(p)'
    BY <1>9
<1> QED
    BY <1>2, <1>4, <1>7, <1>10, <1>11, <1>12, Signs

LEMMA ProducerPreserved ==
    ASSUME HInv, PInv, ProducerMove
    PROVE  PInv' /\ PathsKept
<1>1. DOMAIN producers = Producers
    BY DEF PInv
<1>2. CASE BeginGeneration \/ BeginStages \/ EnterCase
    BY <1>2, BeginsPreserved
<1>3. ASSUME NEW p \in Producers, ContainerFails(p) \/ ProducerCrash(p)
      PROVE  PInv' /\ PathsKept
    BY <1>3, EndsPreserved, CrashPreserved DEF ContainerFails
<1>4. ASSUME NEW p \in Producers, RunContainer(p)
      PROVE  PInv' /\ PathsKept
    BY <1>4, RunPreserved
<1>5. ASSUME NEW p \in Producers, WriteProducerReceipt(p, 0) \/ WriteProducerReceipt(p, 1)
      PROVE  PInv' /\ PathsKept
    BY <1>5, ReceiptPreserved
<1> QED
    BY <1>1, <1>2, <1>3, <1>4, <1>5 DEF ProducerMove, ProduceStep

-----------------------------------------------------------------------------
(* The whole                                                               *)

BInv ==
    /\ built = [c \in CaseIds \cup {"manifest"} |-> built[c]]
    /\ \A c \in CaseIds : Small(built[c])
    /\ attestation \subseteq BOOLEAN /\ report \subseteq BOOLEAN

Inv == HInv /\ RInv /\ PInv /\ BInv

BuildMove == BuildStep \/ BuildCrash \/ Attest

LEMMA RInvStays ==
    ASSUME RInv, UNCHANGED <<files, reviewVars>>
    PROVE  RInv'
<1>1. reviewers' = reviewers /\ review' = review /\ contested' = contested /\ files' = files
    BY DEF reviewVars
<1>2. \A c \in CaseIds : Stamped(c)' = Stamped(c)
    BY <1>1, SameStamp
<1>3. \A r \in Reviewers : ReviewFine(r)'
    BY <1>1 DEF RInv, ReviewFine
<1>4. Alone'
    BY <1>1, <1>2 DEF RInv, Alone, Reviewing
<1> QED
    BY <1>1, <1>3, <1>4 DEF RInv

LEMMA PInvStays ==
    ASSUME PInv, UNCHANGED stageVars
    PROVE  PInv' /\ PathsKept
<1>1. artifacts' = artifacts /\ receipts' = receipts /\ producers' = producers
    BY DEF stageVars
<1>2. PathsKept
    BY <1>1 DEF PathsKept, PathKept, Signing
<1>3. \A p \in Producers : ProducerFine(p)'
    BY <1>1 DEF PInv, ProducerFine
<1>4. StageFine'
    BY <1>1 DEF PInv, StageFine
<1> QED
    BY <1>1, <1>2, <1>3, <1>4 DEF PInv, Shaped

LEMMA BuildPreserved ==
    ASSUME BInv, BuildMove
    PROVE  BInv'
<1>1. ASSUME NEW c \in CaseIds \cup {"manifest"}, NEW x,
             built' = [built EXCEPT ![c] = {x}], UNCHANGED <<attestation, report>>
      PROVE  BInv'
    BY <1>1 DEF BInv, Small
<1>2. CASE BuildCase
  <2>1. PICK i \in DOMAIN Cases : built' = [built EXCEPT ![Cases[i]] = {StageReceipts(Cases[i])}]
      BY <1>2 DEF BuildCase
  <2>2. Cases[i] \in CaseIds
      BY CasePlaces
  <2> QED
      BY <1>1, <1>2, <2>1, <2>2 DEF BuildCase
<1>3. CASE BuildManifest
    BY <1>1, <1>3 DEF BuildManifest
<1>4. CASE RunVerticalSlice
  <2> DEFINE passes == Len(Cases) \in SliceSizes /\ \A c \in CaseIds : CasePasses(c)
  <2>1. report' = {passes} /\ UNCHANGED <<attestation, built>>
      BY <1>4 DEF RunVerticalSlice
  <2>2. passes \in BOOLEAN
      OBVIOUS
  <2>3. report' \subseteq BOOLEAN
      BY <2>1, <2>2
  <2> QED
      BY <2>1, <2>3 DEF BInv
<1>5. CASE BuildCrash
    BY <1>1, <1>5 DEF BuildCrash
<1>6. CASE Attest
    BY <1>6 DEF Attest, BInv
<1> QED
    BY <1>2, <1>3, <1>4, <1>5, <1>6 DEF BuildMove, BuildStep

\* Who moves, and what the others keep.
LEMMA WhoMoves ==
    ASSUME Inv, [Next]_vars
    PROVE  \/ HydrationMove /\ UNCHANGED <<reviewVars, stageVars, attestation, built, report>>
           \/ /\ \E r \in Reviewers : ReviewStep(r) \/ ReviewCrash(r)
              /\ UNCHANGED <<stageVars, attestation, built, report>>
           \/ ProducerMove /\ UNCHANGED <<hydrationVars, reviewVars, attestation, built, report>>
           \/ BuildMove /\ UNCHANGED <<hydrationVars, reviewVars, stageVars>>
           \/ UNCHANGED vars
<1>1. CASE Step
  <2>1. CASE HydrationStep /\ OthersUnchanged
      BY <2>1 DEF HydrationMove, OthersUnchanged
  <2>2. ASSUME NEW r \in Reviewers, ReviewStep(r)
        PROVE  UNCHANGED <<stageVars, attestation, built, report>>
      BY <2>2 DEF ReviewStep, BeginReview, CheckReview, WriteReview, HashReview, StampCapsule
  <2>3. CASE ProduceStep
    <3>1. UNCHANGED <<hydrationVars, reviewVars, attestation, built, report>>
      <4>1. CASE BeginGeneration
          BY <4>1 DEF BeginGeneration
      <4>2. CASE BeginStages
          BY <4>2 DEF BeginStages
      <4>3. CASE EnterCase
          BY <4>3 DEF EnterCase
      <4>4. ASSUME NEW p \in DOMAIN producers, RunContainer(p) \/ WriteProducerReceipt(p, 0)
            PROVE  UNCHANGED <<hydrationVars, reviewVars, attestation, built, report>>
          BY <4>4 DEF RunContainer, WriteProducerReceipt
      <4> QED
          BY <2>3, <4>1, <4>2, <4>3, <4>4 DEF ProduceStep
    <3> QED
        BY <2>3, <3>1 DEF ProducerMove
  <2>4. CASE BuildStep
    <3>1. UNCHANGED <<hydrationVars, reviewVars, stageVars>>
        BY <2>4 DEF BuildStep, BuildCase, BuildManifest, RunVerticalSlice
    <3> QED
        BY <2>4, <3>1 DEF BuildMove
  <2> QED
      BY <1>1, <2>1, <2>2, <2>3, <2>4 DEF Step
<1>2. CASE Attest
    BY <1>2 DEF BuildMove, Attest
<1>3. CASE Mishap
  <2>1. CASE (NetworkError \/ HydrationCrash) /\ OthersUnchanged
      BY <2>1 DEF HydrationMove, OthersUnchanged
  <2>2. ASSUME NEW r \in Reviewers, ReviewCrash(r)
        PROVE  UNCHANGED <<stageVars, attestation, built, report>>
      BY <2>2 DEF ReviewCrash
  <2>3. ASSUME NEW p \in DOMAIN producers,
               ContainerFails(p) \/ WriteProducerReceipt(p, 1) \/ ProducerCrash(p)
        PROVE  ProducerMove /\ UNCHANGED <<hydrationVars, reviewVars, attestation, built, report>>
    <3>1. UNCHANGED <<hydrationVars, reviewVars, attestation, built, report>>
        BY <2>3 DEF ContainerFails, WriteProducerReceipt, ProducerCrash
    <3> QED
        BY <2>3, <3>1 DEF ProducerMove
  <2>4. CASE BuildCrash
      BY <2>4 DEF BuildMove, BuildCrash
  <2> QED
      BY <1>3, <2>1, <2>2, <2>3, <2>4 DEF Mishap
<1>4. CASE ServicesChange /\ OthersUnchanged
    BY <1>4 DEF HydrationMove, OthersUnchanged
<1> QED
    BY <1>1, <1>2, <1>3, <1>4 DEF Next

LEMMA Unmoved ==
    UNCHANGED vars => UNCHANGED <<hydrationVars, reviewVars, stageVars, attestation, built, report>>
    BY DEF vars

\* Nobody takes back a stamp, or a capsule that is torn.
CapsuleKept(c) ==
    /\ Stamped(c) /\ c \notin contested =>
           /\ files'[c]["capsule"] = files[c]["capsule"]
           /\ c \notin contested'
    /\ files[c]["capsule"] = {Torn} /\ (\A r \in Reviewers : ~Reviewing(r, c)) =>
           files'[c]["capsule"] = {Torn} /\ \A r \in Reviewers : ~Reviewing(r, c)'

LEMMA Begun ==
    ASSUME Inv, NEW c \in CaseIds, NEW r \in Reviewers, ReviewStep(r) \/ ReviewCrash(r)
    PROVE  /\ c \in contested' => c \in contested \/ ~Stamped(c)
           /\ (\E q \in Reviewers : Reviewing(q, c)') =>
                  (\E q \in Reviewers : Reviewing(q, c)) \/ files[c]["capsule"] # {Torn}
<1>1. reviewers = [q \in Reviewers |-> reviewers[q]] /\ ReviewFine(r)
    BY DEF Inv, RInv
<1>2. CASE BeginReview(r)
  <2>1. PICK c0 \in CaseIds, passed \in BOOLEAN :
            /\ Whole(files[c0]["capsule"]) /\ ~Stamped(c0)
            /\ reviewers' = [reviewers EXCEPT ![r] =
                   [pc |-> "receipt", case |-> c0, passed |-> passed,
                    capsule |-> files[c0]["capsule"], digest |-> {}]]
            /\ contested' = IF \E q \in Reviewers : Reviewing(q, c0)
                            THEN contested \cup {c0} ELSE contested
      BY <1>2 DEF BeginReview
  <2>2. reviewers'[r].case = c0 /\ \A q \in Reviewers \ {r} : reviewers'[q] = reviewers[q]
      BY <1>1, <2>1
  <2>3. files[c0]["capsule"] # {Torn}
      BY <2>1 DEF Whole
  <2>4. \A q \in Reviewers : Reviewing(q, c)' => c = c0 \/ Reviewing(q, c)
      BY <2>2 DEF Reviewing
  <2> QED
      BY <2>1, <2>3, <2>4
<1>3. ASSUME contested' = contested, NEW v, reviewers' = [reviewers EXCEPT ![r] = v],
             v = NoReview \/ (reviewers[r].pc # "idle" /\ v.case = reviewers[r].case)
      PROVE  /\ c \in contested' => c \in contested \/ ~Stamped(c)
             /\ (\E q \in Reviewers : Reviewing(q, c)') =>
                    (\E q \in Reviewers : Reviewing(q, c)) \/ files[c]["capsule"] # {Torn}
  <2>1. reviewers'[r] = v /\ \A q \in Reviewers \ {r} : reviewers'[q] = reviewers[q]
      BY <1>1, <1>3
  <2>2. NoReview.pc = "idle"
      BY DEF NoReview
  <2>3. \A q \in Reviewers : Reviewing(q, c)' => Reviewing(q, c)
      BY <1>3, <2>1, <2>2 DEF Reviewing
  <2> QED
      BY <1>3, <2>3
<1>4. PICK old : old = reviewers[r]
    OBVIOUS
<1>5. /\ [old EXCEPT !.pc = "write"].case = old.case
      /\ [old EXCEPT !.pc = "hash"].case = old.case
    BY <1>1, <1>4 DEF ReviewFine
<1>6. CASE CheckReview(r)
  <2>1. /\ contested' = contested /\ reviewers[r].pc # "idle"
        /\ \/ reviewers' = [reviewers EXCEPT ![r] = [old EXCEPT !.pc = "write"]]
           \/ reviewers' = [reviewers EXCEPT ![r] = NoReview]
      BY <1>4, <1>6 DEF CheckReview
  <2> QED
      BY <1>3, <1>4, <1>5, <2>1
<1>7. CASE WriteReview(r)
  <2>1. /\ contested' = contested /\ reviewers[r].pc # "idle"
        /\ reviewers' = [reviewers EXCEPT ![r] = [old EXCEPT !.pc = "hash"]]
      BY <1>4, <1>7 DEF WriteReview
  <2> QED
      BY <1>3, <1>4, <1>5, <2>1
<1>8. CASE HashReview(r)
  <2>1. PICK v : v = [old EXCEPT !.pc = "stamp", !.digest = review[old.case]]
      OBVIOUS
  <2>2. v.case = old.case
    <3>1. PICK y : y = [old EXCEPT !.pc = "stamp"]
        OBVIOUS
    <3>2. v = [y EXCEPT !.digest = review[old.case]]
        BY <2>1, <3>1
    <3>3. y.case = old.case /\ "case" \in DOMAIN y
        BY <1>1, <1>4, <3>1 DEF ReviewFine
    <3> QED
        BY <3>2, <3>3
  <2>3. /\ contested' = contested /\ reviewers[r].pc # "idle"
        /\ reviewers' = [reviewers EXCEPT ![r] = v]
      BY <1>1, <1>4, <1>8, <2>1 DEF HashReview
  <2> QED
      BY <1>3, <1>4, <2>2, <2>3
<1>9. CASE StampCapsule(r) \/ ReviewCrash(r)
  <2>1. contested' = contested /\ reviewers' = [reviewers EXCEPT ![r] = NoReview]
      BY <1>9 DEF StampCapsule, ReviewCrash
  <2> QED
      BY <1>3, <2>1
<1> QED
    BY <1>2, <1>6, <1>7, <1>8, <1>9 DEF ReviewStep

LEMMA InvNext ==
    ASSUME Inv, [Next]_vars
    PROVE  Inv' /\ PathsKept /\ \A c \in CaseIds : CapsuleKept(c)
<1> USE DEF Inv
<1>0. ASSUME UNCHANGED <<files, reviewVars>>
      PROVE  \A c \in CaseIds : CapsuleKept(c)
    BY <1>0, SameStamp DEF CapsuleKept, Reviewing, reviewVars
<1>1. CASE HydrationMove /\ UNCHANGED <<reviewVars, stageVars, attestation, built, report>>
  <2>1. HInv' /\ RInv' /\ PInv' /\ PathsKept
      BY <1>1, HydrationPreserved, RInvByHydration, PInvStays
  <2>2. BInv'
      BY <1>1 DEF BInv
  <2>3. \A c \in CaseIds : CapsuleKept(c)
      BY <1>1, HydrationStamps DEF CapsuleKept, Reviewing, reviewVars
  <2> QED
      BY <2>1, <2>2, <2>3
<1>2. ASSUME NEW r \in Reviewers, ReviewStep(r) \/ ReviewCrash(r),
             UNCHANGED <<stageVars, attestation, built, report>>
      PROVE  Inv' /\ PathsKept /\ \A c \in CaseIds : CapsuleKept(c)
  <2>1. HInv' /\ RInv' /\ PInv' /\ PathsKept
      BY <1>2, ReviewPreserved, PInvStays
  <2>2. BInv'
      BY <1>2 DEF BInv
  <2>3. ASSUME NEW c \in CaseIds PROVE CapsuleKept(c)
    <3>1. Reviewing(r, c) /\ Stamped(c) => c \in contested
        BY DEF RInv, Alone
    <3>2. files'[c]["capsule"] = files[c]["capsule"] \/ Reviewing(r, c)
        BY <1>2, ReviewPreserved
    <3> QED
        BY <1>2, <3>1, <3>2, Begun DEF CapsuleKept
  <2> QED
      BY <2>1, <2>2, <2>3
<1>3. CASE ProducerMove /\ UNCHANGED <<hydrationVars, reviewVars, attestation, built, report>>
  <2>1. UNCHANGED <<files, live, hydration, reviewVars>>
      BY <1>3 DEF hydrationVars
  <2>2. HInv' /\ RInv' /\ PInv' /\ PathsKept
      BY <1>3, <2>1, HInvStays, RInvStays, ProducerPreserved
  <2>3. BInv'
      BY <1>3 DEF BInv
  <2> QED
      BY <1>0, <2>1, <2>2, <2>3
<1>4. CASE BuildMove /\ UNCHANGED <<hydrationVars, reviewVars, stageVars>>
  <2>1. UNCHANGED <<files, live, hydration, reviewVars>>
      BY <1>4 DEF hydrationVars
  <2>2. HInv' /\ RInv' /\ PInv' /\ PathsKept /\ BInv'
      BY <1>4, <2>1, HInvStays, RInvStays, PInvStays, BuildPreserved
  <2> QED
      BY <1>0, <2>1, <2>2
<1>5. CASE UNCHANGED vars
  <2>1. UNCHANGED <<files, live, hydration, reviewVars, stageVars, attestation, built, report>>
      BY <1>5, Unmoved DEF hydrationVars
  <2>2. HInv' /\ RInv' /\ PInv' /\ PathsKept
      BY <2>1, HInvStays, RInvStays, PInvStays
  <2>3. BInv'
      BY <2>1 DEF BInv
  <2> QED
      BY <1>0, <2>1, <2>2, <2>3
<1> HIDE DEF Inv
<1> QED
    BY <1>1, <1>2, <1>3, <1>4, <1>5, WhoMoves

LEMMA InvInit == Init => Inv
<1> SUFFICES ASSUME Init PROVE Inv
    OBVIOUS
<1> USE DEF Init
<1>1. HInv
  <2>1. /\ files = [c \in CaseIds |-> [f \in FileNames |-> {}]]
        /\ live \in [CaseIds -> Services] /\ hydration = [at |-> 0, file |-> 0, seen |-> {}]
      BY DEF HydrationInit, Idle
  <2>2. Shaped(files, CaseIds, FileNames)
      BY <2>1 DEF Shaped
  <2>3. ASSUME NEW c \in CaseIds PROVE CaseFine(c)
    <3>1. \A f \in FileNames : files[c][f] = {}
        BY <2>1
    <3>2. /\ files[c]["text"] = {} /\ files[c]["source_text"] = {} /\ files[c]["lock"] = {}
          /\ files[c]["salt"] = {} /\ files[c]["sealed"] = {} /\ files[c]["capsule"] = {}
          /\ files[c]["packet"] = {}
        BY <3>1, FilePlaces
    <3>3. InOrder(c)
        BY <3>1, FileAt DEF InOrder
    <3>4. DerivedFine(c)
        BY <3>2 DEF DerivedFine, TextFine, SealedFine, CapsuleFine, PacketFine
    <3> QED
        BY <3>1, <3>2, <3>3, <3>4 DEF CaseFine, Small
  <2>4. HydrationShape /\ HydrationFine
      BY <2>1, CasePlaces DEF HydrationShape, HydrationFine
  <2> QED
      BY <2>1, <2>2, <2>3, <2>4 DEF HInv
<1>2. RInv
    BY DEF RInv, ReviewFine, NoReview, Alone, Reviewing, Small
<1>3. PInv
  <2>1. Shaped(artifacts, CaseIds, Stages) /\ Shaped(receipts, CaseIds, Stages)
      BY DEF Shaped
  <2>2. \A p \in Producers : ProducerFine(p)
      BY DEF Producers, ProducerFine, NoRun
  <2>3. StageFine
      BY DEF StageFine, Small, Stages
  <2> QED
      BY <2>1, <2>2, <2>3 DEF PInv, Producers
<1>4. BInv
    BY DEF BInv, Small
<1> QED
    BY <1>1, <1>2, <1>3, <1>4 DEF Inv

LEMMA InvAlways == Spec => []Inv
<1>1. Inv /\ [Next]_vars => Inv'
    BY InvNext
<1> QED
    BY <1>1, InvInit, PTL DEF Spec

-----------------------------------------------------------------------------
(* What follows                                                            *)

\* Every file holds one content at most, the salt is one that was drawn or is torn, and
\* hydration has metadata in hand exactly while it writes (hydrate_and_seal.py:95-180, 393-622).
THEOREM PilotTypeCorrect == Spec => []TypeOK
<1>1. Inv => TypeOK
  <2> SUFFICES ASSUME Inv PROVE TypeOK
      OBVIOUS
  <2>1. HydrationTypeOK
      BY HInvTyped DEF Inv
  <2>2. \A r \in Reviewers : reviewers[r].pc \in {"idle", "receipt", "write", "hash", "stamp"}
      BY DEF Inv, RInv, ReviewFine
  <2>3. \A c \in CaseIds : Cardinality(review[c]) <= 1 /\ Cardinality(built[c]) <= 1
      BY SmallCounted DEF Inv, RInv, BInv
  <2>4. \A c \in CaseIds : \A s \in Stages :
            Cardinality(artifacts[c][s]) <= 1 /\ Cardinality(receipts[c][s]) <= 1
      BY SmallCounted DEF Inv, PInv, StageFine
  <2>5. attestation \subseteq BOOLEAN /\ report \subseteq BOOLEAN
      BY DEF Inv, BInv
  <2> QED
      BY <2>1, <2>2, <2>3, <2>4, <2>5 DEF TypeOK
<1> QED
    BY <1>1, InvAlways, PTL

\* However often hydration dies and whatever it has written, a run with --resume accepts
\* what it finds, unless a write was cut short, what it downloads, extracts or asks for
\* has changed since, or the case was reviewed before it was complete
\* (hydrate_and_seal.py:95-179, 411-578).
THEOREM ResumeAlwaysWorks == Spec => []ResumeWorks
<1>1. Inv => ResumeWorks
    BY HInvResumes DEF Inv
<1> QED
    BY <1>1, InvAlways, PTL

\* A capsule that carries the digest of its review never changes again, for any number
\* of reviewers, unless two of them worked on its case at the same time
\* (review_semantic.py:113).
THEOREM StampedCapsulesStand == Spec => ReviewStands
<1>1. Inv /\ [Next]_vars =>
          [\A c \in CaseIds : Stamped(c) /\ c \notin contested =>
               files'[c]["capsule"] = files[c]["capsule"]]_vars
    BY InvNext DEF CapsuleKept
<1> QED
    BY <1>1, InvAlways, PTL DEF Spec, ReviewStands

LEMMA PassingIsSound ==
    ASSUME Inv, NEW c \in CaseIds, CasePasses(c)
    PROVE  Sound(c)
<1>1. ReviewHolds(c) /\ Bound(c)
    BY DEF CasePasses
<1>2. PICK capsule : files[c]["capsule"] = {capsule} /\ Content(c, "capsule") = capsule
  <2>1. Whole(files[c]["capsule"])
      BY <1>1 DEF ReviewHolds, Stamped
  <2>2. PICK capsule : files[c]["capsule"] = {capsule}
      BY <2>1, WholeSmall DEF Inv, Whole, Small
  <2> QED
      BY <2>2 DEF Content
<1>3. capsule.review # {} /\ review[c] = capsule.review
      /\ \A value \in review[c] : value # Torn /\ value.passed
    BY <1>1, <1>2 DEF ReviewHolds, Stamped
<1>4. PICK g \in receipts[c]["generation"], x \in receipts[c]["execution"],
           v \in receipts[c]["evaluation"] :
               /\ Torn \notin {g, x, v}
               /\ \A producer \in {g, x, v} :
                      producer.exit_code = 0 /\ {producer.capsule} = files[c]["capsule"]
               /\ {g.artifact} = artifacts[c]["generation"]
               /\ {x.artifact} = artifacts[c]["execution"]
               /\ {v.artifact} = artifacts[c]["evaluation"]
               /\ g.proposal = g.artifact /\ x.proposal = g.artifact
               /\ v.artifact.of = x.artifact
    BY <1>1 DEF Bound
<1>5. \A producer \in {g, x, v} : producer.exit_code = 0 /\ producer.capsule = capsule
    BY <1>2, <1>4
<1>6. \A s \in Stages : \E receipt \in receipts[c][s] \ {Torn} :
          receipt.exit_code = 0 /\ receipt.capsule.review = review[c]
    BY <1>3, <1>4, <1>5 DEF Stages
<1>7. x.artifact \in artifacts[c]["execution"] /\ x.artifact.ran = g.proposal
  <2>1. x.artifact.ran \in artifacts[c]["generation"]
      BY <1>4 DEF Inv, PInv, StageFine
  <2> QED
      BY <1>4, <2>1
<1>8. \A w \in artifacts[c]["evaluation"] : w.of = x.artifact
    BY <1>4
<1> QED
    BY <1>3, <1>4, <1>6, <1>7, <1>8 DEF Sound

\* A report that passes is about what ran: the review passed and came before every
\* stage, the proposal that is declared is the one that was executed, and the evaluation
\* is of that execution (vertical_slice.py:83-261).
THEOREM PassingReportsSound == Spec => SliceSound
<1>1. ASSUME Inv, [Next]_vars, report # report', report' = {TRUE}, NEW c \in CaseIds
      PROVE  Sound(c)
  <2>1. BuildMove
      BY <1>1, WhoMoves, Unmoved
  <2>2. RunVerticalSlice
      BY <1>1, <2>1 DEF BuildMove, BuildStep, BuildCase, BuildManifest, BuildCrash, Attest
  <2>3. \A d \in CaseIds : CasePasses(d)
      BY <1>1, <2>2 DEF RunVerticalSlice
  <2> QED
      BY <1>1, <2>3, PassingIsSound
<1>2. Inv /\ [Next]_vars =>
          [report # report' /\ report' = {TRUE} => \A c \in CaseIds : Sound(c)]_vars
    BY <1>1
<1> QED
    BY <1>2, InvAlways, PTL DEF Spec, SliceSound

LEMMA SpoiledNeverPasses ==
    ASSUME Inv, NEW c \in CaseIds, Spoiled(c)
    PROVE  ~CasePasses(c)
<1> SUFFICES ASSUME CasePasses(c) PROVE FALSE
    OBVIOUS
<1>1. Stamped(c) /\ Bound(c)
    BY DEF CasePasses, ReviewHolds
<1>2. files[c]["capsule"] # {Torn}
    BY <1>1 DEF Stamped, Whole
<1>3. ASSUME NEW s \in Stages
      PROVE  \E receipt : /\ receipts[c][s] = {receipt} /\ receipt # Torn
                          /\ receipt.exit_code = 0 /\ {receipt.artifact} = artifacts[c][s]
                          /\ {receipt.capsule} = files[c]["capsule"]
  <2>1. \E receipt \in receipts[c][s] \ {Torn} :
            /\ receipt.exit_code = 0 /\ {receipt.artifact} = artifacts[c][s]
            /\ {receipt.capsule} = files[c]["capsule"]
      BY <1>1 DEF Bound, Stages
  <2>2. Small(receipts[c][s])
      BY DEF Inv, PInv, StageFine
  <2> QED
      BY <2>1, <2>2 DEF Small
<1> QED
    BY <1>2, <1>3 DEF Spoiled, BadReceipt

LEMMA SpoiledStays ==
    ASSUME Inv, PathsKept, NEW c \in CaseIds, CapsuleKept(c), Spoiled(c)
    PROVE  Spoiled(c)'
<1>1. \A s \in Stages : PathKept(c, s)
    BY DEF PathsKept
<1>2. CASE files[c]["capsule"] = {Torn} /\ \A r \in Reviewers : ~Reviewing(r, c)
    BY <1>2 DEF CapsuleKept, Spoiled
<1>3. ASSUME NEW s \in Stages, BadReceipt(c, s)
      PROVE  Spoiled(c)'
  <2>1. receipts[c][s] # {}
      BY <1>3 DEF BadReceipt
  <2>2. receipts'[c][s] = receipts[c][s] /\ artifacts'[c][s] = artifacts[c][s]
      BY <1>1, <2>1 DEF PathKept
  <2>3. BadReceipt(c, s)'
      BY <1>3, <2>2 DEF BadReceipt
  <2> QED
      BY <2>3 DEF Spoiled
<1>4. ASSUME NEW s \in Stages, artifacts[c][s] # {}, receipts[c][s] = {}, ~Signing(c, s)
      PROVE  Spoiled(c)'
  <2>1. artifacts'[c][s] # {} /\ receipts'[c][s] = {} /\ ~Signing(c, s)'
      BY <1>1, <1>4 DEF PathKept
  <2> QED
      BY <2>1 DEF Spoiled
<1>5. ASSUME Stamped(c), c \notin contested, NEW s \in Stages,
             NEW receipt \in receipts[c][s] \ {Torn}, {receipt.capsule} # files[c]["capsule"]
      PROVE  Spoiled(c)'
  <2>1. files'[c]["capsule"] = files[c]["capsule"] /\ c \notin contested'
      BY <1>5 DEF CapsuleKept
  <2>2. Stamped(c)'
      BY <1>5, <2>1, SameStamp
  <2>3. receipts'[c][s] = receipts[c][s]
      BY <1>1, <1>5 DEF PathKept
  <2> QED
      BY <1>5, <2>1, <2>2, <2>3 DEF Spoiled
<1> QED
    BY <1>2, <1>3, <1>4, <1>5 DEF Spoiled

\* A case that is spoiled stays so, whatever is rerun, and no report passes over it
\* (trusted_producer.py:134-137).
THEOREM SpoiledCasesStay == Spec => SpoiledForGood
<1>1. ASSUME Inv, [Next]_vars, NEW c \in CaseIds, Spoiled(c), report # {TRUE}
      PROVE  Spoiled(c)' /\ report' # {TRUE}
  <2>1. Spoiled(c)'
      BY <1>1, InvNext, SpoiledStays
  <2>2. ASSUME report' = {TRUE} PROVE FALSE
    <3>1. BuildMove
        BY <1>1, <2>2, WhoMoves, Unmoved
    <3>2. RunVerticalSlice
        BY <1>1, <2>2, <3>1 DEF BuildMove, BuildStep, BuildCase, BuildManifest, BuildCrash, Attest
    <3>3. \A d \in CaseIds : CasePasses(d)
        BY <2>2, <3>2 DEF RunVerticalSlice
    <3> QED
        BY <1>1, <3>3, SpoiledNeverPasses
  <2> QED
      BY <2>1, <2>2
<1>2. Inv /\ [Next]_vars =>
          [(\E c \in CaseIds : Spoiled(c)) /\ report # {TRUE} =>
               (\E c \in CaseIds : Spoiled(c))' /\ report' # {TRUE}]_vars
    BY <1>1
<1> QED
    BY <1>2, InvAlways, PTL DEF Spec, SpoiledForGood
=============================================================================
