------------------------ MODULE SdkConformanceProofs ------------------------
(***************************************************************************)
(* For any cases, proposals, codes and outputs of the model, and for any   *)
(* number of passes, repairs and crashes: what a completed pass reports of *)
(* a case is what the gate finds, a proposal read loosely and not repaired *)
(* excepted, and a gate that passes after it accepted what it reported.    *)
(***************************************************************************)
EXTENDS SdkConformance, FiniteSetTheorems, SequenceTheorems,
        WellFoundedInduction, TLAPS

-----------------------------------------------------------------------------
(* Sequences whose elements are of no set in particular                    *)

Listed(s) == s \in Seq({s[i] : i \in DOMAIN s})

LEMMA ListedAppend ==
    ASSUME NEW s, Listed(s), NEW e
    PROVE  /\ Listed(Append(s, e))
           /\ Len(s) \in Nat /\ DOMAIN s = 1 .. Len(s)
           /\ Len(Append(s, e)) = Len(s) + 1
           /\ DOMAIN Append(s, e) = 1 .. Len(s) + 1
           /\ \A i \in 1 .. Len(s) : Append(s, e)[i] = s[i]
           /\ Append(s, e)[Len(s) + 1] = e
<1> DEFINE S == {s[i] : i \in DOMAIN s}
           T == S \cup {e}
           new == Append(s, e)
<1>1. s \in Seq(S)
    BY DEF Listed
<1>2. /\ Len(s) \in Nat /\ DOMAIN s = 1 .. Len(s)
      /\ \A i \in 1 .. Len(s) : s[i] \in T
    BY <1>1, LenProperties
<1> HIDE DEF S, T
<1>3. s \in Seq(T) /\ e \in T
  <2>1. \A i \in 1 .. Len(s) : s[i] \in T
      BY <1>2
  <2>2. s = [i \in 1 .. Len(s) |-> s[i]]
      BY <1>1, LenProperties
  <2> QED
      BY <1>2, <2>1, <2>2 DEF T
<1>4. /\ new \in Seq(T) /\ Len(new) = Len(s) + 1
      /\ DOMAIN new = 1 .. Len(s) + 1
      /\ \A i \in 1 .. Len(s) : new[i] = s[i]
      /\ new[Len(s) + 1] = e
    BY <1>3, AppendProperties, LenProperties
<1> HIDE DEF new
<1>5. Listed(new)
  <2>1. new = [i \in 1 .. Len(new) |-> new[i]] /\ Len(new) \in Nat
      BY <1>4, LenProperties
  <2> QED
      BY <1>4, <2>1 DEF Listed
<1> QED
    BY <1>2, <1>4, <1>5 DEF new

LEMMA ListedEmpty == Listed(<<>>) /\ Len(<<>>) = 0 /\ DOMAIN <<>> = {}
    BY DEF Listed

LEMMA NatOrder ==
    \E R : /\ IsWellFoundedOn(R, Nat)
           /\ \A t, u \in Nat : u < t => <<u, t>> \in R
<1>1. \A t, u \in Nat : u < t => <<u, t>> \in OpToRel(<, Nat)
    BY DEF OpToRel
<1> QED
    BY <1>1, NatLessThanWellFounded

\* A set of positions of a sequence that is not empty has a last one.
LEMMA LastPosition ==
    ASSUME NEW n \in Nat, NEW S \in SUBSET (1 .. n), S # {}
    PROVE  Max(S) \in S /\ \A i \in S : i <= Max(S)
<1> DEFINE T == {n - i : i \in S}
<1>1. \A i \in S : i \in Nat /\ n - i \in Nat
    OBVIOUS
<1>2. T \in SUBSET Nat /\ T # {}
    BY <1>1
<1>3. \E t \in T : \A u \in T : t <= u
  <2>1. PICK R : /\ IsWellFoundedOn(R, Nat)
                 /\ \A t, u \in Nat : u < t => <<u, t>> \in R
      BY NatOrder
  <2> HIDE DEF T
  <2>2. \E t \in T : \A u \in T : ~(<<u, t>> \in R)
      BY <1>2, <2>1, WFMin
  <2>3. PICK t \in T : \A u \in T : ~(<<u, t>> \in R)
      BY <2>2
  <2>4. \A u \in T : ~(u < t)
      BY <1>2, <2>1, <2>3
  <2>5. t \in Nat /\ \A u \in T : u \in Nat
      BY <1>2
  <2>6. \A u \in T : t <= u
      BY <2>4, <2>5
  <2> QED
      BY <2>6
<1>4. PICK m \in S : \A u \in T : n - m <= u
    BY <1>3
<1>5. \A i \in S : n - m <= n - i
    BY <1>4
<1>6. \A i \in S : m >= i
    BY <1>1, <1>5
<1>7. /\ Max(S) \in S
      /\ \A i \in S : Max(S) >= i
    BY <1>6 DEF Max
<1> QED
    BY <1>1, <1>7

-----------------------------------------------------------------------------
(* The chain of repairs, repair by repair                                  *)

LEMMA MarksDiffer ==
    /\ None # Torn
    /\ \A i, t, p, d, c : [id |-> i, task |-> t, parents |-> p, design |-> d, code |-> c]
                               \notin {None, Torn}
    /\ \A i, f, r, z : [initial |-> i, final |-> f, repairs |-> r, frozen |-> z]
                           \notin {None, Torn}
    BY DEF None, Torn

\* What parsing the payload of a proposal again makes of it.
Rereads(task, p) == ParseModelProposal(task, Payload(p), p.parents) = p

\* A proposal is found again in its payload unless its JSON was of another form.
LEMMA ReadAgain ==
    ASSUME NEW task, NEW value \in [design : Forms, code : Codes] \cup {None},
           NEW parents, NEW p, p = ParseModelProposal(task, value, parents), p # None
    PROVE  /\ p \notin {None, Torn} /\ p.task = task /\ p.parents = parents
           /\ p.design \in Designs /\ p.code = value.code
           /\ value # None /\ p.design = Coerced[value.design]
           /\ Rereads(task, p) <=> value.design \in Designs
<1>1. value # None /\ value \in [design : Forms, code : Codes]
    BY DEF ParseModelProposal
<1>2. PICK f \in Forms, code \in Codes : value = [design |-> f, code |-> code]
    BY <1>1
<1>3. value.design = f /\ value.code = code
    BY <1>2
<1>4. Coerced[f] # None /\ Coerced[f] \in Designs
    BY <1>3, SdkAssumption DEF ParseModelProposal
<1>5. PICK d \in Designs : d = Coerced[f]
    BY <1>4
<1>6. p = [id |-> [raw |-> value, task |-> task], task |-> task, parents |-> parents,
           design |-> d, code |-> code]
    BY <1>1, <1>3, <1>4, <1>5 DEF ParseModelProposal
<1>7. p \notin {None, Torn}
    BY <1>6, MarksDiffer
<1>8. /\ p.task = task /\ p.parents = parents /\ p.design = d /\ p.code = code
      /\ p.id = [raw |-> value, task |-> task]
    BY <1>6
<1>9. Coerced[d] = d /\ d # None
    BY SdkAssumption
<1>10. PICK payload : payload = [design |-> d, code |-> code]
    OBVIOUS
<1>11. Payload(p) = payload /\ payload.design = d /\ payload.code = code
       /\ payload # None
    BY <1>8, <1>10 DEF Payload, None
<1>12. ParseModelProposal(task, Payload(p), p.parents)
           = [id |-> [raw |-> payload, task |-> task], task |-> task, parents |-> parents,
              design |-> d, code |-> code]
    BY <1>8, <1>9, <1>11 DEF ParseModelProposal
<1>13. Rereads(task, p) <=> payload = value
  <2>1. CASE payload = value
      BY <1>6, <1>12, <2>1 DEF Rereads
  <2>2. CASE Rereads(task, p)
    <3>1. [raw |-> payload, task |-> task] = [raw |-> value, task |-> task]
        BY <1>6, <1>12, <2>2 DEF Rereads
    <3> QED
        BY <3>1, <2>2
  <2> QED
      BY <2>1, <2>2
<1>14. payload = value <=> f = d
    BY <1>2, <1>10
<1>15. f = d <=> f \in Designs
    BY <1>5, SdkAssumption
<1> QED
    BY <1>1, <1>3, <1>5, <1>7, <1>8, <1>13, <1>14, <1>15

\* What LinkedTo reads of a chain, before and after a repair.
Links(first, repairs) == [initial |-> first, repairs |-> repairs]

LEMMA LinksRead ==
    ASSUME NEW proposal, NEW chain
    PROVE  LinkedTo(proposal, chain)
               <=> LinkedTo(proposal, Links(chain.initial, chain.repairs))
<1> DEFINE links == Links(chain.initial, chain.repairs)
<1>1. links.initial = chain.initial /\ links.repairs = chain.repairs
    BY DEF Links
<1> HIDE DEF links
<1>2. Formed(links) = Formed(chain)
    BY <1>1 DEF Formed
<1>3. \A i : Previous(links, i) = Previous(chain, i)
    BY <1>1, <1>2 DEF Previous
<1>4. LinkedTo(proposal, chain) <=> LinkedTo(proposal, links)
    BY <1>1, <1>2, <1>3 DEF LinkedTo
<1> QED
    BY <1>4 DEF links

\* One more repair does not change what earlier ones were to start from.
LEMMA EarlierLinks ==
    ASSUME NEW first, NEW repairs, Listed(repairs), NEW item
    PROVE  LET old == Links(first, repairs)
               new == Links(first, Append(repairs, item))
               n == Len(repairs)
           IN  /\ Formed(old) \subseteq 1 .. n /\ n \in Nat
               /\ Formed(new) = IF item.child # None THEN Formed(old) \cup {n + 1}
                                ELSE Formed(old)
               /\ \A i \in 1 .. n + 1 : Previous(new, i) = Previous(old, i)
               /\ \A i \in 1 .. n : new.repairs[i] = old.repairs[i]
               /\ new.repairs[n + 1] = item
<1> DEFINE old == Links(first, repairs)
           more == Append(repairs, item)
           new == Links(first, more)
           n == Len(repairs)
<1>1. /\ n \in Nat /\ DOMAIN repairs = 1 .. n /\ DOMAIN more = 1 .. n + 1
      /\ \A i \in 1 .. n : more[i] = repairs[i]
      /\ more[n + 1] = item
    BY ListedAppend
<1>2. /\ old.initial = first /\ old.repairs = repairs
      /\ new.initial = first /\ new.repairs = more
    BY DEF Links
<1> HIDE DEF old, new, more, n
<1>3. Formed(old) \subseteq 1 .. n
    BY <1>1, <1>2 DEF Formed
<1>4. Formed(new) = IF item.child # None THEN Formed(old) \cup {n + 1} ELSE Formed(old)
    BY <1>1, <1>2 DEF Formed
<1>5. ASSUME NEW i \in 1 .. n + 1 PROVE Previous(new, i) = Previous(old, i)
  <2> DEFINE before == {j \in Formed(old) : j < i}
  <2>1. {j \in Formed(new) : j < i} = before
      BY <1>1, <1>3, <1>4
  <2>2. before \in SUBSET (1 .. n)
      BY <1>3
  <2>3. {j \in Formed(old) : j < i} = before
      OBVIOUS
  <2> HIDE DEF before
  <2>4. before # {} => new.repairs[Max(before)] = old.repairs[Max(before)]
      BY <1>1, <1>2, <2>2, LastPosition
  <2> QED
      BY <1>2, <2>1, <2>3, <2>4 DEF Previous
<1>6. /\ Formed(old) \subseteq 1 .. n /\ n \in Nat
      /\ Formed(new) = IF item.child # None THEN Formed(old) \cup {n + 1} ELSE Formed(old)
      /\ \A i \in 1 .. n + 1 : Previous(new, i) = Previous(old, i)
      /\ \A i \in 1 .. n : new.repairs[i] = old.repairs[i]
      /\ new.repairs[n + 1] = item
    BY <1>1, <1>2, <1>3, <1>4, <1>5
<1> QED
    BY <1>6 DEF old, new, more, n

\* A refused reply leaves the chain linked to the proposal it was about.
LEMMA RefusedLinks ==
    ASSUME NEW first, NEW repairs, Listed(repairs), NEW p,
           LinkedTo(p, Links(first, repairs))
    PROVE  LinkedTo(p, Links(first, Append(repairs, [parent |-> p, child |-> None])))
<1> DEFINE old == Links(first, repairs)
           item == [parent |-> p, child |-> None]
           new == Links(first, Append(repairs, item))
           n == Len(repairs)
<1>1. item.child = None
    OBVIOUS
<1>2. /\ Formed(old) \subseteq 1 .. n /\ n \in Nat
      /\ Formed(new) = Formed(old)
      /\ \A i \in 1 .. n + 1 : Previous(new, i) = Previous(old, i)
      /\ \A i \in 1 .. n : new.repairs[i] = old.repairs[i]
  <2> HIDE DEF item
  <2> QED
      BY <1>1, EarlierLinks
<1>3. Len(new.repairs) = n + 1 /\ Len(old.repairs) = n
    BY ListedAppend DEF Links
<1>4. /\ \A i \in Formed(old) : old.repairs[i].parent = Previous(old, i)
      /\ Previous(old, n + 1) = p
      /\ p.parents = IF Formed(old) = {} THEN <<>>
                     ELSE <<old.repairs[Max(Formed(old))].parent>>
    BY <1>3 DEF LinkedTo
<1> HIDE DEF old, new, n, item
<1>5. Previous(new, n + 1 + 1) = p
  <2>1. {j \in Formed(new) : j < n + 1 + 1} = Formed(old)
      BY <1>2
  <2>2. {j \in Formed(old) : j < n + 1} = Formed(old)
      BY <1>2
  <2>3. Formed(old) # {} => new.repairs[Max(Formed(old))] = old.repairs[Max(Formed(old))]
      BY <1>2, LastPosition
  <2>4. new.initial = old.initial
      BY DEF new, old, Links
  <2> QED
      BY <1>4, <2>1, <2>2, <2>3, <2>4 DEF Previous
<1>6. p.parents = IF Formed(new) = {} THEN <<>>
                  ELSE <<new.repairs[Max(Formed(new))].parent>>
  <2>1. Formed(old) # {} => new.repairs[Max(Formed(old))] = old.repairs[Max(Formed(old))]
      BY <1>2, LastPosition
  <2> QED
      BY <1>2, <1>4, <2>1
<1>7. LinkedTo(p, new)
    BY <1>2, <1>3, <1>4, <1>5, <1>6 DEF LinkedTo
<1> QED
    BY <1>7 DEF new, item

\* A child links the chain to itself.
LEMMA ChildLinks ==
    ASSUME NEW first, NEW repairs, Listed(repairs), NEW p, NEW child,
           child # None, child.parents = <<p>>,
           LinkedTo(p, Links(first, repairs))
    PROVE  LinkedTo(child, Links(first, Append(repairs, [parent |-> p, child |-> child])))
<1> DEFINE old == Links(first, repairs)
           item == [parent |-> p, child |-> child]
           new == Links(first, Append(repairs, item))
           n == Len(repairs)
<1>1. item.child = child /\ item.parent = p
    OBVIOUS
<1>2. /\ Formed(old) \subseteq 1 .. n /\ n \in Nat
      /\ Formed(new) = Formed(old) \cup {n + 1}
      /\ \A i \in 1 .. n + 1 : Previous(new, i) = Previous(old, i)
      /\ \A i \in 1 .. n : new.repairs[i] = old.repairs[i]
      /\ new.repairs[n + 1] = item
  <2> HIDE DEF item
  <2> QED
      BY <1>1, EarlierLinks
<1>3. Len(new.repairs) = n + 1 /\ Len(old.repairs) = n
    BY ListedAppend DEF Links
<1>4. /\ \A i \in Formed(old) : old.repairs[i].parent = Previous(old, i)
      /\ Previous(old, n + 1) = p
    BY <1>3 DEF LinkedTo
<1> HIDE DEF old, new, n, item
<1>5. Max(Formed(new)) = n + 1
  <2>1. Formed(new) \in SUBSET (1 .. n + 1) /\ n + 1 \in Formed(new) /\ n + 1 \in Nat
      BY <1>2
  <2>2. Max(Formed(new)) \in Formed(new) /\ \A i \in Formed(new) : i <= Max(Formed(new))
      BY <2>1, LastPosition
  <2> QED
      BY <2>1, <2>2
<1>6. Previous(new, n + 1 + 1) = child
  <2>1. {j \in Formed(new) : j < n + 1 + 1} = Formed(new)
      BY <1>2
  <2> QED
      BY <1>1, <1>2, <1>5, <2>1 DEF Previous
<1>7. \A i \in Formed(new) : new.repairs[i].parent = Previous(new, i)
    BY <1>1, <1>2, <1>4
<1>8. LinkedTo(child, new)
    BY <1>1, <1>2, <1>3, <1>5, <1>6, <1>7 DEF LinkedTo
<1> QED
    BY <1>8 DEF new, item

\* A proposal that needed no repair is linked to itself.
LEMMA InitialLinks ==
    ASSUME NEW p, p.parents = <<>>
    PROVE  LinkedTo(p, Links(p, <<>>))
<1> DEFINE chain == Links(p, <<>>)
<1>1. chain.initial = p /\ chain.repairs = <<>>
    BY DEF Links
<1> HIDE DEF chain
<1>2. Formed(chain) = {}
    BY <1>1 DEF Formed
<1>3. \A i : Previous(chain, i) = p
    BY <1>1, <1>2 DEF Previous
<1>4. LinkedTo(p, chain)
    BY <1>1, <1>2, <1>3 DEF LinkedTo
<1> QED
    BY <1>4 DEF chain

-----------------------------------------------------------------------------
(* The inductive invariant: what a pass reported so far agrees with the    *)
(* files, and what it wrote of the case at hand is what it holds.          *)

DiskShape ==
    /\ \A c \in Cases : disk[c].raw \in Raws \cup {None}
    /\ disk = [c \in Cases |-> [raw |-> disk[c].raw, proposal |-> disk[c].proposal,
                                chain |-> disk[c].chain, binding |-> disk[c].binding]]

PassShape ==
    /\ pass = [kind |-> pass.kind, turn |-> pass.turn, rows |-> pass.rows,
               open |-> pass.open, initial |-> pass.initial, current |-> pass.current,
               error |-> pass.error, repairs |-> pass.repairs, writes |-> pass.writes]
    /\ pass.kind \in Kinds
    /\ pass.turn \in 1 .. Len(CaseOrder) + 1
    /\ Listed(pass.rows) /\ Len(pass.rows) = pass.turn - 1
    /\ pass.open \in BOOLEAN

Agrees(kind, row, case, written) ==
    IF row.parser_valid
    THEN /\ written.proposal = row.proposal_digest
         /\ Accepts(case, written) <=> ~ReadLoosely(kind, written)
    ELSE Accepts(case, written) => kind = "replay"

RowsAgree ==
    \A i \in 1 .. pass.turn - 1 :
        Agrees(pass.kind, pass.rows[i], CaseOrder[i], disk[CaseOrder[i]])

\* The first proposal is what the raw output on disk says; the one at hand descends from
\* it by the repairs at hand, and says of itself what its payload says, unless it is
\* still the first.
Descent ==
    /\ disk[Case].raw \in Raws
    /\ pass.initial = ParseModelProposal(Case, Parsed[pass.kind][disk[Case].raw], <<>>)
    /\ pass.initial = None => pass.current = None
    /\ pass.initial # None =>
           /\ pass.current \notin {None, Torn}
           /\ pass.current.task = Case
           /\ pass.current.design = pass.initial.design
           /\ pass.current.parents = <<>> => pass.current = pass.initial
           /\ pass.current.parents # <<>> => Rereads(Case, pass.current)
           /\ LinkedTo(pass.current, Links(pass.initial, pass.repairs))

Pends(file) == \E i \in DOMAIN pass.writes : pass.writes[i] = file

Pending(kind, proposal) ==
    IF kind = "generate"
    THEN IF proposal = None THEN {<<"chain">>, <<>>}
         ELSE {<<"proposal", "chain", "binding">>, <<"chain", "binding">>, <<"binding">>, <<>>}
    ELSE IF proposal = None THEN {<<>>}
         ELSE {<<"proposal", "binding", "chain">>, <<"binding", "chain">>, <<"chain">>, <<>>}

Written ==
    /\ pass.initial = None /\ pass.kind = "generate" /\ ~Pends("chain") =>
           disk[Case].chain = Chain
    /\ pass.initial # None =>
           /\ Pends("proposal") \/ disk[Case].proposal = pass.current
           /\ Pends("binding") \/ disk[Case].binding = Binding(pass.current)
           /\ Pends("chain") \/ disk[Case].chain = Chain

CaseInOrder ==
    /\ Left
    /\ Descent
    /\ Listed(pass.repairs) /\ Len(pass.repairs) <= MaxRepairs
    /\ pass.writes \in Pending(pass.kind, pass.initial)
    /\ NeedsRepair => pass.writes = Files(pass.kind, pass.initial)
    /\ Written

PassInOrder ==
    /\ PassShape
    /\ RowsAgree
    /\ pass.open => CaseInOrder
    /\ ~pass.open => pass.repairs = <<>>

ExitTrue ==
    status = "0" => \A i \in DOMAIN CaseOrder : report.rows[i].parser_valid

SdkInv ==
    /\ DiskShape
    /\ status = "running" => PassInOrder
    /\ ReportAgrees
    /\ ExitTrue
    /\ ConfirmationSound

LEMMA Positions ==
    /\ Len(CaseOrder) \in Nat /\ DOMAIN CaseOrder = 1 .. Len(CaseOrder)
    /\ \A i \in 1 .. Len(CaseOrder) : CaseOrder[i] \in Cases
    /\ \A i, j \in 1 .. Len(CaseOrder) : CaseOrder[i] = CaseOrder[j] => i = j
    BY SdkAssumption, LenProperties DEF Cases

\* What a raw output holds is JSON of a proposal, or none.
LEMMA ParsedValues ==
    ASSUME NEW kind \in Kinds, NEW raw \in Raws
    PROVE  Parsed[kind][raw] \in [design : Forms, code : Codes] \cup {None}
    BY SdkAssumption

LEMMA InitSdk == Init => SdkInv
<1> SUFFICES ASSUME Init PROVE SdkInv
    OBVIOUS
<1>1. DiskShape
    BY DEF Init, DiskShape, NoFiles
<1> QED
    BY <1>1 DEF Init, SdkInv, ReportAgrees, ExitTrue, ConfirmationSound

LEMMA StartKeeps ==
    ASSUME SdkInv, NEW kind \in Kinds, Start(kind)
    PROVE  SdkInv'
<1>1. pass' = Between(kind, 1, <<>>) /\ status' = "running"
      /\ disk' = disk /\ gate' = gate
    BY DEF Start
<1>2. PassShape'
    BY <1>1, ListedEmpty, Positions DEF PassShape, Between
<1>3. ~pass'.open /\ pass'.repairs = <<>> /\ pass'.turn = 1
    BY <1>1 DEF Between
<1>4. RowsAgree'
    BY <1>3 DEF RowsAgree
<1>5. PassInOrder'
    BY <1>2, <1>3, <1>4 DEF PassInOrder
<1> QED
    BY <1>1, <1>5 DEF SdkInv, DiskShape, ReportAgrees, ExitTrue, ConfirmationSound

LEMMA BeginCaseKeeps ==
    ASSUME SdkInv, BeginCase
    PROVE  SdkInv'
<1>1. PassInOrder /\ DiskShape /\ status = "running" /\ status' = status
      /\ Left /\ ~pass.open /\ gate' = gate /\ report' = report
    BY DEF SdkInv, BeginCase
<1>a. Case \in Cases /\ pass.kind \in Kinds
    BY <1>1, Positions DEF Case, Left, PassInOrder, PassShape
<1>2. PICK raw, p :
          /\ raw \in Outputs
          /\ p = ParseModelProposal(Case, Parsed[pass.kind][raw], <<>>)
          /\ disk' = [disk EXCEPT ![Case].raw = raw]
          /\ pass' = [pass EXCEPT
                 !.open = TRUE, !.initial = p, !.current = p,
                 !.error = p = None \/ p.code \notin PublicOk,
                 !.writes = Files(pass.kind, p)]
    BY DEF BeginCase
<1>b. raw \in Raws
    BY <1>1, <1>a, <1>2 DEF Outputs, DiskShape
<1>3. p # None => /\ p \notin {None, Torn} /\ p.parents = <<>> /\ p.task = Case
  <2>1. Parsed[pass.kind][raw] \in [design : Forms, code : Codes] \cup {None}
      BY <1>a, <1>b, ParsedValues
  <2> QED
      BY <1>2, <2>1, ReadAgain
<1>5. /\ pass'.kind = pass.kind /\ pass'.turn = pass.turn /\ pass'.rows = pass.rows
      /\ pass'.open = TRUE /\ pass'.initial = p /\ pass'.current = p
      /\ pass'.repairs = <<>> /\ pass'.writes = Files(pass.kind, p)
      /\ PassShape'
    BY <1>1, <1>2 DEF PassInOrder, PassShape
<1>6. DiskShape' /\ disk'[Case].raw = raw
      /\ \A c \in Cases \ {Case} : disk'[c] = disk[c]
    BY <1>1, <1>2, <1>a, <1>b DEF DiskShape
<1>7. RowsAgree'
  <2> SUFFICES ASSUME NEW i \in 1 .. pass.turn - 1
               PROVE  Agrees(pass.kind, pass.rows[i], CaseOrder[i], disk'[CaseOrder[i]])
      BY <1>5 DEF RowsAgree
  <2>1. CaseOrder[i] \in Cases /\ CaseOrder[i] # Case
      BY <1>1, Positions DEF PassInOrder, PassShape, Case, Left
  <2>2. Agrees(pass.kind, pass.rows[i], CaseOrder[i], disk[CaseOrder[i]])
      BY <1>1 DEF PassInOrder, RowsAgree
  <2> QED
      BY <1>6, <2>1, <2>2
<1>8. CaseInOrder'
  <2>1. Left'
      BY <1>1, <1>5 DEF Left
  <2>2. Descent'
    <3>1. Case' = Case
        BY <1>5 DEF Case
    <3>2. /\ disk'[Case'].raw \in Raws
          /\ pass'.initial = ParseModelProposal(Case', Parsed[pass'.kind][disk'[Case'].raw], <<>>)
        BY <1>2, <1>5, <1>6, <1>b, <3>1
    <3>3. p # None => LinkedTo(p, Links(p, <<>>))
        BY <1>3, InitialLinks
    <3> QED
        BY <1>3, <1>5, <3>1, <3>2, <3>3 DEF Descent
  <2>3. Listed(pass'.repairs) /\ Len(pass'.repairs) <= MaxRepairs
      BY <1>5, ListedEmpty, SdkAssumption
  <2>4. pass'.writes \in Pending(pass'.kind, pass'.initial)
        /\ pass'.writes = Files(pass'.kind, pass'.initial)
      BY <1>1, <1>5 DEF Files, Pending
  <2>5. Written'
    <3>1. /\ p = None /\ pass.kind = "generate" => Pends("chain")'
          /\ p # None => Pends("proposal")' /\ Pends("binding")' /\ Pends("chain")'
      <4>1. CASE p = None /\ pass.kind = "generate"
        <5>1. pass'.writes = <<"chain">>
            BY <1>5, <4>1 DEF Files
        <5> QED
            BY <4>1, <5>1 DEF Pends
      <4>2. CASE p # None /\ pass.kind = "generate"
        <5>1. pass'.writes = <<"proposal", "chain", "binding">>
            BY <1>5, <4>2 DEF Files
        <5> QED
            BY <4>2, <5>1 DEF Pends
      <4>3. CASE p # None /\ pass.kind # "generate"
        <5>1. pass'.writes = <<"proposal", "binding", "chain">>
            BY <1>5, <4>3 DEF Files
        <5> QED
            BY <4>3, <5>1 DEF Pends
      <4> QED
          BY <4>1, <4>2, <4>3
    <3> QED
        BY <1>5, <3>1 DEF Written
  <2> QED
      BY <2>1, <2>2, <2>3, <2>4, <2>5 DEF CaseInOrder
<1>9. PassInOrder'
    BY <1>5, <1>7, <1>8 DEF PassInOrder
<1> QED
    BY <1>1, <1>6, <1>9 DEF SdkInv, ReportAgrees, ExitTrue, ConfirmationSound

LEMMA RepairKeeps ==
    ASSUME SdkInv, RepairCode
    PROVE  SdkInv'
<1>1. PassInOrder /\ CaseInOrder /\ pass.open /\ NeedsRepair /\ status = "running"
      /\ UNCHANGED <<disk, report, status, gate>>
    BY DEF SdkInv, RepairCode, PassInOrder
<1>a. pass.current.design \in Designs
  <2>1. pass.initial # None /\ pass.current.design = pass.initial.design
      BY <1>1 DEF NeedsRepair, CaseInOrder, Descent
  <2>2. Parsed[pass.kind][disk[Case].raw] \in [design : Forms, code : Codes] \cup {None}
      BY <1>1, ParsedValues DEF CaseInOrder, Descent, PassInOrder, PassShape
  <2>3. pass.initial = ParseModelProposal(Case, Parsed[pass.kind][disk[Case].raw], <<>>)
      BY <1>1 DEF CaseInOrder, Descent
  <2> QED
      BY <2>1, <2>2, <2>3, ReadAgain
<1>2. PICK child, error :
          /\ \/ child = None /\ error = pass.error
             \/ /\ child \notin {None, Torn} /\ child.parents = <<pass.current>>
                /\ child.design = pass.current.design /\ child.task = Case
                /\ Rereads(Case, child)
          /\ pass' = [pass EXCEPT
                 !.current = IF child = None THEN @ ELSE child, !.error = error,
                 !.repairs = Append(@, [parent |-> pass.current, child |-> child])]
  <2>1. CASE pass' = [pass EXCEPT
                 !.repairs = Append(@, [parent |-> pass.current, child |-> None])]
    <3>1. pass' = [pass EXCEPT
              !.current = @, !.error = pass.error,
              !.repairs = Append(@, [parent |-> pass.current, child |-> None])]
        BY <1>1, <2>1 DEF PassInOrder, PassShape
    <3> QED
        BY <3>1
  <2>2. ASSUME NEW code \in Codes,
               LET child == ParseModelProposal(Case,
                       [Payload(pass.current) EXCEPT !.code = code], <<pass.current>>)
               IN  pass' = [pass EXCEPT
                       !.current = child, !.error = code \notin PublicOk,
                       !.repairs = Append(@, [parent |-> pass.current, child |-> child])]
        PROVE  \E child, error :
          /\ \/ child = None /\ error = pass.error
             \/ /\ child \notin {None, Torn} /\ child.parents = <<pass.current>>
                /\ child.design = pass.current.design /\ child.task = Case
                /\ Rereads(Case, child)
          /\ pass' = [pass EXCEPT
                 !.current = IF child = None THEN @ ELSE child, !.error = error,
                 !.repairs = Append(@, [parent |-> pass.current, child |-> child])]
    <3> DEFINE it == ParseModelProposal(Case,
                        [Payload(pass.current) EXCEPT !.code = code], <<pass.current>>)
    <3>1. it \notin {None, Torn} /\ it.parents = <<pass.current>>
          /\ it.design = pass.current.design /\ it.task = Case /\ Rereads(Case, it)
      <4>1. PICK d \in Designs : d = pass.current.design
          BY <1>a
      <4>2. [Payload(pass.current) EXCEPT !.code = code] = [design |-> d, code |-> code]
          BY <4>1 DEF Payload
      <4>a. [design |-> d, code |-> code] \in [design : Forms, code : Codes]
          BY SdkAssumption
      <4>b. PICK value : value = [design |-> d, code |-> code]
          OBVIOUS
      <4>3. /\ value \in [design : Forms, code : Codes]
            /\ value = [design |-> d, code |-> code] /\ value.design = d
          BY <4>a, <4>b
      <4>4. it = ParseModelProposal(Case, value, <<pass.current>>)
          BY <4>2, <4>3
      <4> HIDE DEF it
      <4>5. Coerced[d] = d /\ d # None
          BY SdkAssumption
      <4>6. it # None
        <5>1. value # None
            BY <4>3 DEF None
        <5> QED
            BY <4>3, <4>4, <4>5, <5>1, MarksDiffer DEF ParseModelProposal
      <4> QED
          BY <4>1, <4>3, <4>4, <4>5, <4>6, ReadAgain
    <3> HIDE DEF it
    <3>2. pass' = [pass EXCEPT
              !.current = IF it = None THEN @ ELSE it, !.error = code \notin PublicOk,
              !.repairs = Append(@, [parent |-> pass.current, child |-> it])]
        BY <2>2, <3>1 DEF it
    <3> QED
        BY <3>1, <3>2
  <2> QED
      BY <2>1, <2>2 DEF RepairCode
<1> DEFINE item == [parent |-> pass.current, child |-> child]
           next == IF child = None THEN pass.current ELSE child
<1>3. /\ pass'.kind = pass.kind /\ pass'.turn = pass.turn /\ pass'.rows = pass.rows
      /\ pass'.open = pass.open /\ pass'.initial = pass.initial /\ pass'.current = next
      /\ pass'.repairs = Append(pass.repairs, item) /\ pass'.writes = pass.writes
      /\ PassShape'
    BY <1>1, <1>2 DEF PassInOrder, PassShape
<1>4. /\ pass.kind = "generate" /\ pass.current # None /\ Len(pass.repairs) < MaxRepairs
      /\ pass.initial # None
    BY <1>1 DEF NeedsRepair, CaseInOrder, Descent
<1>5. RowsAgree'
    BY <1>1, <1>3 DEF PassInOrder, RowsAgree
<1>6. CaseInOrder'
  <2>1. Left'
      BY <1>1, <1>3 DEF CaseInOrder, Left
  <2>2. /\ Listed(pass.repairs) /\ LinkedTo(pass.current, Links(pass.initial, pass.repairs))
        /\ pass.current \notin {None, Torn} /\ pass.current.design = pass.initial.design
        /\ pass.current.task = Case
        /\ pass.current.parents = <<>> => pass.current = pass.initial
        /\ pass.current.parents # <<>> => Rereads(Case, pass.current)
      BY <1>1, <1>4 DEF CaseInOrder, Descent
  <2>3. LinkedTo(next, Links(pass.initial, Append(pass.repairs, item)))
    <3>1. CASE child = None
        BY <2>2, <3>1, RefusedLinks
    <3>2. CASE child # None
        BY <1>2, <2>2, <3>2, ChildLinks
    <3> QED
        BY <3>1, <3>2
  <2>4. /\ next \notin {None, Torn} /\ next.design = pass.initial.design
        /\ next.task = Case
        /\ next.parents = <<>> => next = pass.initial
        /\ next.parents # <<>> => Rereads(Case, next)
      BY <1>2, <2>2
  <2> HIDE DEF next, item
  <2>a. Case' = Case
      BY <1>3 DEF Case
  <2>b. /\ disk[Case].raw \in Raws
        /\ pass.initial = ParseModelProposal(Case, Parsed[pass.kind][disk[Case].raw], <<>>)
      BY <1>1 DEF CaseInOrder, Descent
  <2>5. Descent'
      BY <1>1, <1>3, <1>4, <2>3, <2>4, <2>a, <2>b DEF Descent
  <2>6. Listed(pass'.repairs) /\ Len(pass'.repairs) <= MaxRepairs
      BY <1>3, <1>4, <2>2, ListedAppend, SdkAssumption
  <2>7. pass'.writes \in Pending(pass'.kind, pass'.initial)
        /\ pass'.writes = Files(pass'.kind, pass'.initial)
        /\ pass'.writes = <<"proposal", "chain", "binding">>
      BY <1>1, <1>3, <1>4 DEF CaseInOrder, Files, Pending
  <2>8. Written'
    <3>1. Pends("proposal")' /\ Pends("binding")' /\ Pends("chain")'
        BY <2>7 DEF Pends
    <3> QED
        BY <1>3, <1>4, <3>1 DEF Written
  <2> QED
      BY <2>1, <2>5, <2>6, <2>7, <2>8 DEF CaseInOrder
<1>7. PassInOrder'
    BY <1>1, <1>3, <1>5, <1>6 DEF PassInOrder
<1> QED
    BY <1>1, <1>7 DEF SdkInv, DiskShape, ReportAgrees, ExitTrue, ConfirmationSound

\* One more file of the case at hand is written.
LEMMA WriteKeeps ==
    ASSUME SdkInv, WriteFile
    PROVE  SdkInv'
<1> DEFINE file == Head(pass.writes)
<1>1. /\ PassInOrder /\ CaseInOrder /\ DiskShape /\ pass.open /\ ~NeedsRepair
      /\ pass.writes # <<>> /\ status = "running"
      /\ UNCHANGED <<report, status, gate>>
      /\ disk' = [disk EXCEPT ![Case][file] = Content(file)]
      /\ pass' = [pass EXCEPT !.writes = Tail(@)]
    BY DEF SdkInv, WriteFile, Writing, PassInOrder
<1>2. /\ file \in {"proposal", "chain", "binding"}
      /\ Tail(pass.writes) \in Pending(pass.kind, pass.initial)
      /\ pass.initial = None => pass.kind = "generate" /\ file = "chain"
      /\ \A f \in {"proposal", "chain", "binding"} :
             (\E i \in DOMAIN pass.writes : pass.writes[i] = f)
                 => f = file \/ \E i \in DOMAIN Tail(pass.writes) : Tail(pass.writes)[i] = f
  <2>1. pass.writes \in Pending(pass.kind, pass.initial)
      BY <1>1 DEF CaseInOrder
  <2>2. CASE pass.writes = <<"proposal", "chain", "binding">>
      BY <2>1, <2>2 DEF Pending
  <2>3. CASE pass.writes = <<"chain", "binding">>
      BY <2>1, <2>3 DEF Pending
  <2>4. CASE pass.writes = <<"binding">>
      BY <2>1, <2>4 DEF Pending
  <2>5. CASE pass.writes = <<"proposal", "binding", "chain">>
      BY <2>1, <2>5 DEF Pending
  <2>6. CASE pass.writes = <<"binding", "chain">>
      BY <2>1, <2>6 DEF Pending
  <2>7. CASE pass.writes = <<"chain">>
      BY <2>1, <2>7 DEF Pending
  <2> QED
      BY <1>1, <2>1, <2>2, <2>3, <2>4, <2>5, <2>6, <2>7 DEF Pending
<1>3. Case \in Cases
    BY <1>1, Positions DEF Case, Left, CaseInOrder, PassInOrder, PassShape
<1> HIDE DEF file
<1>4. /\ DiskShape'
      /\ disk'[Case].raw = disk[Case].raw
      /\ disk'[Case].proposal = IF file = "proposal" THEN Content(file) ELSE disk[Case].proposal
      /\ disk'[Case].chain = IF file = "chain" THEN Content(file) ELSE disk[Case].chain
      /\ disk'[Case].binding = IF file = "binding" THEN Content(file) ELSE disk[Case].binding
      /\ \A c \in Cases \ {Case} : disk'[c] = disk[c]
  <2>1. disk[Case] = [raw |-> disk[Case].raw, proposal |-> disk[Case].proposal,
                      chain |-> disk[Case].chain, binding |-> disk[Case].binding]
      BY <1>1, <1>3 DEF DiskShape
  <2>2. disk' = [c \in Cases |-> IF c = Case THEN [disk[Case] EXCEPT ![file] = Content(file)]
                                 ELSE disk[c]]
      BY <1>1, <1>3 DEF DiskShape
  <2>3. [disk[Case] EXCEPT ![file] = Content(file)]
            = [raw |-> disk[Case].raw,
               proposal |-> IF file = "proposal" THEN Content(file) ELSE disk[Case].proposal,
               chain |-> IF file = "chain" THEN Content(file) ELSE disk[Case].chain,
               binding |-> IF file = "binding" THEN Content(file) ELSE disk[Case].binding]
    <3>1. CASE file = "proposal"
        BY <2>1, <3>1
    <3>2. CASE file = "chain"
        BY <2>1, <3>2
    <3>3. CASE file = "binding"
        BY <2>1, <3>3
    <3> QED
        BY <1>2, <3>1, <3>2, <3>3
  <2>4. disk'[Case]
            = [raw |-> disk[Case].raw,
               proposal |-> IF file = "proposal" THEN Content(file) ELSE disk[Case].proposal,
               chain |-> IF file = "chain" THEN Content(file) ELSE disk[Case].chain,
               binding |-> IF file = "binding" THEN Content(file) ELSE disk[Case].binding]
      BY <1>3, <2>2, <2>3
  <2>5. disk'[Case] = [raw |-> disk'[Case].raw, proposal |-> disk'[Case].proposal,
                       chain |-> disk'[Case].chain, binding |-> disk'[Case].binding]
      BY <2>4
  <2>6. \A c \in Cases \ {Case} : disk'[c] = disk[c]
      BY <2>2
  <2>7. \A c \in Cases : disk'[c] = [raw |-> disk'[c].raw, proposal |-> disk'[c].proposal,
                                   chain |-> disk'[c].chain, binding |-> disk'[c].binding]
      BY <1>1, <2>5, <2>6 DEF DiskShape
  <2>8. DiskShape'
    <3>1. \A c \in Cases : disk'[c].raw = disk[c].raw
        BY <2>4, <2>6
    <3> QED
        BY <1>1, <2>2, <2>7, <3>1 DEF DiskShape
  <2> QED
      BY <2>4, <2>6, <2>8
<1>5. /\ pass'.kind = pass.kind /\ pass'.turn = pass.turn /\ pass'.rows = pass.rows
      /\ pass'.open = pass.open /\ pass'.initial = pass.initial
      /\ pass'.current = pass.current /\ pass'.error = pass.error
      /\ pass'.repairs = pass.repairs /\ pass'.writes = Tail(pass.writes)
      /\ PassShape'
    BY <1>1 DEF PassInOrder, PassShape
<1>6. RowsAgree'
  <2> SUFFICES ASSUME NEW i \in 1 .. pass.turn - 1
               PROVE  Agrees(pass.kind, pass.rows[i], CaseOrder[i], disk'[CaseOrder[i]])
      BY <1>5 DEF RowsAgree
  <2>1. CaseOrder[i] \in Cases /\ CaseOrder[i] # Case
      BY <1>1, Positions DEF PassInOrder, PassShape, Case, CaseInOrder, Left
  <2> QED
      BY <1>1, <1>4, <2>1 DEF PassInOrder, RowsAgree
<1>7. Written'
  <2>1. Case' = Case /\ Chain' = Chain
      BY <1>5 DEF Case, Chain
  <2>2. Content("proposal") = pass.current /\ Content("binding") = Binding(pass.current)
        /\ Content("chain") = Chain
      BY DEF Content
  <2>3. \A f \in {"proposal", "chain", "binding"} : Pends(f) => f = file \/ Pends(f)'
      BY <1>2, <1>5 DEF Pends
  <2>4. Written
      BY <1>1 DEF CaseInOrder
  <2> QED
      BY <1>2, <1>4, <1>5, <2>1, <2>2, <2>3, <2>4 DEF Written
<1>8. CaseInOrder'
  <2>1. Left' /\ ~NeedsRepair'
      BY <1>1, <1>5 DEF CaseInOrder, Left, NeedsRepair
  <2>2. Case' = Case /\ disk'[Case].raw = disk[Case].raw
      BY <1>4, <1>5 DEF Case
  <2>3. Descent'
      BY <1>1, <1>5, <2>2 DEF CaseInOrder, Descent
  <2> QED
      BY <1>1, <1>2, <1>5, <1>7, <2>1, <2>3 DEF CaseInOrder
<1>9. PassInOrder'
    BY <1>1, <1>5, <1>6, <1>8 DEF PassInOrder
<1> QED
    BY <1>1, <1>4, <1>9 DEF SdkInv, ReportAgrees, ExitTrue, ConfirmationSound

\* The row of a finished case is about the files the case has now.
LEMMA EndCaseKeeps ==
    ASSUME SdkInv, EndCase
    PROVE  SdkInv'
<1>1. /\ PassInOrder /\ CaseInOrder /\ DiskShape /\ pass.open /\ ~NeedsRepair
      /\ pass.writes = <<>> /\ status = "running"
      /\ UNCHANGED <<disk, report, status, gate>>
      /\ pass' = Between(pass.kind, pass.turn + 1, Append(pass.rows, Row))
    BY DEF SdkInv, EndCase, PassInOrder
<1>2. Agrees(pass.kind, Row, Case, disk[Case])
  <2>1. \A f : ~Pends(f)
      BY <1>1 DEF Pends
  <2>2. Row.parser_valid = (pass.initial # None) /\ Row.proposal_digest = pass.current
      BY DEF Row
  <2>3. CASE pass.initial = None
    <3>1. CASE pass.kind = "generate"
      <4>1. disk[Case].chain = Chain
          BY <1>1, <2>1, <2>3, <3>1 DEF CaseInOrder, Written
      <4>2. Chain.final = None
          BY <1>1, <2>3 DEF CaseInOrder, Descent, Chain
      <4>3. ~Accepts(Case, disk[Case])
          BY <4>1, <4>2 DEF Accepts, ChainHolds
      <4> QED
          BY <2>2, <2>3, <4>3 DEF Agrees
    <3>2. CASE pass.kind # "generate"
      <4>1. pass.kind = "replay"
          BY <1>1, <3>2 DEF PassInOrder, PassShape, Kinds
      <4> QED
          BY <2>2, <2>3, <4>1 DEF Agrees
    <3> QED
        BY <3>1, <3>2
  <2>4. CASE pass.initial # None
    <3>1. /\ disk[Case].proposal = pass.current
          /\ disk[Case].binding = Binding(pass.current)
          /\ disk[Case].chain = Chain
        BY <1>1, <2>1, <2>4 DEF CaseInOrder, Written
    <3>2. /\ pass.current \notin {None, Torn} /\ pass.current.design = pass.initial.design
          /\ pass.current.task = Case
          /\ LinkedTo(pass.current, Links(pass.initial, pass.repairs))
          /\ Len(pass.repairs) <= MaxRepairs
        BY <1>1, <2>4 DEF CaseInOrder, Descent
    <3>3. /\ Chain.initial = pass.initial /\ Chain.final = pass.current
          /\ Chain.repairs = pass.repairs /\ Chain.frozen = pass.initial.design
          /\ Chain \notin {None, Torn}
        BY <2>4, MarksDiffer DEF Chain
    <3>4. ChainHolds(pass.current, Chain)
        BY <3>2, <3>3, LinksRead DEF ChainHolds
    <3>5. Accepts(Case, disk[Case]) <=> Rereads(Case, pass.current)
        BY <3>1, <3>2, <3>4 DEF Accepts, Rereads
    <3>6. Rereads(Case, pass.current) <=> ~ReadLoosely(pass.kind, disk[Case])
      <4>1. /\ pass.initial = ParseModelProposal(Case, Parsed[pass.kind][disk[Case].raw], <<>>)
            /\ disk[Case].raw \in Raws /\ pass.kind \in Kinds
            /\ pass.current.parents = <<>> => pass.current = pass.initial
            /\ pass.current.parents # <<>> => Rereads(Case, pass.current)
          BY <1>1, <2>4 DEF CaseInOrder, Descent, PassInOrder, PassShape
      <4>2. PICK value \in [design : Forms, code : Codes] \cup {None} :
                value = Parsed[pass.kind][disk[Case].raw]
          BY <4>1, ParsedValues
      <4>3. Rereads(Case, pass.initial) <=> value.design \in Designs
          BY <2>4, <4>1, <4>2, ReadAgain
      <4>4. ReadLoosely(pass.kind, disk[Case]) <=>
                pass.current.parents = <<>> /\ value.design \notin Designs
          BY <3>1, <4>2 DEF ReadLoosely
      <4> QED
          BY <4>1, <4>3, <4>4
    <3> QED
        BY <2>2, <2>4, <3>1, <3>5, <3>6 DEF Agrees
  <2> QED
      BY <2>3, <2>4
<1>3. /\ pass'.kind = pass.kind /\ pass'.turn = pass.turn + 1
      /\ pass'.rows = Append(pass.rows, Row)
      /\ pass'.open = FALSE /\ pass'.repairs = <<>>
    BY <1>1 DEF Between
<1>4. pass.turn \in 1 .. Len(CaseOrder) /\ Len(pass.rows) = pass.turn - 1 /\ Listed(pass.rows)
    BY <1>1, Positions DEF PassInOrder, PassShape, CaseInOrder, Left
<1>5. PassShape'
  <2>1. Listed(pass'.rows) /\ Len(pass'.rows) = pass'.turn - 1
      BY <1>3, <1>4, ListedAppend
  <2>2. pass'.turn \in 1 .. Len(CaseOrder) + 1 /\ pass'.kind \in Kinds
      BY <1>1, <1>3, <1>4, Positions DEF PassInOrder, PassShape
  <2>3. pass' = [kind |-> pass'.kind, turn |-> pass'.turn, rows |-> pass'.rows,
                 open |-> pass'.open, initial |-> pass'.initial, current |-> pass'.current,
                 error |-> pass'.error, repairs |-> pass'.repairs, writes |-> pass'.writes]
      BY <1>1 DEF Between
  <2> QED
      BY <1>3, <2>1, <2>2, <2>3 DEF PassShape
<1>6. RowsAgree'
  <2> SUFFICES ASSUME NEW i \in 1 .. pass.turn
               PROVE  Agrees(pass.kind, pass'.rows[i], CaseOrder[i], disk[CaseOrder[i]])
      BY <1>1, <1>3, <1>4 DEF RowsAgree
  <2>1. CASE i = pass.turn
      BY <1>2, <1>3, <1>4, <2>1, ListedAppend DEF Case
  <2>2. CASE i # pass.turn
    <3>1. i \in 1 .. pass.turn - 1
        BY <1>4, <2>2
    <3>2. pass'.rows[i] = pass.rows[i]
        BY <1>3, <1>4, <3>1, ListedAppend
    <3> QED
        BY <1>1, <3>1, <3>2 DEF PassInOrder, RowsAgree
  <2> QED
      BY <2>1, <2>2
<1>7. PassInOrder'
    BY <1>3, <1>5, <1>6 DEF PassInOrder
<1> QED
    BY <1>1, <1>7 DEF SdkInv, DiskShape, ReportAgrees, ExitTrue, ConfirmationSound

LEMMA EndPassKeeps ==
    ASSUME SdkInv, EndPass
    PROVE  SdkInv'
<1>1. /\ PassInOrder /\ status = "running" /\ ~Left
      /\ UNCHANGED <<disk, pass, gate>>
      /\ report' = [kind |-> pass.kind, rows |-> pass.rows]
      /\ status' = IF AllParsed(pass.rows) THEN "0" ELSE "2"
    BY DEF SdkInv, EndPass
<1>2. /\ report'.kind = pass.kind /\ report'.rows = pass.rows
      /\ status' # "running"
    BY <1>1
<1>3. pass.turn = Len(CaseOrder) + 1 /\ Listed(pass.rows) /\ Len(pass.rows) = Len(CaseOrder)
    BY <1>1, Positions DEF PassInOrder, PassShape, Left
<1>4. DOMAIN pass.rows = DOMAIN CaseOrder
    BY <1>3, ListedAppend, Positions
<1>5. \A i \in DOMAIN CaseOrder :
          Agrees(pass.kind, pass.rows[i], CaseOrder[i], disk[CaseOrder[i]])
    BY <1>1, <1>3, Positions DEF PassInOrder, RowsAgree
<1>6. ReportAgrees'
    BY <1>1, <1>2, <1>5 DEF ReportAgrees, Agrees
<1>7. ExitTrue'
    BY <1>1, <1>2, <1>4 DEF ExitTrue, AllParsed
<1> QED
    BY <1>1, <1>2, <1>6, <1>7 DEF SdkInv, DiskShape, ConfirmationSound

LEMMA CrashKeeps ==
    ASSUME SdkInv, Crash
    PROVE  SdkInv'
<1>1. status = "running" /\ status' = "crashed" /\ gate' = gate
    BY DEF Crash
<1>2. DiskShape'
  <2>1. CASE UNCHANGED disk
      BY <2>1 DEF SdkInv, DiskShape
  <2>2. CASE /\ Writing /\ disk' = [disk EXCEPT ![Case][Head(pass.writes)] = Torn]
    <3>1. /\ DiskShape /\ PassInOrder /\ CaseInOrder
        BY <1>1, <2>2 DEF SdkInv, Writing, PassInOrder
    <3>2. Case \in Cases
        BY <3>1, Positions DEF Case, Left, CaseInOrder, PassInOrder, PassShape
    <3>3. disk' = [c \in Cases |-> IF c = Case THEN [disk[Case] EXCEPT ![Head(pass.writes)] = Torn]
                                   ELSE disk[c]]
        BY <2>2, <3>1, <3>2 DEF DiskShape
    <3>4. disk[Case] = [raw |-> disk[Case].raw, proposal |-> disk[Case].proposal,
                        chain |-> disk[Case].chain, binding |-> disk[Case].binding]
        BY <3>1, <3>2 DEF DiskShape
    <3>5. disk'[Case] = [raw |-> disk'[Case].raw, proposal |-> disk'[Case].proposal,
                         chain |-> disk'[Case].chain, binding |-> disk'[Case].binding]
        BY <3>2, <3>3, <3>4
    <3>6. Head(pass.writes) # "raw"
        BY <2>2, <3>1 DEF Writing, CaseInOrder, Pending
    <3>7. \A c \in Cases : disk'[c].raw = disk[c].raw
        BY <3>3, <3>4, <3>6
    <3> QED
        BY <3>1, <3>2, <3>3, <3>5, <3>7 DEF DiskShape
  <2>3. CASE /\ Left /\ ~pass.open /\ Outputs # {}
             /\ \E text \in Raws : disk' = [disk EXCEPT ![Case].raw = text]
    <3>1. Case \in Cases /\ DiskShape
        BY <1>1, <2>3, Positions DEF SdkInv, PassInOrder, PassShape, Case, Left
    <3> QED
        BY <2>3, <3>1 DEF DiskShape
  <2> QED
      BY <2>1, <2>2, <2>3 DEF Crash
<1> QED
    BY <1>1, <1>2 DEF SdkInv, ReportAgrees, ExitTrue, ConfirmationSound

-----------------------------------------------------------------------------
(* What the gate concludes                                                 *)

\* As many positions as cases: no case is counted twice.
LEMMA CasesCounted ==
    ASSUME NEW I \in SUBSET (DOMAIN CaseOrder)
    PROVE  Cardinality({CaseOrder[i] : i \in I}) = Cardinality(I)
<1> DEFINE name == [i \in I |-> CaseOrder[i]]
           image == {CaseOrder[i] : i \in I}
<1>1. name \in [I -> image]
    OBVIOUS
<1>2. \A i, j \in I : name[i] = name[j] => i = j
    BY SdkAssumption
<1>3. \A c \in image : \E i \in I : name[i] = c
    OBVIOUS
<1> HIDE DEF name, image
<1>4. name \in Bijection(I, image)
    BY <1>1, <1>2, <1>3 DEF Bijection, Injection, Surjection, IsInjective
<1>5. IsFiniteSet(I)
  <2>1. IsFiniteSet(1 .. Len(CaseOrder)) /\ I \in SUBSET (1 .. Len(CaseOrder))
      BY Positions, FS_Interval
  <2> QED
      BY <2>1, FS_Subset
<1>6. Cardinality(image) = Cardinality(I)
    BY <1>4, <1>5, FS_Bijection DEF ExistsBijection
<1> QED
    BY <1>6 DEF image

LEMMA GateKeeps ==
    ASSUME SdkInv, RunGate
    PROVE  SdkInv'
<1>1. UNCHANGED <<disk, report, pass, status>> /\ status # "running"
    BY DEF RunGate
<1>2. PICK bound \in BOOLEAN :
          gate' = [passed |->
                      /\ bound
                      /\ \A c \in Cases : Accepts(c, disk[c])
                      /\ Cardinality({c \in Cases : Executable(c, disk[c])}) >= MinimumValid
                      /\ ControlsPassed,
                  proposals |-> [i \in DOMAIN CaseOrder |->
                      LET c == CaseOrder[i]
                      IN  IF Accepts(c, disk[c]) THEN disk[c].proposal ELSE None],
                  generation |-> report, status |-> status]
    BY DEF RunGate
<1>3. /\ gate'.passed => /\ \A c \in Cases : Accepts(c, disk[c])
                         /\ Cardinality({c \in Cases : Executable(c, disk[c])}) >= MinimumValid
      /\ gate'.proposals = [i \in DOMAIN CaseOrder |->
             IF Accepts(CaseOrder[i], disk[CaseOrder[i]]) THEN disk[CaseOrder[i]].proposal ELSE None]
      /\ gate'.generation = report /\ gate'.status = status
    BY <1>2
<1>4. ConfirmationSound'
  <2> SUFFICES ASSUME gate'.passed, status = "0"
               PROVE  /\ \A i \in DOMAIN CaseOrder :
                             gate'.proposals[i] = report.rows[i].proposal_digest
                      /\ Cardinality({i \in DOMAIN CaseOrder :
                             report.rows[i].proposal_digest.code \in GateOk}) >= MinimumValid
      BY <1>3 DEF ConfirmationSound
  <2>1. \A i \in DOMAIN CaseOrder :
            /\ Accepts(CaseOrder[i], disk[CaseOrder[i]])
            /\ disk[CaseOrder[i]].proposal = report.rows[i].proposal_digest
    <3>1. \A i \in DOMAIN CaseOrder :
              Accepts(CaseOrder[i], disk[CaseOrder[i]])
        BY <1>3 DEF Cases
    <3> QED
        BY <3>1 DEF SdkInv, ReportAgrees, ExitTrue
  <2> DEFINE I == {i \in DOMAIN CaseOrder : report.rows[i].proposal_digest.code \in GateOk}
  <2>2. {c \in Cases : Executable(c, disk[c])} = {CaseOrder[i] : i \in I}
      BY <2>1 DEF Executable, Cases
  <2>3. Cardinality({CaseOrder[i] : i \in I}) = Cardinality(I)
      BY CasesCounted
  <2> QED
      BY <1>3, <2>1, <2>2, <2>3
<1> QED
    BY <1>1, <1>4 DEF SdkInv, DiskShape, ReportAgrees, ExitTrue

LEMMA SdkInductive == Spec => []SdkInv
<1>1. SdkInv /\ [Next]_vars => SdkInv'
  <2> SUFFICES ASSUME SdkInv, [Next]_vars PROVE SdkInv'
      OBVIOUS
  <2>1. CASE UNCHANGED vars
    <3>1. UNCHANGED <<disk, report, pass, status, passes, gate>>
        BY <2>1 DEF vars
    <3>2. PassInOrder' = PassInOrder
        BY <3>1 DEF PassInOrder, PassShape, RowsAgree, CaseInOrder, Left, Descent,
                    NeedsRepair, Written, Pends, Case, Chain
    <3> QED
        BY <3>1, <3>2 DEF SdkInv, DiskShape, ReportAgrees, ExitTrue, ConfirmationSound
  <2> QED
      BY <2>1, StartKeeps, BeginCaseKeeps, RepairKeeps, WriteKeeps, EndCaseKeeps,
         EndPassKeeps, CrashKeeps, GateKeeps DEF Next
<1> QED
    BY <1>1, InitSdk, PTL DEF Spec

\* Whatever passes, repairs and crashes came before, what a pass that ended reports
\* of a case is what the gate finds on disk and accepts, unless it is a first proposal
\* read from JSON in another form than its payload's (proposal_io.py:96-104,
\* generate_sdk_proposals.py:316-346, replay_frozen_outputs.py:48-67,
\* run_sdk_gate.py:70-115).
THEOREM ReportsAgree == Spec => []ReportAgrees
<1>1. SdkInv => ReportAgrees
    BY DEF SdkInv
<1> QED
    BY <1>1, SdkInductive, PTL

\* A gate that passes after a pass that exited with 0 accepted the proposals that
\* pass reported, case by case, and as many of them execute as must
\* (run_sdk_gate.py:250-291).
THEOREM ConfirmationsSound == Spec => []ConfirmationSound
<1>1. SdkInv => ConfirmationSound
    BY DEF SdkInv
<1> QED
    BY <1>1, SdkInductive, PTL
=============================================================================
