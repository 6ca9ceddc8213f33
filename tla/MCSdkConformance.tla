-------------------------- MODULE MCSdkConformance --------------------------
(***************************************************************************)
(* SdkConformance with two cases, two designs that share their hypothesis, *)
(* one of them also in another form (its schedule in whole numbers), and a *)
(* form with other seeds, which is refused; a code that fails the public   *)
(* check, one that passes it and fails a seed of the gate, and one that    *)
(* passes both.                                                            *)
(***************************************************************************)
EXTENDS SdkConformance

CONSTANTS c1, c2, d1, d2, integers, reseeded, h, broken, narrow, sound,
          clean, loose, looseBroken, partial

MCForms == {d1, d2, integers, reseeded}
MCCoerced ==
    [f \in MCForms |-> CASE f = integers -> d1 [] f = reseeded -> None [] OTHER -> f]
MCHypothesis == [d \in {d1, d2} |-> h]
MCCaseOrder == <<c1, c2>>
MCPublicOk == {narrow, sound}

\* The first object of partial has no solution: a generation stops at it.
MCParsed ==
    [k \in Kinds |-> [r \in {clean, loose, looseBroken, partial} |->
        CASE r = clean -> [design |-> d2, code |-> sound]
          [] r = loose -> [design |-> integers, code |-> sound]
          [] r = looseBroken -> [design |-> integers, code |-> broken]
          [] r = partial -> IF k = "generate" THEN None
                            ELSE [design |-> d2, code |-> narrow]]]
=============================================================================
