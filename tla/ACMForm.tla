-------------------------------- MODULE ACMForm --------------------------------
(***************************************************************************)
(* src/delfosclient/src/acmform.cpp: alphas (short numbers a landing page  *)
(* shows) reserved at the ACM and freed again.  _alpha_map is ordered; the *)
(* slots work on its first entry.  An answer without an alpha is stored    *)
(* under the empty string.  A slot whose request fails cannot tell whether *)
(* the ACM carried it out and the reply got lost.                          *)
(***************************************************************************)
EXTENDS Console, FiniteSetsExt

CONSTANT Alpha

ASSUME AlphaAssumption == Alpha \subseteq Nat \ {0}

VARIABLES
  alpha_map,    \* the alphas in _alpha_map
  acm_alphas,   \* external: the alphas the ACM has reserved; of its own
                \* accord it takes none back
  excess        \* history: frees whose reply got lost, and answers without
                \* an alpha

acmFormVars == <<alpha_map, acm_alphas, excess>>

Init_ACMForm == alpha_map = {} /\ acm_alphas = {} /\ excess = 0

NoAlpha == 0   \* the empty string, which sorts first

-----------------------------------------------------------------------------
RequestNewAlpha(a) ==
  /\ a \notin acm_alphas
  /\ acm_alphas' = acm_alphas \cup ({a} \ {NoAlpha})

NewAlphaButton ==
  \/ Begin("newAlpha", <<>>) /\ UNCHANGED acmFormVars
  \/ \E a \in Alpha \cup {NoAlpha} :
       /\ RequestNewAlpha(a)
       /\ excess' = IF a = NoAlpha THEN excess + 1 ELSE excess
       /\ \/ Answered("newAlpha", <<a>>) /\ UNCHANGED alpha_map
          \/ Whole("newAlpha") /\ alpha_map' = alpha_map \cup {a}
  \/ /\ \E a \in Alpha : RequestNewAlpha(a)
     /\ Unanswered("newAlpha")
     /\ UNCHANGED <<alpha_map, excess>>
  \/ /\ Return("newAlpha", "answer")
     /\ alpha_map' = alpha_map \cup {frame.got[1]}
     /\ UNCHANGED <<acm_alphas, excess>>

(***************************************************************************)
(* By token or by list.  The first entry is read before the request and    *)
(* what is then the first one is erased after the response is written.     *)
(* The ACM may accept the request without having such an alpha or token.   *)
(***************************************************************************)
RequestFreeAlpha ==
  /\ alpha_map # {}
  /\ acm_alphas' \in {acm_alphas, acm_alphas \ {Min(alpha_map)}}

\* a bug: the freed entry is kept
KeepFirst == UNCHANGED alpha_map

EraseFirst ==
  alpha_map' = IF alpha_map = {} THEN {} ELSE alpha_map \ {Min(alpha_map)}

FreeAlphaButton ==
  \/ Begin("freeAlpha", <<>>) /\ UNCHANGED acmFormVars
  \/ /\ RequestFreeAlpha
     /\ \/ Answered("freeAlpha", <<>>) /\ UNCHANGED alpha_map
        \/ Whole("freeAlpha") /\ EraseFirst
     /\ UNCHANGED excess
  \/ /\ RequestFreeAlpha
     /\ Unanswered("freeAlpha")
     /\ excess' = excess + 1
     /\ UNCHANGED alpha_map
  \/ /\ Return("freeAlpha", "answer")
     /\ EraseFirst
     /\ UNCHANGED <<acm_alphas, excess>>

(***************************************************************************)
(* Alpha Status, Get Alpha and Go Alpha read the first entry of a map they *)
(* did not test: with an empty map the client may crash.                   *)
(***************************************************************************)
FirstAlphaButton ==
  /\ \/ Begin("alphaStatus", <<>>)
     \/ Return("alphaStatus", "ask")
     \/ /\ frame.slot = "alphaStatus"
        /\ alpha_map = {}
        /\ frame' = Crashed
        /\ UNCHANGED events
  /\ UNCHANGED acmFormVars

(* Refused, or no alpha reserved. *)
ACMRefuses ==
  /\ Return("newAlpha", "ask") \/ Return("freeAlpha", "ask")
  /\ UNCHANGED acmFormVars

ACMFormSlots ==
  NewAlphaButton \/ FreeAlphaButton \/ FirstAlphaButton \/ ACMRefuses

-----------------------------------------------------------------------------
ACMFormTypes ==
  /\ alpha_map \in SUBSET (Alpha \cup {NoAlpha})
  /\ acm_alphas \in SUBSET Alpha
  /\ excess \in Nat

(***************************************************************************)
(* The form has no more alphas than the ACM has reserved for it, once a    *)
(* response being written is accounted for.  Only a free whose reply got   *)
(* lost and an answer without an alpha add one each; slots that run inside *)
(* the lines of a free may make it erase another alpha than the one freed, *)
(* but never leave the form with one too many.                             *)
(***************************************************************************)
NoAlphaTooMany ==
  LET writing(slot) ==
        IF frame.slot = slot /\ frame.at = "answer" THEN 1 ELSE 0
  IN  Cardinality(alpha_map) + writing("newAlpha")
        <= Cardinality(acm_alphas) + writing("freeAlpha") + excess
=============================================================================
