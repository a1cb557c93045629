------------------------------- MODULE MainWindow ------------------------------
(***************************************************************************)
(* src/delfosclient/src/mainwindow.cpp: the window of the client with one  *)
(* form a tab.  The forms share the GUI thread and nothing else, so that a *)
(* behaviour in which the user stays on one tab shows all that the slots   *)
(* of a form can do to each other.                                         *)
(***************************************************************************)
EXTENDS PbxForm, LMForm, GariForm, ACMForm

VARIABLE tab   \* bound: the tab the user stays on

vars == <<consoleVars, pbxFormVars, lmFormVars, gariFormVars, acmFormVars,
          tab>>

Tab == {"PBXClient", "ACMClient", "GARIClient", "LMClient"}

Init ==
  /\ Init_Console
  /\ Init_PbxForm
  /\ Init_LMForm
  /\ Init_GariForm
  /\ Init_ACMForm
  /\ tab \in Tab

(***************************************************************************)
(* Bound: clicks and events are those of the form of the current tab.      *)
(***************************************************************************)
Clicked(name) == events' = events \/ tab = name

Pbx ==
  /\ PbxFormSlots /\ Clicked("PBXClient")
  /\ UNCHANGED <<lmFormVars, gariFormVars, acmFormVars, tab>>

LM ==
  /\ LMFormSlots /\ Clicked("LMClient")
  /\ UNCHANGED <<pbxFormVars, gariFormVars, acmFormVars, tab>>

Gari ==
  /\ GariFormSlots /\ Clicked("GARIClient")
  /\ UNCHANGED <<pbxFormVars, lmFormVars, acmFormVars, tab>>

ACM ==
  /\ ACMFormSlots /\ Clicked("ACMClient")
  /\ UNCHANGED <<pbxFormVars, lmFormVars, gariFormVars, tab>>

EventLoop == Pbx \/ LM \/ Gari \/ ACM

HangupSlot ==
  /\ frame # Crashed
  /\ HangupChannelsSlot
  /\ UNCHANGED <<lmFormVars, gariFormVars, acmFormVars, tab>>

DetachedThread(t) ==
  /\ frame # Crashed
  /\ ThreadStep(t)
  /\ UNCHANGED <<lmFormVars, gariFormVars, acmFormVars, tab>>

Next ==
  \/ EventLoop \/ HangupSlot
  \/ \E t \in Thread : DetachedThread(t)

Spec == Init /\ [][Next]_vars
-----------------------------------------------------------------------------
(* The forms, the suspended slot and the tab stay within their types. *)
TypeOK ==
  /\ PbxFormTypes /\ LMFormTypes /\ GariFormTypes /\ ACMFormTypes
  /\ events \in 0..MaxEvents
  /\ frame.at \in {"ask", "answer"}
  /\ tab \in Tab
=============================================================================
