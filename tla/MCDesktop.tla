------------------------------ MODULE MCDesktop ------------------------------
(* Instances for TLC of what surrounds a session in the desktop shell: its     *)
(* prompt queue under any caller, the handoff of its helper to a terminal, and *)
(* the recovery of the window's web content.  They share no state, so each     *)
(* behaviour runs one of them and leaves the others as they started.           *)
EXTENDS NativeInputQueue, TerminalHandoff, WebContentRecovery

VARIABLE part
desktopVars == <<part, vars, handoffVars, webVars>>

\* Messages may be submitted behind no fence, or behind one foreground command.
\* Nothing tells one message from another but its history.
MCFences == {0, 1}
MsgSymmetry == Permutations(Msgs)

Documents == [documents |-> 3, generation |-> 3, panels |-> 0, saves |-> 0, calls |-> 1]
Panels == [documents |-> 2, generation |-> 1, panels |-> 2, saves |-> 3, calls |-> 2]
MCWebBounds == {Documents, Panels}

\* A part that rests has the first of its instances.
DesktopInit ==
  /\ part \in {"queue", "handoff", "web"}
  /\ Init /\ HandoffInit /\ WebInit
  /\ part # "handoff" => ~ses.sid
  /\ part # "web" => limit = Documents

DesktopNext ==
  /\ UNCHANGED part
  /\ \/ part = "queue" /\ Next /\ UNCHANGED <<handoffVars, webVars>>
     \/ part = "handoff" /\ HandoffNext /\ UNCHANGED <<vars, webVars>>
     \/ part = "web" /\ WebNext /\ UNCHANGED <<vars, handoffVars>>

DesktopSpec == DesktopInit /\ [][DesktopNext]_desktopVars
=============================================================================
