---------------------------- MODULE DebugTarget -----------------------------
(***************************************************************************)
(* What a GDB client may rely on, whatever the stub does inside: a target  *)
(* with a clock.  The clock counts executed instructions; "step" moves it  *)
(* forward by exactly one, "back" moves it back by exactly one and         *)
(* "continue" moves it forward by at least one; every resume command is    *)
(* answered by exactly one stop reply, at once for step and back, on       *)
(* arrival for continue; and the target does nothing while it is stopped.  *)
(* That going back is done by running the program again from the start is  *)
(* not visible here.                                                       *)
(***************************************************************************)
EXTENDS Naturals

VARIABLES phase, time, resumes, stops

tvars == <<phase, time, resumes, stops>>

(***************************************************************************)
(* "stopped": the client has control;  "arriving": no instruction will run *)
(* before it gets control;  "step": exactly one will;  "ahead", "between": *)
(* continuing, before and after an instruction;  "free": no client.        *)
(***************************************************************************)
Phases == {"stopped", "arriving", "step", "ahead", "between", "free", "gone"}

Start ==
  /\ phase \in {"arriving", "free"}
  /\ time = 0 /\ resumes = 0 /\ stops = 0

Arrive ==
  /\ phase = "arriving" /\ phase' = "stopped"
  /\ UNCHANGED <<time, resumes, stops>>

Step ==
  /\ phase = "stopped" /\ phase' = "step"
  /\ resumes' = resumes + 1 /\ stops' = stops + 1
  /\ UNCHANGED time

Back ==
  /\ phase = "stopped"
  /\ resumes' = resumes + 1 /\ stops' = stops + 1
  /\ \/ time > 0 /\ time' = time - 1 /\ phase' = "arriving"
     \/ time = 0 /\ UNCHANGED <<time, phase>>

Continue ==
  /\ phase = "stopped" /\ phase' = "ahead"
  /\ resumes' = resumes + 1
  /\ UNCHANGED <<time, stops>>

Tick ==
  /\ time' = time + 1
  /\ \/ phase = "step" /\ phase' \in {"arriving", "gone"}
     \/ phase = "ahead" /\ phase' \in {"between", "gone"}
     \/ phase = "free" /\ phase' \in {"free", "gone"}
  /\ UNCHANGED <<resumes, stops>>

PassBy ==
  /\ phase = "between" /\ phase' = "ahead"
  /\ UNCHANGED <<time, resumes, stops>>

Break ==
  /\ phase = "between" /\ phase' = "stopped"
  /\ stops' = stops + 1
  /\ UNCHANGED <<time, resumes>>

Quit ==
  /\ phase # "gone" /\ phase' = "gone"
  /\ UNCHANGED <<time, resumes, stops>>

Act == Arrive \/ Step \/ Back \/ Continue \/ Tick \/ PassBy \/ Break \/ Quit

Spec == Start /\ [][Act]_tvars
=============================================================================
