-------------------------- MODULE DeploymentPromise --------------------------
(***************************************************************************)
(* What an iterative deployment promises about the CloudFormation stack:   *)
(* it is led through the plan's templates one at a time; it turns back at  *)
(* most once, and then only goes back; the way forward ends at the new     *)
(* template or in turning back, the way back ends at the old one or is     *)
(* broken off, and a later command may take it up where it was.            *)
(***************************************************************************)
EXTENDS Integers

CONSTANT N

VARIABLES pos,    \* position of the stack in the plan
          phase   \* "idle", "forward", "backward" or "broken"

walk == <<pos, phase>>

Init == pos = 0 /\ phase = "idle"

Begin    == phase = "idle" /\ pos = 0 /\ phase' = "forward" /\ UNCHANGED pos
Resume   == phase \in {"idle", "broken"} /\ phase' = "backward" /\ UNCHANGED pos
Forward  == phase = "forward" /\ pos < N /\ pos' = pos + 1 /\ UNCHANGED phase
TurnBack == phase = "forward" /\ pos < N /\ phase' = "backward" /\ UNCHANGED pos
Backward == phase = "backward" /\ pos > 0 /\ pos' = pos - 1 /\ UNCHANGED phase
Finish   == /\ \/ phase = "forward" /\ pos = N
               \/ phase = "backward" /\ pos = 0
            /\ phase' = "idle" /\ UNCHANGED pos
BreakOff == phase = "backward" /\ pos > 0 /\ phase' = "broken" /\ UNCHANGED pos

Walk == Forward \/ TurnBack \/ Backward \/ Finish \/ BreakOff

Next == Begin \/ Resume \/ Walk

\* Where the stack may be led, step by step.
OnPath == Init /\ [][Next]_walk

\* A walk that has begun does not stop on the way.
Spec == OnPath /\ WF_walk(Walk)
=============================================================================
