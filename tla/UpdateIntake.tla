---------------------------- MODULE UpdateIntake ----------------------------
(***************************************************************************)
(* What a channel promises of the updates a chat network has for it: while *)
(* the gateway lives each update is taken up once or turned away once, and *)
(* never comes back; a restart forgets the ones in work and may bring back *)
(* any that were taken up before.                                          *)
(***************************************************************************)
CONSTANT Updates

VARIABLES
  waiting, \* the network has them, the gateway has not looked at them
  working, \* queued or being answered
  over     \* answered, turned away, or lost by a restart

intakeVars == <<waiting, working, over>>

IntakeInit == waiting = {} /\ working = {} /\ over = {}

Arrive(u) ==
  /\ u \notin waiting \cup working \cup over
  /\ waiting' = waiting \cup {u}
  /\ UNCHANGED <<working, over>>

TakeUp(u) ==
  /\ u \in waiting
  /\ waiting' = waiting \ {u} /\ working' = working \cup {u}
  /\ UNCHANGED over

TurnAway(u) ==
  /\ u \in waiting
  /\ waiting' = waiting \ {u} /\ over' = over \cup {u}
  /\ UNCHANGED working

Finish(u) ==
  /\ u \in working
  /\ working' = working \ {u} /\ over' = over \cup {u}
  /\ UNCHANGED waiting

Restart ==
  /\ working' = {}
  /\ \E back \in SUBSET (working \cup over) :
        /\ waiting' = waiting \cup back
        /\ over' = (working \cup over) \ back

IntakeNext ==
  \/ Restart
  \/ \E u \in Updates : Arrive(u) \/ TakeUp(u) \/ TurnAway(u) \/ Finish(u)

IntakeSpec == IntakeInit /\ [][IntakeNext]_intakeVars
=============================================================================
