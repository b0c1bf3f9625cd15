------------------------------ MODULE Register ------------------------------
(***************************************************************************)
(* What the state files promise to the daemon: a register that survives    *)
(* crashes.  `active` is what the daemon acts on, None while it is down;   *)
(* `found` is the set of values that a restart could find at this moment;  *)
(* `settled` is FALSE after a write that failed and could not be undone.   *)
(***************************************************************************)
CONSTANTS Value, None

VARIABLES active, found, settled

vars == <<active, found, settled>>

Init == active \in Value /\ found = {active} /\ settled = TRUE

\* A write is under way or has failed: one more value may be found, and what the
\* daemon acts on stays among them until the new value has replaced it for good.
Move ==
    /\ \E v \in Value : found' \subseteq found \cup {v}
    /\ found' # {}
    /\ settled => active \in found' \/ \E v \in Value : found' = {v}
    /\ UNCHANGED <<active, settled>>

\* A write fails and cannot be undone: the daemon acts on, and what a restart
\* finds may be something else.
Unsettle ==
    /\ active # None
    /\ settled' = FALSE
    /\ UNCHANGED <<active, found>>

\* A new value is acted on only when no restart could find another one.
Adopt ==
    /\ active # None
    /\ found = {active'}
    /\ settled' = TRUE
    /\ UNCHANGED found

\* The daemon goes down, perhaps with the power.
Lose ==
    /\ active' = None
    /\ found' \subseteq found
    /\ found' # {}
    /\ settled' = TRUE

\* A restart acts on one of the values it could find.
Recover ==
    /\ active = None
    /\ active' \in found
    /\ UNCHANGED <<found, settled>>

Next == Move \/ Unsettle \/ Adopt \/ Lose \/ Recover

Spec == Init /\ [][Next]_vars
=============================================================================
