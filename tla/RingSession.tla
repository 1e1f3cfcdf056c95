---------------------------- MODULE RingSession ----------------------------
(***************************************************************************)
(* The device with its event sources on top of EventDelivery: any report   *)
(* of the production image, or the simulated call session of the DEV       *)
(* images, DevRingEventCoordinator (src/src/dev/dev_ring_event.cpp), as    *)
(* the loop of src/src/dev/dev_ring_simulator_main.cpp drives it.  Its     *)
(* buttons are already debounced (DevRingButtonController): an update sees *)
(* at most one edge of each.                                               *)
(***************************************************************************)
EXTENDS EventDelivery

VARIABLES
    state,        \* state_
    activeCall    \* activeCallId_, 0 for the empty string

sessionVars == <<state, activeCall>>
allVars == <<vars, sessionVars>>

SessionInit == Init /\ state = "IDLE" /\ activeCall = 0

(* A start edge opens a session under a new call id.  It is looked at first*)
(* and ends the update: an end edge of the same update is dropped.         *)
StartRinging ==
    /\ image = "dev"
    /\ state = "IDLE"
    /\ made + 2 <= MaxEvents    \* the bound leaves room for the end
    /\ Produce("RING_DETECTED", made + 1)
    /\ activeCall' = made + 1
    /\ state' = "RINGING"

(* Mutant of EndRinging: the call id is cleared before the event is made.  *)
EndRingingCleared ==
    /\ state = "RINGING"
    /\ Produce("RING_ENDED", 0)
    /\ state' = "IDLE"
    /\ activeCall' = 0

(* The end button or the safety timeout, never both.                       *)
EndRinging ==
    /\ state = "RINGING"
    /\ Produce("RING_ENDED", activeCall)
    /\ state' = "IDLE"
    /\ activeCall' = 0

RestartSession ==
    /\ Restart
    /\ state' = "IDLE"
    /\ activeCall' = 0

Next ==
    \/ StartRinging \/ EndRinging \/ RestartSession
    \/ (Report \/ Deliver \/ LinkLost \/ SessionDrops) /\ UNCHANGED sessionVars

Spec == SessionInit /\ [][Next]_allVars

(* The loop runs for ever, and the safety timeout ends a session.          *)
FairSpec ==
    /\ Spec
    /\ WF_allVars(Deliver /\ UNCHANGED sessionVars)
    /\ WF_allVars(EndRinging)

----------------------------------------------------------------------------
(* Properties.                                                             *)

(* A RING_ENDED is never ingested ahead of the RING_DETECTED of its own    *)
(* call, unless a full outbox dropped that one                             *)
(* (src/docs/communication-protocol.md section 16.1).                      *)
EndedAfterDetected ==
    \A i \in 1..Len(seen) : seen[i].name = "RING_ENDED" =>
        \/ \E j \in 1..(i - 1) : seen[j].name = "RING_DETECTED" /\ seen[j].call = seen[i].call
        \/ seen[i].call \in evicted

=============================================================================
