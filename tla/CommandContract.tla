-------------------------- MODULE CommandContract --------------------------
(***************************************************************************)
(* What the backend may rely on about a remote command, whatever happens   *)
(* to the network and to the device (docs/communication-protocol.md, 20):  *)
(* a command is decided once, and not again before Capacity other commands *)
(* were decided or a memory without persistence lost its power; its story  *)
(* is the terminal answer, announced by ACCEPTED at most once and never    *)
(* after it; and every copy of an answer tells the same decision.          *)
(***************************************************************************)
EXTENDS Naturals, Sequences, FiniteSets

CONSTANTS
    Cmd,         \* command identifiers
    Verdicts,    \* the terminal answers
    Announced,   \* those that ACCEPTED announces
    Capacity,    \* how many commands are remembered at least
    Volatile     \* whether a restart may forget them all

VARIABLES
    decided,     \* decided[c]: the decision on c, or "undecided"
    told,        \* told[c]: the answers to c since it was last decided,
                 \* copies not counted
    since        \* since[c]: the commands decided since c was last decided

Undecided == "undecided"

Init ==
    /\ decided = [c \in Cmd |-> Undecided]
    /\ told = [c \in Cmd |-> <<>>]
    /\ since = [c \in Cmd |-> {}]

(* The answer that goes out with the decision, if any does.                *)
First(v) == IF v \in Announced THEN "ACCEPTED" ELSE v

(* The commands that may be forgotten.                                     *)
Crowded == {d \in Cmd : Cardinality(since[d]) >= Capacity}

(* A decision begins the story of c and may crowd other commands out.      *)
Decide(c, v) ==
    /\ since' = [d \in Cmd |-> IF d = c THEN {} ELSE since[d] \cup {c}]
    /\ decided[c] = Undecided
    /\ \E forgotten \in SUBSET Crowded' :
         decided' = [d \in Cmd |-> IF d = c THEN v
                                   ELSE IF d \in forgotten THEN Undecided ELSE decided[d]]
    /\ told' \in {[told EXCEPT ![c] = <<>>], [told EXCEPT ![c] = <<First(v)>>]}

TellAccepted(c) ==
    /\ decided[c] \in Announced
    /\ told[c] = <<>>
    /\ told' = [told EXCEPT ![c] = <<"ACCEPTED">>]
    /\ UNCHANGED <<decided, since>>

TellTerminal(c) ==
    /\ decided[c] \in Verdicts
    /\ \A i \in DOMAIN told[c] : told[c][i] # decided[c]
    /\ told' = [told EXCEPT ![c] = Append(@, decided[c])]
    /\ UNCHANGED <<decided, since>>

(* A restart without persistence.                                          *)
ForgetAll ==
    /\ Volatile
    /\ decided' = [c \in Cmd |-> Undecided]
    /\ UNCHANGED <<told, since>>

Next ==
    \/ \E c \in Cmd : \/ \E v \in Verdicts : Decide(c, v)
                      \/ TellAccepted(c)
                      \/ TellTerminal(c)
    \/ ForgetAll

Spec == Init /\ [][Next]_<<decided, told, since>>
=============================================================================
