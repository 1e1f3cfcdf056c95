------------------------------ MODULE ClockProbe ------------------------------
(***************************************************************************)
(* The clock meter of the Si3050 probe                                     *)
(* (src/src/dev/si3050_clock_probe_meter_main.cpp): two pulse counters     *)
(* count PCLK and FSYNC edges in hardware, an interrupt counts their       *)
(* overflows, and the loop reads and resets both once a window.  A counter *)
(* goes back to 0 by itself at its limit and raises the interrupt, also    *)
(* while the loop's critical section keeps the handler out.                *)
(***************************************************************************)
EXTENDS Integers, Sequences

CONSTANTS
    HLimit,      \* kClockProbePcntHighLimit
    MaxEdges     \* bound on the edges of one input

ASSUME MeterAssumption == {HLimit, MaxEdges} \subseteq Nat \ {0}

VARIABLES
    meterPc,     \* "setup", "dead", "loop", or a step of the sample of a unit
    sampling,    \* the unit the loop samples
    brought,     \* how many steps of bringUpPcnt() are done
    raw,         \* the hardware counters
    over,        \* g_pclkOverflowCount, g_fsyncOverflowCount
    pending,     \* the overflow interrupt waits for its handler
    got,         \* the sample: [over, raw] of each unit
    edges,       \* the rising edges there really were
    reported,    \* the edges reported in all the windows together
    torn         \* overflows between the reading of a counter and its clearing

counterVars == <<raw, over, pending, edges>>
meterVars == <<meterPc, sampling, brought, counterVars, got, reported, torn>>

Units == {"pclk", "fsync"}

(* The steps of bringUpPcnt() in their order, with the unit of each: both  *)
(* units configured, paused and cleared, then the service, then the        *)
(* handlers, then both counting.                                           *)
BringUpSteps ==
    <<<<"configure", "pclk">>, <<"configure", "fsync">>, <<"service", "both">>,
      <<"arm", "pclk">>, <<"arm", "fsync">>, <<"resume", "pclk">>, <<"resume", "fsync">>>>

Done(step, unit) == \E i \in 1..brought : BringUpSteps[i] = <<step, unit>>

MeterTypeOK ==
    /\ meterPc \in {"setup", "dead", "loop", "take", "read", "clear"}
    /\ sampling \in Units
    /\ brought \in 0..Len(BringUpSteps)
    /\ raw \in [Units -> 0..(HLimit - 1)]
    /\ {over, edges, reported, torn} \subseteq [Units -> Nat]
    /\ pending \in [Units -> BOOLEAN]
    /\ got \in [Units -> [over: Nat, raw: Nat]]

NoEdges == [u \in Units |-> 0]

MeterInit ==
    /\ meterPc = "setup" /\ sampling = "pclk" /\ brought = 0
    /\ raw = NoEdges /\ over = NoEdges /\ edges = NoEdges /\ reported = NoEdges
    /\ torn = NoEdges
    /\ pending = [u \in Units |-> FALSE]
    /\ got = [u \in Units |-> [over |-> 0, raw |-> 0]]

----------------------------------------------------------------------------
(* setup(): the first step that fails ends it, and nothing is reported.    *)
(* isPcntIsrServiceReady() takes "already installed" for a success.        *)
BringUp ==
    /\ meterPc = "setup"
    /\ \/ /\ brought' = brought + 1
          /\ meterPc' = IF brought' = Len(BringUpSteps) THEN "loop" ELSE "setup"
       \/ meterPc' = "dead" /\ UNCHANGED brought
    /\ UNCHANGED <<sampling, counterVars, got, reported, torn>>

(* The hardware counts, paused or masked handlers or not.                  *)
Edge(u) ==
    /\ edges[u] < MaxEdges
    /\ Done("resume", u)
    /\ edges' = [edges EXCEPT ![u] = @ + 1]
    /\ raw' = [raw EXCEPT ![u] = (@ + 1) % HLimit]
    /\ pending' = [pending EXCEPT ![u] = @ \/ raw[u] + 1 = HLimit]
    /\ torn' = IF raw[u] + 1 = HLimit /\ meterPc = "clear" /\ sampling = u
               THEN [torn EXCEPT ![u] = @ + 1] ELSE torn
    /\ UNCHANGED <<meterPc, sampling, brought, over, got, reported>>

Masked == meterPc \in {"read", "clear"}

(* Clearing the counter loses the edges since it went back to 0.           *)
Overflow(u) ==
    /\ pending[u] /\ ~Masked /\ Done("arm", u)
    /\ over' = [over EXCEPT ![u] = @ + 1]
    /\ raw' = [raw EXCEPT ![u] = 0]
    /\ pending' = [pending EXCEPT ![u] = FALSE]
    /\ UNCHANGED <<meterPc, sampling, brought, got, edges, reported, torn>>

----------------------------------------------------------------------------
(* loop(): the end of a window, then sampleAndResetUnit() for each unit.   *)

WindowEnds ==
    /\ meterPc = "loop"
    /\ meterPc' = "take" /\ sampling' = "pclk"
    /\ UNCHANGED <<brought, counterVars, got, reported, torn>>

(* Mutant of OverflowsLeft: the overflows are not reset.                   *)
OverflowsKept == over[sampling]
OverflowsLeft == 0

TakeOverflows ==
    /\ meterPc = "take" /\ meterPc' = "read"
    /\ got' = [got EXCEPT ![sampling].over = over[sampling]]
    /\ over' = [over EXCEPT ![sampling] = OverflowsLeft]
    /\ UNCHANGED <<sampling, brought, raw, pending, edges, reported, torn>>

ReadCounter ==
    /\ meterPc = "read" /\ meterPc' = "clear"
    /\ got' = [got EXCEPT ![sampling].raw = raw[sampling]]
    /\ UNCHANGED <<sampling, brought, counterVars, reported, torn>>

(* combinePulseCount(): the counter never exceeds its limit.               *)
PulseCount(sample) == sample.over * HLimit + sample.raw

(* The counter is cleared; after the second unit the window is reported.   *)
ClearCounter ==
    /\ meterPc = "clear"
    /\ raw' = [raw EXCEPT ![sampling] = 0]
    /\ IF sampling = "pclk"
       THEN /\ meterPc' = "take" /\ sampling' = "fsync"
            /\ UNCHANGED reported
       ELSE /\ meterPc' = "loop" /\ UNCHANGED sampling
            /\ reported' = [u \in Units |-> reported[u] + PulseCount(got[u])]
    /\ UNCHANGED <<brought, over, pending, got, edges, torn>>

MeterNext ==
    \/ BringUp \/ WindowEnds \/ TakeOverflows \/ ReadCounter \/ ClearCounter
    \/ \E u \in Units : Edge(u) \/ Overflow(u)

----------------------------------------------------------------------------
(* Properties.                                                             *)

(* The meter may lose edges, but reports one that was not there only when  *)
(* a counter overflows between its reading and its clearing: the critical  *)
(* section (sampleAndResetUnit()) keeps the handler out, not the hardware, *)
(* and that window's edges are then counted again by the handler.  Any     *)
(* other overflow counts once and for its own unit.                        *)
InventsOnlyTorn ==
    \A u \in Units : reported[u] <= edges[u] + (HLimit - 1) * torn[u]
=============================================================================
