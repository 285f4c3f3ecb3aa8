----------------------------- MODULE Diagnostics -----------------------------
(***************************************************************************)
(* diagnostics.go: the marker lists of the three diagnostics contexts.     *)
(*                                                                         *)
(* Each method below holds the context's own lock for its whole body and   *)
(* nothing else, so each is one step; what is NOT one step is a caller     *)
(* that first serializes and then clears (logger.go, module Logger).       *)
(* A marker is its key and a serial number, which also gives its place in  *)
(* the list; step, action, tags and timestamps are left out.               *)
(***************************************************************************)
EXTENDS Integers

CONSTANTS
    Keys,       \* diagnostics keys
    Rates,      \* sampling rates, out of 10000, that the server may send
    MaxMarks    \* bound: no call that marks starts once so many markers were made

ASSUME DiagnosticsAssumption == Rates \subseteq 0..10000 /\ MaxMarks \in Nat

VARIABLES
    markers,        \* [context -> set of markers]
    samplingRates,  \* [context -> [key -> rate, or NoRate]]
    marked          \* history: markers made so far, which is also the last serial

diagVars == <<markers, samplingRates, marked>>

NoRate == -1

Contexts == {"initialize", "config_sync", "api_call"}

Marker == [id : Nat, key : Keys]

DiagTypeOK ==
    /\ markers \in [Contexts -> SUBSET Marker]
    /\ samplingRates \in [Contexts -> [Keys -> Rates \cup {NoRate}]]
    /\ marked \in Nat

DiagInit ==
    /\ markers = [c \in Contexts |-> {}]
    /\ samplingRates = [c \in Contexts |-> [k \in Keys |-> NoRate]]
    /\ marked = 0

\* Mutant: the marker takes the place of the list.
markReplacing(c, k) ==
    /\ marked' = marked + 1
    /\ markers' = [markers EXCEPT ![c] = {[id |-> marked + 1, key |-> k]}]
    /\ UNCHANGED samplingRates

\* (m *marker) mark(), at the end of a chain that chose context and key.
mark(c, k) ==
    /\ marked' = marked + 1
    /\ markers' = [markers EXCEPT ![c] = @ \cup {[id |-> marked + 1, key |-> k]}]
    /\ UNCHANGED samplingRates

(***************************************************************************)
(* serializeWithSampling() draws once per key that has a rate and leaves   *)
(* out every marker of the keys drawn.  sample(rate) is rnd*10000 < rate:  *)
(* it cannot hold for rate 0 and cannot fail for rate 10000.               *)
(***************************************************************************)
SampledKeys(c) ==
    {S \in SUBSET {m.key : m \in markers[c]} :
        \A m \in markers[c] :
            /\ m.key \in S => samplingRates[c][m.key] > 0
            /\ samplingRates[c][m.key] = 10000 => m.key \in S}

serializeWithSampling(c, sampled) == {m \in markers[c] : m.key \notin sampled}

clearMarkers(c) ==
    /\ markers' = [markers EXCEPT ![c] = {}]
    /\ UNCHANGED <<samplingRates, marked>>

(***************************************************************************)
(* updateSamplingRates replaces the whole table of one context.  Its only  *)
(* caller, setConfigSpecs, updates initialize and config_sync; the rates   *)
(* of api_call stay empty for ever.                                        *)
(***************************************************************************)
updateSamplingRates(c, rates) ==
    /\ c \in {"initialize", "config_sync"}
    /\ samplingRates' = [samplingRates EXCEPT ![c] = rates]
    /\ UNCHANGED <<markers, marked>>
=============================================================================
