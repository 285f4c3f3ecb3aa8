------------------------------- MODULE Client -------------------------------
(***************************************************************************)
(* client.go, error_boundary.go and the getters of types.go: the calls an  *)
(* application makes, any number of them at once, while syncs change what  *)
(* they evaluate to.                                                       *)
(*                                                                         *)
(* A call is a record with its own program counter.  Its evaluation is one *)
(* step here (module Evaluator has the steps), with a result that depends  *)
(* on what is being served: a value, a result to be fetched from the       *)
(* server, or a panic.  The logger and the diagnostics are the events and  *)
(* markers they accept (modules EventQueue, Diagnostics).                  *)
(***************************************************************************)
EXTENDS Integers, Sequences, FiniteSets, TLC

CONSTANTS
    Ops,            \* the operations the application calls
    Exceptions,     \* texts of panics
    Keys, Types,    \* keys of a config's value and the types of values there
    None,
    Outcomes,       \* [kind -> set of results an evaluation may have]
    ServerValue,    \* [kind -> result the server computes]
    MaxCalls,       \* bound: calls
    MaxReads,       \* bound: reads of a value by a getter, per call
    MaxSyncs        \* bound: changes of what evaluations come to

Kinds == {"gate", "config", "layer"}

CheckOps  == {"CheckGate", "GetConfig", "GetExperiment", "GetLayer"}
ManualOps == {"ManuallyLogGateExposure", "ManuallyLogConfigExposure",
              "ManuallyLogLayerParameterExposure"}

\* ManuallyLogExperimentExposure is ManuallyLogConfigExposure.
AllOps == CheckOps \cup ManualOps \cup {"LogEvent", "LogImmediate"}

KindOf(op) ==
    CASE op \in {"CheckGate", "ManuallyLogGateExposure"} -> "gate"
      [] op \in {"GetLayer", "ManuallyLogLayerParameterExposure"} -> "layer"
      [] OTHER -> "config"

\* Names of rules and experiments; None is the empty string.
IDs == STRING \cup {None}

\* evalResult, as far as clients use it.  explicit are the parameters that
\* the delegate sets.
Results ==
    [panic : Exceptions \cup {None}, fetch : BOOLEAN, pass : BOOLEAN, id : IDs,
     value : [Keys -> Types \cup {None}], delegate : IDs, explicit : SUBSET Keys]

ZeroResult ==
    [panic |-> None, fetch |-> FALSE, pass |-> FALSE, id |-> None,
     value |-> [k \in Keys |-> None], delegate |-> None, explicit |-> {}]

ASSUME ClientAssumption ==
    /\ Ops \subseteq AllOps
    /\ None \notin Exceptions \cup Types
    /\ \A k \in Kinds : Outcomes[k] \subseteq Results /\ Outcomes[k] # {}
    /\ \A k \in Kinds : ServerValue[k] \in Results
    /\ MaxCalls \in Nat /\ MaxReads \in Nat /\ MaxSyncs \in Nat

VARIABLES
    calls,      \* sequence of all calls, over or not
    served,     \* [kind -> what an evaluation comes to now]
    seen,       \* errorBoundary.seen
    reports,    \* [exception -> requests to /sdk_exception]
    events,     \* sequence of what the logger, or LogImmediate, was given
    marks,      \* [kind -> [start, end]]: markers of the api context
    syncs       \* bound: changes of served so far

vars == <<calls, served, seen, reports, events, marks, syncs>>

Places ==
    {"eval", "fetch", "log", "send", "recover", "report", "end", "endFailed", "returned"}

Calls ==
    [op : AllOps, logs : BOOLEAN, accepted : BOOLEAN, at : Places,
     result : Results,              \* what the application gets
     source : {"none", "local", "server"},
     handle : BOOLEAN,              \* LogExposure of the layer is not nil
     panic : Exceptions \cup {None},
     reads : 0..MaxReads]

Events ==
    [call : Nat, kind : Kinds \cup {"custom"}, id : IDs, pass : BOOLEAN,
     key : Keys \cup {None}, allocated : IDs, manual : BOOLEAN]

TypeOK ==
    /\ calls \in Seq(Calls) /\ Len(calls) <= MaxCalls
    /\ \A k \in Kinds : served[k] \in Outcomes[k]
    /\ seen \subseteq Exceptions
    /\ reports \in [Exceptions -> Nat]
    /\ events \in Seq(Events)
    /\ marks \in [Kinds -> [start : Nat, end : Nat]]
    /\ syncs \in 0..MaxSyncs

Init ==
    /\ calls = <<>>
    /\ served \in [Kinds -> UNION {Outcomes[k] : k \in Kinds}]
    /\ \A k \in Kinds : served[k] \in Outcomes[k]
    /\ seen = {}
    /\ reports = [x \in Exceptions |-> 0]
    /\ events = <<>>
    /\ marks = [k \in Kinds |-> [start |-> 0, end |-> 0]]
    /\ syncs = 0

-----------------------------------------------------------------------------
Goto(i, at) == calls' = [calls EXCEPT ![i].at = at]

\* Only the capture functions of checks mark the start and end of a call.
Mark(op, which) ==
    marks' = IF op \in CheckOps THEN [marks EXCEPT ![KindOf(op)][which] = @ + 1] ELSE marks

\* accepted is what the operation checks first: verifyUser, that an event has
\* a name, that there are not too many events (Send has one more check of
\* LogImmediate's).  GetExperiment verifies the
\* user once more, in front of the error boundary.
Start(op, logs, accepted) ==
    LET outside == op = "GetExperiment" /\ ~accepted
        at == IF outside THEN "returned"
              ELSE IF ~accepted THEN (IF op = "LogImmediate" THEN "returned" ELSE "end")
              ELSE IF op = "LogEvent" THEN "log"
              ELSE IF op = "LogImmediate" THEN "send"
              ELSE "eval"
    IN  /\ Len(calls) < MaxCalls
        /\ logs \/ op \in CheckOps
        /\ calls' = Append(calls, [op |-> op, logs |-> logs, accepted |-> accepted, at |-> at,
                                   result |-> ZeroResult, source |-> "none", handle |-> FALSE,
                                   panic |-> None, reads |-> 0])
        /\ IF outside THEN UNCHANGED marks ELSE Mark(op, "start")
        /\ UNCHANGED <<served, seen, reports, events, syncs>>

\* Mutant: the option that disables the exposure is overlooked.
LogsAtOnceAlways(c, res) == c.op \in ManualOps \/ (c.op # "GetLayer" /\ ~res.fetch)

\* Layers log later, when a parameter is read.
LogsAtOnce(c, res) ==
    c.op \in ManualOps \/ (c.logs /\ c.op # "GetLayer" /\ ~res.fetch)

\* evaluator.checkGate, getConfig or getLayer.  The Manually... functions do
\* not look at FetchFromServer and log what is in the result nevertheless.
Evaluate(i) ==
    LET c == calls[i]
        res == served[KindOf(c.op)]
    IN  /\ c.at = "eval"
        /\ calls' = [calls EXCEPT ![i] =
               IF res.panic # None THEN [c EXCEPT !.at = "recover", !.panic = res.panic]
               ELSE [c EXCEPT !.result = res, !.source = "local", !.handle = c.op = "GetLayer",
                              !.at = IF LogsAtOnce(c, res) THEN "log"
                                     ELSE IF res.fetch THEN "fetch" ELSE "end"]]
        /\ UNCHANGED <<served, seen, reports, events, marks, syncs>>

\* fetchGate, fetchConfig: one request; the zero value if it fails, if its
\* answer cannot be decoded, or in LocalMode.
Fetch(i, ok) ==
    LET c == calls[i] IN
    /\ c.at = "fetch"
    /\ calls' = [calls EXCEPT ![i] =
           [c EXCEPT !.result = IF ok THEN ServerValue[KindOf(c.op)] ELSE ZeroResult,
                     !.source = "server", !.at = "end"]]
    /\ UNCHANGED <<served, seen, reports, events, marks, syncs>>

Exposure(i, kind, res, key, manual) ==
    LET isExplicit == key # None /\ key \in res.explicit
    IN  [call |-> i, kind |-> kind, id |-> res.id, pass |-> res.pass, key |-> key,
         allocated |-> IF isExplicit THEN res.delegate ELSE None, manual |-> manual]

CustomEvent(i) == Exposure(i, "custom", ZeroResult, None, FALSE)

\* logGateExposure, logConfigExposure, logLayerExposure, logCustom.
Log(i, key) ==
    LET c == calls[i] IN
    /\ c.at = "log"
    /\ (key # None) = (c.op = "ManuallyLogLayerParameterExposure")
    /\ events' = Append(events,
           IF c.op = "LogEvent" THEN CustomEvent(i)
           ELSE Exposure(i, KindOf(c.op), c.result, key, c.op \in ManualOps))
    /\ Goto(i, "end")
    /\ UNCHANGED <<served, seen, reports, marks, syncs>>

\* LogImmediate's request, outside the error boundary and the logger; the
\* events hold the users as they were given, but for their environment.
\* Events that cannot be encoded are refused and nothing is sent.
Send(i, encodes) ==
    /\ calls[i].at = "send"
    /\ calls' = [calls EXCEPT ![i].at = "returned", ![i].accepted = encodes]
    /\ events' = IF encodes THEN Append(events, CustomEvent(i)) ELSE events
    /\ UNCHANGED <<served, seen, reports, marks, syncs>>

\* Mutant: the exception is not remembered.
checkSeenForgets(x) == seen' = seen \ {x}

\* checkSeen, under seenLock: remember x, whether or not it is new.
checkSeen(x) == seen' = seen \cup {x}

\* ebRecover and the first half of logException.
Recover(i) ==
    LET x == calls[i].panic IN
    /\ calls[i].at = "recover"
    /\ checkSeen(x)
    /\ Goto(i, IF x \in seen THEN "endFailed" ELSE "report")
    /\ UNCHANGED <<served, reports, events, marks, syncs>>

\* The rest of logException: one request, whatever comes of it.
Report(i) ==
    LET x == calls[i].panic IN
    /\ calls[i].at = "report"
    /\ reports' = [reports EXCEPT ![x] = @ + 1]
    /\ Goto(i, "endFailed")
    /\ UNCHANGED <<served, seen, events, marks, syncs>>

\* Mutant: the callback of ebRecover is not called.
EndUnmarked(i) ==
    /\ calls[i].at \in {"end", "endFailed"}
    /\ IF calls[i].at = "end" THEN Mark(calls[i].op, "end") ELSE UNCHANGED marks
    /\ Goto(i, "returned")
    /\ UNCHANGED <<served, seen, reports, events, syncs>>

\* The end of a capture function, or ebRecover's callback: the end marker.
\* After a panic the result is the zero value.
End(i) ==
    /\ calls[i].at \in {"end", "endFailed"}
    /\ Mark(calls[i].op, "end")
    /\ Goto(i, "returned")
    /\ UNCHANGED <<served, seen, reports, events, syncs>>

\* Mutant: the layer logs what it would be now.
LayerResultNow(c) == IF served["layer"].panic = None THEN served["layer"] ELSE c.result

\* The result the closure logFunc holds.
LayerResult(c) == c.result

\* GetString, GetNumber, GetBool, GetSlice, GetMap of a config or layer that
\* a call returned, for a key with a value of that type; otherwise they only
\* return the fallback.
Get(i, key, type) ==
    LET c == calls[i] IN
    /\ c.at = "returned" /\ c.op \in CheckOps \ {"CheckGate"}
    /\ c.result.value[key] = type
    /\ c.reads < MaxReads
    /\ calls' = [calls EXCEPT ![i].reads = @ + 1]
    /\ events' = IF c.handle /\ c.logs
                 THEN Append(events, Exposure(i, "layer", LayerResult(c), key, FALSE))
                 ELSE events
    /\ UNCHANGED <<served, seen, reports, marks, syncs>>

\* A sync or an override changes what a kind evaluates to.
Sync(kind, res) ==
    /\ syncs < MaxSyncs
    /\ served' = [served EXCEPT ![kind] = res]
    /\ syncs' = syncs + 1
    /\ UNCHANGED <<calls, seen, reports, events, marks>>

Step(i) ==
    \/ Evaluate(i)
    \/ \E ok \in BOOLEAN : Fetch(i, ok)
    \/ \E key \in Keys \cup {None} : Log(i, key)
    \/ \E encodes \in BOOLEAN : Send(i, encodes)
    \/ Recover(i) \/ Report(i) \/ End(i)

Next ==
    \/ \E op \in Ops, logs, accepted \in BOOLEAN : Start(op, logs, accepted)
    \/ \E i \in DOMAIN calls : Step(i) \/ \E key \in Keys, type \in Types : Get(i, key, type)
    \/ \E kind \in Kinds : \E res \in Outcomes[kind] : Sync(kind, res)

Spec == Init /\ [][Next]_vars

-----------------------------------------------------------------------------
(***************************************************************************)
(* Properties.                                                             *)
(***************************************************************************)
(***************************************************************************)
(* An exception that calls in any number of goroutines run into at the     *)
(* same time is sent to /sdk_exception exactly once: never twice           *)
(* (TestRepeatedError, for goroutines), and once a call that met it has    *)
(* returned, it has been sent or another call is sending it.               *)
(***************************************************************************)
ReportedOnce ==
    \A x \in Exceptions :
        LET reporting == {i \in DOMAIN calls : calls[i].at = "report" /\ calls[i].panic = x}
            met == {i \in DOMAIN calls :
                       calls[i].panic = x /\ calls[i].at \in {"endFailed", "returned"}}
        IN  /\ reports[x] + Cardinality(reporting) <= 1
            /\ met # {} => reports[x] + Cardinality(reporting) = 1

(***************************************************************************)
(* Every start marker of the api context has its end marker as soon as the *)
(* call is over, also if it panicked or its user was refused: a call       *)
(* without one is under way.                                               *)
(***************************************************************************)
MarkersPaired ==
    \A k \in Kinds :
        marks[k].start - marks[k].end =
            Cardinality({i \in DOMAIN calls : /\ calls[i].op \in CheckOps
                                              /\ KindOf(calls[i].op) = k
                                              /\ calls[i].at # "returned"})

EventsOf(i) == {n \in DOMAIN events : events[n].call = i}

\* The exposures a call that returned should have led to.
ExpectedExposures(c) ==
    IF ~c.accepted \/ c.panic # None THEN 0
    ELSE IF c.op = "GetLayer" THEN (IF c.logs THEN c.reads ELSE 0)
    ELSE IF c.op \in CheckOps THEN (IF c.logs /\ c.source = "local" THEN 1 ELSE 0)
    ELSE 1

(***************************************************************************)
(* A check that was evaluated here, with logging not disabled, leads to    *)
(* one exposure; one that the server evaluated, that panicked or whose     *)
(* user was refused to none; a layer to one for each parameter that is     *)
(* read from it.  A manual exposure or an event is logged once, unless it  *)
(* was refused.                                                            *)
(***************************************************************************)
ExposurePerCheck ==
    \A i \in DOMAIN calls :
        calls[i].at = "returned" => Cardinality(EventsOf(i)) = ExpectedExposures(calls[i])

(***************************************************************************)
(* An exposure says what the application was told: the value and rule its  *)
(* call returned, whatever syncs did between evaluation, logging and, for  *)
(* a layer, the read of a parameter; and the experiment of a layer only    *)
(* for parameters which that experiment sets.                              *)
(***************************************************************************)
ExposureIsWhatWasReturned ==
    \A n \in DOMAIN events :
        LET e == events[n]
            c == calls[e.call]
        IN  e.kind # "custom" =>
                /\ e.kind = KindOf(c.op)
                /\ e.id = c.result.id /\ e.pass = c.result.pass
                /\ e.allocated # None =>
                      e.allocated = c.result.delegate /\ e.key \in c.result.explicit

=============================================================================
