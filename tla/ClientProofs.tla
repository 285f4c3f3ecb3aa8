---------------------------- MODULE ClientProofs ----------------------------
(***************************************************************************)
(* Proofs about the client API, for any number of concurrent calls and any *)
(* results of evaluations.                                                 *)
(***************************************************************************)
EXTENDS Client, FiniteSetTheorems, TLAPS

(***************************************************************************)
(* The inductive invariant.  What is known of a call c from the place it   *)
(* is at: whether it was accepted, has met a panic, has a result.          *)
(***************************************************************************)
CallOK(c) ==
    /\ c.at \in {"eval", "fetch", "log", "send"} => c.accepted /\ c.panic = None
    /\ c.at = "end" => c.panic = None
    /\ c.at \in {"recover", "report", "endFailed"} => c.panic # None
    /\ c.at = "send" => c.op = "LogImmediate" /\ c.source = "none"
    /\ c.at = "eval" => c.op \in CheckOps \cup ManualOps /\ c.source = "none"
    /\ c.at = "fetch" => c.op \in CheckOps /\ c.source = "local"
    /\ c.at = "log" => \/ c.op \in ManualOps \cup {"LogEvent"}
                       \/ c.op \in CheckOps \ {"GetLayer"} /\ c.logs /\ c.source = "local"
    /\ c.handle <=> c.op = "GetLayer" /\ c.source # "none"
    /\ c.source = "none" => c.result = ZeroResult
    /\ c.source # "none" => c.accepted /\ c.panic = None
    /\ c.at # "returned" => c.reads = 0

\* served has a result for every kind, and for no other.
ServedOK == served \in [Kinds -> Results]

IInv == TypeOK /\ ServedOK /\ \A i \in DOMAIN calls : CallOK(calls[i])

Reporting(x) == {i \in DOMAIN calls : calls[i].at = "report" /\ calls[i].panic = x}

Met(x) == {i \in DOMAIN calls : calls[i].panic = x /\ calls[i].at \in {"endFailed", "returned"}}

\* What is seen is being reported or has been.
ReportInv ==
    \A x \in Exceptions :
        /\ reports[x] + Cardinality(Reporting(x)) = IF x \in seen THEN 1 ELSE 0
        /\ Met(x) # {} => x \in seen

Logged(c) == IF c.at \in {"end", "returned"} THEN ExpectedExposures(c) ELSE 0

\* Event e says what call c returned.
Faithful(e, c) ==
    e.kind # "custom" =>
        /\ e.kind = KindOf(c.op)
        /\ e.id = c.result.id /\ e.pass = c.result.pass
        /\ e.allocated # None => e.allocated = c.result.delegate /\ e.key \in c.result.explicit

EventInv ==
    /\ \A n \in DOMAIN events : events[n].call \in DOMAIN calls
                                /\ Faithful(events[n], calls[events[n].call])
    /\ \A i \in DOMAIN calls : Cardinality(EventsOf(i)) = Logged(calls[i])

-----------------------------------------------------------------------------
(***************************************************************************)
(* Operators of the model.                                                 *)
(***************************************************************************)
LEMMA ZeroOK ==
    /\ ZeroResult \in Results /\ \A k \in Keys : ZeroResult.value[k] = None
    /\ ZeroResult.explicit = {}
  BY DEF ZeroResult, Results, IDs

LEMMA KindOK == \A op : KindOf(op) \in Kinds
  BY DEF KindOf, Kinds

LEMMA ResultFields ==
    ASSUME NEW res \in Results
    PROVE  /\ res.panic \in Exceptions \cup {None} /\ res.fetch \in BOOLEAN /\ res.pass \in BOOLEAN
           /\ res.id \in IDs /\ res.delegate \in IDs /\ res.value \in [Keys -> Types \cup {None}]
           /\ res.explicit \subseteq Keys
  BY DEF Results

LEMMA CallFields ==
    ASSUME NEW c \in Calls
    PROVE  /\ c.op \in AllOps /\ c.logs \in BOOLEAN /\ c.accepted \in BOOLEAN /\ c.at \in Places
           /\ c.result \in Results /\ c.handle \in BOOLEAN /\ c.panic \in Exceptions \cup {None}
           /\ c.source \in {"none", "local", "server"} /\ c.reads \in 0..MaxReads
  BY DEF Calls

LEMMA TypeFacts ==
    ASSUME IInv
    PROVE  /\ calls \in Seq(Calls) /\ Len(calls) \in Nat /\ DOMAIN calls = 1..Len(calls)
           /\ events \in Seq(Events) /\ Len(events) \in Nat /\ DOMAIN events = 1..Len(events)
           /\ Len(calls) <= MaxCalls
           /\ seen \subseteq Exceptions /\ reports \in [Exceptions -> Nat]
           /\ marks \in [Kinds -> [start : Nat, end : Nat]] /\ syncs \in 0..MaxSyncs
           /\ served \in [Kinds -> Results]
           /\ \A k \in Kinds : served[k] \in Outcomes[k]
           /\ \A i \in DOMAIN calls : calls[i] \in Calls /\ CallOK(calls[i])
           /\ TypeOK
  BY DEF IInv, TypeOK, ServedOK

\* Call i goes on as r: its operation and options are what they were.
Put(i, r) ==
    /\ calls' = [calls EXCEPT ![i] = r]
    /\ r \in Calls
    /\ r.op = calls[i].op /\ r.logs = calls[i].logs
    /\ calls[i].at # "send" => r.accepted = calls[i].accepted

\* Only the place it is at changes.
Same(c, r) ==
    /\ r.result = c.result /\ r.source = c.source /\ r.handle = c.handle
    /\ r.panic = c.panic /\ r.reads = c.reads /\ r.accepted = c.accepted

LEMMA PutFacts ==
    ASSUME calls \in Seq(Calls), NEW i \in DOMAIN calls, NEW r, Put(i, r)
    PROVE  /\ calls' \in Seq(Calls) /\ Len(calls') = Len(calls)
           /\ DOMAIN calls' = DOMAIN calls /\ calls'[i] = r
           /\ \A j \in DOMAIN calls : j # i => calls'[j] = calls[j]
  BY DEF Put

LEMMA GotoPut ==
    ASSUME calls \in Seq(Calls), NEW i \in DOMAIN calls, NEW l \in Places, Goto(i, l)
    PROVE  \E r : Put(i, r) /\ Same(calls[i], r) /\ r.at = l
  <1> DEFINE r == [calls[i] EXCEPT !.at = l]
  <1>1. calls[i] \in Calls
    OBVIOUS
  <1>2. /\ r \in Calls /\ r.at = l /\ Same(calls[i], r)
        /\ r.op = calls[i].op /\ r.logs = calls[i].logs /\ r.accepted = calls[i].accepted
    BY <1>1 DEF Calls, Same
  <1>3. calls' = [calls EXCEPT ![i] = r]
    BY DEF Goto
  <1> HIDE DEF r
  <1>4. QED
    BY <1>2, <1>3 DEF Put

\* Evaluate with a panic, and with a result.
LEMMA EvaluatePut ==
    ASSUME IInv, NEW i \in DOMAIN calls, Evaluate(i)
    PROVE  LET c == calls[i]
               res == served[KindOf(c.op)]
           IN  /\ c.at = "eval" /\ UNCHANGED <<served, seen, reports, events, marks, syncs>>
               /\ \E r : /\ Put(i, r) /\ r.reads = c.reads
                         /\ \/ /\ r.at = "recover" /\ r.panic \in Exceptions /\ r.panic # None
                               /\ r.result = c.result /\ r.source = c.source /\ r.handle = c.handle
                            \/ /\ r.result = res /\ r.source = "local" /\ r.panic = c.panic
                               /\ r.handle = (c.op = "GetLayer")
                               /\ \/ r.at = "log" /\ LogsAtOnce(c, res)
                                  \/ r.at = "fetch" /\ ~LogsAtOnce(c, res) /\ res.fetch
                                  \/ r.at = "end" /\ ~LogsAtOnce(c, res) /\ ~res.fetch
  <1> DEFINE c == calls[i]
             res == served[KindOf(c.op)]
             l == IF LogsAtOnce(c, res) THEN "log" ELSE IF res.fetch THEN "fetch" ELSE "end"
             h == c.op = "GetLayer"
             failed == [[c EXCEPT !.at = "recover"] EXCEPT !.panic = res.panic]
             found == [[[[c EXCEPT !.result = res] EXCEPT !.source = "local"] EXCEPT !.handle = h]
                          EXCEPT !.at = l]
  <1>0. c \in Calls /\ res \in Results /\ res.panic \in Exceptions \cup {None}
    BY TypeFacts, KindOK, ResultFields
  <1>1. c.at = "eval" /\ UNCHANGED <<served, seen, reports, events, marks, syncs>>
    BY DEF Evaluate
  <1>2. l \in {"log", "fetch", "end"} /\ h \in BOOLEAN
    OBVIOUS
  <1>3. calls' = [calls EXCEPT ![i] = IF res.panic # None THEN failed ELSE found]
    BY DEF Evaluate
  <1>4. CASE res.panic # None
    <2> HIDE DEF res, c
    <2>1. /\ failed \in Calls /\ failed.at = "recover" /\ failed.panic = res.panic
          /\ failed.result = c.result /\ failed.source = c.source /\ failed.handle = c.handle
          /\ failed.op = c.op /\ failed.logs = c.logs /\ failed.accepted = c.accepted
          /\ failed.reads = c.reads
      BY <1>0 DEF Calls, Places
    <2>2. calls' = [calls EXCEPT ![i] = failed]
      BY <1>3, <1>4
    <2> HIDE DEF failed
    <2>3. QED
      BY <1>0, <1>1, <1>4, <2>1, <2>2 DEF Put, c, res
  <1>5. CASE res.panic = None
    <2>1. /\ l = "log" => LogsAtOnce(c, res)
          /\ l = "fetch" => ~LogsAtOnce(c, res) /\ res.fetch
          /\ l = "end" => ~LogsAtOnce(c, res) /\ ~res.fetch
      OBVIOUS
    <2> HIDE DEF l, h, res, c
    <2>2. /\ found \in Calls /\ found.at = l /\ found.panic = c.panic
          /\ found.result = res /\ found.source = "local" /\ found.handle = h
          /\ found.op = c.op /\ found.logs = c.logs /\ found.accepted = c.accepted
          /\ found.reads = c.reads
      BY <1>0, <1>2 DEF Calls, Places
    <2>3. calls' = [calls EXCEPT ![i] = found]
      BY <1>3, <1>5
    <2> HIDE DEF found
    <2>4. Put(i, found) /\ found.handle = (c.op = "GetLayer")
      BY <2>2, <2>3 DEF Put, h, c
    <2>5. QED
      BY <1>1, <1>2, <2>1, <2>2, <2>4 DEF c, res
  <1>6. QED
    BY <1>4, <1>5

LEMMA FetchPut ==
    ASSUME IInv, NEW i \in DOMAIN calls, NEW ok \in BOOLEAN, Fetch(i, ok)
    PROVE  /\ calls[i].at = "fetch" /\ UNCHANGED <<served, seen, reports, events, marks, syncs>>
           /\ \E r : /\ Put(i, r) /\ r.reads = calls[i].reads /\ r.at = "end"
                     /\ r.handle = calls[i].handle /\ r.source = "server" /\ r.panic = calls[i].panic
  <1> DEFINE c == calls[i]
             res == IF ok THEN ServerValue[KindOf(c.op)] ELSE ZeroResult
             r == [[[c EXCEPT !.result = res] EXCEPT !.source = "server"] EXCEPT !.at = "end"]
  <1>0. c \in Calls /\ res \in Results
    BY TypeFacts, KindOK, ZeroOK, ClientAssumption
  <1>1. /\ c.at = "fetch" /\ UNCHANGED <<served, seen, reports, events, marks, syncs>>
        /\ calls' = [calls EXCEPT ![i] = r]
    BY DEF Fetch
  <1> HIDE DEF res, c
  <1>2. /\ r \in Calls /\ r.at = "end" /\ r.panic = c.panic /\ r.handle = c.handle
        /\ r.source = "server" /\ r.reads = c.reads
        /\ r.op = c.op /\ r.logs = c.logs /\ r.accepted = c.accepted
    BY <1>0 DEF Calls, Places
  <1> HIDE DEF r
  <1>3. QED
    BY <1>1, <1>2 DEF Put, c

LEMMA GetPut ==
    ASSUME IInv, NEW i \in DOMAIN calls, NEW key \in Keys, NEW type \in Types, Get(i, key, type)
    PROVE  /\ calls[i].at = "returned" /\ calls[i].op \in CheckOps \ {"CheckGate"}
           /\ calls[i].source # "none"
           /\ UNCHANGED <<served, seen, reports, marks, syncs>>
           /\ events' = IF calls[i].handle /\ calls[i].logs
                        THEN Append(events, Exposure(i, "layer", calls[i].result, key, FALSE))
                        ELSE events
           /\ \E r : /\ Put(i, r) /\ r.reads = calls[i].reads + 1 /\ r.at = "returned"
                     /\ r.result = calls[i].result /\ r.source = calls[i].source
                     /\ r.handle = calls[i].handle /\ r.panic = calls[i].panic
  <1> DEFINE c == calls[i]
             n == c.reads + 1
             r == [c EXCEPT !.reads = n]
  <1>0. c \in Calls /\ c.reads \in 0..MaxReads /\ CallOK(c)
    BY TypeFacts, CallFields
  <1>1. /\ c.at = "returned" /\ c.op \in CheckOps \ {"CheckGate"} /\ c.result.value[key] = type
        /\ c.reads < MaxReads /\ UNCHANGED <<served, seen, reports, marks, syncs>>
        /\ events' = IF c.handle /\ c.logs
                     THEN Append(events, Exposure(i, "layer", c.result, key, FALSE))
                     ELSE events
    BY DEF Get, LayerResult
  <1>2. calls' = [calls EXCEPT ![i] = r]
    BY DEF Get
  <1>3. c.source # "none"
    BY <1>0, <1>1, ZeroOK, ClientAssumption DEF CallOK
  <1>4. n \in 0..MaxReads
    BY <1>0, <1>1, ClientAssumption
  <1> HIDE DEF c, n
  <1>5. /\ r \in Calls /\ r.reads = n /\ r.at = c.at /\ r.result = c.result /\ r.source = c.source
        /\ r.handle = c.handle /\ r.panic = c.panic
        /\ r.op = c.op /\ r.logs = c.logs /\ r.accepted = c.accepted
    BY <1>0, <1>4 DEF Calls
  <1> HIDE DEF r
  <1>6. QED
    BY <1>1, <1>2, <1>3, <1>5 DEF Put, c, n

\* A new call, as r, at a place of its own.
Started(op, new, r) ==
    /\ new \notin DOMAIN calls /\ DOMAIN calls' = DOMAIN calls \cup {new}
    /\ calls' \in Seq(Calls) /\ Len(calls') <= MaxCalls
    /\ \A i \in DOMAIN calls : calls'[i] = calls[i]
    /\ calls'[new] = r /\ r \in Calls /\ CallOK(r)
    /\ r.op = op /\ r.panic = None /\ r.reads = 0
    /\ r.at \in {"end", "returned"} => ~r.accepted
    /\ r.at \in {"eval", "log", "send", "end", "returned"}
    /\ IF r.op \in CheckOps /\ r.at # "returned" THEN Mark(op, "start") ELSE UNCHANGED marks
    /\ UNCHANGED <<served, seen, reports, events, syncs>>

LEMMA StartNew ==
    ASSUME IInv, NEW op \in Ops, NEW logs \in BOOLEAN, NEW accepted \in BOOLEAN,
           Start(op, logs, accepted)
    PROVE  \E new, r : Started(op, new, r)
  <1> DEFINE outside == op = "GetExperiment" /\ ~accepted
             l == IF outside THEN "returned"
                  ELSE IF ~accepted THEN (IF op = "LogImmediate" THEN "returned" ELSE "end")
                  ELSE IF op = "LogEvent" THEN "log"
                  ELSE IF op = "LogImmediate" THEN "send"
                  ELSE "eval"
             r == [op |-> op, logs |-> logs, accepted |-> accepted, at |-> l,
                   result |-> ZeroResult, source |-> "none", handle |-> FALSE,
                   panic |-> None, reads |-> 0]
  <1>0. op \in AllOps /\ calls \in Seq(Calls) /\ ZeroResult \in Results
    BY ClientAssumption, TypeFacts, ZeroOK
  <1>1. /\ l \in {"eval", "log", "send", "end", "returned"}
        /\ l \in {"end", "returned"} => ~accepted
        /\ l \in {"eval", "log", "send"} => accepted
        /\ l = "eval" => op \in CheckOps \cup ManualOps
        /\ l = "log" => op = "LogEvent"
        /\ l = "send" => op = "LogImmediate"
        /\ op \in CheckOps /\ l = "returned" => outside
        /\ outside => l = "returned"
    BY <1>0 DEF AllOps, CheckOps
  <1>2. /\ Len(calls) < MaxCalls /\ calls' = Append(calls, r)
        /\ IF outside THEN UNCHANGED marks ELSE Mark(op, "start")
        /\ UNCHANGED <<served, seen, reports, events, syncs>>
    BY DEF Start
  <1>3. IF op \in CheckOps /\ l # "returned" THEN Mark(op, "start") ELSE UNCHANGED marks
    BY <1>1, <1>2 DEF Mark
  <1> HIDE DEF outside, l
  <1>4. /\ r \in Calls /\ r.op = op /\ r.logs = logs /\ r.accepted = accepted /\ r.at = l
        /\ r.result = ZeroResult /\ r.source = "none" /\ ~r.handle /\ r.panic = None /\ r.reads = 0
    BY <1>0, <1>1, ClientAssumption DEF Calls, Places
  <1> HIDE DEF r
  <1>5. CallOK(r)
    BY <1>0, <1>1, <1>4 DEF CallOK
  <1>6. /\ Len(calls) + 1 \notin DOMAIN calls /\ DOMAIN calls' = DOMAIN calls \cup {Len(calls) + 1}
        /\ calls' \in Seq(Calls) /\ Len(calls') <= MaxCalls
        /\ \A i \in DOMAIN calls : calls'[i] = calls[i]
        /\ calls'[Len(calls) + 1] = r
    <2>1. /\ Len(calls) \in Nat /\ DOMAIN calls = 1..Len(calls)
          /\ DOMAIN calls' = 1..(Len(calls) + 1) /\ Len(calls') = Len(calls) + 1
          /\ calls' \in Seq(Calls) /\ calls'[Len(calls) + 1] = r
          /\ \A i \in 1..Len(calls) : calls'[i] = calls[i]
      BY <1>0, <1>2, <1>4
    <2>2. QED
      BY <1>2, <2>1, ClientAssumption
  <1>7. Started(op, Len(calls) + 1, r)
    BY <1>1, <1>2, <1>3, <1>4, <1>5, <1>6 DEF Started
  <1>8. QED
    BY <1>7

-----------------------------------------------------------------------------
(***************************************************************************)
(* The type invariant, and what is known of a call from its place.         *)
(***************************************************************************)
LEMMA ExposureOK ==
    ASSUME NEW i \in Nat, NEW kind \in Kinds \cup {"custom"}, NEW res \in Results,
           NEW key \in Keys \cup {None}, NEW manual \in BOOLEAN
    PROVE  LET e == Exposure(i, kind, res, key, manual) IN
           /\ e \in Events /\ e.call = i /\ e.kind = kind /\ e.id = res.id /\ e.pass = res.pass
           /\ e.key = key
           /\ e.allocated # None => e.allocated = res.delegate /\ key \in res.explicit
  <1> DEFINE a == IF key # None /\ key \in res.explicit THEN res.delegate ELSE None
             e == [call |-> i, kind |-> kind, id |-> res.id, pass |-> res.pass, key |-> key,
                   allocated |-> a, manual |-> manual]
  <1>1. /\ a \in IDs /\ res.id \in IDs /\ res.pass \in BOOLEAN
        /\ a # None => a = res.delegate /\ key \in res.explicit
    BY ResultFields DEF IDs
  <1>2. Exposure(i, kind, res, key, manual) = e
    BY DEF Exposure
  <1> HIDE DEF a
  <1>3. QED
    BY <1>1, <1>2 DEF Events

LEMMA CustomOK ==
    ASSUME NEW i \in Nat
    PROVE  CustomEvent(i) \in Events /\ CustomEvent(i).call = i /\ CustomEvent(i).kind = "custom"
  <1>1. ZeroResult \in Results /\ "custom" \in Kinds \cup {"custom"} /\ None \in Keys \cup {None}
    BY ZeroOK
  <1> DEFINE m == FALSE
  <1>2. m \in BOOLEAN /\ CustomEvent(i) = Exposure(i, "custom", ZeroResult, None, m)
    BY DEF CustomEvent
  <1> HIDE DEF m
  <1>3. QED
    BY <1>1, <1>2, ExposureOK

LEMMA AppendOK ==
    ASSUME NEW s \in Seq(Events), NEW e \in Events
    PROVE  Append(s, e) \in Seq(Events)
  OBVIOUS

LEMMA PutIInv ==
    ASSUME IInv, NEW i \in DOMAIN calls, NEW r, Put(i, r), CallOK(r),
           UNCHANGED <<served, syncs>>,
           seen' \subseteq Exceptions, reports' \in [Exceptions -> Nat], events' \in Seq(Events),
           marks' \in [Kinds -> [start : Nat, end : Nat]]
    PROVE  IInv'
  BY TypeFacts, PutFacts DEF IInv, TypeOK, ServedOK

\* What Evaluate, Fetch, Get and a change of place do to CallOK.
LEMMA EvaluateOK ==
    ASSUME IInv, NEW i \in DOMAIN calls, Evaluate(i)
    PROVE  \E r : /\ Put(i, r) /\ CallOK(r) /\ r.reads = 0
                  /\ r.at \in {"recover", "log", "fetch", "end"}
                  /\ r.at = "end" => r.op \in CheckOps /\ (r.op = "GetLayer" \/ ~r.logs)
  <1> DEFINE c == calls[i]
             res == served[KindOf(c.op)]
  <1>1. c.at = "eval" /\ CallOK(c) /\ c.op \in AllOps
    BY EvaluatePut, TypeFacts, CallFields
  <1>2. PICK r : /\ Put(i, r) /\ r.reads = c.reads
                 /\ \/ /\ r.at = "recover" /\ r.panic \in Exceptions /\ r.panic # None
                       /\ r.result = c.result /\ r.source = c.source /\ r.handle = c.handle
                    \/ /\ r.result = res /\ r.source = "local" /\ r.panic = c.panic
                       /\ r.handle = (c.op = "GetLayer")
                       /\ \/ r.at = "log" /\ LogsAtOnce(c, res)
                          \/ r.at = "fetch" /\ ~LogsAtOnce(c, res) /\ res.fetch
                          \/ r.at = "end" /\ ~LogsAtOnce(c, res) /\ ~res.fetch
    BY EvaluatePut
  <1>3. r.op = c.op /\ r.logs = c.logs /\ r.accepted = c.accepted
    BY <1>1, <1>2 DEF Put
  <1> HIDE DEF c, res
  <1>4. /\ c.op \in CheckOps \cup ManualOps /\ c.source = "none" /\ c.accepted /\ c.panic = None
        /\ c.result = ZeroResult /\ c.reads = 0 /\ ~c.handle
    BY <1>1 DEF CallOK
  <1>5. c.op \in ManualOps => c.op \notin CheckOps
    BY DEF ManualOps, CheckOps
  <1>6. CASE r.at = "recover"
    BY <1>2, <1>3, <1>4, <1>6 DEF CallOK
  <1>7. CASE r.at # "recover"
    <2>1. r.source = "local" /\ r.panic = None /\ r.handle = (r.op = "GetLayer") /\ r.reads = 0
      BY <1>2, <1>3, <1>4, <1>7
    <2>2. CASE r.at = "log"
      <3>1. LogsAtOnce(c, res)
        BY <1>2, <2>2
      <3>2. r.op \in ManualOps \/ (r.op \in CheckOps \ {"GetLayer"} /\ r.logs)
        BY <1>3, <1>4, <3>1 DEF LogsAtOnce
      <3>3. QED
        BY <1>2, <1>3, <1>4, <2>1, <2>2, <3>2 DEF CallOK
    <2>3. CASE r.at \in {"fetch", "end"}
      <3>1. ~LogsAtOnce(c, res) /\ (r.at = "end" => ~res.fetch)
        BY <1>2, <2>3
      <3>2. r.op \in CheckOps /\ (r.at = "end" => r.op = "GetLayer" \/ ~r.logs)
        BY <1>3, <1>4, <3>1 DEF LogsAtOnce
      <3>3. QED
        BY <1>2, <1>3, <1>4, <2>1, <2>3, <3>2 DEF CallOK
    <2>4. QED
      BY <1>2, <1>7, <2>2, <2>3
  <1>8. QED
    BY <1>6, <1>7

LEMMA FetchOK ==
    ASSUME IInv, NEW i \in DOMAIN calls, NEW ok \in BOOLEAN, Fetch(i, ok)
    PROVE  \E r : /\ Put(i, r) /\ CallOK(r) /\ r.reads = 0 /\ r.at = "end"
                  /\ r.op \in CheckOps /\ r.source = "server"
  <1> DEFINE c == calls[i]
  <1>1. c.at = "fetch" /\ CallOK(c)
    BY FetchPut, TypeFacts
  <1>2. PICK r : /\ Put(i, r) /\ r.reads = c.reads /\ r.at = "end"
                 /\ r.handle = c.handle /\ r.source = "server" /\ r.panic = c.panic
    BY FetchPut
  <1>3. r.op = c.op /\ r.logs = c.logs /\ r.accepted = c.accepted
    BY <1>1, <1>2 DEF Put
  <1>4. QED
    BY <1>1, <1>2, <1>3 DEF CallOK

LEMMA GetOK ==
    ASSUME IInv, NEW i \in DOMAIN calls, NEW key \in Keys, NEW type \in Types, Get(i, key, type)
    PROVE  \E r : /\ Put(i, r) /\ CallOK(r) /\ r.at = "returned"
                  /\ r.reads = calls[i].reads + 1 /\ r.result = calls[i].result
                  /\ r.source = calls[i].source /\ r.panic = calls[i].panic
                  /\ r.handle = calls[i].handle
  <1> DEFINE c == calls[i]
  <1>1. c.at = "returned" /\ CallOK(c)
    BY GetPut, TypeFacts
  <1>2. PICK r : /\ Put(i, r) /\ r.reads = c.reads + 1 /\ r.at = "returned"
                 /\ r.result = c.result /\ r.source = c.source
                 /\ r.handle = c.handle /\ r.panic = c.panic
    BY GetPut
  <1>3. r.op = c.op /\ r.logs = c.logs /\ r.accepted = c.accepted
    BY <1>1, <1>2 DEF Put
  <1>4. QED
    BY <1>1, <1>2, <1>3 DEF CallOK

LEMMA GotoOK ==
    ASSUME IInv, NEW i \in DOMAIN calls, NEW l, Goto(i, l),
           <<calls[i].at, l>> \in {<<"log", "end">>, <<"recover", "endFailed">>,
                                   <<"recover", "report">>, <<"report", "endFailed">>,
                                   <<"end", "returned">>, <<"endFailed", "returned">>}
    PROVE  \E r : Put(i, r) /\ Same(calls[i], r) /\ r.at = l /\ CallOK(r) /\ r.reads = 0
  <1> DEFINE c == calls[i]
  <1>1. c \in Calls /\ CallOK(c) /\ calls \in Seq(Calls)
    BY TypeFacts
  <1>2. l \in {"end", "returned", "endFailed", "report"} /\ l \in Places
    BY DEF Places
  <1>3. PICK r : Put(i, r) /\ Same(c, r) /\ r.at = l
    BY <1>1, <1>2, GotoPut
  <1>4. r.op = c.op /\ r.logs = c.logs /\ r.accepted = c.accepted
    BY <1>3 DEF Put, Same
  <1>5. /\ l = "end" => c.at = "log"
        /\ l \in {"endFailed", "report"} => c.at \in {"recover", "report"}
        /\ c.at # "returned"
    OBVIOUS
  <1> HIDE DEF c
  <1>6. CallOK(r) /\ r.reads = 0
    BY <1>1, <1>2, <1>3, <1>4, <1>5 DEF CallOK, Same
  <1>7. QED
    BY <1>3, <1>6 DEF c

\* What the steps that only change the place of a call do besides.
LEMMA LogGoto ==
    ASSUME IInv, NEW i \in DOMAIN calls, NEW key \in Keys \cup {None}, Log(i, key)
    PROVE  /\ calls[i].at = "log" /\ UNCHANGED <<served, seen, reports, marks, syncs>>
           /\ \E e \in Events : /\ events' = Append(events, e) /\ e.call = i
                                /\ Faithful(e, calls[i])
           /\ \E r : Put(i, r) /\ Same(calls[i], r) /\ r.at = "end" /\ CallOK(r) /\ r.reads = 0
  <1> DEFINE c == calls[i]
             manual == c.op \in ManualOps
             e == IF c.op = "LogEvent" THEN CustomEvent(i)
                  ELSE Exposure(i, KindOf(c.op), c.result, key, manual)
  <1>1. c.at = "log" /\ UNCHANGED <<served, seen, reports, marks, syncs>> /\ Goto(i, "end")
        /\ events' = Append(events, e)
    BY DEF Log
  <1>2. i \in Nat /\ c.result \in Results /\ manual \in BOOLEAN
    BY TypeFacts, CallFields
  <1>3. /\ CustomEvent(i) \in Events /\ CustomEvent(i).call = i /\ CustomEvent(i).kind = "custom"
    BY <1>2, CustomOK
  <1> HIDE DEF manual
  <1>4. LET x == Exposure(i, KindOf(c.op), c.result, key, manual) IN
        /\ x \in Events /\ x.call = i /\ x.kind = KindOf(c.op) /\ x.id = c.result.id
        /\ x.pass = c.result.pass /\ x.key = key
        /\ x.allocated # None => x.allocated = c.result.delegate /\ key \in c.result.explicit
    BY <1>2, KindOK, ExposureOK
  <1>5. e \in Events /\ e.call = i /\ Faithful(e, c)
    BY <1>3, <1>4 DEF Faithful
  <1> HIDE DEF e
  <1>6. QED
    BY <1>1, <1>5, GotoOK

\* What LogImmediate does when its events can be encoded, and when not.
LEMMA SendGoto ==
    ASSUME IInv, NEW i \in DOMAIN calls, NEW ok \in BOOLEAN, Send(i, ok)
    PROVE  /\ calls[i].at = "send" /\ UNCHANGED <<served, seen, reports, marks, syncs>>
           /\ \/ ok /\ \E e \in Events : /\ events' = Append(events, e) /\ e.call = i
                                         /\ Faithful(e, calls[i])
              \/ ~ok /\ UNCHANGED events
           /\ \E r : /\ Put(i, r) /\ r.at = "returned" /\ CallOK(r) /\ r.accepted = ok
                     /\ r.panic = calls[i].panic /\ r.result = calls[i].result
  <1> DEFINE c == calls[i]
             r == [[c EXCEPT !.at = "returned"] EXCEPT !.accepted = ok]
  <1>0. i \in Nat /\ c \in Calls /\ CallOK(c)
    BY TypeFacts
  <1>1. /\ c.at = "send" /\ UNCHANGED <<served, seen, reports, marks, syncs>>
        /\ events' = (IF ok THEN Append(events, CustomEvent(i)) ELSE events)
        /\ calls' = [calls EXCEPT ![i] = r]
    BY DEF Send
  <1>2. /\ CustomEvent(i) \in Events /\ CustomEvent(i).call = i /\ Faithful(CustomEvent(i), calls[i])
    BY <1>0, CustomOK DEF Faithful
  <1> HIDE DEF c
  <1>3. /\ r \in Calls /\ r.at = "returned" /\ r.accepted = ok /\ r.panic = c.panic
        /\ r.result = c.result /\ r.op = c.op /\ r.logs = c.logs
        /\ r.source = c.source /\ r.handle = c.handle
    BY <1>0 DEF Calls, Places
  <1> HIDE DEF r
  <1>4. CallOK(r)
    BY <1>0, <1>1, <1>3 DEF CallOK
  <1>5. Put(i, r)
    BY <1>1, <1>3 DEF Put, c
  <1>6. QED
    BY <1>1, <1>2, <1>3, <1>4, <1>5 DEF c

LEMMA RecoverGoto ==
    ASSUME IInv, NEW i \in DOMAIN calls, Recover(i)
    PROVE  LET x == calls[i].panic IN
           /\ calls[i].at = "recover" /\ UNCHANGED <<served, reports, events, marks, syncs>>
           /\ x \in Exceptions /\ seen' = seen \cup {x}
           /\ \E r : /\ Put(i, r) /\ Same(calls[i], r) /\ CallOK(r) /\ r.reads = 0
                     /\ r.at = IF x \in seen THEN "endFailed" ELSE "report"
  <1> DEFINE x == calls[i].panic
             l == IF x \in seen THEN "endFailed" ELSE "report"
  <1>1. /\ calls[i].at = "recover" /\ UNCHANGED <<served, reports, events, marks, syncs>>
        /\ Goto(i, l) /\ seen' = seen \cup {x}
    BY DEF Recover, checkSeen
  <1>2. x \in Exceptions
    BY <1>1, TypeFacts, CallFields DEF CallOK
  <1>3. l \in {"endFailed", "report"}
    OBVIOUS
  <1>4. \E r : Put(i, r) /\ Same(calls[i], r) /\ r.at = l /\ CallOK(r) /\ r.reads = 0
    <2> HIDE DEF l
    <2>1. QED
      BY <1>1, <1>3, GotoOK
  <1>5. QED
    BY <1>1, <1>2, <1>4

LEMMA ReportGoto ==
    ASSUME IInv, NEW i \in DOMAIN calls, Report(i)
    PROVE  LET x == calls[i].panic IN
           /\ calls[i].at = "report" /\ UNCHANGED <<served, seen, events, marks, syncs>>
           /\ x \in Exceptions /\ reports' = [reports EXCEPT ![x] = @ + 1]
           /\ \E r : /\ Put(i, r) /\ Same(calls[i], r) /\ CallOK(r) /\ r.reads = 0
                     /\ r.at = "endFailed"
  <1>1. /\ calls[i].at = "report" /\ UNCHANGED <<served, seen, events, marks, syncs>>
        /\ Goto(i, "endFailed") /\ reports' = [reports EXCEPT ![calls[i].panic] = @ + 1]
    BY DEF Report
  <1>2. calls[i].panic \in Exceptions
    BY <1>1, TypeFacts, CallFields DEF CallOK
  <1>3. QED
    BY <1>1, <1>2, GotoOK

LEMMA EndGoto ==
    ASSUME IInv, NEW i \in DOMAIN calls, End(i)
    PROVE  /\ calls[i].at \in {"end", "endFailed"} /\ UNCHANGED <<served, seen, reports, events, syncs>>
           /\ Mark(calls[i].op, "end")
           /\ \E r : /\ Put(i, r) /\ Same(calls[i], r) /\ CallOK(r) /\ r.reads = 0
                     /\ r.at = "returned"
  <1>1. /\ calls[i].at \in {"end", "endFailed"} /\ UNCHANGED <<served, seen, reports, events, syncs>>
        /\ Goto(i, "returned") /\ Mark(calls[i].op, "end")
    BY DEF End
  <1>2. QED
    BY <1>1, GotoOK

LEMMA MarkOK ==
    ASSUME marks \in [Kinds -> [start : Nat, end : Nat]], NEW op, NEW w \in {"start", "end"}, Mark(op, w)
    PROVE  marks' \in [Kinds -> [start : Nat, end : Nat]]
  <1> DEFINE k == KindOf(op)
  <1>1. k \in Kinds
    BY KindOK
  <1>2. marks' = marks \/ marks' = [marks EXCEPT ![k][w] = @ + 1]
    BY DEF Mark
  <1> HIDE DEF k
  <1>3. CASE w = "start"
    <2>1. marks[k] \in [start : Nat, end : Nat]
      BY <1>1
    <2>2. [marks[k] EXCEPT !["start"] = @ + 1] \in [start : Nat, end : Nat]
      BY <2>1
    <2>3. QED
      BY <1>1, <1>2, <1>3, <2>2
  <1>4. CASE w = "end"
    <2>1. marks[k] \in [start : Nat, end : Nat]
      BY <1>1
    <2>2. [marks[k] EXCEPT !["end"] = @ + 1] \in [start : Nat, end : Nat]
      BY <2>1
    <2>3. QED
      BY <1>1, <1>2, <1>4, <2>2
  <1>5. QED
    BY <1>3, <1>4

LEMMA StepIInv == ASSUME IInv, NEW i \in DOMAIN calls, Step(i) PROVE IInv'
  <1>0. /\ seen \subseteq Exceptions /\ reports \in [Exceptions -> Nat] /\ events \in Seq(Events)
        /\ marks \in [Kinds -> [start : Nat, end : Nat]]
    BY TypeFacts
  <1>1. CASE Evaluate(i)
    <2>1. UNCHANGED <<served, seen, reports, events, marks, syncs>>
      BY <1>1, EvaluatePut
    <2>2. PICK r : Put(i, r) /\ CallOK(r)
      BY <1>1, EvaluateOK
    <2>3. QED
      BY <1>0, <2>1, <2>2, PutIInv
  <1>2. ASSUME NEW ok \in BOOLEAN, Fetch(i, ok) PROVE IInv'
    <2>1. UNCHANGED <<served, seen, reports, events, marks, syncs>>
      BY <1>2, FetchPut
    <2>2. PICK r : Put(i, r) /\ CallOK(r)
      BY <1>2, FetchOK
    <2>3. QED
      BY <1>0, <2>1, <2>2, PutIInv
  <1>3. ASSUME NEW key \in Keys \cup {None}, Log(i, key) PROVE IInv'
    <2>0. PICK e \in Events : events' = Append(events, e)
      BY <1>3, LogGoto
    <2>1. UNCHANGED <<served, seen, reports, marks, syncs>> /\ events' \in Seq(Events)
      BY <1>0, <1>3, <2>0, LogGoto, AppendOK
    <2>2. PICK r : Put(i, r) /\ CallOK(r)
      BY <1>3, LogGoto
    <2>3. QED
      BY <1>0, <2>1, <2>2, PutIInv
  <1>4. ASSUME NEW ok \in BOOLEAN, Send(i, ok) PROVE IInv'
    <2>1. UNCHANGED <<served, seen, reports, marks, syncs>> /\ events' \in Seq(Events)
      <3>1. UNCHANGED events \/ \E e \in Events : events' = Append(events, e)
        BY <1>4, SendGoto
      <3>2. events' \in Seq(Events)
        BY <1>0, <3>1, AppendOK
      <3>3. QED
        BY <1>4, <3>2, SendGoto
    <2>2. PICK r : Put(i, r) /\ CallOK(r)
      BY <1>4, SendGoto
    <2>3. QED
      BY <1>0, <2>1, <2>2, PutIInv
  <1>5. CASE Recover(i)
    <2>1. UNCHANGED <<served, reports, events, marks, syncs>> /\ seen' \subseteq Exceptions
      BY <1>0, <1>5, RecoverGoto
    <2>2. PICK r : Put(i, r) /\ CallOK(r)
      BY <1>5, RecoverGoto
    <2>3. QED
      BY <1>0, <2>1, <2>2, PutIInv
  <1>6. CASE Report(i)
    <2>1. UNCHANGED <<served, seen, events, marks, syncs>> /\ reports' \in [Exceptions -> Nat]
      BY <1>0, <1>6, ReportGoto
    <2>2. PICK r : Put(i, r) /\ CallOK(r)
      BY <1>6, ReportGoto
    <2>3. QED
      BY <1>0, <2>1, <2>2, PutIInv
  <1>7. CASE End(i)
    <2>1. /\ UNCHANGED <<served, seen, reports, events, syncs>>
          /\ marks' \in [Kinds -> [start : Nat, end : Nat]]
      BY <1>0, <1>7, EndGoto, MarkOK
    <2>2. PICK r : Put(i, r) /\ CallOK(r)
      BY <1>7, EndGoto
    <2>3. QED
      BY <1>0, <2>1, <2>2, PutIInv
  <1>8. QED
    BY <1>1, <1>2, <1>3, <1>4, <1>5, <1>6, <1>7 DEF Step

LEMMA GetIInv ==
    ASSUME IInv, NEW i \in DOMAIN calls, NEW key \in Keys, NEW type \in Types, Get(i, key, type)
    PROVE  IInv'
  <1>1. /\ UNCHANGED <<served, seen, reports, marks, syncs>>
        /\ events' = IF calls[i].handle /\ calls[i].logs
                     THEN Append(events, Exposure(i, "layer", calls[i].result, key, FALSE))
                     ELSE events
    BY GetPut
  <1>2. Exposure(i, "layer", calls[i].result, key, FALSE) \in Events
    <2>1. i \in Nat /\ calls[i].result \in Results /\ "layer" \in Kinds
      BY TypeFacts, CallFields DEF Kinds
    <2>2. QED
      BY <2>1, ExposureOK
  <1>3. events' \in Seq(Events)
    <2>1. CASE calls[i].handle /\ calls[i].logs
      BY <1>1, <1>2, <2>1, TypeFacts, AppendOK
    <2>2. CASE ~(calls[i].handle /\ calls[i].logs)
      BY <1>1, <2>2, TypeFacts
    <2>3. QED
      BY <2>1, <2>2
  <1>4. PICK r : Put(i, r) /\ CallOK(r)
    BY GetOK
  <1>5. QED
    BY <1>1, <1>3, <1>4, TypeFacts, PutIInv

LEMMA StartIInv ==
    ASSUME IInv, NEW op \in Ops, NEW logs \in BOOLEAN, NEW accepted \in BOOLEAN,
           Start(op, logs, accepted)
    PROVE  IInv'
  <1>1. PICK new, r : Started(op, new, r)
    BY StartNew
  <1>2. marks' \in [Kinds -> [start : Nat, end : Nat]]
    BY <1>1, TypeFacts, MarkOK DEF Started
  <1>3. \A i \in DOMAIN calls' : CallOK(calls'[i])
    BY <1>1 DEF IInv, Started
  <1>4. QED
    BY <1>1, <1>2, <1>3, TypeFacts DEF IInv, TypeOK, ServedOK, Started

LEMMA SyncIInv ==
    ASSUME IInv, NEW kind \in Kinds, NEW res \in Outcomes[kind], Sync(kind, res)
    PROVE  IInv'
  <1>1. /\ served' = [served EXCEPT ![kind] = res] /\ syncs' = syncs + 1 /\ syncs < MaxSyncs
        /\ UNCHANGED <<calls, seen, reports, events, marks>>
    BY DEF Sync
  <1>2. res \in Results
    BY ClientAssumption
  <1>3. served' \in [Kinds -> Results] /\ \A k \in Kinds : served'[k] \in Outcomes[k]
    BY <1>1, <1>2, TypeFacts
  <1>4. syncs' \in 0..MaxSyncs
    BY <1>1, TypeFacts, ClientAssumption
  <1>5. QED
    BY <1>1, <1>3, <1>4, TypeFacts DEF IInv, TypeOK, ServedOK

LEMMA InitIInv == Init => IInv
  <1> SUFFICES ASSUME Init PROVE IInv
    OBVIOUS
  <1>1. served \in [Kinds -> Results]
    BY ClientAssumption DEF Init
  <1>2. QED
    BY <1>1, ClientAssumption DEF Init, IInv, TypeOK, ServedOK

LEMMA NextIInv == IInv /\ [Next]_vars => IInv'
  <1> SUFFICES ASSUME IInv, [Next]_vars PROVE IInv'
    OBVIOUS
  <1>1. CASE UNCHANGED vars
    BY <1>1 DEF vars, IInv, TypeOK, ServedOK
  <1>2. CASE Next
    BY <1>2, StartIInv, StepIInv, GetIInv, SyncIInv DEF Next
  <1>3. QED
    BY <1>1, <1>2

(***************************************************************************)
(* TypeOK: calls, events, markers and reports are well formed whatever the *)
(* evaluations come to; a request that fails leaves a result, not nil.     *)
(***************************************************************************)
THEOREM TypeCorrect == Spec => []TypeOK
  <1>1. IInv => TypeOK
    BY DEF IInv
  <1>2. QED
    BY InitIInv, NextIInv, <1>1, PTL DEF Spec

-----------------------------------------------------------------------------
(***************************************************************************)
(* ReportedOnce.                                                           *)
(***************************************************************************)
LEMMA CallSetsFinite == ASSUME IInv, NEW S \in SUBSET DOMAIN calls PROVE IsFiniteSet(S) /\ Cardinality(S) \in Nat
  <1>1. IsFiniteSet(1..Len(calls))
    BY TypeFacts, FS_Interval
  <1>2. QED
    BY <1>1, TypeFacts, FS_Subset, FS_CardinalityType

LEMMA ReportNats ==
    ASSUME IInv
    PROVE  \A x \in Exceptions : /\ reports[x] \in Nat /\ IsFiniteSet(Reporting(x))
                                 /\ Cardinality(Reporting(x)) \in Nat
  <1>1. \A x : Reporting(x) \in SUBSET DOMAIN calls
    BY DEF Reporting
  <1>2. QED
    BY <1>1, CallSetsFinite, TypeFacts

\* A step that neither begins nor ends a report, and does not give up on one.
LEMMA QuietReports ==
    ASSUME IInv, ReportInv, NEW i \in DOMAIN calls, NEW r, Put(i, r),
           calls[i].at # "report", r.at # "report",
           r.at \in {"endFailed", "returned"} => r.panic \in seen \cup {None},
           UNCHANGED <<seen, reports>>
    PROVE  ReportInv'
  <1>1. /\ DOMAIN calls' = DOMAIN calls /\ calls'[i] = r
        /\ \A j \in DOMAIN calls : j # i => calls'[j] = calls[j]
    BY TypeFacts, PutFacts
  <1>2. ASSUME NEW x \in Exceptions
        PROVE  Reporting(x)' = Reporting(x) /\ (Met(x)' # {} => Met(x) # {} \/ x \in seen)
    BY <1>1, ClientAssumption DEF Reporting, Met
  <1>3. QED
    BY <1>2 DEF ReportInv

LEMMA MetSeen ==
    ASSUME IInv, ReportInv, NEW i \in DOMAIN calls, calls[i].at \in {"endFailed", "returned"}
    PROVE  calls[i].panic \in seen \cup {None}
  <1>1. calls[i].panic \in Exceptions \cup {None}
    BY TypeFacts, CallFields
  <1>2. calls[i].panic \in Exceptions => i \in Met(calls[i].panic)
    BY DEF Met
  <1>3. QED
    BY <1>1, <1>2 DEF ReportInv

LEMMA RecoverReports == ASSUME IInv, ReportInv, NEW i \in DOMAIN calls, Recover(i) PROVE ReportInv'
  <1>0. PICK x : x = calls[i].panic
    OBVIOUS
  <1>1. calls[i].at = "recover" /\ UNCHANGED reports /\ x \in Exceptions /\ seen' = seen \cup {x}
    BY <1>0, RecoverGoto
  <1>2. PICK r : /\ Put(i, r) /\ Same(calls[i], r)
                 /\ r.at = IF x \in seen THEN "endFailed" ELSE "report"
    BY <1>0, RecoverGoto
  <1>3. CASE x \in seen
    <2>1. r.at = "endFailed" /\ r.panic = x /\ seen' = seen
      BY <1>0, <1>1, <1>2, <1>3 DEF Same
    <2>2. QED
      BY <1>1, <1>2, <1>3, <2>1, QuietReports
  <1>4. CASE x \notin seen
    <2>1. r.at = "report" /\ r.panic = x
      BY <1>0, <1>2, <1>4 DEF Same
    <2>2. /\ DOMAIN calls' = DOMAIN calls /\ calls'[i] = r
          /\ \A j \in DOMAIN calls : j # i => calls'[j] = calls[j]
      BY <1>2, TypeFacts, PutFacts
    <2>3. ASSUME NEW y \in Exceptions
          PROVE  /\ y # x => Reporting(y)' = Reporting(y)
                 /\ y = x => Reporting(y)' = Reporting(y) \cup {i} /\ i \notin Reporting(y)
                 /\ Met(y)' # {} => Met(y) # {}
      BY <1>0, <1>1, <2>1, <2>2 DEF Reporting, Met
    <2>4. Cardinality(Reporting(x)') = Cardinality(Reporting(x)) + 1
      BY <1>1, <2>3, ReportNats, FS_AddElement
    <2>5. ASSUME NEW y \in Exceptions
          PROVE  /\ reports'[y] + Cardinality(Reporting(y)') = IF y \in seen' THEN 1 ELSE 0
                 /\ Met(y)' # {} => y \in seen'
      <3>1. CASE y = x
        BY <1>1, <1>4, <2>3, <2>4, <3>1, ReportNats DEF ReportInv
      <3>2. CASE y # x
        BY <1>1, <2>3, <3>2 DEF ReportInv
      <3>3. QED
        BY <3>1, <3>2
    <2>6. QED
      BY <2>5 DEF ReportInv
  <1>5. QED
    BY <1>3, <1>4

LEMMA ReportReports == ASSUME IInv, ReportInv, NEW i \in DOMAIN calls, Report(i) PROVE ReportInv'
  <1>0. PICK x : x = calls[i].panic
    OBVIOUS
  <1>1. /\ calls[i].at = "report" /\ UNCHANGED seen /\ x \in Exceptions
        /\ reports' = [reports EXCEPT ![x] = @ + 1]
    BY <1>0, ReportGoto
  <1>2. PICK r : Put(i, r) /\ Same(calls[i], r) /\ r.at = "endFailed"
    BY <1>0, ReportGoto
  <1>3. /\ DOMAIN calls' = DOMAIN calls /\ calls'[i] = r /\ r.panic = x
        /\ \A j \in DOMAIN calls : j # i => calls'[j] = calls[j]
    BY <1>0, <1>2, TypeFacts, PutFacts DEF Same
  <1>4. i \in Reporting(x)
    BY <1>0, <1>1 DEF Reporting
  <1>5. reports \in [Exceptions -> Nat]
    BY TypeFacts
  <1>6. Cardinality(Reporting(x)) # 0
    BY <1>1, <1>4, ReportNats, FS_EmptySet
  <1>7. ASSUME NEW y \in Exceptions
        PROVE  /\ y # x => Reporting(y)' = Reporting(y)
               /\ y = x => Reporting(y)' = Reporting(y) \ {i}
               /\ Met(y)' # {} => Met(y) # {} \/ y = x
    BY <1>0, <1>1, <1>2, <1>3 DEF Reporting, Met
  <1>8. Cardinality(Reporting(x)') = Cardinality(Reporting(x)) - 1
    BY <1>1, <1>4, <1>7, ReportNats, FS_RemoveElement
  <1>9. x \in seen
    BY <1>1, <1>6, ReportNats DEF ReportInv
  <1>10. ASSUME NEW y \in Exceptions
         PROVE  /\ reports'[y] + Cardinality(Reporting(y)') = IF y \in seen' THEN 1 ELSE 0
                /\ Met(y)' # {} => y \in seen'
    <2>1. CASE y = x
      BY <1>1, <1>5, <1>7, <1>8, <1>9, <2>1, ReportNats DEF ReportInv
    <2>2. CASE y # x
      BY <1>1, <1>5, <1>7, <2>2 DEF ReportInv
    <2>3. QED
      BY <2>1, <2>2
  <1>11. QED
    BY <1>10 DEF ReportInv

LEMMA StepReports == ASSUME IInv, ReportInv, NEW i \in DOMAIN calls, Step(i) PROVE ReportInv'
  <1>1. CASE Evaluate(i)
    <2>1. UNCHANGED <<seen, reports>> /\ calls[i].at = "eval"
      BY <1>1, EvaluatePut
    <2>2. PICK r : Put(i, r) /\ r.at \in {"recover", "log", "fetch", "end"}
      BY <1>1, EvaluateOK
    <2>3. QED
      BY <2>1, <2>2, QuietReports
  <1>2. ASSUME NEW ok \in BOOLEAN, Fetch(i, ok) PROVE ReportInv'
    <2>1. UNCHANGED <<seen, reports>> /\ calls[i].at = "fetch"
      BY <1>2, FetchPut
    <2>2. PICK r : Put(i, r) /\ r.at = "end"
      BY <1>2, FetchOK
    <2>3. QED
      BY <2>1, <2>2, QuietReports
  <1>3. ASSUME NEW key \in Keys \cup {None}, Log(i, key) PROVE ReportInv'
    <2>1. UNCHANGED <<seen, reports>> /\ calls[i].at = "log"
      BY <1>3, LogGoto
    <2>2. PICK r : Put(i, r) /\ r.at = "end"
      BY <1>3, LogGoto
    <2>3. QED
      BY <2>1, <2>2, QuietReports
  <1>4. ASSUME NEW ok \in BOOLEAN, Send(i, ok) PROVE ReportInv'
    <2>1. UNCHANGED <<seen, reports>> /\ calls[i].at = "send"
      BY <1>4, SendGoto
    <2>2. PICK r : Put(i, r) /\ r.at = "returned" /\ r.panic = calls[i].panic
      BY <1>4, SendGoto
    <2>3. r.panic = None
      BY <2>1, <2>2, TypeFacts DEF CallOK
    <2>4. QED
      BY <2>1, <2>2, <2>3, QuietReports
  <1>5. CASE End(i)
    <2>1. UNCHANGED <<seen, reports>> /\ calls[i].at \in {"end", "endFailed"}
      BY <1>5, EndGoto
    <2>2. PICK r : Put(i, r) /\ r.at = "returned" /\ Same(calls[i], r)
      BY <1>5, EndGoto
    <2>3. r.panic \in seen \cup {None}
      BY <2>1, <2>2, TypeFacts, MetSeen DEF CallOK, Same
    <2>4. QED
      BY <2>1, <2>2, <2>3, QuietReports
  <1>6. QED
    BY <1>1, <1>2, <1>3, <1>4, <1>5, RecoverReports, ReportReports DEF Step

LEMMA GetReports ==
    ASSUME IInv, ReportInv, NEW i \in DOMAIN calls, NEW key \in Keys, NEW type \in Types,
           Get(i, key, type)
    PROVE  ReportInv'
  <1>1. UNCHANGED <<seen, reports>> /\ calls[i].at = "returned"
    BY GetPut
  <1>2. PICK r : Put(i, r) /\ r.at = "returned" /\ r.panic = calls[i].panic
    BY GetOK
  <1>3. QED
    BY <1>1, <1>2, MetSeen, QuietReports

LEMMA StartReports ==
    ASSUME IInv, ReportInv, NEW op \in Ops, NEW logs \in BOOLEAN, NEW accepted \in BOOLEAN,
           Start(op, logs, accepted)
    PROVE  ReportInv'
  <1>1. PICK new, r : Started(op, new, r)
    BY StartNew
  <1>2. ASSUME NEW x \in Exceptions
        PROVE  Reporting(x)' = Reporting(x) /\ Met(x)' = Met(x)
    BY <1>1, ClientAssumption DEF Reporting, Met, Started
  <1>3. UNCHANGED <<seen, reports>>
    BY <1>1 DEF Started
  <1>4. QED
    BY <1>2, <1>3 DEF ReportInv

(***************************************************************************)
(* ReportedOnce: however many calls meet an exception at the same time, it *)
(* is sent to /sdk_exception once, and before the first of them returns.   *)
(***************************************************************************)
THEOREM ReportedCorrect == Spec => []ReportedOnce
  <1>1. Init => ReportInv
    <2> SUFFICES ASSUME Init PROVE ReportInv
      OBVIOUS
    <2>1. \A x : Reporting(x) = {} /\ Met(x) = {}
      BY DEF Init, Reporting, Met
    <2>2. Cardinality({}) = 0
      BY FS_EmptySet
    <2>3. ASSUME NEW x \in Exceptions
          PROVE  reports[x] + Cardinality(Reporting(x)) = 0 /\ Met(x) = {} /\ x \notin seen
      <3>1. reports[x] = 0 /\ x \notin seen
        BY DEF Init
      <3>2. Reporting(x) = {} /\ Met(x) = {}
        BY <2>1
      <3>3. QED
        BY <2>2, <3>1, <3>2
    <2>4. QED
      BY <2>3 DEF ReportInv
  <1>2. IInv /\ ReportInv /\ [Next]_vars => ReportInv'
    <2> SUFFICES ASSUME IInv, ReportInv, [Next]_vars PROVE ReportInv'
      OBVIOUS
    <2>1. ASSUME UNCHANGED <<calls, seen, reports>> PROVE ReportInv'
      BY <2>1 DEF ReportInv, Reporting, Met
    <2>2. CASE UNCHANGED vars
      BY <2>1, <2>2 DEF vars
    <2>3. ASSUME NEW kind \in Kinds, NEW res \in Outcomes[kind], Sync(kind, res) PROVE ReportInv'
      BY <2>1, <2>3 DEF Sync
    <2>4. CASE Next
      BY <2>3, <2>4, StartReports, StepReports, GetReports DEF Next
    <2>5. QED
      BY <2>2, <2>4
  <1>3. IInv /\ ReportInv => ReportedOnce
    <2> SUFFICES ASSUME IInv, ReportInv, NEW x \in Exceptions
                 PROVE  /\ reports[x] + Cardinality(Reporting(x)) <= 1
                        /\ Met(x) # {} => reports[x] + Cardinality(Reporting(x)) = 1
      BY DEF ReportedOnce, Reporting, Met
    <2>1. QED
      BY ReportNats DEF ReportInv
  <1>4. QED
    BY InitIInv, NextIInv, <1>1, <1>2, <1>3, PTL DEF Spec

-----------------------------------------------------------------------------
(***************************************************************************)
(* MarkersPaired, which is inductive with IInv.                            *)
(***************************************************************************)
\* The calls of kind k that are under way, as far as markers are concerned.
UnderWay(k) ==
    {i \in DOMAIN calls : /\ calls[i].op \in CheckOps
                          /\ KindOf(calls[i].op) = k
                          /\ calls[i].at # "returned"}

LEMMA MarkNats ==
    ASSUME IInv, NEW k \in Kinds
    PROVE  /\ marks[k].start \in Nat /\ marks[k].end \in Nat
           /\ IsFiniteSet(UnderWay(k)) /\ Cardinality(UnderWay(k)) \in Nat
  <1>1. UnderWay(k) \in SUBSET DOMAIN calls
    BY DEF UnderWay
  <1>2. QED
    BY <1>1, CallSetsFinite, TypeFacts

\* A step that marks nothing neither begins nor ends a check.
LEMMA QuietMarks ==
    ASSUME IInv, MarkersPaired, NEW i \in DOMAIN calls, NEW r, Put(i, r), UNCHANGED marks,
           calls[i].op \in CheckOps => (calls[i].at = "returned" <=> r.at = "returned")
    PROVE  MarkersPaired'
  <1>1. /\ DOMAIN calls' = DOMAIN calls /\ calls'[i] = r /\ r.op = calls[i].op
        /\ \A j \in DOMAIN calls : j # i => calls'[j] = calls[j]
    BY TypeFacts, PutFacts DEF Put
  <1>2. ASSUME NEW k \in Kinds PROVE UnderWay(k)' = UnderWay(k)
    BY <1>1 DEF UnderWay
  <1>3. QED
    BY <1>2 DEF MarkersPaired, UnderWay

LEMMA EndMarks == ASSUME IInv, MarkersPaired, NEW i \in DOMAIN calls, End(i) PROVE MarkersPaired'
  <1>0. PICK op, k : op = calls[i].op /\ k = KindOf(op)
    OBVIOUS
  <1>1. calls[i].at \in {"end", "endFailed"} /\ Mark(op, "end")
    BY <1>0, EndGoto
  <1>2. PICK r : Put(i, r) /\ r.at = "returned"
    BY <1>0, EndGoto
  <1>3. CASE op \notin CheckOps
    BY <1>0, <1>1, <1>2, <1>3, QuietMarks DEF Mark
  <1>4. CASE op \in CheckOps
    <2>1. /\ DOMAIN calls' = DOMAIN calls /\ calls'[i] = r /\ r.op = op
          /\ \A j \in DOMAIN calls : j # i => calls'[j] = calls[j]
      BY <1>0, <1>2, TypeFacts, PutFacts DEF Put
    <2>2. k \in Kinds /\ marks \in [Kinds -> [start : Nat, end : Nat]]
      BY <1>0, KindOK, TypeFacts
    <2>3. marks' = [marks EXCEPT ![k]["end"] = @ + 1]
      BY <1>0, <1>1, <1>4 DEF Mark
    <2>4. i \in UnderWay(k)
      BY <1>0, <1>1, <1>4 DEF UnderWay
    <2>5. UnderWay(k)' = UnderWay(k) \ {i} /\ \A m \in Kinds : m # k => UnderWay(m)' = UnderWay(m)
      BY <1>0, <1>2, <2>1 DEF UnderWay
    <2>6. /\ marks'[k].start = marks[k].start /\ marks'[k].end = marks[k].end + 1
          /\ \A m \in Kinds : m # k => marks'[m] = marks[m]
      BY <2>2, <2>3
    <2>7. Cardinality(UnderWay(k)') = Cardinality(UnderWay(k)) - 1
      BY <2>2, <2>4, <2>5, MarkNats, FS_RemoveElement
    <2>8. ASSUME NEW m \in Kinds
          PROVE  marks'[m].start - marks'[m].end = Cardinality(UnderWay(m)')
      <3>1. marks[m].start - marks[m].end = Cardinality(UnderWay(m))
        BY DEF MarkersPaired, UnderWay
      <3>2. CASE m = k
        BY <2>6, <2>7, <3>1, <3>2, MarkNats
      <3>3. CASE m # k
        BY <2>5, <2>6, <3>1, <3>3
      <3>4. QED
        BY <3>2, <3>3
    <2>9. QED
      BY <2>8 DEF MarkersPaired, UnderWay
  <1>5. QED
    BY <1>3, <1>4

LEMMA StartMarks ==
    ASSUME IInv, MarkersPaired, NEW op \in Ops, NEW logs \in BOOLEAN, NEW accepted \in BOOLEAN,
           Start(op, logs, accepted)
    PROVE  MarkersPaired'
  <1>1. PICK new, r : Started(op, new, r)
    BY StartNew
  <1>2. /\ new \notin DOMAIN calls /\ DOMAIN calls' = DOMAIN calls \cup {new}
        /\ \A i \in DOMAIN calls : calls'[i] = calls[i]
        /\ calls'[new] = r /\ r.op = op
        /\ IF r.op \in CheckOps /\ r.at # "returned" THEN Mark(op, "start") ELSE UNCHANGED marks
    BY <1>1 DEF Started
  <1>3. CASE ~(op \in CheckOps /\ r.at # "returned")
    <2>1. ASSUME NEW k \in Kinds PROVE UnderWay(k)' = UnderWay(k)
      BY <1>2, <1>3 DEF UnderWay
    <2>2. UNCHANGED marks
      BY <1>2, <1>3
    <2>3. QED
      BY <2>1, <2>2 DEF MarkersPaired, UnderWay
  <1>4. CASE op \in CheckOps /\ r.at # "returned"
    <2> DEFINE k == KindOf(op)
    <2>2. k \in Kinds /\ marks \in [Kinds -> [start : Nat, end : Nat]]
      BY KindOK, TypeFacts
    <2>3. marks' = [marks EXCEPT ![k]["start"] = @ + 1]
      BY <1>2, <1>4 DEF Mark
    <2>4. new \notin UnderWay(k)
      BY <1>2 DEF UnderWay
    <2>5. UnderWay(k)' = UnderWay(k) \cup {new} /\ \A m \in Kinds : m # k => UnderWay(m)' = UnderWay(m)
      BY <1>2, <1>4 DEF UnderWay
    <2> HIDE DEF k
    <2>6. /\ marks'[k].start = marks[k].start + 1 /\ marks'[k].end = marks[k].end
          /\ \A m \in Kinds : m # k => marks'[m] = marks[m]
      BY <2>2, <2>3
    <2>7. Cardinality(UnderWay(k)') = Cardinality(UnderWay(k)) + 1
      BY <2>2, <2>4, <2>5, MarkNats, FS_AddElement
    <2>8. ASSUME NEW m \in Kinds
          PROVE  marks'[m].start - marks'[m].end = Cardinality(UnderWay(m)')
      <3>1. marks[m].start - marks[m].end = Cardinality(UnderWay(m))
        BY DEF MarkersPaired, UnderWay
      <3>2. CASE m = k
        BY <2>6, <2>7, <3>1, <3>2, MarkNats
      <3>3. CASE m # k
        BY <2>5, <2>6, <3>1, <3>3
      <3>4. QED
        BY <3>2, <3>3
    <2>9. QED
      BY <2>8 DEF MarkersPaired, UnderWay
  <1>5. QED
    BY <1>3, <1>4

LEMMA StepMarks == ASSUME IInv, MarkersPaired, NEW i \in DOMAIN calls, Step(i) PROVE MarkersPaired'
  <1>1. CASE Evaluate(i)
    <2>1. UNCHANGED marks /\ calls[i].at = "eval"
      BY <1>1, EvaluatePut
    <2>2. PICK r : Put(i, r) /\ r.at \in {"recover", "log", "fetch", "end"}
      BY <1>1, EvaluateOK
    <2>3. QED
      BY <2>1, <2>2, QuietMarks
  <1>2. ASSUME NEW ok \in BOOLEAN, Fetch(i, ok) PROVE MarkersPaired'
    <2>1. UNCHANGED marks /\ calls[i].at = "fetch"
      BY <1>2, FetchPut
    <2>2. PICK r : Put(i, r) /\ r.at = "end"
      BY <1>2, FetchOK
    <2>3. QED
      BY <2>1, <2>2, QuietMarks
  <1>3. ASSUME NEW key \in Keys \cup {None}, Log(i, key) PROVE MarkersPaired'
    <2>1. UNCHANGED marks /\ calls[i].at = "log"
      BY <1>3, LogGoto
    <2>2. PICK r : Put(i, r) /\ r.at = "end"
      BY <1>3, LogGoto
    <2>3. QED
      BY <2>1, <2>2, QuietMarks
  <1>4. ASSUME NEW ok \in BOOLEAN, Send(i, ok) PROVE MarkersPaired'
    <2>1. UNCHANGED marks /\ calls[i].at = "send"
      BY <1>4, SendGoto
    <2>2. PICK r : Put(i, r)
      BY <1>4, SendGoto
    <2>3. calls[i].op \notin CheckOps
      BY <2>1, TypeFacts DEF CallOK, CheckOps
    <2>4. QED
      BY <2>1, <2>2, <2>3, QuietMarks
  <1>5. CASE Recover(i)
    <2>1. UNCHANGED marks /\ calls[i].at = "recover"
      BY <1>5, RecoverGoto
    <2>2. PICK r : Put(i, r) /\ r.at = IF calls[i].panic \in seen THEN "endFailed" ELSE "report"
      BY <1>5, RecoverGoto
    <2>3. r.at # "returned"
      BY <2>2
    <2>4. QED
      BY <2>1, <2>2, <2>3, QuietMarks
  <1>6. CASE Report(i)
    <2>1. UNCHANGED marks /\ calls[i].at = "report"
      BY <1>6, ReportGoto
    <2>2. PICK r : Put(i, r) /\ r.at = "endFailed"
      BY <1>6, ReportGoto
    <2>3. QED
      BY <2>1, <2>2, QuietMarks
  <1>7. QED
    BY <1>1, <1>2, <1>3, <1>4, <1>5, <1>6, EndMarks DEF Step

LEMMA GetMarks ==
    ASSUME IInv, MarkersPaired, NEW i \in DOMAIN calls, NEW key \in Keys, NEW type \in Types,
           Get(i, key, type)
    PROVE  MarkersPaired'
  <1>1. UNCHANGED marks /\ calls[i].at = "returned"
    BY GetPut
  <1>2. PICK r : Put(i, r) /\ r.at = "returned"
    BY GetOK
  <1>3. QED
    BY <1>1, <1>2, QuietMarks

(***************************************************************************)
(* MarkersPaired: a start marker without an end marker belongs to a call   *)
(* that is under way, also after panics and refused users.                 *)
(***************************************************************************)
THEOREM PairedCorrect == Spec => []MarkersPaired
  <1>1. Init => MarkersPaired
    <2> SUFFICES ASSUME Init, NEW k \in Kinds
                 PROVE  marks[k].start - marks[k].end = Cardinality(UnderWay(k))
      BY DEF MarkersPaired, UnderWay
    <2>1. UnderWay(k) = {}
      BY DEF Init, UnderWay
    <2>2. QED
      BY <2>1, FS_EmptySet DEF Init
  <1>2. IInv /\ MarkersPaired /\ [Next]_vars => MarkersPaired'
    <2> SUFFICES ASSUME IInv, MarkersPaired, [Next]_vars PROVE MarkersPaired'
      OBVIOUS
    <2>1. ASSUME UNCHANGED <<calls, marks>> PROVE MarkersPaired'
      BY <2>1 DEF MarkersPaired
    <2>2. CASE UNCHANGED vars
      BY <2>1, <2>2 DEF vars
    <2>3. ASSUME NEW kind \in Kinds, NEW res \in Outcomes[kind], Sync(kind, res) PROVE MarkersPaired'
      BY <2>1, <2>3 DEF Sync
    <2>4. CASE Next
      BY <2>3, <2>4, StartMarks, StepMarks, GetMarks DEF Next
    <2>5. QED
      BY <2>2, <2>4
  <1>3. QED
    BY InitIInv, NextIInv, <1>1, <1>2, PTL DEF Spec

-----------------------------------------------------------------------------
(***************************************************************************)
(* ExposurePerCheck and ExposureIsWhatWasReturned.  Events are counted     *)
(* from the start of a call on (EventInv): it has none until its place is  *)
(* "end" or "returned", and from then on its result stays as it is.        *)
(***************************************************************************)
LEMMA EventNats ==
    ASSUME IInv
    PROVE  \A i : IsFiniteSet(EventsOf(i)) /\ Cardinality(EventsOf(i)) \in Nat
  <1>1. IsFiniteSet(1..Len(events)) /\ DOMAIN events = 1..Len(events)
    BY TypeFacts, FS_Interval
  <1>2. \A i : EventsOf(i) \in SUBSET (1..Len(events))
    BY <1>1 DEF EventsOf
  <1>3. QED
    BY <1>1, <1>2, FS_Subset, FS_CardinalityType

\* An event of call i is added.
LEMMA EventAdded ==
    ASSUME IInv, NEW i, NEW e \in Events, e.call = i, events' = Append(events, e)
    PROVE  /\ Cardinality(EventsOf(i)') = Cardinality(EventsOf(i)) + 1
           /\ \A j : j # i => EventsOf(j)' = EventsOf(j)
           /\ \A n \in DOMAIN events' : \/ n \in DOMAIN events /\ events'[n] = events[n]
                                        \/ events'[n] = e
  <1> DEFINE n == Len(events) + 1
  <1>1. /\ events \in Seq(Events) /\ Len(events) \in Nat /\ DOMAIN events = 1..Len(events)
    BY TypeFacts
  <1>2. /\ DOMAIN events' = 1..n /\ events'[n] = e
        /\ \A m \in 1..Len(events) : events'[m] = events[m]
    BY <1>1
  <1>3. n \notin DOMAIN events /\ DOMAIN events' = DOMAIN events \cup {n}
    BY <1>1, <1>2
  <1> HIDE DEF n
  <1>4. EventsOf(i)' = EventsOf(i) \cup {n} /\ n \notin EventsOf(i)
    BY <1>1, <1>2, <1>3 DEF EventsOf
  <1>5. \A j : j # i => EventsOf(j)' = EventsOf(j)
    BY <1>1, <1>2, <1>3 DEF EventsOf
  <1>6. Cardinality(EventsOf(i)') = Cardinality(EventsOf(i)) + 1
    BY <1>4, EventNats, FS_AddElement
  <1>7. QED
    BY <1>1, <1>2, <1>3, <1>5, <1>6

\* A call that has not got so far has no events.
LEMMA NoEvents ==
    ASSUME IInv, EventInv, NEW i \in DOMAIN calls, Logged(calls[i]) = 0
    PROVE  \A n \in DOMAIN events : events[n].call # i
  <1>1. EventsOf(i) = {}
    BY EventNats, FS_EmptySet DEF EventInv
  <1>2. QED
    BY <1>1 DEF EventsOf

\* A call goes on without an event, and what it has logged is still true.
LEMMA QuietEvents ==
    ASSUME IInv, EventInv, NEW i \in DOMAIN calls, NEW r, Put(i, r), UNCHANGED events,
           Logged(r) = Logged(calls[i]), r.result = calls[i].result \/ Logged(calls[i]) = 0
    PROVE  EventInv'
  <1>1. /\ DOMAIN calls' = DOMAIN calls /\ calls'[i] = r /\ r.op = calls[i].op
        /\ \A j \in DOMAIN calls : j # i => calls'[j] = calls[j]
    BY TypeFacts, PutFacts DEF Put
  <1>2. ASSUME NEW n \in DOMAIN events PROVE Faithful(events[n], calls'[events[n].call])
    <2>1. events[n].call \in DOMAIN calls /\ Faithful(events[n], calls[events[n].call])
      BY DEF EventInv
    <2>2. CASE events[n].call = i
      <3>1. r.result = calls[i].result
        BY <2>2, NoEvents
      <3>2. QED
        BY <1>1, <2>1, <2>2, <3>1 DEF Faithful
    <2>3. CASE events[n].call # i
      BY <1>1, <2>1, <2>3
    <2>4. QED
      BY <2>2, <2>3
  <1>3. ASSUME NEW j \in DOMAIN calls PROVE Cardinality(EventsOf(j)') = Logged(calls'[j])
    <2>1. EventsOf(j)' = EventsOf(j) /\ Cardinality(EventsOf(j)) = Logged(calls[j])
      BY DEF EventsOf, EventInv
    <2>2. QED
      BY <1>1, <2>1
  <1>4. QED
    BY <1>1, <1>2, <1>3 DEF EventInv

\* A call goes on with an event.
LEMMA OneEvent ==
    ASSUME IInv, EventInv, NEW i \in DOMAIN calls, NEW r, Put(i, r), NEW e \in Events,
           e.call = i, events' = Append(events, e), Faithful(e, calls[i]),
           Logged(r) = Logged(calls[i]) + 1, r.result = calls[i].result
    PROVE  EventInv'
  <1>1. /\ DOMAIN calls' = DOMAIN calls /\ calls'[i] = r /\ r.op = calls[i].op
        /\ \A j \in DOMAIN calls : j # i => calls'[j] = calls[j]
    BY TypeFacts, PutFacts DEF Put
  <1>2. /\ Cardinality(EventsOf(i)') = Cardinality(EventsOf(i)) + 1
        /\ \A j : j # i => EventsOf(j)' = EventsOf(j)
        /\ \A n \in DOMAIN events' : \/ n \in DOMAIN events /\ events'[n] = events[n]
                                     \/ events'[n] = e
    BY EventAdded
  <1>3. \A f : Faithful(f, calls[i]) => Faithful(f, r)
    BY <1>1 DEF Faithful
  <1>4. ASSUME NEW n \in DOMAIN events'
        PROVE  events'[n].call \in DOMAIN calls' /\ Faithful(events'[n], calls'[events'[n].call])
    <2>1. CASE n \in DOMAIN events /\ events'[n] = events[n]
      <3>1. events[n].call \in DOMAIN calls /\ Faithful(events[n], calls[events[n].call])
        BY <2>1 DEF EventInv
      <3>2. QED
        BY <1>1, <1>3, <2>1, <3>1
    <2>2. CASE events'[n] = e
      BY <1>1, <1>3, <2>2
    <2>3. QED
      BY <1>2, <2>1, <2>2
  <1>5. ASSUME NEW j \in DOMAIN calls PROVE Cardinality(EventsOf(j)') = Logged(calls'[j])
    <2>1. Cardinality(EventsOf(j)) = Logged(calls[j])
      BY DEF EventInv
    <2>2. CASE j = i
      BY <1>1, <1>2, <2>1, <2>2
    <2>3. CASE j # i
      BY <1>1, <1>2, <2>1, <2>3
    <2>4. QED
      BY <2>2, <2>3
  <1>6. QED
    BY <1>1, <1>4, <1>5 DEF EventInv

LEMMA StepEvents == ASSUME IInv, EventInv, NEW i \in DOMAIN calls, Step(i) PROVE EventInv'
  <1> DEFINE c == calls[i]
  <1>0. c \in Calls /\ CallOK(c)
    BY TypeFacts
  <1>1. CASE Evaluate(i)
    <2>1. UNCHANGED events /\ c.at = "eval"
      BY <1>1, EvaluatePut
    <2>2. PICK r : /\ Put(i, r) /\ r.at \in {"recover", "log", "fetch", "end"} /\ r.reads = 0
                   /\ r.at = "end" => r.op \in CheckOps /\ (r.op = "GetLayer" \/ ~r.logs)
      BY <1>1, EvaluateOK
    <2>3. Logged(c) = 0 /\ Logged(r) = 0
      BY <2>1, <2>2 DEF Logged, ExpectedExposures
    <2>4. QED
      BY <2>1, <2>2, <2>3, QuietEvents
  <1>2. ASSUME NEW ok \in BOOLEAN, Fetch(i, ok) PROVE EventInv'
    <2>1. UNCHANGED events /\ c.at = "fetch"
      BY <1>2, FetchPut
    <2>2. PICK r : /\ Put(i, r) /\ r.at = "end" /\ r.reads = 0 /\ r.op \in CheckOps
                   /\ r.source = "server"
      BY <1>2, FetchOK
    <2>3. Logged(c) = 0 /\ Logged(r) = 0
      BY <2>1, <2>2 DEF Logged, ExpectedExposures
    <2>4. QED
      BY <2>1, <2>2, <2>3, QuietEvents
  <1>3. ASSUME NEW key \in Keys \cup {None}, Log(i, key) PROVE EventInv'
    <2>1. c.at = "log"
      BY <1>3, LogGoto
    <2>2. PICK e \in Events : events' = Append(events, e) /\ e.call = i /\ Faithful(e, c)
      BY <1>3, LogGoto
    <2>3. PICK r : Put(i, r) /\ Same(c, r) /\ r.at = "end"
      BY <1>3, LogGoto
    <2>4. r.op = c.op /\ r.logs = c.logs /\ r.accepted = c.accepted
      BY <2>3 DEF Put, Same
    <2>5. Logged(c) = 0
      BY <2>1 DEF Logged
    <2>6. Logged(r) = 1
      <3>1. /\ r.accepted /\ r.panic = None
            /\ \/ r.op \in ManualOps \cup {"LogEvent"}
               \/ r.op \in CheckOps \ {"GetLayer"} /\ r.logs /\ r.source = "local"
        BY <1>0, <2>1, <2>3, <2>4 DEF CallOK, Same
      <3>2. r.op \in ManualOps \cup {"LogEvent"} => r.op \notin CheckOps /\ r.op # "GetLayer"
        BY DEF ManualOps, CheckOps
      <3>3. QED
        BY <2>3, <3>1, <3>2 DEF Logged, ExpectedExposures
    <2>7. QED
      BY <2>2, <2>3, <2>5, <2>6, OneEvent DEF Same
  <1>4. ASSUME NEW ok \in BOOLEAN, Send(i, ok) PROVE EventInv'
    <2>1. c.at = "send"
      BY <1>4, SendGoto
    <2>2. PICK r : /\ Put(i, r) /\ r.at = "returned" /\ r.accepted = ok
                   /\ r.panic = c.panic /\ r.result = c.result
      BY <1>4, SendGoto
    <2>3. r.op = "LogImmediate" /\ r.panic = None
      BY <1>0, <2>1, <2>2 DEF Put, CallOK
    <2>4. Logged(c) = 0 /\ Logged(r) = IF ok THEN 1 ELSE 0
      BY <2>1, <2>2, <2>3 DEF CheckOps, Logged, ExpectedExposures
    <2>5. CASE ok
      <3>1. PICK e \in Events : events' = Append(events, e) /\ e.call = i /\ Faithful(e, c)
        BY <1>4, <2>5, SendGoto
      <3>2. QED
        BY <2>2, <2>4, <2>5, <3>1, OneEvent
    <2>6. CASE ~ok
      <3>1. UNCHANGED events
        BY <1>4, <2>6, SendGoto
      <3>2. QED
        BY <2>2, <2>4, <2>6, <3>1, QuietEvents
    <2>7. QED
      BY <2>5, <2>6
  <1>5. CASE Recover(i)
    <2>1. UNCHANGED events /\ c.at = "recover"
      BY <1>5, RecoverGoto
    <2>2. PICK r : Put(i, r) /\ r.at = IF c.panic \in seen THEN "endFailed" ELSE "report"
      BY <1>5, RecoverGoto
    <2>3. Logged(c) = 0 /\ Logged(r) = 0
      BY <2>1, <2>2 DEF Logged
    <2>4. QED
      BY <2>1, <2>2, <2>3, QuietEvents
  <1>6. CASE Report(i)
    <2>1. UNCHANGED events /\ c.at = "report"
      BY <1>6, ReportGoto
    <2>2. PICK r : Put(i, r) /\ r.at = "endFailed"
      BY <1>6, ReportGoto
    <2>3. Logged(c) = 0 /\ Logged(r) = 0
      BY <2>1, <2>2 DEF Logged
    <2>4. QED
      BY <2>1, <2>2, <2>3, QuietEvents
  <1>7. CASE End(i)
    <2>1. UNCHANGED events /\ c.at \in {"end", "endFailed"}
      BY <1>7, EndGoto
    <2>2. PICK r : Put(i, r) /\ Same(c, r) /\ r.at = "returned"
      BY <1>7, EndGoto
    <2>3. r.op = c.op /\ r.logs = c.logs /\ r.accepted = c.accepted
      BY <2>2 DEF Put, Same
    <2>4. r.panic = c.panic /\ r.source = c.source /\ r.reads = c.reads /\ r.result = c.result
      BY <2>2 DEF Same
    <2>5. CASE c.at = "endFailed"
      <3>1. Logged(c) = 0 /\ Logged(r) = 0
        BY <1>0, <2>2, <2>4, <2>5 DEF CallOK, Logged, ExpectedExposures
      <3>2. QED
        BY <2>1, <2>2, <3>1, QuietEvents
    <2>6. CASE c.at = "end"
      <3>1. ExpectedExposures(r) = ExpectedExposures(c)
        BY <2>3, <2>4 DEF ExpectedExposures
      <3>2. Logged(r) = Logged(c)
        BY <2>2, <2>6, <3>1 DEF Logged
      <3>3. QED
        BY <2>1, <2>2, <2>4, <3>2, QuietEvents
    <2>7. QED
      BY <2>1, <2>5, <2>6
  <1>8. QED
    BY <1>1, <1>2, <1>3, <1>4, <1>5, <1>6, <1>7 DEF Step

LEMMA GetEvents ==
    ASSUME IInv, EventInv, NEW i \in DOMAIN calls, NEW key \in Keys, NEW type \in Types,
           Get(i, key, type)
    PROVE  EventInv'
  <1> DEFINE c == calls[i]
             m == FALSE
             e == Exposure(i, "layer", c.result, key, m)
  <1>0. c \in Calls /\ CallOK(c) /\ c.reads \in Nat /\ i \in Nat /\ c.result \in Results
    BY TypeFacts, CallFields, ClientAssumption
  <1>1. /\ c.at = "returned" /\ c.op \in CheckOps \ {"CheckGate"} /\ c.source # "none"
        /\ events' = IF c.handle /\ c.logs THEN Append(events, e) ELSE events
    BY GetPut
  <1>2. PICK r : /\ Put(i, r) /\ r.at = "returned" /\ r.reads = c.reads + 1
                 /\ r.result = c.result /\ r.source = c.source /\ r.panic = c.panic
                 /\ r.handle = c.handle
    BY GetOK
  <1>3. r.op = c.op /\ r.logs = c.logs /\ r.accepted = c.accepted
    BY <1>1, <1>2 DEF Put
  <1>4. c.accepted /\ c.panic = None /\ (c.handle <=> c.op = "GetLayer")
    BY <1>0, <1>1 DEF CallOK
  <1>5. /\ e \in Events /\ e.call = i /\ e.kind = "layer" /\ e.id = c.result.id
        /\ e.pass = c.result.pass /\ e.key = key
        /\ e.allocated # None => e.allocated = c.result.delegate /\ key \in c.result.explicit
    <2>1. m \in BOOLEAN /\ "layer" \in Kinds
      BY DEF Kinds
    <2> HIDE DEF m, c
    <2>2. QED
      BY <1>0, <2>1, ExposureOK
  <1> HIDE DEF e, c
  <1>6. CASE c.handle /\ c.logs
    <2>1. Logged(r) = Logged(c) + 1
      BY <1>0, <1>1, <1>2, <1>3, <1>4, <1>6 DEF Logged, ExpectedExposures
    <2>2. Faithful(e, c)
      BY <1>4, <1>5, <1>6 DEF Faithful, KindOf
    <2>3. events' = Append(events, e)
      BY <1>1, <1>6
    <2>4. QED
      BY <1>2, <1>5, <2>1, <2>2, <2>3, OneEvent DEF c
  <1>7. CASE ~(c.handle /\ c.logs)
    <2>1. Logged(r) = Logged(c)
      BY <1>0, <1>1, <1>2, <1>3, <1>4, <1>7 DEF Logged, ExpectedExposures
    <2>2. UNCHANGED events
      BY <1>1, <1>7
    <2>3. QED
      BY <1>2, <2>1, <2>2, QuietEvents DEF c
  <1>8. QED
    BY <1>6, <1>7

LEMMA StartEvents ==
    ASSUME IInv, EventInv, NEW op \in Ops, NEW logs \in BOOLEAN, NEW accepted \in BOOLEAN,
           Start(op, logs, accepted)
    PROVE  EventInv'
  <1>1. PICK new, r : Started(op, new, r)
    BY StartNew
  <1>2. /\ new \notin DOMAIN calls /\ DOMAIN calls' = DOMAIN calls \cup {new}
        /\ \A i \in DOMAIN calls : calls'[i] = calls[i]
        /\ calls'[new] = r /\ UNCHANGED events
        /\ r.at \in {"end", "returned"} => ~r.accepted
    BY <1>1 DEF Started
  <1>3. Logged(r) = 0
    BY <1>2 DEF Logged, ExpectedExposures
  <1>4. EventsOf(new) = {}
    BY <1>2 DEF EventsOf, EventInv
  <1>5. \A i : EventsOf(i)' = EventsOf(i)
    BY <1>2 DEF EventsOf
  <1>6. ASSUME NEW i \in DOMAIN calls' PROVE Cardinality(EventsOf(i)') = Logged(calls'[i])
    <2>1. CASE i = new
      BY <1>2, <1>3, <1>4, <1>5, <2>1, FS_EmptySet
    <2>2. CASE i \in DOMAIN calls
      BY <1>2, <1>5, <2>2 DEF EventInv
    <2>3. QED
      BY <1>2, <2>1, <2>2
  <1>7. ASSUME NEW n \in DOMAIN events
        PROVE  events[n].call \in DOMAIN calls' /\ Faithful(events[n], calls'[events[n].call])
    BY <1>2 DEF EventInv
  <1>8. QED
    BY <1>2, <1>6, <1>7 DEF EventInv

LEMMA InitEvents == Init => EventInv
  BY DEF Init, EventInv

LEMMA NextEvents == IInv /\ EventInv /\ [Next]_vars => EventInv'
  <1> SUFFICES ASSUME IInv, EventInv, [Next]_vars PROVE EventInv'
    OBVIOUS
  <1>1. ASSUME UNCHANGED <<calls, events>> PROVE EventInv'
    BY <1>1 DEF EventInv, EventsOf
  <1>2. CASE UNCHANGED vars
    BY <1>1, <1>2 DEF vars
  <1>3. ASSUME NEW kind \in Kinds, NEW res \in Outcomes[kind], Sync(kind, res) PROVE EventInv'
    BY <1>1, <1>3 DEF Sync
  <1>4. CASE Next
    BY <1>3, <1>4, StartEvents, StepEvents, GetEvents DEF Next
  <1>5. QED
    BY <1>2, <1>4

(***************************************************************************)
(* ExposurePerCheck: a call that returned has led to exactly the exposures *)
(* it should have: one for a check evaluated here, one for each read of a  *)
(* layer's parameter, none after a panic, a refusal or a fetch.            *)
(***************************************************************************)
THEOREM PerCheckCorrect == Spec => []ExposurePerCheck
  <1>1. EventInv => ExposurePerCheck
    BY DEF EventInv, ExposurePerCheck, Logged
  <1>2. QED
    BY InitIInv, NextIInv, InitEvents, NextEvents, <1>1, PTL DEF Spec

(***************************************************************************)
(* ExposureIsWhatWasReturned: an exposure says what the application was    *)
(* told, whatever syncs did since the evaluation.                          *)
(***************************************************************************)
THEOREM ReturnedCorrect == Spec => []ExposureIsWhatWasReturned
  <1>1. EventInv => ExposureIsWhatWasReturned
    BY DEF EventInv, ExposureIsWhatWasReturned, Faithful
  <1>2. QED
    BY InitIInv, NextIInv, InitEvents, NextEvents, <1>1, PTL DEF Spec
=============================================================================
