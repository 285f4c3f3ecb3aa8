---------------------------- MODULE StatsigProofs ----------------------------
(***************************************************************************)
(* Proofs about the package-level functions on the global client, for any  *)
(* number of concurrent calls.                                             *)
(***************************************************************************)
EXTENDS Statsig, TLAPS

SDCI == "ShutdownAndDangerouslyClearInstance"

(***************************************************************************)
(* The inductive invariant: how calls and clients refer to each other.  A  *)
(* call that waits for a client is its owner; one that has found a client  *)
(* found a built one; a client is built for the Initialize that owns it,   *)
(* which waits for it or has timed out.                                    *)
(***************************************************************************)
Built(c) == c \in DOMAIN clients /\ clients[c].state \in {"built", "sent"}

CallOK(i) ==
    /\ calls[i].op = "Initialize" => calls[i].at \in {"begin", "check", "construct", "select", "returned"}
    /\ calls[i].op # "Initialize" => calls[i].at \in {"check", "use", "stop", "clear", "returned"}
    /\ calls[i].at = "stop" => calls[i].op \in {"Shutdown", SDCI}
    /\ calls[i].at = "clear" => calls[i].op = SDCI
    /\ calls[i].at # "returned" => calls[i].ended = "running"
    /\ calls[i].at \in {"begin", "check"} => calls[i].client = None
    /\ calls[i].at \in {"construct", "select"} =>
          calls[i].client \in DOMAIN clients /\ clients[calls[i].client].owner = i
    /\ calls[i].at \in {"use", "stop"} => Built(calls[i].client)

ClientOK(c) ==
    LET owner == calls[clients[c].owner] IN
    /\ clients[c].owner \in DOMAIN calls
    /\ owner.op = "Initialize" /\ owner.client = c
    /\ clients[c].state = "constructing" =>
          IF clients[c].spawned
          THEN owner.at = "select" \/ (owner.at = "returned" /\ owner.ended = "timedOut")
          ELSE owner.at = "construct"

Links ==
    /\ \A i \in DOMAIN calls : CallOK(i)
    /\ \A c \in DOMAIN clients : ClientOK(c)

IInv == TypeOK /\ Links

-----------------------------------------------------------------------------
(***************************************************************************)
(* What the steps do to the two sequences.                                 *)
(***************************************************************************)
\* Call i goes on as r.
Put(i, r) ==
    /\ calls' = [calls EXCEPT ![i] = r]
    /\ r \in Calls
    /\ r.op = calls[i].op /\ r.overlapped = calls[i].overlapped /\ r.ready = calls[i].ready

LEMMA PutFacts ==
    ASSUME calls \in Seq(Calls), NEW i \in DOMAIN calls, NEW r, Put(i, r)
    PROVE  /\ calls' \in Seq(Calls) /\ DOMAIN calls' = DOMAIN calls /\ calls'[i] = r
           /\ \A j \in DOMAIN calls : j # i => calls'[j] = calls[j]
  BY DEF Put

LEMMA CallFields ==
    ASSUME calls \in Seq(Calls), NEW i \in DOMAIN calls
    PROVE  /\ calls[i] \in Calls /\ i \in Nat
           /\ calls[i].op \in Ops /\ calls[i].client \in Nat \cup {None}
           /\ calls[i].overlapped \in BOOLEAN /\ calls[i].ready \in BOOLEAN
  <1>1. calls[i] \in Calls /\ i \in Nat
    OBVIOUS
  <1>2. QED
    BY <1>1 DEF Calls

LEMMA ReturnPut ==
    ASSUME calls \in Seq(Calls), NEW i \in DOMAIN calls,
           NEW e \in {"ok", "already", "timedOut", "panic"}, Return(i, e)
    PROVE  \E r : Put(i, r) /\ r.at = "returned" /\ r.ended = e /\ r.client = calls[i].client
  <1> DEFINE r == [[calls[i] EXCEPT !.at = "returned"] EXCEPT !.ended = e]
  <1>1. calls[i] \in Calls
    OBVIOUS
  <1>2. /\ r \in Calls /\ r.at = "returned" /\ r.ended = e /\ r.client = calls[i].client
        /\ r.op = calls[i].op /\ r.overlapped = calls[i].overlapped /\ r.ready = calls[i].ready
    BY <1>1 DEF Calls
  <1>3. calls' = [calls EXCEPT ![i] = r]
    BY DEF Return
  <1> HIDE DEF r
  <1>4. QED
    BY <1>2, <1>3 DEF Put

LEMMA GoPut ==
    ASSUME calls \in Seq(Calls), NEW i \in DOMAIN calls,
           NEW l \in {"check", "clear"}, calls' = [calls EXCEPT ![i].at = l]
    PROVE  \E r : /\ Put(i, r) /\ r.at = l
                  /\ r.ended = calls[i].ended /\ r.client = calls[i].client
  <1> DEFINE r == [calls[i] EXCEPT !.at = l]
  <1>1. calls[i] \in Calls
    OBVIOUS
  <1>2. /\ r \in Calls /\ r.at = l /\ r.ended = calls[i].ended /\ r.client = calls[i].client
        /\ r.op = calls[i].op /\ r.overlapped = calls[i].overlapped /\ r.ready = calls[i].ready
    BY <1>1 DEF Calls
  <1>3. calls' = [calls EXCEPT ![i] = r]
    OBVIOUS
  <1> HIDE DEF r
  <1>4. QED
    BY <1>2, <1>3 DEF Put

\* Check: what the functions other than Initialize do.
LEMMA CheckPut ==
    ASSUME TypeOK, NEW i \in DOMAIN calls, Check(i)
    PROVE  /\ calls[i].op # "Initialize" /\ calls[i].at = "check"
           /\ UNCHANGED <<instance, clients, outputLogger, process>>
           /\ \E r : /\ Put(i, r)
                     /\ \/ /\ instance # None /\ r.client = instance
                           /\ r.at = (IF r.op = "Use" THEN "use" ELSE "stop") /\ r.ended = calls[i].ended
                        \/ /\ instance = None /\ r.client = calls[i].client
                           /\ \/ r.at = "returned" /\ r.ended \in {"ok", "panic"}
                              \/ r.at = "clear" /\ r.ended = calls[i].ended /\ r.op = SDCI
  <1>0. /\ calls \in Seq(Calls) /\ calls[i] \in Calls /\ calls[i].op \in Ops
        /\ instance \in Nat \cup {None}
    <2>1. calls \in Seq(Calls) /\ clients \in Seq(Clients)
      BY DEF TypeOK
    <2>2. instance \in Nat \cup {None}
      BY <2>1 DEF TypeOK
    <2>3. QED
      BY <2>1, <2>2, CallFields
  <1> DEFINE c == calls[i]
             found == [[c EXCEPT !.client = instance] EXCEPT !.at = IF c.op = "Use" THEN "use" ELSE "stop"]
             fails == [[c EXCEPT !.at = "returned"] EXCEPT !.ended = "panic"]
             leaves == [[c EXCEPT !.at = "returned"] EXCEPT !.ended = "ok"]
             clears == [c EXCEPT !.at = "clear"]
  <1>1. c.op # "Initialize" /\ c.at = "check" /\ UNCHANGED <<instance, clients, outputLogger, process>>
    BY DEF Check
  <1>2. CASE IsInitialized
    <2>1. calls' = [calls EXCEPT ![i] = found]
      BY <1>2 DEF Check
    <2>2. /\ found \in Calls /\ found.client = instance
          /\ found.at = (IF c.op = "Use" THEN "use" ELSE "stop") /\ found.ended = c.ended /\ found.op = c.op
          /\ found.overlapped = c.overlapped /\ found.ready = c.ready
      BY <1>0 DEF Calls
    <2>3. instance # None
      BY <1>2 DEF IsInitialized
    <2> HIDE DEF found
    <2>4. QED
      BY <1>1, <2>1, <2>2, <2>3 DEF Put
  <1>3. CASE ~IsInitialized
    <2>0. instance = None
      BY <1>3 DEF IsInitialized
    <2>1. CASE c.op = "Use"
      <3>1. calls' = [calls EXCEPT ![i] = fails]
        BY <1>3, <2>1 DEF Check
      <3>2. /\ fails \in Calls /\ fails.client = c.client /\ fails.at = "returned"
            /\ fails.ended = "panic" /\ fails.op = c.op
            /\ fails.overlapped = c.overlapped /\ fails.ready = c.ready
        BY <1>0 DEF Calls
      <3> HIDE DEF fails
      <3>3. QED
        BY <1>1, <2>0, <3>1, <3>2 DEF Put
    <2>2. CASE c.op = "Shutdown"
      <3>1. calls' = [calls EXCEPT ![i] = leaves]
        BY <1>3, <2>2 DEF Check
      <3>2. /\ leaves \in Calls /\ leaves.client = c.client /\ leaves.at = "returned"
            /\ leaves.ended = "ok" /\ leaves.op = c.op
            /\ leaves.overlapped = c.overlapped /\ leaves.ready = c.ready
        BY <1>0 DEF Calls
      <3> HIDE DEF leaves
      <3>3. QED
        BY <1>1, <2>0, <3>1, <3>2 DEF Put
    <2>3. CASE c.op = SDCI
      <3>1. calls' = [calls EXCEPT ![i] = clears]
        BY <1>3, <2>3 DEF Check, SDCI
      <3>2. /\ clears \in Calls /\ clears.client = c.client /\ clears.at = "clear"
            /\ clears.ended = c.ended /\ clears.op = c.op
            /\ clears.overlapped = c.overlapped /\ clears.ready = c.ready
        BY <1>0 DEF Calls
      <3> HIDE DEF clears
      <3>3. QED
        BY <1>1, <2>0, <2>3, <3>1, <3>2 DEF Put
    <2>4. QED
      BY <1>0, <1>1, <2>1, <2>2, <2>3 DEF Ops, SDCI
  <1>4. QED
    BY <1>2, <1>3

\* Client c goes on as k.
PutClient(c, k) ==
    /\ clients' = [clients EXCEPT ![c] = k]
    /\ k \in Clients
    /\ k.owner = clients[c].owner /\ k.spawned = clients[c].spawned

LEMMA PutClientFacts ==
    ASSUME clients \in Seq(Clients), NEW c \in DOMAIN clients, NEW k, PutClient(c, k)
    PROVE  /\ clients' \in Seq(Clients) /\ DOMAIN clients' = DOMAIN clients /\ clients'[c] = k
           /\ \A d \in DOMAIN clients : d # c => clients'[d] = clients[d]
  BY DEF PutClient

LEMMA StatePut ==
    ASSUME clients \in Seq(Clients), NEW c \in DOMAIN clients, NEW s \in {"built", "sent", "failed"},
           clients' = [clients EXCEPT ![c].state = s]
    PROVE  \E k : PutClient(c, k) /\ k.state = s /\ k.shutdown = clients[c].shutdown
  <1> DEFINE k == [clients[c] EXCEPT !.state = s]
  <1>1. clients[c] \in Clients
    OBVIOUS
  <1>2. /\ k \in Clients /\ k.state = s /\ k.shutdown = clients[c].shutdown
        /\ k.owner = clients[c].owner /\ k.spawned = clients[c].spawned
    BY <1>1 DEF Clients
  <1> HIDE DEF k
  <1>3. QED
    BY <1>2 DEF PutClient, k

\* A Shutdown, whether the adapter panics in it or not, leaves its trace.
LEMMA StopPut ==
    ASSUME clients \in Seq(Clients), NEW c \in DOMAIN clients, NEW p,
           clients' = [clients EXCEPT ![c].shutdown = AfterShutdown(@, p)]
    PROVE  \E k : PutClient(c, k) /\ k.shutdown # "no" /\ k.state = clients[c].state
  <1> DEFINE s == AfterShutdown(clients[c].shutdown, p)
             k == [clients[c] EXCEPT !.shutdown = s]
  <1>1. clients[c] \in Clients
    OBVIOUS
  <1>2. s \in {"panicked", "done"}
    BY DEF AfterShutdown
  <1>3. clients' = [clients EXCEPT ![c] = k]
    OBVIOUS
  <1> HIDE DEF s
  <1>4. /\ k \in Clients /\ k.shutdown # "no" /\ k.state = clients[c].state
        /\ k.owner = clients[c].owner /\ k.spawned = clients[c].spawned
    BY <1>1, <1>2 DEF Clients
  <1> HIDE DEF k
  <1>5. QED
    BY <1>3, <1>4 DEF PutClient

\* CheckInitialize without an instance: a new client for call i.
LEMMA NewClient ==
    ASSUME TypeOK, NEW i \in DOMAIN calls, CheckInitialize(i), ~IsInitialized
    PROVE  /\ calls[i].op = "Initialize" /\ calls[i].at = "check"
           /\ UNCHANGED <<instance, outputLogger, process>>
           /\ \E r : /\ Put(i, r) /\ r.client = Len(clients) + 1 /\ r.ended = calls[i].ended
                     /\ r.at = IF calls[i].timeout THEN "select" ELSE "construct"
           /\ \E k : /\ clients' = Append(clients, k) /\ k \in Clients
                     /\ k.owner = i /\ k.state = "constructing" /\ k.shutdown = "no"
                     /\ k.spawned = calls[i].timeout
  <1>0. calls \in Seq(Calls) /\ calls[i] \in Calls /\ clients \in Seq(Clients) /\ i \in Nat
    BY CallFields DEF TypeOK
  <1> DEFINE c == calls[i]
             l == IF c.timeout THEN "select" ELSE "construct"
             r == [[c EXCEPT !.client = Len(clients) + 1] EXCEPT !.at = l]
             k == [state |-> "constructing", owner |-> i, spawned |-> c.timeout, shutdown |-> "no"]
  <1>1. /\ c.op = "Initialize" /\ c.at = "check" /\ UNCHANGED <<instance, outputLogger, process>>
        /\ clients' = Append(clients, k) /\ calls' = [calls EXCEPT ![i] = r]
    BY DEF CheckInitialize
  <1>2. /\ r \in Calls /\ r.client = Len(clients) + 1 /\ r.at = l /\ r.ended = c.ended
        /\ r.op = c.op /\ r.overlapped = c.overlapped /\ r.ready = c.ready
    <2>1. l \in {"select", "construct"} /\ Len(clients) + 1 \in Nat
      BY <1>0
    <2> HIDE DEF l
    <2>2. QED
      BY <1>0, <2>1 DEF Calls
  <1>3. /\ k \in Clients /\ k.owner = i /\ k.state = "constructing" /\ k.shutdown = "no"
        /\ k.spawned = c.timeout
    BY <1>0 DEF Calls, Clients
  <1> HIDE DEF r, k
  <1>4. QED
    BY <1>1, <1>2, <1>3 DEF Put

\* A client that is added leaves the others as they are.
LEMMA AddClient ==
    ASSUME clients \in Seq(Clients), NEW k \in Clients, clients' = Append(clients, k)
    PROVE  /\ clients' \in Seq(Clients)
           /\ Len(clients) \in Nat /\ DOMAIN clients = 1..Len(clients)
           /\ DOMAIN clients' = 1..(Len(clients) + 1)
           /\ \A c \in DOMAIN clients : c \in DOMAIN clients' /\ clients'[c] = clients[c]
           /\ clients'[Len(clients) + 1] = k
  OBVIOUS

LEMMA AppendFacts ==
    ASSUME NEW S, NEW s \in Seq(S), NEW e \in S
    PROVE  /\ Append(s, e) \in Seq(S) /\ DOMAIN Append(s, e) = 1..(Len(s) + 1)
           /\ \A i \in 1..Len(s) : Append(s, e)[i] = s[i]
           /\ Append(s, e)[Len(s) + 1] = e
  OBVIOUS

\* A new call: all others are as they were, but may now be overlapped.
LEMMA NewCall ==
    ASSUME TypeOK, NEW op \in Ops, NEW input \in [timeout : BOOLEAN, valid : BOOLEAN], Call(op, input)
    PROVE  LET new == Len(calls) + 1 IN
           /\ UNCHANGED <<instance, clients, outputLogger, process>>
           /\ calls' \in Seq(Calls) /\ DOMAIN calls' = DOMAIN calls \cup {new}
           /\ new \notin DOMAIN calls
           /\ \A i \in DOMAIN calls :
                 /\ calls'[i].op = calls[i].op /\ calls'[i].at = calls[i].at
                 /\ calls'[i].client = calls[i].client /\ calls'[i].ended = calls[i].ended
                 /\ calls'[i].ready = calls[i].ready
                 /\ calls[i].overlapped => calls'[i].overlapped
                 /\ Active(i) /\ Writes(calls[i].op) /\ Writes(op) =>
                       calls'[i].overlapped /\ calls'[new].overlapped
           /\ calls'[new].op = op /\ calls'[new].client = None /\ calls'[new].ended = "running"
           /\ calls'[new].at = IF op = "Initialize" THEN "begin" ELSE "check"
           /\ calls'[new].ready => \E i \in DOMAIN calls : calls[i].op = "Initialize"
                                                           /\ calls[i].ended \in {"ok", "already"}
  <1> DEFINE n == Len(calls)
             overlaps == {i \in DOMAIN calls : Active(i) /\ Writes(calls[i].op) /\ Writes(op)}
             before == [i \in DOMAIN calls |->
                           [calls[i] EXCEPT !.overlapped = @ \/ i \in overlaps]]
             ready == \E i \in DOMAIN calls : calls[i].op = "Initialize"
                                              /\ calls[i].ended \in {"ok", "already"}
             e == [op |-> op, timeout |-> input.timeout, valid |-> input.valid,
                   at |-> IF op = "Initialize" THEN "begin" ELSE "check",
                   client |-> None, ended |-> "running", overlapped |-> overlaps # {}, ready |-> ready]
  <1>0. calls \in Seq(Calls) /\ n \in Nat /\ DOMAIN calls = 1..n
    BY DEF TypeOK
  <1>1. UNCHANGED <<instance, clients, outputLogger, process>> /\ calls' = Append(before, e)
    BY DEF Call
  <1>2. /\ e \in Calls /\ e.op = op /\ e.client = None /\ e.ended = "running"
        /\ e.at = (IF op = "Initialize" THEN "begin" ELSE "check")
        /\ e.overlapped = (overlaps # {}) /\ e.ready = ready
    <2> DEFINE l == IF op = "Initialize" THEN "begin" ELSE "check"
               some == overlaps # {}
    <2>1. l \in {"begin", "check"} /\ some \in BOOLEAN /\ ready \in BOOLEAN
      OBVIOUS
    <2> HIDE DEF overlaps, ready, l, some
    <2>2. e = [op |-> op, timeout |-> input.timeout, valid |-> input.valid, at |-> l,
               client |-> None, ended |-> "running", overlapped |-> some, ready |-> ready]
      BY DEF l, some
    <2> HIDE DEF e
    <2>3. /\ e \in Calls /\ e.op = op /\ e.client = None /\ e.ended = "running"
          /\ e.at = l /\ e.overlapped = some /\ e.ready = ready
      BY <2>1, <2>2 DEF Calls
    <2>4. QED
      BY <2>3 DEF l, some
  <1> HIDE DEF e, ready
  <1>3. ASSUME NEW i \in DOMAIN calls
        PROVE  /\ before[i] \in Calls /\ before[i].op = calls[i].op /\ before[i].at = calls[i].at
               /\ before[i].client = calls[i].client /\ before[i].ended = calls[i].ended
               /\ before[i].ready = calls[i].ready
               /\ before[i].overlapped = (calls[i].overlapped \/ i \in overlaps)
    <2>1. calls[i] \in Calls
      BY <1>0
    <2> HIDE DEF overlaps
    <2>2. before[i] = [calls[i] EXCEPT !.overlapped = @ \/ i \in overlaps]
      OBVIOUS
    <2> HIDE DEF before
    <2>3. QED
      BY <2>1, <2>2 DEF Calls
  <1>4. before \in Seq(Calls) /\ Len(before) = n
    <2>1. before = [i \in 1..n |-> before[i]]
      BY <1>0
    <2> HIDE DEF before
    <2>2. QED
      BY <1>0, <1>3, <2>1
  <1> HIDE DEF before
  <1>5. /\ calls' \in Seq(Calls) /\ DOMAIN calls' = 1..(n + 1)
        /\ \A i \in 1..n : calls'[i] = before[i]
        /\ calls'[n + 1] = e
    BY <1>1, <1>2, <1>4, AppendFacts
  <1>6. DOMAIN calls' = DOMAIN calls \cup {n + 1} /\ n + 1 \notin DOMAIN calls
    BY <1>0, <1>5
  <1>7. ASSUME NEW i \in DOMAIN calls, Active(i), Writes(calls[i].op), Writes(op)
        PROVE  before[i].overlapped /\ e.overlapped
    BY <1>2, <1>3, <1>7
  <1> HIDE DEF overlaps
  <1>8. ASSUME NEW i \in DOMAIN calls
        PROVE  /\ calls'[i].op = calls[i].op /\ calls'[i].at = calls[i].at
               /\ calls'[i].client = calls[i].client /\ calls'[i].ended = calls[i].ended
               /\ calls'[i].ready = calls[i].ready
               /\ calls[i].overlapped => calls'[i].overlapped
               /\ Active(i) /\ Writes(calls[i].op) /\ Writes(op) =>
                     calls'[i].overlapped /\ calls'[n + 1].overlapped
    BY <1>0, <1>3, <1>5, <1>7, ZenonT(30)
  <1>9. QED
    BY <1>1, <1>2, <1>5, <1>6, <1>8 DEF ready

-----------------------------------------------------------------------------
(***************************************************************************)
(* The invariant is kept.                                                  *)
(***************************************************************************)
LEMMA TypeFacts ==
    ASSUME IInv
    PROVE  /\ calls \in Seq(Calls) /\ clients \in Seq(Clients)
           /\ \A i \in DOMAIN calls : i \in Nat /\ i # None /\ CallOK(i) /\ calls[i] \in Calls
           /\ \A c \in DOMAIN clients : c \in Nat /\ c # None /\ ClientOK(c) /\ clients[c] \in Clients
           /\ instance # None => Built(instance)
           /\ None \notin DOMAIN clients
  <1>1. calls \in Seq(Calls) /\ clients \in Seq(Clients)
    BY DEF IInv, TypeOK
  <1>2. /\ \A i \in DOMAIN calls : i \in Nat /\ calls[i] \in Calls
        /\ \A c \in DOMAIN clients : c \in Nat /\ clients[c] \in Clients
    BY <1>1
  <1>3. instance # None => Built(instance)
    BY DEF IInv, TypeOK, Built
  <1>4. QED
    BY <1>1, <1>2, <1>3, StatsigAssumption DEF IInv, Links

\* Call i moves on while the clients stay: it must stay linked itself, and if
\* it waited for a client under construction, it must have timed out.
LEMMA CallMoves ==
    ASSUME IInv, NEW i \in DOMAIN calls, NEW r, Put(i, r), UNCHANGED clients,
           instance' = None \/ Built(instance'),
           outputLogger' \in DOMAIN calls \cup {None}, process' = process,
           calls[i].op = "Initialize" => r.client = calls[i].client,
           \A c \in DOMAIN clients :
              clients[c].state = "constructing" /\ clients[c].owner = i =>
                 clients[c].spawned /\ r.at = "returned" /\ r.ended = "timedOut",
           CallOK(i)'
    PROVE  IInv'
  <1>0. /\ calls \in Seq(Calls) /\ clients \in Seq(Clients)
        /\ \A j \in DOMAIN calls : CallOK(j)
        /\ \A c \in DOMAIN clients : ClientOK(c)
    BY TypeFacts
  <1>1. /\ calls' \in Seq(Calls) /\ DOMAIN calls' = DOMAIN calls /\ calls'[i] = r
        /\ \A j \in DOMAIN calls : j # i => calls'[j] = calls[j]
    BY <1>0, PutFacts
  <1>2. TypeOK'
    BY <1>1 DEF IInv, TypeOK, Built
  <1>3. ASSUME NEW j \in DOMAIN calls PROVE CallOK(j)'
    <2>1. CASE j = i
      BY <2>1
    <2>2. CASE j # i
      BY <1>0, <1>1, <2>2 DEF CallOK, Built
    <2>3. QED
      BY <2>1, <2>2
  <1>4. ASSUME NEW c \in DOMAIN clients PROVE ClientOK(c)'
    <2>0. ClientOK(c)
      BY <1>0
    <2>1. CASE clients[c].owner = i
      BY <1>1, <2>0, <2>1 DEF ClientOK, Put
    <2>2. CASE clients[c].owner # i
      BY <1>1, <2>0, <2>2 DEF ClientOK
    <2>3. QED
      BY <2>1, <2>2
  <1>5. QED
    BY <1>1, <1>2, <1>3, <1>4 DEF IInv, Links

\* The calls that do not wait for a client.
LEMMA NoOwner ==
    ASSUME IInv, NEW i \in DOMAIN calls, calls[i].at \in {"begin", "check", "use", "stop", "clear"}
    PROVE  \A c \in DOMAIN clients : clients[c].owner # i
  <1>1. CallOK(i) /\ \A c \in DOMAIN clients : c # None /\ ClientOK(c)
    BY TypeFacts
  <1>2. QED
    BY <1>1 DEF CallOK, ClientOK

LEMMA StepIInv == ASSUME IInv, NEW i \in DOMAIN calls, Step(i) PROVE IInv'
  <1>0. /\ calls \in Seq(Calls) /\ clients \in Seq(Clients) /\ CallOK(i) /\ TypeOK /\ i # None
        /\ None \notin DOMAIN clients
        /\ calls[i] \in Calls
        /\ \A c \in DOMAIN clients : ClientOK(c) /\ c # None
        /\ instance = None \/ Built(instance)
        /\ outputLogger \in DOMAIN calls \cup {None}
    BY TypeFacts DEF IInv, TypeOK
  <1>1. CASE Begin(i)
    <2>1. /\ calls[i].at = "begin" /\ outputLogger' = i /\ UNCHANGED <<instance, clients, process>>
          /\ calls' = [calls EXCEPT ![i].at = "check"]
      BY <1>1 DEF Begin
    <2>2. PICK r : /\ Put(i, r) /\ r.at = "check"
                   /\ r.ended = calls[i].ended /\ r.client = calls[i].client
      BY <1>0, <2>1, GoPut
    <2>3. CallOK(i)'
      BY <1>0, <2>1, <2>2, PutFacts DEF CallOK, Built, Put
    <2>4. QED
      BY <1>0, <2>1, <2>2, <2>3, NoOwner, CallMoves DEF Built
  <1>2. CASE CheckInitialize(i) /\ IsInitialized
    <2>1. /\ calls[i].at = "check" /\ UNCHANGED <<instance, clients, outputLogger, process>>
          /\ Return(i, "already")
      BY <1>2 DEF CheckInitialize
    <2>2. PICK r : Put(i, r) /\ r.at = "returned" /\ r.ended = "already" /\ r.client = calls[i].client
      BY <1>0, <2>1, ReturnPut
    <2>3. CallOK(i)'
      BY <1>0, <2>1, <2>2, PutFacts DEF CallOK, Built, Put
    <2>4. QED
      BY <1>0, <2>1, <2>2, <2>3, NoOwner, CallMoves DEF Built
  <1>3. CASE CheckInitialize(i) /\ ~IsInitialized
    <2> DEFINE n == Len(clients) + 1
    <2>1. /\ calls[i].op = "Initialize" /\ calls[i].at = "check"
          /\ UNCHANGED <<instance, outputLogger, process>>
      BY <1>0, <1>3, NewClient
    <2>2. PICK r : /\ Put(i, r) /\ r.client = n /\ r.ended = calls[i].ended
                   /\ r.at = IF calls[i].timeout THEN "select" ELSE "construct"
      BY <1>0, <1>3, NewClient
    <2>3. PICK k : /\ clients' = Append(clients, k) /\ k \in Clients
                   /\ k.owner = i /\ k.state = "constructing" /\ k.shutdown = "no"
                   /\ k.spawned = calls[i].timeout
      BY <1>0, <1>3, NewClient
    <2>4. /\ calls' \in Seq(Calls) /\ DOMAIN calls' = DOMAIN calls /\ calls'[i] = r
          /\ \A j \in DOMAIN calls : j # i => calls'[j] = calls[j]
      BY <1>0, <2>2, PutFacts
    <2>5. /\ clients' \in Seq(Clients) /\ DOMAIN clients' = DOMAIN clients \cup {n}
          /\ n \notin DOMAIN clients /\ clients'[n] = k
          /\ \A c \in DOMAIN clients : clients'[c] = clients[c]
      <3>1. /\ clients' \in Seq(Clients) /\ Len(clients) \in Nat /\ DOMAIN clients = 1..Len(clients)
            /\ DOMAIN clients' = 1..(Len(clients) + 1)
            /\ \A c \in DOMAIN clients : c \in DOMAIN clients' /\ clients'[c] = clients[c]
            /\ clients'[Len(clients) + 1] = k
        BY <1>0, <2>3, AddClient
      <3>2. 1..(Len(clients) + 1) = 1..Len(clients) \cup {n} /\ n \notin 1..Len(clients)
        BY <3>1
      <3>3. QED
        BY <3>1, <3>2
    <2> HIDE DEF n
    <2>6. TypeOK'
      BY <1>0, <2>1, <2>4, <2>5 DEF TypeOK
    <2>7. ASSUME NEW j \in DOMAIN calls PROVE CallOK(j)'
      <3>1. CASE j = i
        BY <1>0, <2>1, <2>2, <2>3, <2>4, <2>5, <3>1 DEF CallOK, Put
      <3>2. CASE j # i
        <4>1. CallOK(j) /\ calls'[j] = calls[j]
          BY <2>4, <3>2, TypeFacts
        <4>2. QED
          BY <2>5, <4>1 DEF CallOK, Built
      <3>3. QED
        BY <3>1, <3>2
    <2>8. ASSUME NEW c \in DOMAIN clients' PROVE ClientOK(c)'
      <3>1. CASE c = n
        BY <2>1, <2>2, <2>3, <2>4, <2>5, <3>1 DEF ClientOK, Put
      <3>2. CASE c # n
        <4>1. c \in DOMAIN clients /\ clients'[c] = clients[c] /\ clients[c].owner # i
          BY <2>1, <2>5, <3>2, NoOwner
        <4>2. ClientOK(c)
          BY <1>0, <4>1
        <4>3. QED
          BY <2>4, <4>1, <4>2 DEF ClientOK
      <3>3. QED
        BY <3>1, <3>2
    <2>9. QED
      BY <2>4, <2>6, <2>7, <2>8 DEF IInv, Links
  <1>4. CASE Assign(i) \/ Receive(i)
    <2>1. /\ calls[i].at \in {"construct", "select"} /\ instance' = calls[i].client
          /\ clients[calls[i].client].state \in {"built", "sent"}
          /\ Return(i, "ok") /\ UNCHANGED <<clients, outputLogger, process>>
      BY <1>4 DEF Assign, Receive
    <2>2. PICK r : Put(i, r) /\ r.at = "returned" /\ r.ended = "ok" /\ r.client = calls[i].client
      BY <1>0, <2>1, ReturnPut
    <2>3. calls[i].client \in DOMAIN clients
      BY <1>0, <2>1 DEF CallOK
    <2>4. Built(instance')
      BY <2>1, <2>3 DEF Built
    <2>5. \A c \in DOMAIN clients : clients[c].owner = i => c = calls[i].client
      BY <1>0 DEF ClientOK
    <2>6. CallOK(i)'
      BY <1>0, <2>1, <2>2, PutFacts DEF CallOK, Built, Put
    <2>7. QED
      BY <1>0, <2>1, <2>2, <2>4, <2>5, <2>6, CallMoves
  <1>5. CASE TimeOut(i)
    <2>1. /\ calls[i].at = "select" /\ UNCHANGED <<instance, clients, outputLogger, process>>
          /\ Return(i, "timedOut")
      BY <1>5 DEF TimeOut
    <2>2. PICK r : Put(i, r) /\ r.at = "returned" /\ r.ended = "timedOut" /\ r.client = calls[i].client
      BY <1>0, <2>1, ReturnPut
    <2>3. CallOK(i)'
      BY <1>0, <2>1, <2>2, PutFacts DEF CallOK, Built, Put
    <2>4. ASSUME NEW c \in DOMAIN clients, clients[c].state = "constructing", clients[c].owner = i
          PROVE  clients[c].spawned
      BY <1>0, <2>1, <2>4 DEF ClientOK
    <2>5. QED
      BY <1>0, <2>1, <2>2, <2>3, <2>4, CallMoves DEF Built
  <1>6. CASE Check(i)
    <2>1. /\ calls[i].op # "Initialize" /\ calls[i].at = "check"
          /\ UNCHANGED <<instance, clients, outputLogger, process>>
      BY <1>0, <1>6, CheckPut
    <2>2. PICK r : /\ Put(i, r)
                   /\ \/ /\ instance # None /\ r.client = instance
                         /\ r.at = (IF r.op = "Use" THEN "use" ELSE "stop") /\ r.ended = calls[i].ended
                      \/ /\ instance = None /\ r.client = calls[i].client
                         /\ \/ r.at = "returned" /\ r.ended \in {"ok", "panic"}
                            \/ r.at = "clear" /\ r.ended = calls[i].ended /\ r.op = SDCI
      BY <1>0, <1>6, CheckPut
    <2>3. calls[i].op \in {"Use", "Shutdown", SDCI}
      BY <1>0, <2>1 DEF Calls, Ops, SDCI
    <2>4. CallOK(i)'
      BY <1>0, <2>1, <2>2, <2>3, PutFacts DEF CallOK, Built, Put
    <2>5. QED
      BY <1>0, <2>1, <2>2, <2>4, NoOwner, CallMoves DEF Built
  <1>7. CASE Clear(i)
    <2>1. /\ calls[i].at = "clear" /\ instance' = None /\ UNCHANGED <<clients, outputLogger, process>>
          /\ Return(i, "ok")
      BY <1>7 DEF Clear
    <2>2. PICK r : Put(i, r) /\ r.at = "returned" /\ r.ended = "ok" /\ r.client = calls[i].client
      BY <1>0, <2>1, ReturnPut
    <2>3. CallOK(i)'
      BY <1>0, <2>1, <2>2, PutFacts DEF CallOK, Built, Put
    <2>4. QED
      BY <1>0, <2>1, <2>2, <2>3, NoOwner, CallMoves
  <1>8. ASSUME NEW c \in UsedClients(i), Use(i, c) PROVE IInv'
    <2>1. calls[i].at = "use" /\ UNCHANGED <<instance, clients, outputLogger, process>>
          /\ \E e \in {"ok", "panic"} : Return(i, e)
      BY <1>8 DEF Use
    <2>2. PICK r : Put(i, r) /\ r.at = "returned" /\ r.client = calls[i].client
      BY <1>0, <2>1, ReturnPut
    <2>3. CallOK(i)'
      BY <1>0, <2>1, <2>2, PutFacts DEF CallOK, Built, Put
    <2>4. QED
      BY <1>0, <2>1, <2>2, <2>3, NoOwner, CallMoves DEF Built
  <1>9. ASSUME NEW c \in UsedClients(i), NEW p \in BOOLEAN, Stop(i, c, p), c = None PROVE IInv'
    <2>1. calls[i].at = "stop" /\ UNCHANGED <<instance, clients, outputLogger, process>>
          /\ Return(i, "panic")
      BY <1>9 DEF Stop
    <2>2. PICK r : Put(i, r) /\ r.at = "returned" /\ r.client = calls[i].client
      BY <1>0, <2>1, ReturnPut
    <2>3. CallOK(i)'
      BY <1>0, <2>1, <2>2, PutFacts DEF CallOK, Built, Put
    <2>4. QED
      BY <1>0, <2>1, <2>2, <2>3, NoOwner, CallMoves DEF Built
  <1>10. ASSUME NEW c \in UsedClients(i), NEW p \in BOOLEAN, Stop(i, c, p), c # None PROVE IInv'
    <2>1. /\ calls[i].at = "stop" /\ UNCHANGED <<instance, outputLogger, process>>
          /\ clients' = [clients EXCEPT ![c].shutdown = AfterShutdown(@, p)]
          /\ IF calls[i].op = "Shutdown" THEN Return(i, "ok")
             ELSE calls' = [calls EXCEPT ![i].at = "clear"]
      BY <1>10 DEF Stop
    <2>2. Built(c)
      BY <1>0, <1>10, <2>1 DEF UsedClients, CallOK
    <2>3. PICK k : PutClient(c, k) /\ k.shutdown # "no" /\ k.state = clients[c].state
      BY <1>0, <2>1, <2>2, StopPut DEF Built
    <2>4. /\ clients' \in Seq(Clients) /\ DOMAIN clients' = DOMAIN clients /\ clients'[c] = k
          /\ \A d \in DOMAIN clients : d # c => clients'[d] = clients[d]
      BY <1>0, <2>2, <2>3, PutClientFacts DEF Built
    <2>5. \A d \in DOMAIN clients : /\ clients'[d].state = clients[d].state
                                    /\ clients'[d].owner = clients[d].owner
                                    /\ clients'[d].spawned = clients[d].spawned
      BY <2>3, <2>4 DEF PutClient
    <2>6. PICK r : /\ Put(i, r) /\ r.client = calls[i].client
                   /\ \/ r.at = "returned"
                      \/ r.at = "clear" /\ r.ended = calls[i].ended /\ calls[i].op # "Shutdown"
      BY <1>0, <2>1, ReturnPut, GoPut
    <2>7. /\ calls' \in Seq(Calls) /\ DOMAIN calls' = DOMAIN calls /\ calls'[i] = r
          /\ \A j \in DOMAIN calls : j # i => calls'[j] = calls[j]
      BY <1>0, <2>6, PutFacts
    <2>8. TypeOK'
      BY <1>0, <2>1, <2>4, <2>5, <2>7 DEF TypeOK
    <2>9. ASSUME NEW j \in DOMAIN calls PROVE CallOK(j)'
      <3>1. CASE j = i
        BY <1>0, <2>1, <2>6, <2>7, <3>1 DEF CallOK, Put
      <3>2. CASE j # i
        <4>1. CallOK(j) /\ calls'[j] = calls[j]
          BY <2>7, <3>2, TypeFacts
        <4>2. QED
          BY <2>4, <2>5, <4>1 DEF CallOK, Built
      <3>3. QED
        BY <3>1, <3>2
    <2>10. ASSUME NEW d \in DOMAIN clients PROVE ClientOK(d)'
      <3>1. ClientOK(d) /\ clients[d].owner # i
        BY <1>0, <2>1, NoOwner
      <3>2. QED
        BY <2>4, <2>5, <2>7, <3>1 DEF ClientOK
    <2>11. QED
      BY <2>4, <2>7, <2>8, <2>9, <2>10 DEF IInv, Links
  <1>11. QED
    BY <1>1, <1>2, <1>3, <1>4, <1>5, <1>6, <1>7, <1>8, <1>9, <1>10 DEF Step

\* A client moves on, and its owner with it if the constructor panics.
LEMMA ClientMoves ==
    ASSUME IInv, NEW c \in DOMAIN clients, NEW k, PutClient(c, k), k.state # "constructing",
           Built(c) => k.state \in {"built", "sent"}, UNCHANGED <<instance, outputLogger>>,
           process' \in {"up", "down"},
           \/ UNCHANGED calls
           \/ /\ clients[c].state = "constructing" /\ ~clients[c].spawned
              /\ Return(clients[c].owner, "panic")
    PROVE  IInv'
  <1> DEFINE o == clients[c].owner
  <1>0. /\ calls \in Seq(Calls) /\ clients \in Seq(Clients) /\ TypeOK
        /\ \A j \in DOMAIN calls : CallOK(j)
        /\ \A d \in DOMAIN clients : ClientOK(d)
        /\ instance = None \/ Built(instance)
    BY TypeFacts DEF IInv
  <1>1. /\ clients' \in Seq(Clients) /\ DOMAIN clients' = DOMAIN clients /\ clients'[c] = k
        /\ \A d \in DOMAIN clients : d # c => clients'[d] = clients[d]
    BY <1>0, PutClientFacts
  <1>2. /\ o \in DOMAIN calls
        /\ \A d \in DOMAIN clients : clients[d].owner = o => d = c
    BY <1>0 DEF ClientOK
  <1>3. /\ calls' \in Seq(Calls) /\ DOMAIN calls' = DOMAIN calls
        /\ \A j \in DOMAIN calls : j # o => calls'[j] = calls[j]
        /\ calls'[o].op = calls[o].op /\ calls'[o].client = calls[o].client
        /\ calls'[o] = calls[o] \/ calls'[o].at = "returned"
    <2>1. CASE UNCHANGED calls
      BY <1>0, <2>1
    <2>2. CASE Return(o, "panic")
      <3>1. PICK r : Put(o, r) /\ r.at = "returned" /\ r.client = calls[o].client
        BY <1>0, <1>2, <2>2, ReturnPut
      <3>2. QED
        BY <1>0, <1>2, <3>1, PutFacts DEF Put
    <2>3. QED
      BY <2>1, <2>2
  <1>4. \A d : Built(d) => Built(d)'
    BY <1>1 DEF Built
  <1>5. TypeOK'
    BY <1>0, <1>1, <1>3, <1>4 DEF TypeOK, Built
  <1>6. ASSUME NEW j \in DOMAIN calls PROVE CallOK(j)'
    <2>1. CallOK(j)
      BY <1>0
    <2>2. CASE calls'[j] = calls[j]
      BY <1>1, <1>4, <2>1, <2>2 DEF CallOK, PutClient
    <2>3. CASE j = o /\ calls'[j].at = "returned"
      BY <1>3, <2>1, <2>3 DEF CallOK
    <2>4. QED
      BY <1>3, <2>2, <2>3
  <1>7. ASSUME NEW d \in DOMAIN clients PROVE ClientOK(d)'
    <2>1. ClientOK(d)
      BY <1>0
    <2>2. CASE d = c
      BY <1>1, <1>2, <1>3, <2>1, <2>2 DEF ClientOK, PutClient
    <2>3. CASE d # c
      <3>1. clients[d].owner # o
        BY <1>2, <2>3
      <3>2. QED
        BY <1>1, <1>3, <2>1, <2>3, <3>1 DEF ClientOK
    <2>4. QED
      BY <2>2, <2>3
  <1>8. QED
    BY <1>1, <1>3, <1>5, <1>6, <1>7 DEF IInv, Links

\* What Construct and Deliver do.
LEMMA BuildShape ==
    ASSUME IInv, NEW c \in DOMAIN clients, Build(c)
    PROVE  /\ UNCHANGED <<instance, outputLogger>> /\ process' \in {"up", "down"}
           /\ clients[c].state \in {"constructing", "built"}
           /\ \E k : /\ PutClient(c, k) /\ k.shutdown = clients[c].shutdown
                     /\ k.state # "constructing"
                     /\ Built(c) => k.state \in {"built", "sent"}
                     /\ \/ UNCHANGED calls
                        \/ /\ clients[c].state = "constructing" /\ ~clients[c].spawned
                           /\ k.state = "failed" /\ Return(clients[c].owner, "panic")
  <1>0. clients \in Seq(Clients) /\ process \in {"up", "down"}
    BY DEF IInv, TypeOK
  <1>1. CASE Deliver(c)
    <2>1. /\ clients' = [clients EXCEPT ![c].state = "sent"] /\ clients[c].state = "built"
          /\ UNCHANGED <<instance, calls, outputLogger, process>>
      BY <1>1 DEF Deliver
    <2>2. QED
      BY <1>0, <2>1, StatePut
  <1>2. CASE Construct(c)
    <2> DEFINE s == IF calls[clients[c].owner].valid THEN "built" ELSE "failed"
    <2>1. clients' = [clients EXCEPT ![c].state = s] /\ clients[c].state = "constructing"
          /\ UNCHANGED <<instance, outputLogger>>
      BY <1>2 DEF Construct
    <2>2. s \in {"built", "sent", "failed"}
      OBVIOUS
    <2>3. process' \in {"up", "down"}
      BY <1>0, <1>2 DEF Construct
    <2>4. \/ UNCHANGED calls
          \/ s = "failed" /\ ~clients[c].spawned /\ Return(clients[c].owner, "panic")
      BY <1>2 DEF Construct
    <2> HIDE DEF s
    <2>5. PICK k : PutClient(c, k) /\ k.state = s /\ k.shutdown = clients[c].shutdown
      BY <1>0, <2>1, <2>2, StatePut
    <2>6. QED
      BY <2>1, <2>2, <2>3, <2>4, <2>5 DEF Built
  <1>3. QED
    BY <1>1, <1>2 DEF Build

LEMMA BuildIInv == ASSUME IInv, NEW c \in DOMAIN clients, Build(c) PROVE IInv'
  BY BuildShape, ClientMoves

LEMMA CallIInv ==
    ASSUME IInv, NEW op \in Ops, NEW input \in [timeout : BOOLEAN, valid : BOOLEAN], Call(op, input)
    PROVE  IInv'
  <1> DEFINE new == Len(calls) + 1
  <1>0. /\ TypeOK /\ \A j \in DOMAIN calls : CallOK(j)
        /\ \A d \in DOMAIN clients : ClientOK(d)
    BY TypeFacts DEF IInv
  <1>1. /\ UNCHANGED <<instance, clients, outputLogger, process>>
        /\ calls' \in Seq(Calls) /\ DOMAIN calls' = DOMAIN calls \cup {new}
        /\ new \notin DOMAIN calls
        /\ \A i \in DOMAIN calls :
              /\ calls'[i].op = calls[i].op /\ calls'[i].at = calls[i].at
              /\ calls'[i].client = calls[i].client /\ calls'[i].ended = calls[i].ended
        /\ calls'[new].op = op /\ calls'[new].client = None /\ calls'[new].ended = "running"
        /\ calls'[new].at = IF op = "Initialize" THEN "begin" ELSE "check"
    BY <1>0, NewCall
  <1> HIDE DEF new
  <1>2. TypeOK'
    BY <1>0, <1>1 DEF TypeOK
  <1>3. ASSUME NEW j \in DOMAIN calls' PROVE CallOK(j)'
    <2>1. CASE j = new
      BY <1>1, <2>1 DEF CallOK
    <2>2. CASE j \in DOMAIN calls
      BY <1>0, <1>1, <2>2 DEF CallOK, Built
    <2>3. QED
      BY <1>1, <2>1, <2>2
  <1>4. ASSUME NEW d \in DOMAIN clients PROVE ClientOK(d)'
    BY <1>0, <1>1 DEF ClientOK
  <1>5. QED
    BY <1>1, <1>2, <1>3, <1>4 DEF IInv, Links

\* The calls that the application makes.
LEMMA CallCases ==
    ASSUME Next
    PROVE  \/ \E op \in Ops, input \in [timeout : BOOLEAN, valid : BOOLEAN] : Call(op, input)
           \/ \E i \in DOMAIN calls : Step(i)
           \/ \E c \in DOMAIN clients : Build(c)
  BY StatsigAssumption DEF Next, Ops

LEMMA InitIInv == Init => IInv
  BY DEF Init, IInv, TypeOK, Links

LEMMA NextIInv == IInv /\ [Next]_vars => IInv'
  <1> SUFFICES ASSUME IInv, [Next]_vars PROVE IInv'
    OBVIOUS
  <1>1. CASE UNCHANGED vars
    BY <1>1 DEF vars, IInv, TypeOK, Links, CallOK, ClientOK, Built
  <1>2. CASE Next
    BY <1>2, CallCases, CallIInv, StepIInv, BuildIInv
  <1>3. QED
    BY <1>1, <1>2

(***************************************************************************)
(* TypeOK: among any number of concurrent calls, instance only ever points *)
(* to a client whose constructor has returned, also without a lock.        *)
(***************************************************************************)
THEOREM TypeCorrect == Spec => []TypeOK
  <1>1. IInv => TypeOK
    BY DEF IInv
  <1>2. QED
    BY InitIInv, NextIInv, <1>1, PTL DEF Spec

-----------------------------------------------------------------------------
(***************************************************************************)
(* What a step of call i does, as far as the other properties are          *)
(* concerned.                                                              *)
(***************************************************************************)
StepTo(i, r) ==
    /\ Put(i, r) /\ Active(i)
    /\ \/ instance' = instance
       \/ /\ calls[i].at \in {"construct", "select"} /\ r.at = "returned"
          /\ instance' = calls[i].client /\ instance' # None
       \/ calls[i].at = "clear"
    /\ r.op # "Initialize" /\ r.ended = "panic" => instance = None
    /\ r.op = "Initialize" /\ r.ended \in {"ok", "already"} => instance' # None
    /\ calls[i].at = "begin" => r.at = "check"
    /\ calls[i].at = "check" /\ instance # None =>
          r.at = "returned" \/ (r.at = (IF r.op = "Use" THEN "use" ELSE "stop") /\ r.client = instance)
    /\ calls[i].at \in {"construct", "select"} =>
          r.ended = "timedOut" \/ instance' = calls[i].client
    /\ calls[i].at \in {"construct", "select"} => r.at = "returned"
    /\ \A c \in DOMAIN clients : /\ c \in DOMAIN clients'
                                 /\ clients'[c].owner = clients[c].owner
                                 /\ clients'[c].state = clients[c].state
                                 /\ clients'[c].shutdown = "no" => clients[c].shutdown = "no"
    /\ \A c \in DOMAIN clients' \ DOMAIN clients : clients'[c].owner = i /\ r.at # "returned"
    /\ calls[i].at = "stop" => r.ended = "panic" \/ \E c \in UsedClients(i) : clients'[c].shutdown # "no"
    /\ calls[i].at = "stop" /\ r.ended = "panic" => instance = None

LEMMA StepShape == ASSUME IInv, NEW i \in DOMAIN calls, Step(i) PROVE \E r : StepTo(i, r)
  <1>0. /\ calls \in Seq(Calls) /\ clients \in Seq(Clients) /\ CallOK(i) /\ TypeOK
        /\ None \notin DOMAIN clients
        /\ instance = None \/ Built(instance)
    BY TypeFacts DEF IInv
  <1> USE DEF StepTo, Active
  <1>1. CASE Begin(i)
    <2>1. /\ calls[i].at = "begin" /\ UNCHANGED <<instance, clients>>
          /\ calls' = [calls EXCEPT ![i].at = "check"]
      BY <1>1 DEF Begin
    <2>2. PICK r : /\ Put(i, r) /\ r.at = "check"
                   /\ r.ended = calls[i].ended /\ r.client = calls[i].client
      BY <1>0, <2>1, GoPut
    <2>3. StepTo(i, r)
      BY <1>0, <2>1, <2>2 DEF CallOK
    <2>4. QED
      BY <2>3
  <1>2. CASE CheckInitialize(i) /\ IsInitialized
    <2>1. /\ calls[i].op = "Initialize" /\ calls[i].at = "check" /\ UNCHANGED <<instance, clients>>
          /\ Return(i, "already") /\ instance # None
      BY <1>2 DEF CheckInitialize, IsInitialized
    <2>2. PICK r : Put(i, r) /\ r.at = "returned" /\ r.ended = "already"
      BY <1>0, <2>1, ReturnPut
    <2>3. StepTo(i, r)
      BY <2>1, <2>2 DEF Put
    <2>4. QED
      BY <2>3
  <1>3. CASE CheckInitialize(i) /\ ~IsInitialized
    <2>1. /\ calls[i].op = "Initialize" /\ calls[i].at = "check" /\ instance = None
          /\ UNCHANGED instance
      BY <1>0, <1>3, NewClient DEF IsInitialized
    <2>2. PICK r : /\ Put(i, r) /\ r.ended = calls[i].ended
                   /\ r.at = IF calls[i].timeout THEN "select" ELSE "construct"
      BY <1>0, <1>3, NewClient
    <2>3. PICK k : clients' = Append(clients, k) /\ k \in Clients /\ k.owner = i
      BY <1>0, <1>3, NewClient
    <2>4. /\ \A c \in DOMAIN clients : c \in DOMAIN clients' /\ clients'[c] = clients[c]
          /\ \A c \in DOMAIN clients' \ DOMAIN clients : clients'[c] = k
      <3>1. /\ Len(clients) \in Nat /\ DOMAIN clients = 1..Len(clients)
            /\ DOMAIN clients' = 1..(Len(clients) + 1)
            /\ \A c \in DOMAIN clients : c \in DOMAIN clients' /\ clients'[c] = clients[c]
            /\ clients'[Len(clients) + 1] = k
        BY <1>0, <2>3, AddClient
      <3>2. \A c \in 1..(Len(clients) + 1) : c \in 1..Len(clients) \/ c = Len(clients) + 1
        BY <3>1
      <3>3. QED
        BY <3>1, <3>2
    <2>5. StepTo(i, r)
      BY <1>0, <2>1, <2>2, <2>3, <2>4 DEF CallOK, Put
    <2>6. QED
      BY <2>5
  <1>4. CASE Assign(i) \/ Receive(i)
    <2>1. /\ calls[i].at \in {"construct", "select"} /\ instance' = calls[i].client
          /\ Return(i, "ok") /\ UNCHANGED clients
      BY <1>4 DEF Assign, Receive
    <2>2. PICK r : Put(i, r) /\ r.at = "returned" /\ r.ended = "ok" /\ r.client = calls[i].client
      BY <1>0, <2>1, ReturnPut
    <2>3. instance' # None
      BY <1>0, <2>1 DEF CallOK
    <2>4. StepTo(i, r)
      BY <2>1, <2>2, <2>3
    <2>5. QED
      BY <2>4
  <1>5. CASE TimeOut(i)
    <2>1. calls[i].at = "select" /\ UNCHANGED <<instance, clients>> /\ Return(i, "timedOut")
      BY <1>5 DEF TimeOut
    <2>2. PICK r : Put(i, r) /\ r.at = "returned" /\ r.ended = "timedOut"
      BY <1>0, <2>1, ReturnPut
    <2>3. StepTo(i, r)
      BY <2>1, <2>2
    <2>4. QED
      BY <2>3
  <1>6. CASE Check(i)
    <2>1. /\ calls[i].op # "Initialize" /\ calls[i].at = "check" /\ UNCHANGED <<instance, clients>>
      BY <1>0, <1>6, CheckPut
    <2>2. PICK r : /\ Put(i, r)
                   /\ \/ /\ instance # None /\ r.client = instance
                         /\ r.at = (IF r.op = "Use" THEN "use" ELSE "stop") /\ r.ended = calls[i].ended
                      \/ instance = None
      BY <1>0, <1>6, CheckPut
    <2>3. StepTo(i, r)
      BY <1>0, <2>1, <2>2 DEF CallOK, Put
    <2>4. QED
      BY <2>3
  <1>7. CASE Clear(i)
    <2>1. calls[i].at = "clear" /\ UNCHANGED clients /\ Return(i, "ok") /\ calls[i].op # "Initialize"
      BY <1>0, <1>7 DEF Clear, CallOK, SDCI
    <2>2. PICK r : Put(i, r) /\ r.at = "returned" /\ r.ended = "ok"
      BY <1>0, <2>1, ReturnPut
    <2>3. StepTo(i, r)
      BY <2>1, <2>2 DEF Put
    <2>4. QED
      BY <2>3
  <1>8. ASSUME NEW c \in UsedClients(i), Use(i, c) PROVE \E r : StepTo(i, r)
    <2>1. calls[i].at = "use" /\ UNCHANGED <<instance, clients>>
          /\ Return(i, IF c = None THEN "panic" ELSE "ok")
      BY <1>8 DEF Use
    <2>2. PICK r : Put(i, r) /\ r.at = "returned" /\ r.ended = IF c = None THEN "panic" ELSE "ok"
      BY <1>0, <2>1, ReturnPut
    <2>3. calls[i].client # None /\ calls[i].op # "Initialize"
      BY <1>0, <2>1 DEF CallOK, Built
    <2>4. StepTo(i, r)
      BY <1>8, <2>1, <2>2, <2>3 DEF UsedClients, Put
    <2>5. QED
      BY <2>4
  <1>9. ASSUME NEW c \in UsedClients(i), NEW p \in BOOLEAN, Stop(i, c, p) PROVE \E r : StepTo(i, r)
    <2>0. calls[i].at = "stop" /\ UNCHANGED instance
          /\ calls[i].client # None /\ calls[i].op # "Initialize" /\ calls[i].ended = "running"
      BY <1>0, <1>9 DEF Stop, CallOK, Built
    <2>1. CASE c = None
      <3>1. UNCHANGED clients /\ Return(i, "panic") /\ instance = None
        BY <1>9, <2>0, <2>1 DEF Stop, UsedClients
      <3>2. PICK r : Put(i, r) /\ r.at = "returned" /\ r.ended = "panic"
        BY <1>0, <3>1, ReturnPut
      <3>3. StepTo(i, r)
        BY <2>0, <3>1, <3>2 DEF Put
      <3>4. QED
        BY <3>3
    <2>2. CASE c # None
      <3>1. /\ clients' = [clients EXCEPT ![c].shutdown = AfterShutdown(@, p)] /\ Built(c)
            /\ IF calls[i].op = "Shutdown" THEN Return(i, "ok")
               ELSE calls' = [calls EXCEPT ![i].at = "clear"]
        BY <1>0, <1>9, <2>0, <2>2 DEF Stop, UsedClients, CallOK
      <3>2. PICK k : PutClient(c, k) /\ k.shutdown # "no" /\ k.state = clients[c].state
        BY <1>0, <3>1, StopPut DEF Built
      <3>3. /\ DOMAIN clients' = DOMAIN clients /\ clients'[c] = k
            /\ \A d \in DOMAIN clients : d # c => clients'[d] = clients[d]
        BY <1>0, <3>1, <3>2, PutClientFacts DEF Built
      <3>4. /\ clients'[c].shutdown # "no"
            /\ \A d \in DOMAIN clients : /\ clients'[d].owner = clients[d].owner
                                         /\ clients'[d].state = clients[d].state
                                         /\ clients'[d].shutdown = "no" => clients[d].shutdown = "no"
        BY <3>2, <3>3 DEF PutClient
      <3>5. PICK r : Put(i, r) /\ (r.ended = "ok" \/ r.ended = calls[i].ended)
        BY <1>0, <3>1, ReturnPut, GoPut
      <3>6. StepTo(i, r)
        BY <1>9, <2>0, <3>3, <3>4, <3>5 DEF Put
      <3>7. QED
        BY <3>6
    <2>3. QED
      BY <2>1, <2>2
  <1>10. QED
    BY <1>1, <1>2, <1>3, <1>4, <1>5, <1>6, <1>7, <1>8, <1>9 DEF Step

-----------------------------------------------------------------------------
(***************************************************************************)
(* InitializedStays.  What makes it inductive: once an Initialize has      *)
(* returned with an instance there is one, unless somebody clears it, and  *)
(* a call is ready only after such a return.                               *)
(***************************************************************************)
Served == \E i \in DOMAIN calls : calls[i].op = "Initialize" /\ calls[i].ended \in {"ok", "already"}

NoPanic(i) == calls[i].op # "Initialize" /\ calls[i].ready => calls[i].ended # "panic"

StayInv ==
    ~Cleared =>
        /\ Served => instance # None
        /\ \A i \in DOMAIN calls : (calls[i].ready => Served) /\ NoPanic(i)

LEMMA StepStay == ASSUME IInv, StayInv, NEW i \in DOMAIN calls, Step(i) PROVE StayInv'
  <1> SUFFICES ASSUME ~Cleared'
               PROVE  /\ Served' => instance' # None
                      /\ \A j \in DOMAIN calls' : (calls'[j].ready => Served') /\ NoPanic(j)'
    BY DEF StayInv
  <1>0. PICK r : StepTo(i, r)
    BY StepShape
  <1>1. calls \in Seq(Calls) /\ \A j \in DOMAIN calls : CallOK(j)
    BY TypeFacts DEF IInv
  <1>2. /\ DOMAIN calls' = DOMAIN calls /\ calls'[i] = r /\ r.op = calls[i].op
        /\ r.ready = calls[i].ready /\ \A j \in DOMAIN calls : j # i => calls'[j] = calls[j]
    BY <1>0, <1>1, PutFacts DEF StepTo, Put
  <1>3. ~Cleared
    BY <1>2 DEF Cleared
  <1>4. /\ Served => instance # None
        /\ \A j \in DOMAIN calls : (calls[j].ready => Served) /\ NoPanic(j)
    BY <1>3 DEF StayInv
  <1>5. calls[i].at # "clear"
    BY <1>1, <1>3 DEF Cleared, CallOK, SDCI
  <1>6. Served => Served'
    BY <1>0, <1>1, <1>2 DEF Served, StepTo, Active, CallOK
  <1>7. Served' => Served \/ instance' # None
    BY <1>0, <1>2 DEF Served, StepTo
  <1>8. instance # None => instance' # None
    BY <1>0, <1>5 DEF StepTo
  <1>9. ASSUME NEW j \in DOMAIN calls PROVE NoPanic(j)'
    BY <1>0, <1>2, <1>4 DEF NoPanic, StepTo
  <1>10. QED
    BY <1>2, <1>4, <1>6, <1>7, <1>8, <1>9

LEMMA BuildStay == ASSUME IInv, StayInv, NEW c \in DOMAIN clients, Build(c) PROVE StayInv'
  <1> DEFINE o == clients[c].owner
  <1>1. /\ calls \in Seq(Calls) /\ o \in DOMAIN calls /\ calls[o].op = "Initialize"
        /\ CallOK(o) /\ ClientOK(c)
    BY TypeFacts DEF IInv, ClientOK
  <1>2. UNCHANGED instance
    BY BuildShape
  <1>3. CASE UNCHANGED calls
    BY <1>2, <1>3 DEF StayInv, Cleared, Served, NoPanic
  <1>4. CASE clients[c].state = "constructing" /\ ~clients[c].spawned /\ Return(o, "panic")
    <2>1. calls[o].ended = "running"
      BY <1>1, <1>4 DEF ClientOK, CallOK
    <2>2. PICK r : Put(o, r) /\ r.ended = "panic"
      BY <1>1, <1>4, ReturnPut
    <2>3. /\ DOMAIN calls' = DOMAIN calls /\ calls'[o] = r /\ r.op = "Initialize"
          /\ r.ready = calls[o].ready /\ \A j \in DOMAIN calls : j # o => calls'[j] = calls[j]
      BY <1>1, <2>2, PutFacts DEF Put
    <2>4. Cleared' = Cleared /\ Served' = Served
      BY <1>1, <2>1, <2>2, <2>3 DEF Cleared, Served
    <2>5. ASSUME NEW j \in DOMAIN calls, NoPanic(j) PROVE NoPanic(j)'
      BY <2>3, <2>5 DEF NoPanic
    <2>6. ASSUME NEW j \in DOMAIN calls PROVE calls'[j].ready = calls[j].ready
      BY <2>3
    <2>7. QED
      BY <1>2, <2>3, <2>4, <2>5, <2>6 DEF StayInv
  <1>5. QED
    BY <1>3, <1>4, BuildShape

LEMMA CallStay ==
    ASSUME IInv, StayInv, NEW op \in Ops, NEW input \in [timeout : BOOLEAN, valid : BOOLEAN],
           Call(op, input)
    PROVE  StayInv'
  <1> DEFINE new == Len(calls) + 1
  <1>1. /\ UNCHANGED instance
        /\ DOMAIN calls' = DOMAIN calls \cup {new}
        /\ \A i \in DOMAIN calls : /\ calls'[i].op = calls[i].op /\ calls'[i].ended = calls[i].ended
                                   /\ calls'[i].ready = calls[i].ready
        /\ calls'[new].ended = "running" /\ (calls'[new].ready => Served)
    BY NewCall DEF IInv, Served
  <1> HIDE DEF new
  <1>2. Cleared => Cleared'
    BY <1>1 DEF Cleared
  <1>3. Served' = Served
    BY <1>1 DEF Served
  <1>4. ASSUME ~Cleared', NEW j \in DOMAIN calls' PROVE (calls'[j].ready => Served') /\ NoPanic(j)'
    <2>1. CASE j = new
      BY <1>1, <1>3, <2>1 DEF NoPanic
    <2>2. CASE j \in DOMAIN calls
      BY <1>1, <1>2, <1>3, <1>4, <2>2 DEF StayInv, NoPanic
    <2>3. QED
      BY <1>1, <2>1, <2>2
  <1>5. QED
    BY <1>1, <1>2, <1>3, <1>4 DEF StayInv

(***************************************************************************)
(* InitializedStays: once an Initialize has returned with an instance, no  *)
(* function that checks for one panics, whatever other Initialize calls    *)
(* time out, fail or replace the instance, as long as nobody asks to clear *)
(* it.                                                                     *)
(***************************************************************************)
THEOREM InitializedCorrect == Spec => []InitializedStays
  <1>1. Init => StayInv
    BY DEF Init, StayInv, Served, NoPanic
  <1>2. IInv /\ StayInv /\ [Next]_vars => StayInv'
    <2> SUFFICES ASSUME IInv, StayInv, [Next]_vars PROVE StayInv'
      OBVIOUS
    <2>1. CASE UNCHANGED vars
      BY <2>1 DEF vars, StayInv, Cleared, Served, NoPanic
    <2>2. CASE Next
      BY <2>2, CallCases, CallStay, StepStay, BuildStay
    <2>3. QED
      BY <2>1, <2>2
  <1>3. StayInv => InitializedStays
    BY DEF StayInv, InitializedStays, NoPanic
  <1>4. QED
    BY InitIInv, NextIInv, <1>1, <1>2, <1>3, PTL DEF Spec

-----------------------------------------------------------------------------
(***************************************************************************)
(* OrphansExplained.  What makes it inductive: two writers that are on     *)
(* their way at the same time know it (Alone), and while a client of an    *)
(* undisturbed Initialize runs that no Shutdown has touched, it is the     *)
(* instance, and the only writer that can be past its check is about to    *)
(* shut it down (KeptFor).                                                 *)
(***************************************************************************)
Writer(i) == Active(i) /\ Writes(calls[i].op)

Alone ==
    \A i, j \in DOMAIN calls : i # j /\ Writer(i) /\ Writer(j) => calls[i].overlapped

Settled(c) ==
    LET owner == calls[clients[c].owner] IN
    /\ Running(c) /\ owner.at = "returned"
    /\ owner.ended # "timedOut" /\ ~owner.overlapped /\ clients[c].shutdown = "no"

Spares(j, c) ==
    Writer(j) => calls[j].at \in {"begin", "check"} \/ (calls[j].at = "stop" /\ calls[j].client = c)

KeptFor(c) == instance = c /\ \A j \in DOMAIN calls : Spares(j, c)

OrphanInv == Alone /\ \A c \in DOMAIN clients : Settled(c) => KeptFor(c)

LEMMA StepAlone == ASSUME IInv, Alone, NEW i \in DOMAIN calls, Step(i) PROVE Alone'
  <1>0. PICK r : StepTo(i, r)
    BY StepShape
  <1>1. calls \in Seq(Calls)
    BY DEF IInv, TypeOK
  <1>2. /\ DOMAIN calls' = DOMAIN calls /\ calls'[i] = r /\ r.op = calls[i].op
        /\ r.overlapped = calls[i].overlapped /\ \A j \in DOMAIN calls : j # i => calls'[j] = calls[j]
    BY <1>0, <1>1, PutFacts DEF StepTo, Put
  <1>3. \A j \in DOMAIN calls : (Writer(j)' => Writer(j)) /\ calls'[j].overlapped = calls[j].overlapped
    BY <1>0, <1>2 DEF Writer, Active, Writes, StepTo
  <1>4. QED
    BY <1>2, <1>3 DEF Alone

LEMMA StepKept ==
    ASSUME IInv, OrphanInv, NEW i \in DOMAIN calls, Step(i), NEW c \in DOMAIN clients', Settled(c)'
    PROVE  KeptFor(c)'
  <1>0. PICK r : StepTo(i, r)
    BY StepShape
  <1>1. /\ calls \in Seq(Calls) /\ \A j \in DOMAIN calls : CallOK(j)
        /\ \A d \in DOMAIN clients : ClientOK(d)
        /\ None \notin DOMAIN clients
    BY TypeFacts DEF IInv
  <1>2. /\ DOMAIN calls' = DOMAIN calls /\ calls'[i] = r /\ r.op = calls[i].op
        /\ r.overlapped = calls[i].overlapped /\ \A j \in DOMAIN calls : j # i => calls'[j] = calls[j]
    BY <1>0, <1>1, PutFacts DEF StepTo, Put
  <1> DEFINE o == clients'[c].owner
  <1>3. /\ clients'[c].state \in {"built", "sent"} /\ clients'[c].shutdown = "no"
        /\ calls'[o].at = "returned" /\ calls'[o].ended # "timedOut" /\ ~calls'[o].overlapped
    BY DEF Settled, Running
  <1>4. /\ c \in DOMAIN clients /\ clients[c].owner = o /\ o \in DOMAIN calls
        /\ clients[c].state \in {"built", "sent"} /\ clients[c].shutdown = "no"
        /\ calls[o].op = "Initialize" /\ calls[o].client = c
    BY <1>0, <1>1, <1>2, <1>3 DEF StepTo, ClientOK
  <1> HIDE DEF o
  <1>5. CASE o = i
    <2>1. calls[i].at \in {"construct", "select"}
      BY <1>0, <1>1, <1>4, <1>5 DEF StepTo, Active, CallOK
    <2>2. instance' = c
      BY <1>0, <1>2, <1>3, <1>4, <1>5, <2>1 DEF StepTo
    <2>3. Writer(i) /\ ~calls[i].overlapped
      BY <1>2, <1>3, <1>4, <1>5, <2>1 DEF Writer, Active, Writes
    <2>4. ASSUME NEW j \in DOMAIN calls PROVE Spares(j, c)'
      <3>1. CASE j = i
        BY <1>3, <1>5, <3>1 DEF Spares, Writer, Active
      <3>2. CASE j # i
        <4>1. ~Writer(j)
          BY <2>3, <3>2 DEF OrphanInv, Alone
        <4>2. QED
          BY <1>2, <3>2, <4>1 DEF Spares, Writer, Active, Writes
      <3>3. QED
        BY <3>1, <3>2
    <2>5. QED
      BY <1>2, <2>2, <2>4 DEF KeptFor
  <1>6. CASE o # i
    <2>1. Settled(c)
      BY <1>2, <1>3, <1>4, <1>6 DEF Settled, Running
    <2>2. instance = c /\ instance # None /\ \A j \in DOMAIN calls : Spares(j, c)
      BY <1>1, <1>4, <2>1 DEF OrphanInv, KeptFor
    <2>3. calls[i].at \in {"begin", "check", "use", "stop"}
      BY <1>0, <1>1, <2>2 DEF Spares, Writer, Active, Writes, CallOK, SDCI, StepTo
    <2>4. instance' = instance
      BY <1>0, <2>3 DEF StepTo
    <2>5. Spares(i, c)'
      <3>1. CASE ~Writes(calls[i].op)
        BY <1>2, <3>1 DEF Spares, Writer, Writes
      <3>2. CASE Writes(calls[i].op)
        <4>1. calls[i].at \in {"begin", "check"} \/ (calls[i].at = "stop" /\ calls[i].client = c)
          BY <1>0, <2>2, <3>2 DEF Spares, Writer, StepTo
        <4>2. CASE calls[i].at = "begin"
          BY <1>0, <1>2, <4>2 DEF StepTo, Spares
        <4>3. CASE calls[i].at = "check"
          BY <1>0, <1>2, <2>2, <3>2, <4>3 DEF StepTo, Spares, Writes, Writer, Active
        <4>4. CASE calls[i].at = "stop" /\ calls[i].client = c
          BY <1>0, <1>3, <2>2, <4>4 DEF StepTo, UsedClients
        <4>5. QED
          BY <4>1, <4>2, <4>3, <4>4
      <3>3. QED
        BY <3>1, <3>2
    <2>6. ASSUME NEW j \in DOMAIN calls, j # i PROVE Spares(j, c)'
      BY <1>2, <2>2, <2>6 DEF Spares, Writer, Active, Writes
    <2>7. QED
      BY <1>2, <2>2, <2>4, <2>5, <2>6 DEF KeptFor
  <1>7. QED
    BY <1>5, <1>6

LEMMA BuildOrphan == ASSUME IInv, OrphanInv, NEW d \in DOMAIN clients, Build(d) PROVE OrphanInv'
  <1> DEFINE o == clients[d].owner
  <1>1. /\ calls \in Seq(Calls) /\ clients \in Seq(Clients)
        /\ \A e \in DOMAIN clients : ClientOK(e)
    BY TypeFacts DEF IInv
  <1>2. UNCHANGED instance /\ clients[d].state \in {"constructing", "built"}
    BY BuildShape
  <1>3. PICK k : /\ PutClient(d, k) /\ k.shutdown = clients[d].shutdown
                 /\ \/ UNCHANGED calls
                    \/ k.state = "failed" /\ Return(o, "panic")
    BY BuildShape
  <1>4. /\ DOMAIN clients' = DOMAIN clients /\ clients'[d] = k
        /\ \A e \in DOMAIN clients : e # d => clients'[e] = clients[e]
        /\ k.owner = o
    BY <1>1, <1>3, PutClientFacts DEF PutClient
  <1>5. /\ o \in DOMAIN calls
        /\ \A e \in DOMAIN clients : clients[e].owner \in DOMAIN calls /\ (clients[e].owner = o => e = d)
    BY <1>1 DEF ClientOK
  <1>6. /\ DOMAIN calls' = DOMAIN calls
        /\ \A j \in DOMAIN calls : j # o => calls'[j] = calls[j]
        /\ calls'[o] = calls[o] \/ (calls'[o].at = "returned" /\ k.state = "failed")
        /\ calls'[o].overlapped = calls[o].overlapped
    <2>1. CASE UNCHANGED calls
      BY <2>1
    <2>2. CASE k.state = "failed" /\ Return(o, "panic")
      <3>1. PICK r : Put(o, r) /\ r.at = "returned"
        BY <1>1, <1>5, <2>2, ReturnPut
      <3>2. QED
        BY <1>1, <1>5, <2>2, <3>1, PutFacts DEF Put
    <2>3. QED
      BY <1>3, <2>1, <2>2
  <1> HIDE DEF o
  <1>7. \A j \in DOMAIN calls : /\ Writer(j)' => Writer(j) /\ calls'[j] = calls[j]
                                /\ calls'[j].overlapped = calls[j].overlapped
    BY <1>6 DEF Writer, Active, Writes
  <1>8. Alone'
    BY <1>6, <1>7 DEF OrphanInv, Alone
  <1>9. ASSUME NEW c \in DOMAIN clients, Settled(c)' PROVE Settled(c)
    <2>1. CASE c # d
      <3>1. /\ clients'[c] = clients[c]
            /\ calls'[clients[c].owner] = calls[clients[c].owner]
        BY <1>4, <1>5, <1>6, <2>1
      <3>2. QED
        BY <1>9, <3>1 DEF Settled, Running
    <2>2. CASE c = d
      <3>1. k.state # "failed" /\ calls'[o] = calls[o]
        BY <1>4, <1>6, <1>9, <2>2 DEF Settled, Running
      <3>2. calls[o].at = "returned" /\ calls[o].ended # "timedOut" /\ ~calls[o].overlapped /\ k.shutdown = "no"
        BY <1>4, <1>9, <2>2, <3>1 DEF Settled, Running
      <3>3. clients[d].state # "constructing"
        BY <1>1, <3>2 DEF ClientOK, o
      <3>4. QED
        BY <1>2, <1>3, <2>2, <3>2, <3>3 DEF Settled, Running, o
    <2>3. QED
      BY <2>1, <2>2
  <1>10. ASSUME NEW c \in DOMAIN clients, KeptFor(c) PROVE KeptFor(c)'
    BY <1>2, <1>6, <1>7, <1>10 DEF KeptFor, Spares
  <1>11. QED
    BY <1>4, <1>8, <1>9, <1>10 DEF OrphanInv

LEMMA CallOrphan ==
    ASSUME IInv, OrphanInv, NEW op \in Ops, NEW input \in [timeout : BOOLEAN, valid : BOOLEAN],
           Call(op, input)
    PROVE  OrphanInv'
  <1>1. PICK new :
        /\ UNCHANGED <<instance, clients>>
        /\ DOMAIN calls' = DOMAIN calls \cup {new} /\ new \notin DOMAIN calls
        /\ \A i \in DOMAIN calls :
              /\ calls'[i].op = calls[i].op /\ calls'[i].at = calls[i].at
              /\ calls'[i].client = calls[i].client /\ calls'[i].ended = calls[i].ended
              /\ calls[i].overlapped => calls'[i].overlapped
              /\ Active(i) /\ Writes(calls[i].op) /\ Writes(op) =>
                    calls'[i].overlapped /\ calls'[new].overlapped
        /\ calls'[new].op = op
        /\ calls'[new].at = IF op = "Initialize" THEN "begin" ELSE "check"
    BY NewCall, ZenonT(30) DEF IInv
  <1>2. \A c \in DOMAIN clients : ClientOK(c)
    BY TypeFacts DEF IInv
  <1>3. \A i \in DOMAIN calls : Writer(i)' = Writer(i)
    BY <1>1 DEF Writer, Active, Writes
  <1>4. Writer(new)' => Writes(op)
    BY <1>1 DEF Writer, Writes
  <1>5. ASSUME NEW i \in DOMAIN calls', NEW j \in DOMAIN calls', i # j, Writer(i)', Writer(j)'
        PROVE  calls'[i].overlapped
    <2>1. CASE i \in DOMAIN calls /\ j \in DOMAIN calls
      BY <1>1, <1>3, <1>5, <2>1 DEF OrphanInv, Alone
    <2>2. CASE i = new /\ j \in DOMAIN calls
      BY <1>1, <1>3, <1>4, <1>5, <2>2 DEF Writer
    <2>3. CASE i \in DOMAIN calls /\ j = new
      BY <1>1, <1>3, <1>4, <1>5, <2>3 DEF Writer
    <2>4. QED
      BY <1>1, <1>5, <2>1, <2>2, <2>3
  <1>6. Alone'
    BY <1>5 DEF Alone
  <1>7. ASSUME NEW c \in DOMAIN clients, Settled(c)' PROVE KeptFor(c)'
    <2>1. clients[c].owner \in DOMAIN calls
      BY <1>2 DEF ClientOK
    <2>2. Settled(c)
      BY <1>1, <1>7, <2>1 DEF Settled, Running
    <2>3. KeptFor(c)
      BY <2>2 DEF OrphanInv
    <2>4. Spares(new, c)'
      BY <1>1 DEF Spares
    <2>5. ASSUME NEW j \in DOMAIN calls PROVE Spares(j, c)'
      BY <1>1, <1>3, <2>3 DEF KeptFor, Spares
    <2>6. QED
      BY <1>1, <2>3, <2>4, <2>5 DEF KeptFor
  <1>8. QED
    BY <1>1, <1>6, <1>7 DEF OrphanInv

(***************************************************************************)
(* OrphansExplained: with any number of calls, a client that runs and that *)
(* nobody can shut down comes from a timeout, from overlapping calls of    *)
(* Initialize and ShutdownAndDangerouslyClearInstance, or from a data      *)
(* adapter that panicked in its Shutdown.                                  *)
(***************************************************************************)
THEOREM OrphansCorrect == Spec => []OrphansExplained
  <1>1. Init => OrphanInv
    BY DEF Init, OrphanInv, Alone
  <1>2. IInv /\ OrphanInv /\ [Next]_vars => OrphanInv'
    <2> SUFFICES ASSUME IInv, OrphanInv, [Next]_vars PROVE OrphanInv'
      OBVIOUS
    <2>1. CASE UNCHANGED vars
      BY <2>1 DEF vars, OrphanInv, Alone, Writer, Active, Settled, Running, KeptFor, Spares
    <2>2. ASSUME NEW i \in DOMAIN calls, Step(i) PROVE OrphanInv'
      BY <2>2, StepAlone, StepKept DEF OrphanInv
    <2>3. CASE Next
      BY <2>2, <2>3, CallCases, CallOrphan, BuildOrphan
    <2>4. QED
      BY <2>1, <2>3
  <1>3. IInv /\ OrphanInv => OrphansExplained
    <2> SUFFICES ASSUME OrphanInv, NEW c \in DOMAIN clients, Running(c), c # instance,
                        calls[clients[c].owner].at = "returned",
                        ~(calls[clients[c].owner].ended = "timedOut"),
                        ~calls[clients[c].owner].overlapped, clients[c].shutdown # "panicked",
                        TypeOK
                 PROVE  FALSE
      BY DEF OrphansExplained, IInv
    <2>1. clients[c] \in Clients
      BY DEF TypeOK
    <2>2. clients[c].shutdown = "no"
      BY <2>1 DEF Clients, Running
    <2>3. QED
      BY <2>2 DEF OrphanInv, Settled, KeptFor
  <1>4. QED
    BY InitIInv, NextIInv, <1>1, <1>2, <1>3, PTL DEF Spec
=============================================================================
