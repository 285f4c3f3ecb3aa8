---------------------------- MODULE ConfigStore ----------------------------
(***************************************************************************)
(* store.go, config specs: how a store gets its first specs, how the       *)
(* poller replaces them, and what evaluations read meanwhile.              *)
(*                                                                         *)
(* Threads.  The worker is the goroutine in newStoreInternal and then the  *)
(* one it starts in pollForRulesetChanges: the second begins where the     *)
(* first has finished with config specs, so one program counter does for   *)
(* both.  Readers evaluate gates once the constructor has returned.  One   *)
(* closer calls Client.Shutdown.                                           *)
(*                                                                         *)
(* All maps that setConfigSpecs swaps are one value, the payload they were *)
(* built from: its source and its time.  Diagnostics markers are made in   *)
(* module Logger (StoreMark), ID lists have a module of their own, and the *)
(* error boundary's reports are left out.                                  *)
(***************************************************************************)
EXTENDS Integers, Sequences, Transport

CONSTANTS
    Readers,
    Adapters,       \* kinds of data adapter: "none", "backup", "polling"
    Servers,        \* kinds of server: "newer" only sends updates newer than
                    \* SinceTime, "any" sends updates of whatever time
    Bootstraps,     \* payloads options.BootstrapValues may hold, or Empty
    Panics,         \* whether the adapter's methods may panic
    LocalMode,      \* options.LocalMode
    Interval,       \* s.configSyncInterval
    OutdatedMax,    \* syncOutdatedMax
    MaxTime,        \* bound: the server publishes specs with times 1..MaxTime
    MaxSwaps        \* bound: updates that a server of kind "any" sends

ASSUME ConfigStoreAssumption ==
    /\ Adapters \subseteq {"none", "backup", "polling"}
    /\ Servers \subseteq {"newer", "any"}
    /\ Panics \in BOOLEAN /\ LocalMode \in BOOLEAN
    /\ Interval \in Nat \ {0} /\ OutdatedMax \in Nat
    /\ MaxTime \in Nat /\ MaxSwaps \in Nat

\* A downloadConfigSpecResponse, whose time counts only if it has updates;
\* Junk is a string that does not unmarshal, as the empty string does not.
Update(t) == [updates |-> TRUE, time |-> t]
NoUpdates == [updates |-> FALSE, time |-> 0]
Junk      == [updates |-> FALSE, time |-> -1]
Payloads  == {Update(t) : t \in 0..MaxTime} \cup {NoUpdates, Junk}

ASSUME BootstrapsAssumption == Bootstraps \subseteq Payloads

Sources  == {"Network", "Bootstrap", "DataAdapter"}
Reasons  == Sources \cup {"Uninitialized", "Unrecognized"}
Specs    == [from : Sources \cup {"Uninitialized"}, time : 0..MaxTime]
NoSpecs  == [from |-> "Uninitialized", time |-> 0]

VARIABLES
    \* the surroundings
    adapter,            \* kind of s.dataAdapter
    stored,             \* what the adapter holds under CONFIG_SPECS_KEY
    bootstrapValues,    \* options.BootstrapValues
    server,             \* kind of the server
    serverTime,         \* time of the specs the server has published
    netUp,              \* the server can be reached and answers 2xx
    \* the store
    specs, lastSyncTime, initReason, initialSyncTime, syncFailureCount, shutdown,
    rates,              \* the sampling rates are not empty
    \* the worker
    pc, stage,
    locals,             \* the request's SinceTime; the payload and its source
    \* readers and closer
    reader,             \* [Readers -> state of an evaluation]
    closer,
    \* history
    swapped, called,    \* times of network payloads swapped in; of callbacks
    saves,              \* times handed to the adapter's Set
    unsaved,            \* the last Set has panicked
    lateSwaps,          \* swaps made after stopPolling
    silent              \* syncs that failed since the last success or message

netVars     == <<serverTime, netUp>>
storeVars   == <<specs, lastSyncTime, initReason, initialSyncTime, rates>>
workerVars  == <<pc, stage, locals>>
syncHistory == <<swapped, called, saves, unsaved, lateSwaps>>
failVars    == <<syncFailureCount, silent>>
fixedVars   == <<adapter, bootstrapValues, server>>
vars == <<fixedVars, stored, netVars, storeVars, workerVars, shutdown, reader, closer,
          syncHistory, failVars>>

Limit == OutdatedMax \div Interval      \* failures that are not reported yet

PCs == {"boot", "adapterGet", "request", "wait", "process", "reason", "callback",
        "save", "initialSync", "sleep", "stopped"}

Reader ==
    [at : {"idle", "spec", "details", "done", "bare"}, spec : Specs, reason : Reasons,
     configSyncTime : 0..MaxTime, initTime : 0..MaxTime,
     overlap : BOOLEAN]     \* history: a sync changed the store meanwhile

TypeOK ==
    /\ adapter \in Adapters
    /\ stored \in Payloads
    /\ bootstrapValues \in Bootstraps
    /\ server \in Servers
    /\ serverTime \in 0..MaxTime
    /\ netUp \in BOOLEAN
    /\ specs \in Specs
    /\ lastSyncTime \in 0..MaxTime
    /\ initReason \in Sources \cup {"Uninitialized"}
    /\ initialSyncTime \in 0..MaxTime
    /\ syncFailureCount \in Nat
    /\ shutdown \in BOOLEAN
    /\ rates \in BOOLEAN
    /\ pc \in PCs
    /\ stage \in {"first", "cold", "poll"}
    /\ locals \in [sinceTime : 0..MaxTime, payload : Payloads, source : Sources]
    /\ reader \in [Readers -> Reader]
    /\ closer \in {"idle", "stopPolling", "returned"}
    /\ swapped \in Seq(0..MaxTime)
    /\ called \in Seq(0..MaxTime)
    /\ saves \in Seq(0..MaxTime)
    /\ unsaved \in BOOLEAN
    /\ lateSwaps \in Nat
    /\ silent \in Nat

NoLocals == [sinceTime |-> 0, payload |-> Junk, source |-> "Network"]

IdleReader ==
    [at |-> "idle", spec |-> NoSpecs, reason |-> "Uninitialized",
     configSyncTime |-> 0, initTime |-> 0, overlap |-> FALSE]

Init ==
    /\ adapter \in Adapters
    /\ stored \in (IF adapter = "none" THEN {Junk} ELSE Payloads)
    /\ bootstrapValues \in Bootstraps
    /\ server \in Servers
    /\ serverTime = IF MaxTime = 0 THEN 0 ELSE 1
    /\ netUp \in BOOLEAN
    /\ specs = NoSpecs
    /\ lastSyncTime = 0
    /\ initReason = "Uninitialized"
    /\ initialSyncTime = 0
    /\ syncFailureCount = 0
    /\ shutdown = FALSE
    /\ rates = FALSE
    /\ pc = "boot"
    /\ stage = "first"
    /\ locals = NoLocals
    /\ reader = [r \in Readers |-> IdleReader]
    /\ closer = "idle"
    /\ swapped = <<>> /\ called = <<>> /\ saves = <<>> /\ unsaved = FALSE
    /\ lateSwaps = 0
    /\ silent = 0

-----------------------------------------------------------------------------
(***************************************************************************)
(* Where the worker goes when an attempt to get specs is over: the         *)
(* constructor turns to the network when lastSyncTime is still 0, the      *)
(* poller sleeps.  The locals of the call are gone.                        *)
(***************************************************************************)
Return ==
    /\ pc' = CASE stage = "first" /\ lastSyncTime = 0 -> "request"
               [] stage = "first" /\ lastSyncTime # 0 -> "initialSync"
               [] stage = "cold" -> "initialSync"
               [] stage = "poll" -> "sleep"
    /\ stage' = IF stage = "first" /\ lastSyncTime = 0 THEN "cold" ELSE stage
    /\ locals' = NoLocals

\* A payload is handed to processConfigSpecs.
Process(p, from) == locals' = [locals EXCEPT !.payload = p, !.source = from]

\* Mutant: the bootstrap values go before the adapter.
BootBootstrapFirst ==
    /\ pc = "boot"
    /\ IF bootstrapValues # Junk
       THEN pc' = "process" /\ Process(bootstrapValues, "Bootstrap") /\ UNCHANGED stage
       ELSE IF adapter # "none"
       THEN pc' = "adapterGet" /\ UNCHANGED <<stage, locals>>
       ELSE pc' = "request" /\ stage' = "cold" /\ UNCHANGED locals
    /\ UNCHANGED <<fixedVars, stored, netVars, storeVars, shutdown, reader, closer, syncHistory,
                   failVars>>

\* newStoreInternal up to the first attempt: the adapter goes before the
\* bootstrap values, and without either the network is asked.
Boot ==
    /\ pc = "boot"
    /\ IF adapter # "none"
       THEN pc' = "adapterGet" /\ UNCHANGED <<stage, locals>>
       ELSE IF bootstrapValues # Junk
       THEN pc' = "process" /\ Process(bootstrapValues, "Bootstrap") /\ UNCHANGED stage
       ELSE pc' = "request" /\ stage' = "cold" /\ UNCHANGED locals
    /\ UNCHANGED <<fixedVars, stored, netVars, storeVars, shutdown, reader, closer, syncHistory,
                   failVars>>

\* fetchConfigSpecsFromAdapter up to processConfigSpecs; a panic of Get is
\* recovered and ends the attempt.
fetchConfigSpecsFromAdapter(panics) ==
    /\ pc = "adapterGet"
    /\ panics => Panics
    /\ IF panics
       THEN Return
       ELSE pc' = "process" /\ Process(stored, "DataAdapter") /\ UNCHANGED stage
    /\ UNCHANGED <<fixedVars, stored, netVars, storeVars, shutdown, reader, closer, syncHistory,
                   failVars>>

\* Mutant: every request asks for what is new since initialization.
SinceTimeStale == initialSyncTime

SinceTime == lastSyncTime

\* fetchConfigSpecsFromServer reads lastSyncTime under the lock and sends.
SendRequest ==
    /\ pc = "request"
    /\ locals' = [locals EXCEPT !.sinceTime = SinceTime]
    /\ pc' = "wait"
    /\ UNCHANGED <<fixedVars, stored, netVars, storeVars, stage, shutdown, reader, closer,
                   syncHistory, failVars>>

\* Mutant: this failure is not counted yet.
OutdatedLate(count) == (count - 1) * Interval > OutdatedMax

Outdated(count) == count * Interval > OutdatedMax

\* handleSyncError: a failed cold start has a message of its own, which does
\* not reset the count; later there is one for an outage that lasts.
handleSyncError ==
    LET count == syncFailureCount + 1
        outage == stage # "cold" /\ Outdated(count)
    IN  /\ syncFailureCount' = IF outage THEN 0 ELSE count
        /\ silent' = IF stage = "cold" \/ outage THEN 0 ELSE silent + 1

\* What postRequest, which never retries, makes of the server's answer.
Request(a) ==
    LET req == postRequestInternal(NewRequest(0), LocalMode, TRUE)
    IN  IF req.state = "done" THEN req ELSE Attempt(req, a)

(***************************************************************************)
(* The bodies the server may answer with.  What SinceTime is for is a      *)
(* server that sends updates newer than it and otherwise none; but nothing *)
(* in the store makes sure of that, and the test servers send the same     *)
(* payload to every request.                                               *)
(***************************************************************************)
ServerPayloads(since) ==
    IF server = "newer"
    THEN {IF serverTime > since THEN Update(serverTime) ELSE NoUpdates}
    ELSE {NoUpdates} \cup {Update(t) : t \in {u \in 0..MaxTime : Len(swapped) < MaxSwaps}}

\* The rest of fetchConfigSpecsFromServer up to processConfigSpecs, with
\* answer a and, if there is one, body p.
Respond(a, p) ==
    /\ pc = "wait"
    /\ netUp <=> (a.kind = "status" /\ Success(a.code) /\ a.decodes)
    /\ p \in ServerPayloads(locals.sinceTime)
    /\ IF Failed(Request(a))
       THEN handleSyncError /\ Return
       ELSE /\ pc' = "process" /\ Process(p, "Network")
            /\ silent' = 0
            /\ UNCHANGED <<stage, syncFailureCount>>
    /\ UNCHANGED <<fixedVars, stored, netVars, storeVars, shutdown, reader, closer, syncHistory>>

\* Every evaluation under way has now seen the store change.
Overlap ==
    reader' = [r \in Readers |->
        [reader[r] EXCEPT !.overlap = @ \/ reader[r].at \in {"spec", "details"}]]

\* Mutant: HasUpdates is not looked at.
AnyPayload(p) == TRUE

\* The payload unmarshals and says has_updates.
HasUpdates(p) == p.updates

\* processConfigSpecs and setConfigSpecs: rates always, specs on updates.
setConfigSpecs ==
    LET p == locals.payload IN
    /\ pc = "process"
    /\ rates' = IF p = Junk THEN rates ELSE p.updates
    /\ IF HasUpdates(p)
       THEN /\ specs' = [from |-> locals.source, time |-> p.time]
            /\ lastSyncTime' = p.time
            /\ pc' = "reason"
            /\ swapped' = IF locals.source = "Network" THEN Append(swapped, p.time) ELSE swapped
            /\ lateSwaps' = IF shutdown THEN lateSwaps + 1 ELSE lateSwaps
            /\ Overlap
            /\ UNCHANGED <<stage, locals>>
       ELSE Return /\ UNCHANGED <<specs, lastSyncTime, swapped, lateSwaps, reader>>
    /\ UNCHANGED <<fixedVars, stored, netVars, initReason, initialSyncTime, shutdown, closer, called,
                   saves, unsaved, failVars>>

\* Mutant: only a network sync sets the reason.
ReasonOfNetwork(source) == IF source = "Network" THEN source ELSE initReason

ReasonOf(source) == source

\* Mutant: a store with an adapter saves and does not call back.
AfterReasonSave(source) ==
    IF source = "Network"
    THEN pc' = (IF adapter = "none" THEN "callback" ELSE "save") /\ UNCHANGED <<stage, locals>>
    ELSE Return

\* Only specs from the network are announced and saved.
AfterReason(source) ==
    IF source = "Network" THEN pc' = "callback" /\ UNCHANGED <<stage, locals>> ELSE Return

\* The reason has a critical section of its own.
SetReason ==
    /\ pc = "reason"
    /\ initReason' = ReasonOf(locals.source)
    /\ Overlap
    /\ AfterReason(locals.source)
    /\ UNCHANGED <<fixedVars, stored, netVars, specs, lastSyncTime, initialSyncTime, rates, shutdown,
                   closer, syncHistory, failVars>>

\* Mutant: what the cold start got is not saved.
RulesUpdatedUnsaved ==
    /\ pc = "callback"
    /\ called' = Append(called, locals.payload.time)
    /\ IF adapter # "none" /\ stage # "cold"
       THEN pc' = "save" /\ UNCHANGED <<stage, locals>> ELSE Return
    /\ UNCHANGED <<fixedVars, stored, netVars, storeVars, shutdown, reader, closer, swapped,
                   saves, unsaved, lateSwaps, failVars>>

\* s.rulesUpdatedCallback(rules, specs.Time)
RulesUpdated ==
    /\ pc = "callback"
    /\ called' = Append(called, locals.payload.time)
    /\ IF adapter # "none" THEN pc' = "save" /\ UNCHANGED <<stage, locals>> ELSE Return
    /\ UNCHANGED <<fixedVars, stored, netVars, storeVars, shutdown, reader, closer, swapped,
                   saves, unsaved, lateSwaps, failVars>>

\* saveConfigSpecsToAdapter; a panic of Set is recovered.
saveConfigSpecsToAdapter(panics) ==
    /\ pc = "save"
    /\ panics => Panics
    /\ stored' = IF panics THEN stored ELSE locals.payload
    /\ saves' = Append(saves, locals.payload.time)
    /\ unsaved' = panics
    /\ Return
    /\ UNCHANGED <<fixedVars, netVars, storeVars, shutdown, reader, closer, swapped, called,
                   lateSwaps, failVars>>

\* The end of the constructor: initialSyncTime, then go pollForRulesetChanges.
InitialSync ==
    /\ pc = "initialSync"
    /\ initialSyncTime' = lastSyncTime
    /\ pc' = "sleep"
    /\ stage' = "poll"
    /\ UNCHANGED <<fixedVars, stored, netVars, specs, lastSyncTime, initReason, rates, locals,
                   shutdown, reader, closer, syncHistory, failVars>>

Poll == IF adapter = "polling" THEN "adapterGet" ELSE "request"

\* Mutant: the poller does not look at s.shutdown.
WakeForEver == Poll

\* Mutant: the poller gives up after a failed sync.
WakeOnce == IF shutdown \/ syncFailureCount > 0 THEN "stopped" ELSE Poll

Wake == IF shutdown THEN "stopped" ELSE Poll

\* pollForRulesetChanges after its sleep.
pollForRulesetChanges ==
    /\ pc = "sleep"
    /\ pc' = Wake
    /\ UNCHANGED <<fixedVars, stored, netVars, storeVars, stage, locals, shutdown, reader, closer,
                   syncHistory, failVars>>

-----------------------------------------------------------------------------
(***************************************************************************)
(* An evaluation reads the store in separate critical sections: the spec   *)
(* (getGate and its like), the reason (eval), and the times                *)
(* (createEvaluationDetails).  A name that is not there skips the second.  *)
(***************************************************************************)
getGate(r) ==
    /\ stage = "poll"
    /\ reader[r].at \in {"idle", "done", "bare"}
    /\ reader' = [reader EXCEPT ![r] =
           [IdleReader EXCEPT !.at = IF specs = NoSpecs THEN "details" ELSE "spec",
                              !.spec = specs,
                              !.reason = IF specs = NoSpecs THEN "Unrecognized" ELSE @,
                              !.overlap = (pc = "reason")]]
    /\ UNCHANGED <<fixedVars, stored, netVars, storeVars, workerVars, shutdown, closer, syncHistory,
                   failVars>>

eval(r) ==
    /\ reader[r].at = "spec"
    /\ reader' = [reader EXCEPT ![r] = [@ EXCEPT !.at = "details", !.reason = initReason]]
    /\ UNCHANGED <<fixedVars, stored, netVars, storeVars, workerVars, shutdown, closer, syncHistory,
                   failVars>>

\* Mutant: the two times are swapped.
TimesSwapped == [sync |-> initialSyncTime, init |-> lastSyncTime]

\* Mutant: both times are that of initialization.
TimesStale == [sync |-> initialSyncTime, init |-> initialSyncTime]

Times == [sync |-> lastSyncTime, init |-> initialSyncTime]

\* The details are made, but not every result carries them: a gate that no
\* rule passes, and one that the server is asked about, come without.
createEvaluationDetails(r, carried) ==
    /\ reader[r].at = "details"
    /\ ~carried => reader[r].reason # "Unrecognized"
    /\ reader' = [reader EXCEPT ![r] =
           IF carried
           THEN [@ EXCEPT !.at = "done", !.configSyncTime = Times.sync, !.initTime = Times.init]
           ELSE [IdleReader EXCEPT !.at = "bare"]]
    /\ UNCHANGED <<fixedVars, stored, netVars, storeVars, workerVars, shutdown, closer, syncHistory,
                   failVars>>

\* evaluator.shutdown, first the adapter; captureVoid recovers a panic of
\* its Shutdown, and stopPolling is then not reached.
ShutdownAdapter(panics) ==
    /\ stage = "poll"
    /\ closer = "idle"
    /\ panics => Panics /\ adapter # "none"
    /\ closer' = IF panics THEN "returned" ELSE "stopPolling"
    /\ UNCHANGED <<fixedVars, stored, netVars, storeVars, workerVars, shutdown, reader, syncHistory,
                   failVars>>

stopPolling ==
    /\ closer = "stopPolling"
    /\ shutdown' = TRUE
    /\ closer' = "returned"
    /\ UNCHANGED <<fixedVars, stored, netVars, storeVars, workerVars, reader, syncHistory, failVars>>

-----------------------------------------------------------------------------
(***************************************************************************)
(* The surroundings: the server publishes, the network comes and goes, and *)
(* another process may write to the adapter that this one polls.           *)
(***************************************************************************)
Publish ==
    /\ server = "newer"
    /\ serverTime < MaxTime
    /\ serverTime' = serverTime + 1
    /\ UNCHANGED <<fixedVars, stored, netUp, storeVars, workerVars, shutdown, reader, closer,
                   syncHistory, failVars>>

NetworkChange ==
    /\ netUp' = ~netUp
    /\ UNCHANGED <<fixedVars, stored, serverTime, storeVars, workerVars, shutdown, reader, closer,
                   syncHistory, failVars>>

AdapterWrite(p) ==
    /\ adapter = "polling"
    /\ stored' = p
    /\ UNCHANGED <<fixedVars, netVars, storeVars, workerVars, shutdown, reader, closer, syncHistory,
                   failVars>>

WorkerStep ==
    \/ Boot
    \/ \E panics \in BOOLEAN : fetchConfigSpecsFromAdapter(panics)
    \/ SendRequest
    \/ \E a \in Answers : \E p \in ServerPayloads(locals.sinceTime) : Respond(a, p)
    \/ setConfigSpecs
    \/ SetReason
    \/ RulesUpdated
    \/ \E panics \in BOOLEAN : saveConfigSpecsToAdapter(panics)
    \/ InitialSync
    \/ pollForRulesetChanges

ReaderStep(r) ==
    \/ getGate(r)
    \/ eval(r)
    \/ \E carried \in BOOLEAN : createEvaluationDetails(r, carried)

Environment == Publish \/ NetworkChange \/ \E p \in Payloads : AdapterWrite(p)

Next ==
    \/ WorkerStep
    \/ \E r \in Readers : ReaderStep(r)
    \/ \E panics \in BOOLEAN : ShutdownAdapter(panics)
    \/ stopPolling
    \/ Environment

Spec == Init /\ [][Next]_vars

-----------------------------------------------------------------------------
(***************************************************************************)
(* Properties.                                                             *)
(***************************************************************************)
(***************************************************************************)
(* Whatever the start was (adapter, bootstrap, network, nothing) and       *)
(* whatever failed since, initReason names the source of the specs being   *)
(* served and lastSyncTime is their time, except between the swap in       *)
(* setConfigSpecs and the separate critical section that sets the reason.  *)
(***************************************************************************)
ReasonMatchesSpecs ==
    /\ lastSyncTime = specs.time
    /\ pc # "reason" => initReason = specs.from

(***************************************************************************)
(* An evaluation that no sync overlaps logs an exposure whose reason and   *)
(* configSyncTime are those of the spec it evaluated.                      *)
(***************************************************************************)
QuietEvaluationConsistent ==
    \A r \in Readers :
        LET e == reader[r] IN
        e.at = "done" /\ ~e.overlap /\ e.spec # NoSpecs =>
            e.reason = e.spec.from /\ e.configSyncTime = e.spec.time

(***************************************************************************)
(* Torn reads err in one direction: with a server that sends newer specs   *)
(* only, and without a polled adapter, an exposure never claims a sync     *)
(* older than the spec it evaluated, nor one older than initialization.    *)
(***************************************************************************)
ExposureNotOlderThanSpec ==
    \A r \in Readers :
        LET e == reader[r] IN
        e.at = "done" /\ adapter # "polling" /\ server = "newer" =>
            e.spec.time <= e.configSyncTime /\ e.initTime <= e.configSyncTime

(***************************************************************************)
(* Whatever the server sends, the same payload again included: each        *)
(* network payload swapped in is announced by rulesUpdatedCallback and     *)
(* handed to the adapter, once and in the order of the swaps, and the      *)
(* worker is behind by one only between the steps of the sync under way.   *)
(* When it is done, an adapter that nobody else writes to holds what is    *)
(* being served, unless the Set of it has panicked.                        *)
(***************************************************************************)
CallbackPerSwap ==
    /\ Len(swapped) - Len(called) =
          IF pc \in {"reason", "callback"} /\ locals.source = "Network" THEN 1 ELSE 0
    /\ adapter # "none" => Len(called) - Len(saves) = IF pc = "save" THEN 1 ELSE 0
    /\ \A i \in DOMAIN called : called[i] = swapped[i]
    /\ \A i \in DOMAIN saves : saves[i] = swapped[i]
    /\ adapter = "backup" /\ swapped # <<>> /\ ~unsaved /\ pc \notin {"reason", "callback", "save"} =>
          stored = Update(lastSyncTime)

(***************************************************************************)
(* stopPolling lets at most the sync in flight go on to replace the specs. *)
(***************************************************************************)
OneSwapAfterStop == lateSwaps <= 1

(***************************************************************************)
(* Outages are not silent: of syncs that fail in a row, at most            *)
(* syncOutdatedMax / configSyncInterval go by without a message, however   *)
(* successes, a failed cold start and earlier outages came before them.    *)
(***************************************************************************)
OutageNoticed == silent <= Limit

(***************************************************************************)
(* The store has no check of its own against specs older than the ones it  *)
(* serves: what keeps it from going back is the SinceTime of its requests, *)
(* which is still the time of the specs being served when the answer is    *)
(* applied.  So, unless it polls an adapter, it goes back only when the    *)
(* server sends, as updates, what is older than the request said.          *)
(***************************************************************************)
OnlyOldAnswersRollBack ==
    [][lastSyncTime' < lastSyncTime =>
           \/ adapter = "polling"
           \/ locals.source = "Network" /\ locals.payload.time < locals.sinceTime]_vars

(***************************************************************************)
(* If the network stays up from some time on, a client that is not shut    *)
(* down and does not poll an adapter ends up with the specs of a server    *)
(* that sends what is newer, also after a failed start and after any       *)
(* number of failed syncs.                                                 *)
(***************************************************************************)
Converges ==
    (adapter # "polling" /\ server = "newer" /\ <>[]netUp) => <>[](shutdown \/ specs.time >= serverTime)
=============================================================================
