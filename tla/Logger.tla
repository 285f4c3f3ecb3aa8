------------------------------- MODULE Logger -------------------------------
(***************************************************************************)
(* logger.go: the event buffer, its flushes and the senders.               *)
(*                                                                         *)
(* Threads.  Callers are goroutines of the application calling LogEvent or *)
(* an API that logs an exposure.  Ticker is the goroutine of               *)
(* backgroundFlush.  Closers are goroutines calling Client.Shutdown.       *)
(* Every batch handed to `go l.sendEvents` is a goroutine of its own; a    *)
(* closer sends its batch itself, holding l.mu all the while.              *)
(*                                                                         *)
(* Events are numbered in the order logInternal appends them.              *)
(***************************************************************************)
EXTENDS Integers, Sequences, Diagnostics, Transport

CONSTANTS
    Callers, Closers, Ticker,   \* the threads
    Go,             \* sender of a batch that has a goroutine of its own
    Free,           \* l.mu is not held
    MaxEvents,      \* l.maxEvents
    MaxRetries,     \* maxRetries
    LocalMode,      \* options.LocalMode
    Disabled,       \* contexts switched off by StatsigLoggerOptions
    MaxLogged       \* bound: no call that logs starts once so many events were accepted

ASSUME LoggerAssumption ==
    /\ Ticker \notin Callers /\ Ticker \notin Closers
    /\ Callers \cap Closers = {}
    /\ Free \notin Callers \cup Closers \cup {Ticker}
    /\ Go \notin Callers \cup Closers \cup {Ticker}
    /\ MaxEvents \in Nat \ {0}
    /\ MaxRetries \in Nat
    /\ MaxLogged \in Nat
    /\ LocalMode \in BOOLEAN
    /\ Disabled \subseteq Contexts

VARIABLES
    events,     \* l.events
    mu,         \* holder of l.mu
    batches,    \* every batch ever cut from the buffer, in that order
    ticker,     \* the time.Ticker: running, and a tick waiting in its channel
    pc,         \* program counter of each thread
    call,       \* callers: the diagnostics key of the API call in progress
    ctx,        \* flushers: the context logDiagnosticsEvents is at
    snapshot,   \* flushers: what serializeWithSampling returned
    accepted,   \* history: events appended so far
    cut,        \* history: events that have left the buffer
    calledAt,   \* history: closers: accepted when Shutdown was called
    excused     \* history: markers sampled out, or made between a serialize and its clear

threadVars  == <<pc, call, ctx, snapshot>>
bufferVars  == <<events, mu, batches, accepted, cut>>
vars == <<ticker, calledAt, excused, threadVars, bufferVars, diagVars>>

NoKey == "none"

Flushers == Closers \cup {Ticker}
Threads  == Callers \cup Flushers

Event == [id : Nat, markers : SUBSET Marker, by : Threads, marshals : BOOLEAN]

Batch == [evs  : Seq(Event),
          base : Nat,                \* history: value of cut when it was made
          by   : Closers \cup {Go},  \* who sends it
          req  : Requests]

PCs == {"idle", "logEvent", "exposure", "endMark",
        "serialize", "clear", "logDiag", "flush", "sending", "closed"}

LoggerTypeOK ==
    /\ events \in Seq(Event)
    /\ mu \in Closers \cup {Free}
    /\ batches \in Seq(Batch)
    /\ ticker \in [on : BOOLEAN, pending : BOOLEAN]
    /\ pc \in [Threads -> PCs]
    /\ call \in [Callers -> Keys \cup {NoKey}]
    /\ ctx \in [Flushers -> Contexts]
    /\ snapshot \in [Flushers -> SUBSET Marker]
    /\ accepted \in Nat
    /\ cut \in Nat
    /\ calledAt \in [Closers -> Nat]
    /\ excused \subseteq Nat

(***************************************************************************)
(* newLogger.                                                              *)
(***************************************************************************)
LoggerInit ==
    /\ events = <<>>
    /\ mu = Free
    /\ batches = <<>>
    /\ ticker = [on |-> TRUE, pending |-> FALSE]
    /\ pc = [t \in Threads |-> "idle"]
    /\ call = [t \in Callers |-> NoKey]
    /\ ctx = [t \in Flushers |-> "initialize"]
    /\ snapshot = [t \in Flushers |-> {}]
    /\ accepted = 0
    /\ cut = 0
    /\ calledAt = [t \in Closers |-> 0]
    /\ excused = {}

Init == LoggerInit /\ DiagInit

Goto(t, l) == pc' = [pc EXCEPT ![t] = l]

-----------------------------------------------------------------------------
(***************************************************************************)
(* The buffer, under l.mu.                                                 *)
(***************************************************************************)
NewBatch(evs, sender) ==
    [evs |-> evs, base |-> cut, by |-> sender, req |-> NewRequest(MaxRetries)]

\* flushInternal(false) on the buffer buf: a goroutine takes the batch along.
flushAsync(buf) ==
    /\ events' = <<>>
    /\ batches' = IF buf = <<>> THEN batches ELSE Append(batches, NewBatch(buf, Go))
    /\ cut' = cut + Len(buf)

\* Mutant: > instead of >=.
OverFull(buf) == Len(buf) > MaxEvents

Full(buf) == Len(buf) >= MaxEvents

\* Mutant: the buffer is flushed before the event is appended.
logInternalFlushFirst(t, ms, ok) ==
    LET e == [id |-> accepted + 1, markers |-> ms, by |-> t, marshals |-> ok]
    IN  /\ mu = Free
        /\ accepted' = accepted + 1
        /\ IF Full(Append(events, e))
           THEN /\ events' = <<e>>
                /\ batches' = IF events = <<>> THEN batches
                              ELSE Append(batches, NewBatch(events, Go))
                /\ cut' = cut + Len(events)
           ELSE events' = Append(events, e) /\ UNCHANGED <<batches, cut>>

\* logInternal: append, and flush when the buffer is full.
logInternal(t, ms, ok) ==
    LET buf == Append(events, [id |-> accepted + 1, markers |-> ms, by |-> t, marshals |-> ok])
    IN  /\ mu = Free
        /\ accepted' = accepted + 1
        /\ IF Full(buf)
           THEN flushAsync(buf)
           ELSE events' = buf /\ UNCHANGED <<batches, cut>>

-----------------------------------------------------------------------------
(***************************************************************************)
(* Markers.  mark() is one step under the context's own lock; the history  *)
(* variable notes that a flusher was between its serialize and its clear.  *)
(***************************************************************************)
MarkIn(c, k) ==
    /\ mark(c, k)
    /\ excused' = IF \E t \in Flushers : pc[t] = "clear" /\ ctx[t] = c
                THEN excused \cup {marked + 1} ELSE excused

-----------------------------------------------------------------------------
(***************************************************************************)
(* Callers.                                                                *)
(***************************************************************************)
\* LogEvent with an event name, a manual exposure, a layer parameter read:
\* calls that log one event and mark nothing.
LogEvent(t) ==
    /\ accepted < MaxLogged
    /\ pc[t] = "idle"
    /\ Goto(t, "logEvent")
    /\ UNCHANGED <<ticker, calledAt, excused, call, ctx, snapshot, bufferVars, diagVars>>

\* CheckGate, GetConfig or GetLayer: the capture function marks the start.
Check(t, k) ==
    /\ accepted < MaxLogged /\ marked < MaxMarks
    /\ pc[t] = "idle"
    /\ MarkIn("api_call", k)
    /\ call' = [call EXCEPT ![t] = k]
    /\ Goto(t, "exposure")
    /\ UNCHANGED <<ticker, calledAt, ctx, snapshot, bufferVars>>

\* logCustom and logExposure end in logInternal.  A custom attribute of the
\* user may hold a value that json.Marshal refuses, hence ok.
Log(t, ok) ==
    /\ pc[t] \in {"logEvent", "exposure"}
    /\ logInternal(t, {}, ok)
    /\ Goto(t, IF pc[t] = "exposure" THEN "endMark" ELSE "idle")
    /\ UNCHANGED <<ticker, calledAt, excused, mu, call, ctx, snapshot, diagVars>>

\* The task logs nothing: user refused, logging disabled, answer fetched from
\* the server, a layer (which logs when a parameter is read), or a panic.
SkipLog(t) ==
    /\ pc[t] = "exposure"
    /\ Goto(t, "endMark")
    /\ UNCHANGED <<ticker, calledAt, excused, call, ctx, snapshot, bufferVars, diagVars>>

\* The capture function, or its recovery, marks the end of the call.
EndMark(t) ==
    /\ pc[t] = "endMark"
    /\ MarkIn("api_call", call[t])
    /\ call' = [call EXCEPT ![t] = NoKey]
    /\ Goto(t, "idle")
    /\ UNCHANGED <<ticker, calledAt, ctx, snapshot, bufferVars>>

-----------------------------------------------------------------------------
(***************************************************************************)
(* flush(closing): first the diagnostics events of the three contexts,     *)
(* then the buffer.  closing is TRUE exactly for the closers.              *)
(***************************************************************************)
\* Go's runtime puts a tick in the ticker's channel, which holds one.
Tick ==
    /\ ticker.on /\ ~ticker.pending
    /\ ticker' = [ticker EXCEPT !.pending = TRUE]
    /\ UNCHANGED <<calledAt, excused, threadVars, bufferVars, diagVars>>

\* backgroundFlush receives a tick and calls flush(false).  Stop does not
\* close the channel: a waiting tick is still received after it.
backgroundFlush ==
    /\ pc[Ticker] = "idle"
    /\ ticker.pending
    /\ ticker' = [ticker EXCEPT !.pending = FALSE]
    /\ Goto(Ticker, "serialize")
    /\ UNCHANGED <<calledAt, excused, call, ctx, snapshot, bufferVars, diagVars>>

\* Client.Shutdown calls flush(true).
Shutdown(t) ==
    /\ pc[t] = "idle"
    /\ Goto(t, "serialize")
    /\ calledAt' = [calledAt EXCEPT ![t] = accepted]
    /\ UNCHANGED <<ticker, excused, call, ctx, snapshot, bufferVars, diagVars>>

\* logDiagnosticsEvents: initialize, then config_sync, then api_call; after
\* that the flush itself.
NextContext ==
    [initialize |-> "config_sync", config_sync |-> "api_call", api_call |-> "initialize"]

EndContext(t) ==
    /\ ctx' = [ctx EXCEPT ![t] = NextContext[@]]
    /\ Goto(t, IF ctx[t] = "api_call" THEN "flush" ELSE "serialize")

\* logDiagnosticsEvent up to its last early return.
Serialize(t, sampled) ==
    LET ms == serializeWithSampling(ctx[t], sampled) IN
    /\ pc[t] = "serialize"
    /\ IF ctx[t] \in Disabled \/ ms = {}
       THEN EndContext(t) /\ UNCHANGED <<snapshot, excused>>
       ELSE /\ snapshot' = [snapshot EXCEPT ![t] = ms]
            /\ excused' = excused \cup {m.id : m \in markers[ctx[t]] \ ms}
            /\ Goto(t, "clear")
            /\ UNCHANGED ctx
    /\ UNCHANGED <<ticker, calledAt, call, bufferVars, diagVars>>

\* d.clearMarkers()
Clear(t) ==
    /\ pc[t] = "clear"
    /\ clearMarkers(ctx[t])
    /\ Goto(t, "logDiag")
    /\ UNCHANGED <<ticker, calledAt, excused, call, ctx, snapshot, bufferVars>>

\* l.logInternal(event) with the serialized markers.
LogDiag(t) ==
    /\ pc[t] = "logDiag"
    /\ logInternal(t, snapshot[t], TRUE)
    /\ EndContext(t)
    /\ snapshot' = [snapshot EXCEPT ![t] = {}]
    /\ UNCHANGED <<ticker, calledAt, excused, mu, call, diagVars>>

\* Mutant: the tick flushes a full buffer only.
FlushTickWhenFull ==
    /\ pc[Ticker] = "flush"
    /\ mu = Free
    /\ IF Full(events) THEN flushAsync(events) ELSE UNCHANGED <<events, batches, cut>>
    /\ Goto(Ticker, "idle")
    /\ UNCHANGED <<ticker, calledAt, excused, mu, accepted, call, ctx, snapshot, diagVars>>

\* flushInternal(false)
FlushTick ==
    /\ pc[Ticker] = "flush"
    /\ mu = Free
    /\ flushAsync(events)
    /\ Goto(Ticker, "idle")
    /\ UNCHANGED <<ticker, calledAt, excused, mu, accepted, call, ctx, snapshot, diagVars>>

\* Mutant: the closing flush only stops the ticker.
FlushClosingStopsOnly(t) ==
    /\ pc[t] = "flush"
    /\ mu = Free
    /\ ticker' = [ticker EXCEPT !.on = FALSE]
    /\ Goto(t, "closed")
    /\ UNCHANGED <<mu, batches>>
    /\ UNCHANGED <<calledAt, excused, events, accepted, cut, call, ctx, snapshot, diagVars>>

\* flushInternal(true): stop the ticker; an empty buffer is an early return,
\* otherwise sendEvents runs here, under the lock.
FlushClosing(t) ==
    /\ pc[t] = "flush"
    /\ mu = Free
    /\ ticker' = [ticker EXCEPT !.on = FALSE]
    /\ IF events = <<>>
       THEN Goto(t, "closed") /\ UNCHANGED <<mu, batches>>
       ELSE /\ mu' = t
            /\ batches' = Append(batches, NewBatch(events, t))
            /\ Goto(t, "sending")
    /\ UNCHANGED <<calledAt, excused, events, accepted, cut, call, ctx, snapshot, diagVars>>

\* Mutant: l.events keeps what was sent.
SentKeepingBuffer(t) ==
    /\ pc[t] = "sending"
    /\ batches[Len(batches)].req.state = "done"
    /\ mu' = Free
    /\ Goto(t, "closed")
    /\ UNCHANGED <<ticker, calledAt, excused, events, cut, batches, accepted, call, ctx, snapshot,
                   diagVars>>

\* Mutant: the deferred Unlock is missing.
SentKeepingLock(t) ==
    /\ pc[t] = "sending"
    /\ batches[Len(batches)].req.state = "done"
    /\ events' = <<>>
    /\ cut' = cut + Len(events)
    /\ Goto(t, "closed")
    /\ UNCHANGED <<ticker, calledAt, excused, mu, batches, accepted, call, ctx, snapshot, diagVars>>

\* sendEvents has returned: l.events is emptied and l.mu released.
Sent(t) ==
    /\ pc[t] = "sending"
    /\ batches[Len(batches)].req.state = "done"
    /\ events' = <<>>
    /\ cut' = cut + Len(events)
    /\ mu' = Free
    /\ Goto(t, "closed")
    /\ UNCHANGED <<ticker, calledAt, excused, batches, accepted, call, ctx, snapshot, diagVars>>

-----------------------------------------------------------------------------
(***************************************************************************)
(* sendEvents for batch i: retryablePostRequest("/log_event", ...).        *)
(***************************************************************************)
StartSend(i) ==
    /\ batches[i].req.state = "new"
    /\ batches' = [batches EXCEPT ![i].req =
           postRequestInternal(@, LocalMode,
               \A k \in DOMAIN batches[i].evs : batches[i].evs[k].marshals)]
    /\ UNCHANGED <<ticker, calledAt, excused, threadVars, diagVars>>
    /\ UNCHANGED <<events, mu, accepted, cut>>

TrySend(i, a) ==
    /\ batches[i].req.state = "trying"
    /\ batches' = [batches EXCEPT ![i].req = Attempt(@, a)]
    /\ UNCHANGED <<ticker, calledAt, excused, threadVars, diagVars>>
    /\ UNCHANGED <<events, mu, accepted, cut>>

-----------------------------------------------------------------------------
(***************************************************************************)
(* The store's goroutines, seen from here: they mark and update rates.     *)
(***************************************************************************)
StoreMark(c, k) ==
    /\ c \in {"initialize", "config_sync"}
    /\ marked < MaxMarks
    /\ MarkIn(c, k)
    /\ UNCHANGED <<ticker, calledAt, threadVars, bufferVars>>

StoreRates(c, rates) ==
    /\ updateSamplingRates(c, rates)
    /\ UNCHANGED <<ticker, calledAt, excused, threadVars, bufferVars>>

CallStep(t) == (\E ok \in BOOLEAN : Log(t, ok)) \/ SkipLog(t) \/ EndMark(t)

CallerStep(t) == LogEvent(t) \/ (\E k \in Keys : Check(t, k)) \/ CallStep(t)

FlusherStep(t) ==
    \/ \E S \in SampledKeys(ctx[t]) : Serialize(t, S)
    \/ Clear(t)
    \/ LogDiag(t)

TickerStep == backgroundFlush \/ FlusherStep(Ticker) \/ FlushTick

ClosingStep(t) == FlusherStep(t) \/ FlushClosing(t) \/ Sent(t)

SendStep(i) == StartSend(i) \/ \E a \in Answers : TrySend(i, a)

StoreStep ==
    \E c \in Contexts :
        \/ \E k \in Keys : StoreMark(c, k)
        \/ \E rates \in [Keys -> Rates \cup {NoRate}] : StoreRates(c, rates)

Next ==
    \/ \E t \in Callers : CallerStep(t)
    \/ \E t \in Closers : Shutdown(t) \/ ClosingStep(t)
    \/ \E i \in DOMAIN batches : SendStep(i)
    \/ Tick
    \/ TickerStep
    \/ StoreStep

Spec == Init /\ [][Next]_vars

(***************************************************************************)
(* Fairness.  The runtime schedules every runnable goroutine, fires the    *)
(* ticker while it runs, and every request ends within the client's three  *)
(* second timeout.  Nothing obliges the application to start a call.  A    *)
(* request ends after finitely many steps, so fairness of the senders as a *)
(* group is enough.                                                        *)
(***************************************************************************)
Fairness ==
    /\ WF_vars(Tick)
    /\ WF_vars(TickerStep)
    /\ \A t \in Closers : WF_vars(ClosingStep(t))
    /\ \A t \in Callers : WF_vars(CallStep(t))
    /\ WF_vars(\E i \in DOMAIN batches : SendStep(i))

FairSpec == Spec /\ Fairness

-----------------------------------------------------------------------------
(***************************************************************************)
(* Properties.                                                             *)
(***************************************************************************)
Ids(evs)    == {evs[k].id : k \in DOMAIN evs}
BufferIds   == Ids(events)
BatchIds(i) == Ids(batches[i].evs)

\* The variables of the logger and of the diagnostics have their types.
TypeOK == LoggerTypeOK /\ DiagTypeOK

(***************************************************************************)
(* Between logInternal, the ticker's flush and Shutdown's flush no event   *)
(* is lost and none is sent in two batches: every accepted event is in the *)
(* buffer or in a batch, never in two batches, and never in both once l.mu *)
(* is free (the closing flush empties l.events only after sending).        *)
(***************************************************************************)
NoEventLostOrDoubled ==
    /\ 1..accepted = BufferIds \cup UNION {BatchIds(i) : i \in DOMAIN batches}
    /\ \A i, j \in DOMAIN batches : i # j => BatchIds(i) \cap BatchIds(j) = {}
    /\ mu = Free => \A i \in DOMAIN batches : BatchIds(i) \cap BufferIds = {}

(***************************************************************************)
(* Whoever appends last, user call or diagnostics event of a flush, the    *)
(* buffer is below maxEvents whenever l.mu is free, and no batch is empty  *)
(* or larger than maxEvents.                                               *)
(***************************************************************************)
BufferBounded ==
    /\ mu = Free => Len(events) < MaxEvents
    /\ \A i \in DOMAIN batches : Len(batches[i].evs) \in 1..MaxEvents

(***************************************************************************)
(* retry(): whatever the server answers, a batch is put on the wire at     *)
(* most maxRetries + 1 times, so that the server never sees an event more  *)
(* often than that although a batch it has taken may be sent again.        *)
(***************************************************************************)
RetriesBounded ==
    \A i \in DOMAIN batches : batches[i].req.tries <= MaxRetries + 1

\* Whatever callers, ticker, Shutdown and server do, the buffer, the batches
\* and the sends of a batch are bounded.
Bounded == BufferBounded /\ RetriesBounded

(***************************************************************************)
(* Shutdown: when it returns, every event accepted before the call has     *)
(* left the buffer, whatever callers, ticker and other closers did         *)
(* meanwhile.                                                              *)
(***************************************************************************)
ShutdownDrains ==
    \A t \in Closers : pc[t] = "closed" => cut >= calledAt[t]

(***************************************************************************)
(* "Cleans up Statsig, persisting any Event Logs" (client.go:218): when    *)
(* Shutdown returns, the request for every event accepted before the call  *)
(* is over.  Does not hold: batches of `go l.sendEvents` are not awaited,  *)
(* and a diagnostics event that fills the buffer during the closing flush  *)
(* sends the whole buffer that way.                                        *)
(***************************************************************************)
ShutdownPersists ==
    \A t \in Closers : pc[t] = "closed" =>
        \A i \in DOMAIN batches :
            batches[i].base < calledAt[t] => batches[i].req.state = "done"

EventsOf(t) ==
    {e \in UNION ({{events[k] : k \in DOMAIN events}}
                 \cup {{batches[i].evs[k] : k \in DOMAIN batches[i].evs} : i \in DOMAIN batches}) :
        e.by = t}

(***************************************************************************)
(* A flusher reports no marker twice: it clears a context's list after     *)
(* serializing it and before it serializes that context again.             *)
(***************************************************************************)
MarkerOncePerFlusher ==
    \A t \in Flushers : \A e, f \in EventsOf(t) :
        e.id # f.id => e.markers \cap f.markers = {}

(***************************************************************************)
(* The only markers that get lost are those that sampling withholds and    *)
(* those made while a flusher is between serializeWithSampling and         *)
(* clearMarkers of their context: every other marker is in its list, in a  *)
(* flusher's hands, or in an event.                                        *)
(***************************************************************************)
MarkersLostOnlyInRace ==
    \A n \in (1..marked) \ excused :
        \E m \in UNION ({markers[c] : c \in Contexts}
                      \cup {snapshot[t] : t \in Flushers}
                      \cup {e.markers : e \in UNION {EventsOf(t) : t \in Flushers}}) :
            m.id = n

\* Markers are reported once by a flusher, and lost in that race only.
MarkersAccounted == MarkerOncePerFlusher /\ MarkersLostOnlyInRace

(***************************************************************************)
(* The logger as an EventQueue.  A closing flush hands its batch over when *)
(* it takes l.mu, although l.events is emptied only after sending.         *)
(***************************************************************************)
Numbers(evs) == [k \in DOMAIN evs |-> evs[k].id]

Queue == INSTANCE EventQueue WITH
    Capacity <- MaxEvents,
    accepted <- accepted,
    waiting  <- IF mu = Free THEN Numbers(events) ELSE <<>>,
    handed   <- [i \in DOMAIN batches |->
                   [evs  |-> Numbers(batches[i].evs), over |-> batches[i].req.state = "done"]]

(***************************************************************************)
(* Callers, ticker, closers and senders together implement EventQueue: at  *)
(* every interleaving events leave the buffer in the order logInternal     *)
(* appended them, all of them at a time, in batches that are made once,    *)
(* never change, and are sent by one sender each.                          *)
(***************************************************************************)
ImplementsQueue == Queue!Spec

(***************************************************************************)
(* Every accepted event is over in the end, delivered or given up, also if *)
(* the buffer never fills, the server never answers or json.Marshal        *)
(* refuses its batch; only after Shutdown has stopped the ticker may it    *)
(* stay in the buffer.                                                     *)
(***************************************************************************)
EventsEnd ==
    \A n \in 1..(MaxLogged + 1) :
        (accepted >= n) ~>
            \/ \E i \in DOMAIN batches : n \in BatchIds(i) /\ batches[i].req.state = "done"
            \/ ~ticker.on /\ n \in BufferIds

(***************************************************************************)
(* Every call returns, Shutdown included: one that waits for l.mu gets it  *)
(* although a closing flush holds it while it sends and retries.           *)
(***************************************************************************)
CallsReturn ==
    /\ \A t \in Callers : pc[t] # "idle" ~> pc[t] = "idle"
    /\ \A t \in Closers : pc[t] # "idle" ~> pc[t] = "closed"
=============================================================================
