------------------------------ MODULE Statsig ------------------------------
(***************************************************************************)
(* statsig.go and global_state.go: the package-level functions on one      *)
(* global client, called from any goroutine.                               *)
(*                                                                         *)
(* `instance` is a pointer that is read and written without a lock.  A     *)
(* function that reads it twice, for IsInitialized and then to use it, may *)
(* be compiled to one read: it then uses what it has checked.  A client is *)
(* here whether it has been built and what its Shutdown has done; modules  *)
(* Logger, ConfigStore and IDLists have the rest of it.                    *)
(***************************************************************************)
EXTENDS Integers, Sequences

CONSTANTS
    None,
    Inputs,         \* arguments of Initialize: [timeout, valid], see Calls
    AdapterPanics,  \* the data adapter's Shutdown may panic
    MaxCalls        \* bound: calls of package-level functions

ASSUME StatsigAssumption ==
    /\ Inputs \subseteq [timeout : BOOLEAN, valid : BOOLEAN]
    /\ AdapterPanics \in BOOLEAN
    /\ MaxCalls \in Nat
    /\ None \notin Nat

VARIABLES
    instance,       \* a client or None
    clients,        \* sequence of all clients
    calls,          \* sequence of all calls, over or not
    outputLogger,   \* the call whose options the global output logger has
    process         \* "up", or "down" after a panic nobody can recover

vars == <<instance, clients, calls, outputLogger, process>>

Ops == {"Initialize", "Use", "Shutdown", "ShutdownAndDangerouslyClearInstance"}

\* "sent" is a client in its channel, or received from there.  A Shutdown
\* "panicked" when the adapter's did, before stopPolling: the ticker has been
\* stopped by then, the pollers run on.
Clients ==
    [state : {"constructing", "built", "sent", "failed"}, owner : Nat, spawned : BOOLEAN,
     shutdown : {"no", "panicked", "done"}]

Calls ==
    [op : Ops,
     timeout : BOOLEAN,         \* options.InitTimeout > 0
     valid : BOOLEAN,           \* the SDK key is
     at : {"begin", "check", "construct", "select", "use", "stop", "clear", "returned"},
     client : Nat \cup {None},
     ended : {"running", "ok", "already", "timedOut", "panic"},
     overlapped : BOOLEAN,      \* history: another call changed instance meanwhile
     ready : BOOLEAN]           \* history: an Initialize had returned an instance

\* instance is a client whose constructor has returned.
TypeOK ==
    /\ instance \in {c \in DOMAIN clients : clients[c].state \in {"built", "sent"}} \cup {None}
    /\ clients \in Seq(Clients)
    /\ calls \in Seq(Calls)
    /\ outputLogger \in DOMAIN calls \cup {None}
    /\ process \in {"up", "down"}

Init ==
    /\ instance = None
    /\ clients = <<>>
    /\ calls = <<>>
    /\ outputLogger = None
    /\ process = "up"

-----------------------------------------------------------------------------
IsInitialized == instance # None

Writes(op) == op \in {"Initialize", "ShutdownAndDangerouslyClearInstance"}

Active(i) == calls[i].at # "returned"

Return(i, ended) == calls' = [calls EXCEPT ![i].at = "returned", ![i].ended = ended]

\* The application calls a function; only Initialize looks at its input.
Call(op, input) ==
    LET overlaps == {i \in DOMAIN calls : Active(i) /\ Writes(calls[i].op) /\ Writes(op)}
        before == [i \in DOMAIN calls |->
                      [calls[i] EXCEPT !.overlapped = @ \/ i \in overlaps]]
    IN  /\ process = "up"
        /\ Len(calls) < MaxCalls
        /\ calls' = Append(before,
               [op |-> op, timeout |-> input.timeout, valid |-> input.valid,
                at |-> IF op = "Initialize" THEN "begin" ELSE "check",
                client |-> None, ended |-> "running",
                overlapped |-> overlaps # {},
                ready |-> \E i \in DOMAIN calls : calls[i].op = "Initialize"
                                                  /\ calls[i].ended \in {"ok", "already"}])
        /\ UNCHANGED <<instance, clients, outputLogger, process>>

\* InitializeGlobalOutputLogger, before anything is checked.
Begin(i) ==
    /\ calls[i].at = "begin"
    /\ outputLogger' = i
    /\ calls' = [calls EXCEPT ![i].at = "check"]
    /\ UNCHANGED <<instance, clients, process>>

\* Mutant: a client that is there already is not looked for.
CheckInitializeBlind(i) ==
    LET c == calls[i] IN
    /\ c.op = "Initialize" /\ c.at = "check"
    /\ clients' = Append(clients, [state |-> "constructing", owner |-> i,
                                   spawned |-> c.timeout, shutdown |-> "no"])
    /\ calls' = [calls EXCEPT ![i].client = Len(clients) + 1,
                              ![i].at = IF c.timeout THEN "select" ELSE "construct"]
    /\ UNCHANGED <<instance, outputLogger, process>>

\* Initialize, InitializeWithOptions: start the constructor, in a goroutine
\* of its own if there is a timeout.
CheckInitialize(i) ==
    LET c == calls[i] IN
    /\ c.op = "Initialize" /\ c.at = "check"
    /\ IF IsInitialized
       THEN Return(i, "already") /\ UNCHANGED clients
       ELSE /\ clients' = Append(clients, [state |-> "constructing", owner |-> i,
                                           spawned |-> c.timeout, shutdown |-> "no"])
            /\ calls' = [calls EXCEPT ![i].client = Len(clients) + 1,
                                      ![i].at = IF c.timeout THEN "select" ELSE "construct"]
    /\ UNCHANGED <<instance, outputLogger, process>>

\* NewClientWithOptions ends, or panics on an invalid key: into the caller,
\* or in a goroutine where nothing can recover it.
Construct(c) ==
    LET owner == clients[c].owner IN
    /\ clients[c].state = "constructing"
    /\ clients' = [clients EXCEPT ![c].state = IF calls[owner].valid THEN "built" ELSE "failed"]
    /\ IF calls[owner].valid THEN UNCHANGED <<calls, process>>
       ELSE IF clients[c].spawned THEN process' = "down" /\ UNCHANGED calls
       ELSE Return(owner, "panic") /\ UNCHANGED process
    /\ UNCHANGED <<instance, outputLogger>>

\* Mutant: the channel has no buffer, so the send waits for its receiver.
DeliverUnbuffered(c) ==
    /\ clients[c].state = "built" /\ clients[c].spawned
    /\ calls[clients[c].owner].at = "select"
    /\ clients' = [clients EXCEPT ![c].state = "sent"]
    /\ UNCHANGED <<instance, calls, outputLogger, process>>

\* channel <- client; the channel has room for it.
Deliver(c) ==
    /\ clients[c].state = "built" /\ clients[c].spawned
    /\ clients' = [clients EXCEPT ![c].state = "sent"]
    /\ UNCHANGED <<instance, calls, outputLogger, process>>

\* Mutant: the client is published before it is built.
AssignEarly(i) ==
    /\ calls[i].at = "construct"
    /\ clients[calls[i].client].state # "failed"
    /\ instance' = calls[i].client
    /\ Return(i, "ok")
    /\ UNCHANGED <<clients, outputLogger, process>>

\* instance = NewClientWithOptions(...)
Assign(i) ==
    /\ calls[i].at = "construct"
    /\ clients[calls[i].client].state = "built"
    /\ instance' = calls[i].client
    /\ Return(i, "ok")
    /\ UNCHANGED <<clients, outputLogger, process>>

\* case res := <-channel
Receive(i) ==
    /\ calls[i].at = "select"
    /\ clients[calls[i].client].state = "sent"
    /\ instance' = calls[i].client
    /\ Return(i, "ok")
    /\ UNCHANGED <<clients, outputLogger, process>>

\* Mutant: an Initialize that timed out leaves no instance.
TimeOutClears(i) ==
    /\ calls[i].at = "select"
    /\ instance' = None
    /\ Return(i, "timedOut")
    /\ UNCHANGED <<clients, outputLogger, process>>

\* case <-time.After(options.InitTimeout)
TimeOut(i) ==
    /\ calls[i].at = "select"
    /\ Return(i, "timedOut")
    /\ UNCHANGED <<instance, clients, outputLogger, process>>

\* The other functions ask IsInitialized: all panic without an instance, but
\* Shutdown does nothing.
Check(i) ==
    LET c == calls[i] IN
    /\ c.op # "Initialize" /\ c.at = "check"
    /\ calls' = [calls EXCEPT ![i] =
           IF IsInitialized THEN [c EXCEPT !.client = instance,
                                           !.at = IF c.op = "Use" THEN "use" ELSE "stop"]
           ELSE CASE c.op = "Use" -> [c EXCEPT !.at = "returned", !.ended = "panic"]
                  [] c.op = "Shutdown" -> [c EXCEPT !.at = "returned", !.ended = "ok"]
                  [] OTHER -> [c EXCEPT !.at = "clear"]]
    /\ UNCHANGED <<instance, clients, outputLogger, process>>

\* The client that a function uses after its check: read once or twice.
UsedClients(i) == {calls[i].client, instance}

\* A method of the client; nil may have come in between.
Use(i, c) ==
    /\ calls[i].at = "use" /\ c \in UsedClients(i)
    /\ Return(i, IF c = None THEN "panic" ELSE "ok")
    /\ UNCHANGED <<instance, clients, outputLogger, process>>

\* What is left of a client whose Shutdown ends; one that had ended stays so.
AfterShutdown(was, panics) == IF panics /\ was # "done" THEN "panicked" ELSE "done"

\* instance.Shutdown(); with nil, its errorBoundary cannot be read.  A panic
\* of the adapter ends it early but is recovered (captureVoid).
Stop(i, c, panics) ==
    /\ calls[i].at = "stop" /\ c \in UsedClients(i)
    /\ panics => AdapterPanics
    /\ IF c = None THEN Return(i, "panic") /\ UNCHANGED clients
       ELSE /\ clients' = [clients EXCEPT ![c].shutdown = AfterShutdown(@, panics)]
            /\ IF calls[i].op = "Shutdown" THEN Return(i, "ok")
               ELSE calls' = [calls EXCEPT ![i].at = "clear"]
    /\ UNCHANGED <<instance, outputLogger, process>>

\* instance = nil
Clear(i) ==
    /\ calls[i].at = "clear"
    /\ instance' = None
    /\ Return(i, "ok")
    /\ UNCHANGED <<clients, outputLogger, process>>

Step(i) ==
    /\ process = "up"
    /\ \/ Begin(i) \/ CheckInitialize(i) \/ Assign(i) \/ Receive(i) \/ TimeOut(i)
       \/ Check(i) \/ Clear(i)
       \/ \E c \in UsedClients(i) : Use(i, c) \/ \E panics \in BOOLEAN : Stop(i, c, panics)

Build(c) == process = "up" /\ (Construct(c) \/ Deliver(c))

Next ==
    \/ \E input \in Inputs : Call("Initialize", input)
    \/ \E op \in Ops \ {"Initialize"} : Call(op, [timeout |-> FALSE, valid |-> TRUE])
    \/ \E i \in DOMAIN calls : Step(i)
    \/ \E c \in DOMAIN clients : Build(c)

Spec == Init /\ [][Next]_vars

\* Callers are scheduled, timers fire.  A constructor ends if it is run by
\* its caller; one in a goroutine of its own may hang (in an adapter, say)
\* but is scheduled once it has its client.
FairSpec ==
    /\ Spec
    /\ \A i \in 1..MaxCalls : WF_vars(i \in DOMAIN calls /\ Step(i))
    /\ \A c \in 1..MaxCalls :
        /\ WF_vars(c \in DOMAIN clients /\ ~clients[c].spawned /\ Build(c))
        /\ WF_vars(c \in DOMAIN clients /\ process = "up" /\ Deliver(c))

-----------------------------------------------------------------------------
(***************************************************************************)
(* Properties.                                                             *)
(***************************************************************************)
\* The pollers of a client run.
Running(c) == clients[c].state \in {"built", "sent"} /\ clients[c].shutdown # "done"

Cleared == \E i \in DOMAIN calls : calls[i].op = "ShutdownAndDangerouslyClearInstance"

(***************************************************************************)
(* Once an Initialize has returned with an instance, no package-level      *)
(* function panics for want of one, whatever further Initialize calls do   *)
(* at the same time or later: time out, or replace it.                     *)
(***************************************************************************)
InitializedStays ==
    ~Cleared => \A i \in DOMAIN calls :
        calls[i].op # "Initialize" /\ calls[i].ready => calls[i].ended # "panic"

(***************************************************************************)
(* A client whose pollers run and that nobody can reach to shut it down    *)
(* has one of three causes: a timeout; calls of Initialize and             *)
(* ShutdownAndDangerouslyClearInstance at the same time; or a data adapter *)
(* that panicked in its Shutdown, which the error boundary recovers after  *)
(* stopPolling has been skipped.  Used one after the other, without a      *)
(* timeout and with an adapter that does not panic, they leave none.       *)
(***************************************************************************)
OrphansExplained ==
    \A c \in DOMAIN clients :
        LET owner == calls[clients[c].owner] IN
        Running(c) /\ c # instance /\ owner.at = "returned" =>
            owner.ended = "timedOut" \/ owner.overlapped \/ clients[c].shutdown = "panicked"

(***************************************************************************)
(* Unless the process goes down, every call returns, also if the           *)
(* constructor it waits for hangs and an InitTimeout is set; and the       *)
(* goroutine of a constructor ends once it has a client, although the call *)
(* that started it may have timed out: it never blocks on its channel.     *)
(***************************************************************************)
NothingBlocks ==
    /\ \A i \in 1..MaxCalls :
        (i \in DOMAIN calls) ~> (process = "down" \/ (i \in DOMAIN calls /\ ~Active(i)))
    /\ \A c \in 1..MaxCalls :
        (c \in DOMAIN clients /\ clients[c].state = "built" /\ clients[c].spawned)
            ~> (process = "down" \/ (c \in DOMAIN clients /\ clients[c].state = "sent"))
=============================================================================
