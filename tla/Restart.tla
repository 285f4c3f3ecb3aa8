------------------------------ MODULE Restart ------------------------------
(***************************************************************************)
(* The config store over several lives of the process.  A process may end  *)
(* between any two steps: it is killed, or a panic ends it that nothing    *)
(* recovers, as one of rulesUpdatedCallback or of the adapter's            *)
(* ShouldBeUsedForQueryingUpdates in the poller's goroutine.  The next one *)
(* starts with an empty store and what the adapter holds by then.          *)
(***************************************************************************)
EXTENDS ConfigStore

CONSTANT MaxCrashes     \* bound: ends of the process

ASSUME RestartAssumption == MaxCrashes \in Nat

VARIABLES
    crashes,        \* bound: ends of the process so far
    atStart,        \* history: what the adapter held when this life began
    missed          \* history: in this life the first Get has panicked

restartVars == <<vars, crashes, atStart, missed>>

\* The adapter is new: only processes of this program have written to it.
RestartInit ==
    /\ Init
    /\ stored = Junk
    /\ crashes = 0 /\ atStart = Junk /\ missed = FALSE

\* The process ends and is started again: everything but the adapter's
\* content, the options and the world outside is as in Init.
Crash ==
    /\ crashes < MaxCrashes
    /\ crashes' = crashes + 1
    /\ atStart' = stored /\ missed' = FALSE
    /\ specs' = NoSpecs
    /\ lastSyncTime' = 0
    /\ initReason' = "Uninitialized"
    /\ initialSyncTime' = 0
    /\ syncFailureCount' = 0
    /\ shutdown' = FALSE
    /\ rates' = FALSE
    /\ pc' = "boot" /\ stage' = "first" /\ locals' = NoLocals
    /\ reader' = [r \in Readers |-> IdleReader]
    /\ closer' = "idle"
    /\ swapped' = <<>> /\ called' = <<>> /\ saves' = <<>> /\ unsaved' = FALSE
    /\ lateSwaps' = 0
    /\ silent' = 0
    /\ UNCHANGED <<fixedVars, stored, netVars>>

\* The histories follow the steps of a life.
Track ==
    /\ missed' = (missed \/ (stage = "first" /\ pc = "adapterGet" /\ pc' # "process"))
    /\ UNCHANGED <<crashes, atStart>>

RestartNext == Crash \/ (Next /\ Track)

RestartSpec == RestartInit /\ [][RestartNext]_restartVars

(***************************************************************************)
(* Fairness, in every life: the runtime schedules the worker, whose sleeps *)
(* and requests end, and the closer once it runs.  Nobody has to evaluate  *)
(* a gate, shut the client down or publish specs.                          *)
(***************************************************************************)
RestartFairSpec ==
    /\ RestartSpec
    /\ WF_restartVars(WorkerStep /\ Track)
    /\ WF_restartVars(stopPolling /\ Track)

-----------------------------------------------------------------------------
(***************************************************************************)
(* Properties.                                                             *)
(***************************************************************************)
(***************************************************************************)
(* With a server that sends newer specs only, what the processes save      *)
(* never gets older, wherever they are cut off, also after a life whose    *)
(* Get panicked and that began at the network.                             *)
(***************************************************************************)
SavedNeverOlder == [][server = "newer" => stored'.time >= stored.time]_restartVars

(***************************************************************************)
(* A process that could read the adapter serves, once its constructor has  *)
(* returned, nothing older than what the last life saved, with the network *)
(* up or not, and from then on too unless the server sends what is older;  *)
(* the adapter has "priority over bootstrapValues if both provided"        *)
(* (data_adapter_interface.go:7).                                          *)
(***************************************************************************)
RestartServesSaved ==
    adapter = "backup" /\ server = "newer" /\ stage = "poll" /\ ~missed => specs.time >= atStart.time

(***************************************************************************)
(* If the network stays up from some time on, the adapter ends up with the *)
(* server's specs unless the last Set has panicked, which is not tried     *)
(* again before the next update: a payload that a crash, or a panic of Set *)
(* in an earlier life, kept from being saved is fetched and saved again.   *)
(***************************************************************************)
BackupCatchesUp ==
    (adapter = "backup" /\ server = "newer" /\ <>[]netUp) =>
        <>[](closer # "idle" \/ unsaved \/ stored.time = serverTime)
=============================================================================
