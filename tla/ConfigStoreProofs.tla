------------------------- MODULE ConfigStoreProofs -------------------------
(***************************************************************************)
(* Proofs about the config store: its types, the reasons and times that    *)
(* evaluations report, the order of syncs, rules-updated callbacks,        *)
(* outages and Shutdown, within one life of the process; and at the end,   *)
(* over several lives, what the data adapter holds.                        *)
(***************************************************************************)
EXTENDS Restart, TLAPS

USE DEF Process, Junk, NoUpdates, Update, NoSpecs

(***************************************************************************)
(* TypeOK needs one more fact: while the worker is past the swap, the      *)
(* payload in its hands is one with updates, hence one with a real time.   *)
(***************************************************************************)
PayloadInHand == pc \in {"reason", "callback", "save"} => locals.payload.updates

TypeInv == TypeOK /\ PayloadInHand

\* A payload with updates is not Junk and has a time the store can hold.
LEMMA UpdateTime ==
    ASSUME NEW p \in Payloads, p.updates PROVE p.time \in 0..MaxTime
  BY DEF Payloads

\* The fields of a payload, Junk included.
LEMMA PayloadFields ==
    ASSUME NEW p \in Payloads PROVE p.updates \in BOOLEAN /\ p.time \in Int
  <1>1. CASE p \in {NoUpdates, Junk}
    <2>1. p.updates = FALSE /\ (p.time = 0 \/ p.time = -1)
      BY <1>1
    <2>2. p.updates \in BOOLEAN
      BY <2>1, Zenon
    <2>3. p.time \in Int
      BY <2>1, SMT
    <2>4. QED
      BY <2>2, <2>3
  <1>2. CASE p \in {Update(t) : t \in 0..MaxTime}
    <2>1. PICK t \in 0..MaxTime : p = Update(t)
      BY <1>2
    <2>2. QED
      BY <2>1
  <1>3. QED
    BY <1>1, <1>2 DEF Payloads

\* A reader that a sync overlaps keeps its type.
LEMMA OverlapType ==
    ASSUME reader \in [Readers -> Reader], Overlap
    PROVE  reader' \in [Readers -> Reader]
  BY DEF Overlap, Reader

\* Where an attempt ends the worker holds no payload.
LEMMA ReturnType ==
    ASSUME TypeOK, Return
    PROVE  /\ pc' \in {"request", "initialSync", "sleep"}
           /\ stage' \in {"first", "cold", "poll"}
           /\ locals' \in [sinceTime : 0..MaxTime, payload : Payloads, source : Sources]
  <1>1. locals' \in [sinceTime : 0..MaxTime, payload : Payloads, source : Sources]
    BY ConfigStoreAssumption DEF Return, NoLocals, Payloads, Sources
  <1>2. QED
    BY <1>1 DEF TypeOK, Return

\* Counting a failure keeps the types.
LEMMA SyncErrorType ==
    ASSUME TypeOK, handleSyncError
    PROVE  syncFailureCount' \in Nat /\ silent' \in Nat
  BY DEF TypeOK, handleSyncError

\* What the server answers is a payload.
LEMMA ServerPayloadType ==
    ASSUME TypeOK, NEW t \in 0..MaxTime, NEW p \in ServerPayloads(t) PROVE p \in Payloads
  BY ConfigStoreAssumption DEF TypeOK, ServerPayloads, Payloads

\* An evaluation that has not begun has its type.
LEMMA IdleReaderType == IdleReader \in Reader
  BY ConfigStoreAssumption DEF IdleReader, Reader, Specs, Reasons, Sources

LEMMA TypeInit == Init => TypeInv
  <1> SUFFICES ASSUME Init PROVE TypeInv
    OBVIOUS
  <1>1. specs \in Specs
    BY ConfigStoreAssumption DEF Init, Specs
  <1>2. locals \in [sinceTime : 0..MaxTime, payload : Payloads, source : Sources]
    BY ConfigStoreAssumption DEF Init, NoLocals, Payloads, Sources
  <1>3. reader \in [Readers -> Reader]
    BY IdleReaderType DEF Init
  <1>4. stored \in Payloads
    BY DEF Init, Payloads
  <1>5. swapped \in Seq(0..MaxTime) /\ called \in Seq(0..MaxTime) /\ saves \in Seq(0..MaxTime)
    BY DEF Init
  <1>6. serverTime \in 0..MaxTime /\ lastSyncTime \in 0..MaxTime /\ initialSyncTime \in 0..MaxTime
    BY ConfigStoreAssumption DEF Init
  <1>7. QED
    BY <1>1, <1>2, <1>3, <1>4, <1>5, <1>6
    DEF Init, TypeInv, TypeOK, PayloadInHand, PCs, Sources

\* Every step keeps the types.
LEMMA TypeStep == TypeInv /\ [Next]_vars => TypeInv'
  <1> USE ConfigStoreAssumption
  <1> SUFFICES ASSUME TypeInv, [Next]_vars PROVE TypeInv'
    OBVIOUS
  <1> USE DEF TypeInv, TypeOK, PayloadInHand, PCs, Sources, fixedVars, netVars, storeVars,
              workerVars, syncHistory, failVars
  <1>1. CASE Boot
    <2>1. bootstrapValues \in Payloads
      BY BootstrapsAssumption
    <2>2. QED
      BY <1>1, <2>1, ZenonT(30) DEF Boot
  <1>2. ASSUME NEW p \in BOOLEAN, fetchConfigSpecsFromAdapter(p) PROVE TypeInv'
    BY <1>2, ReturnType, ZenonT(30) DEF fetchConfigSpecsFromAdapter
  <1>3. CASE SendRequest
    BY <1>3 DEF SendRequest, SinceTime
  <1>4. ASSUME NEW a \in Answers, NEW p \in ServerPayloads(locals.sinceTime), Respond(a, p)
        PROVE  TypeInv'
    <2>1. locals.sinceTime \in 0..MaxTime
      OBVIOUS
    <2>2. p \in Payloads
      BY <2>1, ServerPayloadType
    <2>3. CASE Failed(Request(a))
      <3>1. syncFailureCount' \in Nat /\ silent' \in Nat
        BY <1>4, <2>3, SyncErrorType DEF Respond
      <3>2. /\ locals' \in [sinceTime : 0..MaxTime, payload : Payloads, source : Sources]
            /\ pc' \in PCs /\ stage' \in {"first", "cold", "poll"}
            /\ pc' \notin {"reason", "callback", "save"}
        BY <1>4, <2>3, ReturnType DEF Respond
      <3>3. QED
        BY <1>4, <3>1, <3>2 DEF Respond
    <2>4. CASE ~Failed(Request(a))
      <3>1. locals' \in [sinceTime : 0..MaxTime, payload : Payloads, source : Sources]
        BY <1>4, <2>2, <2>4 DEF Respond
      <3>2. /\ pc' = "process" /\ silent' = 0
            /\ UNCHANGED <<stage, syncFailureCount>>
            /\ UNCHANGED <<fixedVars, stored, netVars, storeVars, shutdown, reader, closer, syncHistory>>
        BY <1>4, <2>4 DEF Respond
      <3>3. QED
        BY <3>1, <3>2
    <2>5. QED
      BY <2>3, <2>4
  <1>5. CASE setConfigSpecs
    <2>1. CASE locals.payload.updates
      <3>1. locals.payload.time \in 0..MaxTime
        BY <2>1, UpdateTime
      <3>2. reader' \in [Readers -> Reader]
        BY <1>5, <2>1, OverlapType DEF setConfigSpecs, HasUpdates
      <3>3. specs' \in Specs /\ lastSyncTime' \in 0..MaxTime
        BY <1>5, <2>1, <3>1 DEF setConfigSpecs, HasUpdates, Specs
      <3>4. swapped' \in Seq(0..MaxTime) /\ lateSwaps' \in Nat
        <4>1. Append(swapped, locals.payload.time) \in Seq(0..MaxTime)
          BY <3>1
        <4>2. swapped' = swapped \/ swapped' = Append(swapped, locals.payload.time)
          BY <1>5, <2>1 DEF setConfigSpecs, HasUpdates
        <4>3. lateSwaps' = lateSwaps \/ lateSwaps' = lateSwaps + 1
          BY <1>5, <2>1 DEF setConfigSpecs, HasUpdates
        <4>4. swapped' \in Seq(0..MaxTime)
          BY <4>1, <4>2
        <4>5. QED
          BY <4>3, <4>4
      <3>5. rates' \in BOOLEAN
        BY <1>5, <2>1 DEF setConfigSpecs, HasUpdates, Payloads
      <3>6. QED
        BY <1>5, <2>1, <3>2, <3>3, <3>4, <3>5 DEF setConfigSpecs, HasUpdates
    <2>2. CASE ~locals.payload.updates
      <3>1. rates' \in BOOLEAN
        BY <1>5, PayloadFields DEF setConfigSpecs, HasUpdates
      <3>2. QED
        BY <1>5, <2>2, <3>1, ReturnType DEF setConfigSpecs, HasUpdates
    <2>3. QED
      BY <2>1, <2>2
  <1>6. CASE SetReason
    <2>1. reader' \in [Readers -> Reader]
      BY <1>6, OverlapType DEF SetReason, ReasonOf, AfterReason
    <2>2. QED
      BY <1>6, <2>1, ReturnType DEF SetReason, ReasonOf, AfterReason
  <1>7. CASE RulesUpdated
    <2>1. locals.payload.time \in 0..MaxTime
      BY <1>7, UpdateTime DEF RulesUpdated
    <2>2. called' \in Seq(0..MaxTime)
      BY <1>7, <2>1 DEF RulesUpdated
    <2>3. QED
      BY <1>7, <2>2, ReturnType DEF RulesUpdated
  <1>8. ASSUME NEW p \in BOOLEAN, saveConfigSpecsToAdapter(p) PROVE TypeInv'
    <2>1. locals.payload.time \in 0..MaxTime
      BY <1>8, UpdateTime DEF saveConfigSpecsToAdapter
    <2>2. saves' \in Seq(0..MaxTime) /\ unsaved' \in BOOLEAN /\ stored' \in Payloads
      BY <1>8, <2>1 DEF saveConfigSpecsToAdapter
    <2>3. QED
      BY <1>8, <2>2, ReturnType DEF saveConfigSpecsToAdapter
  <1>9. CASE InitialSync
    BY <1>9 DEF InitialSync
  <1>10. CASE pollForRulesetChanges
    BY <1>10 DEF pollForRulesetChanges, Wake, Poll
  <1>11. ASSUME NEW r \in Readers, getGate(r) PROVE TypeInv'
    <2>1. reader' \in [Readers -> Reader]
      BY <1>11, IdleReaderType DEF getGate, Reader, Reasons, IdleReader
    <2>2. QED
      BY <1>11, <2>1 DEF getGate
  <1>12. ASSUME NEW r \in Readers, eval(r) PROVE TypeInv'
    <2>1. reader' \in [Readers -> Reader]
      <3> DEFINE e == [reader[r] EXCEPT !.at = "details", !.reason = initReason]
      <3>1. initReason \in Reasons /\ reader[r] \in Reader
        BY DEF Reasons
      <3>2. e \in Reader
        BY <3>1 DEF Reader
      <3>3. reader' = [reader EXCEPT ![r] = e]
        BY <1>12 DEF eval
      <3> HIDE DEF e
      <3>4. QED
        BY <3>2, <3>3
    <2>2. QED
      BY <1>12, <2>1 DEF eval
  <1>13. ASSUME NEW r \in Readers, NEW c \in BOOLEAN, createEvaluationDetails(r, c)
         PROVE  TypeInv'
    <2> DEFINE done == IF c THEN [reader[r] EXCEPT !.at = "done", !.configSyncTime = lastSyncTime,
                                                   !.initTime = initialSyncTime]
                            ELSE [IdleReader EXCEPT !.at = "bare"]
    <2>1. Times.sync = lastSyncTime /\ Times.init = initialSyncTime
      BY DEF Times
    <2>2. reader' = [reader EXCEPT ![r] = done]
      BY <1>13, <2>1 DEF createEvaluationDetails
    <2>3. done \in Reader
      <3>1. reader[r] \in Reader /\ lastSyncTime \in 0..MaxTime /\ initialSyncTime \in 0..MaxTime
        OBVIOUS
      <3>2. QED
        BY <3>1, IdleReaderType DEF Reader
    <2> HIDE DEF done
    <2>4. reader' \in [Readers -> Reader]
      BY <2>2, <2>3
    <2>5. QED
      BY <1>13, <2>4 DEF createEvaluationDetails
  <1>14. ASSUME NEW p \in BOOLEAN, ShutdownAdapter(p) PROVE TypeInv'
    BY <1>14 DEF ShutdownAdapter
  <1>15. CASE stopPolling
    BY <1>15 DEF stopPolling
  <1>16. CASE Publish
    BY <1>16 DEF Publish
  <1>17. CASE NetworkChange
    BY <1>17 DEF NetworkChange
  <1>18. ASSUME NEW p \in Payloads, AdapterWrite(p) PROVE TypeInv'
    BY <1>18 DEF AdapterWrite
  <1>19. CASE UNCHANGED vars
    BY <1>19 DEF vars
  <1>20. QED
    BY <1>1, <1>2, <1>3, <1>4, <1>5, <1>6, <1>7, <1>8, <1>9, <1>10, <1>11, <1>12, <1>13, <1>14,
       <1>15, <1>16, <1>17, <1>18, <1>19
    DEF Next, WorkerStep, ReaderStep, Environment

(***************************************************************************)
(* The state of the store and of its threads stays well typed.             *)
(***************************************************************************)
THEOREM TypeCorrect == Spec => []TypeOK
  <1>1. TypeInv => TypeOK
    BY DEF TypeInv
  <1>2. QED
    BY TypeInit, TypeStep, <1>1, PTL DEF Spec

-----------------------------------------------------------------------------
(***************************************************************************)
(* ReasonMatchesSpecs is not inductive: between swap and SetReason the     *)
(* worker must be known to hold the source of the specs it has swapped in. *)
(***************************************************************************)
SourceInHand == pc = "reason" => specs.from = locals.source

ReasonInv == ReasonMatchesSpecs /\ SourceInHand

LEMMA ReasonStep == TypeInv /\ ReasonInv /\ [Next]_vars => ReasonInv'
  <1> SUFFICES ASSUME TypeInv, ReasonInv, [Next]_vars PROVE ReasonInv'
    OBVIOUS
  <1>0. TypeOK
    BY DEF TypeInv
  <1> USE DEF ReasonInv, ReasonMatchesSpecs, SourceInHand, fixedVars, netVars, storeVars,
              workerVars, syncHistory, failVars
  <1>1. CASE Boot
    BY <1>1 DEF Boot
  <1>2. ASSUME NEW p \in BOOLEAN, fetchConfigSpecsFromAdapter(p) PROVE ReasonInv'
    BY <1>0, <1>2, ReturnType DEF fetchConfigSpecsFromAdapter
  <1>3. CASE SendRequest
    BY <1>3 DEF SendRequest
  <1>4. ASSUME NEW a \in Answers, NEW p \in ServerPayloads(locals.sinceTime), Respond(a, p)
        PROVE  ReasonInv'
    BY <1>0, <1>4, ReturnType DEF Respond
  <1>5. CASE setConfigSpecs
    <2>1. CASE locals.payload.updates
      BY <1>5, <2>1 DEF setConfigSpecs, HasUpdates
    <2>2. CASE ~locals.payload.updates
      BY <1>0, <1>5, <2>2, ReturnType DEF setConfigSpecs, HasUpdates
    <2>3. QED
      BY <2>1, <2>2
  <1>6. CASE SetReason
    BY <1>0, <1>6, ReturnType DEF SetReason, ReasonOf, AfterReason
  <1>7. CASE RulesUpdated
    BY <1>0, <1>7, ReturnType DEF RulesUpdated
  <1>8. ASSUME NEW p \in BOOLEAN, saveConfigSpecsToAdapter(p) PROVE ReasonInv'
    BY <1>0, <1>8, ReturnType DEF saveConfigSpecsToAdapter
  <1>9. CASE InitialSync
    BY <1>9 DEF InitialSync
  <1>10. CASE pollForRulesetChanges
    BY <1>10 DEF pollForRulesetChanges, Wake, Poll
  <1>11. ASSUME NEW r \in Readers, ReaderStep(r) PROVE ReasonInv'
    BY <1>11 DEF ReaderStep, getGate, eval, createEvaluationDetails, Times
  <1>12. ASSUME NEW p \in BOOLEAN, ShutdownAdapter(p) PROVE ReasonInv'
    BY <1>12 DEF ShutdownAdapter
  <1>13. CASE stopPolling
    BY <1>13 DEF stopPolling
  <1>14. CASE Environment
    BY <1>14 DEF Environment, Publish, NetworkChange, AdapterWrite
  <1>15. CASE UNCHANGED vars
    BY <1>15 DEF vars
  <1>16. QED
    BY <1>1, <1>2, <1>3, <1>4, <1>5, <1>6, <1>7, <1>8, <1>9, <1>10, <1>11, <1>12, <1>13, <1>14,
       <1>15
    DEF Next, WorkerStep

(***************************************************************************)
(* For every adapter, every bootstrap value and every history of failures: *)
(* except between swap and SetReason, initReason is the source of the      *)
(* specs being served and lastSyncTime their time.                         *)
(***************************************************************************)
THEOREM ReasonCorrect == Spec => []ReasonMatchesSpecs
  <1>1. Init => ReasonInv
    BY DEF Init, ReasonInv, ReasonMatchesSpecs, SourceInHand
  <1>2. ReasonInv => ReasonMatchesSpecs
    BY DEF ReasonInv
  <1>3. QED
    BY TypeInit, TypeStep, ReasonStep, <1>1, <1>2, PTL DEF Spec

-----------------------------------------------------------------------------
(***************************************************************************)
(* An evaluation under way that no sync has overlapped holds the specs     *)
(* that are still being served, outside the window before SetReason, and   *)
(* the reason it has read is theirs.                                       *)
(***************************************************************************)
QuietReader(e) ==
    /\ e.at \in {"spec", "details"} /\ ~e.overlap => e.spec = specs /\ pc # "reason"
    /\ e.at = "details" /\ ~e.overlap /\ e.spec # NoSpecs => e.reason = e.spec.from
    /\ e.at = "done" /\ ~e.overlap /\ e.spec # NoSpecs =>
          e.reason = e.spec.from /\ e.configSyncTime = e.spec.time

QuietInv == \A r \in Readers : QuietReader(reader[r])

\* Steps that leave readers and specs alone and do not enter the window.
LEMMA QuietFrame ==
    ASSUME QuietInv, UNCHANGED <<reader, specs>>, pc' = "reason" => pc = "reason"
    PROVE  QuietInv'
  BY DEF QuietInv, QuietReader

\* After a swap or a SetReason no evaluation under way counts as quiet.
LEMMA QuietOverlap ==
    ASSUME TypeOK, QuietInv, Overlap
    PROVE  QuietInv'
  <1> SUFFICES ASSUME NEW r \in Readers PROVE QuietReader(reader[r])'
    BY DEF QuietInv
  <1>1. reader[r] \in Reader
    BY DEF TypeOK
  <1>2. /\ reader'[r].at = reader[r].at
        /\ reader'[r].spec = reader[r].spec
        /\ reader'[r].reason = reader[r].reason
        /\ reader'[r].configSyncTime = reader[r].configSyncTime
        /\ reader'[r].overlap = (reader[r].overlap \/ reader[r].at \in {"spec", "details"})
    BY <1>1 DEF Overlap, Reader
  <1>3. QuietReader(reader[r])
    BY DEF QuietInv
  <1>4. QED
    BY <1>2, <1>3 DEF QuietReader

\* A step of one reader has to be shown quiet for that reader only.
LEMMA QuietOther ==
    ASSUME TypeOK, QuietInv, NEW r \in Readers, NEW e,
           reader' = [reader EXCEPT ![r] = e], UNCHANGED <<specs, pc>>, QuietReader(e)
    PROVE  QuietInv'
  <1> SUFFICES ASSUME NEW q \in Readers PROVE QuietReader(reader[q])'
    BY DEF QuietInv
  <1>1. QuietReader(reader[q]) /\ (reader'[q] = reader[q] \/ reader'[q] = e)
    BY DEF QuietInv, TypeOK
  <1>2. QED
    BY <1>1 DEF QuietReader

LEMMA QuietStep == TypeInv /\ ReasonInv /\ QuietInv /\ [Next]_vars => QuietInv'
  <1> SUFFICES ASSUME TypeInv, ReasonInv, QuietInv, [Next]_vars PROVE QuietInv'
    OBVIOUS
  <1>0. TypeOK
    BY DEF TypeInv
  <1> USE DEF fixedVars, netVars, storeVars, workerVars, syncHistory, failVars
  <1>1. CASE Boot
    BY <1>1, QuietFrame DEF Boot
  <1>2. ASSUME NEW p \in BOOLEAN, fetchConfigSpecsFromAdapter(p) PROVE QuietInv'
    BY <1>0, <1>2, ReturnType, QuietFrame DEF fetchConfigSpecsFromAdapter
  <1>3. CASE SendRequest
    BY <1>3, QuietFrame DEF SendRequest
  <1>4. ASSUME NEW a \in Answers, NEW p \in ServerPayloads(locals.sinceTime), Respond(a, p)
        PROVE  QuietInv'
    BY <1>0, <1>4, ReturnType, QuietFrame DEF Respond
  <1>5. CASE setConfigSpecs
    <2>1. CASE locals.payload.updates
      BY <1>0, <1>5, <2>1, QuietOverlap DEF setConfigSpecs, HasUpdates
    <2>2. CASE ~locals.payload.updates
      BY <1>0, <1>5, <2>2, ReturnType, QuietFrame DEF setConfigSpecs, HasUpdates
    <2>3. QED
      BY <2>1, <2>2
  <1>6. CASE SetReason
    BY <1>0, <1>6, QuietOverlap DEF SetReason, ReasonOf, AfterReason
  <1>7. CASE RulesUpdated
    BY <1>0, <1>7, ReturnType, QuietFrame DEF RulesUpdated
  <1>8. ASSUME NEW p \in BOOLEAN, saveConfigSpecsToAdapter(p) PROVE QuietInv'
    BY <1>0, <1>8, ReturnType, QuietFrame DEF saveConfigSpecsToAdapter
  <1>9. CASE InitialSync
    BY <1>9, QuietFrame DEF InitialSync
  <1>10. CASE pollForRulesetChanges
    BY <1>10, QuietFrame DEF pollForRulesetChanges, Wake, Poll
  <1>11. ASSUME NEW r \in Readers, getGate(r) PROVE QuietInv'
    <2> DEFINE e == [IdleReader EXCEPT !.at = IF specs = NoSpecs THEN "details" ELSE "spec",
                                       !.spec = specs,
                                       !.reason = IF specs = NoSpecs THEN "Unrecognized" ELSE @,
                                       !.overlap = (pc = "reason")]
    <2>1. QuietReader(e)
      BY DEF QuietReader, IdleReader
    <2>2. reader' = [reader EXCEPT ![r] = e] /\ UNCHANGED <<specs, pc>>
      BY <1>11 DEF getGate
    <2> HIDE DEF e
    <2>3. QED
      BY <1>0, <2>1, <2>2, QuietOther
  <1>12. ASSUME NEW r \in Readers, eval(r) PROVE QuietInv'
    <2> DEFINE e == [reader[r] EXCEPT !.at = "details", !.reason = initReason]
    <2>1. reader[r] \in Reader /\ QuietReader(reader[r]) /\ reader[r].at = "spec"
      BY <1>0, <1>12 DEF TypeOK, QuietInv, eval
    <2>2. e.at = "details" /\ e.reason = initReason /\ e.spec = reader[r].spec
          /\ e.overlap = reader[r].overlap
      BY <2>1 DEF Reader
    <2>3. reader' = [reader EXCEPT ![r] = e] /\ UNCHANGED <<specs, pc>>
      BY <1>12 DEF eval
    <2> HIDE DEF e
    <2>4. QuietReader(e)
      BY <2>1, <2>2 DEF QuietReader, ReasonInv, ReasonMatchesSpecs
    <2>5. QED
      BY <1>0, <2>3, <2>4, QuietOther
  <1>13. ASSUME NEW r \in Readers, NEW c \in BOOLEAN, createEvaluationDetails(r, c)
         PROVE  QuietInv'
    <2> DEFINE b == [IdleReader EXCEPT !.at = "bare"]
    <2> DEFINE e == [reader[r] EXCEPT !.at = "done", !.configSyncTime = lastSyncTime,
                                      !.initTime = initialSyncTime]
    <2>1. reader[r] \in Reader /\ QuietReader(reader[r]) /\ reader[r].at = "details"
      BY <1>0, <1>13 DEF TypeOK, QuietInv, createEvaluationDetails, Times
    <2>2. e.at = "done" /\ e.configSyncTime = lastSyncTime /\ e.reason = reader[r].reason
          /\ e.spec = reader[r].spec /\ e.overlap = reader[r].overlap
      BY <2>1 DEF Reader
    <2>3. /\ reader' = [reader EXCEPT ![r] = IF c THEN e ELSE b]
          /\ UNCHANGED <<specs, pc>>
      BY <1>13 DEF createEvaluationDetails, Times
    <2>4. QuietReader(b)
      BY DEF QuietReader, IdleReader
    <2> HIDE DEF e, b
    <2>5. QuietReader(e)
      BY <2>1, <2>2 DEF QuietReader, ReasonInv, ReasonMatchesSpecs
    <2>6. QED
      BY <1>0, <2>3, <2>4, <2>5, QuietOther
  <1>14. ASSUME NEW p \in BOOLEAN, ShutdownAdapter(p) PROVE QuietInv'
    BY <1>14, QuietFrame DEF ShutdownAdapter
  <1>15. CASE stopPolling
    BY <1>15, QuietFrame DEF stopPolling
  <1>16. CASE Environment
    BY <1>16, QuietFrame DEF Environment, Publish, NetworkChange, AdapterWrite
  <1>17. CASE UNCHANGED vars
    BY <1>17, QuietFrame DEF vars
  <1>18. QED
    BY <1>1, <1>2, <1>3, <1>4, <1>5, <1>6, <1>7, <1>8, <1>9, <1>10, <1>11, <1>12, <1>13, <1>14,
       <1>15, <1>16, <1>17
    DEF Next, WorkerStep, ReaderStep

(***************************************************************************)
(* For any number of readers: an evaluation that no sync overlaps logs the *)
(* reason and the sync time of the very spec it evaluated, although it     *)
(* reads them in three critical sections.                                  *)
(***************************************************************************)
THEOREM QuietEvaluationCorrect == Spec => []QuietEvaluationConsistent
  <1>1. Init => ReasonInv
    BY DEF Init, ReasonInv, ReasonMatchesSpecs, SourceInHand
  <1>2. Init => QuietInv
    BY DEF Init, QuietInv, QuietReader, IdleReader
  <1>3. QuietInv => QuietEvaluationConsistent
    BY DEF QuietInv, QuietReader, QuietEvaluationConsistent
  <1>4. QED
    BY TypeInit, TypeStep, ReasonStep, QuietStep, <1>1, <1>2, <1>3, PTL DEF Spec

-----------------------------------------------------------------------------
(***************************************************************************)
(* Facts about the worker that the remaining properties share.             *)
(***************************************************************************)
\* Readers, closers and the surroundings leave the worker and what it writes
\* alone.
LEMMA OthersLeaveWorker ==
    ASSUME [Next]_vars, ~WorkerStep
    PROVE  /\ UNCHANGED <<adapter, server, storeVars, workerVars, syncHistory, failVars>>
           /\ shutdown => shutdown'
  <1> USE DEF fixedVars, netVars, storeVars, workerVars, syncHistory, failVars
  <1>1. ASSUME NEW r \in Readers, ReaderStep(r)
        PROVE  UNCHANGED <<adapter, server, storeVars, workerVars, syncHistory, failVars, shutdown>>
    BY <1>1 DEF ReaderStep, getGate, eval, createEvaluationDetails
  <1>2. ASSUME NEW p \in BOOLEAN, ShutdownAdapter(p)
        PROVE  UNCHANGED <<adapter, server, storeVars, workerVars, syncHistory, failVars, shutdown>>
    BY <1>2 DEF ShutdownAdapter
  <1>3. CASE stopPolling
    BY <1>3 DEF stopPolling
  <1>4. CASE Environment
    BY <1>4 DEF Environment, Publish, NetworkChange, AdapterWrite
  <1>5. CASE UNCHANGED vars
    BY <1>5 DEF vars
  <1>6. QED
    BY <1>1, <1>2, <1>3, <1>4, <1>5 DEF Next

(***************************************************************************)
(* Which calls the worker can be in at each stage, and where the payload   *)
(* in its hands comes from: the constructor asks the network only when the *)
(* adapter or the bootstrap values gave it nothing, the poller asks either *)
(* the adapter or the network for ever.                                    *)
(***************************************************************************)
FirstPCs == {"boot", "adapterGet", "process", "reason", "initialSync"}
ColdPCs  == {"request", "wait", "process", "reason", "callback", "save", "initialSync"}
PollPCs  == {"process", "reason", "callback", "save", "sleep", "stopped"}
               \cup IF adapter = "polling" THEN {"adapterGet"} ELSE {"request", "wait"}

Flow ==
    /\ stage = "first" => pc \in FirstPCs
    /\ stage = "cold"  => pc \in ColdPCs
    /\ stage = "poll"  => pc \in PollPCs
    /\ pc \in {"process", "reason"} =>
          (locals.source = "Network") =
              (stage = "cold" \/ (stage = "poll" /\ adapter # "polling"))
    /\ pc \in {"callback", "save"} => locals.source = "Network"

(***************************************************************************)
(* Nobody else changes lastSyncTime between a request and the swap: the    *)
(* SinceTime it was made with is still the time of what is being served,   *)
(* and a payload that is newer than the one is newer than the other.       *)
(***************************************************************************)
Fresh ==
    /\ pc = "wait" => locals.sinceTime = lastSyncTime
    /\ pc = "process" /\ locals.source = "Network" =>
          /\ locals.sinceTime = lastSyncTime
          /\ server = "newer" /\ locals.payload.updates => locals.payload.time > lastSyncTime

FlowInv == Flow /\ Fresh

\* Where an attempt ends, the worker is at a place that belongs to its stage.
LEMMA ReturnFlow ==
    ASSUME TypeOK, Return, UNCHANGED <<adapter, server>>, stage = "poll" => pc' = "sleep"
    PROVE  FlowInv'
  BY DEF TypeOK, Return, FlowInv, Flow, Fresh, FirstPCs, ColdPCs, PollPCs

LEMMA FlowStep == TypeInv /\ FlowInv /\ [Next]_vars => FlowInv'
  <1> SUFFICES ASSUME TypeInv, FlowInv, [Next]_vars PROVE FlowInv'
    OBVIOUS
  <1>0. TypeOK
    BY DEF TypeInv
  <1>r. ASSUME Return, UNCHANGED <<adapter, server>> PROVE FlowInv'
    <2>1. stage = "poll" => pc' = "sleep"
      BY <1>r DEF Return
    <2>2. QED
      BY <1>0, <1>r, <2>1, ReturnFlow
  <1> USE DEF fixedVars, netVars, storeVars, workerVars, syncHistory, failVars
  <1>1. CASE Boot
    BY <1>0, <1>1 DEF Boot, TypeOK, FlowInv, Flow, Fresh, FirstPCs, ColdPCs, PollPCs, Sources
  <1>2. ASSUME NEW p \in BOOLEAN, fetchConfigSpecsFromAdapter(p) PROVE FlowInv'
    <2>1. CASE p
      BY <1>2, <1>r, <2>1 DEF fetchConfigSpecsFromAdapter
    <2>2. CASE ~p
      BY <1>0, <1>2, <2>2
      DEF fetchConfigSpecsFromAdapter, TypeOK, FlowInv, Flow, Fresh, FirstPCs, ColdPCs, PollPCs
    <2>3. QED
      BY <2>1, <2>2
  <1>3. CASE SendRequest
    BY <1>0, <1>3 DEF SendRequest, SinceTime, TypeOK, FlowInv, Flow, Fresh, FirstPCs, ColdPCs, PollPCs
  <1>4. ASSUME NEW a \in Answers, NEW p \in ServerPayloads(locals.sinceTime), Respond(a, p)
        PROVE  FlowInv'
    <2>1. CASE Failed(Request(a))
      BY <1>4, <1>r, <2>1 DEF Respond
    <2>2. CASE ~Failed(Request(a))
      <3>1. /\ pc = "wait" /\ pc' = "process" /\ UNCHANGED <<stage, adapter, server, lastSyncTime>>
            /\ locals' = [locals EXCEPT !.payload = p, !.source = "Network"]
        BY <1>4, <2>2 DEF Respond
      <3>2. /\ locals'.source = "Network" /\ locals'.payload = p
            /\ locals'.sinceTime = lastSyncTime /\ p \in ServerPayloads(lastSyncTime)
        BY <1>0, <3>1 DEF TypeOK, FlowInv, Fresh
      <3>3. Flow'
        BY <1>0, <3>1, <3>2 DEF TypeOK, FlowInv, Flow, FirstPCs, ColdPCs, PollPCs
      <3>4. Fresh'
        BY <1>0, <3>1, <3>2 DEF Fresh, ServerPayloads, TypeOK
      <3>5. QED
        BY <3>3, <3>4 DEF FlowInv
    <2>3. QED
      BY <2>1, <2>2
  <1>5. CASE setConfigSpecs
    <2>1. CASE locals.payload.updates
      BY <1>5, <2>1 DEF setConfigSpecs, HasUpdates, FlowInv, Flow, Fresh, FirstPCs, ColdPCs, PollPCs
    <2>2. CASE ~locals.payload.updates
      BY <1>5, <1>r, <2>2 DEF setConfigSpecs, HasUpdates
    <2>3. QED
      BY <2>1, <2>2
  <1>6. CASE SetReason
    <2>1. CASE locals.source = "Network"
      BY <1>6, <2>1 DEF SetReason, AfterReason, FlowInv, Flow, Fresh, FirstPCs, ColdPCs, PollPCs
    <2>2. CASE locals.source # "Network"
      BY <1>6, <1>r, <2>2 DEF SetReason, AfterReason
    <2>3. QED
      BY <2>1, <2>2
  <1>7. CASE RulesUpdated
    <2>1. CASE adapter # "none"
      BY <1>7, <2>1 DEF RulesUpdated, FlowInv, Flow, Fresh, FirstPCs, ColdPCs, PollPCs
    <2>2. CASE adapter = "none"
      BY <1>7, <1>r, <2>2 DEF RulesUpdated
    <2>3. QED
      BY <2>1, <2>2
  <1>8. ASSUME NEW p \in BOOLEAN, saveConfigSpecsToAdapter(p) PROVE FlowInv'
    BY <1>8, <1>r DEF saveConfigSpecsToAdapter
  <1>9. CASE InitialSync
    BY <1>9 DEF InitialSync, FlowInv, Flow, Fresh, FirstPCs, ColdPCs, PollPCs
  <1>10. CASE pollForRulesetChanges
    BY <1>10 DEF pollForRulesetChanges, Wake, Poll, FlowInv, Flow, Fresh, FirstPCs, ColdPCs, PollPCs
  <1>11. CASE ~WorkerStep
    BY <1>11, OthersLeaveWorker DEF FlowInv, Flow, Fresh, FirstPCs, ColdPCs, PollPCs
  <1>12. QED
    BY <1>1, <1>2, <1>3, <1>4, <1>5, <1>6, <1>7, <1>8, <1>9, <1>10, <1>11 DEF WorkerStep

LEMMA FlowInit == Init => FlowInv
  BY DEF Init, FlowInv, Flow, Fresh, FirstPCs, ColdPCs, PollPCs

\* What a step does to lastSyncTime: a swap of the payload in hand, or nothing.
LEMMA SwapOrKeep ==
    ASSUME [Next]_vars
    PROVE  \/ UNCHANGED <<lastSyncTime, specs, swapped, lateSwaps>>
           \/ setConfigSpecs /\ locals.payload.updates
  <1> USE DEF fixedVars, netVars, storeVars, workerVars, syncHistory, failVars
  <1>1. CASE WorkerStep
    BY <1>1 DEF WorkerStep, Boot, fetchConfigSpecsFromAdapter, SendRequest, Respond, setConfigSpecs,
                HasUpdates, SetReason, RulesUpdated, saveConfigSpecsToAdapter, InitialSync,
                pollForRulesetChanges
  <1>2. CASE ~WorkerStep
    BY <1>2, OthersLeaveWorker
  <1>3. QED
    BY <1>1, <1>2

\* Before the network is asked or an adapter is polled, lastSyncTime can only
\* rise, from 0.
EmptyInv == stage = "first" /\ pc \in {"boot", "adapterGet", "process"} => lastSyncTime = 0

LEMMA EmptyStep == TypeInv /\ FlowInv /\ EmptyInv /\ [Next]_vars => EmptyInv'
  <1> SUFFICES ASSUME TypeInv, FlowInv, EmptyInv, [Next]_vars, stage' = "first",
                      pc' \in {"boot", "adapterGet", "process"}
               PROVE  lastSyncTime' = 0
    BY DEF EmptyInv
  <1> USE DEF fixedVars, netVars, storeVars, workerVars, syncHistory, failVars
  <1>1. CASE WorkerStep
    <2>1. ~Return
      BY ReturnType DEF TypeInv
    <2>2. stage = "first" /\ pc \in {"boot", "adapterGet"} /\ UNCHANGED lastSyncTime
      BY <1>1, <2>1
      DEF WorkerStep, Boot, fetchConfigSpecsFromAdapter, SendRequest, Respond, setConfigSpecs,
          SetReason, AfterReason, RulesUpdated, saveConfigSpecsToAdapter, InitialSync,
          pollForRulesetChanges, FlowInv, Flow, FirstPCs
    <2>3. QED
      BY <2>2 DEF EmptyInv
  <1>2. CASE ~WorkerStep
    BY <1>2, OthersLeaveWorker DEF EmptyInv
  <1>3. QED
    BY <1>1, <1>2

\* What a step that takes the store back has in hand.
LEMMA RollBack ==
    ASSUME TypeInv, FlowInv, EmptyInv, [Next]_vars, lastSyncTime' < lastSyncTime,
           adapter # "polling"
    PROVE  /\ locals.source = "Network" /\ locals.payload.time < locals.sinceTime
           /\ server # "newer"
  <1>0. TypeOK /\ lastSyncTime \in Nat
    BY ConfigStoreAssumption DEF TypeInv, TypeOK
  <1>1. setConfigSpecs /\ locals.payload.updates /\ pc = "process"
    BY <1>0, SwapOrKeep DEF setConfigSpecs
  <1>2. lastSyncTime' = locals.payload.time /\ locals.payload.time \in Nat
    BY <1>0, <1>1, UpdateTime DEF setConfigSpecs, HasUpdates, TypeOK
  <1>3. stage # "first"
    BY <1>0, <1>1, <1>2 DEF EmptyInv
  <1>4. locals.source = "Network"
    BY <1>0, <1>1, <1>3 DEF FlowInv, Flow, TypeOK
  <1>5. QED
    BY <1>0, <1>1, <1>2, <1>4 DEF FlowInv, Fresh

\* With a server that sends newer specs only, times rise unless an adapter is
\* polled.
LEMMA PollMonotone ==
    ASSUME TypeInv, FlowInv, EmptyInv, [Next]_vars, adapter # "polling", server = "newer"
    PROVE  lastSyncTime' >= lastSyncTime
  <1>1. lastSyncTime \in Int /\ lastSyncTime' \in Int
    BY TypeStep DEF TypeInv, TypeOK
  <1>2. QED
    BY <1>1, RollBack

LEMMA EmptyInit == Init => EmptyInv
  BY DEF Init, EmptyInv

(***************************************************************************)
(* For every server and every adapter that is not polled: specs are        *)
(* replaced by older ones only by an answer that is older than the         *)
(* SinceTime it was asked with.                                            *)
(***************************************************************************)
THEOREM RollBackCorrect == Spec => OnlyOldAnswersRollBack
  <1>1. TypeInv /\ FlowInv /\ EmptyInv /\ [Next]_vars =>
            [lastSyncTime' < lastSyncTime =>
                 \/ adapter = "polling"
                 \/ locals.source = "Network" /\ locals.payload.time < locals.sinceTime]_vars
    BY RollBack
  <1>2. QED
    BY TypeInit, TypeStep, FlowInit, FlowStep, EmptyInit, EmptyStep, <1>1, PTL
    DEF Spec, OnlyOldAnswersRollBack

-----------------------------------------------------------------------------
(***************************************************************************)
(* Evaluations and times.  With a server that sends newer specs only, and  *)
(* without a polled adapter, times only rise, so what a reader has read is *)
(* at most lastSyncTime.                                                   *)
(***************************************************************************)
NotOlderReader(e) ==
    /\ e.at # "idle" => stage = "poll"
    /\ e.at \in {"spec", "details"} => e.spec.time <= lastSyncTime
    /\ e.at = "done" => e.spec.time <= e.configSyncTime /\ e.initTime <= e.configSyncTime

NotOlderInv ==
    adapter # "polling" /\ server = "newer" =>
        /\ stage = "poll" => initialSyncTime <= lastSyncTime
        /\ \A r \in Readers : NotOlderReader(reader[r])

\* Fields of a reader that a sync does not touch.
LEMMA OverlapKeeps ==
    ASSUME TypeOK, Overlap, NEW r \in Readers
    PROVE  /\ reader'[r].at = reader[r].at
           /\ reader'[r].spec = reader[r].spec
           /\ reader'[r].configSyncTime = reader[r].configSyncTime
           /\ reader'[r].initTime = reader[r].initTime
  <1>1. reader[r] \in Reader
    BY DEF TypeOK
  <1>2. QED
    BY <1>1 DEF Overlap, Reader

\* A step of the worker does to readers at most what a sync does.
LEMMA WorkerLeavesReaders ==
    ASSUME TypeOK, WorkerStep, NEW r \in Readers
    PROVE  /\ reader'[r].at = reader[r].at
           /\ reader'[r].spec = reader[r].spec
           /\ reader'[r].configSyncTime = reader[r].configSyncTime
           /\ reader'[r].initTime = reader[r].initTime
  <1>1. Overlap \/ UNCHANGED reader
    BY DEF WorkerStep, Boot, fetchConfigSpecsFromAdapter, SendRequest, Respond, setConfigSpecs,
           SetReason, RulesUpdated, saveConfigSpecsToAdapter, InitialSync, pollForRulesetChanges
  <1>2. QED
    BY <1>1, OverlapKeeps

\* What a step of the worker does to stage and initialSyncTime.
LEMMA WorkerStage ==
    ASSUME TypeOK, FlowInv, WorkerStep
    PROVE  /\ UNCHANGED <<adapter, server>>
           /\ stage = "poll" => stage' = "poll"
           /\ stage' = "poll" =>
                 \/ stage = "poll" /\ UNCHANGED initialSyncTime
                 \/ initialSyncTime' = lastSyncTime /\ UNCHANGED lastSyncTime
  <1>0. stage = "poll" => pc \notin {"boot", "initialSync"}
    BY DEF FlowInv, Flow, PollPCs
  <1> USE DEF fixedVars, storeVars
  <1>1. CASE InitialSync
    BY <1>0, <1>1 DEF InitialSync
  <1>2. CASE ~InitialSync
    <2>1. UNCHANGED <<adapter, server, initialSyncTime>>
      BY <1>2 DEF WorkerStep, Boot, fetchConfigSpecsFromAdapter, SendRequest, Respond,
                  setConfigSpecs, SetReason, RulesUpdated, saveConfigSpecsToAdapter,
                  pollForRulesetChanges
    <2>2. Return \/ UNCHANGED stage \/ (pc = "boot" /\ stage' = "cold")
      BY <1>2 DEF WorkerStep, Boot, fetchConfigSpecsFromAdapter, SendRequest, Respond,
                  setConfigSpecs, SetReason, AfterReason, RulesUpdated, saveConfigSpecsToAdapter,
                  pollForRulesetChanges
    <2>3. Return => (stage' = "poll" <=> stage = "poll")
      BY DEF Return
    <2>4. QED
      BY <1>0, <2>1, <2>2, <2>3
  <1>3. QED
    BY <1>1, <1>2

LEMMA NotOlderStep ==
    TypeInv /\ ReasonInv /\ FlowInv /\ EmptyInv /\ NotOlderInv /\ [Next]_vars => NotOlderInv'
  <1> SUFFICES ASSUME TypeInv, ReasonInv, FlowInv, EmptyInv, NotOlderInv, [Next]_vars,
                      adapter' # "polling", server' = "newer"
               PROVE  /\ stage' = "poll" => initialSyncTime' <= lastSyncTime'
                      /\ \A r \in Readers : NotOlderReader(reader[r])'
    BY DEF NotOlderInv
  <1>0. TypeOK
    BY DEF TypeInv
  <1>1. TypeOK'
    BY TypeStep DEF TypeInv
  <1>2. UNCHANGED <<adapter, server>>
    BY <1>0, OthersLeaveWorker, WorkerStage
  <1>3. /\ stage = "poll" => initialSyncTime <= lastSyncTime
        /\ \A r \in Readers : NotOlderReader(reader[r])
    BY <1>2 DEF NotOlderInv
  <1>4. stage = "poll" => lastSyncTime' >= lastSyncTime
    BY <1>2, PollMonotone
  <1>5. CASE WorkerStep
    <2>1. stage' = "poll" => initialSyncTime' <= lastSyncTime'
      <3>1. stage = "poll" => pc # "initialSync"
        BY DEF FlowInv, Flow, PollPCs
      <3>2. QED
        BY <1>0, <1>1, <1>3, <1>4, <1>5, <3>1, WorkerStage, SMTT(30) DEF TypeOK
    <2>2. ASSUME NEW r \in Readers PROVE NotOlderReader(reader[r])'
      <3>1. reader[r] \in Reader /\ reader'[r] \in Reader
        BY <1>0, <1>1 DEF TypeOK
      <3>2. reader[r].spec.time \in Int
        BY <3>1 DEF Reader, Specs
      <3>3. /\ reader'[r].at = reader[r].at /\ reader'[r].spec = reader[r].spec
            /\ reader'[r].configSyncTime = reader[r].configSyncTime
            /\ reader'[r].initTime = reader[r].initTime
        BY <1>0, <1>5, WorkerLeavesReaders
      <3>4. stage = "poll" => stage' = "poll"
        BY <1>0, <1>5, WorkerStage
      <3>5. lastSyncTime \in Int /\ lastSyncTime' \in Int
        BY <1>0, <1>1 DEF TypeOK
      <3>6. NotOlderReader(reader[r])
        BY <1>3
      <3>7. QED
        BY <1>4, <3>2, <3>3, <3>4, <3>5, <3>6 DEF NotOlderReader
    <2>3. QED
      BY <2>1, <2>2
  <1>6. CASE ~WorkerStep
    <2>1. UNCHANGED <<specs, lastSyncTime, initialSyncTime, stage, pc>>
      BY <1>6, OthersLeaveWorker DEF storeVars, workerVars
    <2>2. stage' = "poll" => initialSyncTime' <= lastSyncTime'
      BY <1>3, <2>1
    <2>3. ASSUME NEW r \in Readers, getGate(r), NEW q \in Readers PROVE NotOlderReader(reader[q])'
      <3>1. CASE q = r
        <4>1. reader'[q].at \in {"spec", "details"} /\ reader'[q].spec = specs /\ stage = "poll"
          BY <1>0, <2>3, <3>1 DEF getGate, IdleReader, TypeOK
        <4>2. specs.time <= lastSyncTime
          BY <1>0 DEF ReasonInv, ReasonMatchesSpecs, TypeOK
        <4>3. QED
          BY <2>1, <4>1, <4>2 DEF NotOlderReader
      <3>2. CASE q # r
        BY <1>0, <1>3, <2>1, <2>3, <3>2 DEF getGate, NotOlderReader, TypeOK
      <3>3. QED
        BY <3>1, <3>2
    <2>4. ASSUME NEW r \in Readers, eval(r), NEW q \in Readers PROVE NotOlderReader(reader[q])'
      <3>1. CASE q = r
        <4>1. reader[r] \in Reader /\ reader[r].at = "spec"
          BY <1>0, <2>4 DEF TypeOK, eval
        <4>2. reader'[q].at = "details" /\ reader'[q].spec = reader[q].spec
          BY <1>0, <2>4, <3>1, <4>1 DEF eval, TypeOK, Reader
        <4>3. QED
          BY <1>3, <2>1, <3>1, <4>1, <4>2 DEF NotOlderReader
      <3>2. CASE q # r
        BY <1>0, <1>3, <2>1, <2>4, <3>2 DEF eval, NotOlderReader, TypeOK
      <3>3. QED
        BY <3>1, <3>2
    <2>5. ASSUME NEW r \in Readers, NEW c \in BOOLEAN, createEvaluationDetails(r, c),
                 NEW q \in Readers
          PROVE  NotOlderReader(reader[q])'
      <3>0. CASE q = r /\ ~c
        <4>1. reader[q] \in Reader /\ reader[q].at = "details" /\ reader'[q].at = "bare"
          BY <1>0, <2>5, <3>0 DEF createEvaluationDetails, IdleReader, TypeOK
        <4>2. QED
          BY <1>3, <2>1, <4>1 DEF NotOlderReader
      <3>1. CASE q = r /\ c
        <4>1. reader[r] \in Reader /\ reader[r].at = "details"
          BY <1>0, <2>5 DEF TypeOK, createEvaluationDetails
        <4>2. /\ reader'[q].at = "done" /\ reader'[q].spec = reader[q].spec
              /\ reader'[q].configSyncTime = lastSyncTime /\ reader'[q].initTime = initialSyncTime
          BY <1>0, <2>5, <3>1, <4>1 DEF createEvaluationDetails, Times, TypeOK, Reader
        <4>3. QED
          BY <1>3, <2>1, <3>1, <4>1, <4>2 DEF NotOlderReader
      <3>2. CASE q # r
        BY <1>0, <1>3, <2>1, <2>5, <3>2 DEF createEvaluationDetails, NotOlderReader, TypeOK
      <3>3. QED
        BY <3>0, <3>1, <3>2
    <2>6. CASE UNCHANGED reader
      BY <1>3, <2>1, <2>6 DEF NotOlderReader
    <2>7. UNCHANGED reader \/ \E r \in Readers : ReaderStep(r)
      BY <1>6 DEF Next, ShutdownAdapter, stopPolling, Environment, Publish, NetworkChange,
                  AdapterWrite, vars
    <2>8. QED
      BY <2>2, <2>3, <2>4, <2>5, <2>6, <2>7 DEF ReaderStep
  <1>7. QED
    BY <1>5, <1>6

(***************************************************************************)
(* For any number of readers: torn reads err in one direction.  Unless an  *)
(* adapter is polled, and if the server sends newer specs only, an         *)
(* exposure claims no sync older than the spec that was evaluated, nor one *)
(* older than initialization.                                              *)
(***************************************************************************)
THEOREM NotOlderCorrect == Spec => []ExposureNotOlderThanSpec
  <1>1. Init => ReasonInv
    BY DEF Init, ReasonInv, ReasonMatchesSpecs, SourceInHand
  <1>2. Init => NotOlderInv
    BY DEF Init, NotOlderInv, NotOlderReader, IdleReader
  <1>3. NotOlderInv => ExposureNotOlderThanSpec
    BY DEF NotOlderInv, NotOlderReader, ExposureNotOlderThanSpec
  <1>4. QED
    BY TypeInit, TypeStep, ReasonStep, FlowInit, FlowStep, EmptyInit, EmptyStep, NotOlderStep,
       <1>1, <1>2, <1>3, PTL
    DEF Spec

-----------------------------------------------------------------------------
(***************************************************************************)
(* Swaps, callbacks and saves.  Between swap and callback the worker holds *)
(* the payload swapped in last, between callback and Set the one announced *)
(* last.                                                                   *)
(***************************************************************************)
\* A callback is due for a network payload.
Due == pc \in {"reason", "callback"} /\ locals.source = "Network"

CallInv ==
    /\ Len(swapped) = Len(called) + (IF Due THEN 1 ELSE 0)
    /\ \A i \in DOMAIN called : called[i] = swapped[i]
    /\ Due => swapped[Len(swapped)] = locals.payload.time

SaveInv ==
    /\ IF adapter = "none" THEN saves = <<>> /\ pc # "save"
                           ELSE Len(called) = Len(saves) + (IF pc = "save" THEN 1 ELSE 0)
    /\ \A i \in DOMAIN saves : saves[i] = called[i]
    /\ pc = "save" => called[Len(called)] = locals.payload.time

\* Where an attempt ends nothing is due.
LEMMA ReturnNotDue == ASSUME TypeOK, Return PROVE ~Due'
  BY ReturnType DEF Due

LEMMA CallStep == TypeInv /\ FlowInv /\ CallInv /\ [Next]_vars => CallInv'
  <1> SUFFICES ASSUME TypeInv, FlowInv, CallInv, [Next]_vars PROVE CallInv'
    OBVIOUS
  <1>0. TypeOK
    BY DEF TypeInv
  <1>1. swapped \in Seq(0..MaxTime) /\ called \in Seq(0..MaxTime)
    BY <1>0 DEF TypeOK
  \* Steps that make nothing due and touch neither sequence.
  <1>f. ASSUME UNCHANGED <<swapped, called>>, ~Due, ~Due' PROVE CallInv'
    BY <1>f DEF CallInv
  <1> USE DEF fixedVars, netVars, storeVars, workerVars, syncHistory, failVars
  <1>2. CASE Boot
    BY <1>2, <1>f DEF Boot, Due
  <1>3. ASSUME NEW p \in BOOLEAN, fetchConfigSpecsFromAdapter(p) PROVE CallInv'
    BY <1>0, <1>3, <1>f, ReturnNotDue DEF fetchConfigSpecsFromAdapter, Due
  <1>4. CASE SendRequest
    BY <1>4, <1>f DEF SendRequest, Due
  <1>5. ASSUME NEW a \in Answers, NEW p \in ServerPayloads(locals.sinceTime), Respond(a, p)
        PROVE  CallInv'
    BY <1>0, <1>5, <1>f, ReturnNotDue DEF Respond, Due
  <1>6. CASE setConfigSpecs
    <2>1. CASE locals.payload.updates /\ locals.source = "Network"
      <3>1. /\ ~Due /\ Due' /\ UNCHANGED <<called, locals>>
            /\ swapped' = Append(swapped, locals.payload.time)
        BY <1>6, <2>1 DEF setConfigSpecs, HasUpdates, Due
      <3>2. Len(swapped) = Len(called) /\ \A i \in DOMAIN called : called[i] = swapped[i]
        BY <1>1, <3>1 DEF CallInv
      <3>3. locals.payload.time \in 0..MaxTime
        BY <1>0, <2>1, UpdateTime DEF TypeOK
      <3>4. /\ Len(swapped') = Len(called') + 1
            /\ \A i \in DOMAIN called' : called'[i] = swapped'[i]
            /\ swapped'[Len(swapped')] = locals'.payload.time
        BY <1>1, <3>1, <3>2, <3>3
      <3>5. QED
        BY <3>1, <3>4 DEF CallInv
    <2>2. CASE locals.payload.updates /\ locals.source # "Network"
      BY <1>6, <1>f, <2>2 DEF setConfigSpecs, HasUpdates, Due
    <2>3. CASE ~locals.payload.updates
      BY <1>0, <1>6, <1>f, <2>3, ReturnNotDue DEF setConfigSpecs, HasUpdates, Due
    <2>4. QED
      BY <2>1, <2>2, <2>3
  <1>7. CASE SetReason
    <2>1. CASE locals.source = "Network"
      <3>1. Due /\ Due' /\ UNCHANGED <<called, swapped, locals>>
        BY <1>7, <2>1 DEF SetReason, AfterReason, Due
      <3>2. QED
        BY <3>1 DEF CallInv
    <2>2. CASE locals.source # "Network"
      BY <1>0, <1>7, <1>f, <2>2, ReturnNotDue DEF SetReason, AfterReason, Due
    <2>3. QED
      BY <2>1, <2>2
  <1>8. CASE RulesUpdated
    <2>1. Due /\ UNCHANGED swapped /\ called' = Append(called, locals.payload.time)
      BY <1>8 DEF RulesUpdated, Due, FlowInv, Flow
    <2>2. ~Due'
      BY <1>0, <1>8, ReturnNotDue DEF RulesUpdated, Due
    <2>3. /\ Len(swapped) = Len(called) + 1
          /\ \A i \in DOMAIN called : called[i] = swapped[i]
          /\ swapped[Len(swapped)] = locals.payload.time
      BY <2>1 DEF CallInv
    <2>4. locals.payload.time \in 0..MaxTime
      BY <1>0, <1>8, UpdateTime DEF RulesUpdated, TypeInv, TypeOK, PayloadInHand
    <2>5. /\ Len(swapped') = Len(called')
          /\ \A i \in DOMAIN called' : called'[i] = swapped'[i]
      BY <1>1, <2>1, <2>3, <2>4
    <2>6. Len(called') \in Nat
      BY <1>1, <2>1, <2>4
    <2>7. QED
      BY <2>2, <2>5, <2>6 DEF CallInv
  <1>9. ASSUME NEW p \in BOOLEAN, saveConfigSpecsToAdapter(p) PROVE CallInv'
    BY <1>0, <1>9, <1>f, ReturnNotDue DEF saveConfigSpecsToAdapter, Due
  <1>10. CASE InitialSync
    BY <1>10, <1>f DEF InitialSync, Due
  <1>11. CASE pollForRulesetChanges
    BY <1>11, <1>f DEF pollForRulesetChanges, Wake, Poll, Due
  <1>12. CASE ~WorkerStep
    BY <1>12, OthersLeaveWorker DEF CallInv, Due
  <1>13. QED
    BY <1>2, <1>3, <1>4, <1>5, <1>6, <1>7, <1>8, <1>9, <1>10, <1>11, <1>12 DEF WorkerStep

LEMMA SaveStep == TypeInv /\ FlowInv /\ SaveInv /\ [Next]_vars => SaveInv'
  <1> SUFFICES ASSUME TypeInv, FlowInv, SaveInv, [Next]_vars PROVE SaveInv'
    OBVIOUS
  <1>0. TypeOK
    BY DEF TypeInv
  <1>1. called \in Seq(0..MaxTime) /\ saves \in Seq(0..MaxTime)
    BY <1>0 DEF TypeOK
  <1>2. UNCHANGED adapter
    BY <1>0, OthersLeaveWorker, WorkerStage
  <1>3. ASSUME pc \in {"callback", "save"}
        PROVE  locals.payload.time \in 0..MaxTime
    BY <1>0, <1>3, UpdateTime DEF TypeInv, PayloadInHand, TypeOK
  <1> USE DEF fixedVars, netVars, storeVars, workerVars, syncHistory, failVars
  <1>4. CASE RulesUpdated
    <2>1. called' = Append(called, locals.payload.time) /\ UNCHANGED saves /\ pc = "callback"
      BY <1>4 DEF RulesUpdated
    <2>2. CASE adapter = "none"
      <3>1. pc' # "save"
        BY <1>0, <1>4, <2>2, ReturnType DEF RulesUpdated
      <3>2. QED
        BY <1>2, <2>1, <2>2, <3>1 DEF SaveInv
    <2>3. CASE adapter # "none"
      <3>1. pc' = "save" /\ UNCHANGED locals
        BY <1>4, <2>3 DEF RulesUpdated
      <3>2. Len(called) = Len(saves) /\ \A i \in DOMAIN saves : saves[i] = called[i]
        BY <1>1, <2>1, <2>3 DEF SaveInv
      <3>3. /\ Len(called') = Len(saves) + 1
            /\ \A i \in DOMAIN saves : saves[i] = called'[i]
            /\ called'[Len(called')] = locals.payload.time
        BY <1>1, <1>3, <2>1, <3>2
      <3>4. QED
        BY <1>2, <2>1, <2>3, <3>1, <3>3 DEF SaveInv
    <2>4. QED
      BY <2>2, <2>3
  <1>5. ASSUME NEW p \in BOOLEAN, saveConfigSpecsToAdapter(p) PROVE SaveInv'
    <2>1. saves' = Append(saves, locals.payload.time) /\ UNCHANGED called /\ pc = "save"
      BY <1>5 DEF saveConfigSpecsToAdapter
    <2>2. pc' # "save"
      BY <1>0, <1>5, ReturnType DEF saveConfigSpecsToAdapter
    <2>3. /\ adapter # "none" /\ Len(called) = Len(saves) + 1
          /\ \A i \in DOMAIN saves : saves[i] = called[i]
          /\ called[Len(called)] = locals.payload.time
      BY <2>1 DEF SaveInv
    <2>4. Len(called') = Len(saves') /\ \A i \in DOMAIN saves' : saves'[i] = called'[i]
      BY <1>1, <1>3, <2>1, <2>3
    <2>5. Len(saves') \in Nat
      BY <1>1, <1>3, <2>1
    <2>6. QED
      BY <1>2, <2>2, <2>3, <2>4, <2>5 DEF SaveInv
  <1>6. CASE WorkerStep /\ ~RulesUpdated /\ ~(\E p \in BOOLEAN : saveConfigSpecsToAdapter(p))
    <2>1. UNCHANGED <<called, saves>> /\ pc # "save"
      BY <1>6 DEF WorkerStep, Boot, fetchConfigSpecsFromAdapter, SendRequest, Respond,
                  setConfigSpecs, SetReason, InitialSync, pollForRulesetChanges
    <2>2. Return => pc' # "save"
      BY <1>0, ReturnType
    <2>3. pc' # "save"
      BY <1>6, <2>2
      DEF WorkerStep, Boot, fetchConfigSpecsFromAdapter, SendRequest, Respond, setConfigSpecs,
          SetReason, AfterReason, InitialSync, pollForRulesetChanges, Wake, Poll
    <2>4. QED
      BY <1>2, <2>1, <2>3 DEF SaveInv
  <1>7. CASE ~WorkerStep
    BY <1>7, OthersLeaveWorker DEF SaveInv
  <1>8. QED
    BY <1>4, <1>5, <1>6, <1>7

(***************************************************************************)
(* The adapter's copy.  What the worker has in hand after a swap is what   *)
(* it has swapped in; before the network is asked there are no network     *)
(* swaps, and afterwards a store with a backup swaps in nothing else.      *)
(***************************************************************************)
NoSwapYet == stage = "first" \/ (stage = "cold" /\ pc \in {"request", "wait", "process"})

InHand == pc \in {"reason", "callback", "save"}

CopyInv ==
    /\ NoSwapYet => swapped = <<>>
    /\ InHand => locals.payload = Update(lastSyncTime)
    /\ adapter = "backup" /\ swapped # <<>> /\ ~unsaved /\ ~InHand => stored = Update(lastSyncTime)

\* A payload with updates is its time.
LEMMA UpdateIs == ASSUME NEW p \in Payloads, p.updates PROVE p = Update(p.time)
  BY DEF Payloads

LEMMA CopyStep == TypeInv /\ FlowInv /\ CopyInv /\ [Next]_vars => CopyInv'
  <1> SUFFICES ASSUME TypeInv, FlowInv, CopyInv, [Next]_vars PROVE CopyInv'
    OBVIOUS
  <1>0. TypeOK
    BY DEF TypeInv
  <1>1. UNCHANGED adapter
    BY <1>0, OthersLeaveWorker, WorkerStage
  <1>2. Return => ~InHand' /\ (NoSwapYet' => NoSwapYet)
    BY <1>0, ReturnType DEF Return, NoSwapYet, InHand
  <1> USE DEF fixedVars, netVars, storeVars, workerVars, syncHistory, failVars
  <1>3. CASE setConfigSpecs /\ locals.payload.updates
    <2>1. /\ pc = "process" /\ pc' = "reason" /\ UNCHANGED <<stage, locals>>
          /\ lastSyncTime' = locals.payload.time
          /\ swapped' = IF locals.source = "Network" THEN Append(swapped, locals.payload.time)
                                                     ELSE swapped
      BY <1>3 DEF setConfigSpecs, HasUpdates
    <2>2. locals'.payload = Update(lastSyncTime')
      BY <1>0, <1>3, <2>1, UpdateIs DEF TypeOK
    <2>3. NoSwapYet' => stage = "first" /\ swapped' = <<>>
      <3>1. stage = "first" => locals.source # "Network"
        BY <2>1 DEF FlowInv, Flow
      <3>2. QED
        BY <2>1, <3>1 DEF NoSwapYet, CopyInv
    <2>4. QED
      BY <2>1, <2>2, <2>3 DEF CopyInv, InHand
  <1>4. CASE SetReason
    <2>1. pc = "reason" /\ UNCHANGED <<stored, unsaved, swapped, lastSyncTime>>
      BY <1>4 DEF SetReason
    <2>2. CASE locals.source = "Network"
      <3>1. pc' = "callback" /\ UNCHANGED <<stage, locals>>
        BY <1>4, <2>2 DEF SetReason, AfterReason
      <3>2. QED
        BY <2>1, <3>1 DEF CopyInv, InHand, NoSwapYet
    <2>3. CASE locals.source # "Network"
      <3>1. Return
        BY <1>4, <2>3 DEF SetReason, AfterReason
      <3>2. stage = "first" \/ adapter = "polling"
        BY <1>0, <2>1, <2>3 DEF FlowInv, Flow, TypeOK
      <3>3. QED
        BY <1>1, <1>2, <2>1, <3>1, <3>2 DEF CopyInv, NoSwapYet
    <2>4. QED
      BY <2>2, <2>3
  <1>5. CASE RulesUpdated
    <2>1. pc = "callback" /\ UNCHANGED <<stored, unsaved, swapped, lastSyncTime>>
      BY <1>5 DEF RulesUpdated
    <2>2. CASE adapter # "none"
      <3>1. pc' = "save" /\ UNCHANGED <<stage, locals>>
        BY <1>5, <2>2 DEF RulesUpdated
      <3>2. QED
        BY <2>1, <3>1 DEF CopyInv, InHand, NoSwapYet
    <2>3. CASE adapter = "none"
      <3>1. Return
        BY <1>5, <2>3 DEF RulesUpdated
      <3>2. QED
        BY <1>1, <1>2, <2>1, <2>3, <3>1 DEF CopyInv
    <2>4. QED
      BY <2>2, <2>3
  <1>6. ASSUME NEW p \in BOOLEAN, saveConfigSpecsToAdapter(p) PROVE CopyInv'
    <2>1. /\ pc = "save" /\ UNCHANGED <<swapped, lastSyncTime>> /\ Return
          /\ unsaved' = p /\ stored' = IF p THEN stored ELSE locals.payload
      BY <1>6 DEF saveConfigSpecsToAdapter
    <2>2. locals.payload = Update(lastSyncTime)
      BY <2>1 DEF CopyInv, InHand
    <2>3. QED
      BY <1>2, <2>1, <2>2 DEF CopyInv
  <1>7. CASE /\ WorkerStep
             /\ ~(setConfigSpecs /\ locals.payload.updates) /\ ~SetReason /\ ~RulesUpdated
             /\ ~\E p \in BOOLEAN : saveConfigSpecsToAdapter(p)
    <2>1. UNCHANGED <<stored, unsaved, swapped, lastSyncTime>> /\ ~InHand
      BY <1>7 DEF WorkerStep, Boot, fetchConfigSpecsFromAdapter, SendRequest, Respond,
                  setConfigSpecs, HasUpdates, InitialSync, pollForRulesetChanges, InHand
    <2>2. ~InHand' /\ (NoSwapYet' => NoSwapYet)
      BY <1>0, <1>2, <1>7
      DEF WorkerStep, Boot, fetchConfigSpecsFromAdapter, SendRequest, Respond, setConfigSpecs,
          HasUpdates, InitialSync, pollForRulesetChanges, Wake, Poll, NoSwapYet, InHand, FlowInv,
          Flow, ColdPCs, PollPCs, TypeOK
    <2>3. QED
      BY <1>1, <2>1, <2>2 DEF CopyInv
  <1>8. CASE ~WorkerStep
    <2>1. UNCHANGED <<swapped, unsaved, lastSyncTime, pc, stage, locals>>
      BY <1>8, OthersLeaveWorker
    <2>2. adapter = "backup" => UNCHANGED stored
      BY <1>8 DEF Next, ReaderStep, getGate, eval, createEvaluationDetails, ShutdownAdapter,
                  stopPolling, Environment, Publish, NetworkChange, AdapterWrite, vars
    <2>3. QED
      BY <1>1, <2>1, <2>2 DEF CopyInv, InHand, NoSwapYet
  <1>9. QED
    BY <1>3, <1>4, <1>5, <1>6, <1>7, <1>8

(***************************************************************************)
(* For every adapter, every server and every history of failures: each     *)
(* network payload swapped in is announced once and handed to the adapter  *)
(* once, in the order of the swaps, and an adapter of this process alone   *)
(* holds what is served when no sync is under way.                         *)
(***************************************************************************)
THEOREM CallbackCorrect == Spec => []CallbackPerSwap
  <1>1. Init => CallInv /\ SaveInv /\ CopyInv
    BY DEF Init, CallInv, SaveInv, CopyInv, NoSwapYet, Due, InHand
  <1>2. TypeInv /\ CallInv /\ SaveInv /\ CopyInv => CallbackPerSwap
    <2> SUFFICES ASSUME TypeInv, CallInv, SaveInv, CopyInv PROVE CallbackPerSwap
      OBVIOUS
    <2>1. Len(swapped) \in Nat /\ Len(called) \in Nat /\ Len(saves) \in Nat
      BY DEF TypeInv, TypeOK
    <2>2. Len(swapped) - Len(called) = IF Due THEN 1 ELSE 0
      BY <2>1 DEF CallInv
    <2>3. adapter # "none" => Len(called) - Len(saves) = IF pc = "save" THEN 1 ELSE 0
      BY <2>1 DEF SaveInv
    <2>4. ASSUME NEW i \in DOMAIN saves PROVE saves[i] = swapped[i]
      <3>1. i \in 1..Len(saves) /\ DOMAIN called = 1..Len(called)
        BY <2>4 DEF TypeInv, TypeOK
      <3>2. adapter # "none"
        <4>1. saves # <<>>
          BY <3>1
        <4>2. QED
          BY <4>1 DEF SaveInv
      <3>3. i \in DOMAIN called
        <4>1. Len(saves) <= Len(called)
          BY <2>1, <2>3, <3>2
        <4>2. QED
          BY <2>1, <3>1, <4>1
      <3>4. QED
        BY <3>3 DEF SaveInv, CallInv
    <2>5. adapter = "backup" /\ swapped # <<>> /\ ~unsaved
              /\ pc \notin {"reason", "callback", "save"} => stored = Update(lastSyncTime)
      BY DEF CopyInv, InHand
    <2>6. \A i \in DOMAIN called : called[i] = swapped[i]
      BY DEF CallInv
    <2> QED
      BY <2>2, <2>3, <2>4, <2>5, <2>6 DEF Due, CallbackPerSwap
  <1>3. QED
    BY TypeInit, TypeStep, FlowInit, FlowStep, CallStep, SaveStep, CopyStep, <1>1, <1>2, PTL
    DEF Spec

-----------------------------------------------------------------------------
(***************************************************************************)
(* After stopPolling.  A client that is shut down polls, and a worker that *)
(* has made a late swap can only finish that sync, sleep and stop.         *)
(***************************************************************************)
StopInv ==
    /\ closer # "idle" => stage = "poll"
    /\ shutdown => closer # "idle"
    /\ lateSwaps = 0 \/ (/\ lateSwaps = 1 /\ shutdown
                         /\ pc \in {"reason", "callback", "save", "sleep", "stopped"})

LEMMA StopStep == TypeInv /\ FlowInv /\ StopInv /\ [Next]_vars => StopInv'
  <1> SUFFICES ASSUME TypeInv, FlowInv, StopInv, [Next]_vars PROVE StopInv'
    OBVIOUS
  <1>0. TypeOK
    BY DEF TypeInv
  <1> USE DEF fixedVars, netVars, storeVars, workerVars, syncHistory, failVars
  <1>1. CASE WorkerStep
    <2>1. UNCHANGED <<closer, shutdown>> /\ (stage = "poll" => stage' = "poll")
      BY <1>0, <1>1, WorkerStage
      DEF WorkerStep, Boot, fetchConfigSpecsFromAdapter, SendRequest, Respond, setConfigSpecs,
          SetReason, RulesUpdated, saveConfigSpecsToAdapter, InitialSync, pollForRulesetChanges
    <2>2. CASE setConfigSpecs /\ locals.payload.updates
      BY <2>1, <2>2 DEF setConfigSpecs, HasUpdates, StopInv
    <2>3. CASE UNCHANGED lateSwaps
      <3>1. CASE lateSwaps = 0
        BY <2>1, <2>3, <3>1 DEF StopInv
      <3>2. CASE lateSwaps # 0
        <4>1. stage = "poll" /\ shutdown /\ pc \in {"reason", "callback", "save", "sleep", "stopped"}
          BY <3>2 DEF StopInv
        <4>2. pc' \in {"reason", "callback", "save", "sleep", "stopped"}
          BY <1>1, <4>1
          DEF WorkerStep, Boot, fetchConfigSpecsFromAdapter, SendRequest, Respond, setConfigSpecs,
              SetReason, AfterReason, RulesUpdated, saveConfigSpecsToAdapter, InitialSync,
              pollForRulesetChanges, Wake, Return
        <4>3. QED
          BY <2>1, <2>3, <4>1, <4>2 DEF StopInv
      <3>3. QED
        BY <3>1, <3>2
    <2>4. QED
      BY <2>2, <2>3, SwapOrKeep
  <1>2. CASE ~WorkerStep
    <2>1. UNCHANGED <<lateSwaps, pc, stage>> /\ (shutdown => shutdown')
      BY <1>2, OthersLeaveWorker
    <2>2. \/ UNCHANGED <<closer, shutdown>>
          \/ stage = "poll" /\ closer' # "idle" /\ UNCHANGED shutdown
          \/ closer # "idle" /\ closer' # "idle"
      BY <1>2 DEF Next, ReaderStep, getGate, eval, createEvaluationDetails, ShutdownAdapter,
                  stopPolling, Environment, Publish, NetworkChange, AdapterWrite, vars
    <2>3. QED
      BY <2>1, <2>2 DEF StopInv
  <1>3. QED
    BY <1>1, <1>2

(***************************************************************************)
(* Whatever the worker is doing when stopPolling runs, it replaces the     *)
(* specs at most once more.                                                *)
(***************************************************************************)
THEOREM OneSwapCorrect == Spec => []OneSwapAfterStop
  <1>1. Init => StopInv
    BY DEF Init, StopInv
  <1>2. StopInv => OneSwapAfterStop
    BY DEF StopInv, OneSwapAfterStop
  <1>3. QED
    BY TypeInit, TypeStep, FlowInit, FlowStep, StopStep, <1>1, <1>2, PTL DEF Spec

-----------------------------------------------------------------------------
(***************************************************************************)
(* Outages.  Of the failures that the count has seen, the silent ones are  *)
(* a part, and as many as are silent take no longer than syncOutdatedMax.  *)
(* The bound alone is not inductive: a count that lags behind the silent   *)
(* failures would let one more of them pass.                               *)
(***************************************************************************)
SilentInv == silent <= syncFailureCount /\ (silent = 0 \/ silent * Interval <= OutdatedMax)

LEMMA Product ==
    ASSUME NEW m \in Nat, NEW n \in Nat, NEW k \in Nat, m <= n PROVE m * k <= n * k
  OBVIOUS

LEMMA Quotient ==
    ASSUME NEW n \in Nat, NEW k \in Nat \ {0}, NEW m \in Nat, n * k <= m PROVE n <= m \div k
  OBVIOUS

LEMMA SilentStep == TypeInv /\ SilentInv /\ [Next]_vars => SilentInv'
  <1> SUFFICES ASSUME TypeInv, SilentInv, [Next]_vars PROVE SilentInv'
    OBVIOUS
  <1>0. syncFailureCount \in Nat /\ silent \in Nat
    BY DEF TypeInv, TypeOK
  <1> USE DEF fixedVars, netVars, storeVars, workerVars, syncHistory, failVars
  <1>1. CASE handleSyncError
    <2> DEFINE count == syncFailureCount + 1
    <2>1. CASE stage = "cold"
      BY <1>0, <1>1, <2>1 DEF handleSyncError, SilentInv
    <2>2. CASE stage # "cold" /\ Outdated(count)
      BY <1>1, <2>2 DEF handleSyncError, SilentInv
    <2>3. CASE stage # "cold" /\ ~Outdated(count)
      <3>1. syncFailureCount' = count /\ silent' = silent + 1
        BY <1>1, <2>3 DEF handleSyncError
      <3>2. silent + 1 <= count
        BY <1>0 DEF SilentInv
      <3>3. count * Interval <= OutdatedMax
        BY <1>0, <2>3, ConfigStoreAssumption DEF Outdated
      <3>4. (silent + 1) * Interval <= count * Interval
        <4>1. silent + 1 \in Nat /\ count \in Nat /\ Interval \in Nat
          BY <1>0, ConfigStoreAssumption
        <4> HIDE DEF count
        <4>2. QED
          BY <3>2, <4>1, Product
      <3>5. (silent + 1) * Interval <= OutdatedMax
        <4>1. (silent + 1) * Interval \in Nat /\ count * Interval \in Nat
          BY <1>0, ConfigStoreAssumption
        <4>2. QED
          BY <3>3, <3>4, <4>1, ConfigStoreAssumption
      <3>6. QED
        BY <3>1, <3>2, <3>5 DEF SilentInv
    <2>4. QED
      BY <2>1, <2>2, <2>3
  <1>2. CASE silent' = 0 /\ UNCHANGED syncFailureCount
    BY <1>0, <1>2 DEF SilentInv
  <1>3. CASE UNCHANGED failVars
    BY <1>3 DEF SilentInv
  <1>4. handleSyncError \/ (silent' = 0 /\ UNCHANGED syncFailureCount) \/ UNCHANGED failVars
    <2>1. CASE WorkerStep
      BY <2>1 DEF WorkerStep, Boot, fetchConfigSpecsFromAdapter, SendRequest, Respond,
                  setConfigSpecs, SetReason, RulesUpdated, saveConfigSpecsToAdapter, InitialSync,
                  pollForRulesetChanges
    <2>2. CASE ~WorkerStep
      BY <2>2, OthersLeaveWorker
    <2>3. QED
      BY <2>1, <2>2
  <1>5. QED
    BY <1>1, <1>2, <1>3, <1>4

(***************************************************************************)
(* For any interval and any syncOutdatedMax: no more than their quotient   *)
(* of failures in a row goes by without a message.                         *)
(***************************************************************************)
THEOREM OutageCorrect == Spec => []OutageNoticed
  <1>1. Init => SilentInv
    BY DEF Init, SilentInv
  <1>2. TypeInv /\ SilentInv => OutageNoticed
    <2> SUFFICES ASSUME TypeInv, SilentInv PROVE silent <= OutdatedMax \div Interval
      BY DEF OutageNoticed, Limit
    <2>1. silent \in Nat
      BY DEF TypeInv, TypeOK
    <2>2. silent * Interval <= OutdatedMax
      BY <2>1, ConfigStoreAssumption DEF SilentInv
    <2>3. QED
      BY <2>1, <2>2, ConfigStoreAssumption, Quotient
  <1>3. QED
    BY TypeInit, TypeStep, SilentStep, <1>1, <1>2, PTL DEF Spec

-----------------------------------------------------------------------------
(***************************************************************************)
(* Several lives of the process (module Restart): what was saved never     *)
(* gets older, and is served by the next life.                             *)
(***************************************************************************)
\* What is known of the store within one life.
LifeInv == TypeInv /\ ReasonInv /\ FlowInv /\ EmptyInv

LEMMA InitLife == Init => LifeInv
  BY TypeInit, FlowInit, EmptyInit DEF LifeInv, Init, ReasonInv, ReasonMatchesSpecs, SourceInHand

\* A new life begins as the first one did, but for the adapter's content.
LEMMA CrashLife == ASSUME LifeInv, Crash PROVE LifeInv'
  <1>0. TypeOK
    BY DEF LifeInv, TypeInv
  <1>1. specs' \in Specs
    BY ConfigStoreAssumption DEF Crash, Specs
  <1>2. locals' \in [sinceTime : 0..MaxTime, payload : Payloads, source : Sources]
    BY ConfigStoreAssumption DEF Crash, NoLocals, Payloads, Sources
  <1>3. reader' \in [Readers -> Reader]
    BY IdleReaderType DEF Crash
  <1>4. swapped' \in Seq(0..MaxTime) /\ called' \in Seq(0..MaxTime) /\ saves' \in Seq(0..MaxTime)
    BY DEF Crash
  <1>5. lastSyncTime' \in 0..MaxTime /\ initialSyncTime' \in 0..MaxTime
    BY ConfigStoreAssumption DEF Crash
  <1>6. UNCHANGED <<adapter, bootstrapValues, server, stored, serverTime, netUp>>
    BY DEF Crash, fixedVars, netVars
  <1>7. TypeInv'
    BY <1>0, <1>1, <1>2, <1>3, <1>4, <1>5, <1>6
    DEF Crash, TypeInv, TypeOK, PayloadInHand, PCs, Sources
  <1>8. ReasonInv'
    BY DEF Crash, ReasonInv, ReasonMatchesSpecs, SourceInHand
  <1>9. FlowInv'
    BY DEF Crash, FlowInv, Flow, Fresh, FirstPCs, ColdPCs, PollPCs
  <1>10. EmptyInv'
    BY DEF Crash, EmptyInv
  <1>11. QED
    BY <1>7, <1>8, <1>9, <1>10 DEF LifeInv

\* A step of RestartSpec is a crash, a step within a life, or a stutter.
LEMMA RestartCases ==
    ASSUME [RestartNext]_restartVars
    PROVE  Crash \/ (Next /\ Track) \/ UNCHANGED restartVars
  BY DEF RestartNext

LEMMA LifeStep == LifeInv /\ [RestartNext]_restartVars => LifeInv'
  <1> SUFFICES ASSUME LifeInv, [RestartNext]_restartVars PROVE LifeInv'
    OBVIOUS
  <1>1. CASE Crash
    BY <1>1, CrashLife
  <1>2. CASE [Next]_vars
    BY <1>2, TypeStep, ReasonStep, FlowStep, EmptyStep DEF LifeInv
  <1>3. QED
    BY <1>1, <1>2, RestartCases DEF restartVars

-----------------------------------------------------------------------------
(***************************************************************************)
(* Unless another process writes to it, the adapter holds Junk or an       *)
(* update.  If the server sends newer specs only, that was published by    *)
(* it, and is not newer than a network payload on its way from the answer  *)
(* to the adapter: that payload is the newest the server had.              *)
(***************************************************************************)
OnItsWay == pc \in {"process", "reason", "callback", "save"} /\ locals.source = "Network"

SavedInv ==
    adapter # "polling" =>
        /\ stored = Junk \/ stored.updates
        /\ server = "newer" => stored.time <= serverTime
        /\ server = "newer" /\ OnItsWay /\ locals.payload.updates =>
              stored.time <= locals.payload.time /\ locals.payload.time <= serverTime

\* Only the worker and, if it is polled, another process write to the adapter.
LEMMA WhoSaves ==
    ASSUME Next, adapter # "polling"
    PROVE  UNCHANGED stored \/ (\E p \in BOOLEAN : saveConfigSpecsToAdapter(p))
  BY DEF Next, WorkerStep, Boot, fetchConfigSpecsFromAdapter, SendRequest, Respond, setConfigSpecs,
         SetReason, RulesUpdated, InitialSync, pollForRulesetChanges, ReaderStep, getGate, eval,
         createEvaluationDetails, ShutdownAdapter, stopPolling, Environment, Publish,
         NetworkChange, AdapterWrite

\* Times published by the server only rise.
LEMMA ServerTimeRises ==
    ASSUME TypeOK, Next PROVE serverTime' >= serverTime
  <1>1. UNCHANGED serverTime \/ serverTime' = serverTime + 1
    BY DEF Next, WorkerStep, Boot, fetchConfigSpecsFromAdapter, SendRequest, Respond,
           setConfigSpecs, SetReason, RulesUpdated, saveConfigSpecsToAdapter, InitialSync,
           pollForRulesetChanges, ReaderStep, getGate, eval, createEvaluationDetails,
           ShutdownAdapter, stopPolling, Environment, Publish, NetworkChange, AdapterWrite, netVars
  <1>2. serverTime \in Nat
    BY ConfigStoreAssumption DEF TypeOK
  <1>3. QED
    BY <1>1, <1>2

\* A payload comes to be on its way from an answer of the server only.
LEMMA WhereFrom ==
    ASSUME LifeInv, Next, OnItsWay'
    PROVE  \/ OnItsWay /\ UNCHANGED locals
           \/ /\ locals'.payload \in ServerPayloads(locals.sinceTime)
              /\ UNCHANGED <<stored, serverTime>>
  <1>0. TypeOK
    BY DEF LifeInv, TypeInv
  <1> USE DEF fixedVars, netVars, storeVars, workerVars, syncHistory, failVars
  <1>1. CASE WorkerStep
    <2>1. ~Return
      BY <1>0, ReturnType DEF OnItsWay
    <2>2. CASE \E a \in Answers : \E p \in ServerPayloads(locals.sinceTime) : Respond(a, p)
      BY <1>0, <2>1, <2>2 DEF Respond, TypeOK
    <2>3. CASE ~\E a \in Answers : \E p \in ServerPayloads(locals.sinceTime) : Respond(a, p)
      BY <1>0, <1>1, <2>1, <2>3
      DEF WorkerStep, Boot, fetchConfigSpecsFromAdapter, SendRequest, setConfigSpecs, SetReason,
          AfterReason, RulesUpdated, saveConfigSpecsToAdapter, InitialSync, pollForRulesetChanges,
          Wake, Poll, OnItsWay, TypeOK
    <2>4. QED
      BY <2>2, <2>3
  <1>2. CASE ~WorkerStep
    BY <1>2, OthersLeaveWorker DEF OnItsWay
  <1>3. QED
    BY <1>1, <1>2

\* The adapter is given with the options and never replaced, and the server
\* stays of its kind.
LEMMA SameAdapter == ASSUME LifeInv, [RestartNext]_restartVars PROVE UNCHANGED <<adapter, server>>
  <1>1. CASE Crash
    BY <1>1 DEF Crash, fixedVars
  <1>2. CASE UNCHANGED restartVars
    BY <1>2 DEF restartVars, vars, fixedVars
  <1>3. CASE Next
    BY <1>3, OthersLeaveWorker, WorkerStage DEF LifeInv, TypeInv
  <1>4. QED
    BY <1>1, <1>2, <1>3, RestartCases

LEMMA SavedStep ==
    LifeInv /\ SavedInv /\ [RestartNext]_restartVars =>
        SavedInv' /\ (adapter # "polling" /\ server = "newer" => stored'.time >= stored.time)
  <1> SUFFICES ASSUME LifeInv, SavedInv, [RestartNext]_restartVars, adapter # "polling"
               PROVE  SavedInv' /\ (server = "newer" => stored'.time >= stored.time)
    BY SameAdapter DEF SavedInv
  <1>s. UNCHANGED <<adapter, server>>
    BY SameAdapter
  <1>0. TypeOK /\ TypeOK'
    BY LifeStep DEF LifeInv, TypeInv
  <1>1. /\ stored.time \in Int /\ stored'.time \in Int
        /\ serverTime \in Int /\ serverTime' \in Int
    BY <1>0, ConfigStoreAssumption, PayloadFields DEF TypeOK
  <1>2. CASE Crash
    <2>1. UNCHANGED <<stored, serverTime>> /\ ~OnItsWay'
      BY <1>2 DEF Crash, netVars, OnItsWay
    <2>2. QED
      BY <1>s, <1>1, <2>1 DEF SavedInv
  <1>3. CASE UNCHANGED restartVars
    BY <1>1, <1>3 DEF restartVars, vars, fixedVars, netVars, workerVars, SavedInv, OnItsWay
  <1>4. CASE Next
    <2>1. serverTime' >= serverTime
      BY <1>0, <1>4, ServerTimeRises
    <2>2. CASE \E p \in BOOLEAN : saveConfigSpecsToAdapter(p)
      <3>1. /\ pc = "save" /\ stored' \in {stored, locals.payload} /\ ~OnItsWay'
            /\ UNCHANGED serverTime
        BY <1>0, <2>2, ReturnType DEF saveConfigSpecsToAdapter, netVars, OnItsWay
      <3>2. locals.payload.updates /\ OnItsWay
        BY <3>1 DEF LifeInv, TypeInv, PayloadInHand, FlowInv, Flow, OnItsWay
      <3>3. QED
        BY <1>s, <1>1, <3>1, <3>2 DEF SavedInv
    <2>3. CASE UNCHANGED stored
      <3>1. ASSUME OnItsWay', locals'.payload.updates, server = "newer"
            PROVE  stored.time <= locals'.payload.time /\ locals'.payload.time <= serverTime'
        <4>1. CASE OnItsWay /\ UNCHANGED locals
          <5>1. locals.payload.time \in Int
            BY <1>0, PayloadFields DEF TypeOK
          <5>2. QED
            BY <1>1, <2>1, <3>1, <4>1, <5>1 DEF SavedInv
        <4>2. CASE locals'.payload \in ServerPayloads(locals.sinceTime) /\ UNCHANGED serverTime
          BY <1>1, <3>1, <4>2 DEF ServerPayloads, SavedInv
        <4>3. QED
          BY <1>4, <3>1, <4>1, <4>2, WhereFrom
      <3>2. QED
        BY <1>s, <1>1, <2>1, <2>3, <3>1 DEF SavedInv
    <2>4. QED
      BY <1>4, <2>2, <2>3, WhoSaves
  <1>5. QED
    BY <1>2, <1>3, <1>4, RestartCases

LEMMA SavedInit == RestartInit => LifeInv /\ SavedInv
  <1> SUFFICES ASSUME RestartInit PROVE LifeInv /\ SavedInv
    OBVIOUS
  <1>1. LifeInv
    BY InitLife DEF RestartInit
  <1>2. SavedInv
    BY ConfigStoreAssumption DEF RestartInit, Init, SavedInv, OnItsWay
  <1>3. QED
    BY <1>1, <1>2

(***************************************************************************)
(* For any number of crashes between any two steps, any bootstrap values   *)
(* and any panics of the adapter: unless another process writes to it, the *)
(* adapter's copy of a server that sends newer specs only never gets older.*)
(***************************************************************************)
THEOREM SavedCorrect == RestartSpec /\ adapter # "polling" => SavedNeverOlder
  <1> DEFINE Own == adapter # "polling"
  <1>1. LifeInv /\ SavedInv /\ Own /\ [RestartNext]_restartVars =>
            SavedInv' /\ Own' /\ [server = "newer" => stored'.time >= stored.time]_restartVars
    BY SavedStep, SameAdapter
  <1>2. QED
    BY SavedInit, LifeStep, <1>1, PTL DEF RestartSpec, SavedNeverOlder

-----------------------------------------------------------------------------
(***************************************************************************)
(* A life begins with what the adapter held then.  Until the first Get has *)
(* been processed nothing is saved, and afterwards the store is at least   *)
(* as new, since times only rise: the constructor asks the network when it *)
(* has nothing, the poller for what is newer, and gets it or nothing.      *)
(***************************************************************************)
Loaded == stage # "first" \/ pc \in {"reason", "initialSync"}

LoadInv ==
    adapter = "backup" /\ server = "newer" =>
        /\ atStart = Junk \/ atStart.updates
        /\ atStart \in Payloads
        /\ ~Loaded => stored = atStart
        /\ stage = "first" /\ pc = "process" => locals.payload = stored
        /\ Loaded /\ ~missed => specs.time >= atStart.time

\* Of SavedInv this needs that the adapter holds Junk or a payload with
\* updates: any other payload would be no load, however new.
LEMMA LoadStep == LifeInv /\ SavedInv /\ LoadInv /\ [RestartNext]_restartVars => LoadInv'
  <1> SUFFICES ASSUME LifeInv, SavedInv, LoadInv, [RestartNext]_restartVars, adapter' = "backup",
                      server' = "newer"
               PROVE  /\ atStart' = Junk \/ atStart'.updates
                      /\ atStart' \in Payloads
                      /\ ~Loaded' => stored' = atStart'
                      /\ stage' = "first" /\ pc' = "process" => locals'.payload = stored'
                      /\ Loaded' /\ ~missed' => specs'.time >= atStart'.time
    BY DEF LoadInv
  <1>0. TypeOK /\ TypeOK'
    BY LifeStep DEF LifeInv, TypeInv
  <1>1. CASE Crash
    BY <1>0, <1>1, SameAdapter DEF Crash, SavedInv, Loaded, TypeOK
  <1>2. CASE UNCHANGED restartVars
    BY <1>2 DEF restartVars, vars, fixedVars, storeVars, workerVars, LoadInv, Loaded
  <1>3. CASE Next /\ Track
    <2>1. UNCHANGED <<adapter, server, atStart>>
      BY <1>3, SameAdapter DEF Track
    <2>2. /\ atStart = Junk \/ atStart.updates
          /\ atStart \in Payloads
          /\ ~Loaded => stored = atStart
          /\ stage = "first" /\ pc = "process" => locals.payload = stored
          /\ Loaded /\ ~missed => specs.time >= atStart.time
      BY <2>1 DEF LoadInv
    <2>3. /\ atStart.time \in Int /\ specs.time \in Int /\ specs'.time \in Int
          /\ specs.time >= 0 /\ specs'.time >= 0
      <3>1. specs \in Specs /\ specs' \in Specs
        BY <1>0 DEF TypeOK
      <3>2. atStart \in Payloads
        BY <2>2
      <3>3. QED
        BY <3>1, <3>2, ConfigStoreAssumption DEF Payloads, Specs
    <2>4. CASE WorkerStep
      <3>1. (stage' = "first" => stage = "first") /\ (missed => missed')
        BY <1>3, <2>4
        DEF WorkerStep, Boot, fetchConfigSpecsFromAdapter, SendRequest, Respond, setConfigSpecs,
            SetReason, AfterReason, RulesUpdated, saveConfigSpecsToAdapter, InitialSync,
            pollForRulesetChanges, Return, Track
      <3>2. CASE Loaded
        <4>1. Loaded'
          BY <1>0, <2>4, <3>2
          DEF WorkerStep, Boot, fetchConfigSpecsFromAdapter, SendRequest, Respond, setConfigSpecs,
              SetReason, AfterReason, RulesUpdated, saveConfigSpecsToAdapter, InitialSync,
              pollForRulesetChanges, Return, Loaded, TypeOK, LifeInv, FlowInv, Flow, ColdPCs,
              PollPCs
        <4>2. stage' = "first" => pc' # "process"
          BY <4>1 DEF Loaded
        <4>3. specs'.time >= specs.time
          <5>1. CASE UNCHANGED specs
            BY <2>3, <5>1
          <5>2. CASE setConfigSpecs /\ locals.payload.updates
            <6>1. stage # "first" /\ pc = "process"
              BY <3>2, <5>2 DEF setConfigSpecs, Loaded
            <6>2. locals.source = "Network"
              BY <1>0, <2>1, <6>1 DEF LifeInv, FlowInv, Flow, TypeOK
            <6>3. locals.payload.time > specs.time
              BY <2>1, <5>2, <6>1, <6>2 DEF LifeInv, FlowInv, Fresh, ReasonInv, ReasonMatchesSpecs
            <6>4. specs'.time = locals.payload.time
              BY <5>2 DEF setConfigSpecs, HasUpdates
            <6>5. QED
              BY <2>3, <6>3, <6>4
          <5>3. QED
            BY <1>3, <5>1, <5>2, SwapOrKeep
        <4>4. QED
          BY <2>1, <2>2, <2>3, <3>1, <3>2, <4>1, <4>2, <4>3
      <3>3. CASE ~Loaded
        <4>1. stage = "first" /\ pc \in {"boot", "adapterGet", "process"} /\ stored = atStart
          BY <1>0, <2>2, <3>3 DEF Loaded, LifeInv, FlowInv, Flow, FirstPCs
        <4>2. CASE pc = "boot"
          <5>1. pc' = "adapterGet" /\ UNCHANGED <<stage, stored>>
            BY <1>0, <2>1, <2>4, <4>2
            DEF WorkerStep, Boot, fetchConfigSpecsFromAdapter, SendRequest, Respond, setConfigSpecs,
                SetReason, RulesUpdated, saveConfigSpecsToAdapter, InitialSync,
                pollForRulesetChanges
          <5>2. QED
            BY <2>1, <2>2, <4>1, <5>1 DEF Loaded
        <4>3. CASE pc = "adapterGet"
          <5>1. PICK p \in BOOLEAN : fetchConfigSpecsFromAdapter(p)
            BY <2>4, <4>3
            DEF WorkerStep, Boot, SendRequest, Respond, setConfigSpecs, SetReason, RulesUpdated,
                saveConfigSpecsToAdapter, InitialSync, pollForRulesetChanges
          <5>2. CASE p
            <6>1. Return /\ UNCHANGED stored
              BY <5>1, <5>2 DEF fetchConfigSpecsFromAdapter
            <6>2. pc' \in {"request", "initialSync"} /\ missed' /\ Loaded'
              BY <1>3, <4>1, <4>3, <6>1 DEF Return, Track, Loaded
            <6>3. QED
              BY <2>1, <2>2, <6>1, <6>2
          <5>3. CASE ~p
            <6>1. /\ pc' = "process" /\ UNCHANGED <<stage, stored>>
                  /\ locals' = [locals EXCEPT !.payload = stored, !.source = "DataAdapter"]
              BY <5>1, <5>3 DEF fetchConfigSpecsFromAdapter
            <6>2. locals'.payload = stored
              BY <1>0, <6>1 DEF TypeOK
            <6>3. QED
              BY <2>1, <2>2, <4>1, <6>1, <6>2 DEF Loaded
          <5>4. QED
            BY <5>2, <5>3
        <4>4. CASE pc = "process"
          <5>1. setConfigSpecs
            BY <2>4, <4>4
            DEF WorkerStep, Boot, fetchConfigSpecsFromAdapter, SendRequest, Respond, SetReason,
                RulesUpdated, saveConfigSpecsToAdapter, InitialSync, pollForRulesetChanges
          <5>2. UNCHANGED stored /\ locals.payload = atStart
            BY <2>2, <4>1, <4>4, <5>1 DEF setConfigSpecs
          <5>3. CASE atStart.updates
            <6>1. pc' = "reason" /\ UNCHANGED stage /\ specs'.time = atStart.time
              BY <5>1, <5>2, <5>3 DEF setConfigSpecs, HasUpdates
            <6>2. QED
              BY <2>1, <2>2, <2>3, <6>1 DEF Loaded
          <5>4. CASE ~atStart.updates
            <6>1. Return
              BY <5>1, <5>2, <5>4 DEF setConfigSpecs, HasUpdates
            <6>2. Loaded' /\ pc' # "process"
              BY <4>1, <6>1 DEF Return, Loaded
            <6>3. atStart.time = -1
              BY <2>2, <5>4
            <6>4. QED
              BY <2>1, <2>2, <2>3, <6>2, <6>3
          <5>5. QED
            BY <5>3, <5>4
        <4>5. QED
          BY <4>1, <4>2, <4>3, <4>4
      <3>4. QED
        BY <3>2, <3>3
    <2>5. CASE ~WorkerStep
      <3>1. UNCHANGED <<specs, stage, pc, locals>>
        BY <1>3, <2>5, OthersLeaveWorker DEF storeVars, workerVars
      <3>2. UNCHANGED stored
        BY <2>1, <1>3, <2>5, WhoSaves DEF WorkerStep
      <3>3. missed => missed'
        BY <1>3 DEF Track
      <3>4. QED
        BY <2>1, <2>2, <3>1, <3>2, <3>3 DEF Loaded
    <2>6. QED
      BY <2>4, <2>5
  <1>4. QED
    BY <1>1, <1>2, <1>3, RestartCases

(***************************************************************************)
(* For any number of crashes: a life whose first Get did not panic serves, *)
(* once its constructor has returned, nothing older than what the adapter  *)
(* held when it began, if the server sends newer specs only.               *)
(***************************************************************************)
THEOREM RestartServesCorrect == RestartSpec => []RestartServesSaved
  <1>1. RestartInit => LoadInv
    BY DEF RestartInit, Init, LoadInv, Loaded, Payloads
  <1>2. LoadInv => RestartServesSaved
    BY DEF LoadInv, Loaded, RestartServesSaved
  <1>3. LifeInv /\ SavedInv /\ [RestartNext]_restartVars => SavedInv'
    BY SavedStep
  <1>4. LifeInv /\ SavedInv /\ LoadInv /\ [RestartNext]_restartVars => LoadInv'
    BY LoadStep
  <1>5. QED
    BY SavedInit, LifeStep, <1>1, <1>2, <1>3, <1>4, PTL DEF RestartSpec
=============================================================================
