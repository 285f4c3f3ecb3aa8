------------------------------ MODULE IDLists ------------------------------
(***************************************************************************)
(* store.go, ID lists: syncIDLists with its download goroutines, and the   *)
(* poller that calls it.                                                   *)
(*                                                                         *)
(* The server keeps, for each list name, a current file; a file is a log   *)
(* of "+id" and "-id" lines that only grows.  A sync asks for the index,   *)
(* walks its entries, starts one goroutine per file that has grown, waits  *)
(* for them all and drops the lists that the index does not name.  Syncs   *)
(* follow one another (the constructor's, then the poller's), so a name    *)
(* has at most one download, and the *idList it works on is the one in the *)
(* map unless it deletes that itself.                                      *)
(*                                                                         *)
(* Sizes count lines instead of bytes.  The CDN honours the Range header.  *)
(* Markers and the error boundary's reports are left out.                  *)
(***************************************************************************)
EXTENDS Integers, Sequences, Transport

CONSTANTS
    Names,          \* names of ID lists
    Files,          \* file IDs
    Ids,            \* members of lists, hashed
    NoFile,         \* the empty FileID; of a name without a list on the server
    Created,        \* CreationTime of each file
    MaxLines,       \* bound: lines of a file
    MaxChanges      \* bound: times the server makes another file current

ASSUME IDListsAssumption ==
    /\ NoFile \notin Files
    /\ Created \in [Files -> Nat \ {0}]
    /\ MaxLines \in Nat /\ MaxChanges \in Nat

Lines == [op : {"+", "-", "other"}, id : Ids]

\* CreationTime of an idList; that of a new one is 0.
CreationTime(f) == IF f = NoFile THEN 0 ELSE Created[f]

\* An entry of s.idLists.  isNil: its ids map is a nil pointer.
List    == [file : Files \cup {NoFile}, size : Nat, isNil : BOOLEAN, ids : SUBSET Ids]
NoList  == [file |-> NoFile, size |-> -1, isNil |-> TRUE, ids |-> {}]
NewList == [file |-> NoFile, size |-> 0, isNil |-> TRUE, ids |-> {}]

\* An entry of the index; valid: neither URL nor FileID is empty.
Entry   == [file : Files, size : Nat, valid : BOOLEAN]
NoEntry == [file |-> NoFile, size |-> 0, valid |-> FALSE]

\* A download goroutine: the lines at+1 .. upto are still to be applied.
Job   == [state : {"get", "apply"}, at : Nat, upto : Nat]
NoJob == [state |-> "none", at |-> 0, upto |-> 0]

VARIABLES
    content,    \* server: lines of each file
    current,    \* server: current file of each name
    changes,    \* server: files made current so far
    netUp,      \* requests succeed and answers are sound
    lists,      \* s.idLists
    shutdown,   \* s.shutdown
    pc,         \* of the goroutine in syncIDLists
    index,      \* serverLists
    todo,       \* entries of serverLists not visited yet
    name,       \* the entry being visited
    job         \* the download goroutine of each name

serverVars == <<content, current, changes, netUp>>
syncVars   == <<pc, index, todo, name>>
vars == <<serverVars, syncVars, lists, shutdown, job>>

TypeOK ==
    /\ content \in [Files -> Seq(Lines)]
    /\ current \in [Names -> Files \cup {NoFile}]
    /\ changes \in Nat
    /\ netUp \in BOOLEAN
    /\ lists \in [Names -> List \cup {NoList}]
    /\ shutdown \in BOOLEAN
    /\ pc \in {"request", "range", "visit", "wait", "sleep", "stopped"}
    /\ index \in [Names -> Entry \cup {NoEntry}]
    /\ todo \in SUBSET Names
    /\ name \in Names
    /\ job \in [Names -> Job \cup {NoJob}]

\* newStoreInternal calls syncIDLists before it starts the poller.
Init ==
    /\ content = [f \in Files |-> <<>>]
    /\ current = [n \in Names |-> NoFile]
    /\ changes = 0
    /\ netUp \in BOOLEAN
    /\ lists = [n \in Names |-> NoList]
    /\ shutdown = FALSE
    /\ pc = "request"
    /\ index = [n \in Names |-> NoEntry]
    /\ todo = {}
    /\ name \in Names
    /\ job = [n \in Names |-> NoJob]

-----------------------------------------------------------------------------
(***************************************************************************)
(* syncIDLists.                                                            *)
(***************************************************************************)
Listed(ix) == {n \in Names : ix[n] # NoEntry}

\* What the server may answer: every name with a current file, each entry
\* sound or without a URL or a FileID.
Index(bad) ==
    [n \in Names |-> IF current[n] = NoFile THEN NoEntry
                     ELSE [file |-> current[n], size |-> Len(content[current[n]]),
                           valid |-> n \notin bad]]

\* postRequest("/get_id_lists"): a failed request ends the sync.
GetIndex(a, bad) ==
    /\ pc = "request"
    /\ netUp => a.kind = "status" /\ Success(a.code) /\ a.decodes /\ bad = {}
    /\ IF Failed(Attempt(postRequestInternal(NewRequest(0), FALSE, TRUE), a))
       THEN pc' = "sleep" /\ UNCHANGED <<index, todo>>
       ELSE /\ pc' = "range"
            /\ index' = Index(bad)
            /\ todo' = Listed(Index(bad))
    /\ UNCHANGED <<serverVars, name, lists, shutdown, job>>

\* The head of the loop: getIDList, and setIDList of an empty one.
VisitEntry(n) ==
    /\ pc = "range"
    /\ n \in todo
    /\ name' = n
    /\ todo' = todo \ {n}
    /\ lists' = IF lists[n] = NoList THEN [lists EXCEPT ![n] = NewList] ELSE lists
    /\ pc' = "visit"
    /\ UNCHANGED <<serverVars, index, shutdown, job>>

\* Mutant: the CreationTime of the list is not looked at.
SkipsInvalid(e, l) == ~e.valid

\* An entry without URL or FileID, or of an older file, is passed over.
Skips(e, l) == ~e.valid \/ CreationTime(e.file) < CreationTime(l.file)

\* Mutant: the ids of the old file stay.
ResetKeepingIds(e, l) == [file |-> e.file, size |-> 0, isNil |-> FALSE, ids |-> l.ids]

\* The list l starts again from the beginning of another file.
Reset(e, l) == [file |-> e.file, size |-> 0, isNil |-> FALSE, ids |-> {}]

\* The rest of its body: skip an invalid or older entry, reset the list for
\* a newer file, start a download when the file is longer than the list.
SyncEntry ==
    LET e     == index[name]
        l     == lists[name]
        reset == e.file # l.file
        size  == IF reset THEN 0 ELSE l.size
    IN
    /\ pc = "visit"
    /\ pc' = "range"
    /\ IF Skips(e, l)
       THEN UNCHANGED <<lists, job>>
       ELSE /\ lists' = IF reset THEN [lists EXCEPT ![name] = Reset(e, l)] ELSE lists
            /\ job' = IF e.size > size
                      THEN [job EXCEPT ![name] = [state |-> "get", at |-> size, upto |-> size]]
                      ELSE job
    /\ UNCHANGED <<serverVars, index, todo, name, shutdown>>

\* The loop is over; wg.Wait() begins.
EndRange ==
    /\ pc = "range" /\ todo = {}
    /\ pc' = "wait"
    /\ UNCHANGED <<serverVars, index, todo, name, lists, shutdown, job>>

\* Mutant: lists that the index does not name stay.
PruneNothing ==
    /\ pc = "wait"
    /\ \A n \in Names : job[n] = NoJob
    /\ pc' = "sleep"
    /\ UNCHANGED <<serverVars, index, todo, name, lists, shutdown, job>>

\* Every goroutine is done: delete the lists the index does not name.
Prune ==
    /\ pc = "wait"
    /\ \A n \in Names : job[n] = NoJob
    /\ lists' = [n \in Names |-> IF index[n] = NoEntry THEN NoList ELSE lists[n]]
    /\ pc' = "sleep"
    /\ UNCHANGED <<serverVars, index, todo, name, shutdown, job>>

-----------------------------------------------------------------------------
(***************************************************************************)
(* The download goroutine of list n.                                       *)
(***************************************************************************)
Done(n) == job' = [job EXCEPT ![n] = NoJob]

\* No response, no positive content-length, or a body that breaks off.
GetFails(n) ==
    /\ job[n].state = "get" /\ ~netUp
    /\ Done(n)
    /\ UNCHANGED <<serverVars, syncVars, lists, shutdown>>

\* A body that is too short or does not begin with an operation: the list
\* is deleted.  An answer that is no file at all can do that too, since the
\* status is not looked at.
GetCorrupt(n) ==
    /\ job[n].state = "get"
    /\ LET c == content[lists[n].file] IN
         netUp => job[n].at < Len(c) /\ c[job[n].at + 1].op = "other"
    /\ Done(n)
    /\ lists' = [lists EXCEPT ![n] = NoList]
    /\ UNCHANGED <<serverVars, syncVars, shutdown>>

\* The lines from the list's size to the present end of the file.
GetBody(n) ==
    LET c == content[lists[n].file] IN
    /\ job[n].state = "get"
    /\ job[n].at < Len(c)
    /\ c[job[n].at + 1].op # "other"
    /\ job' = [job EXCEPT ![n] = [@ EXCEPT !.state = "apply", !.upto = Len(c)]]
    /\ UNCHANGED <<serverVars, syncVars, lists, shutdown>>

\* The ids after one more line.
Apply(ids, line) ==
    CASE line.op = "+"     -> ids \cup {line.id}
      [] line.op = "-"     -> ids \ {line.id}
      [] line.op = "other" -> ids

\* One turn of the loop over the lines; readers see every turn.
ApplyLine(n) ==
    /\ job[n].state = "apply" /\ job[n].at < job[n].upto
    /\ lists' = [lists EXCEPT ![n].ids = Apply(@, content[lists[n].file][job[n].at + 1])]
    /\ job' = [job EXCEPT ![n].at = @ + 1]
    /\ UNCHANGED <<serverVars, syncVars, shutdown>>

\* atomic.AddInt64(&l.Size, length)
AddSize(n) ==
    /\ job[n].state = "apply" /\ job[n].at = job[n].upto
    /\ lists' = [lists EXCEPT ![n].size = job[n].upto]
    /\ Done(n)
    /\ UNCHANGED <<serverVars, syncVars, shutdown>>

-----------------------------------------------------------------------------
\* Mutant: the poller does not look at s.shutdown.
pollForIDListChangesForEver ==
    /\ pc = "sleep"
    /\ pc' = "request"
    /\ UNCHANGED <<serverVars, index, todo, name, lists, shutdown, job>>

\* pollForIDListChanges after its sleep.
pollForIDListChanges ==
    /\ pc = "sleep"
    /\ pc' = IF shutdown THEN "stopped" ELSE "request"
    /\ UNCHANGED <<serverVars, index, todo, name, lists, shutdown, job>>

stopPolling ==
    /\ ~shutdown
    /\ shutdown' = TRUE
    /\ UNCHANGED <<serverVars, syncVars, lists, job>>

(***************************************************************************)
(* The server: a file grows by a line; a name gets a file, an older one    *)
(* too (a replica that lags behind), or loses its list.                    *)
(***************************************************************************)
AppendLine(f, line) ==
    /\ Len(content[f]) < MaxLines
    /\ content' = [content EXCEPT ![f] = Append(@, line)]
    /\ UNCHANGED <<current, changes, netUp, syncVars, lists, shutdown, job>>

MakeCurrent(n, f) ==
    /\ changes < MaxChanges /\ current[n] # f
    /\ \A m \in Names \ {n} : f # NoFile => current[m] # f
    /\ current' = [current EXCEPT ![n] = f]
    /\ changes' = changes + 1
    /\ UNCHANGED <<content, netUp, syncVars, lists, shutdown, job>>

NetworkChange ==
    /\ netUp' = ~netUp
    /\ UNCHANGED <<content, current, changes, syncVars, lists, shutdown, job>>

SyncStep ==
    \/ \E a \in Answers, bad \in SUBSET Names : GetIndex(a, bad)
    \/ \E n \in Names : VisitEntry(n)
    \/ SyncEntry
    \/ EndRange
    \/ Prune
    \/ pollForIDListChanges

JobStep(n) == GetFails(n) \/ GetCorrupt(n) \/ GetBody(n) \/ ApplyLine(n) \/ AddSize(n)

ServerStep ==
    \/ \E f \in Files, line \in Lines : AppendLine(f, line)
    \/ \E n \in Names, f \in Files \cup {NoFile} : MakeCurrent(n, f)
    \/ NetworkChange

Next == SyncStep \/ (\E n \in Names : JobStep(n)) \/ stopPolling \/ ServerStep

Spec == Init /\ [][Next]_vars

\* The runtime schedules the poller and the goroutines; requests end.
FairSpec == Spec /\ WF_vars(SyncStep) /\ \A n \in Names : WF_vars(JobStep(n))

-----------------------------------------------------------------------------
(***************************************************************************)
(* Properties.                                                             *)
(***************************************************************************)
\* What the first k lines c of a file say: an id is a member when a line
\* adds it and no later one removes it.
Members(c, k) ==
    {x \in Ids : \E i \in 1..k : /\ c[i] = [op |-> "+", id |-> x]
                                 /\ \A j \in (i + 1)..k : c[j] # [op |-> "-", id |-> x]}

\* Lines of its file that list n reflects.
Reflected(n) == IF job[n].state = "apply" THEN job[n].at ELSE lists[n].size

(***************************************************************************)
(* However syncs, failed downloads, growing and changing files interleave, *)
(* a list always holds what a prefix of its own file says, as long as the  *)
(* list's size plus the lines applied since: no line is skipped, applied   *)
(* twice, or taken from another file.                                      *)
(***************************************************************************)
ListReplaysFile ==
    \A n \in Names : ~lists[n].isNil =>
        /\ lists[n].file \in Files
        /\ Reflected(n) <= Len(content[lists[n].file])
        /\ lists[n].ids = Members(content[lists[n].file], Reflected(n))

(***************************************************************************)
(* A download works on a list that is there and no goroutine outlives its  *)
(* sync, so two downloads never work on one list (wg.Wait).                *)
(***************************************************************************)
DownloadsWithinSync ==
    \A n \in Names : job[n] # NoJob =>
        pc \in {"range", "visit", "wait"} /\ n \notin todo /\ ~lists[n].isNil

(***************************************************************************)
(* "list_1 should NOT have changed ... because response was pointing to    *)
(* the older url" (store_test.go:199): a list that was not deleted         *)
(* meanwhile never goes over to an older file.                             *)
(***************************************************************************)
NoOlderFile ==
    [][\A n \in Names : lists[n] # NoList /\ lists'[n] # NoList
          => CreationTime(lists'[n].file) >= CreationTime(lists[n].file)]_vars

(***************************************************************************)
(* While requests succeed from some time on and nobody calls Shutdown,     *)
(* every list of the server is there in the end, from a file at least as   *)
(* new as the current one, complete when it is the current one, and lists  *)
(* that the server dropped are gone.  Files with a corrupt line aside.     *)
(***************************************************************************)
Clean == \A f \in Files : \A i \in DOMAIN content[f] : content[f][i].op # "other"

Synced(n) ==
    IF current[n] = NoFile THEN lists[n] = NoList
    ELSE /\ CreationTime(lists[n].file) >= CreationTime(current[n])
         /\ lists[n].file = current[n] =>
               lists[n].ids = Members(content[current[n]], Len(content[current[n]]))

Converges == (<>[]netUp /\ []Clean /\ []~shutdown) => <>[](\A n \in Names : Synced(n))

\* Once stopPolling has run the poller stops, with no download under way.
PollerStops == shutdown ~> (pc = "stopped" /\ \A n \in Names : job[n] = NoJob)
=============================================================================
