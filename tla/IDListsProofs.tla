--------------------------- MODULE IDListsProofs ---------------------------
(***************************************************************************)
(* Proofs about the ID lists, for any names, files and ids and without the *)
(* bounds: a list always holds what a prefix of its file says.             *)
(***************************************************************************)
EXTENDS IDLists, TLAPS

\* One more line of a file: what syncIDLists does with it is what the
\* reference Members says.
LEMMA MembersStep ==
    ASSUME NEW c \in Seq(Lines), NEW k \in Nat, k < Len(c)
    PROVE  Members(c, k + 1) = Apply(Members(c, k), c[k + 1])
  <1> DEFINE line == c[k + 1]
  <1>0. line \in Lines
    OBVIOUS
  <1>1. ASSUME NEW x \in Ids
        PROVE  x \in Members(c, k + 1) <=>
                  \/ line = [op |-> "+", id |-> x]
                  \/ x \in Members(c, k) /\ line # [op |-> "-", id |-> x]
    <2>1. ASSUME line = [op |-> "+", id |-> x] PROVE x \in Members(c, k + 1)
      <3>1. k + 1 \in 1..(k + 1) /\ \A j \in (k + 1 + 1)..(k + 1) : FALSE
        OBVIOUS
      <3>2. QED
        BY <2>1, <3>1 DEF Members
    <2>2. ASSUME x \in Members(c, k), line # [op |-> "-", id |-> x] PROVE x \in Members(c, k + 1)
      <3>1. PICK i \in 1..k : /\ c[i] = [op |-> "+", id |-> x]
                              /\ \A j \in (i + 1)..k : c[j] # [op |-> "-", id |-> x]
        BY <2>2 DEF Members
      <3>2. i \in 1..(k + 1) /\ \A j \in (i + 1)..(k + 1) : j \in (i + 1)..k \/ j = k + 1
        OBVIOUS
      <3>3. \A j \in (i + 1)..(k + 1) : c[j] # [op |-> "-", id |-> x]
        BY <2>2, <3>1, <3>2
      <3>4. QED
        BY <3>1, <3>2, <3>3 DEF Members
    <2>3. ASSUME x \in Members(c, k + 1), line # [op |-> "+", id |-> x]
          PROVE  x \in Members(c, k) /\ line # [op |-> "-", id |-> x]
      <3>1. PICK i \in 1..(k + 1) : /\ c[i] = [op |-> "+", id |-> x]
                                    /\ \A j \in (i + 1)..(k + 1) : c[j] # [op |-> "-", id |-> x]
        BY <2>3 DEF Members
      <3>2. i \in 1..k
        BY <2>3, <3>1
      <3>3. k + 1 \in (i + 1)..(k + 1) /\ \A j \in (i + 1)..k : j \in (i + 1)..(k + 1)
        BY <3>2
      <3>4. QED
        BY <3>1, <3>2, <3>3 DEF Members
    <2>4. QED
      BY <2>1, <2>2, <2>3
  <1>2. Members(c, k + 1) \subseteq Ids /\ Members(c, k) \subseteq Ids
    BY DEF Members
  <1>3. line.op \in {"+", "-", "other"} /\ line.id \in Ids
        /\ line = [op |-> line.op, id |-> line.id]
    BY <1>0 DEF Lines
  <1> HIDE DEF line
  <1>4. ASSUME NEW x \in Ids
        PROVE  /\ line = [op |-> "+", id |-> x] <=> line.op = "+" /\ line.id = x
               /\ line = [op |-> "-", id |-> x] <=> line.op = "-" /\ line.id = x
    BY <1>3
  <1>5. Apply(Members(c, k), line) \subseteq Ids
    BY <1>2, <1>3 DEF Apply
  <1>6. ASSUME NEW x \in Ids
        PROVE  x \in Members(c, k + 1) <=> x \in Apply(Members(c, k), line)
    <2>1. x \in Members(c, k + 1) <=> \/ line.op = "+" /\ line.id = x
                                      \/ x \in Members(c, k) /\ ~(line.op = "-" /\ line.id = x)
      BY <1>1, <1>4
    <2>2. CASE line.op = "+"
      BY <2>1, <2>2 DEF Apply
    <2>3. CASE line.op = "-"
      BY <2>1, <2>3 DEF Apply
    <2>4. CASE line.op = "other"
      BY <2>1, <2>4 DEF Apply
    <2>5. QED
      BY <1>3, <2>2, <2>3, <2>4
  <1>7. Members(c, k + 1) = Apply(Members(c, k), line)
    BY <1>2, <1>5, <1>6
  <1>8. QED
    BY <1>7 DEF line

\* A file that grows says the same about the lines it had.
LEMMA MembersAppend ==
    ASSUME NEW c \in Seq(Lines), NEW x \in Lines, NEW k \in 0..Len(c)
    PROVE  Members(Append(c, x), k) = Members(c, k)
  <1>1. \A i \in 1..k : Append(c, x)[i] = c[i]
    OBVIOUS
  <1>2. \A i \in 1..k : \A j \in (i + 1)..k : j \in 1..k
    OBVIOUS
  <1>3. QED
    BY <1>1, <1>2 DEF Members

\* An empty prefix says nothing.
LEMMA MembersNone == ASSUME NEW c PROVE Members(c, 0) = {}
  BY DEF Members

-----------------------------------------------------------------------------
(***************************************************************************)
(* The inductive invariant.  A download sits between the list's size and   *)
(* the end of its file; the list it works on has ids; it belongs to a name *)
(* that the sync in progress has already dealt with.                       *)
(***************************************************************************)
NilMeansNoFile == \A n \in Names : lists[n].isNil <=> lists[n].file = NoFile

JobOK(n) ==
    job[n] # NoJob =>
        /\ pc \in {"range", "visit", "wait"}
        /\ n \notin todo
        /\ pc = "visit" => name # n
        /\ ~lists[n].isNil
        /\ job[n].state = "get" => job[n].at = lists[n].size
        /\ job[n].state = "apply" => job[n].at <= job[n].upto
        /\ job[n].upto <= Len(content[lists[n].file])

VisitedOnce == pc = "visit" => name \notin todo

IInv ==
    TypeOK /\ NilMeansNoFile /\ VisitedOnce /\ (\A n \in Names : JobOK(n)) /\ ListReplaysFile

\* Facts about one name that the steps need again and again.
LEMMA NameFacts ==
    ASSUME IInv, NEW n \in Names
    PROVE  /\ lists[n] \in List \cup {NoList}
           /\ job[n] \in Job \cup {NoJob}
           /\ index[n] \in Entry \cup {NoEntry}
           /\ JobOK(n)
           /\ lists[n].isNil <=> lists[n].file = NoFile
           /\ ~lists[n].isNil =>
                /\ lists[n] \in List
                /\ lists[n].file \in Files
                /\ content[lists[n].file] \in Seq(Lines)
                /\ Reflected(n) \in Nat
                /\ Reflected(n) <= Len(content[lists[n].file])
                /\ lists[n].ids = Members(content[lists[n].file], Reflected(n))
  <1>1. /\ lists[n] \in List \cup {NoList}
        /\ job[n] \in Job \cup {NoJob}
        /\ index[n] \in Entry \cup {NoEntry}
        /\ JobOK(n)
        /\ lists[n].isNil <=> lists[n].file = NoFile
    BY DEF IInv, TypeOK, NilMeansNoFile
  <1>2. ASSUME ~lists[n].isNil
        PROVE  /\ lists[n] \in List
               /\ lists[n].file \in Files
               /\ content[lists[n].file] \in Seq(Lines)
               /\ Reflected(n) \in Nat
               /\ Reflected(n) <= Len(content[lists[n].file])
               /\ lists[n].ids = Members(content[lists[n].file], Reflected(n))
    <2>1. lists[n] \in List
      BY <1>1, <1>2 DEF NoList
    <2>2. lists[n].file \in Files /\ Reflected(n) <= Len(content[lists[n].file])
          /\ lists[n].ids = Members(content[lists[n].file], Reflected(n))
      BY <1>2 DEF IInv, ListReplaysFile
    <2>3. content[lists[n].file] \in Seq(Lines)
      BY <2>2 DEF IInv, TypeOK
    <2>4. Reflected(n) \in Nat
      BY <1>1, <2>1 DEF Reflected, Job, NoJob, List
    <2>5. QED
      BY <2>1, <2>2, <2>3, <2>4
  <1>3. QED
    BY <1>1, <1>2

LEMMA InitIInv == Init => IInv
  <1> SUFFICES ASSUME Init PROVE IInv
    OBVIOUS
  <1>1. TypeOK
    <2>1. content \in [Files -> Seq(Lines)]
      BY DEF Init
    <2>2. QED
      BY <2>1 DEF Init, TypeOK
  <1>2. NilMeansNoFile /\ ListReplaysFile
    BY DEF Init, NilMeansNoFile, ListReplaysFile, NoList
  <1>3. VisitedOnce /\ \A n \in Names : JobOK(n)
    BY DEF Init, JobOK, VisitedOnce
  <1>4. QED
    BY <1>1, <1>2, <1>3 DEF IInv

(***************************************************************************)
(* Steps of the sync goroutine that touch neither lists nor downloads.     *)
(***************************************************************************)
LEMMA FrameStep ==
    ASSUME IInv, TypeOK', VisitedOnce', UNCHANGED <<content, lists, job>>,
           \A n \in Names : job[n] # NoJob =>
               /\ pc' \in {"range", "visit", "wait"}
               /\ n \notin todo'
               /\ pc' = "visit" => name' # n
    PROVE  IInv'
  <1>1. NilMeansNoFile' /\ ListReplaysFile'
    BY DEF IInv, NilMeansNoFile, ListReplaysFile, Reflected
  <1>2. \A n \in Names : JobOK(n)'
    BY DEF IInv, JobOK
  <1>3. QED
    BY <1>1, <1>2 DEF IInv

(***************************************************************************)
(* Steps that change list and download of one name only.                   *)
(***************************************************************************)
LEMMA OneNameStep ==
    ASSUME IInv, TypeOK', NEW n \in Names,
           UNCHANGED <<content, todo, name>>,
           \A m \in Names \ {n} : lists'[m] = lists[m] /\ job'[m] = job[m],
           pc' = pc \/ (pc = "visit" /\ pc' = "range"),
           (lists[n].isNil <=> lists[n].file = NoFile)',
           JobOK(n)',
           ~lists'[n].isNil =>
               (/\ lists[n].file \in Files
                /\ Reflected(n) <= Len(content[lists[n].file])
                /\ lists[n].ids = Members(content[lists[n].file], Reflected(n)))'
    PROVE  IInv'
  <1>1. NilMeansNoFile'
    BY DEF IInv, NilMeansNoFile
  <1>2. \A m \in Names : JobOK(m)'
    <2> SUFFICES ASSUME NEW m \in Names, m # n PROVE JobOK(m)'
      OBVIOUS
    <2>1. JobOK(m) /\ lists'[m] = lists[m] /\ job'[m] = job[m]
      BY DEF IInv
    <2>2. QED
      BY <2>1 DEF JobOK
  <1>3. ListReplaysFile'
    <2> SUFFICES ASSUME NEW m \in Names, ~lists'[m].isNil, m # n
                 PROVE  (/\ lists[m].file \in Files
                         /\ Reflected(m) <= Len(content[lists[m].file])
                         /\ lists[m].ids = Members(content[lists[m].file], Reflected(m)))'
      BY DEF ListReplaysFile
    <2>1. lists'[m] = lists[m] /\ job'[m] = job[m] /\ content' = content
      OBVIOUS
    <2>2. QED
      BY <2>1 DEF IInv, ListReplaysFile, Reflected
  <1>4. VisitedOnce'
    BY DEF IInv, VisitedOnce
  <1>5. QED
    BY <1>1, <1>2, <1>3, <1>4 DEF IInv

-----------------------------------------------------------------------------
\* The index holds entries.
LEMMA IndexType ==
    ASSUME TypeOK, NEW bad \in SUBSET Names
    PROVE  Index(bad) \in [Names -> Entry \cup {NoEntry}] /\ Listed(Index(bad)) \in SUBSET Names
  <1>1. ASSUME NEW n \in Names, current[n] # NoFile
        PROVE  [file |-> current[n], size |-> Len(content[current[n]]), valid |-> n \notin bad]
                 \in Entry
    <2>1. current[n] \in Files
      BY <1>1 DEF TypeOK
    <2>2. Len(content[current[n]]) \in Nat
      BY <2>1 DEF TypeOK
    <2>3. QED
      BY <2>1, <2>2 DEF Entry
  <1>2. QED
    BY <1>1 DEF Index, Listed

LEMMA SyncStepIInv == IInv /\ SyncStep => IInv'
  <1> SUFFICES ASSUME IInv, SyncStep PROVE IInv'
    OBVIOUS
  <1>0. TypeOK
    BY DEF IInv
  <1> USE DEF serverVars, syncVars
  <1>1. ASSUME NEW a \in Answers, NEW bad \in SUBSET Names, GetIndex(a, bad) PROVE IInv'
    <2>1. TypeOK'
      BY <1>0, <1>1, IndexType DEF GetIndex, TypeOK
    <2>2. \A n \in Names : job[n] = NoJob
      BY <1>1 DEF GetIndex, IInv, JobOK
    <2>3. QED
      BY <1>1, <2>1, <2>2, FrameStep DEF GetIndex, VisitedOnce
  <1>2. ASSUME NEW n \in Names, VisitEntry(n) PROVE IInv'
    <2>1. NewList \in List
      BY DEF NewList, List
    <2>2. TypeOK'
      BY <1>0, <1>2, <2>1 DEF VisitEntry, TypeOK
    <2>3. job[n] = NoJob
      BY <1>2 DEF VisitEntry, IInv, JobOK
    <2>4. \A m \in Names : lists'[m] = lists[m] \/ (m = n /\ lists[m] = NoList /\ lists'[m] = NewList)
      BY <1>0, <1>2 DEF VisitEntry, TypeOK
    <2>5. NilMeansNoFile'
      BY <2>4 DEF IInv, NilMeansNoFile, NewList
    <2>6. \A m \in Names : ~lists'[m].isNil => lists'[m] = lists[m]
      BY <2>4 DEF NewList
    <2>7. ListReplaysFile'
      BY <1>2, <2>6 DEF VisitEntry, IInv, ListReplaysFile, Reflected
    <2>8. ASSUME NEW m \in Names PROVE JobOK(m)'
      <3>1. JobOK(m) /\ (m = n => job[m] = NoJob)
        BY <2>3 DEF IInv
      <3>2. job[m] # NoJob => lists'[m] = lists[m]
        BY <2>3, <2>4
      <3>3. QED
        BY <1>2, <3>1, <3>2 DEF VisitEntry, JobOK
    <2>9. QED
      BY <1>2, <2>2, <2>5, <2>7, <2>8 DEF IInv, VisitEntry, VisitedOnce
  <1>3. CASE SyncEntry
    <2> DEFINE e == index[name]
               l == lists[name]
               reset == e.file # l.file
               size == IF reset THEN 0 ELSE l.size
               fresh == [file |-> e.file, size |-> 0, isNil |-> FALSE, ids |-> {}]
               get == [state |-> "get", at |-> size, upto |-> size]
    <2>0. name \in Names /\ pc = "visit" /\ pc' = "range"
      BY <1>0, <1>3 DEF SyncEntry, Skips, Reset, TypeOK
    <2>1. job[name] = NoJob
      BY <2>0 DEF IInv, JobOK
    <2>2. CASE ~e.valid \/ CreationTime(e.file) < CreationTime(l.file)
      <3>1. UNCHANGED <<content, lists, job, todo, name>> /\ TypeOK'
        BY <1>0, <1>3, <2>2 DEF SyncEntry, Skips, Reset, TypeOK
      <3>2. QED
        BY <2>0, <3>1, FrameStep DEF IInv, JobOK, VisitedOnce
    <2>3. CASE ~(~e.valid \/ CreationTime(e.file) < CreationTime(l.file))
      <3>1. e \in Entry /\ e.file \in Files /\ e.file # NoFile
        BY <2>0, <2>3, NameFacts, IDListsAssumption DEF Entry, NoEntry
      <3>2. ~reset => ~l.isNil /\ l \in List /\ size = l.size
        BY <2>0, <3>1, NameFacts
      <3>3. size \in Nat /\ (~reset => size <= Len(content[l.file]))
        BY <2>0, <2>1, <3>2, NameFacts DEF List, Reflected, NoJob
      <3>4. /\ lists' = IF reset THEN [lists EXCEPT ![name] = fresh] ELSE lists
            /\ job' = IF e.size > size THEN [job EXCEPT ![name] = get] ELSE job
            /\ UNCHANGED <<serverVars, index, todo, name, shutdown>>
        BY <1>3, <2>3 DEF SyncEntry, Skips, Reset
      <3>5. fresh \in List
        BY <3>1 DEF List
      <3>6. get \in Job
        BY <3>3 DEF Job
      <3> HIDE DEF e, reset, size, fresh, get, l
      <3>7. TypeOK'
        BY <1>0, <2>0, <3>4, <3>5, <3>6 DEF TypeOK
      <3>8. \A m \in Names \ {name} : lists'[m] = lists[m] /\ job'[m] = job[m]
        BY <1>0, <3>4 DEF TypeOK
      <3>9. lists'[name] = (IF reset THEN fresh ELSE l) /\ (job'[name] = NoJob \/ job'[name] = get)
        BY <1>0, <2>0, <2>1, <3>4 DEF TypeOK, l
      <3>10. ~lists'[name].isNil /\ lists'[name].file \in Files /\ lists'[name].size = size
        BY <2>0, <3>1, <3>2, <3>9, NameFacts DEF fresh, size, l
      <3>11. size <= Len(content[lists'[name].file])
        <4>1. CASE reset
          BY <1>0, <3>3, <3>10, <4>1 DEF TypeOK, size
        <4>2. CASE ~reset
          BY <3>3, <3>9, <4>2
        <4>3. QED
          BY <4>1, <4>2
      <3>12. lists'[name].ids = Members(content[lists'[name].file], size)
        <4>1. CASE reset
          BY <3>9, <4>1, MembersNone DEF fresh, size
        <4>2. CASE ~reset
          BY <2>0, <2>1, <3>2, <3>9, <4>2, NameFacts DEF l, Reflected, NoJob
        <4>3. QED
          BY <4>1, <4>2
      <3>13. Reflected(name)' = size
        BY <3>4, <3>9, <3>10 DEF Reflected, get, NoJob
      <3>14. JobOK(name)'
        <4>1. job'[name] = get => job'[name].at = size /\ job'[name].upto = size
                                  /\ job'[name].state = "get"
          BY DEF get
        <4>2. name \notin todo
          BY <2>0 DEF IInv, VisitedOnce
        <4>3. QED
          BY <2>0, <3>4, <3>9, <3>10, <3>11, <4>1, <4>2 DEF JobOK
      <3>15. QED
        BY <2>0, <3>4, <3>7, <3>8, <3>10, <3>11, <3>12, <3>13, <3>14, OneNameStep, IDListsAssumption
    <2>4. QED
      BY <2>2, <2>3
  <1>4. CASE EndRange
    <2>1. TypeOK'
      BY <1>0, <1>4 DEF EndRange, TypeOK
    <2>2. QED
      BY <1>4, <2>1, FrameStep DEF EndRange, IInv, JobOK, VisitedOnce
  <1>5. CASE Prune
    <2>1. TypeOK'
      BY <1>0, <1>5 DEF Prune, TypeOK
    <2>2. \A n \in Names : job[n] = NoJob /\ job'[n] = NoJob
      BY <1>5 DEF Prune
    <2>3. \A n \in Names : lists'[n] = lists[n] \/ lists'[n] = NoList
      BY <1>5 DEF Prune
    <2>4. NilMeansNoFile'
      BY <2>3 DEF IInv, NilMeansNoFile, NoList
    <2>5. \A n \in Names : ~lists'[n].isNil => lists'[n] = lists[n]
      BY <2>3 DEF NoList
    <2>6. ListReplaysFile'
      BY <1>5, <2>2, <2>5 DEF Prune, IInv, ListReplaysFile, Reflected
    <2>7. \A n \in Names : JobOK(n)'
      BY <2>2 DEF JobOK
    <2>8. QED
      BY <1>5, <2>1, <2>4, <2>6, <2>7 DEF IInv, Prune, VisitedOnce
  <1>6. CASE pollForIDListChanges
    <2>1. TypeOK'
      BY <1>0, <1>6 DEF pollForIDListChanges, TypeOK
    <2>2. QED
      BY <1>6, <2>1, FrameStep DEF pollForIDListChanges, IInv, JobOK, VisitedOnce
  <1>7. QED
    BY <1>1, <1>2, <1>3, <1>4, <1>5, <1>6 DEF SyncStep

-----------------------------------------------------------------------------
LEMMA JobStepIInv == IInv /\ (\E n \in Names : JobStep(n)) => IInv'
  <1> SUFFICES ASSUME IInv, NEW n \in Names, JobStep(n) PROVE IInv'
    OBVIOUS
  <1> DEFINE l == lists[n]
             j == job[n]
             c == content[lists[n].file]
  <1>0. TypeOK
    BY DEF IInv
  <1> USE DEF serverVars, syncVars
  <1>1. j # NoJob => j \in Job
    BY NameFacts
  <1>2. j \in Job => ~l.isNil /\ l \in List /\ c \in Seq(Lines) /\ l.file \in Files
                     /\ pc \in {"range", "visit", "wait"}
    BY NameFacts DEF JobOK, Job, NoJob
  <1>3. CASE GetFails(n)
    <2>1. TypeOK'
      BY <1>0, <1>3 DEF GetFails, Done, TypeOK
    <2>2. job'[n] = NoJob /\ lists' = lists /\ \A m \in Names \ {n} : job'[m] = job[m]
      BY <1>0, <1>3 DEF GetFails, Done, TypeOK
    <2>3. j.state = "get" /\ j \in Job
      BY <1>1, <1>3 DEF GetFails, NoJob
    <2>4. JobOK(n)' /\ Reflected(n)' = l.size /\ Reflected(n) = l.size
      BY <2>2, <2>3 DEF JobOK, Reflected, NoJob
    <2>5. QED
      BY <1>3, <2>1, <2>2, <2>4, NameFacts, OneNameStep DEF GetFails
  <1>4. CASE GetCorrupt(n)
    <2>1. TypeOK'
      BY <1>0, <1>4 DEF GetCorrupt, Done, TypeOK
    <2>2. /\ job'[n] = NoJob /\ lists'[n] = NoList
          /\ \A m \in Names \ {n} : lists'[m] = lists[m] /\ job'[m] = job[m]
      BY <1>0, <1>4 DEF GetCorrupt, Done, TypeOK
    <2>3. JobOK(n)' /\ lists'[n].isNil /\ lists'[n].file = NoFile
      BY <2>2 DEF JobOK, NoList
    <2>4. QED
      BY <1>4, <2>1, <2>2, <2>3, OneNameStep DEF GetCorrupt
  <1>5. CASE GetBody(n)
    <2>1. j \in Job /\ j.state = "get" /\ j.at < Len(c)
      BY <1>1, <1>5 DEF GetBody, NoJob
    <2>2. Len(c) \in Nat
      BY <1>2, <2>1
    <2> DEFINE k == [j EXCEPT !.state = "apply", !.upto = Len(c)]
    <2>3. k \in Job /\ k.at = j.at /\ k.upto = Len(c) /\ k.state = "apply"
      BY <2>1, <2>2 DEF Job
    <2>4. job' = [job EXCEPT ![n] = k] /\ lists' = lists
      BY <1>5 DEF GetBody
    <2> HIDE DEF k
    <2>5. TypeOK'
      BY <1>0, <1>5, <2>3, <2>4 DEF GetBody, TypeOK
    <2>6. job'[n] = k /\ \A m \in Names \ {n} : job'[m] = job[m]
      BY <1>0, <2>4 DEF TypeOK
    <2>7. JobOK(n) /\ j.at = l.size /\ j # NoJob
      BY <2>1, NameFacts DEF JobOK, NoJob
    <2>8. Reflected(n)' = l.size /\ Reflected(n) = l.size
      BY <2>1, <2>3, <2>4, <2>6, <2>7 DEF Reflected
    <2>9. j.at \in Nat
      BY <2>1 DEF Job
    <2>10. JobOK(n)'
      BY <1>5, <2>1, <2>2, <2>3, <2>4, <2>6, <2>7, <2>9 DEF JobOK, GetBody
    <2>11. QED
      BY <1>5, <2>4, <2>5, <2>6, <2>8, <2>10, NameFacts, OneNameStep DEF GetBody
  <1>6. CASE ApplyLine(n)
    <2>1. j \in Job /\ j.state = "apply" /\ j.at < j.upto
      BY <1>1, <1>6 DEF ApplyLine, NoJob
    <2>2. l \in List /\ c \in Seq(Lines) /\ l.file \in Files /\ ~l.isNil
      BY <1>2, <2>1
    <2>3. j.at \in Nat /\ j.upto \in Nat /\ j.upto <= Len(c) /\ j # NoJob
      BY <2>1, NameFacts DEF JobOK, Job, NoJob
    <2>4. Reflected(n) = j.at /\ l.ids = Members(c, j.at)
      BY <2>1, <2>2, NameFacts DEF Reflected
    <2> DEFINE line == c[j.at + 1]
               k == [j EXCEPT !.at = @ + 1]
               p == [l EXCEPT !.ids = Apply(@, line)]
    <2>5. line \in Lines
      BY <2>1, <2>2, <2>3
    <2>6. Apply(l.ids, line) \in SUBSET Ids
      BY <2>2, <2>5 DEF Apply, Lines, List
    <2>7. k \in Job /\ k.at = j.at + 1 /\ k.upto = j.upto /\ k.state = "apply"
      BY <2>1, <2>3 DEF Job
    <2>8. p \in List /\ p.file = l.file /\ p.isNil = FALSE /\ p.ids = Apply(l.ids, line)
      BY <2>2, <2>6 DEF List
    <2>9. lists' = [lists EXCEPT ![n] = p] /\ job' = [job EXCEPT ![n] = k]
      BY <1>6 DEF ApplyLine
    <2>10. Members(c, j.at + 1) = Apply(l.ids, line)
      BY <2>1, <2>2, <2>3, <2>4, MembersStep
    <2> HIDE DEF k, p, line
    <2>11. TypeOK'
      BY <1>0, <1>6, <2>7, <2>8, <2>9, ZenonT(30) DEF ApplyLine, TypeOK
    <2>12. /\ lists'[n] = p /\ job'[n] = k
           /\ \A m \in Names \ {n} : lists'[m] = lists[m] /\ job'[m] = job[m]
      BY <1>0, <2>9 DEF TypeOK
    <2>13. Reflected(n)' = j.at + 1
      BY <2>7, <2>9, <2>12 DEF Reflected
    <2>14. JobOK(n)
      BY NameFacts
    <2>15. JobOK(n)'
      BY <1>6, <2>1, <2>3, <2>7, <2>8, <2>12, <2>14 DEF JobOK, ApplyLine
    <2>16. /\ content' = content
           /\ lists'[n].file = l.file /\ l.file # NoFile
           /\ lists'[n].ids = Members(c, j.at + 1)
           /\ j.at + 1 <= Len(c)
      <3>1. content' = content
        BY <1>6 DEF ApplyLine
      <3>2. lists'[n].file = l.file /\ lists'[n].ids = Members(c, j.at + 1)
        BY <2>8, <2>10, <2>12
      <3>3. l.file # NoFile
        BY <2>2, IDListsAssumption
      <3>4. j.at + 1 <= Len(c)
        <4>1. Len(c) \in Nat
          BY <2>2
        <4>2. QED
          BY <2>1, <2>3, <4>1
      <3>5. QED
        BY <3>1, <3>2, <3>3, <3>4
    <2>17. QED
      BY <1>6, <2>2, <2>8, <2>11, <2>12, <2>13, <2>15, <2>16, OneNameStep DEF ApplyLine
  <1>7. CASE AddSize(n)
    <2>1. j \in Job /\ j.state = "apply" /\ j.at = j.upto
      BY <1>1, <1>7 DEF AddSize, NoJob
    <2>2. l \in List /\ c \in Seq(Lines) /\ l.file \in Files /\ ~l.isNil
      BY <1>2, <2>1
    <2>3. Reflected(n) = j.at /\ l.ids = Members(c, j.at) /\ j.at <= Len(c) /\ j.upto \in Nat
      BY <2>1, <2>2, NameFacts DEF Reflected, Job
    <2> DEFINE p == [l EXCEPT !.size = j.upto]
    <2>4. p \in List /\ p.file = l.file /\ p.isNil = FALSE /\ p.ids = l.ids /\ p.size = j.upto
      BY <2>2, <2>3 DEF List
    <2>5. lists' = [lists EXCEPT ![n] = p] /\ job' = [job EXCEPT ![n] = NoJob]
      BY <1>7 DEF AddSize, Done
    <2> HIDE DEF p
    <2>6. TypeOK'
      BY <1>0, <1>7, <2>4, <2>5 DEF AddSize, TypeOK
    <2>7. /\ lists'[n] = p /\ job'[n] = NoJob
          /\ \A m \in Names \ {n} : lists'[m] = lists[m] /\ job'[m] = job[m]
      BY <1>0, <2>5 DEF TypeOK
    <2>8. JobOK(n)' /\ Reflected(n)' = j.at
      BY <2>1, <2>4, <2>5, <2>7 DEF JobOK, Reflected, NoJob
    <2>9. QED
      BY <1>7, <2>2, <2>3, <2>4, <2>6, <2>7, <2>8, NameFacts, OneNameStep DEF AddSize
  <1>8. QED
    BY <1>3, <1>4, <1>5, <1>6, <1>7 DEF JobStep

LEMMA ServerStepIInv == IInv /\ ServerStep => IInv'
  <1> SUFFICES ASSUME IInv, ServerStep PROVE IInv'
    OBVIOUS
  <1>0. TypeOK
    BY DEF IInv
  <1> USE DEF syncVars
  <1>1. ASSUME NEW f \in Files, NEW x \in Lines, AppendLine(f, x) PROVE IInv'
    <2>1. content[f] \in Seq(Lines) /\ Append(content[f], x) \in Seq(Lines)
      BY <1>0 DEF TypeOK
    <2>2. TypeOK'
      BY <1>0, <1>1, <2>1 DEF AppendLine, TypeOK
    <2>3. NilMeansNoFile' /\ VisitedOnce'
      BY <1>1 DEF AppendLine, IInv, NilMeansNoFile, VisitedOnce
    <2>4. ASSUME NEW g \in Files
          PROVE  /\ Len(content'[g]) \in Nat /\ Len(content[g]) \in Nat
                 /\ Len(content'[g]) >= Len(content[g])
                 /\ \A k \in 0..Len(content[g]) : Members(content'[g], k) = Members(content[g], k)
      <3>1. content[g] \in Seq(Lines)
        BY <1>0 DEF TypeOK
      <3>2. content'[g] = content[g] \/ content'[g] = Append(content[g], x)
        BY <1>0, <1>1 DEF AppendLine, TypeOK
      <3>3. Len(content[g]) \in Nat /\ Len(Append(content[g], x)) = Len(content[g]) + 1
        BY <3>1
      <3>4. \A k \in 0..Len(content[g]) : Members(Append(content[g], x), k) = Members(content[g], k)
        BY <3>1, MembersAppend
      <3>5. CASE content'[g] = content[g]
        BY <3>3, <3>5
      <3>6. CASE content'[g] = Append(content[g], x)
        BY <3>3, <3>4, <3>6
      <3>7. QED
        BY <3>2, <3>5, <3>6
    <2>5. ASSUME NEW n \in Names PROVE JobOK(n)'
      <3>1. JobOK(n) /\ (job[n] # NoJob => lists[n].file \in Files /\ job[n] \in Job)
        BY NameFacts DEF JobOK
      <3>2. job[n] # NoJob => job[n].upto <= Len(content'[lists[n].file])
        BY <2>4, <3>1 DEF JobOK, Job
      <3>3. QED
        BY <1>1, <3>1, <3>2 DEF AppendLine, JobOK
    <2>6. ASSUME NEW n \in Names, ~lists'[n].isNil
          PROVE  (/\ lists[n].file \in Files
                  /\ Reflected(n) <= Len(content[lists[n].file])
                  /\ lists[n].ids = Members(content[lists[n].file], Reflected(n)))'
      <3>1. lists' = lists /\ job' = job /\ Reflected(n)' = Reflected(n)
        BY <1>1 DEF AppendLine, Reflected
      <3>2. /\ lists[n].file \in Files /\ Reflected(n) \in Nat
            /\ Reflected(n) <= Len(content[lists[n].file])
            /\ lists[n].ids = Members(content[lists[n].file], Reflected(n))
        BY <2>6, <3>1, NameFacts
      <3>3. Reflected(n) \in 0..Len(content[lists[n].file])
        BY <2>4, <3>2
      <3>4. QED
        BY <2>4, <3>1, <3>2, <3>3
    <2>7. QED
      BY <2>2, <2>3, <2>5, <2>6 DEF IInv, ListReplaysFile
  <1>2. ASSUME NEW n \in Names, NEW f \in Files \cup {NoFile}, MakeCurrent(n, f) PROVE IInv'
    <2>1. TypeOK'
      BY <1>0, <1>2 DEF MakeCurrent, TypeOK
    <2>2. QED
      BY <1>2, <2>1, FrameStep DEF MakeCurrent, IInv, JobOK, VisitedOnce
  <1>3. CASE NetworkChange
    <2>1. TypeOK'
      BY <1>0, <1>3 DEF NetworkChange, TypeOK
    <2>2. QED
      BY <1>3, <2>1, FrameStep DEF NetworkChange, IInv, JobOK, VisitedOnce
  <1>4. QED
    BY <1>1, <1>2, <1>3 DEF ServerStep

LEMMA NextIInv == IInv /\ [Next]_vars => IInv'
  <1> SUFFICES ASSUME IInv, [Next]_vars PROVE IInv'
    OBVIOUS
  <1> USE DEF serverVars, syncVars
  <1>1. CASE stopPolling
    <2>1. TypeOK'
      BY <1>1 DEF stopPolling, IInv, TypeOK
    <2>2. QED
      BY <1>1, <2>1, FrameStep DEF stopPolling, IInv, JobOK, VisitedOnce
  <1>2. CASE UNCHANGED vars
    <2>1. TypeOK'
      BY <1>2 DEF vars, IInv, TypeOK
    <2>2. QED
      BY <1>2, <2>1, FrameStep DEF vars, IInv, JobOK, VisitedOnce
  <1>3. QED
    BY <1>1, <1>2, SyncStepIInv, JobStepIInv, ServerStepIInv DEF Next

(***************************************************************************)
(* The state of the lists, of the sync and of its downloads stays well     *)
(* typed.                                                                  *)
(***************************************************************************)
THEOREM TypeCorrect == Spec => []TypeOK
  <1>1. IInv => TypeOK
    BY DEF IInv
  <1>2. QED
    BY InitIInv, NextIInv, <1>1, PTL DEF Spec

(***************************************************************************)
(* For files of any length, any number of lists and any interleaving of    *)
(* syncs, downloads, failures and changes on the server: a list holds what *)
(* the prefix of its file that it reflects says.                           *)
(***************************************************************************)
THEOREM ReplayCorrect == Spec => []ListReplaysFile
  <1>1. IInv => ListReplaysFile
    BY DEF IInv
  <1>2. QED
    BY InitIInv, NextIInv, <1>1, PTL DEF Spec

(***************************************************************************)
(* No download goroutine outlives the sync that started it, and each works *)
(* on a list with ids.                                                     *)
(***************************************************************************)
THEOREM DownloadsCorrect == Spec => []DownloadsWithinSync
  <1>1. IInv => DownloadsWithinSync
    BY DEF IInv, JobOK, DownloadsWithinSync
  <1>2. QED
    BY InitIInv, NextIInv, <1>1, PTL DEF Spec

-----------------------------------------------------------------------------
\* A list has a file with a time.
LEMMA CreationTimeType ==
    ASSUME NEW f \in Files \cup {NoFile} PROVE CreationTime(f) \in Nat
  BY IDListsAssumption DEF CreationTime

\* A step leaves a list the file it has, takes the list away, makes a new
\* one, or is the visit of an entry that is not passed over.
LEMMA FileKept ==
    ASSUME IInv, [Next]_vars, NEW n \in Names, lists[n] # NoList, lists'[n] # NoList
    PROVE  \/ lists'[n].file = lists[n].file
           \/ /\ lists'[n].file = index[n].file
              /\ ~Skips(index[n], lists[n])
  <1>0. lists \in [Names -> List \cup {NoList}] /\ name \in Names
    BY DEF IInv, TypeOK
  <1> USE DEF serverVars, syncVars
  <1>1. CASE SyncEntry
    <2>1. CASE Skips(index[name], lists[name])
      BY <1>1, <2>1 DEF SyncEntry
    <2>2. CASE ~Skips(index[name], lists[name])
      <3>1. lists' = lists \/ lists' = [lists EXCEPT ![name] = Reset(index[name], lists[name])]
        BY <1>1, <2>2 DEF SyncEntry
      <3>2. CASE n = name
        BY <1>0, <2>2, <3>1, <3>2 DEF Reset
      <3>3. CASE n # name
        BY <1>0, <3>1, <3>3
      <3>4. QED
        BY <3>2, <3>3
    <2>3. QED
      BY <2>1, <2>2
  <1>2. CASE Prune
    BY <1>0, <1>2 DEF Prune
  <1>3. ASSUME NEW m \in Names, VisitEntry(m) PROVE lists'[n].file = lists[n].file
    BY <1>0, <1>3 DEF VisitEntry
  <1>4. CASE (SyncStep /\ UNCHANGED lists) \/ stopPolling \/ ServerStep \/ UNCHANGED vars
    BY <1>4 DEF stopPolling, ServerStep, AppendLine, MakeCurrent, NetworkChange, vars
  <1>5. ASSUME NEW m \in Names, JobStep(m) PROVE lists'[n].file = lists[n].file
    <2>1. CASE UNCHANGED lists
      BY <2>1
    <2>2. CASE lists' = [lists EXCEPT ![m] = NoList]
      BY <1>0, <2>2
    <2>3. CASE ApplyLine(m) \/ AddSize(m)
      <3>1. \E x : \/ lists' = [lists EXCEPT ![m].ids = x]
                   \/ lists' = [lists EXCEPT ![m].size = x]
        BY <2>3 DEF ApplyLine, AddSize
      <3>2. lists[m] \in List \/ lists[m] = NoList
        BY <1>0
      <3>3. QED
        BY <1>0, <3>1, <3>2 DEF List, NoList
    <2>4. QED
      BY <1>5, <2>1, <2>2, <2>3 DEF JobStep, GetFails, GetCorrupt, GetBody
  <1>6. SyncStep => \/ UNCHANGED lists \/ SyncEntry \/ Prune \/ \E m \in Names : VisitEntry(m)
    BY DEF SyncStep, GetIndex, EndRange, pollForIDListChanges
  <1>7. QED
    BY <1>1, <1>2, <1>3, <1>4, <1>5, <1>6 DEF Next

(***************************************************************************)
(* For any files with any creation times, also while the server goes back  *)
(* and forth between them: a list that is not deleted meanwhile never goes *)
(* over to an older file.                                                  *)
(***************************************************************************)
THEOREM NoOlderFileCorrect == Spec => NoOlderFile
  <1> DEFINE Keeps(n) == lists[n] # NoList /\ lists'[n] # NoList
                            => CreationTime(lists'[n].file) >= CreationTime(lists[n].file)
  <1>1. IInv /\ [Next]_vars => [\A n \in Names : Keeps(n)]_vars
    <2> SUFFICES ASSUME IInv, [Next]_vars, NEW n \in Names, lists[n] # NoList, lists'[n] # NoList
                 PROVE  CreationTime(lists'[n].file) >= CreationTime(lists[n].file)
      OBVIOUS
    <2>1. lists[n] \in List \cup {NoList} /\ index[n] \in Entry \cup {NoEntry}
      BY DEF IInv, TypeOK
    <2>2. lists[n].file \in Files \cup {NoFile} /\ index[n].file \in Files \cup {NoFile}
      BY <2>1 DEF List, NoList, Entry, NoEntry
    <2>3. CreationTime(lists[n].file) \in Nat /\ CreationTime(index[n].file) \in Nat
      BY <2>2, CreationTimeType
    <2>4. CASE lists'[n].file = lists[n].file
      BY <2>3, <2>4
    <2>5. CASE lists'[n].file = index[n].file /\ ~Skips(index[n], lists[n])
      BY <2>3, <2>5 DEF Skips
    <2>6. QED
      BY <2>4, <2>5, FileKept
  <1>2. QED
    BY InitIInv, NextIInv, <1>1, PTL DEF Spec, NoOlderFile
=============================================================================
