--------------------------- MODULE ProposalsProofs ---------------------------
(***************************************************************************)
(* What holds of proposals for any number of sessions, proposals, edits    *)
(* and failures: a decision is final and happens once, a preview is that   *)
(* of its revision, and nothing that was replaced waits.                   *)
(***************************************************************************)
EXTENDS Proposals, TLAPS, SequenceTheorems, FiniteSetTheorems, WellFoundedInduction

Revisions == 1 .. Len(log)

-----------------------------------------------------------------------------
(* The inductive invariant.                                                 *)

\* What a request believes while it is between two of its steps.
Fine(j) ==
  /\ j.stage \in {"row", "graph", "dry"} => j.kind \in {"propose", "refresh"}
  /\ j.stage \in {"snapshot", "insert"} => j.kind = "propose"
  /\ j.stage \in {"mark", "write", "get"} => j.kind = "refresh"
  /\ j.stage = "locked" => j.kind = "apply" /\ j.id \in Pending
  /\ j.kind \in {"refresh", "apply"} => j.id \in Ids /\ j.ops = rows[j.id].ops
  /\ j.stage \in {"graph", "dry", "snapshot", "insert", "write"} => j.rev \in Revisions
  /\ j.stage = "dry" => \E r \in Revisions : j.rev <= r /\ j.graph = log[r].graph
  /\ j.stage \in {"snapshot", "insert", "write"} => j.graph = log[j.rev].graph
  /\ j.waits \subseteq Ids

\* Two transactions do not hold the lock of one proposal.
Exclusive ==
  \A s, u \in Sessions :
    job[s].stage = "locked" /\ job[u].stage = "locked" /\ job[s].id = job[u].id => s = u

Previewed(id) ==
  rows[id].base \in Revisions /\ rows[id].preview = After(rows[id].ops, log[rows[id].base].graph)

Replaced(id) == rows[id].saw \subseteq Ids /\ rows[id].saw \cap Pending = {}

Written(id) ==
  rows[id].applied # 0 =>
    /\ rows[id].applied \in Revisions \ {1}
    /\ rows[id].status \in {"applied", "pruned"}
    /\ log[rows[id].applied].by = id
    /\ log[rows[id].applied].graph = After(rows[id].ops, log[rows[id].applied - 1].graph)

Attributed(r) == log[r].by # 0 => log[r].by \in Ids /\ rows[log[r].by].applied = r

IInv ==
  /\ ProposalsTypeOK
  /\ \A s \in Sessions : Fine(job[s])
  /\ Exclusive
  /\ \A id \in Ids : Previewed(id) /\ Replaced(id) /\ Written(id)
  /\ \A r \in Revisions : Attributed(r)

-----------------------------------------------------------------------------
(* How rows and the log may change in one step.                             *)

LogGrows ==
  /\ Len(log') \in Nat /\ Len(log) <= Len(log')
  /\ \A r \in Revisions : log'[r] = log[r]

\* What is settled stays, and the operations of a proposal never change.
Keeps(old, new) ==
  /\ new.ops = old.ops /\ new.saw = old.saw
  /\ old.status # "pending" => new = old \/ new = [old EXCEPT !.status = "pruned"]

RowsGrow ==
  /\ Len(rows') \in Nat /\ Len(rows) <= Len(rows')
  /\ \A id \in Ids : Keeps(rows[id], rows'[id])

-----------------------------------------------------------------------------
(* What the type invariant says of the rows, the log and a request.         *)

LEMMA FunctionIsSeq ==
  ASSUME NEW S, NEW n \in Nat, NEW m \in [1 .. n -> S]
  PROVE  m \in Seq(S) /\ Len(m) = n
  BY SeqDef, LenProperties

LEMMA RowsDomain ==
  ASSUME ProposalsTypeOK
  PROVE  /\ Ids = 1 .. Len(rows) /\ Len(rows) \in Nat
         /\ \A id \in Ids : rows[id] \in Row
  BY ElementOfSeq, LenProperties DEF ProposalsTypeOK, Ids

LEMMA LogDomain ==
  ASSUME ProposalsTypeOK
  PROVE  /\ Len(log) \in Nat /\ Len(log) >= 1 /\ Len(log) \in Revisions
         /\ Revisions \subseteq Nat
         /\ \A r \in Revisions : log[r].graph \in Graphs /\ log[r].by \in Nat
         /\ Graph \in Graphs
<1>1. Len(log) \in Nat /\ Len(log) >= 1 /\ Len(log) \in Revisions /\ Revisions \subseteq Nat
  BY LenProperties DEF ProposalsTypeOK, Revisions
<1>2. \A r \in Revisions : log[r] \in [graph : Graphs, by : Nat]
  BY ElementOfSeq DEF ProposalsTypeOK, Revisions
<1> QED BY <1>1, <1>2 DEF Graph

LEMMA JobType ==
  ASSUME ProposalsTypeOK, NEW s \in Sessions
  PROVE  /\ job[s] \in Job
         /\ job[s].ops \in SUBSET Suggested /\ job[s].graph \in Graphs
         /\ job[s].rev \in Nat /\ job[s].id \in Nat /\ job[s].waits \subseteq Nat
  BY DEF ProposalsTypeOK, Job

LEMMA AfterType ==
  ASSUME NEW ops \in SUBSET Suggested, NEW graph \in Graphs
  PROVE  After(ops, graph) \in Graphs
  BY ProposalsAssumption DEF After, Graphs

LEMMA NewJob ==
  ASSUME ProposalsTypeOK, NEW s \in Sessions, NEW j \in Job, job' = [job EXCEPT ![s] = j]
  PROVE  /\ job' \in [Sessions -> Job] /\ job'[s] = j
         /\ \A u \in Sessions : u # s => job'[u] = job[u]
  BY DEF ProposalsTypeOK

LEMMA NewRows ==
  ASSUME ProposalsTypeOK, NEW id \in Ids, NEW r \in Row, rows' = [rows EXCEPT ![id] = r]
  PROVE  /\ rows' \in Seq(Row) /\ Len(rows') = Len(rows) /\ Ids' = Ids
         /\ rows'[id] = r /\ \A other \in Ids : other # id => rows'[other] = rows[other]
<1>1. rows \in Seq(Row) /\ id \in 1 .. Len(rows)
  BY RowsDomain DEF ProposalsTypeOK
<1>2. rows' \in Seq(Row) /\ Len(rows') = Len(rows)
  BY <1>1, ExceptSeq
<1>3. \A i \in 1 .. Len(rows) : rows'[i] = IF i = id THEN r ELSE rows[i]
  BY <1>1, ExceptSeq
<1>4. Ids' = 1 .. Len(rows')
  BY <1>2, LenProperties DEF Ids
<1> QED BY <1>1, <1>2, <1>3, <1>4, RowsDomain

LEMMA NewLog ==
  ASSUME ProposalsTypeOK, NEW graph \in Graphs, NEW by \in Nat, NewRevision(graph, by)
  PROVE  /\ log' \in Seq([graph : Graphs, by : Nat]) /\ Len(log') = Len(log) + 1
         /\ Revisions' = Revisions \cup {Len(log) + 1}
         /\ log'[Len(log) + 1].graph = graph /\ log'[Len(log) + 1].by = by
         /\ LogGrows
<1> DEFINE v == [graph |-> graph, by |-> by]
<1>1. log \in Seq([graph : Graphs, by : Nat]) /\ v \in [graph : Graphs, by : Nat]
      /\ log' = Append(log, v)
  BY DEF ProposalsTypeOK, NewRevision
<1> HIDE DEF v
<1>2. /\ log' \in Seq([graph : Graphs, by : Nat]) /\ Len(log') = Len(log) + 1
      /\ \A i \in 1 .. Len(log) : log'[i] = log[i]
      /\ log'[Len(log) + 1] = v
  BY <1>1, AppendProperties
<1> QED BY <1>2, LogDomain DEF v, LogGrows, Revisions

LEMMA NoJobIsFine == NoJob \in Job /\ Fine(NoJob)
  BY ProposalsAssumption DEF NoJob, Job, Fine, Graphs

-----------------------------------------------------------------------------
(* What is believed survives what others do.                                *)

LEMMA FineStays ==
  ASSUME ProposalsTypeOK, NEW j \in Job, Fine(j), LogGrows, RowsGrow,
         Ids' = 1 .. Len(rows'),
         j.stage = "locked" => j.id \in Pending'
  PROVE  Fine(j)'
<1>1. Ids \subseteq Ids' /\ Revisions \subseteq Revisions'
  BY RowsDomain, LogDomain DEF LogGrows, RowsGrow, Revisions
<1>2. j.kind \in {"refresh", "apply"} => j.id \in Ids' /\ j.ops = rows'[j.id].ops
  <2>1. j.kind \in {"refresh", "apply"} => j.id \in Ids /\ j.ops = rows[j.id].ops
    BY DEF Fine
  <2>2. \A id \in Ids : rows'[id].ops = rows[id].ops
    BY DEF RowsGrow, Keeps
  <2> QED BY <1>1, <2>1, <2>2
<1>3. \A r \in Revisions : log'[r] = log[r]
  BY DEF LogGrows
<1>4. j.stage = "dry" => \E r \in Revisions' : j.rev <= r /\ j.graph = log'[r].graph
  BY <1>1, <1>3 DEF Fine
<1>5. j.stage \in {"snapshot", "insert", "write"} => j.graph = log'[j.rev].graph
  BY <1>3 DEF Fine
<1> QED BY <1>1, <1>2, <1>4, <1>5 DEF Fine

LEMMA SettledStays ==
  ASSUME ProposalsTypeOK, RowsGrow, NEW id \in Ids, rows[id].status # "pending"
  PROVE  /\ rows'[id] = rows[id] \/ rows'[id] = [rows[id] EXCEPT !.status = "pruned"]
         /\ id \notin Pending'
<1>1. rows'[id] = rows[id] \/ rows'[id] = [rows[id] EXCEPT !.status = "pruned"]
  BY DEF RowsGrow, Keeps
<1>2. rows'[id].status # "pending"
  BY <1>1, RowsDomain DEF Row
<1> QED BY <1>1, <1>2 DEF Pending

LEMMA RowStays ==
  ASSUME IInv, LogGrows, RowsGrow, Ids' = 1 .. Len(rows'), rows' \in Seq(Row),
         NEW id \in Ids
  PROVE  /\ id \in Ids' /\ Replaced(id)'
         /\ rows'[id].base = rows[id].base /\ rows'[id].preview = rows[id].preview => Previewed(id)'
         /\ rows'[id].applied = rows[id].applied => Written(id)'
<1>0. ProposalsTypeOK /\ Previewed(id) /\ Replaced(id) /\ Written(id)
  BY DEF IInv
<1>1. /\ Ids \subseteq Ids' /\ Revisions \subseteq Revisions' /\ 1 \notin Revisions' \ Revisions
      /\ \A r \in Revisions : log'[r] = log[r]
  BY <1>0, RowsDomain, LogDomain DEF LogGrows, RowsGrow, Revisions
<1>2. rows'[id].ops = rows[id].ops /\ rows'[id].saw = rows[id].saw
  BY DEF RowsGrow, Keeps
<1>3. Replaced(id)'
  <2>1. \A old \in rows[id].saw : old \in Ids' /\ old \notin Pending'
    BY <1>0, <1>1, SettledStays DEF Replaced, Pending
  <2> QED BY <1>2, <2>1 DEF Replaced
<1>4. rows'[id].base = rows[id].base /\ rows'[id].preview = rows[id].preview => Previewed(id)'
  BY <1>0, <1>1, <1>2 DEF Previewed, After
<1>5. ASSUME rows'[id].applied = rows[id].applied, rows[id].applied # 0 PROVE Written(id)'
  <2>1. /\ rows[id].applied \in Revisions \ {1} /\ rows[id].status \in {"applied", "pruned"}
        /\ log[rows[id].applied].by = id
        /\ log[rows[id].applied].graph = After(rows[id].ops, log[rows[id].applied - 1].graph)
    BY <1>0, <1>5 DEF Written
  <2>2. rows'[id].status \in {"applied", "pruned"}
    <3>1. rows[id] \in Row
      BY <1>0, RowsDomain
    <3> QED BY <1>0, <2>1, <3>1, SettledStays DEF Row
  <2>3. rows[id].applied - 1 \in Revisions
    BY <1>0, <2>1, LogDomain DEF Revisions
  <2> QED BY <1>1, <1>2, <1>5, <2>1, <2>2, <2>3 DEF Written, After
<1>6. rows'[id].applied = rows[id].applied /\ rows[id].applied = 0 => Written(id)'
  BY DEF Written
<1> QED BY <1>1, <1>3, <1>4, <1>5, <1>6

LEMMA AttributedStays ==
  ASSUME IInv, LogGrows, RowsGrow, Ids' = 1 .. Len(rows'), rows' \in Seq(Row),
         NEW r \in Revisions
  PROVE  Attributed(r)'
<1>0. ProposalsTypeOK /\ Attributed(r)
  BY DEF IInv
<1> DEFINE id == log[r].by
<1>1. SUFFICES ASSUME log[r].by # 0 PROVE id \in Ids' /\ rows'[id].applied = r
  BY DEF LogGrows, Attributed
<1>2. id \in Ids /\ rows[id].applied = r /\ r # 0
  BY <1>0, <1>1, LogDomain DEF Attributed, Revisions
<1>3. Written(id) /\ rows[id] \in Row
  BY <1>0, <1>2, RowsDomain DEF IInv
<1> HIDE DEF id
<1>4. rows[id].status # "pending"
  BY <1>2, <1>3 DEF Written
<1>5. rows'[id].applied = rows[id].applied
  BY <1>0, <1>2, <1>3, <1>4, SettledStays DEF Row
<1> QED BY <1>2, <1>5, RowStays

-----------------------------------------------------------------------------
(* The two shapes of a step.                                                *)

\* One request goes on; rows and the log stay.
LEMMA JobStep ==
  ASSUME IInv, NEW s \in Sessions, NEW j \in Job, job' = [job EXCEPT ![s] = j],
         UNCHANGED <<log, rows>>, failures' \in 0 .. MaxFailures,
         Fine(j), j.stage = "locked" => ~Locked(j.id)
  PROVE  IInv'
<1>0. ProposalsTypeOK /\ \A u \in Sessions : Fine(job[u])
  BY DEF IInv
<1>1. /\ job' \in [Sessions -> Job] /\ job'[s] = j
      /\ \A u \in Sessions : u # s => job'[u] = job[u]
  BY <1>0, NewJob
<1>2. \A u \in Sessions : Fine(job'[u])
  BY <1>0, <1>1
<1>3. (\A u \in Sessions : Fine(job[u]))'
  BY <1>2 DEF Fine, Ids, Pending, Revisions
<1>4. ProposalsTypeOK'
  <2>1. \A u \in Sessions :
          /\ job'[u].kind \in {"refresh", "apply"} => job'[u].id \in Ids
          /\ job'[u].stage = "locked" => job'[u].id \in Pending
    BY <1>2 DEF Fine
  <2> QED BY <1>0, <1>1, <2>1 DEF ProposalsTypeOK, Ids, Pending
<1>5. Exclusive'
  <2>1. \A u, v \in Sessions :
          job[u].stage = "locked" /\ job[v].stage = "locked" /\ job[u].id = job[v].id => u = v
    BY DEF IInv, Exclusive
  <2>2. \A u \in Sessions : job[u].stage = "locked" /\ j.stage = "locked" => job[u].id # j.id
    BY DEF Locked
  <2> QED BY <1>1, <2>1, <2>2 DEF Exclusive
<1>6. (\A id \in Ids : Previewed(id) /\ Replaced(id) /\ Written(id))'
      /\ (\A r \in Revisions : Attributed(r))'
  BY DEF IInv, Ids, Pending, Revisions, Previewed, Replaced, Written, Attributed
<1> QED BY <1>3, <1>4, <1>5, <1>6 DEF IInv

\* Rows or the log change; no lock is taken and none is passed over.
LEMMA RowStep ==
  ASSUME IInv, LogGrows, RowsGrow,
         rows' \in Seq(Row), log' \in Seq([graph : Graphs, by : Nat]),
         job' \in [Sessions -> Job], failures' \in 0 .. MaxFailures,
         \A u \in Sessions :
           \/ job'[u] = job[u] /\ (job[u].stage = "locked" => rows'[job[u].id].status = "pending")
           \/ Fine(job[u])' /\ job'[u].stage # "locked",
         \A id \in Ids :
           /\ (rows'[id].base = rows[id].base /\ rows'[id].preview = rows[id].preview) \/ Previewed(id)'
           /\ rows'[id].applied = rows[id].applied \/ Written(id)',
         \A id \in Ids' \ Ids : Previewed(id)' /\ Replaced(id)' /\ Written(id)',
         \A r \in Revisions' \ Revisions : Attributed(r)'
  PROVE  IInv'
<1>0. ProposalsTypeOK /\ \A u \in Sessions : Fine(job[u]) /\ job[u] \in Job
  BY JobType DEF IInv
<1>1. Ids' = 1 .. Len(rows') /\ Ids \subseteq Ids'
  BY <1>0, LenProperties, RowsDomain DEF Ids, RowsGrow
<1>2. ASSUME NEW u \in Sessions PROVE Fine(job[u])'
  <2>1. CASE job'[u] = job[u] /\ (job[u].stage = "locked" => rows'[job[u].id].status = "pending")
    <3>1. job[u].stage = "locked" => job[u].id \in Pending'
      BY <1>0, <1>1, <2>1 DEF Fine, Pending
    <3>2. PICK j \in Job : j = job[u] /\ Fine(j)
      BY <1>0
    <3>3. Fine(j)'
      BY <1>0, <1>1, <3>1, <3>2, FineStays
    <3> QED BY <2>1, <3>2, <3>3 DEF Fine
  <2> QED BY <2>1
<1>3. ProposalsTypeOK'
  <2>1. Len(log') >= 1
    BY <1>0, LogDomain DEF LogGrows
  <2>2. \A u \in Sessions :
          /\ job'[u].kind \in {"refresh", "apply"} => job'[u].id \in Ids'
          /\ job'[u].stage = "locked" => job'[u].id \in Pending'
    BY <1>2 DEF Fine
  <2> QED BY <2>1, <2>2 DEF ProposalsTypeOK
<1>4. Exclusive'
  BY DEF IInv, Exclusive
<1>5. \A id \in Ids' : Previewed(id)' /\ Replaced(id)' /\ Written(id)'
  BY <1>1, RowStays
<1>6. \A r \in Revisions' : Attributed(r)'
  BY <1>1, AttributedStays
<1> QED BY <1>2, <1>3, <1>4, <1>5, <1>6 DEF IInv

-----------------------------------------------------------------------------
(* The steps that leave rows and the log alone.                             *)

LEMMA InitHolds == ProposalsInit => IInv
<1> SUFFICES ASSUME ProposalsInit PROVE IInv
  OBVIOUS
<1>0. Needed \in Graphs /\ MaxFailures \in Nat
  BY ProposalsAssumption DEF Graphs
<1>1. /\ log \in Seq([graph : Graphs, by : Nat]) /\ Len(log) = 1 /\ log[1].by = 0
      /\ rows \in Seq(Row) /\ Ids = {}
  BY <1>0 DEF ProposalsInit, Ids
<1>2. /\ job \in [Sessions -> Job]
      /\ \A s \in Sessions : job[s] = NoJob /\ Fine(job[s]) /\ job[s].stage = "idle"
                             /\ job[s].kind = "none"
  BY NoJobIsFine DEF ProposalsInit, NoJob
<1>3. ProposalsTypeOK
  BY <1>0, <1>1, <1>2 DEF ProposalsTypeOK, ProposalsInit
<1>4. Exclusive
  BY <1>2 DEF Exclusive
<1>5. \A r \in Revisions : Attributed(r)
  BY <1>1 DEF Revisions, Attributed
<1> QED BY <1>1, <1>2, <1>3, <1>4, <1>5 DEF IInv

LEMMA JobStepHolds ==
  ASSUME IInv, NEW s \in Sessions,
         \/ \E ops \in SUBSET Suggested : StartPropose(s, ops)
         \/ \E id \in Ids : StartRefresh(s, id)
         \/ ReadRow(s) \/ ReadGraph(s) \/ DryRun(s) \/ SnapshotPending(s)
         \/ ReadReview(s) \/ JobFails(s)
  PROVE  IInv'
<1>0. /\ ProposalsTypeOK /\ Fine(job[s]) /\ failures \in 0 .. MaxFailures /\ MaxFailures \in Nat
      /\ job[s] \in Job /\ job[s].id \in Nat
  BY ProposalsAssumption, JobType DEF IInv, ProposalsTypeOK
<1>1. Len(log) \in Revisions /\ Len(log) \in Nat /\ Graph \in Graphs /\ Graph = log[Len(log)].graph
  BY <1>0, LogDomain DEF Graph
<1>2. ASSUME NEW ops \in SUBSET Suggested, StartPropose(s, ops) PROVE IInv'
  <2> DEFINE j == [NoJob EXCEPT !.kind = "propose", !.stage = "row", !.ops = ops]
  <2>1. j \in Job /\ Fine(j) /\ j.stage = "row"
    BY NoJobIsFine DEF NoJob, Job, Fine
  <2>2. /\ job' = [job EXCEPT ![s] = j] /\ UNCHANGED <<log, rows>>
        /\ failures' \in 0 .. MaxFailures
    BY <1>0, <1>2 DEF StartPropose
  <2> HIDE DEF j
  <2> QED BY <2>1, <2>2, JobStep
<1>3. ASSUME NEW id \in Ids, StartRefresh(s, id) PROVE IInv'
  <2> DEFINE j == [NoJob EXCEPT !.kind = "refresh", !.stage = "row", !.id = id,
                                !.ops = rows[id].ops, !.rev = rows[id].base]
  <2>0. id \in Nat /\ rows[id] \in Row
    BY <1>0, RowsDomain
  <2>1. j \in Job /\ Fine(j) /\ j.stage = "row"
    BY <2>0, NoJobIsFine DEF NoJob, Job, Fine, Row
  <2>2. /\ job' = [job EXCEPT ![s] = j] /\ UNCHANGED <<log, rows>>
        /\ failures' \in 0 .. MaxFailures
    BY <1>0, <1>3 DEF StartRefresh
  <2> HIDE DEF j
  <2> QED BY <2>1, <2>2, JobStep
<1>4. ASSUME Answer(s), UNCHANGED <<log, rows>>, failures' \in 0 .. MaxFailures PROVE IInv'
  <2>1. NoJob.stage # "locked"
    BY DEF NoJob
  <2> QED BY <1>4, <2>1, NoJobIsFine, JobStep DEF Answer
<1>5. CASE ReadRow(s)
  <2> DEFINE j == [job[s] EXCEPT !.stage = "graph", !.rev = Revision]
  <2>1. j \in Job /\ Fine(j) /\ j.stage = "graph"
    BY <1>0, <1>1, <1>5 DEF ReadRow, At, Job, Fine, Revision
  <2>2. UNCHANGED <<log, rows>> /\ failures' \in 0 .. MaxFailures
        /\ (Answer(s) \/ job' = [job EXCEPT ![s] = j])
    BY <1>0, <1>5 DEF ReadRow
  <2> HIDE DEF j
  <2> QED BY <1>4, <2>1, <2>2, JobStep
<1>6. CASE ReadGraph(s)
  <2> DEFINE j == [job[s] EXCEPT !.stage = "dry", !.graph = Graph]
             k == [job[s] EXCEPT !.stage = "mark"]
  <2>1. j \in Job /\ j.stage = "dry" /\ Fine(j)
    <3>1. j \in Job /\ j.stage = "dry" /\ j.graph = log[Len(log)].graph /\ j.rev = job[s].rev
          /\ j.kind = job[s].kind /\ j.id = job[s].id /\ j.ops = job[s].ops /\ j.waits = job[s].waits
      BY <1>0, <1>1 DEF Job
    <3>2. job[s].rev \in Revisions /\ job[s].rev <= Len(log)
      BY <1>0, <1>1, <1>6 DEF ReadGraph, At, Fine, Revisions
    <3> HIDE DEF j
    <3> QED BY <1>0, <1>1, <1>6, <3>1, <3>2 DEF ReadGraph, At, Fine
  <2>2. job[s].kind # "propose" => k \in Job /\ k.stage = "mark" /\ Fine(k)
    BY <1>0, <1>6 DEF ReadGraph, At, Job, Fine
  <2>3. UNCHANGED <<log, rows>> /\ failures' \in 0 .. MaxFailures
        /\ (Answer(s) \/ job' = [job EXCEPT ![s] = j]
             \/ (job[s].kind # "propose" /\ job' = [job EXCEPT ![s] = k]))
    BY <1>0, <1>6 DEF ReadGraph, Go
  <2> HIDE DEF j, k
  <2> QED BY <1>4, <2>1, <2>2, <2>3, JobStep
<1>7. CASE DryRun(s)
  <2> DEFINE j == [job[s] EXCEPT !.stage = "row", !.again = TRUE]
             k(stage) == [job[s] EXCEPT !.stage = stage]
  <2>1. /\ UNCHANGED <<log, rows>> /\ failures' \in 0 .. MaxFailures
        /\ \/ Answer(s)
           \/ job' = [job EXCEPT ![s] = j]
           \/ job[s].kind = "propose" /\ job[s].rev = Revision /\ job' = [job EXCEPT ![s] = k("snapshot")]
           \/ job[s].kind # "propose" /\ job[s].rev = Revision /\ job' = [job EXCEPT ![s] = k("write")]
           \/ job[s].kind # "propose" /\ job' = [job EXCEPT ![s] = k("mark")]
    BY <1>0, <1>7 DEF DryRun, Go
  <2>2. j \in Job /\ j.stage = "row" /\ Fine(j)
    BY <1>0, <1>7 DEF DryRun, At, Job, Fine
  <2>3. job[s].rev = Revision => job[s].rev \in Revisions /\ job[s].graph = log[job[s].rev].graph
    <3>1. PICK r \in Revisions : job[s].rev <= r /\ job[s].graph = log[r].graph
      BY <1>0, <1>7 DEF DryRun, At, Fine
    <3>2. job[s].rev = Revision => r = Len(log)
      BY <1>1, <3>1 DEF Revision, Revisions
    <3> QED BY <1>1, <3>1, <3>2 DEF Revision
  <2>4. job[s].kind = "propose" /\ job[s].rev = Revision =>
          k("snapshot") \in Job /\ k("snapshot").stage = "snapshot" /\ Fine(k("snapshot"))
    BY <1>0, <1>7, <2>3 DEF Job, Fine
  <2>5. job[s].kind # "propose" /\ job[s].rev = Revision =>
          k("write") \in Job /\ k("write").stage = "write" /\ Fine(k("write"))
    BY <1>0, <1>7, <2>3 DEF DryRun, At, Job, Fine
  <2>6. job[s].kind # "propose" => k("mark") \in Job /\ k("mark").stage = "mark" /\ Fine(k("mark"))
    BY <1>0, <1>7 DEF DryRun, At, Job, Fine
  <2> HIDE DEF j, k
  <2> QED BY <1>4, <2>1, <2>2, <2>4, <2>5, <2>6, JobStep
<1>8. CASE SnapshotPending(s)
  <2> DEFINE j == [job[s] EXCEPT !.stage = "insert", !.waits = Pending]
  <2>0. Pending \subseteq Ids /\ Ids \subseteq Nat
    BY <1>0, RowsDomain DEF Pending
  <2>1. j \in Job /\ j.stage = "insert" /\ Fine(j)
    BY <1>0, <1>8, <2>0 DEF SnapshotPending, At, Job, Fine
  <2>2. /\ job' = [job EXCEPT ![s] = j] /\ UNCHANGED <<log, rows>>
        /\ failures' \in 0 .. MaxFailures
    BY <1>0, <1>8 DEF SnapshotPending
  <2> HIDE DEF j
  <2> QED BY <2>1, <2>2, JobStep
<1>9. CASE ReadReview(s) \/ JobFails(s)
  <2>1. Answer(s) /\ UNCHANGED <<log, rows>> /\ failures' \in 0 .. MaxFailures
    BY <1>0, <1>9 DEF ReadReview, JobFails
  <2> QED BY <1>4, <2>1
<1> QED BY <1>2, <1>3, <1>5, <1>6, <1>7, <1>8, <1>9

LEMMA StartApplyHolds ==
  ASSUME IInv, NEW s \in Sessions, NEW id \in Ids, StartApply(s, id)
  PROVE  IInv'
<1> DEFINE j == [NoJob EXCEPT !.kind = "apply", !.stage = "locked", !.id = id, !.ops = rows[id].ops]
<1>0. ProposalsTypeOK /\ failures \in 0 .. MaxFailures /\ id \in Nat /\ rows[id] \in Row
  BY RowsDomain DEF IInv, ProposalsTypeOK
<1>1. j \in Job /\ j.id = id /\ Fine(j)
  BY <1>0, NoJobIsFine DEF NoJob, Job, Fine, Row, StartApply, LockPending
<1>2. /\ job' = [job EXCEPT ![s] = j] /\ UNCHANGED <<log, rows>>
      /\ failures' \in 0 .. MaxFailures /\ ~Locked(id)
  BY <1>0 DEF StartApply, LockPending
<1> HIDE DEF j
<1> QED BY <1>1, <1>2, JobStep

-----------------------------------------------------------------------------
(* The steps that change one proposal.                                      *)

LEMMA OneRow ==
  ASSUME ProposalsTypeOK, NEW id \in Pending, NEW r \in Row, rows' = [rows EXCEPT ![id] = r],
         r.ops = rows[id].ops, r.saw = rows[id].saw
  PROVE  /\ rows' \in Seq(Row) /\ RowsGrow /\ Ids' = Ids /\ id \in Ids /\ rows'[id] = r
         /\ \A other \in Ids : other # id => rows'[other] = rows[other]
<1>1. id \in Ids /\ rows[id].status = "pending"
  BY DEF Pending
<1>2. /\ rows' \in Seq(Row) /\ Len(rows') = Len(rows) /\ Ids' = Ids /\ rows'[id] = r
      /\ \A other \in Ids : other # id => rows'[other] = rows[other]
  BY <1>1, NewRows
<1>3. RowsGrow
  BY <1>1, <1>2, RowsDomain DEF RowsGrow, Keeps
<1> QED BY <1>1, <1>2, <1>3

LEMMA SameRows ==
  ASSUME ProposalsTypeOK, rows' = rows
  PROVE  rows' \in Seq(Row) /\ RowsGrow /\ Ids' = Ids
  BY RowsDomain DEF ProposalsTypeOK, RowsGrow, Keeps, Ids

LEMMA SameLog ==
  ASSUME ProposalsTypeOK, log' = log
  PROVE  log' \in Seq([graph : Graphs, by : Nat]) /\ LogGrows /\ Revisions' = Revisions
  BY LogDomain DEF ProposalsTypeOK, LogGrows, Revisions

\* Ending one's own request, while nobody else's locked proposal is touched.
LEMMA RequestEnds ==
  ASSUME IInv, NEW s \in Sessions, Answer(s),
         NEW touched, \A u \in Sessions : u # s /\ job[u].stage = "locked" => job[u].id \notin touched,
         \A id \in Pending : id \notin touched => rows'[id] = rows[id]
  PROVE  /\ job' \in [Sessions -> Job]
         /\ \A u \in Sessions :
              \/ job'[u] = job[u] /\ (job[u].stage = "locked" => rows'[job[u].id].status = "pending")
              \/ Fine(job[u])' /\ job'[u].stage # "locked"
<1>0. ProposalsTypeOK /\ \A u \in Sessions : Fine(job[u])
  BY DEF IInv
<1>1. job' \in [Sessions -> Job] /\ job'[s] = NoJob /\ \A u \in Sessions : u # s => job'[u] = job[u]
  BY <1>0, NoJobIsFine, NewJob DEF Answer
<1>2. Fine(job[s])' /\ job'[s].stage # "locked"
  BY <1>1 DEF NoJob, Fine
<1>3. ASSUME NEW u \in Sessions, u # s, job[u].stage = "locked" PROVE rows'[job[u].id].status = "pending"
  BY <1>0, <1>3 DEF Fine, Pending
<1> QED BY <1>1, <1>2, <1>3

LEMMA MarkConflictHolds ==
  ASSUME IInv, NEW s \in Sessions, MarkConflict(s)
  PROVE  IInv'
<1> DEFINE id == job[s].id
           r == [rows[id] EXCEPT !.status = "conflict"]
<1>0. ProposalsTypeOK /\ failures' \in 0 .. MaxFailures /\ Answer(s) /\ log' = log
  BY DEF IInv, ProposalsTypeOK, MarkConflict
<1>1. /\ rows' \in Seq(Row) /\ RowsGrow /\ Ids' = Ids
      /\ \A other \in Ids : /\ rows'[other].base = rows[other].base
                            /\ rows'[other].preview = rows[other].preview
                            /\ rows'[other].applied = rows[other].applied
                            /\ other # id => rows'[other] = rows[other]
  <2>1. CASE id \in Pending
    <3>1. id \in Ids /\ rows[id] \in Row
      BY <1>0, <2>1, RowsDomain DEF Pending
    <3>2. r \in Row /\ r.ops = rows[id].ops /\ r.saw = rows[id].saw
          /\ r.base = rows[id].base /\ r.preview = rows[id].preview /\ r.applied = rows[id].applied
      BY <3>1 DEF Row, Settled
    <3>3. rows' = [rows EXCEPT ![id] = r]
      BY <2>1 DEF MarkConflict, UpdatePending
    <3> HIDE DEF r, id
    <3>4. /\ rows' \in Seq(Row) /\ RowsGrow /\ Ids' = Ids /\ rows'[id] = r
          /\ \A other \in Ids : other # id => rows'[other] = rows[other]
      BY <1>0, <2>1, <3>2, <3>3, OneRow
    <3> QED BY <3>2, <3>4
  <2>2. CASE id \notin Pending
    <3>1. rows' = rows
      BY <2>2 DEF MarkConflict, UpdatePending
    <3> QED BY <1>0, <3>1, SameRows
  <2> QED BY <2>1, <2>2
<1>2. \A u \in Sessions : u # s /\ job[u].stage = "locked" => job[u].id \notin {id}
  BY DEF MarkConflict, Locked
<1> HIDE DEF id
<1>3. \A other \in Pending : other \notin {id} => rows'[other] = rows[other]
  BY <1>1 DEF Pending
<1>4. /\ job' \in [Sessions -> Job]
      /\ \A u \in Sessions :
           \/ job'[u] = job[u] /\ (job[u].stage = "locked" => rows'[job[u].id].status = "pending")
           \/ Fine(job[u])' /\ job'[u].stage # "locked"
  BY <1>0, <1>2, <1>3, RequestEnds
<1> QED BY <1>0, <1>1, <1>4, SameLog, RowStep

LEMMA WriteReviewHolds ==
  ASSUME IInv, NEW s \in Sessions, WriteReview(s)
  PROVE  IInv'
<1> DEFINE id == job[s].id
           preview == After(job[s].ops, job[s].graph)
           r == [rows[id] EXCEPT !.base = job[s].rev, !.preview = preview]
           j == [job[s] EXCEPT !.stage = "get"]
<1>0. /\ ProposalsTypeOK /\ failures' \in 0 .. MaxFailures /\ log' = log
      /\ Fine(job[s]) /\ job[s].stage = "write" /\ job[s] \in Job /\ job[s].rev \in Nat
  BY JobType DEF IInv, ProposalsTypeOK, WriteReview, At
<1>1. /\ job[s].kind = "refresh" /\ id \in Ids /\ job[s].ops = rows[id].ops
      /\ job[s].rev \in Revisions /\ job[s].graph = log[job[s].rev].graph
      /\ rows[id] \in Row /\ preview \in Graphs
  BY <1>0, RowsDomain, JobType, AfterType DEF Fine
<1>2. /\ rows' \in Seq(Row) /\ RowsGrow /\ Ids' = Ids
      /\ \A other \in Ids : /\ other # id => rows'[other] = rows[other]
                            /\ rows'[other].applied = rows[other].applied
      /\ \/ rows'[id] = rows[id]
         \/ rows'[id].base = job[s].rev /\ rows'[id].preview = preview /\ rows'[id].ops = rows[id].ops
  <2>1. CASE id \in Pending
    <3>1. r \in Row /\ r.ops = rows[id].ops /\ r.saw = rows[id].saw /\ r.applied = rows[id].applied
          /\ r.base = job[s].rev /\ r.preview = preview
      BY <1>0, <1>1 DEF Row
    <3>2. rows' = [rows EXCEPT ![id] = r]
      BY <2>1 DEF WriteReview, UpdatePending
    <3> HIDE DEF r, id, preview
    <3>3. /\ rows' \in Seq(Row) /\ RowsGrow /\ Ids' = Ids /\ rows'[id] = r
          /\ \A other \in Ids : other # id => rows'[other] = rows[other]
      BY <1>0, <2>1, <3>1, <3>2, OneRow
    <3> QED BY <3>1, <3>3
  <2>2. CASE id \notin Pending
    <3>1. rows' = rows
      BY <2>2 DEF WriteReview, UpdatePending
    <3> QED BY <1>0, <3>1, SameRows
  <2> QED BY <2>1, <2>2
<1>3. j \in Job /\ job' = [job EXCEPT ![s] = j] /\ j.stage = "get" /\ j.kind = "refresh"
      /\ j.id = id /\ j.ops = job[s].ops /\ j.waits = job[s].waits
  BY <1>0, <1>1 DEF Job, WriteReview, Go
<1>4. job' \in [Sessions -> Job] /\ job'[s] = j /\ \A u \in Sessions : u # s => job'[u] = job[u]
  BY <1>0, <1>3, NewJob
<1>5. \A u \in Sessions : u # s /\ job[u].stage = "locked" =>
        job[u].id # id /\ job[u].id \in Pending
  BY DEF WriteReview, Locked, IInv, Fine
<1>6. Fine(job[s])' /\ job'[s].stage # "locked"
  <2>1. rows'[id].ops = rows[id].ops /\ job[s].waits \subseteq Ids
    BY <1>0, <1>1, <1>2 DEF RowsGrow, Keeps, Fine
  <2> HIDE DEF j, id
  <2> QED BY <1>1, <1>2, <1>3, <1>4, <2>1 DEF Fine
<1> HIDE DEF id, j
<1>7. \A u \in Sessions : u # s /\ job[u].stage = "locked" => rows'[job[u].id].status = "pending"
  BY <1>2, <1>5 DEF Pending
<1>8. ASSUME NEW k \in Ids
      PROVE  \/ rows'[k].base = rows[k].base /\ rows'[k].preview = rows[k].preview
             \/ Previewed(k)'
  <2>1. CASE rows'[k] = rows[k]
    BY <2>1
  <2>2. CASE k = id /\ rows'[k].base = job[s].rev /\ rows'[k].preview = preview
                    /\ rows'[k].ops = rows[k].ops
    <3>1. preview = After(rows[k].ops, log[job[s].rev].graph)
      BY <1>1, <2>2 DEF After
    <3> HIDE DEF preview
    <3> QED BY <1>0, <1>1, <2>2, <3>1, SameLog DEF Previewed, After
  <2> QED BY <1>2, <2>1, <2>2
<1> QED BY <1>0, <1>2, <1>4, <1>6, <1>7, <1>8, SameLog, RowStep

LEMMA RefuseApplyHolds ==
  ASSUME IInv, NEW s \in Sessions, RefuseApply(s)
  PROVE  IInv'
<1> DEFINE id == job[s].id
           r == [rows[id] EXCEPT !.status = "conflict"]
<1>0. ProposalsTypeOK /\ failures' \in 0 .. MaxFailures /\ Answer(s) /\ log' = log
      /\ id \in Pending /\ job[s].stage = "locked"
  BY DEF IInv, ProposalsTypeOK, RefuseApply, At
<1>1. id \in Ids /\ rows[id] \in Row
  BY <1>0, RowsDomain DEF Pending
<1>2. r \in Row /\ r.ops = rows[id].ops /\ r.saw = rows[id].saw
      /\ r.base = rows[id].base /\ r.preview = rows[id].preview /\ r.applied = rows[id].applied
  BY <1>1 DEF Row, Settled
<1>3. rows' = [rows EXCEPT ![id] = r]
  BY DEF RefuseApply
<1>4. \A u \in Sessions : u # s /\ job[u].stage = "locked" => job[u].id \notin {id}
  BY <1>0 DEF IInv, Exclusive
<1> HIDE DEF id, r
<1>5. /\ rows' \in Seq(Row) /\ RowsGrow /\ Ids' = Ids /\ rows'[id] = r
      /\ \A other \in Ids : other # id => rows'[other] = rows[other]
  BY <1>0, <1>2, <1>3, OneRow
<1>6. \A other \in Pending : other \notin {id} => rows'[other] = rows[other]
  BY <1>5 DEF Pending
<1>7. /\ job' \in [Sessions -> Job]
      /\ \A u \in Sessions :
           \/ job'[u] = job[u] /\ (job[u].stage = "locked" => rows'[job[u].id].status = "pending")
           \/ Fine(job[u])' /\ job'[u].stage # "locked"
  BY <1>0, <1>4, <1>6, RequestEnds
<1> QED BY <1>0, <1>2, <1>5, <1>7, SameLog, RowStep

LEMMA RejectHolds ==
  ASSUME IInv, NEW id \in Ids, Reject(id)
  PROVE  IInv'
<1> DEFINE r == [rows[id] EXCEPT !.status = "rejected"]
<1>0. ProposalsTypeOK /\ failures' \in 0 .. MaxFailures /\ job' = job /\ log' = log
      /\ id \in Pending /\ rows[id] \in Row /\ job' \in [Sessions -> Job]
  BY RowsDomain DEF IInv, ProposalsTypeOK, Reject, LockPending
<1>2. r \in Row /\ r.ops = rows[id].ops /\ r.saw = rows[id].saw
      /\ r.base = rows[id].base /\ r.preview = rows[id].preview /\ r.applied = rows[id].applied
  BY <1>0 DEF Row, Settled
<1>3. rows' = [rows EXCEPT ![id] = r]
  BY DEF Reject
<1> HIDE DEF r
<1>5. /\ rows' \in Seq(Row) /\ RowsGrow /\ Ids' = Ids /\ rows'[id] = r
      /\ \A other \in Ids : other # id => rows'[other] = rows[other]
  BY <1>0, <1>2, <1>3, OneRow
<1>7. \A u \in Sessions : job[u].stage = "locked" => rows'[job[u].id].status = "pending"
  BY <1>5 DEF IInv, Fine, Pending, Reject, LockPending, Locked
<1> QED BY <1>0, <1>2, <1>5, <1>7, SameLog, RowStep

LEMMA CommitApplyHolds ==
  ASSUME IInv, NEW s \in Sessions, CommitApply(s)
  PROVE  IInv'
<1>0. /\ ProposalsTypeOK /\ failures' \in 0 .. MaxFailures /\ Answer(s)
      /\ job[s].id \in Pending /\ job[s].stage = "locked" /\ job[s].kind = "apply"
      /\ Fine(job[s])
  BY DEF IInv, ProposalsTypeOK, CommitApply, At, Fine
<1>1. PICK id \in Pending : id = job[s].id
  BY <1>0
<1> DEFINE after == After(job[s].ops, Graph)
           n == Len(log) + 1
           r == [rows[id] EXCEPT !.status = "applied", !.applied = n]
<1>2. /\ id \in Ids /\ rows[id] \in Row /\ id \in Nat /\ job[s].ops = rows[id].ops
      /\ after \in Graphs /\ n \in Nat /\ Len(log) \in Nat /\ Len(log) >= 1
      /\ Graph = log[Len(log)].graph
  BY <1>0, <1>1, RowsDomain, LogDomain, JobType, AfterType DEF Fine, Pending, Graph
<1>3. r \in Row /\ r.ops = rows[id].ops /\ r.saw = rows[id].saw /\ r.status = "applied"
      /\ r.base = rows[id].base /\ r.preview = rows[id].preview /\ r.applied = n
  BY <1>2 DEF Row, Settled
<1>4. rows' = [rows EXCEPT ![id] = r] /\ NewRevision(after, id)
  BY <1>1 DEF CommitApply, Revision
<1>5. \A u \in Sessions : u # s /\ job[u].stage = "locked" => job[u].id \notin {id}
  BY <1>0, <1>1 DEF IInv, Exclusive
<1>6. after = After(rows[id].ops, log[Len(log)].graph)
  BY <1>2
<1> HIDE DEF r, after, n
<1>7. /\ rows' \in Seq(Row) /\ RowsGrow /\ Ids' = Ids /\ rows'[id] = r
      /\ \A other \in Ids : other # id => rows'[other] = rows[other]
  BY <1>0, <1>3, <1>4, OneRow
<1>8. /\ log' \in Seq([graph : Graphs, by : Nat]) /\ LogGrows
      /\ Revisions' = Revisions \cup {n} /\ log'[n].graph = after /\ log'[n].by = id
  BY <1>0, <1>2, <1>4, NewLog DEF n
<1>9. \A other \in Pending : other \notin {id} => rows'[other] = rows[other]
  BY <1>7 DEF Pending
<1>10. /\ job' \in [Sessions -> Job]
       /\ \A u \in Sessions :
            \/ job'[u] = job[u] /\ (job[u].stage = "locked" => rows'[job[u].id].status = "pending")
            \/ Fine(job[u])' /\ job'[u].stage # "locked"
  BY <1>0, <1>5, <1>9, RequestEnds
<1>11. Written(id)'
  <2>1. n \in Revisions' \ {1} /\ n - 1 = Len(log) /\ log'[n-1] = log[Len(log)]
    BY <1>0, <1>2, <1>8, LogDomain DEF n, LogGrows
  <2>2. rows'[id].applied = n /\ rows'[id].status = "applied" /\ rows'[id].ops = rows[id].ops
    BY <1>3, <1>7
  <2> QED BY <1>6, <1>8, <2>1, <2>2 DEF Written, After
<1>12. \A k \in Revisions' \ Revisions : Attributed(k)'
  BY <1>2, <1>3, <1>7, <1>8 DEF Attributed
<1> QED BY <1>0, <1>3, <1>7, <1>8, <1>10, <1>11, <1>12, RowStep

LEMMA SaveElsewhereHolds ==
  ASSUME IInv, NEW graph \in Graphs, SaveElsewhere(graph)
  PROVE  IInv'
<1>0. ProposalsTypeOK /\ failures' \in 0 .. MaxFailures /\ job' \in [Sessions -> Job]
      /\ job' = job /\ rows' = rows
  BY DEF IInv, ProposalsTypeOK, SaveElsewhere
<1>1. /\ log' \in Seq([graph : Graphs, by : Nat]) /\ LogGrows
      /\ Revisions' = Revisions \cup {Len(log) + 1} /\ log'[Len(log) + 1].by = 0
  BY <1>0, NewLog DEF SaveElsewhere
<1>2. \A u \in Sessions : job[u].stage = "locked" => rows'[job[u].id].status = "pending"
  BY <1>0 DEF IInv, Fine, Pending
<1>3. \A k \in Revisions' \ Revisions : Attributed(k)'
  BY <1>1 DEF Attributed
<1> QED BY <1>0, <1>1, <1>2, <1>3, SameRows, RowStep

-----------------------------------------------------------------------------
(* Storing a proposal in place of the waiting ones.                         *)

LEMMA SupersededRows ==
  ASSUME ProposalsTypeOK, NEW ids
  PROVE  /\ Superseded(ids) \in Seq(Row) /\ Len(Superseded(ids)) = Len(rows)
         /\ \A id \in Ids : Superseded(ids)[id] =
              IF id \in ids \cap Pending THEN [rows[id] EXCEPT !.status = "superseded"] ELSE rows[id]
<1>1. \A id \in Ids : rows[id] \in Row /\ [rows[id] EXCEPT !.status = "superseded"] \in Row
  BY RowsDomain DEF Row, Settled
<1>2. Superseded(ids) \in [1 .. Len(rows) -> Row] /\ Len(rows) \in Nat
  BY <1>1, RowsDomain DEF Superseded
<1>3. \A id \in Ids : Superseded(ids)[id] =
              IF id \in ids \cap Pending THEN [rows[id] EXCEPT !.status = "superseded"] ELSE rows[id]
  BY DEF Superseded
<1> HIDE DEF Superseded
<1> QED BY <1>2, <1>3, FunctionIsSeq

LEMMA PrunedRows ==
  ASSUME NEW list \in Seq(Row)
  PROVE  /\ Pruned(list) \in Seq(Row) /\ Len(Pruned(list)) = Len(list)
         /\ \A i \in 1 .. Len(list) :
              \/ Pruned(list)[i] = list[i]
              \/ list[i].status \in Settled /\ Pruned(list)[i] = [list[i] EXCEPT !.status = "pruned"]
<1> DEFINE settled == {id \in DOMAIN list : list[id].status \in Settled}
           stale == {id \in settled : Cardinality({newer \in settled : newer > id}) >= Kept}
<1>0. DOMAIN list = 1 .. Len(list) /\ Len(list) \in Nat /\ \A i \in 1 .. Len(list) : list[i] \in Row
  BY ElementOfSeq, LenProperties
<1>1. \A i \in stale : list[i].status \in Settled
  OBVIOUS
<1>2. Pruned(list) = [id \in DOMAIN list |->
        IF id \in stale THEN [list[id] EXCEPT !.status = "pruned"] ELSE list[id]]
  BY DEF Pruned
<1> HIDE DEF stale
<1>3. \A i \in 1 .. Len(list) : list[i] \in Row /\ [list[i] EXCEPT !.status = "pruned"] \in Row
  BY <1>0 DEF Row
<1>4. Pruned(list) \in [1 .. Len(list) -> Row]
  BY <1>0, <1>2, <1>3
<1>5. \A i \in 1 .. Len(list) :
        \/ Pruned(list)[i] = list[i]
        \/ list[i].status \in Settled /\ Pruned(list)[i] = [list[i] EXCEPT !.status = "pruned"]
  BY <1>0, <1>1, <1>2
<1> QED BY <1>0, <1>4, <1>5, FunctionIsSeq

LEMMA ReplaceHolds ==
  ASSUME IInv, NEW s \in Sessions, Replace(s)
  PROVE  IInv'
<1> DEFINE waits == job[s].waits
           marked == Superseded(waits)
           new == NewRow(s)
           list == Append(marked, new)
           n == Len(rows) + 1
<1>0. /\ ProposalsTypeOK /\ failures' \in 0 .. MaxFailures /\ Answer(s) /\ log' = log
      /\ Fine(job[s]) /\ job[s].stage = "insert" /\ waits \subseteq Ids
  BY DEF IInv, ProposalsTypeOK, Replace, At, Fine
<1>1. /\ new \in Row /\ new.status = "pending" /\ new.saw = waits /\ new.base \in Revisions
      /\ new.preview = After(new.ops, log[new.base].graph) /\ new.applied = 0
  <2>1. After(job[s].ops, job[s].graph) \in Graphs /\ job[s].rev \in Revisions
        /\ job[s].graph = log[job[s].rev].graph
    BY <1>0, JobType, AfterType DEF Fine
  <2> QED BY <1>0, <2>1, JobType DEF NewRow, Row, After
<1>2. /\ marked \in Seq(Row) /\ Len(marked) = Len(rows)
      /\ \A id \in Ids : marked[id] =
           IF id \in waits \cap Pending THEN [rows[id] EXCEPT !.status = "superseded"] ELSE rows[id]
  BY <1>0, SupersededRows
<1>3. rows' = Pruned(list) /\ Ids = 1 .. Len(rows) /\ Len(rows) \in Nat
      /\ \A id \in Ids : rows[id] \in Row
  BY <1>0, RowsDomain DEF Replace
<1>4. /\ list \in Seq(Row) /\ Len(list) = n /\ list[n] = new
      /\ \A id \in Ids : list[id] = marked[id]
  <2> HIDE DEF marked, new
  <2> QED BY <1>1, <1>2, <1>3, AppendProperties
<1> HIDE DEF waits, marked, new, list
<1>5. /\ rows' \in Seq(Row) /\ Len(rows') = n
      /\ \A i \in 1 .. n :
           \/ rows'[i] = list[i]
           \/ list[i].status \in Settled /\ rows'[i] = [list[i] EXCEPT !.status = "pruned"]
  BY <1>3, <1>4, PrunedRows
<1>6. rows'[n] = new /\ Ids' = Ids \cup {n} /\ n \notin Ids
  BY <1>1, <1>3, <1>4, <1>5, LenProperties DEF Settled, Ids
<1>7. ASSUME NEW id \in Ids
      PROVE  /\ Keeps(rows[id], rows'[id])
             /\ rows'[id].base = rows[id].base /\ rows'[id].preview = rows[id].preview
             /\ rows'[id].applied = rows[id].applied
             /\ id \in waits => rows'[id].status # "pending"
             /\ id \notin waits /\ rows[id].status = "pending" => rows'[id] = rows[id]
  <2>0. id \in 1 .. n /\ list[id] = marked[id]
    BY <1>3, <1>4
  <2>1. \/ rows'[id] = marked[id]
        \/ marked[id].status \in Settled /\ rows'[id] = [marked[id] EXCEPT !.status = "pruned"]
    BY <1>5, <2>0
  <2>2. rows[id] \in Row
    BY <1>3
  <2>3. CASE id \in waits \cap Pending
    <3>1. marked[id] = [rows[id] EXCEPT !.status = "superseded"] /\ rows[id].status = "pending"
      BY <1>2, <2>3 DEF Pending
    <3>2. /\ marked[id].status = "superseded" /\ marked[id].ops = rows[id].ops
          /\ marked[id].saw = rows[id].saw /\ marked[id].base = rows[id].base
          /\ marked[id].preview = rows[id].preview /\ marked[id].applied = rows[id].applied
          /\ DOMAIN marked[id] = DOMAIN rows[id]
      BY <2>2, <3>1 DEF Row
    <3>3. /\ rows'[id].status # "pending" /\ rows'[id].ops = marked[id].ops
          /\ rows'[id].saw = marked[id].saw /\ rows'[id].base = marked[id].base
          /\ rows'[id].preview = marked[id].preview /\ rows'[id].applied = marked[id].applied
      BY <2>1, <2>2, <3>1, <3>2 DEF Row
    <3> QED BY <2>3, <3>1, <3>2, <3>3 DEF Keeps
  <2>4. CASE id \notin waits \cap Pending
    <3>1. marked[id] = rows[id]
      BY <1>2, <2>4
    <3>2. id \in waits => rows[id].status # "pending"
      BY <2>4 DEF Pending
    <3> QED BY <2>1, <2>2, <3>1, <3>2 DEF Keeps, Row, Settled
  <2> QED BY <2>3, <2>4
<1>8. RowsGrow
  BY <1>3, <1>5, <1>7 DEF RowsGrow
<1>9. \A u \in Sessions : u # s /\ job[u].stage = "locked" => job[u].id \notin waits
  BY DEF Replace, Locked, waits
<1>10. \A id \in Pending : id \notin waits => rows'[id] = rows[id]
  BY <1>7 DEF Pending
<1>11. /\ job' \in [Sessions -> Job]
       /\ \A u \in Sessions :
            \/ job'[u] = job[u] /\ (job[u].stage = "locked" => rows'[job[u].id].status = "pending")
            \/ Fine(job[u])' /\ job'[u].stage # "locked"
  BY <1>0, <1>9, <1>10, RequestEnds
<1>12. ASSUME NEW k \in Ids' \ Ids PROVE Previewed(k)' /\ Replaced(k)' /\ Written(k)'
  <2>1. k = n /\ rows'[k] = new
    BY <1>6, <1>12
  <2>2. Previewed(k)'
    BY <1>0, <1>1, <2>1, SameLog DEF Previewed, After
  <2>3. Replaced(k)'
    BY <1>0, <1>1, <1>6, <1>7, <2>1 DEF Replaced, Pending
  <2>4. Written(k)'
    BY <1>1, <2>1 DEF Written
  <2> QED BY <2>2, <2>3, <2>4
<1> QED BY <1>0, <1>5, <1>7, <1>8, <1>11, <1>12, SameLog, RowStep

-----------------------------------------------------------------------------
(* The theorems.                                                            *)

LEMMA StepHolds == IInv /\ [ProposalsNext]_vars => IInv'
<1> SUFFICES ASSUME IInv, [ProposalsNext]_vars PROVE IInv'
  OBVIOUS
<1>1. ASSUME NEW s \in Sessions, Serve(s) PROVE IInv'
  BY <1>1, JobStepHolds, ReplaceHolds, MarkConflictHolds, WriteReviewHolds, CommitApplyHolds,
     RefuseApplyHolds DEF Serve
<1>2. ASSUME NEW s \in Sessions, JobFails(s) PROVE IInv'
  BY <1>2, JobStepHolds
<1>3. ASSUME NEW s \in Sessions, NEW ops \in (SUBSET Suggested) \ {{}}, StartPropose(s, ops) PROVE IInv'
  BY <1>3, JobStepHolds
<1>4. ASSUME NEW s \in Sessions, NEW id \in Ids, StartRefresh(s, id) \/ StartApply(s, id) PROVE IInv'
  BY <1>4, JobStepHolds, StartApplyHolds
<1>5. ASSUME NEW id \in Ids, Reject(id) PROVE IInv'
  BY <1>5, RejectHolds
<1>6. ASSUME NEW e \in Edits \ Suggested,
             SaveElsewhere(Graph \cup {e}) \/ SaveElsewhere(Graph \ {e})
      PROVE  IInv'
  <2>1. Graph \cup {e} \in Graphs /\ Graph \ {e} \in Graphs
    BY LogDomain DEF IInv, Graphs
  <2> QED BY <1>6, <2>1, SaveElsewhereHolds
<1>7. CASE UNCHANGED vars
  <2>1. UNCHANGED <<log, rows, job, failures>>
    BY <1>7 DEF vars
  <2>2. Ids' = Ids /\ Pending' = Pending /\ Revisions' = Revisions
    BY <2>1 DEF Ids, Pending, Revisions
  <2>3. ProposalsTypeOK' /\ Exclusive'
    BY <2>1, <2>2 DEF IInv, ProposalsTypeOK, Exclusive, Ids
  <2>4. \A s \in Sessions : Fine(job[s])'
    BY <2>1, <2>2 DEF IInv, Fine
  <2>5. \A id \in Ids : Previewed(id)' /\ Replaced(id)' /\ Written(id)'
    BY <2>1, <2>2 DEF IInv, Previewed, Replaced, Written
  <2>6. \A r \in Revisions : Attributed(r)'
    BY <2>1, <2>2 DEF IInv, Attributed
  <2> QED BY <2>2, <2>3, <2>4, <2>5, <2>6 DEF IInv
<1> QED BY <1>1, <1>2, <1>3, <1>4, <1>5, <1>6, <1>7 DEF ProposalsNext

\* The invariant above holds of every state: what a request read between two of
\* its transactions is still true of the build or is checked again.
THEOREM Invariant == ProposalsSpec => []IInv
  BY InitHolds, StepHolds, PTL DEF ProposalsSpec

\* Every state is well typed, and whoever holds the lock of a proposal finds it
\* pending (lockPending).
THEOREM ProposalsTypeCorrect == ProposalsSpec => []ProposalsTypeOK
<1>1. IInv => ProposalsTypeOK
  BY DEF IInv
<1> QED BY <1>1, Invariant, PTL

\* The stored preview is that of the revision it names (PreviewTopology, Refresh).
THEOREM PreviewsMatch == ProposalsSpec => []PreviewMatchesBase
<1>1. IInv => PreviewMatchesBase
  BY DEF IInv, Previewed, PreviewMatchesBase
<1> QED BY <1>1, Invariant, PTL

\* What was waiting when a proposal replaced it waits no more (Propose).
THEOREM ReplacedDoNotWait == ProposalsSpec => []WaitingIsReplaced
<1>1. IInv => WaitingIsReplaced
  BY DEF IInv, Replaced, WaitingIsReplaced
<1> QED BY <1>1, Invariant, PTL

\* A proposal is written to the build at most once, on top of the revision before,
\* and is settled as applied when it is (Apply).
THEOREM AppliedAtMostOnce == ProposalsSpec => []AppliedOnce
<1>1. IInv => AppliedOnce
  <2> SUFFICES ASSUME IInv, NEW id \in Ids
               PROVE  LET made == {r \in 1 .. Revision : log[r].by = id}
                      IN  /\ made = IF rows[id].applied = 0 THEN {} ELSE {rows[id].applied}
                          /\ made # {} => rows[id].status \in {"applied", "pruned"}
                          /\ \A r \in made : log[r].graph = After(rows[id].ops, log[r-1].graph)
    BY DEF AppliedOnce
  <2> DEFINE made == {r \in 1 .. Revision : log[r].by = id}
  <2>1. id # 0 /\ Written(id) /\ \A r \in Revisions : Attributed(r) /\ r # 0
    BY RowsDomain DEF IInv, Revisions
  <2>2. \A r \in made : r \in Revisions /\ rows[id].applied = r
    BY <2>1 DEF Attributed, Revisions, Revision
  <2>3. rows[id].applied # 0 => rows[id].applied \in made
    BY <2>1 DEF Written, Revisions, Revision
  <2>4. made = IF rows[id].applied = 0 THEN {} ELSE {rows[id].applied}
    BY <2>1, <2>2, <2>3
  <2> HIDE DEF made
  <2>5. made # {} => rows[id].applied # 0
    BY <2>4
  <2> QED BY <2>1, <2>4, <2>5 DEF Written, made
<1> QED BY <1>1, Invariant, PTL

\* A replacement leaves what was settled as it was, or prunes it.
LEMMA ReplaceKeeps ==
  ASSUME ProposalsTypeOK, NEW s \in Sessions, Replace(s),
         NEW id \in Ids, rows[id].status \in Settled, NewRow(s) \in Row
  PROVE  rows'[id] \in {rows[id], [rows[id] EXCEPT !.status = "pruned"]}
<1> DEFINE marked == Superseded(job[s].waits)
           list == Append(marked, NewRow(s))
<1>1. marked \in Seq(Row) /\ Len(marked) = Len(rows) /\ marked[id] = rows[id]
  BY SupersededRows DEF Pending, Settled
<1>2. rows' = Pruned(list) /\ id \in 1 .. Len(rows) /\ Len(rows) \in Nat
  BY RowsDomain DEF Replace
<1> HIDE DEF marked
<1>3. list \in Seq(Row) /\ Len(list) = Len(rows) + 1 /\ list[id] = rows[id]
  BY <1>1, <1>2, AppendProperties
<1> HIDE DEF list
<1>4. id \in 1 .. Len(list)
  BY <1>2, <1>3
<1>5. \/ Pruned(list)[id] = list[id]
      \/ Pruned(list)[id] = [list[id] EXCEPT !.status = "pruned"]
  BY <1>3, <1>4, PrunedRows
<1> QED BY <1>2, <1>3, <1>5

\* So does every step.
LEMMA StepKeepsSettled ==
  ASSUME IInv, [ProposalsNext]_vars, NEW id \in Ids, rows[id].status \in Settled
  PROVE  rows'[id] \in {rows[id], [rows[id] EXCEPT !.status = "pruned"]}
<1>0. ProposalsTypeOK /\ id \notin Pending
  BY DEF IInv, Pending, Settled
<1>1. \A s \in Sessions : job[s].stage = "locked" => job[s].id \in Pending
  BY DEF IInv, Fine
<1>2. ASSUME NEW s \in Sessions, Serve(s)
      PROVE  rows'[id] \in {rows[id], [rows[id] EXCEPT !.status = "pruned"]}
  <2>1. CASE ReadRow(s) \/ ReadGraph(s) \/ DryRun(s) \/ SnapshotPending(s) \/ ReadReview(s)
    BY <2>1 DEF ReadRow, ReadGraph, DryRun, SnapshotPending, ReadReview
  <2>2. CASE MarkConflict(s) \/ WriteReview(s)
    BY <1>0, <2>2 DEF MarkConflict, WriteReview, UpdatePending, Ids
  <2>3. CASE CommitApply(s) \/ RefuseApply(s)
    <3>1. job[s].id # id
      BY <1>0, <1>1, <2>3 DEF CommitApply, RefuseApply, At
    <3> QED BY <2>3, <3>1 DEF CommitApply, RefuseApply, Ids
  <2>4. CASE Replace(s)
    <3>1. Fine(job[s]) /\ job[s] \in Job /\ job[s].stage = "insert"
      BY <1>0, <2>4, JobType DEF IInv, Replace, At
    <3>2. job[s].rev \in Nat /\ job[s].graph \in Graphs /\ job[s].ops \in SUBSET Suggested
          /\ job[s].waits \in SUBSET Nat
      BY <1>0, JobType
    <3>3. NewRow(s) \in Row
      BY <3>2, AfterType DEF NewRow, Row
    <3> QED BY <1>0, <2>4, <3>1, <3>3, ReplaceKeeps
  <2> QED BY <1>2, <2>1, <2>2, <2>3, <2>4 DEF Serve
<1>3. ASSUME NEW other \in Ids, Reject(other)
      PROVE  rows'[id] = rows[id]
  <2>1. other # id
    BY <1>0, <1>3 DEF Reject, LockPending
  <2> QED BY <1>3, <2>1 DEF Reject, Ids
<1>4. CASE \E s \in Sessions :
             \/ \E ops \in (SUBSET Suggested) \ {{}} : StartPropose(s, ops)
             \/ \E k \in Ids : StartRefresh(s, k) \/ StartApply(s, k)
             \/ JobFails(s)
  BY <1>4 DEF StartPropose, StartRefresh, StartApply, JobFails
<1>5. CASE \E e \in Edits \ Suggested : SaveElsewhere(Graph \cup {e}) \/ SaveElsewhere(Graph \ {e})
  BY <1>5 DEF SaveElsewhere
<1>6. CASE UNCHANGED vars
  BY <1>6 DEF vars
<1> QED BY <1>2, <1>3, <1>4, <1>5, <1>6 DEF ProposalsNext

\* A settled proposal stays as it was settled until it is pruned (Refresh, Propose,
\* lockPending).
THEOREM DecisionsAreFinal == ProposalsSpec => ResolvedIsFinal
<1> DEFINE Final ==
      \A id \in Ids : rows[id].status \in Settled =>
        rows'[id] \in {rows[id], [rows[id] EXCEPT !.status = "pruned"]}
<1>1. IInv /\ [ProposalsNext]_vars => [Final]_vars
  BY StepKeepsSettled
<1> HIDE DEF Final
<1>2. ProposalsSpec => [][Final]_vars
  BY <1>1, Invariant, PTL DEF ProposalsSpec
<1> QED BY <1>2 DEF Final, ResolvedIsFinal

-----------------------------------------------------------------------------
(***************************************************************************)
(* Pruning keeps the newest settled proposals.  The step that prunes        *)
(* counts; every other step can only settle more.                          *)
(***************************************************************************)

SettledAfter(list, id) == {newer \in DOMAIN list : newer > id /\ list[newer].status \in Settled}

NewestKept(list) ==
  \A id \in DOMAIN list : list[id].status = "pruned" => Cardinality(SettledAfter(list, id)) >= Kept

LEMMA Largest ==
  ASSUME NEW n \in Nat, NEW S \in SUBSET (1 .. n), S # {}
  PROVE  \E x \in S : \A y \in S : y <= x
<1> DEFINE T == {i \in Nat : \E x \in S : i = n - x}
<1>1. T \subseteq Nat /\ T # {}
  <2>1. PICK x \in S : TRUE
    OBVIOUS
  <2>2. n - x \in Nat
    BY <2>1
  <2> QED BY <2>1, <2>2
<1>2. PICK i \in T : \A j \in T : ~(<<j, i>> \in OpToRel(<, Nat))
  <2> HIDE DEF T
  <2> QED BY <1>1, NatLessThanWellFounded, WFMin
<1>3. PICK x \in S : i = n - x
  OBVIOUS
<1>4. ASSUME NEW y \in S, y > x PROVE FALSE
  <2>1. n - y \in T /\ n - y < i /\ n - y \in Nat /\ i \in Nat
    BY <1>3, <1>4
  <2> QED BY <1>2, <2>1 DEF OpToRel
<1>5. \A y \in S : y <= x
  BY <1>4
<1> QED BY <1>5

LEMMA SettledAfterFinite ==
  ASSUME NEW list \in Seq(Row), NEW id
  PROVE  IsFiniteSet(SettledAfter(list, id)) /\ SettledAfter(list, id) \in SUBSET (1 .. Len(list))
<1>1. DOMAIN list = 1 .. Len(list) /\ Len(list) \in Nat
  BY LenProperties
<1>2. IsFiniteSet(1 .. Len(list))
  BY <1>1, FS_Interval
<1>3. SettledAfter(list, id) \in SUBSET (1 .. Len(list))
  BY <1>1 DEF SettledAfter
<1> QED BY <1>2, <1>3, FS_Subset

\* More rows, more of them settled, and none pruned that was not.
LEMMA SettlingKeeps ==
  ASSUME NEW old \in Seq(Row), NEW new \in Seq(Row), NewestKept(old),
         DOMAIN old \subseteq DOMAIN new,
         \A id \in DOMAIN old : old[id].status \in Settled => new[id].status \in Settled,
         \A id \in DOMAIN new :
           new[id].status = "pruned" => id \in DOMAIN old /\ old[id].status = "pruned"
  PROVE  NewestKept(new)
<1> SUFFICES ASSUME NEW id \in DOMAIN new, new[id].status = "pruned"
             PROVE  Cardinality(SettledAfter(new, id)) >= Kept
  BY DEF NewestKept
<1>1. Cardinality(SettledAfter(old, id)) >= Kept
  BY DEF NewestKept
<1>2. SettledAfter(old, id) \in SUBSET SettledAfter(new, id)
  BY DEF SettledAfter
<1>3. Cardinality(SettledAfter(old, id)) <= Cardinality(SettledAfter(new, id))
  BY <1>2, SettledAfterFinite, FS_Subset
<1> QED
  <2>1. /\ Cardinality(SettledAfter(old, id)) \in Nat
        /\ Cardinality(SettledAfter(new, id)) \in Nat /\ Kept \in Nat
    BY SettledAfterFinite, FS_CardinalityType, ProposalsAssumption
  <2> QED BY <1>1, <1>3, <2>1

\* What is pruned has as many newer ones as are kept, and those are not pruned: the
\* newest one pruned of them would itself have as many newer ones.
LEMMA PruningKeeps ==
  ASSUME NEW list \in Seq(Row), NewestKept(list)
  PROVE  NewestKept(Pruned(list))
<1> DEFINE settled == {id \in DOMAIN list : list[id].status \in Settled}
           stale == {id \in settled : Cardinality({newer \in settled : newer > id}) >= Kept}
           new == Pruned(list)
<1>0. DOMAIN list = 1 .. Len(list) /\ Len(list) \in Nat /\ Kept \in Nat
      /\ \A id \in DOMAIN list : list[id] \in Row
  BY ElementOfSeq, LenProperties, ProposalsAssumption
<1>1. DOMAIN new = DOMAIN list /\ new \in Seq(Row)
  BY <1>0, PrunedRows, LenProperties
<1>2. \A id \in DOMAIN list :
        new[id] = IF id \in stale THEN [list[id] EXCEPT !.status = "pruned"] ELSE list[id]
  BY DEF Pruned
<1>3. \A id \in DOMAIN list : {newer \in settled : newer > id} = SettledAfter(list, id)
  BY DEF SettledAfter
<1>4. \A id \in stale : id \in settled /\ Cardinality(SettledAfter(list, id)) >= Kept
  BY <1>3
<1>5. \A id \in settled \ stale : ~(Cardinality(SettledAfter(list, id)) >= Kept)
  BY <1>3
<1>6. \A id \in DOMAIN list : id \in settled <=> list[id].status \in Settled
  OBVIOUS
<1>7. stale \subseteq settled /\ settled \subseteq DOMAIN list
  OBVIOUS
<1> HIDE DEF settled, stale, new
<1>8. \A id \in DOMAIN list :
        new[id].status = IF id \in stale THEN "pruned" ELSE list[id].status
  BY <1>0, <1>2 DEF Row
<1> SUFFICES ASSUME NEW id \in DOMAIN list, new[id].status = "pruned"
             PROVE  Cardinality(SettledAfter(new, id)) >= Kept
  BY <1>1 DEF NewestKept, new
<1> DEFINE was == SettledAfter(list, id)
           is == SettledAfter(new, id)
<1>9. Cardinality(was) >= Kept
  BY <1>4, <1>8 DEF NewestKept
<1>10. is = was \ stale
  BY <1>1, <1>6, <1>7, <1>8 DEF SettledAfter, Settled
<1>11. IsFiniteSet(was) /\ was \in SUBSET (1 .. Len(list)) /\ IsFiniteSet(is)
       /\ Cardinality(was) \in Nat /\ Cardinality(is) \in Nat
  BY <1>1, SettledAfterFinite, FS_CardinalityType
<1>12. CASE was \cap stale = {}
  BY <1>9, <1>10, <1>12
<1>13. CASE was \cap stale # {}
  <2>1. PICK x \in was \cap stale : \A y \in was \cap stale : y <= x
    <3>1. was \cap stale \in SUBSET (1 .. Len(list))
      BY <1>11
    <3> QED BY <1>0, <1>13, <3>1, Largest
  <2>2. SettledAfter(list, x) \subseteq is
    <3>1. x > id /\ x \in 1 .. Len(list) /\ id \in 1 .. Len(list)
      BY <1>0, <1>11, <2>1 DEF SettledAfter
    <3>2. ASSUME NEW y \in SettledAfter(list, x) PROVE y \in is
      <4>1. y \in was /\ y \in Nat /\ y > x
        BY <1>0, <3>1 DEF SettledAfter
      <4>2. y \notin stale
        BY <2>1, <3>1, <4>1
      <4> QED BY <1>10, <4>1, <4>2
    <3> QED BY <3>2
  <2>3. Cardinality(SettledAfter(list, x)) <= Cardinality(is)
    BY <1>11, <2>2, FS_Subset
  <2>4. Cardinality(SettledAfter(list, x)) >= Kept /\ Cardinality(SettledAfter(list, x)) \in Nat
    BY <1>4, <2>1, SettledAfterFinite, FS_CardinalityType
  <2> QED BY <1>0, <1>11, <2>3, <2>4
<1> QED BY <1>12, <1>13

\* No other step prunes, and what is settled stays so.
LEMMA StepSettles ==
  ASSUME IInv, [ProposalsNext]_vars, \A s \in Sessions : ~Replace(s)
  PROVE  /\ DOMAIN rows' = DOMAIN rows
         /\ \A id \in Ids : rows'[id].status = "pruned" => rows[id].status = "pruned"
<1>0. ProposalsTypeOK /\ \A id \in Ids : rows[id] \in Row
  BY RowsDomain DEF IInv
<1>1. ASSUME NEW s \in Sessions, Serve(s)
      PROVE  /\ DOMAIN rows' = DOMAIN rows
             /\ \A id \in Ids : rows'[id].status = "pruned" => rows[id].status = "pruned"
  <2>1. CASE ReadRow(s) \/ ReadGraph(s) \/ DryRun(s) \/ SnapshotPending(s) \/ ReadReview(s)
    BY <2>1 DEF ReadRow, ReadGraph, DryRun, SnapshotPending, ReadReview
  <2>2. CASE MarkConflict(s) \/ WriteReview(s)
    <3> DEFINE id == job[s].id
               marked == [rows[id] EXCEPT !.status = "conflict"]
               reviewed == [rows[id] EXCEPT !.base = job[s].rev,
                                            !.preview = After(job[s].ops, job[s].graph)]
    <3>1. UpdatePending(id, marked) \/ UpdatePending(id, reviewed)
      BY <2>2 DEF MarkConflict, WriteReview
    <3> HIDE DEF id
    <3>2. CASE id \in Pending
      <4>1. id \in Ids /\ rows[id].status = "pending" /\ rows[id] \in Row
        BY <1>0, <3>2 DEF Pending
      <4>2. marked.status # "pruned" /\ reviewed.status # "pruned"
        BY <4>1 DEF Row
      <4> HIDE DEF marked, reviewed
      <4>3. rows' = [rows EXCEPT ![id] = marked] \/ rows' = [rows EXCEPT ![id] = reviewed]
        BY <3>1, <3>2 DEF UpdatePending
      <4> QED BY <4>1, <4>2, <4>3 DEF Ids
    <3>3. CASE id \notin Pending
      BY <3>1, <3>3 DEF UpdatePending
    <3> QED BY <3>2, <3>3
  <2>3. CASE CommitApply(s)
    BY <1>0, <2>3 DEF CommitApply, Ids, Row
  <2>4. CASE RefuseApply(s)
    BY <1>0, <2>4 DEF RefuseApply, Ids, Row
  <2> QED BY <1>1, <2>1, <2>2, <2>3, <2>4 DEF Serve
<1>2. ASSUME NEW other \in Ids, Reject(other)
      PROVE  /\ DOMAIN rows' = DOMAIN rows
             /\ \A id \in Ids : rows'[id].status = "pruned" => rows[id].status = "pruned"
  BY <1>0, <1>2 DEF Reject, Ids, Row
<1>3. CASE rows' = rows
  BY <1>3
<1> QED BY <1>1, <1>2, <1>3
        DEF ProposalsNext, vars, StartPropose, StartRefresh, StartApply, JobFails, SaveElsewhere

LEMMA ReplaceKeepsNewest ==
  ASSUME IInv, NewestKept(rows), NEW s \in Sessions, Replace(s)
  PROVE  NewestKept(rows')
<1> DEFINE marked == Superseded(job[s].waits)
           list == Append(marked, NewRow(s))
           n == Len(rows) + 1
<1>0. /\ ProposalsTypeOK /\ rows \in Seq(Row) /\ Ids = 1 .. Len(rows) /\ Len(rows) \in Nat
      /\ \A id \in Ids : rows[id] \in Row
  BY RowsDomain DEF IInv, ProposalsTypeOK
<1>1. NewRow(s) \in Row /\ NewRow(s).status = "pending"
  <2>1. job[s].rev \in Nat /\ job[s].graph \in Graphs /\ job[s].ops \in SUBSET Suggested
        /\ job[s].waits \in SUBSET Nat
    BY <1>0, JobType
  <2> QED BY <2>1, AfterType DEF NewRow, Row
<1>2. /\ marked \in Seq(Row) /\ Len(marked) = Len(rows)
      /\ \A id \in Ids : \/ marked[id] = rows[id]
                         \/ id \in Pending /\ marked[id] = [rows[id] EXCEPT !.status = "superseded"]
  BY <1>0, SupersededRows
<1>3. \A id \in Ids : /\ rows[id].status \in Settled => marked[id].status \in Settled
                      /\ marked[id].status = "pruned" => rows[id].status = "pruned"
  BY <1>0, <1>2 DEF Row, Settled
<1>4. rows' = Pruned(list)
  BY DEF Replace
<1> HIDE DEF marked
<1>5. /\ list \in Seq(Row) /\ Len(list) = n /\ list[n] = NewRow(s) /\ n \in Nat
      /\ \A id \in 1 .. Len(rows) : list[id] = marked[id]
  BY <1>0, <1>1, <1>2, AppendProperties
<1> HIDE DEF list
<1>6. DOMAIN list = 1 .. n /\ DOMAIN rows = 1 .. Len(rows)
  BY <1>0, <1>5, LenProperties
<1>7. ASSUME NEW id \in DOMAIN list, list[id].status = "pruned"
      PROVE  id \in DOMAIN rows /\ rows[id].status = "pruned"
  <2>1. id # n
    BY <1>1, <1>5, <1>7
  <2>2. id \in 1 .. Len(rows)
    BY <1>0, <1>6, <2>1
  <2> QED BY <1>0, <1>3, <1>5, <1>6, <1>7, <2>2
<1>8. \A id \in DOMAIN rows : rows[id].status \in Settled => list[id].status \in Settled
  BY <1>0, <1>3, <1>5, <1>6
<1>9. DOMAIN rows \subseteq DOMAIN list
  BY <1>0, <1>6
<1>10. NewestKept(list)
  BY <1>0, <1>5, <1>7, <1>8, <1>9, SettlingKeeps
<1> QED BY <1>4, <1>5, <1>10, PruningKeeps

LEMMA StepKeepsNewest == IInv /\ NewestKept(rows) /\ [ProposalsNext]_vars => NewestKept(rows')
<1> SUFFICES ASSUME IInv, NewestKept(rows), [ProposalsNext]_vars PROVE NewestKept(rows')
  OBVIOUS
<1>1. CASE \E s \in Sessions : Replace(s)
  BY <1>1, ReplaceKeepsNewest
<1>2. CASE \A s \in Sessions : ~Replace(s)
  <2>1. rows \in Seq(Row) /\ rows' \in Seq(Row)
    BY StepHolds DEF IInv, ProposalsTypeOK
  <2>2. /\ DOMAIN rows' = DOMAIN rows
        /\ \A id \in DOMAIN rows : rows'[id].status = "pruned" => rows[id].status = "pruned"
    BY <1>2, StepSettles DEF Ids
  <2>3. \A id \in DOMAIN rows : rows[id].status \in Settled => rows'[id].status \in Settled
    <3>1. ASSUME NEW id \in DOMAIN rows, rows[id].status \in Settled
          PROVE  rows'[id].status \in Settled
      <4>1. rows'[id] \in {rows[id], [rows[id] EXCEPT !.status = "pruned"]}
        BY <3>1, StepKeepsSettled DEF Ids
      <4>2. rows[id] \in Row
        BY RowsDomain DEF IInv, Ids
      <4>3. [rows[id] EXCEPT !.status = "pruned"].status = "pruned"
        BY <4>2 DEF Row
      <4> QED BY <2>2, <3>1, <4>1, <4>3 DEF Settled
    <3> QED BY <3>1
  <2> QED BY <2>1, <2>2, <2>3, SettlingKeeps
<1> QED BY <1>1, <1>2

\* Whatever is settled, replaced and pruned in whichever order, a proposal is forgotten
\* only when as many newer settled ones are kept as keptResolvedProposals says.
THEOREM NewestOutlivePruning == ProposalsSpec => []NewestSettledAreKept
<1>1. ProposalsInit => NewestKept(rows)
  BY DEF ProposalsInit, NewestKept
<1>2. NewestKept(rows) => NewestSettledAreKept
  BY DEF NewestKept, NewestSettledAreKept, SettledAfter, Ids
<1>3. IInv /\ NewestKept(rows) /\ [ProposalsNext]_vars => NewestKept(rows')
  BY StepKeepsNewest
<1> QED
  <2>1. IInv /\ NewestKept(rows) /\ [ProposalsNext]_vars => (NewestKept(rows))'
    BY <1>3
  <2> QED BY <1>1, <1>2, <2>1, Invariant, PTL DEF ProposalsSpec

-----------------------------------------------------------------------------
(***************************************************************************)
(* The requests of Proposals implement Decisions: every step of a request  *)
(* is a step of the promise or none, for any number of sessions.           *)
(***************************************************************************)

(* What is shown of a list of proposals.                                    *)

LEMMA OffersType ==
  ASSUME NEW list \in Seq(Row)
  PROVE  /\ DOMAIN list = 1 .. Len(list) /\ Len(list) \in Nat
         /\ DOMAIN Offers(list) = DOMAIN list /\ Len(Offers(list)) = Len(list)
         /\ \A id \in DOMAIN list : Offers(list)[id] = Offer(list[id])
<1>1. DOMAIN list = 1 .. Len(list) /\ Len(list) \in Nat
  BY LenProperties
<1>2. DOMAIN Offers(list) = DOMAIN list /\ \A id \in DOMAIN list : Offers(list)[id] = Offer(list[id])
  BY DEF Offers
<1> DEFINE S == {Offer(list[id]) : id \in DOMAIN list}
<1>3. Offers(list) \in [1 .. Len(list) -> S]
  BY <1>1 DEF Offers
<1> HIDE DEF S
<1>4. Len(Offers(list)) = Len(list)
  BY <1>1, <1>3, FunctionIsSeq
<1> QED BY <1>1, <1>2, <1>4

-----------------------------------------------------------------------------
(* Every step maps to a step of Decisions.                                  *)

Moves == [Promise!DecisionsNext]_<<log, Offers(rows)>>

LEMMA Waits ==
  ASSUME ProposalsTypeOK, NEW id \in Pending
  PROVE  id \in Promise!Open /\ id \in DOMAIN rows /\ rows[id] \in Row /\ rows \in Seq(Row)
         /\ Offers(rows)[id] = Offer(rows[id]) /\ Offer(rows[id]).ops = rows[id].ops
<1>1. id \in Ids /\ rows[id].status = "pending" /\ rows \in Seq(Row) /\ rows[id] \in Row
  BY RowsDomain DEF Pending, ProposalsTypeOK
<1>2. id \in DOMAIN Offers(rows) /\ Offers(rows)[id] = Offer(rows[id])
  BY <1>1, OffersType DEF Ids
<1> QED BY <1>1, <1>2 DEF Promise!Open, Offer, Ids

LEMMA StutterMoves ==
  ASSUME UNCHANGED <<log, rows>>
  PROVE  Moves
BY DEF Moves

\* A waiting proposal is closed without a revision.
LEMMA CloseMoves ==
  ASSUME ProposalsTypeOK, NEW id \in Pending, NEW status \in {"conflict", "rejected"},
         rows' = [rows EXCEPT ![id] = [rows[id] EXCEPT !.status = status]], log' = log
  PROVE  Moves
<1>1. id \in Promise!Open /\ id \in DOMAIN rows /\ rows \in Seq(Row)
      /\ Offers(rows)[id] = Offer(rows[id]) /\ rows[id] \in Row
  BY Waits
<1>2. Offers(rows') = [Offers(rows) EXCEPT ![id] = Offer([rows[id] EXCEPT !.status = status])]
  BY <1>1 DEF Offers
<1>3. Offer([rows[id] EXCEPT !.status = status]) = [Offers(rows)[id] EXCEPT !.status = status]
  BY <1>1 DEF Offer, Row
<1>4. Offers(rows') = [Offers(rows) EXCEPT ![id].status = status]
  BY <1>2, <1>3
<1>5. Promise!Lapse(id) \/ Promise!Decline(id)
  BY <1>1, <1>4 DEF Promise!Lapse, Promise!Decline, Promise!Close
<1> QED BY <1>1, <1>5 DEF Moves, Promise!DecisionsNext

LEMMA ReviewMoves ==
  ASSUME IInv, NEW s \in Sessions, WriteReview(s)
  PROVE  Moves
<1> DEFINE id == job[s].id
           preview == After(job[s].ops, job[s].graph)
           r == [rows[id] EXCEPT !.base = job[s].rev, !.preview = preview]
<1>0. /\ ProposalsTypeOK /\ log' = log /\ Fine(job[s]) /\ job[s].stage = "write"
      /\ UpdatePending(id, r)
  BY DEF IInv, WriteReview, At
<1>1. job[s].rev \in Revisions /\ job[s].ops = rows[id].ops /\ id \in Ids
      /\ preview = rows[id].ops \cup log[job[s].rev].graph
  BY <1>0 DEF Fine, After
<1>2. CASE id \notin Pending
  BY <1>0, <1>2, StutterMoves DEF UpdatePending
<1>3. CASE id \in Pending
  <2>1. /\ id \in Promise!Open /\ id \in DOMAIN rows /\ rows \in Seq(Row)
        /\ Offers(rows)[id] = Offer(rows[id]) /\ rows[id] \in Row
    BY <1>0, <1>3, Waits
  <2>2. rows' = [rows EXCEPT ![id] = r]
    BY <1>0, <1>3 DEF UpdatePending
  <2>3. Offers(rows') = [Offers(rows) EXCEPT ![id] = Offer(r)]
    BY <2>1, <2>2 DEF Offers
  <2>4. Offer(r) = Promise!Shown(Offers(rows)[id].ops, job[s].rev)
    <3>1. r.ops = rows[id].ops /\ r.status = "pending" /\ r.base = job[s].rev /\ r.preview = preview
      BY <1>3, <2>1 DEF Row, Pending
    <3> HIDE DEF r
    <3> QED BY <1>1, <2>1, <3>1 DEF Promise!Shown, Promise!With, Offer
  <2>6. Promise!Review(id, job[s].rev)
    BY <1>0, <2>1, <2>3, <2>4 DEF Promise!Review
  <2>7. job[s].rev \in DOMAIN log
    BY <1>0, <1>1, LenProperties DEF Revisions, ProposalsTypeOK
  <2> QED BY <2>1, <2>6, <2>7 DEF Moves, Promise!DecisionsNext
<1> QED BY <1>2, <1>3

LEMMA AcceptMoves ==
  ASSUME IInv, NEW s \in Sessions, CommitApply(s)
  PROVE  Moves
<1> DEFINE id == job[s].id
           after == After(job[s].ops, Graph)
           r == [rows[id] EXCEPT !.status = "applied", !.applied = Len(log) + 1]
<1>0. /\ ProposalsTypeOK /\ Fine(job[s]) /\ job[s].stage = "locked" /\ Valid(after)
      /\ log' = Append(log, [graph |-> after, by |-> id])
  BY DEF IInv, CommitApply, At, Replayable, NewRevision
<1>1. id \in Pending /\ job[s].ops = rows[id].ops /\ after \in Graphs
  BY <1>0, LogDomain, JobType, AfterType DEF Fine
<1>2. /\ id \in Promise!Open /\ id \in DOMAIN rows /\ rows \in Seq(Row)
      /\ Offers(rows)[id] = Offer(rows[id]) /\ rows[id] \in Row
  BY <1>0, <1>1, Waits
<1>3. rows' = [rows EXCEPT ![id] = r]
  BY <1>2 DEF CommitApply, Revision, Row
<1>4. Offers(rows') = [Offers(rows) EXCEPT ![id] = Offer(r)]
  BY <1>2, <1>3 DEF Offers
<1>5. Offer(r) = [Offers(rows)[id] EXCEPT !.status = "applied"]
  BY <1>2 DEF Offer, Row
<1>6. after = Promise!With(Offers(rows)[id].ops, Len(log))
  BY <1>1, <1>2 DEF Promise!With, Offer, After, Graph
<1>7. Promise!Accept(id)
  BY <1>0, <1>1, <1>2, <1>4, <1>5, <1>6 DEF Promise!Accept, Promise!Close, Promise!Revise
<1> QED BY <1>2, <1>7 DEF Moves, Promise!DecisionsNext

LEMMA EditMoves ==
  ASSUME ProposalsTypeOK, NEW graph \in Graphs, SaveElsewhere(graph)
  PROVE  Moves
<1>1. /\ Len(log') = Len(log) + 1 /\ rows' = rows /\ Valid(graph)
      /\ log' = Append(log, [graph |-> graph, by |-> 0])
  BY NewLog DEF SaveElsewhere, NewRevision
<1>2. Offers(rows') = Offers(rows)
  BY <1>1
<1>3. Promise!Edit
  BY <1>1, <1>2 DEF Promise!Edit, Promise!Revise
<1> QED BY <1>3 DEF Moves, Promise!DecisionsNext

LEMMA SuggestMoves ==
  ASSUME IInv, IInv', NEW s \in Sessions, Replace(s)
  PROVE  Moves
<1> DEFINE marked == Superseded(job[s].waits)
           new == NewRow(s)
           list == Append(marked, new)
           n == Len(rows) + 1
<1>0. /\ ProposalsTypeOK /\ rows \in Seq(Row) /\ rows' \in Seq(Row) /\ log' = log
      /\ rows' = Pruned(list) /\ Fine(job[s]) /\ job[s].stage = "insert" /\ Len(rows) \in Nat
  BY RowsDomain DEF IInv, ProposalsTypeOK, Replace, At
<1>1. /\ new \in Row /\ new.status = "pending"
      /\ Offer(new) = Promise!Shown(job[s].ops, job[s].rev)
      /\ job[s].rev \in DOMAIN log /\ job[s].ops \in SUBSET Suggested
  <2>1. /\ job[s].rev \in Revisions /\ job[s].graph = log[job[s].rev].graph
        /\ job[s].ops \in SUBSET Suggested /\ job[s].waits \subseteq Nat /\ job[s].rev \in Nat
        /\ job[s].graph \in Graphs
    BY <1>0, JobType DEF Fine
  <2>2. After(job[s].ops, job[s].graph) \in Graphs
    BY <2>1, AfterType
  <2>3. new \in Row /\ new.status = "pending"
    BY <2>1, <2>2 DEF NewRow, Row
  <2>4. job[s].rev \in DOMAIN log
    BY <1>0, <2>1, LenProperties DEF Revisions, ProposalsTypeOK
  <2> QED BY <2>1, <2>3, <2>4 DEF NewRow, Offer, After, Promise!Shown, Promise!With
<1>2. /\ marked \in Seq(Row) /\ Len(marked) = Len(rows)
      /\ \A id \in Ids : \/ marked[id] = rows[id]
                         \/ id \in Pending /\ marked[id] = [rows[id] EXCEPT !.status = "superseded"]
  BY <1>0, SupersededRows
<1> HIDE DEF marked, new
<1>3. /\ list \in Seq(Row) /\ Len(list) = n /\ list[n] = new
      /\ \A id \in 1 .. Len(rows) : list[id] = marked[id]
  BY <1>0, <1>1, <1>2, AppendProperties
<1> HIDE DEF list
<1>4. /\ Len(rows') = n
      /\ \A i \in 1 .. n :
           \/ rows'[i] = list[i]
           \/ list[i].status \in Settled /\ rows'[i] = [list[i] EXCEPT !.status = "pruned"]
  BY <1>0, <1>3, PrunedRows
<1>5. Len(Offers(rows')) = n /\ Len(Offers(rows)) = Len(rows) /\ DOMAIN Offers(rows) = Ids
      /\ Ids = 1 .. Len(rows)
      /\ \A id \in Ids : Offers(rows)[id] = Offer(rows[id]) /\ Offers(rows')[id] = Offer(rows'[id])
  <2>1. DOMAIN rows' = 1 .. n /\ n \in 1 .. n /\ 1 .. Len(rows) \subseteq 1 .. n
    BY <1>0, <1>4, OffersType
  <2> QED BY <1>0, <1>4, <2>1, OffersType DEF Ids
<1>6. Offers(rows')[n] = Offer(new)
  <2>1. rows'[n] = new
    BY <1>0, <1>1, <1>3, <1>4 DEF Settled
  <2>2. n \in DOMAIN rows'
    BY <1>0, <1>4, OffersType
  <2>3. Offers(rows')[n] = Offer(rows'[n])
    BY <2>2 DEF Offers
  <2> QED BY <2>1, <2>3
<1>7. ASSUME NEW id \in Ids
      PROVE  /\ Offers(rows')[id] = [Offers(rows)[id] EXCEPT !.status = Offers(rows')[id].status]
             /\ Offers(rows')[id].status \in Promise!Later(Offers(rows)[id].status)
  <2>1. rows[id] \in Row /\ id \in 1 .. n /\ list[id] = marked[id]
    BY <1>0, <1>3, <1>5, RowsDomain
  <2>2. \/ rows'[id] = rows[id]
        \/ rows'[id] = [rows[id] EXCEPT !.status = "pruned"]
        \/ rows[id].status = "pending" /\ rows'[id] = [rows[id] EXCEPT !.status = "superseded"]
    <3>1. \/ marked[id] = rows[id]
          \/ rows[id].status = "pending" /\ marked[id] = [rows[id] EXCEPT !.status = "superseded"]
      BY <1>2 DEF Pending
    <3>2. rows'[id] = marked[id] \/ rows'[id] = [marked[id] EXCEPT !.status = "pruned"]
      BY <1>4, <2>1
    <3> QED BY <2>1, <3>1, <3>2 DEF Row
  <2>3. Offers(rows)[id] = Offer(rows[id]) /\ Offers(rows')[id] = Offer(rows'[id])
    BY <1>5
  <2>4. /\ Offer(rows'[id]) = [Offer(rows[id]) EXCEPT !.status = rows'[id].status]
        /\ Offer(rows'[id]).status = rows'[id].status /\ Offer(rows[id]).status = rows[id].status
        /\ rows'[id].status \in Promise!Later(rows[id].status)
    BY <2>1, <2>2 DEF Promise!Later, Offer, Row
  <2> QED BY <2>3, <2>4
<1>8. Promise!Suggest
  BY <1>0, <1>1, <1>5, <1>6, <1>7 DEF Promise!Suggest
<1> QED BY <1>8 DEF Moves, Promise!DecisionsNext

-----------------------------------------------------------------------------
(* The refinement.                                                          *)

LEMMA InitMoves == ProposalsInit => Promise!DecisionsInit
<1> SUFFICES ASSUME ProposalsInit PROVE Promise!DecisionsInit
  OBVIOUS
<1>1. Needed \in {graph \in Graphs : Valid(graph)}
  BY ProposalsAssumption DEF Graphs, Valid
<1>2. Offers(rows) = << >>
  BY DEF ProposalsInit, Offers
<1> QED BY <1>1, <1>2 DEF ProposalsInit, Promise!DecisionsInit

LEMMA StepMoves == IInv /\ IInv' /\ [ProposalsNext]_vars => Moves
<1> SUFFICES ASSUME IInv, IInv', [ProposalsNext]_vars PROVE Moves
  OBVIOUS
<1>0. ProposalsTypeOK
  BY DEF IInv
<1>1. ASSUME NEW s \in Sessions, Serve(s) PROVE Moves
  <2>1. CASE ReadRow(s) \/ ReadGraph(s) \/ DryRun(s) \/ SnapshotPending(s) \/ ReadReview(s)
    <3>1. UNCHANGED <<log, rows>>
      BY <2>1 DEF ReadRow, ReadGraph, DryRun, SnapshotPending, ReadReview
    <3> QED BY <3>1, StutterMoves
  <2>2. CASE MarkConflict(s)
    <3>1. CASE job[s].id \in Pending
      <4>1. /\ log' = log
            /\ rows' = [rows EXCEPT ![job[s].id] = [rows[job[s].id] EXCEPT !.status = "conflict"]]
        BY <2>2, <3>1 DEF MarkConflict, UpdatePending
      <4> QED BY <1>0, <3>1, <4>1, CloseMoves
    <3>2. CASE job[s].id \notin Pending
      BY <2>2, <3>2, StutterMoves DEF MarkConflict, UpdatePending
    <3> QED BY <3>1, <3>2, Zenon
  <2>3. CASE RefuseApply(s)
    <3>1. job[s].id \in Pending
      BY <1>0, <2>3 DEF RefuseApply, At, ProposalsTypeOK
    <3>2. /\ log' = log /\ job[s].id \in Ids
          /\ rows' = [rows EXCEPT ![job[s].id] = [rows[job[s].id] EXCEPT !.status = "conflict"]]
      BY <2>3, <3>1 DEF RefuseApply, Pending
    <3> QED BY <1>0, <3>1, <3>2, CloseMoves
  <2> QED BY <1>1, <2>1, <2>2, <2>3, SuggestMoves, ReviewMoves, AcceptMoves DEF Serve
<1>2. ASSUME NEW id \in Ids, Reject(id) PROVE Moves
  <2>1. id \in Pending /\ log' = log
        /\ rows' = [rows EXCEPT ![id] = [rows[id] EXCEPT !.status = "rejected"]]
    BY <1>2 DEF Reject, LockPending
  <2> QED BY <1>0, <2>1, CloseMoves
<1>3. ASSUME NEW e \in Edits, SaveElsewhere(Graph \cup {e}) \/ SaveElsewhere(Graph \ {e}) PROVE Moves
  <2>1. Graph \cup {e} \in Graphs /\ Graph \ {e} \in Graphs
    BY <1>0, LogDomain DEF Graphs
  <2> QED BY <1>0, <1>3, <2>1, EditMoves
<1>4. ASSUME NEW s \in Sessions,
             \/ JobFails(s)
             \/ \E ops \in (SUBSET Suggested) \ {{}} : StartPropose(s, ops)
             \/ \E id \in Ids : StartRefresh(s, id) \/ StartApply(s, id)
      PROVE  Moves
  <2>1. UNCHANGED <<log, rows>>
    BY <1>4 DEF JobFails, StartPropose, StartRefresh, StartApply
  <2> QED BY <2>1, StutterMoves
<1>5. CASE UNCHANGED vars
  BY <1>5, StutterMoves DEF vars
<1> QED BY <1>1, <1>2, <1>3, <1>4, <1>5 DEF ProposalsNext

\* For any number of sessions, proposals, edits and failures the requests show
\* what Decisions promises (Propose, Refresh, Apply, Reject).
THEOREM DecisionsHold == ProposalsSpec => DecisionsAreAtomic
<1>1. ProposalsInit => Promise!DecisionsInit
  BY InitMoves
<1>2. IInv /\ IInv' /\ [ProposalsNext]_vars => [Promise!DecisionsNext]_<<log, Offers(rows)>>
  BY StepMoves DEF Moves
<1> QED BY <1>1, <1>2, Invariant, PTL DEF ProposalsSpec, DecisionsAreAtomic, Promise!DecisionsSpec
=============================================================================
