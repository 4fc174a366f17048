------------------------- MODULE RegistrySyncProofs -------------------------
(***************************************************************************)
(* The status column of sync_tasks implements TaskLife, the tags a sync    *)
(* pushes are whole, and a target has one active task, for any number of   *)
(* tags, images, tasks and requests under way, whatever crashes, lost      *)
(* requests and late cancellations do.  And a retention policy gives up    *)
(* the tags that its rules say.                                            *)
(***************************************************************************)
EXTENDS MCImages, Integers, FiniteSetTheorems, TLAPS

Reqs == [pc : {"idle", "update", "insert", "cancel"}, task : Tasks \cup {0},
         from : Tags, to : Tags, reg : Registries, seal : Nat]

Runs == [pc : RunPcs, raw : Images \cup {None}, man : Images \cup {None}, i : Nat,
         src : BOOLEAN, dst : BOOLEAN, skipped : BOOLEAN]

\* The types that the life of a task depends on.
Types ==
    /\ seals \in [Registries -> Nat]
    /\ tags \in [Registries -> [Tags -> Images \cup {None}]]
    /\ status \in [Tasks -> {"none", "pending", "running", "completed", "failed"}]
    /\ copies \in [Tasks -> [from : Tags, to : Tags]]
    /\ run \in [Tasks -> Runs]
    /\ req \in [Admins -> Reqs]

\* What a write that names only the id relies on: the row its read found is
\* still a row.  The read itself may be out of date.
PendingWrites ==
    /\ \A a \in Admins : req[a].pc = "cancel" => req[a].task \in Tasks /\ status[req[a].task] # "none"
    /\ \A t \in Tasks : run[t].pc = "failed" => status[t] # "none"

\* A call of the client resolves a tag to a manifest or to an error.
LEMMA FetchType ==
    ASSUME NEW tagged \in [Tags -> Images \cup {None}], NEW tag \in Tags
    PROVE  FetchManifest(tagged, tag) \in Images \cup {None}
  BY ClientAssumption, SMT DEF FetchManifest, Resolve, IsSingle

\* The locals of a call begin and end as NoRun, those of a request as NoReq.
LEMMA Idle == NoRun \in Runs /\ NoReq \in Reqs
  BY RegistryAssumption, SMT DEF NoRun, NoReq, Runs, Reqs, RunPcs

\* A call goes on with other locals, and not to the write of a failure.
Moves(t) == \E w \in Runs : w.pc # "failed" /\ run' = [run EXCEPT ![t] = w]

\* What Goto does to the locals.
LEMMA GotoMoves ==
    ASSUME run \in [Tasks -> Runs], NEW t \in Tasks, NEW p \in RunPcs \ {"failed"}, Goto(t, p)
    PROVE  Moves(t)
  <1>1. [run[t] EXCEPT !.pc = p] \in Runs /\ [run[t] EXCEPT !.pc = p].pc # "failed"
    BY Zenon DEF Runs
  <1> QED BY <1>1, Zenon DEF Moves, Goto

\* Every step of ExecuteSync but the one of failTask's read goes on like that.
LEMMA SyncMoves ==
    ASSUME Types, NEW t \in Tasks, Sync(t), ~FailSync(t)
    PROVE  Moves(t)
  <1> USE DEF Types
  <1>0. run[t] \in Runs /\ run \in [Tasks -> Runs]
    OBVIOUS
  <1>f. Fails(t) => Moves(t)
    BY <1>0, GotoMoves DEF Fails, RunPcs
  <1>a. FetchManifest(tags[Source], copies[t].from) \in Images \cup {None}
    <2>1. tags[Source] \in [Tags -> Images \cup {None}] /\ copies[t].from \in Tags
      BY RegistryAssumption, SMT
    <2> QED BY <2>1, FetchType
  <1>1. CASE ExecuteSync(t) \/ LayersDone(t)
    BY <1>0, <1>1, GotoMoves DEF ExecuteSync, LayersDone, RunPcs
  <1>2. CASE CreateClients(t)
    <2>1. ASSUME NEW sure \in BOOLEAN, NEW safe \in BOOLEAN,
                 run' = [run EXCEPT ![t].pc = "raw", ![t].src = sure, ![t].dst = safe]
          PROVE  Moves(t)
      <3>1. [run[t] EXCEPT !.pc = "raw", !.src = sure, !.dst = safe] \in Runs
        BY <1>0, Zenon DEF Runs, RunPcs
      <3>2. [run[t] EXCEPT !.pc = "raw", !.src = sure, !.dst = safe].pc # "failed"
        BY <1>0, Zenon DEF Runs
      <3> QED BY <2>1, <3>1, <3>2, Zenon DEF Moves
    <2>2. CreateClient(Source) \subseteq BOOLEAN /\ CreateClient(Target) \subseteq BOOLEAN
      BY Zenon DEF CreateClient, DecryptPassword
    <2> QED BY <1>2, <1>f, <2>1, <2>2, Zenon DEF CreateClients
  <1>3. CASE RawManifest(t)
    <2>1. ASSUME NEW i \in Images \cup {None},
                 run' = [run EXCEPT ![t].pc = "compare", ![t].raw = i]
          PROVE  Moves(t)
      <3>1. [run[t] EXCEPT !.pc = "compare", !.raw = i] \in Runs
        BY <1>0, Zenon DEF Runs, RunPcs
      <3>2. [run[t] EXCEPT !.pc = "compare", !.raw = i].pc # "failed"
        BY <1>0, Zenon DEF Runs
      <3> QED BY <2>1, <3>1, <3>2, Zenon DEF Moves
    <2> QED BY <1>3, <1>f, <1>a, <2>1, Zenon DEF RawManifest
  <1>4. CASE CompareTarget(t)
    <2>1. Goto(t, "complete") \/ Goto(t, "manifest")
      BY <1>4 DEF CompareTarget
    <2> QED BY <1>0, <2>1, GotoMoves DEF RunPcs
  <1>5. CASE ReadLayers(t)
    <2>1. ASSUME NEW i \in Images \cup {None},
                 run' = [run EXCEPT ![t].pc = "layers", ![t].man = i, ![t].i = 1]
          PROVE  Moves(t)
      <3>0. 1 \in Nat
        OBVIOUS
      <3>1. [run[t] EXCEPT !.pc = "layers", !.man = i, !.i = 1] \in Runs
        BY <1>0, <3>0, Zenon DEF Runs, RunPcs
      <3>2. [run[t] EXCEPT !.pc = "layers", !.man = i, !.i = 1].pc # "failed"
        BY <1>0, Zenon DEF Runs
      <3> QED BY <2>1, <3>1, <3>2, Zenon DEF Moves
    <2> QED BY <1>5, <1>f, <1>a, <2>1, Zenon DEF ReadLayers
  <1>6. CASE TransferLayer(t)
    <2>1. Fails(t) \/ (run[t].pc = "layers" /\ run' = [run EXCEPT ![t].i = @ + 1])
      BY <1>6 DEF TransferLayer
    <2>2. ASSUME run[t].pc = "layers", run' = [run EXCEPT ![t].i = @ + 1] PROVE Moves(t)
      <3>0. run[t].i + 1 \in Nat
        BY <1>0, SMT DEF Runs
      <3>1. [run[t] EXCEPT !.i = run[t].i + 1] \in Runs
        BY <1>0, <3>0, Zenon DEF Runs
      <3>2. [run[t] EXCEPT !.i = run[t].i + 1].pc # "failed"
        BY <1>0, <2>2, Zenon DEF Runs
      <3> QED BY <2>2, <3>1, <3>2, Zenon DEF Moves
    <2> QED BY <1>f, <2>1, <2>2
  <1>7. CASE TransferConfig(t)
    <2>1. \/ Fails(t)
          \/ Goto(t, "push")
          \/ run' = [run EXCEPT ![t].pc = "push", ![t].skipped = TRUE]
      BY <1>7 DEF TransferConfig
    <2>2. ASSUME run' = [run EXCEPT ![t].pc = "push", ![t].skipped = TRUE] PROVE Moves(t)
      <3>1. [run[t] EXCEPT !.pc = "push", !.skipped = TRUE] \in Runs
        BY <1>0, Zenon DEF Runs, RunPcs
      <3>2. [run[t] EXCEPT !.pc = "push", !.skipped = TRUE].pc # "failed"
        BY <1>0, Zenon DEF Runs
      <3> QED BY <2>2, <3>1, <3>2, Zenon DEF Moves
    <2>3. Goto(t, "push") => Moves(t)
      BY <1>0, GotoMoves DEF RunPcs
    <2> QED BY <1>f, <2>1, <2>2, <2>3
  <1>8. CASE PushManifest(t)
    <2>1. Fails(t) \/ Goto(t, "complete") \/ Goto(t, "failing")
      BY <1>8 DEF PushManifest
    <2>2. Goto(t, "complete") \/ Goto(t, "failing") => Moves(t)
      BY <1>0, GotoMoves DEF RunPcs
    <2> QED BY <1>f, <2>1, <2>2
  <1>9. CASE CompleteSync(t) \/ FailWrites(t)
    <2>1. NoRun.pc # "failed"
      BY DEF NoRun
    <2> QED BY <1>9, <2>1, Idle, Zenon DEF CompleteSync, FailWrites, Moves
  <1> QED
    BY <1>1, <1>2, <1>3, <1>4, <1>5, <1>6, <1>7, <1>8, <1>9 DEF Sync

\* A step of ExecuteSync writes no row but the task's status, no request, and of
\* the registries' tags one.
LEMMA SyncLeaves ==
    ASSUME NEW t \in Tasks, Sync(t)
    PROVE  /\ UNCHANGED <<seals, copies, req>>
           /\ \/ UNCHANGED tags
              \/ \E i \in Images : tags' = [tags EXCEPT ![Target][copies[t].to] = i]
           /\ \/ UNCHANGED status
              \/ ExecuteSync(t) \/ CompleteSync(t) \/ FailWrites(t)
  <1>1. CASE CreateClients(t) \/ RawManifest(t) \/ ReadLayers(t)
    BY <1>1 DEF CreateClients, RawManifest, ReadLayers, Fails, rows, contents
  <1>2. CASE CompareTarget(t) \/ LayersDone(t) \/ FailSync(t)
    BY <1>2 DEF CompareTarget, LayersDone, FailSync, rows, contents
  <1>3. CASE TransferLayer(t) \/ TransferConfig(t)
    BY <1>3 DEF TransferLayer, TransferConfig, Fails, rows, contents
  <1>4. CASE PushManifest(t)
    BY <1>4 DEF PushManifest, Fails, rows, contents
  <1>5. CASE ExecuteSync(t) \/ CompleteSync(t) \/ FailWrites(t)
    BY <1>5 DEF ExecuteSync, CompleteSync, FailWrites, contents
  <1> QED BY <1>1, <1>2, <1>3, <1>4, <1>5 DEF Sync

\* A step of ExecuteSync keeps the types.
LEMMA SyncTypes == ASSUME Types, NEW t \in Tasks, Sync(t) PROVE Types'
  <1>1. run' \in [Tasks -> Runs]
    <2>1. CASE FailSync(t)
      <3>1. [NoRun EXCEPT !.pc = "failed"] \in Runs
        BY Idle, Zenon DEF Runs, RunPcs
      <3> QED BY <2>1, <3>1, Idle, SMT DEF FailSync, Types
    <2> QED BY <2>1, SyncMoves, SMT DEF Moves, Types
  <1>2. tags' \in [Registries -> [Tags -> Images \cup {None}]]
    BY SyncLeaves, RegistryAssumption, SMT DEF Types
  <1>3. status' \in [Tasks -> {"none", "pending", "running", "completed", "failed"}]
    BY SyncLeaves, SMT DEF Types, ExecuteSync, CompleteSync, FailWrites, TransitionStatus, Fail
  <1> QED BY <1>1, <1>2, <1>3, SyncLeaves DEF Types

\* Every step keeps the types.
LEMMA TypesStep == ASSUME Types, [Next]_vars PROVE Types'
  <1> USE RegistryAssumption DEF Types
  <1>1. CASE RegistryRequest
    <2>1. ASSUME NEW r \in Registries, CreateRegistry(r) PROVE Types'
      BY <2>1, SMT DEF CreateRegistry, CreateRow, Seal, contents
    <2>2. ASSUME NEW r \in Registries, DeleteRegistry(r) PROVE Types'
      BY <2>2, SMT DEF DeleteRegistry, DeleteRow, contents
    <2>3. ASSUME NEW a \in Admins, NEW r \in Registries, NEW typed \in BOOLEAN,
                 UpdateRegistry(a, r, typed)
          PROVE  Types'
      <3>0. 0 \in Nat /\ seals[r] \in Nat
        OBVIOUS
      <3>1. EditedRow(r, typed) \in Reqs
        BY <3>0, Idle, Zenon DEF EditedRow, Reqs
      <3> QED BY <2>3, <3>1, SMT DEF UpdateRegistry, rows, contents
    <2>4. ASSUME NEW a \in Admins, UpdateRow(a) PROVE Types'
      BY <2>4, Idle, SMT DEF UpdateRow, Seal, contents, Reqs
    <2>5. ASSUME NEW a \in Admins, RequestLost(a) PROVE Types'
      BY <2>5, Idle, SMT DEF RequestLost, rows, contents
    <2> QED BY <1>1, <2>1, <2>2, <2>3, <2>4, <2>5 DEF RegistryRequest
  <1>2. CASE SyncRequest
    <2>1. ASSUME NEW a \in Admins, NEW from \in Tags, NEW to \in Tags, CreateSync(a, from, to) PROVE Types'
      <3>1. [NoReq EXCEPT !.pc = "insert", !.from = from, !.to = to] \in Reqs
        BY Idle, Zenon DEF Reqs
      <3> QED BY <2>1, <3>1, SMT DEF CreateSync, rows, contents
    <2>2. ASSUME NEW a \in Admins, InsertTask(a) PROVE Types'
      <3>1. req[a].from \in Tags /\ req[a].to \in Tags
        BY SMT DEF Reqs
      <3> QED BY <2>2, <3>1, Idle, SMT DEF InsertTask, CreateTask, contents
    <2>3. ASSUME NEW a \in Admins, CancelWrites(a) PROVE Types'
      <3>1. status' = [status EXCEPT ![req[a].task] = "failed"]
        BY <2>3 DEF CancelWrites, Fail
      <3>2. status' \in [Tasks -> {"none", "pending", "running", "completed", "failed"}]
        BY <3>1, Zenon
      <3>3. req' \in [Admins -> Reqs]
        BY <2>3, Idle, SMT DEF CancelWrites
      <3> QED BY <2>3, <3>2, <3>3 DEF CancelWrites, contents
    <2>4. ASSUME NEW a \in Admins, NEW t \in Tasks, CancelSync(a, t) PROVE Types'
      <3>1. [NoReq EXCEPT !.pc = "cancel", !.task = t] \in Reqs
        BY Idle, Zenon DEF Reqs
      <3> QED BY <2>4, <3>1, SMT DEF CancelSync, rows, contents
    <2> QED BY <1>2, <2>1, <2>2, <2>3, <2>4 DEF SyncRequest
  <1>3. ASSUME NEW t \in Tasks, Sync(t) PROVE Types'
    BY <1>3, SyncTypes
  <1>4. ASSUME NEW tag \in Tags, NEW i \in Images, SourceMoves(tag, i) PROVE Types'
    BY <1>4, SMT DEF SourceMoves, rows
  <1>5. ASSUME NEW tag \in Tags, TargetLoses(tag) PROVE Types'
    BY <1>5, SMT DEF TargetLoses, Untagged, rows
  <1>6. CASE CrashRestart
    BY <1>6, Idle, SMT DEF CrashRestart, rows, contents
  <1>7. CASE UNCHANGED vars
    BY <1>7 DEF vars
  <1> QED
    BY <1>1, <1>2, <1>3, <1>4, <1>5, <1>6, <1>7 DEF Next

\* The steps that write the status column; every other step leaves it alone.
LEMMA Writers ==
    ASSUME [Next]_vars
    PROVE  \/ UNCHANGED status
           \/ \E a \in Admins : InsertTask(a) \/ CancelWrites(a)
           \/ \E t \in Tasks : ExecuteSync(t) \/ CompleteSync(t) \/ FailWrites(t)
  <1>1. (\E t \in Tasks : Sync(t)) =>
            UNCHANGED status \/ \E t \in Tasks : ExecuteSync(t) \/ CompleteSync(t) \/ FailWrites(t)
    BY SyncLeaves
  <1>2. RegistryRequest => UNCHANGED status
    BY DEF RegistryRequest, CreateRegistry, DeleteRegistry, UpdateRegistry, UpdateRow, RequestLost, rows
  <1>3. (\E a \in Admins, from, to \in Tags : CreateSync(a, from, to)) => UNCHANGED status
    BY DEF CreateSync, rows
  <1>4. (\E a \in Admins, t \in Tasks : CancelSync(a, t)) => UNCHANGED status
    BY DEF CancelSync, rows
  <1>5. (\E tag \in Tags, i \in Images : SourceMoves(tag, i)) => UNCHANGED status
    BY DEF SourceMoves, rows
  <1>6. (\E tag \in Tags : TargetLoses(tag)) => UNCHANGED status
    BY DEF TargetLoses, rows
  <1>7. CrashRestart \/ UNCHANGED vars => UNCHANGED status
    BY DEF CrashRestart, vars, rows
  <1> QED
    BY <1>1, <1>2, <1>3, <1>4, <1>5, <1>6, <1>7 DEF Next, SyncRequest

\* Every step is a step of TaskLife or leaves the column alone.
LEMMA StepMaps == ASSUME Types, PendingWrites, [Next]_vars PROVE [Life!Next]_status
  <1> USE DEF Life!Next
  <1>0. status \in [Tasks -> {"none", "pending", "running", "completed", "failed"}]
    BY DEF Types
  <1>f. ASSUME NEW t \in Tasks, Fail(t), status[t] # "none" PROVE [Life!Next]_status
    <2>1. CASE status[t] = "failed"
      BY <1>0, <1>f, <2>1, Zenon DEF Fail
    <2>2. CASE status[t] # "failed"
      <3>1. status[t] \in {"pending", "running", "completed"}
        BY <1>0, <1>f, <2>2
      <3> QED BY <1>f, <3>1 DEF Fail, Life!Fail, Life!Moves
    <2> QED BY <2>1, <2>2
  <1>1. ASSUME NEW a \in Admins, InsertTask(a) PROVE [Life!Next]_status
    BY <1>1 DEF InsertTask, CreateTask, Life!Create, Life!Moves
  <1>2. ASSUME NEW a \in Admins, CancelWrites(a) PROVE [Life!Next]_status
    BY <1>2, <1>f DEF CancelWrites, PendingWrites
  <1>3. ASSUME NEW t \in Tasks, ExecuteSync(t) PROVE [Life!Next]_status
    <2>1. status[t] = "pending" /\ status' = [status EXCEPT ![t] = "running"]
      BY <1>0, <1>3, Zenon DEF ExecuteSync, TransitionStatus
    <2> QED BY <2>1 DEF Life!Start, Life!Moves
  <1>4. ASSUME NEW t \in Tasks, CompleteSync(t) PROVE [Life!Next]_status
    <2>0. status' = [status EXCEPT ![t] = IF status[t] = "running" THEN "completed" ELSE status[t]]
      BY <1>4 DEF CompleteSync, TransitionStatus
    <2>1. CASE status[t] = "running"
      BY <2>0, <2>1, Zenon DEF Life!Complete, Life!Moves
    <2>2. CASE status[t] # "running"
      BY <1>0, <2>0, <2>2, Zenon
    <2> QED BY <2>1, <2>2
  <1>5. ASSUME NEW t \in Tasks, FailWrites(t) PROVE [Life!Next]_status
    BY <1>5, <1>f DEF FailWrites, PendingWrites
  <1> QED
    BY <1>1, <1>2, <1>3, <1>4, <1>5, Writers

\* A row that is there stays: no step of TaskLife leads back to "none".
LEMMA RowsStay ==
    ASSUME Types, [Life!Next]_status, NEW t \in Tasks, status[t] # "none"
    PROVE  status'[t] # "none"
  BY SMT DEF Types, Life!Next, Life!Create, Life!Start, Life!Complete, Life!Fail, Life!Moves

\* A request about to write has found its row, whoever wrote meanwhile.
LEMMA RequestsHold ==
    ASSUME Types, PendingWrites, [Next]_vars, [Life!Next]_status, NEW a \in Admins, req'[a].pc = "cancel"
    PROVE  req'[a].task \in Tasks /\ status'[req'[a].task] # "none"
  <1> USE DEF Types
  <1>k. ASSUME req'[a] = req[a] PROVE req'[a].task \in Tasks /\ status'[req'[a].task] # "none"
    BY <1>k, RowsStay DEF PendingWrites
  <1>n. NoReq.pc # "cancel"
    BY DEF NoReq
  <1>1. CASE \E b \in Admins, t \in Tasks : CancelSync(b, t)
    <2>1. PICK b \in Admins, t \in Tasks : CancelSync(b, t)
      BY <1>1
    <2>2. CASE a = b
      <3>1. req'[a].task = t
        BY <2>1, <2>2, SMT DEF CancelSync, NoReq
      <3>2. status[t] # "none"
        BY <2>1 DEF CancelSync, Failable, Active
      <3> QED BY <3>1, <3>2, RowsStay
    <2> QED BY <1>k, <2>1, <2>2, SMT DEF CancelSync
  <1>2. CASE \E b \in Admins, from, to \in Tags : CreateSync(b, from, to)
    <2>1. PICK b \in Admins, from \in Tags, to \in Tags : CreateSync(b, from, to)
      BY <1>2
    <2>2. a # b
      BY <2>1, SMT DEF CreateSync, NoReq
    <2> QED BY <1>k, <2>1, <2>2, SMT DEF CreateSync
  <1>3. CASE \E b \in Admins, r \in Registries, typed \in BOOLEAN : UpdateRegistry(b, r, typed)
    <2>1. PICK b \in Admins, r \in Registries, typed \in BOOLEAN : UpdateRegistry(b, r, typed)
      BY <1>3
    <2>2. a # b
      BY <2>1, SMT DEF UpdateRegistry, EditedRow, NoReq
    <2> QED BY <1>k, <2>1, <2>2, SMT DEF UpdateRegistry
  <1>4. CASE \E b \in Admins : UpdateRow(b) \/ RequestLost(b) \/ InsertTask(b) \/ CancelWrites(b)
    <2>1. PICK b \in Admins : req' = [req EXCEPT ![b] = NoReq]
      BY <1>4 DEF UpdateRow, RequestLost, InsertTask, CancelWrites
    <2>2. a # b
      BY <2>1, <1>n, SMT
    <2> QED BY <1>k, <2>1, <2>2, SMT
  <1>5. CASE CrashRestart
    BY <1>5, <1>n, SMT DEF CrashRestart
  <1>6. CASE UNCHANGED req
    BY <1>6, <1>k
  <1>7. ASSUME NEW t \in Tasks, Sync(t) PROVE UNCHANGED req
    BY <1>7, SyncLeaves
  <1>8. (\E r \in Registries : CreateRegistry(r) \/ DeleteRegistry(r)) => UNCHANGED req
    BY DEF CreateRegistry, DeleteRegistry
  <1>9. (\E tag \in Tags, i \in Images : SourceMoves(tag, i)) => UNCHANGED req
    BY DEF SourceMoves
  <1>10. (\E tag \in Tags : TargetLoses(tag)) \/ UNCHANGED vars => UNCHANGED req
    BY DEF TargetLoses, vars
  <1> QED
    BY <1>1, <1>2, <1>3, <1>4, <1>5, <1>6, <1>7, <1>8, <1>9, <1>10
       DEF Next, RegistryRequest, SyncRequest

\* So has a call about to write its failure: only FailSync leads there.
LEMMA CallsHold ==
    ASSUME Types, PendingWrites, [Next]_vars, [Life!Next]_status, NEW t \in Tasks, run'[t].pc = "failed"
    PROVE  status'[t] # "none"
  <1> USE DEF Types
  <1>k. ASSUME run[t].pc = "failed" PROVE status'[t] # "none"
    BY <1>k, RowsStay DEF PendingWrites
  <1>n. NoRun.pc # "failed"
    BY DEF NoRun
  <1>1. ASSUME NEW u \in Tasks, Sync(u) PROVE status'[t] # "none"
    <2>1. CASE FailSync(u)
      <3>1. CASE u = t /\ Failable(t)
        BY <3>1, RowsStay DEF Failable, Active
      <3>2. CASE ~(u = t /\ Failable(t))
        <4>1. run[t].pc = "failed"
          BY <2>1, <3>2, <1>n, SMT DEF FailSync
        <4> QED BY <4>1, <1>k
      <3> QED BY <3>1, <3>2
    <2>2. CASE ~FailSync(u)
      <3>1. PICK w \in Runs : w.pc # "failed" /\ run' = [run EXCEPT ![u] = w]
        BY <1>1, <2>2, SyncMoves DEF Moves
      <3>2. run[t].pc = "failed"
        BY <3>1, SMT
      <3> QED BY <3>2, <1>k
    <2> QED BY <2>1, <2>2
  <1>2. CASE CrashRestart
    BY <1>2, <1>n, SMT DEF CrashRestart
  <1>3. CASE UNCHANGED run
    BY <1>3, <1>k
  <1>4. RegistryRequest => UNCHANGED run
    BY DEF RegistryRequest, CreateRegistry, DeleteRegistry, UpdateRegistry, UpdateRow, RequestLost
  <1>5. SyncRequest => UNCHANGED run
    BY DEF SyncRequest, CreateSync, InsertTask, CancelWrites, CancelSync
  <1>6. (\E tag \in Tags, i \in Images : SourceMoves(tag, i)) => UNCHANGED run
    BY DEF SourceMoves
  <1>7. (\E tag \in Tags : TargetLoses(tag)) \/ UNCHANGED vars => UNCHANGED run
    BY DEF TargetLoses, vars
  <1> QED
    BY <1>1, <1>2, <1>3, <1>4, <1>5, <1>6, <1>7 DEF Next

\* The status of a task implements TaskLife: created pending, run at most once,
\* completed only from running, and final once failed, although CancelSync and
\* ExecuteSync read the status in one statement and write it in another.
THEOREM ImplementsTaskLife == Spec => Lifecycle
<1>1. Init => Types /\ PendingWrites
  <2> SUFFICES ASSUME Init PROVE Types /\ PendingWrites
    OBVIOUS
  <2>1. Types
    BY Idle, RegistryAssumption, SMT DEF Init, Types
  <2>2. PendingWrites
    BY SMT DEF Init, PendingWrites, NoReq, NoRun
  <2> QED BY <2>1, <2>2
<1>2. Types /\ PendingWrites /\ [Next]_vars => Types' /\ PendingWrites' /\ [Life!Next]_status
  <2> SUFFICES ASSUME Types, PendingWrites, [Next]_vars
               PROVE  Types' /\ PendingWrites' /\ [Life!Next]_status
    OBVIOUS
  <2>1. [Life!Next]_status
    BY StepMaps
  <2>2. PendingWrites'
    BY <2>1, RequestsHold, CallsHold DEF PendingWrites
  <2> QED BY <2>1, <2>2, TypesStep
<1>3. Init => Life!Init
  BY DEF Init, Life!Init
<1> QED
  BY <1>1, <1>2, <1>3, PTL DEF Spec, Lifecycle, Life!Spec

-----------------------------------------------------------------------------
(* The copy. *)

\* What ExecuteSync has read and copied so far.
Copying(t) ==
    /\ run[t].pc \in {"compare", "manifest", "layers", "config", "push"} =>
           run[t].raw \in Images /\ IsSingle(run[t].raw)
    /\ run[t].pc \in {"layers", "config", "push"} => run[t].man \in Images
    /\ run[t].pc = "layers" =>
           /\ run[t].i >= 1
           /\ \A k \in 1 .. Len(LayersOf[run[t].man]) :
                  k < run[t].i => LayersOf[run[t].man][k] \in blobs
    /\ run[t].pc \in {"config", "push"} => Range(LayersOf[run[t].man]) \subseteq blobs
    /\ run[t].pc = "push" => run[t].skipped \/ ConfigOf[run[t].man] \in blobs

AllBlobs == UNION {Needs(i) : i \in Images}

CopyInv ==
    /\ seals \in [Registries -> 0 .. MaxSeals]
    /\ blobs \subseteq AllBlobs
    /\ torn \subseteq Images
    /\ \A t \in Tasks : Copying(t)
    /\ TargetWhole

\* The layers of a manifest are the elements of its list.
LEMMA Layers ==
    ASSUME NEW i \in Images
    PROVE  /\ Len(LayersOf[i]) \in Nat
           /\ Range(LayersOf[i]) = {LayersOf[i][k] : k \in 1 .. Len(LayersOf[i])}
           /\ Range(LayersOf[i]) \subseteq AllBlobs /\ ConfigOf[i] \in AllBlobs
  <1>1. LayersOf[i] \in Seq(Range(LayersOf[i]))
    BY LayersAssumption
  <1>2. Len(LayersOf[i]) \in Nat /\ DOMAIN LayersOf[i] = 1 .. Len(LayersOf[i])
    BY <1>1
  <1> QED BY <1>2 DEF Range, AllBlobs, Needs

\* What a fetch returns is a manifest with layers of its own, or nothing.
LEMMA FetchSingle ==
    ASSUME NEW tagged \in [Tags -> Images \cup {None}], NEW tag \in Tags
    PROVE  LET i == FetchManifest(tagged, tag) IN i = None \/ (i \in Images /\ IsSingle(i))
  BY ClientAssumption, SMT DEF FetchManifest, Resolve, IsSingle

\* Blobs only come, so that what another call has copied stays.
LEMMA OthersCopy ==
    ASSUME NEW u \in Tasks, Copying(u), run'[u] = run[u], blobs \subseteq blobs'
    PROVE  Copying(u)'
  BY DEF Copying

LEMMA SyncCopying ==
    ASSUME Types, CopyInv, NEW t \in Tasks, Sync(t)
    PROVE  Copying(t)' /\ blobs \subseteq blobs' /\ blobs' \subseteq AllBlobs
  <1> DEFINE Goal == Copying(t)' /\ blobs \subseteq blobs' /\ blobs' \subseteq AllBlobs
  <1> SUFFICES Goal
    OBVIOUS
  <1>0. run[t] \in Runs /\ run \in [Tasks -> Runs] /\ Copying(t) /\ blobs \subseteq AllBlobs
    BY DEF Types, CopyInv
  <1>q. ASSUME run'[t].pc \in {"idle", "clients", "raw", "complete", "failing", "failed"},
               blobs' = blobs
        PROVE  Goal
    BY <1>0, <1>q DEF Copying
  <1>g. ASSUME NEW p, Goto(t, p)
        PROVE  /\ run'[t].pc = p /\ run'[t].raw = run[t].raw /\ run'[t].man = run[t].man
               /\ run'[t].i = run[t].i /\ run'[t].skipped = run[t].skipped
    <2>1. run'[t] = [run[t] EXCEPT !.pc = p]
      BY <1>0, <1>g, Zenon DEF Goto
    <2> QED BY <1>0, <2>1, Zenon DEF Runs
  <1>f. ASSUME Fails(t) PROVE Goal
    BY <1>f, <1>g, <1>q DEF Fails, contents
  <1>a. LET i == FetchManifest(tags[Source], copies[t].from)
        IN  i = None \/ (i \in Images /\ IsSingle(i))
    <2>1. tags[Source] \in [Tags -> Images \cup {None}] /\ copies[t].from \in Tags
      BY RegistryAssumption, SMT DEF Types
    <2> QED BY <2>1, FetchSingle
  <1>1. CASE ExecuteSync(t)
    BY <1>1, <1>g, <1>q DEF ExecuteSync, contents
  <1>2. CASE CreateClients(t)
    <2>1. ASSUME NEW sure, NEW safe,
                 run' = [run EXCEPT ![t].pc = "raw", ![t].src = sure, ![t].dst = safe]
          PROVE  run'[t].pc = "raw"
      <3>1. run'[t] = [run[t] EXCEPT !.pc = "raw", !.src = sure, !.dst = safe]
        BY <1>0, <2>1, Zenon
      <3> QED BY <1>0, <3>1, Zenon DEF Runs
    <2> QED BY <1>2, <1>f, <1>q, <2>1 DEF CreateClients, contents
  <1>3. CASE RawManifest(t)
    <2>1. ASSUME NEW i \in Images, IsSingle(i), blobs' = blobs,
                 run' = [run EXCEPT ![t].pc = "compare", ![t].raw = i]
          PROVE  Goal
      <3>1. run'[t] = [run[t] EXCEPT !.pc = "compare", !.raw = i]
        BY <1>0, <2>1, Zenon
      <3>2. run'[t].pc = "compare" /\ run'[t].raw = i
        BY <1>0, <3>1, Zenon DEF Runs
      <3> QED BY <1>0, <2>1, <3>2 DEF Copying
    <2> QED BY <1>3, <1>f, <1>a, <2>1 DEF RawManifest, contents
  <1>4. CASE CompareTarget(t)
    <2>1. /\ Goto(t, "complete") \/ Goto(t, "manifest")
          /\ run[t].pc = "compare" /\ blobs' = blobs
      BY <1>4 DEF CompareTarget, contents
    <2>2. CASE Goto(t, "manifest")
      BY <1>0, <1>g, <2>1, <2>2 DEF Copying
    <2> QED BY <1>g, <1>q, <2>1, <2>2
  <1>5. CASE ReadLayers(t)
    <2>1. ASSUME NEW i \in Images, run[t].pc = "manifest", blobs' = blobs,
                 run' = [run EXCEPT ![t].pc = "layers", ![t].man = i, ![t].i = 1]
          PROVE  Goal
      <3>1. run'[t] = [run[t] EXCEPT !.pc = "layers", !.man = i, !.i = 1]
        BY <1>0, <2>1, Zenon
      <3>2. run'[t].pc = "layers" /\ run'[t].man = i /\ run'[t].i = 1 /\ run'[t].raw = run[t].raw
        BY <1>0, <3>1, Zenon DEF Runs
      <3>3. Len(LayersOf[i]) \in Nat
        BY Layers
      <3> QED BY <1>0, <2>1, <3>2, <3>3 DEF Copying
    <2> QED BY <1>5, <1>f, <1>a, <2>1 DEF ReadLayers, contents
  <1>6. CASE TransferLayer(t)
    <2> DEFINE man == run[t].man
               b == LayersOf[man][run[t].i]
    <2>1. ASSUME run[t].pc = "layers", run[t].i <= Len(LayersOf[man]),
                 run' = [run EXCEPT ![t].i = @ + 1],
                 IF b \in blobs THEN blobs' = blobs ELSE blobs' = blobs \cup {b}
          PROVE  Goal
      <3>1. run[t].i \in Nat /\ run[t].i >= 1 /\ man \in Images /\ Len(LayersOf[man]) \in Nat
        BY <1>0, <2>1, Layers DEF Copying, Runs
      <3>2. run'[t] = [run[t] EXCEPT !.i = run[t].i + 1]
        BY <1>0, <2>1, Zenon
      <3>3. /\ run'[t].pc = "layers" /\ run'[t].man = man /\ run'[t].raw = run[t].raw
            /\ run'[t].i = run[t].i + 1
        BY <1>0, <2>1, <3>2, Zenon DEF Runs
      <3>4. b \in AllBlobs
        <4>1. run[t].i \in 1 .. Len(LayersOf[man])
          BY <2>1, <3>1
        <4>2. b \in {LayersOf[man][k] : k \in 1 .. Len(LayersOf[man])}
          BY <4>1
        <4> QED BY <3>1, <4>2, Layers
      <3>5. blobs \subseteq blobs' /\ b \in blobs' /\ blobs' \subseteq AllBlobs
        BY <1>0, <2>1, <3>4
      <3>6. \A k \in 1 .. Len(LayersOf[man]) : k < run[t].i + 1 => LayersOf[man][k] \in blobs'
        <4> SUFFICES ASSUME NEW k \in 1 .. Len(LayersOf[man]), k < run[t].i + 1
                     PROVE  LayersOf[man][k] \in blobs'
          OBVIOUS
        <4>1. k = run[t].i \/ k < run[t].i
          BY <3>1
        <4> QED BY <1>0, <2>1, <3>5, <4>1 DEF Copying
      <3>7. run[t].i + 1 >= 1
        BY <3>1
      <3> QED BY <1>0, <2>1, <3>1, <3>3, <3>5, <3>6, <3>7 DEF Copying
    <2>2. \/ Fails(t)
          \/ /\ run[t].pc = "layers" /\ run[t].i <= Len(LayersOf[man])
             /\ run' = [run EXCEPT ![t].i = @ + 1]
             /\ IF b \in blobs THEN blobs' = blobs ELSE blobs' = blobs \cup {b}
      BY <1>6 DEF TransferLayer, TransferBlob, PushBlob, BlobExists
    <2> QED BY <1>f, <2>1, <2>2
  <1>7. CASE LayersDone(t)
    <2>1. /\ run[t].pc = "layers" /\ run[t].i > Len(LayersOf[run[t].man])
          /\ Goto(t, "config") /\ blobs' = blobs
      BY <1>7 DEF LayersDone, contents
    <2>2. /\ run[t].man \in Images /\ run[t].i \in Nat
          /\ \A k \in 1 .. Len(LayersOf[run[t].man]) :
                  k < run[t].i => LayersOf[run[t].man][k] \in blobs
      BY <1>0, <2>1 DEF Copying, Runs
    <2>3. Len(LayersOf[run[t].man]) \in Nat
      BY <2>2, Layers
    <2>4. \A k \in 1 .. Len(LayersOf[run[t].man]) : LayersOf[run[t].man][k] \in blobs
      BY <2>1, <2>2, <2>3
    <2>5. Range(LayersOf[run[t].man]) \subseteq blobs
      <3>1. {LayersOf[run[t].man][k] : k \in 1 .. Len(LayersOf[run[t].man])} \subseteq blobs
        BY <2>4
      <3> QED BY <2>2, <3>1, Layers
    <2> QED BY <1>0, <1>g, <2>1, <2>2, <2>5 DEF Copying
  <1>8. CASE TransferConfig(t)
    <2> DEFINE b == ConfigOf[run[t].man]
    <2>0. run[t].pc = "config" /\ b \in AllBlobs
      BY <1>0, <1>8, Layers DEF TransferConfig, Copying
    <2>1. ASSUME Goto(t, "push"), IF b \in blobs THEN blobs' = blobs ELSE blobs' = blobs \cup {b}
          PROVE  Goal
      <3>1. blobs \subseteq blobs' /\ b \in blobs' /\ blobs' \subseteq AllBlobs
        BY <1>0, <2>0, <2>1
      <3> QED BY <1>0, <1>g, <2>0, <2>1, <3>1 DEF Copying
    <2>2. ASSUME run' = [run EXCEPT ![t].pc = "push", ![t].skipped = TRUE], blobs' = blobs
          PROVE  Goal
      <3>1. run'[t] = [run[t] EXCEPT !.pc = "push", !.skipped = TRUE]
        BY <1>0, <2>2, Zenon
      <3>2. /\ run'[t].pc = "push" /\ run'[t].skipped /\ run'[t].man = run[t].man
            /\ run'[t].raw = run[t].raw
        BY <1>0, <3>1, Zenon DEF Runs
      <3> QED BY <1>0, <2>0, <2>2, <3>2 DEF Copying
    <2> QED BY <1>8, <1>f, <2>1, <2>2
            DEF TransferConfig, TransferBlob, PushBlob, BlobExists, contents
  <1>9. CASE PushManifest(t)
    BY <1>9, <1>f, <1>g, <1>q DEF PushManifest
  <1>10. CASE CompleteSync(t) \/ FailWrites(t)
    <2>1. run' = [run EXCEPT ![t] = NoRun] /\ blobs' = blobs
      BY <1>10 DEF CompleteSync, FailWrites, contents
    <2>2. run'[t].pc = "idle"
      BY <1>0, <2>1 DEF NoRun
    <2> QED BY <1>q, <2>1, <2>2
  <1>11. CASE FailSync(t)
    <2>1. run'[t].pc \in {"idle", "failed"} /\ blobs' = blobs
      BY <1>0, <1>11 DEF FailSync, NoRun, contents
    <2> QED BY <1>q, <2>1
  <1> QED BY <1>1, <1>2, <1>3, <1>4, <1>5, <1>6, <1>7, <1>8, <1>9, <1>10, <1>11 DEF Sync

\* Where no tag of the target changes, its manifests stay whole.
LEMMA TargetKept ==
    ASSUME TargetWhole, tags'[Target] = tags[Target], blobs \subseteq blobs', torn \subseteq torn'
    PROVE  TargetWhole'
  BY DEF TargetWhole

\* A manifest is pushed when its blobs are there, or it is marked.
LEMMA SyncTarget ==
    ASSUME Types, CopyInv, NEW t \in Tasks, Sync(t)
    PROVE  TargetWhole' /\ torn' \subseteq Images
  <1>0. /\ run[t] \in Runs /\ Copying(t) /\ copies[t].to \in Tags /\ TargetWhole
        /\ torn \subseteq Images /\ tags \in [Registries -> [Tags -> Images \cup {None}]]
        /\ Target \in Registries
    BY RegistryAssumption DEF Types, CopyInv
  <1>1. CASE UNCHANGED <<tags, torn>>
    BY <1>0, <1>1, SyncCopying, TargetKept
  <1>2. CASE PushManifest(t)
    <2> DEFINE raw == run[t].raw
               man == run[t].man
               body == DoRequest(Target, run[t].dst, raw)
    <2>1. CASE UNCHANGED <<tags, torn>>
      BY <1>1, <2>1
    <2>2. CASE /\ body \in Images /\ blobs' = blobs
               /\ tags' = [tags EXCEPT ![Target][copies[t].to] = body]
               /\ torn' = IF raw # man \/ run[t].skipped THEN torn \cup {body} ELSE torn
      <3>1. body = raw
        BY <2>2, ClientAssumption DEF DoRequest
      <3>2. raw \in Images /\ IsSingle(raw) /\ man \in Images
            /\ Range(LayersOf[man]) \subseteq blobs
            /\ (run[t].skipped \/ ConfigOf[man] \in blobs)
        BY <1>0, <1>2 DEF PushManifest, Copying
      <3>3. raw \in torn' \/ Needs(raw) \subseteq blobs
        BY <2>2, <3>1, <3>2 DEF Needs
      <3>4. Resolve(raw) = raw
        BY <3>2 DEF Resolve
      <3>5. /\ tags'[Target][copies[t].to] = raw
            /\ \A tag \in Tags \ {copies[t].to} : tags'[Target][tag] = tags[Target][tag]
        BY <1>0, <2>2, <3>1
      <3>6. torn \subseteq torn' /\ torn' \subseteq Images
        BY <1>0, <2>2
      <3> QED BY <1>0, <2>2, <3>3, <3>4, <3>5, <3>6 DEF TargetWhole, FetchManifest
    <2> QED BY <1>2, <2>1, <2>2 DEF PushManifest, Fails, contents
  <1>3. ~PushManifest(t) => UNCHANGED <<tags, torn>>
    BY DEF Sync, ExecuteSync, CreateClients, RawManifest, CompareTarget, ReadLayers, TransferLayer,
           LayersDone, TransferConfig, CompleteSync, FailSync, FailWrites, Fails, contents
  <1> QED BY <1>1, <1>2, <1>3

LEMMA CopyStep ==
    ASSUME Types, CopyInv, [Next]_vars
    PROVE  CopyInv'
  <1>0. seals \in [Registries -> 0 .. MaxSeals] /\ MaxSeals \in Nat \ {0}
    BY RegistryAssumption DEF CopyInv
  <1>1. CASE UNCHANGED <<seals, tags, blobs, torn, run>>
    <2>1. \A u \in Tasks : Copying(u)'
      BY <1>1, OthersCopy DEF CopyInv
    <2>2. TargetWhole'
      BY <1>1, TargetKept DEF CopyInv
    <2> QED BY <1>1, <2>1, <2>2 DEF CopyInv
  <1>2. CASE UNCHANGED <<tags, blobs, torn, run>> /\ seals' \in [Registries -> 0 .. MaxSeals]
    <2>1. \A u \in Tasks : Copying(u)'
      BY <1>2, OthersCopy DEF CopyInv
    <2>2. TargetWhole'
      BY <1>2, TargetKept DEF CopyInv
    <2> QED BY <1>2, <2>1, <2>2 DEF CopyInv
  <1>3. CASE RegistryRequest
    <2>1. ASSUME NEW r \in Registries, CreateRegistry(r) \/ DeleteRegistry(r) PROVE CopyInv'
      <3>1. 0 + 1 \in 0 .. MaxSeals /\ 0 \in 0 .. MaxSeals
        BY <1>0
      <3> QED BY <1>0, <1>2, <2>1, <3>1
              DEF CreateRegistry, DeleteRegistry, CreateRow, DeleteRow, Seal, contents
    <2>2. ASSUME NEW a \in Admins, UpdateRow(a) PROVE CopyInv'
      <3>1. Seal(req[a].seal) \in 0 .. MaxSeals /\ 0 \in 0 .. MaxSeals
        BY <1>0, <2>2 DEF UpdateRow, Seal, Types, Reqs
      <3> QED BY <1>0, <1>2, <2>2, <3>1 DEF UpdateRow, contents
    <2> QED BY <1>1, <1>3, <2>1, <2>2 DEF RegistryRequest, UpdateRegistry, RequestLost, rows, contents
  <1>4. CASE SyncRequest
    BY <1>1, <1>4 DEF SyncRequest, CreateSync, InsertTask, CancelWrites, CancelSync, rows, contents
  <1>5. ASSUME NEW t \in Tasks, Sync(t) PROVE CopyInv'
    <2>1. \A u \in Tasks \ {t} : run'[u] = run[u]
      <3>1. CASE FailSync(t)
        BY <3>1 DEF FailSync, Types
      <3>2. CASE ~FailSync(t)
        BY <1>5, <3>2, SyncMoves DEF Moves, Types
      <3> QED BY <3>1, <3>2
    <2>2. \A u \in Tasks : Copying(u)'
      BY <1>5, <2>1, SyncCopying, OthersCopy DEF CopyInv
    <2>3. seals' = seals
      BY <1>5, SyncLeaves
    <2> QED BY <1>5, <2>2, <2>3, SyncCopying, SyncTarget DEF CopyInv
  <1>6. ASSUME NEW tag \in Tags, NEW i \in Images, SourceMoves(tag, i) PROVE CopyInv'
    <2>1. UNCHANGED <<seals, blobs, torn, run>> /\ tags'[Target] = tags[Target]
      BY <1>6, RegistryAssumption DEF SourceMoves, rows, Types
    <2>2. \A u \in Tasks : Copying(u)'
      BY <2>1, OthersCopy DEF CopyInv
    <2> QED BY <2>1, <2>2, TargetKept DEF CopyInv
  <1>7. ASSUME NEW tag \in Tags, TargetLoses(tag) PROVE CopyInv'
    <2>1. UNCHANGED <<seals, blobs, torn, run>>
      BY <1>7 DEF TargetLoses, rows
    <2>2. \A u \in Tasks : Copying(u)'
      BY <2>1, OthersCopy DEF CopyInv
    <2>3. \A g \in Tags : tags'[Target][g] \in {tags[Target][g], None}
      BY <1>7, RegistryAssumption DEF TargetLoses, Untagged, Types
    <2>4. Resolve(None) = None
      BY DEF Resolve
    <2>5. TargetWhole'
      BY <2>1, <2>3, <2>4 DEF CopyInv, TargetWhole, FetchManifest
    <2> QED BY <2>1, <2>2, <2>5 DEF CopyInv
  <1>8. CASE CrashRestart
    <2>1. UNCHANGED <<seals, tags, blobs, torn>> /\ run' = [t \in Tasks |-> NoRun]
      BY <1>8 DEF CrashRestart, rows, contents
    <2>2. \A u \in Tasks : Copying(u)'
      BY <2>1 DEF Copying, NoRun
    <2> QED BY <2>1, <2>2, TargetKept DEF CopyInv
  <1>9. CASE UNCHANGED vars
    BY <1>1, <1>9 DEF vars
  <1> QED BY <1>3, <1>4, <1>5, <1>6, <1>7, <1>8, <1>9 DEF Next

LEMMA CopyInit == Init => CopyInv
  <1> SUFFICES ASSUME Init PROVE CopyInv
    OBVIOUS
  <1>1. seals \in [Registries -> 0 .. MaxSeals]
    BY RegistryAssumption DEF Init
  <1>2. \A tag \in Tags : Resolve(Stored[Target][tag]) \in Images \cup {None}
    <2>1. Stored[Target] \in [Tags -> Images \cup {None}]
      BY RegistryAssumption
    <2> QED BY <2>1, FetchSingle DEF FetchManifest
  <1>3. blobs \subseteq AllBlobs
    BY <1>2 DEF Init, AllBlobs
  <1>4. \A t \in Tasks : Copying(t)
    BY DEF Init, Copying, NoRun
  <1>5. TargetWhole
    BY <1>2 DEF Init, TargetWhole, FetchManifest
  <1> QED BY <1>1, <1>3, <1>4, <1>5 DEF Init, CopyInv

LEMMA TypesInit == Init => Types
  BY Idle, RegistryAssumption, SMT DEF Init, Types

\* ExecuteSync pushes the manifest last: whatever exchanges fail, whoever moves
\* or deletes tags, and wherever the process dies, a tag of the target never
\* names a manifest whose blobs are missing, unless the two reads of the source
\* disagreed or the check of the config blob failed.
THEOREM TargetStaysWhole == Spec => []CopiesWhole
  <1>1. Types /\ CopyInv /\ [Next]_vars => (Types /\ CopyInv)'
    BY TypesStep, CopyStep
  <1>2. Types /\ CopyInv => CopiesWhole
    <2> SUFFICES ASSUME Types, CopyInv PROVE TypeOK /\ TargetWhole
      BY DEF CopiesWhole
    <2>1. \A t \in Tasks : run[t].pc \in {"layers", "config", "push"} =>
             run[t].raw \in Images /\ run[t].man \in Images
      BY DEF CopyInv, Copying
    <2> QED BY <2>1 DEF Types, CopyInv, TypeOK, AllBlobs, Runs, Reqs
  <1> QED BY <1>1, <1>2, TypesInit, CopyInit, PTL DEF Spec

-----------------------------------------------------------------------------
(* Duplicates. *)

\* At most one request is between its check for a duplicate and its insert.
OneCreates ==
    \A a, b \in Admins : req[a].pc = "insert" /\ req[b].pc = "insert" => a = b

\* What such a request has checked still holds.
Checked ==
    \A a \in Admins : req[a].pc = "insert" => ActiveByTarget(req[a].to) = {}

\* A task becomes active by its insert only, and keeps its target.
LEMMA Activation ==
    ASSUME Types, [Next]_vars, \A a \in Admins : ~InsertTask(a)
    PROVE  /\ copies' = copies
           /\ \A t \in Tasks : status'[t] \in Active => status[t] \in Active
  <1>1. copies' = copies
    <2>1. ASSUME NEW t \in Tasks, Sync(t) PROVE copies' = copies
      BY <2>1, SyncLeaves
    <2>2. RegistryRequest \/ SyncRequest => copies' = copies
      BY DEF RegistryRequest, CreateRegistry, DeleteRegistry, UpdateRegistry, UpdateRow, RequestLost,
             SyncRequest, CreateSync, CancelWrites, CancelSync, rows
    <2>3. (\E tag \in Tags, i \in Images : SourceMoves(tag, i)) => copies' = copies
      BY DEF SourceMoves, rows
    <2>4. (\E tag \in Tags : TargetLoses(tag)) => copies' = copies
      BY DEF TargetLoses, rows
    <2>5. CrashRestart \/ UNCHANGED vars => copies' = copies
      BY DEF CrashRestart, vars, rows
    <2> QED BY <2>1, <2>2, <2>3, <2>4, <2>5 DEF Next
  <1>2. status \in [Tasks -> {"none", "pending", "running", "completed", "failed"}]
    BY DEF Types
  <1> DEFINE Kept == \A t \in Tasks : status'[t] \in Active => status[t] \in Active
  <1>3. Kept
    <2>1. ASSUME NEW a \in Admins, CancelWrites(a) PROVE Kept
      BY <1>2, <2>1 DEF CancelWrites, Fail, Active
    <2>2. ASSUME NEW u \in Tasks, ExecuteSync(u) PROVE Kept
      BY <1>2, <2>2 DEF ExecuteSync, TransitionStatus, Active
    <2>3. ASSUME NEW u \in Tasks, CompleteSync(u) PROVE Kept
      BY <1>2, <2>3 DEF CompleteSync, TransitionStatus, Active
    <2>4. ASSUME NEW u \in Tasks, FailWrites(u) PROVE Kept
      BY <1>2, <2>4 DEF FailWrites, Fail, Active
    <2> QED BY <2>1, <2>2, <2>3, <2>4, Writers
  <1> QED BY <1>1, <1>3

\* A request comes to its insert through CreateSync only.
LEMMA Inserting ==
    ASSUME Types, [Next]_vars, NEW a \in Admins, req'[a].pc = "insert"
    PROVE  \/ req'[a] = req[a]
           \/ \E from, to \in Tags : CreateSync(a, from, to) /\ req'[a].to = to
  <1> DEFINE Goal == \/ req'[a] = req[a]
                     \/ \E from, to \in Tags : CreateSync(a, from, to) /\ req'[a].to = to
  <1> SUFFICES Goal
    OBVIOUS
  <1>0. req \in [Admins -> Reqs] /\ NoReq.pc = "idle"
    BY DEF Types, NoReq
  <1>1. ASSUME NEW b \in Admins, NEW from \in Tags, NEW to \in Tags, CreateSync(b, from, to)
        PROVE  Goal
    <2>1. CASE a = b
      <3>1. req'[a].to = to
        BY <1>0, <1>1, <2>1 DEF CreateSync, NoReq
      <3> QED BY <1>1, <2>1, <3>1
    <2> QED BY <1>0, <1>1, <2>1 DEF CreateSync
  <1>2. ASSUME NEW b \in Admins, NEW t \in Tasks, CancelSync(b, t) PROVE Goal
    <2>1. a # b
      BY <1>0, <1>2 DEF CancelSync, NoReq
    <2> QED BY <1>0, <1>2, <2>1 DEF CancelSync
  <1>3. ASSUME NEW b \in Admins, NEW r \in Registries, NEW typed \in BOOLEAN,
               UpdateRegistry(b, r, typed)
        PROVE  Goal
    <2>1. a # b
      BY <1>0, <1>3 DEF UpdateRegistry, EditedRow, NoReq
    <2> QED BY <1>0, <1>3, <2>1 DEF UpdateRegistry
  <1>4. ASSUME NEW b \in Admins, UpdateRow(b) \/ RequestLost(b) \/ InsertTask(b) \/ CancelWrites(b)
        PROVE  Goal
    <2>1. req' = [req EXCEPT ![b] = NoReq]
      BY <1>4 DEF UpdateRow, RequestLost, InsertTask, CancelWrites
    <2> QED BY <1>0, <2>1
  <1>5. ~CrashRestart
    BY <1>0 DEF CrashRestart
  <1>6. CASE UNCHANGED req
    BY <1>6
  <1>7. ASSUME NEW t \in Tasks, Sync(t) PROVE UNCHANGED req
    BY <1>7, SyncLeaves
  <1>8. (\E r \in Registries : CreateRegistry(r) \/ DeleteRegistry(r)) => UNCHANGED req
    BY DEF CreateRegistry, DeleteRegistry
  <1>9. (\E tag \in Tags, i \in Images : SourceMoves(tag, i)) => UNCHANGED req
    BY DEF SourceMoves
  <1>10. (\E tag \in Tags : TargetLoses(tag)) \/ UNCHANGED vars => UNCHANGED req
    BY DEF TargetLoses, vars
  <1> QED
    BY <1>1, <1>2, <1>3, <1>4, <1>5, <1>6, <1>7, <1>8, <1>9, <1>10
       DEF Next, RegistryRequest, SyncRequest

LEMMA DuplicatesStep ==
    ASSUME Types, Checked, OneActivePerTarget, OneCreates, [Next]_vars
    PROVE  Checked' /\ OneActivePerTarget'
  <1>0. /\ status \in [Tasks -> {"none", "pending", "running", "completed", "failed"}]
        /\ req \in [Admins -> Reqs] /\ NoReq.pc = "idle"
        /\ copies \in [Tasks -> [from : Tags, to : Tags]]
    BY DEF Types, NoReq
  <1>1. ASSUME NEW a \in Admins, InsertTask(a) PROVE Checked' /\ OneActivePerTarget'
    <2>1. req[a].pc = "insert" /\ req' = [req EXCEPT ![a] = NoReq]
      BY <1>1 DEF InsertTask
    <2>2. \A b \in Admins : req'[b].pc # "insert"
      BY <1>0, <2>1 DEF OneCreates
    <2>3. Checked'
      BY <2>2 DEF Checked
    <2>4. CASE UNCHANGED <<status, copies>>
      BY <2>3, <2>4 DEF OneActivePerTarget
    <2>5. CASE CreateTask(req[a].from, req[a].to)
      <3>1. PICK t \in Tasks :
              /\ status' = [status EXCEPT ![t] = "pending"]
              /\ copies' = [copies EXCEPT ![t] = [from |-> req[a].from, to |-> req[a].to]]
        BY <2>5 DEF CreateTask
      <3>2. /\ copies'[t].to = req[a].to
            /\ \A u \in Tasks \ {t} : status'[u] = status[u] /\ copies'[u] = copies[u]
        BY <1>0, <3>1
      <3>3. \A u \in Tasks : status[u] \in Active => copies[u].to # req[a].to
        BY <2>1 DEF Checked, ActiveByTarget
      <3>4. ASSUME NEW u \in Tasks, NEW v \in Tasks, u # v, status'[u] \in Active, status'[v] \in Active
            PROVE  copies'[u].to # copies'[v].to
        BY <3>2, <3>3, <3>4 DEF OneActivePerTarget
      <3> QED BY <2>3, <3>4 DEF OneActivePerTarget
    <2> QED BY <1>1, <2>4, <2>5 DEF InsertTask
  <1>2. CASE \A a \in Admins : ~InsertTask(a)
    <2>1. /\ copies' = copies
          /\ \A t \in Tasks : status'[t] \in Active => status[t] \in Active
      BY <1>2, Activation
    <2>2. OneActivePerTarget'
      BY <2>1 DEF OneActivePerTarget
    <2>3. ASSUME NEW a \in Admins, req'[a].pc = "insert" PROVE ActiveByTarget(req[a].to)' = {}
      <3>1. CASE req'[a] = req[a]
        <4>1. ActiveByTarget(req[a].to) = {}
          BY <2>3, <3>1 DEF Checked
        <4> QED BY <2>1, <3>1, <4>1 DEF ActiveByTarget
      <3>2. ASSUME NEW from \in Tags, NEW to \in Tags, CreateSync(a, from, to), req'[a].to = to
            PROVE  ActiveByTarget(req[a].to)' = {}
        <4>1. ActiveByTarget(to) = {}
          BY <3>2 DEF CreateSync, Creatable
        <4> QED BY <2>1, <3>2, <4>1 DEF ActiveByTarget
      <3> QED BY <2>3, <3>1, <3>2, Inserting
    <2> QED BY <2>2, <2>3 DEF Checked
  <1> QED BY <1>1, <1>2

LEMMA DuplicatesInit == Init => Checked /\ OneActivePerTarget
  BY DEF Init, Checked, OneActivePerTarget, NoReq, Active

\* CreateSync refuses a second active task for a target: the check and the insert
\* are two statements, and that is enough as long as no other request is between
\* the two, whatever cancels, restarts and late failures do to the tasks.
THEOREM NoDuplicateTasks == Spec /\ []OneCreates => []OneActivePerTarget
  <1>1. Types /\ Checked /\ OneActivePerTarget /\ OneCreates /\ [Next]_vars
            => (Types /\ Checked /\ OneActivePerTarget)'
    BY TypesStep, DuplicatesStep
  <1> QED BY <1>1, TypesInit, DuplicatesInit, PTL DEF Spec

\* One admin at a time is enough for that.
THEOREM NoDuplicatesOfOneAdmin ==
    ASSUME \A a, b \in Admins : a = b
    PROVE  Spec => []OneActivePerTarget
  <1>1. OneCreates
    BY DEF OneCreates
  <1> QED BY <1>1, NoDuplicateTasks, PTL

-----------------------------------------------------------------------------
(* Which tags a policy gives up. *)

Infos == [name : Names, digest : Images, age : Nat]

Keeping ==
    [pc : {"idle", "due", "list", "details", "delete"}, rule : Policies \cup {None},
     names : SUBSET Names, infos : SUBSET Infos, dels : SUBSET Infos]

RetTypes ==
    /\ names \in [Names -> Images \cup {None}]
    /\ present \in BOOLEAN
    /\ policy \in Policies \cup {None}
    /\ untag \in Images \cup {None}
    /\ keeper \in [Keepers -> Keeping]

\* What a call has read is finite, what it will delete is part of it, and once it lists tags
\* it goes by a policy.
KeeperRight(r) ==
    /\ IsFiniteSet(r.infos)
    /\ r.dels \subseteq r.infos
    /\ r.pc \in {"list", "details"} => r.rule \in Policies

RetInv == RetTypes /\ \A p \in Keepers : KeeperRight(keeper[p])

LEMMA RetFacts ==
    /\ Age \in [Images -> Nat] /\ Ancient \in Nat
    /\ Policies \subseteq [days : Nat, count : Nat, names : SUBSET Names, enabled : BOOLEAN]
    /\ Arm64 \in [Images -> Images \cup {None}] /\ None \notin Images
  BY RetentionAssumption, ClientAssumption DEF Ret!Constants

LEMMA IdleKeeper == Ret!NoKeeper \in Keeping /\ KeeperRight(Ret!NoKeeper)
  BY FS_EmptySet DEF Ret!NoKeeper, Keeping, KeeperRight

LEMMA RetInit == ASSUME Ret!Init PROVE RetInv
<1>1. RetTypes
  BY IdleKeeper DEF Ret!Init, RetTypes
<1>2. ASSUME NEW p \in Keepers PROVE KeeperRight(keeper[p])
  <2>1. keeper[p] = Ret!NoKeeper
    BY DEF Ret!Init
  <2> QED
    BY <2>1, IdleKeeper
<1> QED
  BY <1>1, <1>2 DEF RetInv

\* A step that changes one call at most.
LEMMA RetMoves ==
    ASSUME RetInv, NEW p \in Keepers, NEW r \in Keeping, KeeperRight(r),
           keeper' = [keeper EXCEPT ![p] = r],
           names' \in [Names -> Images \cup {None}],
           UNCHANGED <<present, policy, untag>>
    PROVE  RetInv'
<1>1. RetTypes'
  BY DEF RetInv, RetTypes
<1>2. ASSUME NEW q \in Keepers PROVE KeeperRight(keeper'[q])
  BY DEF RetInv, RetTypes
<1> QED
  BY <1>1, <1>2 DEF RetInv, KeeperRight

\* ... and one that changes none.
LEMMA RetRests ==
    ASSUME RetInv, UNCHANGED keeper, names' \in [Names -> Images \cup {None}],
           present' \in BOOLEAN, policy' \in Policies \cup {None}, untag' \in Images \cup {None}
    PROVE  RetInv'
  BY DEF RetInv, RetTypes, KeeperRight

\* A DELETE of a digest only removes tags.
LEMMA DeletesTags ==
    ASSUME RetInv, NEW d, Ret!DeleteManifest(d)
    PROVE  names' \in [Names -> Images \cup {None}]
  BY DEF RetInv, RetTypes, Ret!DeleteManifest, Ret!Untagged

LEMMA FetchedImage ==
    ASSUME RetInv, NEW t \in Names, Ret!FetchManifest(names, t) # None
    PROVE  Ret!FetchManifest(names, t) \in Images /\ names[t] \in Images
<1>1. names[t] \in Images \cup {None}
  BY DEF RetInv, RetTypes
<1>2. names[t] # None
  BY DEF Ret!FetchManifest, Ret!Resolve
<1> QED
  BY <1>1, <1>2, RetFacts DEF Ret!FetchManifest, Ret!Resolve

LEMMA RetRequest == ASSUME RetInv, Ret!Request PROVE RetInv'
<1>1. ASSUME NEW p \in Policies, Ret!CreatePolicy(p) \/ Ret!UpdatePolicy(p) PROVE RetInv'
  BY <1>1, RetRests DEF Ret!CreatePolicy, Ret!UpdatePolicy, Ret!StoreRow, RetInv, RetTypes
<1>2. CASE Ret!DeletePolicy \/ Ret!ToggleRegistry
  <2>1. /\ keeper' = keeper /\ names' = names /\ untag' = untag
        /\ policy' = None /\ present' \in BOOLEAN
    BY <1>2 DEF Ret!DeletePolicy, Ret!ToggleRegistry, RetInv, RetTypes
  <2> QED
    BY <2>1, RetRests DEF RetInv, RetTypes
<1>3. ASSUME NEW t \in Names, Ret!DeleteTag(t) PROVE RetInv'
  <2>1. Ret!FetchManifest(names, t) # None /\ untag' = names[t]
    BY <1>3 DEF Ret!DeleteTag, Ret!TagDigest
  <2> QED
    BY <1>3, <2>1, FetchedImage, RetRests DEF Ret!DeleteTag, RetInv, RetTypes
<1>4. CASE Ret!DeleteDigest
  BY <1>4, DeletesTags, RetRests DEF Ret!DeleteDigest, RetInv, RetTypes
<1>5. ASSUME NEW t \in Names, NEW i \in Images, Ret!Push(t, i) PROVE RetInv'
  <2>1. names' \in [Names -> Images \cup {None}]
    BY <1>5 DEF Ret!Push, RetInv, RetTypes
  <2> QED
    BY <1>5, <2>1, RetRests DEF Ret!Push, RetInv, RetTypes
<1> QED
  BY <1>1, <1>2, <1>3, <1>4, <1>5 DEF Ret!Request

\* What is remembered of a tag is nothing, or its digest and an age.
LEMMA DetailIs ==
    ASSUME RetInv, NEW t \in Names, NEW found \in Ret!TagDetail(t)
    PROVE  found = {} \/ \E x \in Infos : found = {x}
<1>1. CASE found = {}
  BY <1>1
<1>2. CASE found # {}
  <2>1. PICK i : i = Ret!FetchManifest(names, t)
    OBVIOUS
  <2>2. i # None
    BY <1>2, <2>1 DEF Ret!TagDetail
  <2>3. PICK age \in Ret!CreatedAt(i) : found = {[name |-> t, digest |-> names[t], age |-> age]}
    BY <1>2, <2>1, <2>2 DEF Ret!TagDetail
  <2>4. i \in Images /\ names[t] \in Images
    BY <2>1, <2>2, FetchedImage
  <2>5. age \in Nat
    BY <2>3, <2>4, RetFacts DEF Ret!CreatedAt
  <2>6. [name |-> t, digest |-> names[t], age |-> age] \in Infos
    BY <2>4, <2>5 DEF Infos
  <2> QED
    BY <2>3, <2>6
<1> QED
  BY <1>1, <1>2

LEMMA SelectedAmong ==
    ASSUME NEW r, NEW I, NEW dels \in Ret!SelectTagsForDeletion(r, I)
    PROVE  dels \subseteq I
  BY DEF Ret!SelectTagsForDeletion

LEMMA RetExecute == ASSUME RetInv, NEW p \in Keepers, Ret!Execute(p) PROVE RetInv'
<1>0. PICK r \in Keeping : r = keeper[p]
  BY DEF RetInv, RetTypes
<1>1. KeeperRight(r) /\ names \in [Names -> Images \cup {None}]
  BY <1>0 DEF RetInv, RetTypes
<1>2. CASE Ret!RunAllPolicies(p) \/ Ret!RequestExecution(p)
  <2>1. PICK q : q = [r EXCEPT !.pc = "due"]
    OBVIOUS
  <2>2. keeper' = [keeper EXCEPT ![p] = q] /\ UNCHANGED <<names, present, policy, untag>>
    BY <1>0, <1>2, <2>1 DEF Ret!RunAllPolicies, Ret!RequestExecution
  <2>3. q \in Keeping
    BY <2>1 DEF Keeping
  <2>4. q.pc = "due" /\ q.infos = r.infos /\ q.dels = r.dels
    BY <2>1 DEF Keeping
  <2>5. KeeperRight(q)
    BY <1>1, <2>4 DEF KeeperRight
  <2> QED
    BY <1>1, <2>2, <2>3, <2>5, RetMoves
<1>3. CASE Ret!ExecutePolicy(p)
  <2>1. PICK q : q = IF policy = None \/ ~present THEN Ret!NoKeeper
                     ELSE [Ret!NoKeeper EXCEPT !.pc = "list", !.rule = policy]
    OBVIOUS
  <2>2. keeper' = [keeper EXCEPT ![p] = q] /\ UNCHANGED <<names, present, policy, untag>>
    BY <1>3, <2>1 DEF Ret!ExecutePolicy
  <2>3. q \in Keeping /\ KeeperRight(q)
    <3>1. CASE policy = None \/ ~present
      BY <2>1, <3>1, IdleKeeper
    <3>2. CASE ~(policy = None \/ ~present)
      <4>1. q = [Ret!NoKeeper EXCEPT !.pc = "list", !.rule = policy] /\ policy \in Policies
        BY <2>1, <3>2 DEF RetInv, RetTypes
      <4>2. q \in Keeping
        BY <4>1, IdleKeeper DEF Keeping
      <4>3. q.pc = "list" /\ q.rule = policy /\ q.infos = {} /\ q.dels = {}
        BY <4>1 DEF Ret!NoKeeper
      <4> QED
        BY <4>1, <4>2, <4>3, FS_EmptySet DEF KeeperRight
    <3> QED
      BY <3>1, <3>2
  <2> QED
    BY <1>1, <2>2, <2>3, RetMoves
<1>4. CASE Ret!ListTags(p) \/ Ret!PolicyDone(p)
  <2>1. UNCHANGED <<names, present, policy, untag>>
    BY <1>4 DEF Ret!ListTags, Ret!PolicyDone
  <2>2. CASE keeper' = [keeper EXCEPT ![p] = Ret!NoKeeper]
    BY <1>1, <2>1, <2>2, IdleKeeper, RetMoves
  <2>3. CASE /\ r.pc = "list"
             /\ keeper' = [keeper EXCEPT ![p].pc = "details", ![p].names = Ret!TagsWithPagination]
    <3>1. PICK q : q = [r EXCEPT !.pc = "details", !.names = Ret!TagsWithPagination]
      OBVIOUS
    <3>2. keeper' = [keeper EXCEPT ![p] = q]
      BY <1>0, <2>3, <3>1 DEF RetInv, RetTypes
    <3>3. Ret!TagsWithPagination \subseteq Names
      BY DEF Ret!TagsWithPagination
    <3>4. q \in Keeping
      BY <3>1, <3>3 DEF Keeping
    <3>5. q.pc = "details" /\ q.rule = r.rule /\ q.infos = r.infos /\ q.dels = r.dels
      BY <3>1 DEF Keeping
    <3>6. KeeperRight(q)
      BY <1>1, <2>3, <3>5 DEF KeeperRight
    <3> QED
      BY <1>1, <2>1, <3>2, <3>4, <3>6, RetMoves
  <2> QED
    BY <1>0, <1>4, <2>2, <2>3 DEF Ret!ListTags, Ret!PolicyDone
<1>5. ASSUME NEW t \in Names, Ret!ReadTag(p, t) PROVE RetInv'
  <2>1. PICK found \in Ret!TagDetail(t) :
            keeper' = [keeper EXCEPT ![p].names = @ \ {t}, ![p].infos = @ \cup found]
    BY <1>5 DEF Ret!ReadTag
  <2>2. PICK q : q = [r EXCEPT !.names = @ \ {t}, !.infos = @ \cup found]
    OBVIOUS
  <2>3. keeper' = [keeper EXCEPT ![p] = q]
    BY <1>0, <2>1, <2>2 DEF RetInv, RetTypes
  <2>4. found \subseteq Infos /\ IsFiniteSet(found)
    <3>1. CASE found = {}
      BY <3>1, FS_EmptySet
    <3>2. CASE found # {}
      <4>1. PICK x \in Infos : found = {x}
        BY <3>2, DetailIs
      <4>2. IsFiniteSet({x})
        BY FS_Singleton
      <4> QED
        BY <4>1, <4>2
    <3> QED
      BY <3>1, <3>2
  <2>5. q \in Keeping
    BY <2>2, <2>4 DEF Keeping
  <2>6. q.pc = r.pc /\ q.rule = r.rule /\ q.infos = r.infos \cup found /\ q.dels = r.dels
    BY <2>2 DEF Keeping
  <2>7. IsFiniteSet(r.infos \cup found)
    BY <1>1, <2>4, FS_Union DEF KeeperRight
  <2>8. KeeperRight(q)
    BY <1>1, <2>6, <2>7 DEF KeeperRight
  <2> QED
    BY <1>1, <1>5, <2>3, <2>5, <2>8, RetMoves DEF Ret!ReadTag
<1>6. CASE Ret!SelectTags(p)
  <2>1. PICK dels \in Ret!SelectTagsForDeletion(r.rule, r.infos) :
            keeper' = [keeper EXCEPT ![p].pc = "delete", ![p].dels = dels]
    BY <1>0, <1>6 DEF Ret!SelectTags
  <2>2. PICK q : q = [r EXCEPT !.pc = "delete", !.dels = dels]
    OBVIOUS
  <2>3. keeper' = [keeper EXCEPT ![p] = q]
    BY <1>0, <2>1, <2>2 DEF RetInv, RetTypes
  <2>4. dels \subseteq r.infos
    BY SelectedAmong
  <2>5. q \in Keeping
    BY <2>2, <2>4 DEF Keeping
  <2>6. q.pc = "delete" /\ q.infos = r.infos /\ q.dels = dels
    BY <2>2 DEF Keeping
  <2>7. KeeperRight(q)
    BY <1>1, <2>4, <2>6 DEF KeeperRight
  <2> QED
    BY <1>1, <1>6, <2>3, <2>5, <2>7, RetMoves DEF Ret!SelectTags
<1>7. ASSUME NEW x \in keeper[p].dels, Ret!DeleteSelected(p, x) PROVE RetInv'
  <2>1. PICK q : q = [r EXCEPT !.dels = @ \ {x}]
    OBVIOUS
  <2>2. keeper' = [keeper EXCEPT ![p] = q] /\ UNCHANGED <<present, policy, untag>>
    BY <1>0, <1>7, <2>1 DEF Ret!DeleteSelected, RetInv, RetTypes
  <2>3. q \in Keeping
    BY <2>1 DEF Keeping
  <2>4. q.pc = r.pc /\ q.rule = r.rule /\ q.infos = r.infos /\ q.dels = r.dels \ {x}
    BY <2>1 DEF Keeping
  <2>5. KeeperRight(q)
    BY <1>1, <2>4 DEF KeeperRight
  <2>6. names' \in [Names -> Images \cup {None}]
    BY <1>7, DeletesTags DEF Ret!DeleteSelected
  <2> QED
    BY <2>2, <2>3, <2>5, <2>6, RetMoves
<1> QED
  BY <1>2, <1>3, <1>4, <1>5, <1>6, <1>7 DEF Ret!Execute

LEMMA RetStep == ASSUME RetInv, [Ret!Next]_retention PROVE RetInv'
<1>1. CASE UNCHANGED retention
  BY <1>1, RetRests DEF retention, RetInv, RetTypes
<1>2. CASE Ret!Next
  BY <1>2, RetRequest, RetExecute DEF Ret!Next
<1> QED
  BY <1>1, <1>2

LEMMA LesserOf ==
    ASSUME NEW m \in Nat, NEW n \in Nat
    PROVE  /\ Ret!Min({m, n}) \in {m, n}
           /\ Ret!Min({m, n}) <= m /\ Ret!Min({m, n}) <= n
<1>1. \E x \in {m, n} : \A y \in {m, n} : x <= y
  OBVIOUS
<1>2. PICK l : l = Ret!Min({m, n})
  OBVIOUS
<1>3. l \in {m, n} /\ \A y \in {m, n} : l <= y
  BY <1>1, <1>2, Zenon DEF Ret!Min
<1> QED
  BY <1>2, <1>3

\* The rules, read one tag at a time.
LEMMA SelectsRight ==
    ASSUME NEW I \in SUBSET Infos, IsFiniteSet(I), NEW r \in Policies,
           NEW dels \in Ret!SelectTagsForDeletion(r, I), NEW x \in I,
           NEW Newer, Newer = {y \in I \ {x} : y.age < x.age},
           NEW AsNew, AsNew = {y \in I \ {x} : y.age <= x.age},
           NEW Given, Given <=> ((r.days # 0 /\ x.age > r.days) \/ x.name \notin r.names)
    PROVE  /\ x \in dels => x.name # Stable /\ (Given \/ (r.count # 0 /\ Ret!Cardinality(AsNew) >= r.count))
           /\ x \notin dels => x.name = Stable \/ (~Given /\ (r.count = 0 \/ Ret!Cardinality(Newer) < r.count))
<1>0. r.count \in Nat /\ \A y \in I : y.age \in Nat
  BY RetFacts DEF Infos
<1>1. PICK kept \in Ret!Newest(I, r.count) :
          dels = {y \in {z \in I : r.days # 0 /\ z.age > r.days} \cup (I \ kept)
                        \cup {z \in I : z.name \notin r.names} : y.name # Stable}
  BY DEF Ret!SelectTagsForDeletion
<1>2. x \in dels <=> x.name # Stable /\ (Given \/ x \notin kept)
  BY <1>1
<1>3. \A S : Ret!Cardinality(S) = Cardinality(S)
  BY Zenon DEF Ret!Cardinality, Cardinality
<1>4. IsFiniteSet(AsNew) /\ IsFiniteSet(Newer)
  BY FS_Subset
<1>5. CASE r.count = 0
  <2>1. kept = I
    BY <1>1, <1>5 DEF Ret!Newest
  <2> QED
    BY <1>2, <1>5, <2>1
<1>6. CASE r.count # 0
  <2>1. /\ kept \subseteq I
        /\ Cardinality(kept) = Ret!Min({r.count, Cardinality(I)})
        /\ \A y \in kept, z \in I \ kept : y.age <= z.age
    BY <1>1, <1>3, <1>6 DEF Ret!Newest
  <2>2. IsFiniteSet(kept) /\ Cardinality(kept) \in Nat /\ Cardinality(I) \in Nat
    BY <2>1, FS_Subset, FS_CardinalityType
  <2>3. ASSUME x \notin kept PROVE Cardinality(AsNew) >= r.count
    <3>1. kept \subseteq AsNew
      BY <2>1, <2>3
    <3>2. Cardinality(kept) < Cardinality(I)
      <4>1. kept # I
        BY <2>3
      <4> QED
        BY <2>1, <2>2, <4>1, FS_Subset
    <3>3. Cardinality(kept) = r.count
      BY <1>0, <2>1, <2>2, <3>2, LesserOf
    <3>4. Cardinality(kept) <= Cardinality(AsNew) /\ Cardinality(AsNew) \in Nat
      BY <1>4, <3>1, FS_Subset, FS_CardinalityType
    <3> QED
      BY <1>0, <3>3, <3>4
  <2>4. ASSUME x \in kept PROVE Cardinality(Newer) < r.count
    <3>1. Newer \subseteq kept /\ Newer # kept
      <4>1. ASSUME NEW y \in Newer PROVE y \in kept
        <5>1. y \in I /\ y.age < x.age /\ y.age \in Nat /\ x.age \in Nat
          BY <1>0, <4>1
        <5> QED
          BY <2>1, <2>4, <5>1
      <4> QED
        BY <2>4, <4>1
    <3>2. Cardinality(Newer) < Cardinality(kept) /\ Cardinality(Newer) \in Nat
      BY <1>4, <2>2, <3>1, FS_Subset, FS_CardinalityType
    <3>3. Cardinality(kept) <= r.count
      BY <1>0, <2>1, <2>2, LesserOf
    <3> QED
      BY <1>0, <2>2, <3>2, <3>3
  <2> QED
    BY <1>2, <1>3, <1>6, <2>3, <2>4
<1> QED
  BY <1>5, <1>6

LEMMA RetSelects == ASSUME RetInv PROVE Ret!TypeOK /\ Ret!SelectionRight
<1>1. ASSUME NEW p \in Keepers
      PROVE  /\ keeper[p].pc \in {"idle", "due", "list", "details", "delete"}
             /\ keeper[p].rule \in Policies \cup {None}
             /\ keeper[p].names \subseteq Names
             /\ keeper[p].infos \subseteq Infos
             /\ keeper[p].dels \subseteq keeper[p].infos
  BY DEF RetInv, RetTypes, KeeperRight, Keeping
<1>2. Ret!TypeOK
  BY <1>1 DEF RetInv, RetTypes, Ret!TypeOK, Infos
<1>3. ASSUME NEW p \in Keepers, keeper[p].pc = "details",
             NEW dels \in Ret!SelectTagsForDeletion(keeper[p].rule, keeper[p].infos),
             NEW x \in keeper[p].infos
      PROVE  LET rule  == keeper[p].rule
                 Newer == {y \in keeper[p].infos \ {x} : y.age < x.age}
                 AsNew == {y \in keeper[p].infos \ {x} : y.age <= x.age}
                 Given == (rule.days # 0 /\ x.age > rule.days) \/ x.name \notin rule.names
             IN  /\ x \in dels => x.name # Stable /\ (Given \/ (rule.count # 0 /\ Ret!Cardinality(AsNew) >= rule.count))
                 /\ x \notin dels => x.name = Stable \/ (~Given /\ (rule.count = 0 \/ Ret!Cardinality(Newer) < rule.count))
  <2>1. PICK I \in SUBSET Infos, r \in Policies : I = keeper[p].infos /\ r = keeper[p].rule
    BY <1>1, <1>3 DEF RetInv, KeeperRight
  <2>2. IsFiniteSet(I)
    BY <2>1 DEF RetInv, KeeperRight
  <2>3. PICK Newer : Newer = {y \in I \ {x} : y.age < x.age}
    OBVIOUS
  <2>4. PICK AsNew : AsNew = {y \in I \ {x} : y.age <= x.age}
    OBVIOUS
  <2>5. PICK Given : Given <=> ((r.days # 0 /\ x.age > r.days) \/ x.name \notin r.names)
    OBVIOUS
  <2>6. /\ x \in dels => x.name # Stable /\ (Given \/ (r.count # 0 /\ Ret!Cardinality(AsNew) >= r.count))
        /\ x \notin dels => x.name = Stable \/ (~Given /\ (r.count = 0 \/ Ret!Cardinality(Newer) < r.count))
    BY <1>3, <2>1, <2>2, <2>3, <2>4, <2>5, SelectsRight
  <2> QED
    BY <2>1, <2>3, <2>4, <2>5, <2>6
<1>4. Ret!SelectionRight
  BY <1>3 DEF Ret!SelectionRight
<1> QED
  BY <1>2, <1>4

\* Whatever is pushed and deleted while a policy reads its tags, and however ties in age are
\* sorted, the rules give up a tag that is too old, of another name or behind KeepCount
\* others, and no other, and never latest (RetentionService.selectTagsForDeletion).
THEOREM SelectionAlwaysRight == MCSpec => []SelectionRight
<1>1. MCInit => RetInv
  BY RetInit DEF MCInit
<1>2. RetInv /\ [SyncNext \/ RetNext \/ IsoNext]_<<focus, sync, retention, iso>> => RetInv'
  <2>1. [SyncNext \/ RetNext \/ IsoNext]_<<focus, sync, retention, iso>> => [Ret!Next]_retention
    BY DEF SyncNext, RetNext, IsoNext
  <2> QED
    BY <2>1, RetStep
<1>3. RetInv => SelectionRight
  BY RetSelects DEF SelectionRight
<1> QED
  BY <1>1, <1>2, <1>3, PTL DEF MCSpec
=============================================================================
