---------------------------- MODULE RegistrySync ----------------------------
(***************************************************************************)
(* Copying images between container registries: the rows of registries and *)
(* sync_tasks, the requests that write them, and SyncService.ExecuteSync   *)
(* over the client of module RegistryClient.                               *)
(*                                                                         *)
(* A stored password is the number of times it has been encrypted: 1 is    *)
(* the stored form of what the operator typed, 0 stands for no row.        *)
(***************************************************************************)
EXTENDS Naturals, FiniteSets, Functions, Sequences, RegistryClient

CONSTANTS
    Source, Target,     \* the registries of a sync
    Tags, Latest,       \* tag names, and the one called "latest"
    LayersOf, ConfigOf, \* the blobs of a manifest
    Stored,             \* what the registries hold at first
    Tasks,              \* bound: ids of sync tasks
    Admins,             \* requests under way at a time
    MaxSeals,           \* bound: encryptions of one stored password
    Offline             \* whether requests to a registry may fail

ASSUME RegistryAssumption ==
    /\ Registries = {Source, Target}
    /\ Source # Target
    /\ Latest \in Tags
    /\ Stored \in [Registries -> [Tags -> Images \cup {None}]]
    /\ Tasks \subseteq Nat
    /\ MaxSeals \in Nat \ {0}
    /\ Offline \in BOOLEAN

\* the layers of a manifest are a list
ASSUME LayersAssumption == \A i \in Images : LayersOf[i] \in Seq(Range(LayersOf[i]))

VARIABLES
    seals,      \* registries.encrypted_password, 0 without a row
    tags,       \* what a registry's tags name
    blobs,      \* blobs of the target registry
    status,     \* sync_tasks.status, "none" without a row
    copies,     \* a task's source_tag and target_tag
    run,        \* the ExecuteSync call of a task, and its locals
    req,        \* an admin request and its locals
    torn        \* history: manifests pushed after reads that disagreed or a check that failed

rows  == <<seals, status, copies>>
vars  == <<seals, tags, blobs, status, copies, run, req, torn>>

\* SyncTaskStatus values that GetActiveByTarget looks for
Active  == {"pending", "running"}

NoRun    == [pc |-> "idle", raw |-> None, man |-> None, i |-> 0, src |-> FALSE, dst |-> FALSE, skipped |-> FALSE]
NoReq    == [pc |-> "idle", task |-> 0, from |-> Latest, to |-> Latest, reg |-> Target, seal |-> 0]

\* the blobs a single manifest needs
Needs(i) == Range(LayersOf[i]) \cup {ConfigOf[i]}

-----------------------------------------------------------------------------
\* PushBlob: an upload is begun, and the blob put where the registry says
PushBlob(b) == blobs' = blobs \cup {b}

Init ==
    /\ seals = [r \in Registries |-> 1]
    /\ tags = Stored
    /\ blobs = UNION {Needs(i) : i \in {Resolve(Stored[Target][t]) : t \in Tags} \ {None}}
    /\ status = [t \in Tasks |-> "none"]
    /\ copies = [t \in Tasks |-> [from |-> Latest, to |-> Latest]]
    /\ run = [t \in Tasks |-> NoRun]
    /\ req = [a \in Admins |-> NoReq]
    /\ torn = {}

contents   == <<tags, blobs, torn>>

-----------------------------------------------------------------------------
(* Requests for registries. *)

\* GetByID finds the row
HasRow(r) == seals[r] # 0

\* encryptPassword of what the row or the request holds
Seal(n) == n + 1

\* DecryptPassword gives what the operator typed only if it was encrypted once
DecryptPassword(r) == seals[r] = 1

\* RegistryRepo.Create encrypts the password
CreateRow(r) == seals' = [seals EXCEPT ![r] = Seal(0)]

\* POST registries
CreateRegistry(r) ==
    /\ ~HasRow(r)
    /\ CreateRow(r)
    /\ UNCHANGED <<status, copies, contents, run, req>>

\* RegistryService.UpdateRegistry loads the row; a password in the request
\* replaces the stored one
EditedRow(r, typed) ==
    [NoReq EXCEPT !.pc = "update", !.reg = r, !.seal = IF typed THEN 0 ELSE seals[r]]

\* PUT registries/{id}
UpdateRegistry(a, r, typed) ==
    /\ req[a].pc = "idle"
    /\ HasRow(r)
    /\ req' = [req EXCEPT ![a] = EditedRow(r, typed)]
    /\ UNCHANGED <<rows, contents, run>>

\* RegistryRepo.Update encrypts what it is given unless that is empty, and the
\* stored password never is; no row, no update
UpdateRow(a) ==
    /\ req[a].pc = "update"
    /\ Seal(req[a].seal) <= MaxSeals
    /\ seals' = [seals EXCEPT ![req[a].reg] = IF @ = 0 THEN 0 ELSE Seal(req[a].seal)]
    /\ req' = [req EXCEPT ![a] = NoReq]
    /\ UNCHANGED <<status, copies, contents, run>>

\* RegistryRepo.Delete: sync_tasks refer to the row and hold it
DeleteRow(r) ==
    /\ \A t \in Tasks : status[t] = "none"
    /\ seals' = [seals EXCEPT ![r] = 0]

\* DELETE registries/{id}
DeleteRegistry(r) ==
    /\ HasRow(r)
    /\ DeleteRow(r)
    /\ UNCHANGED <<status, copies, contents, run, req>>

-----------------------------------------------------------------------------
(* Requests for sync tasks. *)

\* GetActiveByTarget
ActiveByTarget(tag) == {t \in Tasks : status[t] \in Active /\ copies[t].to = tag}

\* Faulty variant: only the registries are checked.
Creatable_NoDuplicateCheck(to) == \A r \in Registries : HasRow(r)

\* SyncService.CreateSync checks both registries, then for an active duplicate
Creatable(to) ==
    /\ \A r \in Registries : HasRow(r)
    /\ ActiveByTarget(to) = {}

\* POST sync
CreateSync(a, from, to) ==
    /\ req[a].pc = "idle"
    /\ Creatable(to)
    /\ req' = [req EXCEPT ![a] = [NoReq EXCEPT !.pc = "insert", !.from = from, !.to = to]]
    /\ UNCHANGED <<rows, contents, run>>

\* SyncTaskRepo.Create: ids grow, and the row is pending
CreateTask(from, to) ==
    \E t \in Tasks :
        /\ status[t] = "none"
        /\ \A u \in Tasks : u < t => status[u] # "none"
        /\ status' = [status EXCEPT ![t] = "pending"]
        /\ copies' = [copies EXCEPT ![t] = [from |-> from, to |-> to]]

\* the insert, which refers to both registries or fails
InsertTask(a) ==
    /\ req[a].pc = "insert"
    /\ req' = [req EXCEPT ![a] = NoReq]
    /\ \/ /\ \A r \in Registries : HasRow(r)
          /\ CreateTask(req[a].from, req[a].to)
       \/ /\ \/ \E r \in Registries : ~HasRow(r)
             \/ \A t \in Tasks : status[t] # "none"
          /\ UNCHANGED <<status, copies>>
    /\ UNCHANGED <<seals, contents, run>>

\* Fail reads the status first: what is over is refused
Failable(t) == status[t] \in Active

\* POST sync/{id}/cancel
CancelSync(a, t) ==
    /\ req[a].pc = "idle"
    /\ Failable(t)
    /\ req' = [req EXCEPT ![a] = [NoReq EXCEPT !.pc = "cancel", !.task = t]]
    /\ UNCHANGED <<rows, contents, run>>

\* the UPDATE of Fail, which names only the id
Fail(t) == status' = [status EXCEPT ![t] = "failed"]

CancelWrites(a) ==
    /\ req[a].pc = "cancel"
    /\ Fail(req[a].task)
    /\ req' = [req EXCEPT ![a] = NoReq]
    /\ UNCHANGED <<seals, copies, contents, run>>

\* the client goes before its handler's next statement
RequestLost(a) ==
    /\ req[a].pc # "idle"
    /\ req' = [req EXCEPT ![a] = NoReq]
    /\ UNCHANGED <<rows, contents, run>>

-----------------------------------------------------------------------------
(* ExecuteSync. *)

Goto(t, pc) == run' = [run EXCEPT ![t].pc = pc]

\* a registry may fail to answer any request
MayFail == Offline

\* failTask: Fail reads the status first
Fails(t) == Goto(t, "failing") /\ UNCHANGED <<rows, contents, req>>

\* Faulty variant: the UPDATE names only the id.
TransitionStatus_Any(t, from, to) == status' = [status EXCEPT ![t] = to]

\* transitionStatus updates the row only from the expected status
TransitionStatus(t, from, to) ==
    status' = [status EXCEPT ![t] = IF @ = from THEN to ELSE @]

\* GetByID and Start; a task that is not pending is not run
ExecuteSync(t) ==
    /\ run[t].pc = "idle"
    /\ status[t] = "pending"
    /\ TransitionStatus(t, "pending", "running")
    /\ Goto(t, "clients")
    /\ UNCHANGED <<seals, copies, contents, req>>

\* createClient: the row and its decrypted password, right or wrong
CreateClient(r) == IF HasRow(r) THEN {DecryptPassword(r)} ELSE {}

\* the clients of source and target
CreateClients(t) ==
    /\ run[t].pc = "clients"
    /\ IF \E r \in Registries : CreateClient(r) = {}
       THEN Fails(t)
       ELSE \E src \in CreateClient(Source), dst \in CreateClient(Target) :
              /\ run' = [run EXCEPT ![t].pc = "raw", ![t].src = src, ![t].dst = dst]
              /\ UNCHANGED <<rows, contents, req>>

\* RawManifest of the source's tag
RawManifest(t) ==
    /\ run[t].pc = "raw"
    /\ \/ LET i == FetchManifest(tags[Source], copies[t].from)
          IN IF ~Reaches(Source, run[t].src) \/ i = None
             THEN Fails(t)
             ELSE /\ run' = [run EXCEPT ![t].pc = "compare", ![t].raw = i]
                  /\ UNCHANGED <<rows, contents, req>>
       \/ MayFail /\ Fails(t)

\* the same body under the target's tag: nothing to do; an error there is ignored
CompareTarget(t) ==
    /\ run[t].pc = "compare"
    /\ \/ Goto(t, IF /\ Reaches(Target, run[t].dst)
                     /\ FetchManifest(tags[Target], copies[t].to) = run[t].raw
                  THEN "complete" ELSE "manifest")
       \/ MayFail /\ Goto(t, "manifest")
    /\ UNCHANGED <<rows, contents, req>>

\* Manifest: the source's tag again, for the list of layers
ReadLayers(t) ==
    /\ run[t].pc = "manifest"
    /\ \/ LET i == FetchManifest(tags[Source], copies[t].from)
          IN IF i = None THEN Fails(t)
             ELSE /\ run' = [run EXCEPT ![t].pc = "layers", ![t].man = i, ![t].i = 1]
                  /\ UNCHANGED <<rows, contents, req>>
       \/ MayFail /\ Fails(t)

\* Faulty variant: 404 is taken for an answer that the blob is there.
BlobExists_NotFound(b) == TRUE

\* BlobExists: 200 or 404
BlobExists(b) == b \in blobs

\* transferBlob, through a temporary file: PullBlob, PushBlob
TransferBlob(t, b) ==
    /\ Reaches(Source, run[t].src)
    /\ AttachAuth(Target, run[t].dst)
    /\ PushBlob(b)

\* one layer: the check, and the copy if the target lacks it
TransferLayer(t) ==
    /\ run[t].pc = "layers"
    /\ run[t].i <= Len(LayersOf[run[t].man])
    /\ LET b == LayersOf[run[t].man][run[t].i]
       IN \/ /\ Reaches(Target, run[t].dst)
             /\ IF BlobExists(b) THEN UNCHANGED blobs ELSE TransferBlob(t, b)
             /\ run' = [run EXCEPT ![t].i = @ + 1]
             /\ UNCHANGED <<rows, tags, torn, req>>
          \/ /\ \/ MayFail
                \/ ~Reaches(Target, run[t].dst)
                \/ ~BlobExists(b) /\ ~AttachAuth(Target, run[t].dst)
             /\ Fails(t)

LayersDone(t) ==
    /\ run[t].pc = "layers"
    /\ run[t].i > Len(LayersOf[run[t].man])
    /\ Goto(t, "config")
    /\ UNCHANGED <<rows, contents, req>>

\* the config blob: a check that fails is logged, and the push goes on without it
TransferConfig(t) ==
    /\ run[t].pc = "config"
    /\ LET b == ConfigOf[run[t].man]
       IN \/ /\ Reaches(Target, run[t].dst)
             /\ IF BlobExists(b) THEN UNCHANGED blobs ELSE TransferBlob(t, b)
             /\ Goto(t, "push")
             /\ UNCHANGED <<rows, tags, torn, req>>
          \/ /\ MayFail \/ ~Reaches(Target, run[t].dst)
             /\ run' = [run EXCEPT ![t].pc = "push", ![t].skipped = TRUE]
             /\ UNCHANGED <<rows, contents, req>>
          \/ /\ MayFail \/ (~BlobExists(b) /\ ~AttachAuth(Target, run[t].dst))
             /\ Fails(t)

\* PushManifest: what was read first, to the target's tag.  Registries accept a
\* manifest whose blobs they lack, or refuse it (a failure).
PushManifest(t) ==
    /\ run[t].pc = "push"
    /\ LET body == DoRequest(Target, run[t].dst, run[t].raw)
       IN \/ /\ body \in Images
             /\ tags' = [tags EXCEPT ![Target][copies[t].to] = body]
             /\ torn' = IF run[t].raw # run[t].man \/ run[t].skipped
                        THEN torn \cup {body} ELSE torn
             /\ Goto(t, "complete")
             /\ UNCHANGED <<rows, blobs, req>>
          \/ /\ body \notin Images
             /\ Goto(t, "failing")
             /\ UNCHANGED <<rows, tags, blobs, torn, req>>
          \/ MayFail /\ Fails(t)

\* Complete, which a task cancelled meanwhile refuses
CompleteSync(t) ==
    /\ run[t].pc = "complete"
    /\ TransitionStatus(t, "running", "completed")
    /\ run' = [run EXCEPT ![t] = NoRun]
    /\ UNCHANGED <<seals, copies, contents, req>>

\* Fail in ExecuteSync: the read
FailSync(t) ==
    /\ run[t].pc = "failing"
    /\ run' = [run EXCEPT ![t] = IF Failable(t) THEN [NoRun EXCEPT !.pc = "failed"] ELSE NoRun]
    /\ UNCHANGED <<rows, contents, req>>

\* and the write
FailWrites(t) ==
    /\ run[t].pc = "failed"
    /\ Fail(t)
    /\ run' = [run EXCEPT ![t] = NoRun]
    /\ UNCHANGED <<seals, copies, contents, req>>

-----------------------------------------------------------------------------
\* somebody else pushes to the source
SourceMoves(tag, i) ==
    /\ tags' = [tags EXCEPT ![Source][tag] = i]
    /\ UNCHANGED <<rows, blobs, torn, run, req>>

\* a tag of the target is deleted, by a request or a retention policy
TargetLoses(tag) ==
    /\ tags[Target][tag] # None
    /\ tags' = [tags EXCEPT ![Target] = Untagged(@, @[tag])]
    /\ UNCHANGED <<rows, blobs, torn, run, req>>

\* the process ends; rows stay, and nothing resets a running task
CrashRestart ==
    /\ run' = [t \in Tasks |-> NoRun]
    /\ req' = [a \in Admins |-> NoReq]
    /\ UNCHANGED <<rows, contents>>

RegistryRequest ==
    \/ \E r \in Registries : CreateRegistry(r) \/ DeleteRegistry(r)
    \/ \E a \in Admins, r \in Registries, typed \in BOOLEAN : UpdateRegistry(a, r, typed)
    \/ \E a \in Admins : UpdateRow(a) \/ RequestLost(a)

SyncRequest ==
    \/ \E a \in Admins, from, to \in Tags : CreateSync(a, from, to)
    \/ \E a \in Admins : InsertTask(a) \/ CancelWrites(a)
    \/ \E a \in Admins, t \in Tasks : CancelSync(a, t)

Sync(t) ==
    \/ ExecuteSync(t) \/ CreateClients(t) \/ RawManifest(t) \/ CompareTarget(t)
    \/ ReadLayers(t) \/ TransferLayer(t) \/ LayersDone(t) \/ TransferConfig(t)
    \/ PushManifest(t) \/ CompleteSync(t) \/ FailSync(t) \/ FailWrites(t)

Next ==
    \/ RegistryRequest
    \/ SyncRequest
    \/ \E t \in Tasks : Sync(t)
    \/ \E tag \in Tags, i \in Images : SourceMoves(tag, i)
    \/ \E tag \in Tags : TargetLoses(tag)
    \/ CrashRestart

Spec == Init /\ [][Next]_vars

-----------------------------------------------------------------------------
(* Properties. *)

RunPcs == {"idle", "clients", "raw", "compare", "manifest", "layers", "config", "push",
           "complete", "failing", "failed"}

\* Every variable has its type; a call past a read has what the read returned.
TypeOK ==
    /\ seals \in [Registries -> 0..MaxSeals]
    /\ tags \in [Registries -> [Tags -> Images \cup {None}]]
    /\ blobs \subseteq UNION {Needs(i) : i \in Images}
    /\ status \in [Tasks -> {"none", "pending", "running", "completed", "failed"}]
    /\ copies \in [Tasks -> [from : Tags, to : Tags]]
    /\ run \in [Tasks -> [pc : RunPcs, raw : Images \cup {None}, man : Images \cup {None}, i : Nat,
                          src : BOOLEAN, dst : BOOLEAN, skipped : BOOLEAN]]
    /\ \A t \in Tasks : run[t].pc \in {"layers", "config", "push"} =>
           /\ run[t].raw \in Images
           /\ run[t].man \in Images
    /\ req \in [Admins -> [pc : {"idle", "update", "insert", "cancel"}, task : Tasks \cup {0},
                           from : Tags, to : Tags, reg : Registries, seal : Nat]]
    /\ torn \subseteq Images

\* A manifest that a tag of the target names has all its blobs there: ExecuteSync
\* pushes it last.  Exempt are manifests pushed after the source's tag moved
\* between the two reads, or after the check of the config blob failed.
TargetWhole ==
    \A tag \in Tags :
        LET i == FetchManifest(tags[Target], tag)
        IN  i \notin torn \cup {None} => Needs(i) \subseteq blobs

\* A sync leaves the target's tags whole.
CopiesWhole == TypeOK /\ TargetWhole

\* CreateSync's check for an active duplicate: as long as one request at a time
\* creates tasks, no two active tasks have the same target, whatever cancels,
\* restarts and late failures do to them.
OneActivePerTarget ==
    \A t, u \in Tasks : t # u /\ {status[t], status[u]} \subseteq Active => copies[t].to # copies[u].to

\* The status column keeps the promise of TaskLife: a task runs once, completes
\* only while it runs, and a failed (or cancelled) task never reports anything else.
Life == INSTANCE TaskLife WITH Tasks <- Tasks, status <- status
Lifecycle == Life!Spec
=============================================================================
