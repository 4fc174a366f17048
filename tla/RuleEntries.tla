---------------------------- MODULE RuleEntries -----------------------------
(***************************************************************************)
(* The RuleWorker (service/rule_worker.go), which keeps the entries of     *)
(* rule folders: one goroutine takes FilePublished events and matches the  *)
(* file against every folder, another takes RuleFolderCreated events and   *)
(* matches the folder against every file, and neither waits for the other. *)
(* The event bus drops what does not fit a subscriber's buffer; a crash    *)
(* loses the buffers; Backfill may be called again for a folder.           *)
(*                                                                         *)
(* A rule maps some fields to values.  A file has no status 'deleted'      *)
(* here: the CHECK of the schema refuses it, so SoftDelete fails and no    *)
(* FileRemoved event is ever sent; FileMetadataChanged has no publisher.   *)
(***************************************************************************)
EXTENDS Naturals, Sequences, Functions, FiniteSets

CONSTANTS
    None, Bad,          \* no rule_config, and one that is not JSON
    Files, Folders,     \* rows to come
    Fields,             \* the fields that a rule can constrain
    Metas,              \* metadata of files: a value for each field
    Rules,              \* rules: values for some fields, and perhaps for other keys
    Buffer,             \* bufferSize of the bus
    MaxCrash            \* bound: crashes

\* a rule_folder node
Node == [rule : Rules \cup {None, Bad}, visible : BOOLEAN]

\* what the constants are
Constants ==
    /\ Files \cap Folders = {}
    /\ None \notin Files \cup Folders \cup Metas \cup Node
    /\ \A meta \in Metas : DOMAIN meta = Fields
    /\ Buffer \in Nat \ {0}
    /\ MaxCrash \in Nat

VARIABLES
    files,      \* rows of files: their metadata
    nodes,      \* rule_folder nodes: rule_config and whether the node is visible
    entries,    \* virtual_rule_entries
    checkpoint, \* rule_backfill_checkpoints
    toPublish,  \* inserts whose event has not been published
    published,  \* buffer of the subscriber to FilePublished
    created,    \* buffer of the subscriber to RuleFolderCreated
    matcher,    \* the goroutine in handleFilePublished
    backfill,   \* the goroutine in Backfill
    missed,     \* history: pairs whose event was lost
    crashes

vars == <<files, nodes, entries, checkpoint, toPublish, published, created, matcher, backfill,
          missed, crashes>>

Resting == [pc |-> "idle", of |-> None, what |-> None, todo |-> {}]

Init ==
    /\ files = [f \in Files |-> None]
    /\ nodes = [n \in Folders |-> None]
    /\ entries = {}
    /\ checkpoint = [n \in Folders |-> None]
    /\ toPublish = {}
    /\ published = <<>>
    /\ created = <<>>
    /\ matcher = Resting
    /\ backfill = Resting
    /\ missed = {}
    /\ crashes = 0

-----------------------------------------------------------------------------
(* The writers and the bus. *)

\* RegisterFile's insert
RegisterFile(f, meta) ==
    /\ files[f] = None
    /\ files' = [files EXCEPT ![f] = meta]
    /\ toPublish' = toPublish \cup {f}
    /\ UNCHANGED <<nodes, entries, checkpoint, published, created, matcher, backfill, missed, crashes>>

\* VirtualIndexService.CreateNode's insert
CreateNode(n, rule) ==
    /\ nodes[n] = None
    /\ nodes' = [nodes EXCEPT ![n] = [rule |-> rule, visible |-> TRUE]]
    /\ toPublish' = toPublish \cup {n}
    /\ UNCHANGED <<files, entries, checkpoint, published, created, matcher, backfill, missed, crashes>>

\* SoftDeleteNode; nothing makes a node visible again
SoftDeleteNode(n) ==
    /\ nodes[n] # None
    /\ nodes[n].visible
    /\ nodes' = [nodes EXCEPT ![n].visible = FALSE]
    /\ UNCHANGED <<files, entries, checkpoint, toPublish, published, created, matcher, backfill, missed, crashes>>

\* what a lost event leaves undone: a file for the folders there are, a folder for the files
Undone(lost) ==
    {m \in Folders \X Files : /\ nodes[m[1]] # None
                              /\ files[m[2]] # None
                              /\ m[1] \in lost \/ m[2] \in lost}

\* Bus.Publish: into the buffer, or dropped if that is full
PublishFile(f) ==
    /\ f \in toPublish \cap Files
    /\ toPublish' = toPublish \ {f}
    /\ IF Len(published) < Buffer
         THEN published' = Append(published, f) /\ UNCHANGED missed
         ELSE missed' = missed \cup Undone({f}) /\ UNCHANGED published
    /\ UNCHANGED <<files, nodes, entries, checkpoint, created, matcher, backfill, crashes>>

\* emitRuleFolderCreated
PublishFolder(n) ==
    /\ n \in toPublish \cap Folders
    /\ toPublish' = toPublish \ {n}
    /\ IF Len(created) < Buffer
         THEN created' = Append(created, n) /\ UNCHANGED missed
         ELSE missed' = missed \cup Undone({n}) /\ UNCHANGED created
    /\ UNCHANGED <<files, nodes, entries, checkpoint, published, matcher, backfill, crashes>>

-----------------------------------------------------------------------------
(* Matching. *)

\* ruleMatch.matches: keys that are no field are ignored
Matches(rule, meta) == \A k \in DOMAIN rule \cap Fields : rule[k] = meta[k]

\* parseRuleConfig succeeds
Parsed(rule) == rule \notin {None, Bad}

\* listActiveFiles
ListActiveFiles == {f \in Files : files[f] # None}

\* listRuleFolders
ListRuleFolders == {n \in Folders : nodes[n] # None /\ nodes[n].visible}

-----------------------------------------------------------------------------
(* The subscriber to FilePublished. *)

\* startSubscriber's receive, and getFileMeta
HandleFilePublished ==
    /\ matcher.pc = "idle"
    /\ published # <<>>
    /\ published' = Tail(published)
    /\ matcher' = [Resting EXCEPT !.pc = "list", !.of = Head(published), !.what = files[Head(published)]]
    /\ UNCHANGED <<files, nodes, entries, checkpoint, toPublish, created, backfill, missed, crashes>>

\* the folders whose rule the file meets
MatchFolders ==
    /\ matcher.pc = "list"
    /\ matcher' = [matcher EXCEPT !.pc = "insert",
                      !.todo = {n \in ListRuleFolders : Parsed(nodes[n].rule) /\ Matches(nodes[n].rule, matcher.what)}]
    /\ UNCHANGED <<files, nodes, entries, checkpoint, toPublish, published, created, backfill, missed, crashes>>

\* insertEntry for one of them
InsertForFile(n) ==
    /\ matcher.pc = "insert"
    /\ n \in matcher.todo
    /\ entries' = entries \cup {<<n, matcher.of>>}
    /\ matcher' = [matcher EXCEPT !.todo = @ \ {n}]
    /\ UNCHANGED <<files, nodes, checkpoint, toPublish, published, created, backfill, missed, crashes>>

FileHandled ==
    /\ matcher.pc = "insert"
    /\ matcher.todo = {}
    /\ matcher' = Resting
    /\ UNCHANGED <<files, nodes, entries, checkpoint, toPublish, published, created, backfill, missed, crashes>>

-----------------------------------------------------------------------------
(* The subscriber to RuleFolderCreated. *)

\* Backfill's look at the node: nothing to do without a rule, or with a bad one
StartBackfill(n) ==
    IF Parsed(nodes[n].rule)
      THEN [Resting EXCEPT !.pc = "list", !.of = n, !.what = nodes[n].rule]
      ELSE Resting

\* handleRuleFolderCreated; the checkpoint is written first
HandleRuleFolderCreated ==
    LET n == Head(created) IN
    /\ backfill.pc = "idle"
    /\ created # <<>>
    /\ created' = Tail(created)
    /\ backfill' = StartBackfill(n)
    /\ checkpoint' = IF Parsed(nodes[n].rule) THEN [checkpoint EXCEPT ![n] = "indexing"] ELSE checkpoint
    /\ UNCHANGED <<files, nodes, entries, toPublish, published, matcher, missed, crashes>>

\* Backfill of a folder again, after an interruption
Backfill(n) ==
    /\ backfill.pc = "idle"
    /\ nodes[n] # None
    /\ Parsed(nodes[n].rule)
    /\ backfill' = StartBackfill(n)
    /\ checkpoint' = [checkpoint EXCEPT ![n] = "indexing"]
    /\ UNCHANGED <<files, nodes, entries, toPublish, published, created, matcher, missed, crashes>>

\* the files that meet the rule
MatchFiles ==
    /\ backfill.pc = "list"
    /\ backfill' = [backfill EXCEPT !.pc = "insert",
                       !.todo = {f \in ListActiveFiles : Matches(backfill.what, files[f])}]
    /\ missed' = {m \in missed : m[1] # backfill.of}
    /\ UNCHANGED <<files, nodes, entries, checkpoint, toPublish, published, created, matcher, crashes>>

\* insertEntry for one of them
InsertForFolder(f) ==
    /\ backfill.pc = "insert"
    /\ f \in backfill.todo
    /\ entries' = entries \cup {<<backfill.of, f>>}
    /\ backfill' = [backfill EXCEPT !.todo = @ \ {f}]
    /\ UNCHANGED <<files, nodes, checkpoint, toPublish, published, created, matcher, missed, crashes>>

\* Faulty variant: the marker is written before the entries.
Filled_Early == backfill.pc = "insert"

\* every entry has been written
Filled == backfill.pc = "insert" /\ backfill.todo = {}

FolderReady ==
    /\ Filled
    /\ checkpoint' = [checkpoint EXCEPT ![backfill.of] = "ready"]
    /\ backfill' = Resting
    /\ UNCHANGED <<files, nodes, entries, toPublish, published, created, matcher, missed, crashes>>

-----------------------------------------------------------------------------
\* the process stops and starts again: buffers and handlers are gone, tables stay
Crash ==
    /\ crashes < MaxCrash
    /\ crashes' = crashes + 1
    /\ missed' = missed \cup Undone(toPublish \cup Range(published) \cup Range(created)
                                    \cup {matcher.of, backfill.of})
    /\ toPublish' = {}
    /\ published' = <<>>
    /\ created' = <<>>
    /\ matcher' = Resting
    /\ backfill' = Resting
    /\ UNCHANGED <<files, nodes, entries, checkpoint>>

Next ==
    \/ \E f \in Files, meta \in Metas : RegisterFile(f, meta)
    \/ \E n \in Folders, rule \in Rules \cup {None, Bad} : CreateNode(n, rule)
    \/ \E n \in Folders : SoftDeleteNode(n) \/ PublishFolder(n) \/ InsertForFile(n) \/ Backfill(n)
    \/ \E f \in Files : PublishFile(f) \/ InsertForFolder(f)
    \/ HandleFilePublished \/ MatchFolders \/ FileHandled
    \/ HandleRuleFolderCreated \/ MatchFiles \/ FolderReady
    \/ Crash

Spec == Init /\ [][Next]_vars

-----------------------------------------------------------------------------
TypeOK ==
    /\ entries \subseteq Folders \X Files
    /\ checkpoint \in [Folders -> {None, "indexing", "ready"}]
    /\ matcher.pc \in {"idle", "list", "insert"}
    /\ backfill.pc \in {"idle", "list", "insert"}
    /\ Len(published) <= Buffer /\ Len(created) <= Buffer

\* an event of x is on its way or being handled
Pending(x) ==
    \/ x \in toPublish \cup Range(published) \cup Range(created)
    \/ x \in {matcher.of, backfill.of}

\* the folder should show the file
Due(n, f) ==
    /\ nodes[n] # None
    /\ nodes[n].visible
    /\ files[f] # None
    /\ Parsed(nodes[n].rule)
    /\ \A k \in Fields : k \in DOMAIN nodes[n].rule => nodes[n].rule[k] = files[f][k]

\* A visible folder has an entry for every file that meets its rule, once no event of
\* either is outstanding, whatever the order in which files, folders and the two goroutines
\* came: only what a full buffer or a crash lost is missing, until a Backfill of the folder
\* has run again.
EntriesComplete ==
    \A n \in Folders, f \in Files :
        Due(n, f) /\ ~Pending(n) /\ ~Pending(f) /\ <<n, f>> \notin missed => <<n, f>> \in entries
=============================================================================
