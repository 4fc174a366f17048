---------------------------- MODULE TagRetention ----------------------------
(***************************************************************************)
(* Expiring the tags of a registry's repository: the row of                *)
(* retention_policies, RetentionScheduler, RetentionService.ExecutePolicy  *)
(* and the requests that delete a tag, while others push.  A tag's digest  *)
(* is read long before it is deleted, and a DELETE names the digest.       *)
(***************************************************************************)
EXTENDS Naturals, FiniteSets, FiniteSetsExt, RegistryClient

CONSTANTS
    Hub,                \* the registry
    Tags, Latest,       \* tag names, and the one called "latest"
    Age,                \* days since a single manifest's image was built
    Ancient,            \* the age that the zero time stands for: older than any cutoff
    Keepers,            \* bound: ExecutePolicy calls at a time
    Policies,           \* the policies an operator may ask for
    Offline             \* whether a request to the registry may fail

\* what the constants are
Constants ==
    /\ Hub \in Registries
    /\ Latest \in Tags
    /\ Policies \subseteq [days : Nat, count : Nat, names : SUBSET Tags, enabled : BOOLEAN]
    /\ Age \in [Images -> Nat]
    /\ Ancient \in Nat
    /\ \A i \in Images : Age[i] < Ancient
    /\ \A p \in Policies : p.days < Ancient
    /\ Offline \in BOOLEAN

VARIABLES
    tags,       \* the manifest a tag names, or None
    present,    \* the registry has a row
    policy,     \* the row of retention_policies, None without one
    keeper,     \* an ExecutePolicy call and its locals
    untag       \* the digest a DeleteTag request is about to delete, or None

vars == <<tags, present, policy, keeper, untag>>

NoKeeper == [pc |-> "idle", rule |-> None, names |-> {}, infos |-> {}, dels |-> {}]

Init ==
    /\ tags \in [Tags -> Images \cup {None}]
    /\ present = TRUE
    /\ policy = None
    /\ keeper = [k \in Keepers |-> NoKeeper]
    /\ untag = None

-----------------------------------------------------------------------------
(* Requests. *)

\* validatePolicyRequest: a rule at least, where 0 days, 0 tags and a pattern that
\* matches every name are no rules
Valid(p) == p.days # 0 \/ p.count # 0 \/ p.names # Tags

\* RetentionPolicyRepo.Create and Update: the row refers to the registry
StoreRow(p) ==
    /\ present
    /\ policy' = p

\* POST retention (one row of the table is modelled)
CreatePolicy(p) ==
    /\ policy = None
    /\ Valid(p)
    /\ StoreRow(p)
    /\ UNCHANGED <<tags, present, keeper, untag>>

\* PUT retention/{id}: an UPDATE, of nothing if the row is gone
UpdatePolicy(p) ==
    /\ policy # None
    /\ Valid(p)
    /\ StoreRow(p)
    /\ UNCHANGED <<tags, present, keeper, untag>>

\* DELETE retention/{id}
DeletePolicy ==
    /\ policy # None
    /\ policy' = None
    /\ UNCHANGED <<tags, present, keeper, untag>>

\* DELETE registries/{id}: the policy goes with the row; POST brings one back
ToggleRegistry ==
    /\ present' = ~present
    /\ policy' = None
    /\ UNCHANGED <<tags, keeper, untag>>

\* RegistryService.DeleteTag resolves the tag to a digest
TagDigest(tag) == IF FetchManifest(tags, tag) = None THEN None ELSE tags[tag]

\* DELETE registries/{id}/tags/{tag}
DeleteTag(tag) ==
    /\ untag = None
    /\ present
    /\ TagDigest(tag) # None
    /\ untag' = TagDigest(tag)
    /\ UNCHANGED <<tags, present, policy, keeper>>

\* DeleteManifest: the registry removes the digest's tags, or the request fails
DeleteManifest(d) == tags' = Untagged(tags, d) \/ (Offline /\ tags' = tags)

DeleteDigest ==
    /\ untag # None
    /\ untag' = None
    /\ DeleteManifest(untag)
    /\ UNCHANGED <<present, policy, keeper>>

\* a sync, or anybody, pushes a manifest to a tag
Push(tag, i) ==
    /\ tags' = [tags EXCEPT ![tag] = i]
    /\ UNCHANGED <<present, policy, keeper, untag>>

-----------------------------------------------------------------------------
(* Execution. *)

\* ListEnabled
ListEnabled == policy # None /\ policy.enabled

\* runAllPolicies, on the scheduler's tick
RunAllPolicies(k) ==
    /\ keeper[k].pc = "idle"
    /\ ListEnabled
    /\ keeper' = [keeper EXCEPT ![k].pc = "due"]
    /\ UNCHANGED <<tags, present, policy, untag>>

\* POST retention/{id}/execute
RequestExecution(k) ==
    /\ keeper[k].pc = "idle"
    /\ keeper' = [keeper EXCEPT ![k].pc = "due"]
    /\ UNCHANGED <<tags, present, policy, untag>>

\* RetentionService.ExecutePolicy reads the row (again) and builds its client;
\* what is gone ends the call
ExecutePolicy(k) ==
    /\ keeper[k].pc = "due"
    /\ keeper' = [keeper EXCEPT ![k] =
           IF policy = None \/ ~present THEN NoKeeper
           ELSE [NoKeeper EXCEPT !.pc = "list", !.rule = policy]]
    /\ UNCHANGED <<tags, present, policy, untag>>

\* TagsWithPagination: the names, page after page
TagsWithPagination == {t \in Tags : tags[t] # None}

\* Catalog and matchingRepos find the repository; executePolicyOnRepo lists its
\* tags, and an error ends the call
ListTags(k) ==
    /\ keeper[k].pc = "list"
    /\ \/ keeper' = [keeper EXCEPT ![k].pc = "details", ![k].names = TagsWithPagination]
       \/ /\ Offline
          /\ keeper' = [keeper EXCEPT ![k] = NoKeeper]
    /\ UNCHANGED <<tags, present, policy, untag>>

\* fetchImageConfig: the creation time, or the zero time if the blob cannot be read
CreatedAt(i) == {Age[i]} \cup (IF Offline THEN {Ancient} ELSE {})

\* TagDetail, as the set of what executePolicyOnRepo may remember of a tag:
\* digest and creation time; a tag that cannot be read is skipped
TagDetail(tag) ==
    LET i == FetchManifest(tags, tag)
    IN  (IF i = None THEN {}
         ELSE {{[name |-> tag, digest |-> tags[tag], age |-> age]} : age \in CreatedAt(i)})
        \cup (IF Offline \/ i = None THEN {{}} ELSE {})

ReadTag(k, tag) ==
    /\ keeper[k].pc = "details"
    /\ tag \in keeper[k].names
    /\ \E found \in TagDetail(tag) :
          keeper' = [keeper EXCEPT ![k].names = @ \ {tag}, ![k].infos = @ \cup found]
    /\ UNCHANGED <<tags, present, policy, untag>>

\* the first n of the tags in an order that puts newer ones first; 0 keeps all
Newest(infos, n) ==
    IF n = 0 THEN {infos}
    ELSE {top \in SUBSET infos :
             /\ Cardinality(top) = Min({n, Cardinality(infos)})
             /\ \A x \in top, y \in infos \ top : x.age <= y.age}

\* Faulty variant: the count rule forgets that latest is protected.
SelectTagsForDeletion_AnyTag(rule, infos) ==
    LET Old == {x \in infos : rule.days # 0 /\ x.age > rule.days /\ x.name # Latest}
    IN  {Old \cup (infos \ top) : top \in Newest(infos, rule.count)}

\* selectTagsForDeletion: the union of what the rules give up; ties in the sort
\* leave a choice
SelectTagsForDeletion(rule, infos) ==
    LET Old   == {x \in infos : rule.days # 0 /\ x.age > rule.days}
        Other == {x \in infos : x.name \notin rule.names}
    IN  {{x \in Old \cup (infos \ top) \cup Other : x.name # Latest} : top \in Newest(infos, rule.count)}

SelectTags(k) ==
    /\ keeper[k].pc = "details"
    /\ keeper[k].names = {}
    /\ \E dels \in SelectTagsForDeletion(keeper[k].rule, keeper[k].infos) :
          keeper' = [keeper EXCEPT ![k].pc = "delete", ![k].dels = dels]
    /\ UNCHANGED <<tags, present, policy, untag>>

\* one DELETE per selected tag; a failure is logged and the next one tried
DeleteSelected(k, x) ==
    /\ keeper[k].pc = "delete"
    /\ x \in keeper[k].dels
    /\ keeper' = [keeper EXCEPT ![k].dels = @ \ {x}]
    /\ DeleteManifest(x.digest)
    /\ UNCHANGED <<present, policy, untag>>

\* UpdateLastExecuted
PolicyDone(k) ==
    /\ keeper[k].pc = "delete"
    /\ keeper[k].dels = {}
    /\ keeper' = [keeper EXCEPT ![k] = NoKeeper]
    /\ UNCHANGED <<tags, present, policy, untag>>

Request ==
    \/ \E p \in Policies : CreatePolicy(p) \/ UpdatePolicy(p)
    \/ DeletePolicy
    \/ ToggleRegistry
    \/ \E tag \in Tags : DeleteTag(tag)
    \/ DeleteDigest
    \/ \E tag \in Tags, i \in Images : Push(tag, i)

Execute(k) ==
    \/ RunAllPolicies(k)
    \/ RequestExecution(k)
    \/ ExecutePolicy(k)
    \/ ListTags(k)
    \/ \E tag \in Tags : ReadTag(k, tag)
    \/ SelectTags(k)
    \/ \E x \in keeper[k].dels : DeleteSelected(k, x)
    \/ PolicyDone(k)

Next == Request \/ \E k \in Keepers : Execute(k)

Spec == Init /\ [][Next]_vars

-----------------------------------------------------------------------------
\* Every variable has its type; what will be deleted is among what was read.
TypeOK ==
    /\ tags \in [Tags -> Images \cup {None}]
    /\ present \in BOOLEAN
    /\ policy \in Policies \cup {None}
    /\ untag \in Images \cup {None}
    /\ \A k \in Keepers :
           /\ keeper[k].pc \in {"idle", "due", "list", "details", "delete"}
           /\ keeper[k].rule \in Policies \cup {None}
           /\ keeper[k].names \subseteq Tags
           /\ keeper[k].infos \subseteq [name : Tags, digest : Images, age : Nat]
           /\ keeper[k].dels \subseteq keeper[k].infos

\* selectTagsForDeletion, against its rules read one tag at a time: a selected
\* tag is too old, of another name, or has KeepCount others at least as new; a
\* kept one is latest, or none of the rules gives it up.
SelectionRight ==
    \A k \in Keepers : keeper[k].pc = "details" /\ keeper[k].names = {} =>
        \A dels \in SelectTagsForDeletion(keeper[k].rule, keeper[k].infos), x \in keeper[k].infos :
            LET rule  == keeper[k].rule
                Newer == {y \in keeper[k].infos \ {x} : y.age < x.age}
                AsNew == {y \in keeper[k].infos \ {x} : y.age <= x.age}
                Given == (rule.days # 0 /\ x.age > rule.days) \/ x.name \notin rule.names
            IN  /\ x \in dels => x.name # Latest /\ (Given \/ (rule.count # 0 /\ Cardinality(AsNew) >= rule.count))
                /\ x \notin dels => x.name = Latest \/ (~Given /\ (rule.count = 0 \/ Cardinality(Newer) < rule.count))
=============================================================================
