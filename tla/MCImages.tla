------------------------------ MODULE MCImages ------------------------------
(***************************************************************************)
(* Small instances, for TLC, of the modules that bring in images:          *)
(* RegistrySync and TagRetention, and ISOQueue with the queue processor    *)
(* alone.  They share no variable here, so that one of them moves (focus)  *)
(* and the others rest.                                                    *)
(***************************************************************************)
EXTENDS RegistrySync, TLC

CONSTANTS src, dst, new, old, list, base, top, cfg, Keepers, Names, Stable, Age, Ancient, Policies,
          Entries, Queue, Requests, NChunks, Inodes, NoInode, NoEntry, NoOne, Focus

VARIABLES focus, names, present, policy, keeper, untag,
          dl, tmp, final, content, slots, cancels, pc, job, fd, append, size, pos, cancelled, result,
          stale, queue, changed, asked, target

MCArm64    == [i \in Images |-> IF i = list THEN new ELSE i]
MCLayersOf == [i \in Images |-> IF i = new THEN <<base, top>> ELSE IF i = old THEN <<base>> ELSE <<>>]
MCConfigOf == [i \in Images |-> IF i = old THEN base ELSE cfg]
MCStored   == [r \in Registries |-> [t \in Tags |-> IF r = src THEN list ELSE old]]
MCAuth     == (src :> "bearer") @@ (dst :> "none")
MCAge      == [i \in Images |-> IF i = old THEN 2 ELSE 0]
MCPolicies == {[days |-> 1, count |-> 2, names |-> Names, enabled |-> TRUE],
               [days |-> 0, count |-> 1, names |-> Names, enabled |-> TRUE],
               [days |-> 3, count |-> 0, names |-> {Stable}, enabled |-> FALSE]}

Ret == INSTANCE TagRetention WITH Hub <- Target, Tags <- Names, Latest <- Stable, tags <- names

Iso == INSTANCE ISOQueue WITH Checksummed <- Entries, Direct <- {}, MaxConcurrent <- 1, Corrupts <- TRUE

ASSUME RetentionAssumption == Ret!Constants

sync      == <<seals, tags, blobs, status, copies, run, req, torn>>
retention == <<names, present, policy, keeper, untag>>
iso       == <<dl, tmp, final, content, slots, cancels, pc, job, fd, append, size, pos, cancelled, result,
               stale, queue, changed, asked, target>>

\* inodes are only compared
Symmetry == Permutations(Inodes)

MCInit ==
    /\ focus \in Focus
    /\ Init /\ Iso!Init
    /\ Ret!Init /\ (focus # "retention" => names = [n \in Names |-> old])

SyncNext == focus = "sync" /\ Next /\ UNCHANGED <<focus, retention, iso>>
RetNext  == focus = "retention" /\ Ret!Next /\ UNCHANGED <<focus, sync, iso>>
IsoNext  == focus = "iso" /\ Iso!Next /\ UNCHANGED <<focus, sync, retention>>

MCSpec == MCInit /\ [][SyncNext \/ RetNext \/ IsoNext]_<<focus, sync, retention, iso>>

\* selectTagsForDeletion gives up what its rules say, and never latest (TagRetention).
SelectionRight == focus = "retention" => Ret!TypeOK /\ Ret!SelectionRight

\* The queue reports only images whose checksum is right (ISOQueue).
ReportedVerified == Iso!ReportedVerified
=============================================================================
