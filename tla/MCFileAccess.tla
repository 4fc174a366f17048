---------------------------- MODULE MCFileAccess ----------------------------
(***************************************************************************)
(* Small instances, for TLC, of the modules about what clients see of the  *)
(* files: ShareLinks, WebDAVFiles, AptIndex, PyPIIndex and RuleEntries,    *)
(* and of the loops Base58, DebControl, PyPINames and ContainerLogs.  They *)
(* share no variable: one of them moves (focus) and the others rest.       *)
(***************************************************************************)
EXTENDS Naturals, Sequences, TLC

CONSTANTS
    None, Broken, Bad, Clients,
    ShareProjects, Expiries, Limits, CacheSize, Slots, MaxId, MaxToken, MaxTime,
    Names, Folders, Moves, MaxFile, MaxNode,
    Debs, Archs, MaxMtime,
    PageClients, Dists, PyNames, n3, PyNorm, MaxProject,
    RuleFiles, RuleFolders, Fields, Metas, Rules, Buffer, MaxCrash,
    Bytes, MaxBytes, Keys, Values, MaxLines, Chars, MaxName, MaxFrames, MaxPayload,
    Focus               \* the modules that a run is about

VARIABLES focus,
    now, rows, lastId, drawn, links, asked, tokenCache, shareCache, dl, born, issued,
    disk, uploads, nodes, req, mixed,
    complete, deleted, debs, time, aptCache, debMemo, lock, aptReq,
    projects, dists, pypi, pyLock, building, askedPage, page, changed,
    files, rules, entries, checkpoint, toPublish, published, created, matcher, backfill, missed, crashes,
    input, k, buffer,
    text, line, fields, lastKey,
    name, at, out, prevSep,
    stream, frame, logged, done

share == <<now, rows, lastId, drawn, links, asked, tokenCache, shareCache, dl, born, issued>>
dav   == <<disk, uploads, nodes, req, mixed>>
apt   == <<complete, deleted, debs, time, aptCache, debMemo, lock, aptReq>>
pip   == <<projects, dists, pypi, pyLock, building, askedPage, page, changed>>
rule  == <<files, rules, entries, checkpoint, toPublish, published, created, matcher, backfill, missed, crashes>>
loops == <<input, k, buffer, text, line, fields, lastKey, name, at, out, prevSep, stream, frame, logged, done>>

\* three names, two of which are one package
MCNorm  == [n \in PyNames |-> IF n = n3 THEN "other" ELSE "my-pkg"]
MCLower == [c \in Chars |-> IF c = "A" THEN "a" ELSE c]

\* metadata, and a rule that constrains one field and has a key that no field has
MCMetas == {[f \in Fields |-> v] : v \in {"a", "b"}}
MCRules == {[f \in Fields \cup {"size"} |-> "a"]}

Share == INSTANCE ShareLinks WITH Projects <- ShareProjects, files <- rows
Dav   == INSTANCE WebDAVFiles WITH files <- uploads
Apt   == INSTANCE AptIndex WITH disk <- debs, req <- aptReq, MaxTime <- MaxMtime
Pip   == INSTANCE PyPIIndex WITH rows <- dists, asked <- askedPage, Clients <- PageClients, Names <- PyNames, Norm <- PyNorm
Rule  == INSTANCE RuleEntries WITH Files <- RuleFiles, nodes <- rules, Folders <- RuleFolders
B58   == INSTANCE Base58 WITH MaxLen <- MaxBytes
Deb   == INSTANCE DebControl
Norm  == INSTANCE PyPINames WITH Lower <- MCLower, MaxLen <- MaxName
Logs  == INSTANCE ContainerLogs WITH at <- frame, entries <- logged

ASSUME FileAccessAssumption ==
    /\ Share!Constants /\ Dav!Constants /\ Apt!Constants /\ Pip!Constants /\ Rule!Constants
    /\ Bytes \subseteq 0..255

Symmetry == Permutations(Clients) \cup Permutations(RuleFiles) \cup Permutations(RuleFolders)

\* a loop that rests has read an empty input
RestB58  == input = <<>> /\ k = 1 /\ buffer = <<0>>
RestDeb  == text = <<>> /\ line = 1 /\ fields = <<>> /\ lastKey = ""
RestNorm == name = <<>> /\ at = 1 /\ out = <<>> /\ prevSep = FALSE
RestLogs == stream = <<>> /\ frame = 0 /\ logged = <<>> /\ done = FALSE

MCInit ==
    /\ focus \in Focus
    /\ Share!Init /\ Dav!Init /\ Apt!Init /\ Pip!Init /\ Rule!Init
    /\ IF focus = "base58" THEN B58!Init ELSE RestB58
    /\ IF focus = "control" THEN Deb!Init ELSE RestDeb
    /\ IF focus = "names" THEN Norm!Init ELSE RestNorm
    /\ IF focus = "logs" THEN Logs!Init ELSE RestLogs

ShareNext == focus = "share" /\ Share!Next /\ UNCHANGED <<focus, dav, apt, pip, rule, loops>>
DavNext   == focus = "dav" /\ Dav!Next /\ UNCHANGED <<focus, share, apt, pip, rule, loops>>
AptNext   == focus = "apt" /\ Apt!Next /\ UNCHANGED <<focus, share, dav, pip, rule, loops>>
PipNext   == focus = "pypi" /\ Pip!Next /\ UNCHANGED <<focus, share, dav, apt, rule, loops>>
RuleNext  == focus = "rules" /\ Rule!Next /\ UNCHANGED <<focus, share, dav, apt, pip, loops>>

LoopNext ==
    /\ \/ /\ focus = "base58" /\ B58!Next
          /\ UNCHANGED <<text, line, fields, lastKey, name, at, out, prevSep, stream, frame, logged, done>>
       \/ /\ focus = "control" /\ Deb!Next
          /\ UNCHANGED <<input, k, buffer, name, at, out, prevSep, stream, frame, logged, done>>
       \/ /\ focus = "names" /\ Norm!Next
          /\ UNCHANGED <<input, k, buffer, text, line, fields, lastKey, stream, frame, logged, done>>
       \/ /\ focus = "logs" /\ Logs!Next
          /\ UNCHANGED <<input, k, buffer, text, line, fields, lastKey, name, at, out, prevSep>>
    /\ UNCHANGED <<focus, share, dav, apt, pip, rule>>

MCSpec ==
    /\ MCInit
    /\ [][ShareNext \/ DavNext \/ AptNext \/ PipNext \/ RuleNext \/ LoopNext]_<<focus, share, dav, apt, pip, rule, loops>>

-----------------------------------------------------------------------------
\* A token serves the file it was issued for, however ids, caches and deletions follow one
\* another; a link is validated no more often than its limit and its file has a row
\* (ShareLinks).
TokensServe == focus = "share" => Share!TypeOK /\ Share!ServesItsFile /\ Share!LinksHold

\* An upload that nothing disturbed is found and opens, and uploads that did not overlap
\* leave one row and one node (WebDAVFiles).
UploadsHold == focus = "dav" => Dav!TypeOK /\ Dav!UploadVisible /\ Dav!NoDuplicates

\* An APT index whose signature still fits lists what a rebuild would list, and every
\* distribution is on the PyPI page of its name (AptIndex, PyPIIndex).
IndexesRight ==
    /\ focus = "apt" => Apt!TypeOK /\ Apt!IndexCurrent
    /\ focus = "pypi" => Pip!TypeOK /\ Pip!PagesRight

\* A rule folder shows every file that meets its rule, but for what was lost (RuleEntries).
EntriesComplete == focus = "rules" => Rule!TypeOK /\ Rule!EntriesComplete

\* What the loops over bytes, lines and characters have built so far is what their input
\* means (Base58, DebControl, PyPINames, ContainerLogs).
LoopsRight ==
    CASE focus = "base58"  -> B58!EncodesPrefix
      [] focus = "control" -> Deb!ControlRight
      [] focus = "names"   -> Norm!NormalizesName
      [] focus = "logs"    -> Logs!LogLinesRight
      [] OTHER             -> TRUE

\* What a DELETE removed is no longer shown (WebDAVFiles).
DeletedGone == Dav!DeletedGone
=============================================================================
