----------------------------- MODULE PyPIIndex ------------------------------
(***************************************************************************)
(* The PEP 503 index of Python distributions (supply/pypi.go): the index   *)
(* of projects, rebuilt when it is older than its TTL, and the page of a   *)
(* project, which combines it with the rows of files at that moment.       *)
(* Norm is normalizePyPIProject, which PyPINames models.                   *)
(***************************************************************************)
EXTENDS Naturals

CONSTANTS
    None,
    Clients,            \* requests under way at a time
    Dists,              \* ids of rows of files with the name of a distribution
    Names, Norm,        \* names of projects, and the normalised form of each
    MaxProject          \* bound: projects created

\* what the constants are
Constants ==
    /\ DOMAIN Norm = Names
    /\ MaxProject \in Nat \ {0}
    /\ None \notin Clients

Projects == 1..MaxProject

VARIABLES
    projects,   \* projects created: name, whether source_type is 'pypi', whether the row is there
    rows,       \* complete rows of files: their project
    pypi,       \* PyPIHandler.index, with whether it is younger than its TTL
    pyLock,     \* holder of PyPIHandler.mu as a writer
    building,   \* what buildOrGetIndex has read
    asked,      \* a request for a project's page: the name, and the index it was given
    page,       \* the files on the page answered last
    changed     \* history: rows or projects changed since the index's projects were read

vars == <<projects, rows, pypi, pyLock, building, asked, page, changed>>

Init ==
    /\ projects = [p \in Projects |-> None]
    /\ rows = [f \in Dists |-> None]
    /\ pypi = None
    /\ pyLock = None
    /\ building = <<>>
    /\ asked = [c \in Clients |-> None]
    /\ page = {}
    /\ changed = FALSE

-----------------------------------------------------------------------------
(* Rows. *)

Live(p) == projects[p] # None /\ projects[p].live

\* ProjectRepo.Create: names are unique, ids are not used twice
CreateProject(name, isPyPI) ==
    \E p \in Projects :
        /\ \A q \in Projects : IF q < p THEN projects[q] # None ELSE projects[q] = None
        /\ \A q \in Projects : Live(q) => projects[q].name # name
        /\ projects' = [projects EXCEPT ![p] = [name |-> name, pypi |-> isPyPI, live |-> TRUE]]
        /\ changed' = TRUE
        /\ UNCHANGED <<rows, pypi, pyLock, building, asked, page>>

\* ProjectRepo.Delete: in one transaction with its rows of files
DeleteProject(p) ==
    /\ Live(p)
    /\ projects' = [projects EXCEPT ![p].live = FALSE]
    /\ rows' = [f \in Dists |-> IF rows[f] = p THEN None ELSE rows[f]]
    /\ changed' = TRUE
    /\ UNCHANGED <<pypi, pyLock, building, asked, page>>

\* DownloadFile's last UpdateStatus
CompleteRow(f, p) ==
    /\ rows[f] = None
    /\ Live(p)
    /\ rows' = [rows EXCEPT ![f] = p]
    /\ changed' = TRUE
    /\ UNCHANGED <<projects, pypi, pyLock, building, asked, page>>

\* FileRepo.ListComplete, of the distributions
ListComplete == {f \in Dists : rows[f] # None}

-----------------------------------------------------------------------------
(* GET /simple/ and /simple/{project}/ *)

Fresh == pypi # None /\ pypi.fresh

\* the TTL of 30 s passes
Expire ==
    /\ Fresh
    /\ pypi' = [pypi EXCEPT !.fresh = FALSE]
    /\ UNCHANGED <<projects, rows, pyLock, building, asked, page, changed>>

\* buildOrGetIndex finds no index to return, under RLock and again under Lock: the projects
BuildIndex(c) ==
    /\ pyLock = None
    /\ ~Fresh
    /\ pyLock' = c
    /\ building' = [p \in {q \in Projects : Live(q) /\ projects[q].pypi} |-> Norm[projects[p].name]]
    /\ changed' = FALSE
    /\ UNCHANGED <<projects, rows, pypi, asked, page>>

\* Faulty variant: every project is listed, with files or without.
Packages_Empty(byProject) == {byProject[p] : p \in DOMAIN byProject}

\* the normalised names of the projects that have a file to serve
Packages(byProject) ==
    {byProject[p] : p \in DOMAIN byProject \cap {rows[f] : f \in ListComplete}}

\* ... and the files
StoreIndex(c) ==
    /\ pyLock = c
    /\ pypi' = [byProject |-> building, packages |-> Packages(building), fresh |-> TRUE]
    /\ pyLock' = None
    /\ building' = <<>>
    /\ UNCHANGED <<projects, rows, asked, page, changed>>

\* serveProjectIndex: buildOrGetIndex returns the index there is, under RLock
GetIndex(c, requested) ==
    /\ pyLock = None
    /\ Fresh
    /\ asked[c] = None
    /\ asked' = [asked EXCEPT ![c] = [name |-> requested, index |-> pypi]]
    /\ UNCHANGED <<projects, rows, pypi, pyLock, building, page, changed>>

\* the files that it lists on the page of a project, none (404) for one without files
Listed(index, name) ==
    {f \in ListComplete : /\ name \in index.packages
                          /\ rows[f] \in DOMAIN index.byProject
                          /\ index.byProject[rows[f]] = name}

ServeProjectIndex(c) ==
    /\ asked[c] # None
    /\ page' = Listed(asked[c].index, asked[c].name)
    /\ asked' = [asked EXCEPT ![c] = None]
    /\ UNCHANGED <<projects, rows, pypi, pyLock, building, changed>>

-----------------------------------------------------------------------------
Next ==
    \/ \E name \in Names, b \in BOOLEAN : CreateProject(name, b)
    \/ \E p \in Projects : DeleteProject(p)
    \/ \E f \in Dists, p \in Projects : CompleteRow(f, p)
    \/ Expire
    \/ \E c \in Clients : BuildIndex(c) \/ StoreIndex(c)
    \/ \E c \in Clients, n \in Names : GetIndex(c, Norm[n])
    \/ \E c \in Clients : ServeProjectIndex(c)

Spec == Init /\ [][Next]_vars

-----------------------------------------------------------------------------
TypeOK ==
    /\ rows \in [Dists -> Projects \cup {None}]
    /\ pyLock \in Clients \cup {None}
    /\ page \subseteq Dists

\* While nothing changed since the index was built, the page of every package it lists
\* has a link, and every distribution of a PyPI project is on the page of its name, which
\* projects of one normalised name share (buildOrGetIndex, serveProjectIndex).
PagesRight ==
    pypi # None /\ pyLock = None /\ ~changed =>
        /\ \A name \in pypi.packages : Listed(pypi, name) # {}
        /\ \A f \in ListComplete :
               projects[rows[f]].pypi => f \in Listed(pypi, Norm[projects[rows[f]].name])
=============================================================================
