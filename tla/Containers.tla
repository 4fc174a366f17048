----------------------------- MODULE Containers -----------------------------
(***************************************************************************)
(* Container management: the admin handlers over ContainerService and      *)
(* ImageService, each one call of a Docker daemon that other clients use   *)
(* too, that may go away, and whose containers end by themselves.  The     *)
(* handlers keep no container state; what they decide on is the size of    *)
(* the memory and whether the daemon answered when the process started.    *)
(*                                                                         *)
(* A memory limit is a number with a unit; the units grow by Kilo and the  *)
(* integers end at IntMax, so that a conversion can leave their range.     *)
(***************************************************************************)
EXTENDS Integers, FiniteSets

CONSTANTS
    Names,          \* container names
    Images,         \* image names
    Numbers,        \* the numbers that limits are written with
    Kilo,           \* 1024
    IntMax,         \* the largest int64
    Total,          \* MemTotal of /proc/meminfo in bytes
    MinMemory,      \* the smallest limit the daemon accepts
    MaxPid,         \* bound: starts of the process
    None

\* what the constants are
Constants ==
    /\ Numbers \subseteq Nat /\ {Total, IntMax, MaxPid, Kilo, MinMemory} \subseteq Nat
    /\ Kilo > 1 /\ MinMemory > 0 /\ Total < IntMax

VARIABLES
    daemon,         \* the Docker daemon answers
    containers,     \* containers of the daemon by name: status, image, memory, or None
    images,         \* images the daemon has
    serving,        \* the process serves
    pids,           \* starts so far
    available,      \* ContainerHandler.dockerAvailable
    totalMemBytes,  \* ContainerHandler.totalMemBytes, 0 when unknown
    pulls,          \* pulls under way, whose stream is being read
    blind,          \* history: a container was created while the memory size was unknown
    overflow        \* the build: what int64() of too large a float is

vars == <<daemon, containers, images, serving, pids, available, totalMemBytes, pulls, blind, overflow>>

Units  == {"plain", "k", "m", "g", "other"}
Limits == [num : Numbers, unit : Units]

Init ==
    /\ daemon \in BOOLEAN
    /\ containers = [n \in Names |-> None]
    /\ images = {}
    /\ serving = FALSE /\ pids = 0
    /\ available = FALSE /\ totalMemBytes = 0
    /\ pulls = {}
    /\ blind = FALSE
    /\ overflow \in {IntMax, -IntMax - 1}

-----------------------------------------------------------------------------
\* readSystemMemoryBytes: the file may be missing or unreadable
ReadSystemMemoryBytes == {0, Total}

\* initServices and NewContainerHandler: one ping decides for the life of the process
StartProcess ==
    /\ ~serving /\ pids < MaxPid
    /\ serving' = TRUE /\ pids' = pids + 1
    /\ available' = daemon
    /\ totalMemBytes' \in ReadSystemMemoryBytes
    /\ UNCHANGED <<daemon, containers, images, pulls, blind, overflow>>

\* the process stops; a pull it read goes on in the daemon or not
StopProcess ==
    /\ serving
    /\ serving' = FALSE
    /\ pulls' = {}
    /\ UNCHANGED <<daemon, containers, images, pids, available, totalMemBytes, blind, overflow>>

\* checkDocker: 503 unless the daemon was there at the start
CheckDocker == serving /\ available

\* int64(v * float64(mult)): outside the range the result is the build's, the
\* least integer (amd64) or the largest (arm64)
ToInt64(x) == IF x <= IntMax THEN x ELSE overflow

Multiplier(unit) == CASE unit = "k" -> Kilo [] unit = "m" -> Kilo * Kilo [] unit = "g" -> Kilo * Kilo * Kilo

\* Faulty variant: gigabytes are read with the multiplier of megabytes.
ParseMemLimit_Mega(l) ==
    CASE l.unit = "plain" /\ l.num <= IntMax -> l.num
      [] l.unit \in {"k", "m"}               -> ToInt64(l.num * Multiplier(l.unit))
      [] l.unit = "g"                        -> ToInt64(l.num * Multiplier("m"))
      [] OTHER                               -> None

\* parseMemLimit of the handler: the bytes of a limit, None for an error
ParseMemLimit(l) ==
    CASE l.unit = "plain" /\ l.num <= IntMax -> l.num
      [] l.unit \in {"k", "m", "g"}          -> ToInt64(l.num * Multiplier(l.unit))
      [] OTHER                               -> None

\* parseMemoryLimit of ContainerService, which parses the same text again
ParseMemoryLimit(l) ==
    CASE l.unit = "plain" /\ l.num <= IntMax -> l.num
      [] l.unit \in {"k", "m", "g"}          -> ToInt64(l.num * Multiplier(l.unit))
      [] OTHER                               -> None

\* HandleContainerCreate: the limit is refused when it does not parse or is
\* more than the machine has
LimitAccepted(l) ==
    IF l = None THEN TRUE
    ELSE IF ParseMemLimit(l) = None THEN FALSE
    ELSE totalMemBytes = 0 \/ ParseMemLimit(l) <= totalMemBytes

\* ContainerService.Create: the memory of the host config, 0 for no limit
HostMemory(l) == IF l = None THEN 0 ELSE ParseMemoryLimit(l)

\* buildBinds and buildMounts: every volume is in both lists
Binds(volumes)  == volumes
Mounts(volumes) == volumes

\* ContainerCreate of the daemon: the image must be there, the name free, the
\* memory large enough, and no path mounted twice
DaemonCreates(name, image, memory, volumes) ==
    /\ daemon /\ containers[name] = None /\ image \in images
    /\ memory = 0 \/ memory >= MinMemory
    /\ Binds(volumes) \cap Mounts(volumes) = {}

\* ContainerService.Create, when the daemon agrees; otherwise nothing changes
Create(name, image, l, volumes) ==
    /\ DaemonCreates(name, image, HostMemory(l), volumes)
    /\ containers' = [containers EXCEPT ![name] = [status |-> "created", image |-> image, memory |-> HostMemory(l)]]
    /\ blind' = (blind \/ totalMemBytes = 0)
    /\ UNCHANGED <<daemon, images, serving, pids, available, totalMemBytes, pulls, overflow>>

\* the daemon sets the status of a container that exists
SetStatus(name, from, to) ==
    /\ daemon /\ containers[name] # None /\ containers[name].status \in from
    /\ containers' = [containers EXCEPT ![name].status = to]
    /\ UNCHANGED <<daemon, images, serving, pids, available, totalMemBytes, pulls, blind, overflow>>

\* Start, Stop (after ten seconds by force) and Restart
Start(name)   == SetStatus(name, {"created", "exited", "running"}, "running")
Stop(name)    == SetStatus(name, {"running"}, "exited")
Restart(name) == SetStatus(name, {"created", "exited", "running"}, "running")

\* Remove, not forced: the daemon keeps a running container
Remove(name) ==
    /\ daemon /\ containers[name] # None
    /\ containers[name].status # "running"
    /\ containers' = [containers EXCEPT ![name] = None]
    /\ UNCHANGED <<daemon, images, serving, pids, available, totalMemBytes, pulls, blind, overflow>>

\* ImagePull: the daemon accepts and streams its progress
ImagePull(image) ==
    /\ daemon
    /\ pulls' = pulls \cup {image}
    /\ UNCHANGED <<daemon, containers, images, serving, pids, available, totalMemBytes, blind, overflow>>

\* ImagePull: the stream has been read to its end; an error that is reported
\* in the stream is discarded with it
PullEnds(image) ==
    /\ image \in pulls
    /\ pulls' = pulls \ {image}
    /\ images' \in {images} \cup (IF daemon THEN {images \cup {image}} ELSE {})
    /\ UNCHANGED <<daemon, containers, serving, pids, available, totalMemBytes, blind, overflow>>

\* ImageDelete, not forced: the daemon keeps an image in use
ImageDelete(image) ==
    /\ daemon /\ image \in images
    /\ \A n \in Names : containers[n] # None => containers[n].image # image
    /\ images' = images \ {image}
    /\ UNCHANGED <<daemon, containers, serving, pids, available, totalMemBytes, pulls, blind, overflow>>

-----------------------------------------------------------------------------
(* The handlers: 503 without Docker, 400 without a name or an id. *)

HandleContainerCreate ==
    \E n \in Names, i \in Images, l \in Limits \cup {None}, volumes \in {{}, {"/data"}} :
        CheckDocker /\ LimitAccepted(l) /\ Create(n, i, l, volumes)

HandleContainerStart   == CheckDocker /\ \E n \in Names : Start(n)
HandleContainerStop    == CheckDocker /\ \E n \in Names : Stop(n)
HandleContainerRestart == CheckDocker /\ \E n \in Names : Restart(n)
HandleContainerDelete  == CheckDocker /\ \E n \in Names : Remove(n)
HandleImagePull        == CheckDocker /\ \E i \in Images : ImagePull(i)
HandleImageDelete      == CheckDocker /\ \E i \in Images : ImageDelete(i)

\* a container ends, or the daemon goes away (its containers end) or comes back
ContainerExits(name) == SetStatus(name, {"running"}, "exited")

DaemonTurns ==
    /\ daemon' = ~daemon
    /\ containers' = [n \in Names |->
                        IF containers[n] = None \/ ~daemon THEN containers[n]
                        ELSE [containers[n] EXCEPT !.status = IF @ = "running" THEN "exited" ELSE @]]
    /\ UNCHANGED <<images, serving, pids, available, totalMemBytes, pulls, blind, overflow>>

Next ==
    \/ StartProcess \/ StopProcess \/ DaemonTurns
    \/ HandleContainerCreate \/ HandleContainerStart \/ HandleContainerStop \/ HandleContainerRestart
    \/ HandleContainerDelete \/ HandleImagePull \/ HandleImageDelete
    \/ \E n \in Names : ContainerExits(n)
    \/ \E i \in Images : PullEnds(i)

Spec == Init /\ [][Next]_vars

-----------------------------------------------------------------------------
\* Types.
TypeOK ==
    /\ {daemon, serving, available, blind} \subseteq BOOLEAN
    /\ containers \in [Names -> {None} \cup [status : {"created", "running", "exited"}, image : Images,
                                             memory : 0..IntMax]]
    /\ images \subseteq Images /\ pulls \subseteq Images
    /\ pids \in 0..MaxPid /\ totalMemBytes \in {0, Total}

\* The limit is checked on one parse of the text and set from another: as long
\* as the handler knew the size of the memory, no container has a limit beyond
\* it, whatever the text was and whatever the conversion made of it.
MemoryBounded == ~blind => \A n \in Names : containers[n] # None => containers[n].memory <= Total
=============================================================================
