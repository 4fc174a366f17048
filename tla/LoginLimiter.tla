---------------------------- MODULE LoginLimiter ----------------------------
(***************************************************************************)
(* The rate limiter of the login endpoint of one listener                  *)
(* (endpointRateLimit).  Its mutex is held while Login runs, so that a     *)
(* request is one step.  Time is in seconds from 1.                        *)
(***************************************************************************)
EXTENDS Naturals, FiniteSets

CONSTANTS
    Clients,            \* addresses that log in
    MaxAttempts, Window, Lockout, MaxIPs,
    MaxTime             \* bound: the clock

\* what the constants are
Constants == {MaxAttempts, Window, Lockout, MaxIPs, MaxTime} \subseteq Nat \ {0}

VARIABLES
    now,        \* the clock
    entries,    \* an address's entry, or NoEntry
    lockedTill  \* history: the end of an address's last lockout

vars == <<now, entries, lockedTill>>

NoEntry == [attempts |-> 0, windowStart |-> 0, lockedUntil |-> 0]

\* a start of the process
Fresh == [ip \in Clients |-> NoEntry]

Init == now = 1 /\ entries = Fresh /\ lockedTill = [ip \in Clients |-> 0]

Tick == now < MaxTime /\ now' = now + 1 /\ UNCHANGED <<entries, lockedTill>>

\* the entries end with the process
Restart == entries' = Fresh /\ lockedTill' = [ip \in Clients |-> 0] /\ UNCHANGED now

Locked(e) == now < e.lockedUntil

\* prune, on every hundredth request
Prune(es) ==
    [ip \in Clients |-> IF Locked(es[ip]) \/ now - es[ip].windowStart <= Window THEN es[ip] ELSE NoEntry]

\* Faulty variant: a locked entry may go as well.
EvictOldest_Any(es) ==
    LET Free == {ip \in Clients : es[ip] # NoEntry}
    IN  {[es EXCEPT ![ip] = NoEntry] : ip \in {i \in Free : \A j \in Free : es[i].windowStart <= es[j].windowStart}}

\* evictOldest: the earliest window of those that are not locked, any of several
EvictOldest(es) ==
    LET Free == {ip \in Clients : es[ip] # NoEntry /\ ~Locked(es[ip])}
    IN  IF Free = {} THEN {es}
        ELSE {[es EXCEPT ![ip] = NoEntry] : ip \in {i \in Free : \A j \in Free : es[i].windowStart <= es[j].windowStart}}

\* the entries, with room for the address
Rooms(ip) ==
    UNION {IF es[ip] = NoEntry /\ Cardinality({i \in Clients : es[i] # NoEntry}) >= MaxIPs
           THEN EvictOldest(es) ELSE {es} : es \in {entries, Prune(entries)}}

\* the address's entry, a new one if it has none, its window begun again if over
EntryOf(es, ip) == IF es[ip] = NoEntry THEN [NoEntry EXCEPT !.windowStart = now] ELSE es[ip]

InWindow(e) ==
    IF now - e.windowStart > Window
    THEN [attempts |-> 0, windowStart |-> now, lockedUntil |-> e.lockedUntil] ELSE e

\* endpointRateLimit lets the request through
Admitted(ip) ==
    \E es \in Rooms(ip) :
        LET e == EntryOf(es, ip) IN
        /\ ~Locked(e)
        /\ InWindow(e).attempts < MaxAttempts
        /\ entries' = [es EXCEPT ![ip] = [InWindow(e) EXCEPT !.attempts = @ + 1]]
        /\ UNCHANGED <<now, lockedTill>>

\* endpointRateLimit answers 429: locked out already, or from now on
Limited(ip) ==
    /\ \E es \in Rooms(ip) :
         LET e == EntryOf(es, ip) IN
         IF Locked(e) THEN entries' = [es EXCEPT ![ip] = e] /\ UNCHANGED lockedTill
         ELSE /\ InWindow(e).attempts >= MaxAttempts
              /\ entries' = [es EXCEPT ![ip] =
                     [attempts |-> 0, windowStart |-> now, lockedUntil |-> now + Lockout]]
              /\ lockedTill' = [lockedTill EXCEPT ![ip] = now + Lockout]
    /\ UNCHANGED now

Next == Tick \/ Restart \/ \E ip \in Clients : Admitted(ip) \/ Limited(ip)

Spec == Init /\ [][Next]_vars

-----------------------------------------------------------------------------
\* The entries are records of the map, and the clock is within its bound.
TypeOK ==
    /\ now \in 1..MaxTime
    /\ entries \in [Clients -> [attempts : 0..MaxAttempts, windowStart : Nat, lockedUntil : Nat]]

\* An address that was locked out gets no login through before the lockout is
\* over, whatever prune and evictOldest do to the entries meanwhile.
LockoutHolds ==
    [][\A ip \in Clients :
         entries'[ip] # entries[ip] /\ entries'[ip].attempts > 0 => lockedTill[ip] <= now]_vars
=============================================================================
