------------------------------ MODULE Sessions ------------------------------
(***************************************************************************)
(* The administrator's access: the config file and its copy in memory,     *)
(* what the handlers captured of it at start, JWT sessions, changing the   *)
(* password, the TLS pair, crashes and restarts.                           *)
(*                                                                         *)
(* A password stands for its hash, and a number for a random secret; 0 is  *)
(* an empty string.  Time is in seconds from 1, and 0 is the zero time.    *)
(***************************************************************************)
EXTENDS Naturals, FiniteSets

CONSTANTS
    Passwords, Admin,   \* passwords, and the default one
    Percents,           \* disk thresholds a request may ask for
    Admins,             \* configuration requests under way at a time
    SessionTime,        \* life of a token
    MaxTime, MaxSecret, \* bounds: clock, random secrets
    MaxTokens           \* bound: tokens issued

\* what the constants are
Constants ==
    /\ Admin \in Passwords /\ 0 \notin Passwords
    /\ Percents \subseteq Nat
    /\ {SessionTime, MaxTime, MaxSecret, MaxTokens} \subseteq Nat \ {0}

VARIABLES
    now,        \* the clock
    phase,      \* how far the process has come
    file,       \* the config file's content
    config,     \* *config.Config, shared by the handlers
    captured,   \* password hash and secret that handlers and middleware were given
    drawn,      \* random secrets drawn so far
    tokens,     \* tokens issued
    req,        \* a configuration request and its locals
    pair,       \* the certificate and key files
    changedAt,  \* history: the last password change acknowledged, forgotten with an emptied file
    broken      \* history: the process ended while it wrote the pair

vars == <<now, phase, file, config, captured, drawn, tokens, req, pair, changedAt, broken>>

Unset     == 0
Absent    == [kind |-> "absent"]
Empty     == [kind |-> "empty"]
Stored(c) == [kind |-> "config", config |-> c]

NoReq == [pc |-> "idle", old |-> Absent, data |-> Absent, new |-> Unset, acks |-> FALSE]

\* detail of a file of the pair: absent, created but empty, or the n-th generation
Missing == 0
Blank   == 1

-----------------------------------------------------------------------------
(* Configuration. *)

\* generateJWTSecret
FreshSecret == drawn + 1

\* DefaultConfig, with its thresholds of 90 and 95 percent
DefaultConfig(secret) ==
    [password |-> Admin, secret |-> secret, changed |-> Unset,
     warning |-> 90, critical |-> 95]

\* Unmarshal over the defaults: an empty file leaves every default
Unmarshal(f) == IF f = Empty THEN DefaultConfig(FreshSecret) ELSE f.config

EnsureJWTSecret(c) == IF c.secret = Unset THEN [c EXCEPT !.secret = FreshSecret] ELSE c

EnsurePasswordHash(c) == IF c.password = Unset THEN [c EXCEPT !.password = Admin] ELSE c

\* Validate, of the fields that are modelled
Validate(c) ==
    /\ c.warning \in 1..100
    /\ c.critical \in 1..100
    /\ c.critical > c.warning

\* Load, of a file that is there
Load(f) == EnsurePasswordHash(EnsureJWTSecret(Unmarshal(f)))

\* GetPasswordChangedAt
GetPasswordChangedAt == config.changed

\* GenerateDefault
GenerateDefault == Stored(DefaultConfig(FreshSecret))

\* the config file as it is shipped: no password hash, no secret
Shipped == Stored([DefaultConfig(Unset) EXCEPT !.password = Unset])

Init ==
    /\ now = 1
    /\ phase = "down"
    /\ file \in {Absent, Shipped}
    /\ config = DefaultConfig(Unset)
    /\ captured = [password |-> Unset, secret |-> Unset]
    /\ drawn = 0
    /\ tokens = {}
    /\ req = [a \in Admins |-> NoReq]
    /\ pair = [cert |-> Missing, key |-> Missing]
    /\ changedAt = Unset
    /\ broken = FALSE

-----------------------------------------------------------------------------
(* Start and end of the process. *)

\* loadConfig, and what initHandlers and buildRouter hand to AuthHandler and to
\* the middlewares; from here on HTTP is served
LoadConfig ==
    /\ phase = "down"
    /\ drawn < MaxSecret
    /\ LET f == IF file = Absent THEN GenerateDefault ELSE file
           c == Load(f)
       IN /\ Validate(c)
          /\ file' = f
          /\ config' = c
          /\ captured' = [password |-> c.password, secret |-> c.secret]
    /\ drawn' = FreshSecret
    /\ changedAt' = IF file = Empty THEN Unset ELSE changedAt
    /\ phase' = "loaded"
    /\ UNCHANGED <<now, tokens, req, pair, broken>>

\* EnsureTLSCert leaves a pair alone, whatever the files hold
PairExists == pair.cert # Missing /\ pair.key # Missing

\* the two files belong together
Matches == pair.cert = pair.key /\ pair.cert \notin {Missing, Blank}

\* a number for a new key pair
Generation == drawn + 1

\* EnsureTLSCert creates the certificate's file
CreateCert ==
    /\ phase = "loaded"
    /\ ~PairExists
    /\ pair' = [pair EXCEPT !.cert = Blank]
    /\ phase' = "cert"
    /\ UNCHANGED <<now, file, config, captured, drawn, tokens, req, changedAt, broken>>

\* and encodes the new certificate into it
EncodeCert ==
    /\ phase = "cert"
    /\ pair' = [pair EXCEPT !.cert = Generation]
    /\ phase' = "encoded"
    /\ UNCHANGED <<now, file, config, captured, drawn, tokens, req, changedAt, broken>>

CreateKey ==
    /\ phase = "encoded"
    /\ pair' = [pair EXCEPT !.key = Blank]
    /\ phase' = "key"
    /\ UNCHANGED <<now, file, config, captured, drawn, tokens, req, changedAt, broken>>

EncodeKey ==
    /\ phase = "key"
    /\ pair' = [pair EXCEPT !.key = Generation]
    /\ phase' = "pair"
    /\ UNCHANGED <<now, file, config, captured, drawn, tokens, req, changedAt, broken>>

\* what ends with the process
Ends ==
    /\ phase' = "down"
    /\ req' = [a \in Admins |-> NoReq]
    /\ config' = DefaultConfig(Unset)
    /\ captured' = [password |-> Unset, secret |-> Unset]

\* LoadTLSConfig, and HTTPS is served
LoadTLSConfig ==
    /\ phase = "pair" \/ (phase = "loaded" /\ PairExists)
    /\ Matches
    /\ phase' = "up"
    /\ UNCHANGED <<now, file, config, captured, drawn, tokens, req, pair, changedAt, broken>>

\* a pair that does not load ends the process
RefuseTLSConfig ==
    /\ phase = "pair" \/ (phase = "loaded" /\ PairExists)
    /\ ~Matches
    /\ Ends
    /\ UNCHANGED <<now, file, drawn, tokens, pair, changedAt, broken>>

\* a signal, the end of a restore, or a crash
Stop ==
    /\ phase # "down"
    /\ Ends
    /\ broken' = (broken \/ phase \in {"cert", "encoded", "key"})
    /\ UNCHANGED <<now, file, drawn, tokens, pair, changedAt>>

\* an operator removes a file of the pair, between two starts
RemoveFile(f) ==
    /\ phase = "down"
    /\ pair[f] # Missing
    /\ pair' = [pair EXCEPT ![f] = Missing]
    /\ UNCHANGED <<now, phase, file, config, captured, drawn, tokens, req, changedAt, broken>>

Tick ==
    /\ now < MaxTime
    /\ now' = now + 1
    /\ UNCHANGED <<phase, file, config, captured, drawn, tokens, req, pair, changedAt, broken>>

-----------------------------------------------------------------------------
(* Sessions. *)

\* a token signed now
Issue ==
    /\ tokens' = tokens \cup {[secret |-> captured.secret, iat |-> now]}
    /\ Cardinality(tokens') <= MaxTokens

\* Login, which LoginLimiter lets through, compares with the hash that AuthHandler was built
\* with
Login(password) ==
    /\ phase # "down"
    /\ password = captured.password
    /\ Issue
    /\ UNCHANGED <<now, phase, file, config, captured, drawn, req, pair, changedAt, broken>>

\* jwt.Parse: the signature and the expiry
Parses(t) == t.secret = captured.secret /\ now < t.iat + SessionTime

\* Faulty variant: only the signature and the expiry are looked at.
AuthMiddleware_AnyAge(t) == Parses(t)

\* AuthMiddleware lets the token's request through
AuthMiddleware(t) ==
    /\ Parses(t)
    /\ GetPasswordChangedAt = Unset \/ t.iat >= GetPasswordChangedAt

\* RefreshToken makes the same checks itself
RefreshToken(t) ==
    /\ phase # "down"
    /\ AuthMiddleware(t)
    /\ Issue
    /\ UNCHANGED <<now, phase, file, config, captured, drawn, req, pair, changedAt, broken>>

-----------------------------------------------------------------------------
(* Configuration requests. *)

fixed == <<now, phase, captured, drawn, tokens, pair, broken>>

\* ChangePassword verifies the old password against the shared config
ChangePassword(a, old, new) ==
    /\ phase # "down"
    /\ req[a].pc = "idle"
    /\ \E t \in tokens : AuthMiddleware(t)
    /\ old = config.password
    /\ req' = [req EXCEPT ![a] = [NoReq EXCEPT !.pc = "apply", !.new = new]]
    /\ UNCHANGED <<fixed, file, config, changedAt>>

\* and puts the new one there before the file is saved
ApplyPassword(a) ==
    /\ req[a].pc = "apply"
    /\ req' = [req EXCEPT ![a] = [@ EXCEPT !.pc = "marshal", !.acks = TRUE, !.old = Stored(config)]]
    /\ config' = [config EXCEPT !.password = req[a].new, !.changed = now]
    /\ UNCHANGED <<fixed, file, changedAt>>

\* the checks of UpdateMonitorConfig
ThresholdsValid(warning, critical) ==
    /\ {warning, critical} \subseteq 1..100
    /\ critical > warning

\* UpdateMonitorConfig
UpdateMonitorConfig(a, warning, critical) ==
    /\ phase # "down"
    /\ req[a].pc = "idle"
    /\ \E t \in tokens : AuthMiddleware(t)
    /\ ThresholdsValid(warning, critical)
    /\ config' = [config EXCEPT !.warning = warning, !.critical = critical]
    /\ req' = [req EXCEPT ![a] = [NoReq EXCEPT !.pc = "marshal"]]
    /\ UNCHANGED <<fixed, file, changedAt>>

\* saveConfig marshals the config, without the mutex
MarshalConfig(a) ==
    /\ req[a].pc = "marshal"
    /\ req' = [req EXCEPT ![a] = [@ EXCEPT !.pc = "open", !.data = Stored(config)]]
    /\ UNCHANGED <<fixed, file, config, changedAt>>

\* WriteFile truncates the file
OpenConfig(a) ==
    /\ req[a].pc = "open"
    /\ file' = Empty
    /\ req' = [req EXCEPT ![a].pc = "write"]
    /\ UNCHANGED <<fixed, config, changedAt>>

\* and writes it; the request is answered
WriteConfig(a) ==
    /\ req[a].pc = "write"
    /\ file' = req[a].data
    /\ changedAt' = IF req[a].acks THEN req[a].data.config.changed ELSE changedAt
    /\ req' = [req EXCEPT ![a] = NoReq]
    /\ UNCHANGED <<fixed, config>>

\* Faulty variant: what was put into the config stays there.
RollBack_Keep(a) == UNCHANGED config

\* a change of password is rolled back when it cannot be saved
RollBack(a) ==
    config' = IF req[a].acks
              THEN [config EXCEPT !.password = req[a].old.config.password, !.changed = req[a].old.config.changed]
              ELSE config

\* WriteFile fails before or after it truncated the file
SaveFails(a) ==
    /\ req[a].pc \in {"open", "write"}
    /\ RollBack(a)
    /\ req' = [req EXCEPT ![a] = NoReq]
    /\ UNCHANGED <<fixed, file, changedAt>>

Boot ==
    \/ LoadConfig \/ CreateCert \/ EncodeCert \/ CreateKey \/ EncodeKey
    \/ LoadTLSConfig \/ RefuseTLSConfig

ConfigRequest(a) ==
    \/ \E old, new \in Passwords : ChangePassword(a, old, new)
    \/ \E warning, critical \in Percents : UpdateMonitorConfig(a, warning, critical)
    \/ ApplyPassword(a) \/ MarshalConfig(a) \/ OpenConfig(a) \/ WriteConfig(a) \/ SaveFails(a)

Next ==
    \/ Boot
    \/ Stop
    \/ \E f \in {"cert", "key"} : RemoveFile(f)
    \/ Tick
    \/ \E password \in Passwords : Login(password)
    \/ \E t \in tokens : RefreshToken(t)
    \/ \E a \in Admins : ConfigRequest(a)

Spec == Init /\ [][Next]_vars

-----------------------------------------------------------------------------
(* Properties. *)

Phases == {"down", "loaded", "cert", "encoded", "key", "pair", "up"}

Configs == [password : Passwords \cup {Unset}, secret : Nat, changed : Nat, warning : Nat, critical : Nat]

Saved == [kind : {"config"}, config : Configs]

Files == {Absent, Empty} \cup Saved

Requests ==
    [pc : {"idle", "apply", "marshal", "open", "write"}, old : Files, data : Files,
     new : Passwords \cup {Unset}, acks : BOOLEAN]

\* Every variable has its type; a request that saves has what it will write.
TypeOK ==
    /\ now \in 1..MaxTime
    /\ phase \in Phases
    /\ file \in Files
    /\ config \in Configs
    /\ captured \in [password : Passwords \cup {Unset}, secret : Nat]
    /\ drawn \in 0..MaxSecret
    /\ tokens \subseteq [secret : 1..MaxSecret, iat : 1..MaxTime]
    /\ req \in [Admins -> Requests]
    /\ \A a \in Admins : req[a].pc \in {"open", "write"} => req[a].data \in Saved
    /\ pair \in [cert : Nat, key : Nat]
    /\ changedAt \in Nat /\ broken \in BOOLEAN

\* Whatever requests saved, whichever save failed or was cut short: the next
\* start loads the config file and Validate accepts it.
Bootable == file # Absent => Validate(Load(file))

\* Once a change of password is acknowledged, no token issued before it opens a
\* session again, across restarts and saves that fail (AuthMiddleware: "tokens
\* issued before the password change are rejected").
TokensRevoked ==
    \A t \in tokens : phase # "down" /\ AuthMiddleware(t) => t.iat >= changedAt

\* Between requests the config in memory, and the file unless a save emptied it,
\* hold the last change of password that was acknowledged, and no other.
AcknowledgedKept ==
    (\A a \in Admins : req[a].pc \in {"idle", "apply"}) =>
        /\ phase # "down" => config.changed = changedAt
        /\ file \notin {Absent, Empty} => file.config.changed = changedAt

\* A start that finds a pair it cannot load follows an end of the process while
\* it wrote one: nothing else, not the loss of a file either, leaves such a pair.
PairBreaksMidway == phase = "loaded" /\ PairExists /\ ~Matches => broken
=============================================================================
