-------------------------- MODULE OperationsProofs --------------------------
(***************************************************************************)
(* Theorems about the modules that run the service, for every value of     *)
(* their constants: Secrets, Containers, Sessions, BackupRestore,          *)
(* LoginLimiter, Boot, OSInstall and Scripts.  Each module's inductive     *)
(* invariant is preserved by its own steps and, since the modules share no *)
(* variable, by the steps of the others.                                   *)
(***************************************************************************)
EXTENDS MCOperations, Integers, SequenceTheorems, WellFoundedInduction, TLAPS

\* A step of the whole is a step, or none, of each module.
LEMMA StepsOfEach ==
    ASSUME [Next]_vars
    PROVE  /\ [Secret!Next]_secretVars
           /\ [Session!Next]_sessionVars
           /\ [Contain!Next]_containerVars
           /\ [Backup!Next]_backupVars
           /\ [Start!Next]_bootVars
           /\ [Limiter!Next]_limiterVars
           /\ [Install!Next]_installVars
           /\ [Script!Next]_scriptVars
<1>1. CASE Next
  BY <1>1 DEF Next, ScriptNext, SecretNext, BackupNext, BootNext, SessionNext, LimiterNext,
     InstallNext,
     ContainNext, scriptVars, secretVars, backupVars, bootVars, sessionVars, limiterVars, installVars, containerVars
<1>2. CASE UNCHANGED vars
  BY <1>2 DEF vars, scriptVars, secretVars, backupVars, bootVars, sessionVars, limiterVars,
     installVars, containerVars
<1> QED
  BY <1>1, <1>2

-----------------------------------------------------------------------------
(* Secrets. *)

\* Beside the types: the process works with the key of the file, every row is
\* sealed with it unless the file was replaced, and holds what was saved.
SecretInv ==
    /\ Secret!TypeOK
    /\ vault = "on" => aes = keyFile /\ aes # None
    /\ vault = "making" => keyFile = Short /\ aes # None
    /\ ~rotated => \A n \in SecretNames : secrets[n] # None => secrets[n].key = keyFile
    /\ \A n \in SecretNames :
          IF saved[n] = None THEN secrets[n] = None
          ELSE secrets[n] # None /\ secrets[n].value = saved[n]

LEMMA SecretStep ==
    ASSUME SecretInv, [Secret!Next]_secretVars
    PROVE  SecretInv'
<1>0. /\ Reserved \subseteq SecretNames /\ MaxKey \in Nat
      /\ Short \notin Values \cup Nat /\ None \notin Values \cup Nat
      /\ None \notin [key : Nat, value : Values]
  BY OperationsAssumption DEF Secret!Constants
<1>1. CASE Secret!Load
  BY <1>0, <1>1 DEF Secret!Load, Secret!KeyMissing, SecretInv, Secret!TypeOK
<1>2. CASE Secret!CreateKey
  BY <1>0, <1>2 DEF Secret!CreateKey, Secret!KeyMissing, SecretInv, Secret!TypeOK
<1>3. CASE Secret!WriteKey
  BY <1>0, <1>3 DEF Secret!WriteKey, SecretInv, Secret!TypeOK
<1>4. ASSUME NEW n \in SecretNames, NEW v \in Values, Secret!SetSecret(n, v)
      PROVE  SecretInv'
  <2>1. PICK s : s = Secret!Encrypt(v)
    OBVIOUS
  <2>2. /\ s \in [key : 1..lastKey, value : Values] /\ s # None
        /\ s.key = aes /\ s.value = v /\ v # None /\ aes = keyFile
    BY <1>0, <1>4, <2>1 DEF Secret!Encrypt, Secret!SetSecret, SecretInv, Secret!TypeOK
  <2>3. secrets' = [secrets EXCEPT ![n] = s] /\ saved' = [saved EXCEPT ![n] = v]
    BY <1>4, <2>1 DEF Secret!SetSecret
  <2> QED
    BY <1>0, <1>4, <2>2, <2>3 DEF Secret!SetSecret, Secret!ValidateSecretName, SecretInv,
       Secret!TypeOK
<1>5. ASSUME NEW n \in SecretNames, Secret!DeleteSecret(n)
      PROVE  SecretInv'
  BY <1>0, <1>5 DEF Secret!DeleteSecret, SecretInv, Secret!TypeOK
<1>6. CASE Secret!Execute
  <2>1. env' \subseteq [name : SecretNames, value : Values]
    BY <1>6 DEF Secret!Execute, Secret!EnvPairs, Secret!Decrypts, SecretInv, Secret!TypeOK
  <2> QED
    BY <1>6, <2>1 DEF Secret!Execute, SecretInv, Secret!TypeOK
<1>7. CASE Secret!Exit
  BY <1>0, <1>7 DEF Secret!Exit, SecretInv, Secret!TypeOK
<1>8. CASE Secret!RotateKey
  BY <1>0, <1>8 DEF Secret!RotateKey, SecretInv, Secret!TypeOK
<1>9. CASE UNCHANGED secretVars
  BY <1>9 DEF secretVars, SecretInv, Secret!TypeOK
<1> QED
  BY <1>1, <1>2, <1>3, <1>4, <1>5, <1>6, <1>7, <1>8, <1>9 DEF Secret!Next, Secret!Put,
     Secret!Delete

LEMMA SecretInit == Init => SecretInv
BY OperationsAssumption DEF Secret!Constants, Init, Secret!Init, SecretInv, Secret!TypeOK

\* SecretService: as long as nobody replaces the key file, an execution gets
\* every secret with the value last acknowledged, after any number of crashes,
\* also one between the creation of the key file and the write of the key.
THEOREM SavedSecretsDecrypt == Spec => []SecretsReadable
<1>1. SecretInv /\ [Next]_vars => SecretInv'
  BY SecretStep, StepsOfEach
<1>2. SecretInv => SecretsReadable
  BY DEF SecretInv, SecretsReadable, Secret!SecretsReadable, Secret!Decrypts
<1> QED
  BY SecretInit, <1>1, <1>2, PTL DEF Spec

-----------------------------------------------------------------------------
(* Containers. *)

ContainInv ==
    /\ Contain!TypeOK
    /\ Contain!MemoryBounded
    /\ overflow \in {IntMax, -IntMax - 1}

LEMMA ContainConstants ==
    /\ Numbers \subseteq Nat /\ Total \in Nat /\ IntMax \in Nat /\ MaxPid \in Nat
    /\ Kilo \in Nat /\ MinMemory \in Nat /\ MinMemory > 0 /\ Total < IntMax
BY OperationsAssumption DEF Contain!Constants

\* The two parses agree, and what they make of a limit is an int64.
LEMMA ParsesAgree ==
    ASSUME NEW l \in Contain!Limits, overflow \in {IntMax, -IntMax - 1}
    PROVE  /\ Contain!ParseMemoryLimit(l) = Contain!ParseMemLimit(l)
           /\ Contain!ParseMemLimit(l) # None =>
                 /\ Contain!ParseMemLimit(l) \in Int
                 /\ Contain!ParseMemLimit(l) <= IntMax
<1>1. l.num \in Nat /\ l.unit \in Contain!Units
  BY ContainConstants DEF Contain!Limits
<1>2. Contain!ParseMemoryLimit(l) = Contain!ParseMemLimit(l)
  BY DEF Contain!ParseMemoryLimit, Contain!ParseMemLimit
<1>3. CASE l.unit = "plain"
  BY <1>1, <1>2, <1>3, ContainConstants DEF Contain!ParseMemLimit
<1>4. CASE l.unit \in {"k", "m", "g"}
  <2>1. Contain!Multiplier(l.unit) \in Nat
    BY <1>4, ContainConstants DEF Contain!Multiplier
  <2>2. PICK x : x = l.num * Contain!Multiplier(l.unit)
    OBVIOUS
  <2>3. x \in Nat
    BY <1>1, <2>1, <2>2
  <2>4. Contain!ToInt64(x) \in Int /\ Contain!ToInt64(x) <= IntMax
    BY <2>3, ContainConstants DEF Contain!ToInt64
  <2>5. Contain!ParseMemLimit(l) = Contain!ToInt64(x)
    BY <1>4, <2>2 DEF Contain!ParseMemLimit
  <2> QED
    BY <1>2, <2>4, <2>5
<1>5. CASE l.unit = "other"
  BY <1>2, <1>5 DEF Contain!ParseMemLimit
<1> QED
  BY <1>1, <1>3, <1>4, <1>5 DEF Contain!Units

\* The limit that was checked is the one that the daemon is given.
LEMMA AcceptedMemory ==
    ASSUME ContainInv, NEW l \in Contain!Limits \cup {None}, Contain!LimitAccepted(l),
           Contain!HostMemory(l) = 0 \/ Contain!HostMemory(l) >= MinMemory
    PROVE  /\ Contain!HostMemory(l) \in 0..IntMax
           /\ totalMemBytes # 0 => Contain!HostMemory(l) <= Total
<1>1. CASE l = None
  BY <1>1, ContainConstants DEF Contain!HostMemory
<1>2. CASE l # None
  <2>1. /\ Contain!HostMemory(l) = Contain!ParseMemLimit(l)
        /\ Contain!ParseMemLimit(l) # None
        /\ totalMemBytes = 0 \/ Contain!ParseMemLimit(l) <= totalMemBytes
        /\ totalMemBytes \in {0, Total}
    BY <1>2, ParsesAgree DEF Contain!HostMemory, Contain!LimitAccepted, ContainInv,
       Contain!TypeOK
  <2>2. Contain!HostMemory(l) \in Int /\ Contain!HostMemory(l) <= IntMax
    BY <1>2, <2>1, ParsesAgree DEF ContainInv
  <2> QED
    BY <2>1, <2>2, ContainConstants
<1> QED
  BY <1>1, <1>2

LEMMA ContainStep ==
    ASSUME ContainInv, [Contain!Next]_containerVars
    PROVE  ContainInv'
<1> DEFINE Rec == [status : {"created", "running", "exited"}, image : Images,
                   memory : 0..IntMax]
           Rest == <<images, serving, pids, available, totalMemBytes, pulls, overflow>>
<1>0. /\ containers \in [Containers -> {None} \cup Rec]
      /\ Contain!TypeOK /\ Contain!MemoryBounded /\ overflow \in {IntMax, -IntMax - 1}
      /\ totalMemBytes \in {0, Total} /\ blind \in BOOLEAN /\ daemon \in BOOLEAN
  BY DEF ContainInv, Contain!TypeOK
<1>1. CASE Contain!StartProcess
  BY <1>0, <1>1, ContainConstants DEF Contain!StartProcess, Contain!ReadSystemMemoryBytes,
     ContainInv, Contain!TypeOK, Contain!MemoryBounded
<1>2. CASE Contain!StopProcess
  BY <1>0, <1>2 DEF Contain!StopProcess, ContainInv, Contain!TypeOK, Contain!MemoryBounded
\* The daemon's containers keep their image and their memory.
<1>3. ASSUME containers' \in [Containers -> {None} \cup Rec], UNCHANGED <<blind, Rest>>,
             daemon' \in BOOLEAN,
             \A n \in Containers : containers'[n] # None =>
                 containers[n] # None /\ containers'[n].memory = containers[n].memory
      PROVE  ContainInv'
  BY <1>0, <1>3 DEF ContainInv, Contain!TypeOK, Contain!MemoryBounded
<1>4. ASSUME NEW n \in Containers, NEW from, NEW to \in {"created", "running", "exited"},
             Contain!SetStatus(n, from, to)
      PROVE  ContainInv'
  <2>1. containers[n] \in Rec
    BY <1>0, <1>4 DEF Contain!SetStatus
  <2>2. PICK r : r = [containers[n] EXCEPT !.status = to]
    OBVIOUS
  <2>3. r \in Rec /\ r.memory = containers[n].memory
    BY <2>1, <2>2
  <2>4. containers' = [containers EXCEPT ![n] = r]
    BY <1>4, <2>2 DEF Contain!SetStatus
  <2>5. containers' \in [Containers -> {None} \cup Rec]
    BY <1>0, <2>3, <2>4
  <2>6. \A m \in Containers : containers'[m] # None =>
            containers[m] # None /\ containers'[m].memory = containers[m].memory
    BY <1>0, <1>4, <2>3, <2>4 DEF Contain!SetStatus
  <2> QED
    BY <1>0, <1>3, <1>4, <2>5, <2>6 DEF Contain!SetStatus
<1>5. ASSUME NEW n \in Containers, Contain!Remove(n)
      PROVE  ContainInv'
  <2>1. containers' \in [Containers -> {None} \cup Rec]
    BY <1>0, <1>5 DEF Contain!Remove
  <2>2. \A m \in Containers : containers'[m] # None => containers'[m] = containers[m]
    BY <1>0, <1>5 DEF Contain!Remove
  <2> QED
    BY <1>0, <1>3, <1>5, <2>1, <2>2 DEF Contain!Remove
<1>6. CASE Contain!DaemonTurns
  <2>1. ASSUME NEW n \in Containers
        PROVE  /\ containers'[n] \in {None} \cup Rec
               /\ containers'[n] # None =>
                    containers[n] # None /\ containers'[n].memory = containers[n].memory
    <3>1. CASE containers[n] = None \/ ~daemon
      <4>1. containers'[n] = containers[n]
        BY <1>6, <3>1 DEF Contain!DaemonTurns
      <4> QED
        BY <1>0, <4>1
    <3>2. CASE ~(containers[n] = None \/ ~daemon)
      <4>1. containers'[n] = [containers[n] EXCEPT !.status = IF @ = "running" THEN "exited"
                                                               ELSE @]
        BY <1>6, <3>2 DEF Contain!DaemonTurns
      <4>2. containers[n] \in Rec
        BY <1>0, <3>2
      <4> QED
        BY <3>2, <4>1, <4>2
    <3> QED
      BY <3>1, <3>2
  <2>2. containers' \in [Containers -> {None} \cup Rec]
    <3>1. containers' = [n \in Containers |-> containers'[n]]
      BY <1>6 DEF Contain!DaemonTurns
    <3> QED
      BY <2>1, <3>1
  <2>3. daemon' \in BOOLEAN /\ UNCHANGED <<blind, Rest>>
    BY <1>0, <1>6 DEF Contain!DaemonTurns
  <2> QED
    BY <1>3, <2>1, <2>2, <2>3
<1>7. CASE Contain!HandleContainerCreate
  <2>1. PICK n \in Containers, i \in Images, l \in Contain!Limits \cup {None},
             volumes \in {{}, {"/data"}} :
                Contain!CheckDocker /\ Contain!LimitAccepted(l) /\ Contain!Create(n, i, l, volumes)
    BY <1>7 DEF Contain!HandleContainerCreate
  <2>2. PICK mem : mem = Contain!HostMemory(l)
    OBVIOUS
  <2>3. mem \in 0..IntMax /\ (totalMemBytes # 0 => mem <= Total)
    BY <2>1, <2>2, AcceptedMemory DEF Contain!Create, Contain!DaemonCreates
  <2>4. PICK r : r = [status |-> "created", image |-> i, memory |-> mem]
    OBVIOUS
  <2>5. r \in Rec /\ r.memory = mem
    BY <2>3, <2>4
  <2>6. containers' = [containers EXCEPT ![n] = r]
    BY <2>1, <2>2, <2>4 DEF Contain!Create
  <2>7. /\ blind' = (blind \/ totalMemBytes = 0)
        /\ UNCHANGED <<daemon, images, serving, pids, available, totalMemBytes, pulls, overflow>>
    BY <2>1 DEF Contain!Create
  <2>8. containers' \in [Containers -> {None} \cup Rec]
    BY <1>0, <2>5, <2>6
  <2>9. Contain!MemoryBounded'
    BY <1>0, <2>3, <2>5, <2>6, <2>7 DEF Contain!MemoryBounded
  <2>10. Contain!TypeOK'
    BY <1>0, <2>7, <2>8 DEF Contain!TypeOK
  <2> QED
    BY <1>0, <2>7, <2>9, <2>10 DEF ContainInv
<1>8. ASSUME NEW i \in Images, Contain!ImagePull(i) \/ Contain!PullEnds(i) \/ Contain!ImageDelete(i)
      PROVE  ContainInv'
  BY <1>0, <1>8 DEF Contain!ImagePull, Contain!PullEnds, Contain!ImageDelete, ContainInv,
     Contain!TypeOK, Contain!MemoryBounded
<1>9. CASE UNCHANGED containerVars
  BY <1>0, <1>9 DEF containerVars, ContainInv, Contain!TypeOK, Contain!MemoryBounded
<1>10. CASE Contain!HandleContainerStart \/ Contain!HandleContainerStop \/ Contain!HandleContainerRestart
            \/ \E n \in Containers : Contain!ContainerExits(n)
  BY <1>4, <1>10 DEF Contain!HandleContainerStart, Contain!HandleContainerStop,
     Contain!HandleContainerRestart, Contain!ContainerExits, Contain!Start, Contain!Stop,
     Contain!Restart
<1>11. CASE Contain!HandleContainerDelete \/ Contain!HandleImagePull \/ Contain!HandleImageDelete
            \/ \E i \in Images : Contain!PullEnds(i)
  BY <1>5, <1>8, <1>11 DEF Contain!HandleContainerDelete, Contain!HandleImagePull,
     Contain!HandleImageDelete
<1> QED
  BY <1>1, <1>2, <1>6, <1>7, <1>9, <1>10, <1>11 DEF Contain!Next

LEMMA ContainInit == Init => ContainInv
<1> SUFFICES ASSUME Contain!Init PROVE ContainInv
  BY DEF Init
<1>1. pids \in 0..MaxPid
  BY ContainConstants DEF Contain!Init
<1>2. {daemon, serving, available, blind} \subseteq BOOLEAN
  BY Zenon DEF Contain!Init
<1> QED
  BY <1>1, <1>2 DEF Contain!Init, ContainInv, Contain!TypeOK, Contain!MemoryBounded

\* HandleContainerCreate checks one parse of the limit and Create sets another:
\* as long as the size of the memory was known, no container has more of it
\* than there is, whatever the limit said and the conversion to int64 made of
\* it, on any platform.
THEOREM MemoryStaysBounded == Spec => []MemoryBounded
<1>1. ContainInv /\ [Next]_vars => ContainInv'
  BY ContainStep, StepsOfEach
<1>2. ContainInv => MemoryBounded
  BY DEF ContainInv, MemoryBounded
<1> QED
  BY ContainInit, <1>1, <1>2, PTL DEF Spec

-----------------------------------------------------------------------------
(* Sessions. *)

\* Requests between the change of the config and the answer.
Saving(r) == r.pc \in {"marshal", "open", "write"}

\* saveConfig runs for one request at a time.
OneSaves == \A a, b \in Admins : Saving(req[a]) /\ Saving(req[b]) => a = b

\* A config that a start accepts, whose secret was drawn.
Sound(c) == Session!Validate(c) /\ c.secret \in 0..drawn

\* What a request will write is the config; what it would roll back to is the
\* last change that was acknowledged.
RequestHolds(r) ==
    /\ r.pc \in {"open", "write"} =>
          r.data \in Session!Saved /\ Sound(r.data.config)
          /\ r.data.config.changed = config.changed
    /\ Saving(r) /\ r.acks => r.old \in Session!Saved /\ r.old.config.changed = changedAt

\* The config in memory is ahead of the last change acknowledged only while a
\* change is being saved, and the file never is.
ChangesHold ==
    /\ config.changed \in 0..now /\ changedAt \in 0..now
    /\ Sound(config)
    /\ phase # "down" => config.changed >= changedAt
    /\ phase # "down" /\ (\A a \in Admins : ~(Saving(req[a]) /\ req[a].acks))
          => config.changed = changedAt
    /\ file = Session!Absent => changedAt = 0 /\ phase = "down"
    /\ file \notin {Session!Absent, Session!Empty} =>
          file \in Session!Saved /\ Sound(file.config) /\ file.config.changed = changedAt

\* The pair is whole, or one of its files is missing, unless it was left
\* unfinished or is being written.
PairHolds ==
    /\ phase # "down" => drawn >= 1 /\ captured.secret \in 1..drawn
    /\ ~broken /\ phase \notin {"cert", "encoded", "key"} => ~Session!PairExists \/ Session!Matches
    /\ phase \in {"encoded", "key"} => pair.cert = drawn + 1
    /\ phase = "pair" => pair.cert = drawn + 1 /\ pair.key = drawn + 1

SessionInv ==
    /\ Session!TypeOK
    /\ phase = "down" => \A a \in Admins : req[a] = Session!NoReq
    /\ \A a \in Admins : RequestHolds(req[a])
    /\ ChangesHold
    /\ PairHolds

LEMMA SessionConstants ==
    /\ Admin \in Passwords /\ 0 \notin Passwords /\ Percents \subseteq Nat
    /\ SessionTime \in Nat /\ MaxTime \in Nat /\ MaxSecret \in Nat /\ MaxTokens \in Nat
    /\ MaxTime # 0
BY OperationsAssumption DEF Session!Constants

\* The parts of the types that the steps use.
LEMMA SessionTypes ==
    ASSUME SessionInv
    PROVE  /\ now \in 1..MaxTime /\ now \in Nat /\ phase \in Session!Phases
           /\ file \in Session!Files /\ config \in Session!Configs
           /\ captured \in [password : Passwords \cup {0}, secret : Nat]
           /\ drawn \in 0..MaxSecret /\ drawn \in Nat
           /\ tokens \subseteq [secret : 1..MaxSecret, iat : 1..MaxTime]
           /\ req \in [Admins -> Session!Requests]
           /\ \A a \in Admins : req[a].pc \in {"open", "write"} => req[a].data \in Session!Saved
           /\ pair \in [cert : Nat, key : Nat]
           /\ changedAt \in Nat /\ broken \in BOOLEAN
BY SessionConstants DEF SessionInv, Session!TypeOK, Session!Unset

LEMMA RecordTypes ==
    /\ Session!NoReq \in Session!Requests
    /\ \A s \in 0..drawn + 1 : drawn \in Nat => Session!DefaultConfig(s) \in Session!Configs
    /\ \A c \in Session!Configs : Session!Stored(c) \in Session!Saved /\ Session!Stored(c).config = c
    /\ Session!Saved \subseteq Session!Files
    /\ Session!Absent \notin Session!Saved /\ Session!Empty \notin Session!Saved
    /\ Session!Absent # Session!Empty
<1>1. Session!Absent \in Session!Files
  BY DEF Session!Files
<1>2. Session!NoReq \in Session!Requests
  BY <1>1 DEF Session!NoReq, Session!Requests, Session!Unset
<1>3. \A s \in 0..drawn + 1 : drawn \in Nat => Session!DefaultConfig(s) \in Session!Configs
  BY SessionConstants DEF Session!DefaultConfig, Session!Configs, Session!Unset
<1>4. \A c \in Session!Configs : Session!Stored(c) \in Session!Saved /\ Session!Stored(c).config = c
  BY DEF Session!Stored, Session!Saved
<1>5. Session!Saved \subseteq Session!Files
  BY DEF Session!Files
<1>6. ASSUME NEW f \in Session!Saved PROVE f.kind = "config"
  BY DEF Session!Saved
<1>7. Session!Absent.kind = "absent" /\ Session!Empty.kind = "empty"
  BY DEF Session!Absent, Session!Empty
<1> QED
  BY <1>2, <1>3, <1>4, <1>5, <1>6, <1>7

\* EnsureJWTSecret and EnsurePasswordHash complete a config and change nothing else.
LEMMA EnsureCompletes ==
    ASSUME drawn \in Nat, NEW c \in Session!Configs, c.secret \in 0..drawn + 1, NEW e,
           e = Session!EnsurePasswordHash(Session!EnsureJWTSecret(c))
    PROVE  /\ e \in Session!Configs /\ e.secret \in 1..drawn + 1 /\ e.changed = c.changed
           /\ e.warning = c.warning /\ e.critical = c.critical
<1>1. PICK d : d = Session!EnsureJWTSecret(c)
  OBVIOUS
<1>2. /\ d \in Session!Configs /\ d.secret \in 1..drawn + 1 /\ d.changed = c.changed
      /\ d.warning = c.warning /\ d.critical = c.critical
  BY <1>1 DEF Session!EnsureJWTSecret, Session!FreshSecret, Session!Configs, Session!Unset
<1>3. e = Session!EnsurePasswordHash(d)
  BY <1>1
<1> QED
  BY <1>2, <1>3, SessionConstants DEF Session!EnsurePasswordHash, Session!Configs, Session!Unset

\* Load gives a config with a secret of its own, and the file's time of the last
\* change of password.
LEMMA LoadGives ==
    ASSUME drawn \in Nat, NEW f, NEW e, e = Session!Load(f),
           f = Session!Empty \/ (f \in Session!Saved /\ Sound(f.config))
    PROVE  /\ e \in Session!Configs /\ e.secret \in 1..drawn + 1 /\ Session!Validate(e)
           /\ e.changed = IF f = Session!Empty THEN 0 ELSE f.config.changed
<1>1. PICK c : c = Session!Unmarshal(f)
  OBVIOUS
<1>2. e = Session!EnsurePasswordHash(Session!EnsureJWTSecret(c))
  BY <1>1 DEF Session!Load
<1>3. /\ c \in Session!Configs /\ c.secret \in 0..drawn + 1 /\ Session!Validate(c)
      /\ c.changed = IF f = Session!Empty THEN 0 ELSE f.config.changed
  <2>1. CASE f = Session!Empty
    <3>1. c = Session!DefaultConfig(drawn + 1)
      BY <1>1, <2>1 DEF Session!Unmarshal, Session!FreshSecret
    <3>2. c \in Session!Configs
      BY <3>1, RecordTypes
    <3> QED
      BY <2>1, <3>1, <3>2 DEF Session!DefaultConfig, Session!Validate, Session!Unset
  <2>2. CASE f # Session!Empty
    <3>1. c = f.config
      BY <1>1, <2>2 DEF Session!Unmarshal
    <3>2. f.config \in Session!Configs
      BY <2>2 DEF Session!Saved
    <3> QED
      BY <2>2, <3>1, <3>2 DEF Sound
  <2> QED
    BY <2>1, <2>2
<1>4. /\ e \in Session!Configs /\ e.secret \in 1..drawn + 1 /\ e.changed = c.changed
      /\ e.warning = c.warning /\ e.critical = c.critical
  BY <1>2, <1>3, EnsureCompletes
<1> QED
  BY <1>3, <1>4 DEF Session!Validate

LEMMA LoadConfigStep ==
    ASSUME SessionInv, Session!LoadConfig
    PROVE  SessionInv'
<1>0. /\ drawn \in Nat /\ drawn < MaxSecret /\ MaxSecret \in Nat /\ phase = "down"
      /\ now \in Nat /\ now \in 1..MaxTime
      /\ file \in Session!Files /\ changedAt \in 0..now
      /\ req \in [Admins -> Session!Requests]
      /\ \A a \in Admins : req[a] = Session!NoReq
  BY SessionTypes, SessionConstants DEF Session!LoadConfig, SessionInv, ChangesHold
<1>1. PICK f : f = IF file = Session!Absent THEN Session!GenerateDefault ELSE file
  OBVIOUS
<1>2. PICK c : c = Session!Load(f)
  OBVIOUS
<1>3. /\ file' = f /\ config' = c /\ drawn' = drawn + 1 /\ phase' = "loaded"
      /\ captured' = [password |-> c.password, secret |-> c.secret]
      /\ changedAt' = IF file = Session!Empty THEN 0 ELSE changedAt
      /\ UNCHANGED <<now, tokens, req, pair, broken>>
  BY <1>1, <1>2 DEF Session!LoadConfig, Session!FreshSecret, Session!Unset
\* The file that is loaded, with what is needed of it before and after the step.
<1>4. /\ f = Session!Empty \/ f \in Session!Saved
      /\ f # Session!Absent
      /\ f \in Session!Saved => /\ f.config \in Session!Configs
                                /\ Session!Validate(f.config) /\ f.config.secret \in 0..drawn + 1
                                /\ f.config.changed = changedAt'
      /\ f = Session!Empty => file = Session!Empty
      /\ file # Session!Absent /\ f \in Session!Saved => Sound(f.config)
  <2>1. CASE file = Session!Absent
    <3>1. PICK d : d = Session!DefaultConfig(drawn + 1)
      OBVIOUS
    <3>2. /\ d \in Session!Configs /\ d.changed = 0 /\ d.secret = drawn + 1
          /\ Session!Validate(d)
      BY <1>0, <3>1, RecordTypes DEF Session!DefaultConfig, Session!Validate, Session!Unset
    <3>3. f = Session!Stored(d)
      BY <1>1, <2>1, <3>1 DEF Session!GenerateDefault, Session!FreshSecret
    <3>4. f \in Session!Saved /\ f.config = d
      BY <3>2, <3>3, RecordTypes
    <3>5. changedAt' = 0
      BY <1>3, <2>1, RecordTypes DEF SessionInv, ChangesHold
    <3> QED
      BY <1>0, <2>1, <3>2, <3>4, <3>5, RecordTypes
  <2>2. CASE file = Session!Empty
    BY <1>1, <2>2, RecordTypes
  <2>3. CASE file \notin {Session!Absent, Session!Empty}
    <3>1. /\ f = file /\ f \in Session!Saved /\ Sound(f.config) /\ f.config.changed = changedAt
          /\ changedAt' = changedAt
      BY <1>1, <1>3, <2>3 DEF SessionInv, ChangesHold
    <3>2. f.config \in Session!Configs
      BY <3>1 DEF Session!Saved
    <3> QED
      BY <1>0, <2>3, <3>1, <3>2, RecordTypes DEF Sound
  <2> QED
    BY <2>1, <2>2, <2>3
<1>5. /\ c \in Session!Configs /\ c.secret \in 1..drawn + 1 /\ Session!Validate(c)
      /\ c.changed = changedAt'
  <2>1. CASE f = Session!Empty
    <3>1. changedAt' = 0
      BY <1>3, <1>4, <2>1
    <3> QED
      BY <1>0, <1>2, <2>1, <3>1, LoadGives
  <2>2. CASE f # Session!Empty
    <3>1. f.config \in Session!Configs /\ f.config.secret \in 0..drawn + 1
          /\ Session!Validate(f.config) /\ f.config.changed = changedAt'
      BY <1>4, <2>2
    <3>2. c = Session!EnsurePasswordHash(Session!EnsureJWTSecret(f.config))
      BY <1>2, <2>2 DEF Session!Load, Session!Unmarshal
    <3>3. /\ c \in Session!Configs /\ c.secret \in 1..drawn + 1 /\ c.changed = f.config.changed
          /\ c.warning = f.config.warning /\ c.critical = f.config.critical
      BY <1>0, <3>1, <3>2, EnsureCompletes
    <3> QED
      BY <3>1, <3>3 DEF Session!Validate
  <2> QED
    BY <2>1, <2>2
<1>6. Session!TypeOK'
  <2>1. /\ captured' \in [password : Passwords \cup {0}, secret : Nat]
        /\ config' \in Session!Configs /\ drawn' \in 0..MaxSecret /\ file' \in Session!Files
        /\ phase' \in Session!Phases /\ changedAt' \in Nat
    BY <1>0, <1>3, <1>4, <1>5, RecordTypes DEF Session!Configs, Session!Files, Session!Unset,
       Session!Phases
  <2> QED
    BY <1>3, <2>1, SessionTypes DEF Session!TypeOK, Session!Unset
<1>7. \A a \in Admins : req'[a].pc = "idle"
  BY <1>0, <1>3 DEF Session!NoReq
<1>8. \A a \in Admins : RequestHolds(req[a])'
  BY <1>7 DEF RequestHolds, Saving
<1>9. ChangesHold'
  <2>1. changedAt' \in 0..now'
    BY <1>0, <1>3
  <2>2. Sound(config)'
    BY <1>0, <1>3, <1>5 DEF Sound
  <2>3. file' # Session!Absent /\ (file' \notin {Session!Absent, Session!Empty} =>
          file' \in Session!Saved /\ Sound(file.config)' /\ file'.config.changed = changedAt')
    BY <1>0, <1>3, <1>4 DEF Sound
  <2>4. config'.changed = changedAt' /\ changedAt' \in Nat
    BY <1>3, <1>5, <2>1, <1>0
  <2> QED
    BY <2>1, <2>2, <2>3, <2>4 DEF ChangesHold
<1>10. PairHolds'
  BY <1>0, <1>3, <1>5 DEF PairHolds, SessionInv, Session!PairExists, Session!Matches,
     Session!Missing, Session!Blank
<1> QED
  BY <1>3, <1>6, <1>8, <1>9, <1>10 DEF SessionInv

\* A step that leaves the config, the file and the requests alone.
LEMMA OtherStep ==
    ASSUME SessionInv, UNCHANGED <<file, config, captured, drawn, req, changedAt>>,
           now' \in 1..MaxTime, now' >= now, phase' \in Session!Phases,
           phase' = "down" <=> phase = "down",
           tokens' \subseteq [secret : 1..MaxSecret, iat : 1..MaxTime],
           pair' \in [cert : Nat, key : Nat], broken' = broken,
           PairHolds'
    PROVE  SessionInv'
<1>1. Session!TypeOK'
  BY DEF SessionInv, Session!TypeOK
<1>2. \A a \in Admins : RequestHolds(req[a])'
  BY DEF SessionInv, RequestHolds, Sound, Saving
<1>3. ChangesHold'
  <2>1. now \in Nat /\ now' \in Nat /\ now' >= now
    BY SessionTypes, SessionConstants
  <2>2. config'.changed \in 0..now' /\ changedAt' \in 0..now'
    BY <2>1 DEF SessionInv, ChangesHold
  <2> QED
    BY <2>2 DEF SessionInv, ChangesHold, Sound, Saving
<1> QED
  BY <1>1, <1>2, <1>3 DEF SessionInv

\* The process ends.
LEMMA EndsStep ==
    ASSUME SessionInv, Session!Ends, UNCHANGED <<now, file, drawn, tokens, pair, changedAt>>,
           phase # "down", broken' \in BOOLEAN,
           ~broken' => ~Session!PairExists \/ Session!Matches
    PROVE  SessionInv'
<1>1. /\ phase' = "down" /\ req' = [a \in Admins |-> Session!NoReq]
      /\ config' = Session!DefaultConfig(0)
      /\ captured' = [password |-> 0, secret |-> 0]
  BY DEF Session!Ends, Session!Unset
<1>2. drawn \in Nat /\ config' \in Session!Configs /\ now \in Nat
  BY <1>1, SessionTypes, RecordTypes
<1>3. Session!TypeOK'
  <2>1. captured' \in [password : Passwords \cup {0}, secret : Nat] /\ phase' \in Session!Phases
    BY <1>1 DEF Session!Phases
  <2>2. req' \in [Admins -> Session!Requests] /\ \A a \in Admins : req'[a].pc = "idle"
    BY <1>1, RecordTypes DEF Session!NoReq
  <2> QED
    BY <1>2, <2>1, <2>2, SessionTypes DEF Session!TypeOK, Session!Unset
<1>4. \A a \in Admins : RequestHolds(req[a])'
  BY <1>1 DEF RequestHolds, Saving, Session!NoReq
<1>5. ChangesHold'
  <2>1. config'.changed = 0 /\ Sound(config)'
    BY <1>1, <1>2 DEF Session!DefaultConfig, Sound, Session!Validate, Session!Unset
  <2>2. file' # Session!Absent
    BY DEF SessionInv, ChangesHold
  <2> QED
    BY <1>1, <1>2, <2>1, <2>2 DEF SessionInv, ChangesHold, Sound
<1>6. PairHolds'
  BY <1>1 DEF PairHolds, Session!PairExists, Session!Matches
<1> QED
  BY <1>1, <1>3, <1>4, <1>5, <1>6 DEF SessionInv

\* EnsureTLSCert, LoadTLSConfig, the end of the process, the clock and tokens.
LEMMA ProcessStep ==
    ASSUME SessionInv,
           \/ Session!CreateCert \/ Session!EncodeCert \/ Session!CreateKey
           \/ Session!EncodeKey \/ Session!LoadTLSConfig \/ Session!RefuseTLSConfig
           \/ Session!Stop \/ Session!Tick
           \/ \E f \in {"cert", "key"} : Session!RemoveFile(f)
           \/ \E password \in Passwords : Session!Login(password)
           \/ \E t \in tokens : Session!RefreshToken(t)
    PROVE  SessionInv'
<1>0. /\ now \in 1..MaxTime /\ now \in Nat /\ MaxTime \in Nat /\ drawn \in Nat
      /\ drawn \in 0..MaxSecret /\ MaxSecret \in Nat
      /\ tokens \subseteq [secret : 1..MaxSecret, iat : 1..MaxTime]
      /\ pair \in [cert : Nat, key : Nat] /\ broken \in BOOLEAN /\ phase \in Session!Phases
      /\ PairHolds
  BY SessionTypes, SessionConstants DEF SessionInv
<1>1. CASE Session!CreateCert
  <2>1. pair' = [pair EXCEPT !.cert = 1] /\ phase = "loaded" /\ phase' = "cert"
    BY <1>1 DEF Session!CreateCert, Session!Blank
  <2>2. pair' \in [cert : Nat, key : Nat] /\ phase' \in Session!Phases
    BY <1>0, <2>1 DEF Session!Phases
  <2>3. PairHolds'
    BY <1>0, <1>1, <2>1 DEF PairHolds, Session!CreateCert
  <2> QED
    BY <1>0, <1>1, <2>1, <2>2, <2>3, OtherStep DEF Session!CreateCert
<1>2. CASE Session!EncodeCert
  <2>1. pair' = [pair EXCEPT !.cert = drawn + 1] /\ phase = "cert" /\ phase' = "encoded"
    BY <1>2 DEF Session!EncodeCert, Session!Generation
  <2>2. pair' \in [cert : Nat, key : Nat] /\ phase' \in Session!Phases
    BY <1>0, <2>1 DEF Session!Phases
  <2>3. PairHolds'
    BY <1>0, <1>2, <2>1 DEF PairHolds, Session!EncodeCert
  <2> QED
    BY <1>0, <1>2, <2>1, <2>2, <2>3, OtherStep DEF Session!EncodeCert
<1>3. CASE Session!CreateKey
  <2>1. pair' = [pair EXCEPT !.key = 1] /\ phase = "encoded" /\ phase' = "key"
    BY <1>3 DEF Session!CreateKey, Session!Blank
  <2>2. pair' \in [cert : Nat, key : Nat] /\ phase' \in Session!Phases
    BY <1>0, <2>1 DEF Session!Phases
  <2>3. PairHolds'
    BY <1>0, <1>3, <2>1 DEF PairHolds, Session!CreateKey
  <2> QED
    BY <1>0, <1>3, <2>1, <2>2, <2>3, OtherStep DEF Session!CreateKey
<1>4. CASE Session!EncodeKey
  <2>1. pair' = [pair EXCEPT !.key = drawn + 1] /\ phase = "key" /\ phase' = "pair"
    BY <1>4 DEF Session!EncodeKey, Session!Generation
  <2>2. pair' \in [cert : Nat, key : Nat] /\ phase' \in Session!Phases
    BY <1>0, <2>1 DEF Session!Phases
  <2>3. PairHolds'
    BY <1>0, <1>4, <2>1 DEF PairHolds, Session!EncodeKey, Session!Matches, Session!Missing,
       Session!Blank
  <2> QED
    BY <1>0, <1>4, <2>1, <2>2, <2>3, OtherStep DEF Session!EncodeKey
<1>5. CASE Session!LoadTLSConfig
  <2>1. phase \in {"pair", "loaded"} /\ phase' = "up" /\ phase' \in Session!Phases
    BY <1>5 DEF Session!LoadTLSConfig, Session!Phases
  <2>2. PairHolds'
    BY <1>0, <1>5, <2>1 DEF PairHolds, Session!LoadTLSConfig, Session!Matches
  <2> QED
    BY <1>0, <1>5, <2>1, <2>2, OtherStep DEF Session!LoadTLSConfig
<1>6. CASE Session!RefuseTLSConfig
  <2>1. phase \in {"pair", "loaded"} /\ ~Session!Matches /\ Session!PairExists
    BY <1>0, <1>6 DEF Session!RefuseTLSConfig, PairHolds, Session!PairExists, Session!Missing
  <2>2. broken
    BY <1>0, <2>1 DEF PairHolds
  <2> QED
    BY <1>0, <1>6, <2>1, <2>2, EndsStep DEF Session!RefuseTLSConfig
<1>7. CASE Session!Stop
  <2>1. phase # "down" /\ broken' = (broken \/ phase \in {"cert", "encoded", "key"})
    BY <1>7 DEF Session!Stop
  <2>2. ~broken' => ~Session!PairExists \/ Session!Matches
    BY <1>0, <2>1 DEF PairHolds
  <2>3. broken' \in BOOLEAN
    BY <2>1
  <2> QED
    BY <1>7, <2>1, <2>2, <2>3, EndsStep DEF Session!Stop
<1>8. CASE Session!Tick
  <2>1. now' \in 1..MaxTime /\ now' >= now
    BY <1>0, <1>8 DEF Session!Tick
  <2>2. PairHolds'
    BY <1>0, <1>8 DEF Session!Tick, PairHolds, Session!PairExists, Session!Matches
  <2> QED
    BY <1>0, <1>8, <2>1, <2>2, OtherStep DEF Session!Tick
<1>9. ASSUME NEW f \in {"cert", "key"}, Session!RemoveFile(f)
      PROVE  SessionInv'
  <2>1. phase = "down" /\ phase' = phase /\ drawn' = drawn /\ captured' = captured
        /\ broken' = broken /\ pair' = [pair EXCEPT ![f] = 0]
    BY <1>9 DEF Session!RemoveFile, Session!Missing
  <2>2. pair' \in [cert : Nat, key : Nat] /\ (pair'.cert = 0 \/ pair'.key = 0)
    BY <1>0, <2>1
  <2>3. PairHolds'
    BY <2>1, <2>2 DEF PairHolds, Session!PairExists, Session!Missing
  <2> QED
    BY <1>0, <1>9, <2>1, <2>2, <2>3, OtherStep DEF Session!RemoveFile
<1>10. ASSUME Session!Issue, phase # "down",
              UNCHANGED <<now, phase, file, config, captured, drawn, req, pair, changedAt, broken>>
       PROVE  SessionInv'
  <2>1. captured.secret \in 1..MaxSecret
    BY <1>0, <1>10 DEF PairHolds
  <2>2. [secret |-> captured.secret, iat |-> now] \in [secret : 1..MaxSecret, iat : 1..MaxTime]
    BY <1>0, <2>1
  <2>3. tokens' \subseteq [secret : 1..MaxSecret, iat : 1..MaxTime]
    BY <1>0, <1>10, <2>2 DEF Session!Issue
  <2>4. PairHolds'
    BY <1>0, <1>10 DEF PairHolds, Session!PairExists, Session!Matches
  <2> QED
    BY <1>0, <1>10, <2>3, <2>4, OtherStep
<1>11. ASSUME \/ \E password \in Passwords : Session!Login(password)
              \/ \E t \in tokens : Session!RefreshToken(t)
       PROVE  SessionInv'
  BY <1>10, <1>11 DEF Session!Login, Session!RefreshToken
<1> QED
  BY <1>1, <1>2, <1>3, <1>4, <1>5, <1>6, <1>7, <1>8, <1>9, <1>11

\* A step of a configuration request, once the config, the file and the request
\* hold together after it.
LEMMA RequestStep ==
    ASSUME SessionInv, NEW a \in Admins, UNCHANGED Session!fixed, phase # "down",
           req' \in [Admins -> Session!Requests], config' \in Session!Configs,
           file' \in Session!Files, changedAt' \in Nat,
           \A b \in Admins \ {a} : req'[b] = req[b],
           RequestHolds(req[a])',
           \A b \in Admins \ {a} :
               ~Saving(req[b]) \/ UNCHANGED <<config, changedAt>>,
           ChangesHold'
    PROVE  SessionInv'
<1>1. UNCHANGED <<now, phase, captured, drawn, tokens, pair, broken>>
  BY DEF Session!fixed
<1>2. ASSUME NEW b \in Admins PROVE RequestHolds(req[b])'
  <2>1. CASE b = a
    BY <2>1
  <2>2. CASE b # a /\ ~Saving(req[b])
    <3>1. req'[b].pc \notin {"marshal", "open", "write"}
      BY <2>2 DEF Saving
    <3> QED
      BY <3>1 DEF RequestHolds, Saving
  <2>3. CASE b # a /\ UNCHANGED <<config, changedAt>>
    <3>1. RequestHolds(req[b]) /\ req'[b] = req[b]
      BY <2>3 DEF SessionInv
    <3> QED
      BY <1>1, <2>3, <3>1 DEF RequestHolds, Saving, Sound
  <2> QED
    BY <2>1, <2>2, <2>3
<1>3. \A b \in Admins : req'[b].pc \in {"open", "write"} => req'[b].data \in Session!Saved
  BY <1>2 DEF RequestHolds
<1>4. Session!TypeOK'
  BY <1>1, <1>3 DEF SessionInv, Session!TypeOK
<1>5. PairHolds'
  BY <1>1 DEF SessionInv, PairHolds, Session!PairExists, Session!Matches
<1> QED
  BY <1>1, <1>2, <1>4, <1>5 DEF SessionInv

\* The fields of a request, and how a new value of it is one.
LEMMA RequestFields ==
    ASSUME SessionInv, NEW a \in Admins
    PROVE  /\ req[a].pc \in {"idle", "apply", "marshal", "open", "write"}
           /\ req[a].old \in Session!Files /\ req[a].data \in Session!Files
           /\ req[a].new \in Passwords \cup {0} /\ req[a].acks \in BOOLEAN
           /\ req[a].pc # "idle" => phase # "down"
           /\ \A r \in Session!Requests :
                 [req EXCEPT ![a] = r] \in [Admins -> Session!Requests]
<1>1. req[a] \in Session!Requests /\ req \in [Admins -> Session!Requests]
  BY SessionTypes
<1>2. req[a].pc # "idle" => phase # "down"
  BY DEF SessionInv, Session!NoReq
<1> QED
  BY <1>1, <1>2 DEF Session!Requests, Session!Unset

\* No request has the config ahead of what was acknowledged.
LEMMA NoneSaves ==
    ASSUME SessionInv, phase # "down",
           \A b \in Admins : ~(Saving(req[b]) /\ req[b].acks)
    PROVE  config.changed = changedAt
BY DEF SessionInv, ChangesHold

LEMMA ChangePasswordStep ==
    ASSUME SessionInv, NEW a \in Admins, NEW old, NEW new \in Passwords,
           Session!ChangePassword(a, old, new)
    PROVE  SessionInv'
<1>1. PICK r : r = [Session!NoReq EXCEPT !.pc = "apply", !.new = new]
  OBVIOUS
<1>2. r \in Session!Requests /\ r.pc = "apply" /\ r.acks = FALSE
  <2>1. r = [pc |-> "apply", old |-> Session!Absent, data |-> Session!Absent, new |-> new,
             acks |-> FALSE]
    BY <1>1 DEF Session!NoReq
  <2>2. Session!Absent \in Session!Files
    BY DEF Session!Files
  <2> QED
    BY <2>1, <2>2 DEF Session!Requests
<1>3. /\ req' = [req EXCEPT ![a] = r] /\ req[a].pc = "idle" /\ phase # "down"
      /\ UNCHANGED Session!fixed /\ UNCHANGED <<file, config, changedAt>>
  BY <1>1 DEF Session!ChangePassword, Session!fixed
<1>4. req \in [Admins -> Session!Requests] /\ req' \in [Admins -> Session!Requests]
  BY <1>2, <1>3, RequestFields, SessionTypes
<1>5. req'[a] = r /\ \A b \in Admins \ {a} : req'[b] = req[b]
  BY <1>3, <1>4
<1>6. RequestHolds(req[a])'
  BY <1>2, <1>5 DEF RequestHolds, Saving
<1>7. ChangesHold'
  <2>1. (\A b \in Admins : ~(Saving(req'[b]) /\ req'[b].acks))
           => \A b \in Admins : ~(Saving(req[b]) /\ req[b].acks)
    BY <1>3, <1>5 DEF Saving
  <2> QED
    BY <1>3, <2>1 DEF SessionInv, ChangesHold, Sound, Session!fixed, Saving
<1> QED
  BY <1>3, <1>4, <1>5, <1>6, <1>7, RequestStep, SessionTypes

LEMMA ApplyPasswordStep ==
    ASSUME SessionInv, OneSaves', NEW a \in Admins, Session!ApplyPassword(a)
    PROVE  SessionInv'
<1>0. /\ req[a].pc = "apply" /\ phase # "down" /\ config \in Session!Configs
      /\ req \in [Admins -> Session!Requests] /\ now \in Nat
      /\ req[a].new \in Passwords \cup {0} /\ file \in Session!Files /\ changedAt \in Nat
  BY RequestFields, SessionTypes DEF Session!ApplyPassword
<1>1. PICK o : o = Session!Stored(config)
  OBVIOUS
<1>2. o \in Session!Saved /\ o \in Session!Files /\ o.config = config
  BY <1>0, <1>1, RecordTypes
<1>3. PICK r : r = [req[a] EXCEPT !.pc = "marshal", !.acks = TRUE, !.old = o]
  OBVIOUS
<1>4. /\ r \in Session!Requests /\ r.pc = "marshal" /\ r.acks = TRUE /\ r.old = o
  BY <1>0, <1>2, <1>3 DEF Session!Requests
<1>5. req' = [req EXCEPT ![a] = r]
  BY <1>0, <1>1, <1>3 DEF Session!ApplyPassword
<1>6. /\ req' \in [Admins -> Session!Requests] /\ req'[a] = r
      /\ \A b \in Admins \ {a} : req'[b] = req[b]
  BY <1>0, <1>4, <1>5, RequestFields
<1>7. /\ config' \in Session!Configs /\ config'.changed = now /\ config'.secret = config.secret
      /\ config'.warning = config.warning /\ config'.critical = config.critical
      /\ UNCHANGED Session!fixed /\ UNCHANGED <<now, phase, drawn, file, changedAt>>
  <2>1. config' = [config EXCEPT !.password = req[a].new, !.changed = now]
    BY DEF Session!ApplyPassword
  <2>2. UNCHANGED Session!fixed /\ UNCHANGED <<now, phase, drawn, file, changedAt>>
    BY DEF Session!ApplyPassword, Session!fixed
  <2> QED
    BY <1>0, <2>1, <2>2 DEF Session!Configs, Session!Unset
<1>8. \A b \in Admins \ {a} : ~Saving(req[b])
  <2>1. ASSUME NEW b \in Admins \ {a} PROVE ~Saving(req'[b])
    BY <1>4, <1>6 DEF OneSaves, Saving
  <2> QED
    BY <1>6, <2>1 DEF Saving
<1>9. config.changed = changedAt
  BY <1>0, <1>8, NoneSaves DEF Saving
<1>10. RequestHolds(req[a])'
  BY <1>2, <1>4, <1>6, <1>7, <1>9 DEF RequestHolds, Saving
<1>11. ChangesHold'
  <2>1. Sound(config)'
    BY <1>7 DEF SessionInv, ChangesHold, Sound, Session!Validate
  <2>2. config'.changed \in 0..now' /\ changedAt' \in 0..now' /\ config'.changed >= changedAt'
    BY <1>0, <1>7 DEF SessionInv, ChangesHold
  <2>3. Saving(req'[a]) /\ req'[a].acks
    BY <1>4, <1>6 DEF Saving
  <2> QED
    BY <1>7, <2>1, <2>2, <2>3 DEF SessionInv, ChangesHold, Sound, Saving
<1> QED
  BY <1>0, <1>6, <1>7, <1>8, <1>10, <1>11, RequestStep

LEMMA UpdateMonitorConfigStep ==
    ASSUME SessionInv, OneSaves', NEW a \in Admins, NEW warning \in Percents,
           NEW critical \in Percents, Session!UpdateMonitorConfig(a, warning, critical)
    PROVE  SessionInv'
<1>0. /\ req[a].pc = "idle" /\ phase # "down" /\ config \in Session!Configs
      /\ req \in [Admins -> Session!Requests] /\ file \in Session!Files /\ changedAt \in Nat
      /\ warning \in Nat /\ critical \in Nat
  BY SessionTypes, SessionConstants DEF Session!UpdateMonitorConfig
<1>1. PICK r : r = [Session!NoReq EXCEPT !.pc = "marshal"]
  OBVIOUS
<1>2. r \in Session!Requests /\ r.pc = "marshal" /\ r.acks = FALSE
  <2>1. Session!Absent \in Session!Files
    BY DEF Session!Files
  <2> QED
    BY <1>1, <2>1 DEF Session!NoReq, Session!Requests
<1>3. req' = [req EXCEPT ![a] = r]
  BY <1>1 DEF Session!UpdateMonitorConfig
<1>4. /\ req' \in [Admins -> Session!Requests] /\ req'[a] = r
      /\ \A b \in Admins \ {a} : req'[b] = req[b]
  BY <1>0, <1>2, <1>3, RequestFields
<1>5. /\ config' \in Session!Configs /\ config'.changed = config.changed
      /\ config'.secret = config.secret
      /\ config'.warning = warning /\ config'.critical = critical
  <2>1. config' = [config EXCEPT !.warning = warning, !.critical = critical]
    BY DEF Session!UpdateMonitorConfig
  <2> QED
    BY <1>0, <2>1 DEF Session!Configs
<1>6. UNCHANGED Session!fixed /\ UNCHANGED <<now, phase, drawn, file, changedAt>>
  BY DEF Session!UpdateMonitorConfig, Session!fixed
<1>7. \A b \in Admins \ {a} : ~Saving(req[b])
  <2>1. ASSUME NEW b \in Admins \ {a} PROVE ~Saving(req'[b])
    BY <1>2, <1>4 DEF OneSaves, Saving
  <2> QED
    BY <1>4, <2>1 DEF Saving
<1>8. config.changed = changedAt
  BY <1>0, <1>7, NoneSaves DEF Saving
<1>9. RequestHolds(req[a])'
  BY <1>2, <1>4 DEF RequestHolds, Saving
<1>10. ChangesHold'
  <2>1. Sound(config)'
    BY <1>0, <1>5, <1>6 DEF SessionInv, ChangesHold, Sound, Session!Validate,
       Session!UpdateMonitorConfig, Session!ThresholdsValid
  <2> QED
    BY <1>0, <1>5, <1>6, <1>8, <2>1 DEF SessionInv, ChangesHold, Sound
<1> QED
  BY <1>0, <1>4, <1>5, <1>6, <1>7, <1>9, <1>10, RequestStep

LEMMA MarshalConfigStep ==
    ASSUME SessionInv, NEW a \in Admins, Session!MarshalConfig(a)
    PROVE  SessionInv'
<1>0. /\ req[a].pc = "marshal" /\ phase # "down" /\ config \in Session!Configs
      /\ req \in [Admins -> Session!Requests] /\ file \in Session!Files /\ changedAt \in Nat
  BY RequestFields, SessionTypes DEF Session!MarshalConfig
<1>1. PICK d : d = Session!Stored(config)
  OBVIOUS
<1>2. d \in Session!Saved /\ d \in Session!Files /\ d.config = config
  BY <1>0, <1>1, RecordTypes
<1>3. PICK r : r = [req[a] EXCEPT !.pc = "open", !.data = d]
  OBVIOUS
<1>4. /\ r \in Session!Requests /\ r.pc = "open" /\ r.acks = req[a].acks
      /\ r.old = req[a].old /\ r.data = d
  BY <1>0, <1>2, <1>3 DEF Session!Requests
<1>5. req' = [req EXCEPT ![a] = r]
  BY <1>0, <1>1, <1>3 DEF Session!MarshalConfig
<1>6. /\ req' \in [Admins -> Session!Requests] /\ req'[a] = r
      /\ \A b \in Admins \ {a} : req'[b] = req[b]
  BY <1>0, <1>4, <1>5, RequestFields
<1>7. UNCHANGED Session!fixed /\ UNCHANGED <<now, phase, drawn, file, config, changedAt>>
  BY DEF Session!MarshalConfig, Session!fixed
<1>8. RequestHolds(req[a])'
  <2>1. RequestHolds(req[a]) /\ Sound(config)
    BY DEF SessionInv, ChangesHold
  <2> QED
    BY <1>0, <1>2, <1>4, <1>6, <1>7, <2>1 DEF RequestHolds, Saving, Sound
<1>9. ChangesHold'
  <2>1. (\A b \in Admins : ~(Saving(req'[b]) /\ req'[b].acks))
           => \A b \in Admins : ~(Saving(req[b]) /\ req[b].acks)
    BY <1>0, <1>4, <1>6 DEF Saving
  <2> QED
    BY <1>7, <2>1 DEF SessionInv, ChangesHold, Sound, Saving
<1> QED
  BY <1>0, <1>6, <1>7, <1>8, <1>9, RequestStep

LEMMA OpenConfigStep ==
    ASSUME SessionInv, NEW a \in Admins, Session!OpenConfig(a)
    PROVE  SessionInv'
<1>0. /\ req[a].pc = "open" /\ phase # "down" /\ config \in Session!Configs
      /\ req \in [Admins -> Session!Requests] /\ changedAt \in Nat
  BY RequestFields, SessionTypes DEF Session!OpenConfig
<1>1. PICK r : r = [req[a] EXCEPT !.pc = "write"]
  OBVIOUS
<1>2. /\ r \in Session!Requests /\ r.pc = "write" /\ r.acks = req[a].acks
      /\ r.old = req[a].old /\ r.data = req[a].data
  BY <1>0, <1>1 DEF Session!Requests
<1>3. req' = [req EXCEPT ![a] = r] /\ file' = Session!Empty
  BY <1>0, <1>1 DEF Session!OpenConfig
<1>4. /\ req' \in [Admins -> Session!Requests] /\ req'[a] = r
      /\ \A b \in Admins \ {a} : req'[b] = req[b]
  BY <1>0, <1>2, <1>3, RequestFields
<1>5. UNCHANGED Session!fixed /\ UNCHANGED <<now, phase, drawn, config, changedAt>>
  BY DEF Session!OpenConfig, Session!fixed
<1>6. RequestHolds(req[a])'
  <2>1. RequestHolds(req[a])
    BY DEF SessionInv
  <2> QED
    BY <1>0, <1>2, <1>4, <1>5, <2>1 DEF RequestHolds, Saving, Sound
<1>7. ChangesHold'
  <2>1. (\A b \in Admins : ~(Saving(req'[b]) /\ req'[b].acks))
           => \A b \in Admins : ~(Saving(req[b]) /\ req[b].acks)
    BY <1>0, <1>2, <1>4 DEF Saving
  <2> QED
    BY <1>3, <1>5, <2>1, RecordTypes DEF SessionInv, ChangesHold, Sound, Saving
<1>8. file' \in Session!Files
  BY <1>3 DEF Session!Files
<1> QED
  BY <1>0, <1>4, <1>5, <1>6, <1>7, <1>8, RequestStep

\* The end of a save: no request is left that has the config ahead.
LEMMA SaveEnds ==
    ASSUME SessionInv, OneSaves, NEW a \in Admins, Saving(req[a]), UNCHANGED Session!fixed,
           req' = [req EXCEPT ![a] = Session!NoReq],
           config' \in Session!Configs, file' \in Session!Files,
           Sound(config)', changedAt' \in 0..now, config'.changed = changedAt',
           file' # Session!Absent,
           file' # Session!Empty =>
               file' \in Session!Saved /\ Sound(file.config)' /\ file'.config.changed = changedAt'
    PROVE  SessionInv'
<1>0. /\ req \in [Admins -> Session!Requests] /\ phase # "down" /\ now \in Nat
  BY RequestFields, SessionTypes DEF Saving
<1>1. /\ req' \in [Admins -> Session!Requests] /\ req'[a] = Session!NoReq
      /\ \A b \in Admins \ {a} : req'[b] = req[b]
  BY <1>0, RequestFields, RecordTypes
<1>2. \A b \in Admins \ {a} : ~Saving(req[b])
  BY DEF OneSaves
<1>3. RequestHolds(req[a])'
  BY <1>1 DEF RequestHolds, Saving, Session!NoReq
<1>4. UNCHANGED <<now, phase, drawn>>
  BY DEF Session!fixed
<1>5. ChangesHold'
  BY <1>0, <1>4 DEF ChangesHold, Sound
<1> QED
  BY <1>0, <1>1, <1>2, <1>3, <1>5, RequestStep

LEMMA WriteConfigStep ==
    ASSUME SessionInv, OneSaves, NEW a \in Admins, Session!WriteConfig(a)
    PROVE  SessionInv'
<1>0. /\ req[a].pc = "write" /\ Saving(req[a]) /\ phase # "down" /\ config \in Session!Configs
      /\ now \in Nat /\ req[a].acks \in BOOLEAN
  BY RequestFields, SessionTypes DEF Session!WriteConfig, Saving
<1>1. /\ req[a].data \in Session!Saved /\ Sound(req[a].data.config)
      /\ req[a].data.config.changed = config.changed
  BY <1>0 DEF SessionInv, RequestHolds
<1>2. /\ file' = req[a].data /\ req' = [req EXCEPT ![a] = Session!NoReq]
      /\ changedAt' = IF req[a].acks THEN config.changed ELSE changedAt
      /\ UNCHANGED Session!fixed /\ UNCHANGED <<now, drawn, config>>
  BY <1>1 DEF Session!WriteConfig, Session!fixed
<1>3. ~req[a].acks => config.changed = changedAt
  <2>1. ASSUME ~req[a].acks, NEW b \in Admins PROVE ~(Saving(req[b]) /\ req[b].acks)
    BY <1>0, <2>1 DEF OneSaves
  <2> QED
    BY <1>0, <2>1, NoneSaves
<1>4. config'.changed = changedAt' /\ changedAt' \in 0..now
  BY <1>2, <1>3 DEF SessionInv, ChangesHold
<1>5. Sound(config)' /\ Sound(file.config)' /\ file'.config.changed = changedAt'
  BY <1>1, <1>2, <1>4 DEF SessionInv, ChangesHold, Sound
<1>6. file' \in Session!Saved /\ file' \in Session!Files /\ file' # Session!Absent
  BY <1>1, <1>2, RecordTypes
<1>7. config' \in Session!Configs
  BY <1>0, <1>2
<1> QED
  BY <1>0, <1>2, <1>4, <1>5, <1>6, <1>7, SaveEnds

LEMMA SaveFailsStep ==
    ASSUME SessionInv, OneSaves, NEW a \in Admins, Session!SaveFails(a)
    PROVE  SessionInv'
<1>0. /\ Saving(req[a]) /\ phase # "down" /\ config \in Session!Configs
      /\ now \in Nat /\ req[a].acks \in BOOLEAN /\ file \in Session!Files
  BY RequestFields, SessionTypes DEF Session!SaveFails, Saving
<1>1. /\ req' = [req EXCEPT ![a] = Session!NoReq]
      /\ UNCHANGED Session!fixed /\ UNCHANGED <<now, drawn, file, changedAt>>
  BY DEF Session!SaveFails, Session!fixed
<1>2. /\ config' \in Session!Configs /\ config'.changed = changedAt
      /\ config'.secret = config.secret /\ config'.warning = config.warning
      /\ config'.critical = config.critical
  <2>1. CASE req[a].acks
    <3>1. PICK o : o = req[a].old.config
      OBVIOUS
    <3>2. req[a].old \in Session!Saved /\ o.changed = changedAt
      BY <1>0, <2>1, <3>1 DEF SessionInv, RequestHolds
    <3>3. o \in Session!Configs
      BY <3>1, <3>2 DEF Session!Saved
    <3>4. config' = [config EXCEPT !.password = o.password, !.changed = o.changed]
      BY <2>1, <3>1 DEF Session!SaveFails, Session!RollBack
    <3> QED
      BY <1>0, <3>2, <3>3, <3>4 DEF Session!Configs
  <2>2. CASE ~req[a].acks
    <3>1. config' = config
      BY <2>2 DEF Session!SaveFails, Session!RollBack
    <3>2. ASSUME NEW b \in Admins PROVE ~(Saving(req[b]) /\ req[b].acks)
      BY <1>0, <2>2 DEF OneSaves
    <3> QED
      BY <1>0, <3>1, <3>2, NoneSaves
  <2> QED
    BY <2>1, <2>2
<1>3. Sound(config)' /\ changedAt' \in 0..now /\ config'.changed = changedAt'
  BY <1>1, <1>2 DEF SessionInv, ChangesHold, Sound, Session!Validate
<1>4. file' # Session!Absent /\ (file' # Session!Empty =>
         file' \in Session!Saved /\ Sound(file.config)' /\ file'.config.changed = changedAt')
  BY <1>0, <1>1 DEF SessionInv, ChangesHold, Sound
<1> QED
  BY <1>0, <1>1, <1>2, <1>3, <1>4, SaveEnds

\* SessionInv is inductive while one request saves at a time.
LEMMA SessionStep ==
    ASSUME SessionInv, OneSaves, OneSaves', [Session!Next]_sessionVars
    PROVE  SessionInv'
<1>1. CASE Session!LoadConfig
  BY <1>1, LoadConfigStep
<1>2. ASSUME \/ Session!CreateCert \/ Session!EncodeCert \/ Session!CreateKey
             \/ Session!EncodeKey \/ Session!LoadTLSConfig \/ Session!RefuseTLSConfig
             \/ Session!Stop \/ Session!Tick
             \/ \E f \in {"cert", "key"} : Session!RemoveFile(f)
             \/ \E password \in Passwords : Session!Login(password)
             \/ \E t \in tokens : Session!RefreshToken(t)
      PROVE  SessionInv'
  BY <1>2, ProcessStep
<1>3. ASSUME NEW a \in Admins, Session!ConfigRequest(a)
      PROVE  SessionInv'
  BY <1>3, ChangePasswordStep, ApplyPasswordStep, UpdateMonitorConfigStep, MarshalConfigStep,
     OpenConfigStep, WriteConfigStep, SaveFailsStep DEF Session!ConfigRequest
<1>4. CASE UNCHANGED sessionVars
  <2>1. UNCHANGED <<now, phase, file, config, captured, drawn, tokens, req, pair, changedAt, broken>>
    BY <1>4 DEF sessionVars
  <2>2. PairHolds'
    BY <2>1 DEF SessionInv, PairHolds, Session!PairExists, Session!Matches
  <2>3. now' \in 1..MaxTime /\ now' >= now
    BY <2>1, SessionTypes, SessionConstants
  <2> QED
    BY <2>1, <2>2, <2>3, OtherStep, SessionTypes
<1> QED
  BY <1>1, <1>2, <1>3, <1>4 DEF Session!Next, Session!Boot

LEMMA SessionInit == Init => SessionInv
<1> SUFFICES ASSUME Session!Init PROVE SessionInv
  BY DEF Init
<1>0. /\ now = 1 /\ phase = "down" /\ drawn = 0 /\ tokens = {} /\ changedAt = 0
      /\ config = Session!DefaultConfig(0) /\ broken = FALSE
      /\ captured = [password |-> 0, secret |-> 0]
      /\ req = [a \in Admins |-> Session!NoReq]
      /\ pair = [cert |-> 0, key |-> 0]
      /\ file \in {Session!Absent, Session!Shipped}
  BY DEF Session!Init, Session!Unset, Session!Missing
<1>1. config \in Session!Configs /\ Sound(config) /\ config.changed = 0
  BY <1>0, RecordTypes DEF Sound, Session!DefaultConfig, Session!Validate, Session!Unset
<1>2. PICK d : d = [Session!DefaultConfig(0) EXCEPT !.password = 0]
  OBVIOUS
<1>3. d \in Session!Configs /\ Sound(d) /\ d.changed = 0
  BY <1>0, <1>2 DEF Sound, Session!DefaultConfig, Session!Configs, Session!Validate, Session!Unset
<1>4. Session!Shipped = Session!Stored(d)
  BY <1>2 DEF Session!Shipped, Session!Unset
<1>5. Session!Shipped \in Session!Saved /\ Session!Shipped.config = d
  BY <1>3, <1>4, RecordTypes
<1>6. file \in Session!Files
  BY <1>0, <1>5 DEF Session!Files
<1>7. Session!TypeOK
  <2>1. now \in 1..MaxTime /\ drawn \in 0..MaxSecret /\ phase \in Session!Phases
    BY <1>0, SessionConstants DEF Session!Phases
  <2>2. /\ captured \in [password : Passwords \cup {0}, secret : Nat]
        /\ pair \in [cert : Nat, key : Nat]
        /\ req \in [Admins -> Session!Requests] /\ \A a \in Admins : req[a].pc = "idle"
    BY <1>0, RecordTypes DEF Session!NoReq
  <2> QED
    BY <1>0, <1>1, <1>6, <2>1, <2>2 DEF Session!TypeOK, Session!Unset
<1>8. \A a \in Admins : RequestHolds(req[a])
  BY <1>0 DEF RequestHolds, Saving, Session!NoReq
<1>9. ChangesHold
  BY <1>0, <1>1, <1>3, <1>5, RecordTypes DEF ChangesHold
<1>10. PairHolds
  BY <1>0 DEF PairHolds, Session!PairExists, Session!Missing
<1> QED
  BY <1>0, <1>7, <1>8, <1>9, <1>10 DEF SessionInv

\* A token that is older than the config's last change does not pass.
LEMMA TokensAreRevoked == SessionInv => TokensRevoked
<1> SUFFICES ASSUME SessionInv, NEW t \in tokens, phase # "down", Session!AuthMiddleware(t)
             PROVE  t.iat >= changedAt
  BY DEF TokensRevoked, Session!TokensRevoked, SessionInv
<1>1. t.iat \in Nat /\ changedAt \in Nat /\ config.changed \in Nat
  BY SessionTypes DEF Session!Configs
<1>2. config.changed = 0 \/ t.iat >= config.changed
  BY DEF Session!AuthMiddleware, Session!GetPasswordChangedAt, Session!Unset
<1>3. config.changed >= changedAt
  BY DEF SessionInv, ChangesHold
<1> QED
  BY <1>1, <1>2, <1>3

LEMMA ConfigIsSafe == SessionInv => ConfigSafe
<1> SUFFICES ASSUME SessionInv
             PROVE  Session!Bootable /\ Session!AcknowledgedKept /\ Session!PairBreaksMidway
  BY DEF ConfigSafe
<1>1. Session!Bootable
  <2> SUFFICES ASSUME file # Session!Absent PROVE Session!Validate(Session!Load(file))
    BY DEF Session!Bootable
  <2>1. file = Session!Empty \/ (file \in Session!Saved /\ Sound(file.config))
    BY DEF SessionInv, ChangesHold
  <2>2. drawn \in Nat
    BY SessionTypes
  <2>3. PICK e : e = Session!Load(file)
    OBVIOUS
  <2>4. PICK f : f = file
    OBVIOUS
  <2>5. Session!Validate(e)
    BY <2>1, <2>2, <2>3, <2>4, LoadGives
  <2> QED
    BY <2>3, <2>5
<1>2. Session!AcknowledgedKept
  <2>1. (\A a \in Admins : req[a].pc \in {"idle", "apply"})
           => \A a \in Admins : ~(Saving(req[a]) /\ req[a].acks)
    BY DEF Saving
  <2> QED
    BY <2>1 DEF SessionInv, ChangesHold, Session!AcknowledgedKept
<1>3. Session!PairBreaksMidway
  BY DEF SessionInv, PairHolds, Session!PairBreaksMidway
<1> QED
  BY <1>1, <1>2, <1>3

LEMMA SessionAlways == Spec /\ []OneSaves => []SessionInv
<1>1. SessionInv /\ OneSaves /\ OneSaves' /\ [Next]_vars => SessionInv'
  BY SessionStep, StepsOfEach
<1> QED
  BY SessionInit, <1>1, PTL DEF Spec

\* AuthMiddleware: "tokens issued before the password change are rejected", once
\* the change is acknowledged, for any number of admins, tokens, restarts and
\* failing saves, as long as the saves of the config file do not overlap.
THEOREM OldTokensRevoked == Spec /\ []OneSaves => []TokensRevoked
BY SessionAlways, TokensAreRevoked, PTL

\* Whatever is saved, fails or is cut short, the next start accepts the config
\* file, the config has the last change of password acknowledged and no other,
\* and only an end of the process while it writes the TLS pair tears it, as long
\* as the saves of the config file do not overlap.
THEOREM ConfigStaysSafe == Spec /\ []OneSaves => []ConfigSafe
BY SessionAlways, ConfigIsSafe, PTL

\* The saves of one administrator do not overlap.
THEOREM OneAdminIsSafe ==
    ASSUME \A a, b \in Admins : a = b
    PROVE  Spec => []TokensRevoked /\ []ConfigSafe
<1>1. OneSaves
  BY DEF OneSaves
<1> QED
  BY <1>1, OldTokensRevoked, ConfigStaysSafe, PTL

-----------------------------------------------------------------------------
(* Backup and restore. *)

DbFiles  == [data : Backup!Data, line : Nat, part : {FALSE}]
Archives == [id : Nat, data : Backup!Data, part : BOOLEAN, remote : {"none", "part", "whole"}]

\* Every file of a database is whole; beside that, types.
BackupTypes ==
    /\ inodes \in Seq(DbFiles)
    /\ path \in 1..Len(inodes) /\ held \in 0..Len(inodes)
    /\ wal \in [line : Nat, txns : SUBSET (1..MaxTxn)]
    /\ lastTxn \in 0..MaxTxn /\ begun \in Nat
    /\ backups \in Seq(Archives) /\ \A i \in 1..Len(backups) : backups[i].id \in 1..begun
    /\ bk \in [pc : {"idle", "vacuum", "rotate", "upload"}, data : Backup!Data]
    /\ rs \in [pc : {"idle", "safety", "install", "recover", "shutdown"},
               data : Backup!Data, line : Nat, from : Backup!Data]
    /\ safety \in [data : Backup!Data, line : Nat]
    /\ good \in 0..begun /\ expected \in Backup!Data /\ touched \in BOOLEAN

\* The backup that is being made is the newest in the directory, and whole once
\* it is verified.
MakingNewest ==
    /\ bk.pc # "idle" => Len(backups) > 0 /\ backups[Len(backups)].id = begun
    /\ bk.pc \in {"rotate", "upload"} => good = begun /\ ~backups[Len(backups)].part

\* A restore begins with a database that can be read, and the safety copy has at
\* least what was in the file then; until the file is replaced by one that cannot be
\* read, the process finds at the path what it could use.
RestoreHolds ==
    /\ rs.pc \in {"safety", "install", "recover", "shutdown"} => rs.from # Corrupt /\ Backup!Up
    /\ rs.pc = "safety" => inodes[path].data # Corrupt /\ rs.from \subseteq inodes[path].data
    /\ rs.pc \in {"install", "recover", "shutdown"} => safety.data # Corrupt /\ rs.from \subseteq safety.data
    /\ rs.pc \in {"safety", "install", "recover"} => inodes[held].data # Corrupt
    /\ Backup!Up /\ rs.pc # "shutdown" /\ inodes[path].data = Corrupt => inodes[held].data = Corrupt
    /\ expected = Corrupt => inodes[path].data = Corrupt

\* Without a restore the file at the path and the log beside it belong together,
\* and make up what was committed.
OneLine ==
    /\ rs.pc = "shutdown" => touched
    /\ ~touched => /\ Backup!Up => held = path
                   /\ wal.line = inodes[path].line
                   /\ inodes[path].data # Corrupt
                   /\ inodes[path].data \cup wal.txns = expected

BackupInv == BackupTypes /\ MakingNewest /\ Backup!NewestKept /\ RestoreHolds /\ OneLine

Changed(s, i, d) == [s EXCEPT ![i].data = d]

\* A database file with other data is a database file.
LEMMA FileChanged ==
    ASSUME NEW s \in Seq(DbFiles), NEW i \in 1..Len(s), NEW d \in Backup!Data
    PROVE  /\ Changed(s, i, d) \in Seq(DbFiles) /\ Len(Changed(s, i, d)) = Len(s)
           /\ Changed(s, i, d)[i].data = d /\ Changed(s, i, d)[i].line = s[i].line
           /\ \A j \in 1..Len(s) : j # i => Changed(s, i, d)[j] = s[j]
<1> DEFINE e == [s[i] EXCEPT !.data = d]
           t == Changed(s, i, d)
<1>1. \A j \in 1..Len(s) : s[j] \in DbFiles
  BY ElementOfSeq
<1>2. e \in DbFiles /\ e.data = d /\ e.line = s[i].line
  BY <1>1 DEF DbFiles
<1>3. t = [s EXCEPT ![i] = e]
  BY DEF Changed
<1> HIDE DEF e, t
<1>4. t \in Seq(DbFiles) /\ Len(t) = Len(s) /\ \A j \in 1..Len(s) : t[j] = IF j = i THEN e ELSE s[j]
  BY <1>2, <1>3, ExceptSeq
<1> QED
  BY <1>2, <1>4 DEF t

\* What the actions need of the types.
LEMMA BackupFacts ==
    ASSUME BackupTypes
    PROVE  /\ Len(inodes) \in Nat /\ DOMAIN inodes = 1..Len(inodes)
           /\ \A i \in 1..Len(inodes) : inodes[i] \in DbFiles
           /\ Len(backups) \in Nat /\ DOMAIN backups = 1..Len(backups)
           /\ \A i \in 1..Len(backups) : backups[i] \in Archives
           /\ \A s \in SUBSET (1..MaxTxn) : s # Corrupt
           /\ MaxTxn \in Nat /\ Retention \in Nat
BY OperationsAssumption, LenProperties, ElementOfSeq DEF BackupTypes, Backup!Constants

\* Commit.
LEMMA CommitStep ==
    ASSUME BackupInv, NEW fresh \in BOOLEAN, Backup!Commit(fresh)
    PROVE  BackupInv'
<1>0. held \in 1..Len(inodes) /\ inodes[held] \in DbFiles /\ inodes[held].data # Corrupt
  BY BackupFacts DEF BackupInv, BackupTypes, Backup!Commit, Backup!Up, Backup!Content
<1>1. BackupTypes'
  <2>1. lastTxn' \in 1..MaxTxn
    BY BackupFacts DEF BackupInv, BackupTypes, Backup!Commit
  <2>2. wal' \in [line : Nat, txns : SUBSET (1..MaxTxn)]
    BY <1>0, <2>1 DEF BackupInv, BackupTypes, Backup!Commit, DbFiles
  <2>3. expected' \in Backup!Data
    BY <1>0, <2>1 DEF BackupInv, BackupTypes, Backup!Commit, Backup!Data, RestoreHolds
  <2> QED
    BY <2>1, <2>2, <2>3 DEF BackupInv, BackupTypes, Backup!Commit
<1>2. MakingNewest' /\ Backup!NewestKept'
  BY DEF BackupInv, Backup!Commit, MakingNewest, Backup!NewestKept
<1>4. RestoreHolds'
  <2>1. expected' = Corrupt => expected = Corrupt
    BY <1>0, BackupFacts DEF BackupInv, BackupTypes, Backup!Commit, Backup!Data, RestoreHolds
  <2> QED
    BY <2>1 DEF BackupInv, Backup!Commit, RestoreHolds, Backup!Up
<1>3. OneLine'
  BY <1>0 DEF BackupInv, Backup!Commit, OneLine, Backup!Up
<1> QED
  BY <1>1, <1>2, <1>3, <1>4 DEF BackupInv

\* wal_autocheckpoint and the last close of the database write the log's
\* transactions to the file.
LEMMA CheckpointStep ==
    ASSUME BackupInv, Backup!Checkpoint
    PROVE  BackupInv'
<1>0. held \in 1..Len(inodes) /\ inodes[held] \in DbFiles /\ inodes[held].data # Corrupt
  BY BackupFacts DEF BackupInv, BackupTypes, Backup!Checkpoint, Backup!Up, Backup!Content
<1> DEFINE d == inodes[held].data \cup wal.txns
<1>a. d \in SUBSET (1..MaxTxn)
  <2>0. inodes[held].data \in Backup!Data
    BY <1>0 DEF DbFiles
  <2>1. inodes[held].data \in SUBSET (1..MaxTxn)
    BY <1>0, <2>0 DEF Backup!Data
  <2>2. wal.txns \in SUBSET (1..MaxTxn)
    BY DEF BackupInv, BackupTypes
  <2> QED
    BY <2>1, <2>2
<1>1. inodes' = Changed(inodes, held, d)
  BY DEF Backup!Checkpoint, Changed
<1>2. d \in Backup!Data /\ d # Corrupt /\ inodes[held].data \subseteq d /\ d \cup wal.txns = d
      /\ d = inodes[held].data \cup wal.txns
  BY <1>a, BackupFacts DEF BackupInv, Backup!Data
<1> HIDE DEF d
<1>3. /\ inodes' \in Seq(DbFiles) /\ Len(inodes') = Len(inodes)
      /\ inodes'[held].data = d /\ inodes'[held].line = inodes[held].line
      /\ \A j \in 1..Len(inodes) : j # held => inodes'[j] = inodes[j]
  <2>1. inodes \in Seq(DbFiles)
    BY DEF BackupInv, BackupTypes
  <2>2. held \in 1..Len(inodes) /\ d \in Backup!Data
    BY <1>0, <1>2
  <2> QED
    BY <1>1, <2>1, <2>2, FileChanged
<1>4. BackupTypes'
  BY <1>3 DEF BackupInv, BackupTypes, Backup!Checkpoint
<1>5. MakingNewest' /\ Backup!NewestKept'
  BY DEF BackupInv, Backup!Checkpoint, MakingNewest, Backup!NewestKept
<1>6. RestoreHolds' /\ OneLine'
  BY <1>0, <1>2, <1>3 DEF BackupInv, BackupTypes, Backup!Checkpoint, RestoreHolds, OneLine,
     Backup!Up
<1> QED
  BY <1>4, <1>5, <1>6 DEF BackupInv

LEMMA ExitStep ==
    ASSUME BackupInv, NEW last \in BOOLEAN, Backup!Exit(last)
    PROVE  BackupInv'
<1>0. /\ inodes \in Seq(DbFiles) /\ path \in 1..Len(inodes)
      /\ held \in 1..Len(inodes) /\ inodes[held] \in DbFiles
  BY BackupFacts DEF BackupInv, BackupTypes, Backup!Exit, Backup!Up
<1>1. BackupTypes /\ ~Backup!Up' /\ bk' = Backup!NoBackup /\ rs' = Backup!NoRestore /\ held' = 0
  BY DEF BackupInv, Backup!Exit, Backup!Up
<1>2. bk' \in [pc : {"idle", "vacuum", "rotate", "upload"}, data : Backup!Data] /\ bk'.pc = "idle"
  BY <1>1 DEF Backup!NoBackup, Backup!Data
<1>3. /\ rs' \in [pc : {"idle", "safety", "install", "recover", "shutdown"},
                  data : Backup!Data, line : Nat, from : Backup!Data]
      /\ rs'.pc = "idle"
  BY <1>1 DEF Backup!NoRestore, Backup!Data
<1>4. MakingNewest' /\ Backup!NewestKept'
  BY <1>2 DEF BackupInv, Backup!Exit, MakingNewest, Backup!NewestKept
<1>5. CASE ~last
  <2>1. UNCHANGED <<inodes, wal>>
    BY <1>5 DEF Backup!Exit
  <2>2. BackupTypes'
    BY <1>1, <1>2, <1>3, <2>1, BackupFacts DEF BackupTypes, Backup!Exit
  <2>3. RestoreHolds' /\ OneLine'
    BY <1>1, <1>3, <2>1 DEF BackupInv, Backup!Exit, RestoreHolds, OneLine
  <2> QED
    BY <1>4, <2>2, <2>3 DEF BackupInv
<1>6. CASE last
  <2> DEFINE d == inodes[held].data \cup wal.txns
  <2>1. inodes[held].data # Corrupt /\ inodes' = Changed(inodes, held, d)
    BY <1>6 DEF Backup!Exit, Backup!Content, Changed
  <2>2. d \in SUBSET (1..MaxTxn)
    <3>1. inodes[held].data \in SUBSET (1..MaxTxn)
      BY <1>0, <2>1 DEF Backup!Data, DbFiles
    <3>2. wal.txns \in SUBSET (1..MaxTxn)
      BY <1>1 DEF BackupTypes
    <3> QED
      BY <3>1, <3>2
  <2>3. d \in Backup!Data /\ d # Corrupt /\ d = inodes[held].data \cup wal.txns
    BY <1>1, <2>2, BackupFacts DEF Backup!Data
  <2> HIDE DEF d
  <2>4. /\ inodes' \in Seq(DbFiles) /\ Len(inodes') = Len(inodes)
        /\ inodes'[held].data = d /\ inodes'[held].line = inodes[held].line
        /\ \A j \in 1..Len(inodes) : j # held => inodes'[j] = inodes[j]
    <3>1. held \in 1..Len(inodes) /\ d \in Backup!Data /\ inodes \in Seq(DbFiles)
      BY <1>0, <2>3
    <3> QED
      BY <2>1, <3>1, FileChanged
  <2>5. wal' \in [line : Nat, txns : SUBSET (1..MaxTxn)] /\ wal'.txns = {} /\ wal'.line = wal.line
    BY <1>1, <1>6 DEF Backup!Exit, BackupTypes
  <2>6. BackupTypes'
    BY <1>1, <1>2, <1>3, <2>4, <2>5, BackupFacts DEF BackupTypes, Backup!Exit
  <2>7. RestoreHolds'
    <3>1. inodes[path].data = Corrupt => inodes'[path].data = Corrupt
      BY <1>0, <2>1, <2>4
    <3> QED
      BY <1>1, <1>3, <3>1 DEF BackupInv, Backup!Exit, RestoreHolds
  <2>8. OneLine'
    BY <1>0, <1>1, <1>3, <2>3, <2>4, <2>5 DEF BackupInv, BackupTypes, Backup!Exit, Backup!Up,
       OneLine
  <2> QED
    BY <1>4, <2>6, <2>7, <2>8 DEF BackupInv
<1> QED
  BY <1>5, <1>6

LEMMA StartStep ==
    ASSUME BackupInv, Backup!Start
    PROVE  BackupInv'
<1>0. inodes \in Seq(DbFiles) /\ path \in 1..Len(inodes)
  BY DEF BackupInv, BackupTypes
<1>1. BackupTypes /\ path \in 1..Len(inodes) /\ inodes[path] \in DbFiles /\ held' = path /\ held = 0
  BY BackupFacts DEF BackupInv, BackupTypes, Backup!Start, Backup!Up
<1>2. wal' \in [line : Nat, txns : SUBSET (1..MaxTxn)] /\ wal'.txns = {} /\ wal'.line = inodes[path].line
  BY <1>1 DEF Backup!Start, DbFiles
<1> DEFINE d == Backup!Replayed(inodes[path])
<1>3. /\ d \in Backup!Data
      /\ inodes[path].data = Corrupt => d = Corrupt
      /\ inodes[path].data # Corrupt /\ wal.line = inodes[path].line =>
            d = inodes[path].data \cup wal.txns /\ d # Corrupt
  <2>1. inodes[path].data \in Backup!Data /\ wal.txns \in SUBSET (1..MaxTxn)
    BY <1>1 DEF DbFiles, BackupTypes
  <2>2. inodes[path].data # Corrupt => inodes[path].data \cup wal.txns \in SUBSET (1..MaxTxn)
    BY <2>1 DEF Backup!Data
  <2>3. inodes[path].data # Corrupt => inodes[path].data \cup wal.txns # Corrupt
    BY <1>1, <2>2, BackupFacts
  <2> QED
    BY <2>1, <2>2, <2>3 DEF Backup!Replayed, Backup!Data
<1>4. inodes' = Changed(inodes, path, d)
  BY DEF Backup!Start, Changed
<1> HIDE DEF d
<1>5. /\ inodes' \in Seq(DbFiles) /\ Len(inodes') = Len(inodes)
      /\ inodes'[path].data = d /\ inodes'[path].line = inodes[path].line
  BY <1>0, <1>3, <1>4, FileChanged
<1>6. BackupTypes'
  BY <1>1, <1>2, <1>5, BackupFacts DEF BackupTypes, Backup!Start
<1>7. MakingNewest' /\ Backup!NewestKept'
  BY DEF BackupInv, Backup!Start, MakingNewest, Backup!NewestKept
<1>8. RestoreHolds'
  BY <1>1, <1>3, <1>5 DEF BackupInv, Backup!Start, Backup!Up, RestoreHolds
<1>9. OneLine'
  BY <1>1, <1>2, <1>3, <1>5 DEF BackupInv, BackupTypes, Backup!Start, OneLine
<1> QED
  BY <1>6, <1>7, <1>8, <1>9 DEF BackupInv

\* CreateBackup.
LEMMA VacuumStep ==
    ASSUME BackupInv, Backup!Vacuum
    PROVE  BackupInv'
<1> DEFINE e == [id |-> begun + 1, data |-> Backup!Content, part |-> TRUE, remote |-> "none"]
<1>0. held \in 1..Len(inodes) /\ inodes[held] \in DbFiles /\ inodes[held].data # Corrupt
  BY BackupFacts, SMTT(30) DEF BackupInv, BackupTypes, Backup!Vacuum, Backup!Up, Backup!Content
<1>1. Backup!Content \in Backup!Data
  <2>1. inodes[held].data \in SUBSET (1..MaxTxn)
    BY <1>0 DEF Backup!Data, DbFiles
  <2>2. wal.txns \in SUBSET (1..MaxTxn)
    BY DEF BackupInv, BackupTypes
  <2> QED
    BY <1>0, <2>1, <2>2 DEF Backup!Content, Backup!Data
<1>2. BackupTypes /\ begun \in Nat /\ begun' = begun + 1 /\ backups \in Seq(Archives)
      /\ bk' = [pc |-> "vacuum", data |-> Backup!Content] /\ backups' = Append(backups, e)
  BY DEF BackupInv, BackupTypes, Backup!Vacuum
<1>3. e \in Archives /\ e.id = begun + 1
  BY <1>1, <1>2 DEF Archives
<1> HIDE DEF e
<1>4. /\ backups' \in Seq(Archives) /\ Len(backups') = Len(backups) + 1 /\ backups'[Len(backups) + 1] = e
      /\ \A i \in 1..Len(backups) : backups'[i] = backups[i]
  BY <1>2, <1>3, AppendProperties
<1>5. BackupTypes'
  <2>1. bk' \in [pc : {"idle", "vacuum", "rotate", "upload"}, data : Backup!Data]
    BY <1>1, <1>2
  <2>2. \A i \in 1..Len(backups') : backups'[i].id \in 1..begun'
    BY <1>2, <1>3, <1>4, BackupFacts, SMTT(30) DEF BackupTypes
  <2>3. begun' \in Nat /\ good' \in 0..begun'
    BY <1>2 DEF BackupTypes, Backup!Vacuum
  <2>4. UNCHANGED <<inodes, path, held, wal, lastTxn, rs, safety, expected, touched>>
    BY DEF Backup!Vacuum
  <2> QED
    BY <1>2, <1>4, <2>1, <2>2, <2>3, <2>4 DEF BackupTypes
<1>6. MakingNewest'
  BY <1>2, <1>3, <1>4, BackupFacts DEF MakingNewest
<1>7. Backup!NewestKept'
  <2>1. DOMAIN backups = 1..Len(backups) /\ DOMAIN backups' = 1..Len(backups') /\ Len(backups) \in Nat
    BY <1>2, <1>4, LenProperties
  <2> QED
    BY <1>4, <2>1 DEF BackupInv, Backup!NewestKept, Backup!Vacuum
<1>8. RestoreHolds' /\ OneLine'
  BY DEF BackupInv, Backup!Vacuum, RestoreHolds, OneLine, Backup!Up
<1> QED
  BY <1>5, <1>6, <1>7, <1>8 DEF BackupInv

LEMMA VerifyStep ==
    ASSUME BackupInv, NEW ok \in BOOLEAN, Backup!Verify(ok)
    PROVE  BackupInv'
<1> DEFINE n == Len(backups)
           e == [backups[n] EXCEPT !.part = FALSE]
<1>1. BackupTypes /\ begun \in Nat /\ backups \in Seq(Archives) /\ n \in 1..n /\ n \in Nat /\ backups[n].id = begun
  BY BackupFacts DEF BackupInv, BackupTypes, MakingNewest, Backup!Verify
<1>2. RestoreHolds' /\ OneLine'
  BY DEF BackupInv, Backup!Verify, RestoreHolds, OneLine, Backup!Up
<1>3. CASE ok
  <2>1. /\ backups' = [backups EXCEPT ![n] = e] /\ bk' = [bk EXCEPT !.pc = "rotate"] /\ good' = begun
        /\ UNCHANGED begun
    BY <1>3 DEF Backup!Verify, Backup!Newest
  <2>2. e \in Archives /\ e.id = backups[n].id /\ ~e.part
    BY <1>1, BackupFacts DEF Archives
  <2> HIDE DEF e
  <2>3. backups' \in Seq(Archives) /\ Len(backups') = n /\ \A i \in 1..n : backups'[i] = IF i = n THEN e ELSE backups[i]
    BY <1>1, <2>1, <2>2, ExceptSeq
  <2>4. bk' \in [pc : {"idle", "vacuum", "rotate", "upload"}, data : Backup!Data]
    BY <1>1, <2>1 DEF BackupTypes
  <2>5. \A i \in 1..Len(backups') : backups'[i].id \in 1..begun
    BY <1>1, <2>2, <2>3 DEF BackupTypes
  <2>6. BackupTypes'
    BY <1>1, <2>1, <2>3, <2>4, <2>5 DEF BackupTypes, Backup!Verify
  <2>7. MakingNewest'
    BY <1>1, <2>1, <2>2, <2>3 DEF MakingNewest, BackupTypes
  <2>8. Backup!NewestKept'
    <3>1. n \in DOMAIN backups' /\ backups'[n].id = good' /\ ~backups'[n].part
      BY <1>1, <2>1, <2>2, <2>3, LenProperties
    <3> QED
      BY <3>1 DEF Backup!NewestKept
  <2> QED
    BY <1>2, <2>6, <2>7, <2>8 DEF BackupInv
<1>4. CASE ~ok
  <2>1. UNCHANGED <<backups, good, begun>> /\ bk' = Backup!NoBackup
    BY <1>4 DEF Backup!Verify
  <2>2. bk' \in [pc : {"idle", "vacuum", "rotate", "upload"}, data : Backup!Data] /\ bk'.pc = "idle"
    BY <2>1 DEF Backup!NoBackup, Backup!Data
  <2> QED
    BY <1>1, <1>2, <2>1, <2>2 DEF BackupInv, BackupTypes, MakingNewest, Backup!NewestKept,
       Backup!Verify
<1> QED
  BY <1>3, <1>4

LEMMA RotateStep ==
    ASSUME BackupInv, Backup!Rotate
    PROVE  BackupInv'
<1> DEFINE n == Len(backups)
<1>1. /\ BackupTypes /\ begun \in Nat /\ backups \in Seq(Archives) /\ n \in 1..n /\ n \in Nat
      /\ backups[n].id = begun /\ ~backups[n].part /\ good = begun
      /\ bk' = [bk EXCEPT !.pc = "upload"] /\ UNCHANGED <<begun, good>>
  BY BackupFacts DEF BackupInv, BackupTypes, MakingNewest, Backup!Rotate
<1>2. RestoreHolds' /\ OneLine'
  BY DEF BackupInv, Backup!Rotate, RestoreHolds, OneLine, Backup!Up
<1>3. bk' \in [pc : {"idle", "vacuum", "rotate", "upload"}, data : Backup!Data]
  BY <1>1 DEF BackupTypes
\* the newest one stays, whatever the retention
<1>4. /\ backups' \in Seq(Archives) /\ Len(backups') \in Nat \ {0} /\ backups'[Len(backups')] = backups[n]
      /\ \A i \in 1..Len(backups') : backups'[i].id \in 1..begun
  <2>1. CASE Retention = 0 \/ n <= Retention
    BY <1>1, <2>1 DEF Backup!Rotate, Backup!Rotated, BackupTypes
  <2>2. CASE ~(Retention = 0 \/ n <= Retention)
    <3>1. Retention \in Nat /\ Retention > 0 /\ n > Retention
      BY <1>1, <2>2, BackupFacts
    <3>2. backups' = SubSeq(backups, n - Retention + 1, n)
      BY <2>2 DEF Backup!Rotate, Backup!Rotated
    <3> DEFINE m == n - Retention + 1
    <3>3. \A i \in m..n : backups[i] \in Archives /\ backups[i].id \in 1..begun
      BY <1>1, <3>1, BackupFacts, SMTT(30) DEF BackupTypes
    <3>4. m \in Int /\ n \in Int /\ m <= n /\ n - m + 1 = Retention
      BY <1>1, <3>1
    <3>5. /\ backups' \in Seq(Archives) /\ Len(backups') = Retention
          /\ \A i \in 1..Retention : backups'[i] = backups[m + i - 1]
      <4>1. \A i \in m..n : backups[i] \in Archives
        BY <3>3
      <4>2. backups' = SubSeq(backups, m, n)
        BY <3>2
      <4> HIDE DEF m, n
      <4> QED
        BY <3>4, <4>1, <4>2, SubSeqProperties
    <3>6. \A i \in 1..Retention : m + i - 1 \in m..n
      BY <1>1, <3>1
    <3>7. Retention \in 1..Retention /\ m + Retention - 1 = n
      BY <1>1, <3>1
    <3>8. backups'[Len(backups')] = backups[n]
      BY <3>5, <3>7
    <3> HIDE DEF m
    <3> QED
      BY <3>1, <3>3, <3>5, <3>6, <3>8
  <2> QED
    BY <2>1, <2>2
<1>5. BackupTypes'
  BY <1>1, <1>3, <1>4 DEF BackupTypes, Backup!Rotate
<1>6. MakingNewest'
  BY <1>1, <1>4 DEF MakingNewest
<1>7. Backup!NewestKept'
  <2>1. Len(backups') \in DOMAIN backups'
    BY <1>4, LenProperties
  <2> QED
    BY <1>1, <1>4, <2>1 DEF Backup!NewestKept
<1> QED
  BY <1>2, <1>5, <1>6, <1>7 DEF BackupInv

LEMMA UploadStep ==
    ASSUME BackupInv, NEW out \in {"none", "part", "whole"}, Backup!Upload(out)
    PROVE  BackupInv'
<1> DEFINE n == Len(backups)
<1>1. /\ BackupTypes /\ backups \in Seq(Archives) /\ n \in Nat /\ DOMAIN backups = 1..n
      /\ \A i \in 1..n : backups[i] \in Archives
      /\ bk' = Backup!NoBackup /\ UNCHANGED <<begun, good>>
  BY BackupFacts DEF BackupInv, BackupTypes, Backup!Upload
<1>2. RestoreHolds' /\ OneLine'
  BY DEF BackupInv, Backup!Upload, RestoreHolds, OneLine, Backup!Up
<1>3. bk' \in [pc : {"idle", "vacuum", "rotate", "upload"}, data : Backup!Data] /\ bk'.pc = "idle"
  BY <1>1 DEF Backup!NoBackup, Backup!Data
<1>4. /\ backups' \in [1..n -> Archives]
      /\ \A i \in 1..n : backups'[i].id = backups[i].id /\ backups'[i].part = backups[i].part
  BY <1>1 DEF Backup!Upload, Archives
<1>5. backups' \in Seq(Archives)
  BY <1>1, <1>4, SeqDef
<1>6. Len(backups') = n /\ DOMAIN backups' = 1..n
  BY <1>1, <1>4, <1>5, LenProperties
<1>7. BackupTypes'
  BY <1>1, <1>3, <1>4, <1>5, <1>6 DEF BackupTypes, Backup!Upload
<1>8. MakingNewest'
  BY <1>3 DEF MakingNewest
<1>9. Backup!NewestKept'
  BY <1>1, <1>4, <1>6 DEF BackupInv, Backup!NewestKept
<1> QED
  BY <1>2, <1>7, <1>8, <1>9 DEF BackupInv

\* RestoreBackup.
LEMMA RestoreStep ==
    ASSUME BackupInv, NEW i \in DOMAIN backups, Backup!RestoreBackup(i)
    PROVE  BackupInv'
<1>0. BackupTypes
  BY DEF BackupInv
<1>1. /\ i \in Nat /\ backups[i] \in Archives /\ begun \in Nat
      /\ held \in 1..Len(inodes) /\ path \in 1..Len(inodes) /\ inodes[path] \in DbFiles
      /\ inodes[held].data # Corrupt
  <2>1. begun \in Nat /\ path \in 1..Len(inodes) /\ held \in 0..Len(inodes)
    BY <1>0 DEF BackupTypes
  <2>2. held # 0 /\ inodes[held].data # Corrupt
    BY DEF Backup!RestoreBackup, Backup!Up, Backup!Content
  <2> QED
    BY <1>0, <2>1, <2>2, BackupFacts
<1>2. inodes[path].data # Corrupt
  BY <1>1 DEF BackupInv, RestoreHolds, Backup!RestoreBackup
<1>3. /\ rs' \in [pc : {"idle", "safety", "install", "recover", "shutdown"},
                  data : Backup!Data, line : Nat, from : Backup!Data]
      /\ rs'.pc = "safety" /\ rs'.from = inodes[path].data
  <2>1. (IF backups[i].part THEN Corrupt ELSE backups[i].data) \in Backup!Data
    BY <1>1 DEF Archives, Backup!Data
  <2>2. inodes[path].data \in Backup!Data
    BY <1>1 DEF DbFiles
  <2>3. begun + 1 + i \in Nat
    BY <1>1
  <2> QED
    BY <2>1, <2>2, <2>3 DEF Backup!RestoreBackup
<1>4. BackupTypes'
  BY <1>0, <1>1, <1>3 DEF BackupTypes, Backup!RestoreBackup
<1>5. MakingNewest' /\ Backup!NewestKept'
  BY DEF BackupInv, Backup!RestoreBackup, MakingNewest, Backup!NewestKept
<1>6. RestoreHolds'
  BY <1>1, <1>2, <1>3 DEF BackupInv, Backup!RestoreBackup, RestoreHolds, Backup!Up
<1>7. OneLine'
  BY <1>3 DEF BackupInv, Backup!RestoreBackup, OneLine, Backup!Up
<1> QED
  BY <1>4, <1>5, <1>6, <1>7 DEF BackupInv

LEMMA SafetyStep ==
    ASSUME BackupInv, Backup!Safety
    PROVE  BackupInv'
<1>1. /\ BackupTypes /\ inodes[path] \in DbFiles
      /\ rs' = [rs EXCEPT !.pc = "install"]
      /\ safety' = [data |-> inodes[path].data, line |-> inodes[path].line]
      /\ rs.pc = "safety"
  BY BackupFacts DEF BackupInv, BackupTypes, Backup!Safety, Backup!SafetyCopy
<1>2. /\ rs' \in [pc : {"idle", "safety", "install", "recover", "shutdown"},
                  data : Backup!Data, line : Nat, from : Backup!Data]
      /\ rs'.pc = "install" /\ rs'.from = rs.from
      /\ safety' \in [data : Backup!Data, line : Nat] /\ safety'.data = inodes[path].data
  BY <1>1 DEF BackupTypes, DbFiles
<1>3. BackupTypes'
  BY <1>1, <1>2 DEF BackupTypes, Backup!Safety
<1>4. MakingNewest' /\ Backup!NewestKept'
  BY DEF BackupInv, Backup!Safety, MakingNewest, Backup!NewestKept
<1>5. RestoreHolds'
  BY <1>1, <1>2 DEF BackupInv, Backup!Safety, RestoreHolds, Backup!Up
<1>6. OneLine'
  BY <1>2 DEF BackupInv, Backup!Safety, OneLine, Backup!Up
<1> QED
  BY <1>3, <1>4, <1>5, <1>6 DEF BackupInv

\* copyFileAtomic: the new file is another one, and the path names it.
LEMMA Installed ==
    ASSUME inodes \in Seq(DbFiles), NEW f \in DbFiles, Backup!CopyFileAtomic(f, TRUE)
    PROVE  /\ inodes' \in Seq(DbFiles) /\ Len(inodes') = Len(inodes) + 1 /\ path' = Len(inodes) + 1
           /\ inodes'[path'] = f /\ \A j \in 1..Len(inodes) : inodes'[j] = inodes[j]
<1>1. inodes' = Append(inodes, f) /\ path' = Len(inodes) + 1
  BY DEF Backup!CopyFileAtomic
<1> QED
  BY <1>1, AppendProperties

LEMMA InstallStep ==
    ASSUME BackupInv, NEW done \in BOOLEAN, Backup!Install(done)
    PROVE  BackupInv'
<1> DEFINE f == [data |-> rs.data, line |-> rs.line, part |-> FALSE]
<1>1. BackupTypes /\ rs.pc = "install" /\ inodes \in Seq(DbFiles) /\ f \in DbFiles
      /\ held \in 1..Len(inodes) /\ path \in 1..Len(inodes) /\ Len(inodes) \in Nat
  BY BackupFacts DEF BackupInv, BackupTypes, Backup!Install, Backup!Up, DbFiles
<1>2. rs' = [rs EXCEPT !.pc = IF done THEN "shutdown" ELSE "recover"]
  BY DEF Backup!Install
<1>3. /\ rs' \in [pc : {"idle", "safety", "install", "recover", "shutdown"},
                  data : Backup!Data, line : Nat, from : Backup!Data]
      /\ rs'.pc = (IF done THEN "shutdown" ELSE "recover") /\ rs'.from = rs.from
  BY <1>1, <1>2 DEF BackupTypes
<1>4. MakingNewest' /\ Backup!NewestKept'
  BY DEF BackupInv, Backup!Install, MakingNewest, Backup!NewestKept
<1>5. CASE done
  <2>1. /\ inodes' \in Seq(DbFiles) /\ Len(inodes') = Len(inodes) + 1 /\ path' = Len(inodes) + 1
        /\ inodes'[path'] = f /\ \A j \in 1..Len(inodes) : inodes'[j] = inodes[j]
    <3>1. Backup!CopyFileAtomic(f, TRUE)
      BY <1>5 DEF Backup!Install
    <3> HIDE DEF f
    <3> QED
      BY <1>1, <3>1, Installed
  <2>2. expected' = rs.data /\ touched' = TRUE /\ rs.data \in Backup!Data /\ inodes'[path'].data = rs.data
    <3>1. touched' /\ touched' \in BOOLEAN /\ expected' = rs.data
      BY <1>5 DEF Backup!Install
    <3>2. rs.data \in Backup!Data
      BY <1>1 DEF BackupTypes
    <3> QED
      BY <2>1, <3>1, <3>2
  <2>3. BackupTypes'
    BY <1>1, <1>3, <2>1, <2>2 DEF BackupTypes, Backup!Install
  <2>4. RestoreHolds'
    BY <1>1, <1>3, <1>5, <2>2 DEF BackupInv, Backup!Install, RestoreHolds, Backup!Up
  <2>5. OneLine'
    BY <2>2 DEF OneLine
  <2> QED
    BY <1>4, <2>3, <2>4, <2>5 DEF BackupInv
<1>6. CASE ~done
  <2>1. UNCHANGED <<inodes, path, expected>> /\ touched' = touched
    BY <1>1, <1>6 DEF Backup!Install, Backup!CopyFileAtomic, BackupTypes
  <2>2. BackupTypes'
    BY <1>1, <1>3, <2>1 DEF BackupTypes, Backup!Install
  <2>3. RestoreHolds'
    BY <1>1, <1>3, <1>6, <2>1 DEF BackupInv, Backup!Install, RestoreHolds, Backup!Up
  <2>4. OneLine'
    BY <1>3, <1>6, <2>1 DEF BackupInv, Backup!Install, OneLine, Backup!Up
  <2> QED
    BY <1>4, <2>2, <2>3, <2>4 DEF BackupInv
<1> QED
  BY <1>5, <1>6

LEMMA RecoverStep ==
    ASSUME BackupInv, NEW done \in BOOLEAN, Backup!Recover(done)
    PROVE  BackupInv'
<1> DEFINE f == [data |-> safety.data, line |-> safety.line, part |-> FALSE]
<1>1. BackupTypes /\ rs.pc = "recover" /\ inodes \in Seq(DbFiles) /\ f \in DbFiles
      /\ held \in 1..Len(inodes) /\ path \in 1..Len(inodes) /\ Len(inodes) \in Nat
  BY BackupFacts DEF BackupInv, BackupTypes, Backup!Recover, Backup!Up, DbFiles
<1>2. /\ rs' \in [pc : {"idle", "safety", "install", "recover", "shutdown"},
                  data : Backup!Data, line : Nat, from : Backup!Data]
      /\ rs'.pc = "idle"
  BY DEF Backup!Recover, Backup!NoRestore, Backup!Data
<1>3. MakingNewest' /\ Backup!NewestKept'
  BY DEF BackupInv, Backup!Recover, MakingNewest, Backup!NewestKept
<1>4. safety.data # Corrupt /\ expected # Corrupt
  BY <1>1 DEF BackupInv, RestoreHolds
<1>5. CASE done
  <2>1. /\ inodes' \in Seq(DbFiles) /\ Len(inodes') = Len(inodes) + 1 /\ path' = Len(inodes) + 1
        /\ inodes'[path'] = f /\ \A j \in 1..Len(inodes) : inodes'[j] = inodes[j]
    <3>1. Backup!CopyFileAtomic(f, TRUE)
      BY <1>5 DEF Backup!Recover
    <3> HIDE DEF f
    <3> QED
      BY <1>1, <3>1, Installed
  <2>2. touched' = TRUE /\ inodes'[path'].data # Corrupt
    <3>1. touched'
      BY <1>5 DEF Backup!Recover
    <3>2. touched' \in BOOLEAN
      BY <1>5 DEF Backup!Recover
    <3> QED
      BY <1>4, <2>1, <3>1, <3>2
  <2>3. BackupTypes'
    BY <1>1, <1>2, <2>1, <2>2 DEF BackupTypes, Backup!Recover
  <2>4. RestoreHolds'
    BY <1>2, <1>4, <2>2 DEF Backup!Recover, RestoreHolds
  <2>5. OneLine'
    BY <2>2 DEF OneLine
  <2> QED
    BY <1>3, <2>3, <2>4, <2>5 DEF BackupInv
<1>6. CASE ~done
  <2>1. UNCHANGED <<inodes, path>> /\ touched' = touched
    BY <1>1, <1>6 DEF Backup!Recover, Backup!CopyFileAtomic, BackupTypes
  <2>2. BackupTypes'
    BY <1>1, <1>2, <2>1 DEF BackupTypes, Backup!Recover
  <2>3. RestoreHolds'
    BY <1>1, <1>2, <2>1 DEF BackupInv, Backup!Recover, RestoreHolds, Backup!Up
  <2>4. OneLine'
    BY <1>2, <2>1 DEF BackupInv, Backup!Recover, OneLine, Backup!Up
  <2> QED
    BY <1>3, <2>2, <2>3, <2>4 DEF BackupInv
<1> QED
  BY <1>5, <1>6

LEMMA BackupStep ==
    ASSUME BackupInv, [Backup!Next]_backupVars
    PROVE  BackupInv'
<1>1. CASE Backup!Next
  BY <1>1, CommitStep, CheckpointStep, ExitStep, StartStep, VacuumStep, VerifyStep, RotateStep,
     UploadStep, RestoreStep, SafetyStep, InstallStep, RecoverStep, Zenon DEF Backup!Next
<1>2. CASE UNCHANGED backupVars
  BY <1>2 DEF backupVars, BackupInv, BackupTypes, MakingNewest, Backup!NewestKept,
     RestoreHolds, OneLine, Backup!Up
<1> QED
  BY <1>1, <1>2

LEMMA BackupInit == Init => BackupInv
<1> SUFFICES ASSUME Backup!Init PROVE BackupInv
  BY DEF Init
<1> DEFINE f == [data |-> {}, line |-> 1, part |-> FALSE]
<1>1. {} \in Backup!Data /\ f \in DbFiles /\ f.data = {} /\ f.line = 1
  BY DEF DbFiles, Backup!Data
<1>2. inodes = <<f>> /\ backups = <<>>
  BY DEF Backup!Init
<1> HIDE DEF f
<1>3. /\ inodes \in Seq(DbFiles) /\ Len(inodes) = 1 /\ inodes[1] = f
      /\ backups \in Seq(Archives) /\ Len(backups) = 0
  BY <1>1, <1>2
<1>4. {} # Corrupt /\ MaxTxn \in Nat
  <2>1. {} \in SUBSET (1..MaxTxn)
    OBVIOUS
  <2> QED
    BY <2>1, OperationsAssumption DEF Backup!Constants
<1>5. BackupTypes
  <2>1. /\ bk \in [pc : {"idle", "vacuum", "rotate", "upload"}, data : Backup!Data]
        /\ rs \in [pc : {"idle", "safety", "install", "recover", "shutdown"},
                   data : Backup!Data, line : Nat, from : Backup!Data]
    BY <1>1 DEF Backup!Init, Backup!NoBackup, Backup!NoRestore
  <2>2. /\ wal \in [line : Nat, txns : SUBSET (1..MaxTxn)]
        /\ safety \in [data : Backup!Data, line : Nat] /\ expected \in Backup!Data
    BY <1>1 DEF Backup!Init
  <2>3. path \in 1..Len(inodes) /\ held \in 0..Len(inodes) /\ lastTxn \in 0..MaxTxn /\ begun \in Nat
        /\ good \in 0..begun /\ touched \in BOOLEAN /\ \A i \in 1..Len(backups) : backups[i].id \in 1..begun
    <3>1. path = 1 /\ held = 1 /\ lastTxn = 0 /\ begun = 0 /\ good = 0 /\ touched = FALSE
      BY DEF Backup!Init
    <3>2. path \in 1..Len(inodes) /\ held \in 0..Len(inodes)
      BY <1>3, <3>1
    <3>3. lastTxn \in 0..MaxTxn /\ begun \in Nat /\ good \in 0..begun
      BY <1>4, <3>1
    <3>4. \A i \in 1..Len(backups) : backups[i].id \in 1..begun
      BY <1>3
    <3> QED
      BY <3>1, <3>2, <3>3, <3>4
  <2> QED
    BY <1>3, <2>1, <2>2, <2>3 DEF BackupTypes
<1>6. MakingNewest /\ Backup!NewestKept
  BY DEF Backup!Init, Backup!NoBackup, MakingNewest, Backup!NewestKept
<1>7. RestoreHolds /\ OneLine
  BY <1>1, <1>3, <1>4 DEF Backup!Init, Backup!NoRestore, RestoreHolds, OneLine, Backup!Up
<1> QED
  BY <1>5, <1>6, <1>7 DEF BackupInv

\* Backups and restores: once a backup was reported complete the newest such one
\* is there and whole under every retention; the file at the database's path is
\* never half of one ("via temp file + rename for atomicity"); the safety copy has
\* what the file had when the restore began; and without a restore a start finds
\* all that was committed, wherever the process stopped.
THEOREM BackupsAreSafe == Spec => []RestoreSafe
<1>1. BackupInv /\ [Next]_vars => BackupInv'
  BY BackupStep, StepsOfEach
<1>2. BackupInv => RestoreSafe
  <2> SUFFICES ASSUME BackupInv PROVE RestoreSafe
    OBVIOUS
  <2>1. BackupTypes /\ Backup!NewestKept /\ RestoreHolds /\ OneLine
    BY DEF BackupInv
  <2>2. Backup!PathWhole
    BY <2>1, BackupFacts DEF BackupTypes, Backup!PathWhole, DbFiles
  <2>3. Backup!SafetyHolds
    BY <2>1 DEF RestoreHolds, Backup!SafetyHolds
  <2>4. Backup!CommitsKept
    BY <2>1 DEF OneLine, Backup!CommitsKept, Backup!Content
  <2>5. wal.txns \in SUBSET (1..MaxTxn) /\ wal.txns # Corrupt
    <3>1. wal.txns \in SUBSET (1..MaxTxn)
      BY <2>1 DEF BackupTypes
    <3> QED
      BY <2>1, <3>1, BackupFacts
  <2>6. wal.txns \in Backup!Data \ {Corrupt}
    BY <2>5 DEF Backup!Data
  <2>7. \A i \in DOMAIN inodes : inodes[i].data \in Backup!Data
    BY <2>1, BackupFacts DEF DbFiles
  <2>8. \A i \in DOMAIN backups : backups[i].id \in 1..begun
    BY <2>1, BackupFacts DEF BackupTypes
  <2>9. Backup!TypeOK
    BY <2>1, <2>6, <2>7, <2>8, BackupFacts DEF BackupTypes, Backup!TypeOK
  <2> QED
    BY <2>1, <2>2, <2>3, <2>4, <2>9 DEF RestoreSafe
<1> QED
  BY BackupInit, <1>1, <1>2, PTL DEF Spec

-----------------------------------------------------------------------------
(* The login rate limit. *)

LimiterEntry == [attempts : Nat, windowStart : Nat, lockedUntil : Nat]

\* What is needed beside the types: a lockout that is not over is still in the map.
LimiterInv ==
    /\ clock \in Nat \ {0}
    /\ entries \in [Clients -> LimiterEntry]
    /\ lockedTill \in [Clients -> Nat]
    /\ \A ip \in Clients : clock < lockedTill[ip] => entries[ip].lockedUntil = lockedTill[ip]

\* What prune and evictOldest may do to a map of entries.
LimiterKeeps(es, fs) ==
    /\ fs \in [Clients -> LimiterEntry]
    /\ \A i \in Clients : fs[i] \in {es[i], Limiter!NoEntry} /\ (Limiter!Locked(es[i]) => fs[i] = es[i])

\* Limiter!NoEntry is an entry, and not a locked one.
LEMMA NoEntryLocks == Limiter!NoEntry \in LimiterEntry /\ (clock \in Nat => ~Limiter!Locked(Limiter!NoEntry))
  BY SMT DEF Limiter!NoEntry, LimiterEntry, Limiter!Locked

\* prune keeps the locked entries.
LEMMA PruneKeeps == ASSUME NEW es \in [Clients -> LimiterEntry] PROVE LimiterKeeps(es, Limiter!Prune(es))
  BY NoEntryLocks, SMT DEF LimiterKeeps, Limiter!Prune

\* evictOldest keeps the locked entries.
LEMMA EvictKeeps ==
    ASSUME NEW es \in [Clients -> LimiterEntry], NEW fs \in Limiter!EvictOldest(es)
    PROVE  LimiterKeeps(es, fs)
  <1> DEFINE Free == {ip \in Clients : es[ip] # Limiter!NoEntry /\ ~Limiter!Locked(es[ip])}
  <1>1. CASE Free = {}
    BY <1>1, SMT DEF LimiterKeeps, Limiter!EvictOldest
  <1>2. CASE Free # {}
    <2>1. PICK ip \in Free : fs = [es EXCEPT ![ip] = Limiter!NoEntry]
      BY <1>2, SMT DEF Limiter!EvictOldest
    <2> QED
      BY <2>1, NoEntryLocks, SMT DEF LimiterKeeps
  <1> QED
    BY <1>1, <1>2

\* Making room for an address loses no lockout.
LEMMA RoomsKeep ==
    ASSUME clock \in Nat, entries \in [Clients -> LimiterEntry], NEW ip \in Clients, NEW fs \in Limiter!Rooms(ip)
    PROVE  LimiterKeeps(entries, fs)
  <1>1. PICK es \in {entries, Limiter!Prune(entries)} : fs = es \/ fs \in Limiter!EvictOldest(es)
    BY SMT DEF Limiter!Rooms
  <1>2. LimiterKeeps(entries, es)
    BY <1>1, PruneKeeps, SMT DEF LimiterKeeps
  <1>3. LimiterKeeps(es, fs)
    BY <1>1, <1>2, EvictKeeps, SMT DEF LimiterKeeps
  <1> QED
    BY <1>2, <1>3, NoEntryLocks, SMT DEF LimiterKeeps

\* Beginning the window again leaves the lockout alone.
LEMMA WindowBegins ==
    ASSUME clock \in Nat, NEW e \in LimiterEntry
    PROVE  Limiter!InWindow(e) \in LimiterEntry /\ Limiter!InWindow(e).lockedUntil = e.lockedUntil
  BY SMT DEF Limiter!InWindow, LimiterEntry

\* The entry a request meets: the one in the map, or a new one, which is not locked.
LEMMA MetEntry ==
    ASSUME clock \in Nat, entries \in [Clients -> LimiterEntry], NEW ip \in Clients,
           NEW es, LimiterKeeps(entries, es)
    PROVE  /\ Limiter!EntryOf(es, ip) \in LimiterEntry
           /\ Limiter!InWindow(Limiter!EntryOf(es, ip)) \in LimiterEntry
           /\ Limiter!InWindow(Limiter!EntryOf(es, ip)).lockedUntil = Limiter!EntryOf(es, ip).lockedUntil
           /\ Limiter!Locked(entries[ip]) => Limiter!EntryOf(es, ip) = entries[ip]
           /\ Limiter!Locked(Limiter!EntryOf(es, ip)) => Limiter!EntryOf(es, ip) = entries[ip] /\ es[ip] = entries[ip]
  <1> DEFINE e == Limiter!EntryOf(es, ip)
  <1>1. e \in LimiterEntry
    BY NoEntryLocks, SMT DEF LimiterKeeps, Limiter!EntryOf, Limiter!NoEntry, LimiterEntry
  <1>2. Limiter!InWindow(e) \in LimiterEntry /\ Limiter!InWindow(e).lockedUntil = e.lockedUntil
    BY <1>1, WindowBegins
  <1>3. Limiter!Locked(entries[ip]) => es[ip] = entries[ip] /\ es[ip] # Limiter!NoEntry
    BY NoEntryLocks, Zenon DEF LimiterKeeps
  <1>4. Limiter!Locked(e) => es[ip] # Limiter!NoEntry
    BY SMT DEF Limiter!EntryOf, Limiter!NoEntry, Limiter!Locked
  <1>5. es[ip] # Limiter!NoEntry => e = es[ip] /\ es[ip] = entries[ip]
    BY SMT DEF Limiter!EntryOf, LimiterKeeps
  <1> QED
    BY <1>1, <1>2, <1>3, <1>4, <1>5, Zenon

\* The initial state has no lockout.
LEMMA LimiterInit == Limiter!Init => LimiterInv
  BY NoEntryLocks, SMT DEF Limiter!Init, LimiterInv, Limiter!Fresh

\* Every step keeps the lockouts that are not over.
LEMMA LimiterStep == ASSUME Limiter!Constants, LimiterInv, [Limiter!Next]_limiterVars PROVE LimiterInv'
  <1> USE DEF LimiterInv
  <1>1. CASE Limiter!Tick
    BY <1>1, SMT DEF Limiter!Tick
  <1>2. CASE Limiter!Restart
    BY <1>2, NoEntryLocks, SMT DEF Limiter!Restart, Limiter!Fresh
  <1>3. ASSUME NEW ip \in Clients, Limiter!Admitted(ip) PROVE LimiterInv'
    <2>1. PICK es \in Limiter!Rooms(ip) :
              /\ ~Limiter!Locked(Limiter!EntryOf(es, ip))
              /\ entries' = [es EXCEPT ![ip] = [Limiter!InWindow(Limiter!EntryOf(es, ip)) EXCEPT !.attempts = @ + 1]]
              /\ UNCHANGED <<clock, lockedTill>>
      BY <1>3, Zenon DEF Limiter!Admitted
    <2>2. LimiterKeeps(entries, es)
      BY RoomsKeep
    <2>3. Limiter!EntryOf(es, ip) \in LimiterEntry /\ Limiter!InWindow(Limiter!EntryOf(es, ip)) \in LimiterEntry
          /\ (Limiter!Locked(entries[ip]) => Limiter!EntryOf(es, ip) = entries[ip])
      BY <2>2, MetEntry
    <2>4. entries' \in [Clients -> LimiterEntry]
      BY <2>1, <2>2, <2>3, SMT DEF LimiterKeeps, LimiterEntry
    <2>5. \A i \in Clients : clock < lockedTill[i] => Limiter!Locked(entries[i])
      BY SMT DEF Limiter!Locked
    <2>6. \A i \in Clients : clock < lockedTill[i] => i # ip /\ entries'[i] = entries[i]
      BY <2>1, <2>2, <2>3, <2>5, SMT DEF LimiterKeeps
    <2> QED
      BY <2>1, <2>4, <2>6, SMT
  <1>4. ASSUME NEW ip \in Clients, Limiter!Limited(ip) PROVE LimiterInv'
    <2>1. PICK es \in Limiter!Rooms(ip) :
              IF Limiter!Locked(Limiter!EntryOf(es, ip))
              THEN entries' = [es EXCEPT ![ip] = Limiter!EntryOf(es, ip)] /\ UNCHANGED lockedTill
              ELSE /\ entries' = [es EXCEPT ![ip] =
                          [attempts |-> 0, windowStart |-> clock, lockedUntil |-> clock + Lockout]]
                   /\ lockedTill' = [lockedTill EXCEPT ![ip] = clock + Lockout]
      BY <1>4, Zenon DEF Limiter!Limited
    <2>2. clock' = clock
      BY <1>4 DEF Limiter!Limited
    <2>3. LimiterKeeps(entries, es)
      BY RoomsKeep
    <2>4. Limiter!EntryOf(es, ip) \in LimiterEntry
          /\ (Limiter!Locked(entries[ip]) => Limiter!EntryOf(es, ip) = entries[ip])
      BY <2>3, MetEntry
    <2>5. \A i \in Clients : clock < lockedTill[i] => Limiter!Locked(entries[i])
      BY SMT DEF Limiter!Locked
    <2>6. CASE Limiter!Locked(Limiter!EntryOf(es, ip))
      BY <2>1, <2>2, <2>3, <2>4, <2>5, <2>6, SMT DEF LimiterKeeps
    <2>7. CASE ~Limiter!Locked(Limiter!EntryOf(es, ip))
      <3>1. Lockout \in Nat
        BY DEF Limiter!Constants
      <3> DEFINE e == [attempts |-> 0, windowStart |-> clock, lockedUntil |-> clock + Lockout]
      <3>2. e \in LimiterEntry /\ e.lockedUntil = clock + Lockout /\ clock + Lockout \in Nat
        BY <3>1, SMT DEF LimiterEntry
      <3>3. entries' = [es EXCEPT ![ip] = e] /\ lockedTill' = [lockedTill EXCEPT ![ip] = clock + Lockout]
        BY <2>1, <2>7
      <3> HIDE DEF e
      <3>4. \A i \in Clients : clock < lockedTill[i] => es[i] = entries[i]
        BY <2>3, <2>5, Zenon DEF LimiterKeeps
      <3> QED
        BY <2>2, <2>3, <3>2, <3>3, <3>4, SMT DEF LimiterKeeps
    <2> QED
      BY <2>6, <2>7
  <1>5. CASE UNCHANGED limiterVars
    BY <1>5, SMT DEF limiterVars
  <1> QED
    BY <1>1, <1>2, <1>3, <1>4, <1>5 DEF Limiter!Next

\* A step that counts a login of an address comes after its lockout.
LEMMA CountsAfterLockout ==
    ASSUME LimiterInv, [Limiter!Next]_limiterVars, NEW ip \in Clients,
           entries'[ip] # entries[ip], entries'[ip].attempts > 0
    PROVE  lockedTill[ip] <= clock
  <1> USE DEF LimiterInv
  <1>1. CASE Limiter!Tick
    BY <1>1 DEF Limiter!Tick
  <1>2. CASE Limiter!Restart
    BY <1>2, SMT DEF Limiter!Restart, Limiter!Fresh, Limiter!NoEntry
  <1>3. ASSUME NEW c \in Clients, Limiter!Admitted(c) PROVE lockedTill[ip] <= clock
    <2>1. PICK es \in Limiter!Rooms(c) :
              /\ ~Limiter!Locked(Limiter!EntryOf(es, c))
              /\ entries' = [es EXCEPT ![c] = [Limiter!InWindow(Limiter!EntryOf(es, c)) EXCEPT !.attempts = @ + 1]]
      BY <1>3, Zenon DEF Limiter!Admitted
    <2>2. LimiterKeeps(entries, es)
      BY RoomsKeep
    <2>3. Limiter!Locked(entries[c]) => Limiter!EntryOf(es, c) = entries[c]
      BY <2>2, MetEntry
    <2>4. CASE ip = c
      BY <2>1, <2>3, <2>4, SMT DEF Limiter!Locked
    <2>5. CASE ip # c
      BY <2>1, <2>2, <2>5, SMT DEF LimiterKeeps, Limiter!NoEntry
    <2> QED
      BY <2>4, <2>5
  <1>4. ASSUME NEW c \in Clients, Limiter!Limited(c) PROVE lockedTill[ip] <= clock
    <2>1. PICK es \in Limiter!Rooms(c) :
              IF Limiter!Locked(Limiter!EntryOf(es, c))
              THEN entries' = [es EXCEPT ![c] = Limiter!EntryOf(es, c)]
              ELSE entries' = [es EXCEPT ![c] =
                          [attempts |-> 0, windowStart |-> clock, lockedUntil |-> clock + Lockout]]
      BY <1>4, Zenon DEF Limiter!Limited
    <2>2. LimiterKeeps(entries, es)
      BY RoomsKeep
    <2>3. Limiter!Locked(Limiter!EntryOf(es, c)) => Limiter!EntryOf(es, c) = entries[c]
      BY <2>2, MetEntry
    <2>4. FALSE
      BY <2>1, <2>2, <2>3, SMT DEF LimiterKeeps, Limiter!NoEntry
    <2> QED
      BY <2>4
  <1>5. CASE UNCHANGED limiterVars
    BY <1>5 DEF limiterVars
  <1> QED
    BY <1>1, <1>2, <1>3, <1>4, <1>5 DEF Limiter!Next

\* LoginLimiter in the whole service: no request of an address with a lockout running is
\* let through, for any limits, windows and addresses, although entries are pruned and
\* evicted when the map is full, and whatever else the service does meanwhile.
THEOREM LockedOut == Spec => LockoutHolds
<1>1. LimiterInv /\ [Next]_vars => LimiterInv'
  <2>1. Limiter!Constants
    BY OperationsAssumption
  <2> QED
    BY <2>1, StepsOfEach, LimiterStep
<1>2. LimiterInv /\ [Next]_vars =>
        [\A ip \in Clients :
           entries'[ip] # entries[ip] /\ entries'[ip].attempts > 0 => lockedTill[ip] <= clock]_(Limiter!vars)
  BY StepsOfEach, CountsAfterLockout DEF limiterVars, Limiter!vars
<1>3. Init => LimiterInv
  BY LimiterInit DEF Init
<1> QED
  BY <1>1, <1>2, <1>3, PTL DEF Spec, LockoutHolds, Limiter!LockoutHolds

-----------------------------------------------------------------------------
(* The start: schema, seeding, import. *)

BootTypes ==
    /\ effects \in [Start!All -> Nat] /\ recorded \in SUBSET Start!All
    /\ tx \in [owner : Start!Procs \cup {None}, next : Nat, effects : [Start!All -> Nat], recorded : SUBSET Start!All]
    /\ process \in [Start!Procs -> {"down", "migrate", "apply", "seed", "seeding", "on", "scan", "dirs", "done"}]
    /\ process["server"] \in {"down", "migrate", "apply", "seed", "seeding", "on"}
    /\ process["tool"] \in {"down", "migrate", "apply", "scan", "dirs", "done"}
    /\ todo \in [Start!Procs -> SUBSET Start!Projects]
    /\ projects \in SUBSET Start!Projects
    /\ imported \in [Start!Projects \X DirFiles -> Nat]
    /\ \A q \in Start!Projects \X DirFiles : imported[q] > 0 => q[1] \in projects
    /\ \/ cur = Start!NoDir
       \/ cur \in [dir : MCDirs, project : Start!Projects, left : SUBSET DirFiles, file : DirFiles \cup {None}]

\* The transaction's schema is consistent as well, has all migrations before the
\* next one, and belongs to the process that applies it.
MigratingHolds ==
    /\ Start!MigratedOnce /\ Start!ReadySchema
    /\ \A m \in Start!All : tx.effects[m] = IF m \in tx.recorded THEN 1 ELSE 0
    /\ tx.next > 0 /\ \A m \in Start!All : m < tx.next => m \in tx.recorded
    /\ \A p \in Start!Procs : process[p] = "apply" => tx.owner = p

\* What is seeded and what is still to be seeded are the projects that nobody deleted.
SeedingHolds ==
    /\ process["server"] \in {"seeding", "on"} /\ ~partial =>
          (projects \cup todo["server"]) \cap {p1, p2} = {p1, p2} \ gone
    /\ process["server"] = "on" => todo["server"] = {}

\* All files of d have rows, if d has the name of its project.
DirDone(d) == d \in projects => \A f \in DirFiles : <<d, f>> \in disk => imported[<<d, f>>] > 0

\* Alone, the tool finds a file as it left it: the one it is about to insert has no
\* row, the ones of the directory that it has passed have one, and so have all of
\* the directories that it has closed.
ImportingHolds ==
    /\ cur # Start!NoDir => process["tool"] = "dirs"
    /\ ~crossed => \A q \in Start!Projects \X DirFiles : imported[q] <= 1
    /\ ~crossed /\ cur # Start!NoDir =>
          /\ cur.project \in projects
          /\ cur.project = cur.dir \/ (cur.dir \notin {p1, p2} /\ cur.dir \notin projects)
          /\ cur.file # None => imported[<<cur.project, cur.file>>] = 0
          /\ \A f \in DirFiles : <<cur.dir, f>> \in disk /\ f \notin cur.left => imported[<<cur.project, f>>] > 0
    /\ ~crossed /\ process["tool"] \in {"dirs", "done"} =>
          \A d \in MCDirs \ todo["tool"] : DirDone(d) /\ (d \in {p1, p2} => d \in projects)
    /\ process["tool"] = "done" => todo["tool"] = {}

BootInv == BootTypes /\ MigratingHolds /\ SeedingHolds /\ ImportingHolds

LEMMA BootFacts ==
    /\ Migrations \in Nat /\ Start!All = 1..Migrations /\ Start!Procs = {"server", "tool"}
    /\ None # "server" /\ None # "tool" /\ None \notin MCDirs /\ None \notin DirFiles
    /\ MCDirs \subseteq Start!Projects /\ {p1, p2} \subseteq Start!Projects
    /\ \A d \in MCDirs : /\ Start!NameFor(d) = d \/ Start!NameFor(d) \in {p1, p2}
                         /\ d \in {p1, p2} => Start!NameFor(d) = d
<1>1. /\ Migrations \in Nat /\ None \notin MCDirs \cup DirFiles \cup {"server", "tool"}
      /\ MCMatch \in [MCDirs -> {p1, p2} \cup {None}]
      /\ \A d \in MCDirs \cap {p1, p2} : MCMatch[d] = d
  BY OperationsAssumption DEF Start!Constants
<1>2. \A d \in MCDirs : /\ Start!NameFor(d) = d \/ Start!NameFor(d) \in {p1, p2}
                        /\ d \in {p1, p2} => Start!NameFor(d) = d
  BY <1>1 DEF Start!NameFor
<1> QED
  BY <1>1, <1>2 DEF Start!All, Start!Procs, Start!Projects

\* Types: the migrations.
LEMMA TxTypes ==
    ASSUME BootTypes, NEW p \in Start!Procs,
           Start!Start(p) \/ Start!Begin(p) \/ Start!Apply(p) \/ Start!Commit(p) \/ Start!Exit(p),
           tx.next > 0
    PROVE  BootTypes'
<1> USE BootFacts
<1>1. CASE Start!Start(p)
  BY <1>1 DEF BootTypes, Start!Start, Start!Goto
<1>2. CASE Start!Begin(p)
  BY <1>2 DEF BootTypes, Start!Begin, Start!Goto
<1>3. CASE Start!Apply(p)
  <2>1. tx' \in [owner : Start!Procs \cup {None}, next : Nat, effects : [Start!All -> Nat], recorded : SUBSET Start!All]
    <3> DEFINE m == tx.next
               e == [tx.effects EXCEPT ![m] = @ + 1]
    <3>1. m \in Start!All /\ m + 1 \in Nat /\ e \in [Start!All -> Nat] /\ tx.recorded \cup {m} \in SUBSET Start!All
      BY <1>3 DEF BootTypes, Start!Apply
    <3>2. tx \in [owner : Start!Procs \cup {None}, next : Nat, effects : [Start!All -> Nat], recorded : SUBSET Start!All]
      BY DEF BootTypes
    <3>3. CASE m \in tx.recorded
      <4>1. tx' = [tx EXCEPT !.next = m + 1]
        BY <1>3, <3>3 DEF Start!Apply, Start!Migrated
      <4> HIDE DEF m, e
      <4> QED
        BY <3>1, <3>2, <4>1
    <3>4. CASE m \notin tx.recorded
      <4>1. tx' = [tx EXCEPT !.next = m + 1, !.effects = e, !.recorded = tx.recorded \cup {m}]
        BY <1>3, <3>4, Zenon DEF Start!Apply, Start!Migrated
      <4> HIDE DEF m, e
      <4> QED
        BY <3>1, <3>2, <4>1
    <3> QED
      BY <3>3, <3>4
  <2> QED
    BY <1>3, <2>1 DEF BootTypes, Start!Apply
<1>4. Start!NoTx \in [owner : Start!Procs \cup {None}, next : Nat, effects : [Start!All -> Nat], recorded : SUBSET Start!All]
  BY DEF Start!NoTx
<1>5. CASE Start!Commit(p)
  BY <1>4, <1>5 DEF BootTypes, Start!Commit, Start!Goto
<1>6. CASE Start!Exit(p)
  BY <1>4, <1>6 DEF BootTypes, Start!Exit, Start!Goto
<1> QED
  BY <1>1, <1>2, <1>3, <1>5, <1>6

\* Types: the server.
LEMMA ServerTypes ==
    ASSUME BootTypes,
           \/ Start!Seed \/ Start!Serve
           \/ \E n \in Start!Projects : \/ Start!SeedOne(n) \/ Start!DeleteProject(n)
                                       \/ \E f \in DirFiles : Start!Crawl(n, f)
    PROVE  BootTypes'
<1> USE BootFacts
<1>1. CASE Start!Seed
  BY <1>1 DEF BootTypes, Start!Seed, Start!ToSeed, Start!Goto
<1>2. CASE Start!Serve
  BY <1>2 DEF BootTypes, Start!Serve, Start!Goto
<1>3. ASSUME NEW n \in Start!Projects, Start!SeedOne(n) PROVE BootTypes'
  BY <1>3 DEF BootTypes, Start!SeedOne
<1>4. ASSUME NEW n \in Start!Projects, Start!DeleteProject(n) PROVE BootTypes'
  BY <1>4 DEF BootTypes, Start!DeleteProject
<1>5. ASSUME NEW n \in Start!Projects, NEW f \in DirFiles, Start!Crawl(n, f) PROVE BootTypes'
  BY <1>5, SMTT(30) DEF BootTypes, Start!Crawl
<1> QED
  BY <1>1, <1>2, <1>3, <1>4, <1>5

\* Types: the import tool.
LEMMA ToolTypes ==
    ASSUME BootTypes,
           \/ Start!Scan \/ Start!ImportFile \/ Start!CloseDir \/ Start!Finish
           \/ \E d \in MCDirs : Start!OpenDir(d) \/ \E f \in DirFiles : Start!Drop(d, f)
           \/ \E f \in DirFiles : Start!FindExisting(f)
    PROVE  BootTypes'
<1> USE BootFacts
<1>1. CASE Start!Scan
  BY <1>1 DEF BootTypes, Start!Scan, Start!Goto
<1>2. CASE Start!ImportFile
  <2>1. cur \in [dir : MCDirs, project : Start!Projects, left : SUBSET DirFiles, file : DirFiles \cup {None}]
        /\ cur.file \in DirFiles
    BY <1>2 DEF BootTypes, Start!ImportFile, Start!NoDir
  <2>2. cur' \in [dir : MCDirs, project : Start!Projects, left : SUBSET DirFiles, file : DirFiles \cup {None}]
    BY <1>2, <2>1 DEF Start!ImportFile
  <2>3. imported' \in [Start!Projects \X DirFiles -> Nat]
    BY <1>2, <2>1 DEF BootTypes, Start!ImportFile
  <2>4. \A q \in Start!Projects \X DirFiles : imported'[q] > 0 => q[1] \in projects
    BY <1>2, <2>1 DEF BootTypes, Start!ImportFile
  <2> QED
    BY <1>2, <2>2, <2>3, <2>4 DEF BootTypes, Start!ImportFile
<1>3. CASE Start!CloseDir
  BY <1>3 DEF BootTypes, Start!CloseDir
<1>4. CASE Start!Finish
  BY <1>4 DEF BootTypes, Start!Finish, Start!Goto
<1>5. ASSUME NEW d \in MCDirs, Start!OpenDir(d) PROVE BootTypes'
  <2> DEFINE name == IF d \in projects THEN d ELSE Start!NameFor(d)
             next == [dir |-> d, project |-> name, left |-> {g \in DirFiles : <<d, g>> \in disk}, file |-> None]
  <2>1. name \in Start!Projects
    OBVIOUS
  <2>2. next \in [dir : MCDirs, project : Start!Projects, left : SUBSET DirFiles, file : DirFiles \cup {None}]
    BY <2>1
  <2>3. \/ todo' = [todo EXCEPT !["tool"] = @ \ {d}] /\ UNCHANGED <<projects, cur>>
        \/ projects' = projects \cup {name} /\ cur' = next /\ UNCHANGED todo
    BY <1>5 DEF Start!OpenDir
  <2> HIDE DEF name, next
  <2> QED
    BY <1>5, <2>1, <2>2, <2>3 DEF BootTypes, Start!OpenDir
<1>6. ASSUME NEW d \in MCDirs, NEW f \in DirFiles, Start!Drop(d, f) PROVE BootTypes'
  BY <1>6 DEF BootTypes, Start!Drop
<1>7. ASSUME NEW f \in DirFiles, Start!FindExisting(f) PROVE BootTypes'
  BY <1>7 DEF BootTypes, Start!FindExisting
<1> QED
  BY <1>1, <1>2, <1>3, <1>4, <1>5, <1>6, <1>7

LEMMA BootTypesStep ==
    ASSUME BootTypes, MigratingHolds, Start!Next
    PROVE  BootTypes'
<1>1. ASSUME NEW p \in Start!Procs,
             Start!Start(p) \/ Start!Begin(p) \/ Start!Apply(p) \/ Start!Commit(p) \/ Start!Exit(p)
      PROVE  BootTypes'
  BY <1>1, TxTypes DEF MigratingHolds
<1> QED
  BY <1>1, ServerTypes, ToolTypes, Zenon DEF Start!Next

\* Migrations take effect once.
LEMMA MigratingStep ==
    ASSUME BootTypes, MigratingHolds, Start!Next
    PROVE  MigratingHolds'
<1> USE BootFacts DEF MigratingHolds, Start!MigratedOnce, Start!ReadySchema
<1>1. ASSUME NEW p \in Start!Procs, Start!Start(p) PROVE MigratingHolds'
  BY <1>1 DEF BootTypes, Start!Start, Start!Goto
<1>2. ASSUME NEW p \in Start!Procs, Start!Begin(p) PROVE MigratingHolds'
  BY <1>2 DEF BootTypes, Start!Begin, Start!Goto
<1>3. ASSUME NEW p \in Start!Procs, Start!Apply(p) PROVE MigratingHolds'
  BY <1>3 DEF BootTypes, Start!Apply, Start!Migrated
<1>4. ASSUME NEW p \in Start!Procs, Start!Commit(p) PROVE MigratingHolds'
  <2>1. tx.recorded = Start!All
    <3>1. tx.recorded \subseteq Start!All /\ tx.next \in Nat /\ tx.next > Migrations
      BY <1>4 DEF BootTypes, Start!Commit
    <3>2. \A m \in Start!All : m \in tx.recorded
      BY <3>1
    <3> QED
      BY <3>1, <3>2
  <2>2. effects' = tx.effects /\ recorded' = Start!All /\ tx' = Start!NoTx
    BY <1>4, <2>1 DEF Start!Commit
  <2>3. \A q \in Start!Procs : process'[q] # "apply"
    BY <1>4 DEF BootTypes, Start!Commit, Start!Goto
  <2>4. process'["server"] \in {"seed", "seeding", "on"} => fk'
    BY <1>4 DEF BootTypes, Start!Commit, Start!Goto, Start!ForeignKeys
  <2> QED
    BY <2>1, <2>2, <2>3, <2>4 DEF Start!NoTx
<1>5. ASSUME NEW p \in Start!Procs, Start!Exit(p) PROVE MigratingHolds'
  BY <1>5 DEF BootTypes, Start!Exit, Start!Goto, Start!NoTx
<1>6. CASE Start!Seed
  BY <1>6 DEF BootTypes, Start!Seed, Start!Goto
<1>7. CASE Start!Serve
  BY <1>7 DEF BootTypes, Start!Serve, Start!Goto
<1>8. CASE Start!Scan
  BY <1>8 DEF BootTypes, Start!Scan, Start!Goto
<1>9. CASE Start!Finish
  BY <1>9 DEF BootTypes, Start!Finish, Start!Goto
<1>10. CASE UNCHANGED <<effects, recorded, tx, process, fk>>
  BY <1>10
<1> QED
  BY <1>1, <1>2, <1>3, <1>4, <1>5, <1>6, <1>7, <1>8, <1>9, <1>10
     DEF Start!Next, Start!SeedOne, Start!DeleteProject, Start!Crawl, Start!ImportFile,
         Start!CloseDir, Start!OpenDir, Start!Drop, Start!FindExisting

\* The projects of the configuration are seeded once.
LEMMA SeedingStep ==
    ASSUME BootTypes, SeedingHolds, Start!Next
    PROVE  SeedingHolds'
<1> USE BootFacts DEF SeedingHolds
<1>1. ASSUME NEW p \in Start!Procs, Start!Start(p) PROVE SeedingHolds'
  BY <1>1 DEF BootTypes, Start!Start, Start!Goto
<1>2. ASSUME NEW p \in Start!Procs, Start!Begin(p) PROVE SeedingHolds'
  BY <1>2 DEF BootTypes, Start!Begin, Start!Goto
<1>4. ASSUME NEW p \in Start!Procs, Start!Commit(p) PROVE SeedingHolds'
  BY <1>4 DEF BootTypes, Start!Commit, Start!Goto
<1>5. ASSUME NEW p \in Start!Procs, Start!Exit(p) PROVE SeedingHolds'
  BY <1>5 DEF BootTypes, Start!Exit, Start!Goto
<1>6. CASE Start!Seed
  <2>1. process'["server"] = "seeding" /\ UNCHANGED projects
        /\ todo'["server"] = IF projects = {} THEN {p1, p2} ELSE {}
    BY <1>6 DEF BootTypes, Start!Seed, Start!Goto, Start!ToSeed
  <2>2. CASE projects = {}
    BY <1>6, <2>1, <2>2 DEF Start!Seed
  <2>3. CASE projects # {} /\ ~partial'
    <3>1. projects \cap {p1, p2} = {p1, p2} \ gone /\ gone' = gone
      BY <1>6, <2>3 DEF Start!Seed
    <3> QED
      BY <2>1, <2>3, <3>1
  <2> QED
    BY <2>1, <2>2, <2>3
<1>7. CASE Start!Serve
  BY <1>7 DEF BootTypes, Start!Serve, Start!Goto
<1>8. CASE Start!Scan
  BY <1>8 DEF BootTypes, Start!Scan, Start!Goto
<1>9. CASE Start!Finish
  BY <1>9 DEF BootTypes, Start!Finish, Start!Goto
<1>10. ASSUME NEW n \in Start!Projects, Start!SeedOne(n) PROVE SeedingHolds'
  BY <1>10 DEF BootTypes, Start!SeedOne
<1>11. ASSUME NEW n \in Start!Projects, Start!DeleteProject(n) PROVE SeedingHolds'
  BY <1>11 DEF BootTypes, Start!DeleteProject
<1>12. ASSUME NEW d \in MCDirs, Start!OpenDir(d) PROVE SeedingHolds'
  <2>1. UNCHANGED <<process, gone>> /\ todo'["server"] = todo["server"]
    BY <1>12 DEF BootTypes, Start!OpenDir
  <2>2. partial' \/ (~partial /\ projects' \cap {p1, p2} = projects \cap {p1, p2})
    <3> DEFINE name == Start!NameFor(d)
    <3>1. CASE d \in projects
      <4>1. projects' = projects \cup {d} /\ partial' = (partial \/ FALSE)
        BY <1>12, <3>1 DEF Start!OpenDir
      <4>2. projects \cup {d} = projects
        BY <3>1
      <4> QED
        BY <4>1, <4>2, Zenon
    <3>2. CASE d \notin projects /\ name \in projects
      <4>1. projects' = projects /\ partial' = partial
        BY <1>12, <3>2 DEF Start!OpenDir
      <4> QED
        BY <4>1, Zenon
    <3>3. CASE d \notin projects /\ name \notin projects
      <4>1. projects' = projects \cup {name} /\ partial' = (partial \/ name \in {p1, p2} \/ projects = {})
        BY <1>12, <3>3 DEF Start!OpenDir
      <4> HIDE DEF name
      <4>2. name \notin {p1, p2} => (projects \cup {name}) \cap {p1, p2} = projects \cap {p1, p2}
        OBVIOUS
      <4> QED
        BY <4>1, <4>2, Zenon
    <3> QED
      BY <3>1, <3>2, <3>3
  <2> QED
    BY <2>1, <2>2
<1>13. CASE Start!CloseDir
  BY <1>13 DEF BootTypes, Start!CloseDir
<1>14. CASE UNCHANGED <<process, partial, projects, todo, gone>>
  BY <1>14
<1> QED
  BY <1>1, <1>2, <1>4, <1>5, <1>6, <1>7, <1>8, <1>9, <1>10, <1>11, <1>12, <1>13, <1>14
     DEF Start!Next, Start!Apply, Start!Crawl, Start!ImportFile, Start!Drop, Start!FindExisting

\* The server's steps count as crossing an import that is under way.
LEMMA ServerCrosses ==
    ASSUME BootTypes, ImportingHolds, NEW n \in Start!Projects,
           \/ Start!SeedOne(n) \/ Start!DeleteProject(n)
           \/ \E f \in DirFiles : Start!Crawl(n, f)
    PROVE  ImportingHolds'
<1> USE BootFacts
<1>1. UNCHANGED <<process, cur, disk>> /\ todo'["tool"] = todo["tool"] /\ crossed' = (crossed \/ process["tool"] # "down")
  BY ZenonT(40) DEF BootTypes, Start!SeedOne, Start!DeleteProject, Start!Crawl, Start!Crossed
<1>2. CASE process["tool"] # "down"
  BY <1>1, <1>2 DEF ImportingHolds
<1>3. CASE process["tool"] = "down"
  <2>1. cur = Start!NoDir /\ (crossed' <=> crossed)
    BY <1>1, <1>3 DEF ImportingHolds
  <2>2. ~crossed => \A q \in Start!Projects \X DirFiles : imported'[q] <= 1
    <3> SUFFICES ASSUME ~crossed, NEW q \in Start!Projects \X DirFiles PROVE imported'[q] <= 1
      OBVIOUS
    <3>1. imported[q] <= 1 /\ imported[q] \in Nat
      BY DEF ImportingHolds, BootTypes
    <3>2. imported'[q] \in {0, 1, imported[q]}
      <4>1. CASE Start!SeedOne(n)
        BY <4>1 DEF Start!SeedOne
      <4>2. CASE Start!DeleteProject(n)
        BY <4>2 DEF Start!DeleteProject
      <4>3. ASSUME NEW f \in DirFiles, Start!Crawl(n, f) PROVE imported'[q] \in {0, 1, imported[q]}
        BY <4>3 DEF BootTypes, Start!Crawl
      <4> QED
        BY <4>1, <4>2, <4>3
    <3> QED
      BY <3>1, <3>2
  <2> QED
    BY <1>1, <1>3, <2>1, <2>2 DEF ImportingHolds
<1> QED
  BY <1>2, <1>3

\* An import that is alone finds and leaves the rows in order.
LEMMA OpenDirStep ==
    ASSUME BootTypes, ImportingHolds, NEW d \in MCDirs, Start!OpenDir(d)
    PROVE  ImportingHolds'
<1> DEFINE name == Start!NameFor(d)
<1>1. /\ UNCHANGED <<process, imported, disk, crossed>> /\ process["tool"] = "dirs" /\ cur = Start!NoDir
      /\ d \in todo["tool"] /\ todo["tool"] \subseteq Start!Projects
  BY BootFacts DEF BootTypes, Start!OpenDir
<1>2. (name = d \/ name \in {p1, p2}) /\ (d \in {p1, p2} => name = d)
  BY BootFacts
<1>3. CASE d \notin projects /\ name \in projects
  <2>1. todo' = [todo EXCEPT !["tool"] = @ \ {d}] /\ UNCHANGED <<projects, cur>>
    BY <1>3 DEF Start!OpenDir
  <2>2. todo'["tool"] = todo["tool"] \ {d}
    BY <2>1, BootFacts DEF BootTypes
  <2>3. d \notin {p1, p2}
    BY <1>2, <1>3
  <2> HIDE DEF name
  <2>4. ~crossed => \A e \in MCDirs \ todo'["tool"] : DirDone(e)' /\ (e \in {p1, p2} => e \in projects')
    BY <1>1, <1>3, <2>1, <2>2, <2>3 DEF ImportingHolds, DirDone
  <2> QED
    BY <1>1, <2>1, <2>4 DEF ImportingHolds
<1>4. CASE ~(d \notin projects /\ name \in projects)
  <2> DEFINE project == IF d \in projects THEN d ELSE name
  <2>1. /\ projects' = projects \cup {project} /\ UNCHANGED todo
        /\ cur' = [dir |-> d, project |-> project, left |-> {f \in DirFiles : <<d, f>> \in disk}, file |-> None]
    BY <1>4 DEF Start!OpenDir
  <2>2. project = d \/ (d \notin {p1, p2} /\ d \notin projects /\ project # d /\ project \in {p1, p2})
    BY <1>2
  <2>3. project \in projects \/ project = d \/ project \in {p1, p2}
    BY <2>2
  <2>4. project \notin projects => d \notin projects /\ project = name
    BY <1>4
  <2> HIDE DEF name, project
  <2>5. cur'.dir = d /\ cur'.project = project /\ cur'.file = None
        /\ \A f \in DirFiles : <<d, f>> \in disk => f \in cur'.left
    BY <2>1
  \* a directory that was closed before does not get a project of its name now
  <2>6. ~crossed => \A e \in MCDirs \ todo["tool"] : e \in projects' => e \in projects
    <3> SUFFICES ASSUME ~crossed, NEW e \in MCDirs \ todo["tool"], e \in projects', e \notin projects PROVE FALSE
      OBVIOUS
    <3>1. e = project /\ e # d
      BY <1>1, <2>1
    <3>2. e \in {p1, p2}
      BY <2>2, <3>1
    <3> QED
      BY <1>1, <3>2 DEF ImportingHolds
  <2>7. ~crossed => \A e \in MCDirs \ todo["tool"] : DirDone(e)' /\ (e \in {p1, p2} => e \in projects')
    BY <1>1, <2>1, <2>6 DEF ImportingHolds, DirDone
  <2>8. cur'.project \in projects' /\ (cur'.project = cur'.dir \/ (cur'.dir \notin {p1, p2} /\ cur'.dir \notin projects'))
    BY <2>1, <2>2, <2>5
  <2> QED
    BY <1>1, <2>1, <2>5, <2>7, <2>8 DEF ImportingHolds
<1> QED
  BY <1>3, <1>4

LEMMA ImportFileStep ==
    ASSUME BootTypes, ImportingHolds, Start!ImportFile
    PROVE  ImportingHolds'
<1>1. cur \in [dir : MCDirs, project : Start!Projects, left : SUBSET DirFiles, file : DirFiles \cup {None}]
      /\ cur.file \in DirFiles /\ cur # Start!NoDir /\ UNCHANGED <<process, projects, disk, crossed, todo>>
      /\ process["tool"] = "dirs"
  BY BootFacts DEF BootTypes, Start!ImportFile, Start!NoDir
<1>2. cur' = [cur EXCEPT !.left = cur.left \ {cur.file}, !.file = None]
  BY DEF Start!ImportFile
<1>3. cur'.dir = cur.dir /\ cur'.project = cur.project /\ cur'.left = cur.left \ {cur.file} /\ cur'.file = None
  BY <1>1, <1>2
<1>4. CASE crossed
  BY <1>1, <1>4 DEF ImportingHolds
<1>5. CASE ~crossed
  <2> DEFINE q == <<cur.project, cur.file>>
  <2>1. cur.project \in projects /\ q \in Start!Projects \X DirFiles /\ imported[q] = 0
    BY <1>1, <1>5, BootFacts DEF ImportingHolds
  <2>2. imported' = [imported EXCEPT ![q] = @ + 1]
    BY <2>1 DEF Start!ImportFile
  <2>3. imported'[q] = 1 /\ \A r \in Start!Projects \X DirFiles : imported'[r] = imported[r] \/ (r = q /\ imported'[r] = 1)
    BY <2>1, <2>2 DEF BootTypes
  <2>4. \A r \in Start!Projects \X DirFiles : /\ imported'[r] >= imported[r] /\ imported'[r] <= 1
                                               /\ imported[r] \in Nat /\ imported'[r] \in Nat
    BY <1>5, <2>1, <2>3 DEF BootTypes, ImportingHolds
  <2>5. \A f \in DirFiles : <<cur.dir, f>> \in disk /\ f \notin cur'.left => imported'[<<cur.project, f>>] > 0
    <3> SUFFICES ASSUME NEW f \in DirFiles, <<cur.dir, f>> \in disk, f \notin cur'.left
                 PROVE  imported'[<<cur.project, f>>] > 0
      OBVIOUS
    <3>1. CASE f = cur.file
      BY <2>3, <3>1
    <3>2. CASE f # cur.file
      <4>1. imported[<<cur.project, f>>] > 0 /\ <<cur.project, f>> \in Start!Projects \X DirFiles
        BY <1>1, <1>3, <1>5, <3>2 DEF ImportingHolds
      <4>2. LET r == <<cur.project, f>>
            IN  imported'[r] >= imported[r] /\ imported[r] \in Nat /\ imported'[r] \in Nat
        BY <2>4, <4>1
      <4> QED
        BY <4>1, <4>2
    <3> QED
      BY <3>1, <3>2
  <2>6. \A d \in MCDirs \ todo["tool"] : DirDone(d)'
    <3> SUFFICES ASSUME NEW d \in MCDirs \ todo["tool"], d \in projects, NEW f \in DirFiles, <<d, f>> \in disk
                 PROVE  imported'[<<d, f>>] > 0
      BY <1>1 DEF DirDone
    <3>1. imported[<<d, f>>] > 0 /\ <<d, f>> \in Start!Projects \X DirFiles
      BY <1>1, <1>5, BootFacts DEF ImportingHolds, DirDone
    <3>2. imported'[<<d, f>>] >= imported[<<d, f>>] /\ imported[<<d, f>>] \in Nat /\ imported'[<<d, f>>] \in Nat
      BY <2>4, <3>1
    <3> QED
      BY <3>1, <3>2
  <2> QED
    BY <1>1, <1>3, <1>5, <2>4, <2>5, <2>6 DEF ImportingHolds
<1> QED
  BY <1>4, <1>5

LEMMA FindExistingStep ==
    ASSUME BootTypes, ImportingHolds, NEW f \in DirFiles, Start!FindExisting(f)
    PROVE  ImportingHolds'
<1>1. cur \in [dir : MCDirs, project : Start!Projects, left : SUBSET DirFiles, file : DirFiles \cup {None}]
      /\ cur # Start!NoDir /\ UNCHANGED <<process, projects, disk, crossed, todo, imported>>
      /\ process["tool"] = "dirs" /\ cur.file = None
  BY DEF BootTypes, Start!FindExisting
<1>2. \/ imported[<<cur.project, f>>] > 0 /\ cur' = [cur EXCEPT !.left = cur.left \ {f}]
      \/ ~(imported[<<cur.project, f>>] > 0) /\ cur' = [cur EXCEPT !.file = f]
  BY DEF Start!FindExisting, Start!Known
<1>3. /\ cur'.dir = cur.dir /\ cur'.project = cur.project
      /\ \/ imported[<<cur.project, f>>] > 0 /\ cur'.left = cur.left \ {f} /\ cur'.file = None
         \/ ~(imported[<<cur.project, f>>] > 0) /\ cur'.left = cur.left /\ cur'.file = f
  BY <1>1, <1>2
<1>4. <<cur.project, f>> \in Start!Projects \X DirFiles /\ imported[<<cur.project, f>>] \in Nat
  BY <1>1 DEF BootTypes
<1>5. cur'.file # None => imported[<<cur'.project, cur'.file>>] = 0
  BY <1>3, <1>4
<1>6. ~crossed => \A g \in DirFiles : <<cur.dir, g>> \in disk /\ g \notin cur'.left => imported[<<cur.project, g>>] > 0
  BY <1>1, <1>3 DEF ImportingHolds
<1> QED
  BY <1>1, <1>3, <1>5, <1>6 DEF ImportingHolds, DirDone

LEMMA CloseDirStep ==
    ASSUME BootTypes, ImportingHolds, Start!CloseDir
    PROVE  ImportingHolds'
<1>1. cur \in [dir : MCDirs, project : Start!Projects, left : SUBSET DirFiles, file : DirFiles \cup {None}]
      /\ cur # Start!NoDir /\ UNCHANGED <<process, projects, disk, crossed, imported>>
      /\ process["tool"] = "dirs" /\ cur.left = {} /\ cur' = Start!NoDir
      /\ todo'["tool"] = todo["tool"] \ {cur.dir}
  BY BootFacts DEF BootTypes, Start!CloseDir
<1>2. ~crossed => DirDone(cur.dir) /\ (cur.dir \in {p1, p2} => cur.dir \in projects)
  BY <1>1 DEF ImportingHolds, DirDone
<1>3. ~crossed => \A d \in MCDirs \ todo'["tool"] : DirDone(d) /\ (d \in {p1, p2} => d \in projects)
  BY <1>1, <1>2 DEF ImportingHolds
<1> QED
  BY <1>1, <1>3 DEF ImportingHolds, DirDone

LEMMA ImportingStep ==
    ASSUME BootTypes, ImportingHolds, Start!Next
    PROVE  ImportingHolds'
<1> USE BootFacts
<1>1. ASSUME NEW p \in Start!Procs, Start!Start(p) PROVE ImportingHolds'
  BY <1>1 DEF BootTypes, Start!Start, Start!Goto, ImportingHolds, DirDone
<1>2. ASSUME NEW p \in Start!Procs, Start!Begin(p) PROVE ImportingHolds'
  BY <1>2 DEF BootTypes, Start!Begin, Start!Goto, ImportingHolds, DirDone
<1>3. ASSUME NEW p \in Start!Procs, Start!Commit(p) PROVE ImportingHolds'
  BY <1>3 DEF BootTypes, Start!Commit, Start!Goto, ImportingHolds, DirDone
<1>4. ASSUME NEW p \in Start!Procs, Start!Exit(p) PROVE ImportingHolds'
  BY <1>4 DEF BootTypes, Start!Exit, Start!Goto, ImportingHolds, DirDone
<1>5. CASE Start!Seed
  BY <1>5 DEF BootTypes, Start!Seed, Start!Goto, ImportingHolds, DirDone
<1>6. CASE Start!Serve
  BY <1>6 DEF BootTypes, Start!Serve, Start!Goto, ImportingHolds, DirDone
<1>7. CASE Start!Scan
  BY <1>7 DEF BootTypes, Start!Scan, Start!Goto, ImportingHolds, DirDone
<1>8. CASE Start!Finish
  BY <1>8 DEF BootTypes, Start!Finish, Start!Goto, ImportingHolds, DirDone
<1>9. ASSUME NEW d \in MCDirs, NEW f \in DirFiles, Start!Drop(d, f) PROVE ImportingHolds'
  BY <1>9 DEF BootTypes, Start!Drop, ImportingHolds, DirDone
<1>10. ASSUME NEW p \in Start!Procs, Start!Apply(p) PROVE ImportingHolds'
  BY <1>10 DEF Start!Apply, ImportingHolds, DirDone
<1> QED
  BY <1>1, <1>2, <1>3, <1>4, <1>5, <1>6, <1>7, <1>8, <1>9, <1>10, ServerCrosses, OpenDirStep,
     ImportFileStep, FindExistingStep, CloseDirStep, Zenon DEF Start!Next

LEMMA BootStep ==
    ASSUME BootInv, [Start!Next]_bootVars
    PROVE  BootInv'
<1>1. CASE Start!Next
  BY <1>1, BootTypesStep, MigratingStep, SeedingStep, ImportingStep DEF BootInv
<1>2. CASE UNCHANGED bootVars
  BY <1>2 DEF bootVars, BootInv, BootTypes, MigratingHolds, Start!MigratedOnce, Start!ReadySchema,
     SeedingHolds, ImportingHolds, DirDone
<1> QED
  BY <1>1, <1>2

LEMMA BootInit == Init => BootInv
<1> SUFFICES ASSUME Start!Init PROVE BootInv
  BY DEF Init
<1> USE BootFacts
<1>1. PICK k \in 0..Migrations : recorded = 1..k /\ effects = [m \in Start!All |-> IF m <= k THEN 1 ELSE 0]
  BY DEF Start!Init
<1>2. effects \in [Start!All -> Nat] /\ recorded \in SUBSET Start!All /\ Start!MigratedOnce
  BY <1>1 DEF Start!MigratedOnce
<1>3. Start!NoTx \in [owner : Start!Procs \cup {None}, next : Nat, effects : [Start!All -> Nat], recorded : SUBSET Start!All]
  BY DEF Start!NoTx
<1>4. BootTypes
  BY <1>2, <1>3 DEF Start!Init, BootTypes
<1>5. MigratingHolds
  BY <1>2 DEF Start!Init, MigratingHolds, Start!NoTx, Start!ReadySchema
<1>6. SeedingHolds
  BY DEF Start!Init, SeedingHolds
<1>7. ImportingHolds
  BY DEF Start!Init, ImportingHolds
<1> QED
  BY <1>4, <1>5, <1>6, <1>7 DEF BootInv

\* Migrate, SeedProjectsFromConfig and the import tool, with crashes anywhere and
\* the server and the tool beside each other: a migration takes effect once, the
\* server works on a complete schema with foreign keys enforced, no start brings
\* a deleted project back, and an import that runs alone registers every file of
\* a directory with its project's name exactly once.
THEOREM StartsTakeEffectOnce == Spec => []StartedOnce
<1>1. BootInv /\ [Next]_vars => BootInv'
  BY BootStep, StepsOfEach
<1>2. BootInv => StartedOnce
  <2> SUFFICES ASSUME BootInv PROVE StartedOnce
    OBVIOUS
  <2>1. BootTypes /\ MigratingHolds /\ SeedingHolds /\ ImportingHolds
    BY DEF BootInv
  <2>2. Start!TypeOK
    BY <2>1 DEF BootTypes, Start!TypeOK
  <2>3. Start!MigratedOnce /\ Start!ReadySchema
    BY <2>1 DEF MigratingHolds
  <2>4. Start!SeedKept
    BY <2>1 DEF SeedingHolds, Start!SeedKept
  <2>5. Start!ImportedOnce
    BY <2>1 DEF ImportingHolds, Start!ImportedOnce
  <2>6. Start!ImportedAll
    BY <2>1 DEF ImportingHolds, DirDone, Start!ImportedAll
  <2> QED
    BY <2>2, <2>3, <2>4, <2>5, <2>6 DEF StartedOnce
<1> QED
  BY BootInit, <1>1, <1>2, PTL DEF Spec

-----------------------------------------------------------------------------
(* Unattended installs. *)

InstallRow ==
    [name : TemplateNames \cup Defaults, config_name : TemplateNames \cup Defaults,
     os_type : OsTypes \cup {"ubuntu"}, params : Variants, enabled : BOOLEAN,
     seed : Defaults \cup {None}]

Edit == [id : 0..MaxRow, os : OsTypes \cup {None}, params : Variants \cup {None}]

InstallTypes ==
    /\ seeder \in {"down", "seeding", "up"} /\ seedings \in 0..2
    /\ templates \in Seq(InstallRow) /\ Len(templates) <= MaxRow
    /\ toSeed \subseteq Defaults /\ behind \subseteq Install!Ids
    /\ DOMAIN generated = Install!Ids
    /\ \A i \in Install!Ids : DOMAIN generated[i] = Install!Stems
    /\ edit \in [Admins -> Edit]
    /\ \A a \in Admins : edit[a].id = 0 => edit[a] = Install!Idle
    /\ seeder # "up" => \A a \in Admins : edit[a] = Install!Idle

\* The row of a default that no update renamed is found under its config_name,
\* so that a default still to be seeded and not listed has no row.
SeedsFound ==
    /\ Install!SeededOnce
    /\ \A d \in Defaults \ renamed : \A i \in 1..Len(templates) :
          templates[i].seed = d => templates[i].config_name = d
    /\ seeder = "seeding" =>
          \A d \in toSeed \ (listed \cup renamed) : \A i \in 1..Len(templates) :
              templates[i].seed # d

\* The file is what the row says, or one request will write it: the only one on
\* the row, with the row's values.
Follows(i) ==
    /\ \A a \in Admins : edit[a].id = i =>
          \/ edit[a].os = templates[i].os_type /\ edit[a].params = templates[i].params
          \/ \E b \in Admins \ {a} : edit[b].id = i
    /\ (\A a \in Admins : edit[a].id # i) =>
          generated[i][Install!ConfigFilename(templates[i].os_type)]
              = Install!Generate(templates[i].os_type, templates[i].params)

FilesFollow ==
    \A i \in 1..Len(templates) : i \notin behind /\ templates[i].seed = None => Follows(i)

InstallInv == InstallTypes /\ SeedsFound /\ FilesFollow

LEMMA InstallFacts ==
    /\ MaxRow \in Nat /\ None \notin Defaults \cup TemplateNames \cup Variants \cup OsTypes
    /\ \E v \in Variants : v # NoHost
    /\ Install!Idle \in Edit /\ Install!Idle.id = 0
    /\ \A os : Install!ConfigFilename(os) \in Install!Stems
<1>1. /\ MaxRow \in Nat /\ None \notin Defaults \cup TemplateNames \cup Variants \cup OsTypes
      /\ \E v \in Variants : v # NoHost
  BY OperationsAssumption DEF Install!Constants
<1>2. Install!Idle \in Edit /\ Install!Idle.id = 0
  BY <1>1 DEF Install!Idle, Edit
<1>3. \A os : Install!ConfigFilename(os) \in Install!Stems
  BY DEF Install!ConfigFilename, Install!Stems
<1> QED
  BY <1>1, <1>2, <1>3

LEMMA InstallRows ==
    ASSUME InstallTypes
    PROVE  /\ Len(templates) \in Nat /\ DOMAIN templates = 1..Len(templates)
           /\ \A i \in 1..Len(templates) : templates[i] \in InstallRow
           /\ \A i \in 1..Len(templates) : i \in Install!Ids
BY InstallFacts, LenProperties, ElementOfSeq DEF InstallTypes, Install!Ids

\* A row is added at the end.
LEMMA RowAdded ==
    ASSUME InstallTypes, NEW row \in InstallRow, Len(templates) < MaxRow,
           templates' = Append(templates, row)
    PROVE  /\ templates' \in Seq(InstallRow) /\ Len(templates') = Len(templates) + 1
           /\ Len(templates') <= MaxRow /\ templates'[Len(templates) + 1] = row
           /\ \A i \in 1..Len(templates) : templates'[i] = templates[i]
           /\ DOMAIN templates' = 1..(Len(templates) + 1)
<1>1. /\ templates' \in Seq(InstallRow) /\ Len(templates') = Len(templates) + 1
      /\ templates'[Len(templates) + 1] = row
      /\ \A i \in 1..Len(templates) : templates'[i] = templates[i]
  BY AppendProperties DEF InstallTypes
<1> QED
  BY <1>1, InstallRows, InstallFacts, LenProperties

\* A row is replaced.
LEMMA RowChanged ==
    ASSUME InstallTypes, NEW i \in 1..Len(templates), NEW row \in InstallRow,
           templates' = [templates EXCEPT ![i] = row]
    PROVE  /\ templates' \in Seq(InstallRow) /\ Len(templates') = Len(templates)
           /\ templates'[i] = row /\ DOMAIN templates' = 1..Len(templates)
           /\ \A j \in 1..Len(templates) : j # i => templates'[j] = templates[j]
<1>1. templates' \in Seq(InstallRow) /\ Len(templates') = Len(templates)
  BY ExceptSeq DEF InstallTypes
<1> QED
  BY <1>1, InstallRows

\* The start, and the end of the process.
LEMMA InstallPhaseStep ==
    ASSUME InstallInv, Install!StartSeeding \/ Install!Serve \/ Install!Exit
    PROVE  InstallInv'
<1>0. /\ InstallTypes /\ SeedsFound /\ FilesFollow /\ UNCHANGED <<templates, generated, renamed>>
      /\ DOMAIN templates = 1..Len(templates)
  BY InstallRows DEF InstallInv, Install!StartSeeding, Install!Serve, Install!Exit
<1>1. CASE Install!StartSeeding
  <2>1. InstallTypes' /\ FilesFollow'
    BY <1>0, <1>1 DEF Install!StartSeeding, InstallTypes, FilesFollow, Follows
  <2>2. SeedsFound'
    BY <1>0, <1>1 DEF Install!StartSeeding, Install!ListedNames, SeedsFound, Install!SeededOnce
  <2> QED
    BY <2>1, <2>2 DEF InstallInv
<1>2. CASE Install!Serve
  <2>1. InstallTypes' /\ FilesFollow'
    BY <1>0, <1>2 DEF Install!Serve, InstallTypes, FilesFollow, Follows
  <2>2. SeedsFound'
    BY <1>0, <1>2 DEF Install!Serve, SeedsFound, Install!SeededOnce
  <2> QED
    BY <2>1, <2>2 DEF InstallInv
<1>3. CASE Install!Exit
  <2>1. edit' = [a \in Admins |-> Install!Idle]
        /\ behind' = behind \cup ({edit[a].id : a \in Admins} \ {0})
        /\ seeder' = "down" /\ toSeed' = {} /\ UNCHANGED seedings
    BY <1>3 DEF Install!Exit
  <2>2. behind' \subseteq Install!Ids
    <3>1. \A a \in Admins : edit[a].id \in 0..MaxRow
      BY <1>0 DEF InstallTypes, Edit
    <3>2. \A k \in 0..MaxRow : k # 0 => k \in Install!Ids
      BY InstallFacts DEF Install!Ids
    <3> QED
      BY <1>0, <2>1, <3>1, <3>2 DEF InstallTypes
  <2>3. InstallTypes'
    BY <1>0, <2>1, <2>2, InstallFacts DEF InstallTypes
  <2>4. FilesFollow'
    <3> SUFFICES ASSUME NEW i \in 1..Len(templates), i \notin behind', templates[i].seed = None
                 PROVE  Follows(i)'
      BY <1>0 DEF FilesFollow
    <3>1. i \notin behind /\ i \in Install!Ids /\ i # 0 /\ \A a \in Admins : edit[a].id # i
      BY <1>0, <2>1, InstallRows DEF Install!Ids
    <3>2. Follows(i)
      BY <1>0, <3>1 DEF FilesFollow
    <3>3. \A a \in Admins : edit'[a].id # i
      BY <2>1, <3>1, InstallFacts
    <3> QED
      BY <1>0, <3>1, <3>2, <3>3 DEF Follows
  <2>5. SeedsFound'
    BY <1>0, <2>1 DEF SeedsFound, Install!SeededOnce
  <2> QED
    BY <2>3, <2>4, <2>5 DEF InstallInv
<1> QED
  BY <1>1, <1>2, <1>3

\* SeedOSInstallConfigs, one default.
LEMMA SeedDefaultStep ==
    ASSUME InstallInv, NEW d \in Defaults, Install!SeedDefault(d)
    PROVE  InstallInv'
<1>0. /\ InstallTypes /\ SeedsFound /\ FilesFollow
      /\ seeder = "seeding" /\ d \in toSeed /\ toSeed' = toSeed \ {d}
      /\ UNCHANGED <<seeder, seedings, listed, generated, edit, renamed, behind>>
      /\ DOMAIN templates = 1..Len(templates) /\ Len(templates) \in Nat
  BY InstallRows DEF InstallInv, Install!SeedDefault
<1>1. CASE UNCHANGED templates
  <2>1. InstallTypes'
    BY <1>0, <1>1 DEF InstallTypes
  <2>2. SeedsFound'
    BY <1>0, <1>1 DEF SeedsFound, Install!SeededOnce
  <2>3. FilesFollow'
    BY <1>0, <1>1 DEF FilesFollow, Follows
  <2> QED
    BY <2>1, <2>2, <2>3 DEF InstallInv
<1>2. CASE ~UNCHANGED templates
  <2> DEFINE v == CHOOSE v \in Variants \ {NoHost} : TRUE
             row == Install!ConfigRow(d, d, "ubuntu", v, TRUE, d)
             n == Len(templates) + 1
  <2>1. d \notin listed /\ Len(templates) < MaxRow /\ templates' = Append(templates, row)
    BY <1>2 DEF Install!SeedDefault
  <2>2. v \in Variants
    BY InstallFacts
  <2>3. row \in InstallRow /\ row.seed = d /\ row.config_name = d
    BY <2>2 DEF Install!ConfigRow, InstallRow
  <2> HIDE DEF v, row
  <2>4. /\ templates' \in Seq(InstallRow) /\ Len(templates') = n /\ n <= MaxRow
        /\ templates'[n] = row /\ \A i \in 1..Len(templates) : templates'[i] = templates[i]
        /\ DOMAIN templates' = 1..n
    BY <1>0, <2>1, <2>3, RowAdded
  <2>5. \A i \in 1..n : i = n \/ i \in 1..Len(templates)
    BY <1>0
  <2>6. InstallTypes'
    BY <1>0, <2>4 DEF InstallTypes
  <2>7. SeedsFound'
    <3>1. d \notin renamed => \A i \in 1..Len(templates) : templates[i].seed # d
      BY <1>0, <2>1 DEF SeedsFound
    <3>2. Install!SeededOnce'
      BY <1>0, <2>3, <2>4, <2>5, <3>1 DEF SeedsFound, Install!SeededOnce
    <3>3. \A e \in Defaults \ renamed : \A i \in 1..n :
              templates'[i].seed = e => templates'[i].config_name = e
      BY <1>0, <2>3, <2>4, <2>5 DEF SeedsFound
    <3>4. \A e \in toSeed' \ (listed \cup renamed) : \A i \in 1..n : templates'[i].seed # e
      BY <1>0, <2>3, <2>4, <2>5 DEF SeedsFound
    <3> QED
      BY <1>0, <2>4, <3>2, <3>3, <3>4 DEF SeedsFound
  <2>8. FilesFollow'
    <3>1. row.seed # None
      BY <2>3, InstallFacts
    <3> QED
      BY <1>0, <2>4, <2>5, <3>1 DEF FilesFollow, Follows
  <2> QED
    BY <2>6, <2>7, <2>8 DEF InstallInv
<1> QED
  BY <1>1, <1>2

\* CreateConfig, up to the row.
LEMMA CreateConfigStep ==
    ASSUME InstallInv, NEW a \in Admins, NEW name \in TemplateNames, NEW conf \in Install!Configs,
           NEW os \in OsTypes, NEW params \in Variants,
           Install!CreateConfig(a, name, conf, os, params)
    PROVE  InstallInv'
<1> DEFINE row == Install!ConfigRow(name, IF conf = None THEN name ELSE conf, os, params, TRUE, None)
           n == Len(templates) + 1
           e == [id |-> n, os |-> os, params |-> params]
<1>0. /\ InstallTypes /\ SeedsFound /\ FilesFollow
      /\ seeder = "up" /\ Len(templates) < MaxRow /\ templates' = Append(templates, row)
      /\ edit' = [edit EXCEPT ![a] = e] /\ edit[a] = Install!Idle
      /\ UNCHANGED <<seeder, seedings, listed, toSeed, generated, renamed, behind>>
      /\ DOMAIN templates = 1..Len(templates) /\ Len(templates) \in Nat
  BY InstallRows DEF InstallInv, Install!CreateConfig, Install!CreateRow
<1>1. row \in InstallRow /\ row.seed = None /\ row.os_type = os /\ row.params = params
  BY DEF Install!ConfigRow, InstallRow, Install!Configs
<1>2. e \in Edit /\ e.id = n /\ e.os = os /\ e.params = params
  BY <1>0, InstallFacts DEF Edit
<1> HIDE DEF row, e
<1>3. /\ templates' \in Seq(InstallRow) /\ Len(templates') = n /\ n <= MaxRow
      /\ templates'[n] = row /\ \A i \in 1..Len(templates) : templates'[i] = templates[i]
      /\ DOMAIN templates' = 1..n
  BY <1>0, <1>1, RowAdded
<1>4. \A i \in 1..n : i = n \/ (i \in 1..Len(templates) /\ i # n /\ i # 0)
  BY <1>0
<1>5. InstallTypes'
  BY <1>0, <1>2, <1>3 DEF InstallTypes
<1>6. SeedsFound'
  <2>1. None \notin Defaults
    BY InstallFacts
  <2> QED
    BY <1>0, <1>1, <1>3, <1>4, <2>1 DEF SeedsFound, Install!SeededOnce
<1>7. FilesFollow'
  <2> SUFFICES ASSUME NEW i \in 1..n, i \notin behind, templates'[i].seed = None
               PROVE  Follows(i)'
    BY <1>0, <1>3 DEF FilesFollow
  <2>1. edit'[a] = e /\ \A b \in Admins : b # a => edit'[b] = edit[b]
    BY <1>0 DEF InstallTypes
  <2>2. CASE i = n
    BY <1>1, <1>2, <1>3, <2>1, <2>2 DEF Follows
  <2>3. CASE i # n
    <3>1. i \in 1..Len(templates) /\ i # 0 /\ Follows(i) /\ templates'[i] = templates[i]
      BY <1>0, <1>3, <1>4, <2>3 DEF FilesFollow
    <3>2. \A b \in Admins : edit'[b].id = i <=> edit[b].id = i
      BY <1>0, <1>2, <2>1, <2>3, <3>1, InstallFacts
    <3>3. \A b \in Admins : edit'[b].id = i => edit'[b] = edit[b]
      BY <1>2, <2>1, <2>3
    <3> QED
      BY <1>0, <3>1, <3>2, <3>3 DEF Follows
  <2> QED
    BY <2>2, <2>3
<1> QED
  BY <1>5, <1>6, <1>7 DEF InstallInv

\* UpdateConfig, up to the row.
LEMMA UpdateConfigStep ==
    ASSUME InstallInv, NEW a \in Admins, NEW name \in TemplateNames, NEW conf \in Install!Configs,
           NEW os \in OsTypes, NEW params \in Variants, NEW id \in Install!Ids,
           Install!UpdateConfig(a, id, name, conf, os, params)
    PROVE  InstallInv'
<1> DEFINE column == IF conf = None THEN name ELSE conf
           row == Install!ConfigRow(name, column, os, params, templates[id].enabled, templates[id].seed)
           e == [id |-> id, os |-> os, params |-> params]
<1>0. /\ InstallTypes /\ SeedsFound /\ FilesFollow
      /\ seeder = "up" /\ edit' = [edit EXCEPT ![a] = e] /\ edit[a] = Install!Idle
      /\ UNCHANGED <<seeder, seedings, listed, toSeed, generated>>
      /\ DOMAIN templates = 1..Len(templates) /\ Len(templates) \in Nat
      /\ \A i \in 1..Len(templates) : templates[i] \in InstallRow
  BY InstallRows DEF InstallInv, Install!UpdateConfig
<1>1. /\ templates' = IF id \in DOMAIN templates THEN [templates EXCEPT ![id] = row] ELSE templates
      /\ renamed' = IF id \in DOMAIN templates /\ column # templates[id].seed
                    THEN renamed \cup {templates[id].seed} ELSE renamed
      /\ behind' = IF \E b \in Admins : edit[b].id = id THEN behind \cup {id} ELSE behind
  BY DEF Install!UpdateConfig, Install!UpdateRow, Install!Busy
<1>2. e \in Edit /\ e.id = id /\ e.os = os /\ e.params = params /\ id # 0
  BY InstallFacts DEF Edit, Install!Ids
<1>3. id \in 1..Len(templates) =>
          /\ row \in InstallRow /\ row.seed = templates[id].seed /\ row.config_name = column
          /\ row.os_type = os /\ row.params = params
  BY <1>0 DEF Install!ConfigRow, InstallRow, Install!Configs
<1> HIDE DEF row, e
<1>4. /\ templates' \in Seq(InstallRow) /\ Len(templates') = Len(templates)
      /\ DOMAIN templates' = 1..Len(templates)
      /\ id \in 1..Len(templates) => templates'[id] = row
      /\ \A i \in 1..Len(templates) : i # id => templates'[i] = templates[i]
  <2>1. CASE id \in 1..Len(templates)
    BY <1>0, <1>1, <1>3, <2>1, RowChanged
  <2>2. CASE id \notin 1..Len(templates)
    BY <1>0, <1>1, <2>2 DEF InstallTypes
  <2> QED
    BY <2>1, <2>2
<1>5. InstallTypes'
  <2>1. behind' \subseteq Install!Ids
    BY <1>0, <1>1 DEF InstallTypes
  <2> QED
    BY <1>0, <1>2, <1>4, <2>1 DEF InstallTypes
<1>6. SeedsFound'
  <2>1. \A i \in 1..Len(templates) : templates'[i].seed = templates[i].seed
    BY <1>3, <1>4
  <2>2. renamed \subseteq renamed'
    BY <1>1
  <2>3. \A d \in Defaults \ renamed' : \A i \in 1..Len(templates) :
            templates'[i].seed = d => templates'[i].config_name = d
    <3> SUFFICES ASSUME NEW d \in Defaults \ renamed', NEW i \in 1..Len(templates),
                        templates'[i].seed = d
                 PROVE  templates'[i].config_name = d
      OBVIOUS
    <3>1. CASE i = id
      BY <1>0, <1>1, <1>3, <1>4, <2>1, <3>1
    <3>2. CASE i # id
      BY <1>4, <2>1, <2>2, <3>2, <1>0 DEF SeedsFound
    <3> QED
      BY <3>1, <3>2
  <2>4. Install!SeededOnce'
    BY <1>0, <1>4, <2>1, <2>2 DEF SeedsFound, Install!SeededOnce
  <2> QED
    BY <1>0, <1>4, <2>3, <2>4 DEF SeedsFound
<1>7. FilesFollow'
  <2> SUFFICES ASSUME NEW i \in 1..Len(templates), i \notin behind', templates'[i].seed = None
               PROVE  Follows(i)'
    BY <1>4 DEF FilesFollow
  <2>1. edit'[a] = e /\ \A b \in Admins : b # a => edit'[b] = edit[b]
    BY <1>0 DEF InstallTypes
  <2>2. CASE i = id
    <3>1. \A b \in Admins : edit[b].id # id
      BY <1>1, <2>2
    <3>2. \A b \in Admins : edit'[b].id = id => b = a
      BY <2>1, <3>1
    <3> QED
      BY <1>2, <1>3, <1>4, <2>1, <2>2, <3>2 DEF Follows
  <2>3. CASE i # id
    <3>1. i # 0 /\ i \notin behind /\ templates'[i] = templates[i]
      BY <1>1, <1>4, <2>3
    <3>2. Follows(i)
      BY <1>0, <3>1 DEF FilesFollow
    <3>3. \A b \in Admins : edit'[b].id = i <=> edit[b].id = i
      BY <1>0, <1>2, <2>1, <2>3, <3>1, InstallFacts
    <3>4. \A b \in Admins : edit'[b].id = i => edit'[b] = edit[b]
      BY <1>2, <2>1, <2>3
    <3> QED
      BY <1>0, <3>1, <3>2, <3>3, <3>4 DEF Follows
  <2> QED
    BY <2>2, <2>3
<1> QED
  BY <1>5, <1>6, <1>7 DEF InstallInv

\* saveConfigFile.
LEMMA SaveConfigFileStep ==
    ASSUME InstallInv, NEW a \in Admins, Install!SaveConfigFile(a)
    PROVE  InstallInv'
<1> DEFINE id == edit[a].id
           text == Install!Generate(edit[a].os, edit[a].params)
           stem == Install!ConfigFilename(edit[a].os)
<1>0. /\ InstallTypes /\ SeedsFound /\ FilesFollow
      /\ seeder = "up" /\ edit[a] # Install!Idle /\ edit' = [edit EXCEPT ![a] = Install!Idle]
      /\ UNCHANGED <<seeder, seedings, templates, listed, toSeed, renamed>>
  BY DEF InstallInv, Install!SaveConfigFile
<1>1. edit'[a].id = 0 /\ \A b \in Admins : b # a => edit'[b] = edit[b]
  BY <1>0, InstallFacts DEF InstallTypes
<1>2. \/ /\ text # None /\ generated' = [generated EXCEPT ![id][stem] = text]
         /\ behind' = IF text # None /\ ~\E b \in Admins \ {a} : edit[b].id = id
                      THEN behind ELSE behind \cup {id}
      \/ UNCHANGED generated /\ behind' = behind \cup {id}
  BY DEF Install!SaveConfigFile
<1>3. id \in Install!Ids /\ stem \in Install!Stems
  <2>1. id \in 0..MaxRow /\ id # 0
    BY <1>0 DEF InstallTypes, Edit
  <2> QED
    BY <2>1, InstallFacts DEF Install!Ids
<1>4. /\ DOMAIN generated' = Install!Ids /\ \A i \in Install!Ids : DOMAIN generated'[i] = Install!Stems
      /\ \A i \in Install!Ids : i # id => generated'[i] = generated[i]
      /\ behind \subseteq behind' /\ behind' \subseteq Install!Ids
      /\ generated' # generated => generated'[id][stem] = text
  <2> HIDE DEF text, stem
  <2> QED
    BY <1>0, <1>2, <1>3 DEF InstallTypes
<1>5. InstallTypes'
  BY <1>0, <1>4, InstallFacts DEF InstallTypes
<1>6. SeedsFound'
  BY <1>0 DEF SeedsFound, Install!SeededOnce
<1>7. FilesFollow'
  <2> SUFFICES ASSUME NEW i \in 1..Len(templates), i \notin behind', templates[i].seed = None
               PROVE  Follows(i)'
    BY <1>0 DEF FilesFollow
  <2>0. i \notin behind /\ i \in Install!Ids /\ i # 0
    BY <1>0, <1>4, InstallRows DEF Install!Ids
  <2>1. Follows(i)
    BY <1>0, <2>0 DEF FilesFollow
  <2>2. CASE i = id
    <3>1. /\ \A b \in Admins : b # a => edit[b].id # i
          /\ generated' = [generated EXCEPT ![id][stem] = text]
      BY <1>2, <2>2
    <3>2. edit[a].os = templates[i].os_type /\ edit[a].params = templates[i].params
      BY <2>1, <2>2, <3>1 DEF Follows
    <3>3. generated'[i][stem] = text
      <4> HIDE DEF text, stem
      <4> QED
        BY <1>0, <1>3, <2>2, <3>1 DEF InstallTypes
    <3>4. \A b \in Admins : edit'[b].id # i
      BY <1>1, <2>0, <3>1
    <3> QED
      BY <1>0, <3>2, <3>3, <3>4 DEF Follows
  <2>3. CASE i # id
    <3>1. \A b \in Admins : edit'[b].id = i <=> edit[b].id = i
      BY <1>1, <2>0, <2>3
    <3>2. \A b \in Admins : edit'[b].id = i => edit'[b] = edit[b]
      BY <1>1, <2>0
    <3> QED
      BY <1>0, <1>4, <2>0, <2>1, <2>3, <3>1, <3>2 DEF Follows
  <2> QED
    BY <2>2, <2>3
<1> QED
  BY <1>5, <1>6, <1>7 DEF InstallInv

\* DeleteConfig.
LEMMA DeleteConfigStep ==
    ASSUME InstallInv, NEW id \in Install!Ids, Install!DeleteConfig(id)
    PROVE  InstallInv'
<1> DEFINE row == [templates[id] EXCEPT !.enabled = FALSE]
<1>0. /\ InstallTypes /\ SeedsFound /\ FilesFollow
      /\ UNCHANGED <<seeder, seedings, listed, toSeed, generated, edit, renamed, behind>>
      /\ id \in 1..Len(templates) /\ templates' = [templates EXCEPT ![id] = row]
      /\ DOMAIN templates = 1..Len(templates) /\ templates[id] \in InstallRow
  BY InstallRows DEF InstallInv, Install!DeleteConfig, Install!DeleteRow
<1>1. /\ row \in InstallRow /\ row.seed = templates[id].seed /\ row.config_name = templates[id].config_name
      /\ row.os_type = templates[id].os_type /\ row.params = templates[id].params
  BY <1>0 DEF InstallRow
<1> HIDE DEF row
<1>2. /\ templates' \in Seq(InstallRow) /\ Len(templates') = Len(templates)
      /\ templates'[id] = row /\ DOMAIN templates' = 1..Len(templates)
      /\ \A j \in 1..Len(templates) : j # id => templates'[j] = templates[j]
  BY <1>0, <1>1, RowChanged
<1>3. \A i \in 1..Len(templates) :
          /\ templates'[i].seed = templates[i].seed /\ templates'[i].config_name = templates[i].config_name
          /\ templates'[i].os_type = templates[i].os_type /\ templates'[i].params = templates[i].params
  BY <1>1, <1>2
<1>4. InstallTypes'
  BY <1>0, <1>2 DEF InstallTypes
<1>5. SeedsFound'
  BY <1>0, <1>2, <1>3 DEF SeedsFound, Install!SeededOnce
<1>6. FilesFollow'
  BY <1>0, <1>2, <1>3 DEF FilesFollow, Follows
<1> QED
  BY <1>4, <1>5, <1>6 DEF InstallInv

LEMMA ConfigStep ==
    ASSUME InstallInv, [Install!Next]_installVars
    PROVE  InstallInv'
<1>1. CASE UNCHANGED installVars
  BY <1>1 DEF installVars, InstallInv, InstallTypes, SeedsFound, FilesFollow, Follows,
     Install!SeededOnce
<1>2. CASE Install!Next
  BY <1>2, InstallPhaseStep, SeedDefaultStep, CreateConfigStep, UpdateConfigStep,
     SaveConfigFileStep, DeleteConfigStep DEF Install!Next
<1> QED
  BY <1>1, <1>2

LEMMA InstallInit == Init => InstallInv
<1> SUFFICES ASSUME Init PROVE InstallInv
  OBVIOUS
<1>1. /\ seeder = "down" /\ seedings = 0 /\ templates = << >> /\ toSeed = {} /\ behind = {}
      /\ generated = [i \in Install!Ids |-> [s \in Install!Stems |-> None]]
      /\ edit = [a \in Admins |-> Install!Idle]
  BY DEF Init, Install!Init
<1>2. templates \in Seq(InstallRow) /\ Len(templates) = 0 /\ DOMAIN templates = {}
  BY <1>1
<1>3. InstallTypes
  BY <1>1, <1>2, InstallFacts DEF InstallTypes
<1> QED
  BY <1>1, <1>2, <1>3 DEF InstallInv, SeedsFound, FilesFollow, Install!SeededOnce

\* A set of positions has a first one.
LEMMA FirstOf ==
    ASSUME NEW n \in Nat, NEW S \in SUBSET (1..n), S # {}
    PROVE  (CHOOSE i \in S : \A j \in S : i <= j) \in S
<1>1. S \subseteq Nat
  OBVIOUS
<1>2. PICK m \in S : \A y \in S : ~(<<y, m>> \in OpToRel(<, Nat))
  BY <1>1, NatLessThanWellFounded, WFMin
<1>3. \A y \in S : ~(y < m)
  BY <1>1, <1>2 DEF OpToRel
<1>4. \A y \in S : m <= y
  BY <1>1, <1>3
<1> QED
  BY <1>4, Zenon

\* In the format of its os_type, as long as that has no capitals, a row is
\* rendered for PXE as it is for its file.
LEMMA FormatsAgree ==
    ASSUME NEW os, NEW params, Install!Lower(os) = os
    PROVE  /\ Install!Template(os) = "preseed" =>
                  Install!Generate(os, params) = Install!GeneratePreseed(params)
           /\ Install!Template(os) = "autoinstall" =>
                  Install!Generate(os, params) = Install!GenerateAutoinstall(params)
           /\ Install!Template(os) = "kickstart" =>
                  Install!Generate(os, params)
                      = Install!GenerateKickstart(params, Install!Normalised(os))
<1>1. Install!Template(os) = "kickstart" =>
          Install!GenerateKickstart(params, Install!Flavour(os))
              = Install!GenerateKickstart(params, Install!Normalised(os))
  <2> SUFFICES ASSUME Install!Template(os) = "kickstart"
               PROVE  Install!GenerateKickstart(params, Install!Flavour(os))
                          = Install!GenerateKickstart(params, Install!Normalised(os))
    OBVIOUS
  <2>1. CASE os \in {"rocky", "rockylinux"}
    BY <2>1 DEF Install!Flavour, Install!Normalised, Install!Lower, Install!GenerateKickstart
  <2>2. CASE os \in {"alma", "almalinux"}
    BY <2>2 DEF Install!Flavour, Install!Normalised, Install!Lower, Install!GenerateKickstart
  <2>3. CASE os = "fedora"
    BY <2>3 DEF Install!Flavour, Install!Normalised, Install!Lower, Install!GenerateKickstart
  <2>4. CASE os \notin {"rocky", "rockylinux", "alma", "almalinux", "fedora"}
    BY <2>4 DEF Install!Flavour, Install!Normalised, Install!GenerateKickstart
  <2> QED
    BY <2>1, <2>2, <2>3, <2>4
<1> QED
  BY <1>1 DEF Install!Generate

\* SeedOSInstallConfigs adds a default once ("to avoid re-creating configs the
\* user has deliberately deleted") and what PXE renders is what the generated
\* file holds, for any defaults, names, parameters and number of admins, across
\* exits while seeding and between row and file.
THEOREM InstallsHold == Spec => []InstallHolds
<1>1. InstallInv /\ [Next]_vars => InstallInv'
  BY ConfigStep, StepsOfEach
<1>2. InstallInv => InstallHolds
  <2> SUFFICES ASSUME InstallInv
               PROVE  Install!TypeOK /\ Install!SeededOnce /\ Install!FileAgrees
    BY DEF InstallHolds
  <2>0. /\ InstallTypes /\ Len(templates) \in Nat /\ DOMAIN templates = 1..Len(templates)
        /\ \A i \in 1..Len(templates) : templates[i] \in InstallRow /\ i \in Install!Ids
    BY InstallRows DEF InstallInv
  <2>1. Install!TypeOK
    BY <2>0 DEF InstallTypes, Install!TypeOK, InstallRow
  <2>2. Install!SeededOnce
    BY DEF InstallInv, SeedsFound
  <2>3. Install!FileAgrees
    <3> SUFFICES ASSUME NEW name \in TemplateNames, NEW f \in {"preseed", "kickstart", "autoinstall"},
                        NEW id, id = Install!GetByName(name), id # 0,
                        templates[id].seed = None, templates[id].enabled, id \notin behind,
                        ~Install!Busy(id), Install!Template(templates[id].os_type) = f,
                        Install!Lower(templates[id].os_type) = templates[id].os_type
                 PROVE  generated[id][Install!ConfigFilename(templates[id].os_type)]
                            = Install!ServePXEConfig(f, name)
      BY DEF Install!FileAgrees
    <3>1. id \in 1..Len(templates)
      <4> DEFINE ids == {i \in DOMAIN templates : templates[i].name = name}
      <4>1. ids # {} /\ id = CHOOSE i \in ids : \A j \in ids : i <= j
        BY DEF Install!GetByName
      <4>2. ids \in SUBSET (1..Len(templates))
        BY <2>0
      <4>3. (CHOOSE i \in ids : \A j \in ids : i <= j) \in ids
        BY <2>0, <4>1, <4>2, FirstOf, Zenon
      <4> QED
        BY <4>1, <4>2, <4>3, Zenon
    <3>2. generated[id][Install!ConfigFilename(templates[id].os_type)]
              = Install!Generate(templates[id].os_type, templates[id].params)
      BY <3>1 DEF InstallInv, FilesFollow, Follows, Install!Busy
    <3>3. Install!ServePXEConfig(f, name)
              = CASE f = "preseed"     -> Install!GeneratePreseed(templates[id].params)
                  [] f = "kickstart"   -> Install!GenerateKickstart(templates[id].params,
                                              Install!Normalised(templates[id].os_type))
                  [] f = "autoinstall" -> Install!GenerateAutoinstall(templates[id].params)
                  [] OTHER             -> None
      BY DEF Install!ServePXEConfig
    <3> QED
      BY <3>2, <3>3, FormatsAgree
  <2> QED
    BY <2>1, <2>2, <2>3
<1> QED
  BY InstallInit, <1>1, <1>2, PTL DEF Spec

-----------------------------------------------------------------------------
(* Scripts. *)

RunRow == [script : Script!Ids, done : {None, "ok", "failed"}, gone : BOOLEAN]
Call   == [pc : {"idle", "write", "fetch", "sync", "body", "insert", "launch"},
           id : 0..MaxScript, row : Script!Row \cup {None}, run : 0..MaxRun]
Exec   == [pc : {"none", "begin", "run", "record", "status"}, known : BOOLEAN,
           out : {None, "ok", "failed"}]

TableTypes ==
    /\ lastId \in 0..MaxScript
    /\ scripts \in [Script!Ids -> Script!Row \cup {None}]
    /\ \A i \in Script!Ids : scripts[i] # None => scripts[i].schedule # Bad /\ i <= lastId
    /\ runs \in Seq(RunRow) /\ Len(runs) <= MaxRun
    /\ \A r \in 1..Len(runs) : runs[r].script <= lastId
    /\ content \in [Paths -> {"none", "part", "whole"}]

SchedulerTypes ==
    /\ scheduler \in {"down", "serving", "listed", "on", "stopped"}
    /\ cron \in [Script!Ids -> (Schedules \ {Bad}) \cup {None}]
    /\ listing \in [Script!Ids -> Script!Row \cup {None}]
    /\ busyScripts \subseteq Script!Ids

\* A request or cron job has an id of a script that there is or was, and a run from
\* the insert to the launch.
CallTypes ==
    /\ call \in [Script!Callers -> Call]
    /\ \A c \in Script!Callers :
          /\ call[c].pc # "idle" => call[c].id \in 1..lastId
          /\ call[c].pc \in {"write", "body"} => call[c].row # None
          /\ call[c].pc = "write" => call[c].row.schedule # Bad
          /\ call[c].run # 0 <=> call[c].pc = "launch"

ExecTypes ==
    /\ exec \in [Script!RunIds -> Exec]
    /\ \A r \in Script!RunIds : exec[r].pc # "none" => r \in 1..Len(runs)

ScriptTypes == TableTypes /\ SchedulerTypes /\ CallTypes /\ ExecTypes

Editing(c, i) == call[c].pc \in Script!Edits /\ call[c].id = i
Late(i) == \E c \in Script!Callers : call[c].pc \in {"fetch", "sync"} /\ call[c].id = i

\* Edits of i that did not overlap: one request at a time, whose script is there until
\* it deletes it; what it will tell the scheduler is what the row says; and the
\* scheduler, or the list it starts from, says so too unless it is still to be told.
EditsOf(i) ==
    /\ \A c, d \in Script!Callers : Editing(c, i) /\ Editing(d, i) => c = d
    /\ \A c \in Script!Callers : Editing(c, i) /\ call[c].pc # "sync" => scripts[i] # None
    /\ \A c \in Script!Callers : Editing(c, i) /\ call[c].pc = "sync" =>
          Script!AddLocked(call[c].row) = Script!AddLocked(scripts[i])
    /\ ~Late(i) =>
          /\ scheduler = "on" => cron[i] = Script!AddLocked(scripts[i])
          /\ scheduler = "listed" => Script!AddLocked(listing[i]) = Script!AddLocked(scripts[i])

EditsHold == \A i \in Script!Ids : i \notin raced => EditsOf(i)

Launching(c, r) == call[c].pc = "launch" /\ call[c].run = r
Starting(c, i)  == call[c].pc \in Script!Starts /\ call[c].id = i
Flying(r, i)    == r \in 1..Len(runs) /\ runs[r].script = i /\ exec[r].pc # "none"
Newest(r)       == \A q \in 1..Len(runs) : runs[q].script = runs[r].script => q <= r

\* Starts of i that did not overlap: one at a time, none while a run is under way, and
\* the run that is started or under way is the newest.
StartsOf(i) ==
    /\ \A c, d \in Script!Callers : Starting(c, i) /\ Starting(d, i) => c = d
    /\ \A c \in Script!Callers, r \in Script!RunIds : Starting(c, i) => ~Flying(r, i)
    /\ \A c \in Script!Callers : Starting(c, i) /\ call[c].pc = "launch" => Newest(call[c].run)
    /\ \A r \in Script!RunIds : Flying(r, i) => Newest(r) /\ i \in busyScripts
    /\ \A q, r \in Script!RunIds : Flying(q, i) /\ Flying(r, i) => q = r

StartsHold == \A i \in Script!Ids : i \notin raced => StartsOf(i)

\* A run that is about to be launched is a new one, and of one caller.
LaunchesApart ==
    /\ \A c \in Script!Callers : call[c].pc = "launch" =>
          /\ call[c].run \in 1..Len(runs) /\ runs[call[c].run].script = call[c].id
          /\ exec[call[c].run].pc = "none"
    /\ \A c, d \in Script!Callers :
          call[c].pc = "launch" /\ call[d].pc = "launch" /\ call[c].run = call[d].run => c = d

\* What an execution will record, and has recorded.
Recording ==
    \A r \in Script!RunIds :
        /\ exec[r].pc = "run" => exec[r].known
        /\ exec[r].pc \in {"record", "status"} =>
              exec[r].out # None /\ (~exec[r].known => scripts[runs[r].script] = None)
        /\ exec[r].pc = "status" /\ r \notin lost => runs[r].done = exec[r].out

Accounted ==
    \A r \in 1..Len(runs) :
        r \notin lost /\ runs[r].done = None =>
            exec[r].pc # "none" \/ \E c \in Script!Callers : Launching(c, r)

\* The outcome of the newest run of i, once it has ended, is the one shown.
ShownOf(i) ==
    scripts[i] # None /\ (\A r \in Script!RunIds : ~Flying(r, i)) =>
        \A r \in 1..Len(runs) :
            r \notin lost /\ runs[r].script = i /\ runs[r].done # None /\ Newest(r)
                => scripts[i].last = runs[r].done

Shown == \A i \in Script!Ids : i \notin raced => ShownOf(i)

RunsHold == StartsHold /\ LaunchesApart /\ Recording /\ Accounted /\ Shown

ScriptInv == ScriptTypes /\ EditsHold /\ RunsHold

LEMMA ScriptFacts ==
    /\ MaxScript \in Nat /\ MaxRun \in Nat /\ Bad \in Schedules
    /\ None \notin ScriptNames \cup Schedules \cup Paths /\ None # "ok" /\ None # "failed"
    /\ None \notin Script!Row
    /\ Script!Ids = 1..MaxScript /\ Script!RunIds = 1..MaxRun
    /\ Script!Edits = {"write", "fetch", "sync"} /\ Script!Starts = {"insert", "launch"}
    /\ Admins \subseteq Script!Callers /\ Jobs \subseteq Script!Callers
BY OperationsAssumption DEF Script!Constants, Script!Ids, Script!RunIds, Script!Edits, Script!Starts,
   Script!Callers

LEMMA RunFacts ==
    ASSUME ScriptTypes
    PROVE  /\ Len(runs) \in Nat /\ DOMAIN runs = 1..Len(runs)
           /\ \A r \in 1..Len(runs) : runs[r] \in RunRow /\ r \in Script!RunIds
           /\ \A r \in 1..Len(runs) : runs[r].script \in Script!Ids /\ runs[r].script \in 1..lastId
<1>1. /\ Len(runs) \in Nat /\ DOMAIN runs = 1..Len(runs)
      /\ \A r \in 1..Len(runs) : runs[r] \in RunRow /\ r \in Script!RunIds
  BY ScriptFacts, LenProperties, ElementOfSeq DEF ScriptTypes, TableTypes
<1>2. \A r \in 1..Len(runs) : runs[r].script \in 1..MaxScript /\ runs[r].script <= lastId
  BY <1>1, ScriptFacts DEF ScriptTypes, TableTypes, RunRow
<1> QED
  BY <1>1, <1>2, ScriptFacts DEF ScriptTypes, TableTypes

\* What the cron entry of a script should be.
LEMMA AddLockedType ==
    ASSUME NEW row \in Script!Row \cup {None}
    PROVE  Script!AddLocked(row) \in (Schedules \ {Bad}) \cup {None}
BY ScriptFacts DEF Script!AddLocked, Script!Row

LEMMA CallsMove ==
    ASSUME ScriptTypes, NEW c \in Script!Callers, NEW w, call' = [call EXCEPT ![c] = w]
    PROVE  call'[c] = w /\ \A d \in Script!Callers : d # c => call'[d] = call[d]
BY DEF ScriptTypes, CallTypes

\* The locals of a request.
Locals(pc, i, row) == [pc |-> pc, id |-> i, row |-> row, run |-> 0]

LEMMA GotoLocals ==
    ASSUME NEW c, NEW pc, NEW i, NEW row
    PROVE  /\ Script!Goto(c, pc, i, row) => call' = [call EXCEPT ![c] = Locals(pc, i, row)]
           /\ Script!End(c) => call' = [call EXCEPT ![c] = Locals("idle", 0, None)]
           /\ Script!Idle = Locals("idle", 0, None)
BY DEF Script!Goto, Script!End, Script!Idle, Locals

\* A step that leaves alone what the edits of i are about.
LEMMA EditsSame ==
    ASSUME NEW i \in Script!Ids, EditsOf(i), scheduler' = scheduler, cron'[i] = cron[i],
           listing'[i] = listing[i],
           Script!AddLocked(scripts'[i]) = Script!AddLocked(scripts[i]),
           scripts[i] # None => scripts'[i] # None,
           \A c \in Script!Callers :
               \/ call'[c].pc \in Script!Edits /\ call'[c].id = i
               \/ call[c].pc \in {"fetch", "sync"} /\ call[c].id = i
               => call'[c] = call[c]
    PROVE  EditsOf(i)'
<1>1. \A c \in Script!Callers : Editing(c, i)' => Editing(c, i) /\ call'[c] = call[c]
  BY DEF Editing
<1>2. ~Late(i)' => ~Late(i)
  BY DEF Late
<1> QED
  BY <1>1, <1>2 DEF EditsOf

LEMMA EditsFrame ==
    ASSUME EditsHold, raced \subseteq raced', UNCHANGED <<scheduler, cron, listing>>,
           \A i \in Script!Ids :
               /\ Script!AddLocked(scripts'[i]) = Script!AddLocked(scripts[i])
               /\ scripts[i] # None => scripts'[i] # None,
           \A c \in Script!Callers :
               call'[c].pc \in Script!Edits \/ call[c].pc \in {"fetch", "sync"} => call'[c] = call[c]
    PROVE  EditsHold'
BY EditsSame DEF EditsHold

\* A step that leaves alone what the runs are about.
LEMMA RunsFrame ==
    ASSUME ScriptTypes, RunsHold, raced \subseteq raced', UNCHANGED <<exec, busyScripts, lost>>,
           Len(runs') = Len(runs),
           \A r \in 1..Len(runs) : runs'[r].script = runs[r].script /\ runs'[r].done = runs[r].done,
           \A c \in Script!Callers :
               call'[c].pc \in Script!Starts \/ call[c].pc = "launch" => call'[c] = call[c],
           \A i \in Script!Ids : i <= lastId =>
               /\ scripts[i] = None => scripts'[i] = None
               /\ scripts'[i] # None => scripts'[i].last = scripts[i].last
    PROVE  RunsHold'
<1>0. /\ Len(runs) \in Nat /\ \A r \in 1..Len(runs) : runs[r].script \in Script!Ids /\ runs[r].script <= lastId
      /\ \A r \in Script!RunIds : exec[r].pc # "none" => r \in 1..Len(runs)
  BY RunFacts DEF ScriptTypes, TableTypes, ExecTypes
<1>1. \A r, i : Flying(r, i)' <=> Flying(r, i)
  BY DEF Flying
<1>2. \A r \in 1..Len(runs) : Newest(r)' <=> Newest(r)
  BY DEF Newest
<1>3. \A c \in Script!Callers : \A i : Starting(c, i)' => Starting(c, i) /\ call'[c] = call[c]
  BY DEF Starting
<1>4. LaunchesApart'
  BY ScriptFacts DEF RunsHold, LaunchesApart
<1>5. StartsHold'
  <2> SUFFICES ASSUME NEW i \in Script!Ids, i \notin raced' PROVE StartsOf(i)'
    BY DEF StartsHold
  <2>1. StartsOf(i)
    BY DEF RunsHold, StartsHold
  <2>2. \A c \in Script!Callers : call[c].pc = "launch" => call[c].run \in 1..Len(runs)
    BY DEF RunsHold, LaunchesApart
  <2>3. \A r \in Script!RunIds : Flying(r, i) => r \in 1..Len(runs)
    BY DEF Flying
  <2> QED
    BY <1>1, <1>2, <1>3, <2>1, <2>2, <2>3 DEF StartsOf
<1>6. Recording'
  BY <1>0 DEF RunsHold, Recording
<1>7. Accounted'
  <2>1. \A c \in Script!Callers : \A r : Launching(c, r) => Launching(c, r)'
    BY DEF Launching
  <2> QED
    BY <2>1 DEF RunsHold, Accounted
<1>8. Shown'
  <2> SUFFICES ASSUME NEW i \in Script!Ids, i \notin raced' PROVE ShownOf(i)'
    BY DEF Shown
  <2>1. CASE i <= lastId
    <3>1. ShownOf(i)
      BY DEF RunsHold, Shown
    <3>2. scripts'[i] # None => scripts[i] # None /\ scripts'[i].last = scripts[i].last
      BY <2>1
    <3> QED
      BY <1>1, <1>2, <3>1, <3>2 DEF ShownOf
  <2>2. CASE ~(i <= lastId)
    BY <1>0, <2>2 DEF ShownOf
  <2> QED
    BY <2>1, <2>2
<1> QED
  BY <1>4, <1>5, <1>6, <1>7, <1>8 DEF RunsHold

\* The types, when a request goes on and the tables stay.
LEMMA CallMovesTypes ==
    ASSUME ScriptTypes, NEW c \in Script!Callers, NEW w \in Call, call' = [call EXCEPT ![c] = w],
           w.pc # "idle" => w.id \in 1..lastId, w.pc \in {"write", "body"} => w.row # None,
           w.pc = "write" => w.row.schedule # Bad, w.run # 0 <=> w.pc = "launch",
           lastId' = lastId
    PROVE  CallTypes'
BY CallsMove DEF ScriptTypes, CallTypes

LEMMA LocalsType ==
    ASSUME ScriptTypes, NEW pc \in {"idle", "write", "fetch", "sync", "body", "insert"},
           NEW i \in 0..MaxScript, NEW row \in Script!Row \cup {None}
    PROVE  /\ Locals(pc, i, row) \in Call /\ Locals(pc, i, row).pc = pc
           /\ Locals(pc, i, row).id = i /\ Locals(pc, i, row).row = row
           /\ Locals(pc, i, row).run = 0
BY ScriptFacts DEF Locals, Call

\* CreateScript, up to the row.
LEMMA CreateScriptStep ==
    ASSUME ScriptInv, NEW c \in Script!Callers, NEW in \in Script!Input, Script!CreateScript(c, in)
    PROVE  ScriptInv'
<1> DEFINE n == lastId + 1
           row == [name |-> in.name, schedule |-> in.schedule, path |-> in.path,
                   enabled |-> in.enabled # FALSE, last |-> None]
           w == Locals("fetch", n, None)
<1>0. /\ ScriptTypes /\ EditsHold /\ RunsHold /\ call[c].pc = "idle" /\ lastId < MaxScript
      /\ lastId' = n /\ scripts' = [scripts EXCEPT ![n] = row] /\ call' = [call EXCEPT ![c] = w]
      /\ UNCHANGED <<scheduler, boots, runs, content, cron, listing, busyScripts, exec, raced, lost>>
  BY GotoLocals DEF ScriptInv, Script!CreateScript
<1>1. row \in Script!Row /\ row.schedule # Bad /\ row # None
  <2>1. in.name \in ScriptNames /\ in.schedule \in Schedules \ {Bad} /\ in.path \in Paths
    BY DEF Script!CreateScript, Script!Valid, Script!ValidateSchedule, Script!ValidateScriptPath, Script!Input
  <2>2. row \in Script!Row /\ row.schedule # Bad
    BY <2>1 DEF Script!Row
  <2> QED
    BY <2>2, ScriptFacts
<1>2. lastId \in Nat /\ n \in Script!Ids /\ n \in 0..MaxScript /\ n \in 1..n
  BY <1>0, ScriptFacts DEF ScriptTypes, TableTypes
<1>3. w \in Call /\ w.pc = "fetch" /\ w.id = n /\ w.run = 0 /\ w.row = None
  BY <1>0, <1>2, LocalsType
<1> HIDE DEF row, w
<1>4. call'[c] = w /\ \A d \in Script!Callers : d # c => call'[d] = call[d]
  BY <1>0, CallsMove
<1>5. \A i \in Script!Ids : scripts'[i] = IF i = n THEN row ELSE scripts[i]
  BY <1>0 DEF ScriptTypes, TableTypes
<1>6. ScriptTypes'
  <2>1. TableTypes'
    <3>1. scripts' \in [Script!Ids -> Script!Row \cup {None}]
      BY <1>0, <1>1 DEF ScriptTypes, TableTypes
    <3>2. \A i \in Script!Ids : scripts'[i] # None => scripts'[i].schedule # Bad /\ i <= n
      <4>1. \A i \in Script!Ids : scripts[i] # None => scripts[i].schedule # Bad /\ i <= lastId
        BY <1>0 DEF ScriptTypes, TableTypes
      <4>2. \A i \in Script!Ids : i <= lastId => i <= n
        BY <1>2, ScriptFacts
      <4> QED
        BY <1>1, <1>2, <1>5, <4>1, <4>2
    <3>3. \A r \in 1..Len(runs) : runs[r].script <= n
      BY <1>0, <1>2, RunFacts
    <3> QED
      BY <1>0, <1>2, <3>1, <3>2, <3>3 DEF ScriptTypes, TableTypes
  <2>2. CallTypes'
    <3>1. call' \in [Script!Callers -> Call]
      BY <1>0, <1>3 DEF ScriptTypes, CallTypes
    <3>2. \A k \in 1..lastId : k \in 1..n
      BY <1>2
    <3> QED
      BY <1>0, <1>2, <1>3, <1>4, <3>1, <3>2 DEF ScriptTypes, CallTypes
  <2>3. SchedulerTypes' /\ ExecTypes'
    BY <1>0 DEF ScriptTypes, SchedulerTypes, ExecTypes
  <2> QED
    BY <2>1, <2>2, <2>3 DEF ScriptTypes
<1>7. EditsHold'
  <2> SUFFICES ASSUME NEW i \in Script!Ids, i \notin raced PROVE EditsOf(i)'
    BY <1>0 DEF EditsHold
  <2>1. CASE i = n
    <3>1. \A d \in Script!Callers : d # c => ~Editing(d, i)'
      <4>1. \A d \in Script!Callers : call[d].pc # "idle" => call[d].id # n
        BY <1>0, <1>2 DEF ScriptTypes, CallTypes
      <4> QED
        BY <1>4, <2>1, <4>1, ScriptFacts DEF Editing
    <3>2. Late(i)' /\ scripts'[i] # None
      BY <1>1, <1>3, <1>4, <1>5, <2>1 DEF Late
    <3>3. call'[c].pc = "fetch"
      BY <1>3, <1>4
    <3> QED
      BY <3>1, <3>2, <3>3 DEF EditsOf
  <2>2. CASE i # n
    <3>1. scripts'[i] = scripts[i] /\ EditsOf(i)
      BY <1>0, <1>5, <2>2 DEF EditsHold
    <3>2. \A d \in Script!Callers :
              \/ call'[d].pc \in Script!Edits /\ call'[d].id = i
              \/ call[d].pc \in {"fetch", "sync"} /\ call[d].id = i
              => call'[d] = call[d]
      BY <1>0, <1>3, <1>4, <2>2
    <3> QED
      BY <1>0, <3>1, <3>2, EditsSame
  <2> QED
    BY <2>1, <2>2
<1>8. RunsHold'
  <2>1. \A d \in Script!Callers :
            call'[d].pc \in Script!Starts \/ call[d].pc = "launch" => call'[d] = call[d]
    BY <1>0, <1>3, <1>4, ScriptFacts
  <2>2. \A i \in Script!Ids : i <= lastId => scripts'[i] = scripts[i]
    BY <1>2, <1>5
  <2> QED
    BY <1>0, <2>1, <2>2, RunsFrame
<1> QED
  BY <1>6, <1>7, <1>8 DEF ScriptInv

\* Race: who begins an edit or a start that is not noted is the only one.
LEMMA RaceNoted ==
    ASSUME NEW c \in Script!Callers, NEW i, NEW pcs, raced' = Script!Race(c, i, pcs)
    PROVE  /\ raced \subseteq raced'
           /\ i \notin raced' => \A d \in Script!Callers : d # c => ~(call[d].pc \in pcs /\ call[d].id = i)
BY DEF Script!Race

\* UpdateScript reads the row and merges it with the request.
LEMMA UpdateScriptStep ==
    ASSUME ScriptInv, NEW c \in Script!Callers, NEW i \in Script!Ids, NEW in \in Script!Input,
           Script!UpdateScript(c, i, in)
    PROVE  ScriptInv'
<1> DEFINE row == Script!Merged(scripts[i], in)
           w == Locals("write", i, row)
<1>0. /\ ScriptTypes /\ EditsHold /\ RunsHold /\ call[c].pc = "idle" /\ scripts[i] # None
      /\ call' = [call EXCEPT ![c] = w] /\ raced' = Script!Race(c, i, Script!Edits)
      /\ UNCHANGED <<scheduler, boots, scripts, lastId, runs, content, cron, listing, busyScripts, exec, lost>>
  BY GotoLocals DEF ScriptInv, Script!UpdateScript
<1>1. row \in Script!Row /\ row.schedule # Bad /\ row # None
  <2>1. scripts[i] \in Script!Row /\ scripts[i].schedule # Bad
    BY <1>0 DEF ScriptTypes, TableTypes
  <2>2. row \in Script!Row
    BY <2>1 DEF Script!Merged, Script!Row, Script!Input
  <2>3. row.schedule # Bad
    BY DEF Script!UpdateScript, Script!Valid, Script!ValidateSchedule
  <2> QED
    BY <2>2, <2>3, ScriptFacts
<1> HIDE DEF row
<1>2. i \in 0..MaxScript /\ i \in 1..lastId
  BY <1>0, ScriptFacts DEF ScriptTypes, TableTypes
<1>3. w \in Call /\ w.pc = "write" /\ w.id = i /\ w.run = 0 /\ w.row = row
  BY <1>0, <1>1, <1>2, LocalsType
<1> HIDE DEF w
<1>4. call'[c] = w /\ \A d \in Script!Callers : d # c => call'[d] = call[d]
  BY <1>0, CallsMove
<1>5. ScriptTypes'
  <2>1. CallTypes'
    BY <1>0, <1>1, <1>2, <1>3, CallMovesTypes
  <2> QED
    BY <1>0, <2>1 DEF ScriptTypes, TableTypes, SchedulerTypes, ExecTypes
<1>6. raced \subseteq raced' /\ (i \notin raced' => \A d \in Script!Callers : d # c => ~Editing(d, i))
  BY <1>0, RaceNoted DEF Editing
<1>7. EditsHold'
  <2> SUFFICES ASSUME NEW j \in Script!Ids, j \notin raced' PROVE EditsOf(j)'
    BY DEF EditsHold
  <2>0. EditsOf(j)
    BY <1>0, <1>6 DEF EditsHold
  <2>1. CASE j = i
    <3>1. \A d \in Script!Callers : d # c => ~Editing(d, i)'
      BY <1>4, <1>6, <2>1 DEF Editing
    <3>2. ~Late(i)
      BY <1>0, <1>6, <2>1, ScriptFacts DEF Late, Editing
    <3>3. call'[c].pc = "write"
      BY <1>3, <1>4
    <3> QED
      BY <1>0, <2>0, <2>1, <3>1, <3>2, <3>3 DEF EditsOf
  <2>2. CASE j # i
    <3>1. \A d \in Script!Callers :
              \/ call'[d].pc \in Script!Edits /\ call'[d].id = j
              \/ call[d].pc \in {"fetch", "sync"} /\ call[d].id = j
              => call'[d] = call[d]
      BY <1>0, <1>3, <1>4, <2>2
    <3> QED
      BY <1>0, <2>0, <3>1, EditsSame
  <2> QED
    BY <2>1, <2>2
<1>8. RunsHold'
  <2>1. \A d \in Script!Callers :
            call'[d].pc \in Script!Starts \/ call[d].pc = "launch" => call'[d] = call[d]
    BY <1>0, <1>3, <1>4, ScriptFacts
  <2> QED
    BY <1>0, <1>6, <2>1, RunsFrame
<1> QED
  BY <1>5, <1>7, <1>8 DEF ScriptInv

\* UpdateScript writes what it has merged.
LEMMA WriteScriptStep ==
    ASSUME ScriptInv, NEW c \in Script!Callers, Script!WriteScript(c)
    PROVE  ScriptInv'
<1> PICK i : i = call[c].id
  OBVIOUS
<1> DEFINE row == [call[c].row EXCEPT !.last = scripts[i].last]
<1>0. /\ ScriptTypes /\ EditsHold /\ RunsHold /\ call[c].pc = "write"
      /\ UNCHANGED <<scheduler, boots, lastId, runs, content, cron, listing, busyScripts, exec, raced, lost>>
  BY DEF ScriptInv, Script!WriteScript
<1>1. i \in 1..lastId /\ i \in Script!Ids /\ i \in 0..MaxScript /\ 0 \in 0..MaxScript
  BY <1>0, ScriptFacts DEF ScriptTypes, CallTypes, TableTypes
<1>2. call[c].row \in Script!Row /\ call[c].row.schedule # Bad
  BY <1>0 DEF ScriptTypes, CallTypes, Call
<1>3. scripts[i] # None => row \in Script!Row /\ row.schedule # Bad /\ row # None /\ row.last = scripts[i].last
  <2>1. scripts[i] # None => scripts[i].last \in {None, "ok", "failed"}
    BY <1>0, <1>1 DEF ScriptTypes, TableTypes, Script!Row
  <2>2. scripts[i] # None => row \in Script!Row /\ row.schedule # Bad /\ row.last = scripts[i].last
    BY <1>2, <2>1 DEF Script!Row
  <2> QED
    BY <2>2, ScriptFacts
<1> HIDE DEF row
<1>4. CASE call' = [call EXCEPT ![c] = Locals("idle", 0, None)] /\ UNCHANGED scripts
  <2> DEFINE w == Locals("idle", 0, None)
  <2>1. w \in Call /\ w.pc = "idle" /\ w.run = 0
    BY <1>0, <1>1, LocalsType
  <2> HIDE DEF w
  <2>2. call'[c] = w /\ \A d \in Script!Callers : d # c => call'[d] = call[d]
    BY <1>0, <1>4, CallsMove DEF w
  <2>3. CallTypes'
    BY <1>0, <1>4, <2>1, CallMovesTypes DEF w
  <2>4. ScriptTypes'
    BY <1>0, <1>4, <2>3 DEF ScriptTypes, TableTypes, SchedulerTypes, ExecTypes
  <2>5. \A d \in Script!Callers :
            /\ call'[d].pc \in Script!Starts \/ call[d].pc = "launch" => call'[d] = call[d]
            /\ call'[d].pc \in Script!Edits \/ call[d].pc \in {"fetch", "sync"} => call'[d] = call[d]
    BY <1>0, <2>1, <2>2, ScriptFacts
  <2> QED
    BY <1>0, <1>4, <2>4, <2>5, RunsFrame, EditsFrame DEF ScriptInv
<1>5. CASE /\ call' = [call EXCEPT ![c] = Locals("fetch", i, None)]
           /\ scripts' = IF scripts[i] = None THEN scripts ELSE [scripts EXCEPT ![i] = row]
  <2> DEFINE w == Locals("fetch", i, None)
  <2>1. w \in Call /\ w.pc = "fetch" /\ w.id = i /\ w.run = 0
    BY <1>0, <1>1, LocalsType
  <2> HIDE DEF w
  <2>2. call'[c] = w /\ \A d \in Script!Callers : d # c => call'[d] = call[d]
    BY <1>0, <1>5, CallsMove DEF w
  <2>3. \A j \in Script!Ids : scripts'[j] = IF j = i /\ scripts[i] # None THEN row ELSE scripts[j]
    BY <1>0, <1>1, <1>5 DEF ScriptTypes, TableTypes
  <2>4. TableTypes'
    <3>1. scripts' \in [Script!Ids -> Script!Row \cup {None}]
      BY <1>0, <1>3, <1>5 DEF ScriptTypes, TableTypes
    <3>2. \A j \in Script!Ids : scripts'[j] # None => scripts'[j].schedule # Bad /\ j <= lastId
      BY <1>0, <1>1, <1>3, <2>3 DEF ScriptTypes, TableTypes
    <3> QED
      BY <1>0, <3>1, <3>2 DEF ScriptTypes, TableTypes
  <2>5. CallTypes'
    BY <1>0, <1>1, <1>5, <2>1, CallMovesTypes DEF w
  <2>6. ScriptTypes'
    BY <1>0, <2>4, <2>5 DEF ScriptTypes, SchedulerTypes, ExecTypes
  <2>7. EditsHold'
    <3> SUFFICES ASSUME NEW j \in Script!Ids, j \notin raced PROVE EditsOf(j)'
      BY <1>0 DEF EditsHold
    <3>0. EditsOf(j)
      BY <1>0 DEF EditsHold
    <3>1. CASE j = i
      <4>1. Editing(c, i) /\ scripts[i] # None
        BY <1>0, <3>0, <3>1, ScriptFacts DEF EditsOf, Editing
      <4>2. \A d \in Script!Callers : d # c => ~Editing(d, i)'
        BY <2>2, <3>0, <3>1, <4>1 DEF EditsOf, Editing
      <4>3. Late(i)' /\ scripts'[i] # None /\ call'[c].pc = "fetch"
        BY <1>1, <1>3, <2>1, <2>2, <2>3, <4>1 DEF Late
      <4> QED
        BY <3>1, <4>2, <4>3 DEF EditsOf
    <3>2. CASE j # i
      <4>1. \A d \in Script!Callers :
                \/ call'[d].pc \in Script!Edits /\ call'[d].id = j
                \/ call[d].pc \in {"fetch", "sync"} /\ call[d].id = j
                => call'[d] = call[d]
        BY <1>0, <2>1, <2>2, <3>2
      <4> QED
        BY <1>0, <2>3, <3>0, <3>2, <4>1, EditsSame
    <3> QED
      BY <3>1, <3>2
  <2>8. \A d \in Script!Callers :
            call'[d].pc \in Script!Starts \/ call[d].pc = "launch" => call'[d] = call[d]
    BY <1>0, <2>1, <2>2, ScriptFacts
  <2>9. \A j \in Script!Ids :
            /\ scripts[j] = None => scripts'[j] = None
            /\ scripts'[j] # None => scripts'[j].last = scripts[j].last
    BY <1>3, <2>3
  <2> QED
    BY <1>0, <2>6, <2>7, <2>8, <2>9, RunsFrame DEF ScriptInv
<1>6. \/ Script!End(c) /\ UNCHANGED scripts
      \/ /\ Script!Goto(c, "fetch", i, None)
         /\ scripts' = IF scripts[i] = None THEN scripts ELSE [scripts EXCEPT ![i] = row]
  BY DEF Script!WriteScript, row
<1>7. /\ Script!End(c) => call' = [call EXCEPT ![c] = Locals("idle", 0, None)]
      /\ Script!Goto(c, "fetch", i, None) => call' = [call EXCEPT ![c] = Locals("fetch", i, None)]
  BY DEF Script!Goto, Script!End, Script!Idle, Locals
<1> QED
  BY <1>4, <1>5, <1>6, <1>7

\* GetScript at the end of CreateScript and UpdateScript.
LEMMA GetScriptStep ==
    ASSUME ScriptInv, NEW c \in Script!Callers, Script!GetScript(c)
    PROVE  ScriptInv'
<1> PICK i : i = call[c].id
  OBVIOUS
<1> DEFINE w == IF scripts[i] = None THEN Locals("idle", 0, None) ELSE Locals("sync", i, scripts[i])
<1>0. /\ ScriptTypes /\ EditsHold /\ RunsHold /\ call[c].pc = "fetch" /\ call' = [call EXCEPT ![c] = w]
      /\ UNCHANGED <<scheduler, boots, scripts, lastId, runs, content, cron, listing, busyScripts, exec,
                     raced, lost>>
  <2>1. /\ Script!End(c) => call' = [call EXCEPT ![c] = Locals("idle", 0, None)]
        /\ Script!Goto(c, "sync", i, scripts[i]) => call' = [call EXCEPT ![c] = Locals("sync", i, scripts[i])]
    BY DEF Script!Goto, Script!End, Script!Idle, Locals
  <2> QED
    BY <2>1 DEF ScriptInv, Script!GetScript
<1>1. i \in 1..lastId /\ i \in Script!Ids /\ i \in 0..MaxScript /\ 0 \in 0..MaxScript
  BY <1>0, ScriptFacts DEF ScriptTypes, CallTypes, TableTypes
<1>2. /\ w \in Call /\ w.pc \in {"idle", "sync"} /\ w.run = 0
      /\ scripts[i] # None => w.pc = "sync" /\ w.id = i /\ w.row = scripts[i]
      /\ w.pc = "sync" => w.id = i
  <2>1. scripts[i] \in Script!Row \cup {None}
    BY <1>0, <1>1 DEF ScriptTypes, TableTypes
  <2> QED
    BY <1>0, <1>1, <2>1, LocalsType
<1> HIDE DEF w
<1>3. call'[c] = w /\ \A d \in Script!Callers : d # c => call'[d] = call[d]
  BY <1>0, CallsMove
<1>4. ScriptTypes'
  <2>1. CallTypes'
    BY <1>0, <1>1, <1>2, CallMovesTypes
  <2> QED
    BY <1>0, <2>1 DEF ScriptTypes, TableTypes, SchedulerTypes, ExecTypes
<1>5. EditsHold'
  <2> SUFFICES ASSUME NEW j \in Script!Ids, j \notin raced PROVE EditsOf(j)'
    BY <1>0 DEF EditsHold
  <2>0. EditsOf(j)
    BY <1>0 DEF EditsHold
  <2>1. CASE j = i
    <3>1. Editing(c, i) /\ scripts[i] # None
      BY <1>0, <2>0, <2>1, ScriptFacts DEF EditsOf, Editing
    <3>2. \A d \in Script!Callers : d # c => ~Editing(d, i)'
      BY <1>3, <2>0, <2>1, <3>1 DEF EditsOf, Editing
    <3>3. Late(i)' /\ call'[c].pc = "sync" /\ call'[c].row = scripts'[i]
      BY <1>0, <1>2, <1>3, <3>1 DEF Late
    <3> QED
      BY <2>1, <3>2, <3>3 DEF EditsOf
  <2>2. CASE j # i
    <3>1. \A d \in Script!Callers :
              \/ call'[d].pc \in Script!Edits /\ call'[d].id = j
              \/ call[d].pc \in {"fetch", "sync"} /\ call[d].id = j
              => call'[d] = call[d]
      BY <1>0, <1>2, <1>3, <2>2, ScriptFacts
    <3> QED
      BY <1>0, <2>0, <3>1, EditsSame
  <2> QED
    BY <2>1, <2>2
<1>6. \A d \in Script!Callers :
          call'[d].pc \in Script!Starts \/ call[d].pc = "launch" => call'[d] = call[d]
  BY <1>0, <1>2, <1>3, ScriptFacts
<1> QED
  BY <1>0, <1>4, <1>5, <1>6, RunsFrame DEF ScriptInv

\* DeleteScript: the runs stay in place, some of them gone.
LEMMA RunsGone ==
    ASSUME ScriptTypes, NEW i,
           runs' = [r \in DOMAIN runs |-> IF runs[r].script = i THEN [runs[r] EXCEPT !.gone = TRUE] ELSE runs[r]]
    PROVE  /\ runs' \in Seq(RunRow) /\ Len(runs') = Len(runs)
           /\ \A r \in 1..Len(runs) : runs'[r].script = runs[r].script /\ runs'[r].done = runs[r].done
<1> DEFINE row(r) == IF runs[r].script = i THEN [runs[r] EXCEPT !.gone = TRUE] ELSE runs[r]
<1>1. Len(runs) \in Nat /\ DOMAIN runs = 1..Len(runs) /\ \A r \in 1..Len(runs) : runs[r] \in RunRow
  BY RunFacts
<1>2. \A r \in 1..Len(runs) : row(r) \in RunRow /\ row(r).script = runs[r].script /\ row(r).done = runs[r].done
  BY <1>1 DEF RunRow
<1>3. runs' = [r \in 1..Len(runs) |-> row(r)]
  BY <1>1
<1> HIDE DEF row
<1>4. runs' \in Seq(RunRow) /\ Len(runs') = Len(runs)
  <2>1. runs' \in [1..Len(runs) -> RunRow]
    BY <1>2, <1>3
  <2>2. runs' \in Seq(RunRow)
    BY <1>1, <2>1, SeqDef
  <2> QED
    BY <1>1, <2>1, <2>2, LenProperties
<1>5. \A r \in 1..Len(runs) : runs'[r] = row(r)
  BY <1>3
<1> QED
  BY <1>2, <1>4, <1>5

LEMMA DeleteScriptStep ==
    ASSUME ScriptInv, NEW c \in Script!Callers, NEW i \in Script!Ids, Script!DeleteScript(c, i)
    PROVE  ScriptInv'
<1> DEFINE w == Locals("sync", i, None)
<1>0. /\ ScriptTypes /\ EditsHold /\ RunsHold /\ call[c].pc = "idle" /\ scripts[i] # None
      /\ scripts' = [scripts EXCEPT ![i] = None]
      /\ call' = [call EXCEPT ![c] = w] /\ raced' = Script!Race(c, i, Script!Edits)
      /\ UNCHANGED <<scheduler, boots, lastId, content, cron, listing, busyScripts, exec, lost>>
  BY GotoLocals DEF ScriptInv, Script!DeleteScript
<1>1. /\ runs' \in Seq(RunRow) /\ Len(runs') = Len(runs)
      /\ \A r \in 1..Len(runs) : runs'[r].script = runs[r].script /\ runs'[r].done = runs[r].done
  BY <1>0, RunsGone DEF Script!DeleteScript
<1>2. i \in 0..MaxScript /\ i \in 1..lastId
  BY <1>0, ScriptFacts DEF ScriptTypes, TableTypes
<1>3. w \in Call /\ w.pc = "sync" /\ w.id = i /\ w.run = 0 /\ w.row = None
  BY <1>0, <1>2, LocalsType
<1> HIDE DEF w
<1>4. call'[c] = w /\ \A d \in Script!Callers : d # c => call'[d] = call[d]
  BY <1>0, CallsMove
<1>5. \A j \in Script!Ids : scripts'[j] = IF j = i THEN None ELSE scripts[j]
  BY <1>0 DEF ScriptTypes, TableTypes
<1>6. ScriptTypes'
  <2>1. CallTypes'
    BY <1>0, <1>2, <1>3, CallMovesTypes
  <2>2. TableTypes'
    <3>1. scripts' \in [Script!Ids -> Script!Row \cup {None}]
      BY <1>0 DEF ScriptTypes, TableTypes
    <3>2. \A j \in Script!Ids : scripts'[j] # None => scripts'[j].schedule # Bad /\ j <= lastId
      BY <1>0, <1>5 DEF ScriptTypes, TableTypes
    <3> QED
      BY <1>0, <1>1, <3>1, <3>2 DEF ScriptTypes, TableTypes
  <2>3. SchedulerTypes' /\ ExecTypes'
    BY <1>0, <1>1 DEF ScriptTypes, SchedulerTypes, ExecTypes
  <2> QED
    BY <2>1, <2>2, <2>3 DEF ScriptTypes
<1>7. raced \subseteq raced' /\ (i \notin raced' => \A d \in Script!Callers : d # c => ~Editing(d, i))
  BY <1>0, RaceNoted DEF Editing
<1>8. EditsHold'
  <2> SUFFICES ASSUME NEW j \in Script!Ids, j \notin raced' PROVE EditsOf(j)'
    BY DEF EditsHold
  <2>0. EditsOf(j)
    BY <1>0, <1>7 DEF EditsHold
  <2>1. CASE j = i
    <3>1. \A d \in Script!Callers : d # c => ~Editing(d, i)'
      BY <1>4, <1>7, <2>1 DEF Editing
    <3>2. Late(i)' /\ call'[c].pc = "sync" /\ call'[c].row = scripts'[i]
      BY <1>3, <1>4, <1>5 DEF Late
    <3> QED
      BY <2>1, <3>1, <3>2 DEF EditsOf
  <2>2. CASE j # i
    <3>1. \A d \in Script!Callers :
              \/ call'[d].pc \in Script!Edits /\ call'[d].id = j
              \/ call[d].pc \in {"fetch", "sync"} /\ call[d].id = j
              => call'[d] = call[d]
      BY <1>0, <1>3, <1>4, <2>2
    <3> QED
      BY <1>0, <1>5, <2>0, <2>2, <3>1, EditsSame
  <2> QED
    BY <2>1, <2>2
<1>9. RunsHold'
  <2>1. \A d \in Script!Callers :
            call'[d].pc \in Script!Starts \/ call[d].pc = "launch" => call'[d] = call[d]
    BY <1>0, <1>3, <1>4, ScriptFacts
  <2>2. \A j \in Script!Ids : j <= lastId =>
            /\ scripts[j] = None => scripts'[j] = None
            /\ scripts'[j] # None => scripts'[j].last = scripts[j].last
    BY <1>5
  <2> QED
    BY <1>0, <1>1, <1>7, <2>1, <2>2, RunsFrame
<1> QED
  BY <1>6, <1>8, <1>9 DEF ScriptInv

\* PutScriptContent: the file is truncated, and written.
LEMMA ContentStep ==
    ASSUME ScriptInv, NEW c \in Script!Callers,
           (\E i \in Script!Ids : Script!PutScriptContent(c, i)) \/ Script!WriteContent(c)
    PROVE  ScriptInv'
<1>0. /\ ScriptTypes /\ EditsHold /\ RunsHold /\ call[c].pc \in {"idle", "body"}
      /\ UNCHANGED <<scheduler, boots, scripts, lastId, runs, cron, listing, busyScripts, exec, raced, lost>>
  BY DEF ScriptInv, Script!PutScriptContent, Script!WriteContent
<1>1. /\ content' \in [Paths -> {"none", "part", "whole"}]
      /\ \E w \in Call : /\ call' = [call EXCEPT ![c] = w] /\ w.pc \in {"idle", "body"} /\ w.run = 0
                         /\ w.pc = "body" => w.id \in 1..lastId /\ w.row # None
  <2>1. ASSUME NEW i \in Script!Ids, Script!PutScriptContent(c, i) PROVE <1>1!:
    <3>1. /\ scripts[i] # None /\ content' = [content EXCEPT ![scripts[i].path] = "part"]
          /\ call' = [call EXCEPT ![c] = Locals("body", i, scripts[i])]
      <4>1. /\ scripts[i] # None /\ content' = [content EXCEPT ![scripts[i].path] = "part"]
            /\ Script!Goto(c, "body", i, scripts[i])
        BY <2>1 DEF Script!PutScriptContent
      <4>2. Script!Goto(c, "body", i, scripts[i]) => call' = [call EXCEPT ![c] = Locals("body", i, scripts[i])]
        BY DEF Script!Goto, Script!Idle, Locals
      <4> QED
        BY <4>1, <4>2
    <3>2. i \in 0..MaxScript /\ i \in 1..lastId /\ scripts[i] \in Script!Row
      BY <1>0, <3>1, ScriptFacts DEF ScriptTypes, TableTypes
    <3>3. /\ Locals("body", i, scripts[i]) \in Call /\ Locals("body", i, scripts[i]).pc = "body"
          /\ Locals("body", i, scripts[i]).id = i /\ Locals("body", i, scripts[i]).row = scripts[i]
          /\ Locals("body", i, scripts[i]).run = 0
      BY <3>2, ScriptFacts DEF Locals, Call
    <3>4. content' \in [Paths -> {"none", "part", "whole"}]
      BY <1>0, <3>1, <3>2 DEF ScriptTypes, TableTypes
    <3> QED
      BY <3>1, <3>2, <3>3, <3>4
  <2>2. ASSUME Script!WriteContent(c) PROVE <1>1!:
    <3>1. /\ content' = [content EXCEPT ![call[c].row.path] = "whole"]
          /\ call' = [call EXCEPT ![c] = Locals("idle", 0, None)]
      BY <2>2 DEF Script!WriteContent, Script!End, Script!Idle, Locals
    <3>2. 0 \in 0..MaxScript
      BY ScriptFacts
    <3>3. /\ Locals("idle", 0, None) \in Call /\ Locals("idle", 0, None).pc = "idle"
          /\ Locals("idle", 0, None).run = 0
      BY <1>0, <3>2, LocalsType
    <3>4. content' \in [Paths -> {"none", "part", "whole"}]
      BY <1>0, <3>1 DEF ScriptTypes, TableTypes
    <3> QED
      BY <3>1, <3>3, <3>4
  <2> QED
    BY <2>1, <2>2
<1>2. PICK w \in Call : /\ call' = [call EXCEPT ![c] = w] /\ w.pc \in {"idle", "body"} /\ w.run = 0
                        /\ w.pc = "body" => w.id \in 1..lastId /\ w.row # None
  BY <1>1
<1>3. call'[c] = w /\ \A d \in Script!Callers : d # c => call'[d] = call[d]
  BY <1>0, <1>2, CallsMove
<1>4. ScriptTypes'
  <2>1. CallTypes'
    BY <1>0, <1>2, CallMovesTypes
  <2> QED
    BY <1>0, <1>1, <2>1 DEF ScriptTypes, TableTypes, SchedulerTypes, ExecTypes
<1>5. \A d \in Script!Callers :
          /\ call'[d].pc \in Script!Starts \/ call[d].pc = "launch" => call'[d] = call[d]
          /\ call'[d].pc \in Script!Edits \/ call[d].pc \in {"fetch", "sync"} => call'[d] = call[d]
  BY <1>0, <1>2, <1>3, ScriptFacts
<1> QED
  BY <1>0, <1>4, <1>5, RunsFrame, EditsFrame DEF ScriptInv

\* Reschedule: the cron entry becomes what the row says.
LEMMA RescheduleStep ==
    ASSUME ScriptInv, NEW c \in Script!Callers, Script!Reschedule(c)
    PROVE  ScriptInv'
<1> PICK i : i = call[c].id
  OBVIOUS
<1> DEFINE w == Locals("idle", 0, None)
           e == IF scheduler = "on" THEN Script!AddLocked(call[c].row) ELSE None
<1>0. /\ ScriptTypes /\ EditsHold /\ RunsHold /\ call[c].pc = "sync"
      /\ call' = [call EXCEPT ![c] = w]
      /\ UNCHANGED <<scheduler, boots, scripts, lastId, runs, content, listing, busyScripts, exec, lost>>
  BY GotoLocals DEF ScriptInv, Script!Reschedule
<1>1. i \in 1..lastId /\ i \in Script!Ids /\ i \in 0..MaxScript /\ 0 \in 0..MaxScript
  BY <1>0, ScriptFacts DEF ScriptTypes, CallTypes, TableTypes
<1>2. w \in Call /\ w.pc = "idle" /\ w.run = 0
  BY <1>0, <1>1, LocalsType
<1> HIDE DEF w
<1>3. call'[c] = w /\ \A d \in Script!Callers : d # c => call'[d] = call[d]
  BY <1>0, CallsMove
<1>4. e \in (Schedules \ {Bad}) \cup {None}
  <2>1. call[c].row \in Script!Row \cup {None}
    BY <1>0 DEF ScriptTypes, CallTypes, Call
  <2> QED
    BY <2>1, AddLockedType
<1>5. cron' = [[cron EXCEPT ![i] = None] EXCEPT ![i] = e]
  BY DEF Script!Reschedule, Script!Remove
<1>6. /\ raced \subseteq raced'
      /\ i \notin raced' /\ scheduler = "listed" => Script!AddLocked(listing[i]) = Script!AddLocked(call[c].row)
  BY DEF Script!Reschedule
<1> HIDE DEF e
<1>7. /\ cron' \in [Script!Ids -> (Schedules \ {Bad}) \cup {None}]
      /\ \A j \in Script!Ids : cron'[j] = IF j = i THEN e ELSE cron[j]
  BY <1>0, <1>1, <1>4, <1>5 DEF ScriptTypes, SchedulerTypes
<1>8. ScriptTypes'
  <2>1. CallTypes'
    BY <1>0, <1>2, CallMovesTypes
  <2> QED
    BY <1>0, <1>7, <2>1 DEF ScriptTypes, TableTypes, SchedulerTypes, ExecTypes
<1>9. EditsHold'
  <2> SUFFICES ASSUME NEW j \in Script!Ids, j \notin raced' PROVE EditsOf(j)'
    BY DEF EditsHold
  <2>0. EditsOf(j)
    BY <1>0, <1>6 DEF EditsHold
  <2>1. CASE j = i
    <3>1. Editing(c, i) /\ Script!AddLocked(call[c].row) = Script!AddLocked(scripts[i])
      BY <1>0, <2>0, <2>1, ScriptFacts DEF EditsOf, Editing
    <3>2. \A d \in Script!Callers : ~Editing(d, i)'
      BY <1>2, <1>3, <2>0, <2>1, <3>1, ScriptFacts DEF EditsOf, Editing
    <3>3. /\ scheduler = "on" => cron'[i] = Script!AddLocked(scripts[i])
          /\ scheduler = "listed" => Script!AddLocked(listing[i]) = Script!AddLocked(scripts[i])
      BY <1>1, <1>6, <1>7, <2>1, <3>1 DEF e
    <3> QED
      BY <1>0, <2>1, <3>2, <3>3 DEF EditsOf
  <2>2. CASE j # i
    <3>1. \A d \in Script!Callers :
              \/ call'[d].pc \in Script!Edits /\ call'[d].id = j
              \/ call[d].pc \in {"fetch", "sync"} /\ call[d].id = j
              => call'[d] = call[d]
      BY <1>0, <1>2, <1>3, <2>2, ScriptFacts
    <3> QED
      BY <1>0, <1>7, <2>0, <2>2, <3>1, EditsSame
  <2> QED
    BY <2>1, <2>2
<1>10. \A d \in Script!Callers :
          call'[d].pc \in Script!Starts \/ call[d].pc = "launch" => call'[d] = call[d]
  BY <1>0, <1>2, <1>3, ScriptFacts
<1> QED
  BY <1>0, <1>6, <1>8, <1>9, <1>10, RunsFrame DEF ScriptInv

\* StartRun: nothing of the script is under way, or it is noted.
LEMMA StartRunStep ==
    ASSUME ScriptInv, NEW c \in Script!Callers, NEW i \in Script!Ids, Script!StartRun(c, i)
    PROVE  ScriptInv'
<1> DEFINE w == Locals("insert", i, None)
<1>0. /\ ScriptTypes /\ EditsHold /\ RunsHold /\ call[c].pc = "idle" /\ scripts[i] # None
      /\ i \notin busyScripts
      /\ call' = [call EXCEPT ![c] = w] /\ raced' = Script!Race(c, i, Script!Starts)
      /\ UNCHANGED <<scheduler, boots, scripts, lastId, runs, content, cron, listing, busyScripts, exec, lost>>
  BY GotoLocals DEF ScriptInv, Script!StartRun, Script!IsRunning
<1>1. i \in 0..MaxScript /\ i \in 1..lastId
  BY <1>0, ScriptFacts DEF ScriptTypes, TableTypes
<1>2. w \in Call /\ w.pc = "insert" /\ w.id = i /\ w.run = 0
  BY <1>0, <1>1, LocalsType
<1> HIDE DEF w
<1>3. call'[c] = w /\ \A d \in Script!Callers : d # c => call'[d] = call[d]
  BY <1>0, CallsMove
<1>4. ScriptTypes'
  <2>1. CallTypes'
    BY <1>0, <1>1, <1>2, CallMovesTypes
  <2> QED
    BY <1>0, <2>1 DEF ScriptTypes, TableTypes, SchedulerTypes, ExecTypes
<1>5. raced \subseteq raced' /\ (i \notin raced' => \A d \in Script!Callers : d # c => ~Starting(d, i))
  BY <1>0, RaceNoted DEF Starting
<1>6. EditsHold'
  <2>1. \A d \in Script!Callers :
            call'[d].pc \in Script!Edits \/ call[d].pc \in {"fetch", "sync"} => call'[d] = call[d]
    BY <1>0, <1>2, <1>3, ScriptFacts
  <2> QED
    BY <1>0, <1>5, <2>1, EditsFrame
<1>7. StartsHold'
  <2> SUFFICES ASSUME NEW j \in Script!Ids, j \notin raced' PROVE StartsOf(j)'
    BY DEF StartsHold
  <2>0. StartsOf(j)
    BY <1>0, <1>5 DEF RunsHold, StartsHold
  <2>1. \A r : (Flying(r, j)' <=> Flying(r, j)) /\ (Newest(r)' <=> Newest(r))
    BY <1>0 DEF Flying, Newest
  <2>2. \A d \in Script!Callers : d # c => (Starting(d, j)' <=> Starting(d, j))
    BY <1>3 DEF Starting
  <2>3. CASE j = i
    <3>1. \A d \in Script!Callers : Starting(d, j)' => d = c
      BY <1>5, <2>2, <2>3
    <3>2. \A r \in Script!RunIds : ~Flying(r, j)
      BY <1>0, <2>0, <2>3 DEF StartsOf
    <3>3. call'[c].pc # "launch"
      BY <1>2, <1>3
    <3> QED
      BY <2>1, <3>1, <3>2, <3>3 DEF StartsOf
  <2>4. CASE j # i
    <3>1. ~Starting(c, j)'
      BY <1>2, <1>3, <2>4 DEF Starting
    <3> QED
      BY <1>0, <1>3, <2>0, <2>1, <2>2, <3>1 DEF StartsOf
  <2> QED
    BY <2>3, <2>4
<1>8. LaunchesApart' /\ Recording' /\ Accounted'
  <2>1. LaunchesApart'
    BY <1>0, <1>2, <1>3 DEF RunsHold, LaunchesApart
  <2>2. Recording'
    BY <1>0 DEF RunsHold, Recording
  <2>3. \A d \in Script!Callers : \A r : Launching(d, r) => Launching(d, r)'
    BY <1>0, <1>3 DEF Launching
  <2> QED
    BY <1>0, <2>1, <2>2, <2>3 DEF RunsHold, Accounted
<1>9. Shown'
  BY <1>0, <1>5 DEF RunsHold, Shown, ShownOf, Flying, Newest
<1> QED
  BY <1>4, <1>6, <1>7, <1>8, <1>9 DEF ScriptInv, RunsHold

\* An execution goes on: the run is under way before and after.
LEMMA ExecMoves ==
    ASSUME ScriptTypes, RunsHold, NEW r \in Script!RunIds, NEW x \in Exec,
           exec[r].pc # "none", x.pc # "none", exec' = [exec EXCEPT ![r] = x],
           UNCHANGED <<scripts, busyScripts, call, raced>>, Len(runs') = Len(runs),
           \A q \in 1..Len(runs) : runs'[q].script = runs[q].script,
           \A q \in 1..Len(runs) : q # r => runs'[q].done = runs[q].done,
           lost \subseteq lost',
           x.pc = "run" => x.known,
           x.pc \in {"record", "status"} => x.out # None /\ (~x.known => scripts[runs[r].script] = None),
           x.pc = "status" /\ r \notin lost' => runs'[r].done = x.out
    PROVE  RunsHold' /\ ExecTypes'
<1>0. /\ Len(runs) \in Nat /\ r \in 1..Len(runs) /\ runs[r].script \in Script!Ids
      /\ \A q \in Script!RunIds : exec[q].pc # "none" => q \in 1..Len(runs)
  BY RunFacts DEF ScriptTypes, ExecTypes
<1>1. exec'[r] = x /\ \A q \in Script!RunIds : q # r => exec'[q] = exec[q]
  BY DEF ScriptTypes, ExecTypes
<1>2. ExecTypes'
  BY <1>0, <1>1 DEF ScriptTypes, ExecTypes
<1>3. \A q \in Script!RunIds : \A i : Flying(q, i)' <=> Flying(q, i)
  BY <1>1 DEF Flying
<1>4. \A q \in 1..Len(runs) : Newest(q)' <=> Newest(q)
  BY DEF Newest
<1>5. LaunchesApart'
  <2>1. \A c \in Script!Callers : call[c].pc = "launch" => call[c].run \in 1..Len(runs) /\ call[c].run # r
    BY DEF RunsHold, LaunchesApart
  <2>2. 1..Len(runs) \subseteq Script!RunIds
    BY RunFacts
  <2> QED
    BY <1>1, <2>1, <2>2 DEF RunsHold, LaunchesApart
<1>6. StartsHold'
  <2> SUFFICES ASSUME NEW i \in Script!Ids, i \notin raced PROVE StartsOf(i)'
    BY DEF StartsHold
  <2>1. StartsOf(i)
    BY DEF RunsHold, StartsHold
  <2>2. \A c \in Script!Callers : call[c].pc = "launch" => call[c].run \in 1..Len(runs)
    BY DEF RunsHold, LaunchesApart
  <2>3. \A q \in Script!RunIds : Flying(q, i) => q \in 1..Len(runs)
    BY DEF Flying
  <2>4. \A c \in Script!Callers : Starting(c, i)' <=> Starting(c, i)
    BY DEF Starting
  <2> QED
    BY <1>3, <1>4, <2>1, <2>2, <2>3, <2>4 DEF StartsOf
<1>7. Recording'
  <2> SUFFICES ASSUME NEW q \in Script!RunIds
               PROVE  /\ exec'[q].pc = "run" => exec'[q].known
                      /\ exec'[q].pc \in {"record", "status"} =>
                            exec'[q].out # None /\ (~exec'[q].known => scripts[runs'[q].script] = None)
                      /\ exec'[q].pc = "status" /\ q \notin lost' => runs'[q].done = exec'[q].out
    BY DEF Recording
  <2>1. CASE q = r
    BY <1>0, <1>1, <2>1
  <2>2. CASE q # r
    <3>1. exec[q].pc # "none" => runs'[q].script = runs[q].script /\ runs'[q].done = runs[q].done
      BY <1>0, <2>2
    <3> QED
      BY <1>1, <2>2, <3>1 DEF RunsHold, Recording
  <2> QED
    BY <2>1, <2>2
<1>8. Accounted'
  <2>1. \A c \in Script!Callers : \A q : Launching(c, q) => Launching(c, q)'
    BY DEF Launching
  <2>2. 1..Len(runs) \subseteq Script!RunIds
    BY RunFacts
  <2> QED
    BY <1>1, <2>1, <2>2 DEF RunsHold, Accounted
<1>9. Shown'
  <2> SUFFICES ASSUME NEW i \in Script!Ids, i \notin raced PROVE ShownOf(i)'
    BY DEF Shown
  <2>1. ShownOf(i)
    BY DEF RunsHold, Shown
  <2>2. CASE runs[r].script = i
    <3>1. Flying(r, i)'
      BY <1>0, <1>3, <2>2 DEF Flying
    <3> QED
      BY <3>1 DEF ShownOf
  <2>3. CASE runs[r].script # i
    <3>1. \A q \in 1..Len(runs) : runs'[q].script = i => runs[q].script = i /\ runs'[q].done = runs[q].done
      BY <2>3
    <3> QED
      BY <1>3, <1>4, <2>1, <3>1 DEF ShownOf
  <2> QED
    BY <2>2, <2>3
<1> QED
  BY <1>2, <1>5, <1>6, <1>7, <1>8, <1>9 DEF RunsHold

\* execute up to cmd.Run.
LEMMA ExecuteStep ==
    ASSUME ScriptInv, NEW r \in Script!RunIds, Script!Execute(r)
    PROVE  ScriptInv'
<1> PICK i : i = runs[r].script
  OBVIOUS
<1> DEFINE x == Script!Begun(scripts[i])
<1>0. /\ ScriptTypes /\ EditsHold /\ RunsHold /\ exec[r].pc = "begin" /\ exec' = [exec EXCEPT ![r] = x]
      /\ UNCHANGED <<scheduler, boots, scripts, lastId, runs, content, cron, listing, call, raced, lost>>
      /\ busyScripts' = IF exec'[r].pc = "none" THEN busyScripts \ {runs[r].script} ELSE busyScripts
  BY DEF ScriptInv, Script!Execute
<1>1. x \in Exec /\ x.pc \in {"record", "run"} /\ (x.pc = "run" => x.known)
      /\ (x.pc = "record" => x.out # None /\ (~x.known => scripts[i] = None))
  BY ScriptFacts DEF Script!Begun, Exec
<1> HIDE DEF x
<1>2. UNCHANGED busyScripts
  BY <1>0, <1>1 DEF ScriptTypes, ExecTypes
<1>3. RunsHold' /\ ExecTypes'
  BY <1>0, <1>1, <1>2, ExecMoves
<1>4. EditsHold'
  BY <1>0, EditsFrame
<1> QED
  BY <1>0, <1>2, <1>3, <1>4 DEF ScriptInv, ScriptTypes, TableTypes, SchedulerTypes, CallTypes

\* cmd.Run ends.
LEMMA RunEndsStep ==
    ASSUME ScriptInv, NEW r \in Script!RunIds, NEW out \in {"ok", "failed"}, Script!RunEnds(r, out)
    PROVE  ScriptInv'
<1> DEFINE x == [exec[r] EXCEPT !.pc = "record", !.out = out]
<1>0. /\ ScriptTypes /\ EditsHold /\ RunsHold /\ exec[r].pc = "run"
      /\ UNCHANGED <<scheduler, boots, scripts, lastId, runs, content, cron, listing, busyScripts, call, raced, lost>>
  BY DEF ScriptInv, Script!RunEnds
<1>1. exec[r] \in Exec
  BY <1>0 DEF ScriptTypes, ExecTypes
<1>2. x \in Exec /\ x.pc = "record" /\ x.out = out /\ x.known = exec[r].known
  BY <1>1 DEF Exec
<1>3. exec' = [exec EXCEPT ![r] = x]
  BY <1>0, <1>1 DEF Script!RunEnds, ScriptTypes, ExecTypes, Exec
<1>4. x.out # None
  BY <1>2, ScriptFacts
<1>5. x.known
  BY <1>0, <1>2 DEF RunsHold, Recording
<1> HIDE DEF x
<1>6. RunsHold' /\ ExecTypes'
  BY <1>0, <1>2, <1>3, <1>4, <1>5, ExecMoves
<1>7. EditsHold'
  BY <1>0, EditsFrame
<1> QED
  BY <1>0, <1>6, <1>7 DEF ScriptInv, ScriptTypes, TableTypes, SchedulerTypes, CallTypes

\* finishRun: the row of the run.
LEMMA FinishRunStep ==
    ASSUME ScriptInv, NEW r \in Script!RunIds, Script!FinishRun(r)
    PROVE  ScriptInv'
<1> DEFINE x == [exec[r] EXCEPT !.pc = "status"]
           row == [runs[r] EXCEPT !.done = exec[r].out]
<1>0. /\ ScriptTypes /\ EditsHold /\ RunsHold /\ exec[r].pc = "record" /\ lost \subseteq lost'
      /\ UNCHANGED <<scheduler, boots, scripts, lastId, content, cron, listing, busyScripts, call, raced>>
  BY DEF ScriptInv, Script!FinishRun
<1>1. exec[r] \in Exec /\ r \in 1..Len(runs) /\ runs[r] \in RunRow /\ Len(runs) \in Nat
  BY <1>0, RunFacts DEF ScriptTypes, ExecTypes
<1>2. x \in Exec /\ x.pc = "status" /\ x.out = exec[r].out /\ x.known = exec[r].known
  BY <1>1 DEF Exec
<1>3. exec' = [exec EXCEPT ![r] = x]
  BY <1>0, <1>1 DEF Script!FinishRun, ScriptTypes, ExecTypes, Exec
<1>4. x.out # None /\ (~x.known => scripts[runs[r].script] = None)
  BY <1>0, <1>2 DEF RunsHold, Recording
<1>5. row \in RunRow /\ row.done = x.out /\ row.script = runs[r].script
  BY <1>1, <1>2 DEF RunRow, Exec
<1>6. \/ runs' = [runs EXCEPT ![r] = row]
      \/ UNCHANGED runs /\ r \in lost'
  BY <1>1 DEF Script!FinishRun
<1> HIDE DEF x, row
<1>7. /\ runs' \in Seq(RunRow) /\ Len(runs') = Len(runs)
      /\ \A q \in 1..Len(runs) : runs'[q].script = runs[q].script
      /\ \A q \in 1..Len(runs) : q # r => runs'[q].done = runs[q].done
      /\ r \notin lost' => runs'[r].done = x.out
  <2>1. runs \in Seq(RunRow)
    BY <1>0 DEF ScriptTypes, TableTypes
  <2>2. CASE runs' = [runs EXCEPT ![r] = row]
    <3>1. runs' \in Seq(RunRow) /\ Len(runs') = Len(runs)
      BY <1>1, <1>5, <2>1, <2>2, ExceptSeq
    <3>2. \A q \in 1..Len(runs) : runs'[q] = IF q = r THEN row ELSE runs[q]
      BY <1>1, <2>1, <2>2, LenProperties
    <3> QED
      BY <1>1, <1>5, <3>1, <3>2
  <2>3. CASE UNCHANGED runs /\ r \in lost'
    BY <2>1, <2>3
  <2> QED
    BY <1>6, <2>2, <2>3
<1>8. RunsHold' /\ ExecTypes'
  BY <1>0, <1>2, <1>3, <1>4, <1>7, ExecMoves
<1>9. EditsHold'
  BY <1>0, EditsFrame
<1>10. TableTypes'
  BY <1>0, <1>7 DEF ScriptTypes, TableTypes
<1> QED
  BY <1>0, <1>8, <1>9, <1>10 DEF ScriptInv, ScriptTypes, SchedulerTypes, CallTypes

\* finishRun: the status of the script, and the deferred setRunning.
LEMMA FinishStatusStep ==
    ASSUME ScriptInv, NEW r \in Script!RunIds, Script!FinishStatus(r)
    PROVE  ScriptInv'
<1> PICK i : i = runs[r].script
  OBVIOUS
<1> DEFINE row == [scripts[i] EXCEPT !.last = exec[r].out]
<1>0. /\ ScriptTypes /\ EditsHold /\ RunsHold /\ exec[r].pc = "status" /\ lost \subseteq lost'
      /\ exec' = [exec EXCEPT ![r] = Script!Ended] /\ busyScripts' = busyScripts \ {i}
      /\ UNCHANGED <<scheduler, boots, lastId, runs, content, cron, listing, call, raced>>
  BY DEF ScriptInv, Script!FinishStatus, Script!SetRunning
<1>1. exec[r] \in Exec /\ r \in 1..Len(runs) /\ i \in Script!Ids /\ Len(runs) \in Nat
  BY <1>0, RunFacts DEF ScriptTypes, ExecTypes
<1>2. exec[r].out # None /\ (~exec[r].known => scripts[i] = None) /\ (r \notin lost => runs[r].done = exec[r].out)
  BY <1>0 DEF RunsHold, Recording
<1>3. scripts[i] # None => row \in Script!Row /\ row # None /\ row.last = exec[r].out
                           /\ row.schedule = scripts[i].schedule /\ row.enabled = scripts[i].enabled
  <2>1. scripts[i] # None => row \in Script!Row /\ row.last = exec[r].out
                             /\ row.schedule = scripts[i].schedule /\ row.enabled = scripts[i].enabled
    BY <1>0, <1>1 DEF ScriptTypes, TableTypes, Script!Row, Exec
  <2> QED
    BY <2>1, ScriptFacts
<1>4. \/ scripts' = IF exec[r].known /\ scripts[i] # None THEN [scripts EXCEPT ![i] = row] ELSE scripts
      \/ UNCHANGED scripts /\ r \in lost'
  BY <1>0, <1>1 DEF Script!FinishStatus, ScriptTypes, TableTypes
<1> HIDE DEF row
<1>5. /\ scripts' \in [Script!Ids -> Script!Row \cup {None}]
      /\ \A j \in Script!Ids : j # i => scripts'[j] = scripts[j]
      /\ scripts'[i] \in {scripts[i], row}
      /\ scripts[i] = None <=> scripts'[i] = None
      /\ scripts[i] # None /\ r \notin lost' => scripts'[i] = row
  BY <1>0, <1>1, <1>2, <1>3, <1>4 DEF ScriptTypes, TableTypes
<1>6. \A j \in Script!Ids :
          /\ Script!AddLocked(scripts'[j]) = Script!AddLocked(scripts[j])
          /\ scripts[j] # None <=> scripts'[j] # None
          /\ scripts'[j] # None => scripts'[j].schedule = scripts[j].schedule
  <2>1. Script!AddLocked(scripts'[i]) = Script!AddLocked(scripts[i])
    BY <1>3, <1>5 DEF Script!AddLocked
  <2> QED
    BY <1>3, <1>5, <2>1
<1>7. EditsHold'
  BY <1>0, <1>6, EditsFrame
<1>8. exec'[r].pc = "none" /\ \A q \in Script!RunIds : q # r => exec'[q] = exec[q]
  BY <1>0 DEF ScriptTypes, ExecTypes, Script!Ended
<1>9. ScriptTypes'
  <2>1. TableTypes'
    BY <1>0, <1>5, <1>6 DEF ScriptTypes, TableTypes
  <2>2. ExecTypes'
    <3>1. Script!Ended \in Exec
      BY DEF Script!Ended, Exec
    <3> QED
      BY <1>0, <1>8, <3>1 DEF ScriptTypes, ExecTypes
  <2> QED
    BY <1>0, <2>1, <2>2 DEF ScriptTypes, SchedulerTypes, CallTypes
<1>10. Flying(r, i) /\ \A q : Newest(q)' <=> Newest(q)
  BY <1>0, <1>1 DEF Flying, Newest
<1>11. \A q \in Script!RunIds : \A j : Flying(q, j)' <=> Flying(q, j) /\ q # r
  BY <1>0, <1>8 DEF Flying
<1>12. LaunchesApart'
  <2>1. \A c \in Script!Callers : call[c].pc = "launch" => call[c].run \in Script!RunIds
    BY <1>0, RunFacts DEF RunsHold, LaunchesApart
  <2> QED
    BY <1>0, <1>8, <2>1 DEF RunsHold, LaunchesApart
<1>13. i \notin raced => /\ \A q \in Script!RunIds : ~Flying(q, i)'
                         /\ \A c \in Script!Callers : ~Starting(c, i)
                         /\ Newest(r)
  <2>1. i \notin raced => StartsOf(i)
    BY <1>0, <1>1 DEF RunsHold, StartsHold
  <2> QED
    BY <1>10, <1>11, <2>1 DEF StartsOf
<1>14. StartsHold'
  <2> SUFFICES ASSUME NEW j \in Script!Ids, j \notin raced PROVE StartsOf(j)'
    BY <1>0 DEF StartsHold
  <2>0. StartsOf(j) /\ \A c \in Script!Callers : Starting(c, j)' <=> Starting(c, j)
    BY <1>0 DEF RunsHold, StartsHold, Starting
  <2>1. CASE j = i
    BY <1>13, <2>0, <2>1 DEF StartsOf
  <2>2. CASE j # i
    BY <1>0, <1>10, <1>11, <2>0, <2>2 DEF StartsOf
  <2> QED
    BY <2>1, <2>2
<1>15. Recording'
  <2>1. \A q \in Script!RunIds : exec[q].pc # "none" => runs[q].script \in Script!Ids
    BY <1>0, RunFacts DEF ScriptTypes, ExecTypes
  <2> QED
    BY <1>0, <1>6, <1>8, <2>1 DEF RunsHold, Recording
<1>16. Accounted'
  <2>1. \A c \in Script!Callers : \A q : Launching(c, q) => Launching(c, q)'
    BY <1>0 DEF Launching
  <2>2. 1..Len(runs) \subseteq Script!RunIds
    BY <1>0, RunFacts
  <2> QED
    BY <1>0, <1>2, <1>8, <2>1, <2>2 DEF RunsHold, Accounted
<1>17. Shown'
  <2> SUFFICES ASSUME NEW j \in Script!Ids, j \notin raced PROVE ShownOf(j)'
    BY <1>0 DEF Shown
  <2>0. ShownOf(j)
    BY <1>0 DEF RunsHold, Shown
  <2>1. CASE j = i
    <3> SUFFICES ASSUME scripts'[i] # None, NEW q \in 1..Len(runs), q \notin lost', runs[q].script = i, Newest(q)
                 PROVE  scripts'[i].last = runs[q].done
      BY <1>0, <1>10, <2>1 DEF ShownOf
    <3>1. q = r
      BY <1>1, <1>13, <2>1 DEF Newest
    <3> QED
      BY <1>0, <1>2, <1>3, <1>5, <3>1
  <2>2. CASE j # i
    <3>1. scripts'[j] = scripts[j] /\ \A q \in Script!RunIds : Flying(q, j)' <=> Flying(q, j)
      BY <1>5, <1>11, <2>2 DEF Flying
    <3> QED
      BY <1>0, <1>10, <2>0, <3>1 DEF ShownOf
  <2> QED
    BY <2>1, <2>2
<1> QED
  BY <1>7, <1>9, <1>12, <1>14, <1>15, <1>16, <1>17 DEF ScriptInv, RunsHold

\* INSERT of a run that the foreign key refuses.
LEMMA RefusedRunStep ==
    ASSUME ScriptInv, NEW c \in Script!Callers, Script!InsertRun(c), scripts[call[c].id] = None
    PROVE  ScriptInv'
<1> DEFINE w == Locals("idle", 0, None)
<1>0. /\ ScriptTypes /\ EditsHold /\ RunsHold /\ call[c].pc = "insert" /\ call' = [call EXCEPT ![c] = w]
      /\ UNCHANGED <<scheduler, boots, scripts, lastId, runs, content, cron, listing, busyScripts, exec,
                     raced, lost>>
  BY GotoLocals DEF ScriptInv, Script!InsertRun
<1>1. w \in Call /\ w.pc = "idle" /\ w.run = 0
  BY <1>0, LocalsType, ScriptFacts
<1> HIDE DEF w
<1>2. call'[c] = w /\ \A d \in Script!Callers : d # c => call'[d] = call[d]
  BY <1>0, CallsMove
<1>3. CallTypes'
  BY <1>0, <1>1, CallMovesTypes
<1>4. ScriptTypes'
  BY <1>0, <1>3 DEF ScriptTypes, TableTypes, SchedulerTypes, ExecTypes
<1>5. \A d \in Script!Callers :
          /\ call'[d].pc \in Script!Starts \/ call[d].pc = "launch" => call'[d] = call[d]
          /\ call'[d].pc \in Script!Edits \/ call[d].pc \in {"fetch", "sync"} => call'[d] = call[d]
  BY <1>0, <1>1, <1>2, ScriptFacts
<1> QED
  BY <1>0, <1>4, <1>5, RunsFrame, EditsFrame DEF ScriptInv

\* INSERT of a run: it is the newest of its script, and nothing executes it yet.
LEMMA InsertedRunStep ==
    ASSUME ScriptInv, NEW c \in Script!Callers, Script!InsertRun(c), scripts[call[c].id] # None
    PROVE  ScriptInv'
<1> PICK i, n : i = call[c].id /\ n = Len(runs) + 1
  OBVIOUS
<1> DEFINE w == [call[c] EXCEPT !.pc = "launch", !.run = n]
           row == [script |-> i, done |-> None, gone |-> FALSE]
<1>0. /\ ScriptTypes /\ EditsHold /\ RunsHold /\ call[c].pc = "insert" /\ scripts[i] # None
      /\ Len(runs) < MaxRun /\ runs' = Append(runs, row)
      /\ UNCHANGED <<scheduler, boots, scripts, lastId, content, cron, listing, busyScripts, exec, raced, lost>>
  BY DEF ScriptInv, Script!InsertRun
<1>1. /\ call[c] \in Call /\ i \in 1..lastId /\ i \in Script!Ids /\ Len(runs) \in Nat
      /\ n \in Script!RunIds /\ n \in 0..MaxRun /\ n # 0
  BY <1>0, RunFacts, ScriptFacts DEF ScriptTypes, CallTypes, TableTypes
<1>2. w \in Call /\ w.pc = "launch" /\ w.id = i /\ w.run = n
  BY <1>1 DEF Call
<1>3. call' = [call EXCEPT ![c] = w]
  BY <1>0, <1>1 DEF Script!InsertRun, ScriptTypes, CallTypes, Call
<1>4. row \in RunRow /\ row.script = i /\ row.done = None
  BY <1>1 DEF RunRow
<1> HIDE DEF w, row
<1>5. call'[c] = w /\ \A d \in Script!Callers : d # c => call'[d] = call[d]
  BY <1>0, <1>3, CallsMove
<1>6. /\ runs' \in Seq(RunRow) /\ Len(runs') = n /\ runs'[n] = row
      /\ \A r \in 1..Len(runs) : runs'[r] = runs[r] /\ r \in 1..n /\ r # n
      /\ \A r \in 1..n : r = n \/ r \in 1..Len(runs)
  BY <1>0, <1>1, <1>4, AppendProperties DEF ScriptTypes, TableTypes
<1>7. exec[n].pc = "none" /\ \A r \in Script!RunIds : exec[r].pc # "none" => r \in 1..Len(runs)
  BY <1>0, <1>1 DEF ScriptTypes, ExecTypes
<1>8. ScriptTypes'
  <2>1. CallTypes'
    BY <1>0, <1>1, <1>2, <1>3, CallMovesTypes
  <2>2. \A r \in 1..n : runs'[r].script <= lastId
    BY <1>0, <1>1, <1>4, <1>6, RunFacts DEF ScriptTypes, TableTypes
  <2>3. TableTypes'
    BY <1>0, <1>1, <1>6, <2>2, ScriptFacts DEF ScriptTypes, TableTypes
  <2>4. ExecTypes'
    BY <1>0, <1>6, <1>7 DEF ScriptTypes, ExecTypes
  <2> QED
    BY <1>0, <2>1, <2>3, <2>4 DEF ScriptTypes, SchedulerTypes
<1>9. EditsHold'
  <2>1. \A d \in Script!Callers :
            call'[d].pc \in Script!Edits \/ call[d].pc \in {"fetch", "sync"} => call'[d] = call[d]
    BY <1>0, <1>2, <1>5, ScriptFacts
  <2> QED
    BY <1>0, <2>1, EditsFrame
<1>10. \A r \in Script!RunIds : \A j : Flying(r, j)' <=> Flying(r, j)
  BY <1>0, <1>6, <1>7 DEF Flying
<1>11. /\ \A r \in 1..Len(runs) : runs[r].script # i => (Newest(r)' <=> Newest(r))
       /\ \A r \in 1..n : Newest(r)' /\ runs'[r].script = i => r = n
       /\ Newest(n)'
  <2>1. \A r \in 1..Len(runs) : runs[r].script # i => (Newest(r)' <=> Newest(r))
    BY <1>4, <1>6 DEF Newest
  <2>2. \A r \in 1..n : Newest(r)' /\ runs'[r].script = i => r = n
    <3>1. n \in 1..n /\ runs'[n].script = i
      BY <1>1, <1>4, <1>6
    <3>2. ASSUME NEW r \in 1..n, Newest(r)', runs'[r].script = i PROVE n <= r
      BY <1>6, <3>1, <3>2 DEF Newest
    <3> QED
      BY <1>1, <3>2
  <2>3. Newest(n)'
    BY <1>1, <1>6 DEF Newest
  <2> QED
    BY <2>1, <2>2, <2>3
<1>12. LaunchesApart'
  <2>1. \A d \in Script!Callers : d # c /\ call'[d].pc = "launch" =>
            /\ call'[d].run \in 1..Len(runs) /\ runs[call'[d].run].script = call'[d].id
            /\ exec[call'[d].run].pc = "none"
    BY <1>0, <1>5 DEF RunsHold, LaunchesApart
  <2>2. \A d, e \in Script!Callers : d # c /\ e # c /\ call'[d].pc = "launch" /\ call'[e].pc = "launch"
                                     /\ call'[d].run = call'[e].run => d = e
    BY <1>0, <1>5 DEF RunsHold, LaunchesApart
  <2>3. call'[c].pc = "launch" /\ call'[c].run = n /\ call'[c].id = i /\ n \in 1..n
    BY <1>1, <1>2, <1>5
  <2>4. \A d \in Script!Callers : call'[d].pc = "launch" =>
            /\ call'[d].run \in 1..n /\ runs'[call'[d].run].script = call'[d].id
            /\ exec'[call'[d].run].pc = "none"
    BY <1>0, <1>4, <1>6, <1>7, <2>1, <2>3
  <2>5. \A d, e \in Script!Callers : call'[d].pc = "launch" /\ call'[e].pc = "launch"
                                     /\ call'[d].run = call'[e].run => d = e
    BY <1>6, <2>1, <2>2, <2>3
  <2> QED
    BY <1>6, <2>4, <2>5 DEF LaunchesApart
<1>13. StartsHold'
  <2> SUFFICES ASSUME NEW j \in Script!Ids, j \notin raced PROVE StartsOf(j)'
    BY <1>0 DEF StartsHold
  <2>0. StartsOf(j)
    BY <1>0 DEF RunsHold, StartsHold
  <2>1. \A d \in Script!Callers : Starting(d, j)' <=> Starting(d, j)
    BY <1>0, <1>2, <1>5, ScriptFacts DEF Starting
  <2>2. CASE j = i
    <3>1. Starting(c, j) /\ call'[c].run = n
      BY <1>0, <1>2, <1>5, <2>2, ScriptFacts DEF Starting
    <3>2. (\A d \in Script!Callers : Starting(d, j)' => d = c) /\ \A r \in Script!RunIds : ~Flying(r, j)'
      BY <1>10, <2>0, <2>1, <3>1 DEF StartsOf
    <3> QED
      BY <1>11, <3>1, <3>2 DEF StartsOf
  <2>3. CASE j # i
    <3>1. \A d \in Script!Callers : Starting(d, j) => d # c /\ call'[d] = call[d]
      BY <1>5, <2>3 DEF Starting
    <3>2. \A d \in Script!Callers : Starting(d, j) /\ call[d].pc = "launch" =>
              call[d].run \in 1..Len(runs) /\ runs[call[d].run].script # i
      BY <1>0, <2>3 DEF Starting, RunsHold, LaunchesApart
    <3>3. \A r \in Script!RunIds : Flying(r, j) => r \in 1..Len(runs) /\ runs[r].script # i
      BY <2>3 DEF Flying
    <3>4. \A d \in Script!Callers : Starting(d, j)' /\ call'[d].pc = "launch" => Newest(call[d].run)'
      <4> SUFFICES ASSUME NEW d \in Script!Callers, Starting(d, j)', call'[d].pc = "launch"
                   PROVE  Newest(call[d].run)'
        OBVIOUS
      <4>1. call'[d] = call[d] /\ Newest(call[d].run) /\ call[d].run \in 1..Len(runs) /\ runs[call[d].run].script # i
        BY <2>0, <2>1, <3>1, <3>2 DEF StartsOf
      <4>2. PICK r : r = call[d].run
        OBVIOUS
      <4>3. Newest(r)'
        BY <1>11, <4>1, <4>2
      <4> QED
        BY <4>1, <4>2, <4>3
    <3>5. \A r \in Script!RunIds : Flying(r, j)' => Newest(r)' /\ j \in busyScripts'
      BY <1>0, <1>10, <1>11, <2>0, <3>3 DEF StartsOf
    <3> QED
      BY <1>10, <2>0, <2>1, <3>4, <3>5 DEF StartsOf
  <2> QED
    BY <2>2, <2>3
<1>14. Recording'
  BY <1>0, <1>6, <1>7 DEF RunsHold, Recording
<1>15. Accounted'
  <2>1. \A d \in Script!Callers : \A r : Launching(d, r) => Launching(d, r)'
    BY <1>0, <1>5 DEF Launching
  <2>2. Launching(c, n)'
    BY <1>2, <1>5 DEF Launching
  <2> QED
    BY <1>0, <1>6, <2>1, <2>2 DEF RunsHold, Accounted
<1>16. Shown'
  <2> SUFFICES ASSUME NEW j \in Script!Ids, j \notin raced PROVE ShownOf(j)'
    BY <1>0 DEF Shown
  <2>0. ShownOf(j)
    BY <1>0 DEF RunsHold, Shown
  <2>1. CASE j = i
    <3>1. \A r \in 1..n : Newest(r)' /\ runs'[r].script = i => runs'[r].done = None
      BY <1>4, <1>6, <1>11
    <3> QED
      BY <1>6, <2>1, <3>1 DEF ShownOf
  <2>2. CASE j # i
    <3>1. \A r \in 1..n : runs'[r].script = j => r \in 1..Len(runs) /\ runs'[r] = runs[r] /\ (Newest(r)' <=> Newest(r))
      BY <1>4, <1>6, <1>11, <2>2
    <3> QED
      BY <1>0, <1>6, <1>10, <2>0, <3>1 DEF ShownOf
  <2> QED
    BY <2>1, <2>2
<1> QED
  BY <1>8, <1>9, <1>12, <1>13, <1>14, <1>15, <1>16 DEF ScriptInv, RunsHold

\* The goroutine of a run, or its end before it begins.
LEMMA LaunchStep ==
    ASSUME ScriptInv, NEW c \in Script!Callers, Script!Launch(c)
    PROVE  ScriptInv'
<1> PICK i, r : i = call[c].id /\ r = call[c].run
  OBVIOUS
<1> DEFINE w == Locals("idle", 0, None)
           x == [Script!Ended EXCEPT !.pc = "begin"]
<1>0. /\ ScriptTypes /\ EditsHold /\ RunsHold /\ call[c].pc = "launch" /\ call' = [call EXCEPT ![c] = w]
      /\ UNCHANGED <<scheduler, boots, scripts, lastId, runs, content, cron, listing, raced>>
  BY GotoLocals DEF ScriptInv, Script!Launch
<1>1. \/ lost' = lost \cup {r} /\ UNCHANGED <<busyScripts, exec>>
      \/ lost' = lost /\ busyScripts' = busyScripts \cup {i} /\ exec' = [exec EXCEPT ![r] = x]
  BY DEF Script!Launch, Script!SetRunning
<1>2. w \in Call /\ w.pc = "idle" /\ w.run = 0
  BY <1>0, LocalsType, ScriptFacts
<1>3. x \in Exec /\ x.pc = "begin"
  BY DEF Script!Ended, Exec
<1> HIDE DEF w, x
<1>4. call'[c] = w /\ \A d \in Script!Callers : d # c => call'[d] = call[d]
  BY <1>0, CallsMove
<1>5. /\ r \in 1..Len(runs) /\ r \in Script!RunIds /\ runs[r].script = i /\ exec[r].pc = "none"
      /\ i \in Script!Ids /\ 1..Len(runs) \subseteq Script!RunIds
      /\ \A d \in Script!Callers : d # c /\ call[d].pc = "launch" => call[d].run # r
  BY <1>0, RunFacts DEF RunsHold, LaunchesApart
<1>6. CallTypes'
  BY <1>0, <1>2, CallMovesTypes
<1>7. EditsHold'
  <2>1. \A d \in Script!Callers :
            call'[d].pc \in Script!Edits \/ call[d].pc \in {"fetch", "sync"} => call'[d] = call[d]
    BY <1>0, <1>2, <1>4, ScriptFacts
  <2> QED
    BY <1>0, <2>1, EditsFrame
<1>8. \A d \in Script!Callers : call'[d].pc \in Script!Starts => d # c /\ call'[d] = call[d]
  BY <1>2, <1>4, ScriptFacts
<1>9. \A q : Newest(q)' <=> Newest(q)
  BY <1>0 DEF Newest
<1>10. \A d \in Script!Callers : \A q : Launching(d, q) => Launching(d, q)' \/ q = r
  BY <1>4 DEF Launching
<1>11. CASE lost' = lost \cup {r} /\ UNCHANGED <<busyScripts, exec>>
  <2>1. ScriptTypes'
    BY <1>0, <1>6, <1>11 DEF ScriptTypes, TableTypes, SchedulerTypes, ExecTypes
  <2>2. LaunchesApart'
    BY <1>0, <1>8, <1>11, ScriptFacts DEF RunsHold, LaunchesApart
  <2>3. \A q, j : Flying(q, j)' <=> Flying(q, j)
    BY <1>0, <1>11 DEF Flying
  <2>4. StartsHold'
    <3> SUFFICES ASSUME NEW j \in Script!Ids, j \notin raced PROVE StartsOf(j)'
      BY <1>0 DEF StartsHold
    <3>0. StartsOf(j)
      BY <1>0 DEF RunsHold, StartsHold
    <3>1. \A d \in Script!Callers : Starting(d, j)' => Starting(d, j) /\ call'[d] = call[d]
      BY <1>8 DEF Starting
    <3> QED
      BY <1>9, <1>11, <2>3, <3>0, <3>1 DEF StartsOf
  <2>5. Recording' /\ Accounted'
    BY <1>0, <1>10, <1>11 DEF RunsHold, Recording, Accounted
  <2>6. Shown'
    BY <1>0, <1>9, <1>11, <2>3 DEF RunsHold, Shown, ShownOf
  <2> QED
    BY <1>7, <2>1, <2>2, <2>4, <2>5, <2>6 DEF ScriptInv, RunsHold
<1>12. CASE lost' = lost /\ busyScripts' = busyScripts \cup {i} /\ exec' = [exec EXCEPT ![r] = x]
  <2>1. exec'[r] = x /\ \A q \in Script!RunIds : q # r => exec'[q] = exec[q]
    BY <1>0, <1>5, <1>12 DEF ScriptTypes, ExecTypes
  <2>2. ScriptTypes'
    <3>1. ExecTypes'
      BY <1>0, <1>3, <1>5, <1>12, <2>1 DEF ScriptTypes, ExecTypes
    <3> QED
      BY <1>0, <1>5, <1>6, <1>12, <3>1 DEF ScriptTypes, TableTypes, SchedulerTypes
  <2>3. LaunchesApart'
    <3>1. \A d \in Script!Callers : d # c /\ call[d].pc = "launch" => exec'[call[d].run].pc = "none"
      BY <1>0, <1>5, <2>1 DEF RunsHold, LaunchesApart
    <3> QED
      BY <1>0, <1>8, <3>1, ScriptFacts DEF RunsHold, LaunchesApart
  <2>4. \A q \in Script!RunIds : \A j : Flying(q, j)' <=> Flying(q, j) \/ (q = r /\ j = i)
    BY <1>0, <1>3, <1>5, <2>1 DEF Flying
  <2>5. StartsHold'
    <3> SUFFICES ASSUME NEW j \in Script!Ids, j \notin raced PROVE StartsOf(j)'
      BY <1>0 DEF StartsHold
    <3>0. StartsOf(j)
      BY <1>0 DEF RunsHold, StartsHold
    <3>1. \A d \in Script!Callers : Starting(d, j)' => Starting(d, j) /\ call'[d] = call[d] /\ d # c
      BY <1>8 DEF Starting
    <3>2. CASE j = i
      <4>1. Starting(c, j) /\ call[c].run = r
        BY <1>0, <3>2, ScriptFacts DEF Starting
      <4>2. /\ \A d \in Script!Callers : ~Starting(d, j)'
            /\ \A q \in Script!RunIds : ~Flying(q, j)
            /\ Newest(r)
        BY <1>0, <3>0, <3>1, <4>1 DEF StartsOf
      <4> QED
        BY <1>9, <1>12, <2>4, <3>2, <4>2 DEF StartsOf
    <3>3. CASE j # i
      BY <1>9, <1>12, <2>4, <3>0, <3>1, <3>3 DEF StartsOf
    <3> QED
      BY <3>2, <3>3
  <2>6. Recording'
    BY <1>0, <1>3, <1>12, <2>1 DEF RunsHold, Recording
  <2>7. Accounted'
    BY <1>0, <1>3, <1>5, <1>10, <1>12, <2>1 DEF RunsHold, Accounted
  <2>8. Shown'
    <3> SUFFICES ASSUME NEW j \in Script!Ids, j \notin raced PROVE ShownOf(j)'
      BY <1>0 DEF Shown
    <3>0. ShownOf(j)
      BY <1>0 DEF RunsHold, Shown
    <3>1. CASE j = i
      BY <1>5, <2>4, <3>1 DEF ShownOf
    <3>2. CASE j # i
      BY <1>0, <1>9, <1>12, <2>4, <3>0, <3>2 DEF ShownOf
    <3> QED
      BY <3>1, <3>2
  <2> QED
    BY <1>7, <2>2, <2>3, <2>5, <2>6, <2>7, <2>8 DEF ScriptInv, RunsHold
<1> QED
  BY <1>1, <1>11, <1>12

\* The scheduler starts and stops beside the requests.
LEMMA SchedulerStep ==
    ASSUME ScriptInv, Script!Serve \/ Script!ListScripts \/ Script!Start \/ Script!Stop
    PROVE  ScriptInv'
<1>0. /\ ScriptTypes /\ EditsHold /\ RunsHold
      /\ UNCHANGED <<scripts, lastId, runs, content, busyScripts, call, exec, raced, lost>>
  BY DEF ScriptInv, Script!Serve, Script!ListScripts, Script!Start, Script!Stop
<1>1. RunsHold'
  BY <1>0, RunsFrame
<1>2. \A i \in Script!Ids : (Late(i)' <=> Late(i)) /\ \A c \in Script!Callers : Editing(c, i)' <=> Editing(c, i)
  BY <1>0 DEF Late, Editing
<1>3. CASE Script!Serve \/ Script!Stop
  <2>1. scheduler' \in {"serving", "stopped"} /\ UNCHANGED <<cron, listing>>
    BY <1>3 DEF Script!Serve, Script!Stop
  <2>2. ScriptTypes'
    BY <1>0, <2>1 DEF ScriptTypes, TableTypes, SchedulerTypes, CallTypes, ExecTypes
  <2>3. EditsHold'
    BY <1>0, <1>2, <2>1 DEF EditsHold, EditsOf
  <2> QED
    BY <1>1, <2>2, <2>3 DEF ScriptInv
<1>4. CASE Script!ListScripts
  <2>1. scheduler' = "listed" /\ listing' = scripts /\ UNCHANGED cron
    BY <1>4 DEF Script!ListScripts
  <2>2. ScriptTypes'
    BY <1>0, <2>1 DEF ScriptTypes, TableTypes, SchedulerTypes, CallTypes, ExecTypes
  <2>3. EditsHold'
    BY <1>0, <1>2, <2>1 DEF EditsHold, EditsOf
  <2> QED
    BY <1>1, <2>2, <2>3 DEF ScriptInv
<1>5. CASE Script!Start
  <2>1. /\ scheduler = "listed" /\ scheduler' = "on"
        /\ cron' = [i \in Script!Ids |-> Script!AddLocked(listing[i])]
        /\ listing' = [i \in Script!Ids |-> None]
    BY <1>5 DEF Script!Start
  <2>2. \A i \in Script!Ids : Script!AddLocked(listing[i]) \in (Schedules \ {Bad}) \cup {None}
    BY <1>0, AddLockedType DEF ScriptTypes, SchedulerTypes
  <2>3. ScriptTypes'
    BY <1>0, <2>1, <2>2 DEF ScriptTypes, TableTypes, SchedulerTypes, CallTypes, ExecTypes
  <2>4. \A i \in Script!Ids : cron'[i] = Script!AddLocked(listing[i])
    BY <2>1
  <2>5. EditsHold'
    BY <1>0, <1>2, <2>1, <2>4 DEF EditsHold, EditsOf
  <2> QED
    BY <1>1, <2>3, <2>5 DEF ScriptInv
<1> QED
  BY <1>3, <1>4, <1>5

\* The process ends: what was under way is lost.
LEMMA ProcessEndStep ==
    ASSUME ScriptInv, Script!Exit
    PROVE  ScriptInv'
<1>0. /\ ScriptTypes /\ EditsHold /\ RunsHold
      /\ scheduler' = "down" /\ busyScripts' = {}
      /\ cron' = [i \in Script!Ids |-> None] /\ listing' = [i \in Script!Ids |-> None]
      /\ call' = [c \in Script!Callers |-> Script!Idle] /\ exec' = [r \in Script!RunIds |-> Script!Ended]
      /\ UNCHANGED <<scripts, lastId, runs, content, raced>>
  BY DEF ScriptInv, Script!Exit
<1>1. /\ lost \subseteq lost' /\ DOMAIN runs = 1..Len(runs) /\ 1..Len(runs) \subseteq Script!RunIds /\ Len(runs) \in Nat
      /\ \A r \in 1..Len(runs) : r \notin lost' => exec[r].pc = "none" /\ \A c \in Script!Callers : call[c].run # r
  BY <1>0, RunFacts DEF Script!Exit
<1>2. /\ \A c \in Script!Callers : call'[c].pc = "idle" /\ call'[c] \in Call /\ call'[c].run = 0
      /\ \A r \in Script!RunIds : exec'[r].pc = "none" /\ exec'[r] \in Exec
  BY <1>0, ScriptFacts DEF Script!Idle, Script!Ended, Call, Exec
<1>3. ScriptTypes'
  BY <1>0, <1>2 DEF ScriptTypes, TableTypes, SchedulerTypes, CallTypes, ExecTypes
<1>4. EditsHold'
  BY <1>0, <1>2, ScriptFacts DEF EditsHold, EditsOf, Editing
<1>5. \A q \in Script!RunIds : \A i : ~Flying(q, i)'
  BY <1>2 DEF Flying
<1>6. StartsHold' /\ LaunchesApart' /\ Recording'
  BY <1>2, <1>5, ScriptFacts DEF StartsHold, StartsOf, Starting, LaunchesApart, Recording
<1>7. Accounted'
  BY <1>0, <1>1 DEF RunsHold, Accounted, Launching
<1>8. Shown'
  <2> SUFFICES ASSUME NEW i \in Script!Ids, i \notin raced, scripts[i] # None,
                      NEW r \in 1..Len(runs), r \notin lost', runs[r].script = i, runs[r].done # None, Newest(r)
               PROVE  scripts[i].last = runs[r].done
    BY <1>0 DEF Shown, ShownOf, Newest
  <2>1. \A q \in Script!RunIds : ~Flying(q, i)
    <3> SUFFICES ASSUME NEW q \in Script!RunIds, Flying(q, i) PROVE FALSE
      OBVIOUS
    <3>1. Newest(q) /\ q \in 1..Len(runs) /\ runs[q].script = i /\ exec[q].pc # "none"
      BY <1>0 DEF RunsHold, StartsHold, StartsOf, Flying
    <3>2. q <= r /\ r <= q
      BY <3>1 DEF Newest
    <3> QED
      BY <1>1, <3>1, <3>2
  <2> QED
    BY <1>0, <1>1, <2>1 DEF RunsHold, Shown, ShownOf
<1> QED
  BY <1>3, <1>4, <1>6, <1>7, <1>8 DEF ScriptInv, RunsHold

LEMMA ScriptStep ==
    ASSUME ScriptInv, [Script!Next]_scriptVars
    PROVE  ScriptInv'
<1> USE ScriptFacts
<1>1. CASE Script!Next
  <2>1. ASSUME NEW c \in Admins,
               \/ Script!Create(c) \/ Script!Update(c) \/ Script!Delete(c) \/ Script!PutContent(c)
               \/ Script!WriteScript(c) \/ Script!GetScript(c) \/ Script!Reschedule(c) \/ Script!WriteContent(c)
        PROVE  ScriptInv'
    <3>0. c \in Script!Callers
      OBVIOUS
    <3>1. CASE Script!Create(c)
      BY <3>0, <3>1, CreateScriptStep DEF Script!Create
    <3>2. CASE Script!Update(c)
      BY <3>0, <3>2, UpdateScriptStep DEF Script!Update
    <3>3. CASE Script!Delete(c)
      BY <3>0, <3>3, DeleteScriptStep DEF Script!Delete
    <3>4. CASE Script!PutContent(c) \/ Script!WriteContent(c)
      BY <3>0, <3>4, ContentStep DEF Script!PutContent
    <3>5. CASE Script!WriteScript(c)
      BY <3>0, <3>5, WriteScriptStep
    <3>6. CASE Script!GetScript(c)
      BY <3>0, <3>6, GetScriptStep
    <3>7. CASE Script!Reschedule(c)
      BY <3>0, <3>7, RescheduleStep
    <3> QED
      BY <2>1, <3>1, <3>2, <3>3, <3>4, <3>5, <3>6, <3>7
  <2>2. ASSUME NEW c \in Script!Callers, Script!Run(c) \/ Script!InsertRun(c) \/ Script!Launch(c)
        PROVE  ScriptInv'
    <3>1. CASE Script!Run(c)
      BY <3>1, StartRunStep DEF Script!Run
    <3>2. CASE Script!InsertRun(c)
      BY <3>2, RefusedRunStep, InsertedRunStep
    <3>3. CASE Script!Launch(c)
      BY <3>3, LaunchStep
    <3> QED
      BY <2>2, <3>1, <3>2, <3>3
  <2>3. ASSUME NEW r \in Script!RunIds,
               \/ Script!Execute(r) \/ Script!FinishRun(r) \/ Script!FinishStatus(r)
               \/ \E out \in {"ok", "failed"} : Script!RunEnds(r, out)
        PROVE  ScriptInv'
    BY <2>3, ExecuteStep, FinishRunStep, FinishStatusStep, RunEndsStep
  <2> QED
    BY <1>1, <2>1, <2>2, <2>3, SchedulerStep, ProcessEndStep DEF Script!Next
<1>2. CASE UNCHANGED scriptVars
  <2>0. ScriptTypes /\ EditsHold /\ RunsHold
    BY DEF ScriptInv
  <2>1. ScriptTypes'
    BY <1>2, <2>0 DEF scriptVars, ScriptTypes, TableTypes, SchedulerTypes, CallTypes, ExecTypes
  <2>2. EditsHold'
    BY <1>2, <2>0, EditsFrame DEF scriptVars
  <2>3. RunsHold'
    BY <1>2, <2>0, RunsFrame DEF scriptVars
  <2> QED
    BY <2>1, <2>2, <2>3 DEF ScriptInv
<1> QED
  BY <1>1, <1>2

LEMMA ScriptInit ==
    ASSUME Script!Init
    PROVE  ScriptInv
<1>0. /\ scheduler = "down" /\ lastId = 0 /\ runs = <<>> /\ busyScripts = {}
      /\ scripts = [i \in Script!Ids |-> None] /\ cron = [i \in Script!Ids |-> None]
      /\ listing = [i \in Script!Ids |-> None] /\ content = [p \in Paths |-> "none"]
      /\ call = [c \in Script!Callers |-> Script!Idle] /\ exec = [r \in Script!RunIds |-> Script!Ended]
  BY DEF Script!Init
<1>1. /\ \A c \in Script!Callers : call[c].pc = "idle" /\ call[c] \in Call /\ call[c].run = 0
      /\ \A r \in Script!RunIds : exec[r].pc = "none" /\ exec[r] \in Exec
  BY <1>0, ScriptFacts DEF Script!Idle, Script!Ended, Call, Exec
<1>2. runs \in Seq(RunRow) /\ Len(runs) = 0 /\ 1..Len(runs) = {}
  BY <1>0, EmptySeq
<1>3. ScriptTypes
  <2>1. TableTypes
    BY <1>0, <1>2, ScriptFacts DEF TableTypes
  <2>2. SchedulerTypes
    BY <1>0 DEF SchedulerTypes
  <2>3. CallTypes
    BY <1>0, <1>1 DEF CallTypes
  <2>4. ExecTypes
    BY <1>0, <1>1 DEF ExecTypes
  <2> QED
    BY <2>1, <2>2, <2>3, <2>4 DEF ScriptTypes
<1>4. EditsHold
  BY <1>0, <1>1, ScriptFacts DEF EditsHold, EditsOf, Editing
<1>5. RunsHold
  BY <1>1, <1>2, ScriptFacts DEF RunsHold, StartsHold, StartsOf, Starting, Flying, LaunchesApart, Recording,
     Accounted, Shown, ShownOf
<1> QED
  BY <1>3, <1>4, <1>5 DEF ScriptInv

\* Scheduled scripts, for any number of requests, cron jobs, scripts, runs and starts
\* of the process: with no edit under way the cron entry of a script is what its row
\* says (Reschedule "syncs one script's cron entry after create/update/delete"), one
\* execution of a script runs at a time, a run without an end is under way or was
\* lost, and last_status is that of the newest recorded run; for the scripts whose
\* edits or starts did not overlap.
THEOREM ScriptsAreKept == Spec => []ScriptsHold
<1>1. ScriptInv /\ [Next]_vars => ScriptInv'
  BY ScriptStep, StepsOfEach
<1>2. ScriptInv => ScriptsHold
  <2> SUFFICES ASSUME ScriptInv
               PROVE  /\ Script!TypeOK /\ Script!EntriesFollow
                      /\ Script!OneAtATime /\ Script!RunsAccounted /\ Script!LastRunShown
    BY DEF ScriptsHold
  <2>0. /\ ScriptTypes /\ EditsHold /\ RunsHold /\ Len(runs) \in Nat /\ DOMAIN runs = 1..Len(runs)
        /\ \A r \in 1..Len(runs) : runs[r] \in RunRow /\ r \in Script!RunIds /\ runs[r].script \in Script!Ids
    BY RunFacts DEF ScriptInv
  <2>1. Script!TypeOK
    BY <2>0 DEF ScriptTypes, TableTypes, SchedulerTypes, ExecTypes, RunRow, Script!TypeOK
  <2>2. Script!EntriesFollow
    <3> SUFFICES ASSUME scheduler = "on", NEW i \in Script!Ids, i \notin raced, ~Script!Busy(i, Script!Edits)
                 PROVE  cron[i] = IF scripts[i] = None THEN None
                                  ELSE IF scripts[i].enabled THEN scripts[i].schedule ELSE None
      BY DEF Script!EntriesFollow
    <3>1. ~Late(i)
      BY ScriptFacts DEF Late, Script!Busy
    <3>2. cron[i] = Script!AddLocked(scripts[i])
      BY <2>0, <3>1 DEF EditsHold, EditsOf
    <3>3. scripts[i] # None => scripts[i].schedule # Bad
      BY <2>0 DEF ScriptTypes, TableTypes
    <3> QED
      BY <3>2, <3>3 DEF Script!AddLocked
  <2>3. \A i, r : r \in Script!InFlight(i) <=> Flying(r, i)
    BY <2>0 DEF Script!InFlight, Flying
  <2>4. Script!OneAtATime
    <3> SUFFICES ASSUME NEW i \in Script!Ids, i \notin raced
                 PROVE  (\A q, r \in Script!InFlight(i) : q = r) /\ (Script!InFlight(i) # {} => i \in busyScripts)
      BY DEF Script!OneAtATime
    <3>1. \A r : Flying(r, i) => r \in Script!RunIds
      BY <2>0 DEF Flying
    <3> QED
      BY <2>0, <2>3, <3>1 DEF RunsHold, StartsHold, StartsOf
  <2>5. Script!RunsAccounted
    BY <2>0 DEF RunsHold, Accounted, Launching, Script!RunsAccounted
  <2>6. Script!LastRunShown
    <3> SUFFICES ASSUME NEW i \in Script!Ids, i \notin raced, scripts[i] # None, Script!InFlight(i) = {},
                        NEW r \in 1..Len(runs), r \notin lost, runs[r].script = i, runs[r].done # None,
                        \A q \in 1..Len(runs) : runs[q].script = i => q <= r
                 PROVE  scripts[i].last = runs[r].done
      BY <2>0 DEF Script!LastRunShown
    <3>1. Newest(r)
      BY DEF Newest
    <3>2. \A q : ~Flying(q, i)
      BY <2>3
    <3> QED
      BY <2>0, <3>1, <3>2 DEF RunsHold, Shown, ShownOf
  <2> QED
    BY <2>1, <2>2, <2>4, <2>5, <2>6
<1>3. Init => ScriptInv
  BY ScriptInit DEF Init
<1> QED
  BY <1>1, <1>2, <1>3, PTL DEF Spec
=============================================================================
