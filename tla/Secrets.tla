------------------------------ MODULE Secrets ------------------------------
(***************************************************************************)
(* SecretService: values sealed with the key of a file beside the          *)
(* database, and the environment that a script execution gets from them.   *)
(* A sealed value is the pair of its key and its value.                    *)
(***************************************************************************)
EXTENDS Naturals, FiniteSets

CONSTANTS
    Names,          \* secret names that requests send
    Reserved,       \* those of them that ValidateSecretName rejects
    Values,         \* secret values
    MaxKey,         \* bound: keys generated
    Short,          \* a key file that was cut short
    None

\* what the constants are
Constants ==
    /\ Reserved \subseteq Names /\ MaxKey \in Nat
    /\ {Short, None} \cap (Values \cup Nat) = {}
    /\ None \notin [key : Nat, value : Values]

VARIABLES
    up,         \* the process: down, making (the key file is written) or on
    keyFile,    \* .secret.key: None, Short or a key
    lastKey,    \* keys generated so far
    aes,        \* the key that the process has loaded, or None
    secrets,    \* rows of secrets by name: None or [key, value]
    env,        \* the secrets that the latest execution has got, or None before it
    saved,      \* history: the value that was last acknowledged for a name
    rotated     \* history: whether the operator has replaced the key file

vars == <<up, keyFile, lastKey, aes, secrets, env, saved, rotated>>

Init ==
    /\ up = "down" /\ keyFile = None /\ lastKey = 0 /\ aes = None
    /\ secrets = [n \in Names |-> None] /\ env = None
    /\ saved = [n \in Names |-> None] /\ rotated = FALSE

\* Faulty variant: a new key on every start.
KeyMissing_Always == TRUE

\* loadOrCreateKey: only a file that does not exist is created
KeyMissing == keyFile = None

\* NewSecretService with a key file: one of the wrong size ends the process
Load ==
    /\ up = "down"
    /\ ~KeyMissing /\ keyFile # Short
    /\ up' = "on" /\ aes' = keyFile
    /\ UNCHANGED <<keyFile, lastKey, secrets, env, saved, rotated>>

\* NewSecretService without one: WriteFile creates it empty
CreateKey ==
    /\ up = "down" /\ KeyMissing
    /\ lastKey < MaxKey
    /\ keyFile' = Short /\ lastKey' = lastKey + 1 /\ aes' = lastKey + 1
    /\ up' = "making"
    /\ UNCHANGED <<secrets, env, saved, rotated>>

\* and writes the key
WriteKey ==
    /\ up = "making"
    /\ up' = "on" /\ keyFile' = aes
    /\ UNCHANGED <<lastKey, aes, secrets, env, saved, rotated>>

\* encrypt, with a fresh nonce, and decrypt
Encrypt(v)   == [key |-> aes, value |-> v]
Decrypts(s)  == s.key = aes

\* ValidateSecretName
ValidateSecretName(n) == n \notin Reserved

\* SetSecret creates or replaces
SetSecret(n, v) ==
    /\ up = "on" /\ ValidateSecretName(n)
    /\ secrets' = [secrets EXCEPT ![n] = Encrypt(v)]
    /\ saved' = [saved EXCEPT ![n] = v]
    /\ UNCHANGED <<up, keyFile, lastKey, aes, env, rotated>>

\* DeleteSecret
DeleteSecret(n) ==
    /\ up = "on" /\ secrets[n] # None
    /\ secrets' = [secrets EXCEPT ![n] = None]
    /\ saved' = [saved EXCEPT ![n] = None]
    /\ UNCHANGED <<up, keyFile, lastKey, aes, env, rotated>>

\* EnvPairs: an error if a secret does not decrypt
EnvPairs ==
    [pairs |-> {[name |-> n, value |-> secrets[n].value] : n \in {m \in Names : secrets[m] # None /\ Decrypts(secrets[m])}},
     ok    |-> \A n \in Names : secrets[n] # None => Decrypts(secrets[n])]

\* execute: on an error none of the pairs is used
Execute ==
    /\ up = "on"
    /\ env' = IF EnvPairs.ok THEN EnvPairs.pairs ELSE {}
    /\ UNCHANGED <<up, keyFile, lastKey, aes, secrets, saved, rotated>>

\* the process ends anywhere
Exit ==
    /\ up # "down"
    /\ up' = "down" /\ aes' = None
    /\ UNCHANGED <<keyFile, lastKey, secrets, env, saved, rotated>>

\* "a rotated key file": the operator removes it
RotateKey ==
    /\ up = "down" /\ keyFile # None
    /\ keyFile' = None /\ rotated' = TRUE
    /\ UNCHANGED <<up, lastKey, aes, secrets, env, saved>>

\* the handlers
Put    == \E n \in Names, v \in Values : SetSecret(n, v)
Delete == \E n \in Names : DeleteSecret(n)

Next == Load \/ CreateKey \/ WriteKey \/ Put \/ Delete \/ Execute \/ Exit \/ RotateKey

Spec == Init /\ [][Next]_vars

\* Every variable has its type.
TypeOK ==
    /\ up \in {"down", "making", "on"}
    /\ lastKey \in 0..MaxKey
    /\ keyFile \in {None, Short} \cup 1..lastKey /\ aes \in {None} \cup 1..lastKey
    /\ secrets \in [Names -> {None} \cup [key : 1..lastKey, value : Values]]
    /\ \A n \in Names : secrets[n] # None => n \notin Reserved
    /\ saved \in [Names -> {None} \cup Values]
    /\ env # None => env \subseteq [name : Names, value : Values]

\* What a request has saved still decrypts, to the value last acknowledged, after
\* any crash and restart, as long as nobody replaces the key file.
SecretsReadable ==
    up = "on" /\ ~rotated =>
        \A n \in Names : IF saved[n] = None THEN secrets[n] = None
                         ELSE secrets[n] # None /\ Decrypts(secrets[n]) /\ secrets[n].value = saved[n]
=============================================================================
