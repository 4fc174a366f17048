--------------------------- MODULE RegistryClient ---------------------------
(***************************************************************************)
(* The V2 client that syncs and retention use, as what a call returns.  A  *)
(* registry is what its API shows: tags that name manifests by digest.  A  *)
(* manifest is a single one, or a list whose linux/arm64 entry is another. *)
(***************************************************************************)
CONSTANTS
    Registries,
    Images,     \* manifests, named by digest
    Arm64,      \* Arm64[i]: the list i's linux/arm64 entry, i itself if it is no list
    Auth,       \* Auth[r]: how a registry authenticates
    None, NoBody, Denied

ASSUME ClientAssumption ==
    /\ Arm64 \in [Images -> Images \cup {None}]
    /\ Auth \in [Registries -> {"none", "basic", "bearer"}]
    /\ {None, NoBody, Denied} \cap Images = {}
    /\ None # NoBody /\ None # Denied /\ NoBody # Denied

\* authenticateBearer: the realm gives a token to the right credentials only
AuthenticateBearer(right) == right

\* resolveAuth: there is a header to retry with
ResolveAuth(r, right) == Auth[r] = "bearer" => AuthenticateBearer(right)

\* doRequest: a registry that authenticates answers the first attempt with 401,
\* since tokens are cached under the challenge's scope and looked up under the
\* request's path; the second attempt has the credentials and no body.
DoRequest(r, right, body) ==
    IF Auth[r] = "none" THEN body
    ELSE IF ResolveAuth(r, right) /\ right THEN NoBody ELSE Denied

\* statusCodeError: a response that is not the expected one is an error
Reaches(r, right) == DoRequest(r, right, NoBody) # Denied

\* attachAuth, for the PUT of a blob: no token is cached under the repository's
\* path either, so it sends the user's name and password
AttachAuth(r, right) == Auth[r] = "none" \/ (Auth[r] = "basic" /\ right)

\* parseSingleManifest: a manifest with layers, not a list
IsSingle(i) == Arm64[i] = i

\* resolveManifestList takes the entry of the target platform; one that is a
\* list again exceeds maxManifestRecursion
Resolve(i) ==
    IF i = None \/ IsSingle(i) THEN i
    ELSE IF Arm64[i] # None /\ IsSingle(Arm64[i]) THEN Arm64[i] ELSE None

\* fetchManifest of a tag: the manifest, or None for an error
FetchManifest(tagged, tag) == Resolve(tagged[tag])

\* DeleteManifest takes a digest: every tag that names it goes
Untagged(tagged, d) == [t \in DOMAIN tagged |-> IF tagged[t] = d THEN None ELSE tagged[t]]
=============================================================================
