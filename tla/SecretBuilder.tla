---------------------------- MODULE SecretBuilder ----------------------------
(***************************************************************************)
(* internal/registrysecret: what Build puts into the Secret of a Namespace *)
(* and what an inspection says of a Secret.                                *)
(*                                                                         *)
(* A registry is [auth, domains]: its AK/SK pair and its Domains.  A       *)
(* credential is [token, refreshedAt, expiresAt]; token stands for the     *)
(* user name and the password.  A Secret has two envelopes, docker (Domain *)
(* to token) and state (registry key to RegistryState); each is Absent,    *)
(* Unreadable, or a map whose entries decode or fail on their own.         *)
(* The parser gives every registry a Domain and no Domain to two of them.  *)
(***************************************************************************)
EXTENDS Integers, FiniteSets, Functions

CONSTANTS
    None,        \* no Secret, no object
    Absent,      \* the data key or annotation is not there
    Unreadable,  \* the envelope does not decode, or has another version
    Malformed,   \* an entry that does not decode
    Unusable     \* an auth entry that decodes, but is incomplete or inconsistent

EmptyMap == [x \in {} |-> x]

NoHash == <<>>

\* The hash covers the registry's key and configuration and the credential.
StateHash(k, registry, credential) == <<k, registry, credential>>

\* The fingerprint covers the key and the AK/SK, not the Domains.
MatchesRegistry(entry, registry) == entry.auth = registry.auth

RegistryState(k, registry, credential) ==
    [refreshedAt |-> credential.refreshedAt,
     expiresAt |-> credential.expiresAt,
     stateHash |-> StateHash(k, registry, credential)]

-----------------------------------------------------------------------------
(* Reading an existing Secret                                               *)

\* Mutant: one entry that does not decode hides all the others.
DecodedAllOrNone(envelope) ==
    IF envelope \in {Absent, Unreadable} \/ Malformed \in Range(envelope) THEN EmptyMap
    ELSE envelope

\* The entries that decode, each on its own.
Decoded(envelope) ==
    IF envelope \in {Absent, Unreadable} THEN EmptyMap
    ELSE RestrictValues(envelope, LAMBDA v : v # Malformed)

Damaged(envelope) ==
    \/ envelope \in {Absent, Unreadable}
    \/ Malformed \in Range(envelope)

\* Without either envelope there is nothing to retain and nothing wrong.
ParseExisting(secret) ==
    [auths |-> Decoded(secret.docker),
     states |-> Decoded(secret.state),
     problem |-> /\ ~(secret.docker = Absent /\ secret.state = Absent)
                 /\ Damaged(secret.docker) \/ Damaged(secret.state)]

CompleteState(state) ==
    /\ state.refreshedAt # 0
    /\ state.expiresAt > state.refreshedAt
    /\ state.stateHash # NoHash

\* Mutant: an unusable auth is kept with the others.
RetainedUnchecked(k, registry, old) ==
    IF k \in DOMAIN old.states /\ CompleteState(old.states[k])
    THEN registry.domains \cap DOMAIN old.auths
    ELSE {}

\* Mutant: nothing is kept of a registry whose credential is pending.
RetainedNothing(k, registry, old) == {}

\* The Domains of a pending registry whose auth is kept: those with a usable
\* auth, provided the registry has a complete state.
RetainedDomains(k, registry, old) ==
    IF k \in DOMAIN old.states /\ CompleteState(old.states[k])
    THEN {d \in registry.domains \cap DOMAIN old.auths : old.auths[d] # Unusable}
    ELSE {}

RetentionProblem(k, registry, old) ==
    LET found == registry.domains \cap DOMAIN old.auths IN
    IF k \in DOMAIN old.states
    THEN ~CompleteState(old.states[k]) \/ RetainedDomains(k, registry, old) # found
    ELSE found # {}

-----------------------------------------------------------------------------
(* Build                                                                    *)

\* A registry is fresh when the store has a credential of its present AK/SK.
FreshKeys(registries, credentials) ==
    {k \in DOMAIN registries \cap DOMAIN credentials :
        MatchesRegistry(credentials[k], registries[k])}

\* What is known of an existing Secret: nothing without one, and it is not even
\* parsed when no registry is pending.
Known(pending, existing) ==
    IF pending = {} \/ existing = None
    THEN [auths |-> EmptyMap, states |-> EmptyMap, problem |-> FALSE]
    ELSE ParseExisting(existing)

\* The content for a configuration and the credentials of the store: fresh
\* registries with all their Domains, pending ones with what is retained.  A
\* problem may accompany usable content.
Build(registries, credentials, existing) ==
    LET fresh == FreshKeys(registries, credentials)
        pending == DOMAIN registries \ fresh
        old == Known(pending, existing)
        served == [k \in DOMAIN registries |->
                      IF k \in fresh THEN registries[k].domains
                      ELSE RetainedDomains(k, registries[k], old)]
        owner(d) == CHOOSE k \in DOMAIN registries : d \in registries[k].domains
    IN  [docker |-> [d \in UNION Range(served) |->
                        IF owner(d) \in fresh
                        THEN credentials[owner(d)].credential.token
                        ELSE old.auths[d]],
         state |-> [k \in {k \in DOMAIN registries : served[k] # {}} |->
                       IF k \in fresh
                       THEN RegistryState(k, registries[k], credentials[k].credential)
                       ELSE old.states[k]],
         problem |-> \/ old.problem
                     \/ \E k \in pending : RetentionProblem(k, registries[k], old)]

HasAuth(content) == DOMAIN content.docker # {}

-----------------------------------------------------------------------------
(* Writing the content                                                      *)

\* Both documents and both labels are written in one Create or Update; other
\* data of the Secret goes, its other metadata stays.
ApplyContent(secret, content) ==
    [secret EXCEPT !.managed = TRUE, !.extra = FALSE,
                   !.docker = content.docker, !.state = content.state]

\* Mutant: only the state annotation is compared.
SecretMatchesState(secret, content) == secret.state = content.state

SecretMatches(secret, content) == secret = ApplyContent(secret, content)

-----------------------------------------------------------------------------
(* Inspection                                                               *)

\* What an inspection expects: the content of the store, without any Secret.
Expected(registries, credentials) == Build(registries, credentials, None)

\* Mutant: a Domain without an auth does not count.
CopyMatchesFound(secret, k, registry, expected) ==
    /\ k \in DOMAIN expected.state /\ k \in DOMAIN secret.state
    /\ secret.state[k] = expected.state[k]
    /\ \A d \in registry.domains \cap DOMAIN secret.docker :
          d \in DOMAIN expected.docker /\ secret.docker[d] = expected.docker[d]

\* The registry's records are exactly the expected ones, on every Domain.
CopyMatches(secret, k, registry, expected) ==
    /\ k \in DOMAIN expected.state /\ k \in DOMAIN secret.state
    /\ secret.state[k] = expected.state[k]
    /\ \A d \in registry.domains :
          /\ d \in DOMAIN expected.docker /\ d \in DOMAIN secret.docker
          /\ secret.docker[d] = expected.docker[d]

\* The records of a registry are unusable, or contradict each other.
CopyInvalid(secret, k, registry) ==
    \/ secret.docker \in {Absent, Unreadable} \/ secret.state \in {Absent, Unreadable}
    \/ k \in DOMAIN secret.state
          /\ (secret.state[k] = Malformed \/ ~CompleteState(secret.state[k]))
    \/ \E d \in registry.domains \cap DOMAIN secret.docker :
          secret.docker[d] \in {Malformed, Unusable} \/ k \notin DOMAIN secret.state

RegistryStatus(secret, k, registry, expected, now) ==
    IF secret = None THEN "pending"
    ELSE IF ~secret.managed THEN "conflict"
    ELSE IF secret.deleting THEN "pending"
    ELSE IF CopyInvalid(secret, k, registry) THEN "invalid"
    ELSE IF registry.domains \cap DOMAIN secret.docker = {} THEN "pending"
    ELSE IF secret.state[k].expiresAt <= now THEN "expired"
    ELSE IF CopyMatches(secret, k, registry, expected) THEN "synced"
    ELSE "pending"
=============================================================================
