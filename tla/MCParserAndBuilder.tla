-------------------------- MODULE MCParserAndBuilder --------------------------
(***************************************************************************)
(* ConfigParser and SecretBuilder over bounded inputs.  The parser: every  *)
(* small list of registries, every small list of names, every override,    *)
(* written in any way.  The builder: every configuration the parser makes  *)
(* of a small list, content of the credential store and existing Secret,   *)
(* undamaged or not, followed by the writes that the syncer makes of it.   *)
(***************************************************************************)
EXTENDS ConfigParser, SecretBuilder

CONSTANTS
    r1, r2, i1,  \* region and instance identifiers
    d1, d2,      \* Domains
    a1, a2,      \* AK/SK pairs
    t1,          \* the token of an old credential
    n1, n2       \* names of Namespaces and ServiceAccounts

VARIABLES
    data,         \* the ConfigMap of a case of the parser, or None
    registries,   \* the snapshot's registries
    credentials,  \* the credential store
    secret,       \* the Secret, or None
    written       \* the syncer has written it

vars == <<data, registries, credentials, secret, written>>

Keys == {<<r1, i1>>, <<r2, i1>>}
Domains == {d1, d2}

\* Maps from a part of S to T.
PartialMaps(S, T) == UNION {[part -> T] : part \in SUBSET S}

Piece(text, form) == [text |-> text, form |-> form]
Plain(S) == {Piece(x, "plain") : x \in S}

-----------------------------------------------------------------------------
(* Cases of the parser                                                      *)

Entries(regions, auths, domains) ==
    [region : regions, instance : Plain({i1}), auth : auths, domains : domains]

PlainEntries ==
    Entries(Plain({r1, r2}), Plain({a1, a2}), (SUBSET Plain(Domains)) \ {{}})

AnyEntries ==
    Entries({Piece(r1, "spaced"), Piece(r2, "plain"), Piece(Blank, "plain")},
            {Piece(a1, "plain"), Piece(a1, "spaced")},
            SUBSET {Piece(d1, "styled"), Piece(d1, "spaced"), Piece(d2, "plain"),
                    Piece(d2, "port")})

Lists == {<<>>} \cup {<<e>> : e \in AnyEntries} \cup (PlainEntries \X PlainEntries)
            \cup (AnyEntries \X PlainEntries)
            \cup {<<e, f, g>> : e \in PlainEntries, f \in PlainEntries, g \in PlainEntries}

NameLists == SUBSET {Piece(n1, "plain"), Piece(n1, "spaced"), Piece(n1, "styled"),
                     Piece(n2, "plain"), Piece(Wildcard, "spaced"), Piece(Blank, "plain")}

Data(namespaces, excluded, lists, overrides) ==
    [unsupported : {FALSE}, namespace : namespaces, excludeNamespace : excluded,
     serviceaccount : {Plain({Wildcard})}, registries : lists,
     runtime : [RuntimeKeys -> overrides]]

OneList == {<<CHOOSE e \in PlainEntries : TRUE>>}

DataCases ==
    Data({Plain({n1})}, {{}}, Lists, {Unset})
        \cup Data(NameLists, {{}, Plain({n1}), Plain({Wildcard})}, OneList, {Unset})
        \cup Data({Plain({n1})}, {{}}, OneList, {Unset, NotANumber, -1, 0, 1})

-----------------------------------------------------------------------------
(* Cases of the builder                                                     *)

Configurations ==
    {ParseRegistries(list) : list \in
        LET entries == {e \in PlainEntries : e.auth.text = a1}
        IN  {<<e>> : e \in entries} \cup (entries \X entries)} \ {Rejected}

\* Credentials were obtained with the present AK/SK or with a replaced one.
NewCredential(k) == [token |-> <<"new", k>>, refreshedAt |-> 2, expiresAt |-> 4]

Stores == {c \in PartialMaps(Keys, [auth : {a1, a2}, credential : {NewCredential(k) : k \in Keys}]) :
              \A k \in DOMAIN c : c[k].credential = NewCredential(k)}

\* State entries: of an old credential and of the present ones, one without hash,
\* and one that expires when it was refreshed.
States(r) ==
    {RegistryState(k, r[k], NewCredential(k)) : k \in DOMAIN r} \cup
    {[refreshedAt |-> 1, expiresAt |-> 3, stateHash |-> <<"old">>],
     [refreshedAt |-> 1, expiresAt |-> 3, stateHash |-> NoHash],
     [refreshedAt |-> 3, expiresAt |-> 3, stateHash |-> <<"old">>], Malformed}

Tokens == {t1} \cup {NewCredential(k).token : k \in Keys}

Secrets(r) ==
    [managed : {TRUE}, deleting : {FALSE}, extra : {FALSE},
     docker : {Absent, Unreadable} \cup PartialMaps(Domains, Tokens \cup {Malformed, Unusable}),
     state : {Absent, Unreadable} \cup PartialMaps(Keys, States(r))]

Init ==
    /\ written = FALSE
    /\ \/ /\ data \in DataCases
          /\ registries = NoRegistries /\ credentials = EmptyMap /\ secret = None
       \/ /\ data = None
          /\ registries \in Configurations
          /\ credentials \in Stores
          /\ secret \in Secrets(registries) \cup {None}

Content == Build(registries, credentials, secret)

NewSecret == [managed |-> FALSE, deleting |-> FALSE, extra |-> FALSE,
              docker |-> Absent, state |-> Absent]

\* The syncer writes content that has an auth.
Write ==
    /\ ~written
    /\ HasAuth(Content)
    /\ secret' = ApplyContent(IF secret = None THEN NewSecret ELSE secret, Content)
    /\ written' = TRUE
    /\ UNCHANGED <<data, registries, credentials>>

\* The store obtains a credential for a pending registry after that.
Acquire(k) ==
    /\ written
    /\ k \in DOMAIN registries \ FreshKeys(registries, credentials)
    /\ credentials' = [x \in DOMAIN credentials \cup {k} |->
                          IF x = k THEN [auth |-> registries[k].auth,
                                         credential |-> NewCredential(k)]
                          ELSE credentials[x]]
    /\ written' = FALSE
    /\ UNCHANGED <<data, registries, secret>>

Next == Write \/ \E k \in Keys : Acquire(k)

Spec == Init /\ [][Next]_vars

-----------------------------------------------------------------------------
(* Properties of the parser                                                 *)

Texts(pieces) == {piece.text : piece \in pieces}

\* An accepted configuration says what the data says: every Domain of every entry
\* belongs to the registry of this entry, with its AK and SK, and to no other; a
\* selector selects the listed names, or all by a wildcard that stands alone; an
\* override is the number given, which is positive, and zero only if none is given.
AcceptedIsFaithful ==
    data # None /\ Parse(data) # Rejected =>
        LET config == Parse(data) IN
        /\ \A i \in DOMAIN data.registries : \A d \in data.registries[i].domains :
              LET entry == data.registries[i] IN
              {k \in DOMAIN config.registries : d.text \in config.registries[k].domains}
                  = {k \in {<<entry.region.text, entry.instance.text>>} :
                        config.registries[k].auth = entry.auth.text}
        /\ \A n \in {n1, n2} :
              MatchesNamespace(config, n)
                  <=> /\ n \in Texts(data.namespace) \/ Texts(data.namespace) = {Wildcard}
                      /\ n \notin Texts(data.excludeNamespace)
        /\ \A key \in RuntimeKeys :
              IF data.runtime[key] = Unset THEN config.runtime[key] = 0
              ELSE config.runtime[key] \in Nat \ {0} /\ config.runtime[key] = data.runtime[key]

\* Neither the order of the entries nor their repetition matters
\* (TestParserOrderDoesNotAffectConfigurationSnapshot, for every list).
OrderIrrelevant ==
    data # None =>
        LET list == data.registries
            Orders == {p \in [DOMAIN list -> DOMAIN list] : Range(p) = DOMAIN list}
        IN  /\ \A p \in Orders :
                  ParseRegistries([i \in DOMAIN list |-> list[p[i]]]) = ParseRegistries(list)
            /\ ParseRegistries(list \o list) = ParseRegistries(list)

-----------------------------------------------------------------------------
(* Properties of the builder                                                *)

Only(f, k) == Restrict(f, DOMAIN f \cap {k})

Part(envelope, S) ==
    IF envelope \in {Absent, Unreadable} THEN envelope
    ELSE Restrict(envelope, DOMAIN envelope \cap S)

\* The Secret with the records of one registry only.
OwnRecords(k) ==
    IF secret = None THEN None
    ELSE [secret EXCEPT !.docker = Part(@, registries[k].domains), !.state = Part(@, {k})]

\* Each registry gets what it would get if it were configured alone and the Secret
\* had no other records: damage to the entries of one registry never changes what
\* Build emits for another.
Isolation ==
    \A k \in DOMAIN registries :
        LET alone == Build(Only(registries, k), credentials, OwnRecords(k)) IN
        /\ Only(Content.state, k) = alone.state
        /\ Part(Content.docker, registries[k].domains) = alone.docker

\* One write cures all damage: building again from the written Secret finds no
\* problem and no difference, so the reconciliation that reported the problem is
\* retried once and then stops; and an inspection calls no registry invalid, and a
\* fresh one synced until the credential expires.
Healed ==
    written =>
        /\ ~Content.problem /\ SecretMatches(secret, Content)
        /\ \A k \in DOMAIN registries : \A now \in {1, 4} :
              LET status == RegistryStatus(secret, k, registries[k],
                                           Expected(registries, credentials), now) IN
              /\ status # "invalid"
              /\ k \in FreshKeys(registries, credentials)
                    => status = IF now < 4 THEN "synced" ELSE "expired"

\* A registry counts as synced only where a write would change nothing of it.
SyncedIsCurrent ==
    \A k \in DOMAIN registries :
        RegistryStatus(secret, k, registries[k], Expected(registries, credentials), 1) = "synced"
            => /\ Only(secret.state, k) = Only(Content.state, k)
               /\ \A d \in registries[k].domains :
                     /\ d \in DOMAIN secret.docker
                     /\ secret.docker[d] = credentials[k].credential.token
=============================================================================
