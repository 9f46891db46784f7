---------------------------- MODULE ConfigParser ----------------------------
(***************************************************************************)
(* internal/config: Parse, which turns the data of the ConfigMap into a    *)
(* normalized configuration or rejects all of it.                          *)
(*                                                                         *)
(* A piece of text is [text, form]: what remains of it after trimming,     *)
(* lower-casing and cutting a trailing dot, Blank if nothing does, and how *)
(* it was written: "plain", "spaced" (white space around it), "styled"     *)
(* (upper case or a trailing dot) or "port" (with a port, a path, ...).    *)
(* A comma-separated list is a set of pieces, empty if it is missing; the  *)
(* AK and the SK are one piece, and so are the domains of an entry.        *)
(***************************************************************************)
EXTENDS Sequences, Integers

CONSTANTS
    Blank,
    Wildcard,  \* "*"
    Rejected,  \* the error
    Unset,     \* an override that the data does not have
    NotANumber \* one whose text is refused before it is compared: empty or unparsable,
               \* NaN, infinite, beyond float32 or too small for it

ASSUME OverrideAssumption ==
    Unset \notin Int /\ NotANumber \notin Int /\ Unset # NotANumber

\* The optional overrides of client tuning: absent, refused text or a whole number.
RuntimeKeys == {"kubeAPIQPS", "kubeAPIBurst", "workers"}

NoRegistries == [k \in {} |-> k]

-----------------------------------------------------------------------------
(* Names                                                                    *)

\* A name is valid as it is written, apart from white space.
ParseNameList(parts, allowWildcard) ==
    IF \E part \in parts : \/ part.text = Blank
                           \/ part.form \in {"styled", "port"}
                           \/ part.text = Wildcard /\ ~allowWildcard
    THEN Rejected
    ELSE {part.text : part \in parts}

\* Mutant: a wildcard makes the names beside it redundant.
ParseWildcardFirst(parts) ==
    IF parts = {} \/ ParseNameList(parts, TRUE) = Rejected THEN Rejected
    ELSE LET names == ParseNameList(parts, TRUE) IN
         IF Wildcard \in names THEN [matchAll |-> TRUE, names |-> {}]
         ELSE [matchAll |-> FALSE, names |-> names]

ParseNameSelector(parts) ==
    IF parts = {} \/ ParseNameList(parts, TRUE) = Rejected THEN Rejected
    ELSE LET names == ParseNameList(parts, TRUE) IN
         IF Wildcard \notin names THEN [matchAll |-> FALSE, names |-> names]
         ELSE IF names = {Wildcard} THEN [matchAll |-> TRUE, names |-> {}]
         ELSE Rejected

Matches(selector, name) == selector.matchAll \/ name \in selector.names

MatchesNamespace(config, name) ==
    Matches(config.namespaces, name) /\ name \notin config.excluded

-----------------------------------------------------------------------------
(* Registries                                                               *)

NormalizeDomain(piece) ==
    IF piece.text = Blank \/ piece.form = "port" THEN Rejected ELSE piece.text

\* White space is cut from the identifiers and refused around the AK and the SK.
NormalizeRegistry(entry) ==
    IF \/ Blank \in {entry.region.text, entry.instance.text, entry.auth.text}
       \/ entry.auth.form = "spaced"
       \/ entry.domains = {} \/ \E d \in entry.domains : NormalizeDomain(d) = Rejected
    THEN Rejected
    ELSE [key |-> <<entry.region.text, entry.instance.text>>, auth |-> entry.auth.text,
          domains |-> {NormalizeDomain(d) : d \in entry.domains}]

\* Mutant: the first AK and SK of a registry are kept.
AddRegistryFirstAuth(registries, entry) ==
    LET registry == NormalizeRegistry(entry) IN
    IF registries = Rejected \/ registry = Rejected THEN Rejected
    ELSE LET key == registry.key
             known == key \in DOMAIN registries
             domains == registry.domains \cup IF known THEN registries[key].domains ELSE {}
             auth == IF known THEN registries[key].auth ELSE registry.auth
         IN  IF \E k \in DOMAIN registries \ {key} : registries[k].domains \cap domains # {}
             THEN Rejected
             ELSE [k \in DOMAIN registries \cup {key} |->
                     IF k = key THEN [auth |-> auth, domains |-> domains] ELSE registries[k]]

\* One entry of the list: entries with one key are merged if their AK and SK agree,
\* and no Domain may belong to two keys.
AddRegistry(registries, entry) ==
    LET registry == NormalizeRegistry(entry) IN
    IF registries = Rejected \/ registry = Rejected THEN Rejected
    ELSE LET key == registry.key
             known == key \in DOMAIN registries
             domains == registry.domains \cup IF known THEN registries[key].domains ELSE {}
         IN  IF \/ known /\ registries[key].auth # registry.auth
                \/ \E k \in DOMAIN registries \ {key} : registries[k].domains \cap domains # {}
             THEN Rejected
             ELSE [k \in DOMAIN registries \cup {key} |->
                     IF k = key THEN [auth |-> registry.auth, domains |-> domains]
                     ELSE registries[k]]

ParseRegistries(entries) ==
    LET parsed[i \in 0..Len(entries)] ==
            IF i = 0 THEN NoRegistries ELSE AddRegistry(parsed[i - 1], entries[i])
    IN  IF entries = <<>> THEN Rejected ELSE parsed[Len(entries)]

-----------------------------------------------------------------------------
(* Runtime overrides and the whole                                          *)

\* Zero means absent, so a zero in the data is refused.
ParseRuntime(runtime) ==
    IF \E key \in RuntimeKeys :
          /\ runtime[key] # Unset
          /\ runtime[key] = NotANumber \/ runtime[key] < 1
    THEN Rejected
    ELSE [key \in RuntimeKeys |-> IF runtime[key] = Unset THEN 0 ELSE runtime[key]]

Parse(data) ==
    LET config == [namespaces |-> ParseNameSelector(data.namespace),
                   excluded |-> ParseNameList(data.excludeNamespace, FALSE),
                   serviceAccounts |-> ParseNameSelector(data.serviceaccount),
                   registries |-> ParseRegistries(data.registries),
                   runtime |-> ParseRuntime(data.runtime)]
    IN  IF data.unsupported \/ \E field \in DOMAIN config : config[field] = Rejected
        THEN Rejected ELSE config
=============================================================================
