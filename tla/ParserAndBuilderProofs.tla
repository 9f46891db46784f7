------------------------ MODULE ParserAndBuilderProofs ------------------------
(***************************************************************************)
(* What the parser makes of a list of registries and the builder of a      *)
(* Secret, for lists, configurations, stores and Secrets of any size.  The *)
(* parser's loop merges the entries as a set, so that their order does not *)
(* matter, and gives no Domain to two registries; the builder relies on    *)
(* that.                                                                   *)
(***************************************************************************)
EXTENDS MCParserAndBuilder, WellFoundedInduction, TLAPS

\* The errors and the markers of damage are no maps, records or tuples.
MarkersApart ==
    \A f : f = [x \in DOMAIN f |-> f[x]]
              => f \notin {Rejected, None, Absent, Unreadable, Malformed, Unusable}

-----------------------------------------------------------------------------
(* Induction up to a number, from the well-foundedness of <.                *)

LEMMA UpTo ==
    ASSUME NEW n \in Nat, NEW T, 0 \in T,
           \A i \in 1..n : i - 1 \in T => i \in T
    PROVE  0..n \subseteq T
<1> SUFFICES ASSUME 0..n \ T # {} PROVE FALSE
  OBVIOUS
<1> DEFINE R == {p \in Nat \X Nat : p[1] < p[2]}
<1>1. IsWellFoundedOn(R, Nat)
  BY NatLessThanWellFounded DEF OpToRel
<1>2. PICK i \in 0..n \ T : \A j \in 0..n \ T : <<j, i>> \notin R
  <2>1. 0..n \ T \subseteq Nat
    OBVIOUS
  <2> HIDE DEF R
  <2> QED
    BY <1>1, <2>1, WFMin
<1>3. i \in 1..n /\ i - 1 \in 0..n /\ i - 1 < i
  BY <1>2
<1>4. <<i - 1, i>> \in R
  BY <1>3
<1>5. i - 1 \in 0..n \ T
  BY <1>2, <1>3
<1> HIDE DEF R
<1> QED
  BY <1>2, <1>4, <1>5

-----------------------------------------------------------------------------
(* The list of registries as a set                                          *)

\* Normalized registries that go together: those with one key have one AK and SK, and
\* those with a common Domain one key.
Agree(N) ==
    /\ Rejected \notin N
    /\ \A r, s \in N : /\ r.key = s.key => r.auth = s.auth
                       /\ r.domains \cap s.domains # {} => r.key = s.key

\* The registries of a set, each with all the Domains of its entries.
Merged(N) ==
    [k \in {r.key : r \in N} |->
        [auth |-> (CHOOSE r \in N : r.key = k).auth,
         domains |-> UNION {r.domains : r \in {s \in N : s.key = k}}]]

Normalized(S) == {NormalizeRegistry(e) : e \in S}

\* What a set of entries stands for.
Registries(S) == IF Agree(Normalized(S)) THEN Merged(Normalized(S)) ELSE Rejected

\* A registry is what the entries with its key say, and nobody else has its Domains.
LEMMA MergedFacts ==
    ASSUME NEW N, Agree(N)
    PROVE  /\ \A k : k \in DOMAIN Merged(N) <=> \E r \in N : r.key = k
           /\ \A r \in N : Merged(N)[r.key].auth = r.auth
           /\ \A k \in DOMAIN Merged(N) :
                 \A d : d \in Merged(N)[k].domains <=> \E r \in N : r.key = k /\ d \in r.domains
<1>1. \A k : k \in DOMAIN Merged(N) <=> \E r \in N : r.key = k
  BY DEF Merged
<1>2. ASSUME NEW r \in N PROVE Merged(N)[r.key].auth = r.auth
  <2> DEFINE c == CHOOSE s \in N : s.key = r.key
  <2>1. c \in N /\ c.key = r.key
    OBVIOUS
  <2>2. Merged(N)[r.key].auth = c.auth
    BY DEF Merged
  <2> HIDE DEF c
  <2> QED
    BY <2>1, <2>2 DEF Agree
<1>3. ASSUME NEW k \in DOMAIN Merged(N), NEW d
      PROVE  d \in Merged(N)[k].domains <=> \E r \in N : r.key = k /\ d \in r.domains
  BY DEF Merged
<1> QED
  BY <1>1, <1>2, <1>3

\* One round of the loop of parseRegistries adds an entry to the set.
LEMMA AddRegistryMerges ==
    ASSUME MarkersApart, NEW S, NEW e
    PROVE  AddRegistry(Registries(S), e) = Registries(S \cup {e})
<1>1. PICK N : N = Normalized(S)
  OBVIOUS
<1>2. PICK r : r = NormalizeRegistry(e)
  OBVIOUS
<1>3. Normalized(S \cup {e}) = N \cup {r}
  BY <1>1, <1>2 DEF Normalized
<1>4. CASE ~Agree(N) \/ r = Rejected
  <2>1. ~Agree(N \cup {r})
    BY <1>4 DEF Agree
  <2> QED
    BY <1>1, <1>2, <1>3, <1>4, <2>1 DEF AddRegistry, Registries
<1>5. CASE Agree(N) /\ r # Rejected
  <2>1. PICK M : M = Merged(N)
    OBVIOUS
  <2>2. M # Rejected
    BY <2>1 DEF Merged, MarkersApart
  <2> DEFINE known == r.key \in DOMAIN M
             domains == r.domains \cup IF known THEN M[r.key].domains ELSE {}
             clash == \/ known /\ M[r.key].auth # r.auth
                      \/ \E k \in DOMAIN M \ {r.key} : M[k].domains \cap domains # {}
             added == [k \in DOMAIN M \cup {r.key} |->
                          IF k = r.key THEN [auth |-> r.auth, domains |-> domains] ELSE M[k]]
  <2>3. AddRegistry(Registries(S), e) = IF clash THEN Rejected ELSE added
    BY <1>1, <1>2, <1>5, <2>1, <2>2 DEF AddRegistry, Registries
  <2>4. /\ \A k : k \in DOMAIN M <=> \E s \in N : s.key = k
        /\ \A s \in N : M[s.key].auth = s.auth
        /\ \A k \in DOMAIN M :
              \A d : d \in M[k].domains <=> \E s \in N : s.key = k /\ d \in s.domains
    BY <1>5, <2>1, MergedFacts
  <2>5. ASSUME Agree(N \cup {r}) PROVE ~clash
    <3>1. known => M[r.key].auth = r.auth
      BY <2>4, <2>5 DEF Agree
    <3>2. ASSUME NEW k \in DOMAIN M \ {r.key}, NEW d \in M[k].domains PROVE d \notin domains
      <4>1. PICK s \in N : s.key = k /\ d \in s.domains
        BY <2>4
      <4>2. d \notin r.domains
        BY <2>5, <4>1 DEF Agree
      <4>3. known => d \notin M[r.key].domains
        <5> SUFFICES ASSUME known, d \in M[r.key].domains PROVE FALSE
          OBVIOUS
        <5>1. PICK t \in N : t.key = r.key /\ d \in t.domains
          BY <2>4
        <5> QED
          BY <2>5, <4>1, <5>1 DEF Agree
      <4> QED
        BY <4>2, <4>3
    <3> QED
      BY <3>1, <3>2
  <2>6. ASSUME ~clash PROVE Agree(N \cup {r})
    <3>1. ASSUME NEW s \in N, s.key = r.key PROVE s.auth = r.auth
      BY <2>4, <2>6, <3>1
    <3>2. ASSUME NEW s \in N, s.key # r.key PROVE s.domains \cap r.domains = {}
      <4>1. s.key \in DOMAIN M \ {r.key}
        BY <2>4, <3>2
      <4>2. s.domains \subseteq M[s.key].domains
        BY <2>4, <4>1
      <4>3. M[s.key].domains \cap domains = {}
        BY <2>6, <4>1
      <4> QED
        BY <4>2, <4>3
    <3> QED
      BY <1>5, <3>1, <3>2 DEF Agree
  <2>7. ASSUME Agree(N \cup {r}) PROVE added = Merged(N \cup {r})
    <3>1. PICK R : R = Merged(N \cup {r})
      OBVIOUS
    <3>2. /\ \A k : k \in DOMAIN R <=> \E s \in N \cup {r} : s.key = k
          /\ \A s \in N \cup {r} : R[s.key].auth = s.auth
          /\ \A k \in DOMAIN R :
                \A d : d \in R[k].domains <=> \E s \in N \cup {r} : s.key = k /\ d \in s.domains
      BY <2>7, <3>1, MergedFacts
    <3>3. DOMAIN R = DOMAIN M \cup {r.key}
      BY <2>4, <3>2
    <3>4. /\ R = [k \in DOMAIN R |-> R[k]]
          /\ \A k \in DOMAIN R : R[k] = [auth |-> R[k].auth, domains |-> R[k].domains]
      BY <3>1 DEF Merged
    <3>5. \A k \in DOMAIN M : M[k] = [auth |-> M[k].auth, domains |-> M[k].domains]
      BY <2>1 DEF Merged
    <3>6. R[r.key].auth = r.auth /\ R[r.key].domains = domains
      <4>1. \A d : d \in R[r.key].domains <=> d \in r.domains \/ (known /\ d \in M[r.key].domains)
        BY <2>4, <3>2, <3>3
      <4> QED
        BY <3>2, <4>1
    <3>7. ASSUME NEW k \in DOMAIN M, k # r.key
          PROVE  R[k].auth = M[k].auth /\ R[k].domains = M[k].domains
      <4>1. \A d : d \in R[k].domains <=> d \in M[k].domains
        BY <2>4, <3>2, <3>3, <3>7
      <4>2. PICK s \in N : s.key = k
        BY <2>4
      <4> QED
        BY <2>4, <3>2, <4>1, <4>2
    <3>8. \A k \in DOMAIN R :
             R[k] = IF k = r.key THEN [auth |-> r.auth, domains |-> domains] ELSE M[k]
      <4> HIDE DEF domains
      <4> QED
        BY <3>3, <3>4, <3>5, <3>6, <3>7
    <3> HIDE DEF domains
    <3> QED
      BY <3>1, <3>3, <3>4, <3>8
  <2> HIDE DEF clash, added
  <2> QED
    BY <1>3, <2>3, <2>5, <2>6, <2>7 DEF Registries
<1> QED
  BY <1>4, <1>5

\* The loop of parseRegistries.
IsLoop(f, list) ==
    f = [i \in 0..Len(list) |-> IF i = 0 THEN NoRegistries ELSE AddRegistry(f[i - 1], list[i])]

\* parseRegistries makes of a list what its entries stand for as a set.
LEMMA ParseRegistriesMerges ==
    ASSUME MarkersApart, NEW E, NEW list \in Seq(E)
    PROVE  ParseRegistries(list) = IF list = <<>> THEN Rejected ELSE Registries(Range(list))
<1> DEFINE Prefix(i) == {list[j] : j \in 1..i}
           g == [i \in 0..Len(list) |-> Registries(Prefix(i))]
<1>1. Len(list) \in Nat /\ DOMAIN list = 1..Len(list)
  OBVIOUS
<1>2. Registries(Prefix(0)) = NoRegistries
  <2>1. Prefix(0) = {}
    OBVIOUS
  <2>2. Normalized({}) = {}
    BY DEF Normalized
  <2>3. Agree({})
    BY DEF Agree
  <2>4. Merged({}) = NoRegistries
    BY DEF Merged, NoRegistries
  <2> QED
    BY <2>1, <2>2, <2>3, <2>4 DEF Registries
<1>3. ASSUME NEW i \in 1..Len(list)
      PROVE  Registries(Prefix(i)) = AddRegistry(Registries(Prefix(i - 1)), list[i])
  <2>1. 1..i = 1..(i - 1) \cup {i}
    BY <1>1
  <2>2. Prefix(i) = Prefix(i - 1) \cup {list[i]}
    BY <2>1
  <2> HIDE DEF Prefix
  <2> QED
    BY <2>2, AddRegistryMerges
<1>4. ASSUME NEW f, IsLoop(f, list) PROVE \A i \in 0..Len(list) : f[i] = Registries(Prefix(i))
  <2> DEFINE T == {i \in 0..Len(list) : f[i] = Registries(Prefix(i))}
  <2>1. \A i \in 0..Len(list) :
           f[i] = IF i = 0 THEN NoRegistries ELSE AddRegistry(f[i - 1], list[i])
    BY <1>4 DEF IsLoop
  <2> HIDE DEF Prefix
  <2>2. 0 \in T
    BY <1>1, <1>2, <2>1
  <2>3. ASSUME NEW i \in 1..Len(list), i - 1 \in T PROVE i \in T
    <3>1. f[i - 1] = Registries(Prefix(i - 1)) /\ i \in 0..Len(list) /\ i # 0
      BY <1>1, <2>3
    <3> QED
      BY <1>3, <2>1, <3>1
  <2>4. 0..Len(list) \subseteq T
    <3> HIDE DEF T
    <3> QED
      BY <1>1, <2>2, <2>3, UpTo
  <2> QED
    BY <2>4
<1>5. IsLoop(g, list)
  <2> HIDE DEF Prefix
  <2>1. \A i \in 0..Len(list) : g[i] = Registries(Prefix(i))
    OBVIOUS
  <2>2. g = [i \in 0..Len(list) |-> g[i]]
    OBVIOUS
  <2>3. ASSUME NEW i \in 0..Len(list)
        PROVE  g[i] = IF i = 0 THEN NoRegistries ELSE AddRegistry(g[i - 1], list[i])
    <3>1. CASE i = 0
      BY <1>2, <2>1, <3>1
    <3>2. CASE i # 0
      <4>1. i \in 1..Len(list) /\ i - 1 \in 0..Len(list)
        BY <1>1, <3>2
      <4> HIDE DEF g
      <4> QED
        BY <1>3, <2>1, <3>2, <4>1
    <3> QED
      BY <3>1, <3>2
  <2> HIDE DEF g
  <2> QED
    BY <2>2, <2>3 DEF IsLoop
<1>6. PICK p : p = CHOOSE f : IsLoop(f, list)
  OBVIOUS
<1>7. IsLoop(p, list)
  BY <1>5, <1>6
<1>8. ParseRegistries(list) = IF list = <<>> THEN Rejected ELSE p[Len(list)]
  BY <1>6 DEF ParseRegistries, IsLoop
<1>9. p[Len(list)] = Registries(Prefix(Len(list)))
  BY <1>1, <1>4, <1>7
<1>10. Prefix(Len(list)) = Range(list)
  BY <1>1 DEF Range
<1> QED
  BY <1>8, <1>9, <1>10

-----------------------------------------------------------------------------
(* The properties of the parser                                             *)

\* parseRegistries does not depend on the order of the entries nor on their repetition,
\* for lists of any length.
THEOREM OrderIrrelevantCorrect ==
    MarkersApart /\ (\E E : data.registries \in Seq(E)) => OrderIrrelevant
<1> SUFFICES ASSUME MarkersApart, NEW E, data.registries \in Seq(E)
             PROVE  OrderIrrelevant
  OBVIOUS
<1>1. PICK list \in Seq(E) : list = data.registries
  OBVIOUS
<1>2. Len(list) \in Nat /\ DOMAIN list = 1..Len(list)
  OBVIOUS
<1>3. ASSUME NEW p \in [DOMAIN list -> DOMAIN list], Range(p) = DOMAIN list
      PROVE  ParseRegistries([i \in DOMAIN list |-> list[p[i]]]) = ParseRegistries(list)
  <2> DEFINE other == [i \in DOMAIN list |-> list[p[i]]]
  <2>1. \A i \in 1..Len(list) : list[i] \in E
    OBVIOUS
  <2>2. other \in [1..Len(list) -> E]
    BY <1>2, <2>1
  <2>3. other \in Seq(E) /\ Len(other) = Len(list)
    <3> HIDE DEF other
    <3> QED
      BY <1>2, <2>2
  <2>4. Range(other) = Range(list)
    BY <1>3 DEF Range
  <2>5. other = <<>> <=> list = <<>>
    <3> HIDE DEF other
    <3> QED
      BY <2>3
  <2> HIDE DEF other
  <2>6. ParseRegistries(other) = ParseRegistries(list)
    BY <2>3, <2>4, <2>5, ParseRegistriesMerges
  <2> QED
    BY <2>6 DEF other
<1>4. ParseRegistries(list \o list) = ParseRegistries(list)
  <2>1. list \o list \in Seq(E) /\ Len(list \o list) = Len(list) + Len(list)
    OBVIOUS
  <2>2. PICK twice \in Seq(E) : twice = list \o list
    BY <2>1
  <2>3. \A i \in 1..Len(twice) :
           twice[i] = IF i <= Len(list) THEN list[i] ELSE list[i - Len(list)]
    BY <2>1, <2>2
  <2>4. DOMAIN twice = 1..(Len(list) + Len(list))
    BY <2>1, <2>2
  <2>5. Range(twice) \subseteq Range(list)
    <3>1. ASSUME NEW i \in DOMAIN twice PROVE \E j \in DOMAIN list : twice[i] = list[j]
      <4>1. CASE i <= Len(list)
        BY <1>2, <2>1, <2>2, <2>3, <2>4, <4>1
      <4>2. CASE ~(i <= Len(list))
        <5>1. i - Len(list) \in DOMAIN list
          BY <1>2, <2>4, <4>2
        <5> QED
          BY <1>2, <2>1, <2>2, <2>3, <2>4, <4>2, <5>1
      <4> QED
        BY <4>1, <4>2
    <3> QED
      BY <3>1 DEF Range
  <2>6. Range(list) \subseteq Range(twice)
    <3>1. ASSUME NEW i \in DOMAIN list PROVE i \in DOMAIN twice /\ twice[i] = list[i]
      BY <1>2, <2>1, <2>2, <2>3, <2>4
    <3> QED
      BY <3>1 DEF Range
  <2>7. twice = <<>> <=> list = <<>>
    BY <1>2, <2>1, <2>2
  <2>8. Range(twice) = Range(list)
    BY <2>5, <2>6
  <2> QED
    BY <2>2, <2>7, <2>8, ParseRegistriesMerges
<1> QED
  BY <1>1, <1>3, <1>4 DEF OrderIrrelevant

\* Parse accepts only data each part of which it accepts.
LEMMA ParseAccepts ==
    ASSUME NEW d, Parse(d) # Rejected
    PROVE  /\ Parse(d).namespaces = ParseNameSelector(d.namespace)
           /\ Parse(d).excluded = ParseNameList(d.excludeNamespace, FALSE)
           /\ Parse(d).registries = ParseRegistries(d.registries)
           /\ Parse(d).runtime = ParseRuntime(d.runtime)
           /\ ParseNameSelector(d.namespace) # Rejected
           /\ ParseNameList(d.excludeNamespace, FALSE) # Rejected
           /\ ParseRegistries(d.registries) # Rejected
           /\ ParseRuntime(d.runtime) # Rejected
<1>1. PICK a, b, s, r, o :
        /\ a = ParseNameSelector(d.namespace)
        /\ b = ParseNameList(d.excludeNamespace, FALSE)
        /\ s = ParseNameSelector(d.serviceaccount)
        /\ r = ParseRegistries(d.registries)
        /\ o = ParseRuntime(d.runtime)
  OBVIOUS
<1> DEFINE config == [namespaces |-> a, excluded |-> b, serviceAccounts |-> s,
                      registries |-> r, runtime |-> o]
<1>2. Parse(d) = IF d.unsupported \/ \E field \in DOMAIN config : config[field] = Rejected
                 THEN Rejected ELSE config
  BY <1>1 DEF Parse
<1>3. Parse(d) = config /\ \A field \in DOMAIN config : config[field] # Rejected
  <2> HIDE DEF config
  <2> QED
    BY <1>2
<1>4. a # Rejected /\ b # Rejected /\ r # Rejected /\ o # Rejected
  BY <1>3
<1>5. config.namespaces = a /\ config.excluded = b /\ config.registries = r /\ config.runtime = o
  OBVIOUS
<1> HIDE DEF config
<1> QED
  BY <1>1, <1>3, <1>4, <1>5

\* The data of a ConfigMap: a list of entries, and for each override nothing, text that
\* is no number, or a number.
DataOK ==
    /\ \E E : data.registries \in Seq(E)
    /\ data.runtime \in [RuntimeKeys -> Int \cup {Unset, NotANumber}]

\* Parse accepts only what it can represent: Domains and AK/SK stay with the registry
\* of their entry, names and overrides are those of the data, for any lists.
THEOREM AcceptedIsFaithfulCorrect == MarkersApart /\ DataOK => AcceptedIsFaithful
<1> SUFFICES ASSUME MarkersApart, DataOK, Parse(data) # Rejected PROVE AcceptedIsFaithful
  BY DEF AcceptedIsFaithful
<1>1. PICK config : config = Parse(data)
  OBVIOUS
<1>2. PICK E : data.registries \in Seq(E)
  BY DEF DataOK
<1>3. PICK list \in Seq(E) : list = data.registries
  BY <1>2
<1>4. PICK N : N = Normalized(Range(list))
  OBVIOUS
<1>5. Agree(N) /\ config.registries = Merged(N)
  <2>1. config.registries = ParseRegistries(list) /\ ParseRegistries(list) # Rejected
    BY <1>1, <1>3, ParseAccepts
  <2> QED
    BY <1>4, <2>1, ParseRegistriesMerges DEF Registries
<1>6. ASSUME NEW i \in DOMAIN list, NEW d \in list[i].domains
      PROVE  LET entry == list[i] IN
             {k \in DOMAIN config.registries : d.text \in config.registries[k].domains}
               = {k \in {<<entry.region.text, entry.instance.text>>} :
                     config.registries[k].auth = entry.auth.text}
  <2>1. PICK entry : entry = list[i]
    OBVIOUS
  <2>2. PICK r \in N : r = NormalizeRegistry(entry)
    BY <1>4, <2>1 DEF Normalized, Range
  <2>3. r # Rejected
    BY <1>5 DEF Agree
  <2>4. /\ r.key = <<entry.region.text, entry.instance.text>>
        /\ r.auth = entry.auth.text
        /\ r.domains = {NormalizeDomain(x) : x \in entry.domains}
        /\ \A x \in entry.domains : NormalizeDomain(x) # Rejected
    BY <2>2, <2>3 DEF NormalizeRegistry
  <2>5. d.text \in r.domains
    BY <1>6, <2>1, <2>4 DEF NormalizeDomain
  <2>6. PICK M : M = config.registries
    OBVIOUS
  <2>7. /\ \A k : k \in DOMAIN M <=> \E s \in N : s.key = k
        /\ \A s \in N : M[s.key].auth = s.auth
        /\ \A k \in DOMAIN M :
              \A x : x \in M[k].domains <=> \E s \in N : s.key = k /\ x \in s.domains
    BY <1>5, <2>6, MergedFacts
  <2>8. {k \in DOMAIN M : d.text \in M[k].domains} = {r.key}
    <3>1. r.key \in DOMAIN M /\ d.text \in M[r.key].domains
      BY <2>5, <2>7
    <3>2. ASSUME NEW k \in DOMAIN M, d.text \in M[k].domains PROVE k = r.key
      <4>1. PICK s \in N : s.key = k /\ d.text \in s.domains
        BY <2>7, <3>2
      <4> QED
        BY <1>5, <2>5, <4>1 DEF Agree
    <3> QED
      BY <3>1, <3>2
  <2>9. M[r.key].auth = entry.auth.text
    BY <2>4, <2>7
  <2>10. {k \in {r.key} : M[k].auth = entry.auth.text} = {r.key}
    BY <2>9
  <2> QED
    BY <2>1, <2>4, <2>6, <2>8, <2>10
<1>7. ASSUME NEW n
      PROVE  MatchesNamespace(config, n)
               <=> /\ n \in Texts(data.namespace) \/ Texts(data.namespace) = {Wildcard}
                   /\ n \notin Texts(data.excludeNamespace)
  <2>1. config.excluded = Texts(data.excludeNamespace)
    BY <1>1, ParseAccepts DEF ParseNameList, Texts
  <2>2. /\ config.namespaces = ParseNameSelector(data.namespace)
        /\ ParseNameSelector(data.namespace) # Rejected
    BY <1>1, ParseAccepts
  <2>3. PICK names : names = Texts(data.namespace)
    OBVIOUS
  <2>4. ParseNameList(data.namespace, TRUE) = names
    BY <2>2, <2>3 DEF ParseNameSelector, ParseNameList, Texts
  <2>5. CASE Wildcard \notin names
    <3>1. config.namespaces = [matchAll |-> FALSE, names |-> names]
      BY <2>2, <2>4, <2>5 DEF ParseNameSelector
    <3>2. Matches(config.namespaces, n) <=> n \in names
      BY <3>1 DEF Matches
    <3> QED
      BY <2>1, <2>3, <2>5, <3>2 DEF MatchesNamespace
  <2>6. CASE Wildcard \in names
    <3>1. names = {Wildcard} /\ config.namespaces = [matchAll |-> TRUE, names |-> {}]
      BY <2>2, <2>4, <2>6 DEF ParseNameSelector
    <3>2. Matches(config.namespaces, n)
      BY <3>1 DEF Matches
    <3> QED
      BY <2>1, <2>3, <3>1, <3>2 DEF MatchesNamespace
  <2> QED
    BY <2>5, <2>6
<1>8. ASSUME NEW key \in RuntimeKeys
      PROVE  IF data.runtime[key] = Unset THEN config.runtime[key] = 0
             ELSE /\ config.runtime[key] \in Nat \ {0}
                  /\ config.runtime[key] = data.runtime[key]
  <2>1. config.runtime = ParseRuntime(data.runtime) /\ ParseRuntime(data.runtime) # Rejected
    BY <1>1, ParseAccepts
  <2>2. PICK value : value = data.runtime[key]
    OBVIOUS
  <2>3. value \in Int \cup {Unset, NotANumber}
    BY <2>2 DEF DataOK
  <2>4. value = Unset \/ ~(value = NotANumber \/ value < 1)
    BY <2>1, <2>2 DEF ParseRuntime
  <2>5. config.runtime[key] = IF value = Unset THEN 0 ELSE value
    BY <2>1, <2>2 DEF ParseRuntime
  <2>6. CASE value = Unset
    BY <2>2, <2>5, <2>6
  <2>7. CASE value # Unset
    <3>1. value \in Nat \ {0}
      BY <2>3, <2>4, <2>7
    <3> QED
      BY <2>2, <2>5, <2>7, <3>1
  <2> QED
    BY <2>6, <2>7
<1> QED
  BY <1>1, <1>3, <1>6, <1>7, <1>8 DEF AcceptedIsFaithful

-----------------------------------------------------------------------------
(* What the builder relies on                                               *)

\* Every registry has a Domain, and no two registries have one in common.
DomainsApart(r) ==
    /\ \A k \in DOMAIN r : r[k].domains # {}
    /\ \A j, k \in DOMAIN r : j # k => r[j].domains \cap r[k].domains = {}

\* parseRegistries gives every registry a Domain and no Domain to two registries, for
\* any list it accepts.
THEOREM ParsedDomainsApart ==
    ASSUME MarkersApart, NEW E, NEW list \in Seq(E), ParseRegistries(list) # Rejected
    PROVE  DomainsApart(ParseRegistries(list))
<1>1. PICK N : N = Normalized(Range(list))
  OBVIOUS
<1>2. PICK M : M = ParseRegistries(list)
  OBVIOUS
<1>3. Agree(N) /\ M = Merged(N)
  BY <1>1, <1>2, ParseRegistriesMerges DEF Registries
<1>4. /\ \A k : k \in DOMAIN M <=> \E s \in N : s.key = k
      /\ \A k \in DOMAIN M :
            \A x : x \in M[k].domains <=> \E s \in N : s.key = k /\ x \in s.domains
  BY <1>3, MergedFacts
<1>5. ASSUME NEW s \in N PROVE s.domains # {}
  <2>1. PICK e : s = NormalizeRegistry(e)
    BY <1>1 DEF Normalized
  <2>2. s # Rejected
    BY <1>3 DEF Agree
  <2>3. e.domains # {} /\ s.domains = {NormalizeDomain(d) : d \in e.domains}
    BY <2>1, <2>2 DEF NormalizeRegistry
  <2> QED
    BY <2>3
<1>6. ASSUME NEW k \in DOMAIN M PROVE M[k].domains # {}
  <2>1. PICK s \in N : s.key = k
    BY <1>4
  <2>2. PICK d : d \in s.domains
    BY <1>5
  <2> QED
    BY <1>4, <2>1, <2>2
<1>7. ASSUME NEW j \in DOMAIN M, NEW k \in DOMAIN M, j # k
      PROVE  M[j].domains \cap M[k].domains = {}
  <2> SUFFICES ASSUME NEW d \in M[j].domains, d \in M[k].domains PROVE FALSE
    OBVIOUS
  <2>1. PICK s \in N, t \in N :
           s.key = j /\ t.key = k /\ d \in s.domains /\ d \in t.domains
    BY <1>4
  <2> QED
    BY <1>3, <1>7, <2>1 DEF Agree
<1> QED
  BY <1>2, <1>6, <1>7 DEF DomainsApart

-----------------------------------------------------------------------------
(* What Build makes of a Secret, registry by registry                       *)

\* What Build knows of the Secret.
Old(r, c, s) == Known(DOMAIN r \ FreshKeys(r, c), s)

\* The Domains of a registry that get an auth.
Served(r, c, s, k) ==
    IF k \in FreshKeys(r, c) THEN r[k].domains ELSE RetainedDomains(k, r[k], Old(r, c, s))

\* What the content says of each registry.
DescribedBy(b, r, c, s) ==
    /\ b.docker = [d \in DOMAIN b.docker |-> b.docker[d]]
    /\ b.state = [k \in DOMAIN b.state |-> b.state[k]]
    /\ b.docker \notin {Absent, Unreadable} /\ b.state \notin {Absent, Unreadable}
    /\ \A d : d \in DOMAIN b.docker <=> \E k \in DOMAIN r : d \in Served(r, c, s, k)
    /\ \A k \in DOMAIN r : Served(r, c, s, k) \subseteq r[k].domains
    /\ \A k \in DOMAIN r : r[k].domains \cap DOMAIN b.docker = Served(r, c, s, k)
    /\ \A k \in DOMAIN r : \A d \in Served(r, c, s, k) :
          b.docker[d] = IF k \in FreshKeys(r, c) THEN c[k].credential.token
                        ELSE Old(r, c, s).auths[d]
    /\ DOMAIN b.state = {k \in DOMAIN r : Served(r, c, s, k) # {}}
    /\ \A k \in DOMAIN b.state :
          b.state[k] = IF k \in FreshKeys(r, c) THEN RegistryState(k, r[k], c[k].credential)
                       ELSE Old(r, c, s).states[k]
    /\ b.problem <=> \/ Old(r, c, s).problem
                     \/ \E k \in DOMAIN r \ FreshKeys(r, c) :
                           RetentionProblem(k, r[k], Old(r, c, s))

LEMMA BuildDescribed ==
    ASSUME MarkersApart, NEW r, NEW c, NEW s, NEW b,
           DomainsApart(r), b = Build(r, c, s)
    PROVE  DescribedBy(b, r, c, s)
<1>1. PICK fresh, old : fresh = FreshKeys(r, c) /\ old = Old(r, c, s)
  OBVIOUS
<1> DEFINE served == [k \in DOMAIN r |-> IF k \in fresh THEN r[k].domains
                                         ELSE RetainedDomains(k, r[k], old)]
           owner(d) == CHOOSE k \in DOMAIN r : d \in r[k].domains
           docker == [d \in UNION Range(served) |->
                         IF owner(d) \in fresh THEN c[owner(d)].credential.token
                         ELSE old.auths[d]]
           state == [k \in {k \in DOMAIN r : served[k] # {}} |->
                        IF k \in fresh THEN RegistryState(k, r[k], c[k].credential)
                        ELSE old.states[k]]
           problem == \/ old.problem
                      \/ \E k \in DOMAIN r \ fresh : RetentionProblem(k, r[k], old)
<1>2. b = [docker |-> docker, state |-> state, problem |-> problem]
  BY <1>1 DEF Build, Old
<1>3. b.docker = docker /\ b.state = state /\ b.problem = problem
  <2> HIDE DEF docker, state, problem
  <2> QED
    BY <1>2
<1>4. \A k \in DOMAIN r : served[k] = Served(r, c, s, k)
  BY <1>1 DEF Served
<1>5. \A k \in DOMAIN r : served[k] \subseteq r[k].domains
  BY DEF RetainedDomains
<1>6. DOMAIN docker = UNION Range(served) /\ DOMAIN state = {k \in DOMAIN r : served[k] # {}}
  <2> HIDE DEF served, owner
  <2> QED
    OBVIOUS
<1>7. \A d : d \in UNION Range(served) <=> \E k \in DOMAIN r : d \in served[k]
  <2>1. DOMAIN served = DOMAIN r
    OBVIOUS
  <2> HIDE DEF served
  <2> QED
    BY <2>1 DEF Range
<1>8. /\ docker = [d \in DOMAIN docker |-> docker[d]]
      /\ state = [k \in DOMAIN state |-> state[k]]
  <2> HIDE DEF served, owner
  <2> QED
    OBVIOUS
<1>9. docker \notin {Absent, Unreadable} /\ state \notin {Absent, Unreadable}
  <2> HIDE DEF docker, state
  <2> QED
    BY <1>8 DEF MarkersApart
<1>10. ASSUME NEW k \in DOMAIN r, NEW d \in r[k].domains PROVE owner(d) = k
  <2>1. owner(d) \in DOMAIN r /\ d \in r[owner(d)].domains
    OBVIOUS
  <2> HIDE DEF owner
  <2> QED
    BY <2>1 DEF DomainsApart
<1>11. ASSUME NEW k \in DOMAIN r, NEW d \in served[k]
       PROVE  docker[d] = IF k \in fresh THEN c[k].credential.token ELSE old.auths[d]
  <2>1. owner(d) = k
    <3> HIDE DEF owner, served
    <3> QED
      BY <1>5, <1>10
  <2>2. d \in UNION Range(served)
    <3> HIDE DEF served
    <3> QED
      BY <1>7
  <2> HIDE DEF owner, served
  <2> QED
    BY <2>1, <2>2
<1>12. ASSUME NEW k \in DOMAIN r PROVE r[k].domains \cap DOMAIN docker = served[k]
  <2>1. ASSUME NEW d \in r[k].domains, d \in DOMAIN docker PROVE d \in served[k]
    <3> HIDE DEF served, docker
    <3>1. PICK j \in DOMAIN r : d \in served[j]
      BY <1>6, <1>7, <2>1
    <3> QED
      BY <1>5, <3>1 DEF DomainsApart
  <2> HIDE DEF served, docker
  <2> QED
    BY <1>5, <1>6, <1>7, <2>1
<1>13. ASSUME NEW k \in DOMAIN state
       PROVE  state[k] = IF k \in fresh THEN RegistryState(k, r[k], c[k].credential)
                         ELSE old.states[k]
  <2> HIDE DEF served
  <2> QED
    OBVIOUS
<1>14. problem <=> \/ old.problem
                   \/ \E k \in DOMAIN r \ fresh : RetentionProblem(k, r[k], old)
  OBVIOUS
<1> HIDE DEF served, docker, state, problem
<1>15. \A d : d \in DOMAIN docker <=> \E k \in DOMAIN r : d \in Served(r, c, s, k)
  BY <1>4, <1>6, <1>7
<1>16. DOMAIN state = {k \in DOMAIN r : Served(r, c, s, k) # {}}
  BY <1>4, <1>6
<1> QED
  BY <1>1, <1>3, <1>4, <1>5, <1>8, <1>9, <1>11, <1>12, <1>13, <1>14, <1>15, <1>16
     DEF DescribedBy

\* A Secret has all its fields.
IsSecret(s) ==
    s = [managed |-> s.managed, deleting |-> s.deleting, extra |-> s.extra,
         docker |-> s.docker, state |-> s.state]

\* Entries decode on their own: the part of an envelope decodes as in the whole.
LEMMA DecodedPart ==
    ASSUME MarkersApart, NEW envelope, NEW S
    PROVE  \A x \in S : /\ x \in DOMAIN Decoded(Part(envelope, S))
                              <=> x \in DOMAIN Decoded(envelope)
                        /\ x \in DOMAIN Decoded(envelope)
                              => Decoded(Part(envelope, S))[x] = Decoded(envelope)[x]
<1>1. CASE envelope \in {Absent, Unreadable}
  BY <1>1 DEF Part
<1>2. CASE envelope \notin {Absent, Unreadable}
  <2>1. PICK p : p = [x \in DOMAIN envelope \cap S |-> envelope[x]]
    OBVIOUS
  <2>2. p \notin {Absent, Unreadable}
    BY <2>1 DEF MarkersApart
  <2>3. Part(envelope, S) = p
    BY <1>2, <2>1 DEF Part, Restrict
  <2>4. Decoded(p) = [x \in {x \in DOMAIN p : p[x] # Malformed} |-> p[x]]
    BY <2>2 DEF Decoded, RestrictValues, Restrict
  <2>5. Decoded(envelope)
          = [x \in {x \in DOMAIN envelope : envelope[x] # Malformed} |-> envelope[x]]
    BY <1>2 DEF Decoded, RestrictValues, Restrict
  <2>6. \A x \in S : x \in DOMAIN p <=> x \in DOMAIN envelope
    BY <2>1
  <2>7. \A x \in DOMAIN p : p[x] = envelope[x]
    BY <2>1
  <2> QED
    BY <2>3, <2>4, <2>5, <2>6, <2>7
<1> QED
  BY <1>1, <1>2

\* Build treats every registry as if it were configured alone and the Secret had no
\* records of others, for any number of registries and any damage.
THEOREM IsolationCorrect ==
    MarkersApart /\ DomainsApart(registries) /\ (secret = None \/ IsSecret(secret)) => Isolation
<1> SUFFICES ASSUME MarkersApart, DomainsApart(registries), secret = None \/ IsSecret(secret),
                    NEW k \in DOMAIN registries
             PROVE  LET alone == Build(Only(registries, k), credentials, OwnRecords(k)) IN
                    /\ Only(Content.state, k) = alone.state
                    /\ Part(Content.docker, registries[k].domains) = alone.docker
  BY DEF Isolation
<1>1. PICK r, c, s : r = registries /\ c = credentials /\ s = secret
  OBVIOUS
<1>2. PICK one, own : one = Only(r, k) /\ own = OwnRecords(k)
  OBVIOUS
<1>3. one = [x \in {k} |-> r[k]]
  BY <1>1, <1>2 DEF Only, Restrict
<1>4. DOMAIN one = {k} /\ one[k] = r[k] /\ DomainsApart(one)
  BY <1>1, <1>3 DEF DomainsApart
<1>5. k \in FreshKeys(one, c) <=> k \in FreshKeys(r, c)
  BY <1>1, <1>4 DEF FreshKeys
<1>6. ASSUME k \notin FreshKeys(r, c)
      PROVE  /\ k \in DOMAIN Old(one, c, own).states <=> k \in DOMAIN Old(r, c, s).states
             /\ k \in DOMAIN Old(r, c, s).states
                   => Old(one, c, own).states[k] = Old(r, c, s).states[k]
             /\ \A d \in r[k].domains :
                   /\ d \in DOMAIN Old(one, c, own).auths <=> d \in DOMAIN Old(r, c, s).auths
                   /\ d \in DOMAIN Old(r, c, s).auths
                        => Old(one, c, own).auths[d] = Old(r, c, s).auths[d]
  <2>1. DOMAIN one \ FreshKeys(one, c) # {} /\ DOMAIN r \ FreshKeys(r, c) # {}
    BY <1>1, <1>4, <1>5, <1>6
  <2>2. CASE s = None
    <3>1. own = None
      BY <1>1, <1>2, <2>2 DEF OwnRecords
    <3> QED
      BY <2>2, <3>1 DEF Old, Known
  <2>3. CASE s # None
    <3>1. IsSecret(s)
      BY <1>1, <2>3
    <3>2. own = [managed |-> s.managed, deleting |-> s.deleting, extra |-> s.extra,
                 docker |-> Part(s.docker, r[k].domains), state |-> Part(s.state, {k})]
      <4>1. own = [s EXCEPT !.docker = Part(@, r[k].domains), !.state = Part(@, {k})]
        BY <1>1, <1>2, <2>3 DEF OwnRecords
      <4>2. PICK m, x, y, p, q : s = [managed |-> m, deleting |-> x, extra |-> y, docker |-> p,
                                      state |-> q]
        BY <3>1 DEF IsSecret
      <4> QED
        BY <4>1, <4>2
    <3>3. own # None
      BY <3>2 DEF MarkersApart
    <3>4. own.docker = Part(s.docker, r[k].domains) /\ own.state = Part(s.state, {k})
      BY <3>2
    <3>5. /\ Old(one, c, own).auths = Decoded(own.docker)
          /\ Old(one, c, own).states = Decoded(own.state)
      BY <2>1, <3>3 DEF Old, Known, ParseExisting
    <3>6. /\ Old(r, c, s).auths = Decoded(s.docker)
          /\ Old(r, c, s).states = Decoded(s.state)
      BY <2>1, <2>3 DEF Old, Known, ParseExisting
    <3> QED
      BY <3>4, <3>5, <3>6, DecodedPart
  <2> QED
    BY <2>2, <2>3
<1>7. Served(one, c, own, k) = Served(r, c, s, k)
  BY <1>4, <1>5, <1>6 DEF Served, RetainedDomains
<1>8. PICK whole, alone : whole = Build(r, c, s) /\ alone = Build(one, c, own)
  OBVIOUS
<1>9. DescribedBy(whole, r, c, s) /\ DescribedBy(alone, one, c, own)
  BY <1>1, <1>4, <1>8, BuildDescribed
<1>10. DOMAIN alone.state = DOMAIN whole.state \cap {k}
  BY <1>1, <1>4, <1>7, <1>8, <1>9 DEF DescribedBy
<1>11. ASSUME k \in DOMAIN whole.state PROVE alone.state[k] = whole.state[k]
  <2>1. k \in DOMAIN alone.state
    BY <1>10, <1>11
  <2>2. alone.state[k] = IF k \in FreshKeys(one, c) THEN RegistryState(k, one[k], c[k].credential)
                         ELSE Old(one, c, own).states[k]
    BY <1>4, <1>8, <2>1, <1>9 DEF DescribedBy
  <2>3. whole.state[k] = IF k \in FreshKeys(r, c) THEN RegistryState(k, r[k], c[k].credential)
                         ELSE Old(r, c, s).states[k]
    BY <1>1, <1>8, <1>11, <1>9 DEF DescribedBy
  <2>4. k \notin FreshKeys(r, c) => k \in DOMAIN Old(r, c, s).states
    <3>1. Served(r, c, s, k) # {}
      BY <1>1, <1>8, <1>11, <1>9 DEF DescribedBy
    <3> QED
      BY <3>1 DEF Served, RetainedDomains
  <2> QED
    BY <1>4, <1>5, <1>6, <2>2, <2>3, <2>4
<1>12. DOMAIN alone.docker = r[k].domains \cap DOMAIN whole.docker
  <2>1. \A d : d \in DOMAIN alone.docker <=> d \in Served(one, c, own, k)
    BY <1>4, <1>8, <1>9 DEF DescribedBy
  <2>2. r[k].domains \cap DOMAIN whole.docker = Served(r, c, s, k)
    BY <1>1, <1>8, <1>9 DEF DescribedBy
  <2> QED
    BY <1>7, <2>1, <2>2
<1>13. ASSUME NEW d \in DOMAIN alone.docker PROVE alone.docker[d] = whole.docker[d]
  <2>1. d \in Served(r, c, s, k)
    BY <1>1, <1>8, <1>12, <1>9 DEF DescribedBy
  <2>2. alone.docker[d] = IF k \in FreshKeys(one, c) THEN c[k].credential.token
                          ELSE Old(one, c, own).auths[d]
    BY <1>4, <1>7, <1>8, <2>1, <1>9 DEF DescribedBy
  <2>3. whole.docker[d] = IF k \in FreshKeys(r, c) THEN c[k].credential.token
                          ELSE Old(r, c, s).auths[d]
    BY <1>1, <1>8, <2>1, <1>9 DEF DescribedBy
  <2>4. k \notin FreshKeys(r, c) => d \in r[k].domains /\ d \in DOMAIN Old(r, c, s).auths
    BY <2>1 DEF Served, RetainedDomains
  <2> QED
    BY <1>5, <1>6, <2>2, <2>3, <2>4
<1>14. /\ alone.docker = [d \in DOMAIN alone.docker |-> alone.docker[d]]
       /\ alone.state = [x \in DOMAIN alone.state |-> alone.state[x]]
       /\ whole.docker \notin {Absent, Unreadable}
  BY <1>1, <1>4, <1>8, <1>9 DEF DescribedBy
<1>15. Only(whole.state, k) = alone.state
  BY <1>10, <1>11, <1>14 DEF Only, Restrict
<1>16. Part(whole.docker, r[k].domains) = alone.docker
  BY <1>12, <1>13, <1>14 DEF Part, Restrict
<1> QED
  BY <1>1, <1>2, <1>8, <1>15, <1>16 DEF Content

\* Without a Secret there is nothing to retain: exactly the fresh registries are served.
LEMMA ServedWithout ==
    ASSUME NEW r, NEW c, NEW k, k \notin FreshKeys(r, c)
    PROVE  Served(r, c, None, k) = {}
BY DEF Served, Old, Known, RetainedDomains, EmptyMap

\* An inspection calls a registry synced only where a write would leave its records as
\* they are, for any number of registries and any damage.
THEOREM SyncedIsCurrentCorrect ==
    MarkersApart /\ DomainsApart(registries) => SyncedIsCurrent
<1> SUFFICES ASSUME MarkersApart, DomainsApart(registries), NEW k \in DOMAIN registries,
                    RegistryStatus(secret, k, registries[k], Expected(registries, credentials), 1)
                        = "synced"
             PROVE  /\ Only(secret.state, k) = Only(Content.state, k)
                    /\ \A d \in registries[k].domains :
                          /\ d \in DOMAIN secret.docker
                          /\ secret.docker[d] = credentials[k].credential.token
  BY DEF SyncedIsCurrent
<1>1. PICK r, c, s : r = registries /\ c = credentials /\ s = secret
  OBVIOUS
<1>2. PICK b, e : b = Build(r, c, s) /\ e = Build(r, c, None)
  OBVIOUS
<1>3. DescribedBy(b, r, c, s) /\ DescribedBy(e, r, c, None)
  BY <1>1, <1>2, BuildDescribed
<1>4. CopyMatches(s, k, r[k], e)
  BY <1>1, <1>2 DEF RegistryStatus, Expected
<1>5. k \in FreshKeys(r, c)
  <2>1. Served(r, c, None, k) # {}
    BY <1>3, <1>4 DEF CopyMatches, DescribedBy
  <2> QED
    BY <2>1, ServedWithout
<1>6. Served(r, c, s, k) = r[k].domains /\ Served(r, c, None, k) = r[k].domains
  BY <1>5 DEF Served
<1>7. r[k].domains # {}
  BY <1>1 DEF DomainsApart
<1>8. k \in DOMAIN b.state /\ b.state[k] = RegistryState(k, r[k], c[k].credential)
  BY <1>1, <1>3, <1>5, <1>6, <1>7 DEF DescribedBy
<1>9. k \in DOMAIN e.state /\ e.state[k] = RegistryState(k, r[k], c[k].credential)
  BY <1>1, <1>3, <1>5, <1>6, <1>7 DEF DescribedBy
<1>10. k \in DOMAIN s.state /\ s.state[k] = b.state[k]
  BY <1>4, <1>8, <1>9 DEF CopyMatches
<1>11. Only(s.state, k) = Only(b.state, k)
  BY <1>8, <1>10 DEF Only, Restrict
<1>12. ASSUME NEW d \in r[k].domains
       PROVE  d \in DOMAIN s.docker /\ s.docker[d] = c[k].credential.token
  <2>1. e.docker[d] = c[k].credential.token
    BY <1>1, <1>3, <1>5, <1>6 DEF DescribedBy
  <2> QED
    BY <1>4, <2>1 DEF CopyMatches
<1> QED
  BY <1>1, <1>2, <1>11, <1>12 DEF Content

-----------------------------------------------------------------------------
(* One write cures all damage                                               *)

\* What Build knows of a Secret decoded.
LEMMA OldDecoded ==
    ASSUME NEW r, NEW c, NEW s
    PROVE  /\ \A x \in DOMAIN Old(r, c, s).auths : Old(r, c, s).auths[x] # Malformed
           /\ \A x \in DOMAIN Old(r, c, s).states : Old(r, c, s).states[x] # Malformed
<1>1. ASSUME NEW envelope, NEW x \in DOMAIN Decoded(envelope)
      PROVE  Decoded(envelope)[x] # Malformed
  BY <1>1 DEF Decoded, RestrictValues, Restrict, EmptyMap
<1>2. CASE DOMAIN r \ FreshKeys(r, c) = {} \/ s = None
  BY <1>2 DEF Old, Known, EmptyMap
<1>3. CASE ~(DOMAIN r \ FreshKeys(r, c) = {} \/ s = None)
  <2>1. Old(r, c, s).auths = Decoded(s.docker) /\ Old(r, c, s).states = Decoded(s.state)
    BY <1>3 DEF Old, Known, ParseExisting
  <2> QED
    BY <1>1, <2>1
<1> QED
  BY <1>2, <1>3

\* The tokens and times of the store are those of credentials.
CredentialsOK(c) ==
    \A k \in DOMAIN c : /\ c[k].credential.token \notin {Malformed, Unusable}
                        /\ c[k].credential.refreshedAt \in Nat \ {0}
                        /\ c[k].credential.expiresAt \in Nat
                        /\ c[k].credential.expiresAt > c[k].credential.refreshedAt

\* Everything that Build emits is in order: complete states, usable auths.
LEMMA BuildSound ==
    ASSUME MarkersApart, NEW r, NEW c, NEW s, NEW b,
           DomainsApart(r), CredentialsOK(c), b = Build(r, c, s)
    PROVE  /\ \A k \in DOMAIN b.state : b.state[k] # Malformed /\ CompleteState(b.state[k])
           /\ \A d \in DOMAIN b.docker : b.docker[d] \notin {Malformed, Unusable}
<1>1. DescribedBy(b, r, c, s)
  BY BuildDescribed
<1>2. ASSUME NEW k \in DOMAIN b.state
      PROVE  b.state[k] # Malformed /\ CompleteState(b.state[k])
  <2>1. CASE k \in FreshKeys(r, c)
    <3>1. PICK x : x = RegistryState(k, r[k], c[k].credential)
      OBVIOUS
    <3>2. /\ x.refreshedAt = c[k].credential.refreshedAt
          /\ x.expiresAt = c[k].credential.expiresAt
          /\ x.stateHash = <<k, r[k], c[k].credential>>
          /\ x = [f \in DOMAIN x |-> x[f]]
      BY <3>1 DEF RegistryState, StateHash
    <3>3. k \in DOMAIN c
      BY <2>1 DEF FreshKeys
    <3>4. <<k, r[k], c[k].credential>> # <<>>
      OBVIOUS
    <3>5. CompleteState(x)
      BY <3>2, <3>3, <3>4 DEF CompleteState, NoHash, CredentialsOK
    <3>6. x # Malformed
      BY <3>2 DEF MarkersApart
    <3>7. b.state[k] = x
      BY <1>1, <2>1, <3>1 DEF DescribedBy
    <3> QED
      BY <3>5, <3>6, <3>7
  <2>2. CASE k \notin FreshKeys(r, c)
    <3>1. Served(r, c, s, k) # {}
      BY <1>1 DEF DescribedBy
    <3>2. k \in DOMAIN Old(r, c, s).states /\ CompleteState(Old(r, c, s).states[k])
      BY <2>2, <3>1 DEF Served, RetainedDomains
    <3>3. b.state[k] = Old(r, c, s).states[k]
      BY <1>1, <2>2 DEF DescribedBy
    <3> QED
      BY <3>2, <3>3, OldDecoded
  <2> QED
    BY <2>1, <2>2
<1>3. ASSUME NEW d \in DOMAIN b.docker PROVE b.docker[d] \notin {Malformed, Unusable}
  <2>1. PICK k \in DOMAIN r : d \in Served(r, c, s, k)
    BY <1>1 DEF DescribedBy
  <2>2. CASE k \in FreshKeys(r, c)
    <3>1. k \in DOMAIN c
      BY <2>2 DEF FreshKeys
    <3>2. b.docker[d] = c[k].credential.token
      BY <1>1, <2>1, <2>2 DEF DescribedBy
    <3> QED
      BY <3>1, <3>2 DEF CredentialsOK
  <2>3. CASE k \notin FreshKeys(r, c)
    <3>1. d \in DOMAIN Old(r, c, s).auths /\ Old(r, c, s).auths[d] # Unusable
      BY <2>1, <2>3 DEF Served, RetainedDomains
    <3>2. b.docker[d] = Old(r, c, s).auths[d]
      BY <1>1, <2>1, <2>3 DEF DescribedBy
    <3> QED
      BY <3>1, <3>2, OldDecoded
  <2> QED
    BY <2>2, <2>3
<1> QED
  BY <1>2, <1>3

\* Building again from what was written gives the same content and finds no problem,
\* for any number of registries, any store and any damage before.
THEOREM RebuildFindsNothing ==
    ASSUME MarkersApart, NEW r, NEW c, NEW s, NEW t,
           DomainsApart(r), CredentialsOK(c), t # None,
           t.docker = Build(r, c, s).docker, t.state = Build(r, c, s).state
    PROVE  LET again == Build(r, c, t) IN
           again.docker = t.docker /\ again.state = t.state /\ ~again.problem
<1>1. PICK b, a : b = Build(r, c, s) /\ a = Build(r, c, t)
  OBVIOUS
<1>2. DescribedBy(b, r, c, s) /\ DescribedBy(a, r, c, t)
  BY <1>1, BuildDescribed
<1>3. /\ \A k \in DOMAIN b.state : b.state[k] # Malformed /\ CompleteState(b.state[k])
      /\ \A d \in DOMAIN b.docker : b.docker[d] \notin {Malformed, Unusable}
  BY <1>1, BuildSound
<1>4. ASSUME DOMAIN r \ FreshKeys(r, c) # {}
      PROVE  /\ Old(r, c, t).auths = b.docker /\ Old(r, c, t).states = b.state
             /\ ~Old(r, c, t).problem
  <2>1. Old(r, c, t) = ParseExisting(t)
    BY <1>4 DEF Old, Known
  <2>2. ASSUME NEW envelope, envelope \notin {Absent, Unreadable},
               envelope = [x \in DOMAIN envelope |-> envelope[x]],
               \A x \in DOMAIN envelope : envelope[x] # Malformed
        PROVE  Decoded(envelope) = envelope /\ ~Damaged(envelope)
    <3>1. {x \in DOMAIN envelope : envelope[x] # Malformed} = DOMAIN envelope
      BY <2>2
    <3>2. Decoded(envelope) = [x \in DOMAIN envelope |-> envelope[x]]
      BY <2>2, <3>1 DEF Decoded, RestrictValues, Restrict
    <3> QED
      BY <2>2, <3>2 DEF Damaged, Range
  <2>3. Decoded(b.docker) = b.docker /\ ~Damaged(b.docker)
    BY <1>2, <1>3, <2>2 DEF DescribedBy
  <2>4. Decoded(b.state) = b.state /\ ~Damaged(b.state)
    BY <1>2, <1>3, <2>2 DEF DescribedBy
  <2> QED
    BY <1>1, <2>1, <2>3, <2>4 DEF ParseExisting
<1>5. DOMAIN r \ FreshKeys(r, c) = {} => ~Old(r, c, t).problem
  BY DEF Old, Known
<1>6. ASSUME NEW k \in DOMAIN r \ FreshKeys(r, c)
      PROVE  /\ Served(r, c, t, k) = Served(r, c, s, k)
             /\ ~RetentionProblem(k, r[k], Old(r, c, t))
  <2>1. PICK old : old = Old(r, c, t)
    OBVIOUS
  <2>2. old.auths = b.docker /\ old.states = b.state
    BY <1>4, <2>1
  <2>3. r[k].domains \cap DOMAIN old.auths = Served(r, c, s, k)
    BY <1>2, <2>2 DEF DescribedBy
  <2>4. k \in DOMAIN old.states <=> Served(r, c, s, k) # {}
    BY <1>2, <2>2 DEF DescribedBy
  <2>5. k \in DOMAIN old.states => CompleteState(old.states[k])
    BY <1>3, <2>2
  <2>6. RetainedDomains(k, r[k], old) = Served(r, c, s, k)
    BY <1>3, <2>2, <2>3, <2>4, <2>5 DEF RetainedDomains
  <2>7. ~RetentionProblem(k, r[k], old)
    BY <2>3, <2>4, <2>5, <2>6 DEF RetentionProblem
  <2> QED
    BY <2>1, <2>6, <2>7 DEF Served
<1>7. \A k \in DOMAIN r : Served(r, c, t, k) = Served(r, c, s, k)
  <2>1. \A k \in FreshKeys(r, c) : Served(r, c, t, k) = Served(r, c, s, k)
    BY DEF Served
  <2> QED
    BY <1>6, <2>1
<1>8. DOMAIN a.docker = DOMAIN b.docker /\ DOMAIN a.state = DOMAIN b.state
  <2>1. \A d : d \in DOMAIN a.docker <=> d \in DOMAIN b.docker
    BY <1>2, <1>7 DEF DescribedBy
  <2>2. a.docker = [d \in DOMAIN a.docker |-> a.docker[d]]
    BY <1>2 DEF DescribedBy
  <2>3. DOMAIN a.docker = DOMAIN b.docker
    BY <2>1
  <2>4. DOMAIN a.state = DOMAIN b.state
    BY <1>2, <1>7 DEF DescribedBy
  <2> QED
    BY <2>3, <2>4
<1>9. ASSUME NEW d \in DOMAIN b.docker PROVE a.docker[d] = b.docker[d]
  <2>1. PICK k \in DOMAIN r : d \in Served(r, c, s, k)
    BY <1>2 DEF DescribedBy
  <2>2. d \in Served(r, c, t, k)
    BY <1>7, <2>1
  <2>3. CASE k \in FreshKeys(r, c)
    BY <1>2, <2>1, <2>2, <2>3 DEF DescribedBy
  <2>4. CASE k \notin FreshKeys(r, c)
    <3>1. a.docker[d] = Old(r, c, t).auths[d]
      BY <1>2, <2>2, <2>4 DEF DescribedBy
    <3> QED
      BY <1>4, <2>4, <3>1
  <2> QED
    BY <2>3, <2>4
<1>10. ASSUME NEW k \in DOMAIN b.state PROVE a.state[k] = b.state[k]
  <2>1. k \in DOMAIN a.state /\ k \in DOMAIN r
    BY <1>2, <1>8 DEF DescribedBy
  <2>2. CASE k \in FreshKeys(r, c)
    BY <1>2, <2>1, <2>2 DEF DescribedBy
  <2>3. CASE k \notin FreshKeys(r, c)
    <3>1. a.state[k] = Old(r, c, t).states[k]
      BY <1>2, <2>1, <2>3 DEF DescribedBy
    <3> QED
      BY <1>4, <2>1, <2>3, <3>1
  <2> QED
    BY <2>2, <2>3
<1>11. a.docker = b.docker /\ a.state = b.state
  <2>1. /\ a.docker = [d \in DOMAIN a.docker |-> a.docker[d]]
        /\ b.docker = [d \in DOMAIN b.docker |-> b.docker[d]]
        /\ a.state = [k \in DOMAIN a.state |-> a.state[k]]
        /\ b.state = [k \in DOMAIN b.state |-> b.state[k]]
    BY <1>2 DEF DescribedBy
  <2>2. a.docker = b.docker
    BY <1>8, <1>9, <2>1
  <2>3. a.state = b.state
    BY <1>8, <1>10, <2>1
  <2> QED
    BY <2>2, <2>3
<1>12. ~a.problem
  <2>1. a.problem <=> \/ Old(r, c, t).problem
                      \/ \E k \in DOMAIN r \ FreshKeys(r, c) :
                            RetentionProblem(k, r[k], Old(r, c, t))
    BY <1>2 DEF DescribedBy
  <2> QED
    BY <1>4, <1>5, <1>6, <2>1
<1> QED
  BY <1>1, <1>11, <1>12

-----------------------------------------------------------------------------
(* The cases of the run                                                     *)

\* The Secret is as the last write left it.
JustWritten ==
    /\ IsSecret(secret) /\ secret # None
    /\ secret.managed = TRUE /\ secret.deleting = FALSE /\ secret.extra = FALSE
    /\ \E s : /\ secret.docker = Build(registries, credentials, s).docker
              /\ secret.state = Build(registries, credentials, s).state

\* The inputs are those the parser, the store and the cluster can give.
CaseOK ==
    /\ data = None \/ DataOK
    /\ DomainsApart(registries)
    /\ \A k \in DOMAIN credentials : credentials[k].credential = NewCredential(k)
    /\ secret # None => IsSecret(secret) /\ secret.deleting = FALSE
    /\ written => JustWritten

LEMMA CaseInit == MarkersApart /\ Init => CaseOK
<1> SUFFICES ASSUME MarkersApart, Init PROVE CaseOK
  OBVIOUS
<1>1. ~written
  BY DEF Init
<1>2. CASE /\ data \in DataCases
           /\ registries = NoRegistries /\ credentials = EmptyMap /\ secret = None
  <2>1. DomainsApart(registries)
    BY <1>2 DEF DomainsApart, NoRegistries
  <2>2. DOMAIN credentials = {}
    BY <1>2 DEF EmptyMap
  <2>3. PICK E : E = AnyEntries \cup PlainEntries
    OBVIOUS
  <2>4. /\ data.registries \in Lists \cup OneList
        /\ data.runtime \in [RuntimeKeys -> {Unset, NotANumber, -1, 0, 1}]
    BY <1>2 DEF DataCases, Data
  <2>5. Lists \subseteq Seq(E)
    <3>1. \A e, f, g \in E : <<e>> \in Seq(E) /\ <<e, f>> \in Seq(E) /\ <<e, f, g>> \in Seq(E)
      OBVIOUS
    <3>2. <<>> \in Seq(E)
      OBVIOUS
    <3>3. \A p \in E \X E : p = <<p[1], p[2]>> /\ p[1] \in E /\ p[2] \in E
      OBVIOUS
    <3>4. /\ PlainEntries \X PlainEntries \subseteq E \X E
          /\ AnyEntries \X PlainEntries \subseteq E \X E
      BY <2>3
    <3>5. ASSUME NEW list \in Lists PROVE list \in Seq(E)
      <4>1. CASE list = <<>>
        BY <3>2, <4>1
      <4>2. CASE list \in {<<e>> : e \in AnyEntries}
        BY <2>3, <3>1, <4>2
      <4>3. CASE list \in E \X E
        BY <3>1, <3>3, <4>3
      <4>4. CASE list \in {<<e, f, g>> : e \in PlainEntries, f \in PlainEntries, g \in PlainEntries}
        <5>1. PICK e \in PlainEntries, f \in PlainEntries, g \in PlainEntries : list = <<e, f, g>>
          BY <4>4
        <5> QED
          BY <2>3, <3>1, <5>1
      <4> QED
        BY <3>4, <4>1, <4>2, <4>3, <4>4 DEF Lists
    <3> QED
      BY <3>5
  <2>6. OneList \subseteq Seq(E)
    <3>1. PICK e : e = CHOOSE x \in PlainEntries : TRUE
      OBVIOUS
    <3>2. PlainEntries # {}
      <4>1. [region |-> Piece(r1, "plain"), instance |-> Piece(i1, "plain"),
             auth |-> Piece(a1, "plain"), domains |-> {Piece(d1, "plain")}] \in PlainEntries
        <5>1. /\ Piece(r1, "plain") \in Plain({r1, r2}) /\ Piece(i1, "plain") \in Plain({i1})
              /\ Piece(a1, "plain") \in Plain({a1, a2}) /\ Piece(d1, "plain") \in Plain(Domains)
          BY DEF Plain, Domains
        <5>2. {Piece(d1, "plain")} \in (SUBSET Plain(Domains)) \ {{}}
          BY <5>1
        <5> QED
          BY <5>1, <5>2 DEF PlainEntries, Entries
      <4> QED
        BY <4>1
    <3>3. e \in E
      BY <2>3, <3>1, <3>2
    <3> QED
      BY <3>1, <3>3 DEF OneList
  <2>7. data.runtime \in [RuntimeKeys -> Int \cup {Unset, NotANumber}]
    BY <2>4
  <2> QED
    BY <1>1, <1>2, <2>1, <2>2, <2>4, <2>5, <2>6, <2>7 DEF CaseOK, DataOK
<1>3. CASE /\ data = None
           /\ registries \in Configurations
           /\ credentials \in Stores
           /\ secret \in Secrets(registries) \cup {None}
  <2>1. DomainsApart(registries)
    <3>1. PICK E, list : /\ list \in {<<e>> : e \in E} \cup (E \X E)
                         /\ registries = ParseRegistries(list) /\ registries # Rejected
      BY <1>3 DEF Configurations
    <3>2. list \in Seq(E)
      <4>1. \A e, f \in E : <<e>> \in Seq(E) /\ <<e, f>> \in Seq(E)
        OBVIOUS
      <4>2. \A p \in E \X E : p = <<p[1], p[2]>> /\ p[1] \in E /\ p[2] \in E
        OBVIOUS
      <4> QED
        BY <3>1, <4>1, <4>2
    <3> QED
      BY <3>1, <3>2, ParsedDomainsApart
  <2>2. \A k \in DOMAIN credentials : credentials[k].credential = NewCredential(k)
    BY <1>3 DEF Stores
  <2>3. secret # None => IsSecret(secret) /\ secret.deleting = FALSE
    BY <1>3 DEF Secrets, IsSecret
  <2> QED
    BY <1>1, <1>3, <2>1, <2>2, <2>3 DEF CaseOK
<1> QED
  BY <1>2, <1>3 DEF Init

LEMMA CaseNext == MarkersApart /\ CaseOK /\ [Next]_vars => CaseOK'
<1> SUFFICES ASSUME MarkersApart, CaseOK, [Next]_vars PROVE CaseOK'
  OBVIOUS
<1>1. CASE Write
  <2>1. /\ data' = data /\ registries' = registries /\ credentials' = credentials /\ written'
        /\ secret' = ApplyContent(IF secret = None THEN NewSecret ELSE secret, Content)
    BY <1>1 DEF Write
  <2>2. PICK s : s = IF secret = None THEN NewSecret ELSE secret
    OBVIOUS
  <2>3. PICK m, x, p, q : s = [managed |-> m, deleting |-> FALSE, extra |-> x, docker |-> p,
                               state |-> q]
    BY <2>2 DEF CaseOK, IsSecret, NewSecret
  <2>4. secret' = [managed |-> TRUE, deleting |-> FALSE, extra |-> FALSE,
                   docker |-> Content.docker, state |-> Content.state]
    <3>1. PICK docker, state : docker = Content.docker /\ state = Content.state
      OBVIOUS
    <3>2. secret' = [s EXCEPT !.managed = TRUE, !.extra = FALSE, !.docker = docker, !.state = state]
      BY <2>1, <2>2, <3>1 DEF ApplyContent
    <3> QED
      BY <2>3, <3>1, <3>2
  <2>5. secret' # None
    BY <2>4 DEF MarkersApart
  <2>6. /\ secret'.managed = TRUE /\ secret'.deleting = FALSE /\ secret'.extra = FALSE
        /\ secret'.docker = Content.docker /\ secret'.state = Content.state
    BY <2>4
  <2>7. IsSecret(secret')
    BY <2>4, <2>6 DEF IsSecret
  <2>8. \E z : /\ secret'.docker = Build(registries', credentials', z).docker
               /\ secret'.state = Build(registries', credentials', z).state
    BY <2>1, <2>6 DEF Content
  <2>9. JustWritten'
    BY <2>5, <2>6, <2>7, <2>8 DEF JustWritten
  <2> QED
    BY <2>1, <2>6, <2>7, <2>9 DEF CaseOK, DataOK
<1>2. ASSUME NEW k \in Keys, Acquire(k) PROVE CaseOK'
  <2>1. /\ data' = data /\ registries' = registries /\ secret' = secret /\ ~written'
        /\ credentials' = [x \in DOMAIN credentials \cup {k} |->
                              IF x = k THEN [auth |-> registries[k].auth,
                                             credential |-> NewCredential(k)]
                              ELSE credentials[x]]
    BY <1>2 DEF Acquire
  <2>2. \A x \in DOMAIN credentials' : credentials'[x].credential = NewCredential(x)
    BY <2>1 DEF CaseOK
  <2> QED
    BY <2>1, <2>2 DEF CaseOK, DataOK
<1>3. CASE UNCHANGED vars
  BY <1>3 DEF vars, CaseOK, DataOK, JustWritten
<1> QED
  BY <1>1, <1>2, <1>3 DEF Next

LEMMA CasesCorrect == MarkersApart => (Spec => []CaseOK)
<1> SUFFICES ASSUME MarkersApart PROVE Spec => []CaseOK
  OBVIOUS
<1>1. Init => CaseOK
  BY CaseInit
<1>2. CaseOK /\ [Next]_vars => CaseOK'
  BY CaseNext
<1> QED
  BY <1>1, <1>2, PTL DEF Spec

\* The credentials of the cases are in order.
LEMMA NewCredentials == MarkersApart /\ CaseOK => CredentialsOK(credentials)
<1> SUFFICES ASSUME MarkersApart, CaseOK, NEW k \in DOMAIN credentials
             PROVE  /\ credentials[k].credential.token \notin {Malformed, Unusable}
                    /\ credentials[k].credential.refreshedAt \in Nat \ {0}
                    /\ credentials[k].credential.expiresAt \in Nat
                    /\ credentials[k].credential.expiresAt > credentials[k].credential.refreshedAt
  BY DEF CredentialsOK
<1>1. credentials[k].credential = NewCredential(k)
  BY DEF CaseOK
<1>2. PICK token : token = <<"new", k>>
  OBVIOUS
<1>3. token \notin {Malformed, Unusable}
  BY <1>2 DEF MarkersApart
<1>4. /\ credentials[k].credential.token = token
      /\ credentials[k].credential.refreshedAt = 2 /\ credentials[k].credential.expiresAt = 4
  BY <1>1, <1>2 DEF NewCredential
<1> QED
  BY <1>3, <1>4

\* After a write, an inspection of the Secret agrees with the store.
LEMMA WrittenStatus ==
    ASSUME MarkersApart, CaseOK, written, NEW k \in DOMAIN registries, NEW now \in Nat
    PROVE  LET status == RegistryStatus(secret, k, registries[k],
                                        Expected(registries, credentials), now) IN
           /\ status # "invalid"
           /\ k \in FreshKeys(registries, credentials)
                 => status = IF now < 4 THEN "synced" ELSE "expired"
<1>1. PICK r, c : r = registries /\ c = credentials
  OBVIOUS
<1>2. DomainsApart(r) /\ CredentialsOK(c)
  BY <1>1, NewCredentials DEF CaseOK
<1>3. PICK s : secret.docker = Build(r, c, s).docker /\ secret.state = Build(r, c, s).state
  BY <1>1 DEF CaseOK, JustWritten
<1>4. PICK b, e : b = Build(r, c, s) /\ e = Build(r, c, None)
  OBVIOUS
<1>5. DescribedBy(b, r, c, s) /\ DescribedBy(e, r, c, None)
  BY <1>2, <1>4, BuildDescribed
<1>6. /\ \A x \in DOMAIN b.state : b.state[x] # Malformed /\ CompleteState(b.state[x])
      /\ \A d \in DOMAIN b.docker : b.docker[d] \notin {Malformed, Unusable}
  BY <1>2, <1>4, BuildSound
<1>7. secret.docker = b.docker /\ secret.state = b.state
  BY <1>3, <1>4
<1>8. secret # None /\ secret.managed /\ ~secret.deleting
  BY DEF CaseOK, JustWritten
<1>9. \A d \in r[k].domains \cap DOMAIN b.docker : k \in DOMAIN b.state
  BY <1>1, <1>5 DEF DescribedBy
<1>10. ~CopyInvalid(secret, k, r[k])
  BY <1>5, <1>6, <1>7, <1>9 DEF CopyInvalid, DescribedBy
<1>11. RegistryStatus(secret, k, r[k], e, now)
         = IF r[k].domains \cap DOMAIN b.docker = {} THEN "pending"
           ELSE IF b.state[k].expiresAt <= now THEN "expired"
           ELSE IF CopyMatches(secret, k, r[k], e) THEN "synced"
           ELSE "pending"
  BY <1>7, <1>8, <1>10 DEF RegistryStatus
<1>12. ASSUME k \in FreshKeys(r, c)
       PROVE  /\ r[k].domains \cap DOMAIN b.docker # {}
              /\ b.state[k].expiresAt = 4
              /\ CopyMatches(secret, k, r[k], e)
  <2>1. Served(r, c, s, k) = r[k].domains /\ Served(r, c, None, k) = r[k].domains
    BY <1>12 DEF Served
  <2>2. r[k].domains # {}
    BY <1>1, <1>2 DEF DomainsApart
  <2>3. r[k].domains \cap DOMAIN b.docker = r[k].domains
    BY <1>1, <1>5, <2>1 DEF DescribedBy
  <2>4. r[k].domains \cap DOMAIN e.docker = r[k].domains
    BY <1>1, <1>5, <2>1 DEF DescribedBy
  <2>5. \A d \in r[k].domains : b.docker[d] = c[k].credential.token
    BY <1>1, <1>5, <1>12, <2>1 DEF DescribedBy
  <2>6. \A d \in r[k].domains : e.docker[d] = c[k].credential.token
    BY <1>1, <1>5, <1>12, <2>1 DEF DescribedBy
  <2>7. k \in DOMAIN b.state /\ b.state[k] = RegistryState(k, r[k], c[k].credential)
    BY <1>1, <1>5, <1>12, <2>1, <2>2 DEF DescribedBy
  <2>8. k \in DOMAIN e.state /\ e.state[k] = RegistryState(k, r[k], c[k].credential)
    BY <1>1, <1>5, <1>12, <2>1, <2>2 DEF DescribedBy
  <2>9. CopyMatches(secret, k, r[k], e)
    BY <1>7, <2>3, <2>4, <2>5, <2>6, <2>7, <2>8 DEF CopyMatches
  <2>10. c[k].credential = NewCredential(k)
    BY <1>1, <1>12 DEF FreshKeys, CaseOK
  <2>11. b.state[k].expiresAt = 4
    BY <2>7, <2>10 DEF RegistryState, NewCredential
  <2> QED
    BY <2>2, <2>3, <2>9, <2>11
<1> QED
  BY <1>1, <1>4, <1>11, <1>12 DEF Expected

\* One write cures all damage: the reconciliation after it finds no problem and no
\* difference, and an inspection calls no registry invalid.
THEOREM HealedCorrect == MarkersApart => (Spec => []Healed)
<1> SUFFICES ASSUME MarkersApart PROVE Spec => []Healed
  OBVIOUS
<1>1. ASSUME CaseOK PROVE Healed
  <2> SUFFICES ASSUME written PROVE Healed
    BY DEF Healed
  <2>1. JustWritten
    BY <1>1 DEF CaseOK
  <2>2. DomainsApart(registries) /\ CredentialsOK(credentials)
    BY <1>1, NewCredentials DEF CaseOK
  <2>3. PICK s : /\ secret.docker = Build(registries, credentials, s).docker
                 /\ secret.state = Build(registries, credentials, s).state
    BY <2>1 DEF JustWritten
  <2>4. Content.docker = secret.docker /\ Content.state = secret.state /\ ~Content.problem
    BY <2>1, <2>2, <2>3, RebuildFindsNothing DEF Content, JustWritten
  <2>5. SecretMatches(secret, Content)
    <3>1. PICK p, q : p = secret.docker /\ q = secret.state
      OBVIOUS
    <3>2. secret = [managed |-> TRUE, deleting |-> FALSE, extra |-> FALSE,
                    docker |-> p, state |-> q]
      BY <2>1, <3>1 DEF JustWritten, IsSecret
    <3>3. ApplyContent(secret, Content)
            = [secret EXCEPT !.managed = TRUE, !.extra = FALSE, !.docker = p, !.state = q]
      BY <2>4, <3>1 DEF ApplyContent
    <3> QED
      BY <3>2, <3>3 DEF SecretMatches
  <2> QED
    BY <1>1, <2>4, <2>5, WrittenStatus DEF Healed
<1> QED
  BY <1>1, CasesCorrect, PTL

\* Every case of the run satisfies what the theorems about the parser and the builder
\* take of a state, so that they hold throughout it.
THEOREM RunCorrect ==
    MarkersApart => (Spec => [](AcceptedIsFaithful /\ OrderIrrelevant
                                    /\ Isolation /\ SyncedIsCurrent))
<1> SUFFICES ASSUME MarkersApart
             PROVE  Spec => [](AcceptedIsFaithful /\ OrderIrrelevant
                                   /\ Isolation /\ SyncedIsCurrent)
  OBVIOUS
<1>1. CaseOK => AcceptedIsFaithful /\ OrderIrrelevant /\ Isolation /\ SyncedIsCurrent
  <2> SUFFICES ASSUME CaseOK
               PROVE  AcceptedIsFaithful /\ OrderIrrelevant /\ Isolation /\ SyncedIsCurrent
    OBVIOUS
  <2>1. ASSUME data = None PROVE AcceptedIsFaithful /\ OrderIrrelevant
    BY <2>1 DEF AcceptedIsFaithful, OrderIrrelevant
  <2>2. ASSUME DataOK PROVE AcceptedIsFaithful /\ OrderIrrelevant
    BY <2>2, AcceptedIsFaithfulCorrect, OrderIrrelevantCorrect DEF DataOK
  <2>3. AcceptedIsFaithful /\ OrderIrrelevant
    BY <2>1, <2>2 DEF CaseOK
  <2>4. Isolation /\ SyncedIsCurrent
    BY IsolationCorrect, SyncedIsCurrentCorrect DEF CaseOK
  <2> QED
    BY <2>3, <2>4
<1> QED
  BY <1>1, CasesCorrect, PTL
=============================================================================
