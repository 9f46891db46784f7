----------------------- MODULE ServiceAccountSyncProofs -----------------------
(***************************************************************************)
(* The ServiceAccount controller for any accounts, lists of references,    *)
(* selections and bounds: what reconcileReferences makes of a list, that   *)
(* the references of others and the wanted one are kept, that no back-off  *)
(* leaks, and that the controller only comes to rest when every account is *)
(* right.                                                                  *)
(***************************************************************************)
EXTENDS ServiceAccountSync, WellFoundedInduction, TLAPS

-----------------------------------------------------------------------------
(* Induction.  The least element of a set of numbers comes from the         *)
(* well-foundedness of <, and induction up to n follows from it.            *)

LEMMA Least ==
    ASSUME NEW T, T \subseteq Nat, T # {}
    PROVE  \E n \in T : \A m \in T : n <= m
<1> DEFINE R == {p \in Nat \X Nat : p[1] < p[2]}
<1>1. IsWellFoundedOn(R, Nat)
  BY NatLessThanWellFounded DEF OpToRel
<1>2. PICK n \in T : \A m \in T : <<m, n>> \notin R
  <2> HIDE DEF R
  <2> QED
    BY <1>1, WFMin
<1>3. \A m \in T : ~(m < n)
  BY <1>2
<1> QED
  BY <1>3

\* What Append does to a list.
LEMMA AppendFacts ==
    ASSUME NEW S, NEW p \in Seq(S), NEW x \in S
    PROVE  /\ Append(p, x) \in Seq(S) /\ Len(Append(p, x)) = Len(p) + 1
           /\ Len(p) \in Nat
           /\ \A a \in 1..Len(p) : Append(p, x)[a] = p[a]
           /\ Append(p, x)[Len(p) + 1] = x
           /\ DOMAIN Append(p, x) = 1..(Len(p) + 1) /\ DOMAIN p = 1..Len(p)
<1>1. Append(p, x) \in Seq(S) /\ Len(Append(p, x)) = Len(p) + 1
  OBVIOUS
<1>2. Len(p) \in Nat /\ DOMAIN p = 1..Len(p)
  OBVIOUS
<1>3. \A a \in 1..Len(p) : Append(p, x)[a] = p[a]
  OBVIOUS
<1>4. Append(p, x)[Len(p) + 1] = x
  OBVIOUS
<1>5. DOMAIN Append(p, x) = 1..Len(Append(p, x))
  BY <1>1
<1> QED
  BY <1>1, <1>2, <1>3, <1>4, <1>5

LEMMA UpTo ==
    ASSUME NEW n \in Nat, NEW T, 0 \in T,
           \A i \in 1..n : i - 1 \in T => i \in T
    PROVE  0..n \subseteq T
<1> SUFFICES ASSUME 0..n \ T # {} PROVE FALSE
  OBVIOUS
<1>1. PICK i \in 0..n \ T : \A j \in 0..n \ T : i <= j
  <2>1. 0..n \ T \subseteq Nat
    OBVIOUS
  <2> QED
    BY <2>1, Least
<1>2. i \in 1..n /\ i - 1 \in 0..n /\ i - 1 \notin 0..n \ T
  BY <1>1
<1> QED
  BY <1>1, <1>2

-----------------------------------------------------------------------------
(* One pass over a list: reconcileReferences with the wish for a reference, *)
(* and without it the list of the others.                                   *)

PassStep(current, reference, p, i) ==
    IF current[i] # Managed THEN Append(p, current[i])
    ELSE IF reference /\ Managed \notin Range(p) THEN Append(p, Managed)
    ELSE p

\* f is the pass over the first n entries.
IsPass(f, current, reference, n) ==
    f = [i \in 0..n |-> IF i = 0 THEN <<>>
                        ELSE PassStep(current, reference, f[i - 1], i)]

Pass(current, reference) == CHOOSE f : IsPass(f, current, reference, Len(current))

\* The recursion defines a function.
LEMMA PassExists ==
    ASSUME NEW S, Managed \in S, NEW current \in Seq(S), NEW reference
    PROVE  IsPass(Pass(current, reference), current, reference, Len(current))
<1> DEFINE T == {n \in 0..Len(current) : \E f : IsPass(f, current, reference, n)}
<1>1. 0 \in T
  <2>1. IsPass([i \in 0..0 |-> <<>>], current, reference, 0)
    BY DEF IsPass
  <2>2. 0 \in 0..Len(current)
    OBVIOUS
  <2> QED
    BY <2>1, <2>2
<1>2. ASSUME NEW n \in 1..Len(current), n - 1 \in T PROVE n \in T
  <2>1. PICK f : IsPass(f, current, reference, n - 1)
    BY <1>2
  <2> DEFINE g == [i \in 0..n |-> IF i = n THEN PassStep(current, reference, f[n - 1], n)
                                   ELSE f[i]]
  <2>2. \A i \in 0..(n - 1) : f[i] = IF i = 0 THEN <<>>
                                     ELSE PassStep(current, reference, f[i - 1], i)
    BY <2>1 DEF IsPass
  <2>3. \A i \in 0..(n - 1) : g[i] = f[i]
    OBVIOUS
  <2>4. g[n] = PassStep(current, reference, f[n - 1], n)
    OBVIOUS
  <2>5. DOMAIN g = 0..n /\ g = [i \in 0..n |-> g[i]]
    OBVIOUS
  <2> HIDE DEF g
  <2>6. ASSUME NEW i \in 0..n
        PROVE  g[i] = IF i = 0 THEN <<>> ELSE PassStep(current, reference, g[i - 1], i)
    <3>1. CASE i = n
      BY <2>3, <2>4, <3>1
    <3>2. CASE i # n
      <4>1. i \in 0..(n - 1) /\ (i # 0 => i - 1 \in 0..(n - 1))
        BY <3>2
      <4> QED
        BY <2>2, <2>3, <4>1
    <3> QED
      BY <3>1, <3>2
  <2>7. IsPass(g, current, reference, n)
    BY <2>5, <2>6 DEF IsPass
  <2> QED
    BY <2>7
<1>3. Len(current) \in T
  <2>1. 0..Len(current) \subseteq T
    <3>1. Len(current) \in Nat
      OBVIOUS
    <3> HIDE DEF T
    <3> QED
      BY <1>1, <1>2, <3>1, UpTo
  <2>2. Len(current) \in 0..Len(current)
    OBVIOUS
  <2> QED
    BY <2>1, <2>2
<1> QED
  BY <1>3 DEF Pass

\* The recursion, entry by entry.
LEMMA PassEntries ==
    ASSUME NEW S, Managed \in S, NEW current \in Seq(S), NEW reference
    PROVE  /\ Pass(current, reference)[0] = <<>>
           /\ \A i \in 1..Len(current) :
                 Pass(current, reference)[i]
                   = PassStep(current, reference, Pass(current, reference)[i - 1], i)
<1>1. \A i \in 0..Len(current) :
        Pass(current, reference)[i] = IF i = 0 THEN <<>>
                   ELSE PassStep(current, reference, Pass(current, reference)[i - 1], i)
  BY PassExists DEF IsPass
<1> QED
  BY <1>1

LEMMA ReconcileIsPass ==
    ASSUME NEW S, Managed \in S, NEW current \in Seq(S), NEW reference
    PROVE  ReconcileReferences(current, reference)
             = LET result == Pass(current, reference)[Len(current)] IN
               IF reference /\ Managed \notin Range(result) THEN Append(result, Managed)
               ELSE result
BY DEF ReconcileReferences, Pass, IsPass, PassStep

LEMMA OthersIsPass ==
    ASSUME NEW S, Managed \in S, NEW current \in Seq(S)
    PROVE  Others(current) = Pass(current, FALSE)[Len(current)]
<1>1. ASSUME NEW f
      PROVE  IsPass(f, current, FALSE, Len(current))
               <=> f = [i \in 0..Len(current) |->
                          IF i = 0 THEN <<>>
                          ELSE IF current[i] # Managed THEN Append(f[i - 1], current[i])
                          ELSE f[i - 1]]
  BY DEF IsPass, PassStep
<1> QED
  BY DEF Others, Pass, IsPass, PassStep

-----------------------------------------------------------------------------
\* What the pass collects: strings, the fixed name at most once, and only if it is
\* wanted.
LEMMA PassContent ==
    ASSUME NEW S, Managed \in S, NEW current \in Seq(S), NEW reference, NEW i \in 0..Len(current)
    PROVE  LET p == Pass(current, reference)[i] IN
           /\ p \in Seq(S)
           /\ ~reference => Managed \notin Range(p)
           /\ \A a, b \in 1..Len(p) : p[a] = Managed /\ p[b] = Managed => a = b
<1> DEFINE f == Pass(current, reference)
           Fine(p) == /\ p \in Seq(S)
                      /\ ~reference => Managed \notin Range(p)
                      /\ \A a, b \in 1..Len(p) : p[a] = Managed /\ p[b] = Managed => a = b
           T == {j \in 0..Len(current) : Fine(f[j])}
<1>1. 0 \in T
  <2>1. f[0] = <<>>
    BY PassEntries
  <2>2. Fine(<<>>)
    BY DEF Range
  <2>3. 0 \in 0..Len(current)
    OBVIOUS
  <2> HIDE DEF f, Fine
  <2> QED
    BY <2>1, <2>2, <2>3
<1>2. ASSUME NEW j \in 1..Len(current), j - 1 \in T PROVE j \in T
  <2>1. PICK p : p = f[j - 1]
    OBVIOUS
  <2>2. f[j] = PassStep(current, reference, p, j)
    BY <2>1, PassEntries
  <2>3. Fine(p)
    BY <1>2, <2>1
  <2>4. current[j] \in S
    OBVIOUS
  <2>5. ASSUME NEW x \in S, x = Managed => reference /\ Managed \notin Range(p)
        PROVE  Fine(Append(p, x))
    <3>1. /\ Append(p, x) \in Seq(S) /\ Len(Append(p, x)) = Len(p) + 1
          /\ Len(p) \in Nat
          /\ \A a \in 1..Len(p) : Append(p, x)[a] = p[a]
          /\ Append(p, x)[Len(p) + 1] = x
          /\ DOMAIN Append(p, x) = 1..(Len(p) + 1) /\ DOMAIN p = 1..Len(p)
      BY <2>3, AppendFacts
    <3>2. \A a \in 1..(Len(p) + 1) : a \in 1..Len(p) \/ a = Len(p) + 1
      BY <3>1
    <3> QED
      BY <2>3, <2>5, <3>1, <3>2 DEF Range
  <2>6. Fine(f[j])
    <3> HIDE DEF f, Fine
    <3> QED
      BY <2>2, <2>3, <2>4, <2>5 DEF PassStep
  <2> HIDE DEF f, Fine
  <2> QED
    BY <2>6
<1>3. i \in T
  <2>1. Len(current) \in Nat
    OBVIOUS
  <2> HIDE DEF T
  <2> QED
    BY <1>1, <1>2, <2>1, UpTo
<1> QED
  BY <1>3

\* The others of a list that grows at its end.
LEMMA OthersAppend ==
    ASSUME NEW S, Managed \in S, NEW list \in Seq(S), NEW x \in S
    PROVE  Others(Append(list, x))
             = IF x # Managed THEN Append(Others(list), x) ELSE Others(list)
<1> DEFINE more == Append(list, x)
           f == Pass(list, FALSE)
           g == Pass(more, FALSE)
           T == {i \in 0..Len(list) : f[i] = g[i]}
<1>0. /\ more \in Seq(S) /\ Len(list) \in Nat /\ Len(more) = Len(list) + 1
      /\ more[Len(list) + 1] = x /\ \A i \in 1..Len(list) : more[i] = list[i]
  BY AppendFacts
<1> HIDE DEF more
<1>1. f[0] = <<>> /\ \A i \in 1..Len(list) : f[i] = PassStep(list, FALSE, f[i - 1], i)
  BY PassEntries
<1>2. g[0] = <<>> /\ \A i \in 1..Len(more) : g[i] = PassStep(more, FALSE, g[i - 1], i)
  BY <1>0, PassEntries
<1> HIDE DEF f, g
<1>3. 0 \in T
  BY <1>0, <1>1, <1>2
<1>4. ASSUME NEW i \in 1..Len(list), i - 1 \in T PROVE i \in T
  <2>1. i \in 1..Len(more) /\ more[i] = list[i] /\ f[i - 1] = g[i - 1]
    BY <1>0, <1>4
  <2>2. f[i] = g[i]
    BY <1>1, <1>2, <2>1 DEF PassStep
  <2> QED
    BY <2>2
<1>5. f[Len(list)] = g[Len(list)]
  <2>1. 0..Len(list) \subseteq T
    <3> HIDE DEF T
    <3> QED
      BY <1>0, <1>3, <1>4, UpTo
  <2> QED
    BY <1>0, <2>1
<1>6. g[Len(more)] = IF x # Managed THEN Append(g[Len(list)], x) ELSE g[Len(list)]
  <2>1. PICK n : n = Len(more)
    OBVIOUS
  <2>2. n \in 1..Len(more) /\ n - 1 = Len(list) /\ more[n] = x
    BY <1>0, <2>1
  <2>3. g[n] = PassStep(more, FALSE, g[n - 1], n)
    BY <1>2, <2>2
  <2> QED
    BY <2>1, <2>2, <2>3 DEF PassStep
<1>7. Others(list) = f[Len(list)] /\ Others(more) = g[Len(more)]
  BY <1>0, OthersIsPass DEF f, g
<1> QED
  BY <1>5, <1>6, <1>7 DEF more

\* The pass leaves the others alone.
LEMMA PassKeepsOthers ==
    ASSUME NEW S, Managed \in S, NEW current \in Seq(S), NEW reference
    PROVE  Others(Pass(current, reference)[Len(current)]) = Others(current)
<1> DEFINE f == Pass(current, reference)
           g == Pass(current, FALSE)
           T == {i \in 0..Len(current) : Others(f[i]) = g[i]}
<1>1. f[0] = <<>> /\ \A i \in 1..Len(current) : f[i] = PassStep(current, reference, f[i - 1], i)
  BY PassEntries
<1>2. g[0] = <<>> /\ \A i \in 1..Len(current) : g[i] = PassStep(current, FALSE, g[i - 1], i)
  BY PassEntries
<1>3. \A i \in 0..Len(current) : f[i] \in Seq(S)
  BY PassContent
<1> HIDE DEF f, g
<1>4. 0 \in T
  <2>1. Others(<<>>) = <<>>
    <3>1. <<>> \in Seq(S) /\ Len(<<>>) = 0
      OBVIOUS
    <3> QED
      BY <3>1, OthersIsPass, PassEntries
  <2>2. 0 \in 0..Len(current)
    OBVIOUS
  <2> QED
    BY <1>1, <1>2, <2>1, <2>2
<1>5. ASSUME NEW i \in 1..Len(current), i - 1 \in T PROVE i \in T
  <2>1. f[i - 1] \in Seq(S) /\ Others(f[i - 1]) = g[i - 1] /\ current[i] \in S
    BY <1>3, <1>5
  <2>3. \A x \in S : Others(Append(f[i - 1], x))
                            = IF x # Managed THEN Append(g[i - 1], x) ELSE g[i - 1]
    BY <2>1, OthersAppend
  <2>4. Others(f[i]) = g[i]
    BY <1>1, <1>2, <2>1, <2>3 DEF PassStep
  <2> QED
    BY <2>4
<1>6. Others(f[Len(current)]) = g[Len(current)]
  <2>1. 0..Len(current) \subseteq T
    <3>1. Len(current) \in Nat
      OBVIOUS
    <3> HIDE DEF T
    <3> QED
      BY <1>4, <1>5, <3>1, UpTo
  <2>2. Len(current) \in 0..Len(current)
    OBVIOUS
  <2> QED
    BY <2>1, <2>2
<1> QED
  BY <1>6, OthersIsPass DEF f, g

\* reconcileReferences, for every list: the others stay as they are in their order,
\* and the fixed name is there exactly once if it is wanted, and else not at all.
THEOREM ReconcileReferencesCorrect ==
    ASSUME NEW S, Managed \in S, NEW current \in Seq(S), NEW reference \in BOOLEAN
    PROVE  LET desired == ReconcileReferences(current, reference) IN
           /\ desired \in Seq(S)
           /\ Others(desired) = Others(current)
           /\ IF reference THEN \E i \in 1..Len(desired) :
                                   {j \in 1..Len(desired) : desired[j] = Managed} = {i}
              ELSE \A i \in 1..Len(desired) : desired[i] # Managed
<1>1. PICK p : p = Pass(current, reference)[Len(current)]
  OBVIOUS
<1>2. Len(current) \in 0..Len(current)
  OBVIOUS
<1>3. /\ p \in Seq(S)
      /\ ~reference => Managed \notin Range(p)
      /\ \A a, b \in 1..Len(p) : p[a] = Managed /\ p[b] = Managed => a = b
  BY <1>1, <1>2, PassContent
<1>4. Others(p) = Others(current)
  BY <1>1, PassKeepsOthers
<1>5. PICK desired : desired = ReconcileReferences(current, reference)
  OBVIOUS
<1>6. desired = IF reference /\ Managed \notin Range(p) THEN Append(p, Managed) ELSE p
  BY <1>1, <1>5, ReconcileIsPass
<1>7. DOMAIN p = 1..Len(p) /\ Len(p) \in Nat
  BY <1>3
<1>8. CASE reference /\ Managed \notin Range(p)
  <2>1. /\ desired \in Seq(S) /\ Len(desired) = Len(p) + 1
        /\ \A i \in 1..Len(p) : desired[i] = p[i] /\ p[i] # Managed
        /\ desired[Len(p) + 1] = Managed
    BY <1>2, <1>3, <1>6, <1>7, <1>8 DEF Range
  <2>2. {j \in 1..Len(desired) : desired[j] = Managed} = {Len(p) + 1}
    BY <1>7, <2>1
  <2>3. Others(desired) = Others(current)
    BY <1>2, <1>3, <1>4, <1>6, <1>8, OthersAppend
  <2>4. Len(p) + 1 \in 1..Len(desired)
    BY <1>7, <2>1
  <2> QED
    BY <1>5, <1>8, <2>1, <2>2, <2>3, <2>4
<1>9. CASE reference /\ Managed \in Range(p)
  <2>1. PICK i \in 1..Len(p) : p[i] = Managed
    BY <1>7, <1>9 DEF Range
  <2>2. {j \in 1..Len(p) : p[j] = Managed} = {i}
    BY <1>3, <2>1
  <2>3. desired = p
    BY <1>6, <1>9
  <2> QED
    BY <1>3, <1>4, <1>5, <1>9, <2>2, <2>3
<1>10. CASE ~reference
  BY <1>3, <1>4, <1>5, <1>6, <1>7, <1>10 DEF Range
<1> QED
  BY <1>8, <1>9, <1>10

-----------------------------------------------------------------------------
(* The steps, seen from one account.                                        *)

Listing == Seq(STRING)

\* The variables that have an entry per account.
DomainsOK ==
    /\ DOMAIN accounts = ServiceAccounts /\ DOMAIN cached = ServiceAccounts
    /\ DOMAIN accountWatch = ServiceAccounts /\ DOMAIN failures = ServiceAccounts
    /\ DOMAIN pc = ServiceAccounts /\ DOMAIN snap = ServiceAccounts
    /\ DOMAIN observed = ServiceAccounts /\ DOMAIN want = ServiceAccounts
    /\ revision \in Nat

\* What the step of somebody else leaves alone.
Untouched(s) ==
    /\ UNCHANGED <<configVars, fanout, secretVars, accounts[s], cached[s], accountWatch[s],
                   failures[s], pc[s], snap[s], observed[s], want[s]>>
    /\ s \in queue' <=> s \in queue
    /\ s \in waiting' <=> s \in waiting
    /\ revision' \in Nat /\ revision' >= revision

\* A step in which account s itself takes part.
OwnStep(s) ==
    \/ Begin(s) \/ GetAccount(s) \/ GetSecret(s) \/ Patch(s)
    \/ CallFails(s) \/ PatchAnswerLost(s)
    \/ WaitEnds(s) \/ AccountEvent(s) \/ UserDeletesAccount(s)
    \/ \E refs \in ReferenceLists : UserWritesAccount(s, refs)

\* A step of the surroundings, which concerns all accounts.
CommonStep ==
    \/ \E kind \in SecretKinds : SecretChanges(kind)
    \/ \E n \in 1..Len(secretWatch), fails \in BOOLEAN : SecretEvent(n, fails)
    \/ \E selection \in Selections : EditConfigMap(selection)
    \/ LoadConfiguration \/ Publish

LEMMA DomainsInit == Init => DomainsOK
BY DEF Init, DomainsOK, Const

LEMMA DomainsStep ==
    ASSUME DomainsOK, [Next]_vars
    PROVE  DomainsOK'
<1>1. ASSUME NEW s \in ServiceAccounts, OwnStep(s) PROVE DomainsOK'
  <2>1. CASE Begin(s) \/ WaitEnds(s) \/ AccountEvent(s) \/ UserDeletesAccount(s)
    BY <2>1 DEF Begin, WaitEnds, AccountEvent, UserDeletesAccount, Goto, DomainsOK,
       localVars, serverVars
  <2>2. CASE GetAccount(s) \/ GetSecret(s) \/ CallFails(s)
    BY <2>2 DEF GetAccount, GetSecret, CallFails, Goto, Succeed, Fail, NotReady, Return,
       DomainsOK, localVars, serverVars
  <2>3. CASE Patch(s) \/ PatchAnswerLost(s)
    BY <2>3 DEF Patch, PatchAnswerLost, Succeed, Fail, Return, PutAccount, DomainsOK,
       localVars, serverVars
  <2>4. CASE \E refs \in ReferenceLists : UserWritesAccount(s, refs)
    BY <2>4 DEF UserWritesAccount, PutAccount, DomainsOK, localVars, serverVars
  <2> QED
    BY <1>1, <2>1, <2>2, <2>3, <2>4 DEF OwnStep
<1>2. CASE CommonStep \/ UNCHANGED vars
  BY <1>2 DEF CommonStep, SecretChanges, SecretEvent, EditConfigMap, LoadConfiguration,
     Publish, vars, DomainsOK, localVars, serverVars
<1>3. CASE Restart
  BY <1>3 DEF Restart, Const, DomainsOK
<1> QED
  BY <1>1, <1>2, <1>3 DEF Next, SyncStep, OwnStep, CommonStep

LEMMA OthersUntouched ==
    ASSUME DomainsOK, NEW s \in ServiceAccounts, NEW t \in ServiceAccounts, t # s,
           OwnStep(t)
    PROVE  Untouched(s)
<1> USE DEF DomainsOK, localVars, serverVars, Untouched
<1>1. CASE Begin(t) \/ WaitEnds(t) \/ AccountEvent(t) \/ UserDeletesAccount(t)
  BY <1>1 DEF Begin, WaitEnds, AccountEvent, UserDeletesAccount, Goto
<1>2. CASE GetAccount(t) \/ GetSecret(t) \/ CallFails(t)
  BY <1>2 DEF GetAccount, GetSecret, CallFails, Goto, Succeed, Fail, NotReady, Return
<1>3. CASE Patch(t) \/ PatchAnswerLost(t)
  BY <1>3 DEF Patch, PatchAnswerLost, Succeed, Fail, Return, PutAccount
<1>4. CASE \E refs \in ReferenceLists : UserWritesAccount(t, refs)
  BY <1>4 DEF UserWritesAccount, PutAccount
<1> QED
  BY <1>1, <1>2, <1>3, <1>4 DEF OwnStep

\* Every step is one of these four for a given account.
LEMMA StepCases ==
    ASSUME DomainsOK, [Next]_vars, NEW s \in ServiceAccounts
    PROVE  Untouched(s) \/ OwnStep(s) \/ CommonStep \/ Restart
<1>1. CASE UNCHANGED vars
  BY <1>1 DEF vars, configVars, secretVars, localVars, serverVars, Untouched, DomainsOK
<1>2. CASE \E t \in ServiceAccounts : OwnStep(t)
  BY <1>2, OthersUntouched
<1> QED
  BY <1>1, <1>2 DEF Next, SyncStep, OwnStep, CommonStep

-----------------------------------------------------------------------------
(* No back-off outlives its cause.                                          *)

BackoffOK(s) ==
    /\ failures[s] \in Nat
    /\ \E T : accountWatch[s] \in Seq(T)
    /\ failures[s] > 0 => s \in waiting \cup queue \/ pc[s] # "idle" \/ accountWatch[s] # <<>>

LEMMA BackoffStep ==
    ASSUME DomainsOK, [Next]_vars, NEW s \in ServiceAccounts, BackoffOK(s)
    PROVE  BackoffOK(s)'
<1> USE DEF DomainsOK, localVars, serverVars
<1>0. PICK T : accountWatch[s] \in Seq(T)
  BY DEF BackoffOK
<1>1. CASE Untouched(s)
  BY <1>1 DEF Untouched, BackoffOK
<1>2. CASE Begin(s) \/ WaitEnds(s)
  BY <1>2 DEF Begin, WaitEnds, Goto, BackoffOK
<1>3. CASE GetAccount(s)
  <2>1. CASE cached[s] = None
    <3>1. UNCHANGED accountWatch /\ failures'[s] = 0
      BY <1>3, <2>1 DEF GetAccount, Succeed
    <3> QED
      BY <3>1 DEF BackoffOK
  <2>2. CASE cached[s] # None
    <3>1. UNCHANGED <<accountWatch, failures>> /\ pc'[s] \in {"secret", "patch"}
      BY <1>3, <2>2 DEF GetAccount, Goto
    <3> QED
      BY <3>1 DEF BackoffOK
  <2> QED
    BY <2>1, <2>2
<1>4. CASE GetSecret(s)
  <2>1. /\ UNCHANGED accountWatch
        /\ failures'[s] \in {failures[s], failures[s] + 1}
        /\ s \in waiting' \/ pc'[s] # "idle"
    BY <1>4 DEF GetSecret, NotReady, Return, Goto
  <2> QED
    BY <2>1 DEF BackoffOK
<1>5. CASE Patch(s) \/ CallFails(s) \/ PatchAnswerLost(s)
  <2>1. \/ UNCHANGED accountWatch
        \/ \E v : accountWatch' = [accountWatch EXCEPT ![s] = Append(@, v)]
    BY <1>5 DEF Patch, CallFails, PatchAnswerLost, PutAccount
  <2>2. \E U : accountWatch'[s] \in Seq(U)
    <3>1. CASE UNCHANGED accountWatch
      BY <1>0, <3>1
    <3>2. ASSUME NEW v, accountWatch'[s] = Append(accountWatch[s], v)
          PROVE  accountWatch'[s] \in Seq(T \cup {v})
      <4>1. accountWatch[s] \in Seq(T \cup {v})
        BY <1>0
      <4> QED
        BY <3>2, <4>1
    <3> QED
      BY <2>1, <3>1, <3>2
  <2>3. failures'[s] = 0 \/ (failures'[s] = failures[s] /\ s \in queue')
    BY <1>5 DEF Patch, CallFails, PatchAnswerLost, Succeed, Fail, Return
  <2> QED
    BY <2>2, <2>3 DEF BackoffOK
<1>6. CASE AccountEvent(s)
  <2>1. accountWatch'[s] = Tail(accountWatch[s]) /\ accountWatch[s] # <<>>
    BY <1>6 DEF AccountEvent
  <2>2. accountWatch'[s] \in Seq(T)
    BY <1>0, <2>1
  <2> QED
    BY <1>6, <2>2 DEF AccountEvent, BackoffOK
<1>7. CASE UserDeletesAccount(s) \/ \E refs \in ReferenceLists : UserWritesAccount(s, refs)
  <2>1. PICK v : accountWatch'[s] = Append(accountWatch[s], v)
    BY <1>7 DEF UserDeletesAccount, UserWritesAccount, PutAccount
  <2>2. accountWatch[s] \in Seq(T \cup {v})
    BY <1>0
  <2>3. accountWatch'[s] \in Seq(T \cup {v}) /\ accountWatch'[s] # <<>>
    BY <2>1, <2>2
  <2> QED
    BY <1>7, <2>3 DEF UserDeletesAccount, UserWritesAccount, BackoffOK
<1>8. CASE CommonStep
  <2>1. UNCHANGED <<accountWatch, failures, pc, waiting>> /\ queue \subseteq queue'
    BY <1>8 DEF CommonStep, SecretChanges, SecretEvent, EditConfigMap, LoadConfiguration,
       Publish
  <2> QED
    BY <2>1 DEF BackoffOK
<1>9. CASE Restart
  <2>1. failures'[s] = 0 /\ accountWatch'[s] = <<>>
    BY <1>9 DEF Restart, Const
  <2>2. <<>> \in Seq({})
    OBVIOUS
  <2> QED
    BY <2>1, <2>2 DEF BackoffOK
<1> QED
  BY <1>1, <1>2, <1>3, <1>4, <1>5, <1>6, <1>7, <1>8, <1>9, StepCases DEF OwnStep

\* dependencyBackoff never leaks: the count of an account that waited for the Secret
\* is reset, or the account is still waiting, queued or being reconciled, or an event
\* of it is on its way, whatever fails, is deleted or restarted.
THEOREM NoLeakedBackoffCorrect == Spec => []NoLeakedBackoff
<1> DEFINE Inv == DomainsOK /\ \A s \in ServiceAccounts : BackoffOK(s)
<1>1. Init => Inv
  <2>1. <<>> \in Seq({})
    OBVIOUS
  <2> QED
    BY <2>1, DomainsInit DEF Init, Const, BackoffOK
<1>2. Inv /\ [Next]_vars => Inv'
  BY DomainsStep, BackoffStep
<1>3. Inv => NoLeakedBackoff
  BY DEF BackoffOK, NoLeakedBackoff
<1> HIDE DEF Inv
<1> QED
  BY <1>1, <1>2, <1>3, PTL DEF Spec

-----------------------------------------------------------------------------
(* Versions: a resourceVersion identifies what an account was.              *)

\* A version that was read or is on its way is a list the server had, and it is the
\* present account if it has its resourceVersion.
Given(v, s) ==
    v # None => /\ v.refs \in Listing
                /\ v.rv \in Nat /\ v.rv <= revision
                /\ (accounts[s] # None /\ accounts[s].rv = v.rv) => accounts[s] = v

\* The last version under way, or else the cached one, is the account.
AccountOK(s) ==
    /\ Given(accounts[s], s) /\ Given(cached[s], s) /\ Given(observed[s], s)
    /\ \E T : accountWatch[s] \in Seq(T)
    /\ \A i \in 1..Len(accountWatch[s]) : Given(accountWatch[s][i], s)
    /\ IF accountWatch[s] = <<>> THEN cached[s] = accounts[s]
       ELSE accountWatch[s][Len(accountWatch[s])] = accounts[s]

\* What reconcileReferences makes of a list is a list.
LEMMA ReconcileListing ==
    ASSUME NEW current \in Listing, NEW reference \in BOOLEAN
    PROVE  LET desired == ReconcileReferences(current, reference) IN
           /\ desired \in Listing
           /\ Others(desired) = Others(current)
           /\ IF reference THEN \E i \in 1..Len(desired) :
                                   {j \in 1..Len(desired) : desired[j] = Managed} = {i}
              ELSE \A i \in 1..Len(desired) : desired[i] # Managed
<1>1. PICK S : S = STRING
  OBVIOUS
<1>2. Managed \in S
  BY <1>1, AccountsAssumption
<1>3. current \in Seq(S)
  BY <1>1 DEF Listing
<1>4. Listing = Seq(S)
  BY <1>1 DEF Listing
<1> QED
  BY <1>2, <1>3, <1>4, ReconcileReferencesCorrect

\* The account is written or deleted: the server has a new version, or none.
Written(s) ==
    /\ \/ accounts'[s] = None /\ revision' = revision
       \/ /\ revision' = revision + 1
          /\ accounts'[s].refs \in Listing /\ accounts'[s].rv = revision'
    /\ accountWatch'[s] = Append(accountWatch[s], accounts'[s])
    /\ UNCHANGED <<cached, secretVars, configVars>>

LEMMA WrittenKeeps ==
    ASSUME DomainsOK, NEW s \in ServiceAccounts, AccountOK(s), Written(s),
           observed'[s] \in {None, observed[s]}
    PROVE  AccountOK(s)' /\ accountWatch'[s] # <<>>
<1> USE DEF DomainsOK
<1>1. ASSUME NEW v, Given(v, s)
      PROVE  v # None => /\ v.refs \in Listing
                         /\ v.rv \in Nat /\ v.rv <= revision'
                         /\ (accounts'[s] # None /\ accounts'[s].rv = v.rv) => accounts'[s] = v
  BY <1>1 DEF Given, Written
<1>2. Given(accounts[s], s)'
  BY DEF Written, Given
<1>3. Given(cached[s], s)' /\ Given(observed[s], s)'
  BY <1>1 DEF AccountOK, Given, Written
<1>4. PICK T : accountWatch[s] \in Seq(T)
  BY DEF AccountOK
<1>5. PICK w : w = accounts'[s]
  OBVIOUS
<1>6. accountWatch[s] \in Seq(T \cup {w})
  BY <1>4
<1>7. /\ accountWatch'[s] \in Seq(T \cup {w}) /\ accountWatch'[s] # <<>>
      /\ Len(accountWatch[s]) \in Nat /\ Len(accountWatch'[s]) = Len(accountWatch[s]) + 1
      /\ accountWatch'[s][Len(accountWatch[s]) + 1] = w
      /\ \A i \in 1..Len(accountWatch[s]) : accountWatch'[s][i] = accountWatch[s][i]
  BY <1>5, <1>6 DEF Written
<1>8. ASSUME NEW i \in 1..Len(accountWatch'[s]) PROVE Given(accountWatch[s][i], s)'
  <2>1. CASE i = Len(accountWatch[s]) + 1
    BY <1>2, <1>5, <1>7, <2>1 DEF Given
  <2>2. CASE i # Len(accountWatch[s]) + 1
    <3>1. i \in 1..Len(accountWatch[s]) /\ accountWatch'[s][i] = accountWatch[s][i]
      BY <1>7, <2>2
    <3>2. Given(accountWatch[s][i], s)
      BY <3>1 DEF AccountOK
    <3> QED
      BY <1>1, <3>1, <3>2 DEF Given
  <2> QED
    BY <2>1, <2>2
<1> QED
  BY <1>2, <1>3, <1>5, <1>7, <1>8 DEF AccountOK

LEMMA KeptKeeps ==
    ASSUME DomainsOK, NEW s \in ServiceAccounts, AccountOK(s),
           UNCHANGED <<accounts[s], cached[s], accountWatch[s]>>,
           revision' \in Nat, revision' >= revision,
           observed'[s] \in {None, observed[s], cached[s]}
    PROVE  AccountOK(s)'
<1> USE DEF DomainsOK
<1>1. ASSUME NEW v, Given(v, s)
      PROVE  v # None => /\ v.refs \in Listing
                         /\ v.rv \in Nat /\ v.rv <= revision'
                         /\ (accounts'[s] # None /\ accounts'[s].rv = v.rv) => accounts'[s] = v
  BY <1>1 DEF Given
<1>2. Given(accounts[s], s)' /\ Given(cached[s], s)' /\ Given(observed[s], s)'
  BY <1>1 DEF AccountOK, Given
<1>3. \A i \in 1..Len(accountWatch'[s]) : Given(accountWatch[s][i], s)'
  BY <1>1 DEF AccountOK, Given
<1> QED
  BY <1>2, <1>3 DEF AccountOK

LEMMA AccountInit ==
    ASSUME Init, NEW s \in ServiceAccounts
    PROVE  AccountOK(s)
<1>1. PICK refs \in ReferenceLists : accounts = Const([refs |-> refs, rv |-> 0])
  BY DEF Init
<1>2. refs \in Listing
  BY AccountsAssumption DEF Listing
<1>3. /\ accounts[s] = [refs |-> refs, rv |-> 0] /\ cached[s] = accounts[s]
      /\ observed[s] = None /\ accountWatch[s] = <<>> /\ revision = 0
  BY <1>1 DEF Init, Const
<1>4. accountWatch[s] \in Seq({}) /\ Len(accountWatch[s]) = 0
  BY <1>3
<1> QED
  BY <1>2, <1>3, <1>4 DEF AccountOK, Given

\* Who writes the account.
LEMMA WriteCases ==
    ASSUME DomainsOK, NEW s \in ServiceAccounts, AccountOK(s), want[s] \in BOOLEAN,
           pc[s] = "patch" => observed[s] # None,
           \/ Patch(s) \/ CallFails(s) \/ PatchAnswerLost(s) \/ UserDeletesAccount(s)
           \/ \E refs \in ReferenceLists : UserWritesAccount(s, refs)
    PROVE  /\ observed'[s] \in {None, observed[s]}
           /\ \/ Written(s)
              \/ UNCHANGED <<serverVars, cached>>
<1> USE DEF DomainsOK
<1>1. CASE CallFails(s)
  BY <1>1 DEF CallFails, Fail, Return
<1>2. CASE UserDeletesAccount(s)
  BY <1>2 DEF UserDeletesAccount, Written, localVars
<1>3. ASSUME NEW refs \in ReferenceLists, UserWritesAccount(s, refs)
      PROVE  Written(s) /\ observed'[s] = observed[s]
  <2>1. refs \in Listing
    BY AccountsAssumption DEF Listing
  <2> QED
    BY <1>3, <2>1 DEF UserWritesAccount, PutAccount, Written, localVars
<1>4. CASE Patch(s) \/ PatchAnswerLost(s)
  <2>1. observed'[s] = None /\ pc[s] = "patch" /\ UNCHANGED <<cached, configVars, secretVars>>
    BY <1>4 DEF Patch, PatchAnswerLost, Succeed, Fail, Return
  <2>2. PICK desired : desired = ReconcileReferences(observed[s].refs, want[s])
    OBVIOUS
  <2>3. UNCHANGED serverVars \/ PutAccount(s, desired)
    BY <1>4, <2>2 DEF Patch, PatchAnswerLost
  <2>4. desired \in Listing
    BY <2>1, <2>2, ReconcileListing DEF AccountOK, Given
  <2> QED
    BY <2>1, <2>3, <2>4 DEF PutAccount, Written
<1> QED
  BY <1>1, <1>2, <1>3, <1>4

\* The state of one run of SyncServiceAccount.
LocalOK(s) ==
    /\ want[s] \in BOOLEAN
    /\ want[s] => pc[s] = "patch" /\ s \in snap[s]
    /\ pc[s] # "idle" => snap[s] \in Selections
    /\ pc[s] \in {"secret", "patch"} => observed[s] # None
    /\ pc[s] \in {"idle", "account", "secret", "patch"}
    /\ pc[s] = "secret" => s \in snap[s]

ConfigOK == configMap \in Selections /\ snapshot \in Selections \cup {None}

LEMMA AccountStep ==
    ASSUME DomainsOK, [Next]_vars, NEW s \in ServiceAccounts, AccountOK(s), LocalOK(s)
    PROVE  AccountOK(s)'
<1> USE DEF DomainsOK, localVars, serverVars
<1>0. PICK T : accountWatch[s] \in Seq(T)
  BY DEF AccountOK
<1>1. CASE Untouched(s)
  BY <1>1, KeptKeeps DEF Untouched
<1>2. CASE Begin(s) \/ WaitEnds(s) \/ GetAccount(s) \/ GetSecret(s)
  <2>1. UNCHANGED <<accounts, cached, accountWatch, revision>>
        /\ observed'[s] \in {None, observed[s], cached[s]}
    BY <1>2 DEF Begin, WaitEnds, GetAccount, GetSecret, Succeed, NotReady, Return
  <2> QED
    BY <2>1, KeptKeeps
<1>3. CASE \/ Patch(s) \/ CallFails(s) \/ PatchAnswerLost(s) \/ UserDeletesAccount(s)
           \/ \E refs \in ReferenceLists : UserWritesAccount(s, refs)
  <2>1. /\ observed'[s] \in {None, observed[s]}
        /\ Written(s) \/ UNCHANGED <<serverVars, cached>>
    BY <1>3, WriteCases DEF LocalOK
  <2> QED
    BY <2>1, WrittenKeeps, KeptKeeps
<1>4. CASE AccountEvent(s)
  <2>1. /\ accountWatch[s] # <<>> /\ cached'[s] = accountWatch[s][1]
        /\ accountWatch'[s] = Tail(accountWatch[s]) /\ UNCHANGED <<accounts, revision, observed>>
    BY <1>4 DEF AccountEvent
  <2>2. /\ accountWatch'[s] \in Seq(T) /\ Len(accountWatch[s]) \in Nat \ {0}
        /\ Len(accountWatch'[s]) = Len(accountWatch[s]) - 1
        /\ \A i \in 1..Len(accountWatch'[s]) : accountWatch'[s][i] = accountWatch[s][i + 1]
    BY <1>0, <2>1
  <2>3. \A i \in 1..Len(accountWatch[s]) : Given(accountWatch[s][i], s)
    BY DEF AccountOK
  <2>4. Given(accounts[s], s)' /\ Given(observed[s], s)'
    BY <2>1 DEF AccountOK, Given
  <2>5. Given(cached[s], s)'
    <3>1. Given(accountWatch[s][1], s)
      BY <2>2, <2>3
    <3> QED
      BY <2>1, <3>1 DEF Given
  <2>6. ASSUME NEW i \in 1..Len(accountWatch'[s]) PROVE Given(accountWatch[s][i], s)'
    <3>1. i + 1 \in 1..Len(accountWatch[s]) /\ accountWatch'[s][i] = accountWatch[s][i + 1]
      BY <2>2
    <3>2. Given(accountWatch[s][i + 1], s)
      BY <2>3, <3>1
    <3> QED
      BY <2>1, <3>1, <3>2 DEF Given
  <2>7. IF accountWatch'[s] = <<>> THEN cached'[s] = accounts'[s]
        ELSE accountWatch'[s][Len(accountWatch'[s])] = accounts'[s]
    <3>1. CASE Len(accountWatch[s]) = 1
      <4>1. accountWatch'[s] = <<>>
        BY <2>2, <3>1
      <4> QED
        BY <2>1, <2>2, <3>1, <4>1 DEF AccountOK
    <3>2. CASE Len(accountWatch[s]) # 1
      <4>0. PICK m, n : m = Len(accountWatch[s]) /\ n = Len(accountWatch'[s])
        OBVIOUS
      <4>4. m \in Nat \ {0} /\ n = m - 1 /\ m # 1
        BY <2>2, <3>2, <4>0
      <4>5. n \in 1..n /\ n # 0
        BY <4>4
      <4>1. Len(accountWatch'[s]) \in 1..Len(accountWatch'[s]) /\ Len(accountWatch'[s]) # 0
        BY <4>0, <4>5
      <4>3. accountWatch'[s] # <<>>
        BY <4>1
      <4>2. accountWatch'[s][Len(accountWatch'[s])] = accountWatch[s][Len(accountWatch[s])]
        BY <2>2, <4>1
      <4> QED
        BY <2>1, <2>2, <4>2, <4>3 DEF AccountOK
    <3> QED
      BY <3>1, <3>2
  <2> QED
    BY <2>2, <2>4, <2>5, <2>6, <2>7 DEF AccountOK
<1>5. CASE CommonStep
  <2>1. UNCHANGED <<accounts, cached, accountWatch, revision, observed>>
    BY <1>5 DEF CommonStep, SecretChanges, SecretEvent, EditConfigMap, LoadConfiguration,
       Publish
  <2> QED
    BY <2>1, KeptKeeps
<1>6. CASE Restart
  <2>1. /\ accountWatch'[s] = <<>> /\ observed'[s] = None /\ cached' = accounts
        /\ UNCHANGED <<accounts, revision>>
    BY <1>6 DEF Restart, Const
  <2>2. accountWatch'[s] \in Seq({}) /\ Len(accountWatch'[s]) = 0
    BY <2>1
  <2> QED
    BY <2>1, <2>2 DEF AccountOK, Given
<1> QED
  BY <1>1, <1>2, <1>3, <1>4, <1>5, <1>6, StepCases DEF OwnStep

LEMMA LocalStep ==
    ASSUME DomainsOK, ConfigOK, [Next]_vars, NEW s \in ServiceAccounts, LocalOK(s)
    PROVE  LocalOK(s)'
<1> USE DEF DomainsOK, localVars
<1>1. CASE UNCHANGED <<pc[s], snap[s], observed[s], want[s]>>
  BY <1>1 DEF LocalOK
<1>2. CASE Untouched(s) \/ WaitEnds(s) \/ AccountEvent(s) \/ UserDeletesAccount(s)
           \/ \E refs \in ReferenceLists : UserWritesAccount(s, refs)
  BY <1>1, <1>2 DEF Untouched, WaitEnds, AccountEvent, UserDeletesAccount, UserWritesAccount
<1>3. CASE CommonStep
  <2>1. UNCHANGED localVars
    BY <1>3 DEF CommonStep, SecretChanges, SecretEvent, EditConfigMap, LoadConfiguration,
       Publish
  <2> QED
    BY <1>1, <2>1
<1>4. CASE Return(s)
  BY <1>4 DEF Return, LocalOK
<1>5. CASE Restart
  BY <1>5 DEF Restart, Const, LocalOK
<1>6. CASE Patch(s) \/ CallFails(s) \/ PatchAnswerLost(s)
  <2>1. Return(s)
    BY <1>6 DEF Patch, CallFails, PatchAnswerLost, Succeed, Fail
  <2> QED
    BY <1>4, <2>1
<1>7. CASE Begin(s)
  BY <1>7 DEF Begin, Goto, LocalOK, ConfigOK
<1>8. CASE GetAccount(s)
  <2>1. CASE cached[s] = None
    BY <1>4, <1>8, <2>1 DEF GetAccount, Succeed
  <2>2. CASE cached[s] # None
    <3>1. /\ pc[s] = "account" /\ observed'[s] = cached[s] /\ UNCHANGED <<snap, want>>
          /\ pc'[s] = IF s \in snap[s] THEN "secret" ELSE "patch"
      BY <1>8, <2>2 DEF GetAccount, Goto
    <3> QED
      BY <2>2, <3>1 DEF LocalOK
  <2> QED
    BY <2>1, <2>2
<1>9. CASE GetSecret(s)
  <2>1. CASE Return(s)
    BY <1>4, <2>1
  <2>2. CASE ~Return(s)
    <3>1. /\ pc[s] = "secret" /\ pc'[s] = "patch" /\ UNCHANGED <<snap, observed>>
          /\ want'[s] = (secretCache = "usable")
      BY <1>9, <2>2 DEF GetSecret, Goto, NotReady
    <3> QED
      BY <3>1 DEF LocalOK
  <2> QED
    BY <2>1, <2>2
<1> QED
  BY <1>2, <1>3, <1>5, <1>6, <1>7, <1>8, <1>9, StepCases DEF OwnStep

LEMMA ConfigStep ==
    ASSUME ConfigOK, [Next]_vars
    PROVE  ConfigOK'
<1>1. ASSUME NEW s \in ServiceAccounts, OwnStep(s) PROVE ConfigOK'
  <2>1. UNCHANGED configVars
    BY <1>1 DEF OwnStep, Begin, GetAccount, GetSecret, Patch, CallFails, PatchAnswerLost,
       WaitEnds, AccountEvent, UserDeletesAccount, UserWritesAccount
  <2> QED
    BY <2>1 DEF ConfigOK, configVars
<1>2. CASE CommonStep \/ Restart \/ UNCHANGED vars
  BY <1>2 DEF CommonStep, SecretChanges, SecretEvent, EditConfigMap, LoadConfiguration,
     Publish, Restart, vars, configVars, ConfigOK
<1> QED
  BY <1>1, <1>2 DEF Next, SyncStep, OwnStep, CommonStep

-----------------------------------------------------------------------------
(* The references of others, and the wanted one.                            *)

\* An account is a record, None is not.
RecordsApart == \A refs, rv : [refs |-> refs, rv |-> rv] # None

\* The invariant about one account and its run.
SyncOK == DomainsOK /\ ConfigOK /\ \A s \in ServiceAccounts : AccountOK(s) /\ LocalOK(s)

LEMMA SyncInit == Init => SyncOK
<1> SUFFICES ASSUME Init PROVE SyncOK
  OBVIOUS
<1>1. ASSUME NEW s \in ServiceAccounts PROVE LocalOK(s)
  BY DEF Init, Const, LocalOK
<1> QED
  BY <1>1, DomainsInit, AccountInit DEF SyncOK, Init, ConfigOK

LEMMA SyncKept == SyncOK /\ [Next]_vars => SyncOK'
BY DomainsStep, ConfigStep, AccountStep, LocalStep DEF SyncOK

\* In every reachable state, what the cache or a run of SyncServiceAccount holds of an
\* account is a version the server had, and the present one if it has its
\* resourceVersion.
THEOREM SyncCorrect == Spec => []SyncOK
BY SyncInit, SyncKept, PTL DEF Spec

\* A run of SyncServiceAccount that ends either leaves the account alone, or replaces
\* the very version it observed by what reconcileReferences makes of it.
LEMMA RunWrites ==
    ASSUME SyncOK, [Next]_vars, NEW s \in ServiceAccounts, pc[s] # pc'[s]
    PROVE  \/ accounts'[s] = accounts[s]
           \/ /\ pc[s] = "patch" /\ accounts[s] # None
              /\ accounts'[s] = [refs |-> ReconcileReferences(accounts[s].refs, want[s]),
                                 rv |-> revision']
              /\ accounts[s].refs \in Listing /\ want[s] \in BOOLEAN
<1> USE DEF SyncOK, DomainsOK, serverVars
<1>1. CASE Begin(s) \/ GetAccount(s) \/ GetSecret(s) \/ CallFails(s)
  BY <1>1 DEF Begin, GetAccount, GetSecret, CallFails
<1>2. CASE Patch(s) \/ PatchAnswerLost(s)
  <2>1. pc[s] = "patch"
    BY <1>2 DEF Patch, PatchAnswerLost
  <2>2. PICK desired : desired = ReconcileReferences(observed[s].refs, want[s])
    OBVIOUS
  <2>3. \/ accounts' = accounts
        \/ /\ accounts[s] # None /\ accounts[s].rv = observed[s].rv
           /\ PutAccount(s, desired)
    BY <1>2, <2>2 DEF Patch, PatchAnswerLost
  <2>4. CASE /\ accounts[s] # None /\ accounts[s].rv = observed[s].rv
             /\ PutAccount(s, desired)
    <3>1. observed[s] # None /\ want[s] \in BOOLEAN
      BY <2>1 DEF LocalOK
    <3>2. accounts[s] = observed[s] /\ accounts[s].refs \in Listing
      BY <2>4, <3>1 DEF AccountOK, Given
    <3>3. accounts'[s] = [refs |-> desired, rv |-> revision']
      BY <2>4 DEF PutAccount
    <3> QED
      BY <2>1, <2>2, <2>4, <3>1, <3>2, <3>3
  <2> QED
    BY <2>3, <2>4
<1>3. CASE \/ WaitEnds(s) \/ AccountEvent(s) \/ UserDeletesAccount(s) \/ Untouched(s)
           \/ \E refs \in ReferenceLists : UserWritesAccount(s, refs)
  BY <1>3 DEF WaitEnds, AccountEvent, UserDeletesAccount, Untouched, UserWritesAccount,
     localVars
<1>4. CASE CommonStep
  <2>1. UNCHANGED pc
    BY <1>4 DEF CommonStep, SecretChanges, SecretEvent, EditConfigMap, LoadConfiguration,
       Publish, localVars
  <2> QED
    BY <2>1
<1>5. CASE Restart
  BY <1>5 DEF Restart
<1> QED
  BY <1>1, <1>2, <1>3, <1>4, <1>5, StepCases DEF OwnStep

\* SyncServiceAccount never deletes an account and leaves the references of others as
\* they are, in their order, even those written between its read and its patch.
THEOREM OthersKeptCorrect == RecordsApart => (Spec => OthersKept)
<1> SUFFICES ASSUME RecordsApart PROVE Spec => OthersKept
  OBVIOUS
<1>1. ASSUME SyncOK, [Next]_vars, NEW s \in ServiceAccounts,
             pc[s] # pc'[s], accounts[s] # None
      PROVE  /\ accounts'[s] # None
             /\ Others(accounts'[s].refs) = Others(accounts[s].refs)
  <2>1. CASE accounts'[s] = accounts[s]
    BY <1>1, <2>1
  <2>2. CASE accounts'[s] # accounts[s]
    <3>1. /\ accounts'[s] = [refs |-> ReconcileReferences(accounts[s].refs, want[s]),
                             rv |-> revision']
          /\ accounts[s].refs \in Listing /\ want[s] \in BOOLEAN
      BY <1>1, <2>2, RunWrites
    <3>2. /\ accounts'[s] # None
          /\ accounts'[s].refs = ReconcileReferences(accounts[s].refs, want[s])
      BY <3>1 DEF RecordsApart
    <3> QED
      BY <3>1, <3>2, ReconcileListing
  <2> QED
    BY <2>1, <2>2
<1>2. SyncOK /\ [Next]_vars =>
        [\A s \in ServiceAccounts :
            pc[s] # pc'[s] /\ accounts[s] # None =>
                /\ accounts'[s] # None
                /\ Others(accounts'[s].refs) = Others(accounts[s].refs)]_vars
  BY <1>1
<1> QED
  BY <1>2, SyncCorrect, PTL DEF Spec, OthersKept

-----------------------------------------------------------------------------
(* The Secret's side.                                                       *)

Allowed == {kind \in SecretKinds : kind = "foreign" => ForeignSecrets}

\* The last version under way, or else the cached one, is the Secret.
SecretOK ==
    /\ secret \in Allowed /\ secretCache \in Allowed
    /\ secretWatch \in Seq(Allowed)
    /\ IF secretWatch = <<>> THEN secretCache = secret
       ELSE secretWatch[Len(secretWatch)] = secret
    /\ mapErrors \in Nat

LEMMA SecretInit == Init => SecretOK
<1>1. "missing" \in Allowed
  BY DEF Allowed, SecretKinds
<1> QED
  BY <1>1 DEF Init, SecretOK

LEMMA SecretStep ==
    ASSUME SecretOK, [Next]_vars
    PROVE  SecretOK'
<1>1. CASE UNCHANGED <<secret, secretCache, secretWatch, mapErrors>>
  BY <1>1 DEF SecretOK
<1>2. ASSUME NEW s \in ServiceAccounts, OwnStep(s) PROVE SecretOK'
  <2>1. UNCHANGED <<secret, secretCache, secretWatch, mapErrors>>
    BY <1>2 DEF OwnStep, Begin, GetAccount, GetSecret, Patch, CallFails, PatchAnswerLost,
       WaitEnds, AccountEvent, UserDeletesAccount, UserWritesAccount, secretVars, boundVars
  <2> QED
    BY <1>1, <2>1
<1>3. ASSUME NEW kind \in SecretKinds, SecretChanges(kind) PROVE SecretOK'
  <2>1. /\ kind \in Allowed /\ secret' = kind /\ secretWatch' = Append(secretWatch, kind)
        /\ UNCHANGED <<secretCache, mapErrors>>
    BY <1>3 DEF SecretChanges, Allowed, boundVars
  <2>2. /\ secretWatch' \in Seq(Allowed) /\ secretWatch' # <<>>
        /\ secretWatch'[Len(secretWatch')] = kind
    BY <2>1 DEF SecretOK
  <2> QED
    BY <2>1, <2>2 DEF SecretOK
<1>4. ASSUME NEW n \in 1..Len(secretWatch), NEW fails \in BOOLEAN, SecretEvent(n, fails)
      PROVE  SecretOK'
  <2>1. /\ secretCache' = secretWatch[n] /\ UNCHANGED secret
        /\ secretWatch' = SubSeq(secretWatch, n + 1, Len(secretWatch))
        /\ mapErrors' \in {mapErrors, mapErrors + 1}
    BY <1>4 DEF SecretEvent
  <2>2. /\ secretWatch \in Seq(Allowed) /\ Len(secretWatch) \in Nat /\ secretWatch[n] \in Allowed
        /\ secretWatch[Len(secretWatch)] = secret
    BY DEF SecretOK
  <2>3. /\ secretWatch' \in Seq(Allowed)
        /\ Len(secretWatch') = Len(secretWatch) - n
        /\ \A i \in 1..Len(secretWatch') : secretWatch'[i] = secretWatch[n + i]
    BY <2>1, <2>2
  <2>4. CASE n = Len(secretWatch)
    <3>1. secretWatch' = <<>>
      BY <2>2, <2>3, <2>4
    <3> QED
      BY <2>1, <2>2, <2>4, <3>1 DEF SecretOK
  <2>5. CASE n # Len(secretWatch)
    <3>1. Len(secretWatch') \in 1..Len(secretWatch') /\ n + Len(secretWatch') = Len(secretWatch)
      BY <2>2, <2>3, <2>5
    <3>2. secretWatch'[Len(secretWatch')] = secret
      BY <2>2, <2>3, <3>1
    <3>3. secretWatch' # <<>>
      BY <3>1
    <3>4. mapErrors' \in Nat /\ secret' \in Allowed /\ secretCache' \in Allowed
      BY <2>1, <2>2 DEF SecretOK
    <3> QED
      BY <2>1, <2>3, <3>2, <3>3, <3>4 DEF SecretOK
  <2> QED
    BY <2>4, <2>5
<1>5. CASE \/ \E selection \in Selections : EditConfigMap(selection)
           \/ LoadConfiguration \/ Publish \/ UNCHANGED vars
  BY <1>1, <1>5 DEF EditConfigMap, LoadConfiguration, Publish, vars, secretVars, boundVars
<1>6. CASE Restart
  BY <1>6 DEF Restart, SecretOK
<1> QED
  BY <1>2, <1>3, <1>4, <1>5, <1>6 DEF Next, SyncStep, OwnStep

\* In every reachable state the watch of the Secret ends in the present one.
THEOREM SecretCorrect == Spec => []SecretOK
BY SecretInit, SecretStep, PTL DEF Spec

\* An account that every configuration selects is only patched to refer to the Secret
\* as long as nobody else's takes its name.
KeepsWanting(s) ==
    /\ ~ForeignSecrets
    /\ \A selection \in Selections : s \in selection
    => (pc[s] = "patch" => want[s])

LEMMA WantingStep ==
    ASSUME SyncOK, SecretOK, [Next]_vars, NEW s \in ServiceAccounts, KeepsWanting(s)
    PROVE  KeepsWanting(s)'
<1> USE DEF DomainsOK, localVars, SyncOK
<1>1. CASE UNCHANGED <<pc[s], want[s]>>
  BY <1>1 DEF KeepsWanting
<1>2. CASE pc'[s] # "patch"
  BY <1>2 DEF KeepsWanting
<1>3. CASE Untouched(s) \/ WaitEnds(s) \/ AccountEvent(s) \/ UserDeletesAccount(s)
           \/ \E refs \in ReferenceLists : UserWritesAccount(s, refs)
  BY <1>1, <1>3 DEF Untouched, WaitEnds, AccountEvent, UserDeletesAccount, UserWritesAccount
<1>4. CASE CommonStep
  <2>1. UNCHANGED localVars
    BY <1>4 DEF CommonStep, SecretChanges, SecretEvent, EditConfigMap, LoadConfiguration,
       Publish
  <2> QED
    BY <1>1, <2>1
<1>5. CASE Restart \/ Begin(s) \/ Patch(s) \/ CallFails(s) \/ PatchAnswerLost(s)
  <2>1. pc'[s] # "patch"
    BY <1>5 DEF Restart, Const, Begin, Goto, Patch, CallFails, PatchAnswerLost, Succeed, Fail,
       Return
  <2> QED
    BY <1>2, <2>1
<1>6. CASE GetAccount(s)
  <2>1. pc[s] = "account" /\ (pc'[s] = "patch" => s \notin snap[s])
    <3>1. CASE cached[s] = None
      BY <1>6, <3>1 DEF GetAccount, Succeed, Return
    <3>2. CASE cached[s] # None
      BY <1>6, <3>2 DEF GetAccount, Goto
    <3> QED
      BY <3>1, <3>2
  <2>2. snap[s] \in Selections
    BY <2>1 DEF LocalOK
  <2> QED
    BY <2>1, <2>2 DEF KeepsWanting
<1>7. CASE GetSecret(s)
  <2>1. CASE secretCache \in {"missing", "incomplete"}
    BY <1>2, <1>7, <2>1 DEF GetSecret, NotReady, Return
  <2>2. CASE secretCache \notin {"missing", "incomplete"}
    <3>1. ~ForeignSecrets => secretCache = "usable"
      BY <2>2 DEF SecretOK, Allowed, SecretKinds
    <3>2. want'[s] = (secretCache = "usable")
      BY <1>7, <2>2 DEF GetSecret
    <3> QED
      BY <3>1, <3>2 DEF KeepsWanting
  <2> QED
    BY <2>1, <2>2
<1> QED
  BY <1>3, <1>4, <1>5, <1>6, <1>7, StepCases DEF OwnStep

\* Pods of an account that stays selected keep the pull Secret: while it is only ever
\* missing, incomplete or usable, no run of SyncServiceAccount removes the reference.
THEOREM ReferenceKeptCorrect == RecordsApart => (Spec => ReferenceKept)
<1> SUFFICES ASSUME RecordsApart PROVE Spec => ReferenceKept
  OBVIOUS
<1> DEFINE Inv == \A s \in ServiceAccounts : KeepsWanting(s)
<1>1. Init => Inv
  BY DEF Init, Const, KeepsWanting
<1>2. SyncOK /\ SecretOK /\ Inv /\ [Next]_vars => Inv'
  BY WantingStep
<1>3. ASSUME SyncOK, Inv, [Next]_vars, NEW s \in ServiceAccounts,
             pc[s] # pc'[s], accounts[s] # None, References(s) # {},
             ~ForeignSecrets, \A selection \in Selections : s \in selection
      PROVE  References(s)' # {}
  <2>1. CASE accounts'[s] = accounts[s]
    BY <1>3, <2>1 DEF References
  <2>2. CASE accounts'[s] # accounts[s]
    <3>1. /\ accounts'[s] = [refs |-> ReconcileReferences(accounts[s].refs, want[s]),
                             rv |-> revision']
          /\ accounts[s].refs \in Listing /\ want[s] \in BOOLEAN /\ pc[s] = "patch"
      BY <1>3, <2>2, RunWrites
    <3>2. want[s]
      BY <1>3, <3>1 DEF KeepsWanting
    <3>3. PICK desired : desired = ReconcileReferences(accounts[s].refs, want[s])
      OBVIOUS
    <3>4. PICK i \in 1..Len(desired) : {j \in 1..Len(desired) : desired[j] = Managed} = {i}
      BY <3>1, <3>2, <3>3, ReconcileListing
    <3>5. accounts'[s].refs = desired
      BY <3>1, <3>3
    <3>6. accounts'[s] # None
      BY <3>1 DEF RecordsApart
    <3> QED
      BY <3>4, <3>5, <3>6 DEF References
  <2> QED
    BY <2>1, <2>2
<1>4. SyncOK /\ Inv /\ [Next]_vars =>
        [\A s \in ServiceAccounts :
            /\ pc[s] # pc'[s]
            /\ accounts[s] # None /\ References(s) # {}
            /\ ~ForeignSecrets /\ \A selection \in Selections : s \in selection
            => References(s)' # {}]_vars
  BY <1>3
<1> HIDE DEF Inv
<1> QED
  BY <1>1, <1>2, <1>4, SyncCorrect, SecretCorrect, PTL DEF Spec, ReferenceKept

-----------------------------------------------------------------------------
(* The controller comes to rest only when every account is right.           *)

\* Something will have the account reconciled again, or it does not exist.
Unsettled(s) ==
    \/ s \in queue \/ fanout \/ accountWatch[s] # <<>>
    \/ snapshot = None \/ accounts[s] = None

\* The account is what the loaded selection and the cached Secret call for.  Where
\* no foreign Secret takes the name, it waits even while the Secret is missing.
Right(s) ==
    IF s \notin snapshot \/ secretCache = "foreign" THEN References(s) = {}
    ELSE (secretCache = "missing" /\ ForeignSecrets) \/ ReferredOnce(s) \/ s \in waiting

\* The decision of a run still agrees with them.
Decided(s) ==
    IF want[s] THEN s \in snapshot /\ secretCache # "foreign"
    ELSE \/ s \notin snapshot \/ secretCache = "foreign"
         \/ secretCache = "missing" /\ ForeignSecrets

\* A run works on the present selection, account and Secret, and none is needed
\* otherwise.
RestOK(s) ==
    \/ Unsettled(s)
    \/ pc[s] = "idle" /\ Right(s)
    \/ pc[s] = "account" /\ snap[s] = snapshot
    \/ pc[s] = "secret" /\ snap[s] = snapshot /\ observed[s] = accounts[s]
    \/ pc[s] = "patch" /\ snap[s] = snapshot /\ observed[s] = accounts[s] /\ Decided(s)

\* What was to be done stays to be done until a run begins.
LEMMA UnsettledStep ==
    ASSUME SyncOK, [Next]_vars, NEW s \in ServiceAccounts, Unsettled(s), ~Begin(s)
    PROVE  Unsettled(s)'
<1> USE DEF SyncOK, DomainsOK, serverVars, configVars
<1>0. PICK T : accountWatch[s] \in Seq(T)
  BY DEF AccountOK
<1>1. CASE Untouched(s)
  BY <1>1 DEF Untouched, Unsettled
<1>2. CASE WaitEnds(s) \/ AccountEvent(s)
  BY <1>2 DEF WaitEnds, AccountEvent, Unsettled
<1>3. CASE GetAccount(s) \/ GetSecret(s)
  <2>1. UNCHANGED <<queue, fanout, accountWatch, snapshot, accounts>>
    BY <1>3 DEF GetAccount, GetSecret, Succeed, NotReady
  <2> QED
    BY <2>1 DEF Unsettled
<1>4. CASE \/ Patch(s) \/ CallFails(s) \/ PatchAnswerLost(s) \/ UserDeletesAccount(s)
           \/ \E refs \in ReferenceLists : UserWritesAccount(s, refs)
  <2>1. Written(s) \/ UNCHANGED <<serverVars, cached>>
    BY <1>4, WriteCases DEF LocalOK
  <2>2. CASE Written(s)
    <3>1. observed'[s] \in {None, observed[s]}
      BY <1>4, WriteCases DEF LocalOK
    <3> QED
      BY <2>2, <3>1, WrittenKeeps DEF Unsettled
  <2>3. CASE UNCHANGED <<serverVars, cached>>
    <3>1. UNCHANGED <<fanout, snapshot>> /\ (s \in queue => s \in queue')
      BY <1>4 DEF Patch, CallFails, PatchAnswerLost, UserDeletesAccount, UserWritesAccount,
         Succeed, Fail
    <3> QED
      BY <2>3, <3>1 DEF Unsettled
  <2> QED
    BY <2>1, <2>2, <2>3
<1>5. CASE \/ \E kind \in SecretKinds : SecretChanges(kind)
           \/ \E n \in 1..Len(secretWatch), fails \in BOOLEAN : SecretEvent(n, fails)
           \/ \E selection \in Selections : EditConfigMap(selection)
  <2>1. UNCHANGED <<fanout, accountWatch, snapshot, accounts>> /\ queue \subseteq queue'
    BY <1>5 DEF SecretChanges, SecretEvent, EditConfigMap
  <2> QED
    BY <2>1 DEF Unsettled
<1>6. CASE LoadConfiguration \/ Restart
  BY <1>6 DEF LoadConfiguration, Restart, Unsettled
<1>7. CASE Publish
  <2>1. /\ UNCHANGED <<accountWatch, snapshot, accounts>>
        /\ queue' = queue \cup {t \in ServiceAccounts : cached[t] # None}
    BY <1>7 DEF Publish
  <2>2. accountWatch[s] = <<>> => cached[s] = accounts[s]
    BY DEF AccountOK
  <2> QED
    BY <2>1, <2>2 DEF Unsettled
<1> QED
  BY <1>1, <1>2, <1>3, <1>4, <1>5, <1>6, <1>7, StepCases DEF OwnStep, CommonStep

\* An event of the Secret that queues nobody changes nothing for an account.
LEMMA SecretEventRests ==
    ASSUME SyncOK, SecretOK, MaxMapErrors = 0 \/ ~ForeignSecrets,
           NEW s \in ServiceAccounts, RestOK(s), ~Unsettled(s),
           NEW n \in 1..Len(secretWatch), NEW fails \in BOOLEAN, SecretEvent(n, fails)
    PROVE  RestOK(s)'
<1> USE DEF SyncOK, DomainsOK
<1>1. PICK old, new : old = secretCache /\ new = secretWatch[n]
  OBVIOUS
<1>2. /\ secretCache' = new
      /\ UNCHANGED <<accounts, waiting, snapshot, pc, snap, observed, want>>
      /\ fails => mapErrors < MaxMapErrors
      /\ ~fails /\ new # old /\ Predicate(old, new) => queue' = queue \cup MappedAccounts
  BY <1>1 DEF SecretEvent, configVars, serverVars, localVars
<1>3. old \in Allowed /\ new \in Allowed
  BY <1>1 DEF SecretOK
<1>4. snapshot # None /\ cached[s] # None
  BY DEF Unsettled, AccountOK
<1>5. CASE s \in queue'
  BY <1>5 DEF RestOK, Unsettled
<1>6. CASE s \notin queue'
  <2>1. \/ s \notin snapshot \/ new = old \/ ~Predicate(old, new)
        \/ fails
    BY <1>2, <1>4, <1>6 DEF MappedAccounts
  <2>2. fails => ~ForeignSecrets
    BY <1>2 DEF SecretOK
  <2>3. \/ s \notin snapshot \/ new = old
        \/ old # "missing" /\ new = "missing"
        \/ old = "foreign" /\ new = "foreign"
        \/ old \in {"incomplete", "usable"} /\ new \in {"incomplete", "usable"}
        \/ ~ForeignSecrets
    BY <1>3, <2>1, <2>2 DEF Predicate, IsManaged, Allowed, SecretKinds
  <2>4. (old = "foreign" \/ new = "foreign") => ForeignSecrets
    BY <1>3 DEF Allowed
  <2>5. References(s)' = References(s) /\ ReferredOnce(s)' = ReferredOnce(s)
    BY <1>2 DEF References, ReferredOnce
  <2>6. Right(s) => Right(s)'
    BY <1>1, <1>2, <2>3, <2>4, <2>5 DEF Right
  <2>7. Decided(s) => Decided(s)'
    BY <1>1, <1>2, <2>3, <2>4 DEF Decided
  <2> QED
    BY <1>2, <2>6, <2>7 DEF RestOK
<1> QED
  BY <1>5, <1>6

\* A run that ends leaves the account right, or leaves something to do.
LEMMA PatchRests ==
    ASSUME SyncOK, NEW s \in ServiceAccounts, RestOK(s), ~Unsettled(s),
           Patch(s) \/ PatchAnswerLost(s)
    PROVE  RestOK(s)'
<1> USE DEF SyncOK, DomainsOK
<1>1. /\ pc[s] = "patch" /\ observed[s] = accounts[s] /\ Decided(s)
      /\ UNCHANGED <<snapshot, secretCache>>
  BY DEF RestOK, Patch, PatchAnswerLost, configVars, secretVars
<1>2. PICK desired : desired = ReconcileReferences(observed[s].refs, want[s])
  OBVIOUS
<1>3. CASE s \in queue'
  BY <1>3 DEF RestOK, Unsettled
<1>4. CASE Written(s)
  <2>1. observed'[s] \in {None, observed[s]}
    BY WriteCases DEF LocalOK
  <2> QED
    BY <1>4, <2>1, WrittenKeeps DEF RestOK, Unsettled
<1>5. CASE desired = observed[s].refs /\ UNCHANGED serverVars /\ Succeed(s)
  <2>1. accounts[s] # None /\ accounts[s].refs \in Listing /\ want[s] \in BOOLEAN
    BY DEF Unsettled, AccountOK, Given, LocalOK
  <2>2. IF want[s] THEN \E i \in 1..Len(desired) :
                           {j \in 1..Len(desired) : desired[j] = Managed} = {i}
        ELSE \A i \in 1..Len(desired) : desired[i] # Managed
    <3>1. PICK refs : refs = accounts[s].refs
      OBVIOUS
    <3>2. desired = ReconcileReferences(refs, want[s]) /\ refs \in Listing
      BY <1>1, <1>2, <2>1, <3>1
    <3> QED
      BY <2>1, <3>2, ReconcileListing
  <2>3. References(s) = {j \in 1..Len(desired) : desired[j] = Managed}
    BY <1>1, <1>5, <2>1 DEF References
  <2>4. IF want[s] THEN ReferredOnce(s) ELSE References(s) = {}
    BY <2>2, <2>3 DEF ReferredOnce
  <2>5. pc'[s] = "idle" /\ accounts' = accounts /\ UNCHANGED waiting
    BY <1>5 DEF Succeed, Return, serverVars
  <2>6. References(s)' = References(s) /\ ReferredOnce(s)' = ReferredOnce(s)
    BY <2>5 DEF References, ReferredOnce
  <2>7. Right(s)'
    BY <1>1, <2>4, <2>5, <2>6 DEF Right, Decided
  <2> QED
    BY <2>5, <2>7 DEF RestOK
<1>6. Written(s) \/ UNCHANGED <<serverVars, cached>>
  BY WriteCases DEF LocalOK
<1>7. \/ s \in queue'
      \/ Written(s)
      \/ desired = observed[s].refs /\ UNCHANGED serverVars /\ Succeed(s)
  <2>1. CASE Patch(s)
    <3>1. CASE desired = observed[s].refs
      BY <1>2, <2>1, <3>1 DEF Patch
    <3>2. CASE desired # observed[s].refs
      <4>1. Fail(s) \/ PutAccount(s, desired)
        BY <1>2, <2>1, <3>2 DEF Patch
      <4>2. PutAccount(s, desired) => revision' = revision + 1
        BY DEF PutAccount
      <4>3. revision + 1 # revision
        OBVIOUS
      <4> QED
        BY <1>6, <4>1, <4>2, <4>3 DEF Fail, serverVars
    <3> QED
      BY <3>1, <3>2
  <2>2. CASE PatchAnswerLost(s)
    BY <2>2 DEF PatchAnswerLost, Fail
  <2> QED
    BY <2>1, <2>2
<1> QED
  BY <1>3, <1>4, <1>5, <1>7

LEMMA RestStep ==
    ASSUME SyncOK, SecretOK, MaxMapErrors = 0 \/ ~ForeignSecrets,
           [Next]_vars, NEW s \in ServiceAccounts, RestOK(s)
    PROVE  RestOK(s)'
<1> USE DEF SyncOK, DomainsOK, configVars, secretVars, serverVars, localVars
<1>1. CASE Begin(s)
  <2>1. CASE snapshot = None
    BY <1>1, <2>1 DEF Begin, RestOK, Unsettled
  <2>2. CASE snapshot # None
    BY <1>1, <2>2 DEF Begin, Goto, RestOK
  <2> QED
    BY <2>1, <2>2
<1>2. CASE Unsettled(s) /\ ~Begin(s)
  BY <1>2, UnsettledStep DEF RestOK
<1>3. CASE ~Unsettled(s) /\ ~Begin(s)
  <2>0. cached[s] = accounts[s] /\ accounts[s] # None
    BY <1>3 DEF Unsettled, AccountOK
  <2>1. CASE UNCHANGED <<snapshot, secretCache, accounts[s], pc[s], snap[s], observed[s],
                         want[s]>> /\ (s \in waiting => s \in waiting')
    <3>1. References(s)' = References(s) /\ ReferredOnce(s)' = ReferredOnce(s)
      BY <2>1 DEF References, ReferredOnce
    <3>2. (Right(s) => Right(s)') /\ (Decided(s) => Decided(s)')
      BY <2>1, <3>1 DEF Right, Decided
    <3> QED
      BY <1>3, <2>1, <3>2 DEF RestOK
  <2>2. CASE Untouched(s) \/ (\E kind \in SecretKinds : SecretChanges(kind))
             \/ \E selection \in Selections : EditConfigMap(selection)
    BY <2>1, <2>2 DEF Untouched, SecretChanges, EditConfigMap
  <2>3. CASE s \in queue'
    BY <2>3 DEF RestOK, Unsettled
  <2>4. CASE WaitEnds(s) \/ AccountEvent(s) \/ CallFails(s)
    BY <2>3, <2>4 DEF WaitEnds, AccountEvent, CallFails, Fail
  <2>5. CASE UserDeletesAccount(s) \/ \E refs \in ReferenceLists : UserWritesAccount(s, refs)
    <3>1. observed'[s] = observed[s] /\ (Written(s) \/ UNCHANGED <<serverVars, cached>>)
      BY <2>5, WriteCases DEF LocalOK, UserDeletesAccount, UserWritesAccount
    <3>2. CASE Written(s)
      BY <3>1, <3>2, WrittenKeeps DEF RestOK, Unsettled
    <3>3. CASE UNCHANGED <<serverVars, cached>>
      BY <2>1, <2>5, <3>3 DEF UserDeletesAccount, UserWritesAccount
    <3> QED
      BY <3>1, <3>2, <3>3
  <2>6. CASE GetAccount(s)
    <3>1. /\ pc[s] = "account" /\ snap[s] = snapshot
          /\ pc'[s] = (IF s \in snap[s] THEN "secret" ELSE "patch")
          /\ observed'[s] = accounts'[s] /\ UNCHANGED <<snap, want, snapshot>>
      BY <1>3, <2>0, <2>6 DEF RestOK, GetAccount, Goto
    <3>2. ~want[s]
      BY <3>1 DEF LocalOK
    <3> QED
      BY <3>1, <3>2 DEF RestOK, Decided
  <2>7. CASE GetSecret(s)
    <3>1. /\ pc[s] = "secret" /\ snap[s] = snapshot /\ observed[s] = accounts[s]
          /\ UNCHANGED <<snapshot, secretCache, accounts>> /\ s \in snapshot
      BY <1>3, <2>7 DEF RestOK, GetSecret, LocalOK
    <3>2. CASE secretCache \in {"missing", "incomplete"}
      <4>1. pc'[s] = "idle" /\ s \in waiting' /\ secretCache # "foreign"
        BY <2>7, <3>2 DEF GetSecret, NotReady, Return
      <4> QED
        BY <3>1, <4>1 DEF RestOK, Right
    <3>3. CASE secretCache \notin {"missing", "incomplete"}
      <4>1. /\ pc'[s] = "patch" /\ want'[s] = (secretCache = "usable")
            /\ UNCHANGED <<snap, observed>>
        BY <2>7, <3>3 DEF GetSecret, Goto
      <4>2. secretCache \in {"foreign", "usable"}
        BY <3>3 DEF SecretOK, Allowed, SecretKinds
      <4>3. Decided(s)'
        BY <3>1, <4>1, <4>2 DEF Decided
      <4> QED
        BY <3>1, <4>1, <4>3 DEF RestOK
    <3> QED
      BY <3>2, <3>3
  <2>8. CASE Patch(s) \/ PatchAnswerLost(s)
    BY <1>3, <2>8, PatchRests
  <2>9. CASE \E n \in 1..Len(secretWatch), fails \in BOOLEAN : SecretEvent(n, fails)
    BY <1>3, <2>9, SecretEventRests
  <2>10. CASE LoadConfiguration \/ Restart \/ Publish
    BY <1>3, <2>10 DEF LoadConfiguration, Restart, Publish, RestOK, Unsettled
  <2> QED
    BY <1>3, <2>2, <2>4, <2>5, <2>6, <2>7, <2>8, <2>9, <2>10, StepCases DEF OwnStep, CommonStep
<1> QED
  BY <1>1, <1>2, <1>3

\* The controller only comes to rest when every account is right: no edit, event,
\* change of configuration, failed call, lost answer or restart is forgotten, for any
\* accounts and selections.  It takes that no list in the mapping of a Secret event
\* fails, or that no foreign Secret takes the fixed name: a mapping that fails drops
\* the only event that tells of a Secret that became foreign.
THEOREM QuietIsSettledCorrect ==
    (MaxMapErrors = 0 \/ ~ForeignSecrets) => (Spec => []QuietIsSettled)
<1> SUFFICES ASSUME MaxMapErrors = 0 \/ ~ForeignSecrets PROVE Spec => []QuietIsSettled
  OBVIOUS
<1> DEFINE Inv == \A s \in ServiceAccounts : RestOK(s)
<1>1. Init => Inv
  BY DEF Init, RestOK, Unsettled
<1>2. SyncOK /\ SecretOK /\ Inv /\ [Next]_vars => Inv'
  BY RestStep
<1>3. SyncOK /\ SecretOK /\ Inv => QuietIsSettled
  <2> SUFFICES ASSUME SyncOK, SecretOK, Inv, Quiet, NEW s \in ServiceAccounts
               PROVE  Settled(s)
    BY DEF QuietIsSettled
  <2>1. /\ s \notin queue /\ ~fanout /\ accountWatch[s] = <<>> /\ pc[s] = "idle"
        /\ snapshot = configMap /\ snapshot # None /\ secretCache = secret
    BY AccountsAssumption DEF Quiet, Const, SyncOK, ConfigOK, SecretOK
  <2>2. accounts[s] # None => Right(s)
    BY <2>1 DEF RestOK, Unsettled
  <2> QED
    BY <2>1, <2>2 DEF Settled, Right
<1> HIDE DEF Inv
<1> QED
  BY <1>1, <1>2, <1>3, SyncCorrect, SecretCorrect, PTL DEF Spec
=============================================================================
