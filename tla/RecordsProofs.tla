--------------------------- MODULE RecordsProofs ---------------------------
(***************************************************************************)
(* What is written down by services of several commits, by reviewers, by   *)
(* the pacing of a command and for the evidence gate: for any processes,   *)
(* nodes, plans, findings, intervals and delays.  The components share no  *)
(* variable; each has its own invariant, above its theorems.               *)
(***************************************************************************)
EXTENDS Facade, Findings, RateLimiter, EvidencePolicy, FiniteSetTheorems,
        WellFoundedInduction, TLAPS
-----------------------------------------------------------------------------
(***************************************************************************)
(* Findings.  What a row shows is its latest replacement; the invariant    *)
(* names the entry that is the latest, so that an entry added at the end   *)
(* either takes its place or leaves it alone.                              *)
(***************************************************************************)
FindingRow == [status : {"active", "superseded"}, by : Nat]
HistoryEntry == [finding : Nat, action : {"created", "superseded"}, by : Nat]

FindingTypes == finding \in Seq(FindingRow) /\ history \in Seq(HistoryEntry)

\* Who reads a finding reads one there is, and no row is ever removed.
HoldsRows == holds \in [Reviewer -> Nat] /\ \A r \in Reviewer : holds[r] <= Len(finding)

EntriesNameRows == \A k \in DOMAIN history : history[k].finding <= Len(finding)

HasOrigin(j) == \E k \in DOMAIN history :
    IF history[k].action = "created" THEN history[k].finding = j ELSE history[k].by = j

Replacements(i) == {k \in DOMAIN history : history[k].action = "superseded" /\ history[k].finding = i}

IsLatest(i, k) == k \in Replacements(i) /\ \A l \in Replacements(i) : l <= k

ShowsLatest(i) == \/ Replacements(i) = {} /\ finding[i].by = Nobody
                  \/ \E k \in Replacements(i) : IsLatest(i, k) /\ finding[i].by = history[k].by

Origins == \A j \in DOMAIN finding : HasOrigin(j)
RowsShowLatest == \A i \in DOMAIN finding : ShowsLatest(i)

FindingsInv == FindingTypes /\ HoldsRows /\ EntriesNameRows /\ Origins /\ RowsShowLatest
-----------------------------------------------------------------------------
\* A call that adds a row and an entry, and may mark one row as replaced by the new one.
LEMMA OneMore ==
    ASSUME FindingsInv, NEW e \in HistoryEntry, NEW m \in Nat, m = Len(finding) + 1,
           finding' \in Seq(FindingRow), Len(finding') = Len(finding) + 1,
           history' = Append(history, e),
           holds' \in [Reviewer -> Nat], \A q \in Reviewer : holds'[q] \in {holds[q], Nobody},
           finding'[Len(finding) + 1] = Active,
           e.finding \in 1..Len(finding'),
           e.action = "created" => e.finding = Len(finding) + 1,
           e.action = "superseded" => e.finding <= Len(finding) /\ e.by = Len(finding) + 1,
           \A i \in DOMAIN finding :
               finding'[i].by = IF e.action = "superseded" /\ e.finding = i THEN e.by ELSE finding[i].by
    PROVE  FindingsInv'
<1> DEFINE n == Len(history) + 1
<1>1. /\ Len(history) \in Nat /\ Len(finding) \in Nat /\ m \in Nat /\ n \in Nat
      /\ DOMAIN history = 1..Len(history) /\ DOMAIN history' = 1..n
      /\ DOMAIN finding = 1..Len(finding) /\ DOMAIN finding' = 1..m
      /\ history'[n] = e /\ \A k \in DOMAIN history : history'[k] = history[k]
      /\ history' \in Seq(HistoryEntry)
      /\ \A k \in DOMAIN history : /\ history[k] \in HistoryEntry /\ history[k].finding \in Nat
                                   /\ history[k].finding <= Len(finding)
  <2>1. finding \in Seq(FindingRow) /\ history \in Seq(HistoryEntry) /\ EntriesNameRows
    BY DEF FindingsInv, FindingTypes
  <2>2. /\ Len(history) \in Nat /\ Len(finding) \in Nat /\ DOMAIN history = 1..Len(history)
        /\ DOMAIN finding = 1..Len(finding) /\ DOMAIN finding' = 1..Len(finding')
    BY <2>1
  <2>3. history' \in Seq(HistoryEntry) /\ Len(history') = n /\ DOMAIN history' = 1..n
    BY <2>1
  <2>4. history'[n] = e /\ \A k \in DOMAIN history : history'[k] = history[k]
    BY <2>1
  <2>5. \A k \in DOMAIN history : history[k] \in HistoryEntry
    BY <2>1
  <2>6. \A k \in DOMAIN history : history[k].finding \in Nat /\ history[k].finding <= Len(finding)
    BY <2>1, <2>5 DEF HistoryEntry, EntriesNameRows
  <2> QED  BY <2>2, <2>3, <2>4, <2>5, <2>6
<1>2. n \notin DOMAIN history /\ m \notin DOMAIN finding
      /\ DOMAIN history' = DOMAIN history \cup {n} /\ DOMAIN finding' = DOMAIN finding \cup {m}
  BY <1>1
<1>3. FindingTypes' /\ HoldsRows'
  BY <1>1 DEF FindingsInv, FindingTypes, HoldsRows, Nobody
<1>4. EntriesNameRows'
  <2> SUFFICES ASSUME NEW k \in DOMAIN history'
               PROVE  history'[k].finding <= Len(finding')
    BY DEF EntriesNameRows
  <2>1. CASE k = n
    BY <2>1, <1>1
  <2>2. CASE k \in DOMAIN history
    BY <2>2, <1>1
  <2> QED  BY <2>1, <2>2, <1>2
<1>5. Origins'
  <2>1. ASSUME NEW j \in DOMAIN finding
        PROVE  HasOrigin(j)'
    <3>1. PICK k \in DOMAIN history :
              IF history[k].action = "created" THEN history[k].finding = j ELSE history[k].by = j
      BY DEF FindingsInv, Origins, HasOrigin
    <3> QED  BY <3>1, <1>1, <1>2 DEF HasOrigin
  <2>2. HasOrigin(m)'
    BY <1>1, <1>2 DEF HasOrigin, HistoryEntry
  <2> QED  BY <2>1, <2>2, <1>2 DEF Origins
<1>6. ASSUME NEW i \in DOMAIN finding, ~(e.action = "superseded" /\ e.finding = i)
      PROVE  ShowsLatest(i)'
  <2>1. Replacements(i)' = Replacements(i)
    BY <1>6, <1>1, <1>2 DEF Replacements
  <2>2. finding'[i].by = finding[i].by
    BY <1>6
  <2>3. ShowsLatest(i)
    BY DEF FindingsInv, RowsShowLatest
  <2>4. \A k \in Replacements(i) : history'[k] = history[k]
    BY <1>1 DEF Replacements
  <2> QED  BY <2>1, <2>2, <2>3, <2>4 DEF ShowsLatest, IsLatest
<1>7. ASSUME NEW i \in DOMAIN finding, e.action = "superseded", e.finding = i
      PROVE  ShowsLatest(i)'
  <2>1. n \in Replacements(i)'
    BY <1>7, <1>1, <1>2 DEF Replacements
  <2>2. \A l \in Replacements(i)' : l <= n
    BY <1>1 DEF Replacements
  <2>3. finding'[i].by = history'[n].by
    BY <1>7, <1>1
  <2> QED  BY <2>1, <2>2, <2>3 DEF ShowsLatest, IsLatest
<1>8. ShowsLatest(m)'
  <2>1. Replacements(m)' = {}
    <3> SUFFICES ASSUME NEW k \in DOMAIN history', history'[k].action = "superseded"
                 PROVE  history'[k].finding # m
      BY DEF Replacements
    <3>1. CASE k = n
      BY <3>1, <1>1
    <3>2. CASE k \in DOMAIN history
      BY <3>2, <1>1
    <3> QED  BY <3>1, <3>2, <1>2
  <2> QED  BY <2>1, <1>1 DEF ShowsLatest, Active
<1>9. RowsShowLatest'
  BY <1>2, <1>6, <1>7, <1>8 DEF RowsShowLatest
<1> QED  BY <1>3, <1>4, <1>5, <1>9 DEF FindingsInv

LEMMA CreateKeepsInv ==
    ASSUME FindingsInv, NEW r \in Reviewer, CreateReviewFinding(r)
    PROVE  FindingsInv'
<1> DEFINE e == [finding |-> Len(finding) + 1, action |-> "created", by |-> Nobody]
<1>1. /\ finding \in Seq(FindingRow) /\ Len(finding) \in Nat /\ Active \in FindingRow
      /\ holds \in [Reviewer -> Nat]
  BY DEF FindingsInv, FindingTypes, HoldsRows, Active, FindingRow, Nobody
<1>2. finding' = Append(finding, Active) /\ history' = Append(history, e) /\ holds' = holds
  BY DEF CreateReviewFinding
<1>3. /\ finding' \in Seq(FindingRow) /\ Len(finding') = Len(finding) + 1
      /\ finding'[Len(finding) + 1] = Active
      /\ \A i \in DOMAIN finding : finding'[i] = finding[i]
  BY <1>1, <1>2
<1>4. /\ e \in HistoryEntry /\ e.finding \in 1..Len(finding') /\ e.action = "created"
      /\ e.finding = Len(finding) + 1
  BY <1>1, <1>3 DEF HistoryEntry, Nobody
<1> HIDE DEF e
<1> QED  BY <1>1, <1>2, <1>3, <1>4, OneMore DEF Active

LEMMA SupersedeKeepsInv ==
    ASSUME FindingsInv, NEW r \in Reviewer, SupersedeReviewFinding(r)
    PROVE  FindingsInv'
<1> DEFINE i == holds[r]
           m == Len(finding) + 1
           e == [finding |-> i, action |-> "superseded", by |-> m]
           mark == [status |-> "superseded", by |-> m]
<1>1. /\ finding \in Seq(FindingRow) /\ Len(finding) \in Nat /\ Active \in FindingRow /\ mark \in FindingRow
      /\ holds \in [Reviewer -> Nat] /\ i \in 1..Len(finding) /\ m \in Nat
  BY DEF FindingsInv, FindingTypes, HoldsRows, Active, FindingRow, Nobody, SupersedeReviewFinding
<1>2. /\ finding' = [Append(finding, Active) EXCEPT ![i] = mark]
      /\ history' = Append(history, e)
      /\ holds' = [holds EXCEPT ![r] = Nobody]
  BY DEF SupersedeReviewFinding, Marked
<1>3. e \in HistoryEntry /\ e.finding = i /\ e.action = "superseded" /\ e.by = m
  BY <1>1 DEF HistoryEntry
<1>4. mark.by = m
  OBVIOUS
<1> HIDE DEF e, mark
<1>5. /\ finding' \in Seq(FindingRow) /\ Len(finding') = m
      /\ finding'[m] = Active /\ finding'[i] = mark
      /\ \A k \in DOMAIN finding : k # i => finding'[k] = finding[k]
  <2> DEFINE longer == Append(finding, Active)
  <2>1. /\ longer \in Seq(FindingRow) /\ Len(longer) = m /\ DOMAIN longer = 1..m /\ longer[m] = Active
        /\ \A k \in DOMAIN finding : longer[k] = finding[k] /\ k \in DOMAIN longer
    BY <1>1
  <2>2. finding' = [longer EXCEPT ![i] = mark] /\ i \in DOMAIN longer /\ i # m /\ m \in DOMAIN longer
    BY <1>1, <1>2, <2>1
  <2> HIDE DEF longer
  <2> QED  BY <2>1, <2>2, <1>1
<1>6. holds' \in [Reviewer -> Nat] /\ \A q \in Reviewer : holds'[q] \in {holds[q], Nobody}
  BY <1>1, <1>2 DEF Nobody
<1>7. \A k \in DOMAIN finding :
          finding'[k].by = IF e.action = "superseded" /\ e.finding = k THEN e.by ELSE finding[k].by
  BY <1>3, <1>4, <1>5
<1>8. e.finding \in 1..Len(finding') /\ e.finding <= Len(finding) /\ e.action # "created"
  BY <1>1, <1>3, <1>5
<1> HIDE DEF i
<1> QED  BY <1>2, <1>3, <1>5, <1>6, <1>7, <1>8, OneMore
-----------------------------------------------------------------------------
\* The inductive invariant of the findings (runtime.py:170-225): every row shows the
\* replacement of its latest entry, and every entry names a row.
THEOREM FindingsInvariant == FindingsSpec => []FindingsInv
<1>1. FindingsInit => FindingsInv
  BY DEF FindingsInit, FindingsInv, FindingTypes, HoldsRows, EntriesNameRows, Origins, RowsShowLatest, Nobody
<1>2. ASSUME FindingsInv, [FindingsNext]_findingVars
      PROVE  FindingsInv'
  <2>1. ASSUME NEW r \in Reviewer, CreateReviewFinding(r)
        PROVE  FindingsInv'
    BY <1>2, <2>1, CreateKeepsInv
  <2>2. ASSUME NEW r \in Reviewer, SupersedeReviewFinding(r)
        PROVE  FindingsInv'
    BY <1>2, <2>2, SupersedeKeepsInv
  <2>3. ASSUME finding' = finding, history' = history, HoldsRows'
        PROVE  FindingsInv'
    BY <1>2, <2>3 DEF FindingsInv, FindingTypes, EntriesNameRows, Origins, HasOrigin, RowsShowLatest,
                      ShowsLatest, IsLatest, Replacements
  <2>4. ASSUME NEW r \in Reviewer, GiveUp(r)
        PROVE  FindingsInv'
    <3>1. HoldsRows'
      BY <1>2, <2>4 DEF GiveUp, FindingsInv, FindingTypes, HoldsRows, Nobody
    <3> QED  BY <2>3, <2>4, <3>1 DEF GiveUp
  <2>5. ASSUME NEW r \in Reviewer, NEW i \in DOMAIN finding, GetReviewFinding(r, i)
        PROVE  FindingsInv'
    <3>1. HoldsRows'
      BY <1>2, <2>5 DEF GetReviewFinding, FindingsInv, FindingTypes, HoldsRows, Nobody
    <3> QED  BY <2>3, <2>5, <3>1 DEF GetReviewFinding
  <2>6. CASE UNCHANGED findingVars
    <3>1. HoldsRows'
      BY <1>2, <2>6 DEF findingVars, FindingsInv, HoldsRows
    <3> QED  BY <2>3, <2>6, <3>1 DEF findingVars
  <2> QED  BY <1>2, <2>1, <2>2, <2>4, <2>5, <2>6 DEF FindingsNext
<1> QED  BY <1>1, <1>2, PTL DEF FindingsSpec

\* For any number of reviewers: no finding is without origin, and a row shows the latest
\* of the replacements the history has (runtime.py:206-225).
THEOREM HistoryAlwaysTellsAll == FindingsSpec => []HistoryTellsAll
<1>1. FindingsInv => HistoryTellsAll
  <2> SUFFICES ASSUME FindingsInv
               PROVE  HistoryTellsAll
    OBVIOUS
  <2>1. ASSUME NEW i \in DOMAIN finding
        PROVE  finding[i].by = IF Replacements(i) = {} THEN Nobody
                   ELSE history[CHOOSE k \in Replacements(i) : \A l \in Replacements(i) : l <= k].by
    <3>1. ShowsLatest(i)
      BY DEF FindingsInv, RowsShowLatest
    <3>2. CASE Replacements(i) = {}
      BY <3>1, <3>2 DEF ShowsLatest
    <3>3. CASE Replacements(i) # {}
      <4>1. PICK k \in Replacements(i) : IsLatest(i, k) /\ finding[i].by = history[k].by
        BY <3>1, <3>3 DEF ShowsLatest
      <4>2. Replacements(i) \subseteq Nat
        BY DEF Replacements, FindingsInv, FindingTypes
      <4>3. ASSUME NEW x \in Replacements(i), \A l \in Replacements(i) : l <= x
            PROVE  x = k
        BY <4>1, <4>2, <4>3 DEF IsLatest
      <4>4. (CHOOSE x \in Replacements(i) : \A l \in Replacements(i) : l <= x) = k
        BY <4>1, <4>3 DEF IsLatest
      <4> QED  BY <4>1, <4>4, <3>3
    <3> QED  BY <3>2, <3>3
  <2> QED  BY <2>1 DEF HistoryTellsAll, Replacements, FindingsInv, Origins, HasOrigin
<1> QED  BY <1>1, FindingsInvariant, PTL

LEMMA FindingsForward == FindingsSpec => []Forward
<1>1. FindingsInit => Forward
  BY DEF FindingsInit, Forward
<1>2. ASSUME FindingsInv, Forward, [FindingsNext]_findingVars
      PROVE  Forward'
  <2>1. ASSUME NEW r \in Reviewer, CreateReviewFinding(r)
        PROVE  Forward'
    <3>1. finding \in Seq(FindingRow) /\ finding' = Append(finding, Active)
      BY <1>2, <2>1 DEF FindingsInv, FindingTypes, CreateReviewFinding
    <3>2. /\ DOMAIN finding' = DOMAIN finding \cup {Len(finding) + 1}
          /\ finding'[Len(finding) + 1] = Active
          /\ \A i \in DOMAIN finding : finding'[i] = finding[i]
      BY <3>1 DEF Active, FindingRow, Nobody
    <3> QED  BY <1>2, <3>2 DEF Forward, Active
  <2>2. ASSUME NEW r \in Reviewer, SupersedeReviewFinding(r)
        PROVE  Forward'
    <3>1. PICK i \in Nat : i = holds[r]
      BY <1>2 DEF FindingsInv, HoldsRows
    <3>2. PICK m \in Nat : m = Len(finding) + 1
      BY <1>2 DEF FindingsInv, FindingTypes
    <3>3. PICK mark \in FindingRow : mark = [status |-> "superseded", by |-> m]
      BY DEF FindingRow
    <3>a. Active \in FindingRow
      BY DEF Active, FindingRow, Nobody
    <3>b. finding \in Seq(FindingRow)
      BY <1>2 DEF FindingsInv, FindingTypes
    <3>c. Append(finding, Active) \in Seq(FindingRow)
      <4> SUFFICES ASSUME NEW R, NEW q \in Seq(R), NEW v \in R
                   PROVE  Append(q, v) \in Seq(R)
        BY <3>a, <3>b
      <4> QED  OBVIOUS
    <3>4. PICK longer \in Seq(FindingRow) : longer = Append(finding, Active)
      <4> DEFINE all == Append(finding, Active)
      <4>1. all \in Seq(FindingRow) /\ all = Append(finding, Active)
        BY <3>c
      <4> HIDE DEF all
      <4> QED  BY <4>1
    <3>5. finding' = [longer EXCEPT ![i] = mark]
      BY <2>2, <3>1, <3>2, <3>3, <3>4 DEF SupersedeReviewFinding, Marked
    <3>6. /\ DOMAIN finding = 1..Len(finding) /\ Len(finding) \in Nat /\ i \in DOMAIN finding
          /\ DOMAIN longer = DOMAIN finding \cup {m} /\ longer[m] = Active
          /\ \A k \in DOMAIN finding : longer[k] = finding[k]
      <4>1. finding \in Seq(FindingRow) /\ i <= Len(finding) /\ i # 0 /\ Active \in FindingRow
        BY <1>2, <2>2, <3>1 DEF FindingsInv, FindingTypes, HoldsRows, SupersedeReviewFinding, Nobody,
                                Active, FindingRow
      <4> QED  BY <3>2, <3>4, <4>1
    <3>7. /\ DOMAIN finding' = DOMAIN finding \cup {m} /\ i < m /\ i # m /\ finding'[i] = mark
          /\ finding'[m] = Active
          /\ \A k \in DOMAIN finding : k # i => finding'[k] = finding[k]
      BY <3>2, <3>5, <3>6
    <3>8. mark.by = m /\ m # Nobody
      BY <3>2, <3>3, <3>6 DEF Nobody
    <3> QED  BY <1>2, <3>7, <3>8 DEF Forward, Active
  <2>3. ASSUME finding' = finding
        PROVE  Forward'
    BY <1>2, <2>3 DEF Forward
  <2> QED  BY <1>2, <2>1, <2>2, <2>3 DEF FindingsNext, GiveUp, GetReviewFinding, findingVars
<1> QED  BY <1>1, <1>2, FindingsInvariant, PTL DEF FindingsSpec

\* A set of numbers has a least one.
LEMMA Smallest ==
    ASSUME NEW T \in SUBSET Nat, T # {}
    PROVE  \E k \in T : \A j \in T : k <= j
<1> DEFINE less == {pair \in Nat \X Nat : pair[1] < pair[2]}
<1>1. IsWellFoundedOn(less, Nat)
  BY NatLessThanWellFounded, Zenon DEF OpToRel
<1>2. PICK k \in T : \A j \in T : ~(<<j, k>> \in less)
  <2> HIDE DEF less
  <2> QED  BY <1>1, WFMin
<1>3. ASSUME NEW j \in T, j < k
      PROVE  FALSE
  BY <1>2, <1>3
<1> QED  BY <1>3

\* The function that follows replacements exists, for any number of steps.
After(f) == IF finding[f].by = Nobody THEN f ELSE finding[f].by
Follows(i, n, g) == g = [k \in 0..n |-> IF k = 0 THEN i ELSE After(g[k - 1])]

LEMMA FollowingExists ==
    ASSUME NEW i, NEW n \in Nat
    PROVE  \E g : Follows(i, n, g)
<1> DEFINE T == {m \in Nat : ~ \E g : Follows(i, m, g)}
<1>1. SUFFICES ASSUME T # {}
               PROVE  FALSE
  OBVIOUS
<1>2. PICK m \in T : \A k \in T : m <= k
  <2>1. T \in SUBSET Nat
    OBVIOUS
  <2> HIDE DEF T
  <2> QED  BY <1>1, <2>1, Smallest
<1>3. m \in Nat /\ ~ \E g : Follows(i, m, g)
  OBVIOUS
<1>4. CASE m = 0
  <2>1. PICK g : g = [k \in 0..0 |-> i]
    OBVIOUS
  <2>2. g = [k \in 0..0 |-> IF k = 0 THEN i ELSE After(g[k - 1])]
    BY <2>1
  <2> QED  BY <1>3, <1>4, <2>2 DEF Follows
<1>5. CASE m # 0
  <2>1. PICK p \in Nat : p = m - 1 /\ p < m
    BY <1>3, <1>5
  <2>2. p \notin T
    BY <1>2, <2>1
  <2>3. PICK g : Follows(i, p, g)
    BY <2>2
  <2>4. g[0] = i /\ \A k \in 1..p : g[k] = After(g[k - 1])
    BY <2>3 DEF Follows
  <2>5. PICK h : h = [k \in 0..m |-> IF k = m THEN After(g[p]) ELSE g[k]]
    OBVIOUS
  <2>6. ASSUME NEW k \in 0..m
        PROVE  h[k] = IF k = 0 THEN i ELSE After(h[k - 1])
    <3>1. CASE k = 0
      BY <1>3, <1>5, <2>4, <2>5, <3>1
    <3>2. CASE k \in 1..p
      <4>1. h[k] = g[k] /\ h[k - 1] = g[k - 1]
        BY <2>1, <2>5, <3>2
      <4> QED  BY <2>4, <3>2, <4>1
    <3>3. CASE k = m
      <4>1. h[k] = After(g[p]) /\ h[k - 1] = g[p] /\ k # 0
        BY <1>3, <1>5, <2>1, <2>5, <3>3
      <4> QED  BY <4>1
    <3> QED  BY <1>3, <2>1, <3>1, <3>2, <3>3
  <2>7. Follows(i, m, h)
    BY <2>5, <2>6 DEF Follows
  <2> QED  BY <1>3, <2>7
<1> QED  BY <1>4, <1>5

\* However often findings are superseded, by several reviewers at once and again after
\* they have been, whoever follows the replacements arrives at an active one
\* (runtime.py:190-225).
THEOREM ChainsAlwaysEndActive == FindingsSpec => []ChainsEndActive
<1>1. FindingsInv /\ Forward => ChainsEndActive
  <2> SUFFICES ASSUME FindingsInv, Forward, NEW i \in DOMAIN finding
               PROVE  finding[Current(i)].status = "active"
    BY DEF ChainsEndActive
  <2>1. PICK n \in Nat : n = Len(finding) /\ DOMAIN finding = 1..n
    BY DEF FindingsInv, FindingTypes
  <2>2. PICK g : Follows(i, n, g) /\ Current(i) = g[n]
    <3>1. \E g : Follows(i, n, g)
      BY FollowingExists
    <3>2. \E g : g = [k \in 0..Len(finding) |-> IF k = 0 THEN i
                      ELSE LET f == g[k - 1] IN IF finding[f].by = Nobody THEN f ELSE finding[f].by]
      BY <2>1, <3>1 DEF Follows, After
    <3> QED  BY <2>1, <3>2 DEF Current, Follows, After
  <2>3. g[0] = i /\ \A k \in 1..n : g[k] = After(g[k - 1])
    BY <2>2 DEF Follows
  <2> DEFINE Ahead(k) == g[k] \in 1..n /\ (finding[g[k]].by = Nobody \/ i + k <= g[k])
             T == {k \in 0..n : ~Ahead(k)}
  <2>4. T = {}
    <3>1. SUFFICES ASSUME T # {}
                   PROVE  FALSE
      OBVIOUS
    <3>2. PICK k \in T : \A j \in T : k <= j
      <4>1. T \in SUBSET Nat
        OBVIOUS
      <4> HIDE DEF T
      <4> QED  BY <3>1, <4>1, Smallest
    <3>3. k \in 0..n /\ ~Ahead(k)
      OBVIOUS
    <3>4. CASE k = 0
      BY <2>1, <2>3, <3>3, <3>4
    <3>5. CASE k # 0
      <4>1. PICK j \in 0..n : j = k - 1 /\ j < k /\ k \in 1..n
        BY <3>3, <3>5
      <4>2. Ahead(j)
        BY <3>2, <4>1
      <4>3. g[k] = After(g[j])
        BY <2>3, <4>1
      <4>4. CASE finding[g[j]].by = Nobody
        BY <3>3, <4>2, <4>3, <4>4 DEF After
      <4>5. CASE finding[g[j]].by # Nobody
        <5>1. g[k] = finding[g[j]].by
          BY <4>3, <4>5 DEF After
        <5>2. g[k] \in 1..n /\ g[j] < g[k]
          BY <2>1, <4>2, <4>5, <5>1 DEF Forward
        <5> QED  BY <3>3, <4>1, <4>2, <4>5, <5>2, <2>1
      <4> QED  BY <4>4, <4>5
    <3> QED  BY <3>4, <3>5
  <2>5. Ahead(n)
    <3>1. n \in 0..n
      OBVIOUS
    <3> QED  BY <2>4, <3>1
  <2>6. finding[g[n]].by = Nobody
    BY <2>1, <2>5
  <2> QED  BY <2>1, <2>2, <2>5, <2>6 DEF Forward
<1> QED  BY <1>1, FindingsInvariant, FindingsForward, PTL
-----------------------------------------------------------------------------
(***************************************************************************)
(* The pacing of calls.  What the limiter remembers stands for all calls   *)
(* and limits before: no call is later than the last one, and no cooldown  *)
(* ends later than the end it keeps.                                       *)
(***************************************************************************)
Time == Nat
Phases == {"idle", "asleep", "calls"}
Memory == [at : Phases, last : Time, until : Time, wake : Time]

LimiterTypes ==
    /\ clock \in Time \ {0}
    /\ limiter \in Memory
    /\ called \subseteq Time \ {0}
    /\ limited \subseteq Time \X {429, 529}

LastIsLatest == limiter.last <= clock /\ \A t \in called : t <= limiter.last

UntilIsLatest ==
    /\ limiter.until <= clock + Later(Cooldown429, Cooldown529)
    /\ \A l \in limited : l[1] <= clock /\ l[1] + Cooldown(l[2]) <= limiter.until

\* Whoever is about to call has waited for both.
Waited(t) == limiter.until <= t /\ (limiter.last # Never => limiter.last + MinInterval <= t)
SleepIsEnough == limiter.at = "asleep" => Waited(limiter.wake)

PacingInv == /\ LimiterTypes /\ LastIsLatest /\ UntilIsLatest /\ SleepIsEnough
             /\ CallsArePaced /\ WaitsAreBounded
-----------------------------------------------------------------------------
LEMMA LaterFact ==
    ASSUME NEW t \in Nat, NEW u \in Nat
    PROVE  /\ Later(t, u) \in {t, u} /\ Later(t, u) \in Nat
           /\ t <= Later(t, u) /\ u <= Later(t, u)
BY DEF Later

LEMMA MemoryFact ==
    ASSUME NEW x \in Memory, NEW a \in Phases, NEW t \in Time
    PROVE  /\ [x EXCEPT !.at = a] \in Memory
           /\ [x EXCEPT !.at = a, !.last = t] \in Memory
           /\ [x EXCEPT !.at = a, !.until = t] \in Memory
           /\ [x EXCEPT !.at = a, !.wake = t] \in Memory
BY DEF Memory, Time, Phases

LEMMA CooldownFact ==
    ASSUME NEW code \in {429, 529}
    PROVE  /\ Cooldown(code) \in Nat
           /\ Cooldown(code) <= Later(Cooldown429, Cooldown529)
BY LimiterAssumption DEF Cooldown, Later

\* What wait_until comes to: enough, and no more than the longest of the settings.
LEMMA WaitUntilFact ==
    ASSUME PacingInv
    PROVE  /\ WaitUntil \in Nat /\ Waited(WaitUntil)
           /\ WaitUntil <= clock + Later(MinInterval, Later(Cooldown429, Cooldown529))
<1> DEFINE longest == Later(Cooldown429, Cooldown529)
<1>1. /\ MinInterval \in Nat /\ Cooldown429 \in Nat /\ Cooldown529 \in Nat
      /\ clock \in Nat /\ limiter.last \in Nat /\ limiter.until \in Nat
      /\ limiter.last <= clock /\ limiter.until <= clock + longest
  BY LimiterAssumption DEF PacingInv, LimiterTypes, Memory, Time, LastIsLatest, UntilIsLatest
<1>2. longest \in Nat /\ longest <= Later(MinInterval, longest) /\ MinInterval <= Later(MinInterval, longest)
      /\ Later(MinInterval, longest) \in Nat
  BY <1>1, LaterFact
<1>3. Rested \in Nat /\ (limiter.last # Never => limiter.last + MinInterval <= Rested)
      /\ Rested <= clock + MinInterval
  BY <1>1 DEF Rested, Never
<1>4. /\ Later(Rested, limiter.until) \in {Rested, limiter.until}
      /\ Rested <= Later(Rested, limiter.until) /\ limiter.until <= Later(Rested, limiter.until)
  BY <1>1, <1>3, LaterFact
<1>5. /\ WaitUntil \in {clock, Rested, limiter.until}
      /\ Rested <= WaitUntil /\ limiter.until <= WaitUntil
  BY <1>1, <1>3, <1>4, LaterFact DEF WaitUntil, Later
<1> HIDE DEF longest
<1>6. WaitUntil <= clock + Later(MinInterval, longest)
  BY <1>1, <1>2, <1>3, <1>5
<1> QED  BY <1>1, <1>3, <1>5, <1>6 DEF Waited, longest

\* A call keeps the invariant when what it has to wait for is over.
LEMMA CallIsPaced ==
    ASSUME PacingInv, Call, Waited(clock)
    PROVE  PacingInv'
<1> USE DEF PacingInv, Call, Now
<1>1. /\ clock' = clock /\ limited' = limited /\ called' = called \cup {clock}
      /\ limiter'.at = "calls" /\ limiter'.last = clock /\ limiter'.until = limiter.until
  BY DEF LimiterTypes, Memory
<1>2. LimiterTypes'
  <2>1. limiter \in Memory /\ "calls" \in Phases /\ clock \in Time
    BY DEF LimiterTypes, Phases, Time
  <2>2. limiter' \in Memory
    BY <2>1, MemoryFact
  <2> QED  BY <2>2, <1>1 DEF LimiterTypes
<1>3. LastIsLatest'
  BY <1>1 DEF LastIsLatest, LimiterTypes, Memory, Time
<1>4. UntilIsLatest'
  BY <1>1 DEF UntilIsLatest, Cooldown, Later
<1>5. SleepIsEnough' /\ WaitsAreBounded'
  BY <1>1 DEF SleepIsEnough, WaitsAreBounded
<1>6. CallsArePaced'
  <2> SUFFICES ASSUME NEW t \in called'
               PROVE  /\ \A u \in called' : t < u => t + MinInterval <= u
                      /\ \A l \in limited' : l[1] < t => l[1] + Cooldown(l[2]) <= t
    BY DEF CallsArePaced, Cooldown
  <2>1. MinInterval \in Nat /\ clock \in Nat \ {0} /\ limiter.last \in Nat /\ limiter.until \in Nat
        /\ called \subseteq Nat \ {0} /\ limiter.last <= clock
    BY LimiterAssumption DEF LimiterTypes, Memory, Time, LastIsLatest
  <2>2. ASSUME NEW u \in called', t < u
        PROVE  t + MinInterval <= u
    <3>1. CASE t \in called /\ u \in called
      BY <2>2, <3>1 DEF CallsArePaced
    <3>2. CASE t \in called /\ u = clock
      <4>1. t <= limiter.last /\ limiter.last # Never
        BY <3>2, <2>1 DEF LastIsLatest, Never
      <4> QED  BY <4>1, <3>2, <2>1 DEF Waited
    <3>3. CASE t = clock
      <4>1. u <= clock
        BY <1>1, <2>1 DEF LastIsLatest
      <4> QED  BY <4>1, <3>3, <2>1, <2>2, <1>1
    <3> QED  BY <1>1, <3>1, <3>2, <3>3
  <2>3. ASSUME NEW l \in limited', l[1] < t
        PROVE  l[1] + Cooldown(l[2]) <= t
    <3>1. CASE t \in called
      BY <2>3, <3>1, <1>1 DEF CallsArePaced
    <3>2. CASE t = clock
      <4>1. l[1] \in Nat /\ l[2] \in {429, 529}
        BY <2>3, <1>1 DEF LimiterTypes, Time
      <4>2. Cooldown(l[2]) \in Nat /\ l[1] + Cooldown(l[2]) <= limiter.until
        BY <2>3, <4>1, <1>1, CooldownFact DEF UntilIsLatest
      <4> QED  BY <4>1, <4>2, <3>2, <2>1 DEF Waited
    <3> QED  BY <1>1, <3>1, <3>2
  <2> QED  BY <2>2, <2>3
<1> QED  BY <1>2, <1>3, <1>4, <1>5, <1>6

\* An error's cooldown begins now: no call is later, and no end it replaces either.
LEMMA ErrorIsRemembered ==
    ASSUME PacingInv, NEW code \in {429, 529}, RecordProviderError(code)
    PROVE  PacingInv'
<1> USE DEF PacingInv, RecordProviderError
<1>1. /\ clock' = clock /\ called' = called /\ limited' = limited \cup {<<clock, code>>}
      /\ limiter'.at = "idle" /\ limiter'.last = limiter.last /\ limiter'.until = CooledUntil(code)
  BY DEF LimiterTypes, Memory
<1>2. clock \in Nat /\ limiter.until \in Nat /\ limiter.last \in Nat /\ Cooldown(code) \in Nat
      /\ Cooldown(code) <= Later(Cooldown429, Cooldown529)
      /\ Later(Cooldown429, Cooldown529) \in Nat
  BY CooldownFact, LaterFact, LimiterAssumption DEF LimiterTypes, Memory, Time
<1>3. /\ CooledUntil(code) \in {limiter.until, clock + Cooldown(code)}
      /\ limiter.until <= CooledUntil(code) /\ clock + Cooldown(code) <= CooledUntil(code)
  BY <1>2, LaterFact DEF CooledUntil
<1>4. LimiterTypes'
  <2>1. CooledUntil(code) \in Nat
    BY <1>2, <1>3
  <2>2. limiter \in Memory /\ "idle" \in Phases /\ CooledUntil(code) \in Time
    BY <2>1 DEF LimiterTypes, Phases, Time
  <2>3. limiter' \in Memory
    <3>1. limiter' = [limiter EXCEPT !.at = "idle", !.until = CooledUntil(code)]
      BY DEF RecordProviderError
    <3> HIDE DEF PacingInv, RecordProviderError
    <3> DEFINE end == CooledUntil(code)
    <3>2. end \in Time /\ limiter' = [limiter EXCEPT !.at = "idle", !.until = end]
      BY <3>1, <2>2
    <3> HIDE DEF end
    <3> QED  BY <2>2, <3>2, MemoryFact
  <2>4. limited' \subseteq Time \X {429, 529}
    BY <1>1, <1>2 DEF LimiterTypes, Time
  <2> QED  BY <2>3, <2>4, <1>1 DEF LimiterTypes
<1>5. LastIsLatest' /\ SleepIsEnough' /\ WaitsAreBounded'
  BY <1>1 DEF LastIsLatest, SleepIsEnough, WaitsAreBounded
<1>6. UntilIsLatest'
  <2>1. CooledUntil(code) <= clock + Later(Cooldown429, Cooldown529)
    BY <1>2, <1>3 DEF UntilIsLatest
  <2>2. ASSUME NEW l \in limited'
        PROVE  l[1] <= clock /\ l[1] + Cooldown(l[2]) <= CooledUntil(code)
    <3>1. CASE l = <<clock, code>>
      BY <3>1, <1>2, <1>3
    <3>2. CASE l \in limited
      <4>1. l[1] \in Nat /\ l[2] \in {429, 529}
        BY <3>2 DEF LimiterTypes, Time
      <4>2. Cooldown(l[2]) \in Nat
        BY <4>1, CooldownFact
      <4>3. l[1] <= clock /\ l[1] + Cooldown(l[2]) <= limiter.until
        BY <3>2 DEF UntilIsLatest
      <4>4. CooledUntil(code) \in Nat
        BY <1>2, <1>3
      <4> QED  BY <4>1, <4>2, <4>3, <4>4, <1>2, <1>3
    <3> QED  BY <1>1, <3>1, <3>2
  <2>3. /\ limiter'.until <= clock' + Later(Cooldown429, Cooldown529)
        /\ \A l \in limited' : l[1] <= clock' /\ l[1] + Cooldown(l[2]) <= limiter'.until
    BY <2>1, <2>2, <1>1
  <2> QED  BY <2>3 DEF UntilIsLatest, Cooldown, Later
<1>7. CallsArePaced'
  <2>1. ASSUME NEW t \in called
        PROVE  ~(clock < t)
    BY <1>2, <2>1 DEF LastIsLatest, LimiterTypes, Memory, Time
  <2>2. /\ \A t, u \in called : t < u => t + MinInterval <= u
        /\ \A t \in called : \A l \in limited' : l[1] < t => l[1] + Cooldown(l[2]) <= t
    BY <2>1, <1>1 DEF CallsArePaced
  <2> QED  BY <2>2, <1>1 DEF CallsArePaced, Cooldown
<1> QED  BY <1>4, <1>5, <1>6, <1>7
-----------------------------------------------------------------------------
\* The inductive invariant of the limiter (rate_limiter.py:69-105): what it remembers
\* covers every call and every limit so far, and no sleep is too short or too long.
THEOREM PacingInvariant == LimiterSpec => []PacingInv
<1>1. LimiterInit => PacingInv
  BY LimiterAssumption, LaterFact
  DEF LimiterInit, Fresh, Never, PacingInv, LimiterTypes, Memory, Time, Phases, LastIsLatest, UntilIsLatest,
      SleepIsEnough, CallsArePaced, WaitsAreBounded
<1>2. ASSUME PacingInv, [LimiterNext]_limiterVars
      PROVE  PacingInv'
  <2> USE <1>2
  <2>1. CASE Tick
    <3>1. /\ clock' = clock + 1 /\ limiter' = limiter /\ called' = called /\ limited' = limited
      BY <2>1 DEF Tick
    <3>2. LimiterTypes'
      BY <3>1 DEF PacingInv, LimiterTypes, Time
    <3>3. LastIsLatest'
      BY <3>1 DEF PacingInv, LastIsLatest, LimiterTypes, Memory, Time
    <3>4. UntilIsLatest'
      <4>1. Later(Cooldown429, Cooldown529) \in Nat
        BY LimiterAssumption, LaterFact
      <4>2. /\ limiter.until <= clock + 1 + Later(Cooldown429, Cooldown529)
            /\ \A l \in limited : l[1] <= clock + 1
        BY <4>1 DEF PacingInv, UntilIsLatest, LimiterTypes, Memory, Time
      <4> QED  BY <3>1, <4>2 DEF PacingInv, UntilIsLatest, Cooldown, Later
    <3>5. SleepIsEnough' /\ CallsArePaced'
      BY <3>1 DEF PacingInv, SleepIsEnough, Waited, CallsArePaced, Cooldown
    <3>6. WaitsAreBounded'
      <4>1. Later(MinInterval, Later(Cooldown429, Cooldown529)) \in Nat
        BY LimiterAssumption, LaterFact
      <4>2. limiter.at = "asleep" =>
                limiter.wake <= clock + 1 + Later(MinInterval, Later(Cooldown429, Cooldown529))
        BY <4>1 DEF PacingInv, WaitsAreBounded, LimiterTypes, Memory, Time
      <4> QED  BY <3>1, <4>2 DEF WaitsAreBounded, Later
    <3> QED  BY <3>2, <3>3, <3>4, <3>5, <3>6 DEF PacingInv
  <2>2. CASE WaitBeforeDispatch
    <3>1. CASE WaitUntil > clock
      <4>1. /\ clock' = clock /\ called' = called /\ limited' = limited
            /\ limiter' = [limiter EXCEPT !.at = "asleep", !.wake = WaitUntil]
        BY <2>2, <3>1 DEF WaitBeforeDispatch
      <4>2. /\ limiter'.at = "asleep" /\ limiter'.wake = WaitUntil
            /\ limiter'.last = limiter.last /\ limiter'.until = limiter.until
        BY <4>1 DEF PacingInv, LimiterTypes, Memory
      <4>3. LimiterTypes'
        <5>1. limiter \in Memory /\ "asleep" \in Phases /\ WaitUntil \in Time
          BY WaitUntilFact DEF PacingInv, LimiterTypes, Time, Phases
        <5>2. limiter' \in Memory
          BY <5>1, <4>1, MemoryFact
        <5> QED  BY <5>2, <4>1 DEF PacingInv, LimiterTypes
      <4>4. LastIsLatest' /\ UntilIsLatest' /\ CallsArePaced'
        BY <4>1, <4>2 DEF PacingInv, LastIsLatest, UntilIsLatest, CallsArePaced, Cooldown, Later
      <4>5. SleepIsEnough'
        BY <4>2, WaitUntilFact DEF SleepIsEnough, Waited
      <4>6. WaitsAreBounded'
        BY <4>1, <4>2, WaitUntilFact DEF WaitsAreBounded, Later
      <4> QED  BY <4>3, <4>4, <4>5, <4>6 DEF PacingInv
    <3>2. CASE ~(WaitUntil > clock)
      <4>1. Call
        BY <2>2, <3>2 DEF WaitBeforeDispatch
      <4>2. Waited(clock)
        BY <3>2, WaitUntilFact, LimiterAssumption DEF Waited, PacingInv, LimiterTypes, Memory, Time
      <4> QED  BY <4>1, <4>2, CallIsPaced
    <3> QED  BY <3>1, <3>2
  <2>3. CASE Wake
    <3>1. Call /\ Waited(clock)
      BY <2>3, LimiterAssumption DEF Wake, PacingInv, SleepIsEnough, Waited, LimiterTypes, Memory, Time
    <3> QED  BY <3>1, CallIsPaced
  <2>4. CASE Answer
    <3>1. /\ clock' = clock /\ called' = called /\ limited' = limited
          /\ limiter' = [limiter EXCEPT !.at = "idle"]
      BY <2>4 DEF Answer
    <3>2. limiter'.at = "idle" /\ limiter'.last = limiter.last /\ limiter'.until = limiter.until
      BY <3>1 DEF PacingInv, LimiterTypes, Memory
    <3>3. LimiterTypes'
      <4>1. limiter \in Memory /\ "idle" \in Phases /\ clock \in Time
        BY DEF PacingInv, LimiterTypes, Phases, Time
      <4>2. limiter' \in Memory
        BY <4>1, <3>1, MemoryFact
      <4> QED  BY <4>2, <3>1 DEF PacingInv, LimiterTypes
    <3> QED  BY <3>1, <3>2, <3>3
             DEF PacingInv, LastIsLatest, UntilIsLatest, SleepIsEnough, CallsArePaced, WaitsAreBounded,
                 Cooldown, Later
  <2>5. ASSUME NEW code \in {429, 529}, RecordProviderError(code)
        PROVE  PacingInv'
    BY <2>5, ErrorIsRemembered
  <2>6. CASE UNCHANGED limiterVars
    BY <2>6 DEF limiterVars, PacingInv, LimiterTypes, LastIsLatest, UntilIsLatest, SleepIsEnough, Waited,
                CallsArePaced, WaitsAreBounded, Cooldown, Later
  <2> QED  BY <2>1, <2>2, <2>3, <2>4, <2>5, <2>6 DEF LimiterNext
<1> QED  BY <1>1, <1>2, PTL DEF LimiterSpec

\* For every interval and cooldown, and however late sleeps end: a command's calls keep
\* their distance, and none falls into a cooldown it has met (rate_limiter.py:73-83, 104).
THEOREM CallsAlwaysPaced == LimiterSpec => []CallsArePaced
<1>1. PacingInv => CallsArePaced
  BY DEF PacingInv
<1> QED  BY <1>1, PacingInvariant, PTL

\* No wait is longer than the longest of the settings (rate_limiter.py:76-81).
THEOREM WaitsAlwaysBounded == LimiterSpec => []WaitsAreBounded
<1>1. PacingInv => WaitsAreBounded
  BY DEF PacingInv
<1> QED  BY <1>1, PacingInvariant, PTL

\* Both bounds of a wait together (rate_limiter.py:67-89).
THEOREM PacingAlwaysHolds == LimiterSpec => []PacingHolds
<1>1. CallsArePaced /\ WaitsAreBounded => PacingHolds
  BY DEF PacingHolds
<1> QED  BY <1>1, CallsAlwaysPaced, WaitsAlwaysBounded, PTL
-----------------------------------------------------------------------------
(***************************************************************************)
(* The evidence gate.  But for the hash of a sealed chain, facts are only  *)
(* ever added: nothing else a gate has been satisfied with goes away, and  *)
(* a result that is not real stays.                                        *)
(***************************************************************************)
Facts == [agentResults : SUBSET Grade, artifacts : SUBSET (Type \X Path), reviewArtifacts : BOOLEAN,
          verificationResults : SUBSET ({"ui_smoke"} \X Verdict), coverageLanes : SUBSET Verdict,
          skillUsage : BOOLEAN, eventHashChain : BOOLEAN]
EvidenceInv == facts \in Facts /\ there \subseteq Path

Grown(f, g) ==
    /\ f.agentResults \subseteq g.agentResults /\ f.artifacts \subseteq g.artifacts
    /\ f.verificationResults \subseteq g.verificationResults
    /\ f.coverageLanes \subseteq g.coverageLanes
    /\ f.reviewArtifacts => g.reviewArtifacts
    /\ f.skillUsage => g.skillUsage

LEMMA FactsGrow ==
    ASSUME EvidenceInv, [EvidenceNext]_evidenceVars
    PROVE  EvidenceInv' /\ Grown(facts, facts')
<1>0. PICK f \in Facts : f = facts
  BY DEF EvidenceInv
<1>1. CASE UNCHANGED evidenceVars
  BY <1>1 DEF evidenceVars, EvidenceInv, Grown
<1>2. ASSUME NEW g \in Grade, SubmitResult(g)
      PROVE  EvidenceInv' /\ Grown(facts, facts')
  <2>1. PICK n \in SUBSET Grade : n = f.agentResults \cup {g}
    BY DEF Facts
  <2>2. facts' = [f EXCEPT !.agentResults = n] /\ there' = there
    BY <1>0, <1>2, <2>1 DEF SubmitResult, Learn, Facts
  <2> QED  BY <1>0, <2>1, <2>2 DEF EvidenceInv, Facts, Grown
<1>3. ASSUME NEW t \in Type, NEW q \in Path, InsertArtifact(t, q)
      PROVE  EvidenceInv' /\ Grown(facts, facts')
  <2>0. f.artifacts \in SUBSET (Type \X Path) /\ <<t, q>> \in Type \X Path
    BY DEF Facts
  <2>1. PICK n \in SUBSET (Type \X Path) : n = f.artifacts \cup {<<t, q>>}
    <3> DEFINE S == Type \X Path
    <3>1. f.artifacts \in SUBSET S /\ <<t, q>> \in S
      BY <2>0
    <3> HIDE DEF S
    <3>2. f.artifacts \cup {<<t, q>>} \in SUBSET S
      BY <3>1
    <3> QED  BY <3>2 DEF S
  <2>2. facts' = [f EXCEPT !.artifacts = n] /\ there' = there
    BY <1>0, <1>3, <2>1 DEF InsertArtifact, Learn, Facts
  <2> QED  BY <1>0, <2>1, <2>2 DEF EvidenceInv, Facts, Grown
<1>4. ASSUME NEW v \in Verdict, Verify(v)
      PROVE  EvidenceInv' /\ Grown(facts, facts')
  <2>0. f.verificationResults \in SUBSET ({"ui_smoke"} \X Verdict) /\ <<"ui_smoke", v>> \in {"ui_smoke"} \X Verdict
    BY DEF Facts
  <2>1. PICK n \in SUBSET ({"ui_smoke"} \X Verdict) : n = f.verificationResults \cup {<<"ui_smoke", v>>}
    <3> DEFINE S == {"ui_smoke"} \X Verdict
    <3>1. f.verificationResults \in SUBSET S /\ <<"ui_smoke", v>> \in S
      BY <2>0
    <3> HIDE DEF S
    <3>2. f.verificationResults \cup {<<"ui_smoke", v>>} \in SUBSET S
      BY <3>1
    <3> QED  BY <3>2 DEF S
  <2>2. facts' = [f EXCEPT !.verificationResults = n] /\ there' = there
    BY <1>0, <1>4, <2>1 DEF Verify, Learn, Facts
  <2> QED  BY <1>0, <2>1, <2>2 DEF EvidenceInv, Facts, Grown
<1>5. ASSUME NEW v \in Verdict, UpdateLane(v)
      PROVE  EvidenceInv' /\ Grown(facts, facts')
  <2>1. PICK n \in SUBSET Verdict : n = f.coverageLanes \cup {v}
    BY DEF Facts
  <2>2. facts' = [f EXCEPT !.coverageLanes = n] /\ there' = there
    BY <1>0, <1>5, <2>1 DEF UpdateLane, Learn, Facts
  <2> QED  BY <1>0, <2>1, <2>2 DEF EvidenceInv, Facts, Grown
<1>6. CASE RecordReview \/ UseSkill \/ \E h \in BOOLEAN : SealChain(h)
  <2>1. /\ there' = there
        /\ \/ facts' = [f EXCEPT !.reviewArtifacts = TRUE]
           \/ facts' = [f EXCEPT !.skillUsage = TRUE]
           \/ \E h \in BOOLEAN : facts' = [f EXCEPT !.eventHashChain = h]
    BY <1>0, <1>6 DEF RecordReview, UseSkill, SealChain, Learn
  <2> QED  BY <1>0, <2>1 DEF EvidenceInv, Facts, Grown
<1>7. ASSUME NEW q \in Path, MoveFile(q)
      PROVE  EvidenceInv' /\ Grown(facts, facts')
  BY <1>7 DEF MoveFile, EvidenceInv, Grown
<1> QED  BY <1>1, <1>2, <1>3, <1>4, <1>5, <1>6, <1>7 DEF EvidenceNext

LEMMA EvidenceInvariant == EvidenceSpec => []EvidenceInv
<1>1. EvidenceInit => EvidenceInv
  BY DEF EvidenceInit, NoFacts, EvidenceInv, Facts
<1> QED  BY <1>1, FactsGrow, PTL DEF EvidenceSpec

\* Every profile asks who has provided the results.
LEMMA AllAskForProvider == \A p \in Profile : Requirements(p).provider = TRUE
BY DEF Profile, Requirements, Nothing, Mvp

\* What satisfies a requirement still does when more is known, no other artifact lacks its
\* file and the seal has kept its hash.
LEMMA MoreIsEnough ==
    ASSUME EvidenceInv, EvidenceInv', Grown(facts, facts'), NEW r, ~Incomplete(r), ~TamperedWith(r),
           WithoutFile' \subseteq WithoutFile, facts.eventHashChain => facts'.eventHashChain
    PROVE  ~Incomplete(r)' /\ ~TamperedWith(r)'
<1>1. ASSUME NEW t \in r.artifacts
      PROVE  PathsOf(t)' # {} /\ PathsOf(t)' \subseteq there'
  <2>1. PathsOf(t) # {} /\ PathsOf(t) \subseteq there
    BY DEF Incomplete
  <2>2. PathsOf(t) \subseteq PathsOf(t)'
    BY DEF PathsOf, Grown
  <2>3. ASSUME NEW q \in PathsOf(t)'
        PROVE  q \in there'
    <3>1. q \in Path /\ <<t, q>> \in facts'.artifacts /\ <<t, q>>[2] = q
      BY DEF PathsOf
    <3>2. SUFFICES ASSUME <<t, q>> \in WithoutFile'
                   PROVE  FALSE
      BY <3>1 DEF WithoutFile
    <3>3. <<t, q>> \in facts.artifacts /\ q \notin there
      BY <3>1, <3>2 DEF WithoutFile
    <3> QED  BY <2>1, <3>1, <3>3 DEF PathsOf
  <2> QED  BY <2>1, <2>2, <2>3
<1>2. \A k \in r.verifications : Verified(k)'
  BY DEF Incomplete, Verified, Grown
<1>3. r.lane => "pass" \in facts'.coverageLanes
  BY DEF Incomplete, Grown
<1>4. r.skill => facts'.skillUsage
  BY DEF Incomplete, Grown
<1>5. r.review => HasReviewArtifact'
  <2>1. PathsOf("review") \subseteq PathsOf("review")'
    BY DEF PathsOf, Grown
  <2> QED  BY <2>1 DEF Incomplete, HasReviewArtifact, Grown
<1>6. ~TamperedWith(r)'
  BY DEF TamperedWith, Grown
<1> QED  BY <1>1, <1>2, <1>3, <1>4, <1>5, <1>6 DEF Incomplete

\* A result that is not real is never made up for, and only a file that is missing or a seal
\* without a hash takes a verdict back besides (evidence_policy.py:75-140).
THEOREM GateAlwaysMonotone == EvidenceSpec => GateIsMonotone
<1>1. ASSUME EvidenceInv, [EvidenceNext]_evidenceVars, facts.agentResults \ {"real"} # {},
             NEW p \in Profile
      PROVE  Evaluate(p)' = "fail"
  <2>1. ProviderIssues(facts.agentResults)' # {}
    BY <1>1, FactsGrow DEF ProviderIssues, Grown
  <2> QED  BY <1>1, <2>1, AllAskForProvider DEF Evaluate
<1>2. ASSUME EvidenceInv, [EvidenceNext]_evidenceVars,
             facts'.agentResults \ {"real"} = facts.agentResults \ {"real"},
             WithoutFile' \subseteq WithoutFile, facts.eventHashChain => facts'.eventHashChain,
             NEW p \in Profile, Evaluate(p) = "pass"
      PROVE  Evaluate(p)' = "pass"
  <2>1. PICK r : r = Requirements(p)
    OBVIOUS
  <2>2. ~Incomplete(r) /\ ~TamperedWith(r) /\ ~(r.provider /\ ProviderIssues(facts.agentResults) # {})
    BY <1>2, <2>1 DEF Evaluate
  <2>3. ~Incomplete(r)' /\ ~TamperedWith(r)'
    BY <1>2, <2>2, FactsGrow, MoreIsEnough
  <2>4. ~(r.provider /\ ProviderIssues(facts'.agentResults) # {})
    BY <1>2, <2>2 DEF ProviderIssues
  <2> QED  BY <2>1, <2>3, <2>4 DEF Evaluate
<1>3. EvidenceInv /\ [EvidenceNext]_evidenceVars =>
        [facts.agentResults \ {"real"} # {} => \A p \in Profile : Evaluate(p)' = "fail"]_evidenceVars
  BY <1>1
<1>4. EvidenceInv /\ [EvidenceNext]_evidenceVars =>
        [/\ facts'.agentResults \ {"real"} = facts.agentResults \ {"real"}
         /\ WithoutFile' \subseteq WithoutFile
         /\ facts.eventHashChain => facts'.eventHashChain
         => \A p \in Profile : Evaluate(p) = "pass" => Evaluate(p)' = "pass"]_evidenceVars
  BY <1>2
<1>5. EvidenceSpec => TaintIsForever
  BY <1>3, EvidenceInvariant, PTL DEF EvidenceSpec, TaintIsForever
<1>6. EvidenceSpec => OnlyLossHurts
  BY <1>4, EvidenceInvariant, PTL DEF EvidenceSpec, OnlyLossHurts
<1> QED  BY <1>5, <1>6 DEF GateIsMonotone
-----------------------------------------------------------------------------
(***************************************************************************)
(* The facade.  A call goes through a list -- of operations, of nodes --   *)
(* while others move the nodes: what it has been through so far is spared, *)
(* or has left, because nodes do not return to where they were found.      *)
(***************************************************************************)
TrailStep == {"run_created", "directive_recorded", "gate_bypass_attempt", "decision_applied"}
Item == Node \cup Operations \cup TrailStep
JobPhase == {"idle", "trail", "returned", "validate", "accepted", "reject", "rejected",
             "check", "update", "event", "recovered"}
Job == [at : JobPhase, row : Nat, plan : Seq(Operations), todo : Seq(Item),
        errors : SUBSET {"unknown_node", "done_node_protected"}, seen : SUBSET Node, left : SUBSET Node]
RowKind == {"run", "directive", "bypass"}

FacadeTypes ==
    /\ nodes \in [Node -> Status] /\ job \in [Clerk -> Job]
    /\ rows \in Seq(RowKind)
    /\ \A p \in Clerk : job[p].at = "trail" => job[p].todo # <<>>

FacadeInv == FacadeTypes /\ AnswersInv

\* A call's own step: what it leaves its job as is good, and the nodes stay as they are.
LEMMA OneJob ==
    ASSUME FacadeInv, NEW p \in Clerk, NEW j \in Job, job' = [job EXCEPT ![p] = j],
           UNCHANGED nodes, rows' \in Seq(RowKind),
           Validated(j), Recovering(j), j.at = "trail" => j.todo # <<>>
    PROVE  FacadeInv'
<1>1. job \in [Clerk -> Job] /\ nodes \in [Node -> Status]
  BY DEF FacadeInv, FacadeTypes
<1>2. /\ job' \in [Clerk -> Job] /\ job'[p] = j
      /\ \A q \in Clerk \ {p} : job'[q] = job[q]
  BY <1>1
<1>3. FacadeTypes'
  BY <1>1, <1>2 DEF FacadeInv, FacadeTypes
<1>4. ASSUME NEW q \in Clerk
      PROVE  Validated(job[q])' /\ Recovering(job[q])'
  <2>1. PICK k : k = job'[q]
    OBVIOUS
  <2>2. Validated(k) /\ Recovering(k)
    BY <1>2, <2>1 DEF FacadeInv, AnswersInv
  <2>3. Validated(k)' /\ Recovering(k)'
    BY <2>2 DEF Validated, Recovering
  <2> QED  BY <2>1, <2>3 DEF Validated, Recovering
<1> QED  BY <1>3, <1>4 DEF FacadeInv, AnswersInv

LEMMA NoJobFact == NoJob \in Job /\ NoJob.at = "idle" /\ Validated(NoJob) /\ Recovering(NoJob)
<1>1. <<>> \in Seq(Operations) /\ <<>> \in Seq(Item)
  OBVIOUS
<1> QED  BY <1>1 DEF NoJob, Job, JobPhase, Validated, Recovering

\* What is left of a list when its first element is gone.
LEMMA TailFact ==
    ASSUME NEW S, NEW s \in Seq(S), s # <<>>
    PROVE  /\ Len(s) \in Nat \ {0} /\ Head(s) = s[1] /\ Head(s) \in S
           /\ Tail(s) \in Seq(S) /\ Len(Tail(s)) = Len(s) - 1
           /\ \A i \in 1..(Len(s) - 1) : Tail(s)[i] = s[i + 1]
           /\ (Tail(s) = <<>>) <=> (Len(s) = 1)
           /\ DOMAIN s = 1..Len(s) /\ DOMAIN Tail(s) = 1..(Len(s) - 1)
<1>1. Len(s) \in Nat \ {0} /\ DOMAIN s = 1..Len(s) /\ Head(s) = s[1] /\ 1 \in DOMAIN s
  OBVIOUS
<1>2. s[1] \in S
  BY <1>1
<1>3. Tail(s) \in Seq(S) /\ Len(Tail(s)) = Len(s) - 1
  OBVIOUS
<1>4. \A i \in 1..(Len(s) - 1) : Tail(s)[i] = s[i + 1]
  OBVIOUS
<1>5. (Tail(s) = <<>>) <=> (Len(s) = 1)
  <2>1. PICK t \in Seq(S) : t = Tail(s)
    BY <1>3
  <2>2. (t = <<>>) <=> (Len(t) = 0)
    OBVIOUS
  <2>3. Len(t) = Len(s) - 1
    BY <1>3, <2>1
  <2> QED  BY <1>1, <2>1, <2>2, <2>3
<1>6. DOMAIN Tail(s) = 1..(Len(s) - 1)
  BY <1>3
<1> QED  BY <1>1, <1>2, <1>3, <1>4, <1>5, <1>6

LEMMA TrailFact ==
    ASSUME NEW kind \in RowKind
    PROVE  Trail(kind) \in Seq(TrailStep) /\ Trail(kind) \in Seq(Item) /\ Trail(kind) # <<>>
<1>1. CASE kind = "run"
  <2>1. Trail(kind) = <<"run_created">> /\ "run_created" \in TrailStep
    BY <1>1 DEF Trail, TrailStep
  <2> QED  BY <2>1 DEF Item
<1>2. CASE kind = "directive"
  <2>1. /\ Trail(kind) = <<"directive_recorded", "decision_applied">>
        /\ "directive_recorded" \in TrailStep /\ "decision_applied" \in TrailStep
    BY <1>2 DEF Trail, TrailStep
  <2> QED  BY <2>1 DEF Item
<1>3. CASE kind = "bypass"
  <2>1. /\ Trail(kind) = <<"directive_recorded", "gate_bypass_attempt", "decision_applied">>
        /\ {"directive_recorded", "gate_bypass_attempt", "decision_applied"} \subseteq TrailStep
    BY <1>3 DEF Trail, TrailStep
  <2> QED  BY <2>1 DEF Item
<1> QED  BY <1>1, <1>2, <1>3 DEF RowKind

LEMMA JobFact ==
    ASSUME FacadeInv, NEW p \in Clerk
    PROVE  /\ job \in [Clerk -> Job] /\ job[p] \in Job /\ Validated(job[p]) /\ Recovering(job[p])
           /\ rows \in Seq(RowKind) /\ nodes \in [Node -> Status]
           /\ job[p].at = "trail" => job[p].todo # <<>>
BY DEF FacadeInv, FacadeTypes, AnswersInv

LEMMA InsertRowKeeps ==
    ASSUME FacadeInv, NEW p \in Clerk, NEW kind \in RowKind, InsertRow(p, kind)
    PROVE  FacadeInv'
<1>1. PICK r \in Nat : r = Len(rows) + 1
  BY JobFact
<1>2. PICK todo \in Seq(Item) : todo = Trail(kind) /\ todo # <<>>
  BY TrailFact
<1>3. PICK j \in Job : j = [NoJob EXCEPT !.at = "trail", !.row = r, !.todo = todo]
  BY NoJobFact DEF Job, JobPhase
<1>4. j.at = "trail" /\ j.todo = todo
  BY <1>3, NoJobFact DEF Job
<1>5. /\ job' = [job EXCEPT ![p] = j] /\ UNCHANGED nodes /\ rows' = Append(rows, kind)
  BY <1>1, <1>2, <1>3 DEF InsertRow, Enter
<1>6. rows' \in Seq(RowKind)
  BY <1>5, JobFact
<1>7. Validated(j) /\ Recovering(j)
  BY <1>4 DEF Validated, Recovering
<1> QED  BY <1>2, <1>4, <1>5, <1>6, <1>7, OneJob

LEMMA AppendTrailKeeps ==
    ASSUME FacadeInv, NEW p \in Clerk, AppendTrail(p)
    PROVE  FacadeInv'
<1>1. PICK t \in Job : t = job[p]
  BY JobFact
<1>2. t.at = "trail" /\ t.todo \in Seq(Item) /\ t.todo # <<>>
  BY <1>1, JobFact DEF AppendTrail, Job
<1>3. PICK a \in {"returned", "trail"} : a = IF Len(t.todo) = 1 THEN "returned" ELSE "trail"
  OBVIOUS
<1>4. PICK todo \in Seq(Item) : todo = Tail(t.todo) /\ (a = "trail" => todo # <<>>)
  BY <1>2, <1>3, TailFact
<1>5. PICK j \in Job : j = [t EXCEPT !.todo = todo, !.at = a]
  BY DEF Job, JobPhase
<1>6. j.at = a /\ j.todo = todo
  BY <1>5 DEF Job
<1>7. job' = [job EXCEPT ![p] = j] /\ UNCHANGED <<nodes, rows>>
  BY <1>1, <1>3, <1>4, <1>5 DEF AppendTrail, Continue
<1>8. Validated(j) /\ Recovering(j)
  BY <1>6 DEF Validated, Recovering
<1> QED  BY <1>4, <1>6, <1>7, <1>8, JobFact, OneJob

LEMMA ValidateKeeps ==
    ASSUME FacadeInv, NEW p \in Clerk, NEW plan \in Plan, Validate(p, plan)
    PROVE  FacadeInv'
<1>1. plan \in Seq(Operations) /\ plan \in Seq(Item)
  <2>1. plan \in Seq(Operations)
    BY FacadeAssumption
  <2>2. Operations \subseteq Item
    BY DEF Item
  <2> QED  BY <2>1, <2>2
<1>2. PICK a \in {"accepted", "validate"} : a = IF plan = <<>> THEN "accepted" ELSE "validate"
  OBVIOUS
<1>3. PICK s \in SUBSET Node : s = {n \in Node : nodes[n] = "done"}
  OBVIOUS
<1>4. PICK j \in Job : j = [NoJob EXCEPT !.at = a, !.plan = plan, !.todo = plan, !.seen = s]
  BY <1>1, NoJobFact DEF Job, JobPhase
<1>5. j.at = a /\ j.plan = plan /\ j.todo = plan /\ j.seen = s /\ j.errors = {}
  BY <1>4, NoJobFact DEF Job, NoJob
<1>6. job' = [job EXCEPT ![p] = j] /\ UNCHANGED <<nodes, rows>>
  BY <1>2, <1>3, <1>4 DEF Validate, Enter
<1>7. Validated(j)
  <2>1. Len(plan) \in Nat /\ DOMAIN plan = 1..Len(plan) /\ Len(plan) - Len(plan) = 0
    BY <1>1
  <2>2. \A i \in DOMAIN plan : plan[i] = plan[0 + i]
    BY <2>1
  <2> QED  BY <1>2, <1>3, <1>5, <2>1, <2>2 DEF Validated
<1>8. Recovering(j)
  BY <1>5 DEF Recovering
<1> QED  BY <1>5, <1>6, <1>7, <1>8, JobFact, OneJob
LEMMA CheckOperationKeeps ==
    ASSUME FacadeInv, NEW p \in Clerk, CheckOperation(p)
    PROVE  FacadeInv'
<1>1. PICK t \in Job : t = job[p]
  BY JobFact
<1>2. /\ t.at = "validate" /\ t.todo \in Seq(Item) /\ t.plan \in Seq(Operations) /\ t.seen \subseteq Node
      /\ Validated(t)
  BY <1>1, JobFact DEF CheckOperation, Job
<1>3. PICK o : o = Head(t.todo)
  OBVIOUS
<1>4. PICK todo \in Seq(Item) : todo = Tail(t.todo)
  BY <1>2, TailFact DEF Validated
<1>5. PICK errors \in SUBSET {"unknown_node", "done_node_protected"} : errors = t.errors \cup ErrorsOf(o)
  BY DEF Job, ErrorsOf
<1>6. PICK a \in {"validate", "accepted", "reject"} :
          a = IF Len(t.todo) > 1 THEN "validate" ELSE IF errors = {} THEN "accepted" ELSE "reject"
  OBVIOUS
<1>7. PICK j \in Job : j = [t EXCEPT !.todo = todo, !.errors = errors, !.at = a]
  BY DEF Job, JobPhase
<1>8. j.at = a /\ j.todo = todo /\ j.errors = errors /\ j.plan = t.plan /\ j.seen = t.seen
  BY <1>7 DEF Job
<1>9. job' = [job EXCEPT ![p] = j] /\ UNCHANGED <<nodes, rows>>
  BY <1>1, <1>3, <1>4, <1>5, <1>6, <1>7 DEF CheckOperation, Continue, WithErrors
<1>10. Validated(j)
  <2> SUFFICES ASSUME a \in {"validate", "accepted"}
               PROVE  Validated(j)
    BY <1>8 DEF Validated
  <2> DEFINE n == Len(t.todo)
             m == Len(t.plan)
  <2>1. /\ n \in Nat \ {0} /\ o = t.todo[1] /\ DOMAIN t.todo = 1..n /\ DOMAIN todo = 1..(n - 1)
        /\ Len(todo) = n - 1 /\ \A i \in 1..(n - 1) : todo[i] = t.todo[i + 1]
        /\ (todo = <<>>) <=> (n = 1)
    BY <1>2, <1>3, <1>4, TailFact DEF Validated
  <2>2. /\ m \in Nat /\ n <= m /\ \A i \in 1..n : t.todo[i] = t.plan[(m - n) + i]
        /\ t.errors = {} => \A i \in 1..(m - n) : t.plan[i].op \in Protected => t.plan[i].node \notin t.seen
        /\ \A x \in t.seen : nodes[x] = "done"
    <3>1. m \in Nat
      BY <1>2
    <3>2. n <= m /\ \A i \in DOMAIN t.todo : t.todo[i] = t.plan[(m - n) + i]
      BY <1>2 DEF Validated
    <3>3. t.errors = {} => \A i \in 1..(m - n) : t.plan[i].op \in Protected => t.plan[i].node \notin t.seen
      BY <1>2 DEF Validated
    <3>4. \A x \in t.seen : nodes[x] = "done"
      BY <1>2 DEF Validated
    <3> QED  BY <2>1, <3>1, <3>2, <3>3, <3>4
  <2> HIDE DEF n, m
  <2>3. /\ n - 1 <= m /\ m - (n - 1) = (m - n) + 1
    BY <2>1, <2>2
  <2>4. \A i \in 1..(n - 1) : todo[i] = t.plan[((m - n) + 1) + i]
    <3>1. ASSUME NEW i \in 1..(n - 1)
          PROVE  todo[i] = t.plan[((m - n) + 1) + i]
      <4>1. i + 1 \in 1..n /\ (m - n) + (i + 1) = ((m - n) + 1) + i
        BY <2>1, <2>2
      <4>2. todo[i] = t.todo[i + 1]
        BY <2>1
      <4>3. t.todo[i + 1] = t.plan[(m - n) + (i + 1)]
        BY <2>2, <4>1
      <4> QED  BY <4>1, <4>2, <4>3
    <3> QED  BY <3>1
  <2>5. ASSUME errors = {}, NEW i \in 1..((m - n) + 1), t.plan[i].op \in Protected
        PROVE  t.plan[i].node \notin t.seen
    <3>1. t.errors = {} /\ ErrorsOf(o) = {}
      BY <1>5, <2>5
    <3>2. CASE i \in 1..(m - n)
      BY <2>2, <2>5, <3>1, <3>2
    <3>3. CASE i = (m - n) + 1
      <4>1. t.plan[i] = o
        BY <2>1, <2>2, <3>3
      <4>2. o.node \in Node => nodes[o.node] # "done"
        BY <2>5, <3>1, <4>1 DEF ErrorsOf
      <4> QED  BY <1>2, <2>2, <4>1, <4>2
    <3> QED  BY <2>1, <2>2, <3>2, <3>3
  <2>6. a = "validate" => todo # <<>>
    BY <1>6, <2>1 DEF n
  <2>7. a = "accepted" => todo = <<>> /\ errors = {}
    BY <1>6, <2>1 DEF n
  <2>8. /\ Len(j.plan) - Len(j.todo) = (m - n) + 1 /\ Len(j.todo) <= Len(j.plan)
        /\ DOMAIN j.todo = 1..(n - 1)
    BY <1>8, <2>1, <2>3 DEF m
  <2> QED  BY <1>8, <2>2, <2>4, <2>5, <2>6, <2>7, <2>8 DEF Validated
<1>11. Recovering(j)
  BY <1>8 DEF Recovering
<1> QED  BY <1>8, <1>9, <1>10, <1>11, JobFact, OneJob

\* A call that ends, or is given up.
LEMMA EndedKeeps ==
    ASSUME FacadeInv, NEW p \in Clerk, Reject(p) \/ Interrupt(p)
    PROVE  FacadeInv'
<1>1. CASE Interrupt(p)
  <2>1. job' = [job EXCEPT ![p] = NoJob] /\ UNCHANGED <<nodes, rows>>
    BY <1>1 DEF Interrupt, Continue
  <2> QED  BY <2>1, NoJobFact, JobFact, OneJob
<1>2. CASE Reject(p)
  <2>1. PICK t \in Job : t = job[p]
    BY JobFact
  <2>2. PICK j \in Job : j = [t EXCEPT !.at = "rejected"]
    BY DEF Job, JobPhase
  <2>3. j.at = "rejected"
    BY <2>2 DEF Job
  <2>4. job' = [job EXCEPT ![p] = j] /\ UNCHANGED <<nodes, rows>>
    BY <1>2, <2>1, <2>2 DEF Reject, Continue
  <2>5. Validated(j) /\ Recovering(j)
    BY <2>3 DEF Validated, Recovering
  <2> QED  BY <2>3, <2>4, <2>5, JobFact, OneJob
<1> QED  BY <1>1, <1>2

\* An order of all nodes that run names every one of them.
LEMMA OrderNamesAll ==
    ASSUME FacadeInv, NEW order \in SetToSeqs(Running)
    PROVE  /\ order \in Seq(Item) /\ Range(order) = Running /\ Running \subseteq Node
           /\ (order = <<>>) => (Running = {})
<1> DEFINE n == Cardinality(Running)
<1>1. Running \subseteq Node /\ IsFiniteSet(Running)
  BY FacadeAssumption, FS_Subset DEF Running
<1>2. n \in Nat
  BY <1>1, FS_CardinalityType
<1>3. order \in [1..n -> Running] /\ \A i, k \in 1..n : i # k => order[i] # order[k]
  BY DEF SetToSeqs
<1>4. order \in Injection(1..n, Running)
  BY <1>3 DEF Injection, IsInjective
<1>5. Cardinality(1..n) = n
  BY <1>2, FS_Interval
<1>6. order \in Surjection(1..n, Running)
  BY <1>1, <1>4, <1>5, FS_Injection
<1>7. \A x \in Running : \E i \in 1..n : order[i] = x
  BY <1>6 DEF Surjection
<1>8. Range(order) = Running
  BY <1>3, <1>7 DEF Range
<1>9. order \in Seq(Item)
  <2>1. Running \subseteq Item
    BY <1>1 DEF Item
  <2> HIDE DEF n
  <2>2. order \in [1..n -> Item]
    BY <1>3, <2>1
  <2> QED  BY <1>2, <2>2
<1>10. (order = <<>>) => (Running = {})
  BY <1>8 DEF Range
<1> QED  BY <1>1, <1>8, <1>9, <1>10

\* What a recovery has, when it turns to the next node of its list or ends with it.
LEMMA OnwardFact ==
    ASSUME NEW t \in Job, Range(t.todo) \subseteq t.seen, t.seen \subseteq t.left \cup Range(t.todo)
    PROVE  /\ Onward(t) \in Job /\ Onward(t).at \in {"check", "recovered"}
           /\ Validated(Onward(t)) /\ Recovering(Onward(t))
<1>1. PICK a \in {"check", "recovered"} : a = IF t.todo = <<>> THEN "recovered" ELSE "check"
  OBVIOUS
<1>2. PICK j \in Job : j = [t EXCEPT !.at = a]
  BY DEF Job, JobPhase
<1>3. j.at = a /\ j.todo = t.todo /\ j.seen = t.seen /\ j.left = t.left
  BY <1>2 DEF Job
<1>4. Onward(t) = j
  BY <1>1, <1>2 DEF Onward
<1>5. Validated(j)
  BY <1>3 DEF Validated
<1>6. t.todo = <<>> => Range(t.todo) = {}
  BY DEF Range
<1>7. Recovering(j)
  BY <1>1, <1>3, <1>6 DEF Recovering
<1> QED  BY <1>3, <1>4, <1>5, <1>7

LEMMA RecoverKeeps ==
    ASSUME FacadeInv, NEW p \in Clerk, RecoverRunningDispatches(p)
    PROVE  FacadeInv'
<1>1. PICK order \in SetToSeqs(Running) :
          Enter(p, Onward([NoJob EXCEPT !.todo = order, !.seen = Running]))
  BY DEF RecoverRunningDispatches
<1>2. PICK s \in SUBSET Node : s = Running
  BY DEF Running
<1>3. order \in Seq(Item) /\ Range(order) = s
  BY <1>2, OrderNamesAll
<1>4. PICK t \in Job : t = [NoJob EXCEPT !.todo = order, !.seen = s]
  BY <1>3, NoJobFact DEF Job
<1>5. t.todo = order /\ t.seen = s
  BY <1>4, NoJobFact DEF Job
<1>6. PICK j : j = Onward(t)
  OBVIOUS
<1>7. j \in Job /\ j.at # "trail" /\ Validated(j) /\ Recovering(j)
  BY <1>3, <1>5, <1>6, OnwardFact
<1>8. job' = [job EXCEPT ![p] = j] /\ UNCHANGED <<nodes, rows>>
  BY <1>1, <1>2, <1>4, <1>6 DEF Enter, RecoverRunningDispatches
<1> QED  BY <1>7, <1>8, JobFact, OneJob

LEMMA CheckRunningKeeps ==
    ASSUME FacadeInv, NEW p \in Clerk, CheckRunning(p)
    PROVE  FacadeInv'
<1>1. PICK t \in Job : t = job[p]
  BY JobFact
<1>2. t.at = "check" /\ UNCHANGED <<nodes, rows>> /\ Recovering(t)
  BY <1>1, JobFact DEF CheckRunning
<1>3. PICK j \in Job : j = [t EXCEPT !.at = "update"]
  BY DEF Job, JobPhase
<1>4. j.at = "update" /\ j.todo = t.todo /\ j.seen = t.seen /\ j.left = t.left
  BY <1>3 DEF Job
<1>5. Validated(j) /\ Recovering(j)
  BY <1>2, <1>4 DEF Validated, Recovering
<1>6. job' = [job EXCEPT ![p] = j] \/ job' = [job EXCEPT ![p] = NoJob]
  BY <1>1, <1>3 DEF CheckRunning, Continue
<1>7. j.at # "trail" /\ NoJob.at # "trail" /\ rows' \in Seq(RowKind)
  BY <1>2, <1>4, NoJobFact, JobFact
<1> QED  BY <1>2, <1>5, <1>6, <1>7, NoJobFact, OneJob

LEMMA AppendRecoveryKeeps ==
    ASSUME FacadeInv, NEW p \in Clerk, AppendRecovery(p)
    PROVE  FacadeInv'
<1>1. PICK t \in Job : t = job[p]
  BY JobFact
<1>2. t.at = "event" /\ Recovering(t) /\ UNCHANGED <<nodes, rows>> /\ t.todo \in Seq(Item)
  BY <1>1, JobFact DEF AppendRecovery, Job
<1>3. /\ t.todo # <<>> /\ Range(t.todo) \subseteq t.seen /\ t.seen \subseteq t.left \cup Range(t.todo)
      /\ Head(t.todo) \in t.left
  BY <1>2 DEF Recovering
<1>4. PICK todo \in Seq(Item) : todo = Tail(t.todo)
  BY <1>2, <1>3, TailFact
<1>5. PICK u \in Job : u = [t EXCEPT !.todo = todo]
  BY DEF Job
<1>6. u.todo = todo /\ u.seen = t.seen /\ u.left = t.left
  BY <1>5 DEF Job
<1>7. Range(t.todo) = {Head(t.todo)} \cup Range(todo)
  <2> DEFINE s == t.todo
  <2>1. /\ Len(s) \in Nat \ {0} /\ Head(s) = s[1] /\ DOMAIN s = 1..Len(s)
        /\ DOMAIN todo = 1..(Len(s) - 1) /\ \A i \in 1..(Len(s) - 1) : todo[i] = s[i + 1]
    BY <1>2, <1>3, <1>4, TailFact
  <2> HIDE DEF s
  <2>2. \A i \in 1..Len(s) : i = 1 \/ (i - 1 \in 1..(Len(s) - 1) /\ (i - 1) + 1 = i)
    BY <2>1
  <2>3. \A i \in 1..(Len(s) - 1) : i + 1 \in 1..Len(s)
    BY <2>1
  <2>4. Range(s) \subseteq {Head(s)} \cup Range(todo)
    <3>1. ASSUME NEW i \in 1..Len(s)
          PROVE  s[i] \in {Head(s)} \cup Range(todo)
      <4>1. CASE i = 1
        BY <2>1, <4>1
      <4>2. CASE i # 1
        <5>1. i - 1 \in DOMAIN todo /\ todo[i - 1] = s[i]
          BY <2>1, <2>2, <4>2
        <5> QED  BY <5>1 DEF Range
      <4> QED  BY <4>1, <4>2
    <3> QED  BY <2>1, <3>1 DEF Range
  <2>5. {Head(s)} \cup Range(todo) \subseteq Range(s)
    BY <2>1, <2>3 DEF Range
  <2> QED  BY <2>4, <2>5 DEF s
<1>8. Range(u.todo) \subseteq u.seen /\ u.seen \subseteq u.left \cup Range(u.todo)
  BY <1>3, <1>6, <1>7
<1>9. PICK j : j = Onward(u)
  OBVIOUS
<1>10. j \in Job /\ j.at # "trail" /\ Validated(j) /\ Recovering(j)
  BY <1>8, <1>9, OnwardFact
<1>11. job' = [job EXCEPT ![p] = j]
  BY <1>1, <1>4, <1>5, <1>9 DEF AppendRecovery, Continue
<1> QED  BY <1>2, <1>10, <1>11, JobFact, OneJob

\* A node leaves running: the calls that have found it there take note of it.
LEMMA LeftFact ==
    ASSUME FacadeInv, NEW n \in Node
    PROVE  \A p \in Clerk :
              /\ Left(n)[p] \in Job /\ Left(n)[p].at = job[p].at /\ Left(n)[p].todo = job[p].todo
              /\ Left(n)[p].plan = job[p].plan /\ Left(n)[p].errors = job[p].errors
              /\ Left(n)[p].seen = job[p].seen /\ job[p].left \subseteq Left(n)[p].left
              /\ n \in job[p].seen /\ job[p].at \in {"check", "update", "event"} => n \in Left(n)[p].left
<1> SUFFICES ASSUME NEW p \in Clerk
             PROVE  LET u == Left(n)[p] IN
              /\ u \in Job /\ u.at = job[p].at /\ u.todo = job[p].todo
              /\ u.plan = job[p].plan /\ u.errors = job[p].errors
              /\ u.seen = job[p].seen /\ job[p].left \subseteq u.left
              /\ n \in job[p].seen /\ job[p].at \in {"check", "update", "event"} => n \in u.left
  BY Zenon
<1>1. PICK t \in Job : t = job[p]
  BY JobFact
<1>2. PICK l \in SUBSET Node : l = t.left \cup {n}
  BY DEF Job
<1>3. PICK v \in Job : v = [t EXCEPT !.left = l]
  BY DEF Job
<1>4. /\ v.left = l /\ v.at = t.at /\ v.todo = t.todo /\ v.plan = t.plan /\ v.errors = t.errors
      /\ v.seen = t.seen
  BY <1>3 DEF Job
<1>5. Left(n)[p] = IF n \in t.seen /\ t.at \in {"check", "update", "event"} THEN v ELSE t
  BY <1>1, <1>2, <1>3 DEF Left
<1> QED  BY <1>1, <1>2, <1>4, <1>5

\* Whatever moves, nodes that are done stay so: what was validated stays valid.
LEMMA MovedKeeps ==
    ASSUME FacadeInv, NEW jobs, jobs \in [Clerk -> Job], job' = jobs, rows' = rows,
           nodes' \in [Node -> Status], \A x \in Node : nodes[x] = "done" => nodes'[x] = "done",
           \A p \in Clerk :
              /\ jobs[p].todo = job[p].todo /\ jobs[p].plan = job[p].plan
              /\ jobs[p].errors = job[p].errors /\ jobs[p].seen = job[p].seen
              /\ job[p].left \subseteq jobs[p].left
              /\ \/ jobs[p].at = job[p].at
                 \/ /\ job[p].at = "update" /\ jobs[p].at = "event" /\ Head(job[p].todo) \in jobs[p].left
    PROVE  FacadeInv'
<1>1. ASSUME NEW p \in Clerk
      PROVE  /\ Validated(job[p])' /\ Recovering(job[p])'
             /\ job'[p].at = "trail" => job'[p].todo # <<>>
  <2>1. PICK t \in Job : t = job[p] /\ Validated(t) /\ Recovering(t) /\ (t.at = "trail" => t.todo # <<>>)
    BY JobFact
  <2>2. PICK u \in Job : u = job'[p]
    OBVIOUS
  <2>3. /\ u.todo = t.todo /\ u.plan = t.plan /\ u.errors = t.errors /\ u.seen = t.seen
        /\ t.left \subseteq u.left /\ t.seen \subseteq Node
        /\ \/ u.at = t.at
           \/ t.at = "update" /\ u.at = "event" /\ Head(t.todo) \in u.left
    BY <2>1, <2>2 DEF Job
  <2>4. Validated(u)'
    BY <2>1, <2>3 DEF Validated
  <2>5. Recovering(u)
    BY <2>1, <2>3 DEF Recovering
  <2>6. Recovering(u)'
    BY <2>5 DEF Recovering
  <2> QED  BY <2>1, <2>2, <2>3, <2>4, <2>6 DEF Validated, Recovering
<1>2. FacadeTypes'
  BY <1>1 DEF FacadeInv, FacadeTypes
<1> QED  BY <1>1, <1>2 DEF FacadeInv, AnswersInv

LEMMA MoveNodeKeeps ==
    ASSUME FacadeInv, NEW n \in Node, NEW to \in Target, MoveNode(n, to)
    PROVE  FacadeInv'
<1>1. /\ Allowed(nodes[n], to) /\ nodes' = [nodes EXCEPT ![n] = to] /\ rows' = rows
      /\ nodes \in [Node -> Status]
      /\ job' = job \/ job' = Left(n)
  BY JobFact DEF MoveNode, FacadeInv, FacadeTypes
<1>2. nodes[n] # "done" /\ to \in Status
  <2>1. nodes[n] \in Status
    BY <1>1
  <2>2. \A s \in Status : AllowedTransitions[s] \subseteq Status /\ (s = "done" => AllowedTransitions[s] = {})
    BY DEF AllowedTransitions, Status
  <2> QED  BY <1>1, <2>1, <2>2 DEF Allowed
<1>3. nodes' \in [Node -> Status] /\ \A x \in Node : nodes[x] = "done" => nodes'[x] = "done"
  BY <1>1, <1>2
<1>4. PICK jobs : jobs = job'
  OBVIOUS
<1>5. CASE jobs = job
  <2>1. jobs \in [Clerk -> Job]
    BY <1>5, JobFact DEF FacadeInv, FacadeTypes
  <2> QED  BY <1>1, <1>3, <1>4, <1>5, <2>1, MovedKeeps
<1>6. CASE jobs = Left(n)
  <2>1. jobs \in [Clerk -> Job]
    BY <1>6, LeftFact DEF Left
  <2>2. \A p \in Clerk : /\ jobs[p].todo = job[p].todo /\ jobs[p].plan = job[p].plan
                         /\ jobs[p].errors = job[p].errors /\ jobs[p].seen = job[p].seen
                         /\ job[p].left \subseteq jobs[p].left /\ jobs[p].at = job[p].at
    BY <1>6, LeftFact
  <2> QED  BY <1>1, <1>3, <1>4, <2>1, <2>2, MovedKeeps
<1> QED  BY <1>1, <1>4, <1>5, <1>6

LEMMA UpdateRunningKeeps ==
    ASSUME FacadeInv, NEW p \in Clerk, UpdateRunning(p)
    PROVE  FacadeInv'
<1>1. PICK t \in Job : t = job[p] /\ Recovering(t)
  BY JobFact
<1>2. PICK n : n = Head(t.todo)
  OBVIOUS
<1>3. t.at = "update" /\ t.todo \in Seq(Item) /\ t.todo # <<>> /\ t.seen \subseteq Node
      /\ Range(t.todo) \subseteq t.seen
  BY <1>1 DEF UpdateRunning, Recovering, Job
<1>4. n \in t.seen /\ n \in Node
  <2>1. 1 \in DOMAIN t.todo /\ n = t.todo[1]
    BY <1>2, <1>3, TailFact
  <2>2. n \in Range(t.todo)
    BY <2>1 DEF Range
  <2> QED  BY <1>3, <2>2
<1>5. /\ nodes' = [nodes EXCEPT ![n] = IF nodes[n] = "running" THEN "agent_unavailable" ELSE nodes[n]]
      /\ job' = [Left(n) EXCEPT ![p].at = "event"] /\ rows' = rows /\ nodes \in [Node -> Status]
  BY <1>1, <1>2, JobFact DEF UpdateRunning
<1>6. nodes' \in [Node -> Status] /\ \A x \in Node : nodes[x] = "done" => nodes'[x] = "done"
  BY <1>4, <1>5 DEF Status
<1>7. PICK left \in [Clerk -> Job] : left = Left(n)
  BY <1>4, LeftFact DEF Left
<1>8. \A q \in Clerk : /\ left[q].todo = job[q].todo /\ left[q].plan = job[q].plan /\ left[q].at = job[q].at
                       /\ left[q].errors = job[q].errors /\ left[q].seen = job[q].seen
                       /\ job[q].left \subseteq left[q].left
  BY <1>4, <1>7, LeftFact
<1>9. n \in left[p].left
  BY <1>1, <1>3, <1>4, <1>7, LeftFact
<1>10. PICK v \in Job : v = [left[p] EXCEPT !.at = "event"]
  BY DEF Job, JobPhase
<1>11. /\ v.at = "event" /\ v.todo = left[p].todo /\ v.plan = left[p].plan /\ v.errors = left[p].errors
       /\ v.seen = left[p].seen /\ v.left = left[p].left
  BY <1>10 DEF Job
<1>12. PICK jobs \in [Clerk -> Job] : jobs = [left EXCEPT ![p] = v]
  OBVIOUS
<1>13. job' = jobs /\ jobs[p] = v /\ \A q \in Clerk : q # p => jobs[q] = left[q]
  BY <1>5, <1>7, <1>10, <1>12
<1>14. \A q \in Clerk :
          /\ jobs[q].todo = job[q].todo /\ jobs[q].plan = job[q].plan
          /\ jobs[q].errors = job[q].errors /\ jobs[q].seen = job[q].seen
          /\ job[q].left \subseteq jobs[q].left
          /\ \/ jobs[q].at = job[q].at
             \/ job[q].at = "update" /\ jobs[q].at = "event" /\ Head(job[q].todo) \in jobs[q].left
  BY <1>1, <1>2, <1>3, <1>8, <1>9, <1>11, <1>13
<1> QED  BY <1>5, <1>6, <1>13, <1>14, MovedKeeps

LEMMA FacadeStep ==
    ASSUME FacadeInv, [FacadeNext]_facadeVars
    PROVE  FacadeInv'
<1>1. CASE UNCHANGED facadeVars
  <2>1. job' = job /\ nodes' = nodes /\ rows' = rows
    BY <1>1 DEF facadeVars
  <2>2. job \in [Clerk -> Job] /\ nodes \in [Node -> Status]
    BY DEF FacadeInv, FacadeTypes
  <2> QED  BY <2>1, <2>2, MovedKeeps
<1>2. CASE FacadeNext
  BY <1>2, MoveNodeKeeps, InsertRowKeeps, ValidateKeeps, AppendTrailKeeps, CheckOperationKeeps,
     EndedKeeps, RecoverKeeps, CheckRunningKeeps, UpdateRunningKeeps, AppendRecoveryKeeps
     DEF FacadeNext, RowKind
<1> QED  BY <1>1, <1>2

LEMMA FacadeInvariant == FacadeSpec => []FacadeInv
<1>1. FacadeInit => FacadeInv
  <2> SUFFICES ASSUME FacadeInit
               PROVE  FacadeInv
    OBVIOUS
  <2>1. \A p \in Clerk : job[p] = NoJob
    BY DEF FacadeInit
  <2>2. FacadeTypes
    BY <2>1, NoJobFact DEF FacadeInit, FacadeTypes, Status
  <2>3. AnswersInv
    BY <2>1, NoJobFact DEF AnswersInv
  <2> QED  BY <2>2, <2>3 DEF FacadeInv
<1> QED  BY <1>1, FacadeStep, PTL DEF FacadeSpec

\* A change set is accepted only if it spares what was done when its validation began, and
\* a recovery returns only when every node it has found running has left since, whoever
\* moves nodes in between (decisions.py:34-66, runtime.py:270-282).
THEOREM AnswersAlwaysHold == FacadeSpec => []AnswersHold
<1>1. FacadeInv => AnswersHold
  <2> SUFFICES ASSUME FacadeInv, NEW p \in Clerk
               PROVE  /\ job[p].at = "accepted" =>
                           \A i \in DOMAIN job[p].plan :
                               job[p].plan[i].op \in Protected => job[p].plan[i].node \notin job[p].seen
                      /\ job[p].at = "recovered" => job[p].seen \subseteq job[p].left
    BY DEF AnswersHold, AcceptedSparesDone, RecoveryClears
  <2>1. PICK t \in Job : t = job[p] /\ Validated(t) /\ Recovering(t)
    BY JobFact
  <2>2. ASSUME t.at = "accepted", NEW i \in DOMAIN t.plan, t.plan[i].op \in Protected
        PROVE  t.plan[i].node \notin t.seen
    <3>1. t.plan \in Seq(Operations) /\ t.errors = {} /\ t.todo = <<>>
      BY <2>1, <2>2 DEF Validated, Job
    <3>2. Len(t.todo) = 0 /\ Len(t.plan) \in Nat /\ DOMAIN t.plan = 1..Len(t.plan)
      BY <3>1
    <3>3. i \in 1..(Len(t.plan) - Len(t.todo))
      BY <2>2, <3>2
    <3> QED  BY <2>1, <2>2, <3>1, <3>3 DEF Validated
  <2>3. t.at = "recovered" => t.seen \subseteq t.left
    BY <2>1 DEF Recovering
  <2> QED  BY <2>1, <2>2, <2>3
<1> QED  BY <1>1, FacadeInvariant, PTL
(***************************************************************************)
(* The trails of the rows: each is written by one call, which has still to *)
(* write what is not there, and everybody else writes about other things.  *)
(***************************************************************************)
EventType == TrailStep \cup {"decision_rejected", "transition_conflict",
                             "server_restart_dispatch_recovery"}
EventRec == [type : EventType, about : Node \cup Nat]
TrailsGood == FacadeInv /\ TrailInv /\ events \in Seq(EventRec)

LEMMA AppendedFact ==
    ASSUME events \in Seq(EventRec), NEW e \in EventRec, events' = Append(events, e)
    PROVE  /\ events' \in Seq(EventRec) /\ Len(events) \in Nat
           /\ DOMAIN events = 1..Len(events) /\ DOMAIN events' = 1..(Len(events) + 1)
           /\ \A k \in DOMAIN events : k \in DOMAIN events' /\ events'[k] = events[k]
           /\ events'[Len(events) + 1] = e
OBVIOUS

\* An event about something else leaves the trail as it is.
LEMMA RecordKept ==
    ASSUME events \in Seq(EventRec), NEW e \in EventRec, events' = Append(events, e),
           NEW r, e.about # r, NEW trail, NEW n \in Nat, OnRecord(r, trail, n)
    PROVE  OnRecord(r, trail, n)'
<1>1. PICK place \in [1..n -> DOMAIN events] :
          /\ \A i, j \in 1..n : i < j => place[i] < place[j]
          /\ \A i \in 1..n : events[place[i]] = [type |-> trail[i], about |-> r]
          /\ {k \in DOMAIN events : events[k].about = r} = Range(place)
  BY DEF OnRecord
<1>2. /\ DOMAIN events = 1..Len(events) /\ DOMAIN events' = 1..(Len(events) + 1) /\ Len(events) \in Nat
      /\ \A k \in DOMAIN events : k \in DOMAIN events' /\ events'[k] = events[k]
      /\ events'[Len(events) + 1] = e
  BY AppendedFact
<1>3. place \in [1..n -> DOMAIN events']
  BY <1>1, <1>2
<1>4. \A i \in 1..n : events'[place[i]] = [type |-> trail[i], about |-> r]
  BY <1>1, <1>2
<1>5. \A k \in DOMAIN events' : k \in DOMAIN events \/ k = Len(events) + 1
  BY <1>2
<1>6. {k \in DOMAIN events' : events'[k].about = r} = {k \in DOMAIN events : events[k].about = r}
  BY <1>2, <1>5
<1> QED  BY <1>1, <1>3, <1>4, <1>6 DEF OnRecord

\* The next event of the trail makes it one longer.
LEMMA RecordGrows ==
    ASSUME events \in Seq(EventRec), NEW r, NEW trail, NEW n \in Nat, OnRecord(r, trail, n),
           NEW e \in EventRec, events' = Append(events, e), e = [type |-> trail[n + 1], about |-> r]
    PROVE  OnRecord(r, trail, n + 1)'
<1>1. PICK place \in [1..n -> DOMAIN events] :
          /\ \A i, j \in 1..n : i < j => place[i] < place[j]
          /\ \A i \in 1..n : events[place[i]] = [type |-> trail[i], about |-> r]
          /\ {k \in DOMAIN events : events[k].about = r} = Range(place)
  BY DEF OnRecord
<1>2. /\ DOMAIN events = 1..Len(events) /\ DOMAIN events' = 1..(Len(events) + 1) /\ Len(events) \in Nat
      /\ \A k \in DOMAIN events : k \in DOMAIN events' /\ events'[k] = events[k]
      /\ events'[Len(events) + 1] = e
  BY AppendedFact
<1> DEFINE m == Len(events) + 1
           longer == [i \in 1..(n + 1) |-> IF i = n + 1 THEN m ELSE place[i]]
<1>3. /\ longer[n + 1] = m /\ \A i \in 1..n : longer[i] = place[i] /\ i \in 1..(n + 1)
      /\ DOMAIN longer = 1..(n + 1) /\ n + 1 \in 1..(n + 1) /\ m \in DOMAIN events'
      /\ \A i \in 1..(n + 1) : i \in 1..n \/ i = n + 1
  BY <1>2
<1>4. \A i \in 1..n : place[i] \in DOMAIN events /\ place[i] \in DOMAIN events' /\ place[i] < m
  BY <1>1, <1>2
<1>5. longer \in [1..(n + 1) -> DOMAIN events']
  BY <1>3, <1>4
<1> HIDE DEF longer
<1>6. \A i, j \in 1..(n + 1) : i < j => longer[i] < longer[j]
  <2> SUFFICES ASSUME NEW i \in 1..(n + 1), NEW j \in 1..(n + 1), i < j
               PROVE  longer[i] < longer[j]
    OBVIOUS
  <2>1. i \in 1..n
    OBVIOUS
  <2>2. CASE j = n + 1
    BY <1>3, <1>4, <2>1, <2>2
  <2>3. CASE j # n + 1
    <3>1. j \in 1..n
      BY <2>3
    <3> QED  BY <1>1, <1>3, <2>1, <3>1
  <2> QED  BY <2>2, <2>3
<1>7. \A i \in 1..(n + 1) : events'[longer[i]] = [type |-> trail[i], about |-> r]
  <2>1. events'[longer[n + 1]] = [type |-> trail[n + 1], about |-> r]
    BY <1>2, <1>3
  <2>2. \A i \in 1..n : events'[longer[i]] = [type |-> trail[i], about |-> r]
    BY <1>1, <1>2, <1>3, <1>4
  <2> QED  BY <1>3, <2>1, <2>2
<1>8. {k \in DOMAIN events' : events'[k].about = r} = Range(longer)
  <2>1. ASSUME NEW k \in DOMAIN events', events'[k].about = r
        PROVE  k \in Range(longer)
    <3>1. CASE k = m
      BY <1>3, <3>1 DEF Range
    <3>2. CASE k # m
      <4>1. k \in DOMAIN events /\ events[k].about = r
        BY <1>2, <2>1, <3>2
      <4>2. PICK i \in 1..n : place[i] = k
        BY <1>1, <4>1 DEF Range
      <4> QED  BY <1>3, <4>2 DEF Range
    <3> QED  BY <3>1, <3>2
  <2>2. ASSUME NEW i \in 1..(n + 1)
        PROVE  longer[i] \in DOMAIN events' /\ events'[longer[i]].about = r
    <3>1. longer[i] \in DOMAIN events'
      BY <1>5
    <3>2. events'[longer[i]] = [type |-> trail[i], about |-> r]
      BY <1>7
    <3> QED  BY <3>1, <3>2
  <2> QED  BY <1>3, <2>1, <2>2 DEF Range
<1> QED  BY <1>5, <1>6, <1>7, <1>8 DEF OnRecord

LEMMA RecordNew ==
    ASSUME NEW r, NEW trail, \A k \in DOMAIN events : events[k].about # r
    PROVE  OnRecord(r, trail, 0)
<1> DEFINE place == [i \in 1..0 |-> 0]
<1>1. place \in [1..0 -> DOMAIN events] /\ DOMAIN place = 1..0 /\ \A i \in 1..0 : FALSE
  OBVIOUS
<1>2. {k \in DOMAIN events : events[k].about = r} = Range(place)
  BY <1>1 DEF Range
<1> HIDE DEF place
<1> QED  BY <1>1, <1>2 DEF OnRecord

\* A step of everybody else: no job begins, goes on with or ends a trail, and an event is
\* about a node, or about no row.
QuietJobs == \A p \in Clerk : \/ job'[p].at \notin {"trail", "returned"}
                              \/ /\ job'[p].at = job[p].at /\ job'[p].row = job[p].row
                                 /\ job'[p].todo = job[p].todo
QuietEvents == \/ events' = events
               \/ \E e \in EventRec : events' = Append(events, e) /\ e.about \in Node \cup {0}

LEMMA QuietKeepsTrails ==
    ASSUME TrailsGood, QuietJobs, QuietEvents, rows' = rows
    PROVE  TrailInv' /\ events' \in Seq(EventRec)
<1>0. events \in Seq(EventRec) /\ TrailInv /\ rows \in Seq(RowKind) /\ Len(rows) \in Nat
      /\ DOMAIN rows = 1..Len(rows)
  BY DEF TrailsGood, FacadeInv, FacadeTypes
<1>1. events' \in Seq(EventRec) /\ \A k \in DOMAIN events' : events'[k].about \in Node \cup 0..Len(rows)
  <2>1. CASE events' = events
    BY <1>0, <2>1 DEF TrailInv
  <2>2. ASSUME NEW e \in EventRec, events' = Append(events, e), e.about \in Node \cup {0}
        PROVE  events' \in Seq(EventRec) /\ \A k \in DOMAIN events' : events'[k].about \in Node \cup 0..Len(rows)
    <3>1. \A k \in DOMAIN events' : events'[k] = e \/ (k \in DOMAIN events /\ events'[k] = events[k])
      BY <1>0, <2>2, AppendedFact
    <3>2. e.about \in Node \cup 0..Len(rows)
      BY <1>0, <2>2
    <3>3. \A k \in DOMAIN events : events[k].about \in Node \cup 0..Len(rows)
      BY <1>0 DEF TrailInv
    <3> QED  BY <1>0, <2>2, <3>1, <3>2, <3>3, AppendedFact
  <2> QED  BY <2>1, <2>2 DEF QuietEvents
<1>2. ASSUME NEW r \in DOMAIN rows
      PROVE  \E n \in 0..Len(Trail(rows[r])) :
                 /\ OnRecord(r, Trail(rows[r]), n)'
                 /\ \A p \in Clerk : job'[p].row = r => Pending(job'[p], Trail(rows[r]), n)
  <2>1. PICK trail : trail = Trail(rows[r])
    OBVIOUS
  <2>2. PICK n \in 0..Len(trail) :
            /\ OnRecord(r, trail, n)
            /\ \A p \in Clerk : job[p].row = r => Pending(job[p], trail, n)
    BY <1>0, <2>1 DEF TrailInv
  <2>3. OnRecord(r, trail, n)'
    <3>1. CASE events' = events
      BY <2>2, <3>1 DEF OnRecord
    <3>2. ASSUME NEW e \in EventRec, events' = Append(events, e), e.about \in Node \cup {0}
          PROVE  OnRecord(r, trail, n)'
      <4>1. e.about # r /\ n \in Nat
        BY <1>0, <3>2, FacadeAssumption
      <4> QED  BY <1>0, <2>2, <3>2, <4>1, RecordKept
    <3> QED  BY <3>1, <3>2 DEF QuietEvents
  <2>4. \A p \in Clerk : job'[p].row = r => Pending(job'[p], trail, n)
    BY <2>2 DEF QuietJobs, Pending
  <2>5. OnRecord(r, Trail(rows[r]), n)'
    BY <2>1, <2>3 DEF OnRecord
  <2> QED  BY <2>1, <2>2, <2>4, <2>5
<1>3. \A p \in Clerk : job'[p].at \in {"trail", "returned"} => job'[p].row \in DOMAIN rows
  BY <1>0 DEF QuietJobs, TrailInv
<1>4. \A p, q \in Clerk :
         job'[p].at = "trail" /\ job'[q].at = "trail" /\ job'[p].row = job'[q].row => p = q
  BY <1>0 DEF QuietJobs, TrailInv
<1> QED  BY <1>1, <1>2, <1>3, <1>4 DEF TrailInv

\* A new row has no event yet, and a call that has its whole trail to write.
LEMMA InsertRowKeepsTrails ==
    ASSUME TrailsGood, NEW p \in Clerk, NEW kind \in RowKind, InsertRow(p, kind)
    PROVE  TrailInv' /\ events' \in Seq(EventRec)
<1>0. events \in Seq(EventRec) /\ TrailInv /\ rows \in Seq(RowKind) /\ job \in [Clerk -> Job]
  BY DEF TrailsGood, FacadeInv, FacadeTypes
<1>1. PICK r0 \in Nat : r0 = Len(rows) + 1
  BY <1>0
<1>2. PICK trail \in Seq(Item) : trail = Trail(kind) /\ trail # <<>>
  BY TrailFact
<1>3. PICK j \in Job : j = [NoJob EXCEPT !.at = "trail", !.row = r0, !.todo = trail]
  BY NoJobFact DEF Job, JobPhase
<1>4. j.at = "trail" /\ j.row = r0 /\ j.todo = trail
  BY <1>3, NoJobFact DEF Job
<1>5. /\ job' = [job EXCEPT ![p] = j] /\ events' = events /\ rows' = Append(rows, kind)
  BY <1>1, <1>2, <1>3 DEF InsertRow, Enter
<1>6. job'[p] = j /\ \A q \in Clerk : q # p => job'[q] = job[q]
  BY <1>0, <1>5
<1>7. /\ DOMAIN rows = 1..Len(rows) /\ DOMAIN rows' = 1..r0 /\ Len(rows') = r0 /\ Len(rows) \in Nat
      /\ \A r \in DOMAIN rows : rows'[r] = rows[r] /\ r # r0
      /\ rows'[r0] = kind /\ r0 \notin DOMAIN rows
  BY <1>0, <1>1, <1>5
<1>8. \A q \in Clerk : job[q].at \in {"trail", "returned"} => job[q].row \in DOMAIN rows
  BY <1>0 DEF TrailInv
<1>9. \A k \in DOMAIN events : events[k].about \in Node \cup 0..Len(rows)
  BY <1>0 DEF TrailInv
<1>10. \A k \in DOMAIN events' : events'[k].about \in Node \cup 0..Len(rows')
  BY <1>1, <1>5, <1>7, <1>9
<1>11. \A q \in Clerk : job'[q].at \in {"trail", "returned"} => job'[q].row \in DOMAIN rows'
  BY <1>1, <1>4, <1>6, <1>7, <1>8
<1>12. \A q, u \in Clerk :
          job'[q].at = "trail" /\ job'[u].at = "trail" /\ job'[q].row = job'[u].row => q = u
  <2>1. \A q \in Clerk : q # p /\ job'[q].at = "trail" => job'[q].row # r0
    BY <1>6, <1>7, <1>8
  <2>2. \A q, u \in Clerk :
           job[q].at = "trail" /\ job[u].at = "trail" /\ job[q].row = job[u].row => q = u
    BY <1>0 DEF TrailInv
  <2> QED  BY <1>4, <1>6, <2>1, <2>2
<1>13. ASSUME NEW r \in DOMAIN rows'
       PROVE  \E n \in 0..Len(Trail(rows'[r])) :
                  /\ OnRecord(r, Trail(rows[r]), n)'
                  /\ \A q \in Clerk : job'[q].row = r => Pending(job'[q], Trail(rows'[r]), n)
  <2>1. CASE r = r0
    <3>1. Trail(rows'[r]) = trail /\ Len(trail) \in Nat \ {0} /\ DOMAIN trail = 1..Len(trail)
          /\ trail = Trail(kind)
      BY <1>2, <1>7, <2>1
    <3>2. \A k \in DOMAIN events : events[k].about # r
      BY <1>1, <1>7, <1>9, <2>1, FacadeAssumption
    <3>3. OnRecord(r, trail, 0)
      BY <3>2, RecordNew
    <3>4. OnRecord(r, Trail(rows[r]), 0)'
      BY <1>5, <3>1, <3>3 DEF OnRecord
    <3>5. Pending(j, trail, 0)
      BY <1>4, <3>1 DEF Pending
    <3>6. \A q \in Clerk : q # p /\ job'[q].row = r => job'[q].at \notin {"trail", "returned"}
      BY <1>6, <1>7, <1>8, <2>1
    <3>7. \A q \in Clerk : job'[q].row = r => Pending(job'[q], trail, 0)
      BY <1>6, <3>5, <3>6 DEF Pending
    <3> QED  BY <3>1, <3>4, <3>7
  <2>2. CASE r \in DOMAIN rows
    <3>1. PICK n \in 0..Len(Trail(rows[r])) :
              /\ OnRecord(r, Trail(rows[r]), n)
              /\ \A q \in Clerk : job[q].row = r => Pending(job[q], Trail(rows[r]), n)
      BY <1>0, <2>2 DEF TrailInv
    <3>2. rows'[r] = rows[r] /\ r # r0
      BY <1>7, <2>2
    <3>3. OnRecord(r, Trail(rows[r]), n)'
      BY <1>5, <3>1, <3>2 DEF OnRecord
    <3>4. \A q \in Clerk : job'[q].row = r => Pending(job'[q], Trail(rows'[r]), n)
      BY <1>4, <1>6, <3>1, <3>2
    <3> QED  BY <3>1, <3>2, <3>3, <3>4
  <2> QED  BY <1>1, <1>7, <2>1, <2>2
<1> QED  BY <1>0, <1>5, <1>10, <1>11, <1>12, <1>13 DEF TrailInv

\* The call of a row writes the next event of its trail.
LEMMA AppendTrailKeepsTrails ==
    ASSUME TrailsGood, NEW p \in Clerk, AppendTrail(p)
    PROVE  TrailInv' /\ events' \in Seq(EventRec)
<1>0. events \in Seq(EventRec) /\ TrailInv /\ rows \in Seq(RowKind) /\ job \in [Clerk -> Job]
  BY DEF TrailsGood, FacadeInv, FacadeTypes
<1>1. PICK t \in Job : t = job[p]
  BY <1>0
<1>2. t.at = "trail" /\ t.todo \in Seq(Item) /\ t.todo # <<>> /\ t.row \in DOMAIN rows
  BY <1>0, <1>1, JobFact DEF AppendTrail, Job, TrailInv, TrailsGood
<1>3. PICK r \in DOMAIN rows : r = t.row
  BY <1>2
<1>4. PICK trail \in Seq(TrailStep) : trail = Trail(rows[r])
  BY <1>0, TrailFact
<1>5. PICK n \in 0..Len(trail) :
          /\ OnRecord(r, trail, n)
          /\ \A q \in Clerk : job[q].row = r => Pending(job[q], trail, n)
  BY <1>0, <1>4 DEF TrailInv
<1>6. /\ Len(t.todo) \in Nat \ {0} /\ Head(t.todo) = t.todo[1] /\ DOMAIN t.todo = 1..Len(t.todo)
      /\ Tail(t.todo) \in Seq(Item) /\ Len(Tail(t.todo)) = Len(t.todo) - 1
      /\ DOMAIN Tail(t.todo) = 1..(Len(t.todo) - 1)
      /\ \A i \in 1..(Len(t.todo) - 1) : Tail(t.todo)[i] = t.todo[i + 1]
  BY <1>2, TailFact
<1>7. /\ n < Len(trail) /\ Len(t.todo) = Len(trail) - n
      /\ \A i \in 1..Len(t.todo) : t.todo[i] = trail[n + i]
  BY <1>1, <1>2, <1>3, <1>5, <1>6 DEF Pending
<1>8. Len(trail) \in Nat /\ n \in Nat /\ n + 1 \in 0..Len(trail)
  BY <1>4, <1>5, <1>7
<1>9. Head(t.todo) = trail[n + 1] /\ Head(t.todo) \in TrailStep
  <2>1. Head(t.todo) = trail[n + 1]
    BY <1>6, <1>7
  <2>2. n + 1 \in DOMAIN trail
    BY <1>4, <1>7, <1>8
  <2> QED  BY <1>4, <2>1, <2>2
<1>10. PICK e : e = [type |-> trail[n + 1], about |-> r]
  OBVIOUS
<1>11. e \in EventRec /\ e.about = r
  <2>1. DOMAIN rows = 1..Len(rows) /\ Len(rows) \in Nat
    BY <1>0
  <2>2. r \in Nat
    BY <2>1
  <2> QED  BY <1>9, <1>10, <2>2 DEF EventRec, EventType
<1>12. events' = Append(events, e) /\ rows' = rows
  BY <1>1, <1>3, <1>9, <1>10 DEF AppendTrail
<1>13. PICK a \in {"returned", "trail"} : a = IF Len(t.todo) = 1 THEN "returned" ELSE "trail"
  OBVIOUS
<1>14. PICK todo \in Seq(Item) : todo = Tail(t.todo)
  BY <1>6
<1>15. PICK j \in Job : j = [t EXCEPT !.todo = todo, !.at = a]
  BY DEF Job, JobPhase
<1>16. j.at = a /\ j.todo = todo /\ j.row = r
  BY <1>3, <1>15 DEF Job
<1>17. job' = [job EXCEPT ![p] = j]
  BY <1>1, <1>13, <1>14, <1>15 DEF AppendTrail, Continue
<1>18. job'[p] = j /\ \A q \in Clerk : q # p => job'[q] = job[q]
  BY <1>0, <1>17
<1>19. Pending(j, trail, n + 1)
  <2>1. a = "trail" => n + 1 < Len(trail)
    BY <1>6, <1>7, <1>8, <1>13
  <2>2. a = "returned" => n + 1 = Len(trail)
    BY <1>7, <1>8, <1>13
  <2>3. Len(todo) = Len(trail) - (n + 1) /\ DOMAIN todo = 1..(Len(t.todo) - 1)
    BY <1>6, <1>7, <1>8, <1>14
  <2>4. ASSUME NEW i \in 1..(Len(t.todo) - 1)
        PROVE  todo[i] = trail[(n + 1) + i]
    <3>1. i + 1 \in 1..Len(t.todo) /\ n + (i + 1) = (n + 1) + i
      BY <1>6, <1>8
    <3>2. todo[i] = t.todo[i + 1]
      BY <1>6, <1>14
    <3> QED  BY <1>7, <3>1, <3>2
  <2> QED  BY <1>16, <2>1, <2>2, <2>3, <2>4 DEF Pending
<1>20. \A q \in Clerk : q # p /\ job[q].row = r => job[q].at \notin {"trail", "returned"}
  <2> SUFFICES ASSUME NEW q \in Clerk, q # p, job[q].row = r
               PROVE  job[q].at # "trail" /\ job[q].at # "returned"
    OBVIOUS
  <2>1. job[q].at # "trail"
    BY <1>0, <1>1, <1>2, <1>3 DEF TrailInv
  <2>2. job[q].at # "returned"
    BY <1>5, <1>7, <1>8 DEF Pending
  <2> QED  BY <2>1, <2>2
<1>21. events' \in Seq(EventRec)
  BY <1>0, <1>11, <1>12, AppendedFact
<1>22. \A k \in DOMAIN events' : events'[k].about \in Node \cup 0..Len(rows)
  <2>1. \A k \in DOMAIN events' : events'[k] = e \/ (k \in DOMAIN events /\ events'[k] = events[k])
    BY <1>0, <1>11, <1>12, AppendedFact
  <2>2. e.about \in Node \cup 0..Len(rows)
    BY <1>0, <1>11
  <2> QED  BY <1>0, <2>1, <2>2 DEF TrailInv
<1>23. \A q \in Clerk : job'[q].at \in {"trail", "returned"} => job'[q].row \in DOMAIN rows
  BY <1>0, <1>16, <1>18 DEF TrailInv
<1>24. \A q, u \in Clerk :
          job'[q].at = "trail" /\ job'[u].at = "trail" /\ job'[q].row = job'[u].row => q = u
  <2>1. \A q, u \in Clerk :
           job[q].at = "trail" /\ job[u].at = "trail" /\ job[q].row = job[u].row => q = u
    BY <1>0 DEF TrailInv
  <2> QED  BY <1>16, <1>18, <1>20, <2>1
<1>25. ASSUME NEW x \in DOMAIN rows
       PROVE  \E m \in 0..Len(Trail(rows[x])) :
                  /\ OnRecord(x, Trail(rows[x]), m)'
                  /\ \A q \in Clerk : job'[q].row = x => Pending(job'[q], Trail(rows[x]), m)
  <2>1. CASE x = r
    <3>1. OnRecord(r, trail, n + 1)'
      BY <1>0, <1>5, <1>8, <1>10, <1>11, <1>12, RecordGrows
    <3>2. OnRecord(x, Trail(rows[x]), n + 1)'
      BY <1>4, <1>12, <2>1, <3>1 DEF OnRecord
    <3>3. \A q \in Clerk : job'[q].row = r => Pending(job'[q], trail, n + 1)
      BY <1>18, <1>19, <1>20 DEF Pending
    <3> QED  BY <1>4, <1>8, <2>1, <3>2, <3>3
  <2>2. CASE x # r
    <3>1. PICK other : other = Trail(rows[x])
      OBVIOUS
    <3>2. PICK m \in 0..Len(other) :
              /\ OnRecord(x, other, m)
              /\ \A q \in Clerk : job[q].row = x => Pending(job[q], other, m)
      BY <1>0, <3>1 DEF TrailInv
    <3>3. OnRecord(x, other, m)'
      BY <1>0, <1>11, <1>12, <2>2, <3>2, RecordKept
    <3>4. OnRecord(x, Trail(rows[x]), m)'
      BY <1>12, <3>1, <3>3 DEF OnRecord
    <3>5. \A q \in Clerk : job'[q].row = x => Pending(job'[q], other, m)
      BY <1>16, <1>18, <2>2, <3>2
    <3> QED  BY <3>1, <3>2, <3>4, <3>5
  <2> QED  BY <2>1, <2>2
<1> QED  BY <1>12, <1>21, <1>22, <1>23, <1>24, <1>25 DEF TrailInv

\* What everybody else does writes no trail.
LEMMA QuietOne ==
    ASSUME FacadeInv, NEW p \in Clerk, NEW j, job' = [job EXCEPT ![p] = j],
           j.at \notin {"trail", "returned"}
    PROVE  QuietJobs
BY JobFact DEF QuietJobs

LEMMA HeadIsNode ==
    ASSUME FacadeInv, NEW p \in Clerk, job[p].at \in {"check", "update", "event"}
    PROVE  Head(job[p].todo) \in Node
<1>1. PICK t \in Job : t = job[p] /\ Recovering(t)
  BY JobFact
<1>2. t.todo \in Seq(Item) /\ t.todo # <<>> /\ Range(t.todo) \subseteq t.seen /\ t.seen \subseteq Node
  BY <1>1 DEF Recovering, Job
<1>3. 1 \in DOMAIN t.todo /\ Head(t.todo) = t.todo[1]
  BY <1>2, TailFact
<1> QED  BY <1>1, <1>2, <1>3 DEF Range

LEMMA QuietAppend ==
    ASSUME NEW type \in EventType, NEW x \in Node \cup {0},
           events' = Append(events, [type |-> type, about |-> x])
    PROVE  QuietEvents
<1>1. PICK e : e = [type |-> type, about |-> x]
  OBVIOUS
<1>2. e \in EventRec /\ e.about = x
  BY <1>1 DEF EventRec
<1> QED  BY <1>1, <1>2 DEF QuietEvents

LEMMA OthersAreQuiet ==
    ASSUME FacadeInv, NEW p \in Clerk
    PROVE  /\ \A n \in Node, to \in Target : MoveNode(n, to) => QuietJobs /\ QuietEvents
           /\ \A plan \in Plan : Validate(p, plan) => QuietJobs /\ QuietEvents
           /\ \/ CheckOperation(p) \/ Reject(p) \/ RecoverRunningDispatches(p) \/ CheckRunning(p)
              \/ UpdateRunning(p) \/ AppendRecovery(p) \/ Interrupt(p)
              => QuietJobs /\ QuietEvents
<1>1. PICK t \in Job : t = job[p]
  BY JobFact
<1>2. \A n \in Node, q \in Clerk :
         Left(n)[q].at = job[q].at /\ Left(n)[q].row = job[q].row /\ Left(n)[q].todo = job[q].todo
  <2> SUFFICES ASSUME NEW n \in Node, NEW q \in Clerk
               PROVE  /\ Left(n)[q].at = job[q].at /\ Left(n)[q].row = job[q].row
                      /\ Left(n)[q].todo = job[q].todo
    OBVIOUS
  <2>1. PICK u \in Job : u = job[q]
    BY JobFact
  <2>2. PICK v : v = [u EXCEPT !.left = u.left \cup {n}]
    OBVIOUS
  <2>3. v.at = u.at /\ v.row = u.row /\ v.todo = u.todo
    BY <2>2 DEF Job
  <2>4. Left(n)[q] = IF n \in u.seen /\ u.at \in {"check", "update", "event"} THEN v ELSE u
    BY <2>1, <2>2 DEF Left
  <2> QED  BY <2>1, <2>3, <2>4
<1>3. ASSUME NEW n \in Node, NEW to \in Target, MoveNode(n, to)
      PROVE  QuietJobs /\ QuietEvents
  <2>1. (job' = job \/ job' = Left(n)) /\ events' = events
    BY <1>3 DEF MoveNode
  <2> QED  BY <1>2, <2>1 DEF QuietJobs, QuietEvents
<1>4. ASSUME NEW plan \in Plan, Validate(p, plan)
      PROVE  QuietJobs /\ QuietEvents
  <2>1. PICK a \in {"accepted", "validate"} : a = IF plan = <<>> THEN "accepted" ELSE "validate"
    OBVIOUS
  <2>2. PICK j : j = [NoJob EXCEPT !.at = a, !.plan = plan, !.todo = plan,
                                   !.seen = {n \in Node : nodes[n] = "done"}]
    OBVIOUS
  <2>3. j.at = a
    BY <2>2, NoJobFact DEF Job
  <2>4. job' = [job EXCEPT ![p] = j] /\ events' = events
    BY <1>4, <2>1, <2>2 DEF Validate, Enter
  <2> QED  BY <2>1, <2>3, <2>4, QuietOne DEF QuietEvents
<1>5. ASSUME CheckOperation(p)
      PROVE  QuietJobs /\ QuietEvents
  <2>1. PICK a \in {"validate", "accepted", "reject"} :
            a = IF Len(t.todo) > 1 THEN "validate" ELSE IF WithErrors(t) = {} THEN "accepted" ELSE "reject"
    OBVIOUS
  <2>2. PICK j : j = [t EXCEPT !.todo = Tail(t.todo), !.errors = WithErrors(t), !.at = a]
    OBVIOUS
  <2>3. j.at = a
    BY <2>2 DEF Job
  <2>4. job' = [job EXCEPT ![p] = j] /\ events' = events
    BY <1>1, <1>5, <2>1, <2>2 DEF CheckOperation, Continue
  <2> QED  BY <2>1, <2>3, <2>4, QuietOne DEF QuietEvents
<1>6. ASSUME Reject(p)
      PROVE  QuietJobs /\ QuietEvents
  <2>1. PICK j : j = [t EXCEPT !.at = "rejected"]
    OBVIOUS
  <2>2. j.at = "rejected"
    BY <2>1 DEF Job
  <2>3. job' = [job EXCEPT ![p] = j] /\ events' = Append(events, [type |-> "decision_rejected", about |-> 0])
    BY <1>1, <1>6, <2>1 DEF Reject, Continue
  <2>4. QuietJobs
    BY <2>2, <2>3, QuietOne
  <2>5. QuietEvents
    BY <2>3, QuietAppend DEF EventType
  <2> QED  BY <2>4, <2>5
<1>7. ASSUME RecoverRunningDispatches(p)
      PROVE  QuietJobs /\ QuietEvents
  <2>1. PICK order \in SetToSeqs(Running) :
            Enter(p, Onward([NoJob EXCEPT !.todo = order, !.seen = Running]))
    BY <1>7 DEF RecoverRunningDispatches
  <2>2. PICK v : v = [NoJob EXCEPT !.todo = order, !.seen = Running]
    OBVIOUS
  <2>3. v \in Job
    BY <2>2, OrderNamesAll, NoJobFact DEF Job
  <2>4. PICK j : j = Onward(v)
    OBVIOUS
  <2>5. j.at \in {"recovered", "check"}
    BY <2>3, <2>4 DEF Onward, Job
  <2>6. job' = [job EXCEPT ![p] = j] /\ events' = events
    BY <1>7, <2>1, <2>2, <2>4 DEF Enter, RecoverRunningDispatches
  <2> QED  BY <2>5, <2>6, QuietOne DEF QuietEvents
<1>8. ASSUME CheckRunning(p)
      PROVE  QuietJobs /\ QuietEvents
  <2>1. PICK j : j = [t EXCEPT !.at = "update"]
    OBVIOUS
  <2>2. j.at = "update"
    BY <2>1 DEF Job
  <2>3. CASE nodes[Head(t.todo)] = "running"
    <3>1. job' = [job EXCEPT ![p] = j] /\ events' = events
      BY <1>1, <1>8, <2>1, <2>3 DEF CheckRunning, Continue
    <3> QED  BY <2>2, <3>1, QuietOne DEF QuietEvents
  <2>4. CASE nodes[Head(t.todo)] # "running"
    <3>1. /\ job' = [job EXCEPT ![p] = NoJob]
          /\ events' = Append(events, [type |-> "transition_conflict", about |-> Head(t.todo)])
      BY <1>1, <1>8, <2>4 DEF CheckRunning, Continue
    <3>2. Head(t.todo) \in Node
      BY <1>1, <1>8, HeadIsNode DEF CheckRunning
    <3>3. QuietJobs
      BY <3>1, NoJobFact, QuietOne
    <3>4. QuietEvents
      BY <3>1, <3>2, QuietAppend DEF EventType
    <3> QED  BY <3>3, <3>4
  <2> QED  BY <2>3, <2>4
<1>9. ASSUME UpdateRunning(p)
      PROVE  QuietJobs /\ QuietEvents
  <2>1. PICK n : n = Head(t.todo)
    OBVIOUS
  <2>2. n \in Node /\ t.at = "update"
    BY <1>1, <1>9, <2>1, HeadIsNode DEF UpdateRunning
  <2>3. job' = [Left(n) EXCEPT ![p].at = "event"] /\ events' = events
    BY <1>1, <1>9, <2>1 DEF UpdateRunning
  <2>4. PICK left \in [Clerk -> Job] : left = Left(n)
    BY <2>2, LeftFact DEF Left
  <2>5. PICK j : j = [left[p] EXCEPT !.at = "event"]
    OBVIOUS
  <2>6. j.at = "event"
    BY <2>4, <2>5 DEF Job
  <2>7. job'[p] = j /\ \A q \in Clerk : q # p => job'[q] = left[q]
    BY <2>3, <2>4, <2>5
  <2>8. QuietJobs
    BY <1>2, <2>2, <2>4, <2>6, <2>7 DEF QuietJobs
  <2> QED  BY <2>3, <2>8 DEF QuietEvents
<1>10. ASSUME AppendRecovery(p)
       PROVE  QuietJobs /\ QuietEvents
  <2>1. Head(t.todo) \in Node /\ t.todo \in Seq(Item) /\ t.todo # <<>>
    BY <1>1, <1>10, JobFact, HeadIsNode DEF AppendRecovery, Job, Recovering
  <2>2. PICK todo \in Seq(Item) : todo = Tail(t.todo)
    BY <2>1, TailFact
  <2>3. PICK v \in Job : v = [t EXCEPT !.todo = todo]
    BY DEF Job
  <2>4. PICK j : j = Onward(v)
    OBVIOUS
  <2>5. j.at \in {"recovered", "check"}
    BY <2>4 DEF Onward, Job
  <2>6. /\ job' = [job EXCEPT ![p] = j]
        /\ events' = Append(events, [type |-> "server_restart_dispatch_recovery", about |-> Head(t.todo)])
    BY <1>1, <1>10, <2>2, <2>3, <2>4 DEF AppendRecovery, Continue
  <2>7. QuietJobs
    BY <2>5, <2>6, QuietOne
  <2>8. QuietEvents
    BY <2>1, <2>6, QuietAppend DEF EventType
  <2> QED  BY <2>7, <2>8
<1>11. ASSUME Interrupt(p)
       PROVE  QuietJobs /\ QuietEvents
  <2>1. job' = [job EXCEPT ![p] = NoJob] /\ events' = events
    BY <1>11 DEF Interrupt, Continue
  <2> QED  BY <2>1, NoJobFact, QuietOne DEF QuietEvents
<1> QED  BY <1>3, <1>4, <1>5, <1>6, <1>7, <1>8, <1>9, <1>10, <1>11

LEMMA TrailsStep ==
    ASSUME TrailsGood, [FacadeNext]_facadeVars
    PROVE  TrailsGood'
<1>1. FacadeInv /\ FacadeInv'
  BY FacadeStep DEF TrailsGood
<1>2. CASE UNCHANGED facadeVars
  <2>1. QuietJobs /\ QuietEvents /\ rows' = rows
    BY <1>2 DEF facadeVars, QuietJobs, QuietEvents
  <2> QED  BY <1>1, <2>1, QuietKeepsTrails DEF TrailsGood
<1>3. CASE FacadeNext
  <2>1. ASSUME NEW p \in Clerk, NEW kind \in RowKind, InsertRow(p, kind)
        PROVE  TrailsGood'
    BY <1>1, <2>1, InsertRowKeepsTrails DEF TrailsGood
  <2>2. ASSUME NEW p \in Clerk, AppendTrail(p)
        PROVE  TrailsGood'
    BY <1>1, <2>2, AppendTrailKeepsTrails DEF TrailsGood
  <2>3. ASSUME NEW n \in Node, NEW to \in Target, MoveNode(n, to)
        PROVE  QuietJobs /\ QuietEvents /\ rows' = rows
    <3>1. job' = job \/ job' = Left(n)
      BY <2>3 DEF MoveNode
    <3>2. events' = events /\ rows' = rows
      BY <2>3 DEF MoveNode
    <3>3. CASE Clerk = {}
      BY <3>2, <3>3 DEF QuietJobs, QuietEvents
    <3>4. CASE Clerk # {}
      BY <1>1, <2>3, <3>2, <3>4, OthersAreQuiet
    <3> QED  BY <3>3, <3>4
  <2>4. ASSUME NEW p \in Clerk, NEW plan \in Plan, Validate(p, plan)
        PROVE  QuietJobs /\ QuietEvents /\ rows' = rows
    BY <1>1, <2>4, OthersAreQuiet DEF Validate
  <2>5. ASSUME NEW p \in Clerk,
               \/ CheckOperation(p) \/ Reject(p) \/ RecoverRunningDispatches(p) \/ CheckRunning(p)
               \/ UpdateRunning(p) \/ AppendRecovery(p) \/ Interrupt(p)
        PROVE  QuietJobs /\ QuietEvents /\ rows' = rows
    <3>1. QuietJobs /\ QuietEvents
      BY <1>1, <2>5, OthersAreQuiet
    <3>2. rows' = rows
      BY <2>5 DEF CheckOperation, Reject, RecoverRunningDispatches, CheckRunning, UpdateRunning,
                  AppendRecovery, Interrupt
    <3> QED  BY <3>1, <3>2
  <2>6. QuietJobs /\ QuietEvents /\ rows' = rows => TrailsGood'
    BY <1>1, QuietKeepsTrails DEF TrailsGood
  <2> QED  BY <1>3, <2>1, <2>2, <2>3, <2>4, <2>5, <2>6 DEF FacadeNext, RowKind
<1> QED  BY <1>2, <1>3

LEMMA TrailsInvariant == FacadeSpec => []TrailsGood
<1>1. FacadeInit => TrailsGood
  <2> SUFFICES ASSUME FacadeInit
               PROVE  TrailsGood
    OBVIOUS
  <2>1. \A p \in Clerk : job[p] = NoJob
    BY DEF FacadeInit
  <2>2. rows = <<>> /\ events = <<>> /\ DOMAIN rows = {} /\ DOMAIN events = {}
    BY DEF FacadeInit
  <2>3. TrailInv
    BY <2>1, <2>2, NoJobFact DEF TrailInv
  <2>4. FacadeInv
    <3>1. FacadeTypes
      BY <2>1, NoJobFact DEF FacadeInit, FacadeTypes, Status
    <3> QED  BY <2>1, <3>1, NoJobFact DEF FacadeInv, AnswersInv
  <2> QED  BY <2>2, <2>3, <2>4 DEF TrailsGood
<1> QED  BY <1>1, TrailsStep, PTL DEF FacadeSpec

\* Whatever raises or dies, and whoever else writes in between: a decision is on record only
\* with the directive and the attempt that came before it, in this order, and a call that has
\* returned has its whole trail on record (lead_decision.py:23-42, runtime.py:101-118).
THEOREM TrailsAlwaysInOrder == FacadeSpec => []TrailsInOrder
<1>1. TrailsGood => TrailsInOrder
  <2> SUFFICES ASSUME TrailsGood
               PROVE  TrailsInOrder
    OBVIOUS
  <2>0. TrailInv /\ rows \in Seq(RowKind)
    BY DEF TrailsGood, FacadeInv, FacadeTypes
  <2>1. ASSUME NEW r \in DOMAIN rows, rows[r] = "bypass",
               NEW k \in DOMAIN events, events[k] = [type |-> "decision_applied", about |-> r]
        PROVE  WholeTrail(r, <<"directive_recorded", "gate_bypass_attempt", "decision_applied">>)
    <3>1. PICK trail : trail = <<"directive_recorded", "gate_bypass_attempt", "decision_applied">>
      OBVIOUS
    <3>2. /\ Trail(rows[r]) = trail /\ Len(trail) = 3
          /\ trail[1] = "directive_recorded" /\ trail[2] = "gate_bypass_attempt"
      BY <2>1, <3>1 DEF Trail
    <3>3. PICK n \in 0..3 : OnRecord(r, trail, n)
      BY <2>0, <2>1, <3>2 DEF TrailInv
    <3>4. PICK place \in [1..n -> DOMAIN events] :
              /\ \A i \in 1..n : events[place[i]] = [type |-> trail[i], about |-> r]
              /\ {m \in DOMAIN events : events[m].about = r} = Range(place)
      BY <3>3 DEF OnRecord
    <3>5. PICK i \in 1..n : place[i] = k
      BY <2>1, <3>4 DEF Range
    <3>6. trail[i] = "decision_applied"
      <4>1. events[k] = [type |-> trail[i], about |-> r]
        BY <3>4, <3>5
      <4>2. events[k].type = trail[i]
        BY <4>1
      <4>3. events[k].type = "decision_applied"
        BY <2>1
      <4> QED  BY <4>2, <4>3
    <3>7. i # 1 /\ i # 2
      BY <3>2, <3>6
    <3>8. n = 3
      BY <3>5, <3>7
    <3> QED  BY <3>1, <3>2, <3>3, <3>8 DEF WholeTrail
  <2>2. ASSUME NEW p \in Clerk, job[p].at = "returned"
        PROVE  WholeTrail(job[p].row, Trail(rows[job[p].row]))
    <3>1. PICK r \in DOMAIN rows : r = job[p].row
      BY <2>0, <2>2 DEF TrailInv
    <3>2. PICK trail : trail = Trail(rows[r])
      OBVIOUS
    <3>3. PICK n \in 0..Len(trail) : OnRecord(r, trail, n) /\ Pending(job[p], trail, n)
      BY <2>0, <3>1, <3>2 DEF TrailInv
    <3>4. n = Len(trail)
      BY <2>2, <3>3 DEF Pending
    <3> QED  BY <3>1, <3>2, <3>3, <3>4 DEF WholeTrail
  <2> QED  BY <2>1, <2>2 DEF TrailsInOrder
<1> QED  BY <1>1, TrailsInvariant, PTL
=============================================================================
