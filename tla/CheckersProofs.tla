---------------------------- MODULE CheckersProofs ----------------------------
(***************************************************************************)
(* Theorems about the two checkers: Alerts, for any number of rules, nodes *)
(* and reports, and ImageUpdates, for any number of services, digests and  *)
(* requests.                                                               *)
(***************************************************************************)
EXTENDS Alerts, ImageUpdates, TLAPS

-----------------------------------------------------------------------------
\* Alerts.

\* What the checker copied was in the tables: the rules as rows, the statistics
\* as reports.  The copies are what alerts are made from, while both move on.
RulesWere(r) == \A i \in Rule : r[i] # NoRule => <<i, r[i]>> \in rows
StatsWere(s) == \A n \in Node : s[n] # NoStats => \A x \in Metric : <<n, x, s[n][x]>> \in reports

\* What is left to compare is an enabled rule and a node with statistics.
TodoOK == \A p \in check.todo :
  /\ check.rules[p[1]] # NoRule /\ check.rules[p[1]].enabled
  /\ check.stats[p[2]] # NoStats

AlertsInv ==
  /\ AlertsTypeOK /\ TodoOK
  /\ RulesWere(rules) /\ RulesWere(check.rules)
  /\ StatsWere(stats) /\ StatsWere(check.stats)
  /\ AlertsWereTrue

-----------------------------------------------------------------------------
LEMMA WorkStep == AlertsTypeOK /\ Budget(AlertWork) => work' \in Nat
BY DEF AlertsTypeOK, Budget

LEMMA AlertsInitInv == AlertsInit => AlertsInv
BY AlertsAssumption DEF AlertsInit, AlertsInv, AlertsTypeOK, TodoOK, RulesWere, StatsWere,
   AlertsWereTrue, NoCheck, Check

\* A check that begins or ends, and a restart, have nothing to compare.
LEMMA NoCheckOK ==
  ASSUME NEW r \in [Rule -> RuleRow \cup {NoRule}], NEW ph \in {"sleep", "listed"}
  PROVE  [NoCheck EXCEPT !.phase = ph, !.rules = r] \in Check
BY DEF NoCheck, Check

LEMMA StoreAgentStatsStep ==
  ASSUME AlertsInv, NEW n \in Node, NEW m \in [Metric -> Level], StoreAgentStats(n, m)
  PROVE  AlertsInv'
<1> USE DEF AlertsInv
<1>1. /\ stats' = [stats EXCEPT ![n] = m]
      /\ reports' = reports \cup {<<n, x, m[x]>> : x \in Metric}
      /\ UNCHANGED <<rules, check, history, rows>>
  BY DEF StoreAgentStats
<1>2. AlertsTypeOK'
  <2>1. work' \in Nat
    BY WorkStep DEF StoreAgentStats, AlertsTypeOK
  <2>2. reports' \in SUBSET (Node \X Metric \X Level)
    BY <1>1 DEF AlertsTypeOK
  <2> QED
    BY <1>1, <2>1, <2>2 DEF AlertsTypeOK
<1>3. StatsWere(stats)'
  BY <1>1 DEF StatsWere, AlertsTypeOK
<1>4. StatsWere(check.stats)' /\ RulesWere(rules)' /\ RulesWere(check.rules)'
  BY <1>1 DEF StatsWere, RulesWere
<1>5. TodoOK' /\ AlertsWereTrue'
  BY <1>1 DEF TodoOK, AlertsWereTrue
<1> QED
  BY <1>2, <1>3, <1>4, <1>5

LEMMA RuleStep ==
  ASSUME AlertsInv, NEW i \in Rule,
         AlertRuleDelete(i) \/ \E r \in RuleRow : AlertRuleWrite(i, r)
  PROVE  AlertsInv'
<1> USE DEF AlertsInv
<1>1. /\ UNCHANGED <<stats, check, history, reports>>
      /\ Budget(AlertWork)
      /\ \E r \in RuleRow \cup {NoRule} :
           /\ rules' = [rules EXCEPT ![i] = r]
           /\ r # NoRule => <<i, r>> \in rows'
      /\ rows \subseteq rows' /\ rows' \in SUBSET (Rule \X RuleRow)
  <2>1. CASE AlertRuleDelete(i)
    BY <2>1 DEF AlertRuleDelete, AlertsTypeOK
  <2>2. ASSUME NEW r \in RuleRow, AlertRuleWrite(i, r)
        PROVE  /\ UNCHANGED <<stats, check, history, reports>>
               /\ Budget(AlertWork)
               /\ rules' = [rules EXCEPT ![i] = r]
               /\ rows' = rows \cup {<<i, r>>}
    BY <2>2 DEF AlertRuleWrite
  <2>3. rows \in SUBSET (Rule \X RuleRow)
    BY DEF AlertsTypeOK
  <2>4. CASE \E r \in RuleRow : AlertRuleWrite(i, r)
    BY <2>2, <2>3, <2>4
  <2> QED
    BY <2>1, <2>4
<1>2. AlertsTypeOK'
  BY <1>1, WorkStep DEF AlertsTypeOK
<1>3. RulesWere(rules)' /\ RulesWere(check.rules)'
  BY <1>1 DEF RulesWere, AlertsTypeOK
<1>4. StatsWere(stats)' /\ StatsWere(check.stats)' /\ TodoOK' /\ AlertsWereTrue'
  BY <1>1 DEF StatsWere, TodoOK, AlertsWereTrue
<1> QED
  BY <1>2, <1>3, <1>4

-----------------------------------------------------------------------------
LEMMA ListAlertRulesStep == AlertsInv /\ ListAlertRules => AlertsInv'
<1> SUFFICES ASSUME AlertsInv, ListAlertRules PROVE AlertsInv'
  OBVIOUS
<1> USE DEF AlertsInv
<1>1. UNCHANGED <<rules, stats, history, rows, reports>> /\ work' \in Nat
  BY WorkStep DEF ListAlertRules, AlertsTypeOK
<1>2. PICK r \in [Rule -> RuleRow \cup {NoRule}] :
        check' = [NoCheck EXCEPT !.phase = "listed", !.rules = r] /\ RulesWere(r)
  <2>1. CASE check' = [NoCheck EXCEPT !.phase = "listed", !.rules = rules]
    BY <2>1 DEF AlertsTypeOK
  <2>2. CASE check' = [NoCheck EXCEPT !.phase = "listed"]
    <3>1. NoCheck.rules \in [Rule -> RuleRow \cup {NoRule}] /\ RulesWere(NoCheck.rules)
      BY DEF RulesWere, NoCheck
    <3>2. check' = [NoCheck EXCEPT !.phase = "listed", !.rules = NoCheck.rules]
      BY <2>2 DEF NoCheck
    <3> QED
      BY <3>1, <3>2
  <2> QED
    BY <2>1, <2>2 DEF ListAlertRules
<1>3. check' \in Check
  BY <1>2, NoCheckOK
<1>4. check'.rules = r /\ check'.todo = {} /\ \A n \in Node : check'.stats[n] = NoStats
  BY <1>2 DEF NoCheck
<1>5. AlertsTypeOK'
  BY <1>1, <1>3 DEF AlertsTypeOK
<1>6. RulesWere(check.rules)' /\ StatsWere(check.stats)' /\ TodoOK'
  BY <1>1, <1>2, <1>4 DEF RulesWere, StatsWere, TodoOK
<1>7. RulesWere(rules)' /\ StatsWere(stats)' /\ AlertsWereTrue'
  BY <1>1 DEF RulesWere, StatsWere, AlertsWereTrue
<1> QED
  BY <1>5, <1>6, <1>7

LEMMA CopyStatsStep == AlertsInv /\ CopyStats => AlertsInv'
<1> SUFFICES ASSUME AlertsInv, CopyStats PROVE AlertsInv'
  OBVIOUS
<1> USE DEF AlertsInv
<1> DEFINE todo == {p \in Rule \X Node : check.rules[p[1]] # NoRule /\ check.rules[p[1]].enabled
                                         /\ stats[p[2]] # NoStats}
<1>1. /\ UNCHANGED <<rules, stats, history, rows, reports, work>>
      /\ check' = [check EXCEPT !.phase = "compare", !.stats = stats, !.todo = todo]
  BY DEF CopyStats
<1>2. todo \in SUBSET (Rule \X Node)
  OBVIOUS
<1> HIDE DEF todo
<1>3. /\ check'.rules = check.rules /\ check'.stats = stats /\ check'.todo = todo
      /\ check' \in Check
  BY <1>1, <1>2 DEF Check, AlertsTypeOK
<1>4. AlertsTypeOK'
  BY <1>1, <1>3 DEF AlertsTypeOK
<1>5. TodoOK'
  BY <1>3 DEF TodoOK, todo
<1>6. RulesWere(rules)' /\ RulesWere(check.rules)' /\ StatsWere(stats)' /\ StatsWere(check.stats)'
  BY <1>1, <1>3 DEF RulesWere, StatsWere
<1>7. AlertsWereTrue'
  BY <1>1 DEF AlertsWereTrue
<1> QED
  BY <1>4, <1>5, <1>6, <1>7

\* The alert of a pair is true because of the copies it is made from.
LEMMA CompareStep ==
  ASSUME AlertsInv, NEW i \in Rule, NEW n \in Node, Compare(i, n)
  PROVE  AlertsInv'
<1> USE DEF AlertsInv
<1> DEFINE r == check.rules[i]
           v == check.stats[n][r.metric]
           a == [id |-> i, metric |-> r.metric, threshold |-> r.threshold, node |-> n, value |-> v]
<1>1. /\ <<i, n>> \in check.todo
      /\ check' = [check EXCEPT !.todo = check.todo \ {<<i, n>>}]
      /\ UNCHANGED <<rules, stats, rows, reports>>
      /\ (v > r.threshold /\ history' = history \cup {a}) \/ history' = history
  BY DEF Compare
<1>2. work' \in Nat
  BY WorkStep DEF Compare, AlertsTypeOK
<1>3. check.rules[i] \in RuleRow /\ check.rules[i].enabled = TRUE
      /\ check.stats[n] \in [Metric -> Level]
  BY <1>1 DEF TodoOK, AlertsTypeOK, Check, RuleRow
<1>4. r.metric \in Metric /\ r.threshold \in Level /\ v \in Level
      /\ r = [metric |-> r.metric, threshold |-> r.threshold, enabled |-> TRUE]
  BY <1>3 DEF RuleRow
<1>5. <<i, r>> \in rows /\ <<n, r.metric, v>> \in reports
  <2>1. check.rules[i] # NoRule /\ check.stats[n] # NoStats
    BY <1>1 DEF TodoOK
  <2> QED
    BY <2>1, <1>4 DEF RulesWere, StatsWere
<1>6. /\ a \in Alert /\ a.id = i /\ a.metric = r.metric /\ a.threshold = r.threshold
      /\ a.node = n /\ a.value = v
  BY <1>4 DEF Alert
<1> HIDE DEF a, v, r
<1>7. AlertsWereTrue'
  <2> SUFFICES ASSUME NEW b \in history'
               PROVE  /\ <<b.id, [metric |-> b.metric, threshold |-> b.threshold,
                                  enabled |-> TRUE]>> \in rows
                      /\ <<b.node, b.metric, b.value>> \in reports
                      /\ b.value > b.threshold
    BY <1>1 DEF AlertsWereTrue
  <2>1. CASE b \in history
    BY <2>1 DEF AlertsWereTrue
  <2>2. CASE b \notin history
    <3>1. b = a /\ v > r.threshold
      BY <2>2, <1>1
    <3> QED
      BY <3>1, <1>4, <1>5, <1>6
  <2> QED
    BY <2>1, <2>2
<1>8. /\ check'.rules = check.rules /\ check'.stats = check.stats
      /\ check'.todo \subseteq check.todo /\ check' \in Check
  BY <1>1 DEF AlertsTypeOK, Check
<1>9. AlertsTypeOK'
  BY <1>1, <1>2, <1>6, <1>8 DEF AlertsTypeOK
<1>10. TodoOK' /\ RulesWere(check.rules)' /\ StatsWere(check.stats)'
  BY <1>1, <1>8 DEF TodoOK, RulesWere, StatsWere
<1>11. RulesWere(rules)' /\ StatsWere(stats)'
  BY <1>1 DEF RulesWere, StatsWere
<1> QED
  BY <1>7, <1>9, <1>10, <1>11

LEMMA RestStep == AlertsInv /\ (CheckEnds \/ AlertRestart) => AlertsInv'
<1> SUFFICES ASSUME AlertsInv, CheckEnds \/ AlertRestart PROVE AlertsInv'
  OBVIOUS
<1> USE DEF AlertsInv
<1>1. /\ check' = NoCheck
      /\ stats' = stats \/ stats' = [n \in Node |-> NoStats]
      /\ UNCHANGED <<rules, history, rows, reports>>
  BY DEF CheckEnds, AlertRestart
<1>2. work' \in Nat
  BY WorkStep DEF CheckEnds, AlertRestart, AlertsTypeOK
<1>3. NoCheck \in Check
  BY DEF NoCheck, Check
<1>4. AlertsTypeOK'
  BY <1>1, <1>2, <1>3 DEF AlertsTypeOK
<1>5. StatsWere(stats)' /\ RulesWere(rules)'
  BY <1>1 DEF StatsWere, RulesWere
<1>6. StatsWere(check.stats)' /\ RulesWere(check.rules)' /\ TodoOK'
  BY <1>1 DEF StatsWere, RulesWere, TodoOK, NoCheck
<1>7. AlertsWereTrue'
  BY <1>1 DEF AlertsWereTrue
<1> QED
  BY <1>4, <1>5, <1>6, <1>7

LEMMA AlertsInvStep == AlertsInv /\ [AlertsNext]_alertVars => AlertsInv'
<1> SUFFICES ASSUME AlertsInv, [AlertsNext]_alertVars PROVE AlertsInv'
  OBVIOUS
<1>1. CASE UNCHANGED alertVars
  BY <1>1 DEF alertVars, AlertsInv, AlertsTypeOK, TodoOK, RulesWere, StatsWere, AlertsWereTrue
<1> QED
  BY <1>1, StoreAgentStatsStep, RuleStep, ListAlertRulesStep, CopyStatsStep, CompareStep, RestStep
     DEF AlertsNext, CheckStep

-----------------------------------------------------------------------------
\* Types hold in every reachable state.
THEOREM AlertsTypeCorrect == AlertsSpec => []AlertsTypeOK
<1>1. AlertsInv => AlertsTypeOK
  BY DEF AlertsInv
<1> QED
  BY <1>1, AlertsInitInv, AlertsInvStep, PTL DEF AlertsSpec

\* Every alert in the history was right: its rule, enabled, with that threshold,
\* and a report of its node above it (checkAlerts).
THEOREM AlertsAreTrue == AlertsSpec => []AlertsWereTrue
<1>1. AlertsInv => AlertsWereTrue
  BY DEF AlertsInv
<1> QED
  BY <1>1, AlertsInitInv, AlertsInvStep, PTL DEF AlertsSpec

-----------------------------------------------------------------------------
\* Image updates.

\* A service has been pinned to one digest while the registry has had another.
Differed(s) == \E d \in ran[s] \ {Unpinned}, e \in published[s] : d # e

\* A checker's list and answer.
ListType == [todo : SUBSET Svc, image : [Svc -> Digest \cup {Unpinned}],
             held : SUBSET Svc, hasUpdate : BOOLEAN]

\* The images of a list were run by its services, and the answer that is held
\* is as true as one that is shown.
ListOK(k) ==
  /\ \A s \in checker[k].todo : checker[k].image[s] \in ran[s]
  /\ checker[k].hasUpdate => \A s \in checker[k].held : Differed(s)

ImageInv ==
  /\ ImageUpdatesTypeOK
  /\ \A s \in deployed : image[s] \in ran[s]
  /\ \A s \in Svc : remote[s] \in published[s]
  /\ \A k \in Checker : ListOK(k)
  /\ ShownWasTrue

-----------------------------------------------------------------------------
LEMMA ImageWork1 == ImageUpdatesTypeOK /\ Budget(ImageWork) => work' \in Nat
BY DEF ImageUpdatesTypeOK, Budget

\* What is left of the types when one checker moves.
LEMMA ListTypeStep ==
  ASSUME ImageUpdatesTypeOK, NEW k \in Checker, NEW l \in ListType,
         checker' = [checker EXCEPT ![k] = l],
         UNCHANGED <<deployed, image, remote, ran, published>>,
         data' \in [Svc -> BOOLEAN], work' \in Nat
  PROVE  ImageUpdatesTypeOK'
BY DEF ImageUpdatesTypeOK, ListType

LEMMA ImageInitInv == ImageUpdatesInit => ImageInv
<1> SUFFICES ASSUME ImageUpdatesInit PROVE ImageInv
  OBVIOUS
<1>1. (CHOOSE d \in Digest : TRUE) \in Digest
  BY ImageUpdatesAssumption
<1>2. image \in [Svc -> Digest \cup {Unpinned}] /\ remote \in [Svc -> Digest]
  BY <1>1 DEF ImageUpdatesInit
<1>3. ImageUpdatesTypeOK
  BY <1>2 DEF ImageUpdatesInit, ImageUpdatesTypeOK, NoList
<1>4. \A k \in Checker : ListOK(k)
  BY DEF ImageUpdatesInit, ListOK, NoList
<1> QED
  BY <1>3, <1>4 DEF ImageInv, ImageUpdatesInit, ShownWasTrue

\* What services have run and registries have had only grows, so what was true of
\* a list, an answer or an entry stays true.
LEMMA HistoryStep ==
  ASSUME ImageInv, \A s \in Svc : ran[s] \subseteq ran'[s] /\ published[s] \subseteq published'[s],
         UNCHANGED checker
  PROVE  \A k \in Checker : ListOK(k)'
<1> SUFFICES ASSUME NEW k \in Checker PROVE ListOK(k)'
  OBVIOUS
<1>1. ListOK(k) /\ checker[k].todo \subseteq Svc /\ checker[k].held \subseteq Svc
  BY DEF ImageInv, ImageUpdatesTypeOK
<1> QED
  BY <1>1 DEF ListOK, Differed

LEMMA ListServicesStep ==
  ASSUME ImageInv, NEW k \in Checker, ListServices(k)
  PROVE  ImageInv'
<1> USE DEF ImageInv
<1>1. /\ UNCHANGED <<deployed, image, remote, data, ran, published>>
      /\ checker' = [checker EXCEPT ![k] = [NoList EXCEPT !.todo = deployed]]
  BY DEF ListServices
<1>2. work' \in Nat
  BY ImageWork1 DEF ListServices, ImageUpdatesTypeOK
<1>3. checker'[k] = [todo |-> deployed, image |-> image, held |-> {}, hasUpdate |-> FALSE]
      /\ \A j \in Checker \ {k} : checker'[j] = checker[j]
  BY <1>1 DEF NoList, ImageUpdatesTypeOK
<1>4. ImageUpdatesTypeOK'
  BY <1>1, <1>2 DEF ImageUpdatesTypeOK, NoList
<1>5. ASSUME NEW j \in Checker PROVE ListOK(j)'
  <2>1. CASE j = k
    BY <1>1, <1>3, <2>1 DEF ListOK, ImageUpdatesTypeOK
  <2>2. CASE j # k
    BY <1>1, <1>3, <2>2 DEF ListOK, Differed
  <2> QED
    BY <2>1, <2>2
<1> QED
  BY <1>1, <1>4, <1>5 DEF ShownWasTrue

\* The answer compares an image the service had with a digest the registry has.
LEMMA FetchRemoteDigestStep ==
  ASSUME ImageInv, NEW k \in Checker, NEW s \in Svc, FetchRemoteDigest(k, s)
  PROVE  ImageInv'
<1> USE DEF ImageInv
<1> DEFINE pinned == checker[k].image[s]
<1>1. /\ UNCHANGED <<deployed, image, remote, data, ran, published>>
      /\ s \in checker[k].todo
  BY DEF FetchRemoteDigest
<1>2. work' \in Nat
  BY ImageWork1 DEF FetchRemoteDigest, ImageUpdatesTypeOK
<1>3. PICK b \in BOOLEAN :
        /\ checker' = [checker EXCEPT ![k].held = {s}, ![k].hasUpdate = b]
        /\ b => pinned # Unpinned /\ pinned # remote[s]
  <2>1. CASE checker' = [checker EXCEPT ![k].held = {s},
               ![k].hasUpdate = pinned # Unpinned /\ pinned # remote[s]]
    <3> DEFINE b == pinned # Unpinned /\ pinned # remote[s]
    <3>1. b \in BOOLEAN /\ checker' = [checker EXCEPT ![k].held = {s}, ![k].hasUpdate = b]
      BY <2>1
    <3> QED
      BY <3>1, Zenon
  <2>2. CASE checker' = [checker EXCEPT ![k].held = {s}, ![k].hasUpdate = FALSE]
    BY <2>2
  <2> QED
    BY <2>1, <2>2 DEF FetchRemoteDigest
<1>4. b => Differed(s)
  BY <1>1, <1>3 DEF Differed, ListOK
<1>5. /\ checker'[k].todo = checker[k].todo /\ checker'[k].image = checker[k].image
      /\ checker'[k].held = {s} /\ checker'[k].hasUpdate = b
      /\ \A j \in Checker \ {k} : checker'[j] = checker[j]
  BY <1>3 DEF ImageUpdatesTypeOK
<1>6. ImageUpdatesTypeOK'
  <2> DEFINE l == [checker[k] EXCEPT !.held = {s}, !.hasUpdate = b]
  <2>1. checker[k] \in ListType
    BY DEF ImageUpdatesTypeOK, ListType
  <2>2. l \in ListType
    BY <2>1 DEF ListType
  <2>3. checker' = [checker EXCEPT ![k] = l]
    BY <1>3 DEF ImageUpdatesTypeOK
  <2>4. data' \in [Svc -> BOOLEAN]
    BY <1>1 DEF ImageUpdatesTypeOK
  <2> HIDE DEF l
  <2> QED
    BY <1>1, <1>2, <2>2, <2>3, <2>4, ListTypeStep
<1>7. ASSUME NEW j \in Checker PROVE ListOK(j)'
  <2>1. CASE j = k
    BY <1>1, <1>4, <1>5, <2>1 DEF ListOK, Differed
  <2>2. CASE j # k
    BY <1>1, <1>5, <2>2 DEF ListOK, Differed
  <2> QED
    BY <2>1, <2>2
<1> QED
  BY <1>1, <1>6, <1>7 DEF ShownWasTrue

\* An answer that is written is one that was held.
LEMMA StoreAnswerStep ==
  ASSUME ImageInv, NEW k \in Checker, StoreAnswer(k)
  PROVE  ImageInv'
<1> USE DEF ImageInv
<1>1. /\ UNCHANGED <<deployed, image, remote, ran, published, work>>
      /\ data' = [s \in Svc |-> IF s \in checker[k].held THEN checker[k].hasUpdate ELSE data[s]]
      /\ checker' = [checker EXCEPT ![k].todo = checker[k].todo \ checker[k].held, ![k].held = {}]
  BY DEF StoreAnswer
<1>2. checker[k].hasUpdate \in BOOLEAN
  BY DEF ImageUpdatesTypeOK
<1>3. ImageUpdatesTypeOK'
  <2> DEFINE l == [checker[k] EXCEPT !.todo = checker[k].todo \ checker[k].held, !.held = {}]
  <2>1. checker[k] \in ListType
    BY DEF ImageUpdatesTypeOK, ListType
  <2>2. l \in ListType
    BY <2>1 DEF ListType
  <2>3. checker' = [checker EXCEPT ![k] = l]
    BY <1>1 DEF ImageUpdatesTypeOK
  <2>4. data' \in [Svc -> BOOLEAN] /\ work' \in Nat
    BY <1>1, <1>2 DEF ImageUpdatesTypeOK
  <2> HIDE DEF l
  <2> QED
    BY <1>1, <2>2, <2>3, <2>4, ListTypeStep
<1>4. /\ checker'[k].todo \subseteq checker[k].todo /\ checker'[k].image = checker[k].image
      /\ checker'[k].held = {}
      /\ \A j \in Checker \ {k} : checker'[j] = checker[j]
  BY <1>1 DEF ImageUpdatesTypeOK
<1>5. ASSUME NEW j \in Checker PROVE ListOK(j)'
  <2>1. CASE j = k
    BY <1>1, <1>4, <2>1 DEF ListOK
  <2>2. CASE j # k
    BY <1>1, <1>4, <2>2 DEF ListOK, Differed
  <2> QED
    BY <2>1, <2>2
<1>6. ShownWasTrue'
  BY <1>1 DEF ShownWasTrue, ListOK, Differed
<1> QED
  BY <1>1, <1>3, <1>5, <1>6

LEMMA PushStep == ImageInv /\ ImagePush => ImageInv'
<1> SUFFICES ASSUME ImageInv, ImagePush PROVE ImageInv'
  OBVIOUS
<1> USE DEF ImageInv
<1>1. PICK s \in Svc, d \in Digest :
        /\ remote' = [remote EXCEPT ![s] = d]
        /\ published' = [published EXCEPT ![s] = published[s] \cup {d}]
  BY DEF ImagePush
<1>2. UNCHANGED <<deployed, image, data, checker, ran>> /\ work' \in Nat
  BY ImageWork1 DEF ImagePush
<1>3. published \in [Svc -> SUBSET Digest] /\ remote \in [Svc -> Digest]
  BY DEF ImageUpdatesTypeOK
<1>4. \A t \in Svc : published[t] \subseteq published'[t] /\ remote'[t] \in published'[t]
  BY <1>1, <1>3
<1>5. ImageUpdatesTypeOK'
  BY <1>1, <1>2, <1>3 DEF ImageUpdatesTypeOK
<1>6. \A k \in Checker : ListOK(k)'
  BY <1>2, <1>4, HistoryStep
<1>7. ShownWasTrue'
  BY <1>2, <1>4 DEF ShownWasTrue
<1> QED
  BY <1>2, <1>4, <1>5, <1>6, <1>7

LEMMA DeployStep == ImageInv /\ ImageDeploy => ImageInv'
<1> SUFFICES ASSUME ImageInv, ImageDeploy PROVE ImageInv'
  OBVIOUS
<1> USE DEF ImageInv
<1>1. UNCHANGED <<remote, data, checker, published>> /\ work' \in Nat
  BY ImageWork1 DEF ImageDeploy
<1>2. /\ deployed \in SUBSET Svc /\ image \in [Svc -> Digest \cup {Unpinned}]
      /\ ran \in [Svc -> SUBSET (Digest \cup {Unpinned})]
  BY DEF ImageUpdatesTypeOK
<1>3. /\ deployed' \in SUBSET Svc /\ image' \in [Svc -> Digest \cup {Unpinned}]
      /\ ran' \in [Svc -> SUBSET (Digest \cup {Unpinned})]
      /\ \A t \in Svc : ran[t] \subseteq ran'[t]
      /\ \A t \in deployed' : image'[t] \in ran'[t]
  <2>1. ASSUME NEW s \in Svc, NEW d \in Digest \cup {Unpinned},
               deployed' = deployed \cup {s}, image' = [image EXCEPT ![s] = d],
               ran' = [ran EXCEPT ![s] = ran[s] \cup {d}]
        PROVE  <1>3!:
    BY <1>2, <2>1
  <2>2. ASSUME NEW s \in deployed, deployed' = deployed \ {s}, UNCHANGED <<image, ran>>
        PROVE  <1>3!:
    BY <1>2, <2>2
  <2> QED
    BY <2>1, <2>2 DEF ImageDeploy
<1>4. ImageUpdatesTypeOK'
  BY <1>1, <1>3 DEF ImageUpdatesTypeOK
<1>5. \A k \in Checker : ListOK(k)'
  BY <1>1, <1>3, HistoryStep
<1>6. ShownWasTrue'
  BY <1>1, <1>3 DEF ShownWasTrue
<1> QED
  BY <1>1, <1>3, <1>4, <1>5, <1>6

LEMMA RestartStep == ImageInv /\ ImageRestart => ImageInv'
<1> SUFFICES ASSUME ImageInv, ImageRestart PROVE ImageInv'
  OBVIOUS
<1> USE DEF ImageInv
<1>1. /\ UNCHANGED <<deployed, image, remote, ran, published>>
      /\ data' = [s \in Svc |-> FALSE] /\ checker' = [k \in Checker |-> NoList]
  BY DEF ImageRestart
<1>2. ImageUpdatesTypeOK'
  BY <1>1, ImageWork1 DEF ImageRestart, ImageUpdatesTypeOK, NoList
<1>3. \A k \in Checker : ListOK(k)'
  BY <1>1 DEF ListOK, NoList
<1> QED
  BY <1>1, <1>2, <1>3 DEF ShownWasTrue

LEMMA ImageInvStep == ImageInv /\ [ImageUpdatesNext]_imageVars => ImageInv'
<1> SUFFICES ASSUME ImageInv, [ImageUpdatesNext]_imageVars PROVE ImageInv'
  OBVIOUS
<1>1. CASE UNCHANGED imageVars
  BY <1>1 DEF imageVars, ImageInv, ImageUpdatesTypeOK, ListOK, Differed, ShownWasTrue
<1> QED
  BY <1>1, ListServicesStep, FetchRemoteDigestStep, StoreAnswerStep, PushStep, DeployStep,
     RestartStep DEF ImageUpdatesNext, CheckerStep

-----------------------------------------------------------------------------
\* Types hold in every reachable state.
THEOREM ImageUpdatesTypeCorrect == ImageUpdatesSpec => []ImageUpdatesTypeOK
<1>1. ImageInv => ImageUpdatesTypeOK
  BY DEF ImageInv
<1> QED
  BY <1>1, ImageInitInv, ImageInvStep, PTL DEF ImageUpdatesSpec

\* No update is made up: the service was pinned to one digest and the registry
\* has had another, whatever failed or was old (checkRegistryDigest).
THEOREM UpdatesAreTrue == ImageUpdatesSpec => []ShownWasTrue
<1>1. ImageInv => ShownWasTrue
  BY DEF ImageInv
<1> QED
  BY <1>1, ImageInitInv, ImageInvStep, PTL DEF ImageUpdatesSpec
=============================================================================
