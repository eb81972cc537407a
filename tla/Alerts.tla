-------------------------------- MODULE Alerts --------------------------------
(***************************************************************************)
(* The statistics the agents push (internal/api/sse.go), the table          *)
(* alert_rules, and the goroutine that compares the two every 30 seconds   *)
(* (checkAlerts in internal/api/handlers.go).                              *)
(*                                                                         *)
(* A check copies the rules, then the statistics, and records its alerts   *)
(* one by one, while rules are edited and agents report.                   *)
(***************************************************************************)
EXTENDS Bounded

CONSTANTS
  Rule,       \* ids of rules
  Node,       \* nodes with an agent
  Metric,     \* cpu, memory, disk
  Level,      \* percentages, thresholds
  NoRule,     \* no row
  NoStats,    \* no entry in the cache
  AlertWork   \* bound: edits, reports of another value, failures, restarts

RuleRow == [metric : Metric, threshold : Level, enabled : BOOLEAN]

ASSUME AlertsAssumption ==
  /\ Level \subseteq Nat /\ 0 \in Level
  /\ NoRule \notin RuleRow
  /\ NoStats \notin [Metric -> Level]
  /\ AlertWork \in Nat

VARIABLES
  rules,     \* [Rule -> RuleRow or NoRule]: table alert_rules
  stats,     \* [Node -> [Metric -> Level] or NoStats]: agentStatsCache.nodes
  check,     \* the checker: phase, its copies, and what it has yet to compare
  history,   \* table alert_history, without the times
  rows,      \* rows the table has had, by id (history variable)
  reports    \* values agents have reported (history variable)

alertVars == <<rules, stats, check, history, rows, reports, work>>

NoCheck == [phase |-> "sleep", rules |-> [i \in Rule |-> NoRule],
            stats |-> [n \in Node |-> NoStats], todo |-> {}]

Check == [phase : {"sleep", "listed", "compare"}, rules : [Rule -> RuleRow \cup {NoRule}],
          stats : [Node -> [Metric -> Level] \cup {NoStats}], todo : SUBSET (Rule \X Node)]

Alert == [id : Rule, metric : Metric, threshold : Level, node : Node, value : Level]

-----------------------------------------------------------------------------
\* storeAgentStats: the entry is replaced; a metric that is missing from the
\* report is read as 0 from then on.  No entry is ever removed.
StoreAgentStats(n, m) ==
  /\ IF stats[n] = m THEN UNCHANGED work ELSE Budget(AlertWork)
  /\ stats' = [stats EXCEPT ![n] = m]
  /\ reports' = reports \cup {<<n, x, m[x]>> : x \in Metric}
  /\ UNCHANGED <<rules, check, history, rows>>

\* AlertRuleCreate, which enables the rule, and AlertRuleUpdate.
AlertRuleWrite(i, r) ==
  /\ Budget(AlertWork)
  /\ rules[i] = NoRule => r.enabled /\ \A old \in rows : old[1] # i
  /\ rules' = [rules EXCEPT ![i] = r]
  /\ rows' = rows \cup {<<i, r>>}
  /\ UNCHANGED <<stats, check, history, reports>>

AlertRuleDelete(i) ==
  /\ rules[i] # NoRule /\ Budget(AlertWork)
  /\ rules' = [rules EXCEPT ![i] = NoRule]
  /\ UNCHANGED <<stats, check, history, rows, reports>>

-----------------------------------------------------------------------------
\* checkAlerts: store.ListAlertRules; an error is an empty list.
ListAlertRules ==
  /\ check.phase = "sleep"
  /\ \/ check' = [NoCheck EXCEPT !.phase = "listed", !.rules = rules] /\ UNCHANGED work
     \/ check' = [NoCheck EXCEPT !.phase = "listed"] /\ Budget(AlertWork)
  /\ UNCHANGED <<rules, stats, history, rows, reports>>

\* Seeded fault: the checker skips the rules it has alerted for.
CopyStatsOnce ==
  /\ check.phase = "listed"
  /\ check' = [check EXCEPT !.phase = "compare", !.stats = stats, !.todo =
       {p \in Rule \X Node :
          /\ check.rules[p[1]] # NoRule /\ check.rules[p[1]].enabled /\ stats[p[2]] # NoStats
          /\ \A a \in history : a.id # p[1]}]
  /\ UNCHANGED <<rules, stats, history, rows, reports, work>>

\* getNodeStatsCache; the enabled rules are compared with every node in it.
CopyStats ==
  /\ check.phase = "listed"
  /\ check' = [check EXCEPT !.phase = "compare", !.stats = stats, !.todo =
       {p \in Rule \X Node : check.rules[p[1]] # NoRule /\ check.rules[p[1]].enabled
                             /\ stats[p[2]] # NoStats}]
  /\ UNCHANGED <<rules, stats, history, rows, reports, work>>

\* Seeded fault: the message is made from the cache, not from the copy.
CompareLive(i, n) ==
  /\ check.phase = "compare" /\ <<i, n>> \in check.todo
  /\ check' = [check EXCEPT !.todo = @ \ {<<i, n>>}]
  /\ LET r == check.rules[i]  v == check.stats[n][r.metric]
     IN history' = history \cup
          {[id |-> i, metric |-> q.metric, threshold |-> q.threshold, node |-> n, value |-> v] :
             q \in {x \in {rules[i]} \ {NoRule} : v > r.threshold}}
  /\ UNCHANGED <<rules, stats, rows, reports, work>>

\* One pair: RecordAlertHistory, whose error is dropped; the webhook is sent by
\* a goroutine of its own, which nothing waits for.
Compare(i, n) ==
  /\ check.phase = "compare" /\ <<i, n>> \in check.todo
  /\ check' = [check EXCEPT !.todo = @ \ {<<i, n>>}]
  /\ LET r == check.rules[i]  v == check.stats[n][r.metric]
         a == [id |-> i, metric |-> r.metric, threshold |-> r.threshold, node |-> n, value |-> v]
     IN \/ v > r.threshold /\ history' = history \cup {a} /\ UNCHANGED work
        \/ v > r.threshold /\ Budget(AlertWork) /\ UNCHANGED history
        \/ v <= r.threshold /\ UNCHANGED <<history, work>>
  /\ UNCHANGED <<rules, stats, rows, reports>>

CheckEnds ==
  /\ check.phase = "compare" /\ check.todo = {}
  /\ check' = NoCheck
  /\ UNCHANGED <<rules, stats, history, rows, reports, work>>

\* The process restarts: the cache is empty until the agents report.
AlertRestart ==
  /\ Budget(AlertWork)
  /\ check' = NoCheck /\ stats' = [n \in Node |-> NoStats]
  /\ UNCHANGED <<rules, history, rows, reports>>

-----------------------------------------------------------------------------
CheckStep ==
  \/ ListAlertRules \/ CopyStats \/ CheckEnds
  \/ \E i \in Rule, n \in Node : Compare(i, n)

AlertsInit ==
  /\ rules = [i \in Rule |-> NoRule] /\ stats = [n \in Node |-> NoStats]
  /\ check = NoCheck /\ history = {} /\ rows = {} /\ reports = {}
  /\ work = 0

AlertsNext ==
  \/ CheckStep
  \/ \E n \in Node, m \in [Metric -> Level] : StoreAgentStats(n, m)
  \/ \E i \in Rule : AlertRuleDelete(i) \/ \E r \in RuleRow : AlertRuleWrite(i, r)
  \/ AlertRestart

AlertsSpec == AlertsInit /\ [][AlertsNext]_alertVars

-----------------------------------------------------------------------------
\* Types.
AlertsTypeOK ==
  /\ rules \in [Rule -> RuleRow \cup {NoRule}]
  /\ stats \in [Node -> [Metric -> Level] \cup {NoStats}]
  /\ check \in Check
  /\ history \in SUBSET Alert
  /\ rows \in SUBSET (Rule \X RuleRow)
  /\ reports \in SUBSET (Node \X Metric \X Level)
  /\ work \in Nat

\* Every alert in the history was right: a row of its rule was enabled with the
\* metric and the threshold of the message, and the node reported the value,
\* which is above it.  Rules are edited and reports come in during the check.
AlertsWereTrue ==
  \A a \in history :
    /\ <<a.id, [metric |-> a.metric, threshold |-> a.threshold, enabled |-> TRUE]>> \in rows
    /\ <<a.node, a.metric, a.value>> \in reports
    /\ a.value > a.threshold

\* A rule that stays enabled and below what the cache holds of a node is alerted
\* for that node, after failed lists and records (StartAlertChecker).
Above(i, n, r) == rules[i] = r /\ stats[n] # NoStats /\ stats[n][r.metric] > r.threshold
Alarmed ==
  \A i \in Rule, n \in Node, r \in {x \in RuleRow : x.enabled} :
    <>[]Above(i, n, r) =>
      <>(\E a \in history : a.id = i /\ a.node = n /\ a.metric = r.metric)
=============================================================================
