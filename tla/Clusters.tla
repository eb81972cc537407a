------------------------------- MODULE Clusters -------------------------------
(***************************************************************************)
(* The table clusters of internal/store and the one Docker client of       *)
(* internal/docker, which ClusterActivate (internal/api/handlers.go) keeps *)
(* in step: the row that is active, and the cluster the client talks to.   *)
(*                                                                         *)
(* The row and the client are written by separate steps of a request, the  *)
(* client is a global that requests share, and only the row is persistent. *)
(* The errors of the statements on the table are dropped.                  *)
(***************************************************************************)
EXTENDS Naturals, FiniteSets

CONSTANTS
  Id,            \* ids of clusters
  Host,          \* docker_host values that parse
  BadHost,       \* docker_host values client.WithHost refuses
  Local,         \* the daemon of the environment (client.FromEnv)
  Nil,           \* no client
  Request,       \* goroutines
  HostsFail,     \* TRUE: daemons may be out of reach
  StatementsFail, \* TRUE: statements on the table may fail
  Restarts,      \* TRUE: the process may restart
  DeletesActive, \* TRUE: the active cluster may be deleted
  MaxWork        \* bound: requests, restarts and changes of reachability

ASSUME ClustersAssumption ==
  /\ Host \cap BadHost = {}
  /\ Local \notin Host \cup BadHost
  /\ Nil \notin Host \cup BadHost \cup {Local}
  /\ {HostsFail, StatementsFail, Restarts, DeletesActive} \subseteq BOOLEAN
  /\ MaxWork \in Nat

VARIABLES
  clusters,  \* [Id -> Cluster]: the table
  cli,       \* docker.cli: where the client points
  up,        \* daemons that answer
  req,       \* [Request -> [phase, host]]; the host is the one to assign, or the one pinged
  answered,  \* the host of the client has answered since it was assigned (history)
  work

vars == <<clusters, cli, up, req, answered, work>>

Cluster == [there : BOOLEAN, active : BOOLEAN, host : Host \cup BadHost \cup {Local}]

Place == Host \cup BadHost \cup {Local, Nil}

Active == {id \in Id : clusters[id].there /\ clusters[id].active}

Budget == work < MaxWork /\ work' = work + 1

InFlight == {r \in Request : req[r].phase # "idle"}

-----------------------------------------------------------------------------
ClusterCreate(id, host) ==
  /\ ~clusters[id].there /\ Budget
  /\ clusters' = [clusters EXCEPT ![id] = [there |-> TRUE, active |-> FALSE, host |-> host]]
  /\ UNCHANGED <<cli, up, req, answered>>

\* The client stays where it is.
ClusterDelete(id) ==
  /\ clusters[id].there /\ Budget
  /\ DeletesActive \/ ~clusters[id].active
  /\ clusters' = [clusters EXCEPT ![id].there = FALSE, ![id].active = FALSE]
  /\ UNCHANGED <<cli, up, req, answered>>

\* One UPDATE of a transaction, whose error is dropped.
Update(rows, new) == new \cup IF StatementsFail THEN {rows} ELSE {}

\* ClusterActivate begins with store.SetActiveCluster: one transaction, which
\* leaves no row active when there is no such id.  Either UPDATE may fail alone;
\* a failed Begin panics on its nil transaction, and a failed Commit ends the
\* request too.
SetActiveCluster(r, id) ==
  /\ req[r].phase = "idle" /\ Budget
  /\ \/ /\ \E none \in Update(clusters, {[c \in Id |-> [clusters[c] EXCEPT !.active = FALSE]]}) :
            clusters' \in Update(none, {[none EXCEPT ![id].active = none[id].there]})
        /\ req' = [req EXCEPT ![r].phase = "get"]
     \/ StatementsFail /\ UNCHANGED <<clusters, req>>
  /\ UNCHANGED <<cli, up, answered>>

\* Seeded fault: no host instead of the local one when no row is active.
GetActiveClusterOrNil(r) ==
  /\ req[r].phase = "get"
  /\ \E host \in IF Active = {} THEN {Nil} ELSE {clusters[id].host : id \in Active} :
       req' = [req EXCEPT ![r].phase = "init", ![r].host = host]
  /\ UNCHANGED <<clusters, cli, up, answered, work>>

\* store.GetActiveCluster: Local stands for the empty host when no row is active
\* or the query fails.
GetActiveCluster(r) ==
  /\ req[r].phase = "get"
  /\ \E host \in {clusters[id].host : id \in Active}
                \cup (IF Active = {} \/ StatementsFail THEN {Local} ELSE {}) :
       req' = [req EXCEPT ![r].phase = "init", ![r].host = host]
  /\ UNCHANGED <<clusters, cli, up, answered, work>>

\* docker.InitWithHost: cli is assigned before it is known to be any good.
InitWithHost(r) ==
  /\ req[r].phase = "init"
  /\ cli' = IF req[r].host \in BadHost THEN Nil ELSE req[r].host
  /\ req' = [req EXCEPT ![r].phase = IF req[r].host \in Host THEN "ping" ELSE "idle"]
  /\ answered' = FALSE
  /\ UNCHANGED <<clusters, up, work>>

\* Ping takes the global client, whoever assigned it last.  A nil client
\* panics, which the router recovers.
Ping(r) ==
  /\ req[r].phase = "ping"
  /\ req' = IF cli = Nil THEN [req EXCEPT ![r].phase = "idle"]
            ELSE [req EXCEPT ![r].phase = "wait", ![r].host = cli]
  /\ UNCHANGED <<clusters, cli, up, answered, work>>

\* Seeded fault: a failed ping leaves the client as it is.
PingedKeeps(r) ==
  /\ req[r].phase = "wait"
  /\ answered' = (answered \/ (req[r].host \in up /\ req[r].host = cli))
  /\ req' = [req EXCEPT ![r].phase = "idle"]
  /\ UNCHANGED <<clusters, cli, up, work>>

\* The answer, or the timeout after 15 seconds, in which other activations may
\* have run: a failure sends the global client back to the local daemon, whatever
\* it points at by now.
Pinged(r) ==
  /\ req[r].phase = "wait"
  /\ \/ /\ req[r].host \in up
        /\ answered' = (answered \/ req[r].host = cli) /\ UNCHANGED cli
     \/ /\ req[r].host \notin up
        /\ cli' = Local /\ answered' = FALSE
  /\ req' = [req EXCEPT ![r].phase = "idle"]
  /\ UNCHANGED <<clusters, up, work>>

-----------------------------------------------------------------------------
\* main: docker.Init, whatever row is active.
Restart ==
  /\ Restarts /\ Budget
  /\ cli' = Local /\ answered' = FALSE
  /\ req' = [r \in Request |-> [phase |-> "idle", host |-> Local]]
  /\ UNCHANGED <<clusters, up>>

\* A daemon goes out of reach or comes back.
Reach(host) ==
  /\ HostsFail /\ Budget
  /\ up' = IF host \in up THEN up \ {host} ELSE up \cup {host}
  /\ UNCHANGED <<clusters, cli, req, answered>>

\* Nothing left to do within the bound.
Quiet == work = MaxWork /\ InFlight = {} /\ UNCHANGED vars

-----------------------------------------------------------------------------
ClusterActivate(r) ==
  \/ \E id \in Id : SetActiveCluster(r, id)
  \/ GetActiveCluster(r) \/ InitWithHost(r) \/ Ping(r) \/ Pinged(r)

Init ==
  /\ clusters = [id \in Id |-> [there |-> FALSE, active |-> FALSE, host |-> Local]]
  /\ cli = Local
  /\ up \in SUBSET (Host \cup {Local}) /\ (~HostsFail => up = Host \cup {Local})
  /\ req = [r \in Request |-> [phase |-> "idle", host |-> Local]]
  /\ answered = FALSE
  /\ work = 0

Next ==
  \/ \E r \in Request : ClusterActivate(r)
  \/ \E id \in Id : ClusterDelete(id) \/ \E host \in Host \cup BadHost : ClusterCreate(id, host)
  \/ Restart \/ (\E host \in Host \cup {Local} : Reach(host)) \/ Quiet

Spec == Init /\ [][Next]_vars

-----------------------------------------------------------------------------
\* Types.
TypeOK ==
  /\ clusters \in [Id -> Cluster]
  /\ cli \in Place
  /\ up \in SUBSET (Host \cup {Local})
  /\ req \in [Request -> [phase : {"idle", "get", "init", "ping", "wait"},
                          host : Host \cup BadHost \cup {Local}]]
  /\ answered \in BOOLEAN
  /\ work \in Nat

\* "Only one cluster is active at a time - switching clusters changes the context
\* for all operations" (xpx-features.js:247): outside an activation, the client
\* points at the host of the active row, or at the local daemon when there is none.
ActiveIsUsed ==
  InFlight = {} =>
    IF Active = {} THEN cli = Local ELSE \A id \in Active : cli = clusters[id].host

\* "Rollback to local on failure" (client.go:48): when no activation is under way,
\* a client that points at a cluster points at one that has answered a ping since
\* it was assigned, although the ping of an activation may go to the client of
\* another, and its answer may come when the client is a third.
RolledBack == InFlight = {} /\ cli \in Host => answered
=============================================================================
