----------------------------- MODULE ClustersProofs -----------------------------
(***************************************************************************)
(* Theorems about Clusters, for any number of clusters and requests.       *)
(***************************************************************************)
EXTENDS Clusters, TLAPS

\* A client that points at a cluster points at one that has answered, or a ping
\* is to go to it, or one has gone to it and its answer will tell.
ClientInv ==
  cli \in Host =>
    \/ answered
    \/ \E r \in Request : req[r].phase = "ping" \/ (req[r].phase = "wait" /\ req[r].host = cli)

-----------------------------------------------------------------------------
LEMMA TypeInit == Init => TypeOK
<1> SUFFICES ASSUME Init PROVE TypeOK
  OBVIOUS
<1>1. clusters \in [Id -> Cluster] /\ cli \in Place
  BY DEF Init, Cluster, Place
<1>2. up \in SUBSET (Host \cup {Local})
  BY DEF Init
<1>3. req \in [Request -> [phase : {"idle", "get", "init", "ping", "wait"},
                          host : Host \cup BadHost \cup {Local}]]
  BY DEF Init
<1> QED
  BY <1>1, <1>2, <1>3 DEF Init, TypeOK

LEMMA TypeStep == TypeOK /\ [Next]_vars => TypeOK'
<1> SUFFICES ASSUME TypeOK, [Next]_vars PROVE TypeOK'
  OBVIOUS
<1>1. Budget => work' \in Nat
  BY DEF Budget, TypeOK
<1>2. ASSUME NEW r \in Request, NEW id \in Id, SetActiveCluster(r, id) PROVE TypeOK'
  <2>1. ASSUME NEW rows \in [Id -> Cluster], NEW new \in [Id -> Cluster]
        PROVE  Update(rows, {new}) \subseteq [Id -> Cluster]
    BY DEF Update
  <2>2. ASSUME \E none \in Update(clusters, {[c \in Id |-> [clusters[c] EXCEPT !.active = FALSE]]}) :
                 clusters' \in Update(none, {[none EXCEPT ![id].active = none[id].there]})
        PROVE  clusters' \in [Id -> Cluster]
    <3>1. [c \in Id |-> [clusters[c] EXCEPT !.active = FALSE]] \in [Id -> Cluster]
      BY DEF TypeOK, Cluster
    <3>2. PICK none \in Update(clusters, {[c \in Id |-> [clusters[c] EXCEPT !.active = FALSE]]}) :
            clusters' \in Update(none, {[none EXCEPT ![id].active = none[id].there]})
      BY <2>2
    <3>3. none \in [Id -> Cluster]
      BY <2>1, <3>1 DEF TypeOK
    <3>4. [none EXCEPT ![id].active = none[id].there] \in [Id -> Cluster]
      BY <3>3 DEF Cluster
    <3>5. Update(none, {[none EXCEPT ![id].active = none[id].there]}) \subseteq [Id -> Cluster]
      BY <2>1, <3>3, <3>4
    <3> QED
      BY <3>2, <3>5
  <2>3. clusters' \in [Id -> Cluster]
    BY <1>2, <2>2 DEF SetActiveCluster, TypeOK
  <2>4. req' = req \/ req' = [req EXCEPT ![r].phase = "get"]
    BY <1>2 DEF SetActiveCluster
  <2>5. req' \in [Request -> [phase : {"idle", "get", "init", "ping", "wait"},
                             host : Host \cup BadHost \cup {Local}]]
    BY <2>4 DEF TypeOK
  <2> QED
    BY <1>1, <1>2, <2>3, <2>5 DEF SetActiveCluster, TypeOK
<1>3. ASSUME NEW r \in Request, GetActiveCluster(r) PROVE TypeOK'
  <2>1. \A id \in Active : clusters[id].host \in Host \cup BadHost \cup {Local}
    BY DEF Active, TypeOK, Cluster
  <2>2. PICK host \in Host \cup BadHost \cup {Local} :
          req' = [req EXCEPT ![r].phase = "init", ![r].host = host]
    <3>1. PICK host \in {clusters[id].host : id \in Active}
                        \cup (IF Active = {} \/ StatementsFail THEN {Local} ELSE {}) :
            req' = [req EXCEPT ![r].phase = "init", ![r].host = host]
      BY <1>3 DEF GetActiveCluster
    <3>2. host \in {clusters[id].host : id \in Active} \/ host = Local
      BY <3>1
    <3>3. host \in Host \cup BadHost \cup {Local}
      BY <2>1, <3>2
    <3> QED
      BY <3>1, <3>3
  <2>3. req' \in [Request -> [phase : {"idle", "get", "init", "ping", "wait"},
                             host : Host \cup BadHost \cup {Local}]]
    BY <2>2 DEF TypeOK
  <2>4. UNCHANGED <<clusters, cli, up, answered, work>>
    BY <1>3 DEF GetActiveCluster
  <2> QED
    BY <2>3, <2>4 DEF TypeOK
<1>4. ASSUME NEW r \in Request, InitWithHost(r) PROVE TypeOK'
  BY <1>4 DEF InitWithHost, TypeOK, Place
<1>5. ASSUME NEW r \in Request, Ping(r) \/ Pinged(r) PROVE TypeOK'
  <2>1. UNCHANGED <<clusters, up, work>> /\ cli' \in Place /\ answered' \in BOOLEAN
    BY <1>5 DEF Ping, Pinged, TypeOK, Place
  <2>2. cli # Nil => cli \in Host \cup BadHost \cup {Local}
    BY DEF TypeOK, Place
  <2>3. PICK phase \in {"idle", "wait"} :
          \/ req' = [req EXCEPT ![r].phase = phase]
          \/ cli # Nil /\ req' = [req EXCEPT ![r].phase = phase, ![r].host = cli]
    BY <1>5 DEF Ping, Pinged
  <2>4. req' \in [Request -> [phase : {"idle", "get", "init", "ping", "wait"},
                             host : Host \cup BadHost \cup {Local}]]
    BY <2>2, <2>3 DEF TypeOK
  <2> QED
    BY <2>1, <2>4 DEF TypeOK
<1>6. ASSUME NEW id \in Id, NEW host \in Host \cup BadHost, ClusterCreate(id, host) PROVE TypeOK'
  BY <1>1, <1>6 DEF ClusterCreate, TypeOK, Cluster
<1>7. ASSUME NEW id \in Id, ClusterDelete(id) PROVE TypeOK'
  <2> DEFINE c == clusters[id]
  <2>a. c \in [there : BOOLEAN, active : BOOLEAN, host : Host \cup BadHost \cup {Local}]
    BY DEF TypeOK, Cluster
  <2>b. [c EXCEPT !.there = FALSE, !.active = FALSE]
          \in [there : BOOLEAN, active : BOOLEAN, host : Host \cup BadHost \cup {Local}]
    <3> HIDE DEF c
    <3> QED
      BY <2>a
  <2>1. [clusters[id] EXCEPT !.there = FALSE, !.active = FALSE] \in Cluster
    BY <2>b DEF Cluster
  <2>2. clusters' = [clusters EXCEPT ![id] = [clusters[id] EXCEPT !.there = FALSE, !.active = FALSE]]
    BY <1>7 DEF ClusterDelete, TypeOK, Cluster
  <2> QED
    BY <1>1, <1>7, <2>1, <2>2 DEF ClusterDelete, TypeOK
<1>8. CASE Restart
  BY <1>1, <1>8 DEF Restart, TypeOK, Place
<1>9. ASSUME NEW host \in Host \cup {Local}, Reach(host) PROVE TypeOK'
  BY <1>1, <1>9 DEF Reach, TypeOK
<1>10. CASE Quiet \/ UNCHANGED vars
  BY <1>10 DEF Quiet, vars, TypeOK
<1> QED
  BY <1>2, <1>3, <1>4, <1>5, <1>6, <1>7, <1>8, <1>9, <1>10 DEF Next, ClusterActivate

\* Types hold in every reachable state.
THEOREM TypeCorrect == Spec => []TypeOK
  BY TypeInit, TypeStep, PTL DEF Spec

-----------------------------------------------------------------------------
LEMMA ClientStep == TypeOK /\ ClientInv /\ [Next]_vars => ClientInv'
<1> SUFFICES ASSUME TypeOK, ClientInv, [Next]_vars PROVE ClientInv'
  OBVIOUS
<1> USE DEF ClientInv
<1>1. ASSUME NEW r \in Request,
             (\E id \in Id : SetActiveCluster(r, id)) \/ GetActiveCluster(r)
      PROVE  ClientInv'
  <2>1. req[r].phase \notin {"ping", "wait"} /\ \A s \in Request \ {r} : req'[s] = req[s]
    BY <1>1 DEF SetActiveCluster, GetActiveCluster, TypeOK
  <2>2. UNCHANGED <<cli, answered>>
    BY <1>1 DEF SetActiveCluster, GetActiveCluster
  <2> QED
    BY <2>1, <2>2
<1>2. ASSUME NEW r \in Request, InitWithHost(r) PROVE ClientInv'
  <2>1. CASE req[r].host \in Host
    <3>1. req'[r].phase = "ping"
      BY <1>2, <2>1 DEF InitWithHost, TypeOK
    <3> QED
      BY <3>1
  <2>2. CASE req[r].host \notin Host
    <3>1. cli' \notin Host
      BY <1>2, <2>2, ClustersAssumption DEF InitWithHost
    <3> QED
      BY <3>1
  <2> QED
    BY <2>1, <2>2
<1>3. ASSUME NEW r \in Request, Ping(r) PROVE ClientInv'
  <2>1. UNCHANGED <<cli, answered>>
    BY <1>3 DEF Ping
  <2>2. CASE cli \in Host
    <3>1. req'[r].phase = "wait" /\ req'[r].host = cli
      BY <1>3, <2>2, ClustersAssumption DEF Ping, TypeOK
    <3> QED
      BY <2>1, <3>1
  <2> QED
    BY <2>1, <2>2
<1>8. ASSUME NEW r \in Request, Pinged(r) PROVE ClientInv'
  <2>1. CASE req[r].host \notin up
    BY <1>8, <2>1, ClustersAssumption DEF Pinged
  <2>2. CASE req[r].host \in up
    <3>1. cli' = cli /\ answered' = (answered \/ req[r].host = cli)
      BY <1>8, <2>2 DEF Pinged
    <3>2. \A s \in Request \ {r} : req'[s] = req[s]
      BY <1>8 DEF Pinged, TypeOK
    <3>3. req[r].phase = "wait"
      BY <1>8 DEF Pinged
    <3> QED
      BY <3>1, <3>2, <3>3
  <2> QED
    BY <2>1, <2>2
<1>4. Restart => ClientInv'
  BY ClustersAssumption DEF Restart
<1>5. UNCHANGED <<cli, req, answered>> => ClientInv'
  OBVIOUS
<1>6. ASSUME NEW id \in Id,
             ClusterDelete(id) \/ \E host \in Host \cup BadHost : ClusterCreate(id, host)
      PROVE  ClientInv'
  BY <1>5, <1>6 DEF ClusterDelete, ClusterCreate
<1>7. (\E host \in Host \cup {Local} : Reach(host)) \/ Quiet \/ UNCHANGED vars => ClientInv'
  BY <1>5 DEF Reach, Quiet, vars
<1> QED
  BY <1>1, <1>2, <1>3, <1>4, <1>6, <1>7, <1>8 DEF Next, ClusterActivate

\* No activation leaves a cluster in the client that has not answered since it
\* was put there, however many activations overlap and whichever statements,
\* pings and restarts fail or fall between.
THEOREM FailureRollsBack == Spec => []RolledBack
<1>1. Init => ClientInv
  BY ClustersAssumption DEF Init, ClientInv
<1>2. TypeOK /\ ClientInv => RolledBack
  BY DEF ClientInv, RolledBack, InFlight
<1>3. TypeOK /\ ClientInv /\ [Next]_vars => ClientInv'
  BY ClientStep
<1> QED
  BY <1>1, <1>2, <1>3, TypeInit, TypeStep, PTL DEF Spec

=============================================================================
