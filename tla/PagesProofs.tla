----------------------------- MODULE PagesProofs -----------------------------
(***************************************************************************)
(* Theorems about Views, for any services, tasks, networks and pages, and  *)
(* about Compose, for any stack, specs and networks.                       *)
(***************************************************************************)
EXTENDS Views, Compose, FiniteSetTheorems, TLAPS

-----------------------------------------------------------------------------
\* Views.

ServiceCopy == [ViewService -> ViewSpecs]
TaskCopy    == [ViewTask -> TaskState]

\* An answer is the mapping of some copies, whatever the moments they are from.
IsAnswer(l, v) ==
  \E sv \in ServiceCopy, ts \in TaskCopy, ns \in SUBSET ViewNet : v = Answer(l, sv, ts, ns)

ViewsInv ==
  /\ services \in ServiceCopy /\ tasks \in TaskCopy /\ networks \in SUBSET ViewNet
  /\ reader \in [Reader -> [at : {"services", "tasks", "networks"},
                            services : ServiceCopy, tasks : TaskCopy]]
  /\ list \in [Reader -> Lists]
  /\ DOMAIN shown = Reader
  /\ \A p \in Reader : IsAnswer(list[p], shown[p])
  /\ work \in Nat

-----------------------------------------------------------------------------
\* Counts of tasks are numbers.
LEMMA TasksCounted ==
  ASSUME NEW ts \in TaskCopy, NEW S \in SUBSET ViewTask
  PROVE  Cardinality(S) \in Nat
BY ViewsAssumption, FS_Subset, FS_CardinalityType

LEMMA TasksOfType ==
  ASSUME NEW s, NEW ts \in TaskCopy
  PROVE  TasksOf(s, ts) \in SUBSET ViewTask
BY DEF TasksOf, There, TaskCopy

\* Every service is mapped to a service of the page's type.
LEMMA MapServiceType ==
  ASSUME NEW sv \in ServiceCopy, NEW ts \in TaskCopy, NEW ns \in SUBSET ViewNet,
         NEW s \in ViewService
  PROVE  MapService(s, sv, ts, ns) \in Mapped
<1>1. TasksOf(s, ts) \in SUBSET ViewTask /\ sv[s] \in ViewSpecs
  BY TasksOfType DEF ServiceCopy
<1>2. Running(s, ts) \in Nat /\ Unhealthy(s, ts) \in Nat
  BY <1>1, TasksCounted DEF Running, Unhealthy
<1>3. Total(s, sv, ts) \in Nat
  <2>1. Cardinality({t \in TasksOf(s, ts) : ts[t].desired # "shutdown"}) \in Nat
    BY <1>1, TasksCounted
  <2>2. sv[s].replicas \in Nat
    BY <1>1 DEF ViewSpecs
  <2> QED
    BY <2>1, <2>2 DEF Total
<1>4. State(s, sv, ts) \in {"not running", "partly running", "running", "completed"}
  BY DEF State
<1>5. ServiceNets(s, sv, ts, ns) \in SUBSET ViewNet
  BY DEF ServiceNets
<1> QED
  BY <1>2, <1>3, <1>4, <1>5 DEF MapService, Mapped

LEMMA AnswerIsTyped ==
  ASSUME NEW l \in Lists, NEW v, IsAnswer(l, v)
  PROVE  \A m \in Rows(l, v) : \A s \in DOMAIN m : m[s] \in Mapped
<1>1. PICK sv \in ServiceCopy, ts \in TaskCopy, ns \in SUBSET ViewNet : v = Answer(l, sv, ts, ns)
  BY DEF IsAnswer
<1>2. There(sv) \subseteq ViewService
  BY DEF There, ServiceCopy
<1>3. ASSUME NEW S \in SUBSET ViewService
      PROVE  LET m == MapServices(S, sv, ts, ns) IN \A s \in DOMAIN m : m[s] \in Mapped
  BY MapServiceType DEF MapServices
<1>4. CASE l = "services"
  <2>1. Rows(l, v) = {MapServices(There(sv), sv, ts, ns)}
    BY <1>1, <1>4 DEF Rows, Answer
  <2> QED
    BY <1>2, <1>3, <2>1
<1>5. CASE l = "linked"
  <2>1. v = [n \in ViewNet \ {HostNet} |-> Linked(n, sv, ts, ns)]
    BY <1>1, <1>5 DEF Answer
  <2>2. Rows(l, v) = {v[n] : n \in DOMAIN v}
    BY <1>5 DEF Rows
  <2>3. \A m \in Rows(l, v) : \E n \in ViewNet : m = Linked(n, sv, ts, ns)
    BY <2>1, <2>2
  <2> QED
    BY <1>2, <1>3, <2>3 DEF Linked
<1>6. CASE l \in {"stacks", "stack"}
  <2>1. \A st \in DOMAIN v : v[st] = MapStack(st, sv, ts, ns)
    BY <1>1, <1>6 DEF Answer
  <2>2. Rows(l, v) = {v[st].services : st \in DOMAIN v}
    BY <1>6 DEF Rows
  <2>3. \A m \in Rows(l, v) : \E st \in DOMAIN v : m = MapServices(InStack(st, sv), sv, ts, ns)
    BY <2>1, <2>2 DEF MapStack
  <2>4. \A st : InStack(st, sv) \subseteq ViewService
    BY <1>2 DEF InStack
  <2> QED
    BY <1>3, <2>3, <2>4
<1> QED
  BY <1>4, <1>5, <1>6 DEF Lists

-----------------------------------------------------------------------------
\* A service that is mapped from the swarm as it is, is shown as it is: the counts
\* tell the states apart for any number of tasks.
LEMMA MappedAsItIs ==
  ASSUME ViewsInv, NEW s \in There(services)
  PROVE  ServiceShown(s, MapService(s, services, tasks, networks))
<1> DEFINE m == MapService(s, services, tasks, networks)
<1>1. /\ m.state = State(s, services, tasks)
      /\ m.nets = {n \in services[s].nets \cap networks :
                     n = HostNet => \E t \in TasksOf(s, tasks) : tasks[t].state # "new"}
  BY DEF MapService, ServiceNets
<1>2. /\ s \in ViewService /\ services[s] \in ViewSpecs /\ tasks \in TaskCopy
      /\ TasksOf(s, tasks) \in SUBSET ViewTask
  BY TasksOfType DEF ViewsInv, ServiceCopy, There
<1>3. Runs(s) = {t \in TasksOf(s, tasks) : tasks[t].state = "running" /\ tasks[t].desired = "running"}
  BY DEF Runs, Wanted
<1>4. /\ Runs(s) \subseteq Wanted(s) /\ Wanted(s) \in SUBSET ViewTask
      /\ Running(s, tasks) = Cardinality(Runs(s))
  BY <1>2, <1>3 DEF Runs, Wanted, Running
<1>5. IsFiniteSet(Wanted(s)) /\ IsFiniteSet(Runs(s))
  BY <1>4, ViewsAssumption, FS_Subset
<1>6. /\ Cardinality(Runs(s)) \in Nat /\ Cardinality(Wanted(s)) \in Nat
      /\ Cardinality(Runs(s)) = 0 <=> Runs(s) = {}
      /\ Cardinality(Runs(s)) <= Cardinality(Wanted(s))
      /\ Cardinality(Runs(s)) = Cardinality(Wanted(s)) => Runs(s) = Wanted(s)
  BY <1>4, <1>5, FS_Subset, FS_CardinalityType, FS_EmptySet
<1>7. Total(s, services, tasks) = IF services[s].mode = "replicated" THEN services[s].replicas
                                  ELSE Cardinality(Wanted(s))
  BY DEF Total, Wanted
<1>8. services[s].replicas \in Nat
  BY <1>2 DEF ViewSpecs
<1>9. Up(s) <=> /\ Cardinality(Runs(s)) # 0
                /\ Cardinality(Runs(s)) >= Total(s, services, tasks)
  <2>1. CASE services[s].mode = "replicated"
    BY <1>6, <1>7, <2>1 DEF Up
  <2>2. CASE services[s].mode # "replicated"
    <3>1. Wanted(s) \subseteq Runs(s) <=> Cardinality(Runs(s)) >= Cardinality(Wanted(s))
      BY <1>4, <1>6
    <3> QED
      BY <1>6, <1>7, <2>2, <3>1 DEF Up
  <2> QED
    BY <2>1, <2>2
<1>10. Total(s, services, tasks) \in Nat
  BY <1>6, <1>7, <1>8
<1>11. (m.state = "running") = Up(s)
  <2>1. Up(s) \in BOOLEAN
    BY DEF Up
  <2>2. m.state = "running" <=> /\ Running(s, tasks) # 0
                                /\ ~(Running(s, tasks) < Total(s, services, tasks))
    BY <1>1 DEF State
  <2>3. m.state = "running" <=> Up(s)
    BY <1>4, <1>6, <1>9, <1>10, <2>2
  <2> QED
    BY <2>1, <2>3
<1>12. m.state = "not running" => Runs(s) = {}
  BY <1>1, <1>4, <1>6 DEF State
<1>13. m.state = "completed" =>
         services[s].mode = "job" /\ \E t \in TasksOf(s, tasks) : tasks[t].state = "complete"
  BY <1>1 DEF State
<1>14. \A n \in services[s].nets \cap networks : n \in m.nets \/ (n = HostNet /\ Runs(s) = {})
  <2>1. Runs(s) # {} => \E t \in TasksOf(s, tasks) : tasks[t].state # "new"
    BY <1>3
  <2> QED
    BY <1>1, <2>1
<1> QED
  BY <1>1, <1>11, <1>12, <1>13, <1>14 DEF ServiceShown

LEMMA AllMappedAsTheyAre ==
  ASSUME ViewsInv, NEW S \in SUBSET There(services)
  PROVE  ServicesShown(S, MapServices(S, services, tasks, networks))
BY MappedAsItIs DEF ServicesShown, MapServices

-----------------------------------------------------------------------------
LEMMA ViewsTypes ==
  /\ GoneService \in ViewSpecs /\ ViewSpec \subseteq ViewSpecs
  /\ GoneTask \in TaskState
  /\ NoServices \in ServiceCopy /\ NoTasks \in TaskCopy
<1>1. (CHOOSE sp \in ViewSpec : TRUE) \in ViewSpecs /\ ViewSpec \subseteq ViewSpecs
  BY ViewsAssumption
<1>2. GoneService \in ViewSpecs
  BY <1>1 DEF GoneService, ViewSpecs
<1>3. (CHOOSE s \in ViewService : TRUE) \in ViewService
  BY ViewsAssumption
<1>4. GoneTask \in TaskState
  BY <1>3 DEF GoneTask, TaskState
<1> QED
  BY <1>1, <1>2, <1>4 DEF NoServices, NoTasks, ServiceCopy, TaskCopy

LEMMA NewTaskType ==
  ASSUME NEW sv \in ServiceCopy
  PROVE  NewTasks(sv) \subseteq TaskState
<1>1. There(sv) \subseteq ViewService
  BY DEF There, ServiceCopy
<1>2. ASSUME NEW s \in There(sv)
      PROVE  [there |-> TRUE, service |-> s, state |-> "new",
              desired |-> IF sv[s].mode = "job" THEN "complete" ELSE "running"] \in TaskState
  BY <1>1 DEF TaskState
<1> QED
  BY <1>2 DEF NewTasks

LEMMA NextTaskType ==
  ASSUME NEW k \in TaskState
  PROVE  NextTask(k) \subseteq TaskState
<1>1. \A q \in {"running", "failed", "complete"} : [k EXCEPT !.state = q] \in TaskState
  BY DEF TaskState
<1>2. [k EXCEPT !.desired = "shutdown"] \in TaskState
  BY DEF TaskState
<1> QED
  BY <1>1, <1>2, ViewsTypes DEF NextTask

\* The parts of a page that is at rest, and of one that begins.
LEMMA ViewsInvInit ==
  ASSUME \/ ViewsInit
         \/ /\ services = NoServices /\ tasks = NoTasks /\ networks = {}
            /\ list = [p \in Reader |-> "services"] /\ reader = NoReader
            /\ shown = [p \in Reader |-> Answer("services", NoServices, NoTasks, {})]
            /\ work = 0
  PROVE  ViewsInv
<1>1. /\ reader = NoReader /\ work = 0 /\ list \in [Reader -> Lists]
      /\ shown = [p \in Reader |-> Answer(list[p], NoServices, NoTasks, {})]
  BY DEF ViewsInit, Lists
<1>2. reader \in [Reader -> [at : {"services", "tasks", "networks"},
                             services : ServiceCopy, tasks : TaskCopy]]
  BY <1>1, ViewsTypes DEF NoReader
<1>3. \A l \in Lists : IsAnswer(l, Answer(l, NoServices, NoTasks, {}))
  BY ViewsTypes DEF IsAnswer
<1>4. services \in ServiceCopy /\ tasks \in TaskCopy /\ networks \in SUBSET ViewNet
  <2>1. CASE ViewsInit
    <3>1. services \in ServiceCopy /\ networks \in SUBSET ViewNet
      BY <2>1, ViewsTypes DEF ViewsInit, ServiceCopy
    <3>2. {[k EXCEPT !.state = "running"] : k \in NewTasks(services)} \subseteq TaskState
      BY <3>1, NewTaskType DEF TaskState
    <3> QED
      BY <2>1, <3>1, <3>2, ViewsTypes DEF ViewsInit, TaskCopy
  <2>2. CASE services = NoServices /\ tasks = NoTasks /\ networks = {}
    BY <2>2, ViewsTypes
  <2> QED
    BY <2>1, <2>2
<1> QED
  BY <1>1, <1>2, <1>3, <1>4 DEF ViewsInv

LEMMA ViewWorkCounted == ViewsInv /\ Budget(ViewWork) => work' \in Nat
BY DEF ViewsInv, Budget

\* A call keeps the copies' types; only the last one makes an answer, from them.
LEMMA ReadStep ==
  ASSUME ViewsInv, NEW p \in Reader, Read(p)
  PROVE  ViewsInv'
<1> DEFINE R == [at : {"services", "tasks", "networks"}, services : ServiceCopy, tasks : TaskCopy]
<1>1. UNCHANGED <<services, tasks, networks, list>>
  BY DEF Read, ReadServices, ReadTasks, ReadNetworks
<1>2. work' \in Nat
  BY ViewWorkCounted DEF Read, ReadServices, ReadTasks, ReadNetworks, Answers, ViewsInv
<1>3. reader' \in [Reader -> R]
  <2>1. reader \in [Reader -> R] /\ services \in ServiceCopy /\ tasks \in TaskCopy
    BY DEF ViewsInv
  <2>2. ASSUME NEW x \in ServiceCopy,
               reader' = [reader EXCEPT ![p].at = "tasks", ![p].services = x]
        PROVE  reader' \in [Reader -> R]
    BY <2>1, <2>2
  <2>3. ASSUME NEW x \in TaskCopy,
               reader' = [reader EXCEPT ![p].at = "networks", ![p].tasks = x]
        PROVE  reader' \in [Reader -> R]
    BY <2>1, <2>3
  <2>4. ASSUME reader' = [reader EXCEPT ![p] =
                 [at |-> "services", services |-> NoServices, tasks |-> NoTasks]]
        PROVE  reader' \in [Reader -> R]
    BY <2>1, <2>4, ViewsTypes
  <2> QED
    BY <2>1, <2>2, <2>3, <2>4, ViewsTypes DEF Read, ReadServices, ReadTasks, ReadNetworks
<1>4. DOMAIN shown' = Reader /\ \A q \in Reader : IsAnswer(list[q], shown'[q])
  <2>1. CASE UNCHANGED shown
    BY <2>1 DEF ViewsInv
  <2>2. ASSUME NEW x \in SUBSET ViewNet,
               shown' = [shown EXCEPT ![p] =
                           Answer(list[p], reader[p].services, reader[p].tasks, x)]
        PROVE  DOMAIN shown' = Reader /\ \A q \in Reader : IsAnswer(list[q], shown'[q])
    <3> DEFINE answer == Answer(list[p], reader[p].services, reader[p].tasks, x)
    <3>1. reader[p].services \in ServiceCopy /\ reader[p].tasks \in TaskCopy
      BY DEF ViewsInv
    <3>2. IsAnswer(list[p], answer)
      BY <3>1 DEF IsAnswer
    <3>3. DOMAIN shown = Reader /\ \A q \in Reader : IsAnswer(list[q], shown[q])
      BY DEF ViewsInv
    <3> HIDE DEF answer
    <3>4. shown' = [shown EXCEPT ![p] = answer]
      BY <2>2 DEF answer
    <3>5. DOMAIN shown' = Reader /\ \A q \in Reader : shown'[q] = IF q = p THEN answer ELSE shown[q]
      BY <3>3, <3>4
    <3> QED
      BY <3>2, <3>3, <3>5
  <2>3. networks \in SUBSET ViewNet
    BY DEF ViewsInv
  <2> QED
    BY <2>1, <2>2, <2>3 DEF Read, ReadServices, ReadTasks, ReadNetworks
<1> HIDE DEF R
<1> QED
  BY <1>1, <1>2, <1>3, <1>4 DEF ViewsInv, R

LEMMA SwarmChangeStep ==
  ASSUME ViewsInv, SwarmChange
  PROVE  ViewsInv'
<1>1. UNCHANGED <<list, reader, shown>> /\ work' \in Nat
  BY ViewWorkCounted DEF SwarmChange
<1>2. services \in ServiceCopy /\ tasks \in TaskCopy /\ networks \in SUBSET ViewNet
  BY DEF ViewsInv
<1>3. services' \in ServiceCopy
  BY <1>2, ViewsTypes DEF SwarmChange, ServiceCopy
<1>4. tasks' \in TaskCopy
  <2>1. ASSUME NEW t \in ViewTask,
               NEW k \in IF tasks[t].there THEN NextTask(tasks[t]) ELSE NewTasks(services),
               tasks' = [tasks EXCEPT ![t] = k]
        PROVE  tasks' \in TaskCopy
    <3>1. tasks[t] \in TaskState
      BY <1>2 DEF TaskCopy
    <3>2. k \in TaskState
      BY <1>2, <3>1, NextTaskType, NewTaskType
    <3> QED
      BY <1>2, <2>1, <3>2 DEF TaskCopy
  <2> QED
    BY <1>2, <2>1 DEF SwarmChange
<1>5. networks' \in SUBSET ViewNet
  BY <1>2 DEF SwarmChange
<1> QED
  BY <1>1, <1>3, <1>4, <1>5 DEF ViewsInv

LEMMA ViewsAtRest ==
  ASSUME ViewsInv, UNCHANGED <<services, tasks, networks, list, reader, shown>>, work' \in Nat
  PROVE  ViewsInv'
BY DEF ViewsInv

LEMMA ViewsInvStep == ViewsInv /\ [ViewsNext]_viewVars => ViewsInv'
<1>1. ViewsInv /\ UNCHANGED viewVars => ViewsInv'
  BY DEF viewVars, ViewsInv
<1> QED
  BY <1>1, ReadStep, SwarmChangeStep DEF ViewsNext

LEMMA ViewsInvImplies == ViewsInv => ViewsTypeOK
BY AnswerIsTyped DEF ViewsInv, ViewsTypeOK, ServiceCopy, TaskCopy

\* Types of the lists hold in every reachable state, for any number of tasks.
THEOREM ViewsTypeCorrect == ViewsSpec => []ViewsTypeOK
BY ViewsInvInit, ViewsInvStep, ViewsInvImplies, PTL DEF ViewsSpec

\* What convergence rests on: in every reachable state, a list whose three calls
\* see the swarm as it is shows it, so that any two lists made then agree, for any
\* services, tasks, networks and stacks (mapService, mapStack, linkedServices).
THEOREM QuietListsAreRight ==
  ViewsSpec => [](\A l \in Lists : ListShown(l, Answer(l, services, tasks, networks)))
<1>1. ASSUME ViewsInv, NEW l \in Lists
      PROVE  ListShown(l, Answer(l, services, tasks, networks))
  <2> DEFINE v == Answer(l, services, tasks, networks)
  <2>1. There(services) \subseteq ViewService /\ services \in ServiceCopy
    BY <1>1 DEF There, ServiceCopy, ViewsInv
  <2>2. CASE l = "services"
    <3>1. v = MapServices(There(services), services, tasks, networks)
      BY <2>2 DEF Answer
    <3> QED
      BY <1>1, <2>2, <3>1, AllMappedAsTheyAre DEF ListShown
  <2>3. CASE l = "linked"
    <3>1. \A n \in ViewNet \ {HostNet} :
            v[n] = MapServices({s \in There(services) : n \in services[s].nets}, services, tasks, networks)
      BY <2>3 DEF Answer, Linked
    <3>2. \A n \in ViewNet \ {HostNet} :
            ServicesShown({s \in There(services) : n \in services[s].nets}, v[n])
      BY <1>1, <3>1, AllMappedAsTheyAre
    <3> QED
      BY <2>3, <3>2 DEF ListShown
  <2>4. CASE l \in {"stacks", "stack"}
    <3>1. ASSUME NEW st PROVE StackShown(st, MapStack(st, services, tasks, networks))
      <4> DEFINE S == InStack(st, services)
                 k == MapStack(st, services, tasks, networks)
      <4>1. S \subseteq There(services)
        BY DEF InStack
      <4>2. ServicesShown(S, k.services)
        BY <1>1, <4>1, AllMappedAsTheyAre DEF MapStack
      <4>3. (k.state = "inactive") = (S = {})
        BY DEF MapStack
      <4>4. k.nets = {n \in networks \ {HostNet} : \E s \in S : n \in services[s].nets}
        BY DEF MapStack
      <4>5. k.nets = ((UNION {services[s].nets : s \in S}) \cap networks) \ {HostNet}
        <5>1. \A n : n \in k.nets <=> /\ n \in networks /\ n # HostNet
                                      /\ \E s \in S : n \in services[s].nets
          BY <4>4
        <5>2. ASSUME NEW n
              PROVE  n \in ((UNION {services[s].nets : s \in S}) \cap networks) \ {HostNet}
                       <=> /\ n \in networks /\ n # HostNet
                           /\ \E s \in S : n \in services[s].nets
          OBVIOUS
        <5> HIDE DEF S, k
        <5> QED
          BY <5>1, <5>2
      <4> QED
        BY <4>2, <4>3, <4>5 DEF StackShown
    <3>2. \A st \in DOMAIN v : v[st] = MapStack(st, services, tasks, networks)
      BY <2>4 DEF Answer
    <3>3. /\ l = "stacks" => DOMAIN v = {services[s].stack : s \in There(services)}
          /\ l = "stack" => DOMAIN v = ViewStack
      BY DEF Answer
    <3>4. \A s \in There(services) : services[s].stack \in ViewStack
      BY <2>1 DEF ServiceCopy, ViewSpecs
    <3>5. \A s \in There(services) : services[s].stack \in DOMAIN v
      BY <2>4, <3>3, <3>4
    <3>6. l = "stacks" => \A st \in DOMAIN v : InStack(st, services) # {}
      BY <3>3 DEF InStack
    <3> QED
      BY <2>4, <3>1, <3>2, <3>5, <3>6 DEF ListShown
  <2> QED
    BY <2>2, <2>3, <2>4 DEF Lists
<1>2. ViewsInv => \A l \in Lists : ListShown(l, Answer(l, services, tasks, networks))
  BY <1>1
<1> QED
  BY <1>2, ViewsInvInit, ViewsInvStep, PTL DEF ViewsSpec

-----------------------------------------------------------------------------
\* Compose.

Entries == [image : Image, whole : Nat, uses : BOOLEAN, mode : Nat \cup {Global, Job},
            keys : SUBSET (NetId \cup Base)]
FileServices == UNION {[D -> Entries] : D \in SUBSET StackService}
File == [services : FileServices, own : SUBSET (NetId \cup Base)]
Editor == [phase : {"closed", "services", "open", "saved"},
           services : [StackService -> SpecOf], networks : [NetId -> Network],
           file : File, edited : SUBSET StackService]

\* file is what f has become after the images of the services of S were edited.
EditOf(file, f, S) ==
  /\ file.own = f.own
  /\ DOMAIN file.services = DOMAIN f.services
  /\ \A s \in DOMAIN f.services :
       /\ file.services[s].whole = f.services[s].whole
       /\ file.services[s].uses = f.services[s].uses
       /\ file.services[s].mode = f.services[s].mode
       /\ file.services[s].keys = f.services[s].keys
       /\ s \notin S => file.services[s].image = f.services[s].image

\* An open file was made from the two reads, or from the first and from no networks,
\* and edited.
FromReads ==
  editor.phase = "open" =>
    \E nw \in {editor.networks, Closed.networks} :
      \E f \in GenerateStackCompose(editor.services, nw) :
        EditOf(editor.file, f, editor.edited)

\* A service's networks are there: what a file says of a network that was not read,
\* its id, is found again for that reason only.
ComposeInv ==
  /\ running \in [StackService -> SpecOf] /\ network \in [NetId -> Network]
  /\ InUse(running, network)
  /\ editor \in Editor /\ FromReads
  /\ work \in Nat

-----------------------------------------------------------------------------
LEMMA ComposeTypes ==
  /\ Gone \in SpecOf /\ Template \subseteq SpecOf /\ Unused \in Network
  /\ ~Gone.there /\ ~Unused.there
  /\ Closed \in Editor
<1>1. (CHOOSE sp \in Template : TRUE) \in SpecOf /\ Template \subseteq SpecOf
  BY ComposeAssumption
<1>2. Gone \in SpecOf /\ ~Gone.there
  BY <1>1 DEF Gone, SpecOf
<1>3. (CHOOSE b \in Base : TRUE) \in Base
  BY ComposeAssumption
<1>4. Unused \in Network /\ ~Unused.there
  BY <1>3 DEF Unused, Network
<1>5. NoFile \in File
  <2>1. [s \in {} |-> 0] \in [{} -> Entries]
    OBVIOUS
  <2>2. [s \in {} |-> 0] \in FileServices
    BY <2>1 DEF FileServices
  <2> QED
    BY <2>2 DEF NoFile, File
<1>6. Closed \in Editor
  BY <1>2, <1>4, <1>5 DEF Closed, Editor
<1> QED
  BY <1>1, <1>2, <1>4, <1>6

LEMMA FileFacts ==
  ASSUME NEW f \in File
  PROVE  /\ DOMAIN f.services \subseteq StackService
         /\ \A s \in DOMAIN f.services : f.services[s] \in Entries
         /\ f.own \in SUBSET (NetId \cup Base)
<1>1. PICK D \in SUBSET StackService : f.services \in [D -> Entries]
  BY DEF File, FileServices
<1> QED
  BY <1>1 DEF File

\* What a generated file says of each service, and which keys are the stack's own.
LEMMA GeneratedFacts ==
  ASSUME NEW sv \in [StackService -> SpecOf], NEW nw \in [NetId -> Network],
         NEW f \in GenerateStackCompose(sv, nw)
  PROVE  /\ f \in File
         /\ DOMAIN f.services = {t \in StackService : sv[t].there}
         /\ \A s \in DOMAIN f.services : f.services[s] = Entry(sv[s], nw)
         /\ f.own \subseteq Keys(f.services)
         /\ \A k \in Keys(f.services) :
              IF Named(k, nw) = {} THEN k \notin f.own
              ELSE \E n \in Named(k, nw) : (k \in f.own) = nw[n].own
<1> DEFINE D == {t \in StackService : sv[t].there}
           sers == [s \in D |-> Entry(sv[s], nw)]
<1>1. PICK O \in Owned(Keys(sers), nw) : f = [services |-> sers, own |-> O]
  BY DEF GenerateStackCompose
<1>2. ASSUME NEW s \in D PROVE Entry(sv[s], nw) \in Entries
  <2>1. sv[s] \in SpecOf
    OBVIOUS
  <2>2. WholePart(sv[s].halves) \in Nat
    BY <2>1 DEF WholePart, SpecOf
  <2>3. DeployMode(sv[s].mode) \in Nat \cup {Global, Job}
    BY <2>1 DEF DeployMode, SpecOf
  <2>4. {Key(n, nw) : n \in sv[s].nets} \in SUBSET (NetId \cup Base)
    BY <2>1 DEF Key, SpecOf, Network
  <2> QED
    BY <2>1, <2>2, <2>3, <2>4 DEF Entry, Entries, SpecOf
<1>3. sers \in [D -> Entries] /\ DOMAIN sers = D /\ \A s \in D : sers[s] = Entry(sv[s], nw)
  BY <1>2
<1> HIDE DEF sers
<1>4. sers \in FileServices
  BY <1>3 DEF FileServices
<1>5. Keys(sers) \in SUBSET (NetId \cup Base)
  BY <1>3 DEF Keys, Entries
<1>6. /\ O \in SUBSET Keys(sers)
      /\ \A k \in Keys(sers) :
           IF Named(k, nw) = {} THEN k \notin O
           ELSE \E n \in Named(k, nw) : (k \in O) = nw[n].own
  BY DEF Owned
<1>7. f \in File
  BY <1>1, <1>4, <1>5, <1>6 DEF File
<1>8. f.services = sers /\ f.own = O
  BY <1>1
<1> QED
  BY <1>3, <1>6, <1>7, <1>8

\* What is written has the types of specs, and its networks are there.
LEMMA WrittenFacts ==
  ASSUME ComposeInv, NEW f \in File, NEW nw \in CreateNetworks(f),
         NEW S \in SUBSET DOMAIN f.services
  PROVE  /\ nw \in [NetId -> Network]
         /\ Written(S, f, nw) \in [StackService -> SpecOf]
         /\ InUse(Written(S, f, nw), nw) /\ InUse(running, nw)
<1>1. /\ nw \in [NetId -> Network]
      /\ \A n \in NetId : network[n].there => nw[n] = network[n]
  BY DEF CreateNetworks
<1>2. \A k : Owns(k, nw) \subseteq {n \in NetId : nw[n].there}
             /\ External(k, nw) \subseteq {n \in NetId : nw[n].there}
  BY DEF Owns, External, Named
<1>3. ASSUME NEW s \in S
      PROVE  /\ SpecOfEntry(f.services[s], f, nw) \in SpecOf
             /\ \A n \in SpecOfEntry(f.services[s], f, nw).nets : nw[n].there
  <2>1. f.services[s] \in Entries
    BY FileFacts
  <2> DEFINE e == f.services[s]
             nets == UNION {IF k \in f.own THEN Owns(k, nw) ELSE External(k, nw) : k \in e.keys}
  <2>2. nets \subseteq {n \in NetId : nw[n].there}
    BY <1>2
  <2>3. SpecOfEntry(e, f, nw) =
          [there |-> TRUE, image |-> e.image, halves |-> 2 * e.whole, extra |-> FALSE,
           mode |-> e.mode, uses |-> FALSE, nets |-> nets]
    BY DEF SpecOfEntry
  <2> HIDE DEF nets, e
  <2>4. e \in Entries
    BY <2>1 DEF e
  <2>5. 2 * e.whole \in Nat /\ e.image \in Image /\ e.mode \in Nat \cup {Global, Job}
    BY <2>4 DEF Entries
  <2>6. SpecOfEntry(e, f, nw) \in SpecOf /\ SpecOfEntry(e, f, nw).nets = nets
    BY <2>2, <2>3, <2>5 DEF SpecOf
  <2> QED
    BY <2>2, <2>6 DEF e
<1>4. \A s \in StackService :
        Written(S, f, nw)[s] = IF s \in S THEN SpecOfEntry(f.services[s], f, nw) ELSE running[s]
  BY DEF Written
<1>5. running \in [StackService -> SpecOf] /\ InUse(running, network)
  BY DEF ComposeInv
<1>6. InUse(running, nw)
  BY <1>1, <1>5 DEF InUse
<1>7. Written(S, f, nw) \in [StackService -> SpecOf]
  BY <1>3, <1>5 DEF Written
<1>8. InUse(Written(S, f, nw), nw)
  BY <1>3, <1>4, <1>6 DEF InUse
<1> QED
  BY <1>1, <1>6, <1>7, <1>8

-----------------------------------------------------------------------------
LEMMA ComposeInvInit ==
  ASSUME \/ ComposeInit
         \/ /\ network = [n \in NetId |-> Unused] /\ editor = Closed
            /\ running = [s \in StackService |-> Gone] /\ work = 0
  PROVE  ComposeInv
<1>1. editor = Closed /\ work = 0
  BY DEF ComposeInit
<1>2. editor \in Editor /\ FromReads
  BY <1>1, ComposeTypes DEF FromReads, Closed
<1>3. /\ running \in [StackService -> SpecOf] /\ network \in [NetId -> Network]
      /\ InUse(running, network)
  <2>1. CASE ComposeInit
    BY <2>1, ComposeTypes DEF ComposeInit
  <2>2. CASE network = [n \in NetId |-> Unused] /\ running = [s \in StackService |-> Gone]
    BY <2>2, ComposeTypes DEF InUse
  <2> QED
    BY <2>1, <2>2
<1> QED
  BY <1>1, <1>2, <1>3 DEF ComposeInv

LEMMA ComposeWorkCounted == ComposeInv /\ Budget(ComposeWork) => work' \in Nat
BY DEF ComposeInv, Budget

LEMMA EditorUnchanged ==
  ASSUME editor \in Editor, FromReads, UNCHANGED editor
  PROVE  editor' \in Editor /\ FromReads'
<1>1. CASE editor.phase = "open"
  <2>1. PICK nw \in {editor.networks, Closed.networks} :
          \E f \in GenerateStackCompose(editor.services, nw) :
            EditOf(editor.file, f, editor.edited)
    BY <1>1 DEF FromReads
  <2>2. \E w \in {editor'.networks, Closed.networks} :
          \E g \in GenerateStackCompose(editor'.services, w) :
            EditOf(editor'.file, g, editor'.edited)
    BY <2>1
  <2> QED
    BY <2>2 DEF FromReads, Closed, GenerateStackCompose, EditOf
<1>2. CASE editor.phase # "open"
  BY <1>2 DEF FromReads
<1> QED
  BY <1>1, <1>2

LEMMA ReadStackStep == ComposeInv /\ ReadStack => ComposeInv'
<1> SUFFICES ASSUME ComposeInv, ReadStack PROVE ComposeInv'
  OBVIOUS
<1>1. PICK sv \in {running, Closed.services} :
        editor' = [Closed EXCEPT !.phase = "services", !.services = sv]
  BY DEF ReadStack
<1>2. UNCHANGED <<running, network>> /\ work' \in Nat
  BY ComposeWorkCounted DEF ReadStack, ComposeInv
<1>3. sv \in [StackService -> SpecOf]
  BY ComposeTypes DEF ComposeInv, Editor
<1>4. editor' \in Editor /\ editor'.phase = "services"
  BY <1>1, <1>3, ComposeTypes DEF Editor
<1>5. FromReads'
  BY <1>4 DEF FromReads
<1> QED
  BY <1>2, <1>4, <1>5 DEF ComposeInv, InUse

LEMMA WriteFileStep == ComposeInv /\ WriteFile => ComposeInv'
<1> SUFFICES ASSUME ComposeInv, WriteFile PROVE ComposeInv'
  OBVIOUS
<1>1. PICK nw \in {network, Closed.networks} : \E f \in GenerateStackCompose(editor.services, nw) :
        editor' = [editor EXCEPT !.phase = "open", !.networks = network, !.file = f]
  BY DEF WriteFile
<1>2. PICK f \in GenerateStackCompose(editor.services, nw) :
        editor' = [editor EXCEPT !.phase = "open", !.networks = network, !.file = f]
  BY <1>1
<1>3. UNCHANGED <<running, network>> /\ work' \in Nat
  BY ComposeWorkCounted DEF WriteFile, ComposeInv
<1>4. editor \in Editor /\ network \in [NetId -> Network] /\ nw \in [NetId -> Network]
  BY ComposeTypes DEF ComposeInv, Editor
<1>5. f \in File
  BY <1>4, GeneratedFacts DEF Editor
<1>6. /\ editor' \in Editor
      /\ editor'.networks = network /\ editor'.file = f /\ editor'.services = editor.services
  BY <1>2, <1>4, <1>5 DEF Editor
<1>7. EditOf(f, f, editor'.edited)
  BY DEF EditOf
<1>8. \E w \in {editor'.networks, Closed.networks} :
        \E g \in GenerateStackCompose(editor'.services, w) :
          EditOf(editor'.file, g, editor'.edited)
  BY <1>6, <1>7
<1>9. FromReads'
  BY <1>8 DEF FromReads, Closed, GenerateStackCompose, EditOf
<1> QED
  BY <1>3, <1>6, <1>9 DEF ComposeInv, InUse

LEMMA EditFileStep == ComposeInv /\ EditFile => ComposeInv'
<1> SUFFICES ASSUME ComposeInv, EditFile PROVE ComposeInv'
  OBVIOUS
<1> DEFINE old == editor.file.services
<1>1. PICK s \in DOMAIN old, i \in Image :
        editor' = [editor EXCEPT !.edited = {s}, !.file.services[s].image = i]
  BY DEF EditFile
<1> DEFINE new == [old EXCEPT ![s].image = i]
<1>2. UNCHANGED <<running, network, work>> /\ editor.phase = "open" /\ editor.edited = {}
      /\ editor \in Editor
  BY DEF EditFile, ComposeInv
<1>3. editor.file \in File
  BY <1>2 DEF Editor
<1>4. old \in [DOMAIN old -> Entries] /\ DOMAIN old \in SUBSET StackService
  BY <1>3, FileFacts DEF File, FileServices
<1>5. new \in [DOMAIN old -> Entries] /\ DOMAIN new = DOMAIN old
      /\ \A t \in DOMAIN old :
           /\ new[t].whole = old[t].whole /\ new[t].uses = old[t].uses
           /\ new[t].mode = old[t].mode /\ new[t].keys = old[t].keys
           /\ t # s => new[t] = old[t]
  BY <1>4 DEF Entries
<1> HIDE DEF new, old
<1>6. /\ editor'.phase = "open" /\ editor'.networks = editor.networks
      /\ editor'.services = editor.services /\ editor'.edited = {s}
      /\ editor'.file.services = new /\ editor'.file.own = editor.file.own
      /\ editor' \in Editor
  <2>1. editor' = [editor EXCEPT !.edited = {s}, !.file = [editor.file EXCEPT !.services = new]]
    BY <1>1, <1>2, <1>3 DEF new, old, Editor, File
  <2>2. new \in FileServices
    BY <1>4, <1>5 DEF FileServices
  <2>3. [editor.file EXCEPT !.services = new] \in File
    BY <1>3, <2>2 DEF File
  <2>4. editor'.file = [editor.file EXCEPT !.services = new] /\ editor'.edited = {s}
        /\ editor'.phase = editor.phase /\ editor'.networks = editor.networks
        /\ editor'.services = editor.services
    BY <1>2, <2>1 DEF Editor
  <2>5. editor'.file.services = new /\ editor'.file.own = editor.file.own
    BY <1>3, <2>4 DEF File
  <2>6. s \in StackService
    BY <1>1, <1>4
  <2>7. editor' \in Editor
    BY <1>2, <2>1, <2>3, <2>6 DEF Editor
  <2> QED
    BY <1>2, <2>4, <2>5, <2>7
<1>7. PICK nw \in {editor.networks, Closed.networks} :
        \E f \in GenerateStackCompose(editor.services, nw) :
          EditOf(editor.file, f, editor.edited)
  BY <1>2 DEF ComposeInv, FromReads
<1>8. PICK f \in GenerateStackCompose(editor.services, nw) :
        EditOf(editor.file, f, editor.edited)
  BY <1>7
<1>9. EditOf(editor'.file, f, editor'.edited)
  BY <1>2, <1>5, <1>6, <1>8 DEF EditOf, old
<1>10. \E w \in {editor'.networks, Closed.networks} :
         \E g \in GenerateStackCompose(editor'.services, w) :
           EditOf(editor'.file, g, editor'.edited)
  BY <1>6, <1>9
<1>11. FromReads'
  BY <1>10 DEF FromReads, Closed, GenerateStackCompose, EditOf
<1> QED
  BY <1>2, <1>6, <1>11 DEF ComposeInv, InUse

LEMMA CloseFileStep == ComposeInv /\ CloseFile => ComposeInv'
<1> SUFFICES ASSUME ComposeInv, CloseFile PROVE ComposeInv'
  OBVIOUS
<1>1. editor' = Closed /\ UNCHANGED <<running, network, work>>
  BY DEF CloseFile
<1>2. editor' \in Editor /\ editor'.phase = "closed"
  BY <1>1, ComposeTypes DEF Closed
<1>3. FromReads'
  BY <1>2 DEF FromReads
<1> QED
  BY <1>1, <1>2, <1>3 DEF ComposeInv, InUse

\* The networks and services a deployment leaves, refused or not.
LEMMA DeployedState ==
  ASSUME ComposeInv, StackUpdate \/ StackUpdateRefused
  PROVE  /\ running' \in [StackService -> SpecOf] /\ network' \in [NetId -> Network]
         /\ InUse(running', network')
<1> DEFINE f == editor.file
<1>1. f \in File /\ ComposeInv
  BY DEF ComposeInv, Editor
<1>2. /\ running \in [StackService -> SpecOf] /\ network \in [NetId -> Network]
      /\ InUse(running, network)
  BY DEF ComposeInv
<1> HIDE DEF f
<1>3. ASSUME NEW nw \in CreateNetworks(f), NEW S \in SUBSET DOMAIN f.services,
             network' = nw, running' = Written(S, f, nw) \/ UNCHANGED running
      PROVE  /\ running' \in [StackService -> SpecOf] /\ network' \in [NetId -> Network]
             /\ InUse(running', network')
  <2>1. /\ nw \in [NetId -> Network] /\ InUse(running, nw)
        /\ Written(S, f, nw) \in [StackService -> SpecOf] /\ InUse(Written(S, f, nw), nw)
    BY <1>1, WrittenFacts
  <2>2. CASE running' = Written(S, f, nw)
    BY <1>3, <2>1, <2>2
  <2>3. CASE UNCHANGED running
    BY <1>2, <1>3, <2>1, <2>3
  <2> QED
    BY <1>3, <2>2, <2>3
<1>4. CASE StackUpdate
  <2>1. PICK nw \in CreateNetworks(f) : network' = nw /\ running' = Written(DOMAIN f.services, f, nw)
    BY <1>4 DEF StackUpdate, f
  <2> QED
    BY <1>3, <2>1
<1>5. CASE StackUpdateRefused
  <2>1. CASE UNCHANGED <<running, network>>
    BY <1>2, <2>1
  <2>2. CASE \E nw \in CreateNetworks(f), S \in SUBSET DOMAIN f.services :
               network' = nw /\ (running' = Written(S, f, nw) \/ UNCHANGED running)
    BY <1>3, <2>2
  <2> QED
    BY <1>5, <2>1, <2>2 DEF StackUpdateRefused, f
<1> QED
  BY <1>4, <1>5

LEMMA DeployStackStep == ComposeInv /\ (StackUpdate \/ StackUpdateRefused) => ComposeInv'
<1> SUFFICES ASSUME ComposeInv, StackUpdate \/ StackUpdateRefused PROVE ComposeInv'
  OBVIOUS
<1>1. /\ running' \in [StackService -> SpecOf] /\ network' \in [NetId -> Network]
      /\ InUse(running', network')
  BY DeployedState
<1>2. work' \in Nat
  BY DEF StackUpdate, StackUpdateRefused, ComposeInv
<1>3. editor' \in Editor /\ FromReads'
  <2>1. CASE StackUpdate
    <3>1. editor' \in Editor /\ editor'.phase = "saved"
      BY <2>1 DEF StackUpdate, ComposeInv, Editor
    <3> QED
      BY <3>1 DEF FromReads
  <2>2. CASE StackUpdateRefused
    BY <2>2, EditorUnchanged DEF StackUpdateRefused, ComposeInv
  <2> QED
    BY <2>1, <2>2
<1> QED
  BY <1>1, <1>2, <1>3 DEF ComposeInv, InUse

LEMMA ElsewhereStep == ComposeInv /\ Elsewhere => ComposeInv'
<1> SUFFICES ASSUME ComposeInv, Elsewhere PROVE ComposeInv'
  OBVIOUS
<1>1. editor' \in Editor /\ FromReads' /\ work' \in Nat
  BY ComposeWorkCounted, EditorUnchanged DEF Elsewhere, ComposeInv
<1>2. running \in [StackService -> SpecOf] /\ network \in [NetId -> Network]
  BY DEF ComposeInv
<1>3. running' \in [StackService -> SpecOf] /\ network' \in [NetId -> Network]
  BY <1>2, ComposeTypes DEF Elsewhere
<1>4. InUse(running', network')
  BY DEF Elsewhere, InUse
<1> QED
  BY <1>1, <1>3, <1>4 DEF ComposeInv, InUse

LEMMA ComposeAtRest ==
  ASSUME ComposeInv, UNCHANGED <<running, network, editor>>, work' \in Nat
  PROVE  ComposeInv'
BY EditorUnchanged DEF ComposeInv, InUse

LEMMA ComposeInvStep == ComposeInv /\ [ComposeNext]_composeVars => ComposeInv'
<1>1. ComposeInv /\ UNCHANGED composeVars => ComposeInv'
  BY ComposeAtRest DEF composeVars, ComposeInv
<1> QED
  BY <1>1, ReadStackStep, WriteFileStep, EditFileStep, CloseFileStep, DeployStackStep,
     ElsewhereStep DEF ComposeNext

-----------------------------------------------------------------------------
\* A saved file, when nothing changed since the reads.

\* The key of a network that can be told apart is read back as the network, also
\* when the networks were not read and the key is an id.
LEMMA KeyFindsNetwork ==
  ASSUME ComposeInv, NEW nw \in {network, Closed.networks},
         NEW f \in GenerateStackCompose(running, nw),
         NEW made \in CreateNetworks(f),
         NEW s \in DOMAIN f.services, NEW n \in running[s].nets, ClearName(n)
  PROVE  LET k == Key(n, nw)
         IN (IF k \in f.own THEN Owns(k, made) ELSE External(k, made)) = {n}
<1> DEFINE k == Key(n, nw)
<1>1. /\ running \in [StackService -> SpecOf] /\ network \in [NetId -> Network]
      /\ nw \in [NetId -> Network] /\ NetId \cap Base = {}
  BY ComposeTypes, ComposeAssumption DEF ComposeInv, Editor
<1>2. /\ s \in StackService /\ running[s].there /\ f.services[s] = Entry(running[s], nw)
      /\ f.own \subseteq Keys(f.services)
      /\ \A j \in Keys(f.services) :
           IF Named(j, nw) = {} THEN j \notin f.own
           ELSE \E m \in Named(j, nw) : (j \in f.own) = nw[m].own
  BY <1>1, GeneratedFacts
<1>3. n \in NetId /\ network[n].there
  BY <1>1, <1>2 DEF ComposeInv, InUse, SpecOf
<1>4. k \in Keys(f.services)
  BY <1>2 DEF Keys, Entry
<1>5. /\ made \in [NetId -> Network]
      /\ \A m \in NetId : network[m].there => made[m] = network[m]
      /\ \A m \in NetId : made[m].there /\ ~network[m].there =>
           made[m].own /\ made[m].prefixed /\ made[m].base \in Missing(f)
  BY DEF CreateNetworks
<1>6. CASE nw = network
  <2>1. k = network[n].base /\ k \in Base
    BY <1>1, <1>3, <1>6 DEF Key, Network
  <2>2. Named(k, network) = {n} /\ network[n].prefixed = network[n].own
    BY <2>1 DEF ClearName
  <2>3. (k \in f.own) = network[n].own
    BY <1>2, <1>4, <1>6, <2>2
  <2>4. k \notin Missing(f)
    BY <1>3, <2>2, <2>3 DEF Missing, Owns
  <2>5. Named(k, made) = {n} /\ made[n] = network[n]
    BY <1>3, <1>5, <2>2, <2>4 DEF Named
  <2>6. CASE k \in f.own
    BY <2>2, <2>3, <2>5, <2>6 DEF Owns
  <2>7. CASE k \notin f.own
    <3>1. k \notin NetId
      BY <1>1, <2>1
    <3>2. \A m \in NetId : made[m].there /\ made[m].base = k <=> m = n
      BY <2>5 DEF Named
    <3>3. ~made[n].prefixed
      BY <1>1, <1>3, <2>2, <2>3, <2>5, <2>7 DEF Network
    <3>4. External(k, made) = {n}
      BY <1>3, <3>1, <3>2, <3>3 DEF External
    <3> QED
      BY <2>7, <3>4
  <2> QED
    BY <2>6, <2>7
<1>7. CASE nw = Closed.networks
  <2>1. \A m \in NetId : ~nw[m].there
    BY <1>7, ComposeTypes DEF Closed
  <2>2. k = n /\ \A j : Named(j, nw) = {}
    BY <1>3, <2>1 DEF Key, Named
  <2>3. f.own = {}
    BY <1>2, <2>2
  <2>4. \A m \in NetId : made[m].there <=> network[m].there
    BY <1>5, <2>3 DEF Missing
  <2>5. made[n].there /\ \A m \in NetId : made[m].base # n
    BY <1>1, <1>3, <1>5 DEF Network
  <2>6. External(n, made) = {n}
    BY <1>3, <2>5 DEF External
  <2> QED
    BY <2>2, <2>3, <2>6
<1> QED
  BY <1>6, <1>7

\* A service that the file says everything of is written as it was, but for the
\* image that was edited.
LEMMA SavedService ==
  ASSUME ComposeInv, StackUpdate, editor.services = running, editor.networks = network,
         NEW s \in StackService, running[s].there, ~running[s].extra,
         running[s].halves % 2 = 0, \A n \in running[s].nets : ClearName(n)
  PROVE  running'[s] =
           [running[s] EXCEPT !.image = IF s \in editor.edited THEN running'[s].image ELSE @]
<1> DEFINE file == editor.file
           e == file.services[s]
           old == running[s]
<1>1. PICK nw \in {network, Closed.networks} :
        \E f \in GenerateStackCompose(running, nw) : EditOf(file, f, editor.edited)
  BY DEF StackUpdate, ComposeInv, FromReads
<1>2. PICK f \in GenerateStackCompose(running, nw) : EditOf(file, f, editor.edited)
  BY <1>1
<1>3. /\ running \in [StackService -> SpecOf] /\ nw \in [NetId -> Network] /\ old \in SpecOf
      /\ file \in File
  BY ComposeTypes DEF ComposeInv, Editor
<1>4. f \in File /\ s \in DOMAIN f.services /\ f.services[s] = Entry(old, nw)
  BY <1>3, GeneratedFacts
<1>5. PICK made \in CreateNetworks(file) : running' = Written(DOMAIN file.services, file, made)
  BY DEF StackUpdate
<1>6. /\ file.own = f.own /\ s \in DOMAIN file.services
      /\ e.whole = WholePart(old.halves) /\ e.uses = old.uses /\ e.mode = DeployMode(old.mode)
      /\ e.keys = {Key(n, nw) : n \in old.nets}
      /\ s \notin editor.edited => e.image = old.image
  BY <1>2, <1>4 DEF EditOf, Entry
<1>7. running'[s] = SpecOfEntry(e, file, made)
  BY <1>5, <1>6 DEF Written
<1>8. ~e.uses /\ ModeFits(e, old)
  BY <1>6 DEF StackUpdate, Accepted
<1>9. e.mode = old.mode
  <2>1. 1 \notin {Global, Job} /\ 1 # Job
    BY ComposeAssumption
  <2> QED
    BY <1>6, <1>8, <2>1 DEF ModeFits, Replicated, DeployMode
<1>10. 2 * e.whole = old.halves
  BY <1>3, <1>6 DEF WholePart, SpecOf
<1>11. made \in CreateNetworks(f)
  BY <1>6 DEF CreateNetworks, Missing
<1> DEFINE nets == UNION {IF k \in file.own THEN Owns(k, made) ELSE External(k, made) : k \in e.keys}
<1>12. nets = old.nets
  <2> DEFINE found(k) == IF k \in file.own THEN Owns(k, made) ELSE External(k, made)
  <2>1. ASSUME NEW n \in old.nets PROVE found(Key(n, nw)) = {n}
    BY <1>4, <1>6, <1>11, KeyFindsNetwork
  <2> HIDE DEF found
  <2>2. UNION {found(k) : k \in e.keys} = old.nets
    <3>1. e.keys = {Key(n, nw) : n \in old.nets}
      BY <1>6
    <3> HIDE DEF e, old
    <3>2. \A n \in old.nets : n \in UNION {found(k) : k \in e.keys}
      BY <2>1, <3>1
    <3>3. ASSUME NEW n \in UNION {found(k) : k \in e.keys} PROVE n \in old.nets
      <4>1. PICK k \in e.keys : n \in found(k)
        OBVIOUS
      <4>2. PICK m \in old.nets : k = Key(m, nw)
        BY <3>1, <4>1
      <4> QED
        BY <2>1, <4>1, <4>2
    <3> QED
      BY <3>2, <3>3
  <2> QED
    BY <2>2 DEF found
<1>13. running'[s] = [there |-> TRUE, image |-> e.image, halves |-> 2 * e.whole, extra |-> FALSE,
                      mode |-> e.mode, uses |-> FALSE, nets |-> nets]
  BY <1>7 DEF SpecOfEntry
<1> HIDE DEF nets
<1>14. running'[s] = [there |-> TRUE, image |-> e.image, halves |-> old.halves, extra |-> FALSE,
                      mode |-> old.mode, uses |-> FALSE, nets |-> old.nets]
  BY <1>9, <1>10, <1>12, <1>13
<1> HIDE DEF e, file, old
<1>15. old.uses = FALSE /\ old.extra = FALSE /\ old.there = TRUE
  BY <1>3, <1>6, <1>8 DEF SpecOf, old
<1>16. running'[s] = [old EXCEPT !.image = e.image]
  <2> DEFINE put == [old EXCEPT !.image = e.image]
             got == running'[s]
  <2>1. e.image \in Image
    BY <1>3, <1>6, FileFacts DEF e, Entries
  <2>2. /\ put \in SpecOf /\ put.there = old.there /\ put.image = e.image
        /\ put.halves = old.halves /\ put.extra = old.extra /\ put.mode = old.mode
        /\ put.uses = old.uses /\ put.nets = old.nets
    BY <1>3, <2>1 DEF SpecOf
  <2>3. /\ got \in SpecOf /\ got.there = TRUE /\ got.image = e.image
        /\ got.halves = old.halves /\ got.extra = FALSE /\ got.mode = old.mode
        /\ got.uses = FALSE /\ got.nets = old.nets
    BY <1>3, <1>14, <2>1 DEF SpecOf
  <2> HIDE DEF put, got
  <2>4. got = put
    BY <1>15, <2>2, <2>3 DEF SpecOf
  <2> QED
    BY <2>4 DEF put, got
<1>17. running'[s].image = e.image
  BY <1>14
<1> QED
  BY <1>3, <1>6, <1>16, <1>17 DEF SpecOf, old

\* Types of the stack, its networks and the editor hold in every reachable state.
THEOREM ComposeTypeCorrect == ComposeSpec => []ComposeTypeOK
<1>1. ComposeInv => ComposeTypeOK
  BY DEF ComposeInv, ComposeTypeOK, Editor
<1> QED
  BY <1>1, ComposeInvInit, ComposeInvStep, PTL DEF ComposeSpec

LEMMA SaveStep ==
  ASSUME ComposeInv, [ComposeNext]_composeVars,
         editor.phase = "open", editor'.phase = "saved"
  PROVE  StackUpdate
<1>1. editor \in Editor
  BY DEF ComposeInv
<1>2. ASSUME ReadStack \/ WriteFile \/ CloseFile PROVE FALSE
  BY <1>2 DEF ReadStack, WriteFile, CloseFile, Closed
<1>3. ASSUME EditFile PROVE FALSE
  BY <1>1, <1>3 DEF EditFile, Editor
<1>4. ASSUME UNCHANGED editor PROVE FALSE
  BY <1>4
<1> QED
  BY <1>2, <1>3, <1>4 DEF ComposeNext, StackUpdateRefused, Elsewhere, composeVars

\* Saving a file changes nothing but the edited images of the services that the file
\* says everything of (nothing extra, whole sizes, networks that can be told apart),
\* for any stack and networks, also when the list of the networks failed and the
\* file has ids (generateStackCompose, StackUpdate).  Of other services it takes
\* fields away: PreservesAllFields.
THEOREM OnlyTheEditIsSaved == ComposeSpec => SaveChangesOnlyEdit
<1>1. ComposeInv /\ [ComposeNext]_composeVars =>
        (/\ editor.phase = "open" /\ editor'.phase = "saved"
         /\ editor.services = running /\ editor.networks = network
         => \A s \in StackService :
              LET old == running[s]  new == running'[s]
              IN /\ old.there /\ ~old.extra /\ old.halves % 2 = 0
                 /\ \A n \in old.nets : ClearName(n)
                 => new = [old EXCEPT !.image = IF s \in editor.edited THEN new.image ELSE @])
  BY SaveStep, SavedService
<1> QED
  BY <1>1, ComposeInvInit, ComposeInvStep, PTL DEF ComposeSpec, SaveChangesOnlyEdit

=============================================================================
