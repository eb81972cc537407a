-------------------------------- MODULE Views --------------------------------
(***************************************************************************)
(* The lists of services and stacks (internal/api/handlers.go, and sse.go  *)
(* for a page that stays open) and the mappers that make them from the     *)
(* engine's objects (internal/api/mappers.go).                             *)
(*                                                                         *)
(* Every list reads services, tasks and networks in three calls of its own *)
(* and maps what it got; meanwhile the swarm changes, and a call that      *)
(* fails gives nothing: so the streams, StackInfo and linkedServices do.   *)
(* ServiceList and StackList answer 500 when the first call fails, which   *)
(* shows nothing new.                                                      *)
(***************************************************************************)
EXTENDS Bounded, FiniteSets

CONSTANTS
  ViewService, ViewTask, ViewNet,   \* ids
  HostNet,                          \* the host's network
  ViewStack,                        \* stack names
  ViewSpec,                         \* specs that services are made with
  Reader,                           \* pages that are open, with one list each
  ViewWork                          \* bound: changes of the swarm, failed calls

\* job: a replicated or a global one.  failed: failed or rejected.
ViewModes == {"replicated", "global", "job"}
ViewSpecs == [there : BOOLEAN, stack : ViewStack, mode : ViewModes, replicas : Nat,
              nets : SUBSET ViewNet]
TaskState == [there : BOOLEAN, service : ViewService,
              desired : {"running", "shutdown", "complete"},
              state : {"new", "running", "failed", "complete"}]

ASSUME ViewsAssumption ==
  /\ ViewSpec \subseteq {sp \in ViewSpecs : sp.there} /\ ViewSpec # {}
  /\ ViewService # {}
  /\ IsFiniteSet(ViewTask)
  /\ HostNet \in ViewNet
  /\ ViewWork \in Nat

VARIABLES
  services,  \* [ViewService -> ViewSpecs]
  tasks,     \* [ViewTask -> TaskState]
  networks,  \* SUBSET ViewNet: those the swarm has, and the host's
  list,      \* [Reader -> the list the page shows]
  reader,    \* [Reader -> the next call, and the copies]
  shown      \* [Reader -> what the page shows]

viewVars == <<services, tasks, networks, list, reader, shown, work>>

There(f) == {x \in DOMAIN f : f[x].there}

-----------------------------------------------------------------------------
\* The mappers, of copies sv of the services, ts of the tasks, ns of the networks.
TasksOf(s, ts) == {t \in There(ts) : ts[t].service = s}

\* Tasks that run and should; a task of a job should complete.
Running(s, ts) ==
  Cardinality({t \in TasksOf(s, ts) : ts[t].state = "running" /\ ts[t].desired = "running"})

Unhealthy(s, ts) == Cardinality({t \in TasksOf(s, ts) : ts[t].state = "failed"})

\* Seeded fault: tasks on their way out count.
TotalAll(s, sv, ts) ==
  IF sv[s].mode = "replicated" THEN sv[s].replicas ELSE Cardinality(TasksOf(s, ts))

Total(s, sv, ts) ==
  IF sv[s].mode = "replicated" THEN sv[s].replicas
  ELSE Cardinality({t \in TasksOf(s, ts) : ts[t].desired # "shutdown"})

\* Seeded fault: the engine's word, which the pages do not know.
StateEngine(s, sv, ts) ==
  LET running == Running(s, ts)
  IN IF running = 0
     THEN IF sv[s].mode = "job" /\ \E t \in TasksOf(s, ts) : ts[t].state = "complete"
          THEN "complete" ELSE "not running"
     ELSE IF running < Total(s, sv, ts) THEN "partly running" ELSE "running"

State(s, sv, ts) ==
  LET running == Running(s, ts)
  IN IF running = 0
     THEN IF sv[s].mode = "job" /\ \E t \in TasksOf(s, ts) : ts[t].state = "complete"
          THEN "completed" ELSE "not running"
     ELSE IF running < Total(s, sv, ts) THEN "partly running" ELSE "running"

\* A network that is not in the copy is left out.  A service names the host's by
\* another id, which is found through a task that is attached to it.
ServiceNets(s, sv, ts, ns) ==
  {n \in sv[s].nets \cap ns : n = HostNet => \E t \in TasksOf(s, ts) : ts[t].state # "new"}

MapService(s, sv, ts, ns) ==
  [state |-> State(s, sv, ts), running |-> Running(s, ts), total |-> Total(s, sv, ts),
   unhealthy |-> Unhealthy(s, ts), nets |-> ServiceNets(s, sv, ts, ns)]

MapServices(S, sv, ts, ns) == [s \in S |-> MapService(s, sv, ts, ns)]

InStack(st, sv) == {s \in There(sv) : sv[s].stack = st}

\* Seeded fault: what is missing in the copy is kept by its id.
MapStackIds(st, sv, ts, ns) ==
  [state |-> IF InStack(st, sv) = {} THEN "inactive" ELSE "deployed",
   services |-> MapServices(InStack(st, sv), sv, ts, ns),
   nets |-> UNION {sv[s].nets : s \in InStack(st, sv)}]

\* A stack's networks are each taken once, over all its services; the host's is
\* looked up by the services' id and not found.
MapStack(st, sv, ts, ns) ==
  [state |-> IF InStack(st, sv) = {} THEN "inactive" ELSE "deployed",
   services |-> MapServices(InStack(st, sv), sv, ts, ns),
   nets |-> {n \in ns \ {HostNet} : \E s \in InStack(st, sv) : n \in sv[s].nets}]

\* linkedServices of a network.
Linked(n, sv, ts, ns) == MapServices({s \in There(sv) : n \in sv[s].nets}, sv, ts, ns)

\* ServiceList and its stream; StackList and its stream, which have the stacks
\* that a service names; StackInfo of any name; NetworkServices of any network.
Lists == {"services", "stacks", "stack", "linked"}
Streamed == {"services", "stacks"}
Answer(l, sv, ts, ns) ==
  CASE l = "services" -> MapServices(There(sv), sv, ts, ns)
    [] l = "stacks" -> [st \in {sv[s].stack : s \in There(sv)} |-> MapStack(st, sv, ts, ns)]
    [] l = "stack" -> [st \in ViewStack |-> MapStack(st, sv, ts, ns)]
    [] l = "linked" -> [n \in ViewNet \ {HostNet} |-> Linked(n, sv, ts, ns)]

-----------------------------------------------------------------------------
GoneService == [(CHOOSE sp \in ViewSpec : TRUE) EXCEPT !.there = FALSE]
GoneTask == [there |-> FALSE, service |-> CHOOSE s \in ViewService : TRUE,
             desired |-> "running", state |-> "new"]
NoServices == [s \in ViewService |-> GoneService]
NoTasks    == [t \in ViewTask |-> GoneTask]
NoReader   == [p \in Reader |-> [at |-> "services", services |-> NoServices, tasks |-> NoTasks]]

\* What a call returns: x, which is all there is, or none after an error.
Answers(x, all, none) ==
  \/ x = all /\ UNCHANGED work
  \/ x = none /\ none # all /\ Budget(ViewWork)

ReadServices(p) ==
  /\ reader[p].at = "services"
  /\ \E x \in {services, NoServices} :
       /\ Answers(x, services, NoServices)
       /\ reader' = [reader EXCEPT ![p].at = "tasks", ![p].services = x]
  /\ UNCHANGED <<services, tasks, networks, list, shown>>

ReadTasks(p) ==
  /\ reader[p].at = "tasks"
  /\ \E x \in {tasks, NoTasks} :
       /\ Answers(x, tasks, NoTasks)
       /\ reader' = [reader EXCEPT ![p].at = "networks", ![p].tasks = x]
  /\ UNCHANGED <<services, tasks, networks, list, shown>>

\* The last call; the list is shown, and the copies are dropped until the ticker
\* of the stream comes again, or the operator.
ReadNetworks(p) ==
  /\ reader[p].at = "networks"
  /\ \E x \in {networks, {}} :
       /\ Answers(x, networks, {})
       /\ shown' = [shown EXCEPT ![p] = Answer(list[p], reader[p].services, reader[p].tasks, x)]
  /\ reader' = [reader EXCEPT ![p] = [at |-> "services", services |-> NoServices, tasks |-> NoTasks]]
  /\ UNCHANGED <<services, tasks, networks, list>>

-----------------------------------------------------------------------------
\* The swarm: services and networks come and go, and tasks live.
NextTask(k) ==
  {[k EXCEPT !.state = q] : q \in
     CASE k.state = "new" -> {"running", "failed"}
       [] k.state = "running" -> {"failed", "complete"}
       [] OTHER -> {}}
  \cup {[k EXCEPT !.desired = "shutdown"], GoneTask}

NewTasks(sv) ==
  {[there |-> TRUE, service |-> s, state |-> "new",
    desired |-> IF sv[s].mode = "job" THEN "complete" ELSE "running"] : s \in There(sv)}

SwarmChange ==
  /\ Budget(ViewWork)
  /\ \/ /\ \E s \in ViewService, sp \in ViewSpec \cup {GoneService} :
             services' = [services EXCEPT ![s] = sp]
        /\ UNCHANGED <<tasks, networks>>
     \/ /\ \E t \in ViewTask :
             \E k \in IF tasks[t].there THEN NextTask(tasks[t]) ELSE NewTasks(services) :
               tasks' = [tasks EXCEPT ![t] = k]
        /\ UNCHANGED <<services, networks>>
     \/ /\ \E n \in ViewNet \ {HostNet} : networks' = networks \ {n}
        /\ UNCHANGED <<services, tasks>>
  /\ UNCHANGED <<list, reader, shown>>

Read(p) == ReadServices(p) \/ ReadTasks(p) \/ ReadNetworks(p)

ViewsInit ==
  /\ services \in [ViewService -> ViewSpec]
  /\ tasks \in [ViewTask -> {GoneTask} \cup
                  {[k EXCEPT !.state = "running"] : k \in NewTasks(services)}]
  /\ networks = ViewNet
  /\ list \in [Reader -> Lists]
  /\ reader = NoReader
  /\ shown = [p \in Reader |-> Answer(list[p], NoServices, NoTasks, {})]
  /\ work = 0

ViewsNext == (\E p \in Reader : Read(p)) \/ SwarmChange

ViewsSpec == ViewsInit /\ [][ViewsNext]_viewVars

-----------------------------------------------------------------------------
\* Types.
Mapped == [state : {"not running", "partly running", "running", "completed"},
           running : Nat, total : Nat, unhealthy : Nat, nets : SUBSET ViewNet]
\* The services of an answer, each with its group.
Rows(l, v) ==
  CASE l = "services" -> {v} [] l = "linked" -> {v[n] : n \in DOMAIN v}
    [] OTHER -> {v[st].services : st \in DOMAIN v}
ViewsTypeOK ==
  /\ services \in [ViewService -> ViewSpecs]
  /\ tasks \in [ViewTask -> TaskState]
  /\ networks \in SUBSET ViewNet
  /\ list \in [Reader -> Lists]
  /\ reader \in [Reader -> [at : {"services", "tasks", "networks"},
                            services : [ViewService -> ViewSpecs], tasks : [ViewTask -> TaskState]]]
  /\ \A p \in Reader : \A m \in Rows(list[p], shown[p]) : \A s \in DOMAIN m : m[s] \in Mapped
  /\ work \in Nat

\* Once the swarm rests, every list that has a stream, or that is asked for again
\* and again, comes to show it, so that lists, which each make calls of their own,
\* come to agree: the services there are, as running
\* when a task runs and none that is wanted is missing, as completed only when it
\* is a job that has; with the networks they are on, the host's from when a task
\* runs; in the stacks they name, with their networks but for the host's; and for
\* the networks they are on.  An answer mixes three calls of different moments, of
\* which any may have failed.
Wanted(s) == {t \in TasksOf(s, tasks) : tasks[t].desired # "shutdown"}
Runs(s)   == {t \in Wanted(s) : tasks[t].desired = "running" /\ tasks[t].state = "running"}
Up(s) ==
  /\ Runs(s) # {}
  /\ IF services[s].mode = "replicated" THEN Cardinality(Runs(s)) >= services[s].replicas
     ELSE Wanted(s) \subseteq Runs(s)
ServiceShown(s, m) ==
  /\ (m.state = "running") = Up(s)
  /\ m.state = "not running" => Runs(s) = {}
  /\ m.state = "completed" =>
       services[s].mode = "job" /\ \E t \in TasksOf(s, tasks) : tasks[t].state = "complete"
  /\ m.nets \subseteq services[s].nets \cap networks
  /\ \A n \in services[s].nets \cap networks : n \in m.nets \/ (n = HostNet /\ Runs(s) = {})
ServicesShown(S, m) == DOMAIN m = S /\ \A s \in S : ServiceShown(s, m[s])
StackShown(st, k) ==
  LET S == InStack(st, services)
  IN /\ ServicesShown(S, k.services)
     /\ (k.state = "inactive") = (S = {})
     /\ k.nets = ((UNION {services[s].nets : s \in S}) \cap networks) \ {HostNet}
ListShown(l, v) ==
  CASE l = "services" -> ServicesShown(There(services), v)
    [] l = "linked" -> \A n \in ViewNet \ {HostNet} :
         ServicesShown({s \in There(services) : n \in services[s].nets}, v[n])
    [] OTHER ->
         /\ \A st \in DOMAIN v : StackShown(st, v[st])
         /\ \A s \in There(services) : services[s].stack \in DOMAIN v
         /\ l = "stacks" => \A st \in DOMAIN v : InStack(st, services) # {}
ViewsConverge ==
  \A p \in Reader :
    list[p] \in Streamed \/ []<><<ReadNetworks(p)>>_viewVars => <>[]ListShown(list[p], shown[p])
=============================================================================
