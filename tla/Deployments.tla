------------------------------ MODULE Deployments ------------------------------
(***************************************************************************)
(* The HTTP handlers of internal/api/handlers.go that edit Docker services *)
(* and stacks, the table stack_deactivated_replicas they share, and the    *)
(* engine's versioned service objects they edit.                           *)
(*                                                                         *)
(* Every handler reads one service or the list of all services and then    *)
(* sends one versioned update per selected service.  Anything may happen   *)
(* between the read and each update: handlers run concurrently, the engine *)
(* and other clients change services, and the process may crash.           *)
(***************************************************************************)
EXTENDS Integers, FiniteSets

CONSTANTS
  Handler,      \* request goroutines
  Service,      \* service ids the engine hands out; an id is never reused
  Stack,        \* values of the label com.docker.stack.namespace
  Image,        \* image references
  NoStack,      \* a service outside every stack
  Global,       \* the "replica count" of a service in global mode
  NoSpec,       \* PreviousSpec of a service that was never updated
  InitSpecs,    \* specs of the services that exist at start
  BodySpecs,    \* specs a client or a compose file asks for
  Pushes,       \* per webhook payload, the image references it matches
  EngineFails,  \* TRUE: a call to the engine may fail or time out
  MaxWork       \* bound: requests and outside changes in a behaviour

ServiceSpec == [stack : Stack \cup {NoStack}, replicas : Nat \cup {Global},
          force : Nat, image : Image]

ASSUME ConstantsAssumption ==
  /\ NoStack \notin Stack
  /\ Global \notin Int
  /\ NoSpec \notin ServiceSpec
  /\ InitSpecs \subseteq ServiceSpec
  /\ BodySpecs \subseteq ServiceSpec
  /\ InitSpecs # {}
  /\ Pushes \subseteq SUBSET Image
  /\ EngineFails \in BOOLEAN
  /\ MaxWork \in Nat

VARIABLES
  engine,   \* [Service -> Object]: the engine's service objects
  saved,    \* [Stack -> [Service -> Row]]: table stack_deactivated_replicas
  req,      \* [Handler -> Request]: where each request is
  work,     \* requests and outside changes so far
  had,      \* [Service -> SUBSET counts]: history, the counts a service has had
  calm      \* history: the activations that nothing has disturbed so far

vars == <<engine, saved, req, work, had, calm>>

NoRow == -1
Row   == Nat \cup {NoRow}

Object == [live : BOOLEAN, ver : Nat, spec : ServiceSpec, prev : ServiceSpec \cup {NoSpec}]

ServiceOps == {"redeploy", "rollback", "stop", "update"}
StackOps   == {"stackRedeploy", "stackRollback", "activate", "deactivate"}
Phases     == {"idle", "rows", "loop", "put"}

BlankSpec == CHOOSE sp \in InitSpecs : TRUE
Unused    == [live |-> FALSE, ver |-> 0, spec |-> BlankSpec, prev |-> NoSpec]
NoRows    == [s \in Service |-> NoRow]

\* held: the service whose row deactivate has saved and whose update is next;
\* for a webhook, its own service until it is read.
Request ==
  [phase : Phases, op : ServiceOps \cup StackOps \cup {"webhook", "none"},
   stack : Stack \cup {NoStack}, held : SUBSET Service, todo : SUBSET Service,
   snap : [Service -> Object], rows : [Service -> Row], body : ServiceSpec]

Idle ==
  [phase |-> "idle", op |-> "none", stack |-> NoStack, held |-> {}, todo |-> {},
   snap |-> [s \in Service |-> Unused], rows |-> NoRows, body |-> BlankSpec]

-----------------------------------------------------------------------------
\* The engine, as internal/docker/client.go uses it.

Live == {s \in Service : engine[s].live}

\* The engine's optimistic concurrency: an update names the version it read.
Accepts(s, version) == engine[s].live /\ engine[s].ver = version

Updated(o, spec) == [live |-> TRUE, ver |-> o.ver + 1, spec |-> spec, prev |-> o.spec]

\* docker.Service and docker.Services copy the objects out of the engine.
Snapshot(S) == [s \in Service |-> IF s \in S THEN engine[s] ELSE Unused]

InStack(st) == {s \in Live : engine[s].spec.stack = st}

Budget == work < MaxWork /\ work' = work + 1

-----------------------------------------------------------------------------
\* What each handler writes into the spec it read.

SetReplicas(sp, n) == [sp EXCEPT !.replicas = n]
BumpForce(sp)      == [sp EXCEPT !.force = @ + 1]

\* Seeded fault: a row that holds 0 is restored as 0.
RestoredReplicasZero(row) == IF row # NoRow THEN row ELSE 1

\* Seeded fault: no default when there is no row.
RestoredReplicasRaw(row) == row

\* The saved count, or 1 when there is no row or the row holds 0.
RestoredReplicas(row) == IF row > 0 THEN row ELSE 1

NewSpec(r, s) ==
  LET o == r.snap[s]
  IN IF r.op \in {"redeploy", "stackRedeploy", "webhook"} THEN BumpForce(o.spec)
     ELSE IF r.op \in {"rollback", "stackRollback"} THEN o.prev
     ELSE IF r.op \in {"stop", "deactivate"} THEN SetReplicas(o.spec, 0)
     ELSE IF r.op = "activate" THEN SetReplicas(o.spec, RestoredReplicas(r.rows[s]))
     ELSE r.body

\* Seeded fault: activate and deactivate also take global services.
SelectedAllModes(op, st) ==
  {s \in InStack(st) : op = "stackRollback" => engine[s].prev # NoSpec}

\* The services of the stack a loop acts on.
Selected(op, st) ==
  {s \in InStack(st) :
     /\ op = "stackRollback" => engine[s].prev # NoSpec
     /\ op \in {"activate", "deactivate"} => engine[s].spec.replicas # Global}

-----------------------------------------------------------------------------
\* The handlers.

\* ServiceRedeploy, ServiceRollback, ServiceStop, ServiceUpdate up to the
\* update: docker.Service(id) answered.  A service that is not found, has no
\* PreviousSpec to roll back to, or no replica count to stop ends the request.
ReadService(h, op, s, body) ==
  /\ req[h].phase = "idle"
  /\ s \in Live
  /\ op = "rollback" => engine[s].prev # NoSpec
  /\ op = "stop" => engine[s].spec.replicas # Global
  /\ op = "update" => (body.replicas = Global) = (engine[s].spec.replicas = Global)
  /\ Budget
  /\ req' = [req EXCEPT ![h] =
       [Idle EXCEPT !.phase = "loop", !.op = op, !.todo = {s},
                    !.snap = Snapshot({s}),
                    !.body = IF op = "update" THEN body ELSE BlankSpec]]
  /\ UNCHANGED <<engine, saved>>

\* The stack handlers up to the loop.  The error of docker.Services is
\* dropped, so a failed call is an empty list.
ReadStack(h, op, st) ==
  /\ req[h].phase = "idle"
  /\ Budget
  /\ \E S \in {Selected(op, st)} \cup (IF EngineFails THEN {{}} ELSE {}) :
       req' = [req EXCEPT ![h] =
         [Idle EXCEPT !.phase = IF op = "activate" THEN "rows" ELSE "loop",
                      !.op = op, !.stack = st, !.todo = S, !.snap = Snapshot(S)]]
  /\ UNCHANGED <<engine, saved>>

\* StackActivate: store.GetDeactivatedReplicas.  No error is looked at: when the
\* query fails there is no row, when the reading stops early there are some.
LoadRows(h) ==
  /\ req[h].phase = "rows"
  /\ \E S \in SUBSET Service :
       req' = [req EXCEPT ![h].phase = "loop",
                 ![h].rows = [s \in Service |-> IF s \in S THEN saved[req[h].stack][s] ELSE NoRow]]
  /\ UNCHANGED <<engine, saved, work>>

\* Seeded fault: the count is taken after the spec has been set to zero.
SaveRowLate(h, s) ==
  /\ req[h].phase = "loop"
  /\ req[h].op = "deactivate"
  /\ s \in req[h].todo
  /\ \/ saved' = [saved EXCEPT ![req[h].stack][s] = NewSpec(req[h], s).replicas]
     \/ UNCHANGED saved
  /\ req' = [req EXCEPT ![h].phase = "put", ![h].held = {s}]
  /\ UNCHANGED <<engine, work>>

\* StackDeactivate: store.SaveDeactivatedReplicas, before the update of s.  The
\* error of the INSERT is dropped: the update follows all the same.
SaveRow(h, s) ==
  /\ req[h].phase = "loop"
  /\ req[h].op = "deactivate"
  /\ s \in req[h].todo
  /\ \/ saved' = [saved EXCEPT ![req[h].stack][s] = req[h].snap[s].spec.replicas]
     \/ UNCHANGED saved
  /\ req' = [req EXCEPT ![h].phase = "put", ![h].held = {s}]
  /\ UNCHANGED <<engine, work>>

\* The services the next docker.UpdateService call of h may be about: the loop
\* runs in the order of the engine's list; deactivate updates the one it saved.
Updatable(h) ==
  IF req[h].phase = "put" THEN req[h].held
  ELSE {s \in req[h].todo : req[h].phase = "loop" /\ req[h].op # "deactivate"}

\* Seeded fault: on a refusal, take the engine's new version, keep the old spec
\* and try again.
UpdateCallNewVersion(h, s) ==
  /\ s \in Updatable(h)
  /\ IF Accepts(s, req[h].snap[s].ver)
     THEN /\ engine' = [engine EXCEPT ![s] = Updated(engine[s], NewSpec(req[h], s))]
          /\ req' = [req EXCEPT ![h].phase = "loop", ![h].todo = @ \ {s},
                                ![h].held = IF req[h].op = "deactivate" THEN {} ELSE @]
     ELSE /\ req' = [req EXCEPT ![h].snap[s].ver = engine[s].ver]
          /\ UNCHANGED engine
  /\ UNCHANGED <<saved, work>>

\* docker.UpdateService(s.ID, s.Version, spec): applied when the version is
\* still the engine's.  Loops ignore the error and go on.
UpdateCall(h, s) ==
  /\ s \in Updatable(h)
  /\ \/ /\ Accepts(s, req[h].snap[s].ver)
        /\ engine' = [engine EXCEPT ![s] = Updated(engine[s], NewSpec(req[h], s))]
     \/ /\ EngineFails \/ ~Accepts(s, req[h].snap[s].ver)
        /\ UNCHANGED engine
  /\ req' = [req EXCEPT ![h].phase = "loop", ![h].todo = @ \ {s},
                        ![h].held = IF req[h].op = "deactivate" THEN {} ELSE @]
  /\ UNCHANGED <<saved, work>>

\* WebhookTrigger up to its loop: FindWebhook gave the service s; when the
\* payload names an image, all services whose image it is are selected.
WebhookTrigger(h, s, imgs) ==
  /\ req[h].phase = "idle"
  /\ Budget
  /\ \E S \in {{t \in Live : engine[t].spec.image \in imgs}}
              \cup (IF EngineFails THEN {{}} ELSE {}) :
       req' = [req EXCEPT ![h] =
         [Idle EXCEPT !.phase = "loop", !.op = "webhook", !.held = {s},
                      !.todo = S, !.snap = Snapshot(S)]]
  /\ UNCHANGED <<engine, saved>>

\* WebhookTrigger after its loop: the webhook's own service is read again.
ReadOwn(h) ==
  /\ req[h].phase = "loop" /\ req[h].op = "webhook"
  /\ req[h].todo = {} /\ req[h].held # {}
  /\ \E S \in {req[h].held \cap Live} \cup (IF EngineFails THEN {{}} ELSE {}) :
       req' = [req EXCEPT ![h].held = {}, ![h].todo = S, ![h].snap = Snapshot(S)]
  /\ UNCHANGED <<engine, saved, work>>

\* StackActivate after its loop: store.ClearDeactivatedReplicas, which drops
\* the error of the DELETE.
ClearRows(h) ==
  /\ req[h].phase = "loop" /\ req[h].op = "activate" /\ req[h].todo = {}
  /\ saved' = [saved EXCEPT ![req[h].stack] = NoRows] \/ UNCHANGED saved
  /\ req' = [req EXCEPT ![h] = Idle]
  /\ UNCHANGED <<engine, work>>

\* The reply of every other handler.
Reply(h) ==
  /\ req[h].phase = "loop" /\ req[h].todo = {} /\ req[h].held = {}
  /\ req[h].op # "activate"
  /\ req' = [req EXCEPT ![h] = Idle]
  /\ UNCHANGED <<engine, saved, work>>

-----------------------------------------------------------------------------
\* The rest of the world.

\* docker.CreateService: ServiceCreate and TemplateDeploy.
ServiceCreate(s, spec) ==
  /\ engine[s].ver = 0 /\ Budget
  /\ engine' = [engine EXCEPT ![s] =
       [live |-> TRUE, ver |-> 1, spec |-> spec, prev |-> NoSpec]]
  /\ UNCHANGED <<saved, req>>

\* docker.DeleteService: ServiceDelete, and each service of docker stack rm.
ServiceDelete(s) ==
  /\ s \in Live /\ Budget
  /\ engine' = [engine EXCEPT ![s].live = FALSE]
  /\ UNCHANGED <<saved, req>>

\* docker stack deploy rewriting a service it finds, or another client.
DeployService(s, spec) ==
  /\ s \in Live /\ Budget
  /\ (spec.replicas = Global) = (engine[s].spec.replicas = Global)
  /\ engine' = [engine EXCEPT ![s] = Updated(engine[s], spec)]
  /\ UNCHANGED <<saved, req>>

\* The engine moves the version without a change of the spec (update status).
EngineTouch(s) ==
  /\ s \in Live /\ Budget
  /\ engine' = [engine EXCEPT ![s].ver = @ + 1]
  /\ UNCHANGED <<saved, req>>

\* The process dies and restarts: requests are gone, table and engine stay.
Crash ==
  /\ \E h \in Handler : req[h].phase # "idle"
  /\ req' = [h \in Handler |-> Idle]
  /\ UNCHANGED <<engine, saved, work>>

\* Nothing left to do within the bound.
Quiet ==
  /\ work = MaxWork /\ \A h \in Handler : req[h].phase = "idle"
  /\ UNCHANGED vars

-----------------------------------------------------------------------------
\* History: what a step adds to had, and which activations stay undisturbed.

\* h activates a stack; it has read all its services, each of its updates was
\* taken, and nobody else has changed a service meanwhile.
Undisturbed(h) ==
  /\ req'[h].phase # "idle" /\ req'[h].op = "activate"
  /\ \/ req[h].phase = "idle" /\ req'[h].todo = Selected("activate", req'[h].stack)
     \/ h \in calm /\ engine' = engine /\ req'[h].todo = req[h].todo
     \/ h \in calm /\ engine' # engine /\ req'[h].todo # req[h].todo

Remember ==
  /\ had' = [s \in Service |->
               had[s] \cup (IF engine'[s].live THEN {engine'[s].spec.replicas} ELSE {})]
  /\ calm' = {h \in Handler : Undisturbed(h)}

-----------------------------------------------------------------------------
Begin(h) ==
  \/ \E s \in Service, op \in ServiceOps, body \in BodySpecs :
       ReadService(h, op, s, body)
  \/ \E op \in StackOps, st \in Stack : ReadStack(h, op, st)
  \/ \E s \in Service, imgs \in Pushes : WebhookTrigger(h, s, imgs)

Continue(h) ==
  \/ LoadRows(h)
  \/ \E s \in Service : SaveRow(h, s)
  \/ \E s \in Service : UpdateCall(h, s)
  \/ ReadOwn(h)
  \/ ClearRows(h)
  \/ Reply(h)

World ==
  \/ \E s \in Service, spec \in BodySpecs : ServiceCreate(s, spec)
  \/ \E s \in Service : ServiceDelete(s)
  \/ \E s \in Service, spec \in BodySpecs : DeployService(s, spec)
  \/ \E s \in Service : EngineTouch(s)

Init ==
  /\ engine \in [Service -> {Unused} \cup
       {[live |-> TRUE, ver |-> 1, spec |-> sp, prev |-> NoSpec] : sp \in InitSpecs}]
  /\ saved = [st \in Stack |-> NoRows]
  /\ req = [h \in Handler |-> Idle]
  /\ work = 0
  /\ had = [s \in Service |-> IF engine[s].live THEN {engine[s].spec.replicas} ELSE {}]
  /\ calm = {}

Operators == (\E h \in Handler : Begin(h) \/ Continue(h)) \/ Crash \/ Quiet

Next == (Operators \/ World) /\ Remember

Spec == Init /\ [][Next]_vars

\* Only this program's operators touch the engine.
UndisturbedSpec == Init /\ [][Operators /\ Remember]_vars

-----------------------------------------------------------------------------
\* Types of the engine's objects, the table and the requests.
TypeOK ==
  /\ engine \in [Service -> Object]
  /\ saved \in [Stack -> [Service -> Row]]
  /\ req \in [Handler -> Request]
  /\ work \in Nat
  /\ had \in [Service -> SUBSET (Nat \cup {Global})]
  /\ calm \subseteq Handler

\* A copy that carries the version the engine has now is the object the engine
\* has now.  docker.UpdateService sends that version (client.go:183), so what
\* it replaces is what the handler read.
SnapshotsCoherent ==
  \A h \in Handler : \A s \in req[h].todo :
    /\ req[h].snap[s].ver <= engine[s].ver
    /\ Accepts(s, req[h].snap[s].ver) => req[h].snap[s] = engine[s]

\* No handler writes over a change it has not seen: when a request's step
\* changes a service, the result is the handler's edit of the service as it
\* is at that moment, whatever happened since the handler read it.
NoLostUpdate ==
  [][\A h \in Handler, s \in Service :
       req'[h] # req[h] /\ engine'[s] # engine[s] =>
         engine'[s] = Updated(engine[s],
                        NewSpec([req[h] EXCEPT !.snap[s] = engine[s]], s))]_vars

\* A saved count is never invented: whatever the table holds, and whatever an
\* activation has loaded of it, is a count the service has really had, though
\* the copies it was saved from may be stale, statements fail and the table
\* outlives crashes and changes of the service.
CountsWereReal ==
  /\ \A st \in Stack, s \in Service : saved[st][s] \in had[s] \cup {NoRow}
  /\ \A h \in Handler, s \in Service : req[h].rows[s] \in had[s] \cup {NoRow}

\* StackDeactivate of a stack that is already down does not replace the saved
\* count of a service by zero.
SaveKeepsCount ==
  [][\A st \in Stack : \A s \in Live :
       saved[st][s] > 0 /\ engine[s].spec.replicas = 0 => saved'[st][s] # 0]_vars

\* When StackActivate is about to drop the saved counts of a stack, every
\* replicated service of the stack runs at least one replica, unless a call of
\* that request failed or somebody else changed a service under it.  Lost
\* rows, other requests before it and crashes are no excuse.
ActivateStartsAll ==
  \A h \in calm : req[h].phase = "loop" /\ req[h].todo = {} =>
    \A s \in InStack(req[h].stack) : engine[s].spec.replicas # 0

\* What the engine holds, without versions.
Visible(o) ==
  [state |-> IF o.live THEN "live" ELSE IF o.ver = 0 THEN "none" ELSE "gone",
   spec |-> o.spec, prev |-> o.prev]

Abstract == INSTANCE AtomicEdits WITH services <- [s \in Service |-> Visible(engine[s])]

\* The handlers, with their copies and several steps, edit the services as if
\* each edit were atomic: Deployments implements AtomicEdits.
EditsAreAtomic == Abstract!Spec

=============================================================================
