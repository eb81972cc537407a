--------------------------- MODULE DeploymentsProofs ---------------------------
(***************************************************************************)
(* Theorems about Deployments, for any number of requests, services and    *)
(* stacks, any specs and any interleaving with the engine.                 *)
(***************************************************************************)
EXTENDS Deployments, TLAPS

\* What the handlers know about the services they are still to update: the
\* checks made on the copies when they were taken.
Checked(r) ==
  /\ r.phase = "rows" => r.op = "activate"
  /\ r.phase = "put" => r.op = "deactivate"
  /\ r.op \in StackOps => r.stack \in Stack
  /\ r.op = "deactivate" => r.held \subseteq r.todo
  /\ r.op = "update" => r.body \in BodySpecs
  /\ \A s \in r.todo :
       /\ r.op # "none"
       /\ r.op \in {"rollback", "stackRollback"} => r.snap[s].prev # NoSpec
       /\ r.op \in {"stop", "activate", "deactivate"} => r.snap[s].spec.replicas # Global
       /\ r.op = "update" =>
            (r.body.replicas = Global) = (r.snap[s].spec.replicas = Global)

RequestsChecked == \A h \in Handler : Checked(req[h])

IInv == TypeOK /\ RequestsChecked

-----------------------------------------------------------------------------
\* The constants the states are built from have the types of the states.
LEMMA BlankSpecType == BlankSpec \in InitSpecs /\ BlankSpec \in ServiceSpec
BY ConstantsAssumption DEF BlankSpec

LEMMA UnusedType == Unused \in Object
BY BlankSpecType DEF Unused, Object

LEMMA IdleType == Idle \in Request
BY BlankSpecType, UnusedType DEF Idle, Request, Phases, NoRows, Row, NoRow

\* A copy of any services is a table of objects.
LEMMA SnapshotType ==
  ASSUME TypeOK, NEW S
  PROVE  Snapshot(S) \in [Service -> Object]
BY UnusedType DEF Snapshot, TypeOK

\* What a handler writes is a service spec.
LEMMA NewSpecType ==
  ASSUME IInv, NEW h \in Handler, NEW s \in req[h].todo
  PROVE  NewSpec(req[h], s) \in ServiceSpec
<1> DEFINE r == req[h]
           o == r.snap[s]
<1>1. r \in Request /\ s \in Service
  BY DEF IInv, TypeOK, Request
<1>2. o \in Object /\ o.spec \in ServiceSpec /\ r.body \in ServiceSpec
  BY <1>1 DEF Request, Object
<1>3. BumpForce(o.spec) \in ServiceSpec
  BY <1>2 DEF BumpForce, ServiceSpec
<1>4. ASSUME NEW n \in Nat PROVE SetReplicas(o.spec, n) \in ServiceSpec
  BY <1>2 DEF SetReplicas, ServiceSpec
<1>5. RestoredReplicas(r.rows[s]) \in Nat
  BY <1>1 DEF RestoredReplicas, Request, Row, NoRow
<1>6. CASE r.op \in {"redeploy", "stackRedeploy", "webhook"}
  BY <1>3, <1>6 DEF NewSpec
<1>7. CASE r.op \in {"rollback", "stackRollback"}
  BY <1>2, <1>7 DEF NewSpec, IInv, RequestsChecked, Checked, Object
<1>8. CASE r.op \in {"stop", "deactivate"}
  BY <1>4, <1>8 DEF NewSpec
<1>9. CASE r.op = "activate"
  BY <1>4, <1>5, <1>9 DEF NewSpec
<1>10. CASE r.op = "update"
  BY <1>2, <1>10 DEF NewSpec
<1> QED
  BY <1>1, <1>6, <1>7, <1>8, <1>9, <1>10 DEF Request, ServiceOps, StackOps, IInv, RequestsChecked, Checked

\* The invariant holds at the start.
LEMMA IInvInit == Init => IInv
<1> SUFFICES ASSUME Init PROVE IInv
  OBVIOUS
<1>1. TypeOK
  <2>1. engine \in [Service -> Object]
    <3>1. ASSUME NEW sp \in InitSpecs
          PROVE  [live |-> TRUE, ver |-> 1, spec |-> sp, prev |-> NoSpec] \in Object
      BY ConstantsAssumption DEF Object
    <3> QED
      BY <3>1, UnusedType DEF Init
  <2>2. saved \in [Stack -> [Service -> Row]]
    BY DEF Init, NoRows, Row
  <2>3. \A s \in Service : engine[s].spec.replicas \in Nat \cup {Global}
    BY <2>1 DEF Object, ServiceSpec
  <2>4. had \in [Service -> SUBSET (Nat \cup {Global})]
    BY <2>3 DEF Init
  <2> QED
    BY <2>1, <2>2, <2>4, IdleType DEF Init, TypeOK
<1>2. RequestsChecked
  BY DEF Init, RequestsChecked, Checked, Idle, StackOps
<1> QED
  BY <1>1, <1>2 DEF IInv

\* Every step keeps the types of the engine and of the table.
LEMMA StateTypeStep ==
  ASSUME IInv, [Next]_vars
  PROVE  /\ engine' \in [Service -> Object]
         /\ saved' \in [Stack -> [Service -> Row]]
         /\ work' \in Nat
<1> USE DEF IInv, TypeOK
<1>1. ASSUME NEW s \in Service, NEW sp \in ServiceSpec
      PROVE  Updated(engine[s], sp) \in Object
  BY DEF Updated, Object
<1>2. ASSUME NEW h \in Handler, NEW s \in Service, NEW op \in ServiceOps,
             NEW body \in BodySpecs, ReadService(h, op, s, body)
      PROVE  UNCHANGED <<engine, saved>> /\ work' \in Nat
  BY <1>2 DEF ReadService, Budget
<1>3. ASSUME NEW h \in Handler, NEW op \in StackOps, NEW st \in Stack, ReadStack(h, op, st)
      PROVE  UNCHANGED <<engine, saved>> /\ work' \in Nat
  BY <1>3 DEF ReadStack, Budget
<1>4. ASSUME NEW h \in Handler, NEW s \in Service, NEW imgs \in Pushes,
             WebhookTrigger(h, s, imgs)
      PROVE  UNCHANGED <<engine, saved>> /\ work' \in Nat
  BY <1>4 DEF WebhookTrigger, Budget
<1>5. ASSUME NEW h \in Handler, LoadRows(h) \/ ReadOwn(h) \/ Reply(h)
      PROVE  UNCHANGED <<engine, saved, work>>
  BY <1>5 DEF LoadRows, ReadOwn, Reply
<1>6. ASSUME NEW h \in Handler, NEW s \in Service, SaveRow(h, s)
      PROVE  saved' \in [Stack -> [Service -> Row]] /\ UNCHANGED <<engine, work>>
  <2>1. req[h].snap[s].spec.replicas \in Row /\ req[h].stack \in Stack
    BY <1>6 DEF SaveRow, RequestsChecked, Checked, Request, Object, ServiceSpec, Row, StackOps
  <2> QED
    BY <1>6, <2>1 DEF SaveRow
<1>7. ASSUME NEW h \in Handler, NEW s \in Service, UpdateCall(h, s)
      PROVE  engine' \in [Service -> Object] /\ UNCHANGED <<saved, work>>
  <2>1. s \in req[h].todo
    BY <1>7 DEF UpdateCall, Updatable, RequestsChecked, Checked, Request
  <2>2. NewSpec(req[h], s) \in ServiceSpec
    BY <2>1, NewSpecType
  <2> QED
    BY <1>1, <1>7, <2>2 DEF UpdateCall
<1>8. ASSUME NEW h \in Handler, ClearRows(h)
      PROVE  saved' \in [Stack -> [Service -> Row]] /\ UNCHANGED <<engine, work>>
  BY <1>8 DEF ClearRows, NoRows, Row
<1>9. ASSUME World
      PROVE  engine' \in [Service -> Object] /\ UNCHANGED saved /\ work' \in Nat
  <2>1. BodySpecs \subseteq ServiceSpec
    BY ConstantsAssumption
  <2>2. ASSUME NEW s \in Service, NEW spec \in BodySpecs, ServiceCreate(s, spec)
        PROVE  engine' \in [Service -> Object]
    BY <2>1, <2>2 DEF ServiceCreate, Object
  <2>3. ASSUME NEW s \in Service, NEW spec \in BodySpecs, DeployService(s, spec)
        PROVE  engine' \in [Service -> Object]
    BY <1>1, <2>1, <2>3 DEF DeployService
  <2>4. ASSUME NEW s \in Service
        PROVE  /\ [engine[s] EXCEPT !.live = FALSE] \in Object
               /\ [engine[s] EXCEPT !.ver = @ + 1] \in Object
    <3>1. engine[s] \in Object
      OBVIOUS
    <3>2. ASSUME NEW o \in Object
          PROVE  [o EXCEPT !.live = FALSE] \in Object /\ [o EXCEPT !.ver = @ + 1] \in Object
      <4>1. [o EXCEPT !.live = FALSE] \in Object
        BY Zenon DEF Object
      <4>2. ASSUME NEW n \in Nat PROVE [o EXCEPT !.ver = n] \in Object
        BY Zenon DEF Object
      <4>3. o.ver + 1 \in Nat
        BY DEF Object
      <4> QED
        BY <4>1, <4>2, <4>3
    <3> QED
      BY <3>1, <3>2
  <2>5. ASSUME NEW s \in Service, ServiceDelete(s)
        PROVE  engine' \in [Service -> Object]
    BY <2>4, <2>5 DEF ServiceDelete
  <2>6. ASSUME NEW s \in Service, EngineTouch(s)
        PROVE  engine' \in [Service -> Object]
    BY <2>4, <2>6 DEF EngineTouch
  <2>7. UNCHANGED saved /\ Budget
    BY <1>9 DEF World, ServiceCreate, DeployService, ServiceDelete, EngineTouch
  <2>8. work' \in Nat
    BY <2>7 DEF Budget
  <2> QED
    BY <1>9, <2>2, <2>3, <2>5, <2>6, <2>7, <2>8 DEF World
<1>10. Crash \/ Quiet \/ UNCHANGED vars => UNCHANGED <<engine, saved, work>>
  BY DEF Crash, Quiet, vars
<1> QED
  BY <1>2, <1>3, <1>4, <1>5, <1>6, <1>7, <1>8, <1>9, <1>10
     DEF Next, Operators, Begin, Continue

\* The history keeps its types.
LEMMA HistoryTypeStep ==
  ASSUME IInv, [Next]_vars
  PROVE  had' \in [Service -> SUBSET (Nat \cup {Global})] /\ calm' \subseteq Handler
<1>1. \A s \in Service : engine'[s].spec.replicas \in Nat \cup {Global}
  BY StateTypeStep DEF Object, ServiceSpec
<1>2. CASE Remember
  BY <1>1, <1>2 DEF Remember, IInv, TypeOK
<1>3. CASE UNCHANGED vars
  BY <1>3 DEF vars, IInv, TypeOK
<1> QED
  BY <1>2, <1>3 DEF Next

\* What a handler keeps between two of its steps is well formed, and the checks
\* made when the copies were taken still hold of the copies.
LEMMA BeginStep ==
  ASSUME IInv, NEW h \in Handler, Begin(h)
  PROVE  \E r \in Request : Checked(r) /\ req' = [req EXCEPT ![h] = r]
<1> USE DEF IInv
<1>1. ASSUME NEW s \in Service, NEW op \in ServiceOps, NEW body \in BodySpecs,
             ReadService(h, op, s, body)
      PROVE  \E r \in Request : Checked(r) /\ req' = [req EXCEPT ![h] = r]
  <2> DEFINE r == [Idle EXCEPT !.phase = "loop", !.op = op, !.todo = {s},
                               !.snap = Snapshot({s}),
                               !.body = IF op = "update" THEN body ELSE BlankSpec]
  <2>1. body \in ServiceSpec
    BY ConstantsAssumption
  <2>2. r \in Request
    BY <2>1, IdleType, SnapshotType, BlankSpecType DEF Request, Phases
  <2>3. Checked(r)
    BY <1>1 DEF ReadService, Checked, Snapshot, Idle, ServiceOps, StackOps
  <2> QED
    BY <1>1, <2>2, <2>3 DEF ReadService
<1>2. ASSUME NEW op \in StackOps, NEW st \in Stack, ReadStack(h, op, st)
      PROVE  \E r \in Request : Checked(r) /\ req' = [req EXCEPT ![h] = r]
  <2> DEFINE r(S) == [Idle EXCEPT !.phase = IF op = "activate" THEN "rows" ELSE "loop",
                                  !.op = op, !.stack = st, !.todo = S, !.snap = Snapshot(S)]
  <2>1. PICK S \in {Selected(op, st), {}} : req' = [req EXCEPT ![h] = r(S)]
    BY <1>2 DEF ReadStack
  <2>2. S \subseteq Service
    BY <2>1 DEF Selected, InStack, Live
  <2>3. r(S) \in Request
    BY <2>2, IdleType, SnapshotType DEF Request, Phases
  <2>4. Checked(r(S))
    BY <2>1, <2>2 DEF Checked, Snapshot, Selected, Idle, StackOps, ServiceOps
  <2> QED
    BY <2>1, <2>3, <2>4
<1>3. ASSUME NEW s \in Service, NEW imgs \in Pushes, WebhookTrigger(h, s, imgs)
      PROVE  \E r \in Request : Checked(r) /\ req' = [req EXCEPT ![h] = r]
  <2> DEFINE r(S) == [Idle EXCEPT !.phase = "loop", !.op = "webhook", !.held = {s},
                                  !.todo = S, !.snap = Snapshot(S)]
  <2>1. PICK S \in SUBSET Service : req' = [req EXCEPT ![h] = r(S)]
    BY <1>3 DEF WebhookTrigger, Live
  <2>2. r(S) \in Request
    BY IdleType, SnapshotType DEF Request, Phases
  <2>3. Checked(r(S))
    BY DEF Checked, Idle, StackOps
  <2> QED
    BY <2>1, <2>2, <2>3
<1> QED
  BY <1>1, <1>2, <1>3 DEF Begin

\* The same for the steps of a request that has begun.
LEMMA ContinueStep ==
  ASSUME IInv, NEW h \in Handler, Continue(h)
  PROVE  \E r \in Request : Checked(r) /\ req' = [req EXCEPT ![h] = r]
<1> USE DEF IInv
<1>1. req[h] \in Request /\ Checked(req[h])
  BY DEF TypeOK, RequestsChecked
<1>2. Checked(Idle)
  BY DEF Checked, Idle, StackOps
<1>3. CASE LoadRows(h)
  <2> DEFINE rows(S) == [s \in Service |-> IF s \in S THEN saved[req[h].stack][s] ELSE NoRow]
             r(S) == [req[h] EXCEPT !.phase = "loop", !.rows = rows(S)]
  <2>1. PICK S \in SUBSET Service : req' = [req EXCEPT ![h] = r(S)]
    BY <1>3 DEF LoadRows, TypeOK
  <2>2. saved[req[h].stack] \in [Service -> Row]
    BY <1>1, <1>3 DEF LoadRows, Checked, StackOps, TypeOK
  <2>3. rows(S) \in [Service -> Row]
    BY <2>2 DEF Row
  <2>4. r(S) \in Request /\ Checked(r(S))
    BY <1>1, <2>3 DEF Request, Phases, Checked
  <2> QED
    BY <2>1, <2>4
<1>4. ASSUME NEW s \in Service, SaveRow(h, s)
      PROVE  \E r \in Request : Checked(r) /\ req' = [req EXCEPT ![h] = r]
  <2> DEFINE r == [req[h] EXCEPT !.phase = "put", !.held = {s}]
  <2>1. r \in Request /\ Checked(r)
    BY <1>1, <1>4 DEF SaveRow, Request, Phases, Checked
  <2> QED
    BY <1>4, <2>1 DEF SaveRow, TypeOK
<1>5. ASSUME NEW s \in Service, UpdateCall(h, s)
      PROVE  \E r \in Request : Checked(r) /\ req' = [req EXCEPT ![h] = r]
  <2> DEFINE r == [req[h] EXCEPT !.phase = "loop", !.todo = @ \ {s},
                                 !.held = IF req[h].op = "deactivate" THEN {} ELSE @]
  <2>1. r \in Request /\ Checked(r)
    BY <1>1 DEF Request, Phases, Checked
  <2> QED
    BY <1>5, <2>1 DEF UpdateCall, TypeOK
<1>6. CASE ReadOwn(h)
  <2> DEFINE r(S) == [req[h] EXCEPT !.held = {}, !.todo = S, !.snap = Snapshot(S)]
  <2>1. PICK S \in SUBSET Service : req' = [req EXCEPT ![h] = r(S)]
    BY <1>6 DEF ReadOwn, Live, TypeOK
  <2>2. r(S) \in Request
    BY <1>1, SnapshotType DEF Request
  <2>3. Checked(r(S))
    BY <1>1, <1>6 DEF ReadOwn, Checked
  <2> QED
    BY <2>1, <2>2, <2>3
<1>7. CASE ClearRows(h) \/ Reply(h)
  BY <1>2, <1>7, IdleType DEF ClearRows, Reply
<1> QED
  BY <1>3, <1>4, <1>5, <1>6, <1>7 DEF Continue

LEMMA IInvStep == IInv /\ [Next]_vars => IInv'
<1> SUFFICES ASSUME IInv, [Next]_vars PROVE IInv'
  OBVIOUS
<1>1. ASSUME NEW h \in Handler, Begin(h) \/ Continue(h)
      PROVE  req' \in [Handler -> Request] /\ \A g \in Handler : Checked(req'[g])
  BY <1>1, BeginStep, ContinueStep DEF IInv, TypeOK, RequestsChecked
<1>2. CASE Crash
  <2>1. Checked(Idle)
    BY DEF Checked, Idle, StackOps
  <2>2. req' \in [Handler -> Request] /\ \A g \in Handler : Checked(req'[g])
    BY <1>2, <2>1, IdleType DEF Crash
  <2> QED
    BY <2>2, StateTypeStep, HistoryTypeStep
     DEF IInv, TypeOK, RequestsChecked
<1>3. World \/ Quiet \/ UNCHANGED vars => UNCHANGED req
  BY DEF World, ServiceCreate, ServiceDelete, DeployService, EngineTouch, Quiet, vars
<1>4. CASE UNCHANGED req
  BY <1>4, StateTypeStep, HistoryTypeStep
     DEF IInv, TypeOK, RequestsChecked
<1>5. CASE \E h \in Handler : Begin(h) \/ Continue(h)
  BY <1>1, <1>5, StateTypeStep, HistoryTypeStep
     DEF IInv, TypeOK, RequestsChecked
<1> QED
  BY <1>2, <1>3, <1>4, <1>5 DEF Next, Operators

LEMMA IInvAlways == Spec => []IInv
BY IInvInit, IInvStep, PTL DEF Spec

\* The engine's objects, the rows of the table and what each handler holds have
\* their types in every reachable state.  The induction needs the checks the
\* handlers make on their copies: a row is a count because deactivate passes
\* over global services, a spec is written because rollback passes over
\* services without a PreviousSpec.
THEOREM TypeCorrect == Spec => []TypeOK
<1>1. IInv => TypeOK
  BY DEF IInv
<1> QED
  BY <1>1, IInvAlways, PTL

-----------------------------------------------------------------------------
\* What the handlers know of the engine.

\* A step leaves a service alone, moves its version forward, or deletes it.
LEMMA EngineStep ==
  ASSUME IInv, [Next]_vars, NEW s \in Service
  PROVE  \/ engine'[s] = engine[s]
         \/ engine'[s].ver > engine[s].ver
         \/ ~engine'[s].live /\ engine'[s].ver = engine[s].ver
<1> USE DEF IInv, TypeOK
<1>1. engine[s] \in Object /\ engine[s].ver \in Nat
  BY DEF Object
<1>2. ASSUME NEW h \in Handler, NEW t \in Service, UpdateCall(h, t)
      PROVE  engine'[s] = engine[s] \/ engine'[s].ver > engine[s].ver
  BY <1>1, <1>2 DEF UpdateCall, Updated
<1>3. ASSUME NEW t \in Service, NEW spec \in BodySpecs,
             ServiceCreate(t, spec) \/ DeployService(t, spec)
      PROVE  engine'[s] = engine[s] \/ engine'[s].ver > engine[s].ver
  BY <1>1, <1>3 DEF ServiceCreate, DeployService, Updated
<1>4. ASSUME NEW t \in Service, EngineTouch(t)
      PROVE  engine'[s] = engine[s] \/ engine'[s].ver > engine[s].ver
  BY <1>1, <1>4 DEF EngineTouch, Object
<1>5. ASSUME NEW t \in Service, ServiceDelete(t)
      PROVE  engine'[s] = engine[s] \/ (~engine'[s].live /\ engine'[s].ver = engine[s].ver)
  BY <1>1, <1>5 DEF ServiceDelete, Object
<1>6. ASSUME NEW h \in Handler,
             \/ Begin(h) \/ LoadRows(h) \/ ReadOwn(h) \/ ClearRows(h) \/ Reply(h)
             \/ \E t \in Service : SaveRow(h, t)
      PROVE  UNCHANGED engine
  BY <1>6 DEF Begin, ReadService, ReadStack, WebhookTrigger, LoadRows, ReadOwn,
              ClearRows, Reply, SaveRow
<1>7. Crash \/ Quiet \/ UNCHANGED vars => UNCHANGED engine
  BY DEF Crash, Quiet, vars
<1> QED
  BY <1>2, <1>3, <1>4, <1>5, <1>6, <1>7 DEF Next, Operators, World, Continue

\* Loading the rows touches nothing else that a request holds.
LEMMA LoadRowsStep ==
  ASSUME NEW g \in Handler, LoadRows(g), req \in [Handler -> Request], NEW h \in Handler
  PROVE  req'[h].todo = req[h].todo /\ req'[h].snap = req[h].snap
<1> DEFINE r(rows) == [req[g] EXCEPT !.phase = "loop", !.rows = rows]
<1>1. PICK rows : req' = [req EXCEPT ![g] = r(rows)]
  BY DEF LoadRows
<1>2. r(rows).todo = req[g].todo /\ r(rows).snap = req[g].snap
  BY DEF Request
<1> HIDE DEF r
<1> QED
  BY <1>1, <1>2

\* A handler takes its copies from the engine and then keeps them as they are.
LEMMA CopyStep ==
  ASSUME IInv, [Next]_vars, NEW h \in Handler, NEW s \in req'[h].todo
  PROVE  \/ s \in req[h].todo /\ req'[h].snap[s] = req[h].snap[s]
         \/ req'[h].snap[s] = engine[s] /\ UNCHANGED engine
<1> DEFINE Good == \/ s \in req[h].todo /\ req'[h].snap[s] = req[h].snap[s]
                   \/ req'[h].snap[s] = engine[s] /\ UNCHANGED engine
<1>0. s \in Service /\ req \in [Handler -> Request] /\ req' \in [Handler -> Request]
  BY IInvStep DEF IInv, TypeOK, Request
<1>1. ASSUME NEW g \in Handler, Begin(g) PROVE Good
  <2>1. ASSUME NEW t \in Service, NEW op \in ServiceOps, NEW body \in BodySpecs,
               ReadService(g, op, t, body)
        PROVE  Good
    BY <1>0, <2>1 DEF ReadService, Snapshot, Idle
  <2>2. ASSUME NEW op \in StackOps, NEW st \in Stack, ReadStack(g, op, st) PROVE Good
    BY <1>0, <2>2 DEF ReadStack, Snapshot, Idle
  <2>3. ASSUME NEW t \in Service, NEW imgs \in Pushes, WebhookTrigger(g, t, imgs) PROVE Good
    BY <1>0, <2>3 DEF WebhookTrigger, Snapshot, Idle
  <2> QED
    BY <1>1, <2>1, <2>2, <2>3 DEF Begin
<1>2. ASSUME NEW g \in Handler, ReadOwn(g) PROVE Good
  BY <1>0, <1>2 DEF ReadOwn, Snapshot
<1>3. ASSUME NEW g \in Handler, ClearRows(g) \/ Reply(g) PROVE Good
  BY <1>0, <1>3 DEF ClearRows, Reply, Idle
<1>4. ASSUME NEW g \in Handler, LoadRows(g) PROVE Good
  <2>1. req'[h].todo = req[h].todo /\ req'[h].snap = req[h].snap
    BY <1>0, <1>4, LoadRowsStep
  <2> QED
    BY <2>1
<1>5. ASSUME NEW g \in Handler, NEW t \in Service, SaveRow(g, t) PROVE Good
  BY <1>0, <1>5 DEF SaveRow, Request
<1>6. ASSUME NEW g \in Handler, NEW t \in Service, UpdateCall(g, t) PROVE Good
  BY <1>0, <1>6 DEF UpdateCall, Request
<1>7. CASE Crash
  BY <1>0, <1>7 DEF Crash, Idle
<1>8. CASE World \/ Quiet \/ UNCHANGED vars
  BY <1>8 DEF World, ServiceCreate, ServiceDelete, DeployService, EngineTouch, Quiet, vars
<1> QED
  BY <1>1, <1>2, <1>3, <1>4, <1>5, <1>6, <1>7, <1>8 DEF Next, Operators, Continue

LEMMA CoherentInit == Init => SnapshotsCoherent
BY DEF Init, SnapshotsCoherent, Idle

LEMMA CoherentStep == IInv /\ SnapshotsCoherent /\ [Next]_vars => SnapshotsCoherent'
<1> SUFFICES ASSUME IInv, SnapshotsCoherent, [Next]_vars,
                    NEW h \in Handler, NEW s \in req'[h].todo
             PROVE  /\ req'[h].snap[s].ver <= engine'[s].ver
                    /\ engine'[s].live /\ engine'[s].ver = req'[h].snap[s].ver =>
                         req'[h].snap[s] = engine'[s]
  BY DEF SnapshotsCoherent, Accepts
<1>0. IInv'
  BY IInvStep
<1>1. s \in Service /\ engine[s].ver \in Nat /\ engine'[s].ver \in Nat
      /\ req'[h].snap[s].ver \in Nat
  BY <1>0 DEF IInv, TypeOK, Request, Object
<1>2. CASE req'[h].snap[s] = engine[s] /\ UNCHANGED engine
  BY <1>1, <1>2
<1>3. CASE s \in req[h].todo /\ req'[h].snap[s] = req[h].snap[s]
  <2>1. /\ req[h].snap[s].ver <= engine[s].ver
        /\ engine[s].live /\ engine[s].ver = req[h].snap[s].ver => req[h].snap[s] = engine[s]
    BY <1>3 DEF SnapshotsCoherent, Accepts
  <2>2. CASE engine'[s] = engine[s]
    BY <1>3, <2>1, <2>2
  <2>3. CASE engine'[s].ver > engine[s].ver
    BY <1>1, <1>3, <2>1, <2>3
  <2>4. CASE ~engine'[s].live /\ engine'[s].ver = engine[s].ver
    BY <1>3, <2>1, <2>4
  <2> QED
    BY <1>1, <2>2, <2>3, <2>4, EngineStep
<1> QED
  BY <1>2, <1>3, CopyStep

\* The engine's version check is enough: whenever it takes a handler's update,
\* the copy the handler made it from is still the service.
THEOREM Coherent == Spec => []SnapshotsCoherent
BY IInvAlways, CoherentInit, CoherentStep, PTL DEF Spec

\* Only an update call changes a service in the same step as a request.
LEMMA WriterStep ==
  ASSUME IInv, [Next]_vars, NEW h \in Handler, NEW s \in Service,
         req'[h] # req[h], engine'[s] # engine[s]
  PROVE  /\ s \in req[h].todo
         /\ Accepts(s, req[h].snap[s].ver)
         /\ engine'[s] = Updated(engine[s], NewSpec(req[h], s))
<1>0. engine \in [Service -> Object] /\ req \in [Handler -> Request] /\ RequestsChecked
  BY DEF IInv, TypeOK
<1>1. ASSUME NEW g \in Handler, Begin(g) PROVE FALSE
  BY <1>1 DEF Begin, ReadService, ReadStack, WebhookTrigger
<1>2. ASSUME NEW g \in Handler,
             \/ LoadRows(g) \/ ReadOwn(g) \/ ClearRows(g) \/ Reply(g)
             \/ \E t \in Service : SaveRow(g, t)
      PROVE  FALSE
  BY <1>2 DEF LoadRows, ReadOwn, ClearRows, Reply, SaveRow
<1>3. World \/ Crash \/ Quiet \/ UNCHANGED vars => UNCHANGED engine \/ UNCHANGED req
  BY DEF World, ServiceCreate, ServiceDelete, DeployService, EngineTouch, Crash, Quiet, vars
<1>4. PICK g \in Handler, t \in Service : UpdateCall(g, t)
  BY <1>1, <1>2, <1>3 DEF Next, Operators, Continue
<1>5. g = h /\ t = s
  BY <1>0, <1>4 DEF UpdateCall
<1>6. s \in req[h].todo
  BY <1>0, <1>4, <1>5 DEF UpdateCall, Updatable, RequestsChecked, Checked
<1> QED
  BY <1>0, <1>4, <1>5, <1>6 DEF UpdateCall

\* No interleaving of handlers, engine and other clients makes a handler write
\* over a change it has not seen.
THEOREM UpdatesNotLost == Spec => NoLostUpdate
<1> DEFINE Fresh(h, s) ==
      req'[h] # req[h] /\ engine'[s] # engine[s] =>
        engine'[s] = Updated(engine[s], NewSpec([req[h] EXCEPT !.snap[s] = engine[s]], s))
<1>1. ASSUME IInv, SnapshotsCoherent, [Next]_vars, NEW h \in Handler, NEW s \in Service
      PROVE  Fresh(h, s)
  <2> SUFFICES ASSUME req'[h] # req[h], engine'[s] # engine[s]
               PROVE  engine'[s] = Updated(engine[s],
                        NewSpec([req[h] EXCEPT !.snap[s] = engine[s]], s))
    OBVIOUS
  <2>1. req[h].snap[s] = engine[s]
    BY <1>1, WriterStep DEF SnapshotsCoherent
  <2>2. req[h] \in Request
    BY <1>1 DEF IInv, TypeOK
  <2>3. [req[h] EXCEPT !.snap[s] = engine[s]] = req[h]
    BY <2>1, <2>2 DEF Request
  <2> QED
    BY <1>1, <2>3, WriterStep
<1>2. IInv /\ SnapshotsCoherent /\ [Next]_vars =>
        [\A h \in Handler, s \in Service : Fresh(h, s)]_vars
  BY <1>1
<1> QED
  BY <1>2, IInvAlways, Coherent, PTL DEF Spec, NoLostUpdate

-----------------------------------------------------------------------------
\* The saved replica counts.

\* The count of each service the engine has, and of each copy a request is still
\* to work on, is one the service has had.
CopiesWereReal ==
  /\ \A s \in Live : engine[s].spec.replicas \in had[s]
  /\ \A h \in Handler : \A s \in req[h].todo : req[h].snap[s].spec.replicas \in had[s]

\* No count is forgotten.
LEMMA HadStep ==
  ASSUME IInv, [Next]_vars, NEW s \in Service
  PROVE  had[s] \subseteq had'[s]
BY DEF Next, Remember, vars

\* A copy is taken of a service that the engine has.
LEMMA TakenAlive ==
  ASSUME IInv, [Next]_vars, NEW h \in Handler, NEW s \in req'[h].todo
  PROVE  \/ s \in req[h].todo /\ req'[h].snap[s] = req[h].snap[s]
         \/ s \in Live /\ req'[h].snap[s] = engine[s]
<1> DEFINE Good == (s \in req[h].todo /\ req'[h].snap[s] = req[h].snap[s]) \/ s \in Live
<1>0. s \in Service /\ req \in [Handler -> Request] /\ req' \in [Handler -> Request]
  BY IInvStep DEF IInv, TypeOK, Request
<1>1. ASSUME NEW g \in Handler, Begin(g) PROVE Good
  <2>1. ASSUME NEW t \in Service, NEW op \in ServiceOps, NEW body \in BodySpecs,
               ReadService(g, op, t, body)
        PROVE  Good
    BY <1>0, <2>1 DEF ReadService, Idle
  <2>2. ASSUME NEW op \in StackOps, NEW st \in Stack, ReadStack(g, op, st) PROVE Good
    BY <1>0, <2>2 DEF ReadStack, Idle, Selected, InStack
  <2>3. ASSUME NEW t \in Service, NEW imgs \in Pushes, WebhookTrigger(g, t, imgs) PROVE Good
    BY <1>0, <2>3 DEF WebhookTrigger, Idle
  <2> QED
    BY <1>1, <2>1, <2>2, <2>3 DEF Begin
<1>2. ASSUME NEW g \in Handler, ReadOwn(g) PROVE Good
  BY <1>0, <1>2 DEF ReadOwn
<1>3. ASSUME NEW g \in Handler, ClearRows(g) \/ Reply(g) PROVE Good
  BY <1>0, <1>3 DEF ClearRows, Reply, Idle
<1>4. ASSUME NEW g \in Handler, LoadRows(g) PROVE Good
  <2>1. req'[h].todo = req[h].todo /\ req'[h].snap = req[h].snap
    BY <1>0, <1>4, LoadRowsStep
  <2> QED
    BY <2>1
<1>5. ASSUME NEW g \in Handler, NEW t \in Service, SaveRow(g, t) PROVE Good
  BY <1>0, <1>5 DEF SaveRow, Request
<1>6. ASSUME NEW g \in Handler, NEW t \in Service, UpdateCall(g, t) PROVE Good
  BY <1>0, <1>6 DEF UpdateCall, Request
<1>7. CASE Crash
  BY <1>0, <1>7 DEF Crash, Idle
<1>8. CASE World \/ Quiet \/ UNCHANGED vars
  BY <1>8 DEF World, ServiceCreate, ServiceDelete, DeployService, EngineTouch, Quiet, vars
<1>9. Good
  BY <1>1, <1>2, <1>3, <1>4, <1>5, <1>6, <1>7, <1>8 DEF Next, Operators, Continue
<1> QED
  BY <1>9, CopyStep

LEMMA CopiesStep ==
  ASSUME IInv, CopiesWereReal, [Next]_vars
  PROVE  CopiesWereReal'
<1>1. ASSUME NEW s \in Service, engine'[s].live
      PROVE  engine'[s].spec.replicas \in had'[s]
  <2>1. CASE Remember
    BY <2>1, <1>1 DEF Remember
  <2>2. CASE UNCHANGED vars
    BY <2>2, <1>1 DEF vars, CopiesWereReal, Live
  <2> QED
    BY <2>1, <2>2 DEF Next
<1>2. ASSUME NEW h \in Handler, NEW s \in req'[h].todo
      PROVE  req'[h].snap[s].spec.replicas \in had'[s]
  <2>1. s \in Service
    BY <1>2, IInvStep DEF IInv, TypeOK, Request
  <2> QED
    BY <1>2, <2>1, TakenAlive, HadStep DEF CopiesWereReal
<1> QED
  BY <1>1, <1>2 DEF CopiesWereReal, Live

\* What a step can put into the table, and into the rows of a request.
LEMMA SavedStep ==
  ASSUME IInv, [Next]_vars, NEW st \in Stack, NEW s \in Service
  PROVE  \/ saved'[st][s] \in {saved[st][s], NoRow}
         \/ \E h \in Handler : s \in req[h].todo
                              /\ saved'[st][s] = req[h].snap[s].spec.replicas
<1> DEFINE Good == \/ saved'[st][s] \in {saved[st][s], NoRow}
                   \/ \E h \in Handler : s \in req[h].todo
                              /\ saved'[st][s] = req[h].snap[s].spec.replicas
<1>0. saved \in [Stack -> [Service -> Row]]
  BY DEF IInv, TypeOK
<1>1. ASSUME NEW h \in Handler, NEW t \in Service, SaveRow(h, t) PROVE Good
  BY <1>0, <1>1 DEF SaveRow
<1>2. ASSUME NEW h \in Handler, ClearRows(h) PROVE Good
  BY <1>0, <1>2 DEF ClearRows, NoRows
<1>3. CASE UNCHANGED saved
  BY <1>3
<1>4. ASSUME NEW h \in Handler, Begin(h) PROVE UNCHANGED saved
  BY <1>4 DEF Begin, ReadService, ReadStack, WebhookTrigger
<1>5. ASSUME NEW h \in Handler, Continue(h), ~ClearRows(h), \A t \in Service : ~SaveRow(h, t)
      PROVE  UNCHANGED saved
  BY <1>5 DEF Continue, LoadRows, UpdateCall, ReadOwn, Reply
<1>6. World \/ Crash \/ Quiet \/ UNCHANGED vars => UNCHANGED saved
  BY DEF World, ServiceCreate, ServiceDelete, DeployService, EngineTouch, Crash, Quiet, vars
<1> QED
  BY <1>1, <1>2, <1>3, <1>4, <1>5, <1>6 DEF Next, Operators

LEMMA RowsStep ==
  ASSUME IInv, [Next]_vars, NEW h \in Handler, NEW s \in Service
  PROVE  \/ req'[h].rows[s] \in {req[h].rows[s], NoRow}
         \/ req[h].stack \in Stack /\ req'[h].rows[s] = saved[req[h].stack][s]
<1> DEFINE Good == \/ req'[h].rows[s] \in {req[h].rows[s], NoRow}
                   \/ req[h].stack \in Stack /\ req'[h].rows[s] = saved[req[h].stack][s]
<1>0. req \in [Handler -> Request]
  BY DEF IInv, TypeOK
<1>1. ASSUME NEW g \in Handler, LoadRows(g) PROVE Good
  <2>1. req[g].stack \in Stack
    BY <1>1 DEF LoadRows, IInv, RequestsChecked, Checked, StackOps
  <2> QED
    BY <1>0, <1>1, <2>1 DEF LoadRows, Request
<1>2. ASSUME NEW g \in Handler, Begin(g) PROVE Good
  <2>1. ASSUME NEW t \in Service, NEW op \in ServiceOps, NEW body \in BodySpecs,
               ReadService(g, op, t, body)
        PROVE  Good
    BY <1>0, <2>1 DEF ReadService, Idle, NoRows
  <2>2. ASSUME NEW op \in StackOps, NEW st \in Stack, ReadStack(g, op, st) PROVE Good
    BY <1>0, <2>2 DEF ReadStack, Idle, NoRows
  <2>3. ASSUME NEW t \in Service, NEW imgs \in Pushes, WebhookTrigger(g, t, imgs) PROVE Good
    BY <1>0, <2>3 DEF WebhookTrigger, Idle, NoRows
  <2> QED
    BY <1>2, <2>1, <2>2, <2>3 DEF Begin
<1>3. ASSUME NEW g \in Handler, ReadOwn(g) PROVE Good
  BY <1>0, <1>3 DEF ReadOwn, Request
<1>4. ASSUME NEW g \in Handler, ClearRows(g) \/ Reply(g) PROVE Good
  BY <1>0, <1>4 DEF ClearRows, Reply, Idle, NoRows
<1>5. ASSUME NEW g \in Handler, NEW t \in Service, SaveRow(g, t) PROVE Good
  BY <1>0, <1>5 DEF SaveRow, Request
<1>6. ASSUME NEW g \in Handler, NEW t \in Service, UpdateCall(g, t) PROVE Good
  BY <1>0, <1>6 DEF UpdateCall, Request
<1>7. CASE Crash
  BY <1>0, <1>7 DEF Crash, Idle, NoRows
<1>8. CASE World \/ Quiet \/ UNCHANGED vars
  BY <1>8 DEF World, ServiceCreate, ServiceDelete, DeployService, EngineTouch, Quiet, vars
<1> QED
  BY <1>1, <1>2, <1>3, <1>4, <1>5, <1>6, <1>7, <1>8 DEF Next, Operators, Continue

\* For any number of requests, services and stacks, every count in the table and
\* every count an activation restores is one that the service has had: stale
\* copies, dropped errors, crashes and other clients never make one up.
THEOREM CountsAreReal == Spec => []CountsWereReal
<1>1. Init => CopiesWereReal /\ CountsWereReal
  BY DEF Init, CopiesWereReal, CountsWereReal, Live, Idle, NoRows
<1>2. IInv /\ CopiesWereReal /\ [Next]_vars => CopiesWereReal'
  BY CopiesStep
<1>3. ASSUME IInv, CopiesWereReal, CountsWereReal, [Next]_vars
      PROVE  CountsWereReal'
  <2>1. ASSUME NEW st \in Stack, NEW s \in Service
        PROVE  saved'[st][s] \in had'[s] \cup {NoRow}
    BY <1>3, SavedStep, HadStep DEF CopiesWereReal, CountsWereReal
  <2>2. ASSUME NEW h \in Handler, NEW s \in Service
        PROVE  req'[h].rows[s] \in had'[s] \cup {NoRow}
    BY <1>3, RowsStep, HadStep DEF CountsWereReal
  <2> QED
    BY <2>1, <2>2 DEF CountsWereReal
<1> QED
  BY <1>1, <1>2, <1>3, IInvAlways, PTL DEF Spec

-----------------------------------------------------------------------------
\* StackActivate undisturbed.

\* A service of the request's stack that is down is still to be updated, and
\* the request's copy of it is the engine's.
StartsAll(r) ==
  \A s \in InStack(r.stack) :
    engine[s].spec.replicas # 0 \/ (s \in r.todo /\ r.snap[s] = engine[s])

Starting ==
  \A h \in calm : req[h].phase # "idle" /\ req[h].op = "activate" /\ StartsAll(req[h])

\* What StackActivate restores is at least one replica.
LEMMA ActivatedSpec ==
  ASSUME NEW r \in Request, r.op = "activate", NEW s \in Service
  PROVE  NewSpec(r, s).replicas # 0
<1>1. r.rows[s] \in Row /\ r.snap[s].spec \in ServiceSpec
  BY DEF Request, Object
<1>2. NewSpec(r, s) = SetReplicas(r.snap[s].spec, RestoredReplicas(r.rows[s]))
  BY DEF NewSpec
<1>3. RestoredReplicas(r.rows[s]) # 0
  BY <1>1 DEF RestoredReplicas, Row, NoRow
<1> QED
  BY <1>1, <1>2, <1>3 DEF SetReplicas, ServiceSpec

\* A request that was idle and no longer is has begun in this step.
LEMMA BusyStep ==
  ASSUME IInv, [Next]_vars, NEW h \in Handler, req'[h].phase # "idle"
  PROVE  \/ req[h].phase = "idle" /\ Begin(h)
         \/ req[h].phase # "idle" /\ req'[h].stack = req[h].stack
<1>0. req \in [Handler -> Request]
  BY DEF IInv, TypeOK
<1>1. ASSUME NEW g \in Handler, Begin(g)
      PROVE  req[g].phase = "idle" /\ \A k \in Handler : k # g => req'[k] = req[k]
  <2>1. PICK r \in Request : req' = [req EXCEPT ![g] = r]
    BY <1>1, BeginStep
  <2>2. req[g].phase = "idle"
    BY <1>1 DEF Begin, ReadService, ReadStack, WebhookTrigger
  <2> QED
    BY <1>0, <2>1, <2>2
<1>2. ASSUME NEW g \in Handler, Continue(g)
      PROVE  /\ req[g].phase # "idle" /\ \A k \in Handler : k # g => req'[k] = req[k]
             /\ req'[g].phase = "idle" \/ req'[g].stack = req[g].stack
  <2>1. PICK r \in Request : req' = [req EXCEPT ![g] = r]
    BY <1>2, ContinueStep
  <2>2. req[g].phase # "idle"
    BY <1>2 DEF Continue, LoadRows, SaveRow, UpdateCall, Updatable, ReadOwn, ClearRows, Reply
  <2>3. ASSUME LoadRows(g) PROVE req'[g].stack = req[g].stack
    BY <1>0, <2>3 DEF LoadRows, Request
  <2>4. ASSUME NEW s \in Service, SaveRow(g, s) \/ UpdateCall(g, s)
        PROVE  req'[g].stack = req[g].stack
    BY <1>0, <2>4 DEF SaveRow, UpdateCall, Request
  <2>5. ASSUME ReadOwn(g) PROVE req'[g].stack = req[g].stack
    BY <1>0, <2>5 DEF ReadOwn, Request
  <2>6. ASSUME ClearRows(g) \/ Reply(g) PROVE req'[g].phase = "idle"
    BY <1>0, <2>6 DEF ClearRows, Reply, Idle
  <2> QED
    BY <1>0, <1>2, <2>1, <2>2, <2>3, <2>4, <2>5, <2>6 DEF Continue
<1>3. ~Crash
  BY <1>0 DEF Crash, Idle
<1>4. World \/ Quiet \/ UNCHANGED vars => UNCHANGED req
  BY DEF World, ServiceCreate, ServiceDelete, DeployService, EngineTouch, Quiet, vars
<1> QED
  BY <1>1, <1>2, <1>3, <1>4 DEF Next, Operators

\* A request that works a service off and a change of the engine in one step are
\* an update of that request.
LEMMA OwnUpdate ==
  ASSUME IInv, [Next]_vars, NEW h \in Handler, req'[h].todo # req[h].todo, engine' # engine
  PROVE  \E s \in Service : UpdateCall(h, s)
<1>0. engine \in [Service -> Object] /\ req \in [Handler -> Request]
  BY DEF IInv, TypeOK
<1>1. ASSUME NEW g \in Handler,
             \/ Begin(g) \/ LoadRows(g) \/ ReadOwn(g) \/ ClearRows(g) \/ Reply(g)
             \/ \E t \in Service : SaveRow(g, t)
      PROVE  FALSE
  BY <1>1 DEF Begin, ReadService, ReadStack, WebhookTrigger, LoadRows, ReadOwn, ClearRows,
              Reply, SaveRow
<1>2. World \/ Crash \/ Quiet \/ UNCHANGED vars => UNCHANGED engine \/ UNCHANGED req
  BY DEF World, ServiceCreate, ServiceDelete, DeployService, EngineTouch, Crash, Quiet, vars
<1>3. PICK g \in Handler, t \in Service : UpdateCall(g, t)
  BY <1>1, <1>2 DEF Next, Operators, Continue
<1>4. g = h
  BY <1>0, <1>3 DEF UpdateCall
<1> QED
  BY <1>3, <1>4

\* A request begins with copies of every replicated service of its stack.
LEMMA BeginStarts ==
  ASSUME IInv, NEW h \in Handler, Begin(h), req'[h].op = "activate",
         req'[h].todo = Selected("activate", req'[h].stack)
  PROVE  StartsAll(req[h])'
<1>1. req \in [Handler -> Request] /\ Global \notin Int
  BY ConstantsAssumption DEF IInv, TypeOK
<1>2. ASSUME NEW s \in Service, NEW op \in ServiceOps, NEW body \in BodySpecs,
             ReadService(h, op, s, body)
      PROVE  FALSE
  BY <1>1, <1>2 DEF ReadService, Idle, ServiceOps
<1>3. ASSUME NEW s \in Service, NEW imgs \in Pushes, WebhookTrigger(h, s, imgs)
      PROVE  FALSE
  BY <1>1, <1>3 DEF WebhookTrigger, Idle
<1>4. PICK op \in StackOps, st \in Stack : ReadStack(h, op, st)
  BY <1>2, <1>3 DEF Begin
<1>5. /\ op = "activate" /\ req'[h].stack = st /\ UNCHANGED engine
      /\ req'[h].todo = Selected("activate", st)
      /\ req'[h].snap = Snapshot(Selected("activate", st))
  BY <1>1, <1>4 DEF ReadStack, Idle
<1>6. ASSUME NEW s \in InStack(st), engine[s].spec.replicas = 0
      PROVE  s \in Selected("activate", st) /\ Snapshot(Selected("activate", st))[s] = engine[s]
  <2>1. s \in Service /\ s \in Selected("activate", st)
    BY <1>1, <1>6 DEF Selected, InStack, Live
  <2> QED
    BY <2>1 DEF Snapshot
<1>7. InStack(st)' = InStack(st)
  BY <1>5 DEF InStack, Live
<1>8. \A s \in InStack(st)' :
        engine'[s].spec.replicas # 0 \/ (s \in req'[h].todo /\ req'[h].snap[s] = engine'[s])
  BY <1>5, <1>6, <1>7
<1> QED
  BY <1>5, <1>8 DEF StartsAll, InStack, Live

\* An update that was taken leaves the service it was about running.
LEMMA UpdateStarts ==
  ASSUME IInv, NEW h \in Handler, NEW s \in Service, UpdateCall(h, s), engine' # engine,
         req[h].op = "activate", StartsAll(req[h])
  PROVE  StartsAll(req[h])'
<1>1. req \in [Handler -> Request] /\ engine \in [Service -> Object] /\ req[h] \in Request
  BY DEF IInv, TypeOK
<1>2. /\ req'[h].stack = req[h].stack
      /\ req'[h].todo = req[h].todo \ {s} /\ req'[h].snap = req[h].snap
  BY <1>1 DEF UpdateCall, Request
<1>3. engine' = [engine EXCEPT ![s] = Updated(engine[s], NewSpec(req[h], s))]
  BY DEF UpdateCall
<1>4. engine'[s].spec.replicas # 0
  BY <1>1, <1>3, ActivatedSpec DEF Updated
<1>5. \A t \in Service : t # s => engine'[t] = engine[t]
  BY <1>1, <1>3
<1>6. \A t \in InStack(req[h].stack)' :
        engine'[t].spec.replicas # 0 \/ (t \in req'[h].todo /\ req'[h].snap[t] = engine'[t])
  BY <1>2, <1>4, <1>5 DEF StartsAll, InStack, Live
<1> QED
  BY <1>2, <1>6 DEF StartsAll, InStack, Live

LEMMA StartingStep ==
  ASSUME IInv, Starting, [Next]_vars
  PROVE  Starting'
<1>1. CASE UNCHANGED vars
  BY <1>1 DEF vars, Starting, StartsAll, InStack, Live
<1>2. CASE Remember
  <2> SUFFICES ASSUME NEW h \in Handler, Undisturbed(h) PROVE StartsAll(req[h])'
    BY <1>2 DEF Remember, Undisturbed, Starting
  <2>1. CASE req[h].phase = "idle" /\ req'[h].todo = Selected("activate", req'[h].stack)
    BY <2>1, BusyStep, BeginStarts DEF Undisturbed
  <2>2. CASE h \in calm /\ engine' = engine /\ req'[h].todo = req[h].todo
    <3>1. StartsAll(req[h]) /\ req'[h].stack = req[h].stack
      BY <2>2, BusyStep DEF Starting, Undisturbed
    <3>2. \A s \in req'[h].todo :
            req'[h].snap[s] = req[h].snap[s] \/ req'[h].snap[s] = engine[s]
      BY CopyStep
    <3>3. \A s \in InStack(req[h].stack) :
            engine[s].spec.replicas # 0 \/ (s \in req'[h].todo /\ req'[h].snap[s] = engine[s])
      BY <2>2, <3>1, <3>2 DEF StartsAll
    <3> QED
      BY <2>2, <3>1, <3>3 DEF StartsAll, InStack, Live
  <2>3. CASE h \in calm /\ engine' # engine /\ req'[h].todo # req[h].todo
    BY <2>3, OwnUpdate, UpdateStarts DEF Starting
  <2> QED
    BY <2>1, <2>2, <2>3 DEF Undisturbed
<1> QED
  BY <1>1, <1>2 DEF Next

\* For any number of requests, services and stacks: an activation none of whose
\* calls failed, and under which nobody else changed a service, drops the saved
\* counts only when every replicated service of the stack runs.
THEOREM ActivatedStackRuns == Spec => []ActivateStartsAll
<1>1. Init => Starting
  BY DEF Init, Starting
<1>2. IInv /\ Starting /\ [Next]_vars => Starting'
  BY StartingStep
<1>3. Starting => ActivateStartsAll
  BY DEF Starting, StartsAll, ActivateStartsAll
<1> QED
  BY <1>1, <1>2, <1>3, IInvAlways, PTL DEF Spec

-----------------------------------------------------------------------------
\* Deployments implements AtomicEdits.

Services == [s \in Service |-> Visible(engine[s])]

\* What a handler writes is an edit of the copy it holds.
LEMMA WritesAreEdits ==
  ASSUME IInv, NEW h \in Handler, NEW s \in req[h].todo, req[h].snap[s] = engine[s]
  PROVE  Abstract!IsEdit(Visible(engine[s]), NewSpec(req[h], s))
<1> DEFINE r == req[h]
           o == engine[s]
           v == Visible(o)
<1>1. /\ s \in Service /\ o \in Object /\ r \in Request /\ Checked(r)
      /\ o.spec \in ServiceSpec
  BY DEF IInv, TypeOK, Request, RequestsChecked, Object
<1>2. v.spec = o.spec /\ v.prev = o.prev
  BY DEF Visible
<1>3. CASE r.op \in {"redeploy", "stackRedeploy", "webhook"}
  BY <1>2, <1>3 DEF NewSpec, BumpForce, Abstract!IsEdit
<1>4. CASE r.op \in {"rollback", "stackRollback"}
  BY <1>1, <1>2, <1>4 DEF NewSpec, Checked, Abstract!IsEdit
<1>5. ASSUME NEW n \in Nat, o.spec.replicas # Global
      PROVE  Abstract!IsEdit(v, SetReplicas(o.spec, n))
  <2>1. SetReplicas(o.spec, n).replicas = n
    BY <1>1 DEF SetReplicas, ServiceSpec
  <2> QED
    BY <1>2, <1>5, <2>1 DEF SetReplicas, Abstract!IsEdit
<1>6. CASE r.op \in {"stop", "deactivate"}
  BY <1>1, <1>5, <1>6 DEF NewSpec, Checked
<1>7. CASE r.op = "activate"
  <2>1. RestoredReplicas(r.rows[s]) \in Nat
    BY <1>1 DEF RestoredReplicas, Request, Row, NoRow
  <2> QED
    BY <1>1, <1>5, <1>7, <2>1 DEF NewSpec, Checked
<1>8. CASE r.op = "update"
  BY <1>1, <1>2, <1>8 DEF NewSpec, Checked, Abstract!IsEdit
<1> QED
  BY <1>1, <1>3, <1>4, <1>6, <1>7, <1>8 DEF Request, ServiceOps, StackOps, Checked

LEMMA AbstractInit == Init => Abstract!Init
<1> SUFFICES ASSUME Init PROVE Abstract!Init
  OBVIOUS
<1>1. ASSUME NEW s \in Service
      PROVE  Visible(engine[s]) \in
               [state : {"none", "live"}, spec : InitSpecs, prev : {NoSpec}]
  BY BlankSpecType DEF Init, Visible, Unused
<1> QED
  BY <1>1 DEF Abstract!Init

\* One service changes from o to n in what the clients see.
LEMMA OneService ==
  ASSUME IInv, NEW s \in Service, NEW n, engine' = [engine EXCEPT ![s] = n]
  PROVE  Services' = [Services EXCEPT ![s] = Visible(n)]
BY DEF Services, IInv, TypeOK

\* A service that is there has been given a version.
LiveVersioned == \A s \in Service : engine[s].live => engine[s].ver # 0

LEMMA LiveVersionedStep == IInv /\ LiveVersioned /\ [Next]_vars => LiveVersioned'
<1> SUFFICES ASSUME IInv, LiveVersioned, [Next]_vars, NEW s \in Service, engine'[s].live
             PROVE  engine'[s].ver # 0
  BY DEF LiveVersioned
<1>1. engine[s].ver \in Nat /\ engine'[s].ver \in Nat
  BY IInvStep DEF IInv, TypeOK, Object
<1> QED
  BY <1>1, EngineStep DEF LiveVersioned

\* The visible part of an object in each of its three states.
LEMMA VisibleAs ==
  ASSUME NEW o \in Object
  PROVE  /\ o.live => Visible(o) = [state |-> "live", spec |-> o.spec, prev |-> o.prev]
         /\ ~o.live /\ o.ver = 0 =>
              Visible(o) = [state |-> "none", spec |-> o.spec, prev |-> o.prev]
         /\ ~o.live /\ o.ver # 0 =>
              Visible(o) = [state |-> "gone", spec |-> o.spec, prev |-> o.prev]
BY DEF Visible

\* The abstract actions, said of what is visible.
LEMMA CreateVisible ==
  ASSUME NEW s \in Service, NEW b \in BodySpecs, Services[s].state = "none",
         Services' = [Services EXCEPT ![s] =
           [state |-> "live", spec |-> b, prev |-> NoSpec]]
  PROVE  Abstract!Create(s, b)
BY DEF Services, Abstract!Create

LEMMA EditVisible ==
  ASSUME NEW s \in Service, Services[s].state = "live",
         Abstract!IsEdit(Services[s], Services'[s].spec),
         Services' = [Services EXCEPT ![s] =
           [state |-> "live", spec |-> Services'[s].spec, prev |-> Services[s].spec]]
  PROVE  Abstract!Edit(s)
BY DEF Services, Abstract!Edit

LEMMA RemoveVisible ==
  ASSUME NEW s \in Service, Services[s].state = "live",
         Services' = [Services EXCEPT ![s] =
           [state |-> "gone", spec |-> Services[s].spec, prev |-> Services[s].prev]]
  PROVE  Abstract!Remove(s)
BY DEF Services, Abstract!Remove

LEMMA OneVisible ==
  ASSUME NEW s \in Service,
         \/ \E b \in BodySpecs : Abstract!Create(s, b)
         \/ Abstract!Edit(s)
         \/ Abstract!Remove(s)
  PROVE  [Abstract!Next]_Services
<1>1. CASE Services' # Services
  BY <1>1 DEF Services, Abstract!Next
<1>2. CASE Services' = Services
  BY <1>2
<1> QED
  BY <1>1, <1>2

LEMMA AbstractStep ==
  ASSUME IInv, SnapshotsCoherent, LiveVersioned, [Next]_vars
  PROVE  [Abstract!Next]_Services
<1>0. engine \in [Service -> Object] /\ RequestsChecked
  BY DEF IInv, TypeOK
<1>1. ASSUME NEW s \in Service, NEW n \in ServiceSpec, engine[s].live,
             engine' = [engine EXCEPT ![s] = Updated(engine[s], n)],
             Abstract!IsEdit(Visible(engine[s]), n)
      PROVE  Abstract!Edit(s)
  <2> DEFINE new == [state |-> "live", spec |-> n, prev |-> engine[s].spec]
  <2>1. Visible(Updated(engine[s], n)) = new
    BY DEF Visible, Updated
  <2>2. Services' = [Services EXCEPT ![s] = new]
    BY <1>1, <2>1, OneService
  <2>3. Services[s] = [state |-> "live", spec |-> engine[s].spec, prev |-> engine[s].prev]
    BY <1>0, <1>1, VisibleAs DEF Services
  <2>4. Services \in [Service -> {Services[t] : t \in Service}]
    BY DEF Services
  <2> HIDE DEF Services
  <2>5. Services'[s] = new
    BY <2>2, <2>4
  <2>6. Abstract!IsEdit(Services[s], Services'[s].spec)
    BY <1>1, <2>5 DEF Services
  <2> QED
    <3>1. Services[s].state = "live"
      BY <2>3
    <3>2. Services' = [Services EXCEPT ![s] =
            [state |-> "live", spec |-> Services'[s].spec, prev |-> Services[s].spec]]
      <4>1. new = [state |-> "live", spec |-> Services'[s].spec, prev |-> Services[s].spec]
        BY <2>3, <2>5
      <4> HIDE DEF new
      <4> QED
        BY <2>2, <4>1
    <3> QED
      BY <2>6, <3>1, <3>2, EditVisible
<1>2. ASSUME NEW h \in Handler, NEW s \in Service, UpdateCall(h, s)
      PROVE  [Abstract!Next]_Services
  <2>1. CASE UNCHANGED engine
    BY <2>1 DEF Services
  <2>2. CASE engine' # engine
    <3>1. s \in req[h].todo /\ Accepts(s, req[h].snap[s].ver)
          /\ engine' = [engine EXCEPT ![s] = Updated(engine[s], NewSpec(req[h], s))]
      BY <1>0, <1>2, <2>2 DEF UpdateCall, Updatable, RequestsChecked, Checked
    <3>2. Abstract!Edit(s)
      BY <1>1, <3>1, NewSpecType, WritesAreEdits DEF SnapshotsCoherent, Accepts
    <3> QED
      BY <3>2, OneVisible
  <2> QED
    BY <2>1, <2>2
<1>3. ASSUME NEW s \in Service, NEW spec \in BodySpecs, ServiceCreate(s, spec)
      PROVE  Abstract!Create(s, spec)
  <2> DEFINE new == [live |-> TRUE, ver |-> 1, spec |-> spec, prev |-> NoSpec]
  <2>1. Visible(new) = [state |-> "live", spec |-> spec, prev |-> NoSpec]
    BY DEF Visible
  <2>2. Services' = [Services EXCEPT ![s] = Visible(new)]
    BY <1>3, OneService DEF ServiceCreate
  <2>3. Services[s] = [state |-> "none", spec |-> engine[s].spec, prev |-> engine[s].prev]
    BY <1>0, <1>3, VisibleAs DEF Services, LiveVersioned, ServiceCreate
  <2> QED
    <3>1. Services[s].state = "none"
      BY <2>3
    <3>2. Services' = [Services EXCEPT ![s] = [state |-> "live", spec |-> spec, prev |-> NoSpec]]
      BY <2>1, <2>2
    <3> QED
      BY <3>1, <3>2, CreateVisible
<1>4. ASSUME NEW s \in Service, ServiceDelete(s)
      PROVE  Abstract!Remove(s)
  <2> DEFINE new == [engine[s] EXCEPT !.live = FALSE]
             gone == [state |-> "gone", spec |-> engine[s].spec, prev |-> engine[s].prev]
  <2>1. engine[s] \in Object /\ engine[s].live /\ engine[s].ver # 0
    BY <1>0, <1>4 DEF ServiceDelete, Live, LiveVersioned
  <2>2. engine' = [engine EXCEPT ![s] = new]
    BY <1>4 DEF ServiceDelete
  <2>3. Visible(new) = gone
    BY <2>1 DEF Visible, Object
  <2>4. Services' = [Services EXCEPT ![s] = gone]
    BY <2>2, <2>3, OneService
  <2>5. Services[s] = [state |-> "live", spec |-> engine[s].spec, prev |-> engine[s].prev]
    BY <2>1, VisibleAs DEF Services
  <2> QED
    <3>1. Services[s].state = "live"
      BY <2>5
    <3>2. Services' = [Services EXCEPT ![s] =
            [state |-> "gone", spec |-> Services[s].spec, prev |-> Services[s].prev]]
      BY <2>4, <2>5
    <3> QED
      BY <3>1, <3>2, RemoveVisible
<1>5. ASSUME NEW s \in Service, NEW spec \in BodySpecs, DeployService(s, spec)
      PROVE  Abstract!Edit(s)
  <2>1. spec \in ServiceSpec
    BY ConstantsAssumption
  <2>2. Abstract!IsEdit(Visible(engine[s]), spec)
    BY <1>5 DEF DeployService, Visible, Abstract!IsEdit
  <2> QED
    BY <1>1, <1>5, <2>1, <2>2 DEF DeployService, Live
<1>6. ASSUME NEW s \in Service, EngineTouch(s)
      PROVE  UNCHANGED Services
  <2> DEFINE new == [engine[s] EXCEPT !.ver = @ + 1]
  <2>1. engine[s] \in Object /\ engine[s].live
    BY <1>0, <1>6 DEF EngineTouch, Live
  <2>2. engine' = [engine EXCEPT ![s] = new]
    BY <1>6 DEF EngineTouch
  <2>3. Visible(new) = Visible(engine[s])
    BY <2>1 DEF Visible, Object
  <2>4. Services' = [Services EXCEPT ![s] = Services[s]]
    BY <2>2, <2>3, OneService DEF Services
  <2> QED
    BY <2>4 DEF Services
<1>7. CASE World
  BY <1>3, <1>4, <1>5, <1>6, <1>7, OneVisible DEF World
<1>8. ASSUME NEW h \in Handler,
             \/ Begin(h) \/ LoadRows(h) \/ ReadOwn(h) \/ ClearRows(h) \/ Reply(h)
             \/ \E t \in Service : SaveRow(h, t)
      PROVE  UNCHANGED engine
  BY <1>8 DEF Begin, ReadService, ReadStack, WebhookTrigger, LoadRows, ReadOwn,
              ClearRows, Reply, SaveRow
<1>9. Crash \/ Quiet \/ UNCHANGED vars => UNCHANGED engine
  BY DEF Crash, Quiet, vars
<1>10. CASE UNCHANGED engine
  BY <1>10 DEF Services
<1> QED
  BY <1>2, <1>7, <1>8, <1>9, <1>10 DEF Next, Operators, Continue

\* To someone who sees only the services, the handlers edit them atomically,
\* one service at a time, from what they are at that moment.
THEOREM Refinement == Spec => EditsAreAtomic
<1>1. Init => LiveVersioned
  BY DEF Init, LiveVersioned, Unused
<1>2. IInv /\ SnapshotsCoherent /\ LiveVersioned /\ [Next]_vars => [Abstract!Next]_Services
  BY AbstractStep
<1> QED
  BY <1>1, <1>2, LiveVersionedStep, AbstractInit, IInvAlways, Coherent, PTL
     DEF Spec, EditsAreAtomic, Abstract!Spec, Services

=============================================================================
