----------------------------- MODULE GitOpsProofs -----------------------------
(***************************************************************************)
(* Theorems about GitOps, for any number of git stacks and goroutines.     *)
(***************************************************************************)
EXTENDS GitOps, TLAPS

\* The hashes a row of a stack may hold.
Known(st) == {NoHash} \cup {fileHash(c) : c \in ever[st]}

\* A goroutine knows of its row what the row was when it was copied.
ProcOK(p) ==
  LET r == proc[p] IN
  /\ r.hash \in Known(r.stack)
  /\ r.phase = "deploy" => r.spec \in Content /\ r.out = fileHash(r.spec)
  /\ r.phase = "record" => r.out \in Known(r.stack)
  /\ r.phase # "idle" => rows[r.id].state # "never" /\ rows[r.id].stack = r.stack

RowOK(id) == rows[id].hash \in Known(rows[id].stack)

GInv == TypeOK /\ (\A p \in Proc : ProcOK(p)) /\ (\A id \in Id : RowOK(id))

-----------------------------------------------------------------------------
LEMMA HashType ==
  /\ \A c \in Content : fileHash(c) \in Hashes
  /\ NoHash \in Hashes
BY DEF Hashes

LEMMA SomeType == SomeSource \in Source /\ SomeStack \in Stack /\ SomeId \in Id
BY GitAssumption DEF SomeSource, SomeStack, SomeId

LEMMA IdleType == Idle \in Process /\ Idle.phase = "idle" /\ Idle.hash = NoHash
BY SomeType, HashType DEF Idle, Copy, Process, File

LEMMA TypeInit == Init => TypeOK
<1> SUFFICES ASSUME Init PROVE TypeOK
  OBVIOUS
<1>1. head \in [Source -> File]
  BY DEF Init, File
<1>2. rows \in [Id -> GitStack] /\ checkout \in [Id -> Checkout]
  BY SomeType, HashType DEF Init, GitStack, Checkout, File
<1>3. proc \in [Proc -> Process] /\ \A p \in Proc : proc[p].phase # "deploy"
  BY IdleType DEF Init
<1> QED
  BY <1>1, <1>2, <1>3 DEF Init, TypeOK

\* The steps of a goroutine keep the types of the rows, checkouts and goroutines.
LEMMA TypeGo ==
  ASSUME TypeOK, NEW p \in Proc, Go(p)
  PROVE  TypeOK'
<1> DEFINE id == proc[p].id
<1>0. /\ proc[p] \in Process /\ id \in Id /\ checkout[id] \in Checkout
      /\ proc[p].source \in Source /\ proc[p].stack \in Stack /\ proc[p].hash \in Hashes
      /\ checkout[id].tip \in File /\ checkout[id].tree \in File
      /\ head[proc[p].source] \in File
  BY DEF TypeOK, Process, Checkout
<1>1. ASSUME NEW phase \in {"idle", "stat", "clone", "cloning", "fetch", "reset", "read",
                            "record", "rmdir", "rmrow"},
             Goto(p, phase)
      PROVE  /\ proc' \in [Proc -> Process]
             /\ \A q \in Proc : proc'[q].phase = "deploy" => proc'[q].spec \in Content
  BY <1>0, <1>1 DEF Goto, TypeOK, Process
<1>2. ASSUME Fail(p)
      PROVE  /\ proc' \in [Proc -> Process]
             /\ \A q \in Proc : proc'[q].phase = "deploy" => proc'[q].spec \in Content
  BY <1>0, <1>2 DEF Fail, TypeOK, Process
<1>13. ASSUME Finish(p)
      PROVE  /\ proc' \in [Proc -> Process]
             /\ \A q \in Proc : proc'[q].phase = "deploy" => proc'[q].spec \in Content
  BY <1>13, IdleType DEF Finish, TypeOK
<1>3. ASSUME RemoveAll(id) PROVE checkout' \in [Id -> Checkout]
  <2>1. Gone(id) \in Checkout
    BY <1>0 DEF Gone, Checkout, File
  <2> QED
    BY <1>3, <2>1 DEF RemoveAll, TypeOK
<1>4. CASE Stat(p)
  BY <1>1, <1>4 DEF Stat, TypeOK
<1>5. CASE CloneStart(p)
  <2>1. [dir |-> "cloning", origin |-> proc[p].source, tip |-> NoFile, tree |-> NoFile]
          \in Checkout
    BY <1>0 DEF Checkout, File
  <2> QED
    BY <1>1, <1>2, <1>3, <1>5, <2>1 DEF CloneStart, TypeOK
<1>6. CASE CloneEnd(p)
  <2>1. [dir |-> "ready", origin |-> proc[p].source,
         tip |-> head[proc[p].source], tree |-> head[proc[p].source]] \in Checkout
    BY <1>0 DEF Checkout
  <2>2. Gone(id) \in Checkout
    BY <1>0 DEF Gone, Checkout, File
  <2> QED
    BY <1>1, <1>2, <1>3, <1>6, <2>1, <2>2 DEF CloneEnd, TypeOK, Budget
<1>7. CASE Fetch(p)
  <2>1. ASSUME NEW f \in File PROVE [checkout[id] EXCEPT !.tip = f] \in Checkout
    BY <1>0 DEF Checkout
  <2>2. checkout[id].origin \in Source
    BY <1>0 DEF Checkout
  <2>3. head[checkout[id].origin] \in File
    BY <2>2 DEF TypeOK
  <2>4. checkout' \in [Id -> Checkout]
    BY <1>0, <1>7, <2>1, <2>3 DEF Fetch, TypeOK
  <2>5. Goto(p, "reset") \/ Fail(p)
    BY <1>7 DEF Fetch
  <2>6. work' \in Nat
    BY <1>7 DEF Fetch, TypeOK, Budget
  <2>7. UNCHANGED <<head, rows, deployed, ever>>
    BY <1>7 DEF Fetch
  <2> QED
    BY <1>1, <1>2, <2>4, <2>5, <2>6, <2>7 DEF TypeOK
<1>8. CASE Reset(p)
  <2>1. ASSUME NEW f \in File PROVE [checkout[id] EXCEPT !.tree = f] \in Checkout
    BY <1>0 DEF Checkout
  <2>2. checkout' \in [Id -> Checkout]
    BY <1>0, <1>8, <2>1 DEF Reset, TypeOK
  <2>5. Goto(p, "read") \/ Fail(p)
    BY <1>8 DEF Reset
  <2>6. work' \in Nat
    BY <1>8 DEF Reset, TypeOK, Budget
  <2>7. UNCHANGED <<head, rows, deployed, ever>>
    BY <1>8 DEF Reset
  <2> QED
    BY <1>1, <1>2, <2>2, <2>5, <2>6, <2>7 DEF TypeOK
<1>9. CASE Read(p)
  <2>1. CASE checkout[id].tree = NoFile
    BY <1>2, <1>9, <2>1 DEF Read, TypeOK
  <2>2. CASE checkout[id].tree # NoFile
    <3>1. checkout[id].tree \in Content /\ fileHash(checkout[id].tree) \in Hashes
      BY <1>0, <2>2, HashType DEF File
    <3> QED
      BY <1>0, <1>9, <2>2, <3>1 DEF Read, TypeOK, Process
  <2> QED
    BY <2>1, <2>2
<1>10. CASE Deploy(p)
  <2>1. proc[p].spec \in Content
    BY <1>10 DEF Deploy, TypeOK
  <2>2. /\ deployed' \in [Stack -> Content \cup {Nothing}]
        /\ ever' \in [Stack -> SUBSET Content]
    BY <1>0, <1>10, <2>1 DEF Deploy, Deployment, TypeOK
  <2> QED
    BY <1>1, <1>2, <1>10, <2>2 DEF Deploy, TypeOK, Budget
<1>11. CASE Record(p)
  <2>1. ASSUME NEW i \in Id, NEW h \in Hashes
        PROVE  [rows[i] EXCEPT !.hash = h] \in GitStack
    BY DEF TypeOK, GitStack
  <2>2. proc[p].out \in Hashes
    BY <1>0 DEF Process
  <2>3. rows' \in [Id -> GitStack]
    BY <1>0, <1>11, <2>1, <2>2 DEF Record, TypeOK
  <2>4. work' \in Nat
    BY <1>11 DEF Record, TypeOK, Budget
  <2> QED
    BY <1>11, <1>13, <2>3, <2>4 DEF Record, TypeOK
<1>12. CASE RemoveDir(p)
  BY <1>1, <1>3, <1>12 DEF RemoveDir, TypeOK
<1>14. CASE DeleteRow(p)
  <2>1. [rows[id] EXCEPT !.state = "gone"] \in GitStack
    BY <1>0 DEF TypeOK, GitStack
  <2>2. rows' \in [Id -> GitStack]
    BY <1>0, <1>14, <2>1 DEF DeleteRow, TypeOK
  <2> QED
    BY <1>13, <1>14, <2>2 DEF DeleteRow, TypeOK
<1> QED
  BY <1>4, <1>5, <1>6, <1>7, <1>8, <1>9, <1>10, <1>11, <1>12, <1>14 DEF Go

\* So do the steps that begin work, and the rest of the world.
LEMMA TypeBegin ==
  ASSUME TypeOK, NEW p \in Proc, NEW id \in Id, NEW phase \in {"stat", "rmdir"},
         Begin(p, id, phase), work' \in Nat
  PROVE  TypeOK'
<1>1. rows[id] \in GitStack
  BY DEF TypeOK
<1>2. Copy(phase, id, rows[id]) \in Process /\ Copy(phase, id, rows[id]).phase # "deploy"
  BY <1>1, HashType DEF Copy, Process, GitStack, File
<1>3. /\ proc' \in [Proc -> Process]
      /\ \A q \in Proc : proc'[q].phase = "deploy" => proc'[q].spec \in Content
  BY <1>2 DEF Begin, TypeOK
<1> QED
  BY <1>3 DEF Begin, TypeOK

LEMMA TypeCreate ==
  ASSUME TypeOK, NEW p \in Proc, NEW id \in Id, NEW stack \in Stack,
         NEW source \in Source, NEW auto \in BOOLEAN,
         GitStackCreate(p, id, stack, source, auto)
  PROVE  TypeOK'
<1> DEFINE row == [state |-> "there", stack |-> stack, source |-> source, auto |-> auto,
                   enabled |-> TRUE, hash |-> NoHash]
<1>1. row \in GitStack
  BY HashType DEF GitStack
<1>2. Copy("stat", id, row) \in Process /\ Copy("stat", id, row).phase # "deploy"
  BY HashType DEF Copy, Process, File
<1>3. /\ rows' = [rows EXCEPT ![id] = row]
      /\ proc' = [proc EXCEPT ![p] = Copy("stat", id, row)]
      /\ work' \in Nat
      /\ UNCHANGED <<head, checkout, deployed, ever>>
  BY DEF GitStackCreate, Budget, TypeOK
<1> HIDE DEF row
<1>4. /\ proc' \in [Proc -> Process]
      /\ \A q \in Proc : proc'[q].phase = "deploy" => proc'[q].spec \in Content
  BY <1>2, <1>3 DEF TypeOK
<1> QED
  BY <1>1, <1>3, <1>4 DEF TypeOK

LEMMA TypeWorld == TypeOK /\ World => TypeOK'
<1> SUFFICES ASSUME TypeOK, World PROVE TypeOK'
  OBVIOUS
<1>1. ASSUME NEW id \in Id, NEW source \in Source, NEW auto \in BOOLEAN,
             NEW enabled \in BOOLEAN, GitStackUpdate(id, source, auto, enabled)
      PROVE  TypeOK'
  <2>1. [rows[id] EXCEPT !.source = source, !.auto = auto, !.enabled = enabled] \in GitStack
    BY DEF TypeOK, GitStack
  <2>2. rows' \in [Id -> GitStack]
    BY <1>1, <2>1 DEF GitStackUpdate, TypeOK
  <2> QED
    BY <1>1, <2>2 DEF GitStackUpdate, TypeOK, Budget
<1>2. ASSUME NEW source \in Source, NEW file \in File, Push(source, file)
      PROVE  TypeOK'
  BY <1>2 DEF Push, TypeOK, Budget
<1>3. CASE Crash
  <2>2. /\ proc' \in [Proc -> Process]
        /\ \A q \in Proc : proc'[q].phase # "deploy"
    BY <1>3, IdleType DEF Crash
  <2>3. ASSUME NEW id \in Id PROVE Gone(id) \in Checkout
    BY DEF Gone, Checkout, File, TypeOK
  <2>4. checkout' \in [Id -> Checkout]
    BY <1>3, <2>3 DEF Crash, TypeOK
  <2> QED
    BY <1>3, <2>2, <2>4 DEF Crash, TypeOK, Budget
<1>4. CASE Quiet
  BY <1>4 DEF Quiet, vars, TypeOK
<1>5. ASSUME NEW stack \in Stack, NEW content \in Content \cup {Nothing},
             OtherDeployment(stack, content)
      PROVE  TypeOK'
  BY <1>5 DEF OtherDeployment, TypeOK, Budget
<1> QED
  BY <1>1, <1>2, <1>3, <1>4, <1>5 DEF World

LEMMA TypeStep == TypeOK /\ [Next]_vars => TypeOK'
<1> SUFFICES ASSUME TypeOK, [Next]_vars PROVE TypeOK'
  OBVIOUS
<1>1. ASSUME NEW p \in Proc, Start(p) PROVE TypeOK'
  <2>1. PICK id \in Id :
          \/ \E stack \in Stack, source \in Source, auto \in BOOLEAN :
               GitStackCreate(p, id, stack, source, auto)
          \/ GitStackSync(p, id) \/ GitWebhookHandler(p, id) \/ GitStackDelete(p, id)
    BY <1>1 DEF Start
  <2>2. Budget => work' \in Nat
    BY DEF Budget, TypeOK
  <2>3. CASE GitStackSync(p, id)
    BY <2>2, <2>3, TypeBegin DEF GitStackSync
  <2>4. CASE GitWebhookHandler(p, id)
    BY <2>2, <2>4, TypeBegin DEF GitWebhookHandler
  <2>5. CASE GitStackDelete(p, id)
    BY <2>2, <2>5, TypeBegin DEF GitStackDelete
  <2> QED
    BY <2>1, <2>3, <2>4, <2>5, TypeCreate
<1>2. ASSUME NEW p \in Proc, NEW id \in Id, Scheduled(p, id) PROVE TypeOK'
  <2>1. work' \in Nat
    BY <1>2 DEF Scheduled, TypeOK
  <2> QED
    BY <1>2, <2>1, TypeBegin DEF Scheduled
<1>3. CASE UNCHANGED vars
  BY <1>3 DEF vars, TypeOK
<1> QED
  BY <1>1, <1>2, <1>3, TypeGo, TypeWorld DEF Next

\* Types hold in every reachable state: the table, the checkouts and the
\* goroutines of gitops.go never hold a value of another kind, and a goroutine
\* that is about to deploy has read a compose file.
THEOREM TypeCorrect == Spec => []TypeOK
  BY TypeInit, TypeStep, PTL DEF Spec

-----------------------------------------------------------------------------
\* What a step may do to the history and to a row's identity.

\* Nothing that was deployed is forgotten.
LEMMA EverGrows ==
  ASSUME TypeOK, [Next]_vars
  PROVE  \A st \in Stack : ever[st] \subseteq ever'[st]
<1>1. ASSUME NEW p \in Proc, Go(p) PROVE UNCHANGED ever \/ Deployment(proc[p].stack, proc[p].spec)
  BY <1>1 DEF Go, Stat, CloneStart, CloneEnd, Fetch, Reset, Read, Deploy, Record,
              RemoveDir, DeleteRow
<1>2. ASSUME NEW p \in Proc, Start(p) PROVE UNCHANGED ever
  BY <1>2 DEF Start, GitStackCreate, GitStackSync, GitWebhookHandler, GitStackDelete, Begin
<1>3. ASSUME NEW p \in Proc, NEW id \in Id, Scheduled(p, id) PROVE UNCHANGED ever
  BY <1>3 DEF Scheduled, Begin
<1>4. World \/ UNCHANGED vars => UNCHANGED ever
  BY DEF World, GitStackUpdate, Push, OtherDeployment, Crash, Quiet, vars
<1>5. UNCHANGED ever \/ \E p \in Proc : Deployment(proc[p].stack, proc[p].spec)
  BY <1>1, <1>2, <1>3, <1>4 DEF Next
<1> QED
  BY <1>5 DEF Deployment, TypeOK

\* A row that was created keeps its name, even after its deletion.
LEMMA RowsKept ==
  ASSUME TypeOK, [Next]_vars
  PROVE  \A id \in Id : rows[id].state # "never" =>
           rows'[id].state # "never" /\ rows'[id].stack = rows[id].stack
<1> SUFFICES ASSUME NEW id \in Id, rows[id].state # "never"
             PROVE  rows'[id].state # "never" /\ rows'[id].stack = rows[id].stack
  OBVIOUS
<1>0. rows \in [Id -> GitStack]
  BY DEF TypeOK
<1>1. ASSUME NEW p \in Proc, Go(p)
      PROVE  rows'[id].state # "never" /\ rows'[id].stack = rows[id].stack
  <2>1. CASE Record(p)
    BY <1>0, <2>1 DEF Record, GitStack
  <2>2. CASE DeleteRow(p)
    BY <1>0, <2>2 DEF DeleteRow, GitStack
  <2>3. CASE ~Record(p) /\ ~DeleteRow(p)
    BY <1>1, <2>3 DEF Go, Stat, CloneStart, CloneEnd, Fetch, Reset, Read, Deploy, RemoveDir
  <2> QED
    BY <2>1, <2>2, <2>3
<1>2. ASSUME NEW p \in Proc, Start(p)
      PROVE  rows'[id].state # "never" /\ rows'[id].stack = rows[id].stack
  BY <1>0, <1>2 DEF Start, GitStackCreate, GitStackSync, GitWebhookHandler, GitStackDelete, Begin
<1>3. ASSUME NEW p \in Proc, NEW i \in Id, Scheduled(p, i) PROVE UNCHANGED rows
  BY <1>3 DEF Scheduled, Begin
<1>4. ASSUME NEW i \in Id, NEW source \in Source, NEW auto \in BOOLEAN,
             NEW enabled \in BOOLEAN, GitStackUpdate(i, source, auto, enabled)
      PROVE  rows'[id].state # "never" /\ rows'[id].stack = rows[id].stack
  BY <1>0, <1>4 DEF GitStackUpdate, GitStack
<1>5. Crash \/ Quiet \/ UNCHANGED vars => UNCHANGED rows
  BY DEF Crash, Quiet, vars
<1>6. ASSUME NEW source \in Source, NEW file \in File, Push(source, file) PROVE UNCHANGED rows
  BY <1>6 DEF Push
<1>7. ASSUME NEW stack \in Stack, NEW content \in Content \cup {Nothing},
             OtherDeployment(stack, content)
      PROVE  UNCHANGED rows
  BY <1>7 DEF OtherDeployment
<1> QED
  BY <1>1, <1>2, <1>3, <1>4, <1>5, <1>6, <1>7 DEF Next, World

-----------------------------------------------------------------------------
\* GInv.

LEMMA GInit == Init => GInv
<1> SUFFICES ASSUME Init PROVE GInv
  OBVIOUS
<1>1. TypeOK
  BY TypeInit
<1>2. ASSUME NEW p \in Proc PROVE ProcOK(p)
  BY <1>2, IdleType DEF Init, ProcOK, Known
<1>3. ASSUME NEW id \in Id PROVE RowOK(id)
  BY <1>3 DEF Init, RowOK, Known
<1> QED
  BY <1>1, <1>2, <1>3 DEF GInv

\* A goroutine that does not move knows what it knew.
LEMMA OtherProcs ==
  ASSUME TypeOK, [Next]_vars, NEW q \in Proc, ProcOK(q), proc'[q] = proc[q]
  PROVE  ProcOK(q)'
<1> DEFINE r == proc[q]
<1>1. r \in Process
  BY DEF TypeOK
<1>2. Known(r.stack) \subseteq Known(r.stack)'
  BY <1>1, EverGrows DEF Known, Process
<1>3. r.phase # "idle" => rows'[r.id].state # "never" /\ rows'[r.id].stack = r.stack
  BY <1>1, RowsKept DEF ProcOK, Process
<1> QED
  BY <1>2, <1>3 DEF ProcOK

\* A goroutine that begins has its row's hash.
LEMMA BeginProc ==
  ASSUME TypeOK, TypeOK', NEW p \in Proc, NEW id \in Id, NEW row \in GitStack,
         NEW phase \in {"stat", "rmdir"},
         proc' = [proc EXCEPT ![p] = Copy(phase, id, row)],
         rows'[id] = row, row.state = "there", row.hash \in Known(row.stack)'
  PROVE  ProcOK(p)'
<1>1. proc'[p] = Copy(phase, id, row)
  BY DEF TypeOK
<1>2. /\ proc'[p].stack = row.stack /\ proc'[p].hash = row.hash
      /\ proc'[p].phase = phase /\ proc'[p].id = id
  BY <1>1 DEF Copy
<1> QED
  BY <1>2 DEF ProcOK

\* An idle goroutine knows nothing.
LEMMA IdleOK ==
  ASSUME NEW p \in Proc, proc'[p] = Idle
  PROVE  ProcOK(p)'
BY IdleType DEF ProcOK, Known

\* What a step of a goroutine does to the goroutine.
LEMMA GoKeeps ==
  ASSUME TypeOK, NEW p \in Proc, Go(p)
  PROVE  /\ proc[p].phase # "idle"
         /\ \/ proc'[p] = Idle
            \/ /\ proc'[p].stack = proc[p].stack /\ proc'[p].id = proc[p].id
               /\ proc'[p].hash = proc[p].hash
         /\ \A q \in Proc \ {p} : proc'[q] = proc[q]
<1>0. proc[p] \in Process /\ proc \in [Proc -> Process]
  BY DEF TypeOK
<1> DEFINE Kept == /\ \/ proc'[p] = Idle
                      \/ /\ proc'[p].stack = proc[p].stack /\ proc'[p].id = proc[p].id
                         /\ proc'[p].hash = proc[p].hash
                   /\ \A q \in Proc \ {p} : proc'[q] = proc[q]
<1>1. ASSUME NEW phase, Goto(p, phase) PROVE Kept
  BY <1>0, <1>1 DEF Goto, Process
<1>2. Fail(p) => Kept
  BY <1>0 DEF Fail, Process
<1>3. Read(p) => Kept
  <2>1. CASE Read(p) /\ Fail(p)
    BY <1>2, <2>1
  <2>2. CASE Read(p) /\ ~Fail(p)
    BY <1>0, <2>2 DEF Read, Process
  <2> QED
    BY <2>1, <2>2
<1>6. Finish(p) => Kept
  BY <1>0 DEF Finish
<1> HIDE DEF Kept
<1>4. Kept
  BY <1>1, <1>2, <1>3, <1>6 DEF Go, Stat, CloneStart, CloneEnd, Fetch, Reset, Deploy,
                                Record, RemoveDir, DeleteRow
<1>5. proc[p].phase # "idle"
  BY DEF Go, Stat, CloneStart, CloneEnd, Fetch, Reset, Read, Deploy,
         Record, RemoveDir, DeleteRow
<1> QED
  BY <1>4, <1>5 DEF Kept

LEMMA GoPreserves ==
  ASSUME GInv, TypeOK', NEW p \in Proc, Go(p)
  PROVE  (\A q \in Proc : ProcOK(q)') /\ (\A id \in Id : RowOK(id)')
<1> PICK st \in Stack : st = proc[p].stack
  BY DEF GInv, TypeOK, Process
<1>0. TypeOK /\ [Next]_vars /\ ProcOK(p) /\ proc[p] \in Process
  BY DEF GInv, Next, TypeOK
<1>1. Known(st) \subseteq Known(st)'
  BY <1>0, EverGrows DEF Known
<1>2. proc'[p] # Idle =>
        /\ proc'[p].stack = st
        /\ proc'[p].hash \in Known(st)'
        /\ rows'[proc'[p].id].state # "never" /\ rows'[proc'[p].id].stack = st
  BY <1>0, <1>1, GoKeeps, RowsKept DEF ProcOK, Process
<1>3. ASSUME proc'[p].phase \notin {"deploy", "record"} PROVE ProcOK(p)'
  BY <1>2, <1>3, IdleOK DEF ProcOK, Known
<1>4. ASSUME proc'[p].phase = "record", proc'[p].out \in Known(st)' PROVE ProcOK(p)'
  BY <1>2, <1>4, IdleOK DEF ProcOK, Known
<1>5. ASSUME proc'[p].phase = "deploy", proc'[p].spec \in Content,
             proc'[p].out = fileHash(proc'[p].spec)
      PROVE  ProcOK(p)'
  BY <1>2, <1>5, IdleOK DEF ProcOK, Known
<1>6. ASSUME NEW phase, phase \notin {"deploy", "record"}, Goto(p, phase) PROVE ProcOK(p)'
  <2>1. proc'[p].phase = phase
    BY <1>0, <1>6 DEF Goto, TypeOK, Process
  <2> QED
    BY <1>3, <1>6, <2>1
<1>7. ASSUME Fail(p) PROVE ProcOK(p)'
  <2>1. proc'[p].phase = "record" /\ proc'[p].out = proc[p].hash
    BY <1>0, <1>7 DEF Fail, TypeOK, Process
  <2>2. proc'[p].out \in Known(st)'
    BY <1>0, <1>1, <2>1 DEF ProcOK
  <2> QED
    BY <1>4, <2>1, <2>2
<1>8. ProcOK(p)'
  <2>1. CASE Stat(p)
    BY <1>6, <2>1 DEF Stat
  <2>2. CASE CloneStart(p)
    BY <1>6, <1>7, <2>2 DEF CloneStart
  <2>3. CASE CloneEnd(p)
    BY <1>6, <1>7, <2>3 DEF CloneEnd
  <2>4. CASE Fetch(p)
    BY <1>6, <1>7, <2>4 DEF Fetch
  <2>5. CASE Reset(p)
    BY <1>6, <1>7, <2>5 DEF Reset
  <2>6. CASE Read(p)
    <3> DEFINE tree == checkout[proc[p].id].tree
    <3>1. CASE Fail(p)
      BY <1>7, <3>1
    <3>2. CASE ~Fail(p)
      <4>1. /\ proc'[p].spec = tree /\ proc'[p].out = fileHash(tree)
            /\ proc'[p].phase = IF fileHash(tree) = proc[p].hash THEN "record" ELSE "deploy"
            /\ tree # NoFile
        BY <1>0, <2>6, <3>2 DEF Read, TypeOK, Process
      <4>2. CASE fileHash(tree) = proc[p].hash
        <5>1. fileHash(tree) \in Known(st)
          BY <1>0, <4>2 DEF ProcOK
        <5> QED
          BY <1>1, <1>4, <4>1, <4>2, <5>1
      <4>3. CASE fileHash(tree) # proc[p].hash
        <5>1. tree \in Content
          BY <1>0, <4>1 DEF TypeOK, Checkout, Process, File
        <5> QED
          BY <1>5, <4>1, <4>3, <5>1
      <4> QED
        BY <4>2, <4>3
    <3> QED
      BY <3>1, <3>2
  <2>7. CASE Deploy(p)
    <3>1. CASE Fail(p)
      BY <1>7, <3>1
    <3>2. CASE ~Fail(p)
      <4>1. Deployment(st, proc[p].spec) /\ Goto(p, "record")
        BY <2>7, <3>2 DEF Deploy
      <4>2. proc[p].out = fileHash(proc[p].spec)
        BY <1>0, <2>7 DEF Deploy, ProcOK
      <4>3. proc[p].spec \in ever'[st]
        BY <1>0, <4>1 DEF Deployment, TypeOK
      <4>4. proc'[p].phase = "record" /\ proc'[p].out = proc[p].out
        BY <1>0, <4>1 DEF Goto, TypeOK, Process
      <4>5. proc'[p].out \in Known(st)'
        BY <4>2, <4>3, <4>4 DEF Known
      <4> QED
        BY <1>4, <4>4, <4>5
    <3> QED
      BY <3>1, <3>2
  <2>8. CASE Record(p)
    BY <1>0, <2>8, IdleOK DEF Record, Finish, TypeOK
  <2>9. CASE RemoveDir(p)
    BY <1>6, <2>9 DEF RemoveDir
  <2>10. CASE DeleteRow(p)
    BY <1>0, <2>10, IdleOK DEF DeleteRow, Finish, TypeOK
  <2> QED
    BY <2>1, <2>2, <2>3, <2>4, <2>5, <2>6, <2>7, <2>8, <2>9, <2>10 DEF Go
<1>9. ASSUME NEW q \in Proc PROVE ProcOK(q)'
  BY <1>0, <1>8, GoKeeps, OtherProcs DEF GInv
<1>10. ASSUME NEW id \in Id PROVE RowOK(id)'
  <2> PICK s \in Stack : s = rows[id].stack
    BY <1>0 DEF TypeOK, GitStack
  <2>1. rows[id].hash \in Known(s)' /\ rows \in [Id -> GitStack]
    BY <1>0, EverGrows DEF GInv, RowOK, Known, TypeOK
  <2>2. CASE UNCHANGED rows
    BY <2>1, <2>2 DEF RowOK, Known
  <2>3. CASE Record(p)
    <3>1. CASE rows'[id].hash = rows[id].hash /\ rows'[id].stack = s
      BY <2>1, <3>1 DEF RowOK, Known
    <3>2. CASE ~(rows'[id].hash = rows[id].hash /\ rows'[id].stack = s)
      <4>1. /\ proc[p].id = id /\ rows'[id].hash = proc[p].out /\ rows'[id].stack = s
        BY <2>1, <2>3, <3>2 DEF Record, GitStack
      <4>2. s = st /\ proc[p].out \in Known(st)
        BY <1>0, <2>3, <4>1 DEF Record, ProcOK
      <4> QED
        BY <1>1, <4>1, <4>2 DEF RowOK, Known
    <3> QED
      BY <3>1, <3>2
  <2>4. CASE DeleteRow(p)
    <3>1. rows'[id].hash = rows[id].hash /\ rows'[id].stack = s
      BY <2>1, <2>4 DEF DeleteRow, GitStack
    <3> QED
      BY <2>1, <3>1 DEF RowOK, Known
  <2> QED
    BY <2>2, <2>3, <2>4 DEF Go, Stat, CloneStart, CloneEnd, Fetch, Reset, Read, Deploy, RemoveDir
<1> QED
  BY <1>9, <1>10

LEMMA RowsPreserve ==
  ASSUME GInv, [Next]_vars, NEW id \in Id,
         rows'[id].hash = rows[id].hash, rows'[id].stack = rows[id].stack
  PROVE  RowOK(id)'
<1> PICK s \in Stack : s = rows[id].stack
  BY DEF GInv, TypeOK, GitStack
<1>1. rows[id].hash \in Known(s)'
  BY EverGrows DEF GInv, RowOK, Known
<1> QED
  BY <1>1 DEF RowOK, Known

\* Work begins with a row as it is.
LEMMA BeginPreserves ==
  ASSUME GInv, TypeOK', [Next]_vars, NEW p \in Proc, NEW id \in Id,
         NEW phase \in {"stat", "rmdir"}, Begin(p, id, phase)
  PROVE  (\A q \in Proc : ProcOK(q)') /\ (\A i \in Id : RowOK(i)')
<1>0. TypeOK /\ UNCHANGED <<rows, ever>> /\ proc \in [Proc -> Process]
  BY DEF GInv, Begin, TypeOK
<1>1. rows[id] \in GitStack /\ rows'[id] = rows[id] /\ rows[id].state = "there"
  BY <1>0 DEF TypeOK, Begin, There
<1> PICK row \in GitStack : row = rows[id]
  BY <1>1
<1>2. row.hash \in Known(row.stack)'
  BY <1>0 DEF GInv, RowOK, Known
<1>3. proc' = [proc EXCEPT ![p] = Copy(phase, id, row)]
  BY DEF Begin
<1>4. ProcOK(p)'
  BY <1>0, <1>1, <1>2, <1>3, BeginProc
<1>5. ASSUME NEW q \in Proc PROVE ProcOK(q)'
  <2>1. q # p => proc'[q] = proc[q]
    BY <1>0, <1>3
  <2> QED
    BY <1>0, <1>4, <2>1, OtherProcs DEF GInv
<1>6. ASSUME NEW i \in Id PROVE RowOK(i)'
  BY <1>0, RowsPreserve
<1> QED
  BY <1>5, <1>6

LEMMA CreatePreserves ==
  ASSUME GInv, TypeOK', [Next]_vars, NEW p \in Proc, NEW id \in Id,
         NEW stack \in Stack, NEW source \in Source, NEW auto \in BOOLEAN,
         GitStackCreate(p, id, stack, source, auto)
  PROVE  (\A q \in Proc : ProcOK(q)') /\ (\A i \in Id : RowOK(i)')
<1> PICK row \in GitStack :
      row = [state |-> "there", stack |-> stack, source |-> source, auto |-> auto,
             enabled |-> TRUE, hash |-> NoHash]
  BY HashType DEF GitStack
<1>0. TypeOK /\ proc \in [Proc -> Process] /\ rows \in [Id -> GitStack]
  BY DEF GInv, TypeOK
<1>1. /\ rows' = [rows EXCEPT ![id] = row]
      /\ proc' = [proc EXCEPT ![p] = Copy("stat", id, row)]
  BY DEF GitStackCreate
<1>2. row.hash \in Known(row.stack)' /\ row.state = "there" /\ rows'[id] = row
  BY <1>0, <1>1 DEF Known
<1>4. ProcOK(p)'
  BY <1>0, <1>1, <1>2, BeginProc
<1>5. ASSUME NEW q \in Proc PROVE ProcOK(q)'
  <2>1. q # p => proc'[q] = proc[q]
    BY <1>0, <1>1
  <2> QED
    BY <1>0, <1>4, <2>1, OtherProcs DEF GInv
<1>6. ASSUME NEW i \in Id PROVE RowOK(i)'
  <2>1. CASE i = id
    BY <1>2, <2>1 DEF RowOK, Known
  <2>2. CASE i # id
    BY <1>0, <1>1, <2>2, RowsPreserve
  <2> QED
    BY <2>1, <2>2
<1> QED
  BY <1>5, <1>6

LEMMA WorldPreserves ==
  ASSUME GInv, TypeOK', [Next]_vars, World \/ UNCHANGED vars
  PROVE  (\A q \in Proc : ProcOK(q)') /\ (\A i \in Id : RowOK(i)')
<1>0. TypeOK /\ proc \in [Proc -> Process] /\ rows \in [Id -> GitStack]
  BY DEF GInv, TypeOK
<1>1. ASSUME NEW i \in Id
      PROVE  rows'[i].hash = rows[i].hash /\ rows'[i].stack = rows[i].stack
  <2>1. ASSUME NEW id \in Id, NEW source \in Source, NEW auto \in BOOLEAN,
               NEW enabled \in BOOLEAN, GitStackUpdate(id, source, auto, enabled)
        PROVE  rows'[i].hash = rows[i].hash /\ rows'[i].stack = rows[i].stack
    BY <1>0, <2>1 DEF GitStackUpdate, GitStack
  <2> QED
    BY <2>1 DEF World, Push, OtherDeployment, Crash, Quiet, vars
<1>2. CASE Crash
  <2>1. ASSUME NEW q \in Proc PROVE ProcOK(q)'
    BY <1>2, IdleOK DEF Crash
  <2> QED
    BY <1>1, <2>1, RowsPreserve
<1>3. CASE ~Crash
  <2>1. UNCHANGED proc
    BY <1>3 DEF World, GitStackUpdate, Push, OtherDeployment, Quiet, vars
  <2> QED
    BY <1>0, <1>1, <2>1, RowsPreserve, OtherProcs DEF GInv
<1> QED
  BY <1>2, <1>3

LEMMA GStep == GInv /\ [Next]_vars => GInv'
<1> SUFFICES ASSUME GInv, [Next]_vars PROVE GInv'
  OBVIOUS
<1>1. TypeOK'
  BY TypeStep DEF GInv
<1> DEFINE Kept == (\A q \in Proc : ProcOK(q)') /\ (\A i \in Id : RowOK(i)')
<1>2. ASSUME NEW p \in Proc, NEW id \in Id,
             \/ GitStackSync(p, id) \/ GitWebhookHandler(p, id)
             \/ GitStackDelete(p, id) \/ Scheduled(p, id)
      PROVE  Kept
  <2>1. Begin(p, id, "stat") \/ Begin(p, id, "rmdir")
    BY <1>2 DEF GitStackSync, GitWebhookHandler, GitStackDelete, Scheduled
  <2> QED
    BY <1>1, <2>1, BeginPreserves
<1>3. ASSUME NEW p \in Proc, Start(p) PROVE Kept
  <2>1. PICK id \in Id :
          \/ \E stack \in Stack, source \in Source, auto \in BOOLEAN :
               GitStackCreate(p, id, stack, source, auto)
          \/ GitStackSync(p, id) \/ GitWebhookHandler(p, id) \/ GitStackDelete(p, id)
    BY <1>3 DEF Start
  <2>2. CASE \E stack \in Stack, source \in Source, auto \in BOOLEAN :
               GitStackCreate(p, id, stack, source, auto)
    BY <1>1, <2>2, CreatePreserves
  <2> QED
    BY <1>2, <2>1, <2>2
<1>4. ASSUME NEW p \in Proc, Go(p) PROVE Kept
  BY <1>1, <1>4, GoPreserves
<1>5. World \/ UNCHANGED vars => Kept
  BY <1>1, WorldPreserves
<1>6. Kept
  BY <1>2, <1>3, <1>4, <1>5 DEF Next
<1> QED
  BY <1>1, <1>6 DEF GInv

\* Whatever fails, overlaps, is half done or dies: syncGitStack never records
\* the hash of a file that was not deployed under the row's name.
THEOREM RecordedWasDeployed == Spec => []HashWasDeployed
<1>1. GInv => HashWasDeployed
  BY DEF GInv, RowOK, Known, HashWasDeployed
<1> QED
  BY <1>1, GInit, GStep, PTL DEF Spec
=============================================================================
