-------------------------------- MODULE GitOps --------------------------------
(***************************************************************************)
(* internal/api/gitops.go with the table git_stacks of internal/store:     *)
(* stacks deployed from a compose file in a git repository.                *)
(*                                                                         *)
(* A sync runs in a goroutine of its own.  It is started by a creation, a  *)
(* request, a webhook or the scheduler, takes a copy of the row, works in  *)
(* the one checkout directory of the git stack, and writes the hash it     *)
(* ends with back into the row.  Nothing keeps two syncs of one git stack, *)
(* or a sync and a deletion, apart, and no error of the table or of        *)
(* os.RemoveAll is looked at.                                              *)
(***************************************************************************)
EXTENDS Naturals, FiniteSets

CONSTANTS
  Proc,         \* goroutines that sync or delete
  Id,           \* ids of git stacks (uuid, never reused)
  Stack,        \* names of swarm stacks
  Url, Branch,  \* where compose files come from
  Content,      \* contents of compose files
  NoFile,       \* there is no compose file, or no such revision
  NoHash,       \* last_hash of a row that was never synced
  Nothing,      \* no stack of that name was deployed
  HalfDeploys,  \* TRUE: a docker stack deploy that fails may still have changed the stack
  Crashes,      \* TRUE: the process may die
  Edits,        \* TRUE: git stacks are edited after their creation
  Others,       \* TRUE: the stack of a git stack is also deployed or removed by hand
  MaxWork       \* bound: pushes, requests, failures and crashes in a behaviour

Source == Url \X Branch

\* fileHash: sha256 cut to 8 bytes, with collisions left out.
fileHash(c) == <<c, "sha256">>

Hashes == {NoHash} \cup {fileHash(c) : c \in Content}

ASSUME GitAssumption ==
  /\ NoFile \notin Content
  /\ NoHash \notin {fileHash(c) : c \in Content}
  /\ Nothing \notin Content
  /\ Source # {} /\ Stack # {} /\ Id # {}
  /\ {HalfDeploys, Crashes, Edits, Others} \subseteq BOOLEAN
  /\ MaxWork \in Nat

VARIABLES
  head,      \* [Source -> compose file at the tip of the branch]
  rows,      \* [Id -> GitStack]: table git_stacks
  checkout,  \* [Id -> Checkout]: directory swarmpit-gitops/<id>
  proc,      \* [Proc -> Process]
  deployed,  \* [Stack -> compose file the swarm runs]
  ever,      \* [Stack -> contents a sync ever deployed] (history)
  work

vars == <<head, rows, checkout, proc, deployed, ever, work>>

File == Content \cup {NoFile}

GitStack ==
  [state : {"never", "there", "gone"}, stack : Stack, source : Source,
   auto : BOOLEAN, enabled : BOOLEAN, hash : Hashes]

\* tip: what origin/<branch> names in the clone; tree: the working tree.
Checkout ==
  [dir : {"none", "cloning", "ready"}, origin : Source, tip : File, tree : File]

\* gs.stack, gs.source, gs.hash: the copy of the row; spec: the compose file
\* read; out: the hash UpdateGitStackSync will be given.  The times and the
\* error it also writes are left out.
Process ==
  [phase : {"idle", "stat", "clone", "cloning", "fetch", "reset", "read", "deploy",
            "record", "rmdir", "rmrow"},
   id : Id, stack : Stack, source : Source, hash : Hashes,
   spec : File, out : Hashes]

There(id) == rows[id].state = "there"

Working(id) == {p \in Proc : proc[p].phase # "idle" /\ proc[p].id = id}

Budget == work < MaxWork /\ work' = work + 1

-----------------------------------------------------------------------------
\* Where work on a git stack begins.

Copy(phase, id, row) ==
  [phase |-> phase, id |-> id, stack |-> row.stack, source |-> row.source,
   hash |-> row.hash, spec |-> NoFile, out |-> NoHash]

SomeId     == CHOOSE id \in Id : TRUE
SomeSource == CHOOSE s \in Source : TRUE
SomeStack  == CHOOSE s \in Stack : TRUE

\* A goroutine that has ended, or has not begun.
Idle == Copy("idle", SomeId, [stack |-> SomeStack, source |-> SomeSource, hash |-> NoHash])

Begin(p, id, phase) ==
  /\ There(id) /\ proc[p].phase = "idle"
  /\ proc' = [proc EXCEPT ![p] = Copy(phase, id, rows[id])]
  /\ UNCHANGED <<head, rows, checkout, deployed, ever>>

\* GitStackCreate: the row, and a goroutine with the first sync.  stack_name is
\* unique in the table.
GitStackCreate(p, id, stack, source, auto) ==
  /\ rows[id].state = "never" /\ proc[p].phase = "idle" /\ Budget
  /\ \A other \in Id : There(other) => rows[other].stack # stack
  /\ LET row == [state |-> "there", stack |-> stack, source |-> source, auto |-> auto,
                 enabled |-> TRUE, hash |-> NoHash]
     IN /\ rows' = [rows EXCEPT ![id] = row]
        /\ proc' = [proc EXCEPT ![p] = Copy("stat", id, row)]
  /\ UNCHANGED <<head, checkout, deployed, ever>>

\* GitStackUpdate: UPDATE git_stacks, without the name and without the checkout.
GitStackUpdate(id, source, auto, enabled) ==
  /\ Edits /\ There(id) /\ Budget
  /\ rows' = [rows EXCEPT ![id].source = source, ![id].auto = auto, ![id].enabled = enabled]
  /\ UNCHANGED <<head, checkout, proc, deployed, ever>>

GitStackSync(p, id) == Begin(p, id, "stat") /\ Budget

GitWebhookHandler(p, id) == rows[id].enabled /\ Begin(p, id, "stat") /\ Budget

\* StartGitOpsScheduler: one due row of a round.  When a row is due is a matter
\* of time; last_sync only moves when a sync ends, so a sync that is still
\* running does not hold the next one back.
Scheduled(p, id) ==
  /\ rows[id].enabled /\ rows[id].auto
  /\ Begin(p, id, "stat") /\ UNCHANGED work

GitStackDelete(p, id) == Begin(p, id, "rmdir") /\ Budget

-----------------------------------------------------------------------------
\* A sync.

Gone(id) == [checkout[id] EXCEPT !.dir = "none", !.tip = NoFile, !.tree = NoFile]

\* os.RemoveAll of the directory; when it fails nobody notices.
RemoveAll(id) == checkout' \in {checkout, [checkout EXCEPT ![id] = Gone(id)]}

Goto(p, phase) == proc' = [proc EXCEPT ![p].phase = phase]

Finish(p) == proc' = [proc EXCEPT ![p] = Idle]

\* Every error path: last_hash goes back as it was copied, with the error.
Fail(p) ==
  proc' = [proc EXCEPT ![p].phase = "record", ![p].out = proc[p].hash]

\* Seeded fault: a checkout that is there is read as it is.
StatNoPull(p) ==
  /\ proc[p].phase = "stat"
  /\ Goto(p, IF checkout[proc[p].id].dir = "none" THEN "clone" ELSE "read")
  /\ UNCHANGED <<head, rows, checkout, deployed, ever, work>>

\* gitCloneOrPull: is there a .git in the directory?
Stat(p) ==
  /\ proc[p].phase = "stat"
  /\ Goto(p, IF checkout[proc[p].id].dir = "none" THEN "clone" ELSE "fetch")
  /\ UNCHANGED <<head, rows, checkout, deployed, ever, work>>

\* git clone makes the directory its own, or finds it taken; the error path
\* removes the directory, whoever made it.
CloneStart(p) ==
  LET id == proc[p].id IN
  /\ proc[p].phase = "clone"
  /\ IF checkout[id].dir = "none"
     THEN /\ checkout' = [checkout EXCEPT ![id] =
               [dir |-> "cloning", origin |-> proc[p].source, tip |-> NoFile, tree |-> NoFile]]
          /\ Goto(p, "cloning")
     ELSE RemoveAll(id) /\ Fail(p)
  /\ UNCHANGED <<head, rows, deployed, ever, work>>

\* A clone that fails removes what it has made; one whose directory was removed
\* or taken under it fails.
CloneEnd(p) ==
  LET id == proc[p].id IN
  /\ proc[p].phase = "cloning"
  /\ \/ /\ checkout[id].dir = "cloning"
        /\ checkout' = [checkout EXCEPT ![id] =
             [dir |-> "ready", origin |-> proc[p].source,
              tip |-> head[proc[p].source], tree |-> head[proc[p].source]]]
        /\ Goto(p, "read") /\ UNCHANGED work
     \/ /\ checkout[id].dir = "cloning"
        /\ checkout' = [checkout EXCEPT ![id] = Gone(id)] /\ Fail(p) /\ Budget
     \/ /\ checkout[id].dir # "cloning"
        /\ RemoveAll(id) /\ Fail(p) /\ UNCHANGED work
  /\ UNCHANGED <<head, rows, deployed, ever>>

\* git fetch origin <branch>: from the origin the clone was made with; only the
\* branch the clone was made for has a tip in the clone.  In half a clone it
\* may fail each time.
Fetch(p) ==
  LET id == proc[p].id
      c  == checkout[id]
      from == <<c.origin[1], proc[p].source[2]>>
  IN
  /\ proc[p].phase = "fetch"
  /\ \/ /\ c.dir # "none"
        /\ checkout' = IF from = c.origin THEN [checkout EXCEPT ![id].tip = head[from]]
                                          ELSE checkout
        /\ Goto(p, "reset") /\ UNCHANGED work
     \/ /\ IF c.dir = "ready" THEN Budget ELSE UNCHANGED work
        /\ Fail(p) /\ UNCHANGED checkout
  /\ UNCHANGED <<head, rows, deployed, ever>>

\* git reset --hard origin/<branch>
Reset(p) ==
  LET id == proc[p].id
      c  == checkout[id]
      known == c.dir # "none" /\ c.origin[2] = proc[p].source[2]
  IN
  /\ proc[p].phase = "reset"
  /\ \/ /\ known
        /\ checkout' = [checkout EXCEPT ![id].tree = c.tip]
        /\ Goto(p, "read") /\ UNCHANGED work
     \/ /\ IF known THEN Budget ELSE UNCHANGED work
        /\ Fail(p) /\ UNCHANGED checkout
  /\ UNCHANGED <<head, rows, deployed, ever>>

\* Seeded fault: a missing compose file is not an error.
ReadUnchecked(p) ==
  /\ proc[p].phase = "read"
  /\ proc' = [proc EXCEPT ![p].phase = "deploy",
                          ![p].out = fileHash(checkout[proc[p].id].tree)]
  /\ UNCHANGED <<head, rows, checkout, deployed, ever, work>>

\* readComposeFile, fileHash and the comparison with the copied last_hash.
Read(p) ==
  LET tree == checkout[proc[p].id].tree IN
  /\ proc[p].phase = "read"
  /\ IF tree = NoFile THEN Fail(p)
     ELSE proc' = [proc EXCEPT ![p].phase =
                     IF fileHash(tree) = proc[p].hash THEN "record" ELSE "deploy",
                   ![p].spec = tree, ![p].out = fileHash(tree)]
  /\ UNCHANGED <<head, rows, checkout, deployed, ever, work>>

Deployment(stack, spec) ==
  /\ deployed' = [deployed EXCEPT ![stack] = spec]
  /\ ever' = [ever EXCEPT ![stack] = @ \cup {spec}]

\* Seeded fault: a failed deployment is recorded with the new hash.
DeployRecordsFailure(p) ==
  /\ proc[p].phase = "deploy"
  /\ Goto(p, "record")
  /\ \/ Deployment(proc[p].stack, proc[p].spec) /\ UNCHANGED work
     \/ UNCHANGED <<deployed, ever>> /\ Budget
  /\ UNCHANGED <<head, rows, checkout>>

\* deployStack: docker stack deploy.
Deploy(p) ==
  /\ proc[p].phase = "deploy"
  /\ \/ Deployment(proc[p].stack, proc[p].spec) /\ Goto(p, "record") /\ UNCHANGED work
     \/ /\ Fail(p) /\ Budget
        /\ \/ UNCHANGED <<deployed, ever>>
           \/ HalfDeploys /\ Deployment(proc[p].stack, proc[p].spec)
  /\ UNCHANGED <<head, rows, checkout>>

\* store.UpdateGitStackSync: an UPDATE, so a row that is gone stays gone.  Its
\* error is dropped.
Record(p) ==
  LET id == proc[p].id IN
  /\ proc[p].phase = "record"
  /\ \/ /\ rows' = IF There(id) THEN [rows EXCEPT ![id].hash = proc[p].out] ELSE rows
        /\ UNCHANGED work
     \/ UNCHANGED rows /\ Budget
  /\ Finish(p)
  /\ UNCHANGED <<head, checkout, deployed, ever>>

-----------------------------------------------------------------------------
\* GitStackDelete after it has the row: the directory, then the row.  The
\* errors of both are dropped.

RemoveDir(p) ==
  /\ proc[p].phase = "rmdir"
  /\ RemoveAll(proc[p].id)
  /\ Goto(p, "rmrow")
  /\ UNCHANGED <<head, rows, deployed, ever, work>>

DeleteRow(p) ==
  /\ proc[p].phase = "rmrow"
  /\ rows' = [rows EXCEPT ![proc[p].id].state = "gone"] \/ UNCHANGED rows
  /\ Finish(p)
  /\ UNCHANGED <<head, checkout, deployed, ever, work>>

-----------------------------------------------------------------------------
\* The rest of the world.

Push(source, file) ==
  /\ Budget
  /\ head' = [head EXCEPT ![source] = file]
  /\ UNCHANGED <<rows, checkout, proc, deployed, ever>>

\* StackCreate, StackImport and StackUpdate deploy what the browser sends under
\* the same name, StackDelete removes the stack.
OtherDeployment(stack, content) ==
  /\ Others /\ Budget
  /\ deployed' = [deployed EXCEPT ![stack] = content]
  /\ UNCHANGED <<head, rows, checkout, proc, ever>>

\* The process dies; the temporary directory may or may not outlive it.
Crash ==
  /\ Crashes /\ Budget
  /\ \E p \in Proc : proc[p].phase # "idle"
  /\ proc' = [p \in Proc |-> Idle]
  /\ checkout' \in {checkout, [id \in Id |-> Gone(id)]}
  /\ UNCHANGED <<head, rows, deployed, ever>>

\* Nothing left to do within the bound.
Quiet ==
  /\ work = MaxWork /\ \A p \in Proc : proc[p].phase = "idle"
  /\ UNCHANGED vars

-----------------------------------------------------------------------------
Start(p) ==
  \E id \in Id :
    \/ \E stack \in Stack, source \in Source, auto \in BOOLEAN :
         GitStackCreate(p, id, stack, source, auto)
    \/ GitStackSync(p, id)
    \/ GitWebhookHandler(p, id)
    \/ GitStackDelete(p, id)

Go(p) ==
  \/ Stat(p) \/ CloneStart(p) \/ CloneEnd(p) \/ Fetch(p) \/ Reset(p)
  \/ Read(p) \/ Deploy(p) \/ Record(p) \/ RemoveDir(p) \/ DeleteRow(p)

World ==
  \/ \E id \in Id, source \in Source, auto, enabled \in BOOLEAN :
       GitStackUpdate(id, source, auto, enabled)
  \/ \E source \in Source, file \in File : Push(source, file)
  \/ \E stack \in Stack, content \in Content \cup {Nothing} : OtherDeployment(stack, content)
  \/ Crash
  \/ Quiet

Init ==
  /\ head \in [Source -> Content]
  /\ rows = [id \in Id |-> [state |-> "never", stack |-> SomeStack, source |-> SomeSource,
                            auto |-> FALSE, enabled |-> FALSE, hash |-> NoHash]]
  /\ checkout = [id \in Id |-> [dir |-> "none", origin |-> SomeSource,
                                tip |-> NoFile, tree |-> NoFile]]
  /\ proc = [p \in Proc |-> Idle]
  /\ deployed = [s \in Stack |-> Nothing]
  /\ ever = [s \in Stack |-> {}]
  /\ work = 0

Next ==
  \/ \E p \in Proc : Start(p) \/ Go(p) \/ \E id \in Id : Scheduled(p, id)
  \/ World

Spec == Init /\ [][Next]_vars

\* git and docker end (the code gives them no timeout), and the scheduler's loop
\* comes round to every due row.
FairSpec ==
  /\ Spec
  /\ \A p \in Proc : WF_vars(Go(p))
  /\ \A id \in Id : WF_vars(\E p \in Proc : Scheduled(p, id))

-----------------------------------------------------------------------------
\* Types of the table, the checkouts and the goroutines.
TypeOK ==
  /\ head \in [Source -> File]
  /\ rows \in [Id -> GitStack]
  /\ checkout \in [Id -> Checkout]
  /\ proc \in [Proc -> Process]
  /\ \A p \in Proc : proc[p].phase = "deploy" => proc[p].spec \in Content
  /\ deployed \in [Stack -> Content \cup {Nothing}]
  /\ ever \in [Stack -> SUBSET Content]
  /\ work \in Nat

\* A hash in the table is the hash of a file that was deployed under that name:
\* no failure, stale copy, race or crash makes syncGitStack take a file for
\* deployed that never was.
HashWasDeployed ==
  \A id \in Id : There(id) /\ rows[id].hash # NoHash =>
    \E c \in ever[rows[id].stack] : rows[id].hash = fileHash(c)

\* A clone that was started and that nobody will finish.
HalfClone(id) ==
  checkout[id].dir = "cloning" /\ \A p \in Working(id) : proc[p].phase # "cloning"

\* The branch of a git stack that syncs on an interval has the file c at its
\* tip, no sync has deployed c under the name, and the checkout is usable.
NewTip(id, c) ==
  /\ There(id) /\ rows[id].enabled /\ rows[id].auto
  /\ head[rows[id].source] = c /\ c \notin ever[rows[id].stack]
  /\ checkout[id].dir # "none" => checkout[id].origin = rows[id].source
  /\ ~HalfClone(id)

\* "auto-sync stacks from Git repositories" (README.md:40), as far as it holds:
\* once syncs of a git stack no longer overlap, a new file at the tip of its
\* branch is deployed or ceases to be the tip, whatever crashes, failed or
\* half deployments, dropped updates of the row, and edits of the stack by
\* hand came before.  What the swarm runs afterwards, and a file that was
\* deployed before and comes back, are not promised: see Converges.
NewTipsAreDeployed ==
  \A id \in Id, c \in Content :
    <>[](Cardinality(Working(id)) <= 1) => (NewTip(id, c) ~> ~NewTip(id, c))

Wanted(id) ==
  There(id) /\ rows[id].enabled /\ rows[id].auto /\ head[rows[id].source] # NoFile

\* "auto-sync stacks from Git repositories" (README.md:40): once pushes,
\* failures and overlapping syncs are over, a git stack that syncs on an
\* interval runs what its branch holds.
Converges ==
  \A id \in Id :
    <>[](Cardinality(Working(id)) <= 1) =>
      <>[](Wanted(id) => deployed[rows[id].stack] = head[rows[id].source])
=============================================================================
