------------------------------- MODULE Compose -------------------------------
(***************************************************************************)
(* The editor of a stack: generateStackCompose (internal/api/handlers.go)  *)
(* writes a compose file from what the engine runs, an operator edits it,  *)
(* and StackUpdate hands it to docker stack deploy.                        *)
(*                                                                         *)
(* The file is made from two reads, and is as old as they are when it is   *)
(* saved.  The services are those of one stack.  A service is known by     *)
(* what the file does with a field: it keeps the image, cuts durations and *)
(* sizes to a whole number, leaves out the job modes and every field that  *)
(* the generator does not write as it is, and names volumes, secrets and   *)
(* configs without defining them.                                          *)
(***************************************************************************)
EXTENDS Bounded, FiniteSets

CONSTANTS
  StackService,   \* services of the stack
  Template,       \* specs that services are made with
  Image,          \* images
  NetId,          \* network ids
  Base,           \* network names, without the prefix of the stack
  Global, Job,    \* the modes without a number of replicas
  ComposeWork     \* bound: changes elsewhere, failed calls

\* halves: a duration or size in halves of the unit the file writes.
\* extra: a value other than Docker's default in a field that is not written: a
\* container label, a port's mode, a restart delay or window, an update monitor or
\* failure ratio, a rollback delay or failure action, a placement preference or
\* limit, a DNS search or option, the endpoint mode, the owner or mode of a secret
\* or config; or in one written as something else: a published port left to Docker,
\* a tmpfs mount, an extra host.
\* uses: a named volume, a secret or a config.
SpecOf == [there : BOOLEAN, image : Image, halves : Nat, extra : BOOLEAN,
           mode : Nat \cup {Global, Job}, nets : SUBSET NetId, uses : BOOLEAN]

ASSUME ComposeAssumption ==
  /\ Template \subseteq {sp \in SpecOf : sp.there} /\ Template # {}
  /\ Global # Job /\ {Global, Job} \cap Nat = {}
  /\ NetId \cap Base = {} /\ Base # {}
  /\ ComposeWork \in Nat

VARIABLES
  running,   \* [StackService -> SpecOf]
  network,   \* [NetId -> Network]
  editor     \* the request of the editor, its two reads, and the file

composeVars == <<running, network, editor, work>>

\* A network is named stack_base (prefixed) or base; own: the stack's label.
Network == [there : BOOLEAN, prefixed : BOOLEAN, base : Base, own : BOOLEAN]

\* No network, no service.
Unused == [there |-> FALSE, prefixed |-> FALSE, base |-> CHOOSE b \in Base : TRUE, own |-> FALSE]
Gone   == [(CHOOSE sp \in Template : TRUE) EXCEPT !.there = FALSE]

-----------------------------------------------------------------------------
\* generateStackCompose, from services sv and networks nw.

\* The key of a network: its name without the stack's prefix, or the id of one
\* that is not among those read.
Key(n, nw) == IF nw[n].there THEN nw[n].base ELSE n

\* The networks named key or stack_key.
Named(k, nw) == {n \in NetId : nw[n].there /\ nw[n].base = k}

\* Seeded fault: the label is not looked at.
OwnedByName(keys, nw) == {{k \in keys : Named(k, nw) # {}}}

\* The keys that come out as the stack's own: the first network of one of the
\* two names has the label.  Docker lists networks in any order.
Owned(keys, nw) ==
  {O \in SUBSET keys : \A k \in keys :
     IF Named(k, nw) = {} THEN k \notin O
     ELSE \E n \in Named(k, nw) : (k \in O) = nw[n].own}

\* Seeded fault: one too few.
WholeLess(h) == (h \div 2) - 1

\* %ds of nanoseconds and %dM of bytes.
WholePart(h) == h \div 2

\* The deploy section: the mode of a job is left out, and read as one replica.
DeployMode(mode) == IF mode = Job THEN 1 ELSE mode

Entry(sp, nw) ==
  [image |-> sp.image, whole |-> WholePart(sp.halves), uses |-> sp.uses,
   mode |-> DeployMode(sp.mode), keys |-> {Key(n, nw) : n \in sp.nets}]

Keys(services) == UNION {services[s].keys : s \in DOMAIN services}

\* The files that may come out; a stack without services has an empty one.
GenerateStackCompose(sv, nw) ==
  LET services == [s \in {t \in StackService : sv[t].there} |-> Entry(sv[s], nw)]
  IN {[services |-> services, own |-> O] : O \in Owned(Keys(services), nw)}

-----------------------------------------------------------------------------
NoFile == [services |-> [s \in {} |-> 0], own |-> {}]

Closed == [phase |-> "closed", services |-> [s \in StackService |-> Gone],
           networks |-> [n \in NetId |-> Unused], file |-> NoFile, edited |-> {}]

\* StackFile: docker.Services, or an error, which is a stack without services.
ReadStack ==
  /\ editor.phase = "closed"
  /\ \E sv \in {running, Closed.services} :
       /\ IF sv = running THEN UNCHANGED work ELSE Budget(ComposeWork)
       /\ editor' = [Closed EXCEPT !.phase = "services", !.services = sv]
  /\ UNCHANGED <<running, network>>

\* docker.Networks, or an error, which is no networks: then all go by their ids.
WriteFile ==
  /\ editor.phase = "services"
  /\ \E nw \in {network, Closed.networks} :
       /\ IF nw = network THEN UNCHANGED work ELSE Budget(ComposeWork)
       /\ \E f \in GenerateStackCompose(editor.services, nw) :
            editor' = [editor EXCEPT !.phase = "open", !.networks = network, !.file = f]
  /\ UNCHANGED <<running, network>>

\* The operator sets the image of a service.
EditFile ==
  /\ editor.phase = "open" /\ editor.edited = {}
  /\ \E s \in DOMAIN editor.file.services, i \in Image :
       editor' = [editor EXCEPT !.edited = {s}, !.file.services[s].image = i]
  /\ UNCHANGED <<running, network, work>>

CloseFile ==
  /\ editor.phase # "closed" /\ editor' = Closed
  /\ UNCHANGED <<running, network, work>>

-----------------------------------------------------------------------------
\* docker stack deploy, with file f.
Owns(k, nw)     == {n \in Named(k, nw) : nw[n].prefixed /\ nw[n].own}
Missing(f)      == {k \in f.own : Owns(k, network) = {}}
External(k, nw) == {n \in NetId : nw[n].there /\ (n = k \/ (nw[n].base = k /\ ~nw[n].prefixed))}

\* The networks after it made those that the stack owns and lacks.
CreateNetworks(f) ==
  {nw \in [NetId -> Network] :
     /\ \A n \in NetId : network[n].there => nw[n] = network[n]
     /\ \A n \in NetId : nw[n].there /\ ~network[n].there =>
          nw[n].prefixed /\ nw[n].own /\ nw[n].base \in Missing(f)
     /\ \A n \in NetId : ~nw[n].there => nw[n] = network[n]
     /\ \A k \in Missing(f) : Cardinality(Owns(k, nw)) = 1}

\* External networks have to be there, and the name of a new one free.
NetworksFit(f) ==
  /\ \A k \in Keys(f.services) \ f.own : External(k, network) # {}
  /\ \A k \in Missing(f) : \A n \in Named(k, network) : ~network[n].prefixed

Replicated(mode) == mode \notin {Global, Job}

\* Docker does not change the mode of a service.
ModeFits(e, sp) ==
  sp.there => e.mode = sp.mode \/ (Replicated(e.mode) /\ Replicated(sp.mode))

SpecOfEntry(e, f, nw) ==
  [there |-> TRUE, image |-> e.image, halves |-> 2 * e.whole, extra |-> FALSE,
   mode |-> e.mode, uses |-> FALSE,
   nets |-> UNION {IF k \in f.own THEN Owns(k, nw) ELSE External(k, nw) : k \in e.keys}]

\* The services of S get what the file says.
Written(S, f, nw) ==
  [s \in StackService |-> IF s \in S THEN SpecOfEntry(f.services[s], f, nw) ELSE running[s]]

Accepted(f) ==
  /\ NetworksFit(f)
  /\ \A s \in DOMAIN f.services : ~f.services[s].uses /\ ModeFits(f.services[s], running[s])

\* StackUpdate: an empty file is refused by the handler.
StackUpdate ==
  /\ editor.phase = "open" /\ editor.file # NoFile /\ Accepted(editor.file)
  /\ \E nw \in CreateNetworks(editor.file) :
       /\ network' = nw
       /\ running' = Written(DOMAIN editor.file.services, editor.file, nw)
  /\ editor' = [editor EXCEPT !.phase = "saved"]
  /\ UNCHANGED work

\* What Docker refuses it may have begun: a mode that does not fit is found when
\* the service is written, after others; a name that is not defined, before.
StackUpdateRefused ==
  /\ editor.phase = "open" /\ editor.file # NoFile /\ ~Accepted(editor.file)
  /\ LET f == editor.file  all == DOMAIN f.services
         fit == {s \in all : ModeFits(f.services[s], running[s])}
     IN \/ ~NetworksFit(f) /\ UNCHANGED <<running, network>>
        \/ NetworksFit(f) /\ \E nw \in CreateNetworks(f) :
             /\ network' = nw
             /\ IF \E s \in all : f.services[s].uses THEN UNCHANGED running
                ELSE \E S \in SUBSET fit : running' = Written(S, f, nw)
  /\ UNCHANGED <<editor, work>>

-----------------------------------------------------------------------------
\* Names of networks are unique, and a network in use is not removed.
NamesFree(nw) ==
  \A m, n \in NetId : m # n /\ nw[m].there /\ nw[n].there
    => <<nw[m].prefixed, nw[m].base>> # <<nw[n].prefixed, nw[n].base>>

InUse(sv, nw) == \A s \in StackService, n \in NetId :
                   sv[s].there /\ n \in sv[s].nets => nw[n].there

\* Another operator, or another tool.
Elsewhere ==
  /\ Budget(ComposeWork)
  /\ \/ /\ \E s \in StackService, sp \in Template \cup {Gone} :
             running' = [running EXCEPT ![s] = sp]
        /\ InUse(running', network) /\ UNCHANGED network
     \/ /\ \E n \in NetId, x \in Network :
             /\ network[n].there # x.there
             /\ network' = [network EXCEPT ![n] = IF x.there THEN x ELSE Unused]
        /\ NamesFree(network') /\ InUse(running, network') /\ UNCHANGED running
  /\ UNCHANGED editor

ComposeInit ==
  /\ network \in {nw \in [NetId -> {x \in Network : x.there} \cup {Unused}] : NamesFree(nw)}
  /\ running \in {sv \in [StackService -> Template] : InUse(sv, network)}
  /\ editor = Closed
  /\ work = 0

ComposeNext ==
  \/ ReadStack \/ WriteFile \/ EditFile \/ CloseFile
  \/ StackUpdate \/ StackUpdateRefused \/ Elsewhere

ComposeSpec == ComposeInit /\ [][ComposeNext]_composeVars

-----------------------------------------------------------------------------
\* Types.
ComposeTypeOK ==
  /\ running \in [StackService -> SpecOf]
  /\ network \in [NetId -> Network]
  /\ editor.phase \in {"closed", "services", "open", "saved"}
  /\ editor.services \in [StackService -> SpecOf]
  /\ editor.networks \in [NetId -> Network]
  /\ work \in Nat

\* A file that is saved, when nothing changed since it was made, changes the
\* field that was edited and nothing else of a service that has Docker's defaults
\* in all that the file does not write, whose sizes are whole, and whose networks
\* can be told apart: the stack's have its prefix and its label, the others
\* neither, and no two share a base (generateStackCompose, deployStack).
ClearName(n) ==
  /\ network[n].prefixed = network[n].own
  /\ Named(network[n].base, network) = {n}
SaveChangesOnlyEdit ==
  [][ /\ editor.phase = "open" /\ editor'.phase = "saved"
      /\ editor.services = running /\ editor.networks = network
      => \A s \in StackService :
           LET old == running[s]  new == running'[s]
           IN /\ old.there /\ ~old.extra /\ old.halves % 2 = 0
              /\ \A n \in old.nets : ClearName(n)
              => new = [old EXCEPT !.image = IF s \in editor.edited THEN new.image ELSE @]
    ]_composeVars

\* "preserves all fields" (README.md:34): the same for every service on networks
\* that can be told apart, whatever else it has (generateStackCompose).
PreservesAllFields ==
  [][ /\ editor.phase = "open" /\ editor'.phase = "saved"
      /\ editor.services = running /\ editor.networks = network
      => \A s \in StackService :
           LET old == running[s]  new == running'[s]
           IN old.there /\ (\A n \in old.nets : ClearName(n))
              => new = [old EXCEPT !.image = IF s \in editor.edited THEN new.image ELSE @]
    ]_composeVars
=============================================================================
