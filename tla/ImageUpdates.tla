----------------------------- MODULE ImageUpdates -----------------------------
(***************************************************************************)
(* The checker of image updates (internal/api/features.go): a goroutine    *)
(* and requests compare, service by service, the digest an image is pinned *)
(* to with the registry's, and write the same map.                         *)
(***************************************************************************)
EXTENDS Bounded

CONSTANTS
  Svc,        \* service ids
  Digest,     \* image digests
  Unpinned,   \* an image without a digest
  Loop,       \* the goroutine of StartImageUpdateChecker
  Asker,      \* requests (CheckImageUpdates)
  ImageWork   \* bound: requests, pushes, deployments, failures, restarts

ASSUME ImageUpdatesAssumption ==
  /\ Unpinned \notin Digest /\ Digest # {}
  /\ Loop \notin Asker
  /\ ImageWork \in Nat

VARIABLES
  deployed,  \* services of the swarm
  image,     \* [Svc -> Digest or Unpinned]: what a service runs
  remote,    \* [Svc -> Digest]: what the registry has for its reference
  data,      \* [Svc -> BOOLEAN]: imageUpdates.data; FALSE also for no entry
  checker,   \* [Checker -> the list it took, and the answer it holds]
  ran,       \* [Svc -> images it has had] (history)
  published  \* [Svc -> digests the registry has had] (history)

imageVars == <<deployed, image, remote, data, checker, ran, published, work>>

Checker == Asker \cup {Loop}

Behind(s) == image[s] # Unpinned /\ image[s] # remote[s]

NoList == [todo |-> {}, image |-> image, held |-> {}, hasUpdate |-> FALSE]

-----------------------------------------------------------------------------
\* docker.Services; on an error the round, or the request, ends.
ListServices(k) ==
  /\ checker[k].todo = {} /\ checker[k].held = {}
  /\ IF k = Loop THEN UNCHANGED work ELSE Budget(ImageWork)
  /\ checker' = [checker EXCEPT ![k] = [NoList EXCEPT !.todo = deployed]]
  /\ UNCHANGED <<deployed, image, remote, data, ran, published>>

\* Seeded fault: a digest that could not be fetched counts as another digest.
FetchRemoteDigestEmpty(k, s) ==
  /\ s \in checker[k].todo /\ checker[k].held = {}
  /\ LET pinned == checker[k].image[s]
     IN \/ /\ checker' = [checker EXCEPT ![k].held = {s},
                  ![k].hasUpdate = pinned # Unpinned /\ pinned # remote[s]]
           /\ UNCHANGED work
        \/ /\ checker' = [checker EXCEPT ![k].held = {s}, ![k].hasUpdate = pinned # Unpinned]
           /\ Budget(ImageWork)
  /\ UNCHANGED <<deployed, image, remote, data, ran, published>>

\* checkRegistryDigest: the image of the list against the registry of now; an
\* image that is not pinned, and a registry that does not answer, have no update.
FetchRemoteDigest(k, s) ==
  /\ s \in checker[k].todo /\ checker[k].held = {}
  /\ LET pinned == checker[k].image[s]
     IN \/ /\ checker' = [checker EXCEPT ![k].held = {s},
                  ![k].hasUpdate = pinned # Unpinned /\ pinned # remote[s]]
           /\ UNCHANGED work
        \/ /\ checker' = [checker EXCEPT ![k].held = {s}, ![k].hasUpdate = FALSE]
           /\ pinned # Unpinned /\ Budget(ImageWork)
  /\ UNCHANGED <<deployed, image, remote, data, ran, published>>

\* Seeded fault: only a service with an update is written.
StoreUpdatesOnly(k) ==
  /\ checker[k].held # {}
  /\ data' = [s \in Svc |-> data[s] \/ (s \in checker[k].held /\ checker[k].hasUpdate)]
  /\ checker' = [checker EXCEPT ![k].todo = @ \ checker[k].held, ![k].held = {}]
  /\ UNCHANGED <<deployed, image, remote, ran, published, work>>

\* The answer is written under the lock, whoever asked last.
StoreAnswer(k) ==
  /\ checker[k].held # {}
  /\ data' = [s \in Svc |-> IF s \in checker[k].held THEN checker[k].hasUpdate ELSE data[s]]
  /\ checker' = [checker EXCEPT ![k].todo = @ \ checker[k].held, ![k].held = {}]
  /\ UNCHANGED <<deployed, image, remote, ran, published, work>>

-----------------------------------------------------------------------------
\* A push to the registry.
ImagePush ==
  /\ Budget(ImageWork)
  /\ \E s \in Svc, d \in Digest :
       /\ remote' = [remote EXCEPT ![s] = d]
       /\ published' = [published EXCEPT ![s] = @ \cup {d}]
  /\ UNCHANGED <<deployed, image, data, checker, ran>>

\* A service is made, or gets another image, or is removed: an id is used once.
ImageDeploy ==
  /\ Budget(ImageWork)
  /\ \/ \E s \in Svc, d \in Digest \cup {Unpinned} :
          /\ s \in deployed \/ ran[s] = {}
          /\ deployed' = deployed \cup {s}
          /\ image' = [image EXCEPT ![s] = d] /\ ran' = [ran EXCEPT ![s] = @ \cup {d}]
     \/ \E s \in deployed : deployed' = deployed \ {s} /\ UNCHANGED <<image, ran>>
  /\ UNCHANGED <<remote, data, checker, published>>

ImageRestart ==
  /\ Budget(ImageWork)
  /\ data' = [s \in Svc |-> FALSE]
  /\ checker' = [k \in Checker |-> NoList]
  /\ UNCHANGED <<deployed, image, remote, ran, published>>

CheckerStep(k) == (\E s \in Svc : FetchRemoteDigest(k, s)) \/ StoreAnswer(k)

ImageUpdatesInit ==
  /\ deployed = {} /\ image = [s \in Svc |-> Unpinned]
  /\ remote = [s \in Svc |-> CHOOSE d \in Digest : TRUE]
  /\ data = [s \in Svc |-> FALSE]
  /\ checker = [k \in Checker |-> NoList]
  /\ ran = [s \in Svc |-> {}]
  /\ published = [s \in Svc |-> {remote[s]}]
  /\ work = 0

ImageUpdatesNext ==
  \/ \E k \in Checker : ListServices(k) \/ CheckerStep(k)
  \/ ImagePush \/ ImageDeploy \/ ImageRestart

ImageUpdatesSpec == ImageUpdatesInit /\ [][ImageUpdatesNext]_imageVars

-----------------------------------------------------------------------------
\* Types.
ImageUpdatesTypeOK ==
  /\ deployed \in SUBSET Svc
  /\ image \in [Svc -> Digest \cup {Unpinned}]
  /\ remote \in [Svc -> Digest]
  /\ data \in [Svc -> BOOLEAN]
  /\ checker \in [Checker -> [todo : SUBSET Svc, image : [Svc -> Digest \cup {Unpinned}],
                              held : SUBSET Svc, hasUpdate : BOOLEAN]]
  /\ ran \in [Svc -> SUBSET (Digest \cup {Unpinned})] /\ published \in [Svc -> SUBSET Digest]
  /\ work \in Nat

\* A service is shown with an update only if it was pinned to one digest and the
\* registry had another: a registry that fails, and copies that are old by the
\* time they are compared, make no update up (checkRegistryDigest).
ShownWasTrue == \A s \in Svc : data[s] =>
  \E d \in ran[s] \ {Unpinned}, e \in published[s] : d # e

\* Once pushes and deployments stop, what is shown of every service becomes and
\* stays right, although answers of older checks are written over newer ones.
ShownConverges == <>[](\A s \in deployed : data[s] = Behind(s))
=============================================================================
