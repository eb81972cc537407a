------------------------------ MODULE AtomicEdits ------------------------------
(***************************************************************************)
(* What the service and stack handlers of internal/api/handlers.go promise *)
(* to someone who watches only the services: every change is one edit, of  *)
(* one service, made from the service as it is at that moment.  There are  *)
(* no requests, no copies and no versions here.  Deployments implements it.*)
(***************************************************************************)
EXTENDS Integers

CONSTANTS Service, Global, NoSpec, InitSpecs, BodySpecs

VARIABLE services  \* [Service -> [state, spec, prev]]

\* b may take the place of o.spec: a forced update, a new replica count, the
\* spec before the last update, or a spec somebody asked for.  A count replaces
\* a count: no edit changes the mode of a service.
IsEdit(o, b) ==
  \/ b = [o.spec EXCEPT !.force = @ + 1]
  \/ /\ o.spec.replicas # Global /\ b.replicas \in Nat
     /\ b = [o.spec EXCEPT !.replicas = b.replicas]
  \/ o.prev # NoSpec /\ b = o.prev
  \/ b \in BodySpecs /\ (b.replicas = Global) = (o.spec.replicas = Global)

Create(s, b) ==
  /\ services[s].state = "none"
  /\ services' = [services EXCEPT ![s] = [state |-> "live", spec |-> b, prev |-> NoSpec]]

Edit(s) ==
  /\ services[s].state = "live"
  /\ IsEdit(services[s], services'[s].spec)
  /\ services' = [services EXCEPT ![s] =
       [state |-> "live", spec |-> services'[s].spec, prev |-> services[s].spec]]

Remove(s) ==
  /\ services[s].state = "live"
  /\ services' = [services EXCEPT ![s] =
       [state |-> "gone", spec |-> services[s].spec, prev |-> services[s].prev]]

Init ==
  services \in [Service -> [state : {"none", "live"}, spec : InitSpecs, prev : {NoSpec}]]

\* A step that leaves every service as it is is a stutter.
Next ==
  /\ services' # services
  /\ \E s \in Service :
       \/ \E b \in BodySpecs : Create(s, b)
       \/ Edit(s)
       \/ Remove(s)

Spec == Init /\ [][Next]_services
=============================================================================
