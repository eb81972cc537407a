------------------------------ MODULE MCConsole ------------------------------
(* Specs for the stack editor and for the lists. *)
EXTENDS Console

MCTemplate ==
  {[there |-> TRUE, image |-> "i1", halves |-> 2, extra |-> FALSE, mode |-> 1,
    nets |-> NetId, uses |-> FALSE],
   [there |-> TRUE, image |-> "i1", halves |-> 1, extra |-> TRUE, mode |-> Global,
    nets |-> {"n1"}, uses |-> FALSE],
   [there |-> TRUE, image |-> "i1", halves |-> 2, extra |-> FALSE, mode |-> Job,
    nets |-> {"n2"}, uses |-> TRUE]}

MCViewSpec ==
  {[there |-> TRUE, stack |-> "a", mode |-> "replicated", replicas |-> 2, nets |-> {"n1"}],
   [there |-> TRUE, stack |-> "a", mode |-> "global", replicas |-> 0, nets |-> {"host"}],
   [there |-> TRUE, stack |-> "b", mode |-> "job", replicas |-> 0, nets |-> {"n1"}]}
=============================================================================
