------------------------------ MODULE MCWebMemory ------------------------------
(* WebMemory on small instances.                                               *)
EXTENDS WebMemory
CONSTANTS f1, f2

Case(facts, told, n, follow) ==
  [facts |-> facts, told |-> told, events |-> n, switch |-> follow]
Cases == {Case({f1, f2}, {f1}, 0, FALSE), Case({f1}, {f1}, 3, FALSE),
          Case({}, {}, 3, TRUE), Case({f1}, {}, 1, TRUE)}
=============================================================================
