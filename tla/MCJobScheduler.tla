-------------------------- MODULE MCJobScheduler --------------------------
(***************************************************************************)
(* A small instance of JobScheduler.  Each job is registered with any of   *)
(* the definitions, so that the dependencies form chains, diamonds and     *)
(* cycles, and the groups are shared or not.                               *)
(***************************************************************************)
EXTENDS JobScheduler, TLC

CONSTANTS a, b, c

Definitions ==
    LET def(type, schedule, dependencies, priority, group, skip) ==
          [type |-> type, schedule |-> schedule, dependencies |-> dependencies,
           priority |-> priority, group |-> group, skip_missed_occurrences |-> skip]
    IN  {def("recurring", 1, <<>>, "low", "g", TRUE),
         def("delayed", 1, <<>>, "normal", "g", FALSE),
         def("recurring", 2, <<a, b>>, "normal", "g", FALSE),
         def("cron", 1, <<c>>, "low", "h", FALSE)}

Jobs == {a, b, c}
============================================================================
