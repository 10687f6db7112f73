------------------------------- MODULE MCStore -------------------------------
\* Store on small instances.
EXTENDS Store, TLC

CONSTANTS p1, w1, w2, h1, c1, c2

OneProject == [w \in Workloads |-> p1]

Subdomain == [w \in Workloads |-> h1]

\* All calls beside each other for one workload; two workloads of one name, with
\* the calls that put and take routes, workloads and projects.
WorldsOfAll ==
    {{"create", "deleteProject", "deleteWorkload", "removeRoute",
      "editProject", "editWorkload", "setState", "addRoute", "note"},
     {"create", "add", "deleteProject", "deleteWorkload", "addRoute", "removeRoute"}}

Swap == Permutations({c1, c2}) \cup Permutations({w1, w2})
=============================================================================
