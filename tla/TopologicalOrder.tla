--------------------------- MODULE TopologicalOrder ---------------------------
(***************************************************************************)
(* _topological_order, a pure function of the services to launch and their *)
(* depends_on lists.  A service is its position in the manifest.  A        *)
(* depends_on pattern is a pair <<kind, name>>: "bare" ("db"), "qualified" *)
(* with the scope's own name ("alpha/db") or "foreign" ("workspace/db"     *)
(* from an environment).                                                   *)
(***************************************************************************)
EXTENDS Integers, Sequences, FiniteSets, Functions

(* _local_dep_name takes bare and self-qualified patterns as local.        *)
AtLaunch == {"bare", "qualified"}

(* Where the list of s names another service of T, repeats included.       *)
LocalAt(D, T, s, kinds) ==
    {i \in 1..Len(D[s]) : D[s][i][1] \in kinds /\ D[s][i][2] \in T \ {s}}

(* [s for s in services if s in T], services being 1..N.                   *)
Declared(N, T) ==
    LET kept[n \in 0..N] ==
            IF n = 0 THEN <<>>
            ELSE IF n \in T THEN Append(kept[n - 1], n)
            ELSE kept[n - 1]
    IN  kept[N]

InDegrees(D, T) == [s \in T |-> Cardinality(LocalAt(D, T, s, AtLaunch))]

(* dependents[name]: how often each service names it.                      *)
Dependents(D, T, name) ==
    [s \in T |-> Cardinality({i \in LocalAt(D, T, s, AtLaunch) : D[s][i][2] = name})]

(* One turn of `while ready`: the freed dependents join the queue's tail,  *)
(* in the order in which dependents[name] has them, which is the declared  *)
(* one.                                                                    *)
Pop(D, T, loop) ==
    LET freeing == Dependents(D, T, Head(loop.ready))
        after == [s \in T |-> loop.degree[s] - freeing[s]]
        freed == {s \in T : loop.degree[s] > 0 /\ after[s] = 0}
    IN  IF loop.ready = <<>>
        THEN loop
        ELSE [ready |-> Tail(loop.ready) \o Declared(Len(D), freed), degree |-> after,
              ordered |-> Append(loop.ordered, Head(loop.ready))]

(* The queue when the loop begins.                                         *)
Start(D, T) ==
    [ready |-> Declared(Len(D), {s \in T : InDegrees(D, T)[s] = 0}),
     degree |-> InDegrees(D, T), ordered |-> <<>>]

(* `ordered` when the queue is empty: every turn takes one service.        *)
Drained(D, T) ==
    LET loop[n \in 0..Cardinality(T)] ==
            IF n = 0 THEN Start(D, T) ELSE Pop(D, T, loop[n - 1])
    IN  loop[Cardinality(T)].ordered

(* Mutation of TopologicalOrder: what a cycle keeps out is forgotten.      *)
TopologicalOrderDrained(D, T) == Drained(D, T)

(* _topological_order as a function of its arguments: what a cycle keeps   *)
(* out of the queue is appended at the end.                                *)
TopologicalOrder(D, T) ==
    LET drained == Drained(D, T)
    IN  drained \o Declared(Len(D), T \ Range(drained))

===============================================================================
