----------------------------- MODULE MCLifecycle -----------------------------
(* Small instances of Lifecycle.  The launch order is checked to be the    *)
(* one that the translation of _topological_order computes.                *)
EXTENDS Lifecycle, TopologicalOrder, TLC

CONSTANTS p1, p2, p3,  \* invocations
          extDb        \* a dependency in another scope

(* Service 1 is declared first but depends on service 2 and on another     *)
(* scope: launch order and declared order differ.                          *)
MCExternal == {extDb}
MCDependsOn == (1 :> <<2, extDb>>) @@ (2 :> <<>>)
MCRetries == (1 :> 0) @@ (2 :> 1)

(* Service 2 before service 1 ...                                          *)
MCLaunchRank == [T \in SUBSET Services |-> [s \in Services |-> 3 - s]]

(* ... which is the order that _topological_order computes of DependsOn.   *)
Pattern(d) == IF d \in Services THEN <<"bare", d>> ELSE <<"foreign", 1>>

ASSUME LaunchRankIsTopologicalOrder ==
    \A T \in SUBSET Services :
        LET deps == [s \in Services |->
                        [i \in 1..Len(DependsOn[s]) |-> Pattern(DependsOn[s][i])]]
            order == TopologicalOrder(deps, T)
        IN  \A i, j \in 1..Len(order) :
                i < j <=> LaunchRank[T][order[i]] < LaunchRank[T][order[j]]

(* A restart names the services the other way round.                       *)
Job(cmd, req, retry, resolves) ==
    [cmd |-> cmd, req |-> req, retry |-> retry, resolves |-> resolves,
     place |-> [s \in Services |-> NumServices - s]]

(* Every command, whole and partial, with and without retries, and a call  *)
(* in which the line of service 2 does not resolve.                        *)
MixedJobs ==
    {Job("up", {}, FALSE, Services), Job("up", {2}, TRUE, Services),
     Job("up", {2}, FALSE, {1}), Job("down", {}, FALSE, {}),
     Job("down", {2}, FALSE, {}), Job("restart", {1, 2}, FALSE, Services),
     Job("restart", {2}, FALSE, {1})}

MCLayouts == {Services, {2}}

(* Only partial ups of one service.                                        *)
PartialUps == {Job("up", {}, FALSE, Services), Job("up", {2}, FALSE, Services)}

(* Invocations are interchangeable (safety only).                          *)
Symmetry == Permutations(Procs)

=============================================================================
