----------------------------- MODULE LaunchOrder -----------------------------
(***************************************************************************)
(* The launch order of `up`, computed once for every depends_on graph of a *)
(* scope's services and every set of them to launch, and compared with     *)
(* reference definitions.                                                  *)
(***************************************************************************)
EXTENDS TopologicalOrder

CONSTANTS NumServices,  \* how many services the scope declares
          DepLists      \* the depends_on lists a service may have

Services == 1..NumServices
Unknown == NumServices + 1   \* a name no service of the scope has

Pattern == {"bare", "qualified", "foreign"} \X (1..Unknown)

ASSUME LaunchOrderConstants ==
    NumServices \in Nat /\ \A list \in DepLists : list \in Seq(Pattern)

VARIABLES deps,      \* service -> depends_on list
          subset,    \* the services `up` has to launch
          order,     \* the launch order computed
          phase      \* whether it was computed

orderVars == <<deps, subset, order, phase>>

OrderInit ==
    /\ deps \in [Services -> DepLists]
    /\ subset = {}
    /\ order = <<>>
    /\ phase = "read"

(* `up` reads a manifest the validator may never have seen.                *)
Order ==
    /\ phase = "read"
    /\ phase' = "ordered"
    /\ subset' \in SUBSET Services
    /\ order' = TopologicalOrder(deps, subset')
    /\ UNCHANGED deps

OrderSpec == OrderInit /\ [][Order]_orderVars

-----------------------------------------------------------------------------
(* Reference definitions: the dependency relation of the services in T,    *)
(* as readiness is polled for it, and that no walk along it is closed.     *)
Edge(T, kinds) ==
    {pair \in T \X T : \E i \in 1..Len(deps[pair[1]]) :
        deps[pair[1]][i][1] \in kinds /\ deps[pair[1]][i][2] = pair[2]}

LoopFree(T, E) ==
    \A n \in 1..Cardinality(T) : \A walk \in [0..n -> T] :
        (\A i \in 1..n : <<walk[i - 1], walk[i]>> \in E) => walk[0] # walk[n]

Acyclic(T, kinds) == LoopFree(T, Edge(T, kinds))

(* s depends on no other service that is launched with it.                 *)
Free(s) == LocalAt(deps, subset, s, AtLaunch) = {}

(* The launch order names every service to launch exactly once, even when  *)
(* a dependency cycle slipped past the validator; without one, each comes  *)
(* after those it depends on, however the pattern is spelled; and those    *)
(* that depend on no other launched one keep their manifest order.         *)
OrderCorrect ==
    phase = "ordered" =>
        /\ Len(order) = Cardinality(subset) /\ Range(order) = subset
        /\ Acyclic(subset, AtLaunch) =>
              \A i, j \in 1..Len(order) :
                  <<order[i], order[j]>> \in Edge(subset, AtLaunch) => j < i
        /\ \A i, j \in 1..Len(order) :
              i < j /\ Free(order[i]) /\ Free(order[j]) => order[i] < order[j]

=============================================================================
