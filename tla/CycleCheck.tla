------------------------------ MODULE CycleCheck ------------------------------
(***************************************************************************)
(* The manifest validator's check of depends_on, its depth-first search    *)
(* one step at a time, beside the launch order that `up` computes of the   *)
(* same lists.                                                             *)
(***************************************************************************)
EXTENDS LaunchOrder, Lists

VARIABLES scopeKnown,\* the validator knows the scope's name ("workspace" only)
          verdict,   \* the violations the validator reports
          checking,  \* how far it is: "unread", "searching" or "done"
          search     \* [color, stack, seen]: seen[s] neighbours of s were looked at

vars == <<orderVars, scopeKnown, verdict, checking, search>>

-----------------------------------------------------------------------------
(* Mutation of AtValidation: the validator never knows the scope's name.   *)
AtValidationBare(known) == {"bare"}

(* The validator takes self-qualified patterns as local only when it knows *)
(* the scope's name.                                                       *)
AtValidation(known) == IF known THEN AtLaunch ELSE {"bare"}

(* graph[s]: whom s names besides itself, in declared order.               *)
Neighbours(s) ==
    LET kept == Filtered(deps[s], AtValidation(scopeKnown) \X (Services \ {s}))
    IN  [i \in 1..Len(kept) |-> kept[i][2]]

(* Which kinds of violation _check_depends_on reports before the search.   *)
Violations(D, known) ==
    LET kinds == AtValidation(known)
        Named(s) == {D[s][i][2] : i \in {k \in 1..Len(D[s]) : D[s][k][1] \in kinds}}
    IN  [self |-> \E s \in Services : s \in Named(s),
         unknown |-> \E s \in Services : Unknown \in Named(s),
         cycle |-> <<>>]

Accepted(v) == ~v.self /\ ~v.unknown /\ v.cycle = <<>>

-----------------------------------------------------------------------------
Unread == [self |-> FALSE, unknown |-> FALSE, cycle |-> <<>>]

White == [color |-> [s \in Services |-> "white"], stack |-> <<>>,
          seen |-> [s \in Services |-> 0]]

Init ==
    /\ OrderInit /\ scopeKnown \in BOOLEAN
    /\ verdict = Unread /\ checking = "unread" /\ search = White

Collect ==
    /\ checking = "unread"
    /\ checking' = "searching"
    /\ verdict' = Violations(deps, scopeKnown)
    /\ UNCHANGED <<orderVars, scopeKnown, search>>

(* _find_depends_on_cycle, _dfs: white/gray/black depth-first search.  The *)
(* services on the stack are those whose call of _dfs has not returned.    *)
Entered(s, n) == [s EXCEPT !.color[n] = "gray", !.stack = Append(@, n)]

(* Mutation of Unvisited: the search starts from the first service only.   *)
UnvisitedFirst == {n \in Services : n = 1 /\ search.color[n] = "white"}

Unvisited == {n \in Services : search.color[n] = "white"}

(* `for node in graph` finds the next white service, or none.              *)
Root ==
    /\ checking = "searching" /\ search.stack = <<>>
    /\ \E n \in Unvisited :
          /\ \A m \in Unvisited : n <= m
          /\ search' = Entered(search, n)
    /\ UNCHANGED <<orderVars, scopeKnown, verdict, checking>>

NoCycle ==
    /\ checking = "searching" /\ search.stack = <<>> /\ Unvisited = {}
    /\ checking' = "done"
    /\ UNCHANGED <<orderVars, scopeKnown, verdict, search>>

Innermost == search.stack[Len(search.stack)]

(* `for neighbor in graph[node]` goes on to n.                             *)
LooksAt(n) ==
    /\ checking = "searching" /\ search.stack # <<>>
    /\ search.seen[Innermost] < Len(Neighbours(Innermost))
    /\ n = Neighbours(Innermost)[search.seen[Innermost] + 1]

Looked == [search EXCEPT !.seen[Innermost] = @ + 1]

(* A gray neighbour closes a cycle: the search returns it.                 *)
Close(n) ==
    /\ LooksAt(n) /\ search.color[n] = "gray"
    /\ \E from \in 1..Len(search.stack) :
          /\ search.stack[from] = n
          /\ verdict' = [verdict EXCEPT !.cycle =
                            Append(SubSeq(search.stack, from, Len(search.stack)), n)]
    /\ checking' = "done"
    /\ UNCHANGED <<orderVars, scopeKnown, search>>

Enter(n) ==
    /\ LooksAt(n) /\ search.color[n] = "white"
    /\ search' = Entered(Looked, n)
    /\ UNCHANGED <<orderVars, scopeKnown, verdict, checking>>

Pass(n) ==
    /\ LooksAt(n) /\ search.color[n] = "black"
    /\ search' = Looked
    /\ UNCHANGED <<orderVars, scopeKnown, verdict, checking>>

Leave ==
    /\ checking = "searching" /\ search.stack # <<>>
    /\ search.seen[Innermost] = Len(Neighbours(Innermost))
    /\ search' = [search EXCEPT !.color[Innermost] = "black",
                                !.stack = SubSeq(@, 1, Len(@) - 1)]
    /\ UNCHANGED <<orderVars, scopeKnown, verdict, checking>>

Search == Root \/ NoCycle \/ (\E n \in Services : Close(n) \/ Enter(n) \/ Pass(n)) \/ Leave

(* Neither reads what the other computes: one order of the two is enough.  *)
Next ==
    \/ Collect
    \/ Search
    \/ checking = "done" /\ Order /\ UNCHANGED <<scopeKnown, verdict, checking, search>>

Spec == Init /\ [][Next]_vars

-----------------------------------------------------------------------------
(* What the validator takes as a dependency on another service.            *)
Dependency == {pair \in Edge(Services, AtValidation(scopeKnown)) : pair[1] # pair[2]}

(* The validator reports a cycle exactly when the dependencies it looks at *)
(* have one, and what it prints is a cycle through distinct services.      *)
CycleReportExact ==
    checking = "done" =>
        LET c == verdict.cycle
        IN  /\ (c = <<>>) <=> LoopFree(Services, Dependency)
            /\ c # <<>> => /\ c[1] = c[Len(c)]
                           /\ \A i \in 1..(Len(c) - 1) : <<c[i], c[i + 1]>> \in Dependency
                           /\ \A i, j \in 1..(Len(c) - 1) : c[i] = c[j] => i = j

(* A scope whose name the validator knows, accepted by it, has no cycle at *)
(* launch time; an environment's manifest has none either unless it spells *)
(* a dependency with the environment's own name.                           *)
AcceptedNeverDeadlocks ==
    checking = "done" =>
        LET spelled == \E s \in Services : \E i \in 1..Len(deps[s]) :
                          deps[s][i][1] = "qualified"
        IN  Accepted(verdict) /\ (scopeKnown \/ ~spelled) => Acyclic(Services, AtLaunch)

=============================================================================
