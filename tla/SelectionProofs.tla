--------------------------- MODULE SelectionProofs ---------------------------
(***************************************************************************)
(* The promises of Selection, for all patterns, manifests and sessions and *)
(* whatever others do meanwhile.                                           *)
(*                                                                         *)
(* They are promises about the end of a command.  SelInv says what makes   *)
(* them come true: at every step the targets cover the patterns, what is   *)
(* asked for is reached, what was passed is still plannable where nobody   *)
(* interfered, and what a loop has behind it is served.                    *)
(***************************************************************************)
EXTENDS Selection, ListLemmas

-----------------------------------------------------------------------------
(* The operators: what patterns select.                                    *)

Pairs == Scopes \X Services

(* A pattern as Commands may hold it.                                      *)
Proper(pat) == pat \in Pattern /\ (~pat.glob => \E e \in Scopes : pat.envs = {e})

(* What a pattern selects: the pairs it matches whose service is in the    *)
(* catalog and whose scope, if it is a glob, was listed as running.        *)
HitSet(pat, catalog, running) ==
    {pair \in Pairs : /\ Matches(pat, pair) /\ Holds(catalog, pair[2])
                      /\ pat.glob => Holds(running, pair[1])}

LEMMA CandidatesHold ==
    ASSUME NEW pat, Proper(pat), NEW running \in Seq(Scopes)
    PROVE  /\ Candidates(pat, running) \in Seq(Scopes)
           /\ \A e : Holds(Candidates(pat, running), e)
                        <=> e \in pat.envs /\ (pat.glob => Holds(running, e))
<1>1. CASE pat.glob
  <2>1. /\ Filtered(running, pat.envs) \in Seq(Scopes)
        /\ \A e : Holds(Filtered(running, pat.envs), e) <=> Holds(running, e) /\ e \in pat.envs
    BY FilteredHolds
  <2>2. QED BY <1>1, <2>1 DEF Candidates
<1>2. CASE ~pat.glob
  <2>1. PICK e \in Scopes : pat.envs = {e} BY <1>2 DEF Proper
  <2>2. Candidates(pat, running) = <<e>> BY <1>2, <2>1 DEF Candidates, Segment
  <2>3. <<e>> \in Seq(Scopes) /\ \A x : Holds(<<e>>, x) <=> x = e BY DEF Holds
  <2>4. QED BY <1>2, <2>1, <2>2, <2>3
<1>3. QED BY <1>1, <1>2

LEMMA EmptyHolds ==
    ASSUME NEW T, NEW list \in Seq(T)
    PROVE  list = <<>> <=> \A x : ~Holds(list, x)
<1>1. CASE list = <<>> BY <1>1 DEF Holds
<1>2. CASE list # <<>>
  <2>1. 1 \in 1..Len(list) BY <1>2
  <2>2. Holds(list, list[1]) BY <2>1 DEF Holds
  <2>3. QED BY <1>2, <2>2
<1>3. QED BY <1>1, <1>2

LEMMA HitsHold ==
    ASSUME NEW pat, Proper(pat), NEW catalog \in Seq(Services), NEW running \in Seq(Scopes)
    PROVE  /\ Hits(pat, catalog, running) \in Seq(Pairs)
           /\ \A x : Holds(Hits(pat, catalog, running), x) <=> x \in HitSet(pat, catalog, running)
           /\ Hits(pat, catalog, running) = <<>> <=> HitSet(pat, catalog, running) = {}
<1> DEFINE envs == Candidates(pat, running)
           named == Filtered(catalog, pat.svcs)
           perEnv(e) == [i \in 1..Len(named) |-> <<e, named[i]>>]
           lists == [i \in 1..Len(envs) |-> perEnv(envs[i])]
           hits == Hits(pat, catalog, running)
<1>1. /\ envs \in Seq(Scopes)
      /\ \A e : Holds(envs, e) <=> e \in pat.envs /\ (pat.glob => Holds(running, e))
  BY CandidatesHold
<1>2. /\ named \in Seq(Services)
      /\ \A s : Holds(named, s) <=> Holds(catalog, s) /\ s \in pat.svcs
  BY FilteredHolds
<1>3. hits = Joined(lists) BY DEF Hits
<1> HIDE DEF envs, named, hits
<1>4. Len(envs) \in Nat /\ Len(named) \in Nat BY <1>1, <1>2
<1>5. ASSUME NEW e \in Scopes
      PROVE  /\ perEnv(e) \in Seq(Pairs)
             /\ \A x : Holds(perEnv(e), x) <=> \E s : Holds(named, s) /\ x = <<e, s>>
  <2>1. \A i \in 1..Len(named) : <<e, named[i]>> \in Pairs BY <1>2 DEF Pairs
  <2>2. perEnv(e) \in Seq(Pairs) /\ Len(perEnv(e)) = Len(named) BY <1>4, <2>1
  <2>3. QED BY <2>2 DEF Holds
<1>6. lists \in Seq(Seq(Pairs)) /\ Len(lists) = Len(envs)
  <2>1. \A i \in 1..Len(envs) : envs[i] \in Scopes BY <1>1
  <2> HIDE DEF perEnv
  <2>2. QED BY <1>4, <1>5, <2>1
<1>7. \A i \in 1..Len(envs) : lists[i] = perEnv(envs[i]) /\ envs[i] \in Scopes BY <1>1
<1> HIDE DEF lists, perEnv
<1>8. /\ hits \in Seq(Pairs)
      /\ \A x : Holds(hits, x) <=> \E i \in 1..Len(lists) : Holds(lists[i], x)
  BY <1>3, <1>6, JoinedHolds
<1>9. ASSUME NEW x
      PROVE  Holds(hits, x) <=> \E e, s : Holds(envs, e) /\ Holds(named, s) /\ x = <<e, s>>
  <2>1. Holds(hits, x) <=> \E i \in 1..Len(envs) : Holds(perEnv(envs[i]), x)
    BY <1>6, <1>7, <1>8
  <2>2. \A i \in 1..Len(envs) :
           Holds(perEnv(envs[i]), x) <=> \E s : Holds(named, s) /\ x = <<envs[i], s>>
    BY <1>5, <1>7
  <2>3. Holds(hits, x)
           <=> \E i \in 1..Len(envs) : \E s : Holds(named, s) /\ x = <<envs[i], s>>
    BY <2>1, <2>2
  <2>4. \A e : Holds(envs, e) <=> \E i \in 1..Len(envs) : envs[i] = e BY DEF Holds
  <2>5. QED BY <2>3, <2>4
<1>10. \A e : e \in pat.envs => e \in Scopes BY DEF Proper, Pattern
<1>11. \A s : Holds(named, s) => s \in Services BY <1>2 DEF Holds
<1>12. ASSUME NEW x PROVE Holds(hits, x) <=> x \in HitSet(pat, catalog, running)
  BY <1>1, <1>2, <1>9, <1>10, <1>11 DEF HitSet, Pairs, Matches
<1>13. hits = <<>> <=> \A x : ~Holds(hits, x) BY <1>8, EmptyHolds
<1>14. hits = <<>> <=> HitSet(pat, catalog, running) = {} BY <1>12, <1>13
<1>15. QED BY <1>8, <1>12, <1>14 DEF hits

LEMMA UnderHolds ==
    ASSUME NEW pairs \in Seq(Pairs), NEW e \in Scopes
    PROVE  /\ Under(e, pairs) \in Seq(Services)
           /\ \A s : Holds(Under(e, pairs), s) <=> Holds(pairs, <<e, s>>)
<1> DEFINE mine == Filtered(pairs, {e} \X Services)
           under == [i \in 1..Len(mine) |-> mine[i][2]]
<1>1. /\ mine \in Seq(Pairs)
      /\ \A x : Holds(mine, x) <=> Holds(pairs, x) /\ x \in {e} \X Services
  BY FilteredHolds
<1>2. Under(e, pairs) = under BY DEF Under
<1> HIDE DEF mine
<1>3. \A i \in 1..Len(mine) : /\ mine[i] \in {e} \X Services /\ mine[i][2] \in Services
                              /\ mine[i] = <<e, mine[i][2]>>
  BY <1>1 DEF Holds
<1>4. Len(mine) \in Nat BY <1>1
<1>5. under \in Seq(Services) /\ Len(under) = Len(mine)
      /\ \A i \in 1..Len(mine) : under[i] = mine[i][2]
  BY <1>3, <1>4
<1> HIDE DEF under
<1>6. \A s : Holds(pairs, <<e, s>>) => s \in Services BY DEF Holds, Pairs
<1>7. ASSUME NEW s PROVE Holds(under, s) <=> Holds(mine, <<e, s>>)
  <2>1. ASSUME Holds(under, s) PROVE Holds(mine, <<e, s>>)
    <3>1. PICK i \in 1..Len(mine) : under[i] = s BY <1>5, <2>1 DEF Holds
    <3>2. mine[i] = <<e, s>> BY <1>3, <1>5, <3>1
    <3>3. QED BY <3>2 DEF Holds
  <2>2. ASSUME Holds(mine, <<e, s>>) PROVE Holds(under, s)
    <3>1. PICK i \in 1..Len(mine) : mine[i] = <<e, s>> BY <2>2 DEF Holds
    <3>2. under[i] = s BY <1>5, <3>1
    <3>3. QED BY <1>5, <3>2 DEF Holds
  <2>3. QED BY <2>1, <2>2
<1>8. QED BY <1>1, <1>2, <1>5, <1>6, <1>7

(* What Expand and its parts return: a list of targets, each with the      *)
(* services of one scope among the pairs.                                  *)
Groups(targets, S) ==
    /\ targets \in Seq(Target)
    /\ \A i \in 1..Len(targets) :
          /\ targets[i].svcs # <<>>
          /\ \A s : Holds(targets[i].svcs, s) => <<targets[i].scope, s>> \in S
    /\ \A pair \in S : \E i \in 1..Len(targets) :
          targets[i].scope = pair[1] /\ Holds(targets[i].svcs, pair[2])
    /\ \A i, j \in 1..Len(targets) : targets[i].scope = targets[j].scope => i = j

LEMMA ByScopeGroups ==
    ASSUME NEW pairs \in Seq(Pairs), NEW S \in SUBSET Pairs, \A x : Holds(pairs, x) <=> x \in S
    PROVE  Groups(ByScope(pairs), S)
<1> DEFINE all == [i \in 1..Len(pairs) |-> pairs[i][1]]
           scopes == Distinct(all)
           targets == [i \in 1..Len(scopes) |->
                          [scope |-> scopes[i], svcs |-> Under(scopes[i], pairs)]]
<1>1. Len(pairs) \in Nat /\ \A i \in 1..Len(pairs) : pairs[i][1] \in Scopes BY DEF Pairs
<1>2. all \in Seq(Scopes) /\ Len(all) = Len(pairs) BY <1>1
<1>3. /\ scopes \in Seq(Scopes) /\ NoRepeat(scopes)
      /\ \A e : Holds(scopes, e) <=> Holds(all, e)
  <2> HIDE DEF all
  <2>1. QED BY <1>2, DistinctHolds
<1>4. ByScope(pairs) = targets BY DEF ByScope
<1>5. \A e : Holds(all, e) <=> \E i \in 1..Len(pairs) : pairs[i][1] = e BY <1>2 DEF Holds
<1> HIDE DEF all, scopes
<1>6. Len(scopes) \in Nat /\ \A i \in 1..Len(scopes) : scopes[i] \in Scopes BY <1>3
<1>7. \A i \in 1..Len(scopes) : [scope |-> scopes[i], svcs |-> Under(scopes[i], pairs)] \in Target
  BY <1>6, UnderHolds DEF Target
<1>8. targets \in Seq(Target) /\ Len(targets) = Len(scopes) BY <1>6, <1>7
<1>9. \A i \in 1..Len(scopes) :
         targets[i].scope = scopes[i] /\ targets[i].svcs = Under(scopes[i], pairs)
  OBVIOUS
<1> HIDE DEF targets
<1>10. ASSUME NEW i \in 1..Len(scopes)
       PROVE  /\ targets[i].svcs # <<>>
              /\ \A s : Holds(targets[i].svcs, s) <=> Holds(pairs, <<targets[i].scope, s>>)
  <2>1. /\ Under(scopes[i], pairs) \in Seq(Services)
        /\ \A s : Holds(Under(scopes[i], pairs), s) <=> Holds(pairs, <<scopes[i], s>>)
    BY <1>6, UnderHolds
  <2>2. PICK k \in 1..Len(pairs) : pairs[k][1] = scopes[i] BY <1>3, <1>5 DEF Holds
  <2>3. pairs[k] = <<scopes[i], pairs[k][2]>> BY <2>2 DEF Pairs
  <2>4. Holds(Under(scopes[i], pairs), pairs[k][2]) BY <2>1, <2>3 DEF Holds
  <2>5. Under(scopes[i], pairs) # <<>> BY <2>4 DEF Holds
  <2>6. QED BY <1>9, <2>1, <2>5
<1>11. ASSUME NEW pair \in S
       PROVE  \E i \in 1..Len(targets) :
                 targets[i].scope = pair[1] /\ Holds(targets[i].svcs, pair[2])
  <2>1. PICK k \in 1..Len(pairs) : pairs[k] = pair BY DEF Holds
  <2>2. PICK i \in 1..Len(scopes) : scopes[i] = pair[1] BY <1>3, <1>5, <2>1 DEF Holds
  <2>3. pair = <<pair[1], pair[2]>> BY DEF Pairs
  <2>4. Holds(targets[i].svcs, pair[2]) BY <1>9, <1>10, <2>2, <2>3
  <2>5. QED BY <1>8, <1>9, <2>2, <2>4
<1>12. \A i, j \in 1..Len(scopes) : targets[i].scope = targets[j].scope => i = j
  BY <1>3, <1>9 DEF NoRepeat
<1>13. QED BY <1>4, <1>8, <1>10, <1>11, <1>12 DEF Groups

(* The pairs some pattern of the list selects.                             *)
Selected(pats, catalog, running) ==
    {pair \in Pairs : \E i \in 1..Len(pats) : pair \in HitSet(pats[i], catalog, running)}

LEMMA ExpandGroups ==
    ASSUME NEW pats, Len(pats) \in Nat, \A i \in 1..Len(pats) : Proper(pats[i]),
           NEW catalog \in Seq(Services), NEW running \in Seq(Scopes)
    PROVE  Groups(Expand(pats, catalog, running), Selected(pats, catalog, running))
<1> DEFINE lists == [i \in 1..Len(pats) |-> Hits(pats[i], catalog, running)]
           all == Joined(lists)
           pairs == Distinct(all)
           S == Selected(pats, catalog, running)
<1>1. \A i \in 1..Len(pats) : Hits(pats[i], catalog, running) \in Seq(Pairs) BY HitsHold
<1>2. lists \in Seq(Seq(Pairs)) /\ Len(lists) = Len(pats) BY <1>1
<1>3. \A i \in 1..Len(pats) : lists[i] = Hits(pats[i], catalog, running) OBVIOUS
<1>4. Expand(pats, catalog, running) = ByScope(pairs) BY DEF Expand
<1> HIDE DEF lists
<1>5. all \in Seq(Pairs) /\ \A x : Holds(all, x) <=> \E i \in 1..Len(lists) : Holds(lists[i], x)
  BY <1>2, JoinedHolds
<1> HIDE DEF all
<1>6. pairs \in Seq(Pairs) /\ \A x : Holds(pairs, x) <=> Holds(all, x) BY <1>5, DistinctHolds
<1> HIDE DEF pairs
<1>7. \A i \in 1..Len(pats) : \A x : Holds(lists[i], x) <=> x \in HitSet(pats[i], catalog, running)
  BY <1>3, HitsHold
<1>8. \A x : Holds(pairs, x) <=> \E i \in 1..Len(pats) : x \in HitSet(pats[i], catalog, running)
  BY <1>2, <1>5, <1>6, <1>7
<1>9. S \in SUBSET Pairs /\ \A x : Holds(pairs, x) <=> x \in S BY <1>8 DEF Selected, HitSet
<1> HIDE DEF S
<1>10. QED BY <1>4, <1>6, <1>9, ByScopeGroups DEF S

-----------------------------------------------------------------------------
(* The parts of the invariant.                                             *)

(* Patterns that are not split off for the workspace's own dispatch.       *)
IsEnv(pat) == cmd.kind \in {"logs", "follow"} \/ ~IsWorkspacePattern(pat)

(* The command is one of those given, and never forgets its patterns.      *)
Given == \E c \in Commands : cmd.kind = c.kind /\ cmd.pats = c.pats

(* What history variables remember is still so.                            *)
World ==
    /\ \A e \in steady : OwnSession(e) \in alive
    /\ declared \subseteq DeclaredBy(manifest)

(* Which commands pass which stage.                                        *)
Phases ==
    /\ cmd.pc = "workspace" =>
          /\ cmd.kind \in {"restart", "status"}
          /\ \E i \in 1..Len(cmd.pats) : ~IsEnv(cmd.pats[i])
    /\ cmd.pc = "build" => cmd.kind \in {"restart", "follow"}
    /\ cmd.pc = "collect" => cmd.kind \in {"status", "logs"}
    /\ cmd.pc \in {"preflight", "plan", "reap", "type"} => cmd.kind = "restart"
    /\ cmd.kind = "follow" /\ cmd.pc # "done" => cmd.shown = {}

(* Whether each kind of pattern has been expanded.                         *)
EnvsExpanded ==
    cmd.pc \notin {"seed", "read", "expand"} /\ ~(cmd.pc = "workspace" /\ cmd.kind = "status")
WorkspaceExpanded ==
    cmd.pc # "workspace" /\ ~(cmd.kind = "restart" /\ cmd.pc \in {"seed", "read", "expand"})

(* A restart past its preflight.                                           *)
Acting ==
    \/ cmd.pc \in {"plan", "reap", "type"}
    \/ cmd.pc = "done" /\ cmd.kind = "restart" /\ cmd.end = "finished"

(* A target has services, each of them asked for.                          *)
Sound(t) ==
    /\ t.svcs # <<>>
    /\ \A s : Holds(t.svcs, s) =>
          \E i \in 1..Len(cmd.pats) : Matches(cmd.pats[i], <<t.scope, s>>)

(* Every target stands for something asked for; targets there are only     *)
(* in the stages that have expanded the patterns.                          *)
Targets ==
    /\ \A k \in 1..Len(cmd.queue) : Sound(cmd.queue[k])
    /\ \A k \in 1..Len(cmd.built) : Sound(cmd.built[k])
    /\ (~EnvsExpanded \/ cmd.pc = "preflight" \/ Acting) => cmd.queue = <<>>
    /\ cmd.pc \in {"seed", "read", "expand", "workspace", "collect"} => cmd.built = <<>>
    /\ cmd.kind \in {"status", "logs"} => cmd.built = <<>>

(* How many of the targets the present loop has behind it.                 *)
Behind == Len(cmd.built) - Len(cmd.ahead)

(* A loop's remaining targets are the end of those built; the batch that   *)
(* runs is part of the first of them.                                      *)
Looping ==
    /\ cmd.pc = "preflight" \/ Acting =>
          /\ Behind \in Nat
          /\ \A k \in 1..Len(cmd.ahead) : cmd.ahead[k] = cmd.built[Behind + k]
    /\ cmd.pc \in {"reap", "type"} =>
          /\ cmd.ahead # <<>> /\ cmd.todo # <<>>
          /\ \A s : Holds(cmd.todo, s) => Holds(cmd.ahead[1].svcs, s)
          /\ \A s : Holds(cmd.ahead[1].svcs, s) => s \in cmd.ahead[1].has
    /\ cmd.pc = "done" /\ Acting => cmd.ahead = <<>>

(* While no target failed, the count is of those the loop has behind it;   *)
(* only a restart all of whose targets passed reaps.                       *)
Preflighted ==
    /\ cmd.pc = "preflight" /\ cmd.rc = 0 => cmd.passed = Behind
    /\ cmd.pc \in {"seed", "read", "expand", "workspace", "build"} => cmd.passed = 0
    /\ Acting => cmd.passed = Len(cmd.built)
    /\ cmd.reaped # {} => Acting

(* Target t stands for pattern pat.                                        *)
Covers(t, pat) == t.scope \in pat.envs /\ \E s \in pat.svcs : Holds(t.svcs, s)

Covered(pat) ==
    \/ \E k \in 1..Len(cmd.queue) : Covers(cmd.queue[k], pat)
    \/ \E k \in 1..Len(cmd.built) : Covers(cmd.built[k], pat)

(* A pattern that was expanded has a target, unless an exit code tells     *)
(* that it lost it.                                                        *)
Covering ==
    cmd.kind = "restart" /\ (cmd.rc = 0 \/ Acting) =>
        \A i \in 1..Len(cmd.pats) :
            /\ ~IsWorkspacePattern(cmd.pats[i]) /\ cmd.pc \notin {"seed", "read", "expand", "done"}
                  => Covered(cmd.pats[i])
            /\ IsWorkspacePattern(cmd.pats[i])
                  /\ cmd.pc \notin {"seed", "read", "expand", "workspace", "done"}
                  => Covered(cmd.pats[i])
            /\ Acting => Covered(cmd.pats[i])

(* A pair that is served, or is still to be.                               *)
Reached(pair) ==
    \/ Served(pair)
    \/ \E k \in 1..Len(cmd.queue) :
          cmd.queue[k].scope = pair[1] /\ Holds(cmd.queue[k].svcs, pair[2])
    \/ \E k \in 1..Len(cmd.built) :
          /\ cmd.built[k].scope = pair[1] /\ Holds(cmd.built[k].svcs, pair[2])
          /\ pair[2] \in cmd.built[k].has

(* While the exit code is 0, what an expanded pattern asks for is served   *)
(* or in a target still to serve: no step loses it in silence.             *)
Reaching ==
    Wired /\ cmd.rc = 0 =>
        \A i \in 1..Len(cmd.pats) : \A pair \in Asked(cmd.pats[i]) :
            /\ IsEnv(cmd.pats[i]) /\ EnvsExpanded => Reached(pair)
            /\ ~IsEnv(cmd.pats[i]) /\ WorkspaceExpanded => Reached(pair)

(* The catalog is read for a feature environment if a pattern needs one... *)
Seeded ==
    Wired /\ cmd.pc = "read" =>
        \A i \in 1..Len(cmd.pats) :
            IsEnv(cmd.pats[i]) /\ Asked(cmd.pats[i]) # {} => cmd.seed # Workspace

(* ... and then holds all its services.                                    *)
Cataloged ==
    Wired /\ cmd.pc = "expand" =>
        \A i \in 1..Len(cmd.pats) : \A pair \in Asked(cmd.pats[i]) :
            IsEnv(cmd.pats[i]) => Holds(cmd.catalog, pair[2])

(* A command that ends well has served every target.                       *)
Finishing ==
    cmd.pc = "done" /\ cmd.rc = 0 =>
        /\ cmd.queue = <<>>
        /\ \A k \in 1..Len(cmd.built) : \A s : Holds(cmd.built[k].svcs, s) /\ s \in cmd.built[k].has
              => Served(<<cmd.built[k].scope, s>>)

(* What the preflight found of a scope whose session stays is still so.    *)
Passing ==
    /\ cmd.pc = "preflight" /\ cmd.rc = 0 =>
          \A k \in 1..Behind : cmd.built[k].scope \in steady => Plannable(cmd.built[k])
    /\ cmd.pc \in {"plan", "reap", "type"} =>
          \A k \in 1..Len(cmd.built) : cmd.built[k].scope \in steady => Plannable(cmd.built[k])

(* A batch the loop has behind it was typed, unless its scope changed or   *)
(* could not resolve; the one that runs has typed what is not left.        *)
Lines ==
    /\ Acting =>
          \A k \in 1..Behind :
              cmd.rc = 0 \/ cmd.built[k].scope \in steady \ cmd.unresolved =>
                  \A s : Holds(cmd.built[k].svcs, s) => <<cmd.built[k].scope, s>> \in cmd.typed
    /\ cmd.pc \in {"reap", "type"} =>
          \A s : Holds(cmd.ahead[1].svcs, s) =>
              Holds(cmd.todo, s) \/ <<cmd.ahead[1].scope, s>> \in cmd.typed

(* The inductive invariant.                                                *)
SelInv ==
    /\ TypeOK /\ Given /\ World /\ Phases /\ Targets /\ Looping /\ Preflighted /\ OnlyAsked
    /\ Covering /\ Reaching /\ Seeded /\ Cataloged /\ DeadMeansDead /\ Finishing /\ Passing
    /\ Lines

-----------------------------------------------------------------------------
(* The command's patterns, and how they are split.                         *)

LEMMA GivenPatterns ==
    ASSUME Given
    PROVE  /\ cmd.pats \in Seq(Pattern) /\ cmd.pats # <<>>
           /\ \A i \in 1..Len(cmd.pats) : Proper(cmd.pats[i])
<1>1. PICK c \in Commands : cmd.kind = c.kind /\ cmd.pats = c.pats BY DEF Given
<1>2. c.pats \in Seq(Pattern) /\ c.pats # <<>> BY SelectionAssumption DEF Command
<1>3. \A i \in 1..Len(c.pats) : c.pats[i] \in Pattern BY <1>2
<1>4. DOMAIN c.pats = 1..Len(c.pats) BY <1>2
<1>5. \A i \in 1..Len(c.pats) : ~c.pats[i].glob => \E e \in Scopes : c.pats[i].envs = {e}
  BY <1>4, SelectionAssumption
<1>6. QED BY <1>1, <1>2, <1>3, <1>5 DEF Proper

LEMMA KeptPatterns ==
    ASSUME Given, NEW S, \A i \in 1..Len(cmd.pats) : cmd.pats[i] \in S <=> IsEnv(cmd.pats[i])
    PROVE  /\ Filtered(cmd.pats, S) \in Seq(Pattern)
           /\ \A pat : Holds(Filtered(cmd.pats, S), pat) <=> Holds(cmd.pats, pat) /\ IsEnv(pat)
<1>1. cmd.pats \in Seq(Pattern) BY GivenPatterns
<1>2. /\ Filtered(cmd.pats, S) \in Seq(Pattern)
      /\ \A pat : Holds(Filtered(cmd.pats, S), pat) <=> Holds(cmd.pats, pat) /\ pat \in S
  BY <1>1, FilteredHolds
<1>3. \A pat : Holds(cmd.pats, pat) => (pat \in S <=> IsEnv(pat)) BY DEF Holds
<1>4. QED BY <1>2, <1>3

LEMMA EnvPatterns ==
    ASSUME Given
    PROVE  /\ EnvPats(cmd) \in Seq(Pattern)
           /\ \A pat : Holds(EnvPats(cmd), pat) <=> Holds(cmd.pats, pat) /\ IsEnv(pat)
<1>1. cmd.pats \in Seq(Pattern) BY GivenPatterns
<1>2. CASE cmd.kind \in {"logs", "follow"} BY <1>1, <1>2 DEF EnvPats, IsEnv
<1>3. CASE cmd.kind \notin {"logs", "follow"}
  <2> DEFINE S == {pat \in ToSet(cmd.pats) : ~IsWorkspacePattern(pat)}
  <2>1. EnvPats(cmd) = Filtered(cmd.pats, S) BY <1>3 DEF EnvPats
  <2>2. \A i \in 1..Len(cmd.pats) : cmd.pats[i] \in S <=> IsEnv(cmd.pats[i])
    BY <1>1, <1>3 DEF ToSet, IsEnv
  <2> HIDE DEF S
  <2>3. QED BY <2>1, <2>2, KeptPatterns
<1>4. QED BY <1>2, <1>3

LEMMA WorkspacePatterns ==
    ASSUME Given
    PROVE  /\ WorkspacePats(cmd) \in Seq(Pattern)
           /\ \A pat : Holds(WorkspacePats(cmd), pat) <=> Holds(cmd.pats, pat) /\ ~IsEnv(pat)
<1>1. cmd.pats \in Seq(Pattern) BY GivenPatterns
<1>2. CASE cmd.kind \in {"logs", "follow"} BY <1>1, <1>2 DEF WorkspacePats, IsEnv, Holds
<1>3. CASE cmd.kind \notin {"logs", "follow"}
  <2> DEFINE S == {pat \in ToSet(cmd.pats) : IsWorkspacePattern(pat)}
  <2>1. WorkspacePats(cmd) = Filtered(cmd.pats, S) BY <1>3 DEF WorkspacePats
  <2>2. \A i \in 1..Len(cmd.pats) : cmd.pats[i] \in S <=> ~IsEnv(cmd.pats[i])
    BY <1>1, <1>3 DEF ToSet, IsEnv
  <2> HIDE DEF S
  <2>3. /\ Filtered(cmd.pats, S) \in Seq(Pattern)
        /\ \A pat : Holds(Filtered(cmd.pats, S), pat) <=> Holds(cmd.pats, pat) /\ pat \in S
    BY <1>1, FilteredHolds
  <2>4. \A pat : Holds(cmd.pats, pat) => (pat \in S <=> ~IsEnv(pat)) BY <2>2 DEF Holds
  <2>5. QED BY <2>1, <2>3, <2>4
<1>4. QED BY <1>2, <1>3

(* Each list of patterns, member by member.                                *)
LEMMA SplitMembers ==
    ASSUME Given
    PROVE  /\ Len(EnvPats(cmd)) \in Nat /\ Len(WorkspacePats(cmd)) \in Nat
           /\ \A j \in 1..Len(EnvPats(cmd)) :
                 /\ Proper(EnvPats(cmd)[j])
                 /\ \E i \in 1..Len(cmd.pats) : cmd.pats[i] = EnvPats(cmd)[j] /\ IsEnv(cmd.pats[i])
           /\ \A j \in 1..Len(WorkspacePats(cmd)) :
                 /\ Proper(WorkspacePats(cmd)[j])
                 /\ \E i \in 1..Len(cmd.pats) :
                       cmd.pats[i] = WorkspacePats(cmd)[j] /\ ~IsEnv(cmd.pats[i])
           /\ \A i \in 1..Len(cmd.pats) :
                 IF IsEnv(cmd.pats[i])
                 THEN \E j \in 1..Len(EnvPats(cmd)) : EnvPats(cmd)[j] = cmd.pats[i]
                 ELSE \E j \in 1..Len(WorkspacePats(cmd)) : WorkspacePats(cmd)[j] = cmd.pats[i]
<1> DEFINE E == EnvPats(cmd)
           W == WorkspacePats(cmd)
           P == cmd.pats
<1>1. /\ E \in Seq(Pattern) /\ W \in Seq(Pattern)
      /\ \A pat : Holds(E, pat) <=> Holds(P, pat) /\ IsEnv(pat)
      /\ \A pat : Holds(W, pat) <=> Holds(P, pat) /\ ~IsEnv(pat)
  BY EnvPatterns, WorkspacePatterns
<1>2. \A i \in 1..Len(P) : Proper(P[i]) BY GivenPatterns
<1> HIDE DEF E, W, P
<1>3. Len(E) \in Nat /\ Len(W) \in Nat BY <1>1
<1>4. ASSUME NEW j \in 1..Len(E)
      PROVE  Proper(E[j]) /\ \E i \in 1..Len(P) : P[i] = E[j] /\ IsEnv(P[i])
  <2>1. Holds(E, E[j]) BY DEF Holds
  <2>2. Holds(P, E[j]) /\ IsEnv(E[j]) BY <1>1, <2>1
  <2>3. PICK i \in 1..Len(P) : P[i] = E[j] BY <2>2 DEF Holds
  <2>4. QED BY <1>2, <2>2, <2>3
<1>5. ASSUME NEW j \in 1..Len(W)
      PROVE  Proper(W[j]) /\ \E i \in 1..Len(P) : P[i] = W[j] /\ ~IsEnv(P[i])
  <2>1. Holds(W, W[j]) BY DEF Holds
  <2>2. Holds(P, W[j]) /\ ~IsEnv(W[j]) BY <1>1, <2>1
  <2>3. PICK i \in 1..Len(P) : P[i] = W[j] BY <2>2 DEF Holds
  <2>4. QED BY <1>2, <2>2, <2>3
<1>6. ASSUME NEW i \in 1..Len(P)
      PROVE  IF IsEnv(P[i]) THEN \E j \in 1..Len(E) : E[j] = P[i]
                            ELSE \E j \in 1..Len(W) : W[j] = P[i]
  <2>1. Holds(P, P[i]) BY DEF Holds
  <2>2. IF IsEnv(P[i]) THEN Holds(E, P[i]) ELSE Holds(W, P[i]) BY <1>1, <2>1
  <2>3. QED BY <2>2 DEF Holds
<1>7. QED BY <1>3, <1>4, <1>5, <1>6 DEF E, W, P

(* The running environments, as running_envs lists them.                   *)
LEMMA RunningHolds ==
    ASSUME TypeOK, World
    PROVE  /\ Sessions \in Seq(Session)
           /\ \A s : Holds(Sessions, s) <=> Holds(Listing, s) /\ s \in alive
           /\ RunningEnvs \in Seq(Scopes)
           /\ \A e \in steady : Holds(RunningEnvs, e) /\ Holds(Sessions, OwnSession(e))
<1> DEFINE own == Filtered(Sessions, {s \in alive : s.own})
           envs == [i \in 1..Len(own) |-> own[i].scope]
<1>1. Listing \in Seq(Session) BY SelectionAssumption
<1>2. /\ Sessions \in Seq(Session)
      /\ \A s : Holds(Sessions, s) <=> Holds(Listing, s) /\ s \in alive
  BY <1>1, FilteredHolds DEF Sessions
<1>3. /\ own \in Seq(Session)
      /\ \A s : Holds(own, s) <=> Holds(Sessions, s) /\ s \in {s1 \in alive : s1.own}
  BY <1>2, FilteredHolds
<1>4. RunningEnvs = envs BY DEF RunningEnvs
<1> HIDE DEF own
<1>5. Len(own) \in Nat /\ \A i \in 1..Len(own) : own[i].scope \in Scopes
  <2>1. own \in Seq(Session) BY <1>3
  <2>2. \A i \in 1..Len(own) : own[i] \in Session BY <2>1
  <2>3. QED BY <2>1, <2>2 DEF Session
<1>6. envs \in Seq(Scopes) /\ Len(envs) = Len(own)
      /\ \A i \in 1..Len(own) : envs[i] = own[i].scope
  BY <1>5
<1> HIDE DEF envs
<1>7. ASSUME NEW e \in steady PROVE Holds(envs, e) /\ Holds(Sessions, OwnSession(e))
  <2>1. OwnSession(e) \in alive /\ OwnSession(e).own /\ OwnSession(e).scope = e
    BY DEF World, OwnSession
  <2>2. Holds(Listing, OwnSession(e)) BY <1>1, <2>1 DEF TypeOK, ToSet, Holds
  <2>3. Holds(own, OwnSession(e)) BY <1>2, <1>3, <2>1, <2>2
  <2>4. Holds(envs, e) BY <1>6, <2>1, <2>3 DEF Holds
  <2>5. QED BY <1>2, <2>1, <2>2, <2>4
<1>8. QED BY <1>2, <1>4, <1>6, <1>7

LEMMA ManifestLists ==
    ASSUME TypeOK
    PROVE  /\ manifest.project \in Seq(Services) /\ manifest.workspace \in Seq(Services)
           /\ \A e : ServicesOf(manifest, e) \in Seq(Services)
BY SelectionAssumption DEF TypeOK, Manifest, ServicesOf

(* What stays declared is declared by the manifest of the moment.          *)
LEMMA DeclaredNow ==
    ASSUME TypeOK, World, NEW pair \in declared
    PROVE  /\ pair \in Pairs /\ pair = <<pair[1], pair[2]>> /\ manifest.readable
           /\ Holds(ServicesOf(manifest, pair[1]), pair[2])
           /\ pair[2] \in ToSet(ServicesOf(manifest, pair[1]))
<1>1. /\ pair \in Scopes \X Services /\ manifest.readable
      /\ Contains(ServicesOf(manifest, pair[1]), pair[2])
  BY DEF World, DeclaredBy
<1>2. ServicesOf(manifest, pair[1]) \in Seq(Services) BY ManifestLists
<1>3. QED BY <1>1, <1>2 DEF Pairs, Contains, Holds, ToSet

(* What an env pattern is asked for lies in a feature environment.         *)
LEMMA AskedOfEnvs ==
    ASSUME TypeOK, Given, Wired, NEW i \in 1..Len(cmd.pats), IsEnv(cmd.pats[i]),
           NEW pair \in Asked(cmd.pats[i])
    PROVE  pair[1] # Workspace
<1>1. Proper(cmd.pats[i]) BY GivenPatterns
<1>2. CASE cmd.pats[i].glob BY <1>2 DEF Asked
<1>3. CASE ~cmd.pats[i].glob
  <2>1. PICK e \in Scopes : cmd.pats[i].envs = {e} BY <1>1, <1>3 DEF Proper
  <2>2. pair[1] = e BY <2>1 DEF Asked, Matches
  <2>3. cmd.pats \in Seq(Pattern) BY GivenPatterns
  <2>4. ~IsWorkspacePattern(cmd.pats[i]) BY <2>3 DEF Wired, IsEnv
  <2>5. QED BY <1>3, <2>1, <2>2, <2>4 DEF IsWorkspacePattern
<1>4. QED BY <1>2, <1>3

LEMMA AskedOfWorkspace ==
    ASSUME NEW pat, IsWorkspacePattern(pat), NEW pair \in Asked(pat)
    PROVE  pair[1] = Workspace
BY DEF Asked, IsWorkspacePattern, Matches

-----------------------------------------------------------------------------
(* The start, the steps of others, and what the invariant is for.          *)

LEMMA StartSelects == ASSUME Init PROVE SelInv
<1>1. PICK c \in Commands :
         cmd = [kind |-> c.kind, pats |-> c.pats, pc |-> First(c), seed |-> Workspace,
                catalog |-> <<>>, queue |-> <<>>, built |-> <<>>, ahead |-> <<>>,
                todo |-> <<>>, rc |-> 0, end |-> "none", reaped |-> {}, typed |-> {},
                shown |-> {}, passed |-> 0, unresolved |-> {}]
  BY DEF Init
<1>2. /\ cmd.kind = c.kind /\ cmd.pats = c.pats /\ cmd.pc = First(c)
      /\ cmd.queue = <<>> /\ cmd.built = <<>> /\ cmd.ahead = <<>>
      /\ cmd.rc = 0 /\ cmd.end = "none" /\ cmd.reaped = {} /\ cmd.shown = {} /\ cmd.passed = 0
  BY <1>1
<1>3. Given BY <1>2 DEF Given
<1>4. /\ EnvPats(cmd) = EnvPats(c) /\ WorkspacePats(cmd) = WorkspacePats(c)
      /\ c.kind \in {"restart", "status", "logs", "follow"} /\ c.pats \in Seq(Pattern)
  BY <1>2, SelectionAssumption DEF EnvPats, WorkspacePats, Command
<1>5. TypeOK
  <2>1. cmd \in CmdType
    <3>1. First(c) \in {"workspace", "seed"} BY DEF First
    <3>2. QED BY <1>1, <1>4, <3>1 DEF CmdType, PC, Scopes
  <2>2. QED BY <2>1, SelectionAssumption DEF Init, TypeOK, DeclaredBy
<1>6. World BY DEF Init, World
<1>7. cmd.pc \in {"workspace", "seed"} BY <1>2 DEF First
<1>8. ASSUME cmd.pc = "workspace"
      PROVE  /\ cmd.kind \in {"restart", "status"}
             /\ \E i \in 1..Len(cmd.pats) : ~IsEnv(cmd.pats[i])
             /\ cmd.kind = "restart" => \A i \in 1..Len(cmd.pats) : ~IsEnv(cmd.pats[i])
  <2>1. EnvPats(cmd) = <<>> \/ (cmd.kind = "status" /\ WorkspacePats(cmd) # <<>>)
    BY <1>2, <1>4, <1>8 DEF First
  <2>2. cmd.pats \in Seq(Pattern) /\ cmd.pats # <<>> BY <1>3, GivenPatterns
  <2>3. CASE EnvPats(cmd) = <<>>
    <3>1. \A i \in 1..Len(cmd.pats) : ~IsEnv(cmd.pats[i]) BY <1>3, <2>3, SplitMembers
    <3>2. 1 \in 1..Len(cmd.pats) BY <2>2
    <3>3. QED BY <1>2, <1>4, <3>1, <3>2 DEF IsEnv
  <2>4. CASE cmd.kind = "status" /\ WorkspacePats(cmd) # <<>>
    <3>1. WorkspacePats(cmd) \in Seq(Pattern) BY <1>3, WorkspacePatterns
    <3>2. 1 \in 1..Len(WorkspacePats(cmd)) BY <2>4, <3>1
    <3>3. QED BY <1>3, <2>4, <3>2, SplitMembers
  <2>5. QED BY <2>1, <2>3, <2>4
<1>9. ASSUME cmd.pc = "seed", NEW i \in 1..Len(cmd.pats), ~IsEnv(cmd.pats[i])
      PROVE  cmd.kind = "restart"
  <2>1. ~(EnvPats(cmd) = <<>> \/ (cmd.kind = "status" /\ WorkspacePats(cmd) # <<>>))
    BY <1>2, <1>4, <1>9 DEF First
  <2>2. \E j \in 1..Len(WorkspacePats(cmd)) : WorkspacePats(cmd)[j] = cmd.pats[i]
    BY <1>3, <1>9, SplitMembers
  <2>3. WorkspacePats(cmd) # <<>> BY <2>2
  <2>4. QED BY <1>2, <1>4, <1>9, <2>1, <2>3 DEF IsEnv
<1>10. Phases BY <1>2, <1>7, <1>8 DEF Phases
<1>11. Targets /\ Looping /\ Preflighted /\ Passing /\ Lines /\ Finishing /\ OnlyAsked
  BY <1>2, <1>7
  DEF Targets, Looping, Preflighted, Passing, Lines, Finishing, OnlyAsked, Acting
<1>12. Covering
  BY <1>2, <1>7, <1>8 DEF Covering, Acting, IsEnv
<1>13. Reaching
  BY <1>2, <1>7, <1>8, <1>9 DEF Reaching, EnvsExpanded, WorkspaceExpanded
<1>14. Seeded /\ Cataloged /\ DeadMeansDead
  BY <1>2, <1>7 DEF Seeded, Cataloged, DeadMeansDead
<1>15. QED
  BY <1>3, <1>5, <1>6, <1>10, <1>11, <1>12, <1>13, <1>14 DEF SelInv

(* What others do narrows what the promises speak of and touches no pane   *)
(* of a scope whose session stays.                                         *)
LEMMA OthersNarrow ==
    ASSUME SelInv, Others
    PROVE  /\ TypeOK' /\ World' /\ cmd' = cmd
           /\ steady' \subseteq steady /\ declared' \subseteq declared
           /\ \A e \in steady' : panes'[e] = panes[e]
<1>1. TypeOK /\ World BY DEF SelInv
<1>2. CASE EditManifest
  <2>1. /\ manifest' \in Manifests /\ declared' = declared \intersect DeclaredBy(manifest')
        /\ alive' = alive /\ panes' = panes /\ cmd' = cmd /\ steady' = steady
        /\ turns < MaxTurns /\ turns' = turns + 1
    BY <1>2 DEF EditManifest, Turn
  <2>2. TypeOK' BY <1>1, <2>1, SelectionAssumption DEF TypeOK
  <2>3. declared' \subseteq DeclaredBy(manifest)' BY <2>1 DEF DeclaredBy
  <2>4. World' BY <1>1, <2>1, <2>3 DEF World
  <2>5. QED BY <2>1, <2>2, <2>4
<1>3. ASSUME NEW s \in ToSet(Listing), SessionUp(s) \/ SessionDown(s)
      PROVE  /\ TypeOK' /\ World' /\ cmd' = cmd
             /\ steady' \subseteq steady /\ declared' \subseteq declared
             /\ \A e \in steady' : panes'[e] = panes[e]
  <2>1. s \in Session BY SelectionAssumption DEF ToSet
  <2>2. s.own => s = OwnSession(s.scope) BY <2>1 DEF Session, OwnSession
  <2>3. s.scope \in Scopes BY <2>1 DEF Session
  <2>4. /\ manifest' = manifest /\ declared' = declared /\ cmd' = cmd
        /\ turns < MaxTurns /\ turns' = turns + 1
    BY <1>3 DEF SessionUp, SessionDown, Turn
  <2>5. DeclaredBy(manifest)' = DeclaredBy(manifest) BY <2>4 DEF DeclaredBy
  <2>6. CASE SessionUp(s)
    <3>1. PICK P \in SUBSET ToSet(ServicesOf(manifest, s.scope)) :
             panes' = IF s.own THEN [panes EXCEPT ![s.scope] = P] ELSE panes
      BY <2>6 DEF SessionUp
    <3>2. s \notin alive /\ alive' = alive \union {s} /\ steady' = steady
      BY <2>6 DEF SessionUp
    <3>3. P \subseteq Services
      <4>1. ServicesOf(manifest, s.scope) \in Seq(Services) BY <1>1, ManifestLists
      <4>2. QED BY <4>1 DEF ToSet
    <3>4. panes' \in [Scopes -> SUBSET Services] BY <1>1, <2>3, <3>1, <3>3 DEF TypeOK
    <3>5. TypeOK' BY <1>1, <2>4, <3>2, <3>4, SelectionAssumption DEF TypeOK
    <3>6. World' BY <1>1, <2>4, <2>5, <3>2 DEF World
    <3>7. ASSUME NEW e \in steady' PROVE panes'[e] = panes[e]
      <4>1. OwnSession(e) \in alive BY <1>1, <3>2 DEF World
      <4>2. ~(s.own /\ s.scope = e) BY <2>2, <3>2, <4>1
      <4>3. QED BY <1>1, <3>1, <3>2, <4>2 DEF TypeOK
    <3>8. QED BY <2>4, <3>2, <3>5, <3>6, <3>7
  <2>7. CASE SessionDown(s)
    <3>1. /\ alive' = alive \ {s}
          /\ panes' = IF s.own THEN [panes EXCEPT ![s.scope] = {}] ELSE panes
          /\ steady' = IF s.own THEN steady \ {s.scope} ELSE steady
      BY <2>7 DEF SessionDown
    <3>2. panes' \in [Scopes -> SUBSET Services] BY <1>1, <3>1 DEF TypeOK
    <3>3. steady' \subseteq steady BY <3>1
    <3>4. TypeOK' BY <1>1, <2>4, <3>1, <3>2, <3>3, SelectionAssumption DEF TypeOK
    <3>5. ASSUME NEW e \in steady' PROVE OwnSession(e) # s /\ panes'[e] = panes[e]
      <4>1. ~(s.own /\ s.scope = e) BY <3>1
      <4>2. OwnSession(e) # s BY <4>1 DEF OwnSession
      <4>3. QED BY <1>1, <3>1, <3>3, <4>1, <4>2 DEF TypeOK
    <3>6. World' BY <1>1, <2>4, <2>5, <3>1, <3>3, <3>5 DEF World
    <3>7. QED BY <2>4, <3>3, <3>4, <3>5, <3>6
  <2>8. QED BY <1>3, <2>6, <2>7
<1>4. QED BY <1>2, <1>3 DEF Others

LEMMA OthersKeep == ASSUME SelInv, Others PROVE SelInv'
<1>1. /\ TypeOK' /\ World' /\ cmd' = cmd
      /\ steady' \subseteq steady /\ declared' \subseteq declared
      /\ \A e \in steady' : panes'[e] = panes[e]
  BY OthersNarrow
<1>2. /\ Given' /\ Phases' /\ Targets' /\ Looping' /\ Preflighted' /\ OnlyAsked' /\ Covering'
      /\ Finishing'
  <2>1. Given' /\ Phases'
    BY <1>1 DEF SelInv, Given, Phases, IsEnv
  <2>2. Targets' BY <1>1 DEF SelInv, Targets, Sound, EnvsExpanded, Acting
  <2>3. Looping' /\ Preflighted' BY <1>1 DEF SelInv, Looping, Preflighted, Acting, Behind
  <2>4. OnlyAsked' /\ Finishing' BY <1>1 DEF SelInv, OnlyAsked, Finishing, Served
  <2>5. Covering' BY <1>1 DEF SelInv, Covering, Acting, Covered
  <2>6. QED BY <2>1, <2>2, <2>3, <2>4, <2>5
<1>3. ASSUME NEW pat PROVE Asked(pat)' \subseteq Asked(pat)
  BY <1>1 DEF Asked
<1>4. (Wired' <=> Wired) /\ \A pat : IsEnv(pat)' <=> IsEnv(pat) BY <1>1 DEF Wired, IsEnv
<1>5. (EnvsExpanded' <=> EnvsExpanded) /\ (WorkspaceExpanded' <=> WorkspaceExpanded)
      /\ \A pair : Reached(pair)' <=> Reached(pair)
  BY <1>1 DEF EnvsExpanded, WorkspaceExpanded, Reached, Served
<1>6. Reaching'
  BY <1>1, <1>3, <1>4, <1>5 DEF SelInv, Reaching
<1>7. Seeded' /\ Cataloged' BY <1>1, <1>3, <1>4 DEF SelInv, Seeded, Cataloged
<1>8. DeadMeansDead'
  <2>1. cmd'.end = "dead" /\ Wired' => \E i \in DOMAIN cmd.pats : Asked(cmd.pats[i]) = {}
    BY <1>1, <1>4 DEF SelInv, DeadMeansDead
  <2>2. \A pat : Asked(pat) = {} => Asked(pat)' = {} BY <1>3
  <2>3. QED BY <1>1, <2>1, <2>2 DEF DeadMeansDead
<1>9. Passing' BY <1>1 DEF SelInv, Passing, Plannable, Behind
<1>10. Lines' BY <1>1 DEF SelInv, Lines, Behind, Acting
<1>11. QED BY <1>1, <1>2, <1>6, <1>7, <1>8, <1>9, <1>10 DEF SelInv

LEMMA SelInvGives ==
    ASSUME SelInv
    PROVE  AllPreflightedBeforeAny /\ OkMeansAll /\ LaterScopesGoOn
<1>1. cmd \in CmdType BY DEF SelInv, TypeOK
<1>2. /\ cmd.pats \in Seq(Pattern) /\ cmd.built \in Seq(Scoped) /\ cmd.queue \in Seq(Target)
  BY <1>1 DEF CmdType
<1>3. AllPreflightedBeforeAny
  <2> SUFFICES ASSUME cmd.reaped # {} PROVE AllPreflightedBeforeAny
    BY DEF AllPreflightedBeforeAny
  <2>1. Acting /\ cmd.passed = Len(cmd.built) BY DEF SelInv, Preflighted
  <2>2. cmd.kind = "restart" BY <2>1 DEF SelInv, Phases, Acting
  <2>3. cmd.queue = <<>> BY <2>1 DEF SelInv, Targets
  <2>4. ASSUME NEW i \in DOMAIN cmd.pats
        PROVE  \E t \in ToSet(cmd.built) :
                  /\ t.scope \in cmd.pats[i].envs
                  /\ ToSet(t.svcs) \intersect cmd.pats[i].svcs # {}
    <3>1. Covered(cmd.pats[i]) BY <1>2, <2>1, <2>2 DEF SelInv, Covering
    <3>2. PICK k \in 1..Len(cmd.built) : Covers(cmd.built[k], cmd.pats[i])
      BY <2>3, <3>1 DEF Covered
    <3>3. cmd.built[k] \in ToSet(cmd.built) /\ cmd.built[k] \in Scoped BY <1>2 DEF ToSet
    <3>4. cmd.built[k].svcs \in Seq(Services) BY <3>3 DEF Scoped
    <3>5. PICK s \in cmd.pats[i].svcs : Holds(cmd.built[k].svcs, s) BY <3>2 DEF Covers
    <3>6. s \in ToSet(cmd.built[k].svcs) BY <3>4, <3>5 DEF ToSet, Holds
    <3>7. QED BY <3>2, <3>3, <3>6 DEF Covers
  <2>5. QED BY <2>1, <2>4 DEF AllPreflightedBeforeAny
<1>4. OkMeansAll
  <2> SUFFICES ASSUME cmd.pc = "done", cmd.rc = 0, Wired,
                      NEW i \in DOMAIN cmd.pats, NEW pair \in Asked(cmd.pats[i])
               PROVE  Served(pair)
    BY DEF OkMeansAll, At
  <2>1. EnvsExpanded /\ WorkspaceExpanded BY DEF EnvsExpanded, WorkspaceExpanded
  <2>2. Reached(pair) BY <1>2, <2>1 DEF SelInv, Reaching
  <2>3. cmd.queue = <<>> BY DEF SelInv, Finishing
  <2>4. CASE \E k \in 1..Len(cmd.built) :
                /\ cmd.built[k].scope = pair[1] /\ Holds(cmd.built[k].svcs, pair[2])
                /\ pair[2] \in cmd.built[k].has
    <3>1. Served(<<pair[1], pair[2]>>) BY <2>4 DEF SelInv, Finishing
    <3>2. pair = <<pair[1], pair[2]>> BY DeclaredNow DEF SelInv, Asked
    <3>3. QED BY <3>1, <3>2
  <2>5. QED BY <2>2, <2>3, <2>4 DEF Reached
<1>5. LaterScopesGoOn
  <2> SUFFICES ASSUME cmd.pc = "done", cmd.kind = "restart", cmd.end = "finished",
                      NEW k \in DOMAIN cmd.built,
                      cmd.built[k].scope \in steady \ cmd.unresolved,
                      NEW s \in ToSet(cmd.built[k].svcs)
               PROVE  <<cmd.built[k].scope, s>> \in cmd.typed
    BY DEF LaterScopesGoOn, At
  <2>1. Acting BY DEF Acting
  <2>2. cmd.ahead = <<>> BY <2>1 DEF SelInv, Looping
  <2>3. k \in 1..Behind BY <1>2, <2>2 DEF Behind
  <2>4. cmd.built[k].svcs \in Seq(Services)
    <3>1. cmd.built[k] \in Scoped BY <1>2
    <3>2. QED BY <3>1 DEF Scoped
  <2>5. Holds(cmd.built[k].svcs, s) BY <2>4 DEF ToSet, Holds
  <2>6. QED BY <2>1, <2>3, <2>5 DEF SelInv, Lines
<1>6. QED BY <1>3, <1>4, <1>5

-----------------------------------------------------------------------------
(* The steps of the command.  What they leave alone:                       *)

KeepsArgs ==
    /\ cmd'.kind = cmd.kind /\ cmd'.pats = cmd.pats
    /\ alive' = alive /\ panes' = panes /\ manifest' = manifest /\ turns' = turns
    /\ steady' = steady /\ declared' = declared
KeepsTargets == cmd'.queue = cmd.queue /\ cmd'.built = cmd.built
KeepsLoop == cmd'.ahead = cmd.ahead /\ cmd'.todo = cmd.todo /\ cmd'.passed = cmd.passed
KeepsEffects ==
    /\ cmd'.reaped = cmd.reaped /\ cmd'.typed = cmd.typed /\ cmd'.shown = cmd.shown
    /\ cmd'.unresolved = cmd.unresolved
KeepsEnd == cmd'.rc = cmd.rc /\ cmd'.end = cmd.end

(* The fields of a command, and what EXCEPT leaves of a record.            *)
FieldsOK(c) ==
    /\ c.kind \in {"restart", "status", "logs", "follow"} /\ c.pats \in Seq(Pattern)
    /\ c.pc \in PC /\ c.seed \in Scopes /\ c.catalog \in Seq(Services)
    /\ c.queue \in Seq(Target) /\ c.built \in Seq(Scoped) /\ c.ahead \in Seq(Scoped)
    /\ c.todo \in Seq(Services) /\ c.rc \in {0, 1, 130}
    /\ c.end \in {"none", "noseed", "unreadable", "dead", "build", "preflight", "finished"}
    /\ c.reaped \in SUBSET (Scopes \X Services) /\ c.typed \in SUBSET (Scopes \X Services)
    /\ c.shown \in SUBSET (Scopes \X Services) /\ c.passed \in Nat
    /\ c.unresolved \in SUBSET Scopes

Whole(c) == DOMAIN c = DOMAIN cmd /\ c = [f \in DOMAIN c |-> c[f]]

LEMMA FieldsTyped == ASSUME SelInv PROVE cmd \in CmdType /\ FieldsOK(cmd)
BY DEF SelInv, TypeOK, CmdType, FieldsOK

LEMMA Retyped == ASSUME cmd \in CmdType, Whole(cmd'), FieldsOK(cmd') PROVE cmd' \in CmdType
BY DEF CmdType, FieldsOK, Whole

LEMMA ArgsKept ==
    ASSUME SelInv, KeepsArgs, cmd' \in CmdType
    PROVE  /\ TypeOK' /\ Given' /\ World' /\ (Wired' <=> Wired)
           /\ \A pat : (IsEnv(pat)' <=> IsEnv(pat)) /\ Asked(pat)' = Asked(pat)
<1>1. TypeOK' BY DEF SelInv, TypeOK, KeepsArgs
<1>2. Given' BY DEF SelInv, Given, KeepsArgs
<1>3. World'
  <2>1. DeclaredBy(manifest)' = DeclaredBy(manifest) BY DEF KeepsArgs, DeclaredBy
  <2>2. QED BY <2>1 DEF SelInv, World, KeepsArgs
<1>4. Wired' <=> Wired BY DEF Wired, KeepsArgs
<1>5. \A pat : (IsEnv(pat)' <=> IsEnv(pat)) /\ Asked(pat)' = Asked(pat)
  BY DEF IsEnv, Asked, KeepsArgs
<1>6. QED BY <1>1, <1>2, <1>3, <1>4, <1>5

(* An early return: the parts that speak of a command under way are idle.  *)
LEMMA RefusalKeeps ==
    ASSUME SelInv, cmd.pc \in {"seed", "read", "expand"},
           NEW end \in {"noseed", "unreadable", "dead"},
           Refuse(end),
           end = "dead" /\ Wired => \E i \in DOMAIN cmd.pats : Asked(cmd.pats[i]) = {}
    PROVE  SelInv'
<1>1. cmd \in CmdType /\ cmd' = [cmd EXCEPT !.pc = "done", !.rc = 1, !.end = end]
  BY DEF SelInv, TypeOK, Refuse, Become
<1>2. /\ KeepsArgs /\ KeepsTargets /\ KeepsLoop /\ KeepsEffects
      /\ cmd'.pc = "done" /\ cmd'.rc = 1 /\ cmd'.end = end
      /\ cmd'.seed = cmd.seed /\ cmd'.catalog = cmd.catalog
  BY <1>1
  DEF CmdType, Refuse, Become, world, KeepsArgs, KeepsTargets, KeepsLoop, KeepsEffects
<1>3. cmd' \in CmdType
  <2>1. Whole(cmd') BY <1>1, Zenon DEF Whole
  <2>2. FieldsOK(cmd')
    BY <1>2, FieldsTyped
    DEF FieldsOK, PC, KeepsArgs, KeepsTargets, KeepsLoop, KeepsEffects
  <2>3. QED BY <1>1, <2>1, <2>2, Retyped
<1>4. /\ TypeOK' /\ Given' /\ World' /\ (Wired' <=> Wired)
      /\ \A pat : (IsEnv(pat)' <=> IsEnv(pat)) /\ Asked(pat)' = Asked(pat)
  BY <1>2, <1>3, ArgsKept
<1>5. ~Acting /\ ~Acting' /\ cmd.reaped = {}
  <2>1. ~Acting /\ ~Acting' BY <1>2 DEF Acting
  <2>2. QED BY <2>1 DEF SelInv, Preflighted
<1>6. Phases' /\ Looping' /\ Preflighted' /\ OnlyAsked' /\ Covering' /\ Reaching' /\ Seeded'
      /\ Cataloged' /\ Finishing' /\ Passing' /\ Lines'
  BY <1>2, <1>5
  DEF Phases, Looping, Preflighted, OnlyAsked, Covering, Reaching, Seeded, Cataloged, Finishing,
      Passing, Lines, KeepsEffects
<1>7. Targets'
  <2>1. EnvsExpanded' BY <1>2 DEF EnvsExpanded
  <2>2. \A t : Sound(t)' <=> Sound(t) BY <1>2 DEF Sound, KeepsArgs
  <2>3. QED BY <1>2, <1>5, <2>1, <2>2 DEF SelInv, Targets, KeepsArgs, KeepsTargets
<1>8. DeadMeansDead'
  <2>1. \A pat : Asked(pat)' = Asked(pat) BY <1>4
  <2>2. QED BY <1>2, <1>4, <2>1 DEF DeadMeansDead, KeepsArgs
<1>9. QED BY <1>4, <1>6, <1>7, <1>8 DEF SelInv

(* The seed is a feature environment when an env pattern asks for          *)
(* something: a concrete segment is not the workspace, and a running       *)
(* session of another scope is preferred.                                  *)
LEMMA SeedIsEnv ==
    ASSUME SelInv, Wired, NEW i \in 1..Len(cmd.pats), IsEnv(cmd.pats[i]), Asked(cmd.pats[i]) # {},
           \A j \in 1..Len(cmd.pats) : IsEnv(cmd.pats[j]) => cmd.pats[j].glob
    PROVE  Sessions # <<>> /\ SeedSession # Workspace
<1> DEFINE other == Filtered(Sessions, {s \in alive : s.scope # Workspace})
<1>1. PICK pair \in Asked(cmd.pats[i]) : TRUE OBVIOUS
<1>2. pair[1] \in steady /\ pair[1] # Workspace BY DEF Asked
<1>3. TypeOK /\ World BY DEF SelInv
<1>4. Sessions \in Seq(Session) /\ Holds(Sessions, OwnSession(pair[1]))
  BY <1>2, <1>3, RunningHolds
<1>5. OwnSession(pair[1]) \in alive /\ OwnSession(pair[1]).scope = pair[1]
  BY <1>2, <1>3 DEF World, OwnSession
<1>6. other \in Seq(Session)
      /\ \A s : Holds(other, s) <=> Holds(Sessions, s) /\ s \in {t \in alive : t.scope # Workspace}
  BY <1>4, FilteredHolds
<1>7. Holds(other, OwnSession(pair[1])) BY <1>2, <1>4, <1>5, <1>6
<1>8. SeedSession = (other \o Sessions)[1].scope BY DEF SeedSession
<1> HIDE DEF other
<1>9. 1 \in 1..Len(other) BY <1>6, <1>7 DEF Holds
<1>10. (other \o Sessions)[1] = other[1] BY <1>4, <1>6, <1>9
<1>11. Holds(other, other[1]) BY <1>9 DEF Holds
<1>12. other[1].scope # Workspace BY <1>6, <1>11
<1>13. Sessions # <<>> BY <1>4 DEF Holds
<1>14. QED BY <1>8, <1>10, <1>12, <1>13

LEMMA SeedKeeps == ASSUME SelInv, Seed PROVE SelInv'
<1> DEFINE concrete == Filtered(EnvPats(cmd), {pat \in ToSet(cmd.pats) : ~pat.glob})
           seeded(e) == [cmd EXCEPT !.pc = "read", !.seed = e]
<1>1. /\ cmd.pc = "seed" /\ cmd \in CmdType /\ TypeOK /\ World /\ Given
      /\ cmd.pats \in Seq(Pattern)
  BY DEF Seed, At, SelInv, TypeOK, CmdType
<1>2. /\ EnvPats(cmd) \in Seq(Pattern)
      /\ \A pat : Holds(EnvPats(cmd), pat) <=> Holds(cmd.pats, pat) /\ IsEnv(pat)
  BY <1>1, EnvPatterns
<1>3. /\ concrete \in Seq(Pattern)
      /\ \A pat : Holds(concrete, pat)
            <=> Holds(EnvPats(cmd), pat) /\ pat \in {pat1 \in ToSet(cmd.pats) : ~pat1.glob}
  BY <1>2, FilteredHolds
<1>4. \/ concrete # <<>> /\ Become(seeded(Segment(concrete[1])))
      \/ concrete = <<>> /\ Sessions # <<>> /\ Become(seeded(SeedSession))
      \/ Refuse("noseed")
  BY DEF Seed
<1> HIDE DEF concrete
<1>5. CASE Refuse("noseed") BY <1>1, <1>5, RefusalKeeps
<1>6. ASSUME NEW e \in Scopes, Become(seeded(e)),
             Wired => \A i \in 1..Len(cmd.pats) :
                         IsEnv(cmd.pats[i]) /\ Asked(cmd.pats[i]) # {} => e # Workspace
      PROVE  SelInv'
  <2>1. cmd' = [cmd EXCEPT !.pc = "read", !.seed = e] BY <1>6 DEF Become
  <2>2. /\ KeepsArgs /\ KeepsTargets /\ KeepsLoop /\ KeepsEffects /\ KeepsEnd
        /\ cmd'.pc = "read" /\ cmd'.seed = e /\ cmd'.catalog = cmd.catalog
    BY <1>1, <1>6, <2>1
    DEF CmdType, Become, world, KeepsArgs, KeepsTargets, KeepsLoop, KeepsEffects, KeepsEnd
  <2>3. cmd' \in CmdType
    <3>1. Whole(cmd') BY <2>1, Zenon DEF Whole
    <3>2. FieldsOK(cmd')
      BY <1>6, <2>2, FieldsTyped
      DEF FieldsOK, PC, KeepsArgs, KeepsTargets, KeepsLoop, KeepsEffects, KeepsEnd
    <3>3. QED BY <1>1, <3>1, <3>2, Retyped
  <2>4. /\ TypeOK' /\ Given' /\ World' /\ (Wired' <=> Wired)
        /\ \A pat : (IsEnv(pat)' <=> IsEnv(pat)) /\ Asked(pat)' = Asked(pat)
    BY <2>2, <2>3, ArgsKept
  <2>5. ~Acting /\ ~Acting' BY <1>1, <2>2 DEF Acting
  <2>6. (WorkspaceExpanded' <=> WorkspaceExpanded) /\ ~EnvsExpanded' /\ ~EnvsExpanded
    BY <1>1, <2>2 DEF EnvsExpanded, WorkspaceExpanded, KeepsArgs
  <2>7. /\ \A t : Sound(t)' <=> Sound(t)
        /\ \A pair : Reached(pair)' <=> Reached(pair)
    BY <2>2 DEF Sound, Reached, Served, KeepsArgs, KeepsTargets, KeepsEffects
  <2>8. Phases' BY <1>1, <2>2 DEF SelInv, Phases, KeepsArgs, KeepsEffects
  <2>9. Targets'
    BY <1>1, <2>2, <2>5, <2>6, <2>7 DEF SelInv, Targets, KeepsArgs, KeepsTargets
  <2>10. Preflighted' /\ OnlyAsked' /\ Looping' /\ Passing' /\ Lines' /\ Finishing' /\ Cataloged'
    BY <1>1, <2>2, <2>5
    DEF SelInv, Preflighted, OnlyAsked, Looping, Passing, Lines, Finishing, Cataloged,
        KeepsEffects, KeepsLoop
  <2>11. Covering' BY <2>2, <2>5 DEF Covering
  <2>12. Reaching' BY <1>1, <2>2, <2>4, <2>6, <2>7 DEF SelInv, Reaching, KeepsArgs, KeepsEnd
  <2>13. Seeded' BY <1>6, <2>2, <2>4 DEF Seeded, KeepsArgs
  <2>14. DeadMeansDead' BY <2>2, <2>4 DEF SelInv, DeadMeansDead, KeepsArgs, KeepsEnd
  <2>15. QED
    BY <2>4, <2>8, <2>9, <2>10, <2>11, <2>12, <2>13, <2>14 DEF SelInv
<1> HIDE DEF seeded
<1>7. CASE concrete # <<>> /\ Become(seeded(Segment(concrete[1])))
  <2>1. 1 \in 1..Len(concrete) BY <1>3, <1>7
  <2>2. Holds(concrete, concrete[1]) BY <2>1 DEF Holds
  <2>3. Holds(cmd.pats, concrete[1]) /\ IsEnv(concrete[1]) /\ ~concrete[1].glob
    BY <1>2, <1>3, <2>2
  <2>4. PICK j \in 1..Len(cmd.pats) : cmd.pats[j] = concrete[1] BY <2>3 DEF Holds
  <2>5. Proper(concrete[1]) BY <1>1, <2>4, GivenPatterns
  <2>6. PICK e \in Scopes : concrete[1].envs = {e} BY <2>3, <2>5 DEF Proper
  <2>7. Segment(concrete[1]) = e BY <2>6 DEF Segment
  <2>8. Wired => e # Workspace
    BY <1>1, <2>3, <2>4, <2>6 DEF Wired, IsEnv, IsWorkspacePattern
  <2>9. QED BY <1>6, <1>7, <2>7, <2>8
<1>8. CASE concrete = <<>> /\ Sessions # <<>> /\ Become(seeded(SeedSession))
  <2>1. ASSUME NEW j \in 1..Len(cmd.pats), IsEnv(cmd.pats[j]) PROVE cmd.pats[j].glob
    <3>1. ~Holds(concrete, cmd.pats[j]) BY <1>8 DEF Holds
    <3>2. Holds(cmd.pats, cmd.pats[j]) /\ cmd.pats[j] \in ToSet(cmd.pats)
      BY <1>1 DEF Holds, ToSet
    <3>3. QED BY <1>2, <1>3, <2>1, <3>1, <3>2
  <2>2. Wired => \A i \in 1..Len(cmd.pats) :
                    IsEnv(cmd.pats[i]) /\ Asked(cmd.pats[i]) # {} => SeedSession # Workspace
    BY <2>1, SeedIsEnv
  <2>3. SeedSession \in Scopes
    <3> DEFINE other == Filtered(Sessions, {s \in alive : s.scope # Workspace})
    <3>1. Sessions \in Seq(Session) BY <1>1, RunningHolds
    <3>2. other \in Seq(Session) BY <3>1, FilteredHolds
    <3>3. SeedSession = (other \o Sessions)[1].scope BY DEF SeedSession
    <3> HIDE DEF other
    <3>4. other \o Sessions \in Seq(Session) /\ Len(other \o Sessions) = Len(other) + Len(Sessions)
      BY <3>1, <3>2
    <3>5. 1 \in 1..Len(other \o Sessions) BY <1>8, <3>1, <3>2, <3>4
    <3>6. (other \o Sessions)[1] \in Session BY <3>4, <3>5
    <3>7. QED BY <3>3, <3>6 DEF Session
  <2>4. QED BY <1>6, <1>8, <2>2, <2>3
<1>9. QED BY <1>4, <1>5, <1>7, <1>8

LEMMA ReadCatalogKeeps == ASSUME SelInv, ReadCatalog PROVE SelInv'
<1>1. cmd.pc = "read" /\ cmd \in CmdType /\ TypeOK /\ World /\ Given
  BY DEF ReadCatalog, At, SelInv, TypeOK
<1>2. CASE Refuse("unreadable") BY <1>1, <1>2, RefusalKeeps
<1>3. CASE Become([cmd EXCEPT !.pc = "expand", !.catalog = ServicesOf(manifest, cmd.seed)])
  <2>1. cmd' = [cmd EXCEPT !.pc = "expand", !.catalog = ServicesOf(manifest, cmd.seed)]
    BY <1>3 DEF Become
  <2>2. /\ KeepsArgs /\ KeepsTargets /\ KeepsLoop /\ KeepsEffects /\ KeepsEnd
        /\ cmd'.pc = "expand" /\ cmd'.catalog = ServicesOf(manifest, cmd.seed)
        /\ cmd'.seed = cmd.seed
    BY <1>1, <1>3, <2>1
    DEF CmdType, Become, world, KeepsArgs, KeepsTargets, KeepsLoop, KeepsEffects, KeepsEnd
  <2>3. cmd' \in CmdType
    <3>1. ServicesOf(manifest, cmd.seed) \in Seq(Services) BY <1>1, ManifestLists
    <3>2. Whole(cmd') BY <2>1, Zenon DEF Whole
    <3>3. FieldsOK(cmd')
      BY <2>2, <3>1, FieldsTyped
      DEF FieldsOK, PC, KeepsArgs, KeepsTargets, KeepsLoop, KeepsEffects, KeepsEnd
    <3>4. QED BY <1>1, <3>2, <3>3, Retyped
  <2>4. /\ TypeOK' /\ Given' /\ World' /\ (Wired' <=> Wired)
        /\ \A pat : (IsEnv(pat)' <=> IsEnv(pat)) /\ Asked(pat)' = Asked(pat)
    BY <2>2, <2>3, ArgsKept
  <2>5. ~Acting /\ ~Acting' BY <1>1, <2>2 DEF Acting
  <2>6. (WorkspaceExpanded' <=> WorkspaceExpanded) /\ ~EnvsExpanded' /\ ~EnvsExpanded
    BY <1>1, <2>2 DEF EnvsExpanded, WorkspaceExpanded, KeepsArgs
  <2>7. /\ \A t : Sound(t)' <=> Sound(t)
        /\ \A pair : Reached(pair)' <=> Reached(pair)
    BY <2>2 DEF Sound, Reached, Served, KeepsArgs, KeepsTargets, KeepsEffects
  <2>8. Phases' BY <1>1, <2>2 DEF SelInv, Phases, KeepsArgs, KeepsEffects
  <2>9. Targets'
    BY <1>1, <2>2, <2>5, <2>6, <2>7 DEF SelInv, Targets, KeepsArgs, KeepsTargets
  <2>10. Preflighted' /\ OnlyAsked' /\ Looping' /\ Passing' /\ Lines' /\ Finishing' /\ Seeded'
    BY <1>1, <2>2, <2>5
    DEF SelInv, Preflighted, OnlyAsked, Looping, Passing, Lines, Finishing, Seeded,
        KeepsEffects, KeepsLoop
  <2>11. Covering' BY <2>2, <2>5 DEF Covering
  <2>12. Reaching' BY <1>1, <2>2, <2>4, <2>6, <2>7 DEF SelInv, Reaching, KeepsArgs, KeepsEnd
  <2>13. ASSUME Wired, NEW i \in 1..Len(cmd.pats), NEW pair \in Asked(cmd.pats[i]),
                IsEnv(cmd.pats[i])
         PROVE  Holds(cmd'.catalog, pair[2])
    <3>1. pair[1] # Workspace BY <1>1, <2>13, AskedOfEnvs
    <3>2. cmd.seed # Workspace BY <1>1, <2>13 DEF SelInv, Seeded
    <3>3. ServicesOf(manifest, cmd.seed) = ServicesOf(manifest, pair[1])
      BY <3>1, <3>2 DEF ServicesOf
    <3>4. Holds(ServicesOf(manifest, pair[1]), pair[2]) BY <1>1, DeclaredNow DEF Asked
    <3>5. QED BY <2>2, <3>3, <3>4
  <2>14. Cataloged' BY <2>2, <2>4, <2>13 DEF Cataloged, KeepsArgs
  <2>15. DeadMeansDead' BY <2>2, <2>4 DEF SelInv, DeadMeansDead, KeepsArgs, KeepsEnd
  <2>16. QED
    BY <2>4, <2>8, <2>9, <2>10, <2>11, <2>12, <2>14, <2>15 DEF SelInv
<1>4. QED BY <1>2, <1>3 DEF ReadCatalog

-----------------------------------------------------------------------------
(* expand_env_patterns.                                                    *)

LEMMA AskedIsHit ==
    ASSUME SelInv, cmd.pc = "expand", Wired, NEW i \in 1..Len(cmd.pats), IsEnv(cmd.pats[i]),
           NEW pair \in Asked(cmd.pats[i])
    PROVE  pair \in HitSet(cmd.pats[i], cmd.catalog, RunningEnvs)
<1>1. TypeOK /\ World BY DEF SelInv
<1>2. pair \in Pairs BY <1>1, DeclaredNow DEF Asked
<1>3. Matches(cmd.pats[i], pair) BY DEF Asked
<1>4. Holds(cmd.catalog, pair[2]) BY DEF SelInv, Cataloged
<1>5. cmd.pats[i].glob => pair[1] \in steady BY DEF Asked
<1>6. cmd.pats[i].glob => Holds(RunningEnvs, pair[1]) BY <1>1, <1>5, RunningHolds
<1>7. QED BY <1>2, <1>3, <1>4, <1>6 DEF HitSet

(* What the queue holds after a successful expansion.                      *)
LEMMA ExpansionHolds ==
    ASSUME SelInv, cmd.pc = "expand", NEW q, q = Expand(EnvPats(cmd), cmd.catalog, RunningEnvs),
           ~Dead(EnvPats(cmd), cmd.catalog, RunningEnvs)
    PROVE  /\ q \in Seq(Target)
           /\ \A k \in 1..Len(q) : Sound(q[k])
           /\ \A i \in 1..Len(cmd.pats) :
                 IsEnv(cmd.pats[i]) => \E k \in 1..Len(q) : Covers(q[k], cmd.pats[i])
           /\ Wired => \A i \in 1..Len(cmd.pats) : \A pair \in Asked(cmd.pats[i]) :
                 IsEnv(cmd.pats[i]) =>
                     \E k \in 1..Len(q) : q[k].scope = pair[1] /\ Holds(q[k].svcs, pair[2])
<1> DEFINE E == EnvPats(cmd)
           R == RunningEnvs
           S == Selected(E, cmd.catalog, R)
           hit(pat) == HitSet(pat, cmd.catalog, R)
<1>1. TypeOK /\ World /\ Given BY DEF SelInv
<1>2. cmd.catalog \in Seq(Services) /\ R \in Seq(Scopes)
  BY <1>1, FieldsTyped, RunningHolds DEF FieldsOK
<1>3. /\ Len(E) \in Nat /\ \A j \in 1..Len(E) : Proper(E[j])
      /\ \A j \in 1..Len(E) : \E i \in 1..Len(cmd.pats) : cmd.pats[i] = E[j]
      /\ \A i \in 1..Len(cmd.pats) : IsEnv(cmd.pats[i]) => \E j \in 1..Len(E) : E[j] = cmd.pats[i]
  BY <1>1, SplitMembers
<1>4. q = Expand(E, cmd.catalog, R) OBVIOUS
<1>5. ~Dead(E, cmd.catalog, R) OBVIOUS
<1> HIDE DEF E, R
<1>6. Groups(q, S) BY <1>2, <1>3, <1>4, ExpandGroups
<1>7. \A j \in 1..Len(E) : hit(E[j]) # {} BY <1>2, <1>3, <1>5, HitsHold DEF Dead
<1>8. \A pair : pair \in S <=> pair \in Pairs /\ \E j \in 1..Len(E) : pair \in hit(E[j])
  BY DEF Selected
<1>9. \A pat : \A pair \in hit(pat) : pair \in Pairs /\ Matches(pat, pair) BY DEF HitSet
<1> HIDE DEF S, hit
<1>10. ASSUME NEW k \in 1..Len(q) PROVE Sound(q[k])
  <2>1. q[k].svcs # <<>> BY <1>6 DEF Groups
  <2>2. ASSUME NEW s, Holds(q[k].svcs, s)
        PROVE  \E i \in 1..Len(cmd.pats) : Matches(cmd.pats[i], <<q[k].scope, s>>)
    <3>1. <<q[k].scope, s>> \in S BY <1>6, <2>2 DEF Groups
    <3>2. PICK j \in 1..Len(E) : <<q[k].scope, s>> \in hit(E[j]) BY <1>8, <3>1
    <3>3. Matches(E[j], <<q[k].scope, s>>) BY <1>9, <3>2
    <3>4. QED BY <1>3, <3>3
  <2>3. QED BY <2>1, <2>2 DEF Sound
<1>11. ASSUME NEW i \in 1..Len(cmd.pats), IsEnv(cmd.pats[i])
       PROVE  \E k \in 1..Len(q) : Covers(q[k], cmd.pats[i])
  <2>1. PICK j \in 1..Len(E) : E[j] = cmd.pats[i] BY <1>3, <1>11
  <2>2. PICK pair \in hit(cmd.pats[i]) : TRUE BY <1>7, <2>1
  <2>3. pair \in S /\ Matches(cmd.pats[i], pair) BY <1>8, <1>9, <2>1, <2>2
  <2>4. PICK k \in 1..Len(q) : q[k].scope = pair[1] /\ Holds(q[k].svcs, pair[2])
    BY <1>6, <2>3 DEF Groups
  <2>5. QED BY <2>3, <2>4 DEF Covers, Matches
<1>12. ASSUME Wired, NEW i \in 1..Len(cmd.pats), NEW pair \in Asked(cmd.pats[i]),
              IsEnv(cmd.pats[i])
       PROVE  \E k \in 1..Len(q) : q[k].scope = pair[1] /\ Holds(q[k].svcs, pair[2])
  <2>1. PICK j \in 1..Len(E) : E[j] = cmd.pats[i] BY <1>3, <1>12
  <2>2. pair \in hit(cmd.pats[i]) BY <1>12, AskedIsHit DEF hit, R
  <2>3. pair \in S BY <1>8, <1>9, <2>1, <2>2
  <2>4. QED BY <1>6, <2>3 DEF Groups
<1>13. q \in Seq(Target) BY <1>6 DEF Groups
<1>14. QED BY <1>10, <1>11, <1>12, <1>13

LEMMA DeadKeeps ==
    ASSUME SelInv, cmd.pc = "expand", Dead(EnvPats(cmd), cmd.catalog, RunningEnvs), Refuse("dead")
    PROVE  SelInv'
<1>1. TypeOK /\ World /\ Given BY DEF SelInv
<1>2. cmd.catalog \in Seq(Services) /\ RunningEnvs \in Seq(Scopes) /\ cmd.pats \in Seq(Pattern)
  BY <1>1, FieldsTyped, RunningHolds DEF FieldsOK
<1>3. PICK j \in 1..Len(EnvPats(cmd)) : Hits(EnvPats(cmd)[j], cmd.catalog, RunningEnvs) = <<>>
  BY DEF Dead
<1>4. PICK i \in 1..Len(cmd.pats) : cmd.pats[i] = EnvPats(cmd)[j] /\ IsEnv(cmd.pats[i])
  BY <1>1, SplitMembers
<1>5. HitSet(cmd.pats[i], cmd.catalog, RunningEnvs) = {}
  BY <1>1, <1>2, <1>3, <1>4, GivenPatterns, HitsHold
<1>6. Wired => Asked(cmd.pats[i]) = {} BY <1>4, <1>5, AskedIsHit
<1>7. i \in DOMAIN cmd.pats BY <1>2
<1>8. QED BY <1>6, <1>7, RefusalKeeps

LEMMA ExpandEnvsKeeps == ASSUME SelInv, ExpandEnvs PROVE SelInv'
<1> DEFINE q == Expand(EnvPats(cmd), cmd.catalog, RunningEnvs)
<1>1. cmd.pc = "expand" /\ cmd \in CmdType /\ TypeOK /\ World /\ Given
  BY DEF ExpandEnvs, At, SelInv, TypeOK
<1>2. CASE Dead(EnvPats(cmd), cmd.catalog, RunningEnvs) /\ Refuse("dead")
  BY <1>1, <1>2, DeadKeeps
<1>3. CASE /\ ~Dead(EnvPats(cmd), cmd.catalog, RunningEnvs)
           /\ Become([cmd EXCEPT !.pc = Dispatch, !.queue = q])
  <2>1. /\ q \in Seq(Target)
        /\ \A k \in 1..Len(q) : Sound(q[k])
        /\ \A i \in 1..Len(cmd.pats) :
              IsEnv(cmd.pats[i]) => \E k \in 1..Len(q) : Covers(q[k], cmd.pats[i])
        /\ Wired => \A i \in 1..Len(cmd.pats) : \A pair \in Asked(cmd.pats[i]) :
              IsEnv(cmd.pats[i]) =>
                  \E k \in 1..Len(q) : q[k].scope = pair[1] /\ Holds(q[k].svcs, pair[2])
    BY <1>1, <1>3, ExpansionHolds
  <2> HIDE DEF q
  <2>2. cmd' = [cmd EXCEPT !.pc = Dispatch, !.queue = q] BY <1>3 DEF Become
  <2>3. /\ KeepsArgs /\ KeepsLoop /\ KeepsEffects /\ KeepsEnd
        /\ cmd'.pc = Dispatch /\ cmd'.queue = q /\ cmd'.built = cmd.built
        /\ cmd'.seed = cmd.seed /\ cmd'.catalog = cmd.catalog
    BY <1>1, <1>3, <2>2
    DEF CmdType, Become, world, KeepsArgs, KeepsLoop, KeepsEffects, KeepsEnd
  <2>4. cmd'.pc \in {"workspace", "build", "collect"} BY <2>3 DEF Dispatch
  <2>5. cmd' \in CmdType
    <3>1. Whole(cmd') BY <2>2, Zenon DEF Whole
    <3>2. FieldsOK(cmd')
      BY <2>1, <2>3, <2>4, FieldsTyped
      DEF FieldsOK, PC, KeepsArgs, KeepsLoop, KeepsEffects, KeepsEnd
    <3>3. QED BY <1>1, <3>1, <3>2, Retyped
  <2>6. /\ TypeOK' /\ Given' /\ World' /\ (Wired' <=> Wired)
        /\ \A pat : (IsEnv(pat)' <=> IsEnv(pat)) /\ Asked(pat)' = Asked(pat)
    BY <2>3, <2>5, ArgsKept
  <2>7. /\ cmd.built = <<>> /\ cmd.queue = <<>> /\ ~Acting /\ ~Acting' /\ cmd.reaped = {}
        /\ cmd.passed = 0
    BY <1>1, <2>4 DEF SelInv, Targets, EnvsExpanded, Preflighted, Acting
  (* Who goes where: the workspace's patterns are next, or there are none. *)
  <2>8. /\ cmd'.pc = "workspace" => /\ cmd.kind = "restart"
                                    /\ \E i \in 1..Len(cmd.pats) : ~IsEnv(cmd.pats[i])
        /\ cmd'.pc = "build" =>
              /\ cmd.kind \in {"restart", "follow"}
              /\ \A i \in 1..Len(cmd.pats) : IsEnv(cmd.pats[i])
        /\ cmd'.pc = "collect" => cmd.kind \in {"status", "logs"}
    <3>1. cmd.kind \in {"restart", "status", "logs", "follow"} BY FieldsTyped DEF FieldsOK
    <3>2. CASE cmd.kind = "restart" /\ WorkspacePats(cmd) # <<>>
      <4>1. cmd'.pc = "workspace" BY <2>3, <3>2 DEF Dispatch
      <4>2. WorkspacePats(cmd) \in Seq(Pattern) BY <1>1, WorkspacePatterns
      <4>3. 1 \in 1..Len(WorkspacePats(cmd)) BY <3>2, <4>2
      <4>4. \E i \in 1..Len(cmd.pats) : ~IsEnv(cmd.pats[i]) BY <1>1, <4>3, SplitMembers
      <4>5. QED BY <3>2, <4>1, <4>4
    <3>3. CASE cmd.kind = "restart" /\ WorkspacePats(cmd) = <<>>
      <4>1. cmd'.pc = "build" BY <2>3, <3>3 DEF Dispatch
      <4>2. \A j \in 1..Len(WorkspacePats(cmd)) : FALSE BY <3>3
      <4>3. \A i \in 1..Len(cmd.pats) : IsEnv(cmd.pats[i]) BY <1>1, <4>2, SplitMembers
      <4>4. QED BY <3>3, <4>1, <4>3
    <3>4. CASE cmd.kind = "follow"
      BY <2>3, <3>4 DEF Dispatch, IsEnv
    <3>5. CASE cmd.kind \in {"status", "logs"}
      BY <2>3, <3>5 DEF Dispatch
    <3>6. QED BY <3>1, <3>2, <3>3, <3>4, <3>5
  <2>9. /\ \A t : Sound(t)' <=> Sound(t)
        /\ \A pair : Served(pair)' <=> Served(pair)
    BY <2>3 DEF Sound, Served, KeepsArgs, KeepsEffects
  <2>10. Phases'
    BY <1>1, <2>3, <2>4, <2>6, <2>8 DEF SelInv, Phases, KeepsArgs, KeepsEffects
  <2>11. Targets'
    BY <2>1, <2>3, <2>4, <2>7, <2>8, <2>9 DEF Targets, EnvsExpanded, KeepsArgs
  <2>12. Looping' /\ Preflighted' /\ OnlyAsked' /\ Seeded' /\ Cataloged' /\ Finishing' /\ Passing'
         /\ Lines'
    BY <2>3, <2>4, <2>7
    DEF Looping, Preflighted, OnlyAsked, Seeded, Cataloged, Finishing, Passing, Lines,
        KeepsLoop, KeepsEffects
  <2>13. Covering'
    <3>1. ASSUME NEW i \in 1..Len(cmd.pats), IsEnv(cmd.pats[i]) PROVE Covered(cmd.pats[i])'
      BY <2>1, <2>3, <3>1 DEF Covered, KeepsArgs
    <3>2. ASSUME NEW i \in 1..Len(cmd.pats), ~IsWorkspacePattern(cmd.pats[i])
          PROVE  IsEnv(cmd.pats[i])
      BY <3>2 DEF IsEnv
    <3>3. cmd.kind = "restart" => cmd'.pc \in {"workspace", "build"} BY <2>4, <2>8
    <3>4. QED BY <2>3, <2>7, <2>8, <3>1, <3>2, <3>3 DEF Covering, KeepsArgs
  <2>14. Reaching'
    <3> SUFFICES ASSUME Wired, cmd.rc = 0, NEW i \in 1..Len(cmd.pats),
                        NEW pair \in Asked(cmd.pats[i])
                 PROVE  /\ IsEnv(cmd.pats[i]) => Reached(pair)'
                        /\ ~IsEnv(cmd.pats[i]) /\ WorkspaceExpanded' => Reached(pair)'
      BY <2>3, <2>6 DEF Reaching, KeepsArgs, KeepsEnd
    <3>1. CASE IsEnv(cmd.pats[i])
      BY <2>1, <2>3, <3>1 DEF Reached
    <3>2. CASE ~IsEnv(cmd.pats[i]) /\ WorkspaceExpanded'
      <4>1. WorkspaceExpanded BY <1>1, <2>3, <2>4, <2>8, <3>2 DEF WorkspaceExpanded, KeepsArgs
      <4>2. Reached(pair) BY <3>2, <4>1 DEF SelInv, Reaching
      <4>3. Served(pair) BY <2>7, <4>2 DEF Reached
      <4>4. QED BY <2>9, <3>2, <4>3 DEF Reached
    <3>3. QED BY <3>1, <3>2
  <2>15. DeadMeansDead' BY <2>3, <2>6 DEF SelInv, DeadMeansDead, KeepsArgs, KeepsEnd
  <2>16. QED
    BY <2>6, <2>10, <2>11, <2>12, <2>13, <2>14, <2>15 DEF SelInv
<1>4. QED BY <1>2, <1>3 DEF ExpandEnvs

-----------------------------------------------------------------------------
(* The workspace's own patterns, and the contexts.                         *)

(* What the workspace's patterns select when none of them is dead: one     *)
(* target, the workspace.                                                  *)
LEMMA WorkspaceTarget ==
    ASSUME TypeOK, Given, \E i \in 1..Len(cmd.pats) : ~IsEnv(cmd.pats[i]),
           NEW catalog \in Seq(Services), ~Dead(WorkspacePats(cmd), catalog, <<>>),
           NEW t, t = Expand(WorkspacePats(cmd), catalog, <<>>)[1]
    PROVE  /\ t \in Target /\ t.scope = Workspace /\ Sound(t)
           /\ \A i \in 1..Len(cmd.pats) : ~IsEnv(cmd.pats[i]) =>
                 /\ Covers(t, cmd.pats[i])
                 /\ \A s \in cmd.pats[i].svcs : Holds(catalog, s) => Holds(t.svcs, s)
<1> DEFINE W == WorkspacePats(cmd)
           q == Expand(W, catalog, <<>>)
           S == Selected(W, catalog, <<>>)
           hit(pat) == HitSet(pat, catalog, <<>>)
<1>1. <<>> \in Seq(Scopes) OBVIOUS
<1>2. /\ Len(W) \in Nat
      /\ \A j \in 1..Len(W) :
            Proper(W[j]) /\ \E i \in 1..Len(cmd.pats) : cmd.pats[i] = W[j] /\ ~IsEnv(cmd.pats[i])
      /\ \A i \in 1..Len(cmd.pats) : ~IsEnv(cmd.pats[i]) => \E j \in 1..Len(W) : W[j] = cmd.pats[i]
  BY SplitMembers
<1>3. ~Dead(W, catalog, <<>>) /\ t = q[1] OBVIOUS
<1> HIDE DEF W
<1>4. Groups(q, S) BY <1>1, <1>2, ExpandGroups
<1>5. \A j \in 1..Len(W) : hit(W[j]) # {}
  <2>1. ASSUME NEW j \in 1..Len(W) PROVE HitSet(W[j], catalog, <<>>) # {}
    <3>1. Hits(W[j], catalog, <<>>) # <<>> BY <1>3 DEF Dead
    <3>2. Proper(W[j]) BY <1>2
    <3>3. QED BY <1>1, <3>1, <3>2, HitsHold
  <2>2. QED BY <2>1
<1>6. \A pair : pair \in S <=> pair \in Pairs /\ \E j \in 1..Len(W) : pair \in hit(W[j])
  BY DEF Selected
<1>7. \A pat : \A pair \in hit(pat) : pair \in Pairs /\ Matches(pat, pair) BY DEF HitSet
<1>8. \A j \in 1..Len(W) : ~W[j].glob /\ W[j].envs = {Workspace}
  BY <1>2 DEF IsEnv, IsWorkspacePattern
<1>9. \A j \in 1..Len(W) : \A s \in W[j].svcs :
         Holds(catalog, s) => <<Workspace, s>> \in hit(W[j])
  <2>1. \A s : Holds(catalog, s) => s \in Services BY DEF Holds
  <2>2. QED BY <1>8, <2>1 DEF HitSet, Matches, Pairs, Scopes
<1> HIDE DEF q, S, hit
<1>10. \A pair \in S : pair[1] = Workspace BY <1>6, <1>7, <1>8 DEF Matches
<1>11. q \in Seq(Target) BY <1>4 DEF Groups
<1>12. \A k \in 1..Len(q) : q[k].scope = Workspace
  <2>1. ASSUME NEW k \in 1..Len(q) PROVE q[k].scope = Workspace
    <3>0. q[k] \in Target BY <1>11
    <3>1. q[k].svcs # <<>> /\ q[k].svcs \in Seq(Services) BY <1>4, <3>0 DEF Groups, Target
    <3>2. PICK s : Holds(q[k].svcs, s) BY <3>1, EmptyHolds
    <3>3. <<q[k].scope, s>> \in S BY <1>4, <3>2 DEF Groups
    <3>4. QED BY <1>10, <3>3
  <2>2. QED BY <2>1
<1>13. \A k \in 1..Len(q) : k = 1
  <2>1. ASSUME NEW k \in 1..Len(q) PROVE k = 1
    <3>1. 1 \in 1..Len(q) BY <1>11
    <3>2. q[k].scope = q[1].scope BY <1>12, <3>1
    <3>3. QED BY <1>4, <3>1, <3>2 DEF Groups
  <2>2. QED BY <2>1
<1>14. ASSUME NEW pair \in S PROVE 1 \in 1..Len(q) /\ Holds(t.svcs, pair[2])
  BY <1>3, <1>4, <1>13 DEF Groups
<1>15. PICK i0 \in 1..Len(cmd.pats) : ~IsEnv(cmd.pats[i0]) OBVIOUS
<1>16. 1 \in 1..Len(q)
  <2>1. PICK j \in 1..Len(W) : W[j] = cmd.pats[i0] BY <1>2, <1>15
  <2>2. PICK pair \in hit(W[j]) : TRUE BY <1>5
  <2>3. pair \in S BY <1>6, <1>7, <2>2
  <2>4. QED BY <1>14, <2>3
<1>17. t \in Target /\ t.scope = Workspace BY <1>3, <1>11, <1>12, <1>16
<1>18. Sound(t)
  <2>1. t.svcs # <<>> BY <1>3, <1>4, <1>16 DEF Groups
  <2>2. ASSUME NEW s, Holds(t.svcs, s)
        PROVE  \E i \in 1..Len(cmd.pats) : Matches(cmd.pats[i], <<t.scope, s>>)
    <3>1. <<t.scope, s>> \in S BY <1>3, <1>4, <1>16, <2>2 DEF Groups
    <3>2. PICK j \in 1..Len(W) : <<t.scope, s>> \in hit(W[j]) BY <1>6, <3>1
    <3>3. Matches(W[j], <<t.scope, s>>) BY <1>7, <3>2
    <3>4. QED BY <1>2, <3>3
  <2>3. QED BY <2>1, <2>2 DEF Sound
<1>19. ASSUME NEW i \in 1..Len(cmd.pats), ~IsEnv(cmd.pats[i])
       PROVE  /\ Covers(t, cmd.pats[i])
              /\ \A s \in cmd.pats[i].svcs : Holds(catalog, s) => Holds(t.svcs, s)
  <2>1. PICK j \in 1..Len(W) : W[j] = cmd.pats[i] BY <1>2, <1>19
  <2>2. PICK pair \in hit(W[j]) : TRUE BY <1>5
  <2>3. pair \in S /\ Matches(W[j], pair) BY <1>6, <1>7, <2>2
  <2>4. Holds(t.svcs, pair[2]) BY <1>14, <2>3
  <2>5. Covers(t, cmd.pats[i]) BY <1>8, <1>17, <2>1, <2>3, <2>4 DEF Covers, Matches
  <2>6. ASSUME NEW s \in cmd.pats[i].svcs, Holds(catalog, s) PROVE Holds(t.svcs, s)
    <3>1. <<Workspace, s>> \in hit(W[j]) BY <1>9, <2>1, <2>6
    <3>2. <<Workspace, s>> \in S BY <1>6, <1>7, <3>1
    <3>3. QED BY <1>14, <3>2
  <2>7. QED BY <2>5, <2>6
<1>20. QED BY <1>17, <1>18, <1>19

(* What is asked of the workspace's patterns is in the workspace's list.   *)
LEMMA AskedInWorkspace ==
    ASSUME TypeOK, World, NEW i \in 1..Len(cmd.pats), ~IsEnv(cmd.pats[i]),
           NEW pair \in Asked(cmd.pats[i])
    PROVE  /\ pair[1] = Workspace /\ pair[2] \in cmd.pats[i].svcs /\ pair = <<pair[1], pair[2]>>
           /\ Holds(manifest.workspace, pair[2]) /\ pair[2] \in ToSet(manifest.workspace)
<1>1. pair[1] = Workspace BY AskedOfWorkspace DEF IsEnv
<1>2. ServicesOf(manifest, pair[1]) = manifest.workspace BY <1>1 DEF ServicesOf
<1>3. QED BY <1>1, <1>2, DeclaredNow DEF Asked, Matches

LEMMA RestartWorkspaceKeeps == ASSUME SelInv, RestartWorkspace PROVE SelInv'
<1> DEFINE has == manifest.workspace
           t == Expand(WorkspacePats(cmd), has, <<>>)[1]
           b == [scope |-> Workspace, has |-> ToSet(has), svcs |-> t.svcs]
<1>1. /\ cmd.pc = "workspace" /\ cmd.kind = "restart" /\ cmd \in CmdType
      /\ TypeOK /\ World /\ Given
  BY DEF RestartWorkspace, At, SelInv, TypeOK
<1>2. /\ cmd.built = <<>> /\ ~Acting /\ cmd.reaped = {} /\ cmd.passed = 0
      /\ \E i \in 1..Len(cmd.pats) : ~IsEnv(cmd.pats[i])
  BY <1>1 DEF SelInv, Targets, Acting, Preflighted, Phases
<1>3. has \in Seq(Services) BY <1>1, ManifestLists
<1>4. \/ Become([cmd EXCEPT !.pc = "build", !.rc = 1])
      \/ /\ ~Dead(WorkspacePats(cmd), has, <<>>)
         /\ Become([cmd EXCEPT !.pc = "build", !.built = <<b>>])
  BY DEF RestartWorkspace
<1> HIDE DEF b, t
<1>5. CASE Become([cmd EXCEPT !.pc = "build", !.rc = 1])
  <2>1. cmd' = [cmd EXCEPT !.pc = "build", !.rc = 1] BY <1>5 DEF Become
  <2>2. /\ KeepsArgs /\ KeepsTargets /\ KeepsLoop /\ KeepsEffects
        /\ cmd'.pc = "build" /\ cmd'.rc = 1 /\ cmd'.end = cmd.end
        /\ cmd'.seed = cmd.seed /\ cmd'.catalog = cmd.catalog
    BY <1>1, <1>5, <2>1
    DEF CmdType, Become, world, KeepsArgs, KeepsTargets, KeepsLoop, KeepsEffects
  <2>3. cmd' \in CmdType
    <3>1. Whole(cmd') BY <2>1, Zenon DEF Whole
    <3>2. FieldsOK(cmd')
      BY <2>2, FieldsTyped DEF FieldsOK, PC, KeepsArgs, KeepsTargets, KeepsLoop, KeepsEffects
    <3>3. QED BY <1>1, <3>1, <3>2, Retyped
  <2>4. /\ TypeOK' /\ Given' /\ World' /\ (Wired' <=> Wired)
        /\ \A pat : (IsEnv(pat)' <=> IsEnv(pat)) /\ Asked(pat)' = Asked(pat)
    BY <2>2, <2>3, ArgsKept
  <2>5. ~Acting' /\ EnvsExpanded' BY <2>2 DEF Acting, EnvsExpanded
  <2>6. \A u : Sound(u)' <=> Sound(u) BY <2>2 DEF Sound, KeepsArgs
  <2>7. Targets' BY <1>1, <2>2, <2>5, <2>6 DEF SelInv, Targets, KeepsArgs, KeepsTargets
  <2>8. Phases' /\ Looping' /\ Preflighted' /\ OnlyAsked' /\ Covering' /\ Reaching' /\ Seeded'
        /\ Cataloged' /\ Finishing' /\ Passing' /\ Lines'
    BY <1>1, <1>2, <2>2, <2>5
    DEF Phases, Looping, Preflighted, OnlyAsked, Covering, Reaching, Seeded, Cataloged,
        Finishing, Passing, Lines, KeepsArgs, KeepsEffects, KeepsLoop
  <2>9. DeadMeansDead' BY <2>2, <2>4 DEF SelInv, DeadMeansDead, KeepsArgs
  <2>10. QED BY <2>4, <2>7, <2>8, <2>9 DEF SelInv
<1>6. CASE /\ ~Dead(WorkspacePats(cmd), has, <<>>)
           /\ Become([cmd EXCEPT !.pc = "build", !.built = <<b>>])
  <2>1. cmd' = [cmd EXCEPT !.pc = "build", !.built = <<b>>] BY <1>6 DEF Become
  <2>2. /\ KeepsArgs /\ KeepsLoop /\ KeepsEffects /\ KeepsEnd
        /\ cmd'.pc = "build" /\ cmd'.built = <<b>> /\ cmd'.queue = cmd.queue
        /\ cmd'.seed = cmd.seed /\ cmd'.catalog = cmd.catalog
    BY <1>1, <1>6, <2>1
    DEF CmdType, Become, world, KeepsArgs, KeepsLoop, KeepsEffects, KeepsEnd
  <2>3. /\ t \in Target /\ t.scope = Workspace /\ Sound(t)
        /\ \A i \in 1..Len(cmd.pats) : ~IsEnv(cmd.pats[i]) =>
              /\ Covers(t, cmd.pats[i])
              /\ \A s \in cmd.pats[i].svcs : Holds(has, s) => Holds(t.svcs, s)
    BY <1>1, <1>2, <1>3, <1>6, WorkspaceTarget DEF t
  <2>4. b.scope = t.scope /\ b.svcs = t.svcs /\ b.has = ToSet(has) BY <2>3 DEF b
  <2>5. b \in Scoped BY <1>3, <2>3 DEF b, Scoped, Target, ToSet
  <2>6. cmd' \in CmdType
    <3>1. Whole(cmd') BY <2>1, Zenon DEF Whole
    <3>2. FieldsOK(cmd')
      BY <2>2, <2>5, FieldsTyped DEF FieldsOK, PC, KeepsArgs, KeepsLoop, KeepsEffects, KeepsEnd
    <3>3. QED BY <1>1, <3>1, <3>2, Retyped
  <2>7. /\ TypeOK' /\ Given' /\ World' /\ (Wired' <=> Wired)
        /\ \A pat : (IsEnv(pat)' <=> IsEnv(pat)) /\ Asked(pat)' = Asked(pat)
    BY <2>2, <2>6, ArgsKept
  <2>8. ~Acting' /\ EnvsExpanded' /\ EnvsExpanded BY <1>1, <2>2 DEF Acting, EnvsExpanded
  <2>9. /\ \A u : Sound(u)' <=> Sound(u)
        /\ \A pair : Served(pair)' <=> Served(pair)
    BY <2>2 DEF Sound, Served, KeepsArgs, KeepsEffects
  <2>10. Sound(b) BY <2>3, <2>4 DEF Sound
  <2>11. Len(cmd'.built) = 1 /\ cmd'.built[1] = b /\ \A k \in 1..Len(cmd'.built) : cmd'.built[k] = b
    BY <2>2
  <2>12. Targets'
    BY <1>1, <2>2, <2>8, <2>9, <2>10, <2>11 DEF SelInv, Targets, KeepsArgs
  <2>13. Phases' /\ Looping' /\ Preflighted' /\ OnlyAsked' /\ Seeded' /\ Cataloged' /\ Finishing'
         /\ Passing' /\ Lines'
    BY <1>1, <1>2, <2>2, <2>8
    DEF Phases, Looping, Preflighted, OnlyAsked, Seeded, Cataloged,
        Finishing, Passing, Lines, KeepsArgs, KeepsEffects, KeepsLoop
  <2>14. Covering'
    <3> SUFFICES ASSUME cmd.rc = 0, NEW i \in 1..Len(cmd.pats) PROVE Covered(cmd.pats[i])'
      BY <2>2, <2>8 DEF Covering, KeepsArgs, KeepsEnd
    <3>1. CASE IsEnv(cmd.pats[i])
      <4>1. ~IsWorkspacePattern(cmd.pats[i]) BY <1>1, <3>1 DEF IsEnv
      <4>2. Covered(cmd.pats[i]) BY <1>1, <4>1 DEF SelInv, Covering
      <4>3. QED BY <1>2, <2>2, <4>2 DEF Covered, KeepsArgs
    <3>2. CASE ~IsEnv(cmd.pats[i])
      <4>1. Covers(b, cmd.pats[i]) BY <2>3, <2>4, <3>2 DEF Covers
      <4>2. QED BY <2>2, <2>11, <4>1 DEF Covered, KeepsArgs
    <3>3. QED BY <3>1, <3>2
  <2>15. Reaching'
    <3> SUFFICES ASSUME Wired, cmd.rc = 0, NEW i \in 1..Len(cmd.pats),
                        NEW pair \in Asked(cmd.pats[i])
                 PROVE  Reached(pair)'
      BY <2>2, <2>7 DEF Reaching, KeepsArgs, KeepsEnd
    <3>1. CASE IsEnv(cmd.pats[i])
      <4>1. Reached(pair) BY <2>8, <3>1 DEF SelInv, Reaching
      <4>2. QED BY <1>2, <2>2, <2>9, <4>1 DEF Reached
    <3>2. CASE ~IsEnv(cmd.pats[i])
      <4>1. /\ pair[1] = Workspace /\ pair[2] \in cmd.pats[i].svcs
            /\ Holds(has, pair[2]) /\ pair[2] \in ToSet(has)
        BY <1>1, <3>2, AskedInWorkspace
      <4>2. Holds(b.svcs, pair[2]) BY <2>3, <2>4, <3>2, <4>1
      <4>3. QED BY <2>3, <2>4, <2>11, <4>1, <4>2 DEF Reached
    <3>3. QED BY <3>1, <3>2
  <2>16. DeadMeansDead' BY <2>2, <2>7 DEF SelInv, DeadMeansDead, KeepsArgs, KeepsEnd
  <2>17. QED BY <2>7, <2>12, <2>13, <2>14, <2>15, <2>16 DEF SelInv
<1>7. QED BY <1>4, <1>5, <1>6

LEMMA StatusWorkspaceKeeps == ASSUME SelInv, StatusWorkspace PROVE SelInv'
<1> DEFINE has == manifest.workspace
           t == Expand(WorkspacePats(cmd), has, <<>>)[1]
           none == EnvPats(cmd) = <<>>
           after == IF none THEN [cmd EXCEPT !.pc = "done", !.end = "finished"]
                    ELSE [cmd EXCEPT !.pc = "seed"]
<1>1. /\ cmd.pc = "workspace" /\ cmd.kind = "status" /\ cmd \in CmdType
      /\ TypeOK /\ World /\ Given
  BY DEF StatusWorkspace, At, SelInv, TypeOK
<1>2. /\ cmd.built = <<>> /\ cmd.queue = <<>> /\ ~Acting /\ cmd.reaped = {} /\ cmd.passed = 0
      /\ \E i \in 1..Len(cmd.pats) : ~IsEnv(cmd.pats[i])
  BY <1>1 DEF SelInv, Targets, Acting, Preflighted, Phases, EnvsExpanded
<1>3. has \in Seq(Services) BY <1>1, ManifestLists
<1>4. \/ Become([after EXCEPT !.rc = 1])
      \/ /\ ~Dead(WorkspacePats(cmd), has, <<>>)
         /\ Become([after EXCEPT !.shown = Known(t)])
  BY DEF StatusWorkspace
<1>5. none => \A i \in 1..Len(cmd.pats) : ~IsEnv(cmd.pats[i]) BY <1>1, SplitMembers
<1> HIDE DEF t, none
<1>6. ASSUME KeepsArgs, KeepsTargets, KeepsLoop, Whole(cmd'),
             cmd'.reaped = cmd.reaped, cmd'.typed = cmd.typed, cmd'.unresolved = cmd.unresolved,
             cmd'.shown \in SUBSET (Scopes \X Services), cmd'.rc \in {cmd.rc, 1},
             cmd'.seed = cmd.seed, cmd'.catalog = cmd.catalog,
             IF none THEN cmd'.pc = "done" /\ cmd'.end = "finished"
                     ELSE cmd'.pc = "seed" /\ cmd'.end = cmd.end,
             cmd'.rc = 0 => \A i \in 1..Len(cmd.pats) : ~IsEnv(cmd.pats[i]) =>
                 \A pair \in Asked(cmd.pats[i]) : pair \in cmd'.shown
      PROVE  SelInv'
  <2>1. cmd'.pc \in {"done", "seed"} /\ cmd'.end \in {cmd.end, "finished"} BY <1>6
  <2>2. cmd' \in CmdType
    <3>1. FieldsOK(cmd')
      BY <1>6, <2>1, FieldsTyped DEF FieldsOK, PC, KeepsArgs, KeepsTargets, KeepsLoop
    <3>2. QED BY <1>1, <1>6, <3>1, Retyped
  <2>3. /\ TypeOK' /\ Given' /\ World' /\ (Wired' <=> Wired)
        /\ \A pat : (IsEnv(pat)' <=> IsEnv(pat)) /\ Asked(pat)' = Asked(pat)
    BY <1>6, <2>2, ArgsKept
  <2>4. ~Acting' BY <1>1, <1>6, <2>1 DEF Acting, KeepsArgs
  <2>5. Targets' BY <1>2, <1>6 DEF SelInv, Targets, KeepsArgs, KeepsTargets
  <2>6. Phases' /\ Looping' /\ Preflighted' /\ OnlyAsked' /\ Covering' /\ Seeded'
        /\ Cataloged' /\ Passing' /\ Lines'
    BY <1>1, <1>2, <1>6, <2>1, <2>4
    DEF Phases, Looping, Preflighted, OnlyAsked, Covering, Seeded, Cataloged,
        Passing, Lines, KeepsArgs, KeepsLoop
  <2>7. Finishing' BY <1>2, <1>6 DEF Finishing, KeepsTargets
  <2>8. Reaching'
    <3> SUFFICES ASSUME Wired, cmd'.rc = 0, NEW i \in 1..Len(cmd.pats),
                        NEW pair \in Asked(cmd.pats[i]),
                        IsEnv(cmd.pats[i]) => EnvsExpanded'
                 PROVE  Reached(pair)'
      BY <1>6, <2>3 DEF Reaching, KeepsArgs
    <3>1. ~IsEnv(cmd.pats[i]) BY <1>5, <1>6 DEF EnvsExpanded
    <3>2. pair \in cmd'.shown BY <1>6, <3>1
    <3>3. QED BY <3>2 DEF Reached, Served
  <2>9. DeadMeansDead' BY <1>6, <2>3 DEF SelInv, DeadMeansDead, KeepsArgs
  <2>10. QED BY <2>3, <2>5, <2>6, <2>7, <2>8, <2>9 DEF SelInv
<1>7. CASE Become([after EXCEPT !.rc = 1])
  <2>1. \/ none /\ cmd' = [cmd EXCEPT !.pc = "done", !.end = "finished", !.rc = 1]
        \/ ~none /\ cmd' = [cmd EXCEPT !.pc = "seed", !.rc = 1]
    BY <1>7 DEF Become
  <2>2. Whole(cmd')
    <3>1. CASE cmd' = [cmd EXCEPT !.pc = "done", !.end = "finished", !.rc = 1]
      BY <3>1, Zenon DEF Whole
    <3>2. CASE cmd' = [cmd EXCEPT !.pc = "seed", !.rc = 1] BY <3>2, Zenon DEF Whole
    <3>3. QED BY <2>1, <3>1, <3>2
  <2>3. /\ KeepsArgs /\ KeepsTargets /\ KeepsLoop /\ KeepsEffects /\ cmd'.rc = 1
        /\ cmd'.seed = cmd.seed /\ cmd'.catalog = cmd.catalog
        /\ IF none THEN cmd'.pc = "done" /\ cmd'.end = "finished"
                   ELSE cmd'.pc = "seed" /\ cmd'.end = cmd.end
    BY <1>1, <1>7, <2>1
    DEF CmdType, Become, world, KeepsArgs, KeepsTargets, KeepsLoop, KeepsEffects
  <2>4. cmd'.shown \in SUBSET (Scopes \X Services)
    BY <2>3, FieldsTyped DEF FieldsOK, KeepsEffects
  <2>5. QED BY <1>6, <2>2, <2>3, <2>4 DEF KeepsEffects
<1>8. CASE ~Dead(WorkspacePats(cmd), has, <<>>) /\ Become([after EXCEPT !.shown = Known(t)])
  <2>1. \/ none /\ cmd' = [cmd EXCEPT !.pc = "done", !.end = "finished", !.shown = Known(t)]
        \/ ~none /\ cmd' = [cmd EXCEPT !.pc = "seed", !.shown = Known(t)]
    BY <1>8 DEF Become
  <2>2. Whole(cmd')
    <3>1. CASE cmd' = [cmd EXCEPT !.pc = "done", !.end = "finished", !.shown = Known(t)]
      BY <3>1, Zenon DEF Whole
    <3>2. CASE cmd' = [cmd EXCEPT !.pc = "seed", !.shown = Known(t)]
      BY <3>2, Zenon DEF Whole
    <3>3. QED BY <2>1, <3>1, <3>2
  <2>3. /\ KeepsArgs /\ KeepsTargets /\ KeepsLoop /\ cmd'.rc = cmd.rc
        /\ cmd'.reaped = cmd.reaped /\ cmd'.typed = cmd.typed /\ cmd'.unresolved = cmd.unresolved
        /\ cmd'.seed = cmd.seed /\ cmd'.catalog = cmd.catalog /\ cmd'.shown = Known(t)
        /\ IF none THEN cmd'.pc = "done" /\ cmd'.end = "finished"
                   ELSE cmd'.pc = "seed" /\ cmd'.end = cmd.end
    BY <1>1, <1>8, <2>1
    DEF CmdType, Become, world, KeepsArgs, KeepsTargets, KeepsLoop
  <2>4. /\ t \in Target /\ t.scope = Workspace
        /\ \A i \in 1..Len(cmd.pats) : ~IsEnv(cmd.pats[i]) =>
              \A s \in cmd.pats[i].svcs : Holds(has, s) => Holds(t.svcs, s)
    BY <1>1, <1>2, <1>3, <1>8, WorkspaceTarget DEF t
  <2>5. t.svcs \in Seq(Services) BY <2>4 DEF Target
  <2>6. Known(t) = {Workspace} \X (ToSet(t.svcs) \intersect ToSet(has))
    BY <2>4 DEF Known, ServicesOf
  <2>7. ToSet(t.svcs) \subseteq Services BY <2>5 DEF ToSet
  <2>8. cmd'.shown \in SUBSET (Scopes \X Services) BY <2>3, <2>6, <2>7 DEF Scopes
  <2>9. ASSUME NEW i \in 1..Len(cmd.pats), ~IsEnv(cmd.pats[i]), NEW pair \in Asked(cmd.pats[i])
        PROVE  pair \in cmd'.shown
    <3>1. /\ pair[1] = Workspace /\ pair[2] \in cmd.pats[i].svcs /\ pair = <<pair[1], pair[2]>>
          /\ Holds(has, pair[2]) /\ pair[2] \in ToSet(has)
      BY <1>1, <2>9, AskedInWorkspace
    <3>2. Holds(t.svcs, pair[2]) BY <2>4, <2>9, <3>1
    <3>3. pair[2] \in ToSet(t.svcs) BY <2>5, <3>2 DEF Holds, ToSet
    <3>4. QED BY <2>3, <2>6, <3>1, <3>3
  <2>10. QED BY <1>6, <2>2, <2>3, <2>8, <2>9
<1>9. QED BY <1>4, <1>7, <1>8

-----------------------------------------------------------------------------
(* The loops over the targets.                                             *)

LEMMA TailMembers ==
    ASSUME NEW T, NEW q \in Seq(T), q # <<>>
    PROVE  /\ 1 \in 1..Len(q) /\ Head(q) = q[1] /\ q[1] \in T
           /\ Tail(q) \in Seq(T) /\ Len(Tail(q)) = Len(q) - 1 /\ Len(q) \in Nat
           /\ \A k \in 1..Len(Tail(q)) : k + 1 \in 1..Len(q) /\ Tail(q)[k] = q[k + 1]
           /\ \A k \in 1..Len(q) : k # 1 => k - 1 \in 1..Len(Tail(q)) /\ Tail(q)[k - 1] = q[k]
OBVIOUS

LEMMA AppendMembers ==
    ASSUME NEW T, NEW list \in Seq(T), NEW last \in T
    PROVE  /\ Append(list, last) \in Seq(T) /\ Len(Append(list, last)) = Len(list) + 1
           /\ Len(list) \in Nat /\ Append(list, last)[Len(list) + 1] = last
           /\ \A k \in 1..Len(list) :
                 k \in 1..(Len(list) + 1) /\ Append(list, last)[k] = list[k]
           /\ \A k \in 1..(Len(list) + 1) : k = Len(list) + 1 \/ k \in 1..Len(list)
OBVIOUS

LEMMA BuildEnvKeeps == ASSUME SelInv, BuildEnv PROVE SelInv'
<1> DEFINE t == cmd.queue[1]
           has == ServicesOf(manifest, t.scope)
           b == [scope |-> t.scope, svcs |-> t.svcs, has |-> ToSet(has)]
<1>1. /\ cmd.pc = "build" /\ cmd \in CmdType /\ TypeOK /\ World /\ Given
      /\ cmd.queue # <<>> /\ cmd.queue \in Seq(Target) /\ cmd.built \in Seq(Scoped)
  BY DEF BuildEnv, At, SelInv, TypeOK, CmdType
<1>2. /\ 1 \in 1..Len(cmd.queue) /\ Head(cmd.queue) = t /\ t \in Target
      /\ Tail(cmd.queue) \in Seq(Target)
      /\ \A k \in 1..Len(Tail(cmd.queue)) :
            k + 1 \in 1..Len(cmd.queue) /\ Tail(cmd.queue)[k] = cmd.queue[k + 1]
      /\ \A k \in 1..Len(cmd.queue) :
            k # 1 => k - 1 \in 1..Len(Tail(cmd.queue)) /\ Tail(cmd.queue)[k - 1] = cmd.queue[k]
  BY <1>1, TailMembers
<1>3. /\ ~Acting /\ cmd.reaped = {} /\ cmd.passed = 0 /\ EnvsExpanded
      /\ cmd.kind \in {"restart", "follow"}
  BY <1>1 DEF SelInv, Acting, Preflighted, EnvsExpanded, Phases
<1>4. \/ Become([cmd EXCEPT !.queue = Tail(@), !.rc = 1])
      \/ /\ manifest.readable
         /\ Become([cmd EXCEPT !.queue = Tail(@), !.built = Append(@, b)])
  BY <1>2 DEF BuildEnv
<1>5. b \in Scoped
  <2>1. has \in Seq(Services) BY <1>1, ManifestLists
  <2>2. QED BY <1>2, <2>1 DEF Target, Scoped, ToSet
<1>6. b.scope = t.scope /\ b.svcs = t.svcs /\ b.has = ToSet(has) OBVIOUS
<1> HIDE DEF b
<1>7. CASE Become([cmd EXCEPT !.queue = Tail(@), !.rc = 1])
  <2>1. cmd' = [cmd EXCEPT !.queue = Tail(@), !.rc = 1] BY <1>7 DEF Become
  <2>2. /\ KeepsArgs /\ KeepsLoop /\ KeepsEffects
        /\ cmd'.queue = Tail(cmd.queue) /\ cmd'.built = cmd.built
        /\ cmd'.pc = "build" /\ cmd'.rc = 1 /\ cmd'.end = cmd.end
        /\ cmd'.seed = cmd.seed /\ cmd'.catalog = cmd.catalog
    BY <1>1, <1>7, <2>1
    DEF CmdType, Become, world, KeepsArgs, KeepsLoop, KeepsEffects
  <2>3. cmd' \in CmdType
    <3>1. Whole(cmd') BY <2>1, Zenon DEF Whole
    <3>2. FieldsOK(cmd')
      BY <1>2, <2>2, FieldsTyped DEF FieldsOK, PC, KeepsArgs, KeepsLoop, KeepsEffects
    <3>3. QED BY <1>1, <3>1, <3>2, Retyped
  <2>4. /\ TypeOK' /\ Given' /\ World' /\ (Wired' <=> Wired)
        /\ \A pat : (IsEnv(pat)' <=> IsEnv(pat)) /\ Asked(pat)' = Asked(pat)
    BY <2>2, <2>3, ArgsKept
  <2>5. ~Acting' /\ EnvsExpanded' BY <2>2 DEF Acting, EnvsExpanded
  <2>6. \A u : Sound(u)' <=> Sound(u) BY <2>2 DEF Sound, KeepsArgs
  <2>7. Targets' BY <1>1, <1>2, <2>2, <2>5, <2>6 DEF SelInv, Targets, KeepsArgs
  <2>8. Phases' /\ Looping' /\ Preflighted' /\ OnlyAsked' /\ Covering' /\ Reaching' /\ Seeded'
        /\ Cataloged' /\ Finishing' /\ Passing' /\ Lines'
    BY <1>1, <1>3, <2>2, <2>5
    DEF SelInv, Phases, Looping, Preflighted, OnlyAsked, Covering, Reaching, Seeded, Cataloged,
        Finishing, Passing, Lines, KeepsArgs, KeepsEffects, KeepsLoop
  <2>9. DeadMeansDead' BY <2>2, <2>4 DEF SelInv, DeadMeansDead, KeepsArgs
  <2>10. QED BY <2>4, <2>7, <2>8, <2>9 DEF SelInv
<1>8. CASE Become([cmd EXCEPT !.queue = Tail(@), !.built = Append(@, b)])
  <2>1. cmd' = [cmd EXCEPT !.queue = Tail(@), !.built = Append(@, b)] BY <1>8 DEF Become
  <2>2. /\ KeepsArgs /\ KeepsLoop /\ KeepsEffects /\ KeepsEnd
        /\ cmd'.queue = Tail(cmd.queue) /\ cmd'.built = Append(cmd.built, b)
        /\ cmd'.pc = "build" /\ cmd'.seed = cmd.seed /\ cmd'.catalog = cmd.catalog
    BY <1>1, <1>8, <2>1
    DEF CmdType, Become, world, KeepsArgs, KeepsLoop, KeepsEffects, KeepsEnd
  <2>3. /\ cmd'.built \in Seq(Scoped) /\ Len(cmd'.built) = Len(cmd.built) + 1
        /\ Len(cmd.built) \in Nat /\ cmd'.built[Len(cmd.built) + 1] = b
        /\ \A k \in 1..Len(cmd.built) :
              k \in 1..(Len(cmd.built) + 1) /\ cmd'.built[k] = cmd.built[k]
        /\ \A k \in 1..(Len(cmd.built) + 1) : k = Len(cmd.built) + 1 \/ k \in 1..Len(cmd.built)
    BY <1>1, <1>5, <2>2, AppendMembers
  <2>4. Len(cmd.built) + 1 \in 1..(Len(cmd.built) + 1) BY <2>3
  <2>5. cmd' \in CmdType
    <3>1. Whole(cmd') BY <2>1, Zenon DEF Whole
    <3>2. FieldsOK(cmd')
      BY <1>2, <2>2, <2>3, FieldsTyped
      DEF FieldsOK, PC, KeepsArgs, KeepsLoop, KeepsEffects, KeepsEnd
    <3>3. QED BY <1>1, <3>1, <3>2, Retyped
  <2>6. /\ TypeOK' /\ Given' /\ World' /\ (Wired' <=> Wired)
        /\ \A pat : (IsEnv(pat)' <=> IsEnv(pat)) /\ Asked(pat)' = Asked(pat)
    BY <2>2, <2>5, ArgsKept
  <2>7. /\ ~Acting' /\ EnvsExpanded' /\ (WorkspaceExpanded' <=> WorkspaceExpanded)
    BY <1>1, <2>2 DEF Acting, EnvsExpanded, WorkspaceExpanded
  <2>8. /\ \A u : Sound(u)' <=> Sound(u)
        /\ \A pair : Served(pair)' <=> Served(pair)
    BY <2>2 DEF Sound, Served, KeepsArgs, KeepsEffects
  <2>9. Targets'
    <3>1. Sound(b)
      <4>1. Sound(t) BY <1>2 DEF SelInv, Targets
      <4>2. QED BY <1>6, <4>1 DEF Sound
    <3>2. \A k \in 1..Len(cmd'.queue) : Sound(cmd'.queue[k])
      BY <1>2, <2>2 DEF SelInv, Targets
    <3>3. \A k \in 1..Len(cmd'.built) : Sound(cmd'.built[k])
      BY <2>3, <3>1 DEF SelInv, Targets
    <3>4. QED BY <1>3, <2>2, <2>7, <2>8, <3>2, <3>3 DEF Targets, KeepsArgs
  <2>10. Phases' /\ Looping' /\ Preflighted' /\ OnlyAsked' /\ Seeded'
         /\ Cataloged' /\ Finishing' /\ Passing' /\ Lines'
    BY <1>1, <1>3, <2>2, <2>7
    DEF SelInv, Phases, Looping, Preflighted, OnlyAsked, Seeded, Cataloged,
        Finishing, Passing, Lines, KeepsArgs, KeepsEffects, KeepsLoop
  <2>11. ASSUME NEW k \in 1..Len(cmd.queue)
         PROVE  \/ \E j \in 1..Len(cmd'.queue) : cmd'.queue[j] = cmd.queue[k]
                \/ /\ Len(cmd.built) + 1 \in 1..Len(cmd'.built)
                   /\ cmd'.built[Len(cmd.built) + 1].scope = cmd.queue[k].scope
                   /\ cmd'.built[Len(cmd.built) + 1].svcs = cmd.queue[k].svcs
                   /\ cmd'.built[Len(cmd.built) + 1].has
                         = ToSet(ServicesOf(manifest, cmd.queue[k].scope))
    <3>1. CASE k # 1
      <4>1. k - 1 \in 1..Len(cmd'.queue) /\ cmd'.queue[k - 1] = cmd.queue[k]
        BY <1>2, <2>2, <3>1
      <4>2. QED BY <4>1
    <3>2. CASE k = 1 BY <1>6, <2>3, <2>4, <3>2
    <3>3. QED BY <3>1, <3>2
  <2>12. ASSUME NEW k \in 1..Len(cmd.built)
         PROVE  k \in 1..Len(cmd'.built) /\ cmd'.built[k] = cmd.built[k]
    BY <2>3
  <2>13. Covering'
    <3>1. ASSUME NEW pat, Covered(pat) PROVE Covered(pat)'
      <4>1. CASE \E k \in 1..Len(cmd.queue) : Covers(cmd.queue[k], pat)
        BY <2>11, <4>1 DEF Covered, Covers
      <4>2. CASE \E k \in 1..Len(cmd.built) : Covers(cmd.built[k], pat)
        BY <2>12, <4>2 DEF Covered
      <4>3. QED BY <3>1, <4>1, <4>2 DEF Covered
    <3>2. QED BY <1>1, <1>3, <2>2, <2>7, <3>1 DEF SelInv, Covering, KeepsArgs, KeepsEnd
  <2>14. ASSUME NEW pair \in declared, Reached(pair) PROVE Reached(pair)'
    <3>1. CASE Served(pair) BY <2>8, <3>1 DEF Reached
    <3>2. CASE \E k \in 1..Len(cmd.queue) :
                  cmd.queue[k].scope = pair[1] /\ Holds(cmd.queue[k].svcs, pair[2])
      <4>1. pair[2] \in ToSet(ServicesOf(manifest, pair[1])) BY <1>1, DeclaredNow
      <4>2. PICK k \in 1..Len(cmd.queue) :
                   cmd.queue[k].scope = pair[1] /\ Holds(cmd.queue[k].svcs, pair[2])
        BY <3>2
      <4>3. CASE \E i \in 1..Len(cmd'.queue) : cmd'.queue[i] = cmd.queue[k]
        <5>1. PICK i \in 1..Len(cmd'.queue) : cmd'.queue[i] = cmd.queue[k] BY <4>3
        <5>2. cmd'.queue[i].scope = pair[1] /\ Holds(cmd'.queue[i].svcs, pair[2])
          BY <4>2, <5>1
        <5>3. QED BY <5>2 DEF Reached
      <4>4. CASE ~\E i \in 1..Len(cmd'.queue) : cmd'.queue[i] = cmd.queue[k]
        <5> DEFINE next == Len(cmd.built) + 1
                   there == ToSet(ServicesOf(manifest, cmd.queue[k].scope))
        <5>1. /\ next \in 1..Len(cmd'.built) /\ cmd'.built[next].scope = cmd.queue[k].scope
              /\ cmd'.built[next].svcs = cmd.queue[k].svcs /\ cmd'.built[next].has = there
          BY <2>11, <4>4
        <5>2. pair[2] \in there BY <4>1, <4>2
        <5> HIDE DEF next, there
        <5>3. /\ cmd'.built[next].scope = pair[1] /\ Holds(cmd'.built[next].svcs, pair[2])
              /\ pair[2] \in cmd'.built[next].has
          BY <4>2, <5>1, <5>2
        <5>4. QED BY <5>1, <5>3 DEF Reached
      <4>5. QED BY <4>3, <4>4
    <3>3. CASE \E k \in 1..Len(cmd.built) :
                  /\ cmd.built[k].scope = pair[1] /\ Holds(cmd.built[k].svcs, pair[2])
                  /\ pair[2] \in cmd.built[k].has
      BY <2>12, <3>3 DEF Reached
    <3>4. QED BY <2>14, <3>1, <3>2, <3>3 DEF Reached
  <2>15. Reaching'
    <3>1. \A pat : \A pair \in Asked(pat) : pair \in declared BY DEF Asked
    <3>2. QED
      BY <1>1, <1>3, <2>2, <2>6, <2>7, <2>14, <3>1 DEF SelInv, Reaching, KeepsArgs, KeepsEnd
  <2>16. DeadMeansDead' BY <2>2, <2>6 DEF SelInv, DeadMeansDead, KeepsArgs, KeepsEnd
  <2>17. QED BY <2>6, <2>9, <2>10, <2>13, <2>15, <2>16 DEF SelInv
<1>9. QED BY <1>4, <1>7, <1>8

LEMMA BuildDoneKeeps == ASSUME SelInv, BuildDone PROVE SelInv'
<1>1. /\ cmd.pc = "build" /\ cmd.kind = "restart" /\ cmd.queue = <<>> /\ cmd \in CmdType
      /\ TypeOK /\ cmd.built \in Seq(Scoped)
  BY DEF BuildDone, At, SelInv, TypeOK, CmdType
<1>2. ~Acting /\ cmd.reaped = {} /\ cmd.passed = 0 /\ EnvsExpanded /\ WorkspaceExpanded
  BY <1>1 DEF SelInv, Acting, Preflighted, EnvsExpanded, WorkspaceExpanded
<1>3. CASE cmd.rc # 0 /\ Become([cmd EXCEPT !.pc = "done", !.end = "build"])
  <2>1. cmd' = [cmd EXCEPT !.pc = "done", !.end = "build"] BY <1>3 DEF Become
  <2>2. /\ KeepsArgs /\ KeepsTargets /\ KeepsLoop /\ KeepsEffects
        /\ cmd'.pc = "done" /\ cmd'.rc = cmd.rc /\ cmd'.end = "build"
        /\ cmd'.seed = cmd.seed /\ cmd'.catalog = cmd.catalog
    BY <1>1, <1>3, <2>1
    DEF CmdType, Become, world, KeepsArgs, KeepsTargets, KeepsLoop, KeepsEffects
  <2>3. cmd' \in CmdType
    <3>1. Whole(cmd') BY <2>1, Zenon DEF Whole
    <3>2. FieldsOK(cmd')
      BY <2>2, FieldsTyped DEF FieldsOK, PC, KeepsArgs, KeepsTargets, KeepsLoop, KeepsEffects
    <3>3. QED BY <1>1, <3>1, <3>2, Retyped
  <2>4. /\ TypeOK' /\ Given' /\ World' /\ (Wired' <=> Wired)
        /\ \A pat : (IsEnv(pat)' <=> IsEnv(pat)) /\ Asked(pat)' = Asked(pat)
    BY <2>2, <2>3, ArgsKept
  <2>5. ~Acting' /\ EnvsExpanded' BY <2>2 DEF Acting, EnvsExpanded
  <2>6. \A u : Sound(u)' <=> Sound(u) BY <2>2 DEF Sound, KeepsArgs
  <2>7. Targets' BY <1>1, <2>2, <2>5, <2>6 DEF SelInv, Targets, KeepsArgs, KeepsTargets
  <2>8. Phases' /\ Looping' /\ Preflighted' /\ OnlyAsked' /\ Covering' /\ Reaching' /\ Seeded'
        /\ Cataloged' /\ Finishing' /\ Passing' /\ Lines'
    BY <1>1, <1>2, <1>3, <2>2, <2>5
    DEF Phases, Looping, Preflighted, OnlyAsked, Covering, Reaching, Seeded, Cataloged,
        Finishing, Passing, Lines, KeepsArgs, KeepsEffects, KeepsLoop
  <2>9. DeadMeansDead' BY <2>2, <2>4 DEF SelInv, DeadMeansDead, KeepsArgs
  <2>10. QED BY <2>4, <2>7, <2>8, <2>9 DEF SelInv
<1>4. CASE cmd.rc = 0 /\ Become([cmd EXCEPT !.pc = "preflight", !.ahead = cmd.built])
  <2>1. cmd' = [cmd EXCEPT !.pc = "preflight", !.ahead = cmd.built] BY <1>4 DEF Become
  <2>2. /\ KeepsArgs /\ KeepsTargets /\ KeepsEffects /\ KeepsEnd
        /\ cmd'.pc = "preflight" /\ cmd'.ahead = cmd.built /\ cmd'.passed = cmd.passed
        /\ cmd'.seed = cmd.seed /\ cmd'.catalog = cmd.catalog /\ cmd'.todo = cmd.todo
    BY <1>1, <1>4, <2>1
    DEF CmdType, Become, world, KeepsArgs, KeepsTargets, KeepsEffects, KeepsEnd
  <2>3. cmd' \in CmdType
    <3>1. Whole(cmd') BY <2>1, Zenon DEF Whole
    <3>2. FieldsOK(cmd')
      BY <2>2, FieldsTyped DEF FieldsOK, PC, KeepsArgs, KeepsTargets, KeepsEffects, KeepsEnd
    <3>3. QED BY <1>1, <3>1, <3>2, Retyped
  <2>4. /\ TypeOK' /\ Given' /\ World' /\ (Wired' <=> Wired)
        /\ \A pat : (IsEnv(pat)' <=> IsEnv(pat)) /\ Asked(pat)' = Asked(pat)
    BY <2>2, <2>3, ArgsKept
  <2>5. ~Acting' /\ EnvsExpanded' /\ WorkspaceExpanded'
    BY <2>2 DEF Acting, EnvsExpanded, WorkspaceExpanded
  <2>6. /\ \A u : Sound(u)' <=> Sound(u)
        /\ \A pair : Reached(pair)' <=> Reached(pair)
        /\ \A pat : Covered(pat)' <=> Covered(pat)
    BY <2>2 DEF Sound, Reached, Covered, Served, KeepsArgs, KeepsTargets, KeepsEffects
  <2>7. Behind' = 0 BY <1>1, <2>2 DEF Behind, KeepsTargets
  <2>8. Targets' BY <1>1, <2>2, <2>5, <2>6 DEF SelInv, Targets, KeepsArgs, KeepsTargets
  <2>9. Phases' /\ OnlyAsked' /\ Seeded' /\ Cataloged' /\ Finishing'
    BY <1>1, <1>2, <2>2, <2>5
    DEF Phases, OnlyAsked, Seeded, Cataloged, Finishing, KeepsArgs, KeepsEffects
  <2>10. Looping' /\ Preflighted' /\ Passing' /\ Lines'
    BY <1>1, <1>2, <2>2, <2>5, <2>7
    DEF Looping, Preflighted, Passing, Lines, KeepsTargets, KeepsEffects
  <2>11. Covering' BY <1>1, <1>4, <2>2, <2>5, <2>6 DEF SelInv, Covering, KeepsArgs
  <2>12. Reaching' BY <1>2, <2>2, <2>4, <2>6 DEF SelInv, Reaching, KeepsArgs, KeepsEnd
  <2>13. DeadMeansDead' BY <2>2, <2>4 DEF SelInv, DeadMeansDead, KeepsArgs, KeepsEnd
  <2>14. QED BY <2>4, <2>8, <2>9, <2>10, <2>11, <2>12, <2>13 DEF SelInv
<1>5. QED BY <1>3, <1>4 DEF BuildDone

-----------------------------------------------------------------------------
(* restart_selected's preflight and batches.                               *)

(* The target that a loop is at, in the list of the targets.               *)
LEMMA AtHand ==
    ASSUME SelInv, cmd.pc = "preflight" \/ Acting, cmd.ahead # <<>>
    PROVE  /\ Behind \in Nat /\ Len(cmd.ahead) \in Nat /\ Behind + Len(cmd.ahead) = Len(cmd.built)
           /\ Behind + 1 \in 1..Len(cmd.built) /\ cmd.built[Behind + 1] = cmd.ahead[1]
           /\ Head(cmd.ahead) = cmd.ahead[1] /\ cmd.ahead[1] \in Scoped /\ Sound(cmd.ahead[1])
           /\ Tail(cmd.ahead) \in Seq(Scoped) /\ Len(Tail(cmd.ahead)) = Len(cmd.ahead) - 1
           /\ \A k \in 1..Len(Tail(cmd.ahead)) : Tail(cmd.ahead)[k] = cmd.built[Behind + 1 + k]
           /\ \A k \in 1..(Behind + 1) : k = Behind + 1 \/ k \in 1..Behind
<1>1. cmd.ahead \in Seq(Scoped) /\ cmd.built \in Seq(Scoped) BY FieldsTyped DEF FieldsOK
<1>2. /\ Behind \in Nat
      /\ \A k \in 1..Len(cmd.ahead) : cmd.ahead[k] = cmd.built[Behind + k]
  BY DEF SelInv, Looping
<1>3. /\ Head(cmd.ahead) = cmd.ahead[1] /\ cmd.ahead[1] \in Scoped /\ 1 \in 1..Len(cmd.ahead)
      /\ Tail(cmd.ahead) \in Seq(Scoped) /\ Len(Tail(cmd.ahead)) = Len(cmd.ahead) - 1
      /\ \A k \in 1..Len(Tail(cmd.ahead)) :
            k + 1 \in 1..Len(cmd.ahead) /\ Tail(cmd.ahead)[k] = cmd.ahead[k + 1]
  BY <1>1, TailMembers
<1>4. Behind + Len(cmd.ahead) = Len(cmd.built) /\ Len(cmd.ahead) \in Nat BY <1>1 DEF Behind
<1> DEFINE B == Behind
<1>5. B \in Nat BY <1>2
<1> HIDE DEF B
<1>6. \A k \in 1..Len(Tail(cmd.ahead)) : Tail(cmd.ahead)[k] = cmd.built[B + 1 + k]
  <2>1. ASSUME NEW k \in 1..Len(Tail(cmd.ahead))
        PROVE  Tail(cmd.ahead)[k] = cmd.built[B + 1 + k]
    <3>1. Tail(cmd.ahead)[k] = cmd.built[B + (k + 1)] BY <1>2, <1>3 DEF B
    <3>2. B + (k + 1) = B + 1 + k BY <1>5
    <3>3. QED BY <3>1, <3>2
  <2>2. QED BY <2>1
<1>7. B + 1 \in 1..Len(cmd.built) BY <1>3, <1>4, <1>5 DEF B
<1>8. cmd.built[B + 1] = cmd.ahead[1] BY <1>2, <1>3 DEF B
<1>9. \A k \in 1..(B + 1) : k = B + 1 \/ k \in 1..B BY <1>5
<1>10. Sound(cmd.ahead[1]) BY <1>7, <1>8 DEF SelInv, Targets
<1>11. QED BY <1>2, <1>3, <1>4, <1>6, <1>7, <1>8, <1>9, <1>10 DEF B

(* A scope that fails: remembered in the exit code, and stepped over.      *)
LEMMA SkippingKeeps ==
    ASSUME SelInv, cmd.pc \in {"preflight", "plan", "type"}, cmd.ahead # <<>>,
           KeepsArgs, KeepsTargets, Whole(cmd'),
           cmd'.pc = IF cmd.pc = "preflight" THEN "preflight" ELSE "plan",
           cmd'.ahead = Tail(cmd.ahead), cmd'.todo \in Seq(Services), cmd'.passed = cmd.passed,
           cmd'.rc = 1, cmd'.end = cmd.end, cmd'.reaped = cmd.reaped, cmd'.typed = cmd.typed,
           cmd'.shown = cmd.shown, cmd'.seed = cmd.seed, cmd'.catalog = cmd.catalog,
           cmd'.unresolved \in SUBSET Scopes, cmd.unresolved \subseteq cmd'.unresolved,
           cmd.pc # "preflight" => cmd.ahead[1].scope \notin steady \ cmd'.unresolved
    PROVE  SelInv'
<1>1. /\ cmd \in CmdType /\ TypeOK /\ cmd.built \in Seq(Scoped)
      /\ cmd'.pc \in {"preflight", "plan"} /\ (cmd.pc = "preflight" \/ Acting)
      /\ cmd.kind = "restart"
  BY DEF SelInv, TypeOK, CmdType, Acting, Phases
<1>2. /\ Behind \in Nat /\ Len(cmd.ahead) \in Nat /\ Behind + Len(cmd.ahead) = Len(cmd.built)
      /\ Behind + 1 \in 1..Len(cmd.built) /\ cmd.built[Behind + 1] = cmd.ahead[1]
      /\ Tail(cmd.ahead) \in Seq(Scoped) /\ Len(Tail(cmd.ahead)) = Len(cmd.ahead) - 1
      /\ \A k \in 1..Len(Tail(cmd.ahead)) : Tail(cmd.ahead)[k] = cmd.built[Behind + 1 + k]
      /\ \A k \in 1..(Behind + 1) : k = Behind + 1 \/ k \in 1..Behind
  BY <1>1, AtHand
<1>3. cmd' \in CmdType
  <2>1. FieldsOK(cmd') BY <1>1, <1>2, FieldsTyped DEF FieldsOK, PC, KeepsArgs, KeepsTargets
  <2>2. QED BY <1>1, <2>1, Retyped
<1>4. /\ TypeOK' /\ Given' /\ World' /\ (Wired' <=> Wired)
      /\ \A pat : (IsEnv(pat)' <=> IsEnv(pat)) /\ Asked(pat)' = Asked(pat)
  BY <1>3, ArgsKept
<1>5. Acting' <=> cmd.pc # "preflight" BY DEF Acting
<1>6. Behind' = Behind + 1
  <2>1. Behind' = Len(cmd.built) - (Len(cmd.ahead) - 1) BY <1>2 DEF Behind, KeepsTargets
  <2>2. Len(cmd.built) \in Nat BY <1>1
  <2>3. \A a, b \in Nat : a - (b - 1) = (a - b) + 1 OBVIOUS
  <2>4. QED BY <1>2, <2>1, <2>2, <2>3 DEF Behind
<1>7. /\ \A u : Sound(u)' <=> Sound(u)
      /\ \A pat : Covered(pat)' <=> Covered(pat)
      /\ \A u : Plannable(u)' <=> Plannable(u)
  BY DEF Sound, Covered, Plannable, KeepsArgs, KeepsTargets
<1>8. Phases' BY <1>1 DEF Phases, KeepsArgs
<1>9. Targets'
  BY <1>1, <1>5, <1>7 DEF SelInv, Targets, EnvsExpanded, Acting, KeepsArgs, KeepsTargets
<1>10. Looping'
  <2>1. Behind' \in Nat BY <1>2, <1>6
  <2>2. \A k \in 1..Len(cmd'.ahead) : cmd'.ahead[k] = cmd'.built[Behind' + k]
    BY <1>2, <1>6 DEF KeepsTargets
  <2>3. QED BY <1>1, <2>1, <2>2 DEF Looping
<1>11. Preflighted' /\ OnlyAsked' /\ Seeded' /\ Cataloged' /\ Finishing' /\ Reaching'
  BY <1>1, <1>5 DEF SelInv, Preflighted, OnlyAsked, Seeded, Cataloged, Finishing, Reaching, Acting,
     KeepsArgs, KeepsTargets
<1>12. Covering' BY <1>1, <1>5, <1>7 DEF SelInv, Covering, Acting, KeepsArgs
<1>13. Passing' BY <1>1, <1>5, <1>7 DEF SelInv, Passing, KeepsArgs, KeepsTargets
<1>14. Lines'
  <2> SUFFICES ASSUME cmd.pc # "preflight", NEW k \in 1..(Behind + 1),
                      cmd.built[k].scope \in steady \ cmd'.unresolved,
                      NEW s, Holds(cmd.built[k].svcs, s)
               PROVE  <<cmd.built[k].scope, s>> \in cmd.typed
    BY <1>1, <1>5, <1>6 DEF Lines, KeepsArgs, KeepsTargets
  <2>1. k # Behind + 1 BY <1>2
  <2>2. k \in 1..Behind BY <1>2, <2>1
  <2>3. QED BY <1>1, <2>2 DEF SelInv, Lines
<1>15. DeadMeansDead' BY <1>4 DEF SelInv, DeadMeansDead, KeepsArgs
<1>16. QED
  BY <1>4, <1>8, <1>9, <1>10, <1>11, <1>12, <1>13, <1>14, <1>15 DEF SelInv

(* A target that is not plannable in a batch has lost its session.         *)
LEMMA UnplannableIsUnsteady ==
    ASSUME SelInv, cmd.pc \in {"plan", "type"}, cmd.ahead # <<>>, cmd.ahead[1].scope \in steady
    PROVE  Plannable(cmd.ahead[1])
<1>1. Behind + 1 \in 1..Len(cmd.built) /\ cmd.built[Behind + 1] = cmd.ahead[1]
  BY AtHand DEF Acting
<1>2. QED BY <1>1 DEF SelInv, Passing

LEMMA PlanFailsKeeps ==
    ASSUME SelInv, cmd.pc \in {"preflight", "plan"}, cmd.ahead # <<>>, PlanFails(Head(cmd.ahead))
    PROVE  SelInv'
<1> DEFINE t == Head(cmd.ahead)
<1>1. cmd \in CmdType /\ FieldsOK(cmd) BY FieldsTyped
<1>2. t = cmd.ahead[1] /\ t \in Scoped BY AtHand DEF Acting
<1>3. t.scope \in Scopes BY <1>2 DEF Scoped
<1>4. \/ ~Plannable(t) /\ Become([cmd EXCEPT !.ahead = Tail(@), !.rc = 1])
      \/ Become([cmd EXCEPT !.unresolved = @ \union {t.scope}, !.ahead = Tail(@), !.rc = 1])
  <2>1. DOMAIN cmd = DOMAIN [cmd EXCEPT !.unresolved = cmd.unresolved \union {t.scope}] OBVIOUS
  <2>2. [cmd EXCEPT !.unresolved = cmd.unresolved \union {t.scope}].ahead = cmd.ahead
    BY <1>1 DEF CmdType
  <2>3. QED BY <2>2 DEF PlanFails, Skip
<1> HIDE DEF t
<1>5. CASE ~Plannable(t) /\ Become([cmd EXCEPT !.ahead = Tail(@), !.rc = 1])
  <2>1. cmd' = [cmd EXCEPT !.ahead = Tail(@), !.rc = 1] BY <1>5 DEF Become
  <2>2. Whole(cmd') BY <2>1, Zenon DEF Whole
  <2>3. /\ KeepsArgs /\ KeepsTargets /\ KeepsEffects
        /\ cmd'.ahead = Tail(cmd.ahead) /\ cmd'.todo = cmd.todo /\ cmd'.passed = cmd.passed
        /\ cmd'.pc = cmd.pc /\ cmd'.rc = 1 /\ cmd'.end = cmd.end
        /\ cmd'.seed = cmd.seed /\ cmd'.catalog = cmd.catalog
    BY <1>1, <1>5, <2>1
    DEF CmdType, Become, world, KeepsArgs, KeepsTargets, KeepsEffects
  <2>4. cmd'.todo \in Seq(Services) /\ cmd'.unresolved \in SUBSET Scopes
    BY <1>1, <2>3 DEF FieldsOK, KeepsEffects
  <2>5. cmd.pc # "preflight" => t.scope \notin steady
    BY <1>2, <1>5, UnplannableIsUnsteady
  <2>6. QED BY <1>2, <2>2, <2>3, <2>4, <2>5, SkippingKeeps DEF KeepsEffects
<1>6. CASE Become([cmd EXCEPT !.unresolved = @ \union {t.scope}, !.ahead = Tail(@), !.rc = 1])
  <2>1. cmd' = [cmd EXCEPT !.unresolved = @ \union {t.scope}, !.ahead = Tail(@), !.rc = 1]
    BY <1>6 DEF Become
  <2>2. Whole(cmd') BY <2>1, Zenon DEF Whole
  <2>3. /\ KeepsArgs /\ KeepsTargets
        /\ cmd'.reaped = cmd.reaped /\ cmd'.typed = cmd.typed /\ cmd'.shown = cmd.shown
        /\ cmd'.unresolved = cmd.unresolved \union {t.scope}
        /\ cmd'.ahead = Tail(cmd.ahead) /\ cmd'.todo = cmd.todo /\ cmd'.passed = cmd.passed
        /\ cmd'.pc = cmd.pc /\ cmd'.rc = 1 /\ cmd'.end = cmd.end
        /\ cmd'.seed = cmd.seed /\ cmd'.catalog = cmd.catalog
    BY <1>1, <1>6, <2>1 DEF CmdType, Become, world, KeepsArgs, KeepsTargets
  <2>4. cmd'.todo \in Seq(Services) /\ cmd'.unresolved \in SUBSET Scopes
    BY <1>1, <1>3, <2>3 DEF FieldsOK
  <2>5. QED BY <1>2, <2>2, <2>3, <2>4, SkippingKeeps
<1>7. QED BY <1>4, <1>5, <1>6

LEMMA PreflightKeeps == ASSUME SelInv, Preflight PROVE SelInv'
<1>1. /\ cmd.pc = "preflight" /\ cmd.ahead # <<>> /\ cmd \in CmdType /\ TypeOK
      /\ cmd.built \in Seq(Scoped) /\ cmd.kind = "restart" /\ ~Acting
  BY DEF Preflight, At, SelInv, TypeOK, CmdType, Phases, Acting
<1>2. /\ Behind \in Nat /\ Len(cmd.ahead) \in Nat /\ Behind + Len(cmd.ahead) = Len(cmd.built)
      /\ Behind + 1 \in 1..Len(cmd.built) /\ cmd.built[Behind + 1] = cmd.ahead[1]
      /\ Head(cmd.ahead) = cmd.ahead[1]
      /\ Tail(cmd.ahead) \in Seq(Scoped) /\ Len(Tail(cmd.ahead)) = Len(cmd.ahead) - 1
      /\ \A k \in 1..Len(Tail(cmd.ahead)) : Tail(cmd.ahead)[k] = cmd.built[Behind + 1 + k]
      /\ \A k \in 1..(Behind + 1) : k = Behind + 1 \/ k \in 1..Behind
  BY <1>1, AtHand
<1>3. CASE PlanFails(Head(cmd.ahead)) BY <1>1, <1>3, PlanFailsKeeps
<1>4. CASE /\ Plannable(Head(cmd.ahead))
           /\ Become([cmd EXCEPT !.ahead = Tail(@), !.passed = @ + 1])
  <2>1. cmd' = [cmd EXCEPT !.ahead = Tail(@), !.passed = @ + 1] BY <1>4 DEF Become
  <2>2. /\ KeepsArgs /\ KeepsTargets /\ KeepsEffects /\ KeepsEnd
        /\ cmd'.ahead = Tail(cmd.ahead) /\ cmd'.todo = cmd.todo /\ cmd'.passed = cmd.passed + 1
        /\ cmd'.pc = cmd.pc /\ cmd'.seed = cmd.seed /\ cmd'.catalog = cmd.catalog
    BY <1>1, <1>4, <2>1
    DEF CmdType, Become, world, KeepsArgs, KeepsTargets, KeepsEffects, KeepsEnd
  <2>3. cmd' \in CmdType
    <3>1. Whole(cmd') BY <2>1, Zenon DEF Whole
    <3>2. FieldsOK(cmd')
      BY <1>2, <2>2, FieldsTyped, SMTT(30)
      DEF FieldsOK, KeepsArgs, KeepsTargets, KeepsEffects, KeepsEnd
    <3>3. QED BY <1>1, <3>1, <3>2, Retyped
  <2>4. /\ TypeOK' /\ Given' /\ World' /\ (Wired' <=> Wired)
        /\ \A pat : (IsEnv(pat)' <=> IsEnv(pat)) /\ Asked(pat)' = Asked(pat)
    BY <2>2, <2>3, ArgsKept
  <2>5. /\ ~Acting' /\ (EnvsExpanded' <=> EnvsExpanded)
        /\ (WorkspaceExpanded' <=> WorkspaceExpanded)
    BY <1>1, <2>2 DEF Acting, EnvsExpanded, WorkspaceExpanded
  <2>6. Behind' = Behind + 1
    <3>1. Behind' = Len(cmd.built) - (Len(cmd.ahead) - 1) BY <1>2, <2>2 DEF Behind, KeepsTargets
    <3>2. Len(cmd.built) \in Nat BY <1>1
    <3>3. \A a, b \in Nat : a - (b - 1) = (a - b) + 1 OBVIOUS
    <3>4. QED BY <1>2, <3>1, <3>2, <3>3 DEF Behind
  <2>7. /\ \A u : Sound(u)' <=> Sound(u)
        /\ \A pat : Covered(pat)' <=> Covered(pat)
        /\ \A u : Plannable(u)' <=> Plannable(u)
        /\ \A pair : Reached(pair)' <=> Reached(pair)
    BY <2>2
    DEF Sound, Covered, Plannable, Reached, Served, KeepsArgs, KeepsTargets, KeepsEffects
  <2>8. Targets' BY <1>1, <2>2, <2>5, <2>7 DEF SelInv, Targets, KeepsArgs, KeepsTargets
  <2>9. Phases' /\ OnlyAsked' /\ Seeded' /\ Cataloged' /\ Finishing' /\ Lines'
    BY <1>1, <2>2, <2>5
    DEF SelInv, Phases, OnlyAsked, Seeded, Cataloged, Finishing, Lines, KeepsArgs, KeepsTargets,
        KeepsEffects
  <2>10. Looping'
    <3>1. Behind' \in Nat BY <1>2, <2>6
    <3>2. \A k \in 1..Len(cmd'.ahead) : cmd'.ahead[k] = cmd'.built[Behind' + k]
      BY <1>2, <2>2, <2>6 DEF KeepsTargets
    <3>3. QED BY <1>1, <2>2, <2>5, <3>1, <3>2 DEF Looping
  <2>11. Preflighted'
    BY <1>1, <2>2, <2>5, <2>6 DEF SelInv, Preflighted, KeepsEffects, KeepsEnd
  <2>12. Passing'
    BY <1>1, <1>2, <1>4, <2>2, <2>6, <2>7
    DEF SelInv, Passing, KeepsArgs, KeepsTargets, KeepsEnd
  <2>13. Covering'
    BY <1>1, <2>2, <2>5, <2>7 DEF SelInv, Covering, KeepsArgs, KeepsEnd
  <2>14. Reaching'
    BY <2>2, <2>4, <2>5, <2>7 DEF SelInv, Reaching, KeepsArgs, KeepsEnd
  <2>15. DeadMeansDead' BY <2>2, <2>4 DEF SelInv, DeadMeansDead, KeepsArgs, KeepsEnd
  <2>16. QED
    BY <2>4, <2>8, <2>9, <2>10, <2>11, <2>12, <2>13, <2>14, <2>15 DEF SelInv
<1>5. QED BY <1>3, <1>4 DEF Preflight

LEMMA PreflightDoneKeeps == ASSUME SelInv, PreflightDone PROVE SelInv'
<1>1. /\ cmd.pc = "preflight" /\ cmd.ahead = <<>> /\ cmd \in CmdType /\ TypeOK
      /\ cmd.built \in Seq(Scoped) /\ cmd.kind = "restart" /\ ~Acting
  BY DEF PreflightDone, At, SelInv, TypeOK, CmdType, Phases, Acting
<1>2. cmd.reaped = {} BY <1>1 DEF SelInv, Preflighted
<1>3. CASE cmd.rc # 0 /\ Become([cmd EXCEPT !.pc = "done", !.end = "preflight"])
  <2>1. cmd' = [cmd EXCEPT !.pc = "done", !.end = "preflight"] BY <1>3 DEF Become
  <2>2. /\ KeepsArgs /\ KeepsTargets /\ KeepsLoop /\ KeepsEffects
        /\ cmd'.pc = "done" /\ cmd'.rc = cmd.rc /\ cmd'.end = "preflight"
        /\ cmd'.seed = cmd.seed /\ cmd'.catalog = cmd.catalog
    BY <1>1, <1>3, <2>1
    DEF CmdType, Become, world, KeepsArgs, KeepsTargets, KeepsLoop, KeepsEffects
  <2>3. cmd' \in CmdType
    <3>1. Whole(cmd') BY <2>1, Zenon DEF Whole
    <3>2. FieldsOK(cmd')
      BY <2>2, FieldsTyped DEF FieldsOK, PC, KeepsArgs, KeepsTargets, KeepsLoop, KeepsEffects
    <3>3. QED BY <1>1, <3>1, <3>2, Retyped
  <2>4. /\ TypeOK' /\ Given' /\ World' /\ (Wired' <=> Wired)
        /\ \A pat : (IsEnv(pat)' <=> IsEnv(pat)) /\ Asked(pat)' = Asked(pat)
    BY <2>2, <2>3, ArgsKept
  <2>5. ~Acting' /\ EnvsExpanded' BY <2>2 DEF Acting, EnvsExpanded
  <2>6. \A u : Sound(u)' <=> Sound(u) BY <2>2 DEF Sound, KeepsArgs
  <2>7. Targets' BY <1>1, <2>2, <2>5, <2>6 DEF SelInv, Targets, KeepsArgs, KeepsTargets
  <2>8. Phases' /\ Looping' /\ Preflighted' /\ OnlyAsked' /\ Covering' /\ Reaching' /\ Seeded'
        /\ Cataloged' /\ Finishing' /\ Passing' /\ Lines'
    BY <1>1, <1>2, <1>3, <2>2, <2>5
    DEF Phases, Looping, Preflighted, OnlyAsked, Covering, Reaching, Seeded, Cataloged,
        Finishing, Passing, Lines, KeepsArgs, KeepsEffects, KeepsLoop
  <2>9. DeadMeansDead' BY <2>2, <2>4 DEF SelInv, DeadMeansDead, KeepsArgs
  <2>10. QED BY <2>4, <2>7, <2>8, <2>9 DEF SelInv
<1>4. CASE cmd.rc = 0 /\ Become([cmd EXCEPT !.pc = "plan", !.ahead = cmd.built])
  <2>1. cmd' = [cmd EXCEPT !.pc = "plan", !.ahead = cmd.built] BY <1>4 DEF Become
  <2>2. /\ KeepsArgs /\ KeepsTargets /\ KeepsEffects /\ KeepsEnd
        /\ cmd'.pc = "plan" /\ cmd'.ahead = cmd.built /\ cmd'.passed = cmd.passed
        /\ cmd'.seed = cmd.seed /\ cmd'.catalog = cmd.catalog /\ cmd'.todo = cmd.todo
    BY <1>1, <1>4, <2>1
    DEF CmdType, Become, world, KeepsArgs, KeepsTargets, KeepsEffects, KeepsEnd
  <2>3. cmd' \in CmdType
    <3>1. Whole(cmd') BY <2>1, Zenon DEF Whole
    <3>2. FieldsOK(cmd')
      BY <2>2, FieldsTyped DEF FieldsOK, PC, KeepsArgs, KeepsTargets, KeepsEffects, KeepsEnd
    <3>3. QED BY <1>1, <3>1, <3>2, Retyped
  <2>4. /\ TypeOK' /\ Given' /\ World' /\ (Wired' <=> Wired)
        /\ \A pat : (IsEnv(pat)' <=> IsEnv(pat)) /\ Asked(pat)' = Asked(pat)
    BY <2>2, <2>3, ArgsKept
  <2>5. /\ Acting' /\ EnvsExpanded' /\ WorkspaceExpanded' /\ EnvsExpanded /\ WorkspaceExpanded
    BY <1>1, <2>2 DEF Acting, EnvsExpanded, WorkspaceExpanded
  <2>6. /\ \A u : Sound(u)' <=> Sound(u)
        /\ \A pair : Reached(pair)' <=> Reached(pair)
        /\ \A pat : Covered(pat)' <=> Covered(pat)
        /\ \A u : Plannable(u)' <=> Plannable(u)
    BY <2>2
    DEF Sound, Reached, Covered, Plannable, Served, KeepsArgs, KeepsTargets, KeepsEffects
  <2>7. Behind' = 0 /\ Behind = Len(cmd.built) BY <1>1, <2>2 DEF Behind, KeepsTargets
  <2>8. Targets' BY <1>1, <2>2, <2>6 DEF SelInv, Targets, KeepsArgs, KeepsTargets
  <2>9. Phases' /\ OnlyAsked' /\ Seeded' /\ Cataloged' /\ Finishing'
    BY <1>1, <1>2, <2>2, <2>5
    DEF Phases, OnlyAsked, Seeded, Cataloged, Finishing, KeepsArgs, KeepsEffects
  <2>10. Looping' /\ Preflighted' /\ Passing' /\ Lines'
    BY <1>1, <1>2, <1>4, <2>2, <2>5, <2>6, <2>7
    DEF SelInv, Looping, Preflighted, Passing, Lines, KeepsArgs, KeepsTargets, KeepsEffects
  <2>11. Covering' BY <1>1, <1>4, <2>2, <2>6 DEF SelInv, Covering, KeepsArgs
  <2>12. Reaching' BY <2>2, <2>4, <2>5, <2>6 DEF SelInv, Reaching, KeepsArgs, KeepsEnd
  <2>13. DeadMeansDead' BY <2>2, <2>4 DEF SelInv, DeadMeansDead, KeepsArgs, KeepsEnd
  <2>14. QED BY <2>4, <2>8, <2>9, <2>10, <2>11, <2>12, <2>13 DEF SelInv
<1>5. QED BY <1>3, <1>4 DEF PreflightDone

LEMMA PlanBatchKeeps == ASSUME SelInv, PlanBatch PROVE SelInv'
<1> DEFINE t == cmd.ahead[1]
<1>1. /\ cmd.pc = "plan" /\ cmd.ahead # <<>> /\ cmd \in CmdType /\ TypeOK
      /\ cmd.kind = "restart" /\ Acting
  BY DEF PlanBatch, At, SelInv, TypeOK, Phases, Acting
<1>2. Head(cmd.ahead) = t /\ t \in Scoped /\ Sound(t) BY <1>1, AtHand
<1>3. t.svcs \in Seq(Services) /\ t.svcs # <<>> BY <1>2 DEF Scoped, Sound
<1>4. CASE PlanFails(Head(cmd.ahead)) BY <1>1, <1>4, PlanFailsKeeps
<1>5. CASE Plannable(t) /\ Become([cmd EXCEPT !.pc = "reap", !.todo = t.svcs])
  <2>1. cmd' = [cmd EXCEPT !.pc = "reap", !.todo = t.svcs] BY <1>5 DEF Become
  <2>2. /\ KeepsArgs /\ KeepsTargets /\ KeepsEffects /\ KeepsEnd
        /\ cmd'.pc = "reap" /\ cmd'.ahead = cmd.ahead /\ cmd'.passed = cmd.passed
        /\ cmd'.seed = cmd.seed /\ cmd'.catalog = cmd.catalog /\ cmd'.todo = t.svcs
    BY <1>1, <1>5, <2>1
    DEF CmdType, Become, world, KeepsArgs, KeepsTargets, KeepsEffects, KeepsEnd
  <2>3. cmd' \in CmdType
    <3>1. Whole(cmd') BY <2>1, Zenon DEF Whole
    <3>2. FieldsOK(cmd')
      BY <1>3, <2>2, FieldsTyped DEF FieldsOK, PC, KeepsArgs, KeepsTargets, KeepsEffects, KeepsEnd
    <3>3. QED BY <1>1, <3>1, <3>2, Retyped
  <2>4. /\ TypeOK' /\ Given' /\ World' /\ (Wired' <=> Wired)
        /\ \A pat : (IsEnv(pat)' <=> IsEnv(pat)) /\ Asked(pat)' = Asked(pat)
    BY <2>2, <2>3, ArgsKept
  <2>5. /\ Acting' /\ EnvsExpanded' /\ WorkspaceExpanded' /\ EnvsExpanded /\ WorkspaceExpanded
    BY <1>1, <2>2 DEF Acting, EnvsExpanded, WorkspaceExpanded
  <2>6. /\ \A u : Sound(u)' <=> Sound(u)
        /\ \A pair : Reached(pair)' <=> Reached(pair)
        /\ \A pat : Covered(pat)' <=> Covered(pat)
        /\ \A u : Plannable(u)' <=> Plannable(u)
        /\ Behind' = Behind
    BY <2>2
    DEF Sound, Reached, Covered, Plannable, Served, Behind, KeepsArgs, KeepsTargets, KeepsEffects
  <2>7. Targets'
    BY <1>1, <2>2, <2>5, <2>6 DEF SelInv, Targets, KeepsArgs, KeepsTargets
  <2>8. Phases' /\ OnlyAsked' /\ Seeded' /\ Cataloged' /\ Finishing' /\ Preflighted'
    BY <1>1, <2>2, <2>5
    DEF SelInv, Phases, OnlyAsked, Seeded, Cataloged, Finishing, Preflighted, KeepsArgs,
        KeepsTargets, KeepsEffects
  <2>9. Looping'
    <3>1. \A s : Holds(t.svcs, s) => s \in t.has
      BY <1>3, <1>5 DEF Plannable, Holds, ToSet
    <3>2. QED
      BY <1>1, <1>3, <2>2, <2>6, <3>1 DEF SelInv, Looping, KeepsTargets
  <2>10. Passing'
    BY <1>1, <2>2, <2>6 DEF SelInv, Passing, KeepsArgs, KeepsTargets
  <2>11. Lines'
    BY <1>1, <2>2, <2>6 DEF SelInv, Lines, KeepsArgs, KeepsTargets, KeepsEffects, KeepsEnd
  <2>12. Covering'
    BY <1>1, <2>2, <2>5, <2>6 DEF SelInv, Covering, KeepsArgs, KeepsEnd
  <2>13. Reaching'
    BY <2>2, <2>4, <2>5, <2>6 DEF SelInv, Reaching, KeepsArgs, KeepsEnd
  <2>14. DeadMeansDead' BY <2>2, <2>4 DEF SelInv, DeadMeansDead, KeepsArgs, KeepsEnd
  <2>15. QED
    BY <2>4, <2>7, <2>8, <2>9, <2>10, <2>11, <2>12, <2>13, <2>14 DEF SelInv
<1>6. QED BY <1>2, <1>4, <1>5 DEF PlanBatch

(* The service whose turn it is.                                           *)
LEMMA InTurn ==
    ASSUME SelInv, cmd.pc \in {"reap", "type"}
    PROVE  /\ cmd.ahead # <<>> /\ cmd.todo # <<>> /\ cmd.todo \in Seq(Services)
           /\ Head(cmd.ahead) = cmd.ahead[1] /\ cmd.ahead[1] \in Scoped
           /\ Head(cmd.todo) = cmd.todo[1] /\ cmd.todo[1] \in Services
           /\ Holds(cmd.ahead[1].svcs, cmd.todo[1]) /\ cmd.todo[1] \in cmd.ahead[1].has
           /\ cmd.ahead[1].scope \in Scopes
<1>1. cmd.todo \in Seq(Services) BY FieldsTyped DEF FieldsOK
<1>2. /\ cmd.ahead # <<>> /\ cmd.todo # <<>>
      /\ \A s : Holds(cmd.todo, s) => Holds(cmd.ahead[1].svcs, s)
      /\ \A s : Holds(cmd.ahead[1].svcs, s) => s \in cmd.ahead[1].has
  BY DEF SelInv, Looping
<1>3. 1 \in 1..Len(cmd.todo) /\ Head(cmd.todo) = cmd.todo[1] /\ cmd.todo[1] \in Services
  BY <1>1, <1>2
<1>4. Holds(cmd.todo, cmd.todo[1]) BY <1>3 DEF Holds
<1>5. Head(cmd.ahead) = cmd.ahead[1] /\ cmd.ahead[1] \in Scoped BY <1>2, AtHand DEF Acting
<1>6. cmd.ahead[1].scope \in Scopes BY <1>5 DEF Scoped
<1>7. QED BY <1>1, <1>2, <1>3, <1>4, <1>5, <1>6

LEMMA ReapPaneKeeps == ASSUME SelInv, ReapPane PROVE SelInv'
<1> DEFINE t == cmd.ahead[1]
           svc == cmd.todo[1]
<1>1. /\ cmd.pc = "reap" /\ cmd \in CmdType /\ TypeOK /\ cmd.kind = "restart" /\ Acting
  BY DEF ReapPane, At, SelInv, TypeOK, Phases, Acting
<1>2. /\ cmd.ahead # <<>> /\ Head(cmd.ahead) = t /\ Head(cmd.todo) = svc
      /\ svc \in Services /\ Holds(t.svcs, svc) /\ svc \in t.has /\ t.scope \in Scopes
  BY <1>1, InTurn
<1>3. Behind + 1 \in 1..Len(cmd.built) /\ cmd.built[Behind + 1] = t /\ Sound(t)
  BY <1>1, <1>2, AtHand
<1>4. Become([cmd EXCEPT !.pc = "type", !.reaped = @ \union {<<t.scope, svc>>}])
  BY <1>2 DEF ReapPane
<1> HIDE DEF t, svc
<1>5. cmd' = [cmd EXCEPT !.pc = "type", !.reaped = @ \union {<<t.scope, svc>>}]
  BY <1>4 DEF Become
<1>6. /\ KeepsArgs /\ KeepsTargets /\ KeepsLoop /\ KeepsEnd
      /\ cmd'.pc = "type" /\ cmd'.reaped = cmd.reaped \union {<<t.scope, svc>>}
      /\ cmd'.typed = cmd.typed /\ cmd'.shown = cmd.shown /\ cmd'.unresolved = cmd.unresolved
      /\ cmd'.seed = cmd.seed /\ cmd'.catalog = cmd.catalog
  BY <1>1, <1>4, <1>5
  DEF CmdType, Become, world, KeepsArgs, KeepsTargets, KeepsLoop, KeepsEnd
<1>7. cmd' \in CmdType
  <2>1. Whole(cmd') BY <1>5, Zenon DEF Whole
  <2>2. FieldsOK(cmd')
    BY <1>2, <1>6, FieldsTyped DEF FieldsOK, PC, KeepsArgs, KeepsTargets, KeepsLoop, KeepsEnd
  <2>3. QED BY <1>1, <2>1, <2>2, Retyped
<1>8. /\ TypeOK' /\ Given' /\ World' /\ (Wired' <=> Wired)
      /\ \A pat : (IsEnv(pat)' <=> IsEnv(pat)) /\ Asked(pat)' = Asked(pat)
  BY <1>6, <1>7, ArgsKept
<1>9. /\ Acting' /\ EnvsExpanded' /\ WorkspaceExpanded' /\ EnvsExpanded /\ WorkspaceExpanded
  BY <1>1, <1>6 DEF Acting, EnvsExpanded, WorkspaceExpanded
<1>10. /\ \A u : Sound(u)' <=> Sound(u)
       /\ \A pair : Reached(pair)' <=> Reached(pair)
       /\ \A pat : Covered(pat)' <=> Covered(pat)
       /\ \A u : Plannable(u)' <=> Plannable(u)
       /\ Behind' = Behind
  BY <1>6 DEF Sound, Reached, Covered, Plannable, Served, Behind, KeepsArgs, KeepsTargets, KeepsLoop
<1>11. Targets' BY <1>1, <1>6, <1>9, <1>10 DEF SelInv, Targets, KeepsArgs, KeepsTargets
<1>12. Phases' /\ Seeded' /\ Cataloged' /\ Finishing' /\ Preflighted'
  BY <1>1, <1>6, <1>9
  DEF SelInv, Phases, Seeded, Cataloged, Finishing, Preflighted, KeepsArgs, KeepsTargets, KeepsLoop
<1>13. OnlyAsked'
  <2>1. PICK i \in 1..Len(cmd.pats) : Matches(cmd.pats[i], <<t.scope, svc>>)
    BY <1>2, <1>3 DEF Sound
  <2>2. cmd.pats \in Seq(Pattern) /\ cmd.built \in Seq(Scoped) BY FieldsTyped DEF FieldsOK
  <2>3. i \in DOMAIN cmd.pats /\ Behind + 1 \in DOMAIN cmd.built BY <1>3, <2>2
  <2>4. cmd.built[Behind + 1].scope = t.scope /\ svc \in cmd.built[Behind + 1].has
    BY <1>2, <1>3
  <2>5. QED BY <1>6, <2>1, <2>3, <2>4 DEF SelInv, OnlyAsked, KeepsArgs, KeepsTargets
<1>14. Looping'
  BY <1>1, <1>6, <1>9, <1>10 DEF SelInv, Looping, KeepsTargets, KeepsLoop
<1>15. Passing' BY <1>1, <1>6, <1>10 DEF SelInv, Passing, KeepsArgs, KeepsTargets
<1>16. Lines'
  BY <1>1, <1>6, <1>9, <1>10 DEF SelInv, Lines, KeepsArgs, KeepsTargets, KeepsLoop, KeepsEnd
<1>17. Covering' BY <1>1, <1>6, <1>9, <1>10 DEF SelInv, Covering, KeepsArgs, KeepsEnd
<1>18. Reaching' BY <1>6, <1>8, <1>9, <1>10 DEF SelInv, Reaching, KeepsArgs, KeepsEnd
<1>19. DeadMeansDead' BY <1>6, <1>8 DEF SelInv, DeadMeansDead, KeepsArgs, KeepsEnd
<1>20. QED
  BY <1>8, <1>11, <1>12, <1>13, <1>14, <1>15, <1>16, <1>17, <1>18, <1>19 DEF SelInv

(* A line that is typed: the service leaves the batch, and with the last   *)
(* one its scope is done.                                                  *)
LEMMA TypedKeeps ==
    ASSUME SelInv, cmd.pc = "type", KeepsArgs, KeepsTargets, KeepsEnd, Whole(cmd'),
           cmd'.typed = cmd.typed \union {<<cmd.ahead[1].scope, cmd.todo[1]>>},
           cmd'.todo = Tail(cmd.todo), cmd'.reaped = cmd.reaped, cmd'.shown = cmd.shown,
           cmd'.unresolved = cmd.unresolved, cmd'.passed = cmd.passed,
           cmd'.seed = cmd.seed, cmd'.catalog = cmd.catalog,
           \/ Len(cmd.todo) > 1 /\ cmd'.pc = "reap" /\ cmd'.ahead = cmd.ahead
           \/ Len(cmd.todo) = 1 /\ cmd'.pc = "plan" /\ cmd'.ahead = Tail(cmd.ahead)
    PROVE  SelInv'
<1> DEFINE t == cmd.ahead[1]
           svc == cmd.todo[1]
<1>1. /\ cmd \in CmdType /\ TypeOK /\ cmd.kind = "restart" /\ Acting /\ cmd.built \in Seq(Scoped)
      /\ cmd'.pc \in {"plan", "reap"}
  BY DEF SelInv, TypeOK, CmdType, Phases, Acting
<1>2. /\ cmd.ahead # <<>> /\ cmd.todo # <<>> /\ cmd.todo \in Seq(Services)
      /\ svc \in Services /\ Holds(t.svcs, svc) /\ t.scope \in Scopes
  BY InTurn
<1>3. /\ Tail(cmd.todo) \in Seq(Services) /\ Len(Tail(cmd.todo)) = Len(cmd.todo) - 1
      /\ Len(cmd.todo) \in Nat
      /\ \A k \in 1..Len(Tail(cmd.todo)) :
            k + 1 \in 1..Len(cmd.todo) /\ Tail(cmd.todo)[k] = cmd.todo[k + 1]
      /\ \A k \in 1..Len(cmd.todo) :
            k # 1 => k - 1 \in 1..Len(Tail(cmd.todo)) /\ Tail(cmd.todo)[k - 1] = cmd.todo[k]
  BY <1>2, TailMembers
<1>4. \A s : Holds(Tail(cmd.todo), s) => Holds(cmd.todo, s)
  <2>1. ASSUME NEW s, Holds(Tail(cmd.todo), s) PROVE Holds(cmd.todo, s)
    <3>1. PICK k \in 1..Len(Tail(cmd.todo)) : Tail(cmd.todo)[k] = s BY <2>1 DEF Holds
    <3>2. k + 1 \in 1..Len(cmd.todo) /\ cmd.todo[k + 1] = s BY <1>3, <3>1
    <3>3. QED BY <3>2 DEF Holds
  <2>2. QED BY <2>1
<1>5. \A s : Holds(cmd.todo, s) => s = svc \/ Holds(Tail(cmd.todo), s)
  <2>1. ASSUME NEW s, Holds(cmd.todo, s) PROVE s = svc \/ Holds(Tail(cmd.todo), s)
    <3>1. PICK k \in 1..Len(cmd.todo) : cmd.todo[k] = s BY <2>1 DEF Holds
    <3>2. CASE k = 1 BY <3>1, <3>2
    <3>3. CASE k # 1
      <4>1. k - 1 \in 1..Len(Tail(cmd.todo)) /\ Tail(cmd.todo)[k - 1] = s BY <1>3, <3>1, <3>3
      <4>2. QED BY <4>1 DEF Holds
    <3>4. QED BY <3>1, <3>2, <3>3
  <2>2. QED BY <2>1
<1>6. /\ Behind \in Nat /\ Len(cmd.ahead) \in Nat
      /\ Behind + 1 \in 1..Len(cmd.built) /\ cmd.built[Behind + 1] = t
      /\ Tail(cmd.ahead) \in Seq(Scoped) /\ Len(Tail(cmd.ahead)) = Len(cmd.ahead) - 1
      /\ \A k \in 1..Len(Tail(cmd.ahead)) : Tail(cmd.ahead)[k] = cmd.built[Behind + 1 + k]
      /\ \A k \in 1..(Behind + 1) : k = Behind + 1 \/ k \in 1..Behind
  BY <1>1, <1>2, AtHand
<1>7. \A s : Holds(t.svcs, s) =>
         \/ Holds(Tail(cmd.todo), s)
         \/ <<t.scope, s>> \in cmd'.typed
  <2>1. \A s : Holds(t.svcs, s) => Holds(cmd.todo, s) \/ <<t.scope, s>> \in cmd.typed
    BY DEF SelInv, Lines
  <2>2. QED BY <1>5, <2>1
<1> HIDE DEF t, svc
<1>8. cmd' \in CmdType
  <2>1. FieldsOK(cmd')
    <3>1. cmd'.typed \in SUBSET (Scopes \X Services)
      BY <1>2, FieldsTyped DEF FieldsOK, t, svc
    <3>2. QED
      BY <1>1, <1>3, <1>6, <3>1, FieldsTyped DEF FieldsOK, PC, KeepsArgs, KeepsTargets, KeepsEnd
  <2>2. QED BY <1>1, <2>1, Retyped
<1>9. /\ TypeOK' /\ Given' /\ World' /\ (Wired' <=> Wired)
      /\ \A pat : (IsEnv(pat)' <=> IsEnv(pat)) /\ Asked(pat)' = Asked(pat)
  BY <1>8, ArgsKept
<1>10. /\ Acting' /\ EnvsExpanded' /\ WorkspaceExpanded' /\ EnvsExpanded /\ WorkspaceExpanded
  BY <1>1 DEF Acting, EnvsExpanded, WorkspaceExpanded
<1>11. /\ \A u : Sound(u)' <=> Sound(u)
       /\ \A pair : Reached(pair) => Reached(pair)'
       /\ \A pat : Covered(pat)' <=> Covered(pat)
       /\ \A u : Plannable(u)' <=> Plannable(u)
  BY DEF Sound, Reached, Covered, Plannable, Served, KeepsArgs, KeepsTargets
<1>12. Targets' BY <1>1, <1>10, <1>11 DEF SelInv, Targets, KeepsArgs, KeepsTargets
<1>13. Phases' /\ OnlyAsked' /\ Seeded' /\ Cataloged' /\ Finishing' /\ Preflighted'
  BY <1>1, <1>10
  DEF SelInv, Phases, OnlyAsked, Seeded, Cataloged, Finishing, Preflighted, KeepsArgs, KeepsTargets
<1>14. Passing' BY <1>1, <1>11 DEF SelInv, Passing, KeepsArgs, KeepsTargets
<1>15. Covering' BY <1>1, <1>10, <1>11 DEF SelInv, Covering, KeepsArgs, KeepsEnd
<1>16. Reaching' BY <1>9, <1>10, <1>11 DEF SelInv, Reaching, KeepsArgs, KeepsEnd
<1>17. DeadMeansDead' BY <1>1, <1>9 DEF SelInv, DeadMeansDead, KeepsArgs, KeepsEnd
<1>18. CASE Len(cmd.todo) > 1 /\ cmd'.pc = "reap" /\ cmd'.ahead = cmd.ahead
  <2>1. Behind' = Behind BY <1>18 DEF Behind, KeepsTargets
  <2>2. cmd'.todo # <<>>
    <3>1. cmd'.todo \in Seq(Services) /\ Len(cmd'.todo) = Len(cmd.todo) - 1 BY <1>3
    <3>2. Len(cmd'.todo) # 0 BY <1>3, <1>18, <3>1
    <3>3. \A q \in Seq(Services) : Len(q) # 0 => q # <<>> OBVIOUS
    <3>4. QED BY <3>1, <3>2, <3>3
  <2>3. Looping'
    BY <1>1, <1>4, <1>10, <1>18, <2>1, <2>2 DEF SelInv, Looping, KeepsTargets
  <2>4. Lines'
    <3>1. ASSUME NEW k \in 1..Behind,
                 cmd.rc = 0 \/ cmd.built[k].scope \in steady \ cmd.unresolved,
                 NEW s, Holds(cmd.built[k].svcs, s)
          PROVE  <<cmd.built[k].scope, s>> \in cmd'.typed
      BY <1>1, <3>1 DEF SelInv, Lines
    <3>2. QED BY <1>7, <1>18, <2>1, <3>1 DEF Lines, KeepsArgs, KeepsTargets, KeepsEnd, t
  <2>5. QED
    BY <1>9, <1>12, <1>13, <1>14, <1>15, <1>16, <1>17, <2>3, <2>4 DEF SelInv
<1>19. CASE Len(cmd.todo) = 1 /\ cmd'.pc = "plan" /\ cmd'.ahead = Tail(cmd.ahead)
  <2>1. Behind' = Behind + 1
    <3>1. Behind' = Len(cmd.built) - (Len(cmd.ahead) - 1) BY <1>6, <1>19 DEF Behind, KeepsTargets
    <3>2. Len(cmd.built) \in Nat BY <1>1
    <3>3. \A a, b \in Nat : a - (b - 1) = (a - b) + 1 OBVIOUS
    <3>4. QED BY <1>6, <3>1, <3>2, <3>3 DEF Behind
  <2>2. Looping'
    <3>1. Behind' \in Nat BY <1>6, <2>1
    <3>2. \A k \in 1..Len(cmd'.ahead) : cmd'.ahead[k] = cmd'.built[Behind' + k]
      BY <1>6, <1>19, <2>1 DEF KeepsTargets
    <3>3. QED BY <1>19, <3>1, <3>2 DEF Looping
  <2>3. \A s : ~Holds(Tail(cmd.todo), s) BY <1>3, <1>19 DEF Holds
  <2>4. Lines'
    <3>1. ASSUME NEW k \in 1..(Behind + 1),
                 cmd.rc = 0 \/ cmd.built[k].scope \in steady \ cmd.unresolved,
                 NEW s, Holds(cmd.built[k].svcs, s)
          PROVE  <<cmd.built[k].scope, s>> \in cmd'.typed
      <4>1. CASE k \in 1..Behind BY <1>1, <3>1, <4>1 DEF SelInv, Lines
      <4>2. CASE k = Behind + 1 BY <1>6, <1>7, <2>3, <3>1, <4>2
      <4>3. QED BY <1>6, <4>1, <4>2
    <3>2. QED BY <1>19, <2>1, <3>1 DEF Lines, KeepsArgs, KeepsTargets, KeepsEnd
  <2>5. QED
    BY <1>9, <1>12, <1>13, <1>14, <1>15, <1>16, <1>17, <2>2, <2>4 DEF SelInv
<1>20. QED BY <1>18, <1>19

LEMMA TypeLineKeeps == ASSUME SelInv, TypeLine PROVE SelInv'
<1> DEFINE t == cmd.ahead[1]
           svc == cmd.todo[1]
<1>1. /\ cmd.pc = "type" /\ cmd \in CmdType /\ TypeOK /\ FieldsOK(cmd)
  BY FieldsTyped DEF TypeLine, At, SelInv, TypeOK
<1>2. /\ cmd.ahead # <<>> /\ Head(cmd.ahead) = t /\ Head(cmd.todo) = svc /\ t \in Scoped
      /\ Holds(t.svcs, svc)
  BY <1>1, InTurn
<1>3. \/ /\ svc \notin panes[t.scope]
         /\ Become([Skip(cmd) EXCEPT !.pc = "plan", !.todo = <<>>])
      \/ /\ Len(cmd.todo) > 1
         /\ Become([[cmd EXCEPT !.typed = @ \union {<<t.scope, svc>>}, !.todo = Tail(@)]
                       EXCEPT !.pc = "reap"])
      \/ /\ Len(cmd.todo) = 1
         /\ Become([[cmd EXCEPT !.typed = @ \union {<<t.scope, svc>>}, !.todo = Tail(@)]
                       EXCEPT !.pc = "plan", !.ahead = Tail(@)])
  BY <1>2 DEF TypeLine
<1>4. svc \notin panes[t.scope] => t.scope \notin steady
  <2> SUFFICES ASSUME t.scope \in steady PROVE svc \in panes[t.scope]
    OBVIOUS
  <2>1. Plannable(t) BY <1>1, <1>2, UnplannableIsUnsteady
  <2>2. t.svcs \in Seq(Services) BY <1>2 DEF Scoped
  <2>3. svc \in ToSet(t.svcs) BY <1>2, <2>2 DEF Holds, ToSet
  <2>4. QED BY <2>1, <2>3 DEF Plannable
<1> HIDE DEF t, svc
<1>5. CASE /\ svc \notin panes[t.scope]
           /\ Become([Skip(cmd) EXCEPT !.pc = "plan", !.todo = <<>>])
  <2>1. cmd' = [cmd EXCEPT !.ahead = Tail(@), !.rc = 1, !.pc = "plan", !.todo = <<>>]
    BY <1>5 DEF Become, Skip
  <2>2. Whole(cmd') BY <2>1, Zenon DEF Whole
  <2>3. /\ KeepsArgs /\ KeepsTargets /\ KeepsEffects
        /\ cmd'.ahead = Tail(cmd.ahead) /\ cmd'.todo = <<>> /\ cmd'.passed = cmd.passed
        /\ cmd'.pc = "plan" /\ cmd'.rc = 1 /\ cmd'.end = cmd.end
        /\ cmd'.seed = cmd.seed /\ cmd'.catalog = cmd.catalog
    <3>1. UNCHANGED world BY <1>5 DEF Become
    <3>2. QED BY <1>1, <2>1, <3>1 DEF CmdType, world, KeepsArgs, KeepsTargets, KeepsEffects
  <2>4. cmd'.todo \in Seq(Services) /\ cmd'.unresolved \in SUBSET Scopes
    BY <1>1, <2>3 DEF FieldsOK, KeepsEffects
  <2>5. QED
    BY <1>1, <1>2, <1>4, <1>5, <2>2, <2>3, <2>4, SkippingKeeps DEF KeepsEffects, t
<1>6. CASE /\ Len(cmd.todo) > 1
           /\ Become([[cmd EXCEPT !.typed = @ \union {<<t.scope, svc>>}, !.todo = Tail(@)]
                         EXCEPT !.pc = "reap"])
  <2>1. cmd' = [cmd EXCEPT !.typed = @ \union {<<t.scope, svc>>}, !.todo = Tail(@), !.pc = "reap"]
    BY <1>6 DEF Become
  <2>2. Whole(cmd') BY <2>1, Zenon DEF Whole
  <2>3. /\ KeepsArgs /\ KeepsTargets /\ KeepsEnd
        /\ cmd'.typed = cmd.typed \union {<<t.scope, svc>>}
        /\ cmd'.todo = Tail(cmd.todo) /\ cmd'.reaped = cmd.reaped /\ cmd'.shown = cmd.shown
        /\ cmd'.unresolved = cmd.unresolved /\ cmd'.passed = cmd.passed
        /\ cmd'.pc = "reap" /\ cmd'.ahead = cmd.ahead
        /\ cmd'.seed = cmd.seed /\ cmd'.catalog = cmd.catalog
    BY <1>1, <1>6, <2>1 DEF CmdType, Become, world, KeepsArgs, KeepsTargets, KeepsEnd
  <2>4. QED BY <1>1, <1>6, <2>2, <2>3, TypedKeeps DEF t, svc
<1>7. CASE /\ Len(cmd.todo) = 1
           /\ Become([[cmd EXCEPT !.typed = @ \union {<<t.scope, svc>>}, !.todo = Tail(@)]
                         EXCEPT !.pc = "plan", !.ahead = Tail(@)])
  <2>1. cmd' = [cmd EXCEPT !.typed = @ \union {<<t.scope, svc>>}, !.todo = Tail(@), !.pc = "plan",
                           !.ahead = Tail(@)]
    BY <1>1, <1>7 DEF Become, CmdType
  <2>2. Whole(cmd') BY <2>1, Zenon DEF Whole
  <2>3. /\ KeepsArgs /\ KeepsTargets /\ KeepsEnd
        /\ cmd'.typed = cmd.typed \union {<<t.scope, svc>>}
        /\ cmd'.todo = Tail(cmd.todo) /\ cmd'.reaped = cmd.reaped /\ cmd'.shown = cmd.shown
        /\ cmd'.unresolved = cmd.unresolved /\ cmd'.passed = cmd.passed
        /\ cmd'.pc = "plan" /\ cmd'.ahead = Tail(cmd.ahead)
        /\ cmd'.seed = cmd.seed /\ cmd'.catalog = cmd.catalog
    BY <1>1, <1>7, <2>1 DEF CmdType, Become, world, KeepsArgs, KeepsTargets, KeepsEnd
  <2>4. QED BY <1>1, <1>7, <2>2, <2>3, TypedKeeps DEF t, svc
<1>8. QED BY <1>3, <1>5, <1>6, <1>7

LEMMA BatchesDoneKeeps == ASSUME SelInv, BatchesDone PROVE SelInv'
<1>1. /\ cmd.pc = "plan" /\ cmd.ahead = <<>> /\ cmd \in CmdType /\ TypeOK
      /\ cmd.kind = "restart" /\ Acting /\ cmd.built \in Seq(Scoped)
  BY DEF BatchesDone, At, SelInv, TypeOK, CmdType, Phases, Acting
<1>2. cmd' = [cmd EXCEPT !.pc = "done", !.end = "finished"] BY DEF BatchesDone, Become
<1>3. /\ KeepsArgs /\ KeepsTargets /\ KeepsLoop /\ KeepsEffects
      /\ cmd'.pc = "done" /\ cmd'.rc = cmd.rc /\ cmd'.end = "finished"
      /\ cmd'.seed = cmd.seed /\ cmd'.catalog = cmd.catalog
  BY <1>1, <1>2
  DEF BatchesDone, CmdType, Become, world, KeepsArgs, KeepsTargets, KeepsLoop, KeepsEffects
<1>4. cmd' \in CmdType
  <2>1. Whole(cmd') BY <1>2, Zenon DEF Whole
  <2>2. FieldsOK(cmd')
    BY <1>3, FieldsTyped DEF FieldsOK, PC, KeepsArgs, KeepsTargets, KeepsLoop, KeepsEffects
  <2>3. QED BY <1>1, <2>1, <2>2, Retyped
<1>5. /\ TypeOK' /\ Given' /\ World' /\ (Wired' <=> Wired)
      /\ \A pat : (IsEnv(pat)' <=> IsEnv(pat)) /\ Asked(pat)' = Asked(pat)
  BY <1>3, <1>4, ArgsKept
<1>6. /\ Acting' /\ EnvsExpanded' /\ WorkspaceExpanded' /\ EnvsExpanded /\ WorkspaceExpanded
  BY <1>1, <1>3 DEF Acting, EnvsExpanded, WorkspaceExpanded, KeepsArgs
<1>7. /\ \A u : Sound(u)' <=> Sound(u)
      /\ \A pair : Reached(pair)' <=> Reached(pair)
      /\ \A pair : Served(pair)' <=> Served(pair)
      /\ \A pat : Covered(pat)' <=> Covered(pat)
      /\ Behind' = Behind
  BY <1>3
  DEF Sound, Reached, Covered, Served, Behind, KeepsArgs, KeepsTargets, KeepsLoop, KeepsEffects
<1>8. Targets' BY <1>1, <1>3, <1>6, <1>7 DEF SelInv, Targets, KeepsArgs, KeepsTargets
<1>9. Phases' /\ OnlyAsked' /\ Seeded' /\ Cataloged' /\ Preflighted' /\ Passing'
  BY <1>1, <1>3, <1>6
  DEF SelInv, Phases, OnlyAsked, Seeded, Cataloged, Preflighted, Passing, KeepsArgs,
      KeepsTargets, KeepsLoop, KeepsEffects
<1>10. Looping'
  BY <1>1, <1>3, <1>6, <1>7 DEF SelInv, Looping, KeepsTargets, KeepsLoop
<1>11. Lines' BY <1>1, <1>3, <1>7 DEF SelInv, Lines, KeepsArgs, KeepsTargets, KeepsEffects
<1>12. Finishing'
  <2> SUFFICES ASSUME cmd.rc = 0, NEW k \in 1..Len(cmd.built), NEW s, Holds(cmd.built[k].svcs, s)
               PROVE  cmd.queue = <<>> /\ Served(<<cmd.built[k].scope, s>>)
    <3>1. cmd.queue = <<>> BY <1>1 DEF SelInv, Targets
    <3>2. QED BY <1>3, <1>7, <3>1 DEF Finishing, KeepsTargets
  <2>1. cmd.queue = <<>> BY <1>1 DEF SelInv, Targets
  <2>2. k \in 1..Behind BY <1>1 DEF Behind
  <2>3. <<cmd.built[k].scope, s>> \in cmd.typed BY <1>1, <2>2 DEF SelInv, Lines
  <2>4. QED BY <2>1, <2>3 DEF Served
<1>13. Covering' BY <1>1, <1>3, <1>6, <1>7 DEF SelInv, Covering, KeepsArgs
<1>14. Reaching' BY <1>3, <1>5, <1>6, <1>7 DEF SelInv, Reaching, KeepsArgs
<1>15. DeadMeansDead' BY <1>3, <1>5 DEF SelInv, DeadMeansDead, KeepsArgs
<1>16. QED
  BY <1>5, <1>8, <1>9, <1>10, <1>11, <1>12, <1>13, <1>14, <1>15 DEF SelInv

-----------------------------------------------------------------------------
(* status and logs.                                                        *)

LEMMA CollectKeeps == ASSUME SelInv, Collect PROVE SelInv'
<1> DEFINE t == cmd.queue[1]
           has == ServicesOf(manifest, t.scope)
<1>1. /\ cmd.pc = "collect" /\ cmd \in CmdType /\ TypeOK /\ World /\ Given
      /\ cmd.queue # <<>> /\ cmd.queue \in Seq(Target)
  BY DEF Collect, At, SelInv, TypeOK, CmdType
<1>2. /\ 1 \in 1..Len(cmd.queue) /\ Head(cmd.queue) = t /\ t \in Target
      /\ Tail(cmd.queue) \in Seq(Target)
      /\ \A k \in 1..Len(Tail(cmd.queue)) :
            k + 1 \in 1..Len(cmd.queue) /\ Tail(cmd.queue)[k] = cmd.queue[k + 1]
      /\ \A k \in 1..Len(cmd.queue) :
            k # 1 => k - 1 \in 1..Len(Tail(cmd.queue)) /\ Tail(cmd.queue)[k - 1] = cmd.queue[k]
  BY <1>1, TailMembers
<1>3. /\ ~Acting /\ cmd.reaped = {} /\ EnvsExpanded /\ WorkspaceExpanded /\ cmd.built = <<>>
      /\ cmd.kind \in {"status", "logs"}
  BY <1>1 DEF SelInv, Acting, Preflighted, EnvsExpanded, WorkspaceExpanded, Phases, Targets
<1>4. \/ Become([cmd EXCEPT !.queue = Tail(@), !.rc = 1])
      \/ Become([cmd EXCEPT !.queue = Tail(@), !.shown = @ \union Known(t)])
  <2>1. [cmd EXCEPT !.queue = Tail(@)].shown = cmd.shown BY <1>1 DEF CmdType
  <2>2. QED BY <1>2, <2>1 DEF Collect
<1>5. ASSUME KeepsArgs, KeepsLoop, Whole(cmd'), cmd'.pc = "collect",
             cmd'.queue = Tail(cmd.queue), cmd'.built = cmd.built, cmd'.end = cmd.end,
             cmd'.rc \in {cmd.rc, 1}, cmd'.reaped = cmd.reaped, cmd'.typed = cmd.typed,
             cmd'.unresolved = cmd.unresolved, cmd.shown \subseteq cmd'.shown,
             cmd'.shown \in SUBSET (Scopes \X Services),
             cmd'.seed = cmd.seed, cmd'.catalog = cmd.catalog,
             cmd'.rc = 0 => cmd.rc = 0 /\ Known(t) \subseteq cmd'.shown
      PROVE  SelInv'
  <2>1. cmd' \in CmdType
    <3>1. FieldsOK(cmd') BY <1>2, <1>5, FieldsTyped DEF FieldsOK, PC, KeepsArgs, KeepsLoop
    <3>2. QED BY <1>1, <1>5, <3>1, Retyped
  <2>2. /\ TypeOK' /\ Given' /\ World' /\ (Wired' <=> Wired)
        /\ \A pat : (IsEnv(pat)' <=> IsEnv(pat)) /\ Asked(pat)' = Asked(pat)
    BY <1>5, <2>1, ArgsKept
  <2>3. ~Acting' /\ EnvsExpanded' BY <1>5 DEF Acting, EnvsExpanded
  <2>4. \A u : Sound(u)' <=> Sound(u) BY <1>5 DEF Sound, KeepsArgs
  <2>5. Targets' BY <1>1, <1>2, <1>3, <1>5, <2>3, <2>4 DEF SelInv, Targets, KeepsArgs
  <2>6. Phases' /\ Looping' /\ Preflighted' /\ OnlyAsked' /\ Covering' /\ Seeded'
        /\ Cataloged' /\ Finishing' /\ Passing' /\ Lines'
    BY <1>1, <1>3, <1>5, <2>3
    DEF SelInv, Phases, Looping, Preflighted, OnlyAsked, Covering, Seeded, Cataloged,
        Finishing, Passing, Lines, KeepsArgs, KeepsLoop
  <2>7. Reaching'
    <3> SUFFICES ASSUME Wired, cmd'.rc = 0, NEW i \in 1..Len(cmd.pats),
                        NEW pair \in Asked(cmd.pats[i])
                 PROVE  Reached(pair)'
      BY <1>5, <2>2 DEF Reaching, KeepsArgs
    <3>1. Reached(pair) BY <1>3, <1>5 DEF SelInv, Reaching
    <3>2. CASE Served(pair) BY <1>5, <3>2 DEF Served, Reached
    <3>3. CASE \E k \in 1..Len(cmd.queue) :
                  cmd.queue[k].scope = pair[1] /\ Holds(cmd.queue[k].svcs, pair[2])
      <4>1. PICK k \in 1..Len(cmd.queue) :
               cmd.queue[k].scope = pair[1] /\ Holds(cmd.queue[k].svcs, pair[2])
        BY <3>3
      <4>2. CASE k = 1
        <5>1. /\ pair = <<pair[1], pair[2]>>
              /\ pair[2] \in ToSet(ServicesOf(manifest, pair[1]))
          BY <1>1, DeclaredNow DEF Asked
        <5>2. t.svcs \in Seq(Services) BY <1>2 DEF Target
        <5>3. pair[2] \in ToSet(t.svcs) BY <4>1, <4>2, <5>2 DEF Holds, ToSet
        <5>4. pair \in Known(t) BY <4>1, <4>2, <5>1, <5>3 DEF Known
        <5>5. QED BY <1>5, <5>4 DEF Reached, Served
      <4>3. CASE k # 1
        <5>1. k - 1 \in 1..Len(cmd'.queue) /\ cmd'.queue[k - 1] = cmd.queue[k]
          BY <1>2, <1>5, <4>3
        <5>2. QED BY <4>1, <5>1 DEF Reached
      <4>4. QED BY <4>2, <4>3
    <3>4. CASE \E k \in 1..Len(cmd.built) : TRUE BY <1>3, <3>4
    <3>5. QED BY <3>1, <3>2, <3>3, <3>4 DEF Reached
  <2>8. DeadMeansDead' BY <1>5, <2>2 DEF SelInv, DeadMeansDead, KeepsArgs
  <2>9. QED BY <2>2, <2>5, <2>6, <2>7, <2>8 DEF SelInv
<1> HIDE DEF t, has
<1>6. CASE Become([cmd EXCEPT !.queue = Tail(@), !.rc = 1])
  <2>1. cmd' = [cmd EXCEPT !.queue = Tail(@), !.rc = 1] BY <1>6 DEF Become
  <2>2. Whole(cmd') BY <2>1, Zenon DEF Whole
  <2>3. /\ KeepsArgs /\ KeepsLoop /\ KeepsEffects
        /\ cmd'.pc = "collect" /\ cmd'.queue = Tail(cmd.queue) /\ cmd'.built = cmd.built
        /\ cmd'.end = cmd.end /\ cmd'.rc = 1 /\ cmd'.seed = cmd.seed /\ cmd'.catalog = cmd.catalog
    BY <1>1, <1>6, <2>1 DEF CmdType, Become, world, KeepsArgs, KeepsLoop, KeepsEffects
  <2>4. cmd'.shown \in SUBSET (Scopes \X Services)
    BY <2>3, FieldsTyped DEF FieldsOK, KeepsEffects
  <2>5. QED BY <1>5, <2>2, <2>3, <2>4 DEF KeepsEffects
<1>7. CASE Become([cmd EXCEPT !.queue = Tail(@), !.shown = @ \union Known(t)])
  <2>1. cmd' = [cmd EXCEPT !.queue = Tail(@), !.shown = @ \union Known(t)] BY <1>7 DEF Become
  <2>2. Whole(cmd') BY <2>1, Zenon DEF Whole
  <2>3. /\ KeepsArgs /\ KeepsLoop /\ KeepsEnd
        /\ cmd'.pc = "collect" /\ cmd'.queue = Tail(cmd.queue) /\ cmd'.built = cmd.built
        /\ cmd'.reaped = cmd.reaped /\ cmd'.typed = cmd.typed
        /\ cmd'.unresolved = cmd.unresolved /\ cmd'.shown = cmd.shown \union Known(t)
        /\ cmd'.seed = cmd.seed /\ cmd'.catalog = cmd.catalog
    BY <1>1, <1>7, <2>1 DEF CmdType, Become, world, KeepsArgs, KeepsLoop, KeepsEnd
  <2>4. Known(t) \subseteq Scopes \X Services
    <3>1. t.svcs \in Seq(Services) /\ t.scope \in Scopes BY <1>2 DEF Target
    <3>2. ToSet(t.svcs) \subseteq Services BY <3>1 DEF ToSet
    <3>3. QED BY <3>1, <3>2 DEF Known
  <2>5. cmd'.shown \in SUBSET (Scopes \X Services) BY <2>3, <2>4, FieldsTyped DEF FieldsOK
  <2>6. QED BY <1>5, <2>2, <2>3, <2>5 DEF KeepsEnd
<1>8. QED BY <1>4, <1>6, <1>7

LEMMA CollectDoneKeeps == ASSUME SelInv, CollectDone PROVE SelInv'
<1>1. /\ cmd.pc = "collect" /\ cmd \in CmdType /\ TypeOK /\ cmd.queue = <<>>
  BY DEF CollectDone, At, SelInv, TypeOK
<1>2. /\ ~Acting /\ cmd.reaped = {} /\ EnvsExpanded /\ WorkspaceExpanded /\ cmd.built = <<>>
      /\ cmd.kind \in {"status", "logs"}
  BY <1>1 DEF SelInv, Acting, Preflighted, EnvsExpanded, WorkspaceExpanded, Phases, Targets
<1>3. cmd' = [cmd EXCEPT !.pc = "done", !.end = "finished"] BY DEF CollectDone, Become
<1>4. /\ KeepsArgs /\ KeepsTargets /\ KeepsLoop /\ KeepsEffects
      /\ cmd'.pc = "done" /\ cmd'.rc = cmd.rc /\ cmd'.end = "finished"
      /\ cmd'.seed = cmd.seed /\ cmd'.catalog = cmd.catalog
  BY <1>1, <1>3
  DEF CollectDone, CmdType, Become, world, KeepsArgs, KeepsTargets, KeepsLoop, KeepsEffects
<1>5. cmd' \in CmdType
  <2>1. Whole(cmd') BY <1>3, Zenon DEF Whole
  <2>2. FieldsOK(cmd')
    BY <1>4, FieldsTyped DEF FieldsOK, PC, KeepsArgs, KeepsTargets, KeepsLoop, KeepsEffects
  <2>3. QED BY <1>1, <2>1, <2>2, Retyped
<1>6. /\ TypeOK' /\ Given' /\ World' /\ (Wired' <=> Wired)
      /\ \A pat : (IsEnv(pat)' <=> IsEnv(pat)) /\ Asked(pat)' = Asked(pat)
  BY <1>4, <1>5, ArgsKept
<1>7. ~Acting' BY <1>2, <1>4 DEF Acting, KeepsArgs
<1>8. /\ \A pair : Reached(pair)' <=> Reached(pair)
  BY <1>4 DEF Reached, Served, KeepsTargets, KeepsEffects
<1>9. Targets' BY <1>1, <1>2, <1>4 DEF Targets, KeepsArgs, KeepsTargets
<1>10. Phases' /\ Looping' /\ Preflighted' /\ OnlyAsked' /\ Covering' /\ Seeded' /\ Cataloged'
       /\ Finishing' /\ Passing' /\ Lines'
  BY <1>1, <1>2, <1>4, <1>7
  DEF Phases, Looping, Preflighted, OnlyAsked, Covering, Seeded, Cataloged, Finishing, Passing,
      Lines, KeepsArgs, KeepsTargets, KeepsLoop, KeepsEffects
<1>11. Reaching' BY <1>2, <1>4, <1>6, <1>8 DEF SelInv, Reaching, KeepsArgs
<1>12. DeadMeansDead' BY <1>4, <1>6 DEF SelInv, DeadMeansDead, KeepsArgs
<1>13. QED BY <1>6, <1>9, <1>10, <1>11, <1>12 DEF SelInv

LEMMA FollowKeeps == ASSUME SelInv, Follow PROVE SelInv'
<1> DEFINE streams == UNION {{t.scope} \X (ToSet(t.svcs) \intersect t.has) : t \in ToSet(cmd.built)}
<1>1. /\ cmd.pc = "build" /\ cmd.kind = "follow" /\ cmd.queue = <<>> /\ cmd \in CmdType /\ TypeOK
      /\ cmd.built \in Seq(Scoped)
  BY DEF Follow, At, SelInv, TypeOK, CmdType
<1>2. /\ ~Acting /\ cmd.reaped = {} /\ EnvsExpanded /\ WorkspaceExpanded /\ cmd.shown = {}
  BY <1>1 DEF SelInv, Acting, Preflighted, EnvsExpanded, WorkspaceExpanded, Phases
<1>3. \/ cmd' = [cmd EXCEPT !.pc = "done", !.end = "finished", !.shown = streams, !.rc = 1]
      \/ cmd' = [cmd EXCEPT !.pc = "done", !.end = "finished", !.shown = streams]
      \/ cmd' = [cmd EXCEPT !.pc = "done", !.end = "finished", !.shown = streams, !.rc = 130]
  BY DEF Follow, Become
<1>4. UNCHANGED world BY DEF Follow, Become
<1>5. streams \in SUBSET (Scopes \X Services)
  <2>1. ASSUME NEW t \in ToSet(cmd.built)
        PROVE  {t.scope} \X (ToSet(t.svcs) \intersect t.has) \subseteq Scopes \X Services
    <3>1. t \in Scoped BY <1>1 DEF ToSet
    <3>2. QED BY <3>1 DEF Scoped
  <2>2. QED BY <2>1
<1>6. ASSUME NEW k \in 1..Len(cmd.built), NEW s, Holds(cmd.built[k].svcs, s), s \in cmd.built[k].has
      PROVE  <<cmd.built[k].scope, s>> \in streams
  <2>1. cmd.built[k] \in ToSet(cmd.built) /\ cmd.built[k] \in Scoped BY <1>1 DEF ToSet
  <2>2. cmd.built[k].svcs \in Seq(Services) BY <2>1 DEF Scoped
  <2>3. s \in ToSet(cmd.built[k].svcs) BY <1>6, <2>2 DEF Holds, ToSet
  <2>4. <<cmd.built[k].scope, s>>
           \in {cmd.built[k].scope} \X (ToSet(cmd.built[k].svcs) \intersect cmd.built[k].has)
    BY <1>6, <2>3
  <2>5. QED BY <2>1, <2>4
<1> HIDE DEF streams
<1>7. Whole(cmd')
  <2>1. CASE cmd' = [cmd EXCEPT !.pc = "done", !.end = "finished", !.shown = streams, !.rc = 1]
    BY <2>1, Zenon DEF Whole
  <2>2. CASE cmd' = [cmd EXCEPT !.pc = "done", !.end = "finished", !.shown = streams]
    BY <2>2, Zenon DEF Whole
  <2>3. CASE cmd' = [cmd EXCEPT !.pc = "done", !.end = "finished", !.shown = streams, !.rc = 130]
    BY <2>3, Zenon DEF Whole
  <2>4. QED BY <1>3, <2>1, <2>2, <2>3
<1>8. /\ KeepsArgs /\ KeepsTargets /\ KeepsLoop
      /\ cmd'.reaped = cmd.reaped /\ cmd'.typed = cmd.typed /\ cmd'.unresolved = cmd.unresolved
      /\ cmd'.shown = streams /\ cmd'.pc = "done" /\ cmd'.end = "finished"
      /\ cmd'.rc \in {cmd.rc, 1, 130} /\ cmd'.seed = cmd.seed /\ cmd'.catalog = cmd.catalog
  <2>1. CASE cmd' = [cmd EXCEPT !.pc = "done", !.end = "finished", !.shown = streams, !.rc = 1]
    BY <1>1, <1>4, <2>1 DEF CmdType, world, KeepsArgs, KeepsTargets, KeepsLoop
  <2>2. CASE cmd' = [cmd EXCEPT !.pc = "done", !.end = "finished", !.shown = streams]
    BY <1>1, <1>4, <2>2 DEF CmdType, world, KeepsArgs, KeepsTargets, KeepsLoop
  <2>3. CASE cmd' = [cmd EXCEPT !.pc = "done", !.end = "finished", !.shown = streams, !.rc = 130]
    BY <1>1, <1>4, <2>3 DEF CmdType, world, KeepsArgs, KeepsTargets, KeepsLoop
  <2>4. QED BY <1>3, <2>1, <2>2, <2>3
<1>9. cmd' \in CmdType
  <2>1. FieldsOK(cmd')
    BY <1>5, <1>8, FieldsTyped DEF FieldsOK, PC, KeepsArgs, KeepsTargets, KeepsLoop
  <2>2. QED BY <1>1, <1>7, <2>1, Retyped
<1>10. /\ TypeOK' /\ Given' /\ World' /\ (Wired' <=> Wired)
       /\ \A pat : (IsEnv(pat)' <=> IsEnv(pat)) /\ Asked(pat)' = Asked(pat)
  BY <1>8, <1>9, ArgsKept
<1>11. ~Acting' /\ EnvsExpanded' BY <1>1, <1>8 DEF Acting, EnvsExpanded, KeepsArgs
<1>12. \A u : Sound(u)' <=> Sound(u) BY <1>8 DEF Sound, KeepsArgs
<1>13. Targets' BY <1>1, <1>8, <1>11, <1>12 DEF SelInv, Targets, KeepsArgs, KeepsTargets
<1>14. Phases' /\ Looping' /\ Preflighted' /\ OnlyAsked' /\ Covering' /\ Seeded' /\ Cataloged'
       /\ Passing' /\ Lines'
  BY <1>1, <1>2, <1>8, <1>11
  DEF Phases, Looping, Preflighted, OnlyAsked, Covering, Seeded, Cataloged, Passing, Lines,
      KeepsArgs
<1>15. Finishing' BY <1>1, <1>6, <1>8 DEF Finishing, Served, KeepsTargets
<1>16. Reaching'
  <2> SUFFICES ASSUME Wired, cmd.rc = 0, NEW i \in 1..Len(cmd.pats),
                      NEW pair \in Asked(cmd.pats[i])
               PROVE  Reached(pair)'
    BY <1>8, <1>10 DEF Reaching, KeepsArgs
  <2>1. Reached(pair) BY <1>2 DEF SelInv, Reaching
  <2>2. QED BY <1>2, <1>8, <2>1 DEF Reached, Served, KeepsTargets
<1>17. DeadMeansDead' BY <1>8, <1>10 DEF SelInv, DeadMeansDead, KeepsArgs
<1>18. QED BY <1>10, <1>13, <1>14, <1>15, <1>16, <1>17 DEF SelInv

-----------------------------------------------------------------------------
(* The promises.                                                           *)

LEMMA StepKeeps == ASSUME SelInv, [Next]_vars PROVE SelInv'
<1>1. CASE UNCHANGED vars
  <2>1. cmd' = cmd /\ UNCHANGED world BY <1>1 DEF vars, world
  <2>2. TypeOK' BY <2>1 DEF SelInv, TypeOK, world
  <2>3. World'
    <3>1. DeclaredBy(manifest)' = DeclaredBy(manifest) BY <2>1 DEF DeclaredBy, world
    <3>2. QED BY <2>1, <3>1 DEF SelInv, World, world
  <2>4. Given' /\ Phases' BY <2>1 DEF SelInv, Given, Phases, IsEnv
  <2>5. Targets' BY <2>1 DEF SelInv, Targets, Sound, EnvsExpanded, Acting
  <2>6. Looping' /\ Preflighted' BY <2>1 DEF SelInv, Looping, Preflighted, Acting, Behind
  <2>7. OnlyAsked' /\ Finishing' BY <2>1 DEF SelInv, OnlyAsked, Finishing, Served
  <2>8. Covering' BY <2>1 DEF SelInv, Covering, Acting, Covered
  <2>9. \A pat : Asked(pat)' = Asked(pat) /\ (IsEnv(pat)' <=> IsEnv(pat))
    BY <2>1 DEF Asked, IsEnv, world
  <2>10. /\ (Wired' <=> Wired)
         /\ (EnvsExpanded' <=> EnvsExpanded) /\ (WorkspaceExpanded' <=> WorkspaceExpanded)
         /\ \A pair : Reached(pair)' <=> Reached(pair)
    BY <2>1 DEF Wired, EnvsExpanded, WorkspaceExpanded, Reached, Served
  <2>11. Reaching' BY <2>1, <2>9, <2>10 DEF SelInv, Reaching
  <2>12. Seeded' /\ Cataloged' BY <2>1, <2>9, <2>10 DEF SelInv, Seeded, Cataloged
  <2>13. DeadMeansDead' BY <2>1, <2>9, <2>10 DEF SelInv, DeadMeansDead
  <2>14. Passing' /\ Lines' BY <2>1 DEF SelInv, Passing, Lines, Plannable, Behind, Acting, world
  <2>15. QED
    BY <2>2, <2>3, <2>4, <2>5, <2>6, <2>7, <2>8, <2>11, <2>12, <2>13, <2>14 DEF SelInv
<1>2. CASE Next
  BY <1>2, SeedKeeps, ReadCatalogKeeps, ExpandEnvsKeeps, RestartWorkspaceKeeps, BuildEnvKeeps,
     BuildDoneKeeps, PreflightKeeps, PreflightDoneKeeps, PlanBatchKeeps, ReapPaneKeeps,
     TypeLineKeeps, BatchesDoneKeeps, StatusWorkspaceKeeps, CollectKeeps, CollectDoneKeeps,
     FollowKeeps, OthersKeep
  DEF Next
<1>3. QED BY <1>1, <1>2

(* The strengthening holds of every state of every run.                    *)
THEOREM SelectionInvariant == Spec => []SelInv
<1>1. Init => SelInv BY StartSelects
<1>2. SelInv /\ [Next]_vars => SelInv' BY StepKeeps
<1>3. QED BY <1>1, <1>2, PTL DEF Spec

(* The variables, the command's sixteen fields among them, stay in their   *)
(* ranges.                                                                 *)
THEOREM SelectionTypes == Spec => []TypeOK
<1>1. SelInv => TypeOK BY DEF SelInv
<1>2. QED BY <1>1, SelectionInvariant, PTL

(* No pane is reaped before every scope the patterns name has been built   *)
(* and has passed its preflight: a refused restart has stopped nothing.    *)
THEOREM PreflightComesFirst == Spec => []AllPreflightedBeforeAny
<1>1. SelInv => AllPreflightedBeforeAny BY SelInvGives
<1>2. QED BY <1>1, SelectionInvariant, PTL

(* Exit code 0 covers what the patterns ask for, whatever others did to    *)
(* other scopes and whatever the manifest lost or gained meanwhile.        *)
THEOREM OkCoversAll == Spec => []OkMeansAll
<1>1. SelInv => OkMeansAll BY SelInvGives
<1>2. QED BY <1>1, SelectionInvariant, PTL

(* "matched no services" is said only of a pattern that has no match in    *)
(* what was there all along.                                               *)
THEOREM DeadIsDead == Spec => []DeadMeansDead
<1>1. SelInv => DeadMeansDead BY DEF SelInv
<1>2. QED BY <1>1, SelectionInvariant, PTL

(* A scope that fails in its batch costs only itself.                      *)
THEOREM FailureIsLocal == Spec => []LaterScopesGoOn
<1>1. SelInv => LaterScopesGoOn BY SelInvGives
<1>2. QED BY <1>1, SelectionInvariant, PTL

(* What is reaped was asked for, and is declared where it is reaped.       *)
THEOREM OnlyAskedIsReaped == Spec => []OnlyAsked
<1>1. SelInv => OnlyAsked BY DEF SelInv
<1>2. QED BY <1>1, SelectionInvariant, PTL

-----------------------------------------------------------------------------
(* The loss of a service is reported: an invariant of its own.             *)

Fields == {"kind", "pats", "pc", "seed", "catalog", "queue", "built", "ahead", "todo",
           "rc", "end", "reaped", "typed", "shown", "passed", "unresolved"}

(* The service whose pane was reaped and whose line is about to be typed.  *)
InHand == IF cmd.pc = "type" THEN {<<Head(cmd.ahead).scope, Head(cmd.todo)>>} ELSE {}

(* LossReported speaks of the end only.  While the exit code is 0, what    *)
(* was reaped is what was typed and the service in hand.                   *)
NothingLost ==
    /\ DOMAIN cmd = Fields
    /\ cmd.rc = 0 => cmd.reaped = cmd.typed \union InHand

(* What every step but ReapPane and TypeLine leaves alone.                 *)
Quiet ==
    /\ DOMAIN cmd' = Fields
    /\ cmd'.reaped = cmd.reaped /\ cmd'.typed = cmd.typed
    /\ cmd'.rc = 0 => cmd.rc = 0
    /\ cmd.pc # "type" /\ cmd'.pc # "type"

LEMMA QuietKeeps == ASSUME NothingLost, Quiet PROVE NothingLost'
BY DEF NothingLost, Quiet, InHand

LEMMA StartLosesNothing == ASSUME Init PROVE NothingLost
<1>1. PICK c \in Commands :
         cmd = [kind |-> c.kind, pats |-> c.pats, pc |-> First(c), seed |-> Workspace,
                catalog |-> <<>>, queue |-> <<>>, built |-> <<>>, ahead |-> <<>>,
                todo |-> <<>>, rc |-> 0, end |-> "none", reaped |-> {}, typed |-> {},
                shown |-> {}, passed |-> 0, unresolved |-> {}]
  BY DEF Init
<1>2. cmd.pc # "type" BY <1>1 DEF First
<1>3. DOMAIN cmd = Fields BY <1>1 DEF Fields
<1>4. cmd.reaped = {} /\ cmd.typed = {} BY <1>1
<1>5. QED BY <1>2, <1>3, <1>4 DEF NothingLost, InHand

(* An assignment to cmd of a record that differs in other fields only.     *)
LEMMA QuietBecomes ==
    ASSUME NothingLost, cmd.pc # "type", NEW next,
           DOMAIN next = DOMAIN cmd, next.pc # "type",
           next.reaped = cmd.reaped, next.typed = cmd.typed,
           next.rc = 0 => cmd.rc = 0, Become(next)
    PROVE  NothingLost'
<1>1. cmd' = next BY DEF Become
<1>2. Quiet BY <1>1 DEF Quiet, NothingLost
<1>3. QED BY <1>2, QuietKeeps

LEMMA RefusalLosesNothing ==
    ASSUME NothingLost, cmd.pc # "type", NEW end, Refuse(end) PROVE NothingLost'
<1> DEFINE next == [cmd EXCEPT !.pc = "done", !.rc = 1, !.end = end]
<1>1. /\ DOMAIN next = DOMAIN cmd /\ next.pc # "type" /\ next.rc # 0
      /\ next.reaped = cmd.reaped /\ next.typed = cmd.typed
  BY DEF NothingLost, Fields
<1>2. Become(next) BY DEF Refuse
<1> HIDE DEF next
<1>3. QED BY <1>1, <1>2, QuietBecomes

LEMMA PlanFailureLosesNothing ==
    ASSUME NothingLost, cmd.pc # "type", NEW t, PlanFails(t) PROVE NothingLost'
<1> DEFINE known == Skip(cmd)
           unresolved == Skip([cmd EXCEPT !.unresolved = @ \union {t.scope}])
<1>1. /\ DOMAIN known = DOMAIN cmd /\ known.pc # "type" /\ known.rc # 0
      /\ known.reaped = cmd.reaped /\ known.typed = cmd.typed
  BY DEF NothingLost, Fields, Skip
<1>2. /\ DOMAIN unresolved = DOMAIN cmd /\ unresolved.pc # "type" /\ unresolved.rc # 0
      /\ unresolved.reaped = cmd.reaped /\ unresolved.typed = cmd.typed
  BY DEF NothingLost, Fields, Skip
<1>3. Become(known) \/ Become(unresolved) BY DEF PlanFails
<1> HIDE DEF known, unresolved
<1>4. QED BY <1>1, <1>2, <1>3, QuietBecomes

(* Steps that only select: read_manifest_context, expand_env_patterns.     *)
LEMMA SelectingLosesNothing ==
    ASSUME NothingLost, Seed \/ ReadCatalog \/ ExpandEnvs PROVE NothingLost'
<1>f. DOMAIN cmd = Fields BY DEF NothingLost
<1>1. CASE Seed
  <2> DEFINE to(e) == [cmd EXCEPT !.pc = "read", !.seed = e]
  <2>1. \A e : /\ DOMAIN to(e) = DOMAIN cmd /\ to(e).pc # "type" /\ to(e).rc = cmd.rc
               /\ to(e).reaped = cmd.reaped /\ to(e).typed = cmd.typed
    BY <1>f DEF Fields
  <2>2. cmd.pc # "type" /\ ((\E e : Become(to(e))) \/ Refuse("noseed"))
    BY <1>1 DEF Seed, At
  <2> HIDE DEF to
  <2>3. QED BY <2>1, <2>2, QuietBecomes, RefusalLosesNothing
<1>2. CASE ReadCatalog
  <2> DEFINE next == [cmd EXCEPT !.pc = "expand", !.catalog = ServicesOf(manifest, cmd.seed)]
  <2>1. /\ DOMAIN next = DOMAIN cmd /\ next.pc # "type" /\ next.rc = cmd.rc
        /\ next.reaped = cmd.reaped /\ next.typed = cmd.typed
    BY <1>f DEF Fields
  <2>2. cmd.pc # "type" /\ (Become(next) \/ Refuse("unreadable"))
    BY <1>2 DEF ReadCatalog, At
  <2> HIDE DEF next
  <2>3. QED BY <2>1, <2>2, QuietBecomes, RefusalLosesNothing
<1>3. CASE ExpandEnvs
  <2> DEFINE next == [cmd EXCEPT !.pc = Dispatch,
                          !.queue = Expand(EnvPats(cmd), cmd.catalog, RunningEnvs)]
  <2>1. /\ DOMAIN next = DOMAIN cmd /\ next.pc # "type" /\ next.rc = cmd.rc
        /\ next.reaped = cmd.reaped /\ next.typed = cmd.typed
    BY <1>f DEF Fields, Dispatch
  <2>2. cmd.pc # "type" /\ (Become(next) \/ Refuse("dead"))
    BY <1>3 DEF ExpandEnvs, At
  <2> HIDE DEF next
  <2>3. QED BY <2>1, <2>2, QuietBecomes, RefusalLosesNothing
<1>4. QED BY <1>1, <1>2, <1>3

(* Steps of restart_selected up to the first batch, and between batches.   *)
LEMMA PreparingLosesNothing ==
    ASSUME NothingLost,
           \/ RestartWorkspace \/ BuildEnv \/ BuildDone \/ Preflight \/ PreflightDone
           \/ PlanBatch \/ BatchesDone
    PROVE  NothingLost'
<1>f. DOMAIN cmd = Fields BY DEF NothingLost
<1>1. CASE RestartWorkspace
  <2>1. cmd.pc = "workspace" BY <1>1 DEF RestartWorkspace, At
  <2>2. \/ cmd' = [cmd EXCEPT !.pc = "build", !.rc = 1]
        \/ \E b : cmd' = [cmd EXCEPT !.pc = "build", !.built = b]
    BY <1>1 DEF RestartWorkspace, Become
  <2>3. (cmd' = [cmd EXCEPT !.pc = "build", !.rc = 1]) => Quiet
    BY <1>f, <2>1 DEF Quiet, Fields
  <2>4. (\E b : cmd' = [cmd EXCEPT !.pc = "build", !.built = b]) => Quiet
    BY <1>f, <2>1 DEF Quiet, Fields
  <2>5. QED BY <2>2, <2>3, <2>4, QuietKeeps
<1>2. CASE BuildEnv
  <2>1. cmd.pc = "build" BY <1>2 DEF BuildEnv, At
  <2>2. \/ cmd' = [cmd EXCEPT !.queue = Tail(@), !.rc = 1]
        \/ \E b : cmd' = [cmd EXCEPT !.queue = Tail(@), !.built = b]
    BY <1>2 DEF BuildEnv, Become
  <2>3. (cmd' = [cmd EXCEPT !.queue = Tail(@), !.rc = 1]) => Quiet
    BY <1>f, <2>1 DEF Quiet, Fields
  <2>4. (\E b : cmd' = [cmd EXCEPT !.queue = Tail(@), !.built = b]) => Quiet
    BY <1>f, <2>1 DEF Quiet, Fields
  <2>5. QED BY <2>2, <2>3, <2>4, QuietKeeps
<1>3. CASE BuildDone
  <2>1. Quiet BY <1>f, <1>3 DEF BuildDone, At, Become, Quiet, Fields
  <2>2. QED BY <2>1, QuietKeeps
<1>4. CASE Preflight
  <2>1. CASE PlanFails(Head(cmd.ahead))
    BY <1>4, <2>1, PlanFailureLosesNothing DEF Preflight, At
  <2>2. CASE Become([cmd EXCEPT !.ahead = Tail(@), !.passed = @ + 1])
    <3>1. Quiet BY <1>f, <1>4, <2>2 DEF Preflight, At, Become, Quiet, Fields
    <3>2. QED BY <3>1, QuietKeeps
  <2>3. QED BY <1>4, <2>1, <2>2 DEF Preflight
<1>5. CASE PreflightDone
  <2>1. Quiet BY <1>f, <1>5 DEF PreflightDone, At, Become, Quiet, Fields
  <2>2. QED BY <2>1, QuietKeeps
<1>6. CASE PlanBatch
  <2>1. CASE PlanFails(Head(cmd.ahead))
    BY <1>6, <2>1, PlanFailureLosesNothing DEF PlanBatch, At
  <2>2. CASE Become([cmd EXCEPT !.pc = "reap", !.todo = Head(cmd.ahead).svcs])
    <3>1. Quiet BY <1>f, <1>6, <2>2 DEF PlanBatch, At, Become, Quiet, Fields
    <3>2. QED BY <3>1, QuietKeeps
  <2>3. QED BY <1>6, <2>1, <2>2 DEF PlanBatch
<1>7. CASE BatchesDone
  <2>1. Quiet BY <1>f, <1>7 DEF BatchesDone, At, Become, Quiet, Fields
  <2>2. QED BY <2>1, QuietKeeps
<1>8. QED BY <1>1, <1>2, <1>3, <1>4, <1>5, <1>6, <1>7

LEMMA ReadingLosesNothing ==
    ASSUME NothingLost, StatusWorkspace \/ Collect \/ CollectDone \/ Follow
    PROVE  NothingLost'
<1>f. DOMAIN cmd = Fields BY DEF NothingLost
<1>1. CASE StatusWorkspace
  <2>1. cmd.pc = "workspace" BY <1>1 DEF StatusWorkspace, At
  <2>2. \/ cmd' = [cmd EXCEPT !.pc = "done", !.end = "finished", !.rc = 1]
        \/ cmd' = [cmd EXCEPT !.pc = "seed", !.rc = 1]
        \/ \E w : cmd' = [cmd EXCEPT !.pc = "done", !.end = "finished", !.shown = w]
        \/ \E w : cmd' = [cmd EXCEPT !.pc = "seed", !.shown = w]
    BY <1>1 DEF StatusWorkspace, Become
  <2>3. (cmd' = [cmd EXCEPT !.pc = "done", !.end = "finished", !.rc = 1]) => Quiet
    BY <1>f, <2>1 DEF Quiet, Fields
  <2>4. (cmd' = [cmd EXCEPT !.pc = "seed", !.rc = 1]) => Quiet
    BY <1>f, <2>1 DEF Quiet, Fields
  <2>5. (\E w : cmd' = [cmd EXCEPT !.pc = "done", !.end = "finished", !.shown = w]) => Quiet
    BY <1>f, <2>1 DEF Quiet, Fields
  <2>6. (\E w : cmd' = [cmd EXCEPT !.pc = "seed", !.shown = w]) => Quiet
    BY <1>f, <2>1 DEF Quiet, Fields
  <2>7. QED BY <2>2, <2>3, <2>4, <2>5, <2>6, QuietKeeps
<1>2. CASE Collect
  <2>1. cmd.pc = "collect" BY <1>2 DEF Collect, At
  <2>2. \/ cmd' = [cmd EXCEPT !.queue = Tail(@), !.rc = 1]
        \/ \E w : cmd' = [cmd EXCEPT !.queue = Tail(@), !.shown = w]
    BY <1>2 DEF Collect, Become
  <2>3. (cmd' = [cmd EXCEPT !.queue = Tail(@), !.rc = 1]) => Quiet
    BY <1>f, <2>1 DEF Quiet, Fields
  <2>4. (\E w : cmd' = [cmd EXCEPT !.queue = Tail(@), !.shown = w]) => Quiet
    BY <1>f, <2>1 DEF Quiet, Fields
  <2>5. QED BY <2>2, <2>3, <2>4, QuietKeeps
<1>3. CASE CollectDone
  <2>1. Quiet BY <1>f, <1>3 DEF CollectDone, At, Become, Quiet, Fields
  <2>2. QED BY <2>1, QuietKeeps
<1>4. CASE Follow
  <2>1. cmd.pc = "build" BY <1>4 DEF Follow, At
  <2>2. \/ \E w : cmd' = [cmd EXCEPT !.pc = "done", !.end = "finished", !.shown = w,
                              !.rc = 1]
        \/ \E w : cmd' = [cmd EXCEPT !.pc = "done", !.end = "finished", !.shown = w]
        \/ \E w : cmd' = [cmd EXCEPT !.pc = "done", !.end = "finished", !.shown = w,
                              !.rc = 130]
    BY <1>4 DEF Follow, Become
  <2>3. (\E w : cmd' = [cmd EXCEPT !.pc = "done", !.end = "finished", !.shown = w,
                              !.rc = 1]) => Quiet
    BY <1>f, <2>1 DEF Quiet, Fields
  <2>4. (\E w : cmd' = [cmd EXCEPT !.pc = "done", !.end = "finished", !.shown = w]) => Quiet
    BY <1>f, <2>1 DEF Quiet, Fields
  <2>5. (\E w : cmd' = [cmd EXCEPT !.pc = "done", !.end = "finished", !.shown = w,
                              !.rc = 130]) => Quiet
    BY <1>f, <2>1 DEF Quiet, Fields
  <2>6. QED BY <2>2, <2>3, <2>4, <2>5, QuietKeeps
<1>5. QED BY <1>1, <1>2, <1>3, <1>4

(* The two steps that matter: the service in hand enters, and leaves.      *)
LEMMA ReapPaneLosesNothing == ASSUME NothingLost, ReapPane PROVE NothingLost'
<1>1. /\ cmd.pc = "reap" /\ DOMAIN cmd = Fields
      /\ cmd' = [cmd EXCEPT !.pc = "type",
                     !.reaped = @ \union {<<Head(cmd.ahead).scope, Head(cmd.todo)>>}]
  BY DEF ReapPane, At, Become, NothingLost
<1>2. /\ DOMAIN cmd' = Fields /\ cmd'.pc = "type" /\ cmd'.rc = cmd.rc
      /\ cmd'.ahead = cmd.ahead /\ cmd'.todo = cmd.todo /\ cmd'.typed = cmd.typed
      /\ cmd'.reaped = cmd.reaped \union {<<Head(cmd.ahead).scope, Head(cmd.todo)>>}
  BY <1>1 DEF Fields
<1>3. QED BY <1>1, <1>2 DEF NothingLost, InHand

LEMMA TypeLineLosesNothing == ASSUME NothingLost, TypeLine PROVE NothingLost'
<1> DEFINE pair == <<Head(cmd.ahead).scope, Head(cmd.todo)>>
<1>1. /\ cmd.pc = "type" /\ DOMAIN cmd = Fields
      /\ cmd.rc = 0 => cmd.reaped = cmd.typed \union {pair}
  BY DEF TypeLine, At, NothingLost, InHand
<1>2. \/ cmd' = [Skip(cmd) EXCEPT !.pc = "plan", !.todo = <<>>]
      \/ cmd' = [cmd EXCEPT !.typed = @ \union {pair}, !.todo = Tail(@), !.pc = "reap"]
      \/ cmd' = [cmd EXCEPT !.typed = @ \union {pair}, !.todo = Tail(@), !.pc = "plan",
                            !.ahead = Tail(@)]
  BY <1>1 DEF TypeLine, Become, Fields
<1>3. CASE cmd' = [Skip(cmd) EXCEPT !.pc = "plan", !.todo = <<>>]
  <2>1. DOMAIN cmd' = Fields /\ cmd'.rc = 1 BY <1>1, <1>3 DEF Fields, Skip
  <2>2. QED BY <2>1 DEF NothingLost
<1>4. CASE \/ cmd' = [cmd EXCEPT !.typed = @ \union {pair}, !.todo = Tail(@), !.pc = "reap"]
           \/ cmd' = [cmd EXCEPT !.typed = @ \union {pair}, !.todo = Tail(@), !.pc = "plan",
                                 !.ahead = Tail(@)]
  <2>1. /\ DOMAIN cmd' = Fields /\ cmd'.pc # "type" /\ cmd'.rc = cmd.rc
        /\ cmd'.reaped = cmd.reaped /\ cmd'.typed = cmd.typed \union {pair}
    BY <1>1, <1>4 DEF Fields
  <2>2. QED BY <1>1, <2>1 DEF NothingLost, InHand
<1>5. QED BY <1>2, <1>3, <1>4

LEMMA StepLosesNothing == ASSUME NothingLost, [Next]_vars PROVE NothingLost'
<1>1. CASE Others \/ UNCHANGED vars
  <2>1. cmd' = cmd
    BY <1>1 DEF Others, EditManifest, SessionUp, SessionDown, vars
  <2>2. QED BY <2>1 DEF NothingLost, InHand
<1>2. CASE Next /\ ~Others
  BY <1>2, SelectingLosesNothing, PreparingLosesNothing, ReadingLosesNothing,
     ReapPaneLosesNothing, TypeLineLosesNothing DEF Next
<1>3. QED BY <1>1, <1>2

(* LossReported: a service that was stopped and not relaunched is never    *)
(* passed over in silence.  Another scope's failure, a session that goes   *)
(* and one that comes back, an edit of the manifest change nothing of it.  *)
THEOREM RestartReportsLoss == Spec => []LossReported
<1>1. Init => NothingLost BY StartLosesNothing
<1>2. NothingLost /\ [Next]_vars => NothingLost' BY StepLosesNothing
<1>3. NothingLost => LossReported BY DEF NothingLost, LossReported, InHand, At
<1>4. QED BY <1>1, <1>2, <1>3, PTL DEF Spec

=============================================================================
