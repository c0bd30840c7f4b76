----------------------------- MODULE Selection ------------------------------
(***************************************************************************)
(* A command given patterns rather than one scope: `restart`, `status`,    *)
(* `logs` and `logs -f`.  It finds out which services the patterns name,   *)
(* from a manifest and the running tmux sessions, and then visits one      *)
(* scope after the other.  It reads the manifest again for every scope and *)
(* the sessions again for every question, while other commands bring       *)
(* scopes up and down and the user edits the manifest.                     *)
(*                                                                         *)
(* What a command does inside one scope is module Lifecycle; here only     *)
(* whether a service's pane was reaped and its line typed matters.         *)
(***************************************************************************)
EXTENDS Lists, SequencesExt

CONSTANTS
    Workspace,   \* the reserved scope
    Envs,        \* feature environments
    Services,    \* service names
    Listing,     \* the sessions that may run, in the order tmux lists them
    Manifests,   \* what the manifest may be
    Commands,    \* the commands that may be given
    MaxTurns     \* BOUND: what others do while the command runs

Scopes == {Workspace} \union Envs

(* A session of this workspace is named <prefix>-<scope>; the tmux server  *)
(* is shared with other workspaces, whose sessions have another prefix.    *)
(* Prefixes hold no dash here (read_manifest_context splits at the first), *)
(* and sessions without one, which it skips, are left out.                 *)
Session == [own : BOOLEAN, scope : Scopes]

(* A manifest the reader or the prefix resolution rejects is unreadable.   *)
Manifest == [readable : BOOLEAN, project : Seq(Services), workspace : Seq(Services)]

(* A pattern by what fnmatch makes of its two segments.  A concrete        *)
(* environment segment matches its own name only.                          *)
Pattern == [glob : BOOLEAN, envs : SUBSET Scopes, svcs : SUBSET Services]

Command == [kind : {"restart", "status", "logs", "follow"}, pats : Seq(Pattern)]

ASSUME SelectionAssumption ==
    /\ Workspace \notin Envs
    /\ Listing \in Seq(Session)
    /\ Manifests \subseteq Manifest
    /\ Commands \subseteq Command
    /\ \A c \in Commands : c.pats # <<>>   \* the parser or `status` turns them away
    /\ \A c \in Commands : \A i \in DOMAIN c.pats :
          ~c.pats[i].glob => \E e \in Scopes : c.pats[i].envs = {e}
    /\ MaxTurns \in Nat

(* The validator keeps names unique across the two kinds of scope.         *)
ASSUME UniqueNamesAssumption ==
    \A m \in Manifests : IsInjective(m.project \o m.workspace)

VARIABLES
    alive,     \* the sessions that run
    panes,     \* scope -> the services whose pane its session has
    manifest,  \* the manifest on disk
    cmd,       \* the command: its arguments and locals
    turns,     \* how often others acted
    steady,    \* scopes whose session has run, unchanged, since the start
    declared   \* <<scope, service>> pairs declared since the start

vars == <<alive, panes, manifest, cmd, turns, steady, declared>>
world == <<alive, panes, manifest, turns, steady, declared>>

-----------------------------------------------------------------------------
(* Selection, as functions of what was read.                               *)

IsWorkspacePattern(pat) == ~pat.glob /\ pat.envs = {Workspace}

(* split_workspace_patterns; `logs` does not split.                        *)
WorkspacePats(c) == IF c.kind \in {"logs", "follow"} THEN <<>>
                    ELSE Filtered(c.pats, {pat \in ToSet(c.pats) : IsWorkspacePattern(pat)})
EnvPats(c) == IF c.kind \in {"logs", "follow"} THEN c.pats
              ELSE Filtered(c.pats, {pat \in ToSet(c.pats) : ~IsWorkspacePattern(pat)})

(* build_for_target: the services of the context built for a scope.        *)
ServicesOf(m, scope) == IF scope = Workspace THEN m.workspace ELSE m.project

Sessions == Filtered(Listing, alive)

(* running_envs: sessions of this prefix, the prefix stripped.             *)
RunningEnvs ==
    LET own == Filtered(Sessions, {s \in alive : s.own})
    IN  [i \in 1..Len(own) |-> own[i].scope]

Segment(pat) == CHOOSE e \in pat.envs : TRUE

(* _candidate_envs_for_pattern: a concrete segment need not be running.    *)
Candidates(pat, running) ==
    IF pat.glob THEN Filtered(running, pat.envs) ELSE <<Segment(pat)>>

Matches(pat, pair) == pair[1] \in pat.envs /\ pair[2] \in pat.svcs

(* The services of `catalog` one pattern selects, as <<scope, service>>.   *)
Hits(pat, catalog, running) ==
    LET envs == Candidates(pat, running)
        named == Filtered(catalog, pat.svcs)
        perEnv(e) == [i \in 1..Len(named) |-> <<e, named[i]>>]
    IN  Joined([i \in 1..Len(envs) |-> perEnv(envs[i])])

(* The services of scope e among the pairs.                                *)
Under(e, pairs) ==
    LET mine == Filtered(pairs, {e} \X Services)
    IN  [i \in 1..Len(mine) |-> mine[i][2]]

(* Pairs grouped by scope, scopes in the order they first occur.           *)
ByScope(pairs) ==
    LET scopes == Distinct([i \in 1..Len(pairs) |-> pairs[i][1]])
    IN  [i \in 1..Len(scopes) |-> [scope |-> scopes[i], svcs |-> Under(scopes[i], pairs)]]

(* Mutation of Expand: a scope keeps the services of its first pattern.    *)
ExpandOnce(pats, catalog, running) ==
    LET all == Joined([i \in 1..Len(pats) |-> ByScope(Hits(pats[i], catalog, running))])
    IN  SelectSeq(all, LAMBDA t : t = all[SelectInSeq(all, LAMBDA u : u.scope = t.scope)])

(* expand_env_patterns: env_services, and the patterns that matched none.  *)
Expand(pats, catalog, running) ==
    ByScope(Distinct(Joined([i \in 1..Len(pats) |-> Hits(pats[i], catalog, running)])))

Dead(pats, catalog, running) ==
    \E i \in 1..Len(pats) : Hits(pats[i], catalog, running) = <<>>

-----------------------------------------------------------------------------
(* The state of the command.                                               *)

PC == {"seed", "read", "expand", "workspace", "build", "preflight", "plan",
       "reap", "type", "collect", "done"}

Target == [scope : Scopes, svcs : Seq(Services)]
Scoped == [scope : Scopes, svcs : Seq(Services), has : SUBSET Services]

(* end is how far the command came; reaped, typed, shown and unresolved    *)
(* are observations the properties speak about.                            *)
CmdType ==
    [ kind : {"restart", "status", "logs", "follow"}, pats : Seq(Pattern), pc : PC,
      seed : Scopes,             \* read_manifest_context's candidate_env
      catalog : Seq(Services),   \* services_list
      queue : Seq(Target),       \* targets its current loop has still to visit
      built : Seq(Scoped),       \* restart's targets, with their contexts' services
      ahead : Seq(Scoped),       \* built ones its current loop has still to visit
      todo : Seq(Services),      \* services of the batch still to restart
      rc : {0, 1, 130},
      end : {"none", "noseed", "unreadable", "dead", "build", "preflight", "finished"},
      reaped : SUBSET (Scopes \X Services), typed : SUBSET (Scopes \X Services),
      shown : SUBSET (Scopes \X Services), \* reported on, or whose logs were read
      passed : Nat,              \* how many targets passed their preflight
      unresolved : SUBSET Scopes ]  \* scopes a launch line of which did not resolve

TypeOK ==
    /\ alive \subseteq ToSet(Listing)
    /\ panes \in [Scopes -> SUBSET Services]
    /\ manifest \in Manifests
    /\ cmd \in CmdType
    /\ turns \in 0..MaxTurns
    /\ steady \subseteq Scopes
    /\ declared \subseteq Scopes \X Services

OwnSession(scope) == [own |-> TRUE, scope |-> scope]
DeclaredBy(m) ==
    {pair \in Scopes \X Services :
        m.readable /\ Contains(ServicesOf(m, pair[1]), pair[2])}

(* Where a command begins: `status` does the workspace scope first.        *)
First(c) == IF EnvPats(c) = <<>> \/ (c.kind = "status" /\ WorkspacePats(c) # <<>>)
            THEN "workspace" ELSE "seed"

Init ==
    /\ manifest \in Manifests
    /\ alive \in SUBSET ToSet(Listing)
    /\ panes \in [Scopes -> SUBSET Services]
    /\ \A e \in Scopes :
          panes[e] \subseteq IF OwnSession(e) \in alive
                              THEN ToSet(ServicesOf(manifest, e)) ELSE {}
    /\ turns = 0
    /\ steady = {e \in Scopes : OwnSession(e) \in alive}
    /\ declared = DeclaredBy(manifest)
    /\ \E c \in Commands :
          cmd = [kind |-> c.kind, pats |-> c.pats, pc |-> First(c), seed |-> Workspace,
                 catalog |-> <<>>, queue |-> <<>>, built |-> <<>>, ahead |-> <<>>,
                 todo |-> <<>>, rc |-> 0, end |-> "none", reaped |-> {}, typed |-> {},
                 shown |-> {}, passed |-> 0, unresolved |-> {}]

At(pc) == cmd.pc = pc

Become(next) == cmd' = next /\ UNCHANGED world

(* An early return before anything was dispatched.                         *)
Refuse(end) == Become([cmd EXCEPT !.pc = "done", !.rc = 1, !.end = end])

-----------------------------------------------------------------------------
(* read_manifest_context and expand_env_patterns.                          *)

(* Mutation of SeedSession: the first session, whatever its scope.         *)
SeedFirstSession == Sessions[1].scope

(* The first concrete environment segment, or else a running session,      *)
(* preferably not the workspace's.  Sessions of other prefixes count.      *)
SeedSession ==
    LET other == Filtered(Sessions, {s \in alive : s.scope # Workspace})
    IN  (other \o Sessions)[1].scope

Seed ==
    /\ At("seed")
    /\ LET concrete == Filtered(EnvPats(cmd), {pat \in ToSet(cmd.pats) : ~pat.glob})
       IN  \/ /\ concrete # <<>>
              /\ Become([cmd EXCEPT !.pc = "read", !.seed = Segment(concrete[1])])
           \/ /\ concrete = <<>> /\ Sessions # <<>>
              /\ Become([cmd EXCEPT !.pc = "read", !.seed = SeedSession])
           \/ /\ concrete = <<>> /\ Sessions = <<>>
              /\ Refuse("noseed")

ReadCatalog ==
    /\ At("read")
    /\ \/ /\ manifest.readable
          /\ Become([cmd EXCEPT !.pc = "expand",
                                !.catalog = ServicesOf(manifest, cmd.seed)])
       \/ ~manifest.readable /\ Refuse("unreadable")

(* What follows expansion depends on the action.                           *)
Dispatch ==
    CASE cmd.kind = "restart" -> IF WorkspacePats(cmd) # <<>> THEN "workspace" ELSE "build"
      [] cmd.kind = "follow" -> "build"
      [] OTHER -> "collect"

ExpandEnvs ==
    /\ At("expand")
    /\ \/ /\ Dead(EnvPats(cmd), cmd.catalog, RunningEnvs)
          /\ Refuse("dead")
       \/ /\ ~Dead(EnvPats(cmd), cmd.catalog, RunningEnvs)
          /\ Become([cmd EXCEPT !.pc = Dispatch,
                        !.queue = Expand(EnvPats(cmd), cmd.catalog, RunningEnvs)])

-----------------------------------------------------------------------------
(* restart_selected: build every context, preflight every scope, restart.  *)

(* The workspace's context and its patterns; a failure is remembered in rc.*)
RestartWorkspace ==
    /\ At("workspace") /\ cmd.kind = "restart"
    /\ LET pats == WorkspacePats(cmd)
           has == manifest.workspace
           fails == ~manifest.readable \/ Dead(pats, has, <<>>)
       IN  \/ fails /\ Become([cmd EXCEPT !.pc = "build", !.rc = 1])
           \/ /\ ~fails
              /\ Become([cmd EXCEPT !.pc = "build", !.built =
                     <<[scope |-> Workspace, has |-> ToSet(has),
                        svcs |-> Expand(pats, has, <<>>)[1].svcs]>>])

(* The context of the next scope; logs_follow has the same loop.           *)
BuildEnv ==
    /\ At("build") /\ cmd.queue # <<>>
    /\ LET t == Head(cmd.queue)
           rest == [cmd EXCEPT !.queue = Tail(@)]
       IN  \/ ~manifest.readable /\ Become([rest EXCEPT !.rc = 1])
           \/ /\ manifest.readable
              /\ Become([rest EXCEPT !.built = Append(@,
                     [scope |-> t.scope, svcs |-> t.svcs,
                      has |-> ToSet(ServicesOf(manifest, t.scope))])])

BuildDone ==
    /\ At("build") /\ cmd.kind = "restart" /\ cmd.queue = <<>>
    /\ \/ cmd.rc # 0 /\ Become([cmd EXCEPT !.pc = "done", !.end = "build"])
       \/ cmd.rc = 0 /\ Become([cmd EXCEPT !.pc = "preflight", !.ahead = cmd.built])

(* _restart_plan: every service is declared and has a pane.                *)
Plannable(t) == ToSet(t.svcs) \subseteq t.has \intersect panes[t.scope]

(* Mutation of Skip: the exit code counts the failures.                    *)
SkipCounting(rest) == [rest EXCEPT !.ahead = Tail(@), !.rc = @ + 1]

(* Mutation of Skip: the exit code stays 0.                                *)
SkipQuietly(rest) == [rest EXCEPT !.ahead = Tail(@)]

(* Mutation of Skip: a failing scope ends the loop.                        *)
SkipAll(rest) == [rest EXCEPT !.ahead = <<>>, !.rc = 1]

Skip(rest) == [rest EXCEPT !.ahead = Tail(@), !.rc = 1]

(* _restart_plan fails: a service is unknown or has no pane, or a launch   *)
(* line does not resolve in this scope's environment.                      *)
PlanFails(t) ==
    \/ ~Plannable(t) /\ Become(Skip(cmd))
    \/ Become(Skip([cmd EXCEPT !.unresolved = @ \union {t.scope}]))

Preflight ==
    /\ At("preflight") /\ cmd.ahead # <<>>
    /\ LET t == Head(cmd.ahead)
       IN  \/ PlanFails(t)
           \/ Plannable(t) /\ Become([cmd EXCEPT !.ahead = Tail(@), !.passed = @ + 1])

(* Mutation of PreflightDone: the scopes that passed are restarted.        *)
PreflightDoneAnyway ==
    /\ At("preflight") /\ cmd.ahead = <<>>
    /\ Become([cmd EXCEPT !.pc = "plan", !.ahead = cmd.built])

PreflightDone ==
    /\ At("preflight") /\ cmd.ahead = <<>>
    /\ \/ cmd.rc # 0 /\ Become([cmd EXCEPT !.pc = "done", !.end = "preflight"])
       \/ cmd.rc = 0 /\ Become([cmd EXCEPT !.pc = "plan", !.ahead = cmd.built])

(* restart_services of the next scope; it plans anew.                      *)
(* Mutation of PlanBatch: every service of the scope is restarted.         *)
PlanWholeScope ==
    /\ At("plan") /\ cmd.ahead # <<>>
    /\ LET t == Head(cmd.ahead)
       IN  \/ PlanFails(t)
           \/ /\ Plannable(t)
              /\ Become([cmd EXCEPT !.pc = "reap", !.todo = SetToSeq(t.has)])

PlanBatch ==
    /\ At("plan") /\ cmd.ahead # <<>>
    /\ LET t == Head(cmd.ahead)
       IN  \/ PlanFails(t)
           \/ /\ Plannable(t)
              /\ Become([cmd EXCEPT !.pc = "reap", !.todo = t.svcs])

ReapPane ==
    /\ At("reap")
    /\ Become([cmd EXCEPT !.pc = "type",
                  !.reaped = @ \union {<<Head(cmd.ahead).scope, Head(cmd.todo)>>}])

(* send_keys raises when the pane is gone; the rest of the batch is lost.  *)
TypeLine ==
    /\ At("type")
    /\ LET scope == Head(cmd.ahead).scope
           svc == Head(cmd.todo)
           sent == [cmd EXCEPT !.typed = @ \union {<<scope, svc>>}, !.todo = Tail(@)]
       IN  \/ svc \notin panes[scope] /\ Become([Skip(cmd) EXCEPT !.pc = "plan", !.todo = <<>>])
           \/ /\ svc \in panes[scope] /\ Len(cmd.todo) > 1
              /\ Become([sent EXCEPT !.pc = "reap"])
           \/ /\ svc \in panes[scope] /\ Len(cmd.todo) = 1
              /\ Become([sent EXCEPT !.pc = "plan", !.ahead = Tail(@)])

BatchesDone ==
    /\ At("plan") /\ cmd.ahead = <<>>
    /\ Become([cmd EXCEPT !.pc = "done", !.end = "finished"])

-----------------------------------------------------------------------------
(* status and logs.                                                        *)

(* The services of a target that its context declares; `status` and `logs` *)
(* leave a name it does not declare out, without a word.                   *)
Known(t) == {t.scope} \X (ToSet(t.svcs) \intersect ToSet(ServicesOf(manifest, t.scope)))

(* collect_status_workspace, then the env patterns if there are any.       *)
StatusWorkspace ==
    /\ At("workspace") /\ cmd.kind = "status"
    /\ LET pats == WorkspacePats(cmd)
           after == IF EnvPats(cmd) = <<>>
                    THEN [cmd EXCEPT !.pc = "done", !.end = "finished"]
                    ELSE [cmd EXCEPT !.pc = "seed"]
       IN  \/ Become([after EXCEPT !.rc = 1])
           \/ /\ manifest.readable /\ ~Dead(pats, manifest.workspace, <<>>)
              /\ Become([after EXCEPT !.shown = Known(Expand(pats, manifest.workspace, <<>>)[1])])

(* _collect_for_target and _run_for_target: a scope whose context cannot   *)
(* be built, or whose status call fails (its session may vanish between    *)
(* has_session and list_panes, a mapping may not resolve), is left out.    *)
Collect ==
    /\ At("collect") /\ cmd.queue # <<>>
    /\ LET rest == [cmd EXCEPT !.queue = Tail(@)]
       IN  \/ (~manifest.readable \/ cmd.kind = "status") /\ Become([rest EXCEPT !.rc = 1])
           \/ /\ manifest.readable
              /\ Become([rest EXCEPT !.shown = @ \union Known(Head(cmd.queue))])

CollectDone ==
    /\ At("collect") /\ cmd.queue = <<>>
    /\ Become([cmd EXCEPT !.pc = "done", !.end = "finished"])

(* logs_follow builds every stream's context before it follows any.  No    *)
(* stream: rc or 1.  Else follow_streams returns 130 when it is            *)
(* interrupted and 0 when the reader of its output is gone.                *)
Follow ==
    /\ At("build") /\ cmd.kind = "follow" /\ cmd.queue = <<>>
    /\ LET done == [cmd EXCEPT !.pc = "done", !.end = "finished",
                               !.shown = UNION {{t.scope} \X (ToSet(t.svcs) \intersect t.has) :
                                                t \in ToSet(cmd.built)}]
       IN  \/ cmd.built = <<>> /\ Become([done EXCEPT !.rc = 1])
           \/ cmd.built # <<>> /\ Become(done)
           \/ cmd.built # <<>> /\ Become([done EXCEPT !.rc = 130])

-----------------------------------------------------------------------------
(* The world: other commands on scopes, other workspaces, the user.        *)

Turn == turns < MaxTurns /\ turns' = turns + 1 /\ ~At("done")

SessionUp(s) ==
    /\ Turn /\ s \notin alive
    /\ alive' = alive \union {s}
    /\ \E P \in SUBSET ToSet(ServicesOf(manifest, s.scope)) :
          panes' = IF s.own THEN [panes EXCEPT ![s.scope] = P] ELSE panes
    /\ UNCHANGED <<manifest, cmd, steady, declared>>

SessionDown(s) ==
    /\ Turn /\ s \in alive
    /\ alive' = alive \ {s}
    /\ panes' = IF s.own THEN [panes EXCEPT ![s.scope] = {}] ELSE panes
    /\ steady' = IF s.own THEN steady \ {s.scope} ELSE steady
    /\ UNCHANGED <<manifest, cmd, declared>>

EditManifest ==
    /\ Turn
    /\ manifest' \in Manifests \ {manifest}
    /\ declared' = declared \intersect DeclaredBy(manifest')
    /\ UNCHANGED <<alive, panes, cmd, steady>>

Others == EditManifest \/ \E s \in ToSet(Listing) : SessionUp(s) \/ SessionDown(s)

Next ==
    \/ Seed \/ ReadCatalog \/ ExpandEnvs
    \/ RestartWorkspace \/ BuildEnv \/ BuildDone \/ Preflight \/ PreflightDone
    \/ PlanBatch \/ ReapPane \/ TypeLine \/ BatchesDone
    \/ StatusWorkspace \/ Collect \/ CollectDone \/ Follow
    \/ Others

Spec == Init /\ [][Next]_vars

-----------------------------------------------------------------------------
(* Properties.                                                             *)

(* No service is disturbed before every scope the patterns name has had    *)
(* its context built and has passed its preflight (restart_selected's two  *)
(* loops): a restart that is refused has stopped nothing anywhere.         *)
AllPreflightedBeforeAny ==
    cmd.reaped # {} =>
        /\ cmd.passed = Len(cmd.built)
        /\ \A i \in DOMAIN cmd.pats : \E t \in ToSet(cmd.built) :
              /\ t.scope \in cmd.pats[i].envs
              /\ ToSet(t.svcs) \intersect cmd.pats[i].svcs # {}

(* Exit code 0 covers what was asked for: every service a pattern matches, *)
(* declared all along in a scope whose session ran all along, is           *)
(* relaunched, or its scope reported on.  (A pattern matches the workspace *)
(* only by its name; a concrete scope need not run.)                       *)
Asked(pat) ==
    {pair \in declared : /\ Matches(pat, pair)
                         /\ IF pat.glob THEN pair[1] \in steady \ {Workspace} ELSE TRUE}

Served(pair) == pair \in cmd.typed \union cmd.shown

(* `logs` is not wired for the workspace (context/service-rules.md).       *)
Wired == cmd.kind \in {"logs", "follow"} =>
             \A i \in DOMAIN cmd.pats : ~IsWorkspacePattern(cmd.pats[i])

OkMeansAll ==
    At("done") /\ cmd.rc = 0 /\ Wired =>
        \A i \in DOMAIN cmd.pats : \A pair \in Asked(cmd.pats[i]) : Served(pair)

(* "matched no services" is said only when some pattern has no match among *)
(* the services declared and the environments running all along, whatever  *)
(* other sessions there are and in whatever order tmux lists them.         *)
DeadMeansDead ==
    cmd.end = "dead" /\ Wired => \E i \in DOMAIN cmd.pats : Asked(cmd.pats[i]) = {}

(* A scope that fails between preflight and batch costs only itself: every *)
(* other selected scope whose session ran all along gets all its services  *)
(* back, unless a launch line of its own did not resolve.                  *)
LaterScopesGoOn ==
    At("done") /\ cmd.kind = "restart" /\ cmd.end = "finished" =>
        \A i \in DOMAIN cmd.built :
            LET t == cmd.built[i]
            IN  t.scope \in steady \ cmd.unresolved =>
                    \A s \in ToSet(t.svcs) : <<t.scope, s>> \in cmd.typed

(* A service that was stopped and not relaunched is never passed over in   *)
(* silence: the command ends with a non-zero exit code.                    *)
LossReported ==
    At("done") /\ cmd.reaped # cmd.typed => cmd.rc # 0

(* Only what was asked for is disturbed: a reaped service is matched by a  *)
(* pattern, in a scope that declares it.                                   *)
OnlyAsked ==
    \A pair \in cmd.reaped :
        /\ \E i \in DOMAIN cmd.pats : Matches(cmd.pats[i], pair)
        /\ \E i \in DOMAIN cmd.built : cmd.built[i].scope = pair[1] /\ pair[2] \in cmd.built[i].has

(* What the documentation says of globs: `work*` does not match the        *)
(* reserved workspace scope.  The code does not keep it.                   *)
GlobsLeaveWorkspaceAlone ==
    \A pair \in cmd.reaped : pair[1] = Workspace => WorkspacePats(cmd) # <<>>

=============================================================================
