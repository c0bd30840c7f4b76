# winter-service-tmux: TLA+ specifications

`winter-service-tmux` starts, watches and stops the services of a workspace in
tmux panes. Every command is an operating-system process of its own that talks
to tmux, to the process table and to files; nothing locks. These modules state
what the commands promise, check it with TLC on small instances, and prove the
central parts for every instance with TLAPS. Paths below are relative to the
repository; `orchestrate/` is `src/service_orchestrator/modules/orchestrate/`,
`manifest/` is `src/service_manifest/modules/manifest/`.

## The system

| Component | State it keeps | Operations | What is hard |
|---|---|---|---|
| `OrchestratorService` (`orchestrate/orchestrator_service.py`) | none of its own; one tmux session per scope (a feature environment or the workspace), one pane per service | `up` (whole scope, or partial on an existing session), `down` (whole, partial), `restart_services`, `status`, `_prune` | a command is a long sequence of calls on tmux, with waits of minutes between a decision and its use; other commands run in between; any of them may be interrupted |
| launch order (`_topological_order`) and manifest validator (`manifest/validator.py`) | none | pure functions of the manifest | repeats, cycles, two spellings of one dependency |
| reaper (`orchestrate/internal/pgrep_process_reaper.py`) | none; the process table | walk with `pgrep`, TERM, wait, walk again, KILL | processes fork, exit and are adopted between two `pgrep` calls |
| capture writer (`logwriter.py`) | `<svc>.log`, `<svc>.log.1`, ... of one service | read a line, write it, rotate | it dies with its pane, in the middle of a rotation too |
| log reading (`orchestrate/log_service.py`, `log_query.py`, `internal/local_log_repository.py`) | byte offsets of the files it follows | backlog: gather, merge, filter, cut; follow | the files are renamed underneath; order of filter and cut |
| retention (`_prune`) | none | list expired segments, delete them | listed names may mean other files when they are deleted |
| selector and dispatch (`selector_service.py`, `dispatch_service.py`, `cli.py`) | none | expand patterns over running sessions, several scopes per command, exit codes | partial failure over scopes, names that match more than meant |
| the door in an environment's root (`env_cli.py`) | none | find the environment, delegate, attach, `down --tmux-only` | it must end one session, found by name or by the end of a name |
| status report and probes (`status_report.py`, `internal/subprocess_health_checker.py`) | none | rows and health of one scope | many calls on a scene that changes; what a row says must have been true |
| manifest reading (`manifest/reader.py`, `ext_reader.py`) | none | parse, overlay merge, scopes, extensions | aliases, merge by name, what the validator never sees |
| environment files, `winter` adapter, hook runner, clock, wiring | none | evaluate, delegate, format | one input at a time |

The components meet in four places: tmux (every command sees the others only
there), the process table (services, their shells, the reaper), the log
directory (writer, readers and prune pass), and `winter service status`, through
which an `up` asks about its own scope's services and those of other scopes.

## Modules

| Module | Models | Used by |
|---|---|---|
| `Lifecycle` | every invocation of `up`, `down`, `restart` on one scope, call by call | `MCLifecycle`, `MCPanes`, `LifecycleProofs`, `InvocationProofs` |
| `Reaper` | one `reap_descendants` over a process table that changes | `MCPanes`, `MCCommands`, `ReaperProofs` |
| `Status` | `status` and its probes beside sessions, launches and exits | `MCCommands`, `CommandProofs` |
| `Door` | `env_cli.py`, with tmux's reading of `-t` names | `MCCommands`, `CommandProofs` |
| `Selection` | a command given patterns over several scopes | `MCSelection`, `MCCommands`, `SelectionProofs` |
| `Lists` | folding, filtering, joining and dropping repeats, as functions a proof can unfold | `Selection`, `Manifest`, `ListLemmas` |
| `TopologicalOrder` | `_topological_order` as an operator | `LaunchOrder`, `MCLifecycle` |
| `LaunchOrder` | the launch order of every `depends_on` graph, and what it must be | `CycleCheck`, `ManifestProofs` |
| `CycleCheck` | the validator's search for a cycle, step by step, beside the launch order | `MCLaunchOrder`, `MCFiles`, `ManifestProofs` |
| `Manifest` | config.toml, its overlay, the extensions, the validator's uniqueness rules | `MCFiles`, `ManifestProofs` |
| `BoundedLog` | what a service's log promises, without files | `LogWriter` (refinement) |
| `LogWriter` | `logwriter.py`: `run` and `rotate`, call by call | `MCPanes`, `LogReader`, `LogProofs` |
| `LogReader` | backlog and follow of one FILE-mode service beside its writer | `LogRetention` |
| `LogRetention` | the prune pass beside writer and reader | `MCFiles`, `LogProofs` |
| `LogBacklog` | what `logs` prints of several services and environments | `MCFiles`, `LogProofs` |
| `MCLifecycle`, `MCSelection`, `MCLaunchOrder` | small instances of one module each | |
| `MCPanes`, `MCCommands`, `MCFiles` | instances of several modules side by side | |
| `ListLemmas` | induction, recursion, lists without repetitions, as lemmas | the modules of proofs |

A definition with the comment *Mutation of* is a plausible bug of the code; it
is not part of any specification. It documents, for one property, a change of
the code which that property would catch.

`MCPanes`, `MCCommands` and `MCFiles` put systems into one run that share no
variable: `part` says which of them a behaviour is of, the others stand still.
Where components do interact they are composed properly: `LogRetention` extends
`LogReader` extends `LogWriter` (one directory, three actors), and `LogWriter`
implements `BoundedLog`.

### Lifecycle

`proc[p]` is the local state of one invocation: its arguments (`job`), where in
the code it is (`pc`), and its local variables (`snap`: the session its pane
list was taken of; `launch`, `todo`: the services it decided to act on and those
its loop has still to handle; `dep`, `polls`: its place in `_await_dependencies`;
`tries`, `failed`: its place in `_await_startup`). `made`, `typed`, `seen`, `up`
and `reaped` record what it did, for the properties. The shared state is tmux's:
`alive`, `panes`, `running` (a pane's shell has a child), `tty` (lines typed and
not yet read by the shell) and `gen`, which tells two sessions of one name
apart: pane processes of an earlier one are gone, names are not.

One action is one call on tmux, on the hook, on the reaper (two steps: TERM,
KILL) or on `winter service status`. `up` goes `UpBegin`, `UpCreate`, `UpHook`,
`UpValidate`, then for each service in launch order `UpPoll`... `UpGateOpen`,
`UpType`, and with retry `UpProbe`, `ReapTerm`, `ReapKill`, `UpRetype`,
`UpRecheck`. A partial `up` of an existing session replaces the first four by
`UpSnapshot`. `restart` and `down` share the reaper's steps. `Interrupt` is
Ctrl-C between any two calls. `ShellLaunch` and `ServiceExit` are the panes.

Abstracted: a launch line is whether it resolves (`job.resolves`); a status
answer may be "not ready" at any time and "ready" only when the dependency runs,
which `Status` shows of the answer itself (`RowsWereTrue`); the layout hook adds
some set of panes (`Layouts`) and succeeds or fails; the several `has_children`
calls of one partial-up snapshot are one step, because nothing is done between
them. A KILL empties the pane: that the walk finds what it must is `Reaper`'s
subject. The session of another scope whose name begins with this one's is
assumed not to exist; `Door` has the lookup as tmux does it.

### Reaper

`parent` is the process table; the pids are born in order, a parent is older
than its children, and `Adopter` stands for init. A walk is the recursion of
`_collect` made explicit: `stack` holds its calls, `Ask` is one `pgrep` (in any
order of the children), `Return` appends the process after its descendants.
`Term` and `Kill` are one `kill` each, with ESRCH and EPERM passed over
(`Guarded`: processes of other users). Between any two calls any process forks
or exits, its children going to `Adopter`. `first`, `stayed` and `lineage` are
observations: who was there at the beginning, who descends from a shell
throughout the present walk, and who did at any time of it; `late` is what the
processes of the first list fork before the second walk.

### Status

A `query` is one status command, as document or as table, asking tmux, the
process table and the log files row by row. The scene is a session, the panes of
its layout, and in each pane a child that sources the environment and then
serves, piped into the capture writer or bare (after a `restart`). `saw`
remembers what was true of each service at any moment since the command began,
which is what a row may say. A cmd or url probe may answer anything.

### Door

`Own` and `Ends` are what the code computes from the manifest's session prefix
and from an environment's name; `Begins` is what tmux compares. `Main` is
`main()` with its guards and early returns, from the empty command line and the
unknown word (`NoAction`) to the hand-over to `winter service`; the steps after
it are those of `down --tmux-only`, by name (`DoorHasSession`, `DoorListPanes`,
`DoorKill`) or, without a readable manifest, by the end of the name
(`ListMatches`, `KillEach`). Other sessions come and go.

Every tmux call may fail while the server runs, with what the code makes of it:
a `has-session` that fails reads as "no such session", a `kill-session` with
exit status 1 as "gone already", a listing that fails in the fallback is an
empty list, a kill that fails there is a warning; all these end in exit code 0
with the session alive, and `missed` remembers the sessions concerned. A tmux
that cannot be run and any other failure on the way by name end in exit code 1.
So exit code 0 does not mean that the session is gone, and `DestroyedUnlessFailed`
says what it does mean: the session is gone or a call about it failed.

### Selection

`cmd` is one command given patterns: its arguments, where it is (`pc`), what it
has read (`catalog`, the service names; `queue`, the selected services scope by
scope; `built`, the contexts) and the loop it is in (`ahead`, `todo`). `reaped`,
`typed`, `shown`, `passed` and `unresolved` record what it did. Patterns are
what `fnmatch` makes of them: the set of scopes and the set of services each
segment matches. `Hits`, `Expand` and `Dead` are `expand_env_patterns` and
`expand_workspace_patterns`, as functions of what was read. The rest is the
order of the reads and calls. Between any two of them a session comes up or
goes, and the manifest changes or becomes unreadable. `steady` and `declared`
remember what stayed as it was from the beginning; the promises about what must
be served are made of that. To `Selection` a reap or a line is one step.

### Manifest, LaunchOrder, CycleCheck

An entry of a file is a function from the keys it sets to their values; `Bad`
is a value of the wrong type under any key. `MergeDocuments` is `_merge` with
the aliases resolved in both files first; `Extend` is the extension merge, after
the validator has run in the code's order. `OverlayWins` compares the result with
the files themselves, key by key. In `LaunchOrder` a manifest is a `depends_on`
list per service, each entry a spelling (`bare`, `qualified` with the scope's own
name, `foreign`) and a name; the reference is the dependency relation and the
closed walks along it. `CycleCheck` adds the validator: `Collect` reads the lists
and reports self-references and unknown names, then the depth-first search goes
one step at a time. `search.stack` holds the services whose call of `_dfs` has
not returned, `search.seen` how far each one's loop over its neighbours is;
`Root` is a turn of the outer loop, `Close`, `Enter` and `Pass` a gray, white and
black neighbour, `Leave` a return. Nothing runs beside the search: the steps only
stand for the recursion.

### The log directory

A line is its number and its size in bytes. `text` gives the lines of each file,
0 being the active one. `LogWriter` takes one step per call on the file system;
`StopWriter` is enabled everywhere, so the ladder is left half climbed in every
way, and `StartWriter` begins again with the start-up rotation. `BoundedLog` has
two variables, the last line kept and the set of lines kept, and two actions:
keep a later line, forget lines none of which is later than one that stays.
`LogWriter` implements it with the numbers of all lines on disk as the kept ones.

`LogReader` adds a reader that lists segments one `exists()` at a time, reads
them oldest first, seeds its offset from the active file and polls. The writer
never waits for it. `LogRetention` adds the prune pass: one step for the listing
with its `mtime` calls, one per deletion. A line's number stands for its time,
and the cutoff is any moment before now for a retention window, now for a window
of 0 (`Cutoffs`).

`LogBacklog` takes the files' lines as given and models what is made of them:
gather per environment, merge by timestamp, filter by `--since` and `--until`,
cut to `--tail`. A timestamp is a second and a fraction, compared as the text is.

## Runs

| Run | Question | Bounds |
|---|---|---|
| `life_mixed` | what each command may do to the panes, and what its exit code promises, when any three run at once | 3 invocations of 7 kinds, 2 services, one external dependency, 1 retry, `MaxPolls` 0, two layouts; invocations symmetric |
| `panes` | with fairness: does every command end; is what stays below the shells during a reap's second walk gone in the end; what survives a writer killed anywhere | scope: 2 invocations, `MaxPolls` 1; reap: 2 shells, 4 pids, one of another user; writer: ladders 0, 1, 3, rotation size 3, line sizes 1, 2, 4 (one fits, two do, one is larger than the file), 6 lines |
| `commands` | what commands do beside launching, while others interfere | selection: 2 environments, the workspace, 1 foreign session, 3 services, 3 manifests (one unreadable, one that moves a service to the other kind of scope), 8 commands, `MaxTurns` 2; door: 4 session names of which one begins another, every kind of call, any tmux call failing, `MaxVisits` 2; status: 2 services, 2 sessions, 1 launch each; reap: 2 shells, 5 pids |
| `files` | what is made of the manifest's files and of the log files | order: all lists of at most 2 entries over 3 services, all subsets to launch; manifest: files of at most 2 entries, overlays that rename, move, complete or break them, extensions; logs: ladder 2, rotation size 2, sizes 1 and 2, 5 lines, retention 0 and 7; backlog: 1 or 2 environments, all pairs of moments, tails 1, 2 and all |
| `life_partial` | is a partial up idempotent (no) | 2 ups, whole or partial |
| `log_zero` | does `max_rotations = 0` disable rotation (no) | ladder 0 |
| `prune_race` | does the pass delete only expired lines beside a concurrent up (no) | as in `files`, writer free to start |
| `selection_glob` | do globs leave the workspace alone (no) | 2 commands, nothing else acts |
| `session_prefix` | does `down --tmux-only` tear down only its own session (no) | the hook's call |
| `restart_bare` | is a file-logged service's output always captured (no) | as in `commands` |
| `retention_zero` | does `retention_seconds = 0` disable pruning (no) | as in `files`, retention 0 only |
| `reap_orphans` | does the second walk catch what was forked before its parent's death (no) | the reap of `commands` |

The bounds are where the cases meet. Three invocations are one to hold a stale
decision, one to change the world and one to change it again; two services are
enough for an order, a gate, a loop with a rest and a partial request, and the
first one declared is the second one launched, so that the two orders of the
code differ. A restart names its services in the opposite of the declared order.
With three segments a rotation has a drop, two shifts and a move, and six lines
fill the ladder twice. Five pids below two shells are a child with a grandchild
that is orphaned by the TERM, and a fork after it. Two sessions and one launch
each let a status list one session's panes and look into the next. `MaxPolls`
bounds the polls of one dependency before its deadline, which is a clock in the
code, and a poll that fails changes nothing but the count; `MaxLines` bounds the
service's output; `MaxTurns`, `MaxVisits`, `MaxSessions` and `MaxLaunches` bound
what others do to one command: two take a session away and bring it back.
Deadlock is not checked: commands end, services stop printing.

The eight runs that expect a violation show where the code does something else
than its documentation says; each is listed under `findings` in `PROJECT.json`
with the sentence it contradicts.

**Fairness** (`panes` only). `PanesFairness` assumes of each invocation that has
begun that it keeps taking steps: each step is a call that returns, and the
operating system schedules it. The same of the reap, whose walk is a sequence of
such calls; and that a process sent SIGKILL dies. Nothing is assumed of shells
(a line may stay unread for ever), of services (they may ignore SIGTERM), of
other invocations' beginnings or of the user. `EveryCommandEnds` then rests on
the deadline of the gate and on the bounded loops alone, and `Cleared` on the
second walk finding what ignored the first signal. `Cleared` speaks, like
`NoneOverlooked`, of what still descends from a shell; a process orphaned between
the walks does not, and `reap_orphans` shows that it survives.

## Proofs

Constants are arbitrary: any number of invocations, services, retries, processes
and sessions, any dependency lists, layouts and calls, restricted by the named
assumptions of each module (`ConstantsAssumption`, `LaunchRankAssumption`,
`DoorConstants`, `StatusConstants`, ...). `LaunchRankAssumption`, that the launch
order puts dependencies first, is what `LaunchOrderIsCorrect` proves of
`_topological_order`; `MCLifecycle` checks that its instance is the order
computed by the translated algorithm.

**LifecycleProofs.** `TypeCorrect`: `Spec => []TypeOK`, one lemma per group of
actions. `DependenciesGateLaunch`: `GatedLaunch` speaks of lines already typed
and is not inductive: an up in the gate has seen only the first `dep - 1`
dependencies of the service it is at. `GateInv` adds, per invocation, where it
is: before the loops nothing is typed; in the loop the typed services are those
launched and no longer to do, all of a lower rank than those to do; the first
`dep - 1` dependencies of the next service are seen, and all of them when the
line is about to be typed. Steps of others leave it alone: it speaks of `proc[p]`
only.

**InvocationProofs** has two invariants. `RunInv(proc[p])` is about one
invocation and says for each phase what its record holds: nothing typed or
reaped before it acts (`Early`); in the launch loop exactly what is off the list
was typed, once (`Launching`); in the retry loop the service in hand was typed
`tries` times, those after it once, and what is off the list is up or failed
(`Retrying`); in a restart what is off the list was typed once, and reaped is
that and perhaps the service in hand (`Restarting`). From it follow
`RefusedUntouched`, `UpReapsOnlyItsOwn`, `LinesBounded`, `UpOkIsTrue` and
`RestartRelaunches`. `SessionInv` is about all of them: sessions are numbered and
no two ups made the same one, nothing is left in a session that is gone, an up
that builds or launches is in the session it made as long as only ups (only
whole ones) have begun, and what is then in a pane was typed by that up. Its
proof reduces every step to one of five effects (`Creates`, `Kills`, `Types`,
`Reaps`, `Looks`) and gives `DownRemovesSession`, `OwnTeardown` and `NoStacking`.
With them every safety property of `life_mixed` is proved.

**ReaperProofs.** `AimInv`: all that is on the stack, listed or signalled
descends from a shell in the sense of `lineage`, which is closed under forks
(`OnlyDescendants`). `WalkInv`: what descends from a shell throughout the walk
has an ancestor still to be asked about, or is on the stack or listed already;
when the stack is empty it is listed (`NoneOverlooked`). `GraceInv` relates the
second walk to the signals of the first (`GraceBeforeKill`).

**CommandProofs.** Of the door, `DoorInv`: as long as the command acts, the
wanted session is still among those to be killed, was missed because a call about
it failed, or is not the one that ran at the beginning (`DestroyTakesOrMisses`).
Of a status, `StatusInv`: what is true now is in `saw`; a service
whose pane was not listed, or was listed in a session that is no longer the
present one, was seen stopped; a pane that was listed is there, or a session
went away; the rows so far are those of the first services.

**LogProofs.** Of the writer, `LogInvariant`: while a rotation climbs, the slot
above the one to be moved is empty, slots beyond the cap are empty and lines are
numbered below the one in hand; this holds wherever the writer may die, and is
what a later rotation needs to begin with. `SegmentsStayOrdered`,
`RotationOverwritesNothing` and `WriterKeepsPromise` (the refinement: a write
maps to `Keep`, the removal of the oldest file to `Forget`, everything else to a
stutter) follow. `FilesStayBounded` needs the sizes of lists of lines: the
recursive sum is unfolded by induction over their length (`BytesOfAppend`).
Beside the reader and the prune pass the invariant of the writer has to hold
with files deleted between its calls (`PrunedFilesStayOrdered`), and
`ReaderInv` says what the reader has still before it: each file it will read
later holds nothing as early as what it emitted, whatever was renamed under it
(`EmissionInOrder`); while nothing was renamed or deleted, what lies behind it
is emitted (`QuietInv`) and its offset is the end of a line, so that every line
emitted is whole (`WholeInv`, `QuietReads`). `PrunesSafely` and `PrunesThoroughly`
rest on the listing: what was listed as expired still is, as long as no other up
starts the writer in between (`PrunesThoroughly` with a retention window).
Of the backlog, `NewestIsPrinted`: `SortedSorts`
shows that the places a stable sort gives are a bijection, so that a sort loses
nothing and keeps the order of equal moments; `BacklogInv` says after each step
what the events are (those of the streams read, all of them in time order, those
requested) and that lines of one service and moment stay as logged, which also
makes events distinct, so that they can be counted. Its hypothesis
`PlainQueries` leaves out two kinds of query for which the program does not keep
the promise: bounds of a whole second and tails of zero or less (see `hazards`).

**ManifestProofs.** `LaunchOrderIsCorrect`: `Ordering` says of the loop of Kahn's
algorithm, turn by turn, that queue and result hold no service twice and exactly
those that wait for none outside the result, that degrees count what is still
waited for, and that the services which depend on nothing come first. When the
queue is empty, services left over each wait for another one, so that a walk
among them closes (a pigeonhole argument): without a cycle none is left. The
recursive functions are unfolded with `RecursionUnfolds` of `ListLemmas`.
For the validator, `Searched` holds after every step of the search, of any graph:
the stack is a path through exactly the gray services (`OnPath`), what was looked
at is black or next on the stack (`Behind`), all that a black service depends on
is black and the black ones have no trap (`Finished`). A trap is a set of services
each of which depends on one of the set; a service that leaves the stack makes
none, since all it names are black and no black service names it. At the end
either every service is black, and a closed walk would be a trap, or the list
reported is itself a closed walk (`CycleIsReported`). What is accepted has no
self-reference and, unless a pattern is spelled with a name the validator does
not know, the dependencies searched are those of the launch (`AcceptedIsAcyclic`).
That the search ends is stated without liveness (`SearchTerminates`): it always
has a step to take, and each one moves a service on, within a bound, and none back.
For the manifest, `ManifestInv` says that until the extensions come the manifest
is what `ReadManifest` made of the files, readable ones. The rest is about the
folds, turn by turn. `Placed`: an entry of the committed file is itself or merged
with the one overlay entry of its name so far, the overlay's others follow in
their order. From it comes where each service stands and what each of its keys
is (`Comes`, `Wins`), which `Filtered` keeps (`OverlayPrevails`). `Grown`: what
was read comes first and no two services have one name; a collision with a
service taken is what `Extend` skips, one within what was read is what the
validator reports (`NamesStayUnique`). `FilesAssumption` asks of the files that
they are lists of tables, that `env` is a table, and that a scope is one of the
two or stands for all others as `Bad`; an `env` that is no table is outside the
model (the reader refuses it, unless the overlay replaces it).

**SelectionProofs.** The promises of `Selection` are about what a command has
done when it ends, so the inductive invariant `SelInv` has to say at every step
what makes them come true. Its parts hand over to each other. What `Hits` and
`Expand` return is described once, as sets (`HitSet`, `Groups`), by lemmas that
unfold the recursive functions of `Lists`. `Seeded` and `Cataloged` say that a
pattern which asks for a service of a feature environment has its catalog read
for one, and finds the service there; `Reaching` that from its expansion on, while
the exit code is 0, each pair asked for is served or in a target still to serve;
`Finishing` and `Lines` that nothing is left when the loops end. `OkCoversAll`
follows, and `DeadIsDead` from the first two. `Covering` keeps a target for each
pattern, and `Preflighted` and `Looping` count them against the loop, which gives
`PreflightComesFirst`; `Targets` and `Looping` give `OnlyAskedIsReaped`. `Passing`
says that what the preflight found of a scope whose session stays is still so:
without it `FailureIsLocal` fails at the second look (`PlanBatch`). Steps of others
only narrow what is asked for (`OthersNarrow`). `SelectionAssumption` asks of the
constants that a pattern without a glob names one scope, and that there is a
pattern at all: the parser or `status` turns a command without one away.

`RestartReportsLoss` has an invariant of its own: `NothingLost` says that, while
the exit code is 0, what was reaped is what was typed and the service in hand
between its two calls.

Only model-checked: liveness (`EveryCommandEnds`, `Cleared`), which is out of the
prover's reach. What a shell, tmux or `winter` does is taken as the models state
it.

## Not modelled

* Reading of env files, their evaluation by a shell and by `winter env`, and
  substitution: text in, text out. Their failure is an unresolved line or a
  failed status.
* The `winter` adapter, the layout hook's runner, the clock, tmux's server
  environment, wiring: subprocess wrappers and constructor calls.
* Following a PANE-mode service, colours, JSON lines, the text of launch lines
  and reports, parsing of flags, `describe` and the catalogue's text.
* The validator's checks of single fields other than those that decide names,
  targets and dependencies; the subprocess and time limit of cmd and url probes.
* Reuse of a pid within one reap; a process that is dying from SIGKILL when the
  next line is typed (the call does not wait for it).
* The reader's segments behind a hole in the numbering, and a tail of zero or
  less: both listed under `hazards`, with no document that says what is right.
* Two extension services with one target pane: nothing checks it.

Modelled, but with no property that claims it, are two cases in which the code
does less than its documentation can be read to say. A rotation between two polls
of the follow loop, after which the new file has grown past the old offset, makes
`After` cut a line: `logs --follow` emits it without its head and skips what is
before it, where `read_new_lines` (`internal/local_log_repository.py:108`) speaks
of complete lines. A `--since` or `--until` of a whole second (`Instant`) is
compared as text and lies after every fraction of that second, where
`log_service.py:118` says "(inclusive)". `QuietReadIsComplete` and `NewestPrinted`
are stated for what is left. `AcceptedNeverDeadlocks` leaves out a cycle spelled
with the environment's own name, which the validator cannot know and whose
docstring (`manifest/validator.py:369-377`) says it is not checked.

## Plan

1. Follow of PANE mode, over a screen that scrolls.
2. Environment and port resolution as functions against references.
