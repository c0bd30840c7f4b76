------------------------------- MODULE MCFiles -------------------------------
(***************************************************************************)
(* What is made of files: the services of the manifest's files (Manifest), *)
(* their launch order (CycleCheck), and the log files, read and pruned     *)
(* while they are written (LogRetention) or merged into one backlog        *)
(* (LogBacklog).                                                           *)
(* Each is a system of its own; `part` says which of them a behaviour is   *)
(* of, and the others stay as they begin.                                  *)
(***************************************************************************)
EXTENDS MCLaunchOrder, Manifest, LogRetention, LogBacklog

CONSTANT Parts

VARIABLE part

fileVars == <<part, vars, manifestVars, retentionVars, backlogVars>>

(* Two services of the files, an entry without a name, overlays that       *)
(* rename, move, complete or break them, and what extensions add.          *)
Entry(name, target, more) == [name |-> name, target |-> target] @@ more
MCSettings == {<<>>, [prefix |-> "w"], [prefix |-> "x", rotate |-> "10"]}
MCCommitted ==
    LET a == {Entry("a", "0.0", [cmd |-> "run", env |-> [K |-> "1", L |-> "1"]]),
              Entry("a", "0.0", [command |-> "run", scope |-> "workspace"]),
              [name |-> "a", cmd |-> "run"]}
        b == {Entry("b", t, m) : t \in {"0.0", "0.1", Negative},
                                 m \in {<<>>, [cmd |-> "serve", command |-> "old"]}}
    IN  {[settings |-> s, service |-> l] : s \in {<<>>, [prefix |-> "w"]}, l \in
            {<<x>> : x \in a} \union {<<x, y>> : x \in a, y \in b}
            \union {<<y, x>> : x \in a, y \in b}
            \union {<<x, x>> : x \in a}}
MCOverlays ==
    LET one == {<<>>, << [name |-> "a", command |-> "debug"] >>,
                << [name |-> "a", env |-> [L |-> "2", M |-> "2"], target |-> "1.0"] >>,
                << [name |-> "b", scope |-> "workspace", cmd |-> "debug"] >>,
                << [name |-> "b", cmd |-> Bad] >>, << [name |-> "b", env |-> [K |-> Bad]] >>,
                << [target |-> "0.0"] >>,
                << Entry("c", "0.0", [command |-> "x"]), [name |-> "a", target |-> "0.1"] >>,
                << Entry("c", "0.1", [scope |-> "workspace"]), Entry("c", "1.1", <<>>) >>,
                << Entry("c", "1.1", [scope |-> Bad]) >>}
    IN  {[settings |-> s, service |-> l] : s \in {<<>>, [prefix |-> "x", rotate |-> "10"],
                                                  [rotate |-> Bad]}, l \in one}
MCExtensions ==
    {<<>>, << Entry("a", "2.0", <<>>), Entry("e", "2.0", [scope |-> "workspace"]) >>,
     << Entry("e", "0.0", [command |-> "x"]), Entry("e", "2.0", [scope |-> "workspace"]) >>,
     << Entry("e", "", <<>>), Entry("f", "0.0", [scope |-> "project"]) >>}

(* Logs: one service or two, in one or two environments, that log in the   *)
(* same second or the next, with a line that has no tab and a blank one.   *)
File(lines) == [mode |-> "file", lines |-> lines]
Pane(n) == [mode |-> "pane", lines |-> [i \in 1..n |-> IF i = 2 THEN Blank ELSE Untimed]]
MCMoments == {<<0, 5>>, <<1, 0>>, <<1, 5>>}
MCFileLines ==
    {<<>>, << <<0, 5>>, Untimed, <<1, 5>> >>, << <<1, 0>>, Blank, <<1, 0>> >>}
    \union {<<a, b>> : a, b \in MCMoments}
MCStreams ==
    LET alone == {<<File(l)>> : l \in MCFileLines}
        pairs == {<<File(l), s>> : l \in MCFileLines,
                     s \in {Pane(3), File(<< <<1, 0>>, <<1, 5>> >>), [mode |-> "memory", lines |-> <<>>]}}
    IN  {<<p>> : p \in pairs} \union {<<x, y>> : x \in pairs, y \in alone}
Query(wanted, tail, since, until) ==
    [wanted |-> wanted, tail |-> tail, since |-> since, until |-> until]
MCQueries ==
    {Query(w, t, s, u) : w \in {{}, {2}}, t \in {1, 2, All},
                         s \in {NoBound, <<1, 0>>}, u \in {NoBound, <<1, 0>>, <<1, 4>>}}

-----------------------------------------------------------------------------
OrderRests ==
    /\ deps = [s \in Services |-> <<>>] /\ subset = {} /\ scopeKnown = TRUE
    /\ order = <<>> /\ phase = "read" /\ verdict = Unread /\ checking = "unread"
    /\ search = White

ManifestRests ==
    /\ sources = [committed |-> [settings |-> <<>>, service |-> <<>>],
                  overlay |-> [settings |-> <<>>, service |-> <<>>], extension |-> <<>>]
    /\ manifest = [settings |-> <<>>, services |-> <<>>, workspace |-> <<>>]
    /\ report = {} /\ step = "unread"

BacklogRests ==
    /\ asked = [streams |-> << << File(<<>>) >> >>, query |-> Query({}, All, NoBound, NoBound)]
    /\ at = 1 /\ events = <<>> /\ stage = "gather"

FilesInit ==
    /\ part \in Parts
    /\ IF part = "order" THEN Init ELSE OrderRests
    /\ IF part = "manifest" THEN ManifestInit ELSE ManifestRests
    /\ IF part = "backlog" THEN BacklogInit ELSE BacklogRests
    /\ RetentionInit

FilesNext ==
    /\ UNCHANGED part
    /\ \/ part = "order" /\ Next /\ UNCHANGED <<manifestVars, retentionVars, backlogVars>>
       \/ part = "manifest" /\ ManifestNext /\ UNCHANGED <<vars, retentionVars, backlogVars>>
       \/ part = "backlog" /\ BacklogNext /\ UNCHANGED <<vars, manifestVars, retentionVars>>
       \/ part = "logs" /\ RetentionNext /\ UNCHANGED <<vars, manifestVars, backlogVars>>

FilesSpec == FilesInit /\ [][FilesNext]_fileVars

=============================================================================
