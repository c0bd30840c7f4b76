------------------------------ MODULE MCCommands -----------------------------
(***************************************************************************)
(* What commands do beside launching: select (Selection), find their scope *)
(* and end sessions (Door), look (Status), and reap the processes below    *)
(* pane shells (Reaper).  Each is a system of its own; `part` says which   *)
(* of them a behaviour is of, and the others stay as they begin.           *)
(***************************************************************************)
EXTENDS MCSelection, Door, Status, Reaper

CONSTANT Parts

VARIABLE part

commandVars == <<part, vars, doorVars, statusVars, reapVars>>

(* Door: an environment whose name begins another one's, the workspace's   *)
(* sessions and one of another workspace, and what "w-" and no environment *)
(* come to.  Every action, from an environment, from project/ and from     *)
(* outside; and the call of the destroy hook.                              *)
MCNames == {"w-alpha", "w-alpha2", "x-alpha", "w-"}
MCBegins == ("w-alpha" :> {"w-alpha2"}) @@ ("w-" :> {"w-alpha", "w-alpha2"})
            @@ [n \in MCNames |-> {}]
MCOwn == ("alpha2" :> "w-alpha2") @@ ("" :> "w-")
         @@ [e \in {"alpha", "project", "workflow"} |-> "w-alpha"]
MCEnds == ("alpha2" :> {"w-alpha2"}) @@ ("" :> {"w-"})
          @@ [e \in {"alpha", "project", "workflow"} |-> {"w-alpha", "x-alpha"}]

HookCall == [action |-> "down", link |-> "workflow", inside |-> FALSE,
             given |-> TRUE, named |-> "alpha", flag |-> TRUE, patterns |-> FALSE]
HookCalls == {HookCall}
MCCalls == {HookCall} \union {[HookCall EXCEPT !.action = a] : a \in {"", "other"}} \union
    [action : {"up", "down", "status", "restart"}, link : {"alpha", "project"},
     inside : BOOLEAN, given : BOOLEAN, named : {"", "alpha2"},
     flag : BOOLEAN, patterns : BOOLEAN]

(* Status: a service of each log mode, with the probe that reads a log and *)
(* the one that reads the process table.                                   *)
MCLog == <<"file", "pane">>
MCProbe == <<"log", "uptime">>

(* Reaper: two shells and three processes more, one of another user.       *)
MCRoots == <<1, 2>>

SelectionRests ==
    /\ manifest = [readable |-> FALSE, project |-> <<>>, workspace |-> <<>>]
    /\ alive = {} /\ panes = [e \in Scopes |-> {}] /\ turns = 0 /\ steady = {}
    /\ declared = {}
    /\ cmd = [kind |-> "logs", pats |-> <<>>, pc |-> "done", seed |-> Workspace,
              catalog |-> <<>>, queue |-> <<>>, built |-> <<>>, ahead |-> <<>>,
              todo |-> <<>>, rc |-> 1, end |-> "none", reaped |-> {}, typed |-> {},
              shown |-> {}, passed |-> 0, unresolved |-> {}]

DoorRests ==
    /\ running = {} /\ visits = 0 /\ lasting = {}
    /\ door = [pc |-> "main", call |-> HookCall, env |-> "", to |-> <<"", "">>,
               rc |-> 0, blind |-> FALSE, found |-> {}, killed |-> {},
               missed |-> {}]

ReaperRests ==
    /\ parent = [p \in Pids |-> IF p \in Shells THEN Adopter ELSE Gone]
    /\ born = Len(Roots) /\ doomed = {} /\ pc = "walk" /\ pass = 1
    /\ stack = Walks /\ list = <<>> /\ sent = {} /\ termed = {}
    /\ first = {} /\ stayed = {} /\ lineage = {} /\ late = {}

CommandsInit ==
    /\ part \in Parts
    /\ IF part = "selection" THEN Init ELSE SelectionRests
    /\ IF part = "door" THEN DoorInit ELSE DoorRests
    /\ IF part = "reap" THEN ReaperInit ELSE ReaperRests
    /\ StatusInit

CommandsNext ==
    /\ UNCHANGED part
    /\ \/ part = "selection" /\ Next /\ UNCHANGED <<doorVars, statusVars, reapVars>>
       \/ part = "door" /\ DoorNext /\ UNCHANGED <<vars, statusVars, reapVars>>
       \/ part = "status" /\ (SceneStep \/ StatusStep) /\ UNCHANGED <<vars, doorVars, reapVars>>
       \/ part = "reap" /\ ReaperNext /\ UNCHANGED <<vars, doorVars, statusVars>>

CommandsSpec == CommandsInit /\ [][CommandsNext]_commandVars

=============================================================================
