-------------------------------- MODULE Door --------------------------------
(***************************************************************************)
(* The scripts in an environment's root (env_cli.py): `up`, `down`,        *)
(* `status` and `restart` find out which environment they belong to and    *)
(* hand over to `winter service`.  Only `down --tmux-only`, which the hook *)
(* of `winter ws destroy` runs, acts itself: it takes the session of the   *)
(* environment down, by the name the manifest gives it or, if there is no  *)
(* readable manifest, by the end of its name.                              *)
(*                                                                         *)
(* Session names are taken apart only as far as somebody looks at them:    *)
(* tmux compares how they begin, the door how they end.                    *)
(*                                                                         *)
(* Any tmux call may fail, although the server and its sessions are there: *)
(* tmux is not found, its socket cannot be reached.  What the code makes   *)
(* of that is its own choice at each call.                                 *)
(***************************************************************************)
EXTENDS Integers, Sequences, FiniteSets

CONSTANTS
    Names,     \* the sessions that may run on the server, of any workspace
    Begins,    \* name -> the other names that begin with it
    Own,       \* environment, or what is taken for one -> its session's name
    Ends,      \* environment -> the names that end in "-<environment>"
    Calls,     \* how the door may be called
    MaxVisits  \* BOUND: sessions that come or go while it runs

(* An environment is a string; "" is none.  link: what the directory that  *)
(* the script was called in is named; inside: it lies in the workspace     *)
(* that WINTER_WORKSPACE_DIR names; given: that variable is set.  named is *)
(* the positional name or "".  flag is --tmux-only, --attach or --all.     *)
(* action "" is the empty command line, "other" a word that is no action.  *)
Environments == DOMAIN Own
Actions == {"up", "down", "status", "restart"}
Call == [action : Actions \union {"", "other"}, link : Environments, inside : BOOLEAN,
         given : BOOLEAN, named : Environments, flag : BOOLEAN, patterns : BOOLEAN]

ASSUME DoorConstants ==
    /\ Begins \in [Names -> SUBSET Names]
    /\ \A n \in Names : n \notin Begins[n]
    /\ \A e \in Environments : Own[e] \in Ends[e] /\ Ends[e] \subseteq Names
    /\ Calls \subseteq Call
    /\ "" \in Environments
    /\ MaxVisits \in Nat

VARIABLES
    running,  \* the sessions of the tmux server
    visits,   \* how many came or went
    lasting,  \* those that ran, the same session each, since the door began
    door      \* the door

doorVars == <<running, visits, lasting, door>>

(* to is the `winter service` action handed over, with its environment;    *)
(* found is what is left of the sessions to kill; killed those it killed;  *)
(* missed those it left alone because a tmux call failed, and went on.     *)
DoorType ==
    [ pc : {"main", "build", "has", "panes", "kill", "list", "each", "attach", "done"},
      call : Call, env : Environments,
      to : (Actions \union {""}) \X Environments, rc : {0, 1, 2},
      blind : BOOLEAN, found : SUBSET Names, killed : SUBSET Names,
      missed : SUBSET Names ]

DoorTypeOK ==
    /\ running \subseteq Names
    /\ lasting \subseteq running
    /\ visits \in 0..MaxVisits
    /\ door \in DoorType

DoorInit ==
    /\ running \in SUBSET Names
    /\ visits = 0
    /\ lasting = running
    /\ \E c \in Calls :
          door = [pc |-> "main", call |-> c, env |-> "", to |-> <<"", "">>, rc |-> 0,
                  blind |-> FALSE, found |-> {}, killed |-> {}, missed |-> {}]

Stands(label) == door.pc = label
ExitWith(rc) == door' = [door EXCEPT !.pc = "done", !.rc = rc]
Apart == <<running, visits, lasting>>

-----------------------------------------------------------------------------
(* tmux's reading of `-t name`: the session of that name, or else the only *)
(* one whose name begins so.                                               *)
Resolved(n) ==
    IF n \in running THEN {n}
    ELSE IF Cardinality(Begins[n] \intersect running) = 1
         THEN Begins[n] \intersect running ELSE {}

(* kill-session that succeeds; that there is no such session is no error.  *)
KillNamed(n) ==
    /\ running' = running \ Resolved(n)
    /\ lasting' = lasting \ Resolved(n)
    /\ UNCHANGED visits

(* _locate_workspace_and_env: the name of the script's directory, unless   *)
(* the workspace is given and is not the directory's parent.               *)
Located(c) == IF c.given /\ ~c.inside THEN "" ELSE c.link

(* A name on the command line goes before the one of the directory.        *)
Meant(c) == IF c.named # "" /\ c.action \in {"up", "down"} THEN c.named ELSE Located(c)

(* main: the guards, then the action's handler.                            *)
Refused(c) ==
    \/ Located(c) = "project"
    \/ Located(c) = "" /\ ~c.given

(* `status --all` takes no pattern, `restart` a pattern and no flag.       *)
Usage(c) == IF c.action = "status" /\ c.flag /\ c.patterns THEN 2
            ELSE IF c.action = "restart" /\ (c.flag \/ ~c.patterns) THEN 1 ELSE 0

NoAction(c) == c.action \notin Actions /\ ExitWith(2)

TurnAway(c) == Refused(c) /\ ExitWith(1)

MisUse(c) == ~Refused(c) /\ Usage(c) # 0 /\ ExitWith(Usage(c))

(* `winter service`, whose exit code is the door's.                        *)
HandOver(c) ==
    /\ ~Refused(c) /\ Usage(c) = 0 /\ ~(c.action = "down" /\ c.flag)
    /\ \E rc \in {0, 1} :
          door' = [door EXCEPT
                     !.to = <<c.action, IF c.action = "status" /\ c.flag THEN "" ELSE Meant(c)>>,
                     !.rc = rc,
                     !.pc = IF c.action = "up" /\ c.flag /\ rc = 0 THEN "attach" ELSE "done"]

TmuxOnly(c) ==
    /\ ~Refused(c) /\ c.action = "down" /\ c.flag
    /\ door' = [door EXCEPT !.pc = "build", !.env = Meant(c)]

Main ==
    /\ Stands("main")
    /\ \/ NoAction(door.call)
       \/ /\ door.call.action \in Actions
          /\ \/ TurnAway(door.call) \/ MisUse(door.call)
             \/ HandOver(door.call) \/ TmuxOnly(door.call)
    /\ UNCHANGED Apart

(* The door becomes `tmux attach-session`, or there is no prefix.          *)
Attach == Stands("attach") /\ (ExitWith(0) \/ ExitWith(1)) /\ UNCHANGED Apart

(* _handle_down: the context, whose manifest or prefix may not be there.   *)
Build ==
    /\ Stands("build")
    /\ \/ door' = [door EXCEPT !.pc = "has"]
       \/ door' = [door EXCEPT !.pc = "list", !.blind = TRUE]
    /\ UNCHANGED Apart

(* OrchestratorService.down of the whole scope.  A has-session that fails  *)
(* reads as "no such session"; a tmux that cannot be run, a list-panes and *)
(* a reap that fail end the command.                                       *)
PassOver(names) == door' = [door EXCEPT !.pc = "done", !.missed = names]

DoorHasSession ==
    /\ Stands("has")
    /\ \/ Resolved(Own[door.env]) = {} /\ ExitWith(0)
       \/ Resolved(Own[door.env]) # {} /\ door' = [door EXCEPT !.pc = "panes"]
       \/ PassOver({Own[door.env]})
       \/ ExitWith(1)
    /\ UNCHANGED Apart

DoorListPanes ==
    /\ Stands("panes")
    /\ \/ Resolved(Own[door.env]) # {} /\ door' = [door EXCEPT !.pc = "kill"]
       \/ ExitWith(1)
    /\ UNCHANGED Apart

(* Exit status 1 of kill-session counts as "no such session", and a higher *)
(* one is an error.                                                        *)
DoorKill ==
    /\ Stands("kill")
    /\ \/ /\ door' = [door EXCEPT !.pc = "done", !.killed = Resolved(Own[door.env])]
          /\ KillNamed(Own[door.env])
       \/ PassOver({Own[door.env]}) /\ UNCHANGED Apart
       \/ ExitWith(1) /\ UNCHANGED Apart

(* _down_suffix_fallback.                                                  *)
Suffixed == Ends[door.env] \intersect running

(* Mutation of ListMatches: the first match is taken for the only one.     *)
ListFirstMatch ==
    /\ Stands("list")
    /\ \E S \in SUBSET Suffixed :
          /\ S = {} <=> Suffixed = {}
          /\ Cardinality(S) <= 1
          /\ door' = [door EXCEPT !.pc = "each", !.found = S]
    /\ UNCHANGED Apart

(* A list-sessions that fails, in whatever way, is an empty list.          *)
ListMatches ==
    /\ Stands("list")
    /\ \/ door' = [door EXCEPT !.pc = "each", !.found = Suffixed]
       \/ door' = [door EXCEPT !.pc = "each", !.missed = Suffixed]
    /\ UNCHANGED Apart

(* A kill that fails is at most a warning, and the loop goes on.           *)
KillEach ==
    /\ Stands("each")
    /\ \E n \in door.found :
          \/ /\ door' = [door EXCEPT !.found = @ \ {n}, !.killed = @ \union Resolved(n)]
             /\ KillNamed(n)
          \/ /\ door' = [door EXCEPT !.found = @ \ {n}, !.missed = @ \union {n}]
             /\ UNCHANGED Apart

EachDone == Stands("each") /\ door.found = {} /\ ExitWith(0) /\ UNCHANGED Apart

(* Other commands, here and in other workspaces.                           *)
Visit ==
    /\ visits < MaxVisits /\ ~Stands("done")
    /\ visits' = visits + 1
    /\ \E n \in Names :
          \/ n \in running /\ running' = running \ {n} /\ lasting' = lasting \ {n}
          \/ n \notin running /\ running' = running \union {n} /\ UNCHANGED lasting
    /\ UNCHANGED door

DoorNext ==
    \/ Main \/ Attach \/ Build \/ DoorHasSession \/ DoorListPanes \/ DoorKill
    \/ ListMatches \/ KillEach \/ EachDone \/ Visit

DoorSpec == DoorInit /\ [][DoorNext]_doorVars

-----------------------------------------------------------------------------
TmuxOnlyCall == door.call.action = "down" /\ door.call.flag

(* `down --tmux-only` exits with 0 so that `winter ws destroy` never       *)
(* wedges, also over tmux calls that failed: 0 does not mean that the      *)
(* session is gone.  What it does mean: the environment's session that ran *)
(* all along is gone, by whichever of the two ways and whatever sessions   *)
(* of other environments have names that begin or end alike, or one of the *)
(* calls about this very session failed.  And without a manifest, with     *)
(* nobody else about, only sessions that end in the environment's name go. *)
DestroyedUnlessFailed ==
    /\ Stands("done") /\ TmuxOnlyCall /\ door.rc = 0 /\ Own[door.env] \in lasting
          => Own[door.env] \in door.missed
    /\ door.blind /\ visits = 0 => door.killed \subseteq Ends[door.env]

(* "it must tear down *only* this extension's tmux session": with the      *)
(* manifest at hand no other session dies.                                 *)
DownSparesOthers ==
    ~door.blind => \A n \in door.killed : n = Own[door.env]

=============================================================================
