------------------------------- MODULE MCPanes -------------------------------
(***************************************************************************)
(* What goes on in the panes of one scope while its commands run: the      *)
(* invocations (Lifecycle, two of them, under its fairness), one reap of   *)
(* the processes below the pane shells (Reaper) and the capture writer of  *)
(* a service (LogWriter).  Each is a system of its own; `part` says which  *)
(* of them a behaviour is of, and the others stay as they begin, the reap  *)
(* as one that has found nothing.                                          *)
(***************************************************************************)
EXTENDS MCLifecycle, Reaper, LogWriter

VARIABLE part

panesVars == <<part, vars, reapVars, logVars>>

(* Two shells and two processes more, one of another user.                 *)
MCRoots == <<1, 2>>

ScopeRests ==
    /\ alive = FALSE /\ gen = 0 /\ panes = {} /\ running = Idle /\ tty = Blank
    /\ LET down == Job("down", {}, FALSE, {})
       IN  proc = [p \in Procs |->
                     [pc |-> "start", job |-> down, result |-> "none",
                      snap |-> 0, launch |-> {}, todo |-> {}, dep |-> 1,
                      polls |-> 0, tries |-> 0, failed |-> {}, made |-> 0,
                      typed |-> Blank, seen |-> {}, up |-> {}, reaped |-> {}]]

ReapRests ==
    /\ parent = [p \in Pids |-> IF p \in Shells THEN Adopter ELSE Gone]
    /\ born = Len(Roots) /\ doomed = {} /\ pc = "done" /\ pass = 2
    /\ stack = <<>> /\ list = <<>> /\ sent = {} /\ termed = {}
    /\ first = {} /\ stayed = {} /\ lineage = {} /\ late = {}

PanesInit ==
    /\ part \in {"scope", "reap", "writer"}
    /\ IF part = "scope" THEN Init ELSE ScopeRests
    /\ IF part = "reap" THEN ReaperInit ELSE ReapRests
    /\ LogInit
    /\ part # "writer" => writer.max = 1

Scope(A) == part = "scope" /\ A /\ UNCHANGED <<part, reapVars, logVars>>
Reap(A) == part = "reap" /\ A /\ UNCHANGED <<part, vars, logVars>>
Write(A) == part = "writer" /\ A /\ UNCHANGED <<part, vars, reapVars>>

PanesNext == Scope(Next) \/ Reap(ReaperNext) \/ Write(WriterStep)

PanesFairness ==
    /\ \A p \in Procs : WF_panesVars(Scope(proc[p].pc # "start" /\ Step(p)))
    /\ WF_panesVars(Reap(ReaperStep))
    /\ \A p \in Pids : WF_panesVars(Reap(p \in doomed /\ Exit(p)))

PanesSpec == PanesInit /\ [][PanesNext]_panesVars /\ PanesFairness

=============================================================================
