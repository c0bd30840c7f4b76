------------------------------ MODULE LogBacklog ------------------------------
(***************************************************************************)
(* What `logs` prints before it follows: every stream's services are read, *)
(* merged by timestamp, filtered by --since and --until and cut to the     *)
(* last --tail events (logs, and follow_streams for several environments). *)
(* A service is [mode, lines]; a line is its timestamp, Untimed when it    *)
(* has no tab, or Blank.  Timestamps are compared as text.                 *)
(***************************************************************************)
EXTENDS Lists, FiniteSets, Functions

CONSTANTS
    Streams,  \* the inputs: sequences of environments, each one of services
    Queries,  \* [wanted, tail, since, until]; wanted {} names every service
    All       \* the tail that keeps everything

Untimed == <<>>
Blank == <<"blank">>
NoBound == <<>>
(* A timestamp is <<second, microseconds>>; a bound may be a whole second, *)
(* "...:00Z", which as text follows "...:00.999999Z" ("Z" follows ".").    *)
Whole == 1000000

Moment == Nat \X (0..(Whole - 1))
Service == [mode : {"file", "pane", "memory"}, lines : Seq(Moment \union {Untimed, Blank})]

ASSUME BacklogAssumption ==
    /\ Streams \subseteq Seq(Seq(Service))
    /\ \A query \in Queries :
          /\ query.tail \in Int \union {All}
          /\ {query.since, query.until} \subseteq (Nat \X (0..Whole)) \union {NoBound}

Precedes(a, b) ==
    /\ b # Untimed
    /\ \/ a = Untimed
       \/ a[1] < b[1]
       \/ a[1] = b[1] /\ a[2] < b[2]

VARIABLES
    asked,   \* the streams and the query
    at,      \* the stream read next
    events,  \* the events gathered so far: [ts, env, svc, no]
    stage    \* what has been done to them

backlogVars == <<asked, at, events, stage>>

BacklogInit ==
    /\ asked \in [streams : Streams, query : Queries]
    /\ at = 1
    /\ events = <<>>
    /\ stage = "gather"

-----------------------------------------------------------------------------
(* apply_tail, and the cut of a pane's lines: Python's list[-n:].          *)
LastOf(list, n) ==
    CASE n = All -> list
      [] n # All /\ n > 0 -> SubSeq(list, IF Len(list) > n THEN Len(list) - n + 1 ELSE 1, Len(list))
      [] OTHER -> SubSeq(list, 1 - n, Len(list))

(* The lines of one service, by position: a FILE's segments, the pane's    *)
(* screen cut to the tail, nothing of a MEMORY one.  Blanks are dropped.   *)
ServiceLines(service, tail) ==
    LET all == [i \in 1..Len(service.lines) |-> i]
        shown == Filtered(all, {i \in 1..Len(service.lines) : service.lines[i] # Blank})
    IN  CASE service.mode = "file" -> shown
          [] service.mode = "pane" -> LastOf(shown, tail)
          [] OTHER -> <<>>

Stamp(service, i) == IF service.mode = "file" THEN service.lines[i] ELSE Untimed

InScope(query, s) == query.wanted = {} \/ s \in query.wanted

(* _gather_backlog: build_event for every line of the services in scope.   *)
Gathered(e) ==
    LET services == asked.streams[e]
        Of(s) == IF InScope(asked.query, s)
                 THEN LET lines == ServiceLines(services[s], asked.query.tail)
                      IN  [i \in 1..Len(lines) |->
                             [ts |-> Stamp(services[s], lines[i]), env |-> e, svc |-> s,
                              no |-> lines[i]]]
                 ELSE <<>>
    IN  Joined([s \in 1..Len(services) |-> Of(s)])

(* merge_sorted and list.sort(key=ts): stable, the untimed ones first.     *)
Sorted(list) ==
    LET Place(i) == Cardinality({j \in 1..Len(list) :
                        \/ Precedes(list[j].ts, list[i].ts)
                        \/ list[j].ts = list[i].ts /\ j <= i})
    IN  [p \in 1..Len(list) |-> list[CHOOSE i \in 1..Len(list) : Place(i) = p]]

(* apply_time_filter: an event without a timestamp is always kept.         *)
TimeFiltered(list, query) ==
    LET Kept(event) ==
            \/ event.ts = Untimed
            \/ /\ query.since = NoBound \/ ~Precedes(event.ts, query.since)
               /\ query.until = NoBound \/ ~Precedes(query.until, event.ts)
    IN  Filtered(list, {event \in Range(list) : Kept(event)})

-----------------------------------------------------------------------------
(* One environment's events, merged, join those of the streams before it.  *)
GatherStream ==
    /\ stage = "gather" /\ at <= Len(asked.streams)
    /\ events' = events \o Sorted(Gathered(at))
    /\ at' = at + 1
    /\ UNCHANGED <<asked, stage>>

MergeStreams ==
    /\ stage = "gather" /\ at > Len(asked.streams)
    /\ events' = Sorted(events)
    /\ stage' = "filter"
    /\ UNCHANGED <<asked, at>>

(* Mutation of FilterByTime: the tail is taken of what is not filtered yet.*)
FilterAfterTail ==
    /\ stage = "filter"
    /\ events' = TimeFiltered(LastOf(events, asked.query.tail), asked.query)
    /\ stage' = "cut"
    /\ UNCHANGED <<asked, at>>

FilterByTime ==
    /\ stage = "filter"
    /\ events' = TimeFiltered(events, asked.query)
    /\ stage' = "cut"
    /\ UNCHANGED <<asked, at>>

CutToTail ==
    /\ stage = "cut"
    /\ events' = LastOf(events, asked.query.tail)
    /\ stage' = "printed"
    /\ UNCHANGED <<asked, at>>

BacklogNext == GatherStream \/ MergeStreams \/ FilterByTime \/ CutToTail

BacklogSpec == BacklogInit /\ [][BacklogNext]_backlogVars

-----------------------------------------------------------------------------
(* The moments the texts stand for: a whole second has no fraction.        *)
Instant(t) == IF t[2] = Whole THEN <<t[1], 0>> ELSE t

Within(t, query) ==
    \/ t = Untimed
    \/ /\ query.since = NoBound \/ ~Precedes(Instant(t), Instant(query.since))
       /\ query.until = NoBound \/ ~Precedes(Instant(query.until), Instant(t))

Requested ==
    UNION {{event \in Range(Gathered(e)) : Within(event.ts, asked.query)} :
              e \in 1..Len(asked.streams)}

(* What is printed is the newest end of everything requested: each event   *)
(* at most once, in time order, as many as --tail asks for or as there     *)
(* are, none left out that is later than one printed, and lines of one     *)
(* service with equal timestamps in the order they were logged.  It is     *)
(* claimed where the comparison as text is one of time, that is for bounds *)
(* with a fraction: a bound of a whole second, as text, lies after every   *)
(* fraction of that second.                                                *)
NewestPrinted ==
    stage = "printed" =>
        LET printed == Range(events)
            n == Len(events)
            available == Cardinality(Requested)
            tail == asked.query.tail
        IN  /\ printed \subseteq Requested /\ Cardinality(printed) = n
            /\ n = IF tail = All THEN available ELSE IF tail < available THEN tail ELSE available
            /\ \A i, j \in 1..n : i < j =>
                  /\ ~Precedes(events[j].ts, events[i].ts)
                  /\ (events[i].ts = events[j].ts /\ events[i].env = events[j].env
                        /\ events[i].svc = events[j].svc) => events[i].no < events[j].no
            /\ \A left \in Requested \ printed, event \in printed :
                  ~Precedes(event.ts, left.ts)

=============================================================================
