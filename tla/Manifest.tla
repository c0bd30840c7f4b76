------------------------------- MODULE Manifest -------------------------------
(***************************************************************************)
(* From the manifest files to the services `up` sees: config.toml, the     *)
(* config.local.toml overlay merged over it, and the extensions' services  *)
(* appended.  A file's [[service]] entry is a function from the keys it    *)
(* sets to their values; Bad stands for a value of the wrong type or not   *)
(* among those allowed, under any key.  The validator runs on its own.     *)
(***************************************************************************)
EXTENDS Lists, FiniteSets, SequencesExt

CONSTANTS
    Committed,  \* config.toml: [settings, service]; the overlay likewise
    Overlays,
    Extensions  \* WINTER_SERVICE_MANIFEST: sequences of entries

Bad == "bad"
Negative == "-1.0"   \* a target the reader takes and the validator refuses

(* Files are lists of tables.  A scope that is not allowed is Bad.         *)
ASSUME FilesAssumption ==
    /\ \A doc \in Committed \union Overlays :
          /\ doc.service \in Seq(Range(doc.service))
          /\ \A entry \in Range(doc.service) :
                /\ "scope" \in DOMAIN entry => entry["scope"] \in {"project", "workspace", Bad}
                /\ "env" \in DOMAIN entry =>
                      entry["env"] \in [DOMAIN entry["env"] -> Range(entry["env"])]
    /\ \A list \in Extensions : list \in Seq(Range(list))

VARIABLES
    sources,   \* [committed, overlay, extension]
    manifest,  \* the settings and the two scopes' services, once read
    report,    \* the kinds of violation the validator reported
    step       \* how far the manifest has come

manifestVars == <<sources, manifest, report, step>>

ManifestInit ==
    /\ sources \in [committed : Committed, overlay : Overlays, extension : Extensions]
    /\ manifest = [settings |-> <<>>, services |-> <<>>, workspace |-> <<>>]
    /\ report = {}
    /\ step = "unread"

-----------------------------------------------------------------------------
(* The keys of both tables; where both have one, the value is new's.       *)
Over(new, old) ==
    [key \in DOMAIN new \union DOMAIN old |-> IF key \in DOMAIN new THEN new[key] ELSE old[key]]

(* _normalize_cmd_key: `command` becomes `cmd`, unless there is one.       *)
Normalized(entry) ==
    IF "command" \in DOMAIN entry
    THEN Over(Restrict(entry, DOMAIN entry \ {"command"}), [cmd |-> entry["command"]])
    ELSE entry

Each(Op(_), list) == [i \in 1..Len(list) |-> Op(list[i])]

(* The overlay's keys win; the env tables are merged key by key.           *)
MergeEntry(old, new) ==
    IF "env" \in DOMAIN old \cap DOMAIN new
    THEN Over([env |-> Over(new["env"], old["env"])], Over(new, old))
    ELSE Over(new, old)

(* One turn of _merge_keyed: override the last entry of that name in place,*)
(* or append.                                                              *)
MergeOne(list, entry) ==
    LET same == {i \in 1..Len(list) : /\ "name" \in DOMAIN entry \cap DOMAIN list[i]
                                      /\ list[i]["name"] = entry["name"]}
    IN  IF same = {}
        THEN Append(list, entry)
        ELSE [list EXCEPT ![Max(same)] = MergeEntry(@, entry)]

MergeKeyed(list, entries) == Folded(MergeOne, list, entries)

(* Mutation of MergeDocuments: the aliases are only resolved afterwards.   *)
MergeDocumentsRaw(doc, local) ==
    [settings |-> Over(local.settings, doc.settings),
     service |-> MergeKeyed(doc.service, local.service)]

(* _merge: the overlay's scalars and [logs] keys win; `command` is renamed *)
(* in both files before their entries meet.                                *)
MergeDocuments(doc, local) ==
    [settings |-> Over(local.settings, doc.settings),
     service |-> MergeKeyed(Each(Normalized, doc.service), Each(Normalized, local.service))]

-----------------------------------------------------------------------------
(* _parse_services: what makes an entry unreadable.                        *)
Malformed(entry) ==
    \/ ~({"name", "target"} \subseteq DOMAIN entry)
    \/ entry["name"] = ""
    \/ \E key \in DOMAIN entry \ {"env"} : entry[key] = Bad
    \/ "env" \in DOMAIN entry /\ Bad \in Range(entry["env"])

Unreadable(doc) ==
    \/ Bad \in Range(doc.settings)
    \/ \E i \in 1..Len(doc.service) : Malformed(doc.service[i])

(* The Service of an entry: the fields left out have their defaults.       *)
ServiceOf(entry) ==
    Over(entry, [cmd |-> "", scope |-> "project", env |-> <<>>])

(* _build: the services of each scope, in the order of the merged list.    *)
Built(doc) ==
    LET services == Each(ServiceOf, Each(Normalized, doc.service))
        Of(scope) == Filtered(services, {s \in Range(services) : s.scope = scope})
    IN  [settings |-> doc.settings, services |-> Of("project"), workspace |-> Of("workspace")]

(* read: both files are parsed and merged, or it raises ManifestError.     *)
ReadManifest ==
    /\ step = "unread"
    /\ LET doc == MergeDocuments(sources.committed, sources.overlay)
           canonical == [doc EXCEPT !.service = Each(Normalized, @)]
       IN  IF Unreadable(canonical)
           THEN step' = "refused" /\ UNCHANGED manifest
           ELSE step' = "read" /\ manifest' = Built(doc)
    /\ UNCHANGED <<sources, report>>

-----------------------------------------------------------------------------
Names(list) == {list[i].name : i \in 1..Len(list)}

Twice(list, Key(_)) ==
    \E i, j \in 1..Len(list) : i < j /\ Key(list[i]) = Key(list[j])

(* _check_service_names: one namespace for both scopes.                    *)
DuplicateName == Twice(manifest.services \o manifest.workspace, LAMBDA s : s.name)

(* _check_duplicate_targets: each scope is a session of its own.           *)
DuplicateTarget ==
    \/ Twice(manifest.services, LAMBDA s : s.target)
    \/ Twice(manifest.workspace, LAMBDA s : s.target)

NegativeTarget ==
    \E i \in 1..Len(manifest.services \o manifest.workspace) :
        (manifest.services \o manifest.workspace)[i].target = Negative

(* `validate`: the checks on what is modelled of a service.  It reports;   *)
(* nothing that launches services asks it.                                 *)
CheckManifest ==
    /\ step = "read"
    /\ report' = {kind \in {"name", "target", "negative"} :
                      CASE kind = "name" -> DuplicateName
                        [] kind = "target" -> DuplicateTarget
                        [] kind = "negative" -> NegativeTarget}
    /\ step' = "validated"
    /\ UNCHANGED <<sources, manifest>>

-----------------------------------------------------------------------------
(* An extension entry the tmux provider can run.                           *)
Runnable(entry) ==
    /\ {"name", "target"} \subseteq DOMAIN entry
    /\ {entry["name"], entry["target"]} \cap {"", Bad} = {}
    /\ "scope" \in DOMAIN entry => entry["scope"] \in {"feature-environment", "workspace"}
    /\ "cmd" \in DOMAIN entry => entry["cmd"] # Bad

(* Mutation of Extend: names taken from extensions are not remembered.     *)
ExtendForgetting(taken, raw) ==
    LET entry == Normalized(raw)
        service == Over([env |-> <<>>], ServiceOf(entry))
    IN  CASE ~Runnable(entry) -> taken
          [] Runnable(entry) /\ entry["name"] \in Names(manifest.services \o manifest.workspace) -> taken
          [] OTHER -> IF service.scope = "workspace"
                      THEN [taken EXCEPT !.workspace = Append(@, service)]
                      ELSE [taken EXCEPT !.services =
                              Append(@, Over([scope |-> "project"], service))]

(* One turn of read_and_merge: entries that collide with a service read or *)
(* taken before are skipped.  They bring no environment.                   *)
Extend(taken, raw) ==
    LET entry == Normalized(raw)
        service == Over([env |-> <<>>], ServiceOf(entry))
    IN  CASE ~Runnable(entry) -> taken
          [] Runnable(entry) /\ entry["name"] \in Names(taken.services \o taken.workspace) -> taken
          [] OTHER -> IF service.scope = "workspace"
                      THEN [taken EXCEPT !.workspace = Append(@, service)]
                      ELSE [taken EXCEPT !.services =
                              Append(@, Over([scope |-> "project"], service))]

WithExtensions(read, list) == Folded(Extend, read, list)

(* read_and_merge, run whenever a session context is built.                *)
AddExtensions ==
    /\ step \in {"read", "validated"}
    /\ manifest' = WithExtensions(manifest, sources.extension)
    /\ step' = IF step = "read" THEN "extended" ELSE "checked"
    /\ UNCHANGED <<sources, report>>

ManifestNext == ReadManifest \/ CheckManifest \/ AddExtensions

ManifestSpec == ManifestInit /\ [][ManifestNext]_manifestVars

-----------------------------------------------------------------------------
(* Reference definition of the overlay, for files that name each service   *)
(* once: where a service stands and, key by key, which file has the word.  *)
Written(list, name) ==
    LET at == {i \in 1..Len(list) : "name" \in DOMAIN list[i] /\ list[i]["name"] = name}
    IN  IF at = {} THEN <<>> ELSE list[CHOOSE i \in at : TRUE]

Command(entry) ==
    CASE "cmd" \in DOMAIN entry -> {entry["cmd"]}
      [] "cmd" \notin DOMAIN entry /\ "command" \in DOMAIN entry -> {entry["command"]}
      [] OTHER -> {}

NamedOnce(list) ==
    /\ \A i \in 1..Len(list) : "name" \in DOMAIN list[i]
    /\ ~Twice(list, LAMBDA e : e["name"])

Position(name) ==
    LET both == sources.committed.service \o sources.overlay.service
    IN  CHOOSE i \in 1..Len(both) :
            both[i]["name"] = name /\ \A j \in 1..(i - 1) : both[j]["name"] # name

(* The overlay wins key by key, in a service's env too, whichever spelling *)
(* of `cmd` either file uses, and a service it overrides keeps its place;  *)
(* services only it names follow, as it lists them.                        *)
OverlayWins ==
    (step = "read" /\ NamedOnce(sources.committed.service) /\ NamedOnce(sources.overlay.service)) =>
        LET Ours(s) == Written(sources.committed.service, s.name)
            Theirs(s) == Written(sources.overlay.service, s.name)
            Prevails(s, key) ==
                IF key \in DOMAIN Theirs(s) THEN s[key] = Theirs(s)[key]
                ELSE key \in DOMAIN Ours(s) => s[key] = Ours(s)[key]
            Env(entry) == IF "env" \in DOMAIN entry THEN entry["env"] ELSE <<>>
            InOrder(list) == \A i, j \in 1..Len(list) :
                                i < j => Position(list[i].name) < Position(list[j].name)
            every == manifest.services \o manifest.workspace
            both == sources.committed.service \o sources.overlay.service
        IN  /\ InOrder(manifest.services) /\ InOrder(manifest.workspace)
            /\ Names(every) = {both[i]["name"] : i \in 1..Len(both)}
            /\ \A s \in Range(every) :
                  /\ Prevails(s, "target") /\ Prevails(s, "scope")
                  /\ IF Command(Theirs(s)) # {} THEN s.cmd \in Command(Theirs(s))
                     ELSE Command(Ours(s)) # {} => s.cmd \in Command(Ours(s))
                  /\ s.env = Over(Env(Theirs(s)), Env(Ours(s)))

(* What the validator accepts has one service to a name, whichever scope,  *)
(* and still has when the extensions' services, which it never sees, are   *)
(* added: they neither repeat a name nor come before or replace a service. *)
NoNameTwice ==
    (step = "checked" /\ report = {}) =>
        LET read == Built(MergeDocuments(sources.committed, sources.overlay))
            every == manifest.services \o manifest.workspace
        IN  /\ ~Twice(every, LAMBDA s : s.name)
            /\ IsPrefix(read.services, manifest.services)
            /\ IsPrefix(read.workspace, manifest.workspace)

=============================================================================
