---------------------------- MODULE MCSelection -----------------------------
(***************************************************************************)
(* Two environments, three services and the sessions of this workspace and *)
(* of another one.  tmux lists sessions by name: the workspace's comes     *)
(* between those of the two environments.                                  *)
(***************************************************************************)
EXTENDS Selection

CONSTANTS alpha, zeta, workspace, api, web, db

MCEnvs == {alpha, zeta}
MCServices == {api, web, db}
Mine(scope) == [own |-> TRUE, scope |-> scope]
MCListing == <<[own |-> FALSE, scope |-> workspace],
               Mine(alpha), Mine(workspace), Mine(zeta)>>

(* web moves to the workspace scope; or the file is being written.         *)
MCManifests == {
    [readable |-> TRUE, project |-> <<api, web>>, workspace |-> <<db>>],
    [readable |-> TRUE, project |-> <<api>>, workspace |-> <<web, db>>],
    [readable |-> FALSE, project |-> <<>>, workspace |-> <<>>]}

In(e, svcs) == [glob |-> FALSE, envs |-> {e}, svcs |-> svcs]
Anywhere(svcs) == [glob |-> TRUE, envs |-> Scopes, svcs |-> svcs]
Some(envs, svcs) == [glob |-> TRUE, envs |-> envs, svcs |-> svcs]
Do(kind, pats) == [kind |-> kind, pats |-> pats]

MCCommands == {
    Do("restart", <<In(alpha, {api}), In(alpha, {api, web})>>),
    Do("restart", <<Some({alpha, zeta}, {api})>>),
    Do("restart", <<In(workspace, MCServices), Some({zeta}, MCServices)>>),
    Do("status", <<In(workspace, {db}), In(zeta, MCServices)>>),
    Do("status", <<Anywhere({web}), In(alpha, {api})>>),
    Do("logs", <<Anywhere({api})>>),
    Do("logs", <<In(alpha, {api}), In(workspace, MCServices)>>),
    Do("follow", <<Some({alpha, zeta}, {api}), In(alpha, {web})>>)}

GlobCommands == {Do("restart", <<Anywhere({api})>>), Do("restart", <<Anywhere({db})>>)}
=============================================================================
