---------------------------- MODULE Provisioning ----------------------------
(***************************************************************************)
(* The command line that sets an installation up and keeps it: create,     *)
(* doctor, update and domain add.                                          *)
(*                                                                         *)
(*   packages/create-openengage/src/index.ts           the commands        *)
(*   packages/create-openengage/src/provisioning.ts    names and configs   *)
(*   packages/create-openengage/src/command-runner.ts  existing resources  *)
(*                                                                         *)
(* A command is a list of steps, each one program that it runs; the first  *)
(* that fails ends it, and what was done before stays.  Cloudflare is      *)
(* modelled by what its programs refuse: a database whose name is taken, a *)
(* migration or a deployment that names a database that is gone, a Worker  *)
(* bound to one that is not there.  Its resources bear the project's name; *)
(* an administrator may delete any of them by hand, at any time.           *)
(***************************************************************************)
EXTENDS Naturals, Sequences

CONSTANTS
  MaxDatabase,  \* bound: databases that are created
  MaxRelease    \* bound: releases of the source

ASSUME ProvisioningAssumption == {MaxDatabase, MaxRelease} \subseteq Nat \ {0}

Databases == 1 .. MaxDatabase
Queues == {"jobs", "delivery", "deadLetter", "emailEvents"}
Resources == Queues \cup {"bucket"}
SecretNames == {"BETTER_AUTH_SECRET", "CREDENTIAL_ENCRYPTION_KEY", "TRACKING_SIGNING_SECRET"}
Workers == {"server", "agent", "client"}

Deploy == <<"server", "agent", "client">>
InitialWorkerDeployCommands == <<"bootstrap">> \o Deploy

PrepareSource == <<"source", "install">>
Provision ==
  <<"whoami", "email", "d1", "bucket", "jobs", "delivery", "deadLetter", "emailEvents", "config",
    "BETTER_AUTH_SECRET", "CREDENTIAL_ENCRYPTION_KEY", "TRACKING_SIGNING_SECRET", "migrate">>
      \o InitialWorkerDeployCommands
Update == <<"pull", "install", "migrateByScript">> \o Deploy
AddDomain == <<"route">> \o Deploy

NoSource == 0
Placeholder == 0
NotDeployed == [release |-> 0, database |-> 0, by |-> "nobody"]

VARIABLES
  project,     \* the name of the directory: the template's own, or another
  upstream,    \* the newest release
  source,      \* the release in the directory, or NoSource
  config,      \* the database id in the server's config, or the placeholder
  live,        \* the databases there are
  databases,   \* how many were ever created
  schema,      \* database -> the release it is migrated to, or 0
  resources,   \* the bucket and the queues there are
  emailSending, subscribed,
  secrets, key,  \* the secrets that are set, and which encryption key is
  data,        \* database -> the keys its credentials are encrypted with
  present,     \* the Workers there are, a bootstrap or a draft included
  server,      \* the server deployed: its release, its database, by which command
  cli,         \* the command that runs: its name and its steps to go
  fromScratch, \* history: it found neither a config nor a database, and nothing was deleted
  migratedByScript,  \* history: the databases first migrated by an update
  removed      \* history: what was deleted by hand and not made again since

cloudVars == <<live, databases, schema, resources, emailSending, subscribed, secrets, key,
               present, server>>
historyVars == <<fromScratch, migratedByScript, removed>>
localVars == <<source, config>>
provisionVars == <<project, upstream, localVars, cloudVars, data, cli, historyVars>>

ProvisionTypeOK ==
  /\ project \in {"openengage", "other"}
  /\ upstream \in 1 .. MaxRelease /\ source \in 0 .. upstream
  /\ config \in 0 .. databases
  /\ databases \in 0 .. MaxDatabase /\ live \subseteq 1 .. databases
  /\ schema \in [Databases -> 0 .. upstream]
  /\ resources \subseteq Resources
  /\ {emailSending, subscribed, fromScratch} \subseteq BOOLEAN
  /\ secrets \subseteq SecretNames /\ key \in Nat
  /\ data \in [Databases -> SUBSET Nat]
  /\ present \subseteq Workers
  /\ server \in {NotDeployed} \cup
       [release : 1 .. upstream, database : 1 .. databases, by : {"create", "update", "domain"}]
  /\ cli.command \in {"none", "create", "update", "domain"}
  /\ migratedByScript \subseteq Databases
  /\ removed \subseteq Resources \cup SecretNames

ProvisionInit ==
  /\ project \in {"openengage", "other"}
  /\ upstream = 1 /\ source = NoSource /\ config = Placeholder
  /\ live = {} /\ databases = 0 /\ schema = [d \in Databases |-> 0]
  /\ resources = {} /\ emailSending = FALSE /\ subscribed = FALSE
  /\ secrets = {} /\ key = 0 /\ data = [d \in Databases |-> {}]
  /\ present = {} /\ server = NotDeployed
  /\ cli = [command |-> "none", left |-> <<>>]
  /\ fromScratch = FALSE /\ migratedByScript = {} /\ removed = {}

-----------------------------------------------------------------------------
(* A command starts.  create asks whether to provision at once.            *)
Start(command, steps) ==
  /\ cli.left = <<>>
  /\ cli' = [command |-> command, left |-> steps]
  /\ fromScratch' = (config = Placeholder /\ live = {})
  /\ UNCHANGED <<project, upstream, localVars, cloudVars, data, migratedByScript, removed>>

Create ==
  /\ databases < MaxDatabase
  /\ \E steps \in {PrepareSource, PrepareSource \o Provision} : Start("create", steps)
RunUpdate == source # NoSource /\ Start("update", Update)
RunAddDomain == source # NoSource /\ Start("domain", AddDomain)

(* A program fails, or the operator stops the command.                     *)
CommandEnds ==
  /\ cli.left # <<>>
  /\ cli' = [cli EXCEPT !.left = <<>>]
  /\ UNCHANGED <<project, upstream, localVars, cloudVars, data, historyVars>>

(* What a step needs to succeed.  A name that is taken is an error to d1,  *)
(* and allowed for the bucket and the queues (allowExisting).  db:migrate: *)
(* remote names the template's database, which other projects do not have. *)
Succeeds(step) ==
  CASE step = "d1" -> live = {}
    [] step = "migrate" -> config \in live
    [] step = "migrateByScript" -> config \in live /\ project = "openengage"
    [] step = "server" -> config \in live /\ resources = Resources /\ "agent" \in present
    [] step \in {"agent", "client"} -> server # NotDeployed
    [] OTHER -> TRUE

(* The step that is next, which succeeds.                                  *)
Runs(step) ==
  /\ cli.left # <<>> /\ Head(cli.left) = step /\ Succeeds(step)
  /\ cli' = [cli EXCEPT !.left = Tail(@)]
  /\ UNCHANGED <<project, upstream, data, fromScratch>>

NotSource == UNCHANGED <<source, config, migratedByScript>>
NothingMade == UNCHANGED <<cloudVars, removed>>

(* The source is there already, or is cloned; update pulls it.             *)
FetchSource ==
  /\ \/ Runs("source") /\ source' = (IF source = NoSource THEN upstream ELSE source)
     \/ Runs("pull") /\ source' = upstream
  /\ UNCHANGED <<config, migratedByScript>> /\ NothingMade

(* Steps that change nothing here.                                         *)
RunsOnly ==
  /\ \E step \in {"install", "whoami", "route"} : Runs(step)
  /\ NotSource /\ NothingMade

EnableEmail ==
  /\ Runs("email")
  /\ emailSending' = TRUE
  /\ NotSource
  /\ UNCHANGED <<live, databases, schema, resources, subscribed, secrets, key, present, server,
                 removed>>

CreateDatabase_AllowExisting ==
  /\ cli.left # <<>> /\ Head(cli.left) = "d1"
  /\ cli' = [cli EXCEPT !.left = Tail(@)]
  /\ databases' = (IF live = {} THEN databases + 1 ELSE databases)
  /\ live' = (IF live = {} THEN {databases + 1} ELSE live)
  /\ NotSource
  /\ UNCHANGED <<project, upstream, data, fromScratch, schema, resources, emailSending, subscribed,
                 secrets, key, present, server, removed>>

CreateDatabase ==
  /\ Runs("d1")
  /\ databases' = databases + 1
  /\ live' = live \cup {databases + 1}
  /\ NotSource
  /\ UNCHANGED <<schema, resources, emailSending, subscribed, secrets, key, present, server,
                 removed>>

AllowExisting_AnyError(name) ==
  /\ Runs(name)
  /\ resources' \in {resources, resources \cup {name}}
  /\ removed' = removed \ {name}
  /\ NotSource
  /\ UNCHANGED <<live, databases, schema, emailSending, subscribed, secrets, key, present, server>>

AllowExisting(name) ==
  /\ Runs(name)
  /\ resources' = resources \cup {name}
  /\ removed' = removed \ {name}
  /\ NotSource
  /\ UNCHANGED <<live, databases, schema, emailSending, subscribed, secrets, key, present, server>>

(* The id replaces the placeholder, and nothing else.                      *)
RewriteWorkerConfigs ==
  /\ Runs("config")
  /\ config' = (IF config = Placeholder THEN databases ELSE config)
  /\ UNCHANGED <<source, migratedByScript>> /\ NothingMade

(* Every create makes new secrets; a Worker that runs has them at once,    *)
(* and one that is not there is made, as a draft, to hold them.            *)
PutSecret(name) ==
  /\ Runs(name)
  /\ secrets' = secrets \cup {name}
  /\ key' = (IF name = "CREDENTIAL_ENCRYPTION_KEY" THEN key + 1 ELSE key)
  /\ present' = present \cup {"server"}
  /\ removed' = removed \ {name}
  /\ NotSource
  /\ UNCHANGED <<live, databases, schema, resources, emailSending, subscribed, server>>

ApplyMigrations ==
  /\ \/ Runs("migrate") /\ UNCHANGED migratedByScript
     \/ /\ Runs("migrateByScript")
        /\ migratedByScript' = migratedByScript \cup (IF schema[config] = 0 THEN {config} ELSE {})
  /\ schema' = [schema EXCEPT ![config] = source]
  /\ UNCHANGED <<localVars, live, databases, resources, emailSending, subscribed, secrets, key,
                 present, server, removed>>

DeployWorker ==
  /\ \/ Runs("bootstrap") /\ present' = present \cup {"agent"} /\ UNCHANGED server
     \/ /\ Runs("server")
        /\ present' = present \cup {"server"}
        /\ server' = [release |-> source, database |-> config, by |-> cli.command]
     \/ \E w \in {"agent", "client"} : Runs(w) /\ present' = present \cup {w} /\ UNCHANGED server
  /\ NotSource
  /\ UNCHANGED <<live, databases, schema, resources, emailSending, subscribed, secrets, key,
                 removed>>

-----------------------------------------------------------------------------
(* What others do: a release, anything deleted by hand, the template's     *)
(* config checked out again, the queue subscribed to in the dashboard, and *)
(* members who store credentials in the installation that runs.            *)
Release ==
  /\ upstream < MaxRelease
  /\ upstream' = upstream + 1
  /\ UNCHANGED <<project, localVars, cloudVars, data, cli, historyVars>>

DeleteDatabase(d) ==
  /\ d \in live
  /\ live' = live \ {d}
  /\ fromScratch' = FALSE
  /\ UNCHANGED <<project, upstream, localVars, databases, schema, resources, emailSending, subscribed,
                 secrets, key, data, present, server, cli, migratedByScript, removed>>

DeleteResource(name) ==
  /\ name \in resources
  /\ resources' = resources \ {name}
  /\ subscribed' = (subscribed /\ name # "emailEvents")
  /\ removed' = removed \cup {name}
  /\ fromScratch' = FALSE
  /\ UNCHANGED <<project, upstream, localVars, live, databases, schema, emailSending, secrets, key,
                 data, present, server, cli, migratedByScript>>

DeleteSecret(name) ==
  /\ name \in secrets
  /\ secrets' = secrets \ {name}
  /\ removed' = removed \cup {name}
  /\ fromScratch' = FALSE
  /\ UNCHANGED <<project, upstream, localVars, live, databases, schema, resources, emailSending,
                 subscribed, key, data, present, server, cli, migratedByScript>>

(* The server's secrets go with it.                                        *)
DeleteWorker(w) ==
  /\ w \in present
  /\ present' = present \ {w}
  /\ \/ /\ w = "server"
        /\ server' = NotDeployed /\ secrets' = {} /\ removed' = removed \cup secrets
     \/ w # "server" /\ UNCHANGED <<server, secrets, removed>>
  /\ fromScratch' = FALSE
  /\ UNCHANGED <<project, upstream, localVars, live, databases, schema, resources, emailSending,
                 subscribed, key, data, cli, migratedByScript>>

Deletion ==
  \/ \E d \in Databases : DeleteDatabase(d)
  \/ \E name \in Resources : DeleteResource(name)
  \/ \E name \in SecretNames : DeleteSecret(name)
  \/ \E w \in Workers : DeleteWorker(w)

ResetConfig ==
  /\ cli.left = <<>> /\ config # Placeholder
  /\ config' = Placeholder
  /\ UNCHANGED <<project, upstream, source, cloudVars, data, cli, historyVars>>

Subscribe ==
  /\ emailSending /\ "emailEvents" \in resources
  /\ subscribed' = TRUE
  /\ UNCHANGED <<project, upstream, localVars, live, databases, schema, resources, emailSending,
                 secrets, key, data, present, server, cli, historyVars>>

StoreCredential ==
  /\ server.database \in live /\ "CREDENTIAL_ENCRYPTION_KEY" \in secrets
  /\ data' = [data EXCEPT ![server.database] = @ \cup {key}]
  /\ UNCHANGED <<project, upstream, localVars, cloudVars, cli, historyVars>>

ProvisionNext ==
  \/ Create \/ RunUpdate \/ RunAddDomain \/ CommandEnds
  \/ FetchSource \/ RunsOnly \/ EnableEmail \/ CreateDatabase
  \/ \E name \in Resources : AllowExisting(name)
  \/ RewriteWorkerConfigs
  \/ \E name \in SecretNames : PutSecret(name)
  \/ ApplyMigrations \/ DeployWorker
  \/ Release \/ ResetConfig \/ Subscribe \/ StoreCredential
  \/ Deletion

ProvisionSpec == ProvisionInit /\ [][ProvisionNext]_provisionVars

(* doctor only looks: at the database of the config and at the queue of    *)
(* e-mail events.  It lists the bucket and the secrets, and passes however *)
(* many there are while the server is there to ask; it does not look at    *)
(* the other queues, the agent and the client.                             *)
Doctor ==
  /\ source # NoSource
  /\ config \in live /\ schema[config] > 0
  /\ "emailEvents" \in resources
  /\ "server" \in present
  /\ emailSending
  /\ subscribed

-----------------------------------------------------------------------------
(* However often commands fail and are run again, the credentials that a  *)
(* database holds are of the encryption key that was put last: a create    *)
(* that makes new secrets never gets past a database that is there,        *)
(* whatever else was deleted.  (index.ts provision)                        *)
KeyKept == \A d \in live : data[d] \subseteq {key}

(* The server never runs ahead of the schema of its database, unless a     *)
(* domain was added after an update that had pulled and then failed.       *)
SchemaKept ==
  (server.database \in live /\ server.by # "domain") => server.release <= schema[server.database]

(* A create that starts with neither a database nor a config, and while it *)
(* runs nothing is deleted, is stopped by nothing it did itself:           *)
(* index.ts:236, the bootstrap "breaks the Agent <-> Server                *)
(* service-binding cycle".                                                 *)
CreateGoesThrough ==
  (cli.command = "create" /\ cli.left # <<>> /\ fromScratch) =>
    Succeeds(Head(cli.left))

(* No command leaves behind what doctor is content with and yet lacks a    *)
(* part: the bucket or a queue that is missing then was deleted by hand,   *)
(* and so was a secret, unless an update was run on a create that had      *)
(* stopped.  What was deleted, doctor does not tell.                       *)
LeftComplete ==
  Doctor =>
    /\ Resources \subseteq resources \cup removed
    /\ config \in migratedByScript \/ SecretNames \subseteq secrets \cup removed

ProvisioningSound == KeyKept /\ SchemaKept /\ CreateGoesThrough /\ LeftComplete

=============================================================================
