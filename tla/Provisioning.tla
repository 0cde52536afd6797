------------------------------ MODULE Provisioning ------------------------------
(***************************************************************************)
(* Pool provisioning: the provisioner and its journal                      *)
(* (src/src/pool_manager.rs), the registry of shards the server serves     *)
(* (src/src/pool_registry.rs), the two workers that attach to a published  *)
(* shard (miden_execution.rs, finality_observer.rs), the deployment file   *)
(* (src/src/deployment.rs) and the command line tools that also write it   *)
(* (src/src/bin/spawn_pool.rs, add_asset.rs), over the vault's active pool.*)
(*                                                                         *)
(* The provisioner may fail or crash between any two of its steps; the row *)
(* in flight is all that it finds again.  The server and a tool load and   *)
(* save the deployment file without a lock: whoever saves last wins, and   *)
(* an entry published since its load is lost.  One tool is at work at a    *)
(* time.  Shards are numbered as they are deployed.                        *)
(***************************************************************************)
EXTENDS Integers, FiniteSets, Totals

CONSTANTS
  MaxShards,     \* bound on deployed shards
  UserCapacity,  \* pool_user_capacity
  ReserveUsers,  \* POOL_PROVISION_RESERVE_USERS
  MaxUsers,      \* bound on registrations
  MaxFaults      \* bound on failures, crashes and uses of a tool

ASSUME ProvisioningAssumption ==
  /\ {MaxShards, UserCapacity} \subseteq Nat \ {0}
  /\ {ReserveUsers, MaxUsers, MaxFaults} \subseteq Nat

Shards == 1..MaxShards
NoShard == 0
Workers == {"execution", "finality"}
NoRow == [status |-> "none", shard |-> NoShard]
Off == [does |-> "none", shard |-> NoShard, copy |-> {}]

VARIABLES
  deployed,    \* shards on the chain: 1..deployed
  active,      \* zorovault::active_pool
  placed,      \* zorovault::pool_user_counts
  listed,      \* pools of the deployment file
  row,         \* the row of pool_provisions in flight
  run,         \* run_provision: the next step, its shard and the file it loaded
  registry,    \* PoolRegistry::pools
  ready,       \* PoolRegistry::readiness
  tool,        \* the command line tool under way, and the file it loaded
  byHand,      \* ghost: shards activated by spawn_pool
  overwritten, \* ghost: shards the save of an older copy dropped from the file
  faults       \* failures so far

shardChain == <<deployed, active, placed>>
server == <<row, run, registry, ready>>
provVars == <<shardChain, listed, server, tool, byHand, overwritten, faults>>

Resting == [step |-> "rest", shard |-> NoShard, copy |-> {}]

ProvTypeOK ==
  /\ deployed \in Shards /\ active \in 1..deployed
  /\ placed \in [Shards -> 0..UserCapacity]
  /\ listed \subseteq 1..deployed /\ registry \subseteq 1..deployed
  /\ row.status \in {"none", "deploying", "published", "attached"}
  /\ {row.shard, run.shard} \subseteq 0..deployed
  /\ row.status \in {"published", "attached"} => row.shard # NoShard
  /\ ready \in [Shards -> SUBSET Workers] /\ faults \in 0..MaxFaults

\* spawn has deployed and authorized the first shard.
ProvInit ==
  /\ deployed = 1 /\ active = 1 /\ placed = [s \in Shards |-> 0]
  /\ listed = {1} /\ registry = {1}
  /\ ready = [s \in Shards |-> IF s = 1 THEN Workers ELSE {}]
  /\ row = NoRow /\ run = Resting /\ tool = Off
  /\ byHand = {} /\ overwritten = {} /\ faults = 0

(***************************************************************************)
(* The vault and the tools.                                                *)
(***************************************************************************)
NearFull == UserCapacity - placed[active] <= ReserveUsers
Registered == Total(placed)

\* The REGISTER note goes to the active pool.
RegisterUser ==
  /\ placed[active] < UserCapacity /\ Registered < MaxUsers
  /\ placed' = [placed EXCEPT ![active] = @ + 1]
  /\ UNCHANGED <<deployed, active, listed, server, tool, byHand, overwritten, faults>>

\* Deployment::save replaces the file in one rename, whatever it holds by now.
Save(pools) ==
  listed' = pools /\ overwritten' = overwritten \cup (listed \ pools)
KeepFile == UNCHANGED <<listed, overwritten>>

\* spawn_pool: deploy, publish to the file (load, then save), activate.
SpawnPool ==
  /\ CASE tool = Off ->
            /\ faults < MaxFaults /\ faults' = faults + 1 /\ deployed < MaxShards
            /\ deployed' = deployed + 1
            /\ tool' = [Off EXCEPT !.does = "publish", !.shard = deployed + 1]
            /\ UNCHANGED <<active, byHand>> /\ KeepFile
       [] tool.does = "publish" ->
            /\ tool' = [tool EXCEPT !.does = "append", !.copy = listed]
            /\ UNCHANGED <<deployed, active, byHand, faults>> /\ KeepFile
       [] tool.does = "append" ->
            /\ Save(tool.copy \cup {tool.shard})
            /\ tool' = [tool EXCEPT !.does = "activate", !.copy = {}]
            /\ UNCHANGED <<deployed, active, byHand, faults>>
       [] tool.does = "activate" ->
            /\ active' = tool.shard /\ byHand' = byHand \cup {tool.shard} /\ tool' = Off
            /\ UNCHANGED <<deployed, faults>> /\ KeepFile
       [] OTHER -> FALSE
  /\ UNCHANGED <<placed, server>>

\* add_asset reads the file, deploys a faucet, and writes the whole file back.
AddAsset ==
  /\ IF tool = Off
     THEN /\ faults < MaxFaults /\ faults' = faults + 1
          /\ tool' = [Off EXCEPT !.does = "save", !.copy = listed]
          /\ KeepFile
     ELSE /\ tool.does = "save"
          /\ Save(tool.copy) /\ tool' = Off
          /\ UNCHANGED faults
  /\ UNCHANGED <<shardChain, server, byHand>>

\* A tool stops at any of its steps: an error, or its operator.
ToolStops ==
  /\ tool # Off /\ tool' = Off
  /\ UNCHANGED <<shardChain, listed, server, byHand, overwritten, faults>>

(***************************************************************************)
(* The registry and the workers.                                           *)
(***************************************************************************)
\* attach_pending_pools, polled and woken by the registry's notice.
Attach(w, s) ==
  /\ s \in registry /\ w \notin ready[s]
  /\ ready' = [ready EXCEPT ![s] = @ \cup {w}]
  /\ UNCHANGED <<shardChain, listed, row, run, registry, tool, byHand, overwritten, faults>>

\* ensure_from_deployment: a user of a shard that is listed but not yet served.
EnsureFromDeployment(s) ==
  /\ placed[s] > 0 /\ s \in listed \ registry
  /\ registry' = registry \cup {s}
  /\ UNCHANGED <<shardChain, listed, row, run, ready, tool, byHand, overwritten, faults>>

(***************************************************************************)
(* The provisioner.                                                        *)
(***************************************************************************)
RunAt(step, s) == run' = [step |-> step, shard |-> s, copy |-> {}]
KeepWorld == UNCHANGED <<placed, tool, byHand, faults>>

\* tick: the active pool is nearly full and no provision is in flight.
BeginDeploying ==
  /\ run = Resting /\ row = NoRow /\ NearFull
  /\ row' = [NoRow EXCEPT !.status = "deploying"]
  /\ RunAt("deploy", NoShard)
  /\ UNCHANGED <<deployed, active, registry, ready>> /\ KeepFile /\ KeepWorld

\* Mutant of Resume: a row without a shard is left alone.
ResumeNamed ==
  /\ run = Resting /\ row.shard # NoShard
  /\ RunAt("publish", row.shard)
  /\ UNCHANGED <<deployed, active, row, registry, ready>> /\ KeepFile /\ KeepWorld
\* A row in flight is taken up from its shard, or deploys one.
Resume ==
  /\ run = Resting /\ row # NoRow
  /\ RunAt(IF row.shard = NoShard THEN "deploy" ELSE "publish", row.shard)
  /\ UNCHANGED <<deployed, active, row, registry, ready>> /\ KeepFile /\ KeepWorld

DeployPoolShard ==
  /\ run.step = "deploy" /\ deployed < MaxShards
  /\ deployed' = deployed + 1
  /\ RunAt("name", deployed + 1)
  /\ UNCHANGED <<active, row, registry, ready>> /\ KeepFile /\ KeepWorld

SetPoolId ==
  /\ run.step = "name"
  /\ row' = [row EXCEPT !.shard = run.shard]
  /\ RunAt("publish", run.shard)
  /\ UNCHANGED <<deployed, active, registry, ready>> /\ KeepFile /\ KeepWorld

\* Mutant of PublishPoolToDeployment: the file is not written.
PublishPoolToDeploymentNot ==
  /\ run.step = "publish"
  /\ RunAt("register", run.shard)
  /\ UNCHANGED <<deployed, active, row, registry, ready>> /\ KeepFile /\ KeepWorld
\* publish_pool_to_deployment loads the file, and is done if it lists the shard...
PublishPoolToDeployment ==
  /\ run.step = "publish"
  /\ IF run.shard \in listed THEN RunAt("register", run.shard)
     ELSE run' = [step |-> "append", shard |-> run.shard, copy |-> listed]
  /\ UNCHANGED <<deployed, active, row, registry, ready>> /\ KeepFile /\ KeepWorld

\* ... or appends it to what it loaded and saves that.
AppendToDeployment ==
  /\ run.step = "append"
  /\ Save(run.copy \cup {run.shard})
  /\ RunAt("register", run.shard)
  /\ UNCHANGED <<deployed, active, row, registry, ready>> /\ KeepWorld

PublishToRegistry ==
  /\ run.step = "register"
  /\ registry' = registry \cup {run.shard}
  /\ row' = [row EXCEPT !.status = "published"]
  /\ RunAt("wait", run.shard)
  /\ UNCHANGED <<deployed, active, ready>> /\ KeepFile /\ KeepWorld

WaitReady ==
  /\ run.step = "wait" /\ ready[run.shard] = Workers
  /\ row' = [row EXCEPT !.status = "attached"]
  /\ RunAt("activate", run.shard)
  /\ UNCHANGED <<deployed, active, registry, ready>> /\ KeepFile /\ KeepWorld

ActivatePoolShard ==
  /\ run.step = "activate"
  /\ active' = run.shard
  /\ RunAt("finish", run.shard)
  /\ UNCHANGED <<deployed, row, registry, ready>> /\ KeepFile /\ KeepWorld

AdvanceActivated ==
  /\ run.step = "finish"
  /\ row' = NoRow /\ run' = Resting
  /\ UNCHANGED <<deployed, active, registry, ready>> /\ KeepFile /\ KeepWorld

\* Any step returns an error, or the wait times out: the row is failed and its
\* shard, if there is one, is never taken up again.
ProvisionFails ==
  /\ run # Resting /\ faults < MaxFaults /\ faults' = faults + 1
  /\ row' = NoRow /\ run' = Resting
  /\ UNCHANGED <<shardChain, listed, registry, ready, tool, byHand, overwritten>>

\* The server stops and starts: both workers import what the file lists.
ServerRestart ==
  /\ faults < MaxFaults /\ faults' = faults + 1
  /\ run' = Resting /\ registry' = listed
  /\ ready' = [s \in Shards |-> IF s \in listed THEN Workers ELSE {}]
  /\ UNCHANGED <<shardChain, listed, row, tool, byHand, overwritten>>

\* The provisioner's interval and the workers' polls go on for ever.
ProvisionStep ==
  \/ BeginDeploying \/ Resume \/ DeployPoolShard \/ SetPoolId \/ PublishPoolToDeployment
  \/ AppendToDeployment \/ PublishToRegistry \/ WaitReady \/ ActivatePoolShard \/ AdvanceActivated
AttachStep == \E w \in Workers, s \in Shards : Attach(w, s)
ProvNext ==
  \/ RegisterUser \/ SpawnPool \/ AddAsset \/ ToolStops \/ ProvisionStep \/ AttachStep
  \/ \E s \in Shards : EnsureFromDeployment(s)
  \/ ProvisionFails \/ ServerRestart

ProvSpec == ProvInit /\ [][ProvNext]_provVars

(***************************************************************************)
(* Properties.                                                             *)
(***************************************************************************)
\* A shard that has users or gets the next ones is in the deployment file, so
\* that a restarted server serves it, unless a process that had loaded the file
\* before wrote that older copy over it: nothing in the code guards against that
\* (run_provision, publish_pool_to_deployment, Deployment::save).
PlacedShardsListed ==
  \A s \in Shards : s = active \/ placed[s] > 0 => s \in listed \cup overwritten

\* Registrations go to a shard both workers have attached to, through failures
\* and restarts, unless it was activated by hand or dropped from the file by the
\* save of an older copy (run_provision, wait_ready, PoolRegistry::new).
ActiveShardServed ==
  active \in byHand \cup overwritten \/ ready[active] = Workers

\* A user is never placed on a shard that nobody serves, now or after a restart,
\* with the two exceptions above: shards activated by hand, and shards that the
\* save of an older copy dropped from the file (run_provision).
PlacedShardsServed == PlacedShardsListed /\ ActiveShardServed

\* When the active pool runs low a spare one takes its place, whatever step of a
\* provision failed or was cut short (tick, resume, run_provision).
CapacityRestored == []<>(~ NearFull \/ deployed = MaxShards)
===============================================================================
