----------------------------- MODULE Commands -----------------------------
(***************************************************************************)
(* The commands beside the three phases, what a phase runs with (the pool, *)
(* the RPC client, the row locks of its transactions) and the scripts that *)
(* came before: each of the modules below on state of its own, and main    *)
(* dispatches one of them.                                                 *)
(***************************************************************************)
EXTENDS Trace, Pool, Backup, EntityTags, ConfigFiles, Coins, Rpc, DeltaLocks, Legacy

VARIABLES
  command   \* the one that runs

Command == {"trace", "pool", "backup", "tags", "config", "coins", "rpc", "locks", "legacy"}

Init ==
  /\ command \in Command
  /\ TraceInit /\ PoolInit /\ BackupInit /\ TagsInit /\ ConfigInit /\ CoinsInit
  /\ RpcInit /\ LocksInit /\ LegacyInit

vars == <<command, traceVars, poolVars, backupVars, tagVars, configVars, coinVars,
          rpcVars, lockVars, legacyVars>>

Next ==
  /\ UNCHANGED command
  /\ \/ /\ command = "trace" /\ TraceNext
        /\ UNCHANGED <<poolVars, backupVars, tagVars, configVars, coinVars,
                       rpcVars, lockVars, legacyVars>>
     \/ /\ command = "pool" /\ PoolNext
        /\ UNCHANGED <<traceVars, backupVars, tagVars, configVars, coinVars,
                       rpcVars, lockVars, legacyVars>>
     \/ /\ command = "backup" /\ BackupNext
        /\ UNCHANGED <<traceVars, poolVars, tagVars, configVars, coinVars,
                       rpcVars, lockVars, legacyVars>>
     \/ /\ command = "tags" /\ TagsNext
        /\ UNCHANGED <<traceVars, poolVars, backupVars, configVars, coinVars,
                       rpcVars, lockVars, legacyVars>>
     \/ /\ command = "config" /\ ConfigNext
        /\ UNCHANGED <<traceVars, poolVars, backupVars, tagVars, coinVars,
                       rpcVars, lockVars, legacyVars>>
     \/ /\ command = "coins" /\ CoinsNext
        /\ UNCHANGED <<traceVars, poolVars, backupVars, tagVars, configVars,
                       rpcVars, lockVars, legacyVars>>
     \/ /\ command = "rpc" /\ RpcNext
        /\ UNCHANGED <<traceVars, poolVars, backupVars, tagVars, configVars,
                       coinVars, lockVars, legacyVars>>
     \/ /\ command = "locks" /\ LocksNext
        /\ UNCHANGED <<traceVars, poolVars, backupVars, tagVars, configVars,
                       coinVars, rpcVars, legacyVars>>
     \/ /\ command = "legacy" /\ LegacyNext
        /\ UNCHANGED <<traceVars, poolVars, backupVars, tagVars, configVars,
                       coinVars, rpcVars, lockVars>>

Spec == Init /\ [][Next]_vars /\ PoolFairness /\ RpcFairness /\ LocksFairness
=============================================================================
