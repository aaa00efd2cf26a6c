---------------------------- MODULE MCMigration ----------------------------
(* The first three tiers of tier_registry_init_defaults for TLC: sizes in    *)
(* KiB, latencies in units of 10 ns and energies in units of 10 nJ, so that  *)
(* gains, costs and the threshold of 0.001 are in ns (the weights are 0.7    *)
(* and 0.3) and fit TLC's integers; transfer times in ns per KiB from 20,    *)
(* 500 and 3 GB/s.  The energies of 1, 2 and 5 nJ are rounded to that unit;  *)
(* latency decides.  Only the capacities are made small.                     *)
EXTENDS Migration

RegistryLatency == 0 :> 6 @@ 1 :> 20 @@ 2 :> 2000
RegistryEnergy == 0 :> 0 @@ 1 :> 0 @@ 2 :> 1
RegistryTransfer == 0 :> 51 @@ 1 :> 2 @@ 2 :> 341
SmallCapacity == 0 :> 4 @@ 1 :> 8 @@ 2 :> Unlimited
=============================================================================
