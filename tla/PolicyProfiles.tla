--------------------------- MODULE PolicyProfiles ---------------------------
(* The default policy and the named profiles (policy_defaults.go, profiles.go), *)
(* and the completion of a Pool configuration (pool_config.go,                  *)
(* config_defaults.go).  Sizes in units of 256 bytes, see PolicyRules.          *)
EXTENDS PolicyRules

CONSTANT Procs      \* runtime.GOMAXPROCS(0)

ASSUME ProcsAssumption == Procs \in Nat \ {0}

KiB == 4
MiB == 1024 * KiB

(* Class sizes double from one class to the next: the first is 2^i units. *)
DoublingSizes(first, last) == [i \in 1 .. last - first + 1 |-> 2 ^ (first + i - 1)]

(* mathx.NextPowerOfTwo, and Clamp to 32 *)
DefaultShards ==
    CHOOSE p \in {1, 2, 4, 8, 16, 32} : p < 2 * Procs /\ (p >= Procs \/ p = 32)

-----------------------------------------------------------------------------
(* Sections that the profiles share *)

LenientAdmission ==
    AdmissionPolicy("empty_buffer", "admit", "drop", "drop", "drop", "drop", "drop",
                    FALSE, FALSE)
StrictAdmission(zeroing) ==
    AdmissionPolicy("reject", "admit", "error", "error", "error", "drop", "drop",
                    zeroing, zeroing)

Capped(retention, trim, capacity) ==
    LevelPolicy(retention, trim * One, capacity, capacity, FALSE, TRUE)
Disabling(trim, capacity) == LevelPolicy(0, trim * One, capacity, capacity, TRUE, FALSE)

TrimsAlways(interval, fullScan, buffers, bytes, pools, classes, shards) ==
    TrimPolicy(TRUE, interval, fullScan, buffers, bytes, pools, classes, shards,
               TRUE, TRUE, TRUE)

Untracked(growth) == OwnershipPolicy("none", FALSE, FALSE, FALSE, growth * One)

-----------------------------------------------------------------------------
(* The default *)

DefaultRetention ==
    RetentionPolicy(32 * MiB, 64 * MiB, 4096, MiB, MiB,
                    16 * MiB, DefaultShards * 32, 4 * MiB, 32)
DefaultShardPolicy == ShardPolicy("processor_inspired", DefaultShards, 32, 8, 1, 0)
DefaultPressure ==
    PressurePolicy(TRUE, Capped(7500, 1, 0), Capped(5000, 2, 512 * KiB),
                   Disabling(4, 64 * KiB))
DefaultTrim == TrimsAlways(30, 300, 1024, 8 * MiB, 64, 8, 4)

DefaultPolicy ==
    Policy(DefaultRetention, DoublingSizes(0, 12), DefaultShardPolicy,
           LenientAdmission, DefaultPressure, DefaultTrim, Untracked(2))

-----------------------------------------------------------------------------
(* Profiles *)

ThroughputPolicy ==
    Policy(RetentionPolicy(128 * MiB, 256 * MiB, 16384, 4 * MiB, 4 * MiB,
                           64 * MiB, 1024, 8 * MiB, 64),
           DoublingSizes(0, 14),
           ShardPolicy("processor_inspired", 64, 64, 16, 1, 0),
           LenientAdmission,
           PressurePolicy(TRUE, Capped(8000, 1, 0), Capped(6000, 2, 2 * MiB),
                          Capped(2500, 4, 256 * KiB)),
           TrimsAlways(45, 300, 2048, 16 * MiB, 128, 8, 4),
           Untracked(3))

MemoryConstrainedPolicy ==
    Policy(RetentionPolicy(8 * MiB, 16 * MiB, 1024, 512 * KiB, 512 * KiB,
                           4 * MiB, 64, MiB, 16),
           DoublingSizes(1, 11),
           ShardPolicy("processor_inspired", 4, 16, 8, 0, 0),
           LenientAdmission,
           PressurePolicy(TRUE, Capped(6000, 1, 256 * KiB), Capped(3000, 2, 128 * KiB),
                          Disabling(4, 32 * KiB)),
           TrimsAlways(15, 120, 512, 4 * MiB, 64, 8, 4),
           Untracked(2))

BurstyPolicy ==
    Policy(RetentionPolicy(64 * MiB, 512 * MiB, 16384, 8 * MiB, 8 * MiB,
                           128 * MiB, 1024, 16 * MiB, 64),
           DoublingSizes(1, 15),
           ShardPolicy("processor_inspired", 16, 64, 16, 1, 0),
           LenientAdmission,
           PressurePolicy(TRUE, Capped(7000, 1, 4 * MiB), Capped(4000, 3, MiB),
                          Disabling(5, 256 * KiB)),
           TrimsAlways(20, 180, 4096, 32 * MiB, 128, 12, 8),
           Untracked(4))

StrictBoundedPolicy ==
    Policy(RetentionPolicy(16 * MiB, 32 * MiB, 2048, 512 * KiB, 512 * KiB,
                           8 * MiB, 128, MiB, 16),
           DoublingSizes(2, 11),
           ShardPolicy("processor_inspired", 8, 16, 8, 0, 0),
           StrictAdmission(FALSE),
           PressurePolicy(TRUE, Capped(5000, 1, 256 * KiB), Capped(2500, 2, 128 * KiB),
                          Disabling(4, 32 * KiB)),
           TrimsAlways(10, 60, 1024, 8 * MiB, 64, 8, 8),
           OwnershipPolicy("accounting", TRUE, TRUE, FALSE, One))

SecurePolicy ==
    Policy(RetentionPolicy(16 * MiB, 64 * MiB, 2048, MiB, MiB,
                           8 * MiB, 128, 2 * MiB, 16),
           DoublingSizes(1, 12),
           ShardPolicy("processor_inspired", 8, 16, 8, 0, 0),
           StrictAdmission(TRUE),
           PressurePolicy(TRUE, Capped(5000, 1, 512 * KiB), Capped(2500, 3, 128 * KiB),
                          Disabling(5, 32 * KiB)),
           TrimsAlways(10, 60, 2048, 16 * MiB, 64, 8, 8),
           OwnershipPolicy("strict", TRUE, TRUE, TRUE, One))

(* PolicyForProfile *)
Profiles ==
    [default |-> DefaultPolicy, throughput |-> ThroughputPolicy,
     memory_constrained |-> MemoryConstrainedPolicy, bursty |-> BurstyPolicy,
     strict_bounded |-> StrictBoundedPolicy, secure |-> SecurePolicy]

-----------------------------------------------------------------------------
(* Pool configurations *)

PoolConfig(policy, validation, closeMode, closedOperations) ==
    [policy |-> policy, validation |-> validation, closeMode |-> closeMode,
     closedOperations |-> closedOperations]

EffectivePolicy(policy) == IF policy = NoPolicy THEN DefaultPolicy ELSE policy
Or(value, default) == IF value = "unset" THEN default ELSE value

Normalized(c) ==
    PoolConfig(EffectivePolicy(c.policy), Or(c.validation, "enabled"),
               Or(c.closeMode, "clear_retained"), Or(c.closedOperations, "reject"))

PoolConfigValid(c) ==
    LET n == Normalized(c)
    IN  /\ n.validation \in {"enabled", "disabled"}
        /\ n.closeMode \in {"clear_retained", "keep_retained"}
        /\ n.closedOperations \in {"reject", "drop_returns"}
        /\ n.validation = "enabled" => PolicyValid(n.policy)
=============================================================================
