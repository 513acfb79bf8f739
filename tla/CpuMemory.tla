----------------------------- MODULE CpuMemory -----------------------------
(***************************************************************************)
(* The VM-execution collaborator that produces the memory log the memory   *)
(* STARK proves (spec.md section 6), and at the same time the abstract     *)
(* specification of memory: a map from address to value in which a read   *)
(* returns the last value written, an address of a preinitialized segment *)
(* starts with externally supplied content, and any other address starts  *)
(* at zero unless mem_before gives it a value.                             *)
(*                                                                         *)
(* The CPU itself is not under src/: this module is written from spec.md.  *)
(***************************************************************************)
EXTENDS Integers, Sequences

CONSTANTS
    Addresses,        \* the addresses the execution touches
    Values,           \* the values it reads and writes
    MemBeforeAddrs,   \* the addresses mem_before may give a value
    TsSteps,          \* how far the timestamp may advance between two ops
    MaxOps,           \* bound on the length of the log
    PreinitSegments   \* PREINITIALIZED_SEGMENTS_INDICES

ASSUME MemBeforeAddrs \subseteq Addresses /\ 0 \in Values
ASSUME TsSteps \subseteq Nat \ {0} /\ MaxOps \in Nat

VARIABLES
    mem,          \* the abstract memory: address -> value
    memBefore,    \* mem_before_values: a partial function address -> value
    log,          \* memory_ops: the operations in execution order
    clock         \* timestamp of the last operation (0: mem_before only)

cpuVars == <<mem, memBefore, log, clock>>

Preinit(a) == a.segment \in PreinitSegments

\* mem_before is the mem_after of the previous proving unit, which keeps
\* zero values only in preinitialized segments.
MemBeforeChoices ==
    UNION {{f \in [D -> Values] : \A a \in D : ~Preinit(a) => f[a] # 0} :
           D \in SUBSET MemBeforeAddrs}

CpuInit ==
    /\ memBefore \in MemBeforeChoices
    /\ mem \in {m \in [Addresses -> Values] :
                  \A a \in Addresses :
                     /\ a \in DOMAIN memBefore => m[a] = memBefore[a]
                     /\ a \notin DOMAIN memBefore /\ ~Preinit(a) => m[a] = 0}
    /\ log = <<>>
    /\ clock = 0

Op(a, kind, v, ts) ==
    [filter |-> TRUE, timestamp |-> ts, address |-> a, kind |-> kind, value |-> v]

\* A read returns the current value of the address.
CpuRead(a) ==
    /\ Len(log) < MaxOps
    /\ \E step \in TsSteps :
          /\ clock' = clock + step
          /\ log' = Append(log, Op(a, "Read", mem[a], clock + step))
    /\ UNCHANGED <<mem, memBefore>>

CpuWrite(a, v) ==
    /\ Len(log) < MaxOps
    /\ \E step \in TsSteps :
          /\ clock' = clock + step
          /\ log' = Append(log, Op(a, "Write", v, clock + step))
    /\ mem' = [mem EXCEPT ![a] = v]
    /\ UNCHANGED memBefore

CpuNext ==
    \/ \E a \in Addresses : CpuRead(a)
    \/ \E a \in Addresses, v \in Values : CpuWrite(a, v)

CpuSpec == CpuInit /\ [][CpuNext]_cpuVars

=============================================================================
