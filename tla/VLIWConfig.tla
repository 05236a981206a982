----------------------------- MODULE VLIWConfig -----------------------------
(***************************************************************************)
(* The data of StarbugVLIWConfig.h/.cpp: operation classes, the lane table *)
(* and the scheduler policy the packetizer reads.  A configuration is a    *)
(* record; the lane table is a sequence whose element L+1 is the set of    *)
(* classes lane L accepts (LaneConfig::AllowedClasses).                    *)
(***************************************************************************)
EXTENDS Integers, Sequences, FiniteSets

\* enum class OpClass; "Last" is only the size of the bit vector.
OpClass == {"Any", "ALUAddSub", "ALUMulDiv", "ALUShift", "Load", "Store",
            "Branch", "Compare", "Move", "CSR"}

ALUClasses == {"ALUAddSub", "ALUMulDiv", "ALUShift"}

makeLane0 == {"Any"}
makeALULane == ALUClasses

\* The fields of StarbugVLIWConfig the passes of this repository read.
ConfigType == [numLanes   : Nat \ {0},
               lanes      : Seq(SUBSET OpClass),
               allowShort : BOOLEAN,
               emitSingle : BOOLEAN]

maxBundleWidth(cfg) == cfg.numLanes

isLaneLegal(cfg, lane, class) ==
    /\ lane < Len(cfg.lanes)
    /\ \/ "Any" \in cfg.lanes[lane + 1]
       \/ class \in cfg.lanes[lane + 1]

\* The lane table fromCommandLine builds before it reads the overrides.
StandardLanes(n) == [l \in 1..n |-> IF l = 1 THEN makeLane0 ELSE makeALULane]

(***************************************************************************)
(* The shape of the hardware and of every table without overrides: lane 0  *)
(* takes everything and the worker lanes are interchangeable.              *)
(***************************************************************************)
UniformWorkers(cfg) ==
    /\ cfg.numLanes =< Len(cfg.lanes)
    /\ "Any" \in cfg.lanes[1]
    /\ \A l \in 2..cfg.numLanes, m \in 2..cfg.numLanes : cfg.lanes[l] = cfg.lanes[m]
=============================================================================
