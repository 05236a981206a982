----------------------------- MODULE BundlePlan -----------------------------
(***************************************************************************)
(* What the packetizer promises, whatever its algorithm: a plan grows one  *)
(* hint at a time, a hint is never withdrawn, its window is independent,   *)
(* no wider than the configuration allows and disjoint from the windows    *)
(* already planned, and under a uniform lane table the place of each       *)
(* member is a lane that accepts it.  The instructions never change.       *)
(***************************************************************************)
EXTENDS MachineCode

VARIABLES
    config,   \* the configuration the plan is made for
    fn,       \* the instructions of the function
    plan      \* the hints planned so far

Init == config \in ConfigType /\ fn \in Seq(Seq(MachineInstr)) /\ plan = {}

GoodHint(h) ==
    /\ WindowIndependent(fn, h)
    /\ h.len =< maxBundleWidth(config)
    /\ UniformWorkers(config) => WindowLaneLegal(config, fn, h)

AddHint ==
    \E h \in {[bb |-> b, at |-> a, len |-> n] :
                b \in 1..Len(fn),
                a \in UNION {1..Len(fn[c]) : c \in 1..Len(fn)},
                n \in 1..maxBundleWidth(config)} :
        /\ GoodHint(h)
        /\ \A g \in plan : ~Overlap(g, h)
        /\ plan' = plan \cup {h}
        /\ UNCHANGED <<config, fn>>

Next == AddHint

Spec == Init /\ [][Next]_<<config, fn, plan>>
=============================================================================
