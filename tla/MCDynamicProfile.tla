-------------------------- MODULE MCDynamicProfile --------------------------
(***************************************************************************)
(* TLC instance of the checker, the profiler and the straddle counter:     *)
(* MCBundleChecker's listings; those of hints, two-byte and four-byte      *)
(* instructions and branches to anywhere are run, with at most two         *)
(* transfers of control.                                                   *)
(***************************************************************************)
EXTENDS DynamicProfile, MCBundleChecker

RunShapes == {HintShape(n) : n \in {1, 2, 5}} \cup {AddAB, AddCC, Branch}

MCProfiled(p) ==
    \A i \in 1..Len(p) : \E s \in RunShapes :
        /\ s.size = p[i].size /\ s.cls = p[i].cls /\ s.hint = p[i].hint
        /\ s.reads = p[i].reads /\ s.writes = p[i].writes

MCTargets(p, i) == 1..(Len(p) + 1)
=============================================================================
