--------------------------- MODULE MCConfigLoader ---------------------------
(***************************************************************************)
(* TLC instance of the configuration loader: up to three lane specs for    *)
(* the lanes 0, 1 and 3 on machines asked to have 0 to 3 lanes.            *)
(***************************************************************************)
EXTENDS ConfigLoader

LaneTokens == { <<ALUClasses, {"Move"}>>, <<{"Any"}>>, <<{}>>, <<>>,
                <<{"Load"}, BadToken, {"Store"}>> }

MCSpecs ==
    {[kind |-> "lane", lane |-> l, tokens |-> t] : l \in {0, 1, 3}, t \in LaneTokens}
    \cup {[kind |-> k, lane |-> 0, tokens |-> <<>>] : k \in {"blank", "malformed"}}

Upto(S, n) == UNION {[1..k -> S] : k \in 0..n}

MCCommandLines == [lanes : 0..3, emitSingle : {FALSE}, specs : Upto(MCSpecs, 3)]
=============================================================================
