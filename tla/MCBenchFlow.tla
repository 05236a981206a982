---------------------------- MODULE MCBenchFlow ----------------------------
(***************************************************************************)
(* TLC instance of the benchmark flow: a kernel's three simulations on a   *)
(* pool of two threads, each with any of two checksums or any failure.     *)
(***************************************************************************)
EXTENDS BenchFlow

OneKernel == <<"fir">>
=============================================================================
