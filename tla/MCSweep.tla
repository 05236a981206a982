------------------------------ MODULE MCSweep -------------------------------
(***************************************************************************)
(* TLC instance of the sweep: two kernels, a third whose source is missing *)
(* between them, two values of the option, and two cycle counts.           *)
(***************************************************************************)
EXTENDS Sweep

MCKernels == <<"fir", "gone", "dot_product">>
MCValues  == <<2, 1>>
=============================================================================
