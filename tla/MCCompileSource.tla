---------------------------- MODULE MCCompileSource ----------------------------
(***************************************************************************)
(* CompileSourceRuntime as it is, for TLC: the requests and the keys are   *)
(* model values.                                                           *)
(***************************************************************************)
EXTENDS CompileSourceRuntime
===============================================================================
