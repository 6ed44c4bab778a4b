--------------------------- MODULE MCStructuralScan ---------------------------
(***************************************************************************)
(* Two scans, of the same options or of different ones, beside one         *)
(* hierarchy build and one edit of the sources.  A result of either        *)
(* options fits into the cache, both do not.                               *)
(***************************************************************************)
EXTENDS StructuralScanRuntime

CONSTANTS c1, c2

MCPlan ==
    { [c \in Call |-> "all"],
      [c \in Call |-> IF c = c2 THEN "some" ELSE "all"] }
MCBytes == [o \in Option |-> IF o = "all" THEN 2 ELSE 1]
===============================================================================
