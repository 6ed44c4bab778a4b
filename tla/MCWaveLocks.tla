------------------------------ MODULE MCWaveLocks ------------------------------
(***************************************************************************)
(* Two sweeps of FSDB files, and two interactive calls that compare an     *)
(* FSDB with a VCD and name them in opposite orders.                       *)
(***************************************************************************)
EXTENDS WaveLocks

CONSTANTS sweep1, sweep2, query1, query2

MCPaths ==
    [c \in Call |-> CASE c = sweep1 -> <<1>> [] c = sweep2 -> <<2>>
                      [] c = query1 -> <<1, 3>> [] c = query2 -> <<3, 2>>]
===============================================================================
