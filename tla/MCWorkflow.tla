------------------------------ MODULE MCWorkflow ------------------------------
(* Instances of Workflow for TLC.                                             *)
EXTENDS Workflow, TLC

(* Each program by itself, and the driver with all of them and with the three *)
(* that an adjustment in blocks needs.                                        *)
Calls ==
    {{"import"}, {"reftran"}, {"geoid"}, {"segment"}, {"adjust"},
     {"import", "segment", "adjust"},
     {"import", "reftran", "geoid", "segment", "adjust"}}

WorkflowSymmetry == Permutations(Imports) \cup Permutations(Geoids)
===============================================================================
