-------------------------- MODULE NetworkImportInv --------------------------
(***************************************************************************)
(* The invariant that makes the safety properties of NetworkImport         *)
(* inductive: what the lists are made from, and where the measurements     *)
(* are between the rounds of IgnoreInsufficientMeasurements.               *)
(***************************************************************************)
EXTENDS NetworkImport

(* No station is mentioned twice by a measurement that is counted for      *)
(* every mention.                                                          *)
MentionedOnce ==
    \A seq \in Inputs : \A m \in DOMAIN seq :
        seq[m].type \notin {"D", "G", "X"} => IsInjective(seq[m].stns)

Known == \A m \in DOMAIN msrs : StationsOf(msrs[m]) \subseteq Stations

(* A measurement keeps its type and its stations.                          *)
Original(seq) ==
    \A m \in DOMAIN seq :
        /\ seq[m].id \in DOMAIN input
        /\ seq[m].type = input[seq[m].id].type
        /\ seq[m].stns = input[seq[m].id].stns

InRounds == amlType = "cls_msr" /\ pc \in {"map", "complete", "detect"}

Phase ==
    /\ InRounds => options.ignoreInsufficient
    /\ pc \in {"detect", "remove"} => amlType = "cls_msr"
    /\ pc = "written" => amlType = "str_msr"

(* The lists are made from the measurements as they are.                   *)
Listed ==
    /\ pc = "complete" => Known /\ asl = MapMeasurementStations(msrs)
    /\ pc \in {"detect", "written"} =>
         LET table == CompleteAssociationLists(MapMeasurementStations(msrs), msrs, amlType)
         IN  Known /\ asl = table.asl /\ aml = table.aml
    /\ pc = "failed" => ~Known

Distinct(seq) == IsInjective([m \in DOMAIN seq |-> seq[m].id])

(* What has not been put aside is sufficient, as far as is known.          *)
Accounted ==
    /\ InRounds =>
         /\ Distinct(msrs) /\ Distinct(ignored)
         /\ Ids(msrs) \cap Ids(ignored) = {}
         /\ DOMAIN input \ NotPutAside \subseteq Ids(msrs) \cup Ids(ignored)
         /\ Sufficient(msrs) = DOMAIN msrs
         /\ Sufficient(ignored) = {}
    /\ InsufficientAddedBack

Left == {msrs[m].id : m \in Sufficient(msrs)}

(* No round takes a measurement of a set that is stable by itself; when    *)
(* the rounds end, what is left is stable.                                 *)
Largest ==
    /\ InRounds \/ (pc = "remove" /\ options.ignoreInsufficient) =>
         \A S \in SUBSET DOMAIN input : Stable(S) => S \subseteq Left
    /\ pc = "remove" /\ options.ignoreInsufficient /\ NotPutAside = {} => Stable(Left)

RoundsInv ==
    /\ Phase
    /\ Original(msrs) /\ Original(ignored)
    /\ Listed
    /\ Accounted
    /\ MentionedOnce => Largest
=============================================================================
