------------------- MODULE MCReferenceFrameTransformation -------------------
(***************************************************************************)
(* Small instances of ReferenceFrameTransformation.                        *)
(***************************************************************************)
EXTENDS ReferenceFrameTransformationInv

On(frame, date) == [frame |-> frame, epoch |-> date]

(* The second measurement is not subject to a datum. *)
Types == <<"G", "D", "Y">>

NetworksOf(labels) ==
    [stns : labels \X labels, msrs : labels \X {On("GDA94", 0)} \X labels]

(* Static and dynamic frames, with and without parameters to one another;  *)
(* WGS84 with a date and without.                                          *)
Mixed ==
    NetworksOf({On("GDA94", 0), On("ITRF1997", 20200601), On("ITRF2014", 0),
                On("WGS84", 19900601)})
        \cup NetworksOf({On("WGS84", 0), On("GDA94", 20000101)})

Uniform == UNION {NetworksOf({On(f, 20200601)}) : f \in Frames \ {"NAD83"}}

AllFrames == Mixed \cup Uniform

(* Not to NAD83, whose joins need two epochs, nor to ITRF1988, for which   *)
(* the parameters of ITRF1989 are kept: the README tells of both.          *)
AllTargets ==
    {On(f, 20200601) : f \in Frames \ {"NAD83", "ITRF1988"}}
        \cup {On("ITRF2020", 20230601)}
=============================================================================
