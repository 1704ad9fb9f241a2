-------------------------- MODULE HelmertParameters --------------------------
(***************************************************************************)
(* Reference frames, and the published sets of parameters that             *)
(* determineHelmertParameters (dnatransparamfuncs.hpp) selects for a pair  *)
(* of them.  A set is known by the two frames in the title of its          *)
(* publication; its values stay out of the model.  The versions of         *)
(* NAD83(CSRS) have the same entries and are one frame here.               *)
(***************************************************************************)

EarlyITRF == {"ITRF1988", "ITRF1989", "ITRF1990", "ITRF1991", "ITRF1992",
              "ITRF1993", "ITRF1994"}

UpTo1997 == EarlyITRF \cup {"ITRF1996", "ITRF1997"}

UpTo2005 == UpTo1997 \cup {"ITRF2000", "ITRF2005"}

ITRF == UpTo2005 \cup {"ITRF2008", "ITRF2014", "ITRF2020"}

GDA == {"GDA94", "GDA2020"}

Frames == ITRF \cup GDA \cup {"NAD83", "WGS84"}

(* isEpsgDatumStatic: the WGS84 ensemble has no motion of its own. *)
IsStatic(frame) == frame \in GDA \cup {"NAD83", "WGS84"}

IsDynamic(frame) == ~IsStatic(frame)

-----------------------------------------------------------------------------
(* What a selection comes to: a published set, used as it is or in reverse; *)
(* zeros; or an exception.                                                 *)

(* The set published from a to b. *)
Forward(a, b) == [is |-> "set", from |-> a, to |-> b, reversed |-> FALSE]

(* The set published from b to a, in reverse. *)
Reversed(a, b) == [is |-> "set", from |-> a, to |-> b, reversed |-> TRUE]

Other(outcome) == [is |-> outcome, from |-> "", to |-> "", reversed |-> FALSE]

NoChange == Other("zero")

Unavailable == Other("REFTRAN_DIRECT_PARAMS_UNAVAILABLE")

OnPlate == Other("REFTRAN_TRANS_ON_PLATE_REQUIRED")

WGS84Unsupported == Other("REFTRAN_WGS84_TRANS_UNSUPPORTED")

NotDefined == Other("runtime_error")

-----------------------------------------------------------------------------
(* One selection per frame that is transformed from. *)

GDA94Parameters(to) ==
    CASE to = "GDA94" -> NoChange
      [] to = "GDA2020" -> Forward("GDA94", to)
      [] to \in {"ITRF1996", "ITRF1997", "ITRF2000", "ITRF2005", "ITRF2008",
                 "ITRF2014"} -> Reversed("GDA94", to)
      [] to \in EarlyITRF \cup {"ITRF2020", "NAD83"} -> Unavailable
      [] OTHER -> NotDefined

GDA2020Parameters(to) ==
    CASE to = "GDA2020" -> NoChange
      [] to \in (ITRF \ EarlyITRF) \cup {"GDA94"} -> Reversed("GDA2020", to)
      [] to \in EarlyITRF \cup {"NAD83"} -> Unavailable
      [] OTHER -> NotDefined

(* The frames before 1996 are published as seen from ITRF2000, 2008, 2014, *)
(* 2020 and NAD83 only.                                                    *)
EarlyParameters(from, to) ==
    CASE to = from -> OnPlate
      [] to \in {"ITRF2000", "ITRF2008", "ITRF2014", "ITRF2020", "NAD83"} ->
            Reversed(from, to)
      [] to \in (UpTo1997 \cup GDA \cup {"ITRF2005"}) \ {from} -> Unavailable
      [] OTHER -> NotDefined

ITRF1988Parameters(to) == EarlyParameters("ITRF1988", to)
ITRF1989Parameters(to) == EarlyParameters("ITRF1989", to)
ITRF1990Parameters(to) == EarlyParameters("ITRF1990", to)
ITRF1991Parameters(to) == EarlyParameters("ITRF1991", to)
ITRF1992Parameters(to) == EarlyParameters("ITRF1992", to)
ITRF1993Parameters(to) == EarlyParameters("ITRF1993", to)
ITRF1994Parameters(to) == EarlyParameters("ITRF1994", to)

ITRF1996Parameters(to) ==
    IF to \in GDA
    THEN Forward("ITRF1996", to)
    ELSE EarlyParameters("ITRF1996", to)

ITRF1997Parameters(to) ==
    IF to \in GDA
    THEN Forward("ITRF1997", to)
    ELSE EarlyParameters("ITRF1997", to)

ITRF2000Parameters(to) ==
    CASE to = "ITRF2000" -> OnPlate
      [] to \in GDA \cup UpTo1997 -> Forward("ITRF2000", to)
      [] to \in {"ITRF2005", "ITRF2008", "ITRF2014", "ITRF2020", "NAD83"} ->
            Reversed("ITRF2000", to)
      [] OTHER -> NotDefined

ITRF2005Parameters(to) ==
    CASE to = "ITRF2005" -> OnPlate
      [] to \in GDA \cup {"ITRF2000"} -> Forward("ITRF2005", to)
      [] to \in {"ITRF2008", "ITRF2014", "ITRF2020", "NAD83"} ->
            Reversed("ITRF2005", to)
      [] to \in UpTo1997 -> Unavailable
      [] OTHER -> NotDefined

ITRF2008Parameters(to) ==
    CASE to = "ITRF2008" -> OnPlate
      [] to \in GDA \cup UpTo2005 -> Forward("ITRF2008", to)
      [] to \in {"ITRF2014", "ITRF2020", "NAD83"} -> Reversed("ITRF2008", to)
      [] OTHER -> NotDefined

ITRF2014ParametersForward(to) ==                                \* mutant
    CASE to = "ITRF2014" -> OnPlate
      [] to = "ITRF1988" -> Forward("ITRF2014", "ITRF1989")
      [] to \in (GDA \cup UpTo2005 \cup {"ITRF2008"}) \ {"ITRF1988"} ->
            Forward("ITRF2014", to)
      [] to \in {"ITRF2020", "NAD83"} -> Forward(to, "ITRF2014")
      [] OTHER -> NotDefined

(* To ITRF1988 the parameters to ITRF1989 are copied. *)
ITRF2014Parameters(to) ==
    CASE to = "ITRF2014" -> OnPlate
      [] to = "ITRF1988" -> Forward("ITRF2014", "ITRF1989")
      [] to \in (GDA \cup UpTo2005 \cup {"ITRF2008"}) \ {"ITRF1988"} ->
            Forward("ITRF2014", to)
      [] to \in {"ITRF2020", "NAD83"} -> Reversed("ITRF2014", to)
      [] OTHER -> NotDefined

ITRF2020Parameters(to) ==
    CASE to = "ITRF2020" -> OnPlate
      [] to \in UpTo2005 \cup {"ITRF2008", "ITRF2014", "GDA2020"} ->
            Forward("ITRF2020", to)
      [] to = "NAD83" -> Reversed("ITRF2020", to)
      [] to = "GDA94" -> Unavailable
      [] OTHER -> NotDefined

NAD83Parameters(to) ==
    CASE to = "NAD83" -> NoChange
      [] to \in ITRF -> Forward("NAD83", to)
      [] to \in GDA -> Unavailable
      [] OTHER -> NotDefined

(* The selection for a pair of frames, of any one that is transformed from. *)
ParametersOf(from, to) ==
    CASE from = "GDA94" -> GDA94Parameters(to)
      [] from = "GDA2020" -> GDA2020Parameters(to)
      [] from = "ITRF1988" -> ITRF1988Parameters(to)
      [] from = "ITRF1989" -> ITRF1989Parameters(to)
      [] from = "ITRF1990" -> ITRF1990Parameters(to)
      [] from = "ITRF1991" -> ITRF1991Parameters(to)
      [] from = "ITRF1992" -> ITRF1992Parameters(to)
      [] from = "ITRF1993" -> ITRF1993Parameters(to)
      [] from = "ITRF1994" -> ITRF1994Parameters(to)
      [] from = "ITRF1996" -> ITRF1996Parameters(to)
      [] from = "ITRF1997" -> ITRF1997Parameters(to)
      [] from = "ITRF2000" -> ITRF2000Parameters(to)
      [] from = "ITRF2005" -> ITRF2005Parameters(to)
      [] from = "ITRF2008" -> ITRF2008Parameters(to)
      [] from = "ITRF2014" -> ITRF2014Parameters(to)
      [] from = "ITRF2020" -> ITRF2020Parameters(to)
      [] from = "NAD83" -> NAD83Parameters(to)
      [] from = "WGS84" -> WGS84Unsupported
      [] OTHER -> NotDefined

(* All selections in a table. *)
HelmertParameters ==
    [pair \in Frames \X Frames |-> ParametersOf(pair[1], pair[2])]

-----------------------------------------------------------------------------
(* The parameters are those of the pair, in its direction. *)
Fits(parameters, from, to) ==
    parameters = Forward(from, to) \/ parameters = Reversed(from, to)
=============================================================================
