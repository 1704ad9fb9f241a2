------------------ MODULE ReferenceFrameTransformationProofs ------------------
(***************************************************************************)
(* Proofs about ReferenceFrameTransformation, for all networks, types of    *)
(* measurements, targets and numbers of runs.                               *)
(***************************************************************************)
EXTENDS ReferenceFrameTransformationInv, SequenceTheorems, TLAPS

-----------------------------------------------------------------------------
(* The table of parameters.                                                 *)

(* What a selection comes to depends on the pair in one of these ways.  Only *)
(* NAD83 has sets from a static frame to a dynamic one that are used        *)
(* forward, or the other way round in reverse, or lacks a set to another    *)
(* static frame.                                                            *)
TableEntry(a, b, selected) ==
    \/ a = b /\ IsStatic(a) /\ a # "WGS84" /\ selected = NoChange
    \/ a = b /\ IsDynamic(a) /\ selected = OnPlate
    \/ /\ a # b /\ a # "WGS84" /\ b # "WGS84"
       /\ selected = Forward(a, b)
       /\ IsStatic(a) /\ IsDynamic(b) => a = "NAD83"
    \/ /\ a # b /\ a # "WGS84" /\ b # "WGS84"
       /\ selected = Reversed(a, b)
       /\ IsDynamic(a) /\ IsStatic(b) => b = "NAD83"
    \/ a = "ITRF2014" /\ b = "ITRF1988" /\ selected = Forward(a, "ITRF1989")
    \/ /\ a # b /\ {a, b} \cap {"WGS84", "ITRF2014"} = {}
       /\ selected = Unavailable
       /\ IsStatic(a) /\ IsStatic(b) => "NAD83" \in {a, b}
    \/ a = "WGS84" /\ selected = WGS84Unsupported
    \/ a # "WGS84" /\ b = "WGS84" /\ selected = NotDefined

LEMMA EarlyTable ==
  ASSUME NEW a \in UpTo1997, NEW b \in Frames
  PROVE  TableEntry(a, b, EarlyParameters(a, b))
  BY DEF TableEntry, EarlyParameters, UpTo1997, EarlyITRF, Frames, ITRF, UpTo2005, GDA,
         IsStatic, IsDynamic

LEMMA GDATable ==
  ASSUME NEW b \in Frames
  PROVE  /\ TableEntry("GDA94", b, GDA94Parameters(b))
         /\ TableEntry("GDA2020", b, GDA2020Parameters(b))
         /\ TableEntry("NAD83", b, NAD83Parameters(b))
  BY DEF TableEntry, GDA94Parameters, GDA2020Parameters, NAD83Parameters,
         UpTo1997, EarlyITRF, Frames, ITRF, UpTo2005, GDA, IsStatic, IsDynamic

LEMMA LateTable ==
  ASSUME NEW b \in Frames
  PROVE  /\ TableEntry("ITRF1996", b, ITRF1996Parameters(b))
         /\ TableEntry("ITRF1997", b, ITRF1997Parameters(b))
         /\ TableEntry("ITRF2000", b, ITRF2000Parameters(b))
         /\ TableEntry("ITRF2005", b, ITRF2005Parameters(b))
         /\ TableEntry("ITRF2008", b, ITRF2008Parameters(b))
         /\ TableEntry("ITRF2014", b, ITRF2014Parameters(b))
         /\ TableEntry("ITRF2020", b, ITRF2020Parameters(b))
  <1> USE DEF TableEntry, UpTo1997, EarlyITRF, Frames, ITRF, UpTo2005, GDA, IsStatic, IsDynamic
  <1>1. TableEntry("ITRF1996", b, ITRF1996Parameters(b))
    BY EarlyTable DEF ITRF1996Parameters
  <1>2. TableEntry("ITRF1997", b, ITRF1997Parameters(b))
    BY EarlyTable DEF ITRF1997Parameters
  <1>3. TableEntry("ITRF2000", b, ITRF2000Parameters(b))
    BY DEF ITRF2000Parameters
  <1>4. TableEntry("ITRF2005", b, ITRF2005Parameters(b))
    BY DEF ITRF2005Parameters
  <1>5. TableEntry("ITRF2008", b, ITRF2008Parameters(b))
    BY DEF ITRF2008Parameters
  <1>6. TableEntry("ITRF2014", b, ITRF2014Parameters(b))
    BY DEF ITRF2014Parameters
  <1>7. TableEntry("ITRF2020", b, ITRF2020Parameters(b))
    BY DEF ITRF2020Parameters
  <1> QED
    BY <1>1, <1>2, <1>3, <1>4, <1>5, <1>6, <1>7

LEMMA Table ==
  ASSUME NEW a \in Frames, NEW b \in Frames
  PROVE  TableEntry(a, b, HelmertParameters[<<a, b>>])
  <1>1. CASE a \in EarlyITRF
    <2>1. HelmertParameters[<<a, b>>] = EarlyParameters(a, b)
      BY <1>1 DEF HelmertParameters, ParametersOf, EarlyITRF, ITRF1988Parameters, ITRF1989Parameters,
         ITRF1990Parameters, ITRF1991Parameters, ITRF1992Parameters, ITRF1993Parameters,
         ITRF1994Parameters
    <2> QED
      BY <1>1, <2>1, EarlyTable DEF UpTo1997
  <1>2. CASE a \in {"GDA94", "GDA2020", "NAD83"}
    BY <1>2, GDATable DEF HelmertParameters, ParametersOf
  <1>3. CASE a = "WGS84"
    BY <1>3 DEF HelmertParameters, ParametersOf, TableEntry
  <1>4. CASE a \in {"ITRF1996", "ITRF1997", "ITRF2000", "ITRF2005", "ITRF2008", "ITRF2014",
                    "ITRF2020"}
    BY <1>4, LateTable DEF HelmertParameters, ParametersOf
  <1> QED
    BY <1>1, <1>2, <1>3, <1>4 DEF Frames, ITRF, UpTo2005, UpTo1997, GDA

(* What selections differ in.                                               *)
LEMMA Fields ==
  /\ NoChange.is = "zero" /\ NoChange.from = ""
  /\ OnPlate.is = "REFTRAN_TRANS_ON_PLATE_REQUIRED"
  /\ Unavailable.is = "REFTRAN_DIRECT_PARAMS_UNAVAILABLE"
  /\ WGS84Unsupported.is = "REFTRAN_WGS84_TRANS_UNSUPPORTED"
  /\ NotDefined.is = "runtime_error" /\ NotDefined.from = ""
  /\ \A a, b : Forward(a, b).is = "set" /\ Reversed(a, b).is = "set"
  BY DEF NoChange, OnPlate, Unavailable, WGS84Unsupported, NotDefined, Other, Forward, Reversed

LEMMA TableFinds ==
  ASSUME NEW a \in Frames, NEW b \in Frames
  PROVE  LET P == HelmertParameters[<<a, b>>]
         IN  /\ Found(P) => P \in Selections /\ P.is # "REFTRAN_DIRECT_PARAMS_UNAVAILABLE"
             /\ P.is = "REFTRAN_DIRECT_PARAMS_UNAVAILABLE" <=> P = Unavailable
             /\ P.is # "nothing"
  <1> DEFINE P == HelmertParameters[<<a, b>>]
  <1>1. TableEntry(a, b, P)
    BY Table
  <1> HIDE DEF P
  <1>2. Forward(a, b) \in Selections /\ Reversed(a, b) \in Selections
    BY DEF Selections
  <1>3. a = "ITRF2014" => Forward(a, "ITRF1989") \in Selections
    BY DEF Selections, Frames, ITRF, UpTo2005, UpTo1997, EarlyITRF
  <1>4. NoChange \in Selections
    BY DEF Selections
  <1>5. Found(P) => P \in Selections
    BY <1>1, <1>2, <1>3, <1>4, Fields DEF TableEntry, Found
  <1>6. /\ P.is = "REFTRAN_DIRECT_PARAMS_UNAVAILABLE" <=> P = Unavailable
        /\ P.is # "nothing"
    BY <1>1, Fields DEF TableEntry
  <1>7. Found(P) => P.is # "REFTRAN_DIRECT_PARAMS_UNAVAILABLE"
    BY DEF Found
  <1> QED
    BY <1>5, <1>6, <1>7 DEF P

-----------------------------------------------------------------------------
(* One step of a transformation.                                            *)

(* A cache without a pair is told from one with a pair of frames.           *)
LEMMA PairTold ==
  ASSUME NEW a \in Frames, NEW b \in Frames
  PROVE  NoCache.fromTo # <<a, b>> /\ <<a, b>> \in Pairs
  <1>1. a # ""
    BY DEF Frames, ITRF, UpTo2005, UpTo1997, EarlyITRF, GDA
  <1>2. NoCache.fromTo = <<"", "">>
    BY DEF NoCache, Failure
  <1>3. <<a, b>> # <<"", "">>
    BY <1>1
  <1> QED
    BY <1>2, <1>3 DEF Pairs

(* What is obtained for a pair are its parameters, kept or selected.        *)
LEMMA Obtained ==
  ASSUME NEW from \in Label, NEW to \in Label, NEW target \in Frames, to.frame \in {target, "ITRF2014"},
         NEW used \in Caches, Remembers(used, target)
  PROVE  LET o == ObtainHelmertParameters(used, from, to)
             P == HelmertParameters[<<from.frame, to.frame>>]
         IN  /\ Found(P) => /\ o.raised = "nothing"
                            /\ o.cache \in Caches /\ Remembers(o.cache, target)
                            /\ o.cache.parameters = P
             /\ ~Found(P) => o.raised = P.is /\ o.cache \in Caches
  <1> DEFINE a == from.frame
             b == to.frame
             P == HelmertParameters[<<a, b>>]
             o == ObtainHelmertParameters(used, from, to)
  <1>0. a \in Frames /\ b \in Frames /\ "" \notin Frames
    BY DEF Label, Frames, ITRF, UpTo2005, UpTo1997, EarlyITRF, GDA
  <1>1. Found(P) => P \in Selections
    BY <1>0, TableFinds
  <1>2. used.parameters \in Selections
    BY DEF Caches
  <1>3. CASE used.fromTo = <<a, b>>
    <2>1. used.fromTo # NoCache.fromTo
      BY <1>0, <1>3, PairTold
    <2>2. PICK x \in Frames, y \in {target, "ITRF2014"} : /\ used.fromTo = <<x, y>>
                                            /\ used.parameters = HelmertParameters[<<x, y>>]
                                            /\ Found(used.parameters)
      BY <2>1 DEF Remembers
    <2>3. x = a /\ y = b
      BY <1>3, <2>2
    <2>4. o = [raised |-> "nothing", cache |-> used]
      BY <1>3 DEF ObtainHelmertParameters
    <2> QED
      BY <2>2, <2>3, <2>4
  <1>4. CASE used.fromTo # <<a, b>>
    <2>1. /\ o.raised = IF Found(P) THEN "nothing" ELSE P.is
          /\ o.cache = [fromTo |-> <<a, b>>,
                        parameters |-> IF Found(P) THEN P ELSE used.parameters]
      BY <1>4 DEF ObtainHelmertParameters, Found
    <2>2. PICK pair \in Pairs : pair = <<a, b>>
      BY <1>0, PairTold
    <2>3. (IF Found(P) THEN P ELSE used.parameters) \in Selections
      BY <1>1, <1>2
    <2> HIDE DEF P, o
    <2>4. /\ o.cache \in Caches
          /\ o.cache.fromTo = pair
          /\ Found(P) => o.cache.parameters = P
      BY <2>1, <2>2, <2>3 DEF Caches
    <2>5. Found(P) => Remembers(o.cache, target)
      BY <1>0, <2>2, <2>4 DEF Remembers, P
    <2> QED
      BY <2>1, <2>4, <2>5 DEF P, o
  <1> QED
    BY <1>3, <1>4

LEMMA FailureFails == Failure.failed = TRUE
  BY DEF Failure

(* The result of a step that ends well with coordinates x.                  *)
Yields(r, x, target) == \E k \in Caches : Remembers(k, target) /\ r = Result(x, k)

(* A transformation without the motion of a plate applies the parameters of *)
(* the pair, joins two steps if there are none, or fails.                   *)
LEMMA WithoutPlate ==
  ASSUME NEW from \in Label, NEW to \in Label, NEW target \in Frames, to.frame \in {target, "ITRF2014"},
         NEW used \in Caches, Remembers(used, target),
         NEW c, NEW type, NEW from_, NEW to_,
         NEW r \in WithoutPlateMotionModel(c, from, to, used, type, from_, to_)
  PROVE  LET P == HelmertParameters[<<from.frame, to.frame>>]
         IN  \/ /\ Found(P)
                /\ Yields(r, Transform7Parameter(c, P, DateFor(from, to, P, type, from_, to_)), target)
             \/ P = Unavailable /\ \E k \in Caches : r \in Join(c, from, to, k, from_, to_)
             \/ ~Found(P) /\ P # Unavailable /\ r = Failure
  <1> DEFINE P == HelmertParameters[<<from.frame, to.frame>>]
             o == ObtainHelmertParameters(used, from, to)
  <1>0. from.frame \in Frames /\ to.frame \in Frames
    BY DEF Label
  <1>1. r \in CASE o.raised = "nothing" ->
                     {Result(Transform7Parameter(c, o.cache.parameters,
                                 DateFor(from, to, o.cache.parameters, type, from_, to_)),
                             o.cache)}
                [] o.raised = "REFTRAN_DIRECT_PARAMS_UNAVAILABLE" ->
                     Join(c, from, to, o.cache, from_, to_)
                [] OTHER -> {Failure}
    BY DEF WithoutPlateMotionModel
  <1>2. CASE Found(P)
    <2>1. o.raised = "nothing" /\ o.cache \in Caches /\ Remembers(o.cache, target)
          /\ o.cache.parameters = P
      BY <1>2, Obtained
    <2>2. r = Result(Transform7Parameter(c, P, DateFor(from, to, P, type, from_, to_)), o.cache)
      BY <1>1, <2>1
    <2> QED
      BY <1>2, <2>1, <2>2 DEF Yields
  <1>3. CASE ~Found(P)
    <2>1. o.raised = P.is /\ o.cache \in Caches /\ P.is # "nothing"
      BY <1>0, <1>3, Obtained, TableFinds
    <2>2. CASE P = Unavailable
      <3>1. o.raised = "REFTRAN_DIRECT_PARAMS_UNAVAILABLE"
        BY <1>0, <2>1, <2>2, TableFinds
      <3> HIDE DEF P, o
      <3>2. r \in Join(c, from, to, o.cache, from_, to_)
        BY <1>1, <3>1
      <3> QED
        BY <2>1, <2>2, <3>2 DEF P
    <2>3. CASE P # Unavailable
      BY <1>0, <1>1, <1>3, <2>1, <2>3, TableFinds
    <2> QED
      BY <2>2, <2>3
  <1> QED
    BY <1>2, <1>3

-----------------------------------------------------------------------------
(* The routes of a transformation.                                          *)

(* Of ITRF2014 there are parameters to and from any other frame.            *)
LEMMA OverITRF2014 ==
  ASSUME NEW a \in Frames \ {"WGS84", "ITRF2014"}
  PROVE  LET into == HelmertParameters[<<a, "ITRF2014">>]
             outOf == HelmertParameters[<<"ITRF2014", a>>]
         IN  /\ into.is = "set" /\ Fits(into, a, "ITRF2014") /\ into # OnPlate
             /\ outOf.is = "set" /\ outOf # OnPlate
             /\ Fits(outOf, "ITRF2014", a) \/ a = "ITRF1988"
             /\ into \in Selections /\ outOf \in Selections
  <1> DEFINE into == HelmertParameters[<<a, "ITRF2014">>]
             outOf == HelmertParameters[<<"ITRF2014", a>>]
  <1>1. "ITRF2014" \in Frames /\ IsDynamic("ITRF2014")
    BY DEF Frames, ITRF, IsDynamic, IsStatic, GDA
  <1>2. TableEntry(a, "ITRF2014", into) /\ TableEntry("ITRF2014", a, outOf)
    BY <1>1, Table
  <1> HIDE DEF into, outOf
  <1>3. into = Forward(a, "ITRF2014") \/ into = Reversed(a, "ITRF2014")
    BY <1>2 DEF TableEntry
  <1>4. \/ outOf = Forward("ITRF2014", a) \/ outOf = Reversed("ITRF2014", a)
        \/ outOf = Forward("ITRF2014", "ITRF1989") /\ a = "ITRF1988"
    BY <1>2 DEF TableEntry
  <1>5. into.is = "set" /\ outOf.is = "set"
    BY <1>3, <1>4, Fields
  <1>6. into \in Selections /\ outOf \in Selections
    BY <1>1, <1>5, TableFinds DEF Found, into, outOf
  <1> QED
    BY <1>3, <1>4, <1>5, <1>6, Fields DEF Fits, into, outOf

(* A join of two steps succeeds with the parameters of both.                *)
LEMMA JoinRoute ==
  ASSUME NEW from \in Label, NEW to \in Label, NEW target \in Frames, NEW k \in Caches, NEW c, NEW from_, NEW to_,
         HelmertParameters[<<from.frame, to.frame>>] = Unavailable,
         NEW r \in Join(c, from, to, k, from_, to_)
  PROVE  LET into == HelmertParameters[<<from.frame, "ITRF2014">>]
             outOf == HelmertParameters[<<"ITRF2014", to.frame>>]
             typeIn == IF IsStatic(from.frame) THEN "static to step" ELSE "dynamic to step"
             typeOut == IF IsStatic(to.frame) THEN "step to static" ELSE "step to dynamic"
         IN  /\ {from.frame, to.frame} \cap {"WGS84", "ITRF2014"} = {}
             /\ from.frame # to.frame
             /\ Yields(r, Transform7Parameter(
                              Transform7Parameter(c, into,
                                  DateFor(from, to, into, typeIn, from_, to_)),
                              outOf, DateFor(from, to, outOf, typeOut, from_, to_)), target)
  <1> DEFINE into == HelmertParameters[<<from.frame, "ITRF2014">>]
             outOf == HelmertParameters[<<"ITRF2014", to.frame>>]
             typeIn == IF IsStatic(from.frame) THEN "static to step" ELSE "dynamic to step"
             typeOut == IF IsStatic(to.frame) THEN "step to static" ELSE "step to dynamic"
             dateIn == DateFor(from, to, into, typeIn, from_, to_)
             dateOut == DateFor(from, to, outOf, typeOut, from_, to_)
             start == Result(c, [k EXCEPT !.fromTo = <<"", "">>])
             middle == [start EXCEPT !.coordinates = Transform7Parameter(@, into, dateIn)]
             end == [middle EXCEPT !.coordinates = Transform7Parameter(@, outOf, dateOut)]
  <1>1. from.frame \in Frames /\ to.frame \in Frames
    BY DEF Label
  <1>2. /\ {from.frame, to.frame} \cap {"WGS84", "ITRF2014"} = {}
        /\ from.frame # to.frame
    <2>1. TableEntry(from.frame, to.frame, Unavailable)
      BY <1>1, Table
    <2> QED
      BY <2>1, Fields DEF TableEntry
  <1>3. /\ into.is = "set" /\ into # OnPlate
        /\ outOf.is = "set" /\ outOf # OnPlate
    BY <1>1, <1>2, OverITRF2014
  <1>4. start.failed = FALSE /\ middle.failed = FALSE /\ end.failed = FALSE
    BY DEF Result
  <1>5. NoCache.fromTo = <<"", "">>
    BY DEF NoCache, Failure
  <1>6. r \in IF {into.is, outOf.is} \subseteq {"set", OnPlate.is}
             THEN UNION {IF x.failed THEN {x}
                         ELSE {[x EXCEPT !.coordinates =
                                  IF outOf = OnPlate
                                  THEN Propagate(@, from.epoch, to.epoch)
                                  ELSE Transform7Parameter(@, outOf, dateOut)]} :
                         x \in {[start EXCEPT !.coordinates =
                                  IF into = OnPlate
                                  THEN Propagate(@, from.epoch, to.epoch)
                                  ELSE Transform7Parameter(@, into, dateIn)]}}
             ELSE {Failure}
    BY DEF Join, Then
  <1> HIDE DEF into, outOf
  <1>a. middle = [start EXCEPT !.coordinates = IF into = OnPlate
                                               THEN Propagate(@, from.epoch, to.epoch)
                                               ELSE Transform7Parameter(@, into, dateIn)]
    BY <1>3
  <1>b. end = [middle EXCEPT !.coordinates = IF outOf = OnPlate
                                             THEN Propagate(@, from.epoch, to.epoch)
                                             ELSE Transform7Parameter(@, outOf, dateOut)]
    BY <1>3
  <1> HIDE DEF start, middle, end
  <1>c. r \in IF middle.failed THEN {middle}
             ELSE {[middle EXCEPT !.coordinates = IF outOf = OnPlate
                                                  THEN Propagate(@, from.epoch, to.epoch)
                                                  ELSE Transform7Parameter(@, outOf, dateOut)]}
    BY <1>3, <1>6, <1>a
  <1>7. r = end
    BY <1>4, <1>b, <1>c
  <1>8. r = Result(Transform7Parameter(Transform7Parameter(c, into, dateIn), outOf, dateOut),
                   [k EXCEPT !.fromTo = NoCache.fromTo])
    BY <1>5, <1>7 DEF Result, start, middle, end
  <1>9. [k EXCEPT !.fromTo = NoCache.fromTo] \in Caches
        /\ Remembers([k EXCEPT !.fromTo = NoCache.fromTo], target)
    BY DEF Caches, Remembers, Pairs
  <1> QED
    BY <1>2, <1>8, <1>9 DEF into, outOf, Yields

(* A step between ITRF2014 and another dynamic frame applies the parameters *)
(* at the date it starts from.                                              *)
LEMMA PlateStep ==
  ASSUME NEW from \in Label, NEW to \in Label, NEW target \in Frames, to.frame \in {target, "ITRF2014"},
         NEW used \in Caches, Remembers(used, target),
         IsDynamic(from.frame), IsDynamic(to.frame),
         from.frame = "ITRF2014" \/ to.frame = "ITRF2014", from.frame # to.frame,
         NEW c, NEW from_, NEW to_,
         NEW r \in WithoutPlateMotionModel(c, from, to, used, "dynamic to dynamic", from_, to_)
  PROVE  Yields(r, Transform7Parameter(c, HelmertParameters[<<from.frame, to.frame>>], from.epoch), target)
  <1> DEFINE P == HelmertParameters[<<from.frame, to.frame>>]
  <1>1. from.frame \in Frames \ {"WGS84"} /\ to.frame \in Frames \ {"WGS84"}
    BY DEF Label, IsDynamic, IsStatic
  <1>2. P.is = "set"
    BY <1>1, OverITRF2014
  <1>3. Found(P) /\ P # Unavailable
    BY <1>1, <1>2, TableFinds DEF Found
  <1>4. DateFor(from, to, P, "dynamic to dynamic", from_, to_) = from.epoch
    BY DEF DateFor
  <1> HIDE DEF P
  <1> QED
    BY <1>3, <1>4, WithoutPlate DEF P

(* With the motion of a plate: into ITRF2014, along the plate, out of it.   *)
InITRF2014(c, from) ==
    IF from.frame = "ITRF2014"
    THEN c
    ELSE Transform7Parameter(c, HelmertParameters[<<from.frame, "ITRF2014">>], from.epoch)

OutOfITRF2014(c, to) ==
    IF to.frame = "ITRF2014"
    THEN c
    ELSE Transform7Parameter(c, HelmertParameters[<<"ITRF2014", to.frame>>], to.epoch)

LEMMA PlateRoute ==
  ASSUME NEW from \in Label, NEW to \in Label, NEW target \in Frames, to.frame \in {target, "ITRF2014"},
         NEW used \in Caches, Remembers(used, target),
         IsDynamic(from.frame), IsDynamic(to.frame), NEW plateKnown, NEW c, NEW from_, NEW to_,
         NEW r \in WithPlateMotionModel(c, from, to, used, plateKnown, from_, to_)
  PROVE  \/ ~plateKnown /\ r = Failure
         \/ /\ plateKnown
            /\ Yields(r, OutOfITRF2014(Propagate(InITRF2014(c, from), from.epoch, to.epoch), to), target)
  <1> DEFINE step1 == ITRF2014At(from.epoch)
             step2 == ITRF2014At(to.epoch)
             ToStep == IF from.frame = step1.frame
                       THEN {Result(c, used)}
                       ELSE WithoutPlateMotionModel(Result(c, used).coordinates, from, step1,
                                Result(c, used).cache, "dynamic to dynamic", from_, to_)
             AlongPlate(x) == IF plateKnown
                              THEN {[x EXCEPT !.coordinates =
                                        Propagate(@, from.epoch, to.epoch)]}
                              ELSE {Failure}
             FromStep(x) == IF step2.frame = to.frame
                            THEN {x}
                            ELSE WithoutPlateMotionModel(x.coordinates, step2, to, x.cache,
                                     "dynamic to dynamic", from_, to_)
             First == UNION {IF x.failed THEN {x} ELSE AlongPlate(x) : x \in ToStep}
  <1>1. r \in UNION {IF x.failed THEN {x} ELSE FromStep(x) : x \in First}
    BY DEF WithPlateMotionModel, Then
  <1>2. step1 \in Label /\ step2 \in Label /\ step1.frame = "ITRF2014" /\ step2.frame = "ITRF2014"
        /\ step1.epoch = from.epoch /\ step2.epoch = to.epoch /\ IsDynamic("ITRF2014")
    BY DEF Label, ITRF2014At, Frames, ITRF, IsDynamic, IsStatic, GDA
  <1> HIDE DEF step1, step2
  <1>3. ASSUME NEW x \in ToStep
        PROVE  Yields(x, InITRF2014(c, from), target)
    <2>1. CASE from.frame = "ITRF2014"
      BY <1>2, <1>3, <2>1 DEF Yields, InITRF2014
    <2>2. CASE from.frame # "ITRF2014"
      <3>1. x \in WithoutPlateMotionModel(c, from, step1, used, "dynamic to dynamic", from_, to_)
        BY <1>2, <1>3, <2>2 DEF Result
      <3>2. Yields(x, Transform7Parameter(c, HelmertParameters[<<from.frame, step1.frame>>],
                                          from.epoch), target)
        BY <1>2, <2>2, <3>1, PlateStep
      <3> QED
        BY <1>2, <2>2, <3>2 DEF InITRF2014
    <2> QED
      BY <2>1, <2>2
  <1> HIDE DEF ToStep
  <1>4. ASSUME NEW y \in First
        PROVE  \/ ~plateKnown /\ y = Failure
               \/ plateKnown /\ Yields(y, Propagate(InITRF2014(c, from), from.epoch, to.epoch), target)
    <2>1. PICK x \in ToStep : y \in IF x.failed THEN {x} ELSE AlongPlate(x)
      BY <1>4
    <2>2. PICK k \in Caches : Remembers(k, target) /\ x = Result(InITRF2014(c, from), k)
      BY <1>3 DEF Yields
    <2>3. y \in AlongPlate(x)
      BY <2>1, <2>2 DEF Result
    <2>4. CASE ~plateKnown
      BY <2>3, <2>4
    <2>5. CASE plateKnown
      <3>1. y = [x EXCEPT !.coordinates = Propagate(@, from.epoch, to.epoch)]
        BY <2>3, <2>5
      <3>2. y = Result(Propagate(InITRF2014(c, from), from.epoch, to.epoch), k)
        BY <2>2, <3>1 DEF Result
      <3> QED
        BY <2>2, <2>5, <3>2 DEF Yields
    <2> QED
      BY <2>4, <2>5
  <1> HIDE DEF First
  <1>5. PICK y \in First : r \in IF y.failed THEN {y} ELSE FromStep(y)
    BY <1>1
  <1>6. CASE ~plateKnown
    BY <1>4, <1>5, <1>6, FailureFails
  <1>7. CASE plateKnown
    <2> DEFINE x == Propagate(InITRF2014(c, from), from.epoch, to.epoch)
    <2>1. PICK k \in Caches : Remembers(k, target) /\ y = Result(x, k)
      BY <1>4, <1>7 DEF Yields
    <2>2. r \in FromStep(y)
      BY <1>5, <2>1 DEF Result
    <2>3. CASE to.frame = "ITRF2014"
      BY <1>2, <1>7, <2>1, <2>2, <2>3 DEF OutOfITRF2014, Yields
    <2>4. CASE to.frame # "ITRF2014"
      <3>1. r \in WithoutPlateMotionModel(x, step2, to, k, "dynamic to dynamic", from_, to_)
        BY <1>2, <2>1, <2>2, <2>4 DEF Result
      <3>2. Yields(r, Transform7Parameter(x, HelmertParameters[<<step2.frame, to.frame>>],
                                          step2.epoch), target)
        BY <1>2, <2>1, <2>4, <3>1, PlateStep
      <3> QED
        BY <1>2, <1>7, <2>4, <3>2 DEF OutOfITRF2014
    <2> QED
      BY <2>3, <2>4
  <1> QED
    BY <1>6, <1>7

-----------------------------------------------------------------------------
(* What a transformation comes to.                                          *)

(* Parameters applied to coordinates give coordinates.                      *)
LEMMA SevenParameterType ==
  ASSUME NEW c \in Coordinates, NEW P \in Selections, NEW date \in Nat
  PROVE  Transform7Parameter(c, P, date) \in Coordinates
  <1>1. CASE P = NoChange
    BY <1>1 DEF Transform7Parameter
  <1>2. CASE P # NoChange /\ c.frame = P.from /\ (IsDynamic(c.frame) => c.epoch = date)
    <2>1. Transform7Parameter(c, P, date) = At(P.to, date)
      BY <1>2 DEF Transform7Parameter
    <2>2. c.frame # ""
      BY DEF Coordinates, Frames, ITRF, UpTo2005, UpTo1997, EarlyITRF, GDA
    <2>3. P # NotDefined
      BY <1>2, <2>2, Fields
    <2>4. P.to \in Frames
      BY <1>2, <2>3 DEF Selections, Forward, Reversed
    <2> QED
      BY <2>1, <2>4 DEF At, Coordinates
  <1>3. CASE P # NoChange /\ ~(c.frame = P.from /\ (IsDynamic(c.frame) => c.epoch = date))
    <2>1. Transform7Parameter(c, P, date) = Spoilt
      BY <1>3 DEF Transform7Parameter
    <2> QED
      BY <2>1 DEF Spoilt, Coordinates
  <1> QED
    BY <1>1, <1>2, <1>3

(* The parameters of a pair, applied for the date of the coordinates, lead  *)
(* to the other frame at that date.                                         *)
LEMMA SevenParameterFits ==
  ASSUME NEW a \in Frames, NEW b \in Frames, NEW P, Fits(P, a, b), NEW date \in Nat,
         NEW epoch \in Nat, IsDynamic(a) => epoch = date
  PROVE  Transform7Parameter(At(a, epoch), P, date) = At(b, date)
  <1>1. P.from = a /\ P.to = b /\ P # NoChange
    <2>1. P # NoChange
      BY Fields DEF Fits
    <2> QED
      BY <2>1 DEF Fits, Forward, Reversed
  <1>2. At(a, epoch).frame = a /\ (IsDynamic(a) => At(a, epoch).epoch = date)
    BY DEF At, IsDynamic
  <1> QED
    BY <1>1, <1>2 DEF Transform7Parameter

LEMMA DateType ==
  ASSUME NEW from \in Label, NEW to \in Label, NEW from_ \in Label, NEW to_ \in Label, NEW P,
         NEW type \in {"static to static", "static to dynamic", "dynamic to static",
                       "dynamic to dynamic", "static to step", "dynamic to step",
                       "step to static", "step to dynamic"}
  PROVE  DateFor(from, to, P, type, from_, to_) \in Nat
  <1>1. from.epoch \in Nat /\ to.epoch \in Nat /\ from_.epoch \in Nat /\ to_.epoch \in Nat
    BY DEF Label
  <1> QED
    BY <1>1 DEF DateFor

(* The reasons for which a transformation fails.                            *)
Stuck(from, to, plateKnown) ==
    \/ from.frame = "WGS84" \/ to.frame = "WGS84"
    \/ ~plateKnown /\ UsesPlates(from, to)

LEMMA TransformType ==
  ASSUME NEW from \in Label, NEW to \in Label, NEW used \in Caches, Remembers(used, to.frame), from # to,
         NEW plateKnown, NEW c \in Coordinates, NEW r \in Transform(c, from, to, used, plateKnown)
  PROVE  \/ r = Failure /\ Stuck(from, to, plateKnown)
         \/ \E x \in Coordinates : Yields(r, x, to.frame)
  <1>1. from.frame \in Frames /\ to.frame \in Frames /\ from.epoch \in Nat /\ to.epoch \in Nat
    BY DEF Label
  <1>t. to.frame \in Frames /\ to.frame \in {to.frame, "ITRF2014"}
    BY DEF Label
  <1>2. CASE UsesPlates(from, to)
    <2>1. IsDynamic(from.frame) /\ IsDynamic(to.frame)
      BY <1>2 DEF UsesPlates, TransformationType, Kind, IsDynamic
    <2>2. from.frame # "WGS84" /\ to.frame # "WGS84"
      BY <2>1 DEF IsDynamic, IsStatic
    <2>3. r \in WithPlateMotionModel(c, from, to, used, plateKnown, from, to)
      BY <1>2 DEF Transform
    <2>4. InITRF2014(c, from) \in Coordinates
      BY <1>1, <2>2, OverITRF2014, SevenParameterType DEF InITRF2014
    <2>5. \A x \in Coordinates : Propagate(x, from.epoch, to.epoch) \in Coordinates
      BY <1>1 DEF Propagate, Coordinates, Spoilt
    <2>6. \A x \in Coordinates : OutOfITRF2014(x, to) \in Coordinates
      BY <1>1, <2>2, OverITRF2014, SevenParameterType DEF OutOfITRF2014
    <2> QED
      BY <1>2, <2>1, <2>3, <2>4, <2>5, <2>6, <1>t, PlateRoute DEF Stuck
  <1>3. CASE ~UsesPlates(from, to)
    <2> DEFINE P == HelmertParameters[<<from.frame, to.frame>>]
               type == TransformationType(from, to)
               into == HelmertParameters[<<from.frame, "ITRF2014">>]
               outOf == HelmertParameters[<<"ITRF2014", to.frame>>]
               typeIn == IF IsStatic(from.frame) THEN "static to step" ELSE "dynamic to step"
               typeOut == IF IsStatic(to.frame) THEN "step to static" ELSE "step to dynamic"
    <2>1. r \in WithoutPlateMotionModel(c, from, to, used, type, from, to)
      BY <1>3 DEF Transform
    <2>2. type \in {"static to static", "static to dynamic", "dynamic to static",
                    "dynamic to dynamic"}
      BY DEF TransformationType
    <2>3. TableEntry(from.frame, to.frame, P)
      BY <1>1, Table
    <2>a. Found(P) => P \in Selections
      BY <1>1, TableFinds
    <2> HIDE DEF P, type
    <2>4. CASE Found(P)
      <3>1. Transform7Parameter(c, P, DateFor(from, to, P, type, from, to)) \in Coordinates
        BY <2>2, <2>4, <2>a, DateType, SevenParameterType
      <3>2. P # Unavailable
        BY <2>4, Fields DEF Found
      <3>3. Yields(r, Transform7Parameter(c, P, DateFor(from, to, P, type, from, to)), to.frame)
        BY <2>1, <2>4, <3>2, <1>t, WithoutPlate DEF P
      <3> QED
        BY <3>1, <3>3
    <2>5. CASE P = Unavailable
      <3>1. ~Found(P)
        BY <2>5, Fields DEF Found
      <3>2. PICK k \in Caches : r \in Join(c, from, to, k, from, to)
        BY <2>1, <2>5, <3>1, <1>t, WithoutPlate DEF P
      <3> HIDE DEF into, outOf, typeIn, typeOut
      <3>3. /\ {from.frame, to.frame} \cap {"WGS84", "ITRF2014"} = {}
            /\ Yields(r, Transform7Parameter(
                             Transform7Parameter(c, into,
                                 DateFor(from, to, into, typeIn, from, to)),
                             outOf, DateFor(from, to, outOf, typeOut, from, to)), to.frame)
        BY <2>5, <3>2, <1>t, JoinRoute DEF P, into, outOf, typeIn, typeOut
      <3>4. into \in Selections /\ outOf \in Selections
        BY <1>1, <3>3, OverITRF2014 DEF into, outOf
      <3>5. /\ DateFor(from, to, into, typeIn, from, to) \in Nat
            /\ DateFor(from, to, outOf, typeOut, from, to) \in Nat
        BY DateType DEF typeIn, typeOut
      <3>6. Transform7Parameter(c, into, DateFor(from, to, into, typeIn, from, to)) \in Coordinates
        BY <3>4, <3>5, SevenParameterType
      <3> QED
        BY <3>3, <3>4, <3>5, <3>6, SevenParameterType
    <2>6. CASE ~Found(P) /\ P # Unavailable
      <3>1. r = Failure
        BY <2>1, <2>6, <1>t, WithoutPlate DEF P
      <3>2. \/ from.frame = "WGS84" \/ to.frame = "WGS84"
            \/ from.frame = to.frame /\ IsDynamic(from.frame)
        BY <2>3, <2>6, Fields DEF TableEntry, Found
      <3>3. ~(from.frame = to.frame /\ IsDynamic(from.frame))
        BY <1>3 DEF UsesPlates, TransformationType, Kind, IsDynamic
      <3> QED
        BY <3>1, <3>2, <3>3 DEF Stuck
    <2> QED
      BY <2>4, <2>5, <2>6
  <1> QED
    BY <1>2, <1>3

(* Apart from NAD83 and to ITRF1988, a transformation of coordinates that   *)
(* are in the frame and of the epoch it starts from either fails or leads   *)
(* to the frame and epoch asked for.                                        *)
LEMMA TransformTrue ==
  ASSUME NEW from \in Label, NEW to \in Label, NEW used \in Caches, Remembers(used, to.frame), from # to,
         from.frame # "NAD83", to.frame \notin {"NAD83", "ITRF1988"}, NEW plateKnown,
         NEW r \in Transform(At(from.frame, from.epoch), from, to, used, plateKnown)
  PROVE  \/ r = Failure
         \/ to.frame # "WGS84" /\ Yields(r, At(to.frame, to.epoch), to.frame)
  <1> DEFINE a == from.frame
             b == to.frame
             c == At(a, from.epoch)
             P == HelmertParameters[<<a, b>>]
             type == TransformationType(from, to)
  <1>1. a \in Frames /\ b \in Frames /\ from.epoch \in Nat /\ to.epoch \in Nat
    BY DEF Label
  <1>a. "ITRF2014" \in Frames /\ IsDynamic("ITRF2014")
    BY DEF Frames, ITRF, IsDynamic, IsStatic, GDA
  <1>t. to.frame \in Frames /\ to.frame \in {to.frame, "ITRF2014"}
    BY DEF Label
  <1>2. CASE UsesPlates(from, to)
    <2>1. IsDynamic(a) /\ IsDynamic(b)
      BY <1>2 DEF UsesPlates, TransformationType, Kind, IsDynamic
    <2>2. a # "WGS84" /\ b # "WGS84"
      BY <2>1 DEF IsDynamic, IsStatic
    <2>3. r \in WithPlateMotionModel(c, from, to, used, plateKnown, from, to)
      BY <1>2 DEF Transform
    <2>4. InITRF2014(c, from) = At("ITRF2014", from.epoch)
      <3>1. CASE a = "ITRF2014"
        BY <3>1 DEF InITRF2014
      <3>2. CASE a # "ITRF2014"
        <4> DEFINE into == HelmertParameters[<<a, "ITRF2014">>]
        <4>1. Fits(into, a, "ITRF2014")
          BY <1>1, <2>2, <3>2, OverITRF2014
        <4> HIDE DEF into
        <4>2. Transform7Parameter(c, into, from.epoch) = At("ITRF2014", from.epoch)
          BY <1>1, <1>a, <4>1, SevenParameterFits
        <4> QED
          BY <3>2, <4>2 DEF InITRF2014, into
      <3> QED
        BY <3>1, <3>2
    <2>5. Propagate(At("ITRF2014", from.epoch), from.epoch, to.epoch) = At("ITRF2014", to.epoch)
      BY <1>a DEF Propagate, At, IsDynamic
    <2>6. OutOfITRF2014(At("ITRF2014", to.epoch), to) = At(b, to.epoch)
      <3>1. CASE b = "ITRF2014"
        BY <3>1 DEF OutOfITRF2014
      <3>2. CASE b # "ITRF2014"
        <4> DEFINE outOf == HelmertParameters[<<"ITRF2014", b>>]
        <4>1. Fits(outOf, "ITRF2014", b)
          BY <1>1, <2>2, <3>2, OverITRF2014
        <4> HIDE DEF outOf
        <4>2. Transform7Parameter(At("ITRF2014", to.epoch), outOf, to.epoch) = At(b, to.epoch)
          BY <1>1, <1>a, <4>1, SevenParameterFits
        <4> QED
          BY <3>2, <4>2 DEF OutOfITRF2014, outOf
      <3> QED
        BY <3>1, <3>2
    <2> QED
      BY <2>1, <2>2, <2>3, <2>4, <2>5, <2>6, <1>t, PlateRoute
  <1>3. CASE ~UsesPlates(from, to)
    <2>1. r \in WithoutPlateMotionModel(c, from, to, used, type, from, to)
      BY <1>3 DEF Transform
    <2>2. TableEntry(a, b, P)
      BY <1>1, Table
    <2>3. IsDynamic(a) /\ IsDynamic(b) => a # b /\ from.epoch = to.epoch
      BY <1>3 DEF UsesPlates, TransformationType, Kind, IsDynamic
    <2>4. CASE Found(P)
      <3>1. P # Unavailable
        BY <2>4, Fields DEF Found
      <3> DEFINE date == DateFor(from, to, P, type, from, to)
      <3>2. Yields(r, Transform7Parameter(c, P, date), to.frame)
        BY <2>1, <2>4, <3>1, <1>t, WithoutPlate
      <3> HIDE DEF P
      <3>3. CASE P = NoChange
        <4>1. a = b /\ IsStatic(a) /\ a # "WGS84"
          BY <2>2, <3>3, Fields DEF TableEntry
        <4>2. Transform7Parameter(c, P, date) = At(b, to.epoch)
          BY <3>3, <4>1 DEF Transform7Parameter, At
        <4> QED
          BY <3>2, <4>1, <4>2
      <3>4. CASE P # NoChange
        <4>1. /\ b # "WGS84" /\ Fits(P, a, b)
              /\ IsStatic(a) /\ IsDynamic(b) => P = Reversed(a, b)
              /\ IsDynamic(a) /\ IsStatic(b) => P = Forward(a, b)
          BY <2>2, <2>4, <3>4, Fields DEF TableEntry, Found, Fits
        <4>2. /\ P = Reversed(a, b) => P.reversed = TRUE
              /\ P = Forward(a, b) => P.reversed = FALSE
          BY DEF Reversed, Forward
        <4>3. /\ date \in Nat
              /\ IsDynamic(a) => date = from.epoch
              /\ IsDynamic(b) => date = to.epoch
          BY <1>1, <2>3, <4>1, <4>2 DEF DateFor, TransformationType, Kind, IsDynamic
        <4> HIDE DEF date
        <4>4. Transform7Parameter(c, P, date) = At(b, date)
          BY <1>1, <4>1, <4>3, SevenParameterFits
        <4>5. At(b, date) = At(b, to.epoch)
          BY <4>3 DEF At, IsDynamic
        <4> QED
          BY <3>2, <4>1, <4>4, <4>5
      <3> QED
        BY <3>3, <3>4
    <2>5. CASE P = Unavailable
      <3> DEFINE into == HelmertParameters[<<a, "ITRF2014">>]
                 outOf == HelmertParameters[<<"ITRF2014", b>>]
                 typeIn == IF IsStatic(a) THEN "static to step" ELSE "dynamic to step"
                 typeOut == IF IsStatic(b) THEN "step to static" ELSE "step to dynamic"
                 dateIn == DateFor(from, to, into, typeIn, from, to)
                 dateOut == DateFor(from, to, outOf, typeOut, from, to)
      <3>1. ~Found(P)
        BY <2>5, Fields DEF Found
      <3>2. PICK k \in Caches : r \in Join(c, from, to, k, from, to)
        BY <2>1, <2>5, <3>1, <1>t, WithoutPlate
      <3>3. /\ {a, b} \cap {"WGS84", "ITRF2014"} = {}
            /\ Yields(r, Transform7Parameter(Transform7Parameter(c, into, dateIn), outOf, dateOut), to.frame)
        BY <2>5, <3>2, <1>t, JoinRoute
      <3>4. Fits(into, a, "ITRF2014") /\ Fits(outOf, "ITRF2014", b)
        BY <1>1, <3>3, OverITRF2014
      <3>5. IsDynamic(a) \/ IsDynamic(b)
        <4> HIDE DEF P
        <4> QED
          BY <2>2, <2>5, Fields DEF TableEntry, IsDynamic
      <3>6. /\ dateIn = IF IsStatic(a) THEN to.epoch ELSE from.epoch
            /\ dateOut = IF IsStatic(b) THEN from.epoch ELSE to.epoch
        BY DEF DateFor
      <3> HIDE DEF into, outOf, dateIn, dateOut
      <3>7. dateIn = dateOut /\ dateIn \in Nat
        BY <1>1, <2>3, <3>5, <3>6 DEF IsDynamic
      <3>8. Transform7Parameter(c, into, dateIn) = At("ITRF2014", dateIn)
        BY <1>1, <1>a, <3>4, <3>6, <3>7, SevenParameterFits DEF IsDynamic
      <3>9. Transform7Parameter(At("ITRF2014", dateIn), outOf, dateOut) = At(b, dateOut)
        BY <1>1, <1>a, <3>4, <3>7, SevenParameterFits
      <3>10. At(b, dateOut) = At(b, to.epoch)
        BY <3>6 DEF At
      <3> QED
        BY <3>3, <3>8, <3>9, <3>10
    <2>6. CASE ~Found(P) /\ P # Unavailable
      BY <2>1, <2>6, <1>t, WithoutPlate
    <2> QED
      BY <2>4, <2>5, <2>6
  <1> QED
    BY <1>2, <1>3

-----------------------------------------------------------------------------
(* Labels and what they stand for.                                          *)

LEMMA ReferenceEpochs ==
  ASSUME NEW frame \in Frames
  PROVE  ReferenceEpoch(frame) \in Nat \ {0}
  BY DEF ReferenceEpoch, Frames, ITRF, UpTo2005, UpTo1997, EarlyITRF, GDA

LEMMA Datums ==
  ASSUME NEW label \in Label
  PROVE  /\ Datum(label) \in Label /\ Datum(label).frame = label.frame /\ Datum(label).epoch # 0
         /\ label.epoch # 0 => Datum(label) = label
         /\ TargetDatum(label) \in Label /\ TargetDatum(label).frame = label.frame
         /\ TargetDatum(label).epoch # 0
  <1>1. ReferenceEpoch(label.frame) \in Nat \ {0}
    BY ReferenceEpochs DEF Label
  <1>2. [label EXCEPT !.epoch = ReferenceEpoch(label.frame)] \in Label
        /\ [label EXCEPT !.epoch = ReferenceEpoch(label.frame)].epoch # 0
        /\ [label EXCEPT !.epoch = ReferenceEpoch(label.frame)].frame = label.frame
    BY <1>1 DEF Label
  <1>3. /\ Datum(label) \in Label /\ Datum(label).frame = label.frame /\ Datum(label).epoch # 0
        /\ label.epoch # 0 => Datum(label) = label
    BY <1>2 DEF Datum
  <1> QED
    BY <1>2, <1>3 DEF TargetDatum

(* WGS84 stands for a dynamic frame, or for itself before 1987.             *)
LEMMA Substitutes ==
  ASSUME NEW date \in Nat
  PROVE  /\ Substitute(date) \in Frames \ {"NAD83"}
         /\ IsDynamic(Substitute(date)) \/ (Substitute(date) = "WGS84" /\ date < 19870101)
  <1>1. /\ Substitute(date) \in {"WGS84", "ITRF1990", "ITRF1991", "ITRF1994", "ITRF2000",
                                "ITRF2008", "ITRF2014"}
        /\ Substitute(date) = "WGS84" => date < 19870101
    BY SMT DEF Substitute, Within
  <1> QED
    BY <1>1, SMT DEF Frames, ITRF, UpTo2005, UpTo1997, EarlyITRF, GDA, IsDynamic, IsStatic

LEMMA MeaningType ==
  ASSUME NEW label \in Label
  PROVE  Meaning(label) \in Coordinates
  <1>1. label.frame \in Frames /\ label.epoch \in Nat
    BY DEF Label
  <1>2. CASE label.frame = "WGS84"
    BY <1>1, <1>2, Substitutes DEF Meaning, Coordinates
  <1>3. CASE label.frame # "WGS84"
    <2>1. Datum(label).epoch \in Nat
      BY Datums DEF Label
    <2> QED
      BY <1>1, <1>3, <2>1 DEF Meaning, At, Coordinates
  <1> QED
    BY <1>2, <1>3

(* A dated label keeps its meaning when the ensemble is replaced.           *)
LEMMA SubstitutedMeaning ==
  ASSUME NEW label \in Label, label.frame = "WGS84", label.epoch # 0
  PROVE  LET new == [label EXCEPT !.frame = Substitute(label.epoch)]
         IN  /\ new \in Label /\ new.frame # "NAD83" /\ new.epoch = label.epoch
             /\ new.frame = Meaning(label).frame
             /\ Meaning(new) = Meaning(label)
  <1> DEFINE new == [label EXCEPT !.frame = Substitute(label.epoch)]
  <1>1. label.epoch \in Nat
    BY DEF Label
  <1>2. new \in Label /\ new.epoch = label.epoch /\ new.frame = Substitute(label.epoch)
        /\ new.frame # "NAD83"
    BY <1>1, Substitutes DEF Label
  <1>3. Meaning(label) = [frame |-> Substitute(label.epoch), epoch |-> label.epoch]
    BY DEF Meaning
  <1>4. Datum(new) = new
    BY <1>2, Datums
  <1> HIDE DEF new
  <1>5. Meaning(new) = Meaning(label)
    <2>1. CASE new.frame = "WGS84"
      BY <1>2, <1>3, <2>1 DEF Meaning
    <2>2. CASE new.frame # "WGS84"
      <3>1. IsDynamic(new.frame)
        BY <1>1, <1>2, <2>2, Substitutes
      <3>2. Meaning(new) = [frame |-> new.frame, epoch |-> new.epoch]
        BY <1>4, <2>2, <3>1 DEF Meaning, At, IsDynamic
      <3> QED
        BY <1>2, <1>3, <3>2
    <2> QED
      BY <2>1, <2>2
  <1>6. new.frame = Meaning(label).frame
    BY <1>2, <1>3
  <1> QED
    BY <1>2, <1>5, <1>6 DEF new

LEMMA SubstitutedType ==
  /\ \A n \in Nat : \A f \in [1 .. n -> Record] : Substituted(f) \in [1 .. n -> Record]
  /\ \A n \in Nat : \A f \in [1 .. n -> Station] : Substituted(f) \in [1 .. n -> Station]
  <1>1. \A r \in Record : [r EXCEPT !.label.frame = Substitute(r.label.epoch)] \in Record
    <2> TAKE r \in Record
    <2>1. [r.label EXCEPT !.frame = Substitute(r.label.epoch)] \in Label
      BY Substitutes DEF Record, Label
    <2> QED
      BY <2>1 DEF Record
  <1>2. \A r \in Station : [r EXCEPT !.label.frame = Substitute(r.label.epoch)] \in Station
    <2> TAKE r \in Station
    <2>1. [r.label EXCEPT !.frame = Substitute(r.label.epoch)] \in Label
      BY Substitutes DEF Station, Label
    <2> QED
      BY <2>1 DEF Station
  <1> QED
    BY <1>1, <1>2 DEF Substituted

(* Replacing the ensemble keeps true records true.                          *)
LEMMA SubstitutedTrue ==
  ASSUME NEW records, ~Undated(records), TrueRecords(records),
         \A i \in DOMAIN records : records[i] \in Record \cup Station
  PROVE  TrueRecords(Substituted(records))
  <1> SUFFICES ASSUME NEW i \in DOMAIN records
               PROVE  TrueRecord(Substituted(records)[i])
    BY DEF TrueRecords, Substituted
  <1> DEFINE r == records[i]
  <1>1. TrueRecord(r) /\ r \in Record \cup Station
    BY DEF TrueRecords
  <1>2. CASE r.label.frame # "WGS84"
    BY <1>1, <1>2 DEF Substituted
  <1>3. CASE r.label.frame = "WGS84"
    <2>1. r.label \in Label
      BY <1>1 DEF Record, Station
    <2>2. r.label.epoch # 0
      <3>1. r.label # [frame |-> "WGS84", epoch |-> 0]
        BY DEF Undated
      <3> QED
        BY <1>3, <2>1, <3>1 DEF Label
    <2> DEFINE new == [r.label EXCEPT !.frame = Substitute(r.label.epoch)]
    <2>3. Meaning(new) = Meaning(r.label) /\ new.frame # "NAD83"
      BY <1>3, <2>1, <2>2, SubstitutedMeaning
    <2>4. Substituted(records)[i] = [r EXCEPT !.label = new]
      BY <1>1, <1>3 DEF Substituted, Record, Station
    <2>5. Substituted(records)[i].label = new /\ Substituted(records)[i].true = r.true
      BY <1>1, <2>4 DEF Record, Station
    <2> QED
      BY <1>1, <2>3, <2>5 DEF TrueRecord
  <1> QED
    BY <1>2, <1>3

-----------------------------------------------------------------------------
(* The types, and what is in memory while a run goes on.                    *)

LEMMA SequenceTypes ==
  /\ [1 .. 2 -> Station] \subseteq Seq(Station)
  /\ \A n \in Nat : [1 .. n -> Record] \subseteq Seq(Record)
  /\ \A q \in Seq(Record) : Len(q) \in Nat /\ q \in [1 .. Len(q) -> Record] /\ DOMAIN q = 1 .. Len(q)
  /\ \A q \in Seq(Station) : Len(q) \in Nat /\ q \in [1 .. Len(q) -> Station] /\ DOMAIN q = 1 .. Len(q)
  /\ \A q \in [1 .. 2 -> Station] : Len(q) = 2
  /\ \A n \in Nat : \A q \in [1 .. n -> Record] : Len(q) = n
  <1>1. [1 .. 2 -> Station] \subseteq Seq(Station)
    BY SeqDef
  <1>2. \A n \in Nat : [1 .. n -> Record] \subseteq Seq(Record)
    BY SeqDef
  <1>3. \A S : \A q \in Seq(S) : Len(q) \in Nat /\ q \in [1 .. Len(q) -> S] /\ DOMAIN q = 1 .. Len(q)
    BY LenProperties
  <1>4. ASSUME NEW S, NEW n \in Nat, NEW q \in [1 .. n -> S]
        PROVE  Len(q) = n
    OBVIOUS
  <1> QED
    BY <1>1, <1>2, <1>3, <1>4

LEMMA NoCacheSound ==
  ASSUME NEW target
  PROVE  NoCache \in Caches /\ Remembers(NoCache, target)
  <1>1. NoCache = [fromTo |-> NoCache.fromTo, parameters |-> NotDefined]
    BY DEF NoCache, Failure
  <1>2. NotDefined \in Selections /\ NoCache.fromTo \in Pairs
    BY DEF Selections, Pairs
  <1> QED
    BY <1>1, <1>2 DEF Caches, Remembers

LEMMA RunInvInit ==
  ASSUME Init
  PROVE  RunInv
  <1>1. PICK network \in Networks, located \in [1 .. 2 -> BOOLEAN] :
          /\ bst = [s \in 1 .. 2 |-> [label |-> network.stns[s],
                                     true |-> Meaning(network.stns[s]),
                                     located |-> located[s]]]
          /\ bms = [m \in DOMAIN MsrTypes |->
                        [label |-> network.msrs[m],
                         true |-> Meaning(network.msrs[m])]]
    BY DEF Init
  <1>2. /\ network.stns \in Label \X Label
        /\ network.msrs \in [DOMAIN MsrTypes -> Label]
    BY NetworksAssumption
  <1>3. \A s \in 1 .. 2 : network.stns[s] \in Label
    BY <1>2
  <1>4. bst \in [1 .. 2 -> Station]
    BY <1>1, <1>3, MeaningType DEF Station
  <1>5. DOMAIN MsrTypes = 1 .. Len(MsrTypes) /\ Len(MsrTypes) \in Nat
    BY MsrTypesAssumption
  <1>6. bms \in [1 .. Len(MsrTypes) -> Record]
    BY <1>1, <1>2, <1>5, MeaningType DEF Record
  <1>7. bms \in Seq(Record)
    BY <1>5, <1>6, SequenceTypes
  <1>8. datumTo \in Label
    BY DEF Init, Label, Frames
  <1>9. stns = <<>> /\ msrs = <<>> /\ next = 1 /\ pc = "idle" /\ plateModel = FALSE /\ outcome = "none"
        /\ runs = 0 /\ cache = NoCache
    BY DEF Init
  <1>10. TypeOK
    <2>1. stns \in Seq(Station) /\ msrs \in Seq(Record) /\ next \in 1 .. (Len(msrs) + Len(stns) + 1)
      <3>1. stns = <<>> /\ msrs = <<>> /\ next = 1
        BY <1>9
      <3> QED
        BY <3>1
    <2>2. plateModel \in BOOLEAN
      <3>1. plateModel = FALSE
        BY <1>9
      <3> QED
        BY <3>1, Zenon
    <2>3. /\ pc \in {"idle", "load", "measurements", "stations"}
          /\ outcome \in {"none", "running", "failed", "killed", "success"} /\ runs \in 0 .. MaxRuns
      <3>1. pc = "idle" /\ outcome = "none" /\ runs = 0
        BY <1>9
      <3> QED
        BY <3>1, MaxRunsAssumption
    <2> QED
      BY <1>4, <1>7, <1>8, <2>1, <2>2, <2>3 DEF TypeOK
  <1> QED
    BY <1>9, <1>10, NoCacheSound
       DEF RunInv, CacheSound, Running, MemoryEmpty, Measuring, Stationing

(* However a run ends, nothing is left in memory.                           *)
LEMMA QuitStep ==
  ASSUME RunInv, NEW how \in {"failed", "killed", "success"}, Quit(how),
         bst' \in [1 .. 2 -> Station], bms' = bms,
         UNCHANGED <<datumTo, plateModel, runs>>
  PROVE  RunInv'
  <1>1. pc' = "idle" /\ outcome' = how /\ stns' = <<>> /\ msrs' = <<>> /\ next' = 1 /\ cache' = NoCache
    BY DEF Quit
  <1>2. TypeOK'
    BY <1>1 DEF RunInv, TypeOK
  <1>3. CacheSound'
    BY <1>1, NoCacheSound DEF CacheSound
  <1> QED
    BY <1>1, <1>2, <1>3 DEF RunInv, Running, MemoryEmpty, Measuring, Stationing

LEMMA StartStep ==
  ASSUME RunInv, NEW target \in Targets, NEW allPlates \in BOOLEAN, Start(target, allPlates)
  PROVE  RunInv'
  <1>1. TargetDatum(target) \in Label /\ TargetDatum(target).epoch # 0
    BY Datums, TargetsAssumption
  <1>2. /\ pc = "idle" /\ pc' = "load" /\ datumTo' = TargetDatum(target) /\ plateModel' = allPlates
        /\ runs < MaxRuns /\ runs' = runs + 1 /\ outcome' = "running"
        /\ bst' = bst /\ bms' = bms /\ stns' = stns /\ msrs' = msrs /\ next' = next /\ cache' = cache
    BY DEF Start, files, memory
  <1>3. TypeOK'
    BY <1>1, <1>2, MaxRunsAssumption DEF RunInv, TypeOK
  <1>4. cache' = NoCache
    BY <1>2 DEF RunInv, MemoryEmpty
  <1>5. CacheSound'
    BY <1>4, NoCacheSound DEF CacheSound
  <1> QED
    BY <1>1, <1>2, <1>3, <1>5 DEF RunInv, Running, MemoryEmpty, Measuring, Stationing

LEMMA LoadStep ==
  ASSUME RunInv, LoadBinaryFiles
  PROVE  RunInv'
  <1> USE DEF RunInv
  <1>1. CASE Undated(bst) \/ Undated(bms)
    BY <1>1, QuitStep DEF LoadBinaryFiles, files, TypeOK
  <1>2. CASE ~Undated(bst) /\ ~Undated(bms)
    <2>1. /\ pc = "load" /\ stns' = Substituted(bst) /\ msrs' = Substituted(bms)
          /\ pc' = "measurements" /\ next' = next /\ cache' = cache /\ outcome' = outcome
          /\ bst' = bst /\ bms' = bms /\ datumTo' = datumTo /\ plateModel' = plateModel
          /\ runs' = runs
      BY <1>2 DEF LoadBinaryFiles, files
    <2>2. stns' \in [1 .. 2 -> Station] /\ msrs' \in [1 .. Len(bms) -> Record] /\ Len(bms) \in Nat
      BY <2>1, SubstitutedType, SequenceTypes DEF TypeOK
    <2>3. stns' \in Seq(Station) /\ msrs' \in Seq(Record) /\ Len(msrs') = Len(bms) /\ Len(stns') = 2
      BY <2>2, SequenceTypes
    <2>4. next = 1
      BY <2>1 DEF MemoryEmpty
    <2>5. TypeOK'
      BY <2>1, <2>2, <2>3, <2>4 DEF TypeOK
    <2>6. DOMAIN stns' = DOMAIN bst /\ DOMAIN msrs' = DOMAIN bms
      BY <2>1 DEF Substituted
    <2>7. Unread(stns, bst, 1)' /\ Unread(msrs, bms, next)'
      BY <1>2, <2>1, <2>6 DEF Unread, Undated, Substituted
    <2>8. MeasurementsDone(msrs, next)'
      BY <2>1, <2>2, <2>3, <2>4 DEF MeasurementsDone
    <2>9. Measuring'
      BY <2>1, <2>2, <2>3, <2>4, <2>7, <2>8 DEF Measuring
    <2> QED
      BY <2>1, <2>5, <2>9 DEF CacheSound, Running, MemoryEmpty, Stationing
  <1> QED
    BY <1>1, <1>2

(* The result for a baseline is that of both its ends, with what the first  *)
(* one has left in the cache.                                               *)
LEMMA BaselineResult ==
  ASSUME NEW m, NEW from \in Label, datumTo \in Label, from # datumTo, CacheSound,
         msrs[m].true \in Coordinates, NEW r \in TransformMeasurement_GX(m, from)
  PROVE  \/ r = Failure /\ \E s \in 1 .. 2 : Stuck(from, datumTo, PlateKnown(s))
         \/ \E x1, x2 \in Coordinates, k \in Caches : \E r1, r2 :
               /\ r1 \in Transform(msrs[m].true, from, datumTo, cache, PlateKnown(1))
               /\ r2 \in Transform(msrs[m].true, from, datumTo, k, PlateKnown(2))
               /\ Yields(r1, x1, datumTo.frame) /\ Yields(r2, x2, datumTo.frame)
               /\ Remembers(k, datumTo.frame)
               /\ Yields(r, IF x1 = x2 THEN x2 ELSE Spoilt, datumTo.frame)
  <1> DEFINE c == msrs[m].true
             Vector(r1) == {IF r1.coordinates = r2.coordinates
                            THEN r2
                            ELSE [r2 EXCEPT !.coordinates = Spoilt] :
                               r2 \in Transform(c, from, datumTo, r1.cache, PlateKnown(2))}
  <1>1. r \in UNION {IF r1.failed THEN {r1} ELSE Vector(r1) :
                       r1 \in Transform(c, from, datumTo, cache, PlateKnown(1))}
    BY DEF TransformMeasurement_GX, Then
  <1>2. PICK r1 \in Transform(c, from, datumTo, cache, PlateKnown(1)) :
             r \in IF r1.failed THEN {r1} ELSE Vector(r1)
    BY <1>1
  <1>3. \/ r1 = Failure /\ Stuck(from, datumTo, PlateKnown(1))
        \/ \E x \in Coordinates : Yields(r1, x, datumTo.frame)
    BY TransformType DEF CacheSound
  <1>4. CASE r1 = Failure /\ Stuck(from, datumTo, PlateKnown(1))
    BY <1>2, <1>4, FailureFails
  <1>5. ASSUME NEW x1 \in Coordinates, Yields(r1, x1, datumTo.frame)
        PROVE  \/ r = Failure /\ Stuck(from, datumTo, PlateKnown(2))
               \/ \E x2 \in Coordinates, k \in Caches : \E r2 :
                     /\ r2 \in Transform(c, from, datumTo, k, PlateKnown(2))
                     /\ Yields(r2, x2, datumTo.frame)
                     /\ Remembers(k, datumTo.frame)
                     /\ Yields(r, IF x1 = x2 THEN x2 ELSE Spoilt, datumTo.frame)
    <2>1. PICK k1 \in Caches : Remembers(k1, datumTo.frame) /\ r1 = Result(x1, k1)
      BY <1>5 DEF Yields
    <2>2. r \in Vector(r1) /\ r1.coordinates = x1 /\ r1.cache = k1
      BY <1>2, <2>1 DEF Result
    <2>3. PICK r2 \in Transform(c, from, datumTo, k1, PlateKnown(2)) :
             r = IF x1 = r2.coordinates THEN r2 ELSE [r2 EXCEPT !.coordinates = Spoilt]
      BY <2>2
    <2>4. \/ r2 = Failure /\ Stuck(from, datumTo, PlateKnown(2))
          \/ \E x \in Coordinates : Yields(r2, x, datumTo.frame)
      BY <2>1, TransformType
    <2>5. CASE r2 = Failure /\ Stuck(from, datumTo, PlateKnown(2))
      <3>1. r = Failure
        BY <2>3, <2>5 DEF Failure
      <3> QED
        BY <2>5, <3>1
    <2>6. ASSUME NEW x2 \in Coordinates, Yields(r2, x2, datumTo.frame)
          PROVE  Yields(r, IF x1 = x2 THEN x2 ELSE Spoilt, datumTo.frame)
      <3>1. PICK k2 \in Caches : Remembers(k2, datumTo.frame) /\ r2 = Result(x2, k2)
        BY <2>6 DEF Yields
      <3>2. r = Result(IF x1 = x2 THEN x2 ELSE Spoilt, k2)
        BY <2>3, <3>1 DEF Result
      <3> QED
        BY <3>1, <3>2 DEF Yields
    <2> QED
      BY <2>1, <2>3, <2>4, <2>5, <2>6
  <1> QED
    BY <1>3, <1>4, <1>5

LEMMA MeasurementResult ==
  ASSUME NEW m, NEW from \in Label, datumTo \in Label, from # datumTo, CacheSound,
         msrs[m].true \in Coordinates,
         NEW r \in IF MsrTypes[m] = "G" THEN TransformMeasurement_GX(m, from)
                                       ELSE TransformMeasurement_Y(m, from)
  PROVE  \/ r = Failure /\ \E s \in 1 .. 2 : Stuck(from, datumTo, PlateKnown(s))
         \/ \E x \in Coordinates : Yields(r, x, datumTo.frame)
  <1>1. Spoilt \in Coordinates
    BY DEF Spoilt, Coordinates
  <1>2. CASE MsrTypes[m] = "G"
    BY <1>1, <1>2, BaselineResult
  <1>3. CASE MsrTypes[m] # "G"
    BY <1>3, TransformType DEF TransformMeasurement_Y, CacheSound
  <1> QED
    BY <1>2, <1>3

LEMMA MeasurementTrue ==
  ASSUME NEW m, NEW from \in Label, datumTo \in Label, from # datumTo, CacheSound,
         msrs[m].true = At(from.frame, from.epoch), msrs[m].true \in Coordinates,
         from.frame # "NAD83", datumTo.frame \notin {"NAD83", "ITRF1988"},
         NEW r \in IF MsrTypes[m] = "G" THEN TransformMeasurement_GX(m, from)
                                       ELSE TransformMeasurement_Y(m, from)
  PROVE  \/ r = Failure
         \/ /\ datumTo.frame # "WGS84"
            /\ Yields(r, At(datumTo.frame, datumTo.epoch), datumTo.frame)
  <1> DEFINE right == At(datumTo.frame, datumTo.epoch)
  <1>2. \A q, x, y : Yields(q, x, datumTo.frame) /\ Yields(q, y, datumTo.frame) => x = y
    BY DEF Yields, Result
  <1>3. \A q, x : Yields(q, x, datumTo.frame) => q # Failure
    BY FailureFails DEF Yields, Result
  <1>4. CASE MsrTypes[m] = "G"
    <2>1. SUFFICES ASSUME r # Failure
                   PROVE  datumTo.frame # "WGS84" /\ Yields(r, right, datumTo.frame)
      OBVIOUS
    <2>2. PICK x1, x2 \in Coordinates, k \in Caches : \E r1, r2 :
               /\ r1 \in Transform(msrs[m].true, from, datumTo, cache, PlateKnown(1))
               /\ r2 \in Transform(msrs[m].true, from, datumTo, k, PlateKnown(2))
               /\ Yields(r1, x1, datumTo.frame) /\ Yields(r2, x2, datumTo.frame)
               /\ Remembers(k, datumTo.frame)
               /\ Yields(r, IF x1 = x2 THEN x2 ELSE Spoilt, datumTo.frame)
      BY <1>4, <2>1, BaselineResult
    <2>3. PICK r1, r2 :
               /\ r1 \in Transform(msrs[m].true, from, datumTo, cache, PlateKnown(1))
               /\ r2 \in Transform(msrs[m].true, from, datumTo, k, PlateKnown(2))
               /\ Yields(r1, x1, datumTo.frame) /\ Yields(r2, x2, datumTo.frame)
      BY <2>2
    <2>4. datumTo.frame # "WGS84" /\ Yields(r1, right, datumTo.frame)
      BY <1>3, <2>3, TransformTrue DEF CacheSound
    <2>5. Yields(r2, right, datumTo.frame)
      BY <1>3, <2>2, <2>3, TransformTrue
    <2>6. x1 = right /\ x2 = right
      BY <1>2, <2>4, <2>5, <2>3
    <2> QED
      BY <2>2, <2>4, <2>6
  <1>5. CASE MsrTypes[m] # "G"
    BY <1>5, TransformTrue DEF TransformMeasurement_Y, CacheSound
  <1> QED
    BY <1>4, <1>5

(* What is not read yet stays so.                                           *)
LEMMA UnreadLater ==
  ASSUME NEW records, NEW file, NEW i, Unread(records, file, i),
         NEW new, DOMAIN new = DOMAIN records,
         NEW k, \A j \in DOMAIN file : j >= k => j >= i /\ new[j] = records[j]
  PROVE  Unread(new, file, k)
  BY DEF Unread

LEMMA RelabelledType ==
  ASSUME NEW c \in Coordinates, datumTo \in Label
  PROVE  /\ \A r \in Record : /\ Relabelled(r, c) \in Record
                             /\ Relabelled(r, c).label = datumTo /\ Relabelled(r, c).true = c
         /\ \A r \in Station : /\ Relabelled(r, c) \in Station
                              /\ Relabelled(r, c).label = datumTo /\ Relabelled(r, c).true = c
                              /\ Relabelled(r, c).located = r.located
  BY DEF Relabelled, Record, Station

LEMMA MeasurementStep ==
  ASSUME RunInv, TransformMeasurement
  PROVE  RunInv'
  <1> USE DEF RunInv
  <1> DEFINE from == Datum(msrs[next].label)
  <1>1. /\ pc = "measurements" /\ next \in DOMAIN msrs /\ next \in 1 .. Len(msrs) /\ next \in Nat
        /\ bst' = bst /\ bms' = bms /\ datumTo' = datumTo /\ plateModel' = plateModel /\ runs' = runs
        /\ Len(msrs) \in Nat /\ msrs \in [1 .. Len(msrs) -> Record] /\ msrs[next] \in Record
        /\ Len(stns) \in Nat /\ DOMAIN msrs = 1 .. Len(msrs)
    BY SequenceTypes DEF TransformMeasurement, files, TypeOK
  <1>2. from \in Label /\ msrs[next].true \in Coordinates /\ datumTo \in Label /\ datumTo.epoch # 0
    BY <1>1, Datums DEF Record, TypeOK, Running
  <1>3. Datum(datumTo) = datumTo
    BY <1>2, Datums
  <1>4. Measuring
    OBVIOUS
  <1>5. CASE /\ ~Subject(next) \/ UpToDate(from)
             /\ next' = next + 1
             /\ UNCHANGED <<pc, stns, msrs, cache, outcome>>
    <2>1. TypeOK'
      BY <1>1, <1>5 DEF TypeOK
    <2>2. MeasurementsDone(msrs, next)'
      BY <1>1, <1>4, <1>5 DEF Measuring, MeasurementsDone, UpToDate, Subject
    <2>a. Unread(msrs, bms, next) /\ Unread(stns, bst, 1) /\ DOMAIN bms = 1 .. Len(msrs)
      BY <1>1, <1>4 DEF Measuring, Unread
    <2>b. \A j \in DOMAIN bms : j >= next' => j >= next /\ msrs'[j] = msrs[j]
      BY <1>1, <1>5, <2>a
    <2>3. Unread(msrs', bms', next') /\ Unread(stns', bst', 1)
      BY <1>1, <1>5, <2>a, <2>b, UnreadLater
    <2>4. Measuring'
      BY <1>1, <1>5, <2>2, <2>3 DEF Measuring
    <2> QED
      BY <1>1, <1>5, <2>1, <2>4 DEF CacheSound, Running, MemoryEmpty, Stationing
  <1>6. ASSUME ~(~Subject(next) \/ UpToDate(from)),
               NEW r \in IF MsrTypes[next] = "G" THEN TransformMeasurement_GX(next, from)
                                                ELSE TransformMeasurement_Y(next, from),
               IF r.failed
               THEN Quit("failed")
               ELSE /\ msrs' = [msrs EXCEPT ![next] = Relabelled(@, r.coordinates)]
                    /\ cache' = r.cache
                    /\ next' = next + 1
                    /\ UNCHANGED <<pc, stns, outcome>>
        PROVE  RunInv'
    <2>1. from # datumTo
      BY <1>6 DEF UpToDate
    <2>2. \/ r = Failure
          \/ \E x \in Coordinates : Yields(r, x, datumTo.frame)
      BY <1>2, <1>6, <2>1, MeasurementResult
    <2>3. CASE r = Failure
      BY <1>1, <1>6, <2>3, FailureFails, QuitStep DEF TypeOK
    <2>4. ASSUME NEW x \in Coordinates, NEW k \in Caches, Remembers(k, datumTo.frame),
                 r = Result(x, k)
          PROVE  RunInv'
      <3>1. /\ msrs' = [msrs EXCEPT ![next] = Relabelled(@, x)]
            /\ cache' = k /\ next' = next + 1 /\ pc' = pc /\ stns' = stns /\ outcome' = outcome
        BY <1>6, <2>4 DEF Result
      <3>2. /\ Relabelled(msrs[next], x) \in Record /\ Relabelled(msrs[next], x).label = datumTo
        BY <1>1, <1>2, RelabelledType
      <3>3. msrs' \in [1 .. Len(msrs) -> Record]
        BY <1>1, <3>1, <3>2
      <3>4. msrs' \in Seq(Record) /\ Len(msrs') = Len(msrs)
        BY <1>1, <3>3, SequenceTypes
      <3>5. TypeOK'
        BY <1>1, <3>1, <3>4 DEF TypeOK
      <3>6. MeasurementsDone(msrs, next)'
        BY <1>1, <1>3, <1>4, <3>1, <3>2, <3>3 DEF Measuring, MeasurementsDone, Subject
      <3>a. Unread(msrs, bms, next) /\ Unread(stns, bst, 1) /\ DOMAIN bms = 1 .. Len(msrs)
        BY <1>1, <1>4 DEF Measuring, Unread
      <3>b. \A j \in DOMAIN bms : j >= next' => j >= next /\ msrs'[j] = msrs[j]
        BY <1>1, <3>1, <3>3, <3>a
      <3>7. Unread(msrs', bms', next')
        BY <1>1, <3>3, <3>a, <3>b, UnreadLater
      <3>8. Unread(stns', bst', 1)
        BY <1>1, <3>1, <3>a
      <3>9. Measuring'
        BY <1>1, <3>1, <3>4, <3>6, <3>7, <3>8 DEF Measuring
      <3>10. CacheSound'
        BY <1>1, <2>4, <3>1 DEF CacheSound
      <3> QED
        BY <1>1, <3>1, <3>5, <3>9, <3>10 DEF Running, MemoryEmpty, Stationing
    <2> QED
      BY <2>2, <2>3, <2>4 DEF Yields
  <1> QED
    BY <1>5, <1>6 DEF TransformMeasurement

LEMMA WriteMeasurementsStep ==
  ASSUME RunInv, WriteBinaryMeasurementFile
  PROVE  RunInv'
  <1> USE DEF RunInv
  <1>1. /\ pc = "measurements" /\ next \notin DOMAIN msrs /\ bms' = msrs /\ pc' = "stations"
        /\ next' = 1 /\ cache' = NoCache
        /\ bst' = bst /\ datumTo' = datumTo /\ plateModel' = plateModel /\ stns' = stns
        /\ msrs' = msrs /\ outcome' = outcome /\ runs' = runs
    BY DEF WriteBinaryMeasurementFile
  <1>2. Len(msrs) \in Nat /\ DOMAIN msrs = 1 .. Len(msrs) /\ next \in Nat /\ next >= 1
        /\ Len(stns) \in Nat
    BY SequenceTypes DEF TypeOK
  <1>3. TypeOK'
    BY <1>1, <1>2 DEF TypeOK
  <1>4. next = Len(msrs) + 1
    BY <1>1, <1>2 DEF Measuring
  <1>5. MeasurementsDone(bms, Len(bms) + 1)'
    BY <1>1, <1>2, <1>4 DEF Measuring, MeasurementsDone, Subject
  <1>6. Unread(stns, bst, next)'
    BY <1>1 DEF Measuring, Unread, Undated, Substituted
  <1>7. Transformed(stns, next)'
    BY <1>1, SequenceTypes DEF Transformed, TypeOK
  <1>8. Stationing'
    BY <1>1, <1>2, <1>5, <1>6, <1>7 DEF Stationing
  <1>9. CacheSound'
    BY <1>1, NoCacheSound DEF CacheSound
  <1> QED
    BY <1>1, <1>3, <1>8, <1>9 DEF Running, MemoryEmpty, Measuring

LEMMA StationStep ==
  ASSUME RunInv, TransformStation
  PROVE  RunInv'
  <1> USE DEF RunInv
  <1> DEFINE from == Datum(stns[next].label)
  <1>1. /\ pc = "stations" /\ next \in DOMAIN stns /\ next \in 1 .. Len(stns) /\ next \in Nat
        /\ bst' = bst /\ bms' = bms /\ datumTo' = datumTo /\ plateModel' = plateModel /\ runs' = runs
        /\ Len(stns) \in Nat /\ stns \in [1 .. Len(stns) -> Station] /\ stns[next] \in Station
        /\ Len(msrs) \in Nat /\ DOMAIN stns = 1 .. Len(stns)
    BY SequenceTypes DEF TransformStation, files, TypeOK
  <1>2. from \in Label /\ stns[next].true \in Coordinates /\ datumTo \in Label /\ datumTo.epoch # 0
    BY <1>1, Datums DEF Station, TypeOK, Running
  <1>3. Datum(datumTo) = datumTo
    BY <1>2, Datums
  <1>4. Stationing
    OBVIOUS
  <1>5. CASE /\ UpToDate(from)
             /\ next' = next + 1
             /\ UNCHANGED <<pc, stns, msrs, cache, outcome>>
    <2>1. TypeOK'
      BY <1>1, <1>5 DEF TypeOK
    <2>2. Transformed(stns, next)'
      BY <1>1, <1>4, <1>5 DEF Stationing, Transformed, UpToDate
    <2>a. Unread(stns, bst, next) /\ DOMAIN bst = 1 .. Len(stns)
      BY <1>1, <1>4 DEF Stationing, Unread
    <2>b. \A j \in DOMAIN bst : j >= next' => j >= next /\ stns'[j] = stns[j]
      BY <1>1, <1>5, <2>a
    <2>3. Unread(stns', bst', next')
      BY <1>1, <1>5, <2>a, <2>b, UnreadLater
    <2>4. Stationing'
      BY <1>1, <1>4, <1>5, <2>2, <2>3 DEF Stationing, MeasurementsDone, Subject
    <2> QED
      BY <1>1, <1>5, <2>1, <2>4 DEF CacheSound, Running, MemoryEmpty, Measuring
  <1>6. ASSUME ~UpToDate(from),
               NEW r \in Transform(stns[next].true, from, datumTo, cache, PlateKnown(next)),
               IF r.failed
               THEN Quit("failed")
               ELSE /\ stns' = [stns EXCEPT ![next] = Relabelled(@, r.coordinates)]
                    /\ cache' = r.cache
                    /\ next' = next + 1
                    /\ UNCHANGED <<pc, msrs, outcome>>
        PROVE  RunInv'
    <2>1. from # datumTo
      BY <1>6 DEF UpToDate
    <2>2. \/ r = Failure
          \/ \E x \in Coordinates : Yields(r, x, datumTo.frame)
      BY <1>2, <1>6, <2>1, TransformType DEF CacheSound
    <2>3. CASE r = Failure
      BY <1>1, <1>6, <2>3, FailureFails, QuitStep DEF TypeOK
    <2>4. ASSUME NEW x \in Coordinates, NEW k \in Caches, Remembers(k, datumTo.frame),
                 r = Result(x, k)
          PROVE  RunInv'
      <3>1. /\ stns' = [stns EXCEPT ![next] = Relabelled(@, x)]
            /\ cache' = k /\ next' = next + 1 /\ pc' = pc /\ msrs' = msrs /\ outcome' = outcome
        BY <1>6, <2>4 DEF Result
      <3>2. /\ Relabelled(stns[next], x) \in Station /\ Relabelled(stns[next], x).label = datumTo
        BY <1>1, <1>2, RelabelledType
      <3>3. stns' \in [1 .. Len(stns) -> Station]
        BY <1>1, <3>1, <3>2
      <3>4. stns' \in Seq(Station) /\ Len(stns') = Len(stns)
        BY <1>1, <3>3, SequenceTypes
      <3>5. TypeOK'
        BY <1>1, <3>1, <3>4 DEF TypeOK
      <3>6. Transformed(stns, next)'
        BY <1>1, <1>3, <1>4, <3>1, <3>2, <3>3 DEF Stationing, Transformed
      <3>a. Unread(stns, bst, next) /\ DOMAIN bst = 1 .. Len(stns)
        BY <1>1, <1>4 DEF Stationing, Unread
      <3>b. \A j \in DOMAIN bst : j >= next' => j >= next /\ stns'[j] = stns[j]
        BY <1>1, <3>1, <3>3, <3>a
      <3>7. Unread(stns', bst', next')
        BY <1>1, <3>3, <3>a, <3>b, UnreadLater
      <3>8. Stationing'
        BY <1>1, <1>4, <3>1, <3>4, <3>6, <3>7 DEF Stationing, MeasurementsDone, Subject
      <3>9. CacheSound'
        BY <1>1, <2>4, <3>1 DEF CacheSound
      <3> QED
        BY <1>1, <3>1, <3>5, <3>8, <3>9 DEF Running, MemoryEmpty, Measuring
    <2> QED
      BY <2>2, <2>3, <2>4 DEF Yields
  <1> QED
    BY <1>5, <1>6 DEF TransformStation

LEMMA WriteStationsStep ==
  ASSUME RunInv, WriteBinaryStationFile
  PROVE  RunInv'
  <1>1. pc = "stations" /\ bst' = stns /\ Quit("success") /\ UNCHANGED <<bms, datumTo, plateModel, runs>>
    BY DEF WriteBinaryStationFile
  <1>2. DOMAIN stns = 1 .. 2 /\ stns \in [DOMAIN stns -> Station]
    BY <1>1, SequenceTypes DEF RunInv, TypeOK, Stationing, Unread
  <1> QED
    BY <1>1, <1>2, QuitStep

LEMMA RunInvStep ==
  ASSUME RunInv, [Next]_vars
  PROVE  RunInv'
  <1>1. CASE Kill
    BY <1>1, QuitStep DEF Kill, files, RunInv, TypeOK
  <1>2. CASE UNCHANGED vars
    BY <1>2 DEF vars, memory, RunInv, TypeOK, CacheSound, Running, MemoryEmpty, Measuring, Stationing,
               Unread, Undated, Substituted, Transformed, MeasurementsDone, Subject
  <1> QED
    BY <1>1, <1>2, StartStep, LoadStep, MeasurementStep, WriteMeasurementsStep, StationStep,
       WriteStationsStep DEF Next

LEMMA RunInvariant == Spec => []RunInv
  BY RunInvInit, RunInvStep, PTL DEF Spec

(* The records are of the types the binary files hold, and the position in  *)
(* them stays within one of the end.                                        *)
THEOREM TypeCorrect == Spec => []TypeOK
  <1>1. RunInv => TypeOK
    BY DEF RunInv
  <1> QED
    BY <1>1, RunInvariant, PTL

-----------------------------------------------------------------------------
(* What a run has done when it ends well, and in which order.               *)

LEMMA CompleteStep ==
  ASSUME RunInv, CompleteOnSuccess, [Next]_vars
  PROVE  CompleteOnSuccess'
  <1>1. ASSUME outcome' # "success"
        PROVE  CompleteOnSuccess'
    BY <1>1 DEF CompleteOnSuccess
  <1>2. ASSUME bst' = bst, bms' = bms, datumTo' = datumTo, outcome' = outcome
        PROVE  CompleteOnSuccess'
    BY <1>2 DEF CompleteOnSuccess, Subject
  <1>3. CASE WriteBinaryStationFile
    <2>1. /\ pc = "stations" /\ next \notin DOMAIN stns /\ bst' = stns /\ bms' = bms
          /\ datumTo' = datumTo
      BY <1>3 DEF WriteBinaryStationFile
    <2>2. /\ next \in Nat /\ DOMAIN stns = 1 .. Len(stns) /\ Len(stns) \in Nat /\ next >= 1
          /\ DOMAIN bms = 1 .. Len(bms) /\ Len(bms) \in Nat
          /\ Transformed(stns, next) /\ MeasurementsDone(bms, Len(bms) + 1)
      BY <2>1, SequenceTypes DEF RunInv, TypeOK, Stationing
    <2>3. \A s \in DOMAIN stns : s < next
      BY <2>1, <2>2 DEF RunInv, Stationing
    <2>4. \A s \in DOMAIN bst' : Datum(bst'[s].label) = datumTo'
      BY <2>1, <2>2, <2>3 DEF Transformed
    <2>5. \A m \in DOMAIN bms' : Subject(m) => Datum(bms'[m].label) = datumTo'
      BY <2>1, <2>2 DEF MeasurementsDone
    <2> QED
      BY <2>4, <2>5 DEF CompleteOnSuccess, Subject
  <1>4. CASE \E target \in Targets, allPlates \in BOOLEAN : Start(target, allPlates)
    BY <1>1, <1>4 DEF Start
  <1>5. CASE LoadBinaryFiles
    BY <1>1, <1>2, <1>5 DEF LoadBinaryFiles, Quit, files
  <1>6. CASE TransformMeasurement
    BY <1>1, <1>2, <1>6 DEF TransformMeasurement, Quit, files
  <1>7. CASE WriteBinaryMeasurementFile
    BY <1>1, <1>7 DEF WriteBinaryMeasurementFile, RunInv, Running
  <1>8. CASE TransformStation
    BY <1>1, <1>2, <1>8 DEF TransformStation, Quit, files
  <1>9. CASE Kill
    BY <1>1, <1>9 DEF Kill, Quit
  <1>10. CASE UNCHANGED vars
    BY <1>2, <1>10 DEF vars
  <1> QED
    BY <1>3, <1>4, <1>5, <1>6, <1>7, <1>8, <1>9, <1>10 DEF Next

(* A run that ends well has brought every station, and every measurement    *)
(* subject to a datum, to the frame and epoch that were asked for           *)
(* (TransformBinaryFiles).                                                  *)
THEOREM SuccessIsComplete == Spec => []CompleteOnSuccess
  <1>1. Init => CompleteOnSuccess
    BY DEF Init, CompleteOnSuccess
  <1> QED
    BY <1>1, CompleteStep, RunInvariant, PTL DEF Spec

(* The station file is only written when the measurement file is in the     *)
(* frame and epoch asked for already.                                       *)
THEOREM MeasurementsFirst == Spec => StationsFollow
  <1>1. ASSUME RunInv, [Next]_vars, bst' # bst
        PROVE  \A m \in DOMAIN bms : Subject(m) => Datum(bms[m].label) = datumTo
    <2>1. WriteBinaryStationFile
      BY <1>1 DEF Next, vars, files, Start, LoadBinaryFiles, TransformMeasurement,
                  WriteBinaryMeasurementFile, TransformStation, Kill
    <2>2. MeasurementsDone(bms, Len(bms) + 1)
      BY <1>1, <2>1 DEF RunInv, Stationing, WriteBinaryStationFile
    <2>3. DOMAIN bms = 1 .. Len(bms) /\ Len(bms) \in Nat
      BY <1>1, SequenceTypes DEF RunInv, TypeOK
    <2> QED
      BY <2>2, <2>3 DEF MeasurementsDone
  <1>2. RunInv /\ [Next]_vars =>
           [bst' # bst =>
               \A m \in DOMAIN bms : Subject(m) => Datum(bms[m].label) = datumTo]_vars
    BY <1>1
  <1> QED
    BY <1>2, RunInvariant, PTL DEF Spec, StationsFollow

-----------------------------------------------------------------------------
(* The parameters that are kept.                                            *)

(* Unless a run goes to ITRF1988, the parameters remembered for a pair of   *)
(* frames are those of that pair, in its direction                          *)
(* (ObtainHelmertParameters).                                               *)
THEOREM CacheFits ==
  ASSUME \A target \in Targets : target.frame # "ITRF1988"
  PROVE  Spec => []CacheOfThePair
  <1>1. ASSUME RunInv
        PROVE  CacheOfThePair
    <2> SUFFICES ASSUME cache.fromTo # NoCache.fromTo
                 PROVE  \/ Fits(cache.parameters, cache.fromTo[1], cache.fromTo[2])
                        \/ /\ cache.parameters = NoChange
                           /\ cache.fromTo[1] = cache.fromTo[2]
      BY DEF CacheOfThePair
    <2>1. pc # "idle"
      BY <1>1 DEF RunInv, MemoryEmpty
    <2>2. datumTo.frame \in Frames /\ datumTo.frame # "ITRF1988"
      BY <1>1, <2>1, TargetsAssumption, Datums DEF RunInv, Running, Label
    <2>3. PICK a \in Frames, b \in {datumTo.frame, "ITRF2014"} :
             /\ cache.fromTo = <<a, b>>
             /\ cache.parameters = HelmertParameters[<<a, b>>]
             /\ Found(cache.parameters)
      BY <1>1 DEF RunInv, CacheSound, Remembers
    <2>4. b \in Frames /\ b # "ITRF1988"
      BY <2>2 DEF Frames, ITRF
    <2>5. TableEntry(a, b, cache.parameters)
      BY <2>3, <2>4, Table
    <2>6. \/ Fits(cache.parameters, a, b)
          \/ cache.parameters = NoChange /\ a = b
      BY <2>3, <2>4, <2>5, Fields DEF TableEntry, Found, Fits
    <2>7. cache.fromTo[1] = a /\ cache.fromTo[2] = b
      BY <2>3
    <2> QED
      BY <2>6, <2>7
  <1> QED
    BY <1>1, RunInvariant, PTL
-----------------------------------------------------------------------------
(* What the labels of the files say.                                        *)

LEMMA FromWGS84 ==
  ASSUME NEW from \in Label, NEW to \in Label, NEW used \in Caches, Remembers(used, to.frame),
         from.frame = "WGS84", NEW plateKnown, NEW c,
         NEW r \in Transform(c, from, to, used, plateKnown)
  PROVE  r = Failure
  <1> DEFINE P == HelmertParameters[<<from.frame, to.frame>>]
  <1>1. to.frame \in Frames /\ to.frame \in {to.frame, "ITRF2014"} /\ "WGS84" \in Frames
    BY DEF Label, Frames
  <1>2. ~UsesPlates(from, to)
    BY DEF UsesPlates, TransformationType, Kind, IsStatic
  <1>3. r \in WithoutPlateMotionModel(c, from, to, used, TransformationType(from, to), from, to)
    BY <1>2 DEF Transform
  <1>4. TableEntry("WGS84", to.frame, P)
    BY <1>1, Table
  <1> HIDE DEF P
  <1>5. P = WGS84Unsupported
    BY <1>4 DEF TableEntry, IsDynamic, IsStatic
  <1>6. ~Found(P) /\ P # Unavailable
    BY <1>5, Fields DEF Found
  <1> QED
    BY <1>1, <1>3, <1>6, WithoutPlate DEF P

LEMMA YieldsNoFailure ==
  ASSUME NEW r, NEW x, NEW target, Yields(r, x, target)
  PROVE  r # Failure
  BY FailureFails DEF Yields, Result

(* A true label stands for the coordinates a transformation starts from.    *)
LEMMA DatumMeans ==
  ASSUME NEW label \in Label, label.frame # "WGS84"
  PROVE  Meaning(label) = At(Datum(label).frame, Datum(label).epoch)
  BY Datums DEF Meaning

(* The target of a supported run.                                           *)
LEMMA SupportedTarget ==
  ASSUME Supported, RunInv, pc # "idle"
  PROVE  /\ datumTo \in Label /\ datumTo.frame \notin {"NAD83", "ITRF1988"}
         /\ datumTo.frame # "WGS84" => Meaning(datumTo) = At(datumTo.frame, datumTo.epoch)
  <1>1. PICK target \in Targets : datumTo = TargetDatum(target)
    BY DEF RunInv, Running
  <1>2. target \in Label /\ target.frame \notin {"NAD83", "ITRF1988"}
    BY TargetsAssumption DEF Supported
  <1>3. datumTo \in Label /\ datumTo.frame = target.frame /\ datumTo.epoch # 0
    BY <1>1, <1>2, Datums
  <1>4. Datum(datumTo) = datumTo
    BY <1>3, Datums
  <1> QED
    BY <1>2, <1>3, <1>4, DatumMeans

(* A transformation of a measurement or a station that ends well leaves a   *)
(* true record.                                                             *)
LEMMA TrueMeasurement ==
  ASSUME Supported, RunInv, pc # "idle", NEW m, msrs[m] \in Record, TrueRecord(msrs[m]),
         Datum(msrs[m].label) # datumTo,
         NEW r \in IF MsrTypes[m] = "G"
                   THEN TransformMeasurement_GX(m, Datum(msrs[m].label))
                   ELSE TransformMeasurement_Y(m, Datum(msrs[m].label)),
         r # Failure
  PROVE  Yields(r, Meaning(datumTo), datumTo.frame)
  <1> DEFINE from == Datum(msrs[m].label)
  <1>1. /\ msrs[m].label \in Label /\ msrs[m].true \in Coordinates
        /\ msrs[m].label.frame # "NAD83" /\ msrs[m].true = Meaning(msrs[m].label)
    BY DEF Record, TrueRecord
  <1>2. from \in Label /\ from.frame = msrs[m].label.frame
    BY <1>1, Datums
  <1>3. CacheSound
    BY DEF RunInv
  <1>4. CASE from.frame = "WGS84"
    <2>1. CASE MsrTypes[m] = "G"
      <3>1. \E x1 \in Coordinates : \E r1 :
               /\ r1 \in Transform(msrs[m].true, from, datumTo, cache, PlateKnown(1))
               /\ Yields(r1, x1, datumTo.frame)
        BY <1>1, <1>2, <1>3, <2>1, SupportedTarget, BaselineResult
      <3> QED
        BY <1>2, <1>3, <1>4, <3>1, SupportedTarget, FromWGS84, YieldsNoFailure DEF CacheSound
    <2>2. CASE MsrTypes[m] # "G"
      BY <1>2, <1>3, <1>4, <2>2, SupportedTarget, FromWGS84 DEF TransformMeasurement_Y, CacheSound
    <2> QED
      BY <2>1, <2>2
  <1>5. CASE from.frame # "WGS84"
    <2>1. msrs[m].true = At(from.frame, from.epoch)
      BY <1>1, <1>2, <1>5, DatumMeans
    <2>2. /\ datumTo.frame # "WGS84"
          /\ Yields(r, At(datumTo.frame, datumTo.epoch), datumTo.frame)
      BY <1>1, <1>2, <1>3, <2>1, SupportedTarget, MeasurementTrue
    <2> QED
      BY <2>2, SupportedTarget
  <1> QED
    BY <1>4, <1>5

LEMMA TrueStation ==
  ASSUME Supported, RunInv, pc # "idle", NEW s, stns[s] \in Station, TrueRecord(stns[s]),
         Datum(stns[s].label) # datumTo,
         NEW r \in Transform(stns[s].true, Datum(stns[s].label), datumTo, cache, PlateKnown(s)),
         r # Failure
  PROVE  Yields(r, Meaning(datumTo), datumTo.frame)
  <1> DEFINE from == Datum(stns[s].label)
  <1>1. /\ stns[s].label \in Label
        /\ stns[s].label.frame # "NAD83" /\ stns[s].true = Meaning(stns[s].label)
    BY DEF Station, TrueRecord
  <1>2. from \in Label /\ from.frame = stns[s].label.frame
    BY <1>1, Datums
  <1>3. cache \in Caches /\ Remembers(cache, datumTo.frame)
    BY DEF RunInv, CacheSound
  <1>4. CASE from.frame = "WGS84"
    BY <1>2, <1>3, <1>4, SupportedTarget, FromWGS84
  <1>5. CASE from.frame # "WGS84"
    <2>1. stns[s].true = At(from.frame, from.epoch)
      BY <1>1, <1>2, <1>5, DatumMeans
    <2>2. /\ datumTo.frame # "WGS84"
          /\ Yields(r, At(datumTo.frame, datumTo.epoch), datumTo.frame)
      BY <1>1, <1>2, <1>3, <2>1, SupportedTarget, TransformTrue
    <2> QED
      BY <2>2, SupportedTarget
  <1> QED
    BY <1>4, <1>5

LEMMA LabelsInit ==
  ASSUME Supported, Init
  PROVE  LabelsInv
  <1>1. PICK network \in Networks, located \in [1 .. 2 -> BOOLEAN] :
          /\ bst = [s \in 1 .. 2 |-> [label |-> network.stns[s],
                                     true |-> Meaning(network.stns[s]),
                                     located |-> located[s]]]
          /\ bms = [m \in DOMAIN MsrTypes |->
                        [label |-> network.msrs[m],
                         true |-> Meaning(network.msrs[m])]]
    BY DEF Init
  <1>2. /\ network.stns[1].frame # "NAD83" /\ network.stns[2].frame # "NAD83"
        /\ \A m \in DOMAIN MsrTypes : network.msrs[m].frame # "NAD83"
    BY DEF Supported
  <1>3. TrueRecords(bst)
    BY <1>1, <1>2 DEF TrueRecords, TrueRecord
  <1>4. TrueRecords(bms)
    BY <1>1, <1>2 DEF TrueRecords, TrueRecord
  <1>5. TrueRecords(stns) /\ TrueRecords(msrs)
    BY DEF Init, TrueRecords
  <1> QED
    BY <1>3, <1>4, <1>5 DEF LabelsInv

LEMMA LabelsQuit ==
  ASSUME LabelsInv, NEW how, Quit(how), TrueRecords(bst'), bms' = bms
  PROVE  LabelsInv'
  BY DEF Quit, LabelsInv, TrueRecords, TrueRecord, Meaning

LEMMA RelabelledTrue ==
  ASSUME Supported, RunInv, pc # "idle",
         NEW records, NEW i \in DOMAIN records, records[i] \in Record \cup Station,
         TrueRecords(records)
  PROVE  TrueRecords([records EXCEPT ![i] = Relabelled(@, Meaning(datumTo))])
  <1>1. datumTo \in Label /\ datumTo.frame # "NAD83"
    BY SupportedTarget
  <1>2. Meaning(datumTo) \in Coordinates
    BY <1>1, MeaningType
  <1>3. TrueRecord(Relabelled(records[i], Meaning(datumTo)))
    BY <1>1, <1>2, RelabelledType DEF TrueRecord
  <1> QED
    BY <1>3 DEF TrueRecords

LEMMA LabelsStep ==
  ASSUME Supported, RunInv, LabelsInv, [Next]_vars
  PROVE  LabelsInv'
  <1>1. CASE Kill
    BY <1>1, LabelsQuit DEF Kill, files, LabelsInv
  <1>2. CASE UNCHANGED <<files, stns, msrs>>
    BY <1>2 DEF files, LabelsInv, TrueRecords, TrueRecord, Meaning
  <1>3. CASE UNCHANGED vars
    BY <1>2, <1>3 DEF vars, files, memory
  <1>4. CASE \E target \in Targets, allPlates \in BOOLEAN : Start(target, allPlates)
    BY <1>2, <1>4 DEF Start, memory
  <1>5. CASE LoadBinaryFiles
    <2>1. CASE Undated(bst) \/ Undated(bms)
      BY <1>5, <2>1, LabelsQuit DEF LoadBinaryFiles, files, LabelsInv
    <2>2. CASE ~Undated(bst) /\ ~Undated(bms)
      <3>1. stns' = Substituted(bst) /\ msrs' = Substituted(bms) /\ bst' = bst /\ bms' = bms
        BY <1>5, <2>2 DEF LoadBinaryFiles, files
      <3>2. /\ \A i \in DOMAIN bst : bst[i] \in Record \cup Station
            /\ \A i \in DOMAIN bms : bms[i] \in Record \cup Station
        BY SequenceTypes DEF RunInv, TypeOK
      <3>3. TrueRecords(Substituted(bst)) /\ TrueRecords(Substituted(bms))
        BY <2>2, <3>2, SubstitutedTrue DEF LabelsInv
      <3>4. TrueRecords(stns') /\ TrueRecords(msrs') /\ TrueRecords(bst') /\ TrueRecords(bms')
        BY <3>1, <3>3 DEF LabelsInv
      <3> QED
        BY <3>4 DEF LabelsInv, TrueRecords, TrueRecord, Meaning
    <2> QED
      BY <2>1, <2>2
  <1>6. CASE TransformMeasurement
    <2>1. /\ pc # "idle" /\ next \in DOMAIN msrs /\ msrs[next] \in Record
          /\ bst' = bst /\ bms' = bms
      BY <1>6, SequenceTypes DEF TransformMeasurement, files, RunInv, TypeOK
    <2> DEFINE from == Datum(msrs[next].label)
    <2>2. CASE UNCHANGED <<pc, stns, msrs, cache, outcome>>
      BY <1>2, <2>1, <2>2 DEF files
    <2>3. ASSUME ~UpToDate(from),
                 NEW r \in IF MsrTypes[next] = "G" THEN TransformMeasurement_GX(next, from)
                                                  ELSE TransformMeasurement_Y(next, from),
                 IF r.failed
                 THEN Quit("failed")
                 ELSE /\ msrs' = [msrs EXCEPT ![next] = Relabelled(@, r.coordinates)]
                      /\ stns' = stns
          PROVE  LabelsInv'
      <3>1. CASE r = Failure
        BY <2>1, <2>3, <3>1, FailureFails, LabelsQuit DEF LabelsInv
      <3>2. CASE r # Failure
        <4>1. TrueRecord(msrs[next])
          BY <2>1 DEF LabelsInv, TrueRecords
        <4>2. Yields(r, Meaning(datumTo), datumTo.frame)
          BY <2>1, <2>3, <3>2, <4>1, TrueMeasurement DEF UpToDate
        <4>3. ~r.failed /\ r.coordinates = Meaning(datumTo)
          BY <4>2 DEF Yields, Result
        <4>4. /\ msrs' = [msrs EXCEPT ![next] = Relabelled(@, Meaning(datumTo))] /\ stns' = stns
          BY <2>3, <4>3
        <4>5. TrueRecords(msrs')
          BY <2>1, <4>4, RelabelledTrue DEF LabelsInv
        <4>6. TrueRecords(stns') /\ TrueRecords(msrs') /\ TrueRecords(bst') /\ TrueRecords(bms')
          BY <2>1, <4>4, <4>5 DEF LabelsInv
        <4> QED
          BY <4>6 DEF LabelsInv, TrueRecords, TrueRecord, Meaning
      <3> QED
        BY <3>1, <3>2
    <2> QED
      BY <1>6, <2>2, <2>3 DEF TransformMeasurement
  <1>7. CASE WriteBinaryMeasurementFile
    <2>1. bms' = msrs /\ bst' = bst /\ stns' = stns /\ msrs' = msrs
      BY <1>7 DEF WriteBinaryMeasurementFile
    <2>2. TrueRecords(stns') /\ TrueRecords(msrs') /\ TrueRecords(bst') /\ TrueRecords(bms')
      BY <2>1 DEF LabelsInv
    <2> QED
      BY <2>2 DEF LabelsInv, TrueRecords, TrueRecord, Meaning
  <1>8. CASE TransformStation
    <2>1. /\ pc # "idle" /\ next \in DOMAIN stns /\ stns[next] \in Station
          /\ bst' = bst /\ bms' = bms
      BY <1>8, SequenceTypes DEF TransformStation, files, RunInv, TypeOK
    <2> DEFINE from == Datum(stns[next].label)
    <2>2. CASE UNCHANGED <<pc, stns, msrs, cache, outcome>>
      BY <1>2, <2>1, <2>2 DEF files
    <2>3. ASSUME ~UpToDate(from),
                 NEW r \in Transform(stns[next].true, from, datumTo, cache, PlateKnown(next)),
                 IF r.failed
                 THEN Quit("failed")
                 ELSE /\ stns' = [stns EXCEPT ![next] = Relabelled(@, r.coordinates)]
                      /\ msrs' = msrs
          PROVE  LabelsInv'
      <3>1. CASE r = Failure
        BY <2>1, <2>3, <3>1, FailureFails, LabelsQuit DEF LabelsInv
      <3>2. CASE r # Failure
        <4>1. TrueRecord(stns[next])
          BY <2>1 DEF LabelsInv, TrueRecords
        <4>2. Yields(r, Meaning(datumTo), datumTo.frame)
          BY <2>1, <2>3, <3>2, <4>1, TrueStation DEF UpToDate
        <4>3. ~r.failed /\ r.coordinates = Meaning(datumTo)
          BY <4>2 DEF Yields, Result
        <4>4. /\ stns' = [stns EXCEPT ![next] = Relabelled(@, Meaning(datumTo))] /\ msrs' = msrs
          BY <2>3, <4>3
        <4>5. TrueRecords(stns')
          BY <2>1, <4>4, RelabelledTrue DEF LabelsInv
        <4>6. TrueRecords(stns') /\ TrueRecords(msrs') /\ TrueRecords(bst') /\ TrueRecords(bms')
          BY <2>1, <4>4, <4>5 DEF LabelsInv
        <4> QED
          BY <4>6 DEF LabelsInv, TrueRecords, TrueRecord, Meaning
      <3> QED
        BY <3>1, <3>2
    <2> QED
      BY <1>8, <2>2, <2>3 DEF TransformStation
  <1>9. CASE WriteBinaryStationFile
    <2>1. bst' = stns /\ bms' = bms /\ Quit("success")
      BY <1>9 DEF WriteBinaryStationFile
    <2>2. TrueRecords(bst')
      BY <2>1 DEF LabelsInv
    <2> QED
      BY <2>1, <2>2, LabelsQuit
  <1> QED
    BY <1>1, <1>3, <1>4, <1>5, <1>6, <1>7, <1>8, <1>9 DEF Next

(* Of networks and targets without NAD83, and targets other than ITRF1988,  *)
(* what the files say of a record is true at any time: its coordinates are  *)
(* in the frame and of the epoch of its label, whatever route the           *)
(* transformation took, whichever parameters the record before has left in  *)
(* the cache, and however earlier runs have ended (TransformBinaryFiles).   *)
THEOREM FilesTellTheTruth ==
  ASSUME Supported
  PROVE  Spec => []LabelsTrue
  <1>1. Init => LabelsInv
    BY LabelsInit
  <1>2. RunInv /\ LabelsInv /\ [Next]_vars => LabelsInv'
    BY LabelsStep
  <1>3. LabelsInv => LabelsTrue
    BY DEF LabelsInv, TrueRecords, TrueRecord, LabelsTrue
  <1> QED
    BY <1>1, <1>2, <1>3, RunInvariant, PTL DEF Spec
-----------------------------------------------------------------------------
(* Why runs fail.                                                           *)

(* The datum a transformation of an unread record starts from is what the   *)
(* label in the file means.                                                 *)
LEMMA ReadLabel ==
  ASSUME NEW file, ~Undated(file), NEW i \in DOMAIN file, file[i] \in Record \cup Station
  PROVE  LET from == Datum(Substituted(file)[i].label)
             meant == Meaning(file[i].label)
         IN  /\ from \in Label
             /\ from.frame = meant.frame
             /\ IsDynamic(from.frame) => from.epoch = meant.epoch
             /\ file[i] \in Station => Substituted(file)[i].located = file[i].located
  <1> DEFINE r == file[i]
             read == Substituted(file)[i]
             from == Datum(read.label)
  <1>1. r.label \in Label
    BY DEF Record, Station
  <1>2. CASE r.label.frame # "WGS84"
    <2>1. read = r
      BY <1>2 DEF Substituted
    <2>2. from \in Label /\ from.frame = r.label.frame
      BY <1>1, <2>1, Datums
    <2>3. Meaning(r.label) = At(from.frame, from.epoch)
      BY <1>1, <1>2, <2>1, DatumMeans
    <2> QED
      BY <2>1, <2>2, <2>3 DEF At, IsDynamic
  <1>3. CASE r.label.frame = "WGS84"
    <2> DEFINE new == [r.label EXCEPT !.frame = Substitute(r.label.epoch)]
    <2>1. r.label.epoch # 0
      <3>1. r.label # [frame |-> "WGS84", epoch |-> 0]
        BY DEF Undated
      <3> QED
        BY <1>1, <1>3, <3>1 DEF Label
    <2>2. new \in Label /\ new.epoch = r.label.epoch /\ new.frame = Meaning(r.label).frame
      BY <1>1, <1>3, <2>1, SubstitutedMeaning
    <2>3. /\ read.label = new
          /\ r \in Station => read.located = r.located
      BY <1>3 DEF Substituted, Record, Station
    <2> HIDE DEF new
    <2>4. from = new
      BY <2>1, <2>2, <2>3, Datums
    <2>5. Meaning(r.label).epoch = r.label.epoch
      BY <1>3 DEF Meaning
    <2> QED
      BY <2>2, <2>3, <2>4, <2>5
  <1> QED
    BY <1>2, <1>3

(* A transformation is stuck between two different datums for one of the    *)
(* reasons a run fails for.                                                 *)
LEMMA StuckFor ==
  ASSUME NEW from \in Label, NEW to \in Label, from # to, NEW plateKnown,
         Stuck(from, to, plateKnown)
  PROVE  \/ from.frame = "WGS84" \/ to.frame = "WGS84"
         \/ ~plateKnown /\ IsDynamic(from.frame) /\ IsDynamic(to.frame) /\ from.epoch # to.epoch
  <1>1. from.frame # to.frame \/ from.epoch # to.epoch
    BY DEF Label
  <1> QED
    BY <1>1 DEF Stuck, UsesPlates, TransformationType, Kind, IsDynamic

(* The reasons, of one record of a file.                                    *)
Reason(label) ==
    \/ Meaning(label).frame = "WGS84"
    \/ label = [frame |-> "WGS84", epoch |-> 0]
    \/ /\ plateModel
       /\ \E s \in DOMAIN bst : ~bst[s].located
       /\ IsDynamic(Meaning(label).frame) /\ IsDynamic(datumTo.frame)
       /\ Meaning(label).epoch # datumTo.epoch

LEMMA StuckReason ==
  ASSUME datumTo \in Label, NEW file, ~Undated(file), NEW i \in DOMAIN file,
         file[i] \in Record \cup Station,
         Datum(Substituted(file)[i].label) # datumTo,
         NEW s \in DOMAIN bst, stns[s].located = bst[s].located,
         Stuck(Datum(Substituted(file)[i].label), datumTo, PlateKnown(s))
  PROVE  datumTo.frame = "WGS84" \/ Reason(file[i].label)
  <1> DEFINE from == Datum(Substituted(file)[i].label)
             meant == Meaning(file[i].label)
  <1>1. /\ from \in Label /\ from.frame = meant.frame
        /\ IsDynamic(from.frame) => from.epoch = meant.epoch
    BY ReadLabel
  <1>2. \/ from.frame = "WGS84" \/ datumTo.frame = "WGS84"
        \/ ~PlateKnown(s) /\ IsDynamic(from.frame) /\ IsDynamic(datumTo.frame)
                          /\ from.epoch # datumTo.epoch
    BY <1>1, StuckFor
  <1>3. ~PlateKnown(s) => plateModel /\ ~bst[s].located
    BY DEF PlateKnown
  <1> QED
    BY <1>1, <1>2, <1>3 DEF Reason

LEMMA FailsStep ==
  ASSUME RunInv, FailsOnlyFor, [Next]_vars
  PROVE  FailsOnlyFor'
  <1> USE DEF RunInv
  <1>1. ASSUME outcome' # "failed"
        PROVE  FailsOnlyFor'
    BY <1>1 DEF FailsOnlyFor
  <1>2. ASSUME bst' = bst, bms' = bms, datumTo' = datumTo, plateModel' = plateModel,
               outcome' = outcome
        PROVE  FailsOnlyFor'
    BY <1>2 DEF FailsOnlyFor, Meaning
  <1>3. ASSUME bst' = bst, bms' = bms, datumTo' = datumTo, plateModel' = plateModel,
               \/ datumTo.frame = "WGS84"
               \/ \E s \in DOMAIN bst : Reason(bst[s].label)
               \/ \E m \in DOMAIN bms : Reason(bms[m].label)
        PROVE  FailsOnlyFor'
    <2>1. \/ datumTo.frame = "WGS84"
          \/ \E r \in {bst[s] : s \in DOMAIN bst} \cup {bms[m] : m \in DOMAIN bms} :
                Reason(r.label)
      BY <1>3
    <2> QED
      BY <1>3, <2>1 DEF FailsOnlyFor, Reason, Meaning
  <1>4. CASE \E target \in Targets, allPlates \in BOOLEAN : Start(target, allPlates)
    BY <1>1, <1>4 DEF Start
  <1>5. CASE LoadBinaryFiles
    <2>1. CASE Undated(bst) \/ Undated(bms)
      <3>1. \/ \E s \in DOMAIN bst : Reason(bst[s].label)
            \/ \E m \in DOMAIN bms : Reason(bms[m].label)
        BY <2>1 DEF Undated, Reason
      <3> QED
        BY <1>3, <1>5, <3>1 DEF LoadBinaryFiles, files
    <2>2. CASE ~(Undated(bst) \/ Undated(bms))
      BY <1>2, <1>5, <2>2 DEF LoadBinaryFiles, files
    <2> QED
      BY <2>1, <2>2
  <1>6. CASE TransformMeasurement
    <2> DEFINE from == Datum(msrs[next].label)
    <2>1. /\ pc = "measurements" /\ next \in DOMAIN msrs /\ next \in Nat
          /\ bst' = bst /\ bms' = bms /\ datumTo' = datumTo /\ plateModel' = plateModel
          /\ msrs[next] \in Record /\ datumTo \in Label /\ CacheSound
          /\ DOMAIN bst = 1 .. 2
      BY <1>6, SequenceTypes DEF TransformMeasurement, files, TypeOK
    <2>2. /\ ~Undated(bms) /\ next \in DOMAIN bms /\ msrs[next] = Substituted(bms)[next]
          /\ bms[next] \in Record
      BY <2>1, SequenceTypes DEF Measuring, Unread, TypeOK
    <2>3. \A s \in 1 .. 2 : stns[s].located = bst[s].located
      <3>1. /\ ~Undated(bst) /\ \A s \in 1 .. 2 : stns[s] = Substituted(bst)[s]
            /\ \A s \in 1 .. 2 : bst[s] \in Station
        BY <2>1 DEF Measuring, Unread, TypeOK
      <3> QED
        BY <2>1, <3>1, ReadLabel
    <2>4. CASE UNCHANGED <<pc, stns, msrs, cache, outcome>>
      BY <1>2, <2>1, <2>4
    <2>5. ASSUME ~UpToDate(from),
                 NEW r \in IF MsrTypes[next] = "G" THEN TransformMeasurement_GX(next, from)
                                                  ELSE TransformMeasurement_Y(next, from),
                 ~r.failed => outcome' = outcome
          PROVE  FailsOnlyFor'
      <3>1. from \in Label /\ msrs[next].true \in Coordinates /\ from # datumTo
        BY <2>1, <2>5, Datums DEF Record, UpToDate
      <3>2. \/ r = Failure /\ \E s \in 1 .. 2 : Stuck(from, datumTo, PlateKnown(s))
            \/ \E x \in Coordinates : Yields(r, x, datumTo.frame)
        BY <2>1, <2>5, <3>1, MeasurementResult
      <3>3. ASSUME NEW s \in 1 .. 2, Stuck(from, datumTo, PlateKnown(s))
            PROVE  FailsOnlyFor'
        <4>1. datumTo.frame = "WGS84" \/ Reason(bms[next].label)
          BY <2>1, <2>2, <2>3, <3>1, <3>3, StuckReason
        <4> QED
          BY <1>3, <2>1, <2>2, <4>1
      <3>4. ASSUME NEW x \in Coordinates, Yields(r, x, datumTo.frame)
            PROVE  FailsOnlyFor'
        <4>1. outcome' = outcome
          BY <2>5, <3>4 DEF Yields, Result
        <4> QED
          BY <1>2, <2>1, <4>1
      <3> QED
        BY <3>2, <3>3, <3>4
    <2> QED
      BY <1>6, <2>4, <2>5 DEF TransformMeasurement
  <1>7. CASE WriteBinaryMeasurementFile
    BY <1>1, <1>7 DEF WriteBinaryMeasurementFile, Running
  <1>8. CASE TransformStation
    <2> DEFINE from == Datum(stns[next].label)
    <2>1. /\ pc = "stations" /\ next \in DOMAIN stns /\ next \in Nat
          /\ bst' = bst /\ bms' = bms /\ datumTo' = datumTo /\ plateModel' = plateModel
          /\ stns[next] \in Station /\ datumTo \in Label /\ CacheSound
          /\ DOMAIN bst = 1 .. 2
      BY <1>8, SequenceTypes DEF TransformStation, files, TypeOK
    <2>2. /\ ~Undated(bst) /\ next \in DOMAIN bst /\ stns[next] = Substituted(bst)[next]
          /\ bst[next] \in Station
      BY <2>1 DEF Stationing, Unread, TypeOK
    <2>3. stns[next].located = bst[next].located
      BY <2>2, ReadLabel
    <2>4. CASE UNCHANGED <<pc, stns, msrs, cache, outcome>>
      BY <1>2, <2>1, <2>4
    <2>5. ASSUME ~UpToDate(from),
                 NEW r \in Transform(stns[next].true, from, datumTo, cache, PlateKnown(next)),
                 ~r.failed => outcome' = outcome
          PROVE  FailsOnlyFor'
      <3>1. from \in Label /\ stns[next].true \in Coordinates /\ from # datumTo
        BY <2>1, <2>5, Datums DEF Station, UpToDate
      <3>2. \/ r = Failure /\ Stuck(from, datumTo, PlateKnown(next))
            \/ \E x \in Coordinates : Yields(r, x, datumTo.frame)
        BY <2>1, <2>5, <3>1, TransformType DEF CacheSound
      <3>3. CASE Stuck(from, datumTo, PlateKnown(next))
        <4>1. datumTo.frame = "WGS84" \/ Reason(bst[next].label)
          BY <2>1, <2>2, <2>3, <3>1, <3>3, StuckReason
        <4> QED
          BY <1>3, <2>1, <2>2, <4>1
      <3>4. ASSUME NEW x \in Coordinates, Yields(r, x, datumTo.frame)
            PROVE  FailsOnlyFor'
        <4>1. outcome' = outcome
          BY <2>5, <3>4 DEF Yields, Result
        <4> QED
          BY <1>2, <2>1, <4>1
      <3> QED
        BY <3>2, <3>3, <3>4
    <2> QED
      BY <1>8, <2>4, <2>5 DEF TransformStation
  <1>9. CASE WriteBinaryStationFile
    BY <1>1, <1>9 DEF WriteBinaryStationFile, Quit
  <1>10. CASE Kill
    BY <1>1, <1>10 DEF Kill, Quit
  <1>11. CASE UNCHANGED vars
    BY <1>2, <1>11 DEF vars
  <1> QED
    BY <1>4, <1>5, <1>6, <1>7, <1>8, <1>9, <1>10, <1>11 DEF Next

(* A run fails for want of a date or a realisation of WGS84, for a target   *)
(* without parameters, or, between two dates in dynamic frames, of plate    *)
(* motion parameters for a station: of any other pair of frames there are   *)
(* parameters, or the step over ITRF2014 makes up for them                  *)
(* (TransformFrames_WithoutPlateMotionModel, JoinTransformationParameters). *)
THEOREM FailuresHaveAReason == Spec => []FailsOnlyFor
  <1>1. Init => FailsOnlyFor
    BY DEF Init, FailsOnlyFor
  <1> QED
    BY <1>1, FailsStep, RunInvariant, PTL DEF Spec
===============================================================================
