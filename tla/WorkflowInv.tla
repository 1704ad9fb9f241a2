----------------------------- MODULE WorkflowInv ------------------------------
(* The inductive invariant of Workflow, in parts that are inductive together. *)
EXTENDS Workflow

(* A program runs because it is the next one, and on files that exist.        *)
Running ==
    /\ pc # "idle" => todo # {}
    /\ pc = "import_bms" => First = "import" /\ bst # NoFile /\ bst.net = memory
    /\ pc = "reftran_bst" => First = "reftran" /\ bst # NoFile /\ bms # NoFile
    /\ pc \in Adjusting => First = "adjust" /\ bst # NoFile /\ bms # NoFile
    /\ pc \in {"solve", "solved"} /\ options.mode = "phased" => seg # NoFile
    /\ pc \in {"solve", "solved"} /\ options.stage => mtx # NoFile

(* What is in memory will be the file of the reduced measurements.            *)
RawKept == pc \in Adjusting => \A k \in {"H", "M"} : memory[k].saved = <<>>

(* The measurements of a file, and those in memory, have had an N value at    *)
(* most once, and are converted and scaled if and only if they are reduced.   *)
OnceInFile ==
    bms # NoFile =>
        /\ \A k \in Kinds : Len(bms.msrs[k].term1) <= 1
        /\ bms.msrs["G"].term1 = <<>>
        /\ bms.msrs["Y"].converted \/ bms.msrs["Y"].term1 = <<>>
        /\ bms.reduced => bms.msrs["Y"].converted
        /\ \A k \in {"Y", "G"} : bms.msrs[k].scaled = IF bms.reduced THEN 1 ELSE 0

OnceInMemory ==
    pc \in Adjusting =>
        /\ \A k \in Kinds : Len(memory[k].term1) <= 1
        /\ memory["G"].term1 = <<>>
        /\ memory["Y"].converted
        /\ \A k \in {"Y", "G"} : memory[k].scaled = 1

(* The N values of the stations are those in their heights, and while an      *)
(* adjustment solves those in the measurements.                               *)
Geoidal ==
    /\ bst # NoFile => bst.heights = bst.N /\ Len(bst.N) <= 1
    /\ pc \in {"solve", "solved"} /\ ~Reuses => memory["H"].term1 = bst.N
    /\ pc = "solved" => memory["M"].term1 = bst.N

(* Of the files made from other inputs, the wrapper of adjust can tell when   *)
(* import was the last to change the measurements.                            *)
Told(file) ==
    bst = NoFile \/ bms = NoFile \/ bst.net # bms.net \/ bms.modifiedBy # "import"
        \/ "bms" \in since[file]

SegmentationTold == seg = NoFile \/ seg = Inputs \/ Told("seg")

StageFilesTold == mtx = NoFile \/ mtx.mixed \/ mtx.from = Inputs \/ Told("mtx")

(* While nothing has failed, what this call has imported is what is there.    *)
Progress ==
    /\ outcome # "none" => todo = {}
    /\ "import" \in todo => todo = asked
    /\ (todo # {} \/ outcome = "success") /\ ~quiet /\ "import" \in asked \ todo =>
           /\ brought # NoFile /\ bst # NoFile /\ bms # NoFile
           /\ Inputs = <<brought, brought>>
           /\ "segment" \in asked \ todo => seg = Inputs

FilesInv == TypeOK /\ Running /\ RawRecoverable /\ RawKept /\ OnceInFile /\ OnceInMemory /\ Geoidal

ImportInv ==
    SegmentationTold /\ StageFilesTold /\ SegmentationCurrent /\ StageFilesCurrent /\ Progress
===============================================================================
