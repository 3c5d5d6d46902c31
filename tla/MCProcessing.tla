---------------------------- MODULE MCProcessing ----------------------------
(***************************************************************************)
(* Jobs of one task with every format, limit and refusing tool, on a wide  *)
(* and a high image; jobs of two tasks with every pair of chains; a job    *)
(* without tasks; and runs of the command line tool on files whose         *)
(* extension is, or is not, the format they have, alone or beside a file   *)
(* of each name that the result may take; the flag -output names one that  *)
(* exists or not, or the input.  Jobs of three tasks ask for one thing     *)
(* three times over.                                                       *)
(*                                                                         *)
(* Of the limits, 2 rounds and 1 makes a side of no pixels: for the wide   *)
(* image certainly, for the high one at a tie.                             *)
(***************************************************************************)
EXTENDS ProcessingCallers, TLC

MCTasks == {"t1", "t2", "t3"}

Image(f, w, h) == [format |-> f, width |-> w, height |-> h]
Sizes == {<<3, 1>>, <<2, 4>>}

Ask(f, max) == [format |-> f, maxDimension |-> max, quality |-> 80]

Job(image, opts, refused) ==
    [caller |-> "worker", image |-> image, options |-> opts, refused |-> refused]

OneTask ==
    {Job(Image(f, s[1], s[2]), ("t1" :> Ask(to, max)), refused) :
        f \in Formats, s \in Sizes, to \in Formats \cup {""}, max \in {-1, 0, 1, 2},
        refused \in {{}} \cup {{tool} : tool \in Tools}}

TwoTasks ==
    {Job(Image(f, 3, 1), ("t1" :> Ask(to1, max1)) @@ ("t2" :> Ask(to2, max2)), refused) :
        f \in Formats, to1, to2 \in Formats, max1, max2 \in {0, 2},
        refused \in {{}, {"magick"}, {"cwebp"}}}

ThreeTasks ==
    {Job(Image(f, 2, 4), [t \in MCTasks |-> Ask(to, 2)], {}) :
        f \in Formats, to \in {"jpeg", "webp"}}

NoTasks == {Job(Image("png", 3, 1), <<>>, {})}

Beside(ext, flag) ==
    {File("", "result", ""), File("", "", flag), File("processed", "", ext)}

Runs ==
    UNION {
        {[caller |-> "cli", image |-> Image(f, 3, 1), ext |-> ext, flag |-> flag,
          output |-> output, files |-> [n \in names |-> Image("png", 2, 4)],
          maxDimension |-> max, quality |-> quality, refused |-> {}] :
            f \in Formats, max \in {0, 2}, quality \in {80, 101},
            output \in {NotGiven, File("", "result", ""), File("", "", ext)},
            names \in {{}, Beside(ext, flag)}} :
        ext \in Formats \cup {"jpg"}, flag \in Formats \cup {""}}

AllRequests == OneTask \cup TwoTasks \cup ThreeTasks \cup NoTasks \cup Runs
=============================================================================
