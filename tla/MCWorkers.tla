----------------------------- MODULE MCWorkers -----------------------------
(* Two devices.  The file list may keep, drop, swap, or repeat a file. *)
EXTENDS Workers

CONSTANTS f1, f2

MCFiles == {f1, f2}
MCStartList == <<f1, f2>>
MCLists == {<<f1, f2>>, <<f2>>, <<>>, <<f1, f1>>}
SmallLists == {<<f2>>, <<f1, f2>>}

Daemon == [fileList |-> FALSE, dialOut |-> FALSE, maxRun |-> FALSE,
           tunnel |-> FALSE, prePost |-> FALSE]
Listed == [Daemon EXCEPT !.fileList = TRUE]
NoMaxRun == {Listed, [Listed EXCEPT !.dialOut = TRUE],
             [Daemon EXCEPT !.tunnel = TRUE], [Daemon EXCEPT !.prePost = TRUE]}
MaxRunModes == {[Daemon EXCEPT !.maxRun = TRUE], [Listed EXCEPT !.maxRun = TRUE]}
LiveModes == {Daemon} \cup MaxRunModes
=============================================================================
