----------------------------- MODULE MCJobQueue -----------------------------
(***************************************************************************)
(* Small instances of JobQueue for TLC.                                    *)
(***************************************************************************)
EXTENDS JobQueue

\* Two batches, {1, 2} and {3}.  Job 2 needs job 1 and shares resource "r" with
\* job 3, whose snapshot has the lower limit.
AJobs == 1..3
ABatchOf == <<"a", "a", "b">>
ANeeds == <<<<>>, <<1>>, <<>>>>
AUses == <<{}, {"r"}, {"r"}>>
ALimit == <<[r |-> 2], [r |-> 2], [r |-> 1]>>

\* A batch with a recorded SHA: job 1 has a prepare command, job 2 needs it and
\* finds its worktree directory taken; a batch without; a batch whose snapshot
\* no longer validates.
CJobs == 1..4
CBatchOf == <<"a", "a", "b", "c">>
CNeeds == <<<<>>, <<1>>, <<>>, <<>>>>
CUses == <<{"r"}, {}, {"r"}, {}>>
CLimit == [j \in CJobs |-> [r |-> 1]]
=============================================================================
