---------------------------- MODULE MCCompletion ----------------------------
(* Small instances of Completion: a project of two units that are still        *)
(* collecting or wait for review, and a webhook for each event.                *)
EXTENDS Completion
CONSTANTS r1, r2, done, late, backlog
MCEventOf == [h \in Hooks |-> IF h = backlog THEN "backlog" ELSE "completed"]
Collecting == Unit("collecting", FALSE, "none", FALSE)
Queued == Unit("labeled", TRUE, "none", FALSE)
Decided == Unit("finalized", FALSE, "human", TRUE)
MCStarts == {<<Collecting, Queued>>, <<Decided, Queued>>}
MCQueued == {<<Queued, Queued>>}
=============================================================================
