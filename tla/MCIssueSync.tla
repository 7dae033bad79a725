---------------------------- MODULE MCIssueSync ----------------------------
(* Instance of IssueSync for TLC. *)
EXTENDS IssueSync

Start(tracker, linked, e, i) ==
    [tracker |-> tracker, linked |-> linked, edits |-> e, incidents |-> i]

MCScenarios ==
    {Start("linear", TRUE, 1, 1), Start("jira", TRUE, 1, 0),
     Start("linear", FALSE, 0, 1), Start("jira", FALSE, 0, 1)}
=============================================================================
