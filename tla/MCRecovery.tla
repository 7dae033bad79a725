---------------------------- MODULE MCRecovery ----------------------------
(* Instance of FailureRecovery for TLC. *)
EXTENDS FailureRecovery

Given(kinds, f, c, o, bad) ==
    [kinds |-> kinds, failures |-> f, checkpoints |-> c, overrides |-> o, faults |-> bad]

MCScenarios ==
    {Given({"crash", "timeout"}, 4, 0, 1, 0), Given({"crash"}, 2, 0, 2, 1),
     Given({"rate", "crash"}, 3, 0, 0, 0), Given({"api", "crash"}, 3, 0, 1, 1),
     Given({"stuck", "timeout"}, 4, 0, 0, 1), Given({"loop", "crash"}, 4, 0, 1, 0),
     Given({"crash", "timeout"}, 3, 2, 0, 0),
     Given({"crash"}, 2, 2, 0, 2)}
=============================================================================
