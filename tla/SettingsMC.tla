----------------------------- MODULE SettingsMC -----------------------------
EXTENDS Settings, TLC

MCFields == {"f", "g"}

Change(want, check) ==
    [kind |-> "settings", state |-> "present", want |-> want, check |-> check]
Service(kind, state, check) == [kind |-> kind, state |-> state, check |-> check]

\* Changes of one field, of the other, of both, and two that disagree; every
\* state of both service managers; rejected arguments.
MCCalls ==
    {Change(NoWant, FALSE),
     Change([NoWant EXCEPT !["f"] = "w"], FALSE),
     Change([NoWant EXCEPT !["f"] = "v"], FALSE),
     Change([NoWant EXCEPT !["g"] = "w"], FALSE),
     Change([f |-> "w", g |-> "w"], TRUE),
     Service("service", "running", FALSE), Service("service", "stopped", TRUE),
     Service("service", "reconfigured", FALSE),
     Service("core", "stopped", FALSE), Service("core", "restarted", FALSE),
     Service("core", "running", TRUE), Service("core", "other", FALSE)}
=============================================================================
