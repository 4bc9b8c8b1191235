----------------------------- MODULE AcmeIssueMC -----------------------------
(***************************************************************************)
(* Small instances of AcmeIssue: issue, renew, their dry runs and a        *)
(* registration.                                                           *)
(***************************************************************************)
EXTENDS AcmeIssue

Issue(renew, check) == [kind |-> "certificate", renew |-> renew, check |-> check]
Register(check) == [kind |-> "account", check |-> check]

MCCalls ==
    {Issue(FALSE, FALSE), Issue(TRUE, FALSE), Issue(TRUE, TRUE),
     Register(FALSE), Register(TRUE)}
=============================================================================
