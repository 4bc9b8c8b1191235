------------------------------ MODULE EnsureMC ------------------------------
(***************************************************************************)
(* Small instances of Ensure.  Field "row" is in every search row; field   *)
(* "item" only in the full item, as a nested block is.                     *)
(***************************************************************************)
EXTENDS Ensure, TLC

MCFields == {"row", "item"}
MCRowFields == {"row"}
MCValues == {"v", "w"}
MCDefault == "v"

NoWant == [f \in Fields |-> Unset]
Plain(state, key, want) ==
    [state |-> state, valid |-> TRUE, key |-> key, want |-> want,
     uuid |-> NoUuid, check |-> FALSE, dedupe |-> FALSE, force |-> FALSE]
Rec(key, value) == [key |-> key, fld |-> [f \in Fields |-> value]]
Holding(recs) ==
    [u \in Uuids |-> IF u \in DOMAIN recs THEN recs[u] ELSE NoRecord]

Present == Plain("present", "a", [NoWant EXCEPT !["row"] = "w"])
PresentItem == Plain("present", "a", [row |-> "v", item |-> "w"])
Absent == Plain("absent", "a", NoWant)
Dedupe(j) == [j EXCEPT !.dedupe = TRUE]
Check(j) == [j EXCEPT !.check = TRUE]
Force(j) == [j EXCEPT !.force = TRUE]
ByUuid(j, u) == [j EXCEPT !.uuid = u]
Invalid(j) == [j EXCEPT !.valid = FALSE]

\* Callers are interchangeable.
Symmetric == Permutations(Callers)

\* Every kind of call, for one caller at a time.
AllJobs ==
    LET base == {Present, PresentItem, Absent}
        kinds == base \cup {Dedupe(j) : j \in base}
                      \cup {ByUuid(j, 2) : j \in base} \cup {ByUuid(Present, 1)}
    IN kinds \cup {Check(j) : j \in kinds}
             \cup {Force(Present), Invalid(Present), Plain("other", "a", NoWant)}

\* Callers that converge the same identity at once.
KeepJobs == {Present, Dedupe(Present), Dedupe(PresentItem)}
PresentJobs == {Present, PresentItem}
MixedJobs == {Present, Dedupe(PresentItem), Absent}

TwoCopies == {Holding(2 :> Rec("a", "v") @@ 3 :> Rec("a", "v"))}
CrowdedStores ==
    TwoCopies \cup
    {Holding(1 :> Rec("b", "v") @@ 2 :> Rec("a", "v") @@ 3 :> Rec("a", "w"))}
EmptyStore == {Holding(<<>>)}

\* Nothing yet, more copies than a page of two shows, a page that shows the younger
\* of two copies only, and one that shows none.
HiddenStores ==
    {Holding(<<>>),
     Holding(1 :> Rec("a", "v") @@ 2 :> Rec("a", "w") @@ 3 :> Rec("a", "w")),
     Holding(1 :> Rec("a", "v") @@ 2 :> Rec("b", "v") @@ 3 :> Rec("a", "w")),
     Holding(1 :> Rec("b", "v") @@ 2 :> Rec("a", "v") @@ 3 :> Rec("b", "w"))}
SomeStores ==
    {Holding(<<>>), Holding(2 :> Rec("a", "v")), Holding(1 :> Rec("b", "v")),
     Holding(1 :> Rec("a", "v") @@ 2 :> Rec("a", "w")),
     Holding(1 :> Rec("b", "v") @@ 2 :> Rec("a", "w") @@ 3 :> Rec("a", "v"))}
=============================================================================
