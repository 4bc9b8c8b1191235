----------------------------- MODULE FirmwareMC -----------------------------
EXTENDS Firmware, TLC

\* A point update to v2, from there a major upgrade to v3.
MCOffer == "v1" :> "update" @@ "v2" :> "upgrade" @@ "v3" :> "none"
MCNext == "v1" :> "v2" @@ "v2" :> "v3" @@ "v3" :> "v3"
MCHits == "t2" :> {"v2"} @@ "t3" :> {"v3"}

\* Every combination of the arguments that means something.
MCRequests ==
    {r \in RequestType : r.state = "other" => r.target = NoTarget /\ ~r.check}

\* A point release is aimed at by "updated", the major one by both.
AimedRequests == {r \in MCRequests : Aims(r)}
=============================================================================
