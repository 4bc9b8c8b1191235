---------------------------- MODULE FirmwareJobs ----------------------------
(***************************************************************************)
(* The firmware subsystem of the appliance, as PluginManager and           *)
(* FirmwareManager use it: one background job at a time, a progress log    *)
(* that belongs to the last job started, a package list served from a      *)
(* cache, a pending release that only a check reveals, and a reboot after  *)
(* which the appliance re-installs its own packages.                       *)
(***************************************************************************)
EXTENDS Naturals, FiniteSets

CONSTANTS Packages,
          NoPackage,
          Listed,     \* packages the configuration lists: re-installed after a boot
          Versions,
          Offer,      \* version -> "none", "update" or "upgrade": what is pending
          NextVersion \* version -> the version the pending release boots into

ASSUME PackageAssumption == Listed \subseteq Packages /\ NoPackage \notin Packages
ASSUME VersionAssumption ==
    /\ Offer \in [Versions -> {"none", "update", "upgrade"}]
    /\ NextVersion \in [Versions -> Versions]

VARIABLES up,        \* the web server answers
          job,       \* the job that runs
          log,       \* upgradestatus: progress and verdict of the last job
          installed, \* packages on the appliance
          cache,     \* packages core/firmware/info calls installed
          version,   \* product_version
          resolved   \* core/firmware/status, as of the last check

appliance == <<up, job, log, installed, cache, version, resolved>>

Ops == {"install", "remove", "check", "update", "upgrade", "reinstall"}
JobType == [op : Ops \cup {"none"}, pkg : Packages \cup {NoPackage}]
NoJob == [op |-> "none", pkg |-> NoPackage]
LogType == [status : {"error", "running", "done"}, refused : BOOLEAN]
EmptyLog == [status |-> "error", refused |-> FALSE]
DoneLog(refused) == [status |-> "done", refused |-> refused]

Busy == job # NoJob

\* A job is started with an empty log; one fired into a running job comes to
\* nothing.
Fire(op, pkg) ==
    /\ up
    /\ IF Busy THEN UNCHANGED <<job, log>>
       ELSE job' = [op |-> op, pkg |-> pkg] /\ log' = EmptyLog
    /\ UNCHANGED <<up, installed, cache, version, resolved>>

FirstLine ==
    /\ Busy /\ up /\ log.status = "error"
    /\ log' = [log EXCEPT !.status = "running"]
    /\ UNCHANGED <<up, job, installed, cache, version, resolved>>

Ends(refused) ==
    /\ job' = NoJob
    /\ log' = DoneLog(refused)

\* A package job is reported done when it worked, when it was refused (the log
\* says so) and when it failed without a word the client looks for.
PackageJobEnds ==
    /\ job.op \in {"install", "remove"}
    /\ \/ /\ installed' = IF job.op = "install" THEN installed \cup {job.pkg}
                          ELSE installed \ {job.pkg}
          /\ Ends(FALSE)
       \/ UNCHANGED installed /\ \E refused \in BOOLEAN : Ends(refused)
    /\ UNCHANGED <<up, cache, version, resolved>>

CheckEnds ==
    /\ job.op = "check"
    /\ resolved' = Offer[version]
    /\ Ends(FALSE)
    /\ UNCHANGED <<up, installed, cache, version>>

\* The release does not match the verb, or cannot be fetched.
ApplyEnds ==
    /\ job.op \in {"update", "upgrade"} /\ up
    /\ Ends(FALSE)
    /\ UNCHANGED <<up, installed, cache, version, resolved>>

GoesDown ==
    /\ job.op \in {"update", "upgrade"} /\ up
    /\ Offer[version] = job.op
    /\ up' = FALSE
    /\ UNCHANGED <<job, log, installed, cache, version, resolved>>

\* Back on the new version, already re-installing the listed packages; status
\* answers "none" until the next check.
Boots ==
    /\ ~up
    /\ up' = TRUE
    /\ version' = NextVersion[version]
    /\ resolved' = "none"
    /\ job' = [op |-> "reinstall", pkg |-> NoPackage]
    /\ log' = EmptyLog
    /\ UNCHANGED <<installed, cache>>

ReinstallEnds ==
    /\ job.op = "reinstall"
    /\ \E added \in SUBSET Listed : installed' = installed \cup added
    /\ Ends(FALSE)
    /\ UNCHANGED <<up, cache, version, resolved>>

CacheRefreshes ==
    /\ cache # installed
    /\ cache' = installed
    /\ UNCHANGED <<up, job, log, installed, version, resolved>>

ApplianceStep ==
    \/ FirstLine \/ PackageJobEnds \/ CheckEnds \/ ApplyEnds
    \/ GoesDown \/ Boots \/ ReinstallEnds \/ CacheRefreshes

ApplianceOK ==
    /\ up \in BOOLEAN
    /\ job \in JobType
    /\ log \in LogType
    /\ installed \subseteq Packages /\ cache \subseteq Packages
    /\ version \in Versions
    /\ resolved \in {"none", "update", "upgrade"}
=============================================================================
