----------------------------- MODULE DeployHome -----------------------------
(***************************************************************************)
(* The Platform Home of the deploy CLI (state.mjs, runtime-install.mjs of  *)
(* knowledge-platform-deploy-cli): deploy, install and backup, each a      *)
(* process of its own.  Deployments exclude each other by one lock file,   *)
(* installations by another; a backup takes none.  A process may fail or   *)
(* be killed at every step; a lock file outlives its process until the     *)
(* operator removes it.                                                    *)
(***************************************************************************)
CONSTANTS
    Deployer,  \* invocations of deploy
    Installer, \* invocations of install
    Digest,    \* manifest digests of runtime bundles
    None,      \* no digest, and a lock file that is not there
    Stale      \* a lock file whose process is gone

ASSUME HomeAssumption ==
    /\ None \notin Digest \cup Deployer \cup Installer
    /\ Stale \notin Deployer \cup Installer \cup {None}

VARIABLES
    releases,     \* runtime/releases: those published
    deployment,   \* deployment.json: the release it names
    stageLock,    \* .runtime-stage.lock
    deployer,     \* each deploy: where it is, its release, whether it made it
    environments, \* environments: none, partial or complete
    installed,    \* runtime/installed.json
    installLock,  \* .runtime-install.lock
    installer,    \* each install: where it is and its release
    completed,    \* history: the releases whose installation was completed
    backup        \* the backup: where it is, what it has listed and read

home == <<releases, deployment, stageLock, deployer>>
runtime == <<environments, installed, installLock, installer, completed>>
vars == <<home, runtime, backup>>

DeployStage == {"idle", "locked", "copying", "writing", "leaving"}
InstallStage == {"idle", "resolved", "locked", "building", "publishing", "cleaning", "leaving", "refused"}
Snapshot == [deployment : Digest \cup {None}, releases : SUBSET Digest]
BackupStage == {"idle", "listing", "reading", "copying", "published"}

Init ==
    /\ releases = {} /\ deployment = None /\ stageLock = None
    /\ deployer = [p \in Deployer |-> [at |-> "idle", of |-> None, created |-> FALSE]]
    /\ environments = [d \in Digest |-> "none"]
    /\ installed = None /\ installLock = None
    /\ installer = [p \in Installer |-> [at |-> "idle", of |-> None]]
    /\ completed = {}
    /\ backup = [at |-> "idle", deployment |-> None, releases |-> {}]

----------------------------------------------------------------------------
(* deploy *)

DeployerAt(p, stage) == deployer' = [deployer EXCEPT ![p].at = stage]

\* The lock file is created exclusively; deploy refuses where it exists.
StageFree == stageLock = None

Deploy(p, d) ==
    /\ deployer[p].at = "idle"
    /\ StageFree
    /\ stageLock' = p
    /\ deployer' = [deployer EXCEPT ![p] = [at |-> "locked", of |-> d, created |-> FALSE]]
    /\ UNCHANGED <<releases, deployment, runtime, backup>>

\* A release that exists is verified and used again.
FindRelease(p) ==
    /\ deployer[p].at = "locked"
    /\ DeployerAt(p, IF deployer[p].of \in releases THEN "writing" ELSE "copying")
    /\ UNCHANGED <<releases, deployment, stageLock, runtime, backup>>

\* Copied to a temporary sibling, verified there and renamed.
PublishRelease(p) ==
    /\ deployer[p].at = "copying"
    /\ releases' = releases \cup {deployer[p].of}
    /\ deployer' = [deployer EXCEPT ![p].at = "writing", ![p].created = TRUE]
    /\ UNCHANGED <<deployment, stageLock, runtime, backup>>

WriteDeployment(p) ==
    /\ deployer[p].at = "writing"
    /\ deployment' = deployer[p].of
    /\ DeployerAt(p, "leaving")
    /\ UNCHANGED <<releases, stageLock, runtime, backup>>

\* What a deployment that cannot be written takes away again (the removal of
\* a release is taken to succeed).
Withdrawn_Always(p) == {deployer[p].of}
Withdrawn(p) == IF deployer[p].created THEN {deployer[p].of} ELSE {}

DeployFails(p) ==
    /\ deployer[p].at \in {"locked", "copying", "writing"}
    /\ releases' = IF deployer[p].at = "writing" THEN releases \ Withdrawn(p) ELSE releases
    /\ DeployerAt(p, "leaving")
    /\ UNCHANGED <<deployment, stageLock, runtime, backup>>

\* The lock file may prove impossible to remove, which goes unnoticed.
LeaveDeploy(p) ==
    /\ deployer[p].at = "leaving"
    /\ stageLock' \in {None, Stale}
    /\ DeployerAt(p, "idle")
    /\ UNCHANGED <<releases, deployment, runtime, backup>>

DeployIsKilled(p) ==
    /\ deployer[p].at # "idle"
    /\ stageLock' = Stale
    /\ DeployerAt(p, "idle")
    /\ UNCHANGED <<releases, deployment, runtime, backup>>

----------------------------------------------------------------------------
(* install *)

InstallerAt(p, stage) == installer' = [installer EXCEPT ![p].at = stage]
EnvironmentOf(p, is) == environments' = [environments EXCEPT ![installer[p].of] = is]

\* The deployment is read, and its release verified, before the lock is taken.
Install(p) ==
    /\ installer[p].at = "idle"
    /\ deployment \in releases
    /\ installer' = [installer EXCEPT ![p] = [at |-> "resolved", of |-> deployment]]
    /\ UNCHANGED <<home, environments, installed, installLock, completed, backup>>

LockInstall(p) ==
    /\ installer[p].at = "resolved"
    /\ IF installLock = None THEN installLock' = p /\ InstallerAt(p, "locked")
                             ELSE UNCHANGED installLock /\ InstallerAt(p, "idle")
    /\ UNCHANGED <<home, environments, installed, completed, backup>>

MakeEnvironment(p) ==
    /\ installer[p].at = "locked"
    /\ environments[installer[p].of] = "none"
    /\ EnvironmentOf(p, "partial")
    /\ InstallerAt(p, "building")
    /\ UNCHANGED <<home, installed, installLock, completed, backup>>

\* Where a failed probe of an existing environment goes on.
ProbeFailed_Cleans == "cleaning"
ProbeFailed == "leaving"

\* An environment that exists is used only if the record names it, and if it
\* answers a probe.
UseEnvironment(p) ==
    /\ installer[p].at = "locked"
    /\ environments[installer[p].of] # "none"
    /\ IF installed = installer[p].of THEN \E next \in {"leaving", ProbeFailed} : InstallerAt(p, next)
                                      ELSE InstallerAt(p, "refused")
    /\ UNCHANGED <<home, environments, installed, installLock, completed, backup>>

\* Copied, built by uv, probed, and the release verified once more.
Build(p) ==
    /\ installer[p].at = "building"
    /\ installer[p].of \in releases
    /\ EnvironmentOf(p, "complete")
    /\ InstallerAt(p, "publishing")
    /\ UNCHANGED <<home, installed, installLock, completed, backup>>

PublishInstallation(p) ==
    /\ installer[p].at = "publishing"
    /\ installed' = installer[p].of
    /\ completed' = completed \cup {installer[p].of}
    /\ InstallerAt(p, "leaving")
    /\ UNCHANGED <<home, environments, installLock, backup>>

InstallFails(p) ==
    /\ installer[p].at \in {"building", "publishing"}
    /\ InstallerAt(p, "cleaning")
    /\ UNCHANGED <<home, environments, installed, installLock, completed, backup>>

\* The removal may itself fail, half-way.
CleanInstall(p) ==
    /\ installer[p].at = "cleaning"
    /\ \E left \in {"none", "partial"} : EnvironmentOf(p, left)
    /\ InstallerAt(p, "leaving")
    /\ UNCHANGED <<home, installed, installLock, completed, backup>>

LeaveInstall(p) ==
    /\ installer[p].at \in {"leaving", "refused"}
    /\ installLock' \in {None, Stale}
    /\ InstallerAt(p, "idle")
    /\ UNCHANGED <<home, environments, installed, completed, backup>>

InstallIsKilled(p) ==
    /\ installer[p].at # "idle"
    /\ installLock' = IF installLock = p THEN Stale ELSE installLock
    /\ InstallerAt(p, "idle")
    /\ UNCHANGED <<home, environments, installed, completed, backup>>

----------------------------------------------------------------------------
(* backup, and the operator *)

\* The files to copy are listed root by root: deployment.json before runtime.
ListDeployment ==
    /\ backup.at \in {"idle", "published"}
    /\ deployment # None
    /\ backup' = [at |-> "listing", deployment |-> None, releases |-> {}]
    /\ UNCHANGED <<home, runtime>>

ListReleases ==
    /\ backup.at = "listing"
    /\ backup' = [backup EXCEPT !.at = "reading", !.releases = releases]
    /\ UNCHANGED <<home, runtime>>

\* The listed files are then read in the order of their paths, each compared
\* with itself before and after.
ReadDeployment ==
    /\ backup.at = "reading"
    /\ backup' = [backup EXCEPT !.at = "copying", !.deployment = deployment]
    /\ UNCHANGED <<home, runtime>>

\* A listed file that has gone ends the backup, as does one that changes.
PublishSnapshot ==
    /\ backup.at = "copying"
    /\ backup.releases \subseteq releases
    /\ backup' = [backup EXCEPT !.at = "published"]
    /\ UNCHANGED <<home, runtime>>

BackupEnds ==
    /\ backup.at \in {"listing", "reading", "copying"}
    /\ backup' = [at |-> "idle", deployment |-> None, releases |-> {}]
    /\ UNCHANGED <<home, runtime>>

RemoveStaleStageLock ==
    /\ stageLock = Stale
    /\ stageLock' = None
    /\ UNCHANGED <<releases, deployment, deployer, runtime, backup>>

RemoveStaleInstallLock ==
    /\ installLock = Stale
    /\ installLock' = None
    /\ UNCHANGED <<home, environments, installed, installer, completed, backup>>

Deploying ==
    \E p \in Deployer :
        \/ \E d \in Digest : Deploy(p, d)
        \/ FindRelease(p) \/ PublishRelease(p) \/ WriteDeployment(p)
        \/ DeployFails(p) \/ LeaveDeploy(p) \/ DeployIsKilled(p)

Installing ==
    \E p \in Installer :
        \/ Install(p) \/ LockInstall(p) \/ MakeEnvironment(p) \/ UseEnvironment(p)
        \/ Build(p) \/ PublishInstallation(p) \/ InstallFails(p) \/ CleanInstall(p)
        \/ LeaveInstall(p) \/ InstallIsKilled(p)

BackingUp == ListDeployment \/ ListReleases \/ ReadDeployment \/ PublishSnapshot \/ BackupEnds

Next == Deploying \/ Installing \/ BackingUp \/ RemoveStaleStageLock \/ RemoveStaleInstallLock

Spec == Init /\ [][Next]_vars

----------------------------------------------------------------------------
(* Properties *)

TypeOK ==
    /\ releases \subseteq Digest
    /\ deployment \in Digest \cup {None}
    /\ stageLock \in Deployer \cup {None, Stale}
    /\ deployer \in [Deployer -> [at : DeployStage, of : Digest \cup {None}, created : BOOLEAN]]
    /\ environments \in [Digest -> {"none", "partial", "complete"}]
    /\ installed \in Digest \cup {None}
    /\ installLock \in Installer \cup {None, Stale}
    /\ installer \in [Installer -> [at : InstallStage, of : Digest \cup {None}]]
    /\ completed \subseteq Digest
    /\ backup \in [at : BackupStage, deployment : Digest \cup {None}, releases : SUBSET Digest]

\* deployment.json names a release that is there, whoever failed or was
\* killed: a deployment that cannot be written takes away only a release it
\* has published itself (state.mjs, lines 999-1004), and nobody else can
\* have deployed that release in between.
DeploymentHasItsRelease == deployment # None => deployment \in releases

\* installed.json names an environment that is complete, and a release that
\* is still there: a failed install removes only an environment it has made
\* itself, and not once the record is published (runtime-install.mjs, lines
\* 101-120), and no failed deploy withdraws a release somebody has installed.
InstallationIsWhole ==
    installed # None => environments[installed] = "complete" /\ installed \in releases

\* README of the CLI: "Repeating a completed installation probes and reuses
\* it."
CompletedIsReused ==
    \A p \in Installer : installer[p].at = "refused" => installer[p].of \notin completed

\* README of the CLI: "... source changes during read ... are rejected
\* before the target directory is published."
SnapshotHasItsRelease ==
    backup.at = "published" => backup.deployment \in backup.releases

----------------------------------------------------------------------------
(* The inductive invariant *)

Writing(p) == deployer[p].at = "writing"
Working(p) == installer[p].at \in {"resolved", "locked", "building", "publishing", "cleaning"}

\* Who is past a lock file holds it.
LocksAreHeld ==
    /\ \A p \in Deployer : deployer[p].at # "idle" => stageLock = p
    /\ \A p \in Installer : installer[p].at \notin {"idle", "resolved"} => installLock = p

\* A release is named by nobody before the deployment that made it is written.
ReleasesAreNamedLast ==
    \A p \in Deployer :
        /\ deployer[p].at # "idle" => deployer[p].of \in Digest
        /\ deployer[p].at = "locked" => ~deployer[p].created
        /\ deployer[p].at = "copying" => deployer[p].of \notin releases
        /\ Writing(p) => deployer[p].of \in releases
        /\ Writing(p) /\ deployer[p].created =>
              /\ deployer[p].of # deployment
              /\ deployer[p].of # installed
              /\ \A q \in Installer : Working(q) => installer[q].of # deployer[p].of

\* An install works on a release that is there, and removes no environment
\* that the record names.
InstallsAreOfReleases ==
    \A p \in Installer :
        /\ Working(p) => installer[p].of \in releases
        /\ installer[p].at \in {"building", "publishing", "cleaning"} => installed # installer[p].of
        /\ installer[p].at = "publishing" => environments[installer[p].of] = "complete"

IInv ==
    /\ TypeOK /\ DeploymentHasItsRelease /\ InstallationIsWhole
    /\ LocksAreHeld /\ ReleasesAreNamedLast /\ InstallsAreOfReleases
=============================================================================
