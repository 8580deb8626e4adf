--------------------------- MODULE DeployHomeProofs ---------------------------
(***************************************************************************)
(* Theorems about DeployHome for any number of processes and releases.     *)
(* The argument: a release that a failed deploy withdraws is one that      *)
(* nobody has been able to name, because the deployment that made it is    *)
(* not written (ReleasesAreNamedLast), and an install that removes an      *)
(* environment holds the lock under which alone the record is published.   *)
(***************************************************************************)
EXTENDS DeployHome, TLAPS

LEMMA InitInvariant == Init => IInv
<1> SUFFICES ASSUME Init PROVE IInv
  OBVIOUS
<1> USE HomeAssumption DEF Init
<1>1. TypeOK
  BY DEF TypeOK, DeployStage, InstallStage, BackupStage
<1>2. DeploymentHasItsRelease /\ InstallationIsWhole
  BY DEF DeploymentHasItsRelease, InstallationIsWhole
<1>3. LocksAreHeld /\ ReleasesAreNamedLast /\ InstallsAreOfReleases
  BY DEF LocksAreHeld, ReleasesAreNamedLast, InstallsAreOfReleases, Writing, Working
<1> QED
  BY <1>1, <1>2, <1>3 DEF IInv

(* Releases, deployments and deploys keep their types.                     *)
LEMMA DeployTypeStep == TypeOK /\ ReleasesAreNamedLast /\ [Next]_vars => (releases \subseteq Digest /\ deployment \in Digest \cup {None} /\ stageLock \in Deployer \cup {None, Stale} /\ deployer \in [Deployer -> [at : DeployStage, of : Digest \cup {None}, created : BOOLEAN]])'
<1> SUFFICES ASSUME TypeOK /\ ReleasesAreNamedLast, [Next]_vars PROVE (releases \subseteq Digest /\ deployment \in Digest \cup {None} /\ stageLock \in Deployer \cup {None, Stale} /\ deployer \in [Deployer -> [at : DeployStage, of : Digest \cup {None}, created : BOOLEAN]])'
  OBVIOUS
<1>0. /\ releases \subseteq Digest /\ deployment \in Digest \cup {None}
      /\ stageLock \in Deployer \cup {None, Stale}
      /\ deployer \in [Deployer -> [at : DeployStage, of : Digest \cup {None}, created : BOOLEAN]]
      /\ \A p \in Deployer : deployer[p].of \in Digest \cup {None}
      /\ \A p \in Deployer : deployer[p].at # "idle" => deployer[p].of \in Digest
  BY DEF TypeOK, ReleasesAreNamedLast
<1>1. ASSUME NEW p \in Deployer, NEW d \in Digest, Deploy(p, d)
      PROVE  (releases \subseteq Digest /\ deployment \in Digest \cup {None} /\ stageLock \in Deployer \cup {None, Stale} /\ deployer \in [Deployer -> [at : DeployStage, of : Digest \cup {None}, created : BOOLEAN]])'
  BY <1>0, <1>1 DEF Deploy, StageFree, runtime, DeployStage
<1>2. ASSUME NEW p \in Deployer, FindRelease(p)
      PROVE  (releases \subseteq Digest /\ deployment \in Digest \cup {None} /\ stageLock \in Deployer \cup {None, Stale} /\ deployer \in [Deployer -> [at : DeployStage, of : Digest \cup {None}, created : BOOLEAN]])'
  BY <1>0, <1>2 DEF FindRelease, DeployerAt, runtime, DeployStage
<1>3. ASSUME NEW p \in Deployer, PublishRelease(p)
      PROVE  (releases \subseteq Digest /\ deployment \in Digest \cup {None} /\ stageLock \in Deployer \cup {None, Stale} /\ deployer \in [Deployer -> [at : DeployStage, of : Digest \cup {None}, created : BOOLEAN]])'
  <2>1. releases' \subseteq Digest
    BY <1>0, <1>3 DEF PublishRelease
  <2>2. deployer' \in [Deployer -> [at : DeployStage, of : Digest \cup {None}, created : BOOLEAN]]
    BY <1>0, <1>3 DEF PublishRelease, DeployStage
  <2> QED
    BY <1>0, <1>3, <2>1, <2>2 DEF PublishRelease
<1>4. ASSUME NEW p \in Deployer, WriteDeployment(p)
      PROVE  (releases \subseteq Digest /\ deployment \in Digest \cup {None} /\ stageLock \in Deployer \cup {None, Stale} /\ deployer \in [Deployer -> [at : DeployStage, of : Digest \cup {None}, created : BOOLEAN]])'
  BY <1>0, <1>4 DEF WriteDeployment, DeployerAt, runtime, DeployStage
<1>5. ASSUME NEW p \in Deployer, DeployFails(p)
      PROVE  (releases \subseteq Digest /\ deployment \in Digest \cup {None} /\ stageLock \in Deployer \cup {None, Stale} /\ deployer \in [Deployer -> [at : DeployStage, of : Digest \cup {None}, created : BOOLEAN]])'
  BY <1>0, <1>5 DEF DeployFails, DeployerAt, Withdrawn, runtime, DeployStage
<1>6. ASSUME NEW p \in Deployer, LeaveDeploy(p)
      PROVE  (releases \subseteq Digest /\ deployment \in Digest \cup {None} /\ stageLock \in Deployer \cup {None, Stale} /\ deployer \in [Deployer -> [at : DeployStage, of : Digest \cup {None}, created : BOOLEAN]])'
  BY <1>0, <1>6 DEF LeaveDeploy, DeployerAt, runtime, DeployStage
<1>7. ASSUME NEW p \in Deployer, DeployIsKilled(p)
      PROVE  (releases \subseteq Digest /\ deployment \in Digest \cup {None} /\ stageLock \in Deployer \cup {None, Stale} /\ deployer \in [Deployer -> [at : DeployStage, of : Digest \cup {None}, created : BOOLEAN]])'
  BY <1>0, <1>7 DEF DeployIsKilled, DeployerAt, runtime, DeployStage
<1>8. ASSUME NEW p \in Installer, Install(p)
      PROVE  (releases \subseteq Digest /\ deployment \in Digest \cup {None} /\ stageLock \in Deployer \cup {None, Stale} /\ deployer \in [Deployer -> [at : DeployStage, of : Digest \cup {None}, created : BOOLEAN]])'
  BY <1>0, <1>8 DEF Install, home, DeployStage
<1>9. ASSUME NEW p \in Installer, LockInstall(p)
      PROVE  (releases \subseteq Digest /\ deployment \in Digest \cup {None} /\ stageLock \in Deployer \cup {None, Stale} /\ deployer \in [Deployer -> [at : DeployStage, of : Digest \cup {None}, created : BOOLEAN]])'
  BY <1>0, <1>9 DEF LockInstall, InstallerAt, home, DeployStage
<1>10. ASSUME NEW p \in Installer, MakeEnvironment(p)
      PROVE  (releases \subseteq Digest /\ deployment \in Digest \cup {None} /\ stageLock \in Deployer \cup {None, Stale} /\ deployer \in [Deployer -> [at : DeployStage, of : Digest \cup {None}, created : BOOLEAN]])'
  BY <1>0, <1>10 DEF MakeEnvironment, InstallerAt, EnvironmentOf, home, DeployStage
<1>11. ASSUME NEW p \in Installer, UseEnvironment(p)
      PROVE  (releases \subseteq Digest /\ deployment \in Digest \cup {None} /\ stageLock \in Deployer \cup {None, Stale} /\ deployer \in [Deployer -> [at : DeployStage, of : Digest \cup {None}, created : BOOLEAN]])'
  BY <1>0, <1>11 DEF UseEnvironment, InstallerAt, ProbeFailed, home, DeployStage
<1>12. ASSUME NEW p \in Installer, Build(p)
      PROVE  (releases \subseteq Digest /\ deployment \in Digest \cup {None} /\ stageLock \in Deployer \cup {None, Stale} /\ deployer \in [Deployer -> [at : DeployStage, of : Digest \cup {None}, created : BOOLEAN]])'
  BY <1>0, <1>12 DEF Build, InstallerAt, EnvironmentOf, home, DeployStage
<1>13. ASSUME NEW p \in Installer, PublishInstallation(p)
      PROVE  (releases \subseteq Digest /\ deployment \in Digest \cup {None} /\ stageLock \in Deployer \cup {None, Stale} /\ deployer \in [Deployer -> [at : DeployStage, of : Digest \cup {None}, created : BOOLEAN]])'
  BY <1>0, <1>13 DEF PublishInstallation, InstallerAt, home, DeployStage
<1>14. ASSUME NEW p \in Installer, InstallFails(p)
      PROVE  (releases \subseteq Digest /\ deployment \in Digest \cup {None} /\ stageLock \in Deployer \cup {None, Stale} /\ deployer \in [Deployer -> [at : DeployStage, of : Digest \cup {None}, created : BOOLEAN]])'
  BY <1>0, <1>14 DEF InstallFails, InstallerAt, home, DeployStage
<1>15. ASSUME NEW p \in Installer, CleanInstall(p)
      PROVE  (releases \subseteq Digest /\ deployment \in Digest \cup {None} /\ stageLock \in Deployer \cup {None, Stale} /\ deployer \in [Deployer -> [at : DeployStage, of : Digest \cup {None}, created : BOOLEAN]])'
  BY <1>0, <1>15 DEF CleanInstall, InstallerAt, EnvironmentOf, home, DeployStage
<1>16. ASSUME NEW p \in Installer, LeaveInstall(p)
      PROVE  (releases \subseteq Digest /\ deployment \in Digest \cup {None} /\ stageLock \in Deployer \cup {None, Stale} /\ deployer \in [Deployer -> [at : DeployStage, of : Digest \cup {None}, created : BOOLEAN]])'
  BY <1>0, <1>16 DEF LeaveInstall, InstallerAt, home, DeployStage
<1>17. ASSUME NEW p \in Installer, InstallIsKilled(p)
      PROVE  (releases \subseteq Digest /\ deployment \in Digest \cup {None} /\ stageLock \in Deployer \cup {None, Stale} /\ deployer \in [Deployer -> [at : DeployStage, of : Digest \cup {None}, created : BOOLEAN]])'
  BY <1>0, <1>17 DEF InstallIsKilled, InstallerAt, home, DeployStage
<1>18. CASE ListDeployment
  BY <1>0, <1>18 DEF ListDeployment, home, runtime, DeployStage
<1>19. CASE ListReleases
  BY <1>0, <1>19 DEF ListReleases, home, runtime, DeployStage
<1>20. CASE ReadDeployment
  BY <1>0, <1>20 DEF ReadDeployment, home, runtime, DeployStage
<1>21. CASE PublishSnapshot
  BY <1>0, <1>21 DEF PublishSnapshot, home, runtime, DeployStage
<1>22. CASE BackupEnds
  BY <1>0, <1>22 DEF BackupEnds, home, runtime, DeployStage
<1>23. CASE RemoveStaleStageLock
  BY <1>0, <1>23 DEF RemoveStaleStageLock, runtime, DeployStage
<1>24. CASE RemoveStaleInstallLock
  BY <1>0, <1>24 DEF RemoveStaleInstallLock, home, DeployStage
<1>25. CASE UNCHANGED vars
  BY <1>0, <1>25 DEF vars, home, runtime, DeployStage
<1> QED
  BY <1>1, <1>2, <1>3, <1>4, <1>5, <1>6, <1>7, <1>8, <1>9, <1>10, <1>11, <1>12,
     <1>13, <1>14, <1>15, <1>16, <1>17, <1>18, <1>19, <1>20, <1>21, <1>22, <1>23, <1>24,
     <1>25
  DEF Next, Deploying, Installing, BackingUp

(* Environments and installs keep their types.                             *)
LEMMA InstallTypeStep == TypeOK /\ [Next]_vars => (environments \in [Digest -> {"none", "partial", "complete"}] /\ installLock \in Installer \cup {None, Stale} /\ installer \in [Installer -> [at : InstallStage, of : Digest \cup {None}]])'
<1> SUFFICES ASSUME TypeOK, [Next]_vars PROVE (environments \in [Digest -> {"none", "partial", "complete"}] /\ installLock \in Installer \cup {None, Stale} /\ installer \in [Installer -> [at : InstallStage, of : Digest \cup {None}]])'
  OBVIOUS
<1>0. /\ environments \in [Digest -> {"none", "partial", "complete"}]
      /\ installLock \in Installer \cup {None, Stale}
      /\ installer \in [Installer -> [at : InstallStage, of : Digest \cup {None}]]
      /\ releases \subseteq Digest
  BY DEF TypeOK
<1>1. ASSUME NEW p \in Deployer, NEW d \in Digest, Deploy(p, d)
      PROVE  (environments \in [Digest -> {"none", "partial", "complete"}] /\ installLock \in Installer \cup {None, Stale} /\ installer \in [Installer -> [at : InstallStage, of : Digest \cup {None}]])'
  BY <1>0, <1>1 DEF Deploy, StageFree, runtime, InstallStage
<1>2. ASSUME NEW p \in Deployer, FindRelease(p)
      PROVE  (environments \in [Digest -> {"none", "partial", "complete"}] /\ installLock \in Installer \cup {None, Stale} /\ installer \in [Installer -> [at : InstallStage, of : Digest \cup {None}]])'
  BY <1>0, <1>2 DEF FindRelease, DeployerAt, runtime, InstallStage
<1>3. ASSUME NEW p \in Deployer, PublishRelease(p)
      PROVE  (environments \in [Digest -> {"none", "partial", "complete"}] /\ installLock \in Installer \cup {None, Stale} /\ installer \in [Installer -> [at : InstallStage, of : Digest \cup {None}]])'
  BY <1>0, <1>3 DEF PublishRelease, runtime, InstallStage
<1>4. ASSUME NEW p \in Deployer, WriteDeployment(p)
      PROVE  (environments \in [Digest -> {"none", "partial", "complete"}] /\ installLock \in Installer \cup {None, Stale} /\ installer \in [Installer -> [at : InstallStage, of : Digest \cup {None}]])'
  BY <1>0, <1>4 DEF WriteDeployment, DeployerAt, runtime, InstallStage
<1>5. ASSUME NEW p \in Deployer, DeployFails(p)
      PROVE  (environments \in [Digest -> {"none", "partial", "complete"}] /\ installLock \in Installer \cup {None, Stale} /\ installer \in [Installer -> [at : InstallStage, of : Digest \cup {None}]])'
  BY <1>0, <1>5 DEF DeployFails, DeployerAt, Withdrawn, runtime, InstallStage
<1>6. ASSUME NEW p \in Deployer, LeaveDeploy(p)
      PROVE  (environments \in [Digest -> {"none", "partial", "complete"}] /\ installLock \in Installer \cup {None, Stale} /\ installer \in [Installer -> [at : InstallStage, of : Digest \cup {None}]])'
  BY <1>0, <1>6 DEF LeaveDeploy, DeployerAt, runtime, InstallStage
<1>7. ASSUME NEW p \in Deployer, DeployIsKilled(p)
      PROVE  (environments \in [Digest -> {"none", "partial", "complete"}] /\ installLock \in Installer \cup {None, Stale} /\ installer \in [Installer -> [at : InstallStage, of : Digest \cup {None}]])'
  BY <1>0, <1>7 DEF DeployIsKilled, DeployerAt, runtime, InstallStage
<1>8. ASSUME NEW p \in Installer, Install(p)
      PROVE  (environments \in [Digest -> {"none", "partial", "complete"}] /\ installLock \in Installer \cup {None, Stale} /\ installer \in [Installer -> [at : InstallStage, of : Digest \cup {None}]])'
  BY <1>0, <1>8 DEF Install, home, InstallStage
<1>9. ASSUME NEW p \in Installer, LockInstall(p)
      PROVE  (environments \in [Digest -> {"none", "partial", "complete"}] /\ installLock \in Installer \cup {None, Stale} /\ installer \in [Installer -> [at : InstallStage, of : Digest \cup {None}]])'
  BY <1>0, <1>9 DEF LockInstall, InstallerAt, home, InstallStage
<1>10. ASSUME NEW p \in Installer, MakeEnvironment(p)
      PROVE  (environments \in [Digest -> {"none", "partial", "complete"}] /\ installLock \in Installer \cup {None, Stale} /\ installer \in [Installer -> [at : InstallStage, of : Digest \cup {None}]])'
  BY <1>0, <1>10 DEF MakeEnvironment, InstallerAt, EnvironmentOf, home, InstallStage
<1>11. ASSUME NEW p \in Installer, UseEnvironment(p)
      PROVE  (environments \in [Digest -> {"none", "partial", "complete"}] /\ installLock \in Installer \cup {None, Stale} /\ installer \in [Installer -> [at : InstallStage, of : Digest \cup {None}]])'
  BY <1>0, <1>11 DEF UseEnvironment, InstallerAt, ProbeFailed, home, InstallStage
<1>12. ASSUME NEW p \in Installer, Build(p)
      PROVE  (environments \in [Digest -> {"none", "partial", "complete"}] /\ installLock \in Installer \cup {None, Stale} /\ installer \in [Installer -> [at : InstallStage, of : Digest \cup {None}]])'
  BY <1>0, <1>12 DEF Build, InstallerAt, EnvironmentOf, home, InstallStage
<1>13. ASSUME NEW p \in Installer, PublishInstallation(p)
      PROVE  (environments \in [Digest -> {"none", "partial", "complete"}] /\ installLock \in Installer \cup {None, Stale} /\ installer \in [Installer -> [at : InstallStage, of : Digest \cup {None}]])'
  BY <1>0, <1>13 DEF PublishInstallation, InstallerAt, home, InstallStage
<1>14. ASSUME NEW p \in Installer, InstallFails(p)
      PROVE  (environments \in [Digest -> {"none", "partial", "complete"}] /\ installLock \in Installer \cup {None, Stale} /\ installer \in [Installer -> [at : InstallStage, of : Digest \cup {None}]])'
  BY <1>0, <1>14 DEF InstallFails, InstallerAt, home, InstallStage
<1>15. ASSUME NEW p \in Installer, CleanInstall(p)
      PROVE  (environments \in [Digest -> {"none", "partial", "complete"}] /\ installLock \in Installer \cup {None, Stale} /\ installer \in [Installer -> [at : InstallStage, of : Digest \cup {None}]])'
  <2>1. environments' \in [Digest -> {"none", "partial", "complete"}]
    BY <1>0, <1>15 DEF CleanInstall, EnvironmentOf
  <2>2. installer' \in [Installer -> [at : InstallStage, of : Digest \cup {None}]] /\ installLock' = installLock
    BY <1>0, <1>15 DEF CleanInstall, InstallerAt, InstallStage
  <2> QED
    BY <1>0, <2>1, <2>2
<1>16. ASSUME NEW p \in Installer, LeaveInstall(p)
      PROVE  (environments \in [Digest -> {"none", "partial", "complete"}] /\ installLock \in Installer \cup {None, Stale} /\ installer \in [Installer -> [at : InstallStage, of : Digest \cup {None}]])'
  BY <1>0, <1>16 DEF LeaveInstall, InstallerAt, home, InstallStage
<1>17. ASSUME NEW p \in Installer, InstallIsKilled(p)
      PROVE  (environments \in [Digest -> {"none", "partial", "complete"}] /\ installLock \in Installer \cup {None, Stale} /\ installer \in [Installer -> [at : InstallStage, of : Digest \cup {None}]])'
  BY <1>0, <1>17 DEF InstallIsKilled, InstallerAt, home, InstallStage
<1>18. CASE ListDeployment
  BY <1>0, <1>18 DEF ListDeployment, home, runtime, InstallStage
<1>19. CASE ListReleases
  BY <1>0, <1>19 DEF ListReleases, home, runtime, InstallStage
<1>20. CASE ReadDeployment
  BY <1>0, <1>20 DEF ReadDeployment, home, runtime, InstallStage
<1>21. CASE PublishSnapshot
  BY <1>0, <1>21 DEF PublishSnapshot, home, runtime, InstallStage
<1>22. CASE BackupEnds
  BY <1>0, <1>22 DEF BackupEnds, home, runtime, InstallStage
<1>23. CASE RemoveStaleStageLock
  BY <1>0, <1>23 DEF RemoveStaleStageLock, runtime, InstallStage
<1>24. CASE RemoveStaleInstallLock
  BY <1>0, <1>24 DEF RemoveStaleInstallLock, home, InstallStage
<1>25. CASE UNCHANGED vars
  BY <1>0, <1>25 DEF vars, home, runtime, InstallStage
<1> QED
  BY <1>1, <1>2, <1>3, <1>4, <1>5, <1>6, <1>7, <1>8, <1>9, <1>10, <1>11, <1>12,
     <1>13, <1>14, <1>15, <1>16, <1>17, <1>18, <1>19, <1>20, <1>21, <1>22, <1>23, <1>24,
     <1>25
  DEF Next, Deploying, Installing, BackingUp

(* So do the record, its history and the backup.                           *)
LEMMA RecordTypeStep == TypeOK /\ InstallsAreOfReleases /\ [Next]_vars => (installed \in Digest \cup {None} /\ completed \subseteq Digest /\ backup \in [at : BackupStage, deployment : Digest \cup {None}, releases : SUBSET Digest])'
<1> SUFFICES ASSUME TypeOK /\ InstallsAreOfReleases, [Next]_vars PROVE (installed \in Digest \cup {None} /\ completed \subseteq Digest /\ backup \in [at : BackupStage, deployment : Digest \cup {None}, releases : SUBSET Digest])'
  OBVIOUS
<1>0. /\ installed \in Digest \cup {None} /\ completed \subseteq Digest
      /\ backup \in [at : BackupStage, deployment : Digest \cup {None}, releases : SUBSET Digest]
      /\ releases \subseteq Digest /\ deployment \in Digest \cup {None}
      /\ \A p \in Installer : installer[p].at = "publishing" => installer[p].of \in Digest
  BY DEF TypeOK, InstallsAreOfReleases, Working
<1>1. ASSUME NEW p \in Deployer, NEW d \in Digest, Deploy(p, d)
      PROVE  (installed \in Digest \cup {None} /\ completed \subseteq Digest /\ backup \in [at : BackupStage, deployment : Digest \cup {None}, releases : SUBSET Digest])'
  BY <1>0, <1>1 DEF Deploy, StageFree, runtime, BackupStage
<1>2. ASSUME NEW p \in Deployer, FindRelease(p)
      PROVE  (installed \in Digest \cup {None} /\ completed \subseteq Digest /\ backup \in [at : BackupStage, deployment : Digest \cup {None}, releases : SUBSET Digest])'
  BY <1>0, <1>2 DEF FindRelease, DeployerAt, runtime, BackupStage
<1>3. ASSUME NEW p \in Deployer, PublishRelease(p)
      PROVE  (installed \in Digest \cup {None} /\ completed \subseteq Digest /\ backup \in [at : BackupStage, deployment : Digest \cup {None}, releases : SUBSET Digest])'
  BY <1>0, <1>3 DEF PublishRelease, runtime, BackupStage
<1>4. ASSUME NEW p \in Deployer, WriteDeployment(p)
      PROVE  (installed \in Digest \cup {None} /\ completed \subseteq Digest /\ backup \in [at : BackupStage, deployment : Digest \cup {None}, releases : SUBSET Digest])'
  BY <1>0, <1>4 DEF WriteDeployment, DeployerAt, runtime, BackupStage
<1>5. ASSUME NEW p \in Deployer, DeployFails(p)
      PROVE  (installed \in Digest \cup {None} /\ completed \subseteq Digest /\ backup \in [at : BackupStage, deployment : Digest \cup {None}, releases : SUBSET Digest])'
  BY <1>0, <1>5 DEF DeployFails, DeployerAt, Withdrawn, runtime, BackupStage
<1>6. ASSUME NEW p \in Deployer, LeaveDeploy(p)
      PROVE  (installed \in Digest \cup {None} /\ completed \subseteq Digest /\ backup \in [at : BackupStage, deployment : Digest \cup {None}, releases : SUBSET Digest])'
  BY <1>0, <1>6 DEF LeaveDeploy, DeployerAt, runtime, BackupStage
<1>7. ASSUME NEW p \in Deployer, DeployIsKilled(p)
      PROVE  (installed \in Digest \cup {None} /\ completed \subseteq Digest /\ backup \in [at : BackupStage, deployment : Digest \cup {None}, releases : SUBSET Digest])'
  BY <1>0, <1>7 DEF DeployIsKilled, DeployerAt, runtime, BackupStage
<1>8. ASSUME NEW p \in Installer, Install(p)
      PROVE  (installed \in Digest \cup {None} /\ completed \subseteq Digest /\ backup \in [at : BackupStage, deployment : Digest \cup {None}, releases : SUBSET Digest])'
  BY <1>0, <1>8 DEF Install, home, BackupStage
<1>9. ASSUME NEW p \in Installer, LockInstall(p)
      PROVE  (installed \in Digest \cup {None} /\ completed \subseteq Digest /\ backup \in [at : BackupStage, deployment : Digest \cup {None}, releases : SUBSET Digest])'
  BY <1>0, <1>9 DEF LockInstall, InstallerAt, home, BackupStage
<1>10. ASSUME NEW p \in Installer, MakeEnvironment(p)
      PROVE  (installed \in Digest \cup {None} /\ completed \subseteq Digest /\ backup \in [at : BackupStage, deployment : Digest \cup {None}, releases : SUBSET Digest])'
  BY <1>0, <1>10 DEF MakeEnvironment, InstallerAt, EnvironmentOf, home, BackupStage
<1>11. ASSUME NEW p \in Installer, UseEnvironment(p)
      PROVE  (installed \in Digest \cup {None} /\ completed \subseteq Digest /\ backup \in [at : BackupStage, deployment : Digest \cup {None}, releases : SUBSET Digest])'
  BY <1>0, <1>11 DEF UseEnvironment, InstallerAt, ProbeFailed, home, BackupStage
<1>12. ASSUME NEW p \in Installer, Build(p)
      PROVE  (installed \in Digest \cup {None} /\ completed \subseteq Digest /\ backup \in [at : BackupStage, deployment : Digest \cup {None}, releases : SUBSET Digest])'
  BY <1>0, <1>12 DEF Build, InstallerAt, EnvironmentOf, home, BackupStage
<1>13. ASSUME NEW p \in Installer, PublishInstallation(p)
      PROVE  (installed \in Digest \cup {None} /\ completed \subseteq Digest /\ backup \in [at : BackupStage, deployment : Digest \cup {None}, releases : SUBSET Digest])'
  BY <1>0, <1>13 DEF PublishInstallation, InstallerAt, home, BackupStage
<1>14. ASSUME NEW p \in Installer, InstallFails(p)
      PROVE  (installed \in Digest \cup {None} /\ completed \subseteq Digest /\ backup \in [at : BackupStage, deployment : Digest \cup {None}, releases : SUBSET Digest])'
  BY <1>0, <1>14 DEF InstallFails, InstallerAt, home, BackupStage
<1>15. ASSUME NEW p \in Installer, CleanInstall(p)
      PROVE  (installed \in Digest \cup {None} /\ completed \subseteq Digest /\ backup \in [at : BackupStage, deployment : Digest \cup {None}, releases : SUBSET Digest])'
  BY <1>0, <1>15 DEF CleanInstall, InstallerAt, EnvironmentOf, home, BackupStage
<1>16. ASSUME NEW p \in Installer, LeaveInstall(p)
      PROVE  (installed \in Digest \cup {None} /\ completed \subseteq Digest /\ backup \in [at : BackupStage, deployment : Digest \cup {None}, releases : SUBSET Digest])'
  BY <1>0, <1>16 DEF LeaveInstall, InstallerAt, home, BackupStage
<1>17. ASSUME NEW p \in Installer, InstallIsKilled(p)
      PROVE  (installed \in Digest \cup {None} /\ completed \subseteq Digest /\ backup \in [at : BackupStage, deployment : Digest \cup {None}, releases : SUBSET Digest])'
  BY <1>0, <1>17 DEF InstallIsKilled, InstallerAt, home, BackupStage
<1>18. CASE ListDeployment
  BY <1>0, <1>18 DEF ListDeployment, home, runtime, BackupStage
<1>19. CASE ListReleases
  BY <1>0, <1>19 DEF ListReleases, home, runtime, BackupStage
<1>20. CASE ReadDeployment
  BY <1>0, <1>20 DEF ReadDeployment, home, runtime, BackupStage
<1>21. CASE PublishSnapshot
  BY <1>0, <1>21 DEF PublishSnapshot, home, runtime, BackupStage
<1>22. CASE BackupEnds
  BY <1>0, <1>22 DEF BackupEnds, home, runtime, BackupStage
<1>23. CASE RemoveStaleStageLock
  BY <1>0, <1>23 DEF RemoveStaleStageLock, runtime, BackupStage
<1>24. CASE RemoveStaleInstallLock
  BY <1>0, <1>24 DEF RemoveStaleInstallLock, home, BackupStage
<1>25. CASE UNCHANGED vars
  BY <1>0, <1>25 DEF vars, home, runtime, BackupStage
<1> QED
  BY <1>1, <1>2, <1>3, <1>4, <1>5, <1>6, <1>7, <1>8, <1>9, <1>10, <1>11, <1>12,
     <1>13, <1>14, <1>15, <1>16, <1>17, <1>18, <1>19, <1>20, <1>21, <1>22, <1>23, <1>24,
     <1>25
  DEF Next, Deploying, Installing, BackingUp

(* A lock file is made only where there is none, and removed by its owner  *)
(* or, once that is gone, by the operator.                                 *)
LEMMA LocksStep == TypeOK /\ LocksAreHeld /\ [Next]_vars => LocksAreHeld'
<1> SUFFICES ASSUME TypeOK /\ LocksAreHeld, [Next]_vars PROVE LocksAreHeld'
  OBVIOUS
<1>0. /\ LocksAreHeld
      /\ deployer \in [Deployer -> [at : DeployStage, of : Digest \cup {None}, created : BOOLEAN]]
      /\ installer \in [Installer -> [at : InstallStage, of : Digest \cup {None}]]
      /\ None \notin Deployer \cup Installer /\ Stale \notin Deployer \cup Installer
  BY HomeAssumption DEF TypeOK
<1>1. ASSUME NEW p \in Deployer, NEW d \in Digest, Deploy(p, d)
      PROVE  LocksAreHeld'
  BY <1>0, <1>1 DEF Deploy, StageFree, runtime, LocksAreHeld
<1>2. ASSUME NEW p \in Deployer, FindRelease(p)
      PROVE  LocksAreHeld'
  BY <1>0, <1>2 DEF FindRelease, DeployerAt, runtime, LocksAreHeld
<1>3. ASSUME NEW p \in Deployer, PublishRelease(p)
      PROVE  LocksAreHeld'
  BY <1>0, <1>3 DEF PublishRelease, runtime, LocksAreHeld
<1>4. ASSUME NEW p \in Deployer, WriteDeployment(p)
      PROVE  LocksAreHeld'
  BY <1>0, <1>4 DEF WriteDeployment, DeployerAt, runtime, LocksAreHeld
<1>5. ASSUME NEW p \in Deployer, DeployFails(p)
      PROVE  LocksAreHeld'
  BY <1>0, <1>5 DEF DeployFails, DeployerAt, Withdrawn, runtime, LocksAreHeld
<1>6. ASSUME NEW p \in Deployer, LeaveDeploy(p)
      PROVE  LocksAreHeld'
  BY <1>0, <1>6 DEF LeaveDeploy, DeployerAt, runtime, LocksAreHeld
<1>7. ASSUME NEW p \in Deployer, DeployIsKilled(p)
      PROVE  LocksAreHeld'
  BY <1>0, <1>7 DEF DeployIsKilled, DeployerAt, runtime, LocksAreHeld
<1>8. ASSUME NEW p \in Installer, Install(p)
      PROVE  LocksAreHeld'
  BY <1>0, <1>8 DEF Install, home, LocksAreHeld
<1>9. ASSUME NEW p \in Installer, LockInstall(p)
      PROVE  LocksAreHeld'
  BY <1>0, <1>9 DEF LockInstall, InstallerAt, home, LocksAreHeld
<1>10. ASSUME NEW p \in Installer, MakeEnvironment(p)
      PROVE  LocksAreHeld'
  BY <1>0, <1>10 DEF MakeEnvironment, InstallerAt, EnvironmentOf, home, LocksAreHeld
<1>11. ASSUME NEW p \in Installer, UseEnvironment(p)
      PROVE  LocksAreHeld'
  BY <1>0, <1>11 DEF UseEnvironment, InstallerAt, ProbeFailed, home, LocksAreHeld
<1>12. ASSUME NEW p \in Installer, Build(p)
      PROVE  LocksAreHeld'
  BY <1>0, <1>12 DEF Build, InstallerAt, EnvironmentOf, home, LocksAreHeld
<1>13. ASSUME NEW p \in Installer, PublishInstallation(p)
      PROVE  LocksAreHeld'
  BY <1>0, <1>13 DEF PublishInstallation, InstallerAt, home, LocksAreHeld
<1>14. ASSUME NEW p \in Installer, InstallFails(p)
      PROVE  LocksAreHeld'
  BY <1>0, <1>14 DEF InstallFails, InstallerAt, home, LocksAreHeld
<1>15. ASSUME NEW p \in Installer, CleanInstall(p)
      PROVE  LocksAreHeld'
  BY <1>0, <1>15 DEF CleanInstall, InstallerAt, EnvironmentOf, home, LocksAreHeld
<1>16. ASSUME NEW p \in Installer, LeaveInstall(p)
      PROVE  LocksAreHeld'
  BY <1>0, <1>16 DEF LeaveInstall, InstallerAt, home, LocksAreHeld
<1>17. ASSUME NEW p \in Installer, InstallIsKilled(p)
      PROVE  LocksAreHeld'
  BY <1>0, <1>17 DEF InstallIsKilled, InstallerAt, home, LocksAreHeld
<1>18. CASE ListDeployment
  BY <1>0, <1>18 DEF ListDeployment, home, runtime, LocksAreHeld
<1>19. CASE ListReleases
  BY <1>0, <1>19 DEF ListReleases, home, runtime, LocksAreHeld
<1>20. CASE ReadDeployment
  BY <1>0, <1>20 DEF ReadDeployment, home, runtime, LocksAreHeld
<1>21. CASE PublishSnapshot
  BY <1>0, <1>21 DEF PublishSnapshot, home, runtime, LocksAreHeld
<1>22. CASE BackupEnds
  BY <1>0, <1>22 DEF BackupEnds, home, runtime, LocksAreHeld
<1>23. CASE RemoveStaleStageLock
  BY <1>0, <1>23 DEF RemoveStaleStageLock, runtime, LocksAreHeld
<1>24. CASE RemoveStaleInstallLock
  BY <1>0, <1>24 DEF RemoveStaleInstallLock, home, LocksAreHeld
<1>25. CASE UNCHANGED vars
  BY <1>0, <1>25 DEF vars, home, runtime, LocksAreHeld
<1> QED
  BY <1>1, <1>2, <1>3, <1>4, <1>5, <1>6, <1>7, <1>8, <1>9, <1>10, <1>11, <1>12,
     <1>13, <1>14, <1>15, <1>16, <1>17, <1>18, <1>19, <1>20, <1>21, <1>22, <1>23, <1>24,
     <1>25
  DEF Next, Deploying, Installing, BackingUp

(* A release that is withdrawn is not the deployed one.                    *)
LEMMA DeploymentStep == IInv /\ [Next]_vars => DeploymentHasItsRelease'
<1> SUFFICES ASSUME IInv, [Next]_vars PROVE DeploymentHasItsRelease'
  OBVIOUS
<1>0. /\ DeploymentHasItsRelease /\ ReleasesAreNamedLast /\ None \notin Digest
  BY HomeAssumption DEF IInv
<1>1. ASSUME NEW p \in Deployer, NEW d \in Digest, Deploy(p, d)
      PROVE  DeploymentHasItsRelease'
  BY <1>0, <1>1 DEF Deploy, StageFree, runtime, DeploymentHasItsRelease, ReleasesAreNamedLast, Writing
<1>2. ASSUME NEW p \in Deployer, FindRelease(p)
      PROVE  DeploymentHasItsRelease'
  BY <1>0, <1>2 DEF FindRelease, DeployerAt, runtime, DeploymentHasItsRelease, ReleasesAreNamedLast, Writing
<1>3. ASSUME NEW p \in Deployer, PublishRelease(p)
      PROVE  DeploymentHasItsRelease'
  BY <1>0, <1>3 DEF PublishRelease, runtime, DeploymentHasItsRelease, ReleasesAreNamedLast, Writing
<1>4. ASSUME NEW p \in Deployer, WriteDeployment(p)
      PROVE  DeploymentHasItsRelease'
  BY <1>0, <1>4 DEF WriteDeployment, DeployerAt, runtime, DeploymentHasItsRelease, ReleasesAreNamedLast, Writing
<1>5. ASSUME NEW p \in Deployer, DeployFails(p)
      PROVE  DeploymentHasItsRelease'
  BY <1>0, <1>5 DEF DeployFails, DeployerAt, Withdrawn, runtime, DeploymentHasItsRelease, ReleasesAreNamedLast, Writing
<1>6. ASSUME NEW p \in Deployer, LeaveDeploy(p)
      PROVE  DeploymentHasItsRelease'
  BY <1>0, <1>6 DEF LeaveDeploy, DeployerAt, runtime, DeploymentHasItsRelease, ReleasesAreNamedLast, Writing
<1>7. ASSUME NEW p \in Deployer, DeployIsKilled(p)
      PROVE  DeploymentHasItsRelease'
  BY <1>0, <1>7 DEF DeployIsKilled, DeployerAt, runtime, DeploymentHasItsRelease, ReleasesAreNamedLast, Writing
<1>8. ASSUME NEW p \in Installer, Install(p)
      PROVE  DeploymentHasItsRelease'
  BY <1>0, <1>8 DEF Install, home, DeploymentHasItsRelease, ReleasesAreNamedLast, Writing
<1>9. ASSUME NEW p \in Installer, LockInstall(p)
      PROVE  DeploymentHasItsRelease'
  BY <1>0, <1>9 DEF LockInstall, InstallerAt, home, DeploymentHasItsRelease, ReleasesAreNamedLast, Writing
<1>10. ASSUME NEW p \in Installer, MakeEnvironment(p)
      PROVE  DeploymentHasItsRelease'
  BY <1>0, <1>10 DEF MakeEnvironment, InstallerAt, EnvironmentOf, home, DeploymentHasItsRelease, ReleasesAreNamedLast, Writing
<1>11. ASSUME NEW p \in Installer, UseEnvironment(p)
      PROVE  DeploymentHasItsRelease'
  BY <1>0, <1>11 DEF UseEnvironment, InstallerAt, ProbeFailed, home, DeploymentHasItsRelease, ReleasesAreNamedLast, Writing
<1>12. ASSUME NEW p \in Installer, Build(p)
      PROVE  DeploymentHasItsRelease'
  BY <1>0, <1>12 DEF Build, InstallerAt, EnvironmentOf, home, DeploymentHasItsRelease, ReleasesAreNamedLast, Writing
<1>13. ASSUME NEW p \in Installer, PublishInstallation(p)
      PROVE  DeploymentHasItsRelease'
  BY <1>0, <1>13 DEF PublishInstallation, InstallerAt, home, DeploymentHasItsRelease, ReleasesAreNamedLast, Writing
<1>14. ASSUME NEW p \in Installer, InstallFails(p)
      PROVE  DeploymentHasItsRelease'
  BY <1>0, <1>14 DEF InstallFails, InstallerAt, home, DeploymentHasItsRelease, ReleasesAreNamedLast, Writing
<1>15. ASSUME NEW p \in Installer, CleanInstall(p)
      PROVE  DeploymentHasItsRelease'
  BY <1>0, <1>15 DEF CleanInstall, InstallerAt, EnvironmentOf, home, DeploymentHasItsRelease, ReleasesAreNamedLast, Writing
<1>16. ASSUME NEW p \in Installer, LeaveInstall(p)
      PROVE  DeploymentHasItsRelease'
  BY <1>0, <1>16 DEF LeaveInstall, InstallerAt, home, DeploymentHasItsRelease, ReleasesAreNamedLast, Writing
<1>17. ASSUME NEW p \in Installer, InstallIsKilled(p)
      PROVE  DeploymentHasItsRelease'
  BY <1>0, <1>17 DEF InstallIsKilled, InstallerAt, home, DeploymentHasItsRelease, ReleasesAreNamedLast, Writing
<1>18. CASE ListDeployment
  BY <1>0, <1>18 DEF ListDeployment, home, runtime, DeploymentHasItsRelease, ReleasesAreNamedLast, Writing
<1>19. CASE ListReleases
  BY <1>0, <1>19 DEF ListReleases, home, runtime, DeploymentHasItsRelease, ReleasesAreNamedLast, Writing
<1>20. CASE ReadDeployment
  BY <1>0, <1>20 DEF ReadDeployment, home, runtime, DeploymentHasItsRelease, ReleasesAreNamedLast, Writing
<1>21. CASE PublishSnapshot
  BY <1>0, <1>21 DEF PublishSnapshot, home, runtime, DeploymentHasItsRelease, ReleasesAreNamedLast, Writing
<1>22. CASE BackupEnds
  BY <1>0, <1>22 DEF BackupEnds, home, runtime, DeploymentHasItsRelease, ReleasesAreNamedLast, Writing
<1>23. CASE RemoveStaleStageLock
  BY <1>0, <1>23 DEF RemoveStaleStageLock, runtime, DeploymentHasItsRelease, ReleasesAreNamedLast, Writing
<1>24. CASE RemoveStaleInstallLock
  BY <1>0, <1>24 DEF RemoveStaleInstallLock, home, DeploymentHasItsRelease, ReleasesAreNamedLast, Writing
<1>25. CASE UNCHANGED vars
  BY <1>0, <1>25 DEF vars, home, runtime, DeploymentHasItsRelease, ReleasesAreNamedLast, Writing
<1> QED
  BY <1>1, <1>2, <1>3, <1>4, <1>5, <1>6, <1>7, <1>8, <1>9, <1>10, <1>11, <1>12,
     <1>13, <1>14, <1>15, <1>16, <1>17, <1>18, <1>19, <1>20, <1>21, <1>22, <1>23, <1>24,
     <1>25
  DEF Next, Deploying, Installing, BackingUp

(* Only the deploy that holds the lock makes, names or withdraws a release. *)
LEMMA NamedStep == IInv /\ [Next]_vars => ReleasesAreNamedLast'
<1> SUFFICES ASSUME IInv, [Next]_vars PROVE ReleasesAreNamedLast'
  OBVIOUS
<1>0. /\ ReleasesAreNamedLast /\ InstallsAreOfReleases /\ LocksAreHeld /\ DeploymentHasItsRelease
      /\ installed # None => installed \in releases
      /\ deployer \in [Deployer -> [at : DeployStage, of : Digest \cup {None}, created : BOOLEAN]]
      /\ installer \in [Installer -> [at : InstallStage, of : Digest \cup {None}]]
      /\ None \notin Digest
  BY HomeAssumption DEF IInv, TypeOK, InstallationIsWhole
<1>a. \A p, q \in Deployer : deployer[p].at # "idle" /\ deployer[q].at # "idle" => p = q
  BY <1>0 DEF LocksAreHeld
<1>1. ASSUME NEW p \in Deployer, NEW d \in Digest, Deploy(p, d)
      PROVE  ReleasesAreNamedLast'
  BY <1>0, <1>a, <1>1 DEF Deploy, StageFree, runtime, ReleasesAreNamedLast, InstallsAreOfReleases, DeploymentHasItsRelease, Writing, Working
<1>2. ASSUME NEW p \in Deployer, FindRelease(p)
      PROVE  ReleasesAreNamedLast'
  BY <1>0, <1>a, <1>2 DEF FindRelease, DeployerAt, runtime, ReleasesAreNamedLast, InstallsAreOfReleases, DeploymentHasItsRelease, Writing, Working
<1>3. ASSUME NEW p \in Deployer, PublishRelease(p)
      PROVE  ReleasesAreNamedLast'
  BY <1>0, <1>a, <1>3 DEF PublishRelease, runtime, ReleasesAreNamedLast, InstallsAreOfReleases, DeploymentHasItsRelease, Writing, Working
<1>4. ASSUME NEW p \in Deployer, WriteDeployment(p)
      PROVE  ReleasesAreNamedLast'
  BY <1>0, <1>a, <1>4 DEF WriteDeployment, DeployerAt, runtime, ReleasesAreNamedLast, InstallsAreOfReleases, DeploymentHasItsRelease, Writing, Working
<1>5. ASSUME NEW p \in Deployer, DeployFails(p)
      PROVE  ReleasesAreNamedLast'
  BY <1>0, <1>a, <1>5 DEF DeployFails, DeployerAt, Withdrawn, runtime, ReleasesAreNamedLast, InstallsAreOfReleases, DeploymentHasItsRelease, Writing, Working
<1>6. ASSUME NEW p \in Deployer, LeaveDeploy(p)
      PROVE  ReleasesAreNamedLast'
  BY <1>0, <1>a, <1>6 DEF LeaveDeploy, DeployerAt, runtime, ReleasesAreNamedLast, InstallsAreOfReleases, DeploymentHasItsRelease, Writing, Working
<1>7. ASSUME NEW p \in Deployer, DeployIsKilled(p)
      PROVE  ReleasesAreNamedLast'
  BY <1>0, <1>a, <1>7 DEF DeployIsKilled, DeployerAt, runtime, ReleasesAreNamedLast, InstallsAreOfReleases, DeploymentHasItsRelease, Writing, Working
<1>8. ASSUME NEW p \in Installer, Install(p)
      PROVE  ReleasesAreNamedLast'
  BY <1>0, <1>a, <1>8 DEF Install, home, ReleasesAreNamedLast, InstallsAreOfReleases, DeploymentHasItsRelease, Writing, Working
<1>9. ASSUME NEW p \in Installer, LockInstall(p)
      PROVE  ReleasesAreNamedLast'
  BY <1>0, <1>a, <1>9 DEF LockInstall, InstallerAt, home, ReleasesAreNamedLast, InstallsAreOfReleases, DeploymentHasItsRelease, Writing, Working
<1>10. ASSUME NEW p \in Installer, MakeEnvironment(p)
      PROVE  ReleasesAreNamedLast'
  BY <1>0, <1>a, <1>10 DEF MakeEnvironment, InstallerAt, EnvironmentOf, home, ReleasesAreNamedLast, InstallsAreOfReleases, DeploymentHasItsRelease, Writing, Working
<1>11. ASSUME NEW p \in Installer, UseEnvironment(p)
      PROVE  ReleasesAreNamedLast'
  BY <1>0, <1>a, <1>11 DEF UseEnvironment, InstallerAt, ProbeFailed, home, ReleasesAreNamedLast, InstallsAreOfReleases, DeploymentHasItsRelease, Writing, Working
<1>12. ASSUME NEW p \in Installer, Build(p)
      PROVE  ReleasesAreNamedLast'
  BY <1>0, <1>a, <1>12 DEF Build, InstallerAt, EnvironmentOf, home, ReleasesAreNamedLast, InstallsAreOfReleases, DeploymentHasItsRelease, Writing, Working
<1>13. ASSUME NEW p \in Installer, PublishInstallation(p)
      PROVE  ReleasesAreNamedLast'
  BY <1>0, <1>a, <1>13 DEF PublishInstallation, InstallerAt, home, ReleasesAreNamedLast, InstallsAreOfReleases, DeploymentHasItsRelease, Writing, Working
<1>14. ASSUME NEW p \in Installer, InstallFails(p)
      PROVE  ReleasesAreNamedLast'
  BY <1>0, <1>a, <1>14 DEF InstallFails, InstallerAt, home, ReleasesAreNamedLast, InstallsAreOfReleases, DeploymentHasItsRelease, Writing, Working
<1>15. ASSUME NEW p \in Installer, CleanInstall(p)
      PROVE  ReleasesAreNamedLast'
  BY <1>0, <1>a, <1>15 DEF CleanInstall, InstallerAt, EnvironmentOf, home, ReleasesAreNamedLast, InstallsAreOfReleases, DeploymentHasItsRelease, Writing, Working
<1>16. ASSUME NEW p \in Installer, LeaveInstall(p)
      PROVE  ReleasesAreNamedLast'
  BY <1>0, <1>a, <1>16 DEF LeaveInstall, InstallerAt, home, ReleasesAreNamedLast, InstallsAreOfReleases, DeploymentHasItsRelease, Writing, Working
<1>17. ASSUME NEW p \in Installer, InstallIsKilled(p)
      PROVE  ReleasesAreNamedLast'
  BY <1>0, <1>a, <1>17 DEF InstallIsKilled, InstallerAt, home, ReleasesAreNamedLast, InstallsAreOfReleases, DeploymentHasItsRelease, Writing, Working
<1>18. CASE ListDeployment
  BY <1>0, <1>a, <1>18 DEF ListDeployment, home, runtime, ReleasesAreNamedLast, InstallsAreOfReleases, DeploymentHasItsRelease, Writing, Working
<1>19. CASE ListReleases
  BY <1>0, <1>a, <1>19 DEF ListReleases, home, runtime, ReleasesAreNamedLast, InstallsAreOfReleases, DeploymentHasItsRelease, Writing, Working
<1>20. CASE ReadDeployment
  BY <1>0, <1>a, <1>20 DEF ReadDeployment, home, runtime, ReleasesAreNamedLast, InstallsAreOfReleases, DeploymentHasItsRelease, Writing, Working
<1>21. CASE PublishSnapshot
  BY <1>0, <1>a, <1>21 DEF PublishSnapshot, home, runtime, ReleasesAreNamedLast, InstallsAreOfReleases, DeploymentHasItsRelease, Writing, Working
<1>22. CASE BackupEnds
  BY <1>0, <1>a, <1>22 DEF BackupEnds, home, runtime, ReleasesAreNamedLast, InstallsAreOfReleases, DeploymentHasItsRelease, Writing, Working
<1>23. CASE RemoveStaleStageLock
  BY <1>0, <1>a, <1>23 DEF RemoveStaleStageLock, runtime, ReleasesAreNamedLast, InstallsAreOfReleases, DeploymentHasItsRelease, Writing, Working
<1>24. CASE RemoveStaleInstallLock
  BY <1>0, <1>a, <1>24 DEF RemoveStaleInstallLock, home, ReleasesAreNamedLast, InstallsAreOfReleases, DeploymentHasItsRelease, Writing, Working
<1>25. CASE UNCHANGED vars
  BY <1>0, <1>a, <1>25 DEF vars, home, runtime, ReleasesAreNamedLast, InstallsAreOfReleases, DeploymentHasItsRelease, Writing, Working
<1> QED
  BY <1>1, <1>2, <1>3, <1>4, <1>5, <1>6, <1>7, <1>8, <1>9, <1>10, <1>11, <1>12,
     <1>13, <1>14, <1>15, <1>16, <1>17, <1>18, <1>19, <1>20, <1>21, <1>22, <1>23, <1>24,
     <1>25
  DEF Next, Deploying, Installing, BackingUp

(* An install starts from the deployed release, and shares an environment  *)
(* with no other that holds the lock.                                      *)
LEMMA InstallsStep == IInv /\ [Next]_vars => InstallsAreOfReleases'
<1> SUFFICES ASSUME IInv, [Next]_vars PROVE InstallsAreOfReleases'
  OBVIOUS
<1>0. /\ InstallsAreOfReleases /\ ReleasesAreNamedLast /\ InstallationIsWhole
      /\ environments \in [Digest -> {"none", "partial", "complete"}]
      /\ releases \subseteq Digest
      /\ deployer \in [Deployer -> [at : DeployStage, of : Digest \cup {None}, created : BOOLEAN]]
      /\ installer \in [Installer -> [at : InstallStage, of : Digest \cup {None}]]
      /\ None \notin Digest
  BY HomeAssumption DEF IInv, TypeOK
<1>a. \A p, q \in Installer :
        installer[p].at \notin {"idle", "resolved"} /\ installer[q].at \notin {"idle", "resolved"} => p = q
  BY DEF IInv, LocksAreHeld
<1>1. ASSUME NEW p \in Deployer, NEW d \in Digest, Deploy(p, d)
      PROVE  InstallsAreOfReleases'
  BY <1>0, <1>a, <1>1 DEF Deploy, StageFree, runtime, InstallsAreOfReleases, ReleasesAreNamedLast, InstallationIsWhole, Writing, Working
<1>2. ASSUME NEW p \in Deployer, FindRelease(p)
      PROVE  InstallsAreOfReleases'
  BY <1>0, <1>a, <1>2 DEF FindRelease, DeployerAt, runtime, InstallsAreOfReleases, ReleasesAreNamedLast, InstallationIsWhole, Writing, Working
<1>3. ASSUME NEW p \in Deployer, PublishRelease(p)
      PROVE  InstallsAreOfReleases'
  BY <1>0, <1>a, <1>3 DEF PublishRelease, runtime, InstallsAreOfReleases, ReleasesAreNamedLast, InstallationIsWhole, Writing, Working
<1>4. ASSUME NEW p \in Deployer, WriteDeployment(p)
      PROVE  InstallsAreOfReleases'
  BY <1>0, <1>a, <1>4 DEF WriteDeployment, DeployerAt, runtime, InstallsAreOfReleases, ReleasesAreNamedLast, InstallationIsWhole, Writing, Working
<1>5. ASSUME NEW p \in Deployer, DeployFails(p)
      PROVE  InstallsAreOfReleases'
  BY <1>0, <1>a, <1>5 DEF DeployFails, DeployerAt, Withdrawn, runtime, InstallsAreOfReleases, ReleasesAreNamedLast, InstallationIsWhole, Writing, Working
<1>6. ASSUME NEW p \in Deployer, LeaveDeploy(p)
      PROVE  InstallsAreOfReleases'
  BY <1>0, <1>a, <1>6 DEF LeaveDeploy, DeployerAt, runtime, InstallsAreOfReleases, ReleasesAreNamedLast, InstallationIsWhole, Writing, Working
<1>7. ASSUME NEW p \in Deployer, DeployIsKilled(p)
      PROVE  InstallsAreOfReleases'
  BY <1>0, <1>a, <1>7 DEF DeployIsKilled, DeployerAt, runtime, InstallsAreOfReleases, ReleasesAreNamedLast, InstallationIsWhole, Writing, Working
<1>8. ASSUME NEW p \in Installer, Install(p)
      PROVE  InstallsAreOfReleases'
  BY <1>0, <1>a, <1>8 DEF Install, home, InstallsAreOfReleases, ReleasesAreNamedLast, InstallationIsWhole, Writing, Working
<1>9. ASSUME NEW p \in Installer, LockInstall(p)
      PROVE  InstallsAreOfReleases'
  BY <1>0, <1>a, <1>9 DEF LockInstall, InstallerAt, home, InstallsAreOfReleases, ReleasesAreNamedLast, InstallationIsWhole, Writing, Working
<1>10. ASSUME NEW p \in Installer, MakeEnvironment(p)
      PROVE  InstallsAreOfReleases'
  BY <1>0, <1>a, <1>10 DEF MakeEnvironment, InstallerAt, EnvironmentOf, home, InstallsAreOfReleases, ReleasesAreNamedLast, InstallationIsWhole, Writing, Working
<1>11. ASSUME NEW p \in Installer, UseEnvironment(p)
      PROVE  InstallsAreOfReleases'
  BY <1>0, <1>a, <1>11 DEF UseEnvironment, InstallerAt, ProbeFailed, home, InstallsAreOfReleases, ReleasesAreNamedLast, InstallationIsWhole, Writing, Working
<1>12. ASSUME NEW p \in Installer, Build(p)
      PROVE  InstallsAreOfReleases'
  BY <1>0, <1>a, <1>12 DEF Build, InstallerAt, EnvironmentOf, home, InstallsAreOfReleases, ReleasesAreNamedLast, InstallationIsWhole, Writing, Working
<1>13. ASSUME NEW p \in Installer, PublishInstallation(p)
      PROVE  InstallsAreOfReleases'
  BY <1>0, <1>a, <1>13 DEF PublishInstallation, InstallerAt, home, InstallsAreOfReleases, ReleasesAreNamedLast, InstallationIsWhole, Writing, Working
<1>14. ASSUME NEW p \in Installer, InstallFails(p)
      PROVE  InstallsAreOfReleases'
  BY <1>0, <1>a, <1>14 DEF InstallFails, InstallerAt, home, InstallsAreOfReleases, ReleasesAreNamedLast, InstallationIsWhole, Writing, Working
<1>15. ASSUME NEW p \in Installer, CleanInstall(p)
      PROVE  InstallsAreOfReleases'
  BY <1>0, <1>a, <1>15 DEF CleanInstall, InstallerAt, EnvironmentOf, home, InstallsAreOfReleases, ReleasesAreNamedLast, InstallationIsWhole, Writing, Working
<1>16. ASSUME NEW p \in Installer, LeaveInstall(p)
      PROVE  InstallsAreOfReleases'
  BY <1>0, <1>a, <1>16 DEF LeaveInstall, InstallerAt, home, InstallsAreOfReleases, ReleasesAreNamedLast, InstallationIsWhole, Writing, Working
<1>17. ASSUME NEW p \in Installer, InstallIsKilled(p)
      PROVE  InstallsAreOfReleases'
  BY <1>0, <1>a, <1>17 DEF InstallIsKilled, InstallerAt, home, InstallsAreOfReleases, ReleasesAreNamedLast, InstallationIsWhole, Writing, Working
<1>18. CASE ListDeployment
  BY <1>0, <1>a, <1>18 DEF ListDeployment, home, runtime, InstallsAreOfReleases, ReleasesAreNamedLast, InstallationIsWhole, Writing, Working
<1>19. CASE ListReleases
  BY <1>0, <1>a, <1>19 DEF ListReleases, home, runtime, InstallsAreOfReleases, ReleasesAreNamedLast, InstallationIsWhole, Writing, Working
<1>20. CASE ReadDeployment
  BY <1>0, <1>a, <1>20 DEF ReadDeployment, home, runtime, InstallsAreOfReleases, ReleasesAreNamedLast, InstallationIsWhole, Writing, Working
<1>21. CASE PublishSnapshot
  BY <1>0, <1>a, <1>21 DEF PublishSnapshot, home, runtime, InstallsAreOfReleases, ReleasesAreNamedLast, InstallationIsWhole, Writing, Working
<1>22. CASE BackupEnds
  BY <1>0, <1>a, <1>22 DEF BackupEnds, home, runtime, InstallsAreOfReleases, ReleasesAreNamedLast, InstallationIsWhole, Writing, Working
<1>23. CASE RemoveStaleStageLock
  BY <1>0, <1>a, <1>23 DEF RemoveStaleStageLock, runtime, InstallsAreOfReleases, ReleasesAreNamedLast, InstallationIsWhole, Writing, Working
<1>24. CASE RemoveStaleInstallLock
  BY <1>0, <1>a, <1>24 DEF RemoveStaleInstallLock, home, InstallsAreOfReleases, ReleasesAreNamedLast, InstallationIsWhole, Writing, Working
<1>25. CASE UNCHANGED vars
  BY <1>0, <1>a, <1>25 DEF vars, home, runtime, InstallsAreOfReleases, ReleasesAreNamedLast, InstallationIsWhole, Writing, Working
<1> QED
  BY <1>1, <1>2, <1>3, <1>4, <1>5, <1>6, <1>7, <1>8, <1>9, <1>10, <1>11, <1>12,
     <1>13, <1>14, <1>15, <1>16, <1>17, <1>18, <1>19, <1>20, <1>21, <1>22, <1>23, <1>24,
     <1>25
  DEF Next, Deploying, Installing, BackingUp

(* The environment of the record is not removed, nor its release.          *)
LEMMA WholeStep == IInv /\ [Next]_vars => InstallationIsWhole'
<1> SUFFICES ASSUME IInv, [Next]_vars PROVE InstallationIsWhole'
  OBVIOUS
<1>0. /\ InstallationIsWhole /\ InstallsAreOfReleases /\ ReleasesAreNamedLast
      /\ environments \in [Digest -> {"none", "partial", "complete"}]
      /\ releases \subseteq Digest /\ installed \in Digest \cup {None}
  BY DEF IInv, TypeOK
<1>1. ASSUME NEW p \in Deployer, NEW d \in Digest, Deploy(p, d)
      PROVE  InstallationIsWhole'
  BY <1>0, <1>1 DEF Deploy, StageFree, runtime, InstallationIsWhole, InstallsAreOfReleases, ReleasesAreNamedLast, Writing, Working
<1>2. ASSUME NEW p \in Deployer, FindRelease(p)
      PROVE  InstallationIsWhole'
  BY <1>0, <1>2 DEF FindRelease, DeployerAt, runtime, InstallationIsWhole, InstallsAreOfReleases, ReleasesAreNamedLast, Writing, Working
<1>3. ASSUME NEW p \in Deployer, PublishRelease(p)
      PROVE  InstallationIsWhole'
  BY <1>0, <1>3 DEF PublishRelease, runtime, InstallationIsWhole, InstallsAreOfReleases, ReleasesAreNamedLast, Writing, Working
<1>4. ASSUME NEW p \in Deployer, WriteDeployment(p)
      PROVE  InstallationIsWhole'
  BY <1>0, <1>4 DEF WriteDeployment, DeployerAt, runtime, InstallationIsWhole, InstallsAreOfReleases, ReleasesAreNamedLast, Writing, Working
<1>5. ASSUME NEW p \in Deployer, DeployFails(p)
      PROVE  InstallationIsWhole'
  BY <1>0, <1>5 DEF DeployFails, DeployerAt, Withdrawn, runtime, InstallationIsWhole, InstallsAreOfReleases, ReleasesAreNamedLast, Writing, Working
<1>6. ASSUME NEW p \in Deployer, LeaveDeploy(p)
      PROVE  InstallationIsWhole'
  BY <1>0, <1>6 DEF LeaveDeploy, DeployerAt, runtime, InstallationIsWhole, InstallsAreOfReleases, ReleasesAreNamedLast, Writing, Working
<1>7. ASSUME NEW p \in Deployer, DeployIsKilled(p)
      PROVE  InstallationIsWhole'
  BY <1>0, <1>7 DEF DeployIsKilled, DeployerAt, runtime, InstallationIsWhole, InstallsAreOfReleases, ReleasesAreNamedLast, Writing, Working
<1>8. ASSUME NEW p \in Installer, Install(p)
      PROVE  InstallationIsWhole'
  BY <1>0, <1>8 DEF Install, home, InstallationIsWhole, InstallsAreOfReleases, ReleasesAreNamedLast, Writing, Working
<1>9. ASSUME NEW p \in Installer, LockInstall(p)
      PROVE  InstallationIsWhole'
  BY <1>0, <1>9 DEF LockInstall, InstallerAt, home, InstallationIsWhole, InstallsAreOfReleases, ReleasesAreNamedLast, Writing, Working
<1>10. ASSUME NEW p \in Installer, MakeEnvironment(p)
      PROVE  InstallationIsWhole'
  BY <1>0, <1>10 DEF MakeEnvironment, InstallerAt, EnvironmentOf, home, InstallationIsWhole, InstallsAreOfReleases, ReleasesAreNamedLast, Writing, Working
<1>11. ASSUME NEW p \in Installer, UseEnvironment(p)
      PROVE  InstallationIsWhole'
  BY <1>0, <1>11 DEF UseEnvironment, InstallerAt, ProbeFailed, home, InstallationIsWhole, InstallsAreOfReleases, ReleasesAreNamedLast, Writing, Working
<1>12. ASSUME NEW p \in Installer, Build(p)
      PROVE  InstallationIsWhole'
  BY <1>0, <1>12 DEF Build, InstallerAt, EnvironmentOf, home, InstallationIsWhole, InstallsAreOfReleases, ReleasesAreNamedLast, Writing, Working
<1>13. ASSUME NEW p \in Installer, PublishInstallation(p)
      PROVE  InstallationIsWhole'
  BY <1>0, <1>13 DEF PublishInstallation, InstallerAt, home, InstallationIsWhole, InstallsAreOfReleases, ReleasesAreNamedLast, Writing, Working
<1>14. ASSUME NEW p \in Installer, InstallFails(p)
      PROVE  InstallationIsWhole'
  BY <1>0, <1>14 DEF InstallFails, InstallerAt, home, InstallationIsWhole, InstallsAreOfReleases, ReleasesAreNamedLast, Writing, Working
<1>15. ASSUME NEW p \in Installer, CleanInstall(p)
      PROVE  InstallationIsWhole'
  BY <1>0, <1>15 DEF CleanInstall, InstallerAt, EnvironmentOf, home, InstallationIsWhole, InstallsAreOfReleases, ReleasesAreNamedLast, Writing, Working
<1>16. ASSUME NEW p \in Installer, LeaveInstall(p)
      PROVE  InstallationIsWhole'
  BY <1>0, <1>16 DEF LeaveInstall, InstallerAt, home, InstallationIsWhole, InstallsAreOfReleases, ReleasesAreNamedLast, Writing, Working
<1>17. ASSUME NEW p \in Installer, InstallIsKilled(p)
      PROVE  InstallationIsWhole'
  BY <1>0, <1>17 DEF InstallIsKilled, InstallerAt, home, InstallationIsWhole, InstallsAreOfReleases, ReleasesAreNamedLast, Writing, Working
<1>18. CASE ListDeployment
  BY <1>0, <1>18 DEF ListDeployment, home, runtime, InstallationIsWhole, InstallsAreOfReleases, ReleasesAreNamedLast, Writing, Working
<1>19. CASE ListReleases
  BY <1>0, <1>19 DEF ListReleases, home, runtime, InstallationIsWhole, InstallsAreOfReleases, ReleasesAreNamedLast, Writing, Working
<1>20. CASE ReadDeployment
  BY <1>0, <1>20 DEF ReadDeployment, home, runtime, InstallationIsWhole, InstallsAreOfReleases, ReleasesAreNamedLast, Writing, Working
<1>21. CASE PublishSnapshot
  BY <1>0, <1>21 DEF PublishSnapshot, home, runtime, InstallationIsWhole, InstallsAreOfReleases, ReleasesAreNamedLast, Writing, Working
<1>22. CASE BackupEnds
  BY <1>0, <1>22 DEF BackupEnds, home, runtime, InstallationIsWhole, InstallsAreOfReleases, ReleasesAreNamedLast, Writing, Working
<1>23. CASE RemoveStaleStageLock
  BY <1>0, <1>23 DEF RemoveStaleStageLock, runtime, InstallationIsWhole, InstallsAreOfReleases, ReleasesAreNamedLast, Writing, Working
<1>24. CASE RemoveStaleInstallLock
  BY <1>0, <1>24 DEF RemoveStaleInstallLock, home, InstallationIsWhole, InstallsAreOfReleases, ReleasesAreNamedLast, Writing, Working
<1>25. CASE UNCHANGED vars
  BY <1>0, <1>25 DEF vars, home, runtime, InstallationIsWhole, InstallsAreOfReleases, ReleasesAreNamedLast, Writing, Working
<1> QED
  BY <1>1, <1>2, <1>3, <1>4, <1>5, <1>6, <1>7, <1>8, <1>9, <1>10, <1>11, <1>12,
     <1>13, <1>14, <1>15, <1>16, <1>17, <1>18, <1>19, <1>20, <1>21, <1>22, <1>23, <1>24,
     <1>25
  DEF Next, Deploying, Installing, BackingUp

LEMMA InvariantStep == IInv /\ [Next]_vars => IInv'
<1> SUFFICES ASSUME IInv, [Next]_vars PROVE IInv'
  OBVIOUS
<1>1. TypeOK'
  BY DeployTypeStep, InstallTypeStep, RecordTypeStep DEF IInv, TypeOK
<1> QED
  BY <1>1, LocksStep, DeploymentStep, NamedStep, InstallsStep, WholeStep DEF IInv

THEOREM Inductive == Spec => []IInv
BY InitInvariant, InvariantStep, PTL DEF Spec

(* Releases, environments, records and processes have their types.         *)
THEOREM TypeCorrect == Spec => []TypeOK
<1>1. IInv => TypeOK
  BY DEF IInv
<1> QED
  BY <1>1, Inductive, PTL

(* For any number of deploys that fail or are killed: the deployed release *)
(* is there (state.mjs, lines 962-1016).                                   *)
THEOREM DeploymentIsKept == Spec => []DeploymentHasItsRelease
<1>1. IInv => DeploymentHasItsRelease
  BY DEF IInv
<1> QED
  BY <1>1, Inductive, PTL

(* For any number of deploys and installs: the installed environment is    *)
(* complete and its release is there (runtime-install.mjs, lines 67-132).  *)
THEOREM InstallationIsKept == Spec => []InstallationIsWhole
<1>1. IInv => InstallationIsWhole
  BY DEF IInv
<1> QED
  BY <1>1, Inductive, PTL
===============================================================================
