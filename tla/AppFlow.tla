---- MODULE AppFlow ----
(***************************************************************************)
(* The apps micad installs (crates/micad/src/apps.rs, apps/flow.rs,        *)
(* apps/update.rs, apps/seed.rs, bus/apps.rs): one flow at a time installs,*)
(* updates, rolls back or removes an app, takes the image's seeds at boot  *)
(* and looks for updates once a day.  A flow moves the app's directories,  *)
(* its units, its `current` link and its account, and writes the record of *)
(* the apps last; micad can die between any two of these steps.  Starting  *)
(* and stopping an app is no flow and does not wait for one.               *)
(***************************************************************************)
EXTENDS Integers, FiniteSets, Functions

CONSTANTS
    Bundles,      \* the bundles there are: [app, version, build, asks, units, auto]
    AppOps,       \* bound: changes asked for
    AppFaults,    \* bound: failed steps, deaths of micad, and starts and stops asked for
    AppOffers     \* bound: changes of the version file and of the image's seed

\* There are finitely many bundles.  A version is positive, and `none` is no app.
ASSUME BundleAssumption ==
    /\ IsFiniteSet(Bundles)
    /\ \A b \in Bundles : b.version \in Nat \ {0} /\ b.app # "none"

VARIABLES
    appRec,       \* apps.json: what is installed, per app
    appUid,       \* apps.json: the uid of an app's own user, 0 when it has none
    passwd,       \* the account mica-accounts added for an app, 0 when there is none
    dataOf,       \* who owns the app's data: a uid, 0 for root, -1 when there is none
    appDirs,      \* the bundle in each version directory
    appLink,      \* the version `current` points at, 0 when there is none
    unitText,     \* per app and unit, the bundle its installed file is of
    unitRuns,     \* per app and unit, the bundle that runs
    offered,      \* the bundle the app's version file names
    seedOf,       \* the bundle the image seeds an app with
    seedRec,      \* seeded-apps.json
    toSeed,       \* the seeds this boot has not taken yet
    appJob,       \* the flow that runs
    harmed,       \* micad died in a flow of the app, a step failed that the flow does
                  \* not go back from, or a verb came between its steps
    consent,      \* the privileges the user or the image let the app have
    byUser,       \* the user made the app other than its seed since one was taken
    handTurn,     \* the version an unattended update left to an update by hand
    handSaid,     \* what the last update by hand of that version answered
    appUsed       \* how much of the bounds is used

appDisk == <<appDirs, appLink, unitText, unitRuns, passwd, dataOf>>
appBook == <<appRec, appUid, seedRec>>
appSeen == <<consent, byUser, handTurn, handSaid>>
appOutside == <<offered, seedOf>>
appVars == <<appRec, appUid, passwd, dataOf, appDirs, appLink, unitText, unitRuns, offered,
             seedOf, seedRec, toSeed, appJob, harmed, consent, byUser, handTurn, handSaid,
             appUsed>>

Apps == {b.app : b \in Bundles}
BundleVersions == {b.version : b \in Bundles}
AppUnits == UNION {b.units : b \in Bundles}
BundlesOf(a) == {b \in Bundles : b.app = a}
NoBundle == [app |-> "none", version |-> 0, build |-> 0, asks |-> {}, units |-> {},
             auto |-> FALSE]
NothingAsked == [version |-> 0, build |-> 0, privileges |-> {}]
NotInstalled == [current |-> NoBundle, previous |-> NoBundle, firstRun |-> {}, failed |-> 0,
                 asked |-> NothingAsked]
NotSeeded == [bundle |-> NoBundle, result |-> "none", failedBuild |-> NoBundle, tries |-> 0]
NoFlow == [at |-> "idle", op |-> "none", app |-> "none", to |-> NoBundle, from |-> NoBundle,
           gone |-> NoBundle, uid |-> 0, hook |-> FALSE, back |-> FALSE, purge |-> FALSE,
           dataThere |-> FALSE, hands |-> "none", want |-> NoBundle]

\* The tries of a failing seed.
SEED_TRIES == 2

Installed(a) == appRec[a] # NotInstalled
Current(a) == appRec[a].current

\* manifest_of: the manifest is read from the version's directory.
ManifestOf(a, b) == b # NoBundle /\ appDirs[a][b.version] # NoBundle

\* begin: one flow at a time.
Begin == appJob = NoFlow

Spend(what) == appUsed' = [appUsed EXCEPT ![what] = @ + 1]

\* What a bundle asks for beyond the installed one; a root app has everything.
PrivilegeDelta(had, next) ==
    IF "root" \in had THEN {} ELSE IF "root" \in next THEN {"root"} ELSE next \ had

\* An unattended update is admitted like one by hand that was accepted.
AdmitAppUnattended(a, b, reinstall, upgrade, unattended, ask) ==
    LET delta == PrivilegeDelta(IF Installed(a) THEN appDirs[a][Current(a).version].asks ELSE {},
                                b.asks)
    IN  IF \/ ~Installed(a) /\ upgrade
           \/ Installed(a) /\ Current(a).version = b.version /\ ~reinstall
           \/ (unattended \/ ask) /\ Installed(a) /\ ~ManifestOf(a, Current(a))
        THEN "no"
        ELSE IF ask /\ delta # {} THEN "privileges"
        ELSE "yes"

\* admit.  "no" is any refusal that is not about privileges; the checks of the
\* manifest, its units and its devices come before the comparison of privileges.
AdmitApp(a, b, reinstall, upgrade, unattended, ask) ==
    LET delta == PrivilegeDelta(IF Installed(a) THEN appDirs[a][Current(a).version].asks ELSE {},
                                b.asks)
    IN  IF \/ ~Installed(a) /\ upgrade
           \/ Installed(a) /\ Current(a).version = b.version /\ ~reinstall
           \/ (unattended \/ ask) /\ Installed(a) /\ ~ManifestOf(a, Current(a))
        THEN "no"
        ELSE IF unattended /\ Installed(a) /\ delta # {} THEN "no"
        ELSE IF ask /\ delta # {} THEN "privileges"
        ELSE "yes"

\* account: a root app runs without one; the uid of an app stays its own, and a
\* new one is the first neither the record nor /etc/passwd names.
Account(a, b) ==
    IF "root" \in b.asks THEN appUid[a]
    ELSE IF appUid[a] # 0 THEN appUid[a]
    ELSE CHOOSE n \in 1..(2 * Cardinality(Apps) + 1) :
             /\ n \notin Range(appUid) \union Range(passwd)
             /\ \A k \in 1..(n - 1) : k \in Range(appUid) \union Range(passwd)

OwnerOf(b, uid) == IF "root" \in b.asks THEN 0 ELSE uid

----------------------------------------------------------------------------
(* The flows begin.                                                        *)

\* The job of an install of b, admitted.  The new directory is unpacked beside
\* its place.
Unpacking(op, b, hands) ==
    appJob' = [NoFlow EXCEPT !.at = "unpack", !.op = op, !.app = b.app, !.to = b,
                             !.want = b, !.hands = hands]

\* install_app_now.
InstallApp ==
    \E b \in Bundles, reinstall \in BOOLEAN, upgrade \in BOOLEAN, accept \in BOOLEAN :
        /\ Begin /\ appUsed.ops < AppOps
        /\ AdmitApp(b.app, b, reinstall, upgrade, FALSE, ~accept) = "yes"
        /\ consent' = [consent EXCEPT ![b.app] = @ \union IF accept THEN b.asks ELSE {}]
        /\ Unpacking("install", b, "user")
        /\ Spend("ops")
        /\ UNCHANGED <<appBook, appDisk, appOutside, toSeed, harmed, byUser, handTurn, handSaid>>

\* is_available.
IsAvailable(a, b) ==
    /\ b # NoBundle
    /\ b.version > Current(a).version
    /\ b.version # appRec[a].failed

\* asks_within: the bundle asks for no more than was accepted.
AsksWithin(a, b, privileges) ==
    /\ ManifestOf(a, Current(a))
    /\ PrivilegeDelta(appDirs[a][Current(a).version].asks, b.asks) \subseteq privileges

\* fetch_update, after check_update found the offer: an accepted version is the
\* one asked about, with the same bundle.  A refusal for privileges is kept with
\* the offer; any other one, or a bundle that does not come as named, marks the
\* version failed.
FetchUpdate(a, unattended, accept) ==
    LET offer == offered[a]
        asked == appRec[a].asked
        accepted == /\ accept # 0 /\ accept = asked.version
                    /\ asked.version = offer.version /\ asked.build = offer.build
                    /\ AsksWithin(a, offer, asked.privileges)
        admitted == AdmitApp(a, offer, FALSE, TRUE, unattended, ~unattended /\ ~accepted)
        failing == appRec' = [appRec EXCEPT ![a].failed = offer.version]
    IN  /\ Begin /\ Installed(a) /\ ManifestOf(a, Current(a))
        /\ IsAvailable(a, offer)
        /\ \/ /\ admitted = "yes"
              /\ consent' = [consent EXCEPT ![a] = @ \union IF accepted THEN asked.privileges
                                                                        ELSE {}]
              /\ Unpacking("update", offer, IF unattended THEN "daily" ELSE "user")
              /\ UNCHANGED <<appRec, handTurn, appUsed>>
           \/ /\ admitted = "privileges"
              /\ appRec' = [appRec EXCEPT ![a].asked =
                     [version |-> offer.version, build |-> offer.build,
                      privileges |-> PrivilegeDelta(appDirs[a][Current(a).version].asks,
                                                    offer.asks)]]
              /\ UNCHANGED <<appJob, consent, handTurn, appUsed>>
           \/ /\ admitted = "no"
              /\ failing
              /\ handTurn' = [handTurn EXCEPT ![a] = IF unattended THEN offer.version ELSE @]
              /\ UNCHANGED <<appJob, consent, appUsed>>
           \/ /\ appUsed.faults < AppFaults
              /\ failing
              /\ Spend("faults")
              /\ UNCHANGED <<appJob, consent, handTurn>>
        /\ UNCHANGED <<appUid, seedRec, appDisk, appOutside, toSeed, harmed, byUser>>

\* UpdateApp: by hand, of the version offered.
UpdateByHand(a, accept) ==
    /\ FetchUpdate(a, FALSE, accept)
    /\ handSaid' = "went on"

\* It answers that nothing newer is offered.
UpdateNothingNewer(a) ==
    /\ Begin /\ Installed(a) /\ ManifestOf(a, Current(a))
    /\ ~IsAvailable(a, offered[a])
    /\ offered[a].version # 0 /\ offered[a].version = handTurn[a]
    /\ offered[a].version > Current(a).version
    /\ handSaid' = "nothing newer"
    /\ UNCHANGED <<appBook, appDisk, appOutside, toSeed, harmed, consent, byUser, handTurn,
                   appJob, appUsed>>

\* check_all: the daily look takes what it finds when the installed version says so.
UpdateDaily(a) ==
    /\ Installed(a) /\ appDirs[a][Current(a).version].auto
    /\ FetchUpdate(a, TRUE, 0)
    /\ UNCHANGED handSaid

\* rollback: both manifests are read before anything changes.
RollbackApp(a) ==
    /\ Begin /\ appUsed.ops < AppOps /\ Installed(a)
    /\ appRec[a].previous # NoBundle
    /\ ManifestOf(a, Current(a)) /\ ManifestOf(a, appRec[a].previous)
    /\ appJob' = [NoFlow EXCEPT !.at = "stop", !.op = "rollback", !.app = a,
                     !.to = appDirs[a][appRec[a].previous.version],
                     !.from = appDirs[a][Current(a).version],
                     !.uid = Account(a, appDirs[a][appRec[a].previous.version]),
                     !.hands = "user"]
    /\ Spend("ops")
    /\ UNCHANGED <<appBook, appDisk, appOutside, toSeed, harmed, appSeen>>

RemoveApp(a) ==
    \E purge \in BOOLEAN :
        /\ Begin /\ appUsed.ops < AppOps /\ Installed(a)
        /\ appJob' = [NoFlow EXCEPT !.at = "tear down", !.op = "remove", !.app = a,
                         !.from = IF ManifestOf(a, Current(a))
                                  THEN appDirs[a][Current(a).version] ELSE NoBundle,
                         !.purge = purge, !.hands = "user"]
        /\ Spend("ops")
        /\ UNCHANGED <<appBook, appDisk, appOutside, toSeed, harmed, appSeen>>

----------------------------------------------------------------------------
(* The seeds of the image.                                                 *)

\* What seed_one decides of the seed s.  The policy is follow-image.
SeedTaken(a, s) ==
    LET had == seedRec[a] IN
    IF had = NotSeeded THEN IF Installed(a) THEN "skipped" ELSE "install"
    ELSE IF had.bundle = s
    THEN IF had.result # "failed" \/ had.tries >= SEED_TRIES \/ Installed(a)
         THEN "unchanged" ELSE "install"
    ELSE IF had.result = "failed" /\ ~Installed(a) THEN "install"
    ELSE IF had.failedBuild = s /\ had.tries >= SEED_TRIES THEN "unchanged"
    ELSE IF ~Installed(a) \/ Current(a) # had.bundle THEN "unchanged"
    ELSE IF s.version > Current(a).version THEN "upgrade" ELSE "unchanged"

\* seed: each seed waits for the flow that runs.
TakeSeed(a) ==
    LET s == seedOf[a]
        what == SeedTaken(a, s)
    IN  /\ a \in toSeed /\ Begin
        /\ toSeed' = toSeed \ {a}
        /\ \/ /\ what = "unchanged"
              /\ UNCHANGED <<seedRec, appJob, consent, byUser>>
           \/ /\ what = "skipped"
              /\ seedRec' = [seedRec EXCEPT ![a] = [NotSeeded EXCEPT !.bundle = s,
                                                                    !.result = "skipped"]]
              /\ byUser' = [byUser EXCEPT ![a] = Current(a) # s]
              /\ UNCHANGED <<appJob, consent>>
           \/ /\ what \in {"install", "upgrade"}
              /\ AdmitApp(a, s, FALSE, what = "upgrade", FALSE, FALSE) = "yes"
              /\ consent' = [consent EXCEPT ![a] = @ \union s.asks]
              /\ Unpacking(what, s, "image")
              /\ UNCHANGED <<seedRec, byUser>>
        /\ UNCHANGED <<appRec, appUid, appDisk, appOutside, harmed, handTurn, handSaid, appUsed>>

\* What seed_one records once the flow has ended.
SeedSucceeded(a, s, what) ==
    [NotSeeded EXCEPT !.bundle = s,
                      !.result = IF what = "upgrade" THEN "upgraded" ELSE "installed"]
SeedFailed(a, s, what) ==
    LET had == seedRec[a] IN
    IF what = "upgrade"
    THEN [had EXCEPT !.tries = IF had.failedBuild = s THEN had.tries + 1 ELSE 1, !.failedBuild = s]
    ELSE [NotSeeded EXCEPT !.bundle = s, !.result = "failed",
                           !.tries = (IF had.bundle = s THEN had.tries ELSE 0) + 1]

----------------------------------------------------------------------------
(* The steps of a flow.                                                    *)

Job == appJob
OnDisk(changed) == UNCHANGED <<appBook, appOutside, toSeed, harmed, appSeen, changed>>
JobAt(at) == appJob.at = at
JobGoes(at) == appJob' = [appJob EXCEPT !.at = at]

\* The flow is over; a seed's and an update's outcome is still to be recorded.
Ending(ok) ==
    appJob' = IF Job.hands = "image" \/ Job.op = "update"
              THEN [Job EXCEPT !.at = IF ok THEN "note ok" ELSE "note failed"]
              ELSE NoFlow

\* Anything that cannot be unpacked, or does not match what was admitted, leaves
\* what was there.
UnpackFails ==
    /\ JobAt("unpack") /\ appUsed.faults < AppFaults
    /\ Ending(FALSE)
    /\ Spend("faults")
    /\ OnDisk(<<appDisk>>)

\* The directory of the version, if there is one, is moved aside first.
MoveAside ==
    /\ JobAt("unpack")
    /\ appDirs' = [appDirs EXCEPT ![Job.app][Job.to.version] = NoBundle]
    /\ appJob' = [Job EXCEPT !.at = "place", !.gone = appDirs[Job.app][Job.to.version]]
    /\ OnDisk(<<appLink, unitText, unitRuns, passwd, dataOf, appUsed>>)

\* The new one takes its place; the data directory is made, the account named.
MoveIn ==
    LET a == Job.app
        old == Current(a)
        from == IF ~Installed(a) THEN NoBundle
                ELSE IF Job.gone # NoBundle /\ old.version = Job.to.version THEN Job.gone
                ELSE appDirs[a][old.version]
        uid == Account(a, Job.to)
    IN  /\ JobAt("place")
        /\ appDirs' = [appDirs EXCEPT ![a][Job.to.version] = Job.to]
        /\ dataOf' = [dataOf EXCEPT ![a] = IF @ = -1 THEN 0 ELSE @]
        /\ appJob' = [Job EXCEPT !.at = "name", !.from = from, !.uid = uid,
                                 !.hook = Job.to.version \notin appRec[a].firstRun,
                                 !.dataThere = dataOf[a] # -1]
        /\ OnDisk(<<appLink, unitText, unitRuns, passwd, appUsed>>)

NameAccount ==
    /\ JobAt("name")
    /\ passwd' = IF "root" \in Job.to.asks THEN passwd
                 ELSE [passwd EXCEPT ![Job.app] = Job.uid]
    /\ JobGoes("stop")
    /\ OnDisk(<<appDirs, appLink, unitText, unitRuns, dataOf, appUsed>>)

\* switch: the old version's units stop, the new one's are installed, those it no
\* longer ships are removed.
StopUnits ==
    /\ JobAt("stop")
    /\ unitRuns' = [unitRuns EXCEPT ![Job.app] =
           [u \in AppUnits |-> IF u \in Job.from.units THEN NoBundle ELSE @[u]]]
    /\ JobGoes("install")
    /\ OnDisk(<<appDirs, appLink, unitText, passwd, dataOf, appUsed>>)

InstallUnits ==
    /\ JobAt("install")
    /\ unitText' = [unitText EXCEPT ![Job.app] =
           [u \in AppUnits |-> IF u \in Job.to.units THEN Job.to ELSE @[u]]]
    /\ JobGoes("drop")
    /\ OnDisk(<<appDirs, appLink, unitRuns, passwd, dataOf, appUsed>>)

DropUnits ==
    /\ JobAt("drop")
    /\ unitText' = [unitText EXCEPT ![Job.app] =
           [u \in AppUnits |-> IF u \in Job.from.units \ Job.to.units THEN NoBundle ELSE @[u]]]
    /\ JobGoes("point")
    /\ OnDisk(<<appDirs, appLink, unitRuns, passwd, dataOf, appUsed>>)

\* The link is renamed into place, the environment written, the data given to the
\* app's user.
PointCurrent ==
    /\ JobAt("point")
    /\ appLink' = [appLink EXCEPT ![Job.app] = Job.to.version]
    /\ dataOf' = [dataOf EXCEPT ![Job.app] = OwnerOf(Job.to, Job.uid)]
    /\ JobGoes(IF Job.hook /\ ~Job.back THEN "hook" ELSE "start")
    /\ OnDisk(<<appDirs, unitText, unitRuns, passwd, appUsed>>)

\* The first-run hook of a version that has not run it, within 300 seconds.
RunHook ==
    /\ JobAt("hook")
    /\ JobGoes("start")
    /\ OnDisk(<<appDisk, appUsed>>)

\* The units start: one that runs already is left as it is, and
\* each runs what `current` points at.
StartedUnits(a, units) ==
    [u \in AppUnits |->
        IF u \in units /\ unitRuns[a][u] = NoBundle /\ appLink[a] # 0
        THEN appDirs[a][appLink[a]] ELSE unitRuns[a][u]]

StartUnits ==
    /\ JobAt("start")
    /\ appDirs[Job.app][Job.to.version] # NoBundle
    /\ unitRuns' = [unitRuns EXCEPT ![Job.app] = StartedUnits(Job.app, Job.to.units)]
    /\ JobGoes(IF Job.back THEN "failed" ELSE "switched")
    /\ OnDisk(<<appDirs, appLink, unitText, passwd, dataOf, appUsed>>)

\* prune, then write_record.  Only the current and the previous version stay.
PruneVersions ==
    /\ JobAt("switched") /\ Job.op # "rollback"
    /\ LET a == Job.app
           keep == IF Current(a).version # Job.to.version
                   THEN {Job.to.version, Current(a).version}
                   ELSE {Job.to.version, appRec[a].previous.version}
       IN  appDirs' = [appDirs EXCEPT ![a] =
               [v \in BundleVersions |-> IF v \in keep THEN @[v] ELSE NoBundle]]
    /\ JobGoes("write")
    /\ OnDisk(<<appLink, unitText, unitRuns, passwd, dataOf, appUsed>>)

SwitchDone == JobAt("write") \/ (JobAt("switched") /\ Job.op = "rollback")

WriteRecord ==
    LET a == Job.app
        kept == IF Current(a).version # Job.to.version THEN Current(a) ELSE appRec[a].previous
    IN  /\ SwitchDone
        /\ appRec' = [appRec EXCEPT ![a].current = Job.to,
                                    ![a].previous = kept,
                                    ![a].firstRun = IF Job.op # "rollback"
                                                    THEN @ \union {Job.to.version} ELSE @]
        /\ appUid' = [appUid EXCEPT ![a] = Job.uid]
        /\ byUser' = [byUser EXCEPT ![a] =
               /\ Job.hands # "image" /\ Job.to # seedRec[a].bundle
               /\ seedRec[a].result \notin {"none", "failed"}]
        /\ Ending(TRUE)
        /\ UNCHANGED <<seedRec, appDisk, appOutside, toSeed, harmed, consent, handTurn,
                       handSaid, appUsed>>

\* A step of the switch fails: a unit cannot be installed, the hook fails, a unit
\* is left failed.  The files go back to what they were, and the units with them;
\* the switch back runs no hook.  That the directory set aside does not come back is
\* passed over.
SwitchSteps == {"name", "stop", "install", "drop", "point", "hook", "start"}
SwitchFails ==
    /\ Job.at \in SwitchSteps /\ ~Job.back /\ appUsed.faults < AppFaults
    /\ Spend("faults")
    /\ IF Job.op = "rollback"
       THEN /\ appJob' = [Job EXCEPT !.at = "stop", !.back = TRUE, !.to = Job.from,
                                     !.from = Job.to,
                                     !.uid = Account(Job.app, Job.from)]
            /\ UNCHANGED <<appDirs, harmed>>
       ELSE /\ \E came \in {Job.gone, NoBundle} :
                  /\ appDirs' = [appDirs EXCEPT ![Job.app][Job.to.version] = came]
                  /\ harmed' = [harmed EXCEPT ![Job.app] = @ \/ came # Job.gone]
            /\ appJob' = IF Installed(Job.app)
                         THEN [Job EXCEPT !.at = IF Job.from # NoBundle THEN "stop" ELSE "failed",
                                          !.back = TRUE, !.to = Job.from, !.from = Job.to]
                         ELSE [Job EXCEPT !.at = "tear down", !.from = Job.to]
    /\ UNCHANGED <<appBook, appOutside, toSeed, appSeen, appLink, unitText, unitRuns, passwd,
                   dataOf>>

\* The switch back fails too, of the fault that made it necessary: the app is
\* left where it is.
SwitchBackFails ==
    /\ Job.at \in SwitchSteps /\ Job.back
    /\ harmed' = [harmed EXCEPT ![Job.app] = TRUE]
    /\ JobGoes("failed")
    /\ UNCHANGED <<appBook, appDisk, appOutside, toSeed, appSeen, appUsed>>

\* The failure is recorded, with the uid the app was given.
RecordFailure ==
    /\ JobAt("failed")
    /\ appUid' = [appUid EXCEPT ![Job.app] = Job.uid]
    /\ harmed' = [harmed EXCEPT ![Job.app] = @ \/ ~Job.back \/ Job.to = NoBundle]
    /\ Ending(FALSE)
    /\ UNCHANGED <<appRec, seedRec, appDisk, appOutside, toSeed, appSeen, appUsed>>

\* teardown: the units stop and are removed.
TearDown ==
    /\ JobAt("tear down")
    /\ unitRuns' = [unitRuns EXCEPT ![Job.app] =
           [u \in AppUnits |-> IF u \in Job.from.units THEN NoBundle ELSE @[u]]]
    /\ unitText' = [unitText EXCEPT ![Job.app] =
           [u \in AppUnits |-> IF u \in Job.from.units THEN NoBundle ELSE @[u]]]
    /\ JobGoes("clear")
    /\ OnDisk(<<appDirs, appLink, passwd, dataOf, appUsed>>)

\* The directories of the app go.  A first install that failed leaves nothing: the
\* account it added goes, and the data it made.
ClearApp ==
    LET a == Job.app
        fresh == Job.op # "remove"
    IN  /\ JobAt("clear")
        /\ appDirs' = [appDirs EXCEPT ![a] = [v \in BundleVersions |-> NoBundle]]
        /\ appLink' = [appLink EXCEPT ![a] = 0]
        /\ passwd' = IF fresh /\ appUid[a] = 0 THEN [passwd EXCEPT ![a] = 0] ELSE passwd
        /\ dataOf' = IF Job.purge \/ (fresh /\ ~Job.dataThere)
                     THEN [dataOf EXCEPT ![a] = -1] ELSE dataOf
        /\ IF fresh THEN Ending(FALSE) ELSE JobGoes("forget")
        /\ OnDisk(<<unitText, unitRuns, appUsed>>)

ForgetApp ==
    LET a == Job.app IN
    /\ JobAt("forget")
    /\ appRec' = [appRec EXCEPT ![a] = NotInstalled]
    /\ appUid' = IF Job.purge THEN [appUid EXCEPT ![a] = 0] ELSE appUid
    /\ passwd' = IF Job.purge THEN [passwd EXCEPT ![a] = 0] ELSE passwd
    /\ byUser' = [byUser EXCEPT ![a] = seedRec[a].result \notin {"none", "failed"}]
    /\ appJob' = NoFlow
    /\ UNCHANGED <<seedRec, appDirs, appLink, unitText, unitRuns, dataOf, appOutside, toSeed,
                   harmed, consent, handTurn, handSaid, appUsed>>

\* A step fails that the flow does not go back from.
Broken ==
    /\ appUsed.faults < AppFaults
    /\ Spend("faults")
    /\ harmed' = [harmed EXCEPT ![Job.app] = TRUE]
    /\ UNCHANGED <<appBook, appOutside, toSeed, appSeen>>

\* The flow ends where it is: the bundle is not moved to the place the old one was
\* set aside from, the data directory is not made or the account not had, or the
\* record of a switch, a failure or a removal is not written.
LeavesHalfway ==
    /\ Job.at \in {"place", "name", "write", "failed", "forget"}
       \/ (Job.at = "switched" /\ Job.op = "rollback")
    /\ Broken
    /\ passwd' = IF Job.at = "forget" /\ Job.purge
                 THEN [passwd EXCEPT ![Job.app] = 0] ELSE passwd
    /\ Ending(FALSE)
    /\ UNCHANGED <<appDirs, appLink, unitText, unitRuns, dataOf>>

\* A unit that does not stop or cannot be removed is passed over.
TearDownFails ==
    /\ JobAt("tear down")
    /\ Broken
    /\ \E stopped, removed \in SUBSET Job.from.units :
          /\ unitRuns' = [unitRuns EXCEPT ![Job.app] =
                 [u \in AppUnits |-> IF u \in stopped THEN NoBundle ELSE @[u]]]
          /\ unitText' = [unitText EXCEPT ![Job.app] =
                 [u \in AppUnits |-> IF u \in removed THEN NoBundle ELSE @[u]]]
    /\ JobGoes("clear")
    /\ UNCHANGED <<appDirs, appLink, passwd, dataOf>>

\* The directories go in part: a removal ends there, with its record.
ClearFails ==
    /\ JobAt("clear")
    /\ Broken
    /\ \E kept \in SUBSET BundleVersions :
          appDirs' = [appDirs EXCEPT ![Job.app] =
              [v \in BundleVersions |-> IF v \in kept THEN @[v] ELSE NoBundle]]
    /\ appLink' \in {appLink, [appLink EXCEPT ![Job.app] = 0]}
    /\ passwd' \in {passwd, IF Job.op # "remove" /\ appUid[Job.app] = 0
                            THEN [passwd EXCEPT ![Job.app] = 0] ELSE passwd}
    /\ Ending(FALSE)
    /\ UNCHANGED <<unitText, unitRuns, dataOf>>

\* The seed's record, or the update's mark, is written after the flow.
NoteOutcome ==
    LET a == Job.app
        ok == Job.at = "note ok"
    IN  /\ Job.at \in {"note ok", "note failed"}
        /\ IF Job.hands = "image"
           THEN /\ seedRec' = [seedRec EXCEPT ![a] =
                       IF ok THEN SeedSucceeded(a, Job.want, Job.op)
                             ELSE SeedFailed(a, Job.want, Job.op)]
                /\ UNCHANGED appRec
           ELSE /\ appRec' = [appRec EXCEPT ![a] =
                       IF ~Installed(a) THEN @
                       ELSE IF ok THEN [@ EXCEPT !.asked = NothingAsked]
                                  ELSE [@ EXCEPT !.failed = Job.want.version]]
                /\ UNCHANGED seedRec
        /\ appJob' = NoFlow
        /\ UNCHANGED <<appUid, appDisk, appOutside, toSeed, harmed, appSeen, appUsed>>

----------------------------------------------------------------------------
(* What happens around the flows.                                          *)

\* act: start or stop the units of the recorded version, flow or not.
ActOnApp(a) ==
    /\ appUsed.faults < AppFaults /\ Installed(a) /\ ManifestOf(a, Current(a))
    /\ Spend("faults")
    /\ harmed' = [harmed EXCEPT ![a] = @ \/ Job.app = a]
    /\ LET units == {u \in appDirs[a][Current(a).version].units : unitText[a][u] # NoBundle}
       IN  \/ unitRuns' = [unitRuns EXCEPT ![a] = StartedUnits(a, units)]
           \/ unitRuns' = [unitRuns EXCEPT ![a] =
                  [u \in AppUnits |-> IF u \in units THEN NoBundle ELSE @[u]]]
    /\ UNCHANGED <<appBook, appDirs, appLink, unitText, passwd, dataOf, appOutside, toSeed,
                   appJob, appSeen>>

\* micad dies; the units keep running.  It takes the seeds when it starts again.
MicadDies ==
    /\ appUsed.faults < AppFaults
    /\ Spend("faults")
    /\ harmed' = IF Job = NoFlow THEN harmed ELSE [harmed EXCEPT ![Job.app] = TRUE]
    /\ appJob' = NoFlow
    /\ toSeed' = {a \in Apps : seedOf[a] # NoBundle}
    /\ UNCHANGED <<appBook, appDisk, appOutside, appSeen>>

\* The device starts again, perhaps with another image: the installed units start.
DeviceBoots ==
    /\ Begin /\ appUsed.offers < AppOffers
    /\ Spend("offers")
    /\ \E a \in Apps : \E s \in BundlesOf(a) : seedOf' = [seedOf EXCEPT ![a] = s]
    /\ toSeed' = {a \in Apps : seedOf'[a] # NoBundle}
    /\ unitRuns' = [a \in Apps |-> [u \in AppUnits |->
           IF unitText[a][u] # NoBundle /\ appLink[a] # 0 THEN appDirs[a][appLink[a]]
           ELSE NoBundle]]
    /\ UNCHANGED <<appBook, appDirs, appLink, unitText, passwd, dataOf, offered, harmed, appJob,
                   appSeen>>

\* The publisher names another bundle.
VersionFileChanges(a) ==
    /\ appUsed.offers < AppOffers
    /\ Spend("offers")
    /\ \E b \in BundlesOf(a) : b # offered[a] /\ offered' = [offered EXCEPT ![a] = b]
    /\ UNCHANGED <<appBook, appDisk, seedOf, toSeed, harmed, appJob, appSeen>>

AppInit ==
    /\ appRec = [a \in Apps |-> NotInstalled]
    /\ appUid = [a \in Apps |-> 0]
    /\ passwd = [a \in Apps |-> 0]
    /\ dataOf = [a \in Apps |-> -1]
    /\ appDirs = [a \in Apps |-> [v \in BundleVersions |-> NoBundle]]
    /\ appLink = [a \in Apps |-> 0]
    /\ unitText = [a \in Apps |-> [u \in AppUnits |-> NoBundle]]
    /\ unitRuns = [a \in Apps |-> [u \in AppUnits |-> NoBundle]]
    /\ offered = [a \in Apps |-> NoBundle]
    /\ seedOf = [a \in Apps |-> NoBundle]
    /\ seedRec = [a \in Apps |-> NotSeeded]
    /\ toSeed = {}
    /\ appJob = NoFlow
    /\ harmed = [a \in Apps |-> FALSE]
    /\ consent = [a \in Apps |-> {}]
    /\ byUser = [a \in Apps |-> FALSE]
    /\ handTurn = [a \in Apps |-> 0]
    /\ handSaid = "none"
    /\ appUsed = [ops |-> 0, faults |-> 0, offers |-> 0]

\* The calls of the bus (install, update, roll back, remove, act on the units), the
\* daily updates and the seeds, and the steps of the flow that one of them began.
AppNext ==
    \/ InstallApp
    \/ \E a \in Apps : \/ \E accept \in {0} \union BundleVersions : UpdateByHand(a, accept)
                       \/ UpdateNothingNewer(a)
                       \/ UpdateDaily(a)
                       \/ RollbackApp(a)
                       \/ RemoveApp(a)
                       \/ TakeSeed(a)
                       \/ ActOnApp(a)
                       \/ VersionFileChanges(a)
    \/ UnpackFails \/ MoveAside \/ MoveIn \/ NameAccount \/ StopUnits \/ InstallUnits
    \/ DropUnits \/ PointCurrent \/ RunHook \/ StartUnits \/ PruneVersions \/ WriteRecord \/ SwitchFails
    \/ SwitchBackFails \/ RecordFailure \/ TearDown \/ ClearApp \/ ForgetApp \/ NoteOutcome
    \/ LeavesHalfway \/ TearDownFails \/ ClearFails \/ MicadDies \/ DeviceBoots

AppSpec == AppInit /\ [][AppNext]_appVars

----------------------------------------------------------------------------
(* The properties.                                                         *)

\* The state has the shape the record, the disk and the flow have in the code, and a
\* flow that runs is of an app.
AppTypeOK ==
    LET bundles == Bundles \union {NoBundle} IN
    /\ \A a \in Apps : /\ appRec[a].current \in bundles
                       /\ appRec[a].previous \in bundles
                       /\ seedRec[a].tries \in 0..SEED_TRIES
                       /\ dataOf[a] \in -1..(2 * Cardinality(Apps) + 1)
    /\ appJob # NoFlow => appJob.app \in Apps /\ appJob.to \in bundles

\* What is there when no flow runs is what the record says: `current`, the
\* directories of the current and the previous version, the units and the owner of
\* the data.  A switch that fails goes back, and a failed install leaves no part of
\* itself (Apps::install, Apps::rollback).  Not so once micad died in a flow, a verb
\* came between its steps, a switch back failed, or one of the steps did that the
\* code does not go back from: the bundle's move into the place of the one set
\* aside, the data directory, the account, the record, a removal.
InstalledWhole ==
    \A a \in Apps : appJob.app # a /\ ~harmed[a] =>
        LET b == Current(a) IN
        /\ \A u \in AppUnits : /\ unitText[a][u] = IF u \in b.units THEN b ELSE NoBundle
                               /\ unitRuns[a][u] \in {NoBundle, unitText[a][u]}
        /\ appLink[a] = b.version
        /\ Installed(a) =>
              /\ appDirs[a][b.version] = b
              /\ appRec[a].previous # NoBundle =>
                    appDirs[a][appRec[a].previous.version] = appRec[a].previous
              /\ dataOf[a] = OwnerOf(b, appUid[a])

\* Two apps never have one user, in the record or in /etc/passwd, whatever dies or
\* fails (Apps::account).
OwnUsers ==
    \A a, b \in Apps : a # b =>
        /\ appUid[a] # 0 => appUid[a] \notin {appUid[b], passwd[b]}
        /\ passwd[a] # 0 => passwd[a] # passwd[b]

\* No app runs with a privilege that neither the user nor the image let it have: an
\* unattended update asks for none, and one by hand takes what was accepted and no
\* more (Apps::admit, Apps::fetch_update).
NoPrivilegeUnasked ==
    \A a \in Apps : \A u \in AppUnits :
        "root" \in consent[a] \/ unitRuns[a][u].asks \subseteq consent[a]

\* A seed of the image does not replace what the user made of the app since one was
\* taken (Apps::seed_one).
SeedSparesUser ==
    [][\A a \in Apps : appRec'[a].current # appRec[a].current /\ appJob.hands = "image"
           => ~byUser[a]]_appVars

\* A version the unattended update refused for its privileges is left to an update by
\* hand (apps/update.rs, fetch_update).
UpdateByHandTakesIt == handSaid # "nothing newer"

\* Apps through installs, updates, seeds, removals, a killed micad and reboots:
\* none gains a privilege nobody granted, each runs under its own account, and
\* one that is recorded is whole on disk.
AppsSafe == AppTypeOK /\ NoPrivilegeUnasked /\ OwnUsers /\ InstalledWhole

=============================================================================
