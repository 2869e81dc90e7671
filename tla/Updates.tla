---- MODULE Updates ----
(* The self-update: the check on start and on demand (UpdateCoordinator, UpdateChecker), *)
(* the download and its verification on a pool thread (UpdateManager), the progress      *)
(* dialog whose every close is a cancel (UpdateInteractionView, QProgressDialog), and    *)
(* the updater program that swaps the executable once the application has gone           *)
(* (updater/windows/main.cpp).  The files are shared by both processes and by an         *)
(* application the user starts meanwhile, whose start removes the staged files.          *)
EXTENDS Integers

CONSTANTS
  MaxChecks,      \* "Check for Updates", over all launches
  MaxStarts,      \* downloads begun, over all launches
  MaxLaunches     \* times the application is started

VARIABLES
  app,       \* the application's process: coordinator and dialog
  job,       \* UpdateManager: the reply it holds, cancelToken_, and the pool thread
  disk,      \* the executables and the staged files
  updater    \* the updater's process

updateVars == <<app, job, disk, updater>>

Runnable == {"old", "new"}

\* What the checker found: whether the release can be applied here, and where its
\* SHA-256 is to be had.
Offers == [here : BOOLEAN, sha : {"digest", "sums", "none"}]
NoOffer == [here |-> FALSE, sha |-> "none"]

FreshApp(checking, clicks, launches) ==
  [state |-> "running", inFlight |-> IF checking THEN 1 ELSE 0, manual |-> FALSE, enabled |-> TRUE,
   available |-> FALSE, offer |-> NoOffer, prompts |-> 0, dialog |-> "none",
   clicks |-> clicks, launches |-> launches]

FreshJob(starts) ==
  [fetch |-> "none", token |-> FALSE, hash |-> "none", sha |-> "none", starts |-> starts]

\* initialize(): with the frequency and the last check, the start checks or does not.
UpdateInit ==
  /\ \E auto \in BOOLEAN : app = FreshApp(auto, 0, 1)
  /\ job = FreshJob(0)
  /\ disk = [target |-> "old", backup |-> "none", staged |-> "none", sums |-> "none"]
  /\ updater = [at |-> "none", launcher |-> 0, hadTarget |-> FALSE]

Alive == app.state = "running"

----
(* The dialog and the manager call each other: closing the dialog emits canceled(),   *)
(* which is connected to cancelUpdate(); aborting a reply finishes it at once, which   *)
(* emits updateCanceled(), which closes the dialog.  As functions of [a |-> app, j |-> job]. *)

\* cancelUpdate(): a reply that is aborted has its end handled before abort() returns.
CancelUpdate(w) ==
  [a |-> IF w.j.fetch # "none" THEN [w.a EXCEPT !.dialog = "none"] ELSE w.a,
   j |-> [w.j EXCEPT !.token = TRUE, !.fetch = "none"]]

\* The dialog is dropped without its cancel (a repair of the crash at ShowProgress).
HideProgressQuietly(w) == [w EXCEPT !.a.dialog = "none"]

\* hideUpdateProgress(): close() is a cancel, then the dialog is forgotten.
HideProgress(w) ==
  IF w.a.dialog = "none" THEN w
  ELSE LET d == CancelUpdate(w) IN [d EXCEPT !.a.dialog = "none"]

\* showUpdateProgress(), after the download has begun.  An older dialog that is still
\* held is closed first; its cancel aborts the new reply, whose end closes and forgets
\* the dialog, and the pointer the outer call goes on with is null.
ShowProgress(w) ==
  IF w.a.dialog # "none" /\ w.j.fetch # "none"
  THEN LET d == HideProgress(w) IN
       IF d.j.fetch = "none" THEN [d EXCEPT !.a.state = "crashed"] ELSE [d EXCEPT !.a.dialog = "shown"]
  ELSE LET d == HideProgress(w) IN [d EXCEPT !.a.dialog = "shown"]

\* updateFailed and updateReadyToInstall, and updateCanceled, as the coordinator takes them.
Ended(w) == LET d == HideProgress(w) IN [d EXCEPT !.a.manual = FALSE]

Canceled(w) == HideProgress(w)

Afterwards(w) == app' = w.a /\ job' = w.j
Now == [a |-> app, j |-> job]

----
(* The check *)

\* The menu's action: blocked by an open prompt and by the dialog, which are modal, and
\* disabled while a check the user asked for is out.
CheckClicked ==
  /\ Alive /\ app.enabled /\ app.prompts = 0 /\ app.dialog # "shown" /\ app.clicks < MaxChecks
  /\ app' = [app EXCEPT !.clicks = @ + 1,
               !.prompts = IF app.available THEN 1 ELSE 0,
               !.enabled = app.available,
               !.manual = IF app.available THEN @ ELSE TRUE,
               !.inFlight = IF app.available THEN @ ELSE @ + 1]
  /\ UNCHANGED <<job, disk, updater>>

\* A release the updater cannot apply ends in a message or a page, not in the prompt.
ReplyFound ==
  /\ Alive /\ app.inFlight > 0
  /\ \E offer \in Offers :
       app' = [app EXCEPT !.inFlight = @ - 1, !.enabled = TRUE, !.available = TRUE, !.offer = offer,
                 !.prompts = IF app.manual /\ offer.here THEN @ + 1 ELSE @,
                 !.manual = @ /\ offer.here]
  /\ UNCHANGED <<job, disk, updater>>

\* checkFailed, noUpdateAvailable: told only if the user asked.
ReplyEmpty ==
  /\ Alive /\ app.inFlight > 0
  /\ app' = [app EXCEPT !.inFlight = @ - 1, !.enabled = TRUE, !.manual = FALSE]
  /\ UNCHANGED <<job, disk, updater>>

Declined ==
  /\ Alive /\ app.prompts > 0
  /\ app' = [app EXCEPT !.prompts = @ - 1, !.manual = FALSE]
  /\ UNCHANGED <<job, disk, updater>>

----
(* The download *)

\* startSilentUpdate(): startUpdate() cancels what runs, clears the token and begins the
\* download (the staged file is truncated on open) or fails before it returns; only then
\* is the dialog shown.  A prompt for a release that cannot be applied offers a page.
\* An assumption on time: nobody starts an application and then an update in the
\* milliseconds an updater spends between its check and its moves.
Moving == {"backup", "install", "rollback"}

StartUpdate ==
  /\ Alive /\ app.prompts > 0 /\ job.starts < MaxStarts /\ app.offer.here
  /\ updater.at \notin Moving
  /\ LET w0 == CancelUpdate([Now EXCEPT !.a.prompts = @ - 1])
         w1 == [w0 EXCEPT !.j.token = FALSE, !.j.starts = @ + 1, !.j.sha = app.offer.sha] IN
     \/ /\ Afterwards(ShowProgress([w1 EXCEPT !.j.fetch = "main"]))
        /\ disk' = [disk EXCEPT !.staged = "part"]
     \/ /\ Afterwards(ShowProgress(Ended(w1)))   \* no directory, no file
        /\ UNCHANGED disk
  /\ UNCHANGED updater

\* The user's Cancel: the dialog hides itself first.
CancelClicked ==
  /\ Alive /\ app.dialog = "shown"
  /\ Afterwards(CancelUpdate([Now EXCEPT !.a.dialog = "hidden"]))
  /\ UNCHANGED <<disk, updater>>

\* 100 %: the dialog closes itself, and is still held.
ProgressFull ==
  /\ Alive /\ job.fetch # "none" /\ app.dialog = "shown"
  /\ app' = [app EXCEPT !.dialog = "hidden"]
  /\ UNCHANGED <<job, disk, updater>>

\* The reply ended well: the sums are fetched when the release gave no digest and has
\* them, else the file is handed to the pool thread.
MainFetched ==
  /\ Alive /\ job.fetch = "main"
  /\ \E content \in {"good", "bad"} : disk' = [disk EXCEPT !.staged = content]
  /\ IF job.sha = "sums"
     THEN \/ job' = [job EXCEPT !.fetch = "sums"] /\ UNCHANGED app
          \/ Afterwards(Ended([Now EXCEPT !.j.fetch = "none"]))
     ELSE job' = [job EXCEPT !.fetch = "none", !.hash = "reading"] /\ UNCHANGED app
  /\ UNCHANGED updater

SumsFetched ==
  /\ Alive /\ job.fetch = "sums"
  /\ \E content \in {"good", "other"} : disk' = [disk EXCEPT !.sums = content]
  /\ job' = [job EXCEPT !.fetch = "none", !.hash = "reading"]
  /\ UNCHANGED <<app, updater>>

FetchFailed ==
  /\ Alive /\ job.fetch # "none"
  /\ Afterwards(Ended([Now EXCEPT !.j.fetch = "none"]))
  /\ UNCHANGED <<disk, updater>>

----
(* The verification *)

Expected == job.sha = "digest" \/ (job.sha = "sums" /\ disk.sums = "good")

\* computeSha256WithCancel(), on the pool thread.
Hashed ==
  /\ Alive /\ job.hash = "reading"
  /\ \/ job.token /\ job' = [job EXCEPT !.hash = "bad"]
     \/ job' = [job EXCEPT !.hash = IF Expected /\ disk.staged = "good" THEN "ok" ELSE "bad"]
  /\ UNCHANGED <<app, disk, updater>>

\* A bound: no second updater is started while the first still works.
Resting == updater.at \in {"none", "done", "failed", "broken", "killed"}

\* launchInstallArtifact(): the updater is there, is the one that was shipped, and starts,
\* elevated if need be; it knows the process it has to outlive.
LaunchInstaller(w) ==
  /\ Resting /\ Afterwards([Ended(w) EXCEPT !.a.state = "quitting"])
  /\ updater' = [at |-> "wait", launcher |-> app.launches, hadTarget |-> FALSE]

\* verifyUpdaterIntegrity() and the like: the error is shown, and the program goes on.
LaunchRefused(w) == Afterwards(Ended(w)) /\ UNCHANGED updater

\* The watcher's finished, on the GUI thread; when the updater has started the
\* application asks itself to quit.
Verified ==
  /\ Alive /\ job.hash \in {"ok", "bad"}
  /\ LET w == [Now EXCEPT !.j.hash = "none"] IN
     \/ job.token /\ Afterwards(Canceled(w)) /\ UNCHANGED updater
     \/ ~job.token /\ job.hash = "bad" /\ Afterwards(Ended(w)) /\ UNCHANGED updater
     \/ ~job.token /\ job.hash = "ok" /\ (LaunchInstaller(w) \/ LaunchRefused(w))
  /\ UNCHANGED disk

\* The process ends: it was asked to, or the user closes it.
AppEnds ==
  /\ app.state \in {"running", "quitting"}
  /\ app' = [app EXCEPT !.state = "gone"]
  /\ UNCHANGED <<job, disk, updater>>

\* finalizeStartup() removes the staged files whoever may still need them.
Launched(checking) ==
  /\ app' = FreshApp(checking, app.clicks, app.launches + 1)
  /\ job' = FreshJob(job.starts)

UserLaunches ==
  /\ app.state \in {"gone", "crashed"} /\ app.launches < MaxLaunches /\ disk.target \in Runnable
  /\ \E checking \in BOOLEAN : Launched(checking)
  /\ disk' = [disk EXCEPT !.staged = "none", !.sums = "none"]
  /\ UNCHANGED updater

----
(* The updater, wWinMain() *)

UpdaterAt(step) == updater' = [updater EXCEPT !.at = step]

\* waitForLauncherExit(): at most 30 seconds.
WaitForLauncherExit ==
  /\ updater.at = "wait"
  /\ \/ /\ app.launches # updater.launcher \/ app.state = "gone"
        /\ UpdaterAt("verify")
     \/ UpdaterAt("failed")
  /\ UNCHANGED <<app, job, disk>>

VerifyChecksum ==
  /\ updater.at = "verify"
  /\ UpdaterAt(IF disk.staged = "good" THEN "backup" ELSE "failed")
  /\ UNCHANGED <<app, job, disk>>

BackupOld ==
  /\ updater.at = "backup"
  /\ \/ /\ updater' = [updater EXCEPT !.hadTarget = (disk.target # "missing"), !.at = "install"]
        /\ disk' = IF disk.target = "missing" THEN disk
                   ELSE [disk EXCEPT !.backup = disk.target, !.target = "missing"]
     \/ /\ disk.target # "missing" /\ UpdaterAt("failed")
        /\ UNCHANGED disk
  /\ UNCHANGED <<app, job>>

\* A failed installation that is reported and no more.
InstallNewOrGiveUp ==
  /\ updater.at = "install"
  /\ \/ /\ disk.staged # "none"
        /\ disk' = [disk EXCEPT !.target = IF disk.staged = "good" THEN "new" ELSE "broken",
                                !.staged = "none"]
        /\ UpdaterAt("restart")
     \/ /\ UpdaterAt("failed")
        /\ UNCHANGED disk
  /\ UNCHANGED <<app, job>>

InstallNew ==
  /\ updater.at = "install"
  /\ \/ /\ disk.staged # "none"
        /\ disk' = [disk EXCEPT !.target = IF disk.staged = "good" THEN "new" ELSE "broken",
                                !.staged = "none"]
        /\ UpdaterAt("restart")
     \/ /\ UpdaterAt(IF updater.hadTarget THEN "rollback" ELSE "broken")
        /\ UNCHANGED disk
  /\ UNCHANGED <<app, job>>

Rollback ==
  /\ updater.at = "rollback"
  /\ \/ /\ disk' = [disk EXCEPT !.target = disk.backup, !.backup = "none"]
        /\ UpdaterAt("restart")
     \/ UpdaterAt("broken") /\ UNCHANGED disk
  /\ UNCHANGED <<app, job>>

\* launchTarget(), of the new program or of the old one.
Restart ==
  /\ updater.at = "restart" /\ UpdaterAt("done")
  /\ IF disk.target \in Runnable /\ app.state \in {"gone", "crashed"} /\ app.launches < MaxLaunches
     THEN /\ Launched(FALSE)
          /\ disk' = [disk EXCEPT !.staged = "none", !.sums = "none"]
     ELSE UNCHANGED <<app, job, disk>>

\* The machine goes down under the updater.
UpdaterKilled ==
  /\ ~Resting /\ UpdaterAt("killed")
  /\ UNCHANGED <<app, job, disk>>

UpdateNext ==
  \/ CheckClicked \/ ReplyFound \/ ReplyEmpty \/ Declined \/ StartUpdate
  \/ CancelClicked \/ ProgressFull \/ MainFetched \/ SumsFetched \/ FetchFailed
  \/ Hashed \/ Verified \/ AppEnds \/ UserLaunches
  \/ WaitForLauncherExit \/ VerifyChecksum \/ BackupOld \/ InstallNew \/ Rollback
  \/ Restart \/ UpdaterKilled

\* The pool thread runs and the GUI thread takes its result.
UpdateFairness == WF_updateVars(Hashed) /\ WF_updateVars(Verified)

----
(* Properties *)

\* Whatever fails and whenever the machine goes down, a program that runs is left, at
\* its own path or in the backup (wWinMain: backup, install, rollback).
ProgramSurvives == disk.target \in Runnable \/ disk.backup \in Runnable

\* An updater that ends by itself, and whose rollback was not refused, leaves a program
\* in the place where it found one (hasOldTarget).
ProgramInPlace ==
  updater.at \in {"done", "failed"} /\ updater.hadTarget => disk.target # "missing"

\* The application never quits for an updater that would find a file half downloaded or
\* not the published one: a later download does not truncate a file whose verification
\* still counts (startUpdate() clears the shared cancelToken_).
QuitsForVerified ==
  [][(app.state = "running" /\ app'.state = "quitting") => disk.staged \notin {"part", "bad"}]_updateVars

\* Every verification ends with its progress dialog given up, canceled or not.
VerificationEnds == job.hash # "none" ~> (app.dialog = "none" \/ app.state # "running")

\* An update leaves a program that runs, and in its place when the updater ends.
ProgramKept == ProgramSurvives /\ ProgramInPlace

====
