------------------------------ MODULE PartsProofs ------------------------------
(***************************************************************************)
(* Theorems about parts of the program around the Modbus pages, for any    *)
(* number of clicks, frames, starts and losses: the update, the debugger,  *)
(* the analyzer, the client list of the TCP server, the frame builder.     *)
(***************************************************************************)
EXTENDS Updates, Debugger, Analyzer, ServerClients, FrameBuilder, FiniteSetTheorems, TLAPS

-----------------------------------------------------------------------------
(* The update.  Types first. *)

AppSet ==
  [state : {"running", "quitting", "gone", "crashed"}, inFlight : Nat, manual : BOOLEAN,
   enabled : BOOLEAN, available : BOOLEAN, offer : Offers, prompts : Nat,
   dialog : {"none", "shown", "hidden"}, clicks : Nat, launches : Nat]

JobSet ==
  [fetch : {"none", "main", "sums"}, token : BOOLEAN, hash : {"none", "reading", "ok", "bad"},
   sha : {"digest", "sums", "none"}, starts : Nat]

DiskSet ==
  [target : Runnable \cup {"missing"}, backup : Runnable \cup {"none"},
   staged : {"none", "part", "good", "bad"}, sums : {"none", "good", "other"}]

UpdaterSet ==
  [at : Moving \cup {"none", "wait", "verify", "restart", "done", "failed", "broken", "killed"},
   launcher : Nat, hadTarget : BOOLEAN]

UpdateTypes == app \in AppSet /\ job \in JobSet /\ disk \in DiskSet /\ updater \in UpdaterSet

\* The old program leaves its place for the backup only; from its check to its moves
\* the updater's file is whole or gone, because only a download that is under way
\* writes it and none can be.
FilesSafe ==
  /\ disk.target = "missing" => disk.backup # "none"
  /\ job.fetch = "main" => disk.staged = "part"
  /\ updater.at \in {"backup", "install"} => disk.staged \in {"none", "good"}
  /\ updater.at \in {"wait", "verify", "backup"} => updater.hadTarget = FALSE
  /\ updater.at \in {"install", "rollback"} => disk.target = "missing"
  /\ updater.at = "restart" => disk.target # "missing"
  /\ updater.at \in {"done", "failed"} /\ updater.hadTarget => disk.target # "missing"

\* A download or a verification keeps the dialog, so that the next start finds it and
\* cancels: the token is cleared for good only when nothing is left to verify.
DialogHeld ==
  app.state = "running" =>
    /\ job.fetch # "none" => app.dialog # "none" /\ job.hash = "none"
    /\ job.hash # "none" => app.dialog # "none"
    /\ job.hash = "ok" /\ job.token = FALSE => disk.staged \in {"good", "none"}

UpdateInv == UpdateTypes /\ FilesSafe /\ DialogHeld

QuitsWell ==
  app.state = "running" /\ app'.state = "quitting" => disk.staged \notin {"part", "bad"}

Worlds == [a : AppSet, j : JobSet]

LEMMA Cancels ==
  ASSUME NEW w \in Worlds, NEW d, d = CancelUpdate(w)
  PROVE  /\ d \in Worlds /\ d.j.fetch = "none" /\ d.j.token = TRUE
         /\ d.j.hash = w.j.hash /\ d.j.sha = w.j.sha /\ d.j.starts = w.j.starts
         /\ d.a.state = w.a.state /\ d.a.offer = w.a.offer
         /\ d.a.dialog = IF w.j.fetch = "none" THEN w.a.dialog ELSE "none"
BY ZenonT(40) DEF CancelUpdate, Worlds, AppSet, JobSet

LEMMA Hides ==
  ASSUME NEW w \in Worlds, NEW d, d = HideProgress(w)
  PROVE  /\ d \in Worlds /\ d.a.state = w.a.state /\ d.a.dialog = "none"
         /\ d.j.hash = w.j.hash
         /\ w.a.dialog = "none" => d = w
         /\ w.a.dialog # "none" => d.j.fetch = "none" /\ d.j.token = TRUE
<1>1. CASE w.a.dialog = "none"
  BY <1>1 DEF HideProgress
<1>2. CASE w.a.dialog # "none"
  <2> DEFINE x == CancelUpdate(w)
  <2>1. x \in Worlds /\ x.j.fetch = "none" /\ x.j.token = TRUE /\ x.j.hash = w.j.hash
        /\ x.a.state = w.a.state
    BY Cancels
  <2>2. d = [x EXCEPT !.a.dialog = "none"]
    BY <1>2 DEF HideProgress
  <2> HIDE DEF x
  <2> QED BY <1>2, <2>1, <2>2 DEF Worlds, AppSet, JobSet
<1> QED BY <1>1, <1>2

\* A dialog that is still held when a download begins is the crash.
LEMMA Shows ==
  ASSUME NEW w \in Worlds, NEW d, d = ShowProgress(w)
  PROVE  /\ d \in Worlds /\ d.j.hash = w.j.hash
         /\ w.a.dialog # "none" => d.j.fetch = "none" /\ d.j.token = TRUE
         /\ w.a.dialog = "none" => d.j = w.j
         /\ w.a.dialog # "none" /\ w.j.fetch # "none" => d.a.state = "crashed"
         /\ w.a.dialog = "none" \/ w.j.fetch = "none" =>
              d.a.state = w.a.state /\ d.a.dialog = "shown"
<1> DEFINE x == HideProgress(w)
<1>1. /\ x \in Worlds /\ x.a.state = w.a.state /\ x.a.dialog = "none" /\ x.j.hash = w.j.hash
      /\ w.a.dialog = "none" => x = w
      /\ w.a.dialog # "none" => x.j.fetch = "none" /\ x.j.token = TRUE
  BY Hides
<1>2. d = IF w.a.dialog # "none" /\ w.j.fetch # "none"
          THEN IF x.j.fetch = "none" THEN [x EXCEPT !.a.state = "crashed"]
               ELSE [x EXCEPT !.a.dialog = "shown"]
          ELSE [x EXCEPT !.a.dialog = "shown"]
  BY DEF ShowProgress
<1> HIDE DEF x
<1>3. CASE w.a.dialog # "none" /\ w.j.fetch # "none"
  <2>1. d = [x EXCEPT !.a.state = "crashed"]
    BY <1>1, <1>2, <1>3
  <2> QED BY <1>1, <1>3, <2>1 DEF Worlds, AppSet, JobSet
<1>4. CASE ~(w.a.dialog # "none" /\ w.j.fetch # "none")
  <2>1. d = [x EXCEPT !.a.dialog = "shown"]
    BY <1>2, <1>4
  <2> QED BY <1>1, <1>4, <2>1 DEF Worlds, AppSet, JobSet
<1> QED BY <1>3, <1>4

LEMMA Ends ==
  ASSUME NEW w \in Worlds, NEW d, d = Ended(w)
  PROVE  /\ d \in Worlds /\ d.a.state = w.a.state /\ d.a.dialog = "none"
         /\ d.j.hash = w.j.hash
         /\ w.a.dialog = "none" => d.j = w.j
         /\ w.a.dialog # "none" => d.j.fetch = "none" /\ d.j.token = TRUE
<1> DEFINE x == HideProgress(w)
<1>1. /\ x \in Worlds /\ x.a.state = w.a.state /\ x.a.dialog = "none" /\ x.j.hash = w.j.hash
      /\ w.a.dialog = "none" => x = w
      /\ w.a.dialog # "none" => x.j.fetch = "none" /\ x.j.token = TRUE
  BY Hides
<1>2. d = [x EXCEPT !.a.manual = FALSE]
  BY DEF Ended
<1> HIDE DEF x
<1>3. \A no \in BOOLEAN : LET e == [x EXCEPT !.a.manual = no] IN
        e \in Worlds /\ e.a.state = x.a.state /\ e.a.dialog = x.a.dialog /\ e.j = x.j
  BY <1>1 DEF Worlds, AppSet, JobSet
<1>4. d \in Worlds /\ d.a.state = x.a.state /\ d.a.dialog = x.a.dialog /\ d.j = x.j
  BY <1>2, <1>3
<1> QED BY <1>1, <1>4

-----------------------------------------------------------------------------
(* The steps of the update *)

LEMMA UpdateInitInv == UpdateInit => UpdateInv
<1> SUFFICES ASSUME UpdateInit PROVE UpdateInv
  OBVIOUS
<1> USE DEF UpdateInit
<1>1. PICK auto \in BOOLEAN : app = FreshApp(auto, 0, 1)
  OBVIOUS
<1>2. app \in AppSet
  BY <1>1 DEF FreshApp, AppSet, Offers, NoOffer
<1>3. job \in JobSet
  BY DEF FreshJob, JobSet
<1>4. disk \in DiskSet /\ updater \in UpdaterSet
  BY DEF DiskSet, UpdaterSet, Runnable, Moving
<1>5. FilesSafe
  BY DEF FilesSafe, FreshJob
<1>6. DialogHeld
  BY <1>1 DEF DialogHeld, FreshApp, FreshJob
<1> QED BY <1>2, <1>3, <1>4, <1>5, <1>6 DEF UpdateInv, UpdateTypes

\* A step that only tells the user, or asks the server.
LEMMA AppOnly ==
  ASSUME UpdateInv, app' \in AppSet, UNCHANGED <<job, disk, updater>>,
         app'.state \in {app.state, "gone"},
         app'.dialog = "none" => app.dialog = "none"
  PROVE  UpdateInv' /\ QuitsWell
<1>1. UpdateTypes'
  BY DEF UpdateInv, UpdateTypes
<1>2. FilesSafe'
  BY DEF UpdateInv, FilesSafe
<1>3. DialogHeld'
  BY DEF UpdateInv, DialogHeld
<1>4. QuitsWell
  BY DEF QuitsWell
<1> QED BY <1>1, <1>2, <1>3, <1>4 DEF UpdateInv

\* What no field but state and dialog touches.
Alike(a, b) == b \in AppSet /\ b.state = a.state /\ b.dialog = a.dialog

LEMMA AppFields ==
  ASSUME NEW a \in AppSet
  PROVE  /\ \A n \in Nat : Alike(a, [a EXCEPT !.inFlight = n])
         /\ \A n \in Nat : Alike(a, [a EXCEPT !.prompts = n])
         /\ \A n \in Nat : Alike(a, [a EXCEPT !.clicks = n])
         /\ \A o \in Offers : Alike(a, [a EXCEPT !.offer = o])
         /\ \A f \in BOOLEAN : Alike(a, [a EXCEPT !.manual = f])
         /\ \A f \in BOOLEAN : Alike(a, [a EXCEPT !.enabled = f])
         /\ \A f \in BOOLEAN : Alike(a, [a EXCEPT !.available = f])
BY DEF AppSet, Alike

LEMMA CheckSteps ==
  ASSUME UpdateInv, CheckClicked \/ ReplyFound \/ ReplyEmpty \/ Declined \/ ProgressFull \/ AppEnds
  PROVE  UpdateInv' /\ QuitsWell
<1>0. /\ app \in AppSet /\ app.inFlight \in Nat /\ app.prompts \in Nat /\ app.clicks \in Nat
      /\ app.manual \in BOOLEAN /\ app.available \in BOOLEAN
  BY DEF UpdateInv, UpdateTypes, AppSet
<1>1. CASE CheckClicked
  <2> DEFINE n == IF app.available THEN 1 ELSE 0
             man == IF app.available THEN app.manual ELSE TRUE
             i == IF app.available THEN app.inFlight ELSE app.inFlight + 1
             a1 == [app EXCEPT !.clicks = @ + 1]
             a2 == [a1 EXCEPT !.prompts = n]
             a3 == [a2 EXCEPT !.enabled = app.available]
             a4 == [a3 EXCEPT !.manual = man]
             a5 == [a4 EXCEPT !.inFlight = i]
  <2>1. app' = [app EXCEPT !.clicks = @ + 1, !.prompts = n, !.enabled = app.available,
                           !.manual = man, !.inFlight = i]
    BY <1>1 DEF CheckClicked
  <2>2. n \in Nat /\ man \in BOOLEAN /\ i \in Nat
    <3>1. n \in Nat
      OBVIOUS
    <3>2. man \in BOOLEAN
      BY <1>0
    <3>3. i \in Nat
      <4>1. app.inFlight + 1 \in Nat
        BY <1>0
      <4> QED BY <1>0, <4>1
    <3> QED BY <3>1, <3>2, <3>3
  <2> HIDE DEF n, man, i
  <2>3. app' = a5
    BY <2>1
  <2>4. Alike(app, a1)
    BY <1>0, AppFields
  <2> HIDE DEF a1
  <2>5. Alike(a1, a2)
    BY <2>2, <2>4, AppFields DEF Alike
  <2> HIDE DEF a2
  <2>6. Alike(a2, a3)
    BY <1>0, <2>5, AppFields DEF Alike
  <2> HIDE DEF a3
  <2>7. Alike(a3, a4)
    BY <2>2, <2>6, AppFields DEF Alike
  <2> HIDE DEF a4
  <2>8. Alike(a4, a5)
    BY <2>2, <2>7, AppFields DEF Alike
  <2> HIDE DEF a5
  <2>9. Alike(app, app')
    BY <2>3, <2>4, <2>5, <2>6, <2>7, <2>8 DEF Alike
  <2> QED BY <1>1, <2>9, AppOnly DEF CheckClicked, Alike
<1>2. CASE ReplyFound
  <2>1. PICK offer \in Offers :
          app' = [app EXCEPT !.inFlight = @ - 1, !.enabled = TRUE, !.available = TRUE,
                    !.offer = offer, !.prompts = IF app.manual /\ offer.here THEN @ + 1 ELSE @,
                    !.manual = @ /\ offer.here]
    BY <1>2 DEF ReplyFound
  <2> DEFINE n == IF app.manual /\ offer.here THEN app.prompts + 1 ELSE app.prompts
             man == app.manual /\ offer.here
             a1 == [app EXCEPT !.inFlight = @ - 1]
             a2 == [a1 EXCEPT !.enabled = TRUE]
             a3 == [a2 EXCEPT !.available = TRUE]
             a4 == [a3 EXCEPT !.offer = offer]
             a5 == [a4 EXCEPT !.prompts = n]
             a6 == [a5 EXCEPT !.manual = man]
  <2>2. app' = [app EXCEPT !.inFlight = @ - 1, !.enabled = TRUE, !.available = TRUE,
                  !.offer = offer, !.prompts = n, !.manual = man]
    BY <2>1
  <2>3. n \in Nat /\ man \in BOOLEAN
    BY <1>0
  <2> HIDE DEF n, man
  <2>4. app' = a6
    BY <2>2
  <2>5. app.inFlight - 1 \in Nat
    <3>1. app.inFlight > 0
      BY <1>2 DEF ReplyFound
    <3> QED BY <1>0, <3>1
  <2>6. Alike(app, a1)
    BY <1>0, <2>5, AppFields
  <2> HIDE DEF a1
  <2>7. Alike(a1, a2)
    BY <2>6, AppFields DEF Alike
  <2> HIDE DEF a2
  <2>8. Alike(a2, a3)
    BY <2>7, AppFields DEF Alike
  <2> HIDE DEF a3
  <2>9. Alike(a3, a4)
    BY <2>8, AppFields DEF Alike
  <2> HIDE DEF a4
  <2>10. Alike(a4, a5)
    BY <2>3, <2>9, AppFields DEF Alike
  <2> HIDE DEF a5
  <2>11. Alike(a5, a6)
    BY <2>3, <2>10, AppFields DEF Alike
  <2> HIDE DEF a6
  <2>12. Alike(app, app')
    BY <2>4, <2>6, <2>7, <2>8, <2>9, <2>10, <2>11 DEF Alike
  <2> QED BY <1>2, <2>12, AppOnly DEF ReplyFound, Alike
<1>3. CASE ReplyEmpty
  <2> DEFINE a1 == [app EXCEPT !.inFlight = @ - 1]
             a2 == [a1 EXCEPT !.enabled = TRUE]
             a3 == [a2 EXCEPT !.manual = FALSE]
  <2>1. app' = a3 /\ app.inFlight - 1 \in Nat
    BY <1>0, <1>3 DEF ReplyEmpty
  <2>2. Alike(app, a1)
    BY <1>0, <2>1, AppFields
  <2> HIDE DEF a1
  <2>3. Alike(a1, a2)
    BY <2>2, AppFields DEF Alike
  <2> HIDE DEF a2
  <2>4. Alike(a2, a3)
    BY <2>3, AppFields DEF Alike
  <2> HIDE DEF a3
  <2>5. Alike(app, app')
    BY <2>1, <2>2, <2>3, <2>4 DEF Alike
  <2> QED BY <1>3, <2>5, AppOnly DEF ReplyEmpty, Alike
<1>4. CASE Declined
  <2> DEFINE a1 == [app EXCEPT !.prompts = @ - 1]
             a2 == [a1 EXCEPT !.manual = FALSE]
  <2>1. app' = a2 /\ app.prompts - 1 \in Nat
    BY <1>0, <1>4 DEF Declined
  <2>2. Alike(app, a1)
    BY <1>0, <2>1, AppFields
  <2> HIDE DEF a1
  <2>3. Alike(a1, a2)
    BY <2>2, AppFields DEF Alike
  <2> HIDE DEF a2
  <2>4. Alike(app, app')
    BY <2>1, <2>2, <2>3 DEF Alike
  <2> QED BY <1>4, <2>4, AppOnly DEF Declined, Alike
<1>5. CASE ProgressFull
  BY <1>0, <1>5, AppOnly DEF ProgressFull, AppSet
<1>6. CASE AppEnds
  BY <1>0, <1>6, AppOnly DEF AppEnds, AppSet
<1> QED BY <1>1, <1>2, <1>3, <1>4, <1>5, <1>6

\* What the two processes share stays, and no download begins.
LEMMA FilesKept ==
  ASSUME UpdateInv, UNCHANGED <<disk, updater>>, job'.fetch = "main" => job.fetch = "main"
  PROVE  FilesSafe'
BY DEF UpdateInv, FilesSafe

LEMMA NowIsWorld ==
  ASSUME UpdateInv
  PROVE  Now \in Worlds /\ Now.a = app /\ Now.j = job
BY DEF UpdateInv, UpdateTypes, Now, Worlds

LEMMA TypesAfter ==
  ASSUME UpdateInv, NEW w \in Worlds, Afterwards(w), disk' \in DiskSet, updater' \in UpdaterSet
  PROVE  UpdateTypes' /\ app' = w.a /\ job' = w.j
BY DEF Afterwards, Worlds, UpdateTypes

LEMMA Starts ==
  ASSUME UpdateInv, StartUpdate
  PROVE  UpdateInv' /\ QuitsWell
<1> DEFINE v  == [Now EXCEPT !.a.prompts = @ - 1]
           w0 == CancelUpdate(v)
           x1 == [w0 EXCEPT !.j.token = FALSE]
           x2 == [x1 EXCEPT !.j.starts = @ + 1]
           w1 == [x2 EXCEPT !.j.sha = app.offer.sha]
           m  == [w1 EXCEPT !.j.fetch = "main"]
<1>1. /\ app.state = "running" /\ app.prompts > 0 /\ updater.at \notin Moving /\ UNCHANGED updater
      /\ \/ Afterwards(ShowProgress(m)) /\ disk' = [disk EXCEPT !.staged = "part"]
         \/ Afterwards(ShowProgress(Ended(w1))) /\ UNCHANGED disk
  BY DEF StartUpdate, Alive
<1>2. v \in Worlds /\ v.a.state = app.state /\ v.a.dialog = app.dialog /\ v.j = job
  BY <1>1, NowIsWorld DEF Worlds, AppSet
<1> HIDE DEF v
<1>3. /\ w0 \in Worlds /\ w0.j.fetch = "none" /\ w0.j.hash = job.hash /\ w0.a.state = app.state
      /\ w0.a.dialog = IF job.fetch = "none" THEN app.dialog ELSE "none"
  BY <1>2, Cancels
<1> HIDE DEF w0
<1>4. /\ x1 \in Worlds /\ x1.j.fetch = "none" /\ x1.j.hash = job.hash /\ x1.a = w0.a
  BY <1>3 DEF Worlds, JobSet
<1> HIDE DEF x1
<1>5. /\ x2 \in Worlds /\ x2.j.fetch = "none" /\ x2.j.hash = job.hash /\ x2.a = w0.a
  BY <1>4 DEF Worlds, JobSet
<1> HIDE DEF x2
<1>6. app.offer.sha \in {"digest", "sums", "none"}
  BY DEF UpdateInv, UpdateTypes, AppSet, Offers
<1>7. /\ w1 \in Worlds /\ w1.j.fetch = "none" /\ w1.j.hash = job.hash /\ w1.a = w0.a
  BY <1>5, <1>6 DEF Worlds, JobSet
<1> HIDE DEF w1
<1>8. w1.a.dialog = "none" => job.hash = "none"
  BY <1>1, <1>3, <1>7 DEF UpdateInv, DialogHeld
<1>9. CASE Afterwards(ShowProgress(m)) /\ disk' = [disk EXCEPT !.staged = "part"]
  <2> DEFINE d == ShowProgress(m)
  <2>1. /\ m \in Worlds /\ m.j.fetch = "main" /\ m.j.hash = job.hash /\ m.a = w0.a
    BY <1>7 DEF Worlds, JobSet
  <2> HIDE DEF m
  <2>2. /\ d \in Worlds /\ d.j.hash = m.j.hash
        /\ m.a.dialog = "none" => d.j = m.j /\ d.a.dialog = "shown" /\ d.a.state = m.a.state
        /\ m.a.dialog # "none" => d.a.state = "crashed" /\ d.j.fetch = "none"
    <3>1. /\ d \in Worlds /\ d.j.hash = m.j.hash
          /\ m.a.dialog # "none" => d.j.fetch = "none" /\ d.j.token = TRUE
          /\ m.a.dialog = "none" => d.j = m.j
          /\ m.a.dialog # "none" /\ m.j.fetch # "none" => d.a.state = "crashed"
          /\ m.a.dialog = "none" \/ m.j.fetch = "none" =>
               d.a.state = m.a.state /\ d.a.dialog = "shown"
      BY <2>1, Shows
    <3> HIDE DEF d
    <3> QED BY <2>1, <3>1
  <2>3. Afterwards(d)
    BY <1>9
  <2> HIDE DEF d
  <2>4. /\ disk' \in DiskSet /\ updater' \in UpdaterSet /\ disk'.staged = "part"
        /\ disk'.target = disk.target /\ disk'.backup = disk.backup
    BY <1>1, <1>9 DEF UpdateInv, UpdateTypes, DiskSet
  <2>5. UpdateTypes' /\ app' = d.a /\ job' = d.j
    BY <2>2, <2>3, <2>4, TypesAfter
  <2>6. FilesSafe'
    BY <1>1, <2>4 DEF UpdateInv, FilesSafe, Moving
  <2>7. DialogHeld'
    BY <1>7, <1>8, <2>1, <2>2, <2>5 DEF DialogHeld
  <2>8. QuitsWell
    BY <1>1, <1>3, <2>1, <2>2, <2>5 DEF QuitsWell
  <2> QED BY <2>5, <2>6, <2>7, <2>8 DEF UpdateInv
<1>10. CASE Afterwards(ShowProgress(Ended(w1))) /\ UNCHANGED disk
  <2> DEFINE e == Ended(w1)
             d == ShowProgress(e)
  <2>1. /\ e \in Worlds /\ e.a.dialog = "none" /\ e.j.hash = job.hash /\ e.j.fetch = "none"
        /\ w1.a.dialog # "none" => e.j.token = TRUE
        /\ e.a.state = app.state
    BY <1>3, <1>7, Ends
  <2> HIDE DEF e
  <2>2. d \in Worlds /\ d.j = e.j /\ d.a.dialog = "shown" /\ d.a.state = app.state
    BY <2>1, Shows
  <2>3. Afterwards(d)
    BY <1>10 DEF e
  <2> HIDE DEF d
  <2>4. disk' \in DiskSet /\ updater' \in UpdaterSet
    BY <1>1, <1>10 DEF UpdateInv, UpdateTypes
  <2>5. UpdateTypes' /\ app' = d.a /\ job' = d.j
    BY <2>2, <2>3, <2>4, TypesAfter
  <2>6. FilesSafe'
    BY <1>1, <1>10, <2>1, <2>2, <2>5, FilesKept
  <2>7. DialogHeld'
    BY <1>8, <2>1, <2>2, <2>5 DEF DialogHeld
  <2>8. QuitsWell
    BY <1>1, <2>2, <2>5 DEF QuitsWell
  <2> QED BY <2>5, <2>6, <2>7, <2>8 DEF UpdateInv
<1> QED BY <1>1, <1>9, <1>10

\* The dialog is given up with what it stood for.
LEMMA Given ==
  ASSUME UpdateInv, NEW w \in Worlds, w.j.fetch = "none", w.j.hash = "none", Afterwards(w),
         disk' \in DiskSet, updater' \in UpdaterSet, FilesSafe',
         w.a.state = app.state \/ disk.staged \notin {"part", "bad"}
  PROVE  UpdateInv' /\ QuitsWell
<1>1. UpdateTypes' /\ app' = w.a /\ job' = w.j
  BY TypesAfter
<1>2. DialogHeld'
  BY <1>1 DEF DialogHeld
<1>3. QuitsWell
  BY <1>1 DEF QuitsWell
<1> QED BY <1>1, <1>2, <1>3 DEF UpdateInv

LEMMA CancelStep ==
  ASSUME UpdateInv, CancelClicked
  PROVE  UpdateInv' /\ QuitsWell
<1> DEFINE v == [Now EXCEPT !.a.dialog = "hidden"]
           d == CancelUpdate(v)
<1>1. app.state = "running" /\ Afterwards(d) /\ UNCHANGED <<disk, updater>>
  BY DEF CancelClicked, Alive
<1>2. v \in Worlds /\ v.a.state = app.state /\ v.a.dialog = "hidden" /\ v.j = job
  BY NowIsWorld DEF Worlds, AppSet
<1> HIDE DEF v
<1>3. /\ d \in Worlds /\ d.j.fetch = "none" /\ d.j.token = TRUE /\ d.j.hash = job.hash
      /\ d.a.state = app.state
      /\ d.a.dialog = IF job.fetch = "none" THEN "hidden" ELSE "none"
  BY ZenonT(40), <1>2, Cancels
<1> HIDE DEF d
<1>4. disk' \in DiskSet /\ updater' \in UpdaterSet
  BY <1>1 DEF UpdateInv, UpdateTypes
<1>5. UpdateTypes' /\ app' = d.a /\ job' = d.j
  BY <1>1, <1>3, <1>4, TypesAfter
<1>6. FilesSafe'
  BY <1>1, <1>3, <1>5, FilesKept
<1>7. DialogHeld'
  BY <1>1, <1>3, <1>5 DEF UpdateInv, DialogHeld
<1>8. QuitsWell
  BY <1>3, <1>5 DEF QuitsWell
<1> QED BY <1>5, <1>6, <1>7, <1>8 DEF UpdateInv

\* A reply that ends the download without a verification.
LEMMA EndOfFetch ==
  ASSUME UpdateInv, app.state = "running", job.fetch # "none",
         Afterwards(Ended([Now EXCEPT !.j.fetch = "none"])),
         disk' \in DiskSet, updater' \in UpdaterSet,
         job'.fetch = "none" => FilesSafe'
  PROVE  UpdateInv' /\ QuitsWell
<1> DEFINE v == [Now EXCEPT !.j.fetch = "none"]
           d == Ended(v)
<1>1. v \in Worlds /\ v.a = app /\ v.j.fetch = "none" /\ v.j.hash = job.hash
  BY NowIsWorld DEF Worlds, JobSet
<1>2. Afterwards(d)
  OBVIOUS
<1> HIDE DEF v
<1>3. job.hash = "none"
  BY DEF UpdateInv, DialogHeld
<1>4. d \in Worlds /\ d.j.fetch = "none" /\ d.j.hash = "none" /\ d.a.state = app.state
  BY <1>1, <1>3, Ends
<1> HIDE DEF d
<1>5. job' = d.j
  BY <1>2 DEF Afterwards
<1> QED BY <1>2, <1>4, <1>5, Given

LEMMA FetchSteps ==
  ASSUME UpdateInv, MainFetched \/ SumsFetched \/ FetchFailed
  PROVE  UpdateInv' /\ QuitsWell
<1>1. CASE MainFetched
  <2>1. /\ app.state = "running" /\ job.fetch = "main" /\ UNCHANGED updater
        /\ \/ job' = [job EXCEPT !.fetch = "sums"] /\ UNCHANGED app
           \/ Afterwards(Ended([Now EXCEPT !.j.fetch = "none"]))
           \/ job' = [job EXCEPT !.fetch = "none", !.hash = "reading"] /\ UNCHANGED app
    BY <1>1 DEF MainFetched, Alive
  <2>2. PICK content \in {"good", "bad"} : disk' = [disk EXCEPT !.staged = content]
    BY <1>1 DEF MainFetched
  <2>3. /\ disk' \in DiskSet /\ updater' \in UpdaterSet
        /\ disk'.target = disk.target /\ disk'.backup = disk.backup
    BY <2>1, <2>2 DEF UpdateInv, UpdateTypes, DiskSet
  <2>4. updater.at \notin {"backup", "install"}
    BY <2>1 DEF UpdateInv, FilesSafe
  <2>5. job'.fetch # "main" => FilesSafe'
    BY <2>1, <2>3, <2>4 DEF UpdateInv, FilesSafe
  <2>6. app.dialog # "none" /\ job.hash = "none"
    BY <2>1 DEF UpdateInv, DialogHeld
  <2>7. CASE job' = [job EXCEPT !.fetch = "sums"] /\ UNCHANGED app
    <3>1. job' \in JobSet /\ job'.fetch = "sums" /\ job'.hash = "none"
      BY <2>6, <2>7 DEF UpdateInv, UpdateTypes, JobSet
    <3>2. UpdateTypes'
      BY <2>3, <2>7, <3>1 DEF UpdateInv, UpdateTypes
    <3>3. DialogHeld'
      BY <2>6, <2>7, <3>1 DEF DialogHeld
    <3>4. QuitsWell
      BY <2>7 DEF QuitsWell
    <3> QED BY <2>5, <3>1, <3>2, <3>3, <3>4 DEF UpdateInv
  <2>8. CASE Afterwards(Ended([Now EXCEPT !.j.fetch = "none"]))
    BY <2>1, <2>3, <2>5, <2>8, EndOfFetch
  <2>9. CASE job' = [job EXCEPT !.fetch = "none", !.hash = "reading"] /\ UNCHANGED app
    <3>1. job' \in JobSet /\ job'.fetch = "none" /\ job'.hash = "reading"
      BY <2>9 DEF UpdateInv, UpdateTypes, JobSet
    <3>2. UpdateTypes'
      BY <2>3, <2>9, <3>1 DEF UpdateInv, UpdateTypes
    <3>3. DialogHeld'
      BY <2>6, <2>9, <3>1 DEF DialogHeld
    <3>4. QuitsWell
      BY <2>9 DEF QuitsWell
    <3> QED BY <2>5, <3>1, <3>2, <3>3, <3>4 DEF UpdateInv
  <2> QED BY <2>1, <2>7, <2>8, <2>9
<1>2. CASE SumsFetched
  <2>1. /\ app.state = "running" /\ job.fetch = "sums" /\ UNCHANGED <<app, updater>>
        /\ job' = [job EXCEPT !.fetch = "none", !.hash = "reading"]
    BY <1>2 DEF SumsFetched, Alive
  <2>2. PICK content \in {"good", "other"} : disk' = [disk EXCEPT !.sums = content]
    BY <1>2 DEF SumsFetched
  <2>3. /\ disk' \in DiskSet /\ disk'.staged = disk.staged
        /\ disk'.target = disk.target /\ disk'.backup = disk.backup
    BY <2>2 DEF UpdateInv, UpdateTypes, DiskSet
  <2>4. job' \in JobSet /\ job'.fetch = "none" /\ job'.hash = "reading"
    BY <2>1 DEF UpdateInv, UpdateTypes, JobSet
  <2>5. UpdateTypes'
    BY <2>1, <2>3, <2>4 DEF UpdateInv, UpdateTypes
  <2>6. FilesSafe'
    BY <2>1, <2>3, <2>4 DEF UpdateInv, FilesSafe
  <2>7. DialogHeld'
    BY <2>1, <2>4 DEF UpdateInv, DialogHeld
  <2>8. QuitsWell
    BY <2>1 DEF QuitsWell
  <2> QED BY <2>5, <2>6, <2>7, <2>8 DEF UpdateInv
<1>3. CASE FetchFailed
  <2>1. /\ app.state = "running" /\ job.fetch # "none" /\ UNCHANGED <<disk, updater>>
        /\ Afterwards(Ended([Now EXCEPT !.j.fetch = "none"]))
    BY <1>3 DEF FetchFailed, Alive
  <2>2. disk' \in DiskSet /\ updater' \in UpdaterSet
    BY <2>1 DEF UpdateInv, UpdateTypes
  <2>3. job'.fetch = "none" => FilesSafe'
    BY <2>1, FilesKept
  <2> QED BY <2>1, <2>2, <2>3, EndOfFetch
<1> QED BY <1>1, <1>2, <1>3

LEMMA VerifySteps ==
  ASSUME UpdateInv, Hashed \/ Verified
  PROVE  UpdateInv' /\ QuitsWell
<1>1. CASE Hashed
  <2>1. /\ app.state = "running" /\ job.hash = "reading" /\ UNCHANGED <<app, disk, updater>>
    BY <1>1 DEF Hashed, Alive
  <2>2. PICK h \in {"ok", "bad"} :
          job' = [job EXCEPT !.hash = h] /\ (h = "ok" => disk.staged = "good")
    <3>1. CASE job' = [job EXCEPT !.hash = "bad"]
      BY <3>1
    <3>2. CASE job' = [job EXCEPT !.hash = IF Expected /\ disk.staged = "good" THEN "ok" ELSE "bad"]
      <4>1. CASE Expected /\ disk.staged = "good"
        BY <3>2, <4>1
      <4>2. CASE ~(Expected /\ disk.staged = "good")
        BY <3>2, <4>2
      <4> QED BY <4>1, <4>2
    <3> QED BY <1>1, <3>1, <3>2 DEF Hashed
  <2>3. job' \in JobSet /\ job'.fetch = job.fetch /\ job'.hash = h /\ job'.token = job.token
    BY <2>2 DEF UpdateInv, UpdateTypes, JobSet
  <2>4. UpdateTypes'
    BY <2>1, <2>3 DEF UpdateInv, UpdateTypes
  <2>5. FilesSafe'
    BY <2>1, <2>3, FilesKept
  <2>6. DialogHeld'
    BY <2>1, <2>2, <2>3 DEF UpdateInv, DialogHeld
  <2>7. QuitsWell
    BY <2>1 DEF QuitsWell
  <2> QED BY <2>4, <2>5, <2>6, <2>7 DEF UpdateInv
<1>2. CASE Verified
  <2> DEFINE w == [Now EXCEPT !.j.hash = "none"]
  <2>1. /\ app.state = "running" /\ job.hash \in {"ok", "bad"} /\ UNCHANGED disk
        /\ \/ Afterwards(Canceled(w)) /\ UNCHANGED updater
           \/ Afterwards(Ended(w)) /\ UNCHANGED updater
           \/ LaunchInstaller(w) /\ job.token = FALSE /\ job.hash = "ok"
    BY <1>2 DEF Verified, Alive, LaunchRefused
  <2>2. job.fetch = "none"
    BY <2>1 DEF UpdateInv, UpdateTypes, DialogHeld
  <2>3. w \in Worlds /\ w.a = app /\ w.j.hash = "none" /\ w.j.fetch = "none"
    BY <2>2, NowIsWorld DEF Worlds, JobSet
  <2> HIDE DEF w
  <2>4. disk' \in DiskSet /\ updater \in UpdaterSet /\ app.launches \in Nat
    BY <2>1 DEF UpdateInv, UpdateTypes, AppSet
  <2>5. CASE Afterwards(Canceled(w)) /\ UNCHANGED updater
    <3> DEFINE d == HideProgress(w)
    <3>1. d \in Worlds /\ d.j.hash = "none" /\ d.j.fetch = "none" /\ d.a.state = app.state
      BY <2>3, Hides
    <3>2. Afterwards(d)
      BY <2>5 DEF Canceled
    <3> HIDE DEF d
    <3>3. FilesSafe'
      BY <2>1, <2>5, <3>1, <3>2, FilesKept DEF Afterwards
    <3> QED BY <2>4, <2>5, <3>1, <3>2, <3>3, Given
  <2>6. CASE Afterwards(Ended(w)) /\ UNCHANGED updater
    <3> DEFINE d == Ended(w)
    <3>1. d \in Worlds /\ d.j.hash = "none" /\ d.j.fetch = "none" /\ d.a.state = app.state
      BY <2>3, Ends
    <3>2. Afterwards(d)
      BY <2>6
    <3> HIDE DEF d
    <3>3. FilesSafe'
      BY <2>1, <2>6, <3>1, <3>2, FilesKept DEF Afterwards
    <3> QED BY <2>4, <2>6, <3>1, <3>2, <3>3, Given
  <2>7. CASE LaunchInstaller(w) /\ job.token = FALSE /\ job.hash = "ok"
    <3> DEFINE e == Ended(w)
               d == [e EXCEPT !.a.state = "quitting"]
    <3>1. e \in Worlds /\ e.j.hash = "none" /\ e.j.fetch = "none"
      BY <2>3, Ends
    <3>2. Afterwards(d)
      BY <2>7 DEF LaunchInstaller
    <3>3. updater' = [at |-> "wait", launcher |-> app.launches, hadTarget |-> FALSE]
      BY <2>7 DEF LaunchInstaller
    <3> HIDE DEF e
    <3>4. d \in Worlds /\ d.j.hash = "none" /\ d.j.fetch = "none"
      BY <3>1 DEF Worlds, AppSet
    <3> HIDE DEF d
    <3>5. updater' \in UpdaterSet /\ updater'.at = "wait" /\ updater'.hadTarget = FALSE
      BY <2>4, <3>3 DEF UpdaterSet
    <3>6. job'.fetch = "none"
      BY <3>2, <3>4 DEF Afterwards
    <3>7. FilesSafe'
      BY <2>1, <3>5, <3>6 DEF UpdateInv, FilesSafe
    <3>8. disk.staged \notin {"part", "bad"}
      BY <2>1, <2>7 DEF UpdateInv, DialogHeld
    <3> QED BY <2>4, <3>2, <3>4, <3>5, <3>7, <3>8, Given
  <2> QED BY <2>1, <2>5, <2>6, <2>7
<1> QED BY <1>1, <1>2

\* A fresh application has nothing to download or to verify.
LEMMA FreshStart ==
  ASSUME UpdateInv, NEW checking \in BOOLEAN, Launched(checking)
  PROVE  app' \in AppSet /\ job' \in JobSet /\ job'.fetch = "none" /\ DialogHeld' /\ QuitsWell
<1>1. app' = FreshApp(checking, app.clicks, app.launches + 1) /\ job' = FreshJob(job.starts)
  BY DEF Launched
<1>2. app.clicks \in Nat /\ app.launches + 1 \in Nat /\ job.starts \in Nat
  BY DEF UpdateInv, UpdateTypes, AppSet, JobSet
<1>3. app' \in AppSet
  BY <1>1, <1>2 DEF FreshApp, AppSet, Offers, NoOffer
<1>4. job' \in JobSet /\ job'.fetch = "none" /\ job'.hash = "none"
  BY <1>1, <1>2 DEF FreshJob, JobSet
<1>5. DialogHeld'
  BY <1>4 DEF DialogHeld
<1>6. QuitsWell
  BY <1>1 DEF QuitsWell, FreshApp
<1> QED BY <1>3, <1>4, <1>5, <1>6

LEMMA UserStarts ==
  ASSUME UpdateInv, UserLaunches
  PROVE  UpdateInv' /\ QuitsWell
<1>1. PICK checking \in BOOLEAN : Launched(checking)
  BY DEF UserLaunches
<1>2. disk' = [disk EXCEPT !.staged = "none", !.sums = "none"] /\ UNCHANGED updater
  BY DEF UserLaunches
<1>3. app' \in AppSet /\ job' \in JobSet /\ job'.fetch = "none" /\ DialogHeld' /\ QuitsWell
  BY <1>1, FreshStart
<1>4. /\ disk' \in DiskSet /\ disk'.staged = "none"
      /\ disk'.target = disk.target /\ disk'.backup = disk.backup
  BY <1>2 DEF UpdateInv, UpdateTypes, DiskSet
<1>5. UpdateTypes'
  BY <1>2, <1>3, <1>4 DEF UpdateInv, UpdateTypes
<1>6. FilesSafe'
  BY <1>2, <1>3, <1>4 DEF UpdateInv, FilesSafe
<1> QED BY <1>3, <1>5, <1>6 DEF UpdateInv

\* A step of the updater that leaves the files of a download alone.
LEMMA UpdaterOnly ==
  ASSUME UpdateInv, UNCHANGED <<app, job>>, disk' \in DiskSet, updater' \in UpdaterSet,
         disk'.staged = disk.staged, FilesSafe'
  PROVE  UpdateInv' /\ QuitsWell
<1>1. UpdateTypes'
  BY DEF UpdateInv, UpdateTypes
<1>2. DialogHeld'
  BY DEF UpdateInv, DialogHeld
<1>3. QuitsWell
  BY DEF QuitsWell
<1> QED BY <1>1, <1>2, <1>3 DEF UpdateInv

Steps == Moving \cup {"none", "wait", "verify", "restart", "done", "failed", "broken", "killed"}

LEMMA UpdaterGoes ==
  ASSUME UpdateInv, NEW step \in Steps, UpdaterAt(step)
  PROVE  updater' \in UpdaterSet /\ updater'.at = step /\ updater'.hadTarget = updater.hadTarget
BY DEF UpdateInv, UpdateTypes, UpdaterSet, UpdaterAt, Steps

LEMMA UpdaterSteps ==
  ASSUME UpdateInv,
         WaitForLauncherExit \/ VerifyChecksum \/ BackupOld \/ InstallNew \/ Rollback \/ UpdaterKilled
  PROVE  UpdateInv' /\ QuitsWell
<1>0. disk \in DiskSet /\ updater \in UpdaterSet /\ FilesSafe
  BY DEF UpdateInv, UpdateTypes
<1>1. CASE WaitForLauncherExit
  <2>1. PICK step \in {"verify", "failed"} : UpdaterAt(step)
    BY <1>1 DEF WaitForLauncherExit
  <2>2. updater.at = "wait" /\ UNCHANGED <<app, job, disk>>
    BY <1>1 DEF WaitForLauncherExit
  <2>3. updater' \in UpdaterSet /\ updater'.at = step /\ updater'.hadTarget = updater.hadTarget
    BY <2>1, UpdaterGoes DEF Steps
  <2>4. FilesSafe'
    BY <1>0, <2>1, <2>2, <2>3 DEF FilesSafe
  <2> QED BY <1>0, <2>2, <2>3, <2>4, UpdaterOnly
<1>2. CASE VerifyChecksum
  <2>1. PICK step \in {"backup", "failed"} :
          UpdaterAt(step) /\ (step = "backup" => disk.staged = "good")
    <3>1. UpdaterAt(IF disk.staged = "good" THEN "backup" ELSE "failed")
      BY <1>2 DEF VerifyChecksum
    <3>2. CASE disk.staged = "good"
      BY <3>1, <3>2
    <3>3. CASE disk.staged # "good"
      BY <3>1, <3>3
    <3> QED BY <3>2, <3>3
  <2>2. updater.at = "verify" /\ UNCHANGED <<app, job, disk>>
    BY <1>2 DEF VerifyChecksum
  <2>3. updater' \in UpdaterSet /\ updater'.at = step /\ updater'.hadTarget = updater.hadTarget
    BY <2>1, UpdaterGoes DEF Steps, Moving
  <2>4. FilesSafe'
    BY <1>0, <2>1, <2>2, <2>3 DEF FilesSafe
  <2> QED BY <1>0, <2>2, <2>3, <2>4, UpdaterOnly
<1>3. CASE BackupOld
  <2>1. updater.at = "backup" /\ UNCHANGED <<app, job>>
    BY <1>3 DEF BackupOld
  <2>2. CASE /\ updater' = [updater EXCEPT !.hadTarget = (disk.target # "missing"), !.at = "install"]
             /\ disk' = IF disk.target = "missing" THEN disk
                        ELSE [disk EXCEPT !.backup = disk.target, !.target = "missing"]
    <3>1. \A f \in BOOLEAN : [updater EXCEPT !.hadTarget = f] \in UpdaterSet
      BY <1>0 DEF UpdaterSet
    <3> DEFINE had == (disk.target # "missing")
               u1 == [updater EXCEPT !.hadTarget = had]
               u2 == [u1 EXCEPT !.at = "install"]
    <3>2. had \in BOOLEAN
      OBVIOUS
    <3>3. updater' = u2
      BY <2>2
    <3> HIDE DEF had
    <3>4. u1 \in UpdaterSet
      BY <3>1, <3>2
    <3> HIDE DEF u1
    <3>5. u2 \in UpdaterSet /\ u2.at = "install"
      BY <3>4 DEF UpdaterSet, Moving
    <3> HIDE DEF u2
    <3>6. /\ disk' \in DiskSet /\ disk'.staged = disk.staged
          /\ disk'.target = "missing" /\ disk'.backup # "none"
      BY <1>0, <2>2 DEF DiskSet, FilesSafe, Runnable
    <3>7. FilesSafe'
      BY <1>0, <2>1, <3>3, <3>5, <3>6 DEF FilesSafe
    <3> QED BY <2>1, <3>3, <3>5, <3>6, <3>7, UpdaterOnly
  <2>3. CASE disk.target # "missing" /\ UpdaterAt("failed") /\ UNCHANGED disk
    <3>1. updater' \in UpdaterSet /\ updater'.at = "failed" /\ updater'.hadTarget = updater.hadTarget
      BY <2>3, UpdaterGoes DEF Steps
    <3>2. FilesSafe'
      BY <1>0, <2>1, <2>3, <3>1 DEF FilesSafe
    <3> QED BY <1>0, <2>1, <2>3, <3>1, <3>2, UpdaterOnly
  <2> QED BY <1>3, <2>2, <2>3 DEF BackupOld
<1>4. CASE InstallNew
  <2>1. updater.at = "install" /\ UNCHANGED <<app, job>>
    BY <1>4 DEF InstallNew
  <2>2. CASE /\ disk.staged # "none" /\ UpdaterAt("restart")
             /\ disk' = [disk EXCEPT !.target = IF disk.staged = "good" THEN "new" ELSE "broken",
                                     !.staged = "none"]
    <3>1. disk.staged = "good" /\ job.fetch # "main"
      BY <1>0, <2>1, <2>2 DEF FilesSafe
    <3>2. disk' = [disk EXCEPT !.target = "new", !.staged = "none"]
      BY <2>2, <3>1
    <3>3. disk' \in DiskSet /\ disk'.target = "new" /\ disk'.staged = "none" /\ disk'.backup = disk.backup
      BY <1>0, <3>2 DEF DiskSet, Runnable
    <3>4. updater' \in UpdaterSet /\ updater'.at = "restart"
      BY <2>2, UpdaterGoes DEF Steps
    <3>5. FilesSafe'
      BY <1>0, <2>1, <3>1, <3>3, <3>4 DEF FilesSafe
    <3>6. UpdateTypes'
      BY <2>1, <3>3, <3>4 DEF UpdateInv, UpdateTypes
    <3>7. DialogHeld'
      BY <2>1, <3>3 DEF UpdateInv, DialogHeld
    <3>8. QuitsWell
      BY <2>1 DEF QuitsWell
    <3> QED BY <3>5, <3>6, <3>7, <3>8 DEF UpdateInv
  <2>3. CASE UpdaterAt(IF updater.hadTarget THEN "rollback" ELSE "broken") /\ UNCHANGED disk
    <3>1. PICK step \in {"rollback", "broken"} : UpdaterAt(step)
      BY <2>3
    <3>2. updater' \in UpdaterSet /\ updater'.at = step
      BY <3>1, UpdaterGoes DEF Steps, Moving
    <3>3. FilesSafe'
      BY <1>0, <2>1, <2>3, <3>2 DEF FilesSafe
    <3> QED BY <1>0, <2>1, <2>3, <3>2, <3>3, UpdaterOnly
  <2> QED BY <1>4, <2>2, <2>3 DEF InstallNew
<1>5. CASE Rollback
  <2>1. updater.at = "rollback" /\ UNCHANGED <<app, job>>
    BY <1>5 DEF Rollback
  <2>2. CASE disk' = [disk EXCEPT !.target = disk.backup, !.backup = "none"] /\ UpdaterAt("restart")
    <3>1. disk.backup \in Runnable
      BY <1>0, <2>1 DEF FilesSafe, DiskSet
    <3>2. disk' \in DiskSet /\ disk'.target # "missing" /\ disk'.staged = disk.staged
      BY <1>0, <2>2, <3>1 DEF DiskSet, Runnable
    <3>3. updater' \in UpdaterSet /\ updater'.at = "restart"
      BY <2>2, UpdaterGoes DEF Steps
    <3>4. FilesSafe'
      BY <1>0, <2>1, <3>2, <3>3 DEF FilesSafe
    <3> QED BY <2>1, <3>2, <3>3, <3>4, UpdaterOnly
  <2>3. CASE UpdaterAt("broken") /\ UNCHANGED disk
    <3>1. updater' \in UpdaterSet /\ updater'.at = "broken"
      BY <2>3, UpdaterGoes DEF Steps
    <3>2. FilesSafe'
      BY <1>0, <2>1, <2>3, <3>1 DEF FilesSafe
    <3> QED BY <1>0, <2>1, <2>3, <3>1, <3>2, UpdaterOnly
  <2> QED BY <1>5, <2>2, <2>3 DEF Rollback
<1>6. CASE UpdaterKilled
  <2>1. UpdaterAt("killed") /\ UNCHANGED <<app, job, disk>>
    BY <1>6 DEF UpdaterKilled
  <2>2. updater' \in UpdaterSet /\ updater'.at = "killed"
    BY <2>1, UpdaterGoes DEF Steps
  <2>3. FilesSafe'
    BY <1>0, <2>1, <2>2 DEF FilesSafe
  <2> QED BY <1>0, <2>1, <2>2, <2>3, UpdaterOnly
<1> QED BY <1>1, <1>2, <1>3, <1>4, <1>5, <1>6

LEMMA Restarts ==
  ASSUME UpdateInv, Restart
  PROVE  UpdateInv' /\ QuitsWell
<1>0. disk \in DiskSet /\ updater \in UpdaterSet /\ FilesSafe
  BY DEF UpdateInv, UpdateTypes
<1>1. updater.at = "restart" /\ UpdaterAt("done")
  BY DEF Restart
<1>2. updater' \in UpdaterSet /\ updater'.at = "done"
  BY <1>1, UpdaterGoes DEF Steps
<1>3. CASE Launched(FALSE) /\ disk' = [disk EXCEPT !.staged = "none", !.sums = "none"]
  <2>1. app' \in AppSet /\ job' \in JobSet /\ job'.fetch = "none" /\ DialogHeld' /\ QuitsWell
    BY <1>3, FreshStart
  <2>2. disk' \in DiskSet /\ disk'.target = disk.target /\ disk'.backup = disk.backup
    BY <1>0, <1>3 DEF DiskSet
  <2>3. FilesSafe'
    BY <1>0, <1>1, <1>2, <2>1, <2>2 DEF FilesSafe
  <2>4. UpdateTypes'
    BY <1>2, <2>1, <2>2 DEF UpdateTypes
  <2> QED BY <2>1, <2>3, <2>4 DEF UpdateInv
<1>4. CASE UNCHANGED <<app, job, disk>>
  <2>1. FilesSafe'
    BY <1>0, <1>1, <1>2, <1>4 DEF FilesSafe
  <2> QED BY <1>0, <1>2, <1>4, <2>1, UpdaterOnly
<1> QED BY <1>3, <1>4 DEF Restart

LEMMA UpdateNextInv == UpdateInv /\ [UpdateNext]_updateVars => UpdateInv' /\ QuitsWell
<1> SUFFICES ASSUME UpdateInv, [UpdateNext]_updateVars PROVE UpdateInv' /\ QuitsWell
  OBVIOUS
<1>1. CASE UpdateNext
  BY <1>1, CheckSteps, Starts, CancelStep, FetchSteps, VerifySteps, UserStarts, UpdaterSteps, Restarts
     DEF UpdateNext
<1>2. CASE UNCHANGED updateVars
  BY <1>2 DEF updateVars, UpdateInv, UpdateTypes, FilesSafe, DialogHeld, QuitsWell
<1> QED BY <1>1, <1>2

UpdateSpec == UpdateInit /\ [][UpdateNext]_updateVars

\* Whatever fails and whenever a machine goes down, the update leaves a program that
\* runs, at its path or as the backup, and at its path when the updater has ended by
\* itself (wWinMain: backup, install, rollback).
THEOREM ProgramIsKept == UpdateSpec => []ProgramKept
<1>1. UpdateInv => ProgramKept
  <2> SUFFICES ASSUME UpdateInv PROVE ProgramKept
    OBVIOUS
  <2>1. ProgramSurvives
    BY DEF UpdateInv, UpdateTypes, FilesSafe, DiskSet, ProgramSurvives, Runnable
  <2>2. ProgramInPlace
    BY DEF UpdateInv, FilesSafe, ProgramInPlace
  <2> QED BY <2>1, <2>2 DEF ProgramKept
<1> QED BY <1>1, UpdateInitInv, UpdateNextInv, PTL DEF UpdateSpec

\* The application quits only for a file that was downloaded whole and found to be the
\* published one, although a later start clears the token every verification looks at
\* and truncates the file (startUpdate(), cancelToken_).
THEOREM QuitsWithGoodFile == UpdateSpec => QuitsForVerified
<1>1. UpdateInv /\ [UpdateNext]_updateVars =>
        [(app.state = "running" /\ app'.state = "quitting") => disk.staged \notin {"part", "bad"}]_updateVars
  BY UpdateNextInv DEF QuitsWell
<1> QED BY <1>1, UpdateInitInv, UpdateNextInv, PTL DEF UpdateSpec, QuitsForVerified

-----------------------------------------------------------------------------
(* The debugger.  Types first. *)

ChannelStates == {"Opening", "Open", "Closing", "Closed", "Error"}

CallSet == [kind : {"open", "close", "write"}, generation : Nat, attempt : Nat, proto : Protocols]
EventSet == [state : ChannelStates, generation : Nat, attempt : Nat]

PanelSet ==
  [proto : NetworkPages \cup Protocols, connected : BOOLEAN, generation : Nat,
   display : [Protocols -> {"Disconnected", "Connecting", "Connected", "Disconnecting"}],
   attempt : Nat, shows : Nat, served : BOOLEAN]

IoSet ==
  [generation : Nat,
   channel : [state : ChannelStates \cup {"none"}, attempt : Nat, kind : Protocols]]

TallySet ==
  [sends : Nat, closes : Nat, moves : Nat, sent : SUBSET (Nat \X Nat), crossed : BOOLEAN]

DebuggerTypes ==
  /\ panel \in PanelSet /\ io \in IoSet /\ tally \in TallySet
  /\ toWorker \in Seq(CallSet) /\ toPanel \in Seq(EventSet)

GenerationOf(p, attempt) == IF p.proto = "udp" THEN 0 ELSE attempt

\* Of the view p, the calls w and the worker c: the worker is at an attempt; those the
\* user began since are queued to it, in order, up to the latest.
AttemptsInOrder(p, w, c) ==
  /\ p.generation = GenerationOf(p, p.attempt)
  /\ c.generation = GenerationOf(p, c.channel.attempt)
  /\ c.channel.attempt <= p.attempt
  /\ \A i \in 1 .. Len(w) : w[i].kind = "open" =>
       /\ w[i].proto = p.proto
       /\ c.channel.attempt < w[i].attempt
       /\ w[i].attempt <= p.attempt
       /\ w[i].generation = GenerationOf(p, w[i].attempt)
  /\ \A i, j \in 1 .. Len(w) :
       i < j /\ w[i].kind = "open" /\ w[j].kind = "open" => w[i].attempt < w[j].attempt
  /\ \/ c.channel.attempt = p.attempt
     \/ \E i \in 1 .. Len(w) : w[i].kind = "open" /\ w[i].attempt = p.attempt

\* The last of the states v that are on their way to the view is that of the channel
\* there is.
EventsInOrder(p, c, v) ==
  /\ \A i \in 1 .. Len(v) :
       v[i].attempt <= c.channel.attempt /\ v[i].generation = GenerationOf(p, v[i].attempt)
  /\ Len(v) > 0 =>
       /\ v[Len(v)].attempt = c.channel.attempt
       /\ v[Len(v)].state = "Open" <=> c.channel.state = "Open"
  /\ Len(v) = 0 /\ c.channel.attempt = p.attempt =>
       (p.connected = TRUE <=> c.channel.state = "Open")

\* With a generation for each attempt, a view that is connected is at the worker's
\* attempt, and so is every frame that is queued: no attempt is queued before it.
FramesFollow(p, w, c, sent) ==
  p.proto # "udp" \/ p.attempt = 0 =>
    /\ p.connected = TRUE => p.shows = p.attempt /\ c.channel.attempt = p.attempt
    /\ \A i \in 1 .. Len(w) : w[i].kind = "write" =>
         /\ w[i].attempt = c.channel.attempt
         /\ \A j \in 1 .. Len(w) : j < i => w[j].kind # "open"
    /\ \A pair \in sent : pair[1] = pair[2]

\* A view that is connected shows a widget whose connect button is not there.
NoButton(p) == p.connected = TRUE => p.display[Widget(p.proto)] # "Disconnected"

InOrder(p, w, c, v, sent) ==
  AttemptsInOrder(p, w, c) /\ EventsInOrder(p, c, v) /\ FramesFollow(p, w, c, sent) /\ NoButton(p)

DebuggerInv ==
  /\ DebuggerTypes
  /\ tally.crossed = FALSE => InOrder(panel, toWorker, io, toPanel, tally.sent)

LEMMA AppendFacts ==
  ASSUME NEW S, NEW s \in Seq(S), NEW x \in S, NEW t, t = Append(s, x)
  PROVE  /\ t \in Seq(S) /\ Len(s) \in Nat /\ Len(t) = Len(s) + 1 /\ t[Len(s) + 1] = x
         /\ \A i \in 1 .. Len(s) : t[i] = s[i]
         /\ \A i \in 1 .. Len(t) : i \in 1 .. Len(s) \/ i = Len(s) + 1
OBVIOUS

LEMMA TailFacts ==
  ASSUME NEW S, NEW s \in Seq(S), s # <<>>, NEW t, t = Tail(s)
  PROVE  /\ t \in Seq(S) /\ Len(s) \in Nat /\ Len(s) > 0 /\ Len(t) = Len(s) - 1
         /\ Head(s) = s[1] /\ s[1] \in S /\ 1 \in 1 .. Len(s)
         /\ \A i \in 1 .. Len(t) : t[i] = s[i + 1] /\ i + 1 \in 1 .. Len(s)
OBVIOUS

\* What the types give of one call and of one state on its way.
LEMMA CallsTyped ==
  ASSUME NEW w \in Seq(CallSet), NEW i \in 1 .. Len(w)
  PROVE  w[i] \in CallSet /\ w[i].attempt \in Nat /\ w[i].generation \in Nat /\ i \in Nat /\ i > 0
<1>1. w[i] \in CallSet /\ Len(w) \in Nat /\ i \in Nat /\ i > 0
  OBVIOUS
<1> QED BY <1>1 DEF CallSet

LEMMA EventsTyped ==
  ASSUME NEW v \in Seq(EventSet), NEW i \in 1 .. Len(v)
  PROVE  v[i] \in EventSet /\ v[i].attempt \in Nat /\ v[i].generation \in Nat
<1>1. v[i] \in EventSet
  OBVIOUS
<1> QED BY <1>1 DEF EventSet

\* Two views the invariant does not tell apart, and two workers.
SameAttempt(p, q) ==
  q.proto = p.proto /\ q.generation = p.generation /\ q.attempt = p.attempt

SameShown(p, q) == SameAttempt(p, q) /\ q.connected = p.connected /\ q.shows = p.shows

SameChannel(c, d) == d.generation = c.generation /\ d.channel.attempt = c.channel.attempt

\* A call that begins no attempt is queued.
LEMMA QueuedInOrder ==
  ASSUME NEW p \in PanelSet, NEW w \in Seq(CallSet), NEW c \in IoSet, NEW q, NEW x \in CallSet,
         x.kind # "open", AttemptsInOrder(p, w, c), SameAttempt(p, q), NEW u, u = Append(w, x)
  PROVE  AttemptsInOrder(q, u, c)
<1>1. /\ u \in Seq(CallSet) /\ Len(w) \in Nat /\ Len(u) = Len(w) + 1 /\ u[Len(w) + 1] = x
      /\ \A i \in 1 .. Len(w) : u[i] = w[i] /\ i \in 1 .. Len(u)
      /\ \A i \in 1 .. Len(u) : u[i].kind = "open" => i \in 1 .. Len(w) /\ u[i] = w[i]
  BY AppendFacts
<1>2. \A n : GenerationOf(q, n) = GenerationOf(p, n)
  BY DEF GenerationOf, SameAttempt
<1> QED BY <1>1, <1>2 DEF AttemptsInOrder, SameAttempt

\* A call that begins no attempt is taken.
LEMMA TakenInOrder ==
  ASSUME NEW p \in PanelSet, NEW w \in Seq(CallSet), NEW c \in IoSet, w # <<>>, w[1].kind # "open",
         AttemptsInOrder(p, w, c), NEW d, SameChannel(c, d), NEW u, u = Tail(w)
  PROVE  AttemptsInOrder(p, u, d)
<1>1. /\ u \in Seq(CallSet) /\ Len(w) \in Nat /\ Len(w) > 0 /\ Len(u) = Len(w) - 1
      /\ \A i \in 1 .. Len(u) : u[i] = w[i + 1] /\ i + 1 \in 1 .. Len(w)
  BY TailFacts
<1>2. \A i \in 1 .. Len(w) : w[i].kind = "open" => i - 1 \in 1 .. Len(u) /\ u[i - 1] = w[i]
  <2> SUFFICES ASSUME NEW i \in 1 .. Len(w), w[i].kind = "open"
               PROVE  i - 1 \in 1 .. Len(u) /\ u[i - 1] = w[i]
    OBVIOUS
  <2>1. i # 1 /\ i - 1 \in 1 .. Len(u) /\ (i - 1) + 1 = i
    BY <1>1
  <2> QED BY <1>1, <2>1
<1>3. \A i, j \in 1 .. Len(u) : i < j => i + 1 < j + 1
  BY <1>1
<1>4. \/ d.channel.attempt = p.attempt
      \/ \E i \in 1 .. Len(u) : u[i].kind = "open" /\ u[i].attempt = p.attempt
  BY <1>2 DEF AttemptsInOrder, SameChannel
<1> QED BY <1>1, <1>3, <1>4 DEF AttemptsInOrder, SameChannel

\* What is queued says nothing of the frames when it is a disconnect.
LEMMA QueuedFollows ==
  ASSUME NEW p \in PanelSet, NEW w \in Seq(CallSet), NEW c \in IoSet, NEW q, NEW sent,
         NEW x \in CallSet, FramesFollow(p, w, c, sent), SameShown(p, q), NEW u, u = Append(w, x),
         x.kind = "close" 
  PROVE  FramesFollow(q, u, c, sent)
<1> SUFFICES ASSUME p.proto # "udp" \/ p.attempt = 0 PROVE FramesFollow(q, u, c, sent)
  BY DEF FramesFollow, SameShown, SameAttempt
<1>1. /\ Len(w) \in Nat /\ u[Len(w) + 1] = x
      /\ \A i \in 1 .. Len(w) : u[i] = w[i]
      /\ \A i \in 1 .. Len(u) : i \in 1 .. Len(w) \/ i = Len(w) + 1
  BY AppendFacts
<1>2. ASSUME NEW i \in 1 .. Len(u), u[i].kind = "write"
      PROVE  u[i].attempt = c.channel.attempt /\ \A j \in 1 .. Len(u) : j < i => u[j].kind # "open"
  <2>1. i \in 1 .. Len(w) /\ u[i] = w[i]
    BY <1>1, <1>2
  <2>2. \A j \in 1 .. Len(u) : j < i => j \in 1 .. Len(w) /\ u[j] = w[j]
    BY <1>1, <2>1
  <2> QED BY <1>2, <2>1, <2>2 DEF FramesFollow
<1> QED BY <1>2 DEF FramesFollow, SameShown, SameAttempt

\* What is left when a call that begins no attempt is taken.
LEMMA TakenFollows ==
  ASSUME NEW p \in PanelSet, NEW w \in Seq(CallSet), NEW c \in IoSet, NEW d, NEW sent,
         w # <<>>, FramesFollow(p, w, c, sent), SameChannel(c, d), NEW u, u = Tail(w)
  PROVE  FramesFollow(p, u, d, sent)
<1>1. /\ Len(w) \in Nat /\ Len(u) = Len(w) - 1
      /\ \A i \in 1 .. Len(u) : u[i] = w[i + 1] /\ i + 1 \in 1 .. Len(w)
  BY TailFacts
<1>2. \A i, j \in 1 .. Len(u) : j < i => j + 1 < i + 1
  BY <1>1
<1> QED BY <1>1, <1>2 DEF FramesFollow, SameChannel

\* Behind what was queued, v, are states of attempt n alone, the last of them s.
Told(v, z, g, n, s) ==
  /\ z \in Seq(EventSet) /\ Len(v) < Len(z)
  /\ \A i \in 1 .. Len(v) : z[i] = v[i]
  /\ \A i \in 1 .. Len(z) : i > Len(v) => z[i].attempt = n /\ z[i].generation = g
  /\ z[Len(z)].state = s

\* The channel moved and told the view of it.
LEMMA ToldInOrder ==
  ASSUME NEW p \in PanelSet, NEW c \in IoSet, NEW d \in IoSet, NEW v \in Seq(EventSet), NEW z,
         EventsInOrder(p, c, v), c.channel.attempt <= d.channel.attempt,
         d.generation = GenerationOf(p, d.channel.attempt),
         Told(v, z, d.generation, d.channel.attempt, d.channel.state)
  PROVE  EventsInOrder(p, d, z)
<1>1. c.channel.attempt \in Nat /\ d.channel.attempt \in Nat
  BY DEF IoSet
<1>2. /\ Len(v) \in Nat /\ Len(z) \in Nat /\ Len(z) > 0 /\ Len(z) \in 1 .. Len(z) /\ Len(v) < Len(z)
      /\ \A i \in 1 .. Len(v) : z[i] = v[i]
      /\ \A i \in 1 .. Len(z) : i > Len(v) =>
           z[i].attempt = d.channel.attempt /\ z[i].generation = d.generation
      /\ z[Len(z)].state = d.channel.state
  BY DEF Told
<1>3. ASSUME NEW i \in 1 .. Len(z)
      PROVE  z[i].attempt <= d.channel.attempt /\ z[i].generation = GenerationOf(p, z[i].attempt)
  <2>1. CASE i > Len(v)
    BY <1>1, <1>2, <2>1
  <2>2. CASE i \in 1 .. Len(v)
    <3>1. v[i].attempt \in Nat /\ v[i].attempt <= c.channel.attempt
          /\ v[i].generation = GenerationOf(p, v[i].attempt)
      BY <2>2, EventsTyped DEF EventsInOrder
    <3> QED BY <1>1, <1>2, <2>2, <3>1
  <2> QED BY <1>2, <2>1, <2>2
<1>4. z[Len(z)].attempt = d.channel.attempt
  BY <1>2
<1> QED BY <1>2, <1>3, <1>4 DEF EventsInOrder

LEMMA DebuggerInitInv == DebuggerInit => DebuggerInv
<1> SUFFICES ASSUME DebuggerInit PROVE DebuggerInv
  OBVIOUS
<1>1. PICK proto \in {"tcp", "serial"} :
        panel = [proto |-> proto, connected |-> FALSE, generation |-> 0,
                 display |-> [widget \in Protocols |-> "Disconnected"], attempt |-> 0, shows |-> 0,
                 served |-> FALSE]
  BY DEF DebuggerInit
<1>2. /\ toWorker = <<>> /\ toPanel = <<>>
      /\ io = [generation |-> 0, channel |-> [state |-> "none", attempt |-> 0, kind |-> "tcp"]]
      /\ tally = [sends |-> 0, closes |-> 0, moves |-> 0, sent |-> {}, crossed |-> FALSE]
  BY DEF DebuggerInit, NoChannel
<1>3. panel \in PanelSet
  BY <1>1 DEF PanelSet, Protocols, NetworkPages
<1>4. io \in IoSet
  BY <1>2 DEF IoSet, ChannelStates, Protocols
<1>5. tally \in TallySet
  BY <1>2 DEF TallySet
<1>6. toWorker \in Seq(CallSet) /\ Len(toWorker) = 0 /\ toPanel \in Seq(EventSet) /\ Len(toPanel) = 0
  BY <1>2
<1>7. AttemptsInOrder(panel, toWorker, io)
  BY <1>1, <1>2, <1>6 DEF AttemptsInOrder, GenerationOf
<1>8. EventsInOrder(panel, io, toPanel)
  BY <1>1, <1>2, <1>6 DEF EventsInOrder
<1>9. FramesFollow(panel, toWorker, io, tally.sent)
  BY <1>1, <1>2, <1>6 DEF FramesFollow
<1>10. NoButton(panel)
  BY <1>1 DEF NoButton
<1> QED BY <1>3, <1>4, <1>5, <1>6, <1>7, <1>8, <1>9, <1>10 DEF DebuggerInv, DebuggerTypes, InOrder

\* The protocol changes while nothing has been attempted, or the rest of the invariant is
\* given up.
LEMMA ProtocolChanges ==
  ASSUME DebuggerInv, ChangeProtocol
  PROVE  DebuggerInv'
<1>1. /\ panel \in PanelSet /\ tally \in TallySet /\ io \in IoSet
      /\ toWorker \in Seq(CallSet) /\ toPanel \in Seq(EventSet)
      /\ UNCHANGED <<toWorker, io, toPanel>>
  BY DEF DebuggerInv, DebuggerTypes, ChangeProtocol
<1>2. /\ panel' \in PanelSet /\ panel'.generation = panel.generation /\ panel'.attempt = panel.attempt
      /\ panel'.connected = panel.connected /\ panel'.shows = panel.shows
      /\ panel'.connected # TRUE
  <2>1. PICK p \in NetworkPages :
          panel' = [panel EXCEPT !.proto = p, !.served = panel.served \/ p = "server"]
    BY DEF ChangeProtocol
  <2>2. panel.connected # TRUE
    <3>1. ~panel.connected BY DEF ChangeProtocol
    <3> QED BY <3>1
  <2> DEFINE s == panel.served \/ p = "server"
  <2>3. s \in BOOLEAN /\ panel' = [panel EXCEPT !.proto = p, !.served = s] BY <2>1
  <2> HIDE DEF s
  <2> QED BY <1>1, <2>2, <2>3 DEF PanelSet
<1> DEFINE crossed == tally.crossed \/ panel.attempt > 0
<1>4. /\ \A n \in Nat, b \in BOOLEAN : LET t == [tally EXCEPT !.moves = n, !.crossed = b] IN
           t \in TallySet /\ t.crossed = b /\ t.sent = tally.sent
  BY <1>1 DEF TallySet
<1>5. /\ crossed \in BOOLEAN /\ tally.moves + 1 \in Nat
      /\ tally' = [tally EXCEPT !.moves = tally.moves + 1, !.crossed = crossed]
  BY <1>1 DEF ChangeProtocol, TallySet
<1>6. tally' \in TallySet /\ tally'.crossed = crossed /\ tally'.sent = tally.sent
  <2> HIDE DEF crossed
  <2> QED BY <1>4, <1>5
<1>7. DebuggerTypes'
  BY <1>1, <1>2, <1>6 DEF DebuggerTypes
<1>8. ASSUME tally'.crossed = FALSE PROVE InOrder(panel, toWorker, io, toPanel, tally.sent)'
  <2>1. ~crossed
    BY <1>6, <1>8
  <2>2. tally.crossed = FALSE /\ panel.attempt = 0
    <3>1. ~tally.crossed /\ ~(panel.attempt > 0)
      BY <2>1
    <3>2. panel.attempt = 0
      BY <1>1, <3>1 DEF PanelSet
    <3>3. tally.crossed = FALSE
      BY <1>1, <3>1 DEF TallySet
    <3> QED BY <3>2, <3>3
  <2>3. /\ AttemptsInOrder(panel, toWorker, io) /\ EventsInOrder(panel, io, toPanel)
        /\ FramesFollow(panel, toWorker, io, tally.sent) /\ NoButton(panel)
    BY <2>2 DEF DebuggerInv, InOrder
  <2>4. io.channel.attempt = 0 /\ io.generation = 0 /\ panel.generation = 0
    BY <1>1, <2>2, <2>3 DEF AttemptsInOrder, IoSet, GenerationOf
  <2>5. \A i \in 1 .. Len(toWorker) : toWorker[i].kind # "open"
    <3> SUFFICES ASSUME NEW i \in 1 .. Len(toWorker), toWorker[i].kind = "open" PROVE FALSE
      OBVIOUS
    <3>1. toWorker[i].attempt \in Nat
      BY <1>1, CallsTyped
    <3> QED BY <2>2, <2>3, <2>4, <3>1 DEF AttemptsInOrder
  <2>6. \A i \in 1 .. Len(toPanel) : toPanel[i].attempt = 0 /\ toPanel[i].generation = 0
    <3> SUFFICES ASSUME NEW i \in 1 .. Len(toPanel) PROVE toPanel[i].attempt = 0 /\ toPanel[i].generation = 0
      OBVIOUS
    <3>1. toPanel[i].attempt \in Nat
      BY <1>1, EventsTyped
    <3> QED BY <2>3, <2>4, <3>1 DEF EventsInOrder, GenerationOf
  <2>7. AttemptsInOrder(panel', toWorker, io)
    BY <1>2, <2>2, <2>4, <2>5 DEF AttemptsInOrder, GenerationOf
  <2>8. EventsInOrder(panel', io, toPanel)
    BY <1>2, <2>3, <2>6 DEF EventsInOrder, GenerationOf
  <2>9. FramesFollow(panel', toWorker, io, tally.sent)
    BY <1>2, <2>2, <2>3 DEF FramesFollow
  <2>10. NoButton(panel')
    BY <1>2 DEF NoButton
  <2> QED BY <1>1, <1>6, <2>7, <2>8, <2>9, <2>10 DEF InOrder
<1> QED BY <1>7, <1>8 DEF DebuggerInv

\* The server reports: from then on only the types are kept.
LEMMA ServerWrites ==
  ASSUME DebuggerInv, ServerReports
  PROVE  DebuggerInv'
<1>1. /\ panel \in PanelSet /\ tally \in TallySet /\ io \in IoSet
      /\ toWorker \in Seq(CallSet) /\ toPanel \in Seq(EventSet)
      /\ UNCHANGED <<toWorker, io, toPanel>>
  BY DEF DebuggerInv, DebuggerTypes, ServerReports
<1>2. panel' \in PanelSet
  <2>1. PICK open \in BOOLEAN : panel' = [panel EXCEPT !.connected = open, !.shows = 0]
    BY DEF ServerReports
  <2> QED BY <1>1, <2>1 DEF PanelSet
<1>3. tally' \in TallySet /\ tally'.crossed = TRUE
  <2>1. tally.moves + 1 \in Nat /\ tally' = [tally EXCEPT !.moves = tally.moves + 1, !.crossed = TRUE]
    BY <1>1 DEF ServerReports, TallySet
  <2>2. \A n \in Nat : LET t == [tally EXCEPT !.moves = n, !.crossed = TRUE] IN
          t \in TallySet /\ t.crossed = TRUE
    BY <1>1 DEF TallySet
  <2> QED BY <2>1, <2>2
<1> QED BY <1>1, <1>2, <1>3 DEF DebuggerInv, DebuggerTypes


\* The user connects: one more attempt, queued behind everything else.
LEMMA UserConnects ==
  ASSUME DebuggerInv, Connect
  PROVE  DebuggerInv'
<1> DEFINE g == panel.generation + (IF panel.proto = "udp" THEN 0 ELSE 1)
           n == panel.attempt + 1
           call == [kind |-> "open", generation |-> g, attempt |-> n, proto |-> panel.proto]
<1>1. /\ panel \in PanelSet /\ tally \in TallySet /\ io \in IoSet
      /\ toWorker \in Seq(CallSet) /\ toPanel \in Seq(EventSet)
      /\ UNCHANGED <<io, toPanel, tally>>
  BY DEF DebuggerInv, DebuggerTypes, Connect
<1>2. /\ panel.display[Widget(panel.proto)] = "Disconnected" /\ toWorker' = Append(toWorker, call)
      /\ panel' = [panel EXCEPT !.generation = g, !.attempt = n, !.display[panel.proto] = "Connecting"]
  BY DEF Connect, PostCall, Displayed
<1>3. panel.attempt \in Nat /\ panel.generation \in Nat /\ panel.proto \in Protocols
  BY <1>1 DEF PanelSet, Connect
<1>4. n \in Nat /\ g \in Nat /\ n > panel.attempt
  BY <1>3
<1>5. call \in CallSet /\ call.kind = "open" /\ call.attempt = n /\ call.generation = g
      /\ call.proto = panel.proto
  <2> HIDE DEF n, g
  <2> QED BY <1>3, <1>4 DEF CallSet
<1>6. /\ panel' \in PanelSet /\ panel'.generation = g /\ panel'.attempt = n
      /\ panel'.connected = panel.connected /\ panel'.proto = panel.proto
  <2> HIDE DEF n, g
  <2> DEFINE d == [panel.display EXCEPT ![panel.proto] = "Connecting"]
  <2>1. d \in [Protocols -> {"Disconnected", "Connecting", "Connected", "Disconnecting"}]
    BY <1>1 DEF PanelSet
  <2>2. panel' = [panel EXCEPT !.generation = g, !.attempt = n, !.display = d]
    BY <1>2
  <2> HIDE DEF d
  <2> QED BY <1>1, <2>1, <2>2, <1>4 DEF PanelSet
<1> HIDE DEF call
<1>7. /\ toWorker' \in Seq(CallSet) /\ Len(toWorker) \in Nat /\ Len(toWorker') = Len(toWorker) + 1
      /\ toWorker'[Len(toWorker) + 1] = call
      /\ \A i \in 1 .. Len(toWorker) : toWorker'[i] = toWorker[i]
      /\ \A i \in 1 .. Len(toWorker') : i \in 1 .. Len(toWorker) \/ i = Len(toWorker) + 1
  BY <1>1, <1>2, <1>5, AppendFacts
<1>8. DebuggerTypes'
  BY <1>1, <1>6, <1>7 DEF DebuggerTypes
<1>9. ASSUME tally'.crossed = FALSE PROVE InOrder(panel, toWorker, io, toPanel, tally.sent)'
  <2>1. /\ AttemptsInOrder(panel, toWorker, io) /\ EventsInOrder(panel, io, toPanel)
        /\ FramesFollow(panel, toWorker, io, tally.sent) /\ NoButton(panel)
    BY <1>1, <1>9 DEF DebuggerInv, InOrder
  <2>a. panel'.connected # TRUE
    BY <1>2, <1>6, <2>1 DEF NoButton
  <2>2. io.channel.attempt \in Nat /\ io.channel.attempt < n /\ io.channel.attempt <= panel.attempt
    BY <1>1, <1>3, <2>1 DEF AttemptsInOrder, IoSet
  <2>3. g = GenerationOf(panel, n) /\ \A m : GenerationOf(panel', m) = GenerationOf(panel, m)
    BY <1>3, <1>6, <2>1 DEF AttemptsInOrder, GenerationOf
  <2>4. \A i \in 1 .. Len(toWorker) : toWorker[i].attempt \in Nat
    BY <1>1, CallsTyped
  <2> HIDE DEF g, n
  <2>5. \A i \in 1 .. Len(toWorker) : toWorker[i].kind = "open" =>
          io.channel.attempt < toWorker[i].attempt /\ toWorker[i].attempt <= panel.attempt
          /\ toWorker[i].proto = panel.proto
          /\ toWorker[i].generation = GenerationOf(panel, toWorker[i].attempt)
    BY <2>1 DEF AttemptsInOrder
  <2>6. \A i \in 1 .. Len(toWorker) : toWorker[i].kind = "open" => toWorker[i].attempt < n
    BY <1>3, <1>4, <2>4, <2>5
  <2>7. AttemptsInOrder(panel', toWorker', io)
    <3>1. panel'.generation = GenerationOf(panel', panel'.attempt)
          /\ io.generation = GenerationOf(panel', io.channel.attempt)
      BY <1>6, <2>1, <2>3 DEF AttemptsInOrder
    <3>2. ASSUME NEW i \in 1 .. Len(toWorker'), toWorker'[i].kind = "open"
          PROVE  /\ toWorker'[i].proto = panel'.proto
                 /\ io.channel.attempt < toWorker'[i].attempt
                 /\ toWorker'[i].attempt <= panel'.attempt
                 /\ toWorker'[i].generation = GenerationOf(panel', toWorker'[i].attempt)
      <4>1. CASE i = Len(toWorker) + 1
        <5>1. toWorker'[i] = call
          BY <1>7, <4>1
        <5>2. n <= panel'.attempt
          BY <1>4, <1>6
        <5>3. io.channel.attempt < call.attempt
          BY <1>5, <2>2
        <5>4. toWorker'[i].attempt <= panel'.attempt
          BY <1>5, <5>1, <5>2
        <5>5. toWorker'[i].generation = GenerationOf(panel', toWorker'[i].attempt)
          BY <1>5, <2>3, <5>1
        <5>6. toWorker'[i].proto = panel'.proto /\ io.channel.attempt < toWorker'[i].attempt
          BY <1>5, <1>6, <5>1, <5>3
        <5> QED BY <5>4, <5>5, <5>6
      <4>2. CASE i \in 1 .. Len(toWorker)
        <5>1. toWorker'[i] = toWorker[i] /\ toWorker[i].kind = "open"
          BY <1>7, <3>2, <4>2
        <5>2. toWorker[i].attempt < n /\ toWorker[i].attempt \in Nat
          BY <2>4, <2>6, <4>2, <5>1
        <5>3. toWorker[i].attempt <= panel'.attempt
          BY <1>4, <1>6, <5>2
        <5> QED BY <1>6, <2>3, <2>5, <4>2, <5>1, <5>3
      <4> QED BY <1>7, <4>1, <4>2
    <3>3. ASSUME NEW i \in 1 .. Len(toWorker'), NEW j \in 1 .. Len(toWorker'), i < j,
                 toWorker'[i].kind = "open", toWorker'[j].kind = "open"
          PROVE  toWorker'[i].attempt < toWorker'[j].attempt
      <4>1. i \in 1 .. Len(toWorker)
        BY <1>7, <3>3
      <4>2. CASE j = Len(toWorker) + 1
        BY <1>5, <1>7, <2>6, <3>3, <4>1, <4>2
      <4>3. CASE j \in 1 .. Len(toWorker)
        BY <1>7, <2>1, <3>3, <4>1, <4>3 DEF AttemptsInOrder
      <4> QED BY <1>7, <4>2, <4>3
    <3>4. /\ Len(toWorker) + 1 \in 1 .. Len(toWorker') /\ toWorker'[Len(toWorker) + 1].kind = "open"
          /\ toWorker'[Len(toWorker) + 1].attempt = panel'.attempt
      BY <1>5, <1>6, <1>7
    <3>5. io.channel.attempt <= panel'.attempt
      BY <1>4, <1>6, <2>2
    <3> QED BY <3>1, <3>2, <3>3, <3>4, <3>5 DEF AttemptsInOrder
  <2>8. EventsInOrder(panel', io, toPanel)
    <3>1. io.channel.attempt # panel'.attempt
      BY <1>4, <1>6, <2>2
    <3> QED BY <2>1, <2>3, <3>1 DEF EventsInOrder
  <2>9. FramesFollow(panel', toWorker', io, tally.sent)
    <3> SUFFICES ASSUME panel'.proto # "udp" \/ panel'.attempt = 0
                 PROVE  FramesFollow(panel', toWorker', io, tally.sent)
      BY DEF FramesFollow
    <3>1. panel.proto # "udp"
      BY <1>3, <1>4, <1>6
    <3>2. ASSUME NEW i \in 1 .. Len(toWorker'), toWorker'[i].kind = "write"
          PROVE  /\ toWorker'[i].attempt = io.channel.attempt
                 /\ \A j \in 1 .. Len(toWorker') : j < i => toWorker'[j].kind # "open"
      <4>1. i \in 1 .. Len(toWorker) /\ toWorker'[i] = toWorker[i]
        BY <1>5, <1>7, <3>2
      <4>2. \A j \in 1 .. Len(toWorker') : j < i => j \in 1 .. Len(toWorker) /\ toWorker'[j] = toWorker[j]
        BY <1>7, <4>1
      <4> QED BY <2>1, <3>1, <3>2, <4>1, <4>2 DEF FramesFollow
    <3> QED BY <1>6, <2>1, <2>a, <3>1, <3>2 DEF FramesFollow
  <2>10. NoButton(panel')
    BY <2>a DEF NoButton
  <2> QED BY <1>1, <2>7, <2>8, <2>9, <2>10 DEF InOrder
<1> QED BY <1>8, <1>9 DEF DebuggerInv


\* The user disconnects.
LEMMA UserDisconnects ==
  ASSUME DebuggerInv, Disconnect
  PROVE  DebuggerInv'
<1> DEFINE call == [kind |-> "close", generation |-> 0, attempt |-> 0, proto |-> "tcp"]
<1>1. /\ panel \in PanelSet /\ tally \in TallySet /\ io \in IoSet
      /\ toWorker \in Seq(CallSet) /\ toPanel \in Seq(EventSet)
      /\ UNCHANGED <<io, toPanel>> /\ toWorker' = Append(toWorker, call)
  BY DEF DebuggerInv, DebuggerTypes, Disconnect, PostCall, WorkerCall
<1>2. /\ panel' \in PanelSet /\ SameShown(panel, panel')
      /\ panel' = panel \/ (panel.proto = "udp" /\ panel'.display["udp"] = "Disconnecting")
  <2> DEFINE d == [panel.display EXCEPT !["udp"] = "Disconnecting"]
  <2>0. /\ d \in [Protocols -> {"Disconnected", "Connecting", "Connected", "Disconnecting"}]
        /\ d["udp"] = "Disconnecting"
    BY <1>1 DEF PanelSet, Protocols
  <2> HIDE DEF d
  <2>1. LET q == [panel EXCEPT !.display = d] IN
          q \in PanelSet /\ SameShown(panel, q) /\ q.display["udp"] = "Disconnecting"
    BY <1>1, <2>0 DEF PanelSet, SameShown, SameAttempt
  <2>2. SameShown(panel, panel)
    BY DEF SameShown, SameAttempt
  <2>3. (panel.proto = "udp" /\ panel' = [panel EXCEPT !.display = d]) \/ panel' = panel
    BY DEF Disconnect, d
  <2> QED BY <1>1, <2>1, <2>2, <2>3
<1>3. tally' \in TallySet /\ tally'.crossed = tally.crossed /\ tally'.sent = tally.sent
  <2>1. tally' = [tally EXCEPT !.closes = tally.closes + 1]
    BY DEF Disconnect
  <2>2. \A n \in Nat : LET t == [tally EXCEPT !.closes = n] IN
          t \in TallySet /\ t.crossed = tally.crossed /\ t.sent = tally.sent
    BY <1>1 DEF TallySet
  <2>3. tally.closes + 1 \in Nat
    BY <1>1 DEF TallySet
  <2> QED BY <2>1, <2>2, <2>3
<1>4. call \in CallSet /\ call.kind = "close"
  BY DEF CallSet, Protocols
<1> HIDE DEF call
<1>5. toWorker' \in Seq(CallSet)
  BY <1>1, <1>4, AppendFacts
<1>6. DebuggerTypes'
  BY <1>1, <1>2, <1>3, <1>5 DEF DebuggerTypes
<1>7. ASSUME tally'.crossed = FALSE PROVE InOrder(panel, toWorker, io, toPanel, tally.sent)'
  <2>1. /\ AttemptsInOrder(panel, toWorker, io) /\ EventsInOrder(panel, io, toPanel)
        /\ FramesFollow(panel, toWorker, io, tally.sent) /\ NoButton(panel)
    BY <1>3, <1>7 DEF DebuggerInv, InOrder
  <2>2. SameAttempt(panel, panel')
    BY <1>2 DEF SameShown
  <2>3. AttemptsInOrder(panel', toWorker', io)
    BY <1>1, <1>4, <2>1, <2>2, QueuedInOrder
  <2>4. FramesFollow(panel', toWorker', io, tally.sent)
    BY <1>1, <1>2, <1>4, <2>1, QueuedFollows
  <2>5. EventsInOrder(panel', io, toPanel)
    BY <1>2, <2>1 DEF EventsInOrder, GenerationOf, SameShown, SameAttempt
  <2>6. NoButton(panel')
    BY <1>2, <2>1 DEF NoButton, Widget, SameShown, SameAttempt
  <2> QED BY <1>1, <1>3, <2>3, <2>4, <2>5, <2>6 DEF InOrder
<1> QED BY <1>6, <1>7 DEF DebuggerInv

\* The user sends: a frame for the connection the view shows, which is the worker's, with
\* no attempt queued before the frame.
LEMMA UserSends ==
  ASSUME DebuggerInv, Send
  PROVE  DebuggerInv'
<1> DEFINE call == [kind |-> "write", generation |-> 0, attempt |-> panel.shows, proto |-> "tcp"]
<1>1. /\ panel \in PanelSet /\ tally \in TallySet /\ io \in IoSet
      /\ toWorker \in Seq(CallSet) /\ toPanel \in Seq(EventSet)
      /\ UNCHANGED <<panel, io, toPanel>> /\ toWorker' = Append(toWorker, call)
  BY DEF DebuggerInv, DebuggerTypes, Send, PostCall, WorkerCall
<1>2. panel.connected = TRUE
  <2>1. panel.connected /\ panel.connected \in BOOLEAN
    BY <1>1 DEF Send, PanelSet
  <2> QED BY <2>1
<1>3. tally' \in TallySet /\ tally'.crossed = tally.crossed /\ tally'.sent = tally.sent
  <2>1. tally' = [tally EXCEPT !.sends = tally.sends + 1]
    BY DEF Send
  <2>2. \A n \in Nat : LET t == [tally EXCEPT !.sends = n] IN
          t \in TallySet /\ t.crossed = tally.crossed /\ t.sent = tally.sent
    BY <1>1 DEF TallySet
  <2>3. tally.sends + 1 \in Nat
    BY <1>1 DEF TallySet
  <2> QED BY <2>1, <2>2, <2>3
<1>4. call \in CallSet /\ call.kind = "write" /\ call.attempt = panel.shows
  BY <1>1 DEF CallSet, Protocols, PanelSet
<1> HIDE DEF call
<1>5. /\ toWorker' \in Seq(CallSet) /\ Len(toWorker) \in Nat /\ toWorker'[Len(toWorker) + 1] = call
      /\ \A i \in 1 .. Len(toWorker) : toWorker'[i] = toWorker[i]
      /\ \A i \in 1 .. Len(toWorker') : i \in 1 .. Len(toWorker) \/ i = Len(toWorker) + 1
  BY <1>1, <1>4, AppendFacts
<1>6. DebuggerTypes'
  BY <1>1, <1>3, <1>5 DEF DebuggerTypes
<1>7. ASSUME tally'.crossed = FALSE PROVE InOrder(panel, toWorker, io, toPanel, tally.sent)'
  <2>1. /\ AttemptsInOrder(panel, toWorker, io) /\ EventsInOrder(panel, io, toPanel)
        /\ FramesFollow(panel, toWorker, io, tally.sent) /\ NoButton(panel)
    BY <1>3, <1>7 DEF DebuggerInv, InOrder
  <2>2. AttemptsInOrder(panel, toWorker', io)
    <3>1. SameAttempt(panel, panel) /\ call.kind # "open"
      BY <1>4 DEF SameAttempt
    <3> QED BY <1>1, <1>4, <2>1, <3>1, QueuedInOrder
  <2>3. FramesFollow(panel, toWorker', io, tally.sent)
    <3> SUFFICES ASSUME panel.proto # "udp" \/ panel.attempt = 0
                 PROVE  FramesFollow(panel, toWorker', io, tally.sent)
      BY DEF FramesFollow
    <3>1. panel.shows = panel.attempt /\ io.channel.attempt = panel.attempt
      BY <1>2, <2>1 DEF FramesFollow
    <3>2. ASSUME NEW i \in 1 .. Len(toWorker) PROVE toWorker[i].kind # "open"
      <4>1. toWorker[i].attempt \in Nat /\ panel.attempt \in Nat
        BY <1>1, CallsTyped DEF PanelSet
      <4> QED BY <2>1, <3>1, <4>1 DEF AttemptsInOrder
    <3>3. ASSUME NEW i \in 1 .. Len(toWorker'), toWorker'[i].kind = "write"
          PROVE  /\ toWorker'[i].attempt = io.channel.attempt
                 /\ \A j \in 1 .. Len(toWorker') : j < i => toWorker'[j].kind # "open"
      <4>1. toWorker'[i].attempt = io.channel.attempt
        <5>1. CASE i \in 1 .. Len(toWorker)
          BY <1>5, <2>1, <3>3, <5>1 DEF FramesFollow
        <5>2. CASE i = Len(toWorker) + 1
          BY <1>4, <1>5, <3>1, <5>2
        <5> QED BY <1>5, <5>1, <5>2
      <4>2. \A j \in 1 .. Len(toWorker') : toWorker'[j].kind # "open"
        BY <1>4, <1>5, <3>2
      <4> QED BY <4>1, <4>2
    <3> QED BY <2>1, <3>3 DEF FramesFollow
  <2> QED BY <1>1, <1>3, <2>1, <2>2, <2>3 DEF InOrder
<1> QED BY <1>6, <1>7 DEF DebuggerInv

LEMMA ConcatFacts ==
  ASSUME NEW S, NEW s \in Seq(S), NEW t \in Seq(S), NEW z, z = s \o t
  PROVE  /\ z \in Seq(S) /\ Len(s) \in Nat /\ Len(t) \in Nat /\ Len(z) = Len(s) + Len(t)
         /\ \A i \in 1 .. Len(s) : z[i] = s[i]
         /\ \A i \in 1 .. Len(z) : i > Len(s) => z[i] = t[i - Len(s)] /\ i - Len(s) \in 1 .. Len(t)
OBVIOUS

LEMMA EndsWith ==
  ASSUME NEW S, NEW s \in Seq(S), NEW x \in S, NEW t, t = s \o <<x>>
  PROVE  t \in Seq(S) /\ Len(t) > 0 /\ t[Len(t)] = x
OBVIOUS

\* What setState() queues: the states, all of one attempt, behind what was queued.
Batch(states, generation, attempt) ==
  [i \in 1 .. Len(states) |-> [state |-> states[i], generation |-> generation, attempt |-> attempt]]

LEMMA BatchFacts ==
  ASSUME NEW v \in Seq(EventSet), NEW states \in Seq(ChannelStates), Len(states) > 0,
         NEW generation \in Nat, NEW attempt \in Nat,
         NEW z, z = v \o Batch(states, generation, attempt)
  PROVE  Told(v, z, generation, attempt, states[Len(states)])
<1> DEFINE e == Batch(states, generation, attempt)
<1>1. z = v \o e
  OBVIOUS
<1>2. Len(states) \in Nat /\ \A i \in 1 .. Len(states) : states[i] \in ChannelStates
  OBVIOUS
<1>3. \A i \in 1 .. Len(states) :
        [state |-> states[i], generation |-> generation, attempt |-> attempt] \in EventSet
  BY <1>2 DEF EventSet
<1>4. e \in Seq(EventSet) /\ Len(e) = Len(states)
  BY <1>2, <1>3 DEF Batch
<1>5. \A i \in 1 .. Len(e) : e[i].state = states[i] /\ e[i].attempt = attempt /\ e[i].generation = generation
  BY <1>4 DEF Batch
<1> HIDE DEF e
<1>6. /\ z \in Seq(EventSet) /\ Len(v) \in Nat /\ Len(e) \in Nat /\ Len(z) = Len(v) + Len(e)
      /\ \A i \in 1 .. Len(v) : z[i] = v[i]
      /\ \A i \in 1 .. Len(z) : i > Len(v) =>
           z[i] = e[i - Len(v)] /\ i - Len(v) \in 1 .. Len(e)
  BY <1>1, <1>4, ConcatFacts, Zenon
<1>7. \A i \in 1 .. Len(z) : i > Len(v) =>
        z[i].attempt = attempt /\ z[i].generation = generation
  BY <1>5, <1>6
<1>8. Len(z) \in 1 .. Len(z) /\ Len(z) > Len(v) /\ Len(z) - Len(v) = Len(states)
  BY <1>2, <1>4, <1>6
<1>9. z[Len(z)] = e[Len(states)] /\ Len(states) \in 1 .. Len(e)
  BY <1>6, <1>8
<1>10. z[Len(z)].state = states[Len(states)]
  BY <1>5, <1>9
<1> QED BY <1>6, <1>7, <1>8, <1>10 DEF Told

\* A channel that stays the worker's goes through states and says so.
Goes(states) ==
  /\ io' = [io EXCEPT !.channel.state = states[Len(states)]]
  /\ toPanel' = Emits(states, io.generation, io.channel.attempt)

LEMMA ChannelTells ==
  ASSUME DebuggerTypes, NEW states \in Seq(ChannelStates), Len(states) > 0, Goes(states)
  PROVE  /\ io' \in IoSet /\ SameChannel(io, io') /\ toPanel' \in Seq(EventSet)
         /\ AttemptsInOrder(panel, toWorker, io) /\ EventsInOrder(panel, io, toPanel) =>
              EventsInOrder(panel, io', toPanel')
<1>1. panel \in PanelSet /\ io \in IoSet /\ toPanel \in Seq(EventSet)
  BY DEF DebuggerTypes
<1>2. states[Len(states)] \in ChannelStates
  OBVIOUS
<1>3. /\ io' \in IoSet /\ SameChannel(io, io') /\ io'.channel.state = states[Len(states)]
  BY <1>1, <1>2 DEF IoSet, SameChannel, Goes
<1>4. io.generation \in Nat /\ io.channel.attempt \in Nat
  BY <1>1 DEF IoSet
<1>5. Told(toPanel, toPanel', io.generation, io.channel.attempt, states[Len(states)])
  <2>1. toPanel' = toPanel \o Batch(states, io.generation, io.channel.attempt)
    BY DEF Emits, Batch, Goes
  <2> QED BY <1>1, <1>4, <2>1, BatchFacts
<1>6. ASSUME AttemptsInOrder(panel, toWorker, io), EventsInOrder(panel, io, toPanel)
      PROVE  EventsInOrder(panel, io', toPanel')
  <2>1. /\ io.channel.attempt <= io'.channel.attempt /\ io'.generation = io.generation
        /\ io'.channel.attempt = io.channel.attempt
    BY <1>3, <1>4 DEF SameChannel
  <2>2. io'.generation = GenerationOf(panel, io'.channel.attempt)
    BY <1>6, <2>1 DEF AttemptsInOrder
  <2>3. Told(toPanel, toPanel', io'.generation, io'.channel.attempt, io'.channel.state)
    BY <1>3, <1>5, <2>1
  <2> QED BY <1>1, <1>3, <1>6, <2>1, <2>2, <2>3, ToldInOrder
<1> QED BY <1>3, <1>5, <1>6 DEF Told

LEMMA OneState ==
  ASSUME NEW s \in ChannelStates
  PROVE  /\ <<s>> \in Seq(ChannelStates) /\ Len(<<s>>) = 1 /\ <<s>>[1] = s
         /\ <<s>>[Len(<<s>>)] = s
         /\ \A r \in ChannelStates : /\ <<r, s>> \in Seq(ChannelStates) /\ Len(<<r, s>>) = 2
                                     /\ <<r, s>>[Len(<<r, s>>)] = s
OBVIOUS

\* The frames and the attempts do not look at the state of the channel.
LEMMA SameWorker ==
  ASSUME NEW p, NEW w, NEW c, NEW d, NEW sent, SameChannel(c, d)
  PROVE  /\ AttemptsInOrder(p, w, c) => AttemptsInOrder(p, w, d)
         /\ FramesFollow(p, w, c, sent) => FramesFollow(p, w, d, sent)
BY DEF AttemptsInOrder, FramesFollow, SameChannel

LEMMA Moved ==
  ASSUME DebuggerInv, NEW s \in ChannelStates, MoveTo(s),
         tally' \in TallySet, tally'.crossed = tally.crossed, tally'.sent = tally.sent
  PROVE  DebuggerInv'
<1>1. DebuggerTypes
  BY DEF DebuggerInv
<1>2. /\ <<s>> \in Seq(ChannelStates) /\ Len(<<s>>) > 0 /\ Goes(<<s>>)
      /\ UNCHANGED <<panel, toWorker>>
  <2>1. <<s>> \in Seq(ChannelStates) /\ Len(<<s>>) = 1 /\ <<s>>[1] = s
    BY OneState
  <2> QED BY <2>1 DEF MoveTo, Goes
<1>3. /\ io' \in IoSet /\ SameChannel(io, io') /\ toPanel' \in Seq(EventSet)
      /\ AttemptsInOrder(panel, toWorker, io) /\ EventsInOrder(panel, io, toPanel) =>
           EventsInOrder(panel, io', toPanel')
  BY <1>1, <1>2, ChannelTells
<1>4. DebuggerTypes'
  BY <1>1, <1>2, <1>3 DEF DebuggerTypes
<1>5. ASSUME tally'.crossed = FALSE PROVE InOrder(panel, toWorker, io, toPanel, tally.sent)'
  <2>1. /\ AttemptsInOrder(panel, toWorker, io) /\ EventsInOrder(panel, io, toPanel)
        /\ FramesFollow(panel, toWorker, io, tally.sent) /\ NoButton(panel)
    BY <1>5 DEF DebuggerInv, InOrder
  <2>2. AttemptsInOrder(panel, toWorker, io') /\ FramesFollow(panel, toWorker, io', tally.sent)
    BY <1>3, <2>1, SameWorker
  <2> QED BY <1>2, <1>3, <2>1, <2>2 DEF InOrder
<1> QED BY <1>4, <1>5 DEF DebuggerInv

\* The channel goes on by itself.
LEMMA ChannelGoes ==
  ASSUME DebuggerInv, ChannelEnds \/ ChannelMoves
  PROVE  DebuggerInv'
<1>1. tally \in TallySet
  BY DEF DebuggerInv, DebuggerTypes
<1>2. tally' \in TallySet /\ tally'.crossed = tally.crossed /\ tally'.sent = tally.sent
  <2>1. tally.moves + 1 \in Nat
    BY <1>1 DEF TallySet
  <2>2. \A n \in Nat : LET t == [tally EXCEPT !.moves = n] IN
          t \in TallySet /\ t.crossed = tally.crossed /\ t.sent = tally.sent
    BY <1>1 DEF TallySet
  <2>3. tally' = tally \/ tally' = [tally EXCEPT !.moves = tally.moves + 1]
    BY DEF ChannelEnds, ChannelMoves
  <2>4. CASE tally' = tally
    BY <1>1, <2>4
  <2>5. CASE tally' = [tally EXCEPT !.moves = tally.moves + 1]
    BY <2>1, <2>2, <2>5
  <2> QED BY <2>3, <2>4, <2>5
<1>3. PICK s \in ChannelStates : MoveTo(s)
  BY DEF ChannelEnds, ChannelMoves, ChannelStates
<1> QED BY <1>2, <1>3, Moved

\* The worker takes a call.
LEMMA CallTaken ==
  ASSUME DebuggerInv, RunCall
  PROVE  /\ toWorker # <<>> /\ toWorker' = Tail(toWorker) /\ UNCHANGED panel
         /\ toWorker' \in Seq(CallSet) /\ Head(toWorker) = toWorker[1] /\ toWorker[1] \in CallSet
         /\ panel \in PanelSet /\ tally \in TallySet /\ io \in IoSet
         /\ toWorker \in Seq(CallSet) /\ toPanel \in Seq(EventSet)
<1>1. /\ panel \in PanelSet /\ tally \in TallySet /\ io \in IoSet
      /\ toWorker \in Seq(CallSet) /\ toPanel \in Seq(EventSet)
  BY DEF DebuggerInv, DebuggerTypes
<1>2. toWorker # <<>> /\ toWorker' = Tail(toWorker) /\ UNCHANGED panel
  BY DEF RunCall
<1> QED BY <1>1, <1>2, TailFacts

\* A disconnect reaches the channel.
LEMMA RunsClose ==
  ASSUME DebuggerInv, RunCall, toWorker[1].kind = "close", RunClose, UNCHANGED tally
  PROVE  DebuggerInv'
<1>1. /\ toWorker # <<>> /\ toWorker' = Tail(toWorker) /\ UNCHANGED panel
      /\ toWorker' \in Seq(CallSet)
      /\ panel \in PanelSet /\ tally \in TallySet /\ io \in IoSet
      /\ toWorker \in Seq(CallSet) /\ toPanel \in Seq(EventSet)
  BY CallTaken
<1>2. DebuggerTypes
  BY DEF DebuggerInv
<1>3. /\ io' \in IoSet /\ SameChannel(io, io') /\ toPanel' \in Seq(EventSet)
      /\ AttemptsInOrder(panel, toWorker, io) /\ EventsInOrder(panel, io, toPanel) =>
           EventsInOrder(panel, io', toPanel')
  <2>1. CASE UNCHANGED <<io, toPanel>>
    BY <1>1, <2>1 DEF SameChannel
  <2> DEFINE first == IF io.channel.state = "Closing" THEN <<>> ELSE <<"Closing">>
             both == first \o <<"Closed">>
  <2>2. \/ UNCHANGED <<io, toPanel>>
        \/ /\ io' = [io EXCEPT !.channel.state = "Closed"]
           /\ toPanel' = Emits(both, io.generation, io.channel.attempt)
        \/ /\ io' = [io EXCEPT !.channel.state = "Closing"]
           /\ toPanel' = Emits(<<"Closing">>, io.generation, io.channel.attempt)
    BY DEF RunClose
  <2>3. /\ <<"Closing">> \in Seq(ChannelStates) /\ Len(<<"Closing">>) > 0
        /\ <<"Closing">>[Len(<<"Closing">>)] = "Closing"
    <3>1. "Closing" \in ChannelStates
      BY DEF ChannelStates
    <3> QED BY <3>1, OneState
  <2>4. both \in Seq(ChannelStates) /\ Len(both) > 0 /\ both[Len(both)] = "Closed"
    <3>1. "Closed" \in ChannelStates
      BY DEF ChannelStates
    <3>2. first \in Seq(ChannelStates)
      BY <2>3
    <3> HIDE DEF first
    <3>3. both = first \o <<"Closed">>
      OBVIOUS
    <3> HIDE DEF both
    <3> QED BY <3>1, <3>2, <3>3, EndsWith
  <2> HIDE DEF first, both
  <2>5. CASE /\ io' = [io EXCEPT !.channel.state = "Closed"]
             /\ toPanel' = Emits(both, io.generation, io.channel.attempt)
    <3>1. Goes(both)
      BY <2>4, <2>5 DEF Goes
    <3> QED BY <1>2, <2>4, <3>1, ChannelTells
  <2>6. CASE /\ io' = [io EXCEPT !.channel.state = "Closing"]
             /\ toPanel' = Emits(<<"Closing">>, io.generation, io.channel.attempt)
    <3>1. Goes(<<"Closing">>)
      BY <2>3, <2>6 DEF Goes
    <3> QED BY <1>2, <2>3, <3>1, ChannelTells
  <2> QED BY <2>1, <2>2, <2>5, <2>6
<1>4. DebuggerTypes'
  BY <1>1, <1>3 DEF DebuggerTypes
<1>5. ASSUME tally'.crossed = FALSE PROVE InOrder(panel, toWorker, io, toPanel, tally.sent)'
  <2>1. /\ AttemptsInOrder(panel, toWorker, io) /\ EventsInOrder(panel, io, toPanel)
        /\ FramesFollow(panel, toWorker, io, tally.sent) /\ NoButton(panel)
    BY <1>5 DEF DebuggerInv, InOrder
  <2>2. AttemptsInOrder(panel, toWorker', io')
    BY <1>1, <1>3, <2>1, TakenInOrder
  <2>3. FramesFollow(panel, toWorker', io', tally.sent)
    BY <1>1, <1>3, <2>1, TakenFollows
  <2> QED BY <1>1, <1>3, <2>1, <2>2, <2>3 DEF InOrder
<1> QED BY <1>4, <1>5 DEF DebuggerInv


\* A frame reaches the channel: the one it was typed for, since nothing that was queued
\* before it began another.
LEMMA RunsWrite ==
  ASSUME DebuggerInv, RunCall, toWorker[1].kind = "write", RunWrite(toWorker[1]), UNCHANGED <<io, toPanel>>
  PROVE  DebuggerInv'
<1>1. /\ toWorker # <<>> /\ toWorker' = Tail(toWorker) /\ UNCHANGED panel
      /\ toWorker' \in Seq(CallSet)
      /\ panel \in PanelSet /\ tally \in TallySet /\ io \in IoSet
      /\ toWorker \in Seq(CallSet) /\ toPanel \in Seq(EventSet)
  BY CallTaken
<1> DEFINE pair == <<toWorker[1].attempt, io.channel.attempt>>
<1>2. 1 \in 1 .. Len(toWorker) /\ toWorker[1].attempt \in Nat
  BY <1>1, TailFacts, CallsTyped
<1>3. pair \in Nat \X Nat /\ pair[1] = toWorker[1].attempt /\ pair[2] = io.channel.attempt
  BY <1>1, <1>2 DEF IoSet
<1>4. tally' = tally \/ tally' = [tally EXCEPT !.sent = tally.sent \cup {pair}]
  BY DEF RunWrite
<1> HIDE DEF pair
<1>5. /\ tally' \in TallySet /\ tally'.crossed = tally.crossed
      /\ tally'.sent = tally.sent \/ tally'.sent = tally.sent \cup {pair}
  BY SMTT(20), <1>1, <1>3, <1>4 DEF TallySet
<1>6. DebuggerTypes'
  BY <1>1, <1>5 DEF DebuggerTypes
<1>7. ASSUME tally'.crossed = FALSE PROVE InOrder(panel, toWorker, io, toPanel, tally.sent)'
  <2>1. /\ AttemptsInOrder(panel, toWorker, io) /\ EventsInOrder(panel, io, toPanel)
        /\ FramesFollow(panel, toWorker, io, tally.sent) /\ NoButton(panel)
    BY <1>5, <1>7 DEF DebuggerInv, InOrder
  <2>2. AttemptsInOrder(panel, toWorker', io) /\ FramesFollow(panel, toWorker', io, tally.sent)
    <3>1. SameChannel(io, io)
      BY DEF SameChannel
    <3>2. toWorker[1].kind # "open"
      OBVIOUS
    <3>3. AttemptsInOrder(panel, toWorker', io)
      BY <1>1, <2>1, <3>1, <3>2, TakenInOrder
    <3>4. FramesFollow(panel, toWorker', io, tally.sent)
      BY <1>1, <2>1, <3>1, TakenFollows
    <3> QED BY <3>3, <3>4
  <2>3. FramesFollow(panel, toWorker', io, tally'.sent)
    <3>1. panel.proto # "udp" \/ panel.attempt = 0 => pair[1] = pair[2]
      BY <1>2, <1>3, <2>1 DEF FramesFollow
    <3> QED BY <1>5, <2>2, <3>1 DEF FramesFollow
  <2> QED BY <1>1, <2>1, <2>2, <2>3 DEF InOrder
<1> QED BY <1>6, <1>7 DEF DebuggerInv

\* What an open() may emit are states of a channel.
LEMMA OpenStates ==
  ASSUME NEW states \in {<<"Opening">>, <<"Opening", "Open">>, <<"Error">>, <<"Opening", "Error">>}
  PROVE  states \in Seq(ChannelStates) /\ Len(states) > 0 /\ states[Len(states)] \in ChannelStates
<1>1. "Opening" \in ChannelStates /\ "Open" \in ChannelStates /\ "Error" \in ChannelStates
  BY DEF ChannelStates
<1>2. CASE states = <<"Opening">> BY <1>1, <1>2, OneState
<1>3. CASE states = <<"Opening", "Open">> BY <1>1, <1>3, OneState
<1>4. CASE states = <<"Error">> BY <1>1, <1>4, OneState
<1>5. CASE states = <<"Opening", "Error">> BY <1>1, <1>5, OneState
<1> QED BY <1>2, <1>3, <1>4, <1>5

\* An attempt reaches the worker: the view is not connected and no frame is queued.
LEMMA RunsOpen ==
  ASSUME DebuggerInv, RunCall, toWorker[1].kind = "open", RunOpen(toWorker[1]), UNCHANGED tally
  PROVE  DebuggerInv'
<1> DEFINE call == toWorker[1]
           g == IF call.proto = "udp" THEN io.generation ELSE call.generation
<1>1. /\ toWorker # <<>> /\ toWorker' = Tail(toWorker) /\ UNCHANGED panel
      /\ toWorker' \in Seq(CallSet)
      /\ panel \in PanelSet /\ tally \in TallySet /\ io \in IoSet
      /\ toWorker \in Seq(CallSet) /\ toPanel \in Seq(EventSet)
  BY CallTaken
<1>2. /\ Len(toWorker) \in Nat /\ Len(toWorker) > 0 /\ 1 \in 1 .. Len(toWorker)
      /\ Len(toWorker') = Len(toWorker) - 1
      /\ \A i \in 1 .. Len(toWorker') : toWorker'[i] = toWorker[i + 1] /\ i + 1 \in 1 .. Len(toWorker)
  BY <1>1, TailFacts
<1>3. call \in CallSet /\ call.attempt \in Nat /\ call.generation \in Nat /\ call.proto \in Protocols
  <2>1. call \in CallSet
    BY <1>1, <1>2
  <2> QED BY <2>1 DEF CallSet
<1>4. g \in Nat /\ io.channel.attempt \in Nat
  BY <1>1, <1>3 DEF IoSet
<1>5. PICK states \in {<<"Opening">>, <<"Opening", "Open">>, <<"Error">>, <<"Opening", "Error">>} :
        /\ io' = [generation |-> g,
                  channel |-> [state |-> states[Len(states)], attempt |-> call.attempt, kind |-> call.proto]]
        /\ toPanel' = Emits(states, g, call.attempt)
  BY DEF RunOpen, Last
<1>6. states \in Seq(ChannelStates) /\ Len(states) > 0 /\ states[Len(states)] \in ChannelStates
  BY <1>5, OpenStates
<1> HIDE DEF call, g
<1>7. /\ io' \in IoSet /\ io'.generation = g /\ io'.channel.attempt = call.attempt
      /\ io'.channel.state = states[Len(states)]
  BY <1>3, <1>4, <1>5, <1>6 DEF IoSet
<1>8. Told(toPanel, toPanel', g, call.attempt, states[Len(states)])
  <2>1. toPanel' = toPanel \o Batch(states, g, call.attempt)
    BY <1>5 DEF Emits, Batch
  <2> QED BY <1>1, <1>3, <1>4, <1>6, <2>1, BatchFacts
<1>9. DebuggerTypes'
  BY <1>1, <1>7, <1>8 DEF DebuggerTypes, Told
<1>10. ASSUME tally'.crossed = FALSE PROVE InOrder(panel, toWorker, io, toPanel, tally.sent)'
  <2>1. /\ AttemptsInOrder(panel, toWorker, io) /\ EventsInOrder(panel, io, toPanel)
        /\ FramesFollow(panel, toWorker, io, tally.sent) /\ NoButton(panel)
    BY <1>10 DEF DebuggerInv, InOrder
  <2>2. /\ call.proto = panel.proto /\ io.channel.attempt < call.attempt
        /\ call.attempt <= panel.attempt
        /\ call.generation = GenerationOf(panel, call.attempt)
    BY <1>2, <2>1 DEF AttemptsInOrder, call
  <2>3. g = GenerationOf(panel, call.attempt)
    BY <2>1, <2>2 DEF AttemptsInOrder, GenerationOf, g
  <2>4. panel.attempt \in Nat
    BY <1>1 DEF PanelSet
  <2>5. AttemptsInOrder(panel, toWorker', io')
    <3>1. ASSUME NEW i \in 1 .. Len(toWorker'), toWorker'[i].kind = "open"
          PROVE  /\ toWorker'[i].proto = panel.proto
                 /\ io'.channel.attempt < toWorker'[i].attempt
                 /\ toWorker'[i].attempt <= panel.attempt
                 /\ toWorker'[i].generation = GenerationOf(panel, toWorker'[i].attempt)
      <4>1. toWorker'[i] = toWorker[i + 1] /\ i + 1 \in 1 .. Len(toWorker) /\ 1 < i + 1
        BY <1>2
      <4>2. toWorker[1].attempt < toWorker[i + 1].attempt
        BY <1>2, <2>1, <3>1, <4>1 DEF AttemptsInOrder
      <4>3. io'.channel.attempt < toWorker'[i].attempt
        BY <1>7, <4>1, <4>2 DEF call
      <4> QED BY <2>1, <3>1, <4>1, <4>3 DEF AttemptsInOrder
    <3>2. \A i, j \in 1 .. Len(toWorker') :
            i < j /\ toWorker'[i].kind = "open" /\ toWorker'[j].kind = "open" =>
              toWorker'[i].attempt < toWorker'[j].attempt
      <4>1. \A i, j \in 1 .. Len(toWorker') : i < j => i + 1 < j + 1
        BY <1>2
      <4> QED BY <1>2, <2>1, <4>1 DEF AttemptsInOrder
    <3>3. \/ io'.channel.attempt = panel.attempt
          \/ \E i \in 1 .. Len(toWorker') : toWorker'[i].kind = "open" /\ toWorker'[i].attempt = panel.attempt
      <4> SUFFICES ASSUME call.attempt # panel.attempt
                   PROVE  \E i \in 1 .. Len(toWorker') :
                            toWorker'[i].kind = "open" /\ toWorker'[i].attempt = panel.attempt
        BY <1>7
      <4>1. io.channel.attempt # panel.attempt
        BY <1>3, <1>4, <2>2, <2>4
      <4>2. PICK i \in 1 .. Len(toWorker) : toWorker[i].kind = "open" /\ toWorker[i].attempt = panel.attempt
        BY <2>1, <4>1 DEF AttemptsInOrder
      <4>3. i # 1
        BY <4>2 DEF call
      <4>4. i - 1 \in 1 .. Len(toWorker') /\ (i - 1) + 1 = i
        BY <1>2, <4>3
      <4>5. toWorker'[i - 1] = toWorker[i]
        BY <1>2, <4>4
      <4> QED BY <4>2, <4>4, <4>5
    <3>4. io'.generation = GenerationOf(panel, io'.channel.attempt) /\ io'.channel.attempt <= panel.attempt
      BY <1>7, <2>2, <2>3
    <3>5. panel.generation = GenerationOf(panel, panel.attempt)
      BY <2>1 DEF AttemptsInOrder
    <3> QED BY <3>1, <3>2, <3>3, <3>4, <3>5 DEF AttemptsInOrder
  <2>6. EventsInOrder(panel, io', toPanel')
    <3>1. io.channel.attempt <= io'.channel.attempt /\ io'.generation = GenerationOf(panel, io'.channel.attempt)
      BY <1>3, <1>4, <1>7, <2>2, <2>3
    <3>2. Told(toPanel, toPanel', io'.generation, io'.channel.attempt, io'.channel.state)
      BY <1>7, <1>8
    <3> QED BY <1>1, <1>7, <2>1, <3>1, <3>2, ToldInOrder
  <2>7. FramesFollow(panel, toWorker', io', tally.sent)
    <3> SUFFICES ASSUME panel.proto # "udp" \/ panel.attempt = 0
                 PROVE  FramesFollow(panel, toWorker', io', tally.sent)
      BY DEF FramesFollow
    <3>1. panel.connected # TRUE
      <4>1. io.channel.attempt # panel.attempt
        BY <1>3, <1>4, <2>2, <2>4
      <4> QED BY <2>1, <4>1 DEF FramesFollow
    <3>2. \A i \in 1 .. Len(toWorker') : toWorker'[i].kind # "write"
      <4> SUFFICES ASSUME NEW i \in 1 .. Len(toWorker'), toWorker'[i].kind = "write" PROVE FALSE
        OBVIOUS
      <4>1. toWorker'[i] = toWorker[i + 1] /\ i + 1 \in 1 .. Len(toWorker) /\ 1 < i + 1
        BY <1>2
      <4> QED BY <1>2, <2>1, <4>1 DEF FramesFollow
    <3> QED BY <2>1, <3>1, <3>2 DEF FramesFollow
  <2> QED BY <1>1, <2>1, <2>5, <2>6, <2>7 DEF InOrder
<1> QED BY <1>9, <1>10 DEF DebuggerInv


\* The view hears of a state: of its own attempt, and then the worker is at that attempt
\* too, or of one before it, which it leaves alone.
LEMMA ViewHears ==
  ASSUME DebuggerInv, Hear
  PROVE  DebuggerInv'
<1> DEFINE e == toPanel[1]
           shown == [panel.display EXCEPT ![Widget(panel.proto)] = Display(e.state)]
<1>1. /\ panel \in PanelSet /\ tally \in TallySet /\ io \in IoSet
      /\ toWorker \in Seq(CallSet) /\ toPanel \in Seq(EventSet)
      /\ toPanel # <<>> /\ toPanel' = Tail(toPanel) /\ UNCHANGED <<toWorker, io, tally>>
  BY DEF DebuggerInv, DebuggerTypes, Hear
<1>2. /\ toPanel' \in Seq(EventSet) /\ Len(toPanel) \in Nat /\ Len(toPanel) > 0
      /\ Len(toPanel') = Len(toPanel) - 1 /\ Head(toPanel) = e /\ 1 \in 1 .. Len(toPanel)
      /\ \A i \in 1 .. Len(toPanel') : toPanel'[i] = toPanel[i + 1] /\ i + 1 \in 1 .. Len(toPanel)
  BY <1>1, TailFacts
<1>3. e.attempt \in Nat /\ e.generation \in Nat /\ e.state \in ChannelStates
  <2>1. e \in EventSet
    BY <1>1, <1>2
  <2> QED BY <2>1 DEF EventSet
<1>4. \/ /\ e.generation = panel.generation
         /\ panel' = [panel EXCEPT !.connected = (e.state = "Open"), !.display = shown,
                                   !.shows = IF e.state = "Open" THEN e.attempt ELSE 0]
      \/ e.generation # panel.generation /\ panel' = panel
  BY <1>2 DEF Hear, Show
<1>5. /\ shown \in [Protocols -> {"Disconnected", "Connecting", "Connected", "Disconnecting"}]
      /\ e.state = "Open" => shown[Widget(panel.proto)] = "Connected"
  <2>1. /\ Display(e.state) \in {"Disconnected", "Connecting", "Connected", "Disconnecting"}
        /\ e.state = "Open" => Display(e.state) = "Connected"
    BY <1>3 DEF Display
  <2>2. Widget(panel.proto) \in Protocols
    BY <1>1 DEF Widget, PanelSet, Protocols, NetworkPages
  <2> QED BY <1>1, <2>1, <2>2 DEF PanelSet
<1> HIDE DEF shown
<1>6. e.generation = panel.generation =>
        /\ panel' \in PanelSet /\ SameAttempt(panel, panel')
        /\ panel'.connected = TRUE <=> e.state = "Open"
        /\ e.state = "Open" => panel'.shows = e.attempt
        /\ panel'.display = shown
  <2> SUFFICES ASSUME e.generation = panel.generation
               PROVE  /\ panel' \in PanelSet /\ SameAttempt(panel, panel')
                      /\ panel'.connected = TRUE <=> e.state = "Open"
                      /\ e.state = "Open" => panel'.shows = e.attempt
                      /\ panel'.display = shown
    OBVIOUS
  <2> HIDE DEF e
  <2>1. CASE e.state = "Open"
    <3>1. panel' = [panel EXCEPT !.connected = TRUE, !.display = shown, !.shows = e.attempt]
      BY <1>4, <2>1
    <3> QED BY <1>1, <1>3, <1>5, <2>1, <3>1 DEF PanelSet, SameAttempt
  <2>2. CASE e.state # "Open"
    <3>1. panel' = [panel EXCEPT !.connected = FALSE, !.display = shown, !.shows = 0]
      BY <1>4, <2>2
    <3> QED BY <1>1, <1>3, <1>5, <2>2, <3>1 DEF PanelSet, SameAttempt
  <2> QED BY <2>1, <2>2
<1>7. panel' \in PanelSet /\ SameAttempt(panel, panel')
  BY <1>1, <1>4, <1>6 DEF SameAttempt
<1>8. DebuggerTypes'
  BY <1>1, <1>2, <1>7 DEF DebuggerTypes
<1>9. ASSUME tally'.crossed = FALSE PROVE InOrder(panel, toWorker, io, toPanel, tally.sent)'
  <2>1. /\ AttemptsInOrder(panel, toWorker, io) /\ EventsInOrder(panel, io, toPanel)
        /\ FramesFollow(panel, toWorker, io, tally.sent) /\ NoButton(panel)
    BY <1>1, <1>9 DEF DebuggerInv, InOrder
  <2>2. /\ e.attempt <= io.channel.attempt /\ e.generation = GenerationOf(panel, e.attempt)
        /\ io.channel.attempt <= panel.attempt /\ panel.generation = GenerationOf(panel, panel.attempt)
    BY <1>2, <2>1 DEF AttemptsInOrder, EventsInOrder
  <2>3. io.channel.attempt \in Nat /\ panel.attempt \in Nat
    BY <1>1 DEF IoSet, PanelSet
  <2>4. \A n : GenerationOf(panel', n) = GenerationOf(panel, n)
    BY <1>7 DEF GenerationOf, SameAttempt
  <2>5. Len(toPanel') = 0 =>
          Len(toPanel) = 1 /\ e.attempt = io.channel.attempt /\ (e.state = "Open" <=> io.channel.state = "Open")
    <3> SUFFICES ASSUME Len(toPanel') = 0
                 PROVE  Len(toPanel) = 1 /\ e.attempt = io.channel.attempt
                        /\ (e.state = "Open" <=> io.channel.state = "Open")
      OBVIOUS
    <3>1. Len(toPanel) = 1
      BY <1>2
    <3> QED BY <2>1, <3>1 DEF EventsInOrder
  <2> HIDE DEF e
  <2>6. AttemptsInOrder(panel', toWorker, io)
    BY <1>7, <2>1, <2>4 DEF AttemptsInOrder, SameAttempt
  <2>7. EventsInOrder(panel', io, toPanel')
    <3>1. \A i \in 1 .. Len(toPanel') : toPanel'[i].attempt <= io.channel.attempt
            /\ toPanel'[i].generation = GenerationOf(panel', toPanel'[i].attempt)
      BY <1>2, <2>1, <2>4 DEF EventsInOrder
    <3>2. Len(toPanel') > 0 =>
            /\ toPanel'[Len(toPanel')].attempt = io.channel.attempt
            /\ toPanel'[Len(toPanel')].state = "Open" <=> io.channel.state = "Open"
      <4> SUFFICES ASSUME Len(toPanel') > 0
                   PROVE  /\ toPanel'[Len(toPanel')].attempt = io.channel.attempt
                          /\ toPanel'[Len(toPanel')].state = "Open" <=> io.channel.state = "Open"
        OBVIOUS
      <4>1. Len(toPanel') \in 1 .. Len(toPanel') /\ Len(toPanel') + 1 = Len(toPanel)
        BY <1>2
      <4>2. toPanel'[Len(toPanel')] = toPanel[Len(toPanel)]
        BY <1>2, <4>1
      <4> QED BY <1>2, <2>1, <4>2 DEF EventsInOrder
    <3>3. ASSUME Len(toPanel') = 0, io.channel.attempt = panel'.attempt
          PROVE  panel'.connected = TRUE <=> io.channel.state = "Open"
      <4>1. e.attempt = panel.attempt
        BY <1>7, <2>5, <3>3 DEF SameAttempt
      <4>2. e.generation = panel.generation
        BY <2>2, <4>1
      <4> QED BY <1>6, <2>5, <3>3, <4>2
    <3> QED BY <3>1, <3>2, <3>3 DEF EventsInOrder
  <2>8. FramesFollow(panel', toWorker, io, tally.sent)
    <3> SUFFICES ASSUME panel.proto # "udp" \/ panel.attempt = 0
                 PROVE  FramesFollow(panel', toWorker, io, tally.sent)
      BY <1>7 DEF FramesFollow, SameAttempt
    <3>1. panel'.connected = TRUE =>
            panel'.shows = panel'.attempt /\ io.channel.attempt = panel'.attempt
      <4>1. CASE e.generation = panel.generation
        <5> SUFFICES ASSUME panel'.connected = TRUE
                     PROVE  panel'.shows = panel'.attempt /\ io.channel.attempt = panel'.attempt
          OBVIOUS
        <5>1. panel'.shows = e.attempt
          BY <1>6, <4>1
        <5>2. e.attempt = panel.attempt
          <6>1. CASE panel.proto # "udp"
            BY <2>2, <4>1, <6>1 DEF GenerationOf
          <6>2. CASE panel.attempt = 0
            BY <1>3, <2>2, <2>3, <6>2
          <6> QED BY <6>1, <6>2
        <5>3. io.channel.attempt = panel.attempt
          BY <1>3, <2>2, <2>3, <5>2
        <5> QED BY <1>7, <5>1, <5>2, <5>3 DEF SameAttempt
      <4>2. CASE e.generation # panel.generation
        BY <1>4, <2>1, <4>2 DEF FramesFollow
      <4> QED BY <4>1, <4>2
    <3> QED BY <2>1, <3>1 DEF FramesFollow
  <2>9. NoButton(panel')
    BY <1>4, <1>5, <1>6, <1>7, <2>1 DEF NoButton, SameAttempt
  <2> QED BY <1>1, <2>6, <2>7, <2>8, <2>9 DEF InOrder
<1> QED BY <1>8, <1>9 DEF DebuggerInv

LEMMA DebuggerNextInv == DebuggerInv /\ [DebuggerNext]_debuggerVars => DebuggerInv'
<1> SUFFICES ASSUME DebuggerInv, [DebuggerNext]_debuggerVars PROVE DebuggerInv'
  OBVIOUS
<1>1. CASE UNCHANGED debuggerVars
  BY <1>1 DEF debuggerVars, DebuggerInv, DebuggerTypes, InOrder
<1>2. CASE RunCall
  <2>1. toWorker # <<>> /\ Head(toWorker) = toWorker[1]
    BY <1>2, CallTaken
  <2>2. \/ toWorker[1].kind = "open" /\ RunOpen(toWorker[1]) /\ UNCHANGED tally
        \/ toWorker[1].kind = "close" /\ RunClose /\ UNCHANGED tally
        \/ toWorker[1].kind = "write" /\ UNCHANGED <<io, toPanel>> /\ RunWrite(toWorker[1])
    BY <1>2, <2>1 DEF RunCall
  <2> QED BY <1>2, <2>2, RunsOpen, RunsClose, RunsWrite
<1> QED
  BY <1>1, <1>2, ProtocolChanges, ServerWrites, UserConnects, UserDisconnects, UserSends, ChannelGoes, ViewHears
  DEF DebuggerNext

\* One connection is never mistaken for another: with a generation for each attempt the
\* view shows the latest, and a frame goes out on the connection it was typed for, however
\* many calls and states are on their way between the two threads.  While the protocol
\* does not change after an attempt and the server writes nothing into isConnected_, view
\* and worker agree once both queues are empty
\* (NetworkDebuggerView.cpp, GenericChannelViewBase.cpp, ChannelOperationWorker.cpp).
THEOREM NeverMistaken == DebuggerSpec => []ConnectionsKeptApart
<1>1. DebuggerInv => ConnectionsKeptApart
  <2> SUFFICES ASSUME DebuggerInv PROVE ConnectionsKeptApart
    OBVIOUS
  <2>1. /\ panel \in PanelSet /\ tally \in TallySet
        /\ toWorker \in Seq(CallSet) /\ toPanel \in Seq(EventSet)
    BY DEF DebuggerInv, DebuggerTypes
  <2>2. (panel.connected = TRUE <=> panel.connected) /\ (tally.crossed = FALSE <=> ~tally.crossed)
    <3>1. panel.connected \in BOOLEAN
      BY <2>1 DEF PanelSet
    <3>2. tally.crossed \in BOOLEAN
      BY <2>1 DEF TallySet
    <3> QED BY <3>1, <3>2
  <2>3. ASSUME ~tally.crossed, panel.proto # "udp" PROVE ShowsLatest /\ SentWhereTyped
    BY <2>2, <2>3 DEF DebuggerInv, InOrder, FramesFollow, ShowsLatest, SentWhereTyped
  <2>4. ASSUME ~tally.crossed, toWorker = <<>>, toPanel = <<>>
        PROVE  panel.connected <=> io.channel.state = "Open"
    <3>1. /\ AttemptsInOrder(panel, toWorker, io) /\ EventsInOrder(panel, io, toPanel)
          /\ Len(toWorker) = 0 /\ Len(toPanel) = 0
      BY <2>2, <2>4 DEF DebuggerInv, InOrder
    <3>2. io.channel.attempt = panel.attempt
      BY <3>1 DEF AttemptsInOrder
    <3> QED BY <2>2, <3>1, <3>2 DEF EventsInOrder
  <2> QED BY <2>3, <2>4 DEF ConnectionsKeptApart, EachHasGeneration, DebuggerAgrees
<1> QED BY <1>1, DebuggerInitInv, DebuggerNextInv, PTL DEF DebuggerSpec

-----------------------------------------------------------------------------
(* The frame analyzer.  Types first. *)

ResultSet ==
  [src : {"none", "live", "parse", "again", "history"}, id : Nat, text : Texts, valid : BOOLEAN]

LiveSet == [src : {"none", "live"}, id : Nat, text : Texts, valid : BOOLEAN]

AnswerSet == [src : {"parse"}, id : Nat, text : Texts, valid : BOOLEAN]

RequestSet == [kind : {"enqueue"}, id : Nat, text : Texts]

ParserCalls == RequestSet \cup [kind : {"process"}]

ViewSet ==
  [input : Texts, addressOk : BOOLEAN, latest : Nat, parsing : BOOLEAN, current : ResultSet,
   shown : ResultSet, lastLive : LiveSet, live : BOOLEAN, paused : BOOLEAN, history : Seq(ResultSet)]

LinkSet == [state : {"Idle", "Live", "Paused"}, buffered : Nat, count : Nat]

AnalyzerTypes ==
  /\ view \in ViewSet /\ link \in LinkSet
  /\ toParser \in Seq(ParserCalls) /\ toView \in Seq(AnswerSet)
  /\ parser \in [pending : RequestSet, processing : BOOLEAN]

\* What view v has of the link, whose newest response is n.
LinkShown(v, state, n) ==
  /\ v.live = TRUE => state # "Idle" /\ (v.paused = TRUE <=> state = "Paused")
  /\ state # "Idle" => v.lastLive.id = n

FrameShown(v, text) == v.shown.src = "parse" => v.shown.text = text

\* A request x is the latest, and then for what was asked last, or it was overtaken.
Known(x, latest, text) == x.id <= latest /\ (x.id = latest => x.text = text)

CallsKnown(q, latest, text) ==
  \A i \in 1 .. Len(q) : q[i].kind = "enqueue" => Known(q[i], latest, text)

AnswersKnown(q, latest, text) == \A i \in 1 .. Len(q) : Known(q[i], latest, text)

PendingKnown(x, latest, text) == x.id # 0 => Known(x, latest, text)

RequestsKnown(latest, text) ==
  /\ CallsKnown(toParser, latest, text) /\ AnswersKnown(toView, latest, text)
  /\ PendingKnown(parser.pending, latest, text)

AnalyzerInv ==
  /\ AnalyzerTypes
  /\ FrameShown(view, asked) /\ LinkShown(view, link.state, arrived)
  /\ RequestsKnown(view.latest, asked)

\* A request is no longer the latest once there is one more, whatever that is for.
LEMMA Overtaken ==
  ASSUME NEW latest \in Nat, NEW more \in Nat, latest < more, NEW text, NEW other
  PROVE  /\ \A x \in RequestSet \cup AnswerSet : Known(x, latest, text) => Known(x, more, other)
         /\ \A q \in Seq(AnswerSet) : AnswersKnown(q, latest, text) => AnswersKnown(q, more, other)
         /\ \A q \in Seq(ParserCalls) : CallsKnown(q, latest, text) => CallsKnown(q, more, other)
         /\ \A x \in RequestSet : PendingKnown(x, latest, text) => PendingKnown(x, more, other)
<1>1. \A x : x.id \in Nat /\ Known(x, latest, text) => Known(x, more, other)
  BY DEF Known
<1>2. \A x \in RequestSet \cup AnswerSet : x.id \in Nat
  BY DEF RequestSet, AnswerSet
<1>3. ASSUME NEW q \in Seq(AnswerSet), AnswersKnown(q, latest, text) PROVE AnswersKnown(q, more, other)
  <2>1. \A i \in 1 .. Len(q) : q[i] \in AnswerSet
    OBVIOUS
  <2> QED BY <1>1, <1>2, <1>3, <2>1 DEF AnswersKnown
<1>4. ASSUME NEW q \in Seq(ParserCalls), CallsKnown(q, latest, text) PROVE CallsKnown(q, more, other)
  <2>1. \A i \in 1 .. Len(q) : q[i] \in ParserCalls
    OBVIOUS
  <2>2. \A x \in ParserCalls : x.kind = "enqueue" => x \in RequestSet
    BY DEF ParserCalls
  <2> QED BY <1>1, <1>2, <1>4, <2>1, <2>2 DEF CallsKnown
<1> QED BY <1>1, <1>2, <1>3, <1>4 DEF PendingKnown

-----------------------------------------------------------------------------
(* The operations of the view. *)

\* A view that has left live mode and shows no parsed frame.
ViewCleared(v, w) ==
  /\ w \in ViewSet /\ w.live = FALSE /\ w.lastLive = v.lastLive /\ w.shown.src # "parse"

\* What an operation that only shows another result leaves alone.
Likewise(v, w) ==
  /\ w \in ViewSet /\ w.live = v.live /\ w.paused = v.paused /\ w.lastLive = v.lastLive
  /\ w.latest = v.latest

LEMMA ResultsTyped ==
  /\ Blank \in Texts /\ NoResult \in ResultSet /\ NoResult \in LiveSet /\ NoResult.src = "none"
  /\ LiveSet \subseteq ResultSet /\ AnswerSet \subseteq ResultSet
  /\ \A n \in Nat : LiveResult(n) \in LiveSet /\ LiveResult(n).id = n /\ LiveResult(n).src = "live"
                    /\ LiveResult(n).valid = TRUE
<1>1. Blank \in Texts
  BY DEF Texts
<1>2. NoResult \in ResultSet /\ NoResult \in LiveSet /\ NoResult.src = "none"
  BY <1>1 DEF NoResult, ResultSet, LiveSet
<1>3. LiveSet \subseteq ResultSet /\ AnswerSet \subseteq ResultSet
  BY DEF LiveSet, ResultSet, AnswerSet
<1>4. \A n \in Nat : LiveResult(n) \in LiveSet /\ LiveResult(n).id = n /\ LiveResult(n).src = "live"
                     /\ LiveResult(n).valid = TRUE
  BY <1>1 DEF LiveResult, LiveSet
<1> QED BY <1>1, <1>2, <1>3, <1>4

LEMMA Renders ==
  ASSUME NEW v \in ViewSet, NEW r \in ResultSet, NEW w, w = RenderResult(v, r)
  PROVE  /\ Likewise(v, w) /\ w.shown.src \in {r.src, "none"} /\ (w.shown.src = r.src /\ r.src # "none" => w.shown = r)
         /\ w.input = v.input /\ w.addressOk = v.addressOk /\ w.history = v.history
<1> DEFINE s == IF r.valid THEN r ELSE NoResult
<1>1. s \in ResultSet /\ (s = r \/ s = NoResult)
  BY ResultsTyped
<1>2. w = [v EXCEPT !.shown = s]
  BY DEF RenderResult
<1> HIDE DEF s
<1>3. /\ w \in ViewSet /\ w.live = v.live /\ w.paused = v.paused /\ w.lastLive = v.lastLive
      /\ w.latest = v.latest /\ w.shown = s
      /\ w.input = v.input /\ w.addressOk = v.addressOk /\ w.history = v.history
  BY <1>1, <1>2 DEF ViewSet
<1>4. w.shown.src \in {r.src, "none"} /\ (w.shown.src = r.src /\ r.src # "none" => w.shown = r)
  BY <1>1, <1>3, ResultsTyped
<1> QED BY <1>3, <1>4 DEF Likewise

LEMMA Clears ==
  ASSUME NEW v \in ViewSet, NEW w, w = ClearResult(v)
  PROVE  /\ ViewCleared(v, w) /\ w.latest = v.latest
         /\ w.input = v.input /\ w.addressOk = v.addressOk
<1> DEFINE off == [v EXCEPT !.live = FALSE, !.paused = FALSE, !.shown = NoResult]
<1>1. /\ off \in ViewSet /\ off.live = FALSE /\ off.lastLive = v.lastLive /\ off.shown = NoResult
      /\ off.latest = v.latest /\ off.input = v.input /\ off.addressOk = v.addressOk
  BY ResultsTyped DEF ViewSet
<1>2. w = off \/ w = RenderResult(off, v.lastLive)
  BY DEF ClearResult
<1> HIDE DEF off
<1>3. v.lastLive \in ResultSet /\ v.lastLive.src \in {"none", "live"}
  <2>1. v.lastLive \in LiveSet
    BY DEF ViewSet
  <2>2. v.lastLive.src \in {"none", "live"}
    BY <2>1 DEF LiveSet
  <2> QED BY <2>1, <2>2, ResultsTyped
<1>4. CASE w = off
  BY <1>1, <1>4, ResultsTyped DEF ViewCleared
<1>5. CASE w = RenderResult(off, v.lastLive)
  <2>1. /\ Likewise(off, w) /\ w.shown.src \in {v.lastLive.src, "none"}
        /\ w.input = off.input /\ w.addressOk = off.addressOk
    BY <1>1, <1>3, <1>5, Renders
  <2> QED BY <1>1, <1>3, <2>1 DEF Likewise, ViewCleared
<1> QED BY <1>2, <1>4, <1>5

LEMMA StartsParse ==
  ASSUME NEW v \in ViewSet, NEW w, w = StartParse(v)
  PROVE  /\ ViewCleared(v, w) /\ w.input = v.input /\ w.addressOk = v.addressOk
         /\ Acceptable(v) => w.latest = v.latest + 1
         /\ ~Acceptable(v) => w.latest = v.latest
<1> DEFINE off == ClearResult(v)
<1>1. ViewCleared(v, off) /\ off.latest = v.latest /\ off.input = v.input /\ off.addressOk = v.addressOk
  BY Clears
<1>2. IF Acceptable(v) THEN w = [off EXCEPT !.latest = off.latest + 1, !.parsing = TRUE] ELSE w = off
  BY DEF StartParse
<1>3. off \in ViewSet
  BY <1>1 DEF ViewCleared
<1> HIDE DEF off
<1>4. CASE Acceptable(v)
  <2> DEFINE m == off.latest + 1
  <2>1. m \in Nat /\ w = [off EXCEPT !.latest = m, !.parsing = TRUE]
    BY <1>2, <1>3, <1>4 DEF ViewSet
  <2>2. m = v.latest + 1
    BY <1>1
  <2> HIDE DEF m
  <2>4. /\ w \in ViewSet /\ w.latest = m /\ w.live = off.live /\ w.lastLive = off.lastLive
        /\ w.shown = off.shown /\ w.input = off.input /\ w.addressOk = off.addressOk
    BY <1>3, <2>1 DEF ViewSet
  <2> QED BY <1>1, <1>4, <2>2, <2>4 DEF ViewCleared
<1>5. CASE ~Acceptable(v)
  BY <1>1, <1>2, <1>5
<1> QED BY <1>4, <1>5

LEMMA ClearedTwice ==
  ASSUME NEW u, NEW v, NEW w, ViewCleared(v, w), v.lastLive = u.lastLive
  PROVE  ViewCleared(u, w)
BY DEF ViewCleared

\* A view that was cleared agrees with a link that did not move.
LEMMA ClearedAgrees ==
  ASSUME NEW v, NEW w, ViewCleared(v, w), NEW state, NEW n, LinkShown(v, state, n), NEW text
  PROVE  LinkShown(w, state, n) /\ FrameShown(w, text)
BY DEF ViewCleared, LinkShown, FrameShown

LEMMA LikewiseAgrees ==
  ASSUME NEW v, NEW w, Likewise(v, w), NEW state, NEW n, LinkShown(v, state, n)
  PROVE  LinkShown(w, state, n)
BY DEF Likewise, LinkShown

\* A request for what was asked is queued.
LEMMA QueuedKnown ==
  ASSUME NEW q \in Seq(ParserCalls), NEW t \in Seq(ParserCalls), NEW latest, NEW text,
         CallsKnown(q, latest, text), CallsKnown(t, latest, text), NEW u, u = q \o t
  PROVE  u \in Seq(ParserCalls) /\ CallsKnown(u, latest, text)
<1>1. /\ u \in Seq(ParserCalls) /\ Len(q) \in Nat /\ Len(t) \in Nat /\ Len(u) = Len(q) + Len(t)
      /\ \A i \in 1 .. Len(q) : u[i] = q[i]
      /\ \A i \in 1 .. Len(u) : i > Len(q) => u[i] = t[i - Len(q)] /\ i - Len(q) \in 1 .. Len(t)
  BY ConcatFacts
<1>2. \A i \in 1 .. Len(u) : i > Len(q) \/ i \in 1 .. Len(q)
  BY <1>1
<1> QED BY <1>1, <1>2 DEF CallsKnown

\* What the facts below need of the invariant, in one place.
LEMMA AnalyzerFacts ==
  ASSUME AnalyzerInv
  PROVE  /\ view \in ViewSet /\ link \in LinkSet
         /\ toParser \in Seq(ParserCalls) /\ toView \in Seq(AnswerSet)
         /\ parser.pending \in RequestSet
         /\ view.latest \in Nat /\ view.input \in Texts
         /\ FrameShown(view, asked) /\ LinkShown(view, link.state, arrived)
         /\ CallsKnown(toParser, view.latest, asked) /\ AnswersKnown(toView, view.latest, asked)
         /\ PendingKnown(parser.pending, view.latest, asked)
<1>1. view \in ViewSet /\ parser \in [pending : RequestSet, processing : BOOLEAN]
  BY DEF AnalyzerInv, AnalyzerTypes
<1>2. view.latest \in Nat /\ view.input \in Texts /\ parser.pending \in RequestSet
  BY <1>1 DEF ViewSet
<1> QED BY <1>1, <1>2 DEF AnalyzerInv, AnalyzerTypes, RequestsKnown

\* One more request, or none, of a view that was cleared.
LEMMA Submits ==
  ASSUME AnalyzerInv, NEW v \in ViewSet, v.latest = view.latest, v.lastLive = view.lastLive,
         Submit(v), UNCHANGED <<parser, toView, link, arrived>>
  PROVE  AnalyzerInv'
<1> USE AnalyzerFacts
<1>1. /\ ViewCleared(v, view')
      /\ Acceptable(v) => view'.latest = v.latest + 1
      /\ ~Acceptable(v) => view'.latest = v.latest
  BY StartsParse DEF Submit
<1>2. ViewCleared(view, view') /\ view' \in ViewSet
  <2>1. ViewCleared(view, view')
    BY <1>1, ClearedTwice
  <2> QED BY <2>1 DEF ViewCleared
<1>3. LinkShown(view', link'.state, arrived') /\ FrameShown(view', asked')
  BY <1>2, ClearedAgrees
<1>4. CASE ~Acceptable(v)
  <2>1. view'.latest = view.latest /\ toParser' = toParser /\ asked' = asked
    BY <1>1, <1>4 DEF Submit
  <2> QED BY <1>2, <1>3, <2>1 DEF AnalyzerInv, AnalyzerTypes, RequestsKnown
<1>5. CASE Acceptable(v)
  <2> DEFINE x == [kind |-> "enqueue", id |-> v.latest + 1, text |-> v.input]
  <2>1. view'.latest = view.latest + 1 /\ toParser' = Append(toParser, x) /\ asked' = v.input
    BY <1>1, <1>5 DEF Submit
  <2>2. x \in RequestSet /\ x.id = view.latest + 1 /\ x.text = v.input
    <3>1. v.input \in Texts /\ v.latest + 1 \in Nat
      BY DEF ViewSet
    <3> QED BY <3>1 DEF RequestSet
  <2> HIDE DEF x
  <2>3. x \in ParserCalls /\ Known(x, view'.latest, asked')
    BY <2>1, <2>2 DEF ParserCalls, Known
  <2>4. /\ CallsKnown(toParser, view'.latest, asked') /\ AnswersKnown(toView, view'.latest, asked')
        /\ PendingKnown(parser.pending, view'.latest, asked')
    <3>1. view.latest < view'.latest /\ view'.latest \in Nat
      BY <2>1
    <3> QED BY <3>1, Overtaken
  <2>5. /\ toParser' \in Seq(ParserCalls) /\ Len(toParser) \in Nat /\ toParser'[Len(toParser) + 1] = x
        /\ \A i \in 1 .. Len(toParser) : toParser'[i] = toParser[i]
        /\ \A i \in 1 .. Len(toParser') : i \in 1 .. Len(toParser) \/ i = Len(toParser) + 1
    BY <2>1, <2>3, AppendFacts
  <2>6. CallsKnown(toParser', view'.latest, asked')
    BY <2>3, <2>4, <2>5 DEF CallsKnown
  <2> QED BY <1>2, <1>3, <2>4, <2>5, <2>6 DEF AnalyzerInv, AnalyzerTypes, RequestsKnown
<1> QED BY <1>4, <1>5

\* Only the view changes, and the request it waits for does not.
LEMMA ViewAlone ==
  ASSUME AnalyzerInv, Likewise(view, view'), FrameShown(view', asked),
         UNCHANGED <<toParser, parser, toView, link, asked, arrived>>
  PROVE  AnalyzerInv'
<1>1. LinkShown(view', link.state, arrived)
  BY AnalyzerFacts, LikewiseAgrees
<1>2. view' \in ViewSet /\ view'.latest = view.latest
  BY DEF Likewise
<1> QED BY <1>1, <1>2 DEF AnalyzerInv, AnalyzerTypes, RequestsKnown

\* The input with which a view goes on.
LEMMA Inputs ==
  ASSUME NEW v \in ViewSet, NEW text \in Texts, NEW ok \in BOOLEAN
  PROVE  /\ LET w == [v EXCEPT !.input = text, !.addressOk = ok] IN
              /\ Likewise(v, w) /\ w.shown = v.shown
         /\ LET w == [v EXCEPT !.input = text] IN Likewise(v, w) /\ w.shown = v.shown
         /\ LET w == [v EXCEPT !.addressOk = ok] IN
              Likewise(v, w) /\ w.shown = v.shown /\ w.input = v.input /\ w.addressOk = ok
BY DEF ViewSet, Likewise

LEMMA Edits ==
  ASSUME AnalyzerInv, Edit
  PROVE  AnalyzerInv'
<1>1. PICK text \in Texts, ok \in BOOLEAN : view' = [view EXCEPT !.input = text, !.addressOk = ok]
  BY DEF Edit
<1>2. Likewise(view, view') /\ view'.shown = view.shown
  BY ZenonT(40), <1>1, AnalyzerFacts, Inputs
<1>3. FrameShown(view', asked)
  BY <1>2, AnalyzerFacts DEF FrameShown
<1> QED BY <1>2, <1>3, ViewAlone DEF Edit

LEMMA ClicksParse ==
  ASSUME AnalyzerInv, ClickParse
  PROVE  AnalyzerInv'
<1>1. PICK text \in {view.input} \cup (Texts \ {Blank}) : Submit([view EXCEPT !.input = text])
  BY DEF ClickParse
<1> DEFINE v == [view EXCEPT !.input = text]
<1>2. Likewise(view, v)
  BY <1>1, AnalyzerFacts, Inputs
<1> HIDE DEF v
<1>3. v \in ViewSet /\ v.latest = view.latest /\ v.lastLive = view.lastLive
  BY <1>2 DEF Likewise
<1>4. Submit(v) /\ UNCHANGED <<parser, toView, link, arrived>>
  BY <1>1 DEF ClickParse, v
<1> QED BY <1>3, <1>4, Submits

LEMMA LoadsFrame ==
  ASSUME AnalyzerInv, LoadFrame
  PROVE  AnalyzerInv'
<1>1. PICK text \in GoodTexts : Submit([ClearResult(view) EXCEPT !.input = text, !.addressOk = TRUE])
  BY DEF LoadFrame
<1> DEFINE off == ClearResult(view)
           v == [off EXCEPT !.input = text, !.addressOk = TRUE]
<1>2. ViewCleared(view, off) /\ off.latest = view.latest
  BY AnalyzerFacts, Clears
<1>3. text \in Texts /\ off \in ViewSet
  BY <1>2 DEF Texts, ViewCleared
<1> HIDE DEF off
<1>4. Likewise(off, v)
  BY <1>3, Inputs
<1>5. Submit(v) /\ UNCHANGED <<parser, toView, link, arrived>>
  BY <1>1 DEF LoadFrame, off
<1> HIDE DEF v
<1>6. v \in ViewSet /\ v.latest = view.latest /\ v.lastLive = view.lastLive
  BY <1>2, <1>4 DEF Likewise, ViewCleared
<1> QED BY <1>5, <1>6, Submits

\* A result that is not of the worker's, or is of no request.
LEMMA ShowsOther ==
  ASSUME AnalyzerInv, NEW v, Likewise(view, v), NEW r \in ResultSet, r.src # "parse",
         view' = RenderResult(v, r), UNCHANGED <<toParser, parser, toView, link, asked, arrived>>
  PROVE  AnalyzerInv'
<1>1. v \in ViewSet
  BY DEF Likewise
<1>2. Likewise(v, view') /\ view'.shown.src \in {r.src, "none"}
  BY <1>1, Renders
<1>3. Likewise(view, view') /\ FrameShown(view', asked)
  BY <1>2 DEF Likewise, FrameShown
<1> QED BY <1>3, ViewAlone

LEMMA ChangesDecode ==
  ASSUME AnalyzerInv, ChangeDecode
  PROVE  AnalyzerInv'
<1>1. UNCHANGED <<parser, toView, link, arrived>> /\ view \in ViewSet
  BY AnalyzerFacts DEF ChangeDecode
<1>2. CASE Submit(view)
  BY <1>1, <1>2, Submits
<1>3. CASE /\ view' = RenderResult(view, [view.current EXCEPT !.src = "again"])
           /\ UNCHANGED <<toParser, asked>>
  <2> DEFINE r == [view.current EXCEPT !.src = "again"]
  <2>1. view.current \in ResultSet
    BY <1>1 DEF ViewSet
  <2>2. r \in ResultSet /\ r.src = "again"
    BY <2>1 DEF ResultSet
  <2>3. Likewise(view, view)
    BY <1>1 DEF Likewise
  <2>4. view' = RenderResult(view, r)
    BY <1>3
  <2> HIDE DEF r
  <2> QED BY <1>1, <1>3, <2>2, <2>3, <2>4, ShowsOther
<1> QED BY <1>2, <1>3 DEF ChangeDecode

LEMMA ChoosesHistory ==
  ASSUME AnalyzerInv, ChooseHistory
  PROVE  AnalyzerInv'
<1>1. PICK i \in DOMAIN view.history :
        LET old == [view.history[i] EXCEPT !.src = "history"] IN
        view' = RenderResult([view EXCEPT !.current = old], old)
  BY DEF ChooseHistory
<1>2. view \in ViewSet /\ view.history \in Seq(ResultSet)
  BY AnalyzerFacts DEF ViewSet
<1> DEFINE old == [view.history[i] EXCEPT !.src = "history"]
           v == [view EXCEPT !.current = old]
<1>3. view.history[i] \in ResultSet
  BY <1>2
<1>4. old \in ResultSet /\ old.src = "history"
  BY <1>3 DEF ResultSet
<1>5. view' = RenderResult(v, old)
  BY <1>1
<1> HIDE DEF old
<1>6. Likewise(view, v)
  BY <1>2, <1>4 DEF ViewSet, Likewise
<1> HIDE DEF v
<1> QED BY <1>4, <1>5, <1>6, ShowsOther DEF ChooseHistory

LEMMA ClearsHistory ==
  ASSUME AnalyzerInv, ClearHistory
  PROVE  AnalyzerInv'
<1> DEFINE none == <<>>
<1>1. view \in ViewSet /\ view' = [view EXCEPT !.history = none] /\ none \in Seq(ResultSet)
  BY AnalyzerFacts DEF ClearHistory
<1> HIDE DEF none
<1>2. Likewise(view, view') /\ view'.shown = view.shown
  BY <1>1 DEF ViewSet, Likewise
<1>3. FrameShown(view', asked)
  BY <1>2, AnalyzerFacts DEF FrameShown
<1> QED BY <1>2, <1>3, ViewAlone DEF ClearHistory

\* A view that was cleared, whose requests so far are all overtaken or still the latest.
LEMMA ClearedKeeps ==
  ASSUME AnalyzerInv, ViewCleared(view, view'), UNCHANGED <<parser, toView, link, arrived>>,
         toParser' \in Seq(ParserCalls), RequestsKnown(view.latest, asked)' 
  PROVE  AnalyzerInv'
<1>1. LinkShown(view', link.state, arrived) /\ FrameShown(view', asked')
  BY AnalyzerFacts, ClearedAgrees
<1> QED BY <1>1 DEF AnalyzerInv, AnalyzerTypes, ViewCleared

LEMMA ClicksClear ==
  ASSUME AnalyzerInv, ClickClear
  PROVE  AnalyzerInv'
<1> DEFINE v == [view EXCEPT !.input = Blank]
           off == ClearResult(v)
           n == view.latest + 1
<1>1. Likewise(view, v)
  BY AnalyzerFacts, Inputs, ResultsTyped
<1>2. view' = [off EXCEPT !.latest = n, !.parsing = FALSE]
      /\ UNCHANGED <<toParser, parser, toView, link, arrived>> /\ asked' = Blank
  BY DEF ClickClear, Clear
<1> HIDE DEF v
<1>3. ViewCleared(v, off) /\ off \in ViewSet
  BY <1>1, Clears DEF Likewise, ViewCleared
<1>4. n \in Nat /\ view.latest < n
  BY AnalyzerFacts
<1> HIDE DEF off, n
<1>5. view' \in ViewSet /\ view'.latest = n /\ view'.live = off.live
      /\ view'.lastLive = off.lastLive /\ view'.shown = off.shown
  BY <1>2, <1>3, <1>4 DEF ViewSet
<1>6. ViewCleared(view, view')
  BY <1>1, <1>3, <1>5 DEF ViewCleared, Likewise
<1>7. RequestsKnown(view'.latest, asked') /\ toParser' \in Seq(ParserCalls)
  <2>1. /\ CallsKnown(toParser, n, Blank) /\ AnswersKnown(toView, n, Blank)
        /\ PendingKnown(parser.pending, n, Blank)
    BY <1>4, AnalyzerFacts, Overtaken
  <2> QED BY <1>2, <1>5, <2>1, AnalyzerFacts DEF RequestsKnown
<1>8. RequestsKnown(view.latest, asked)'
  BY <1>2, <1>7 DEF RequestsKnown
<1> QED BY <1>2, <1>6, <1>7, <1>8, ClearedKeeps

LEMMA ImportsConfig ==
  ASSUME AnalyzerInv, ImportConfig
  PROVE  AnalyzerInv'
<1>1. PICK ok \in BOOLEAN, differs \in BOOLEAN :
       LET v == [view EXCEPT !.addressOk = ok]
           first == IF differs /\ ~v.live /\ v.input # Blank THEN StartParse(v) ELSE v IN
       IF v.input = Blank
       THEN view' = ClearResult(v) /\ UNCHANGED <<toParser, asked>>
       ELSE /\ view' = StartParse(first)
            /\ LET Request(id) == [kind |-> "enqueue", id |-> id, text |-> v.input] IN
               toParser' = toParser \o
                 IF ~ok THEN <<>>
                 ELSE [i \in 1..(view'.latest - v.latest) |-> Request(v.latest + i)]
            /\ asked' = IF ok THEN v.input ELSE asked
  BY DEF ImportConfig
<1>2. UNCHANGED <<parser, toView, link, arrived>>
  BY DEF ImportConfig
<1> DEFINE v == [view EXCEPT !.addressOk = ok]
           first == IF differs /\ ~v.live /\ v.input # Blank THEN StartParse(v) ELSE v
           batch == [i \in 1..(view'.latest - v.latest) |->
                       [kind |-> "enqueue", id |-> v.latest + i, text |-> v.input]]
<1>3. Likewise(view, v) /\ v.input = view.input /\ v.addressOk = ok
  BY AnalyzerFacts, Inputs
<1>4. v \in ViewSet /\ v.latest = view.latest /\ v.lastLive = view.lastLive
  BY <1>3 DEF Likewise
<1>5. CASE v.input = Blank
  <2>1. view' = ClearResult(v) /\ UNCHANGED <<toParser, asked>>
    BY <1>1, <1>5
  <2> HIDE DEF v
  <2>2. ViewCleared(v, view') /\ view'.latest = v.latest
    BY <1>4, <2>1, Clears
  <2>3. ViewCleared(view, view') /\ view'.latest = view.latest
    BY <1>4, <2>2, ClearedTwice
  <2>4. toParser' \in Seq(ParserCalls) /\ RequestsKnown(view.latest, asked)'
    BY <1>2, <2>1, <2>3, AnalyzerFacts DEF RequestsKnown
  <2> QED BY <1>2, <2>3, <2>4, ClearedKeeps
<1>6. CASE v.input # Blank
  <2>1. /\ view' = StartParse(first)
        /\ ~ok => toParser' = toParser \o <<>> /\ asked' = asked
        /\ ok => toParser' = toParser \o batch /\ asked' = v.input
    BY <1>1, <1>6
  <2>2. first = StartParse(v) \/ first = v
    OBVIOUS
  <2> HIDE DEF v, first
  <2>3. /\ first \in ViewSet /\ first.lastLive = v.lastLive /\ first.input = v.input
        /\ first.addressOk = v.addressOk
        /\ first.latest = v.latest \/ (ok = TRUE /\ first.latest = v.latest + 1)
    <3>1. CASE first = v
      BY <1>4, <3>1
    <3>2. CASE first = StartParse(v)
      <4>1. /\ ViewCleared(v, first) /\ first.input = v.input /\ first.addressOk = v.addressOk
            /\ Acceptable(v) => first.latest = v.latest + 1
            /\ ~Acceptable(v) => first.latest = v.latest
        BY <1>4, <3>2, StartsParse, Zenon
      <4>2. Acceptable(v) => ok = TRUE
        BY <1>3 DEF Acceptable
      <4>3. first \in ViewSet /\ first.lastLive = v.lastLive
        BY <4>1 DEF ViewCleared
      <4>4. CASE Acceptable(v)
        BY <4>1, <4>2, <4>3, <4>4
      <4>5. CASE ~Acceptable(v)
        BY <4>1, <4>3, <4>5
      <4> QED BY <4>4, <4>5
    <3> QED BY <2>2, <3>1, <3>2
  <2>4. /\ ViewCleared(first, view')
        /\ Acceptable(first) => view'.latest = first.latest + 1
        /\ ~Acceptable(first) => view'.latest = first.latest
    BY <2>1, <2>3, StartsParse, Zenon
  <2>5. ViewCleared(view, view')
    BY <1>4, <2>3, <2>4, ClearedTwice
  <2>6. CASE ok = FALSE
    <3>1. ~Acceptable(first)
      BY <1>3, <2>3, <2>6 DEF Acceptable
    <3>2. view'.latest = view.latest
      BY <1>4, <2>3, <2>4, <2>6, <3>1
    <3>3. toParser' = toParser /\ asked' = asked
      BY <2>1, <2>6, AnalyzerFacts
    <3>4. toParser' \in Seq(ParserCalls) /\ RequestsKnown(view.latest, asked)'
      BY <1>2, <3>2, <3>3, AnalyzerFacts DEF RequestsKnown
    <3> QED BY <1>2, <2>5, <3>4, ClearedKeeps
  <2>7. CASE ok = TRUE
    <3>1. Acceptable(first)
      BY <1>3, <1>6, <2>3, <2>7 DEF Acceptable
    <3>2. view'.latest = first.latest + 1 /\ asked' = v.input /\ toParser' = toParser \o batch
      BY <2>1, <2>4, <2>7, <3>1
    <3>3. view'.latest \in Nat /\ view.latest < view'.latest
      BY <1>4, <2>3, <3>2, AnalyzerFacts
    <3> DEFINE k == view'.latest - v.latest
    <3>4. k \in Nat /\ \A i \in 1 .. k : v.latest + i \in Nat /\ v.latest + i <= view'.latest
      BY <1>4, <3>3, AnalyzerFacts
    <3>5. v.input \in Texts
      BY <1>4 DEF ViewSet
    <3>6. batch = [i \in 1 .. k |-> [kind |-> "enqueue", id |-> v.latest + i, text |-> v.input]]
      OBVIOUS
    <3> HIDE DEF k, batch
    <3>7. \A i \in 1 .. k : [kind |-> "enqueue", id |-> v.latest + i, text |-> v.input] \in ParserCalls
      BY <3>4, <3>5 DEF ParserCalls, RequestSet
    <3>8. batch \in Seq(ParserCalls) /\ Len(batch) = k
      BY <3>4, <3>6, <3>7
    <3>9. CallsKnown(batch, view'.latest, asked')
      <4>1. \A i \in 1 .. k : batch[i].id = v.latest + i /\ batch[i].text = v.input
        BY <3>6
      <4> QED BY <3>2, <3>4, <3>8, <4>1 DEF CallsKnown, Known
    <3>10. /\ CallsKnown(toParser, view'.latest, asked') /\ AnswersKnown(toView, view'.latest, asked')
           /\ PendingKnown(parser.pending, view'.latest, asked')
      BY <3>3, AnalyzerFacts, Overtaken
    <3>11. toParser' \in Seq(ParserCalls) /\ CallsKnown(toParser', view'.latest, asked')
      BY <3>2, <3>8, <3>9, <3>10, AnalyzerFacts, QueuedKnown
    <3>12. RequestsKnown(view.latest, asked)'
      BY <1>2, <3>10, <3>11 DEF RequestsKnown
    <3> QED BY <1>2, <2>5, <3>11, <3>12, ClearedKeeps
  <2> QED BY <2>6, <2>7
<1> QED BY <1>5, <1>6

\* What is left of a queue is known too.
LEMMA RestKnown ==
  ASSUME NEW latest, NEW text
  PROVE  /\ \A q \in Seq(ParserCalls) : q # <<>> /\ CallsKnown(q, latest, text) =>
              Tail(q) \in Seq(ParserCalls) /\ CallsKnown(Tail(q), latest, text)
         /\ \A q \in Seq(AnswerSet) : q # <<>> /\ AnswersKnown(q, latest, text) =>
              Tail(q) \in Seq(AnswerSet) /\ AnswersKnown(Tail(q), latest, text)
<1>1. ASSUME NEW q \in Seq(ParserCalls), q # <<>>, CallsKnown(q, latest, text)
      PROVE  Tail(q) \in Seq(ParserCalls) /\ CallsKnown(Tail(q), latest, text)
  <2>1. /\ Tail(q) \in Seq(ParserCalls)
        /\ \A i \in 1 .. Len(Tail(q)) : Tail(q)[i] = q[i + 1] /\ i + 1 \in 1 .. Len(q)
    BY <1>1, TailFacts
  <2> QED BY <1>1, <2>1 DEF CallsKnown
<1>2. ASSUME NEW q \in Seq(AnswerSet), q # <<>>, AnswersKnown(q, latest, text)
      PROVE  Tail(q) \in Seq(AnswerSet) /\ AnswersKnown(Tail(q), latest, text)
  <2>1. /\ Tail(q) \in Seq(AnswerSet)
        /\ \A i \in 1 .. Len(Tail(q)) : Tail(q)[i] = q[i + 1] /\ i + 1 \in 1 .. Len(q)
    BY <1>2, TailFacts
  <2> QED BY <1>2, <2>1 DEF AnswersKnown
<1> QED BY <1>1, <1>2

\* The parser keeps the newest request, and answers that one.
LEMMA RunsParse ==
  ASSUME AnalyzerInv, RunParse
  PROVE  AnalyzerInv'
<1>1. toParser # <<>> /\ UNCHANGED <<view, link, asked, arrived>>
  BY DEF RunParse
<1> DEFINE e == toParser[1]
           left == Tail(toParser)
<1>2. Head(toParser) = e /\ e \in ParserCalls /\ 1 \in 1 .. Len(toParser)
  BY <1>1, AnalyzerFacts, TailFacts
<1>3. left \in Seq(ParserCalls) /\ CallsKnown(left, view.latest, asked)
  BY <1>1, AnalyzerFacts, RestKnown
<1>4. CASE e.kind = "enqueue" /\ Enqueue(Head(toParser)) /\ UNCHANGED toView
  <2> DEFINE more == IF parser.processing THEN <<>> ELSE <<[kind |-> "process"]>>
  <2>1. e \in RequestSet /\ Known(e, view.latest, asked)
    BY <1>2, <1>4, AnalyzerFacts DEF ParserCalls, CallsKnown
  <2>2. parser' = [pending |-> e, processing |-> TRUE] /\ toParser' = left \o more
    BY <1>2, <1>4 DEF Enqueue
  <2>3. more \in Seq(ParserCalls) /\ CallsKnown(more, view.latest, asked)
    <3> DEFINE p == [kind |-> "process"]
    <3>1. p \in ParserCalls /\ p.kind # "enqueue"
      BY DEF ParserCalls
    <3>2. more = <<>> \/ more = <<p>>
      OBVIOUS
    <3> HIDE DEF more, p
    <3>3. CASE more = <<>>
      BY <3>3 DEF CallsKnown
    <3>4. CASE more = <<p>>
      <4>1. more \in Seq(ParserCalls) /\ \A i \in 1 .. Len(more) : more[i] = p
        BY <3>1, <3>4
      <4> QED BY <3>1, <4>1 DEF CallsKnown
    <3> QED BY <3>2, <3>3, <3>4
  <2> HIDE DEF e, left, more
  <2>4. toParser' \in Seq(ParserCalls) /\ CallsKnown(toParser', view.latest, asked)
    BY <1>3, <2>2, <2>3, QueuedKnown
  <2>5. /\ parser' \in [pending : RequestSet, processing : BOOLEAN]
        /\ PendingKnown(parser'.pending, view.latest, asked)
    BY <2>1, <2>2 DEF PendingKnown
  <2> QED BY <1>1, <1>4, <2>4, <2>5 DEF AnalyzerInv, AnalyzerTypes, RequestsKnown
<1>5. CASE /\ toView' = IF parser.pending.id # 0 THEN Append(toView, Parsed(parser.pending)) ELSE toView
           /\ parser' = [pending |-> NoRequest, processing |-> FALSE]
           /\ toParser' = left
  <2>1. NoRequest \in RequestSet /\ NoRequest.id = 0
    BY ResultsTyped DEF NoRequest, RequestSet
  <2>2. /\ parser' \in [pending : RequestSet, processing : BOOLEAN]
        /\ PendingKnown(parser'.pending, view.latest, asked)
    BY <1>5, <2>1 DEF PendingKnown
  <2>3. toView' \in Seq(AnswerSet) /\ AnswersKnown(toView', view.latest, asked)
    <3>1. CASE parser.pending.id = 0
      BY <1>5, <3>1, AnalyzerFacts
    <3>2. CASE parser.pending.id # 0
      <4> DEFINE x == Parsed(parser.pending)
      <4>1. x \in AnswerSet /\ x.id = parser.pending.id /\ x.text = parser.pending.text
        <5> DEFINE good == parser.pending.text \in GoodTexts
        <5>1. good \in BOOLEAN /\ x = [src |-> "parse", id |-> parser.pending.id,
                                       text |-> parser.pending.text, valid |-> good]
          BY DEF Parsed
        <5> HIDE DEF good, x
        <5>2. parser.pending.id \in Nat /\ parser.pending.text \in Texts
          BY AnalyzerFacts DEF RequestSet
        <5> QED BY <5>1, <5>2 DEF AnswerSet
      <4>2. toView' = Append(toView, x)
        BY <1>5, <3>2
      <4> HIDE DEF x
      <4>3. Known(x, view.latest, asked)
        BY <3>2, <4>1, AnalyzerFacts DEF PendingKnown, Known
      <4>4. /\ toView' \in Seq(AnswerSet) /\ Len(toView) \in Nat /\ toView'[Len(toView) + 1] = x
            /\ \A i \in 1 .. Len(toView) : toView'[i] = toView[i]
            /\ \A i \in 1 .. Len(toView') : i \in 1 .. Len(toView) \/ i = Len(toView) + 1
        BY <4>1, <4>2, AnalyzerFacts, AppendFacts
      <4> QED BY <4>3, <4>4, AnalyzerFacts DEF AnswersKnown
    <3> QED BY <3>1, <3>2
  <2> HIDE DEF left
  <2> QED BY <1>1, <1>3, <1>5, <2>2, <2>3 DEF AnalyzerInv, AnalyzerTypes, RequestsKnown
<1> QED BY <1>2, <1>4, <1>5 DEF RunParse

LEMMA SomeOf ==
  ASSUME NEW S, NEW s \in Seq(S), NEW x \in S, NEW n \in Nat, n <= Len(s) + 1
  PROVE  SubSeq(<<x>> \o s, 1, n) \in Seq(S)
<1> DEFINE t == <<x>> \o s
<1>1. t \in Seq(S) /\ Len(t) = Len(s) + 1 /\ Len(s) \in Nat
  OBVIOUS
<1> HIDE DEF t
<1>2. SubSeq(t, 1, n) \in Seq(S)
  <2>1. \A i \in 1 .. n : t[i] \in S
    BY <1>1
  <2> QED BY <1>1, <2>1
<1> QED BY <1>2 DEF t

\* An answer is shown if it is of the latest request, and then it is what was asked.
LEMMA FinishesParse ==
  ASSUME AnalyzerInv, ParseFinished
  PROVE  AnalyzerInv'
<1>1. toView # <<>> /\ toView' = Tail(toView) /\ UNCHANGED <<toParser, parser, link, asked, arrived>>
  BY DEF ParseFinished
<1> DEFINE r == toView[1]
           u == [view EXCEPT !.parsing = FALSE, !.current = r]
           v == RenderResult(u, r)
<1>2. Head(toView) = r /\ r \in AnswerSet /\ 1 \in 1 .. Len(toView)
  BY <1>1, AnalyzerFacts, TailFacts
<1>3. toView' \in Seq(AnswerSet) /\ AnswersKnown(toView', view.latest, asked)
  BY <1>1, AnalyzerFacts, RestKnown
<1>4. Known(r, view.latest, asked) /\ r.src = "parse" /\ r \in ResultSet
  BY <1>2, AnalyzerFacts, ResultsTyped DEF AnswersKnown, AnswerSet
<1> DEFINE n == IF Len(v.history) < MaxHistory THEN Len(v.history) + 1 ELSE MaxHistory
           h == SubSeq(<<r>> \o v.history, 1, n)
<1>5. \/ r.id # view.latest /\ view' = view
      \/ r.id = view.latest /\ (view' = v \/ view' = [v EXCEPT !.history = h])
  BY <1>2 DEF ParseFinished
<1> HIDE DEF r
<1>6. CASE r.id # view.latest /\ view' = view
  BY <1>1, <1>3, <1>6, AnalyzerFacts DEF AnalyzerInv, AnalyzerTypes, RequestsKnown
<1>7. CASE r.id = view.latest /\ (view' = v \/ view' = [v EXCEPT !.history = h])
  <2>1. Likewise(view, u)
    BY <1>4, AnalyzerFacts DEF ViewSet, Likewise
  <2> HIDE DEF u
  <2>2. u \in ViewSet
    BY <2>1 DEF Likewise
  <2>3. Likewise(u, v) /\ v.shown.src \in {"parse", "none"} /\ (v.shown.src = "parse" => v.shown = r)
    BY <1>4, <2>2, Renders
  <2>4. v \in ViewSet /\ v.history \in Seq(ResultSet)
    BY <2>3 DEF Likewise, ViewSet
  <2> HIDE DEF v
  <2>5. n \in Nat /\ n <= Len(v.history) + 1
    BY <2>4, HistoryHolds
  <2> HIDE DEF n
  <2>6. h \in Seq(ResultSet)
    BY <1>4, <2>4, <2>5, SomeOf
  <2> HIDE DEF h
  <2>7. Likewise(v, view') /\ view'.shown = v.shown
    <3>1. CASE view' = v
      BY <2>4, <3>1 DEF Likewise
    <3>2. CASE view' = [v EXCEPT !.history = h]
      BY <2>4, <2>6, <3>2 DEF Likewise, ViewSet
    <3> QED BY <1>7, <3>1, <3>2
  <2>8. Likewise(view, view')
    BY <2>1, <2>3, <2>7 DEF Likewise
  <2>9. FrameShown(view', asked)
    BY <1>4, <1>7, <2>3, <2>7 DEF FrameShown, Known
  <2>10. LinkShown(view', link.state, arrived)
    BY <2>8, AnalyzerFacts, LikewiseAgrees
  <2>11. view' \in ViewSet /\ view'.latest = view.latest
    BY <2>8 DEF Likewise
  <2> QED BY <1>1, <1>3, <2>9, <2>10, <2>11 DEF AnalyzerInv, AnalyzerTypes, RequestsKnown
<1> QED BY <1>5, <1>6, <1>7

\* The link moves, and with it what the view has of it.
LEMMA LinkMoves ==
  ASSUME AnalyzerInv, view' \in ViewSet, view'.latest = view.latest, link' \in LinkSet,
         LinkShown(view', link'.state, arrived'), FrameShown(view', asked),
         UNCHANGED <<toParser, parser, toView, asked>>
  PROVE  AnalyzerInv'
BY DEF AnalyzerInv, AnalyzerTypes, RequestsKnown

LEMMA Pauses ==
  ASSUME NEW v \in ViewSet, NEW b \in BOOLEAN, NEW w, w = SetPaused(v, b)
  PROVE  /\ w \in ViewSet /\ w.paused = b /\ w.live = v.live /\ w.lastLive = v.lastLive
         /\ w.latest = v.latest /\ w.shown = v.shown /\ w.parsing = v.parsing
BY DEF ViewSet, SetPaused

\* A live response begins live mode, and is shown and kept unless a parse is in progress.
LEMMA Processes ==
  ASSUME NEW v \in ViewSet, NEW n \in Nat, NEW w, w = ProcessLivePdu(v, n)
  PROVE  /\ w \in ViewSet /\ w.live = TRUE /\ w.latest = v.latest
         /\ w.lastLive.id = IF v.parsing THEN v.lastLive.id ELSE n
         /\ w.shown = v.shown \/ w.shown.src # "parse"
<1> DEFINE live == [v EXCEPT !.live = TRUE]
           r == LiveResult(n)
           kept == [live EXCEPT !.lastLive = r]
<1>1. /\ live \in ViewSet /\ live.live = TRUE /\ live.latest = v.latest
      /\ live.lastLive = v.lastLive /\ live.shown = v.shown
  BY DEF ViewSet
<1>2. r \in LiveSet /\ r \in ResultSet /\ r.id = n /\ r.src = "live"
  BY ResultsTyped
<1>3. IF v.parsing THEN w = live ELSE w = kept \/ w = RenderResult(kept, r)
  BY DEF ProcessLivePdu
<1> HIDE DEF live, r
<1>4. /\ kept \in ViewSet /\ kept.live = TRUE /\ kept.latest = v.latest
      /\ kept.lastLive = r /\ kept.shown = v.shown
  BY <1>1, <1>2 DEF ViewSet
<1> HIDE DEF kept
<1>5. CASE v.parsing
  BY <1>1, <1>3, <1>5
<1>6. CASE ~v.parsing /\ w = kept
  BY <1>2, <1>4, <1>6
<1>7. CASE ~v.parsing /\ w = RenderResult(kept, r)
  <2>1. Likewise(kept, w) /\ w.shown.src \in {r.src, "none"}
    BY <1>2, <1>4, <1>7, Renders
  <2> QED BY <1>2, <1>4, <1>7, <2>1 DEF Likewise
<1> QED BY <1>3, <1>5, <1>6, <1>7

LEMMA LinkTyped ==
  ASSUME AnalyzerInv
  PROVE  /\ view.lastLive.id \in Nat /\ link.buffered \in Nat /\ link.count \in Nat
         /\ link.state \in {"Idle", "Live", "Paused"}
         /\ view.live \in BOOLEAN /\ view.paused \in BOOLEAN
         /\ \A s \in {"Idle", "Live", "Paused"}, m \in Nat :
              /\ [link EXCEPT !.state = s] \in LinkSet
              /\ [link EXCEPT !.state = s].state = s
              /\ [link EXCEPT !.state = s, !.buffered = m] \in LinkSet
              /\ [link EXCEPT !.state = s, !.buffered = m].state = s
<1>1. view \in ViewSet /\ link \in LinkSet
  BY AnalyzerFacts
<1>2. view.lastLive \in LiveSet /\ view.live \in BOOLEAN /\ view.paused \in BOOLEAN
  BY <1>1 DEF ViewSet
<1>3. view.lastLive.id \in Nat
  BY <1>2 DEF LiveSet
<1> QED BY <1>1, <1>2, <1>3 DEF LinkSet

LEMMA LinkEndsOrBegins ==
  ASSUME AnalyzerInv, LinkOn \/ LinkOff
  PROVE  AnalyzerInv'
<1>1. CASE LinkOn
  <2> DEFINE c == link.count
  <2>1. /\ link.state = "Idle" /\ link' = [state |-> "Live", buffered |-> 0, count |-> c]
        /\ view' = SetPaused(view, FALSE) /\ arrived' = view.lastLive.id
        /\ UNCHANGED <<toParser, parser, toView, asked>>
    BY <1>1 DEF LinkOn
  <2>2. c \in Nat
    BY LinkTyped
  <2> HIDE DEF c
  <2>3. link' \in LinkSet /\ link'.state = "Live"
    BY <2>1, <2>2 DEF LinkSet
  <2>4. /\ view' \in ViewSet /\ view'.live = view.live /\ view'.lastLive = view.lastLive
        /\ view'.latest = view.latest /\ view'.shown = view.shown
    BY <2>1, AnalyzerFacts, Pauses
  <2>5. view.live # TRUE
    BY <2>1, AnalyzerFacts DEF LinkShown
  <2>6. LinkShown(view', link'.state, arrived') /\ FrameShown(view', asked)
    BY <2>1, <2>3, <2>4, <2>5, AnalyzerFacts DEF LinkShown, FrameShown
  <2> QED BY <2>1, <2>3, <2>4, <2>6, LinkMoves
<1>2. CASE LinkOff
  <2>1. /\ link' = [link EXCEPT !.state = "Idle", !.buffered = 0] /\ view' = ClearResult(view)
        /\ UNCHANGED <<toParser, parser, toView, asked, arrived>>
    BY <1>2 DEF LinkOff
  <2>2. link' \in LinkSet /\ link'.state = "Idle"
    BY <2>1, LinkTyped
  <2>3. ViewCleared(view, view') /\ view'.latest = view.latest
    BY <2>1, AnalyzerFacts, Clears
  <2>4. view' \in ViewSet /\ LinkShown(view', link'.state, arrived') /\ FrameShown(view', asked)
    BY <2>2, <2>3 DEF ViewCleared, LinkShown, FrameShown
  <2> QED BY <2>1, <2>2, <2>3, <2>4, LinkMoves
<1> QED BY <1>1, <1>2

LEMMA LinkHasData ==
  ASSUME AnalyzerInv, LiveData
  PROVE  AnalyzerInv'
<1> DEFINE n == link.count + 1
<1>1. /\ link.state # "Idle" /\ UNCHANGED <<toParser, parser, toView, asked>> /\ n \in Nat
      /\ link.state \in {"Live", "Paused"}
  <2>1. link.state # "Idle" /\ UNCHANGED <<toParser, parser, toView, asked>>
    BY DEF LiveData
  <2>2. link.count \in Nat /\ link.state \in {"Idle", "Live", "Paused"}
    BY LinkTyped
  <2> QED BY <2>1, <2>2
<1>2. \/ /\ link.state = "Paused" /\ link' = [link EXCEPT !.count = n, !.buffered = n]
         /\ UNCHANGED <<view, arrived>>
      \/ /\ link.state # "Paused" /\ link' = [link EXCEPT !.count = n, !.buffered = 0]
         /\ view' = SetPaused(ProcessLivePdu(view, n), FALSE)
         /\ arrived' = IF view.parsing THEN arrived ELSE n
  BY DEF LiveData
<1> HIDE DEF n
<1>3. link' \in LinkSet /\ link'.state = link.state
  <2>1. link \in LinkSet
    BY AnalyzerFacts
  <2>2. PICK m \in Nat : link' = [link EXCEPT !.count = n, !.buffered = m]
    BY <1>1, <1>2
  <2>3. n \in Nat
    BY <1>1
  <2> QED BY <2>1, <2>2, <2>3 DEF LinkSet
<1>4. CASE link.state = "Paused" /\ UNCHANGED <<view, arrived>>
  BY <1>1, <1>3, <1>4, AnalyzerFacts, LinkMoves
<1>5. CASE /\ link.state # "Paused" /\ view' = SetPaused(ProcessLivePdu(view, n), FALSE)
           /\ arrived' = IF view.parsing THEN arrived ELSE n
  <2> DEFINE v == ProcessLivePdu(view, n)
  <2>1. /\ v \in ViewSet /\ v.live = TRUE /\ v.latest = view.latest
        /\ v.lastLive.id = IF view.parsing THEN view.lastLive.id ELSE n
        /\ v.shown = view.shown \/ v.shown.src # "parse"
    <3>1. n \in Nat /\ view \in ViewSet
      BY <1>1, AnalyzerFacts
    <3> QED BY <3>1, Processes
  <2>2. view' = SetPaused(v, FALSE)
    BY <1>5
  <2> HIDE DEF v
  <2>3. /\ view' \in ViewSet /\ view'.paused = FALSE /\ view'.live = v.live /\ view'.lastLive = v.lastLive
        /\ view'.latest = v.latest /\ view'.shown = v.shown
    <3>1. v \in ViewSet
      BY <2>1
    <3> QED BY <2>2, <3>1, Pauses, Zenon
  <2>4. view.lastLive.id = arrived
    BY <1>1, AnalyzerFacts DEF LinkShown
  <2>5. LinkShown(view', link'.state, arrived')
    <3>1. view'.lastLive.id = arrived'
      BY <1>5, <2>1, <2>3, <2>4
    <3>2. view'.paused # TRUE /\ link'.state = "Live"
      BY <1>1, <1>3, <1>5, <2>3
    <3> QED BY <3>1, <3>2 DEF LinkShown
  <2>6. FrameShown(view', asked)
    BY <2>1, <2>3, AnalyzerFacts DEF FrameShown
  <2> QED BY <1>1, <1>3, <2>1, <2>3, <2>5, <2>6, LinkMoves
<1> QED BY <1>2, <1>4, <1>5

LEMMA LinkPauses ==
  ASSUME AnalyzerInv, Pause
  PROVE  AnalyzerInv'
<1>1. /\ link.state = "Live" /\ link' = [link EXCEPT !.state = "Paused"]
      /\ view' = SetPaused(view, TRUE) /\ UNCHANGED <<toParser, parser, toView, asked, arrived>>
  BY DEF Pause
<1>2. link' \in LinkSet /\ link'.state = "Paused"
  BY <1>1, LinkTyped
<1>3. /\ view' \in ViewSet /\ view'.paused = TRUE /\ view'.lastLive = view.lastLive
      /\ view'.latest = view.latest /\ view'.shown = view.shown
  BY <1>1, AnalyzerFacts, Pauses
<1>4. LinkShown(view', link'.state, arrived') /\ FrameShown(view', asked)
  BY <1>1, <1>2, <1>3, AnalyzerFacts DEF LinkShown, FrameShown
<1> QED BY <1>1, <1>2, <1>3, <1>4, LinkMoves

\* What came during the pause is shown when the pause ends.
LEMMA LinkResumes ==
  ASSUME AnalyzerInv, Resume
  PROVE  AnalyzerInv'
<1> DEFINE n == link.buffered
           v == SetPaused(view, FALSE)
<1>1. /\ link.state = "Paused" /\ link' = [link EXCEPT !.state = "Live", !.buffered = 0]
      /\ view' = IF n = 0 THEN v ELSE SetPaused(ProcessLivePdu(v, n), FALSE)
      /\ arrived' = IF n # 0 /\ ~view.parsing THEN n ELSE arrived
      /\ UNCHANGED <<toParser, parser, toView, asked>>
  BY DEF Resume
<1>2. link' \in LinkSet /\ link'.state = "Live" /\ n \in Nat
  BY <1>1, LinkTyped
<1>3. /\ v \in ViewSet /\ v.paused = FALSE /\ v.lastLive = view.lastLive
      /\ v.latest = view.latest /\ v.shown = view.shown /\ v.parsing = view.parsing
  BY AnalyzerFacts, Pauses
<1>4. view.lastLive.id = arrived
  BY <1>1, AnalyzerFacts DEF LinkShown
<1> HIDE DEF v, n
<1>5. CASE n = 0
  <2>1. view' = v /\ arrived' = arrived
    BY <1>1, <1>5
  <2>2. LinkShown(view', link'.state, arrived') /\ FrameShown(view', asked)
    BY <1>2, <1>3, <1>4, <2>1, AnalyzerFacts DEF LinkShown, FrameShown
  <2> QED BY <1>1, <1>2, <1>3, <2>1, <2>2, LinkMoves
<1>6. CASE n # 0
  <2> DEFINE w == ProcessLivePdu(v, n)
  <2>1. /\ w \in ViewSet /\ w.live = TRUE /\ w.latest = v.latest
        /\ w.lastLive.id = IF v.parsing THEN v.lastLive.id ELSE n
        /\ w.shown = v.shown \/ w.shown.src # "parse"
    BY <1>2, <1>3, Processes
  <2>2. view' = SetPaused(w, FALSE)
    BY <1>1, <1>6
  <2> HIDE DEF w
  <2>3. /\ view' \in ViewSet /\ view'.paused = FALSE /\ view'.lastLive = w.lastLive
        /\ view'.latest = w.latest /\ view'.shown = w.shown
    <3>1. w \in ViewSet
      BY <2>1
    <3> QED BY <2>2, <3>1, Pauses, Zenon
  <2>4. view'.lastLive.id = arrived'
    BY <1>1, <1>3, <1>4, <1>6, <2>1, <2>3
  <2>5. LinkShown(view', link'.state, arrived')
    BY <1>2, <2>3, <2>4 DEF LinkShown
  <2>6. FrameShown(view', asked)
    BY <1>3, <2>1, <2>3, AnalyzerFacts DEF FrameShown
  <2> QED BY <1>1, <1>2, <1>3, <2>1, <2>3, <2>5, <2>6, LinkMoves
<1> QED BY <1>5, <1>6

LEMMA AnalyzerInitInv == AnalyzerInit => AnalyzerInv
<1> SUFFICES ASSUME AnalyzerInit PROVE AnalyzerInv
  OBVIOUS
<1> DEFINE none == <<>>
<1>1. /\ view = [input |-> Blank, addressOk |-> TRUE, latest |-> 0, parsing |-> FALSE,
                 current |-> NoResult, shown |-> NoResult, lastLive |-> NoResult,
                 live |-> FALSE, paused |-> FALSE, history |-> none]
      /\ toParser = none /\ toView = none /\ parser = [pending |-> NoRequest, processing |-> FALSE]
      /\ link = [state |-> "Idle", buffered |-> 0, count |-> 0]
  BY DEF AnalyzerInit
<1>2. none \in Seq(ResultSet) /\ none \in Seq(ParserCalls) /\ none \in Seq(AnswerSet) /\ Len(none) = 0
  OBVIOUS
<1> HIDE DEF none
<1>3. NoRequest \in RequestSet /\ NoRequest.id = 0
  BY ResultsTyped DEF NoRequest, RequestSet
<1>4. AnalyzerTypes
  <2>1. view \in ViewSet
    BY <1>1, <1>2, ResultsTyped DEF ViewSet
  <2>2. link \in LinkSet
    BY <1>1 DEF LinkSet
  <2> QED BY <1>1, <1>2, <1>3, <2>1, <2>2 DEF AnalyzerTypes
<1>5. FrameShown(view, asked) /\ LinkShown(view, link.state, arrived)
  BY <1>1, ResultsTyped DEF FrameShown, LinkShown
<1>6. RequestsKnown(view.latest, asked)
  BY <1>1, <1>2, <1>3 DEF RequestsKnown, CallsKnown, AnswersKnown, PendingKnown
<1> QED BY <1>4, <1>5, <1>6 DEF AnalyzerInv

LEMMA AnalyzerNextInv == AnalyzerInv /\ [AnalyzerNext]_analyzerVars => AnalyzerInv'
<1> SUFFICES ASSUME AnalyzerInv, [AnalyzerNext]_analyzerVars PROVE AnalyzerInv'
  OBVIOUS
<1>1. CASE UNCHANGED analyzerVars
  BY <1>1 DEF analyzerVars, AnalyzerInv, AnalyzerTypes, RequestsKnown
<1> QED
  BY <1>1, Edits, ClicksParse, LoadsFrame, ChangesDecode, ImportsConfig, ClicksClear, ChoosesHistory,
     ClearsHistory, RunsParse, FinishesParse, LinkEndsOrBegins, LinkHasData, LinkPauses, LinkResumes
  DEF AnalyzerNext

AnalyzerSpec == AnalyzerInit /\ [][AnalyzerNext]_analyzerVars

\* A frame on show is that of the latest request, whatever was overtaken or cleared while
\* the parser was busy; the view is paused when the link is, and has the newest response
\* the link let through, the one that came during a pause included
\* (FrameAnalyzerView.cpp, FrameParseWorker.cpp, AnalyzerLinkCoordinator.cpp).
THEOREM AlwaysCurrent == AnalyzerSpec => []ShowsCurrent
<1>1. AnalyzerInv => ShowsCurrent
  <2> SUFFICES ASSUME AnalyzerInv PROVE ShowsCurrent
    OBVIOUS
  <2>1. FrameShown(view, asked) /\ LinkShown(view, link.state, arrived)
    BY AnalyzerFacts
  <2>2. (view.live = TRUE <=> view.live) /\ (view.paused = TRUE <=> view.paused)
    <3>1. view.live \in BOOLEAN /\ view.paused \in BOOLEAN
      BY LinkTyped
    <3> QED BY <3>1
  <2>3. ShownWasAsked
    BY <2>1 DEF FrameShown, ShownWasAsked
  <2>4. PauseAgrees
    BY <2>1, <2>2 DEF LinkShown, PauseAgrees
  <2>5. LiveCatchesUp
    BY <2>1 DEF LinkShown, LiveCatchesUp
  <2> QED BY <2>3, <2>4, <2>5 DEF ShowsCurrent
<1> QED BY <1>1, AnalyzerInitInv, AnalyzerNextInv, PTL DEF AnalyzerSpec

-----------------------------------------------------------------------------
(* The client list of the TCP server, for any number of clients and clicks  *)
(* and whatever waits between the two threads.                              *)
(*                                                                          *)
(* Every signal the server queues says of some client, or of the server     *)
(* itself (its id is 0), that it is there or gone; "Closed" says so of all. *)
(* The last signal about somebody is true; of whom nobody speaks the list   *)
(* knows the truth (Follows), where a client that a change of page took off *)
(* the list counts as gone: it is announced once (Announces), so it never   *)
(* comes back.  What the view heard of the server last (up) it may not      *)
(* remember, as isConnected_ is not the server's alone; but clients come    *)
(* only while it listens (Rising), so whoever is listed, up is true.        *)

-----------------------------------------------------------------------------
(* The signals and the calls *)

Signals == [kind : {"connected", "disconnected"}, id : Ids] \cup [kind : {"Open", "Closed"}, id : {0}]
Calls == [kind : {"listen", "closeAll", "close", "write", "remove"}, id : 0..MaxIds]

Tells(e, id) == e.id = id \/ e.kind = "Closed"
Comes(e) == e.kind \in {"connected", "Open"}

\* What the queue q, and then the set shown, says of id is whether it is there.
Follows(q, id, shown, there) ==
  /\ \A i \in 1..Len(q) :
       Tells(q[i], id) /\ (\A j \in 1..Len(q) : j > i => ~Tells(q[j], id)) =>
         (Comes(q[i]) <=> id \in there)
  /\ (\A i \in 1..Len(q) : ~Tells(q[i], id)) => (id \in shown <=> id \in there)

\* The oldest signal is heard.
LEMMA HeardFollows ==
  ASSUME NEW S, NEW q \in Seq(S), q # <<>>, NEW id, NEW shown, NEW there, NEW now,
         Follows(q, id, shown, there),
         Tells(Head(q), id) => (id \in now <=> Comes(Head(q))),
         ~Tells(Head(q), id) => (id \in now <=> id \in shown)
  PROVE  Follows(Tail(q), id, now, there)
<1> DEFINE r == Tail(q)
           n == Len(r)
<1>1. r \in Seq(S) /\ Head(q) = q[1] OBVIOUS
<1>2. n \in Nat /\ Len(q) = n + 1 /\ \A i \in 1..n : r[i] = q[i + 1] OBVIOUS
<1> HIDE DEF r
<1>3. ASSUME NEW i \in 1..n, Tells(r[i], id), \A j \in 1..n : j > i => ~Tells(r[j], id)
      PROVE  Comes(r[i]) <=> id \in there
  <2>1. i + 1 \in 1..Len(q) /\ r[i] = q[i + 1] BY <1>2
  <2>2. ASSUME NEW j \in 1..Len(q), j > i + 1 PROVE ~Tells(q[j], id)
    <3>1. j - 1 \in 1..n /\ j - 1 > i /\ q[j] = r[j - 1] BY <1>2, <2>2
    <3> QED BY <1>3, <3>1
  <2> QED BY <1>3, <2>1, <2>2 DEF Follows
<1>4. ASSUME \A i \in 1..n : ~Tells(r[i], id) PROVE id \in now <=> id \in there
  <2>1. ASSUME NEW j \in 1..Len(q), j > 1 PROVE ~Tells(q[j], id)
    <3>1. j - 1 \in 1..n /\ q[j] = r[j - 1] BY <1>2, <2>1
    <3> QED BY <1>4, <3>1
  <2>2. 1 \in 1..Len(q) BY <1>2
  <2>3. CASE Tells(q[1], id) BY <1>1, <2>1, <2>2, <2>3 DEF Follows
  <2>4. CASE ~Tells(q[1], id)
    <3>1. \A j \in 1..Len(q) : ~Tells(q[j], id) BY <1>2, <2>1, <2>4
    <3> QED BY <1>1, <2>4, <3>1 DEF Follows
  <2> QED BY <2>3, <2>4
<1> QED BY <1>3, <1>4 DEF Follows, r

\* New signals that say nothing of id while nothing about it changes, or the truth.
LEMMA AppendedFollows ==
  ASSUME NEW S, NEW q \in Seq(S), NEW w \in Seq(S), NEW id, NEW shown, NEW there, NEW now,
         NEW r, r = q \o w, Follows(q, id, shown, there),
         \/ /\ \A i \in 1..Len(w) : ~Tells(w[i], id)
            /\ id \in now <=> id \in there
         \/ /\ \E i \in 1..Len(w) : Tells(w[i], id)
            /\ \A i \in 1..Len(w) : Tells(w[i], id) => (Comes(w[i]) <=> id \in now)
  PROVE  Follows(r, id, shown, now)
<1> DEFINE m == Len(q)
           n == Len(w)
<1>1. m \in Nat /\ n \in Nat /\ Len(r) = m + n OBVIOUS
<1>2. (\A i \in 1..m : r[i] = q[i]) /\ (\A i \in 1..n : r[m + i] = w[i]) OBVIOUS
<1> HIDE DEF m, n
<1>3. \A i \in 1..Len(r) : i \in 1..m \/ (i - m \in 1..n /\ m + (i - m) = i) BY <1>1
<1>4. CASE /\ \A i \in 1..n : ~Tells(w[i], id)
           /\ id \in now <=> id \in there
  <2>1. \A i \in 1..Len(r) : Tells(r[i], id) => i \in 1..m BY <1>2, <1>3, <1>4
  <2>2. ASSUME NEW i \in 1..Len(r), Tells(r[i], id), \A j \in 1..Len(r) : j > i => ~Tells(r[j], id)
        PROVE  Comes(r[i]) <=> id \in now
    <3>1. i \in 1..m /\ r[i] = q[i] BY <1>2, <2>1, <2>2
    <3>2. ASSUME NEW j \in 1..m, j > i PROVE ~Tells(q[j], id)
      <4>1. j \in 1..Len(r) BY <1>1
      <4> QED BY <1>2, <2>2, <3>2, <4>1
    <3> QED BY <1>4, <2>2, <3>1, <3>2 DEF Follows, m
  <2>3. ASSUME \A i \in 1..Len(r) : ~Tells(r[i], id) PROVE id \in shown <=> id \in now
    <3>1. ASSUME NEW i \in 1..m PROVE ~Tells(q[i], id)
      <4>1. i \in 1..Len(r) BY <1>1
      <4> QED BY <1>2, <2>3, <4>1
    <3> QED BY <1>4, <3>1 DEF Follows, m
  <2> QED BY <2>2, <2>3 DEF Follows
<1>5. CASE /\ \E i \in 1..n : Tells(w[i], id)
           /\ \A i \in 1..n : Tells(w[i], id) => (Comes(w[i]) <=> id \in now)
  <2>1. PICK k \in 1..n : Tells(w[k], id) BY <1>5
  <2>2. m + k \in 1..Len(r) /\ Tells(r[m + k], id) BY <1>1, <1>2, <2>1
  <2>3. ASSUME NEW i \in 1..Len(r), Tells(r[i], id), \A j \in 1..Len(r) : j > i => ~Tells(r[j], id)
        PROVE  Comes(r[i]) <=> id \in now
    <3>1. ~(m + k > i) BY <2>2, <2>3
    <3>3. i \notin 1..m BY <1>1, <3>1
    <3>2. i - m \in 1..n /\ r[i] = w[i - m] BY <1>2, <1>3, <3>3
    <3> QED BY <1>5, <2>3, <3>2
  <2> QED BY <2>2, <2>3 DEF Follows
<1> QED BY <1>4, <1>5 DEF n

\* Every element of a set stands somewhere in each of its sequences.
LEMMA SetToSeqsFacts ==
  ASSUME NEW S, IsFiniteSet(S), NEW s \in SetToSeqs(S)
  PROVE  s \in Seq(S) /\ \A x \in S : \E i \in 1..Len(s) : s[i] = x
<1> DEFINE n == Cardinality(S)
<1>1. n \in Nat BY FS_CardinalityType
<1>2. s \in [1..n -> S] /\ \A i, j \in 1..n : i # j => s[i] # s[j] BY DEF SetToSeqs
<1> HIDE DEF n
<1>3. IsFiniteSet(1..n) /\ Cardinality(1..n) = n
  <2>1. 1 \in Int /\ n \in Int BY <1>1
  <2>2. IsFiniteSet(1..n) /\ Cardinality(1..n) = IF 1 > n THEN 0 ELSE n - 1 + 1 BY <2>1, FS_Interval
  <2> QED BY <1>1, <2>2
<1>4. s \in Injection(1..n, S) BY <1>2 DEF Injection, IsInjective
<1>5. s \in Surjection(1..n, S) BY <1>3, <1>4, FS_Injection DEF n
<1>6. \A x \in S : \E i \in 1..n : s[i] = x BY <1>5 DEF Surjection
<1>7. s \in Seq(S) /\ Len(s) = n BY <1>1, <1>2
<1> QED BY <1>6, <1>7

\* The calls for a list of clients.
LEMMA EachToFacts ==
  ASSUME NEW ids \in Seq(Ids), NEW k \in {"close", "write", "disconnected"}, NEW w,
         w = EachTo(k, ids)
  PROVE  /\ w \in Seq(IF k = "disconnected" THEN Signals ELSE Calls)
         /\ Len(w) = Len(ids) /\ \A i \in 1..Len(w) : w[i].kind = k /\ w[i].id = ids[i]
<1> DEFINE T == IF k = "disconnected" THEN Signals ELSE Calls
           n == Len(ids)
<1>1. ASSUME NEW id \in Ids PROVE ServerCall(k, id) \in T
  <2>1. id \in 0..MaxIds BY MaxIdsAssumption DEF Ids
  <2>2. CASE k = "disconnected" BY <2>2 DEF ServerCall, Signals
  <2>3. CASE k # "disconnected" BY <2>1, <2>3 DEF ServerCall, Calls
  <2> QED BY <2>2, <2>3
<1>2. n \in Nat /\ DOMAIN ids = 1..n /\ \A i \in 1..n : ids[i] \in Ids OBVIOUS
<1> HIDE DEF T, n
<1>3. w = [i \in 1..n |-> ServerCall(k, ids[i])] BY <1>2 DEF EachTo
<1>4. w \in [1..n -> T] BY <1>1, <1>2, <1>3
<1>5. w \in Seq(T) /\ Len(w) = n BY <1>2, <1>4
<1>6. \A i \in 1..n : w[i].kind = k /\ w[i].id = ids[i] BY <1>3 DEF ServerCall
<1> QED BY <1>5, <1>6 DEF T, n

\* A kind that waits goes on waiting until it is handled.
Some(q, K) == \E i \in 1..Len(q) : q[i].kind \in K

LEMMA SomeAppended ==
  ASSUME NEW S, NEW q \in Seq(S), NEW w \in Seq(S), NEW K, NEW r, r = q \o w,
         Some(q, K) \/ Some(w, K)
  PROVE  Some(r, K)
<1>1. /\ Len(r) = Len(q) + Len(w) /\ Len(q) \in Nat /\ Len(w) \in Nat
      /\ \A i \in 1..Len(q) : r[i] = q[i]
      /\ \A i \in 1..Len(w) : r[Len(q) + i] = w[i]
  OBVIOUS
<1>2. CASE Some(q, K)
  <2>1. PICK i \in 1..Len(q) : q[i].kind \in K BY <1>2 DEF Some
  <2>2. i \in 1..Len(r) /\ r[i].kind \in K BY <1>1, <2>1
  <2> QED BY <2>2 DEF Some
<1>3. CASE Some(w, K)
  <2>1. PICK i \in 1..Len(w) : w[i].kind \in K BY <1>3 DEF Some
  <2>2. Len(q) + i \in 1..Len(r) /\ r[Len(q) + i].kind \in K BY <1>1, <2>1
  <2> QED BY <2>2 DEF Some
<1> QED BY <1>2, <1>3

LEMMA SomeHandled ==
  ASSUME NEW S, NEW q \in Seq(S), q # <<>>, NEW K, Some(q, K), Head(q).kind \notin K
  PROVE  Some(Tail(q), K)
<1> DEFINE r == Tail(q)
<1>1. Head(q) = q[1] /\ Len(q) \in Nat OBVIOUS
<1>2. Len(r) = Len(q) - 1 /\ \A i \in 1..Len(r) : r[i] = q[i + 1] OBVIOUS
<1> HIDE DEF r
<1>3. PICK i \in 1..Len(q) : q[i].kind \in K BY DEF Some
<1>4. i # 1 BY <1>1, <1>3
<1>5. i - 1 \in 1..Len(r) /\ r[i - 1] = q[i] BY <1>1, <1>2, <1>4
<1>6. Some(r, K) BY <1>3, <1>5 DEF Some
<1> QED BY <1>6 DEF r

-----------------------------------------------------------------------------
(* Who is announced, and when the server listens *)

\* Each client is announced once, and not again when the list has or had it.
Announces(q, met, next) ==
  \A i \in 1..Len(q) : q[i].kind = "connected" =>
    /\ q[i].id < next /\ q[i].id \notin met
    /\ \A j \in 1..Len(q) : j # i /\ q[j].kind = "connected" => q[j].id # q[i].id

LEMMA HeardAnnounces ==
  ASSUME NEW S, NEW q \in Seq(S), q # <<>>, NEW met, NEW next, NEW now, Announces(q, met, next),
         now \subseteq met \cup (IF Head(q).kind = "connected" THEN {Head(q).id} ELSE {})
  PROVE  Announces(Tail(q), now, next)
<1> DEFINE r == Tail(q)
           n == Len(r)
<1>1. r \in Seq(S) /\ Head(q) = q[1] OBVIOUS
<1>2. n \in Nat /\ Len(q) = n + 1 /\ \A i \in 1..n : r[i] = q[i + 1] OBVIOUS
<1> HIDE DEF r
<1>3. ASSUME NEW i \in 1..n, r[i].kind = "connected"
      PROVE  /\ r[i].id < next /\ r[i].id \notin now
             /\ \A j \in 1..n : j # i /\ r[j].kind = "connected" => r[j].id # r[i].id
  <2>1. i + 1 \in 1..Len(q) /\ 1 \in 1..Len(q) /\ i + 1 # 1 /\ r[i] = q[i + 1] BY <1>2
  <2>2. q[i + 1].id < next /\ q[i + 1].id \notin met BY <1>3, <2>1 DEF Announces
  <2>3. \A j \in 1..Len(q) : j # i + 1 /\ q[j].kind = "connected" => q[j].id # q[i + 1].id
    BY <1>3, <2>1 DEF Announces
  <2>4. q[1].kind = "connected" => q[1].id # q[i + 1].id BY <2>1, <2>3
  <2>5. q[i + 1].id \notin now BY <1>1, <2>2, <2>4
  <2>6. ASSUME NEW j \in 1..n, j # i, r[j].kind = "connected" PROVE r[j].id # r[i].id
    <3>1. j + 1 \in 1..Len(q) /\ j + 1 # i + 1 /\ r[j] = q[j + 1] BY <1>2, <2>6
    <3> QED BY <2>1, <2>3, <2>6, <3>1
  <2> QED BY <2>1, <2>2, <2>5, <2>6
<1> QED BY <1>3 DEF Announces, r

LEMMA AnnouncedIds ==
  ASSUME NEW q \in Seq(Signals)
  PROVE  \A i \in 1..Len(q) : q[i].kind = "connected" => q[i].id \in Nat
<1>1. \A i \in 1..Len(q) : q[i] \in Signals OBVIOUS
<1> QED BY <1>1, MaxIdsAssumption DEF Signals, Ids

\* New signals that announce nobody, or the next one.
LEMMA AppendedAnnounces ==
  ASSUME NEW S, NEW q \in Seq(S), NEW w \in Seq(S), NEW met, NEW next \in Nat, NEW then \in Nat,
         NEW r, r = q \o w, Announces(q, met, next), next <= then,
         \A i \in 1..Len(q) : q[i].kind = "connected" => q[i].id \in Nat,
         \/ \A i \in 1..Len(w) : w[i].kind # "connected"
         \/ Len(w) = 1 /\ w[1].id = next /\ next < then /\ next \notin met
  PROVE  Announces(r, met, then)
<1> DEFINE m == Len(q)
           n == Len(w)
<1>1. m \in Nat /\ n \in Nat /\ Len(r) = m + n OBVIOUS
<1>2. (\A i \in 1..m : r[i] = q[i]) /\ (\A i \in 1..n : r[m + i] = w[i]) OBVIOUS
<1>3. \A i \in 1..m : q[i].kind = "connected" => q[i].id \in Nat OBVIOUS
<1>4. \/ \A i \in 1..n : w[i].kind # "connected"
      \/ n = 1 /\ w[1].id = next /\ next < then /\ next \notin met
  OBVIOUS
<1>5. \A i \in 1..m : q[i].kind = "connected" =>
        /\ q[i].id < next /\ q[i].id \notin met
        /\ \A j \in 1..m : j # i /\ q[j].kind = "connected" => q[j].id # q[i].id
  BY DEF Announces
<1> HIDE DEF m, n
<1>6. ASSUME NEW i \in 1..Len(r), r[i].kind = "connected"
      PROVE  (i \in 1..m /\ r[i] = q[i]) \/ (i = m + 1 /\ r[i] = w[1] /\ n = 1)
  <2>1. CASE i \in 1..m BY <1>2, <2>1
  <2>2. CASE i \notin 1..m
    <3>1. i - m \in 1..n /\ m + (i - m) = i BY <1>1, <2>2
    <3>2. r[i] = w[i - m] BY <1>2, <3>1
    <3>3. n = 1 BY <1>4, <1>6, <3>1, <3>2
    <3>4. i - m = 1 /\ i = m + 1 BY <1>1, <3>1, <3>3
    <3> QED BY <3>2, <3>3, <3>4
  <2> QED BY <2>1, <2>2
<1>7. ASSUME NEW i \in 1..Len(r), r[i].kind = "connected" PROVE r[i].id < then /\ r[i].id \notin met
  <2>1. CASE i \in 1..m /\ r[i] = q[i] BY <1>3, <1>5, <1>7, <2>1
  <2>2. CASE i = m + 1 /\ r[i] = w[1] /\ n = 1 BY <1>4, <1>7, <2>2
  <2> QED BY <1>6, <1>7, <2>1, <2>2
<1>8. ASSUME NEW i \in 1..Len(r), NEW j \in 1..Len(r), j # i,
             r[i].kind = "connected", r[j].kind = "connected"
      PROVE  r[j].id # r[i].id
  <2>1. CASE i \in 1..m /\ r[i] = q[i] /\ j \in 1..m /\ r[j] = q[j] BY <1>5, <1>8, <2>1
  <2>2. CASE i \in 1..m /\ r[i] = q[i] /\ j = m + 1 /\ r[j] = w[1] /\ n = 1
    BY <1>3, <1>4, <1>5, <1>8, <2>2
  <2>3. CASE j \in 1..m /\ r[j] = q[j] /\ i = m + 1 /\ r[i] = w[1] /\ n = 1
    <3>1. q[j].id < next /\ q[j].id \in Nat BY <1>3, <1>5, <1>8, <2>3
    <3>2. r[i].id = next BY <1>4, <1>8, <2>3
    <3> QED BY <2>3, <3>1, <3>2
  <2>4. (i \in 1..m /\ r[i] = q[i]) \/ (i = m + 1 /\ r[i] = w[1] /\ n = 1) BY <1>6, <1>8
  <2>5. (j \in 1..m /\ r[j] = q[j]) \/ (j = m + 1 /\ r[j] = w[1] /\ n = 1) BY <1>6, <1>8
  <2> QED BY <1>8, <2>1, <2>2, <2>3, <2>4, <2>5
<1> QED BY <1>7, <1>8 DEF Announces

\* When the i-th signal is heard, the server is known to listen.
Rising(q, i, up) ==
  /\ \A j \in 1..(i - 1) : q[j].kind = "Closed" => \E k \in (j + 1)..(i - 1) : q[k].kind = "Open"
  /\ 0 \in up \/ \E k \in 1..(i - 1) : q[k].kind = "Open"

\* What is heard of the server, and what is true of it, are {0} or {}.
The(listening) == IF listening THEN {0} ELSE {}

Informed(q, up, open) ==
  /\ Follows(q, 0, up, open)
  /\ 0 \in open => Rising(q, Len(q) + 1, up)
  /\ \A i \in 1..Len(q) : q[i].kind = "connected" => Rising(q, i, up)

After(e, up) == IF e.kind = "Open" THEN {0} ELSE IF e.kind = "Closed" THEN {} ELSE up

LEMMA HeardRising ==
  ASSUME NEW S, NEW q \in Seq(S), q # <<>>, NEW up, NEW i \in 1..Len(q),
         Rising(q, i + 1, up)
  PROVE  Rising(Tail(q), i, After(Head(q), up))
<1> DEFINE r == Tail(q)
           n == Len(r)
<1>1. r \in Seq(S) /\ Head(q) = q[1] OBVIOUS
<1>2. n \in Nat /\ Len(q) = n + 1 /\ \A k \in 1..n : r[k] = q[k + 1] OBVIOUS
<1> HIDE DEF r
<1>3. ASSUME NEW j \in 1..(i - 1), r[j].kind = "Closed"
      PROVE  \E k \in (j + 1)..(i - 1) : r[k].kind = "Open"
  <2>1. j + 1 \in 1..((i + 1) - 1) /\ r[j] = q[j + 1] BY <1>2
  <2>2. PICK k \in ((j + 1) + 1)..((i + 1) - 1) : q[k].kind = "Open" BY <1>3, <2>1 DEF Rising
  <2>3. k - 1 \in (j + 1)..(i - 1) /\ k - 1 \in 1..n /\ (k - 1) + 1 = k BY <1>2, <2>2
  <2>4. r[k - 1] = q[k] BY <1>2, <2>3
  <2> QED BY <2>2, <2>3, <2>4
<1>4. 0 \in After(q[1], up) \/ \E k \in 1..(i - 1) : r[k].kind = "Open"
  <2>1. ASSUME NEW k \in 2..i, q[k].kind = "Open" PROVE \E l \in 1..(i - 1) : r[l].kind = "Open"
    <3>1. k - 1 \in 1..(i - 1) /\ k - 1 \in 1..n /\ (k - 1) + 1 = k BY <1>2
    <3>2. r[k - 1] = q[k] BY <1>2, <3>1
    <3> QED BY <2>1, <3>1, <3>2
  <2>2. CASE q[1].kind = "Closed"
    <3>1. 1 \in 1..((i + 1) - 1) BY <1>2
    <3>2. PICK k \in (1 + 1)..((i + 1) - 1) : q[k].kind = "Open" BY <2>2, <3>1 DEF Rising
    <3>3. k \in 2..i BY <3>2
    <3> QED BY <2>1, <3>2, <3>3
  <2>3. CASE q[1].kind = "Open" BY <2>3 DEF After
  <2>4. CASE q[1].kind # "Closed" /\ q[1].kind # "Open"
    <3>1. CASE 0 \in up BY <2>4, <3>1 DEF After
    <3>2. CASE \E k \in 1..((i + 1) - 1) : q[k].kind = "Open"
      <4>1. PICK k \in 1..((i + 1) - 1) : q[k].kind = "Open" BY <3>2
      <4>2. k # 1 BY <2>4, <4>1
      <4>3. k \in 2..i BY <1>2, <4>1, <4>2
      <4> QED BY <2>1, <4>1, <4>3
    <3> QED BY <3>1, <3>2 DEF Rising
  <2> QED BY <2>2, <2>3, <2>4
<1> QED BY <1>1, <1>3, <1>4 DEF Rising, r

\* The oldest signal is heard; a client's coming is heard while the server listens.
LEMMA HeardTold ==
  ASSUME NEW q \in Seq(Signals), q # <<>>, NEW up, NEW open,
         Informed(q, up, open), NEW now, now = After(Head(q), up)
  PROVE  Informed(Tail(q), now, open) /\ (Head(q).kind = "connected" => 0 \in up)
<1> DEFINE r == Tail(q)
           n == Len(r)
<1>1. r \in Seq(Signals) /\ Head(q) = q[1] /\ q[1] \in Signals OBVIOUS
<1>2. n \in Nat /\ Len(q) = n + 1 /\ 1 \in 1..Len(q) /\ \A i \in 1..n : r[i] = q[i + 1] OBVIOUS
<1>3. Follows(r, 0, now, open)
  <2> DEFINE e == Head(q)
  <2>1. Tells(e, 0) <=> e.kind \in {"Open", "Closed"}
    BY <1>1, MaxIdsAssumption DEF Signals, Tells, Ids
  <2>2. Tells(e, 0) => (0 \in now <=> Comes(e)) BY <2>1 DEF After, Comes
  <2>3. ~Tells(e, 0) => (0 \in now <=> 0 \in up) BY <2>1 DEF After
  <2>4. Follows(q, 0, up, open) BY DEF Informed
  <2> HIDE DEF e, r
  <2> QED BY <2>2, <2>3, <2>4, HeardFollows DEF e, r
<1> HIDE DEF r
<1>4. 0 \in open => Rising(r, n + 1, now)
  <2>1. n + 1 \in 1..Len(q) /\ (n + 1) + 1 = Len(q) + 1 BY <1>2
  <2> QED BY <2>1, HeardRising DEF Informed, r
<1>5. ASSUME NEW i \in 1..n, r[i].kind = "connected" PROVE Rising(r, i, now)
  <2>1. i \in 1..Len(q) /\ i + 1 \in 1..Len(q) /\ q[i + 1].kind = "connected" BY <1>2, <1>5
  <2>2. Rising(q, i + 1, up) BY <2>1 DEF Informed
  <2> QED BY <2>1, <2>2, HeardRising DEF r
<1>6. ASSUME q[1].kind = "connected" PROVE 0 \in up
  <2>1. Rising(q, 1, up) BY <1>2, <1>6 DEF Informed
  <2>2. \A k \in 1..(1 - 1) : FALSE OBVIOUS
  <2> QED BY <2>1, <2>2 DEF Rising
<1> QED BY <1>1, <1>3, <1>4, <1>5, <1>6 DEF Informed, r

LEMMA AppendedRising ==
  ASSUME NEW S, NEW q \in Seq(S), NEW w \in Seq(S), NEW r, r = q \o w, NEW up,
         NEW i \in 1..(Len(q) + 1), Rising(q, i, up)
  PROVE  Rising(r, i, up)
<1>1. Len(q) \in Nat /\ \A k \in 1..Len(q) : r[k] = q[k] OBVIOUS
<1>2. \A k \in 1..(i - 1) : k \in 1..Len(q) /\ r[k] = q[k] BY <1>1
<1>3. \A j \in 1..(i - 1) : \A k \in (j + 1)..(i - 1) : k \in 1..(i - 1) BY <1>1
<1> QED BY <1>2, <1>3 DEF Rising

\* Signals of clients that go.
LEMMA AppendedTold ==
  ASSUME NEW q \in Seq(Signals), NEW w \in Seq(Signals), NEW r, r = q \o w,
         NEW up, NEW open, Informed(q, up, open),
         \A i \in 1..Len(w) : w[i].kind = "disconnected" \/ (0 \in open /\ Len(w) = 1 /\ w[i].kind = "connected")
  PROVE  Informed(r, up, open)
<1> DEFINE m == Len(q)
           n == Len(w)
<1>1. m \in Nat /\ n \in Nat /\ Len(r) = m + n OBVIOUS
<1>2. (\A i \in 1..m : r[i] = q[i]) /\ (\A i \in 1..n : r[m + i] = w[i]) OBVIOUS
<1>3. \A i \in 1..n : w[i] \in Signals OBVIOUS
<1>5. \A i \in 1..n : w[i].kind \notin {"Open", "Closed"} OBVIOUS
<1>4. ASSUME NEW i \in 1..n PROVE ~Tells(w[i], 0)
  <2>1. w[i] \in Signals /\ w[i].kind \notin {"Open", "Closed"} BY <1>3, <1>5
  <2>2. w[i].id \in Ids BY <2>1 DEF Signals
  <2> QED BY <2>1, <2>2, MaxIdsAssumption DEF Tells, Ids
<1>6. \A i \in 1..n : w[i].kind = "connected" => 0 \in open /\ n = 1 OBVIOUS
<1>7. Follows(r, 0, up, open)
  <2>1. Follows(q, 0, up, open) BY DEF Informed
  <2>2. (\A i \in 1..Len(w) : ~Tells(w[i], 0)) /\ (0 \in open <=> 0 \in open) BY <1>4
  <2> HIDE DEF m, n
  <2> QED BY <2>1, <2>2, AppendedFollows
<1>8. ASSUME NEW i \in 1..(m + 1), Rising(q, i, up) PROVE Rising(r, i, up)
  <2>1. i \in 1..(Len(q) + 1) OBVIOUS
  <2> HIDE DEF m, n
  <2> QED BY <1>8, <2>1, AppendedRising
<1> HIDE DEF m, n
<1>9. ASSUME 0 \in open PROVE Rising(r, Len(r) + 1, up)
  <2>0. Rising(q, m + 1, up)
    <3>1. m = Len(q) BY DEF m
    <3>2. Rising(q, Len(q) + 1, up) BY <1>9 DEF Informed
    <3> QED BY <3>1, <3>2
  <2>1. Rising(r, m + 1, up)
    <3>1. m + 1 \in 1..(m + 1) BY <1>1
    <3> QED BY <1>8, <2>0, <3>1
  <2>2. ASSUME NEW j \in 1..((Len(r) + 1) - 1), r[j].kind \in {"Open", "Closed"} PROVE j \in 1..m
    <3>1. j \in 1..m \/ (j - m \in 1..n /\ m + (j - m) = j) BY <1>1
    <3> QED BY <1>2, <1>5, <2>2, <3>1
  <2>3. ASSUME NEW j \in 1..((Len(r) + 1) - 1), r[j].kind = "Closed"
        PROVE  \E k \in (j + 1)..((Len(r) + 1) - 1) : r[k].kind = "Open"
    <3>1. j \in 1..((m + 1) - 1) BY <1>1, <2>2, <2>3
    <3>2. PICK k \in (j + 1)..((m + 1) - 1) : r[k].kind = "Open" BY <2>1, <2>3, <3>1 DEF Rising
    <3>3. k \in (j + 1)..((Len(r) + 1) - 1) BY <1>1, <3>2
    <3> QED BY <3>2, <3>3
  <2>4. 0 \in up \/ \E k \in 1..((Len(r) + 1) - 1) : r[k].kind = "Open"
    <3>1. \A k \in 1..((m + 1) - 1) : k \in 1..((Len(r) + 1) - 1) BY <1>1
    <3> QED BY <2>1, <3>1 DEF Rising
  <2> QED BY <2>3, <2>4 DEF Rising
<1>10. ASSUME NEW i \in 1..Len(r), r[i].kind = "connected" PROVE Rising(r, i, up)
  <2>1. CASE i \in 1..m
    <3>1. i \in 1..(m + 1) /\ q[i].kind = "connected" BY <1>1, <1>2, <1>10, <2>1
    <3> QED BY <1>8, <2>1, <3>1 DEF Informed, m
  <2>2. CASE i \notin 1..m
    <3>0. i - m \in 1..n /\ m + (i - m) = i BY <1>1, <2>2
    <3>1. i - m \in 1..n /\ r[i] = w[i - m] BY <1>2, <3>0
    <3>2. 0 \in open /\ n = 1 BY <1>6, <1>10, <3>1
    <3>3. i = m + 1 /\ m + 1 \in 1..(m + 1) BY <1>1, <3>1, <3>2
    <3>4. m = Len(q) BY DEF m
    <3>5. Rising(q, Len(q) + 1, up) BY <3>2 DEF Informed
    <3> QED BY <1>8, <3>3, <3>4, <3>5
  <2> QED BY <2>1, <2>2
<1> QED BY <1>7, <1>9, <1>10 DEF Informed

\* The server says whether it listens.
LEMMA StateTold ==
  ASSUME NEW q \in Seq(Signals), NEW e \in Signals, NEW r, r = Append(q, e),
         NEW up, NEW open, Informed(q, up, open),
         NEW now \in SUBSET {0}, e.kind = IF 0 \in now THEN "Open" ELSE "Closed"
  PROVE  Informed(r, up, now)
<1> DEFINE m == Len(q)
           w == <<e>>
<1>1. /\ m \in Nat /\ Len(r) = m + 1 /\ r[m + 1] = e /\ w \in Seq(Signals) /\ r = q \o w
      /\ Len(w) = 1 /\ w[1] = e /\ \A i \in 1..m : r[i] = q[i]
  OBVIOUS
<1>2. Tells(e, 0) /\ (Comes(e) <=> 0 \in now)
  BY DEF Tells, Comes, Signals
<1> HIDE DEF w
<1>3. Follows(r, 0, up, now)
  <2>1. 1 \in 1..Len(w) /\ \A i \in 1..Len(w) : w[i] = e BY <1>1
  <2>3. Follows(q, 0, up, open) BY DEF Informed
  <2>4. /\ \E i \in 1..Len(w) : Tells(w[i], 0)
        /\ \A i \in 1..Len(w) : Tells(w[i], 0) => (Comes(w[i]) <=> 0 \in now)
    BY <1>2, <2>1
  <2> QED BY <1>1, <2>3, <2>4, AppendedFollows
<1>4. ASSUME NEW i \in 1..(m + 1), Rising(q, i, up) PROVE Rising(r, i, up)
  <2>1. i \in 1..(Len(q) + 1) OBVIOUS
  <2> HIDE DEF m
  <2> QED BY <1>1, <1>4, <2>1, AppendedRising
<1> HIDE DEF m
<1>5. ASSUME 0 \in now PROVE Rising(r, Len(r) + 1, up)
  <2>1. m + 1 \in 1..((Len(r) + 1) - 1) /\ r[m + 1].kind = "Open" BY <1>1, <1>5
  <2>2. ASSUME NEW j \in 1..((Len(r) + 1) - 1), r[j].kind = "Closed"
        PROVE  m + 1 \in (j + 1)..((Len(r) + 1) - 1)
    <3>1. j # m + 1 BY <2>1, <2>2
    <3> QED BY <1>1, <3>1
  <2> QED BY <2>1, <2>2 DEF Rising
<1>6. ASSUME NEW i \in 1..Len(r), r[i].kind = "connected" PROVE Rising(r, i, up)
  <2>1. i # m + 1 BY <1>1, <1>6
  <2>2. i \in 1..m /\ i \in 1..(m + 1) BY <1>1, <2>1
  <2>3. q[i].kind = "connected" BY <1>1, <1>6, <2>2
  <2> QED BY <1>4, <2>2, <2>3 DEF Informed, m
<1> QED BY <1>3, <1>5, <1>6 DEF Informed

-----------------------------------------------------------------------------
(* The panel *)

Injective(s) == \A i, j \in 1..Len(s) : s[i] = s[j] => i = j

LEMMA ToSetFacts ==
  ASSUME NEW S, NEW s \in Seq(S)
  PROVE  /\ ToSet(s) \subseteq S
         /\ \A x : x \in ToSet(s) <=> \E i \in 1..Len(s) : s[i] = x
         /\ ToSet(s) = {} <=> s = <<>>
BY DEF ToSet

Joined(s, x) == Append(s, x)

LEMMA OneMore ==
  ASSUME NEW S, NEW s \in Seq(S), Injective(s), NEW x \in S, x \notin ToSet(s),
         NEW r, r = Joined(s, x)
  PROVE  r \in Seq(S) /\ Injective(r) /\ ToSet(r) = ToSet(s) \cup {x}
<1> DEFINE n == Len(s)
<1>1. /\ n \in Nat /\ r \in Seq(S) /\ Len(r) = n + 1 /\ r[n + 1] = x
      /\ \A i \in 1..n : r[i] = s[i]
  BY DEF Joined
<1>2. \A i \in 1..n : s[i] # x BY ToSetFacts
<1>3. \A i \in 1..Len(r) : i \in 1..n \/ i = n + 1 BY <1>1
<1>4. \A i, j \in 1..n : s[i] = s[j] => i = j BY DEF Injective
<1> HIDE DEF n
<1>5. Injective(r)
  <2> SUFFICES ASSUME NEW i \in 1..Len(r), NEW j \in 1..Len(r), r[i] = r[j] PROVE i = j
    BY DEF Injective
  <2> QED BY <1>1, <1>2, <1>3, <1>4
<1>6. \A y : y \in ToSet(r) <=> y \in ToSet(s) \/ y = x
  <2>1. \A y : (\E i \in 1..Len(r) : r[i] = y) <=> ((\E i \in 1..n : s[i] = y) \/ y = x)
    <3> TAKE y
    <3>1. n + 1 \in 1..Len(r) /\ \A i \in 1..n : i \in 1..Len(r) BY <1>1
    <3> QED BY <1>1, <1>3, <3>1
  <2>2. \A y : y \in ToSet(r) <=> \E i \in 1..Len(r) : r[i] = y BY <1>1, ToSetFacts
  <2>3. \A y : y \in ToSet(s) <=> \E i \in 1..n : s[i] = y BY ToSetFacts DEF n
  <2> QED BY <2>1, <2>2, <2>3
<1> QED BY <1>1, <1>5, <1>6

LEMMA Concatenated ==
  ASSUME NEW S, NEW a \in Seq(S), NEW b \in Seq(S), NEW r, r = a \o b
  PROVE  /\ r \in Seq(S) /\ Len(r) = Len(a) + Len(b)
         /\ \A i \in 1..Len(r) : r[i] = IF i <= Len(a) THEN a[i] ELSE b[i - Len(a)]
<1>1. r \in Seq(S) /\ Len(r) = Len(a) + Len(b) OBVIOUS
<1> QED BY <1>1

LEMMA OneLess ==
  ASSUME NEW S, NEW s \in Seq(S), Injective(s), NEW k \in 1..Len(s), NEW r, r = RemoveAt(s, k)
  PROVE  r \in Seq(S) /\ Injective(r) /\ ToSet(r) = ToSet(s) \ {s[k]}
<1> DEFINE n == Len(s)
           a == SubSeq(s, 1, k - 1)
           b == SubSeq(s, k + 1, n)
<1>1. n \in Nat /\ k \in 1..n OBVIOUS
<1>2. a \in Seq(S) /\ Len(a) = k - 1 /\ \A i \in 1..(k - 1) : a[i] = s[i] OBVIOUS
<1>3. b \in Seq(S) /\ Len(b) = n - k /\ \A i \in 1..(n - k) : b[i] = s[k + i] OBVIOUS
<1>4. r = a \o b BY DEF RemoveAt
<1> HIDE DEF n, a, b
<1>5. r \in Seq(S) /\ Len(r) = n - 1
  <2>3. a \in Seq(S) /\ b \in Seq(S) BY <1>2, <1>3
  <2>1. r \in Seq(S) /\ Len(r) = Len(a) + Len(b) BY <2>3, <1>4, Concatenated
  <2>2. (k - 1) + (n - k) = n - 1 BY <1>1
  <2> QED BY <1>2, <1>3, <2>1, <2>2
<1>6. \A i \in 1..Len(r) : r[i] = IF i < k THEN s[i] ELSE s[i + 1]
  <2> TAKE i \in 1..Len(r)
  <2>0. r[i] = IF i <= Len(a) THEN a[i] ELSE b[i - Len(a)]
    <3>1. a \in Seq(S) /\ b \in Seq(S) BY <1>2, <1>3
    <3> QED BY <1>4, <3>1, Concatenated
  <2>1. CASE i < k
    <3>1. i \in 1..(k - 1) /\ i <= k - 1 BY <1>1, <1>5, <2>1
    <3> QED BY <1>2, <2>0, <2>1, <3>1
  <2>2. CASE i >= k
    <3>1. r[i] = b[i - (k - 1)]
      <4>1. ~(i <= k - 1) BY <1>1, <1>5, <2>2
      <4> QED BY <1>2, <2>0, <4>1
    <3>2. i - (k - 1) \in 1..(n - k) BY <1>1, <1>5, <2>2
    <3>3. k + (i - (k - 1)) = i + 1 BY <1>1, <1>5
    <3> QED BY <1>1, <1>3, <1>5, <2>2, <3>1, <3>2, <3>3
  <2> QED BY <1>1, <1>5, <2>1, <2>2
<1>7. \A i, j \in 1..n : s[i] = s[j] => i = j BY DEF Injective, n
<1>8. Injective(r)
  <2> SUFFICES ASSUME NEW i \in 1..Len(r), NEW j \in 1..Len(r), r[i] = r[j] PROVE i = j
    BY DEF Injective
  <2>1. i \in 1..n /\ i + 1 \in 1..n /\ j \in 1..n /\ j + 1 \in 1..n BY <1>1, <1>5
  <2>2. r[i] = (IF i < k THEN s[i] ELSE s[i + 1]) /\ r[j] = (IF j < k THEN s[j] ELSE s[j + 1])
    BY <1>6
  <2>3. CASE i < k /\ j < k BY <1>7, <2>1, <2>2, <2>3
  <2>4. CASE ~(i < k) /\ ~(j < k)
    <3>1. s[i + 1] = s[j + 1] BY <2>2, <2>4
    <3>2. i + 1 = j + 1 BY <1>7, <2>1, <3>1
    <3> QED BY <3>2
  <2>5. CASE i < k /\ ~(j < k)
    <3>1. s[i] = s[j + 1] BY <2>2, <2>5
    <3>2. i = j + 1 BY <1>7, <2>1, <3>1
    <3> QED BY <1>1, <2>1, <2>5, <3>2
  <2>6. CASE ~(i < k) /\ j < k
    <3>1. s[i + 1] = s[j] BY <2>2, <2>6
    <3>2. i + 1 = j BY <1>7, <2>1, <3>1
    <3> QED BY <1>1, <2>1, <2>6, <3>2
  <2> QED BY <2>3, <2>4, <2>5, <2>6
<1>9. \A y : (\E i \in 1..Len(r) : r[i] = y) <=> ((\E i \in 1..n : s[i] = y) /\ y # s[k])
  <2> TAKE y
  <2>1. ASSUME NEW i \in 1..Len(r), r[i] = y PROVE (\E j \in 1..n : s[j] = y) /\ y # s[k]
    <3> DEFINE j == IF i < k THEN i ELSE i + 1
    <3>1. j \in 1..n /\ j # k /\ s[j] = y BY <1>1, <1>5, <1>6, <2>1
    <3> QED BY <1>1, <1>7, <3>1
  <2>2. ASSUME NEW j \in 1..n, s[j] = y, y # s[k] PROVE \E i \in 1..Len(r) : r[i] = y
    <3> DEFINE i == IF j < k THEN j ELSE j - 1
    <3>1. j # k BY <2>2
    <3>2. i \in 1..Len(r) /\ r[i] = y BY <1>1, <1>5, <1>6, <2>2, <3>1
    <3> QED BY <3>2
  <2> QED BY <2>1, <2>2
<1>10. \A y : y \in ToSet(r) <=> \E i \in 1..Len(r) : r[i] = y BY <1>5, ToSetFacts
<1>11. \A y : y \in ToSet(s) <=> \E i \in 1..n : s[i] = y BY ToSetFacts DEF n
<1> QED BY <1>5, <1>8, <1>9, <1>10, <1>11

Displays == {"Disconnected", "Connecting", "Connected", "Disconnecting"}
ListSet == [page : Pages, connected : BOOLEAN, display : Displays, shown : Seq(Ids),
            selected : SUBSET Ids, broadcast : BOOLEAN]

\* Nobody is listed twice, and what is sent to is listed.
PanelSound(p) ==
  /\ p \in ListSet /\ Injective(p.shown)
  /\ p.selected \subseteq ToSet(p.shown) /\ (p.broadcast => p.shown # <<>>)

LEMMA AddSound ==
  ASSUME NEW p, PanelSound(p), NEW id \in Ids, NEW n, n = AddClient(p, id)
  PROVE  /\ PanelSound(n) /\ ToSet(n.shown) = ToSet(p.shown) \cup {id}
         /\ n.connected = p.connected /\ n.display = p.display
<1> DEFINE left == IF id \in ToSet(p.shown) THEN p.shown ELSE Append(p.shown, id)
           sel == IF p.selected = {} /\ ~p.broadcast THEN {id} ELSE p.selected
<1>1. p \in ListSet BY DEF PanelSound
<1>2. n = [p EXCEPT !.shown = left, !.selected = sel] BY <1>1 DEF AddClient, ListSet
<1>3. p.shown \in Seq(Ids) /\ Injective(p.shown) BY <1>1 DEF PanelSound, ListSet
<1>4. left \in Seq(Ids) /\ Injective(left) /\ ToSet(left) = ToSet(p.shown) \cup {id}
  <2>1. CASE id \in ToSet(p.shown) BY <1>3, <2>1
  <2>2. CASE id \notin ToSet(p.shown)
    <3> DEFINE sh == p.shown
    <3>1. left = Joined(sh, id) BY <2>2 DEF Joined
    <3>2. sh \in Seq(Ids) /\ Injective(sh) /\ id \notin ToSet(sh) BY <1>3, <2>2
    <3> HIDE DEF left, sh
    <3>3. left \in Seq(Ids) /\ Injective(left) /\ ToSet(left) = ToSet(sh) \cup {id}
      BY <3>1, <3>2, OneMore
    <3> QED BY <3>3 DEF sh
  <2> QED BY <2>1, <2>2
<1>5. sel \in SUBSET Ids /\ sel \subseteq ToSet(left) BY <1>1, <1>4 DEF PanelSound, ListSet
<1>6. left # <<>> BY <1>4, ToSetFacts
<1> HIDE DEF left, sel
<1>7. /\ n \in ListSet /\ n.shown = left /\ n.selected = sel /\ n.broadcast = p.broadcast
      /\ n.connected = p.connected /\ n.display = p.display
  BY <1>1, <1>2, <1>4, <1>5 DEF ListSet
<1> QED BY <1>4, <1>5, <1>6, <1>7 DEF PanelSound

LEMMA DropSound ==
  ASSUME NEW p, PanelSound(p), NEW id \in Ids, NEW n, n = DropClient(p, id)
  PROVE  /\ PanelSound(n) /\ ToSet(n.shown) = ToSet(p.shown) \ {id}
         /\ n.connected = p.connected /\ n.display = p.display
<1>1. p \in ListSet /\ p.shown \in Seq(Ids) /\ Injective(p.shown) BY DEF PanelSound, ListSet
<1>2. CASE id \notin ToSet(p.shown) BY <1>2 DEF DropClient
<1>3. CASE id \in ToSet(p.shown)
  <2> DEFINE row == CHOOSE i \in DOMAIN p.shown : p.shown[i] = id
             left == RemoveAt(p.shown, row)
             kept == p.selected \ {id}
             bc == p.broadcast /\ left # <<>>
             sel == IF left # <<>> /\ kept = {} /\ ~p.broadcast THEN {left[1]} ELSE kept
  <2>1. DOMAIN p.shown = 1..Len(p.shown) BY <1>1
  <2>2. \E i \in DOMAIN p.shown : p.shown[i] = id BY <1>1, <1>3, <2>1, ToSetFacts
  <2>3. row \in 1..Len(p.shown) /\ p.shown[row] = id BY <2>1, <2>2
  <2>4. n = [p EXCEPT !.shown = left, !.broadcast = bc, !.selected = sel]
    BY <1>1, <1>3 DEF DropClient, ListSet
  <2> HIDE DEF row
  <2>5. left \in Seq(Ids) /\ Injective(left) /\ ToSet(left) = ToSet(p.shown) \ {id}
    BY <1>1, <2>3, OneLess
  <2> HIDE DEF left
  <2>6. left # <<>> => left[1] \in Ids /\ left[1] \in ToSet(left)
    <3>1. left # <<>> => 1 \in 1..Len(left) /\ left[1] \in Ids BY <2>5
    <3> QED BY <2>5, <3>1, ToSetFacts
  <2>7. sel \in SUBSET Ids /\ sel \subseteq ToSet(left)
    BY <1>1, <2>5, <2>6 DEF PanelSound, ListSet
  <2>8. bc \in BOOLEAN /\ (bc => left # <<>>) BY <1>1 DEF ListSet
  <2> HIDE DEF sel, bc
  <2>9. /\ n \in ListSet /\ n.shown = left /\ n.selected = sel /\ n.broadcast = bc
        /\ n.connected = p.connected /\ n.display = p.display
    BY <1>1, <2>4, <2>5, <2>7, <2>8 DEF ListSet
  <2> QED BY <2>5, <2>7, <2>8, <2>9 DEF PanelSound
<1> QED BY <1>2, <1>3

LEMMA ClearSound ==
  ASSUME NEW p, PanelSound(p), NEW n, n = ClearClients(p)
  PROVE  /\ PanelSound(n) /\ n.shown = <<>>
         /\ n.connected = p.connected /\ n.display = p.display
<1>1. p \in ListSet /\ <<>> \in Seq(Ids) BY DEF PanelSound
<1>2. /\ n \in ListSet /\ n.shown = <<>> /\ n.selected = {} /\ n.broadcast = FALSE
      /\ n.connected = p.connected /\ n.display = p.display
  BY <1>1 DEF ClearClients, ListSet
<1>3. Injective(<<>>) BY DEF Injective
<1> QED BY <1>2, <1>3 DEF PanelSound

\* A page is shown: the panel is left as it is, or empty.
LEMMA SwitchSound ==
  ASSUME NEW p, PanelSound(p), NEW page \in Pages, NEW n, n = SwitchTo(p, page)
  PROVE  /\ PanelSound(n) /\ n.shown \in {p.shown, <<>>}
         /\ n.connected = p.connected /\ n.display = p.display
<1> DEFINE m == IF page = "server" THEN p ELSE ClearClients(p)
<1>1. /\ PanelSound(m) /\ m.shown \in {p.shown, <<>>}
      /\ m.connected = p.connected /\ m.display = p.display
  BY ClearSound
<1>2. n = [m EXCEPT !.page = page] BY DEF SwitchTo
<1> HIDE DEF m
<1>3. m \in ListSet BY <1>1 DEF PanelSound
<1>4. /\ n \in ListSet /\ n.shown = m.shown /\ n.selected = m.selected /\ n.broadcast = m.broadcast
      /\ n.connected = m.connected /\ n.display = m.display
  BY <1>2, <1>3 DEF ListSet
<1> QED BY <1>1, <1>4 DEF PanelSound

LEMMA StateSound ==
  ASSUME NEW p, PanelSound(p), NEW s \in {"Open", "Closed"}, NEW n, n = ServerState(p, s)
  PROVE  /\ PanelSound(n)
         /\ s = "Open" => n.shown = p.shown /\ n.connected /\ n.display = "Connected"
         /\ s = "Closed" => n.shown = <<>> /\ ~n.connected /\ n.display = "Disconnected"
<1>1. p \in ListSet BY DEF PanelSound
<1>2. CASE s = "Open"
  <2>1. n = [p EXCEPT !.connected = TRUE, !.display = "Connected"] BY <1>2 DEF ServerState
  <2>2. n \in ListSet /\ n.shown = p.shown /\ n.selected = p.selected /\ n.broadcast = p.broadcast
        /\ n.connected /\ n.display = "Connected"
    BY <1>1, <2>1 DEF ListSet, Displays
  <2> QED BY <1>2, <2>2 DEF PanelSound
<1>3. CASE s = "Closed"
  <2> DEFINE c == ClearClients(p)
  <2>0. <<>> \in Seq(Ids) OBVIOUS
  <2>1. c \in ListSet /\ c.shown = <<>> /\ c.selected = {} /\ c.broadcast = FALSE
    BY <1>1, <2>0 DEF ClearClients, ListSet
  <2>2. n = [c EXCEPT !.connected = FALSE, !.display = "Disconnected"] BY <1>3 DEF ServerState
  <2> HIDE DEF c
  <2>3. n \in ListSet /\ n.shown = <<>> /\ n.selected = {} /\ n.broadcast = FALSE
        /\ ~n.connected /\ n.display = "Disconnected"
    BY <2>1, <2>2 DEF ListSet, Displays
  <2>4. Injective(<<>>) BY DEF Injective
  <2> QED BY <1>3, <2>3, <2>4 DEF PanelSound
<1> QED BY <1>2, <1>3

-----------------------------------------------------------------------------
(* The invariant *)

ClientStates == {"Open", "Closing", "Closed", "Error"}
ClientMaps == UNION {[S -> ClientStates] : S \in SUBSET Ids}
HandleSet == [listening : BOOLEAN, clients : ClientMaps, nextId : 1..(MaxIds + 1)]
GoneSet == [times : [Ids -> Nat], clicks : Nat, spoke : {"server", "client"}, crossed : BOOLEAN,
            lost : SUBSET Ids]

\* The clients the list should have, and those it has or had.
Kept == DOMAIN handle.clients \ gone.lost
Met == ToSet(list.shown) \cup gone.lost
ListFollows == \A id \in Ids : Follows(toList, id, ToSet(list.shown), Kept)

\* What the view heard of the server last is up; what it shows of the server, and whom it
\* lists, goes by that, or an answer is on its way.
Heard(up) ==
  /\ Informed(toList, up, The(handle.listening))
  /\ gone.spoke = "server" => list.connected = (0 \in up)
  /\ list.shown # <<>> => 0 \in up
  /\ \/ Some(toHandle, {"listen", "closeAll"})
     \/ Some(toList, {"Open", "Closed"})
     \/ list.display = IF 0 \in up THEN "Connected" ELSE "Disconnected"

ServerInv ==
  /\ handle \in HandleSet /\ toHandle \in Seq(Calls) /\ toList \in Seq(Signals) /\ gone \in GoneSet
  /\ PanelSound(list)
  /\ \A id \in DOMAIN handle.clients \cup Met : id < handle.nextId
  /\ GoneOnce /\ ListFollows /\ Announces(toList, Met, handle.nextId)
  /\ \E up \in SUBSET {0} : Heard(up)
  /\ ~gone.crossed => gone.spoke = "server" /\ gone.lost = {}

LEMMA MapFacts ==
  ASSUME NEW c \in ClientMaps
  PROVE  /\ DOMAIN c \subseteq Ids /\ IsFiniteSet(DOMAIN c)
         /\ \A id \in DOMAIN c : c[id] \in ClientStates
<1>1. PICK S \in SUBSET Ids : c \in [S -> ClientStates] BY DEF ClientMaps
<1>2. 1 \in Int /\ MaxIds \in Int BY MaxIdsAssumption
<1>3. IsFiniteSet(Ids) BY <1>2, FS_Interval DEF Ids
<1> QED BY <1>1, <1>3, FS_Subset

LEMMA MapIsOne ==
  ASSUME NEW S \in SUBSET Ids, NEW c \in [S -> ClientStates]
  PROVE  c \in ClientMaps /\ DOMAIN c = S
BY DEF ClientMaps

LEMMA NoClientsFacts == NoClients \in ClientMaps /\ DOMAIN NoClients = {}
<1>1. {} \in SUBSET Ids /\ NoClients \in [{} -> ClientStates] BY DEF NoClients, ClientStates
<1> QED BY <1>1, MapIsOne

LEMMA InvInit == ServerInit => ServerInv
<1> SUFFICES ASSUME ServerInit PROVE ServerInv OBVIOUS
<1> USE DEF ServerInit
<1>1. NoClients \in ClientMaps /\ DOMAIN NoClients = {}
  BY NoClientsFacts
<1>2. handle \in HandleSet BY <1>1, MaxIdsAssumption DEF HandleSet
<1>3. toHandle \in Seq(Calls) /\ toList \in Seq(Signals) OBVIOUS
<1>4. /\ gone \in GoneSet /\ (\A id \in Ids : gone.times[id] = 0) /\ gone.lost = {}
      /\ gone.spoke = "server"
  BY DEF GoneSet
<1>5. <<>> \in Seq(Ids) OBVIOUS
<1>6. list.shown = <<>> /\ list.selected = {} /\ list.broadcast = FALSE /\ list.connected = FALSE
      /\ list.display = "Disconnected"
  OBVIOUS
<1>7. ToSet(list.shown) = {} BY <1>5, <1>6, ToSetFacts
<1>8. PanelSound(list)
  <2>1. list \in ListSet BY <1>5 DEF ListSet, Displays, Pages
  <2> QED BY <2>1, <1>6 DEF PanelSound, Injective
<1>9. GoneOnce
  <2>1. \A id \in Ids : ~(id < handle.nextId) BY MaxIdsAssumption DEF Ids
  <2> QED BY <1>4, <2>1 DEF GoneOnce
<1>10. \A i \in 1..Len(toList) : FALSE OBVIOUS
<1>11. ListFollows
  <2>1. Kept = {} BY <1>1, <1>4 DEF Kept
  <2> QED BY <1>7, <1>10, <2>1 DEF ListFollows, Follows
<1>12. Met = {} /\ Announces(toList, Met, handle.nextId) BY <1>4, <1>7, <1>10 DEF Met, Announces
<1>13. Heard({})
  <2>1. The(handle.listening) = {} BY DEF The
  <2>2. Informed(toList, {}, {}) BY <1>10 DEF Informed, Follows
  <2>3. list.connected = (0 \in {})
    <3>1. (0 \in {}) = FALSE OBVIOUS
    <3> QED BY <1>6, <3>1
  <2> QED BY <1>6, <2>1, <2>2, <2>3 DEF Heard
<1>14. \E up \in SUBSET {0} : Heard(up) BY <1>13
<1> QED BY <1>1, <1>2, <1>3, <1>4, <1>8, <1>9, <1>11, <1>12, <1>14 DEF ServerInv

SameHistory ==
  /\ gone'.times = gone.times /\ gone'.lost = gone.lost
  /\ gone'.spoke = gone.spoke /\ gone'.crossed = gone.crossed

LEMMA ClickCounted ==
  ASSUME gone \in GoneSet, gone' = [gone EXCEPT !.clicks = @ + 1]
  PROVE  gone' \in GoneSet /\ SameHistory
BY DEF GoneSet, SameHistory

\* Clients, signals and what is listed stay what they are.
LEMMA KeptInv ==
  ASSUME ServerInv,
         handle' \in HandleSet, DOMAIN handle'.clients = DOMAIN handle.clients,
         handle'.listening = handle.listening, handle'.nextId = handle.nextId,
         toHandle' \in Seq(Calls), toList' = toList,
         gone' \in GoneSet, SameHistory,
         PanelSound(list'), list'.shown = list.shown, list'.connected = list.connected,
         \/ Some(toHandle', {"listen", "closeAll"})
         \/ /\ Some(toHandle, {"listen", "closeAll"}) => Some(toHandle', {"listen", "closeAll"})
            /\ list'.display = list.display
  PROVE  ServerInv'
<1>1. Kept' = Kept /\ Met' = Met BY DEF Kept, Met, SameHistory
<1>2. ListFollows' BY <1>1 DEF ServerInv, ListFollows
<1>3. GoneOnce' BY DEF ServerInv, GoneOnce, SameHistory
<1>4. \E up \in SUBSET {0} : Heard(up)'
  <2>1. PICK up \in SUBSET {0} : Heard(up) BY DEF ServerInv
  <2>2. Heard(up)' BY <2>1 DEF Heard, SameHistory
  <2> QED BY <2>2
<1>5. Announces(toList', Met', handle'.nextId) BY <1>1 DEF ServerInv
<1>6. \A id \in DOMAIN handle'.clients \cup Met' : id < handle'.nextId BY <1>1 DEF ServerInv
<1> QED BY <1>2, <1>3, <1>4, <1>5, <1>6 DEF ServerInv, SameHistory

\* Calls are added while the panel stays as it is.
LEMMA CallsAdded ==
  ASSUME ServerInv, NEW w \in Seq(Calls), Click(w), UNCHANGED list
  PROVE  ServerInv'
<1>1. toHandle \in Seq(Calls) /\ toHandle' = toHandle \o w /\ UNCHANGED <<handle, toList>>
  BY DEF ServerInv, Click
<1>2. toHandle' \in Seq(Calls) BY <1>1, Concatenated
<1>3. gone' \in GoneSet /\ SameHistory
  <2>1. gone \in GoneSet /\ gone' = [gone EXCEPT !.clicks = @ + 1] BY DEF ServerInv, Click
  <2> QED BY <2>1, ClickCounted
<1>4. Some(toHandle, {"listen", "closeAll"}) => Some(toHandle', {"listen", "closeAll"})
  BY <1>1, SomeAppended
<1> QED BY <1>1, <1>2, <1>3, <1>4, KeptInv DEF ServerInv

\* A call about a client is handled, and its channel may be lost.
LEMMA CallHandled ==
  ASSUME ServerInv, toHandle # <<>>, Head(toHandle).kind \notin {"listen", "closeAll"},
         NEW w \in Seq(Calls), toHandle' = Tail(toHandle) \/ toHandle' = Tail(toHandle) \o w
  PROVE  /\ Tail(toHandle) \in Seq(Calls) /\ toHandle' \in Seq(Calls)
         /\ Some(toHandle, {"listen", "closeAll"}) => Some(toHandle', {"listen", "closeAll"})
<1>1. toHandle \in Seq(Calls) BY DEF ServerInv
<1> DEFINE r == Tail(toHandle)
<1>2. r \in Seq(Calls) BY <1>1
<1>3. Some(toHandle, {"listen", "closeAll"}) => Some(r, {"listen", "closeAll"})
  BY <1>1, SomeHandled
<1> HIDE DEF r
<1>4. CASE toHandle' = r BY <1>2, <1>3, <1>4 DEF r
<1>5. CASE toHandle' = r \o w
  <2>1. toHandle' \in Seq(Calls) BY <1>2, <1>5, Concatenated
  <2>2. Some(r, {"listen", "closeAll"}) => Some(toHandle', {"listen", "closeAll"})
    BY <1>2, <1>5, SomeAppended
  <2> QED BY <1>2, <1>3, <2>1, <2>2 DEF r
<1> QED BY <1>4, <1>5 DEF r

-----------------------------------------------------------------------------
(* The actions of the server thread *)

LEMMA LostIsCall ==
  ASSUME NEW id \in Ids
  PROVE  Lost(id) \in Seq(Calls)
<1>1. ServerCall("remove", id) \in Calls BY MaxIdsAssumption DEF ServerCall, Calls, Ids
<1> QED BY <1>1 DEF Lost

\* The channel of a client gets another state.
LEMMA ChannelChanged ==
  ASSUME ServerInv, NEW id \in DOMAIN handle.clients, NEW s \in ClientStates,
         handle' = [handle EXCEPT !.clients[id] = s]
  PROVE  /\ handle' \in HandleSet /\ DOMAIN handle'.clients = DOMAIN handle.clients
         /\ handle'.listening = handle.listening /\ handle'.nextId = handle.nextId
<1> DEFINE c == [handle.clients EXCEPT ![id] = s]
<1>1. handle \in HandleSet /\ handle.clients \in ClientMaps BY DEF ServerInv, HandleSet
<1>2. PICK S \in SUBSET Ids : handle.clients \in [S -> ClientStates] BY <1>1 DEF ClientMaps
<1>3. c \in [S -> ClientStates] /\ DOMAIN handle.clients = S BY <1>2
<1>4. c \in ClientMaps /\ DOMAIN c = S BY <1>3, MapIsOne
<1>5. handle' = [handle EXCEPT !.clients = c] BY <1>1 DEF HandleSet
<1> HIDE DEF c
<1>6. handle' \in HandleSet /\ handle'.clients = c /\ handle'.listening = handle.listening
      /\ handle'.nextId = handle.nextId
  BY <1>1, <1>4, <1>5 DEF HandleSet
<1> QED BY <1>3, <1>4, <1>6

\* A step of the server thread about the channel of one client.
LEMMA ClientTurn ==
  ASSUME ServerInv, toHandle # <<>>, Head(toHandle).kind \notin {"listen", "closeAll"},
         NEW w \in Seq(Calls), toHandle' = Tail(toHandle) \/ toHandle' = Tail(toHandle) \o w,
         \/ handle' = handle
         \/ \E id \in DOMAIN handle.clients, s \in ClientStates :
              handle' = [handle EXCEPT !.clients[id] = s],
         UNCHANGED <<toList, gone, list>>
  PROVE  ServerInv'
<1>1. /\ toHandle' \in Seq(Calls)
      /\ Some(toHandle, {"listen", "closeAll"}) => Some(toHandle', {"listen", "closeAll"})
  BY CallHandled
<1>2. /\ handle' \in HandleSet /\ DOMAIN handle'.clients = DOMAIN handle.clients
      /\ handle'.listening = handle.listening /\ handle'.nextId = handle.nextId
  BY ChannelChanged DEF ServerInv
<1>3. gone' \in GoneSet /\ SameHistory /\ PanelSound(list') BY DEF ServerInv, SameHistory
<1> QED BY <1>1, <1>2, <1>3, KeptInv

LEMMA CloseClientInv ==
  ASSUME ServerInv, toHandle # <<>>, RunCloseClient, UNCHANGED list
  PROVE  ServerInv'
<1> DEFINE id == Head(toHandle).id
           w == Lost(id)
<1>1. Head(toHandle).kind \notin {"listen", "closeAll"} BY DEF RunCloseClient
<1>2. UNCHANGED <<toList, gone, list>> BY DEF RunCloseClient
<1>3. CASE id \notin DOMAIN handle.clients
  <2>1. toHandle' = Tail(toHandle) /\ handle' = handle BY <1>3 DEF RunCloseClient
  <2>2. <<>> \in Seq(Calls) OBVIOUS
  <2> QED BY <1>1, <1>2, <2>1, <2>2, ClientTurn
<1>4. CASE id \in DOMAIN handle.clients
  <2>1. id \in Ids BY <1>4, MapFacts DEF ServerInv, HandleSet
  <2>2. w \in Seq(Calls) BY <2>1, LostIsCall
  <2>3. \/ toHandle' = Tail(toHandle) \o w
        \/ toHandle' = Tail(toHandle)
    BY <1>4 DEF RunCloseClient
  <2>4. \E s \in {"Closed", "Closing"} : handle' = [handle EXCEPT !.clients[id] = s]
    BY <1>4 DEF RunCloseClient
  <2>5. \E i \in DOMAIN handle.clients, s \in ClientStates : handle' = [handle EXCEPT !.clients[i] = s]
    BY <1>4, <2>4 DEF ClientStates
  <2> HIDE DEF id, w
  <2> QED BY <1>1, <1>2, <2>2, <2>3, <2>5, ClientTurn
<1> QED BY <1>3, <1>4

LEMMA WriteToInv ==
  ASSUME ServerInv, toHandle # <<>>, RunWriteTo, UNCHANGED list
  PROVE  ServerInv'
<1>1. Head(toHandle).kind \notin {"listen", "closeAll"} BY DEF RunWriteTo
<1>2. toHandle' = Tail(toHandle) /\ handle' = handle /\ UNCHANGED <<toList, gone, list>>
  BY DEF RunWriteTo
<1>3. <<>> \in Seq(Calls) OBVIOUS
<1> QED BY <1>1, <1>2, <1>3, ClientTurn

LEMMA ClientChannelInv ==
  ASSUME ServerInv, ClientChannel
  PROVE  ServerInv'
<1>1. PICK id \in DOMAIN handle.clients, s \in {"Closed", "Error"} :
        handle' = [handle EXCEPT !.clients[id] = s] /\ toHandle' = toHandle \o Lost(id)
  BY DEF ClientChannel
<1>2. s \in ClientStates /\ id \in Ids BY <1>1, MapFacts DEF ServerInv, HandleSet, ClientStates
<1>3. /\ handle' \in HandleSet /\ DOMAIN handle'.clients = DOMAIN handle.clients
      /\ handle'.listening = handle.listening /\ handle'.nextId = handle.nextId
  BY <1>1, <1>2, ChannelChanged
<1>4. Lost(id) \in Seq(Calls) /\ toHandle \in Seq(Calls) BY <1>2, LostIsCall DEF ServerInv
<1>5. toHandle' \in Seq(Calls) BY <1>1, <1>4, Concatenated
<1>6. Some(toHandle, {"listen", "closeAll"}) => Some(toHandle', {"listen", "closeAll"})
  BY <1>1, <1>4, SomeAppended
<1>7. UNCHANGED <<toList, list, gone>> BY DEF ClientChannel
<1>8. gone' \in GoneSet /\ SameHistory /\ PanelSound(list') BY <1>7 DEF ServerInv, SameHistory
<1> QED BY <1>3, <1>5, <1>6, <1>7, <1>8, KeptInv

\* One more signal.
LEMMA OneSignal ==
  ASSUME NEW q \in Seq(Signals), NEW e \in Signals, NEW r, r = Joined(q, e)
  PROVE  /\ r \in Seq(Signals)
         /\ Some(q, {"Open", "Closed"}) => Some(r, {"Open", "Closed"})
         /\ e.kind \in {"Open", "Closed"} => Some(r, {"Open", "Closed"})
         /\ \A id, shown, there, now :
              /\ Follows(q, id, shown, there)
              /\ IF Tells(e, id) THEN Comes(e) <=> id \in now ELSE id \in now <=> id \in there
              => Follows(r, id, shown, now)
<1> DEFINE w == <<e>>
<1>1. w \in Seq(Signals) /\ Len(w) = 1 /\ w[1] = e OBVIOUS
<1>2. r = q \o w BY DEF Joined
<1> HIDE DEF w
<1>3. r \in Seq(Signals) BY <1>1, <1>2, Concatenated
<1>4. 1 \in 1..Len(w) /\ \A i \in 1..Len(w) : w[i] = e BY <1>1
<1>5. ASSUME Some(q, {"Open", "Closed"}) \/ e.kind \in {"Open", "Closed"}
      PROVE  Some(r, {"Open", "Closed"})
  <2>1. e.kind \in {"Open", "Closed"} => Some(w, {"Open", "Closed"}) BY <1>4 DEF Some
  <2> QED BY <1>1, <1>2, <1>5, <2>1, SomeAppended
<1>6. ASSUME NEW id, NEW shown, NEW there, NEW now, Follows(q, id, shown, there),
             IF Tells(e, id) THEN Comes(e) <=> id \in now ELSE id \in now <=> id \in there
      PROVE  Follows(r, id, shown, now)
  <2>1. \/ /\ \A i \in 1..Len(w) : ~Tells(w[i], id)
           /\ id \in now <=> id \in there
        \/ /\ \E i \in 1..Len(w) : Tells(w[i], id)
           /\ \A i \in 1..Len(w) : Tells(w[i], id) => (Comes(w[i]) <=> id \in now)
    <3>1. CASE Tells(e, id) BY <1>4, <1>6, <3>1
    <3>2. CASE ~Tells(e, id) BY <1>4, <1>6, <3>2
    <3> QED BY <3>1, <3>2
  <2> QED BY <1>1, <1>2, <1>6, <2>1, AppendedFollows
<1> QED BY <1>3, <1>5, <1>6

\* One more client goes, or comes.
LEMMA GoesAnnounces ==
  ASSUME NEW q \in Seq(Signals), NEW e \in Signals, NEW r, r = Joined(q, e), NEW met,
         NEW next \in Nat, Announces(q, met, next), e.kind # "connected"
  PROVE  Announces(r, met, next)
<1> DEFINE w == <<e>>
<1>1. w \in Seq(Signals) /\ r = q \o w /\ \A i \in 1..Len(w) : w[i].kind # "connected"
  BY DEF Joined
<1>2. \A i \in 1..Len(q) : q[i].kind = "connected" => q[i].id \in Nat BY AnnouncedIds
<1>3. next <= next OBVIOUS
<1> HIDE DEF w
<1> QED BY <1>1, <1>2, <1>3, AppendedAnnounces

LEMMA GoesTold ==
  ASSUME NEW q \in Seq(Signals), NEW e \in Signals, NEW r, r = Joined(q, e),
         NEW up, NEW open, Informed(q, up, open),
         e.kind = "disconnected" \/ (0 \in open /\ e.kind = "connected")
  PROVE  Informed(r, up, open)
<1> DEFINE w == <<e>>
<1>1. w \in Seq(Signals) /\ r = q \o w /\ Len(w) = 1 /\ \A i \in 1..Len(w) : w[i] = e
  BY DEF Joined
<1> HIDE DEF w
<1>2. \A i \in 1..Len(w) : w[i].kind = "disconnected" \/ (0 \in open /\ Len(w) = 1 /\ w[i].kind = "connected")
  BY <1>1
<1> QED BY <1>1, <1>2, AppendedTold

\* A client is removed and reported.
LEMMA RemoveInv ==
  ASSUME ServerInv, toHandle # <<>>, Head(toHandle).kind = "remove",
         RemoveClient(Head(toHandle).id), UNCHANGED list
  PROVE  ServerInv'
<1> DEFINE id == Head(toHandle).id
           K == {"listen", "closeAll"}
           L == {"Open", "Closed"}
<1>1. <<>> \in Seq(Calls) /\ toHandle' = Tail(toHandle) /\ Head(toHandle).kind \notin K
  BY DEF RemoveClient
<1>2. toHandle' \in Seq(Calls) /\ (Some(toHandle, K) => Some(toHandle', K)) BY <1>1, CallHandled
<1>3. CASE id \notin DOMAIN handle.clients
  <2>1. UNCHANGED <<handle, toList, gone, list>> BY <1>3 DEF RemoveClient
  <2> QED BY <1>1, <2>1, ClientTurn
<1>4. CASE id \in DOMAIN handle.clients
  <2> DEFINE S == DOMAIN handle.clients
             c == Without(handle.clients, id)
             e == ServerCall("disconnected", id)
  <2>1. handle \in HandleSet /\ handle.clients \in ClientMaps BY DEF ServerInv, HandleSet
  <2>2. S \subseteq Ids /\ id \in S /\ \A i \in S : handle.clients[i] \in ClientStates
    BY <1>4, <2>1, MapFacts
  <2>3. c \in [S \ {id} -> ClientStates] BY <2>2 DEF Without
  <2>4. S \ {id} \in SUBSET Ids BY <2>2
  <2>5. c \in ClientMaps /\ DOMAIN c = S \ {id} BY <2>3, <2>4, MapIsOne
  <2>6. /\ handle' = [handle EXCEPT !.clients = c]
        /\ toList' = Joined(toList, e)
        /\ gone' = [gone EXCEPT !.times[id] = @ + 1]
    BY <1>4, <2>1 DEF RemoveClient, Joined, HandleSet
  <2> HIDE DEF c
  <2>7. handle' \in HandleSet /\ handle'.clients = c /\ handle'.listening = handle.listening
        /\ handle'.nextId = handle.nextId
    BY <2>1, <2>5, <2>6 DEF HandleSet
  <2>8. /\ e \in Signals /\ e.kind = "disconnected"
        /\ \A i \in Ids : (Tells(e, i) <=> i = id) /\ ~Comes(e)
    BY <2>2 DEF ServerCall, Signals, Tells, Comes
  <2> HIDE DEF e
  <2>9. toList \in Seq(Signals) BY DEF ServerInv
  <2>10. /\ toList' \in Seq(Signals) /\ (Some(toList, L) => Some(toList', L))
         /\ ListFollows' /\ Announces(toList', Met', handle'.nextId)
         /\ \A up : Informed(toList, up, The(handle.listening)) => Informed(toList', up, The(handle'.listening))
    <3>0. gone \in GoneSet BY DEF ServerInv
    <3>1. gone'.lost = gone.lost /\ list' = list BY <2>6, <3>0 DEF GoneSet
    <3>2. Kept' = Kept \ {id} /\ Met' = Met BY <2>5, <2>7, <3>1 DEF Kept, Met
    <3>3. toList' \in Seq(Signals) /\ (Some(toList, L) => Some(toList', L))
      BY <2>6, <2>8, <2>9, OneSignal
    <3>4. ASSUME NEW i \in Ids PROVE Follows(toList', i, ToSet(list.shown), Kept')
      <4>1. Follows(toList, i, ToSet(list.shown), Kept) BY DEF ServerInv, ListFollows
      <4>2. IF Tells(e, i) THEN Comes(e) <=> i \in Kept' ELSE i \in Kept' <=> i \in Kept
        BY <2>8, <3>2
      <4> QED BY <2>6, <2>8, <2>9, <4>1, <4>2, OneSignal
    <3>5. Announces(toList', Met, handle.nextId)
      BY <2>1, <2>6, <2>8, <2>9, GoesAnnounces DEF ServerInv, HandleSet
    <3>7. ASSUME NEW up, Informed(toList, up, The(handle.listening))
          PROVE  Informed(toList', up, The(handle.listening))
      <4>1. PICK open : open = The(handle.listening) OBVIOUS
      <4>2. PICK l : l = Joined(toList, e) OBVIOUS
      <4>3. Informed(toList, up, open) BY <3>7, <4>1
      <4>4. Informed(l, up, open) BY <2>8, <2>9, <4>2, <4>3, GoesTold
      <4> QED BY <2>6, <4>1, <4>2, <4>4
    <3> QED BY <2>7, <3>1, <3>2, <3>3, <3>4, <3>5, <3>7 DEF ListFollows
  <2>11. gone' \in GoneSet /\ gone'.lost = gone.lost /\ gone'.spoke = gone.spoke
         /\ gone'.crossed = gone.crossed /\ \A i \in Ids : gone'.times[i] = gone.times[i] + IF i = id THEN 1 ELSE 0
    <3> DEFINE t == [gone.times EXCEPT ![id] = @ + 1]
    <3>1. gone \in GoneSet /\ id \in Ids BY <2>2 DEF ServerInv
    <3>2. /\ t \in [Ids -> Nat]
          /\ \A i \in Ids : t[i] = gone.times[i] + IF i = id THEN 1 ELSE 0
      BY <3>1 DEF GoneSet
    <3>3. gone' = [gone EXCEPT !.times = t] BY <2>6, <3>1 DEF GoneSet
    <3> HIDE DEF t
    <3>4. /\ gone' \in GoneSet /\ gone'.times = t /\ gone'.lost = gone.lost
          /\ gone'.spoke = gone.spoke /\ gone'.crossed = gone.crossed
      BY <3>1, <3>2, <3>3 DEF GoneSet
    <3> QED BY <3>2, <3>4
  <2>12. GoneOnce'
    <3>1. \A i \in S : i < handle.nextId BY DEF ServerInv
    <3>2. GoneOnce BY DEF ServerInv
    <3> QED BY <2>2, <2>5, <2>7, <2>11, <3>1, <3>2 DEF GoneOnce
  <2>13. \A i \in DOMAIN handle'.clients \cup Met' : i < handle'.nextId
    BY <2>5, <2>7, <2>11 DEF ServerInv, Met
  <2>14. \E up \in SUBSET {0} : Heard(up)'
    <3>1. PICK up \in SUBSET {0} : Heard(up) BY DEF ServerInv
    <3>2. Heard(up)' BY <1>2, <2>10, <2>11, <3>1 DEF Heard
    <3> QED BY <3>2
  <2>15. PanelSound(list') BY DEF ServerInv
  <2> QED BY <1>2, <2>7, <2>10, <2>11, <2>12, <2>13, <2>14, <2>15 DEF ServerInv
<1> QED BY <1>3, <1>4

\* The server stops: every client is reported, then the server itself.
LEMMA StopInv ==
  ASSUME ServerInv, toHandle # <<>>, UNCHANGED list, NEW ok \in BOOLEAN, NEW ids \in Stopped,
         handle' = [handle EXCEPT !.listening = ok, !.clients = NoClients],
         toList' = toList \o EachTo("disconnected", ids)
                          \o <<ServerCall(IF ok THEN "Open" ELSE "Closed", 0)>>,
         gone' = CountAll, toHandle' = Tail(toHandle)
  PROVE  ServerInv'
<1> DEFINE S == DOMAIN handle.clients
           w == EachTo("disconnected", ids)
           q == toList \o w
           e == ServerCall(IF ok THEN "Open" ELSE "Closed", 0)
<1>1. handle \in HandleSet /\ toHandle \in Seq(Calls) /\ toList \in Seq(Signals) BY DEF ServerInv
<1>2. S \subseteq Ids /\ IsFiniteSet(S) BY <1>1, MapFacts DEF HandleSet
<1>3. ids \in Seq(S) /\ \A x \in S : \E i \in 1..Len(ids) : ids[i] = x
  BY <1>2, SetToSeqsFacts DEF Stopped
<1>4. ids \in Seq(Ids) BY <1>2, <1>3
<1>5. \A i \in 1..Len(ids) : ids[i] \in S BY <1>3
<1>6. /\ w \in Seq(Signals) /\ Len(w) = Len(ids)
      /\ \A i \in 1..Len(w) : w[i].kind = "disconnected" /\ w[i].id = ids[i]
  <2> DEFINE k == "disconnected"
  <2>1. k \in {"close", "write", "disconnected"} /\ w = EachTo(k, ids) /\ k = "disconnected" OBVIOUS
  <2> HIDE DEF k, w
  <2>2. /\ w \in Seq(IF k = "disconnected" THEN Signals ELSE Calls)
        /\ Len(w) = Len(ids) /\ \A i \in 1..Len(w) : w[i].kind = k /\ w[i].id = ids[i]
    BY <1>4, <2>1, EachToFacts
  <2> QED BY <2>1, <2>2
<1>7. toList' = Joined(q, e) BY DEF Joined
<1>8. /\ e \in Signals /\ e.kind = IF ok THEN "Open" ELSE "Closed"
      /\ \A i \in Ids : Tells(e, i) => ~Comes(e)
  BY MaxIdsAssumption DEF Ids, ServerCall, Signals, Tells, Comes
<1> HIDE DEF w, e
<1>9. q \in Seq(Signals) BY <1>1, <1>6, Concatenated
<1>10. toList' \in Seq(Signals) /\ Some(toList', {"Open", "Closed"})
  <2>1. e.kind \in {"Open", "Closed"} BY <1>8
  <2> HIDE DEF q
  <2> QED BY <1>7, <1>8, <1>9, <2>1, OneSignal
<1>11. handle' \in HandleSet /\ handle'.listening = ok /\ handle'.clients = NoClients
       /\ handle'.nextId = handle.nextId
  BY <1>1, NoClientsFacts DEF HandleSet
<1>12. Kept' = {} BY <1>11, NoClientsFacts DEF Kept
<1>14. ASSUME NEW i \in Ids PROVE Follows(toList', i, ToSet(list.shown), {})
  <2>1. Follows(toList, i, ToSet(list.shown), Kept) BY DEF ServerInv, ListFollows
  <2>2. \A j \in 1..Len(w) : (Tells(w[j], i) <=> ids[j] = i) /\ ~Comes(w[j])
    BY <1>6 DEF Tells, Comes
  <2>3. \/ /\ \A j \in 1..Len(w) : ~Tells(w[j], i)
           /\ i \in {} <=> i \in Kept
        \/ /\ \E j \in 1..Len(w) : Tells(w[j], i)
           /\ \A j \in 1..Len(w) : Tells(w[j], i) => (Comes(w[j]) <=> i \in {})
    <3>1. CASE i \in S
      <4>1. \E j \in 1..Len(w) : Tells(w[j], i) BY <1>3, <1>6, <2>2, <3>1
      <4> QED BY <2>2, <4>1
    <3>2. CASE i \notin S
      <4>1. \A j \in 1..Len(w) : ~Tells(w[j], i) BY <1>5, <1>6, <2>2, <3>2
      <4> QED BY <3>2, <4>1 DEF Kept
    <3> QED BY <3>1, <3>2
  <2>4. Follows(q, i, ToSet(list.shown), {}) BY <1>1, <1>6, <2>1, <2>3, AppendedFollows
  <2>5. IF Tells(e, i) THEN Comes(e) <=> i \in {} ELSE i \in {} <=> i \in {}
    BY <1>8
  <2> HIDE DEF q
  <2> QED BY <1>7, <1>8, <1>9, <2>4, <2>5, OneSignal
<1>15. /\ gone' \in GoneSet /\ gone'.lost = gone.lost /\ gone'.spoke = gone.spoke
       /\ gone'.crossed = gone.crossed
       /\ \A i \in Ids : gone'.times[i] = gone.times[i] + IF i \in S THEN 1 ELSE 0
  <2>1. gone \in GoneSet BY DEF ServerInv
  <2>2. gone' = [gone EXCEPT !.times = [i \in Ids |-> gone.times[i] + IF i \in S THEN 1 ELSE 0]]
    BY <2>1 DEF CountAll, GoneSet
  <2> DEFINE t == [i \in Ids |-> gone.times[i] + IF i \in S THEN 1 ELSE 0]
  <2>3. t \in [Ids -> Nat] BY <2>1 DEF GoneSet
  <2>4. /\ gone' \in GoneSet /\ gone'.times = t /\ gone'.lost = gone.lost
        /\ gone'.spoke = gone.spoke /\ gone'.crossed = gone.crossed
    <3> HIDE DEF t
    <3> QED BY <2>1, <2>2, <2>3 DEF GoneSet, t
  <2> QED BY <2>4
<1>16. GoneOnce'
  <2>1. \A i \in S : i < handle.nextId BY DEF ServerInv
  <2>2. GoneOnce BY DEF ServerInv
  <2> QED BY <1>2, <1>11, <1>15, NoClientsFacts, <2>1, <2>2 DEF GoneOnce
<1>17. toHandle' \in Seq(Calls) BY <1>1
<1>18. Met' = Met /\ \A i \in DOMAIN handle'.clients \cup Met' : i < handle'.nextId
  BY <1>11, <1>15, NoClientsFacts DEF Met, ServerInv
<1>19. Announces(toList', Met', handle'.nextId)
  <2>1. Announces(toList, Met, handle.nextId) /\ handle.nextId \in Nat
    BY <1>1, MaxIdsAssumption DEF ServerInv, HandleSet
  <2>2. \A i \in 1..Len(w) : w[i].kind # "connected" BY <1>6
  <2>3. Announces(q, Met, handle.nextId)
    <3>1. \A i \in 1..Len(toList) : toList[i].kind = "connected" => toList[i].id \in Nat
      BY <1>1, AnnouncedIds
    <3>2. PICK next : next = handle.nextId OBVIOUS
    <3>3. next \in Nat /\ next <= next BY <2>1, <3>2
    <3>4. PICK met : met = Met OBVIOUS
    <3>5. Announces(toList, met, next) BY <2>1, <3>2, <3>4
    <3>6. Announces(q, met, next)
      <4> HIDE DEF q
      <4> QED BY <1>1, <1>6, <2>2, <3>1, <3>3, <3>5, AppendedAnnounces DEF q
    <3> QED BY <3>2, <3>4, <3>6
  <2>4. e.kind # "connected" BY <1>8
  <2> HIDE DEF q
  <2>5. Announces(toList', Met, handle.nextId) BY <1>7, <1>8, <1>9, <2>1, <2>3, <2>4, GoesAnnounces
  <2> QED BY <1>11, <1>18, <2>5
<1>20. ListFollows' BY <1>12, <1>14 DEF ListFollows
<1>21. PanelSound(list') BY DEF ServerInv
<1>22. \E up \in SUBSET {0} : Heard(up)'
  <2>1. PICK up \in SUBSET {0} : Heard(up) BY DEF ServerInv
  <2>2. PICK open, now : open = The(handle.listening) /\ now = The(ok) OBVIOUS
  <2>8. Informed(toList, up, open) BY <2>1, <2>2 DEF Heard
  <2>3. \A i \in 1..Len(w) : w[i].kind = "disconnected" BY <1>6
  <2>4. Informed(q, up, open)
    <3>1. \A i \in 1..Len(w) :
            w[i].kind = "disconnected" \/ (0 \in open /\ Len(w) = 1 /\ w[i].kind = "connected")
      BY <2>3
    <3>2. PICK r : r = q OBVIOUS
    <3>3. r = toList \o w BY <3>2
    <3> HIDE DEF q
    <3>4. Informed(r, up, open) BY <1>1, <1>6, <2>8, <3>1, <3>3, AppendedTold
    <3> QED BY <3>2, <3>4
  <2> HIDE DEF q
  <2>5. PICK r : r = Append(q, e) OBVIOUS
  <2>6. Informed(toList', up, now)
    <3>2. now \in SUBSET {0} /\ e.kind = IF 0 \in now THEN "Open" ELSE "Closed"
      BY <1>8, <2>2 DEF The
    <3>1. Informed(r, up, now) BY <1>8, <1>9, <2>4, <2>5, <3>2, StateTold
    <3> QED BY <1>7, <2>5, <3>1 DEF Joined
  <2>7. Heard(up)' BY <1>10, <1>11, <1>15, <2>1, <2>2, <2>6 DEF Heard
  <2> QED BY <2>7
<1> QED BY <1>10, <1>11, <1>15, <1>16, <1>17, <1>18, <1>19, <1>20, <1>21, <1>22 DEF ServerInv

\* A client is adopted: the thread is told of an id nobody had before.
LEMMA NewConnectionInv ==
  ASSUME ServerInv, NewConnection
  PROVE  ServerInv'
<1> DEFINE S == DOMAIN handle.clients
           id == handle.nextId
           c == [i \in S \cup {id} |-> IF i = id THEN "Open" ELSE handle.clients[i]]
           e == ServerCall("connected", id)
<1>1. handle \in HandleSet /\ toList \in Seq(Signals) /\ handle.clients \in ClientMaps
  BY DEF ServerInv, HandleSet
<1>2. id \in Ids /\ id \in Nat /\ id + 1 \in 1..(MaxIds + 1)
  BY <1>1, MaxIdsAssumption DEF NewConnection, HandleSet, Ids
<1>3. S \subseteq Ids /\ (\A i \in S : handle.clients[i] \in ClientStates) /\ \A i \in S : i < id
  BY <1>1, MapFacts DEF ServerInv
<1>4. id \notin S BY <1>2, <1>3
<1>5. c \in [S \cup {id} -> ClientStates] BY <1>3 DEF ClientStates
<1>6. S \cup {id} \in SUBSET Ids BY <1>2, <1>3
<1>7. c \in ClientMaps /\ DOMAIN c = S \cup {id} BY <1>5, <1>6, MapIsOne
<1>8. /\ handle' = [handle EXCEPT !.nextId = id + 1, !.clients = c]
      /\ toList' = Joined(toList, e)
      /\ UNCHANGED <<toHandle, list, gone>>
  BY <1>1 DEF NewConnection, Joined, HandleSet
<1> HIDE DEF c
<1>9. handle' \in HandleSet /\ handle'.clients = c /\ handle'.nextId = id + 1
      /\ handle'.listening = handle.listening
  BY <1>1, <1>2, <1>7, <1>8 DEF HandleSet
<1>10. /\ e \in Signals /\ e.kind = "connected" /\ e.id = id
       /\ (\A i \in Ids : Tells(e, i) <=> i = id) /\ Comes(e)
  BY <1>2 DEF ServerCall, Signals, Tells, Comes
<1> HIDE DEF e
<1>11. toList' \in Seq(Signals) /\ (Some(toList, {"Open", "Closed"}) => Some(toList', {"Open", "Closed"}))
  BY <1>1, <1>8, <1>10, OneSignal
<1>17. id \notin Met /\ Met' = Met BY <1>2, <1>8 DEF ServerInv, Met
<1>12. ListFollows'
  <2>1. Kept' = Kept \cup {id} BY <1>7, <1>8, <1>9, <1>17 DEF Kept, Met
  <2>2. ASSUME NEW i \in Ids PROVE Follows(toList', i, ToSet(list.shown), Kept')
    <3>1. Follows(toList, i, ToSet(list.shown), Kept) BY DEF ServerInv, ListFollows
    <3>2. IF Tells(e, i) THEN Comes(e) <=> i \in Kept' ELSE i \in Kept' <=> i \in Kept
      BY <1>10, <2>1
    <3> QED BY <1>1, <1>8, <1>10, <3>1, <3>2, OneSignal
  <2> QED BY <1>8, <2>2 DEF ListFollows
<1>13. GoneOnce'
  <2>1. GoneOnce BY DEF ServerInv
  <2>2. \A i \in Ids : i < id + 1 <=> i < id \/ i = id BY <1>2, MaxIdsAssumption DEF Ids
  <2> QED BY <1>2, <1>4, <1>7, <1>8, <1>9, <2>1, <2>2 DEF GoneOnce
<1>14. \A i \in DOMAIN handle'.clients \cup Met' : i < handle'.nextId
  <2>1. \A i \in Ids : i \in Int BY MaxIdsAssumption DEF Ids
  <2>2. Met \subseteq Ids /\ \A i \in Met : i < id
    <3>1. list.shown \in Seq(Ids) /\ gone.lost \in SUBSET Ids
      BY DEF ServerInv, PanelSound, ListSet, GoneSet
    <3> QED BY <3>1, ToSetFacts DEF ServerInv, Met
  <2> QED BY <1>2, <1>3, <1>7, <1>9, <1>17, <2>1, <2>2
<1>15. \E up \in SUBSET {0} : Heard(up)'
  <2>1. PICK up \in SUBSET {0} : Heard(up) BY DEF ServerInv
  <2>2. PICK open : open = The(handle.listening) OBVIOUS
  <2>5. Informed(toList, up, open) /\ 0 \in open
    BY <2>1, <2>2 DEF Heard, The, NewConnection
  <2>6. PICK l : l = Joined(toList, e) OBVIOUS
  <2>7. Informed(l, up, open) BY <1>1, <1>10, <2>5, <2>6, GoesTold
  <2>3. Informed(toList', up, open) BY <1>8, <2>6, <2>7
  <2>4. Heard(up)' BY <1>8, <1>9, <1>11, <2>1, <2>2, <2>3 DEF Heard
  <2> QED BY <2>4
<1>16. toHandle' \in Seq(Calls) /\ gone' \in GoneSet /\ PanelSound(list') BY <1>8 DEF ServerInv
<1>18. Announces(toList', Met', handle'.nextId)
  <2> DEFINE w == <<e>>
  <2>1. w \in Seq(Signals) /\ toList' = toList \o w /\ Len(w) = 1 /\ w[1].id = id
    BY <1>8, <1>10 DEF Joined
  <2>2. Announces(toList, Met, id) BY DEF ServerInv
  <2>3. \A i \in 1..Len(toList) : toList[i].kind = "connected" => toList[i].id \in Nat
    BY <1>1, AnnouncedIds
  <2>4. id < id + 1 /\ id <= id + 1 /\ id + 1 \in Nat BY <1>2
  <2> HIDE DEF w
  <2>5. PICK r : r = toList \o w OBVIOUS
  <2>6. PICK next, then : next = id /\ then = id + 1 OBVIOUS
  <2>7. PICK met : met = Met OBVIOUS
  <2>8. Announces(r, met, then)
    <3>1. /\ next \in Nat /\ then \in Nat /\ next <= then /\ next < then /\ next \notin met
          /\ w[1].id = next /\ Announces(toList, met, next)
      BY <1>2, <1>17, <2>1, <2>2, <2>4, <2>6, <2>7
    <3> QED BY <1>1, <2>1, <2>3, <2>5, <3>1, AppendedAnnounces
  <2> QED BY <1>9, <1>17, <2>1, <2>5, <2>6, <2>7, <2>8
<1> QED BY <1>8, <1>9, <1>11, <1>12, <1>13, <1>14, <1>15, <1>16, <1>18 DEF ServerInv

-----------------------------------------------------------------------------
(* The actions of the view *)

\* What the view does with a signal.
PanelHears(p, e, n) ==
  /\ PanelSound(n)
  /\ \A i \in Ids : IF Tells(e, i) THEN i \in ToSet(n.shown) <=> Comes(e)
                                ELSE i \in ToSet(n.shown) <=> i \in ToSet(p.shown)
  /\ ToSet(n.shown) \subseteq ToSet(p.shown) \cup (IF e.kind = "connected" THEN {e.id} ELSE {})
  /\ e.kind = "Closed" => n.shown = <<>>
  /\ IF e.kind \in {"Open", "Closed"}
     THEN /\ n.connected = (e.kind = "Open")
          /\ n.display = IF e.kind = "Open" THEN "Connected" ELSE "Disconnected"
     ELSE n.connected = p.connected /\ n.display = p.display

LEMMA HearsPanel ==
  ASSUME NEW p, PanelSound(p), NEW e \in Signals, NEW n,
         \/ e.kind = "connected" /\ n = AddClient(p, e.id)
         \/ e.kind = "disconnected" /\ n = DropClient(p, e.id)
         \/ e.kind \in {"Open", "Closed"} /\ n = ServerState(p, e.kind)
  PROVE  PanelHears(p, e, n)
<1> USE DEF PanelHears
<1>1. 0 \notin Ids BY MaxIdsAssumption DEF Ids
<1>2. CASE e.kind = "connected"
  <2>1. e.id \in Ids /\ n = AddClient(p, e.id) BY <1>2 DEF Signals
  <2>2. /\ PanelSound(n) /\ ToSet(n.shown) = ToSet(p.shown) \cup {e.id}
        /\ n.connected = p.connected /\ n.display = p.display
    BY <2>1, AddSound
  <2>3. Comes(e) /\ \A i : Tells(e, i) <=> i = e.id BY <1>2 DEF Tells, Comes
  <2> QED BY <1>2, <2>2, <2>3
<1>3. CASE e.kind = "disconnected"
  <2>1. e.id \in Ids /\ n = DropClient(p, e.id) BY <1>3 DEF Signals
  <2>2. /\ PanelSound(n) /\ ToSet(n.shown) = ToSet(p.shown) \ {e.id}
        /\ n.connected = p.connected /\ n.display = p.display
    BY <2>1, DropSound
  <2>3. ~Comes(e) /\ \A i : Tells(e, i) <=> i = e.id BY <1>3 DEF Tells, Comes
  <2> QED BY <1>3, <2>2, <2>3
<1>4. CASE e.kind = "Open"
  <2>1. PanelSound(n) /\ n.shown = p.shown /\ n.connected /\ n.display = "Connected"
    BY <1>4, StateSound
  <2>2. \A i \in Ids : ~Tells(e, i) BY <1>1, <1>4 DEF Tells, Signals
  <2>3. n.connected = TRUE BY <2>1 DEF PanelSound, ListSet
  <2> QED BY <1>4, <2>1, <2>2, <2>3
<1>5. CASE e.kind = "Closed"
  <2>1. PanelSound(n) /\ n.shown = <<>> /\ ~n.connected /\ n.display = "Disconnected"
    BY <1>5, StateSound
  <2>2. ~Comes(e) /\ (\A i : Tells(e, i)) BY <1>5 DEF Tells, Comes
  <2>3. ToSet(<<>>) = {} BY DEF ToSet
  <2>4. n.connected = FALSE BY <2>1 DEF PanelSound, ListSet
  <2> QED BY <1>5, <2>1, <2>2, <2>3, <2>4
<1> QED BY <1>2, <1>3, <1>4, <1>5 DEF Signals

\* A signal is heard.
LEMMA HearsInv ==
  ASSUME ServerInv, ListHears
  PROVE  ServerInv'
<1> DEFINE K == {"Open", "Closed"}
<1>0. PICK e : e = Head(toList) OBVIOUS
<1>1. toList # <<>> /\ toList' = Tail(toList) /\ UNCHANGED <<handle, toHandle>> BY DEF ListHears
<1>2. toList \in Seq(Signals) /\ PanelSound(list) /\ gone \in GoneSet /\ handle \in HandleSet
  BY DEF ServerInv
<1>3. e \in Signals /\ toList' \in Seq(Signals) BY <1>0, <1>1, <1>2
<1>4. \/ e.kind = "connected" /\ list' = AddClient(list, e.id)
      \/ e.kind = "disconnected" /\ list' = DropClient(list, e.id)
      \/ e.kind \in K /\ list' = ServerState(list, e.kind)
  BY <1>0 DEF ListHears
<1>5. gone' = IF e.kind \in K THEN [gone EXCEPT !.spoke = "server"] ELSE gone
  BY <1>0 DEF ListHears
<1>6. /\ gone' \in GoneSet /\ gone'.times = gone.times /\ gone'.lost = gone.lost
      /\ gone'.crossed = gone.crossed
      /\ gone'.spoke = IF e.kind \in K THEN "server" ELSE gone.spoke
  BY <1>2, <1>5 DEF GoneSet
<1> DEFINE shown == ToSet(list.shown)
           now == ToSet(list'.shown)
<1>7. /\ PanelSound(list')
      /\ \A i \in Ids : IF Tells(e, i) THEN i \in now <=> Comes(e) ELSE i \in now <=> i \in shown
      /\ now \subseteq shown \cup (IF e.kind = "connected" THEN {e.id} ELSE {})
      /\ e.kind = "Closed" => list'.shown = <<>>
      /\ IF e.kind \in K
         THEN /\ list'.connected = (e.kind = "Open")
              /\ list'.display = IF e.kind = "Open" THEN "Connected" ELSE "Disconnected"
         ELSE list'.connected = list.connected /\ list'.display = list.display
  <2>1. PICK n : n = list' OBVIOUS
  <2>2. PICK p : p = list OBVIOUS
  <2>3. /\ PanelSound(p)
        /\ \/ e.kind = "connected" /\ n = AddClient(p, e.id)
           \/ e.kind = "disconnected" /\ n = DropClient(p, e.id)
           \/ e.kind \in {"Open", "Closed"} /\ n = ServerState(p, e.kind)
    BY <1>2, <1>4, <2>1, <2>2
  <2>4. PanelHears(p, e, n) BY <1>3, <2>3, HearsPanel
  <2>5. PanelHears(list, e, list') BY <2>1, <2>2, <2>4
  <2> QED BY <2>5 DEF PanelHears
<1>8. Kept' = Kept /\ Met' \subseteq Met \cup (IF e.kind = "connected" THEN {e.id} ELSE {})
  BY <1>1, <1>6, <1>7 DEF Kept, Met
<1>9. ListFollows'
  <2>1. ASSUME NEW i \in Ids PROVE Follows(Tail(toList), i, now, Kept)
    <3>1. Follows(toList, i, shown, Kept) BY DEF ServerInv, ListFollows
    <3>2. Tells(e, i) => (i \in now <=> Comes(e)) BY <1>7
    <3>3. ~Tells(e, i) => (i \in now <=> i \in shown) BY <1>7
    <3> HIDE DEF shown, now
    <3> QED BY <1>0, <1>1, <1>2, <3>1, <3>2, <3>3, HeardFollows
  <2> QED BY <1>1, <1>8, <2>1 DEF ListFollows
<1>10. Announces(toList', Met', handle'.nextId)
  <2>1. PICK met : met = Met' OBVIOUS
  <2>2. Announces(toList, Met, handle.nextId) BY DEF ServerInv
  <2>3. Announces(Tail(toList), met, handle.nextId)
    BY <1>0, <1>1, <1>2, <1>8, <2>1, <2>2, HeardAnnounces
  <2> QED BY <1>1, <2>1, <2>3
<1>11. \A i \in DOMAIN handle'.clients \cup Met' : i < handle'.nextId
  <2>1. e.kind = "connected" => e.id < handle.nextId
    <3>1. 1 \in 1..Len(toList) /\ toList[1] = e BY <1>0, <1>1, <1>2
    <3> QED BY <3>1 DEF ServerInv, Announces
  <2> QED BY <1>1, <1>8, <2>1 DEF ServerInv
<1>12. \E up \in SUBSET {0} : Heard(up)'
  <2>1. PICK up \in SUBSET {0} : Heard(up) BY DEF ServerInv
  <2>2. PICK new : new = After(e, up) OBVIOUS
  <2>3. new \in SUBSET {0} BY <2>1, <2>2 DEF After
  <2>4. Informed(toList', new, The(handle'.listening)) /\ (e.kind = "connected" => 0 \in up)
    <3>1. PICK open : open = The(handle.listening) OBVIOUS
    <3>2. Informed(toList, up, open) BY <2>1, <3>1 DEF Heard
    <3>3. Informed(Tail(toList), new, open) /\ (e.kind = "connected" => 0 \in up)
      BY <1>0, <1>1, <1>2, <2>2, <3>2, HeardTold
    <3> QED BY <1>1, <3>1, <3>3
  <2>5. gone'.spoke = "server" => list'.connected = (0 \in new)
    BY <1>6, <1>7, <2>1, <2>2 DEF Heard, After
  <2>6. list'.shown # <<>> => 0 \in new
    <3>1. list.shown \in Seq(Ids) /\ list'.shown \in Seq(Ids) BY <1>2, <1>7 DEF PanelSound, ListSet
    <3>2. ASSUME list'.shown # <<>>, e.kind # "connected" PROVE list.shown # <<>>
      <4>1. now \subseteq shown BY <1>7, <3>2
      <4>2. now # {} BY <3>1, <3>2, ToSetFacts
      <4>3. shown # {} BY <4>1, <4>2
      <4> QED BY <3>1, <4>3, ToSetFacts
    <3> QED BY <1>7, <2>1, <2>2, <2>4, <3>2 DEF Heard, After
  <2>7. \/ Some(toHandle', {"listen", "closeAll"})
        \/ Some(toList', K)
        \/ list'.display = IF 0 \in new THEN "Connected" ELSE "Disconnected"
    <3>1. CASE e.kind \in K BY <1>7, <2>2, <3>1 DEF After
    <3>2. CASE e.kind \notin K
      <4>1. Some(toList, K) => Some(toList', K) BY <1>0, <1>1, <1>2, <3>2, SomeHandled
      <4> QED BY <1>1, <1>7, <2>1, <2>2, <3>2, <4>1 DEF Heard, After
    <3> QED BY <3>1, <3>2
  <2>8. Heard(new)' BY <2>4, <2>5, <2>6, <2>7 DEF Heard
  <2> QED BY <2>3, <2>8
<1>13. GoneOnce' BY <1>1, <1>6 DEF ServerInv, GoneOnce
<1>14. ~gone'.crossed => gone'.spoke = "server" /\ gone'.lost = {} BY <1>6 DEF ServerInv
<1> QED BY <1>1, <1>3, <1>6, <1>7, <1>9, <1>10, <1>11, <1>12, <1>13, <1>14 DEF ServerInv

\* The client side writes isConnected_.
LEMMA ReportsInv ==
  ASSUME ServerInv, ClientSideReports
  PROVE  ServerInv'
<1>1. PICK open \in BOOLEAN : list' = [list EXCEPT !.connected = open] BY DEF ClientSideReports
<1>2. UNCHANGED <<handle, toHandle, toList>> BY DEF ClientSideReports
<1>3. /\ PanelSound(list') /\ list'.shown = list.shown /\ list'.display = list.display
  <2>1. PanelSound(list) /\ list \in ListSet BY DEF ServerInv, PanelSound
  <2>2. /\ list' \in ListSet /\ list'.shown = list.shown /\ list'.display = list.display
        /\ list'.selected = list.selected /\ list'.broadcast = list.broadcast
    BY <1>1, <2>1 DEF ListSet
  <2> QED BY <2>1, <2>2 DEF PanelSound
<1>4. /\ gone' \in GoneSet /\ gone'.times = gone.times /\ gone'.lost = gone.lost
      /\ gone'.crossed = TRUE /\ gone'.spoke = "client"
  <2>1. gone \in GoneSet BY DEF ServerInv
  <2> DEFINE k == gone.clicks + 1
  <2>2. k \in Nat /\ gone' = [gone EXCEPT !.clicks = k, !.spoke = "client", !.crossed = TRUE]
    BY <2>1 DEF ClientSideReports, GoneSet
  <2> HIDE DEF k
  <2>3. gone' \in GoneSet
    <3>1. "client" \in {"server", "client"} /\ TRUE \in BOOLEAN OBVIOUS
    <3> QED BY <2>1, <2>2, <3>1 DEF GoneSet
  <2> QED BY <2>1, <2>2, <2>3 DEF GoneSet
<1>5. Kept' = Kept /\ Met' = Met BY <1>2, <1>3, <1>4 DEF Kept, Met
<1>6. ListFollows' BY <1>2, <1>3, <1>5 DEF ServerInv, ListFollows
<1>7. GoneOnce' BY <1>2, <1>4 DEF ServerInv, GoneOnce
<1>8. \E up \in SUBSET {0} : Heard(up)'
  <2>1. PICK up \in SUBSET {0} : Heard(up) BY DEF ServerInv
  <2>2. Heard(up)' BY <1>2, <1>3, <1>4, <2>1 DEF Heard
  <2> QED BY <2>2
<1> QED BY <1>2, <1>3, <1>4, <1>5, <1>6, <1>7, <1>8 DEF ServerInv

\* The page changes, and those on the list may be lost: none while the client side is silent,
\* as the server listens when somebody is listed.
LEMMA SwitchInv ==
  ASSUME ServerInv, NEW p, Switch(p), PanelSound(p), p.shown \in {list.shown, <<>>},
         p.connected = list.connected, p.display = list.display
  PROVE  ServerInv'
<1> DEFINE shown == ToSet(list.shown)
           now == ToSet(p.shown)
<1>1. ~list.connected /\ list' = p /\ UNCHANGED <<handle, toHandle, toList>> BY DEF Switch
<1>2. /\ gone \in GoneSet /\ gone' = [gone EXCEPT !.lost = @ \cup (shown \ now)]
      /\ toList \in Seq(Signals) /\ list.shown \in Seq(Ids)
  BY DEF ServerInv, Switch, PanelSound, ListSet
<1>3. shown \subseteq Ids /\ (now = shown \/ now = {})
  <2>1. shown \subseteq Ids BY <1>2, ToSetFacts
  <2>2. ToSet(<<>>) = {} BY DEF ToSet
  <2> QED BY <2>1, <2>2
<1> HIDE DEF shown, now
<1>4. /\ gone' \in GoneSet /\ gone'.times = gone.times /\ gone'.lost = gone.lost \cup (shown \ now)
      /\ gone'.crossed = gone.crossed /\ gone'.spoke = gone.spoke
  BY <1>2, <1>3 DEF GoneSet
<1>5. Met' = Met /\ Kept' = Kept \ (shown \ now)
  BY <1>1, <1>3, <1>4 DEF Met, Kept, shown, now
<1>6. ListFollows'
  <2>1. ASSUME NEW i \in Ids PROVE Follows(toList, i, now, Kept')
    <3>1. Follows(toList, i, shown, Kept) BY DEF ServerInv, ListFollows, shown
    <3>2. CASE i \in shown \ now
      <4>1. \A j \in 1..Len(toList) : Tells(toList[j], i) => ~Comes(toList[j])
        <5>1. ASSUME NEW j \in 1..Len(toList), Tells(toList[j], i), Comes(toList[j]) PROVE FALSE
          <6>1. toList[j] \in Signals BY <1>2
          <6>2. i # 0 BY MaxIdsAssumption DEF Ids
          <6>3. toList[j].kind = "connected" /\ toList[j].id = i
            BY <5>1, <6>1, <6>2 DEF Tells, Comes, Signals
          <6> QED BY <3>2, <6>3 DEF ServerInv, Announces, Met, shown
        <5> QED BY <5>1
      <4>2. i \notin now /\ i \notin Kept' BY <1>5, <3>2
      <4> QED BY <4>1, <4>2 DEF Follows
    <3>3. CASE i \notin shown \ now
      <4>1. (i \in now <=> i \in shown) /\ (i \in Kept' <=> i \in Kept) BY <1>3, <1>5, <3>3
      <4> QED BY <3>1, <4>1 DEF Follows
    <3> QED BY <3>2, <3>3
  <2> QED BY <1>1, <2>1 DEF ListFollows, now
<1>7. Announces(toList', Met', handle'.nextId) BY <1>1, <1>5 DEF ServerInv
<1>8. \A i \in DOMAIN handle'.clients \cup Met' : i < handle'.nextId BY <1>1, <1>5 DEF ServerInv
<1>9. \E up \in SUBSET {0} : Heard(up)'
  <2>1. PICK up \in SUBSET {0} : Heard(up) BY DEF ServerInv
  <2>2. Heard(up)' BY <1>1, <1>4, <2>1 DEF Heard
  <2> QED BY <2>2
<1>10. ~gone'.crossed => gone'.spoke = "server" /\ gone'.lost = {}
  <2>1. ASSUME ~gone.crossed PROVE gone.spoke = "server" /\ gone.lost = {} /\ shown = {}
    <3>1. gone.spoke = "server" /\ gone.lost = {} BY <2>1 DEF ServerInv
    <3>2. PICK up \in SUBSET {0} : Heard(up) BY DEF ServerInv
    <3>3. list.shown = <<>> BY <1>1, <3>1, <3>2 DEF Heard
    <3> QED BY <3>1, <3>3 DEF shown, ToSet
  <2> QED BY <1>4, <2>1
<1>11. GoneOnce' BY <1>1, <1>4 DEF ServerInv, GoneOnce
<1>12. PanelSound(list') BY <1>1
<1> QED BY <1>1, <1>4, <1>6, <1>7, <1>8, <1>9, <1>10, <1>11, <1>12 DEF ServerInv

LEMMA PageInv ==
  ASSUME ServerInv, SelectProtocol \/ LanguageChanged
  PROVE  ServerInv'
<1>1. PanelSound(list) BY DEF ServerInv
<1>2. CASE SelectProtocol
  <2>1. PICK page \in Pages : Switch(SwitchTo(list, page)) BY <1>2 DEF SelectProtocol
  <2>2. PICK p : p = SwitchTo(list, page) OBVIOUS
  <2>3. /\ PanelSound(p) /\ p.shown \in {list.shown, <<>>}
        /\ p.connected = list.connected /\ p.display = list.display
    BY <1>1, <2>2, SwitchSound
  <2> QED BY <2>1, <2>2, <2>3, SwitchInv
<1>3. CASE LanguageChanged
  <2>1. PICK page \in Pages : Switch(SwitchTo(SwitchTo(list, "client"), page))
    BY <1>3 DEF LanguageChanged
  <2>2. PICK m : m = SwitchTo(list, "client") OBVIOUS
  <2>3. PICK p : p = SwitchTo(m, page) OBVIOUS
  <2>4. /\ PanelSound(m) /\ m.shown \in {list.shown, <<>>}
        /\ m.connected = list.connected /\ m.display = list.display
    <3>1. "client" \in Pages BY DEF Pages
    <3> QED BY <1>1, <2>2, <3>1, SwitchSound
  <2>5. /\ PanelSound(p) /\ p.shown \in {m.shown, <<>>}
        /\ p.connected = m.connected /\ p.display = m.display
    BY <2>3, <2>4, SwitchSound
  <2> QED BY <2>1, <2>2, <2>3, <2>4, <2>5, SwitchInv
<1> QED BY <1>2, <1>3

LEMMA ListenClicks ==
  ASSUME ServerInv, StartListen \/ StopListen
  PROVE  ServerInv'
<1>1. PICK k \in {"listen", "closeAll"}, d \in {"Connecting", "Disconnecting"} :
        Click(<<ServerCall(k, 0)>>) /\ list' = [list EXCEPT !.display = d]
  BY DEF StartListen, StopListen
<1> DEFINE w == <<ServerCall(k, 0)>>
<1>2. ServerCall(k, 0) \in Calls /\ ServerCall(k, 0).kind = k
  BY MaxIdsAssumption DEF ServerCall, Calls
<1>3. w \in Seq(Calls) /\ Len(w) = 1 /\ w[1] = ServerCall(k, 0) BY <1>2
<1>4. Some(w, {"listen", "closeAll"})
  <2>1. 1 \in 1..Len(w) /\ w[1].kind \in {"listen", "closeAll"} BY <1>2, <1>3
  <2> HIDE DEF w
  <2> QED BY <2>1 DEF Some
<1> HIDE DEF w
<1>5. toHandle' = toHandle \o w /\ UNCHANGED <<handle, toList>> BY <1>1 DEF Click, w
<1>6. toHandle \in Seq(Calls) BY DEF ServerInv
<1>7. toHandle' \in Seq(Calls) BY <1>3, <1>5, <1>6, Concatenated
<1>8. Some(toHandle', {"listen", "closeAll"}) BY <1>3, <1>4, <1>5, <1>6, SomeAppended
<1>10. gone' \in GoneSet /\ SameHistory
  <2>1. gone \in GoneSet /\ gone' = [gone EXCEPT !.clicks = @ + 1] BY <1>1 DEF ServerInv, Click
  <2> QED BY <2>1, ClickCounted
<1>11. PanelSound(list') /\ list'.shown = list.shown /\ list'.connected = list.connected
  <2>1. PanelSound(list) /\ list \in ListSet BY DEF ServerInv, PanelSound
  <2>2. /\ list' \in ListSet /\ list'.shown = list.shown /\ list'.connected = list.connected
        /\ list'.selected = list.selected /\ list'.broadcast = list.broadcast
    BY <1>1, <2>1 DEF ListSet, Displays
  <2> QED BY <2>1, <2>2 DEF PanelSound
<1>12. handle' \in HandleSet /\ handle' = handle /\ toList' = toList BY <1>5 DEF ServerInv
<1> QED BY <1>7, <1>8, <1>10, <1>11, <1>12, KeptInv

LEMMA CallsForClients ==
  ASSUME NEW ids \in Seq(Ids), NEW k \in {"close", "write"}
  PROVE  EachTo(k, ids) \in Seq(Calls)
<1> DEFINE w == EachTo(k, ids)
<1>1. k \in {"close", "write", "disconnected"} /\ k # "disconnected" OBVIOUS
<1>2. w \in Seq(IF k = "disconnected" THEN Signals ELSE Calls)
  <2> w = EachTo(k, ids) OBVIOUS
  <2> HIDE DEF w
  <2> QED BY <1>1, EachToFacts
<1> QED BY <1>1, <1>2

LEMMA SendClicks ==
  ASSUME ServerInv, DisconnectSelected \/ DisconnectAll \/ SendTo
  PROVE  ServerInv'
<1>1. PICK ids \in SelectedIds(list) \cup {list.shown}, k \in {"close", "write"} :
        Click(EachTo(k, ids)) /\ UNCHANGED list
  BY DEF DisconnectSelected, DisconnectAll, SendTo, Targets
<1>2. list.shown \in Seq(Ids) /\ list.selected \in SUBSET Ids BY DEF ServerInv, PanelSound, ListSet
<1>3. IsFiniteSet(list.selected)
  <2>1. 1 \in Int /\ MaxIds \in Int BY MaxIdsAssumption
  <2>2. IsFiniteSet(Ids) BY <2>1, FS_Interval DEF Ids
  <2> QED BY <1>2, <2>2, FS_Subset
<1>4. ids \in Seq(Ids)
  <2>1. CASE ids \in SelectedIds(list)
    <3>1. ids \in Seq(list.selected) BY <1>3, <2>1, SetToSeqsFacts DEF SelectedIds
    <3> QED BY <1>2, <3>1
  <2>2. CASE ids = list.shown BY <1>2, <2>2
  <2> QED BY <2>1, <2>2
<1>5. EachTo(k, ids) \in Seq(Calls) BY <1>4, CallsForClients
<1> QED BY <1>1, <1>5, CallsAdded

LEMMA ChooseInv ==
  ASSUME ServerInv, Choose
  PROVE  ServerInv'
<1>1. PanelSound(list) /\ list \in ListSet /\ list.shown \in Seq(Ids)
  BY DEF ServerInv, PanelSound, ListSet
<1>2. ToSet(list.shown) \subseteq Ids BY <1>1, ToSetFacts
<1>3. PanelSound(list') /\ list'.shown = list.shown /\ list'.connected = list.connected
      /\ list'.display = list.display
  <2>1. CASE \E ids \in SUBSET ToSet(list.shown) : list' = [list EXCEPT !.selected = ids]
    <3>1. PICK ids \in SUBSET ToSet(list.shown) : list' = [list EXCEPT !.selected = ids] BY <2>1
    <3>2. ids \in SUBSET Ids BY <1>2
    <3>3. /\ list' \in ListSet /\ list'.shown = list.shown /\ list'.connected = list.connected
          /\ list'.selected = ids /\ list'.broadcast = list.broadcast /\ list'.display = list.display
      BY <1>1, <3>1, <3>2 DEF ListSet
    <3> QED BY <1>1, <3>3 DEF PanelSound
  <2>2. CASE list.shown # <<>> /\ list' = [list EXCEPT !.broadcast = ~@]
    <3>1. /\ list' \in ListSet /\ list'.shown = list.shown /\ list'.connected = list.connected
          /\ list'.selected = list.selected /\ list'.display = list.display
      BY <1>1, <2>2 DEF ListSet
    <3> QED BY <1>1, <2>2, <3>1 DEF PanelSound
  <2> QED BY <2>1, <2>2 DEF Choose
<1>4. UNCHANGED <<handle, toHandle, toList>> BY DEF Choose
<1>5. gone' \in GoneSet /\ SameHistory
  <2>1. gone \in GoneSet /\ gone' = [gone EXCEPT !.clicks = @ + 1] BY DEF ServerInv, Choose
  <2> QED BY <2>1, ClickCounted
<1>7. handle' \in HandleSet /\ toHandle' \in Seq(Calls) BY <1>4 DEF ServerInv
<1> QED BY <1>3, <1>4, <1>5, <1>7, KeptInv

-----------------------------------------------------------------------------
LEMMA StepInv ==
  ASSUME ServerInv, ServerNext
  PROVE  ServerInv'
<1>1. CASE ServerStep
  <2>1. toHandle # <<>> /\ UNCHANGED list BY <1>1 DEF ServerStep
  <2>2. CASE RunListen
    <3>1. PICK ok \in BOOLEAN, ids \in Stopped :
            /\ handle' = [handle EXCEPT !.listening = ok, !.clients = NoClients]
            /\ toList' = toList \o EachTo("disconnected", ids)
                                \o <<ServerCall(IF ok THEN "Open" ELSE "Closed", 0)>>
      BY <2>2 DEF RunListen
    <3>2. gone' = CountAll /\ toHandle' = Tail(toHandle) BY <2>2 DEF RunListen
    <3> QED BY <2>1, <3>1, <3>2, StopInv
  <2>3. CASE RunCloseAll
    <3> DEFINE ok == FALSE
    <3>1. PICK ids \in Stopped :
            toList' = toList \o EachTo("disconnected", ids)
                             \o <<ServerCall(IF ok THEN "Open" ELSE "Closed", 0)>>
      BY <2>3 DEF RunCloseAll
    <3>2. handle' = [handle EXCEPT !.listening = ok, !.clients = NoClients]
          /\ gone' = CountAll /\ toHandle' = Tail(toHandle)
      BY <2>3 DEF RunCloseAll
    <3>3. ok \in BOOLEAN OBVIOUS
    <3> HIDE DEF ok
    <3> QED BY <2>1, <3>1, <3>2, <3>3, StopInv
  <2>4. CASE RunCloseClient BY <2>1, <2>4, CloseClientInv
  <2>5. CASE RunWriteTo BY <2>1, <2>5, WriteToInv
  <2>6. CASE Head(toHandle).kind = "remove" /\ RemoveClient(Head(toHandle).id)
    BY <2>1, <2>6, RemoveInv
  <2> QED BY <1>1, <2>2, <2>3, <2>4, <2>5, <2>6 DEF ServerStep
<1>2. CASE NewConnection BY <1>2, NewConnectionInv
<1>3. CASE ClientChannel BY <1>3, ClientChannelInv
<1>4. CASE ListHears BY <1>4, HearsInv
<1>5. CASE StartListen \/ StopListen BY <1>5, ListenClicks
<1>6. CASE DisconnectSelected \/ DisconnectAll \/ SendTo BY <1>6, SendClicks
<1>7. CASE Choose BY <1>7, ChooseInv
<1>8. CASE ClientSideReports BY <1>8, ReportsInv
<1>9. CASE SelectProtocol \/ LanguageChanged BY <1>9, PageInv
<1> QED BY <1>1, <1>2, <1>3, <1>4, <1>5, <1>6, <1>7, <1>8, <1>9 DEF ServerNext

LEMMA InvTracks == ServerInv => ClientsTracked
<1> SUFFICES ASSUME ServerInv PROVE ClientsTracked OBVIOUS
<1>1. list \in ListSet /\ list.shown \in Seq(Ids) /\ handle \in HandleSet
  BY DEF ServerInv, PanelSound, ListSet
<1>2. ToSet(list.shown) \subseteq Ids /\ DOMAIN handle.clients \subseteq Ids
  BY <1>1, ToSetFacts, MapFacts DEF HandleSet
<1>3. PICK up \in SUBSET {0} : Heard(up) BY DEF ServerInv
<1>4. ASSUME toList = <<>>
      PROVE  /\ ToSet(list.shown) = DOMAIN handle.clients \ gone.lost
             /\ gone.spoke = "server" => (list.connected <=> handle.listening)
             /\ toHandle = <<>> => list.display = IF handle.listening THEN "Connected" ELSE "Disconnected"
  <2>1. \A i \in 1..Len(toList) : FALSE BY <1>4
  <2>2. \A i \in Ids : i \in ToSet(list.shown) <=> i \in Kept
    BY <2>1 DEF ServerInv, ListFollows, Follows
  <2>3. 0 \in up <=> handle.listening
    <3>1. 0 \in up <=> 0 \in The(handle.listening) BY <1>3, <2>1 DEF Heard, Informed, Follows
    <3> QED BY <3>1 DEF The
  <2>4. gone.spoke = "server" => (list.connected <=> handle.listening) BY <1>3, <2>3 DEF Heard
  <2>5. ASSUME toHandle = <<>>
        PROVE  list.display = IF handle.listening THEN "Connected" ELSE "Disconnected"
    <3>1. \A i \in 1..Len(toHandle) : FALSE BY <2>5
    <3> QED BY <1>3, <2>1, <2>3, <3>1 DEF Heard, Some
  <2> QED BY <1>2, <2>2, <2>4, <2>5 DEF Kept
<1>5. ListAgrees BY <1>4 DEF ListAgrees
<1>6. LostToOthers BY DEF ServerInv, LostToOthers
<1>7. TargetsListed BY DEF ServerInv, PanelSound, TargetsListed
<1> QED BY <1>5, <1>6, <1>7 DEF ServerInv, ClientsTracked

\* Every client is reported gone once; when the view has heard everything it lists the
\* clients the server has, each of them once, but for those a change of page took off the
\* list, which needs a state the client side wrote into isConnected_; its server widget shows
\* whether the server listens; what is selected is listed: TcpServerHandle,
\* ServerClientPanel, NetworkDebuggerView.
THEOREM ServerIsTracked == ServerInit /\ [][ServerNext]_serverVars => []ClientsTracked
<1>1. ServerInit => ServerInv BY InvInit
<1>2. ServerInv /\ [ServerNext]_serverVars => ServerInv'
  <2> SUFFICES ASSUME ServerInv, [ServerNext]_serverVars PROVE ServerInv' OBVIOUS
  <2>1. CASE ServerNext BY <2>1, StepInv
  <2>2. CASE UNCHANGED serverVars
    <3>1. UNCHANGED <<handle, toHandle, toList, list, gone>> BY <2>2 DEF serverVars
    <3>2. Kept' = Kept /\ Met' = Met BY <3>1 DEF Kept, Met
    <3>3. GoneOnce' /\ ListFollows' BY <3>1, <3>2 DEF ServerInv, GoneOnce, ListFollows
    <3>4. \E up \in SUBSET {0} : Heard(up)'
      <4>1. PICK up \in SUBSET {0} : Heard(up) BY DEF ServerInv
      <4>2. Heard(up)' BY <3>1, <4>1 DEF Heard
      <4> QED BY <4>2
    <3> QED BY <3>1, <3>2, <3>3, <3>4 DEF ServerInv
  <2> QED BY <2>1, <2>2
<1>3. ServerInv => ClientsTracked BY InvTracks
<1> QED BY <1>1, <1>2, <1>3, PTL

-----------------------------------------------------------------------------
(* The frame builder *)

LEMMA LesserIs ==
  ASSUME NEW a \in Nat, NEW b \in Nat
  PROVE  Min({a, b}) \in Nat /\ Min({a, b}) <= b /\ (a <= b => Min({a, b}) = a)
<1> DEFINE m == IF a <= b THEN a ELSE b
<1>1. m \in {a, b} /\ \A y \in {a, b} : m <= y OBVIOUS
<1>2. Min({a, b}) \in {a, b} /\ \A y \in {a, b} : Min({a, b}) <= y BY <1>1 DEF Min
<1> QED BY <1>2

\* The frame of a single write is the same for any quantity.
LEMMA SingleWriteIs ==
  ASSUME NEW fc \in WriteSingle, NEW start, NEW text, NEW format, NEW q, NEW n
  PROVE  BuilderWrite(fc, start, text, format, q) = BuilderWrite(fc, start, text, format, n)
<1>1. \A raw : BuildWriteRequest(fc, start, q, raw) = BuildWriteRequest(fc, start, n, raw)
  BY DEF BuildWriteRequest, WriteSingle
<1>2. CASE fc = 5 BY <1>1, <1>2 DEF BuilderWrite
<1>3. CASE fc = 6 BY <1>1, <1>3 DEF BuilderWrite
<1> QED BY <1>2, <1>3 DEF WriteSingle

LEMMA SingleKeepsFrame ==
  ASSUME NEW f \in Forms, NEW q, f.fc \in WriteSingle
  PROVE  OutputOf([f EXCEPT !.quantity = q]) = OutputOf(f)
<1> DEFINE g == [f EXCEPT !.quantity = q]
<1>1. /\ g.proto = f.proto /\ g.id = f.id /\ g.fc = f.fc /\ g.base = f.base /\ g.address = f.address
      /\ g.text = f.text /\ g.format = f.format
  BY DEF Forms
<1> HIDE DEF g
<1>2. f.fc \notin Reads BY DEF Reads, ReadBits, ReadRegisters, WriteSingle
<1>3. Reach(g) = 1 /\ Reach(f) = 1 BY <1>1 DEF Reach
<1>4. \A start : BuilderWrite(g.fc, start, g.text, g.format, g.quantity)
                   = BuilderWrite(f.fc, start, f.text, f.format, f.quantity)
  BY <1>1, SingleWriteIs
<1>5. Frames(g) = Frames(f) BY <1>1, <1>2, <1>3, <1>4 DEF Frames
<1>6. \A adu : FieldTable(g, adu) = FieldTable(f, adu) BY <1>1 DEF FieldTable
<1>7. OutputOf(g) = OutputOf(f) BY <1>5, <1>6 DEF OutputOf
<1> QED BY <1>7 DEF g

LEMMA RangeIs ==
  ASSUME NEW fc \in FunctionCodes, NEW before \in Nat
  PROVE  RangeFor(fc, before) \in Nat /\ (fc \notin WriteSingle => RangeFor(fc, before) = MaxQuantity(fc))
BY DEF RangeFor, MaxQuantity, FunctionCodes, WriteSingle, WriteMultiple, Reads, ReadBits, ReadRegisters

\* A form with its quantity brought into the range that a start gives it.
Back(f) == [f EXCEPT !.quantity = Min({@, RangeFor(f.fc, 125)})]

LEMMA BackIs ==
  ASSUME NEW f \in Forms
  PROVE  /\ Back(f) \in Forms /\ Back(f).fc = f.fc /\ RangeFor(f.fc, 125) \in Nat
         /\ Back(f).quantity <= RangeFor(f.fc, 125)
<1>1. f.fc \in FunctionCodes /\ f.quantity \in Nat BY DEF Forms
<1>2. RangeFor(f.fc, 125) \in Nat BY <1>1, RangeIs
<1> DEFINE m == Min({f.quantity, RangeFor(f.fc, 125)})
<1>3. m \in Nat /\ m <= RangeFor(f.fc, 125) BY <1>1, <1>2, LesserIs
<1>4. Back(f) = [f EXCEPT !.quantity = m] BY DEF Back
<1> HIDE DEF m
<1>5. Back(f) \in Forms /\ Back(f).fc = f.fc /\ Back(f).quantity = m BY <1>3, <1>4 DEF Forms
<1> QED BY <1>2, <1>3, <1>5

\* What is saved gives the frame back.
LEMMA BackKeepsFrame ==
  ASSUME NEW f \in Forms, NEW r \in Nat, f.fc \notin WriteSingle => r = MaxQuantity(f.fc), f.quantity <= r
  PROVE  OutputOf(Back(f)) = OutputOf(f)
<1>1. f.fc \in FunctionCodes /\ f.quantity \in Nat BY DEF Forms
<1>2. CASE f.fc \in WriteSingle BY <1>2, SingleKeepsFrame DEF Back
<1>3. CASE f.fc \notin WriteSingle
  <2>1. RangeFor(f.fc, 125) = r BY <1>1, <1>3, RangeIs
  <2>2. Min({f.quantity, r}) = f.quantity BY <1>1, LesserIs
  <2>3. Back(f) = [f EXCEPT !.quantity = f.quantity] BY <2>1, <2>2 DEF Back
  <2>4. Back(f) = f BY <2>3 DEF Forms
  <2> QED BY <2>4
<1> QED BY <1>2, <1>3

BuilderInv ==
  /\ form \in Forms /\ saved \in Forms /\ range \in Nat
  /\ form.fc \notin WriteSingle => range = MaxQuantity(form.fc)
  /\ form.quantity <= range
  /\ OutputOf(Back(saved)) = OutputOf(form)
  /\ OutputIsCurrent

\* The program starts, or starts again.
LEMMA LoadedIs ==
  ASSUME NEW f \in Forms
  PROVE  /\ Back(f) \in Forms /\ RangeFor(f.fc, 125) \in Nat
         /\ Back(f).fc \notin WriteSingle => RangeFor(f.fc, 125) = MaxQuantity(Back(f).fc)
         /\ Back(f).quantity <= RangeFor(f.fc, 125)
<1>1. f.fc \in FunctionCodes BY DEF Forms
<1> QED BY <1>1, BackIs, RangeIs

LEMMA FirstIsForm == FirstForm \in Forms
<1>1. Hex(0) \in Addressings BY DEF Hex, Addressings
<1>2. <<<<0, 0, 0, 1>>, <<0, 0, 0, 2>>>> \in FormTexts
  <2>1. <<0, 0, 0, 1>> \in Seq(Nat) /\ <<0, 0, 0, 2>> \in Seq(Nat) OBVIOUS
  <2> QED BY <2>1 DEF FormTexts
<1>3. "RTU" \in FrameProtocols /\ 3 \in FunctionCodes /\ "Hex" \in Formats
  BY DEF FrameProtocols, FunctionCodes, Reads, ReadRegisters, Formats
<1> QED BY <1>1, <1>2, <1>3 DEF FirstForm, Forms

LEMMA BuilderStarts == BuilderInit => BuilderInv
<1> SUFFICES ASSUME BuilderInit PROVE BuilderInv OBVIOUS
<1>1. saved \in Forms BY FormsCanBeTyped, FirstIsForm DEF BuilderInit
<1>2. form = Back(saved) /\ range = RangeFor(saved.fc, 125) BY DEF BuilderInit, Back
<1>3. OutputIsCurrent BY DEF BuilderInit, OutputIsCurrent
<1> QED BY <1>1, <1>2, <1>3, LoadedIs DEF BuilderInv

\* The form changes, and is saved as it is.
LEMMA ChangeKeeps ==
  ASSUME NEW f \in Forms, Change(f), range' \in Nat, f.quantity <= range',
         f.fc \notin WriteSingle => range' = MaxQuantity(f.fc)
  PROVE  BuilderInv'
<1>1. form' = f /\ saved' = f /\ output' = NoFrame /\ pending' = TRUE BY DEF Change, OnParameterChanged
<1>2. OutputOf(Back(f)) = OutputOf(f) BY BackKeepsFrame
<1>3. OutputOf(Back(saved'))  = OutputOf(form') BY <1>1, <1>2
<1>4. OutputIsCurrent' BY <1>1 DEF OutputIsCurrent
<1> QED BY <1>1, <1>3, <1>4 DEF BuilderInv

LEMMA BuilderKeeps == BuilderInv /\ [BuilderNext]_builderVars => BuilderInv'
<1> SUFFICES ASSUME BuilderInv, [BuilderNext]_builderVars PROVE BuilderInv' OBVIOUS
<1>0. form \in Forms /\ range \in Nat /\ form.quantity \in Nat /\ form.quantity <= range /\ form.fc \in FunctionCodes
  BY DEF BuilderInv, Forms
<1>1. CASE OnFunctionCodeChanged
  <2>1. PICK fc \in FunctionCodes :
          range' = RangeFor(fc, range) /\ Change([form EXCEPT !.fc = fc, !.quantity = Min({@, range'})])
    BY <1>1 DEF OnFunctionCodeChanged
  <2>2. range' \in Nat /\ (fc \notin WriteSingle => range' = MaxQuantity(fc)) BY <1>0, <2>1, RangeIs
  <2> DEFINE m == Min({form.quantity, range'})
             f == [[form EXCEPT !.fc = fc] EXCEPT !.quantity = m]
  <2>3. m \in Nat /\ m <= range' BY <1>0, <2>2, LesserIs
  <2>4. Change(f)
    <3>1. [form EXCEPT !.fc = fc, !.quantity = Min({@, range'})] = f BY <1>0 DEF Forms
    <3> QED BY <2>1, <3>1
  <2> HIDE DEF m
  <2>5. f \in Forms /\ f.fc = fc /\ f.quantity = m BY <1>0, <2>3 DEF Forms
  <2> HIDE DEF f
  <2> QED BY <2>2, <2>3, <2>4, <2>5, ChangeKeeps
<1>2. ASSUME NEW f, f \in Forms, f.fc = form.fc, f.quantity <= range, Change(f), UNCHANGED range PROVE BuilderInv'
  BY <1>0, <1>2, ChangeKeeps DEF BuilderInv
<1>3. CASE OnProtocolChanged
  <2>1. PICK proto \in FrameProtocols : Change([form EXCEPT !.proto = proto]) /\ UNCHANGED range
    BY <1>3 DEF OnProtocolChanged
  <2> DEFINE f == [form EXCEPT !.proto = proto]
  <2>2. f \in Forms /\ f.fc = form.fc /\ f.quantity = form.quantity BY <1>0 DEF Forms
  <2> HIDE DEF f
  <2> QED BY <1>0, <1>2, <2>1, <2>2 DEF f
<1>4. CASE TypeParameter
  <2>0. UNCHANGED range BY <1>4 DEF TypeParameter
  <2>1. CASE \E id \in TypedIds : Change([form EXCEPT !.id = id])
    <3>1. PICK id \in TypedIds : Change([form EXCEPT !.id = id]) BY <2>1
    <3> DEFINE f == [form EXCEPT !.id = id]
    <3>2. f \in Forms /\ f.fc = form.fc /\ f.quantity = form.quantity
      <4>1. id \in Nat BY FormsCanBeTyped
      <4> QED BY <1>0, <4>1 DEF Forms
    <3>3. Change(f) BY <3>1
    <3> HIDE DEF f
    <3> QED BY <1>0, <1>2, <2>0, <3>2, <3>3
  <2>2. CASE \E base \in {"0Based", "1Based"} : Change([form EXCEPT !.base = base])
    <3>1. PICK base \in {"0Based", "1Based"} : Change([form EXCEPT !.base = base]) BY <2>2
    <3> DEFINE f == [form EXCEPT !.base = base]
    <3>2. f \in Forms /\ f.fc = form.fc /\ f.quantity = form.quantity BY <1>0 DEF Forms
    <3>3. Change(f) BY <3>1
    <3> HIDE DEF f
    <3> QED BY <1>0, <1>2, <2>0, <3>2, <3>3
  <2>3. CASE \E address \in TypedAddresses : Change([form EXCEPT !.address = address])
    <3>1. PICK address \in TypedAddresses : Change([form EXCEPT !.address = address]) BY <2>3
    <3> DEFINE f == [form EXCEPT !.address = address]
    <3>2. f \in Forms /\ f.fc = form.fc /\ f.quantity = form.quantity
      <4>1. address \in Addressings BY FormsCanBeTyped
      <4> QED BY <1>0, <4>1 DEF Forms
    <3>3. Change(f) BY <3>1
    <3> HIDE DEF f
    <3> QED BY <1>0, <1>2, <2>0, <3>2, <3>3
  <2>4. CASE \E n \in TypedQuantities : n <= range /\ Change([form EXCEPT !.quantity = n])
    <3>1. PICK n \in TypedQuantities : n <= range /\ Change([form EXCEPT !.quantity = n]) BY <2>4
    <3> DEFINE f == [form EXCEPT !.quantity = n]
    <3>2. f \in Forms /\ f.fc = form.fc /\ f.quantity = n
      <4>1. n \in Nat BY FormsCanBeTyped
      <4> QED BY <1>0, <4>1 DEF Forms
    <3>3. Change(f) BY <3>1
    <3> HIDE DEF f
    <3> QED BY <1>0, <1>2, <2>0, <3>1, <3>2, <3>3
  <2>5. CASE \E text \in TypedTexts : Change([form EXCEPT !.text = text])
    <3>1. PICK text \in TypedTexts : Change([form EXCEPT !.text = text]) BY <2>5
    <3> DEFINE f == [form EXCEPT !.text = text]
    <3>2. f \in Forms /\ f.fc = form.fc /\ f.quantity = form.quantity
      <4>1. text \in FormTexts BY FormsCanBeTyped
      <4> QED BY <1>0, <4>1 DEF Forms
    <3>3. Change(f) BY <3>1
    <3> HIDE DEF f
    <3> QED BY <1>0, <1>2, <2>0, <3>2, <3>3
  <2>6. CASE \E format \in Formats : Change([form EXCEPT !.format = format])
    <3>1. PICK format \in Formats : Change([form EXCEPT !.format = format]) BY <2>6
    <3> DEFINE f == [form EXCEPT !.format = format]
    <3>2. f \in Forms /\ f.fc = form.fc /\ f.quantity = form.quantity BY <1>0 DEF Forms
    <3>3. Change(f) BY <3>1
    <3> HIDE DEF f
    <3> QED BY <1>0, <1>2, <2>0, <3>2, <3>3
  <2> QED BY <1>4, <2>1, <2>2, <2>3, <2>4, <2>5, <2>6 DEF TypeParameter
<1>5. CASE RebuildFrame
  <2>1. UNCHANGED <<form, range, saved>> /\ OutputIsCurrent' BY <1>5 DEF RebuildFrame, OutputIsCurrent
  <2> QED BY <2>1 DEF BuilderInv
<1>6. CASE LanguageChange
  <2>1. UNCHANGED <<form, range, saved>> BY <1>6 DEF LanguageChange
  <2>2. OutputIsCurrent' BY <1>6 DEF LanguageChange, BuilderInv, OutputIsCurrent
  <2> QED BY <2>1, <2>2 DEF BuilderInv
<1>7. CASE BuilderRestart
  <2>1. /\ range' = RangeFor(saved.fc, 125) /\ form' = Back(saved) /\ saved' = saved
        /\ output' = OutputOf(form') /\ pending' = FALSE
    BY <1>7 DEF BuilderRestart, Load, Back
  <2>2. OutputIsCurrent' BY <2>1 DEF OutputIsCurrent
  <2>3. saved \in Forms BY DEF BuilderInv
  <2> QED BY <2>1, <2>2, <2>3, LoadedIs DEF BuilderInv
<1>8. CASE UNCHANGED builderVars
  <2>1. UNCHANGED <<form, range, output, pending, saved>> BY <1>8 DEF builderVars
  <2>2. OutputIsCurrent' BY <2>1 DEF BuilderInv, OutputIsCurrent
  <2> QED BY <2>1, <2>2 DEF BuilderInv
<1> QED BY <1>1, <1>3, <1>4, <1>5, <1>6, <1>7, <1>8 DEF BuilderNext

\* A part of BuilderTruthful, for any forms and texts: while a rebuild is due the builder shows
\* no frame and otherwise the frame of the form as it stands, and a start brings that frame
\* back, although the range of the quantity is not saved (onParameterChanged(),
\* rebuildFrame(), retranslateUi(), loadSettings()).
THEOREM FrameIsCurrent == BuilderSpec => [](OutputIsCurrent /\ RestartKeepsFrame)
<1>1. BuilderInv => OutputIsCurrent /\ RestartKeepsFrame BY DEF BuilderInv, RestartKeepsFrame, Back
<1> QED BY <1>1, BuilderStarts, BuilderKeeps, PTL DEF BuilderSpec

=============================================================================
