------------------------------- MODULE Updates -------------------------------
\* Updating the program: the settings page that offers it (UpdateSection.tsx),
\* the one download that runs at a time (index.ts, update-service.ts), which
\* writes and hashes what arrives, and the quitting that follows when the
\* installer is started.
EXTENDS Naturals, FiniteSets

CONSTANTS
  Chunks,     \* chunks of the installer
  MaxTries,   \* bound: downloads in a run
  MaxQuits    \* bound: calls of quitPulse

VARIABLES
  phase,      \* what the settings page shows
  waiting,    \* the mounted page waits for the download's result
  task,       \* updateDownload: the running download
  tries,      \* downloads begun
  disk,       \* the .part file and the installer
  downloaded, \* downloadedInstaller is set
  started,    \* the installers that were started
  quit,       \* the calls of quitPulse: their timers and their stops of the daemon
  cleanups,   \* times the services were taken down
  exited      \* the process is gone

updateVars == <<phase, waiting, task, tries, disk, downloaded, started, quit, cleanups, exited>>

\* A file: whether what was written to it is as published, and whether a write
\* had been reported as failed when it was accepted.
Download(clean, told) == [is |-> TRUE, clean |-> clean, told |-> told]
NoInstaller == [is |-> FALSE, clean |-> FALSE, told |-> FALSE]

\* A download: where it stands, how much has come, whether what came is what was
\* published, and whether the disk took it; "refused" is a failed write, which
\* the stream reports a little later, as writeError.
NoTask == [at |-> "none", got |-> 0, clean |-> TRUE, refused |-> FALSE, told |-> FALSE,
           armed |-> FALSE, expired |-> FALSE, ok |-> FALSE]

UpdateInit ==
  /\ phase = "checking" /\ waiting = FALSE
  /\ task = NoTask /\ tries = 0
  /\ disk = [part |-> NoInstaller, final |-> NoInstaller]
  /\ downloaded = FALSE /\ started = {}
  /\ quit = [calls |-> 0, timers |-> 0, stops |-> 0]
  /\ cleanups = 0 /\ exited = FALSE

Running == ~exited
At(place) == Running /\ task.at = place
Goes(place) == task' = [task EXCEPT !.at = place]

-----------------------------------------------------------------------------
\* The settings page.

\* fetchUpdateInfo: no newer version, a newer one whose installer and checksum
\* can both be downloaded from this repository, one that is to be fetched by hand,
\* or no answer.
CheckResults == {"latest", "available", "manual", "error"}

\* check().
Checked ==
  /\ Running /\ phase = "checking"
  /\ phase' \in CheckResults
  /\ UNCHANGED <<tries, waiting, task, disk, downloaded, started, quit, cleanups, exited>>

CheckAgain ==
  /\ Running /\ phase \in {"latest", "error"}
  /\ phase' = "checking"
  /\ UNCHANGED <<tries, waiting, task, disk, downloaded, started, quit, cleanups, exited>>

\* The user leaves the page and comes back: it knows nothing of the download.
Remount ==
  /\ Running
  /\ phase' = "checking" /\ waiting' = FALSE
  /\ UNCHANGED <<tries, task, disk, downloaded, started, quit, cleanups, exited>>

\* download(): a running download is joined, not begun again.
ClickDownload ==
  /\ Running /\ phase = "available"
  /\ phase' = "downloading" /\ waiting' = TRUE
  /\ IF task.at = "none"
     THEN tries < MaxTries /\ tries' = tries + 1 /\ task' = [NoTask EXCEPT !.at = "asking"]
     ELSE UNCHANGED <<task, tries>>
  /\ UNCHANGED <<disk, downloaded, started, quit, cleanups, exited>>

-----------------------------------------------------------------------------
\* downloadInstaller.

\* The release, then its checksum: each request has a timeout of its own.
Released ==
  /\ At("asking")
  /\ \/ Goes("opening")
     \/ Goes("over")
  /\ UNCHANGED <<tries, phase, waiting, disk, downloaded, started, quit, cleanups, exited>>

\* Mutant: the idle timer is first set when a chunk has come.
Arms_OnChunk == FALSE

\* resetIdle() before the request for the installer.
Arms == TRUE

\* The .part file is created, over what a killed download may have left.
PartOpens ==
  /\ At("opening")
  /\ task' = [task EXCEPT !.at = "stream", !.armed = Arms]
  /\ disk' = [disk EXCEPT !.part = Download(TRUE, FALSE)]
  /\ UNCHANGED <<tries, phase, waiting, downloaded, started, quit, cleanups, exited>>

\* A chunk comes, as published or damaged, and resets the timer. It is written
\* unless the stream is known to have failed; a full buffer is waited for.
ChunkComes ==
  /\ At("stream") /\ ~task.expired /\ task.got < Chunks
  /\ \E clean \in BOOLEAN, drains \in BOOLEAN :
       task' = [task EXCEPT !.armed = TRUE,
                  !.got = @ + 1, !.clean = @ /\ clean,
                  !.at = IF task.told THEN "cleanup" ELSE IF drains THEN "stream" ELSE "draining"]
  /\ disk' = IF task.told THEN disk
             ELSE [disk EXCEPT !.part = Download(task'.clean, FALSE)]
  /\ UNCHANGED <<tries, phase, waiting, downloaded, started, quit, cleanups, exited>>

\* The disk refuses a write (full, or taken away); the stream says so later.
WriteRefused ==
  /\ Running /\ task.at \in {"stream", "draining", "ending"} /\ ~task.refused
  /\ task' = [task EXCEPT !.refused = TRUE]
  /\ UNCHANGED <<tries, phase, waiting, disk, downloaded, started, quit, cleanups, exited>>

\* The error event: waitDrain is rejected at once, the loop sees it at the next
\* chunk, end() when it is waiting.
WriteErrorTold ==
  /\ Running /\ task.refused /\ ~task.told
  /\ task.at \in {"stream", "draining", "ending"}
  /\ task' = [task EXCEPT !.told = TRUE,
                          !.at = IF task.at = "stream" THEN "stream" ELSE "cleanup"]
  /\ UNCHANGED <<tries, phase, waiting, disk, downloaded, started, quit, cleanups, exited>>

Drained ==
  /\ At("draining") /\ ~task.refused
  /\ Goes("stream")
  /\ UNCHANGED <<tries, phase, waiting, disk, downloaded, started, quit, cleanups, exited>>

\* The connection breaks, or the server refuses.
StreamBreaks ==
  /\ At("stream")
  /\ Goes("cleanup")
  /\ UNCHANGED <<tries, phase, waiting, disk, downloaded, started, quit, cleanups, exited>>

\* Sixty seconds without a byte: the request is aborted, which the loop sees when
\* it next waits for a chunk.
IdleExpires ==
  /\ Running /\ task.armed /\ task.at \in {"stream", "draining"}
  /\ task' = [task EXCEPT !.armed = FALSE, !.expired = TRUE,
                          !.at = IF task.at = "stream" THEN "cleanup" ELSE "draining"]
  /\ UNCHANGED <<tries, phase, waiting, disk, downloaded, started, quit, cleanups, exited>>

\* Drained after the timer expired: the next wait for a chunk is rejected.
Aborted ==
  /\ At("stream") /\ task.expired
  /\ Goes("cleanup")
  /\ UNCHANGED <<tries, phase, waiting, disk, downloaded, started, quit, cleanups, exited>>

BodyEnds ==
  /\ At("stream") /\ task.got = Chunks /\ ~task.expired
  /\ Goes("ending")
  /\ UNCHANGED <<tries, phase, waiting, disk, downloaded, started, quit, cleanups, exited>>

\* Mutant: whatever has come is accepted.
Accepts_Always(t) == TRUE

\* No failed write has been reported, and the checksum of what came is the
\* published one.
Accepts(t) == ~t.told /\ t.clean

\* end() calls back: the stream has finished, or a refused write has closed it,
\* and the callback does not look which. Then the hash decides, and the file
\* takes its name, which may fail.
StreamEnds ==
  /\ At("ending")
  /\ \/ Goes("cleanup") /\ UNCHANGED <<disk, downloaded>>
     \/ /\ Accepts(task)
        /\ task' = [task EXCEPT !.at = "over", !.ok = TRUE]
        /\ disk' = [part |-> NoInstaller, final |-> [disk.part EXCEPT !.told = task.told]]
        /\ downloaded' = TRUE
  /\ UNCHANGED <<tries, phase, waiting, started, quit, cleanups, exited>>

\* The catch: once the stream is closed the .part file is removed.
Cleanup ==
  /\ At("cleanup")
  /\ disk' = [disk EXCEPT !.part = NoInstaller]
  /\ Goes("over")
  /\ UNCHANGED <<tries, phase, waiting, downloaded, started, quit, cleanups, exited>>

\* The promise settles and is dropped; a page that waits for it shows the result.
Settles ==
  /\ At("over")
  /\ Goes("none")
  /\ phase' = IF ~waiting THEN phase ELSE IF task.ok THEN "downloaded" ELSE "error"
  /\ waiting' = FALSE
  /\ UNCHANGED <<tries, disk, downloaded, started, quit, cleanups, exited>>

-----------------------------------------------------------------------------
\* Installing and quitting.

\* quitPulse: the timer of five seconds and the stop of the daemon.
Quits == quit' = [calls |-> quit.calls + 1, timers |-> quit.timers + 1, stops |-> quit.stops + 1]

\* Someone removes the installer from the temporary folder.
FileRemoved ==
  /\ Running /\ disk.final.is
  /\ disk' = [disk EXCEPT !.final = NoInstaller]
  /\ UNCHANGED <<tries, phase, waiting, task, downloaded, started, quit, cleanups, exited>>

ClickInstall ==
  /\ Running /\ phase = "downloaded" /\ quit.calls < MaxQuits
  /\ IF downloaded /\ disk.final.is
     THEN started' = started \cup {disk.final} /\ Quits /\ UNCHANGED phase
     ELSE phase' = "error" /\ UNCHANGED <<started, quit>>
  /\ UNCHANGED <<tries, waiting, task, disk, downloaded, cleanups, exited>>

ClickQuit ==
  /\ Running /\ quit.calls < MaxQuits
  /\ Quits
  /\ UNCHANGED <<tries, phase, waiting, task, disk, downloaded, started, cleanups, exited>>

\* runAppCleanup: whoever comes first takes the services down.
Exits ==
  /\ cleanups' = IF cleanups = 0 THEN 1 ELSE cleanups
  /\ exited' = TRUE

BudgetOver ==
  /\ Running /\ quit.timers > 0
  /\ Exits
  /\ UNCHANGED <<tries, phase, waiting, task, disk, downloaded, started, quit>>

DaemonStopped ==
  /\ Running /\ quit.stops > 0
  /\ Exits
  /\ quit' = [quit EXCEPT !.timers = @ - 1, !.stops = @ - 1]
  /\ UNCHANGED <<tries, phase, waiting, task, disk, downloaded, started>>

UpdateUser == Checked \/ CheckAgain \/ Remount \/ ClickDownload \/ ClickInstall \/ ClickQuit
DownloadStep ==
  \/ Released \/ PartOpens \/ ChunkComes \/ Drained \/ Aborted \/ BodyEnds \/ StreamEnds \/ Cleanup \/ Settles
  \/ WriteErrorTold \/ IdleExpires
QuitStep == BudgetOver \/ DaemonStopped
UpdateNext == UpdateUser \/ DownloadStep \/ QuitStep \/ StreamBreaks \/ WriteRefused \/ FileRemoved

-----------------------------------------------------------------------------

\* No installer is started whose checksum did not match, nor one of which the
\* stream had reported a failed write (update-service.ts, downloadInstaller;
\* index.ts, pulse:install-update): also when downloads follow one another, are
\* joined by a second page, or fail half way.
VerifiedIsRun ==
  /\ \A f \in started : f.clean /\ ~f.told
  /\ disk.final.is => disk.final.clean

\* Every download comes to an end, even on a connection that goes silent, so that
\* the next one can begin; and quitting ends the program, even if the daemon
\* never answers, with its services taken down once.
UpdatesEnd ==
  []<>(/\ task.at = "none" \/ exited
       /\ quit.calls > 0 => exited /\ cleanups = 1)
=============================================================================
