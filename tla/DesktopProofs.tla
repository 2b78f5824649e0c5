---------------------------- MODULE DesktopProofs ----------------------------
(***************************************************************************)
(* Proofs about the desktop's parts that share no state: the answers to    *)
(* the band's app, for any number of messages and of late replies; updates *)
(* for an installer of any length and any number of downloads; and the     *)
(* hooks in the user's settings, for any events and any other entries.     *)
(* Then, about the agents' session list: what the band is told of Claude,  *)
(* Codex and Antigravity, for transcripts and logs of any length.          *)
(* The specifications are those of the runs: each step is of one part.     *)
(***************************************************************************)
EXTENDS MCDesktop, MCAgents, WellFoundedInduction, SequenceTheorems, FiniteSetTheorems, TLAPS

(***************************************************************************)
(* The fetch bridge                                                        *)
(***************************************************************************)
Places == {"none", "greet", "fetching", "replying", "refusing", "done", "unhandled"}

FetchTypes ==
  /\ said \in [Messages -> Kinds \cup {"nothing"}]
  /\ job \in [Messages -> Places]
  /\ responses \in [Messages -> Nat]
  /\ taken \in [Messages -> {"nothing", "data", "error"}]
  /\ broken \in [Messages -> SUBSET {"hello", "data", "error"}]
  /\ late \subseteq [to : Messages, reply : {"hello", "data", "error"}]

\* Where a handler stands fits what the band said.
HandlerFits(i) ==
  /\ said[i] = "nothing" => job[i] = "none"
  /\ job[i] \in {"fetching", "replying"} => said[i] = "fetch" /\ "data" \notin broken[i]
  /\ job[i] = "refusing" => said[i] \in {"fetch", "badUrl"}
  /\ job[i] = "greet" => said[i] = "hello"
  /\ job[i] = "none" => broken[i] = {} /\ responses[i] = 0 /\ taken[i] = "nothing"

\* Data reaches the band, or is reported as failed, only for a fetch that was
\* measured.
DataIsMeasured(i) ==
  "data" \in broken[i] =>
     said[i] = "fetch" /\ job[i] \in {"refusing", "done", "unhandled"}

\* A reply the daemon still holds is one that was reported as failed.
LateWasBroken == \A r \in late : r.reply \in broken[r.to]

FetchInv ==
  /\ FetchTypes /\ LateWasBroken
  /\ \A i \in Messages : HandlerFits(i) /\ DataIsMeasured(i)
  /\ FetchesAreAnswered

(***************************************************************************)
(* Updates                                                                 *)
(***************************************************************************)
DownloadFile == [is : BOOLEAN, clean : BOOLEAN, told : BOOLEAN]

Tasks == [at : {"none", "asking", "opening", "stream", "draining", "ending", "cleanup", "over"},
          got : Nat, clean : BOOLEAN, refused : BOOLEAN, told : BOOLEAN,
          armed : BOOLEAN, expired : BOOLEAN, ok : BOOLEAN]

UpdateTypes == task \in Tasks /\ disk \in [part : DownloadFile, final : DownloadFile]

\* What has been written is what has come, as long as no failed write was reported.
PartIsWhatCame ==
  /\ task.at \in {"asking", "opening"} => task.clean
  /\ task.at \in {"stream", "draining", "ending"} /\ ~task.told => disk.part.clean = task.clean

\* The installer under its name was accepted.
FinalWasAccepted == disk.final.is => disk.final.clean /\ ~disk.final.told

UpdateInv == UpdateTypes /\ PartIsWhatCame /\ FinalWasAccepted /\ VerifiedIsRun

-----------------------------------------------------------------------------
(***************************************************************************)
(* Steps of the fetch bridge                                               *)
(***************************************************************************)
\* A fetch and what became of it, for one message.
Answered(i) ==
  said[i] \in {"fetch", "badUrl"} =>
    /\ job[i] = "done" => taken[i] # "nothing"
    /\ job[i] = "unhandled" => "error" \in broken[i]
    /\ taken[i] = "data" => responses[i] >= 1
    /\ responses[i] = (IF said[i] = "fetch" /\ job[i] \notin {"none", "fetching"} THEN 1 ELSE 0)
                      + (IF "data" \in broken[i] THEN 1 ELSE 0)

Sound(i) == HandlerFits(i) /\ DataIsMeasured(i) /\ Answered(i)

\* The invariant of the bridge, message by message.
LEMMA FetchInvIsSoundness ==
  FetchInv <=> FetchTypes /\ LateWasBroken /\ \A i \in Messages : Sound(i)
  BY DEF FetchInv, Sound, FetchesAreAnswered, Answered

\* A step of one message leaves the others alone.
LEMMA OthersAreKept ==
  ASSUME NEW j,
         said'[j] = said[j], job'[j] = job[j], responses'[j] = responses[j],
         taken'[j] = taken[j], broken'[j] = broken[j], Sound(j)
  PROVE  Sound(j)'
  BY DEF Sound, HandlerFits, DataIsMeasured, Answered

\* The band greets or asks: its handlers have not begun.
LEMMA BandSendsStep ==
  ASSUME FetchInv, BandSends
  PROVE  FetchInv'
  <1>1. PICK i \in Messages, k \in Kinds :
           /\ said[i] = "nothing" /\ job[i] = "none" /\ said' = [said EXCEPT ![i] = k]
           /\ UNCHANGED <<job, late, responses, taken, broken>>
    BY DEF BandSends
  <1>2. FetchTypes' /\ LateWasBroken'
    BY <1>1 DEF FetchInv, FetchTypes, LateWasBroken
  <1>3. Sound(i)'
    BY <1>1 DEF FetchInv, FetchTypes, Sound, HandlerFits, DataIsMeasured, Answered, Kinds
  <1>4. ASSUME NEW j \in Messages, j # i
        PROVE  Sound(j)'
    BY <1>1, <1>4, FetchInvIsSoundness, OthersAreKept DEF FetchTypes
  <1> QED
    BY <1>2, <1>3, <1>4, FetchInvIsSoundness DEF FetchInv, Sound, Answered, FetchesAreAnswered

\* A reply that comes late was reported as failed, so what it brings was measured.
LEMMA LateReplyStep ==
  ASSUME FetchInv, LateReply
  PROVE  FetchInv'
  <1>1. PICK r \in late :
           /\ late' = late \ {r} /\ Takes(r.to, r.reply)
           /\ UNCHANGED <<said, job, responses, broken>>
    BY DEF LateReply
  <1>2. r.to \in Messages /\ r.reply \in {"hello", "data", "error"} /\ r.reply \in broken[r.to]
    BY DEF FetchInv, FetchTypes, LateWasBroken
  <1>3. FetchTypes' /\ LateWasBroken'
    BY <1>1, <1>2 DEF FetchInv, FetchTypes, LateWasBroken, Takes
  <1>4. Sound(r.to)'
    BY <1>1, <1>2 DEF FetchInv, FetchTypes, Sound, HandlerFits, DataIsMeasured, Answered,
                      FetchesAreAnswered, Takes
  <1>5. ASSUME NEW j \in Messages, j # r.to
        PROVE  Sound(j)'
    BY <1>1, <1>2, <1>5, FetchInvIsSoundness, OthersAreKept DEF FetchTypes, Takes
  <1> QED
    BY <1>3, <1>4, <1>5 DEF FetchInv, Sound, Answered, FetchesAreAnswered

\* A handler takes a step.
LEMMA HandlerStep ==
  ASSUME FetchInv, NEW i \in Messages, OnMessage(i) \/ Fetched(i) \/ SendOk(i) \/ SendFails(i)
  PROVE  FetchInv'
  <1>0. FetchTypes /\ LateWasBroken /\ \A j \in Messages : Sound(j)
    BY FetchInvIsSoundness
  <1>1. FetchTypes'
    <2>1. CASE OnMessage(i)
      BY <1>0, <2>1 DEF OnMessage, FirstStep, FetchTypes, Places
    <2>2. CASE Fetched(i)
      BY <1>0, <2>2 DEF Fetched, FetchTypes, Places
    <2>3. CASE SendOk(i)
      BY <1>0, <2>3 DEF SendOk, Takes, Reply, FetchTypes, Places
    <2>4. CASE SendFails(i)
      BY <1>0, <2>4 DEF SendFails, AfterFailure, Reply, FetchTypes, Places
    <2> QED
      BY <2>1, <2>2, <2>3, <2>4
  <1>2. LateWasBroken'
    <2>1. CASE OnMessage(i) \/ Fetched(i) \/ SendOk(i)
      BY <1>0, <2>1 DEF OnMessage, Fetched, SendOk, LateWasBroken
    <2>2. CASE SendFails(i)
      <3>1. /\ late' \subseteq late \cup {[to |-> i, reply |-> Reply(i)]}
            /\ broken' = [broken EXCEPT ![i] = @ \cup {Reply(i)}]
        BY <2>2 DEF SendFails
      <3> QED
        BY <1>0, <3>1 DEF LateWasBroken, FetchTypes
    <2> QED
      BY <2>1, <2>2
  <1>3. Sound(i)'
    <2> USE DEF FetchTypes, Sound, HandlerFits, DataIsMeasured, Answered
    <2>1. CASE OnMessage(i)
      BY <1>0, <2>1 DEF OnMessage, FirstStep
    <2>2. CASE Fetched(i)
      BY <1>0, <2>2 DEF Fetched
    <2>3. CASE SendOk(i)
      BY <1>0, <2>3 DEF SendOk, Takes, Reply, Replying
    <2>4. CASE SendFails(i)
      BY <1>0, <2>4 DEF SendFails, AfterFailure, Reply, Replying
    <2> QED
      BY <2>1, <2>2, <2>3, <2>4
  <1>4. ASSUME NEW j \in Messages, j # i
        PROVE  Sound(j)'
    BY <1>0, <1>4, OthersAreKept
    DEF FetchTypes, OnMessage, Fetched, SendOk, SendFails, Takes
  <1> QED
    BY <1>1, <1>2, <1>3, <1>4 DEF FetchInv, Sound, Answered, FetchesAreAnswered

\* Every fetch the band sends is answered or its error could not be sent, and is
\* measured once, and once more only when its data could not be sent, for any
\* number of messages and of replies that come late (fetch-bridge-direct.ts).
THEOREM FetchesAnswered == DesktopSpec => []FetchesAreAnswered
  <1>1. DesktopInit => FetchInv
    BY DEF DesktopInit, FetchInit, FetchInv, FetchTypes, Places, LateWasBroken, HandlerFits,
           DataIsMeasured, FetchesAreAnswered
  <1>2. ASSUME FetchInv, [DesktopNext]_vars
        PROVE  FetchInv'
    <2>1. CASE UNCHANGED fetchVars
      BY <1>2, <2>1 DEF fetchVars, FetchInv, FetchTypes, LateWasBroken, HandlerFits,
                        DataIsMeasured, FetchesAreAnswered
    <2>2. CASE FetchNext
      BY <1>2, <2>2, BandSendsStep, LateReplyStep, HandlerStep DEF FetchNext
    <2> QED
      BY <1>2, <2>1, <2>2 DEF DesktopNext, Only, vars
  <1>3. FetchInv => FetchesAreAnswered
    BY DEF FetchInv
  <1> QED
    BY <1>1, <1>2, <1>3, PTL DEF DesktopSpec

-----------------------------------------------------------------------------
(***************************************************************************)
(* Steps of an update                                                      *)
(***************************************************************************)
\* Every step keeps the types of the download and of the files.
LEMMA UpdateTypesStep ==
  ASSUME UpdateTypes, UpdateNext
  PROVE  UpdateTypes'
  <1>1. task' \in Tasks
    <2> USE DEF UpdateTypes, Tasks
    <2>1. CASE UNCHANGED task
      BY <2>1
    <2>2. CASE Checked \/ CheckAgain \/ Remount \/ ClickInstall \/ ClickQuit \/ QuitStep \/ FileRemoved
      BY <2>1, <2>2 DEF Checked, CheckAgain, Remount, ClickInstall, ClickQuit, QuitStep,
                        BudgetOver, DaemonStopped, FileRemoved
    <2>3. CASE ClickDownload
      <3>1. [NoTask EXCEPT !.at = "asking"] \in Tasks
        BY DEF NoTask
      <3>2. task' \in {task, [NoTask EXCEPT !.at = "asking"]}
        BY <2>3 DEF ClickDownload
      <3> HIDE DEF Tasks
      <3> QED
        BY <3>1, <3>2
    <2>4. CASE Released \/ Drained \/ Aborted \/ BodyEnds \/ Settles \/ StreamBreaks \/ Cleanup
      <3>1. \E p \in {"opening", "over", "stream", "cleanup", "ending", "none"} : Goes(p)
        BY <2>4 DEF Released, Drained, Aborted, BodyEnds, Settles, StreamBreaks, Cleanup
      <3> QED
        BY <3>1 DEF Goes
    <2>5. CASE PartOpens
      BY <2>5 DEF PartOpens, Arms
    <2>6. CASE ChunkComes
      <3>1. PICK clean \in BOOLEAN, p \in {"cleanup", "stream", "draining"} :
               task' = [task EXCEPT !.armed = TRUE, !.got = @ + 1, !.clean = @ /\ clean, !.at = p]
        BY <2>6 DEF ChunkComes
      <3>2. (task.clean /\ clean) \in BOOLEAN
        OBVIOUS
      <3>3. PICK b \in BOOLEAN :
               task' = [task EXCEPT !.armed = TRUE, !.got = @ + 1, !.clean = b, !.at = p]
        BY <3>1, <3>2, Zenon
      <3>4. task.got + 1 \in Nat
        OBVIOUS
      <3> QED
        BY <3>3, <3>4
    <2>7. CASE WriteErrorTold \/ IdleExpires \/ WriteRefused
      BY <2>7 DEF WriteErrorTold, IdleExpires, WriteRefused
    <2>8. CASE StreamEnds
      BY <2>8 DEF StreamEnds, Goes
    <2> QED
      BY <2>2, <2>3, <2>4, <2>5, <2>6, <2>7, <2>8 DEF UpdateNext, UpdateUser, DownloadStep
  <1>2. disk' \in [part : DownloadFile, final : DownloadFile]
    <2> USE DEF UpdateTypes, DownloadFile
    <2>1. CASE UNCHANGED disk
      BY <2>1
    <2>2. CASE PartOpens \/ Cleanup \/ FileRemoved
      <3>1. Download(TRUE, FALSE) \in DownloadFile /\ NoInstaller \in DownloadFile
        BY DEF Download, NoInstaller
      <3>2. \E f \in DownloadFile : disk' \in {[disk EXCEPT !.part = f], [disk EXCEPT !.final = f]}
        BY <2>2, <3>1 DEF PartOpens, Cleanup, FileRemoved
      <3> QED
        BY <3>2
    <2>3. CASE ChunkComes
      <3>1. task'.clean \in BOOLEAN
        BY <1>1 DEF Tasks
      <3> QED
        BY <2>3, <3>1 DEF ChunkComes, Download
    <2>4. CASE StreamEnds
      <3>1. task.told \in BOOLEAN
        BY DEF Tasks
      <3>2. [disk.part EXCEPT !.told = task.told] \in DownloadFile /\ NoInstaller \in DownloadFile
        BY <3>1 DEF NoInstaller
      <3>3. disk' \in {disk, [part |-> NoInstaller, final |-> [disk.part EXCEPT !.told = task.told]]}
        BY <2>4 DEF StreamEnds
      <3> HIDE DEF DownloadFile
      <3> QED
        BY <3>2, <3>3
    <2>5. CASE UpdateUser \/ QuitStep \/ Released \/ Drained \/ Aborted \/ BodyEnds \/ Settles
               \/ WriteErrorTold \/ IdleExpires \/ StreamBreaks \/ WriteRefused
      BY <2>1, <2>5 DEF UpdateUser, Checked, CheckAgain, Remount, ClickDownload, ClickInstall,
           ClickQuit, QuitStep, BudgetOver, DaemonStopped, Released, Drained, Aborted, BodyEnds,
           Settles, WriteErrorTold, IdleExpires, StreamBreaks, WriteRefused
    <2> QED
      BY <2>2, <2>3, <2>4, <2>5 DEF UpdateNext, DownloadStep
  <1> QED
    BY <1>1, <1>2 DEF UpdateTypes

\* Every step keeps what is said of the files.
LEMMA UpdateStep ==
  ASSUME UpdateInv, UpdateNext
  PROVE  UpdateInv'
  <1>0. UpdateTypes /\ UpdateTypes'
    BY UpdateTypesStep DEF UpdateInv
  <1> USE <1>0 DEF UpdateInv, PartIsWhatCame, FinalWasAccepted, VerifiedIsRun
  <1>1. CASE Checked \/ CheckAgain \/ Remount \/ ClickQuit \/ QuitStep
    BY <1>1 DEF Checked, CheckAgain, Remount, ClickQuit, QuitStep, BudgetOver, DaemonStopped
  <1>2. CASE ClickDownload
    BY <1>2 DEF ClickDownload, NoTask
  <1>3. CASE ClickInstall
    BY <1>3 DEF ClickInstall, UpdateTypes
  <1> USE DEF UpdateTypes, DownloadFile, Tasks
  <1>4. CASE Released \/ Drained \/ Aborted \/ BodyEnds \/ Settles \/ StreamBreaks
    <2>1. /\ UNCHANGED <<disk, started>> /\ task'.clean = task.clean /\ task'.told = task.told
          /\ task.at \in {"asking", "draining", "stream", "over"}
          /\ task'.at \in (IF task.at = "asking" THEN {"opening", "over"}
                           ELSE {"stream", "cleanup", "ending", "none"})
          /\ task.at = "over" => task'.at = "none"
      BY <1>4 DEF Released, Drained, Aborted, BodyEnds, Settles, StreamBreaks, Goes, At
    <2> QED
      BY <2>1
  <1>5. CASE WriteErrorTold \/ IdleExpires \/ WriteRefused
    <2>1. /\ UNCHANGED <<disk, started>> /\ task'.clean = task.clean /\ (task.told => task'.told)
          /\ task.at \in {"stream", "draining", "ending"}
          /\ task'.at \in {"stream", "draining", "ending", "cleanup"}
      <3>1. CASE WriteErrorTold
        BY <3>1 DEF WriteErrorTold
      <3>2. CASE IdleExpires
        BY <3>2 DEF IdleExpires
      <3>3. CASE WriteRefused
        BY <3>3 DEF WriteRefused
      <3> QED
        BY <1>5, <3>1, <3>2, <3>3
    <2> QED
      BY <2>1
  <1>6. CASE PartOpens
    BY <1>6 DEF PartOpens, Arms, Download, At
  <1>7. CASE ChunkComes
    <2>1. CASE task.told
      BY <1>7, <2>1 DEF ChunkComes
    <2>2. CASE ~task.told
      <3>1. /\ disk' = [disk EXCEPT !.part = Download(task'.clean, FALSE)]
            /\ task'.at \in {"stream", "draining"} /\ UNCHANGED started
        BY <1>7, <2>2 DEF ChunkComes
      <3> QED
        BY <3>1 DEF Download
    <2> QED
      BY <2>1, <2>2
  <1>8. CASE StreamEnds
    <2>1. CASE UNCHANGED disk /\ Goes("cleanup")
      BY <1>8, <2>1 DEF StreamEnds, Goes
    <2>2. CASE /\ Accepts(task) /\ task' = [task EXCEPT !.at = "over", !.ok = TRUE]
               /\ disk' = [part |-> NoInstaller, final |-> [disk.part EXCEPT !.told = task.told]]
      <3>1. disk'.final.clean /\ ~disk'.final.told /\ task'.at = "over" /\ UNCHANGED started
        BY <1>8, <2>2 DEF StreamEnds, Accepts, At
      <3> QED
        BY <3>1
    <2> QED
      BY <1>8, <2>1, <2>2 DEF StreamEnds
  <1>9. CASE Cleanup
    <2>1. disk'.final = disk.final /\ task'.at = "over" /\ UNCHANGED started
      BY <1>9 DEF Cleanup, Goes
    <2> QED
      BY <2>1
  <1>10. CASE FileRemoved
    <2>1. disk'.part = disk.part /\ ~disk'.final.is /\ UNCHANGED <<task, started>>
      BY <1>10 DEF FileRemoved, NoInstaller
    <2> QED
      BY <2>1
  <1> QED
    BY <1>1, <1>2, <1>3, <1>4, <1>5, <1>6, <1>7, <1>8, <1>9, <1>10
    DEF UpdateNext, UpdateUser, DownloadStep

\* No installer is started whose checksum did not match or whose writing was
\* reported as failed, for installers of any length and however many downloads
\* follow one another or fail half way (update-service.ts, index.ts).
THEOREM OnlyVerifiedIsRun == DesktopSpec => []VerifiedIsRun
  <1>1. DesktopInit => UpdateInv
    BY DEF DesktopInit, UpdateInit, UpdateInv, UpdateTypes, Tasks, DownloadFile, NoTask, NoInstaller,
           PartIsWhatCame, FinalWasAccepted, VerifiedIsRun
  <1>2. ASSUME UpdateInv, [DesktopNext]_vars
        PROVE  UpdateInv'
    <2>1. CASE UNCHANGED updateVars
      BY <1>2, <2>1 DEF updateVars, UpdateInv, UpdateTypes, PartIsWhatCame, FinalWasAccepted,
                        VerifiedIsRun
    <2> QED
      BY <1>2, <2>1, UpdateStep DEF DesktopNext, Only, vars
  <1>3. UpdateInv => VerifiedIsRun
    BY DEF UpdateInv
  <1> QED
    BY <1>1, <1>2, <1>3, PTL DEF DesktopSpec

-----------------------------------------------------------------------------
(***************************************************************************)
(* Steps of the hook installation                                          *)
(***************************************************************************)
SettingsFiles ==
  [state : {"ok", "absent", "broken"}, ours : [HookEvents -> {0, 1}], theirs : SUBSET Theirs]

SettingsTypes ==
  /\ settings \in SettingsFiles /\ backup \in SettingsFiles /\ tmp \in SettingsFiles
  /\ op \in [pc : {"idle", "wrapper", "backup", "write", "rename"},
             kind : {"none", "install", "uninstall"}, mem : SettingsFiles]

\* The first write of Pulse comes after the backup, or there was no file.
WriteFollowsBackup ==
  op.pc \in {"write", "rename"} => backup # Absent \/ fresh

\* Until there is a backup nothing of ours is in the file.
NothingOfOursYet ==
  backup = Absent /\ ~fresh /\ Present(settings) => settings.ours = NoneOfOurs

\* What the handler is about to write is the file as it is, as far as others go.
MemIsOfFile ==
  op.pc # "idle" /\ ~edited =>
    settings # Broken /\ (Present(settings) => op.mem.theirs = settings.theirs)

TmpIsMem == op.pc = "rename" => tmp = op.mem

SettingsInv ==
  /\ SettingsTypes
  /\ WriteFollowsBackup /\ NothingOfOursYet /\ MemIsOfFile /\ TmpIsMem
  /\ BackupIsOriginal

\* The constant files are files.
LEMMA FixedFiles ==
  /\ Empty \in SettingsFiles /\ Absent \in SettingsFiles /\ Broken \in SettingsFiles
  /\ NoneOfOurs \in [HookEvents -> {0, 1}]
  /\ Present(Empty) /\ ~Present(Absent) /\ ~Present(Broken)
  /\ Empty.ours = NoneOfOurs /\ Empty.theirs = {}
  BY DEF Empty, Absent, Broken, NoneOfOurs, SettingsFiles, Present

\* Merging and removing change nothing but our own entries.
LEMMA MergingKeepsTheirs ==
  ASSUME NEW s \in SettingsFiles
  PROVE  /\ MergeHooks(s) \in SettingsFiles /\ MergeHooks(s).theirs = s.theirs
         /\ RemoveHooks(s) \in SettingsFiles /\ RemoveHooks(s).theirs = s.theirs
  BY DEF MergeHooks, RemoveHooks, NoneOfOurs, SettingsFiles

\* A handler begins: what it has read is the file.
LEMMA BeginStep ==
  ASSUME SettingsInv, NEW k \in {"install", "uninstall"}, Begin(k)
  PROVE  SettingsInv'
  <1> DEFINE s == IF settings = Absent THEN Empty ELSE settings
             mem == IF k = "install" THEN MergeHooks(s) ELSE RemoveHooks(s)
             pc == IF k = "install" THEN "wrapper" ELSE "backup"
  <1>1. /\ settings # Broken /\ op' = [pc |-> pc, kind |-> k, mem |-> mem]
        /\ UNCHANGED <<settings, backup, tmp, fresh>>
    BY DEF Begin
  <1>2. s \in SettingsFiles /\ (Present(settings) => s.theirs = settings.theirs)
    BY FixedFiles DEF SettingsInv, SettingsTypes
  <1> HIDE DEF s
  <1>3. mem \in SettingsFiles /\ mem.theirs = s.theirs
    BY <1>2, MergingKeepsTheirs
  <1>4. op'.mem = mem /\ op'.pc = pc /\ op'.kind = k /\ pc \in {"wrapper", "backup"}
    BY <1>1
  <1> HIDE DEF mem, pc
  <1> QED
    BY <1>1, <1>2, <1>3, <1>4
    DEF SettingsInv, SettingsTypes, WriteFollowsBackup, NothingOfOursYet, MemIsOfFile, TmpIsMem,
        BackupIsOriginal, Present

\* Others write the file.
LEMMA EditStep ==
  ASSUME SettingsInv, SomeoneEdits
  PROVE  SettingsInv'
  <1>1. edited' /\ UNCHANGED <<backup, op, tmp, fresh>>
    BY DEF SomeoneEdits
  <1>2. /\ settings' \in SettingsFiles
        /\ Present(settings') =>
             settings'.ours = NoneOfOurs \/ (Present(settings) /\ settings'.ours = settings.ours)
    <2>1. CASE settings' = Broken
      BY <2>1, FixedFiles
    <2>2. CASE settings' \in [state : {"ok"},
                 ours : IF Present(settings) THEN {settings.ours, NoneOfOurs} ELSE {NoneOfOurs},
                 theirs : SUBSET Theirs]
      BY <2>2, FixedFiles DEF SettingsInv, SettingsTypes, SettingsFiles
    <2> QED
      BY <2>1, <2>2 DEF SomeoneEdits
  <1> QED
    BY <1>1, <1>2
    DEF SettingsInv, SettingsTypes, WriteFollowsBackup, NothingOfOursYet, MemIsOfFile, TmpIsMem,
        BackupIsOriginal, Present

\* Every step keeps the invariant.
LEMMA SettingsStep ==
  ASSUME SettingsInv, HookSettingsNext
  PROVE  SettingsInv'
  <1> USE DEF SettingsInv, SettingsTypes, WriteFollowsBackup, NothingOfOursYet, MemIsOfFile,
              TmpIsMem, BackupIsOriginal
  <1>1. ASSUME NEW k \in {"install", "uninstall"}, Begin(k)
        PROVE  SettingsInv'
    BY <1>1, BeginStep
  <1>2. CASE WriteWrapper \/ Killed
    BY <1>2, FixedFiles DEF WriteWrapper, Killed, Goto, OpAt, NoOp, Present
  <1>3. CASE Backup
    <2>1. /\ backup' = (IF settings # Absent /\ backup = Absent THEN settings ELSE backup)
          /\ fresh' = (fresh \/ (settings = Absent /\ backup = Absent))
          /\ op' = [op EXCEPT !.pc = "write"] /\ op.pc = "backup"
          /\ UNCHANGED <<settings, tmp, edited>>
      BY <1>3 DEF Backup, BacksUp, Goto, OpAt
    <2>2. op'.pc = "write" /\ op'.mem = op.mem /\ SettingsTypes'
      BY <2>1
    <2>3. WriteFollowsBackup' /\ NothingOfOursYet'
      BY <2>1, Zenon DEF Present
    <2>4. BackupIsOriginal' /\ MemIsOfFile' /\ TmpIsMem'
      BY <2>1, <2>2, FixedFiles DEF Present
    <2> QED
      BY <2>2, <2>3, <2>4
  <1>4. CASE WriteTmp
    BY <1>4 DEF WriteTmp, Goto, OpAt, Present
  <1>5. CASE Rename
    BY <1>5, FixedFiles DEF Rename, OpAt, NoOp, Present
  <1>6. CASE SomeoneEdits
    BY <1>6, EditStep
  <1>7. CASE WrapperGoes
    BY <1>7 DEF WrapperGoes, Present
  <1> QED
    BY <1>1, <1>2, <1>3, <1>4, <1>5, <1>6, <1>7 DEF HookSettingsNext

\* A rename that Pulse makes, in a file nobody changed since it was read, takes
\* nothing of others' and replaces no file that did not parse.
LEMMA RenameKeepsTheirs ==
  ASSUME SettingsInv, Rename, settings' # settings, ~edited
  PROVE  settings # Broken /\ (Present(settings) => settings'.theirs = settings.theirs)
  BY DEF SettingsInv, MemIsOfFile, TmpIsMem, Rename, OpAt

\* The user's settings.json survives every installation and removal of the hooks,
\* whatever others write between and wherever Pulse is killed
\* (claude-hook-settings.ts, claude-hook-merge.ts).
THEOREM UserSettingsSurvive == DesktopSpec => SettingsAreKept
  <1>1. DesktopInit => SettingsInv
    BY FixedFiles
    DEF DesktopInit, HookSettingsInit, SettingsInv, SettingsTypes, SettingsFiles, NoOp,
        WriteFollowsBackup, NothingOfOursYet, MemIsOfFile, TmpIsMem, BackupIsOriginal, Present
  <1>2. ASSUME SettingsInv, [DesktopNext]_vars
        PROVE  SettingsInv'
    <2>1. CASE UNCHANGED hookVars
      BY <1>2, <2>1
      DEF hookVars, SettingsInv, SettingsTypes, WriteFollowsBackup, NothingOfOursYet, MemIsOfFile,
          TmpIsMem, BackupIsOriginal, Present
    <2> QED
      BY <1>2, <2>1, SettingsStep DEF DesktopNext, Only, vars
  <1>3. SettingsInv => OursDoNotPileUp /\ BackupIsOriginal
    BY DEF SettingsInv, SettingsTypes, SettingsFiles, OursDoNotPileUp
  <1>4. ASSUME SettingsInv
        PROVE  [Rename /\ settings' # settings /\ ~edited
                  => settings # Broken /\ (Present(settings) => settings'.theirs = settings.theirs)]_hookVars
    BY <1>4, RenameKeepsTheirs
  <1> QED
    BY <1>1, <1>2, <1>3, <1>4, PTL DEF DesktopSpec, SettingsAreKept, TheirsAreKept

(***************************************************************************)
(* The session list: the least of a set of numbers, by which induction over *)
(* the data is done, and what each operation leaves of the list            *)
(***************************************************************************)
\* Every set of numbers that is not empty has a least one: what induction rests
\* on here, over the lines of a log and over the lists they make.
LEMMA LeastOf ==
  ASSUME NEW T, T \subseteq Nat, T # {}
  PROVE  \E m \in T : \A n \in T : m <= n
<1> DEFINE R == {ss \in Nat \X Nat : ss[1] < ss[2]}
<1>1. IsWellFoundedOn(R, Nat)
  BY NatLessThanWellFounded DEF OpToRel
<1>2. \A m, n \in Nat : n < m => <<n, m>> \in R
  OBVIOUS
<1> HIDE DEF R
<1>3. PICK m \in T : \A n \in T : ~(<<n, m>> \in R)
  BY <1>1, WFMin, Zenon
<1>4. \A n \in T : ~(n < m)
  BY <1>2, <1>3
<1>5. \A n \in T : m <= n
  BY <1>4
<1> QED
  BY <1>5

\* A bounded set of numbers has a largest one, which Max names.
LEMMA GreatestOf ==
  ASSUME NEW T, T \subseteq Nat, T # {}, NEW b \in Nat, \A t \in T : t <= b
  PROVE  Max(T) \in T /\ \A t \in T : t <= Max(T)
<1> DEFINE D == {b - t : t \in T}
<1>0. \A t \in T : b - t \in Nat
  OBVIOUS
<1>1. D \subseteq Nat /\ D # {}
  BY <1>0
<1>2. PICK d \in D : \A n \in D : d <= n
  BY <1>1, LeastOf
<1>3. PICK m \in T : d = b - m
  BY <1>2
<1>4. \A t \in T : b - t \in D
  OBVIOUS
<1> HIDE DEF D
<1>5. \A t \in T : d <= b - t
  BY <1>2, <1>4
<1>6. \A t \in T : m >= t
  BY <1>3, <1>5
<1>7. \E x \in T : \A y \in T : x >= y
  BY <1>6
<1>8. Max(T) \in T /\ \A y \in T : Max(T) >= y
  BY <1>7, Zenon DEF Max
<1> QED
  BY <1>8

\* The least of a set of numbers, which Min names.
LEMMA MinIsLeast ==
  ASSUME NEW T, T \subseteq Nat, T # {}
  PROVE  Min(T) \in T /\ \A t \in T : Min(T) <= t
<1>1. \E x \in T : \A y \in T : x <= y
  BY LeastOf
<1> QED
  BY <1>1, Zenon DEF Min

Sessions(I, a) == [id : I, agent : {a}, status : Statuses]
\* The lists of sessions of an agent, under ids of I, that hold each id once.
Lists(I, a) ==
  {S \in Seq(Sessions(I, a)) : \A i, j \in DOMAIN S : S[i].id = S[j].id => i = j}

\* What is found under an id is there.
LEMMA IndexFound ==
  ASSUME NEW I, NEW a, NEW S \in Lists(I, a), NEW id, Known(S, id)
  PROVE  IndexOf(S, id) \in DOMAIN S /\ S[IndexOf(S, id)].id = id
         /\ \A i \in DOMAIN S : S[i].id = id => i = IndexOf(S, id)
<1>1. \E i \in DOMAIN S : S[i].id = id
  BY DEF Known
<1>2. IndexOf(S, id) \in DOMAIN S /\ S[IndexOf(S, id)].id = id
  BY <1>1, Zenon DEF IndexOf
<1> QED
  BY <1>2 DEF Lists

\* Without an id the list is still sound, and what it holds else is unchanged.
LEMMA OthersStayListed ==
  ASSUME NEW I, NEW a, NEW S \in Lists(I, a), NEW id
  PROVE  /\ Others(S, id) \in Lists(I, a)
         /\ \A i \in DOMAIN Others(S, id) :
              Others(S, id)[i].id # id /\ \E j \in DOMAIN S : Others(S, id)[i] = S[j]
         /\ \A j \in DOMAIN S :
              S[j].id # id => \E i \in DOMAIN Others(S, id) : Others(S, id)[i] = S[j]
<1>1. CASE ~Known(S, id)
  BY <1>1 DEF Others, Known
<1>2. CASE Known(S, id)
  <2> DEFINE k == IndexOf(S, id)
             O == Others(S, id)
  <2>1. k \in DOMAIN S /\ S[k].id = id /\ \A i \in DOMAIN S : S[i].id = id => i = k
    BY <1>2, IndexFound
  <2>2. S \in Seq(Sessions(I, a)) /\ DOMAIN S = 1..Len(S)
    BY DEF Lists
  <2>3. O = SubSeq(S, 1, k - 1) \o SubSeq(S, k + 1, Len(S))
    BY <1>2 DEF Others, RemoveAt
  <2> HIDE DEF O, k
  <2>4. O \in Seq(Sessions(I, a)) /\ Len(O) = Len(S) - 1
    BY <2>1, <2>2, <2>3
  <2>5. \A i \in 1..Len(O) : O[i] = IF i < k THEN S[i] ELSE S[i + 1]
    <3> DEFINE A == SubSeq(S, 1, k - 1)
               B == SubSeq(S, k + 1, Len(S))
    <3>1. /\ A \in Seq(Sessions(I, a)) /\ Len(A) = k - 1
          /\ \A i \in 1..(k - 1) : A[i] = S[i]
      BY <2>1, <2>2
    <3>2. /\ B \in Seq(Sessions(I, a)) /\ Len(B) = Len(S) - k
          /\ \A i \in 1..(Len(S) - k) : B[i] = S[k + i]
      BY <2>1, <2>2
    <3>3. O = A \o B
      BY <2>3
    <3> HIDE DEF A, B
    <3>4. \A i \in 1..(Len(A) + Len(B)) : O[i] = IF i <= Len(A) THEN A[i] ELSE B[i - Len(A)]
      BY <3>1, <3>2, <3>3
    <3>5. \A i \in 1..Len(O) : i <= k - 1 => O[i] = S[i]
      BY <3>1, <3>2, <3>4, <2>1, <2>2, <2>4
    <3>6. ASSUME NEW i \in 1..Len(O), i > k - 1
          PROVE  O[i] = B[i - (k - 1)]
      <4>1. i \in 1..(Len(A) + Len(B)) /\ ~(i <= Len(A))
        BY <3>1, <3>2, <3>6, <2>1, <2>2, <2>4
      <4>2. O[i] = B[i - Len(A)]
        BY <4>1, <3>4
      <4> QED
        BY <4>2, <3>1
    <3>7. ASSUME NEW i \in 1..Len(O), i > k - 1
          PROVE  O[i] = S[i + 1]
      <4>1. i - (k - 1) \in 1..(Len(S) - k) /\ k + (i - (k - 1)) = i + 1
        BY <3>7, <2>1, <2>2, <2>4
      <4> QED
        BY <4>1, <3>2, <3>6, <3>7
    <3> QED
      BY <3>5, <3>7, <2>1, <2>2, <2>4
  <2>6. \A i, j \in DOMAIN O : O[i].id = O[j].id => i = j
    <3> SUFFICES ASSUME NEW i \in 1..Len(O), NEW j \in 1..Len(O), O[i].id = O[j].id
                 PROVE  i = j
      BY <2>4
    <3> DEFINE p == IF i < k THEN i ELSE i + 1
               q == IF j < k THEN j ELSE j + 1
    <3>1. p \in DOMAIN S /\ q \in DOMAIN S
      BY <2>2, <2>4
    <3>2. S[p].id = S[q].id
      BY <2>5
    <3>3. p = q
      BY <3>1, <3>2 DEF Lists
    <3> QED
      BY <3>3, <2>1, <2>2
  <2>7. \A i \in DOMAIN O : O[i].id # id /\ \E j \in DOMAIN S : O[i] = S[j]
    <3> SUFFICES ASSUME NEW i \in 1..Len(O)
                 PROVE  O[i].id # id /\ \E j \in DOMAIN S : O[i] = S[j]
      BY <2>4
    <3> DEFINE p == IF i < k THEN i ELSE i + 1
    <3>1. p \in DOMAIN S /\ p # k /\ O[i] = S[p]
      BY <2>1, <2>2, <2>4, <2>5
    <3> QED
      BY <3>1, <2>1
  <2>8. \A j \in DOMAIN S : S[j].id # id => \E i \in DOMAIN O : O[i] = S[j]
    <3> SUFFICES ASSUME NEW j \in DOMAIN S, S[j].id # id
                 PROVE  \E i \in DOMAIN O : O[i] = S[j]
      OBVIOUS
    <3> DEFINE i == IF j < k THEN j ELSE j - 1
    <3>1. i \in 1..Len(O) /\ O[i] = S[j]
      BY <2>1, <2>2, <2>4, <2>5
    <3>2. i \in DOMAIN O
      BY <3>1, <2>4
    <3> QED
      BY <3>1, <3>2
  <2>9. O \in Lists(I, a)
    BY <2>4, <2>6 DEF Lists
  <2> QED
    BY <2>7, <2>8, <2>9 DEF O
<1> QED
  BY <1>1, <1>2

\* In T the session e stands first, and the others are those of S.
Leads(T, S, e) ==
  /\ T # <<>> /\ T[1] = e
  /\ \A i \in DOMAIN T : i # 1 => \E j \in DOMAIN S : T[i] = S[j] /\ S[j].id # e.id
  /\ \A x : Known(T, x) <=> x = e.id \/ Known(S, x)
  /\ Session(T, e.id) = e
  /\ \A x : x # e.id /\ Known(S, x) => Session(T, x) = Session(S, x)

\* What stands at which place decides what is found under an id.
LEMMA PlacesDecide ==
  ASSUME NEW I, NEW a, NEW S \in Lists(I, a), NEW T \in Lists(I, a), NEW e \in Sessions(I, a),
         T # <<>>, T[1] = e,
         \A i \in DOMAIN T : i # 1 => \E j \in DOMAIN S : T[i] = S[j] /\ S[j].id # e.id,
         \A j \in DOMAIN S : S[j].id # e.id => \E i \in DOMAIN T : T[i] = S[j]
  PROVE  Leads(T, S, e)
<1>1. 1 \in DOMAIN T
  BY DEF Lists
<1>2. \A x : Known(T, x) <=> x = e.id \/ Known(S, x)
  BY <1>1 DEF Known
<1>3. Session(T, e.id) = e
  <2>1. Known(T, e.id)
    BY <1>2
  <2>2. \A i \in DOMAIN T : T[i].id = e.id => i = IndexOf(T, e.id)
    BY <2>1, IndexFound
  <2>3. IndexOf(T, e.id) = 1
    BY <2>2, <1>1
  <2> QED
    BY <2>3 DEF Session
<1>4. \A x : x # e.id /\ Known(S, x) => Session(T, x) = Session(S, x)
  <2> SUFFICES ASSUME NEW x, x # e.id, Known(S, x)
               PROVE  Session(T, x) = Session(S, x)
    OBVIOUS
  <2>1. Known(T, x)
    BY <1>2
  <2> DEFINE p == IndexOf(T, x)
  <2>2. p \in DOMAIN T /\ T[p].id = x
    BY <2>1, IndexFound
  <2>3. PICK j \in DOMAIN S : T[p] = S[j]
    BY <2>2
  <2>4. j = IndexOf(S, x)
    BY <2>2, <2>3, IndexFound
  <2> QED
    BY <2>3, <2>4 DEF Session
<1> QED
  BY <1>2, <1>3, <1>4 DEF Leads

\* A session that is put first leaves the list sound and the others as they were.
LEMMA PutFirst ==
  ASSUME NEW I, NEW a, NEW S \in Lists(I, a), NEW e \in Sessions(I, a)
  PROVE  /\ (<<e>> \o Others(S, e.id)) \in Lists(I, a)
         /\ Leads(<<e>> \o Others(S, e.id), S, e)
<1> DEFINE O == Others(S, e.id)
           T == <<e>> \o O
<1>1. /\ O \in Lists(I, a)
      /\ \A i \in DOMAIN O : O[i].id # e.id /\ \E j \in DOMAIN S : O[i] = S[j]
      /\ \A j \in DOMAIN S : S[j].id # e.id => \E i \in DOMAIN O : O[i] = S[j]
  BY OthersStayListed
<1> HIDE DEF O
<1>2. O \in Seq(Sessions(I, a)) /\ DOMAIN O = 1..Len(O)
  BY <1>1 DEF Lists
<1>3. T \in Seq(Sessions(I, a)) /\ Len(T) = Len(O) + 1 /\ DOMAIN T = 1..Len(T)
  <2> DEFINE F == <<e>>
  <2>1. F \in Seq(Sessions(I, a)) /\ Len(F) = 1
    OBVIOUS
  <2> HIDE DEF F
  <2>2. F \o O \in Seq(Sessions(I, a)) /\ Len(F \o O) = Len(F) + Len(O)
    BY <2>1, <1>2, ConcatProperties
  <2>3. Len(F \o O) = Len(O) + 1
    BY <2>1, <2>2, <1>2
  <2>4. T = F \o O
    BY DEF F
  <2> HIDE DEF T
  <2>5. DOMAIN T = 1..Len(T)
    BY <2>2, <2>4
  <2> QED
    BY <2>2, <2>3, <2>4, <2>5
<1>4. T[1] = e /\ \A i \in 1..Len(O) : T[i + 1] = O[i]
  BY <1>2
<1> HIDE DEF T
<1>5. \A i \in DOMAIN T : i # 1 => i - 1 \in DOMAIN O /\ T[i] = O[i - 1]
  <2> SUFFICES ASSUME NEW i \in DOMAIN T, i # 1
               PROVE  i - 1 \in DOMAIN O /\ T[i] = O[i - 1]
    OBVIOUS
  <2>1. i - 1 \in 1..Len(O) /\ (i - 1) + 1 = i
    BY <1>2, <1>3
  <2>2. T[(i - 1) + 1] = O[i - 1]
    BY <1>4, <2>1
  <2> QED
    BY <2>1, <2>2, <1>2
<1>6. \A i, j \in DOMAIN T : T[i].id = T[j].id => i = j
  <2> SUFFICES ASSUME NEW i \in DOMAIN T, NEW j \in DOMAIN T, T[i].id = T[j].id
               PROVE  i = j
    OBVIOUS
  <2>1. CASE i = 1 /\ j = 1
    BY <2>1
  <2>2. CASE i = 1 /\ j # 1
    BY <2>2, <1>1, <1>4, <1>5
  <2>3. CASE i # 1 /\ j = 1
    BY <2>3, <1>1, <1>4, <1>5
  <2>4. CASE i # 1 /\ j # 1
    <3>1. i - 1 \in DOMAIN O /\ j - 1 \in DOMAIN O /\ O[i - 1].id = O[j - 1].id
      BY <2>4, <1>5
    <3>2. \A m, n \in DOMAIN O : O[m].id = O[n].id => m = n
      BY <1>1 DEF Lists
    <3>3. i - 1 = j - 1
      BY <3>1, <3>2
    <3> QED
      BY <3>3, <1>3
  <2> QED
    BY <2>1, <2>2, <2>3, <2>4
<1>7. T \in Lists(I, a)
  BY <1>3, <1>6 DEF Lists
<1>8. T # <<>>
  BY <1>2, <1>3
<1>9. \A i \in DOMAIN T : i # 1 => \E j \in DOMAIN S : T[i] = S[j] /\ S[j].id # e.id
  BY <1>1, <1>5
<1>10. \A j \in DOMAIN S : S[j].id # e.id => \E i \in DOMAIN T : T[i] = S[j]
  <2> SUFFICES ASSUME NEW j \in DOMAIN S, S[j].id # e.id
               PROVE  \E i \in DOMAIN T : T[i] = S[j]
    OBVIOUS
  <2>1. PICK i \in DOMAIN O : O[i] = S[j]
    BY <1>1
  <2>2. i + 1 \in DOMAIN T /\ T[i + 1] = S[j]
    BY <2>1, <1>2, <1>3, <1>4
  <2> QED
    BY <2>2
<1>11. Leads(T, S, e)
  BY <1>4, <1>7, <1>8, <1>9, <1>10, PlacesDecide
<1> QED
  BY <1>7, <1>11 DEF T, O

\* updateSession: the session stands first, with the status it was given.
LEMMA UpdatedIsFirst ==
  ASSUME NEW I, NEW a, NEW S \in Lists(I, a), NEW id \in I, NEW status \in Statuses
  PROVE  /\ UpdateSession(S, id, a, status) \in Lists(I, a)
         /\ Leads(UpdateSession(S, id, a, status), S, [id |-> id, agent |-> a, status |-> status])
<1> DEFINE e == [id |-> id, agent |-> a, status |-> status]
<1>1. e \in Sessions(I, a) /\ e.id = id
  BY DEF Sessions
<1>2. status # "keep"
  BY DEF Statuses
<1>3. UpdateSession(S, id, a, status) = <<e>> \o Others(S, e.id)
  <2>1. CASE Known(S, id)
    <3>1. IndexOf(S, id) \in DOMAIN S /\ S[IndexOf(S, id)].id = id
      BY <2>1, IndexFound
    <3>2. Session(S, id) \in Sessions(I, a) /\ Session(S, id).id = id
      BY <3>1 DEF Lists, Session
    <3>3. [Session(S, id) EXCEPT !.status = status] = e
      BY <3>2 DEF Sessions
    <3> QED
      BY <3>3, <2>1, <1>2 DEF UpdateSession
  <2>2. CASE ~Known(S, id)
    BY <2>2, <1>2 DEF UpdateSession
  <2> QED
    BY <2>1, <2>2
<1> HIDE DEF e
<1>4. /\ (<<e>> \o Others(S, e.id)) \in Lists(I, a)
      /\ Leads(<<e>> \o Others(S, e.id), S, e)
  BY <1>1, PutFirst
<1> QED
  BY <1>3, <1>4 DEF e

\* completeSession and failSession: a session that is known stands first, with
\* its end, and one that is not known is not made.
LEMMA EndedIsFirst ==
  ASSUME NEW I, NEW a, NEW S \in Lists(I, a), NEW id, NEW status \in Statuses
  PROVE  /\ EndSession(S, id, status) \in Lists(I, a)
         /\ ~Known(S, id) => EndSession(S, id, status) = S
         /\ Known(S, id) => Leads(EndSession(S, id, status), S,
                                  [id |-> id, agent |-> a, status |-> status])
<1>1. CASE ~Known(S, id)
  BY <1>1 DEF EndSession
<1>2. CASE Known(S, id)
  <2> DEFINE e == [id |-> id, agent |-> a, status |-> status]
  <2>1. IndexOf(S, id) \in DOMAIN S /\ S[IndexOf(S, id)].id = id
    BY <1>2, IndexFound
  <2>2. Session(S, id) \in Sessions(I, a) /\ Session(S, id).id = id
    BY <2>1 DEF Lists, Session
  <2>3. [Session(S, id) EXCEPT !.status = status] = e /\ e \in Sessions(I, a) /\ e.id = id
    BY <2>2 DEF Sessions
  <2>4. EndSession(S, id, status) = <<e>> \o Others(S, e.id)
    BY <1>2, <2>3 DEF EndSession
  <2> HIDE DEF e
  <2>5. /\ (<<e>> \o Others(S, e.id)) \in Lists(I, a)
        /\ Leads(<<e>> \o Others(S, e.id), S, e)
    BY <2>3, PutFirst
  <2> QED
    BY <1>2, <2>4, <2>5 DEF e
<1> QED
  BY <1>1, <1>2

(***************************************************************************)
(* The folds of the tailers: there is a record of the results after each   *)
(* line, and the fold is the last of them                                  *)
(***************************************************************************)
\* What one line does: of a transcript to the list, of the Codex log f to
\* the list and the session the log has named.
Parsed(k, f, a, r) ==
  IF k = "claude" THEN ParseJsonLine(a, r)
  ELSE LET i == IF r = "session_meta" THEN f ELSE a.id
       IN [id |-> i, S |-> ParseLine(a.S, i, r)]

\* What the fold over the lines q computes for the sets of their numbers.
FoldsLines(g, k, f, S, q) ==
  g = [t \in SUBSET DOMAIN q |->
         IF t = {} THEN S ELSE Parsed(k, f, g[t \ {Max(t)}], q[Max(t)])]

\* The largest of some numbers of lines, and what lies below it.
LEMMA LargestLine ==
  ASSUME NEW n \in Nat, NEW t \in SUBSET (1..n), t # {}
  PROVE  /\ Max(t) \in t /\ Max(t) \in 1..n /\ \A i \in t : i <= Max(t)
         /\ t \ {Max(t)} \in SUBSET (1..(Max(t) - 1))
<1>1. Max(t) \in t /\ \A i \in t : i <= Max(t)
  <2>1. t \subseteq Nat /\ \A i \in t : i <= n
    OBVIOUS
  <2> QED
    BY <2>1, GreatestOf
<1>2. Max(t) \in 1..n
  BY <1>1
<1>3. \A i \in t \ {Max(t)} : i \in 1..(Max(t) - 1)
  <2> DEFINE M == Max(t)
  <2> SUFFICES ASSUME NEW i \in t, i # M
               PROVE  i \in 1..(M - 1)
    OBVIOUS
  <2>1. i \in 1..n /\ i <= M /\ M \in 1..n
    BY <1>1, <1>2
  <2> HIDE DEF M
  <2> QED
    BY <2>1
<1> QED
  BY <1>1, <1>2, <1>3

\* There is such a function: of a line more from that of the lines before.
LEMMA FoldExists ==
  ASSUME NEW kd, NEW f, NEW S, NEW q, NEW n \in Nat, DOMAIN q = 1..n
  PROVE  \E g : FoldsLines(g, kd, f, S, q)
<1> DEFINE Is(g, k) == g = [t \in SUBSET (1..k) |->
                              IF t = {} THEN S ELSE Parsed(kd, f, g[t \ {Max(t)}], q[Max(t)])]
           Bad == {k \in 0..n : ~\E g : Is(g, k)}
<1>1. SUFFICES Bad = {}
  <2>1. n \in 0..n
    OBVIOUS
  <2>2. \E g : Is(g, n)
    BY <1>1, <2>1
  <2> QED
    BY <2>2 DEF FoldsLines
<1>2. SUFFICES ASSUME Bad # {}
               PROVE  FALSE
  OBVIOUS
<1>3. PICK k \in Bad : \A i \in Bad : k <= i
  <2>1. Bad \subseteq Nat
    OBVIOUS
  <2> HIDE DEF Bad
  <2> QED
    BY <1>2, <2>1, LeastOf
<1>4. k \in 0..n /\ ~\E g : Is(g, k)
  OBVIOUS
<1>5. CASE k = 0
  <2> DEFINE g == [t \in SUBSET (1..0) |-> S]
  <2>1. SUBSET (1..0) = {{}}
    OBVIOUS
  <2>2. Is(g, 0)
    BY <2>1
  <2> QED
    BY <1>4, <1>5, <2>2
<1>6. CASE k # 0
  <2>1. k - 1 \in 0..n /\ ~(k <= k - 1)
    BY <1>4, <1>6
  <2>2. k - 1 \notin Bad
    <3> HIDE DEF Bad
    <3> QED
      BY <1>3, <2>1
  <2>3. PICK g : Is(g, k - 1)
    BY <2>1, <2>2
  <2> DEFINE h == [t \in SUBSET (1..k) |->
                     IF k \in t THEN Parsed(kd, f, g[t \ {k}], q[k]) ELSE g[t]]
  <2>4. ASSUME NEW t \in SUBSET (1..k)
        PROVE  h[t] = IF t = {} THEN S ELSE Parsed(kd, f, h[t \ {Max(t)}], q[Max(t)])
    <3>1. CASE k \in t
      <4>1. Max(t) \in t /\ t \ {Max(t)} \in SUBSET (1..(Max(t) - 1)) /\ Max(t) \in 1..k
        BY <1>4, <3>1, LargestLine
      <4>2. Max(t) = k
        BY <1>4, <3>1, <4>1
      <4>3. h[t \ {k}] = g[t \ {k}]
        OBVIOUS
      <4> QED
        BY <3>1, <4>2, <4>3
    <3>2. CASE k \notin t /\ t = {}
      <4>1. g[{}] = S
        BY <2>3
      <4> QED
        BY <3>2, <4>1
    <3>3. CASE k \notin t /\ t # {}
      <4>1. t \in SUBSET (1..(k - 1))
        BY <1>4, <3>3
      <4>2. Max(t) \in t
        BY <1>4, <3>3, LargestLine
      <4>3. h[t] = g[t] /\ h[t \ {Max(t)}] = g[t \ {Max(t)}]
        BY <3>3
      <4>4. g[t] = Parsed(kd, f, g[t \ {Max(t)}], q[Max(t)])
        BY <2>3, <4>1, <3>3
      <4> QED
        BY <3>3, <4>3, <4>4
    <3> QED
      BY <3>1, <3>2, <3>3
  <2>5. h = [t \in SUBSET (1..k) |-> h[t]]
    OBVIOUS
  <2>6. Is(h, k)
    <3> HIDE DEF h
    <3> QED
      BY <2>4, <2>5
  <2> QED
    BY <1>4, <2>6
<1> QED
  BY <1>5, <1>6

\* So reading lines is one line after the other: the results r of reading
\* none, the first, the first two...
Reading(r, k, f, S, q) ==
  r[0] = S /\ \A i \in 1..Len(q) : r[i] = Parsed(k, f, r[i - 1], q[i])

\* A function over the sets of line numbers gives the results in order.
LEMMA LinesInOrder ==
  ASSUME NEW k, NEW f, NEW S, NEW q, NEW n \in Nat, DOMAIN q = 1..n, Len(q) = n,
         NEW g, FoldsLines(g, k, f, S, q)
  PROVE  \E r : Reading(r, k, f, S, q) /\ r[n] = g[DOMAIN q]
<1> DEFINE r == [i \in 0..n |-> g[1..i]]
<1>1. r[0] = S
  <2>1. 1..0 = {} /\ {} \in SUBSET DOMAIN q
    OBVIOUS
  <2>2. g[{}] = S
    BY <2>1 DEF FoldsLines
  <2> QED
    BY <2>1, <2>2
<1>2. ASSUME NEW i \in 1..n
      PROVE  r[i] = Parsed(k, f, r[i - 1], q[i])
  <2> DEFINE t == 1..i
  <2>0. i \in Nat /\ i \in 1..i
    OBVIOUS
  <2>1. i \in Nat /\ t \in SUBSET (1..i) /\ t # {} /\ i \in t
    BY <2>0
  <2>8. t \in SUBSET DOMAIN q
    OBVIOUS
  <2>2. Max(t) \in t /\ Max(t) \in 1..i /\ \A j \in t : j <= Max(t)
    BY <2>1, LargestLine
  <2>3. Max(t) = i
    <3> DEFINE M == Max(t)
    <3>1. M \in 1..i /\ i <= M
      BY <2>1, <2>2
    <3> HIDE DEF M
    <3>2. M = i
      BY <3>1, <2>1
    <3> QED
      BY <3>2 DEF M
  <2>4. t \ {Max(t)} = 1..(i - 1)
    BY <2>1, <2>3
  <2>5. g[t] = Parsed(k, f, g[t \ {Max(t)}], q[Max(t)])
    BY <2>1, <2>8 DEF FoldsLines
  <2>6. g[t] = Parsed(k, f, g[1..(i - 1)], q[i])
    BY <2>3, <2>4, <2>5
  <2>7. r[i] = g[t] /\ r[i - 1] = g[1..(i - 1)]
    OBVIOUS
  <2> QED
    BY <2>6, <2>7
<1>3. r[n] = g[DOMAIN q]
  OBVIOUS
<1> HIDE DEF r
<1>4. Reading(r, k, f, S, q)
  BY <1>1, <1>2 DEF Reading
<1> QED
  BY <1>3, <1>4

\* The lines of a transcript, one by one.
LEMMA TranscriptInOrder ==
  ASSUME NEW S, NEW E, NEW q \in Seq(E)
  PROVE  \E r : Reading(r, "claude", "none", S, q) /\ FoldLeft(ParseJsonLine, S, q) = r[Len(q)]
<1> DEFINE F == CHOOSE g : g = [t \in SUBSET DOMAIN q |->
                IF t = {} THEN S ELSE ParseJsonLine(g[t \ {Max(t)}], q[Max(t)])]
<1>0. Len(q) \in Nat /\ DOMAIN q = 1..Len(q)
  OBVIOUS
<1>1. \E g : FoldsLines(g, "claude", "none", S, q)
  BY <1>0, FoldExists
<1>2. \E g : g = [t \in SUBSET DOMAIN q |->
                IF t = {} THEN S ELSE ParseJsonLine(g[t \ {Max(t)}], q[Max(t)])]
  BY <1>1 DEF FoldsLines, Parsed
<1>3. FoldsLines(F, "claude", "none", S, q)
  BY <1>2 DEF FoldsLines, Parsed
<1>4. FoldLeft(ParseJsonLine, S, q) = F[DOMAIN q]
  BY DEF FoldLeft, MapThenFoldSet
<1> HIDE DEF F
<1>5. PICK n \in Nat : n = Len(q) /\ DOMAIN q = 1..n
  BY <1>0
<1>6. PICK g : g = F
  OBVIOUS
<1>7. FoldsLines(g, "claude", "none", S, q)
  BY <1>3, <1>6
<1>8. \E r : Reading(r, "claude", "none", S, q) /\ r[n] = g[DOMAIN q]
  BY <1>5, <1>7, LinesInOrder
<1> QED
  BY <1>4, <1>5, <1>6, <1>8

\* The lines of a Codex log, one by one.
LEMMA LogInOrder ==
  ASSUME NEW S, NEW f, NEW id, NEW E, NEW q \in Seq(E)
  PROVE  \E r : Reading(r, "codex", f, [id |-> id, S |-> S], q)
                  /\ ParseLines(S, f, id, q) = r[Len(q)]
<1> DEFINE b == [id |-> id, S |-> S]
           P(a, x) == [id |-> IF x = "session_meta" THEN f ELSE a.id,
                       S |-> ParseLine(a.S, IF x = "session_meta" THEN f ELSE a.id, x)]
           F == CHOOSE g : g = [t \in SUBSET DOMAIN q |->
                IF t = {} THEN b ELSE P(g[t \ {Max(t)}], q[Max(t)])]
<1>0. Len(q) \in Nat /\ DOMAIN q = 1..Len(q)
  OBVIOUS
<1>1. ParseLines(S, f, id, q) = F[DOMAIN q]
  BY DEF ParseLines, FoldLeft, MapThenFoldSet
<1>2. \A a, x : P(a, x) = Parsed("codex", f, a, x)
  BY DEF Parsed
<1> HIDE DEF P, b
<1>3. \E g : FoldsLines(g, "codex", f, b, q)
  BY <1>0, FoldExists
<1>4. \E g : g = [t \in SUBSET DOMAIN q |->
                IF t = {} THEN b ELSE P(g[t \ {Max(t)}], q[Max(t)])]
  BY <1>2, <1>3 DEF FoldsLines
<1>5. FoldsLines(F, "codex", f, b, q)
  BY <1>2, <1>4 DEF FoldsLines
<1> HIDE DEF F
<1>6. \E r : Reading(r, "codex", f, b, q) /\ r[Len(q)] = F[DOMAIN q]
  BY <1>0, <1>5, LinesInOrder
<1> QED
  BY <1>1, <1>6 DEF b

(***************************************************************************)
(* Antigravity's conversations                                             *)
(***************************************************************************)
\* Of the list S, only the session c may be shown as running.
OnlyRuns(S, c) == \A i \in DOMAIN S : S[i].status \in Active => S[i].id = c

AntigravityInv ==
  /\ sessions \in Lists(Convs, "antigravity")
  /\ ag \in [up : BOOLEAN, conv : Convs \cup {NoConv}, status : RawStatuses, quiet : Nat]
  /\ current \in Convs \cup {NoConv}
  /\ OnlyRuns(sessions, current)

\* finishActive leaves nothing running.
LEMMA FinishedRunsNothing ==
  ASSUME AntigravityInv
  PROVE  /\ FinishActive(sessions) \in Lists(Convs, "antigravity")
         /\ \A c : OnlyRuns(FinishActive(sessions), c)
<1>0. NoConv \notin Convs /\ sessions \in Lists(Convs, "antigravity") /\ OnlyRuns(sessions, current)
  BY AntigravityAssumption DEF AntigravityInv
<1>1. \A i \in DOMAIN sessions : sessions[i].id \in Convs /\ sessions[i].status \in Statuses
  <2>1. \A i \in DOMAIN sessions : sessions[i] \in Sessions(Convs, "antigravity")
    BY <1>0 DEF Lists
  <2> QED
    BY <2>1 DEF Sessions
<1>2. CASE current # NoConv /\ Known(sessions, current) /\ Session(sessions, current).status \in Active
  <2> DEFINE T == EndSession(sessions, current, "completed")
             e == [id |-> current, agent |-> "antigravity", status |-> "completed"]
  <2>1. T \in Lists(Convs, "antigravity") /\ Leads(T, sessions, e)
    <3>1. "completed" \in Statuses
      BY DEF Statuses
    <3> QED
      BY <1>0, <1>2, <3>1, EndedIsFirst
  <2>2. FinishActive(sessions) = T
    BY <1>2 DEF FinishActive
  <2>3. e.status \notin Active /\ e.id = current
    BY DEF Active
  <2> HIDE DEF T, e
  <2>4. \A i \in DOMAIN T : T[i].status \notin Active
    <3> TAKE i \in DOMAIN T
    <3>1. CASE i = 1
      BY <3>1, <2>1, <2>3 DEF Leads
    <3>2. CASE i # 1
      <4>1. PICK j \in DOMAIN sessions : T[i] = sessions[j] /\ sessions[j].id # e.id
        BY <3>2, <2>1 DEF Leads
      <4> QED
        BY <4>1, <2>3, <1>0 DEF OnlyRuns
    <3> QED
      BY <3>1, <3>2
  <2> QED
    BY <2>1, <2>2, <2>4 DEF OnlyRuns
<1>3. CASE ~(current # NoConv /\ Known(sessions, current) /\ Session(sessions, current).status \in Active)
  <2>1. FinishActive(sessions) = sessions
    BY <1>3 DEF FinishActive
  <2>2. \A i \in DOMAIN sessions : sessions[i].status \notin Active
    <3> SUFFICES ASSUME NEW i \in DOMAIN sessions, sessions[i].status \in Active
                 PROVE  FALSE
      OBVIOUS
    <3>1. sessions[i].id = current
      BY <1>0 DEF OnlyRuns
    <3>2. Known(sessions, current) /\ current # NoConv
      BY <3>1, <1>0, <1>1 DEF Known
    <3>3. i = IndexOf(sessions, current)
      BY <3>1, <3>2, <1>0, IndexFound
    <3>4. Session(sessions, current).status \in Active
      BY <3>3 DEF Session
    <3> QED
      BY <3>2, <3>4, <1>3
  <2> QED
    BY <1>0, <2>1, <2>2 DEF OnlyRuns
<1> QED
  BY <1>2, <1>3

\* A conversation shown anew takes the place of the one that may run.
LEMMA ShownAnew ==
  ASSUME NEW S \in Lists(Convs, "antigravity"), NEW c \in Convs, OnlyRuns(S, c),
         NEW status \in Statuses
  PROVE  /\ UpdateSession(S, c, "antigravity", status) \in Lists(Convs, "antigravity")
         /\ OnlyRuns(UpdateSession(S, c, "antigravity", status), c)
<1> DEFINE T == UpdateSession(S, c, "antigravity", status)
           e == [id |-> c, agent |-> "antigravity", status |-> status]
<1>1. T \in Lists(Convs, "antigravity") /\ Leads(T, S, e)
  BY UpdatedIsFirst
<1>2. e.id = c
  OBVIOUS
<1> HIDE DEF T, e
<1>3. OnlyRuns(T, c)
  BY <1>1, <1>2 DEF OnlyRuns, Leads
<1> QED
  BY <1>1, <1>3 DEF T

\* poll, when it finds nothing.
LEMMA NothingFound ==
  ASSUME AntigravityInv, PollFindsNothing, UNCHANGED ag
  PROVE  AntigravityInv'
<1>1. /\ sessions' = FinishActive(sessions) /\ current' = NoConv /\ ag' = ag
  BY DEF PollFindsNothing, Forget
<1>2. sessions' \in Lists(Convs, "antigravity") /\ OnlyRuns(sessions', NoConv)
  BY <1>1, FinishedRunsNothing
<1> QED
  BY <1>1, <1>2 DEF AntigravityInv, OnlyRuns

\* poll, on the conversation it finds.
LEMMA ConversationPolled ==
  ASSUME AntigravityInv, PollConversation, UNCHANGED ag
  PROVE  AntigravityInv'
<1> DEFINE S == IF ag.conv # current THEN FinishActive(sessions) ELSE sessions
<1>1. ag.conv \in Convs /\ current' = ag.conv /\ ag' = ag
  BY DEF PollConversation, AntigravityInv
<1>2. S \in Lists(Convs, "antigravity") /\ OnlyRuns(S, ag.conv)
  <2>1. CASE ag.conv # current
    BY <2>1, FinishedRunsNothing
  <2>2. CASE ag.conv = current
    BY <2>2 DEF AntigravityInv
  <2> QED
    BY <2>1, <2>2
<1>3. \/ sessions' = UpdateSession(S, ag.conv, "antigravity", "running_tool")
      \/ sessions' = UpdateSession(S, ag.conv, "antigravity", "thinking")
      \/ sessions' = UpdateSession(S, ag.conv, "antigravity", "completed")
      \/ sessions' = S
  BY DEF PollConversation
<1>4. {"running_tool", "thinking", "completed"} \subseteq Statuses
  BY DEF Statuses
<1> HIDE DEF S
<1>5. sessions' \in Lists(Convs, "antigravity") /\ OnlyRuns(sessions', ag.conv)
  BY <1>1, <1>2, <1>3, <1>4, ShownAnew
<1> QED
  BY <1>1, <1>5 DEF AntigravityInv, OnlyRuns

\* Every step of the poller and of Antigravity keeps the invariant.
LEMMA AntigravityKeeps ==
  ASSUME AntigravityInv, AntigravityNext
  PROVE  AntigravityInv'
<1>1. CASE Poll
  BY <1>1, NothingFound, ConversationPolled DEF Poll
<1>2. CASE TimePasses
  <2>1. ag' = [ag EXCEPT !.quiet = Min({Cap, @ + 1})] /\ UNCHANGED <<sessions, current>>
    BY <1>2 DEF TimePasses
  <2>2. ag.quiet + 1 \in Nat /\ Cap \in Nat
    BY AntigravityAssumption DEF AntigravityInv, Cap
  <2>3. Min({Cap, ag.quiet + 1}) \in Nat
    <3> DEFINE T == {Cap, ag.quiet + 1}
    <3>1. T \subseteq Nat /\ T # {}
      BY <2>2
    <3> HIDE DEF T
    <3>2. Min(T) \in Nat
      BY <3>1, MinIsLeast
    <3> QED
      BY <3>2 DEF T
  <2> QED
    BY <2>1, <2>3 DEF AntigravityInv, OnlyRuns
<1>3. CASE Antigravity
  <2>1. ag' \in [up : BOOLEAN, conv : Convs \cup {NoConv}, status : RawStatuses, quiet : {0}]
        /\ UNCHANGED <<sessions, current>>
    BY <1>3 DEF Antigravity
  <2> QED
    BY <2>1 DEF AntigravityInv, OnlyRuns
<1> QED
  BY <1>1, <1>2, <1>3 DEF AntigravityNext

(***************************************************************************)
(* Claude: what the lines of a transcript tell                             *)
(***************************************************************************)
ClaudeIds == Transcripts \cup {DesktopId}

\* A line that tells something makes or ends the tailer's session; the list
\* stays sound and forgets none.
LEMMA LineTold ==
  ASSUME NEW S \in Lists(ClaudeIds, "claude"), NEW ev \in EventKinds
  PROVE  /\ ParseJsonLine(S, ev) \in Lists(ClaudeIds, "claude")
         /\ ev = "text" => ParseJsonLine(S, ev) = S
         /\ ev \notin {"text", "stop"} =>
              Leads(ParseJsonLine(S, ev), S, [id |-> DesktopId, agent |-> "claude", status |-> Told(ev)])
         /\ ev = "stop" /\ Known(S, DesktopId) =>
              Leads(ParseJsonLine(S, ev), S, [id |-> DesktopId, agent |-> "claude", status |-> Told(ev)])
         /\ ev = "stop" /\ ~Known(S, DesktopId) => ParseJsonLine(S, ev) = S
<1>0. DesktopId \in ClaudeIds /\ {"thinking", "running_tool", "completed"} \subseteq Statuses
  BY DEF ClaudeIds, Statuses
<1>1. CASE ev = "text"
  <2>1. ParseJsonLine(S, ev) = S
    BY <1>1 DEF ParseJsonLine
  <2> QED
    BY <2>1, <1>1
<1>2. CASE ev = "stop"
  <2>1. ParseJsonLine(S, ev) = EndSession(S, DesktopId, "completed") /\ Told(ev) = "completed"
    BY <1>2 DEF ParseJsonLine, Told
  <2> QED
    BY <2>1, <1>2, <1>0, EndedIsFirst
<1>3. CASE ev = "tool"
  <2>1. ParseJsonLine(S, ev) = UpdateSession(S, DesktopId, "claude", "running_tool")
        /\ Told(ev) = "running_tool"
    BY <1>3 DEF ParseJsonLine, Told, HookStatus
  <2> QED
    BY <2>1, <1>3, <1>0, UpdatedIsFirst
<1>4. CASE ev \in {"prompt", "toolResult"}
  <2>1. ParseJsonLine(S, ev) = UpdateSession(S, DesktopId, "claude", "thinking")
        /\ Told(ev) = "thinking"
    BY <1>4 DEF ParseJsonLine, Told, HookStatus
  <2> QED
    BY <2>1, <1>4, <1>0, UpdatedIsFirst
<1> QED
  BY <1>1, <1>2, <1>3, <1>4 DEF EventKinds

\* What e leads is known, and what was known still is.
LEMMA LeaderIsKnown ==
  ASSUME NEW T, NEW S, NEW e, Leads(T, S, e)
  PROVE  /\ Known(T, e.id) /\ \A x : Known(S, x) => Known(T, x)
         /\ T # <<>> /\ T[1] = e
BY DEF Leads

\* Of the results of reading a chunk q each is a sound list; the session is
\* known from the first line on that tells of it.
LEMMA ChunkGrows ==
  ASSUME NEW S \in Lists(ClaudeIds, "claude"), NEW q \in Seq(EventKinds),
         NEW r, Reading(r, "claude", "none", S, q)
  PROVE  \A k \in 0..Len(q) :
           /\ r[k] \in Lists(ClaudeIds, "claude")
           /\ Known(S, DesktopId) => Known(r[k], DesktopId)
           /\ \A i \in 1..k : q[i] \notin {"text", "stop"} => Known(r[k], DesktopId)
<1> DEFINE Good(k) ==
             /\ r[k] \in Lists(ClaudeIds, "claude")
             /\ Known(S, DesktopId) => Known(r[k], DesktopId)
             /\ \A i \in 1..k : q[i] \notin {"text", "stop"} => Known(r[k], DesktopId)
           Bad == {k \in 0..Len(q) : ~Good(k)}
<1>0. Len(q) \in Nat /\ \A i \in 1..Len(q) : q[i] \in EventKinds
  OBVIOUS
<1>1. SUFFICES ASSUME Bad # {}
               PROVE  FALSE
  OBVIOUS
<1>2. PICK k \in Bad : \A i \in Bad : k <= i
  <2>1. Bad \subseteq Nat
    OBVIOUS
  <2> HIDE DEF Bad
  <2> QED
    BY <1>1, <2>1, LeastOf
<1>3. k \in 0..Len(q) /\ ~Good(k)
  OBVIOUS
<1>4. CASE k = 0
  <2>1. r[0] = S
    BY DEF Reading
  <2> QED
    BY <1>3, <1>4, <2>1
<1>5. CASE k # 0
  <2>1. k \in 1..Len(q) /\ k - 1 \in 0..Len(q) /\ ~(k <= k - 1)
    BY <1>3, <1>5, <1>0
  <2>2. k - 1 \notin Bad
    <3> HIDE DEF Bad
    <3> QED
      BY <1>2, <2>1
  <2>3. Good(k - 1)
    BY <2>1, <2>2
  <2>4. r[k] = ParseJsonLine(r[k - 1], q[k])
    BY <2>1 DEF Reading, Parsed
  <2> DEFINE R == r[k - 1]
             ev == q[k]
             e == [id |-> DesktopId, agent |-> "claude", status |-> Told(ev)]
  <2>5. R \in Lists(ClaudeIds, "claude") /\ ev \in EventKinds
    BY <2>1, <2>3, <1>0
  <2>6. e.id = DesktopId
    OBVIOUS
  <2>7. \A i \in 1..k : i = k \/ i \in 1..(k - 1)
    BY <2>1
  <2> HIDE DEF R, ev, e
  <2>8. /\ r[k] \in Lists(ClaudeIds, "claude")
        /\ ev = "text" => r[k] = R
        /\ ev \notin {"text", "stop"} => Leads(r[k], R, e)
        /\ ev = "stop" => r[k] = R \/ Leads(r[k], R, e)
    BY <2>4, <2>5, LineTold DEF R, ev, e
  <2>9. /\ Known(R, DesktopId) => Known(r[k], DesktopId)
        /\ ev \notin {"text", "stop"} => Known(r[k], DesktopId)
    BY <2>6, <2>8, LeaderIsKnown
  <2>10. Known(S, DesktopId) => Known(r[k], DesktopId)
    BY <2>3, <2>9 DEF R
  <2>11. ASSUME NEW i \in 1..k, q[i] \notin {"text", "stop"}
         PROVE  Known(r[k], DesktopId)
    <3>1. CASE i = k
      BY <3>1, <2>9, <2>11 DEF ev
    <3>2. CASE i \in 1..(k - 1)
      BY <3>2, <2>3, <2>9, <2>11 DEF R
    <3> QED
      BY <3>1, <3>2, <2>7
  <2> QED
    BY <1>3, <2>8, <2>10, <2>11
<1> QED
  BY <1>4, <1>5

\* The list that reading a chunk q leaves.
LEMMA ChunkRead ==
  ASSUME NEW S \in Lists(ClaudeIds, "claude"), NEW q \in Seq(EventKinds), q # <<>>
  PROVE  LET T == FoldLeft(ParseJsonLine, S, q)
             n == Len(q)
         IN
         /\ T \in Lists(ClaudeIds, "claude")
         /\ Known(S, DesktopId) => Known(T, DesktopId)
         /\ \A i \in 1..n : q[i] \notin {"text", "stop"} => Known(T, DesktopId)
         /\ q[n] \notin {"text", "stop"} => T # <<>> /\ T[1].status = Told(q[n])
         /\ q[n] = "text" /\ n = 1 => T = S
         /\ q[n] = "text" /\ n > 1 /\ q[n - 1] \notin {"text", "stop"} =>
              T # <<>> /\ T[1].status = Told(q[n - 1])
         /\ q[n] = "stop"
              /\ (Known(S, DesktopId) \/ \E i \in 1..(n - 1) : q[i] \notin {"text", "stop"}) =>
              T # <<>> /\ T[1].status = Told("stop")
         /\ q = <<"stop">> /\ S = <<>> => T = <<>>
<1> DEFINE T == FoldLeft(ParseJsonLine, S, q)
           n == Len(q)
           e(ev) == [id |-> DesktopId, agent |-> "claude", status |-> Told(ev)]
<1>1. PICK r : Reading(r, "claude", "none", S, q) /\ T = r[n]
  BY TranscriptInOrder
<1>2. n \in Nat \ {0} /\ \A i \in 1..n : q[i] \in EventKinds
  OBVIOUS
<1>3. r[0] = S /\ \A i \in 1..n : r[i] = ParseJsonLine(r[i - 1], q[i])
  BY <1>1 DEF Reading, Parsed
<1>4. \A k \in 0..n :
           /\ r[k] \in Lists(ClaudeIds, "claude")
           /\ Known(S, DesktopId) => Known(r[k], DesktopId)
           /\ \A i \in 1..k : q[i] \notin {"text", "stop"} => Known(r[k], DesktopId)
  BY <1>1, ChunkGrows
<1>5. n \in 0..n /\ n - 1 \in 0..n /\ n \in 1..n /\ (n > 1 => n - 1 \in 1..n /\ (n - 1) - 1 \in 0..n)
  BY <1>2
<1>6. \A ev : e(ev).id = DesktopId /\ e(ev).status = Told(ev)
  OBVIOUS
<1> HIDE DEF T, n, e
<1>7. ASSUME NEW i \in 1..n, i - 1 \in 0..n
      PROVE  /\ q[i] = "text" => r[i] = r[i - 1]
             /\ q[i] \notin {"text", "stop"} => Leads(r[i], r[i - 1], e(q[i]))
             /\ q[i] = "stop" /\ Known(r[i - 1], DesktopId) => Leads(r[i], r[i - 1], e(q[i]))
             /\ q[i] = "stop" /\ ~Known(r[i - 1], DesktopId) => r[i] = r[i - 1]
  <2> DEFINE R == r[i - 1]
  <2>1. R \in Lists(ClaudeIds, "claude") /\ q[i] \in EventKinds /\ r[i] = ParseJsonLine(R, q[i])
    BY <1>7, <1>2, <1>3, <1>4
  <2> HIDE DEF R
  <2> QED
    BY <2>1, LineTold DEF R, e
<1>8. /\ T \in Lists(ClaudeIds, "claude")
      /\ Known(S, DesktopId) => Known(T, DesktopId)
      /\ \A i \in 1..n : q[i] \notin {"text", "stop"} => Known(T, DesktopId)
  BY <1>1, <1>4, <1>5
<1>9. ASSUME q[n] \notin {"text", "stop"}
      PROVE  T # <<>> /\ T[1].status = Told(q[n])
  <2>1. Leads(T, r[n - 1], e(q[n]))
    BY <1>9, <1>7, <1>5, <1>1
  <2> QED
    BY <2>1, <1>6, LeaderIsKnown
<1>10. ASSUME q[n] = "text", n = 1
       PROVE  T = S
  <2>1. r[n] = r[n - 1]
    BY <1>10, <1>7, <1>5
  <2>2. n - 1 = 0
    BY <1>10
  <2> QED
    BY <2>1, <2>2, <1>1, <1>3
<1>11. ASSUME q[n] = "text", n > 1, q[n - 1] \notin {"text", "stop"}
       PROVE  T # <<>> /\ T[1].status = Told(q[n - 1])
  <2>1. r[n] = r[n - 1]
    BY <1>11, <1>7, <1>5
  <2> DEFINE m == n - 1
  <2>2. m \in 1..n /\ m - 1 \in 0..n /\ q[m] \notin {"text", "stop"}
    BY <1>11, <1>5
  <2>3. r[m] = T
    BY <2>1, <1>1
  <2> HIDE DEF m
  <2>4. Leads(T, r[m - 1], e(q[m]))
    BY <2>2, <2>3, <1>7
  <2>5. T # <<>> /\ T[1].status = Told(q[m])
    BY <2>4, <1>6, LeaderIsKnown
  <2> QED
    BY <2>5 DEF m
<1>12. ASSUME q[n] = "stop",
              Known(S, DesktopId) \/ \E i \in 1..(n - 1) : q[i] \notin {"text", "stop"}
       PROVE  T # <<>> /\ T[1].status = Told("stop")
  <2>1. Known(r[n - 1], DesktopId)
    BY <1>12, <1>4, <1>5
  <2>2. Leads(T, r[n - 1], e("stop"))
    BY <1>12, <1>7, <1>5, <1>1, <2>1
  <2> QED
    BY <2>2, <1>6, LeaderIsKnown
<1>13. ASSUME q = <<"stop">>, S = <<>>
       PROVE  T = <<>>
  <2>1. n = 1 /\ n - 1 = 0 /\ q[n] = "stop"
    BY <1>13 DEF n
  <2>2. ~Known(S, DesktopId)
    BY <1>13 DEF Known
  <2>3. r[n] = r[n - 1]
    BY <2>1, <2>2, <1>3, <1>5, <1>7
  <2> QED
    BY <2>1, <2>3, <1>1, <1>3, <1>13
<1> QED
  BY <1>8, <1>9, <1>10, <1>11, <1>12, <1>13 DEF T, n

(***************************************************************************)
(* Claude: the inductive invariant                                         *)
(***************************************************************************)
Hooked == EventKinds \ {"text"}

ClaudeTypeOK ==
  /\ sessions \in Lists(ClaudeIds, "claude")
  /\ lines \in [Transcripts -> Seq(EventKinds)]
  /\ half \in [Transcripts -> BOOLEAN]
  /\ writing \in [f : Transcripts, ev : EventKinds] \cup {Nothing}
  /\ newest \in Transcripts \cup {"none"}
  /\ hook \in BOOLEAN
  /\ posts \in Seq([f : Transcripts, ev : Hooked, waited : BOOLEAN])
  /\ active \in Transcripts \cup {"none"}
  /\ position \in Nat
  /\ stray \in BOOLEAN

\* A line that tells nothing of the turn follows one that does, and the turn
\* does not end twice.
WellWritten(q) ==
  /\ \A n \in DOMAIN q : q[n] = "text" => n > 1 /\ q[n - 1] \notin {"text", "stop"}
  /\ \A n \in DOMAIN q : q[n] = "stop" /\ n > 1 => q[n - 1] # "stop"

TurnsOK ==
  /\ \A f \in Transcripts : WellWritten(lines[f])
  /\ \A f \in Transcripts : InTurn(f) => f = newest
  /\ \A f \in Transcripts : half[f] => writing # Nothing /\ writing.f = f
  /\ writing # Nothing => Follows(writing.ev, writing.f)
  /\ newest # "none" /\ writing = Nothing => lines[newest] # <<>>

\* Claude waits for the last post only, which is of the event it is writing or
\* has written last.
HooksOK ==
  /\ hook => posts # <<>> /\ posts[Len(posts)].waited
  /\ \A i \in DOMAIN posts : posts[i].waited =>
       /\ i = Len(posts) /\ hook
       /\ IF writing = Nothing THEN newest # "none" /\ posts[i].ev = LastEvent(newest)
          ELSE posts[i].ev = writing.ev

\* The tailer has read whole lines of the active file, and knows its session if
\* the last of them did not end a turn.
TailerOK ==
  /\ active # "none" =>
       \E k \in 0..Len(lines[active]) :
         /\ position = 2 * k
         /\ k > 0 /\ lines[active][k] # "stop" => Known(sessions, DesktopId)
  /\ newest # "none" /\ writing = Nothing /\ lines[newest] = <<"stop">> =>
       sessions = <<>> /\ posts = <<>>

\* The number of the last line of q that tells something of the turn, and what
\* it tells.
ToldAt(q) == IF Last(q) = "text" THEN Len(q) - 1 ELSE Len(q)
LastOf(q) ==
  LET told == {i \in DOMAIN q : q[i] # "text"}
  IN IF told = {} THEN "stop" ELSE q[Max(told)]
Shown == 
  \/ sessions # <<>> /\ sessions[1].status = Told(LastEvent(newest))
  \/ sessions = <<>> /\ LastEvent(newest) = "stop"
ShownOK ==
  newest # "none" /\ active = newest /\ writing.ev \in {"none", "text"} /\ ~stray
     /\ position >= 2 * ToldAt(lines[newest]) => Shown

ClaudeInv == ClaudeTypeOK /\ TurnsOK /\ HooksOK /\ TailerOK /\ ShownOK

\* What was last told of a file is what its lines tell, now and after a step.
LEMMA LastEventIs == \A f : LastEvent(f) = LastOf(lines[f]) /\ LastEvent(f)' = LastOf(lines'[f])
BY DEF LastEvent, LastOf

\* The last event is that of the last line, or of the one before it if the last
\* tells nothing.
LEMMA LastTold ==
  ASSUME NEW q \in Seq(EventKinds), WellWritten(q)
  PROVE  /\ q = <<>> => LastOf(q) = "stop"
         /\ q # <<>> => /\ ToldAt(q) \in 1..Len(q)
                        /\ LastOf(q) = q[ToldAt(q)] /\ q[ToldAt(q)] # "text"
                        /\ q[Len(q)] # "text" => ToldAt(q) = Len(q)
                        /\ q[Len(q)] = "text" => ToldAt(q) = Len(q) - 1 /\ LastOf(q) # "stop"
<1> DEFINE told == {i \in DOMAIN q : q[i] # "text"}
           n == Len(q)
<1>0. LastOf(q) = IF told = {} THEN "stop" ELSE q[Max(told)]
  BY DEF LastOf
<1>1. CASE q = <<>>
  <2>1. told = {}
    BY <1>1
  <2> QED
    BY <2>1, <1>0, <1>1
<1>2. CASE q # <<>>
  <2>1. n \in Nat \ {0} /\ DOMAIN q = 1..n /\ Last(q) = q[n]
    BY <1>2 DEF Last
  <2>2. q[n] = "text" => n > 1 /\ q[n - 1] \notin {"text", "stop"}
    BY <2>1 DEF WellWritten
  <2>3. ToldAt(q) = IF q[n] = "text" THEN n - 1 ELSE n
    BY <2>1 DEF ToldAt
  <2>4. ToldAt(q) \in 1..n /\ q[ToldAt(q)] # "text" /\ \A i \in 1..n : q[i] # "text" => i <= ToldAt(q)
    <3>1. CASE q[n] = "text"
      <4>0. n \in Nat \ {0}
        BY <2>1
      <4> HIDE DEF n
      <4>1. \A i \in 1..n : i # n => i <= n - 1
        BY <4>0
      <4>2. ToldAt(q) = n - 1 /\ n - 1 \in 1..n /\ q[n - 1] # "text"
        BY <3>1, <4>0, <2>2, <2>3
      <4> QED
        BY <3>1, <4>1, <4>2
    <3>2. CASE q[n] # "text"
      BY <3>2, <2>1, <2>3
    <3> QED
      BY <3>1, <3>2
  <2>5. told \subseteq Nat /\ told # {} /\ (\A i \in told : i <= n) /\ ToldAt(q) \in told
        /\ \A i \in told : i \in 1..n /\ i <= ToldAt(q)
    BY <2>1, <2>4
  <2> HIDE DEF told, n
  <2>6. Max(told) \in told /\ \A i \in told : i <= Max(told)
    BY <2>1, <2>5, GreatestOf
  <2>7. Max(told) = ToldAt(q)
    <3> DEFINE M == Max(told)
    <3>1. M \in 1..n /\ M <= ToldAt(q) /\ ToldAt(q) <= M /\ ToldAt(q) \in 1..n
      BY <2>4, <2>5, <2>6
    <3> HIDE DEF M
    <3>2. M = ToldAt(q)
      BY <3>1, <2>1
    <3> QED
      BY <3>2 DEF M
  <2>8. LastOf(q) = q[ToldAt(q)]
    BY <1>0, <2>5, <2>7
  <2>9. q[n] = "text" => LastOf(q) # "stop"
    BY <2>2, <2>3, <2>8
  <2> QED
    BY <1>2, <2>3, <2>4, <2>8, <2>9 DEF n
<1> QED
  BY <1>1, <1>2

\* A line that may follow keeps the transcript well written, and is its last
\* event unless it tells nothing.
LEMMA LineFollows ==
  ASSUME NEW q \in Seq(EventKinds), WellWritten(q), NEW ev \in EventKinds,
         ev = "text" => LastOf(q) # "stop" /\ Last(q) # "text",
         ev = "stop" => LastOf(q) # "stop"
  PROVE  /\ WellWritten(Append(q, ev)) /\ Append(q, ev) # <<>>
         /\ LastOf(Append(q, ev)) = IF ev = "text" THEN LastOf(q) ELSE ev
         /\ ev = "text" => q # <<>> /\ ToldAt(Append(q, ev)) = Len(q) /\ ToldAt(q) = Len(q)
         /\ ev # "text" => ToldAt(Append(q, ev)) = Len(q) + 1
<1> DEFINE r == Append(q, ev)
           n == Len(q)
<1>1. n \in Nat /\ Len(r) = n + 1 /\ DOMAIN r = 1..(n + 1) /\ DOMAIN q = 1..n
      /\ (\A i \in 1..n : r[i] = q[i]) /\ r[n + 1] = ev /\ r # <<>> /\ r \in Seq(EventKinds)
  OBVIOUS
<1>2. q # <<>> => n \in 1..n /\ Last(q) = q[n]
  BY DEF Last
<1>3. q = <<>> => n = 0
  OBVIOUS
<1> HIDE DEF r, n
<1>4. ev \in {"text", "stop"} => q # <<>> /\ q[n] # "stop"
  <2> SUFFICES ASSUME ev \in {"text", "stop"}
               PROVE  q # <<>> /\ q[n] # "stop"
    OBVIOUS
  <2>1. q # <<>>
    BY LastTold
  <2>2. q[n] = "stop" => LastOf(q) = "stop"
    BY <2>1, LastTold DEF n
  <2> QED
    BY <2>1, <2>2
<1>5. ev = "text" => q[n] # "text"
  BY <1>2, <1>4
<1>6. WellWritten(r)
  <2>1. ASSUME NEW i \in 1..(n + 1)
        PROVE  /\ r[i] = "text" => i > 1 /\ r[i - 1] \notin {"text", "stop"}
               /\ r[i] = "stop" /\ i > 1 => r[i - 1] # "stop"
    <3>1. CASE i = n + 1
      <4>1. r[i] = ev /\ i - 1 = n
        BY <3>1, <1>1
      <4>2. q # <<>> => n \in 1..n /\ i > 1 /\ r[n] = q[n]
        BY <3>1, <1>1, <1>2
      <4> QED
        BY <4>1, <4>2, <1>4, <1>5
    <3>2. CASE i # n + 1
      <4>1. i \in 1..n /\ r[i] = q[i] /\ (i > 1 => i - 1 \in 1..n /\ r[i - 1] = q[i - 1])
        BY <3>2, <1>1
      <4> QED
        BY <4>1, <1>1 DEF WellWritten
    <3> QED
      BY <3>1, <3>2
  <2> QED
    BY <2>1, <1>1 DEF WellWritten
<1>7. /\ ToldAt(r) \in 1..Len(r) /\ LastOf(r) = r[ToldAt(r)]
      /\ r[Len(r)] # "text" => ToldAt(r) = Len(r)
      /\ r[Len(r)] = "text" => ToldAt(r) = Len(r) - 1
  BY <1>1, <1>6, LastTold
<1>8. CASE ev = "text"
  <2>1. ToldAt(r) = n /\ n \in 1..n /\ LastOf(r) = q[n]
    BY <1>1, <1>2, <1>4, <1>7, <1>8
  <2>2. ToldAt(q) = n /\ LastOf(q) = q[n]
    BY <1>4, <1>5, <1>8, LastTold DEF n
  <2> QED
    BY <2>1, <2>2, <1>1, <1>4, <1>6, <1>8 DEF r, n
<1>9. CASE ev # "text"
  <2>1. ToldAt(r) = n + 1 /\ LastOf(r) = ev
    BY <1>1, <1>7, <1>9
  <2> QED
    BY <2>1, <1>1, <1>6, <1>9 DEF r, n
<1> QED
  BY <1>8, <1>9

(***************************************************************************)
(* Claude: what a tick of the tailer reads and shows                       *)
(***************************************************************************)
\* T is the list S after the n lines L from the line first on.
ReadGives(T, S, L, n, first) ==
  /\ T \in Lists(ClaudeIds, "claude")
  /\ Known(S, DesktopId) => Known(T, DesktopId)
  /\ L[n] # "stop" /\ (first < n \/ L[n] # "text") => Known(T, DesktopId)
  /\ LastOf(L) # "stop" /\ ToldAt(L) >= first => T # <<>> /\ T[1].status = Told(LastOf(L))
  /\ LastOf(L) = "stop"
       /\ (Known(S, DesktopId) \/ first <= n - 2 \/ (first = n - 1 /\ L[first] # "text")) =>
       T # <<>> /\ T[1].status = Told(LastOf(L))
  /\ L = <<"stop">> /\ S = <<>> => T = <<>>
  /\ ToldAt(L) < first => T = S

\* Reading from any line on leaves the list as the lines say.
LEMMA ReadFromLine ==
  ASSUME NEW S \in Lists(ClaudeIds, "claude"), NEW L \in Seq(EventKinds), WellWritten(L),
         NEW n \in Nat, n = Len(L), NEW first \in 1..n
  PROVE  ReadGives(FoldLeft(ParseJsonLine, S, SubSeq(L, first, n)), S, L, n, first)
<1> DEFINE q == SubSeq(L, first, n)
           m == n - first + 1
           T == FoldLeft(ParseJsonLine, S, q)
<1>1. q \in Seq(EventKinds) /\ q # <<>> /\ Len(q) = m /\ m \in Nat /\ m >= 1
      /\ \A i \in 1..m : q[i] = L[first + i - 1]
  OBVIOUS
<1>2. /\ ToldAt(L) \in 1..n /\ LastOf(L) = L[ToldAt(L)] /\ L[ToldAt(L)] # "text"
      /\ L[n] # "text" => ToldAt(L) = n
      /\ L[n] = "text" => ToldAt(L) = n - 1 /\ LastOf(L) # "stop"
  <2>1. L # <<>>
    OBVIOUS
  <2> QED
    BY <2>1, LastTold
<1>3. \A i \in 1..n : /\ L[i] = "text" => i > 1 /\ L[i - 1] \notin {"text", "stop"}
                      /\ L[i] = "stop" /\ i > 1 => L[i - 1] # "stop"
  <2>1. DOMAIN L = 1..n
    OBVIOUS
  <2> QED
    BY <2>1 DEF WellWritten
<1>4. L = <<"stop">> => q = <<"stop">>
  <2> SUFFICES ASSUME L = <<"stop">>
               PROVE  q = <<"stop">>
    OBVIOUS
  <2>1. n = 1 /\ first = 1 /\ L[1] = "stop"
    OBVIOUS
  <2>2. m = 1
    BY <2>1
  <2>3. Len(q) = 1 /\ q[1] = "stop"
    BY <1>1, <2>1, <2>2
  <2> HIDE DEF q
  <2> QED
    BY <1>1, <2>3
<1>4a. L = <<"stop">> => n = 1
  OBVIOUS
<1> HIDE DEF q
<1>5. /\ T \in Lists(ClaudeIds, "claude")
      /\ Known(S, DesktopId) => Known(T, DesktopId)
      /\ \A i \in 1..m : q[i] \notin {"text", "stop"} => Known(T, DesktopId)
      /\ q[m] \notin {"text", "stop"} => T # <<>> /\ T[1].status = Told(q[m])
      /\ q[m] = "text" /\ m = 1 => T = S
      /\ q[m] = "text" /\ m > 1 /\ q[m - 1] \notin {"text", "stop"} =>
           T # <<>> /\ T[1].status = Told(q[m - 1])
      /\ q[m] = "stop"
           /\ (Known(S, DesktopId) \/ \E i \in 1..(m - 1) : q[i] \notin {"text", "stop"}) =>
           T # <<>> /\ T[1].status = Told("stop")
      /\ q = <<"stop">> /\ S = <<>> => T = <<>>
  <2>1. Len(q) = m
    BY <1>1
  <2>2. /\ T \in Lists(ClaudeIds, "claude")
        /\ Known(S, DesktopId) => Known(T, DesktopId)
        /\ \A i \in 1..Len(q) : q[i] \notin {"text", "stop"} => Known(T, DesktopId)
        /\ q[Len(q)] \notin {"text", "stop"} => T # <<>> /\ T[1].status = Told(q[Len(q)])
        /\ q[Len(q)] = "text" /\ Len(q) = 1 => T = S
        /\ q[Len(q)] = "text" /\ Len(q) > 1 /\ q[Len(q) - 1] \notin {"text", "stop"} =>
             T # <<>> /\ T[1].status = Told(q[Len(q) - 1])
        /\ q[Len(q)] = "stop"
             /\ (Known(S, DesktopId) \/ \E i \in 1..(Len(q) - 1) : q[i] \notin {"text", "stop"}) =>
             T # <<>> /\ T[1].status = Told("stop")
        /\ q = <<"stop">> /\ S = <<>> => T = <<>>
    BY <1>1, ChunkRead
  <2> HIDE DEF m, T
  <2> QED
    BY <2>1, <2>2
<1> HIDE DEF T
<1>6. /\ m \in 1..m /\ q[m] = L[n]
      /\ m > 1 => m - 1 \in 1..m /\ q[m - 1] = L[n - 1] /\ n - 1 \in 1..n
      /\ m > 2 => m - 2 \in 1..m /\ q[m - 2] = L[n - 2] /\ n - 2 \in 1..n
      /\ n \in 1..n
  <2>1. m \in 1..m /\ first + m - 1 = n /\ n \in 1..n
    BY <1>1
  <2>2. m > 1 => m - 1 \in 1..m /\ first + (m - 1) - 1 = n - 1 /\ n - 1 \in 1..n
    BY <1>1
  <2>3. m > 2 => m - 2 \in 1..m /\ first + (m - 2) - 1 = n - 2 /\ n - 2 \in 1..n
    BY <1>1
  <2> HIDE DEF m
  <2> QED
    BY <1>1, <2>1, <2>2, <2>3
<1>7. /\ m > 1 <=> first < n
      /\ m > 2 <=> first <= n - 2
      /\ first = n - 1 => m = 2
      /\ m = 1 <=> first = n
  BY <1>1
<1>7a. m > 1 => m - 1 \in 1..(m - 1)
  BY <1>1
<1>7b. m > 2 => m - 2 \in 1..(m - 1)
  BY <1>1
<1>7c. m = 1 \/ m > 1
  BY <1>1
<1> HIDE DEF m
<1>8. ASSUME L[n] # "stop", first < n \/ L[n] # "text"
      PROVE  Known(T, DesktopId)
  <2>1. CASE L[n] # "text"
    BY <1>8, <2>1, <1>5, <1>6
  <2>2. CASE L[n] = "text"
    <3>1. m > 1 /\ L[n - 1] \notin {"text", "stop"}
      BY <1>8, <2>2, <1>3, <1>6, <1>7
    <3> QED
      BY <3>1, <1>5, <1>6
  <2> QED
    BY <2>1, <2>2
<1>9. ASSUME LastOf(L) # "stop", ToldAt(L) >= first
      PROVE  T # <<>> /\ T[1].status = Told(LastOf(L))
  <2>1. CASE L[n] # "text"
    BY <1>9, <2>1, <1>2, <1>5, <1>6
  <2>2. CASE L[n] = "text"
    <3>1. ToldAt(L) = n - 1 /\ LastOf(L) = L[n - 1] /\ L[n - 1] \notin {"text", "stop"}
      BY <1>9, <2>2, <1>2
    <3>2. m > 1
      BY <1>9, <3>1, <1>2, <1>7
    <3> QED
      BY <3>1, <3>2, <2>2, <1>5, <1>6
  <2> QED
    BY <2>1, <2>2
<1>10. ASSUME LastOf(L) = "stop",
              Known(S, DesktopId) \/ first <= n - 2 \/ (first = n - 1 /\ L[first] # "text")
       PROVE  T # <<>> /\ T[1].status = Told(LastOf(L))
  <2>1. L[n] = "stop" /\ q[m] = "stop"
    BY <1>10, <1>2, <1>6
  <2>2. CASE Known(S, DesktopId)
    BY <2>1, <2>2, <1>5, <1>10
  <2>3. CASE first <= n - 2
    <3>1. m > 2 /\ m > 1 /\ n > 1
      BY <2>3, <1>7, <1>1
    <3>2. q[m - 1] # "stop" /\ q[m - 1] = L[n - 1]
      BY <3>1, <2>1, <1>3, <1>6
    <3>3. CASE q[m - 1] # "text"
      BY <3>1, <3>2, <3>3, <2>1, <1>5, <1>7a, <1>10
    <3>4. CASE q[m - 1] = "text"
      <4>1. (n - 1) - 1 = n - 2
        OBVIOUS
      <4>2. q[m - 2] \notin {"text", "stop"}
        BY <3>1, <3>2, <3>4, <4>1, <1>3, <1>6
      <4> QED
        BY <3>1, <4>2, <2>1, <1>5, <1>7b, <1>10
    <3> QED
      BY <3>3, <3>4
  <2>4. CASE first = n - 1 /\ L[first] # "text"
    <3>1. m > 1 /\ n > 1
      BY <2>4, <1>7
    <3>2. q[m - 1] \notin {"text", "stop"}
      BY <3>1, <2>1, <2>4, <1>3, <1>6
    <3> QED
      BY <3>1, <3>2, <2>1, <1>5, <1>7a, <1>10
  <2> QED
    BY <1>10, <2>2, <2>3, <2>4
<1>11. ASSUME ToldAt(L) < first
       PROVE  T = S
  <2>1. L[n] = "text" /\ first = n
    BY <1>11, <1>2
  <2> QED
    BY <2>1, <1>5, <1>6, <1>7
<1>12. ASSUME L = <<"stop">>, S = <<>>
       PROVE  T = <<>>
  BY <1>12, <1>4, <1>4a, <1>5
<1> QED
  BY <1>5, <1>8, <1>9, <1>10, <1>11, <1>12 DEF T, q, ReadGives

\* A read of n lines and h units that starts at the position from starts in the
\* file, and with all its lines or the last three, or two.
StartsWell(from, n, h) ==
  /\ from \in Nat /\ ~(2 * n + h < from) /\ (n = 0 => from = 0)
  /\ n # 0 => /\ ~(2 * n <= from)
             /\ LET first == (from + 1) \div 2 + 1
                IN first \in 1..n /\ (first = 1 \/ first <= n - 2 \/ (first <= n - 1 /\ h = 1))

\* The first whole line of the last w units of a file of n lines and h units.
LEMMA FirstOfWindow ==
  ASSUME NEW n \in Nat, NEW h \in 0..1, NEW w \in Nat, w >= 6,
         NEW from, 2 * n + h > w => from = 2 * n + h - w, ~(2 * n + h > w) => from = 0
  PROVE  StartsWell(from, n, h)
<1>1. CASE 2 * n + h > w
  <2>1. CASE h = 0
    BY <1>1, <2>1 DEF StartsWell
  <2>2. CASE h = 1
    BY <1>1, <2>2 DEF StartsWell
  <2> QED
    BY <2>1, <2>2
<1>2. CASE ~(2 * n + h > w)
  BY <1>2 DEF StartsWell
<1> QED
  BY <1>1, <1>2

\* What a tick of the tailer does: nothing, or it switches to a file without
\* lines, or it reads on from the line after those it has read, or of a file it
\* switches to all lines or the last three (two, while one is being written).
LEMMA TickReads ==
  ASSUME ClaudeInv, TailerTick, NEW L, L = lines[newest], NEW n, n = Len(L)
  PROVE  /\ newest \in Transcripts /\ L \in Seq(EventKinds) /\ n \in Nat /\ active' = newest
         /\ \/ sessions' = sessions /\ position' = position /\ active = newest
            \/ sessions' = sessions /\ position' = 0 /\ n = 0
            \/ \E first \in 1..n :
                 /\ sessions' = FoldLeft(ParseJsonLine, sessions, SubSeq(L, first, n))
                 /\ position' = 2 * n
                 /\ \/ active = newest /\ position = 2 * (first - 1)
                    \/ active # newest /\ (first = 1 \/ first <= n - 2 \/ (first <= n - 1 /\ half[newest]))
<1>0. newest \in Transcripts /\ L \in Seq(EventKinds) /\ n \in Nat
      /\ active' = newest /\ position \in Nat
  BY DEF TailerTick, ClaudeInv, ClaudeTypeOK
<1>1. PICK h \in 0..1 : /\ TranscriptSize(newest) = 2 * n + h /\ (h = 1 <=> half[newest])
  <2> DEFINE x == IF half[newest] THEN 1 ELSE 0
  <2>1. x \in 0..1 /\ (x = 1 <=> half[newest]) /\ TranscriptSize(newest) = 2 * n + x
    BY DEF TranscriptSize
  <2> HIDE DEF x
  <2> QED
    BY <2>1
<1>2. Window \in Nat /\ Window >= 6
  BY ClaudeAssumption
<1>3. PICK p : p = IF active = newest THEN position ELSE StartOf(newest)
  OBVIOUS
<1>4. PICK from : from = IF 2 * n + h < p THEN 0 ELSE p
  OBVIOUS
<1>4a. IF 2 * n <= from THEN position' = from /\ UNCHANGED sessions
       ELSE /\ position' = 2 * n
            /\ sessions' = FoldLeft(ParseJsonLine, sessions, SubSeq(L, (from + 1) \div 2 + 1, n))
  <2>1. ReadFrom(newest, p) = from /\ LastNewline(newest) = 2 * n
    BY <1>1, <1>4 DEF ReadFrom, LastNewline
  <2>2. ReadTranscript(newest, p)
    BY <1>3 DEF TailerTick
  <2> QED
    BY <2>1, <2>2 DEF ReadTranscript
<1>5. CASE active = newest
  <2>1. PICK k \in 0..n : position = 2 * k
    <3>1. active # "none" /\ lines[active] = L
      BY <1>0, <1>5, ClaudeAssumption
    <3> QED
      BY <3>1 DEF ClaudeInv, TailerOK
  <2>2. from = 2 * k
    BY <1>0, <1>1, <1>3, <1>4, <1>5, <2>1
  <2>3. (from + 1) \div 2 + 1 = k + 1
    BY <2>1, <2>2
  <2>4. CASE k = n
    BY <2>1, <2>2, <2>4, <1>0, <1>4a, <1>5
  <2>5. CASE k # n
    <3> DEFINE first == k + 1
    <3>1. first \in 1..n /\ ~(2 * n <= from) /\ position = 2 * (first - 1)
      BY <2>1, <2>2, <2>5, <1>0
    <3>2. position' = 2 * n
          /\ sessions' = FoldLeft(ParseJsonLine, sessions, SubSeq(L, first, n))
      BY <3>1, <2>3, <1>4a
    <3> HIDE DEF first
    <3> QED
      BY <3>1, <3>2, <1>0, <1>5
  <2> QED
    BY <2>4, <2>5
<1>6. CASE active # newest
  <2>0. PICK size \in Nat : size = 2 * n + h /\ size = TranscriptSize(newest)
    <3>1. 2 * n + h \in Nat
      BY <1>0
    <3> QED
      BY <3>1, <1>1
  <2>1. p = IF size > Window THEN size - Window ELSE 0
    BY <1>3, <1>6, <2>0 DEF StartOf
  <2>1a. 2 * n + h > Window => p = 2 * n + h - Window
    BY <1>0, <1>2, <2>0, <2>1
  <2>1b. ~(2 * n + h > Window) => p = 0
    BY <1>0, <1>2, <2>0, <2>1
  <2>2a. StartsWell(p, n, h)
    <3>1. n \in Nat
      BY <1>0
    <3>2. Window \in Nat
      BY <1>2
    <3>3. Window >= 6
      BY <1>2
    <3> QED
      BY <3>1, <3>2, <3>3, <2>1a, <2>1b, FirstOfWindow
  <2>2. /\ p \in Nat /\ ~(2 * n + h < p) /\ (n = 0 => p = 0)
        /\ n # 0 => /\ ~(2 * n <= p)
                   /\ LET fst == (p + 1) \div 2 + 1
                      IN fst \in 1..n /\ (fst = 1 \/ fst <= n - 2 \/ (fst <= n - 1 /\ h = 1))
    BY <2>2a DEF StartsWell
  <2>3. from = p
    BY <2>2, <1>4
  <2>4. CASE n = 0
    BY <2>2, <2>3, <2>4, <1>0, <1>4a
  <2>5. CASE n # 0
    <3> DEFINE first == (from + 1) \div 2 + 1
    <3>1. first \in 1..n /\ (first = 1 \/ first <= n - 2 \/ (first <= n - 1 /\ h = 1))
      BY <2>2, <2>3, <2>5
    <3>2. position' = 2 * n
          /\ sessions' = FoldLeft(ParseJsonLine, sessions, SubSeq(L, first, n))
      BY <2>2, <2>3, <2>5, <1>4a
    <3> HIDE DEF first
    <3> QED
      BY <3>1, <3>2, <1>0, <1>1, <1>6
  <2> QED
    BY <2>4, <2>5
<1> QED
  BY <1>5, <1>6

\* Following depends on the lines alone.
LEMMA SameLines ==
  ASSUME UNCHANGED lines
  PROVE  \A f, ev : /\ LastEvent(f)' = LastEvent(f)
                    /\ Follows(ev, f)' = Follows(ev, f) /\ InTurn(f)' = InTurn(f)
<1>1. \A f : LastEvent(f)' = LastEvent(f)
  BY LastEventIs
<1>2. \A f : InTurn(f)' = InTurn(f)
  BY <1>1 DEF InTurn
<1>3. \A f, ev : Follows(ev, f)' = Follows(ev, f)
  <2> TAKE f, ev
  <2>1. Last(lines[f])' = Last(lines[f])
    OBVIOUS
  <2>2. (\A g \in Transcripts : ~InTurn(g))' = (\A g \in Transcripts : ~InTurn(g))
    BY <1>2
  <2> QED
    BY <1>1, <1>2, <2>1, <2>2, Zenon DEF Follows
<1> QED
  BY <1>1, <1>2, <1>3

\* What is written keeps what is known of turns when nothing is written.
LEMMA TurnsStay ==
  ASSUME TurnsOK, UNCHANGED <<lines, half, writing, newest>>
  PROVE  TurnsOK'
<1>1. UNCHANGED lines
  OBVIOUS
<1>2. (writing # Nothing => Follows(writing.ev, writing.f))'
  <2>1. writing' = writing /\ Nothing' = Nothing
    BY DEF Nothing
  <2>2. Follows(writing.ev, writing.f)' = Follows(writing.ev, writing.f)
    BY <2>1, <1>1, LastEventIs DEF Follows, InTurn
  <2> QED
    BY <2>1, <2>2 DEF TurnsOK
<1>3. \A f : InTurn(f)' = InTurn(f)
  BY <1>1, SameLines
<1> QED
  BY <1>2, <1>3 DEF TurnsOK, Nothing

\* What is known of hooks stays when neither hooks nor lines change.
LEMMA HooksStay ==
  ASSUME HooksOK, UNCHANGED <<lines, writing, newest, hook, posts>>
  PROVE  HooksOK'
<1>1. LastEvent(newest)' = LastEvent(newest)
  BY LastEventIs DEF LastEvent
<1> QED
  BY <1>1 DEF HooksOK, Nothing

\* What InTurn and Follows say of the lines.
LEMMA FollowsWell ==
  ASSUME NEW f \in Transcripts, NEW ev \in EventKinds, Follows(ev, f)
  PROVE  /\ ev = "text" => LastOf(lines[f]) # "stop" /\ Last(lines[f]) # "text"
         /\ ev = "stop" => LastOf(lines[f]) # "stop"
         /\ ev # "prompt" => InTurn(f)
         /\ ev = "prompt" => \A g \in Transcripts : ~InTurn(g)
BY LastEventIs DEF Follows, InTurn, EventKinds

\* The tailer reads the n lines L of the newest file from the line first on,
\* which is where it goes on or far enough before the end.
ReadsLines(L, n, T, first) ==
  L = lines[newest] /\ n = Len(L) /\ T = FoldLeft(ParseJsonLine, sessions, SubSeq(L, first, n))
StartsAt(n, first) ==
  \/ active = newest /\ position = 2 * (first - 1)
  \/ active # newest /\ (first = 1 \/ first <= n - 2 \/ (first <= n - 1 /\ half[newest]))

\* A read that starts after the line the tailer read last, or far enough before
\* the end, leaves the list to say what the last event of the file says, if no
\* event that tells something is being written.
LEMMA TickShows ==
  ASSUME ClaudeInv, newest \in Transcripts, NEW L, NEW n \in Nat, NEW T, NEW first \in 1..n,
         ReadsLines(L, n, T, first), StartsAt(n, first)
  PROVE  /\ T \in Lists(ClaudeIds, "claude")
         /\ L[n] # "stop" => Known(T, DesktopId)
         /\ writing = Nothing /\ L = <<"stop">> => T = <<>>
         /\ writing.ev \in {"none", "text"} /\ ~stray =>
              \/ T # <<>> /\ T[1].status = Told(LastOf(L))
              \/ T = <<>> /\ LastOf(L) = "stop"
<1>0. /\ sessions \in Lists(ClaudeIds, "claude") /\ L \in Seq(EventKinds) /\ WellWritten(L)
      /\ n \in Nat /\ n >= 1 /\ first \in Nat /\ n = Len(L) /\ L = lines[newest]
  <2>1. L = lines[newest] /\ n = Len(L)
    BY DEF ReadsLines
  <2>2. sessions \in Lists(ClaudeIds, "claude") /\ L \in Seq(EventKinds) /\ WellWritten(L)
    BY <2>1 DEF ClaudeInv, ClaudeTypeOK, TurnsOK
  <2>3. n \in Nat
    BY <2>1, <2>2
  <2>4. n >= 1 /\ first \in Nat
    BY <2>3
  <2> QED
    BY <2>1, <2>2, <2>3, <2>4
<1>0a. /\ active # newest => first = 1 \/ first <= n - 2 \/ (first <= n - 1 /\ half[newest])
       /\ active = newest => position = 2 * (first - 1)
  BY DEF StartsAt
<1>0b. n \in Nat /\ n >= 1 /\ first \in Nat /\ first <= n /\ first >= 1 /\ n \in 1..n
  BY <1>0
<1>1. /\ ToldAt(L) \in 1..n /\ LastOf(L) = L[ToldAt(L)]
      /\ L[n] # "text" => ToldAt(L) = n
      /\ L[n] = "text" => ToldAt(L) = n - 1 /\ LastOf(L) # "stop"
  <2>1. L # <<>>
    BY <1>0
  <2> QED
    BY <1>0, <2>1, LastTold
<1>1a. PICK t \in 1..n : t = ToldAt(L)
  BY <1>1
<1>1b. t \in Nat /\ (t < first \/ t >= first)
  BY <1>1a, <1>0b
<1>2. \A i \in 1..n : /\ L[i] = "text" => i > 1 /\ L[i - 1] \notin {"text", "stop"}
                      /\ L[i] = "stop" /\ i > 1 => L[i - 1] # "stop"
  <2>1. DOMAIN L = 1..n
    BY <1>0
  <2> QED
    BY <1>0, <2>1 DEF WellWritten
<1>3. /\ T \in Lists(ClaudeIds, "claude")
      /\ Known(sessions, DesktopId) => Known(T, DesktopId)
      /\ L[n] # "stop" /\ (first < n \/ L[n] # "text") => Known(T, DesktopId)
      /\ LastOf(L) # "stop" /\ ToldAt(L) >= first => T # <<>> /\ T[1].status = Told(LastOf(L))
      /\ LastOf(L) = "stop"
           /\ (Known(sessions, DesktopId) \/ first <= n - 2 \/ (first = n - 1 /\ L[first] # "text")) =>
           T # <<>> /\ T[1].status = Told(LastOf(L))
      /\ L = <<"stop">> /\ sessions = <<>> => T = <<>>
      /\ ToldAt(L) < first => T = sessions
  <2>1. T = FoldLeft(ParseJsonLine, sessions, SubSeq(L, first, n))
    BY DEF ReadsLines
  <2> QED
    <3>1. n \in Nat /\ n = Len(L) /\ sessions \in Lists(ClaudeIds, "claude")
          /\ L \in Seq(EventKinds) /\ WellWritten(L)
      BY <1>0
    <3>2. ReadGives(FoldLeft(ParseJsonLine, sessions, SubSeq(L, first, n)), sessions, L, n, first)
      BY <3>1, ReadFromLine
    <3>3. ReadGives(T, sessions, L, n, first)
      BY <2>1, <3>2
    <3> QED
      BY <3>3 DEF ReadGives
\* What the tailer knows when it reads on.
<1>4. active = newest /\ first > 1 /\ L[first - 1] # "stop" => Known(sessions, DesktopId)
  <2> SUFFICES ASSUME active = newest, first > 1, L[first - 1] # "stop"
               PROVE  Known(sessions, DesktopId)
    OBVIOUS
  <2>1. active # "none" /\ lines[active] = L /\ position = 2 * (first - 1)
    BY <1>0, <1>0a, ClaudeAssumption
  <2>2. PICK k \in 0..n : position = 2 * k /\ (k > 0 /\ L[k] # "stop" => Known(sessions, DesktopId))
    BY <1>0, <2>1 DEF ClaudeInv, TailerOK
  <2>3. k = first - 1
    BY <2>1, <2>2, <1>0b
  <2> QED
    BY <2>2, <2>3, <1>0b
<1>5. L[n] # "stop" => Known(T, DesktopId)
  <2>1. CASE first < n \/ L[n] # "text"
    BY <2>1, <1>3
  <2>2. CASE ~(first < n) /\ L[n] = "text"
    <3>1. first = n /\ first > 1 /\ L[first - 1] # "stop" /\ n \in 1..n
      BY <2>2, <1>0, <1>2
    <3>2. active = newest
      BY <3>1, <1>0a, <1>0b
    <3> QED
      BY <3>1, <3>2, <1>3, <1>4
  <2> QED
    BY <2>1, <2>2
<1>6. writing = Nothing /\ L = <<"stop">> => sessions = <<>>
  <2>1. newest # "none"
    BY ClaudeAssumption
  <2> QED
    BY <2>1, <1>0 DEF ClaudeInv, TailerOK
<1>6a. writing # Nothing => writing.ev # "none" /\ (writing.ev = "text" => InTurn(writing.f) /\ writing.f = newest)
  <2> SUFFICES ASSUME writing # Nothing
               PROVE  writing.ev # "none" /\ (writing.ev = "text" => InTurn(writing.f) /\ writing.f = newest)
    OBVIOUS
  <2>1. writing.f \in Transcripts /\ writing.ev \in EventKinds /\ Follows(writing.ev, writing.f)
    BY DEF ClaudeInv, ClaudeTypeOK, TurnsOK
  <2>2. writing.ev # "prompt" => InTurn(writing.f)
    BY <2>1, FollowsWell
  <2>3. writing.ev # "none"
    BY <2>1 DEF EventKinds
  <2>4. InTurn(writing.f) => writing.f = newest
    BY <2>1 DEF ClaudeInv, TurnsOK
  <2> QED
    BY <2>2, <2>3, <2>4
<1>7. ASSUME writing.ev \in {"none", "text"}, ~stray
      PROVE  \/ T # <<>> /\ T[1].status = Told(LastOf(L))
             \/ T = <<>> /\ LastOf(L) = "stop"
  <2>1. CASE ToldAt(L) < first
    <3>0. t < first
      BY <2>1, <1>1a
    <3>1. L[n] = "text" /\ first = n /\ ToldAt(L) = n - 1
      BY <3>0, <1>1, <1>1a, <1>0b
    <3>2. active = newest /\ position = 2 * (n - 1)
      <4>1. n # 1
        BY <3>1, <1>0b, <1>2
      <4> QED
        BY <3>1, <4>1, <1>0a, <1>0b
    <3>3. position >= 2 * ToldAt(lines[newest])
      BY <3>1, <3>2, <1>0
    <3>4. newest # "none"
      BY ClaudeAssumption
    <3>5. Shown
      BY <1>7, <3>2, <3>3, <3>4 DEF ClaudeInv, ShownOK
    <3>6. T = sessions
      BY <2>1, <1>3
    <3> QED
      BY <3>5, <3>6, <1>0, LastEventIs DEF Shown
  <2>2. CASE ToldAt(L) >= first /\ LastOf(L) # "stop"
    BY <2>2, <1>3
  <2>3. CASE ToldAt(L) >= first /\ LastOf(L) = "stop"
    <3>1. L[n] = "stop" /\ n \in 1..n
      BY <2>3, <1>1, <1>0b
    <3>2. writing = Nothing
      <4>1. ~InTurn(newest)
        BY <2>3, <1>0, LastEventIs DEF InTurn
      <4> QED
        BY <4>1, <1>6a, <1>7
    <3>3. ~half[newest]
      BY <3>2 DEF ClaudeInv, TurnsOK
    <3>4. CASE n = 1
      <4>1. L = <<"stop">>
        BY <3>1, <3>4, <1>0
      <4>2. sessions = <<>> /\ T = <<>>
        BY <4>1, <3>2, <1>3, <1>6
      <4> QED
        BY <4>2, <2>3
    <3>5. CASE n # 1
      <4>0. n > 1 /\ n - 1 \in 1..n /\ L[n - 1] # "stop"
        BY <3>1, <3>5, <1>0b, <1>2
      <4>1. SUFFICES Known(sessions, DesktopId) \/ first <= n - 2 \/ (first = n - 1 /\ L[first] # "text")
        BY <2>3, <1>3
      <4>2. CASE first = n
        <5>1. active = newest
          BY <4>0, <4>2, <3>3, <1>0a, <1>0b
        <5> QED
          BY <5>1, <4>0, <4>2, <1>4
      <4>3. CASE first = n - 1 /\ L[first] = "text"
        <5>1. first > 1 /\ L[first - 1] # "stop"
          BY <4>3, <1>2
        <5>2. active = newest
          BY <5>1, <4>3, <3>3, <1>0a, <1>0b
        <5> QED
          BY <5>1, <5>2, <1>4
      <4>4. CASE first # n /\ first # n - 1
        BY <4>4, <1>0b
      <4> QED
        BY <4>2, <4>3, <4>4
    <3> QED
      BY <3>4, <3>5
  <2>4. ToldAt(L) < first \/ ToldAt(L) >= first
    BY <1>1a, <1>1b
  <2> QED
    BY <2>1, <2>2, <2>3, <2>4
<1>8. writing = Nothing /\ L = <<"stop">> => T = <<>>
  BY <1>3, <1>6
<1> QED
  BY <1>3, <1>5, <1>7, <1>8

\* A tick of the tailer keeps the invariant (claude-desktop-tailer.ts).
LEMMA TickKeeps ==
  ASSUME ClaudeInv, TailerTick
  PROVE  ClaudeInv'
<1>0. /\ newest # "none" /\ UNCHANGED <<lines, half, writing, newest, hook, posts, stray>>
  BY DEF TailerTick
<1>1. PICK L, n : L = lines[newest] /\ n = Len(L)
  OBVIOUS
<1>2. /\ newest \in Transcripts /\ L \in Seq(EventKinds) /\ n \in Nat /\ active' = newest
      /\ \/ sessions' = sessions /\ position' = position /\ active = newest
         \/ sessions' = sessions /\ position' = 0 /\ n = 0
         \/ \E first \in 1..n :
              /\ sessions' = FoldLeft(ParseJsonLine, sessions, SubSeq(L, first, n))
              /\ position' = 2 * n
              /\ \/ active = newest /\ position = 2 * (first - 1)
                 \/ active # newest /\ (first = 1 \/ first <= n - 2 \/ (first <= n - 1 /\ half[newest]))
  BY <1>1, TickReads
<1>3. TurnsOK' /\ HooksOK'
  BY <1>0, TurnsStay, HooksStay DEF ClaudeInv
<1>4. LastEvent(newest)' = LastOf(L) /\ LastEvent(newest) = LastOf(L)
  BY <1>0, <1>1, LastEventIs DEF LastEvent, LastOf
<1>5. Nothing' = Nothing
  BY DEF Nothing
<1>6. CASE sessions' = sessions /\ position' = position /\ active = newest
  <2>1. active' = active
    BY <1>2, <1>6
  <2>2. ClaudeTypeOK'
    BY <2>1, <1>0, <1>6, <1>5 DEF ClaudeInv, ClaudeTypeOK
  <2>3. TailerOK'
    BY <2>1, <1>0, <1>6, <1>5 DEF ClaudeInv, TailerOK
  <2>4. ShownOK'
    BY <2>1, <1>0, <1>4, <1>6 DEF ClaudeInv, ShownOK, Shown
  <2> QED
    BY <2>2, <2>3, <2>4, <1>3 DEF ClaudeInv
<1>7. CASE sessions' = sessions /\ position' = 0 /\ n = 0
  <2>0. L = <<>>
    <3>1. L \in Seq(EventKinds) /\ Len(L) = 0
      BY <1>1, <1>2, <1>7
    <3> QED
      BY <3>1, EmptySeq
  <2>1. ClaudeTypeOK'
    BY <1>0, <1>2, <1>5, <1>7 DEF ClaudeInv, ClaudeTypeOK
  <2>2. writing # Nothing
    BY <2>0, <1>0, <1>1 DEF ClaudeInv, TurnsOK
  <2>3. TailerOK'
    <3>1. position' = 2 * 0 /\ 0 \in 0..Len(lines'[active'])
      BY <1>0, <1>1, <1>2, <1>7
    <3>2. writing' # Nothing'
      BY <2>2, <1>0, <1>5
    <3> QED
      BY <3>1, <3>2 DEF TailerOK
  <2>4. writing.ev \notin {"none", "text"}
    <3>1. writing.f \in Transcripts /\ writing.ev \in EventKinds /\ Follows(writing.ev, writing.f)
      BY <2>2 DEF ClaudeInv, ClaudeTypeOK, TurnsOK
    <3>2. writing.ev = "text" => InTurn(writing.f)
      BY <3>1, FollowsWell
    <3>3. InTurn(writing.f) => writing.f = newest
      BY <3>1 DEF ClaudeInv, TurnsOK
    <3>4. LastOf(L) = "stop"
      BY <2>0, <1>1, <1>2, LastTold DEF ClaudeInv, TurnsOK
    <3>5. ~InTurn(newest)
      BY <3>4, <1>4 DEF InTurn
    <3> QED
      BY <3>1, <3>2, <3>3, <3>5 DEF EventKinds
  <2>5. ShownOK'
    BY <2>4, <1>0 DEF ShownOK
  <2> QED
    BY <2>1, <2>3, <2>5, <1>3 DEF ClaudeInv
<1>8. ASSUME NEW first \in 1..n,
             sessions' = FoldLeft(ParseJsonLine, sessions, SubSeq(L, first, n)),
             position' = 2 * n,
             \/ active = newest /\ position = 2 * (first - 1)
             \/ active # newest /\ (first = 1 \/ first <= n - 2 \/ (first <= n - 1 /\ half[newest]))
      PROVE  ClaudeInv'
  <2>0. StartsAt(n, first) /\ ReadsLines(L, n, sessions', first)
    BY <1>1, <1>8 DEF StartsAt, ReadsLines
  <2>1. PICK T : T = sessions'
    OBVIOUS
  <2>1a. ReadsLines(L, n, T, first)
    BY <2>0, <2>1
  <2>2. /\ T \in Lists(ClaudeIds, "claude")
        /\ L[n] # "stop" => Known(T, DesktopId)
        /\ writing = Nothing /\ L = <<"stop">> => T = <<>>
        /\ writing.ev \in {"none", "text"} /\ ~stray =>
              \/ T # <<>> /\ T[1].status = Told(LastOf(L))
              \/ T = <<>> /\ LastOf(L) = "stop"
    BY <1>2, <2>0, <2>1a, TickShows
  <2>3. ClaudeTypeOK'
    BY <2>1, <2>2, <1>0, <1>2, <1>5, <1>8 DEF ClaudeInv, ClaudeTypeOK
  <2>4. TailerOK'
    <3>1. n \in 0..Len(lines'[active']) /\ lines'[active'] = L /\ lines'[newest'] = L
      BY <1>0, <1>1, <1>2
    <3>2. writing = Nothing /\ L = <<"stop">> => posts = <<>>
      BY <1>0, <1>1 DEF ClaudeInv, TailerOK
    <3>3. writing' = Nothing' /\ L = <<"stop">> => sessions' = <<>> /\ posts' = <<>>
      BY <3>2, <2>1, <2>2, <1>0, <1>5
    <3>4. position' = 2 * n /\ (n > 0 /\ L[n] # "stop" => Known(sessions', DesktopId))
      BY <2>1, <2>2, <1>8
    <3> QED
      BY <3>1, <3>3, <3>4 DEF TailerOK
  <2>5. ShownOK'
    BY <2>1, <2>2, <1>0, <1>4 DEF ShownOK, Shown
  <2> QED
    BY <2>3, <2>4, <2>5, <1>3 DEF ClaudeInv
<1> QED
  BY <1>2, <1>6, <1>7, <1>8

(***************************************************************************)
(* Claude: each step                                                       *)
(***************************************************************************)
\* What is written follows, and is of the newest file if a turn is on.
LEMMA WritingIs ==
  ASSUME ClaudeTypeOK, TurnsOK, writing # Nothing
  PROVE  /\ writing.f \in Transcripts /\ writing.ev \in EventKinds
         /\ writing.ev # "none" /\ Follows(writing.ev, writing.f)
         /\ writing.ev = "text" => writing.f = newest
         /\ \A g \in Transcripts : InTurn(g) => g = writing.f
<1>1. writing.f \in Transcripts /\ writing.ev \in EventKinds /\ Follows(writing.ev, writing.f)
  BY DEF ClaudeTypeOK, TurnsOK
<1>2. writing.ev # "none"
  BY <1>1 DEF EventKinds
<1>3. writing.ev # "prompt" => InTurn(writing.f)
  BY <1>1, FollowsWell
<1>4. writing.ev = "prompt" => \A g \in Transcripts : ~InTurn(g)
  BY <1>1, FollowsWell
<1>5. \A g \in Transcripts : InTurn(g) => g = newest
  BY DEF TurnsOK
<1> QED
  BY <1>1, <1>2, <1>3, <1>4, <1>5

\* A new event of Claude, with its hook, keeps it.
LEMMA ActKeeps ==
  ASSUME ClaudeInv, NEW f \in Transcripts, NEW ev \in EventKinds, Act(f, ev)
  PROVE  ClaudeInv'
<1> DEFINE post == [f |-> f, ev |-> ev, waited |-> TRUE]
<1>1. /\ writing = Nothing /\ ~hook /\ Follows(ev, f) /\ writing' = [f |-> f, ev |-> ev]
      /\ UNCHANGED <<sessions, lines, half, newest, active, position>>
      /\ stray' = (stray /\ ev = "text")
  BY DEF Act
<1>2. \/ ev = "text" /\ UNCHANGED <<hook, posts>>
      \/ ev # "text" /\ hook' = TRUE /\ posts' = Append(posts, post)
  BY DEF Act
<1>3. writing' # Nothing /\ writing'.f = f /\ writing'.ev = ev /\ writing'.ev # "none"
  BY <1>1 DEF Nothing, EventKinds
<1>4. Nothing' = Nothing
  BY DEF Nothing
<1>5. ClaudeTypeOK'
  <2>1. posts \in Seq([f : Transcripts, ev : Hooked, waited : BOOLEAN])
    BY DEF ClaudeInv, ClaudeTypeOK
  <2>2. posts' \in Seq([f : Transcripts, ev : Hooked, waited : BOOLEAN])
    <3>1. CASE ev = "text"
      BY <3>1, <1>2, <2>1
    <3>2. CASE ev # "text"
      <4> DEFINE R == [f : Transcripts, ev : Hooked, waited : BOOLEAN]
      <4>1. post \in R
        BY <3>2 DEF Hooked
      <4>2. posts \in Seq(R) /\ posts' = Append(posts, post)
        BY <3>2, <1>2, <2>1
      <4> HIDE DEF post, R
      <4>3. posts' \in Seq(R)
        BY <4>1, <4>2
      <4> QED
        BY <4>3 DEF R
    <3> QED
      BY <3>1, <3>2
  <2>3. hook' \in BOOLEAN /\ stray' \in BOOLEAN
    BY <1>1, <1>2 DEF ClaudeInv, ClaudeTypeOK
  <2>4. writing' \in [f : Transcripts, ev : EventKinds]
    BY <1>1
  <2> QED
    BY <1>1, <1>4, <2>2, <2>3, <2>4 DEF ClaudeInv, ClaudeTypeOK
<1>6. TurnsOK'
  <2>1. \A g, x : LastEvent(g)' = LastEvent(g) /\ Follows(x, g)' = Follows(x, g) /\ InTurn(g)' = InTurn(g)
    BY <1>1, SameLines
  <2>2. (writing # Nothing => Follows(writing.ev, writing.f))'
    <3>1. Follows(ev, f)'
      BY <1>1, <2>1
    <3> QED
      BY <3>1, <1>3, LastEventIs DEF Follows, InTurn
  <2>3. \A g \in Transcripts : ~half[g]
    BY <1>1 DEF ClaudeInv, TurnsOK
  <2>4. \A g \in Transcripts : ~half'[g]
    BY <1>1, <2>3
  <2> QED
    BY <1>1, <1>3, <1>4, <2>1, <2>2, <2>4 DEF ClaudeInv, TurnsOK
<1>7. HooksOK'
  <2>1. \A i \in DOMAIN posts : ~posts[i].waited
    BY <1>1 DEF ClaudeInv, HooksOK
  <2>2. posts \in Seq([f : Transcripts, ev : Hooked, waited : BOOLEAN])
    BY DEF ClaudeInv, ClaudeTypeOK
  <2>3. CASE ev = "text"
    BY <1>1, <1>2, <2>1, <2>3 DEF HooksOK
  <2>4. CASE ev # "text"
    <3>1. posts' # <<>> /\ DOMAIN posts' = 1..Len(posts') /\ Len(posts') = Len(posts) + 1
          /\ posts'[Len(posts')] = post /\ \A i \in DOMAIN posts' : i # Len(posts') => posts'[i] = posts[i] /\ i \in DOMAIN posts
      <4> HIDE DEF post
      <4> QED
        BY <1>2, <2>2, <2>4
    <3>2. post.waited /\ post.ev = ev
      OBVIOUS
    <3> HIDE DEF post
    <3>3. \A i \in DOMAIN posts' : posts'[i].waited => i = Len(posts') /\ posts'[i].ev = ev
      BY <2>1, <3>1, <3>2
    <3>4. hook'
      BY <1>2, <2>4
    <3> QED
      BY <1>3, <1>4, <3>1, <3>2, <3>3, <3>4 DEF HooksOK
  <2> QED
    BY <2>3, <2>4
<1>8. TailerOK'
  <2>1. active # "none" =>
       \E k \in 0..Len(lines[active]) :
         /\ position = 2 * k
         /\ k > 0 /\ lines[active][k] # "stop" => Known(sessions, DesktopId)
    BY DEF ClaudeInv, TailerOK
  <2> QED
    BY <1>1, <1>3, <1>4, <2>1 DEF TailerOK
<1>9. ShownOK'
  <2>1. LastEvent(newest)' = LastEvent(newest)
    BY <1>1, LastEventIs DEF LastEvent
  <2>2. Shown' = Shown
    BY <1>1, <2>1 DEF Shown
  <2>3. writing.ev = "none"
    BY <1>1 DEF Nothing
  <2> QED
    BY <1>1, <1>3, <2>2, <2>3 DEF ClaudeInv, ShownOK
<1> QED
  BY <1>5, <1>6, <1>7, <1>8, <1>9 DEF ClaudeInv

\* Half a line in a transcript keeps it.
LEMMA WriteHalfKeeps ==
  ASSUME ClaudeInv, WriteHalf
  PROVE  ClaudeInv'
<1>1. /\ writing # Nothing /\ ~half[writing.f]
      /\ half' = [half EXCEPT ![writing.f] = TRUE] /\ newest' = writing.f
      /\ UNCHANGED <<sessions, lines, writing, hook, posts, active, position, stray>>
  BY DEF WriteHalf
<1>2. /\ writing.f \in Transcripts /\ writing.ev \in EventKinds
      /\ writing.ev # "none" /\ Follows(writing.ev, writing.f)
      /\ writing.ev = "text" => writing.f = newest
      /\ \A g \in Transcripts : InTurn(g) => g = writing.f
  BY <1>1, WritingIs DEF ClaudeInv
<1>3. Nothing' = Nothing
  BY DEF Nothing
<1>4. \A g, x : LastEvent(g)' = LastEvent(g) /\ Follows(x, g)' = Follows(x, g) /\ InTurn(g)' = InTurn(g)
  BY <1>1, SameLines
<1>5. ClaudeTypeOK'
  BY <1>1, <1>2, <1>3 DEF ClaudeInv, ClaudeTypeOK
<1>6. TurnsOK'
  <2>1. (writing # Nothing => Follows(writing.ev, writing.f))'
    BY <1>1, <1>2, LastEventIs DEF Follows, InTurn
  <2>2. \A g \in Transcripts : half'[g] => g = writing.f
    BY <1>1 DEF ClaudeInv, TurnsOK, ClaudeTypeOK
  <2>3. \A g \in Transcripts : WellWritten(lines'[g])
    BY <1>1 DEF ClaudeInv, TurnsOK
  <2>4. \A g \in Transcripts : InTurn(g)' => g = newest'
    BY <1>1, <1>2, <1>4
  <2> QED
    BY <1>1, <1>3, <2>1, <2>2, <2>3, <2>4 DEF TurnsOK
<1>7. HooksOK'
  BY <1>1, <1>3 DEF ClaudeInv, HooksOK
<1>8. TailerOK'
  <2>1. active # "none" =>
       \E k \in 0..Len(lines[active]) :
         /\ position = 2 * k
         /\ k > 0 /\ lines[active][k] # "stop" => Known(sessions, DesktopId)
    BY DEF ClaudeInv, TailerOK
  <2> QED
    BY <1>1, <1>3, <2>1 DEF TailerOK
<1>9. ShownOK'
  <2>1. CASE writing.ev = "text"
    <3>1. newest' = newest
      BY <1>1, <1>2, <2>1
    <3>2. Shown' = Shown
      <4>1. LastEvent(newest)' = LastEvent(newest)
        BY <1>1, <3>1, LastEventIs DEF LastEvent
      <4> QED
        BY <1>1, <4>1 DEF Shown
    <3> QED
      BY <1>1, <3>1, <3>2 DEF ClaudeInv, ShownOK
  <2>2. CASE writing.ev # "text"
    BY <1>1, <1>2, <2>2 DEF ShownOK
  <2> QED
    BY <2>1, <2>2
<1> QED
  BY <1>5, <1>6, <1>7, <1>8, <1>9 DEF ClaudeInv

\* The sequence t is s, of n elements, without the i-th.
WithoutOne(t, R, s, n, i) ==
  /\ t \in Seq(R) /\ Len(t) = n - 1
  /\ \A j \in 1..(n - 1) : t[j] = IF j < i THEN s[j] ELSE s[j + 1]

\* RemoveAt takes one element out.
LEMMA RemovedAt ==
  ASSUME NEW R, NEW s \in Seq(R), NEW n \in Nat, n = Len(s), NEW i \in 1..n
  PROVE  WithoutOne(RemoveAt(s, i), R, s, n, i)
<1> DEFINE A == SubSeq(s, 1, i - 1)
           B == SubSeq(s, i + 1, n)
<1>1. A \in Seq(R) /\ Len(A) = i - 1 /\ \A j \in 1..(i - 1) : A[j] = s[j]
  OBVIOUS
<1>2. B \in Seq(R) /\ Len(B) = n - i /\ \A j \in 1..(n - i) : B[j] = s[i + j]
  OBVIOUS
<1>3. RemoveAt(s, i) = A \o B
  BY DEF RemoveAt
<1> HIDE DEF A, B
<1>4. A \o B \in Seq(R) /\ Len(A \o B) = (i - 1) + (n - i)
      /\ \A j \in 1..(i - 1 + (n - i)) : (A \o B)[j] = IF j <= i - 1 THEN A[j] ELSE B[j - (i - 1)]
  <2>1. A \in Seq(R) /\ B \in Seq(R)
    BY <1>1, <1>2
  <2>2. /\ A \o B \in Seq(R) /\ Len(A \o B) = Len(A) + Len(B)
        /\ \A j \in 1..(Len(A) + Len(B)) :
             (A \o B)[j] = IF j <= Len(A) THEN A[j] ELSE B[j - Len(A)]
    BY <2>1, ConcatProperties
  <2> QED
    BY <2>2, <1>1, <1>2
<1>5. \A j \in 1..(n - 1) : (A \o B)[j] = IF j < i THEN s[j] ELSE s[j + 1]
  <2> TAKE j \in 1..(n - 1)
  <2>1. j \in 1..(i - 1 + (n - i))
    OBVIOUS
  <2>2. CASE j < i
    <3>1. j <= i - 1 /\ j \in 1..(i - 1)
      BY <2>2
    <3> QED
      BY <3>1, <2>1, <2>2, <1>1, <1>4
  <2>3. CASE ~(j < i)
    <3>1. ~(j <= i - 1) /\ j - (i - 1) \in 1..(n - i) /\ i + (j - (i - 1)) = j + 1
      BY <2>3
    <3> QED
      BY <3>1, <2>1, <2>3, <1>2, <1>4
  <2> QED
    BY <2>2, <2>3
<1>6. (A \o B) \in Seq(R) /\ Len(A \o B) = n - 1
  <2>1. (i - 1) + (n - i) = n - 1
    OBVIOUS
  <2>2. (A \o B) \in Seq(R)
    BY <1>4
  <2>3. Len(A \o B) = (i - 1) + (n - i)
    BY <1>4
  <2> QED
    BY <2>1, <2>2, <2>3
<1>7. WithoutOne(A \o B, R, s, n, i)
  BY <1>5, <1>6 DEF WithoutOne
<1> QED
  BY <1>3, <1>7

\* A post that is handled leaves the list as it is or puts its session first.
LEMMA PostHandled ==
  ASSUME NEW S \in Lists(ClaudeIds, "claude"), NEW f \in Transcripts, NEW ev \in Hooked
  PROVE  LET T == HandleClaudeEvent(S, f, ev) IN
         /\ T \in Lists(ClaudeIds, "claude")
         /\ \/ T = S /\ ev = "stop"
            \/ Leads(T, S, [id |-> f, agent |-> "claude", status |-> Told(ev)])
<1>0. f \in ClaudeIds /\ {"thinking", "running_tool", "completed"} \subseteq Statuses
  BY DEF ClaudeIds, Statuses
<1>1. CASE ev = "stop"
  <2>1. HandleClaudeEvent(S, f, ev) = EndSession(S, f, "completed") /\ Told(ev) = "completed"
    BY <1>1 DEF HandleClaudeEvent, Told
  <2> QED
    BY <2>1, <1>1, <1>0, EndedIsFirst
<1>2. CASE ev # "stop"
  <2>1. HandleClaudeEvent(S, f, ev) = UpdateSession(S, f, "claude", Told(ev))
    BY <1>2 DEF HandleClaudeEvent, Told
  <2>2. Told(ev) \in Statuses
    BY <1>0, <1>2 DEF Told, HookStatus, Hooked, EventKinds
  <2>3. PICK st \in Statuses : st = Told(ev)
    BY <2>2
  <2> QED
    BY <2>1, <2>3, <1>0, UpdatedIsFirst
<1> QED
  BY <1>1, <1>2

\* The waited post, if it is not the one of a line that tells nothing, is of
\* the last event of the newest file.
LEMMA WaitedIs ==
  ASSUME ClaudeInv, NEW i \in DOMAIN posts, posts[i].waited
  PROVE  /\ i = Len(posts) /\ hook
         /\ writing.ev \in {"none", "text"} => writing = Nothing /\ posts[i].ev = LastEvent(newest)
<1>1. posts[i].ev \in Hooked
  <2> DEFINE R == [f : Transcripts, ev : Hooked, waited : BOOLEAN]
  <2>1. posts \in Seq(R)
    BY DEF ClaudeInv, ClaudeTypeOK
  <2> HIDE DEF R
  <2>2. posts[i] \in R
    BY <2>1
  <2> QED
    BY <2>2 DEF R
<1>2. /\ i = Len(posts) /\ hook
      /\ IF writing = Nothing THEN newest # "none" /\ posts[i].ev = LastEvent(newest)
         ELSE posts[i].ev = writing.ev
  BY DEF ClaudeInv, HooksOK
<1>3. writing # Nothing => writing.ev # "none"
  BY WritingIs DEF ClaudeInv
<1> QED
  BY <1>1, <1>2, <1>3 DEF Hooked, EventKinds

\* The status server, which takes a post, keeps it (claude-hook-server.ts).
LEMMA HookServerKeeps ==
  ASSUME ClaudeInv, NEW i \in 1..Len(posts), HookServer(i)
  PROVE  ClaudeInv'
<1> DEFINE R == [f : Transcripts, ev : Hooked, waited : BOOLEAN]
<1>0. PICK n \in Nat : n = Len(posts) /\ posts \in Seq(R) /\ DOMAIN posts = 1..n /\ i \in 1..n
  BY DEF ClaudeInv, ClaudeTypeOK
<1>1. /\ posts' = RemoveAt(posts, i)
      /\ stray' = (stray \/ ~posts[i].waited)
      /\ hook' = (hook /\ ~posts[i].waited)
      /\ UNCHANGED <<lines, half, writing, newest, active, position>>
  BY DEF HookServer
<1>2. \/ sessions' = HandleClaudeEvent(sessions, posts[i].f, posts[i].ev)
      \/ sessions' = sessions
  BY DEF HookServer
<1>3. posts[i] \in R
  <2> HIDE DEF R
  <2> QED
    BY <1>0
<1>4. posts[i].f \in Transcripts /\ posts[i].ev \in Hooked /\ posts[i].waited \in BOOLEAN
  BY <1>3
<1>5. sessions \in Lists(ClaudeIds, "claude")
  BY DEF ClaudeInv, ClaudeTypeOK
<1>6. PICK e : /\ sessions' \in Lists(ClaudeIds, "claude")
               /\ e.status = Told(posts[i].ev)
               /\ sessions' = sessions \/ Leads(sessions', sessions, e)
  <2> DEFINE d == [id |-> posts[i].f, agent |-> "claude", status |-> Told(posts[i].ev)]
  <2>1. d.status = Told(posts[i].ev)
    OBVIOUS
  <2>2. /\ sessions' \in Lists(ClaudeIds, "claude")
        /\ sessions' = sessions \/ Leads(sessions', sessions, d)
    BY <1>2, <1>4, <1>5, PostHandled
  <2> HIDE DEF d
  <2> QED
    BY <2>1, <2>2
<1> HIDE DEF R
<1>7. /\ posts' \in Seq(R) /\ Len(posts') = n - 1 /\ DOMAIN posts' = 1..(n - 1)
      /\ \A j \in 1..(n - 1) : posts'[j] = IF j < i THEN posts[j] ELSE posts[j + 1]
  <2>1. posts' \in Seq(R) /\ Len(posts') = n - 1
        /\ \A j \in 1..(n - 1) : posts'[j] = IF j < i THEN posts[j] ELSE posts[j + 1]
    <3>1. PICK Q \in Seq(R) : Q = posts
      BY <1>0
    <3>2. WithoutOne(RemoveAt(Q, i), R, Q, n, i)
      <4>1. n \in Nat /\ n = Len(Q) /\ i \in 1..n
        BY <3>1, <1>0
      <4> QED
        BY <4>1, RemovedAt
    <3> QED
      BY <3>1, <3>2, <1>1 DEF WithoutOne
  <2> QED
    BY <2>1
<1>8. Nothing' = Nothing
  BY DEF Nothing
<1>9. ClaudeTypeOK'
  <2>1. hook' \in BOOLEAN /\ stray' \in BOOLEAN
    BY <1>1, <1>4 DEF ClaudeInv, ClaudeTypeOK
  <2> QED
    BY <1>1, <1>6, <1>7, <1>8, <2>1 DEF ClaudeInv, ClaudeTypeOK, R
<1>10. TurnsOK'
  BY <1>1, TurnsStay DEF ClaudeInv
<1>11. HooksOK'
  <2>0. LastEvent(newest)' = LastEvent(newest)
    BY <1>1, LastEventIs DEF LastEvent
  <2>1. \A j \in 1..n : posts[j].waited =>
          /\ j = n /\ hook
          /\ IF writing = Nothing THEN newest # "none" /\ posts[j].ev = LastEvent(newest)
             ELSE posts[j].ev = writing.ev
    BY <1>0 DEF ClaudeInv, HooksOK
  <2>2. hook => n # 0 /\ posts[n].waited
    BY <1>0 DEF ClaudeInv, HooksOK
  <2>3. CASE posts[i].waited
    <3>1. i = n /\ ~hook'
      BY <2>1, <2>3, <1>0, <1>1
    <3>2. \A j \in 1..(n - 1) : posts'[j] = posts[j] /\ j \in 1..n /\ j # n
      BY <3>1, <1>0, <1>7
    <3>3. \A j \in DOMAIN posts' : ~posts'[j].waited
      BY <3>2, <2>1, <1>7
    <3> QED
      BY <3>1, <3>3 DEF HooksOK
  <2>4. CASE ~posts[i].waited
    <3>1. hook' = hook
      BY <2>4, <1>1 DEF ClaudeInv, ClaudeTypeOK
    <3>2. hook => n > 1 /\ posts'[n - 1] = posts[n]
      <4> SUFFICES ASSUME hook
                   PROVE  n > 1 /\ posts'[n - 1] = posts[n]
        OBVIOUS
      <4>1. i # n
        BY <2>2, <2>4
      <4>2. n > 1 /\ n - 1 \in 1..(n - 1) /\ ~(n - 1 < i) /\ n - 1 + 1 = n
        BY <4>1, <1>0
      <4> QED
        BY <4>2, <1>7
    <3>3. \A j \in 1..(n - 1) : posts'[j].waited => j = n - 1 /\ hook
             /\ IF writing = Nothing THEN newest # "none" /\ posts'[j].ev = LastEvent(newest)
                ELSE posts'[j].ev = writing.ev
      <4> SUFFICES ASSUME NEW j \in 1..(n - 1), posts'[j].waited
                   PROVE  j = n - 1 /\ hook
             /\ IF writing = Nothing THEN newest # "none" /\ posts'[j].ev = LastEvent(newest)
                ELSE posts'[j].ev = writing.ev
        OBVIOUS
      <4>1. CASE j < i
        <5>1. posts'[j] = posts[j] /\ j \in 1..n /\ j # n
          BY <4>1, <1>0, <1>7
        <5> QED
          BY <5>1, <2>1
      <4>2. CASE ~(j < i)
        <5>1. posts'[j] = posts[j + 1] /\ j + 1 \in 1..n
          BY <4>2, <1>0, <1>7
        <5>2. j + 1 = n => j = n - 1
          BY <1>0
        <5> QED
          BY <5>1, <5>2, <2>1
      <4> QED
        BY <4>1, <4>2
    <3>4. hook' => posts' # <<>> /\ posts'[Len(posts')].waited
      BY <3>1, <3>2, <2>2, <1>0, <1>7
    <3> QED
      BY <3>1, <3>3, <3>4, <2>0, <1>1, <1>7, <1>8 DEF HooksOK
  <2> QED
    BY <2>3, <2>4
<1>12. Known(sessions, DesktopId) => Known(sessions', DesktopId)
  BY <1>6, LeaderIsKnown
<1>13. posts # <<>>
  BY <1>0
<1>14. TailerOK'
  <2>1. active # "none" =>
       \E k \in 0..Len(lines[active]) :
         /\ position = 2 * k
         /\ k > 0 /\ lines[active][k] # "stop" => Known(sessions, DesktopId)
    BY DEF ClaudeInv, TailerOK
  <2>2. ~(newest # "none" /\ writing = Nothing /\ lines[newest] = <<"stop">>)
    BY <1>13 DEF ClaudeInv, TailerOK
  <2> QED
    BY <1>1, <1>8, <1>12, <2>1, <2>2 DEF TailerOK
<1>15. ShownOK'
  <2> SUFFICES ASSUME newest # "none", active = newest, writing.ev \in {"none", "text"},
                      ~stray, posts[i].waited, position >= 2 * ToldAt(lines[newest])
               PROVE  Shown'
    BY <1>1 DEF ShownOK
  <2>1. Shown
    BY DEF ClaudeInv, ShownOK
  <2>2. posts[i].ev = LastEvent(newest)
    <3>1. i \in DOMAIN posts
      BY <1>0
    <3> QED
      BY <3>1, WaitedIs
  <2>3. LastEvent(newest)' = LastEvent(newest)
    BY <1>1, LastEventIs DEF LastEvent
  <2>4. CASE sessions' = sessions
    BY <2>1, <2>3, <2>4 DEF Shown
  <2>5. CASE Leads(sessions', sessions, e)
    <3>1. sessions' # <<>> /\ sessions'[1].status = Told(posts[i].ev)
      BY <2>5, <1>6, LeaderIsKnown
    <3> QED
      BY <3>1, <2>2, <2>3 DEF Shown
  <2> QED
    BY <2>4, <2>5, <1>6
<1> QED
  BY <1>9, <1>10, <1>11, <1>14, <1>15 DEF ClaudeInv

\* A hook that times out keeps it.
LEMMA HookTimesOutKeeps ==
  ASSUME ClaudeInv, HookTimesOut
  PROVE  ClaudeInv'
<1> DEFINE R == [f : Transcripts, ev : Hooked, waited : BOOLEAN]
<1>0. PICK n \in Nat : n = Len(posts) /\ posts \in Seq(R) /\ DOMAIN posts = 1..n
  BY DEF ClaudeInv, ClaudeTypeOK
<1>1. /\ hook /\ hook' = FALSE
      /\ posts' \in {Front(posts), [posts EXCEPT ![Len(posts)].waited = FALSE]}
      /\ UNCHANGED <<sessions, lines, half, writing, newest, active, position, stray>>
  BY DEF HookTimesOut
<1>2. posts # <<>> /\ n \in 1..n /\ \A i \in 1..n : posts[i].waited => i = n
  <2>1. posts # <<>> /\ \A i \in 1..n : posts[i].waited => i = n
    BY <1>0, <1>1 DEF ClaudeInv, HooksOK
  <2> QED
    BY <2>1, <1>0
<1>3. Nothing' = Nothing
  BY DEF Nothing
<1>4. posts' \in Seq(R) /\ \A i \in DOMAIN posts' : ~posts'[i].waited
  <2>1. CASE posts' = Front(posts)
    <3>1. posts' = SubSeq(posts, 1, n - 1)
      BY <2>1, <1>0 DEF Front
    <3> HIDE DEF R
    <3>2. posts' \in Seq(R) /\ DOMAIN posts' = 1..(n - 1) /\ \A i \in 1..(n - 1) : posts'[i] = posts[i]
      BY <3>1, <1>0
    <3>3. \A i \in 1..(n - 1) : i \in 1..n /\ i # n
      BY <1>0
    <3> QED
      BY <3>2, <3>3, <1>2
  <2>2. CASE posts' = [posts EXCEPT ![Len(posts)].waited = FALSE]
    <3> DEFINE p == [posts[n] EXCEPT !.waited = FALSE]
    <3>1. posts' = [posts EXCEPT ![n] = p]
      BY <2>2, <1>0
    <3>2. posts[n] \in R
      <4> HIDE DEF R
      <4> QED
        BY <1>0, <1>2
    <3>3. p \in R /\ ~p.waited
      BY <3>2
    <3> HIDE DEF p, R
    <3>4. posts' \in Seq(R) /\ DOMAIN posts' = 1..n /\ posts'[n] = p
          /\ \A i \in 1..n : i # n => posts'[i] = posts[i]
      BY <3>1, <3>3, <1>0, <1>2
    <3> QED
      BY <3>3, <3>4, <1>2
  <2> QED
    BY <1>1, <2>1, <2>2
<1>5. ClaudeTypeOK'
  BY <1>1, <1>3, <1>4 DEF ClaudeInv, ClaudeTypeOK
<1>6. TurnsOK'
  BY <1>1, TurnsStay DEF ClaudeInv
<1>7. HooksOK'
  BY <1>1, <1>4 DEF HooksOK
<1>8. TailerOK'
  <2>1. active # "none" =>
       \E k \in 0..Len(lines[active]) :
         /\ position = 2 * k
         /\ k > 0 /\ lines[active][k] # "stop" => Known(sessions, DesktopId)
    BY DEF ClaudeInv, TailerOK
  <2>2. ~(newest # "none" /\ writing = Nothing /\ lines[newest] = <<"stop">>)
    BY <1>2 DEF ClaudeInv, TailerOK
  <2> QED
    BY <1>1, <1>3, <2>1, <2>2 DEF TailerOK
<1>9. ShownOK'
  <2>1. LastEvent(newest)' = LastEvent(newest)
    BY <1>1, LastEventIs DEF LastEvent
  <2>2. Shown' = Shown
    BY <1>1, <2>1 DEF Shown
  <2> QED
    BY <1>1, <2>2 DEF ClaudeInv, ShownOK
<1> QED
  BY <1>5, <1>6, <1>7, <1>8, <1>9 DEF ClaudeInv

\* The rest of the line keeps it.
LEMMA WriteRestKeeps ==
  ASSUME ClaudeInv, WriteRest
  PROVE  ClaudeInv'
<1>0. PICK f \in Transcripts, ev \in EventKinds, q \in Seq(EventKinds), n \in Nat :
        /\ f = writing.f /\ ev = writing.ev /\ q = lines[f] /\ n = Len(q)
        /\ writing # Nothing /\ Follows(ev, f) /\ WellWritten(q)
        /\ ev = "text" => f = newest
        /\ \A g \in Transcripts : InTurn(g) => g = f
  <2>1. writing # Nothing
    BY DEF WriteRest
  <2>2. /\ writing.f \in Transcripts /\ writing.ev \in EventKinds /\ Follows(writing.ev, writing.f)
        /\ writing.ev = "text" => writing.f = newest
        /\ \A g \in Transcripts : InTurn(g) => g = writing.f
    BY <2>1, WritingIs DEF ClaudeInv
  <2>3. lines[writing.f] \in Seq(EventKinds) /\ WellWritten(lines[writing.f])
    BY <2>2 DEF ClaudeInv, ClaudeTypeOK, TurnsOK
  <2>4. Len(lines[writing.f]) \in Nat
    BY <2>3
  <2> QED
    BY <2>1, <2>2, <2>3, <2>4
<1>1. /\ lines' = [lines EXCEPT ![f] = Append(q, ev)]
      /\ half' = [half EXCEPT ![f] = FALSE]
      /\ newest' = f /\ writing' = Nothing
      /\ UNCHANGED <<sessions, hook, posts, active, position, stray>>
  BY <1>0 DEF WriteRest
<1>2. Nothing' = Nothing /\ Nothing.ev = "none"
  BY DEF Nothing
<1>3. PICK r : r = Append(q, ev)
  OBVIOUS
<1>4. /\ ev = "text" => LastOf(q) # "stop" /\ Last(q) # "text"
      /\ ev = "stop" => LastOf(q) # "stop"
  BY <1>0, FollowsWell
<1>5. /\ WellWritten(r) /\ r # <<>>
      /\ LastOf(r) = IF ev = "text" THEN LastOf(q) ELSE ev
      /\ ev = "text" => q # <<>> /\ ToldAt(r) = n /\ ToldAt(q) = n
      /\ ev # "text" => ToldAt(r) = n + 1
  BY <1>0, <1>3, <1>4, LineFollows
<1>6. r \in Seq(EventKinds) /\ Len(r) = n + 1 /\ \A k \in 1..n : r[k] = q[k]
  BY <1>0, <1>3
<1>7. lines'[f] = r /\ (\A g \in Transcripts : g # f => lines'[g] = lines[g])
      /\ lines' \in [Transcripts -> Seq(EventKinds)]
  <2>1. lines \in [Transcripts -> Seq(EventKinds)]
    BY DEF ClaudeInv, ClaudeTypeOK
  <2> QED
    BY <2>1, <1>1, <1>3, <1>6
<1>8. ClaudeTypeOK'
  BY <1>1, <1>2, <1>7 DEF ClaudeInv, ClaudeTypeOK
<1>9. LastEvent(newest)' = LastOf(r)
  <2>1. LastEvent(newest)' = LastOf(lines'[newest'])
    BY LastEventIs DEF LastEvent, LastOf
  <2> QED
    BY <2>1, <1>1, <1>7
<1>10. TurnsOK'
  <2>1. \A g \in Transcripts : WellWritten(lines'[g])
    BY <1>5, <1>7 DEF ClaudeInv, TurnsOK
  <2>2. \A g \in Transcripts : InTurn(g)' => g = newest'
    <3> SUFFICES ASSUME NEW g \in Transcripts, g # f
                 PROVE  ~InTurn(g)'
      BY <1>1
    <3>1. LastEvent(g)' = LastEvent(g)
      BY <1>7, LastEventIs
    <3> QED
      BY <3>1, <1>0 DEF InTurn
  <2>3. \A g \in Transcripts : ~half'[g]
    BY <1>0, <1>1 DEF ClaudeInv, ClaudeTypeOK, TurnsOK
  <2> QED
    BY <2>1, <2>2, <2>3, <1>1, <1>2, <1>5, <1>7 DEF TurnsOK
<1>11. HooksOK'
  <2>1. \A i \in DOMAIN posts : posts[i].waited => i = Len(posts) /\ hook /\ posts[i].ev = ev
    BY <1>0 DEF ClaudeInv, HooksOK
  <2>2. \A i \in DOMAIN posts : posts[i].ev # "text"
    <3> DEFINE R == [f : Transcripts, ev : Hooked, waited : BOOLEAN]
    <3>1. posts \in Seq(R)
      BY DEF ClaudeInv, ClaudeTypeOK
    <3>2. \A p \in R : p.ev # "text"
      BY DEF Hooked
    <3> HIDE DEF R
    <3> QED
      BY <3>1, <3>2
  <2>3. \A i \in DOMAIN posts : posts[i].waited => posts[i].ev = LastOf(r)
    BY <2>1, <2>2, <1>5
  <2>4. newest' # "none"
    BY <1>1, ClaudeAssumption
  <2>5. hook => posts # <<>> /\ posts[Len(posts)].waited
    BY DEF ClaudeInv, HooksOK
  <2> QED
    BY <2>1, <2>3, <2>4, <2>5, <1>1, <1>2, <1>9 DEF HooksOK
<1>12. active # "none" =>
         \E k \in 0..Len(lines'[active]) :
           /\ position = 2 * k /\ (active = f => k <= n)
           /\ k > 0 /\ lines'[active][k] # "stop" => Known(sessions, DesktopId)
  <2> SUFFICES ASSUME active # "none"
               PROVE  \E k \in 0..Len(lines'[active]) :
           /\ position = 2 * k /\ (active = f => k <= n)
           /\ k > 0 /\ lines'[active][k] # "stop" => Known(sessions, DesktopId)
    OBVIOUS
  <2>1. PICK k \in 0..Len(lines[active]) :
         /\ position = 2 * k
         /\ k > 0 /\ lines[active][k] # "stop" => Known(sessions, DesktopId)
    BY DEF ClaudeInv, TailerOK
  <2>2. CASE active = f
    <3>1. k \in 0..n
      BY <2>1, <2>2, <1>0
    <3>2. k \in 0..(n + 1) /\ (k > 0 => r[k] = q[k]) /\ k <= n
      BY <3>1, <1>0, <1>6
    <3> QED
      BY <2>1, <2>2, <3>1, <3>2, <1>0, <1>6, <1>7
  <2>3. CASE active # f
    <3>1. active \in Transcripts
      BY DEF ClaudeInv, ClaudeTypeOK
    <3>2. lines'[active] = lines[active]
      BY <2>3, <3>1, <1>7
    <3> QED
      BY <2>1, <2>3, <3>2
  <2> QED
    BY <2>2, <2>3
<1>13. TailerOK'
  <2>1. lines'[newest'] # <<"stop">>
    <3> SUFFICES ASSUME r = <<"stop">>
                 PROVE  FALSE
      BY <1>1, <1>7
    <3>1. n = 0 /\ r[1] = "stop"
      BY <1>0, <1>6
    <3>2. q = <<>>
      BY <3>1, <1>0
    <3>3. ev = "stop"
      BY <3>1, <3>2, <1>3
    <3> QED
      BY <3>2, <3>3, <1>0, <1>4, LastTold
  <2> QED
    BY <2>1, <1>1, <1>12 DEF TailerOK
<1>14. ShownOK'
  <2> SUFFICES ASSUME active = f, ~stray, position >= 2 * ToldAt(r)
               PROVE  Shown'
    BY <1>1, <1>7 DEF ShownOK
  <2>1. f # "none"
    BY ClaudeAssumption
  <2>2. PICK k \in Nat : position = 2 * k /\ k <= n
    <3>1. PICK k \in 0..Len(lines'[active]) : position = 2 * k /\ k <= n
      BY <1>12, <2>1
    <3>2. Len(lines'[active]) = n + 1
      BY <1>6, <1>7
    <3>3. k \in Nat
      BY <3>1, <3>2
    <3> QED
      BY <3>1, <3>3
  <2>3. ev = "text"
    <3> SUFFICES ASSUME ev # "text"
                 PROVE  FALSE
      OBVIOUS
    <3>1. ToldAt(r) = n + 1
      BY <1>5
    <3>2. 2 * k >= 2 * (n + 1)
      BY <2>2, <3>1
    <3> QED
      BY <2>2, <3>2
  <2>4. newest = f /\ position >= 2 * ToldAt(lines[newest])
    BY <2>3, <1>0, <1>5
  <2>5. Shown
    BY <2>1, <2>3, <2>4, <1>0 DEF ClaudeInv, ShownOK
  <2>6. LastEvent(newest) = LastOf(r)
    BY <2>3, <2>4, <1>0, <1>5, LastEventIs
  <2> QED
    BY <2>5, <2>6, <1>1, <1>9 DEF Shown
<1> QED
  BY <1>8, <1>10, <1>11, <1>13, <1>14 DEF ClaudeInv

\* It holds at the start.
LEMMA ClaudeStarts ==
  ASSUME ClaudeInit
  PROVE  ClaudeInv
<1>1. /\ sessions = <<>> /\ half = [f \in Transcripts |-> FALSE] /\ writing = Nothing
      /\ hook = FALSE /\ posts = <<>> /\ active = "none" /\ position = 0 /\ stray = FALSE
  BY DEF ClaudeInit, ClaudeOwnInit, SessionsInit
<1>2. PICK old \in {<<>>, <<"stop">>}, g \in Transcripts :
        /\ lines = [f \in Transcripts |-> IF f = g THEN old ELSE <<>>]
        /\ newest = IF old = <<>> THEN "none" ELSE g
  BY DEF ClaudeInit, ClaudeOwnInit
<1>3. \A f \in Transcripts : lines[f] \in {<<>>, <<"stop">>}
  BY <1>2
<1>4. <<>> \in Seq(EventKinds) /\ <<"stop">> \in Seq(EventKinds)
  BY DEF EventKinds
<1>5. WellWritten(<<>>) /\ WellWritten(<<"stop">>)
  BY DEF WellWritten
<1>6. LastOf(<<>>) = "stop" /\ LastOf(<<"stop">>) = "stop"
  <2>1. LastOf(<<>>) = "stop"
    BY <1>4, <1>5, LastTold
  <2>2. PICK q \in Seq(EventKinds) : q = <<"stop">>
    BY <1>4
  <2>3. ToldAt(q) \in 1..Len(q) /\ LastOf(q) = q[ToldAt(q)] /\ Len(q) = 1 /\ q[1] = "stop"
    <3>1. q # <<>> /\ WellWritten(q) /\ Len(q) = 1 /\ q[1] = "stop"
      BY <2>2, <1>5
    <3> QED
      BY <3>1, LastTold
  <2>4. ToldAt(q) = 1
    BY <2>3
  <2> QED
    BY <2>1, <2>2, <2>3, <2>4
<1>7. \A f \in Transcripts : ~InTurn(f)
  BY <1>3, <1>6, LastEventIs DEF InTurn
<1>8. ClaudeTypeOK
  <2>1. <<>> \in Lists(ClaudeIds, "claude")
    BY DEF Lists
  <2>2. lines \in [Transcripts -> Seq(EventKinds)]
    BY <1>2, <1>4
  <2>3. newest \in Transcripts \cup {"none"}
    BY <1>2
  <2>4. posts \in Seq([f : Transcripts, ev : Hooked, waited : BOOLEAN])
    <3> DEFINE R == [f : Transcripts, ev : Hooked, waited : BOOLEAN]
    <3> HIDE DEF R
    <3>1. posts \in Seq(R)
      BY <1>1
    <3> QED
      BY <3>1 DEF R
  <2>5. half \in [Transcripts -> BOOLEAN]
    BY <1>1
  <2> QED
    BY <1>1, <2>1, <2>2, <2>3, <2>4, <2>5 DEF ClaudeTypeOK
<1>9. TurnsOK
  <2>1. newest # "none" => lines[newest] # <<>>
    BY <1>2
  <2> QED
    BY <2>1, <1>1, <1>3, <1>5, <1>7 DEF TurnsOK
<1>10. HooksOK /\ TailerOK
  BY <1>1 DEF HooksOK, TailerOK
<1>11. ShownOK
  BY <1>1 DEF ShownOK
<1> QED
  BY <1>8, <1>9, <1>10, <1>11 DEF ClaudeInv

\* Every step of Claude, its hooks and the tailer keeps the invariant.
LEMMA ClaudeKeeps ==
  ASSUME ClaudeInv, ClaudeNext
  PROVE  ClaudeInv'
BY TickKeeps, WriteHalfKeeps, WriteRestKeeps, HookTimesOutKeeps, ActKeeps, HookServerKeeps
   DEF ClaudeNext

\* The invariant says what the list shows once all is read.
LEMMA ClaudeShowsTurn ==
  ASSUME ClaudeInv
  PROVE  BandShowsTurn
<1> SUFFICES ASSUME Settled, ~stray
             PROVE  LET truth == Told(LastEvent(newest)) IN
                    \/ LeanSession(sessions, "claude") = truth
                    \/ LeanSession(sessions, "claude") = "none" /\ truth = "completed"
  BY DEF BandShowsTurn
<1>1. /\ writing = Nothing /\ active = newest /\ newest # "none"
      /\ position = TranscriptSize(newest)
  BY DEF Settled
<1>2. PICK L \in Seq(EventKinds) : L = lines[newest] /\ L # <<>> /\ WellWritten(L)
  BY <1>1 DEF ClaudeInv, ClaudeTypeOK, TurnsOK
<1>3. PICK n \in Nat : n = Len(L)
  OBVIOUS
<1>4. position >= 2 * ToldAt(L)
  <2>1. position = 2 * n + (IF half[newest] THEN 1 ELSE 0)
    BY <1>1, <1>2, <1>3 DEF TranscriptSize
  <2>2. ToldAt(L) \in 1..n
    BY <1>2, <1>3, LastTold
  <2>3. \A t \in 1..n : 2 * n >= 2 * t /\ 2 * n + 1 >= 2 * t
    BY <1>3
  <2> QED
    BY <2>1, <2>2, <2>3
<1>5. writing.ev = "none"
  BY <1>1 DEF Nothing
<1>6. Shown
  BY <1>1, <1>2, <1>4, <1>5 DEF ClaudeInv, ShownOK
<1>7. CASE sessions = <<>> /\ LastEvent(newest) = "stop"
  <2>1. {i \in DOMAIN sessions : sessions[i].agent = "claude"} = {}
    BY <1>7
  <2> QED
    BY <2>1, <1>7 DEF LeanSession, Told
<1>8. CASE sessions # <<>> /\ sessions[1].status = Told(LastEvent(newest))
  <2> DEFINE own == {i \in DOMAIN sessions : sessions[i].agent = "claude"}
             R == Sessions(ClaudeIds, "claude")
  <2>1. sessions \in Seq(R)
    BY DEF ClaudeInv, ClaudeTypeOK, Lists
  <2>2. \A s \in R : s.agent = "claude"
    BY DEF Sessions
  <2> HIDE DEF R
  <2>3. 1 \in own /\ own \subseteq Nat /\ \A i \in own : i >= 1
    BY <1>8, <2>1, <2>2
  <2>4. LeanSession(sessions, "claude") = IF own = {} THEN "none" ELSE sessions[Min(own)].status
    BY DEF LeanSession
  <2> HIDE DEF own
  <2>5. Min(own) \in own /\ \A i \in own : Min(own) <= i
    BY <2>3, MinIsLeast
  <2>6. Min(own) = 1
    <3> DEFINE M == Min(own)
    <3>1. M \in Nat /\ M >= 1 /\ M <= 1
      BY <2>3, <2>5
    <3> HIDE DEF M
    <3>2. M = 1
      BY <3>1
    <3> QED
      BY <3>2 DEF M
  <2> QED
    BY <1>8, <2>3, <2>4, <2>6
<1> QED
  BY <1>6, <1>7, <1>8 DEF Shown

(***************************************************************************)
(* Codex: what the lines of a log tell                                     *)
(***************************************************************************)
CodexIds == Logs \cup {DefaultId}

\* What the record r has the list say.
Says(r) ==
  CASE r = "tool_begin" -> "running_tool"
    [] r = "task_complete" -> "completed"
    [] r = "turn_aborted" -> "error"
    [] OTHER -> "thinking"

\* In T the sessions of other ids than f and the default one are as in S.
SparesOthers(T, S, f) ==
  \A x : x \notin {f, DefaultId} =>
    (Known(T, x) <=> Known(S, x)) /\ (Known(S, x) => Session(T, x) = Session(S, x))

\* One record: its session stands as the record says, if it is known.
LEMMA RecordTold ==
  ASSUME NEW S \in Lists(CodexIds, "codex"), NEW id \in CodexIds, NEW r \in Records
  PROVE  /\ ParseLine(S, id, r) \in Lists(CodexIds, "codex")
         /\ \/ ParseLine(S, id, r) = S /\ ~Known(S, id)
            \/ Leads(ParseLine(S, id, r), S, [id |-> id, agent |-> "codex", status |-> Says(r)])
<1>0. Statuses = {"thinking", "running_tool", "completed", "error"}
  BY DEF Statuses
<1>1. CASE r = "task_complete"
  <2>1. ParseLine(S, id, r) = EndSession(S, id, "completed") /\ Says(r) = "completed"
    BY <1>1 DEF ParseLine, Says
  <2> QED
    BY <2>1, <1>0, EndedIsFirst
<1>2. CASE r = "turn_aborted"
  <2>1. ParseLine(S, id, r) = EndSession(S, id, "error") /\ Says(r) = "error"
    BY <1>2 DEF ParseLine, Says
  <2> QED
    BY <2>1, <1>0, EndedIsFirst
<1>3. CASE r = "tool_begin"
  <2>1. ParseLine(S, id, r) = UpdateSession(S, id, "codex", "running_tool") /\ Says(r) = "running_tool"
    BY <1>3 DEF ParseLine, Says
  <2> QED
    BY <2>1, <1>0, UpdatedIsFirst
<1>4. CASE r \notin {"task_complete", "turn_aborted", "tool_begin"}
  <2>1. ParseLine(S, id, r) = UpdateSession(S, id, "codex", "thinking") /\ Says(r) = "thinking"
    BY <1>4 DEF ParseLine, Says
  <2> QED
    BY <2>1, <1>0, UpdatedIsFirst
<1> QED
  BY <1>1, <1>2, <1>3, <1>4

\* The results a of reading records q of the log f.
ReadWell(a, S, f, q, k) ==
  /\ a.id \in {f, DefaultId} /\ a.S \in Lists(CodexIds, "codex")
  /\ SparesOthers(a.S, S, f)
  /\ k > 0 /\ q[1] = "session_meta" => a.id = f
  /\ k > 0 /\ a.id = f /\ Known(a.S, f) => Session(a.S, f).status = Says(q[k])

\* A record more.
LEMMA RecordRead ==
  ASSUME NEW S \in Lists(CodexIds, "codex"), NEW f \in Logs, NEW q, NEW k \in Nat \ {0},
         q[k] \in Records, NEW a, ReadWell(a, S, f, q, k - 1),
         NEW b, b = Parsed("codex", f, a, q[k])
  PROVE  ReadWell(b, S, f, q, k)
<1>1. PICK id : id = IF q[k] = "session_meta" THEN f ELSE a.id
  OBVIOUS
<1>2. b = [id |-> id, S |-> ParseLine(a.S, id, q[k])]
  BY <1>1 DEF Parsed
<1>3. b.id = id /\ b.S = ParseLine(a.S, id, q[k])
  BY <1>2
<1>4. a.id \in {f, DefaultId} /\ a.S \in Lists(CodexIds, "codex") /\ SparesOthers(a.S, S, f)
  BY DEF ReadWell
<1>5. id \in {f, DefaultId} /\ id \in CodexIds
  BY <1>1, <1>4 DEF CodexIds
<1>6. PICK e : /\ e.id = id /\ e.status = Says(q[k])
               /\ b.S \in Lists(CodexIds, "codex")
               /\ \/ b.S = a.S /\ ~Known(a.S, id)
                  \/ Leads(b.S, a.S, e)
  <2> DEFINE d == [id |-> id, agent |-> "codex", status |-> Says(q[k])]
  <2>1. d.id = id /\ d.status = Says(q[k])
    OBVIOUS
  <2>2. /\ b.S \in Lists(CodexIds, "codex")
        /\ \/ b.S = a.S /\ ~Known(a.S, id)
           \/ Leads(b.S, a.S, d)
    BY <1>3, <1>4, <1>5, RecordTold
  <2> HIDE DEF d
  <2> QED
    BY <2>1, <2>2
<1>7. SparesOthers(b.S, S, f)
  <2>1. CASE b.S = a.S
    BY <2>1, <1>4
  <2>2. CASE Leads(b.S, a.S, e)
    <3>1. \A x : x # id => (Known(b.S, x) <=> Known(a.S, x))
                            /\ (Known(a.S, x) => Session(b.S, x) = Session(a.S, x))
      BY <2>2, <1>6 DEF Leads
    <3> QED
      BY <3>1, <1>4, <1>5 DEF SparesOthers
  <2> QED
    BY <2>1, <2>2, <1>6
<1>8. q[1] = "session_meta" => b.id = f
  <2>1. CASE k = 1
    BY <2>1, <1>1, <1>3
  <2>2. CASE k # 1
    <3>1. k - 1 > 0
      BY <2>2
    <3>2. q[1] = "session_meta" => a.id = f
      BY <3>1 DEF ReadWell
    <3> QED
      BY <3>2, <1>1, <1>3
  <2> QED
    BY <2>1, <2>2
<1>9. b.id = f /\ Known(b.S, f) => Session(b.S, f).status = Says(q[k])
  <2> SUFFICES ASSUME id = f, Known(b.S, f)
               PROVE  Session(b.S, f).status = Says(q[k])
    BY <1>3
  <2>1. Leads(b.S, a.S, e)
    BY <1>6
  <2> QED
    BY <2>1, <1>6 DEF Leads
<1> QED
  BY <1>3, <1>5, <1>6, <1>7, <1>8, <1>9 DEF ReadWell

\* All records.
LEMMA LogRead ==
  ASSUME NEW S \in Lists(CodexIds, "codex"), NEW f \in Logs, NEW id \in {f, DefaultId},
         NEW q \in Seq(Records)
  PROVE  /\ ReadWell(ParseLines(S, f, id, q), S, f, q, Len(q))
         /\ q = <<>> => ParseLines(S, f, id, q) = [id |-> id, S |-> S]
<1>1. PICK r : Reading(r, "codex", f, [id |-> id, S |-> S], q) /\ ParseLines(S, f, id, q) = r[Len(q)]
  BY LogInOrder
<1>2. PICK n \in Nat : n = Len(q) /\ \A i \in 1..n : q[i] \in Records
  OBVIOUS
<1>3. r[0] = [id |-> id, S |-> S] /\ \A i \in 1..n : r[i] = Parsed("codex", f, r[i - 1], q[i])
  BY <1>1, <1>2 DEF Reading
<1> DEFINE Bad == {k \in 0..n : ~ReadWell(r[k], S, f, q, k)}
<1>4. Bad = {}
  <2> SUFFICES ASSUME Bad # {}
               PROVE  FALSE
    OBVIOUS
  <2>1. PICK k \in Bad : \A i \in Bad : k <= i
    <3>1. Bad \subseteq Nat
      OBVIOUS
    <3> HIDE DEF Bad
    <3> QED
      BY <3>1, LeastOf
  <2>2. k \in 0..n /\ ~ReadWell(r[k], S, f, q, k)
    OBVIOUS
  <2>3. CASE k = 0
    <3>1. r[0].id = id /\ r[0].S = S
      BY <1>3
    <3>2. ReadWell(r[0], S, f, q, 0)
      BY <3>1 DEF ReadWell, SparesOthers
    <3> QED
      BY <2>2, <2>3, <3>2
  <2>4. CASE k # 0
    <3>1. k \in 1..n /\ k \in Nat \ {0} /\ k - 1 \in 0..n /\ ~(k <= k - 1)
      BY <2>2, <2>4
    <3>2. k - 1 \notin Bad
      <4> HIDE DEF Bad
      <4> QED
        BY <2>1, <3>1
    <3>3. ReadWell(r[k - 1], S, f, q, k - 1)
      BY <3>1, <3>2
    <3>4. q[k] \in Records /\ r[k] = Parsed("codex", f, r[k - 1], q[k])
      BY <3>1, <1>2, <1>3
    <3> HIDE DEF Bad
    <3>5. ReadWell(r[k], S, f, q, k)
      BY <3>1, <3>3, <3>4, RecordRead
    <3> QED
      BY <2>2, <3>5
  <2> QED
    BY <2>3, <2>4
<1>5. ReadWell(r[n], S, f, q, n)
  <2>1. n \in 0..n
    OBVIOUS
  <2> QED
    BY <1>4, <2>1
<1>6. q = <<>> => n = 0
  BY <1>2
<1> QED
  BY <1>1, <1>2, <1>3, <1>5, <1>6

(***************************************************************************)
(* Codex: the inductive invariant                                          *)
(***************************************************************************)
LogStates ==
  [lines : Seq(Records), part : 0..2, next : Records \cup {"none"}, dir : {"none", "today", "older"}]
CodexTypeOK ==
  /\ sessions \in Lists(CodexIds, "codex")
  /\ log \in [Logs -> LogStates]
  /\ pos \in [Logs -> Nat \cup {Untracked}]
  /\ ctx \in [Logs -> CodexIds]
  /\ read \in [Logs -> Seq(Nat)]
  /\ base \in [Logs -> Nat]
  /\ cut \in [Logs -> Nat]

\* The record of line n of a log, which may lack only its newline.
RecordAt(l, n) == IF n <= Len(l.lines) THEN l.lines[n] ELSE l.next
\* The numbers of the lines read grow, and end before the position p.
Rising(rd) == \A i, j \in DOMAIN rd : i < j => rd[i] < rd[j]
InOrder(rd, p) ==
  /\ Rising(rd)
  /\ \A i \in DOMAIN rd : rd[i] > 0 /\ 3 * rd[i] - 1 <= p
\* A line that starts between where reading started and the position has been
\* read, unless it was cut.
NonePassed(rd, p, b, c) ==
  \A n \in Nat \ {0} : 3 * (n - 1) >= b /\ 3 * (n - 1) < p => n = c \/ \E i \in DOMAIN rd : rd[i] = n
\* The list says of a log what the last line read says.
SaysLast(f, l, id, rd, S) ==
  id = f /\ rd # <<>> /\ Known(S, f) => Session(S, f).status = Says(RecordAt(l, rd[Len(rd)]))

GoodLog(f, l, p, id, rd, b, c, S) ==
  /\ id \in {f, DefaultId} /\ Rising(rd)
  /\ l.part # 0 => l.next \in Records
  /\ p = Untracked => rd = <<>> /\ id = DefaultId
  /\ l.dir = "none" => l = NoLog
  /\ l.dir # "none" /\ p # Untracked =>
       /\ p <= 3 * Len(l.lines) + l.part
       /\ InOrder(rd, p) /\ NonePassed(rd, p, b, c) /\ SaysLast(f, l, id, rd, S)

LogOK(f) == GoodLog(f, log[f], pos[f], ctx[f], read[f], base[f], cut[f], sessions)
CodexInv == CodexTypeOK /\ \A f \in Logs : LogOK(f)

\* What is read of f changes nothing for the other logs.
LEMMA OtherLogsStay ==
  ASSUME NEW f \in Logs, NEW g \in Logs, g # f, NEW S, NEW T, SparesOthers(T, S, f),
         NEW l, NEW p, NEW id, NEW rd, NEW b, NEW c, GoodLog(g, l, p, id, rd, b, c, S)
  PROVE  GoodLog(g, l, p, id, rd, b, c, T)
<1>1. g \notin {f, DefaultId}
  BY CodexAssumption
<1>2. (Known(T, g) <=> Known(S, g)) /\ (Known(S, g) => Session(T, g) = Session(S, g))
  BY <1>1 DEF SparesOthers
<1>3. SaysLast(g, l, id, rd, S) => SaysLast(g, l, id, rd, T)
  BY <1>2 DEF SaysLast
<1> QED
  BY <1>3 DEF GoodLog

\* The numbers of m lines more.
Numbered(first, m) == [i \in 1..m |-> first + i - 1]
GrownTo(q, rd, first, m, e) ==
  /\ q \in Seq(Nat) /\ InOrder(q, e)
  /\ \A n \in Nat : (\E i \in DOMAIN rd : rd[i] = n) \/ (first <= n /\ n < first + m) =>
       \E i \in DOMAIN q : q[i] = n
  /\ m = 0 => q = rd
  /\ m > 0 => q # <<>> /\ q[Len(q)] = first + m - 1

\* They continue those read before.
LEMMA NumbersGrow ==
  ASSUME NEW rd \in Seq(Nat), NEW p, rd = <<>> \/ (p \in Nat /\ InOrder(rd, p)),
         NEW first \in Nat \ {0}, NEW m \in Nat, \A i \in DOMAIN rd : rd[i] < first,
         NEW e \in Nat, rd = <<>> \/ p <= e, m > 0 => 3 * (first + m - 1) - 1 <= e
  PROVE  GrownTo(rd \o Numbered(first, m), rd, first, m, e)
<1> DEFINE N == Numbered(first, m)
           q == rd \o N
           k == Len(rd)
<1>1. N \in Seq(Nat) /\ Len(N) = m /\ \A i \in 1..m : N[i] = first + i - 1
  BY DEF Numbered
<1>2. k \in Nat /\ DOMAIN rd = 1..k /\ \A i \in 1..k : rd[i] \in Nat /\ rd[i] < first
  OBVIOUS
<1> HIDE DEF N
<1>3. q \in Seq(Nat) /\ Len(q) = k + m
      /\ \A i \in 1..(k + m) : q[i] = IF i <= k THEN rd[i] ELSE N[i - k]
  <2>1. /\ q \in Seq(Nat) /\ Len(q) = Len(rd) + Len(N)
        /\ \A i \in 1..(Len(rd) + Len(N)) : q[i] = IF i <= Len(rd) THEN rd[i] ELSE N[i - Len(rd)]
    BY <1>1, ConcatProperties
  <2> QED
    BY <2>1, <1>1
<1>4. DOMAIN q = 1..(k + m)
  BY <1>3
<1>5. m = 0 => q = rd
  <2> SUFFICES ASSUME m = 0
               PROVE  q = rd
    OBVIOUS
  <2>1. N = <<>>
    BY <1>1
  <2> QED
    BY <2>1
<1> HIDE DEF q, k
<1>6. \A i \in 1..(k + m) : i > k => i - k \in 1..m /\ q[i] = first + (i - k) - 1
  <2> TAKE i \in 1..(k + m)
  <2> HAVE i > k
  <2>1. i - k \in 1..m /\ ~(i <= k)
    BY <1>2
  <2> QED
    BY <2>1, <1>1, <1>3
<1>7. \A i \in 1..(k + m) : i <= k => i \in 1..k /\ q[i] = rd[i]
  BY <1>2, <1>3
<1>8. InOrder(q, e)
  <2>1. ASSUME NEW i \in 1..(k + m), NEW j \in 1..(k + m), i < j
        PROVE  q[i] < q[j]
    <3>1. CASE j <= k
      <4>1. i \in 1..k /\ j \in 1..k /\ q[i] = rd[i] /\ q[j] = rd[j] /\ rd # <<>>
        BY <3>1, <2>1, <1>2, <1>7
      <4> QED
        BY <4>1, <2>1, <1>2 DEF InOrder, Rising
    <3>2. CASE i <= k /\ j > k
      <4>1. i \in 1..k /\ q[i] = rd[i] /\ j - k \in 1..m /\ q[j] = first + (j - k) - 1
        BY <3>2, <1>6, <1>7
      <4>2. rd[i] \in Nat /\ rd[i] < first
        BY <4>1, <1>2
      <4> QED
        BY <4>1, <4>2, <1>2
    <3>3. CASE i > k /\ j > k
      <4>1. q[i] = first + (i - k) - 1 /\ q[j] = first + (j - k) - 1
        BY <3>3, <1>6
      <4> QED
        BY <4>1, <2>1, <1>2
    <3>4. j <= k \/ j > k
      BY <1>2
    <3>5. i <= k \/ i > k
      BY <1>2
    <3> QED
      BY <3>1, <3>2, <3>3, <3>4, <3>5
  <2>2. ASSUME NEW i \in 1..(k + m)
        PROVE  q[i] > 0 /\ 3 * q[i] - 1 <= e
    <3>1. CASE i <= k
      <4>1. i \in 1..k /\ q[i] = rd[i] /\ rd # <<>>
        BY <3>1, <1>2, <1>7
      <4>2. rd[i] \in Nat /\ rd[i] > 0 /\ 3 * rd[i] - 1 <= p /\ p \in Nat /\ p <= e
        BY <4>1, <1>2 DEF InOrder
      <4> QED
        BY <4>1, <4>2
    <3>2. CASE i > k
      <4>1. i - k \in 1..m /\ q[i] = first + (i - k) - 1
        BY <3>2, <1>6
      <4>2. m > 0
        BY <4>1
      <4> QED
        BY <4>1, <4>2, <1>2
    <3> QED
      BY <3>1, <3>2, <1>2
  <2> QED
    BY <2>1, <2>2, <1>4 DEF InOrder, Rising
<1>9. ASSUME NEW n \in Nat, (\E i \in DOMAIN rd : rd[i] = n) \/ (first <= n /\ n < first + m)
      PROVE  \E i \in DOMAIN q : q[i] = n
  <2>1. CASE \E i \in DOMAIN rd : rd[i] = n
    <3>1. PICK i \in 1..k : rd[i] = n
      BY <2>1, <1>2
    <3>2. i \in 1..(k + m) /\ i <= k
      BY <1>2
    <3> QED
      BY <3>1, <3>2, <1>4, <1>7
  <2>2. CASE first <= n /\ n < first + m
    <3> DEFINE i == k + (n - first) + 1
    <3>1. i \in 1..(k + m) /\ i > k /\ first + (i - k) - 1 = n
      BY <2>2, <1>2
    <3> HIDE DEF i
    <3>2. q[i] = n
      BY <3>1, <1>6
    <3> QED
      BY <3>1, <3>2, <1>4
  <2> QED
    BY <1>9, <2>1, <2>2
<1>10. m > 0 => q # <<>> /\ q[Len(q)] = first + m - 1
  <2> SUFFICES ASSUME m > 0
               PROVE  q # <<>> /\ q[Len(q)] = first + m - 1
    OBVIOUS
  <2>1. k + m \in 1..(k + m) /\ k + m > k /\ (k + m) - k = m /\ k + m # 0
    BY <1>2
  <2>2. q[k + m] = first + m - 1
    BY <2>1, <1>6
  <2> QED
    BY <2>1, <2>2, <1>3
<1>11. GrownTo(q, rd, first, m, e)
  BY <1>3, <1>5, <1>8, <1>9, <1>10 DEF GrownTo
<1> QED
  BY <1>11 DEF q, N

(***************************************************************************)
(* Codex: each step                                                        *)
(***************************************************************************)
\* What is known when the lines rs of the log l, from the number first on, are
\* read after the lines rd, and the position is moved from p to e.
ChunkOf(f, l, id, rd, p, b, c, S, rs, first, e) ==
  /\ l.dir # "none" /\ (l.part # 0 => l.next \in Records)
  /\ \A i \in 1..Len(rs) : rs[i] = RecordAt(l, first + i - 1)
  /\ rd = <<>> \/ (p \in Nat /\ InOrder(rd, p) /\ SaysLast(f, l, id, rd, S) /\ p <= e)
  /\ \A i \in DOMAIN rd : rd[i] < first
  /\ Len(rs) > 0 => 3 * (first + Len(rs) - 1) - 1 <= e
  /\ e <= 3 * Len(l.lines) + l.part
  /\ \A n \in Nat \ {0} : 3 * (n - 1) >= b /\ 3 * (n - 1) < e =>
       n = c \/ (\E i \in DOMAIN rd : rd[i] = n) \/ (first <= n /\ n < first + Len(rs))

\* What holds when it has been read.
CodexChunkRead(f, S, l, a, q, e, b, c) ==
  /\ GoodLog(f, l, e, a.id, q, b, c, a.S)
  /\ a.S \in Lists(CodexIds, "codex") /\ a.id \in CodexIds /\ SparesOthers(a.S, S, f)
  /\ q \in Seq(Nat)

\* Reading such a chunk keeps the log followed.
LEMMA ChunkFollowed ==
  ASSUME NEW f \in Logs, NEW S \in Lists(CodexIds, "codex"), NEW id \in {f, DefaultId},
         NEW l, NEW rd \in Seq(Nat), NEW p, NEW b, NEW c, NEW rs \in Seq(Records),
         NEW first \in Nat \ {0}, NEW e \in Nat, ChunkOf(f, l, id, rd, p, b, c, S, rs, first, e),
         NEW a, a = ParseLines(S, f, id, rs), NEW q, q = rd \o Numbered(first, Len(rs))
  PROVE  CodexChunkRead(f, S, l, a, q, e, b, c)
<1>1. PICK m \in Nat : m = Len(rs)
  OBVIOUS
<1>2. /\ ReadWell(a, S, f, rs, m)
      /\ rs = <<>> => a = [id |-> id, S |-> S]
  BY <1>1, LogRead
<1>3. /\ a.id \in {f, DefaultId} /\ a.S \in Lists(CodexIds, "codex") /\ SparesOthers(a.S, S, f)
      /\ m > 0 /\ a.id = f /\ Known(a.S, f) => Session(a.S, f).status = Says(rs[m])
  BY <1>2 DEF ReadWell
<1>4. /\ l.dir # "none" /\ (l.part # 0 => l.next \in Records)
      /\ \A i \in 1..m : rs[i] = RecordAt(l, first + i - 1)
      /\ rd = <<>> \/ (p \in Nat /\ InOrder(rd, p) /\ SaysLast(f, l, id, rd, S) /\ p <= e)
      /\ \A i \in DOMAIN rd : rd[i] < first
      /\ m > 0 => 3 * (first + m - 1) - 1 <= e
      /\ e <= 3 * Len(l.lines) + l.part
      /\ \A n \in Nat \ {0} : 3 * (n - 1) >= b /\ 3 * (n - 1) < e =>
           n = c \/ (\E i \in DOMAIN rd : rd[i] = n) \/ (first <= n /\ n < first + m)
  BY <1>1 DEF ChunkOf
<1>5. /\ q \in Seq(Nat) /\ InOrder(q, e)
      /\ \A n \in Nat : (\E i \in DOMAIN rd : rd[i] = n) \/ (first <= n /\ n < first + m) =>
           \E i \in DOMAIN q : q[i] = n
      /\ m = 0 => q = rd
      /\ m > 0 => q # <<>> /\ q[Len(q)] = first + m - 1
  <2>1. q = rd \o Numbered(first, m)
    BY <1>1
  <2>2. rd = <<>> \/ (p \in Nat /\ InOrder(rd, p))
    BY <1>4
  <2>3. rd = <<>> \/ p <= e
    BY <1>4
  <2>4. \A i \in DOMAIN rd : rd[i] < first
    BY <1>4
  <2>5. m > 0 => 3 * (first + m - 1) - 1 <= e
    BY <1>4
  <2>6. GrownTo(rd \o Numbered(first, m), rd, first, m, e)
    BY <2>2, <2>3, <2>4, <2>5, NumbersGrow
  <2>7. GrownTo(q, rd, first, m, e)
    BY <2>1, <2>6
  <2> QED
    BY <2>7 DEF GrownTo
<1>6. NonePassed(q, e, b, c)
  BY <1>4, <1>5 DEF NonePassed
<1>7. SaysLast(f, l, a.id, q, a.S)
  <2>1. CASE m = 0
    <3>1. a.id = id /\ a.S = S /\ q = rd
      <4>1. rs = <<>>
        BY <2>1, <1>1
      <4> QED
        BY <4>1, <2>1, <1>2, <1>5
    <3>2. SaysLast(f, l, id, rd, S)
      BY <1>4 DEF SaysLast
    <3> QED
      BY <3>1, <3>2
  <2>2. CASE m # 0
    <3>1. m > 0 /\ m \in 1..m
      BY <2>2
    <3>2. RecordAt(l, q[Len(q)]) = rs[m]
      BY <3>1, <1>4, <1>5
    <3> QED
      BY <3>1, <3>2, <1>3 DEF SaysLast
  <2> QED
    BY <2>1, <2>2
<1>8. GoodLog(f, l, e, a.id, q, b, c, a.S)
  <2>1. e # Untracked
    BY DEF Untracked
  <2> QED
    BY <2>1, <1>3, <1>4, <1>5, <1>6, <1>7 DEF GoodLog, InOrder
<1>9. a.id \in CodexIds
  BY <1>3 DEF CodexIds
<1> QED
  BY <1>3, <1>5, <1>8, <1>9 DEF CodexChunkRead

\* The types of what belongs to a log.
LEMMA LogTypes ==
  ASSUME CodexInv, NEW f \in Logs
  PROVE  /\ log[f] \in LogStates /\ log[f].lines \in Seq(Records) /\ Len(log[f].lines) \in Nat
         /\ log[f].part \in 0..2 /\ pos[f] \in Nat \cup {Untracked} /\ read[f] \in Seq(Nat)
         /\ base[f] \in Nat /\ cut[f] \in Nat /\ ctx[f] \in {f, DefaultId}
         /\ sessions \in Lists(CodexIds, "codex")
<1>1. log[f] \in LogStates /\ pos[f] \in Nat \cup {Untracked} /\ read[f] \in Seq(Nat)
      /\ base[f] \in Nat /\ cut[f] \in Nat
  BY DEF CodexInv, CodexTypeOK
<1>2. ctx[f] \in {f, DefaultId}
  BY DEF CodexInv, LogOK, GoodLog
<1>3. log[f].lines \in Seq(Records) /\ log[f].part \in 0..2
  BY <1>1 DEF LogStates
<1>4. Len(log[f].lines) \in Nat
  BY <1>3
<1> QED
  BY <1>1, <1>2, <1>3, <1>4 DEF CodexInv, CodexTypeOK

\* A step that reads a chunk of the log f keeps the invariant.
LEMMA ParseKeeps ==
  ASSUME CodexInv, NEW f \in Logs, NEW id \in {f, DefaultId}, NEW rs \in Seq(Records),
         NEW first \in Nat \ {0}, NEW e \in Nat, NEW b \in Nat, NEW c \in Nat,
         Parse(f, id, first, rs), pos' = [pos EXCEPT ![f] = e],
         base' = [base EXCEPT ![f] = b], cut' = [cut EXCEPT ![f] = c], UNCHANGED log,
         ChunkOf(f, log[f], id, read[f], pos[f], b, c, sessions, rs, first, e)
  PROVE  CodexInv'
<1>1. PICK a : a = ParseLines(sessions, f, id, rs)
  OBVIOUS
<1>2. PICK q : q = read[f] \o Numbered(first, Len(rs))
  OBVIOUS
<1>3. sessions' = a.S /\ ctx' = [ctx EXCEPT ![f] = a.id] /\ read' = [read EXCEPT ![f] = q]
  BY <1>1, <1>2 DEF Parse, Numbered
<1>4. sessions \in Lists(CodexIds, "codex") /\ read[f] \in Seq(Nat)
  BY LogTypes
<1>5. /\ GoodLog(f, log[f], e, a.id, q, b, c, a.S)
      /\ a.S \in Lists(CodexIds, "codex") /\ a.id \in CodexIds /\ SparesOthers(a.S, sessions, f)
      /\ q \in Seq(Nat)
  <2>1. PICK l : l = log[f]
    OBVIOUS
  <2>2. PICK p : p = pos[f]
    OBVIOUS
  <2>3. PICK rd \in Seq(Nat) : rd = read[f]
    BY <1>4
  <2>4. PICK S \in Lists(CodexIds, "codex") : S = sessions
    BY <1>4
  <2>5. ChunkOf(f, l, id, rd, p, b, c, S, rs, first, e)
    BY <2>1, <2>2, <2>3, <2>4
  <2>6. a = ParseLines(S, f, id, rs) /\ q = rd \o Numbered(first, Len(rs))
    BY <2>3, <2>4, <1>1, <1>2
  <2>7. CodexChunkRead(f, S, l, a, q, e, b, c)
    BY <2>5, <2>6, ChunkFollowed
  <2> QED
    BY <2>1, <2>4, <2>7 DEF CodexChunkRead
<1>6. CodexTypeOK'
  BY <1>3, <1>5 DEF CodexInv, CodexTypeOK
<1>7. ASSUME NEW g \in Logs
      PROVE  LogOK(g)'
  <2>0. /\ DOMAIN pos = Logs /\ DOMAIN ctx = Logs /\ DOMAIN read = Logs /\ DOMAIN base = Logs
        /\ DOMAIN cut = Logs
    BY DEF CodexInv, CodexTypeOK
  <2>1. CASE g = f
    <3>1. /\ log'[g] = log[f] /\ pos'[g] = e /\ ctx'[g] = a.id /\ read'[g] = q /\ base'[g] = b
          /\ cut'[g] = c /\ sessions' = a.S
      BY <2>0, <2>1, <1>3
    <3> QED
      BY <3>1, <2>1, <1>5 DEF LogOK
  <2>2. CASE g # f
    <3>1. /\ log'[g] = log[g] /\ pos'[g] = pos[g] /\ ctx'[g] = ctx[g] /\ read'[g] = read[g]
          /\ base'[g] = base[g] /\ cut'[g] = cut[g] /\ sessions' = a.S
      BY <2>0, <2>2, <1>3
    <3>2. GoodLog(g, log[g], pos[g], ctx[g], read[g], base[g], cut[g], sessions)
      BY DEF CodexInv, LogOK
    <3>3. GoodLog(g, log[g], pos[g], ctx[g], read[g], base[g], cut[g], a.S)
      BY <3>2, <2>2, <1>5, OtherLogsStay
    <3> QED
      BY <3>1, <3>3 DEF LogOK
  <2> QED
    BY <2>1, <2>2
<1> QED
  BY <1>6, <1>7 DEF CodexInv

\* The lines rs, from the number first on, are what readNewLines reads of the
\* log l, which has n lines, when the position is p.
NewLinesOf(l, n, p, from, first, rs) ==
  /\ n = Len(l.lines) /\ from = (IF p \in 0..(3 * n + l.part) THEN p ELSE 0)
  /\ first = (from + 2) \div 3 + 1 /\ ~(3 * n <= from)
  /\ rs = SubSeq(l.lines, first, n)

\* They follow what has been read.
LEMMA NewLinesFollow ==
  ASSUME NEW f \in Logs, NEW S, NEW l \in LogStates, NEW n \in Nat,
         NEW p \in Nat \cup {Untracked}, NEW id, NEW rd \in Seq(Nat), NEW b \in Nat, NEW c \in Nat,
         GoodLog(f, l, p, id, rd, b, c, S), l.dir # "none",
         NEW from \in Nat, NEW first, NEW rs, NewLinesOf(l, n, p, from, first, rs)
  PROVE  /\ first \in Nat \ {0} /\ rs \in Seq(Records)
         /\ ChunkOf(f, l, id, rd, p, b, c, S, rs, first, 3 * n)
<1>1. l.lines \in Seq(Records) /\ l.part \in 0..2
  BY DEF LogStates
<1>2. /\ first \in Nat \ {0} /\ from + 3 <= 3 * first /\ 3 * first <= from + 5 /\ first <= n + 1
      /\ from < 3 * n
  <2>1. PICK k \in Nat : k = (from + 2) \div 3
    OBVIOUS
  <2>2. 3 * k <= from + 2 /\ from + 2 < 3 * k + 3
    BY <2>1
  <2>3. first = k + 1 /\ ~(3 * n <= from)
    BY <2>1 DEF NewLinesOf
  <2> QED
    BY <2>2, <2>3
<1>3. rs \in Seq(Records) /\ Len(rs) = n + 1 - first
      /\ \A i \in 1..(n + 1 - first) : rs[i] = l.lines[first + i - 1]
  <2>0. n = Len(l.lines) /\ rs = SubSeq(l.lines, first, n)
    BY DEF NewLinesOf
  <2>1. \A i \in first..n : l.lines[i] \in Records
    BY <2>0, <1>1, <1>2
  <2>2. CASE first <= n
    <3>1. /\ rs \in Seq(Records) /\ Len(rs) = n - first + 1
          /\ \A i \in 1..(n - first + 1) : rs[i] = l.lines[first + i - 1]
      BY <2>0, <2>1, <2>2, <1>1, <1>2, SubSeqProperties
    <3>2. n - first + 1 = n + 1 - first
      BY <1>2
    <3> QED
      BY <3>1, <3>2
  <2>3. CASE first = n + 1
    <3>1. rs = <<>>
      BY <2>0, <2>3, <1>1, <1>2
    <3>2. n + 1 - first = 0
      BY <2>3, <1>2
    <3> QED
      BY <3>1, <3>2
  <2> QED
    BY <2>2, <2>3, <1>2
<1>4. \/ rd = <<>> /\ from = 0
      \/ /\ p \in Nat /\ from = p /\ p <= 3 * n
         /\ InOrder(rd, p) /\ SaysLast(f, l, id, rd, S) /\ NonePassed(rd, p, b, c)
  <2>0. n = Len(l.lines) /\ from = (IF p \in 0..(3 * n + l.part) THEN p ELSE 0)
    BY DEF NewLinesOf
  <2>1. CASE p = Untracked
    <3>1. rd = <<>>
      BY <2>1 DEF GoodLog
    <3>2. p = -1
      BY <2>1 DEF Untracked
    <3>3. p \notin 0..(3 * n + l.part)
      BY <3>2, <1>1
    <3>4. from = IF p \in 0..(3 * n + l.part) THEN p ELSE 0
      BY <2>0
    <3>5. from = 0
      BY <3>3, <3>4
    <3> QED
      BY <3>1, <3>5
  <2>2. CASE p # Untracked
    <3>1. p \in Nat /\ p <= 3 * n + l.part
      BY <2>0, <2>2 DEF GoodLog
    <3>2. from = p
      BY <3>1, <1>1, <2>0
    <3>3. p <= 3 * n
      BY <3>2, <1>2
    <3> QED
      BY <3>1, <3>2, <3>3, <2>2 DEF GoodLog
  <2> QED
    BY <2>1, <2>2
<1>5. \A i \in 1..Len(rs) : rs[i] = RecordAt(l, first + i - 1)
  <2> SUFFICES ASSUME NEW i \in 1..(n + 1 - first)
               PROVE  rs[i] = RecordAt(l, first + i - 1)
    BY <1>3
  <2>0. n = Len(l.lines)
    BY DEF NewLinesOf
  <2>1. first + i - 1 <= Len(l.lines)
    BY <2>0, <1>2
  <2> QED
    BY <2>1, <1>3 DEF RecordAt
<1>6. \A i \in DOMAIN rd : rd[i] < first
  <2> SUFFICES ASSUME NEW i \in DOMAIN rd
               PROVE  rd[i] < first
    OBVIOUS
  <2>1. rd[i] \in Nat /\ rd # <<>>
    OBVIOUS
  <2>2. 3 * rd[i] - 1 <= from
    BY <2>1, <1>4 DEF InOrder
  <2> QED
    BY <2>1, <2>2, <1>2
<1>7. Len(rs) > 0 => 3 * (first + Len(rs) - 1) - 1 <= 3 * n
  <2>1. PICK k \in Nat : k = Len(rs)
    BY <1>3
  <2>2. k = n + 1 - first
    BY <2>1, <1>3
  <2>3. k > 0 => 3 * (first + k - 1) - 1 <= 3 * n
    BY <2>2, <1>2
  <2> QED
    BY <2>1, <2>3
<1>8. ASSUME NEW k \in Nat \ {0}, 3 * (k - 1) >= b, 3 * (k - 1) < 3 * n
      PROVE  k = c \/ (\E i \in DOMAIN rd : rd[i] = k) \/ (first <= k /\ k < first + Len(rs))
  <2>1. CASE 3 * (k - 1) >= from
    <3>1. first <= k /\ k < n + 1
      BY <2>1, <1>8, <1>2
    <3>2. PICK m \in Nat : m = Len(rs)
      BY <1>3
    <3>3. m = n + 1 - first
      BY <3>2, <1>3
    <3>4. first + m = n + 1
      BY <3>3, <1>2
    <3> QED
      BY <3>1, <3>2, <3>4
  <2>2. CASE 3 * (k - 1) < from
    <3>1. from # 0
      BY <2>2
    <3>2. from = p /\ NonePassed(rd, p, b, c)
      BY <3>1, <1>4
    <3>3. 3 * (k - 1) < p
      BY <3>2, <2>2
    <3> QED
      BY <3>2, <3>3, <1>8 DEF NonePassed
  <2>3. 3 * (k - 1) >= from \/ 3 * (k - 1) < from
    OBVIOUS
  <2> QED
    BY <2>1, <2>2, <2>3
<1>9. l.part # 0 => l.next \in Records
  BY DEF GoodLog
<1>10. rd = <<>> \/ (p \in Nat /\ InOrder(rd, p) /\ SaysLast(f, l, id, rd, S) /\ p <= 3 * n)
  BY <1>4
<1>11. 3 * n <= 3 * Len(l.lines) + l.part
  BY <1>1 DEF NewLinesOf
<1> QED
  BY <1>2, <1>3, <1>5, <1>6, <1>7, <1>8, <1>9, <1>10, <1>11 DEF ChunkOf

\* readNewLines keeps the invariant.
LEMMA NewLinesKeep ==
  ASSUME CodexInv, NEW f \in Logs, Exists(f), ReadNewLines(f), UNCHANGED <<log, base, cut>>
  PROVE  CodexInv'
<1>1. /\ log[f] \in LogStates /\ log[f].lines \in Seq(Records) /\ Len(log[f].lines) \in Nat
      /\ log[f].part \in 0..2 /\ pos[f] \in Nat \cup {Untracked} /\ read[f] \in Seq(Nat)
      /\ base[f] \in Nat /\ cut[f] \in Nat /\ ctx[f] \in {f, DefaultId}
      /\ sessions \in Lists(CodexIds, "codex")
  BY LogTypes
<1>2. PICK n \in Nat : n = Len(log[f].lines)
  BY <1>1
<1>3. PICK from \in Nat : from = IF pos[f] \in 0..(3 * n + log[f].part) THEN pos[f] ELSE 0
  BY <1>1, <1>2
<1>4. PICK first : first = (from + 2) \div 3 + 1
  OBVIOUS
<1>5. PICK rs : rs = SubSeq(log[f].lines, first, n)
  OBVIOUS
<1>6. IF 3 * n <= from THEN UNCHANGED <<sessions, pos, ctx, read>>
      ELSE pos' = [pos EXCEPT ![f] = 3 * n] /\ Parse(f, ctx[f], first, rs)
  BY <1>2, <1>3, <1>4, <1>5 DEF ReadNewLines, LogSize, NewPosition
<1>7. CASE 3 * n <= from
  <2>1. UNCHANGED <<sessions, log, pos, ctx, read, base, cut>>
    BY <1>6, <1>7
  <2> QED
    BY <2>1 DEF CodexInv, CodexTypeOK, LogOK
<1>8. CASE ~(3 * n <= from)
  <2>1. pos' = [pos EXCEPT ![f] = 3 * n] /\ Parse(f, ctx[f], first, rs)
    BY <1>6, <1>8
  <2>2. PICK b \in Nat : b = base[f]
    BY <1>1
  <2>3. PICK c \in Nat : c = cut[f]
    BY <1>1
  <2>4. base' = [base EXCEPT ![f] = b] /\ cut' = [cut EXCEPT ![f] = c]
    BY <2>2, <2>3 DEF CodexInv, CodexTypeOK
  <2>5. /\ first \in Nat \ {0} /\ rs \in Seq(Records)
        /\ ChunkOf(f, log[f], ctx[f], read[f], pos[f], b, c, sessions, rs, first, 3 * n)
    <3>1. GoodLog(f, log[f], pos[f], ctx[f], read[f], b, c, sessions) /\ log[f].dir # "none"
      BY <2>2, <2>3 DEF CodexInv, LogOK, Exists
    <3> QED
      <4>1. NewLinesOf(log[f], n, pos[f], from, first, rs)
        BY <1>2, <1>3, <1>4, <1>5, <1>8 DEF NewLinesOf
      <4>2. PICK l \in LogStates : l = log[f]
        BY <1>1
      <4>3. PICK p \in Nat \cup {Untracked} : p = pos[f]
        BY <1>1
      <4>4. PICK rd \in Seq(Nat) : rd = read[f]
        BY <1>1
      <4>5. PICK id : id = ctx[f]
        OBVIOUS
      <4>6. GoodLog(f, l, p, id, rd, b, c, sessions) /\ l.dir # "none"
            /\ NewLinesOf(l, n, p, from, first, rs)
        BY <3>1, <4>1, <4>2, <4>3, <4>4, <4>5
      <4>7. first \in Nat \ {0} /\ rs \in Seq(Records)
            /\ ChunkOf(f, l, id, rd, p, b, c, sessions, rs, first, 3 * n)
        BY <4>6, NewLinesFollow
      <4> QED
        BY <4>2, <4>3, <4>4, <4>5, <4>7
  <2>6. 3 * n \in Nat
    OBVIOUS
  <2> QED
    BY <2>1, <2>4, <2>5, <2>6, <1>1, ParseKeeps
<1> QED
  BY <1>7, <1>8

\* What readFullFile reads of a log, which has n whole lines.
AllLinesOf(l, n, rs) ==
  n = Len(l.lines) /\ rs = l.lines \o (IF l.part = 2 THEN <<l.next>> ELSE <<>>)

\* It follows what has been read of a log that is not known: nothing.
LEMMA AllLinesFollow ==
  ASSUME NEW f \in Logs, NEW S, NEW l \in LogStates, NEW n \in Nat,
         NEW p, NEW id, l.part # 0 => l.next \in Records, l.dir # "none",
         NEW rs, AllLinesOf(l, n, rs)
  PROVE  /\ rs \in Seq(Records)
         /\ ChunkOf(f, l, id, <<>>, p, 0, IF l.part = 1 THEN n + 1 ELSE 0, S, rs, 1, 3 * n + l.part)
<1>1. l.lines \in Seq(Records) /\ l.part \in 0..2
  BY DEF LogStates
<1>2. PICK k \in 0..1 : k = IF l.part = 2 THEN 1 ELSE 0
  OBVIOUS
<1>3. n = Len(l.lines) /\ rs = l.lines \o (IF l.part = 2 THEN <<l.next>> ELSE <<>>)
  BY DEF AllLinesOf
<1>4. /\ rs \in Seq(Records) /\ Len(rs) = n + k
      /\ \A i \in 1..(n + k) : rs[i] = IF i <= n THEN l.lines[i] ELSE l.next
  <2>1. CASE l.part = 2
    BY <2>1, <1>1, <1>2, <1>3
  <2>2. CASE l.part # 2
    BY <2>2, <1>1, <1>2, <1>3
  <2> QED
    BY <2>1, <2>2
<1>5. \A i \in 1..Len(rs) : rs[i] = RecordAt(l, 1 + i - 1)
  <2> SUFFICES ASSUME NEW i \in 1..(n + k)
               PROVE  rs[i] = RecordAt(l, 1 + i - 1)
    BY <1>4
  <2>1. 1 + i - 1 = i
    OBVIOUS
  <2>2. RecordAt(l, i) = IF i <= n THEN l.lines[i] ELSE l.next
    BY <1>3 DEF RecordAt
  <2> QED
    BY <2>1, <2>2, <1>4
<1>6. Len(rs) > 0 => 3 * (1 + Len(rs) - 1) - 1 <= 3 * n + l.part
  <2>1. n + k > 0 => 3 * (1 + (n + k) - 1) - 1 <= 3 * n + l.part
    BY <1>1, <1>2
  <2> QED
    BY <2>1, <1>4
<1>7. ASSUME NEW m \in Nat \ {0}, 3 * (m - 1) < 3 * n + l.part
      PROVE  m = (IF l.part = 1 THEN n + 1 ELSE 0) \/ (1 <= m /\ m < 1 + Len(rs))
  <2>1. m = (IF l.part = 1 THEN n + 1 ELSE 0) \/ (1 <= m /\ m < 1 + (n + k))
    BY <1>1, <1>2, <1>7
  <2> QED
    BY <2>1, <1>4
<1>8. DOMAIN <<>> = {}
  OBVIOUS
<1>9. 3 * n + l.part <= 3 * Len(l.lines) + l.part
  BY <1>1, <1>3
<1>10. PICK rd : rd = <<>>
  OBVIOUS
<1>11. PICK c : c = IF l.part = 1 THEN n + 1 ELSE 0
  OBVIOUS
<1>12. PICK e : e = 3 * n + l.part
  OBVIOUS
<1>13. \A m \in Nat \ {0} : 3 * (m - 1) >= 0 /\ 3 * (m - 1) < e =>
         m = c \/ (\E i \in DOMAIN rd : rd[i] = m) \/ (1 <= m /\ m < 1 + Len(rs))
  BY <1>7, <1>11, <1>12
<1>14. \A i \in DOMAIN rd : rd[i] < 1
  BY <1>8, <1>10
<1>15. Len(rs) > 0 => 3 * (1 + Len(rs) - 1) - 1 <= e
  BY <1>6, <1>12
<1>16. e <= 3 * Len(l.lines) + l.part
  BY <1>9, <1>12
<1>17. ChunkOf(f, l, id, rd, p, 0, c, S, rs, 1, e)
  BY <1>5, <1>10, <1>13, <1>14, <1>15, <1>16 DEF ChunkOf
<1> QED
  BY <1>4, <1>10, <1>11, <1>12, <1>17

\* readFullFile keeps the invariant.
LEMMA FullReadKeeps ==
  ASSUME CodexInv, NEW f \in Logs, pos[f] = Untracked, Exists(f), ReadFullFile(f), UNCHANGED log
  PROVE  CodexInv'
<1>1. /\ log[f] \in LogStates /\ log[f].lines \in Seq(Records) /\ Len(log[f].lines) \in Nat
      /\ log[f].part \in 0..2
  BY LogTypes
<1>2. PICK n \in Nat : n = Len(log[f].lines)
  BY <1>1
<1>3. PICK rs : rs = log[f].lines \o (IF log[f].part = 2 THEN <<log[f].next>> ELSE <<>>)
  OBVIOUS
<1>4. PICK e \in Nat : e = 3 * n + log[f].part
  BY <1>1
<1>5. PICK c \in Nat : c = IF log[f].part = 1 THEN n + 1 ELSE 0
  OBVIOUS
<1>6. /\ Parse(f, DefaultId, 1, rs) /\ pos' = [pos EXCEPT ![f] = e]
      /\ base' = [base EXCEPT ![f] = 0] /\ cut' = [cut EXCEPT ![f] = c]
  BY <1>2, <1>3, <1>4, <1>5 DEF ReadFullFile, FullReadEnd, LogSize
<1>7. read[f] = <<>> /\ (log[f].part # 0 => log[f].next \in Records) /\ log[f].dir # "none"
  BY DEF CodexInv, LogOK, GoodLog, Exists
<1>8. /\ rs \in Seq(Records)
      /\ ChunkOf(f, log[f], DefaultId, read[f], pos[f], 0, c, sessions, rs, 1, e)
  <2>1. AllLinesOf(log[f], n, rs)
    BY <1>2, <1>3 DEF AllLinesOf
  <2>2. /\ rs \in Seq(Records)
        /\ ChunkOf(f, log[f], DefaultId, <<>>, pos[f], 0, IF log[f].part = 1 THEN n + 1 ELSE 0,
                   sessions, rs, 1, 3 * n + log[f].part)
    BY <2>1, <1>1, <1>7, AllLinesFollow
  <2> QED
    BY <2>2, <1>4, <1>5, <1>7
<1>9. 0 \in Nat /\ 1 \in Nat \ {0} /\ DefaultId \in {f, DefaultId}
  OBVIOUS
<1> QED
  BY <1>6, <1>8, <1>9, ParseKeeps

\* The other logs' part of the invariant stays when f's variables alone change.
LEMMA OneLogChanges ==
  ASSUME CodexInv, NEW f \in Logs, CodexTypeOK', LogOK(f)', sessions' = sessions,
         \A g \in Logs \ {f} : /\ log'[g] = log[g] /\ pos'[g] = pos[g] /\ ctx'[g] = ctx[g]
                               /\ read'[g] = read[g] /\ base'[g] = base[g] /\ cut'[g] = cut[g]
  PROVE  CodexInv'
<1>1. ASSUME NEW g \in Logs
      PROVE  LogOK(g)'
  <2>1. CASE g = f
    BY <2>1
  <2>2. CASE g # f
    <3>1. LogOK(g)
      BY DEF CodexInv
    <3> QED
      BY <3>1, <2>2 DEF LogOK
  <2> QED
    BY <2>1, <2>2
<1> QED
  BY <1>1 DEF CodexInv

\* checkActiveFiles keeps the invariant.
LEMMA CheckKeeps ==
  ASSUME CodexInv, NEW f \in Logs, CheckActiveFiles(f)
  PROVE  CodexInv'
<1>1. CASE pos[f] # Untracked /\ Polled(f) /\ ReadNewLines(f) /\ UNCHANGED <<base, cut>>
  BY <1>1, NewLinesKeep DEF CheckActiveFiles, Polled
<1>2. CASE /\ pos[f] # Untracked /\ ~Exists(f)
           /\ pos' = [pos EXCEPT ![f] = Untracked]
           /\ ctx' = [ctx EXCEPT ![f] = DefaultId]
           /\ read' = [read EXCEPT ![f] = <<>>]
           /\ UNCHANGED <<sessions, base, cut>>
  <2>1. UNCHANGED log
    BY DEF CheckActiveFiles
  <2>2. <<>> \in Seq(Nat) /\ DefaultId \in CodexIds
    BY DEF CodexIds
  <2>3. CodexTypeOK'
    BY <1>2, <2>1, <2>2 DEF CodexInv, CodexTypeOK
  <2>4. pos'[f] = Untracked /\ ctx'[f] = DefaultId /\ read'[f] = <<>>
    BY <1>2 DEF CodexInv, CodexTypeOK
  <2>5. log'[f] = log[f] /\ (log[f].part # 0 => log[f].next \in Records)
        /\ (log[f].dir = "none" => log[f] = NoLog)
    BY <2>1 DEF CodexInv, LogOK, GoodLog
  <2>6. Rising(<<>>)
    BY DEF Rising
  <2>7. LogOK(f)'
    BY <2>4, <2>5, <2>6 DEF LogOK, GoodLog
  <2>8. \A g \in Logs \ {f} : /\ log'[g] = log[g] /\ pos'[g] = pos[g] /\ ctx'[g] = ctx[g]
                               /\ read'[g] = read[g] /\ base'[g] = base[g] /\ cut'[g] = cut[g]
    BY <1>2, <2>1 DEF CodexInv, CodexTypeOK
  <2> QED
    BY <1>2, <2>3, <2>7, <2>8, OneLogChanges
<1>3. CASE pos[f] = Untracked /\ log[f].dir = "today" /\ ReadFullFile(f)
  BY <1>3, FullReadKeeps DEF CheckActiveFiles, Exists
<1> QED
  BY <1>1, <1>2, <1>3 DEF CheckActiveFiles, CheckFile

\* A step that changes one log, while its lines stay or the record that lacked
\* its newline becomes the last.
LEMMA LogChanges ==
  ASSUME CodexInv, NEW f \in Logs, NEW l \in LogStates, log' = [log EXCEPT ![f] = l],
         UNCHANGED <<sessions, pos, ctx, read, base, cut>>,
         GoodLog(f, l, pos[f], ctx[f], read[f], base[f], cut[f], sessions)
  PROVE  CodexInv'
<1>1. CodexTypeOK'
  BY DEF CodexInv, CodexTypeOK
<1>2. log'[f] = l /\ \A g \in Logs \ {f} : log'[g] = log[g]
  BY DEF CodexInv, CodexTypeOK
<1>3. LogOK(f)'
  BY <1>2 DEF LogOK
<1> QED
  BY <1>1, <1>2, <1>3, OneLogChanges

\* A new log keeps the invariant.
LEMMA CreateKeeps ==
  ASSUME CodexInv, NEW f \in Logs, Create(f)
  PROVE  CodexInv'
<1>1. PICK l : l = [lines |-> <<>>, part |-> 0, next |-> "none", dir |-> "today"]
  OBVIOUS
<1>2. l \in LogStates /\ l.part = 0 /\ l.dir = "today"
  BY <1>1 DEF LogStates
<1>3. log' = [log EXCEPT ![f] = l]
  <2>1. [log[f] EXCEPT !.dir = "today"] = l
    BY <1>1 DEF Create, NoLog
  <2>2. log' = [log EXCEPT ![f].dir = "today"]
    BY DEF Create
  <2> QED
    BY <2>1, <2>2
<1>4. GoodLog(f, log[f], pos[f], ctx[f], read[f], base[f], cut[f], sessions) /\ pos[f] = Untracked
  BY DEF CodexInv, LogOK, Create
<1>5. GoodLog(f, l, pos[f], ctx[f], read[f], base[f], cut[f], sessions)
  BY <1>2, <1>4 DEF GoodLog
<1> QED
  BY <1>2, <1>3, <1>5, LogChanges DEF Create

\* A log the user deletes keeps it.
LEMMA DeleteKeeps ==
  ASSUME CodexInv, NEW f \in Logs, Delete(f)
  PROVE  CodexInv'
<1>1. NoLog \in LogStates /\ NoLog.part = 0 /\ NoLog.dir = "none"
  BY DEF LogStates, NoLog
<1>2. GoodLog(f, log[f], pos[f], ctx[f], read[f], base[f], cut[f], sessions)
  BY DEF CodexInv, LogOK
<1>3. GoodLog(f, NoLog, pos[f], ctx[f], read[f], base[f], cut[f], sessions)
  BY <1>1, <1>2 DEF GoodLog
<1> QED
  BY <1>1, <1>3, LogChanges DEF Delete

\* A log stays followed when it has grown and its records are what they were.
LEMMA LogGrows ==
  ASSUME NEW f \in Logs, NEW l \in LogStates, NEW k \in LogStates, NEW S, NEW p \in Nat \cup {Untracked},
         NEW id, NEW rd \in Seq(Nat), NEW b, NEW c, GoodLog(f, l, p, id, rd, b, c, S),
         k.dir # "none", l.dir # "none", k.part # 0 => k.next \in Records,
         3 * Len(l.lines) + l.part <= 3 * Len(k.lines) + k.part,
         \A n \in Nat \ {0} : 3 * n - 1 <= 3 * Len(l.lines) + l.part => RecordAt(k, n) = RecordAt(l, n)
  PROVE  GoodLog(f, k, p, id, rd, b, c, S)
<1>1. CASE p = Untracked
  BY <1>1 DEF GoodLog
<1>2. CASE p # Untracked
  <2>1. p \in Nat /\ p <= 3 * Len(l.lines) + l.part /\ InOrder(rd, p) /\ SaysLast(f, l, id, rd, S)
    BY <1>2 DEF GoodLog
  <2>2. PICK s \in Nat : s = 3 * Len(l.lines) + l.part
    BY DEF LogStates
  <2>3. PICK t \in Nat : t = 3 * Len(k.lines) + k.part
    BY DEF LogStates
  <2>4. p <= t
    BY <2>1, <2>2, <2>3
  <2>5. SaysLast(f, k, id, rd, S)
    <3> SUFFICES ASSUME rd # <<>>
                 PROVE  RecordAt(k, rd[Len(rd)]) = RecordAt(l, rd[Len(rd)])
      BY <2>1 DEF SaysLast
    <3>1. Len(rd) \in DOMAIN rd /\ rd[Len(rd)] \in Nat
      OBVIOUS
    <3>2. PICK n \in Nat : n = rd[Len(rd)]
      BY <3>1
    <3>3. n > 0 /\ 3 * n - 1 <= p
      BY <3>1, <3>2, <2>1 DEF InOrder
    <3>4. n \in Nat \ {0} /\ 3 * n - 1 <= s
      BY <3>3, <2>1, <2>2
    <3> QED
      BY <3>2, <3>4, <2>2
  <2> QED
    BY <1>2, <2>1, <2>3, <2>4, <2>5 DEF GoodLog
<1> QED
  BY <1>1, <1>2

\* Part of a line more keeps it.
LEMMA WritesKeep ==
  ASSUME CodexInv, NEW f \in Logs, CodexWrites(f)
  PROVE  CodexInv'
<1>1. PICK l \in LogStates : l = log[f]
  BY LogTypes
<1>2. GoodLog(f, l, pos[f], ctx[f], read[f], base[f], cut[f], sessions) /\ l.dir # "none"
      /\ pos[f] \in Nat \cup {Untracked} /\ read[f] \in Seq(Nat)
  BY <1>1, LogTypes DEF CodexInv, LogOK, CodexWrites, Exists
<1>3. PICK n \in Nat : n = Len(l.lines)
  BY DEF LogStates
<1>4. \E k \in LogStates :
        /\ log' = [log EXCEPT ![f] = k] /\ k.dir # "none" /\ (k.part # 0 => k.next \in Records)
        /\ 3 * n + l.part <= 3 * Len(k.lines) + k.part
        /\ \A i \in Nat \ {0} : 3 * i - 1 <= 3 * n + l.part => RecordAt(k, i) = RecordAt(l, i)
  <2>1. CASE l.part = 0 /\ \E r \in Records : log' = [log EXCEPT ![f].next = r, ![f].part = 1]
    <3>1. PICK r \in Records : log' = [log EXCEPT ![f].next = r, ![f].part = 1]
      BY <2>1
    <3>2. PICK k : k = [l EXCEPT !.next = r, !.part = 1]
      OBVIOUS
    <3>3. k \in LogStates /\ k.part = 1 /\ k.next = r /\ k.lines = l.lines /\ k.dir = l.dir
      <4>1. k.part = 1 /\ k.next = r /\ k.lines = l.lines /\ k.dir = l.dir
        BY <3>2 DEF LogStates
      <4>2. k = [lines |-> l.lines, part |-> 1, next |-> r, dir |-> l.dir]
        BY <3>2 DEF LogStates
      <4>3. l.lines \in Seq(Records) /\ l.dir \in {"none", "today", "older"}
        BY DEF LogStates
      <4>4. k \in LogStates
        BY <4>2, <4>3 DEF LogStates
      <4> QED
        BY <4>1, <4>4
    <3>4. log' = [log EXCEPT ![f] = k]
      BY <3>1, <3>2, <1>1 DEF CodexInv, CodexTypeOK
    <3>5. ASSUME NEW i \in Nat \ {0}, 3 * i - 1 <= 3 * n + l.part
          PROVE  RecordAt(k, i) = RecordAt(l, i)
      <4>1. i <= n
        BY <2>1, <3>5
      <4> QED
        BY <4>1, <3>3, <1>3 DEF RecordAt
    <3>6. 3 * n + l.part <= 3 * n + 1
      BY <2>1
    <3> QED
      BY <3>3, <3>4, <3>5, <3>6, <1>2, <1>3
  <2>2. CASE l.part = 1 /\ log' = [log EXCEPT ![f].part = 2]
    <3>2. PICK k : k = [l EXCEPT !.part = 2]
      OBVIOUS
    <3>3. k \in LogStates /\ k.part = 2 /\ k.next = l.next /\ k.lines = l.lines /\ k.dir = l.dir
          /\ l.next \in Records
      BY <3>2, <2>2, <1>2 DEF LogStates, GoodLog
    <3>4. log' = [log EXCEPT ![f] = k]
      BY <2>2, <3>2, <1>1 DEF CodexInv, CodexTypeOK
    <3>5. ASSUME NEW i \in Nat \ {0}, 3 * i - 1 <= 3 * n + l.part
          PROVE  RecordAt(k, i) = RecordAt(l, i)
      BY <3>3 DEF RecordAt
    <3>6. 3 * n + l.part <= 3 * n + 2
      BY <2>2
    <3> QED
      BY <3>3, <3>4, <3>5, <3>6, <1>2, <1>3
  <2>3. CASE /\ l.part = 2
             /\ log' = [log EXCEPT ![f].lines = Append(@, log[f].next), ![f].part = 0, ![f].next = "none"]
    <3>1. l.next \in Records /\ l.lines \in Seq(Records)
      BY <2>3, <1>2 DEF GoodLog, LogStates
    <3>2. PICK m : m = Append(l.lines, l.next)
      OBVIOUS
    <3>3. m \in Seq(Records) /\ Len(m) = n + 1 /\ m[n + 1] = l.next
          /\ \A i \in 1..n : m[i] = l.lines[i]
      BY <3>1, <3>2, <1>3
    <3>4. PICK k : k = [l EXCEPT !.lines = m, !.part = 0, !.next = "none"]
      OBVIOUS
    <3>5. k \in LogStates /\ k.part = 0 /\ k.lines = m /\ k.dir = l.dir
      <4>1. k.part = 0 /\ k.lines = m /\ k.dir = l.dir
        BY <3>4 DEF LogStates
      <4>2. k = [lines |-> m, part |-> 0, next |-> "none", dir |-> l.dir]
        BY <3>4 DEF LogStates
      <4>3. l.dir \in {"none", "today", "older"}
        BY DEF LogStates
      <4>4. k \in LogStates
        BY <4>2, <4>3, <3>3 DEF LogStates
      <4> QED
        BY <4>1, <4>4
    <3>6. log' = [log EXCEPT ![f] = k]
      BY <2>3, <3>2, <3>4, <1>1 DEF CodexInv, CodexTypeOK
    <3>7. ASSUME NEW i \in Nat \ {0}, 3 * i - 1 <= 3 * n + l.part
          PROVE  RecordAt(k, i) = RecordAt(l, i)
      <4>1. i <= n + 1 /\ (i <= n => i \in 1..n) /\ (~(i <= n) => i = n + 1)
        BY <2>3, <3>7
      <4>2. RecordAt(k, i) = m[i]
        BY <4>1, <3>3, <3>5 DEF RecordAt
      <4>3. RecordAt(l, i) = IF i <= n THEN l.lines[i] ELSE l.next
        BY <1>3 DEF RecordAt
      <4> QED
        BY <4>1, <4>2, <4>3, <3>3
    <3>8. 3 * n + l.part <= 3 * (n + 1) + 0
      BY <2>3
    <3> QED
      BY <3>3, <3>5, <3>6, <3>7, <3>8, <1>2
  <2> QED
    BY <2>1, <2>2, <2>3, <1>1 DEF CodexWrites
<1>5. PICK k \in LogStates :
        /\ log' = [log EXCEPT ![f] = k] /\ k.dir # "none" /\ (k.part # 0 => k.next \in Records)
        /\ 3 * n + l.part <= 3 * Len(k.lines) + k.part
        /\ \A i \in Nat \ {0} : 3 * i - 1 <= 3 * n + l.part => RecordAt(k, i) = RecordAt(l, i)
  BY <1>4
<1>6. /\ 3 * Len(l.lines) + l.part <= 3 * Len(k.lines) + k.part
      /\ \A i \in Nat \ {0} : 3 * i - 1 <= 3 * Len(l.lines) + l.part => RecordAt(k, i) = RecordAt(l, i)
  BY <1>3, <1>5
<1>7. GoodLog(f, k, pos[f], ctx[f], read[f], base[f], cut[f], sessions)
  <2>1. PICK p \in Nat \cup {Untracked} : p = pos[f]
    BY <1>2
  <2>2. PICK rd \in Seq(Nat) : rd = read[f]
    BY <1>2
  <2>3. PICK id : id = ctx[f]
    OBVIOUS
  <2>4. GoodLog(f, l, p, id, rd, base[f], cut[f], sessions)
    BY <2>1, <2>2, <2>3, <1>2
  <2>5. GoodLog(f, k, p, id, rd, base[f], cut[f], sessions)
    BY <2>4, <1>2, <1>5, <1>6, LogGrows
  <2> QED
    BY <2>1, <2>2, <2>3, <2>5
<1> QED
  BY <1>5, <1>7, LogChanges DEF CodexWrites

\* A new day keeps it.
LEMMA MidnightKeeps ==
  ASSUME CodexInv, Midnight
  PROVE  CodexInv'
<1>1. log' = [f \in Logs |-> IF log[f].dir = "today" THEN [log[f] EXCEPT !.dir = "older"] ELSE log[f]]
      /\ UNCHANGED <<sessions, pos, ctx, read, base, cut>>
  BY DEF Midnight
<1>2. ASSUME NEW f \in Logs
      PROVE  log'[f] \in LogStates /\ LogOK(f)'
  <2>1. PICK l \in LogStates : l = log[f]
    BY LogTypes
  <2>2. GoodLog(f, l, pos[f], ctx[f], read[f], base[f], cut[f], sessions)
    BY <2>1 DEF CodexInv, LogOK
  <2>3. CASE l.dir = "today"
    <3>1. PICK k : k = [l EXCEPT !.dir = "older"]
      OBVIOUS
    <3>2. k \in LogStates /\ k.lines = l.lines /\ k.part = l.part /\ k.next = l.next /\ k.dir = "older"
      BY <3>1 DEF LogStates
    <3>3. log'[f] = k
      BY <3>1, <2>1, <2>3, <1>1
    <3>4. GoodLog(f, k, pos[f], ctx[f], read[f], base[f], cut[f], sessions)
      BY <3>2, <2>2, <2>3 DEF GoodLog, SaysLast, RecordAt
    <3> QED
      BY <3>2, <3>3, <3>4, <1>1 DEF LogOK
  <2>4. CASE l.dir # "today"
    <3>1. log'[f] = l
      BY <2>1, <2>4, <1>1
    <3> QED
      BY <3>1, <2>2, <1>1 DEF LogOK
  <2> QED
    BY <2>3, <2>4
<1>3. CodexTypeOK'
  BY <1>1, <1>2 DEF CodexInv, CodexTypeOK
<1> QED
  BY <1>2, <1>3 DEF CodexInv

\* Every step of the tailer and of its world keeps the invariant.
LEMMA CodexKeeps ==
  ASSUME CodexInv, CodexNext
  PROVE  CodexInv'
<1>1. CASE WatchFails
  BY <1>1 DEF WatchFails, CodexInv, CodexTypeOK, LogOK
<1>2. CASE Midnight
  BY <1>2, MidnightKeeps
<1>3. ASSUME NEW f \in Logs, WatchEvent(f)
      PROVE  CodexInv'
  BY <1>3, NewLinesKeep DEF WatchEvent
<1>4. ASSUME NEW f \in Logs, CheckActiveFiles(f)
      PROVE  CodexInv'
  BY <1>4, CheckKeeps
<1>5. ASSUME NEW f \in Logs, Create(f)
      PROVE  CodexInv'
  BY <1>5, CreateKeeps
<1>6. ASSUME NEW f \in Logs, CodexWrites(f)
      PROVE  CodexInv'
  BY <1>6, WritesKeep
<1>7. ASSUME NEW f \in Logs, Delete(f)
      PROVE  CodexInv'
  BY <1>7, DeleteKeeps
<1> QED
  BY <1>1, <1>2, <1>3, <1>4, <1>5, <1>6, <1>7 DEF CodexNext

\* What the invariant gives: every whole line reaches the list once, in order,
\* and the list says what the last line says.
LEMMA CodexFollowed ==
  ASSUME CodexInv
  PROVE  LogIsFollowed
<1>1. LinesReadOnce
  BY DEF LinesReadOnce, CodexInv, LogOK, GoodLog, Rising
<1>2. ASSUME NEW f \in Logs, Tracked(f)
      PROVE  Between(f, pos[f]) \subseteq Range(read[f]) \cup {cut[f]}
  <2>1. PICK n \in Nat : n = Len(log[f].lines)
    BY LogTypes
  <2>2. pos[f] \in Nat /\ base[f] \in Nat
    BY <1>2, LogTypes DEF Tracked
  <2>3. NonePassed(read[f], pos[f], base[f], cut[f])
    BY <1>2 DEF Tracked, Exists, CodexInv, LogOK, GoodLog
  <2>4. ASSUME NEW i \in 1..n, 3 * (i - 1) >= base[f], 3 * i <= pos[f]
        PROVE  i \in Range(read[f]) \cup {cut[f]}
    <3>1. i \in Nat \ {0} /\ 3 * (i - 1) < pos[f]
      BY <2>2, <2>4
    <3>2. i = cut[f] \/ \E j \in DOMAIN read[f] : read[f][j] = i
      BY <3>1, <2>3, <2>4 DEF NonePassed
    <3> QED
      BY <3>2 DEF Range
  <2> QED
    BY <2>1, <2>4 DEF Between
<1>3. ASSUME NEW f \in Logs, Tracked(f), ctx[f] = f, base[f] = 0, cut[f] = 0, read[f] # <<>>,
             pos[f] = LogSize(f), log[f].part = 0, Known(sessions, f)
      PROVE  Session(sessions, f).status = Says(Last(log[f].lines))
  <2>1. PICK n \in Nat : n = Len(log[f].lines)
    BY LogTypes
  <2>2. pos[f] = 3 * n /\ pos[f] \in Nat
    BY <2>1, <1>3, LogTypes DEF LogSize
  <2>3. /\ InOrder(read[f], pos[f]) /\ NonePassed(read[f], pos[f], base[f], cut[f])
        /\ SaysLast(f, log[f], ctx[f], read[f], sessions)
    BY <1>3 DEF Tracked, Exists, CodexInv, LogOK, GoodLog
  <2>4. PICK rd \in Seq(Nat) : rd = read[f]
    BY LogTypes
  <2>5. PICK k \in Nat \ {0} : k = Len(rd) /\ DOMAIN rd = 1..k
    BY <2>4, <1>3
  <2>51. PICK p \in Nat : p = pos[f]
    BY <2>2
  <2>52. InOrder(rd, p) /\ NonePassed(rd, p, 0, 0) /\ p = 3 * n
    BY <2>2, <2>3, <2>4, <2>51, <1>3
  <2>6. \A i \in 1..k : rd[i] \in Nat /\ rd[i] > 0 /\ 3 * rd[i] - 1 <= 3 * n
    <3> SUFFICES ASSUME NEW i \in 1..k
                 PROVE  rd[i] \in Nat /\ rd[i] > 0 /\ 3 * rd[i] - 1 <= 3 * n
      OBVIOUS
    <3>1. rd[i] \in Nat
      BY <2>5
    <3>2. rd[i] > 0 /\ 3 * rd[i] - 1 <= p
      BY <2>5, <2>52 DEF InOrder
    <3> QED
      BY <3>1, <3>2, <2>52
  <2>7. rd[k] \in Nat \ {0} /\ 3 * rd[k] - 1 <= 3 * n
    BY <2>5, <2>6
  <2>8. n \in Nat \ {0}
    BY <2>7
  <2>9. PICK j \in 1..k : rd[j] = n
    <3>1. n = 0 \/ \E i \in DOMAIN rd : rd[i] = n
      <4>1. 3 * (n - 1) >= 0 /\ 3 * (n - 1) < p
        BY <2>52, <2>8
      <4> QED
        BY <4>1, <2>52, <2>8 DEF NonePassed
    <3> QED
      BY <3>1, <2>5, <2>8
  <2>10. rd[k] = n
    <3>1. j = k \/ rd[j] < rd[k]
      <4>1. j \in DOMAIN rd /\ k \in DOMAIN rd /\ (j < k \/ j = k)
        BY <2>5
      <4> QED
        BY <4>1, <2>52 DEF InOrder, Rising
    <3>2. rd[k] <= n
      BY <2>7
    <3> QED
      BY <3>1, <3>2, <2>7, <2>9
  <2>11. RecordAt(log[f], n) = log[f].lines[n] /\ Last(log[f].lines) = log[f].lines[n]
    BY <2>1 DEF RecordAt, Last
  <2>12. rd # <<>> /\ ctx[f] = f /\ Known(sessions, f)
    BY <2>4, <1>3
  <2>13. Session(sessions, f).status = Says(RecordAt(log[f], rd[Len(rd)]))
    BY <2>3, <2>4, <2>12 DEF SaysLast
  <2> QED
    BY <2>5, <2>10, <2>11, <2>13
<1>4. SessionFollowsLog
  <2> SUFFICES ASSUME NEW f \in Logs, Tracked(f), ctx[f] = f, base[f] = 0, cut[f] = 0, read[f] # <<>>,
                      pos[f] = LogSize(f), log[f].part = 0, Known(sessions, f)
               PROVE  Session(sessions, f).status =
                        CASE Last(log[f].lines) = "tool_begin" -> "running_tool"
                          [] Last(log[f].lines) = "task_complete" -> "completed"
                          [] Last(log[f].lines) = "turn_aborted" -> "error"
                          [] OTHER -> "thinking"
    BY DEF SessionFollowsLog
  <2> QED
    BY <1>3 DEF Says
<1> QED
  BY <1>1, <1>2, <1>4 DEF LogIsFollowed, NoLinePassedOver

(***************************************************************************)
(* The agents together                                                     *)
(***************************************************************************)
\* The tailer's start: the newest log may be read in full.
LEMMA CodexStarts == CodexInit => CodexInv
<1> SUFFICES ASSUME CodexInit
             PROVE  CodexInv
  OBVIOUS
<1> DEFINE h == <<"session_meta">>
           Of(p) == [lines |-> h, part |-> p, next |-> IF p = 0 THEN "none" ELSE "task_complete", dir |-> "today"]
           Sh(p) == h \o (IF p = 2 THEN <<"task_complete">> ELSE <<>>)
<1>0. PICK olds \in SUBSET Logs, start \in Histories, units \in 0..2 :
        \E recent \in {{}} \cup {{f} : f \in olds} : ScanInitialFiles(olds, start, units, recent)
  BY DEF CodexInit
<1>91. start = h
  BY DEF Histories
<1>92. PICK recent \in {{}} \cup {{f} : f \in olds} : ScanInitialFiles(olds, h, units, recent)
  BY <1>0, <1>91
<1>1. /\ log = [f \in Logs |-> IF f \in olds THEN Of(units) ELSE NoLog]
      /\ pos = [f \in Logs |-> IF f \in olds THEN 3 * Len(h) + units ELSE Untracked]
      /\ ctx = [f \in Logs |-> IF f \in recent THEN f ELSE DefaultId]
      /\ read = [f \in Logs |-> IF f \in recent THEN [i \in 1..Len(Sh(units)) |-> i] ELSE <<>>]
      /\ base = [f \in Logs |-> IF f \in olds \ recent THEN 3 * Len(h) + units ELSE 0]
      /\ cut = [f \in Logs |-> IF f \in recent /\ units = 1 THEN Len(h) + 1 ELSE 0]
      /\ sessions = IF recent = {} THEN <<>>
                    ELSE ParseLines(<<>>, CHOOSE f \in Logs : recent = {f}, DefaultId, Sh(units)).S
  BY <1>92 DEF ScanInitialFiles
<1>2. PICK l : l = Of(units)
  OBVIOUS
<1>3. PICK rs : rs = Sh(units)
  OBVIOUS
<1>4. PICK e \in Nat : e = 3 + units
  OBVIOUS
<1>5. PICK c \in Nat : c = IF units = 1 THEN 2 ELSE 0
  OBVIOUS
<1>6. h \in Seq(Records) /\ Len(h) = 1
  BY DEF Records
<1>7. /\ l.lines = h /\ l.part = units /\ l.dir = "today" /\ (units # 0 => l.next = "task_complete")
      /\ l \in LogStates
  <2>1. l.lines = h /\ l.part = units /\ l.dir = "today" /\ (units # 0 => l.next = "task_complete")
    BY <1>2
  <2>2. l \in LogStates
    <3>1. (IF units = 0 THEN "none" ELSE "task_complete") \in Records \cup {"none"}
      BY DEF Records
    <3> QED
      BY <3>1, <1>2, <1>6 DEF LogStates
  <2> QED
    BY <2>1, <2>2
<1>8. AllLinesOf(l, 1, rs) /\ rs[1] = "session_meta" /\ Len(rs) > 0
  <2>1. rs = l.lines \o (IF l.part = 2 THEN <<l.next>> ELSE <<>>)
    BY <1>3, <1>7
  <2>2. rs[1] = "session_meta" /\ Len(rs) > 0
    BY <1>3
  <2> QED
    BY <2>1, <2>2, <1>6, <1>7 DEF AllLinesOf
<1>9. l.part # 0 => l.next \in Records
  BY <1>7 DEF Records
<1>10. ASSUME NEW f \in Logs
       PROVE  /\ rs \in Seq(Records)
              /\ ChunkOf(f, l, DefaultId, <<>>, Untracked, 0, c, <<>>, rs, 1, e)
  <2>1. /\ rs \in Seq(Records)
        /\ ChunkOf(f, l, DefaultId, <<>>, Untracked, 0, IF l.part = 1 THEN 1 + 1 ELSE 0, <<>>, rs, 1, 3 * 1 + l.part)
    <3>1. 1 \in Nat /\ l.dir # "none"
      BY <1>7
    <3> QED
      BY <3>1, <1>7, <1>8, <1>9, AllLinesFollow
  <2>2. (IF l.part = 1 THEN 1 + 1 ELSE 0) = c /\ 3 * 1 + l.part = e
    BY <1>4, <1>5, <1>7
  <2> QED
    BY <2>1, <2>2
<1>11. <<>> \in Lists(CodexIds, "codex") /\ <<>> \in Seq(Nat) /\ 1 \in Nat \ {0}
  BY DEF Lists
<1>12. ASSUME NEW f \in Logs, NEW a, a = ParseLines(<<>>, f, DefaultId, rs),
              NEW q, q = [i \in 1..Len(rs) |-> i]
       PROVE  /\ GoodLog(f, l, e, f, q, 0, c, a.S) /\ a.S \in Lists(CodexIds, "codex")
              /\ q \in Seq(Nat)
  <2>1. PICK S \in Lists(CodexIds, "codex") : S = <<>>
    BY <1>11
  <2>2. PICK rd \in Seq(Nat) : rd = <<>>
    BY <1>11
  <2>3. ChunkOf(f, l, DefaultId, rd, Untracked, 0, c, S, rs, 1, e) /\ rs \in Seq(Records)
    BY <2>1, <2>2, <1>10
  <2>4. DefaultId \in {f, DefaultId}
    OBVIOUS
  <2>5. a = ParseLines(S, f, DefaultId, rs)
    BY <2>1, <1>12
  <2>6. q = rd \o Numbered(1, Len(rs))
    <3>1. PICK k \in Nat : k = Len(rs)
      BY <2>3
    <3>2. Numbered(1, k) = [i \in 1..k |-> i]
      BY DEF Numbered
    <3>3. Numbered(1, k) \in Seq(Nat)
      BY <3>2
    <3>4. <<>> \o Numbered(1, k) = Numbered(1, k)
      BY <3>3
    <3> QED
      BY <3>1, <3>2, <3>4, <2>2, <1>12
  <2>7. CodexChunkRead(f, S, l, a, q, e, 0, c)
    BY <2>3, <2>4, <2>5, <2>6, <1>11, ChunkFollowed
  <2>8. ReadWell(a, S, f, rs, Len(rs))
    BY <2>3, <2>5, LogRead
  <2>9. a.id = f
    BY <2>8, <1>8 DEF ReadWell
  <2> QED
    BY <2>7, <2>9 DEF CodexChunkRead
<1>13. /\ log = [f \in Logs |-> IF f \in olds THEN l ELSE NoLog]
       /\ pos = [f \in Logs |-> IF f \in olds THEN e ELSE Untracked]
       /\ ctx = [f \in Logs |-> IF f \in recent THEN f ELSE DefaultId]
       /\ read = [f \in Logs |-> IF f \in recent THEN [i \in 1..Len(rs) |-> i] ELSE <<>>]
       /\ base = [f \in Logs |-> IF f \in olds \ recent THEN e ELSE 0]
       /\ cut = [f \in Logs |-> IF f \in recent THEN c ELSE 0]
       /\ sessions = IF recent = {} THEN <<>>
                     ELSE ParseLines(<<>>, CHOOSE f \in Logs : recent = {f}, DefaultId, rs).S
  <2>1. 3 * Len(h) + units = e /\ Len(h) + 1 = 2
    BY <1>4, <1>6
  <2>2. \A f \in Logs : (IF f \in recent /\ units = 1 THEN 2 ELSE 0) = IF f \in recent THEN c ELSE 0
    BY <1>5
  <2>3. cut = [f \in Logs |-> IF f \in recent THEN c ELSE 0]
    BY <1>1, <2>1, <2>2
  <2> QED
    BY <1>1, <1>2, <1>3, <2>1, <2>3
<1> HIDE DEF h, Of, Sh
<1>14. NoLog \in LogStates /\ NoLog.part = 0 /\ NoLog.dir = "none"
  BY DEF LogStates, NoLog
<1>15. ASSUME NEW f \in Logs, NEW S
       PROVE  /\ GoodLog(f, NoLog, Untracked, DefaultId, <<>>, 0, 0, S)
              /\ GoodLog(f, l, e, DefaultId, <<>>, e, 0, S)
  <2>1. Rising(<<>>) /\ InOrder(<<>>, e)
    BY DEF Rising, InOrder
  <2>2. GoodLog(f, NoLog, Untracked, DefaultId, <<>>, 0, 0, S)
    BY <2>1, <1>14 DEF GoodLog
  <2>3. NonePassed(<<>>, e, e, 0)
    BY DEF NonePassed
  <2>4. e <= 3 * Len(l.lines) + l.part
    <3>1. Len(l.lines) = 1
      BY <1>6, <1>7
    <3> QED
      BY <3>1, <1>4, <1>7
  <2>5. SaysLast(f, l, DefaultId, <<>>, S)
    BY DEF SaysLast
  <2>6. GoodLog(f, l, e, DefaultId, <<>>, e, 0, S)
    BY <2>1, <2>3, <2>4, <2>5, <1>7, <1>9 DEF GoodLog
  <2> QED
    BY <2>2, <2>6
<1>16. ASSUME recent = {}
       PROVE  CodexInv
  <2>1. sessions = <<>>
    BY <1>13, <1>16
  <2>2. CodexTypeOK
    BY <2>1, <1>7, <1>11, <1>13, <1>14, <1>16 DEF CodexTypeOK, CodexIds
  <2>3. ASSUME NEW f \in Logs
        PROVE  LogOK(f)
    <3>1. CASE f \in olds
      <4>1. /\ log[f] = l /\ pos[f] = e /\ ctx[f] = DefaultId /\ read[f] = <<>> /\ base[f] = e
            /\ cut[f] = 0
        BY <3>1, <1>13, <1>16
      <4> QED
        BY <4>1, <1>15 DEF LogOK
    <3>2. CASE f \notin olds
      <4>1. /\ log[f] = NoLog /\ pos[f] = Untracked /\ ctx[f] = DefaultId /\ read[f] = <<>>
            /\ base[f] = 0 /\ cut[f] = 0
        BY <3>2, <1>13, <1>16
      <4> QED
        BY <4>1, <1>15 DEF LogOK
    <3> QED
      BY <3>1, <3>2
  <2> QED
    BY <2>2, <2>3 DEF CodexInv
<1>17. ASSUME NEW g \in olds, recent = {g}
       PROVE  CodexInv
  <2>0. g \in Logs /\ (CHOOSE f \in Logs : recent = {f}) = g
    <3>1. g \in Logs
      OBVIOUS
    <3>2. \A f \in Logs : recent = {f} <=> f = g
      BY <1>17
    <3> QED
      BY <3>1, <3>2, Zenon
  <2>1. PICK a : a = ParseLines(<<>>, g, DefaultId, rs)
    OBVIOUS
  <2>2. PICK q : q = [i \in 1..Len(rs) |-> i]
    OBVIOUS
  <2>3. GoodLog(g, l, e, g, q, 0, c, a.S) /\ a.S \in Lists(CodexIds, "codex") /\ q \in Seq(Nat)
    BY <2>0, <2>1, <2>2, <1>12
  <2>4. sessions = a.S
    <3>1. recent # {}
      BY <1>17
    <3> QED
      BY <3>1, <2>0, <2>1, <1>13
  <2>5. /\ ctx = [f \in Logs |-> IF f = g THEN f ELSE DefaultId]
        /\ read = [f \in Logs |-> IF f = g THEN q ELSE <<>>]
        /\ base = [f \in Logs |-> IF f \in olds /\ f # g THEN e ELSE 0]
        /\ cut = [f \in Logs |-> IF f = g THEN c ELSE 0]
    BY <2>2, <1>13, <1>17
  <2>6. CodexTypeOK
    BY <2>3, <2>4, <2>5, <1>7, <1>11, <1>13, <1>14 DEF CodexTypeOK, CodexIds
  <2>7. ASSUME NEW f \in Logs
        PROVE  LogOK(f)
    <3>1. CASE f = g
      <4>1. /\ log[f] = l /\ pos[f] = e /\ ctx[f] = g /\ read[f] = q /\ base[f] = 0 /\ cut[f] = c
        BY <3>1, <2>5, <1>13
      <4> QED
        BY <3>1, <4>1, <2>3, <2>4 DEF LogOK
    <3>2. CASE f # g /\ f \in olds
      <4>1. /\ log[f] = l /\ pos[f] = e /\ ctx[f] = DefaultId /\ read[f] = <<>> /\ base[f] = e
            /\ cut[f] = 0
        BY <3>2, <2>5, <1>13
      <4> QED
        BY <4>1, <1>15 DEF LogOK
    <3>3. CASE f # g /\ f \notin olds
      <4>1. /\ log[f] = NoLog /\ pos[f] = Untracked /\ ctx[f] = DefaultId /\ read[f] = <<>>
            /\ base[f] = 0 /\ cut[f] = 0
        BY <3>3, <2>5, <1>13
      <4> QED
        BY <4>1, <1>15 DEF LogOK
    <3> QED
      BY <3>1, <3>2, <3>3
  <2> QED
    BY <2>6, <2>7 DEF CodexInv
<1> QED
  BY <1>16, <1>17

\* A source that has nothing to do.
ClaudeIdle == newest = "none"
CodexIdle == \A f \in Logs : pos[f] = Untracked /\ read[f] = <<>>

\* Each source keeps its invariant while the others have nothing to do.
AgentsInv ==
  \/ source = "claude" /\ ClaudeInv /\ CodexIdle
  \/ source = "codex" /\ CodexInv /\ ClaudeIdle
  \/ source = "antigravity" /\ AntigravityInv /\ ClaudeIdle /\ CodexIdle

\* Antigravity's poller starts with an empty list.
LEMMA AntigravityStarts == AntigravityInit => AntigravityInv
<1> SUFFICES ASSUME AntigravityInit
             PROVE  AntigravityInv
  OBVIOUS
<1>1. sessions = <<>> /\ current = NoConv
  BY DEF AntigravityInit, AntigravityOwnInit, SessionsInit
<1>2. <<>> \in Lists(Convs, "antigravity") /\ OnlyRuns(<<>>, current)
  BY DEF Lists, OnlyRuns
<1>3. ag \in [up : BOOLEAN, conv : Convs \cup {NoConv}, status : RawStatuses, quiet : Nat]
  <2>1. ag \in [up : BOOLEAN, conv : Convs \cup {NoConv}, status : {"IDLE", "RUNNING"}, quiet : {0}]
    BY DEF AntigravityInit, AntigravityOwnInit
  <2>2. {"IDLE", "RUNNING"} \subseteq RawStatuses /\ {0} \subseteq Nat
    BY DEF RawStatuses, Runs
  <2> QED
    BY <2>1, <2>2
<1> QED
  BY <1>1, <1>2, <1>3 DEF AntigravityInv

\* A list of sessions of one agent is sound; it shows none of Antigravity's if it
\* is another agent's.
LEMMA ListsAreSound ==
  ASSUME NEW I, NEW a, sessions \in Lists(I, a)
  PROVE  SessionsTypeOK /\ (a # "antigravity" => OnlyCurrentRuns)
<1>1. \A i \in DOMAIN sessions :
        sessions[i].status \in Statuses /\ sessions[i].agent = a
  <2>1. \A i \in DOMAIN sessions : sessions[i] \in Sessions(I, a)
    BY DEF Lists
  <2> QED
    BY <2>1 DEF Sessions
<1>2. \A i, j \in DOMAIN sessions : sessions[i].id = sessions[j].id => i = j
  BY DEF Lists
<1>3. a # "antigravity" => OnlyCurrentRuns
  BY <1>1 DEF OnlyCurrentRuns, ShownRunning
<1> QED
  BY <1>1, <1>2, <1>3 DEF SessionsTypeOK

\* The invariant gives the three the run checks.
LEMMA AgentsAreShown ==
  ASSUME AgentsInv
  PROVE  ListIsSound /\ BandShowsTurn /\ LogIsFollowed
<1>1. ClaudeIdle => BandShowsTurn
  BY DEF ClaudeIdle, BandShowsTurn, Settled
<1>2. CodexIdle => LogIsFollowed
  BY DEF CodexIdle, LogIsFollowed, LinesReadOnce, NoLinePassedOver, SessionFollowsLog, Tracked
<1>3. CASE source = "claude" /\ ClaudeInv /\ CodexIdle
  <2>1. sessions \in Lists(ClaudeIds, "claude")
    BY <1>3 DEF ClaudeInv, ClaudeTypeOK
  <2> QED
    BY <2>1, <1>2, <1>3, ListsAreSound, ClaudeShowsTurn DEF ListIsSound
<1>4. CASE source = "codex" /\ CodexInv /\ ClaudeIdle
  <2>1. sessions \in Lists(CodexIds, "codex")
    BY <1>4 DEF CodexInv, CodexTypeOK
  <2> QED
    BY <2>1, <1>1, <1>4, ListsAreSound, CodexFollowed DEF ListIsSound
<1>5. CASE source = "antigravity" /\ AntigravityInv /\ ClaudeIdle /\ CodexIdle
  <2>1. sessions \in Lists(Convs, "antigravity") /\ OnlyRuns(sessions, current)
    BY <1>5 DEF AntigravityInv
  <2>2. OnlyCurrentRuns
    BY <2>1 DEF OnlyRuns, OnlyCurrentRuns, ShownRunning
  <2>3. SessionsTypeOK
    BY <2>1, ListsAreSound
  <2> QED
    BY <2>2, <2>3, <1>1, <1>2, <1>5 DEF ListIsSound
<1> QED
  BY <1>3, <1>4, <1>5 DEF AgentsInv

\* Claude's invariant is about Claude's variables and the list alone.
LEMMA ClaudeStutters ==
  ASSUME ClaudeInv, UNCHANGED <<sessions, lines, half, writing, newest, hook, posts, active, position, stray>>
  PROVE  ClaudeInv'
<1>1. ClaudeTypeOK'
  BY DEF ClaudeInv, ClaudeTypeOK
<1>2. \A f \in Transcripts : InTurn(f)' <=> InTurn(f)
  BY DEF InTurn, LastEvent
<1>3. writing # Nothing => (Follows(writing.ev, writing.f) <=> Follows(writing.ev, writing.f)')
  BY DEF Follows, InTurn, LastEvent
<1>4. TurnsOK'
  BY <1>2, <1>3 DEF ClaudeInv, TurnsOK
<1>5. LastEvent(newest)' = LastEvent(newest)
  BY DEF LastEvent
<1>6. HooksOK' /\ TailerOK'
  BY <1>5 DEF ClaudeInv, HooksOK, TailerOK
<1>7. ShownOK'
  BY <1>5 DEF ClaudeInv, ShownOK, Shown
<1> QED
  BY <1>1, <1>4, <1>6, <1>7 DEF ClaudeInv

\* The invariant holds at the start.
LEMMA AgentsStart == AgentsInit => AgentsInv
<1>1. NoClaude => ClaudeIdle
  BY DEF NoClaude, ClaudeIdle
<1>2. NoCodex => CodexIdle
  <2> SUFFICES ASSUME NoCodex, NEW f \in Logs
               PROVE  pos[f] = Untracked /\ read[f] = <<>>
    BY DEF CodexIdle
  <2>1. PICK olds \in SUBSET Logs, h \in Histories, units \in 0..2 :
          \E recent \in {{}} \cup {{g} : g \in olds} : ScanInitialFiles(olds, h, units, recent)
    BY DEF NoCodex, CodexInit
  <2>2. PICK recent \in {{}} \cup {{g} : g \in olds} : ScanInitialFiles(olds, h, units, recent)
    BY <2>1
  <2>3. f \notin olds /\ f \notin recent
    <3>1. log[f] = NoLog /\ NoLog.dir = "none"
      BY DEF NoCodex, NoLog
    <3>2. f \in olds => log[f].dir = "today"
      BY <2>2 DEF ScanInitialFiles
    <3> QED
      BY <3>1, <3>2
  <2> QED
    BY <2>2, <2>3 DEF ScanInitialFiles
<1> QED
  BY <1>1, <1>2, ClaudeStarts, CodexStarts, AntigravityStarts DEF AgentsInit, AgentsInv

\* Every step keeps it, and so does a step that changes nothing.
LEMMA AgentsKeep ==
  ASSUME AgentsInv, [AgentsNext]_agentVars
  PROVE  AgentsInv'
<1>1. UNCHANGED claudeOwn => (ClaudeIdle => ClaudeIdle')
  BY DEF claudeOwn, ClaudeIdle
<1>2. UNCHANGED codexOwn => (CodexIdle => CodexIdle')
  BY DEF codexOwn, CodexIdle
<1>3. CASE source = "claude" /\ ClaudeNext /\ UNCHANGED <<codexOwn, agOwn, source>>
  BY <1>2, <1>3, ClaudeKeeps DEF AgentsInv
<1>4. CASE source = "codex" /\ CodexNext /\ UNCHANGED <<claudeOwn, agOwn, source>>
  BY <1>1, <1>4, CodexKeeps DEF AgentsInv
<1>5. CASE source = "antigravity" /\ AntigravityNext /\ UNCHANGED <<claudeOwn, codexOwn, source>>
  BY <1>1, <1>2, <1>5, AntigravityKeeps DEF AgentsInv
<1>6. CASE UNCHANGED agentVars
  <2>1. UNCHANGED <<sessions, claudeOwn, codexOwn, agOwn, source>>
    BY <1>6 DEF agentVars
  <2>2. ClaudeInv => ClaudeInv'
    BY <2>1, ClaudeStutters DEF claudeOwn
  <2>3. CodexInv => CodexInv'
    BY <2>1 DEF codexOwn, CodexInv, CodexTypeOK, LogOK
  <2>4. AntigravityInv => AntigravityInv'
    BY <2>1 DEF agOwn, AntigravityInv
  <2> QED
    BY <2>1, <2>2, <2>3, <2>4, <1>1, <1>2 DEF AgentsInv
<1> QED
  BY <1>3, <1>4, <1>5, <1>6 DEF AgentsNext

\* The invariant holds always.
LEMMA AgentsInvHolds == AgentsSpec => []AgentsInv
<1>1. AgentsInv /\ [AgentsNext]_agentVars => AgentsInv'
  BY AgentsKeep
<1> QED
  BY <1>1, AgentsStart, PTL DEF AgentsSpec

\* One entry for each session, and of Antigravity's conversations only the
\* followed one is shown as running, whatever the sources do
\* (session-manager.ts, antigravity-session.ts).
THEOREM TheListIsSound == AgentsSpec => []ListIsSound
<1>1. AgentsInv => ListIsSound
  BY AgentsAreShown
<1> QED
  BY <1>1, AgentsInvHolds, PTL

\* Once a turn's events have all arrived and its transcript is read, the band
\* shows what Claude did last, for hooks and lines in any order, lost hooks and
\* lines read in halves (claude-hook-server.ts, claude-desktop-tailer.ts).
THEOREM TheBandShowsTheTurn == AgentsSpec => []BandShowsTurn
<1>1. AgentsInv => BandShowsTurn
  BY AgentsAreShown
<1> QED
  BY <1>1, AgentsInvHolds, PTL

\* Every whole line of a log reaches the list once, in order, and the list says
\* what the last line says, for logs of any length (codex-tailer.ts).
THEOREM TheLogIsFollowed == AgentsSpec => []LogIsFollowed
<1>1. AgentsInv => LogIsFollowed
  BY AgentsAreShown
<1> QED
  BY <1>1, AgentsInvHolds, PTL

(***************************************************************************)
(* What a pause teaches the poller                                         *)
(***************************************************************************)
\* The pause, as the conversation shows it, is what idleSince measures, and only
\* while there is a conversation and it was last seen idle.
PauseIsMeasured ==
  /\ grace \in Nat /\ idleFor \in Nat \cup {-1} /\ pause = idleFor
  /\ idleFor # -1 => prevRaw = "IDLE" /\ current # NoConv

\* The lesser of two numbers, which Min names.
LEMMA LesserOf ==
  ASSUME NEW a \in Nat, NEW b \in Nat
  PROVE  Min({a, b}) \in Nat /\ Min({a, b}) = (IF a <= b THEN a ELSE b)
<1> DEFINE T == {a, b}
<1>1. T \subseteq Nat /\ T # {}
  OBVIOUS
<1>2. \A t \in T : t = a \/ t = b
  OBVIOUS
<1>3. a \in T /\ b \in T
  OBVIOUS
<1> HIDE DEF T
<1>4. PICK m : m = Min(T)
  OBVIOUS
<1>5. m \in T /\ m <= a /\ m <= b
  BY <1>1, <1>3, <1>4, MinIsLeast
<1>6. m \in Nat /\ m = (IF a <= b THEN a ELSE b)
  BY <1>1, <1>2, <1>5
<1> QED
  BY <1>4, <1>6 DEF T

\* The widened grace covers the gap, or is the largest there is.
LEMMA GraceIsWidened ==
  ASSUME NEW g \in Nat, NEW gap \in Nat
  PROVE  /\ NextIdleGrace(g, gap) \in Nat
         /\ NextIdleGrace(g, gap) >= Min({GraceMax, gap + Margin})
<1>1. GraceMax \in Nat /\ gap + Margin \in Nat
  BY AntigravityAssumption
<1>2. PICK w \in Nat : w = gap + Margin
  BY <1>1
<1>3. PICK m \in Nat : m = Min({GraceMax, w}) /\ m = (IF GraceMax <= w THEN GraceMax ELSE w)
  BY <1>1, LesserOf
<1>4. NextIdleGrace(g, gap) = IF w <= g THEN g ELSE m
  BY <1>2, <1>3 DEF NextIdleGrace
<1> QED
  BY <1>1, <1>2, <1>3, <1>4

\* A poll that looks at a conversation measures on, or stops measuring.
LEMMA PauseIsPolled ==
  ASSUME PauseIsMeasured, PollConversation
  PROVE  PauseIsMeasured'
<1> DEFINE new == ag.conv # current
           was == ~new /\ prevRaw \in Runs
           idle == IF new THEN -1 ELSE idleFor
           g == IF new THEN GraceMin ELSE Widened(ag.status, lastStatus, idle)
<1>1. /\ prevRaw' = ag.status /\ idleFor' = Measured(ag.status, was, idle)
      /\ pause' = IF ag.status # "IDLE" THEN -1
                  ELSE IF was THEN 0 ELSE IF new THEN -1 ELSE pause
      /\ grace' = (IF new THEN GraceMin ELSE Widened(ag.status, lastStatus, idleFor))
  BY DEF PollConversation
<1>2. grace' \in Nat
  <2>1. GraceMin \in Nat
    BY AntigravityAssumption
  <2>2. idleFor # -1 => NextIdleGrace(grace, idleFor) \in Nat
    BY GraceIsWidened DEF PauseIsMeasured
  <2> QED
    BY <1>1, <2>1, <2>2 DEF Widened, PauseIsMeasured
<1>3. was => idle = -1
  BY DEF PauseIsMeasured, Runs
<1>4. idleFor' \in Nat \cup {-1} /\ pause' = idleFor'
  BY <1>1, <1>3 DEF Measured, PauseIsMeasured
<1>5. idleFor' # -1 => prevRaw' = "IDLE" /\ current' # NoConv
  BY <1>1 DEF Measured, PollConversation
<1> QED
  BY <1>2, <1>4, <1>5 DEF PauseIsMeasured

\* Every step keeps the measure.
LEMMA PauseKeeps ==
  ASSUME PauseIsMeasured, [AgentsNext]_agentVars
  PROVE  PauseIsMeasured'
<1>1. CASE Poll
  <2>1. CASE PollFindsNothing
    <3>1. GraceMin \in Nat
      BY AntigravityAssumption
    <3> QED
      BY <2>1, <3>1 DEF PollFindsNothing, Forget, PauseIsMeasured
  <2> QED
    BY <1>1, <2>1, PauseIsPolled DEF Poll
<1>2. CASE TimePasses
  <2>1. Cap \in Nat
    BY AntigravityAssumption DEF Cap
  <2>2. idleFor # -1 => Min({Cap, idleFor + 1}) \in Nat /\ Min({Cap, idleFor + 1}) # -1
    <3> SUFFICES ASSUME idleFor # -1
                 PROVE  Min({Cap, idleFor + 1}) \in Nat
      OBVIOUS
    <3>1. idleFor + 1 \in Nat
      BY DEF PauseIsMeasured
    <3> QED
      BY <2>1, <3>1, LesserOf
  <2>3. /\ idleFor' = (IF idleFor = -1 THEN -1 ELSE Min({Cap, idleFor + 1}))
        /\ pause' = (IF pause = -1 THEN -1 ELSE Min({Cap, pause + 1}))
        /\ UNCHANGED <<current, prevRaw, grace>>
    BY <1>2 DEF TimePasses
  <2> QED
    BY <2>2, <2>3 DEF PauseIsMeasured
<1>3. CASE UNCHANGED <<current, prevRaw, grace, idleFor, pause>>
  BY <1>3 DEF PauseIsMeasured
<1>4. Poll \/ TimePasses \/ UNCHANGED <<current, prevRaw, grace, idleFor, pause>>
  BY DEF AgentsNext, AntigravityNext, Antigravity, agentVars, agOwn
<1> QED
  BY <1>1, <1>2, <1>3, <1>4

\* A pause that was sat out and measured is covered by the grace from the poll
\* on that sees its conversation run again, so that the same pause is not taken
\* for the end again, for any bounds and intervals (antigravity-policy.ts, nextIdleGrace).
THEOREM ThePauseIsLearnt == AgentsSpec => PausesAreLearnt
<1>1. AgentsInit => PauseIsMeasured
  <2>1. AgentsInit => AntigravityOwnInit
    BY DEF AgentsInit, NoAntigravity, AntigravityInit
  <2>2. GraceMin \in Nat
    BY AntigravityAssumption
  <2> QED
    BY <2>1, <2>2 DEF AntigravityOwnInit, PauseIsMeasured
<1>2. PauseIsMeasured /\ [AgentsNext]_agentVars =>
        [Poll /\ ag.up /\ ag.conv = current /\ ag.status # "IDLE" /\ pause # -1
          => grace' >= Min({GraceMax, pause + Margin})]_agVars
  <2> SUFFICES ASSUME PauseIsMeasured,
                      Poll, ag.up, ag.conv = current, ag.status # "IDLE", pause # -1
               PROVE  grace' >= Min({GraceMax, pause + Margin})
    OBVIOUS
  <2>1. idleFor \in Nat /\ pause = idleFor /\ grace \in Nat
    BY DEF PauseIsMeasured
  <2>2. CASE PollConversation
    <3>1. grace' = (IF ag.conv # current THEN GraceMin ELSE Widened(ag.status, lastStatus, idleFor))
      BY <2>2 DEF PollConversation
    <3>2. grace' = NextIdleGrace(grace, pause)
      BY <2>1, <3>1 DEF Widened
    <3> QED
      BY <2>1, <3>2, GraceIsWidened
  <2>3. CASE PollFindsNothing
    BY <2>3 DEF PollFindsNothing, PauseIsMeasured
  <2> QED
    BY <2>2, <2>3 DEF Poll
<1>3. PauseIsMeasured /\ [AgentsNext]_agentVars => PauseIsMeasured'
  BY PauseKeeps
<1> QED
  BY <1>1, <1>2, <1>3, PTL DEF AgentsSpec, PausesAreLearnt
=============================================================================
