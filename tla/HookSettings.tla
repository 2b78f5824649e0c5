---------------------------- MODULE HookSettings ----------------------------
(***************************************************************************)
(* Installing and removing Pulse's Claude Code hooks in the user's own     *)
(* settings.json (claude-hook-install.ts, claude-hook-merge.ts,            *)
(* claude-hook-settings.ts).  The handler runs to its end inside Pulse,    *)
(* but the user and Claude Code write the same file, and Pulse may be      *)
(* killed between any two of its file operations.                          *)
(*                                                                         *)
(* Abstracted: a settings file is the entries in it, ours by the event     *)
(* they are under and everybody else's (with all other settings) by name.  *)
(***************************************************************************)
EXTENDS Integers, FiniteSets

CONSTANTS HookEvents, Theirs

VARIABLES
  settings,  \* settings.json: a Settings record, Absent or Broken
  backup,    \* settings.json.pulse-backup: likewise or Absent
  wrapper,   \* pulse-hook.cmd and claude-hook.cjs are in userData
  op,        \* the running handler: [pc, mem], mem what it read and changed
  tmp,       \* settings.json.tmp
  \* Read by properties only:
  edited,    \* someone else wrote the file since the handler read it
  fresh      \* there was no settings.json at Pulse's first write

hookVars == <<settings, backup, wrapper, op, tmp, edited, fresh>>

NoneOfOurs == [e \in HookEvents |-> 0]
Empty == [state |-> "ok", ours |-> NoneOfOurs, theirs |-> {}]
Absent == [Empty EXCEPT !.state = "absent"]
Broken == [Empty EXCEPT !.state = "broken"]
Present(s) == s.state = "ok"
NoOp == [pc |-> "idle", kind |-> "none", mem |-> Empty]

HookSettingsInit ==
  /\ settings \in {Absent, Broken} \cup [state : {"ok"}, ours : {NoneOfOurs}, theirs : SUBSET Theirs]
  /\ backup = Absent /\ tmp = Absent
  /\ wrapper = FALSE
  /\ op = NoOp
  /\ edited = FALSE /\ fresh = FALSE

\* mergeHooks: whatever entries of ours there are, one for each event.
MergeHooks(s) == [s EXCEPT !.ours = [e \in HookEvents |-> 1]]

\* Mutant: an event's whole list goes when one of its entries is ours.
RemoveHooks_WholeKey(s) == IF s.ours = NoneOfOurs THEN s ELSE Empty
\* removeHooks: everybody else's stay.
RemoveHooks(s) == [s EXCEPT !.ours = NoneOfOurs]

OpAt(pc) == op.pc = pc
Goto(pc) == op' = [op EXCEPT !.pc = pc]

\* hook:install and hook:uninstall begin with readSettings; a file that
\* cannot be read or parsed ends them, one that is absent is empty.
Begin(kind) ==
  /\ OpAt("idle") /\ settings # Broken
  /\ LET s == IF settings = Absent THEN Empty ELSE settings IN
     op' = [pc |-> IF kind = "install" THEN "wrapper" ELSE "backup", kind |-> kind,
            mem |-> IF kind = "install" THEN MergeHooks(s) ELSE RemoveHooks(s)]
  /\ edited' = FALSE
  /\ UNCHANGED <<settings, backup, wrapper, tmp, fresh>>

WriteWrapper ==
  /\ OpAt("wrapper")
  /\ \/ wrapper' = TRUE /\ Goto("backup")
     \/ op' = NoOp /\ UNCHANGED wrapper
  /\ UNCHANGED <<settings, backup, tmp, edited, fresh>>

BacksUp == settings # Absent /\ backup = Absent

\* writeSettings, operation by operation.
Backup ==
  /\ OpAt("backup")
  /\ backup' = IF BacksUp THEN settings ELSE backup
  /\ fresh' = (fresh \/ (settings = Absent /\ backup = Absent))
  /\ Goto("write")
  /\ UNCHANGED <<settings, wrapper, tmp, edited>>

WriteTmp ==
  /\ OpAt("write")
  /\ tmp' = op.mem
  /\ Goto("rename")
  /\ UNCHANGED <<settings, backup, wrapper, edited, fresh>>

\* The rename replaces the file; if it fails the temporary file goes.
Rename ==
  /\ OpAt("rename")
  /\ settings' \in {tmp, settings}
  /\ tmp' = Absent
  /\ op' = NoOp
  /\ UNCHANGED <<backup, wrapper, edited, fresh>>

Killed ==
  /\ ~OpAt("idle")
  /\ op' = NoOp
  /\ UNCHANGED <<settings, backup, wrapper, tmp, edited, fresh>>

\* The user or Claude Code writes the file, or breaks it.
SomeoneEdits ==
  /\ \/ settings' = Broken
     \/ settings' \in [state : {"ok"},
                       ours : IF Present(settings) THEN {settings.ours, NoneOfOurs} ELSE {NoneOfOurs},
                       theirs : SUBSET Theirs]
  /\ edited' = TRUE
  /\ UNCHANGED <<backup, wrapper, op, tmp, fresh>>

\* The user clears userData.
WrapperGoes == wrapper /\ wrapper' = FALSE /\ UNCHANGED <<settings, backup, op, tmp, edited, fresh>>

HookSettingsNext ==
  \/ \E k \in {"install", "uninstall"} : Begin(k)
  \/ WriteWrapper \/ Backup \/ WriteTmp \/ Rename \/ Killed \/ SomeoneEdits \/ WrapperGoes

(***************************************************************************)
(* Properties.                                                             *)
(***************************************************************************)
\* What is in the file at any time, and in its copies, has at most one entry
\* of ours for each event, however often hooks were installed and whatever
\* was killed on the way.
OursDoNotPileUp ==
  \A s \in {settings, backup, tmp} : Present(s) => \A e \in HookEvents : s.ours[e] <= 1

\* Pulse itself never takes away what others have in the file, nor replaces
\* a file it could not parse, unless it was changed while the handler ran.
TheirsAreKept ==
  [][Rename /\ settings' # settings /\ ~edited
       => settings # Broken /\ (Present(settings) => settings'.theirs = settings.theirs)]_hookVars

\* The backup holds the file from before the first installation: nothing
\* of ours is in it, provided there was a file then.
BackupIsOriginal == Present(backup) /\ ~fresh => backup.ours = NoneOfOurs

\* The user's settings.json survives every installation and removal of the
\* hooks: what is others' stays, ours does not pile up, and the backup is of the
\* file before the first one (claude-hook-settings.ts).
SettingsAreKept == []OursDoNotPileUp /\ []BackupIsOriginal /\ TheirsAreKept
=============================================================================
