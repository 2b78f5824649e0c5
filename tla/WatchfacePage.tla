---------------------------- MODULE WatchfacePage ----------------------------
(***************************************************************************)
(* The watchface page: useWatchFace with its one busy flag, the calls of   *)
(* WatchfaceService it makes, and the core, which runs the calls it gets   *)
(* one after the other.  A call may be given up by its timeout and still   *)
(* be run; the page may be left and opened again while a call is out; a    *)
(* list waits for reconcileInstalledWatchfaces and an install for          *)
(* prepareFromBin, so answers may come in another order than the calls.    *)
(*                                                                         *)
(* Not modelled: the pictures (WatchfacePreviews).                         *)
(***************************************************************************)
EXTENDS Naturals, Sequences, FiniteSets, SequencesExt

CONSTANTS
  PageFaces,  \* watchfaces
  MaxMounts,  \* bound: times the page is opened
  MaxCalls,   \* bound: calls made
  MaxDrops    \* bound: times the link or the band changes by itself

\* The band always shows a watchface, so it has one.
ASSUME WatchfacePageAssumption ==
  PageFaces # {} /\ MaxMounts \in Nat /\ MaxCalls \in Nat /\ MaxDrops \in Nat

VARIABLES
  onBand,   \* [has |-> watchfaces, cur |-> the one shown]
  linked, drops,
  page,     \* the mounted page
  wire,     \* calls the core has not run
  answers,  \* what it answered, not yet with the page
  made,     \* calls made
  \* Read by properties only:
  excused   \* the page could not know: see ShownIsCurrent

pageVars == <<onBand, linked, drops, page, wire, answers, made, excused>>
world == <<onBand, linked, drops>>

Empty == [has |-> {}, cur |-> "none"]
Fresh(mount) == [mount |-> mount, open |-> TRUE, connected |-> FALSE, busy |-> FALSE,
                 items |-> Empty, error |-> FALSE]

WatchfacePageInit ==
  /\ onBand \in [has : {PageFaces, {CHOOSE f \in PageFaces : TRUE}}, cur : {CHOOSE f \in PageFaces : TRUE}]
  /\ linked = TRUE /\ drops = 0
  /\ page = [Fresh(0) EXCEPT !.open = FALSE]
  /\ wire = <<>> /\ answers = {} /\ made = 0 /\ excused = FALSE

\* why: "busy" for a call that holds the flag, "after" for install's own list.
Call(op, face, why) ==
  [op |-> op, face |-> face, why |-> why, mount |-> page.mount, given |-> FALSE]
Ours(call) == call.mount = page.mount /\ page.open

-----------------------------------------------------------------------------
(* useWatchFace *)

\* What a page does that is not busy, after `p`: the flag is taken, the call made.
Starts(p, op, face) ==
  /\ made < MaxCalls /\ made' = made + 1
  /\ page' = [p EXCEPT !.busy = TRUE, !.error = IF op = "list" THEN FALSE ELSE @]
  /\ wire' = Append(wire, Call(op, face, "busy"))

\* A list that nothing else precedes or overtakes shows the band as it is.
ExcusedBy(op) ==
  excused' = IF op = "list" THEN ~(wire = <<>> /\ answers = {}) /\ excused
             ELSE excused \/ \E a \in Range(wire) \cup answers : Ours(a) /\ a.why = "after"

Mount ==
  /\ ~page.open /\ page.mount < MaxMounts
  /\ page' = Fresh(page.mount + 1)
  /\ excused' = (wire # <<>>)
  /\ UNCHANGED <<world, wire, answers, made>>

\* aliveRef: the answers of this mount are no longer heard.
Unmount ==
  /\ page.open
  /\ page' = [page EXCEPT !.open = FALSE]
  /\ UNCHANGED <<world, wire, answers, made, excused>>

\* useBandConnection's poll; a connection, first or again, loads the list.
Connected ==
  /\ page.open /\ page.connected # linked
  /\ IF linked /\ ~page.busy
     THEN Starts([page EXCEPT !.connected = TRUE], "list", "none") /\ ExcusedBy("list")
     ELSE /\ page' = [page EXCEPT !.connected = linked]
          /\ UNCHANGED <<wire, made, excused>>
  /\ UNCHANGED <<world, answers>>

Usable == page.open /\ page.connected /\ ~page.busy

Refresh ==
  /\ Usable /\ Starts(page, "list", "none") /\ ExcusedBy("list")
  /\ UNCHANGED <<world, answers>>

SetWatchface ==
  /\ Usable
  /\ \E f \in page.items.has \ {page.items.cur} : Starts(page, "set", f)
  /\ ExcusedBy("set")
  /\ UNCHANGED <<world, answers>>

\* The file is a watchface the band may have; one that cannot be read ends at once.
InstallWatchface ==
  /\ Usable
  /\ \E f \in PageFaces : Starts(page, "install", f)
  /\ ExcusedBy("install")
  /\ UNCHANGED <<world, answers>>

-----------------------------------------------------------------------------
(* The core, and WatchfaceService's timeouts *)

Result(call, ok) ==
  [op |-> call.op, face |-> call.face, why |-> call.why, mount |-> call.mount, ok |-> ok,
   has |-> onBand'.has, cur |-> onBand'.cur]

\* A set or an install that fails may have been done.
RunCall ==
  /\ wire # <<>>
  /\ LET call == Head(wire)
     IN \E ok \in BOOLEAN, done \in BOOLEAN :
          /\ ok => linked /\ done
          /\ done => linked
          /\ (ok /\ call.op = "set") => call.face \in onBand.has
          /\ onBand' = CASE done /\ call.op = "set" /\ call.face \in onBand.has ->
                              [onBand EXCEPT !.cur = call.face]
                         [] done /\ call.op = "install" ->
                              [has |-> onBand.has \cup {call.face}, cur |-> call.face]
                         [] OTHER -> onBand
          /\ answers' = IF call.given THEN answers ELSE answers \cup {Result(call, ok)}
          /\ excused' = (excused \/ (onBand' # onBand /\ (~ok \/ call.given \/ ~Ours(call))))
  /\ wire' = Tail(wire)
  /\ UNCHANGED <<linked, drops, page, made>>

-----------------------------------------------------------------------------
(* Answers *)

\* refresh() heard its answer.
Loaded(a) ==
  /\ page' = [page EXCEPT !.busy = FALSE, !.error = ~a.ok,
                          !.items = IF a.ok THEN [has |-> a.has, cur |-> a.cur] ELSE @]
  /\ UNCHANGED <<wire, made, excused>>

\* A watchface that is not in the list: the list is old, and is loaded again once
\* the flag is free.
Switched(a) ==
  LET known == a.face \in page.items.has
      shown == [page EXCEPT !.busy = FALSE, !.items.cur =
                  IF ~a.ok THEN @ ELSE IF known THEN a.face ELSE "none"]
  IN IF a.ok /\ ~known
     THEN Starts(shown, "list", "none") /\ ExcusedBy("list")
     ELSE page' = shown /\ UNCHANGED <<wire, made, excused>>

\* Mutant: the list is not asked for.
Installed_NoList(a) ==
  /\ page' = [page EXCEPT !.busy = FALSE]
  /\ UNCHANGED <<wire, made, excused>>
\* The list that follows an install does not hold the flag.
Installed(a) ==
  /\ page' = [page EXCEPT !.busy = FALSE]
  /\ IF a.ok
     THEN /\ made < MaxCalls /\ made' = made + 1
          /\ wire' = Append(wire, Call("list", "none", "after"))
     ELSE UNCHANGED <<wire, made>>
  /\ UNCHANGED excused

\* Its failure is not shown.
LoadedAfter(a) ==
  /\ page' = [page EXCEPT !.items = IF a.ok THEN [has |-> a.has, cur |-> a.cur] ELSE @]
  /\ excused' = (excused \/ ~a.ok)
  /\ UNCHANGED <<wire, made>>

Heard(a) ==
  CASE ~Ours(a) -> UNCHANGED <<page, wire, made, excused>>
    [] Ours(a) /\ a.why = "after" -> LoadedAfter(a)
    [] Ours(a) /\ a.op = "list" /\ a.why = "busy" -> Loaded(a)
    [] Ours(a) /\ a.op = "set" -> Switched(a)
    [] Ours(a) /\ a.op = "install" -> Installed(a)

HearAnswer ==
  /\ \E a \in answers : Heard(a) /\ answers' = answers \ {a}
  /\ UNCHANGED world

\* The call is given up, and the core still has it.
TimesOut ==
  /\ \E i \in DOMAIN wire :
       /\ ~wire[i].given
       /\ answers' = answers \cup {[op |-> wire[i].op, face |-> wire[i].face, why |-> wire[i].why,
            mount |-> wire[i].mount, ok |-> FALSE, has |-> {}, cur |-> "none"]}
       /\ wire' = [wire EXCEPT ![i].given = TRUE]
  /\ UNCHANGED <<world, page, made, excused>>

LinkChanges ==
  /\ drops < MaxDrops /\ drops' = drops + 1
  /\ linked' = ~linked
  /\ UNCHANGED <<onBand, page, wire, answers, made, excused>>

\* External: on the band or on the telephone.
BandChanges ==
  /\ drops < MaxDrops /\ drops' = drops + 1
  /\ onBand' \in {b \in [has : SUBSET PageFaces, cur : PageFaces] : b.cur \in b.has}
  /\ onBand' # onBand /\ excused' = TRUE
  /\ UNCHANGED <<linked, page, wire, answers, made>>

WatchfacePageNext ==
  \/ Mount \/ Unmount \/ Connected
  \/ Refresh \/ SetWatchface \/ InstallWatchface
  \/ RunCall \/ TimesOut \/ HearAnswer
  \/ LinkChanges \/ BandChanges

-----------------------------------------------------------------------------
Holding(call) == Ours(call) /\ call.why = "busy"
Held == Cardinality({i \in DOMAIN wire : ~wire[i].given /\ Holding(wire[i])})
          + Cardinality({a \in answers : Holding(a)})

\* The flag is held exactly while one call of this page that needs it is out, and
\* never by two (useWatchFace.ts:45-47): a flag that a path left behind would leave
\* the page dead, one that a path dropped would let an install and a switch cross.
BusyIsHeld == page.open => Held = (IF page.busy THEN 1 ELSE 0)

\* When nothing is out the page shows the watchfaces of the band and marks the one in
\* use (WatchFacePage.tsx:241), unless it shows an error or could not know better: a
\* call that failed or was given up did something, a call of an earlier mount ran, or
\* the list after an install failed, or crossed with the next call; or the band
\* changed by itself.
ShownIsCurrent ==
  (page.open /\ page.connected /\ ~page.error /\ wire = <<>> /\ answers = {} /\ ~excused)
    => page.items = onBand

PageIsRight == BusyIsHeld /\ ShownIsCurrent
=============================================================================
