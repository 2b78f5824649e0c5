------------------------------- MODULE MiniBar -------------------------------
(***************************************************************************)
(* The page in the desktop's floating window (MiniBar.tsx): a ring for     *)
(* each agent, a card that opens while the mouse rests on a ring or the    *)
(* card is pinned, a context menu, and dragging.  The page decides when    *)
(* the window must be large and asks the main process for it; the window   *)
(* is the one of MinibarWindow.  React runs a change's effects before the  *)
(* next event, so that each action ends in the page they leave.            *)
(***************************************************************************)
EXTENDS MinibarWindow

CONSTANTS Agents, NoAgent,
          MaxPending   \* the commands that may be on their way while the mouse moves

ASSUME MiniBarAssumption == NoAgent \notin Agents /\ MaxPending \in Nat

VARIABLES page, mouse
pageVars == <<page, mouse>>

(* page: seen, the last state heard; hovered, pinned and mounted agents;   *)
(* shown, the card's opacity; menu; the agent the hover timer is for; what *)
(* the leave timer will do (it keeps the pinned agent of when it was set); *)
(* close, closeTimerRef: armed, or a timer already cleared; held, the      *)
(* mouse button on the bar; sent, the commands of this event.              *)
FreshPage == [seen |-> [dock |-> "right", mode |-> "full", expanded |-> FALSE],
              hovered |-> NoAgent, pinned |-> NoAgent, mounted |-> NoAgent, shown |-> FALSE,
              menu |-> FALSE, hover |-> NoAgent, leave |-> "off", close |-> "none",
              held |-> FALSE, sent |-> <<>>]

Send(p, m) == [p EXCEPT !.sent = Append(@, m)]
Command(c, v) == [c |-> c, v |-> v]
Target(p) == IF p.pinned # NoAgent THEN p.pinned ELSE p.hovered
Tab(p) == p.seen.mode = "edge-tab"

(***************************************************************************)
(* The effects.                                                            *)
(***************************************************************************)
\* The card's animation, when the target, the mounted agent or the form changed.
Animated(old, p) ==
  IF <<Target(p), p.mounted, Tab(p)>> = <<Target(old), old.mounted, Tab(old)>> THEN p
  ELSE IF Tab(p) THEN IF p.mounted = NoAgent THEN p ELSE [p EXCEPT !.mounted = NoAgent, !.shown = FALSE]
  ELSE IF Target(p) # NoAgent THEN [p EXCEPT !.mounted = Target(p), !.shown = TRUE, !.close = "none"]
  ELSE IF p.mounted # NoAgent THEN [p EXCEPT !.shown = FALSE, !.close = "armed"] ELSE p

WantsRoom(p) == ~Tab(p) /\ (p.mounted # NoAgent \/ p.menu)
\* Mutant: the size asked for is not asked for again when the window lost it.
Synced_Once(old, p) ==
  IF <<p.mounted, p.menu, Tab(p)>> = <<old.mounted, old.menu, Tab(old)>> THEN p
  ELSE Send(p, Command("expand", WantsRoom(p)))
\* The one place the window's size is asked for.
Synced(old, p) ==
  IF <<p.mounted, p.menu, Tab(p), p.seen.expanded>> = <<old.mounted, old.menu, Tab(old), old.seen.expanded>>
  THEN p ELSE Send(p, Command("expand", WantsRoom(p)))

\* A message equal to the one before it says nothing new, except that it says it later.
Render(p) ==
  LET drawn == Synced(page, Animated(page, p)) IN
  /\ page' = [drawn EXCEPT !.sent = <<>>]
  /\ toMain' = toMain \o drawn.sent

(***************************************************************************)
(* The event handlers, each from a page to a page.                         *)
(***************************************************************************)
MouseEnterAgent(key, p) ==
  IF p.menu THEN p
  ELSE IF p.pinned \notin {NoAgent, key} THEN [p EXCEPT !.leave = "off"]
  ELSE IF p.mounted # NoAgent /\ p.shown
       THEN [p EXCEPT !.leave = "off", !.hover = NoAgent, !.hovered = key]
       ELSE [p EXCEPT !.leave = "off", !.hover = key]
MouseLeaveAgent(p) == [p EXCEPT !.hover = NoAgent]
ContainerMouseLeave(p) ==
  IF p.menu THEN [p EXCEPT !.hover = NoAgent]
  ELSE [p EXCEPT !.hover = NoAgent, !.leave = IF p.pinned = NoAgent THEN "clears" ELSE "keeps"]
InteractiveMouseEnter(p) ==
  IF p.close = "none" THEN [p EXCEPT !.leave = "off"]
  ELSE [p EXCEPT !.leave = "off", !.close = "none", !.shown = TRUE]
CloseContextMenu(p) == [p EXCEPT !.menu = FALSE]
Forget(p) == [p EXCEPT !.pinned = NoAgent, !.hovered = NoAgent]
DragRegionMouseDown(p) ==
  Send(Send([Forget(CloseContextMenu(p)) EXCEPT !.mounted = NoAgent, !.shown = FALSE, !.held = TRUE,
               !.hover = NoAgent, !.leave = "off", !.close = IF @ = "none" THEN @ ELSE "cleared"],
            Command("start", TRUE)), Command("expand", FALSE))
EndDrag(p) == IF p.held THEN Send([p EXCEPT !.held = FALSE], Command("end", TRUE)) ELSE p
RingClick(key, p) ==
  IF p.pinned = key THEN [p EXCEPT !.pinned = NoAgent] ELSE [p EXCEPT !.pinned = key, !.hovered = key]
Escape(p) == IF p.menu THEN CloseContextMenu(p) ELSE Forget(p)
Close(p) == Send(CloseContextMenu(Forget(p)), Command("show", FALSE))
CollapseToEdgeTab(p) ==
  Send([CloseContextMenu(Forget(p)) EXCEPT !.mounted = NoAgent, !.shown = FALSE], Command("mode", "edge-tab"))
RestoreFromEdgeTab(p) == Send(p, Command("mode", "full"))
ContextMenu(p) == [p EXCEPT !.leave = "off", !.menu = ~Tab(p)]
ResetFromMenu(p) == Send(CloseContextMenu(p), Command("reset", TRUE))
PinFromMenu(p) ==
  [CloseContextMenu(p) EXCEPT !.pinned = IF @ = NoAgent THEN Target(p) ELSE NoAgent]
PinFromCard(p) == [p EXCEPT !.pinned = IF @ = p.mounted THEN NoAgent ELSE p.mounted]

(***************************************************************************)
(* The user, the timers, and the states of the main process.               *)
(***************************************************************************)
Heard == toMain = <<>> /\ toBar = <<>>
\* Between a press and the next, the processes hear each other.
UserActs == Heard /\ ~page.held /\ visible
Stays == UNCHANGED mouse
Rings == IF Tab(page) THEN {} ELSE Agents
Places == {"out", "bar"} \cup Rings \cup {q \in {"card"} : page.mounted # NoAgent}
                         \cup {q \in {"menu"} : page.menu}
Dock == {"bar"} \cup Agents

\* What the two views wire to handleInteractiveMouseEnter: the card, and in
\* the upright one the side bar as well.
EntersHorizontal == mouse' = "card"
EntersVertical == mouse' = "card" \/ (mouse' \in Dock /\ mouse \notin Dock)

\* The leave handlers of the old place, then the enter handlers of the new one.
MoveMouse ==
  /\ Len(toMain) <= MaxPending /\ ~page.held /\ visible
  /\ mouse' \in Places \ {mouse}
  /\ LET left == IF mouse \in Agents THEN MouseLeaveAgent(page) ELSE page
         out == IF mouse' = "out" THEN ContainerMouseLeave(left) ELSE left
         near == IF Horizontal(page.seen.dock) THEN EntersHorizontal ELSE EntersVertical
         near2 == IF near THEN InteractiveMouseEnter(out) ELSE out
     IN Render(IF Tab(page) THEN page
               ELSE IF mouse' \in Agents THEN MouseEnterAgent(mouse', near2) ELSE near2)

\* A press on a ring bubbles to the bar around it.
Press ==
  /\ UserActs /\ Stays
  /\ IF mouse \in Dock /\ ~Tab(page) THEN Render(DragRegionMouseDown(page))
     ELSE page.menu /\ mouse # "menu" /\ Render(CloseContextMenu(page))
Release ==
  /\ page.held /\ Stays
  /\ \/ Render(EndDrag(page))
     \/ mouse \in Agents /\ ~Tab(page) /\ Render(RingClick(mouse, EndDrag(page)))
Blur == Stays /\ (page.held \/ page.menu) /\ Render(CloseContextMenu(EndDrag(page)))

\* A right press closes an open menu; its contextmenu event opens it again, or
\* for the first time.
RightClick ==
  /\ UserActs /\ Stays /\ mouse \notin {"out", "menu"}
  /\ Render(ContextMenu(page))
PressKey ==
  /\ UserActs /\ Stays /\ ~Tab(page)
  /\ \/ Render(Escape(page))
     \/ mouse \in Agents /\ Render(RingClick(mouse, page))
ClickTab == UserActs /\ Stays /\ Tab(page) /\ mouse = "bar" /\ Render(RestoreFromEdgeTab(page))
ClickMenu ==
  /\ UserActs /\ Stays /\ page.menu /\ mouse = "menu"
  /\ \/ Render(CollapseToEdgeTab(page))
     \/ Render(ResetFromMenu(page))
     \/ Target(page) # NoAgent /\ Render(PinFromMenu(page))
     \/ Render(Close(page))
ClickCard ==
  /\ UserActs /\ Stays /\ mouse = "card" /\ page.mounted # NoAgent
  /\ Render(PinFromCard(page)) \/ Render(Forget(page))

HoverTimer == page.hover # NoAgent /\ Stays /\ Render([page EXCEPT !.hovered = page.hover, !.hover = NoAgent])
LeaveTimer ==
  /\ page.leave # "off" /\ Stays
  /\ Render([page EXCEPT !.leave = "off", !.hovered = IF page.leave = "clears" THEN NoAgent ELSE @])
CloseTimer ==
  /\ page.close = "armed" /\ Stays
  /\ Render([page EXCEPT !.close = "none", !.mounted = NoAgent])

\* setState, on the answer to getMinibarState and on each state pushed.
HearState ==
  /\ toBar # <<>> /\ toBar' = Tail(toBar) /\ Stays
  /\ Render([page EXCEPT !.seen = Head(toBar)])

pageFrame == UNCHANGED <<placeVars, visible, grab, preferences, toApp, worldVars>>
UserStep ==
  \/ MoveMouse \/ Press \/ Release \/ Blur \/ RightClick \/ PressKey
  \/ ClickTab \/ ClickMenu \/ ClickCard
TimerStep == HoverTimer \/ LeaveTimer \/ CloseTimer
PageInit == page = FreshPage /\ mouse = "out"
PageStep ==
  /\ \/ (UserStep \/ TimerStep) /\ UNCHANGED toBar
     \/ HearState
  /\ pageFrame

(***************************************************************************)
(* Properties.                                                             *)
(***************************************************************************)
PageTypeOK ==
  /\ {page.hovered, page.pinned, page.mounted, page.hover} \subseteq Agents \cup {NoAgent}
  /\ page.leave \in {"off", "clears", "keeps"} /\ page.close \in {"none", "armed", "cleared"}
  /\ mouse \in {"out", "bar", "card", "menu"} \cup Agents

\* Once what was said is heard, the window of a full bar has room for the card
\* and the menu when there is one, and is no larger when there is none, though
\* the main process and the page each change its size.
WindowFitsContent ==
  Heard /\ ~grab.on /\ currentDisplayMode = "full" => (isExpanded <=> WantsRoom(page))

\* The card that is shown is of the pinned agent, or else of the one under the
\* mouse, whatever timers of earlier ones were running.
CardFollowsTarget ==
  ~Tab(page) /\ Target(page) # NoAgent => page.mounted = Target(page) /\ page.shown

\* The window follows the cursor only while the button is down.
DragEndsWithButton == Heard /\ ~page.held => ~grab.on

=============================================================================
