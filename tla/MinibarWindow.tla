---------------------------- MODULE MinibarWindow ----------------------------
(***************************************************************************)
(* The desktop's floating quota bar as the main process holds it           *)
(* (minibar-window.ts) and the arithmetic of its bounds                    *)
(* (minibar-geometry.ts).  The bar is docked to an edge of a display; a    *)
(* full bar is collapsed or expanded by a card, an edge-tab is a sliver of *)
(* it.  The page in the window sends commands and gets the state back,     *)
(* each in order; the main window's switch follows the bar's visibility.   *)
(***************************************************************************)
EXTENDS Integers, SequencesExt, FiniteSetsExt

CONSTANTS
  Displays,  \* work areas [x, y, width, height]
  Primary,   \* the one that cannot be unplugged
  Points     \* where the cursor may be

\* Displays are larger than the bar with its card.
ASSUME MinibarAssumption ==
  /\ Primary \in Displays
  /\ Displays \subseteq [x : Int, y : Int, width : Nat, height : Nat]
  /\ \A a \in Displays : a.width >= 370 /\ a.height >= 370
  /\ Points \subseteq [x : Int, y : Int]

VARIABLES
  win,        \* minibarWin's bounds [x, y, width, height]
  visible,
  isExpanded, currentDockSide, currentDisplayMode,
  grab,       \* dragGrabOffset while dragFollowTimer runs, else NotDragged
  savedBounds,  \* minibar-bounds.json
  preferences,  \* minibar-preferences.json
  displays, cursor,
  toMain,     \* commands of the page on their way
  toBar,      \* states on their way to the page
  toApp,      \* visibilities on their way to the main window
  switch      \* the visibility the main window shows (useMiniBar)

windowVars == <<win, visible, isExpanded, currentDockSide, currentDisplayMode, grab,
                savedBounds, preferences, displays, cursor, toMain, toBar, toApp, switch>>
placeVars == <<win, isExpanded, currentDockSide, currentDisplayMode, savedBounds>>
worldVars == <<displays, cursor, switch>>

Docks == {"left", "right", "top", "bottom"}
NotDragged == [dx |-> 0, dy |-> 0, on |-> FALSE]

(***************************************************************************)
(* minibar-geometry.ts.                                                    *)
(***************************************************************************)
Horizontal(dock) == dock \in {"top", "bottom"}
FullSize(dock, expanded) ==
  IF Horizontal(dock) THEN [width |-> 340, height |-> IF expanded THEN 370 ELSE 56]
  ELSE [width |-> IF expanded THEN 370 ELSE 80, height |-> 340]
TabSize(dock) ==
  IF Horizontal(dock) THEN [width |-> 48, height |-> 18] ELSE [width |-> 18, height |-> 48]
At(p, size) == [x |-> p.x, y |-> p.y, width |-> size.width, height |-> size.height]
Place(px, py) == [x |-> px, y |-> py]

Clamp(v, lo, hi) == Max({lo, Min({hi, v})})
Right(a) == a.x + a.width
Bottom(a) == a.y + a.height
Within(a, p) == a.x <= p.x /\ p.x < Right(a) /\ a.y <= p.y /\ p.y < Bottom(a)
\* The cursor has somewhere to go when a display is unplugged.
ASSUME CursorAssumption == \E p \in Points : Within(Primary, p)
Overlaps(a, b) == b.x < Right(a) /\ a.x < Right(b) /\ b.y < Bottom(a) /\ a.y < Bottom(b)

\* resolveDockTarget: the nearest edge; the right one wins a tie, then the left.
NearestDock(p, a) ==
  LET Far(dock) == CASE dock = "left" -> p.x - a.x   [] dock = "right" -> Right(a) - p.x
                     [] dock = "top"  -> p.y - a.y   [] dock = "bottom" -> Bottom(a) - p.y
      nearest == {dock \in Docks : \A d \in Docks : Far(dock) <= Far(d)}
  IN IF "right" \in nearest THEN "right" ELSE IF "left" \in nearest THEN "left"
     ELSE IF "top" \in nearest THEN "top" ELSE "bottom"
ResolveDockTarget(p, a) ==
  LET dock == NearestDock(p, a) IN
  LET size == FullSize(dock, FALSE) IN
  [dock |-> dock,
   x |-> CASE dock = "left" -> a.x [] dock = "right" -> Right(a) - size.width
           [] OTHER -> Clamp(p.x - size.width \div 2, a.x, Right(a) - size.width),
   y |-> CASE dock = "top" -> a.y [] dock = "bottom" -> Bottom(a) - size.height
           [] OTHER -> Clamp(p.y - size.height \div 2, a.y, Bottom(a) - size.height)]

\* calculateCollapsedBounds: the corner the collapsed bar keeps.
CollapsedAnchor(b, expanded, dock) ==
  Place(IF expanded /\ dock = "right" THEN Right(b) - 80 ELSE b.x,
        IF expanded /\ dock = "bottom" THEN b.y + 370 - 56 ELSE b.y)

\* Mutant: the card opens to the right and downwards whatever the edge.
BoundsForState_NoShift(anchor, expanded, dock) == At(anchor, FullSize(dock, expanded))
\* calculateWindowBoundsForState: the card opens away from the edge.
BoundsForState(anchor, expanded, dock) ==
  LET size == FullSize(dock, expanded) IN
  At(Place(IF dock = "right" THEN anchor.x + 80 - size.width ELSE anchor.x,
           IF dock = "bottom" THEN anchor.y + 56 - size.height ELSE anchor.y), size)

\* clampBoundsToWorkArea, which takes the bar to be a full one.
ClampToWorkArea(b, a, expanded, dock) ==
  LET size == FullSize(dock, expanded) IN
  Place(CASE dock = "left" -> a.x [] dock = "right" -> Right(a) - size.width
          [] OTHER -> Clamp(b.x, a.x, Right(a) - size.width),
        CASE dock = "top" -> a.y [] dock = "bottom" -> Bottom(a) - size.height
          [] OTHER -> Clamp(b.y, a.y, Bottom(a) - size.height))

\* calculateEdgeTabBounds and restoreAnchorFromEdgeTab.
TabShift(dock) ==
  Place(CASE dock = "left" -> 0 [] dock = "right" -> 62 [] OTHER -> 146,
        CASE dock = "top" -> 0 [] dock = "bottom" -> 38 [] OTHER -> 146)
TabBounds(anchor, dock) ==
  At(Place(anchor.x + TabShift(dock).x, anchor.y + TabShift(dock).y), TabSize(dock))
AnchorOfTab(b, dock) == Place(b.x - TabShift(dock).x, b.y - TabShift(dock).y)

\* calculateStartupPosition: always upright, on the preferred edge.
StartupDock(preference, saved) ==
  IF preference # "remember" THEN preference
  ELSE IF saved.dock = "left" THEN "left" ELSE "right"
StartupArea(preference, saved) ==
  LET near == {a \in displays : Overlaps(At(saved, FullSize("right", FALSE)), a)} IN
  IF preference = "remember" /\ near # {} THEN CHOOSE a \in near : TRUE ELSE Primary
StartupPosition(preference, saved) ==
  LET a == StartupArea(preference, saved)
      dock == StartupDock(preference, saved)
      anchor == Place(IF dock = "left" THEN a.x ELSE Right(a) - 80,
                      Clamp(saved.y, a.y, Bottom(a) - 340))
  IN IF saved.mode = "edge-tab" THEN TabBounds(anchor, dock) ELSE At(anchor, FullSize(dock, FALSE))

(***************************************************************************)
(* minibar-window.ts.                                                      *)
(***************************************************************************)
BarState == [dock |-> currentDockSide, mode |-> currentDisplayMode, expanded |-> isExpanded]

\* A message equal to the one before it says nothing new.
Say(channel, m) == IF channel # <<>> /\ Last(channel) = m THEN channel ELSE Append(channel, m)
PushState == toBar' = Say(toBar, BarState')
NotifyVisibility == toApp' = Say(toApp, visible')

AnchorOf(b) == IF currentDisplayMode = "edge-tab" THEN AnchorOfTab(b, currentDockSide)
               ELSE CollapsedAnchor(b, isExpanded, currentDockSide)
\* saveBounds, after the step's own assignments.
SaveBounds ==
  savedBounds' = LET p == AnchorOf(win)' IN
    [x |-> p.x, y |-> p.y, dock |-> currentDockSide', mode |-> currentDisplayMode']

ClampToVisibleArea(b, expanded, dock) ==
  LET near == {a \in displays : Overlaps(b, a)} IN
  ClampToWorkArea(b, IF near = {} THEN Primary ELSE CHOOSE a \in near : TRUE, expanded, dock)

EnsureOnScreen ==
  LET p == ClampToVisibleArea(win, isExpanded, currentDockSide) IN
  /\ win' = [win EXCEPT !.x = p.x, !.y = p.y]
  /\ UNCHANGED <<isExpanded, currentDockSide, currentDisplayMode>>
  /\ IF win' # win THEN SaveBounds ELSE UNCHANGED savedBounds

SetWindowExpanded(expand) ==
  /\ IF isExpanded = expand \/ currentDisplayMode = "edge-tab" THEN UNCHANGED <<win, isExpanded, toBar>>
     ELSE /\ isExpanded' = expand
          /\ win' = BoundsForState(CollapsedAnchor(win, isExpanded, currentDockSide), expand, currentDockSide)
          /\ toBar' = Say(toBar, [BarState EXCEPT !.expanded = expand])
  /\ UNCHANGED <<currentDockSide, currentDisplayMode, savedBounds, visible, preferences, grab, toApp>>

SetDisplayMode(mode) ==
  /\ IF currentDisplayMode = mode THEN UNCHANGED <<placeVars, toBar>>
     ELSE /\ currentDisplayMode' = mode /\ isExpanded' = FALSE /\ UNCHANGED currentDockSide
          /\ win' = IF mode = "edge-tab"
                    THEN TabBounds(CollapsedAnchor(win, isExpanded, currentDockSide), currentDockSide)
                    ELSE LET size == FullSize(currentDockSide, FALSE) IN
                         At(ClampToVisibleArea(At(AnchorOfTab(win, currentDockSide), size),
                                               FALSE, currentDockSide), size)
          /\ SaveBounds /\ PushState
  /\ UNCHANGED <<visible, preferences, grab, toApp>>

\* minibar:drag-start; the cursor keeps its place in the collapsed bar.
DragStart ==
  /\ isExpanded' = FALSE
  /\ UNCHANGED <<currentDockSide, currentDisplayMode, savedBounds, visible, preferences, toApp>>
  /\ IF isExpanded
     THEN /\ win' = BoundsForState(CollapsedAnchor(win, TRUE, currentDockSide), FALSE, currentDockSide)
          /\ PushState
     ELSE UNCHANGED <<win, toBar>>
  /\ grab' = [dx |-> cursor.x - win'.x, dy |-> cursor.y - win'.y, on |-> TRUE]

\* The follow timer.
Follow ==
  /\ grab.on
  /\ win' = [win EXCEPT !.x = cursor.x - grab.dx, !.y = cursor.y - grab.dy]
  /\ win' # win
  /\ UNCHANGED <<visible, isExpanded, currentDockSide, currentDisplayMode, grab, savedBounds,
                 preferences, toBar, toApp, toMain, worldVars>>

\* stopDragFollowAndSettle and handleDragSettle.
DragEnd ==
  LET t == ResolveDockTarget(cursor, CHOOSE a \in displays : Within(a, cursor)) IN
  /\ grab' = NotDragged
  /\ currentDockSide' = t.dock /\ isExpanded' = FALSE /\ UNCHANGED currentDisplayMode
  /\ win' = At(t, FullSize(t.dock, FALSE))
  /\ SaveBounds /\ PushState
  /\ UNCHANGED <<visible, preferences, toApp>>

ResetMiniBarDock ==
  /\ currentDockSide' = "right" /\ currentDisplayMode' = "full" /\ isExpanded' = FALSE
  /\ win' = At(Place(Right(Primary) - 80, Primary.y + Max({24, (Primary.height - 340) \div 2})),
               FullSize("right", FALSE))
  /\ SaveBounds /\ PushState
  /\ UNCHANGED <<visible, preferences, grab, toApp>>

Reveal == EnsureOnScreen
\* minibar:set-visible, toggleMiniBar, minibar:close.
SetVisible(show) ==
  /\ IF show THEN Reveal /\ PushState ELSE UNCHANGED <<placeVars, toBar>>
  /\ visible' = show
  /\ preferences' = [preferences EXCEPT !.visible = show]
  /\ NotifyVisibility
  /\ UNCHANGED grab

\* The window is closed by the system: it hides, which is not remembered.
CloseWindow ==
  /\ visible /\ visible' = FALSE
  /\ NotifyVisibility
  /\ UNCHANGED <<placeVars, preferences, grab, toBar, toMain, worldVars>>

Do(m) ==
  CASE m.c = "expand" -> SetWindowExpanded(m.v)
    [] m.c = "mode"   -> SetDisplayMode(m.v)
    [] m.c = "show"   -> SetVisible(m.v)
    [] m.c = "start"  -> DragStart
    [] m.c = "end"    -> DragEnd
    [] m.c = "reset"  -> ResetMiniBarDock
\* The ipcMain handlers.
Receive ==
  /\ toMain # <<>> /\ toMain' = Tail(toMain)
  /\ Do(Head(toMain))
  /\ UNCHANGED worldVars

\* The tray, the settings and the menu of the edge-tab.
Elsewhere ==
  /\ \/ SetVisible(~visible)
     \/ ResetMiniBarDock
     \/ currentDisplayMode = "edge-tab" /\ SetDisplayMode("full")
  /\ UNCHANGED <<toMain, worldVars>>
SetDockPreference ==
  /\ \E p \in {"remember", "left", "right"} : preferences' = [preferences EXCEPT !.dock = p]
  /\ UNCHANGED <<placeVars, visible, grab, toMain, toBar, toApp, worldVars>>

\* createMiniBarWindow, from what was saved.
Start(saved, prefs) ==
  /\ currentDockSide' = StartupDock(prefs.dock, saved)
  /\ currentDisplayMode' = saved.mode /\ isExpanded' = FALSE
  /\ win' = StartupPosition(prefs.dock, saved)
  /\ visible' = prefs.visible
  /\ grab' = NotDragged
  /\ toMain' = <<>> /\ toBar' = <<BarState'>> /\ toApp' = <<visible'>>
Restart ==
  /\ Start(savedBounds, preferences)
  /\ UNCHANGED <<savedBounds, preferences, worldVars>>

(***************************************************************************)
(* The world, and the main window's switch.                                *)
(***************************************************************************)
worldUnchanged == UNCHANGED <<placeVars, visible, grab, preferences, toMain, toBar>>
MoveCursor ==
  /\ cursor' \in {p \in Points : \E a \in displays : Within(a, p)}
  /\ worldUnchanged /\ UNCHANGED <<displays, toApp, switch>>
PlugDisplays ==
  /\ displays' \in SUBSET Displays /\ Primary \in displays'
  /\ cursor' = IF \E a \in displays' : Within(a, cursor) THEN cursor
               ELSE CHOOSE p \in Points : Within(Primary, p)
  /\ worldUnchanged /\ UNCHANGED <<toApp, switch>>
HearVisibility ==
  /\ toApp # <<>> /\ switch' = Head(toApp) /\ toApp' = Tail(toApp)
  /\ worldUnchanged /\ UNCHANGED <<displays, cursor>>
\* setVisible of useMiniBar, whose answer comes after the notification.
UseSwitch ==
  /\ toApp = <<>> /\ SetVisible(~switch)
  /\ UNCHANGED <<toMain, worldVars>>

SavedAtFirst == [x |-> Right(Primary) - 80, y |-> Primary.y, dock |-> "right", mode |-> "full"]
WindowInit ==
  /\ displays = Displays /\ cursor = CHOOSE p \in Points : Within(Primary, p)
  /\ savedBounds = SavedAtFirst
  /\ preferences \in [visible : BOOLEAN, dock : {"remember"}]
  /\ win = StartupPosition("remember", SavedAtFirst)
  /\ currentDockSide = "right" /\ currentDisplayMode = "full" /\ isExpanded = FALSE
  /\ visible = preferences.visible /\ grab = NotDragged
  /\ toMain = <<>> /\ toBar = <<BarState>> /\ toApp = <<visible>> /\ switch = FALSE

WindowStep ==
  \/ Receive \/ Follow \/ Elsewhere \/ CloseWindow \/ SetDockPreference \/ Restart
  \/ MoveCursor \/ PlugDisplays \/ HearVisibility \/ UseSwitch

(***************************************************************************)
(* Properties.                                                             *)
(***************************************************************************)
WindowTypeOK ==
  /\ win \in [x : Int, y : Int, width : Nat, height : Nat]
  /\ currentDockSide \in Docks /\ currentDisplayMode \in {"full", "edge-tab"}
  /\ preferences \in [visible : BOOLEAN, dock : {"remember", "left", "right"}]
  /\ {isExpanded, visible, switch} \subseteq BOOLEAN

\* The corner of the collapsed bar, from the edges of what is seen of it.
Corner ==
  LET full == FullSize(currentDockSide, FALSE)
      middle == (win.y + win.height \div 2) - full.height \div 2
  IN Place(CASE currentDockSide = "right" -> Right(win) - 80
             [] currentDockSide = "left" -> win.x
             [] OTHER -> (win.x + win.width \div 2) - 170,
           CASE currentDockSide = "top" -> win.y
             [] currentDockSide = "bottom" -> Bottom(win) - 56
             [] OTHER -> middle)

\* The bar lies along the edge of the work area a.
AtEdge(a) == CASE currentDockSide = "left"   -> win.x = a.x
               [] currentDockSide = "right"  -> Right(win) = Right(a)
               [] currentDockSide = "top"    -> win.y = a.y
               [] currentDockSide = "bottom" -> Bottom(win) = Bottom(a)
\* What the collapsed full bar covers is on that display, and on no other.
OnlyOn(a) ==
  LET b == At(Corner, FullSize(currentDockSide, FALSE)) IN
  /\ a.x <= b.x /\ Right(b) <= Right(a) /\ a.y <= b.y /\ Bottom(b) <= Bottom(a)
  /\ \A other \in displays : Overlaps(b, other) => other = a

\* However the bar gets to another place, Pulse started again finds that
\* place, its edge and its form saved, unless it is being dragged.
MovesAreSaved ==
  [][~Restart /\ ~grab.on' /\ (Corner' # Corner \/ currentDockSide' # currentDockSide
                              \/ currentDisplayMode' # currentDisplayMode)
     => savedBounds' = [x |-> Corner'.x, y |-> Corner'.y,
                        dock |-> currentDockSide', mode |-> currentDisplayMode']]_windowVars

\* A bar that has just been made visible is on a connected display, though
\* the one it was on was unplugged while it was hidden or Pulse not running.
ShownOnScreen == [][~visible /\ visible' => \E a \in displays' : Overlaps(win', a)]_windowVars

\* Opening and closing the card, and going to the edge-tab and back, leave a bar
\* that lies on one display where it is: it does not drift.
BarDoesNotDrift ==
  [][/\ isExpanded' # isExpanded \/ currentDisplayMode' # currentDisplayMode
     /\ currentDockSide' = currentDockSide /\ grab = NotDragged
     /\ \E a \in displays : AtEdge(a) /\ OnlyOn(a)
     => Corner' = Corner \/ ResetMiniBarDock \/ Restart]_windowVars

\* The main window's switch shows what the window is, once it has heard.
SwitchIsTrue == toApp = <<>> => switch = visible

=============================================================================
