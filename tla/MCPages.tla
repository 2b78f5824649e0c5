------------------------------- MODULE MCPages -------------------------------
(* Windows and pages: the minibar's window with its page, alone and with   *)
(* any page; the configuration of the band with its page; the setup        *)
(* wizard. They share no state: a behaviour is of one `part`, and the      *)
(* others stand still.                                                     *)
EXTENDS MiniBar, DeviceConfig, SetupWizard

VARIABLE part
minibarVars == <<windowVars, pageVars>>
vars == <<minibarVars, configVars, setupVars, part>>

c_Primary == [x |-> 0, y |-> 0, width |-> 1920, height |-> 1040]
c_Second == [x |-> 1920, y |-> 0, width |-> 1536, height |-> 824]
c_Displays == {c_Primary, c_Second}
c_Bottom == Place(900, 1030)
c_Points == {c_Bottom, Place(2000, 400)}

MinibarInit ==
  /\ WindowInit /\ PageInit
  /\ part # "window" => visible /\ cursor = c_Bottom
  /\ part \notin {"bar", "window"} => preferences = [visible |-> TRUE, dock |-> "remember"]

(* The page's window: the main process takes a command when the page is at *)
(* most a state behind, and what is done elsewhere is done when all is     *)
(* heard.                                                                  *)
BarMain ==
  /\ toApp = <<>> /\ Len(toBar) <= 1
  /\ Receive \/ (Elsewhere /\ Heard /\ (visible => visible'))
HearSwitch == HearVisibility /\ UNCHANGED pageVars
BarNext ==
  \/ PageStep
  \/ BarMain /\ UNCHANGED pageVars
  \/ HearSwitch

(* Any page: it drags a full bar only, and sends nothing else meanwhile.   *)
AnyCommand ==
  {Command("expand", b) : b \in BOOLEAN} \cup {Command("mode", m) : m \in {"full", "edge-tab"}}
  \cup {Command("show", FALSE)}
AnyPage ==
  /\ toMain = <<>> /\ toBar' = <<>>
  /\ \/ grab.on /\ toMain' = <<Command("end", TRUE)>>
     \/ ~grab.on /\ toMain' \in {<<m>> : m \in AnyCommand}
     \/ ~grab.on /\ currentDisplayMode = "full" /\ toMain' = <<Command("start", TRUE)>>
  /\ UNCHANGED <<placeVars, visible, grab, preferences, toApp, worldVars>>
WindowNext ==
  /\ AnyPage \/ (WindowStep /\ Len(toBar') <= 1 /\ Len(toApp') <= 1)
  /\ UNCHANGED pageVars

\* What the window and its page say of each other, once heard, is true: the main
\* window's switch is that of the window, and where the window's own page is
\* running it has room for the card and the menu and no more, it follows the
\* cursor only while the button is down, and the card is of the agent under the
\* mouse or pinned (minibar-window.ts, MiniBar.tsx).
PageAgrees ==
  /\ WindowTypeOK /\ PageTypeOK
  /\ SwitchIsTrue /\ CardFollowsTarget
  /\ part = "bar" => WindowFitsContent /\ DragEndsWithButton

\* The bar is where the user put it, and on a screen: opening the card or the
\* edge-tab does not move it, a move is saved, and a bar that appears can be seen
\* (minibar-window.ts).
BarStaysPut == BarDoesNotDrift /\ MovesAreSaved /\ ShownOnScreen

PagesInit ==
  /\ part \in {"bar", "window", "config", "setup"}
  /\ MinibarInit
  /\ ConfigInit /\ (part # "config" => paired = {})
  /\ SetupInit /\ prompted = "no" /\ (part # "setup" => ~truth.config)

Only(p) ==
  /\ UNCHANGED part
  /\ p \notin {"bar", "window"} => UNCHANGED minibarVars
  /\ p # "config" => UNCHANGED configVars
  /\ p # "setup" => UNCHANGED setupVars

PagesNext ==
  \/ part = "bar" /\ BarNext /\ Only("bar")
  \/ part = "window" /\ WindowNext /\ Only("window")
  \/ part = "config" /\ ConfigNext /\ Only("config")
  \/ part = "setup" /\ SetupNext /\ Only("setup")

PagesSpec == PagesInit /\ [][PagesNext]_vars
=============================================================================
