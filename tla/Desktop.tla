------------------------------- MODULE Desktop -------------------------------
(***************************************************************************)
(* The desktop of the Lunee kernel: the endless loop of render_from_marep  *)
(* (pointer, keyboard, one run of the launcher, copy to the screen), the   *)
(* windows, the dock with its pinned applications, and the menus, whose    *)
(* state outlives a frame in the kernel while the launcher, which decides  *)
(* what to do with it, starts anew every frame.  The screen is a row of    *)
(* Width places; the icon of an application is its position in the dock.   *)
(***************************************************************************)
EXTENDS Naturals, Integers, Sequences, FiniteSets

CONSTANTS
  Width,      \* places of the screen
  NApps,      \* installed applications, with the indices of the registry
  Step,       \* STEP: places an arrow key moves the cursor, 8 in the code
  Throttle,   \* frames between two renders of a window's content, 6
  LongPress,  \* frames of a long press on an icon, 40
  BootFrames, \* BOOT_SCREEN_FRAMES: frames of ShiBoot before the desktop
  MaxWindows  \* bound: windows open at once

VARIABLES
  frame,     \* frames of ShiBoot still to show
  cursor,    \* cursor_x
  pinned,    \* applications with an icon in the dock
  windows,   \* RUNNING_APPS: the app, the frames since its content was rendered, dirty
  hold,      \* SCROLL_SCRATCH: frames the button has been down on an icon
  dockMenu,  \* MENU_OPEN and MENU_OWNER_IDX: the owner of the open menu, or none
  menu,      \* GLOBAL_MENU_*: open, mode, and the submenu's application
  pressed,   \* history: menus the present press on an icon has opened by its length
  blind,     \* history: applications launched beside their own window
  shown      \* history: did the frame show every window with content of this input

desktopVars ==
  <<frame, cursor, pinned, windows, hold, dockMenu, menu, pressed, blind, shown>>

None0 == 0
Apps == 1..NApps
Places == 0..Width - 1
Buttons == SUBSET {"left", "right"}
Keys == {"none", "arrow_left", "arrow_right", "enter", "other"}
Window == [app : Apps, age : 0..Throttle, dirty : BOOLEAN]
Menu == [open : BOOLEAN, items : BOOLEAN, submenu : 0..NApps]
Closed == [open |-> FALSE, items |-> FALSE, submenu |-> None0]

\* publish_registry: some applications are pinned by default
DesktopInit ==
  /\ frame = BootFrames /\ cursor = Width \div 2
  /\ pinned \in SUBSET Apps /\ windows = <<>>
  /\ hold = [a \in Apps |-> 0] /\ dockMenu = None0 /\ menu = Closed
  /\ pressed = [a \in Apps |-> 0] /\ blind = {} /\ shown = TRUE

\* ShiBoot, when it is installed, is run for a fixed number of frames; no input
\* is read meanwhile
BootFrame ==
  /\ frame > 0
  /\ frame' \in {frame - 1, 0}
  /\ UNCHANGED <<cursor, pinned, windows, hold, dockMenu, menu, pressed, blind, shown>>

Clamp_Low(x) == IF x < 0 THEN 0 ELSE x
Clamp(x) == IF x < 0 THEN 0 ELSE IF x > Width - 1 THEN Width - 1 ELSE x

\* an absolute position is clamped, a relative movement added and clamped, and the
\* arrow keys move what results
Moved(at, dx, key) ==
  LET relative == Clamp(Clamp(at) + dx)
  IN CASE key = "arrow_left" -> Clamp(relative - Step)
       [] key = "arrow_right" -> Clamp(relative + Step)
       [] OTHER -> relative

\* the k-th pinned application is drawn at place k
Icon(a) == Cardinality({b \in pinned : b < a})
Over(a, x) == a \in pinned /\ Icon(a) = x
OverDock(x) == \E a \in Apps : Over(a, x)
Open(a) == \E i \in DOMAIN windows : windows[i].app = a

\* a click or ENTER on an icon launches the application, unless it has a window
Launches_Always(a, x, buttons, key) ==
  Over(a, x) /\ ("left" \in buttons \/ key = "enter")
Launches(a, x, buttons, key) ==
  Over(a, x) /\ ("left" \in buttons \/ key = "enter") /\ ~Open(a)

\* WindowManLaunch: the package may be missing, or all windows taken; a new window has
\* to be rendered
Launched(a) ==
  IF Len(windows) < MaxWindows THEN <<[app |-> a, age |-> 0, dirty |-> TRUE]>> ELSE <<>>

\* the frames of a press, and the menu of the icon when they are LongPress
Held(x, buttons) ==
  [a \in Apps |-> IF ~(Over(a, x) /\ "left" \in buttons) THEN 0
                  ELSE IF hold[a] > LongPress THEN hold[a] ELSE hold[a] + 1]
IsLongPress_Reached(n) == n >= LongPress
IsLongPress(n) == n = LongPress

OpensDockMenu(a, x, buttons) ==
  Over(a, x) /\ ("right" \in buttons \/ IsLongPress(Held(x, buttons)[a]))

\* WindowManRenderAndComposite: the content is run again when it is dirty or old,
\* or a key or a button is down; else the last content is shown
MustRender_Clean(w, buttons, key) == w.dirty \/ key # "none" \/ buttons # {}
MustRender(w, buttons, key) ==
  w.dirty \/ w.age >= Throttle \/ key # "none" \/ buttons # {}
Composited(ws, buttons, key) ==
  [i \in DOMAIN ws |->
     IF MustRender(ws[i], buttons, key) THEN [ws[i] EXCEPT !.age = 0, !.dirty = FALSE]
     ELSE ws[i]]
Aged == [i \in DOMAIN windows |->
           [windows[i] EXCEPT !.age = IF @ < Throttle THEN @ + 1 ELSE @]]

\* where what the pointer reports, a position or a movement, and a key may move the
\* cursor
Reached(key) ==
  {Moved(at, dx, key) : at \in {cursor} \cup Places, dx \in {-1, 0, 1}}

\* one frame with the pointer at x and what the buttons and the keyboard report; a
\* window may lie over the icons and over the desktop
Frame(x, buttons, key) ==
  /\ frame = 0
  /\ cursor' = x
  /\ hold' = Held(x, buttons)
  /\ \E occluded \in (IF windows = <<>> THEN {FALSE} ELSE BOOLEAN) :
       LET starts == {a \in Apps : ~occluded /\ Launches(a, x, buttons, key)}
           opens == {a \in Apps : ~occluded /\ OpensDockMenu(a, x, buttons)}
       IN /\ \E new \in {<<>>} \cup {Launched(a) : a \in starts} :
               windows' = Composited(Aged \o new, buttons, key)
          /\ dockMenu' = IF opens = {} THEN dockMenu ELSE CHOOSE a \in opens : TRUE
          /\ pressed' = [a \in Apps |->
                           IF hold'[a] = 0 THEN 0
                           ELSE IF a \in opens /\ "right" \notin buttons /\ pressed[a] < 2
                                THEN pressed[a] + 1 ELSE pressed[a]]
          \* MenuOpenGlobal clears the items, and leaves the submenu as it is
          /\ menu' = IF "right" \in buttons /\ ~menu.open /\ ~occluded /\ ~OverDock(x)
                     THEN [menu EXCEPT !.open = TRUE, !.items = FALSE] ELSE menu
          /\ shown' = \A i \in DOMAIN windows' :
                        ~windows'[i].dirty /\ windows'[i].age < Throttle
  /\ UNCHANGED <<frame, pinned, blind>>

\* the launcher and the applications between two frames: the menus' own clicks, an
\* application's menu in the place of the launcher's, a window closed or resized, a
\* launch from a menu or from a program, an icon pinned or not
ItemsMenu ==
  /\ menu' = [menu EXCEPT !.open = TRUE, !.items = TRUE]
  /\ UNCHANGED <<windows, dockMenu, pinned, blind>>
Submenu ==
  /\ menu.open /\ ~menu.items
  /\ \E a \in Apps : menu' = [menu EXCEPT !.submenu = a]
  /\ UNCHANGED <<windows, dockMenu, pinned, blind>>
CloseSubmenu ==
  /\ menu' = [menu EXCEPT !.submenu = None0]
  /\ UNCHANGED <<windows, dockMenu, pinned, blind>>
ClosedMenu_Only == [menu EXCEPT !.open = FALSE, !.items = FALSE]
ClosedMenu == Closed
CloseMenus ==
  /\ menu' = ClosedMenu /\ dockMenu' = None0
  /\ UNCHANGED <<windows, pinned, blind>>
Twice(a, ws) == \E i, j \in DOMAIN ws : i < j /\ ws[i].app = a /\ ws[j].app = a
CloseWindow ==
  /\ \E i \in DOMAIN windows :
       windows' = SubSeq(windows, 1, i - 1) \o SubSeq(windows, i + 1, Len(windows))
  /\ blind' = {a \in blind : Twice(a, windows')}
  /\ UNCHANGED <<menu, dockMenu, pinned>>
Resize ==
  /\ \E i \in DOMAIN windows : windows' = [windows EXCEPT ![i].dirty = TRUE]
  /\ UNCHANGED <<menu, dockMenu, pinned, blind>>
\* WindowManLaunch itself looks for no window of the application
MenuLaunch ==
  /\ \E a \in Apps :
       /\ windows' = windows \o Launched(a)
       /\ blind' = IF Twice(a, windows') THEN blind \cup {a} ELSE blind
  /\ UNCHANGED <<menu, dockMenu, pinned>>
Pin ==
  /\ \E a \in Apps : pinned' = (IF a \in pinned THEN pinned \ {a} ELSE pinned \cup {a})
  /\ UNCHANGED <<menu, dockMenu, windows, blind>>

Between ==
  /\ frame = 0
  /\ ItemsMenu \/ Submenu \/ CloseSubmenu \/ CloseMenus \/ CloseWindow \/ Resize
     \/ MenuLaunch \/ Pin
  /\ UNCHANGED <<frame, cursor, hold, pressed, shown>>

DesktopNext ==
  \/ BootFrame
  \/ \E key \in Keys, buttons \in Buttons : \E x \in Reached(key) : Frame(x, buttons, key)
  \/ Between

DesktopSpec == DesktopInit /\ [][DesktopNext]_desktopVars

-----------------------------------------------------------------------------
(* Properties.                                                             *)

DesktopTypeOK ==
  /\ frame \in 0..BootFrames /\ cursor \in Places /\ pinned \subseteq Apps
  /\ windows \in Seq(Window) /\ Len(windows) <= MaxWindows
  /\ hold \in [Apps -> 0..LongPress + 1] /\ dockMenu \in 0..NApps
  /\ menu \in Menu /\ pressed \in [Apps -> 0..2] /\ blind \subseteq Apps /\ shown \in BOOLEAN

\* An application has one window at most, however often its icon is clicked, but for one
\* that a menu or a program launched beside its window: the kernel's launch does not
\* look for a window, the launcher does before it launches what was clicked.
OneWindowPerApp ==
  \A i, j \in DOMAIN windows :
    windows[i].app = windows[j].app => i = j \/ windows[i].app \in blind

\* A frame shows every window with content that is younger than the throttle,
\* and none whose content was lost by a resize.
ContentIsRecent == shown

\* A long press opens the menu of its icon once, while the button stays down.
OneMenuPerPress == \A a \in Apps : pressed[a] <= 1

\* No submenu floats over a desktop whose menu is closed, to be there when the
\* menu opens again.
NoGhostSubmenu == menu.submenu # None0 => menu.open

DesktopConsistent == OneWindowPerApp /\ ContentIsRecent /\ OneMenuPerPress /\ NoGhostSubmenu
=============================================================================
