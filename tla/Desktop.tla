-------------------------------- MODULE Desktop -------------------------------
(***************************************************************************)
(* The window system and the calculator's window: src/kernel/gui/gui.c and *)
(* calculator_app.c.  Each frame, gui_update reads the mouse and handles   *)
(* its button, then the calculator reads the mouse again and does the      *)
(* same, with a memory of the last button state of its own.  The mouse     *)
(* interrupt may come at any point.  Drawing is left out.                  *)
(***************************************************************************)
EXTENDS Calculator, Sequences, SequencesExt, FiniteSetsExt

CONSTANTS
    Regions,        \* bound of the model on where the pointer goes: sets of points
                    \* of the mouse's 640 by 480; it stays in the one it starts in
    Shapes,         \* windows that programs create: records x, y, w, h
    MaxWindows,
    MaxPresses      \* bound of the model on button presses

Width == 320        \* VGA_WIDTH, VGA_HEIGHT: nobody calls vga_init
Height == 200
Taskbar == 28
CalcWidth == 195
CalcHeight == 240

ASSUME DesktopAssumption ==
    /\ Regions \subseteq SUBSET ((0 .. 639) \X (0 .. 479))
    /\ \A r \in Regions : \A p, q \in r : <<p[1], q[2]>> \in r
    /\ Shapes \subseteq [x : 0 .. Width - 1, y : 0 .. Height - 1, w : 1 .. Width, h : 1 .. Height]
    /\ \A s \in Shapes : s.x + s.w <= Width /\ s.y + s.h <= Height - Taskbar
    /\ MaxWindows \in Nat /\ MaxPresses \in Nat

Points == UNION Regions
Nowhere == <<0, 0>>

VARIABLES
    mouse,              \* mouse_state: its position and the left button
    pc,                 \* where the frame is
    at,                 \* the position read by the mouse_get_state in progress
    windows,            \* the windows created so far, closed ones included
    dragging_window,    \* index of the dragged window, 0 for none
    drag_offset,
    gui_last,           \* last_buttons of gui_update: the left button
    calc,               \* x, y, dragging and offset of the calculator's window
    active,             \* g_calculator_active
    calc_last,          \* last_buttons of calculator_update
    presses,            \* bounded: how often the button went down
    guiUsed, calcUsed   \* history: each has handled a click since the button was up

gui == <<windows, dragging_window, drag_offset, gui_last>>
calculator == <<calc, active, calc_last, keypad>>
vars == <<mouse, pc, at, gui, calculator, presses, guiUsed, calcUsed>>

\* gui_init, which starts the calculator.
Init ==
    /\ mouse \in [at : Points, left : {FALSE}]
    /\ pc = "idle" /\ at = Nowhere
    /\ windows = <<>> /\ dragging_window = 0 /\ drag_offset = Nowhere
    /\ gui_last = FALSE
    /\ calc = [x |-> 60, y |-> 30, dragging |-> FALSE, offset |-> Nowhere]
    /\ active = TRUE /\ calc_last = FALSE
    /\ KeypadInit
    /\ presses = 0 /\ guiUsed = FALSE /\ calcUsed = FALSE

-----------------------------------------------------------------------------
(* The mouse interrupt, and the reads it may tear.                          *)

Reach == UNION {r \in Regions : mouse.at \in r}

\* A packet has the position and the button; the handler stores both.
Packet(p, left) ==
    /\ mouse' = [at |-> p, left |-> left]
    /\ IF left /\ ~mouse.left
         THEN presses < MaxPresses /\ presses' = presses + 1
         ELSE UNCHANGED presses
    /\ guiUsed' = (guiUsed /\ left)
    /\ calcUsed' = (calcUsed /\ left)
    /\ UNCHANGED <<pc, at, gui, calculator>>

\* mouse_get_state copies the position first, the buttons last.  A position
\* torn between its coordinates is a point of the region like any other.
ReadPosition(from, to) ==
    /\ pc = from
    /\ pc' = to
    /\ at' = mouse.at
    /\ UNCHANGED <<mouse, gui, calculator, presses, guiUsed, calcUsed>>

\* The position on the screen.
Mx == (at[1] * Width) \div 640
My == (at[2] * Height) \div 480

-----------------------------------------------------------------------------
(* gui_update.                                                              *)

OnLauncher ==
    /\ My \in Height - Taskbar + 4 .. Height - Taskbar + 20
    /\ Mx \in 4 .. 54

OnClose(w) ==
    /\ Mx \in w.x + w.w - 20 .. w.x + w.w - 10
    /\ My \in w.y + 7 .. w.y + 17

OnTitle(w) ==
    /\ Mx \in w.x .. w.x + w.w
    /\ My \in w.y .. w.y + 24

\* Windows under the pointer that react; the last created is asked first.
Reacting == {i \in DOMAIN windows :
                windows[i].visible /\ (OnClose(windows[i]) \/ OnTitle(windows[i]))}

Asked == windows[Max(Reacting)]

\* gui_handle_mouse_click: the launcher first (app_launch is in Kernel), then
\* the windows, and of each its close button first.
ClickNothing ==
    /\ OnLauncher \/ Reacting = {}
    /\ UNCHANGED <<windows, dragging_window, drag_offset>>

ClickClose ==
    /\ ~OnLauncher /\ Reacting # {} /\ OnClose(Asked)
    /\ windows' = [windows EXCEPT ![Max(Reacting)].visible = FALSE]
    /\ UNCHANGED <<dragging_window, drag_offset>>

ClickTitle ==
    /\ ~OnLauncher /\ Reacting # {} /\ ~OnClose(Asked)
    /\ dragging_window' = Max(Reacting)
    /\ drag_offset' = <<Mx - Asked.x, My - Asked.y>>
    /\ UNCHANGED windows

GuiClick ==
    /\ ClickNothing \/ ClickClose \/ ClickTitle
    /\ guiUsed' = TRUE

\* A position that would put the far edge beyond test is pulled back so that
\* the edge is at limit; gui.c tests the lower edge against the width.
Kept(v, size, test, limit) ==
    LET w == Max({v, 0}) IN IF w + size > test THEN limit - size ELSE w

GuiKeptXLeft(v, size) == IF v + size > Width THEN Width - size ELSE v  \* mutant
GuiKeptX(v, size) == Kept(v, size, Width, Width)
GuiKeptY(v, size) == Kept(v, size, Width - Taskbar, Height - Taskbar)

\* gui_handle_mouse_drag
Moved(w) == [w EXCEPT !.x = GuiKeptX(Mx - drag_offset[1], w.w),
                      !.y = GuiKeptY(My - drag_offset[2], w.h)]

GuiDrag ==
    /\ dragging_window # 0
    /\ windows' = [windows EXCEPT ![dragging_window] = Moved(@)]
    /\ UNCHANGED <<dragging_window, drag_offset, guiUsed>>

GuiReleaseLate == UNCHANGED <<windows, dragging_window, drag_offset, guiUsed>>  \* mutant

\* gui_handle_mouse_release
GuiRelease ==
    /\ dragging_window' = 0
    /\ UNCHANGED <<windows, drag_offset, guiUsed>>

GuiIdle == UNCHANGED <<windows, dragging_window, drag_offset, guiUsed>>

\* The button as this frame saw it, for the next one.
GuiSeen == mouse.left

GuiUpdate ==
    /\ pc = "gui"
    /\ \/ mouse.left /\ ~gui_last /\ GuiClick
       \/ mouse.left /\ gui_last /\ (GuiDrag \/ (dragging_window = 0 /\ GuiIdle))
       \/ ~mouse.left /\ gui_last /\ GuiRelease
       \/ ~mouse.left /\ ~gui_last /\ GuiIdle
    /\ gui_last' = GuiSeen
    /\ pc' = IF active THEN "calc_read" ELSE "idle"
    /\ at' = Nowhere
    /\ UNCHANGED <<mouse, calculator, presses, calcUsed>>

HasSlot == Len(windows) < MaxWindows

\* gui_create_window, which other parts of the kernel may call between frames.
CreateWindow(s) ==
    /\ pc = "idle"
    /\ HasSlot
    /\ windows' = Append(windows, [x |-> s.x, y |-> s.y, w |-> s.w, h |-> s.h, visible |-> TRUE])
    /\ UNCHANGED <<mouse, pc, at, dragging_window, drag_offset, gui_last, calculator,
                   presses, guiUsed, calcUsed>>
-----------------------------------------------------------------------------
(* calculator_update.                                                       *)

\* Rows of keys 35 pixels apart, columns 45 pixels apart.
Digit(d) == [kind |-> "digit", digit |-> d]
Operator(op) == [kind |-> "operator", op |-> op]
DigitAt(column, row) == Digit(7 - 3 * row + column)

Key(x, y, w, key) == [x |-> x, y |-> y, w |-> w, h |-> 30, key |-> key]

Buttons ==
    {Key(10 + 45 * c, 60 + 35 * r, 40, DigitAt(c, r)) : c \in 0 .. 2, r \in 0 .. 2}
    \union {Key(145, 60, 40, Operator("/")), Key(145, 95, 40, Operator("*")),
            Key(145, 130, 40, Operator("-")), Key(145, 165, 40, Operator("+")),
            Key(10, 165, 85, Digit(0)), Key(100, 165, 40, [kind |-> "point"]),
            Key(10, 200, 85, [kind |-> "clear"]), Key(100, 200, 85, [kind |-> "equals"])}

\* calculator_check_button: the keys do not overlap.
Pointed == {b \in Buttons : /\ Mx - calc.x \in b.x .. b.x + b.w - 1
                            /\ My - calc.y \in b.y .. b.y + b.h - 1}

OnCalcClose ==
    /\ Mx \in calc.x + CalcWidth - 10 .. calc.x + CalcWidth - 2
    /\ My \in calc.y + 1 .. calc.y + 7

OnCalcTitle ==
    /\ Mx \in calc.x .. calc.x + CalcWidth
    /\ My \in calc.y .. calc.y + 8

CalcClicked == mouse.left /\ ~calc_last
CalcReleased == ~mouse.left /\ calc_last

\* calculator_close; the rest of calculator_update is skipped.
CalcClose ==
    /\ CalcClicked /\ OnCalcClose
    /\ active' = FALSE
    /\ UNCHANGED <<calc, keypad>>

CalcKeptX(v) == Kept(v, CalcWidth, Width, Width)
CalcKeptY(v) == Kept(v, CalcHeight, Height - 24, Height - 24)

\* What follows a click or none: the window moves if it is dragged, from the
\* frame of the click on, and the drag ends with the button.
Dragged(dragging, offset) ==
    calc' = [x |-> IF dragging /\ mouse.left THEN CalcKeptX(Mx - offset[1]) ELSE calc.x,
             y |-> IF dragging /\ mouse.left THEN CalcKeptY(My - offset[2]) ELSE calc.y,
             dragging |-> dragging /\ ~CalcReleased,
             offset |-> offset]

CalcGrab ==
    /\ CalcClicked /\ ~OnCalcClose /\ OnCalcTitle
    /\ Dragged(TRUE, <<Mx - calc.x, My - calc.y>>)
    /\ UNCHANGED <<active, keypad>>

CalcPress ==
    /\ CalcClicked /\ ~OnCalcClose /\ ~OnCalcTitle
    /\ \/ \E b \in Pointed : Handle(b.key)
       \/ Pointed = {} /\ UNCHANGED keypad
    /\ Dragged(calc.dragging, calc.offset)
    /\ UNCHANGED active

CalcNoClick ==
    /\ ~CalcClicked
    /\ Dragged(calc.dragging, calc.offset)
    /\ UNCHANGED <<active, keypad>>

CalcSeenStale == calc_last  \* mutant
CalcSeen == mouse.left

CalcUpdate ==
    /\ pc = "calc"
    /\ CalcClose \/ CalcGrab \/ CalcPress \/ CalcNoClick
    /\ calc_last' = CalcSeen
    /\ calcUsed' = (calcUsed \/ CalcClicked)
    /\ pc' = "idle"
    /\ at' = Nowhere
    /\ UNCHANGED <<mouse, gui, presses, guiUsed>>

-----------------------------------------------------------------------------

Next ==
    \/ \E p \in Reach, left \in BOOLEAN : Packet(p, left)
    \/ \E s \in Shapes : CreateWindow(s)
    \/ ReadPosition("idle", "gui")
    \/ GuiUpdate
    \/ ReadPosition("calc_read", "calc")
    \/ CalcUpdate

Spec == Init /\ [][Next]_vars

-----------------------------------------------------------------------------
(* Properties.                                                              *)

\* Windows, offsets and accumulators have their types; only a window that was
\* created is dragged.
TypeOK ==
    /\ mouse \in [at : Points, left : BOOLEAN]
    /\ pc \in {"idle", "gui", "calc_read", "calc"}
    /\ at \in Points \union {Nowhere}
    /\ windows \in Seq([x : Int, y : Int, w : Nat, h : Nat, visible : BOOLEAN])
    /\ Len(windows) <= MaxWindows
    /\ dragging_window \in 0 .. Len(windows)
    /\ drag_offset \in Int \X Int
    /\ calc \in [x : Int, y : Int, dragging : BOOLEAN, offset : Int \X Int]
    /\ {gui_last, active, calc_last, guiUsed, calcUsed} \subseteq BOOLEAN
    /\ presses \in 0 .. MaxPresses
    /\ KeypadTypeOK

\* One press of the button is one click for the window system and one for the
\* calculator, at most: neither takes a held button for a new press, however
\* their two reads fall between the packets of the mouse, and however many
\* frames a press lasts.  Frames that close a window return early.
ClicksArePresses ==
    /\ pc = "gui" /\ mouse.left /\ ~gui_last => ~guiUsed
    /\ pc = "calc" /\ CalcClicked => ~calcUsed

\* A window is dragged only while the button was down in the last frame that
\* looked, so a release ends every drag, also one of a window just closed; a
\* closed window is not dragged.
DragHeld ==
    /\ dragging_window # 0 => gui_last /\ windows[dragging_window].visible
    /\ calc.dragging => calc_last /\ active

\* No sequence of drags takes a window's title bar off the screen, where the
\* pointer could not get it back, although the lower edge is not kept above
\* the taskbar.  The calculator's window, taller than the screen, is another
\* matter: the first drag puts its title bar out of reach.
TitleOnScreen ==
    \A i \in DOMAIN windows :
        /\ windows[i].x >= 0 /\ windows[i].x + windows[i].w <= Width
        /\ windows[i].y \in 0 .. Height - 1

-----------------------------------------------------------------------------
(* Said by the repository, and not so.                                      *)

\* A drag of the calculator's window is limited to "Keep on screen"
\* (calculator_app.c:372).  What the code does: the window is where it was
\* opened, or its title bar is above the screen, where no pointer gets it.
DragLosesTitle == calc.y = 30 \/ calc.y + 8 < 0
===============================================================================
