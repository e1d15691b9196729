------------------------------ MODULE TouchGui ------------------------------
(***************************************************************************)
(* The touch display of proc_mcu: the interrupt of the pen, touchscan_task,*)
(* guiupdate_task and the tasks gui_form_update creates for the callbacks  *)
(* of the buttons.  All tasks have the same priority and are time-sliced,  *)
(* and they share current_form, the lists of buttons and labels of the     *)
(* forms and uart2_dma_buffer_size without a lock.                         *)
(*                                                                         *)
(* Times: guiupdate_task waits 200 ms between two updates and a callback   *)
(* starts 220 ms after its task was created, so at most one more update    *)
(* begins before it.  It is assumed done 180 ms later, unless it waits for *)
(* the user to calibrate the display.                                      *)
(***************************************************************************)
EXTENDS Integers, SequencesExt, FiniteSetsExt

CONSTANTS
  QueueLength,  (* Length of touch_point_queue: 10.                        *)
  MaxTouches    (* Bound: touches of the pen.                              *)

ASSUME TouchGuiAssumption ==
  /\ QueueLength \in Nat \ {0}
  /\ MaxTouches \in Nat

VARIABLES
  \* the pen: where it touches, or Nowhere; and the mask of its interrupt
  pen, masked,
  \* bit 0 of touch_event
  event,
  \* touchscan_task: what it does next, and x_pos, y_pos
  touch_pc, pos,
  \* touch_point_queue
  queue,
  \* guiupdate_task: what it does next, whether it is suspended, the place
  \* it updates for, and the variables of gui_form_update
  gui_pc, suspended, item, counter, label_counter, tmp, pressed_button,
  \* the form displayed, the lists of every form, and the buttons whose
  \* status is button_click_status
  current_form, lists, clicked,
  \* the callback tasks in the order they were created
  callbacks,
  \* uart2_dma_buffer_size, and the mode read_mcu was last told
  size, command,
  \* history: touches; whether anything was under way at the last, and what
  \* it was aimed at if not; whether the last scan failed; whether the lists
  \* were being made shorter under this update; whether it left one; whether
  \* one with a touch was torn; whether a callback started, or changed the
  \* form, when its own was not displayed
  touches, aim, hurried, failed, shorter, outside, torn, astray

pens    == <<pen, masked, event, touch_pc, pos>>
update  == <<item, counter, label_counter, tmp, pressed_button>>
forms   == <<current_form, lists>>
mode    == <<size, command>>
history == <<touches, aim, hurried, failed, shorter, outside, torn, astray>>
vars    == <<pens, queue, gui_pc, suspended, update, forms, clicked, callbacks,
             mode, history>>

-----------------------------------------------------------------------------
(* The forms.  The places are the four rows of buttons; the lowest is      *)
(* divided, since two forms have narrow buttons there.                     *)
Places  == {"row1", "row2", "row3", "left", "right"}
Nowhere == "nowhere"
Lowest  == {"left", "right"}

(* The places of the buttons of every form, in the order they are bound.   *)
Buttons ==
  [main      |-> <<{"row1"}, {"row2"}, {"row3"}, Lowest>>,
   origin    |-> <<{"row2"}, {"row3"}, Lowest>>,
   gnss      |-> <<Lowest>>,
   sensor    |-> <<Lowest>>,
   fusion    |-> <<{"right"}>>,
   calibrate |-> <<{"row2"}, {"row3"}, {"row1"}, Lowest>>,
   mag       |-> <<{"left"}, {"right"}>>,
   touch     |-> <<{"row3"}, Lowest>>]

Labels ==
  [main |-> 0, origin |-> 0, gnss |-> 7, sensor |-> 7, fusion |-> 7,
   calibrate |-> 0, mag |-> 8, touch |-> 4]

Forms    == DOMAIN Buttons
Kinds    == {"labels", "buttons"}
NoButton == <<"none", 0>>
AllButtons == UNION {{<<f, i>> : i \in DOMAIN Buttons[f]} : f \in Forms}

Amount(f, kind) == IF kind = "labels" THEN Labels[f] ELSE Len(Buttons[f])

(* The button of form f at place p.                                        *)
ButtonAt(f, p) ==
  LET hit == {i \in DOMAIN Buttons[f] : p \in Buttons[f][i]}
  IN  IF hit = {} THEN NoButton ELSE <<f, Max(hit)>>

(* What the functions of the forms do, step by step.  gui_*_form_init cuts *)
(* every element off from its successor, empties the lists and binds the   *)
(* elements one by one; gui_form_display draws and then changes the form.  *)
Times(n, step) == [i \in 1 .. n |-> step]

Show(f) == <<<<"show", f>>>>

Open(f) ==
  <<<<"cut", f, "labels">>, <<"cut", f, "buttons">>, <<"clear", f>>>>
    \o Times(Labels[f], <<"bind", f, "labels">>)
    \o Times(Len(Buttons[f]), <<"bind", f, "buttons">>)
    \o Show(f)

(* The callbacks of the buttons of every form.  That of the calibrate form *)
(* for a cold start sends its words to ctrl_mcu (ProcCtrlLink) and changes *)
(* nothing here.                                                           *)
Callback ==
  [main      |-> <<Open("origin"), Open("fusion"), Open("calibrate"), <<>>>>,
   origin    |-> <<Open("gnss"), Open("sensor") \o <<<<"send", 3>>, <<"size", 96>>>>,
                   Show("main")>>,
   gnss      |-> <<Show("origin")>>,
   sensor    |-> <<<<<<"send", 0>>, <<"size", 16>>>> \o Show("origin")>>,
   fusion    |-> <<Show("main")>>,
   calibrate |-> <<<<<<"send", 2>>, <<"size", 96>>>> \o Open("mag"), Open("touch"), <<>>,
                   Show("main")>>,
   mag       |-> <<<<<<"send", 1>>, <<"size", 96>>>>,
                   <<<<"send", 0>>, <<"size", 16>>>> \o Show("calibrate")>>,
   touch     |-> <<<<<<"suspend">>, <<"calibrate">>>> \o Show("touch") \o <<<<"resume">>>>,
                   Show("calibrate")>>]

Script(button) == Callback[button[1]][button[2]]

-----------------------------------------------------------------------------
(* A list: the number of elements its form believes it has, and how many   *)
(* can be reached from the first.                                          *)
Bound(f) == [kind \in Kinds |-> [number |-> Amount(f, kind), linked |-> Amount(f, kind)]]
Unbound  == [kind \in Kinds |-> [number |-> 0, linked |-> 0]]

(* gui_main_form_init has run and touchscan_task has created the event and *)
(* the queue.  x_pos and y_pos are not initialised.                        *)
Init ==
  /\ pen = Nowhere /\ masked = FALSE
  /\ event = FALSE
  /\ touch_pc = "wait" /\ pos \in Places \cup {Nowhere}
  /\ queue = <<>>
  /\ gui_pc = "delay" /\ suspended = FALSE
  /\ item = Nowhere /\ counter = 0 /\ label_counter = 0
  /\ tmp = NoButton /\ pressed_button = NoButton
  /\ current_form = "main"
  /\ lists = [f \in Forms |-> IF f = "main" THEN Bound(f) ELSE Unbound]
  /\ clicked = {}
  /\ callbacks = <<>>
  /\ size = 16 /\ command = 0
  /\ touches = 0 /\ aim = NoButton /\ hurried = FALSE /\ failed = FALSE
  /\ shorter = FALSE /\ outside = FALSE /\ torn = FALSE /\ astray = FALSE

(* Nothing of an earlier touch is under way, or left behind.               *)
Quiet ==
  /\ clicked = {}
  /\ ~event /\ touch_pc = "wait"
  /\ queue = <<>>
  /\ item = Nowhere /\ pressed_button = NoButton
  /\ callbacks = <<>>

-----------------------------------------------------------------------------
(* The pen touches: the line falls, and EXTI4_IRQHandler sets the event    *)
(* unless it is masked.  A bounce of the contact is a touch of its own.    *)
Touch(p) ==
  /\ touches < MaxTouches
  /\ pen = Nowhere
  /\ pen' = p
  /\ event' = (event \/ ~masked)
  /\ touches' = touches + 1
  /\ aim' = IF Quiet THEN ButtonAt(current_form, p) ELSE NoButton
  /\ hurried' = ~Quiet
  /\ UNCHANGED <<masked, touch_pc, pos, queue, gui_pc, suspended, update, forms,
                 clicked, callbacks, mode, failed, shorter, outside, torn, astray>>

Lift ==
  /\ pen # Nowhere
  /\ pen' = Nowhere
  /\ UNCHANGED <<masked, event, touch_pc, pos, queue, gui_pc, suspended, update,
                 forms, clicked, callbacks, mode, history>>

(* touchscan_task: xEventGroupWaitBits returns and clears the bit.         *)
Wake ==
  /\ touch_pc = "wait" /\ event
  /\ touch_pc' = "mask"
  /\ event' = FALSE
  /\ UNCHANGED <<pen, masked, pos, queue, gui_pc, suspended, update, forms, clicked,
                 callbacks, mode, history>>

Mask ==
  /\ touch_pc = "mask"
  /\ touch_pc' = "scan"
  /\ masked' = TRUE
  /\ UNCHANGED <<pen, event, pos, queue, gui_pc, suspended, update, forms, clicked,
                 callbacks, mode, history>>

(* xpt2046_scan: with the pen up, and now and then with the pen down, the  *)
(* samples are no good and x_pos and y_pos keep what they have, or give a  *)
(* place off the screen, which is stored before the scan fails for it.     *)
(* Its result is not looked at: they are sent, if there is room.           *)
Scan ==
  /\ touch_pc = "scan"
  /\ touch_pc' = "release"
  /\ \/ pen # Nowhere /\ pos' = pen /\ failed' = FALSE
     \/ pos' \in {pos, Nowhere} /\ failed' = TRUE
  /\ queue' = IF Len(queue) < QueueLength THEN Append(queue, pos') ELSE queue
  /\ UNCHANGED <<pen, masked, event, gui_pc, suspended, update, forms, clicked,
                 callbacks, mode, touches, aim, hurried, shorter, outside,
                 torn, astray>>

(* The pen is up and 200 ms have passed; what the line did meanwhile is    *)
(* forgotten and the interrupt allowed again.                              *)
Unmask ==
  /\ touch_pc = "release" /\ pen = Nowhere
  /\ touch_pc' = "wait"
  /\ masked' = FALSE
  /\ UNCHANGED <<pen, event, pos, queue, gui_pc, suspended, update, forms, clicked,
                 callbacks, mode, history>>

touchscan_task == Wake \/ Mask \/ Scan \/ Unmask

-----------------------------------------------------------------------------
(* What callback c does next.                                              *)
Statements(c) == Script(callbacks[c].button)
Op(c)         == Statements(c)[callbacks[c].done + 1]
AtStep(c, op) == callbacks[c].done < Len(Statements(c)) /\ Op(c)[1] = op

(* Mutant of Begin: the last place is taken again if there is none.        *)
BeginAgain ==
  /\ gui_pc = "delay" /\ ~suspended
  /\ \A c \in DOMAIN callbacks : callbacks[c].new \/ AtStep(c, "calibrate")
  /\ callbacks' = [c \in DOMAIN callbacks |-> [callbacks[c] EXCEPT !.new = FALSE]]
  /\ item' = IF queue = <<>> THEN pos ELSE Head(queue)
  /\ queue' = IF queue = <<>> THEN <<>> ELSE Tail(queue)
  /\ pressed_button' = NoButton
  /\ gui_pc' = "number"
  /\ shorter' = (lists[current_form] # Bound(current_form))
  /\ UNCHANGED <<pens, suspended, counter, label_counter, tmp, forms, clicked, mode,
                 touches, aim, hurried, failed, outside, torn, astray>>

(* guiupdate_task: 200 ms have passed; it takes a touch, or none.  By now  *)
(* a callback an earlier update had to wait for is done.                   *)
Begin ==
  /\ gui_pc = "delay" /\ ~suspended
  /\ \A c \in DOMAIN callbacks : callbacks[c].new \/ AtStep(c, "calibrate")
  /\ callbacks' = [c \in DOMAIN callbacks |-> [callbacks[c] EXCEPT !.new = FALSE]]
  /\ item' = IF queue = <<>> THEN Nowhere ELSE Head(queue)
  /\ queue' = IF queue = <<>> THEN <<>> ELSE Tail(queue)
  /\ pressed_button' = NoButton
  /\ gui_pc' = "number"
  /\ shorter' = (lists[current_form] # Bound(current_form))
  /\ UNCHANGED <<pens, suspended, counter, label_counter, tmp, forms, clicked, mode,
                 touches, aim, hurried, failed, outside, torn, astray>>

UnchangedByUpdate ==
  UNCHANGED <<pens, queue, suspended, item, forms, mode, touches, aim, hurried,
              failed, shorter, torn, astray>>

Displayed(kind) == lists[current_form][kind]

(* gui_form_update reads current_form anew for every number and every      *)
(* first element.                                                          *)
ReadButtonNum ==
  /\ gui_pc = "number" /\ ~suspended
  /\ counter' = Displayed("buttons").number
  /\ gui_pc' = "label number"
  /\ UNCHANGED <<label_counter, tmp, pressed_button, clicked, callbacks, outside>>
  /\ UnchangedByUpdate

ReadLabelNum ==
  /\ gui_pc = "label number" /\ ~suspended
  /\ label_counter' = Displayed("labels").number
  /\ gui_pc' = CASE counter # 0                       -> "mark first"
                 [] counter = 0 /\ label_counter' # 0 -> "label first"
                 [] OTHER                             -> "create"
  /\ UNCHANGED <<counter, tmp, pressed_button, clicked, callbacks, outside>>
  /\ UnchangedByUpdate

ReadAgain ==
  /\ gui_pc = "number again" /\ ~suspended
  /\ counter' = Displayed("buttons").number
  /\ gui_pc' = "draw first"
  /\ UNCHANGED <<label_counter, tmp, pressed_button, clicked, callbacks, outside>>
  /\ UnchangedByUpdate

(* Where a walk over the buttons or the labels goes when its counter is 0. *)
AfterMark == "number again"
AfterDraw == IF label_counter = 0 THEN "create" ELSE "label first"

ReadFirst ==
  /\ ~suspended
  /\ \/ gui_pc = "mark first" /\ gui_pc' = "mark"
     \/ gui_pc = "draw first" /\ gui_pc' = IF counter = 0 THEN AfterDraw ELSE "draw"
     \/ gui_pc = "label first" /\ gui_pc' = "label"
  /\ tmp' = <<current_form, 1>>
  /\ UNCHANGED <<counter, label_counter, pressed_button, clicked, callbacks, outside>>
  /\ UnchangedByUpdate

(* The walk has a pointer to an element: there is one as far as the list   *)
(* is linked, else the pointer is NULL.                                    *)
InList(kind) == tmp[2] <= lists[tmp[1]][kind].linked

(* It follows a NULL pointer: what happens from then on is not modelled.   *)
Leave ==
  /\ ~suspended
  /\ \/ gui_pc \in {"mark", "draw"} /\ ~InList("buttons")
     \/ gui_pc = "label" /\ ~InList("labels")
  /\ gui_pc' = "lost"
  /\ outside' = TRUE
  /\ UNCHANGED <<counter, label_counter, tmp, pressed_button, clicked, callbacks>>
  /\ UnchangedByUpdate

(* Mutant of Mark: one turn of the loop too many.                          *)
MarkOneMore ==
  /\ gui_pc = "mark" /\ ~suspended /\ InList("buttons")
  /\ clicked' = IF item \in Buttons[tmp[1]][tmp[2]] THEN clicked \cup {tmp} ELSE clicked
  /\ tmp' = <<tmp[1], tmp[2] + 1>>
  /\ counter' = Max({0, counter - 1})
  /\ gui_pc' = IF counter = 0 THEN AfterMark ELSE "mark"
  /\ UNCHANGED <<label_counter, pressed_button, callbacks, outside>>
  /\ UnchangedByUpdate

Mark ==
  /\ gui_pc = "mark" /\ ~suspended /\ InList("buttons")
  /\ clicked' = IF item \in Buttons[tmp[1]][tmp[2]] THEN clicked \cup {tmp} ELSE clicked
  /\ tmp' = <<tmp[1], tmp[2] + 1>>
  /\ counter' = counter - 1
  /\ gui_pc' = IF counter' = 0 THEN AfterMark ELSE "mark"
  /\ UNCHANGED <<label_counter, pressed_button, callbacks, outside>>
  /\ UnchangedByUpdate

(* Mutant of Draw: the status is left as it is.                            *)
DrawKeepsStatus ==
  /\ gui_pc = "draw" /\ ~suspended /\ InList("buttons")
  /\ pressed_button' = IF tmp \in clicked THEN tmp ELSE pressed_button
  /\ tmp' = <<tmp[1], tmp[2] + 1>>
  /\ counter' = counter - 1
  /\ gui_pc' = IF counter' = 0 THEN AfterDraw ELSE "draw"
  /\ UNCHANGED <<label_counter, clicked, callbacks, outside>>
  /\ UnchangedByUpdate

Draw ==
  /\ gui_pc = "draw" /\ ~suspended /\ InList("buttons")
  /\ pressed_button' = IF tmp \in clicked THEN tmp ELSE pressed_button
  /\ clicked' = clicked \ {tmp}
  /\ tmp' = <<tmp[1], tmp[2] + 1>>
  /\ counter' = counter - 1
  /\ gui_pc' = IF counter' = 0 THEN AfterDraw ELSE "draw"
  /\ UNCHANGED <<label_counter, callbacks, outside>>
  /\ UnchangedByUpdate

DrawLabel ==
  /\ gui_pc = "label" /\ ~suspended /\ InList("labels")
  /\ tmp' = <<tmp[1], tmp[2] + 1>>
  /\ label_counter' = label_counter - 1
  /\ gui_pc' = IF label_counter' = 0 THEN "create" ELSE "label"
  /\ UNCHANGED <<counter, pressed_button, clicked, callbacks, outside>>
  /\ UnchangedByUpdate

(* The task of the callback is created; the callback of the form sets the  *)
(* texts of its labels only.                                               *)
Create ==
  /\ gui_pc = "create" /\ ~suspended
  /\ callbacks' = IF pressed_button = NoButton THEN callbacks
                  ELSE Append(callbacks, [button |-> pressed_button, done |-> 0,
                                          new |-> TRUE])
  /\ gui_pc' = "delay"
  /\ item' = Nowhere /\ pressed_button' = NoButton
  /\ tmp' = NoButton /\ counter' = 0 /\ label_counter' = 0
  /\ shorter' = FALSE
  /\ UNCHANGED <<pens, queue, suspended, forms, clicked, mode, touches, aim, hurried,
                 failed, outside, torn, astray>>

guiupdate_task ==
  \/ Begin \/ ReadButtonNum \/ ReadLabelNum \/ ReadFirst \/ Mark \/ ReadAgain
  \/ Draw \/ DrawLabel \/ Leave \/ Create

-----------------------------------------------------------------------------
(* The callback tasks.  The next statement of task c is done; the task     *)
(* ends with its last.  A second one comes 200 ms after the first and      *)
(* finds it done, or waiting for the user.                                 *)
MayRun(c) == \A b \in 1 .. c - 1 : AtStep(b, "calibrate")

Advance(c) ==
  callbacks' = IF callbacks[c].done + 1 < Len(Statements(c))
               THEN [callbacks EXCEPT ![c].done = @ + 1] ELSE RemoveAt(callbacks, c)

Stray(c) ==
  astray' = (astray \/ /\ callbacks[c].done = 0 \/ AtStep(c, "show")
                       /\ callbacks[c].button[1] # current_form)

UnchangedByCallback == UNCHANGED <<pens, queue, update, gui_pc, touches, aim, hurried,
                                   failed, outside>>

Updating == gui_pc # "delay"

(* A list the update may be going through gets shorter under it.           *)
Disturb(shortens) ==
  /\ shorter' = (shorter \/ (Updating /\ shortens))
  /\ torn' = (torn \/ (Updating /\ item # Nowhere))

Nothing(c) ==
  /\ Statements(c) = <<>>
  /\ UNCHANGED <<forms, clicked, mode, suspended, shorter, torn>>

(* gui_button_init or gui_label_init of all elements of a form: none has a *)
(* successor any more, and no button is clicked.                           *)
Cut(c) ==
  LET f == Op(c)[2]  kind == Op(c)[3] IN
  /\ AtStep(c, "cut")
  /\ lists' = [lists EXCEPT ![f][kind].linked = IF @ = 0 THEN 0 ELSE 1]
  /\ clicked' = IF kind = "labels" THEN clicked ELSE {b \in clicked : b[1] # f}
  /\ Disturb(f = current_form)
  /\ UNCHANGED <<current_form, mode, suspended>>

(* Mutant of Clear: the numbers of elements are kept.                      *)
ClearKeepsNumbers(c) ==
  /\ AtStep(c, "clear")
  /\ lists' = [lists EXCEPT ![Op(c)[2]]["buttons"].linked = 0, ![Op(c)[2]]["labels"].linked = 0]
  /\ Disturb(Op(c)[2] = current_form)
  /\ UNCHANGED <<current_form, clicked, mode, suspended>>

(* gui_form_init                                                           *)
Clear(c) ==
  /\ AtStep(c, "clear")
  /\ lists' = [lists EXCEPT ![Op(c)[2]] = Unbound]
  /\ Disturb(Op(c)[2] = current_form)
  /\ UNCHANGED <<current_form, clicked, mode, suspended>>

(* gui_form_bind_label or gui_form_bind_button of one element              *)
Bind(c) ==
  LET f == Op(c)[2]  kind == Op(c)[3] IN
  /\ AtStep(c, "bind")
  /\ lists' = [lists EXCEPT ![f][kind] = [number |-> @.number + 1, linked |-> @.linked + 1]]
  /\ Disturb(FALSE)
  /\ UNCHANGED <<current_form, clicked, mode, suspended>>

(* gui_form_display: the form changes when it has been drawn.              *)
Display(c) ==
  LET f == Op(c)[2] IN
  /\ AtStep(c, "show")
  /\ current_form' = f
  /\ Disturb(\E kind \in Kinds : Amount(f, kind) < Amount(current_form, kind))
  /\ UNCHANGED <<lists, clicked, mode, suspended>>

(* uart2_sendbyte                                                          *)
Send(c) ==
  /\ AtStep(c, "send")
  /\ command' = Op(c)[2]
  /\ UNCHANGED <<forms, clicked, size, suspended, shorter, torn>>

(* Mutant of SetSize: the size is not set back.                            *)
SetSizeUp(c) ==
  /\ AtStep(c, "size")
  /\ size' = Max({size, Op(c)[2]})
  /\ UNCHANGED <<forms, clicked, command, suspended, shorter, torn>>

(* The assignment to uart2_dma_buffer_size                                 *)
SetSize(c) ==
  /\ AtStep(c, "size")
  /\ size' = Op(c)[2]
  /\ UNCHANGED <<forms, clicked, command, suspended, shorter, torn>>

(* calibrate_touch_btn_callback: the suspension of guiupdate_task is not   *)
(* counted; the calibration waits for the pen.                             *)
Suspend(c) ==
  /\ AtStep(c, "suspend")
  /\ suspended' = TRUE
  /\ UNCHANGED <<forms, clicked, mode, shorter, torn>>

Calibrate(c) ==
  /\ AtStep(c, "calibrate") /\ pen # Nowhere
  /\ UNCHANGED <<forms, clicked, mode, suspended, shorter, torn>>

(* Mutant of Resume: it is left suspended.                                 *)
ResumeNot(c) ==
  /\ AtStep(c, "resume")
  /\ UNCHANGED <<forms, clicked, mode, suspended, shorter, torn>>

Resume(c) ==
  /\ AtStep(c, "resume")
  /\ suspended' = FALSE
  /\ UNCHANGED <<forms, clicked, mode, shorter, torn>>

gui_callback_task(c) ==
  /\ MayRun(c)
  /\ \/ Nothing(c) \/ Cut(c) \/ Clear(c) \/ Bind(c) \/ Display(c) \/ Send(c)
     \/ SetSize(c) \/ Suspend(c) \/ Calibrate(c) \/ Resume(c)
  /\ Stray(c) /\ Advance(c)
  /\ UnchangedByCallback

Next ==
  /\ ~outside
  /\ \/ \E p \in Places : Touch(p)
     \/ Lift
     \/ touchscan_task
     \/ guiupdate_task
     \/ \E c \in DOMAIN callbacks : gui_callback_task(c)

Spec == Init /\ [][Next]_vars

-----------------------------------------------------------------------------
(* It has begun to calibrate the display.                                  *)
Calibrating(c) == callbacks[c].button = <<"touch", 1>> /\ callbacks[c].done > 0

(* The types; all callbacks but the last two have begun to calibrate.      *)
TypeOK ==
  /\ pen \in Places \cup {Nowhere} /\ masked \in BOOLEAN /\ event \in BOOLEAN
  /\ touch_pc \in {"wait", "mask", "scan", "release"}
  /\ pos \in Places \cup {Nowhere} /\ item \in Places \cup {Nowhere}
  /\ queue \in Seq(Places \cup {Nowhere}) /\ Len(queue) <= QueueLength
  /\ gui_pc \in {"delay", "number", "label number", "mark first", "mark", "number again",
                 "draw first", "draw", "label first", "label", "create", "lost"}
  /\ suspended \in BOOLEAN
  /\ counter \in 0 .. 4 /\ label_counter \in 0 .. 8
  /\ pressed_button \in AllButtons \cup {NoButton}
  /\ current_form \in Forms
  /\ \A f \in Forms, kind \in Kinds :
       lists[f][kind].number \in 0 .. Amount(f, kind) /\ lists[f][kind].linked \in 0 .. Amount(f, kind)
  /\ clicked \subseteq AllButtons
  /\ callbacks \in Seq([button : AllButtons, done : Nat, new : BOOLEAN])
  /\ \A c \in 1 .. Len(callbacks) - 2 : Calibrating(c)
  /\ size \in {16, 96} /\ command \in 0 .. 3

(* gui_form_update goes through its lists with numbers and pointers it     *)
(* read at different times.  It runs past the end of one only if, while it *)
(* ran, a callback changed to a form with fewer buttons or labels or was   *)
(* initialising the displayed one again; any other change is harmless.     *)
WalksInside == outside => shorter

(* A user who touches nothing before the last touch has been dealt with    *)
(* and left no button clicked gets the callback of the button touched,     *)
(* unless the scan failed: its result is not looked at.                    *)
AsTouched ==
  pressed_button # NoButton => pressed_button = aim \/ hurried \/ failed

(* Clicked buttons stay behind for a later update only if a callback once  *)
(* changed the form during an update for a touch.                          *)
NothingLeft == gui_pc = "delay" /\ clicked # {} => torn

(* The size of the blocks from read_mcu follows its mode, and is that of   *)
(* the form displayed unless a callback ran for a form that was not: that  *)
(* of a second touch, dealt with in the 220 ms before the first callback,  *)
(* or a calibration another one was begun beside.                          *)
SizeFits ==
  callbacks = <<>> =>
    /\ size = 96 <=> command # 0
    /\ astray \/ (size = 96 <=> current_form \in {"sensor", "mag"})

(* guiupdate_task is suspended only while a task that will resume it is    *)
(* under way.                                                              *)
SuspendedByOne ==
  suspended => \E c \in DOMAIN callbacks : Calibrating(c)

(* The types, and a suspended task that is not forgotten.                  *)
StateOK == TypeOK /\ SuspendedByOne
=============================================================================
