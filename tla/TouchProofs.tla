----------------------------- MODULE TouchProofs -----------------------------
(***************************************************************************)
(* Theorems about TouchGui, for every QueueLength and any number of        *)
(* touches: the invariants of the tasks that share the forms.              *)
(*                                                                         *)
(* GuiInv is inductive.  Its parts: which callbacks can be under way at    *)
(* once (OrderInv); that a list is being made by one callback, which knows *)
(* how far it is, and that every form that can be displayed is whole or    *)
(* being made (ListInv, ReadyInv); what an update has read fits the lists  *)
(* it walks as long as they do not get shorter (WalkInv); what it has      *)
(* clicked it will draw unless it is torn (ClickInv); where the last touch *)
(* is (AimInv); and the size of the blocks at each step of a callback      *)
(* (SizeInv).                                                              *)
(***************************************************************************)
EXTENDS TouchGui, SequenceTheorems, TLAPS

Record == [button : AllButtons, done : Nat, new : BOOLEAN]

(* The form a callback opens, and what it does before.                     *)
Target(b) ==
  CASE b = <<"main", 1>>      -> "origin"
    [] b = <<"main", 2>>      -> "fusion"
    [] b = <<"main", 3>>      -> "calibrate"
    [] b = <<"origin", 1>>    -> "gnss"
    [] b = <<"origin", 2>>    -> "sensor"
    [] b = <<"calibrate", 1>> -> "mag"
    [] b = <<"calibrate", 2>> -> "touch"
    [] OTHER                  -> "no form"

Before(b) == IF b = <<"calibrate", 1>> THEN 2 ELSE 0

(* The form from which form f is opened.                                   *)
Parent ==
  [main |-> "main", origin |-> "main", fusion |-> "main", calibrate |-> "main",
   gnss |-> "origin", sensor |-> "origin", mag |-> "calibrate", touch |-> "calibrate"]

Elements(f) == Labels[f] + Len(Buttons[f])

(* The callback tasks, as a set.  How far one is with the form it opens:   *)
(* it is making the form f from when the first list is cut off to when it  *)
(* is displayed.                                                           *)
Tasks == Range(callbacks)
At(r) == r.done - Before(r.button)

Making(r, f) == Target(r.button) = f /\ At(r) \in 1 .. Elements(f) + 3

(* Form f is whole, or is being made.                                      *)
Ready(f) == lists[f] = Bound(f) \/ \E r \in Tasks : Making(r, f)

(* Task r has begun: to calibrate the display, which changes no list, or   *)
(* something else.                                                         *)
Calibration(r) == r.button = <<"touch", 1>> /\ r.done > 0
Underway(r)    == r.button # <<"touch", 1>> /\ r.done > 0

(* What task r does next, and what is left of it.                          *)
Todo(r, k)  == Script(r.button)[r.done + k]
Left(r)     == Len(Script(r.button)) - r.done
NextIs(r, op) == Left(r) > 0 /\ Todo(r, 1)[1] = op

-----------------------------------------------------------------------------
PenTypes ==
  /\ pen \in Places \cup {Nowhere} /\ masked \in BOOLEAN /\ event \in BOOLEAN
  /\ touch_pc \in {"wait", "mask", "scan", "release"}
  /\ pos \in Places \cup {Nowhere}
  /\ queue \in Seq(Places \cup {Nowhere}) /\ Len(queue) <= QueueLength
  /\ masked => touch_pc \in {"scan", "release"}
  /\ size \in {16, 96} /\ command \in 0 .. 3 /\ suspended \in BOOLEAN
  /\ hurried \in BOOLEAN /\ failed \in BOOLEAN /\ shorter \in BOOLEAN
  /\ outside \in BOOLEAN /\ torn \in BOOLEAN /\ astray \in BOOLEAN

(* The counters and the pointer of the walks.                              *)
CounterTypes ==
  /\ counter \in 0 .. 4 /\ label_counter \in 0 .. 8
  /\ gui_pc \in {"mark first", "mark", "draw"} => counter > 0
  /\ gui_pc \in {"label first", "label"} => label_counter > 0

PointerTypes ==
  /\ tmp = NoButton \/ tmp \in Forms \X (Nat \ {0})
  /\ gui_pc \in {"mark", "draw", "label"} => tmp # NoButton
  /\ gui_pc \in {"delay", "number"} => tmp = NoButton

UpdateTypes ==
  /\ CounterTypes /\ PointerTypes
  /\ gui_pc \in {"delay", "number", "label number", "mark first", "mark", "number again",
                 "draw first", "draw", "label first", "label", "create", "lost"}
  /\ item \in Places \cup {Nowhere}
  /\ pressed_button \in AllButtons \cup {NoButton}
  /\ clicked \subseteq AllButtons
  /\ current_form \in Forms
  /\ gui_pc = "delay" => item = Nowhere /\ pressed_button = NoButton

ListTypes ==
  /\ lists \in [Forms -> [Kinds -> [number : Nat, linked : Nat]]]
  /\ \A f \in Forms, kind \in Kinds :
       lists[f][kind].number <= Amount(f, kind) /\ lists[f][kind].linked <= Amount(f, kind)

(* A task under way has something left to do.  Only the last may be new.   *)
(* Those before one that has started, or has seen an update begin, have    *)
(* begun to calibrate.                                                     *)
InOrder(s) ==
  /\ s \in Seq(Record)
  /\ \A c \in DOMAIN s : s[c].done > 0 => Left(s[c]) > 0
  /\ \A c \in DOMAIN s : s[c].new => c = Len(s)
  /\ \A c, d \in DOMAIN s : c < d /\ (s[d].done > 0 \/ ~s[d].new) => Calibration(s[c])

OrderInv == InOrder(callbacks) /\ (Updating => \A r \in Tasks : ~r.new)

(* The lists l of form f, from when they are empty, at step a of making it.*)
Made(l, f, a) ==
  LET labels  == IF a - 3 < Labels[f] THEN a - 3 ELSE Labels[f]
      buttons == a - 3 - labels
  IN  /\ l["labels"] = [number |-> labels, linked |-> labels]
      /\ l["buttons"] = [number |-> buttons, linked |-> buttons]

ListInv ==
  /\ ListTypes
  /\ \A f \in Forms, r \in Tasks :
       Making(r, f) /\ At(r) >= 3 => Made(lists[f], f, At(r))

(* What may come to be displayed, or be walked over, is ready.             *)
ReadyInv ==
  /\ Ready(current_form)
  /\ tmp # NoButton => Ready(tmp[1])
  /\ \A b \in clicked : Ready(b[1])
  /\ pressed_button # NoButton => Ready(pressed_button[1])
  /\ \A r \in Tasks : Ready(r.button[1])
  /\ \A f \in Forms : Ready(f) => Ready(Parent[f])

(* Nothing task r still does changes a list.                               *)
Harmless(r) == \A k \in 1 .. Left(r) : Todo(r, k)[1] \notin {"cut", "clear", "bind"}

(* What an update walks over is whole and stays so.                        *)
Whole ==
  /\ lists[current_form] = Bound(current_form)
  /\ tmp # NoButton => /\ lists[tmp[1]] = Bound(tmp[1])
                       /\ tmp[1] # current_form => \A r \in Tasks : Harmless(r)

(* The numbers it has read are not too large.                              *)
Fits ==
  /\ gui_pc \in {"label number", "mark first", "draw first"} =>
       counter <= Amount(current_form, "buttons")
  /\ gui_pc \in {"mark", "draw"} => tmp[2] + counter <= Amount(tmp[1], "buttons") + 1
  /\ gui_pc \notin {"number", "label number", "label"} =>
       label_counter <= Amount(current_form, "labels")
  /\ gui_pc = "label" => tmp[2] + label_counter <= Amount(tmp[1], "labels") + 1

WalkInv ==
  /\ outside => shorter
  /\ ~shorter /\ Updating => Whole /\ Fits

(* The buttons of the form displayed that an update counts, from the i-th  *)
(* to the j-th.                                                            *)
These(i, j) == {<<current_form, n>> : n \in i .. j}
Counted     == lists[current_form]["buttons"].number

ClickInv ==
  ~torn =>
    /\ item = Nowhere \/ gui_pc \notin {"mark", "number again", "draw first", "draw", "lost"}
         => clicked = {}
    /\ item # Nowhere =>
         /\ gui_pc \in {"label number", "mark first", "draw first"} => counter = Counted
         /\ gui_pc \in {"mark", "draw"} => tmp[1] = current_form /\ tmp[2] + counter = Counted + 1
         /\ gui_pc = "mark" => clicked \subseteq These(1, tmp[2] - 1)
         /\ gui_pc \in {"number again", "draw first"} => clicked \subseteq These(1, Counted)
         /\ gui_pc = "draw" => clicked \subseteq These(tmp[2], Counted)

(* The last touch, if nothing was under way: it is not scanned yet; or the *)
(* scan failed; or it is in the queue; or is being dealt with; or has been.*)
ToScan == event \/ touch_pc \in {"mask", "scan"}

Idle == item = Nowhere /\ pressed_button = NoButton /\ callbacks = <<>> /\ clicked = {}

AimInv ==
  ~hurried =>
    \/ /\ ToScan /\ (event => touch_pc = "wait") /\ queue = <<>> /\ Idle
       /\ pen # Nowhere => aim = ButtonAt(current_form, pen)
    \/ ~ToScan /\ failed
    \/ /\ ~ToScan /\ clicked \subseteq {aim} /\ pressed_button \in {NoButton, aim}
       /\ \/ queue = <<>> /\ item = Nowhere
          \/ /\ Len(queue) = 1 /\ Idle /\ aim = ButtonAt(current_form, Head(queue))
          \/ /\ queue = <<>> /\ callbacks = <<>> /\ aim = ButtonAt(current_form, item)
             /\ gui_pc \in {"mark", "draw"} => tmp[1] = current_form

(* The form displayed and the size of the blocks while task r is under way.*)
FormAt(r) ==
  IF r.button = <<"origin", 2>> /\ r.done >= 12 THEN "sensor" ELSE r.button[1]

WideAt(r) ==
  \/ r.button \in {<<"sensor", 1>>, <<"mag", 2>>} /\ r.done < 2
  \/ r.button = <<"calibrate", 1>> /\ r.done >= 2
  \/ r.button = <<"mag", 1>>

Wide(r) == Todo(r, 1)[2] = 96

SizeInv ==
  /\ \A r \in Tasks : NextIs(r, "size") => (Wide(r) <=> command # 0)
  /\ (\A r \in Tasks : ~NextIs(r, "size")) => (size = 96 <=> command # 0)
  /\ ~astray =>
       /\ \A r \in Tasks : Underway(r) => current_form = FormAt(r) /\ (size = 96 <=> WideAt(r))
       /\ (\A r \in Tasks : ~Underway(r)) => (size = 96 <=> current_form \in {"sensor", "mag"})

GuiInv ==
  /\ PenTypes /\ UpdateTypes /\ OrderInv /\ ListInv /\ ReadyInv
  /\ WalkInv /\ ClickInv /\ AimInv /\ SizeInv /\ SuspendedByOne

-----------------------------------------------------------------------------
(* The forms and the callbacks, in the words the proofs need.              *)

LEMMA FormsAre ==
  Forms = {"main", "origin", "gnss", "sensor", "fusion", "calibrate", "mag", "touch"}
BY DEF Forms, Buttons

LEMMA FormFacts ==
  ASSUME NEW f \in Forms
  PROVE  /\ Labels[f] \in 0 .. 8 /\ Len(Buttons[f]) \in 1 .. 4
         /\ DOMAIN Buttons[f] = 1 .. Len(Buttons[f])
         /\ Parent[f] \in Forms
<1>1. CASE f = "main"
  BY <1>1, FormsAre DEF Labels, Buttons, Parent
<1>2. CASE f = "origin"
  BY <1>2, FormsAre DEF Labels, Buttons, Parent
<1>3. CASE f = "gnss"
  BY <1>3, FormsAre DEF Labels, Buttons, Parent
<1>4. CASE f = "sensor"
  BY <1>4, FormsAre DEF Labels, Buttons, Parent
<1>5. CASE f = "fusion"
  BY <1>5, FormsAre DEF Labels, Buttons, Parent
<1>6. CASE f = "calibrate"
  BY <1>6, FormsAre DEF Labels, Buttons, Parent
<1>7. CASE f = "mag"
  BY <1>7, FormsAre DEF Labels, Buttons, Parent
<1>8. CASE f = "touch"
  BY <1>8, FormsAre DEF Labels, Buttons, Parent
<1>9. QED
  BY <1>1, <1>2, <1>3, <1>4, <1>5, <1>6, <1>7, <1>8, FormsAre

(* The numbers of labels and buttons, of the forms that callbacks open.    *)
LEMMA Numbers ==
  /\ Labels["origin"] = 0 /\ Len(Buttons["origin"]) = 3
  /\ Labels["gnss"] = 7 /\ Len(Buttons["gnss"]) = 1
  /\ Labels["sensor"] = 7 /\ Len(Buttons["sensor"]) = 1
  /\ Labels["fusion"] = 7 /\ Len(Buttons["fusion"]) = 1
  /\ Labels["calibrate"] = 0 /\ Len(Buttons["calibrate"]) = 4
  /\ Labels["mag"] = 8 /\ Len(Buttons["mag"]) = 2
  /\ Labels["touch"] = 4 /\ Len(Buttons["touch"]) = 2
  /\ Labels["main"] = 0 /\ Len(Buttons["main"]) = 4
BY DEF Labels, Buttons

LEMMA ParentIs ==
  /\ Parent["main"] = "main" /\ Parent["origin"] = "main" /\ Parent["fusion"] = "main"
  /\ Parent["calibrate"] = "main" /\ Parent["gnss"] = "origin" /\ Parent["sensor"] = "origin"
  /\ Parent["mag"] = "calibrate" /\ Parent["touch"] = "calibrate"
BY DEF Parent

LEMMA ButtonsAre ==
  ASSUME NEW b \in AllButtons
  PROVE  b \in
    {<<"main", 1>>, <<"main", 2>>, <<"main", 3>>, <<"main", 4>>,
     <<"origin", 1>>, <<"origin", 2>>, <<"origin", 3>>, <<"gnss", 1>>, <<"sensor", 1>>,
     <<"fusion", 1>>, <<"calibrate", 1>>, <<"calibrate", 2>>, <<"calibrate", 3>>,
     <<"calibrate", 4>>, <<"mag", 1>>, <<"mag", 2>>, <<"touch", 1>>, <<"touch", 2>>}
<1>1. AllButtons = {<<f, i>> : f \in Forms, i \in 1 .. 4} \cap
                   {q \in Forms \X (1 .. 4) : q[2] <= Len(Buttons[q[1]])}
  BY FormFacts DEF AllButtons
<1>2. \A f \in Forms, i \in 1 .. 4 :
        <<f, i>> \in AllButtons <=> i <= Len(Buttons[f])
  BY <1>1
<1>3. \A q \in AllButtons : q = <<q[1], q[2]>> /\ q[1] \in Forms /\ q[2] \in 1 .. 4
  BY <1>1
<1>4. PICK f \in Forms, i \in 1 .. 4 : b = <<f, i>>
  BY <1>3
<1>5. i <= Len(Buttons[f])
  BY <1>2, <1>4
<1>6. i = 1 \/ i = 2 \/ i = 3 \/ i = 4
  OBVIOUS
<1>7. CASE Len(Buttons[f]) = 4
  <2>1. f = "main" \/ f = "calibrate"
    BY <1>7, FormsAre, Numbers
  <2>2. QED
    BY <1>4, <1>6, <2>1
<1>8. CASE Len(Buttons[f]) = 3
  <2>1. f = "origin" /\ (i = 1 \/ i = 2 \/ i = 3)
    BY <1>5, <1>6, <1>8, FormsAre, Numbers
  <2>2. QED
    BY <1>4, <2>1
<1>9. CASE Len(Buttons[f]) = 2
  <2>1. (f = "mag" \/ f = "touch") /\ (i = 1 \/ i = 2)
    BY <1>5, <1>6, <1>9, FormsAre, Numbers
  <2>2. QED
    BY <1>4, <2>1
<1>10. CASE Len(Buttons[f]) = 1
  <2>1. (f = "gnss" \/ f = "sensor" \/ f = "fusion") /\ i = 1
    BY <1>5, <1>6, <1>10, FormsAre, Numbers
  <2>2. QED
    BY <1>4, <2>1
<1>11. QED
  BY <1>7, <1>8, <1>9, <1>10, FormFacts

-----------------------------------------------------------------------------
Statement ==
  ({"cut", "bind"} \X Forms \X Kinds) \cup ({"clear", "show"} \X Forms)
    \cup ({"send", "size"} \X (0 .. 96)) \cup {<<"suspend">>, <<"calibrate">>, <<"resume">>}

LEMMA TimesIs ==
  ASSUME NEW S, NEW n \in Nat, NEW x \in S
  PROVE  /\ Times(n, x) \in Seq(S) /\ Len(Times(n, x)) = n
         /\ \A k \in 1 .. n : Times(n, x)[k] = x
BY DEF Times

LEMMA Joined ==
  ASSUME NEW S, NEW s \in Seq(S), NEW t \in Seq(S)
  PROVE  /\ s \o t \in Seq(S) /\ Len(s \o t) = Len(s) + Len(t)
         /\ \A i \in 1 .. Len(s) : (s \o t)[i] = s[i]
         /\ \A i \in 1 .. Len(t) : (s \o t)[Len(s) + i] = t[i]
<1>1. s \o t \in Seq(S) /\ Len(s \o t) = Len(s) + Len(t)
  BY ConcatProperties
<1>2. \A i \in 1 .. Len(s) + Len(t) :
        (s \o t)[i] = IF i <= Len(s) THEN s[i] ELSE t[i - Len(s)]
  BY ConcatProperties
<1>3. ASSUME NEW i \in 1 .. Len(t) PROVE (s \o t)[Len(s) + i] = t[i]
  <2>1. /\ Len(s) + i \in 1 .. Len(s) + Len(t) /\ ~(Len(s) + i <= Len(s))
        /\ Len(s) + i - Len(s) = i
    OBVIOUS
  <2>2. QED
    BY <1>2, <2>1
<1>4. QED
  BY <1>1, <1>2, <1>3

(* gui_*_form_init, statement by statement.                                *)
LEMMA OpenIs ==
  ASSUME NEW f \in Forms
  PROVE  /\ Open(f) \in Seq(Statement)
         /\ Len(Open(f)) = Elements(f) + 4
         /\ Open(f)[1] = <<"cut", f, "labels">> /\ Open(f)[2] = <<"cut", f, "buttons">>
         /\ Open(f)[3] = <<"clear", f>>
         /\ \A k \in 1 .. Labels[f] : Open(f)[3 + k] = <<"bind", f, "labels">>
         /\ \A k \in 1 .. Len(Buttons[f]) : Open(f)[Labels[f] + 3 + k] = <<"bind", f, "buttons">>
         /\ Open(f)[Elements(f) + 4] = <<"show", f>>
<1> DEFINE l == Labels[f]
           b == Len(Buttons[f])
           L == Times(l, <<"bind", f, "labels">>)
           B == Times(b, <<"bind", f, "buttons">>)
           C == <<<<"cut", f, "labels">>, <<"cut", f, "buttons">>, <<"clear", f>>>>
           S == <<<<"show", f>>>>
<1>1. l \in Nat /\ b \in Nat
  BY FormFacts
<1>2. /\ <<"cut", f, "labels">> \in Statement /\ <<"cut", f, "buttons">> \in Statement
      /\ <<"bind", f, "labels">> \in Statement /\ <<"bind", f, "buttons">> \in Statement
      /\ <<"clear", f>> \in Statement /\ <<"show", f>> \in Statement
  BY DEF Statement, Kinds
<1>3. L \in Seq(Statement) /\ Len(L) = l /\ \A k \in 1 .. l : L[k] = <<"bind", f, "labels">>
  BY <1>1, <1>2, TimesIs
<1>4. B \in Seq(Statement) /\ Len(B) = b /\ \A k \in 1 .. b : B[k] = <<"bind", f, "buttons">>
  BY <1>1, <1>2, TimesIs
<1>5. /\ C \in Seq(Statement) /\ Len(C) = 3
      /\ C[1] = <<"cut", f, "labels">> /\ C[2] = <<"cut", f, "buttons">>
      /\ C[3] = <<"clear", f>>
  BY <1>2
<1>6. S \in Seq(Statement) /\ Len(S) = 1 /\ S[1] = <<"show", f>>
  BY <1>2
<1> DEFINE CL == C \o L
           CLB == CL \o B
           CLBS == CLB \o S
<1>7. Open(f) = CLBS
  BY DEF Open, Show
<1>14. Elements(f) + 4 = l + b + 3 + 1
  BY <1>1 DEF Elements
<1> HIDE DEF L, B, C, S, l, b
<1>8. /\ CL \in Seq(Statement) /\ Len(CL) = 3 + l
      /\ \A k \in 1 .. 3 : CL[k] = C[k]
      /\ \A k \in 1 .. l : CL[3 + k] = L[k]
  <2>1. C \in Seq(Statement) /\ L \in Seq(Statement)
    BY <1>3, <1>5
  <2>2. 3 \in Nat /\ l \in Nat /\ Len(C) = 3 /\ Len(L) = l
    BY <1>1, <1>3, <1>5
  <2>3. /\ C \o L \in Seq(Statement) /\ Len(C \o L) = Len(C) + Len(L)
        /\ \A i \in 1 .. Len(C) : (C \o L)[i] = C[i]
        /\ \A i \in 1 .. Len(L) : (C \o L)[Len(C) + i] = L[i]
    BY <2>1, Joined
  <2>4. QED
    BY <2>2, <2>3
<1> HIDE DEF CL
<1>9. /\ CLB \in Seq(Statement) /\ Len(CLB) = (3 + l) + b
      /\ \A k \in 1 .. 3 + l : CLB[k] = CL[k]
      /\ \A k \in 1 .. b : CLB[(3 + l) + k] = B[k]
  <2>1. CL \in Seq(Statement) /\ B \in Seq(Statement)
    BY <1>4, <1>8
  <2>2. 3 + l \in Nat /\ b \in Nat /\ Len(CL) = 3 + l /\ Len(B) = b
    BY <1>1, <1>4, <1>8
  <2>3. /\ CL \o B \in Seq(Statement) /\ Len(CL \o B) = Len(CL) + Len(B)
        /\ \A i \in 1 .. Len(CL) : (CL \o B)[i] = CL[i]
        /\ \A i \in 1 .. Len(B) : (CL \o B)[Len(CL) + i] = B[i]
    BY <2>1, Joined
  <2>4. QED
    BY <2>2, <2>3
<1> HIDE DEF CLB
<1>10. /\ CLBS \in Seq(Statement) /\ Len(CLBS) = ((3 + l) + b) + 1
       /\ \A k \in 1 .. (3 + l) + b : CLBS[k] = CLB[k]
       /\ \A k \in 1 .. 1 : CLBS[((3 + l) + b) + k] = S[k]
  <2>1. CLB \in Seq(Statement) /\ S \in Seq(Statement)
    BY <1>6, <1>9
  <2>2. (3 + l) + b \in Nat /\ 1 \in Nat /\ Len(CLB) = (3 + l) + b /\ Len(S) = 1
    BY <1>1, <1>6, <1>9
  <2>3. /\ CLB \o S \in Seq(Statement) /\ Len(CLB \o S) = Len(CLB) + Len(S)
        /\ \A i \in 1 .. Len(CLB) : (CLB \o S)[i] = CLB[i]
        /\ \A i \in 1 .. Len(S) : (CLB \o S)[Len(CLB) + i] = S[i]
    BY <2>1, Joined
  <2>4. QED
    BY <2>2, <2>3
<1> HIDE DEF CLBS
<1>11. CLBS[1] = C[1] /\ CLBS[2] = C[2] /\ CLBS[3] = C[3]
  BY <1>1, <1>8, <1>9, <1>10
<1>12. ASSUME NEW k \in 1 .. l PROVE CLBS[3 + k] = <<"bind", f, "labels">>
  <2>1. 3 + k \in 1 .. (3 + l) + b /\ 3 + k \in 1 .. 3 + l
    BY <1>1
  <2>2. QED
    BY <1>3, <1>8, <1>9, <1>10, <2>1
<1>13. ASSUME NEW k \in 1 .. b PROVE CLBS[l + 3 + k] = <<"bind", f, "buttons">>
  <2>1. l + 3 + k \in 1 .. (3 + l) + b /\ l + 3 + k = (3 + l) + k
    BY <1>1
  <2>2. QED
    BY <1>4, <1>9, <1>10, <2>1
<1>15. CLBS[Elements(f) + 4] = <<"show", f>>
  <2>1. Elements(f) + 4 = ((3 + l) + b) + 1 /\ 1 \in 1 .. 1
    BY <1>1, <1>14
  <2>2. QED
    BY <1>6, <1>10, <2>1
<1>16. Len(CLBS) = Elements(f) + 4
  BY <1>1, <1>10, <1>14
<1>17. CLBS[1] = <<"cut", f, "labels">> /\ CLBS[2] = <<"cut", f, "buttons">> /\ CLBS[3] = <<"clear", f>>
  BY <1>5, <1>11
<1>18. CLBS \in Seq(Statement)
  BY <1>10
<1>19. QED
  BY <1>7, <1>12, <1>13, <1>15, <1>16, <1>17, <1>18 DEF l, b

(* What each callback does.                                                *)
LEMMA ScriptIs ==
  /\ Script(<<"main", 1>>) = Open("origin")
  /\ Script(<<"main", 2>>) = Open("fusion")
  /\ Script(<<"main", 3>>) = Open("calibrate")
  /\ Script(<<"main", 4>>) = <<>>
  /\ Script(<<"origin", 1>>) = Open("gnss")
  /\ Script(<<"origin", 2>>) = Open("sensor") \o <<<<"send", 3>>, <<"size", 96>>>>
  /\ Script(<<"origin", 3>>) = <<<<"show", "main">>>>
  /\ Script(<<"gnss", 1>>) = <<<<"show", "origin">>>>
  /\ Script(<<"sensor", 1>>) = <<<<"send", 0>>, <<"size", 16>>>> \o <<<<"show", "origin">>>>
  /\ Script(<<"fusion", 1>>) = <<<<"show", "main">>>>
  /\ Script(<<"calibrate", 1>>) = <<<<"send", 2>>, <<"size", 96>>>> \o Open("mag")
  /\ Script(<<"calibrate", 2>>) = Open("touch")
  /\ Script(<<"calibrate", 3>>) = <<>>
  /\ Script(<<"calibrate", 4>>) = <<<<"show", "main">>>>
  /\ Script(<<"mag", 1>>) = <<<<"send", 1>>, <<"size", 96>>>>
  /\ Script(<<"mag", 2>>) = <<<<"send", 0>>, <<"size", 16>>>> \o <<<<"show", "calibrate">>>>
  /\ Script(<<"touch", 1>>) = <<<<"suspend">>, <<"calibrate">>>> \o <<<<"show", "touch">>>> \o <<<<"resume">>>>
  /\ Script(<<"touch", 2>>) = <<<<"show", "calibrate">>>>
BY DEF Callback, Show, Script

LEMMA ThreeOf ==
  ASSUME NEW S, NEW x \in S, NEW y \in S, NEW z \in S
  PROVE  LET s == <<x, y>> \o <<z>>
         IN  s \in Seq(S) /\ Len(s) = 3 /\ s[1] = x /\ s[2] = y /\ s[3] = z
<1> DEFINE a == <<x, y>>
           b == <<z>>
<1>1. a \in Seq(S) /\ b \in Seq(S)
  OBVIOUS
<1>2. Len(a) = 2 /\ a[1] = x /\ a[2] = y /\ Len(b) = 1 /\ b[1] = z
  OBVIOUS
<1> HIDE DEF a, b
<1>3. /\ a \o b \in Seq(S) /\ Len(a \o b) = Len(a) + Len(b)
      /\ \A i \in 1 .. Len(a) : (a \o b)[i] = a[i]
      /\ \A i \in 1 .. Len(b) : (a \o b)[Len(a) + i] = b[i]
  BY <1>1, Joined
<1>4. (a \o b)[1] = a[1] /\ (a \o b)[2] = a[2] /\ (a \o b)[3] = b[1] /\ Len(a \o b) = 3
  BY <1>2, <1>3
<1>5. QED
  BY <1>2, <1>3, <1>4 DEF a, b

LEMMA FourOf ==
  ASSUME NEW S, NEW x \in S, NEW y \in S, NEW z \in S, NEW w \in S
  PROVE  LET s == <<x, y>> \o <<z>> \o <<w>>
         IN  /\ s \in Seq(S) /\ Len(s) = 4
             /\ s[1] = x /\ s[2] = y /\ s[3] = z /\ s[4] = w
<1> DEFINE a == <<x, y>> \o <<z>>
           b == <<w>>
<1>1. a \in Seq(S) /\ b \in Seq(S)
  BY ThreeOf
<1>2. Len(a) = 3 /\ a[1] = x /\ a[2] = y /\ a[3] = z
  BY ThreeOf
<1>3. Len(b) = 1 /\ b[1] = w
  OBVIOUS
<1> HIDE DEF a, b
<1>4. /\ a \o b \in Seq(S) /\ Len(a \o b) = Len(a) + Len(b)
      /\ \A i \in 1 .. Len(a) : (a \o b)[i] = a[i]
      /\ \A i \in 1 .. Len(b) : (a \o b)[Len(a) + i] = b[i]
  BY <1>1, Joined
<1>5. /\ (a \o b)[1] = a[1] /\ (a \o b)[2] = a[2] /\ (a \o b)[3] = a[3]
      /\ (a \o b)[4] = b[1] /\ Len(a \o b) = 4
  BY <1>2, <1>3, <1>4
<1>6. QED
  BY <1>2, <1>3, <1>4, <1>5 DEF a, b

Opens(b) == Target(b) \in Forms

(* Where a callback opens a form.                                          *)
Opening(b, k) == Opens(b) /\ k \in Before(b) + 1 .. Before(b) + Elements(Target(b)) + 4

(* The callbacks that set the size; the form another one goes back to.     *)
Sizing(b) ==
  \/ b = <<"origin", 2>> \/ b = <<"sensor", 1>> \/ b = <<"calibrate", 1>>
  \/ b = <<"mag", 1>> \/ b = <<"mag", 2>>

Back(b) == IF b = <<"touch", 1>> THEN "touch" ELSE Parent[b[1]]

(* A step that is not one of opening a form.                               *)
Plain(b, op) ==
  /\ op[1] \in {"show", "send", "size", "suspend", "calibrate", "resume"}
  /\ op[1] = "show" => ~Opens(b) /\ op = <<"show", Back(b)>>
  /\ op[1] \in {"send", "size"} => Sizing(b)
  /\ op[1] \in {"suspend", "calibrate", "resume"} => b = <<"touch", 1>>

(* What a callback consists of: the steps of the form it opens, if it does,*)
(* and others that change no list.                                         *)
Shape(b) ==
  /\ Script(b) \in Seq(Statement)
  /\ Opens(b) =>
       /\ Parent[Target(b)] = b[1] /\ Target(b) # "main"
       /\ Before(b) + Elements(Target(b)) + 4 <= Len(Script(b))
       /\ \A k \in 1 .. Elements(Target(b)) + 4 : Script(b)[Before(b) + k] = Open(Target(b))[k]
  /\ \A k \in 1 .. Len(Script(b)) : ~Opening(b, k) => Plain(b, Script(b)[k])

LEMMA TargetIs ==
  /\ Target(<<"main", 1>>) = "origin" /\ Target(<<"main", 2>>) = "fusion"
  /\ Target(<<"main", 3>>) = "calibrate" /\ Target(<<"origin", 1>>) = "gnss"
  /\ Target(<<"origin", 2>>) = "sensor" /\ Target(<<"calibrate", 1>>) = "mag"
  /\ Target(<<"calibrate", 2>>) = "touch"
  /\ Target(<<"main", 4>>) = "no form" /\ Target(<<"origin", 3>>) = "no form"
  /\ Target(<<"gnss", 1>>) = "no form" /\ Target(<<"sensor", 1>>) = "no form"
  /\ Target(<<"fusion", 1>>) = "no form" /\ Target(<<"calibrate", 3>>) = "no form"
  /\ Target(<<"calibrate", 4>>) = "no form" /\ Target(<<"mag", 1>>) = "no form"
  /\ Target(<<"mag", 2>>) = "no form" /\ Target(<<"touch", 1>>) = "no form"
  /\ Target(<<"touch", 2>>) = "no form"
BY DEF Target

LEMMA StatementsAre ==
  /\ <<"send", 0>> \in Statement /\ <<"send", 1>> \in Statement /\ <<"send", 2>> \in Statement
  /\ <<"send", 3>> \in Statement /\ <<"size", 16>> \in Statement /\ <<"size", 96>> \in Statement
  /\ <<"suspend">> \in Statement /\ <<"calibrate">> \in Statement /\ <<"resume">> \in Statement
  /\ \A f \in Forms : <<"show", f>> \in Statement
BY DEF Statement


LEMMA ElementsNat ==
  ASSUME NEW f \in Forms
  PROVE  Elements(f) \in Nat /\ Elements(f) = Labels[f] + Len(Buttons[f]) /\ Elements(f) <= 12
         /\ Labels[f] \in Nat /\ Len(Buttons[f]) \in Nat /\ Len(Buttons[f]) >= 1
<1>1. PICK l \in 0 .. 8, b \in 1 .. 4 : l = Labels[f] /\ b = Len(Buttons[f])
  BY FormFacts
<1>2. l \in Nat /\ b \in Nat /\ b >= 1 /\ l + b \in Nat /\ l + b <= 12
  OBVIOUS
<1>3. Elements(f) = l + b
  BY <1>1 DEF Elements
<1>4. QED
  BY <1>1, <1>2, <1>3

(* A callback that only opens a form.                                      *)
LEMMA OpenShape ==
  ASSUME NEW b \in AllButtons, NEW f \in Forms, Target(b) = f, Before(b) = 0,
         Script(b) = Open(f), Parent[f] = b[1], f # "main"
  PROVE  Shape(b)
<1>1. Opens(b)
  BY DEF Opens
<1>2. Script(b) \in Seq(Statement) /\ Len(Script(b)) = Elements(f) + 4
  BY OpenIs
<1>3. Elements(f) \in Nat
  BY ElementsNat
<1>4. \A k \in 1 .. Len(Script(b)) : Opening(b, k)
  BY <1>1, <1>2, <1>3 DEF Opening
<1>5. \A k \in 1 .. Elements(f) + 4 : Before(b) + k = k
  BY <1>3
<1>6. QED
  BY <1>1, <1>2, <1>3, <1>4, <1>5 DEF Shape

(* One that sets the size after it has opened a form.                      *)
LEMMA OpenSizeShape ==
  ASSUME NEW b \in AllButtons, NEW f \in Forms, Target(b) = f, Before(b) = 0,
         NEW x \in Statement, NEW y \in Statement, x[1] = "send", y[1] = "size", Sizing(b),
         Script(b) = Open(f) \o <<x, y>>, Parent[f] = b[1], f # "main"
  PROVE  /\ Shape(b) /\ Len(Script(b)) = Elements(f) + 6
         /\ Script(b)[Elements(f) + 5] = x /\ Script(b)[Elements(f) + 6] = y
<1> DEFINE s == Open(f)
           t == <<x, y>>
           n == Elements(f) + 4
<1>1. Opens(b)
  BY DEF Opens
<1>2. s \in Seq(Statement) /\ Len(s) = n
  BY OpenIs
<1>3. t \in Seq(Statement) /\ Len(t) = 2 /\ t[1] = x /\ t[2] = y
  OBVIOUS
<1>4. Elements(f) \in Nat /\ n \in Nat /\ n = Elements(f) + 4
  BY ElementsNat
<1> HIDE DEF s, t, n
<1>5. /\ s \o t \in Seq(Statement) /\ Len(s \o t) = Len(s) + Len(t)
      /\ \A i \in 1 .. Len(s) : (s \o t)[i] = s[i]
      /\ \A i \in 1 .. Len(t) : (s \o t)[Len(s) + i] = t[i]
  <2>1. s \in Seq(Statement) /\ t \in Seq(Statement)
    BY <1>2, <1>3
  <2>2. QED
    BY <2>1, Joined
<1>6. Script(b) = s \o t
  BY DEF s, t
<1>7. /\ Script(b) \in Seq(Statement) /\ Len(Script(b)) = n + 2
      /\ \A i \in 1 .. n : Script(b)[i] = s[i]
      /\ Script(b)[n + 1] = x /\ Script(b)[n + 2] = y
  <2>1. Len(s \o t) = n + 2 /\ \A i \in 1 .. n : (s \o t)[i] = s[i]
    BY <1>2, <1>3, <1>5
  <2>2. (s \o t)[n + 1] = t[1] /\ (s \o t)[n + 2] = t[2]
    BY <1>2, <1>3, <1>4, <1>5
  <2>3. QED
    BY <1>3, <1>5, <1>6, <2>1, <2>2
<1>8. \A k \in 1 .. n + 2 : Opening(b, k) \/ k = n + 1 \/ k = n + 2
  BY <1>1, <1>4 DEF Opening
<1>9. \A k \in 1 .. n : Before(b) + k = k
  BY <1>4
<1>10. Before(b) + Elements(f) + 4 <= Len(Script(b))
  BY <1>4, <1>7
<1>11. \A k \in 1 .. Elements(f) + 4 : Script(b)[Before(b) + k] = Open(f)[k]
  BY <1>4, <1>7, <1>9 DEF s
<1>12. ASSUME NEW k \in 1 .. Len(Script(b)), ~Opening(b, k)
       PROVE  Plain(b, Script(b)[k])
  BY <1>7, <1>8, <1>12 DEF Plain
<1>13. Shape(b)
  BY <1>1, <1>7, <1>10, <1>11, <1>12 DEF Shape
<1>14. Elements(f) + 5 = n + 1 /\ Elements(f) + 6 = n + 2
  BY <1>4
<1>15. /\ Len(Script(b)) = Elements(f) + 6
       /\ Script(b)[Elements(f) + 5] = x /\ Script(b)[Elements(f) + 6] = y
  BY <1>7, <1>14
<1>16. QED
  BY <1>13, <1>15

(* One that sets the size before it opens a form.                          *)
LEMMA SizeOpenShape ==
  ASSUME NEW b \in AllButtons, NEW f \in Forms, Target(b) = f, Before(b) = 2,
         NEW x \in Statement, NEW y \in Statement, x[1] = "send", y[1] = "size", Sizing(b),
         Script(b) = <<x, y>> \o Open(f), Parent[f] = b[1], f # "main"
  PROVE  /\ Shape(b) /\ Len(Script(b)) = Elements(f) + 6
         /\ Script(b)[1] = x /\ Script(b)[2] = y
<1> DEFINE t == Open(f)
           s == <<x, y>>
           n == Elements(f) + 4
<1>1. Opens(b)
  BY DEF Opens
<1>2. t \in Seq(Statement) /\ Len(t) = n
  BY OpenIs
<1>3. s \in Seq(Statement) /\ Len(s) = 2 /\ s[1] = x /\ s[2] = y
  OBVIOUS
<1>4. Elements(f) \in Nat /\ n \in Nat /\ n = Elements(f) + 4
  BY ElementsNat
<1> HIDE DEF s, t, n
<1>5. /\ s \o t \in Seq(Statement) /\ Len(s \o t) = Len(s) + Len(t)
      /\ \A i \in 1 .. Len(s) : (s \o t)[i] = s[i]
      /\ \A i \in 1 .. Len(t) : (s \o t)[Len(s) + i] = t[i]
  <2>1. s \in Seq(Statement) /\ t \in Seq(Statement)
    BY <1>2, <1>3
  <2>2. QED
    BY <2>1, Joined
<1>6. Script(b) = s \o t
  BY DEF s, t
<1>7. /\ Script(b) \in Seq(Statement) /\ Len(Script(b)) = n + 2
      /\ \A i \in 1 .. n : Script(b)[2 + i] = t[i]
      /\ Script(b)[1] = x /\ Script(b)[2] = y
  <2>1. Len(s \o t) = n + 2 /\ \A i \in 1 .. n : (s \o t)[2 + i] = t[i]
    BY <1>2, <1>3, <1>4, <1>5
  <2>2. (s \o t)[1] = s[1] /\ (s \o t)[2] = s[2]
    BY <1>2, <1>3, <1>5
  <2>3. QED
    BY <1>3, <1>5, <1>6, <2>1, <2>2
<1>8. \A k \in 1 .. n + 2 : Opening(b, k) \/ k = 1 \/ k = 2
  BY <1>1, <1>4 DEF Opening
<1>10. Before(b) + Elements(f) + 4 <= Len(Script(b))
  BY <1>4, <1>7
<1>11. \A k \in 1 .. Elements(f) + 4 : Script(b)[Before(b) + k] = Open(f)[k]
  BY <1>4, <1>7 DEF t
<1>12. ASSUME NEW k \in 1 .. Len(Script(b)), ~Opening(b, k)
       PROVE  Plain(b, Script(b)[k])
  BY <1>7, <1>8, <1>12 DEF Plain
<1>13. Shape(b)
  BY <1>1, <1>7, <1>10, <1>11, <1>12 DEF Shape
<1>14. QED
  BY <1>4, <1>7, <1>13

(* One that goes back to the form its own was opened from, or its own.     *)
LEMMA ReturnShape ==
  ASSUME NEW b \in AllButtons, NEW f \in Forms, ~Opens(b),
         f = Back(b),
         Script(b) = <<<<"show", f>>>>
  PROVE  Shape(b)
<1>1. Script(b) \in Seq(Statement) /\ Len(Script(b)) = 1 /\ Script(b)[1] = <<"show", f>>
  BY StatementsAre
<1>2. QED
  BY <1>1 DEF Shape, Plain

LEMMA SizeReturnShape ==
  ASSUME NEW b \in AllButtons, NEW f \in Forms, ~Opens(b),
         f = Back(b),
         NEW x \in Statement, NEW y \in Statement, x[1] = "send", y[1] = "size", Sizing(b),
         Script(b) = <<x, y>> \o <<<<"show", f>>>>
  PROVE  /\ Shape(b) /\ Len(Script(b)) = 3
         /\ Script(b)[1] = x /\ Script(b)[2] = y /\ Script(b)[3] = <<"show", f>>
<1>1. /\ Script(b) \in Seq(Statement) /\ Len(Script(b)) = 3
      /\ Script(b)[1] = x /\ Script(b)[2] = y
      /\ Script(b)[3] = <<"show", f>>
  BY StatementsAre, ThreeOf
<1>2. \A k \in 1 .. 3 : k = 1 \/ k = 2 \/ k = 3
  OBVIOUS
<1>3. QED
  BY <1>1, <1>2 DEF Shape, Plain

(* The callbacks that begin or end with the size, and the calibration.     *)
LEMMA SensorScript ==
  ASSUME NEW b \in AllButtons, b = <<"origin", 2>>
  PROVE  /\ Shape(b) /\ Len(Script(b)) = 14
         /\ Script(b)[13] = <<"send", 3>> /\ Script(b)[14] = <<"size", 96>>
<1>1. PICK f \in Forms : f = "sensor"
  BY FormsAre
<1>2. Elements(f) = 8
  BY <1>1, Numbers DEF Elements
<1>3. PICK x \in Statement, y \in Statement : x = <<"send", 3>> /\ y = <<"size", 96>>
  BY StatementsAre
<1>4. Script(b) = Open(f) \o <<x, y>>
  BY <1>1, <1>3, ScriptIs
<1>5. Target(b) = f /\ Before(b) = 0 /\ Parent[f] = b[1] /\ f # "main"
  BY <1>1, TargetIs, ParentIs DEF Before
<1>6. x[1] = "send" /\ y[1] = "size" /\ Sizing(b)
  BY <1>3 DEF Sizing
<1>7. /\ Shape(b) /\ Len(Script(b)) = Elements(f) + 6
      /\ Script(b)[Elements(f) + 5] = x /\ Script(b)[Elements(f) + 6] = y
  BY <1>4, <1>5, <1>6, OpenSizeShape, SMTT(60)
<1>8. QED
  BY <1>2, <1>3, <1>7

LEMMA MagScript ==
  ASSUME NEW b \in AllButtons, b = <<"calibrate", 1>>
  PROVE  /\ Shape(b) /\ Len(Script(b)) = 16
         /\ Script(b)[1] = <<"send", 2>> /\ Script(b)[2] = <<"size", 96>>
<1>1. PICK f \in Forms : f = "mag"
  BY FormsAre
<1>2. Elements(f) = 10
  BY <1>1, Numbers DEF Elements
<1>3. PICK x \in Statement, y \in Statement : x = <<"send", 2>> /\ y = <<"size", 96>>
  BY StatementsAre
<1>4. Script(b) = <<x, y>> \o Open(f)
  BY <1>1, <1>3, ScriptIs
<1>5. Target(b) = f /\ Before(b) = 2 /\ Parent[f] = b[1] /\ f # "main"
  BY <1>1, TargetIs, ParentIs DEF Before
<1>6. x[1] = "send" /\ y[1] = "size" /\ Sizing(b)
  BY <1>3 DEF Sizing
<1>7. /\ Shape(b) /\ Len(Script(b)) = Elements(f) + 6
      /\ Script(b)[1] = x /\ Script(b)[2] = y
  BY <1>4, <1>5, <1>6, SizeOpenShape
<1>8. QED
  BY <1>2, <1>3, <1>7

LEMMA BackScript ==
  ASSUME NEW b \in AllButtons, b = <<"sensor", 1>> \/ b = <<"mag", 2>>
  PROVE  /\ Shape(b) /\ Len(Script(b)) = 3
         /\ Script(b)[1] = <<"send", 0>> /\ Script(b)[2] = <<"size", 16>>
         /\ Script(b)[3] = <<"show", Parent[b[1]]>>
<1>1. PICK f \in Forms : f = Parent[b[1]]
  BY FormsAre, ParentIs
<1>3. PICK x \in Statement, y \in Statement : x = <<"send", 0>> /\ y = <<"size", 16>>
  BY StatementsAre
<1>4. Script(b) = <<x, y>> \o <<<<"show", f>>>>
  <2>1. CASE b = <<"sensor", 1>>
    BY <1>1, <1>3, <2>1, ScriptIs, ParentIs
  <2>2. CASE b = <<"mag", 2>>
    BY <1>1, <1>3, <2>2, ScriptIs, ParentIs
  <2>3. QED
    BY <2>1, <2>2
<1>5. ~Opens(b) /\ b # <<"touch", 1>>
  <2>1. CASE b = <<"sensor", 1>>
    BY <2>1, TargetIs, FormsAre DEF Opens
  <2>2. CASE b = <<"mag", 2>>
    BY <2>2, TargetIs, FormsAre DEF Opens
  <2>3. QED
    BY <2>1, <2>2
<1>6. x[1] = "send" /\ y[1] = "size" /\ Sizing(b)
  BY <1>3 DEF Sizing
<1>9. f = Back(b)
  BY <1>1, <1>5 DEF Back
<1>7. /\ Shape(b) /\ Len(Script(b)) = 3
      /\ Script(b)[1] = x /\ Script(b)[2] = y /\ Script(b)[3] = <<"show", f>>
  BY <1>4, <1>5, <1>6, <1>9, SizeReturnShape
<1>8. QED
  BY <1>1, <1>3, <1>7

LEMMA SampleScript ==
  ASSUME NEW b \in AllButtons, b = <<"mag", 1>>
  PROVE  /\ Shape(b) /\ Len(Script(b)) = 2
         /\ Script(b)[1] = <<"send", 1>> /\ Script(b)[2] = <<"size", 96>>
<1>1. Script(b) = <<<<"send", 1>>, <<"size", 96>>>> /\ ~Opens(b)
  BY ScriptIs, TargetIs, FormsAre DEF Opens
<1>2. PICK x \in Statement, y \in Statement : x = <<"send", 1>> /\ y = <<"size", 96>>
  BY StatementsAre
<1>3. Script(b) = <<x, y>>
  BY <1>1, <1>2
<1>4. /\ Script(b) \in Seq(Statement) /\ Len(Script(b)) = 2
      /\ Script(b)[1] = x /\ Script(b)[2] = y
  <2>1. /\ <<x, y>> \in Seq(Statement) /\ Len(<<x, y>>) = 2
        /\ <<x, y>>[1] = x /\ <<x, y>>[2] = y
    OBVIOUS
  <2>2. QED
    BY <1>3, <2>1
<1>5. x[1] = "send" /\ y[1] = "size" /\ Sizing(b)
  BY <1>2 DEF Sizing
<1>6. ASSUME NEW k \in 1 .. Len(Script(b)) PROVE Plain(b, Script(b)[k])
  <2>1. k \in 1 .. 2
    BY <1>4
  <2>2. k = 1 \/ k = 2
    BY <2>1
  <2>3. QED
    BY <1>4, <1>5, <2>2 DEF Plain
<1>7. Shape(b)
  BY <1>1, <1>4, <1>6 DEF Shape
<1>8. QED
  BY <1>2, <1>4, <1>7

LEMMA CalibrationScript ==
  ASSUME NEW b \in AllButtons, b = <<"touch", 1>>
  PROVE  /\ Shape(b) /\ Len(Script(b)) = 4
         /\ Script(b)[1] = <<"suspend">> /\ Script(b)[2] = <<"calibrate">>
         /\ Script(b)[3] = <<"show", "touch">> /\ Script(b)[4] = <<"resume">>
<1>1. ~Opens(b)
  BY TargetIs, FormsAre DEF Opens
<1>2. Script(b) = <<<<"suspend">>, <<"calibrate">>>> \o <<<<"show", "touch">>>> \o <<<<"resume">>>>
  BY ScriptIs
<1>3. /\ Script(b) \in Seq(Statement) /\ Len(Script(b)) = 4
      /\ Script(b)[1] = <<"suspend">> /\ Script(b)[2] = <<"calibrate">>
      /\ Script(b)[3] = <<"show", "touch">> /\ Script(b)[4] = <<"resume">>
  <2>1. PICK x \in Statement, y \in Statement, z \in Statement, w \in Statement :
          x = <<"suspend">> /\ y = <<"calibrate">> /\ z = <<"show", "touch">> /\ w = <<"resume">>
    BY StatementsAre, FormsAre
  <2>2. Script(b) = <<x, y>> \o <<z>> \o <<w>>
    BY <1>2, <2>1
  <2> DEFINE s == <<x, y>> \o <<z>> \o <<w>>
  <2>3. s \in Seq(Statement) /\ Len(s) = 4 /\ s[1] = x /\ s[2] = y /\ s[3] = z /\ s[4] = w
    BY FourOf
  <2>4. Script(b) = s
    BY <2>2
  <2> HIDE DEF s
  <2>5. QED
    BY <2>1, <2>3, <2>4
<1>4. Back(b) = "touch"
  BY DEF Back
<1>5. ASSUME NEW k \in 1 .. Len(Script(b)) PROVE Plain(b, Script(b)[k])
  <2>1. k \in 1 .. 4
    <3>1. Len(Script(b)) = 4
      BY <1>3
    <3>2. QED
      BY <3>1
  <2>2. k = 1 \/ k = 2 \/ k = 3 \/ k = 4
    BY <2>1
  <2>3. QED
    BY <1>1, <1>3, <1>4, <2>2 DEF Plain
<1>6. QED
  BY <1>1, <1>3, <1>5 DEF Shape

LEMMA EveryShape ==
  ASSUME NEW b \in AllButtons
  PROVE  Shape(b)
<1>1. CASE b = <<"main", 1>>
  <2>1. PICK f \in Forms : f = "origin"
    BY FormsAre
  <2>2. Target(b) = f /\ Before(b) = 0 /\ Parent[f] = b[1] /\ f # "main"
    BY <1>1, <2>1, TargetIs, ParentIs DEF Before
  <2>3. Script(b) = Open(f)
    BY <1>1, <2>1, ScriptIs
  <2>4. QED
    BY <2>2, <2>3, OpenShape
<1>2. CASE b = <<"main", 2>>
  <2>1. PICK f \in Forms : f = "fusion"
    BY FormsAre
  <2>2. Target(b) = f /\ Before(b) = 0 /\ Parent[f] = b[1] /\ f # "main"
    BY <1>2, <2>1, TargetIs, ParentIs DEF Before
  <2>3. Script(b) = Open(f)
    BY <1>2, <2>1, ScriptIs
  <2>4. QED
    BY <2>2, <2>3, OpenShape
<1>3. CASE b = <<"main", 3>>
  <2>1. PICK f \in Forms : f = "calibrate"
    BY FormsAre
  <2>2. Target(b) = f /\ Before(b) = 0 /\ Parent[f] = b[1] /\ f # "main"
    BY <1>3, <2>1, TargetIs, ParentIs DEF Before
  <2>3. Script(b) = Open(f)
    BY <1>3, <2>1, ScriptIs
  <2>4. QED
    BY <2>2, <2>3, OpenShape
<1>4. CASE b = <<"origin", 1>>
  <2>1. PICK f \in Forms : f = "gnss"
    BY FormsAre
  <2>2. Target(b) = f /\ Before(b) = 0 /\ Parent[f] = b[1] /\ f # "main"
    BY <1>4, <2>1, TargetIs, ParentIs DEF Before
  <2>3. Script(b) = Open(f)
    BY <1>4, <2>1, ScriptIs
  <2>4. QED
    BY <2>2, <2>3, OpenShape
<1>5. CASE b = <<"calibrate", 2>>
  <2>1. PICK f \in Forms : f = "touch"
    BY FormsAre
  <2>2. Target(b) = f /\ Before(b) = 0 /\ Parent[f] = b[1] /\ f # "main"
    BY <1>5, <2>1, TargetIs, ParentIs DEF Before
  <2>3. Script(b) = Open(f)
    BY <1>5, <2>1, ScriptIs
  <2>4. QED
    BY <2>2, <2>3, OpenShape
<1>6. CASE b = <<"origin", 3>>
  <2>1. PICK f \in Forms : f = "main"
    BY FormsAre
  <2>2. ~Opens(b)
    BY <1>6, TargetIs, FormsAre DEF Opens
  <2>3. f = Back(b)
    BY <1>6, <2>1, ParentIs DEF Back
  <2>4. Script(b) = <<<<"show", f>>>>
    BY <1>6, <2>1, ScriptIs
  <2>5. QED
    BY <2>2, <2>3, <2>4, ReturnShape
<1>7. CASE b = <<"gnss", 1>>
  <2>1. PICK f \in Forms : f = "origin"
    BY FormsAre
  <2>2. ~Opens(b)
    BY <1>7, TargetIs, FormsAre DEF Opens
  <2>3. f = Back(b)
    BY <1>7, <2>1, ParentIs DEF Back
  <2>4. Script(b) = <<<<"show", f>>>>
    BY <1>7, <2>1, ScriptIs
  <2>5. QED
    BY <2>2, <2>3, <2>4, ReturnShape
<1>8. CASE b = <<"fusion", 1>>
  <2>1. PICK f \in Forms : f = "main"
    BY FormsAre
  <2>2. ~Opens(b)
    BY <1>8, TargetIs, FormsAre DEF Opens
  <2>3. f = Back(b)
    BY <1>8, <2>1, ParentIs DEF Back
  <2>4. Script(b) = <<<<"show", f>>>>
    BY <1>8, <2>1, ScriptIs
  <2>5. QED
    BY <2>2, <2>3, <2>4, ReturnShape
<1>9. CASE b = <<"calibrate", 4>>
  <2>1. PICK f \in Forms : f = "main"
    BY FormsAre
  <2>2. ~Opens(b)
    BY <1>9, TargetIs, FormsAre DEF Opens
  <2>3. f = Back(b)
    BY <1>9, <2>1, ParentIs DEF Back
  <2>4. Script(b) = <<<<"show", f>>>>
    BY <1>9, <2>1, ScriptIs
  <2>5. QED
    BY <2>2, <2>3, <2>4, ReturnShape
<1>10. CASE b = <<"touch", 2>>
  <2>1. PICK f \in Forms : f = "calibrate"
    BY FormsAre
  <2>2. ~Opens(b)
    BY <1>10, TargetIs, FormsAre DEF Opens
  <2>3. f = Back(b)
    BY <1>10, <2>1, ParentIs DEF Back
  <2>4. Script(b) = <<<<"show", f>>>>
    BY <1>10, <2>1, ScriptIs
  <2>5. QED
    BY <2>2, <2>3, <2>4, ReturnShape
<1>11. CASE b = <<"main", 4>>
  <2>1. Script(b) = <<>> /\ ~Opens(b)
    BY <1>11, ScriptIs, TargetIs, FormsAre DEF Opens
  <2>2. QED
    BY <2>1 DEF Shape
<1>12. CASE b = <<"calibrate", 3>>
  <2>1. Script(b) = <<>> /\ ~Opens(b)
    BY <1>12, ScriptIs, TargetIs, FormsAre DEF Opens
  <2>2. QED
    BY <2>1 DEF Shape
<1>13. QED
  BY <1>1, <1>2, <1>3, <1>4, <1>5, <1>6, <1>7, <1>8, <1>9, <1>10, <1>11, <1>12, SensorScript, MagScript, BackScript,
     SampleScript, CalibrationScript, ButtonsAre

-----------------------------------------------------------------------------
(* What a task does next, by how far it is.                                *)
Busy(r) == Opens(r.button) /\ At(r) \in 0 .. Elements(Target(r.button)) + 3

LEMMA OpenAt ==
  ASSUME NEW f \in Forms, NEW a \in 0 .. Elements(f) + 3
  PROVE  \/ a = 0 /\ Open(f)[a + 1] = <<"cut", f, "labels">>
         \/ a = 1 /\ Open(f)[a + 1] = <<"cut", f, "buttons">>
         \/ a = 2 /\ Open(f)[a + 1] = <<"clear", f>>
         \/ a \in 3 .. Labels[f] + 2 /\ Open(f)[a + 1] = <<"bind", f, "labels">>
         \/ a \in Labels[f] + 3 .. Elements(f) + 2 /\ Open(f)[a + 1] = <<"bind", f, "buttons">>
         \/ a = Elements(f) + 3 /\ Open(f)[a + 1] = <<"show", f>>
<1>1. PICK l \in Nat, b \in Nat : l = Labels[f] /\ b = Len(Buttons[f]) /\ Elements(f) = l + b
  BY ElementsNat
<1>2. a \in 0 .. (l + b) + 3
  BY <1>1
<1>3. \/ a = 0 \/ a = 1 \/ a = 2 \/ a \in 3 .. l + 2 \/ a \in l + 3 .. (l + b) + 2
      \/ a = (l + b) + 3
  BY <1>2
<1>4. CASE a = 0
  BY <1>4, OpenIs
<1>5. CASE a = 1
  BY <1>5, OpenIs
<1>6. CASE a = 2
  BY <1>6, OpenIs
<1>7. CASE a \in 3 .. l + 2
  <2>1. PICK k \in 1 .. l : a + 1 = 3 + k
    <3>1. a - 2 \in 1 .. l /\ a + 1 = 3 + (a - 2)
      BY <1>7
    <3>2. QED
      BY <3>1
  <2>2. Open(f)[3 + k] = <<"bind", f, "labels">>
    BY <1>1, OpenIs
  <2>3. QED
    BY <1>1, <1>7, <2>1, <2>2
<1>8. CASE a \in l + 3 .. (l + b) + 2
  <2>1. PICK k \in 1 .. b : a + 1 = l + 3 + k
    <3>1. a - l - 2 \in 1 .. b /\ a + 1 = l + 3 + (a - l - 2)
      BY <1>8
    <3>2. QED
      BY <3>1
  <2>2. Open(f)[l + 3 + k] = <<"bind", f, "buttons">>
    BY <1>1, OpenIs
  <2>3. QED
    BY <1>1, <1>8, <2>1, <2>2
<1>9. CASE a = (l + b) + 3
  <2>1. a + 1 = Elements(f) + 4
    BY <1>1, <1>9
  <2>2. Open(f)[Elements(f) + 4] = <<"show", f>>
    BY OpenIs
  <2>3. QED
    BY <1>1, <1>9, <2>1, <2>2
<1>10. QED
  BY <1>3, <1>4, <1>5, <1>6, <1>7, <1>8, <1>9

LEMMA RecordIs ==
  ASSUME NEW r \in Record
  PROVE  /\ r.button \in AllButtons /\ r.done \in Nat /\ Before(r.button) \in {0, 2}
         /\ At(r) \in Int /\ At(r) + Before(r.button) = r.done
         /\ Len(Script(r.button)) \in Nat /\ Left(r) \in Int
         /\ Left(r) = Len(Script(r.button)) - r.done
         /\ Opens(r.button) => Target(r.button) \in Forms
<1>1. r.button \in AllButtons /\ r.done \in Nat
  BY DEF Record
<1>2. Before(r.button) \in {0, 2}
  BY DEF Before
<1>3. Len(Script(r.button)) \in Nat
  <2>1. Script(r.button) \in Seq(Statement)
    BY <1>1, EveryShape DEF Shape
  <2>2. QED
    BY <2>1
<1>4. PICK b \in Nat : b = Before(r.button)
  BY <1>2
<1>5. At(r) \in Int /\ At(r) + Before(r.button) = r.done
  BY <1>1, <1>4 DEF At
<1>6. Left(r) \in Int /\ Left(r) = Len(Script(r.button)) - r.done
  BY <1>1, <1>3 DEF Left
<1>7. QED
  BY <1>1, <1>2, <1>3, <1>5, <1>6 DEF Opens

LEMMA NextStep ==
  ASSUME NEW r \in Record, Left(r) > 0
  PROVE  /\ Busy(r) => Todo(r, 1) = Open(Target(r.button))[At(r) + 1]
         /\ ~Busy(r) => Plain(r.button, Todo(r, 1))
<1> DEFINE b == r.button
           k == r.done + 1
<1>1. b \in AllButtons /\ Shape(b)
  BY RecordIs, EveryShape
<1>2. k \in 1 .. Len(Script(b)) /\ Todo(r, 1) = Script(b)[k]
  BY RecordIs DEF Todo
<1>3. CASE Busy(r)
  <2>1. PICK e \in Nat : e = Elements(Target(b))
    BY <1>3, ElementsNat DEF Busy, Opens
  <2>2. Opens(b) /\ At(r) \in 0 .. e + 3
    BY <1>3, <2>1 DEF Busy
  <2>3. PICK j \in 1 .. e + 4 : j = At(r) + 1
    BY <2>2
  <2>4. Before(b) + j = k
    BY <2>3, RecordIs
  <2>5. Script(b)[Before(b) + j] = Open(Target(b))[j]
    BY <1>1, <2>1, <2>2 DEF Shape
  <2>6. QED
    BY <1>2, <1>3, <2>3, <2>4, <2>5
<1>4. CASE ~Busy(r)
  <2>1. ~Opening(b, k)
    <3>1. SUFFICES ASSUME Opens(b), k \in Before(b) + 1 .. Before(b) + Elements(Target(b)) + 4
                   PROVE  FALSE
      BY DEF Opening
    <3>2. PICK e \in Nat, a \in Int, m \in {0, 2} :
            e = Elements(Target(b)) /\ a = At(r) /\ m = Before(b)
      BY <3>1, RecordIs, ElementsNat DEF Opens
    <3>3. a + m = r.done /\ r.done \in Nat
      BY <3>2, RecordIs
    <3>4. r.done + 1 \in m + 1 .. m + e + 4
      BY <3>1, <3>2
    <3>5. a \in 0 .. e + 3
      BY <3>3, <3>4
    <3>6. QED
      BY <1>4, <3>1, <3>2, <3>5 DEF Busy
  <2>2. QED
    BY <1>1, <1>2, <1>4, <2>1 DEF Shape
<1>5. QED
  BY <1>3, <1>4

(* The step of a task that opens form f.                                   *)
LEMMA BusyStep ==
  ASSUME NEW r \in Record, Left(r) > 0, Busy(r), NEW f, f = Target(r.button)
  PROVE  \/ At(r) = 0 /\ Todo(r, 1) = <<"cut", f, "labels">>
         \/ At(r) = 1 /\ Todo(r, 1) = <<"cut", f, "buttons">>
         \/ At(r) = 2 /\ Todo(r, 1) = <<"clear", f>>
         \/ At(r) \in 3 .. Labels[f] + 2 /\ Todo(r, 1) = <<"bind", f, "labels">>
         \/ At(r) \in Labels[f] + 3 .. Elements(f) + 2 /\ Todo(r, 1) = <<"bind", f, "buttons">>
         \/ At(r) = Elements(f) + 3 /\ Todo(r, 1) = <<"show", f>>
<1>1. f \in Forms /\ At(r) \in 0 .. Elements(f) + 3
  BY DEF Busy, Opens
<1>2. Todo(r, 1) = Open(f)[At(r) + 1]
  BY NextStep
<1>3. QED
  BY <1>1, <1>2, OpenAt

(* Which steps change a list: those of opening a form before it is shown.  *)
LEMMA BusyNot ==
  ASSUME NEW r \in Record, Left(r) > 0, Todo(r, 1)[1] \in {"cut", "clear", "bind"}
  PROVE  Busy(r)
BY NextStep DEF Plain

LEMMA CutIs ==
  ASSUME NEW r \in Record, NextIs(r, "cut")
  PROVE  LET f == Target(r.button) IN
         /\ Busy(r) /\ Left(r) > 0
         /\ \/ At(r) = 0 /\ Todo(r, 1) = <<"cut", f, "labels">>
            \/ At(r) = 1 /\ Todo(r, 1) = <<"cut", f, "buttons">>
<1>1. Left(r) > 0 /\ Todo(r, 1)[1] = "cut"
  BY DEF NextIs
<1>2. Busy(r)
  BY <1>1, BusyNot
<1>3. PICK f : f = Target(r.button)
  OBVIOUS
<1>4. QED
  BY <1>1, <1>2, <1>3, BusyStep

LEMMA ClearIs ==
  ASSUME NEW r \in Record, NextIs(r, "clear")
  PROVE  Busy(r) /\ Left(r) > 0 /\ At(r) = 2 /\ Todo(r, 1) = <<"clear", Target(r.button)>>
<1>1. Left(r) > 0 /\ Todo(r, 1)[1] = "clear"
  BY DEF NextIs
<1>2. Busy(r)
  BY <1>1, BusyNot
<1>3. PICK f : f = Target(r.button)
  OBVIOUS
<1>4. QED
  BY <1>1, <1>2, <1>3, BusyStep

LEMMA BindIs ==
  ASSUME NEW r \in Record, NextIs(r, "bind")
  PROVE  LET f == Target(r.button) IN
         /\ Busy(r) /\ Left(r) > 0
         /\ \/ At(r) \in 3 .. Labels[f] + 2 /\ Todo(r, 1) = <<"bind", f, "labels">>
            \/ At(r) \in Labels[f] + 3 .. Elements(f) + 2 /\ Todo(r, 1) = <<"bind", f, "buttons">>
<1>1. Left(r) > 0 /\ Todo(r, 1)[1] = "bind"
  BY DEF NextIs
<1>2. Busy(r)
  BY <1>1, BusyNot
<1>3. PICK f : f = Target(r.button)
  OBVIOUS
<1>4. QED
  BY <1>1, <1>2, <1>3, BusyStep

LEMMA ShowIs ==
  ASSUME NEW r \in Record, NextIs(r, "show")
  PROVE  LET f == Target(r.button) IN
         /\ Left(r) > 0
         /\ \/ Busy(r) /\ At(r) = Elements(f) + 3 /\ Todo(r, 1) = <<"show", f>>
            \/ ~Opens(r.button) /\ Todo(r, 1) = <<"show", Back(r.button)>>
<1>1. Left(r) > 0 /\ Todo(r, 1)[1] = "show"
  BY DEF NextIs
<1>2. CASE Busy(r)
  <2>1. PICK f : f = Target(r.button)
    OBVIOUS
  <2>2. QED
    BY <1>1, <1>2, <2>1, BusyStep
<1>3. CASE ~Busy(r)
  BY <1>1, <1>3, NextStep DEF Plain
<1>4. QED
  BY <1>2, <1>3

(* The others do not open a form, and change none.                         *)
LEMMA OtherIs ==
  ASSUME NEW r \in Record, Left(r) > 0, Todo(r, 1)[1] \notin {"cut", "clear", "bind", "show"}
  PROVE  /\ ~Busy(r)
         /\ Todo(r, 1)[1] \in {"send", "size"} => Sizing(r.button)
         /\ Todo(r, 1)[1] \in {"suspend", "calibrate", "resume"} => r.button = <<"touch", 1>>
         /\ Todo(r, 1)[1] \in {"send", "size", "suspend", "calibrate", "resume"}
<1>1. ~Busy(r)
  <2>1. SUFFICES ASSUME Busy(r) PROVE FALSE
    OBVIOUS
  <2>2. PICK f : f = Target(r.button)
    OBVIOUS
  <2>3. QED
    BY <2>1, <2>2, BusyStep
<1>2. QED
  BY <1>1, NextStep DEF Plain

-----------------------------------------------------------------------------
(* The order of the tasks.                                                 *)
LEMMA Removed ==
  ASSUME NEW S, NEW s \in Seq(S), NEW c \in 1 .. Len(s)
  PROVE  /\ RemoveAt(s, c) \in Seq(S) /\ Len(RemoveAt(s, c)) = Len(s) - 1
         /\ \A i \in 1 .. Len(s) - 1 : RemoveAt(s, c)[i] = IF i < c THEN s[i] ELSE s[i + 1]
<1> DEFINE n == Len(s)
           a == SubSeq(s, 1, c - 1)
           b == SubSeq(s, c + 1, n)
<1>1. n \in Nat /\ c \in Int /\ 1 <= c /\ c <= n /\ \A i \in 1 .. n : s[i] \in S
  OBVIOUS
<1>2. a \in Seq(S) /\ Len(a) = c - 1 /\ \A i \in 1 .. c - 1 : a[i] = s[i]
  <2>1. 1 \in Int /\ c - 1 \in Int /\ \A i \in 1 .. c - 1 : s[i] \in S
    BY <1>1
  <2>2. /\ a \in Seq(S) /\ Len(a) = IF 1 <= c - 1 THEN (c - 1) - 1 + 1 ELSE 0
        /\ \A i \in 1 .. (c - 1) - 1 + 1 : a[i] = s[1 + i - 1]
    BY <2>1, SubSeqProperties
  <2>3. QED
    BY <1>1, <2>2
<1>3. b \in Seq(S) /\ Len(b) = n - c /\ \A i \in 1 .. n - c : b[i] = s[c + i]
  <2>1. c + 1 \in Int /\ n \in Int /\ \A i \in c + 1 .. n : s[i] \in S
    BY <1>1
  <2>2. /\ b \in Seq(S) /\ Len(b) = IF c + 1 <= n THEN n - (c + 1) + 1 ELSE 0
        /\ \A i \in 1 .. n - (c + 1) + 1 : b[i] = s[(c + 1) + i - 1]
    BY <2>1, SubSeqProperties
  <2>3. QED
    BY <1>1, <2>2
<1>4. RemoveAt(s, c) = a \o b
  BY DEF RemoveAt
<1> HIDE DEF a, b
<1>5. /\ a \o b \in Seq(S) /\ Len(a \o b) = Len(a) + Len(b)
      /\ \A i \in 1 .. Len(a) : (a \o b)[i] = a[i]
      /\ \A i \in 1 .. Len(b) : (a \o b)[Len(a) + i] = b[i]
  <2>1. a \in Seq(S) /\ b \in Seq(S)
    BY <1>2, <1>3
  <2>2. QED
    BY <2>1, Joined
<1> HIDE DEF n
<1>6. Len(a \o b) = n - 1
  BY <1>1, <1>2, <1>3, <1>5
<1>7. \A i \in 1 .. n - 1 : i < c => (a \o b)[i] = s[i]
  BY <1>1, <1>2, <1>5
<1>8. ASSUME NEW i \in 1 .. n - 1, ~(i < c) PROVE (a \o b)[i] = s[i + 1]
  <2>1. PICK j \in 1 .. n - c : i = (c - 1) + j /\ c + j = i + 1
    <3>1. i - (c - 1) \in 1 .. n - c /\ i = (c - 1) + (i - (c - 1)) /\ c + (i - (c - 1)) = i + 1
      BY <1>1, <1>8
    <3>2. QED
      BY <3>1
  <2>2. (a \o b)[(c - 1) + j] = b[j] /\ b[j] = s[c + j]
    BY <1>2, <1>3, <1>5
  <2>3. QED
    BY <2>1, <2>2
<1>9. QED
  BY <1>4, <1>5, <1>6, <1>7, <1>8 DEF n

(* A task is at its calibration only after it has suspended the updates.   *)
LEMMA CalibrateIs ==
  ASSUME NEW r \in Record, NextIs(r, "calibrate")
  PROVE  Calibration(r)
<1>1. Left(r) > 0 /\ Todo(r, 1)[1] = "calibrate"
  BY DEF NextIs
<1>2. r.button = <<"touch", 1>>
  BY <1>1, OtherIs
<1>3. CASE r.done = 0
  <2>1. Todo(r, 1) = Script(r.button)[1]
    BY <1>3 DEF Todo
  <2>2. Script(r.button)[1] = <<"suspend">>
    BY <1>2, RecordIs, CalibrationScript
  <2>3. QED
    BY <1>1, <2>1, <2>2
<1>4. CASE r.done > 0
  BY <1>2, <1>4 DEF Calibration
<1>5. QED
  BY <1>3, <1>4, RecordIs

(* One step of the task at place c: the step from s to t.                  *)
Step(r) == [r EXCEPT !.done = @ + 1]

MovedAt(s, c, t) ==
  \/ /\ Left(s[c]) > 1 /\ t \in Seq(Record) /\ Len(t) = Len(s)
     /\ t[c] = Step(s[c]) /\ \A i \in 1 .. Len(s) : i # c => t[i] = s[i]
  \/ /\ Left(s[c]) <= 1 /\ t \in Seq(Record) /\ Len(t) = Len(s) - 1
     /\ \A i \in 1 .. Len(s) - 1 : t[i] = IF i < c THEN s[i] ELSE s[i + 1]

LEMMA StepIs ==
  ASSUME NEW r \in Record
  PROVE  /\ Step(r) \in Record /\ Step(r).button = r.button /\ Step(r).done = r.done + 1
         /\ Step(r).new = r.new /\ Left(Step(r)) = Left(r) - 1
         /\ At(Step(r)) = At(r) + 1
         /\ \A k \in Int : Todo(Step(r), k) = Todo(r, k + 1)
<1>1. /\ Step(r) \in Record /\ Step(r).button = r.button /\ Step(r).done = r.done + 1
      /\ Step(r).new = r.new
  BY DEF Step, Record
<1>2. r.done \in Nat /\ Len(Script(r.button)) \in Nat /\ Before(r.button) \in {0, 2}
  BY RecordIs
<1>3. PICK b \in Nat : b = Before(r.button)
  BY <1>2
<1>4. Left(Step(r)) = Left(r) - 1
  BY <1>1, <1>2 DEF Left
<1>5. At(Step(r)) = At(r) + 1
  BY <1>1, <1>2, <1>3 DEF At
<1>6. ASSUME NEW k \in Int PROVE Todo(Step(r), k) = Todo(r, k + 1)
  <2>1. (r.done + 1) + k = r.done + (k + 1)
    BY <1>2
  <2>2. QED
    BY <1>1, <2>1 DEF Todo
<1>7. QED
  BY <1>1, <1>4, <1>5, <1>6

LEMMA AdvanceMoves ==
  ASSUME callbacks \in Seq(Record), NEW c \in DOMAIN callbacks, Advance(c)
  PROVE  MovedAt(callbacks, c, callbacks')
<1> DEFINE r == callbacks[c]
           n == Len(Script(r.button))
<1>1. r \in Record /\ c \in 1 .. Len(callbacks)
  OBVIOUS
<1>2. r.done \in Nat /\ n \in Nat /\ Left(r) = n - r.done
  BY <1>1, RecordIs
<1>3. callbacks' = IF r.done + 1 < n THEN [callbacks EXCEPT ![c].done = @ + 1] ELSE RemoveAt(callbacks, c)
  BY DEF Advance, Statements
<1>4. CASE Left(r) > 1
  <2>1. r.done + 1 < n
    BY <1>2, <1>4
  <2>2. callbacks' = [callbacks EXCEPT ![c] = Step(r)]
    BY <1>3, <2>1 DEF Step
  <2>3. Step(r) \in Record
    BY <1>1, StepIs
  <2> HIDE DEF r, n
  <2>4. callbacks' \in Seq(Record) /\ Len(callbacks') = Len(callbacks)
    BY <2>2, <2>3
  <2>5. callbacks'[c] = Step(r) /\ \A i \in 1 .. Len(callbacks) : i # c => callbacks'[i] = callbacks[i]
    BY <2>2
  <2>6. QED
    BY <1>4, <2>4, <2>5 DEF MovedAt, r
<1>5. CASE Left(r) <= 1
  <2>1. ~(r.done + 1 < n)
    BY <1>2, <1>5
  <2>2. callbacks' = RemoveAt(callbacks, c)
    BY <1>3, <2>1
  <2> HIDE DEF r, n
  <2>3. /\ RemoveAt(callbacks, c) \in Seq(Record) /\ Len(RemoveAt(callbacks, c)) = Len(callbacks) - 1
        /\ \A i \in 1 .. Len(callbacks) - 1 :
             RemoveAt(callbacks, c)[i] = IF i < c THEN callbacks[i] ELSE callbacks[i + 1]
    BY <1>1, Removed
  <2>4. QED
    BY <1>5, <2>2, <2>3 DEF MovedAt, r
<1>6. QED
  BY <1>2, <1>4, <1>5

(* What a step of the task r at place c leaves of the tasks: at most one   *)
(* is under way and not calibrating.                                       *)
LEMMA MovedOrder ==
  ASSUME NEW s, InOrder(s), NEW c \in DOMAIN s,
         \A b \in 1 .. c - 1 : NextIs(s[b], "calibrate"), NEW t, MovedAt(s, c, t)
  PROVE  InOrder(t)
<1> DEFINE r == s[c]
<1>1. s \in Seq(Record) /\ c \in 1 .. Len(s) /\ Len(s) \in Nat /\ DOMAIN s = 1 .. Len(s)
  BY DEF InOrder
<1>2. \A i \in 1 .. Len(s) : s[i] \in Record
  BY <1>1
<1>3. \A b \in 1 .. c - 1 : Calibration(s[b])
  BY <1>1, <1>2, CalibrateIs
<1>4. /\ Step(r) \in Record /\ Step(r).button = r.button /\ Step(r).done = r.done + 1
      /\ Step(r).new = r.new /\ Left(Step(r)) = Left(r) - 1 /\ r.done \in Nat /\ Left(r) \in Int
  BY <1>1, <1>2, StepIs, RecordIs
<1>5. ASSUME Left(r) > 1, t \in Seq(Record), Len(t) = Len(s), t[c] = Step(r),
             \A i \in 1 .. Len(s) : i # c => t[i] = s[i]
      PROVE  InOrder(t)
  <2>1. DOMAIN t = 1 .. Len(s)
    BY <1>5
  <2>2. ASSUME NEW i \in 1 .. Len(s), t[i].done > 0 PROVE Left(t[i]) > 0
    <3>1. CASE i = c
      BY <1>4, <1>5, <3>1
    <3>2. CASE i # c
      BY <1>1, <1>5, <2>2, <3>2 DEF InOrder
    <3>3. QED
      BY <3>1, <3>2
  <2>3. ASSUME NEW i \in 1 .. Len(s), t[i].new PROVE i = Len(s)
    <3>1. s[i].new
      BY <1>4, <1>5, <2>3
    <3>2. QED
      BY <1>1, <3>1 DEF InOrder
  <2>4. ASSUME NEW i \in 1 .. Len(s), NEW j \in 1 .. Len(s), i < j, t[j].done > 0 \/ ~t[j].new
        PROVE  Calibration(t[i])
    <3>1. Calibration(s[i])
      <4>1. CASE j = c
        BY <1>3, <2>4, <4>1
      <4>2. CASE j # c
        BY <1>1, <1>5, <2>4, <4>2 DEF InOrder
      <4>3. QED
        BY <4>1, <4>2
    <3>2. CASE i = c
      BY <1>4, <1>5, <3>1, <3>2 DEF Calibration
    <3>3. CASE i # c
      BY <1>5, <3>1, <3>3
    <3>4. QED
      BY <3>2, <3>3
  <2>5. QED
    BY <1>5, <2>1, <2>2, <2>3, <2>4 DEF InOrder
<1>6. ASSUME Left(r) <= 1, t \in Seq(Record), Len(t) = Len(s) - 1,
             \A i \in 1 .. Len(s) - 1 : t[i] = IF i < c THEN s[i] ELSE s[i + 1]
      PROVE  InOrder(t)
  <2>1. DOMAIN t = 1 .. Len(s) - 1
    BY <1>6
  <2>2. ASSUME NEW i \in 1 .. Len(s) - 1
        PROVE  \E k \in 1 .. Len(s) : k \in {i, i + 1} /\ t[i] = s[k] /\ (k = i <=> i < c)
    <3>1. CASE i < c
      BY <1>1, <1>6, <3>1
    <3>2. CASE ~(i < c)
      <4>1. i + 1 \in 1 .. Len(s) /\ i + 1 # i
        BY <1>1
      <4>2. t[i] = s[i + 1]
        BY <1>6, <3>2
      <4>3. QED
        BY <3>2, <4>1, <4>2
    <3>3. QED
      BY <3>1, <3>2
  <2>3. ASSUME NEW i \in 1 .. Len(s) - 1, t[i].done > 0 PROVE Left(t[i]) > 0
    <3>1. PICK k \in 1 .. Len(s) : t[i] = s[k]
      BY <2>2
    <3>2. QED
      BY <1>1, <2>3, <3>1 DEF InOrder
  <2>4. ASSUME NEW i \in 1 .. Len(s) - 1, t[i].new PROVE i = Len(s) - 1
    <3>1. PICK k \in 1 .. Len(s) : t[i] = s[k] /\ k \in {i, i + 1}
      BY <2>2
    <3>2. k = Len(s)
      BY <1>1, <2>4, <3>1 DEF InOrder
    <3>3. PICK n \in Nat : n = Len(s)
      BY <1>1
    <3>4. i \in 1 .. n - 1 /\ (n = i \/ n = i + 1)
      BY <3>1, <3>2, <3>3
    <3>5. i = n - 1
      BY <3>4
    <3>6. QED
      BY <3>3, <3>5
  <2>5. ASSUME NEW i \in 1 .. Len(s) - 1, NEW j \in 1 .. Len(s) - 1, i < j,
               t[j].done > 0 \/ ~t[j].new
        PROVE  Calibration(t[i])
    <3>1. PICK k \in 1 .. Len(s) : t[i] = s[k] /\ k \in {i, i + 1} /\ (k = i <=> i < c)
      BY <2>2
    <3>2. PICK l \in 1 .. Len(s) : t[j] = s[l] /\ l \in {j, j + 1} /\ (l = j <=> j < c)
      BY <2>2
    <3>3. k < l
      BY <1>1, <2>5, <3>1, <3>2
    <3>4. s[l].done > 0 \/ ~s[l].new
      BY <2>5, <3>2
    <3>5. Calibration(s[k])
      BY <1>1, <3>3, <3>4 DEF InOrder
    <3>6. QED
      BY <3>1, <3>5
  <2>6. QED
    BY <1>6, <2>1, <2>3, <2>4, <2>5 DEF InOrder
<1>7. QED
  BY <1>5, <1>6 DEF MovedAt

LEMMA MovedSet ==
  ASSUME NEW s \in Seq(Record), NEW c \in DOMAIN s, NEW t, MovedAt(s, c, t)
  PROVE  /\ \A u \in Range(t) : (u = Step(s[c]) /\ Left(s[c]) > 1)
                                  \/ \E i \in DOMAIN s : i # c /\ u = s[i]
         /\ \A u \in Range(s) : u = s[c] \/ u \in Range(t)
         /\ Left(s[c]) > 1 => Step(s[c]) \in Range(t)
<1>1. c \in 1 .. Len(s) /\ Len(s) \in Nat /\ DOMAIN s = 1 .. Len(s)
  OBVIOUS
<1>2. ASSUME Left(s[c]) > 1, t \in Seq(Record), Len(t) = Len(s), t[c] = Step(s[c]),
             \A i \in 1 .. Len(s) : i # c => t[i] = s[i]
      PROVE  /\ \A u \in Range(t) : u = Step(s[c]) \/ \E i \in DOMAIN s : i # c /\ u = s[i]
             /\ \A u \in Range(s) : u = s[c] \/ u \in Range(t)
             /\ Step(s[c]) \in Range(t)
  <2>1. DOMAIN t = 1 .. Len(s)
    BY <1>2
  <2>2. QED
    BY <1>1, <1>2, <2>1 DEF Range
<1>3. ASSUME Left(s[c]) <= 1, t \in Seq(Record), Len(t) = Len(s) - 1,
             \A i \in 1 .. Len(s) - 1 : t[i] = IF i < c THEN s[i] ELSE s[i + 1]
      PROVE  /\ \A u \in Range(t) : \E i \in DOMAIN s : i # c /\ u = s[i]
             /\ \A u \in Range(s) : u = s[c] \/ u \in Range(t)
  <2>1. DOMAIN t = 1 .. Len(s) - 1
    BY <1>3
  <2>2. ASSUME NEW j \in 1 .. Len(s) - 1 PROVE \E i \in DOMAIN s : i # c /\ t[j] = s[i]
    <3>1. CASE j < c
      BY <1>1, <1>3, <3>1
    <3>2. CASE ~(j < c)
      <4>1. j + 1 \in DOMAIN s /\ j + 1 # c
        BY <1>1, <3>2
      <4>2. QED
        BY <1>3, <3>2, <4>1
    <3>3. QED
      BY <3>1, <3>2
  <2>3. ASSUME NEW i \in 1 .. Len(s), i # c PROVE \E j \in 1 .. Len(s) - 1 : t[j] = s[i]
    <3>1. CASE i < c
      <4>1. i \in 1 .. Len(s) - 1
        BY <1>1, <3>1
      <4>2. QED
        BY <1>3, <3>1, <4>1
    <3>2. CASE i > c
      <4>1. i - 1 \in 1 .. Len(s) - 1 /\ ~(i - 1 < c) /\ (i - 1) + 1 = i
        BY <1>1, <3>2
      <4>2. PICK j \in 1 .. Len(s) - 1 : ~(j < c) /\ j + 1 = i
        BY <4>1
      <4>3. t[j] = s[i]
        BY <1>3, <4>2
      <4>4. QED
        BY <4>3
    <3>3. QED
      BY <1>1, <2>3, <3>1, <3>2
  <2>4. ASSUME NEW u \in Range(t) PROVE \E i \in DOMAIN s : i # c /\ u = s[i]
    BY <2>1, <2>2, <2>4 DEF Range
  <2>5. ASSUME NEW u \in Range(s) PROVE u = s[c] \/ u \in Range(t)
    BY <1>1, <2>1, <2>3, <2>5 DEF Range
  <2>6. QED
    BY <2>4, <2>5
<1>4. CASE Left(s[c]) > 1
  <2>1. /\ t \in Seq(Record) /\ Len(t) = Len(s) /\ t[c] = Step(s[c])
        /\ \A i \in 1 .. Len(s) : i # c => t[i] = s[i]
    <3>1. Left(s[c]) \in Int
      BY RecordIs
    <3>2. QED
      BY <1>4, <3>1 DEF MovedAt
  <2>2. QED
    BY <1>2, <1>4, <2>1
<1>5. CASE ~(Left(s[c]) > 1)
  <2>1. /\ Left(s[c]) <= 1 /\ t \in Seq(Record) /\ Len(t) = Len(s) - 1
        /\ \A i \in 1 .. Len(s) - 1 : t[i] = IF i < c THEN s[i] ELSE s[i + 1]
    BY <1>5 DEF MovedAt
  <2>2. QED
    BY <1>3, <1>5, <2>1
<1>6. QED
  BY <1>4, <1>5

(* The step of task r, for the set of tasks.                               *)
Moves(r) ==
  /\ r \in Tasks /\ r \in Record
  /\ \A u \in Tasks' : u \in Tasks \/ (u = Step(r) /\ Left(r) > 1)
  /\ \A u \in Tasks : u = r \/ u \in Tasks'
  /\ Left(r) > 1 => Step(r) \in Tasks'
  /\ ~Calibration(r) => /\ \A u \in Tasks : Underway(u) => u = r
                        /\ \A u \in Tasks' : Underway(u) => u = Step(r) /\ Left(r) > 1
                        /\ Updating => \A u \in Tasks' : u = Step(r) \/ Calibration(u)

LEMMA MovesIs ==
  ASSUME OrderInv, NEW c \in DOMAIN callbacks, MayRun(c), Advance(c)
  PROVE  Moves(callbacks[c]) /\ InOrder(callbacks')
<1> DEFINE r == callbacks[c]
<1>1. callbacks \in Seq(Record) /\ InOrder(callbacks) /\ DOMAIN callbacks = 1 .. Len(callbacks)
  BY DEF OrderInv, InOrder
<1>2. MovedAt(callbacks, c, callbacks')
  BY <1>1, AdvanceMoves
<1>3. \A i \in DOMAIN callbacks : callbacks[i] \in Record
  BY <1>1
<1>4. ASSUME NEW b \in 1 .. c - 1 PROVE NextIs(callbacks[b], "calibrate")
  <2>1. AtStep(b, "calibrate")
    BY DEF MayRun
  <2>2. b \in DOMAIN callbacks
    BY <1>1
  <2>3. callbacks[b].done \in Nat /\ Len(Script(callbacks[b].button)) \in Nat
    BY <1>3, <2>2, RecordIs
  <2>4. /\ callbacks[b].done < Len(Script(callbacks[b].button))
        /\ Script(callbacks[b].button)[callbacks[b].done + 1][1] = "calibrate"
    BY <2>1 DEF AtStep, Op, Statements
  <2>5. Left(callbacks[b]) > 0
    BY <2>3, <2>4 DEF Left
  <2>6. QED
    BY <2>4, <2>5 DEF NextIs, Todo
<1>5. InOrder(callbacks')
  BY <1>1, <1>2, <1>4, MovedOrder
<1>6. ASSUME ~Calibration(r), NEW i \in DOMAIN callbacks, i # c PROVE ~Underway(callbacks[i])
  <2>1. CASE i < c
    <3>1. Calibration(callbacks[i])
      BY <1>1, <1>3, <1>4, <2>1, CalibrateIs
    <3>2. QED
      BY <3>1 DEF Calibration, Underway
  <2>2. CASE i > c
    <3>1. ~(callbacks[i].done > 0)
      BY <1>1, <1>6, <2>2 DEF InOrder
    <3>2. QED
      BY <3>1 DEF Underway
  <2>3. QED
    BY <1>1, <1>6, <2>1, <2>2
<1>7. /\ \A u \in Range(callbacks') : (u = Step(r) /\ Left(r) > 1)
                                  \/ \E i \in DOMAIN callbacks : i # c /\ u = callbacks[i]
      /\ \A u \in Range(callbacks) : u = r \/ u \in Range(callbacks')
      /\ Left(r) > 1 => Step(r) \in Range(callbacks')
  BY <1>1, <1>2, MovedSet
<1>8. Tasks = Range(callbacks) /\ Tasks' = Range(callbacks')
  BY DEF Tasks
<1>9. \A u : u \in Range(callbacks) <=> \E i \in DOMAIN callbacks : u = callbacks[i]
  BY DEF Range
<1> HIDE DEF r
<1>10. r \in Tasks /\ r \in Record
  BY <1>3, <1>8, <1>9 DEF r
<1>11. \A u \in Tasks' : u \in Tasks \/ (u = Step(r) /\ Left(r) > 1)
  BY <1>7, <1>8, <1>9
<1>12. ASSUME ~Calibration(r), NEW u \in Tasks, Underway(u) PROVE u = r
  BY <1>6, <1>8, <1>9, <1>12 DEF r
<1>13. ASSUME ~Calibration(r), NEW u \in Tasks', Underway(u) PROVE u = Step(r) /\ Left(r) > 1
  BY <1>6, <1>7, <1>8, <1>13 DEF r
<1>14. ASSUME ~Calibration(r), Updating, NEW u \in Tasks' PROVE u = Step(r) \/ Calibration(u)
  <2>1. CASE u = Step(r)
    BY <2>1
  <2>2. CASE u # Step(r)
    <3>1. PICK i \in DOMAIN callbacks : i # c /\ u = callbacks[i]
      BY <1>7, <1>8, <2>2
    <3>2. ~callbacks[i].new
      BY <1>8, <1>9, <1>14 DEF OrderInv
    <3>3. CASE i < c
      BY <1>1, <1>3, <1>4, <3>1, <3>3, CalibrateIs
    <3>4. CASE i > c
      BY <1>1, <1>14, <3>2, <3>4 DEF InOrder, r
    <3>5. QED
      BY <1>1, <3>1, <3>3, <3>4
  <2>3. QED
    BY <2>1, <2>2
<1>15. QED
  BY <1>5, <1>7, <1>8, <1>10, <1>11, <1>12, <1>13, <1>14 DEF Moves, r

-----------------------------------------------------------------------------
(* What the step of task r does to the rest.                               *)
CutBy(r, f) ==
  /\ Busy(r) /\ Left(r) > 0 /\ At(r) \in {0, 1}
  /\ \E kind \in Kinds : lists' = [lists EXCEPT ![f][kind].linked = IF @ = 0 THEN 0 ELSE 1]
  /\ clicked' \subseteq clicked
  /\ Disturb(f = current_form)
  /\ UNCHANGED <<current_form, mode, suspended>>

ClearBy(r, f) ==
  /\ Busy(r) /\ Left(r) > 0 /\ At(r) = 2
  /\ lists' = [lists EXCEPT ![f] = Unbound]
  /\ Disturb(f = current_form)
  /\ UNCHANGED <<current_form, clicked, mode, suspended>>

BindBy(r, f) ==
  /\ Busy(r) /\ Left(r) > 0
  /\ \E kind \in Kinds :
       /\ \/ kind = "labels" /\ At(r) \in 3 .. Labels[f] + 2
          \/ kind = "buttons" /\ At(r) \in Labels[f] + 3 .. Elements(f) + 2
       /\ lists' = [lists EXCEPT ![f][kind] = [number |-> @.number + 1, linked |-> @.linked + 1]]
  /\ Disturb(FALSE)
  /\ UNCHANGED <<current_form, clicked, mode, suspended>>

ShowBy(r, f) ==
  /\ Left(r) > 0
  /\ \E g \in Forms :
       /\ \/ Busy(r) /\ At(r) = Elements(f) + 3 /\ g = f
          \/ ~Opens(r.button) /\ g = Back(r.button)
       /\ current_form' = g
       /\ Disturb(\E kind \in Kinds : Amount(g, kind) < Amount(current_form, kind))
  /\ UNCHANGED <<lists, clicked, mode, suspended>>

SendBy(r) ==
  /\ NextIs(r, "send") /\ Sizing(r.button) /\ command' = Todo(r, 1)[2]
  /\ UNCHANGED <<size, suspended>>

SizeBy(r) ==
  /\ NextIs(r, "size") /\ Sizing(r.button) /\ size' = Todo(r, 1)[2]
  /\ UNCHANGED <<command, suspended>>

RestBy(r) ==
  /\ r.button = <<"touch", 1>> \/ Script(r.button) = <<>>
  /\ ~NextIs(r, "show") /\ ~NextIs(r, "send") /\ ~NextIs(r, "size")
  /\ \/ UNCHANGED suspended
     \/ NextIs(r, "suspend") /\ suspended' = TRUE
     \/ NextIs(r, "resume") /\ suspended' = FALSE
  /\ UNCHANGED mode

Effect(r) ==
  /\ LET f == Target(r.button) IN
     \/ NextIs(r, "cut") /\ CutBy(r, f)
     \/ NextIs(r, "clear") /\ ClearBy(r, f)
     \/ NextIs(r, "bind") /\ BindBy(r, f)
     \/ NextIs(r, "show") /\ ShowBy(r, f)
     \/ /\ SendBy(r) \/ SizeBy(r) \/ RestBy(r)
        /\ ~Busy(r) /\ UNCHANGED <<forms, clicked, shorter, torn>>
  /\ astray' = (astray \/ /\ r.done = 0 \/ NextIs(r, "show")
                          /\ r.button[1] # current_form)
  /\ UnchangedByCallback

LEMMA BackIs ==
  ASSUME NEW b \in AllButtons
  PROVE  Back(b) \in Forms /\ b[1] \in Forms
<1>1. b[1] \in Forms
  BY DEF AllButtons
<1>2. "touch" \in Forms
  BY FormsAre
<1>3. QED
  BY <1>1, <1>2, FormFacts DEF Back

(* The names of the model and those of the proof.                          *)
LEMMA Named ==
  ASSUME NEW c, callbacks[c] \in Record
  PROVE  /\ Op(c) = Todo(callbacks[c], 1) /\ Statements(c) = Script(callbacks[c].button)
         /\ \A op : AtStep(c, op) => NextIs(callbacks[c], op)
         /\ \A op : NextIs(callbacks[c], op) => AtStep(c, op)
<1> DEFINE r == callbacks[c]
<1>1. r.done \in Nat /\ Len(Script(r.button)) \in Nat
  BY RecordIs
<1>2. Op(c) = Todo(callbacks[c], 1) /\ Statements(c) = Script(callbacks[c].button)
  BY DEF Op, Statements, Todo
<1>3. Left(r) > 0 <=> r.done < Len(Script(r.button))
  BY <1>1 DEF Left
<1>4. QED
  BY <1>2, <1>3 DEF AtStep, NextIs

LEMMA Effects ==
  ASSUME OrderInv, NEW c \in DOMAIN callbacks, gui_callback_task(c)
  PROVE  Effect(callbacks[c])
<1> DEFINE r == callbacks[c]
           f == Target(r.button)
<1>1. r \in Record
  BY DEF OrderInv, InOrder
<1>2. /\ Op(c) = Todo(r, 1) /\ Statements(c) = Script(r.button)
      /\ \A op : AtStep(c, op) => NextIs(r, op)
      /\ \A op : NextIs(r, op) => AtStep(c, op)
  BY <1>1, Named
<1>3. UnchangedByCallback
  BY DEF gui_callback_task
<1>4. astray' = (astray \/ /\ r.done = 0 \/ NextIs(r, "show")
                           /\ r.button[1] # current_form)
  <2>1. AtStep(c, "show") <=> NextIs(r, "show")
    BY <1>2
  <2>2. Stray(c)
    BY DEF gui_callback_task
  <2>3. QED
    BY <2>1, <2>2 DEF Stray
<1> HIDE DEF r
<1>5. \/ NextIs(r, "cut") /\ CutBy(r, f)
      \/ NextIs(r, "clear") /\ ClearBy(r, f)
      \/ NextIs(r, "bind") /\ BindBy(r, f)
      \/ NextIs(r, "show") /\ ShowBy(r, f)
      \/ /\ SendBy(r) \/ SizeBy(r) \/ RestBy(r)
         /\ ~Busy(r) /\ UNCHANGED <<forms, clicked, shorter, torn>>
  <2> HIDE DEF f
  <2>1. CASE Nothing(c)
    <3>1. Script(r.button) = <<>> /\ UNCHANGED <<forms, clicked, mode, suspended, shorter, torn>>
      BY <1>2, <2>1 DEF Nothing
    <3>2. Left(r) <= 0
      <4>1. Len(Script(r.button)) = 0
        BY <3>1
      <4>2. QED
        BY <1>1, <4>1, RecordIs
    <3>3. \A op : ~NextIs(r, op)
      <4>1. ~(Left(r) > 0)
        BY <1>1, <3>2, RecordIs
      <4>2. QED
        BY <4>1 DEF NextIs
    <3>4. ~Busy(r)
      <4>1. SUFFICES ASSUME Opens(r.button) PROVE FALSE
        BY DEF Busy
      <4>2. r.button \in AllButtons /\ Target(r.button) \in Forms
        BY <1>1, <4>1, RecordIs
      <4>3. Before(r.button) + Elements(Target(r.button)) + 4 <= Len(Script(r.button))
        BY <4>1, <4>2, EveryShape DEF Shape
      <4>4. PICK m \in {0, 2}, e \in Nat : m = Before(r.button) /\ e = Elements(Target(r.button))
        BY <1>1, <4>2, RecordIs, ElementsNat
      <4>5. m + e + 4 <= 0
        BY <3>1, <4>3, <4>4
      <4>6. QED
        BY <4>5
    <3>5. QED
      BY <3>1, <3>3, <3>4 DEF RestBy, mode
  <2>2. CASE Cut(c)
    <3>1. NextIs(r, "cut")
      BY <1>2, <2>2 DEF Cut
    <3>2. /\ Busy(r) /\ Left(r) > 0
          /\ \/ At(r) = 0 /\ Todo(r, 1) = <<"cut", f, "labels">>
             \/ At(r) = 1 /\ Todo(r, 1) = <<"cut", f, "buttons">>
      BY <1>1, <3>1, CutIs DEF f
    <3>3. PICK kind \in Kinds : At(r) \in {0, 1} /\ Todo(r, 1)[2] = f /\ Todo(r, 1)[3] = kind
      BY <3>2 DEF Kinds
    <3>4. lists' = [lists EXCEPT ![f][kind].linked = IF @ = 0 THEN 0 ELSE 1]
      BY <1>2, <2>2, <3>3 DEF Cut
    <3>5. clicked' \subseteq clicked /\ Disturb(f = current_form)
          /\ UNCHANGED <<current_form, mode, suspended>>
      BY <1>2, <2>2, <3>3 DEF Cut
    <3>6. QED
      BY <3>1, <3>2, <3>3, <3>4, <3>5 DEF CutBy
  <2>3. CASE Clear(c)
    <3>1. NextIs(r, "clear")
      BY <1>2, <2>3 DEF Clear
    <3>2. Busy(r) /\ Left(r) > 0 /\ At(r) = 2 /\ Todo(r, 1) = <<"clear", f>>
      BY <1>1, <3>1, ClearIs DEF f
    <3>3. Op(c)[2] = f
      BY <1>2, <3>2
    <3>4. QED
      BY <2>3, <3>1, <3>2, <3>3 DEF Clear, ClearBy
  <2>4. CASE Bind(c)
    <3>1. NextIs(r, "bind")
      BY <1>2, <2>4 DEF Bind
    <3>2. /\ Busy(r) /\ Left(r) > 0
          /\ \/ At(r) \in 3 .. Labels[f] + 2 /\ Todo(r, 1) = <<"bind", f, "labels">>
             \/ At(r) \in Labels[f] + 3 .. Elements(f) + 2 /\ Todo(r, 1) = <<"bind", f, "buttons">>
      BY <1>1, <3>1, BindIs DEF f
    <3>3. PICK kind \in Kinds :
            /\ \/ kind = "labels" /\ At(r) \in 3 .. Labels[f] + 2
               \/ kind = "buttons" /\ At(r) \in Labels[f] + 3 .. Elements(f) + 2
            /\ Todo(r, 1)[2] = f /\ Todo(r, 1)[3] = kind
      <4>1. "labels" \in Kinds /\ "buttons" \in Kinds
        BY DEF Kinds
      <4>2. CASE At(r) \in 3 .. Labels[f] + 2 /\ Todo(r, 1) = <<"bind", f, "labels">>
        <5>1. Todo(r, 1)[2] = f /\ Todo(r, 1)[3] = "labels"
          BY <4>2
        <5>2. QED
          BY <4>1, <4>2, <5>1, Zenon
      <4>3. CASE At(r) \in Labels[f] + 3 .. Elements(f) + 2 /\ Todo(r, 1) = <<"bind", f, "buttons">>
        <5>1. Todo(r, 1)[2] = f /\ Todo(r, 1)[3] = "buttons"
          BY <4>3
        <5>2. QED
          BY <4>1, <4>3, <5>1, Zenon
      <4>4. QED
        BY <3>2, <4>2, <4>3
    <3>4. Op(c)[2] = f /\ Op(c)[3] = kind
      BY <1>2, <3>3
    <3>5. /\ lists' = [lists EXCEPT ![f][kind] = [number |-> @.number + 1, linked |-> @.linked + 1]]
          /\ Disturb(FALSE) /\ UNCHANGED <<current_form, clicked, mode, suspended>>
      BY <2>4, <3>4 DEF Bind
    <3>6. QED
      BY <3>1, <3>2, <3>3, <3>5 DEF BindBy
  <2>5. CASE Display(c)
    <3>1. NextIs(r, "show")
      BY <1>2, <2>5 DEF Display
    <3>2. /\ Left(r) > 0
          /\ \/ Busy(r) /\ At(r) = Elements(f) + 3 /\ Todo(r, 1) = <<"show", f>>
             \/ ~Opens(r.button) /\ Todo(r, 1) = <<"show", Back(r.button)>>
      BY <1>1, <3>1, ShowIs DEF f
    <3>3. PICK g : g = Todo(r, 1)[2]
      OBVIOUS
    <3>4. Busy(r) => f \in Forms
      BY DEF Busy, Opens, f
    <3>5. g \in Forms /\ \/ Busy(r) /\ At(r) = Elements(f) + 3 /\ g = f
                         \/ ~Opens(r.button) /\ g = Back(r.button)
      <4>1. r.button \in AllButtons
        BY <1>1, RecordIs
      <4>2. Back(r.button) \in Forms
        BY <4>1, BackIs
      <4>3. QED
        BY <3>2, <3>3, <3>4, <4>2
    <3>6. Op(c)[2] = g
      BY <1>2, <3>3
    <3>7. QED
      BY <2>5, <3>1, <3>2, <3>5, <3>6 DEF Display, ShowBy
  <2>6. CASE Send(c)
    <3>1. NextIs(r, "send") /\ command' = Todo(r, 1)[2]
          /\ UNCHANGED <<forms, clicked, size, suspended, shorter, torn>>
      BY <1>2, <2>6 DEF Send
    <3>2. Sizing(r.button) /\ ~Busy(r)
      BY <1>1, <3>1, OtherIs DEF NextIs
    <3>3. QED
      BY <3>1, <3>2 DEF SendBy
  <2>7. CASE SetSize(c)
    <3>1. NextIs(r, "size") /\ size' = Todo(r, 1)[2]
          /\ UNCHANGED <<forms, clicked, command, suspended, shorter, torn>>
      BY <1>2, <2>7 DEF SetSize
    <3>2. Sizing(r.button) /\ ~Busy(r)
      BY <1>1, <3>1, OtherIs DEF NextIs
    <3>3. QED
      BY <3>1, <3>2 DEF SizeBy
  <2>8. CASE Suspend(c) \/ Calibrate(c) \/ Resume(c)
    <3>1. /\ NextIs(r, "suspend") \/ NextIs(r, "calibrate") \/ NextIs(r, "resume")
          /\ UNCHANGED <<forms, clicked, mode, shorter, torn>>
          /\ \/ UNCHANGED suspended
             \/ NextIs(r, "suspend") /\ suspended' = TRUE
             \/ NextIs(r, "resume") /\ suspended' = FALSE
      BY <1>2, <2>8 DEF Suspend, Calibrate, Resume
    <3>2. /\ r.button = <<"touch", 1>> /\ ~Busy(r)
          /\ ~NextIs(r, "show") /\ ~NextIs(r, "send") /\ ~NextIs(r, "size")
      BY <1>1, <3>1, OtherIs DEF NextIs
    <3>3. QED
      BY <3>1, <3>2 DEF RestBy, mode
  <2>9. QED
    BY <2>1, <2>2, <2>3, <2>4, <2>5, <2>6, <2>7, <2>8 DEF gui_callback_task
<1>6. QED
  BY <1>3, <1>4, <1>5 DEF Effect, r

-----------------------------------------------------------------------------
(* The types.                                                              *)
LEMMA AmountIs ==
  ASSUME NEW f \in Forms
  PROVE  /\ Amount(f, "labels") = Labels[f] /\ Amount(f, "buttons") = Len(Buttons[f])
         /\ Amount(f, "labels") \in 0 .. 8 /\ Amount(f, "buttons") \in 1 .. 4
<1>1. Amount(f, "labels") = Labels[f] /\ Amount(f, "buttons") = Len(Buttons[f])
  BY DEF Amount
<1>2. QED
  BY <1>1, FormFacts

LEMMA ListsAre ==
  ASSUME ListTypes, NEW f \in Forms, NEW kind \in Kinds
  PROVE  /\ lists[f][kind].number \in 0 .. Amount(f, kind)
         /\ lists[f][kind].linked \in 0 .. Amount(f, kind)
         /\ lists[f] \in [Kinds -> [number : Nat, linked : Nat]]
         /\ lists[f][kind] \in [number : Nat, linked : Nat]
<1>1. lists[f] \in [Kinds -> [number : Nat, linked : Nat]]
  BY DEF ListTypes
<1>2. lists[f][kind] \in [number : Nat, linked : Nat]
  BY <1>1
<1>3. PICK n \in Nat, m \in Nat : n = lists[f][kind].number /\ m = lists[f][kind].linked
  BY <1>2
<1>4. n <= Amount(f, kind) /\ m <= Amount(f, kind)
  BY <1>3 DEF ListTypes
<1>5. Amount(f, kind) \in Nat
  BY FormFacts DEF Amount
<1>6. QED
  BY <1>1, <1>2, <1>3, <1>4, <1>5

(* The button an update has a pointer to.                                  *)
LEMMA InListIs ==
  ASSUME ListTypes, NEW f \in Forms, NEW n \in Nat \ {0}, tmp = <<f, n>>, InList("buttons")
  PROVE  tmp \in AllButtons
<1>1. "buttons" \in Kinds
  BY DEF Kinds
<1>2. n <= lists[f]["buttons"].linked
  BY DEF InList
<1>3. lists[f]["buttons"].linked \in 0 .. Amount(f, "buttons")
  BY <1>1, ListsAre
<1>4. Amount(f, "buttons") = Len(Buttons[f]) /\ Amount(f, "buttons") \in 1 .. 4
  BY AmountIs
<1>5. PICK a \in Nat, b \in Nat : a = lists[f]["buttons"].linked /\ b = Len(Buttons[f])
  BY <1>3, <1>4
<1>6. a <= b /\ n <= a
  BY <1>2, <1>3, <1>4, <1>5
<1>7. n \in DOMAIN Buttons[f]
  BY <1>5, <1>6, FormFacts
<1>8. QED
  BY <1>7 DEF AllButtons

LEMMA PointerIs ==
  ASSUME UpdateTypes, tmp # NoButton
  PROVE  tmp[1] \in Forms /\ tmp[2] \in Nat \ {0} /\ tmp = <<tmp[1], tmp[2]>>
<1>1. tmp \in Forms \X (Nat \ {0})
  BY DEF UpdateTypes, PointerTypes
<1>2. QED
  BY <1>1

(* Everything but a step of a callback.                                    *)
Other ==
  \/ \E p \in Places : Touch(p)
  \/ Lift \/ touchscan_task \/ guiupdate_task \/ UNCHANGED vars

OtherPens == (\E p \in Places : Touch(p)) \/ Lift \/ touchscan_task \/ UNCHANGED vars

LEMMA NotAButton ==
  ASSUME NEW f, NEW n \in Nat \ {0}
  PROVE  <<f, n>> # NoButton
BY DEF NoButton

LEMMA PenStep ==
  ASSUME PenTypes, Other
  PROVE  PenTypes'
<1> USE DEF PenTypes
<1>1. ASSUME NEW p \in Places, Touch(p) PROVE PenTypes'
  BY <1>1 DEF Touch, mode
<1>2. CASE Lift
  BY <1>2 DEF Lift, mode, history
<1>3. CASE Wake
  BY <1>3 DEF Wake, mode, history
<1>4. CASE Mask
  BY <1>4 DEF Mask, mode, history
<1>5. CASE Scan
  <2>1. /\ touch_pc' = "release" /\ pos' \in Places \cup {Nowhere} /\ failed' \in BOOLEAN
        /\ queue' = IF Len(queue) < QueueLength THEN Append(queue, pos') ELSE queue
        /\ UNCHANGED <<pen, masked, event, mode, suspended, hurried, shorter, outside, torn, astray>>
    BY <1>5 DEF Scan
  <2>2. queue' \in Seq(Places \cup {Nowhere}) /\ Len(queue') <= QueueLength
    <3>1. PICK x \in Places \cup {Nowhere} : x = pos'
      BY <2>1
    <3>2. CASE Len(queue) < QueueLength
      <4>1. queue' = Append(queue, x)
        BY <2>1, <3>1, <3>2
      <4>2. Append(queue, x) \in Seq(Places \cup {Nowhere}) /\ Len(Append(queue, x)) = Len(queue) + 1
        OBVIOUS
      <4>3. Len(queue) \in Nat /\ QueueLength \in Nat
        BY TouchGuiAssumption
      <4>4. QED
        BY <3>2, <4>1, <4>2, <4>3
    <3>3. CASE ~(Len(queue) < QueueLength)
      BY <2>1, <3>3
    <3>4. QED
      BY <3>2, <3>3
  <2>3. QED
    BY <2>1, <2>2 DEF mode
<1>6. CASE Unmask
  BY <1>6, ZenonT(60) DEF Unmask, mode, history
<1>7. CASE Begin
  <2>1. /\ queue' = IF queue = <<>> THEN <<>> ELSE Tail(queue)
        /\ shorter' \in BOOLEAN
        /\ UNCHANGED <<pens, suspended, mode, hurried, failed, outside, torn, astray>>
    BY <1>7 DEF Begin
  <2>2. queue' \in Seq(Places \cup {Nowhere}) /\ Len(queue') <= QueueLength
    <3>1. CASE queue = <<>>
      BY <2>1, <3>1
    <3>2. CASE queue # <<>>
      <4>1. Tail(queue) \in Seq(Places \cup {Nowhere}) /\ Len(Tail(queue)) = Len(queue) - 1
        BY <3>2
      <4>2. Len(queue) \in Nat /\ QueueLength \in Nat
        BY TouchGuiAssumption
      <4>3. QED
        BY <2>1, <3>2, <4>1, <4>2
    <3>3. QED
      BY <3>1, <3>2
  <2>3. QED
    BY <2>1, <2>2 DEF pens, mode
<1>8. CASE Create
  <2>1. shorter' \in BOOLEAN /\ UNCHANGED <<pens, queue, suspended, mode, hurried, failed, outside, torn, astray>>
    BY <1>8 DEF Create
  <2>2. QED
    BY <2>1 DEF pens, mode
<1>9. CASE Leave
  BY <1>9 DEF Leave, UnchangedByUpdate, pens, mode
<1>10. CASE ReadButtonNum \/ ReadLabelNum \/ ReadFirst \/ Mark \/ ReadAgain \/ Draw \/ DrawLabel
  <2>1. UnchangedByUpdate /\ UNCHANGED outside
    BY <1>10 DEF ReadButtonNum, ReadLabelNum, ReadFirst, Mark, ReadAgain, Draw, DrawLabel
  <2>2. QED
    BY <2>1 DEF UnchangedByUpdate, pens, mode
<1>11. CASE UNCHANGED vars
  BY <1>11 DEF vars, pens, mode, history
<1>12. QED
  BY <1>1, <1>2, <1>3, <1>4, <1>5, <1>6, <1>7, <1>8, <1>9, <1>10, <1>11
     DEF Other, touchscan_task, guiupdate_task

(* The types of the update, after a step that leaves the rest of them.     *)
LEMMA TypesStay ==
  ASSUME UpdateTypes, CounterTypes', PointerTypes',
         gui_pc' \in {"number", "label number", "mark first", "mark", "number again",
                      "draw first", "draw", "label first", "label", "create", "lost"},
         UNCHANGED <<item, current_form>>,
         pressed_button' \in AllButtons \cup {NoButton}, clicked' \subseteq AllButtons
  PROVE  UpdateTypes'
BY DEF UpdateTypes

LEMMA UpdateStep ==
  ASSUME PenTypes, UpdateTypes, ListTypes, Other
  PROVE  UpdateTypes'
<1> DEFINE Kept == UNCHANGED <<gui_pc, item, counter, label_counter, tmp, pressed_button,
                               clicked, current_form>>
<1>0. /\ counter \in 0 .. 4 /\ label_counter \in 0 .. 8 /\ current_form \in Forms
      /\ pressed_button \in AllButtons \cup {NoButton} /\ clicked \subseteq AllButtons
      /\ tmp = NoButton \/ tmp \in Forms \X (Nat \ {0})
  BY DEF UpdateTypes, CounterTypes, PointerTypes
<1>1. CASE OtherPens
  <2>1. Kept
    BY <1>1 DEF OtherPens, Touch, Lift, touchscan_task, Wake, Mask, Scan, Unmask, update, forms,
                vars
  <2>2. QED
    BY <2>1 DEF UpdateTypes, CounterTypes, PointerTypes
<1>2. CASE Begin
  <2>1. /\ gui_pc' = "number" /\ item' = (IF queue = <<>> THEN Nowhere ELSE Head(queue))
        /\ pressed_button' = NoButton /\ gui_pc = "delay"
        /\ UNCHANGED <<counter, label_counter, tmp, clicked, current_form>>
    BY <1>2 DEF Begin, forms
  <2>2. item' \in Places \cup {Nowhere}
    BY <2>1 DEF PenTypes
  <2>3. CounterTypes' /\ PointerTypes'
    BY <1>0, <2>1 DEF UpdateTypes, CounterTypes, PointerTypes
  <2>4. QED
    BY <1>0, <2>1, <2>2, <2>3 DEF UpdateTypes
<1>3. CASE Create
  <2>1. /\ gui_pc' = "delay" /\ item' = Nowhere /\ pressed_button' = NoButton
        /\ tmp' = NoButton /\ counter' = 0 /\ label_counter' = 0
        /\ UNCHANGED <<clicked, current_form>>
    BY <1>3 DEF Create, forms
  <2>2. CounterTypes' /\ PointerTypes'
    BY <2>1 DEF CounterTypes, PointerTypes
  <2>3. QED
    BY <1>0, <2>1, <2>2 DEF UpdateTypes
<1>4. CASE ReadButtonNum \/ ReadAgain
  <2>1. /\ gui_pc' \in {"label number", "draw first"}
        /\ counter' = lists[current_form]["buttons"].number
        /\ UNCHANGED <<item, label_counter, tmp, pressed_button, clicked, current_form>>
    BY <1>4 DEF ReadButtonNum, ReadAgain, Displayed, UnchangedByUpdate, forms
  <2>2. counter' \in 0 .. 4
    <3>1. "buttons" \in Kinds
      BY DEF Kinds
    <3>2. PICK n \in Nat : n = lists[current_form]["buttons"].number /\ n \in 0 .. Amount(current_form, "buttons")
      BY <1>0, <3>1, ListsAre
    <3>3. PICK m \in 1 .. 4 : m = Amount(current_form, "buttons")
      BY <1>0, AmountIs
    <3>4. n \in 0 .. 4
      BY <3>2, <3>3
    <3>5. QED
      BY <2>1, <3>2, <3>4
  <2>3. CounterTypes' /\ PointerTypes'
    BY <1>0, <2>1, <2>2 DEF CounterTypes, PointerTypes
  <2>4. QED
    BY <1>0, <2>1, <2>3, TypesStay
<1>5. CASE ReadLabelNum
  <2>1. /\ label_counter' = lists[current_form]["labels"].number
        /\ UNCHANGED <<item, counter, tmp, pressed_button, clicked, current_form>>
    BY <1>5 DEF ReadLabelNum, Displayed, UnchangedByUpdate, forms
  <2>2. label_counter' \in 0 .. 8
    <3>1. "labels" \in Kinds
      BY DEF Kinds
    <3>2. PICK n \in Nat : n = lists[current_form]["labels"].number /\ n \in 0 .. Amount(current_form, "labels")
      BY <1>0, <3>1, ListsAre
    <3>3. PICK m \in 0 .. 8 : m = Amount(current_form, "labels")
      BY <1>0, AmountIs
    <3>4. n \in 0 .. 8
      BY <3>2, <3>3
    <3>5. QED
      BY <2>1, <3>2, <3>4
  <2>3. PICK m \in 0 .. 8 : m = label_counter'
    BY <2>2
  <2>4. \/ gui_pc' = "mark first" /\ counter > 0
        \/ gui_pc' = "label first" /\ m > 0
        \/ gui_pc' = "create"
    <3>1. gui_pc' = CASE counter # 0        -> "mark first"
                    [] counter = 0 /\ m # 0 -> "label first"
                    [] OTHER                -> "create"
      BY <1>5, <2>3 DEF ReadLabelNum
    <3>2. counter = 0 \/ counter > 0
      BY <1>0
    <3>3. m = 0 \/ m > 0
      OBVIOUS
    <3>4. CASE counter # 0
      <4>1. gui_pc' = "mark first"
        BY <3>1, <3>4
      <4>2. QED
        BY <3>2, <3>4, <4>1
    <3>5. CASE counter = 0 /\ m # 0
      <4>1. gui_pc' = "label first"
        BY <3>1, <3>5
      <4>2. QED
        BY <3>3, <3>5, <4>1
    <3>6. CASE counter = 0 /\ m = 0
      BY <3>1, <3>6
    <3>7. QED
      BY <3>4, <3>5, <3>6
  <2>5. CounterTypes'
    BY <1>0, <2>1, <2>3, <2>4 DEF CounterTypes
  <2>6. PointerTypes'
    BY <1>0, <2>1, <2>4 DEF PointerTypes
  <2>7. QED
    BY <1>0, <2>1, <2>4, <2>5, <2>6, TypesStay
<1>6. CASE ReadFirst
  <2>1. /\ tmp' = <<current_form, 1>>
        /\ \/ gui_pc = "mark first" /\ gui_pc' = "mark"
           \/ gui_pc = "draw first" /\ gui_pc' = IF counter = 0 THEN AfterDraw ELSE "draw"
           \/ gui_pc = "label first" /\ gui_pc' = "label"
        /\ UNCHANGED <<item, counter, label_counter, pressed_button, clicked, current_form>>
    BY <1>6 DEF ReadFirst, UnchangedByUpdate, forms
  <2>2. /\ gui_pc = "mark first" => counter > 0
        /\ gui_pc = "label first" => label_counter > 0
    BY DEF UpdateTypes, CounterTypes
  <2>3. (counter = 0 \/ counter > 0) /\ (label_counter = 0 \/ label_counter > 0)
    BY <1>0
  <2>4. \/ gui_pc' = "mark" /\ counter > 0
        \/ gui_pc' = "draw" /\ counter > 0
        \/ gui_pc' \in {"label first", "label"} /\ label_counter > 0
        \/ gui_pc' = "create"
    BY <2>1, <2>2, <2>3, Zenon DEF AfterDraw
  <2>5. tmp' \in Forms \X (Nat \ {0}) /\ tmp' # NoButton
    <3>1. 1 \in Nat \ {0}
      OBVIOUS
    <3>2. QED
      BY <1>0, <2>1, <3>1, NotAButton
  <2>6. CounterTypes'
    BY <1>0, <2>1, <2>4 DEF CounterTypes
  <2>7. PointerTypes'
    BY <2>4, <2>5 DEF PointerTypes
  <2>8. QED
    BY <1>0, <2>1, <2>4, <2>6, <2>7, TypesStay
<1>7. CASE Mark \/ Draw
  <2>1. /\ gui_pc \in {"mark", "draw"} /\ InList("buttons")
        /\ tmp' = <<tmp[1], tmp[2] + 1>> /\ counter' = counter - 1
        /\ \/ gui_pc' \in {"mark", "draw"} /\ counter' # 0
           \/ gui_pc' \in {"number again", AfterDraw}
        /\ pressed_button' \in {pressed_button, tmp} /\ clicked' \subseteq clicked \cup {tmp}
        /\ UNCHANGED <<item, label_counter, current_form>>
    BY <1>7 DEF Mark, Draw, UnchangedByUpdate, forms, AfterMark
  <2>2. tmp # NoButton /\ counter > 0
    BY <2>1 DEF UpdateTypes, PointerTypes, CounterTypes
  <2>3. tmp[1] \in Forms /\ tmp[2] \in Nat \ {0} /\ tmp = <<tmp[1], tmp[2]>>
    BY <2>2, PointerIs
  <2>4. tmp \in AllButtons
    BY <2>1, <2>3, InListIs
  <2>5. tmp' \in Forms \X (Nat \ {0}) /\ tmp' # NoButton
    <3>1. tmp[2] + 1 \in Nat \ {0}
      BY <2>3
    <3>2. QED
      BY <2>1, <2>3, <3>1, NotAButton
  <2>6. PICK k \in 0 .. 4 : k = counter'
    <3>1. counter' = counter - 1
      BY <2>1
    <3>2. QED
      BY <1>0, <2>2, <3>1
  <2>7. (k = 0 \/ k > 0) /\ (label_counter = 0 \/ label_counter > 0)
    BY <1>0
  <2>8. \/ gui_pc' \in {"mark", "draw"} /\ k > 0
        \/ gui_pc' = "label first" /\ label_counter > 0
        \/ gui_pc' \in {"number again", "create"}
    BY <2>1, <2>6, <2>7, Zenon DEF AfterDraw
  <2>9. pressed_button' \in AllButtons \cup {NoButton} /\ clicked' \subseteq AllButtons
    BY <1>0, <2>1, <2>4
  <2>10. CounterTypes'
    BY <1>0, <2>1, <2>6, <2>8 DEF CounterTypes
  <2>11. PointerTypes'
    BY <2>5, <2>8 DEF PointerTypes
  <2>12. QED
    BY <2>1, <2>8, <2>9, <2>10, <2>11, TypesStay
<1>8. CASE DrawLabel
  <2>1. /\ gui_pc = "label" /\ tmp' = <<tmp[1], tmp[2] + 1>> /\ label_counter' = label_counter - 1
        /\ (gui_pc' = "label" /\ label_counter' # 0) \/ gui_pc' = "create"
        /\ UNCHANGED <<item, counter, pressed_button, clicked, current_form>>
    BY <1>8 DEF DrawLabel, UnchangedByUpdate, forms
  <2>2. tmp # NoButton /\ label_counter > 0
    BY <2>1 DEF UpdateTypes, PointerTypes, CounterTypes
  <2>3. tmp[1] \in Forms /\ tmp[2] \in Nat \ {0}
    BY <2>2, PointerIs
  <2>4. tmp' \in Forms \X (Nat \ {0}) /\ tmp' # NoButton
    <3>1. tmp[2] + 1 \in Nat \ {0}
      BY <2>3
    <3>2. QED
      BY <2>1, <2>3, <3>1, NotAButton
  <2>5. PICK k \in 0 .. 8 : k = label_counter'
    BY <1>0, <2>1, <2>2
  <2>6. (gui_pc' = "label" /\ k > 0) \/ gui_pc' = "create"
    BY <2>1, <2>5
  <2>7. CounterTypes'
    BY <1>0, <2>1, <2>5, <2>6 DEF CounterTypes
  <2>8. PointerTypes'
    BY <2>4, <2>6 DEF PointerTypes
  <2>9. QED
    BY <1>0, <2>1, <2>6, <2>7, <2>8, TypesStay
<1>9. CASE Leave
  <2>1. gui_pc' = "lost" /\ UNCHANGED <<item, counter, label_counter, tmp, pressed_button, clicked, current_form>>
    BY <1>9 DEF Leave, UnchangedByUpdate, forms
  <2>2. CounterTypes' /\ PointerTypes'
    BY <1>0, <2>1 DEF CounterTypes, PointerTypes
  <2>3. QED
    BY <1>0, <2>1, <2>2, TypesStay
<1>10. QED
  BY <1>1, <1>2, <1>3, <1>4, <1>5, <1>6, <1>7, <1>8, <1>9 DEF Other, OtherPens, guiupdate_task

-----------------------------------------------------------------------------
(* The order of the tasks and their lists.                                 *)
Kin(u, v) == u.button = v.button /\ u.done = v.done

(* What the other steps leave of the tasks: they add at most a new one.    *)
Keeps ==
  /\ \A v \in Tasks : \E u \in Tasks' : Kin(u, v)
  /\ \A u \in Tasks' : \/ \E v \in Tasks : Kin(u, v)
                       \/ u.done = 0 /\ u.button = pressed_button /\ pressed_button # NoButton

LEMMA KinIs ==
  ASSUME NEW u, NEW v, Kin(u, v)
  PROVE  /\ At(u) = At(v) /\ Left(u) = Left(v)
         /\ \A k : Todo(u, k) = Todo(v, k)
         /\ \A op : NextIs(u, op) <=> NextIs(v, op)
         /\ \A f : Making(u, f) <=> Making(v, f)
         /\ Underway(u) <=> Underway(v)
         /\ Calibration(u) <=> Calibration(v)
         /\ Harmless(u) <=> Harmless(v)
         /\ FormAt(u) = FormAt(v)
         /\ WideAt(u) <=> WideAt(v)
         /\ Wide(u) <=> Wide(v)
<1> USE DEF Kin
<1>1. At(u) = At(v) /\ Left(u) = Left(v)
  BY DEF At, Left
<1>2. \A k : Todo(u, k) = Todo(v, k)
  BY DEF Todo
<1>3. \A op : NextIs(u, op) <=> NextIs(v, op)
  BY <1>1, <1>2, Zenon DEF NextIs
<1>4. \A f : Making(u, f) <=> Making(v, f)
  BY <1>1, Zenon DEF Making
<1>5. (Underway(u) <=> Underway(v)) /\ (Calibration(u) <=> Calibration(v))
  BY DEF Underway, Calibration
<1>6. Harmless(u) <=> Harmless(v)
  BY <1>1, <1>2, Zenon DEF Harmless
<1>7. FormAt(u) = FormAt(v) /\ (WideAt(u) <=> WideAt(v))
  BY Zenon DEF FormAt, WideAt
<1>8. Wide(u) <=> Wide(v)
  BY <1>2, SMTT(30) DEF Wide
<1>9. QED
  BY <1>1, <1>2, <1>3, <1>4, <1>5, <1>6, <1>7, <1>8

LEMMA TasksAre ==
  /\ \A u : u \in Tasks <=> \E i \in DOMAIN callbacks : u = callbacks[i]
  /\ \A u : u \in Tasks' <=> \E i \in DOMAIN callbacks' : u = callbacks'[i]
BY DEF Tasks, Range

LEMMA TasksTyped ==
  /\ OrderInv => \A u \in Tasks : u \in Record
  /\ OrderInv' => \A u \in Tasks' : u \in Record
<1>1. ASSUME OrderInv PROVE \A u \in Tasks : u \in Record
  <2>1. callbacks \in Seq(Record)
    BY <1>1 DEF OrderInv, InOrder
  <2>2. QED
    BY <2>1, TasksAre
<1>2. ASSUME OrderInv' PROVE \A u \in Tasks' : u \in Record
  <2>1. callbacks' \in Seq(Record)
    BY <1>2 DEF OrderInv, InOrder
  <2>2. QED
    BY <2>1, TasksAre
<1>3. QED
  BY <1>1, <1>2

LEMMA BeginTasks ==
  ASSUME OrderInv, Begin
  PROVE  OrderInv' /\ Keeps
<1> DEFINE n == Len(callbacks)
<1>1. callbacks \in Seq(Record) /\ n \in Nat /\ DOMAIN callbacks = 1 .. n
  BY DEF OrderInv, InOrder
<1>2. /\ callbacks' = [c \in 1 .. n |-> [callbacks[c] EXCEPT !.new = FALSE]]
      /\ \A c \in 1 .. n : callbacks[c].new \/ AtStep(c, "calibrate")
  BY <1>1 DEF Begin
<1>3. \A c \in 1 .. n : callbacks[c] \in Record
  BY <1>1
<1>4. \A r \in Record : /\ [r EXCEPT !.new = FALSE] \in Record
                        /\ Kin([r EXCEPT !.new = FALSE], r) /\ ~[r EXCEPT !.new = FALSE].new
  BY DEF Record, Kin
<1>5. \A c \in 1 .. n : callbacks'[c] \in Record /\ Kin(callbacks'[c], callbacks[c]) /\ ~callbacks'[c].new
  BY <1>2, <1>3, <1>4
<1>6. callbacks' \in Seq(Record) /\ Len(callbacks') = n /\ DOMAIN callbacks' = 1 .. n
  <2>1. \A c \in 1 .. n : [callbacks[c] EXCEPT !.new = FALSE] \in Record
    BY <1>3, <1>4
  <2>2. PICK m \in Nat : m = n
    BY <1>1
  <2>3. \A c \in 1 .. m : [callbacks[c] EXCEPT !.new = FALSE] \in Record
    BY <2>1, <2>2
  <2>4. callbacks' = [c \in 1 .. m |-> [callbacks[c] EXCEPT !.new = FALSE]]
    BY <1>2, <2>2
  <2>5. callbacks' \in Seq(Record) /\ Len(callbacks') = m /\ DOMAIN callbacks' = 1 .. m
    BY <2>3, <2>4
  <2>6. QED
    BY <2>2, <2>5
<1>7. ASSUME NEW c \in 1 .. n, callbacks'[c].done > 0 PROVE Left(callbacks'[c]) > 0
  <2>1. callbacks[c].done > 0 /\ Left(callbacks'[c]) = Left(callbacks[c])
    BY <1>5, <1>7, KinIs DEF Kin
  <2>2. QED
    BY <1>1, <2>1 DEF OrderInv, InOrder
<1>8. ASSUME NEW c \in 1 .. n, NEW d \in 1 .. n, c < d PROVE Calibration(callbacks'[c])
  <2>1. ~callbacks[c].new
    <3>1. callbacks[c].new => c = n
      BY <1>1 DEF OrderInv, InOrder
    <3>2. PICK m \in Nat : m = n
      BY <1>1
    <3>3. c # m
      BY <1>8, <3>2
    <3>4. QED
      BY <3>1, <3>2, <3>3
  <2>2. NextIs(callbacks[c], "calibrate")
    BY <1>2, <1>3, <2>1, Named
  <2>3. Calibration(callbacks[c])
    BY <1>3, <2>2, CalibrateIs
  <2>4. QED
    BY <1>5, <2>3, KinIs
<1>9. InOrder(callbacks')
  BY <1>5, <1>6, <1>7, <1>8 DEF InOrder
<1>10. \A r \in Tasks' : ~r.new
  BY <1>5, <1>6, TasksAre
<1>11. Keeps
  <2>1. ASSUME NEW v \in Tasks PROVE \E u \in Tasks' : Kin(u, v)
    <3>1. PICK i \in 1 .. n : v = callbacks[i]
      BY <1>1, TasksAre
    <3>2. callbacks'[i] \in Tasks'
      BY <1>6, TasksAre
    <3>3. QED
      BY <1>5, <3>1, <3>2
  <2>2. ASSUME NEW u \in Tasks' PROVE \E v \in Tasks : Kin(u, v)
    <3>1. PICK i \in 1 .. n : u = callbacks'[i]
      BY <1>6, TasksAre
    <3>2. callbacks[i] \in Tasks
      BY <1>1, TasksAre
    <3>3. QED
      BY <1>5, <3>1, <3>2
  <2>3. QED
    BY <2>1, <2>2 DEF Keeps
<1>12. QED
  BY <1>9, <1>10, <1>11 DEF OrderInv

LEMMA CreateTasks ==
  ASSUME OrderInv, UpdateTypes, Create
  PROVE  OrderInv' /\ Keeps
<1> DEFINE n == Len(callbacks)
           r == [button |-> pressed_button, done |-> 0, new |-> TRUE]
<1>1. /\ callbacks \in Seq(Record) /\ n \in Nat /\ DOMAIN callbacks = 1 .. n
      /\ InOrder(callbacks)
  BY DEF OrderInv, InOrder
<1>2. Updating /\ gui_pc' = "delay" /\ ~Updating'
  BY DEF Create, Updating
<1>3. CASE pressed_button = NoButton
  <2>1. callbacks' = callbacks
    BY <1>3 DEF Create
  <2>2. InOrder(callbacks')
    BY <1>1, <2>1
  <2>3. Tasks' = Tasks
    BY <2>1 DEF Tasks
  <2>4. Keeps
    BY <2>3 DEF Keeps, Kin
  <2>5. QED
    BY <1>2, <2>2, <2>4 DEF OrderInv
<1>4. CASE pressed_button # NoButton
  <2>1. callbacks' = Append(callbacks, r)
    BY <1>4 DEF Create
  <2>2. r \in Record
    BY <1>4 DEF UpdateTypes, Record
  <2>3. r.done = 0 /\ r.button = pressed_button /\ r.new
    OBVIOUS
  <2> HIDE DEF r
  <2>4. /\ callbacks' \in Seq(Record) /\ Len(callbacks') = n + 1 /\ DOMAIN callbacks' = 1 .. n + 1
        /\ callbacks'[n + 1] = r /\ \A i \in 1 .. n : callbacks'[i] = callbacks[i]
    BY <1>1, <2>1, <2>2
  <2>5. \A i \in 1 .. n + 1 : i \in 1 .. n \/ i = n + 1
    BY <1>1
  <2>6. \A i \in 1 .. n : ~callbacks[i].new
    BY <1>1, <1>2, TasksAre DEF OrderInv
  <2>7. ASSUME NEW i \in 1 .. n + 1, callbacks'[i].done > 0 PROVE Left(callbacks'[i]) > 0
    <3>1. i \in 1 .. n
      BY <2>3, <2>4, <2>5, <2>7
    <3>2. QED
      BY <1>1, <2>4, <2>7, <3>1 DEF InOrder
  <2>8. ASSUME NEW i \in 1 .. n + 1, callbacks'[i].new PROVE i = n + 1
    BY <2>4, <2>5, <2>6, <2>8
  <2>9. ASSUME NEW i \in 1 .. n + 1, NEW j \in 1 .. n + 1, i < j,
               callbacks'[j].done > 0 \/ ~callbacks'[j].new
        PROVE  Calibration(callbacks'[i])
    <3>1. j \in 1 .. n
      BY <2>3, <2>4, <2>5, <2>9
    <3>2. i \in 1 .. n
      BY <2>9, <3>1
    <3>3. QED
      BY <1>1, <2>4, <2>9, <3>1, <3>2 DEF InOrder
  <2>10. InOrder(callbacks')
    BY <2>4, <2>7, <2>8, <2>9 DEF InOrder
  <2>11. ASSUME NEW v \in Tasks PROVE v \in Tasks'
    BY <1>1, <2>4, <2>5, TasksAre
  <2>12. ASSUME NEW u \in Tasks' PROVE u \in Tasks \/ u = r
    BY <1>1, <2>4, <2>5, TasksAre
  <2>13. Keeps
    BY <1>4, <2>3, <2>11, <2>12 DEF Keeps, Kin
  <2>14. QED
    BY <1>2, <2>10, <2>13 DEF OrderInv
<1>5. QED
  BY <1>3, <1>4

LEMMA OtherTasks ==
  ASSUME OrderInv, UpdateTypes, Other
  PROVE  OrderInv' /\ Keeps
<1>1. CASE Begin
  BY <1>1, BeginTasks
<1>2. CASE Create
  BY <1>2, CreateTasks
<1>3. CASE OtherPens \/ ReadButtonNum \/ ReadLabelNum \/ ReadFirst \/ Mark \/ ReadAgain \/ Draw
           \/ DrawLabel \/ Leave
  <2>1. callbacks' = callbacks /\ (Updating' => Updating)
    <3>1. CASE OtherPens
      BY <3>1 DEF OtherPens, Touch, Lift, touchscan_task, Wake, Mask, Scan, Unmask, vars, Updating
    <3>2. CASE ReadButtonNum \/ ReadLabelNum \/ ReadFirst \/ Mark \/ ReadAgain \/ Draw
               \/ DrawLabel \/ Leave
      BY <3>2 DEF ReadButtonNum, ReadLabelNum, ReadFirst, Mark, ReadAgain, Draw, DrawLabel, Leave,
                  Updating
    <3>3. QED
      BY <1>3, <3>1, <3>2
  <2>2. Tasks' = Tasks
    BY <2>1 DEF Tasks
  <2>3. Keeps
    BY <2>2 DEF Keeps, Kin
  <2>4. OrderInv'
    BY <2>1, <2>2 DEF OrderInv
  <2>5. QED
    BY <2>3, <2>4
<1>4. QED
  BY <1>1, <1>2, <1>3 DEF Other, OtherPens, guiupdate_task

(* The other steps change no list and not the form displayed.              *)
LEMMA OtherLists ==
  ASSUME Other
  PROVE  UNCHANGED <<current_form, lists, size, command, astray>>
<1>1. CASE OtherPens
  BY <1>1 DEF OtherPens, Touch, Lift, touchscan_task, Wake, Mask, Scan, Unmask, vars, forms, mode,
              history
<1>2. CASE Begin \/ Create
  BY <1>2 DEF Begin, Create, forms, mode
<1>3. CASE ReadButtonNum \/ ReadLabelNum \/ ReadFirst \/ Mark \/ ReadAgain \/ Draw
           \/ DrawLabel \/ Leave
  <2>1. UnchangedByUpdate
    BY <1>3 DEF ReadButtonNum, ReadLabelNum, ReadFirst, Mark, ReadAgain, Draw, DrawLabel, Leave
  <2>2. QED
    BY <2>1 DEF UnchangedByUpdate, forms, mode
<1>4. QED
  BY <1>1, <1>2, <1>3 DEF Other, OtherPens, guiupdate_task

-----------------------------------------------------------------------------
(* The lists while they are made.                                          *)
OneList == [Kinds -> [number : Nat, linked : Nat]]

LEMMA MadeIs ==
  ASSUME NEW f \in Forms, NEW l \in OneList
  PROVE  /\ l = Unbound => Made(l, f, 3)
         /\ Made(l, f, Elements(f) + 3) => l = Bound(f)
         /\ \A a \in 3 .. Elements(f) + 2 : Made(l, f, a) => l # Bound(f)
<1>1. PICK n \in Nat, b \in Nat : n = Labels[f] /\ b = Len(Buttons[f]) /\ Elements(f) = n + b
  BY ElementsNat
<1>2. Amount(f, "labels") = n /\ Amount(f, "buttons") = b
  BY <1>1, AmountIs
<1>3. /\ "labels" \in Kinds /\ "buttons" \in Kinds
      /\ \A kind \in Kinds : kind = "labels" \/ kind = "buttons"
  BY DEF Kinds
<1>4. ASSUME l = Unbound PROVE Made(l, f, 3)
  <2>1. /\ l["labels"] = [number |-> 0, linked |-> 0]
        /\ l["buttons"] = [number |-> 0, linked |-> 0]
    BY <1>3, <1>4 DEF Unbound
  <2>2. (IF 3 - 3 < n THEN 3 - 3 ELSE n) = 0
    OBVIOUS
  <2>3. 3 - 3 - 0 = 0
    OBVIOUS
  <2>4. QED
    BY <1>1, <2>1, <2>2, <2>3 DEF Made
<1>5. ASSUME Made(l, f, Elements(f) + 3) PROVE l = Bound(f)
  <2>1. (IF ((n + b) + 3) - 3 < n THEN ((n + b) + 3) - 3 ELSE n) = n
    OBVIOUS
  <2>2. ((n + b) + 3) - 3 - n = b
    OBVIOUS
  <2>3. /\ l["labels"] = [number |-> n, linked |-> n]
        /\ l["buttons"] = [number |-> b, linked |-> b]
    BY <1>1, <1>5, <2>1, <2>2 DEF Made
  <2>4. l = [kind \in Kinds |-> l[kind]]
    BY DEF OneList
  <2>5. ASSUME NEW kind \in Kinds
        PROVE  l[kind] = [number |-> Amount(f, kind), linked |-> Amount(f, kind)]
    BY <1>2, <1>3, <2>3
  <2>6. QED
    BY <2>4, <2>5 DEF Bound
<1>6. ASSUME NEW a \in 3 .. Elements(f) + 2, Made(l, f, a), l = Bound(f) PROVE FALSE
  <2>1. /\ l["labels"].number = n /\ l["buttons"].number = b
    BY <1>2, <1>3, <1>6 DEF Bound
  <2>2. PICK m \in Int : m = (IF a - 3 < n THEN a - 3 ELSE n)
    OBVIOUS
  <2>3. l["labels"].number = m /\ l["buttons"].number = a - 3 - m
    BY <1>1, <1>6, <2>2 DEF Made
  <2>4. m = n /\ a - 3 - m = b
    BY <2>1, <2>3
  <2>5. a \in 3 .. (n + b) + 2
    BY <1>1
  <2>6. QED
    BY <2>4, <2>5
<1>7. QED
  BY <1>4, <1>5, <1>6

(* One more element.                                                       *)
More(x) == [number |-> x.number + 1, linked |-> x.linked + 1]

LEMMA MadeMore ==
  ASSUME NEW f \in Forms, NEW l \in OneList, NEW a \in Int, Made(l, f, a), NEW kind \in Kinds,
         \/ kind = "labels" /\ a \in 3 .. Labels[f] + 2
         \/ kind = "buttons" /\ a \in Labels[f] + 3 .. Elements(f) + 2
  PROVE  /\ Made([l EXCEPT ![kind] = More(l[kind])], f, a + 1)
         /\ More(l[kind]) \in [number : Nat, linked : Nat]
         /\ More(l[kind]).number <= Amount(f, kind) /\ More(l[kind]).linked <= Amount(f, kind)
<1>1. PICK n \in Nat, b \in Nat : n = Labels[f] /\ b = Len(Buttons[f]) /\ Elements(f) = n + b
  BY ElementsNat
<1>2. Amount(f, "labels") = n /\ Amount(f, "buttons") = b
  BY <1>1, AmountIs
<1>3. "labels" \in Kinds /\ "buttons" \in Kinds /\ "labels" # "buttons"
  BY DEF Kinds
<1>4. DOMAIN l = Kinds /\ l[kind] \in [number : Nat, linked : Nat]
  BY DEF OneList
<1> DEFINE k == [l EXCEPT ![kind] = More(l[kind])]
<1>5. CASE kind = "labels" /\ a \in 3 .. Labels[f] + 2
  <2>1. a \in 3 .. n + 2
    BY <1>1, <1>5
  <2>2. /\ (IF a - 3 < n THEN a - 3 ELSE n) = a - 3 /\ a - 3 - (a - 3) = 0
        /\ (IF (a + 1) - 3 < n THEN (a + 1) - 3 ELSE n) = (a - 3) + 1
        /\ (a + 1) - 3 - ((a - 3) + 1) = 0
    BY <2>1
  <2>3. /\ l["labels"] = [number |-> a - 3, linked |-> a - 3]
        /\ l["buttons"] = [number |-> 0, linked |-> 0]
    BY <1>1, <2>2 DEF Made
  <2>4. k["labels"] = More(l["labels"]) /\ k["buttons"] = l["buttons"]
    BY <1>3, <1>4, <1>5
  <2>5. More(l["labels"]) = [number |-> (a - 3) + 1, linked |-> (a - 3) + 1]
    BY <2>3 DEF More
  <2>6. Made(k, f, a + 1)
    <3> HIDE DEF k
    <3>1. QED
      BY <1>1, <2>2, <2>3, <2>4, <2>5 DEF Made
  <2>7. (a - 3) + 1 \in Nat /\ (a - 3) + 1 <= n
    BY <2>1
  <2>8. QED
    BY <1>2, <1>5, <2>5, <2>6, <2>7
<1>6. CASE kind = "buttons" /\ a \in Labels[f] + 3 .. Elements(f) + 2
  <2>1. a \in n + 3 .. (n + b) + 2
    BY <1>1, <1>6
  <2>2. /\ (IF a - 3 < n THEN a - 3 ELSE n) = n
        /\ (IF (a + 1) - 3 < n THEN (a + 1) - 3 ELSE n) = n
        /\ (a + 1) - 3 - n = (a - 3 - n) + 1
    BY <2>1
  <2>3. /\ l["labels"] = [number |-> n, linked |-> n]
        /\ l["buttons"] = [number |-> a - 3 - n, linked |-> a - 3 - n]
    BY <1>1, <2>2 DEF Made
  <2>4. k["buttons"] = More(l["buttons"]) /\ k["labels"] = l["labels"]
    BY <1>3, <1>4, <1>6
  <2>5. More(l["buttons"]) = [number |-> (a - 3 - n) + 1, linked |-> (a - 3 - n) + 1]
    BY <2>3 DEF More
  <2>6. Made(k, f, a + 1)
    <3> HIDE DEF k
    <3>1. QED
      BY <1>1, <2>2, <2>3, <2>4, <2>5 DEF Made
  <2>7. (a - 3 - n) + 1 \in Nat /\ (a - 3 - n) + 1 <= b
    BY <2>1
  <2>8. QED
    BY <1>2, <1>6, <2>5, <2>6, <2>7
<1>7. QED
  BY <1>5, <1>6

(* One list of form f is changed to x.                                     *)
LEMMA ListChanged ==
  ASSUME ListTypes, NEW f \in Forms, NEW kind \in Kinds, NEW x \in [number : Nat, linked : Nat],
         x.number <= Amount(f, kind), x.linked <= Amount(f, kind),
         NEW ls, ls = [lists EXCEPT ![f] = [lists[f] EXCEPT ![kind] = x]]
  PROVE  /\ ls \in [Forms -> OneList]
         /\ \A g \in Forms, k \in Kinds :
              ls[g][k].number <= Amount(g, k) /\ ls[g][k].linked <= Amount(g, k)
         /\ ls[f] = [lists[f] EXCEPT ![kind] = x]
         /\ \A g \in Forms : g # f => ls[g] = lists[g]
<1> DEFINE l == [lists[f] EXCEPT ![kind] = x]
<1>1. lists \in [Forms -> OneList] /\ lists[f] \in OneList
  BY DEF ListTypes, OneList
<1>2. l \in OneList /\ l[kind] = x /\ \A k \in Kinds : k # kind => l[k] = lists[f][k]
  BY <1>1 DEF OneList
<1>3. ls \in [Forms -> OneList] /\ ls[f] = l /\ \A g \in Forms : g # f => ls[g] = lists[g]
  BY <1>1, <1>2
<1> HIDE DEF l
<1>4. ASSUME NEW g \in Forms, NEW k \in Kinds
      PROVE  ls[g][k].number <= Amount(g, k) /\ ls[g][k].linked <= Amount(g, k)
  <2>1. CASE g = f /\ k = kind
    BY <1>2, <1>3, <2>1
  <2>2. CASE ~(g = f /\ k = kind)
    <3>1. ls[g][k] = lists[g][k]
      BY <1>2, <1>3, <2>2
    <3>2. QED
      BY <3>1 DEF ListTypes
  <2>3. QED
    BY <2>1, <2>2
<1>5. QED
  BY <1>3, <1>4 DEF l

(* What a task is doing when it is making a form.                          *)
LEMMA MakingIs ==
  ASSUME NEW r \in Record, NEW f \in Forms, Making(r, f)
  PROVE  /\ Busy(r) /\ Target(r.button) = f /\ Underway(r) /\ ~Calibration(r)
         /\ At(r) \in 1 .. Elements(f) + 3
<1>1. Target(r.button) = f /\ At(r) \in 1 .. Elements(f) + 3
  BY DEF Making
<1>2. Elements(f) \in Nat
  BY ElementsNat
<1>3. At(r) \in 0 .. Elements(f) + 3
  BY <1>1, <1>2
<1>4. Opens(r.button)
  BY <1>1 DEF Opens
<1>5. Busy(r)
  BY <1>1, <1>3, <1>4 DEF Busy
<1>6. r.done > 0
  <2>1. PICK a \in Int, m \in {0, 2} : a = At(r) /\ m = Before(r.button) /\ a + m = r.done
    BY RecordIs
  <2>2. a >= 1
    BY <1>1, <1>2, <2>1
  <2>3. QED
    BY <2>1, <2>2
<1>7. r.button # <<"touch", 1>>
  BY <1>4, TargetIs, FormsAre DEF Opens
<1>8. QED
  BY <1>1, <1>5, <1>6, <1>7 DEF Underway, Calibration

(* Until it displays the form, a task that opens one has more to do.       *)
LEMMA BusyLeft ==
  ASSUME NEW r \in Record, Busy(r)
  PROVE  /\ Target(r.button) \in Forms /\ Left(r) > 0
         /\ At(r) < Elements(Target(r.button)) + 3 => Left(r) > 1
<1> DEFINE f == Target(r.button)
<1>1. Opens(r.button) /\ f \in Forms /\ At(r) \in 0 .. Elements(f) + 3
  BY DEF Busy, Opens
<1>2. r.button \in AllButtons
  BY RecordIs
<1>3. Before(r.button) + Elements(f) + 4 <= Len(Script(r.button))
  BY <1>1, <1>2, EveryShape DEF Shape
<1>4. PICK e \in Nat : e = Elements(f)
  BY <1>1, ElementsNat
<1>5. PICK a \in Int, m \in {0, 2}, n \in Nat, x \in Nat :
        /\ a = At(r) /\ m = Before(r.button) /\ n = Len(Script(r.button)) /\ x = r.done
        /\ a + m = x /\ Left(r) = n - x
  BY RecordIs
<1>6. a \in 0 .. e + 3 /\ m + e + 4 <= n
  BY <1>1, <1>3, <1>4, <1>5
<1>7. n - x > 0 /\ (a < e + 3 => n - x > 1)
  <2>1. a + m = x /\ a \in Int /\ m \in Int /\ x \in Int /\ n \in Int /\ a <= e + 3
    BY <1>5, <1>6, SMTT(30)
  <2>2. x <= m + e + 3 /\ (a < e + 3 => x <= m + e + 2)
    BY <2>1
  <2>3. m + e + 4 <= n
    BY <1>6
  <2>4. QED
    BY <2>1, <2>2, <2>3
<1>8. e + 3 = Elements(f) + 3 /\ At(r) = a /\ Left(r) = n - x
  BY <1>4, <1>5
<1>9. QED
  BY <1>1, <1>4, <1>7, <1>8

(* The step of a task changes the lists of the form it opens only, and     *)
(* only before it displays it.                                             *)
Changes(r) ==
  LET f == Target(r.button) IN
  /\ Busy(r) /\ Left(r) > 1 /\ At(r) \in 0 .. Elements(f) + 2
  /\ \A g \in Forms : g # f => lists'[g] = lists[g]
  /\ UNCHANGED current_form

LEMMA CallbackLists ==
  ASSUME ListInv, NEW r \in Record, r \in Tasks, Effect(r)
  PROVE  /\ ListTypes'
         /\ UNCHANGED lists \/ Changes(r)
         /\ At(r) \in 2 .. Elements(Target(r.button)) + 2 /\ Busy(r) =>
              Made(lists'[Target(r.button)], Target(r.button), At(r) + 1)
<1> DEFINE f == Target(r.button)
           P == /\ ListTypes'
                /\ UNCHANGED lists \/ Changes(r)
                /\ At(r) \in 2 .. Elements(f) + 2 /\ Busy(r) => Made(lists'[f], f, At(r) + 1)
<1>1. ListTypes /\ lists \in [Forms -> OneList]
  BY DEF ListInv, ListTypes, OneList
<1>2. Busy(r) => /\ f \in Forms /\ Opens(r.button) /\ Elements(f) \in Nat
                 /\ At(r) < Elements(f) + 3 => Left(r) > 1
  BY BusyLeft, ElementsNat DEF Busy
<1>3. ASSUME NextIs(r, "cut"), CutBy(r, f) PROVE P
  <2>1. /\ f \in Forms /\ Elements(f) \in Nat /\ At(r) \in {0, 1} /\ Busy(r) /\ Left(r) > 1
        /\ UNCHANGED current_form
    BY <1>2, <1>3 DEF CutBy
  <2>2. PICK kind \in Kinds : lists' = [lists EXCEPT ![f][kind].linked = IF @ = 0 THEN 0 ELSE 1]
    BY <1>3 DEF CutBy
  <2>3. /\ lists[f][kind].number \in 0 .. Amount(f, kind)
        /\ lists[f][kind].linked \in 0 .. Amount(f, kind)
        /\ lists[f][kind] \in [number : Nat, linked : Nat]
    BY <1>1, <2>1, ListsAre
  <2>4. PICK a \in Nat, v \in Nat : a = Amount(f, kind) /\ v = lists[f][kind].linked /\ v <= a
    BY <2>1, <2>3, AmountIs DEF Kinds
  <2>5. PICK w \in Nat : w = (IF v = 0 THEN 0 ELSE 1) /\ w <= a
    BY <2>4
  <2>6. PICK x : x = [lists[f][kind] EXCEPT !.linked = w]
    OBVIOUS
  <2>7. /\ x \in [number : Nat, linked : Nat] /\ x.number <= Amount(f, kind)
        /\ x.linked <= Amount(f, kind)
    <3>1. x.number = lists[f][kind].number /\ x.linked = w /\ x \in [number : Nat, linked : Nat]
      BY <2>3, <2>6
    <3>2. QED
      BY <2>3, <2>4, <2>5, <3>1
  <2>8. lists' = [lists EXCEPT ![f] = [lists[f] EXCEPT ![kind] = x]]
    BY <2>2, <2>4, <2>5, <2>6
  <2>9. /\ lists' \in [Forms -> OneList]
        /\ \A g \in Forms, k \in Kinds :
             lists'[g][k].number <= Amount(g, k) /\ lists'[g][k].linked <= Amount(g, k)
        /\ \A g \in Forms : g # f => lists'[g] = lists[g]
    BY <1>1, <2>1, <2>7, <2>8, ListChanged
  <2>10. ListTypes'
    BY <2>9 DEF ListTypes, OneList
  <2>11. At(r) \in 0 .. Elements(f) + 2 /\ ~(At(r) \in 2 .. Elements(f) + 2)
    BY <2>1
  <2>12. Changes(r)
    BY <2>1, <2>9, <2>11 DEF Changes
  <2>13. QED
    BY <2>10, <2>11, <2>12
<1>4. ASSUME NextIs(r, "clear"), ClearBy(r, f) PROVE P
  <2>1. /\ f \in Forms /\ Elements(f) \in Nat /\ At(r) = 2 /\ Busy(r) /\ Left(r) > 1
        /\ UNCHANGED current_form
    BY <1>2, <1>4 DEF ClearBy
  <2>2. lists' = [lists EXCEPT ![f] = Unbound]
    BY <1>4 DEF ClearBy
  <2>3. Unbound \in OneList /\ \A k \in Kinds : Unbound[k].number = 0 /\ Unbound[k].linked = 0
    BY DEF Unbound, OneList
  <2>4. /\ lists' \in [Forms -> OneList] /\ lists'[f] = Unbound
        /\ \A g \in Forms : g # f => lists'[g] = lists[g]
    BY <1>1, <2>1, <2>2, <2>3
  <2>5. ListTypes'
    <3>1. ASSUME NEW g \in Forms, NEW k \in Kinds
          PROVE  lists'[g][k].number <= Amount(g, k) /\ lists'[g][k].linked <= Amount(g, k)
      <4>1. CASE g = f
        <5>1. Amount(g, k) \in Nat
          BY AmountIs DEF Kinds
        <5>2. QED
          BY <2>3, <2>4, <4>1, <5>1
      <4>2. CASE g # f
        BY <1>1, <2>4, <4>2 DEF ListTypes
      <4>3. QED
        BY <4>1, <4>2
    <3>2. QED
      BY <2>4, <3>1 DEF ListTypes, OneList
  <2>6. At(r) \in 0 .. Elements(f) + 2 /\ At(r) + 1 = 3
    BY <2>1
  <2>7. Made(lists'[f], f, 3)
    BY <2>1, <2>3, <2>4, MadeIs
  <2>8. Changes(r)
    BY <2>1, <2>4, <2>6 DEF Changes
  <2>9. QED
    BY <2>5, <2>6, <2>7, <2>8
<1>5. ASSUME NextIs(r, "bind"), BindBy(r, f) PROVE P
  <2>1. f \in Forms /\ Elements(f) \in Nat /\ Busy(r) /\ UNCHANGED current_form
    BY <1>2, <1>5 DEF BindBy
  <2>2. PICK kind \in Kinds :
          /\ \/ kind = "labels" /\ At(r) \in 3 .. Labels[f] + 2
             \/ kind = "buttons" /\ At(r) \in Labels[f] + 3 .. Elements(f) + 2
          /\ lists' = [lists EXCEPT ![f][kind] = [number |-> @.number + 1, linked |-> @.linked + 1]]
    BY <1>5 DEF BindBy
  <2>3. At(r) \in 3 .. Elements(f) + 2
    <3>1. PICK n \in Nat, b \in Nat : n = Labels[f] /\ b = Len(Buttons[f]) /\ Elements(f) = n + b
      BY <2>1, ElementsNat
    <3>2. At(r) \in 3 .. n + 2 \/ At(r) \in n + 3 .. (n + b) + 2
      BY <2>2, <3>1
    <3>3. At(r) \in 3 .. (n + b) + 2
      BY <3>2
    <3>4. QED
      BY <3>1, <3>3
  <2>4. At(r) \in Int /\ At(r) \in 1 .. Elements(f) + 3 /\ At(r) >= 3 /\ At(r) < Elements(f) + 3
        /\ At(r) \in 0 .. Elements(f) + 2
    BY <2>1, <2>3
  <2>5. Made(lists[f], f, At(r))
    BY <2>1, <2>4 DEF ListInv, Making
  <2>6. PICK l : l = lists[f]
    OBVIOUS
  <2>7. l \in OneList
    BY <1>1, <2>1, <2>6
  <2>8. /\ Made([l EXCEPT ![kind] = More(l[kind])], f, At(r) + 1)
        /\ More(l[kind]) \in [number : Nat, linked : Nat]
        /\ More(l[kind]).number <= Amount(f, kind) /\ More(l[kind]).linked <= Amount(f, kind)
    BY <2>1, <2>2, <2>4, <2>5, <2>6, <2>7, MadeMore
  <2>9. lists' = [lists EXCEPT ![f] = [lists[f] EXCEPT ![kind] = More(lists[f][kind])]]
    BY <2>2 DEF More
  <2>10. /\ lists' \in [Forms -> OneList]
         /\ \A g \in Forms, k \in Kinds :
              lists'[g][k].number <= Amount(g, k) /\ lists'[g][k].linked <= Amount(g, k)
         /\ lists'[f] = [lists[f] EXCEPT ![kind] = More(lists[f][kind])]
         /\ \A g \in Forms : g # f => lists'[g] = lists[g]
    BY <1>1, <2>1, <2>6, <2>8, <2>9, ListChanged
  <2>11. ListTypes'
    BY <2>10 DEF ListTypes, OneList
  <2>12. Made(lists'[f], f, At(r) + 1)
    BY <2>6, <2>8, <2>10
  <2>13. Changes(r)
    BY <1>2, <2>1, <2>4, <2>10 DEF Changes
  <2>14. QED
    BY <2>11, <2>12, <2>13
<1>6. ASSUME UNCHANGED lists, At(r) \in 2 .. Elements(f) + 2 /\ Busy(r) => FALSE PROVE P
  BY <1>1, <1>6 DEF ListTypes
<1>7. ASSUME NextIs(r, "show"), ShowBy(r, f) PROVE P
  <2>1. UNCHANGED lists
    BY <1>7 DEF ShowBy
  <2>2. At(r) \in 2 .. Elements(f) + 2 /\ Busy(r) => FALSE
    <3>1. (Busy(r) /\ At(r) = Elements(f) + 3) \/ ~Opens(r.button)
      BY <1>7 DEF ShowBy
    <3>2. QED
      BY <1>2, <3>1
  <2>3. QED
    BY <1>6, <2>1, <2>2
<1>8. ASSUME ~Busy(r), UNCHANGED forms PROVE P
  BY <1>6, <1>8 DEF forms
<1>9. QED
  BY <1>3, <1>4, <1>5, <1>7, <1>8 DEF Effect

LEMMA CallbackListInv ==
  ASSUME ListInv, NEW r, Moves(r), Effect(r), \A u \in Tasks' : u \in Record
  PROVE  ListInv'
<1>1. r \in Record /\ r \in Tasks
  BY DEF Moves
<1>2. /\ ListTypes' /\ (UNCHANGED lists \/ Changes(r))
      /\ At(r) \in 2 .. Elements(Target(r.button)) + 2 /\ Busy(r) =>
           Made(lists'[Target(r.button)], Target(r.button), At(r) + 1)
  BY <1>1, CallbackLists
<1>3. ASSUME NEW g \in Forms, NEW u \in Tasks', Making(u, g), At(u) >= 3
      PROVE  Made(lists'[g], g, At(u))
  <2>1. u \in Record
    OBVIOUS
  <2>2. Underway(u) /\ Target(u.button) = g /\ At(u) \in 1 .. Elements(g) + 3
    BY <1>3, <2>1, MakingIs
  <2>3. Step(r).button = r.button /\ At(Step(r)) = At(r) + 1 /\ At(r) \in Int
    BY <1>1, StepIs, RecordIs
  <2>4. Elements(g) \in Nat
    BY ElementsNat
  <2>5. CASE Calibration(r)
    <3>1. r.button = <<"touch", 1>>
      BY <2>5 DEF Calibration
    <3>2. ~Busy(r)
      BY <3>1, TargetIs, FormsAre DEF Busy, Opens
    <3>3. UNCHANGED lists
      BY <1>2, <3>2 DEF Changes
    <3>4. u # Step(r)
      BY <2>2, <2>3, <3>1 DEF Underway
    <3>5. u \in Tasks
      BY <3>4 DEF Moves
    <3>6. QED
      BY <1>3, <3>3, <3>5 DEF ListInv
  <2>6. CASE ~Calibration(r)
    <3>1. u = Step(r)
      BY <2>2, <2>6 DEF Moves
    <3>2. Target(r.button) = g /\ At(u) = At(r) + 1
      BY <2>2, <2>3, <3>1
    <3>3. At(r) \in 2 .. Elements(g) + 2 /\ At(r) \in 0 .. Elements(g) + 3
      BY <1>3, <2>2, <2>3, <2>4, <3>2
    <3>4. Busy(r)
      BY <3>2, <3>3 DEF Busy, Opens
    <3>5. QED
      BY <1>2, <3>2, <3>3, <3>4
  <2>7. QED
    BY <2>5, <2>6
<1>4. QED
  BY <1>2, <1>3 DEF ListInv

LEMMA NotMakingNew ==
  ASSUME NEW u \in Record, NEW f \in Forms, u.done = 0
  PROVE  ~Making(u, f)
BY MakingIs DEF Underway

LEMMA OtherListInv ==
  ASSUME ListInv, Keeps, UNCHANGED lists, \A u \in Tasks' : u \in Record
  PROVE  ListInv'
<1>1. ListTypes'
  BY DEF ListInv, ListTypes
<1>2. ASSUME NEW g \in Forms, NEW u \in Tasks', Making(u, g), At(u) >= 3
      PROVE  Made(lists'[g], g, At(u))
  <2>1. u.done # 0
    BY <1>2, NotMakingNew
  <2>2. PICK v \in Tasks : Kin(u, v)
    BY <2>1 DEF Keeps
  <2>3. Making(v, g) /\ At(v) = At(u)
    BY <1>2, <2>2, KinIs
  <2>4. Made(lists[g], g, At(v))
    BY <1>2, <2>3 DEF ListInv
  <2>5. QED
    BY <2>3, <2>4
<1>3. QED
  BY <1>1, <1>2 DEF ListInv

-----------------------------------------------------------------------------
(* The forms that are ready stay so.                                       *)
LEMMA ReadyStays ==
  ASSUME ListInv, NEW r, Moves(r), Effect(r), NEW g \in Forms, Ready(g)
  PROVE  Ready(g)'
<1> DEFINE f == Target(r.button)
<1>1. r \in Record /\ r \in Tasks
  BY DEF Moves
<1>2. UNCHANGED lists \/ Changes(r)
  BY <1>1, CallbackLists
<1>3. Step(r).button = r.button /\ At(Step(r)) = At(r) + 1 /\ At(r) \in Int
  BY <1>1, StepIs, RecordIs
<1>4. ASSUME Busy(r), At(r) \in 0 .. Elements(f) + 2, g = f
      PROVE  Ready(g)'
  <2>1. Elements(f) \in Nat /\ At(r) < Elements(f) + 3 /\ At(r) + 1 \in 1 .. Elements(f) + 3
    BY <1>4, ElementsNat
  <2>2. Left(r) > 1
    BY <1>1, <1>4, <2>1, BusyLeft
  <2>3. Step(r) \in Tasks'
    BY <2>2 DEF Moves
  <2>4. Making(Step(r), g)
    BY <1>3, <1>4, <2>1 DEF Making
  <2>5. QED
    BY <2>3, <2>4 DEF Ready
<1>5. CASE lists[g] = Bound(g)
  <2>1. CASE Changes(r) /\ g = f
    BY <1>4, <2>1 DEF Changes
  <2>2. CASE UNCHANGED lists \/ (Changes(r) /\ g # f)
    <3>1. lists'[g] = Bound(g)
      BY <1>5, <2>2 DEF Changes
    <3>2. QED
      BY <3>1 DEF Ready
  <2>3. QED
    BY <1>2, <2>1, <2>2
<1>6. CASE \E v \in Tasks : v # r /\ Making(v, g)
  <2>1. PICK v \in Tasks : v # r /\ Making(v, g)
    BY <1>6
  <2>2. v \in Tasks'
    BY <2>1 DEF Moves
  <2>3. QED
    BY <2>1, <2>2 DEF Ready
<1>7. CASE Making(r, g)
  <2>1. Busy(r) /\ f = g /\ At(r) \in 1 .. Elements(g) + 3 /\ Elements(g) \in Nat
    BY <1>1, <1>7, MakingIs, ElementsNat
  <2>2. CASE At(r) = Elements(f) + 3
    <3>1. At(r) >= 3
      BY <2>1, <2>2
    <3>2. Made(lists[g], g, Elements(g) + 3)
      BY <1>1, <1>7, <2>1, <2>2, <3>1 DEF ListInv
    <3>3. lists[g] \in OneList
      BY DEF ListInv, ListTypes, OneList
    <3>4. lists[g] = Bound(g)
      BY <3>2, <3>3, MadeIs
    <3>5. QED
      BY <1>5, <3>4
  <2>3. CASE At(r) # Elements(f) + 3
    <3>1. At(r) \in 0 .. Elements(f) + 2
      BY <2>1, <2>3
    <3>2. QED
      BY <1>4, <2>1, <3>1
  <2>4. QED
    BY <2>2, <2>3
<1>8. QED
  BY <1>5, <1>6, <1>7 DEF Ready

(* The only one that can come to be is the one the task opens.             *)
LEMMA ReadyComes ==
  ASSUME NEW r, Moves(r), ListInv, Effect(r), NEW g \in Forms, Ready(g)'
  PROVE  Ready(g) \/ (Opens(r.button) /\ g = Target(r.button))
<1>1. r \in Record /\ r \in Tasks
  BY DEF Moves
<1>2. UNCHANGED lists \/ Changes(r)
  BY <1>1, CallbackLists
<1>3. Step(r).button = r.button
  BY <1>1, StepIs
<1>4. CASE lists'[g] = Bound(g)
  <2>1. lists'[g] = lists[g] \/ (Opens(r.button) /\ g = Target(r.button))
    BY <1>2 DEF Changes, Busy
  <2>2. QED
    BY <1>4, <2>1 DEF Ready
<1>5. CASE \E u \in Tasks' : Making(u, g)
  <2>1. PICK u \in Tasks' : Making(u, g)
    BY <1>5
  <2>2. CASE u \in Tasks
    BY <2>1, <2>2 DEF Ready
  <2>3. CASE u = Step(r)
    BY <1>3, <2>1, <2>3 DEF Making, Opens
  <2>4. QED
    BY <2>2, <2>3 DEF Moves
<1>6. QED
  BY <1>4, <1>5 DEF Ready

LEMMA CallbackReadyInv ==
  ASSUME OrderInv, UpdateTypes, ListInv, ReadyInv, NEW r, Moves(r), Effect(r)
  PROVE  ReadyInv'
<1> DEFINE f == Target(r.button)
<1>1. r \in Record /\ r \in Tasks /\ r.button \in AllButtons
  BY RecordIs DEF Moves
<1>2. r.button[1] \in Forms /\ Ready(r.button[1])
  BY <1>1, BackIs DEF ReadyInv
<1>3. \A g \in Forms : Ready(g) => Ready(g)'
  BY ReadyStays
<1>4. Ready(current_form)'
  <2>1. ASSUME UNCHANGED current_form PROVE Ready(current_form)'
    <3>1. PICK g \in Forms : g = current_form
      BY DEF UpdateTypes
    <3>2. Ready(g)'
      BY <1>3, <3>1 DEF ReadyInv
    <3>3. current_form' = g
      BY <2>1, <3>1
    <3>4. QED
      BY <3>2, <3>3 DEF Ready
  <2>2. ASSUME ShowBy(r, f) PROVE Ready(current_form)'
    <3>1. PICK g \in Forms :
            /\ \/ Busy(r) /\ At(r) = Elements(f) + 3 /\ g = f
               \/ ~Opens(r.button) /\ g = Back(r.button)
            /\ current_form' = g
      BY <2>2 DEF ShowBy
    <3>2. Ready(g)
      <4>1. CASE Busy(r) /\ At(r) = Elements(f) + 3 /\ g = f
        <5>1. Elements(f) \in Nat
          BY <4>1, ElementsNat
        <5>2. Making(r, g)
          BY <4>1, <5>1 DEF Making
        <5>3. QED
          BY <1>1, <5>2 DEF Ready
      <4>2. CASE g = Back(r.button)
        <5>1. CASE r.button = <<"touch", 1>>
          BY <1>2, <4>2, <5>1 DEF Back
        <5>2. CASE r.button # <<"touch", 1>>
          BY <1>2, <4>2, <5>2 DEF Back, ReadyInv
        <5>3. QED
          BY <5>1, <5>2
      <4>3. QED
        BY <3>1, <4>1, <4>2
    <3>3. Ready(g)'
      BY <1>3, <3>2
    <3>4. QED
      BY <3>1, <3>3 DEF Ready
  <2>3. QED
    BY <2>1, <2>2 DEF Effect, CutBy, ClearBy, BindBy, forms
<1>5. UNCHANGED <<tmp, pressed_button>> /\ clicked' \subseteq clicked
  BY DEF Effect, UnchangedByCallback, update, CutBy, ClearBy, BindBy, ShowBy
<1>6. ASSUME tmp' # NoButton PROVE Ready(tmp[1])'
  <2>1. tmp # NoButton
    BY <1>5, <1>6
  <2>2. PICK g \in Forms : g = tmp[1]
    BY <2>1, PointerIs
  <2>3. Ready(g)'
    BY <1>3, <2>1, <2>2 DEF ReadyInv
  <2>4. tmp'[1] = g
    BY <1>5, <2>2
  <2>5. QED
    BY <2>3, <2>4 DEF Ready
<1>7. ASSUME NEW b \in clicked' PROVE Ready(b[1])'
  <2>1. b \in clicked /\ b \in AllButtons
    BY <1>5 DEF UpdateTypes
  <2>2. b[1] \in Forms /\ Ready(b[1])
    BY <2>1, BackIs DEF ReadyInv
  <2>3. QED
    BY <1>3, <2>2
<1>8. ASSUME pressed_button' # NoButton PROVE Ready(pressed_button[1])'
  <2>1. pressed_button # NoButton /\ pressed_button \in AllButtons
    BY <1>5, <1>8 DEF UpdateTypes
  <2>2. PICK g \in Forms : g = pressed_button[1]
    BY <2>1, BackIs
  <2>3. Ready(g)'
    BY <1>3, <2>1, <2>2 DEF ReadyInv
  <2>4. pressed_button'[1] = g
    BY <1>5, <2>2
  <2>5. QED
    BY <2>3, <2>4 DEF Ready
<1>9. ASSUME NEW u \in Tasks' PROVE Ready(u.button[1])'
  <2>1. CASE u \in Tasks
    <3>1. u.button[1] \in Forms /\ Ready(u.button[1])
      <4>1. u \in Record
        BY <2>1, TasksTyped
      <4>2. u.button \in AllButtons
        BY <4>1, RecordIs
      <4>3. QED
        BY <2>1, <4>2, BackIs DEF ReadyInv
    <3>2. QED
      BY <1>3, <3>1
  <2>2. CASE u = Step(r)
    <3>1. u.button = r.button
      BY <1>1, <2>2, StepIs
    <3>2. QED
      BY <1>2, <1>3, <3>1
  <2>3. QED
    BY <2>1, <2>2 DEF Moves
<1>10. ASSUME NEW g \in Forms, Ready(g)' PROVE Ready(Parent[g])'
  <2>1. Parent[g] \in Forms
    BY FormFacts
  <2>2. CASE Ready(g)
    BY <1>3, <2>1, <2>2 DEF ReadyInv
  <2>3. CASE Opens(r.button) /\ g = f
    <3>1. Parent[g] = r.button[1]
      BY <1>1, <2>3, EveryShape DEF Shape
    <3>2. QED
      BY <1>2, <1>3, <3>1
  <2>4. QED
    BY <1>10, <2>2, <2>3, ReadyComes
<1>11. QED
  BY <1>4, <1>6, <1>7, <1>8, <1>9, <1>10 DEF ReadyInv

(* What the other steps do to the pointer and what was read with it.       *)
LEMMA Pointers ==
  ASSUME UpdateTypes, Other
  PROVE  /\ \/ tmp' \in {tmp, NoButton} \/ tmp'[1] = current_form
            \/ tmp # NoButton /\ tmp'[1] = tmp[1]
         /\ clicked' \subseteq clicked \/ (tmp # NoButton /\ clicked' \subseteq clicked \cup {tmp})
         /\ \/ pressed_button' \in {NoButton, pressed_button}
            \/ tmp # NoButton /\ pressed_button' = tmp
<1>1. CASE OtherPens
  <2>1. UNCHANGED <<tmp, clicked, pressed_button>>
    BY <1>1 DEF OtherPens, Touch, Lift, touchscan_task, Wake, Mask, Scan, Unmask, vars, update
  <2>2. QED
    BY <2>1
<1>2. CASE Begin \/ Create
  <2>1. tmp' \in {tmp, NoButton} /\ clicked' = clicked /\ pressed_button' = NoButton
    BY <1>2 DEF Begin, Create
  <2>2. QED
    BY <2>1
<1>3. CASE ReadButtonNum \/ ReadLabelNum \/ ReadAgain \/ Leave
  <2>1. UNCHANGED <<tmp, clicked, pressed_button>>
    BY <1>3 DEF ReadButtonNum, ReadLabelNum, ReadAgain, Leave
  <2>2. QED
    BY <2>1
<1>4. CASE ReadFirst
  <2>1. tmp' = <<current_form, 1>> /\ UNCHANGED <<clicked, pressed_button>>
    BY <1>4 DEF ReadFirst
  <2>2. QED
    BY <2>1
<1>5. CASE Mark \/ Draw
  <2>1. /\ gui_pc \in {"mark", "draw"} /\ tmp' = <<tmp[1], tmp[2] + 1>>
        /\ clicked' \subseteq clicked \cup {tmp} /\ pressed_button' \in {pressed_button, tmp}
    BY <1>5 DEF Mark, Draw
  <2>2. tmp # NoButton
    BY <2>1 DEF UpdateTypes, PointerTypes
  <2>3. tmp'[1] = tmp[1]
    BY <2>1
  <2>4. QED
    BY <2>1, <2>2, <2>3
<1>6. CASE DrawLabel
  <2>1. gui_pc = "label" /\ tmp' = <<tmp[1], tmp[2] + 1>> /\ UNCHANGED <<clicked, pressed_button>>
    BY <1>6 DEF DrawLabel
  <2>2. tmp # NoButton
    BY <2>1 DEF UpdateTypes, PointerTypes
  <2>3. tmp'[1] = tmp[1]
    BY <2>1
  <2>4. QED
    BY <2>1, <2>2, <2>3
<1>7. QED
  BY <1>1, <1>2, <1>3, <1>4, <1>5, <1>6 DEF Other, OtherPens, guiupdate_task

LEMMA ReadySame ==
  ASSUME OrderInv, Keeps, UNCHANGED lists, \A u \in Tasks' : u \in Record, NEW g \in Forms
  PROVE  Ready(g)' <=> Ready(g)
<1>1. ASSUME NEW v \in Tasks, Making(v, g) PROVE \E u \in Tasks' : Making(u, g)
  <2>1. PICK u \in Tasks' : Kin(u, v)
    BY DEF Keeps
  <2>2. Making(u, g)
    BY <1>1, <2>1, KinIs
  <2>3. QED
    BY <2>2
<1>2. ASSUME NEW u \in Tasks', Making(u, g) PROVE \E v \in Tasks : Making(v, g)
  <2>1. u.done # 0
    BY <1>2, NotMakingNew
  <2>2. PICK v \in Tasks : Kin(u, v)
    BY <2>1 DEF Keeps
  <2>3. Making(v, g)
    BY <1>2, <2>2, KinIs
  <2>4. QED
    BY <2>3
<1>3. QED
  BY <1>1, <1>2 DEF Ready

LEMMA OtherReadyInv ==
  ASSUME OrderInv, UpdateTypes, ReadyInv, Other, OrderInv', Keeps
  PROVE  ReadyInv'
<1>1. UNCHANGED <<current_form, lists>>
  BY OtherLists
<1>2. \A u \in Tasks' : u \in Record
  BY TasksTyped
<1>3. \A g \in Forms : Ready(g)' <=> Ready(g)
  BY <1>1, <1>2, ReadySame
<1>4. current_form \in Forms /\ clicked \subseteq AllButtons /\ pressed_button \in AllButtons \cup {NoButton}
  BY DEF UpdateTypes
<1>5. /\ \/ tmp' \in {tmp, NoButton} \/ tmp'[1] = current_form
         \/ tmp # NoButton /\ tmp'[1] = tmp[1]
      /\ clicked' \subseteq clicked \/ (tmp # NoButton /\ clicked' \subseteq clicked \cup {tmp})
      /\ \/ pressed_button' \in {NoButton, pressed_button}
         \/ tmp # NoButton /\ pressed_button' = tmp
  BY Pointers
<1>6. /\ Ready(current_form) /\ (tmp # NoButton => tmp[1] \in Forms /\ Ready(tmp[1]))
      /\ \A b \in clicked : b[1] \in Forms /\ Ready(b[1])
      /\ pressed_button # NoButton => pressed_button[1] \in Forms /\ Ready(pressed_button[1])
      /\ \A u \in Tasks : u.button[1] \in Forms /\ Ready(u.button[1])
  <2>1. tmp # NoButton => tmp[1] \in Forms
    BY PointerIs
  <2>2. \A b \in AllButtons : b[1] \in Forms
    BY BackIs
  <2>3. \A u \in Tasks : u.button \in AllButtons
    BY TasksTyped, RecordIs
  <2>4. QED
    BY <1>4, <2>1, <2>2, <2>3 DEF ReadyInv
<1>7. Ready(current_form)'
  <2>1. Ready(current_form)' <=> Ready(current_form)
    <3>1. PICK g \in Forms : g = current_form /\ g = current_form'
      BY <1>1, <1>4
    <3>2. Ready(g)' <=> Ready(g)
      BY <1>3
    <3>3. QED
      BY <3>1, <3>2 DEF Ready
  <2>2. QED
    BY <1>6, <2>1
<1>8. ASSUME tmp' # NoButton PROVE Ready(tmp[1])'
  <2>1. PICK g \in Forms : g = tmp'[1] /\ Ready(g)
    BY <1>4, <1>5, <1>6, <1>8
  <2>2. Ready(g)'
    BY <1>3, <2>1
  <2>3. QED
    BY <2>1, <2>2 DEF Ready
<1>9. ASSUME NEW b \in clicked' PROVE Ready(b[1])'
  <2>1. b[1] \in Forms /\ Ready(b[1])
    BY <1>5, <1>6
  <2>2. QED
    BY <1>3, <2>1
<1>10. ASSUME pressed_button' # NoButton PROVE Ready(pressed_button[1])'
  <2>1. PICK g \in Forms : g = pressed_button'[1] /\ Ready(g)
    BY <1>5, <1>6, <1>10
  <2>2. Ready(g)'
    BY <1>3, <2>1
  <2>3. QED
    BY <2>1, <2>2 DEF Ready
<1>11. ASSUME NEW u \in Tasks' PROVE Ready(u.button[1])'
  <2>1. u.button[1] \in Forms /\ Ready(u.button[1])
    <3>1. CASE \E v \in Tasks : Kin(u, v)
      BY <1>6, <3>1 DEF Kin
    <3>2. CASE u.button = pressed_button /\ pressed_button # NoButton
      BY <1>6, <3>2
    <3>3. QED
      BY <3>1, <3>2 DEF Keeps
  <2>2. QED
    BY <1>3, <2>1
<1>12. ASSUME NEW g \in Forms, Ready(g)' PROVE Ready(Parent[g])'
  <2>1. Parent[g] \in Forms /\ Ready(g)
    BY <1>3, <1>12, FormFacts
  <2>2. Ready(Parent[g])
    BY <2>1 DEF ReadyInv
  <2>3. QED
    BY <1>3, <2>1, <2>2
<1>13. QED
  BY <1>7, <1>8, <1>9, <1>10, <1>11, <1>12 DEF ReadyInv

-----------------------------------------------------------------------------
(* The walks of an update.                                                 *)
LEMMA LateIs ==
  ASSUME NEW r \in Record, ~Opens(r.button) \/ At(r) > Elements(Target(r.button)) + 3
  PROVE  Harmless(r)
<1> DEFINE b == r.button
<1>1. b \in AllButtons /\ Shape(b)
  BY RecordIs, EveryShape
<1>2. ASSUME NEW k \in 1 .. Left(r) PROVE Todo(r, k)[1] \notin {"cut", "clear", "bind"}
  <2>1. PICK a \in Int, m \in {0, 2}, n \in Nat, x \in Nat :
          /\ a = At(r) /\ m = Before(b) /\ n = Len(Script(b)) /\ x = r.done
          /\ a + m = x /\ Left(r) = n - x
    BY RecordIs
  <2>2. PICK j \in 1 .. n : j = x + k
    <3>1. k \in 1 .. n - x
      BY <2>1
    <3>2. x + k \in 1 .. n
      BY <3>1, n \in Nat, x \in Nat
    <3>3. QED
      BY <3>2
  <2>3. Todo(r, k) = Script(b)[j]
    BY <2>1, <2>2 DEF Todo
  <2>4. ~Opening(b, j)
    <3>1. SUFFICES ASSUME Opens(b), j \in m + 1 .. m + Elements(Target(b)) + 4 PROVE FALSE
      BY <2>1 DEF Opening
    <3>2. PICK e \in Nat : e = Elements(Target(b)) /\ a > e + 3
      BY <2>1, <3>1, ElementsNat DEF Opens
    <3>3. j \in m + 1 .. m + e + 4
      BY <3>1, <3>2
    <3>4. m \in Int /\ a + m = x /\ j = x + k /\ k >= 1
      BY <2>1, <2>2
    <3>5. QED
      BY <3>2, <3>3, <3>4
  <2>5. Plain(b, Script(b)[j])
    BY <1>1, <2>1, <2>4 DEF Shape
  <2>6. QED
    BY <2>3, <2>5 DEF Plain
<1>3. QED
  BY <1>2 DEF Harmless

LEMMA CalmIs ==
  ASSUME NEW r \in Record, r.button = <<"touch", 1>>
  PROVE  Harmless(r) /\ ~Opens(r.button) /\ \A f \in Forms : ~Making(r, f)
<1>1. ~Opens(r.button)
  BY TargetIs, FormsAre DEF Opens
<1>2. QED
  BY <1>1, LateIs DEF Making, Opens

LEMMA StaysHarmless ==
  ASSUME NEW r \in Record, Harmless(r)
  PROVE  Harmless(Step(r))
<1>1. /\ Left(Step(r)) = Left(r) - 1 /\ Left(r) \in Int
      /\ \A k \in Int : Todo(Step(r), k) = Todo(r, k + 1)
  BY StepIs, RecordIs
<1>2. ASSUME NEW k \in 1 .. Left(Step(r)) PROVE Todo(Step(r), k)[1] \notin {"cut", "clear", "bind"}
  <2>1. k + 1 \in 1 .. Left(r) /\ Todo(Step(r), k) = Todo(r, k + 1)
    BY <1>1
  <2>2. QED
    BY <2>1 DEF Harmless
<1>3. QED
  BY <1>2 DEF Harmless

(* No form is as small as that of the calibration.                         *)
LEMMA TouchIsSmall ==
  ASSUME NEW f \in Forms, \A kind \in Kinds : ~(Amount("touch", kind) < Amount(f, kind))
  PROVE  f = "touch"
<1>1. PICK t \in Forms : t = "touch"
  BY FormsAre
<1>2. Labels[t] = 4 /\ Len(Buttons[t]) = 2
  BY <1>1, Numbers
<1>3. ~(Amount(t, "labels") < Amount(f, "labels")) /\ ~(Amount(t, "buttons") < Amount(f, "buttons"))
  BY <1>1 DEF Kinds
<1>4. ~(4 < Labels[f]) /\ ~(2 < Len(Buttons[f]))
  BY <1>2, <1>3, AmountIs
<1>5. CASE f \in {"main", "origin", "calibrate"}
  <2>1. Len(Buttons[f]) = 4 \/ Len(Buttons[f]) = 3
    BY <1>5, Numbers
  <2>2. PICK n \in {3, 4} : n = Len(Buttons[f])
    BY <2>1
  <2>3. 2 < n
    OBVIOUS
  <2>4. QED
    BY <1>4, <2>2, <2>3
<1>6. CASE f \in {"gnss", "sensor", "fusion", "mag"}
  <2>1. Labels[f] = 7 \/ Labels[f] = 8
    BY <1>6, Numbers
  <2>2. QED
    BY <1>4, <2>1
<1>7. QED
  BY <1>5, <1>6, FormsAre

LEMMA AmountsOf ==
  ASSUME UpdateTypes
  PROVE  /\ Amount(current_form, "buttons") \in 1 .. 4 /\ Amount(current_form, "labels") \in 0 .. 8
         /\ tmp # NoButton => /\ Amount(tmp[1], "buttons") \in 1 .. 4
                              /\ Amount(tmp[1], "labels") \in 0 .. 8
                              /\ tmp[2] \in Nat \ {0} /\ tmp[1] \in Forms
BY AmountIs, PointerIs DEF UpdateTypes

LEMMA CallbackWalkInv ==
  ASSUME PenTypes, UpdateTypes, OrderInv, OrderInv', ListInv, ReadyInv, ReadyInv', WalkInv,
         NEW r, Moves(r), Effect(r), current_form' \in Forms
  PROVE  WalkInv'
<1> DEFINE f == Target(r.button)
<1>1. r \in Record /\ r \in Tasks
  BY DEF Moves
<1>2. /\ UNCHANGED <<gui_pc, item, counter, label_counter, tmp, pressed_button, outside>>
      /\ shorter => shorter'
      /\ Updating' <=> Updating
  <2>1. UNCHANGED <<gui_pc, item, counter, label_counter, tmp, pressed_button, outside>>
    BY DEF Effect, UnchangedByCallback, update
  <2>2. shorter => shorter'
    BY DEF Effect, CutBy, ClearBy, BindBy, ShowBy, Disturb
  <2>3. QED
    BY <2>1, <2>2 DEF Updating
<1>3. SUFFICES ASSUME ~shorter', Updating' PROVE Whole' /\ Fits'
  BY <1>2 DEF WalkInv
<1>4. ~shorter /\ Updating /\ Whole /\ Fits
  BY <1>2, <1>3 DEF WalkInv
<1>5. current_form \in Forms /\ (tmp # NoButton => tmp[1] \in Forms)
  BY PointerIs DEF UpdateTypes
<1>6. \A u \in Tasks' : u \in Record
  BY TasksTyped
<1>7. ASSUME NextIs(r, "cut") \/ NextIs(r, "clear") \/ NextIs(r, "bind")
      PROVE  Whole' /\ Fits'
  <2>1. (CutBy(r, f) /\ NextIs(r, "cut")) \/ (ClearBy(r, f) /\ NextIs(r, "clear"))
          \/ (BindBy(r, f) /\ NextIs(r, "bind"))
    <3>1. ~NextIs(r, "show") /\ ~NextIs(r, "send") /\ ~NextIs(r, "size")
      BY <1>7 DEF NextIs
    <3>2. Busy(r)
      BY <1>1, <1>7, BusyNot DEF NextIs
    <3>3. QED
      BY <3>1, <3>2 DEF Effect
  <2>2. f \in Forms /\ Busy(r) /\ At(r) \in 0 .. Elements(f) + 3 /\ Elements(f) \in Nat
    BY <2>1, ElementsNat DEF CutBy, ClearBy, BindBy, Busy, Opens
  <2>3. f # current_form
    <3>1. CASE CutBy(r, f) \/ ClearBy(r, f)
      BY <1>3, <1>4, <3>1 DEF CutBy, ClearBy, Disturb
    <3>2. CASE BindBy(r, f)
      <4>1. At(r) \in 3 .. Elements(f) + 2
        <5>1. PICK n \in Nat, b \in Nat : n = Labels[f] /\ b = Len(Buttons[f]) /\ Elements(f) = n + b
          BY <2>2, ElementsNat
        <5>2. At(r) \in 3 .. n + 2 \/ At(r) \in n + 3 .. (n + b) + 2
          BY <3>2, <5>1 DEF BindBy
        <5>3. At(r) \in 3 .. (n + b) + 2
          BY <5>2
        <5>4. QED
          BY <5>1, <5>3
      <4>2. At(r) \in 1 .. Elements(f) + 3 /\ At(r) >= 3
        BY <2>2, <4>1
      <4>3. Made(lists[f], f, At(r))
        BY <1>1, <2>2, <4>2 DEF ListInv, Making
      <4>4. lists[f] \in OneList
        BY <2>2 DEF ListInv, ListTypes, OneList
      <4>5. lists[f] # Bound(f)
        BY <2>2, <4>1, <4>3, <4>4, MadeIs
      <4>6. QED
        BY <1>4, <4>5 DEF Whole
    <3>3. QED
      BY <2>1, <3>1, <3>2
  <2>4. tmp # NoButton => tmp[1] = current_form
    <3>1. ~Harmless(r)
      <4>1. Left(r) > 0 /\ Left(r) \in Int /\ Todo(r, 1)[1] \in {"cut", "clear", "bind"}
        BY <1>1, <1>7, RecordIs DEF NextIs
      <4>2. 1 \in 1 .. Left(r)
        BY <4>1
      <4>3. QED
        BY <4>1, <4>2 DEF Harmless
    <3>2. QED
      BY <1>1, <1>4, <3>1 DEF Whole
  <2>5. UNCHANGED current_form /\ \A g \in Forms : g # f => lists'[g] = lists[g]
    <3>1. UNCHANGED lists \/ Changes(r)
      BY <1>1, CallbackLists
    <3>2. UNCHANGED current_form
      BY <2>1 DEF CutBy, ClearBy, BindBy
    <3>3. QED
      BY <3>1, <3>2 DEF Changes
  <2>6. Whole'
    <3>1. lists'[current_form] = Bound(current_form)
      BY <1>4, <1>5, <2>3, <2>5 DEF Whole
    <3>2. QED
      BY <1>2, <2>4, <2>5, <3>1 DEF Whole
  <2>7. Fits'
    BY <1>2, <1>4, <2>5 DEF Fits
  <2>8. QED
    BY <2>6, <2>7
<1>8. ASSUME UNCHANGED <<current_form, lists>> PROVE Whole' /\ Fits'
  <2>1. Fits'
    BY <1>2, <1>4, <1>8 DEF Fits
  <2>2. (\A u \in Tasks : Harmless(u)) => (\A u \in Tasks' : Harmless(u))
    <3>1. ASSUME \A u \in Tasks : Harmless(u), NEW u \in Tasks' PROVE Harmless(u)
      <4>1. u \in Tasks \/ u = Step(r)
        BY DEF Moves
      <4>2. QED
        BY <1>1, <3>1, <4>1, StaysHarmless
    <3>2. QED
      BY <3>1
  <2>3. Whole'
    BY <1>2, <1>4, <1>8, <2>2 DEF Whole
  <2>4. QED
    BY <2>1, <2>3
<1>9. ASSUME NextIs(r, "show"), ShowBy(r, f) PROVE Whole' /\ Fits'
  <2>1. PICK g \in Forms :
          /\ \/ Busy(r) /\ At(r) = Elements(f) + 3 /\ g = f
             \/ ~Opens(r.button) /\ g = Back(r.button)
          /\ current_form' = g
          /\ Disturb(\E kind \in Kinds : Amount(g, kind) < Amount(current_form, kind))
    BY <1>9 DEF ShowBy
  <2>2. UNCHANGED lists
    BY <1>9 DEF ShowBy
  <2>3. \A kind \in Kinds : ~(Amount(g, kind) < Amount(current_form, kind))
    BY <1>3, <1>4, <2>1 DEF Disturb
  <2>4. CASE Calibration(r)
    <3>1. ~Opens(r.button) /\ g = "touch"
      <4>1. r.button = <<"touch", 1>>
        BY <2>4 DEF Calibration
      <4>2. ~Opens(r.button)
        BY <1>1, <4>1, CalmIs
      <4>3. QED
        BY <2>1, <4>1, <4>2 DEF Back, Busy
    <3>2. current_form = "touch"
      BY <1>5, <2>3, <3>1, TouchIsSmall
    <3>3. QED
      BY <1>8, <2>1, <2>2, <3>1, <3>2
  <2>5. CASE ~Calibration(r)
    <3>1. /\ Step(r) \in Record /\ Step(r).button = r.button /\ At(Step(r)) = At(r) + 1
          /\ At(r) \in Int
      BY <1>1, StepIs, RecordIs
    <3>2. ~Making(Step(r), g) /\ Harmless(Step(r))
      <4>1. CASE Busy(r) /\ At(r) = Elements(f) + 3 /\ g = f
        <5>1. Elements(g) \in Nat /\ At(Step(r)) = Elements(g) + 4
          BY <3>1, <4>1, ElementsNat
        <5>2. ~(At(Step(r)) \in 1 .. Elements(g) + 3) /\ At(Step(r)) > Elements(g) + 3
          BY <5>1
        <5>3. QED
          BY <3>1, <4>1, <5>2, LateIs DEF Making
      <4>2. CASE ~Opens(r.button)
        BY <3>1, <4>2, LateIs DEF Making, Opens
      <4>3. QED
        BY <2>1, <4>1, <4>2
    <3>3. \A u \in Tasks' : ~Making(u, g) /\ Harmless(u)
      <4>1. ASSUME NEW u \in Tasks' PROVE ~Making(u, g) /\ Harmless(u)
        <5>1. u = Step(r) \/ Calibration(u)
          BY <1>4, <2>5 DEF Moves
        <5>2. QED
          BY <1>6, <3>2, <5>1, CalmIs DEF Calibration
      <4>2. QED
        BY <4>1
    <3>4. lists'[g] = Bound(g)
      BY <2>1, <3>3 DEF ReadyInv, Ready
    <3>5. Whole'
      BY <1>2, <1>4, <2>1, <2>2, <3>3, <3>4 DEF Whole
    <3>6. Fits'
      <4>1. PICK b \in Nat, l \in Nat, c \in Nat, m \in Nat :
              /\ b = Amount(g, "buttons") /\ l = Amount(g, "labels")
              /\ c = Amount(current_form, "buttons") /\ m = Amount(current_form, "labels")
        BY <1>5, AmountIs
      <4>2. c <= b /\ m <= l
        BY <2>3, <4>1 DEF Kinds
      <4>3. counter \in Nat /\ label_counter \in Nat
        <5>1. counter \in 0 .. 4 /\ label_counter \in 0 .. 8
          BY DEF UpdateTypes, CounterTypes
        <5>2. QED
          BY <5>1
      <4>4. counter <= c => counter <= b
        BY <4>2, <4>3
      <4>5. label_counter <= m => label_counter <= l
        BY <4>2, <4>3
      <4>6. QED
        BY <1>2, <1>4, <2>1, <4>1, <4>4, <4>5 DEF Fits
    <3>7. QED
      BY <3>5, <3>6
  <2>6. QED
    BY <2>4, <2>5
<1>10. QED
  BY <1>7, <1>8, <1>9 DEF Effect, forms

LEMMA BoundIs ==
  ASSUME NEW f \in Forms
  PROVE  /\ Bound(f)["buttons"].number = Amount(f, "buttons")
         /\ Bound(f)["buttons"].linked = Amount(f, "buttons")
         /\ Bound(f)["labels"].number = Amount(f, "labels")
         /\ Bound(f)["labels"].linked = Amount(f, "labels")
BY DEF Bound, Kinds

(* The steps of gui_form_update between its beginning and its end.         *)
Walks ==
  ReadButtonNum \/ ReadLabelNum \/ ReadFirst \/ Mark \/ ReadAgain \/ Draw \/ DrawLabel

WalkPcs == {"number", "label number", "mark first", "mark", "number again", "draw first", "draw",
            "label first", "label"}

(* What each does to the counters and the pointer.                         *)
LEMMA WalksAre ==
  ASSUME Walks, UpdateTypes
  PROVE  /\ UNCHANGED <<callbacks, lists, current_form, shorter, outside, torn, item, queue, pens, aim,
                        hurried, failed>>
         /\ Updating /\ Updating'
         /\ \/ /\ gui_pc = "number" /\ gui_pc' = "label number" /\ UNCHANGED <<label_counter, tmp>>
               /\ counter' = lists[current_form]["buttons"].number
            \/ /\ gui_pc = "label number" /\ gui_pc' \in {"mark first", "label first", "create"}
               /\ UNCHANGED <<counter, tmp>>
               /\ label_counter' = lists[current_form]["labels"].number
            \/ /\ gui_pc = "number again" /\ gui_pc' = "draw first" /\ UNCHANGED <<label_counter, tmp>>
               /\ counter' = lists[current_form]["buttons"].number
            \/ /\ gui_pc = "mark first" /\ gui_pc' = "mark"
               /\ tmp' = <<current_form, 1>> /\ UNCHANGED <<counter, label_counter>>
            \/ /\ gui_pc = "draw first" /\ gui_pc' \in {"draw", "create", "label first"}
               /\ tmp' = <<current_form, 1>> /\ UNCHANGED <<counter, label_counter>>
            \/ /\ gui_pc = "label first" /\ gui_pc' = "label"
               /\ tmp' = <<current_form, 1>> /\ UNCHANGED <<counter, label_counter>>
            \/ /\ gui_pc = "mark" /\ gui_pc' \in {"mark", "number again"}
               /\ tmp' = <<tmp[1], tmp[2] + 1>> /\ counter' = counter - 1 /\ UNCHANGED label_counter
            \/ /\ gui_pc = "draw" /\ gui_pc' \in {"draw", "create", "label first"}
               /\ tmp' = <<tmp[1], tmp[2] + 1>> /\ counter' = counter - 1 /\ UNCHANGED label_counter
            \/ /\ gui_pc = "label" /\ gui_pc' \in {"label", "create"}
               /\ tmp' = <<tmp[1], tmp[2] + 1>> /\ label_counter' = label_counter - 1
               /\ UNCHANGED counter
<1>1. /\ UNCHANGED <<callbacks, lists, current_form, shorter, outside, torn, item, queue, pens, aim,
                     hurried, failed>>
      /\ Updating
  BY DEF Walks, ReadButtonNum, ReadLabelNum, ReadFirst, Mark, ReadAgain, Draw, DrawLabel,
         UnchangedByUpdate, Updating, forms
<1>2. CASE ReadButtonNum
  BY <1>1, <1>2 DEF ReadButtonNum, Displayed, Updating
<1>3. CASE ReadLabelNum
  <2>1. gui_pc' \in {"mark first", "label first", "create"}
    <3>1. counter \in 0 .. 4
      BY DEF UpdateTypes, CounterTypes
    <3>2. QED
      BY <1>3, <3>1 DEF ReadLabelNum
  <2>2. QED
    BY <1>1, <1>3, <2>1 DEF ReadLabelNum, Displayed, Updating
<1>4. CASE ReadFirst
  BY <1>1, <1>4 DEF ReadFirst, AfterDraw, Updating
<1>5. CASE Mark
  BY <1>1, <1>5 DEF Mark, AfterMark, Updating
<1>6. CASE ReadAgain
  BY <1>1, <1>6 DEF ReadAgain, Displayed, Updating
<1>7. CASE Draw
  BY <1>1, <1>7 DEF Draw, AfterDraw, Updating
<1>8. CASE DrawLabel
  BY <1>1, <1>8 DEF DrawLabel, Updating
<1>9. QED
  BY <1>2, <1>3, <1>4, <1>5, <1>6, <1>7, <1>8 DEF Walks

LEMMA WalksFit ==
  ASSUME UpdateTypes, UpdateTypes', Walks, Whole, Fits
  PROVE  Whole' /\ Fits'
<1>1. /\ current_form \in Forms
      /\ tmp # NoButton => tmp[1] \in Forms /\ tmp[2] \in Nat
      /\ gui_pc \in {"mark", "draw", "label"} => tmp # NoButton
  BY PointerIs DEF UpdateTypes, PointerTypes
<1>2. UNCHANGED <<callbacks, lists, current_form>> /\ Tasks' = Tasks
  BY WalksAre DEF Tasks
<1>3. PICK b \in Nat, l \in Nat :
        b = Amount(current_form, "buttons") /\ l = Amount(current_form, "labels")
  BY <1>1, AmountIs
<1>4. lists[current_form]["buttons"].number = b /\ lists[current_form]["labels"].number = l
  BY <1>1, <1>3, BoundIs DEF Whole
<1>5. PICK c \in Nat, d \in Nat : c = counter /\ d = label_counter
  <2>1. counter \in 0 .. 4 /\ label_counter \in 0 .. 8
    BY DEF UpdateTypes, CounterTypes
  <2>2. QED
    BY <2>1
<1>6. PICK p \in Nat, u \in Nat, v \in Nat :
        tmp # NoButton => p = tmp[2] /\ u = Amount(tmp[1], "buttons") /\ v = Amount(tmp[1], "labels")
  <2>1. CASE tmp = NoButton
    BY <2>1
  <2>2. CASE tmp # NoButton
    BY <1>1, <2>2, AmountIs
  <2>3. QED
    BY <2>1, <2>2
<1>7. /\ gui_pc \in {"label number", "mark first", "draw first"} => c <= b
      /\ gui_pc \in {"mark", "draw"} => p + c <= u + 1
      /\ gui_pc \notin {"number", "label number", "label"} => d <= l
      /\ gui_pc = "label" => p + d <= v + 1
  BY <1>1, <1>3, <1>5, <1>6 DEF Fits
<1>8. b <= b /\ l <= l /\ (p + 1) + (c - 1) = p + c /\ (p + 1) + (d - 1) = p + d
      /\ (c <= b => 1 + c <= b + 1) /\ (d <= l => 1 + d <= l + 1)
  OBVIOUS
<1>9. /\ \/ UNCHANGED tmp
         \/ tmp' = <<current_form, 1>>
         \/ tmp' = <<tmp[1], tmp[2] + 1>> /\ tmp # NoButton
  BY <1>1, WalksAre
<1>10. Whole'
  BY <1>2, <1>9 DEF Whole
<1>11. gui_pc' \in {"label number", "mark first", "draw first"} => counter' <= b
  BY <1>4, <1>5, <1>7, <1>8, WalksAre
<1>12. gui_pc' \in {"mark", "draw"} => tmp'[2] + counter' <= Amount(tmp'[1], "buttons") + 1
  <2>1. CASE gui_pc \in {"mark first", "draw first"} /\ tmp' = <<current_form, 1>> /\ counter' = counter
    BY <1>3, <1>5, <1>7, <1>8, <2>1
  <2>2. CASE gui_pc \in {"mark", "draw"} /\ tmp' = <<tmp[1], tmp[2] + 1>> /\ counter' = counter - 1
    BY <1>1, <1>5, <1>6, <1>7, <1>8, <2>2
  <2>3. QED
    BY <2>1, <2>2, WalksAre
<1>13. gui_pc' \notin {"number", "label number", "label"} => label_counter' <= l
  <2>1. CASE gui_pc = "label" /\ gui_pc' = "create" /\ label_counter' = label_counter - 1
    <3>1. gui_pc' = "create" => label_counter' = 0
      BY <2>1, WalksAre DEF Walks, DrawLabel, ReadButtonNum, ReadLabelNum, ReadFirst, Mark, ReadAgain, Draw
    <3>2. QED
      BY <2>1, <3>1
  <2>2. CASE gui_pc # "label"
    BY <1>4, <1>5, <1>7, <1>8, <2>2, WalksAre
  <2>3. CASE gui_pc = "label" /\ gui_pc' = "label"
    BY <2>3
  <2>4. QED
    BY <2>1, <2>2, <2>3, WalksAre
<1>14. gui_pc' = "label" => tmp'[2] + label_counter' <= Amount(tmp'[1], "labels") + 1
  <2>1. CASE gui_pc = "label first" /\ tmp' = <<current_form, 1>> /\ label_counter' = label_counter
    BY <1>3, <1>5, <1>7, <1>8, <2>1
  <2>2. CASE gui_pc = "label" /\ tmp' = <<tmp[1], tmp[2] + 1>> /\ label_counter' = label_counter - 1
    BY <1>1, <1>5, <1>6, <1>7, <1>8, <2>2
  <2>3. QED
    BY <2>1, <2>2, WalksAre
<1>15. Fits'
  BY <1>2, <1>3, <1>11, <1>12, <1>13, <1>14 DEF Fits, Amount
<1>16. QED
  BY <1>10, <1>15

(* An update that still fits its lists does not leave them.                *)
LEMMA LeaveOnlyShorter ==
  ASSUME UpdateTypes, WalkInv, Leave
  PROVE  shorter
<1>1. SUFFICES ASSUME ~shorter PROVE FALSE
  OBVIOUS
<1>2. (gui_pc \in {"mark", "draw"} /\ ~InList("buttons")) \/ (gui_pc = "label" /\ ~InList("labels"))
  BY DEF Leave
<1>3. Whole /\ Fits
  BY <1>1, <1>2 DEF WalkInv, Updating
<1>4. tmp # NoButton /\ tmp[1] \in Forms /\ tmp[2] \in Nat
  BY <1>2, PointerIs DEF UpdateTypes, PointerTypes
<1>5. PICK p \in Nat, u \in Nat, v \in Nat :
        p = tmp[2] /\ u = Amount(tmp[1], "buttons") /\ v = Amount(tmp[1], "labels")
  BY <1>4, AmountIs
<1>6. PICK c \in Nat, d \in Nat : c = counter /\ d = label_counter
  <2>1. counter \in 0 .. 4 /\ label_counter \in 0 .. 8
    BY DEF UpdateTypes, CounterTypes
  <2>2. QED
    BY <2>1
<1>7. lists[tmp[1]]["buttons"].linked = u /\ lists[tmp[1]]["labels"].linked = v
  BY <1>3, <1>4, <1>5, BoundIs DEF Whole
<1>8. CASE gui_pc \in {"mark", "draw"} /\ ~InList("buttons")
  <2>1. c > 0 /\ p + c <= u + 1 /\ ~(p <= u)
    BY <1>3, <1>5, <1>6, <1>7, <1>8 DEF Fits, InList, UpdateTypes, CounterTypes
  <2>2. QED
    BY <2>1
<1>9. CASE gui_pc = "label" /\ ~InList("labels")
  <2>1. d > 0 /\ p + d <= v + 1 /\ ~(p <= v)
    BY <1>3, <1>5, <1>6, <1>7, <1>9 DEF Fits, InList, UpdateTypes, CounterTypes
  <2>2. QED
    BY <2>1
<1>10. QED
  BY <1>2, <1>8, <1>9

LEMMA OtherWalkInv ==
  ASSUME UpdateTypes, UpdateTypes', WalkInv, Other, ~outside \/ UNCHANGED vars
  PROVE  WalkInv'
<1>1. CASE OtherPens
  <2>1. UNCHANGED <<gui_pc, counter, label_counter, tmp, current_form, lists, callbacks, shorter, outside>>
    BY <1>1 DEF OtherPens, Touch, Lift, touchscan_task, Wake, Mask, Scan, Unmask, update, forms, vars,
                history
  <2>2. QED
    BY <2>1 DEF WalkInv, Updating, Whole, Fits, Tasks
<1>2. CASE Begin
  <2>1. /\ gui_pc = "delay" /\ gui_pc' = "number" /\ UNCHANGED <<tmp, lists, current_form, outside>>
        /\ shorter' = (lists[current_form] # Bound(current_form))
    BY <1>2 DEF Begin, forms
  <2>2. tmp = NoButton
    BY <2>1 DEF UpdateTypes, PointerTypes
  <2>3. ~shorter' => Whole'
    BY <2>1, <2>2 DEF Whole
  <2>4. Fits'
    BY <2>1 DEF Fits
  <2>5. ~outside
    BY <2>1 DEF vars
  <2>6. QED
    BY <2>1, <2>3, <2>4, <2>5 DEF WalkInv
<1>3. CASE Create
  <2>1. gui_pc = "create" /\ gui_pc' = "delay" /\ UNCHANGED outside
    BY <1>3 DEF Create
  <2>2. ~outside
    BY <2>1 DEF vars
  <2>3. QED
    BY <2>1, <2>2 DEF WalkInv, Updating
<1>4. CASE Walks
  <2>1. UNCHANGED <<shorter, outside>> /\ Updating
    BY <1>4, WalksAre
  <2>2. ~shorter => Whole' /\ Fits'
    BY <1>4, <2>1, WalksFit DEF WalkInv
  <2>3. QED
    BY <2>1, <2>2 DEF WalkInv
<1>5. CASE Leave
  <2>1. shorter /\ shorter' = shorter
    BY <1>5, LeaveOnlyShorter DEF Leave, UnchangedByUpdate
  <2>2. QED
    BY <2>1 DEF WalkInv
<1>6. QED
  BY <1>1, <1>2, <1>3, <1>4, <1>5 DEF Other, OtherPens, guiupdate_task, Walks

-----------------------------------------------------------------------------
(* The buttons an update clicks.                                           *)
LEMMA TheseAre ==
  /\ These(1, 0) = {}
  /\ \A p \in Nat : /\ These(1, p - 1) \cup {<<current_form, p>>} \subseteq These(1, p) \/ p = 0
                    /\ \A n \in Nat : These(p, n) \ {<<current_form, p>>} \subseteq These(p + 1, n)
                    /\ These(p + 1, p) = {}
<1>1. These(1, 0) = {}
  BY DEF These
<1>2. ASSUME NEW p \in Nat, p # 0
      PROVE  These(1, p - 1) \cup {<<current_form, p>>} \subseteq These(1, p)
  <2>1. p \in 1 .. p /\ \A m \in 1 .. p - 1 : m \in 1 .. p
    BY <1>2
  <2>2. QED
    BY <2>1 DEF These
<1>3. ASSUME NEW p \in Nat, NEW n \in Nat
      PROVE  These(p, n) \ {<<current_form, p>>} \subseteq These(p + 1, n)
  <2>1. \A m \in p .. n : m = p \/ m \in p + 1 .. n
    OBVIOUS
  <2>2. QED
    BY <2>1 DEF These
<1>4. ASSUME NEW p \in Nat PROVE These(p + 1, p) = {}
  <2>1. p + 1 .. p = {}
    OBVIOUS
  <2>2. QED
    BY <2>1 DEF These
<1>5. QED
  BY <1>1, <1>2, <1>3, <1>4

LEMMA CountedNat ==
  ASSUME ListTypes, UpdateTypes
  PROVE  Counted \in Nat
<1>1. "buttons" \in Kinds /\ current_form \in Forms
  BY DEF Kinds, UpdateTypes
<1>2. lists[current_form]["buttons"].number \in 0 .. Amount(current_form, "buttons")
  BY <1>1, ListsAre
<1>3. QED
  BY <1>2 DEF Counted

(* No button is nowhere.                                                   *)
LEMMA PlacesAre ==
  ASSUME NEW b \in AllButtons
  PROVE  Buttons[b[1]][b[2]] \subseteq Places /\ Nowhere \notin Buttons[b[1]][b[2]]
<1>1. PICK f \in Forms : \E i \in DOMAIN Buttons[f] : b = <<f, i>>
  BY DEF AllButtons
<1>2. PICK i \in DOMAIN Buttons[f] : b = <<f, i>>
  BY <1>1
<1>3. \A j \in DOMAIN Buttons[f] : Buttons[f][j] \subseteq Places
  <2>1. CASE f = "main"
    BY <2>1 DEF Buttons, Places, Lowest
  <2>2. CASE f = "origin"
    BY <2>2 DEF Buttons, Places, Lowest
  <2>3. CASE f = "gnss"
    BY <2>3 DEF Buttons, Places, Lowest
  <2>4. CASE f = "sensor"
    BY <2>4 DEF Buttons, Places, Lowest
  <2>5. CASE f = "fusion"
    BY <2>5 DEF Buttons, Places, Lowest
  <2>6. CASE f = "calibrate"
    BY <2>6 DEF Buttons, Places, Lowest
  <2>7. CASE f = "mag"
    BY <2>7 DEF Buttons, Places, Lowest
  <2>8. CASE f = "touch"
    BY <2>8 DEF Buttons, Places, Lowest
  <2>9. QED
    BY <2>1, <2>2, <2>3, <2>4, <2>5, <2>6, <2>7, <2>8, FormsAre
<1>4. Nowhere \notin Places
  BY DEF Nowhere, Places
<1>5. QED
  BY <1>2, <1>3, <1>4

LEMMA CallbackClickInv ==
  ASSUME UpdateTypes, ClickInv, NEW r, Effect(r)
  PROVE  ClickInv'
<1>1. UNCHANGED <<gui_pc, item, counter, tmp>>
  BY DEF Effect, UnchangedByCallback, update
<1>2. CASE UNCHANGED <<forms, clicked, torn>>
  BY <1>1, <1>2 DEF ClickInv, Counted, These, forms
<1>3. CASE torn' = (torn \/ (Updating /\ item # Nowhere)) /\ clicked' \subseteq clicked
  <2>1. SUFFICES ASSUME ~torn' PROVE item = Nowhere /\ clicked' = {}
    BY <1>1 DEF ClickInv
  <2>2. ~torn /\ item = Nowhere
    BY <1>3, <2>1 DEF UpdateTypes, Updating
  <2>3. clicked = {}
    BY <2>2 DEF ClickInv
  <2>4. QED
    BY <1>3, <2>2, <2>3
<1>4. QED
  BY <1>2, <1>3 DEF Effect, CutBy, ClearBy, BindBy, ShowBy, Disturb

(* Whether it was touched nowhere: the update for that clicks nothing.     *)
LEMMA NothingClicked ==
  ASSUME UpdateTypes, ListTypes, Walks, item = Nowhere, clicked = {}
  PROVE  clicked' = {}
<1>1. CASE Mark
  <2>1. gui_pc = "mark" /\ InList("buttons")
        /\ clicked' = IF item \in Buttons[tmp[1]][tmp[2]] THEN clicked \cup {tmp} ELSE clicked
    BY <1>1 DEF Mark
  <2>2. tmp \in AllButtons
    <3>1. tmp # NoButton
      BY <2>1 DEF UpdateTypes, PointerTypes
    <3>2. tmp[1] \in Forms /\ tmp[2] \in Nat \ {0} /\ tmp = <<tmp[1], tmp[2]>>
      BY <3>1, PointerIs
    <3>3. QED
      BY <2>1, <3>2, InListIs
  <2>3. Nowhere \notin Buttons[tmp[1]][tmp[2]]
    BY <2>2, PlacesAre
  <2>4. QED
    BY <2>1, <2>3
<1>2. CASE Draw
  BY <1>2 DEF Draw
<1>3. CASE ReadButtonNum \/ ReadLabelNum \/ ReadFirst \/ ReadAgain \/ DrawLabel
  BY <1>3 DEF ReadButtonNum, ReadLabelNum, ReadFirst, ReadAgain, DrawLabel
<1>4. QED
  BY <1>1, <1>2, <1>3 DEF Walks

LEMMA WalksClickInv ==
  ASSUME UpdateTypes, ListTypes, ClickInv, Walks
  PROVE  ClickInv'
<1>1. /\ UNCHANGED <<torn, item, lists, current_form>>
      /\ UNCHANGED Counted /\ \A i, j : UNCHANGED These(i, j)
  BY WalksAre DEF Counted, These
<1>2. SUFFICES ASSUME ~torn PROVE ClickInv'
  BY <1>1 DEF ClickInv
<1>3. CASE item = Nowhere
  <2>1. clicked' = {}
    BY <1>2, <1>3, NothingClicked DEF ClickInv
  <2>2. QED
    BY <1>1, <1>3, <2>1 DEF ClickInv
<1>4. CASE item # Nowhere
  <2> DEFINE C == /\ gui_pc' \in {"label number", "mark first", "draw first"} => counter' = Counted
                  /\ gui_pc' \in {"mark", "draw"} => tmp'[1] = current_form /\ tmp'[2] + counter' = Counted + 1
             D == /\ gui_pc' \notin {"mark", "number again", "draw first", "draw", "lost"} => clicked' = {}
                  /\ gui_pc' = "mark" => clicked' \subseteq These(1, tmp'[2] - 1)
                  /\ gui_pc' \in {"number again", "draw first"} => clicked' \subseteq These(1, Counted)
                  /\ gui_pc' = "draw" => clicked' \subseteq These(tmp'[2], Counted)
  <2>1. SUFFICES C /\ D
    BY <1>1, <1>4 DEF ClickInv
  <2>2. PICK n \in Nat, c \in Nat : n = Counted /\ c = counter
    <3>1. counter \in 0 .. 4
      BY DEF UpdateTypes, CounterTypes
    <3>2. QED
      BY <3>1, CountedNat
  <2>3. PICK p \in Nat : gui_pc \in {"mark", "draw"} => p = tmp[2] /\ p # 0 /\ tmp = <<tmp[1], tmp[2]>>
    <3>1. CASE gui_pc \in {"mark", "draw"}
      BY <3>1, PointerIs DEF UpdateTypes, PointerTypes
    <3>2. QED
      BY <3>1
  <2>4. gui_pc \notin {"mark", "number again", "draw first", "draw", "lost"} => clicked = {}
    BY <1>2 DEF ClickInv
  <2>5. /\ gui_pc \in {"label number", "mark first", "draw first"} => c = n
        /\ gui_pc \in {"mark", "draw"} => tmp[1] = current_form /\ p + c = n + 1
        /\ gui_pc = "mark" => clicked \subseteq These(1, p - 1)
        /\ gui_pc \in {"number again", "draw first"} => clicked \subseteq These(1, n)
        /\ gui_pc = "draw" => clicked \subseteq These(p, n)
    BY <1>2, <1>4, <2>2, <2>3 DEF ClickInv
  <2>6. CASE ReadButtonNum \/ ReadLabelNum
    <3>1. /\ clicked' = clicked
          /\ \/ gui_pc = "number" /\ gui_pc' = "label number" /\ counter' = Counted
             \/ /\ gui_pc = "label number" /\ gui_pc' \in {"mark first", "label first", "create"}
                /\ counter' = counter
      BY <2>6, WalksAre DEF ReadButtonNum, ReadLabelNum, Counted
    <3>2. QED
      BY <2>2, <2>4, <2>5, <3>1
  <2>7. CASE ReadAgain
    <3>1. clicked' = clicked /\ gui_pc = "number again" /\ gui_pc' = "draw first" /\ counter' = Counted
      BY <2>7 DEF ReadAgain, Displayed, Counted
    <3>2. QED
      BY <2>2, <2>5, <3>1
  <2>8. CASE ReadFirst
    <3>1. /\ clicked' = clicked /\ tmp' = <<current_form, 1>> /\ counter' = counter
          /\ \/ gui_pc = "mark first" /\ gui_pc' = "mark"
             \/ gui_pc = "draw first" /\ gui_pc' = (IF counter = 0 THEN AfterDraw ELSE "draw")
             \/ gui_pc = "label first" /\ gui_pc' = "label"
      BY <2>8 DEF ReadFirst
    <3>2. CASE gui_pc = "mark first" /\ gui_pc' = "mark"
      <4>1. clicked' = {} /\ tmp'[1] = current_form /\ tmp'[2] = 1 /\ counter' = n
        BY <2>2, <2>4, <2>5, <3>1, <3>2
      <4>2. tmp'[2] + counter' = n + 1
        BY <4>1
      <4>3. QED
        BY <2>2, <3>2, <4>1, <4>2
    <3>3. CASE gui_pc = "draw first" /\ c # 0 /\ gui_pc' = "draw"
      <4>1. clicked' \subseteq These(1, n) /\ tmp'[1] = current_form /\ tmp'[2] = 1 /\ counter' = n
        BY <2>2, <2>5, <3>1, <3>3
      <4>2. tmp'[2] + counter' = n + 1
        BY <4>1
      <4>3. QED
        BY <2>2, <3>3, <4>1, <4>2
    <3>4. CASE gui_pc = "draw first" /\ c = 0 /\ gui_pc' \in {"create", "label first"}
      <4>1. clicked' \subseteq These(1, 0)
        BY <2>2, <2>5, <3>1, <3>4
      <4>2. clicked' = {}
        BY <4>1, TheseAre
      <4>3. QED
        BY <3>4, <4>2
    <3>5. CASE gui_pc = "label first" /\ gui_pc' = "label"
      BY <2>4, <3>1, <3>5
    <3>6. QED
      BY <2>2, <3>1, <3>2, <3>3, <3>4, <3>5 DEF AfterDraw
  <2>9. CASE Mark
    <3>1. /\ gui_pc = "mark" /\ tmp' = <<tmp[1], tmp[2] + 1>> /\ counter' = counter - 1
          /\ gui_pc' = (IF counter' = 0 THEN "number again" ELSE "mark")
          /\ clicked' \subseteq clicked \cup {tmp}
      BY <2>9 DEF Mark, AfterMark
    <3>2. /\ clicked' \subseteq These(1, p - 1) \cup {<<current_form, p>>} /\ p # 0
          /\ p + c = n + 1 /\ tmp'[1] = current_form /\ tmp'[2] = p + 1 /\ counter' = c - 1
      BY <2>2, <2>3, <2>5, <3>1
    <3>3. clicked' \subseteq These(1, p)
      BY <3>2, TheseAre
    <3>4. (p + 1) + (c - 1) = n + 1 /\ (p + 1) - 1 = p /\ (c - 1 = 0 => p = n)
      BY <3>2
    <3>5. CASE counter' = 0
      <4>1. p = n /\ gui_pc' = "number again"
        BY <3>1, <3>2, <3>4, <3>5
      <4>2. QED
        BY <2>2, <3>3, <4>1
    <3>6. CASE counter' # 0
      <4>1. gui_pc' = "mark"
        BY <3>1, <3>6
      <4>2. tmp'[2] - 1 = p /\ tmp'[2] + counter' = n + 1
        BY <3>2, <3>4
      <4>3. QED
        BY <2>2, <3>2, <3>3, <4>1, <4>2
    <3>7. QED
      BY <3>5, <3>6
  <2>10. CASE Draw
    <3>1. /\ gui_pc = "draw" /\ tmp' = <<tmp[1], tmp[2] + 1>> /\ counter' = counter - 1
          /\ gui_pc' = (IF counter' = 0 THEN AfterDraw ELSE "draw")
          /\ clicked' = clicked \ {tmp}
      BY <2>10 DEF Draw
    <3>2. /\ clicked' \subseteq These(p, n) \ {<<current_form, p>>}
          /\ p + c = n + 1 /\ tmp'[1] = current_form /\ tmp'[2] = p + 1 /\ counter' = c - 1
      BY <2>2, <2>3, <2>5, <3>1
    <3>3. clicked' \subseteq These(p + 1, n)
      BY <3>2, TheseAre
    <3>4. (p + 1) + (c - 1) = n + 1 /\ (c - 1 = 0 => p = n)
      BY <3>2
    <3>5. CASE counter' = 0
      <4>1. p = n /\ gui_pc' \in {"create", "label first"}
        BY <3>1, <3>2, <3>4, <3>5 DEF AfterDraw
      <4>2. clicked' = {}
        BY <3>3, <4>1, TheseAre
      <4>3. QED
        BY <4>1, <4>2
    <3>6. CASE counter' # 0
      <4>1. gui_pc' = "draw"
        BY <3>1, <3>6
      <4>2. tmp'[2] + counter' = n + 1
        BY <3>2, <3>4
      <4>3. QED
        BY <2>2, <3>2, <3>3, <4>1, <4>2
    <3>7. QED
      BY <3>5, <3>6
  <2>11. CASE DrawLabel
    <3>1. gui_pc = "label" /\ gui_pc' \in {"label", "create"} /\ clicked' = clicked
      BY <2>11 DEF DrawLabel
    <3>2. QED
      BY <2>4, <3>1
  <2>12. QED
    BY <2>6, <2>7, <2>8, <2>9, <2>10, <2>11 DEF Walks
<1>5. QED
  BY <1>3, <1>4

LEMMA OtherClickInv ==
  ASSUME UpdateTypes, ListTypes, ClickInv, Other
  PROVE  ClickInv'
<1>1. CASE OtherPens
  <2>1. UNCHANGED <<gui_pc, item, counter, tmp, clicked, torn, lists, current_form>>
    BY <1>1 DEF OtherPens, Touch, Lift, touchscan_task, Wake, Mask, Scan, Unmask, update, forms, vars,
                history
  <2>2. QED
    BY <2>1 DEF ClickInv, Counted, These
<1>2. CASE Begin
  <2>1. gui_pc = "delay" /\ gui_pc' = "number" /\ UNCHANGED <<torn, clicked>>
    BY <1>2 DEF Begin
  <2>2. QED
    BY <2>1 DEF ClickInv
<1>3. CASE Create
  <2>1. gui_pc = "create" /\ gui_pc' = "delay" /\ UNCHANGED <<torn, clicked>>
    BY <1>3 DEF Create
  <2>2. QED
    BY <2>1 DEF ClickInv
<1>4. CASE Walks
  BY <1>4, WalksClickInv
<1>5. CASE Leave
  <2>1. gui_pc' = "lost" /\ UNCHANGED <<torn, clicked, item>>
    BY <1>5 DEF Leave, UnchangedByUpdate
  <2>2. QED
    BY <2>1 DEF ClickInv
<1>6. QED
  BY <1>1, <1>2, <1>3, <1>4, <1>5 DEF Other, OtherPens, guiupdate_task, Walks

-----------------------------------------------------------------------------
(* The touch and the button it was aimed at.                               *)
LEMMA OnePlace ==
  ASSUME NEW f \in Forms, NEW i \in DOMAIN Buttons[f], NEW j \in DOMAIN Buttons[f],
         NEW p, p \in Buttons[f][i], p \in Buttons[f][j]
  PROVE  i = j
<1>1. CASE f = "main"
  BY <1>1 DEF Buttons, Lowest
<1>2. CASE f = "origin"
  BY <1>2 DEF Buttons, Lowest
<1>3. CASE f = "gnss"
  BY <1>3 DEF Buttons, Lowest
<1>4. CASE f = "sensor"
  BY <1>4 DEF Buttons, Lowest
<1>5. CASE f = "fusion"
  BY <1>5 DEF Buttons, Lowest
<1>6. CASE f = "calibrate"
  BY <1>6 DEF Buttons, Lowest
<1>7. CASE f = "mag"
  BY <1>7 DEF Buttons, Lowest
<1>8. CASE f = "touch"
  BY <1>8 DEF Buttons, Lowest
<1>9. QED
  BY <1>1, <1>2, <1>3, <1>4, <1>5, <1>6, <1>7, <1>8, FormsAre

LEMMA ButtonIs ==
  ASSUME NEW b \in AllButtons, NEW p, p \in Buttons[b[1]][b[2]]
  PROVE  ButtonAt(b[1], p) = b
<1>1. PICK f \in Forms : \E i \in DOMAIN Buttons[f] : b = <<f, i>>
  BY DEF AllButtons
<1>2. PICK i \in DOMAIN Buttons[f] : b = <<f, i>>
  BY <1>1
<1> DEFINE hit == {j \in DOMAIN Buttons[f] : p \in Buttons[f][j]}
<1>3. hit = {i}
  BY <1>2, OnePlace
<1>4. i \in Int
  BY FormFacts
<1>5. Max({i}) = i
  BY <1>4 DEF Max
<1>6. ButtonAt(f, p) = <<f, Max(hit)>>
  BY <1>3 DEF ButtonAt
<1>7. QED
  BY <1>2, <1>3, <1>5, <1>6

LEMMA CallbackAimInv ==
  ASSUME AimInv, NEW r, r \in Tasks, Effect(r)
  PROVE  AimInv'
<1>1. UNCHANGED <<pen, event, touch_pc, queue, item, pressed_button, gui_pc, aim, hurried, failed>>
  BY DEF Effect, UnchangedByCallback, update, pens
<1>2. clicked' \subseteq clicked
  BY DEF Effect, CutBy, ClearBy, BindBy, ShowBy
<1>3. callbacks # <<>>
  BY TasksAre
<1>4. SUFFICES ASSUME ~hurried PROVE AimInv'
  BY <1>1 DEF AimInv
<1>5. ToScan' <=> ToScan
  BY <1>1 DEF ToScan
<1>6. CASE ~ToScan /\ failed
  BY <1>1, <1>5, <1>6 DEF AimInv
<1>7. CASE /\ ~ToScan /\ clicked \subseteq {aim} /\ pressed_button \in {NoButton, aim}
           /\ queue = <<>> /\ item = Nowhere
  BY <1>1, <1>2, <1>5, <1>7 DEF AimInv
<1>8. QED
  BY <1>3, <1>4, <1>6, <1>7 DEF AimInv, Idle

LEMMA PensAimInv ==
  ASSUME TouchGuiAssumption, PenTypes, AimInv, OtherPens
  PROVE  AimInv'
<1>1. ASSUME NEW p \in Places, Touch(p) PROVE AimInv'
  <2>1. SUFFICES ASSUME ~hurried' PROVE AimInv'
    BY DEF AimInv
  <2>2. Quiet /\ aim' = ButtonAt(current_form, p) /\ pen' = p /\ event' = (event \/ ~masked)
        /\ UNCHANGED <<touch_pc, queue, item, pressed_button, callbacks, clicked, current_form>>
    BY <1>1, <2>1 DEF Touch, update, forms
  <2>3. ~masked
    BY <2>2 DEF Quiet, PenTypes
  <2>4. ToScan' /\ touch_pc' = "wait"
    BY <2>2, <2>3 DEF ToScan, Quiet
  <2>5. queue' = <<>> /\ Idle'
    BY <2>2 DEF Quiet, Idle
  <2>6. QED
    BY <2>2, <2>4, <2>5 DEF AimInv
<1>2. CASE Lift
  <2>1. pen' = Nowhere /\ UNCHANGED <<event, touch_pc, queue, gui_pc, tmp, item, pressed_button, callbacks,
                                      clicked, current_form, aim, hurried, failed>>
    BY <1>2 DEF Lift, update, forms, history
  <2>2. (ToScan' <=> ToScan) /\ (Idle' <=> Idle)
    BY <2>1 DEF ToScan, Idle
  <2>3. QED
    BY <2>1, <2>2 DEF AimInv
<1>3. CASE Wake \/ Mask
  <2>1. /\ UNCHANGED <<pen, queue, gui_pc, tmp, item, pressed_button, callbacks,
                       clicked, current_form, aim, hurried, failed>>
        /\ ToScan /\ ToScan' /\ (~event' \/ (event' = event /\ touch_pc = "mask"))
    BY <1>3 DEF Wake, Mask, update, forms, history, ToScan
  <2>2. SUFFICES ASSUME ~hurried PROVE AimInv'
    BY <2>1 DEF AimInv
  <2>3. /\ event => touch_pc = "wait"
        /\ queue = <<>> /\ Idle /\ (pen # Nowhere => aim = ButtonAt(current_form, pen))
    BY <2>1, <2>2 DEF AimInv
  <2>4. ~event' /\ Idle'
    BY <2>1, <2>3 DEF Idle
  <2>5. QED
    BY <2>1, <2>3, <2>4 DEF AimInv
<1>4. CASE Scan
  <2>1. /\ UNCHANGED <<event, gui_pc, tmp, item, pressed_button, callbacks,
                       clicked, current_form, aim, hurried>>
        /\ touch_pc = "scan" /\ touch_pc' = "release"
        /\ (pen # Nowhere /\ pos' = pen) \/ failed'
        /\ queue' = IF Len(queue) < QueueLength THEN Append(queue, pos') ELSE queue
    BY <1>4 DEF Scan, update, forms, history
  <2>2. SUFFICES ASSUME ~hurried PROVE AimInv'
    BY <2>1 DEF AimInv
  <2>3. /\ event => touch_pc = "wait"
        /\ queue = <<>> /\ Idle /\ (pen # Nowhere => aim = ButtonAt(current_form, pen))
    BY <2>1, <2>2 DEF AimInv, ToScan
  <2>4. ~ToScan' /\ Idle'
    BY <2>1, <2>3 DEF Idle, ToScan
  <2>5. queue' = <<pos'>>
    <3>1. Len(queue) < QueueLength
      BY <2>3 DEF TouchGuiAssumption
    <3>2. QED
      BY <2>1, <2>3, <3>1
  <2>6. CASE failed'
    BY <2>4, <2>6 DEF AimInv
  <2>7. CASE pen # Nowhere /\ pos' = pen
    <3>1. Len(queue') = 1 /\ aim' = ButtonAt(current_form', Head(queue'))
      BY <2>1, <2>3, <2>5, <2>7
    <3>2. clicked' \subseteq {aim'} /\ pressed_button' \in {NoButton, aim'}
      BY <2>4 DEF Idle
    <3>3. QED
      BY <2>4, <3>1, <3>2 DEF AimInv
  <2>8. QED
    BY <2>1, <2>6, <2>7
<1>5. CASE Unmask
  <2>1. /\ UNCHANGED <<pen, event, queue, gui_pc, tmp, item, pressed_button, callbacks,
                       clicked, current_form, aim, hurried, failed>>
        /\ touch_pc = "release" /\ touch_pc' = "wait"
    BY <1>5 DEF Unmask, update, forms, history
  <2>2. (ToScan' <=> ToScan) /\ (Idle' <=> Idle)
    BY <2>1 DEF ToScan, Idle
  <2>3. QED
    BY <2>1, <2>2 DEF AimInv
<1>6. CASE UNCHANGED vars
  <2>1. UNCHANGED <<pen, event, touch_pc, queue, gui_pc, tmp, item, pressed_button, callbacks,
                    clicked, current_form, aim, hurried, failed>>
    BY <1>6 DEF vars, pens, update, forms, history
  <2>2. (ToScan' <=> ToScan) /\ (Idle' <=> Idle)
    BY <2>1 DEF ToScan, Idle
  <2>3. QED
    BY <2>1, <2>2 DEF AimInv
<1>7. QED
  BY <1>1, <1>2, <1>3, <1>4, <1>5, <1>6 DEF OtherPens, touchscan_task

LEMMA BeginAimInv ==
  ASSUME PenTypes, AimInv, Begin
  PROVE  AimInv'
<1>1. /\ UNCHANGED <<pen, event, touch_pc, clicked, current_form, aim, hurried, failed>>
      /\ pressed_button' = NoButton /\ gui_pc' = "number"
      /\ item' = (IF queue = <<>> THEN Nowhere ELSE Head(queue))
      /\ queue' = (IF queue = <<>> THEN <<>> ELSE Tail(queue))
      /\ callbacks' = [c \in DOMAIN callbacks |-> [callbacks[c] EXCEPT !.new = FALSE]]
  BY DEF Begin, pens, forms
<1>2. SUFFICES ASSUME ~hurried PROVE AimInv'
  BY <1>1 DEF AimInv
<1>3. ToScan' <=> ToScan
  BY <1>1 DEF ToScan
<1>4. callbacks = <<>> => callbacks' = <<>>
  BY <1>1
<1>5. CASE ToScan
  <2>1. /\ event => touch_pc = "wait"
        /\ queue = <<>> /\ Idle /\ (pen # Nowhere => aim = ButtonAt(current_form, pen))
    BY <1>2, <1>5 DEF AimInv
  <2>2. queue' = <<>> /\ Idle'
    BY <1>1, <1>4, <2>1 DEF Idle
  <2>3. QED
    BY <1>1, <1>3, <1>5, <2>1, <2>2 DEF AimInv
<1>6. CASE ~ToScan /\ failed
  BY <1>1, <1>3, <1>6 DEF AimInv
<1>7. CASE ~ToScan /\ ~failed
  <2>1. /\ clicked \subseteq {aim} /\ pressed_button \in {NoButton, aim}
        /\ \/ queue = <<>>
           \/ Len(queue) = 1 /\ Idle /\ aim = ButtonAt(current_form, Head(queue))
    BY <1>2, <1>7 DEF AimInv
  <2>2. CASE queue = <<>>
    BY <1>1, <1>3, <1>7, <2>1, <2>2 DEF AimInv
  <2>3. CASE queue # <<>> /\ Len(queue) = 1 /\ Idle /\ aim = ButtonAt(current_form, Head(queue))
    <3>1. queue' = <<>> /\ item' = Head(queue)
      BY <1>1, <2>3 DEF PenTypes
    <3>2. callbacks' = <<>> /\ aim' = ButtonAt(current_form', item')
      BY <1>1, <1>4, <2>3, <3>1 DEF Idle
    <3>3. QED
      BY <1>1, <1>3, <1>7, <2>1, <3>1, <3>2 DEF AimInv
  <2>4. QED
    BY <2>1, <2>2, <2>3
<1>8. QED
  BY <1>5, <1>6, <1>7

LEMMA CreateAimInv ==
  ASSUME AimInv, Create
  PROVE  AimInv'
<1>1. /\ UNCHANGED <<pen, event, touch_pc, queue, clicked, current_form, aim, hurried, failed>>
      /\ pressed_button' = NoButton /\ gui_pc' = "delay" /\ item' = Nowhere
      /\ pressed_button = NoButton => callbacks' = callbacks
  BY DEF Create, pens, forms
<1>2. SUFFICES ASSUME ~hurried PROVE AimInv'
  BY <1>1 DEF AimInv
<1>3. (ToScan' <=> ToScan) /\ (Idle => Idle')
  BY <1>1 DEF ToScan, Idle
<1>4. QED
  BY <1>1, <1>2, <1>3, Zenon DEF AimInv

LEMMA WalksAimInv ==
  ASSUME UpdateTypes, ListTypes, AimInv, Walks
  PROVE  AimInv'
<1>1. UNCHANGED <<pen, event, touch_pc, queue, item, callbacks, current_form, aim, hurried, failed>>
  BY WalksAre DEF pens
<1>2. SUFFICES ASSUME ~hurried, ~(~ToScan /\ failed) PROVE AimInv'
  BY <1>1 DEF AimInv, ToScan
<1>3. ToScan' <=> ToScan
  BY <1>1 DEF ToScan
<1>4. \/ UNCHANGED <<clicked, pressed_button>>
      \/ /\ Mark /\ pressed_button' = pressed_button
         /\ clicked' = IF item \in Buttons[tmp[1]][tmp[2]] THEN clicked \cup {tmp} ELSE clicked
      \/ /\ clicked' \subseteq clicked
         /\ pressed_button' = IF tmp \in clicked THEN tmp ELSE pressed_button
  BY DEF Walks, ReadButtonNum, ReadLabelNum, ReadFirst, Mark, ReadAgain, Draw, DrawLabel
<1>5. Idle => Idle'
  <2>1. ASSUME Idle PROVE Idle'
    <3>1. clicked' = {}
      BY <2>1, NothingClicked DEF Idle
    <3>2. pressed_button' = NoButton
      BY <1>4, <2>1 DEF Idle
    <3>3. QED
      BY <1>1, <2>1, <3>1, <3>2 DEF Idle
  <2>2. QED
    BY <2>1
<1>6. CASE ToScan
  BY <1>1, <1>2, <1>3, <1>5, <1>6 DEF AimInv
<1>7. CASE ~ToScan
  <2>1. clicked \subseteq {aim} /\ pressed_button \in {NoButton, aim}
    BY <1>2, <1>7 DEF AimInv
  <2>2. CASE Len(queue) = 1 /\ Idle /\ aim = ButtonAt(current_form, Head(queue))
    <3>1. clicked' \subseteq {aim'} /\ pressed_button' \in {NoButton, aim'}
      BY <1>5, <2>2 DEF Idle
    <3>2. QED
      BY <1>1, <1>3, <1>5, <1>7, <2>2, <3>1 DEF AimInv
  <2>3. CASE /\ queue = <<>>
             /\ \/ item = Nowhere
                \/ /\ callbacks = <<>> /\ aim = ButtonAt(current_form, item)
                   /\ gui_pc \in {"mark", "draw"} => tmp[1] = current_form
    <3>1. clicked' \subseteq {aim} /\ pressed_button' \in {NoButton, aim}
      <4>1. CASE Mark /\ item \in Buttons[tmp[1]][tmp[2]]
        <5>1. gui_pc = "mark" /\ InList("buttons") /\ tmp # NoButton
          BY <4>1 DEF Mark, UpdateTypes, PointerTypes
        <5>2. tmp[1] \in Forms /\ tmp[2] \in Nat \ {0} /\ tmp = <<tmp[1], tmp[2]>>
          BY <5>1, PointerIs
        <5>3. tmp \in AllButtons
          BY <5>1, <5>2, InListIs
        <5>4. item # Nowhere
          BY <4>1, <5>3, PlacesAre
        <5>5. tmp = aim
          BY <2>3, <4>1, <5>1, <5>3, <5>4, ButtonIs
        <5>6. pressed_button' = pressed_button /\ clicked' = clicked \cup {tmp}
          BY <4>1 DEF Mark
        <5>7. QED
          BY <2>1, <5>5, <5>6
      <4>2. QED
        BY <1>4, <2>1, <4>1
    <3>2. gui_pc' \in {"mark", "draw"} =>
            (gui_pc \in {"mark", "draw"} /\ tmp'[1] = tmp[1]) \/ tmp'[1] = current_form
      <4>1. \/ gui_pc' \notin {"mark", "draw"}
            \/ tmp' = <<current_form, 1>>
            \/ gui_pc \in {"mark", "draw"} /\ tmp' = <<tmp[1], tmp[2] + 1>>
        BY WalksAre
      <4>2. QED
        BY <4>1
    <3>3. QED
      BY <1>1, <1>3, <1>7, <2>3, <3>1, <3>2 DEF AimInv
  <2>4. QED
    BY <1>2, <1>7, <2>2, <2>3 DEF AimInv
<1>8. QED
  BY <1>6, <1>7

LEMMA OtherAimInv ==
  ASSUME TouchGuiAssumption, PenTypes, UpdateTypes, ListTypes, AimInv, Other
  PROVE  AimInv'
<1>1. CASE OtherPens
  BY <1>1, PensAimInv
<1>2. CASE Begin
  BY <1>2, BeginAimInv
<1>3. CASE Create
  BY <1>3, CreateAimInv
<1>4. CASE Walks
  BY <1>4, WalksAimInv
<1>5. CASE Leave
  <2>1. /\ UNCHANGED <<pen, event, touch_pc, queue, item, pressed_button, callbacks,
                       clicked, current_form, aim, hurried, failed>>
        /\ gui_pc' = "lost"
    BY <1>5 DEF Leave, UnchangedByUpdate, pens, forms
  <2>2. (ToScan' <=> ToScan) /\ (Idle' <=> Idle)
    BY <2>1 DEF ToScan, Idle
  <2>3. QED
    BY <2>1, <2>2 DEF AimInv
<1>6. QED
  BY <1>1, <1>2, <1>3, <1>4, <1>5 DEF Other, OtherPens, guiupdate_task, Walks

-----------------------------------------------------------------------------
(* The callbacks that set the size, step by step.                          *)
Is(r, d, left) == r.done = d /\ Left(r) = left

LEMMA SensorSteps ==
  ASSUME NEW r \in Record, Left(r) > 0, r.button = <<"origin", 2>>
  PROVE  /\ Target(r.button) = "sensor" /\ Left(r) = 14 - r.done
         /\ Busy(r) <=> r.done \in 0 .. 11
         /\ Busy(r) => At(r) = r.done
         /\ \/ r.done \in 0 .. 11
            \/ Is(r, 12, 2) /\ Todo(r, 1) = <<"send", 3>> /\ Todo(r, 2) = <<"size", 96>>
            \/ Is(r, 13, 1) /\ Todo(r, 1) = <<"size", 96>>
<1>1. PICK b \in AllButtons : b = r.button
  BY RecordIs
<1>2. PICK f \in Forms : f = "sensor"
  BY FormsAre
<1>3. Target(b) = f /\ Before(b) = 0 /\ Elements(f) = 8
  <2>1. Target(b) = f
    BY <1>1, <1>2, TargetIs
  <2>2. Before(b) = 0
    BY <1>1 DEF Before
  <2>3. Labels[f] = 7 /\ Len(Buttons[f]) = 1
    BY <1>2, Numbers
  <2>4. Elements(f) = 8
    BY <2>3 DEF Elements
  <2>5. QED
    BY <2>1, <2>2, <2>4
<1>4. /\ Len(Script(b)) = 14
      /\ Script(b)[13] = <<"send", 3>> /\ Script(b)[14] = <<"size", 96>>
  BY <1>1, SensorScript
<1>5. PICK d \in Nat : d = r.done
  BY RecordIs
<1>6. Left(r) = 14 - d /\ d < 14 /\ At(r) = d
  <2>1. Left(r) = 14 - d
    BY <1>1, <1>4, <1>5 DEF Left
  <2>2. At(r) = d
    BY <1>1, <1>3, <1>5 DEF At
  <2>3. QED
    BY <2>1, <2>2
<1>7. Busy(r) <=> d \in 0 .. 11
  BY <1>1, <1>2, <1>3, <1>6 DEF Busy, Opens
<1>8. d \in 0 .. 11 \/ d = 12 \/ d = 13
  BY <1>6
<1>9. CASE d = 12
  <2>1. Todo(r, 1) = Script(b)[13] /\ Todo(r, 2) = Script(b)[14] /\ Is(r, 12, 2)
    BY <1>1, <1>5, <1>6, <1>9 DEF Todo, Is
  <2>2. QED
    BY <1>1, <1>2, <1>3, <1>4, <1>5, <1>6, <1>7, <2>1
<1>10. CASE d = 13
  <2>1. Todo(r, 1) = Script(b)[14] /\ Is(r, 13, 1)
    BY <1>1, <1>5, <1>6, <1>10 DEF Todo, Is
  <2>2. QED
    BY <1>1, <1>2, <1>3, <1>4, <1>5, <1>6, <1>7, <2>1
<1>11. QED
  BY <1>1, <1>2, <1>3, <1>5, <1>6, <1>7, <1>8, <1>9, <1>10

LEMMA MagSteps ==
  ASSUME NEW r \in Record, Left(r) > 0, r.button = <<"calibrate", 1>>
  PROVE  /\ Target(r.button) = "mag" /\ Left(r) = 16 - r.done
         /\ Busy(r) <=> r.done \in 2 .. 15
         /\ At(r) = r.done - 2
         /\ \/ r.done \in 2 .. 15
            \/ Is(r, 0, 16) /\ Todo(r, 1) = <<"send", 2>> /\ Todo(r, 2) = <<"size", 96>>
            \/ Is(r, 1, 15) /\ Todo(r, 1) = <<"size", 96>>
<1>1. PICK b \in AllButtons : b = r.button
  BY RecordIs
<1>2. PICK f \in Forms : f = "mag"
  BY FormsAre
<1>3. Target(b) = f /\ Before(b) = 2 /\ Elements(f) = 10
  <2>1. Target(b) = f
    BY <1>1, <1>2, TargetIs
  <2>2. Before(b) = 2
    BY <1>1 DEF Before
  <2>3. Labels[f] = 8 /\ Len(Buttons[f]) = 2
    BY <1>2, Numbers
  <2>4. Elements(f) = 10
    BY <2>3 DEF Elements
  <2>5. QED
    BY <2>1, <2>2, <2>4
<1>4. /\ Len(Script(b)) = 16
      /\ Script(b)[1] = <<"send", 2>> /\ Script(b)[2] = <<"size", 96>>
  BY <1>1, MagScript
<1>5. PICK d \in Nat : d = r.done
  BY RecordIs
<1>6. Left(r) = 16 - d /\ d < 16 /\ At(r) = d - 2
  <2>1. Left(r) = 16 - d
    BY <1>1, <1>4, <1>5 DEF Left
  <2>2. At(r) = d - 2
    BY <1>1, <1>3, <1>5 DEF At
  <2>3. QED
    BY <2>1, <2>2
<1>7. Busy(r) <=> d \in 2 .. 15
  <2>1. Busy(r) <=> At(r) \in 0 .. 8 + 5
    BY <1>1, <1>2, <1>3 DEF Busy, Opens
  <2>2. At(r) \in 0 .. 13 <=> d \in 2 .. 15
    BY <1>6
  <2>3. QED
    BY <2>1, <2>2
<1>8. d \in 2 .. 15 \/ d = 0 \/ d = 1
  BY <1>6
<1>9. CASE d = 0
  <2>1. Todo(r, 1) = Script(b)[1] /\ Todo(r, 2) = Script(b)[2] /\ Is(r, 0, 16)
    BY <1>1, <1>5, <1>6, <1>9 DEF Todo, Is
  <2>2. QED
    BY <1>1, <1>2, <1>3, <1>4, <1>5, <1>6, <1>7, <2>1
<1>10. CASE d = 1
  <2>1. Todo(r, 1) = Script(b)[2] /\ Is(r, 1, 15)
    BY <1>1, <1>5, <1>6, <1>10 DEF Todo, Is
  <2>2. QED
    BY <1>1, <1>2, <1>3, <1>4, <1>5, <1>6, <1>7, <2>1
<1>11. QED
  BY <1>1, <1>2, <1>3, <1>5, <1>6, <1>7, <1>8, <1>9, <1>10

LEMMA BackSteps ==
  ASSUME NEW r \in Record, Left(r) > 0, r.button = <<"sensor", 1>> \/ r.button = <<"mag", 2>>
  PROVE  /\ ~Opens(r.button) /\ ~Busy(r)
         /\ \/ Is(r, 0, 3) /\ Todo(r, 1) = <<"send", 0>> /\ Todo(r, 2) = <<"size", 16>>
            \/ Is(r, 1, 2) /\ Todo(r, 1) = <<"size", 16>>
            \/ Is(r, 2, 1) /\ Todo(r, 1) = <<"show", Parent[r.button[1]]>>
<1>1. PICK b \in AllButtons : b = r.button
  BY RecordIs
<1>2. ~Opens(b) /\ ~Busy(r)
  BY <1>1, TargetIs, FormsAre DEF Opens, Busy
<1>3. /\ Len(Script(b)) = 3
      /\ Script(b)[1] = <<"send", 0>> /\ Script(b)[2] = <<"size", 16>>
      /\ Script(b)[3] = <<"show", Parent[b[1]]>>
  BY <1>1, BackScript
<1>4. PICK d \in Nat : d = r.done
  BY RecordIs
<1>5. Left(r) = 3 - d /\ d < 3
  BY <1>1, <1>3, <1>4 DEF Left
<1>6. d = 0 \/ d = 1 \/ d = 2
  BY <1>5
<1>7. CASE d = 0
  <2>1. Todo(r, 1) = Script(b)[1] /\ Todo(r, 2) = Script(b)[2] /\ Is(r, 0, 3)
    BY <1>1, <1>4, <1>5, <1>7 DEF Todo, Is
  <2>2. QED
    BY <1>1, <1>2, <1>3, <2>1
<1>8. CASE d = 1
  <2>1. Todo(r, 1) = Script(b)[2] /\ Is(r, 1, 2)
    BY <1>1, <1>4, <1>5, <1>8 DEF Todo, Is
  <2>2. QED
    BY <1>1, <1>2, <1>3, <2>1
<1>9. CASE d = 2
  <2>1. Todo(r, 1) = Script(b)[3] /\ Is(r, 2, 1)
    BY <1>1, <1>4, <1>5, <1>9 DEF Todo, Is
  <2>2. QED
    BY <1>1, <1>2, <1>3, <2>1
<1>10. QED
  BY <1>6, <1>7, <1>8, <1>9

LEMMA SampleSteps ==
  ASSUME NEW r \in Record, Left(r) > 0, r.button = <<"mag", 1>>
  PROVE  /\ ~Opens(r.button) /\ ~Busy(r)
         /\ \/ Is(r, 0, 2) /\ Todo(r, 1) = <<"send", 1>> /\ Todo(r, 2) = <<"size", 96>>
            \/ Is(r, 1, 1) /\ Todo(r, 1) = <<"size", 96>>
<1>1. PICK b \in AllButtons : b = r.button
  BY RecordIs
<1>2. ~Opens(b) /\ ~Busy(r)
  BY <1>1, TargetIs, FormsAre DEF Opens, Busy
<1>3. /\ Len(Script(b)) = 2
      /\ Script(b)[1] = <<"send", 1>> /\ Script(b)[2] = <<"size", 96>>
  BY <1>1, SampleScript
<1>4. PICK d \in Nat : d = r.done
  BY RecordIs
<1>5. Left(r) = 2 - d /\ d < 2
  <2>1. Left(r) = 2 - d
    BY <1>1, <1>3, <1>4 DEF Left
  <2>2. QED
    BY <2>1
<1>6. d = 0 \/ d = 1
  BY <1>5
<1>7. CASE d = 0
  <2>1. Todo(r, 1) = Script(b)[1] /\ Todo(r, 2) = Script(b)[2] /\ Is(r, 0, 2)
    BY <1>1, <1>4, <1>5, <1>7 DEF Todo, Is
  <2>2. QED
    BY <1>1, <1>2, <1>3, <2>1
<1>8. CASE d = 1
  <2>1. Todo(r, 1) = Script(b)[2] /\ Is(r, 1, 1)
    BY <1>1, <1>4, <1>5, <1>8 DEF Todo, Is
  <2>2. QED
    BY <1>1, <1>2, <1>3, <2>1
<1>9. QED
  BY <1>6, <1>7, <1>8

(* The command that is sent announces the size that is set next.           *)
LEMMA SizingSteps ==
  ASSUME NEW r \in Record, Left(r) > 0, ~Busy(r), Sizing(r.button)
  PROVE  \/ /\ Left(r) > 1 /\ Todo(r, 1)[1] = "send" /\ Todo(r, 1)[2] \in 0 .. 3
            /\ Todo(r, 2)[1] = "size" /\ (Todo(r, 2)[2] = 96 <=> Todo(r, 1)[2] # 0)
         \/ r.done > 0 /\ Todo(r, 1)[1] = "size" /\ Todo(r, 1)[2] \in {16, 96}
         \/ Todo(r, 1)[1] = "show"
<1>1. ASSUME NEW x \in {<<"send", 0>>, <<"send", 1>>, <<"send", 2>>, <<"send", 3>>}
      PROVE  x[1] = "send" /\ x[2] \in 0 .. 3
  <2>1. 0 \in 0 .. 3 /\ 1 \in 0 .. 3 /\ 2 \in 0 .. 3 /\ 3 \in 0 .. 3
    OBVIOUS
  <2>2. QED
    BY <1>1, <2>1
<1>2. CASE r.button = <<"origin", 2>>
  <2>1. \/ Is(r, 12, 2) /\ Todo(r, 1) = <<"send", 3>> /\ Todo(r, 2) = <<"size", 96>>
        \/ Is(r, 13, 1) /\ Todo(r, 1) = <<"size", 96>>
    BY <1>2, SensorSteps
  <2>2. QED
    BY <1>1, <2>1 DEF Is
<1>3. CASE r.button = <<"calibrate", 1>>
  <2>1. \/ Is(r, 0, 16) /\ Todo(r, 1) = <<"send", 2>> /\ Todo(r, 2) = <<"size", 96>>
        \/ Is(r, 1, 15) /\ Todo(r, 1) = <<"size", 96>>
    BY <1>3, MagSteps
  <2>2. QED
    BY <1>1, <2>1 DEF Is
<1>4. CASE r.button = <<"sensor", 1>> \/ r.button = <<"mag", 2>>
  <2>1. \/ Is(r, 0, 3) /\ Todo(r, 1) = <<"send", 0>> /\ Todo(r, 2) = <<"size", 16>>
        \/ Is(r, 1, 2) /\ Todo(r, 1) = <<"size", 16>>
        \/ Todo(r, 1)[1] = "show"
    BY <1>4, BackSteps
  <2>2. QED
    BY <1>1, <2>1 DEF Is
<1>5. CASE r.button = <<"mag", 1>>
  <2>1. \/ Is(r, 0, 2) /\ Todo(r, 1) = <<"send", 1>> /\ Todo(r, 2) = <<"size", 96>>
        \/ Is(r, 1, 1) /\ Todo(r, 1) = <<"size", 96>>
    BY <1>5, SampleSteps
  <2>2. QED
    BY <1>1, <2>1 DEF Is
<1>6. QED
  BY <1>2, <1>3, <1>4, <1>5 DEF Sizing

LEMMA SendIs ==
  ASSUME NEW r \in Record, NextIs(r, "send")
  PROVE  /\ Left(r) > 1 /\ Todo(r, 1)[2] \in 0 .. 3
         /\ NextIs(Step(r), "size") /\ (Wide(Step(r)) <=> Todo(r, 1)[2] # 0)
<1>1. Left(r) > 0 /\ Todo(r, 1)[1] = "send" /\ Left(r) \in Int
  BY RecordIs DEF NextIs
<1>2. ~Busy(r) /\ Sizing(r.button)
  BY <1>1, OtherIs
<1>3. /\ Left(r) > 1 /\ Todo(r, 1)[2] \in 0 .. 3
      /\ Todo(r, 2)[1] = "size" /\ (Todo(r, 2)[2] = 96 <=> Todo(r, 1)[2] # 0)
  BY <1>1, <1>2, SizingSteps
<1>4. Left(Step(r)) > 0 /\ Todo(Step(r), 1) = Todo(r, 2)
  BY <1>1, <1>3, StepIs
<1>5. QED
  BY <1>3, <1>4 DEF NextIs, Wide

LEMMA SizeIs ==
  ASSUME NEW r \in Record, NextIs(r, "size")
  PROVE  r.done > 0 /\ r.button # <<"touch", 1>> /\ Todo(r, 1)[2] \in {16, 96}
<1>1. Left(r) > 0 /\ Todo(r, 1)[1] = "size"
  BY DEF NextIs
<1>2. ~Busy(r) /\ Sizing(r.button)
  BY <1>1, OtherIs
<1>3. r.done > 0 /\ Todo(r, 1)[2] \in {16, 96}
  BY <1>1, <1>2, SizingSteps
<1>4. QED
  BY <1>2, <1>3 DEF Sizing

LEMMA SizeAfterSend ==
  ASSUME NEW r \in Record, NextIs(Step(r), "size")
  PROVE  NextIs(r, "send")
<1> DEFINE u == Step(r)
<1>1. /\ u \in Record /\ u.button = r.button /\ u.done = r.done + 1 /\ Left(u) = Left(r) - 1
      /\ r.done \in Nat /\ Left(r) \in Int
  BY StepIs, RecordIs
<1>2. Left(u) > 0 /\ Todo(u, 1)[1] = "size" /\ ~Busy(u) /\ Sizing(u.button)
  BY <1>1, OtherIs DEF NextIs
<1>3. Left(r) > 0
  BY <1>1, <1>2
<1> HIDE DEF u
<1>4. CASE r.button = <<"origin", 2>>
  <2>1. u.done = 13
    BY <1>1, <1>2, <1>4, SensorSteps DEF Is
  <2>2. r.done = 12
    BY <1>1, <2>1
  <2>3. QED
    BY <1>3, <1>4, <2>2, SensorSteps DEF Is, NextIs
<1>5. CASE r.button = <<"calibrate", 1>>
  <2>1. u.done = 1 \/ u.done = 0
    BY <1>1, <1>2, <1>5, MagSteps DEF Is
  <2>2. r.done = 0
    BY <1>1, <2>1
  <2>3. QED
    BY <1>3, <1>5, <2>2, MagSteps DEF Is, NextIs
<1>6. CASE r.button = <<"sensor", 1>> \/ r.button = <<"mag", 2>>
  <2>1. u.done = 1 \/ u.done = 0
    BY <1>1, <1>2, <1>6, BackSteps, SMTT(30) DEF Is
  <2>2. r.done = 0
    BY <1>1, <2>1
  <2>3. QED
    BY <1>3, <1>6, <2>2, BackSteps DEF Is, NextIs
<1>7. CASE r.button = <<"mag", 1>>
  <2>1. u.done = 1 \/ u.done = 0
    BY <1>1, <1>2, <1>7, SampleSteps DEF Is
  <2>2. r.done = 0
    BY <1>1, <2>1
  <2>3. QED
    BY <1>3, <1>7, <2>2, SampleSteps DEF Is, NextIs
<1>8. QED
  BY <1>1, <1>2, <1>4, <1>5, <1>6, <1>7 DEF Sizing

(* The form displayed and the size after the next step of a task, if they  *)
(* are as they should be before it.                                        *)
NextForm(r) == IF NextIs(r, "show") THEN Todo(r, 1)[2] ELSE FormAt(r)
NextWide(r) == IF NextIs(r, "size") THEN Wide(r) ELSE WideAt(r)

LEMMA OpeningStep ==
  ASSUME NEW r \in Record, Left(r) > 0, Busy(r), NEW f, f = Target(r.button)
  PROVE  \/ At(r) = Elements(f) + 3 /\ Todo(r, 1) = <<"show", f>>
         \/ At(r) < Elements(f) + 3 /\ Todo(r, 1)[1] \in {"cut", "clear", "bind"}
<1>1. PICK l \in Nat, b \in Nat : l = Labels[f] /\ b = Len(Buttons[f]) /\ Elements(f) = l + b /\ b >= 1
  BY ElementsNat DEF Busy, Opens
<1>2. PICK a \in Int : a = At(r)
  BY RecordIs
<1>3. \/ a = 0 /\ Todo(r, 1)[1] = "cut"
      \/ a = 1 /\ Todo(r, 1)[1] = "cut"
      \/ a = 2 /\ Todo(r, 1)[1] = "clear"
      \/ a \in 3 .. l + 2 /\ Todo(r, 1)[1] = "bind"
      \/ a \in l + 3 .. (l + b) + 2 /\ Todo(r, 1)[1] = "bind"
      \/ a = (l + b) + 3 /\ Todo(r, 1) = <<"show", f>>
  BY <1>1, <1>2, BusyStep
<1>4. a = 0 \/ a = 1 \/ a = 2 \/ a \in 3 .. l + 2 \/ a \in l + 3 .. (l + b) + 2 => a < (l + b) + 3
  BY <1>1, SMTT(30)
<1>5. QED
  BY <1>1, <1>2, <1>3, <1>4

LEMMA OthersPlain ==
  ASSUME NEW b \in AllButtons, ~Sizing(b), b # <<"touch", 1>>
  PROVE  /\ b[1] \notin {"sensor", "mag"} /\ Back(b) \notin {"sensor", "mag"}
         /\ \/ /\ Opens(b) /\ Target(b) \notin {"sensor", "mag"} /\ Before(b) = 0
               /\ Len(Script(b)) = Elements(Target(b)) + 4
            \/ ~Opens(b) /\ Len(Script(b)) <= 1
<1>1. b[1] \in Forms /\ b[1] \notin {"sensor", "mag"}
  BY ButtonsAre, BackIs DEF Sizing
<1>2. \A f \in Forms : Parent[f] \notin {"sensor", "mag"}
  BY ParentIs, FormsAre
<1>3. Back(b) \notin {"sensor", "mag"}
  BY <1>1, <1>2 DEF Back
<1>4. b # <<"calibrate", 1>>
  BY DEF Sizing
<1>5. Before(b) = 0
  BY <1>4 DEF Before
<1>6. CASE b \in {<<"main", 1>>, <<"main", 2>>, <<"main", 3>>, <<"origin", 1>>, <<"calibrate", 2>>}
  <2>1. PICK f \in Forms : f = Target(b) /\ f \notin {"sensor", "mag"} /\ Script(b) = Open(f)
    BY <1>6, TargetIs, ScriptIs, FormsAre, ZenonT(60)
  <2>2. Len(Script(b)) = Elements(f) + 4
    BY <2>1, OpenIs
  <2>3. QED
    BY <1>1, <1>3, <1>5, <2>1, <2>2 DEF Opens
<1>7. CASE b \in {<<"main", 4>>, <<"calibrate", 3>>}
  <2>1. ~Opens(b) /\ Script(b) = <<>>
    BY <1>7, TargetIs, ScriptIs, FormsAre DEF Opens
  <2>2. Len(Script(b)) <= 1
    BY <2>1
  <2>3. QED
    BY <1>1, <1>3, <2>1, <2>2
<1>8. CASE b \in {<<"origin", 3>>, <<"gnss", 1>>, <<"fusion", 1>>, <<"calibrate", 4>>, <<"touch", 2>>}
  <2>1. PICK x : ~Opens(b) /\ Script(b) = <<x>>
    BY <1>8, TargetIs, ScriptIs, FormsAre, ZenonT(60) DEF Opens
  <2>2. Len(Script(b)) <= 1
    BY <2>1
  <2>3. QED
    BY <1>1, <1>3, <2>1, <2>2
<1>9. QED
  BY <1>6, <1>7, <1>8, ButtonsAre DEF Sizing

LEMMA PlainFollows ==
  ASSUME NEW r \in Record, ~Sizing(r.button), r.button # <<"touch", 1>>
  PROVE  /\ Left(r) > 1 => FormAt(Step(r)) = NextForm(r) /\ (WideAt(Step(r)) <=> NextWide(r))
         /\ ~(Left(r) > 1) => (NextWide(r) <=> NextForm(r) \in {"sensor", "mag"})
<1>1. PICK b \in AllButtons, d \in Nat, n \in Nat :
        b = r.button /\ d = r.done /\ n = Len(Script(b)) /\ Left(r) = n - d
  BY RecordIs
<1>2. ~Sizing(b) /\ b # <<"touch", 1>>
  BY <1>1
<1>3. /\ FormAt(r) = b[1] /\ ~WideAt(r)
      /\ FormAt(Step(r)) = b[1] /\ ~WideAt(Step(r))
  BY <1>1, <1>2, StepIs DEF FormAt, WideAt, Sizing
<1>4. ~NextIs(r, "size") /\ ~NextWide(r)
  <2>1. ~NextIs(r, "size")
    BY <1>1, <1>2, OtherIs DEF NextIs
  <2>2. QED
    BY <1>3, <2>1 DEF NextWide
<1>5. /\ b[1] \notin {"sensor", "mag"} /\ Back(b) \notin {"sensor", "mag"}
      /\ \/ /\ Opens(b) /\ Target(b) \notin {"sensor", "mag"} /\ Before(b) = 0
            /\ n = Elements(Target(b)) + 4
         \/ ~Opens(b) /\ n <= 1
  BY <1>1, <1>2, OthersPlain
<1>6. NextIs(r, "show") => ~(Left(r) > 1) /\ Todo(r, 1)[2] \notin {"sensor", "mag"}
  <2>1. SUFFICES ASSUME NextIs(r, "show")
                 PROVE  ~(Left(r) > 1) /\ Todo(r, 1)[2] \notin {"sensor", "mag"}
    OBVIOUS
  <2>2. PICK f : f = Target(b)
    OBVIOUS
  <2>3. \/ Busy(r) /\ At(r) = Elements(f) + 3 /\ Todo(r, 1) = <<"show", f>>
        \/ ~Opens(b) /\ Todo(r, 1) = <<"show", Back(b)>>
    BY <1>1, <2>1, <2>2, ShowIs
  <2>4. CASE Busy(r) /\ At(r) = Elements(f) + 3 /\ Todo(r, 1) = <<"show", f>>
    <3>1. f \in Forms /\ Opens(b)
      BY <1>1, <2>2, <2>4 DEF Busy, Opens
    <3>2. PICK e \in Nat : e = Elements(f)
      BY <3>1, ElementsNat
    <3>3. d = e + 3 /\ n = e + 4
      BY <1>1, <1>5, <2>2, <2>4, <3>1, <3>2 DEF At
    <3>4. ~(n - d > 1)
      BY <3>3
    <3>5. QED
      BY <1>1, <1>5, <2>2, <2>4, <3>1, <3>4
  <2>5. CASE ~Opens(b) /\ Todo(r, 1) = <<"show", Back(b)>>
    <3>1. ~(n - d > 1)
      BY <1>5, <2>5
    <3>2. QED
      BY <1>1, <1>5, <2>5, <3>1
  <2>6. QED
    BY <2>3, <2>4, <2>5
<1>7. QED
  BY <1>3, <1>4, <1>5, <1>6 DEF NextForm

LEMMA SensorFollows ==
  ASSUME NEW r \in Record, r.button = <<"origin", 2>>, Left(r) > 0
  PROVE  /\ Left(r) > 1 => FormAt(Step(r)) = NextForm(r) /\ (WideAt(Step(r)) <=> NextWide(r))
         /\ ~(Left(r) > 1) => (NextWide(r) <=> NextForm(r) \in {"sensor", "mag"})
<1>1. PICK d \in Nat : d = r.done /\ Left(r) = 14 - d
  BY RecordIs, SensorSteps
<1>2. Step(r).button = r.button /\ Step(r).done = d + 1
  BY <1>1, StepIs
<1>3. ~WideAt(r) /\ ~WideAt(Step(r))
  BY <1>2 DEF WideAt
<1>4. FormAt(r) = (IF d >= 12 THEN "sensor" ELSE "origin")
  BY <1>1 DEF FormAt
<1>5. FormAt(Step(r)) = (IF d + 1 >= 12 THEN "sensor" ELSE "origin")
  BY <1>2 DEF FormAt
<1>6. CASE d \in 0 .. 11
  <2>1. PICK f : f = "sensor" /\ f = Target(r.button)
    BY SensorSteps
  <2>2. Busy(r) /\ At(r) = d
    BY <1>1, <1>6, SensorSteps
  <2>3. Elements(f) = 8
    <3>1. Labels[f] = 7 /\ Len(Buttons[f]) = 1
      BY <2>1, Numbers
    <3>2. QED
      BY <3>1 DEF Elements
  <2>4. \/ d = 11 /\ Todo(r, 1) = <<"show", f>>
        \/ d < 11 /\ Todo(r, 1)[1] \in {"cut", "clear", "bind"}
    BY <2>1, <2>2, <2>3, OpeningStep
  <2>5. ~NextIs(r, "size") /\ Left(r) > 1
    BY <1>1, <1>6, <2>4 DEF NextIs
  <2>6. CASE d = 11 /\ Todo(r, 1) = <<"show", f>>
    <3>1. NextForm(r) = "sensor"
      BY <2>1, <2>6 DEF NextForm, NextIs
    <3>2. FormAt(Step(r)) = "sensor"
      BY <1>5, <2>6
    <3>3. QED
      BY <1>3, <2>5, <3>1, <3>2 DEF NextWide
  <2>7. CASE d < 11 /\ Todo(r, 1)[1] \in {"cut", "clear", "bind"}
    <3>1. NextForm(r) = "origin"
      BY <1>4, <2>7 DEF NextForm, NextIs
    <3>2. FormAt(Step(r)) = "origin"
      BY <1>5, <2>7
    <3>3. QED
      BY <1>3, <2>5, <3>1, <3>2 DEF NextWide
  <2>8. QED
    BY <2>4, <2>6, <2>7
<1>7. CASE Is(r, 12, 2) /\ Todo(r, 1) = <<"send", 3>>
  <2>1. ~NextIs(r, "size") /\ ~NextIs(r, "show") /\ Left(r) > 1 /\ d = 12
    BY <1>1, <1>7 DEF NextIs, Is
  <2>2. NextForm(r) = "sensor" /\ FormAt(Step(r)) = "sensor"
    BY <1>4, <1>5, <2>1 DEF NextForm
  <2>3. QED
    BY <1>3, <2>1, <2>2 DEF NextWide
<1>8. CASE Is(r, 13, 1) /\ Todo(r, 1) = <<"size", 96>>
  <2>1. NextIs(r, "size") /\ ~NextIs(r, "show") /\ ~(Left(r) > 1) /\ d = 13 /\ Wide(r)
    BY <1>1, <1>8 DEF NextIs, Is, Wide
  <2>2. NextForm(r) = "sensor"
    BY <1>4, <2>1 DEF NextForm
  <2>3. QED
    BY <2>1, <2>2 DEF NextWide
<1>9. QED
  BY <1>1, <1>6, <1>7, <1>8, SensorSteps

LEMMA MagFollows ==
  ASSUME NEW r \in Record, r.button = <<"calibrate", 1>>, Left(r) > 0
  PROVE  /\ Left(r) > 1 => FormAt(Step(r)) = NextForm(r) /\ (WideAt(Step(r)) <=> NextWide(r))
         /\ ~(Left(r) > 1) => (NextWide(r) <=> NextForm(r) \in {"sensor", "mag"})
<1>1. PICK d \in Nat : d = r.done /\ Left(r) = 16 - d
  BY RecordIs, MagSteps
<1>2. Step(r).button = r.button /\ Step(r).done = d + 1
  BY <1>1, StepIs
<1>3. (WideAt(r) <=> d >= 2) /\ (WideAt(Step(r)) <=> d + 1 >= 2)
  BY <1>1, <1>2 DEF WideAt
<1>4. FormAt(r) = "calibrate" /\ FormAt(Step(r)) = "calibrate"
  BY <1>2 DEF FormAt
<1>5. CASE d \in 2 .. 15
  <2>1. PICK f : f = "mag" /\ f = Target(r.button)
    BY MagSteps
  <2>2. Busy(r) /\ At(r) = d - 2
    BY <1>1, <1>5, MagSteps
  <2>3. Elements(f) = 10
    <3>1. Labels[f] = 8 /\ Len(Buttons[f]) = 2
      BY <2>1, Numbers
    <3>2. QED
      BY <3>1 DEF Elements
  <2>4. \/ d - 2 = 13 /\ Todo(r, 1) = <<"show", f>>
        \/ d - 2 < 13 /\ Todo(r, 1)[1] \in {"cut", "clear", "bind"}
    BY <2>1, <2>2, <2>3, OpeningStep
  <2>5. ~NextIs(r, "size") /\ WideAt(r) /\ WideAt(Step(r))
    BY <1>3, <1>5, <2>4 DEF NextIs
  <2>6. CASE d - 2 = 13 /\ Todo(r, 1) = <<"show", f>>
    <3>1. NextForm(r) = "mag" /\ ~(Left(r) > 1)
      BY <1>1, <2>1, <2>6 DEF NextForm, NextIs
    <3>2. QED
      BY <2>5, <3>1 DEF NextWide
  <2>7. CASE d - 2 < 13 /\ Todo(r, 1)[1] \in {"cut", "clear", "bind"}
    <3>1. NextForm(r) = "calibrate" /\ Left(r) > 1
      BY <1>1, <1>4, <2>7 DEF NextForm, NextIs
    <3>2. QED
      BY <1>4, <2>5, <3>1 DEF NextWide
  <2>8. QED
    BY <2>4, <2>6, <2>7
<1>6. CASE Is(r, 0, 16) /\ Todo(r, 1) = <<"send", 2>>
  <2>1. ~NextIs(r, "size") /\ ~NextIs(r, "show") /\ Left(r) > 1 /\ d = 0
    BY <1>1, <1>6 DEF NextIs, Is
  <2>2. NextForm(r) = "calibrate" /\ ~WideAt(r) /\ ~WideAt(Step(r))
    BY <1>3, <1>4, <2>1 DEF NextForm
  <2>3. QED
    BY <1>4, <2>1, <2>2 DEF NextWide
<1>7. CASE Is(r, 1, 15) /\ Todo(r, 1) = <<"size", 96>>
  <2>1. NextIs(r, "size") /\ ~NextIs(r, "show") /\ Left(r) > 1 /\ d = 1 /\ Wide(r)
    BY <1>1, <1>7 DEF NextIs, Is, Wide
  <2>2. NextForm(r) = "calibrate" /\ WideAt(Step(r))
    BY <1>3, <1>4, <2>1 DEF NextForm
  <2>3. QED
    BY <1>4, <2>1, <2>2 DEF NextWide
<1>8. QED
  BY <1>1, <1>5, <1>6, <1>7, MagSteps

LEMMA BackFollows ==
  ASSUME NEW r \in Record, r.button = <<"sensor", 1>> \/ r.button = <<"mag", 2>>, Left(r) > 0
  PROVE  /\ Left(r) > 1 => FormAt(Step(r)) = NextForm(r) /\ (WideAt(Step(r)) <=> NextWide(r))
         /\ ~(Left(r) > 1) => (NextWide(r) <=> NextForm(r) \in {"sensor", "mag"})
<1>1. PICK d \in Nat, b \in AllButtons : d = r.done /\ b = r.button
  BY RecordIs
<1>2. Step(r).button = b /\ Step(r).done = d + 1
  BY <1>1, StepIs
<1>3. (WideAt(r) <=> d < 2) /\ (WideAt(Step(r)) <=> d + 1 < 2)
  <2>1. /\ b \in {<<"sensor", 1>>, <<"mag", 2>>}
        /\ b # <<"calibrate", 1>> /\ b # <<"mag", 1>>
    BY <1>1
  <2>2. WideAt(r) <=> d < 2
    BY <1>1, <2>1 DEF WideAt
  <2>3. WideAt(Step(r)) <=> d + 1 < 2
    BY <1>2, <2>1 DEF WideAt
  <2>4. QED
    BY <2>2, <2>3
<1>4. FormAt(r) = b[1] /\ FormAt(Step(r)) = b[1]
  BY <1>1, <1>2 DEF FormAt
<1>5. Parent[b[1]] \notin {"sensor", "mag"}
  BY <1>1, ParentIs
<1>6. CASE Is(r, 0, 3) /\ Todo(r, 1) = <<"send", 0>>
  <2>1. ~NextIs(r, "size") /\ ~NextIs(r, "show") /\ Left(r) > 1 /\ d = 0
    BY <1>1, <1>6 DEF NextIs, Is
  <2>2. WideAt(r) /\ WideAt(Step(r))
    BY <1>3, <2>1
  <2>3. QED
    BY <1>4, <2>1, <2>2 DEF NextWide, NextForm
<1>7. CASE Is(r, 1, 2) /\ Todo(r, 1) = <<"size", 16>>
  <2>1. NextIs(r, "size") /\ ~NextIs(r, "show") /\ Left(r) > 1 /\ d = 1 /\ ~Wide(r)
    BY <1>1, <1>7 DEF NextIs, Is, Wide
  <2>2. ~WideAt(Step(r))
    BY <1>3, <2>1
  <2>3. QED
    BY <1>4, <2>1, <2>2 DEF NextWide, NextForm
<1>8. CASE Is(r, 2, 1) /\ Todo(r, 1) = <<"show", Parent[b[1]]>>
  <2>1. ~NextIs(r, "size") /\ NextIs(r, "show") /\ ~(Left(r) > 1) /\ d = 2
    BY <1>1, <1>8 DEF NextIs, Is
  <2>2. ~WideAt(r)
    BY <1>3, <2>1
  <2>3. NextForm(r) = Parent[b[1]]
    BY <1>8, <2>1 DEF NextForm
  <2>4. QED
    BY <1>5, <2>1, <2>2, <2>3 DEF NextWide
<1>9. QED
  BY <1>1, <1>6, <1>7, <1>8, BackSteps

LEMMA SampleFollows ==
  ASSUME NEW r \in Record, r.button = <<"mag", 1>>, Left(r) > 0
  PROVE  /\ Left(r) > 1 => FormAt(Step(r)) = NextForm(r) /\ (WideAt(Step(r)) <=> NextWide(r))
         /\ ~(Left(r) > 1) => (NextWide(r) <=> NextForm(r) \in {"sensor", "mag"})
<1>1. WideAt(r) /\ WideAt(Step(r)) /\ FormAt(r) = "mag" /\ FormAt(Step(r)) = "mag"
  BY StepIs DEF WideAt, FormAt
<1>2. CASE Is(r, 0, 2) /\ Todo(r, 1) = <<"send", 1>>
  <2>1. ~NextIs(r, "size") /\ ~NextIs(r, "show") /\ Left(r) > 1
    BY <1>2 DEF NextIs, Is
  <2>2. QED
    BY <1>1, <2>1 DEF NextWide, NextForm
<1>3. CASE Is(r, 1, 1) /\ Todo(r, 1) = <<"size", 96>>
  <2>1. NextIs(r, "size") /\ ~NextIs(r, "show") /\ ~(Left(r) > 1) /\ Wide(r)
    BY <1>3 DEF NextIs, Is, Wide
  <2>2. QED
    BY <1>1, <2>1 DEF NextWide, NextForm
<1>4. QED
  BY <1>2, <1>3, SampleSteps

LEMMA Follows ==
  ASSUME NEW r \in Record, r.button # <<"touch", 1>>, r.done > 0 => Left(r) > 0
  PROVE  /\ Left(r) > 1 => FormAt(Step(r)) = NextForm(r) /\ (WideAt(Step(r)) <=> NextWide(r))
         /\ ~(Left(r) > 1) => (NextWide(r) <=> NextForm(r) \in {"sensor", "mag"})
<1>1. CASE ~Sizing(r.button)
  BY <1>1, PlainFollows
<1>2. CASE Sizing(r.button)
  <2>1. PICK b \in AllButtons, d \in Nat, n \in Nat :
          b = r.button /\ d = r.done /\ n = Len(Script(b)) /\ Left(r) = n - d
    BY RecordIs
  <2>2. n > 0
    <3>1. n = 14 \/ n = 16 \/ n = 3 \/ n = 2
      BY <1>2, <2>1, SensorScript, MagScript, BackScript, SampleScript DEF Sizing
    <3>2. QED
      BY <3>1
  <2>3. Left(r) > 0
    <3>1. d > 0 => n - d > 0
      BY <2>1
    <3>2. n - d > 0
      BY <2>2, <3>1
    <3>3. QED
      BY <2>1, <3>2
  <2>4. QED
    BY <1>2, <2>3, SensorFollows, MagFollows, BackFollows, SampleFollows DEF Sizing
<1>3. QED
  BY <1>1, <1>2

(* What a step does to the form displayed, the size and the command.       *)
LEMMA EffectIs ==
  ASSUME NEW r \in Record, Effect(r)
  PROVE  /\ current_form' = (IF NextIs(r, "show") THEN Todo(r, 1)[2] ELSE current_form)
         /\ size' = (IF NextIs(r, "size") THEN Todo(r, 1)[2] ELSE size)
         /\ command' = (IF NextIs(r, "send") THEN Todo(r, 1)[2] ELSE command)
<1> DEFINE f == Target(r.button)
<1>1. CASE \/ NextIs(r, "cut") /\ CutBy(r, f)
           \/ NextIs(r, "clear") /\ ClearBy(r, f)
           \/ NextIs(r, "bind") /\ BindBy(r, f)
  <2>1. ~NextIs(r, "show") /\ ~NextIs(r, "size") /\ ~NextIs(r, "send")
    BY <1>1 DEF NextIs
  <2>2. UNCHANGED <<current_form, size, command>>
    BY <1>1 DEF CutBy, ClearBy, BindBy, mode
  <2>3. QED
    BY <2>1, <2>2
<1>2. CASE NextIs(r, "show") /\ ShowBy(r, f)
  <2>1. ~NextIs(r, "size") /\ ~NextIs(r, "send")
    BY <1>2 DEF NextIs
  <2>2. PICK h : h = f
    OBVIOUS
  <2>3. PICK g \in Forms :
          /\ \/ Busy(r) /\ At(r) = Elements(h) + 3 /\ g = h
             \/ ~Opens(r.button) /\ g = Back(r.button)
          /\ current_form' = g
    BY <1>2, <2>2 DEF ShowBy
  <2>4. \/ Busy(r) /\ Todo(r, 1) = <<"show", h>>
        \/ ~Opens(r.button) /\ Todo(r, 1) = <<"show", Back(r.button)>>
    BY <1>2, <2>2, ShowIs
  <2>5. Todo(r, 1)[2] = g
    BY <2>3, <2>4 DEF Busy
  <2>6. UNCHANGED <<size, command>>
    BY <1>2 DEF ShowBy, mode
  <2>7. QED
    BY <1>2, <2>1, <2>3, <2>5, <2>6
<1>3. CASE (SendBy(r) \/ SizeBy(r) \/ RestBy(r)) /\ UNCHANGED forms
  <2>1. UNCHANGED current_form /\ ~NextIs(r, "show")
    BY <1>3 DEF forms, SendBy, SizeBy, RestBy, NextIs
  <2>2. CASE SendBy(r)
    BY <2>1, <2>2 DEF SendBy, NextIs
  <2>3. CASE SizeBy(r)
    BY <2>1, <2>3 DEF SizeBy, NextIs
  <2>4. CASE RestBy(r)
    BY <2>1, <2>4 DEF RestBy, mode
  <2>5. QED
    BY <1>3, <2>2, <2>3, <2>4
<1>4. QED
  BY <1>1, <1>2, <1>3 DEF Effect

LEMMA CallbackPenTypes ==
  ASSUME PenTypes, NEW r \in Record, Effect(r)
  PROVE  PenTypes'
<1>1. UNCHANGED <<pen, masked, event, touch_pc, pos, queue, hurried, failed, outside>>
  BY DEF Effect, UnchangedByCallback, pens
<1>2. size' \in {16, 96}
  BY EffectIs, SizeIs DEF PenTypes
<1>3. command' \in 0 .. 3
  BY EffectIs, SendIs DEF PenTypes
<1>4. suspended' \in BOOLEAN
  BY DEF PenTypes, Effect, CutBy, ClearBy, BindBy, ShowBy, SendBy, SizeBy, RestBy
<1>5. shorter' \in BOOLEAN /\ torn' \in BOOLEAN
  BY DEF PenTypes, Effect, CutBy, ClearBy, BindBy, ShowBy, Disturb
<1>6. astray' \in BOOLEAN
  BY DEF PenTypes, Effect
<1>7. QED
  BY <1>1, <1>2, <1>3, <1>4, <1>5, <1>6 DEF PenTypes

LEMMA CallbackUpdateTypes ==
  ASSUME UpdateTypes, NEW r \in Record, Effect(r)
  PROVE  UpdateTypes'
<1>1. UNCHANGED <<item, counter, label_counter, tmp, pressed_button, gui_pc>>
  BY DEF Effect, UnchangedByCallback, update
<1>2. clicked' \subseteq clicked
  BY DEF Effect, CutBy, ClearBy, BindBy, ShowBy
<1>3. current_form' \in Forms
  BY DEF UpdateTypes, Effect, CutBy, ClearBy, BindBy, ShowBy, forms
<1>4. QED
  BY <1>1, <1>2, <1>3 DEF UpdateTypes, CounterTypes, PointerTypes

(* The size while the other tasks run.                                     *)
LEMMA OtherSizeInv ==
  ASSUME SizeInv, Keeps, UNCHANGED <<current_form, size, command, astray>>,
         \A u \in Tasks' : u \in Record
  PROVE  SizeInv'
<1>1. ASSUME NEW u \in Tasks', u.done > 0
      PROVE  \E v \in Tasks : Kin(u, v)
  <2>1. u.done # 0
    BY <1>1
  <2>2. QED
    BY <2>1 DEF Keeps
<1>2. ASSUME NEW u \in Tasks', NextIs(u, "size")
      PROVE  Wide(u) <=> command' # 0
  <2>1. PICK v \in Tasks : Kin(u, v)
    BY <1>1, <1>2, SizeIs
  <2>2. NextIs(v, "size") /\ (Wide(v) <=> Wide(u))
    BY <1>2, <2>1, KinIs
  <2>3. QED
    BY <2>2 DEF SizeInv
<1>3. (\A u \in Tasks' : ~NextIs(u, "size")) => (size' = 96 <=> command' # 0)
  <2>1. (\A u \in Tasks' : ~NextIs(u, "size")) => (\A v \in Tasks : ~NextIs(v, "size"))
    BY KinIs DEF Keeps
  <2>2. QED
    BY <2>1 DEF SizeInv
<1>4. ASSUME ~astray', NEW u \in Tasks', Underway(u)
      PROVE  current_form' = FormAt(u) /\ (size' = 96 <=> WideAt(u))
  <2>1. PICK v \in Tasks : Kin(u, v)
    BY <1>1, <1>4 DEF Underway
  <2>2. Underway(v) /\ FormAt(v) = FormAt(u) /\ (WideAt(v) <=> WideAt(u))
    BY <1>4, <2>1, KinIs
  <2>3. QED
    BY <1>4, <2>2 DEF SizeInv
<1>5. ASSUME ~astray', \A u \in Tasks' : ~Underway(u)
      PROVE  size' = 96 <=> current_form' \in {"sensor", "mag"}
  <2>1. \A v \in Tasks : ~Underway(v)
    BY <1>5, KinIs DEF Keeps
  <2>2. QED
    BY <1>5, <2>1 DEF SizeInv
<1>6. QED
  BY <1>2, <1>3, <1>4, <1>5 DEF SizeInv

(* The calibration of the display sets no size, and shows its own form.    *)
LEMMA CalibrationSizeInv ==
  ASSUME SizeInv, NEW r, Moves(r), Effect(r), r.button = <<"touch", 1>>
  PROVE  SizeInv'
<1>1. r \in Record /\ Step(r) \in Record /\ Step(r).button = r.button
  BY StepIs DEF Moves
<1>2. ~NextIs(r, "size") /\ ~NextIs(Step(r), "size") /\ ~NextIs(r, "send")
  <2>1. ~NextIs(r, "size") /\ ~NextIs(Step(r), "size")
    BY <1>1, SizeIs
  <2>2. ~NextIs(r, "send")
    BY <1>1, OtherIs DEF NextIs, Sizing
  <2>3. QED
    BY <2>1, <2>2
<1>3. UNCHANGED <<size, command>>
  BY <1>1, <1>2, EffectIs
<1>4. ~Underway(r) /\ ~Underway(Step(r))
  BY <1>1 DEF Underway
<1>5. ASSUME ~astray' PROVE ~astray /\ current_form' = current_form
  <2>1. ~astray /\ (NextIs(r, "show") => r.button[1] = current_form)
    BY <1>5 DEF Effect
  <2>2. CASE NextIs(r, "show")
    <3>1. ~Opens(r.button)
      BY <1>1, CalmIs
    <3>2. Todo(r, 1) = <<"show", Back(r.button)>>
      BY <1>1, <2>2, <3>1, ShowIs DEF Busy
    <3>3. Todo(r, 1)[2] = "touch"
      BY <3>2 DEF Back
    <3>4. current_form' = "touch"
      BY <1>1, <2>2, <3>3, EffectIs
    <3>5. r.button[1] = "touch"
      OBVIOUS
    <3>6. QED
      BY <2>1, <2>2, <3>4, <3>5
  <2>3. CASE ~NextIs(r, "show")
    BY <1>1, <2>1, <2>3, EffectIs
  <2>4. QED
    BY <2>2, <2>3
<1>6. /\ \A u \in Tasks' : u \in Tasks \/ u = Step(r)
      /\ \A u \in Tasks : u = r \/ u \in Tasks'
  BY DEF Moves
<1>7. \A u \in Tasks' : NextIs(u, "size") => (Wide(u) <=> command' # 0)
  BY <1>2, <1>3, <1>6 DEF SizeInv
<1>8. (\A u \in Tasks' : ~NextIs(u, "size")) => (size' = 96 <=> command' # 0)
  BY <1>2, <1>3, <1>6 DEF SizeInv
<1>9. ASSUME ~astray', NEW u \in Tasks', Underway(u)
      PROVE  current_form' = FormAt(u) /\ (size' = 96 <=> WideAt(u))
  BY <1>3, <1>4, <1>5, <1>6, <1>9 DEF SizeInv
<1>10. ASSUME ~astray', \A u \in Tasks' : ~Underway(u)
       PROVE  size' = 96 <=> current_form' \in {"sensor", "mag"}
  BY <1>3, <1>4, <1>5, <1>6, <1>10 DEF SizeInv
<1>11. QED
  BY <1>7, <1>8, <1>9, <1>10 DEF SizeInv

LEMMA AtStart ==
  ASSUME NEW r \in Record, r.done = 0
  PROVE  FormAt(r) = r.button[1] /\ (WideAt(r) <=> r.button[1] \in {"sensor", "mag"})
<1>1. r.button \in AllButtons
  BY RecordIs
<1>2. ~(r.done >= 12) /\ ~(r.done >= 2) /\ r.done < 2
  OBVIOUS
<1>3. FormAt(r) = r.button[1]
  BY <1>2 DEF FormAt
<1>4. WideAt(r) <=> r.button \in {<<"sensor", 1>>, <<"mag", 1>>, <<"mag", 2>>}
  BY <1>2 DEF WideAt
<1>5. r.button \in {<<"sensor", 1>>, <<"mag", 1>>, <<"mag", 2>>} <=> r.button[1] \in {"sensor", "mag"}
  BY <1>1, ButtonsAre
<1>6. QED
  BY <1>3, <1>4, <1>5

LEMMA CallbackSizeInv ==
  ASSUME OrderInv, SizeInv, NEW r, Moves(r), Effect(r), \A u \in Tasks' : u \in Record
  PROVE  SizeInv'
<1>1. CASE r.button = <<"touch", 1>>
  BY <1>1, CalibrationSizeInv
<1>2. CASE r.button # <<"touch", 1>>
  <2>1. /\ r \in Record /\ r \in Tasks /\ r.done \in Nat
        /\ Step(r) \in Record /\ Underway(Step(r))
    <3>1. r \in Record /\ r \in Tasks
      BY DEF Moves
    <3>2. r.done \in Nat /\ Step(r) \in Record /\ Step(r).button = r.button /\ Step(r).done = r.done + 1
      BY <3>1, RecordIs, StepIs
    <3>3. QED
      BY <1>2, <3>1, <3>2 DEF Underway
  <2>2. r.done > 0 => Left(r) > 0
    BY <2>1, TasksAre DEF OrderInv, InOrder
  <2>3. /\ \A u \in Tasks : Underway(u) => u = r
        /\ \A u \in Tasks' : Underway(u) => u = Step(r) /\ Left(r) > 1
        /\ Left(r) > 1 => Step(r) \in Tasks'
    BY <1>2 DEF Moves, Calibration
  <2>4. /\ \A u \in Tasks : NextIs(u, "size") => u = r
        /\ \A u \in Tasks' : NextIs(u, "size") => u = Step(r) /\ Left(r) > 1
    <3>1. \A u \in Tasks : u \in Record
      BY TasksTyped
    <3>2. \A u \in Record : NextIs(u, "size") => Underway(u)
      BY SizeIs DEF Underway
    <3>3. QED
      BY <2>3, <3>1, <3>2
  <2>5. /\ NextIs(r, "size") => (Wide(r) <=> command # 0)
        /\ ~NextIs(r, "size") => (size = 96 <=> command # 0)
    BY <2>1, <2>4 DEF SizeInv
  <2>6. /\ Left(r) > 1 /\ NextIs(Step(r), "size") => (Wide(Step(r)) <=> command' # 0)
        /\ ~(Left(r) > 1 /\ NextIs(Step(r), "size")) => (size' = 96 <=> command' # 0)
    <3>1. CASE NextIs(r, "send")
      BY <2>1, <3>1, SendIs, EffectIs
    <3>2. CASE NextIs(r, "size")
      <4>1. ~NextIs(r, "send")
        BY <3>2 DEF NextIs
      <4>2. ~NextIs(Step(r), "size") /\ command' = command /\ size' = Todo(r, 1)[2]
        BY <2>1, <3>2, <4>1, SizeAfterSend, EffectIs
      <4>3. QED
        BY <2>5, <3>2, <4>2 DEF Wide
    <3>3. CASE ~NextIs(r, "send") /\ ~NextIs(r, "size")
      <4>1. ~NextIs(Step(r), "size") /\ command' = command /\ size' = size
        BY <2>1, <3>3, SizeAfterSend, EffectIs
      <4>2. QED
        BY <2>5, <3>3, <4>1
    <3>4. QED
      BY <3>1, <3>2, <3>3
  <2>7. \A u \in Tasks' : NextIs(u, "size") => (Wide(u) <=> command' # 0)
    BY <2>4, <2>6
  <2>8. (\A u \in Tasks' : ~NextIs(u, "size")) => (size' = 96 <=> command' # 0)
    BY <2>3, <2>6
  <2>9. ASSUME ~astray' PROVE current_form' = NextForm(r) /\ (size' = 96 <=> NextWide(r))
    <3>1. ~astray /\ (r.done = 0 => r.button[1] = current_form)
      BY <2>9 DEF Effect
    <3>2. current_form = FormAt(r) /\ (size = 96 <=> WideAt(r))
      <4>1. CASE r.done > 0
        <5>1. Underway(r)
          BY <1>2, <4>1 DEF Underway
        <5>2. QED
          BY <2>1, <3>1, <5>1 DEF SizeInv
      <4>2. CASE r.done = 0
        <5>1. ~Underway(r)
          BY <4>2 DEF Underway
        <5>2. \A u \in Tasks : ~Underway(u)
          BY <2>3, <5>1
        <5>3. size = 96 <=> current_form \in {"sensor", "mag"}
          BY <3>1, <5>2 DEF SizeInv
        <5>4. QED
          BY <2>1, <3>1, <4>2, <5>3, AtStart
      <4>3. QED
        BY <2>1, <4>1, <4>2
    <3>3. current_form' = NextForm(r)
      BY <2>1, <3>2, EffectIs DEF NextForm
    <3>4. size' = 96 <=> NextWide(r)
      BY <2>1, <3>2, EffectIs DEF NextWide, Wide
    <3>5. QED
      BY <3>3, <3>4
  <2>10. /\ Left(r) > 1 => FormAt(Step(r)) = NextForm(r) /\ (WideAt(Step(r)) <=> NextWide(r))
         /\ ~(Left(r) > 1) => (NextWide(r) <=> NextForm(r) \in {"sensor", "mag"})
    BY <1>2, <2>1, <2>2, Follows
  <2>11. ASSUME ~astray', NEW u \in Tasks', Underway(u)
         PROVE  current_form' = FormAt(u) /\ (size' = 96 <=> WideAt(u))
    BY <2>3, <2>9, <2>10, <2>11
  <2>12. ASSUME ~astray', \A u \in Tasks' : ~Underway(u)
         PROVE  size' = 96 <=> current_form' \in {"sensor", "mag"}
    BY <2>1, <2>3, <2>9, <2>10, <2>12
  <2>13. QED
    BY <2>7, <2>8, <2>11, <2>12 DEF SizeInv
<1>3. QED
  BY <1>1, <1>2

-----------------------------------------------------------------------------
(* The suspension of guiupdate_task.                                       *)
LEMMA SuspendedIs ==
  /\ SuspendedByOne <=> (suspended => \E r \in Tasks : Calibration(r))
  /\ SuspendedByOne' <=> (suspended' => \E r \in Tasks' : Calibration(r))
BY TasksAre DEF SuspendedByOne, Calibrating, Calibration

LEMMA CalibrationSteps ==
  ASSUME NEW r \in Record, r.button = <<"touch", 1>>, Left(r) > 0
  PROVE  /\ NextIs(r, "suspend") => Left(r) > 1
         /\ ~(Left(r) > 1) => NextIs(r, "resume")
<1>1. PICK b \in AllButtons, d \in Nat : b = r.button /\ d = r.done
  BY RecordIs
<1>2. /\ Len(Script(b)) = 4
      /\ Script(b)[1] = <<"suspend">> /\ Script(b)[2] = <<"calibrate">>
      /\ Script(b)[3] = <<"show", "touch">> /\ Script(b)[4] = <<"resume">>
  BY <1>1, CalibrationScript
<1>3. Left(r) = 4 - d
  BY <1>1, <1>2 DEF Left
<1>4. d = 0 \/ d = 1 \/ d = 2 \/ d = 3
  BY <1>3
<1>5. CASE d = 3
  <2>1. Todo(r, 1) = Script(b)[4]
    BY <1>1, <1>5 DEF Todo
  <2>2. QED
    BY <1>2, <2>1 DEF NextIs
<1>6. CASE d # 3
  <2>1. 4 - d > 1
    BY <1>4, <1>6
  <2>2. QED
    BY <1>3, <2>1
<1>7. QED
  BY <1>5, <1>6

LEMMA Resumes ==
  ASSUME OrderInv, NEW c \in DOMAIN callbacks, gui_callback_task(c)
  PROVE  \/ suspended' = FALSE
         \/ suspended' = suspended /\ ~NextIs(callbacks[c], "resume")
         \/ NextIs(callbacks[c], "suspend")
<1> DEFINE r == callbacks[c]
<1>1. r \in Record
  BY DEF OrderInv, InOrder
<1>2. /\ Op(c) = Todo(r, 1) /\ Statements(c) = Script(r.button)
      /\ \A op : AtStep(c, op) => NextIs(r, op)
  BY <1>1, Named
<1>3. CASE Nothing(c)
  <2>1. Len(Script(r.button)) = 0 /\ r.done \in Nat /\ UNCHANGED suspended
    BY <1>1, <1>2, <1>3, RecordIs DEF Nothing
  <2>2. ~(Left(r) > 0)
    BY <2>1 DEF Left
  <2>3. QED
    BY <2>1, <2>2 DEF NextIs
<1>4. CASE Cut(c) \/ Clear(c) \/ Bind(c) \/ Display(c) \/ Send(c) \/ SetSize(c) \/ Calibrate(c)
  <2>1. UNCHANGED suspended
    BY <1>4 DEF Cut, Clear, Bind, Display, Send, SetSize, Calibrate
  <2>2. \/ NextIs(r, "cut") \/ NextIs(r, "clear") \/ NextIs(r, "bind") \/ NextIs(r, "show")
        \/ NextIs(r, "send") \/ NextIs(r, "size") \/ NextIs(r, "calibrate")
    BY <1>2, <1>4 DEF Cut, Clear, Bind, Display, Send, SetSize, Calibrate
  <2>3. ~NextIs(r, "resume")
    BY <2>2 DEF NextIs
  <2>4. QED
    BY <2>1, <2>3
<1>5. CASE Suspend(c)
  BY <1>2, <1>5 DEF Suspend
<1>6. CASE Resume(c)
  BY <1>6 DEF Resume
<1>7. QED
  BY <1>3, <1>4, <1>5, <1>6 DEF gui_callback_task

LEMMA CallbackSuspended ==
  ASSUME OrderInv, SuspendedByOne, NEW c \in DOMAIN callbacks, gui_callback_task(c),
         Moves(callbacks[c])
  PROVE  SuspendedByOne'
<1> DEFINE r == callbacks[c]
<1>1. r \in Record /\ r \in Tasks
  BY DEF Moves
<1>2. SUFFICES ASSUME suspended' PROVE \E u \in Tasks' : Calibration(u)
  BY SuspendedIs
<1>3. r.button = <<"touch", 1>> => (Left(r) > 1 => Calibration(Step(r)))
  <2>1. Step(r).button = r.button /\ Step(r).done = r.done + 1 /\ r.done \in Nat
    BY <1>1, RecordIs, StepIs
  <2>2. QED
    BY <2>1 DEF Calibration
<1>4. CASE NextIs(r, "suspend")
  <2>1. r.button = <<"touch", 1>> /\ Left(r) > 0
    BY <1>1, <1>4, OtherIs DEF NextIs
  <2>2. Left(r) > 1
    BY <1>1, <1>4, <2>1, CalibrationSteps
  <2>3. QED
    BY <1>3, <2>1, <2>2 DEF Moves
<1>5. CASE suspended' = suspended /\ ~NextIs(r, "resume")
  <2>1. PICK v \in Tasks : Calibration(v)
    BY <1>2, <1>5, SuspendedIs
  <2>2. CASE v # r
    BY <2>1, <2>2 DEF Moves
  <2>3. CASE v = r
    <3>1. r.button = <<"touch", 1>> /\ Left(r) > 0
      BY <2>1, <2>3, TasksAre DEF Calibration, OrderInv, InOrder
    <3>2. Left(r) > 1
      BY <1>1, <1>5, <3>1, CalibrationSteps
    <3>3. QED
      BY <1>3, <3>1, <3>2 DEF Moves
  <2>4. QED
    BY <2>2, <2>3
<1>6. QED
  BY <1>2, <1>4, <1>5, Resumes

LEMMA OtherSuspended ==
  ASSUME SuspendedByOne, Other, Keeps
  PROVE  SuspendedByOne'
<1>1. UNCHANGED suspended
  BY DEF Other, Touch, Lift, touchscan_task, Wake, Mask, Scan, Unmask, vars, guiupdate_task,
         Begin, ReadButtonNum, ReadLabelNum, ReadFirst, Mark, ReadAgain, Draw, DrawLabel, Leave,
         Create, UnchangedByUpdate
<1>2. (\E v \in Tasks : Calibration(v)) => (\E u \in Tasks' : Calibration(u))
  BY KinIs DEF Keeps
<1>3. QED
  BY <1>1, <1>2, SuspendedIs

-----------------------------------------------------------------------------
(* GuiInv is inductive.                                                    *)
LEMMA GuiInit ==
  ASSUME TouchGuiAssumption, Init
  PROVE  GuiInv
<1>1. Tasks = {} /\ callbacks = <<>> /\ DOMAIN callbacks = {}
  BY DEF Init, Tasks, Range
<1>2. "main" \in Forms /\ lists["main"] = Bound("main")
  BY FormsAre DEF Init
<1>3. PenTypes
  <2>1. /\ pen = Nowhere /\ masked = FALSE /\ event = FALSE /\ touch_pc = "wait"
        /\ pos \in Places \cup {Nowhere} /\ queue = <<>> /\ suspended = FALSE
        /\ size = 16 /\ command = 0 /\ hurried = FALSE /\ failed = FALSE
        /\ shorter = FALSE /\ outside = FALSE /\ torn = FALSE /\ astray = FALSE
    BY DEF Init
  <2>2. queue \in Seq(Places \cup {Nowhere}) /\ Len(queue) <= QueueLength
    BY <2>1 DEF TouchGuiAssumption
  <2>3. 0 \in 0 .. 3
    OBVIOUS
  <2>4. QED
    BY <2>1, <2>2, <2>3 DEF PenTypes
<1>4. UpdateTypes
  BY <1>2 DEF Init, UpdateTypes, CounterTypes, PointerTypes
<1>5. OrderInv
  BY <1>1 DEF OrderInv, InOrder
<1>6. ListInv
  <2>1. ASSUME NEW f \in Forms
        PROVE  /\ lists[f] \in [Kinds -> [number : Nat, linked : Nat]]
               /\ \A kind \in Kinds : lists[f][kind].number <= Amount(f, kind)
                                      /\ lists[f][kind].linked <= Amount(f, kind)
    <3>1. \A kind \in Kinds : Amount(f, kind) \in Nat
      BY AmountIs DEF Kinds
    <3>2. lists[f] = Bound(f) \/ lists[f] = Unbound
      BY DEF Init
    <3>3. CASE lists[f] = Bound(f)
      BY <3>1, <3>3 DEF Bound
    <3>4. CASE lists[f] = Unbound
      BY <3>1, <3>4 DEF Unbound
    <3>5. QED
      BY <3>2, <3>3, <3>4
  <2>2. lists \in [Forms -> [Kinds -> [number : Nat, linked : Nat]]]
    <3>1. lists = [f \in Forms |-> lists[f]]
      BY DEF Init
    <3>2. QED
      BY <2>1, <3>1
  <2>3. QED
    BY <1>1, <2>1, <2>2 DEF ListInv, ListTypes
<1>7. ReadyInv
  <2>1. ASSUME NEW f \in Forms, f # "main" PROVE ~Ready(f)
    <3>1. lists[f] = Unbound
      BY <2>1 DEF Init
    <3>2. Unbound["buttons"].number = 0
      BY DEF Unbound, Kinds
    <3>3. PICK a \in 1 .. 4 : a = Bound(f)["buttons"].number
      BY AmountIs, BoundIs
    <3>4. a # 0
      OBVIOUS
    <3>5. lists[f] # Bound(f)
      BY <3>1, <3>2, <3>3, <3>4
    <3>6. QED
      BY <1>1, <3>5 DEF Ready
  <2>2. Ready("main")
    BY <1>2 DEF Ready
  <2>3. \A f \in Forms : Ready(f) => Ready(Parent[f])
    BY <2>1, <2>2, ParentIs
  <2>4. current_form = "main" /\ tmp = NoButton /\ clicked = {} /\ pressed_button = NoButton
    BY DEF Init
  <2>5. QED
    BY <1>1, <2>2, <2>3, <2>4 DEF ReadyInv
<1>8. WalkInv
  BY DEF Init, WalkInv, Updating
<1>9. ClickInv
  BY DEF Init, ClickInv
<1>10. AimInv
  BY DEF Init, AimInv, ToScan
<1>11. SizeInv
  BY <1>1 DEF Init, SizeInv
<1>12. SuspendedByOne
  BY DEF Init, SuspendedByOne
<1>13. QED
  BY <1>3, <1>4, <1>5, <1>6, <1>7, <1>8, <1>9, <1>10, <1>11, <1>12 DEF GuiInv

LEMMA CallbackGuiInv ==
  ASSUME GuiInv, NEW c \in DOMAIN callbacks, gui_callback_task(c)
  PROVE  GuiInv'
<1> DEFINE r == callbacks[c]
<1>1. /\ PenTypes /\ UpdateTypes /\ OrderInv /\ ListInv /\ ReadyInv
      /\ WalkInv /\ ClickInv /\ AimInv /\ SizeInv /\ SuspendedByOne
  BY DEF GuiInv
<1>2. Effect(r)
  BY <1>1, Effects
<1>3. Moves(r) /\ InOrder(callbacks')
  BY <1>1, MovesIs DEF gui_callback_task
<1>4. r \in Record /\ r \in Tasks
  BY <1>3 DEF Moves
<1>5. OrderInv'
  <2>1. Updating' <=> Updating
    BY <1>2 DEF Effect, UnchangedByCallback, Updating
  <2>2. ASSUME Updating, NEW u \in Tasks' PROVE ~u.new
    <3>1. u \in Tasks \/ u = Step(r)
      BY <1>3 DEF Moves
    <3>2. Step(r).new = r.new
      BY <1>4, StepIs
    <3>3. QED
      BY <1>1, <1>4, <2>2, <3>1, <3>2 DEF OrderInv
  <2>3. QED
    BY <1>3, <2>1, <2>2 DEF OrderInv
<1>6. \A u \in Tasks' : u \in Record
  BY <1>5, TasksTyped
<1> HIDE DEF r
<1>7. PenTypes' /\ UpdateTypes'
  BY <1>1, <1>2, <1>4, CallbackPenTypes, CallbackUpdateTypes
<1>8. current_form' \in Forms
  BY <1>7 DEF UpdateTypes
<1>9. ListInv'
  BY <1>1, <1>2, <1>3, <1>5, <1>6, CallbackListInv
<1>10. ReadyInv'
  BY <1>1, <1>2, <1>3, <1>5, <1>6, <1>7, <1>8, <1>9, CallbackReadyInv
<1>11. WalkInv'
  BY <1>1, <1>2, <1>3, <1>5, <1>8, <1>10, CallbackWalkInv
<1>12. ClickInv'
  BY <1>1, <1>2, CallbackClickInv
<1>13. AimInv'
  BY <1>1, <1>2, <1>4, CallbackAimInv
<1>14. SizeInv'
  BY <1>1, <1>2, <1>3, <1>6, CallbackSizeInv
<1>15. SuspendedByOne'
  BY <1>1, <1>3, CallbackSuspended DEF r
<1>16. QED
  BY <1>5, <1>7, <1>9, <1>10, <1>11, <1>12, <1>13, <1>14, <1>15 DEF GuiInv

LEMMA OtherGuiInv ==
  ASSUME TouchGuiAssumption, GuiInv, Other, ~outside \/ UNCHANGED vars
  PROVE  GuiInv'
<1>1. /\ PenTypes /\ UpdateTypes /\ OrderInv /\ ListInv /\ ReadyInv
      /\ WalkInv /\ ClickInv /\ AimInv /\ SizeInv /\ SuspendedByOne
  BY DEF GuiInv
<1>2. ListTypes
  BY <1>1 DEF ListInv
<1>3. PenTypes' /\ UpdateTypes'
  BY <1>1, <1>2, PenStep, UpdateStep
<1>4. OrderInv' /\ Keeps
  BY <1>1, OtherTasks
<1>5. \A u \in Tasks' : u \in Record
  BY <1>4, TasksTyped
<1>6. UNCHANGED <<current_form, lists, size, command, astray>>
  BY OtherLists
<1>7. ListInv'
  BY <1>1, <1>4, <1>5, <1>6, OtherListInv
<1>8. ReadyInv'
  BY <1>1, <1>4, OtherReadyInv
<1>9. WalkInv'
  BY <1>1, <1>3, OtherWalkInv
<1>10. ClickInv'
  BY <1>1, <1>2, OtherClickInv
<1>11. AimInv'
  BY <1>1, <1>2, OtherAimInv
<1>12. SizeInv'
  BY <1>1, <1>4, <1>5, <1>6, OtherSizeInv
<1>13. SuspendedByOne'
  BY <1>1, <1>4, OtherSuspended
<1>14. QED
  BY <1>3, <1>4, <1>7, <1>8, <1>9, <1>10, <1>11, <1>12, <1>13 DEF GuiInv

(* GuiInv holds in every state.                                            *)
THEOREM GuiInvariant == Spec => []GuiInv
<1>1. Init => GuiInv
  BY GuiInit, TouchGuiAssumption
<1>2. GuiInv /\ [Next]_vars => GuiInv'
  <2>1. SUFFICES ASSUME GuiInv, [Next]_vars PROVE GuiInv'
    OBVIOUS
  <2>2. \/ Other /\ (~outside \/ UNCHANGED vars)
        \/ \E c \in DOMAIN callbacks : gui_callback_task(c)
    BY <2>1 DEF Next, Other
  <2>3. QED
    BY <2>1, <2>2, TouchGuiAssumption, CallbackGuiInv, OtherGuiInv
<1>3. QED
  BY <1>1, <1>2, PTL DEF Spec

(* The types, and guiupdate_task is suspended only while a task that will  *)
(* resume it is under way (StateOK of TouchGui.tla).                       *)
THEOREM StateHolds == Spec => []StateOK
<1>1. ASSUME GuiInv PROVE StateOK
  <2>1. PenTypes /\ UpdateTypes /\ OrderInv /\ ListTypes /\ SuspendedByOne
    BY <1>1 DEF GuiInv, ListInv
  <2>2. \A f \in Forms, kind \in Kinds :
          lists[f][kind].number \in 0 .. Amount(f, kind) /\ lists[f][kind].linked \in 0 .. Amount(f, kind)
    BY <2>1, ListsAre
  <2>3. callbacks \in Seq([button : AllButtons, done : Nat, new : BOOLEAN])
    BY <2>1 DEF OrderInv, InOrder, Record
  <2>4. ASSUME NEW c \in 1 .. Len(callbacks) - 2 PROVE Calibrating(c)
    <3>1. PICK n \in Nat : n = Len(callbacks) /\ DOMAIN callbacks = 1 .. n
      BY <2>3
    <3>2. c \in 1 .. n /\ c + 1 \in 1 .. n /\ c < c + 1 /\ c + 1 # n
      BY <3>1
    <3>3. ~callbacks[c + 1].new
      BY <2>1, <3>1, <3>2 DEF OrderInv, InOrder
    <3>4. Calibration(callbacks[c])
      BY <2>1, <3>1, <3>2, <3>3 DEF OrderInv, InOrder
    <3>5. QED
      BY <3>4 DEF Calibration, Calibrating
  <2>5. TypeOK
    BY <2>1, <2>2, <2>3, <2>4 DEF TypeOK, PenTypes, UpdateTypes, CounterTypes
  <2>6. QED
    BY <2>1, <2>5 DEF StateOK
<1>2. QED
  BY <1>1, GuiInvariant, PTL

(* gui_form_update runs past the end of a list only if a callback made the *)
(* lists shorter while it ran (WalksInside of TouchGui.tla).               *)
THEOREM WalksStayInside == Spec => []WalksInside
<1>1. GuiInv => WalksInside
  BY DEF GuiInv, WalkInv, WalksInside
<1>2. QED
  BY <1>1, GuiInvariant, PTL

(* A button is pressed as touched, unless the user is hurried or the scan  *)
(* failed (AsTouched of TouchGui.tla).                                     *)
THEOREM PressedAsTouched == Spec => []AsTouched
<1>1. ASSUME GuiInv PROVE AsTouched
  <2>1. SUFFICES ASSUME pressed_button # NoButton, ~hurried, ~failed PROVE pressed_button = aim
    BY DEF AsTouched
  <2>2. pressed_button \in {NoButton, aim}
    BY <1>1, <2>1 DEF GuiInv, AimInv, Idle
  <2>3. QED
    BY <2>1, <2>2
<1>2. QED
  BY <1>1, GuiInvariant, PTL

(* Between two updates no button is clicked, unless an update was torn     *)
(* (NothingLeft of TouchGui.tla).                                          *)
THEOREM NothingStaysClicked == Spec => []NothingLeft
<1>1. GuiInv => NothingLeft
  BY DEF GuiInv, ClickInv, UpdateTypes, NothingLeft
<1>2. QED
  BY <1>1, GuiInvariant, PTL

(* Without a callback under way the size of the blocks fits the mode of    *)
(* read_mcu, and the form displayed (SizeFits of TouchGui.tla).            *)
THEOREM SizesFit == Spec => []SizeFits
<1>1. ASSUME GuiInv PROVE SizeFits
  <2>1. SUFFICES ASSUME callbacks = <<>>
                 PROVE  /\ size = 96 <=> command # 0
                        /\ astray \/ (size = 96 <=> current_form \in {"sensor", "mag"})
    BY DEF SizeFits
  <2>2. \A r \in Tasks : FALSE
    BY <2>1, TasksAre
  <2>3. QED
    BY <1>1, <2>2 DEF GuiInv, SizeInv
<1>2. QED
  BY <1>1, GuiInvariant, PTL
=============================================================================
