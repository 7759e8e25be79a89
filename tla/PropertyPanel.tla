--------------------------- MODULE PropertyPanel ---------------------------
(***************************************************************************)
(* The panel that shows the properties of the selected object.             *)
(*                                                                         *)
(*   GUI thread     selects an object, asks the server for its properties, *)
(*                  handles the events of its dispatchers and the edits    *)
(*                  of the user                                            *)
(*   reader thread  stores the values that arrive in the model, updates    *)
(*                  the widgets that show them and posts an event          *)
(*   server         answers requests, sets properties                      *)
(*   application    changes properties and caps, replaces elements         *)
(*                                                                         *)
(* A row of the panel is found by the name of its property alone, and a    *)
(* widget that changes tells the server, whoever changed it: a check       *)
(* button always, a choice or an entry only if it was the user.            *)
(*                                                                         *)
(* A handler is one step (in the code nothing keeps the reader from        *)
(* touching the widgets in the middle of one).  All properties have two    *)
(* values, and an element has the same properties as its klass.            *)
(***************************************************************************)
EXTENDS Integers, Sequences, SequencesExt, FiniteSets, Functions

CONSTANTS
  Elements, Pads,
  Nothing,      \* selected when nothing is
  Props,        \* properties of an element
  Widget,       \* Widget[p]: "toggle" (boolean), "choice" (enum, flags) or "entry"
  MaxClicks,    \* bound: what the user does
  MaxChanges    \* bound: what the application does

ASSUME ObjectsAssumption == Elements \cap Pads = {} /\ Nothing \notin Elements \cup Pads
ASSUME PropsAssumption ==
  IsFiniteSet(Props) /\ "" \notin Props /\ Widget \in [Props -> {"toggle", "choice", "entry"}]
ASSUME PanelBounds == MaxClicks \in Nat /\ MaxChanges \in Nat

Values == {"off", "on"}
Caps == 0..MaxChanges
\* An ElementModel: the element and which of its models it is.
Object == [of : Elements, no : 0..MaxChanges]
NoObject == [of |-> Nothing, no |-> 0]
PadModel == [of : Pads, no : {0}]

VARIABLES
  exists, value, caps,  \* the pipeline: its elements, their properties, caps of pads
  mirror,     \* mirror[e]: the latest model of e, and whether it is in the model
  model,      \* model[o][p]: the entry of an ElementModel, "none", "null" or a value
  known,      \* known[x]: caps of a PadModel, -1 if unknown
  klass,      \* of the elements: "unknown", "requested" or "known"
  selected,   \* Controller::selected_object
  previous,   \* previous_element_path
  rows,       \* rows[p]: the object whose value the row of p shows
  tree,       \* the list for a pad
  events,     \* posted to the GUI thread
  commands, frames,
  crashed,    \* the debugger called a function of a null pointer
  changed,    \* history: what the application changed since it was last reported
  crossed,    \* history: values the user, or a widget, sent with an answer under way
  wanted,     \* history: the last edit of a value, unless the application changed it
  late,       \* history: an answer was handled before the klass was known
  clicks, changes

pipelineVars == <<exists, value, caps>>
modelVars == <<mirror, model, known, klass>>
guiVars == <<selected, previous, rows, tree>>
wires == <<commands, frames>>
history == <<changed, crossed, wanted, late>>
vars == <<pipelineVars, modelVars, guiVars, events, wires, crashed, history, clicks, changes>>

Pairs == Elements \X Props
Command ==
  [op : {"get"}, of : Elements, prop : Props \cup {""}]
    \cup [op : {"set"}, of : Elements, prop : Props, to : Values, by : {"user", "widget"}]
    \cup [op : {"pad"}, of : Pads] \cup [op : {"klass"}]
Frame ==
  [what : {"value"}, of : Elements, prop : Props, is : Values]
    \cup [what : {"pad"}, of : Pads, is : Caps]
    \cup [what : {"added", "removed"}, of : Elements] \cup [what : {"klass"}]
Event == [what : {"selected"}] \cup [what : {"property"}, of : Elements, prop : Props]

TypeOK ==
  /\ exists \subseteq Elements /\ value \in [Elements -> [Props -> Values]] /\ caps \in [Pads -> Caps]
  /\ mirror \in [Elements -> [no : 0..MaxChanges, shown : BOOLEAN]]
  /\ model \in [Object -> [Props -> {"none", "null"} \cup Values]]
  /\ known \in [Pads -> Caps \cup {-1}] /\ klass \in {"unknown", "requested", "known"}
  /\ selected \in Object \cup PadModel \cup {NoObject}
  /\ previous \in Elements \cup {Nothing}
  /\ DOMAIN rows \subseteq Props
  /\ \A p \in DOMAIN rows : rows[p] \in Object /\ model[rows[p]][p] \in Values
  /\ tree = <<>> \/ tree[1].of \in Pads
  /\ events \in Seq(Event) /\ commands \in Seq(Command) /\ frames \in Seq(Frame)
  /\ clicks \in 0..MaxClicks /\ changes \in 0..MaxChanges

Now(e) == [of |-> e, no |-> mirror[e].no]

\* A connection to elements that were set up alike.
Init ==
  /\ exists = Elements /\ caps = [x \in Pads |-> 0]
  /\ \E v \in Values : value = [e \in Elements |-> [p \in Props |-> v]]
  /\ mirror = [e \in Elements |-> [no |-> 0, shown |-> TRUE]]
  /\ model = [o \in Object |-> [p \in Props |-> "none"]]
  /\ known = [x \in Pads |-> -1]
  /\ klass \in {"unknown", "known"}
  /\ selected = NoObject /\ previous = Nothing /\ rows = <<>> /\ tree = <<>>
  /\ events = <<>> /\ commands = <<>> /\ frames = <<>>
  /\ crashed = FALSE
  /\ changed = {} /\ crossed = {} /\ late = FALSE
  /\ wanted = [e \in Elements |-> [p \in Props |-> "none"]]
  /\ clicks = 0 /\ changes = 0

-----------------------------------------------------------------------------
\* Widgets

\* Mutant: a choice is not told from a change by the user.
AnnouncesChoices(p, from, to) == from # to /\ Widget[p] \in {"toggle", "choice"}

\* Whether a widget that goes from one value to another sends it to the server.
Announces(p, from, to) == from # to /\ Widget[p] = "toggle"

Set(e, p, v, by) == [op |-> "set", of |-> e, prop |-> p, to |-> v, by |-> by]

Asked(e, p) == \E i \in DOMAIN commands : commands[i].op = "get" /\ commands[i].of = e
                                          /\ commands[i].prop \in {"", p}
Answered(e, p, fs) == \E i \in DOMAIN fs : fs[i].what = "value"
                                           /\ <<fs[i].of, fs[i].prop>> = <<e, p>>

\* A value is set through a row; is there an answer under way (fs among the
\* frames), or one that made a model the row does not show yet?
Sends(o, p, v, by, fs) ==
  /\ commands' = Append(commands, Set(o.of, p, v, by))
  /\ crossed' = IF Asked(o.of, p) \/ Answered(o.of, p, fs) \/ o # Now(o.of)
                THEN crossed \cup {<<o.of, p, by>>} ELSE crossed

Echo(o, p, from, to, fs) ==
  IF Announces(p, from, to) THEN Sends(o, p, to, "widget", fs) ELSE UNCHANGED <<commands, crossed>>

ClearWidgets == rows' = <<>> /\ tree' = <<>>

-----------------------------------------------------------------------------
\* GUI thread

ObjectOf(x) ==
  IF x \in Pads THEN [of |-> x, no |-> 0]
  ELSE IF x \in Elements /\ mirror[x].shown THEN Now(x) ELSE NoObject

Clicks == ~crashed /\ clicks < MaxClicks /\ clicks' = clicks + 1

SetSelectedObject == \E x \in Elements \cup Pads \cup {Nothing} :
  /\ Clicks
  /\ ObjectOf(x) # selected
  /\ selected' = ObjectOf(x)
  /\ events' = Append(events, [what |-> "selected"])
  /\ commands' = IF x \in Pads THEN Append(commands, [op |-> "pad", of |-> x]) ELSE commands
  /\ UNCHANGED <<pipelineVars, modelVars, previous, rows, tree, frames, crashed, history, changes>>

RequestSelectedElementProperty(p) ==
  /\ selected.of \in Elements
  /\ commands' = Append(commands, [op |-> "get", of |-> selected.of, prop |-> p])
  /\ previous' = selected.of
  /\ late' = (late /\ ~(p = "" /\ klass = "known"))

\* "Show properties", or "Refresh" in a row.
Refresh ==
  /\ Clicks
  /\ \E p \in {""} \cup DOMAIN rows : RequestSelectedElementProperty(p)
  /\ IF selected.of # previous THEN ClearWidgets ELSE UNCHANGED <<rows, tree>>
  /\ UNCHANGED <<pipelineVars, modelVars, selected, events, frames, crashed,
                 changed, crossed, wanted, changes>>

\* A check button or a choice tells of a change, an entry of every "Enter".
Offers(p, old, new) == Widget[p] = "entry" \/ new # old

\* The user clicks, chooses or types.
Edit == \E p \in DOMAIN rows, v \in Values :
  LET o == rows[p]  e == o.of
  IN /\ Clicks
     /\ Offers(p, model[o][p], v)
     /\ model' = [model EXCEPT ![o][p] = v]
     /\ Sends(o, p, v, "user", frames)
     /\ wanted' = [wanted EXCEPT ![e][p] = v]
     /\ UNCHANGED <<pipelineVars, mirror, known, klass, guiVars, events, frames, crashed,
                    changed, late, changes>>

\* What is known of the pad, in a list.
ShowPadProperties ==
  tree' = IF selected.of \in Pads THEN <<[of |-> selected.of, caps |-> known[selected.of]]>>
          ELSE <<>>

\* Mutant: what is shown stays.
SelectedObjectKeeps ==
  /\ UNCHANGED rows /\ ShowPadProperties
  /\ IF selected.of \in Elements THEN RequestSelectedElementProperty("")
     ELSE UNCHANGED <<previous, commands, late>>
  /\ UNCHANGED <<model, crashed, crossed>>

SelectedObjectChanged ==
  /\ rows' = <<>>
  /\ ShowPadProperties
  /\ IF selected.of \in Elements THEN RequestSelectedElementProperty("")
     ELSE UNCHANGED <<previous, commands, late>>
  /\ UNCHANGED <<model, crashed, crossed>>

\* Mutant: the widget announces the value it begins with.
ShowRowTwice(o, p) ==
  /\ rows' = [q \in DOMAIN rows \cup {p} |-> IF q = p THEN o ELSE rows[q]]
  /\ Sends(o, p, "off", "widget", frames)
  /\ UNCHANGED <<model, crashed, late>>

\* update_property or append_property: a new widget, "off" to begin with.
ShowRow(o, p) ==
  /\ rows' = [q \in DOMAIN rows \cup {p} |-> IF q = p THEN o ELSE rows[q]]
  /\ Echo(o, p, "off", model[o][p], frames)
  /\ UNCHANGED <<model, crashed, late>>

\* Mutant: the entry is not looked at.
NewPropertyUnchecked(e, p) ==
  /\ IF mirror[e].shown THEN ShowRow(Now(e), p)
     ELSE UNCHANGED <<rows, commands, model, crashed, late, crossed>>
  /\ UNCHANGED <<tree, previous>>

\* append_property: a row is only made for an element whose klass is known.
Appends == selected.of \in Elements /\ klass = "known"

\* The value is taken from the element that has this path by now; looking for
\* an entry that is not there makes an empty one.
NewProperty(e, p) ==
  LET o == Now(e)
      row == p \in DOMAIN rows \/ Appends
  IN /\ \/ /\ ~mirror[e].shown
           /\ UNCHANGED <<rows, commands, model, crashed, late, crossed>>
        \/ /\ mirror[e].shown /\ row /\ model[o][p] \in Values
           /\ ShowRow(o, p)
        \/ /\ mirror[e].shown /\ row /\ model[o][p] \notin Values
           /\ crashed' = TRUE
           /\ UNCHANGED <<rows, commands, model, late, crossed>>
        \/ /\ mirror[e].shown /\ ~row
           /\ model' = [model EXCEPT ![o][p] = IF @ = "none" THEN "null" ELSE @]
           /\ late' = (late \/ selected.of \in Elements)
           /\ UNCHANGED <<rows, commands, crashed, crossed>>
     /\ UNCHANGED <<tree, previous>>

\* The dispatchers of a thread share one pipe: events are handled in the order
\* they were posted.
Dispatch ==
  /\ ~crashed /\ events # <<>>
  /\ events' = Tail(events)
  /\ LET ev == Head(events)
     IN \/ ev.what = "selected" /\ SelectedObjectChanged
        \/ ev.what = "property" /\ NewProperty(ev.of, ev.prop)
  /\ UNCHANGED <<pipelineVars, mirror, known, klass, selected, frames, changed, wanted, clicks,
                 changes>>

-----------------------------------------------------------------------------
\* Reader thread

Bound(o, p) == p \in DOMAIN rows /\ rows[p] = o

\* The widget that shows the value follows it.
UpdateGvalue(o, p, from, to) ==
  IF Bound(o, p) THEN Echo(o, p, from, to, Tail(frames)) ELSE UNCHANGED <<commands, crossed>>

\* Mutant: a value is only stored once the klass is known.
AddPropertyOfKlass(o, p, v) ==
  /\ model' = IF klass = "known" THEN [model EXCEPT ![o][p] = v] ELSE model
  /\ UNCHANGED <<commands, crashed, crossed>>

AddProperty(o, p, v) ==
  \/ /\ model[o][p] = "null"
     /\ crashed' = TRUE /\ UNCHANGED <<model, commands, crossed>>
  \/ /\ model[o][p] # "null"
     /\ model' = [model EXCEPT ![o][p] = v]
     /\ UpdateGvalue(o, p, model[o][p], v)
     /\ UNCHANGED crashed

ProcessValue(e, p, v) ==
  /\ IF mirror[e].shown THEN AddProperty(Now(e), p, v) ELSE UNCHANGED <<model, commands, crashed, crossed>>
  /\ events' = Append(events, [what |-> "property", of |-> e, prop |-> p])
  /\ UNCHANGED <<mirror, known, klass>>

\* Mutant: nobody is told.
UpdatePadQuietly(x, c) ==
  /\ known' = [known EXCEPT ![x] = c]
  /\ UNCHANGED <<events, mirror, model, klass, commands, crashed, crossed>>

UpdatePadDynamicInfo(x, c) ==
  /\ known' = [known EXCEPT ![x] = c]
  /\ events' = IF selected.of = x THEN Append(events, [what |-> "selected"]) ELSE events
  /\ UNCHANGED <<mirror, model, klass, commands, crashed, crossed>>

\* ElementModels come and go; one that comes has no entries.
ProcessElement(e, shown) ==
  /\ mirror' = [mirror EXCEPT ![e] = [no |-> IF shown THEN @.no + 1 ELSE @.no, shown |-> shown]]
  /\ UNCHANGED <<model, known, klass, events, commands, crashed, crossed>>

UpdateKlassModel ==
  /\ klass' = "known"
  /\ UNCHANGED <<mirror, model, known, events, commands, crashed, crossed>>

\* The request for the klass comes after the elements were shown.
RequestKlass ==
  /\ ~crashed /\ klass = "unknown"
  /\ klass' = "requested"
  /\ commands' = Append(commands, [op |-> "klass"])
  /\ UNCHANGED <<pipelineVars, mirror, model, known, guiVars, events, frames, crashed, history,
                 clicks, changes>>

ProcessFrame ==
  /\ ~crashed /\ klass # "unknown" /\ frames # <<>>
  /\ frames' = Tail(frames)
  /\ LET f == Head(frames)
     IN \/ f.what = "value" /\ ProcessValue(f.of, f.prop, f.is)
        \/ f.what = "pad" /\ UpdatePadDynamicInfo(f.of, f.is)
        \/ f.what \in {"added", "removed"} /\ ProcessElement(f.of, f.what = "added")
        \/ f.what = "klass" /\ UpdateKlassModel
  /\ UNCHANGED <<pipelineVars, guiVars, changed, wanted, late, clicks, changes>>

-----------------------------------------------------------------------------
\* The server

\* Nothing is done for an element that the path does not lead to.
Found(e) == e \in exists

SendProperty(e, p) == [what |-> "value", of |-> e, prop |-> p, is |-> value[e][p]]

\* An edit that comes behind the request makes the answer an old one.
Overtaken(e, p) == \E i \in 2..Len(commands) :
  commands[i].op = "set" /\ <<commands[i].of, commands[i].prop>> = <<e, p>>

ProcessPropertyRequest(e, prop) ==
  LET asked == IF ~Found(e) THEN {} ELSE IF prop = "" THEN Props ELSE {prop}
      settled == {q \in crossed : q[1] = e /\ q[2] \in asked /\ ~Overtaken(e, q[2])}
  IN /\ frames' = frames \o [i \in DOMAIN SetToSeq(asked) |-> SendProperty(e, SetToSeq(asked)[i])]
     /\ changed' = changed \ ({e} \X asked)
     /\ crossed' = crossed \ settled
     /\ wanted' = [d \in Elements |-> [p \in Props |->
          IF <<d, p, "user">> \in settled THEN "none" ELSE wanted[d][p]]]
     /\ UNCHANGED <<value, late>>

SetProperty(e, p, v) ==
  /\ value' = IF Found(e) THEN [value EXCEPT ![e][p] = v] ELSE value
  /\ changed' = changed \ {<<e, p>>}
  /\ UNCHANGED <<frames, crossed, wanted, late>>

SendPadDynamicInfo(x) ==
  /\ frames' = Append(frames, [what |-> "pad", of |-> x, is |-> caps[x]])
  /\ changed' = changed \ {<<x, "caps">>}
  /\ UNCHANGED <<value, crossed, wanted, late>>

SendKlass ==
  /\ frames' = Append(frames, [what |-> "klass"])
  /\ UNCHANGED <<value, changed, crossed, wanted, late>>

Serve ==
  /\ commands # <<>>
  /\ commands' = Tail(commands)
  /\ LET c == Head(commands)
     IN \/ c.op = "get" /\ ProcessPropertyRequest(c.of, c.prop)
        \/ c.op = "set" /\ SetProperty(c.of, c.prop, c.to)
        \/ c.op = "pad" /\ SendPadDynamicInfo(c.of)
        \/ c.op = "klass" /\ SendKlass
  /\ UNCHANGED <<exists, caps, modelVars, guiVars, events, crashed, clicks, changes>>

-----------------------------------------------------------------------------
\* The application

Changes == changes < MaxChanges /\ changes' = changes + 1

ChangeValue == \E e \in exists, p \in Props :
  /\ Changes
  /\ \E v \in Values \ {value[e][p]} : value' = [value EXCEPT ![e][p] = v]
  /\ changed' = changed \cup {<<e, p>>}
  /\ wanted' = [wanted EXCEPT ![e][p] = "none"]
  /\ UNCHANGED <<exists, caps, modelVars, guiVars, events, wires, crashed, crossed, late, clicks>>

ChangeCaps == \E x \in Pads :
  /\ Changes
  /\ caps' = [caps EXCEPT ![x] = @ + 1]
  /\ changed' = changed \cup {<<x, "caps">>}
  /\ UNCHANGED <<exists, value, modelVars, guiVars, events, wires, crashed, crossed, wanted, late,
                 clicks>>

BinRemove == \E e \in exists :
  /\ Changes
  /\ exists' = exists \ {e}
  /\ frames' = Append(frames, [what |-> "removed", of |-> e])
  /\ UNCHANGED <<value, caps, modelVars, guiVars, events, commands, crashed, history, clicks>>

\* Another element of the same name.
BinAdd == \E e \in Elements \ exists :
  /\ Changes
  /\ exists' = exists \cup {e}
  /\ value' = [value EXCEPT ![e] = [p \in Props |-> "off"]]
  /\ frames' = Append(frames, [what |-> "added", of |-> e])
  /\ changed' = changed \cup ({e} \X Props)
  /\ wanted' = [wanted EXCEPT ![e] = [p \in Props |-> "none"]]
  /\ UNCHANGED <<caps, modelVars, guiVars, events, commands, crashed, crossed, late, clicks>>

-----------------------------------------------------------------------------
User == SetSelectedObject \/ Refresh \/ Edit
Application == ChangeValue \/ ChangeCaps \/ BinRemove \/ BinAdd

Next == User \/ Dispatch \/ RequestKlass \/ ProcessFrame \/ Serve \/ Application

Spec == Init /\ [][Next]_vars

-----------------------------------------------------------------------------
Quiet == ~crashed /\ klass # "unknown" /\ <<events, commands, frames>> = <<<<>>, <<>>, <<>>>>

\* Rows are found by name and filled by whatever answer comes: once everything
\* that was posted and asked for is handled, they are nevertheless those of
\* the selected element as long as it is there, all of them if the klass was
\* known in time.
PanelIsOfSelected == Quiet =>
  /\ selected.of \notin Elements => rows = <<>>
  /\ selected.of \in exists /\ selected = Now(selected.of) =>
       /\ \A p \in DOMAIN rows : rows[p].of = selected.of
       /\ ~late => DOMAIN rows = Props

\* What a row shows is the value the element has, unless the application has
\* changed it since, or a value was set with an older answer under way, by the
\* user or by the widget itself.  The panel of a pad shows the caps of the last
\* answer.
ShownIsTrue == Quiet =>
  /\ \A p \in DOMAIN rows :
       LET e == rows[p].of
       IN e \in exists /\ <<e, p>> \notin changed \cup {<<q[1], q[2]>> : q \in crossed}
          => model[rows[p]][p] = value[e][p]
  /\ selected.of \in Pads =>
       /\ tree = <<[of |-> selected.of, caps |-> known[selected.of]]>>
       /\ <<selected.of, "caps">> \in changed \/ known[selected.of] = caps[selected.of]

\* An edit is only undone by the application or by an answer it crossed,
\* although widgets send values on their own.
EditsStand == Quiet => \A e \in exists, p \in Props :
  wanted[e][p] # "none" /\ <<e, p, "user">> \notin crossed => value[e][p] = wanted[e][p]

\* ElementModel::get_property, add_property: a value that is missing from the
\* model when it is looked for takes an element that was replaced.
CrashesOnlyOnReplaced == crashed => \E e \in Elements : mirror[e].no > 0

\* Looking at an element changes no property that is not shown by a check button.
ChangedOnPurpose == [][\A e \in Elements, p \in Props :
  value'[e][p] # value[e][p] /\ Widget[p] # "toggle"
    => changes' # changes \/ Head(commands).by = "user"]_vars
=============================================================================
