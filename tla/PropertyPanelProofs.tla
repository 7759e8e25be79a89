------------------------ MODULE PropertyPanelProofs ------------------------
(***************************************************************************)
(* The panel of properties, for every set of elements, pads and            *)
(* properties and however often the user and the application interfere.    *)
(***************************************************************************)
EXTENDS PropertyPanel, ListFacts, FiniteSetTheorems, SequenceTheorems, TLAPS

-----------------------------------------------------------------------------
\* Messages and their fields.

\* A request is for a property, or for all of them.
Asks == Props \cup {""}

LEMMA CommandFields ==
  ASSUME NEW c \in Command
  PROVE  /\ c.op \in {"get", "set", "pad", "klass"}
         /\ c.op = "get" => c.of \in Elements /\ c.prop \in Asks
         /\ c.op = "set" => /\ c.of \in Elements /\ c.prop \in Props /\ c.to \in Values
                           /\ c.by \in {"user", "widget"}
         /\ c.op = "pad" => c.of \in Pads
BY DEF Command, Asks

LEMMA FrameFields ==
  ASSUME NEW f \in Frame
  PROVE  /\ f.what \in {"value", "pad", "added", "removed", "klass"}
         /\ f.what = "value" => f.of \in Elements /\ f.prop \in Props /\ f.is \in Values
         /\ f.what = "pad" => f.of \in Pads /\ f.is \in Caps
         /\ f.what \in {"added", "removed"} => f.of \in Elements
BY DEF Frame

LEMMA EventFields ==
  ASSUME NEW ev \in Event
  PROVE  /\ ev.what \in {"selected", "property"}
         /\ ev.what = "property" => ev.of \in Elements /\ ev.prop \in Props
BY DEF Event

Get(e, p) == [op |-> "get", of |-> e, prop |-> p]
AskPad(x) == [op |-> "pad", of |-> x]
AskKlass == [op |-> "klass"]
ValueOf(e, p, v) == [what |-> "value", of |-> e, prop |-> p, is |-> v]
CapsOf(x, c) == [what |-> "pad", of |-> x, is |-> c]
Added(e) == [what |-> "added", of |-> e]
Removed(e) == [what |-> "removed", of |-> e]
TheKlass == [what |-> "klass"]
Select == [what |-> "selected"]
PropertyOf(e, p) == [what |-> "property", of |-> e, prop |-> p]

LEMMA NewCommands ==
  /\ \A e \in Elements, p \in Props, v \in Values, by \in {"user", "widget"} :
       Set(e, p, v, by) \in Command
  /\ \A e \in Elements, p \in Asks : Get(e, p) \in Command
  /\ \A x \in Pads : AskPad(x) \in Command
  /\ AskKlass \in Command
<1>1. ASSUME NEW e \in Elements, NEW p \in Props, NEW v \in Values, NEW by \in {"user", "widget"}
      PROVE  Set(e, p, v, by) \in Command
  <2>1. Set(e, p, v, by) \in [op : {"set"}, of : Elements, prop : Props, to : Values,
                              by : {"user", "widget"}]
    BY DEF Set
  <2> QED  BY <2>1, Zenon DEF Command
<1>2. ASSUME NEW e \in Elements, NEW p \in Asks PROVE Get(e, p) \in Command
  <2>1. Get(e, p) \in [op : {"get"}, of : Elements, prop : Props \cup {""}]
    BY DEF Get, Asks
  <2> QED  BY <2>1, Zenon DEF Command
<1>3. ASSUME NEW x \in Pads PROVE AskPad(x) \in Command
  <2>1. AskPad(x) \in [op : {"pad"}, of : Pads]
    BY DEF AskPad
  <2> QED  BY <2>1, Zenon DEF Command
<1>4. AskKlass \in Command
  <2>1. AskKlass \in [op : {"klass"}]
    BY DEF AskKlass
  <2> QED  BY <2>1, Zenon DEF Command
<1> QED  BY <1>1, <1>2, <1>3, <1>4

LEMMA NewCommandFields ==
  /\ \A e, p, v, by : /\ Set(e, p, v, by).op = "set" /\ Set(e, p, v, by).of = e
                      /\ Set(e, p, v, by).prop = p /\ Set(e, p, v, by).to = v
                      /\ Set(e, p, v, by).by = by
  /\ \A e, p : Get(e, p).op = "get" /\ Get(e, p).of = e /\ Get(e, p).prop = p
  /\ \A x : AskPad(x).op = "pad" /\ AskPad(x).of = x
  /\ AskKlass.op = "klass"
BY DEF Set, Get, AskPad, AskKlass

LEMMA NewFrames ==
  /\ \A e \in Elements, p \in Props, v \in Values : ValueOf(e, p, v) \in Frame
  /\ \A x \in Pads, c \in Caps : CapsOf(x, c) \in Frame
  /\ \A e \in Elements : Added(e) \in Frame /\ Removed(e) \in Frame
  /\ TheKlass \in Frame
BY DEF ValueOf, CapsOf, Added, Removed, TheKlass, Frame

LEMMA NewFrameFields ==
  /\ \A e, p, v : /\ ValueOf(e, p, v).what = "value" /\ ValueOf(e, p, v).of = e
                  /\ ValueOf(e, p, v).prop = p /\ ValueOf(e, p, v).is = v
  /\ \A x, c : CapsOf(x, c).what = "pad" /\ CapsOf(x, c).of = x /\ CapsOf(x, c).is = c
  /\ \A e : /\ Added(e).what = "added" /\ Added(e).of = e
            /\ Removed(e).what = "removed" /\ Removed(e).of = e
  /\ TheKlass.what = "klass"
BY DEF ValueOf, CapsOf, Added, Removed, TheKlass

LEMMA NewEvents ==
  /\ Select \in Event /\ Select.what = "selected"
  /\ \A e \in Elements, p \in Props : PropertyOf(e, p) \in Event
  /\ \A e, p : /\ PropertyOf(e, p).what = "property" /\ PropertyOf(e, p).of = e
               /\ PropertyOf(e, p).prop = p
BY DEF Select, PropertyOf, Event

-----------------------------------------------------------------------------
\* What the objects, counters and rows can be.  An element is replaced at most
\* as often as the application changes something; what was not made yet has no
\* entries.
BoundsOK ==
  /\ \A e \in Elements : mirror[e].no + Count(frames, Added(e)) <= changes
  /\ \A x \in Pads : caps[x] <= changes
  /\ \A p \in DOMAIN rows : rows[p].no <= mirror[rows[p].of].no
  /\ \A o \in Object, p \in Props : o.no > mirror[o.of].no => model[o][p] = "none"

Entries == {"none", "null"} \cup Values

LEMMA ObjectFields ==
  ASSUME TypeOK
  PROVE  /\ \A o \in Object : o.of \in Elements /\ o.no \in 0..MaxChanges
         /\ \A e \in Elements : Now(e) \in Object /\ Now(e).of = e /\ Now(e).no = mirror[e].no
         /\ \A o \in Object : o = Now(o.of) <=> o.no = mirror[o.of].no
BY DEF TypeOK, Object, Now

\* An entry is written.
Writes(m, o, p, v) == m = [model EXCEPT ![o][p] = v]

LEMMA EntrySet ==
  ASSUME TypeOK, NEW o \in Object, NEW p \in Props, NEW v \in Entries, NEW m, Writes(m, o, p, v)
  PROVE  /\ m \in [Object -> [Props -> Entries]]
         /\ \A d \in Object, q \in Props :
              m[d][q] = IF d = o /\ q = p THEN v ELSE model[d][q]
BY DEF TypeOK, Entries, Writes

\* A widget that goes along, and tells the server if it is a check button.
LEMMA EchoDoes ==
  ASSUME TypeOK, NEW o \in Object, NEW p \in Props, NEW from, NEW to \in Values, NEW fs,
         Echo(o, p, from, to, fs)
  PROVE  /\ commands' \in Seq(Command)
         /\ \/ commands' = commands
            \/ Widget[p] = "toggle" /\ commands' = Append(commands, Set(o.of, p, to, "widget"))
         /\ \A e, q : <<e, q, "user">> \in crossed' <=> <<e, q, "user">> \in crossed
<1>1. commands \in Seq(Command) /\ Set(o.of, p, to, "widget") \in Command
  BY NewCommands, ObjectFields DEF TypeOK
<1>2. Append(commands, Set(o.of, p, to, "widget")) \in Seq(Command)
  BY <1>1, AppendProperties
<1>3. CASE UNCHANGED <<commands, crossed>>
  BY <1>1, <1>3
<1>4. CASE Announces(p, from, to) /\ Sends(o, p, to, "widget", fs)
  BY <1>2, <1>4 DEF Announces, Sends
<1> QED  BY <1>3, <1>4 DEF Echo

-----------------------------------------------------------------------------
\* Types and bounds, action by action.
Fine == TypeOK /\ BoundsOK

LEMMA BoundsUnchanged ==
  BoundsOK /\ UNCHANGED <<mirror, frames, changes, caps, rows, model>> => BoundsOK'
BY DEF BoundsOK

LEMMA QueueGrows ==
  ASSUME TypeOK
  PROVE  /\ \A c \in Command : Append(commands, c) \in Seq(Command)
         /\ \A f \in Frame : Append(frames, f) \in Seq(Frame)
         /\ \A ev \in Event : Append(events, ev) \in Seq(Event)
BY AppendProperties DEF TypeOK

LEMMA SelectKeepsTypes ==
  ASSUME Fine, SetSelectedObject
  PROVE  Fine'
<1>1. PICK x \in Elements \cup Pads \cup {Nothing} :
        /\ clicks < MaxClicks /\ clicks' = clicks + 1
        /\ selected' = ObjectOf(x)
        /\ events' = Append(events, Select)
        /\ commands' = IF x \in Pads THEN Append(commands, AskPad(x)) ELSE commands
  BY Zenon DEF SetSelectedObject, Clicks, Select, AskPad
<1>2. UNCHANGED <<pipelineVars, modelVars, previous, rows, tree, frames, crashed, history, changes>>
  BY DEF SetSelectedObject
<1>3. ObjectOf(x) \in Object \cup PadModel \cup {NoObject}
  <2>1. x \in Elements => Now(x) \in Object
    BY ObjectFields DEF Fine
  <2>2. x \in Pads => [of |-> x, no |-> 0] \in PadModel
    BY DEF PadModel
  <2> QED  BY <2>1, <2>2 DEF ObjectOf
<1>4. events' \in Seq(Event) /\ commands' \in Seq(Command)
  BY <1>1, QueueGrows, NewCommands, NewEvents DEF Fine, TypeOK
<1>5. clicks' \in 0..MaxClicks
  BY <1>1, PanelBounds DEF PanelBounds, Fine, TypeOK
<1>6. TypeOK'
  BY <1>1, <1>2, <1>3, <1>4, <1>5 DEF Fine, TypeOK, pipelineVars, modelVars
<1> QED  BY <1>2, <1>6, BoundsUnchanged DEF Fine, pipelineVars, modelVars

LEMMA RefreshDoes ==
  ASSUME TypeOK, Refresh
  PROVE  /\ selected.of \in Elements /\ previous' = selected.of
         /\ \E p \in Asks : commands' = Append(commands, Get(selected.of, p))
         /\ commands' \in Seq(Command)
         /\ \/ rows' = <<>> /\ tree' = <<>>
            \/ UNCHANGED <<rows, tree>>
<1>1. PICK p \in {""} \cup DOMAIN rows : RequestSelectedElementProperty(p)
  BY DEF Refresh
<1>2. p \in Asks /\ selected.of \in Elements
  BY <1>1 DEF RequestSelectedElementProperty, TypeOK, Asks
<1>3. commands' = Append(commands, Get(selected.of, p)) /\ previous' = selected.of
  BY <1>1 DEF RequestSelectedElementProperty, Get
<1>4. commands' \in Seq(Command)
  BY <1>2, <1>3, QueueGrows, NewCommands
<1>5. (rows' = <<>> /\ tree' = <<>>) \/ UNCHANGED <<rows, tree>>
  BY DEF Refresh, ClearWidgets
<1> QED  BY <1>2, <1>3, <1>4, <1>5

LEMMA RefreshKeepsTypes ==
  ASSUME Fine, Refresh
  PROVE  Fine'
<1>1. UNCHANGED <<exists, value, caps, mirror, model, known, klass, selected, events, frames, changes>>
  BY DEF Refresh, pipelineVars, modelVars
<1>2. clicks' \in 0..MaxClicks
  <2>1. clicks' = clicks + 1 /\ clicks < MaxClicks
    BY DEF Refresh, Clicks
  <2> QED  BY <2>1, PanelBounds DEF PanelBounds, Fine, TypeOK
<1>3. /\ previous' \in Elements /\ commands' \in Seq(Command)
      /\ \/ rows' = <<>> /\ tree' = <<>>
         \/ UNCHANGED <<rows, tree>>
  BY RefreshDoes DEF Fine
<1>4. TypeOK'
  BY <1>1, <1>2, <1>3 DEF Fine, TypeOK
<1>5. CASE UNCHANGED rows
  BY <1>1, <1>4, <1>5, BoundsUnchanged DEF Fine
<1>6. CASE rows' = <<>>
  <2>1. BoundsOK'
    BY <1>1, <1>6 DEF Fine, BoundsOK
  <2> QED  BY <1>4, <2>1 DEF Fine
<1> QED  BY <1>3, <1>5, <1>6

LEMMA SendsDoes ==
  ASSUME TypeOK, NEW o \in Object, NEW p \in Props, NEW v \in Values, NEW by \in {"user", "widget"},
         NEW fs, Sends(o, p, v, by, fs)
  PROVE  commands' = Append(commands, Set(o.of, p, v, by)) /\ commands' \in Seq(Command)
<1>1. Set(o.of, p, v, by) \in Command
  BY NewCommands, ObjectFields
<1> QED  BY <1>1, QueueGrows DEF Sends

LEMMA EditKeepsTypes ==
  ASSUME Fine, Edit
  PROVE  Fine'
<1>1. PICK p \in DOMAIN rows, v \in Values :
        /\ clicks < MaxClicks /\ clicks' = clicks + 1
        /\ model' = [model EXCEPT ![rows[p]][p] = v]
        /\ Sends(rows[p], p, v, "user", frames)
  BY Zenon DEF Edit, Clicks
<1>2. UNCHANGED <<exists, value, caps, mirror, known, klass, selected, previous, rows, tree, events,
                  frames, changes>>
  BY DEF Edit, pipelineVars, guiVars
<1>3. p \in Props /\ rows[p] \in Object /\ rows[p].no <= mirror[rows[p].of].no
  BY DEF Fine, TypeOK, BoundsOK
<1>4. commands' \in Seq(Command)
  BY <1>1, <1>3, SendsDoes DEF Fine
<1>5. /\ model' \in [Object -> [Props -> Entries]]
      /\ \A d \in Object, q \in Props :
           model'[d][q] = IF d = rows[p] /\ q = p THEN v ELSE model[d][q]
  <2>1. PICK o \in Object : o = rows[p]
    BY <1>3
  <2>2. PICK m : m = model'
    OBVIOUS
  <2>3. v \in Entries /\ Writes(m, o, p, v)
    BY <1>1, <2>1, <2>2 DEF Entries, Writes
  <2>4. /\ m \in [Object -> [Props -> Entries]]
        /\ \A d \in Object, q \in Props : m[d][q] = IF d = o /\ q = p THEN v ELSE model[d][q]
    <3>1. TypeOK /\ p \in Props
      BY <1>3 DEF Fine
    <3> QED  BY <2>3, <3>1, EntrySet
  <2> QED  BY <2>1, <2>2, <2>4
<1>6. clicks' \in 0..MaxClicks
  BY <1>1, PanelBounds DEF PanelBounds, Fine, TypeOK
<1>7. \A q \in DOMAIN rows : model'[rows[q]][q] \in Values
  BY <1>5 DEF Fine, TypeOK
<1>8. TypeOK'
  BY <1>2, <1>4, <1>5, <1>6, <1>7 DEF Fine, TypeOK, Entries
<1>9. BoundsOK'
  <2>1. ASSUME NEW d \in Object, NEW q \in Props, d.no > mirror[d.of].no
        PROVE  model'[d][q] = "none"
    <3>1. d.no \in Int /\ mirror[d.of].no \in Int
      BY DEF Fine, TypeOK, Object
    <3>2. d # rows[p]
      BY <1>3, <2>1, <3>1
    <3> QED  BY <1>3, <1>5, <2>1, <3>2 DEF Fine, BoundsOK
  <2> QED  BY <1>2, <2>1 DEF Fine, BoundsOK
<1> QED  BY <1>8, <1>9 DEF Fine

LEMMA SelectedChangedDoes ==
  ASSUME TypeOK, SelectedObjectChanged
  PROVE  /\ UNCHANGED <<model, crashed, crossed>>
         /\ rows' = <<>>
         /\ tree' = <<>> \/ tree'[1].of \in Pads
         /\ previous' \in Elements \cup {Nothing}
         /\ commands' \in Seq(Command)
         /\ \/ commands' = commands
            \/ \E e \in Elements : e = selected.of /\ commands' = Append(commands, Get(e, ""))
<1>1. tree' = <<>> \/ tree'[1].of \in Pads
  BY DEF SelectedObjectChanged, ShowPadProperties
<1>2. CASE UNCHANGED <<previous, commands, late>>
  BY <1>1, <1>2 DEF SelectedObjectChanged, TypeOK
<1>3. CASE RequestSelectedElementProperty("")
  <2>1. selected.of \in Elements /\ previous' = selected.of
        /\ commands' = Append(commands, Get(selected.of, ""))
    BY <1>3 DEF RequestSelectedElementProperty, Get
  <2>2. Get(selected.of, "") \in Command
    BY <2>1, NewCommands DEF Asks
  <2>3. commands' \in Seq(Command)
    BY <2>1, <2>2, QueueGrows
  <2> QED  BY <1>1, <2>1, <2>3 DEF SelectedObjectChanged
<1> QED  BY <1>2, <1>3 DEF SelectedObjectChanged

\* What an event of a property does: nothing, a row, a crash, or an empty entry.
LEMMA NewPropertyDoes ==
  ASSUME TypeOK, NEW e \in Elements, NEW p \in Props, NewProperty(e, p)
  PROVE  /\ UNCHANGED <<tree, previous>>
         /\ commands' \in Seq(Command)
         /\ \/ ~mirror[e].shown /\ UNCHANGED <<rows, commands, model, crashed, late, crossed>>
            \/ /\ mirror[e].shown /\ model[Now(e)][p] \in Values
               /\ rows' = [q \in DOMAIN rows \cup {p} |-> IF q = p THEN Now(e) ELSE rows[q]]
               /\ Echo(Now(e), p, "off", model[Now(e)][p], frames)
               /\ UNCHANGED <<model, crashed, late>>
            \/ /\ mirror[e].shown /\ model[Now(e)][p] \notin Values /\ crashed'
               /\ UNCHANGED <<rows, commands, model, late, crossed>>
            \/ /\ mirror[e].shown
               /\ Writes(model', Now(e), p, IF model[Now(e)][p] = "none" THEN "null" ELSE model[Now(e)][p])
               /\ UNCHANGED <<rows, commands, crashed, crossed>>
<1>1. Now(e) \in Object /\ commands \in Seq(Command)
  BY ObjectFields DEF TypeOK
<1>2. ASSUME Echo(Now(e), p, "off", model[Now(e)][p], frames), model[Now(e)][p] \in Values
      PROVE  commands' \in Seq(Command)
  BY <1>1, <1>2, EchoDoes
<1> QED  BY <1>1, <1>2 DEF NewProperty, ShowRow, Writes

LEMMA DispatchKeepsTypes ==
  ASSUME Fine, Dispatch
  PROVE  Fine'
<1>1. UNCHANGED <<exists, value, caps, mirror, known, klass, selected, frames, clicks, changes>>
  BY DEF Dispatch, pipelineVars
<1>2. events \in Seq(Event) /\ Head(events) \in Event /\ events' = Tail(events) /\ events' \in Seq(Event)
  BY HeadTailProperties DEF Dispatch, Fine, TypeOK
<1> DEFINE ev == Head(events)
<1>3. CASE SelectedObjectChanged
  <2>1. /\ UNCHANGED model /\ rows' = <<>> /\ commands' \in Seq(Command)
        /\ tree' = <<>> \/ tree'[1].of \in Pads
        /\ previous' \in Elements \cup {Nothing}
    BY <1>3, SelectedChangedDoes DEF Fine
  <2>2. TypeOK'
    BY <1>1, <1>2, <2>1 DEF Fine, TypeOK
  <2>3. BoundsOK'
    BY <1>1, <2>1 DEF Fine, BoundsOK
  <2> QED  BY <2>2, <2>3 DEF Fine
<1>4. CASE ev.what = "property" /\ NewProperty(ev.of, ev.prop)
  <2>1. PICK e \in Elements : e = ev.of
    BY <1>2, <1>4, EventFields
  <2>2. PICK p \in Props : p = ev.prop
    BY <1>2, <1>4, EventFields
  <2>3. TypeOK /\ NewProperty(e, p)
    BY <1>4, <2>1, <2>2 DEF Fine
  <2>4. /\ UNCHANGED <<tree, previous>> /\ commands' \in Seq(Command)
        /\ \/ UNCHANGED <<rows, model>>
           \/ /\ UNCHANGED model /\ model[Now(e)][p] \in Values
              /\ rows' = [q \in DOMAIN rows \cup {p} |-> IF q = p THEN Now(e) ELSE rows[q]]
           \/ /\ UNCHANGED rows
              /\ Writes(model', Now(e), p, IF model[Now(e)][p] = "none" THEN "null" ELSE model[Now(e)][p])
    BY <2>3, NewPropertyDoes
  <2>5. Now(e) \in Object /\ Now(e).of = e /\ Now(e).no = mirror[e].no
    BY <2>3, ObjectFields
  <2>6. CASE UNCHANGED <<rows, model>>
    <3>1. TypeOK'
      BY <1>1, <1>2, <2>4, <2>6 DEF Fine, TypeOK
    <3> QED  BY <1>1, <2>6, <3>1, BoundsUnchanged DEF Fine
  <2>7. CASE /\ UNCHANGED model /\ model[Now(e)][p] \in Values
             /\ rows' = [q \in DOMAIN rows \cup {p} |-> IF q = p THEN Now(e) ELSE rows[q]]
    <3>1. /\ DOMAIN rows' = DOMAIN rows \cup {p} /\ rows'[p] = Now(e)
          /\ \A q \in DOMAIN rows' : q # p => q \in DOMAIN rows /\ rows'[q] = rows[q]
      BY <2>7
    <3>2. /\ DOMAIN rows' \subseteq Props
          /\ \A q \in DOMAIN rows' : rows'[q] \in Object /\ model'[rows'[q]][q] \in Values
      BY <2>3, <2>5, <2>7, <3>1 DEF TypeOK
    <3>3. TypeOK'
      BY <1>1, <1>2, <2>4, <2>7, <3>2 DEF Fine, TypeOK
    <3>4. \A q \in DOMAIN rows' : rows'[q].no <= mirror[rows'[q].of].no
      <4>1. mirror[e].no \in Int
        BY <2>3 DEF TypeOK
      <4> QED  BY <2>5, <3>1, <4>1 DEF Fine, BoundsOK
    <3>5. BoundsOK'
      BY <1>1, <2>7, <3>4 DEF Fine, BoundsOK
    <3> QED  BY <3>3, <3>5 DEF Fine
  <2>8. CASE /\ UNCHANGED rows
             /\ Writes(model', Now(e), p, IF model[Now(e)][p] = "none" THEN "null" ELSE model[Now(e)][p])
    <3>1. PICK o \in Object : o = Now(e)
      BY <2>5
    <3>2. PICK m : m = model'
      OBVIOUS
    <3>3. PICK v \in Entries : v = IF model[o][p] = "none" THEN "null" ELSE model[o][p]
      BY <2>3, <3>1 DEF TypeOK, Entries
    <3>4. /\ m \in [Object -> [Props -> Entries]]
          /\ \A d \in Object, q \in Props : m[d][q] = IF d = o /\ q = p THEN v ELSE model[d][q]
      BY <2>3, <2>8, <3>1, <3>2, <3>3, EntrySet
    <3>5. /\ model' \in [Object -> [Props -> Entries]]
          /\ \A d \in Object, q \in Props : model[d][q] \in Values => model'[d][q] = model[d][q]
      BY <3>2, <3>3, <3>4 DEF Values
    <3>6. \A q \in DOMAIN rows : model'[rows[q]][q] \in Values
      BY <2>3, <3>5 DEF TypeOK
    <3>7. TypeOK'
      BY <1>1, <1>2, <2>4, <2>8, <3>5, <3>6 DEF Fine, TypeOK, Entries
    <3>8. ASSUME NEW d \in Object, NEW q \in Props, d.no > mirror[d.of].no
          PROVE  model'[d][q] = "none"
      <4>1. mirror[e].no \in Int
        BY <2>3 DEF TypeOK
      <4>2. d # o
        BY <2>5, <3>1, <3>8, <4>1
      <4> QED  BY <3>2, <3>4, <3>8, <4>2 DEF Fine, BoundsOK
    <3>9. BoundsOK'
      BY <1>1, <2>8, <3>8 DEF Fine, BoundsOK
    <3> QED  BY <3>7, <3>9 DEF Fine
  <2> QED  BY <2>4, <2>6, <2>7, <2>8
<1> QED  BY <1>3, <1>4 DEF Dispatch

LEMMA RequestKlassKeepsTypes ==
  ASSUME Fine, RequestKlass
  PROVE  Fine'
<1>1. commands' = Append(commands, AskKlass) /\ klass' = "requested"
  BY DEF RequestKlass, AskKlass
<1>2. commands' \in Seq(Command)
  BY <1>1, QueueGrows, NewCommands DEF Fine
<1>3. UNCHANGED <<exists, value, caps, mirror, model, known, selected, previous, rows, tree, events,
                  frames, clicks, changes>>
  BY DEF RequestKlass, pipelineVars, guiVars
<1>4. TypeOK'
  BY <1>1, <1>2, <1>3 DEF Fine, TypeOK
<1> QED  BY <1>3, <1>4, BoundsUnchanged DEF Fine

\* The value of a frame goes into the latest model of its element, if that is
\* still there, and into the widget that shows it.
LEMMA AddPropertyDoes ==
  ASSUME TypeOK, NEW o \in Object, NEW p \in Props, NEW v \in Values, AddProperty(o, p, v)
  PROVE  /\ commands' \in Seq(Command)
         /\ \/ model[o][p] = "null" /\ crashed' /\ UNCHANGED <<model, commands, crossed>>
            \/ /\ model[o][p] # "null" /\ Writes(model', o, p, v) /\ UNCHANGED crashed
               /\ \/ Bound(o, p) /\ Echo(o, p, model[o][p], v, Tail(frames))
                  \/ UNCHANGED <<commands, crossed>>
<1>1. ASSUME Echo(o, p, model[o][p], v, Tail(frames)) PROVE commands' \in Seq(Command)
  BY <1>1, EchoDoes
<1>2. UNCHANGED commands => commands' \in Seq(Command)
  BY DEF TypeOK
<1> QED  BY <1>1, <1>2 DEF AddProperty, UpdateGvalue, Writes

\* What the reader thread makes of a frame.
ReadsValue(e, p, v) ==
  /\ Head(frames).what = "value" /\ <<Head(frames).of, Head(frames).prop, Head(frames).is>> = <<e, p, v>>
  /\ ProcessValue(e, p, v)
ReadsPad(x, c) ==
  /\ Head(frames).what = "pad" /\ <<Head(frames).of, Head(frames).is>> = <<x, c>>
  /\ UpdatePadDynamicInfo(x, c)
ReadsElement(e, shown) ==
  /\ Head(frames) = IF shown THEN Added(e) ELSE Removed(e)
  /\ ProcessElement(e, shown)

LEMMA ReaderDoes ==
  ASSUME TypeOK, ProcessFrame
  PROVE  /\ ~crashed /\ klass # "unknown"
         /\ frames # <<>> /\ Head(frames) \in Frame /\ frames' = Tail(frames) /\ frames' \in Seq(Frame)
         /\ UNCHANGED <<exists, value, caps, selected, previous, rows, tree, changed, wanted, late,
                        clicks, changes>>
         /\ \/ \E e \in Elements, p \in Props, v \in Values : ReadsValue(e, p, v)
            \/ \E x \in Pads, c \in Caps : ReadsPad(x, c)
            \/ \E e \in Elements, shown \in BOOLEAN : ReadsElement(e, shown)
            \/ Head(frames).what = "klass" /\ UpdateKlassModel
<1>1. /\ ~crashed /\ klass # "unknown"
      /\ frames # <<>> /\ Head(frames) \in Frame /\ frames' = Tail(frames) /\ frames' \in Seq(Frame)
  BY HeadTailProperties DEF ProcessFrame, TypeOK
<1>2. UNCHANGED <<exists, value, caps, selected, previous, rows, tree, changed, wanted, late,
                  clicks, changes>>
  BY DEF ProcessFrame, pipelineVars, guiVars
<1> DEFINE f == Head(frames)
<1>3. CASE f.what = "value" /\ ProcessValue(f.of, f.prop, f.is)
  BY <1>1, <1>2, <1>3, FrameFields DEF ReadsValue
<1>4. CASE f.what = "pad" /\ UpdatePadDynamicInfo(f.of, f.is)
  BY <1>1, <1>2, <1>4, FrameFields DEF ReadsPad
<1>5. CASE f.what \in {"added", "removed"} /\ ProcessElement(f.of, f.what = "added")
  <2>1. f.of \in Elements /\ f = IF f.what = "added" THEN Added(f.of) ELSE Removed(f.of)
    BY <1>1, <1>5 DEF Frame, Added, Removed
  <2>2. ReadsElement(f.of, f.what = "added")
    BY <1>5, <2>1 DEF ReadsElement
  <2> QED  BY <1>1, <1>2, <2>1, <2>2
<1>6. CASE f.what = "klass" /\ UpdateKlassModel
  BY <1>1, <1>2, <1>6
<1> QED  BY <1>3, <1>4, <1>5, <1>6 DEF ProcessFrame

LEMMA CountsInTail ==
  ASSUME TypeOK, frames # <<>>, NEW e \in Elements
  PROVE  /\ Count(Tail(frames), Added(e)) \in Nat
         /\ Count(frames, Added(e)) = IF Head(frames) = Added(e) THEN Count(Tail(frames), Added(e)) + 1
                                      ELSE Count(Tail(frames), Added(e))
BY CountOfTail DEF TypeOK

LEMMA ReaderKeepsTypes ==
  ASSUME Fine, ProcessFrame
  PROVE  Fine'
<1>1. /\ frames # <<>> /\ Head(frames) \in Frame /\ frames' = Tail(frames) /\ frames' \in Seq(Frame)
      /\ UNCHANGED <<exists, value, caps, selected, previous, rows, tree, clicks, changes>>
  BY ReaderDoes DEF Fine
<1>2. ASSUME NEW e \in Elements
      PROVE  /\ Count(frames, Added(e))' \in Nat
             /\ Count(frames, Added(e)) = IF Head(frames) = Added(e) THEN Count(frames, Added(e))' + 1
                                          ELSE Count(frames, Added(e))'
  BY <1>1, CountsInTail DEF Fine, Count, Added
<1>3. /\ \A e \in Elements : mirror[e].no \in Nat /\ mirror[e].no \in Int
      /\ changes \in Int /\ changes <= MaxChanges /\ MaxChanges \in Int
  BY PanelBounds DEF Fine, TypeOK, PanelBounds
<1>4. \A e \in Elements : mirror[e].no + Count(frames, Added(e))' <= changes
  BY <1>2, <1>3 DEF Fine, BoundsOK
<1>5. CASE \E e \in Elements, p \in Props, v \in Values : ReadsValue(e, p, v)
  <2>1. PICK e \in Elements, p \in Props, v \in Values : ProcessValue(e, p, v)
    BY <1>5 DEF ReadsValue
  <2>2. /\ events' = Append(events, PropertyOf(e, p)) /\ events' \in Seq(Event)
        /\ UNCHANGED <<mirror, known, klass>>
    <3>1. events' = Append(events, PropertyOf(e, p)) /\ UNCHANGED <<mirror, known, klass>>
      BY <2>1 DEF ProcessValue, PropertyOf
    <3> QED  BY <3>1, QueueGrows, NewEvents DEF Fine
  <2>3. Now(e) \in Object /\ Now(e).of = e /\ Now(e).no = mirror[e].no
    BY ObjectFields DEF Fine
  <2>4. CASE UNCHANGED <<model, commands>>
    <3>1. TypeOK'
      BY <1>1, <2>2, <2>4 DEF Fine, TypeOK
    <3>2. BoundsOK'
      BY <1>1, <1>4, <2>2, <2>4 DEF Fine, BoundsOK
    <3> QED  BY <3>1, <3>2 DEF Fine
  <2>5. CASE Writes(model', Now(e), p, v) /\ commands' \in Seq(Command)
    <3>1. PICK o \in Object : o = Now(e)
      BY <2>3
    <3>2. PICK m : m = model'
      OBVIOUS
    <3>3. v \in Entries /\ Writes(m, o, p, v)
      BY <2>5, <3>1, <3>2 DEF Entries
    <3>4. /\ m \in [Object -> [Props -> Entries]]
          /\ \A d \in Object, q \in Props : m[d][q] = IF d = o /\ q = p THEN v ELSE model[d][q]
      BY <3>3, EntrySet DEF Fine
    <3>5. \A q \in DOMAIN rows : model'[rows[q]][q] \in Values
      BY <3>2, <3>4 DEF Fine, TypeOK
    <3>6. TypeOK'
      BY <1>1, <2>2, <2>5, <3>2, <3>4, <3>5 DEF Fine, TypeOK, Entries
    <3>7. ASSUME NEW d \in Object, NEW q \in Props, d.no > mirror[d.of].no
          PROVE  model'[d][q] = "none"
      <4>1. d # o
        BY <1>3, <2>3, <3>1, <3>7
      <4> QED  BY <3>2, <3>4, <3>7, <4>1 DEF Fine, BoundsOK
    <3>8. BoundsOK'
      BY <1>1, <1>4, <2>2, <3>7 DEF Fine, BoundsOK
    <3> QED  BY <3>6, <3>8 DEF Fine
  <2>6. CASE mirror[e].shown
    <3>1. AddProperty(Now(e), p, v)
      BY <2>1, <2>6 DEF ProcessValue
    <3>2. commands' \in Seq(Command) /\ (UNCHANGED <<model, commands>> \/ Writes(model', Now(e), p, v))
      BY <2>3, <3>1, AddPropertyDoes DEF Fine
    <3> QED  BY <2>4, <2>5, <3>2
  <2>7. CASE ~mirror[e].shown
    BY <2>1, <2>4, <2>7 DEF ProcessValue
  <2> QED  BY <2>6, <2>7
<1>6. CASE \E x \in Pads, c \in Caps : ReadsPad(x, c)
  <2>1. PICK x \in Pads, c \in Caps : UpdatePadDynamicInfo(x, c)
    BY <1>6 DEF ReadsPad
  <2>2. events' \in Seq(Event) /\ known' = [known EXCEPT ![x] = c]
        /\ UNCHANGED <<mirror, model, klass, commands>>
    <3>1. events' = Append(events, Select) \/ UNCHANGED events
      BY <2>1 DEF UpdatePadDynamicInfo, Select
    <3>2. events' \in Seq(Event)
      BY <3>1, QueueGrows, NewEvents DEF Fine, TypeOK
    <3> QED  BY <2>1, <3>2 DEF UpdatePadDynamicInfo
  <2>3. TypeOK'
    BY <1>1, <2>2 DEF Fine, TypeOK
  <2>4. BoundsOK'
    BY <1>1, <1>4, <2>2 DEF Fine, BoundsOK
  <2> QED  BY <2>3, <2>4 DEF Fine
<1>7. CASE \E e \in Elements, shown \in BOOLEAN : ReadsElement(e, shown)
  <2>1. PICK e \in Elements, shown \in BOOLEAN :
          ProcessElement(e, shown) /\ Head(frames) = IF shown THEN Added(e) ELSE Removed(e)
    BY <1>7 DEF ReadsElement
  <2>2. UNCHANGED <<model, known, klass, events, commands>>
    BY <2>1 DEF ProcessElement
  <2>3. /\ mirror' \in [Elements -> [no : Int, shown : BOOLEAN]]
        /\ mirror'[e].no = IF shown THEN mirror[e].no + 1 ELSE mirror[e].no
        /\ \A d \in Elements \ {e} : mirror'[d] = mirror[d]
    BY <1>3, <2>1 DEF ProcessElement, Fine, TypeOK
  <2>4. shown => Count(frames, Added(e)) = Count(frames, Added(e))' + 1
    BY <1>2, <2>1
  <2>5. \A d \in Elements : mirror'[d].no + Count(frames, Added(d))' <= changes
    <3>1. mirror'[e].no + Count(frames, Added(e))' <= changes
      <4>1. CASE shown
        BY <1>2, <1>3, <2>3, <2>4, <4>1 DEF Fine, BoundsOK
      <4>2. CASE ~shown
        BY <1>4, <2>3, <4>2
      <4> QED  BY <4>1, <4>2
    <3> QED  BY <1>4, <2>3, <3>1
  <2>6. \A d \in Elements : mirror'[d].no \in 0..MaxChanges /\ mirror'[d].no >= mirror[d].no
    <3>1. ASSUME NEW d \in Elements PROVE mirror'[d].no >= mirror[d].no
      BY <1>3, <2>3
    <3>2. ASSUME NEW d \in Elements PROVE mirror'[d].no \in 0..MaxChanges
      <4>1. mirror'[d].no \in Int /\ mirror[d].no \in Nat /\ Count(frames, Added(d))' \in Nat
        BY <1>2, <1>3, <2>3
      <4> QED  BY <1>3, <2>5, <3>1, <4>1
    <3> QED  BY <3>1, <3>2
  <2>7. mirror' \in [Elements -> [no : 0..MaxChanges, shown : BOOLEAN]]
    BY <2>3, <2>6
  <2>8. TypeOK'
    BY <1>1, <2>2, <2>7 DEF Fine, TypeOK
  <2>9. \A q \in DOMAIN rows : rows[q].no <= mirror'[rows[q].of].no
    <3> SUFFICES ASSUME NEW q \in DOMAIN rows PROVE rows[q].no <= mirror'[rows[q].of].no
      OBVIOUS
    <3>1. rows[q].of \in Elements /\ rows[q].no \in Int /\ rows[q].no <= mirror[rows[q].of].no
      BY ObjectFields DEF Fine, TypeOK, BoundsOK
    <3> QED  BY <1>3, <2>3, <2>6, <3>1
  <2>10. \A d \in Object, q \in Props : d.no > mirror'[d.of].no => model[d][q] = "none"
    <3> SUFFICES ASSUME NEW d \in Object, NEW q \in Props, d.no > mirror'[d.of].no
                 PROVE  model[d][q] = "none"
      OBVIOUS
    <3>1. d.of \in Elements /\ d.no \in Int
      BY ObjectFields DEF Fine
    <3>2. d.no > mirror[d.of].no
      BY <1>3, <2>3, <2>6, <3>1
    <3> QED  BY <3>2 DEF Fine, BoundsOK
  <2>11. BoundsOK'
    BY <1>1, <2>2, <2>5, <2>9, <2>10 DEF Fine, BoundsOK
  <2> QED  BY <2>8, <2>11 DEF Fine
<1>8. CASE UpdateKlassModel
  <2>1. klass' = "known" /\ UNCHANGED <<mirror, model, known, events, commands>>
    BY <1>8 DEF UpdateKlassModel
  <2>2. TypeOK'
    BY <1>1, <2>1 DEF Fine, TypeOK
  <2>3. BoundsOK'
    BY <1>1, <1>4, <2>1 DEF Fine, BoundsOK
  <2> QED  BY <2>2, <2>3 DEF Fine
<1> QED  BY <1>5, <1>6, <1>7, <1>8, ReaderDoes DEF Fine

\* The answer to a request: the values of what was asked for, each of them.
AskedFor(e, prop) == IF ~Found(e) THEN {} ELSE IF prop = "" THEN Props ELSE {prop}
Answers(sent, e, asked) ==
  /\ \A i \in 1..Len(sent) : \E p \in asked : sent[i] = ValueOf(e, p, value[e][p])
  /\ \A p \in asked : \E i \in 1..Len(sent) : sent[i] = ValueOf(e, p, value[e][p])

LEMMA AnswerDoes ==
  ASSUME TypeOK, NEW e \in Elements, NEW prop \in Asks, ProcessPropertyRequest(e, prop)
  PROVE  /\ AskedFor(e, prop) \subseteq Props
         /\ \E sent \in Seq(Frame) : frames' = frames \o sent /\ Answers(sent, e, AskedFor(e, prop))
<1>1. PICK asked : asked = AskedFor(e, prop)
  OBVIOUS
<1>2. asked \subseteq Props
  BY <1>1 DEF AskedFor, Asks
<1>3. IsFiniteSet(asked)
  BY <1>2, PropsAssumption, FS_Subset DEF PropsAssumption
<1> DEFINE list == SetToSeq(asked)
           sent == [i \in DOMAIN list |-> SendProperty(e, list[i])]
<1>4. frames' = frames \o sent
  BY <1>1 DEF ProcessPropertyRequest, AskedFor
<1>5. /\ Cardinality(asked) \in Nat /\ list \in [1..Cardinality(asked) -> asked]
      /\ \A p \in asked : \E i \in 1..Cardinality(asked) : list[i] = p
  BY <1>3, SetToSeqItems
<1> HIDE DEF list
<1>6. /\ DOMAIN sent = 1..Cardinality(asked)
      /\ \A i \in 1..Cardinality(asked) : list[i] \in asked /\ sent[i] = SendProperty(e, list[i])
  BY <1>5
<1>7. \A p \in Props : value[e][p] \in Values
  BY DEF TypeOK
<1>8. \A p \in Props : SendProperty(e, p) = ValueOf(e, p, value[e][p]) /\ SendProperty(e, p) \in Frame
  BY <1>7, NewFrames DEF SendProperty, ValueOf
<1>9. sent \in [1..Cardinality(asked) -> Frame]
  BY <1>2, <1>5, <1>8
<1> HIDE DEF sent
<1>10. sent \in Seq(Frame) /\ Len(sent) = Cardinality(asked)
  <2>1. PICK n \in Nat : n = Cardinality(asked)
    BY <1>5
  <2> QED  BY <1>9, <2>1, ListOfLength
<1>11. Answers(sent, e, asked)
  <2>1. ASSUME NEW j \in 1..Len(sent) PROVE \E p \in asked : sent[j] = ValueOf(e, p, value[e][p])
    BY <1>2, <1>6, <1>8, <1>10, <2>1
  <2>2. ASSUME NEW p \in asked PROVE \E j \in 1..Len(sent) : sent[j] = ValueOf(e, p, value[e][p])
    <3>1. PICK j \in 1..Cardinality(asked) : list[j] = p
      BY <1>5
    <3>2. sent[j] = ValueOf(e, p, value[e][p])
      BY <1>2, <1>6, <1>8, <3>1
    <3> QED  BY <1>10, <3>2
  <2> QED  BY <2>1, <2>2 DEF Answers
<1> QED  BY <1>1, <1>2, <1>4, <1>10, <1>11

\* What the server makes of a command.
Serves(c) ==
  \/ \E e \in Elements, prop \in Asks : c = Get(e, prop) /\ ProcessPropertyRequest(e, prop)
  \/ \E e \in Elements, p \in Props, v \in Values, by \in {"user", "widget"} :
       c = Set(e, p, v, by) /\ SetProperty(e, p, v)
  \/ \E x \in Pads : c = AskPad(x) /\ SendPadDynamicInfo(x)
  \/ c = AskKlass /\ SendKlass

LEMMA ServerDoes ==
  ASSUME TypeOK, Serve
  PROVE  /\ commands # <<>> /\ Head(commands) \in Command
         /\ commands' = Tail(commands) /\ commands' \in Seq(Command)
         /\ UNCHANGED <<exists, caps, mirror, model, known, klass, selected, previous, rows, tree,
                        events, crashed, clicks, changes>>
         /\ Serves(Head(commands))
<1>1. /\ commands # <<>> /\ Head(commands) \in Command
      /\ commands' = Tail(commands) /\ commands' \in Seq(Command)
  BY HeadTailProperties DEF Serve, TypeOK
<1>2. UNCHANGED <<exists, caps, mirror, model, known, klass, selected, previous, rows, tree,
                  events, crashed, clicks, changes>>
  BY DEF Serve, modelVars, guiVars
<1> DEFINE c == Head(commands)
<1>3. \/ c.op = "get" /\ ProcessPropertyRequest(c.of, c.prop)
      \/ c.op = "set" /\ SetProperty(c.of, c.prop, c.to)
      \/ c.op = "pad" /\ SendPadDynamicInfo(c.of)
      \/ c.op = "klass" /\ SendKlass
  BY DEF Serve
<1> HIDE DEF c
<1>4. /\ c.op = "get" => c = Get(c.of, c.prop)
      /\ c.op = "set" => c = Set(c.of, c.prop, c.to, c.by)
      /\ c.op = "pad" => c = AskPad(c.of)
      /\ c.op = "klass" => c = AskKlass
  BY <1>1 DEF c, Command, Get, Set, AskPad, AskKlass
<1>5. Serves(c)
  BY <1>1, <1>3, <1>4, CommandFields DEF Serves, c
<1> QED  BY <1>1, <1>2, <1>5 DEF c

LEMMA CountsKeep ==
  ASSUME TypeOK, NEW sent \in Seq(Frame), frames' = frames \o sent,
         \A i \in 1..Len(sent) : sent[i].what # "added"
  PROVE  \A e \in Elements : Count(frames, Added(e))' = Count(frames, Added(e))
<1> SUFFICES ASSUME NEW e \in Elements PROVE Count(frames, Added(e))' = Count(frames, Added(e))
  OBVIOUS
<1>1. ~Contains(sent, Added(e))
  BY NewFrameFields DEF Contains
<1>2. Count(sent, Added(e)) = 0
  BY <1>1, CountOfNone
<1>3. frames \in Seq(Frame)
  BY DEF TypeOK
<1>4. /\ Count(frames, Added(e)) \in Nat /\ Count(sent, Added(e)) \in Nat
      /\ Count(frames \o sent, Added(e)) = Count(frames, Added(e)) + Count(sent, Added(e))
  BY <1>3, CountOfConcat
<1>5. Count(frames, Added(e))' = Count(frames \o sent, Added(e))
  BY DEF Count, Added
<1> QED  BY <1>2, <1>4, <1>5

LEMMA OneFrame ==
  ASSUME TypeOK, NEW f \in Frame, frames' = Append(frames, f)
  PROVE  /\ frames' \in Seq(Frame)
         /\ \E sent \in Seq(Frame) : frames' = frames \o sent /\ \A i \in 1..Len(sent) : sent[i] = f
<1>1. frames \in Seq(Frame) /\ frames' \in Seq(Frame)
  BY QueueGrows DEF TypeOK
<1>2. Append(frames, f) = frames \o <<f>> /\ <<f>> \in Seq(Frame)
  BY <1>1, AppendIsConcat
<1>3. Len(<<f>>) = 1 /\ <<f>>[1] = f
  OBVIOUS
<1>4. \A i \in 1..Len(<<f>>) : <<f>>[i] = f
  BY <1>3
<1> QED  BY <1>1, <1>2, <1>4

LEMMA ServerKeepsTypes ==
  ASSUME Fine, Serve
  PROVE  Fine'
<1>1. /\ commands' \in Seq(Command)
      /\ UNCHANGED <<exists, caps, mirror, model, known, klass, selected, previous, rows, tree,
                     events, clicks, changes>>
  BY ServerDoes DEF Fine
<1>2. ASSUME NEW sent \in Seq(Frame), frames' = frames \o sent,
             \A i \in 1..Len(sent) : sent[i].what # "added",
             value' \in [Elements -> [Props -> Values]]
      PROVE  Fine'
  <2>1. frames' \in Seq(Frame)
    BY <1>2, ConcatProperties DEF Fine, TypeOK
  <2>2. \A e \in Elements : Count(frames, Added(e))' = Count(frames, Added(e))
    BY <1>2, CountsKeep DEF Fine
  <2>3. TypeOK'
    BY <1>1, <1>2, <2>1 DEF Fine, TypeOK
  <2>4. BoundsOK'
    BY <1>1, <2>2 DEF Fine, BoundsOK
  <2> QED  BY <2>3, <2>4 DEF Fine
<1>3. ASSUME NEW f \in Frame, f.what # "added", frames' = Append(frames, f), UNCHANGED value PROVE Fine'
  <2>1. PICK sent \in Seq(Frame) : frames' = frames \o sent /\ \A i \in 1..Len(sent) : sent[i] = f
    BY <1>3, OneFrame DEF Fine
  <2> QED  BY <1>2, <1>3, <2>1 DEF Fine, TypeOK
<1>4. ASSUME NEW e \in Elements, NEW prop \in Asks, ProcessPropertyRequest(e, prop) PROVE Fine'
  <2>1. PICK sent \in Seq(Frame) : frames' = frames \o sent /\ Answers(sent, e, AskedFor(e, prop))
    BY <1>4, AnswerDoes DEF Fine
  <2>2. ASSUME NEW i \in 1..Len(sent) PROVE sent[i].what = "value"
    <3>1. PICK p \in AskedFor(e, prop) : sent[i] = ValueOf(e, p, value[e][p])
      BY <2>1 DEF Answers
    <3>2. ValueOf(e, p, value[e][p]).what = "value"
      BY NewFrameFields
    <3> QED  BY <3>1, <3>2
  <2>3. UNCHANGED value
    BY <1>4 DEF ProcessPropertyRequest
  <2> QED  BY <1>2, <2>1, <2>2, <2>3 DEF Fine, TypeOK
<1>5. ASSUME NEW e \in Elements, NEW p \in Props, NEW v \in Values, SetProperty(e, p, v) PROVE Fine'
  <2>1. UNCHANGED frames /\ value' \in [Elements -> [Props -> Values]]
    BY <1>5 DEF SetProperty, Fine, TypeOK
  <2>2. TypeOK'
    BY <1>1, <2>1 DEF Fine, TypeOK
  <2> QED  BY <1>1, <2>1, <2>2, BoundsUnchanged DEF Fine
<1>6. ASSUME NEW x \in Pads, SendPadDynamicInfo(x) PROVE Fine'
  <2>1. caps[x] \in Caps /\ frames' = Append(frames, CapsOf(x, caps[x])) /\ UNCHANGED value
    BY <1>6 DEF SendPadDynamicInfo, CapsOf, Fine, TypeOK
  <2> QED  BY <1>3, <2>1, NewFrames, NewFrameFields
<1>7. CASE SendKlass
  <2>1. frames' = Append(frames, TheKlass) /\ UNCHANGED value
    BY <1>7 DEF SendKlass, TheKlass
  <2> QED  BY <1>3, <2>1, NewFrames, NewFrameFields
<1>8. Serves(Head(commands))
  BY ServerDoes DEF Fine
<1> QED  BY <1>4, <1>5, <1>6, <1>7, <1>8 DEF Serves

\* What the application does to the pipeline.
ApplicationOnly == UNCHANGED <<mirror, model, known, klass, selected, previous, rows, tree, events,
                               commands, crashed, crossed, late, clicks>>

LEMMA ApplicationDoes ==
  ASSUME TypeOK, Application
  PROVE  /\ ApplicationOnly
         /\ changes' = changes + 1 /\ changes' \in 0..MaxChanges
         /\ \/ /\ UNCHANGED <<exists, caps, frames>>
               /\ \E e \in exists, p \in Props : \E v \in Values \ {value[e][p]} :
                    /\ value' = [value EXCEPT ![e][p] = v]
                    /\ changed' = changed \cup {<<e, p>>}
                    /\ wanted' = [wanted EXCEPT ![e][p] = "none"]
            \/ /\ UNCHANGED <<exists, value, frames, wanted>>
               /\ \E x \in Pads : caps' = [caps EXCEPT ![x] = @ + 1] /\ changed' = changed \cup {<<x, "caps">>}
            \/ /\ UNCHANGED <<value, caps, changed, wanted>>
               /\ \E e \in exists : exists' = exists \ {e} /\ frames' = Append(frames, Removed(e))
            \/ /\ UNCHANGED caps
               /\ \E e \in Elements \ exists :
                    /\ exists' = exists \cup {e} /\ frames' = Append(frames, Added(e))
                    /\ value' = [value EXCEPT ![e] = [p \in Props |-> "off"]]
                    /\ changed' = changed \cup ({e} \X Props)
                    /\ wanted' = [wanted EXCEPT ![e] = [p \in Props |-> "none"]]
<1>1. changes' = changes + 1 /\ changes < MaxChanges
  BY DEF Application, ChangeValue, ChangeCaps, BinRemove, BinAdd, Changes
<1>2. changes' \in 0..MaxChanges
  BY <1>1, PanelBounds DEF PanelBounds, TypeOK
<1>3. CASE ChangeValue
  BY <1>1, <1>2, <1>3 DEF ChangeValue, ApplicationOnly, modelVars, guiVars, wires
<1>4. CASE ChangeCaps
  BY <1>1, <1>2, <1>4 DEF ChangeCaps, ApplicationOnly, modelVars, guiVars, wires
<1>5. CASE BinRemove
  BY <1>1, <1>2, <1>5 DEF BinRemove, Removed, ApplicationOnly, modelVars, guiVars, history
<1>6. CASE BinAdd
  BY <1>1, <1>2, <1>6 DEF BinAdd, Added, ApplicationOnly, modelVars, guiVars
<1> QED  BY <1>3, <1>4, <1>5, <1>6 DEF Application

LEMMA ApplicationKeepsTypes ==
  ASSUME Fine, Application
  PROVE  Fine'
<1>1. UNCHANGED <<mirror, model, known, klass, selected, previous, rows, tree, events, commands, clicks>>
  BY ApplicationDoes DEF Fine, ApplicationOnly
<1>2. /\ changes' = changes + 1 /\ changes' \in 0..MaxChanges /\ changes \in Int
      /\ \A e \in Elements : mirror[e].no \in Int
      /\ \A x \in Pads : caps[x] \in Int
  BY ApplicationDoes DEF Fine, TypeOK, Caps
<1>3. \A e \in Elements : Count(frames, Added(e)) \in Nat
  BY CountAppended, NewFrames DEF Fine, TypeOK
<1>4. ASSUME \A e \in Elements : Count(frames, Added(e))' \in {Count(frames, Added(e)), Count(frames, Added(e)) + 1},
             \A x \in Pads : caps'[x] \in {caps[x], caps[x] + 1}
      PROVE  BoundsOK'
  <2>1. ASSUME NEW e \in Elements PROVE mirror[e].no + Count(frames, Added(e))' <= changes'
    <3>1. mirror[e].no + Count(frames, Added(e)) <= changes
      BY DEF Fine, BoundsOK
    <3> QED  BY <1>2, <1>3, <1>4, <3>1
  <2>2. ASSUME NEW x \in Pads PROVE caps'[x] <= changes'
    <3>1. caps[x] <= changes
      BY DEF Fine, BoundsOK
    <3> QED  BY <1>2, <1>4, <3>1
  <2> QED  BY <1>1, <2>1, <2>2 DEF Fine, BoundsOK
<1>5. CASE /\ UNCHANGED <<exists, caps, frames>>
           /\ \E e \in exists, p \in Props : \E v \in Values : value' = [value EXCEPT ![e][p] = v]
  <2>1. PICK e \in exists, p \in Props, v \in Values : value' = [value EXCEPT ![e][p] = v]
    BY <1>5
  <2>2. value' \in [Elements -> [Props -> Values]]
    BY <2>1 DEF Fine, TypeOK
  <2>3. TypeOK'
    BY <1>1, <1>2, <1>5, <2>2 DEF Fine, TypeOK
  <2>4. BoundsOK'
    BY <1>4, <1>5
  <2> QED  BY <2>3, <2>4 DEF Fine
<1>6. CASE UNCHANGED <<exists, value, frames>> /\ \E x \in Pads : caps' = [caps EXCEPT ![x] = @ + 1]
  <2>1. PICK x \in Pads : caps' = [caps EXCEPT ![x] = @ + 1]
    BY <1>6
  <2>2. \A y \in Pads : caps'[y] \in {caps[y], caps[y] + 1}
    BY <2>1 DEF Fine, TypeOK
  <2>3. BoundsOK'
    BY <1>4, <1>6, <2>2
  <2>4. caps' \in [Pads -> Caps]
    <3>1. caps[x] \in Nat /\ caps[x] <= changes
      BY DEF Fine, TypeOK, BoundsOK, Caps
    <3>2. caps[x] + 1 \in Caps
      BY <1>2, <3>1, PanelBounds DEF Caps, PanelBounds
    <3>3. caps \in [Pads -> Caps]
      BY DEF Fine, TypeOK
    <3> QED  BY <2>1, <3>2, <3>3
  <2>5. TypeOK'
    BY <1>1, <1>2, <1>6, <2>4 DEF Fine, TypeOK
  <2> QED  BY <2>3, <2>5 DEF Fine
<1>7. ASSUME NEW e \in Elements, NEW f \in {Added(e), Removed(e)}, frames' = Append(frames, f),
             exists' \subseteq Elements, value' \in [Elements -> [Props -> Values]], UNCHANGED caps
      PROVE  Fine'
  <2>1. f \in Frame /\ frames \in Seq(Frame) /\ frames' \in Seq(Frame)
    BY <1>7, NewFrames, QueueGrows DEF Fine, TypeOK
  <2>2. ASSUME NEW d \in Elements
        PROVE  Count(frames, Added(d))' \in {Count(frames, Added(d)), Count(frames, Added(d)) + 1}
    <3>1. Count(frames, Added(d))' = Count(Append(frames, f), Added(d))
      BY <1>7 DEF Count, Added
    <3>2. /\ Count(frames, Added(d)) \in Nat
          /\ Count(Append(frames, f), Added(d)) =
               IF f = Added(d) THEN Count(frames, Added(d)) + 1 ELSE Count(frames, Added(d))
      BY <2>1, CountAppended
    <3> QED  BY <3>1, <3>2
  <2>3. BoundsOK'
    BY <1>4, <1>7, <2>2
  <2>4. TypeOK'
    BY <1>1, <1>2, <1>7, <2>1 DEF Fine, TypeOK
  <2> QED  BY <2>3, <2>4 DEF Fine
<1>8. CASE UNCHANGED <<value, caps>>
           /\ \E e \in exists : exists' = exists \ {e} /\ frames' = Append(frames, Removed(e))
  <2>1. PICK e \in exists : exists' = exists \ {e} /\ frames' = Append(frames, Removed(e))
    BY <1>8
  <2>2. e \in Elements /\ exists' \subseteq Elements /\ value' \in [Elements -> [Props -> Values]]
    BY <1>8, <2>1 DEF Fine, TypeOK
  <2> QED  BY <1>7, <1>8, <2>1, <2>2
<1>9. CASE /\ UNCHANGED caps
           /\ \E e \in Elements \ exists :
                /\ exists' = exists \cup {e} /\ frames' = Append(frames, Added(e))
                /\ value' = [value EXCEPT ![e] = [p \in Props |-> "off"]]
  <2>1. PICK e \in Elements \ exists :
          /\ exists' = exists \cup {e} /\ frames' = Append(frames, Added(e))
          /\ value' = [value EXCEPT ![e] = [p \in Props |-> "off"]]
    BY <1>9
  <2>2. exists' \subseteq Elements /\ value' \in [Elements -> [Props -> Values]]
    BY <2>1 DEF Fine, TypeOK, Values
  <2> QED  BY <1>7, <1>9, <2>1, <2>2
<1>10. TypeOK
  BY DEF Fine
<1> QED  BY <1>5, <1>6, <1>8, <1>9, <1>10, ApplicationDoes

LEMMA FineInit == Init => Fine
<1> SUFFICES ASSUME Init PROVE Fine
  OBVIOUS
<1>1. /\ mirror = [e \in Elements |-> [no |-> 0, shown |-> TRUE]]
      /\ model = [o \in Object |-> [p \in Props |-> "none"]]
      /\ caps = [x \in Pads |-> 0] /\ rows = <<>> /\ frames = <<>> /\ changes = 0 /\ MaxChanges \in Nat
  BY PanelBounds DEF Init, PanelBounds
<1>2. /\ mirror \in [Elements -> [no : 0..MaxChanges, shown : BOOLEAN]]
      /\ caps \in [Pads -> Caps]
      /\ model \in [Object -> [Props -> {"none", "null"} \cup Values]]
  BY <1>1 DEF Caps
<1>3. known \in [Pads -> Caps \cup {-1}] /\ value \in [Elements -> [Props -> Values]]
  BY DEF Init
<1>4. /\ events \in Seq(Event) /\ commands \in Seq(Command) /\ frames \in Seq(Frame)
      /\ DOMAIN rows = {}
  BY EmptySeq DEF Init
<1>5. TypeOK
  BY <1>1, <1>2, <1>3, <1>4, PanelBounds DEF Init, TypeOK, PanelBounds
<1>6. ASSUME NEW e \in Elements PROVE mirror[e].no + Count(frames, Added(e)) <= changes
  <2>1. ~Contains(frames, Added(e))
    BY <1>1 DEF Contains
  <2>2. Count(frames, Added(e)) = 0
    BY <2>1, CountOfNone
  <2> QED  BY <1>1, <2>2
<1>7. BoundsOK
  BY <1>1, <1>4, <1>6 DEF BoundsOK
<1> QED  BY <1>5, <1>7 DEF Fine

LEMMA FineStep == Fine /\ [Next]_vars => Fine'
<1> SUFFICES ASSUME Fine, [Next]_vars PROVE Fine'
  OBVIOUS
<1>1. CASE UNCHANGED vars
  <2>1. TypeOK'
    BY <1>1 DEF Fine, TypeOK, vars, pipelineVars, modelVars, guiVars, wires
  <2> QED  BY <1>1, <2>1, BoundsUnchanged DEF Fine, vars, pipelineVars, modelVars, guiVars, wires
<1> QED
  BY <1>1, SelectKeepsTypes, RefreshKeepsTypes, EditKeepsTypes, DispatchKeepsTypes,
     RequestKlassKeepsTypes, ReaderKeepsTypes, ServerKeepsTypes, ApplicationKeepsTypes
  DEF Next, User

\* The panel: every row shows an object there was, and an entry of it that has
\* a value; nothing is selected, asked for or posted that there could not be.
THEOREM TypeCorrect == Spec => []TypeOK
<1>1. Fine => TypeOK
  BY DEF Fine
<1> QED  BY <1>1, FineInit, FineStep, PTL DEF Spec

-----------------------------------------------------------------------------
\* Only check buttons tell the server of changes that are not the user's.
OnPurpose(c) == c.op = "set" /\ c.by = "widget" => Widget[c.prop] = "toggle"
TogglesOK == \A i \in 1..Len(commands) : OnPurpose(commands[i])

LEMMA EchoSends ==
  ASSUME TypeOK, NEW o \in Object, NEW p \in Props, NEW from, NEW to \in Values, NEW fs,
         Echo(o, p, from, to, fs)
  PROVE  UNCHANGED commands \/ \E c \in Command : commands' = Append(commands, c) /\ OnPurpose(c)
<1>1. Set(o.of, p, to, "widget") \in Command /\ Set(o.of, p, to, "widget").prop = p
  BY NewCommands, NewCommandFields, ObjectFields
<1> QED  BY <1>1, EchoDoes DEF OnPurpose

\* What is sent: nothing, or one command more, and the server takes one.
LEMMA CommandsStep ==
  ASSUME TypeOK, Next
  PROVE  \/ UNCHANGED commands
         \/ \E c \in Command : commands' = Append(commands, c) /\ OnPurpose(c)
         \/ Serve /\ commands # <<>> /\ commands' = Tail(commands)
<1>1. CASE SetSelectedObject
  <2>1. PICK x \in Elements \cup Pads \cup {Nothing} :
          commands' = IF x \in Pads THEN Append(commands, AskPad(x)) ELSE commands
    BY <1>1 DEF SetSelectedObject, AskPad
  <2>2. x \in Pads => AskPad(x) \in Command /\ OnPurpose(AskPad(x))
    BY NewCommands, NewCommandFields DEF OnPurpose
  <2> QED  BY <2>1, <2>2
<1>2. CASE Refresh
  <2>1. PICK p \in Asks : commands' = Append(commands, Get(selected.of, p))
    BY <1>2, RefreshDoes
  <2>2. Get(selected.of, p) \in Command /\ Get(selected.of, p).op = "get"
    BY <1>2, RefreshDoes, NewCommands, NewCommandFields
  <2> QED  BY <2>1, <2>2 DEF OnPurpose
<1>3. CASE Edit
  <2>1. PICK p \in DOMAIN rows, v \in Values : Sends(rows[p], p, v, "user", frames)
    BY <1>3 DEF Edit
  <2>2. p \in Props /\ rows[p] \in Object /\ rows[p].of \in Elements
    BY ObjectFields DEF TypeOK
  <2>3. commands' = Append(commands, Set(rows[p].of, p, v, "user"))
    BY <2>1 DEF Sends
  <2>4. Set(rows[p].of, p, v, "user") \in Command /\ Set(rows[p].of, p, v, "user").by = "user"
    BY <2>2, NewCommands, NewCommandFields
  <2> QED  BY <2>3, <2>4 DEF OnPurpose
<1>4. CASE Dispatch
  <2>1. Head(events) \in Event
    BY <1>4, HeadTailProperties DEF Dispatch, TypeOK
  <2>2. CASE SelectedObjectChanged
    <3>1. CASE commands' = commands
      BY <3>1
    <3>2. CASE \E e \in Elements : e = selected.of /\ commands' = Append(commands, Get(e, ""))
      <4>1. PICK e \in Elements, all \in Asks : commands' = Append(commands, Get(e, all))
        BY <3>2 DEF Asks
      <4>2. Get(e, all) \in Command /\ Get(e, all).op = "get"
        BY NewCommands, NewCommandFields
      <4> QED  BY <4>1, <4>2 DEF OnPurpose
    <3> QED  BY <2>2, <3>1, <3>2, SelectedChangedDoes
  <2>3. ASSUME NEW e \in Elements, NEW p \in Props, NewProperty(e, p)
        PROVE  UNCHANGED commands \/ \E c \in Command : commands' = Append(commands, c) /\ OnPurpose(c)
    <3>1. CASE /\ model[Now(e)][p] \in Values
               /\ Echo(Now(e), p, "off", model[Now(e)][p], frames)
      <4>1. Now(e) \in Object
        BY ObjectFields
      <4> QED  BY <3>1, <4>1, EchoSends
    <3> QED  BY <2>3, <3>1, NewPropertyDoes
  <2> QED  BY <1>4, <2>1, <2>2, <2>3, EventFields DEF Dispatch
<1>5. CASE RequestKlass
  <2>1. commands' = Append(commands, AskKlass)
    BY <1>5 DEF RequestKlass, AskKlass
  <2>2. AskKlass \in Command /\ AskKlass.op = "klass"
    BY NewCommands, NewCommandFields
  <2> QED  BY <2>1, <2>2 DEF OnPurpose
<1>6. CASE ProcessFrame
  <2>1. ASSUME NEW e \in Elements, NEW p \in Props, NEW v \in Values, ReadsValue(e, p, v)
        PROVE  UNCHANGED commands \/ \E c \in Command : commands' = Append(commands, c) /\ OnPurpose(c)
    <3>1. Now(e) \in Object
      BY ObjectFields
    <3>2. CASE AddProperty(Now(e), p, v)
      <4>1. CASE Echo(Now(e), p, model[Now(e)][p], v, Tail(frames))
        BY <3>1, <4>1, EchoSends
      <4> QED  BY <3>1, <3>2, <4>1, AddPropertyDoes
    <3> QED  BY <2>1, <3>2 DEF ReadsValue, ProcessValue
  <2>2. UNCHANGED commands \/ \E e \in Elements, p \in Props, v \in Values : ReadsValue(e, p, v)
    BY <1>6, ReaderDoes
    DEF ReadsPad, UpdatePadDynamicInfo, ReadsElement, ProcessElement, UpdateKlassModel
  <2> QED  BY <2>1, <2>2
<1>7. CASE Serve
  BY <1>7 DEF Serve
<1>8. CASE Application
  BY <1>8, ApplicationDoes DEF ApplicationOnly
<1> QED  BY <1>1, <1>2, <1>3, <1>4, <1>5, <1>6, <1>7, <1>8 DEF Next, User

LEMMA TogglesStep == TypeOK /\ TogglesOK /\ [Next]_vars => TogglesOK'
<1> SUFFICES ASSUME TypeOK, TogglesOK, [Next]_vars PROVE TogglesOK'
  OBVIOUS
<1>1. commands \in Seq(Command)
  BY DEF TypeOK
<1>2. CASE UNCHANGED commands
  BY <1>2 DEF TogglesOK
<1>3. ASSUME NEW c \in Command, commands' = Append(commands, c), OnPurpose(c) PROVE TogglesOK'
  BY <1>1, <1>3, AppendProperties DEF TogglesOK
<1>4. CASE commands # <<>> /\ commands' = Tail(commands)
  BY <1>1, <1>4, HeadTailProperties DEF TogglesOK
<1> QED  BY <1>2, <1>3, <1>4, CommandsStep DEF vars, wires

\* The value of a property that is not shown by a check button changes because
\* the application or the user changes it, never because somebody looks at it.
THEOREM OnlyOnPurpose == Spec => ChangedOnPurpose
<1> DEFINE Purpose == \A e \in Elements, p \in Props :
             value'[e][p] # value[e][p] /\ Widget[p] # "toggle"
               => changes' # changes \/ Head(commands).by = "user"
<1>1. TypeOK /\ TogglesOK /\ [Next]_vars => [Purpose]_vars
  <2> SUFFICES ASSUME TypeOK, TogglesOK, Next,
                      NEW e \in Elements, NEW p \in Props,
                      value'[e][p] # value[e][p], Widget[p] # "toggle", changes' = changes
               PROVE  Head(commands).by = "user"
    OBVIOUS
  <2>1. ~Application
    <3>1. changes \in Int
      BY DEF TypeOK
    <3> QED  BY <3>1, ApplicationDoes
  <2>2. Serve
    BY <2>1, ReaderDoes DEF Next, User, SetSelectedObject, Refresh, Edit, Dispatch, RequestKlass, pipelineVars
  <2>3. PICK d \in Elements, q \in Props, v \in Values, by \in {"user", "widget"} :
          Head(commands) = Set(d, q, v, by) /\ SetProperty(d, q, v)
    <3>1. UNCHANGED value => FALSE
      OBVIOUS
    <3> QED  BY <2>2, <3>1, ServerDoes
        DEF Serves, ProcessPropertyRequest, SendPadDynamicInfo, SendKlass
  <2>4. d = e /\ q = p
    BY <2>3 DEF SetProperty, TypeOK
  <2>5. commands \in Seq(Command) /\ commands # <<>>
    BY <2>2 DEF Serve, TypeOK
  <2>6. 1 \in 1..Len(commands) /\ Head(commands) = commands[1]
    BY <2>5
  <2>7. Head(commands).op = "set" /\ Head(commands).prop = q /\ Head(commands).by = by
    BY <2>3, NewCommandFields
  <2> QED  BY <2>4, <2>6, <2>7 DEF TogglesOK, OnPurpose
<1>2. Init => TogglesOK
  <2> SUFFICES ASSUME Init PROVE TogglesOK
    OBVIOUS
  <2>1. commands = <<>> /\ Len(commands) = 0
    BY DEF Init
  <2> QED  BY <2>1 DEF TogglesOK
<1> QED  BY <1>1, <1>2, TogglesStep, TypeCorrect, PTL DEF Spec, ChangedOnPurpose

-----------------------------------------------------------------------------
\* What keeps the debugger from calling a function of a null pointer: the first
\* model of an element has no empty entries, and when an event tells of a value
\* of it, the value is there.
Explained(ev) == ev.what = "property" /\ mirror[ev.of].no = 0 /\ mirror[ev.of].shown
                   => model[Now(ev.of)][ev.prop] \in Values
EntriesOK ==
  /\ \A o \in Object, p \in Props : o.no = 0 => model[o][p] # "null"
  /\ \A i \in 1..Len(events) : Explained(events[i])

LEMMA ExplainedStays ==
  ASSUME TypeOK, NEW ev \in Event, Explained(ev),
         \A o \in Object, p \in Props : model[o][p] \in Values => model'[o][p] \in Values,
         \A e \in Elements : mirror'[e].no = 0 /\ mirror'[e].shown => mirror'[e] = mirror[e]
  PROVE  Explained(ev)'
<1> SUFFICES ASSUME ev.what = "property", mirror'[ev.of].no = 0, mirror'[ev.of].shown
             PROVE  model'[Now(ev.of)'][ev.prop] \in Values
  BY DEF Explained
<1>1. ev.of \in Elements /\ ev.prop \in Props
  BY EventFields
<1>2. mirror'[ev.of] = mirror[ev.of]
  BY <1>1
<1>3. Now(ev.of)' = Now(ev.of) /\ Now(ev.of) \in Object
  BY <1>1, <1>2, ObjectFields DEF Now
<1> QED  BY <1>1, <1>2, <1>3 DEF Explained

LEMMA ExplainedEvents ==
  ASSUME TypeOK, EntriesOK,
         \A o \in Object, p \in Props : model[o][p] \in Values => model'[o][p] \in Values,
         \A e \in Elements : mirror'[e].no = 0 /\ mirror'[e].shown => mirror'[e] = mirror[e],
         \/ UNCHANGED events
         \/ events # <<>> /\ events' = Tail(events)
         \/ \E ev \in Event : events' = Append(events, ev) /\ Explained(ev)'
  PROVE  \A i \in 1..Len(events') : Explained(events[i])'
<1>1. events \in Seq(Event) /\ \A i \in 1..Len(events) : events[i] \in Event /\ Explained(events[i])
  BY ElementOfSeq DEF TypeOK, EntriesOK
<1>2. \A ev \in Event : Explained(ev) => Explained(ev)'
  BY ExplainedStays
<1>3. CASE UNCHANGED events
  BY <1>1, <1>2, <1>3 DEF Explained
<1>4. CASE events # <<>> /\ events' = Tail(events)
  <2> SUFFICES ASSUME NEW i \in 1..Len(events') PROVE Explained(events[i])'
    OBVIOUS
  <2>1. i + 1 \in 1..Len(events) /\ events'[i] = events[i + 1]
    BY <1>1, <1>4, HeadTailProperties
  <2>2. PICK ev \in Event : ev = events[i + 1]
    BY <1>1, <2>1
  <2>3. Explained(ev)'
    BY <1>1, <1>2, <2>1, <2>2
  <2> QED  BY <2>1, <2>2, <2>3 DEF Explained
<1>5. CASE \E ev \in Event : events' = Append(events, ev) /\ Explained(ev)'
  <2>1. PICK new \in Event : events' = Append(events, new) /\ Explained(new)'
    BY <1>5
  <2> SUFFICES ASSUME NEW i \in 1..Len(events') PROVE Explained(events[i])'
    OBVIOUS
  <2>2. events'[i] = new \/ (i \in 1..Len(events) /\ events'[i] = events[i])
    BY <1>1, <2>1, AppendProperties
  <2>3. PICK ev \in Event : ev = events'[i] /\ Explained(ev)'
    BY <1>1, <1>2, <2>1, <2>2
  <2> QED  BY <2>3 DEF Explained
<1> QED  BY <1>3, <1>4, <1>5

\* The latest models: an element that is replaced gets a new one.
LEMMA MirrorStep ==
  ASSUME Fine, Next
  PROVE  /\ UNCHANGED mirror \/ ProcessFrame
         /\ \A e \in Elements :
              /\ mirror[e].no \in Nat /\ mirror'[e].no \in Nat /\ mirror'[e].no >= mirror[e].no
              /\ mirror'[e].no = mirror[e].no /\ mirror'[e].shown => mirror'[e] = mirror[e]
              /\ mirror'[e].no = 0 /\ mirror'[e].shown => mirror'[e] = mirror[e]
<1>1. \A e \in Elements : mirror[e].no \in Nat /\ mirror[e].shown \in BOOLEAN
  BY DEF Fine, TypeOK
<1>2. CASE UNCHANGED mirror
  BY <1>1, <1>2
<1>3. CASE \E e \in Elements, shown \in BOOLEAN : ProcessElement(e, shown) /\ ProcessFrame
  <2>1. PICK e \in Elements, shown \in BOOLEAN : ProcessElement(e, shown) /\ ProcessFrame
    BY <1>3
  <2>2. /\ \A d \in Elements \ {e} : mirror'[d] = mirror[d]
        /\ mirror'[e].no = IF shown THEN mirror[e].no + 1 ELSE mirror[e].no
        /\ mirror'[e].shown = shown
    BY <2>1 DEF ProcessElement, Fine, TypeOK
  <2> QED  BY <1>1, <2>1, <2>2
<1>4. UNCHANGED mirror \/ \E e \in Elements, shown \in BOOLEAN : ProcessElement(e, shown) /\ ProcessFrame
  <2>1. CASE ProcessFrame
    BY <2>1, ReaderDoes
    DEF Fine, ReadsValue, ProcessValue, ReadsPad, UpdatePadDynamicInfo, ReadsElement, UpdateKlassModel
  <2>2. CASE Serve
    BY <2>2, ServerDoes DEF Fine
  <2>3. CASE Application
    BY <2>3, ApplicationDoes DEF Fine, ApplicationOnly
  <2> QED  BY <2>1, <2>2, <2>3
      DEF Next, User, SetSelectedObject, Refresh, Edit, Dispatch, RequestKlass, modelVars
<1> QED  BY <1>2, <1>3, <1>4

\* The models: an entry is made by an event that comes too early, and keeps its
\* value or gets another one once it has one.
EarlyEvent(e, p) ==
  /\ events # <<>> /\ Head(events) = PropertyOf(e, p) /\ NewProperty(e, p)
  /\ mirror[e].shown /\ model[Now(e)][p] = "none"

LEMMA ModelStep ==
  ASSUME Fine, Next, NEW o \in Object, NEW p \in Props
  PROVE  \/ model'[o][p] = model[o][p]
         \/ model'[o][p] \in Values
         \/ model'[o][p] = "null" /\ o = Now(o.of) /\ EarlyEvent(o.of, p)
<1>1. CASE UNCHANGED model
  BY <1>1
<1>2. ASSUME NEW d \in Object, NEW q \in Props, NEW v \in Values, Writes(model', d, q, v)
      PROVE  model'[o][p] = model[o][p] \/ model'[o][p] \in Values
  <2>1. PICK m : m = model'
    OBVIOUS
  <2>2. v \in Entries /\ Writes(m, d, q, v)
    BY <1>2, <2>1 DEF Entries
  <2>3. m[o][p] = IF o = d /\ p = q THEN v ELSE model[o][p]
    BY <2>2, EntrySet DEF Fine
  <2> QED  BY <2>1, <2>3
<1>3. CASE Edit
  <2>1. PICK q \in DOMAIN rows, v \in Values : model' = [model EXCEPT ![rows[q]][q] = v]
    BY <1>3 DEF Edit
  <2>2. q \in Props /\ rows[q] \in Object /\ Writes(model', rows[q], q, v)
    BY <2>1 DEF Writes, Fine, TypeOK
  <2> QED  BY <1>2, <2>2
<1>4. CASE Dispatch
  <2>1. events # <<>> /\ Head(events) \in Event
    BY <1>4, HeadTailProperties DEF Dispatch, Fine, TypeOK
  <2>2. ASSUME NEW e \in Elements, NEW q \in Props, NewProperty(e, q), Head(events) = PropertyOf(e, q),
               mirror[e].shown,
               Writes(model', Now(e), q, IF model[Now(e)][q] = "none" THEN "null" ELSE model[Now(e)][q])
        PROVE  \/ model'[o][p] = model[o][p]
               \/ model'[o][p] = "null" /\ o = Now(o.of) /\ EarlyEvent(o.of, p)
    <3>1. PICK d \in Object : d = Now(e) /\ d.of = e
      BY ObjectFields DEF Fine
    <3>2. PICK m : m = model'
      OBVIOUS
    <3>3. PICK v \in Entries : v = IF model[d][q] = "none" THEN "null" ELSE model[d][q]
      BY DEF Fine, TypeOK, Entries
    <3>4. Writes(m, d, q, v)
      BY <2>2, <3>1, <3>2, <3>3
    <3>5. m[o][p] = IF o = d /\ p = q THEN v ELSE model[o][p]
      BY <3>4, EntrySet DEF Fine
    <3> QED  BY <2>1, <2>2, <3>1, <3>2, <3>3, <3>5 DEF EarlyEvent
  <2>3. CASE SelectedObjectChanged
    BY <1>1, <2>3, SelectedChangedDoes DEF Fine
  <2>4. ASSUME Head(events).what = "property", NewProperty(Head(events).of, Head(events).prop)
        PROVE  \E e \in Elements, q \in Props : Head(events) = PropertyOf(e, q) /\ NewProperty(e, q)
    <3>1. Head(events) = PropertyOf(Head(events).of, Head(events).prop)
      BY <2>1, <2>4 DEF Event, PropertyOf
    <3> QED  BY <2>1, <2>4, <3>1, EventFields
  <2>5. CASE \E e \in Elements, q \in Props : Head(events) = PropertyOf(e, q) /\ NewProperty(e, q)
    <3>1. PICK e \in Elements, q \in Props : Head(events) = PropertyOf(e, q) /\ NewProperty(e, q)
      BY <2>5
    <3>2. \/ UNCHANGED model
          \/ /\ mirror[e].shown
             /\ Writes(model', Now(e), q, IF model[Now(e)][q] = "none" THEN "null" ELSE model[Now(e)][q])
      BY <3>1, NewPropertyDoes DEF Fine
    <3> QED  BY <1>1, <2>2, <3>1, <3>2
  <2> QED  BY <1>4, <2>3, <2>4, <2>5 DEF Dispatch
<1>5. CASE ProcessFrame
  <2>1. ASSUME NEW e \in Elements, NEW q \in Props, NEW v \in Values, ReadsValue(e, q, v)
        PROVE  model'[o][p] = model[o][p] \/ model'[o][p] \in Values
    <3>1. Now(e) \in Object
      BY ObjectFields DEF Fine
    <3>2. UNCHANGED model \/ Writes(model', Now(e), q, v)
      BY <2>1, <3>1, AddPropertyDoes DEF ReadsValue, ProcessValue, Fine
    <3> QED  BY <1>1, <1>2, <3>1, <3>2
  <2>2. UNCHANGED model \/ \E e \in Elements, q \in Props, v \in Values : ReadsValue(e, q, v)
    BY <1>5, ReaderDoes
    DEF ReadsPad, UpdatePadDynamicInfo, ReadsElement, ProcessElement, UpdateKlassModel, Fine
  <2> QED  BY <1>1, <2>1, <2>2
<1>6. CASE Serve
  BY <1>1, <1>6, ServerDoes DEF Fine
<1>7. CASE Application
  BY <1>1, <1>7, ApplicationDoes DEF ApplicationOnly, Fine
<1>8. CASE SetSelectedObject \/ Refresh \/ RequestKlass
  BY <1>1, <1>8 DEF SetSelectedObject, Refresh, RequestKlass, modelVars
<1> QED  BY <1>3, <1>4, <1>5, <1>6, <1>7, <1>8 DEF Next, User

\* The pipe of the dispatchers: events come in at one end and leave at the other.
LEMMA EventsStep ==
  ASSUME TypeOK, Next
  PROVE  \/ UNCHANGED events
         \/ Dispatch /\ events # <<>> /\ events' = Tail(events)
         \/ events' = Append(events, Select)
         \/ \E e \in Elements, p \in Props, v \in Values :
              ProcessFrame /\ ReadsValue(e, p, v) /\ events' = Append(events, PropertyOf(e, p))
<1>1. CASE ProcessFrame
  <2>1. CASE \E e \in Elements, p \in Props, v \in Values : ReadsValue(e, p, v)
    BY <1>1, <2>1 DEF ReadsValue, ProcessValue, PropertyOf
  <2>2. CASE \E x \in Pads, c \in Caps : ReadsPad(x, c)
    BY <2>2 DEF ReadsPad, UpdatePadDynamicInfo, Select
  <2> QED  BY <1>1, <2>1, <2>2, ReaderDoes DEF ReadsElement, ProcessElement, UpdateKlassModel
<1>2. CASE SetSelectedObject
  BY <1>2 DEF SetSelectedObject, Select
<1>3. CASE Application
  BY <1>3, ApplicationDoes DEF ApplicationOnly
<1>4. CASE Serve
  BY <1>4, ServerDoes
<1>5. CASE Refresh \/ Edit \/ RequestKlass
  BY <1>5 DEF Refresh, Edit, RequestKlass
<1>6. CASE Dispatch
  BY <1>6 DEF Dispatch
<1> QED  BY <1>1, <1>2, <1>3, <1>4, <1>5, <1>6 DEF Next, User

\* The value that an event tells of was stored before the event was posted.
LEMMA ReaderStores ==
  ASSUME Fine, NEW e \in Elements, NEW p \in Props, NEW v \in Values, ReadsValue(e, p, v)
  PROVE  /\ UNCHANGED mirror
         /\ ~mirror[e].shown => UNCHANGED <<model, commands, crashed, crossed>>
         /\ mirror[e].shown /\ model[Now(e)][p] # "null" =>
              /\ model'[Now(e)][p] = v
              /\ \A o \in Object, q \in Props : o # Now(e) \/ q # p => model'[o][q] = model[o][q]
              /\ UNCHANGED crashed
         /\ mirror[e].shown /\ model[Now(e)][p] = "null" =>
              crashed' /\ UNCHANGED <<model, commands, crossed>>
<1>1. UNCHANGED mirror /\ (~mirror[e].shown => UNCHANGED <<model, commands, crashed, crossed>>)
  BY DEF ReadsValue, ProcessValue
<1>2. PICK o \in Object : o = Now(e)
  BY ObjectFields DEF Fine
<1>3. ASSUME mirror[e].shown PROVE AddProperty(o, p, v)
  BY <1>2, <1>3 DEF ReadsValue, ProcessValue
<1>4. ASSUME mirror[e].shown, model[o][p] # "null"
      PROVE  /\ model'[o][p] = v /\ UNCHANGED crashed
             /\ \A d \in Object, q \in Props : d # o \/ q # p => model'[d][q] = model[d][q]
  <2>1. PICK m : m = model'
    OBVIOUS
  <2>2. v \in Entries /\ Writes(m, o, p, v) /\ UNCHANGED crashed
    BY <1>3, <1>4, <2>1, AddPropertyDoes DEF Fine, Entries
  <2>3. \A d \in Object, q \in Props : m[d][q] = IF d = o /\ q = p THEN v ELSE model[d][q]
    BY <2>2, EntrySet DEF Fine
  <2> QED  BY <2>1, <2>2, <2>3
<1>5. mirror[e].shown /\ model[o][p] = "null" => crashed' /\ UNCHANGED <<model, commands, crossed>>
  BY <1>3 DEF AddProperty
<1> QED  BY <1>1, <1>2, <1>4, <1>5

LEMMA EntriesStep == Fine /\ EntriesOK /\ [Next]_vars => EntriesOK'
<1> SUFFICES ASSUME Fine, EntriesOK, [Next]_vars PROVE EntriesOK'
  OBVIOUS
<1>1. CASE UNCHANGED vars
  BY <1>1 DEF EntriesOK, Explained, Now, vars, modelVars
<1>2. CASE Next
  <2>1. ASSUME NEW o \in Object, NEW p \in Props, o.no = 0 PROVE model'[o][p] # "null"
    <3>1. CASE model'[o][p] = model[o][p]
      BY <2>1, <3>1 DEF EntriesOK
    <3>2. CASE model'[o][p] \in Values
      BY <3>2 DEF Values
    <3>3. CASE o = Now(o.of) /\ EarlyEvent(o.of, p)
      <4>1. o.of \in Elements /\ mirror[o.of].no = 0
        BY <2>1, <3>3, ObjectFields DEF Fine
      <4>2. events \in Seq(Event) /\ 1 \in 1..Len(events) /\ Head(events) = events[1]
        BY <3>3 DEF EarlyEvent, Fine, TypeOK
      <4>3. PICK ev \in Event : ev = PropertyOf(o.of, p) /\ Explained(ev)
        BY <3>3, <4>1, <4>2, NewEvents DEF EarlyEvent, EntriesOK
      <4>4. ev.what = "property" /\ ev.of = o.of /\ ev.prop = p
        BY <4>3, NewEvents
      <4>5. model[Now(o.of)][p] \in Values
        BY <3>3, <4>1, <4>3, <4>4 DEF Explained, EarlyEvent
      <4> QED  BY <3>3, <4>5 DEF EarlyEvent, Values
    <3> QED  BY <1>2, <3>1, <3>2, <3>3, ModelStep
  <2>2. \A o \in Object, p \in Props : model[o][p] \in Values => model'[o][p] \in Values
    BY <1>2, ModelStep DEF EarlyEvent, Values
  <2>3. \A e \in Elements : mirror'[e].no = 0 /\ mirror'[e].shown => mirror'[e] = mirror[e]
    BY <1>2, MirrorStep
  <2>4. Explained(Select)'
    BY NewEvents DEF Explained
  <2>5. ASSUME NEW e \in Elements, NEW p \in Props, NEW v \in Values, ReadsValue(e, p, v)
        PROVE  Explained(PropertyOf(e, p))'
    <3>1. PropertyOf(e, p).of = e /\ PropertyOf(e, p).prop = p
      BY NewEvents
    <3>2. UNCHANGED mirror /\ Now(e)' = Now(e) /\ Now(e) \in Object
      BY <2>5, ReaderStores, ObjectFields DEF Fine, Now
    <3>3. mirror[e].no = 0 => model[Now(e)][p] # "null"
      BY <3>2, ObjectFields DEF EntriesOK, Fine
    <3>4. mirror[e].no = 0 /\ mirror[e].shown => model'[Now(e)][p] = v
      BY <2>5, <3>3, ReaderStores
    <3> QED  BY <3>1, <3>2, <3>4 DEF Explained
  <2>6. \/ UNCHANGED events
        \/ events # <<>> /\ events' = Tail(events)
        \/ \E ev \in Event : events' = Append(events, ev) /\ Explained(ev)'
    <3>1. CASE events' = Append(events, Select)
      BY <2>4, <3>1, NewEvents
    <3>2. CASE \E e \in Elements, p \in Props, v \in Values :
                 ReadsValue(e, p, v) /\ events' = Append(events, PropertyOf(e, p))
      BY <2>5, <3>2, NewEvents
    <3> QED  BY <1>2, <3>1, <3>2, EventsStep DEF Fine
  <2>7. \A i \in 1..Len(events') : Explained(events[i])'
    BY <2>2, <2>3, <2>6, ExplainedEvents DEF Fine
  <2> QED  BY <2>1, <2>7 DEF EntriesOK
<1> QED  BY <1>1, <1>2

LEMMA CrashStep == Fine /\ EntriesOK /\ CrashesOnlyOnReplaced /\ [Next]_vars => CrashesOnlyOnReplaced'
<1> SUFFICES ASSUME Fine, EntriesOK, CrashesOnlyOnReplaced, [Next]_vars, crashed'
             PROVE  \E e \in Elements : mirror'[e].no > 0
  BY DEF CrashesOnlyOnReplaced
<1>1. CASE crashed
  <2>1. PICK e \in Elements : mirror[e].no > 0
    BY <1>1 DEF CrashesOnlyOnReplaced
  <2>2. CASE UNCHANGED vars
    BY <2>1, <2>2 DEF vars, modelVars
  <2>3. CASE Next
    BY <2>1, <2>3, MirrorStep
  <2> QED  BY <2>2, <2>3
<1>2. CASE ~crashed
  <2>1. Dispatch \/ ProcessFrame
    <3>1. ~UNCHANGED crashed
      BY <1>2
    <3>2. ~Serve /\ ~Application
      BY <3>1, ServerDoes, ApplicationDoes DEF Fine, ApplicationOnly
    <3> QED  BY <3>1, <3>2
        DEF vars, Next, User, SetSelectedObject, Refresh, Edit, RequestKlass
  <2>2. ASSUME NEW e \in Elements, UNCHANGED mirror, mirror[e].no # 0
        PROVE  \E d \in Elements : mirror'[d].no > 0
    BY <2>2 DEF Fine, TypeOK
  <2>3. CASE Dispatch
    <3>1. UNCHANGED mirror /\ events # <<>> /\ Head(events) \in Event
      BY <2>3, HeadTailProperties DEF Dispatch, Fine, TypeOK
    <3>2. ~SelectedObjectChanged
      BY <1>2 DEF SelectedObjectChanged
    <3>3. PICK e \in Elements, p \in Props :
            /\ Head(events).what = "property" /\ Head(events).of = e /\ Head(events).prop = p
            /\ NewProperty(e, p)
      BY <2>3, <3>1, <3>2, EventFields DEF Dispatch
    <3>4. mirror[e].shown /\ model[Now(e)][p] \notin Values
      BY <1>2, <3>3, NewPropertyDoes DEF Fine
    <3>5. events \in Seq(Event) /\ 1 \in 1..Len(events) /\ Head(events) = events[1]
      BY <3>1 DEF Fine, TypeOK
    <3>6. mirror[e].no # 0
      BY <3>3, <3>4, <3>5 DEF EntriesOK, Explained
    <3> QED  BY <2>2, <3>1, <3>6
  <2>4. CASE ProcessFrame
    <3>1. PICK e \in Elements, p \in Props, v \in Values : ReadsValue(e, p, v)
      BY <1>2, <2>4, ReaderDoes
      DEF Fine, ReadsPad, UpdatePadDynamicInfo, ReadsElement, ProcessElement, UpdateKlassModel
    <3>2. UNCHANGED mirror /\ model[Now(e)][p] = "null"
      BY <1>2, <3>1, ReaderStores
    <3>3. mirror[e].no # 0
      BY <3>2, ObjectFields DEF Fine, EntriesOK
    <3> QED  BY <2>2, <3>2, <3>3
  <2> QED  BY <2>1, <2>3, <2>4
<1> QED  BY <1>1, <1>2

\* Missing entries: only a pipeline in which an element was replaced, while
\* values of it were under way, takes the debugger down.
THEOREM ReplacementsCrash == Spec => []CrashesOnlyOnReplaced
<1>1. Init => EntriesOK /\ CrashesOnlyOnReplaced
  <2> SUFFICES ASSUME Init PROVE EntriesOK /\ CrashesOnlyOnReplaced
    OBVIOUS
  <2>1. model = [o \in Object |-> [p \in Props |-> "none"]] /\ events = <<>> /\ Len(events) = 0 /\ ~crashed
    BY DEF Init
  <2> QED  BY <2>1 DEF EntriesOK, CrashesOnlyOnReplaced
<1> QED  BY <1>1, FineInit, FineStep, EntriesStep, CrashStep, PTL DEF Spec

-----------------------------------------------------------------------------
\* The last edit of a value is on its way to the server, with nothing but its
\* own value behind it and no request in front of it, or has been there.
IsSet(c, e, p) == c.op = "set" /\ c.of = e /\ c.prop = p
IsGet(c, e, p) == c.op = "get" /\ c.of = e /\ c.prop \in {"", p}
IsValue(f, e, p) == f.what = "value" /\ f.of = e /\ f.prop = p

\* v is what the server has.
UnderWay(cmds, e, p, w, v) == \E k \in 0..Len(cmds) :
  /\ k = 0 => v = w
  /\ k > 0 => IsSet(cmds[k], e, p)
  /\ \A i \in 1..k : ~IsGet(cmds[i], e, p)
  /\ \A i \in 1..Len(cmds) : i >= k /\ IsSet(cmds[i], e, p) => cmds[i].to = w

LEMMA UnderWayKept ==
  ASSUME NEW cmds \in Seq(Command), NEW e, NEW p, NEW w, NEW v, NEW now,
         UnderWay(cmds, e, p, w, v), v = w => now = w
  PROVE  UnderWay(cmds, e, p, w, now)
BY DEF UnderWay

LEMMA UnderWayAppend ==
  ASSUME NEW cmds \in Seq(Command), NEW e, NEW p, NEW w, NEW v, UnderWay(cmds, e, p, w, v),
         NEW c \in Command, IsSet(c, e, p) => c.to = w
  PROVE  UnderWay(Append(cmds, c), e, p, w, v)
<1>1. PICK k \in 0..Len(cmds) :
        /\ k = 0 => v = w
        /\ k > 0 => IsSet(cmds[k], e, p)
        /\ \A i \in 1..k : ~IsGet(cmds[i], e, p)
        /\ \A i \in 1..Len(cmds) : i >= k /\ IsSet(cmds[i], e, p) => cmds[i].to = w
  BY DEF UnderWay
<1> DEFINE more == Append(cmds, c)
<1>2. /\ Len(cmds) \in Nat /\ Len(more) = Len(cmds) + 1
      /\ \A i \in 1..Len(cmds) : more[i] = cmds[i]
      /\ more[Len(cmds) + 1] = c
  BY AppendProperties, LenProperties
<1> HIDE DEF more
<1>3. k \in 0..Len(more) /\ (k > 0 => IsSet(more[k], e, p))
  BY <1>1, <1>2
<1>4. \A i \in 1..k : ~IsGet(more[i], e, p)
  BY <1>1, <1>2
<1>5. \A i \in 1..Len(more) : i >= k /\ IsSet(more[i], e, p) => more[i].to = w
  BY <1>1, <1>2
<1> QED  BY <1>1, <1>3, <1>4, <1>5 DEF UnderWay, more

LEMMA UnderWayBegins ==
  ASSUME NEW cmds \in Seq(Command), NEW e, NEW p, NEW w, NEW v,
         \A i \in 1..Len(cmds) : ~IsGet(cmds[i], e, p),
         NEW c \in Command, IsSet(c, e, p), c.to = w
  PROVE  UnderWay(Append(cmds, c), e, p, w, v)
<1> DEFINE more == Append(cmds, c)
           k == Len(cmds) + 1
<1>1. /\ Len(cmds) \in Nat /\ Len(more) = k
      /\ \A i \in 1..Len(cmds) : more[i] = cmds[i]
      /\ more[k] = c
  BY AppendProperties, LenProperties
<1>2. ~IsGet(c, e, p)
  BY DEF IsSet, IsGet
<1> HIDE DEF more
<1>3. \A i \in 1..k : ~IsGet(more[i], e, p)
  BY <1>1, <1>2
<1>4. \A i \in 1..Len(more) : i >= k => i = k
  BY <1>1
<1>5. k \in 0..Len(more) /\ k > 0
  BY <1>1
<1> QED  BY <1>1, <1>3, <1>4, <1>5 DEF UnderWay, more

LEMMA UnderWayTail ==
  ASSUME NEW cmds \in Seq(Command), cmds # <<>>, NEW e, NEW p, NEW w, NEW v, NEW now,
         UnderWay(cmds, e, p, w, v),
         IsSet(Head(cmds), e, p) /\ Head(cmds).to = w => now = w,
         v = w /\ ~IsSet(Head(cmds), e, p) => now = w
  PROVE  /\ IsGet(Head(cmds), e, p) => v = w
         /\ UnderWay(Tail(cmds), e, p, w, now)
<1>1. PICK k \in 0..Len(cmds) :
        /\ k = 0 => v = w
        /\ k > 0 => IsSet(cmds[k], e, p)
        /\ \A i \in 1..k : ~IsGet(cmds[i], e, p)
        /\ \A i \in 1..Len(cmds) : i >= k /\ IsSet(cmds[i], e, p) => cmds[i].to = w
  BY DEF UnderWay
<1> DEFINE rest == Tail(cmds)
<1>2. /\ Len(cmds) \in Nat /\ Len(cmds) > 0 /\ Len(rest) = Len(cmds) - 1 /\ Head(cmds) = cmds[1]
      /\ \A i \in 1..Len(rest) : rest[i] = cmds[i + 1]
  BY HeadTailProperties, LenProperties
<1> HIDE DEF rest
<1>3. IsGet(Head(cmds), e, p) => v = w
  BY <1>1, <1>2
<1>4. CASE k > 1
  <2> DEFINE j == k - 1
  <2>1. j \in 0..Len(rest) /\ j > 0 /\ j # 0 /\ rest[j] = cmds[k]
    BY <1>2, <1>4
  <2>2. \A i \in 1..j : ~IsGet(rest[i], e, p)
    BY <1>1, <1>2, <1>4
  <2>3. \A i \in 1..Len(rest) : i >= j /\ IsSet(rest[i], e, p) => rest[i].to = w
    BY <1>1, <1>2, <1>4
  <2> HIDE DEF j
  <2>4. UnderWay(rest, e, p, w, now)
    BY <1>1, <1>4, <2>1, <2>2, <2>3 DEF UnderWay
  <2> QED  BY <1>3, <2>4 DEF rest
<1>5. CASE k <= 1
  <2>1. now = w
    BY <1>1, <1>2, <1>5
  <2>2. \A i \in 1..Len(rest) : IsSet(rest[i], e, p) => rest[i].to = w
    BY <1>1, <1>2, <1>5
  <2>3. 0 \in 0..Len(rest) /\ \A i \in 1..0 : FALSE
    BY <1>2
  <2>4. UnderWay(rest, e, p, w, now)
    BY <2>1, <2>2, <2>3 DEF UnderWay
  <2> QED  BY <1>3, <2>4 DEF rest
<1> QED  BY <1>4, <1>5

\* The value the server has of an element that is there.
Rests(e, p, w) == IF e \in exists THEN value[e][p] ELSE w

\* What the debugger shows of it, what is on its way to it, what it sent.
Stands(e, p) ==
  /\ model[Now(e)][p] \in {wanted[e][p], "none", "null"}
  /\ \A i \in 1..Len(frames) : IsValue(frames[i], e, p) => frames[i].is = wanted[e][p]
  /\ UnderWay(commands, e, p, wanted[e][p], Rests(e, p, wanted[e][p]))

Kept(e, p) == wanted[e][p] # "none" /\ <<e, p, "user">> \notin crossed

StandsOK ==
  /\ wanted \in [Elements -> [Props -> Values \cup {"none"}]]
  /\ \A e \in Elements, p \in Props : Kept(e, p) => Stands(e, p)

LEMMA StandsKept ==
  ASSUME TypeOK, NEW e \in Elements, NEW p \in Props, Stands(e, p),
         wanted'[e][p] = wanted[e][p],
         model'[Now(e)'][p] \in {wanted[e][p], "none", "null"},
         \A i \in 1..Len(frames') : IsValue(frames'[i], e, p) => frames'[i].is = wanted[e][p],
         e \in exists' => e \in exists /\ value'[e][p] = value[e][p],
         \/ UNCHANGED commands
         \/ \E c \in Command : commands' = Append(commands, c) /\ (IsSet(c, e, p) => c.to = wanted[e][p])
  PROVE  Stands(e, p)'
<1>1. PICK w : w = wanted[e][p]
  OBVIOUS
<1>2. PICK v : v = Rests(e, p, w)
  OBVIOUS
<1>3. PICK now : now = Rests(e, p, w)'
  OBVIOUS
<1>4. PICK cmds \in Seq(Command) : cmds = commands
  BY DEF TypeOK
<1>5. UnderWay(cmds, e, p, w, v)
  BY <1>1, <1>2, <1>4 DEF Stands
<1>6. v = w => now = w
  BY <1>1, <1>2, <1>3 DEF Rests
<1>7. UnderWay(cmds, e, p, w, now)
  BY <1>5, <1>6, UnderWayKept
<1>8. UnderWay(commands', e, p, w, now)
  <2>1. CASE commands' = commands
    BY <1>4, <1>7, <2>1
  <2>2. CASE \E c \in Command : commands' = Append(commands, c) /\ (IsSet(c, e, p) => c.to = w)
    <3>1. PICK c \in Command : commands' = Append(cmds, c) /\ (IsSet(c, e, p) => c.to = w)
      BY <1>4, <2>2
    <3>2. UnderWay(Append(cmds, c), e, p, w, now)
      BY <1>7, <3>1, UnderWayAppend
    <3> QED  BY <3>1, <3>2
  <2> QED  BY <1>1, <2>1, <2>2
<1>9. UnderWay(commands, e, p, w, Rests(e, p, w))'
  BY <1>3, <1>8 DEF UnderWay
<1>10. wanted'[e][p] = w
  BY <1>1
<1> QED  BY <1>1, <1>9, <1>10 DEF Stands

\* A frame that is read leaves the others as they are.
LEMMA FramesOfTail ==
  ASSUME TypeOK, NEW e, NEW p, NEW w, frames # <<>>, frames' = Tail(frames),
         \A i \in 1..Len(frames) : IsValue(frames[i], e, p) => frames[i].is = w
  PROVE  /\ \A i \in 1..Len(frames') : IsValue(frames'[i], e, p) => frames'[i].is = w
         /\ IsValue(Head(frames), e, p) => Head(frames).is = w
BY HeadTailProperties, LenProperties DEF TypeOK

LEMMA FramesOfConcat ==
  ASSUME TypeOK, NEW e, NEW p, NEW w, NEW sent \in Seq(Frame), frames' = frames \o sent,
         \A i \in 1..Len(frames) : IsValue(frames[i], e, p) => frames[i].is = w,
         \A i \in 1..Len(sent) : IsValue(sent[i], e, p) => sent[i].is = w
  PROVE  \A i \in 1..Len(frames') : IsValue(frames'[i], e, p) => frames'[i].is = w
<1>1. PICK before \in Seq(Frame) : before = frames
  BY DEF TypeOK
<1> DEFINE all == before \o sent
<1>2. /\ \A i \in 1..Len(before) : all[i] = before[i]
      /\ \A i \in 1..Len(sent) : all[Len(before) + i] = sent[i]
      /\ \A i \in 1..Len(all) : i \in 1..Len(before) \/ \E j \in 1..Len(sent) : i = Len(before) + j
  BY ConcatItems
<1>3. frames' = all
  BY <1>1
<1> HIDE DEF all
<1>4. ASSUME NEW i \in 1..Len(all), IsValue(all[i], e, p) PROVE all[i].is = w
  <2>1. CASE i \in 1..Len(before)
    <3>1. all[i] = frames[i] /\ i \in 1..Len(frames)
      BY <1>1, <1>2, <2>1
    <3> QED  BY <1>4, <3>1
  <2>2. CASE \E j \in 1..Len(sent) : i = Len(before) + j
    BY <1>2, <1>4, <2>2
  <2> QED  BY <1>2, <2>1, <2>2
<1> QED  BY <1>3, <1>4

LEMMA FramesOfAppend ==
  ASSUME TypeOK, NEW e, NEW p, NEW w, NEW f \in Frame, frames' = Append(frames, f), f.what # "value",
         \A i \in 1..Len(frames) : IsValue(frames[i], e, p) => frames[i].is = w
  PROVE  \A i \in 1..Len(frames') : IsValue(frames'[i], e, p) => frames'[i].is = w
<1>1. PICK sent \in Seq(Frame) : frames' = frames \o sent /\ \A i \in 1..Len(sent) : sent[i] = f
  BY OneFrame
<1> QED  BY <1>1, FramesOfConcat, SMTT(30) DEF IsValue

\* While nothing happens to the pipeline or to the models, and nothing arrives.
LEMMA StandsUnmoved ==
  ASSUME TypeOK, NEW e \in Elements, NEW p \in Props, Stands(e, p),
         wanted'[e][p] = wanted[e][p], UNCHANGED <<mirror, frames, exists, value>>,
         model'[Now(e)][p] \in {wanted[e][p], "none", "null"},
         \/ UNCHANGED commands
         \/ \E c \in Command : commands' = Append(commands, c) /\ (IsSet(c, e, p) => c.to = wanted[e][p])
  PROVE  Stands(e, p)'
<1>1. Now(e)' = Now(e)
  BY DEF Now
<1>2. \A i \in 1..Len(frames') : IsValue(frames'[i], e, p) => frames'[i].is = wanted[e][p]
  BY DEF Stands
<1> QED  BY <1>1, <1>2, StandsKept

\* Who is concerned by an edit, or by what undoes it.
EditOf(e, p) == \E v \in Values :
  /\ p \in DOMAIN rows /\ rows[p].of = e
  /\ model' = [model EXCEPT ![rows[p]][p] = v]
  /\ Sends(rows[p], p, v, "user", frames)
  /\ wanted' = [wanted EXCEPT ![e][p] = v]

LEMMA EditDoes ==
  ASSUME TypeOK, Edit
  PROVE  /\ UNCHANGED <<exists, value, mirror, frames>>
         /\ \E e \in Elements, p \in Props : EditOf(e, p)
<1>1. PICK p \in DOMAIN rows, v \in Values :
        /\ model' = [model EXCEPT ![rows[p]][p] = v]
        /\ Sends(rows[p], p, v, "user", frames)
        /\ wanted' = [wanted EXCEPT ![rows[p].of][p] = v]
        /\ UNCHANGED <<pipelineVars, mirror, frames>>
  BY DEF Edit
<1>2. PICK e \in Elements : e = rows[p].of
  BY ObjectFields DEF TypeOK
<1>3. p \in Props /\ EditOf(e, p)
  BY <1>1, <1>2 DEF EditOf, TypeOK
<1> QED  BY <1>1, <1>3 DEF pipelineVars

LEMMA EditStands ==
  ASSUME Fine, StandsOK, Edit
  PROVE  StandsOK'
<1>1. PICK d \in Elements, q \in Props : EditOf(d, q)
  BY EditDoes DEF Fine
<1>2. PICK v \in Values :
        /\ q \in DOMAIN rows /\ rows[q].of = d
        /\ model' = [model EXCEPT ![rows[q]][q] = v]
        /\ Sends(rows[q], q, v, "user", frames)
        /\ wanted' = [wanted EXCEPT ![d][q] = v]
  BY <1>1 DEF EditOf
<1>3. UNCHANGED <<exists, value, mirror, frames>>
  BY EditDoes DEF Fine
<1>4. PICK o \in Object : o = rows[q] /\ o.of = d
  BY <1>2 DEF Fine, TypeOK
<1>5. /\ wanted' \in [Elements -> [Props -> Values \cup {"none"}]]
      /\ wanted'[d][q] = v
      /\ \A e \in Elements, p \in Props : e # d \/ p # q => wanted'[e][p] = wanted[e][p]
  BY <1>2 DEF StandsOK
<1>6. PICK m : m = model'
  OBVIOUS
<1>7. \A x \in Object, p \in Props : m[x][p] = IF x = o /\ p = q THEN v ELSE model[x][p]
  <2>1. v \in Entries /\ Writes(m, o, q, v)
    BY <1>2, <1>4, <1>6 DEF Writes, Entries
  <2> QED  BY <2>1, EntrySet DEF Fine
<1>8. PICK c \in Command : /\ commands' = Append(commands, c)
                           /\ c.op = "set" /\ c.of = d /\ c.prop = q /\ c.to = v
  <2>1. commands' = Append(commands, Set(d, q, v, "user"))
    BY <1>2, <1>4 DEF Sends
  <2> QED  BY <2>1, NewCommands, NewCommandFields
<1>9. crossed' = IF Asked(d, q) \/ Answered(d, q, frames) \/ o # Now(d)
                 THEN crossed \cup {<<d, q, "user">>} ELSE crossed
  BY <1>2, <1>4 DEF Sends
<1>10. ASSUME NEW e \in Elements, NEW p \in Props, Kept(e, p)' PROVE Stands(e, p)'
  <2>1. <<e, p, "user">> \notin crossed' /\ <<e, p, "user">> \notin crossed /\ wanted'[e][p] # "none"
    BY <1>9, <1>10 DEF Kept
  <2>2. Now(e) \in Object /\ Now(e).of = e /\ Now(e)' = Now(e)
    BY <1>3, ObjectFields DEF Fine, Now
  <2>3. CASE e # d \/ p # q
    <3>1. wanted'[e][p] = wanted[e][p] /\ Stands(e, p)
      BY <1>5, <2>1, <2>3 DEF StandsOK, Kept
    <3>2. m[Now(e)][p] = model[Now(e)][p]
      BY <1>4, <1>7, <2>2, <2>3
    <3>3. model'[Now(e)][p] \in {wanted[e][p], "none", "null"}
      BY <1>6, <3>1, <3>2 DEF Stands
    <3>4. ~IsSet(c, e, p)
      BY <1>8, <2>3 DEF IsSet
    <3> QED  BY <1>3, <1>8, <3>1, <3>3, <3>4, StandsUnmoved DEF Fine
  <2>4. CASE e = d /\ p = q
    <3>1. ~Asked(d, q) /\ ~Answered(d, q, frames) /\ o = Now(d)
      BY <1>9, <2>1, <2>4
    <3>2. model'[Now(e)'][p] = v
      BY <1>6, <1>7, <2>2, <2>4, <3>1
    <3>3. \A i \in 1..Len(frames) : ~IsValue(frames[i], e, p)
      <4>1. DOMAIN frames = 1..Len(frames)
        BY LenProperties DEF Fine, TypeOK
      <4> QED  BY <2>4, <3>1, <4>1 DEF Answered, IsValue
    <3>4. PICK cmds \in Seq(Command) : cmds = commands
      BY DEF Fine, TypeOK
    <3>5. \A i \in 1..Len(cmds) : ~IsGet(cmds[i], e, p)
      <4>1. DOMAIN cmds = 1..Len(cmds)
        BY LenProperties
      <4> QED  BY <2>4, <3>1, <3>4, <4>1 DEF Asked, IsGet
    <3>6. PICK now : now = Rests(e, p, v)'
      OBVIOUS
    <3>7. IsSet(c, e, p) /\ c.to = v
      BY <1>8, <2>4 DEF IsSet
    <3>8. UnderWay(Append(cmds, c), e, p, v, now)
      BY <3>5, <3>7, UnderWayBegins
    <3>9. UnderWay(commands, e, p, v, Rests(e, p, v))'
      BY <1>8, <3>4, <3>6, <3>8 DEF UnderWay
    <3>10. wanted'[e][p] = v
      BY <1>5, <2>4
    <3>11. \A i \in 1..Len(frames') : ~IsValue(frames'[i], e, p)
      BY <1>3, <3>3
    <3> QED  BY <3>2, <3>9, <3>10, <3>11 DEF Stands
  <2> QED  BY <2>3, <2>4
<1> QED  BY <1>5, <1>10 DEF StandsOK

LEMMA DispatchStands ==
  ASSUME Fine, StandsOK, Dispatch
  PROVE  StandsOK'
<1>1. UNCHANGED <<exists, value, mirror, frames, wanted>>
  BY DEF Dispatch, pipelineVars
<1>2. /\ Head(events) \in Event
      /\ \/ SelectedObjectChanged
         \/ Head(events).what = "property" /\ NewProperty(Head(events).of, Head(events).prop)
  BY HeadTailProperties DEF Dispatch, Fine, TypeOK
<1>3. (SelectedObjectChanged \/ \E d \in Elements, q \in Props : NewProperty(d, q))
  BY <1>2, EventFields
<1>4. \A e, p : <<e, p, "user">> \in crossed' <=> <<e, p, "user">> \in crossed
  <2>1. ASSUME NEW d \in Elements, NEW q \in Props, NewProperty(d, q)
        PROVE  \A e, p : <<e, p, "user">> \in crossed' <=> <<e, p, "user">> \in crossed
    <3>1. CASE model[Now(d)][q] \in Values /\ Echo(Now(d), q, "off", model[Now(d)][q], frames)
      BY <3>1, EchoDoes, ObjectFields DEF Fine
    <3> QED  BY <2>1, <3>1, NewPropertyDoes DEF Fine, NewProperty
  <2> QED  BY <1>3, <2>1 DEF SelectedObjectChanged
<1>5. ASSUME NEW e \in Elements, NEW p \in Props, Kept(e, p)' PROVE Stands(e, p)'
  <2>1. Stands(e, p) /\ wanted'[e][p] = wanted[e][p]
    BY <1>1, <1>4, <1>5 DEF Kept, StandsOK
  <2>2. Now(e) \in Object /\ model[Now(e)][p] \in {wanted[e][p], "none", "null"}
    BY <2>1, ObjectFields DEF Fine, Stands
  <2>3. model'[Now(e)][p] \in {wanted[e][p], "none", "null"}
    <3>1. CASE SelectedObjectChanged
      BY <2>2, <3>1 DEF SelectedObjectChanged
    <3>2. ASSUME NEW d \in Elements, NEW q \in Props, NewProperty(d, q)
          PROVE  model'[Now(e)][p] \in {wanted[e][p], "none", "null"}
      <4>1. CASE UNCHANGED model
        BY <2>2, <4>1
      <4>2. CASE Writes(model', Now(d), q, IF model[Now(d)][q] = "none" THEN "null" ELSE model[Now(d)][q])
        <5>1. PICK o \in Object : o = Now(d)
          BY ObjectFields DEF Fine
        <5>2. PICK m : m = model'
          OBVIOUS
        <5>3. PICK v \in Entries : v = IF model[o][q] = "none" THEN "null" ELSE model[o][q]
          BY DEF Fine, TypeOK, Entries
        <5>4. Writes(m, o, q, v)
          BY <4>2, <5>1, <5>2, <5>3
        <5>5. m[Now(e)][p] = IF Now(e) = o /\ p = q THEN v ELSE model[Now(e)][p]
          BY <2>2, <5>4, EntrySet DEF Fine
        <5> QED  BY <2>2, <5>2, <5>3, <5>5
      <4> QED  BY <3>2, <4>1, <4>2, NewPropertyDoes DEF Fine
    <3> QED  BY <1>3, <3>1, <3>2
  <2>4. \/ UNCHANGED commands
        \/ \E c \in Command : commands' = Append(commands, c) /\ (IsSet(c, e, p) => c.to = wanted[e][p])
    <3>1. CASE SelectedObjectChanged
      <4>1. CASE \E d \in Elements : d = selected.of /\ commands' = Append(commands, Get(d, ""))
        <5>1. PICK d \in Elements, all \in Asks : commands' = Append(commands, Get(d, all))
          BY <4>1 DEF Asks
        <5>2. Get(d, all) \in Command /\ Get(d, all).op = "get"
          BY NewCommands, NewCommandFields
        <5> QED  BY <5>1, <5>2 DEF IsSet
      <4> QED  BY <3>1, <4>1, SelectedChangedDoes DEF Fine
    <3>2. ASSUME NEW d \in Elements, NEW q \in Props, NewProperty(d, q), ~UNCHANGED commands
          PROVE  \E c \in Command : commands' = Append(commands, c) /\ (IsSet(c, e, p) => c.to = wanted[e][p])
      <4>1. model[Now(d)][q] \in Values /\ Echo(Now(d), q, "off", model[Now(d)][q], frames)
        BY <3>2, NewPropertyDoes DEF Fine
      <4>2. Now(d) \in Object /\ Now(d).of = d
        BY ObjectFields DEF Fine
      <4>3. commands' = Append(commands, Set(d, q, model[Now(d)][q], "widget"))
        BY <3>2, <4>1, <4>2, EchoDoes DEF Fine
      <4>4. PICK c \in Command : /\ c = Set(d, q, model[Now(d)][q], "widget")
                                 /\ c.of = d /\ c.prop = q /\ c.to = model[Now(d)][q]
        BY <4>1, NewCommands, NewCommandFields
      <4>5. IsSet(c, e, p) => c.to = wanted[e][p]
        BY <2>2, <4>1, <4>4 DEF IsSet, Values
      <4> QED  BY <4>3, <4>4, <4>5
    <3> QED  BY <1>3, <3>1, <3>2
  <2> QED  BY <1>1, <2>1, <2>3, <2>4, StandsUnmoved DEF Fine
<1> QED  BY <1>1, <1>5 DEF StandsOK

\* The steps that send at most a request.
LEMMA RequestStands ==
  ASSUME Fine, StandsOK, SetSelectedObject \/ Refresh \/ RequestKlass
  PROVE  StandsOK'
<1>1. UNCHANGED <<exists, value, mirror, model, frames, wanted, crossed>>
  BY DEF SetSelectedObject, Refresh, RequestKlass, pipelineVars, modelVars, history
<1>2. UNCHANGED commands \/ \E c \in Command : commands' = Append(commands, c) /\ c.op # "set"
  <2>1. CASE SetSelectedObject
    <3>1. PICK x \in Elements \cup Pads \cup {Nothing} :
            commands' = IF x \in Pads THEN Append(commands, AskPad(x)) ELSE commands
      BY <2>1 DEF SetSelectedObject, AskPad
    <3>2. x \in Pads => AskPad(x) \in Command /\ AskPad(x).op # "set"
      BY NewCommands, NewCommandFields
    <3> QED  BY <3>1, <3>2
  <2>2. CASE Refresh
    <3>1. PICK p \in Asks : commands' = Append(commands, Get(selected.of, p))
      BY <2>2, RefreshDoes DEF Fine
    <3>2. Get(selected.of, p) \in Command /\ Get(selected.of, p).op # "set"
      BY <2>2, RefreshDoes, NewCommands, NewCommandFields DEF Fine
    <3> QED  BY <3>1, <3>2
  <2>3. CASE RequestKlass
    <3>1. commands' = Append(commands, AskKlass)
      BY <2>3 DEF RequestKlass, AskKlass
    <3>2. AskKlass \in Command /\ AskKlass.op # "set"
      BY NewCommands, NewCommandFields
    <3> QED  BY <3>1, <3>2
  <2> QED  BY <2>1, <2>2, <2>3
<1>3. ASSUME NEW e \in Elements, NEW p \in Props, Kept(e, p)' PROVE Stands(e, p)'
  <2>1. Stands(e, p)
    BY <1>1, <1>3 DEF Kept, StandsOK
  <2>2. model'[Now(e)][p] \in {wanted[e][p], "none", "null"} /\ wanted'[e][p] = wanted[e][p]
    BY <1>1, <2>1 DEF Stands
  <2>3. \/ UNCHANGED commands
        \/ \E c \in Command : commands' = Append(commands, c) /\ (IsSet(c, e, p) => c.to = wanted[e][p])
    BY <1>2 DEF IsSet
  <2> QED  BY <1>1, <2>1, <2>2, <2>3, StandsUnmoved DEF Fine
<1> QED  BY <1>1, <1>3 DEF StandsOK

LEMMA ReaderStands ==
  ASSUME Fine, StandsOK, ProcessFrame
  PROVE  StandsOK'
<1>1. /\ frames # <<>> /\ Head(frames) \in Frame /\ frames' = Tail(frames)
      /\ UNCHANGED <<exists, value, wanted>>
  BY ReaderDoes DEF Fine
<1>2. ASSUME NEW e \in Elements, NEW p \in Props, Stands(e, p),
             model'[Now(e)'][p] \in {wanted[e][p], "none", "null"},
             \/ UNCHANGED commands
             \/ \E c \in Command : commands' = Append(commands, c) /\ (IsSet(c, e, p) => c.to = wanted[e][p])
      PROVE  Stands(e, p)'
  <2>1. \A i \in 1..Len(frames) : IsValue(frames[i], e, p) => frames[i].is = wanted[e][p]
    BY <1>2 DEF Stands
  <2>2. PICK w : w = wanted[e][p]
    OBVIOUS
  <2>3. \A i \in 1..Len(frames') : IsValue(frames'[i], e, p) => frames'[i].is = w
    BY <1>1, <2>1, <2>2, FramesOfTail DEF Fine
  <2> QED  BY <1>1, <1>2, <2>2, <2>3, StandsKept DEF Fine
<1>3. ASSUME NEW d \in Elements, NEW q \in Props, NEW v \in Values, ReadsValue(d, q, v) PROVE StandsOK'
  <2>1. UNCHANGED mirror /\ Now(d) \in Object /\ Now(d).of = d
    BY <1>3, ReaderStores, ObjectFields DEF Fine
  <2>2. mirror[d].shown => AddProperty(Now(d), q, v)
    BY <1>3 DEF ReadsValue, ProcessValue
  <2>3. Echo(Now(d), q, model[Now(d)][q], v, Tail(frames)) \/ UNCHANGED <<commands, crossed>>
    <3>1. ~mirror[d].shown => UNCHANGED <<commands, crossed>>
      BY <1>3, ReaderStores
    <3> QED  BY <2>1, <2>2, <3>1, AddPropertyDoes DEF Fine
  <2>4. /\ \A e, p : <<e, p, "user">> \in crossed' <=> <<e, p, "user">> \in crossed
        /\ commands' = commands \/ commands' = Append(commands, Set(d, q, v, "widget"))
    BY <2>1, <2>3, EchoDoes DEF Fine
  <2>5. ASSUME NEW e \in Elements, NEW p \in Props, Kept(e, p)' PROVE Stands(e, p)'
    <3>1. Stands(e, p)
      BY <1>1, <2>4, <2>5 DEF Kept, StandsOK
    <3>2. e = d /\ p = q => v = wanted[e][p]
      <4>1. IsValue(Head(frames), d, q) /\ Head(frames).is = v
        BY <1>3 DEF ReadsValue, IsValue
      <4>2. \A i \in 1..Len(frames) : IsValue(frames[i], e, p) => frames[i].is = wanted[e][p]
        BY <3>1 DEF Stands
      <4>3. Head(frames) = frames[1] /\ 1 \in 1..Len(frames)
        BY <1>1 DEF Fine, TypeOK
      <4> QED  BY <4>1, <4>2, <4>3
    <3>3. Now(e)' = Now(e) /\ Now(e) \in Object /\ Now(e).of = e
      BY <2>1, ObjectFields DEF Fine, Now
    <3>4. model[Now(e)][p] \in {wanted[e][p], "none", "null"}
      BY <3>1 DEF Stands
    <3>5. model'[Now(e)][p] = model[Now(e)][p] \/ (e = d /\ p = q /\ model'[Now(e)][p] = v)
      <4>1. mirror[d].shown /\ model[Now(d)][q] # "null" =>
              /\ model'[Now(d)][q] = v
              /\ \A o \in Object, r \in Props : o # Now(d) \/ r # q => model'[o][r] = model[o][r]
        BY <1>3, ReaderStores
      <4>2. ~(mirror[d].shown /\ model[Now(d)][q] # "null") => UNCHANGED model
        BY <1>3, ReaderStores
      <4>3. Now(e) = Now(d) => e = d
        BY <2>1, <3>3
      <4> QED  BY <3>3, <4>1, <4>2, <4>3
    <3>6. model'[Now(e)'][p] \in {wanted[e][p], "none", "null"}
      BY <3>2, <3>3, <3>4, <3>5
    <3>7. \/ UNCHANGED commands
          \/ \E c \in Command : commands' = Append(commands, c) /\ (IsSet(c, e, p) => c.to = wanted[e][p])
      <4>1. PICK c \in Command : c = Set(d, q, v, "widget") /\ c.of = d /\ c.prop = q /\ c.to = v
        BY NewCommands, NewCommandFields
      <4> QED  BY <2>4, <3>2, <4>1 DEF IsSet
    <3> QED  BY <1>2, <3>1, <3>6, <3>7
  <2> QED  BY <1>1, <2>5 DEF StandsOK
<1>4. CASE UNCHANGED <<model, mirror, commands, crossed>>
  <2>1. ASSUME NEW e \in Elements, NEW p \in Props, Kept(e, p)' PROVE Stands(e, p)'
    <3>1. Stands(e, p)
      BY <1>1, <1>4, <2>1 DEF Kept, StandsOK
    <3>2. model'[Now(e)'][p] \in {wanted[e][p], "none", "null"}
      BY <1>4, <3>1 DEF Stands, Now
    <3> QED  BY <1>2, <1>4, <3>1, <3>2
  <2> QED  BY <1>1, <2>1 DEF StandsOK
<1>5. ASSUME NEW d \in Elements, NEW shown \in BOOLEAN, ReadsElement(d, shown) PROVE StandsOK'
  <2>1. UNCHANGED <<model, commands, crossed>>
    BY <1>5 DEF ReadsElement, ProcessElement
  <2>2. ASSUME NEW e \in Elements, NEW p \in Props, Kept(e, p)' PROVE Stands(e, p)'
    <3>1. Stands(e, p)
      BY <1>1, <2>1, <2>2 DEF Kept, StandsOK
    <3>2. mirror'[e].no \in 0..MaxChanges /\ mirror[e].no \in Int /\ mirror'[e].no \in Int
          /\ (mirror'[e].no = mirror[e].no \/ mirror'[e].no > mirror[e].no)
      <4>1. mirror'[e].no \in 0..MaxChanges
        BY ReaderKeepsTypes DEF Fine, TypeOK
      <4>2. mirror[e].no \in Nat /\ mirror'[e].no \in Nat /\ mirror'[e].no >= mirror[e].no
        BY MirrorStep DEF Next
      <4> QED  BY <4>1, <4>2
    <3>3. CASE mirror'[e].no = mirror[e].no
      <4>1. Now(e)' = Now(e)
        BY <3>3 DEF Now
      <4>2. model'[Now(e)'][p] \in {wanted[e][p], "none", "null"}
        BY <2>1, <3>1, <4>1 DEF Stands
      <4> QED  BY <1>2, <2>1, <3>1, <4>2
    <3>4. CASE mirror'[e].no > mirror[e].no
      <4>1. PICK o \in Object : o = Now(e)' /\ o.of = e /\ o.no = mirror'[e].no
        <5>1. PICK n \in 0..MaxChanges : n = mirror'[e].no
          BY <3>2
        <5>2. Now(e)' = [of |-> e, no |-> n]
          BY <5>1 DEF Now
        <5>3. [of |-> e, no |-> n] \in Object
          BY DEF Object
        <5> QED  BY <5>1, <5>2, <5>3
      <4>2. model[o][p] = "none"
        BY <3>4, <4>1 DEF Fine, BoundsOK
      <4>3. model'[Now(e)'][p] \in {wanted[e][p], "none", "null"}
        BY <2>1, <4>1, <4>2
      <4> QED  BY <1>2, <2>1, <3>1, <4>3
    <3> QED  BY <3>2, <3>3, <3>4
  <2> QED  BY <1>1, <2>2 DEF StandsOK
<1>6. UNCHANGED <<model, mirror, commands, crossed>>
      \/ (\E d \in Elements, q \in Props, v \in Values : ReadsValue(d, q, v))
      \/ (\E d \in Elements, shown \in BOOLEAN : ReadsElement(d, shown))
  BY ReaderDoes DEF Fine, ReadsPad, UpdatePadDynamicInfo, UpdateKlassModel
<1> QED  BY <1>3, <1>4, <1>5, <1>6

\* The server takes one command.
LEMMA ServerStands ==
  ASSUME Fine, StandsOK, Serve
  PROVE  StandsOK'
<1>1. /\ commands # <<>> /\ Head(commands) \in Command
      /\ commands' = Tail(commands)
      /\ UNCHANGED <<exists, mirror, model>>
      /\ Serves(Head(commands))
  BY ServerDoes DEF Fine
<1>2. ASSUME NEW e \in Elements, NEW p \in Props, Stands(e, p), wanted'[e][p] = wanted[e][p],
             IsGet(Head(commands), e, p) /\ Rests(e, p, wanted[e][p]) = wanted[e][p]
               => \A i \in 1..Len(frames') : IsValue(frames'[i], e, p) => frames'[i].is = wanted[e][p],
             ~IsGet(Head(commands), e, p)
               => \A i \in 1..Len(frames') : IsValue(frames'[i], e, p) => frames'[i].is = wanted[e][p],
             IsSet(Head(commands), e, p) /\ Head(commands).to = wanted[e][p] /\ e \in exists
               => value'[e][p] = wanted[e][p],
             ~IsSet(Head(commands), e, p) => value'[e][p] = value[e][p]
      PROVE  Stands(e, p)'
  <2>1. PICK w : w = wanted[e][p]
    OBVIOUS
  <2>2. PICK v : v = Rests(e, p, w)
    OBVIOUS
  <2>3. PICK now : now = Rests(e, p, w)'
    OBVIOUS
  <2>4. PICK cmds \in Seq(Command) : cmds = commands
    BY DEF Fine, TypeOK
  <2>5. UnderWay(cmds, e, p, w, v)
    BY <1>2, <2>1, <2>2, <2>4 DEF Stands
  <2>6. IsSet(Head(cmds), e, p) /\ Head(cmds).to = w => now = w
    BY <1>1, <1>2, <2>1, <2>3, <2>4 DEF Rests
  <2>7. v = w /\ ~IsSet(Head(cmds), e, p) => now = w
    BY <1>1, <1>2, <2>1, <2>2, <2>3, <2>4 DEF Rests
  <2>8. /\ IsGet(Head(cmds), e, p) => v = w
        /\ UnderWay(Tail(cmds), e, p, w, now)
    BY <1>1, <2>4, <2>5, <2>6, <2>7, UnderWayTail
  <2>9. UnderWay(commands, e, p, w, Rests(e, p, w))'
    BY <1>1, <2>3, <2>4, <2>8 DEF UnderWay
  <2>10. \A i \in 1..Len(frames') : IsValue(frames'[i], e, p) => frames'[i].is = w
    BY <1>2, <2>1, <2>2, <2>4, <2>8
  <2>11. wanted'[e][p] = w
    BY <1>2, <2>1
  <2>12. model'[Now(e)'][p] \in {w, "none", "null"}
    BY <1>1, <1>2, <2>1 DEF Stands, Now
  <2> QED  BY <2>9, <2>10, <2>11, <2>12 DEF Stands
<1>3. ASSUME NEW d \in Elements, NEW prop \in Asks,
             Head(commands) = Get(d, prop), ProcessPropertyRequest(d, prop)
      PROVE  StandsOK'
  <2>1. PICK sent \in Seq(Frame) : frames' = frames \o sent /\ Answers(sent, d, AskedFor(d, prop))
    BY <1>3, AnswerDoes DEF Fine
  <2>2. /\ AskedFor(d, prop) \subseteq Props
        /\ \A q \in AskedFor(d, prop) : d \in exists /\ prop \in {"", q}
    BY <1>3, AnswerDoes DEF Fine, AskedFor, Found
  <2>3. PICK settled : /\ crossed' = crossed \ settled
                       /\ wanted' = [e \in Elements |-> [p \in Props |->
                            IF <<e, p, "user">> \in settled THEN "none" ELSE wanted[e][p]]]
                       /\ UNCHANGED value
    BY <1>3 DEF ProcessPropertyRequest
  <2>4. wanted' \in [Elements -> [Props -> Values \cup {"none"}]]
    <3>1. \A e \in Elements, p \in Props : wanted[e][p] \in Values \cup {"none"}
      BY DEF StandsOK
    <3> QED  BY <2>3, <3>1
  <2>5. Get(d, prop).op = "get" /\ Get(d, prop).of = d /\ Get(d, prop).prop = prop
    BY <1>3, NewCommandFields
  <2>6. ASSUME NEW e \in Elements, NEW p \in Props, Kept(e, p)' PROVE Stands(e, p)'
    <3>1. <<e, p, "user">> \notin settled /\ wanted'[e][p] = wanted[e][p]
      BY <2>3, <2>6 DEF Kept
    <3>2. Stands(e, p)
      BY <2>3, <2>6, <3>1 DEF Kept, StandsOK
    <3>3. PICK w : w = wanted[e][p]
      OBVIOUS
    <3>4. ASSUME NEW i \in 1..Len(sent), IsValue(sent[i], e, p)
          PROVE  /\ IsGet(Head(commands), e, p)
                 /\ Rests(e, p, w) = w => sent[i].is = w
      <4>1. PICK q \in AskedFor(d, prop) : sent[i] = ValueOf(d, q, value[d][q])
        BY <2>1 DEF Answers
      <4>2. PICK f : f = sent[i]
        OBVIOUS
      <4>3. f.of = d /\ f.prop = q /\ f.is = value[d][q]
        BY <4>1, <4>2, NewFrameFields
      <4>4. d = e /\ q = p
        BY <3>4, <4>2, <4>3 DEF IsValue
      <4>5. IsGet(Head(commands), e, p)
        BY <1>3, <2>2, <2>5, <4>4 DEF IsGet
      <4>6. Rests(e, p, w) = value[e][p]
        BY <2>2, <4>4 DEF Rests
      <4> QED  BY <4>2, <4>3, <4>4, <4>5, <4>6
    <3>5. \A i \in 1..Len(frames) : IsValue(frames[i], e, p) => frames[i].is = w
      BY <3>2, <3>3 DEF Stands
    <3>6. ASSUME \A i \in 1..Len(sent) : IsValue(sent[i], e, p) => sent[i].is = w
          PROVE  \A i \in 1..Len(frames') : IsValue(frames'[i], e, p) => frames'[i].is = w
      BY <2>1, <3>5, <3>6, FramesOfConcat DEF Fine
    <3>7. ~IsGet(Head(commands), e, p) \/ Rests(e, p, w) = w
            => \A i \in 1..Len(frames') : IsValue(frames'[i], e, p) => frames'[i].is = w
      BY <3>4, <3>6
    <3>8. ~IsSet(Head(commands), e, p)
      BY <1>3, <2>5 DEF IsSet
    <3> QED  BY <1>2, <2>3, <3>1, <3>2, <3>3, <3>7, <3>8
  <2> QED  BY <2>4, <2>6 DEF StandsOK
<1>4. ASSUME NEW d \in Elements, NEW q \in Props, NEW v \in Values, NEW by \in {"user", "widget"},
             Head(commands) = Set(d, q, v, by), SetProperty(d, q, v)
      PROVE  StandsOK'
  <2>1. /\ UNCHANGED <<frames, crossed, wanted>>
        /\ value' = IF d \in exists THEN [value EXCEPT ![d][q] = v] ELSE value
    BY <1>4 DEF SetProperty, Found
  <2>2. PICK c : /\ c = Head(commands)
                 /\ c.op = "set" /\ c.of = d /\ c.prop = q /\ c.to = v
    BY <1>4, NewCommandFields
  <2>3. value \in [Elements -> [Props -> Values]]
    BY DEF Fine, TypeOK
  <2>4. ASSUME NEW e \in Elements, NEW p \in Props, Kept(e, p)' PROVE Stands(e, p)'
    <3>1. Stands(e, p)
      BY <2>1, <2>4 DEF Kept, StandsOK
    <3>2. \A i \in 1..Len(frames') : IsValue(frames'[i], e, p) => frames'[i].is = wanted[e][p]
      BY <2>1, <3>1 DEF Stands
    <3>3. IsSet(c, e, p) <=> d = e /\ q = p
      BY <2>2 DEF IsSet
    <3>4. d = e /\ q = p /\ e \in exists => value'[e][p] = v
      BY <2>1, <2>3
    <3>5. d # e \/ q # p => value'[e][p] = value[e][p]
      BY <2>1, <2>3
    <3> QED  BY <1>2, <2>1, <2>2, <3>1, <3>2, <3>3, <3>4, <3>5
  <2> QED  BY <2>1, <2>4 DEF StandsOK
<1>5. ASSUME NEW f \in Frame, f.what # "value", frames' = Append(frames, f),
             UNCHANGED <<value, crossed, wanted>>, Head(commands).op \notin {"get", "set"}
      PROVE  StandsOK'
  <2>1. ASSUME NEW e \in Elements, NEW p \in Props, Kept(e, p)' PROVE Stands(e, p)'
    <3>1. Stands(e, p)
      BY <1>5, <2>1 DEF Kept, StandsOK
    <3>2. PICK w : w = wanted[e][p]
      OBVIOUS
    <3>3. \A i \in 1..Len(frames) : IsValue(frames[i], e, p) => frames[i].is = w
      BY <3>1, <3>2 DEF Stands
    <3>4. \A i \in 1..Len(frames') : IsValue(frames'[i], e, p) => frames'[i].is = w
      BY <1>5, <3>3, FramesOfAppend DEF Fine
    <3>5. ~IsSet(Head(commands), e, p)
      BY <1>5 DEF IsSet
    <3> QED  BY <1>2, <1>5, <3>1, <3>2, <3>4, <3>5
  <2> QED  BY <1>5, <2>1 DEF StandsOK
<1>6. ASSUME NEW x \in Pads, Head(commands) = AskPad(x), SendPadDynamicInfo(x) PROVE StandsOK'
  <2>1. caps[x] \in Caps /\ frames' = Append(frames, CapsOf(x, caps[x]))
        /\ UNCHANGED <<value, crossed, wanted>>
    BY <1>6 DEF SendPadDynamicInfo, CapsOf, Fine, TypeOK
  <2>2. AskPad(x).op = "pad"
    BY NewCommandFields
  <2> QED  BY <1>5, <1>6, <2>1, <2>2, NewFrames, NewFrameFields
<1>7. CASE Head(commands) = AskKlass /\ SendKlass
  <2>1. frames' = Append(frames, TheKlass) /\ UNCHANGED <<value, crossed, wanted>>
    BY <1>7 DEF SendKlass, TheKlass
  <2>2. AskKlass.op = "klass"
    BY NewCommandFields
  <2> QED  BY <1>5, <1>7, <2>1, <2>2, NewFrames, NewFrameFields
<1> QED  BY <1>1, <1>3, <1>4, <1>6, <1>7 DEF Serves

\* What the application changes is not kept any more.
LEMMA ApplicationStands ==
  ASSUME Fine, StandsOK, Application
  PROVE  StandsOK'
<1>1. UNCHANGED <<mirror, model, commands, crossed>>
  BY ApplicationDoes DEF Fine, ApplicationOnly
<1>2. ASSUME NEW e \in Elements, NEW p \in Props, Kept(e, p)', wanted'[e][p] = wanted[e][p],
             UNCHANGED frames \/ \E f \in Frame : f.what # "value" /\ frames' = Append(frames, f),
             e \in exists' => e \in exists /\ value'[e][p] = value[e][p]
      PROVE  Stands(e, p)'
  <2>1. Stands(e, p)
    BY <1>1, <1>2 DEF Kept, StandsOK
  <2>2. PICK w : w = wanted[e][p]
    OBVIOUS
  <2>3. \A i \in 1..Len(frames) : IsValue(frames[i], e, p) => frames[i].is = w
    BY <2>1, <2>2 DEF Stands
  <2>4. \A i \in 1..Len(frames') : IsValue(frames'[i], e, p) => frames'[i].is = w
    <3>1. CASE UNCHANGED frames
      BY <2>3, <3>1
    <3>2. CASE \E f \in Frame : f.what # "value" /\ frames' = Append(frames, f)
      BY <2>3, <3>2, FramesOfAppend DEF Fine
    <3> QED  BY <1>2, <3>1, <3>2
  <2>5. model'[Now(e)'][p] \in {w, "none", "null"}
    BY <1>1, <2>1, <2>2 DEF Stands, Now
  <2> QED  BY <1>1, <1>2, <2>1, <2>2, <2>4, <2>5, StandsKept DEF Fine
<1>3. /\ value \in [Elements -> [Props -> Values]] /\ exists \subseteq Elements
      /\ wanted \in [Elements -> [Props -> Values \cup {"none"}]]
  BY DEF Fine, TypeOK, StandsOK
<1>4. ASSUME NEW d \in exists, NEW q \in Props, NEW v, UNCHANGED <<exists, frames>>,
             value' = [value EXCEPT ![d][q] = v], wanted' = [wanted EXCEPT ![d][q] = "none"]
      PROVE  StandsOK'
  <2>1. wanted' \in [Elements -> [Props -> Values \cup {"none"}]]
    BY <1>3, <1>4
  <2>2. ASSUME NEW e \in Elements, NEW p \in Props, Kept(e, p)' PROVE Stands(e, p)'
    <3>1. e # d \/ p # q
      BY <1>3, <1>4, <2>2 DEF Kept
    <3>2. value'[e][p] = value[e][p] /\ wanted'[e][p] = wanted[e][p]
      BY <1>3, <1>4, <3>1
    <3> QED  BY <1>2, <1>4, <2>2, <3>2
  <2> QED  BY <2>1, <2>2 DEF StandsOK
<1>5. CASE UNCHANGED <<exists, value, frames, wanted>>
  <2>1. ASSUME NEW e \in Elements, NEW p \in Props, Kept(e, p)' PROVE Stands(e, p)'
    BY <1>2, <1>5, <2>1
  <2> QED  BY <1>3, <1>5, <2>1 DEF StandsOK
<1>6. ASSUME NEW d \in exists, exists' = exists \ {d}, frames' = Append(frames, Removed(d)),
             UNCHANGED <<value, wanted>>
      PROVE  StandsOK'
  <2>1. Removed(d) \in Frame /\ Removed(d).what # "value"
    BY <1>3, NewFrames, NewFrameFields
  <2>2. ASSUME NEW e \in Elements, NEW p \in Props, Kept(e, p)' PROVE Stands(e, p)'
    BY <1>2, <1>6, <2>1, <2>2
  <2> QED  BY <1>3, <1>6, <2>2 DEF StandsOK
<1>7. ASSUME NEW d \in Elements \ exists, exists' = exists \cup {d}, frames' = Append(frames, Added(d)),
             value' = [value EXCEPT ![d] = [p \in Props |-> "off"]],
             wanted' = [wanted EXCEPT ![d] = [p \in Props |-> "none"]]
      PROVE  StandsOK'
  <2>1. Added(d) \in Frame /\ Added(d).what # "value"
    BY <1>3, NewFrames, NewFrameFields
  <2>2. wanted' \in [Elements -> [Props -> Values \cup {"none"}]]
    BY <1>3, <1>7
  <2>3. ASSUME NEW e \in Elements, NEW p \in Props, Kept(e, p)' PROVE Stands(e, p)'
    <3>1. e # d
      BY <1>3, <1>7, <2>3 DEF Kept
    <3>2. value'[e] = value[e] /\ wanted'[e] = wanted[e]
      BY <1>3, <1>7, <3>1
    <3> QED  BY <1>2, <1>7, <2>1, <2>3, <3>1, <3>2
  <2> QED  BY <2>2, <2>3 DEF StandsOK
<1>8. TypeOK
  BY DEF Fine
<1> QED  BY <1>4, <1>5, <1>6, <1>7, <1>8, ApplicationDoes

LEMMA StandsStep == Fine /\ StandsOK /\ [Next]_vars => StandsOK'
<1> SUFFICES ASSUME Fine, StandsOK, [Next]_vars PROVE StandsOK'
  OBVIOUS
<1>1. CASE UNCHANGED vars
  BY <1>1 DEF vars, pipelineVars, modelVars, guiVars, wires, history,
     StandsOK, Kept, Stands, UnderWay, Rests, Now
<1>2. CASE Next
  BY <1>2, EditStands, DispatchStands, RequestStands, ReaderStands, ServerStands, ApplicationStands
  DEF Next, User
<1> QED  BY <1>1, <1>2

\* Edits: what the user set stays, unless the application changed it or it
\* crossed an answer, although check buttons send values on their own.
THEOREM EditsStay == Spec => []EditsStand
<1>1. Init => StandsOK
  <2> SUFFICES ASSUME Init PROVE StandsOK
    OBVIOUS
  <2>1. wanted = [e \in Elements |-> [p \in Props |-> "none"]]
    BY DEF Init
  <2> QED  BY <2>1 DEF StandsOK, Kept
<1>2. Fine /\ StandsOK => EditsStand
  <2> SUFFICES ASSUME Fine, StandsOK, Quiet, NEW e \in exists, NEW p \in Props, Kept(e, p)
               PROVE  value[e][p] = wanted[e][p]
    BY DEF EditsStand, Kept
  <2>1. e \in Elements /\ Stands(e, p)
    BY DEF Fine, TypeOK, StandsOK
  <2>2. PICK w : w = wanted[e][p]
    OBVIOUS
  <2>3. Len(commands) = 0
    BY DEF Quiet
  <2>4. PICK k \in 0..0 : k = 0 => Rests(e, p, w) = w
    BY <2>1, <2>2, <2>3 DEF Stands, UnderWay
  <2> QED  BY <2>2, <2>4 DEF Rests
<1> QED  BY <1>1, <1>2, FineInit, FineStep, StandsStep, PTL DEF Spec

-----------------------------------------------------------------------------
\* The rows are those of the selected element.

\* An element that is there is in the model, or a frame that brings it is under
\* way behind whatever takes it out; nobody selects an element of the future.
MirrorOK ==
  /\ \A e \in exists : /\ Covered(frames, {Removed(e)}, {Added(e)})
                       /\ Has(frames, {Added(e)}) \/ mirror[e].shown
  /\ selected.of \in Elements => selected.no <= mirror[selected.of].no

LEMMA AddedIsNotRemoved ==
  /\ \A e : \A x \in {Removed(e)} : x \notin {Added(e)}
  /\ \A d, e : Added(d) # Removed(e) /\ (Added(d) = Added(e) => d = e) /\ (Removed(d) = Removed(e) => d = e)
<1>1. \A d : Added(d).what = "added" /\ Added(d).of = d /\ Removed(d).what = "removed" /\ Removed(d).of = d
  BY NewFrameFields
<1> QED  BY <1>1

\* What is sent, and of which change of the pipeline it tells.
LEMMA FramesStep ==
  ASSUME TypeOK, Next
  PROVE  \/ UNCHANGED <<frames, exists, mirror>>
         \/ ProcessFrame
         \/ /\ UNCHANGED <<exists, mirror>>
            /\ \E sent \in Seq(Frame) : /\ frames' = frames \o sent
                                        /\ \A i \in 1..Len(sent) : sent[i].what \notin {"added", "removed"}
         \/ UNCHANGED mirror /\ \E e \in exists : frames' = Append(frames, Removed(e)) /\ exists' = exists \ {e}
         \/ UNCHANGED mirror /\ \E e \in Elements \ exists :
                                  frames' = Append(frames, Added(e)) /\ exists' = exists \cup {e}
<1>1. CASE User \/ Dispatch \/ RequestKlass
  BY <1>1 DEF User, SetSelectedObject, Refresh, Edit, Dispatch, RequestKlass, pipelineVars, modelVars
<1>2. CASE Serve
  <2>1. UNCHANGED <<exists, mirror>> /\ Serves(Head(commands))
    BY <1>2, ServerDoes
  <2>2. ASSUME NEW f \in Frame, f.what \notin {"added", "removed"}, frames' = Append(frames, f)
        PROVE  \E sent \in Seq(Frame) : /\ frames' = frames \o sent
                                        /\ \A i \in 1..Len(sent) : sent[i].what \notin {"added", "removed"}
    BY <2>2, OneFrame
  <2>3. ASSUME NEW e \in Elements, NEW prop \in Asks, ProcessPropertyRequest(e, prop)
        PROVE  \E sent \in Seq(Frame) : /\ frames' = frames \o sent
                                        /\ \A i \in 1..Len(sent) : sent[i].what \notin {"added", "removed"}
    <3>1. PICK sent \in Seq(Frame) : frames' = frames \o sent /\ Answers(sent, e, AskedFor(e, prop))
      BY <2>3, AnswerDoes
    <3>2. \A i \in 1..Len(sent) : sent[i].what = "value"
      BY <3>1, NewFrameFields DEF Answers
    <3> QED  BY <3>1, <3>2
  <2>4. ASSUME NEW e \in Elements, NEW p \in Props, NEW v \in Values, SetProperty(e, p, v) PROVE UNCHANGED frames
    BY <2>4 DEF SetProperty
  <2>5. ASSUME NEW x \in Pads, SendPadDynamicInfo(x)
        PROVE  \E f \in Frame : f.what \notin {"added", "removed"} /\ frames' = Append(frames, f)
    <3>1. frames' = Append(frames, CapsOf(x, caps[x])) /\ caps[x] \in Caps
      BY <2>5 DEF SendPadDynamicInfo, CapsOf, TypeOK
    <3> QED  BY <3>1, NewFrames, NewFrameFields
  <2>6. ASSUME SendKlass PROVE \E f \in Frame : f.what \notin {"added", "removed"} /\ frames' = Append(frames, f)
    <3>1. frames' = Append(frames, TheKlass)
      BY <2>6 DEF SendKlass, TheKlass
    <3> QED  BY <3>1, NewFrames, NewFrameFields
  <2> QED  BY <2>1, <2>2, <2>3, <2>4, <2>5, <2>6 DEF Serves
<1>3. CASE Application
  BY <1>3, ApplicationDoes DEF ApplicationOnly
<1> QED  BY <1>1, <1>2, <1>3 DEF Next

LEMMA ReaderMirrors ==
  ASSUME TypeOK, ProcessFrame, NEW e \in Elements
  PROVE  /\ frames # <<>> /\ frames' = Tail(frames) /\ UNCHANGED <<exists, selected>>
         /\ IF Head(frames) = Added(e) THEN mirror'[e] = [no |-> mirror[e].no + 1, shown |-> TRUE]
            ELSE IF Head(frames) = Removed(e) THEN mirror'[e] = [no |-> mirror[e].no, shown |-> FALSE]
            ELSE mirror'[e] = mirror[e]
<1>1. /\ frames # <<>> /\ frames' = Tail(frames) /\ UNCHANGED <<exists, selected>>
      /\ \/ \E d \in Elements, p \in Props, v \in Values : ReadsValue(d, p, v)
         \/ \E x \in Pads, c \in Caps : ReadsPad(x, c)
         \/ \E d \in Elements, shown \in BOOLEAN : ReadsElement(d, shown)
         \/ Head(frames).what = "klass" /\ UpdateKlassModel
  BY ReaderDoes
<1>2. ASSUME NEW d \in Elements, NEW shown \in BOOLEAN, ReadsElement(d, shown)
      PROVE  IF Head(frames) = Added(e) THEN mirror'[e] = [no |-> mirror[e].no + 1, shown |-> TRUE]
             ELSE IF Head(frames) = Removed(e) THEN mirror'[e] = [no |-> mirror[e].no, shown |-> FALSE]
             ELSE mirror'[e] = mirror[e]
  <2>1. /\ Head(frames) = IF shown THEN Added(d) ELSE Removed(d)
        /\ mirror' = [mirror EXCEPT ![d] = [no |-> IF shown THEN @.no + 1 ELSE @.no, shown |-> shown]]
    BY <1>2 DEF ReadsElement, ProcessElement
  <2>2. mirror \in [Elements -> [no : 0..MaxChanges, shown : BOOLEAN]]
    BY DEF TypeOK
  <2>3. mirror'[e] = IF e = d THEN [no |-> IF shown THEN mirror[e].no + 1 ELSE mirror[e].no, shown |-> shown]
                     ELSE mirror[e]
    BY <2>1, <2>2
  <2>4. CASE shown
    BY <2>1, <2>3, <2>4, AddedIsNotRemoved
  <2>5. CASE ~shown
    <3>1. Head(frames) = Removed(d) /\ shown = FALSE
      BY <2>1, <2>5
    <3> QED  BY <2>3, <3>1, AddedIsNotRemoved
  <2> QED  BY <2>4, <2>5
<1>3. CASE UNCHANGED mirror /\ Head(frames).what \notin {"added", "removed"}
  <2>1. Added(e).what = "added" /\ Removed(e).what = "removed"
    BY NewFrameFields
  <2>2. Head(frames) # Added(e) /\ Head(frames) # Removed(e) /\ mirror'[e] = mirror[e]
    BY <1>3, <2>1
  <2> QED  BY <1>1, <2>2
<1>4. (UNCHANGED mirror /\ Head(frames).what \notin {"added", "removed"})
      \/ \E d \in Elements, shown \in BOOLEAN : ReadsElement(d, shown)
  BY <1>1 DEF ReadsValue, ReadsPad, ProcessValue, UpdatePadDynamicInfo, UpdateKlassModel
<1>5. IF Head(frames) = Added(e) THEN mirror'[e] = [no |-> mirror[e].no + 1, shown |-> TRUE]
      ELSE IF Head(frames) = Removed(e) THEN mirror'[e] = [no |-> mirror[e].no, shown |-> FALSE]
      ELSE mirror'[e] = mirror[e]
  BY <1>2, <1>3, <1>4
<1> QED  BY <1>1, <1>5

LEMMA MirrorInit == Init => MirrorOK
<1> SUFFICES ASSUME Init PROVE MirrorOK
  OBVIOUS
<1>1. Len(frames) = 0 /\ selected = NoObject /\ exists = Elements /\ \A e \in Elements : mirror[e].shown
  BY DEF Init
<1>2. selected.of \notin Elements
  BY <1>1, ObjectsAssumption DEF NoObject
<1> QED  BY <1>1, <1>2 DEF MirrorOK, Has, Covered

LEMMA MirrorOKStep == Fine /\ MirrorOK /\ [Next]_vars => MirrorOK'
<1> SUFFICES ASSUME Fine, MirrorOK, [Next]_vars PROVE MirrorOK'
  OBVIOUS
<1>0. TypeOK /\ exists \subseteq Elements /\ frames \in Seq(Frame)
  BY DEF Fine, TypeOK
<1>1. CASE UNCHANGED vars
  BY <1>1 DEF vars, pipelineVars, modelVars, guiVars, wires, MirrorOK
<1>2. ASSUME Next, selected'.of \in Elements PROVE selected'.no <= mirror'[selected'.of].no
  <2>1. CASE SetSelectedObject
    <3>1. UNCHANGED mirror
      BY <2>1 DEF SetSelectedObject, modelVars
    <3>2. PICK x \in Elements \cup Pads \cup {Nothing} : selected' = ObjectOf(x)
      BY <2>1 DEF SetSelectedObject
    <3>3. x \in Elements /\ selected' = Now(x)
      BY <1>2, <3>2, ObjectsAssumption DEF ObjectOf, NoObject
    <3>4. mirror[x].no \in Nat
      BY <1>2, <3>3, MirrorStep
    <3> QED  BY <3>1, <3>3, <3>4 DEF Now
  <2>2. CASE selected' = selected
    <3>1. PICK e \in Elements : e = selected.of
      BY <1>2, <2>2
    <3>2. selected.no <= mirror[e].no
      BY <3>1 DEF MirrorOK
    <3>3. mirror[e].no \in Nat /\ mirror'[e].no \in Nat /\ mirror'[e].no >= mirror[e].no
      BY <1>2, MirrorStep
    <3>4. selected.no \in Int
      BY <1>0, <3>1, ObjectsAssumption DEF TypeOK, Object, PadModel, NoObject
    <3> QED  BY <2>2, <3>1, <3>2, <3>3, <3>4
  <2>3. selected' = selected \/ SetSelectedObject
    BY <1>0, <1>2, ReaderDoes, ServerDoes, ApplicationDoes
       DEF Next, User, Refresh, Edit, Dispatch, RequestKlass, guiVars, ApplicationOnly
  <2> QED  BY <2>1, <2>2, <2>3
<1>3. ASSUME NEW e \in exists', Next
      PROVE  Covered(frames', {Removed(e)}, {Added(e)}) /\ (Has(frames', {Added(e)}) \/ mirror'[e].shown)
  <2> DEFINE Brings == Covered(frames, {Removed(e)}, {Added(e)}) /\ (Has(frames, {Added(e)}) \/ mirror[e].shown)
  <2>1. e \in exists => Brings
    BY DEF MirrorOK
  <2> HIDE DEF Brings
  <2>2. ASSUME NEW sent \in Seq(Frame), frames' = frames \o sent, \A i \in 1..Len(sent) : sent[i] # Removed(e),
               Brings, UNCHANGED mirror
        PROVE  Covered(frames', {Removed(e)}, {Added(e)}) /\ (Has(frames', {Added(e)}) \/ mirror'[e].shown)
    <3>1. Covered(sent, {Removed(e)}, {Added(e)})
      BY <2>2 DEF Covered
    <3> QED  BY <1>0, <2>2, <3>1, CoveredConcat DEF Brings
  <2>3. CASE UNCHANGED <<frames, exists, mirror>>
    BY <2>1, <2>3 DEF Brings
  <2>4. CASE ProcessFrame
    <3>1. e \in Elements /\ e \in exists
      BY <1>0, <2>4, ReaderDoes
    <3>2. /\ frames # <<>> /\ frames' = Tail(frames)
          /\ IF Head(frames) = Added(e) THEN mirror'[e] = [no |-> mirror[e].no + 1, shown |-> TRUE]
             ELSE IF Head(frames) = Removed(e) THEN mirror'[e] = [no |-> mirror[e].no, shown |-> FALSE]
             ELSE mirror'[e] = mirror[e]
      BY <1>0, <2>4, <3>1, ReaderMirrors
    <3>3. /\ Has(frames, {Added(e)}) <=> Head(frames) = Added(e) \/ Has(frames', {Added(e)})
          /\ Covered(frames', {Removed(e)}, {Added(e)})
          /\ Head(frames) = Removed(e) => Has(frames', {Added(e)})
      BY <1>0, <2>1, <3>1, <3>2, AddedIsNotRemoved, HasTail, CoveredTail DEF Brings
    <3>4. Has(frames', {Added(e)}) \/ mirror'[e].shown
      BY <2>1, <3>1, <3>2, <3>3 DEF Brings
    <3> QED  BY <3>3, <3>4
  <2>5. CASE \E sent \in Seq(Frame) : /\ frames' = frames \o sent /\ UNCHANGED <<exists, mirror>>
                                       /\ \A i \in 1..Len(sent) : sent[i].what \notin {"added", "removed"}
    <3>1. PICK sent \in Seq(Frame) : /\ frames' = frames \o sent /\ UNCHANGED <<exists, mirror>>
                                     /\ \A i \in 1..Len(sent) : sent[i].what \notin {"added", "removed"}
      BY <2>5
    <3>2. Removed(e).what = "removed"
      BY NewFrameFields
    <3>3. \A i \in 1..Len(sent) : sent[i] # Removed(e)
      BY <3>1, <3>2
    <3> QED  BY <2>1, <2>2, <3>1, <3>3
  <2>6. ASSUME UNCHANGED mirror, NEW d \in exists, frames' = Append(frames, Removed(d)), exists' = exists \ {d}
        PROVE  Covered(frames', {Removed(e)}, {Added(e)}) /\ (Has(frames', {Added(e)}) \/ mirror'[e].shown)
    <3>1. e \in exists /\ d # e /\ Removed(d) \in Frame /\ Removed(d) \notin {Removed(e)}
      BY <1>0, <2>6, NewFrames, AddedIsNotRemoved
    <3> QED  BY <1>0, <2>1, <2>6, <3>1, CoveredAppend DEF Brings
  <2>7. ASSUME UNCHANGED mirror, NEW d \in Elements \ exists, frames' = Append(frames, Added(d)), exists' = exists \cup {d}
        PROVE  Covered(frames', {Removed(e)}, {Added(e)}) /\ (Has(frames', {Added(e)}) \/ mirror'[e].shown)
    <3>1. Added(d) \in Frame /\ Added(d) \notin {Removed(e)}
      BY <2>7, NewFrames, AddedIsNotRemoved
    <3>2. CASE e = d
      BY <1>0, <2>7, <3>1, <3>2, CoveredAppend
    <3>3. CASE e # d
      BY <1>0, <2>1, <2>7, <3>1, <3>3, CoveredAppend DEF Brings
    <3> QED  BY <3>2, <3>3
  <2> QED  BY <1>0, <1>3, <2>3, <2>4, <2>5, <2>6, <2>7, FramesStep
<1> QED  BY <1>1, <1>2, <1>3 DEF MirrorOK

\* The name of all properties together.
Whole == ""

AllOf(e) == {c \in Command : c.op = "get" /\ c.of = e /\ c.prop = Whole}
ForeignAsks(e) == {c \in Command : c.op = "get" /\ c.of # e}
FreshValues(e, p) == {f \in Frame : f.what = "value" /\ f.of = e /\ f.prop = p}
ForeignValues(e, p) == {f \in Frame : f.what = "value" /\ f.of # e /\ f.prop = p}
FreshEvents(e, p) == {v \in Event : v.what = "property" /\ v.of = e /\ v.prop = p}
ForeignEvents(e, p) == {v \in Event : v.what = "property" /\ v.of # e /\ v.prop = p}
Selects == {v \in Event : v.what = "selected"}

\* What the panel of element e has of p, or will have when the events, the
\* answers and the requests under way are through: whatever could put the value
\* of another element into the row has one of e behind it.
RowIsOf(e, p) == (p \in DOMAIN rows => rows[p].of = e) /\ (late \/ p \in DOMAIN rows)
EventsBring(e, p) ==
  /\ Covered(events, ForeignEvents(e, p), FreshEvents(e, p))
  /\ Has(events, FreshEvents(e, p)) \/ RowIsOf(e, p)
FramesBring(e, p) ==
  /\ Covered(frames, ForeignValues(e, p), FreshValues(e, p))
  /\ Has(frames, FreshValues(e, p)) \/ EventsBring(e, p)
PanelOf(e) ==
  /\ Covered(commands, ForeignAsks(e), AllOf(e))
  /\ \A p \in Props : Has(commands, AllOf(e)) \/ FramesBring(e, p)

\* The element that is selected is the one in the pipeline, for all the debugger
\* will ever know.
Live(e) == e \in exists /\ selected = Now(e) /\ ~Has(frames, {Added(e)})

Selecting == Has(events, Selects)
PanelOK == ~crashed /\ ~Selecting =>
  /\ selected.of \notin Elements => rows = <<>>
  /\ selected.of \in Elements => previous = selected.of
  /\ \A e \in Elements : selected.of = e /\ Live(e) => PanelOf(e)

LEMMA CommandsKeepPanel ==
  ASSUME TypeOK, NEW e \in Elements, PanelOf(e),
         UNCHANGED commands \/ \E c \in Command : commands' = Append(commands, c) /\ c \notin ForeignAsks(e),
         \A p \in Props : FramesBring(e, p) => FramesBring(e, p)' \/ Has(commands', AllOf(e))
  PROVE  PanelOf(e)'
<1>1. commands \in Seq(Command)
  BY DEF TypeOK
<1>2. Covered(commands', ForeignAsks(e), AllOf(e)) /\ (Has(commands, AllOf(e)) => Has(commands', AllOf(e)))
  <2>1. CASE UNCHANGED commands
    BY <2>1 DEF PanelOf
  <2>2. ASSUME NEW c \in Command, commands' = Append(commands, c), c \notin ForeignAsks(e)
        PROVE  Covered(commands', ForeignAsks(e), AllOf(e)) /\ (Has(commands, AllOf(e)) => Has(commands', AllOf(e)))
    BY <1>1, <2>2, CoveredAppend DEF PanelOf
  <2> QED  BY <2>1, <2>2
<1>3. ASSUME NEW p \in Props PROVE Has(commands', AllOf(e)) \/ FramesBring(e, p)'
  BY <1>2 DEF PanelOf
<1> QED  BY <1>2, <1>3 DEF PanelOf, AllOf, ForeignAsks

\* The user and the application.
LEMMA OthersKeepPanel ==
  ASSUME TypeOK, NEW e \in Elements, PanelOf(e), selected.of = e, previous = e,
         Refresh \/ Edit \/ RequestKlass
  PROVE  PanelOf(e)'
<1>1. UNCHANGED <<frames, events>>
  BY DEF Refresh, Edit, RequestKlass
<1>2. CASE Refresh
  <2>1. PICK p \in Asks : /\ commands' = Append(commands, Get(e, p)) /\ UNCHANGED rows
                          /\ (p # Whole /\ late => late')
    <3>1. PICK p \in {""} \cup DOMAIN rows : RequestSelectedElementProperty(p)
      BY <1>2 DEF Refresh
    <3>2. p \in Asks
      BY <3>1 DEF TypeOK, Asks
    <3>3. UNCHANGED rows
      BY <1>2 DEF Refresh
    <3> QED  BY <3>1, <3>2, <3>3 DEF RequestSelectedElementProperty, Get, Whole
  <2>2. Get(e, p) \in Command /\ Get(e, p) \notin ForeignAsks(e) /\ (p = Whole => Get(e, p) \in AllOf(e))
    BY NewCommands, NewCommandFields DEF ForeignAsks, AllOf
  <2>3. p = Whole => Has(commands', AllOf(e))
    <3>1. PICK c \in Command : c = Get(e, p)
      BY <2>2
    <3>2. commands \in Seq(Command) /\ commands' = Append(commands, c)
      BY <2>1, <3>1 DEF TypeOK
    <3>3. c \in AllOf(e) => Has(commands', AllOf(e))
      BY <3>2, CoveredAppend
    <3> QED  BY <2>2, <3>1, <3>3
  <2>5. ASSUME NEW q \in Props, FramesBring(e, q), p # Whole PROVE FramesBring(e, q)'
    <3>1. RowIsOf(e, q) => RowIsOf(e, q)'
      BY <2>1, <2>5 DEF RowIsOf
    <3> QED  BY <1>1, <2>5, <3>1 DEF FramesBring, EventsBring, ForeignEvents, FreshEvents, ForeignValues, FreshValues
  <2> QED  BY <2>1, <2>2, <2>3, <2>5, CommandsKeepPanel
<1>3. CASE Edit \/ RequestKlass
  <2>1. UNCHANGED <<rows, late>>
    BY <1>3 DEF Edit, RequestKlass, guiVars, history
  <2>2. \E c \in Command : commands' = Append(commands, c) /\ c.op # "get"
    <3>1. CASE Edit
      <4>1. PICK p \in DOMAIN rows, v \in Values : Sends(rows[p], p, v, "user", frames)
        BY <3>1 DEF Edit
      <4>2. p \in Props /\ rows[p] \in Object /\ rows[p].of \in Elements
        BY ObjectFields DEF TypeOK
      <4>3. commands' = Append(commands, Set(rows[p].of, p, v, "user"))
        BY <4>1 DEF Sends
      <4>4. Set(rows[p].of, p, v, "user") \in Command /\ Set(rows[p].of, p, v, "user").op = "set"
        BY <4>2, NewCommands, NewCommandFields
      <4> QED  BY <4>3, <4>4
    <3>2. CASE RequestKlass
      <4>1. commands' = Append(commands, AskKlass)
        BY <3>2 DEF RequestKlass, AskKlass
      <4>2. AskKlass \in Command /\ AskKlass.op = "klass"
        BY NewCommands, NewCommandFields
      <4> QED  BY <4>1, <4>2
    <3> QED  BY <1>3, <3>1, <3>2
  <2>3. ASSUME NEW q \in Props, FramesBring(e, q) PROVE FramesBring(e, q)'
    BY <1>1, <2>1, <2>3 DEF FramesBring, EventsBring, RowIsOf, ForeignEvents, FreshEvents, ForeignValues, FreshValues
  <2> QED  BY <2>2, <2>3, CommandsKeepPanel DEF ForeignAsks
<1> QED  BY <1>2, <1>3

LEMMA ApplicationKeepsPanel ==
  ASSUME TypeOK, NEW e \in Elements, PanelOf(e), Application
  PROVE  PanelOf(e)'
<1>1. UNCHANGED <<events, commands, rows, late>>
  BY ApplicationDoes DEF ApplicationOnly, Application, ChangeValue, ChangeCaps, BinRemove, BinAdd, history, guiVars, wires
<1>2. UNCHANGED frames \/ \E f \in Frame : frames' = Append(frames, f) /\ f.what # "value"
  <2>1. \A d \in Elements : /\ Added(d) \in Frame /\ Added(d).what # "value"
                            /\ Removed(d) \in Frame /\ Removed(d).what # "value"
    BY NewFrames, NewFrameFields
  <2> QED  BY <2>1, ApplicationDoes DEF TypeOK
<1>3. ASSUME NEW p \in Props, FramesBring(e, p) PROVE FramesBring(e, p)'
  <2>1. EventsBring(e, p) => EventsBring(e, p)'
    BY <1>1 DEF EventsBring, RowIsOf, ForeignEvents, FreshEvents
  <2>2. ASSUME NEW f \in Frame, frames' = Append(frames, f), f.what # "value"
        PROVE  /\ Covered(frames', ForeignValues(e, p), FreshValues(e, p))
               /\ Has(frames, FreshValues(e, p)) => Has(frames', FreshValues(e, p))
    <3>1. f \notin ForeignValues(e, p) /\ frames \in Seq(Frame)
      BY <2>2 DEF ForeignValues, TypeOK
    <3> QED  BY <1>3, <2>2, <3>1, CoveredAppend DEF FramesBring
  <2>3. UNCHANGED frames => FramesBring(e, p)'
    BY <1>3, <2>1 DEF FramesBring, ForeignValues, FreshValues
  <2> QED  BY <1>2, <1>3, <2>1, <2>2, <2>3 DEF FramesBring, ForeignValues, FreshValues
<1> QED  BY <1>1, <1>3, CommandsKeepPanel

\* A value is put into its row, or came too early for one.
LEMMA NewPropertyRows ==
  ASSUME TypeOK, NEW d \in Elements, NEW q \in Props, NewProperty(d, q), ~crashed', ~crashed,
         selected.of \in Elements
  PROVE  /\ late => late'
         /\ \A p \in Props : p # q => (p \in DOMAIN rows' <=> p \in DOMAIN rows)
                                      /\ (p \in DOMAIN rows => rows'[p] = rows[p])
         /\ mirror[d].shown => (q \in DOMAIN rows' /\ rows'[q].of = d) \/ (late' /\ q \notin DOMAIN rows')
         /\ UNCHANGED commands \/ \E c \in Command : commands' = Append(commands, c) /\ c.op # "get"
<1>1. Now(d) \in Object /\ Now(d).of = d
  BY ObjectFields
<1>2. CASE mirror[d].shown /\ model[Now(d)][q] \in Values /\ ShowRow(Now(d), q)
  <2>1. rows' = [r \in DOMAIN rows \cup {q} |-> IF r = q THEN Now(d) ELSE rows[r]] /\ UNCHANGED late
    BY <1>2 DEF ShowRow
  <2>2. Echo(Now(d), q, "off", model[Now(d)][q], frames)
    BY <1>2 DEF ShowRow
  <2>3. UNCHANGED commands \/ \E c \in Command : commands' = Append(commands, c) /\ c.op # "get"
    <3>1. PICK v \in Values : v = model[Now(d)][q]
      BY <1>2
    <3>2. Set(d, q, v, "widget") \in Command /\ Set(d, q, v, "widget").op = "set"
      BY NewCommands, NewCommandFields
    <3>3. UNCHANGED commands \/ commands' = Append(commands, Set(Now(d).of, q, v, "widget"))
      BY <1>1, <2>2, <3>1, EchoDoes
    <3> QED  BY <1>1, <3>2, <3>3
  <2> QED  BY <1>1, <2>1, <2>3
<1>3. CASE ~mirror[d].shown /\ UNCHANGED <<rows, commands, late>>
  BY <1>3
<1>4. CASE q \notin DOMAIN rows /\ late' /\ UNCHANGED <<rows, commands>>
  BY <1>4
<1> QED  BY <1>2, <1>3, <1>4 DEF NewProperty

LEMMA LiveIsShown ==
  ASSUME MirrorOK, NEW e \in Elements, Live(e)
  PROVE  mirror[e].shown
BY DEF MirrorOK, Live

LEMMA DispatchKeepsPanel ==
  ASSUME Fine, MirrorOK, NEW e \in Elements, selected.of = e, Live(e), PanelOf(e), Dispatch, ~crashed',
         NEW d \in Elements, NEW q \in Props, Head(events).what = "property",
         Head(events).of = d, Head(events).prop = q, NewProperty(d, q)
  PROVE  PanelOf(e)'
<1>0. TypeOK /\ ~crashed /\ events # <<>> /\ events' = Tail(events) /\ UNCHANGED frames
  BY DEF Fine, Dispatch
<1>1. /\ late => late'
      /\ \A p \in Props : p # q => (p \in DOMAIN rows' <=> p \in DOMAIN rows)
                                   /\ (p \in DOMAIN rows => rows'[p] = rows[p])
      /\ mirror[d].shown => (q \in DOMAIN rows' /\ rows'[q].of = d) \/ (late' /\ q \notin DOMAIN rows')
      /\ UNCHANGED commands \/ \E c \in Command : commands' = Append(commands, c) /\ c.op # "get"
  BY <1>0, NewPropertyRows
<1>2. events \in Seq(Event) /\ Head(events) \in Event
  BY <1>0, HeadTailProperties DEF TypeOK
<1>3. ASSUME NEW p \in Props, EventsBring(e, p) PROVE EventsBring(e, p)'
  <2> DEFINE W == ForeignEvents(e, p)
             G == FreshEvents(e, p)
  <2>1. \A x \in W : x \notin G
    BY DEF ForeignEvents, FreshEvents
  <2>2. /\ Has(events, G) <=> Head(events) \in G \/ Has(events', G)
        /\ Covered(events', W, G) /\ (Head(events) \in W => Has(events', G))
    <3> HIDE DEF W, G
    <3>1. Covered(events, W, G)
      BY <1>3 DEF EventsBring, W, G
    <3> QED  BY <1>0, <1>2, <2>1, <3>1, HasTail, CoveredTail
  <2>3. Has(events', G) \/ RowIsOf(e, p)'
    <3>1. CASE p # q
      <4>1. Head(events) \notin G
        BY <3>1 DEF FreshEvents
      <4>2. RowIsOf(e, p) => RowIsOf(e, p)'
        BY <1>1, <3>1 DEF RowIsOf
      <4> QED  BY <1>3, <2>2, <4>1, <4>2 DEF EventsBring
    <3>2. CASE p = q /\ d = e
      BY <1>1, <3>2, LiveIsShown DEF RowIsOf
    <3>3. CASE p = q /\ d # e
      <4>1. Head(events) \in W
        BY <1>2, <3>3 DEF ForeignEvents
      <4> QED  BY <2>2, <4>1
    <3> QED  BY <3>1, <3>2, <3>3
  <2> QED  BY <2>2, <2>3 DEF EventsBring, ForeignEvents, FreshEvents
<1>4. ASSUME NEW p \in Props, FramesBring(e, p) PROVE FramesBring(e, p)'
  BY <1>0, <1>3, <1>4 DEF FramesBring, ForeignValues, FreshValues
<1> QED  BY <1>0, <1>1, <1>4, CommandsKeepPanel DEF ForeignAsks

\* The handler of a selection begins anew.
LEMMA SelectionKeepsPanel ==
  ASSUME Fine, NEW e \in Elements, selected.of = e, SelectedObjectChanged
  PROVE  PanelOf(e)' /\ previous' = e /\ rows' = <<>>
<1>1. PICK all \in Asks : all = Whole /\ commands' = Append(commands, Get(e, all)) /\ previous' = e /\ rows' = <<>>
  BY DEF SelectedObjectChanged, RequestSelectedElementProperty, Whole, Get, Asks
<1>2. PICK c \in Command : c = Get(e, all) /\ c \in AllOf(e)
  BY <1>1, NewCommands, NewCommandFields DEF AllOf
<1>3. Has(commands', AllOf(e)) /\ Covered(commands', ForeignAsks(e), AllOf(e))
  <2>1. commands \in Seq(Command) /\ commands' = Append(commands, c)
    BY <1>1, <1>2 DEF Fine, TypeOK
  <2> QED  BY <1>2, <2>1, CoveredAppend
<1> QED  BY <1>1, <1>3 DEF PanelOf, AllOf, ForeignAsks

LEMMA ReaderKeepsPanel ==
  ASSUME Fine, NEW e \in Elements, selected.of = e, PanelOf(e), ProcessFrame, ~Selecting'
  PROVE  PanelOf(e)'
<1>0. /\ TypeOK /\ frames # <<>> /\ Head(frames) \in Frame /\ frames' = Tail(frames)
      /\ UNCHANGED <<rows, late>> /\ frames \in Seq(Frame) /\ events \in Seq(Event)
  BY ReaderDoes DEF Fine, TypeOK
<1>1. ASSUME NEW p \in Props, FramesBring(e, p)
      PROVE  LET W == ForeignValues(e, p)  G == FreshValues(e, p)
             IN /\ Has(frames, G) <=> Head(frames) \in G \/ Has(frames', G)
                /\ Covered(frames', W, G) /\ (Head(frames) \in W => Has(frames', G))
  <2> DEFINE W == ForeignValues(e, p)
             G == FreshValues(e, p)
  <2>1. \A x \in W : x \notin G
    BY DEF ForeignValues, FreshValues
  <2>2. Covered(frames, W, G)
    BY <1>1 DEF FramesBring
  <2> HIDE DEF W, G
  <2>3. /\ Has(frames, G) <=> Head(frames) \in G \/ Has(frames', G)
        /\ Covered(frames', W, G) /\ (Head(frames) \in W => Has(frames', G))
    BY <1>0, <2>1, <2>2, HasTail, CoveredTail
  <2> QED  BY <2>3 DEF W, G
<1>2. CASE UNCHANGED <<events, commands>> /\ Head(frames).what # "value"
  <2>1. ASSUME NEW p \in Props, FramesBring(e, p) PROVE FramesBring(e, p)'
    <3>1. Head(frames) \notin FreshValues(e, p)
      BY <1>2 DEF FreshValues
    <3>2. EventsBring(e, p) => EventsBring(e, p)'
      BY <1>0, <1>2 DEF EventsBring, RowIsOf, ForeignEvents, FreshEvents
    <3> QED  BY <1>1, <2>1, <3>1, <3>2 DEF FramesBring, ForeignValues, FreshValues
  <2> QED  BY <1>0, <1>2, <2>1, CommandsKeepPanel
<1>3. ASSUME NEW d \in Elements, NEW q \in Props, NEW v \in Values, ReadsValue(d, q, v) PROVE PanelOf(e)'
  <2>1. PICK new \in Event : /\ events' = Append(events, new) /\ new.what = "property"
                             /\ new.of = d /\ new.prop = q
    <3>1. events' = Append(events, PropertyOf(d, q))
      BY <1>3 DEF ReadsValue, ProcessValue, PropertyOf
    <3> QED  BY <3>1, NewEvents
  <2>2. Head(frames).what = "value" /\ Head(frames).of = d /\ Head(frames).prop = q
    BY <1>3 DEF ReadsValue
  <2>3. ASSUME NEW p \in Props, FramesBring(e, p) PROVE FramesBring(e, p)'
    <3> DEFINE W == ForeignEvents(e, p)
               G == FreshEvents(e, p)
    <3>1. /\ Has(events', G) <=> Has(events, G) \/ new \in G
          /\ Covered(events, W, G) /\ new \notin W => Covered(events', W, G)
          /\ new \in G => Covered(events', W, G)
      <4> HIDE DEF W, G
      <4> QED  BY <1>0, <2>1, CoveredAppend
    <3>2. RowIsOf(e, p) => RowIsOf(e, p)'
      BY <1>0 DEF RowIsOf
    <3>3. CASE p # q
      <4>1. Head(frames) \notin FreshValues(e, p) /\ new \notin W
        BY <2>1, <2>2, <3>3 DEF FreshValues, ForeignEvents
      <4>2. EventsBring(e, p) => EventsBring(e, p)'
        BY <3>1, <3>2, <4>1 DEF EventsBring, ForeignEvents, FreshEvents
      <4> QED  BY <1>1, <2>3, <4>1, <4>2 DEF FramesBring, ForeignValues, FreshValues
    <3>4. CASE p = q /\ d = e
      <4>1. new \in G
        BY <2>1, <3>4 DEF FreshEvents
      <4>2. EventsBring(e, p)'
        BY <3>1, <4>1 DEF EventsBring, ForeignEvents, FreshEvents
      <4> QED  BY <1>1, <2>3, <4>2 DEF FramesBring, ForeignValues, FreshValues
    <3>5. CASE p = q /\ d # e
      <4>1. Head(frames) \in ForeignValues(e, p)
        BY <1>0, <2>2, <3>5 DEF ForeignValues
      <4> QED  BY <1>1, <2>3, <4>1 DEF FramesBring, ForeignValues, FreshValues
    <3> QED  BY <3>3, <3>4, <3>5
  <2>4. UNCHANGED commands \/ \E c \in Command : commands' = Append(commands, c) /\ c \notin ForeignAsks(e)
    <3>1. Now(d) \in Object /\ Now(d).of = d
      BY <1>0, ObjectFields
    <3>2. CASE Echo(Now(d), q, model[Now(d)][q], v, Tail(frames))
      <4>1. UNCHANGED commands \/ commands' = Append(commands, Set(d, q, v, "widget"))
        BY <1>0, <3>1, <3>2, EchoDoes
      <4>2. Set(d, q, v, "widget") \in Command /\ Set(d, q, v, "widget").op = "set"
        BY NewCommands, NewCommandFields
      <4> QED  BY <4>1, <4>2 DEF ForeignAsks
    <3>3. UNCHANGED commands \/ AddProperty(Now(d), q, v)
      BY <1>3 DEF ReadsValue, ProcessValue
    <3> QED  BY <1>0, <3>1, <3>2, <3>3, AddPropertyDoes
  <2> QED  BY <1>0, <2>3, <2>4, CommandsKeepPanel
<1>4. ~(\E x \in Pads, c \in Caps : ReadsPad(x, c) /\ selected.of = x)
  <2>1. SUFFICES ASSUME events' = Append(events, Select) PROVE FALSE
    BY DEF ReadsPad, UpdatePadDynamicInfo, Select
  <2>2. PICK new \in Event : new = Select /\ new \in Selects
    BY NewEvents DEF Selects
  <2>3. Has(events', Selects)
    BY <1>0, <2>1, <2>2, CoveredAppend
  <2> QED  BY <2>3 DEF Selecting, Selects
<1>5. \/ UNCHANGED <<events, commands>> /\ Head(frames).what # "value"
      \/ \E d \in Elements, p \in Props, v \in Values : ReadsValue(d, p, v)
  <2>1. \/ \E d \in Elements, p \in Props, v \in Values : ReadsValue(d, p, v)
        \/ \E x \in Pads, c \in Caps : ReadsPad(x, c)
        \/ \E d \in Elements, shown \in BOOLEAN : ReadsElement(d, shown)
        \/ Head(frames).what = "klass" /\ UpdateKlassModel
    BY <1>0, ReaderDoes
  <2>2. ASSUME NEW x \in Pads, NEW c \in Caps, ReadsPad(x, c)
        PROVE  UNCHANGED <<events, commands>> /\ Head(frames).what # "value"
    BY <1>4, <2>2 DEF ReadsPad, UpdatePadDynamicInfo
  <2>3. ASSUME NEW d \in Elements, NEW shown \in BOOLEAN, ReadsElement(d, shown)
        PROVE  UNCHANGED <<events, commands>> /\ Head(frames).what # "value"
    <3>1. Added(d).what # "value" /\ Removed(d).what # "value"
      BY NewFrameFields
    <3> QED  BY <2>3, <3>1 DEF ReadsElement, ProcessElement
  <2> QED  BY <2>1, <2>2, <2>3 DEF UpdateKlassModel
<1> QED  BY <1>2, <1>3, <1>5

LEMMA ServerKeepsPanel ==
  ASSUME Fine, NEW e \in Elements, e \in exists, PanelOf(e), Serve
  PROVE  PanelOf(e)'
<1>0. /\ TypeOK /\ commands # <<>> /\ Head(commands) \in Command /\ commands' = Tail(commands)
      /\ UNCHANGED <<rows, events>> /\ Serves(Head(commands))
      /\ frames \in Seq(Frame) /\ commands \in Seq(Command)
  BY ServerDoes DEF Fine, TypeOK
<1>1. UNCHANGED late
  BY DEF Serve, ProcessPropertyRequest, SetProperty, SendPadDynamicInfo, SendKlass
<1>2. /\ Has(commands, AllOf(e)) <=> Head(commands) \in AllOf(e) \/ Has(commands', AllOf(e))
      /\ Covered(commands', ForeignAsks(e), AllOf(e))
      /\ Head(commands) \in ForeignAsks(e) => Has(commands', AllOf(e))
  <2>1. \A x \in ForeignAsks(e) : x \notin AllOf(e)
    BY DEF ForeignAsks, AllOf
  <2>2. Covered(commands, ForeignAsks(e), AllOf(e))
    BY DEF PanelOf
  <2> QED  BY <1>0, <2>1, <2>2, HasTail, CoveredTail
<1>3. ASSUME NEW p \in Props PROVE EventsBring(e, p) => EventsBring(e, p)'
  BY <1>0, <1>1 DEF EventsBring, RowIsOf, ForeignEvents, FreshEvents
<1>4. ASSUME NEW p \in Props, NEW sent \in Seq(Frame), frames' = frames \o sent,
             \A i \in 1..Len(sent) : sent[i] \notin ForeignValues(e, p)
      PROVE  /\ FramesBring(e, p) => FramesBring(e, p)'
             /\ Covered(frames', ForeignValues(e, p), FreshValues(e, p)) \/ ~FramesBring(e, p)
  <2>1. Covered(sent, ForeignValues(e, p), FreshValues(e, p))
    BY <1>4 DEF Covered
  <2>2. /\ Has(frames', FreshValues(e, p)) <=> Has(frames, FreshValues(e, p)) \/ Has(sent, FreshValues(e, p))
        /\ Covered(frames, ForeignValues(e, p), FreshValues(e, p)) =>
             Covered(frames', ForeignValues(e, p), FreshValues(e, p))
    BY <1>0, <1>4, <2>1, CoveredConcat
  <2> QED  BY <1>3, <2>2 DEF FramesBring, ForeignValues, FreshValues
<1>5. ASSUME Head(commands) \notin AllOf(e),
             \A p \in Props : FramesBring(e, p) => FramesBring(e, p)'
      PROVE  PanelOf(e)'
  BY <1>2, <1>5 DEF PanelOf, AllOf, ForeignAsks
<1>6. ASSUME NEW d \in Elements, NEW all \in Asks, Head(commands) = Get(d, all),
             ProcessPropertyRequest(d, all)
      PROVE  PanelOf(e)'
  <2>1. Head(commands).op = "get" /\ Head(commands).of = d /\ Head(commands).prop = all
    BY <1>6, NewCommandFields
  <2>2. CASE d # e
    <3>1. Has(commands', AllOf(e))
      BY <1>0, <1>2, <2>1, <2>2 DEF ForeignAsks
    <3> QED  BY <1>2, <3>1 DEF PanelOf, AllOf, ForeignAsks
  <2>3. CASE d = e
    <3>1. PICK sent \in Seq(Frame) : frames' = frames \o sent /\ Answers(sent, e, AskedFor(e, all))
      BY <1>0, <1>6, <2>3, AnswerDoes
    <3>2. \A i \in 1..Len(sent) : sent[i].what = "value" /\ sent[i].of = e
      BY <3>1, NewFrameFields DEF Answers
    <3>3. \A p \in Props : \A i \in 1..Len(sent) : sent[i] \notin ForeignValues(e, p)
      BY <3>2 DEF ForeignValues
    <3>4. CASE all # Whole
      <4>1. Head(commands) \notin AllOf(e)
        BY <2>1, <3>4 DEF AllOf
      <4> QED  BY <1>4, <1>5, <3>1, <3>3, <4>1
    <3>5. CASE all = Whole
      <4>1. AskedFor(e, all) = Props
        BY <3>5 DEF AskedFor, Found, Whole
      <4>2. ASSUME NEW p \in Props PROVE Has(sent, FreshValues(e, p))
        <5>1. PICK i \in 1..Len(sent) : sent[i] = ValueOf(e, p, value[e][p])
          BY <3>1, <4>1 DEF Answers
        <5>2. sent[i].what = "value" /\ sent[i].of = e /\ sent[i].prop = p /\ sent[i] \in Frame
          BY <5>1, NewFrameFields, ElementOfSeq
        <5> QED  BY <5>2 DEF Has, FreshValues
      <4>3. ASSUME NEW p \in Props PROVE FramesBring(e, p)' \/ Has(commands', AllOf(e))
        <5> DEFINE W == ForeignValues(e, p)
                   G == FreshValues(e, p)
        <5>1. Has(sent, G) /\ Covered(sent, W, G)
          BY <3>3, <4>2 DEF Covered
        <5>2. Has(frames', G) /\ Covered(frames', W, G)
          <6> HIDE DEF W, G
          <6> QED  BY <1>0, <3>1, <5>1, CoveredConcat
        <5> QED  BY <5>2 DEF FramesBring, ForeignValues, FreshValues
      <4> QED  BY <1>2, <4>3 DEF PanelOf, AllOf, ForeignAsks
    <3> QED  BY <3>4, <3>5
  <2> QED  BY <2>2, <2>3
<1>7. ASSUME Head(commands).op # "get", NEW sent \in Seq(Frame), frames' = frames \o sent,
             \A i \in 1..Len(sent) : sent[i].what # "value"
      PROVE  PanelOf(e)'
  <2>1. Head(commands) \notin AllOf(e) /\ \A p \in Props : \A i \in 1..Len(sent) : sent[i] \notin ForeignValues(e, p)
    BY <1>7 DEF AllOf, ForeignValues
  <2> QED  BY <1>4, <1>5, <1>7, <2>1
<1>8. ASSUME NEW f \in Frame, f.what # "value", frames' = Append(frames, f), Head(commands).op # "get"
      PROVE  PanelOf(e)'
  BY <1>0, <1>7, <1>8, OneFrame
<1>9. ASSUME NEW d \in Elements, NEW p \in Props, NEW v \in Values, NEW by \in {"user", "widget"},
             Head(commands) = Set(d, p, v, by), SetProperty(d, p, v)
      PROVE  PanelOf(e)'
  <2>1. Head(commands) \notin AllOf(e) /\ UNCHANGED frames
    BY <1>9, NewCommandFields DEF AllOf, SetProperty
  <2>2. \A q \in Props : FramesBring(e, q) => FramesBring(e, q)'
    BY <1>3, <2>1 DEF FramesBring, ForeignValues, FreshValues
  <2> QED  BY <1>5, <2>1, <2>2
<1>10. ASSUME NEW x \in Pads, Head(commands) = AskPad(x), SendPadDynamicInfo(x) PROVE PanelOf(e)'
  <2>1. frames' = Append(frames, CapsOf(x, caps[x])) /\ caps[x] \in Caps
    BY <1>0, <1>10 DEF SendPadDynamicInfo, CapsOf, TypeOK
  <2> QED  BY <1>8, <1>10, <2>1, NewFrames, NewFrameFields, NewCommandFields
<1>11. ASSUME Head(commands) = AskKlass, SendKlass PROVE PanelOf(e)'
  <2>1. frames' = Append(frames, TheKlass)
    BY <1>11 DEF SendKlass, TheKlass
  <2> QED  BY <1>8, <1>11, <2>1, NewFrames, NewFrameFields, NewCommandFields
<1> QED  BY <1>0, <1>6, <1>9, <1>10, <1>11 DEF Serves

\* A selection stays under way until it is handled.
LEMMA SelectingStays ==
  ASSUME TypeOK, Next, Selecting, ~(Dispatch /\ Head(events).what = "selected")
  PROVE  Selecting'
<1>1. events \in Seq(Event)
  BY DEF TypeOK
<1>2. ASSUME NEW v \in Event, events' = Append(events, v) PROVE Has(events', Selects)
  BY <1>1, <1>2, CoveredAppend DEF Selecting
<1>3. ASSUME Dispatch, events # <<>>, events' = Tail(events) PROVE Has(events', Selects)
  <2>1. Head(events) \notin Selects
    BY <1>3 DEF Selects
  <2>2. Has(events, Selects) <=> Head(events) \in Selects \/ Has(events', Selects)
    BY <1>1, <1>3, HasTail
  <2> QED  BY <2>1, <2>2 DEF Selecting
<1>4. Has(events', Selects)
  BY <1>2, <1>3, EventsStep, NewEvents DEF Selecting
<1> QED  BY <1>4 DEF Selecting, Selects

LEMMA LiveBefore ==
  ASSUME Fine, MirrorOK, Next, NEW e \in Elements, selected' = selected, selected.of = e, Live(e)'
  PROVE  Live(e)
<1>0. TypeOK /\ frames \in Seq(Frame) /\ mirror[e].no \in Nat
  BY MirrorStep DEF Fine, TypeOK
<1>1. selected = Now(e)' /\ e \in exists' /\ ~Has(frames', {Added(e)})
  BY DEF Live
<1>2. CASE UNCHANGED <<frames, exists, mirror>>
  BY <1>1, <1>2 DEF Live, Now
<1>3. CASE ProcessFrame
  <2>1. /\ frames # <<>> /\ frames' = Tail(frames) /\ UNCHANGED exists
        /\ IF Head(frames) = Added(e) THEN mirror'[e] = [no |-> mirror[e].no + 1, shown |-> TRUE]
           ELSE IF Head(frames) = Removed(e) THEN mirror'[e] = [no |-> mirror[e].no, shown |-> FALSE]
           ELSE mirror'[e] = mirror[e]
    BY <1>0, <1>3, ReaderMirrors
  <2>2. selected.no <= mirror[e].no /\ selected.no = mirror'[e].no
    BY <1>1 DEF MirrorOK, Now
  <2>3. Head(frames) # Added(e)
    BY <1>0, <2>1, <2>2
  <2>4. mirror'[e].no = mirror[e].no
    BY <2>1, <2>3
  <2>5. Now(e)' = Now(e)
    BY <2>4 DEF Now
  <2>6. ~Has(frames, {Added(e)})
    <3>1. Has(frames, {Added(e)}) <=> Head(frames) \in {Added(e)} \/ Has(frames', {Added(e)})
      BY <1>0, <2>1, HasTail
    <3> QED  BY <1>1, <2>3, <3>1
  <2> QED  BY <1>1, <2>1, <2>5, <2>6 DEF Live
<1>4. ASSUME NEW sent \in Seq(Frame), frames' = frames \o sent, UNCHANGED mirror, e \in exists
      PROVE  Live(e)
  <2>1. Has(frames', {Added(e)}) <=> Has(frames, {Added(e)}) \/ Has(sent, {Added(e)})
    BY <1>0, <1>4, CoveredConcat
  <2> QED  BY <1>1, <1>4, <2>1 DEF Live, Now
<1>5. ASSUME NEW f \in Frame, frames' = Append(frames, f), UNCHANGED mirror, e \in exists
      PROVE  Live(e)
  <2>1. Has(frames', {Added(e)}) <=> Has(frames, {Added(e)}) \/ f \in {Added(e)}
    BY <1>0, <1>5, CoveredAppend
  <2> QED  BY <1>1, <1>5, <2>1 DEF Live, Now
<1>6. ASSUME NEW d \in exists, frames' = Append(frames, Removed(d)), exists' = exists \ {d}, UNCHANGED mirror
      PROVE  Live(e)
  BY <1>0, <1>1, <1>5, <1>6, NewFrames DEF TypeOK
<1>7. ASSUME NEW d \in Elements \ exists, frames' = Append(frames, Added(d)), exists' = exists \cup {d}, UNCHANGED mirror
      PROVE  Live(e)
  <2>1. d # e
    <3>1. Added(d) \in Frame /\ (Has(frames', {Added(e)}) <=> Has(frames, {Added(e)}) \/ Added(d) \in {Added(e)})
      BY <1>0, <1>7, NewFrames, CoveredAppend, ZenonT(40)
    <3> QED  BY <1>1, <3>1
  <2> QED  BY <1>0, <1>1, <1>5, <1>7, <2>1, NewFrames
<1> QED  BY <1>0, <1>1, <1>2, <1>3, <1>4, <1>6, <1>7, FramesStep

\* What a step other than a selection and its handler does to the panel of
\* something that is no element, and to the element that was asked for last.
LEMMA PanelRests ==
  ASSUME TypeOK, Next, ~SetSelectedObject, ~SelectedObjectChanged \/ ~Dispatch
  PROVE  /\ selected' = selected
         /\ selected.of \notin Elements /\ rows = <<>> => rows' = <<>>
         /\ selected.of \in Elements /\ previous = selected.of => previous' = selected.of
<1>1. CASE Refresh
  BY <1>1, RefreshDoes DEF Refresh
<1>2. CASE Edit \/ RequestKlass
  BY <1>2 DEF Edit, RequestKlass, guiVars
<1>3. CASE Dispatch
  <2>1. PICK d, q : NewProperty(d, q)
    BY <1>3 DEF Dispatch
  <2>2. selected' = selected /\ previous' = previous
    BY <1>3, <2>1 DEF Dispatch, NewProperty
  <2>3. selected.of \notin Elements /\ rows = <<>> => rows' = <<>>
    BY <2>1 DEF NewProperty, Appends
  <2> QED  BY <2>2, <2>3
<1>4. CASE ProcessFrame
  BY <1>4, ReaderDoes
<1>5. CASE Serve
  BY <1>5, ServerDoes
<1>6. CASE Application
  BY <1>6, ApplicationDoes DEF ApplicationOnly
<1> QED  BY <1>1, <1>2, <1>3, <1>4, <1>5, <1>6 DEF Next, User

LEMMA PanelInit == Init => PanelOK
<1> SUFFICES ASSUME Init PROVE PanelOK
  OBVIOUS
<1>1. rows = <<>> /\ selected = NoObject
  BY DEF Init
<1>2. selected.of \notin Elements
  BY <1>1, ObjectsAssumption DEF NoObject
<1> QED  BY <1>1, <1>2 DEF PanelOK

LEMMA PanelStep == Fine /\ MirrorOK /\ PanelOK /\ [Next]_vars => PanelOK'
<1> SUFFICES ASSUME Fine, MirrorOK, PanelOK, [Next]_vars, ~crashed', ~Selecting'
             PROVE  /\ selected'.of \notin Elements => rows' = <<>>
                    /\ selected'.of \in Elements => previous' = selected'.of
                    /\ \A e \in Elements : selected'.of = e /\ Live(e)' => PanelOf(e)'
  BY DEF PanelOK
<1>0. TypeOK /\ events \in Seq(Event)
  BY DEF Fine, TypeOK
<1>1. CASE UNCHANGED vars
  <2>1. /\ UNCHANGED <<exists, mirror, selected, previous, rows, events, commands, frames, crashed, late>>
    BY <1>1 DEF vars, pipelineVars, modelVars, guiVars, wires, history
  <2>2. ~crashed /\ ~Selecting
    BY <2>1 DEF Selecting, Selects
  <2>3. ASSUME NEW e \in Elements, selected'.of = e, Live(e)' PROVE PanelOf(e)'
    <3>1. PanelOf(e)
      BY <2>1, <2>2, <2>3 DEF PanelOK, Live, Now
    <3> QED  BY <2>1, <3>1 DEF PanelOf, FramesBring, EventsBring, RowIsOf
  <2> QED  BY <2>1, <2>2, <2>3 DEF PanelOK
<1>2. ASSUME Next, ~crashed PROVE ~SetSelectedObject
  <2>1. SUFFICES ASSUME events' = Append(events, Select) PROVE FALSE
    BY DEF SetSelectedObject, Select
  <2>2. PICK new \in Event : new = Select /\ new \in Selects
    BY NewEvents DEF Selects
  <2>3. Has(events', Selects)
    BY <1>0, <2>1, <2>2, CoveredAppend
  <2> QED  BY <2>3 DEF Selecting, Selects
<1>3. ASSUME Next PROVE ~crashed
  BY <1>0, <1>3, ReaderDoes, ServerDoes, ApplicationDoes
     DEF Next, User, SetSelectedObject, Clicks, Refresh, Edit, Dispatch, RequestKlass, Application,
         ChangeValue, ChangeCaps, BinRemove, BinAdd
<1>4. CASE Dispatch /\ SelectedObjectChanged
  <2>1. selected' = selected /\ rows' = <<>>
    BY <1>4 DEF Dispatch, SelectedObjectChanged
  <2> QED  BY <2>1, <1>4, SelectionKeepsPanel
<1>5. CASE Next /\ ~(Dispatch /\ SelectedObjectChanged)
  <2>1. ~crashed /\ ~SetSelectedObject
    BY <1>2, <1>3, <1>5
  <2>2. ~(Dispatch /\ Head(events).what = "selected")
    <3>1. SUFFICES ASSUME Dispatch, Head(events).what = "selected" PROVE SelectedObjectChanged
      BY <1>5
    <3> QED  BY <3>1 DEF Dispatch
  <2>3. ~Selecting
    BY <1>0, <1>5, <2>2, SelectingStays
  <2>4. /\ selected' = selected
        /\ selected.of \notin Elements /\ rows = <<>> => rows' = <<>>
        /\ selected.of \in Elements /\ previous = selected.of => previous' = selected.of
    BY <1>0, <1>5, <2>1, PanelRests
  <2>5. /\ selected.of \notin Elements => rows = <<>>
        /\ selected.of \in Elements => previous = selected.of
    BY <2>1, <2>3 DEF PanelOK
  <2>6. ASSUME NEW e \in Elements, selected'.of = e, Live(e)' PROVE PanelOf(e)'
    <3>1. selected.of = e /\ previous = e
      BY <2>4, <2>5, <2>6
    <3>2. Live(e) /\ e \in exists
      BY <1>5, <2>4, <2>6, <3>1, LiveBefore DEF Live
    <3>3. PanelOf(e)
      BY <2>1, <2>3, <3>1, <3>2 DEF PanelOK
    <3>4. CASE Refresh \/ Edit \/ RequestKlass
      BY <1>0, <3>1, <3>3, <3>4, OthersKeepPanel
    <3>5. CASE Dispatch
      <4>1. Head(events) \in Event
        BY <1>0, <3>5, HeadTailProperties DEF Dispatch
      <4>2. PICK d \in Elements, q \in Props : /\ Head(events).what = "property" /\ Head(events).of = d
                                               /\ Head(events).prop = q /\ NewProperty(d, q)
        BY <1>5, <3>5, <4>1, EventFields DEF Dispatch
      <4> QED  BY <3>1, <3>2, <3>3, <3>5, <4>2, DispatchKeepsPanel
    <3>6. CASE ProcessFrame
      BY <3>1, <3>3, <3>6, ReaderKeepsPanel
    <3>7. CASE Serve
      BY <3>2, <3>3, <3>7, ServerKeepsPanel
    <3>8. CASE Application
      BY <1>0, <3>3, <3>8, ApplicationKeepsPanel
    <3> QED  BY <1>5, <2>1, <3>4, <3>5, <3>6, <3>7, <3>8 DEF Next, User
  <2> QED  BY <2>4, <2>5, <2>6
<1> QED  BY <1>1, <1>4, <1>5

\* The rows that ElementPropertiesModule fills by name from whatever answer comes
\* are those of the selected element, once everything posted and asked for is
\* handled.
THEOREM RowsAreOfSelected == Spec => []PanelIsOfSelected
<1>1. Fine /\ PanelOK => PanelIsOfSelected
  <2> SUFFICES ASSUME Fine, PanelOK, Quiet
               PROVE  /\ selected.of \notin Elements => rows = <<>>
                      /\ selected.of \in exists /\ selected = Now(selected.of) =>
                           /\ \A p \in DOMAIN rows : rows[p].of = selected.of
                           /\ ~late => DOMAIN rows = Props
    BY DEF PanelIsOfSelected
  <2>1. ~crashed /\ Len(events) = 0 /\ Len(commands) = 0 /\ Len(frames) = 0
    BY DEF Quiet
  <2>2. \A G : ~Has(events, G) /\ ~Has(commands, G) /\ ~Has(frames, G)
    BY <2>1 DEF Has
  <2>3. ASSUME NEW e \in Elements, e = selected.of, e \in exists, selected = Now(e), NEW p \in Props
        PROVE  (p \in DOMAIN rows => rows[p].of = e) /\ (late \/ p \in DOMAIN rows)
    <3>1. Live(e)
      BY <2>2, <2>3 DEF Live
    <3>2. PanelOf(e)
      BY <2>1, <2>2, <2>3, <3>1 DEF PanelOK, Selecting
    <3>3. FramesBring(e, p)
      BY <2>2, <3>2 DEF PanelOf
    <3> QED  BY <2>2, <3>3 DEF FramesBring, EventsBring, RowIsOf
  <2>4. exists \subseteq Elements /\ DOMAIN rows \subseteq Props
    BY DEF Fine, TypeOK
  <2>5. selected.of \notin Elements => rows = <<>>
    BY <2>1, <2>2 DEF PanelOK, Selecting
  <2> QED  BY <2>3, <2>4, <2>5
<1> QED  BY <1>1, FineInit, FineStep, MirrorInit, MirrorOKStep, PanelInit, PanelStep, PTL DEF Spec

-----------------------------------------------------------------------------
\* What a row shows is the value of its property.  Of a value that is being set
\* and of one that is asked for, the later of the two decides.
Sets(e, p) == {c \in Command : IsSet(c, e, p)}
SetsTo(e, p, w) == {c \in Command : IsSet(c, e, p) /\ c.to = w}
SetsBut(e, p, w) == {c \in Command : IsSet(c, e, p) /\ c.to # w}
Gets(e, p) == {c \in Command : IsGet(c, e, p)}
Right(e, p, w) == {f \in Frame : IsValue(f, e, p) /\ f.is = w}
Wrong(e, p, w) == {f \in Frame : IsValue(f, e, p) /\ f.is # w} \cup {Added(e)}

\* No value of p was set with an older answer under way.
Uncrossed(e, p) == \A q \in crossed : q[1] = e => q[2] # p

\* What a row shows, what is known, what an event will show.
Shows(e, p, w) == p \in DOMAIN rows /\ rows[p].of = e => model[rows[p]][p] = w
Settled(e, p, w) == ~Has(frames, FreshValues(e, p)) /\ model[Now(e)][p] \in {w, "none", "null"}
Announced(e, p, w) ==
  Has(events, FreshEvents(e, p)) /\ model[Now(e)][p] = w /\ ~Has(frames, {Added(e)})

\* A value that is being set: it is the last of its property, ahead of every request,
\* and what the debugger shows.
Pending(e, p) == Has(commands, Sets(e, p))
SetStands(e, p, w) ==
  /\ Has(commands, SetsTo(e, p, w)) /\ Covered(commands, SetsBut(e, p, w), SetsTo(e, p, w))
  /\ Ahead(commands, Sets(e, p), Gets(e, p))
  /\ Settled(e, p, w) /\ Shows(e, p, w)
SetOK(e, p) == Uncrossed(e, p) /\ Pending(e, p) => \E w \in Values : SetStands(e, p, w)

\* A value of the pipeline: it is asked for, or the last answer has it and is for
\* the model the debugger has by then, or it is shown or about to be.
Carried(e, p, w) == Covered(frames, Wrong(e, p, w), Right(e, p, w)) /\ Has(frames, Right(e, p, w))
Told(e, p, w) ==
  \/ Has(commands, Gets(e, p))
  \/ Carried(e, p, w)
  \/ Settled(e, p, w) /\ (Shows(e, p, w) \/ Announced(e, p, w))
Unchanged(e, p) == e \in exists /\ <<e, p>> \notin changed
ValueOK(e, p) == Uncrossed(e, p) /\ Unchanged(e, p) /\ ~Pending(e, p) => Told(e, p, value[e][p])

TrueOK == ~crashed => \A e \in Elements, p \in Props : SetOK(e, p) /\ ValueOK(e, p)

\* What does not concern a property.
LEMMA TrueKept ==
  ASSUME TypeOK, NEW e \in Elements, NEW p \in Props, SetOK(e, p), ValueOK(e, p),
         Uncrossed(e, p)' => Uncrossed(e, p),
         \/ UNCHANGED commands
         \/ \E c \in Command : commands' = Append(commands, c) /\ c \notin Sets(e, p)
         \/ commands # <<>> /\ commands' = Tail(commands) /\ Head(commands) \notin Sets(e, p)
            /\ (Unchanged(e, p)' => Head(commands) \notin Gets(e, p)),
         Unchanged(e, p)' => Unchanged(e, p) /\ value'[e][p] = value[e][p],
         Unchanged(e, p)' => \A w \in Values : Carried(e, p, w) => Carried(e, p, w)',
         \A w \in Values : Settled(e, p, w) => Settled(e, p, w)',
         \A w \in Values : Settled(e, p, w) /\ Shows(e, p, w) => Shows(e, p, w)',
         \A w \in Values : Unchanged(e, p) /\ Unchanged(e, p)' /\ Settled(e, p, w) /\ Announced(e, p, w)
                             => Shows(e, p, w)' \/ Announced(e, p, w)'
  PROVE  SetOK(e, p)' /\ ValueOK(e, p)'
<1>0. commands \in Seq(Command) /\ value[e][p] \in Values
  BY DEF TypeOK
<1> DEFINE Queued ==
             /\ Pending(e, p)' <=> Pending(e, p)
             /\ Unchanged(e, p)' /\ Has(commands, Gets(e, p)) => Has(commands', Gets(e, p))
             /\ \A w \in Values :
                  Has(commands, SetsTo(e, p, w)) /\ Covered(commands, SetsBut(e, p, w), SetsTo(e, p, w))
                    => Has(commands', SetsTo(e, p, w)) /\ Covered(commands', SetsBut(e, p, w), SetsTo(e, p, w))
             /\ Ahead(commands, Sets(e, p), Gets(e, p)) => Ahead(commands', Sets(e, p), Gets(e, p))
<1>1. Queued
  <2>1. CASE UNCHANGED commands
    BY <2>1 DEF Pending, Sets
  <2>2. ASSUME NEW c \in Command, commands' = Append(commands, c), c \notin Sets(e, p)
        PROVE  Queued
    <3>1. \A w \in Values : c \notin SetsBut(e, p, w) /\ c \notin SetsTo(e, p, w)
      BY <2>2 DEF Sets, SetsBut, SetsTo
    <3>2. Has(commands', Sets(e, p)) <=> Has(commands, Sets(e, p))
      BY <1>0, <2>2, CoveredAppend, ZenonT(40)
    <3>3. Has(commands, Gets(e, p)) => Has(commands', Gets(e, p))
      BY <1>0, <2>2, CoveredAppend
    <3>4. Ahead(commands, Sets(e, p), Gets(e, p)) => Ahead(commands', Sets(e, p), Gets(e, p))
      BY <1>0, <2>2, AheadAppend
    <3>5. \A w \in Values :
            Has(commands, SetsTo(e, p, w)) /\ Covered(commands, SetsBut(e, p, w), SetsTo(e, p, w))
              => Has(commands', SetsTo(e, p, w)) /\ Covered(commands', SetsBut(e, p, w), SetsTo(e, p, w))
      BY <1>0, <2>2, <3>1, CoveredAppend
    <3> QED  BY <3>2, <3>3, <3>4, <3>5 DEF Pending, Sets
  <2>3. ASSUME commands # <<>>, commands' = Tail(commands), Head(commands) \notin Sets(e, p),
               Unchanged(e, p)' => Head(commands) \notin Gets(e, p)
        PROVE  Queued
    <3>1. \A w \in Values : /\ Head(commands) \notin SetsTo(e, p, w)
                            /\ \A x \in SetsBut(e, p, w) : x \notin SetsTo(e, p, w)
      BY <2>3 DEF Sets, SetsBut, SetsTo
    <3>2. Has(commands', Sets(e, p)) <=> Has(commands, Sets(e, p))
      BY <1>0, <2>3, HasTail
    <3>3. Unchanged(e, p)' /\ Has(commands, Gets(e, p)) => Has(commands', Gets(e, p))
      BY <1>0, <2>3, HasTail
    <3>4. Ahead(commands, Sets(e, p), Gets(e, p)) => Ahead(commands', Sets(e, p), Gets(e, p))
      BY <1>0, <2>3, AheadTail
    <3>5. \A w \in Values :
            Has(commands, SetsTo(e, p, w)) /\ Covered(commands, SetsBut(e, p, w), SetsTo(e, p, w))
              => Has(commands', SetsTo(e, p, w)) /\ Covered(commands', SetsBut(e, p, w), SetsTo(e, p, w))
      BY <1>0, <2>3, <3>1, HasTail, CoveredTail
    <3> QED  BY <3>2, <3>3, <3>4, <3>5 DEF Pending, Sets
  <2> HIDE DEF Queued
  <2> QED  BY <2>1, <2>2, <2>3
<1>2. SetOK(e, p)'
  <2> SUFFICES ASSUME Uncrossed(e, p)', Pending(e, p)' PROVE \E w \in Values : SetStands(e, p, w)'
    BY DEF SetOK, Values
  <2>1. PICK w \in Values : SetStands(e, p, w)
    BY <1>1 DEF SetOK
  <2>2. SetStands(e, p, w)'
    BY <1>1, <2>1 DEF SetStands, SetsTo, SetsBut, Sets, Gets
  <2> QED  BY <2>2
<1>3. ValueOK(e, p)'
  <2> SUFFICES ASSUME Uncrossed(e, p)', Unchanged(e, p)', ~Pending(e, p)' PROVE Told(e, p, value[e][p])'
    BY DEF ValueOK
  <2>1. PICK w \in Values : w = value[e][p]
    BY <1>0
  <2>2. Told(e, p, w) /\ value'[e][p] = w /\ Unchanged(e, p)
    BY <1>1, <2>1 DEF ValueOK
  <2>3. Told(e, p, w)'
    <3>1. CASE Has(commands, Gets(e, p))
      BY <1>1, <3>1 DEF Told, Gets
    <3>2. CASE Carried(e, p, w)
      BY <3>2 DEF Told
    <3>3. CASE Settled(e, p, w) /\ (Shows(e, p, w) \/ Announced(e, p, w))
      BY <2>2, <3>3 DEF Told
    <3> QED  BY <2>2, <3>1, <3>2, <3>3 DEF Told
  <2> QED  BY <2>2, <2>3 DEF Told, Carried, Settled, Shows, Announced, Right, Wrong
<1> QED  BY <1>2, <1>3

\* A value is set.
LEMMA SetBegins ==
  ASSUME TypeOK, NEW e \in Elements, NEW p \in Props, NEW w \in Values, NEW c \in Command,
         IsSet(c, e, p), c.to = w, commands' = Append(commands, c),
         Uncrossed(e, p)' => ~Has(commands, Gets(e, p)) /\ Settled(e, p, w)' /\ Shows(e, p, w)'
  PROVE  SetOK(e, p)' /\ ValueOK(e, p)'
<1>0. commands \in Seq(Command) /\ c \in SetsTo(e, p, w) /\ c \in Sets(e, p)
  BY DEF TypeOK, SetsTo, Sets
<1>1. Has(commands', Sets(e, p)) /\ Has(commands', SetsTo(e, p, w))
      /\ Covered(commands', SetsBut(e, p, w), SetsTo(e, p, w))
  BY <1>0, CoveredAppend
<1>2. ASSUME ~Has(commands, Gets(e, p)) PROVE Ahead(commands', Sets(e, p), Gets(e, p))
  <2>1. Ahead(commands, Sets(e, p), Gets(e, p))
    BY <1>2 DEF Has, Ahead
  <2>2. c \notin Gets(e, p)
    BY DEF IsSet, Gets, IsGet
  <2> QED  BY <1>0, <1>2, <2>1, <2>2, AheadAppend
<1>3. ValueOK(e, p)'
  BY <1>1 DEF ValueOK, Pending, Sets
<1>4. Uncrossed(e, p)' => SetStands(e, p, w)'
  BY <1>1, <1>2 DEF SetStands, SetsTo, SetsBut, Sets, Gets
<1>5. SetOK(e, p)'
  BY <1>4 DEF SetOK, Values
<1> QED  BY <1>3, <1>5

\* Frames that come and go, and what they carry of a property.
LEMMA CarriedGrows ==
  ASSUME TypeOK, NEW e \in Elements, NEW p \in Props, NEW sent \in Seq(Frame), frames' = frames \o sent,
         \A i \in 1..Len(sent) : sent[i] \notin FreshValues(e, p)
  PROVE  /\ ~Has(frames, FreshValues(e, p)) => ~Has(frames', FreshValues(e, p))
         /\ (\A i \in 1..Len(sent) : sent[i] # Added(e)) =>
              /\ ~Has(frames, {Added(e)}) => ~Has(frames', {Added(e)})
              /\ \A w \in Values : Carried(e, p, w) => Carried(e, p, w)'
<1>0. frames \in Seq(Frame)
  BY DEF TypeOK
<1>1. ~Has(sent, FreshValues(e, p))
  BY DEF Has
<1>2. ~Has(frames, FreshValues(e, p)) => ~Has(frames', FreshValues(e, p))
  BY <1>0, <1>1, CoveredConcat
<1>3. ASSUME \A i \in 1..Len(sent) : sent[i] # Added(e)
      PROVE  /\ ~Has(frames, {Added(e)}) => ~Has(frames', {Added(e)})
             /\ \A w \in Values : Carried(e, p, w) => Carried(e, p, w)'
  <2>1. ~Has(sent, {Added(e)})
    BY <1>3 DEF Has
  <2>2. ASSUME NEW w \in Values, Carried(e, p, w) PROVE Carried(e, p, w)'
    <3>1. \A i \in 1..Len(sent) : sent[i] \notin Wrong(e, p, w)
      BY <1>3 DEF Wrong, IsValue, FreshValues
    <3>2. Covered(sent, Wrong(e, p, w), Right(e, p, w))
      BY <3>1 DEF Covered
    <3>3. Has(frames', Right(e, p, w)) /\ Covered(frames', Wrong(e, p, w), Right(e, p, w))
      BY <1>0, <2>2, <3>2, CoveredConcat DEF Carried
    <3> QED  BY <3>3 DEF Carried, Right, Wrong, Added
  <2> QED  BY <1>0, <2>1, <2>2, CoveredConcat
<1> QED  BY <1>2, <1>3

LEMMA RightIsNotWrong ==
  ASSUME NEW e, NEW p, NEW w
  PROVE  \A x \in Wrong(e, p, w) : x \notin Right(e, p, w)
<1>1. Added(e).what = "added"
  BY NewFrameFields
<1> QED  BY <1>1 DEF Wrong, Right, IsValue

LEMMA CarriedLeaves ==
  ASSUME TypeOK, NEW e \in Elements, NEW p \in Props, frames # <<>>, frames' = Tail(frames),
         Head(frames) \notin FreshValues(e, p)
  PROVE  /\ ~Has(frames, FreshValues(e, p)) => ~Has(frames', FreshValues(e, p))
         /\ ~Has(frames, {Added(e)}) => ~Has(frames', {Added(e)})
         /\ \A w \in Values : Carried(e, p, w) => Carried(e, p, w)'
<1>0. frames \in Seq(Frame)
  BY DEF TypeOK
<1>1. ASSUME NEW w \in Values, Carried(e, p, w) PROVE Carried(e, p, w)'
  <2>1. Head(frames) \notin Right(e, p, w)
    BY DEF Right, IsValue, FreshValues
  <2>2. Has(frames', Right(e, p, w)) /\ Covered(frames', Wrong(e, p, w), Right(e, p, w))
    BY <1>0, <1>1, <2>1, RightIsNotWrong, HasTail, CoveredTail DEF Carried
  <2> QED  BY <2>2 DEF Carried, Right, Wrong, Added
<1> QED  BY <1>0, <1>1, HasTail

\* What the frames and the models do to a value, when no model is written and no
\* value of the property comes or goes.
LEMMA SettledRests ==
  ASSUME TypeOK, NEW e \in Elements, NEW p \in Props, UNCHANGED <<mirror, model>>,
         ~Has(frames, FreshValues(e, p)) => ~Has(frames', FreshValues(e, p)),
         UNCHANGED rows \/ rows' = <<>>
  PROVE  /\ \A w \in Values : Settled(e, p, w) => Settled(e, p, w)'
         /\ \A w \in Values : Shows(e, p, w) => Shows(e, p, w)'
         /\ \A w \in Values : Announced(e, p, w) /\ (Has(events, FreshEvents(e, p)) => Has(events', FreshEvents(e, p)))
              /\ (~Has(frames, {Added(e)}) => ~Has(frames', {Added(e)})) => Announced(e, p, w)'
<1>1. Now(e)' = Now(e)
  BY DEF Now
<1>2. ASSUME NEW w \in Values, Settled(e, p, w) PROVE Settled(e, p, w)'
  BY <1>1, <1>2 DEF Settled, FreshValues
<1>3. ASSUME NEW w \in Values, Shows(e, p, w) PROVE Shows(e, p, w)'
  BY <1>3 DEF Shows
<1>4. ASSUME NEW w \in Values, Announced(e, p, w), Has(events, FreshEvents(e, p)) => Has(events', FreshEvents(e, p)),
             ~Has(frames, {Added(e)}) => ~Has(frames', {Added(e)})
      PROVE  Announced(e, p, w)'
  BY <1>1, <1>4 DEF Announced, FreshEvents, Added
<1> QED  BY <1>2, <1>3, <1>4

\* Selections and requests.
LEMMA RequestKeepsTrue ==
  ASSUME TypeOK, NEW e \in Elements, NEW p \in Props, SetOK(e, p), ValueOK(e, p),
         UNCHANGED <<exists, value, mirror, model, frames, changed, crossed>>,
         UNCHANGED rows \/ rows' = <<>>,
         Has(events, FreshEvents(e, p)) => Has(events', FreshEvents(e, p)),
         UNCHANGED commands \/ \E c \in Command : commands' = Append(commands, c) /\ c.op # "set"
  PROVE  SetOK(e, p)' /\ ValueOK(e, p)'
<1>1. UNCHANGED commands \/ \E c \in Command : commands' = Append(commands, c) /\ c \notin Sets(e, p)
  BY DEF Sets, IsSet
<1>2. (Uncrossed(e, p)' => Uncrossed(e, p)) /\ (Unchanged(e, p)' => Unchanged(e, p) /\ value'[e][p] = value[e][p])
  BY DEF Uncrossed, Unchanged
<1>3. \A w \in Values : Carried(e, p, w) => Carried(e, p, w)'
  BY DEF Carried, Right, Wrong, Added
<1>4. /\ \A w \in Values : Settled(e, p, w) => Settled(e, p, w)'
      /\ \A w \in Values : Shows(e, p, w) => Shows(e, p, w)'
      /\ \A w \in Values : Announced(e, p, w) => Announced(e, p, w)'
  BY SettledRests
<1> QED  BY <1>1, <1>2, <1>3, <1>4, TrueKept

LEMMA UserKeepsTrue ==
  ASSUME TypeOK, NEW e \in Elements, NEW p \in Props, SetOK(e, p), ValueOK(e, p),
         SetSelectedObject \/ Refresh \/ RequestKlass
  PROVE  SetOK(e, p)' /\ ValueOK(e, p)'
<1>1. /\ UNCHANGED <<exists, value, mirror, model, frames, changed, crossed>>
      /\ UNCHANGED rows \/ rows' = <<>>
  BY DEF SetSelectedObject, Refresh, ClearWidgets, RequestKlass, pipelineVars, modelVars, guiVars, history
<1>2. Has(events, FreshEvents(e, p)) => Has(events', FreshEvents(e, p))
  <2>1. events \in Seq(Event)
    BY DEF TypeOK
  <2>2. ASSUME events' = Append(events, Select)
        PROVE  Has(events, FreshEvents(e, p)) => Has(events', FreshEvents(e, p))
    <3>1. PICK new \in Event : new = Select
      BY NewEvents
    <3> QED  BY <2>1, <2>2, <3>1, CoveredAppend
  <2>3. UNCHANGED events \/ events' = Append(events, Select)
    BY DEF SetSelectedObject, Refresh, RequestKlass, Select
  <2> QED  BY <2>2, <2>3
<1>3. UNCHANGED commands \/ \E c \in Command : commands' = Append(commands, c) /\ c.op # "set"
  <2>1. CASE SetSelectedObject
    <3>1. PICK x \in Elements \cup Pads \cup {Nothing} :
            commands' = IF x \in Pads THEN Append(commands, AskPad(x)) ELSE commands
      BY <2>1 DEF SetSelectedObject, AskPad
    <3>2. x \in Pads => AskPad(x) \in Command /\ AskPad(x).op # "set"
      BY NewCommands, NewCommandFields
    <3> QED  BY <3>1, <3>2
  <2>2. CASE Refresh
    <3>1. PICK all \in Asks : commands' = Append(commands, Get(selected.of, all))
      BY <2>2, RefreshDoes
    <3>2. Get(selected.of, all) \in Command /\ Get(selected.of, all).op # "set"
      BY <2>2, RefreshDoes, NewCommands, NewCommandFields
    <3> QED  BY <3>1, <3>2
  <2>3. CASE RequestKlass
    <3>1. commands' = Append(commands, AskKlass)
      BY <2>3 DEF RequestKlass, AskKlass
    <3>2. AskKlass \in Command /\ AskKlass.op # "set"
      BY NewCommands, NewCommandFields
    <3> QED  BY <3>1, <3>2
  <2> QED  BY <2>1, <2>2, <2>3
<1> QED  BY <1>1, <1>2, <1>3, RequestKeepsTrue

\* An edit: the last value of its property, shown in its row.
LEMMA EditKeepsTrue ==
  ASSUME TypeOK, NEW e \in Elements, NEW p \in Props, SetOK(e, p), ValueOK(e, p), Edit
  PROVE  SetOK(e, p)' /\ ValueOK(e, p)'
<1>0. UNCHANGED <<exists, value, mirror, frames, rows, events, changed>>
  BY DEF Edit, pipelineVars, guiVars
<1>1. PICK d \in Elements, q \in Props, v \in Values :
        /\ q \in DOMAIN rows /\ rows[q].of = d
        /\ model' = [model EXCEPT ![rows[q]][q] = v]
        /\ Sends(rows[q], q, v, "user", frames)
  BY EditDoes DEF EditOf
<1>2. PICK o \in Object : o = rows[q] /\ o.of = d
  BY <1>1 DEF TypeOK
<1>3. \A x \in Object, r \in Props : model'[x][r] = IF x = o /\ r = q THEN v ELSE model[x][r]
  <2>1. PICK m : m = model'
    OBVIOUS
  <2>2. v \in Entries /\ Writes(m, o, q, v)
    BY <1>1, <1>2, <2>1 DEF Writes, Entries
  <2>3. \A x \in Object, r \in Props : m[x][r] = IF x = o /\ r = q THEN v ELSE model[x][r]
    BY <2>2, EntrySet
  <2> QED  BY <2>1, <2>3
<1>4. PICK c \in Command : /\ commands' = Append(commands, c)
                           /\ c.op = "set" /\ c.of = d /\ c.prop = q /\ c.to = v
  <2>1. commands' = Append(commands, Set(d, q, v, "user"))
    BY <1>1, <1>2 DEF Sends
  <2> QED  BY <2>1, NewCommands, NewCommandFields
<1>5. crossed' = IF Asked(d, q) \/ Answered(d, q, frames) \/ o # Now(d)
                 THEN crossed \cup {<<d, q, "user">>} ELSE crossed
  BY <1>1, <1>2 DEF Sends
<1>6. Now(e) \in Object /\ Now(e).of = e /\ Now(e)' = Now(e)
  BY <1>0, ObjectFields DEF Now
<1>7. CASE e # d \/ p # q
  <2>1. c \notin Sets(e, p)
    BY <1>4, <1>7 DEF Sets, IsSet
  <2>2. (Uncrossed(e, p)' => Uncrossed(e, p)) /\ (Unchanged(e, p)' => Unchanged(e, p) /\ value'[e][p] = value[e][p])
    BY <1>0, <1>5 DEF Uncrossed, Unchanged
  <2>3. \A w \in Values : Carried(e, p, w) => Carried(e, p, w)'
    BY <1>0 DEF Carried, Right, Wrong, Added
  <2>4. model'[Now(e)][p] = model[Now(e)][p]
    BY <1>2, <1>3, <1>6, <1>7
  <2>5. \A w \in Values : Settled(e, p, w) => Settled(e, p, w)'
    BY <1>0, <1>6, <2>4 DEF Settled, FreshValues
  <2>6. p \in DOMAIN rows /\ rows[p].of = e => model'[rows[p]][p] = model[rows[p]][p]
    BY <1>2, <1>3, <1>7 DEF TypeOK
  <2>7. \A w \in Values : Shows(e, p, w) => Shows(e, p, w)'
    BY <1>0, <2>6 DEF Shows
  <2>8. \A w \in Values : Announced(e, p, w) => Announced(e, p, w)'
    BY <1>0, <1>6, <2>4 DEF Announced, FreshEvents, Added
  <2> QED  BY <1>4, <2>1, <2>2, <2>3, <2>5, <2>7, <2>8, TrueKept
<1>8. CASE e = d /\ p = q
  <2>1. IsSet(c, e, p)
    BY <1>4, <1>8 DEF IsSet
  <2>2. ASSUME Uncrossed(e, p)'
        PROVE  ~Has(commands, Gets(e, p)) /\ Settled(e, p, v)' /\ Shows(e, p, v)'
    <3>1. ~Asked(d, q) /\ ~Answered(d, q, frames) /\ o = Now(d)
      <4>1. <<d, q, "user">>[1] = d /\ <<d, q, "user">>[2] = q
        OBVIOUS
      <4>2. <<d, q, "user">> \notin crossed'
        BY <1>8, <2>2, <4>1 DEF Uncrossed
      <4> QED  BY <1>5, <4>2
    <3>2. DOMAIN frames = 1..Len(frames) /\ DOMAIN commands = 1..Len(commands)
      BY LenProperties DEF TypeOK
    <3>3. ~Has(commands, Gets(e, p))
      BY <1>8, <3>1, <3>2 DEF Asked, Has, Gets, IsGet
    <3>4. ~Has(frames, FreshValues(e, p))
      BY <1>8, <3>1, <3>2 DEF Answered, Has, FreshValues
    <3>5. model'[o][p] = v
      BY <1>3, <1>8
    <3>6. Settled(e, p, v)'
      BY <1>0, <1>6, <1>8, <3>1, <3>4, <3>5 DEF Settled, FreshValues
    <3>7. Shows(e, p, v)'
      BY <1>0, <1>2, <1>8, <3>5 DEF Shows
    <3> QED  BY <3>3, <3>6, <3>7
  <2> QED  BY <1>4, <2>1, <2>2, SetBegins
<1> QED  BY <1>7, <1>8

\* An event of a property leaves the others alone.
LEMMA EventLeaves ==
  ASSUME TypeOK, NEW e \in Elements, NEW p \in Props, events # <<>>, events' = Tail(events),
         Head(events) \notin FreshEvents(e, p)
  PROVE  Has(events, FreshEvents(e, p)) => Has(events', FreshEvents(e, p))
<1>1. events \in Seq(Event)
  BY DEF TypeOK
<1> QED  BY <1>1, HasTail

\* A row that is shown: of the latest model, with the value it has.
LEMMA RowIsTrue ==
  ASSUME TypeOK, NEW e \in Elements, NEW p \in Props, SetOK(e, p), ValueOK(e, p),
         NEW d \in Elements, NEW q \in Props, model[Now(d)][q] \in Values,
         UNCHANGED <<exists, value, mirror, model, frames, changed>>,
         rows' = [r \in DOMAIN rows \cup {q} |-> IF r = q THEN Now(d) ELSE rows[r]],
         d # e \/ p # q => (Has(events, FreshEvents(e, p)) => Has(events', FreshEvents(e, p))),
         Echo(Now(d), q, "off", model[Now(d)][q], frames)
  PROVE  SetOK(e, p)' /\ ValueOK(e, p)'
<1>0. Now(e)' = Now(e) /\ Now(d) \in Object /\ Now(d).of = d
  BY ObjectFields DEF Now
<1>1. PICK v \in Values : v = model[Now(d)][q]
  OBVIOUS
<1>2. (UNCHANGED <<commands, crossed>>) \/ Sends(Now(d), q, v, "widget", frames)
  BY <1>1 DEF Echo
<1>3. \A w \in Values : Carried(e, p, w) => Carried(e, p, w)'
  BY DEF Carried, Right, Wrong, Added
<1>4. \A w \in Values : Settled(e, p, w) => Settled(e, p, w)'
  BY <1>0 DEF Settled, FreshValues
<1>5. p # q => \A w \in Values : Shows(e, p, w) => Shows(e, p, w)'
  BY DEF Shows
<1>6. p = q /\ d # e => \A w \in Values : Shows(e, p, w)'
  BY <1>0 DEF Shows
<1>7. p = q /\ d = e => Shows(e, p, v)'
  BY <1>0, <1>1 DEF Shows
<1>8. p = q /\ d = e => \A w \in Values : Settled(e, p, w) \/ model[Now(e)][p] = w => w = v
  BY <1>1 DEF Settled, Values
<1>9. d # e \/ p # q => \A w \in Values : Announced(e, p, w) => Announced(e, p, w)'
  BY <1>0 DEF Announced, FreshEvents, Added
<1>10. Unchanged(e, p)' => Unchanged(e, p) /\ value'[e][p] = value[e][p]
  BY DEF Unchanged
<1>11. \A w \in Values : Settled(e, p, w) /\ Shows(e, p, w) => Shows(e, p, w)'
  BY <1>5, <1>6, <1>7, <1>8
<1>12. \A w \in Values : Announced(e, p, w) => Shows(e, p, w)' \/ Announced(e, p, w)'
  BY <1>7, <1>8, <1>9 DEF Announced
<1>13. CASE UNCHANGED <<commands, crossed>>
  <2>1. Uncrossed(e, p)' => Uncrossed(e, p)
    BY <1>13 DEF Uncrossed
  <2> QED  BY <1>3, <1>4, <1>10, <1>11, <1>12, <1>13, <2>1, TrueKept
<1>14. CASE Sends(Now(d), q, v, "widget", frames)
  <2>1. PICK c \in Command : /\ commands' = Append(commands, c)
                             /\ c.op = "set" /\ c.of = d /\ c.prop = q /\ c.to = v
    <3>1. commands' = Append(commands, Set(d, q, v, "widget"))
      BY <1>0, <1>14 DEF Sends
    <3> QED  BY <3>1, NewCommands, NewCommandFields
  <2>2. crossed' = IF Asked(d, q) \/ Answered(d, q, frames) \/ Now(d) # Now(d)
                   THEN crossed \cup {<<d, q, "widget">>} ELSE crossed
    BY <1>0, <1>14 DEF Sends
  <2>3. CASE d # e \/ p # q
    <3>1. c \notin Sets(e, p)
      BY <2>1, <2>3 DEF Sets, IsSet
    <3>2. Uncrossed(e, p)' => Uncrossed(e, p)
      BY <2>2 DEF Uncrossed
    <3> QED  BY <1>3, <1>4, <1>10, <1>11, <1>12, <2>1, <3>1, <3>2, TrueKept
  <2>4. CASE d = e /\ p = q
    <3>1. IsSet(c, e, p)
      BY <2>1, <2>4 DEF IsSet
    <3>2. ASSUME Uncrossed(e, p)'
          PROVE  ~Has(commands, Gets(e, p)) /\ Settled(e, p, v)' /\ Shows(e, p, v)'
      <4>1. ~Asked(d, q) /\ ~Answered(d, q, frames)
        <5>1. <<d, q, "widget">>[1] = d /\ <<d, q, "widget">>[2] = q
          OBVIOUS
        <5>2. <<d, q, "widget">> \notin crossed'
          BY <2>4, <3>2, <5>1 DEF Uncrossed
        <5> QED  BY <2>2, <5>2
      <4>2. DOMAIN frames = 1..Len(frames) /\ DOMAIN commands = 1..Len(commands)
        BY LenProperties DEF TypeOK
      <4>3. ~Has(commands, Gets(e, p))
        BY <2>4, <4>1, <4>2 DEF Asked, Has, Gets, IsGet
      <4>4. ~Has(frames, FreshValues(e, p))
        BY <2>4, <4>1, <4>2 DEF Answered, Has, FreshValues
      <4>5. Settled(e, p, v)'
        BY <1>0, <1>1, <2>4, <4>4 DEF Settled, FreshValues
      <4> QED  BY <1>7, <2>4, <4>3, <4>5
    <3> QED  BY <2>1, <3>1, <3>2, SetBegins
  <2> QED  BY <2>3, <2>4
<1> QED  BY <1>2, <1>13, <1>14

LEMMA DispatchKeepsTrue ==
  ASSUME TypeOK, MirrorOK, NEW e \in Elements, NEW p \in Props, SetOK(e, p), ValueOK(e, p),
         Dispatch, ~crashed'
  PROVE  SetOK(e, p)' /\ ValueOK(e, p)'
<1>0. /\ events # <<>> /\ events' = Tail(events) /\ events \in Seq(Event) /\ Head(events) \in Event /\ ~crashed
      /\ UNCHANGED <<exists, value, mirror, frames, changed>>
  BY HeadTailProperties DEF Dispatch, pipelineVars, TypeOK
<1>1. CASE Head(events).what = "selected" /\ SelectedObjectChanged
  <2>1. /\ UNCHANGED <<model, crossed>> /\ rows' = <<>>
        /\ UNCHANGED commands \/ \E d \in Elements : d = selected.of /\ commands' = Append(commands, Get(d, ""))
    BY <1>1, SelectedChangedDoes
  <2>2. UNCHANGED commands \/ \E c \in Command : commands' = Append(commands, c) /\ c.op # "set"
    <3>1. CASE \E d \in Elements : d = selected.of /\ commands' = Append(commands, Get(d, ""))
      <4>1. PICK d \in Elements, all \in Asks : commands' = Append(commands, Get(d, all))
        BY <3>1 DEF Asks
      <4>2. Get(d, all) \in Command /\ Get(d, all).op = "get"
        BY NewCommands, NewCommandFields
      <4> QED  BY <4>1, <4>2
    <3> QED  BY <2>1, <3>1
  <2>3. Head(events) \notin FreshEvents(e, p)
    BY <1>1 DEF FreshEvents
  <2>4. Has(events, FreshEvents(e, p)) => Has(events', FreshEvents(e, p))
    BY <1>0, <2>3, EventLeaves
  <2> QED  BY <1>0, <2>1, <2>2, <2>4, RequestKeepsTrue
<1>2. ASSUME NEW d \in Elements, NEW q \in Props, Head(events).what = "property",
             Head(events).of = d, Head(events).prop = q, NewProperty(d, q)
      PROVE  SetOK(e, p)' /\ ValueOK(e, p)'
  <2>0. Now(e)' = Now(e) /\ Now(e) \in Object /\ Now(e).of = e /\ Now(d) \in Object /\ Now(d).of = d
    BY <1>0, ObjectFields DEF Now
  <2>1. \/ ~mirror[d].shown /\ UNCHANGED <<rows, commands, model, crossed>>
        \/ /\ model[Now(d)][q] \in Values /\ UNCHANGED model
           /\ rows' = [r \in DOMAIN rows \cup {q} |-> IF r = q THEN Now(d) ELSE rows[r]]
           /\ Echo(Now(d), q, "off", model[Now(d)][q], frames)
        \/ /\ q \notin DOMAIN rows /\ UNCHANGED <<rows, commands, crossed>>
           /\ Writes(model', Now(d), q, IF model[Now(d)][q] = "none" THEN "null" ELSE model[Now(d)][q])
    BY <1>0, <1>2 DEF NewProperty, ShowRow, Writes
  <2>2. d # e \/ p # q => (Has(events, FreshEvents(e, p)) => Has(events', FreshEvents(e, p)))
    <3>1. d # e \/ p # q => Head(events) \notin FreshEvents(e, p)
      BY <1>2 DEF FreshEvents
    <3> QED  BY <1>0, <3>1, EventLeaves
  <2>3. \A w \in Values : Carried(e, p, w) => Carried(e, p, w)'
    BY <1>0 DEF Carried, Right, Wrong, Added
  <2>4. Unchanged(e, p)' => Unchanged(e, p) /\ value'[e][p] = value[e][p]
    BY <1>0 DEF Unchanged
  <2>5. CASE ~mirror[d].shown /\ UNCHANGED <<rows, commands, model, crossed>>
    <3>1. Uncrossed(e, p)' => Uncrossed(e, p)
      BY <2>5 DEF Uncrossed
    <3>2. d = e /\ p = q => \A w \in Values : ~(Unchanged(e, p) /\ Announced(e, p, w))
      BY <2>5 DEF MirrorOK, Unchanged, Announced
    <3>3. /\ \A w \in Values : Settled(e, p, w) => Settled(e, p, w)'
          /\ \A w \in Values : Shows(e, p, w) => Shows(e, p, w)'
          /\ \A w \in Values : Announced(e, p, w) /\ (Has(events, FreshEvents(e, p)) => Has(events', FreshEvents(e, p)))
               /\ (~Has(frames, {Added(e)}) => ~Has(frames', {Added(e)})) => Announced(e, p, w)'
      BY <1>0, <2>5, SettledRests
    <3>4. \A w \in Values : Unchanged(e, p) /\ Announced(e, p, w) => Announced(e, p, w)'
      <4>1. ~Has(frames, {Added(e)}) => ~Has(frames', {Added(e)})
        BY <1>0
      <4> QED  BY <2>2, <3>2, <3>3, <4>1
    <3> QED  BY <2>3, <2>4, <2>5, <3>1, <3>3, <3>4, TrueKept
  <2>6. CASE /\ model[Now(d)][q] \in Values /\ UNCHANGED model
             /\ rows' = [r \in DOMAIN rows \cup {q} |-> IF r = q THEN Now(d) ELSE rows[r]]
             /\ Echo(Now(d), q, "off", model[Now(d)][q], frames)
    BY <1>0, <2>2, <2>6, RowIsTrue
  <2>7. CASE /\ q \notin DOMAIN rows /\ UNCHANGED <<rows, commands, crossed>>
             /\ Writes(model', Now(d), q, IF model[Now(d)][q] = "none" THEN "null" ELSE model[Now(d)][q])
    <3>1. PICK v \in Entries : v = IF model[Now(d)][q] = "none" THEN "null" ELSE model[Now(d)][q]
      BY <2>0 DEF TypeOK, Entries
    <3>2. \A x \in Object, r \in Props : model'[x][r] = IF x = Now(d) /\ r = q THEN v ELSE model[x][r]
      <4>1. PICK m : m = model'
        OBVIOUS
      <4>2. PICK o \in Object : o = Now(d)
        BY <2>0
      <4>3. Writes(m, o, q, v)
        BY <2>7, <3>1, <4>1, <4>2
      <4>4. \A x \in Object, r \in Props : m[x][r] = IF x = o /\ r = q THEN v ELSE model[x][r]
        BY <4>3, EntrySet
      <4> QED  BY <4>1, <4>2, <4>4
    <3>3. Uncrossed(e, p)' => Uncrossed(e, p)
      BY <2>7 DEF Uncrossed
    <3>4. \A w \in Values : model[Now(e)][p] \in {w, "none", "null"} => model'[Now(e)][p] \in {w, "none", "null"}
      BY <2>0, <3>1, <3>2
    <3>5. \A w \in Values : Settled(e, p, w) => Settled(e, p, w)'
      BY <1>0, <2>0, <3>4 DEF Settled, FreshValues
    <3>6. p \in DOMAIN rows => model'[rows[p]][p] = model[rows[p]][p]
      BY <2>7, <3>2 DEF TypeOK
    <3>7. \A w \in Values : Shows(e, p, w) => Shows(e, p, w)'
      BY <2>7, <3>6 DEF Shows
    <3>8. d = e /\ p = q => \A w \in Values : Shows(e, p, w)'
      BY <2>7 DEF Shows
    <3>9. d # e \/ p # q => \A w \in Values : Announced(e, p, w) => Announced(e, p, w)'
      <4>1. d # e \/ p # q => model'[Now(e)][p] = model[Now(e)][p]
        BY <2>0, <3>2
      <4> QED  BY <1>0, <2>0, <2>2, <4>1 DEF Announced, FreshEvents, Added
    <3> QED  BY <2>3, <2>4, <2>7, <3>3, <3>5, <3>7, <3>8, <3>9, TrueKept
  <2> QED  BY <2>1, <2>5, <2>6, <2>7
<1> QED  BY <1>0, <1>1, <1>2, EventFields DEF Dispatch

\* A frame that is read.
LEMMA OtherFramesKeepTrue ==
  ASSUME Fine, NEW e \in Elements, NEW p \in Props, SetOK(e, p), ValueOK(e, p),
         ProcessFrame, UNCHANGED <<model, commands, crossed>>, Head(frames).what # "value"
  PROVE  SetOK(e, p)' /\ ValueOK(e, p)'
<1>0. /\ TypeOK /\ frames # <<>> /\ frames' = Tail(frames) /\ frames \in Seq(Frame) /\ events \in Seq(Event)
      /\ UNCHANGED <<exists, value, rows, changed>>
  BY ReaderDoes DEF Fine, TypeOK
<1>1. Head(frames) \notin FreshValues(e, p)
  BY DEF FreshValues
<1>2. Has(events, FreshEvents(e, p)) => Has(events', FreshEvents(e, p))
  <2>1. UNCHANGED events \/ \E ev \in Event : events' = Append(events, ev)
    <3>1. events' = Append(events, Select) \/ UNCHANGED events
          \/ \E d \in Elements, q \in Props : events' = Append(events, PropertyOf(d, q))
      BY <1>0, ReaderDoes DEF ReadsValue, ProcessValue, PropertyOf, ReadsPad, UpdatePadDynamicInfo, Select,
         ReadsElement, ProcessElement, UpdateKlassModel
    <3> QED  BY <3>1, NewEvents
  <2>2. ASSUME NEW ev \in Event, events' = Append(events, ev)
        PROVE  Has(events, FreshEvents(e, p)) => Has(events', FreshEvents(e, p))
    BY <1>0, <2>2, CoveredAppend
  <2> QED  BY <2>1, <2>2
<1>3. /\ ~Has(frames, FreshValues(e, p)) => ~Has(frames', FreshValues(e, p))
      /\ ~Has(frames, {Added(e)}) => ~Has(frames', {Added(e)})
      /\ \A w \in Values : Carried(e, p, w) => Carried(e, p, w)'
  BY <1>0, <1>1, CarriedLeaves
<1>4. (Uncrossed(e, p)' => Uncrossed(e, p)) /\ (Unchanged(e, p)' => Unchanged(e, p) /\ value'[e][p] = value[e][p])
  BY <1>0 DEF Uncrossed, Unchanged
<1>5. \A w \in Values : Shows(e, p, w) => Shows(e, p, w)'
  BY <1>0 DEF Shows
<1>6. CASE Now(e)' = Now(e)
  <2>1. \A w \in Values : Settled(e, p, w) => Settled(e, p, w)'
    BY <1>3, <1>6 DEF Settled, FreshValues
  <2>2. \A w \in Values : Announced(e, p, w) => Announced(e, p, w)'
    BY <1>2, <1>3, <1>6 DEF Announced, FreshEvents, Added
  <2> QED  BY <1>0, <1>3, <1>4, <1>5, <2>1, <2>2, TrueKept
<1>7. CASE Head(frames) = Added(e)
  <2>1. mirror'[e] = [no |-> mirror[e].no + 1, shown |-> TRUE]
    BY <1>0, <1>7, ReaderMirrors
  <2>2. PICK n \in 0..MaxChanges : n = mirror'[e].no
    BY ReaderKeepsTypes DEF Fine, TypeOK
  <2>3. PICK o \in Object : o = Now(e)' /\ o.of = e /\ o.no = n
    <3>1. Now(e)' = [of |-> e, no |-> n]
      BY <2>2 DEF Now
    <3>2. [of |-> e, no |-> n] \in Object
      BY DEF Object
    <3> QED  BY <3>1, <3>2
  <2>4. mirror[e].no \in Nat /\ n = mirror[e].no + 1
    BY <1>0, <2>1, <2>2 DEF TypeOK
  <2>5. model'[Now(e)'][p] = "none"
    BY <2>3, <2>4 DEF Fine, BoundsOK
  <2>6. \A w \in Values : Settled(e, p, w) => Settled(e, p, w)'
    BY <1>3, <2>5 DEF Settled, FreshValues
  <2>7. \A w \in Values : ~Announced(e, p, w)
    <3>1. Has(frames, {Added(e)})
      BY <1>0, <1>7, HasTail
    <3> QED  BY <3>1 DEF Announced
  <2> QED  BY <1>0, <1>3, <1>4, <1>5, <2>6, <2>7, TrueKept
<1>8. Now(e)' = Now(e) \/ Head(frames) = Added(e)
  <2>1. Head(frames) # Added(e) => mirror'[e].no = mirror[e].no
    <3>1. mirror'[e] \in {[no |-> mirror[e].no, shown |-> FALSE], mirror[e]} \/ Head(frames) = Added(e)
      BY <1>0, ReaderMirrors
    <3> QED  BY <3>1
  <2> QED  BY <2>1 DEF Now
<1> QED  BY <1>6, <1>7, <1>8

LEMMA OtherValuesKeepTrue ==
  ASSUME Fine, NEW e \in Elements, NEW p \in Props, SetOK(e, p), ValueOK(e, p), ProcessFrame, ~crashed',
         NEW d \in Elements, NEW q \in Props, NEW v \in Values, ReadsValue(d, q, v), d # e \/ q # p
  PROVE  SetOK(e, p)' /\ ValueOK(e, p)'
<1>0. /\ TypeOK /\ frames # <<>> /\ frames' = Tail(frames) /\ frames \in Seq(Frame) /\ events \in Seq(Event)
      /\ UNCHANGED <<exists, value, rows, changed, mirror>>
  BY ReaderDoes, ReaderStores DEF Fine, TypeOK
<1>1. Head(frames) \notin FreshValues(e, p)
  BY DEF FreshValues, ReadsValue
<1>2. Has(events, FreshEvents(e, p)) => Has(events', FreshEvents(e, p))
  <2>1. PICK new \in Event : events' = Append(events, new)
    <3>1. events' = Append(events, PropertyOf(d, q))
      BY DEF ReadsValue, ProcessValue, PropertyOf
    <3> QED  BY <3>1, NewEvents
  <2> QED  BY <1>0, <2>1, CoveredAppend
<1>3. /\ ~Has(frames, FreshValues(e, p)) => ~Has(frames', FreshValues(e, p))
      /\ ~Has(frames, {Added(e)}) => ~Has(frames', {Added(e)})
      /\ \A w \in Values : Carried(e, p, w) => Carried(e, p, w)'
  BY <1>0, <1>1, CarriedLeaves
<1>4. /\ Now(e)' = Now(e) /\ Now(e) \in Object /\ Now(e).of = e
      /\ Now(d) \in Object /\ Now(d).of = d
  BY <1>0, ObjectFields DEF Now
<1>5. \A x \in Object, r \in Props : x # Now(d) \/ r # q => model'[x][r] = model[x][r]
  BY ReaderStores DEF Fine
<1>6. model'[Now(e)][p] = model[Now(e)][p]
  BY <1>4, <1>5
<1>7. p \in DOMAIN rows /\ rows[p].of = e => model'[rows[p]][p] = model[rows[p]][p]
  BY <1>0, <1>4, <1>5 DEF TypeOK
<1>8. (UNCHANGED <<commands, crossed>>) \/ Sends(Now(d), q, v, "widget", Tail(frames))
  BY ReaderStores DEF ReadsValue, ProcessValue, AddProperty, UpdateGvalue, Echo
<1>9. UNCHANGED commands \/ \E c \in Command : commands' = Append(commands, c) /\ c \notin Sets(e, p)
  <2>1. Set(d, q, v, "widget") \in Command /\ Set(d, q, v, "widget") \notin Sets(e, p)
    BY NewCommands, NewCommandFields DEF Sets, IsSet
  <2> QED  BY <1>4, <1>8, <2>1 DEF Sends
<1>10. (Uncrossed(e, p)' => Uncrossed(e, p)) /\ (Unchanged(e, p)' => Unchanged(e, p) /\ value'[e][p] = value[e][p])
  BY <1>0, <1>8 DEF Uncrossed, Unchanged, Sends
<1>11. \A w \in Values : Shows(e, p, w) => Shows(e, p, w)'
  BY <1>0, <1>7 DEF Shows
<1>12. \A w \in Values : Settled(e, p, w) => Settled(e, p, w)'
  BY <1>3, <1>4, <1>6 DEF Settled, FreshValues
<1>13. \A w \in Values : Announced(e, p, w) => Announced(e, p, w)'
  BY <1>2, <1>3, <1>4, <1>6 DEF Announced, FreshEvents, Added
<1> QED  BY <1>0, <1>3, <1>9, <1>10, <1>11, <1>12, <1>13, TrueKept

\* The value itself: it is stored before the event is posted.
LEMMA ValueKeepsTrue ==
  ASSUME Fine, MirrorOK, NEW e \in Elements, NEW p \in Props, SetOK(e, p), ValueOK(e, p), ProcessFrame, ~crashed',
         NEW v \in Values, ReadsValue(e, p, v)
  PROVE  SetOK(e, p)' /\ ValueOK(e, p)'
<1>0. /\ TypeOK /\ frames # <<>> /\ frames' = Tail(frames) /\ frames \in Seq(Frame) /\ events \in Seq(Event)
      /\ Head(frames) \in Frame
      /\ UNCHANGED <<exists, value, rows, changed, mirror>>
  BY ReaderDoes, ReaderStores DEF Fine, TypeOK
<1>1. Now(e)' = Now(e) /\ Now(e) \in Object /\ Now(e).of = e
  BY <1>0, ObjectFields DEF Now
<1>2. Head(frames).what = "value" /\ Head(frames).of = e /\ Head(frames).prop = p /\ Head(frames).is = v
  BY DEF ReadsValue
<1>3. Has(frames, FreshValues(e, p))
  <2>1. Head(frames) \in FreshValues(e, p)
    BY <1>0, <1>2 DEF FreshValues
  <2> QED  BY <1>0, <2>1, HasTail
<1>4. \A w \in Values : ~Settled(e, p, w)
  BY <1>3 DEF Settled
<1>5. Has(events', FreshEvents(e, p))
  <2>1. events' = Append(events, PropertyOf(e, p))
    BY DEF ReadsValue, ProcessValue, PropertyOf
  <2>2. PICK new \in Event : new = PropertyOf(e, p) /\ new \in FreshEvents(e, p)
    BY NewEvents DEF FreshEvents
  <2> QED  BY <1>0, <2>1, <2>2, CoveredAppend
<1>6. ASSUME NEW w \in Values, Carried(e, p, w)
      PROVE  /\ Carried(e, p, w)' \/ v = w
             /\ Carried(e, p, w)' \/ (~Has(frames', FreshValues(e, p)) /\ ~Has(frames', {Added(e)}))
             /\ Carried(e, p, w)' \/ ~Has(frames, {Added(e)})
  <2>1. /\ Has(frames, Right(e, p, w)) <=> Head(frames) \in Right(e, p, w) \/ Has(frames', Right(e, p, w))
        /\ Covered(frames', Wrong(e, p, w), Right(e, p, w))
    BY <1>0, <1>6, RightIsNotWrong, HasTail, CoveredTail DEF Carried
  <2>2. Has(frames', Right(e, p, w)) => Carried(e, p, w)'
    BY <2>1 DEF Carried, Right, Wrong, Added
  <2>3. ASSUME ~Has(frames', Right(e, p, w))
        PROVE  v = w /\ ~Has(frames', FreshValues(e, p)) /\ ~Has(frames', {Added(e)}) /\ ~Has(frames, {Added(e)})
    <3>1. v = w
      BY <1>2, <1>6, <2>1, <2>3 DEF Carried, Right
    <3>2. PICK rest \in Seq(Frame) : rest = frames'
      BY <1>0, ReaderDoes
    <3>3. \A i \in 1..Len(rest) : rest[i] \in Frame
      BY <3>2, ElementOfSeq
    <3>4. \A i \in 1..Len(rest) : rest[i] \notin Wrong(e, p, w) /\ rest[i] \notin Right(e, p, w)
      <4>1. Len(rest) \in Nat
        BY <3>2
      <4> QED  BY <2>1, <2>3, <3>2, <4>1 DEF Has, Covered
    <3>5. ~Has(rest, FreshValues(e, p)) /\ ~Has(rest, {Added(e)})
      BY <3>3, <3>4 DEF Has, FreshValues, Wrong, Right, IsValue
    <3>6. Head(frames) # Added(e)
      BY <1>2, NewFrameFields
    <3>7. ~Has(frames, {Added(e)})
      BY <1>0, <3>2, <3>5, <3>6, HasTail
    <3> QED  BY <3>1, <3>2, <3>5, <3>7
  <2> QED  BY <2>2, <2>3
<1>7. /\ ~mirror[e].shown => UNCHANGED <<commands, crossed>>
      /\ mirror[e].shown => model'[Now(e)][p] = v
  BY ReaderStores
<1>8. CASE UNCHANGED <<commands, crossed>>
  <2>1. (Uncrossed(e, p)' => Uncrossed(e, p)) /\ (Pending(e, p)' => Pending(e, p))
        /\ (Unchanged(e, p)' => Unchanged(e, p) /\ value'[e][p] = value[e][p])
        /\ (~Pending(e, p)' => ~Pending(e, p))
    BY <1>0, <1>8 DEF Uncrossed, Unchanged, Pending, Sets
  <2>2. SetOK(e, p)'
    BY <1>4, <2>1 DEF SetOK, SetStands
  <2>3. ASSUME Uncrossed(e, p)', Unchanged(e, p)', ~Pending(e, p)' PROVE Told(e, p, value[e][p])'
    <3>1. PICK w \in Values : w = value[e][p]
      BY <1>0 DEF TypeOK
    <3>2. Told(e, p, w) /\ e \in exists /\ value'[e][p] = w
      BY <2>1, <2>3, <3>1 DEF ValueOK, Unchanged
    <3>3. CASE Has(commands, Gets(e, p))
      BY <1>8, <3>1, <3>2, <3>3 DEF Told, Gets
    <3>4. CASE Carried(e, p, w)
      <4>1. CASE Carried(e, p, w)'
        BY <3>2, <4>1 DEF Told, Carried, Right, Wrong
      <4>2. CASE ~Carried(e, p, w)'
        <5>1. /\ v = w /\ ~Has(frames, {Added(e)})
              /\ ~Has(frames', FreshValues(e, p)) /\ ~Has(frames', {Added(e)})
          BY <1>6, <3>4, <4>2
        <5>2. mirror[e].shown
          BY <3>2, <5>1 DEF MirrorOK
        <5>3. model'[Now(e)'][p] = w
          BY <1>1, <1>7, <5>1, <5>2
        <5>4. Settled(e, p, w)' /\ Announced(e, p, w)'
          BY <1>5, <5>1, <5>3 DEF Settled, Announced, FreshValues, FreshEvents, Added
        <5> QED  BY <3>2, <5>4 DEF Told, Settled, Announced
      <4> QED  BY <4>1, <4>2
    <3> QED  BY <1>4, <3>2, <3>3, <3>4 DEF Told
  <2> QED  BY <2>2, <2>3 DEF ValueOK
<1>9. CASE Bound(Now(e), p) /\ Sends(Now(e), p, v, "widget", Tail(frames)) /\ mirror[e].shown
  <2>1. PICK c \in Command : commands' = Append(commands, c) /\ IsSet(c, e, p) /\ c.to = v
    <3>1. commands' = Append(commands, Set(e, p, v, "widget"))
      BY <1>1, <1>9 DEF Sends
    <3> QED  BY <3>1, NewCommands, NewCommandFields DEF IsSet
  <2>2. ASSUME Uncrossed(e, p)'
        PROVE  ~Has(commands, Gets(e, p)) /\ Settled(e, p, v)' /\ Shows(e, p, v)'
    <3>1. crossed' = IF Asked(e, p) \/ Answered(e, p, frames') \/ Now(e) # Now(e)
                     THEN crossed \cup {<<e, p, "widget">>} ELSE crossed
      BY <1>0, <1>1, <1>9 DEF Sends
    <3>2. ~Asked(e, p) /\ ~Answered(e, p, frames')
      <4>1. <<e, p, "widget">>[1] = e /\ <<e, p, "widget">>[2] = p
        OBVIOUS
      <4>2. <<e, p, "widget">> \notin crossed'
        BY <2>2, <4>1 DEF Uncrossed
      <4> QED  BY <3>1, <4>2
    <3>3. DOMAIN frames' = 1..Len(frames') /\ DOMAIN commands = 1..Len(commands)
      <4>1. frames' \in Seq(Frame) /\ commands \in Seq(Command)
        BY <1>0, ReaderDoes DEF TypeOK
      <4> QED  BY <4>1, LenProperties
    <3>4. ~Has(commands, Gets(e, p))
      BY <3>2, <3>3 DEF Asked, Has, Gets, IsGet
    <3>5. ~Has(frames', FreshValues(e, p))
      BY <3>2, <3>3 DEF Answered, Has, FreshValues
    <3>6. Settled(e, p, v)'
      BY <1>1, <1>7, <1>9, <3>5 DEF Settled, FreshValues
    <3>7. Shows(e, p, v)'
      BY <1>0, <1>7, <1>9 DEF Shows, Bound
    <3> QED  BY <3>4, <3>6, <3>7
  <2> QED  BY <1>0, <2>1, <2>2, SetBegins
<1>10. ASSUME mirror[e].shown
       PROVE  (UNCHANGED <<commands, crossed>>) \/ (Bound(Now(e), p) /\ Sends(Now(e), p, v, "widget", Tail(frames)))
  BY <1>10 DEF ReadsValue, ProcessValue, AddProperty, UpdateGvalue, Echo
<1> QED  BY <1>7, <1>8, <1>9, <1>10

\* What is sent, or happens to the pipeline, that does not concern a property.
LEMMA FramesKeepTrue ==
  ASSUME TypeOK, NEW e \in Elements, NEW p \in Props, SetOK(e, p), ValueOK(e, p),
         UNCHANGED <<mirror, model, rows, events>>,
         Uncrossed(e, p)' => Uncrossed(e, p),
         \/ UNCHANGED commands
         \/ commands # <<>> /\ commands' = Tail(commands) /\ Head(commands) \notin Sets(e, p)
            /\ (Unchanged(e, p)' => Head(commands) \notin Gets(e, p)),
         Unchanged(e, p)' => Unchanged(e, p) /\ value'[e][p] = value[e][p],
         \/ UNCHANGED frames
         \/ \E sent \in Seq(Frame) : /\ frames' = frames \o sent
                                     /\ \A i \in 1..Len(sent) : sent[i] \notin FreshValues(e, p)
                                     /\ Unchanged(e, p)' => \A i \in 1..Len(sent) : sent[i] # Added(e)
  PROVE  SetOK(e, p)' /\ ValueOK(e, p)'
<1>1. /\ ~Has(frames, FreshValues(e, p)) => ~Has(frames', FreshValues(e, p))
      /\ Unchanged(e, p)' => /\ ~Has(frames, {Added(e)}) => ~Has(frames', {Added(e)})
                             /\ \A w \in Values : Carried(e, p, w) => Carried(e, p, w)'
  <2>1. CASE UNCHANGED frames
    BY <2>1 DEF Carried, Right, Wrong, Added
  <2>2. ASSUME NEW sent \in Seq(Frame), frames' = frames \o sent,
               \A i \in 1..Len(sent) : sent[i] \notin FreshValues(e, p),
               Unchanged(e, p)' => \A i \in 1..Len(sent) : sent[i] # Added(e)
        PROVE  /\ ~Has(frames, FreshValues(e, p)) => ~Has(frames', FreshValues(e, p))
               /\ Unchanged(e, p)' => /\ ~Has(frames, {Added(e)}) => ~Has(frames', {Added(e)})
                                      /\ \A w \in Values : Carried(e, p, w) => Carried(e, p, w)'
    BY <2>2, CarriedGrows
  <2> QED  BY <2>1, <2>2
<1>2. /\ \A w \in Values : Settled(e, p, w) => Settled(e, p, w)'
      /\ \A w \in Values : Shows(e, p, w) => Shows(e, p, w)'
      /\ \A w \in Values : Announced(e, p, w) /\ (Has(events, FreshEvents(e, p)) => Has(events', FreshEvents(e, p)))
           /\ (~Has(frames, {Added(e)}) => ~Has(frames', {Added(e)})) => Announced(e, p, w)'
  BY <1>1, SettledRests
<1>3. \A w \in Values : Unchanged(e, p)' /\ Announced(e, p, w) => Announced(e, p, w)'
  BY <1>1, <1>2
<1> QED  BY <1>1, <1>2, <1>3, TrueKept

\* An answer has the value, and nothing is on its way that would be set behind it.
LEMMA AnswerIsTrue ==
  ASSUME TypeOK, NEW e \in Elements, NEW p \in Props, SetOK(e, p), ValueOK(e, p), e \in exists,
         commands # <<>>, commands' = Tail(commands),
         NEW all \in Asks, Head(commands) = Get(e, all), ProcessPropertyRequest(e, all), p \in AskedFor(e, all)
  PROVE  SetOK(e, p)' /\ ValueOK(e, p)'
<1>0. frames \in Seq(Frame) /\ commands \in Seq(Command) /\ UNCHANGED value
  BY DEF TypeOK, ProcessPropertyRequest
<1>1. PICK w \in Values : w = value[e][p]
  BY DEF TypeOK
<1>2. PICK sent \in Seq(Frame) : frames' = frames \o sent /\ Answers(sent, e, AskedFor(e, all))
  BY AnswerDoes
<1>3. ASSUME NEW i \in 1..Len(sent)
      PROVE  sent[i] \notin Wrong(e, p, w)
  <2>1. PICK q \in AskedFor(e, all) : sent[i] = ValueOf(e, q, value[e][q])
    BY <1>2 DEF Answers
  <2>2. PICK f : f = sent[i]
    OBVIOUS
  <2>3. f.what = "value" /\ f.of = e /\ f.prop = q /\ f.is = value[e][q]
    BY <2>1, <2>2, NewFrameFields
  <2>4. Added(e).what = "added"
    BY NewFrameFields
  <2>5. f \notin Wrong(e, p, w)
    BY <1>1, <2>3, <2>4 DEF Wrong, IsValue
  <2> QED  BY <2>2, <2>5
<1>4. Has(sent, Right(e, p, w))
  <2>1. PICK i \in 1..Len(sent) : sent[i] = ValueOf(e, p, value[e][p])
    BY <1>2 DEF Answers
  <2>2. PICK f \in Frame : f = sent[i]
    BY <1>2, ElementOfSeq
  <2>3. f.what = "value" /\ f.of = e /\ f.prop = p /\ f.is = value[e][p]
    BY <2>1, <2>2, NewFrameFields
  <2>4. f \in Right(e, p, w)
    BY <1>1, <2>3 DEF Right, IsValue
  <2> QED  BY <2>2, <2>4 DEF Has
<1>5. Has(frames', Right(e, p, w)) /\ Covered(frames', Wrong(e, p, w), Right(e, p, w))
  <2>1. Covered(sent, Wrong(e, p, w), Right(e, p, w))
    BY <1>3 DEF Covered
  <2> QED  BY <1>0, <1>2, <1>4, <2>1, CoveredConcat
<1>6. ValueOK(e, p)'
  <2>1. Told(e, p, value[e][p])'
    BY <1>0, <1>1, <1>5 DEF Told, Carried, Right, Wrong, Added
  <2> QED  BY <2>1 DEF ValueOK
<1>7. Head(commands) \in Gets(e, p)
  <2>1. all \in {"", p}
    BY DEF AskedFor
  <2>2. PICK c \in Command : c = Get(e, all)
    BY NewCommands
  <2>3. c.op = "get" /\ c.of = e /\ c.prop = all
    BY <2>2, NewCommandFields
  <2>4. c \in Gets(e, p)
    BY <2>1, <2>3 DEF Gets, IsGet
  <2> QED  BY <2>2, <2>4
<1>8. ASSUME Uncrossed(e, p)' PROVE ~Has(commands', Sets(e, p))
  <2>1. CASE Uncrossed(e, p)
    <3>1. CASE Pending(e, p)
      <4>1. PICK u \in Values : SetStands(e, p, u)
        BY <2>1, <3>1 DEF SetOK
      <4> QED  BY <1>0, <1>7, <4>1, AheadTail DEF SetStands
    <3>2. CASE ~Pending(e, p)
      BY <1>0, <3>2, HasTail DEF Pending
    <3> QED  BY <3>1, <3>2
  <2>2. CASE ~Uncrossed(e, p)
    <3>1. PICK x \in crossed : x[1] = e /\ x[2] = p
      BY <2>2 DEF Uncrossed
    <3>2. x \notin crossed'
      BY <1>8, <3>1 DEF Uncrossed
    <3>3. ~Overtaken(e, p)
      BY <3>1, <3>2 DEF ProcessPropertyRequest
    <3>4. ASSUME NEW i \in 1..Len(commands'), commands'[i] \in Sets(e, p) PROVE FALSE
      <4>1. i + 1 \in 2..Len(commands) /\ commands'[i] = commands[i + 1]
        BY <1>0
      <4>2. commands[i + 1].op = "set" /\ commands[i + 1].of = e /\ commands[i + 1].prop = p
        BY <3>4, <4>1 DEF Sets, IsSet
      <4> QED  BY <3>3, <4>1, <4>2 DEF Overtaken
    <3> QED  BY <3>4 DEF Has
  <2> QED  BY <2>1, <2>2
<1>9. SetOK(e, p)'
  BY <1>8 DEF SetOK, Pending, Sets
<1> QED  BY <1>6, <1>9

\* A value that is set is the last one, or there is another of its property.
LEMMA SetIsTrue ==
  ASSUME TypeOK, NEW e \in Elements, NEW p \in Props, SetOK(e, p), ValueOK(e, p),
         commands # <<>>, commands' = Tail(commands), UNCHANGED <<exists, mirror, model, rows, events>>,
         NEW v \in Values, Head(commands) \in SetsTo(e, p, v), SetProperty(e, p, v)
  PROVE  SetOK(e, p)' /\ ValueOK(e, p)'
<1>0. commands \in Seq(Command) /\ UNCHANGED <<frames, crossed>> /\ value \in [Elements -> [Props -> Values]]
      /\ Head(commands) \in Sets(e, p) /\ Now(e)' = Now(e)
  BY DEF TypeOK, SetProperty, Sets, SetsTo, Now
<1>1. Uncrossed(e, p)' => Uncrossed(e, p)
  BY <1>0 DEF Uncrossed
<1>2. Pending(e, p)
  BY <1>0, HasTail DEF Pending
<1>3. ASSUME NEW w \in Values, SetStands(e, p, w)
      PROVE  /\ Has(commands', SetsTo(e, p, w)) \/ v = w
             /\ Has(commands', Sets(e, p)) => Has(commands', SetsTo(e, p, w))
             /\ Covered(commands', SetsBut(e, p, w), SetsTo(e, p, w))
             /\ Ahead(commands', Sets(e, p), Gets(e, p))
             /\ Settled(e, p, w)' /\ Shows(e, p, w)'
  <2>1. \A x \in SetsBut(e, p, w) : x \notin SetsTo(e, p, w)
    BY DEF SetsBut, SetsTo
  <2>2. /\ Has(commands, SetsTo(e, p, w)) <=> Head(commands) \in SetsTo(e, p, w) \/ Has(commands', SetsTo(e, p, w))
        /\ Covered(commands', SetsBut(e, p, w), SetsTo(e, p, w))
        /\ Ahead(commands', Sets(e, p), Gets(e, p))
    BY <1>0, <1>3, <2>1, HasTail, CoveredTail, AheadTail DEF SetStands
  <2>3. Has(commands', SetsTo(e, p, w)) \/ v = w
    BY <1>3, <2>2 DEF SetStands, SetsTo
  <2>4. ASSUME Has(commands', Sets(e, p)) PROVE Has(commands', SetsTo(e, p, w))
    <3>1. PICK rest \in Seq(Command) : rest = commands'
      BY <1>0, HeadTailProperties
    <3>2. PICK i \in 1..Len(rest) : rest[i] \in Sets(e, p)
      BY <2>4, <3>1 DEF Has
    <3>3. rest[i] \in SetsTo(e, p, w) \/ rest[i] \in SetsBut(e, p, w)
      BY <3>2 DEF Sets, SetsTo, SetsBut
    <3>4. Covered(rest, SetsBut(e, p, w), SetsTo(e, p, w)) /\ Len(rest) \in Nat
      BY <2>2, <3>1
    <3>5. \E j \in 1..Len(rest) : rest[j] \in SetsTo(e, p, w)
      BY <3>2, <3>3, <3>4 DEF Covered
    <3> QED  BY <3>1, <3>5 DEF Has
  <2>5. Settled(e, p, w)' /\ Shows(e, p, w)'
    BY <1>0, <1>3 DEF SetStands, Settled, Shows, FreshValues
  <2> QED  BY <2>2, <2>3, <2>4, <2>5
<1>4. SetOK(e, p)'
  <2> SUFFICES ASSUME Uncrossed(e, p)', Pending(e, p)' PROVE \E w \in Values : SetStands(e, p, w)'
    BY DEF SetOK, Values
  <2>1. PICK w \in Values : SetStands(e, p, w)
    BY <1>1, <1>2 DEF SetOK
  <2>2. Has(commands', Sets(e, p))
    BY DEF Pending, Sets
  <2>3. SetStands(e, p, w)'
    BY <1>3, <2>1, <2>2 DEF SetStands, SetsTo, SetsBut, Sets, Gets
  <2> QED  BY <2>3
<1>5. ValueOK(e, p)'
  <2> SUFFICES ASSUME Uncrossed(e, p)', Unchanged(e, p)', ~Pending(e, p)' PROVE Told(e, p, value[e][p])'
    BY DEF ValueOK
  <2>1. PICK w \in Values : SetStands(e, p, w)
    BY <1>1, <1>2 DEF SetOK
  <2>2. ~Has(commands', Sets(e, p)) /\ e \in exists
    BY DEF Pending, Sets, Unchanged
  <2>3. ~Has(commands', SetsTo(e, p, w))
    BY <2>2 DEF Has, Sets, SetsTo
  <2>4. v = w /\ value'[e][p] = v
    BY <1>0, <1>3, <2>1, <2>2, <2>3 DEF SetProperty, Found
  <2>5. Settled(e, p, w)' /\ Shows(e, p, w)'
    BY <1>3, <2>1
  <2> QED  BY <2>4, <2>5 DEF Told, Settled, Shows
<1> QED  BY <1>4, <1>5

LEMMA ServerKeepsTrue ==
  ASSUME TypeOK, NEW e \in Elements, NEW p \in Props, SetOK(e, p), ValueOK(e, p), Serve
  PROVE  SetOK(e, p)' /\ ValueOK(e, p)'
<1>0. /\ commands # <<>> /\ Head(commands) \in Command /\ commands' = Tail(commands)
      /\ UNCHANGED <<exists, mirror, model, rows, events>> /\ Serves(Head(commands))
  BY ServerDoes
<1>1. ASSUME NEW d \in Elements, NEW all \in Asks, Head(commands) = Get(d, all), ProcessPropertyRequest(d, all)
      PROVE  SetOK(e, p)' /\ ValueOK(e, p)'
  <2>1. Head(commands).op = "get" /\ Head(commands).of = d /\ Head(commands).prop = all
    BY <1>1, NewCommandFields
  <2>2. CASE d = e /\ p \in AskedFor(e, all)
    <3>1. e \in exists
      BY <2>2 DEF AskedFor, Found
    <3> QED  BY <1>0, <1>1, <2>2, <3>1, AnswerIsTrue
  <2>3. CASE d # e \/ p \notin AskedFor(d, all)
    <3>1. PICK sent \in Seq(Frame) : frames' = frames \o sent /\ Answers(sent, d, AskedFor(d, all))
      BY <1>1, AnswerDoes
    <3>2. ASSUME NEW i \in 1..Len(sent) PROVE sent[i] \notin FreshValues(e, p) /\ sent[i] # Added(e)
      <4>1. PICK q \in AskedFor(d, all) : sent[i] = ValueOf(d, q, value[d][q])
        BY <3>1 DEF Answers
      <4>2. PICK f : f = sent[i]
        OBVIOUS
      <4>3. f.what = "value" /\ f.of = d /\ f.prop = q /\ Added(e).what = "added"
        BY <4>1, <4>2, NewFrameFields
      <4> QED  BY <2>3, <4>2, <4>3 DEF FreshValues
    <3>3. /\ changed' = changed \ ({d} \X AskedFor(d, all)) /\ UNCHANGED value
          /\ \A x \in crossed : x \notin crossed' => x[1] = d /\ x[2] \in AskedFor(d, all)
      BY <1>1 DEF ProcessPropertyRequest, AskedFor
    <3>4. Uncrossed(e, p)' => Uncrossed(e, p)
      BY <2>3, <3>3 DEF Uncrossed
    <3>5. Unchanged(e, p)' => Unchanged(e, p) /\ value'[e][p] = value[e][p]
      BY <1>0, <2>3, <3>3 DEF Unchanged
    <3>6. Head(commands) \notin Sets(e, p)
      BY <2>1 DEF Sets, IsSet
    <3>7. e \in exists => Head(commands) \notin Gets(e, p)
      BY <2>1, <2>3 DEF Gets, IsGet, AskedFor, Found
    <3>8. Unchanged(e, p)' => Head(commands) \notin Gets(e, p)
      BY <1>0, <3>7 DEF Unchanged
    <3> QED  BY <1>0, <3>1, <3>2, <3>4, <3>5, <3>6, <3>8, FramesKeepTrue
  <2> QED  BY <2>2, <2>3
<1>2. ASSUME NEW d \in Elements, NEW q \in Props, NEW v \in Values, NEW by \in {"user", "widget"},
             Head(commands) = Set(d, q, v, by), SetProperty(d, q, v)
      PROVE  SetOK(e, p)' /\ ValueOK(e, p)'
  <2>1. /\ Head(commands).op = "set" /\ Head(commands).of = d /\ Head(commands).prop = q
        /\ Head(commands).to = v
    BY <1>2, NewCommandFields
  <2>2. CASE d = e /\ q = p
    <3>1. Head(commands) \in SetsTo(e, p, v)
      BY <1>0, <2>1, <2>2 DEF SetsTo, IsSet
    <3> QED  BY <1>0, <1>2, <2>2, <3>1, SetIsTrue
  <2>3. CASE d # e \/ q # p
    <3>1. UNCHANGED <<frames, crossed>> /\ changed' = changed \ {<<d, q>>}
          /\ value' = IF d \in exists THEN [value EXCEPT ![d][q] = v] ELSE value
      BY <1>2 DEF SetProperty, Found
    <3>2. value'[e][p] = value[e][p]
      BY <2>3, <3>1 DEF TypeOK
    <3>3. (Uncrossed(e, p)' => Uncrossed(e, p)) /\ (Unchanged(e, p)' => Unchanged(e, p))
      BY <1>0, <2>3, <3>1 DEF Uncrossed, Unchanged
    <3>4. Head(commands) \notin Sets(e, p) /\ Head(commands) \notin Gets(e, p)
      BY <2>1, <2>3 DEF Sets, IsSet, Gets, IsGet
    <3> QED  BY <1>0, <3>1, <3>2, <3>3, <3>4, FramesKeepTrue
  <2> QED  BY <2>2, <2>3
<1>3. ASSUME NEW f \in Frame, f.what \notin {"value", "added"}, frames' = Append(frames, f),
             UNCHANGED <<value, crossed>>, Head(commands).op \notin {"get", "set"},
             <<e, p>> \in changed => <<e, p>> \in changed'
      PROVE  SetOK(e, p)' /\ ValueOK(e, p)'
  <2>1. PICK sent \in Seq(Frame) : frames' = frames \o sent /\ \A i \in 1..Len(sent) : sent[i] = f
    BY <1>3, OneFrame
  <2>2. f \notin FreshValues(e, p) /\ f # Added(e)
    BY <1>3, NewFrameFields DEF FreshValues
  <2>3. Head(commands) \notin Sets(e, p) /\ Head(commands) \notin Gets(e, p)
    BY <1>3 DEF Sets, IsSet, Gets, IsGet
  <2>4. (Uncrossed(e, p)' => Uncrossed(e, p)) /\ (Unchanged(e, p)' => Unchanged(e, p))
    BY <1>0, <1>3 DEF Uncrossed, Unchanged
  <2> QED  BY <1>0, <1>3, <2>1, <2>2, <2>3, <2>4, FramesKeepTrue
<1>4. ASSUME NEW x \in Pads, Head(commands) = AskPad(x), SendPadDynamicInfo(x)
      PROVE  SetOK(e, p)' /\ ValueOK(e, p)'
  <2>1. frames' = Append(frames, CapsOf(x, caps[x])) /\ caps[x] \in Caps /\ UNCHANGED <<value, crossed>>
    BY <1>4 DEF SendPadDynamicInfo, CapsOf, TypeOK
  <2>2. PICK f \in Frame : f = CapsOf(x, caps[x]) /\ f.what = "pad"
    BY <2>1, NewFrames, NewFrameFields
  <2>3. <<e, p>> # <<x, "caps">>
    BY ObjectsAssumption
  <2>4. <<e, p>> \in changed => <<e, p>> \in changed'
    BY <1>4, <2>3 DEF SendPadDynamicInfo
  <2>5. Head(commands).op = "pad"
    BY <1>4, NewCommandFields
  <2> QED  BY <1>3, <2>1, <2>2, <2>4, <2>5
<1>5. ASSUME Head(commands) = AskKlass, SendKlass
      PROVE  SetOK(e, p)' /\ ValueOK(e, p)'
  <2>1. frames' = Append(frames, TheKlass) /\ UNCHANGED <<value, crossed, changed>>
    BY <1>5 DEF SendKlass, TheKlass
  <2>2. Head(commands).op = "klass" /\ TheKlass.what = "klass"
    BY <1>5, NewCommandFields, NewFrameFields
  <2> QED  BY <1>3, <2>1, <2>2, NewFrames
<1> QED  BY <1>0, <1>1, <1>2, <1>4, <1>5 DEF Serves

LEMMA ApplicationKeepsTrue ==
  ASSUME TypeOK, NEW e \in Elements, NEW p \in Props, SetOK(e, p), ValueOK(e, p), Application
  PROVE  SetOK(e, p)' /\ ValueOK(e, p)'
<1>0. UNCHANGED <<mirror, model, rows, events, commands, crossed>> /\ value \in [Elements -> [Props -> Values]]
  BY ApplicationDoes DEF ApplicationOnly, TypeOK
<1>1. Uncrossed(e, p)' => Uncrossed(e, p)
  BY <1>0 DEF Uncrossed
<1>2. ASSUME UNCHANGED frames, Unchanged(e, p)' => Unchanged(e, p) /\ value'[e][p] = value[e][p]
      PROVE  SetOK(e, p)' /\ ValueOK(e, p)'
  BY <1>0, <1>1, <1>2, FramesKeepTrue
<1>3. ASSUME NEW f \in Frame, frames' = Append(frames, f), f.what # "value", Unchanged(e, p)' => f # Added(e),
             Unchanged(e, p)' => Unchanged(e, p) /\ value'[e][p] = value[e][p]
      PROVE  SetOK(e, p)' /\ ValueOK(e, p)'
  <2>1. PICK sent \in Seq(Frame) : frames' = frames \o sent /\ \A i \in 1..Len(sent) : sent[i] = f
    BY <1>3, OneFrame
  <2>2. f \notin FreshValues(e, p)
    BY <1>3 DEF FreshValues
  <2> QED  BY <1>0, <1>1, <1>3, <2>1, <2>2, FramesKeepTrue
<1>4. CASE /\ UNCHANGED <<exists, caps, frames>>
           /\ \E d \in exists, q \in Props : \E v \in Values \ {value[d][q]} :
                value' = [value EXCEPT ![d][q] = v] /\ changed' = changed \cup {<<d, q>>}
  <2>1. PICK d \in exists, q \in Props : \E v \in Values \ {value[d][q]} :
          value' = [value EXCEPT ![d][q] = v] /\ changed' = changed \cup {<<d, q>>}
    BY <1>4
  <2>2. ASSUME Unchanged(e, p)' PROVE Unchanged(e, p) /\ value'[e][p] = value[e][p]
    <3>1. e \in exists /\ <<e, p>> \notin changed /\ (e # d \/ p # q)
      BY <1>4, <2>1, <2>2 DEF Unchanged
    <3> QED  BY <1>0, <2>1, <3>1 DEF Unchanged
  <2> QED  BY <1>2, <1>4, <2>2
<1>5. CASE /\ UNCHANGED <<exists, value, frames>>
           /\ \E x \in Pads : changed' = changed \cup {<<x, "caps">>}
  BY <1>2, <1>5 DEF Unchanged
<1>6. CASE /\ UNCHANGED <<value, changed>>
           /\ \E d \in exists : exists' = exists \ {d} /\ frames' = Append(frames, Removed(d))
  <2>1. PICK d \in exists : exists' = exists \ {d} /\ frames' = Append(frames, Removed(d))
    BY <1>6
  <2>2. Unchanged(e, p)' => Unchanged(e, p) /\ value'[e][p] = value[e][p]
    BY <1>6, <2>1 DEF Unchanged
  <2>3. d \in Elements /\ Removed(d) \in Frame /\ Removed(d).what # "value" /\ Removed(d) # Added(e)
    BY NewFrames, NewFrameFields, AddedIsNotRemoved DEF TypeOK
  <2> QED  BY <1>3, <2>1, <2>2, <2>3
<1>7. CASE \E d \in Elements \ exists :
             /\ exists' = exists \cup {d} /\ frames' = Append(frames, Added(d))
             /\ value' = [value EXCEPT ![d] = [q \in Props |-> "off"]]
             /\ changed' = changed \cup ({d} \X Props)
  <2>1. PICK d \in Elements \ exists :
          /\ exists' = exists \cup {d} /\ frames' = Append(frames, Added(d))
          /\ value' = [value EXCEPT ![d] = [q \in Props |-> "off"]]
          /\ changed' = changed \cup ({d} \X Props)
    BY <1>7
  <2>2. ASSUME Unchanged(e, p)' PROVE e # d /\ Unchanged(e, p) /\ value'[e][p] = value[e][p]
    <3>1. e # d
      BY <2>1, <2>2 DEF Unchanged
    <3> QED  BY <1>0, <2>1, <2>2, <3>1 DEF Unchanged
  <2>3. Added(d) \in Frame /\ Added(d).what # "value" /\ (e # d => Added(d) # Added(e))
    BY NewFrames, NewFrameFields, AddedIsNotRemoved
  <2> QED  BY <1>3, <2>1, <2>2, <2>3
<1> QED  BY <1>4, <1>5, <1>6, <1>7, ApplicationDoes

LEMMA TrueBegins == Init => TrueOK
<1> SUFFICES ASSUME Init, NEW e \in Elements, NEW p \in Props PROVE SetOK(e, p) /\ ValueOK(e, p)
  BY DEF TrueOK
<1>1. /\ Len(commands) = 0 /\ Len(frames) = 0 /\ DOMAIN rows = {}
      /\ model = [o \in Object |-> [q \in Props |-> "none"]]
  BY DEF Init
<1>2. Now(e) \in Object
  BY FineInit, ObjectFields DEF Fine
<1>3. \A w \in Values : Settled(e, p, w) /\ Shows(e, p, w)
  BY <1>1, <1>2 DEF Settled, Shows, Has
<1>4. ~Pending(e, p) /\ value[e][p] \in Values
  BY <1>1, FineInit DEF Pending, Has, Fine, TypeOK
<1> QED  BY <1>3, <1>4 DEF SetOK, ValueOK, Told

LEMMA TrueStep == Fine /\ MirrorOK /\ TrueOK /\ [Next]_vars => TrueOK'
<1> SUFFICES ASSUME Fine, MirrorOK, TrueOK, [Next]_vars, ~crashed', NEW e \in Elements, NEW p \in Props
             PROVE  SetOK(e, p)' /\ ValueOK(e, p)'
  BY DEF TrueOK
<1>0. TypeOK
  BY DEF Fine
<1>1. CASE UNCHANGED vars
  <2>1. UNCHANGED <<exists, value, mirror, model, frames, changed, crossed, rows, events, commands, crashed>>
    BY <1>1 DEF vars, pipelineVars, modelVars, guiVars, wires, history
  <2>2. SetOK(e, p) /\ ValueOK(e, p)
    BY <2>1 DEF TrueOK
  <2> QED  BY <1>0, <2>1, <2>2, RequestKeepsTrue
<1>2. CASE Next
  <2>1. ~crashed
    BY <1>0, <1>2, ReaderDoes, ServerDoes, ApplicationDoes
       DEF Next, User, SetSelectedObject, Clicks, Refresh, Edit, Dispatch, RequestKlass, Application,
           ChangeValue, ChangeCaps, BinRemove, BinAdd
  <2>2. SetOK(e, p) /\ ValueOK(e, p)
    BY <2>1 DEF TrueOK
  <2>3. CASE ProcessFrame
    <3>1. ASSUME NEW d \in Elements, NEW q \in Props, NEW v \in Values, ReadsValue(d, q, v)
          PROVE  SetOK(e, p)' /\ ValueOK(e, p)'
      BY <2>2, <2>3, <3>1, OtherValuesKeepTrue, ValueKeepsTrue
    <3>2. ASSUME NEW x \in Pads, NEW c \in Caps, ReadsPad(x, c)
          PROVE  UNCHANGED <<model, commands, crossed>> /\ Head(frames).what # "value"
      BY <3>2 DEF ReadsPad, UpdatePadDynamicInfo
    <3>3. ASSUME NEW d \in Elements, NEW shown \in BOOLEAN, ReadsElement(d, shown)
          PROVE  UNCHANGED <<model, commands, crossed>> /\ Head(frames).what # "value"
      <4>1. Added(d).what # "value" /\ Removed(d).what # "value"
        BY NewFrameFields
      <4> QED  BY <3>3, <4>1 DEF ReadsElement, ProcessElement
    <3>4. (\E d \in Elements, q \in Props, v \in Values : ReadsValue(d, q, v))
          \/ (UNCHANGED <<model, commands, crossed>> /\ Head(frames).what # "value")
      BY <1>0, <2>3, <3>2, <3>3, ReaderDoes DEF UpdateKlassModel
    <3> QED  BY <2>2, <2>3, <3>1, <3>4, OtherFramesKeepTrue
  <2> QED  BY <1>0, <1>2, <2>2, <2>3, UserKeepsTrue, EditKeepsTrue, DispatchKeepsTrue, ServerKeepsTrue,
              ApplicationKeepsTrue DEF Next, User
<1> QED  BY <1>1, <1>2

-----------------------------------------------------------------------------
\* The panel of a pad: it shows what is known, or an event will show it; and
\* what is known are the caps, or they are asked for or on their way.
AsksPad(x) == {c \in Command : c.op = "pad" /\ c.of = x}
CapsFrames(x) == {f \in Frame : f.what = "pad" /\ f.of = x}
RightCaps(x, c) == {f \in CapsFrames(x) : f.is = c}
WrongCaps(x, c) == {f \in CapsFrames(x) : f.is # c}

TreeOK == Selecting \/ selected.of \notin Pads \/ tree = <<[of |-> selected.of, caps |-> known[selected.of]]>>
CapsCome(x, c) ==
  /\ Covered(frames, WrongCaps(x, c), RightCaps(x, c))
  /\ Has(frames, RightCaps(x, c)) \/ known[x] = c
PadOK(x) == selected.of = x /\ <<x, "caps">> \notin changed
              => Has(commands, AsksPad(x)) \/ \E c \in Caps : c = caps[x] /\ CapsCome(x, c)
PadsOK == TreeOK /\ \A x \in Pads : PadOK(x)

LEMMA TreeStep ==
  ASSUME TypeOK, TreeOK, Next
  PROVE  TreeOK'
<1>0. events \in Seq(Event)
  BY DEF TypeOK
<1>1. ASSUME events' = Append(events, Select) PROVE Selecting'
  <2>1. PICK new \in Event : new = Select /\ new \in Selects
    BY NewEvents DEF Selects
  <2>2. Has(events', Selects)
    BY <1>0, <1>1, <2>1, CoveredAppend
  <2> QED  BY <2>2 DEF Selecting, Selects
<1>2. CASE SetSelectedObject
  BY <1>1, <1>2 DEF SetSelectedObject, Select, TreeOK
<1>3. CASE Dispatch /\ Head(events).what = "selected"
  <2>1. UNCHANGED <<selected, known>> /\ ShowPadProperties
    BY <1>3 DEF Dispatch, SelectedObjectChanged
  <2> QED  BY <2>1 DEF ShowPadProperties, TreeOK
<1>4. CASE Refresh
  BY <1>4, ObjectsAssumption DEF Refresh, RequestSelectedElementProperty, TreeOK
<1>5. CASE ~(Dispatch /\ Head(events).what = "selected") /\ Selecting
  BY <1>5, SelectingStays DEF TreeOK
<1>6. CASE UNCHANGED <<selected, known, tree>> /\ ~Selecting
  BY <1>6 DEF TreeOK
<1>7. ASSUME NEW x \in Pads, NEW c \in Caps, ReadsPad(x, c), ProcessFrame, ~Selecting PROVE TreeOK'
  <2>1. known' = [known EXCEPT ![x] = c] /\ UNCHANGED <<selected, tree>>
    BY <1>7, ReaderDoes DEF ReadsPad, UpdatePadDynamicInfo
  <2>2. CASE selected.of = x
    BY <1>1, <1>7, <2>2 DEF ReadsPad, UpdatePadDynamicInfo, Select, TreeOK
  <2>3. CASE selected.of # x
    <3>1. selected.of \in Pads => known'[selected.of] = known[selected.of]
      BY <2>1, <2>3 DEF TypeOK
    <3> QED  BY <1>7, <2>1, <3>1 DEF TreeOK
  <2> QED  BY <2>2, <2>3
<1>8. \/ UNCHANGED <<selected, known, tree>> \/ SetSelectedObject \/ Refresh
      \/ Dispatch /\ Head(events).what = "selected"
      \/ ProcessFrame /\ \E x \in Pads, c \in Caps : ReadsPad(x, c)
  <2>1. CASE ProcessFrame
    BY <2>1, ReaderDoes DEF ReadsValue, ProcessValue, ReadsElement, ProcessElement, UpdateKlassModel
  <2>2. CASE Dispatch
    BY <2>2 DEF Dispatch, NewProperty
  <2>3. CASE Edit \/ RequestKlass
    BY <2>3 DEF Edit, RequestKlass, guiVars
  <2> QED  BY <2>1, <2>2, <2>3, ServerDoes, ApplicationDoes DEF Next, User, ApplicationOnly
<1> QED  BY <1>2, <1>3, <1>4, <1>5, <1>6, <1>7, <1>8

LEMMA PadKept ==
  ASSUME TypeOK, NEW x \in Pads, PadOK(x), selected'.of = x => selected.of = x,
         <<x, "caps">> \notin changed' => <<x, "caps">> \notin changed /\ caps'[x] = caps[x],
         known'[x] = known[x], Has(commands, AsksPad(x)) => Has(commands', AsksPad(x)),
         \/ UNCHANGED frames
         \/ frames # <<>> /\ frames' = Tail(frames) /\ Head(frames) \notin CapsFrames(x)
         \/ \E sent \in Seq(Frame) : frames' = frames \o sent /\ \A i \in 1..Len(sent) : sent[i] \notin CapsFrames(x)
  PROVE  PadOK(x)'
<1>0. frames \in Seq(Frame)
  BY DEF TypeOK
<1>1. \A c \in Caps : CapsCome(x, c) => CapsCome(x, c)'
  <2>1. CASE UNCHANGED frames
    BY <2>1 DEF CapsCome, WrongCaps, RightCaps, CapsFrames
  <2>2. CASE frames # <<>> /\ frames' = Tail(frames) /\ Head(frames) \notin CapsFrames(x)
    <3>1. \A c \in Caps : (\A f \in WrongCaps(x, c) : f \notin RightCaps(x, c)) /\ Head(frames) \notin RightCaps(x, c)
      BY <2>2 DEF WrongCaps, RightCaps
    <3>2. ASSUME NEW c \in Caps, CapsCome(x, c) PROVE CapsCome(x, c)'
      <4>1. Covered(frames', WrongCaps(x, c), RightCaps(x, c))
            /\ (Has(frames, RightCaps(x, c)) => Has(frames', RightCaps(x, c)))
        BY <1>0, <2>2, <3>1, <3>2, HasTail, CoveredTail DEF CapsCome
      <4> QED  BY <3>2, <4>1 DEF CapsCome, WrongCaps, RightCaps, CapsFrames
    <3> QED  BY <3>2
  <2>3. ASSUME NEW sent \in Seq(Frame), frames' = frames \o sent,
               \A i \in 1..Len(sent) : sent[i] \notin CapsFrames(x), NEW c \in Caps, CapsCome(x, c)
        PROVE  CapsCome(x, c)'
    <3>1. Covered(sent, WrongCaps(x, c), RightCaps(x, c))
      BY <2>3 DEF Covered, WrongCaps
    <3>2. Covered(frames', WrongCaps(x, c), RightCaps(x, c))
          /\ (Has(frames, RightCaps(x, c)) => Has(frames', RightCaps(x, c)))
      BY <1>0, <2>3, <3>1, CoveredConcat DEF CapsCome
    <3> QED  BY <2>3, <3>2 DEF CapsCome, WrongCaps, RightCaps, CapsFrames
  <2> QED  BY <2>1, <2>2, <2>3
<1> QED  BY <1>1 DEF PadOK, AsksPad, Caps

LEMMA PadIsNoElement ==
  /\ \A x \in Pads, e \in Elements : x # e
  /\ \A x \in Pads, e \in Elements : \A p : <<x, "caps">> # <<e, p>>
BY ObjectsAssumption

LEMMA ReaderKeepsPad ==
  ASSUME TypeOK, NEW x \in Pads, PadOK(x), ProcessFrame, ~Serve
  PROVE  PadOK(x)'
<1>0. /\ frames # <<>> /\ frames' = Tail(frames) /\ frames \in Seq(Frame) /\ Head(frames) \in Frame
      /\ commands \in Seq(Command)
      /\ UNCHANGED <<selected, caps, changed>>
  BY ReaderDoes DEF TypeOK
<1>1. Has(commands, AsksPad(x)) => Has(commands', AsksPad(x))
  <2>1. UNCHANGED commands \/ \E c \in Command : commands' = Append(commands, c)
    BY CommandsStep DEF Next
  <2>2. ASSUME NEW c \in Command, commands' = Append(commands, c), Has(commands, AsksPad(x))
        PROVE  Has(commands', AsksPad(x))
    BY <1>0, <2>2, CoveredAppend
  <2> QED  BY <2>1, <2>2
<1>2. CASE Head(frames) \notin CapsFrames(x) /\ known'[x] = known[x]
  BY <1>0, <1>1, <1>2, PadKept
<1>3. ASSUME NEW c \in Caps, ReadsPad(x, c) PROVE PadOK(x)'
  <2>1. known'[x] = c /\ Head(frames) \in CapsFrames(x) /\ Head(frames).is = c
    BY <1>0, <1>3 DEF ReadsPad, UpdatePadDynamicInfo, CapsFrames, TypeOK
  <2>2. ASSUME NEW a \in Caps, CapsCome(x, a) PROVE CapsCome(x, a)'
    <3>1. \A f \in WrongCaps(x, a) : f \notin RightCaps(x, a)
      BY DEF WrongCaps, RightCaps
    <3>2. /\ Has(frames, RightCaps(x, a)) <=> Head(frames) \in RightCaps(x, a) \/ Has(frames', RightCaps(x, a))
          /\ Covered(frames', WrongCaps(x, a), RightCaps(x, a))
          /\ Head(frames) \in WrongCaps(x, a) => Has(frames', RightCaps(x, a))
      BY <1>0, <2>2, <3>1, HasTail, CoveredTail DEF CapsCome
    <3>3. Has(frames', RightCaps(x, a)) \/ known'[x] = a
      BY <2>1, <3>2 DEF WrongCaps
    <3> QED  BY <3>2, <3>3 DEF CapsCome, WrongCaps, RightCaps, CapsFrames
  <2> QED  BY <1>0, <1>1, <2>2 DEF PadOK, AsksPad, Caps
<1>4. (Head(frames) \notin CapsFrames(x) /\ known'[x] = known[x]) \/ \E c \in Caps : ReadsPad(x, c)
  <2>1. ASSUME NEW y \in Pads, NEW c \in Caps, ReadsPad(y, c), y # x
        PROVE  Head(frames) \notin CapsFrames(x) /\ known'[x] = known[x]
    BY <2>1 DEF ReadsPad, UpdatePadDynamicInfo, CapsFrames, TypeOK
  <2>2. ASSUME NEW e \in Elements, NEW shown \in BOOLEAN, ReadsElement(e, shown)
        PROVE  Head(frames) \notin CapsFrames(x) /\ known'[x] = known[x]
    <3>1. Added(e).what # "pad" /\ Removed(e).what # "pad"
      BY NewFrameFields
    <3> QED  BY <2>2, <3>1 DEF ReadsElement, ProcessElement, CapsFrames
  <2>3. ASSUME NEW e \in Elements, NEW p \in Props, NEW v \in Values, ReadsValue(e, p, v)
        PROVE  Head(frames) \notin CapsFrames(x) /\ known'[x] = known[x]
    BY <2>3 DEF ReadsValue, ProcessValue, CapsFrames
  <2>4. ASSUME Head(frames).what = "klass", UpdateKlassModel
        PROVE  Head(frames) \notin CapsFrames(x) /\ known'[x] = known[x]
    BY <2>4 DEF UpdateKlassModel, CapsFrames
  <2> QED  BY <2>1, <2>2, <2>3, <2>4, ReaderDoes
<1> QED  BY <1>2, <1>3, <1>4

LEMMA ServerKeepsPad ==
  ASSUME TypeOK, NEW x \in Pads, PadOK(x), Serve
  PROVE  PadOK(x)'
<1>0. /\ commands # <<>> /\ Head(commands) \in Command /\ commands' = Tail(commands)
      /\ UNCHANGED <<selected, caps, known>> /\ Serves(Head(commands))
      /\ frames \in Seq(Frame) /\ commands \in Seq(Command)
  BY ServerDoes DEF TypeOK
<1>1. ASSUME Head(commands) \notin AsksPad(x), <<x, "caps">> \notin changed' => <<x, "caps">> \notin changed,
             UNCHANGED frames \/ \E sent \in Seq(Frame) : /\ frames' = frames \o sent
                                                          /\ \A i \in 1..Len(sent) : sent[i] \notin CapsFrames(x)
      PROVE  PadOK(x)'
  <2>1. Has(commands, AsksPad(x)) => Has(commands', AsksPad(x))
    BY <1>0, <1>1, HasTail
  <2> QED  BY <1>0, <1>1, <2>1, PadKept
<1>2. ASSUME NEW d \in Elements, NEW all \in Asks, Head(commands) = Get(d, all), ProcessPropertyRequest(d, all)
      PROVE  PadOK(x)'
  <2>1. Head(commands) \notin AsksPad(x)
    BY <1>2, NewCommandFields DEF AsksPad
  <2>2. changed' = changed \ ({d} \X AskedFor(d, all))
    BY <1>2 DEF ProcessPropertyRequest, AskedFor
  <2>3. <<x, "caps">> \notin changed' => <<x, "caps">> \notin changed
    BY <2>2, PadIsNoElement
  <2>4. PICK sent \in Seq(Frame) : frames' = frames \o sent /\ Answers(sent, d, AskedFor(d, all))
    BY <1>2, AnswerDoes
  <2>5. \A i \in 1..Len(sent) : sent[i].what = "value"
    BY <2>4, NewFrameFields DEF Answers
  <2>6. \A i \in 1..Len(sent) : sent[i] \notin CapsFrames(x)
    BY <2>5 DEF CapsFrames
  <2> QED  BY <1>1, <2>1, <2>3, <2>4, <2>6
<1>3. ASSUME NEW d \in Elements, NEW p \in Props, NEW v \in Values, NEW by \in {"user", "widget"},
             Head(commands) = Set(d, p, v, by), SetProperty(d, p, v)
      PROVE  PadOK(x)'
  <2>1. Head(commands) \notin AsksPad(x)
    BY <1>3, NewCommandFields DEF AsksPad
  <2>2. UNCHANGED frames /\ changed' = changed \ {<<d, p>>}
    BY <1>3 DEF SetProperty
  <2> QED  BY <1>1, <2>1, <2>2, PadIsNoElement
<1>4. ASSUME NEW y \in Pads, Head(commands) = AskPad(y), SendPadDynamicInfo(y) PROVE PadOK(x)'
  <2>1. PICK f \in Frame : frames' = Append(frames, f) /\ f.what = "pad" /\ f.of = y /\ f.is = caps[y]
    <3>1. frames' = Append(frames, CapsOf(y, caps[y])) /\ caps[y] \in Caps
      BY <1>4 DEF SendPadDynamicInfo, CapsOf, TypeOK
    <3> QED  BY <3>1, NewFrames, NewFrameFields
  <2>2. CASE y = x
    <3>1. PICK c \in Caps : c = caps[x]
      BY DEF TypeOK
    <3>2. f \in RightCaps(x, c)
      BY <2>1, <2>2, <3>1 DEF RightCaps, CapsFrames
    <3>3. Has(frames', RightCaps(x, c)) /\ Covered(frames', WrongCaps(x, c), RightCaps(x, c))
      BY <1>0, <2>1, <3>2, CoveredAppend
    <3>4. CapsCome(x, c)'
      BY <3>3 DEF CapsCome, WrongCaps, RightCaps, CapsFrames
    <3> QED  BY <1>0, <3>1, <3>4 DEF PadOK, Caps
  <2>3. CASE y # x
    <3>1. Head(commands) \notin AsksPad(x)
      BY <1>4, <2>3, NewCommandFields DEF AsksPad
    <3>2. <<x, "caps">> \notin changed' => <<x, "caps">> \notin changed
      BY <1>4, <2>3 DEF SendPadDynamicInfo
    <3>3. f \notin CapsFrames(x)
      BY <2>1, <2>3 DEF CapsFrames
    <3>4. PICK sent \in Seq(Frame) : frames' = frames \o sent /\ \A i \in 1..Len(sent) : sent[i] = f
      BY <2>1, OneFrame
    <3> QED  BY <1>1, <3>1, <3>2, <3>3, <3>4
  <2> QED  BY <2>2, <2>3
<1>5. ASSUME Head(commands) = AskKlass, SendKlass PROVE PadOK(x)'
  <2>1. frames' = Append(frames, TheKlass) /\ UNCHANGED changed
    BY <1>5 DEF SendKlass, TheKlass
  <2>2. TheKlass \in Frame /\ TheKlass \notin CapsFrames(x) /\ Head(commands) \notin AsksPad(x)
    BY <1>5, NewFrames, NewFrameFields, NewCommandFields DEF CapsFrames, AsksPad
  <2>3. PICK sent \in Seq(Frame) : frames' = frames \o sent /\ \A i \in 1..Len(sent) : sent[i] = TheKlass
    BY <2>1, <2>2, OneFrame
  <2> QED  BY <1>1, <2>1, <2>2, <2>3
<1> QED  BY <1>0, <1>2, <1>3, <1>4, <1>5 DEF Serves

LEMMA ApplicationKeepsPad ==
  ASSUME TypeOK, NEW x \in Pads, PadOK(x), Application
  PROVE  PadOK(x)'
<1>0. UNCHANGED <<selected, known, commands>> /\ exists \subseteq Elements /\ caps \in [Pads -> Caps]
  BY ApplicationDoes DEF ApplicationOnly, TypeOK
<1>1. /\ changed \subseteq changed'
      /\ <<x, "caps">> \notin changed' => caps'[x] = caps[x]
      /\ UNCHANGED frames \/ \E d \in Elements : frames' = Append(frames, Removed(d)) \/ frames' = Append(frames, Added(d))
  <2>1. ASSUME NEW y \in Pads, caps' = [caps EXCEPT ![y] = @ + 1], changed' = changed \cup {<<y, "caps">>}
        PROVE  changed \subseteq changed' /\ (<<x, "caps">> \notin changed' => caps'[x] = caps[x])
    BY <1>0, <2>1
  <2> QED  BY <1>0, <2>1, ApplicationDoes
<1>2. UNCHANGED frames \/ \E sent \in Seq(Frame) : /\ frames' = frames \o sent
                                                   /\ \A i \in 1..Len(sent) : sent[i] \notin CapsFrames(x)
  <2>1. ASSUME NEW f \in Frame, f \notin CapsFrames(x), frames' = Append(frames, f)
        PROVE  \E sent \in Seq(Frame) : /\ frames' = frames \o sent
                                        /\ \A i \in 1..Len(sent) : sent[i] \notin CapsFrames(x)
    BY <2>1, OneFrame
  <2>2. \A d \in Elements : /\ Removed(d) \in Frame /\ Removed(d) \notin CapsFrames(x)
                            /\ Added(d) \in Frame /\ Added(d) \notin CapsFrames(x)
    BY NewFrames, NewFrameFields DEF CapsFrames
  <2> QED  BY <1>1, <2>1, <2>2
<1> QED  BY <1>0, <1>1, <1>2, PadKept

LEMMA SelectKeepsPad ==
  ASSUME TypeOK, NEW x \in Pads, PadOK(x), SetSelectedObject
  PROVE  PadOK(x)'
<1>0. UNCHANGED <<caps, known, changed, frames>> /\ commands \in Seq(Command)
  BY DEF SetSelectedObject, pipelineVars, modelVars, history, TypeOK
<1>1. PICK y \in Elements \cup Pads \cup {Nothing} :
        /\ selected' = ObjectOf(y) /\ commands' = IF y \in Pads THEN Append(commands, AskPad(y)) ELSE commands
  BY DEF SetSelectedObject, AskPad
<1>2. CASE y = x
  <2>1. PICK c \in Command : c \in AsksPad(x) /\ commands' = Append(commands, c)
    BY <1>1, <1>2, NewCommands, NewCommandFields DEF AsksPad
  <2>2. Has(commands', AsksPad(x))
    BY <1>0, <2>1, CoveredAppend
  <2> QED  BY <2>2 DEF PadOK, AsksPad
<1>3. CASE y # x
  <2>1. selected'.of # x
    BY <1>1, <1>3, ObjectsAssumption DEF ObjectOf, NoObject, Now
  <2> QED  BY <2>1 DEF PadOK
<1> QED  BY <1>2, <1>3

LEMMA PadsStep == Fine /\ PadsOK /\ [Next]_vars => PadsOK'
<1> SUFFICES ASSUME Fine, PadsOK, [Next]_vars PROVE PadsOK'
  OBVIOUS
<1>0. TypeOK /\ TreeOK /\ (\A x \in Pads : PadOK(x)) /\ commands \in Seq(Command)
  BY DEF Fine, PadsOK, TypeOK
<1>1. CASE UNCHANGED vars
  BY <1>1 DEF vars, pipelineVars, modelVars, guiVars, wires, history, PadsOK, TreeOK, PadOK, CapsCome, Selecting
<1>2. CASE Next
  <2>1. ASSUME NEW x \in Pads PROVE PadOK(x)'
    <3>1. CASE Serve
      BY <1>0, <3>1, ServerKeepsPad
    <3>2. CASE (Refresh \/ Edit \/ Dispatch \/ RequestKlass) /\ ~Serve
      <4>1. UNCHANGED <<selected, caps, changed, known, frames>>
        BY <3>2 DEF Refresh, Edit, Dispatch, RequestKlass, pipelineVars, modelVars, guiVars, history
      <4>2. UNCHANGED commands \/ \E c \in Command : commands' = Append(commands, c)
        BY <1>0, <1>2, <3>2, CommandsStep
      <4>3. ASSUME NEW c \in Command, commands' = Append(commands, c), Has(commands, AsksPad(x))
            PROVE  Has(commands', AsksPad(x))
        BY <1>0, <4>3, CoveredAppend
      <4> QED  BY <1>0, <4>1, <4>2, <4>3, PadKept
    <3>3. CASE ProcessFrame /\ ~Serve
      BY <1>0, <3>3, ReaderKeepsPad
    <3> QED  BY <1>0, <1>2, <3>1, <3>2, <3>3, SelectKeepsPad, ApplicationKeepsPad DEF Next, User
  <2> QED  BY <1>0, <1>2, <2>1, TreeStep DEF PadsOK
<1> QED  BY <1>1, <1>2

LEMMA PadsInit == Init => PadsOK
BY ObjectsAssumption DEF Init, PadsOK, TreeOK, PadOK, NoObject

\* What a row shows is the value the element has, unless the application has
\* changed it since or it was set with an older answer under way: every request,
\* answer and event of ElementPropertiesModule is handled in the order it came.
\* The panel of a pad shows the caps of the last answer.
THEOREM PanelIsTrue == Spec => []ShownIsTrue
<1>1. Fine /\ TrueOK /\ PadsOK => ShownIsTrue
  <2> SUFFICES ASSUME Fine, TrueOK, PadsOK, Quiet
               PROVE  /\ \A p \in DOMAIN rows :
                           LET e == rows[p].of
                           IN e \in exists /\ <<e, p>> \notin changed \cup {<<q[1], q[2]>> : q \in crossed}
                              => model[rows[p]][p] = value[e][p]
                      /\ selected.of \in Pads =>
                           /\ tree = <<[of |-> selected.of, caps |-> known[selected.of]]>>
                           /\ <<selected.of, "caps">> \in changed \/ known[selected.of] = caps[selected.of]
    BY DEF ShownIsTrue
  <2>1. ~crashed /\ Len(events) = 0 /\ Len(commands) = 0 /\ Len(frames) = 0
    BY DEF Quiet
  <2>2. \A G : ~Has(events, G) /\ ~Has(commands, G) /\ ~Has(frames, G)
    BY <2>1 DEF Has
  <2>3. ASSUME NEW p \in DOMAIN rows, NEW e \in exists, e = rows[p].of,
               <<e, p>> \notin changed \cup {<<q[1], q[2]>> : q \in crossed}
        PROVE  model[rows[p]][p] = value[e][p]
    <3>1. e \in Elements /\ p \in Props /\ value[e][p] \in Values
      BY DEF Fine, TypeOK
    <3>2. Uncrossed(e, p) /\ Unchanged(e, p)
      BY <2>3 DEF Uncrossed, Unchanged
    <3>3. Told(e, p, value[e][p])
      BY <2>1, <2>2, <3>1, <3>2 DEF TrueOK, ValueOK, Pending
    <3> QED  BY <2>2, <2>3, <3>3 DEF Told, Carried, Announced, Shows
  <2>4. ASSUME NEW x \in Pads, x = selected.of
        PROVE  /\ tree = <<[of |-> x, caps |-> known[x]]>>
               /\ <<x, "caps">> \in changed \/ known[x] = caps[x]
    <3>1. tree = <<[of |-> x, caps |-> known[x]]>>
      BY <2>2, <2>4 DEF PadsOK, TreeOK, Selecting
    <3>2. <<x, "caps">> \in changed \/ known[x] = caps[x]
      BY <2>2, <2>4 DEF PadsOK, PadOK, CapsCome
    <3> QED  BY <3>1, <3>2
  <2> QED  BY <2>3, <2>4
<1> QED  BY <1>1, FineInit, FineStep, MirrorInit, MirrorOKStep, TrueBegins, TrueStep, PadsInit, PadsStep, PTL DEF Spec
=============================================================================
