----------------------------- MODULE HookLists -----------------------------
(***************************************************************************)
(* The listener lists of the debug server: what a hook is, when one hook   *)
(* covers a request, and what adding and removing do to a client's list.   *)
(*                                                                         *)
(* Every hub (log, event, query, buffer, message) keeps, per client, a     *)
(* GSList of hooks and is given a comparison function.  The module is      *)
(* parameterised by the hub's kind; the payload of a hook is abstracted to *)
(* the fields the comparison functions read:                               *)
(*   n     debug level, event/query type or message type (0 for buffers)   *)
(*   name  debug category or pad path (NoName where the hub has none)      *)
(*   any   the pad pointer (or the category) is NULL, so the hook stands   *)
(*         for every pad (category)                                        *)
(***************************************************************************)
EXTENDS Integers, Sequences, SequencesExt

CONSTANTS
  Kind,        \* which hub this is
  Numbers,     \* levels or types in use
  Names,       \* categories or pad paths in use
  NoName,      \* the empty string
  MessageAny   \* GST_MESSAGE_ANY

ASSUME KindAssumption    == Kind \in {"log", "event", "query", "buffer", "message"}
ASSUME NumbersAssumption == Numbers \subseteq Int
ASSUME NamesAssumption   == NoName \in Names
\* Buffer hooks have no number: a pad path is their whole key.
ASSUME BufferAssumption  == Kind = "buffer" => Numbers = {0}

PadKind == Kind \in {"event", "query", "buffer"}

\* What the user's request names: the key of a hook.
Key  == {k \in [n : Numbers, name : Names] : Kind = "message" => k.name = NoName}
KeyOf(h) == [n |-> h.n, name |-> h.name]
Hook == {h \in [n : Numbers, name : Names, any : BOOLEAN] : KeyOf(h) \in Key}

-----------------------------------------------------------------------------
\* The comparison functions, "existing listener a answers for b".

DebugHookCompare(a, b)  == a.n >= b.n /\ (a.any \/ a.name = b.name)
QeHookCompare(a, b)     == a.n = b.n /\ (a.name = b.name \/ a.any)
BufferHookCompare(a, b) == a.name = b.name \/ a.any
MessageCompare(a, b)    == a.n = b.n

Covers(a, b) ==
  \/ Kind = "log" /\ DebugHookCompare(a, b)
  \/ Kind \in {"event", "query"} /\ QeHookCompare(a, b)
  \/ Kind = "buffer" /\ BufferHookCompare(a, b)
  \/ Kind = "message" /\ MessageCompare(a, b)

\* The ok functions: does listener h let the event e through?  Only messages
\* have a wildcard that adding and removing do not know about.
MessageOk(h, e) == h.n = e.n \/ h.n = MessageAny
Passes(h, e) == IF Kind = "message" THEN MessageOk(h, e) ELSE Covers(h, e)

-----------------------------------------------------------------------------
\* g_slist_find_custom: the position of the first listener that covers b, as
\* a set that is empty when there is none.
FirstCovering(list, b) ==
  {i \in DOMAIN list : /\ Covers(list[i], b)
                       /\ \A j \in 1..(i - 1) : ~Covers(list[j], b)}

IsCovered(list, b) == \E i \in DOMAIN list : Covers(list[i], b)

\* Mutant: the hook is appended without looking for one that covers it.
AddHookUnchecked(list, h) == {Append(list, h)}

\* The lists gst_debugserver_hooks_add_hook may leave when it returns TRUE: it
\* turns down what some listener already covers.
AddHook(list, h) == IF IsCovered(list, h) THEN {} ELSE {Append(list, h)}

\* Mutants: any covering listener may go; the shortened list is not stored.
RemoveHookAny(list, b) == {RemoveAt(list, i) : i \in {j \in DOMAIN list : Covers(list[j], b)}}
RemoveHookUnstored(list, b) == {list : i \in FirstCovering(list, b)}

\* The lists gst_debugserver_hooks_remove_hook may leave when it returns TRUE:
\* only the first listener that covers b goes.
RemoveHook(list, b) == {RemoveAt(list, i) : i \in FirstCovering(list, b)}

\* The first listener that lets e through decides for the whole client.
FirstPassing(list, e) ==
  {i \in DOMAIN list : /\ Passes(list[i], e)
                       /\ \A j \in 1..(i - 1) : ~Passes(list[j], e)}
=============================================================================
