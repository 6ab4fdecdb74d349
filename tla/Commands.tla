------------------------------ MODULE Commands ------------------------------
(***************************************************************************)
(* The command registry (shared/src/command.rs) under hot reload, and the  *)
(* way from a key press to a handler: lookup_by_keybinding, then handler,  *)
(* under one borrow of the registry.  Labels, categories and descriptions  *)
(* are left out; nothing registers or dispatches in this repository yet,   *)
(* so `Press` puts the registry's two lookups together as its              *)
(* documentation does.                                                     *)
(***************************************************************************)
EXTENDS Naturals

CONSTANTS
  CommandId, Handler, NoHandler,
  Texts,     \* what default key bindings are written as; {} is none
  CommandScopes, Filters,
  Char, Numbered, Padded,
  MaxRegistrations

Keys == INSTANCE KeyBindings

VARIABLES
  entries,  \* CommandRegistry::entries
  pressed,  \* the last key press: the binding, the focus, and what it ran; {} otherwise
  registrations

vars == <<entries, pressed, registrations>>

Bindings == UNION {{binding \in {Keys!Parse(text)} : binding.error = "none"} : text \in UNION Texts}
Unregistered == [keys |-> {}, scope |-> {}, handler |-> NoHandler]

TypeOK ==
  /\ entries \in [CommandId -> [keys : {{}} \cup {{b} : b \in Bindings},
                               scope : CommandScopes \cup {{}},
                               handler : Handler \cup {NoHandler}]]
  /\ registrations \in 0..MaxRegistrations

Init ==
  /\ entries = [id \in CommandId |-> Unregistered]
  /\ pressed = {}
  /\ registrations = 0

(***************************************************************************)
(* register: record and handler of an earlier entry are both replaced.     *)
(***************************************************************************)
Register(id, text, scope, handler) ==
  /\ registrations < MaxRegistrations /\ registrations' = registrations + 1
  /\ entries' = [entries EXCEPT ![id] =
       [keys |-> {Keys!Parse(t) : t \in text}, scope |-> scope, handler |-> handler]]
  /\ pressed' = {}

Unregister(id) ==
  /\ entries[id] # Unregistered
  /\ entries' = [entries EXCEPT ![id] = Unregistered]
  /\ pressed' = {}
  /\ UNCHANGED registrations

(***************************************************************************)
(* list and list_for_scope.  A filter matches a scope it shares a flag     *)
(* with, so an empty one matches none.                                     *)
(***************************************************************************)
Registered == {id \in CommandId : entries[id] # Unregistered}
Matches(filter, scope) == filter \cap scope # {}
ListForScope(filter) == {id \in Registered : Matches(filter, entries[id].scope)}

(***************************************************************************)
(* Mutation of LookupByKeybinding: the first command of the key decides,   *)
(* in scope or not.                                                        *)
(***************************************************************************)
LookupByKeybindingFirst(binding, filter) ==
  LET bound == {id \in Registered : entries[id].keys = {binding}}
  IN IF bound \ ListForScope(filter) # {} THEN {} ELSE bound

(***************************************************************************)
(* lookup_by_keybinding: any one of these; the map's order decides.        *)
(***************************************************************************)
LookupByKeybinding(binding, filter) ==
  {id \in ListForScope(filter) : entries[id].keys = {binding}}

Press(binding, filter) ==
  LET found == LookupByKeybinding(binding, filter)
      Runs(ids) == pressed' = {[binding |-> binding, filter |-> filter, runs |-> ids,
                                handlers |-> {entries[id].handler : id \in ids}]}
  IN /\ IF found = {} THEN Runs({}) ELSE \E id \in found : Runs({id})
     /\ UNCHANGED <<entries, registrations>>

Next ==
  \/ \E id \in CommandId, text \in Texts, scope \in CommandScopes, handler \in Handler :
       Register(id, text, scope, handler)
  \/ \E id \in CommandId : Unregister(id)
  \/ \E binding \in Bindings, filter \in Filters : Press(binding, filter)

-----------------------------------------------------------------------------
(***************************************************************************)
(* The accelerator hint of a palette row works: with a command listed for  *)
(* the focus, pressing what its row shows runs a listed command with that  *)
(* hint, whatever else has the same key elsewhere and whatever was         *)
(* registered under the identifier before; and with none listed it runs    *)
(* nothing.                                                                *)
(***************************************************************************)
Hint(id) == {Keys!Display(b) : b \in entries[id].keys}

HintsWork ==
  \A press \in pressed :
    LET shown == {id \in Registered : /\ \E flag \in entries[id].scope : flag \in press.filter
                                      /\ press.binding \in {Keys!Parse(t) : t \in Hint(id)}}
    IN /\ press.runs \subseteq shown
       /\ shown # {} => press.handlers \in {{entries[id].handler} : id \in shown}
=============================================================================
