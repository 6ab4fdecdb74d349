----------------------------- MODULE KeyBindings -----------------------------
(***************************************************************************)
(* Key bindings (shared/src/keybinding.rs): the parser, and the canonical  *)
(* form a binding is shown and stored in.  A text is the sequence of its   *)
(* trimmed segments between "+" signs.  The parser drops letter case from  *)
(* ASCII letters before anything else; segments here are lower case.       *)
(***************************************************************************)
EXTENDS Naturals, Sequences, SequencesExt, FiniteSets

CONSTANTS
  Char,     \* segments of one character
  Numbered, \* segments that are an f and a u8: a function to that number
  Padded    \* the ones of these written with leading zeros

(***************************************************************************)
(* The flag each spelling of a modifier sets, and the spellings of the     *)
(* named keys by the canonical one.                                        *)
(***************************************************************************)
Flags == {"ctrl", "shift", "alt", "cmd"}

ModifierNames ==
  [ctrl |-> {"ctrl", "control"}, shift |-> {"shift"}, alt |-> {"alt", "option"},
   cmd |-> {"cmd", "meta", "super"}]

KeyNames ==
  [escape |-> {"esc"}, tab |-> {}, enter |-> {"return"}, backspace |-> {}, delete |-> {"del"},
   home |-> {}, end |-> {}, pageup |-> {"page_up", "pgup"}, pagedown |-> {"page_down", "pgdn"},
   arrowup |-> {"arrow_up", "up"}, arrowdown |-> {"arrow_down", "down"},
   arrowleft |-> {"arrow_left", "left"}, arrowright |-> {"arrow_right", "right"}, space |-> {}]

Blank == "blank" \* stands for the segment with no character

(***************************************************************************)
(* What tells segments of different kinds apart: names have letters, a     *)
(* function key has a digit, and each has a spelling without zeros.        *)
(***************************************************************************)
Spelled(names) == DOMAIN names \cup UNION {names[name] : name \in DOMAIN names}

Lexical ==
  /\ Char \cap (DOMAIN Numbered \cup Spelled(ModifierNames) \cup Spelled(KeyNames)
                \cup {Blank}) = {}
  /\ DOMAIN Numbered \cap (Spelled(ModifierNames) \cup Spelled(KeyNames) \cup {Blank}) = {}
  /\ \A segment \in DOMAIN Numbered : Numbered[segment] \in 1..24 =>
       \E other \in DOMAIN Numbered \ Padded : Numbered[other] = Numbered[segment]

FlagsOf(segment) == {flag \in Flags : segment \in ModifierNames[flag]}
NamesOf(segment) == {name \in DOMAIN KeyNames : segment \in {name} \cup KeyNames[name]}

(***************************************************************************)
(* parse_key: an f with a number is a function key or nothing, then the    *)
(* names, then any single character.  Leading zeros are accepted.          *)
(***************************************************************************)
Key(kind, is) == [kind |-> kind, is |-> is]
NoKey == Key("none", "none")

ParseKey(segment) ==
  IF segment \in DOMAIN Numbered
  THEN IF Numbered[segment] \in 1..24 THEN Key("F", Numbered[segment]) ELSE NoKey
  ELSE IF NamesOf(segment) # {}
  THEN Key("Named", CHOOSE name \in NamesOf(segment) : TRUE)
  ELSE IF segment \in Char THEN Key("Char", segment) ELSE NoKey

(***************************************************************************)
(* KeyBinding::parse: the key's errors come before the modifiers', and of  *)
(* these the first in the text.                                            *)
(***************************************************************************)
Binding(modifiers, key) == [error |-> "none", modifiers |-> modifiers, key |-> key]
Error(error) == [error |-> error, modifiers |-> {}, key |-> NoKey]

(***************************************************************************)
(* Mutation of Repeats: only the same spelling is a repetition.            *)
(***************************************************************************)
RepeatsVerbatim(text, i) == \E j \in 1..(i - 1) : text[j] = text[i]

Repeats(text, i) == \E j \in 1..(i - 1) : FlagsOf(text[j]) \cap FlagsOf(text[i]) # {}

Parse(text) ==
  LET last    == text[Len(text)]
      before  == 1..(Len(text) - 1)
      wrong   == {i \in before : FlagsOf(text[i]) = {} \/ Repeats(text, i)}
      first   == CHOOSE i \in wrong : \A j \in wrong : i <= j
  IN IF text = <<Blank>> THEN Error("Empty")
     ELSE IF Blank \in ToSet(text) THEN Error("EmptyToken")
     ELSE IF FlagsOf(last) # {} THEN Error("MissingKey")
     ELSE IF ParseKey(last) = NoKey THEN Error("UnknownKey")
     ELSE IF wrong # {}
          THEN Error(IF FlagsOf(text[first]) = {} THEN "UnknownModifier" ELSE "DuplicateModifier")
     ELSE Binding(UNION {FlagsOf(text[i]) : i \in before}, ParseKey(last))

(***************************************************************************)
(* Display: the flags in a fixed order, then the key's canonical name.     *)
(***************************************************************************)
CanonicalToken(key) ==
  IF key.kind = "F"
  THEN CHOOSE segment \in DOMAIN Numbered \ Padded : Numbered[segment] = key.is
  ELSE key.is

Shown(flag, binding) == IF flag \in binding.modifiers THEN <<flag>> ELSE <<>>

Display(binding) ==
  Shown("ctrl", binding) \o Shown("shift", binding) \o Shown("alt", binding)
    \o Shown("cmd", binding) \o <<CanonicalToken(binding.key)>>

-----------------------------------------------------------------------------
(***************************************************************************)
(* A text is a binding exactly if it is one flag per segment, in any order *)
(* and spelling and none twice, and then a key; and what is stored of the  *)
(* binding, its canonical form, is read back as the same binding.          *)
(***************************************************************************)
IsKey(segment) ==
  \/ segment \in Char \/ NamesOf(segment) # {}
  \/ segment \in DOMAIN Numbered /\ Numbered[segment] \in 1..24

ReadsBack(text) ==
  LET binding == Parse(text)
      flags   == UNION {FlagsOf(text[i]) : i \in DOMAIN text}
  IN /\ binding.error = "none" <=> Cardinality(flags) = Len(text) - 1 /\ IsKey(text[Len(text)])
                                /\ \A i \in 1..(Len(text) - 1) : FlagsOf(text[i]) # {}
     /\ binding.error = "none" => Parse(Display(binding)) = binding /\ binding.modifiers = flags
=============================================================================
