------------------------------ MODULE MCDesktop ------------------------------
(***************************************************************************)
(* The parts behind the desktop shell for model checking.                  *)
(***************************************************************************)
EXTENDS Desktop, TLC

CONSTANTS f1, f2, plain, bold

(***************************************************************************)
(* Themes: two files, a bundled theme (1) of two looks and a theme of one  *)
(* look that is not bundled (2); at the start one file is there.           *)
(***************************************************************************)
MCId == {1, 2}
MCBundled == {1}
MCSaved == {NoFile, Broken, [id |-> 1, look |-> plain], [id |-> 1, look |-> bold],
            [id |-> 2, look |-> plain]}
MCInitially == {[f \in File |-> IF f = f1 THEN [id |-> 1, look |-> plain] ELSE NoFile]}

(***************************************************************************)
(* Key bindings: segments of every kind, some in two spellings.  Commands: *)
(* one key in two scopes, and a key written in an odd way.                 *)
(***************************************************************************)
MCChar == {"a", "f"}
MCNumbered ==
  ("f0" :> 0) @@ ("f1" :> 1) @@ ("f05" :> 5) @@ ("f5" :> 5) @@ ("f24" :> 24) @@ ("f25" :> 25)
Segments == {Keys!Blank, "ctrl", "control", "alt", "super", "meta", "a", "f", "f05", "f24", "f25",
             "pgup", "page_up", "nosuch"}
KeyTexts == UNION {[1..n -> Segments] : n \in 1..3}

MCTexts == {{}, {<<"control", "a">>}, {<<"shift", "cmd", "f05">>}}
MCScopes == {{"chat"}, {"editor"}, {"chat", "editor"}}
MCFilters == {{}, {"chat"}, {"editor"}}

(***************************************************************************)
(* The ledger: u32 ends at 3; two budgets, reports of one and of four      *)
(* tokens, no retries or up to two.                                        *)
(***************************************************************************)
MCDeltas ==
  {[input |-> 1, output |-> 0, cached |-> 0], [input |-> 0, output |-> 2, cached |-> 2]}
MCBudgets ==
  {[Turns |-> {}, Tokens |-> {3}, ToolCalls |-> {2}, WallClock |-> {1}],
   [Turns |-> {3}, Tokens |-> {2}, ToolCalls |-> {}, WallClock |-> {}]}
MCPolicies ==
  {[max_transient_attempts |-> m, transient_backoff |-> <<1, 2>>] : m \in {0, 3}}

(***************************************************************************)
(* Colours: hexadecimal texts of three to eight bytes with every oddity at *)
(* every place, and lists of fields at and past the ends of their ranges.  *)
(* Theme files: three tokens in two sections, whatever is wrong with them. *)
(***************************************************************************)
MCUiTokens == <<"background", "foreground">>
MCSyntaxTokens == <<"keyword">>
MCTerminalTokens == <<>>
Hex(chars) == [form |-> "hex", chars |-> chars, fields |-> <<>>]
Fields(form, fields) == [form |-> form, chars |-> <<>>, fields |-> fields]
N(n) == [kind |-> "integer", n |-> n]

HexTexts ==
  {Hex(<<a, b, c>> \o rest) :
     a \in {"f", "W", "+", "g"}, b \in {"0", "W", "+"}, c \in {"1", "W"},
     rest \in {<<>>, <<"a">>, <<"0", "0", "9">>, <<"0", "0", "9", "+", "9">>}}
FieldTexts ==
  {Fields("rgb", SubSeq(<<N(255), N(g), N(0), N(7)>>, 1, n)) : g \in {0, 128, 256}, n \in 2..4}
    \cup {Fields("rgba", <<N(255), N(3), N(0), alpha>>) :
            alpha \in [kind : {"integer", "tenths", "word"}, n : {0, 5, 10, 255, 256}]}
Word == [form |-> "word", chars |-> <<>>, fields |-> <<>>]

(***************************************************************************)
(* Network patterns: up to five tokens, against hosts of one label and of  *)
(* three.                                                                  *)
(***************************************************************************)
PatternTexts == UNION {[1..n -> {"*", ".", ":", "api", "com", "443"}] : n \in 0..5}
MCHosts == {<<"com">>, <<"api", ".", "com">>, <<"com", ".", "com">>}

(***************************************************************************)
(* Log files: one start, which finds an old file, a ring of two lines.     *)
(***************************************************************************)
MCLogFiles == {[form |-> "dated", day |-> 0]}

Tokens ==
  {Hex(<<"0", "1", "2", "3", "e", "f">>), Hex(<<"g">>), Hex(<<"W", "W", "W">>),
   Hex(<<"0", "W", "W", "0">>), ThemeFiles!Absent, ThemeFiles!Number}
ThemeTexts ==
  [toml : BOOLEAN, fields : BOOLEAN, tokens : [{"background", "foreground", "keyword"} -> Tokens]]

MCWritten ==
  [keys |-> KeyTexts, color |-> HexTexts \cup FieldTexts \cup {Word}, theme |-> ThemeTexts,
   pattern |-> PatternTexts]
=============================================================================
