------------------------------ MODULE ThemeFile ------------------------------
(***************************************************************************)
(* Reading a theme file (theme/src/lib.rs) and its colours, whose parser   *)
(* the repository has twice, with the same behaviour                       *)
(* (shared/src/theme/color.rs).  A file is [toml, fields, tokens]: whether *)
(* it is TOML, whether its other fields are well-formed, and the value of  *)
(* each token, by path.  A colour's text is [form, chars, fields]: the     *)
(* characters after "#", or the comma-separated fields in parentheses; an  *)
(* alpha field with a point has tenths.                                    *)
(***************************************************************************)
EXTENDS Naturals, Sequences, SequencesExt

CONSTANTS
  UiTokens, SyntaxTokens, TerminalTokens, \* the paths of the required tokens, by section
  Wide                                    \* a character of two bytes

Digits == <<"0", "1", "2", "3", "4", "5", "6", "7", "8", "9", "a", "b", "c", "d", "e", "f">>
DigitOf(char) == SelectInSeq(Digits, LAMBDA d : d = char) - 1

(***************************************************************************)
(* A byte from its two hexadecimal digits: 256 when it is none.  The       *)
(* standard library takes a plus sign before a single digit.               *)
(***************************************************************************)
NoByte == 256

HexByte(high, low) ==
  IF low \notin ToSet(Digits) THEN NoByte
  ELSE IF high \in ToSet(Digits) THEN 16 * DigitOf(high) + DigitOf(low)
  ELSE IF high = "+" THEN DigitOf(low) ELSE NoByte

(***************************************************************************)
(* parse_hex counts and cuts bytes, one channel after the other; a cut     *)
(* inside a character panics.                                              *)
(***************************************************************************)
Bytes(chars) ==
  FlattenSeq([i \in DOMAIN chars |-> IF chars[i] = Wide THEN <<"lead", "trail">> ELSE <<chars[i]>>])

Channel(bytes, i) ==
  LET high == bytes[2 * i - 1]
      low  == bytes[2 * i]
  IN IF high = "trail" \/ low = "lead" THEN "panic"
     ELSE IF HexByte(high, low) = NoByte THEN "invalid" ELSE "byte"

Color(r, g, b, a) == [is |-> "color", rgba |-> <<r, g, b, a>>]
Invalid == [is |-> "invalid", rgba |-> <<>>]

ParseHex(chars) ==
  LET bytes == Bytes(chars)
      at    == [i \in 1..(Len(bytes) \div 2) |-> Channel(bytes, i)]
      wrong == SelectInSeq(at, LAMBDA channel : channel # "byte")
      byte  == [i \in DOMAIN at |-> HexByte(bytes[2 * i - 1], bytes[2 * i])]
  IN IF Len(bytes) \notin {6, 8} THEN Invalid
     ELSE IF wrong # 0 THEN [Invalid EXCEPT !.is = at[wrong]]
     ELSE Color(byte[1], byte[2], byte[3], IF Len(bytes) = 8 THEN byte[4] ELSE 255)

(***************************************************************************)
(* parse_rgb, parse_rgba, parse_u8; parse_alpha takes a fraction of 1 with *)
(* a point and a byte without, and rounds half up.                         *)
(***************************************************************************)
ParseU8(field) == IF field.kind = "integer" /\ field.n \in 0..255 THEN field.n ELSE NoByte

ParseAlpha(field) ==
  IF field.kind = "tenths" THEN IF field.n \in 0..10 THEN (field.n * 51 + 1) \div 2 ELSE NoByte
  ELSE ParseU8(field)

ParseFields(form, fields) ==
  LET channels == [i \in DOMAIN fields |->
                     IF i = 4 THEN ParseAlpha(fields[i]) ELSE ParseU8(fields[i])]
  IN IF Len(fields) # [rgb |-> 3, rgba |-> 4][form] \/ NoByte \in ToSet(channels) THEN Invalid
     ELSE Color(channels[1], channels[2], channels[3], IF form = "rgba" THEN channels[4] ELSE 255)

ParseColor(text) ==
  CASE text.form = "hex"           -> ParseHex(text.chars)
    [] text.form \in {"rgb", "rgba"} -> ParseFields(text.form, text.fields)
    [] OTHER                       -> Invalid

(***************************************************************************)
(* Display, which is the stored form too: #RRGGBBAA.                       *)
(***************************************************************************)
High(n) == Digits[(n \div 16) + 1]
Low(n)  == Digits[(n % 16) + 1]

Display(color) ==
  LET rgba == color.rgba
  IN [form |-> "hex", fields |-> <<>>,
      chars |-> <<High(rgba[1]), Low(rgba[1]), High(rgba[2]), Low(rgba[2]),
                  High(rgba[3]), Low(rgba[3]), High(rgba[4]), Low(rgba[4])>>]

-----------------------------------------------------------------------------
(***************************************************************************)
(* parse_theme: the first required token that is absent, section by        *)
(* section; then whatever the deserializer stumbles over first, the path   *)
(* of a colour error being that of the first text that is no colour.       *)
(* ParseTheme is the set of answers; a number in place of a text is a bad  *)
(* field; looking for that path, too, a text may panic.                    *)
(***************************************************************************)
Absent == [form |-> "absent", chars |-> <<>>, fields |-> <<>>]
Number == [form |-> "number", chars |-> <<>>, fields |-> <<>>]

Required == UiTokens \o SyntaxTokens \o TerminalTokens
First(faulty) == Required[SelectInSeq(Required, LAMBDA p : p \in faulty)]

Answer(is, path) == [is |-> is, path |-> path]

(***************************************************************************)
(* Mutation of InferColorPath: numbers are taken for bad colours.          *)
(***************************************************************************)
InferColorPathAny(file) ==
  First({p \in ToSet(Required) : ParseColor(file.tokens[p]).is # "color"})

Worded(file) == {p \in ToSet(Required) : file.tokens[p] # Number}
InferColorPath(file) == First({p \in Worded(file) : ParseColor(file.tokens[p]).is # "color"})

ParseTheme(file) ==
  IF ~file.toml THEN {Answer("InvalidToml", "unknown")}
  ELSE IF \E p \in ToSet(Required) : file.tokens[p] = Absent
       THEN {Answer("MissingToken", First({p \in ToSet(Required) : file.tokens[p] = Absent}))}
  ELSE LET panics == {p \in Worded(file) : ParseColor(file.tokens[p]).is = "panic"}
           bad    == {p \in Worded(file) : ParseColor(file.tokens[p]).is = "invalid"}
           odd    == ~file.fields \/ Worded(file) # ToSet(Required)
       IN IF panics \cup bad = {} /\ ~odd THEN {Answer("theme", "unknown")}
          ELSE {Answer("panic", "unknown") : p \in panics}
               \cup {IF InferColorPath(file) \in panics THEN Answer("panic", "unknown")
                     ELSE Answer("InvalidColor", InferColorPath(file)) : p \in bad}
               \cup {Answer("InvalidField", "unknown") : o \in {TRUE} \cap {odd}}

-----------------------------------------------------------------------------
(***************************************************************************)
(* What a text is made of: characters, of which those that stand for a     *)
(* digit are one byte, and no character is a half of one.                  *)
(***************************************************************************)
ColorText == [form : STRING, chars : Seq(STRING \ {"lead", "trail"}),
              fields : Seq([kind : STRING, n : Nat])]

Lexical ==
  /\ Wide \notin ToSet(Digits)
  /\ UiTokens \in Seq(STRING) /\ SyntaxTokens \in Seq(STRING) /\ TerminalTokens \in Seq(STRING)

ThemeText == [toml : BOOLEAN, fields : BOOLEAN, tokens : [ToSet(Required) -> ColorText]]

(***************************************************************************)
(* A file is a theme exactly if nothing is wrong with it, and a complaint  *)
(* about a token is about one that has the fault; a colour is stored as a  *)
(* text that is read back as the same colour.  A panic takes six or eight  *)
(* bytes with a character of two that straddles a channel.                 *)
(***************************************************************************)
FaultsAreNamed(file) ==
  LET Fine(p) == ParseColor(file.tokens[p]).is = "color"
      tokens  == ToSet(Required)
  IN \A answer \in ParseTheme(file) :
       /\ answer.is = "theme" <=> file.toml /\ file.fields /\ \A p \in tokens : Fine(p)
       /\ answer.is = "MissingToken" => file.tokens[answer.path] = Absent
       /\ answer.is = "InvalidColor" =>
            ~Fine(answer.path) /\ file.tokens[answer.path] \notin {Absent, Number}
       /\ answer.is = "panic" => \E p \in tokens : Wide \in ToSet(file.tokens[p].chars)

ColorsReadBack(text) ==
  LET color == ParseColor(text)
  IN color.is = "color" => /\ ParseColor(Display(color)) = color
                           /\ \A i \in 1..4 : color.rgba[i] \in 0..255
=============================================================================
