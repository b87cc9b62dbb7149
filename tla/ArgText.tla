------------------------------- MODULE ArgText -------------------------------
(***************************************************************************)
(* The text and the ArgMeta that the parser gives a word of a command      *)
(* (src/src/parser/helpers.rs), by the way it is quoted: an unquoted       *)
(* "word", a "raw" string in apostrophes, a "string" in quotation marks,    *)
(* and an "ansi" string in $'...'.                                         *)
(*                                                                         *)
(* A source is the sequence of code points between the quotes.             *)
(***************************************************************************)
EXTENDS Integers, SequencesExt, TLC

TextKinds == {"word", "raw", "string", "ansi"}

\* Bell, newline, quotation mark, $, apostrophe, *, 0, 8, backslash, a, n, x, ~
TextChars(kind) ==
  CASE kind = "ansi" -> {7, 10, 34, 39, 48, 56, 92, 97, 110, 120}
    [] OTHER -> {10, 34, 36, 39, 42, 92, 97, 126}

-----------------------------------------------------------------------------
\* The escapes of one character, but for the quotes and the backslash.
Controls == [c \in {97, 98, 101, 102, 110, 114, 116, 118} |->
               CASE c = 97 -> 7 [] c = 98 -> 8 [] c = 101 -> 27 [] c = 102 -> 12
                 [] c = 110 -> 10 [] c = 114 -> 13 [] c = 116 -> 9 [] c = 118 -> 11]
Quotables == {92, 39, 34}

HexDigits == [c \in 48..57 \cup 97..102 |-> IF c <= 57 THEN c - 48 ELSE c - 87]
OctalDigits == [c \in 48..55 |-> c - 48]

\* How many of the (up to max) characters from i on are digits, and the number
\* that n of them make.
Digits(s, i, max, digits) ==
  LET ends == {n \in 0..max : /\ i + n - 1 <= Len(s)
                              /\ \A k \in i..(i + n - 1) : s[k] \in DOMAIN digits}
  IN CHOOSE n \in ends : \A m \in ends : m <= n
Number(s, i, n, digits, base) ==
  LET F[k \in 0..n] == IF k = 0 THEN 0
                       ELSE LET high == F[k - 1]
                            IN base * high + digits[s[i + k - 1]]
  IN F[n]

\* The text of what is at i, a character or an escape, and how long it is there;
\* an escape that is not one stays as it is written.
EscapeAt(s, i) ==
  LET c == s[i+1]
      hex == Digits(s, i + 2, 2, HexDigits)
      octal == Digits(s, i + 1, 3, OctalDigits)
      is(text, width) == [text |-> <<text>>, width |-> width]
  IN IF s[i] # 92 \/ i = Len(s) THEN is(s[i], 1)
     ELSE IF c \in DOMAIN Controls THEN is(Controls[c], 2)
     ELSE IF c \in Quotables THEN is(c, 2)
     ELSE IF c = 120 /\ hex > 0 THEN is(Number(s, i + 2, hex, HexDigits, 16), 2 + hex)
     ELSE IF c \in 48..55 THEN is(Number(s, i + 1, octal, OctalDigits, 8), 1 + octal)
     ELSE [text |-> <<92, c>>, width |-> 2]
\* decode_ansi_c_string
DecodeAnsiC(s) ==
  LET F[i \in Nat] == IF i > Len(s) THEN << >>
                      ELSE LET at == EscapeAt(s, i) IN at.text \o F[i + at.width]
  IN F[1]

\* unescape_bareword
UnescapeBareword(s) ==
  LET F[i \in Nat] ==
        IF i > Len(s) THEN << >>
        ELSE IF s[i] = 92 /\ i < Len(s) THEN <<s[i+1]>> \o F[i + 2]
        ELSE <<s[i]>> \o F[i + 1]
  IN F[1]

\* resolve_node_text
ResolveText(kind, s) == CASE kind = "ansi" -> DecodeAnsiC(s)
                          [] kind = "word" -> UnescapeBareword(s)
                          [] OTHER -> s

\* Mutant: a backslash within quotation marks is taken for plain text.
ClassifyLoosely(kind, s) ==
  LET has(c) == c \in ToSet(s) IN
  CASE kind = "raw" -> "raw"
    [] kind = "word" -> IF has(92) \/ has(42) THEN "unsafe" ELSE "plain"
    [] kind = "string" -> IF has(36) THEN "unsafe" ELSE "safe"
    [] kind = "ansi" -> "unsafe"

\* classify_arg_node and classify_string_node, to which an expansion is a child
\* of its own
Classify(kind, s) ==
  LET has(c) == c \in ToSet(s) IN
  CASE kind = "raw" -> "raw"
    [] kind = "word" -> IF has(92) \/ has(42) THEN "unsafe" ELSE "plain"
    [] kind = "string" -> IF has(92) \/ has(36) THEN "unsafe" ELSE "safe"
    [] kind = "ansi" -> "unsafe"

-----------------------------------------------------------------------------
(* What bash makes of the same characters.                                 *)

\* The positions of the characters that a backslash stands before.
Escaped(s) ==
  LET F[i \in Nat] == IF i >= Len(s) THEN {}
                      ELSE IF s[i] = 92 THEN {i + 1} \cup F[i + 2]
                      ELSE F[i + 1]
  IN F[1]
Bare(s) == {s[i] : i \in DOMAIN s \ Escaped(s)}
DanglingEscape(s) == s # << >> /\ Last(s) = 92 /\ Len(s) \notin Escaped(s)

\* Do the characters end where their quotes do?  A bare $ in an unquoted word
\* makes it a node of another kind.
IsSource(kind, s) ==
  CASE kind = "raw" -> 39 \notin ToSet(s)
    [] kind = "word" -> /\ s # << >> /\ ~DanglingEscape(s)
                        /\ Bare(s) \cap {10, 34, 36, 39} = {}
    [] kind = "string" -> 34 \notin Bare(s) /\ ~DanglingEscape(s)
    [] kind = "ansi" -> FALSE

\* Is the value known before the shell runs?
IsConstant(kind, s) ==
  CASE kind = "raw" -> TRUE
    [] kind = "word" -> 42 \notin Bare(s) /\ s[1] # 126
    [] kind = "string" -> 36 \notin Bare(s)

\* A backslash goes if what follows can be escaped here, and so does a newline
\* after it.
Escapable(kind, s) == CASE kind = "word" -> ToSet(s)
                        [] kind = "string" -> {34, 36, 92, 96, 10}
                        [] kind = "raw" -> {}
Gone(kind, s) ==
  {i \in DOMAIN s : \/ i + 1 \in Escaped(s) /\ s[i+1] \in Escapable(kind, s)
                    \/ i \in Escaped(s) /\ kind # "raw" /\ s[i] = 10}
BashText(kind, s) ==
  LET gone == Gone(kind, s)
      F[i \in Nat] == IF i > Len(s) THEN << >>
                      ELSE IF i \in gone THEN F[i + 1]
                      ELSE <<s[i]>> \o F[i + 1]
  IN F[1]

\* The ways to write a text in $'...': its characters by name, where they have
\* one, or all of them by their octal or hexadecimal number.
Styles == {"name", "octal", "hex"}
HexDigit(v) == CHOOSE d \in DOMAIN HexDigits : HexDigits[d] = v
Quoted(style, c) ==
  LET names == {n \in DOMAIN Controls : Controls[n] = c}
  IN CASE style = "octal" -> <<92, 48 + c \div 64, 48 + ((c \div 8) % 8), 48 + (c % 8)>>
       [] style = "hex" -> <<92, 120, HexDigit(c \div 16), HexDigit(c % 16)>>
       [] style = "name" /\ c \in Quotables -> <<92, c>>
       [] style = "name" /\ names # {} -> <<92, CHOOSE n \in names : TRUE>>
       [] OTHER -> <<c>>
QuoteAnsi(style, t) == FlattenSeq([i \in DOMAIN t |-> Quoted(style, t[i])])
=============================================================================
