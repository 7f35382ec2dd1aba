--------------------------- MODULE TypedParameters ---------------------------
(***************************************************************************)
(* kamxl.py: what KAMXL.set_typed() accepts, what it writes, and what      *)
(* get_typed() makes of the text the KAM-XL answers.                       *)
(*                                                                         *)
(* A value is what the REST layer's JSON becomes: [t |-> "bool", v |-> b], *)
(* and so on, or a pair of them (the daemon turns a JSON list into a       *)
(* tuple).  The text of a parameter is a sequence of words: two for        *)
(* "port1/port2", one for any other.                                       *)
(***************************************************************************)
EXTENDS Naturals, Sequences

CONSTANTS
  COMMANDS,   \* command |-> [type, writable, choices]: the ones kamxl.py knows
  UpperCase,  \* word |-> word: what upper() changes
  Numeral     \* number |-> word: str() of an integer

ASSUME ParametersAssumption ==
  \A c \in DOMAIN COMMANDS :
    COMMANDS[c].type \in {"multiport_bool", "multiport_choice", "multiport_int",
                          "multiport_string", "choice", "int", "string"}

Known(c) == c \in DOMAIN COMMANDS
Type(c) == COMMANDS[c].type

Bool(b) == [t |-> "bool", v |-> b]
Num(n) == [t |-> "int", v |-> n]
Str(w) == [t |-> "str", v |-> w]
Pair(x, y) == [t |-> "pair", v |-> <<x, y>>]
ValueError == [t |-> "ValueError", v |-> ""]

Upper(w) == IF w \in DOMAIN UpperCase THEN UpperCase[w] ELSE w
OnOff(b) == IF b THEN "ON" ELSE "OFF"

\* str()
Word(x) ==
  CASE x.t = "bool" -> IF x.v THEN "True" ELSE "False"
    [] x.t = "int"  -> Numeral[x.v]
    [] x.t = "str"  -> x.v

\* Python's bool is an int.
IsInt(x) == x.t \in {"int", "bool"}

Choosable(c, x) == COMMANDS[c].choices = {} \/ Upper(Word(x)) \in COMMANDS[c].choices

\* set_typed() raises neither TypeError nor ValueError.
Fits(c, x) ==
  CASE Type(c) = "multiport_bool"   -> x.t = "pair" /\ \A k \in 1..2 : x.v[k].t = "bool"
    [] Type(c) = "multiport_choice" -> x.t = "pair" /\ \A k \in 1..2 : Choosable(c, x.v[k])
    [] Type(c) = "multiport_int"    -> x.t = "pair" /\ \A k \in 1..2 : IsInt(x.v[k])
    [] Type(c) = "multiport_string" -> x.t = "pair" /\ \A k \in 1..2 : x.v[k].t = "str"
    [] Type(c) = "choice"           -> x.t # "pair" /\ Choosable(c, x)
    [] Type(c) = "int"              -> IsInt(x)
    [] OTHER                        -> TRUE

\* Nor KAMError: what set_typed() sends at all.
Accepted(c, x) == Known(c) => COMMANDS[c].writable /\ Fits(c, x)

\* What it sends.
Text(c, x) ==
  CASE ~Known(c)                    -> <<Word(x)>>
    [] Type(c) = "multiport_bool"   -> <<OnOff(x.v[1].v), OnOff(x.v[2].v)>>
    [] Type(c) = "multiport_choice" -> <<Upper(Word(x.v[1])), Upper(Word(x.v[2]))>>
    [] Type(c) = "choice"           -> <<Upper(Word(x))>>
    [] x.t = "pair"                 -> <<Word(x.v[1]), Word(x.v[2])>>
    [] OTHER                        -> <<Word(x)>>

-----------------------------------------------------------------------------
\* _parse_on_off() and int() of a word.
ParseOnOff(w) ==
  CASE Upper(w) = "ON"  -> Bool(TRUE)
    [] Upper(w) = "OFF" -> Bool(FALSE)
    [] OTHER            -> ValueError

ParseInt(w) ==
  IF \E n \in DOMAIN Numeral : Numeral[n] = w
  THEN Num(CHOOSE n \in DOMAIN Numeral : Numeral[n] = w)
  ELSE ValueError

\* What get_typed() makes of one word of the answer.
ParseWord(c, w) ==
  CASE Type(c) = "multiport_bool"                  -> ParseOnOff(w)
    [] Type(c) \in {"multiport_choice", "choice"}  -> Str(Upper(w))
    [] Type(c) \in {"multiport_int", "int"}        -> ParseInt(w)
    [] OTHER                                       -> Str(w)

\* get_multiport() and the conversion of both parts.
Both(c, text) ==
  IF Len(text) # 2 \/ \E k \in 1..2 : ParseWord(c, text[k]) = ValueError
  THEN ValueError
  ELSE Pair(ParseWord(c, text[1]), ParseWord(c, text[2]))

\* get_typed()
Parsed(c, text) ==
  CASE ~Known(c) -> Str(text)
    [] Type(c) \in {"multiport_bool", "multiport_choice", "multiport_int",
                    "multiport_string"} -> Both(c, text)
    [] Type(c) \in {"choice", "int"} -> ParseWord(c, text[1])
    [] OTHER -> Str(text)
=============================================================================
