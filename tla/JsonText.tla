------------------------------ MODULE JsonText ------------------------------
(***************************************************************************)
(* The JSON texts of the system: a strategy's configuration is parsed by   *)
(* the strategy, packed into another text by the page engine, and both are *)
(* parsed by the trade gateway, all with the library in utils/json.hpp.    *)
(*                                                                         *)
(* A text is a sequence of bytes.  The lexer takes one byte at a time, and *)
(* what it has put together goes to the parser, which puts the document    *)
(* together on a stack: Step is one byte of both.  A value is a tuple of   *)
(* the name of its type and its content; strings are sequences of bytes,   *)
(* objects functions from such sequences.                                  *)
(***************************************************************************)
EXTENDS Integers, Sequences

CONSTANTS
  MaxUnsigned,   \* the largest number_unsigned_t, 2^64 - 1 in the code
  MaxExponent    \* a float with this exponent and more is infinite, 309 in the code

JsonTextAssumption ==
  /\ MaxUnsigned \in Nat /\ MaxUnsigned % 2 = 1
  /\ MaxExponent \in Nat \ {0}

-----------------------------------------------------------------------------
(* Bytes. *)

EOF == -1

(* The characters from 32 and from 97 on, and their codes. *)
Upper == " !\"#$%&'()*+,-./0123456789:;<=>?@ABCDEFGHIJKLMNOPQRSTUVWXYZ[\\]^_"
Lower == "abcdefghijklmnopqrstuvwxyz{|}~"

Characters(str) == [i \in 1..Len(str) |-> SubSeq(str, i, i)]

Code ==
  LET place(str) == [c \in {Characters(str)[i] : i \in 1..Len(str)} |->
                       CHOOSE i \in 1..Len(str) : Characters(str)[i] = c]
      upper == place(Upper)
      lower == place(Lower)
  IN  [c \in DOMAIN upper \cup DOMAIN lower |->
         IF c \in DOMAIN upper THEN 31 + upper[c] ELSE 96 + lower[c]]

(* The bytes of a string of printable characters. *)
Bytes(str) == [i \in 1..Len(str) |-> Code[Characters(str)[i]]]

Quote == 34
Backslash == 92
Letter_u == 117
Digit == 48..57
Space == {32, 9, 10, 13}

HexOf(c) ==
  CASE c \in Digit -> c - 48
    [] c \in 65..70 -> c - 55
    [] c \in 97..102 -> c - 87
    [] OTHER -> -1

(* What stands for a byte after a backslash: b, t, n, f, r, and those that *)
(* stand for themselves, the slash among them.                             *)
Escaped ==
  [c \in {98, 116, 110, 102, 114, Quote, Backslash, 47} |->
     CASE c = 98 -> 8 [] c = 116 -> 9 [] c = 110 -> 10 [] c = 102 -> 12 [] c = 114 -> 13
       [] OTHER -> c]

(* A code point as it is translated into bytes. *)
Utf8(p) ==
  LET low(n) == 128 + ((p \div n) % 64)
  IN  CASE p < 128 -> <<p>>
        [] p \in 128..2047 -> <<192 + (p \div 64), low(1)>>
        [] p \in 2048..65535 -> <<224 + (p \div 4096), low(64), low(1)>>
        [] OTHER -> <<240 + (p \div 262144), low(4096), low(64), low(1)>>

(* Mutant of Following: surrogates are let through. *)
FollowingAny(c) ==
  IF c \in 194..223 THEN <<128..191>>
  ELSE IF c \in 224..239 THEN <<128..191, 128..191>> ELSE <<>>

(* The ranges of the bytes that have to follow a first byte above 7F; none *)
(* for those that begin nothing.                                           *)
Following(c) ==
  LET rest == 128..191
  IN  CASE c \in 194..223 -> <<rest>>
        [] c = 224 -> <<160..191, rest>>
        [] c \in 225..236 \cup 238..239 -> <<rest, rest>>
        [] c = 237 -> <<128..159, rest>>
        [] c = 240 -> <<144..191, rest, rest>>
        [] c \in 241..243 -> <<rest, rest, rest>>
        [] c = 244 -> <<128..143, rest, rest>>
        [] OTHER -> <<>>

Decimal(digits) ==
  LET upTo[i \in 0..Len(digits)] == IF i = 0 THEN 0 ELSE 10 * upTo[i - 1] + digits[i] - 48
  IN  upTo[Len(digits)]

-----------------------------------------------------------------------------
(* Numbers: from a state of scan_number, the bytes that lead to another.   *)

Exponent == {69, 101}   \* E and e
Point == {46}
Sign == {43, 45}         \* plus and minus
Minus == {45}

WholeGoes ==
  [start |-> [minus |-> Minus, zero |-> {48}, any1 |-> 49..57],
   minus |-> [zero |-> {48}, any1 |-> 49..57],
   zero  |-> [decimal1 |-> Point, exponent |-> Exponent],
   any1  |-> [any1 |-> Digit, decimal1 |-> Point, exponent |-> Exponent]]

FractionGoes ==
  [decimal1 |-> [decimal2 |-> Digit],
   decimal2 |-> [decimal2 |-> Digit, exponent |-> Exponent],
   exponent |-> [sign |-> Sign, any2 |-> Digit],
   sign     |-> [any2 |-> Digit],
   any2     |-> [any2 |-> Digit]]

NumberNext(at, c) ==
  LET goes == IF at \in DOMAIN WholeGoes THEN WholeGoes[at] ELSE FractionGoes[at]
  IN  {next \in DOMAIN goes : c \in goes[next]}

NumberMayEnd == {"zero", "any1", "decimal2", "any2"}

(* strtoull and strtoll, and strtod where they overflow or the number has  *)
(* a point or an exponent; a float keeps its text for its value.           *)
NumberValue(buffer, kind) ==
  LET size == IF kind = "float" THEN 0
              ELSE Decimal(IF kind = "integer" THEN Tail(buffer) ELSE buffer)
  IN  CASE kind = "unsigned" /\ size <= MaxUnsigned -> <<"unsigned", size>>
        [] kind = "integer" /\ size <= (MaxUnsigned + 1) \div 2 -> <<"integer", -size>>
        [] OTHER -> <<"float", buffer>>

(* Floats that are not finite: those with a large exponent, 0 excepted. *)
Infinite(v) ==
  /\ v[1] = "float"
  /\ \E i \in 2..Len(v[2]) :
        /\ v[2][i] \in Exponent
        /\ \E k \in 1..(i - 1) : v[2][k] \in 49..57
        /\ v[2][i + 1] \notin Minus
        /\ Decimal(SelectSeq(SubSeq(v[2], i + 1, Len(v[2])), LAMBDA c : c \in Digit))
             >= MaxExponent

-----------------------------------------------------------------------------
(* The parser: what it expects, and the containers that are open.          *)

Failed(s) == [s EXCEPT !.result = "error"]
Top(s) == s.open[Len(s.open)]
IsArray(container) == container[1] = "array"

(* A value is complete. *)
Placed(s, v) ==
  LET n == Len(s.open)
  IN  IF n = 0 THEN [s EXCEPT !.doc = v, !.expects = "end"]
      ELSE IF IsArray(Top(s))
      THEN [s EXCEPT !.open[n][2] = Append(@, v), !.expects = "separator"]
      ELSE [s EXCEPT !.open[n][2] = [k \in DOMAIN @ \cup {s.key[n]} |->
                                       IF k = s.key[n] THEN v ELSE @[k]],
                     !.expects = "separator"]

Opened(s, container, expected) ==
  [s EXCEPT !.open = Append(@, container), !.key = Append(@, <<>>), !.expects = expected]

Closed(s) ==
  LET n == Len(s.open)
  IN  Placed([s EXCEPT !.open = SubSeq(@, 1, n - 1), !.key = SubSeq(@, 1, n - 1)], Top(s))

InArray(s) == s.open # <<>> /\ IsArray(Top(s))

(* A token where a value begins: one turn of sax_parse_internal, with what *)
(* json_sax_dom_parser makes of it.                                        *)
GivesValue(s, token, v) ==
  CASE token = "value" -> IF Infinite(v) THEN Failed(s) ELSE Placed(s, v)
    [] token = "{" -> Opened(s, <<"object", << >> >>, "first_key")
    [] token = "[" -> Opened(s, <<"array", << >> >>, "first_value")
    [] s.expects = "first_value" /\ token = "]" -> Closed(s)
    [] OTHER -> Failed(s)

(* A token within an object, or after a value. *)
GivesOther(s, token, v) ==
  CASE s.expects = "separator" /\ InArray(s) /\ token = "]" -> Closed(s)
    [] s.expects \in {"first_key", "separator"} /\ ~InArray(s) /\ token = "}" -> Closed(s)
    [] s.expects = "separator" /\ token = "," ->
         [s EXCEPT !.expects = IF InArray(s) THEN "value" ELSE "key"]
    [] s.expects \in {"first_key", "key"} /\ token = "value" /\ v[1] = "string" ->
         [s EXCEPT !.key[Len(s.key)] = v[2], !.expects = "colon"]
    [] s.expects = "colon" /\ token = ":" -> [s EXCEPT !.expects = "value"]
    [] s.expects = "end" /\ token = "end_of_input" -> [s EXCEPT !.result = "parsed"]
    [] OTHER -> Failed(s)

Gives(s0, token, v) ==
  LET s == [s0 EXCEPT !.at = "start", !.buffer = <<>>]
  IN  IF s.expects \in {"value", "first_value"} THEN GivesValue(s, token, v)
      ELSE GivesOther(s, token, v)

-----------------------------------------------------------------------------
(* The lexer: "at" is where in its functions it waits for a byte. *)

None == <<"none", "">>

Begun ==
  [at |-> "bom", buffer |-> <<>>, kind |-> "", want |-> <<>>, high |-> -1,
   expects |-> "value", open |-> <<>>, key |-> <<>>, doc |-> None, result |-> "parsing"]

Adds(s, bytes) == [s EXCEPT !.buffer = @ \o bytes, !.at = "string"]

(* true, false and null, by their first bytes. *)
Literals ==
  [c \in {116, 102, 110} |->
     CASE c = 116 -> [rest |-> <<114, 117, 101>>, kind |-> "true"]
       [] c = 102 -> [rest |-> <<97, 108, 115, 101>>, kind |-> "false"]
       [] OTHER -> [rest |-> <<117, 108, 108>>, kind |-> "null"]]

LiteralValue(kind) == IF kind = "null" THEN <<"null", "">> ELSE <<"boolean", kind = "true">>

(* scan_number: the byte c in one of its states.  s.buffer is reset where  *)
(* a number begins.                                                        *)
InNumber(s, c, next) ==
  [s EXCEPT !.at = next, !.buffer = Append(@, c),
            !.kind = CASE next = "minus" -> "integer"
                       [] next \in {"decimal1", "exponent"} -> "float"
                       [] s.at = "start" -> "unsigned"
                       [] OTHER -> @]

Structure ==
  [c \in {123, 125, 91, 93, 58, 44} |->
     CASE c = 123 -> "{" [] c = 125 -> "}" [] c = 91 -> "[" [] c = 93 -> "]" [] c = 58 -> ":"
       [] OTHER -> ","]

(* The first byte of a token, spaces before it. *)
Start(s, c) ==
  CASE c \in Space -> s
    [] c \in DOMAIN Structure -> Gives(s, Structure[c], None)
    [] c \in DOMAIN Literals ->
         [s EXCEPT !.at = "literal", !.want = Literals[c].rest, !.kind = Literals[c].kind]
    [] c = Quote -> [s EXCEPT !.at = "string"]
    [] NumberNext("start", c) # {} -> InNumber(s, c, CHOOSE n \in NumberNext("start", c) : TRUE)
    [] c \in {0, EOF} -> Gives(s, "end_of_input", None)
    [] OTHER -> Failed(s)

(* The byte that is wanted next: of a literal, of the byte order mark, or  *)
(* of the second half of a surrogate pair.                                 *)
Literal(s, c) ==
  LET t == [s EXCEPT !.want = Tail(@)]
  IN  CASE c # Head(s.want) -> Failed(s)
        [] c = Head(s.want) /\ t.want # <<>> -> t
        [] OTHER -> IF s.kind = "bom" THEN [t EXCEPT !.at = "start"]
                    ELSE IF s.kind = "low" THEN [t EXCEPT !.at = "hex"]
                    ELSE Gives(t, "value", LiteralValue(s.kind))

String(s, c) ==
  CASE c = Quote -> Gives(s, "value", <<"string", s.buffer>>)
    [] c = Backslash -> [s EXCEPT !.at = "escape"]
    [] c \in 32..127 /\ c \notin {Quote, Backslash} -> Adds(s, <<c>>)
    [] Following(c) # <<>> ->
         [s EXCEPT !.at = "bytes", !.buffer = Append(@, c), !.want = Following(c)]
    [] OTHER -> Failed(s)

(* next_byte_in_range *)
InRange(s, c) ==
  IF c \notin Head(s.want) THEN Failed(s)
  ELSE [s EXCEPT !.buffer = Append(@, c), !.want = Tail(@),
                 !.at = IF Len(s.want) = 1 THEN "string" ELSE "bytes"]

Escape(s, c) ==
  CASE c \in DOMAIN Escaped -> Adds(s, <<Escaped[c]>>)
    [] c = Letter_u -> [s EXCEPT !.at = "hex", !.want = <<>>]
    [] OTHER -> Failed(s)

(* get_codepoint, and what is made of the code point. *)
Hex(s, c) ==
  LET digits == Append(s.want, HexOf(c))
      point == 4096 * digits[1] + 256 * digits[2] + 16 * digits[3] + digits[4]
  IN  CASE HexOf(c) = -1 -> Failed(s)
        [] HexOf(c) # -1 /\ Len(digits) < 4 -> [s EXCEPT !.want = digits]
        [] OTHER ->
             CASE s.high = -1 /\ point \in 55296..56319 ->
                    [s EXCEPT !.high = point, !.at = "literal", !.kind = "low",
                              !.want = <<Backslash, Letter_u>>]
               [] s.high = -1 /\ point \notin 55296..57343 -> Adds(s, Utf8(point))
               [] s.high # -1 /\ point \in 56320..57343 ->
                    [Adds(s, Utf8(1024 * (s.high - 55296) + point - 56320 + 65536))
                       EXCEPT !.high = -1]
               [] OTHER -> Failed(s)

(* The byte after a number is read again, as the first of the next token. *)
Number(s, c) ==
  CASE NumberNext(s.at, c) # {} -> InNumber(s, c, CHOOSE n \in NumberNext(s.at, c) : TRUE)
    [] NumberNext(s.at, c) = {} /\ s.at \in NumberMayEnd ->
         LET t == Gives(s, "value", NumberValue(s.buffer, s.kind))
         IN  IF t.result = "error" THEN t ELSE Start(t, c)
    [] OTHER -> Failed(s)

(* skip_bom *)
Mark(s, c) ==
  IF c = 239 THEN [s EXCEPT !.at = "literal", !.kind = "bom", !.want = <<187, 191>>]
  ELSE Start([s EXCEPT !.at = "start"], c)

Step(s, c) ==
  CASE s.result # "parsing" -> s
    [] s.at = "bom" -> Mark(s, c)
    [] s.at = "start" -> Start(s, c)
    [] s.at = "literal" -> Literal(s, c)
    [] s.at = "string" -> String(s, c)
    [] s.at = "bytes" -> InRange(s, c)
    [] s.at = "escape" -> Escape(s, c)
    [] s.at = "hex" -> Hex(s, c)
    [] OTHER -> Number(s, c)

(* Some bytes more, and the end of the input. *)
FirstHalf(t) == SubSeq(t, 1, Len(t) \div 2)
SecondHalf(t) == SubSeq(t, Len(t) \div 2 + 1, Len(t))

RECURSIVE Steps(_, _)
Steps(s, text) ==
  IF s.result # "parsing" \/ text = <<>> THEN s
  ELSE IF Len(text) = 1 THEN Step(s, text[1])
  ELSE Steps(Steps(s, FirstHalf(text)), SecondHalf(text))

Parse(text) == Step(Steps(Begun, text), EOF)
=============================================================================
