----------------------------- MODULE JsonGrammar -----------------------------
(***************************************************************************)
(* What a JSON text stands for, by the grammar of RFC 7159, which json.hpp *)
(* refers to: the reference the lexer and the parser are compared with.    *)
(* Nothing here is a translation of the code; Utf8 alone is shared.        *)
(***************************************************************************)
EXTENDS JsonText
LOCAL INSTANCE FiniteSetsExt
LOCAL INSTANCE TLC

Cut(t, i, j) == SubSeq(t, i, j)

Strip(t) ==
  LET solid == {i \in 1..Len(t) : t[i] \notin Space}
  IN  IF solid = {} THEN <<>> ELSE Cut(t, Min(solid), Max(solid))

-----------------------------------------------------------------------------
(* Strings: the bytes that one character of a string, written as w, stands *)
(* for; none if w is no such character.                                    *)

Surrogates == 55296..57343

(* The code point that the bytes of w make up, whether they may or not. *)
Assembled(w) ==
  LET n == Len(w)
      upTo[i \in 1..n] == IF i = 1 THEN w[1] % (IF n = 1 THEN 128 ELSE 2 ^ (7 - n))
                          ELSE 64 * upTo[i - 1] + (w[i] % 64)
  IN  upTo[n]

IsCharacter(w) ==
  /\ Len(w) \in 1..4
  /\ Utf8(Assembled(w)) = w
  /\ Assembled(w) \in 32..1114111
  /\ Assembled(w) \notin Surrogates \cup {Quote, Backslash}

IsUnicode(w) ==
  /\ Len(w) = 6 /\ Cut(w, 1, 2) = Bytes("\\u")
  /\ \A i \in 3..6 : HexOf(w[i]) # -1

Unit(w) ==
  HexOf(w[3]) * 4096 + HexOf(w[4]) * 256 + HexOf(w[5]) * 16 + HexOf(w[6])

IsPair(w) ==
  /\ Len(w) = 12 /\ IsUnicode(Cut(w, 1, 6)) /\ IsUnicode(Cut(w, 7, 12))
  /\ Unit(w) \in 55296..56319 /\ Unit(Cut(w, 7, 12)) \in 56320..57343

StandsFor(w) ==
  CASE IsCharacter(w) -> {w}
    [] Len(w) = 2 /\ w[1] = Backslash /\ w[2] \in DOMAIN Escaped -> {<<Escaped[w[2]]>>}
    [] IsUnicode(w) /\ Unit(w) \notin Surrogates -> {Utf8(Unit(w))}
    [] IsPair(w) -> {Utf8(65536 + ((Unit(w) % 1024) * 1024) + (Unit(Cut(w, 7, 12)) % 1024))}
    [] OTHER -> {}

RECURSIVE Contents(_)
Contents(u) ==
  IF u = <<>> THEN {<<>>}
  ELSE UNION {{c \o d : c \in StandsFor(Cut(u, 1, k)), d \in Contents(Cut(u, k + 1, Len(u)))} :
                k \in {l \in 1..Min({12, Len(u)}) : StandsFor(Cut(u, 1, l)) # {}}}

-----------------------------------------------------------------------------
(* Numbers: int, int frac, int exp or int frac exp. *)

AreDigits(u) == u # <<>> /\ \A i \in 1..Len(u) : u[i] \in Digit
IsInt(u) == AreDigits(u) /\ (u[1] = 48 => Len(u) = 1)
IsFrac(u) == u = <<>> \/ (u[1] \in Point /\ AreDigits(Tail(u)))
IsExp(u) ==
  \/ u = <<>>
  \/ /\ u[1] \in Exponent /\ Len(u) > 1
     /\ AreDigits(Cut(u, IF u[2] \in Sign THEN 3 ELSE 2, Len(u)))

Numerals(t) ==
  LET minus == t # <<>> /\ t[1] \in Minus
      u == IF minus THEN Tail(t) ELSE t
      n == Len(u)
      whole(a) == IsInt(Cut(u, 1, a))
      kinds == {IF a < n THEN "float" ELSE IF minus THEN "integer" ELSE "unsigned" :
                  a \in {b \in 1..n : /\ whole(b)
                                      /\ \E c \in b..n : /\ IsFrac(Cut(u, b + 1, c))
                                                         /\ IsExp(Cut(u, c + 1, n))}}
  IN  {v \in {NumberValue(t, k) : k \in kinds} : ~Infinite(v)}

-----------------------------------------------------------------------------
(* Values: those a text stands for, one at most. *)

Words == {<<Bytes("true"), <<"boolean", TRUE>>>>, <<Bytes("false"), <<"boolean", FALSE>>>>,
          <<Bytes("null"), <<"null", "">>>>}

IsIn(t, first, last) == Len(t) > 1 /\ t[1] = Code[first] /\ t[Len(t)] = Code[last]
Inner(t) == Cut(t, 2, Len(t) - 1)
Before(t, i) == Cut(t, 1, i - 1)
After(t, i) == Cut(t, i + 1, Len(t))
At(t, c) == {i \in 1..Len(t) : t[i] = Code[c]}

RECURSIVE Values(_), Elements(_), Members(_)

Elements(u) ==
  {<<v>> : v \in Values(u)} \cup
  UNION {{<<v>> \o w : v \in Values(Before(u, i)), w \in Elements(After(u, i))} :
           i \in {j \in At(u, ",") : Values(Before(u, j)) # {}}}

(* The later of two members with the same name holds. *)
Members(u) ==
  LET one(t) == UNION {{k[2] :> v : k \in {s \in Values(Before(t, i)) : s[1] = "string"},
                                    v \in Values(After(t, i))} : i \in At(t, ":")}
  IN  one(u) \cup
      UNION {{w @@ m : m \in one(Before(u, i)), w \in Members(After(u, i))} :
               i \in {j \in At(u, ",") : one(Before(u, j)) # {}}}

Values(t0) ==
  LET t == Strip(t0)
  IN  CASE IsIn(t, "\"", "\"") -> {<<"string", s>> : s \in Contents(Inner(t))}
        [] IsIn(t, "[", "]") ->
             {<<"array", e>> : e \in IF Strip(Inner(t)) = <<>> THEN {<<>>} ELSE Elements(Inner(t))}
        [] IsIn(t, "{", "}") ->
             {<<"object", m>> : m \in IF Strip(Inner(t)) = <<>> THEN {<<>>} ELSE Members(Inner(t))}
        [] OTHER -> {w[2] : w \in {x \in Words : x[1] = t}} \cup Numerals(t)

(* A text ends at a byte 0, and may begin with a byte order mark. *)
ValuesOf(text) ==
  LET zeros == {i \in 1..Len(text) : text[i] = 0}
      t == IF zeros = {} THEN text ELSE Before(text, Min(zeros))
  IN  Values(IF Len(t) > 2 /\ Cut(t, 1, 3) = <<239, 187, 191>> THEN After(t, 3) ELSE t)
=============================================================================
