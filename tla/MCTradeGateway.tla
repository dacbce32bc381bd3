--------------------------- MODULE MCTradeGateway ---------------------------
(***************************************************************************)
(* Instances of TradeGateway and Login for TLC.  A behavior is one of      *)
(* either module, the other's variables staying as they are: the first is  *)
(* about the gateway's threads, the second about the texts of a login.     *)
(***************************************************************************)
EXTENDS Login, Sessions

CONSTANTS c1, c2, s1, s2

VARIABLE models   \* which module the behavior is of

ASSUME LoginAssumption

(* Texts that begin with some bytes, have max of some strings, or of       *)
(* single bytes, and then end.                                             *)
Texts(begin, strings, bytes, max, end) ==
  [begin |-> begin, pieces |-> {Bytes(x) : x \in strings} \cup {<<b>> : b \in bytes},
   max |-> max, end |-> end]

StructureTexts == Texts(<<>>, {"{", "}", "[", "]", ",", ":", "\"a\"", "1 "}, {}, 4, <<>>)
StringTexts ==
  Texts(Bytes("\""), {"x", "\\"},
        {0, 31, 127, 128, 143, 144, 159, 160, 193, 194, 224, 237, 240, 244}, 3, Bytes("\""))
LongCharacterTexts ==
  Texts(Bytes("\""), {}, {127, 128, 143, 144, 191, 240, 244}, 4, Bytes("\""))
EscapeTexts ==
  Texts(Bytes("\"\\"), {"u", "00", "4", "d8", "D8", "7f", "g", "n"}, {}, 4,
        Bytes("\""))
SurrogateTexts ==
  Texts(Bytes("\"\\uD8"), {"00", "fF", "\\u", "dc", "DF", "d8", "e0"}, {}, 4, Bytes("\""))
NumberTexts == Texts(<<>>, {"-", "0", "1", "99", ".", "e", "E", "+"}, {}, 4, <<>>)
WordTexts == Texts(<<>>, {"true", "nul", "l", "false"}, {0, 9, 32, 187, 191, 239}, 3, <<>>)

(* Accounts of sources 1, 1 written as -255, and 2, with keys that need    *)
(* not be strings; a tab before them.                                      *)
AccountTexts ==
  Texts(Bytes("{\"accounts\":[") \o <<9>>,
        {"{\"source\":1,\"api_key\":", "{\"source\":-255,\"api_key\":",
         "{\"source\":2,\"api_key\":", "\"x\",\"secret_key\":\"\\u0000\\\"\"}",
         "7,\"secret_key\":\"y\"}", ","}, {}, 5, Bytes("]}"))

(* Configurations that are none, an exchange there is not, and bytes after *)
(* the end of the text.                                                    *)
OddTexts ==
  Texts(Bytes("{\""), {"accounts\":[", "accounts\":7", "a\":[", "{\"source\":\"1\"", "{\"source\":2",
                        "{\"source\":3", ",\"api_key\":\"x\",\"secret_key\":\"y\"", "}]"},
        {}, 4, Bytes("}") \o <<0, 255>>)

MCThemes ==
  [structure |-> StructureTexts, string |-> StringTexts, long |-> LongCharacterTexts,
   escape |-> EscapeTexts, surrogate |-> SurrogateTexts, number |-> NumberTexts,
   word |-> WordTexts, account |-> AccountTexts, odd |-> OddTexts]

(* A name with a character to escape and one of two bytes. *)
MCNames == {<<34, 195, 169>>}

(* Names that are not UTF-8, for the counterexample to Arrives. *)
TornNames == {<<200>>}

MCInit ==
  /\ G!Init /\ Init /\ models \in {"threads", "texts"}
  /\ models = "threads" => theme = "word"

MCNext ==
  \/ models = "threads" /\ G!Next /\ UNCHANGED <<models, vars>>
  \/ models = "texts" /\ Next /\ UNCHANGED <<models, threads>>

Threads(A) == models = "threads" /\ A

(* The fairness of TradeGateway. *)
MCSpec ==
  /\ MCInit /\ [][MCNext]_<<threads, models, vars>>
  /\ WF_threads(Threads(G!Listening))
  /\ \A c \in Clients : WF_threads(Threads(G!Reader(c)))
  /\ \A c \in Clients, s \in Venues : WF_threads(Threads(G!Session(c, s)))

(* Every variable of TradeGateway has its type. *)
TypeOK == G!TypeOK
=============================================================================
