------------------------------- MODULE Login -------------------------------
(***************************************************************************)
(* The way of a configuration: the strategy parses it in Init and sends it *)
(* as it is with its login; the page engine packs it, as a string, into a  *)
(* text of its own; the trade gateway parses that text and then, again,    *)
(* the configuration (DCSSStrategyImpl, StrategySocketHandler, PageEngine, *)
(* ITGEngine, ITGSpi, OKTGApi, BinaTGApi).                                 *)
(***************************************************************************)
EXTENDS JsonGrammar
LOCAL INSTANCE TLC
LOCAL INSTANCE SequencesExt

CONSTANTS
  Themes,        \* the texts a file may hold, by the name of a kind of them: what
                 \* they begin with, pieces, how many of them they have, their end
  Names,         \* names a strategy may have
  MaxText        \* bound: texts compared with the grammar

LoginAssumption == JsonTextAssumption /\ DOMAIN Themes # {} /\ Names # {} /\ MaxText \in Nat

VARIABLES
  theme, left,   \* what the file is put together of, pieces that may follow
  mConfig,       \* the strategy's configuration
  reads,         \* the parser that reads it
  at,            \* how far its way has come
  name,          \* the strategy
  mTdStatus,     \* the sources it waits for
  frame,         \* the text of MSG_TYPE_TRADE_ENGINE_LOGIN
  accounts,      \* accounts Load has not come to
  content,       \* the parser of what the gateway reads
  mApiMap        \* the sources it has logged in at

file == <<theme, left, mConfig, reads>>
gateway == <<content, mApiMap>>

vars == <<file, at, name, mTdStatus, frame, accounts, gateway>>

-----------------------------------------------------------------------------
(* Values of documents.  A key is looked up in objects only. *)

IsObject(v) == v[1] = "object"
Count(v, key) == IsObject(v) /\ Bytes(key) \in DOMAIN v[2]
Item(v, key) == v[2][Bytes(key)]

(* from_json for integers of one byte, and of two that become one: numbers *)
(* and Booleans.  (No configuration here has a float for a source.)        *)
IsNumber(v) == v[1] \in {"unsigned", "integer", "boolean"}
ToByte(v) == IF v[1] = "boolean" THEN IF v[2] THEN 1 ELSE 0 ELSE v[2] % 256

(* A string as it is copied with its terminating zero. *)
CString(text) ==
  LET zeros == {i \in 1..Len(text) : text[i] = 0}
  IN  IF zeros = {} THEN text
      ELSE SubSeq(text, 1, (CHOOSE i \in zeros : \A j \in zeros : i <= j) - 1)

-----------------------------------------------------------------------------
(* dump: the text of a value. *)

HexDigit(n) == IF n < 10 THEN 48 + n ELSE 87 + n

(* Mutant of EscapedByte: control characters are copied. *)
EscapedByteRaw(c) ==
  IF c \in {Quote, Backslash} THEN <<Backslash, c>> ELSE <<c>>

(* dump_escaped, byte by byte; those above 7F are copied. *)
EscapedByte(c) ==
  LET letters == {k \in DOMAIN Escaped : Escaped[k] = c} \ {47}
  IN  IF letters # {} THEN <<Backslash, CHOOSE k \in letters : TRUE>>
      ELSE IF c < 32 THEN Bytes("\\u00") \o <<HexDigit(c \div 16), HexDigit(c % 16)>>
      ELSE <<c>>

(* decode: the classes of bytes, and from a state and a class the next     *)
(* state; there is none where the byte is rejected.                        *)
Class(c) ==
  CASE c < 128 -> "ascii"
    [] c \in 128..143 -> "80" [] c \in 144..159 -> "90" [] c \in 160..191 -> "A0"
    [] c \in 194..223 -> "C2" [] c = 224 -> "E0" [] c = 237 -> "ED"
    [] c \in 225..236 \cup 238..239 -> "E1" [] c = 240 -> "F0"
    [] c \in 241..243 -> "F1" [] c = 244 -> "F4" [] OTHER -> "none"

Decode ==
  [accept |-> [ascii |-> "accept", C2 |-> "one", E0 |-> "highTwo", E1 |-> "two",
               ED |-> "lowTwo", F0 |-> "highThree", F1 |-> "three", F4 |-> "lowThree"],
   one       |-> [k \in {"80", "90", "A0"} |-> "accept"],
   two       |-> [k \in {"80", "90", "A0"} |-> "one"],
   three     |-> [k \in {"80", "90", "A0"} |-> "two"],
   highTwo   |-> [k \in {"A0"} |-> "one"],
   lowTwo    |-> [k \in {"80", "90"} |-> "one"],
   highThree |-> [k \in {"90", "A0"} |-> "two"],
   lowThree  |-> [k \in {"80"} |-> "two"],
   reject    |-> << >>]

DecodeStep(state, c) ==
  IF Class(c) \in DOMAIN Decode[state] THEN Decode[state][Class(c)] ELSE "reject"

RECURSIVE DecodeSteps(_, _)
DecodeSteps(state, str) ==
  IF state = "reject" \/ str = <<>> THEN state
  ELSE IF Len(str) = 1 THEN DecodeStep(state, str[1])
  ELSE DecodeSteps(DecodeSteps(state, FirstHalf(str)), SecondHalf(str))

(* Whether a string can be dumped: otherwise dump throws. *)
Decodes(str) == DecodeSteps("accept", str) = "accept"

RECURSIVE EscapedBytes(_)
EscapedBytes(str) ==
  IF str = <<>> THEN <<>>
  ELSE IF Len(str) = 1 THEN EscapedByte(str[1])
  ELSE EscapedBytes(FirstHalf(str)) \o EscapedBytes(SecondHalf(str))

DumpString(str) == Bytes("\"") \o EscapedBytes(str) \o Bytes("\"")

DumpInteger(n) == Bytes(ToString(n))

(* An object of strings and integers, its members in the order of a map. *)
Dump(members) ==
  LET dumped(v) == IF v[1] = "string" THEN DumpString(v[2]) ELSE DumpInteger(v[2])
      member(i) == (IF i = 1 THEN <<>> ELSE Bytes(",")) \o DumpString(Bytes(members[i][1]))
                     \o Bytes(":") \o dumped(members[i][2])
  IN  Bytes("{") \o FlattenSeq([i \in 1..Len(members) |-> member(i)]) \o Bytes("}")

CanDump(members) ==
  \A i \in 1..Len(members) : members[i][2][1] = "string" => Decodes(members[i][2][2])

-----------------------------------------------------------------------------
(* The strategy. *)

(* The file is written, before the strategy is started. *)
Writes ==
  /\ at = "file" /\ left > 0
  /\ \E piece \in Themes[theme].pieces :
        mConfig' = mConfig \o piece /\ reads' = Steps(reads, piece)
  /\ left' = left - 1
  /\ UNCHANGED <<theme, at, name, mTdStatus, frame, accounts, gateway>>

Ends ==
  /\ at = "file"
  /\ mConfig' = mConfig \o Themes[theme].end
  /\ reads' = Step(Steps(reads, Themes[theme].end), EOF)
  /\ at' = "read"
  /\ UNCHANGED <<theme, left, name, mTdStatus, frame, accounts, gateway>>

(* Init, up to its loop over the accounts: an exception ends the strategy. *)
Accounts(doc) == Item(doc, "accounts")
HasAccounts(doc) == Count(doc, "accounts")

Throws ==
  /\ at = "read"
  /\ reads.result = "error" \/ (HasAccounts(reads.doc) /\ ~IsArray(Accounts(reads.doc)))
  /\ at' = "thrown"
  /\ UNCHANGED <<file, name, mTdStatus, frame, accounts, gateway>>

Lacks ==
  /\ at = "read" /\ reads.result = "parsed" /\ ~HasAccounts(reads.doc)
  /\ at' = "refused"
  /\ UNCHANGED <<file, name, mTdStatus, frame, accounts, gateway>>

Loops ==
  /\ at = "read" /\ reads.result = "parsed"
  /\ HasAccounts(reads.doc) /\ IsArray(Accounts(reads.doc))
  /\ at' = "init" /\ accounts' = Accounts(reads.doc)[2]
  /\ UNCHANGED <<file, name, mTdStatus, frame, gateway>>

(* Its loop: an account lacks a key, its source is not a number, or it is  *)
(* registered.                                                             *)
IsComplete(item) == \A key \in {"source", "api_key", "secret_key"} : Count(item, key)

Registers ==
  /\ at = "init" /\ accounts # <<>>
  /\ LET item == Head(accounts)
     IN  IF IsComplete(item) /\ IsNumber(Item(item, "source"))
         THEN /\ mTdStatus' = mTdStatus \cup {ToByte(Item(item, "source"))}
              /\ accounts' = Tail(accounts) /\ UNCHANGED at
         ELSE /\ at' = IF IsComplete(item) THEN "thrown" ELSE "refused"
              /\ UNCHANGED <<mTdStatus, accounts>>
  /\ UNCHANGED <<file, name, frame, gateway>>

(* Start, Connect, TdConnect: the configuration is copied as a string. *)
Connects ==
  /\ at = "init" /\ accounts = <<>>
  /\ frame' = CString(mConfig) /\ at' = "sent"
  /\ UNCHANGED <<file, name, mTdStatus, accounts, gateway>>

-----------------------------------------------------------------------------
(* The page engine: LoginTd, for a strategy that has registered.  An       *)
(* exception ends the engine.                                              *)

Request ==
  <<<<"config", <<"string", frame>>>>, <<"folder", <<"string", Bytes("/x")>>>>,
    <<"name", <<"string", name>>>>, <<"pid", <<"unsigned", 10>>>>,
    <<"rid_e", <<"unsigned", 19>>>>, <<"rid_s", <<"unsigned", 10>>>>>>

LoginTd ==
  /\ at = "sent"
  /\ IF CanDump(Request) THEN frame' = Dump(Request) /\ at' = "login"
     ELSE at' = "engine ended" /\ UNCHANGED frame
  /\ UNCHANGED <<file, name, mTdStatus, accounts, gateway>>

-----------------------------------------------------------------------------
(* The trade gateway. *)

HasString(doc, key) == Count(doc, key) /\ Item(doc, key)[1] = "string"

(* Listening, up to RegisterClient; an exception rejects. *)
Listening ==
  /\ at = "login"
  /\ content' = Parse(CString(frame))
  /\ at' = IF /\ content'.result = "parsed"
              /\ HasString(content'.doc, "name") /\ HasString(content'.doc, "config")
           THEN "register" ELSE "rejected"
  /\ UNCHANGED <<file, name, mTdStatus, frame, accounts, mApiMap>>

(* RegisterClient, Load up to its loop. *)
RegisterClient ==
  /\ at = "register"
  /\ content' = Parse(Item(content.doc, "config")[2])
  /\ IF content'.result = "parsed" /\ HasAccounts(content'.doc)
     THEN at' = "load" /\ accounts' = Accounts(content'.doc)[2]
     ELSE at' = "rejected" /\ UNCHANGED accounts
  /\ UNCHANGED <<file, name, mTdStatus, frame, mApiMap>>

(* CreateTGApi, LoadAccount *)
Exchanges == {1, 2}   \* ExchangeEnum
Loadable(item) ==
  /\ ToByte(Item(item, "source")) \in Exchanges
  /\ HasString(item, "api_key") /\ HasString(item, "secret_key")
  /\ Count(item, "proxy") => HasString(item, "proxy")

(* The loop of Load: an account of a source that is logged in is passed    *)
(* over; the exchange accepts the login of any other that can be loaded.   *)
Load ==
  /\ at = "load" /\ accounts # <<>>
  /\ LET item == Head(accounts)
         source == ToByte(Item(item, "source"))
     IN  IF source \in mApiMap \/ Loadable(item)
         THEN mApiMap' = mApiMap \cup {source} /\ accounts' = Tail(accounts) /\ UNCHANGED at
         ELSE at' = "rejected" /\ UNCHANGED <<mApiMap, accounts>>
  /\ UNCHANGED <<file, name, mTdStatus, frame, content>>

Accepts ==
  /\ at = "load" /\ accounts = <<>>
  /\ at' = "accepted"
  /\ UNCHANGED <<file, name, mTdStatus, frame, accounts, gateway>>

-----------------------------------------------------------------------------

Init ==
  /\ theme \in DOMAIN Themes /\ name \in Names
  /\ left = Themes[theme].max
  /\ mConfig = Themes[theme].begin /\ reads = Steps(Begun, Themes[theme].begin)
  /\ at = "file"
  /\ mTdStatus = {} /\ frame = <<>> /\ accounts = <<>> /\ content = Begun /\ mApiMap = {}

Next ==
  \/ Writes \/ Ends
  \/ Throws \/ Lacks \/ Loops \/ Registers \/ Connects
  \/ LoginTd
  \/ Listening \/ RegisterClient \/ Load \/ Accepts

Spec == Init /\ [][Next]_vars

-----------------------------------------------------------------------------
(* Properties *)

(* The lexer and the parser take the texts of the grammar and no others,   *)
(* and make of them the values they stand for (lexer::scan,                *)
(* parser::sax_parse_internal, json_sax_dom_parser).                       *)
ParsesAsGrammar ==
  at = "read" /\ Len(mConfig) <= MaxText =>
    ValuesOf(mConfig) = IF reads.result = "parsed" THEN {reads.doc} ELSE {}

(* What the strategy has accepted gets to the gateway: the page engine can *)
(* pack it, the gateway can parse both texts, and finds the strategy's     *)
(* name and the document the strategy has read; and when it has loaded all *)
(* accounts, it is logged in at the sources the strategy waits for (dump,  *)
(* parse, LoginTd, Listening, Load).                                       *)
Arrives ==
  /\ at # "engine ended"
  /\ content.result # "error"
  /\ at = "register" => Item(content.doc, "name")[2] = name
  /\ at = "load" => content.doc = reads.doc
  /\ at = "accepted" => mApiMap = mTdStatus

(* The gateway loads every configuration the strategy has accepted (Init,  *)
(* LoadAccount, CreateTGApi).                                              *)
AcceptedIsLoaded == at # "rejected"
=============================================================================
