------------------------------- MODULE Rules -------------------------------
(***************************************************************************)
(* Which events an instant rule takes and what its text can name           *)
(* (core/instant.ts, core/variables.ts): the conditions the page offers    *)
(* for each type of event, the test the engine makes of them, the          *)
(* variables the page explains, and those an event resolves.               *)
(*                                                                         *)
(* A text or name is a sequence of words, a regular expression one word    *)
(* or "(", which is none.  Data an event lacks has no value in `data'.     *)
(* Which rule comes first, and its cooldown, are in Dispatch.              *)
(***************************************************************************)
EXTENDS Integers, Sequences, SequencesExt

CONSTANTS
  Words,    \* words of texts and names, of which each has two at most
  Numbers   \* prices, counts, levels

VARIABLES rule, event, took, said

vars == <<rule, event, took, said>>

RulesAssumption == Numbers \subseteq Nat /\ "(" \notin Words

NoUid == ""
NoEvent == [type |-> "none", data |-> <<>>, user |-> <<>>]

-----------------------------------------------------------------------------
(* What the page is told.                                                  *)

UserFields == {"uids", "minMedalLevel", "guardOnly"}

\* INSTANT_CONDITION_SCHEMA
Offered ==
  [danmaku |-> {"keywords", "regex", "startsWith"} \cup UserFields,
   gift |-> {"giftName", "giftNameContains", "minPrice", "minTotalPrice", "minNum"} \cup UserFields,
   superchat |-> {"minPrice", "maxPrice", "keywords", "regex"} \cup UserFields,
   enter |-> UserFields, follow |-> {}, like |-> {"minCount"} \cup UserFields,
   guard |-> {"guardLevels", "minNum"} \cup UserFields,
   liveStart |-> {"titleContains"}, liveEnd |-> {}, online |-> {"minCount"}, watchedChange |-> {"minCount"},
   added |-> {"titleContains", "userName", "minPosition", "userRequestOnly"},
   playing |-> {"titleContains", "userRequestOnly"}, skipped |-> {"byContains"},
   executed |-> {"ability", "okOnly"}, loaded |-> {"modelName"}, modelChanged |-> {"modelName"}]

Types == DOMAIN Offered

\* INSTANT_VARIABLE_SCHEMA, without what every event has.
Explained ==
  [gift |-> {<<"gift", x>> : x \in {"name", "num", "price", "totalPrice", "priceYuan", "totalPriceYuan"}},
   danmaku |-> {<<"content">>, <<"match", "1">>}, superchat |-> {<<"sc", "price">>, <<"sc", "message">>, <<"content">>},
   like |-> {<<"like", "count">>}, guard |-> {<<"guard", x>> : x \in {"level", "name", "num"}},
   liveStart |-> {<<"live", "title">>, <<"live", "areaName">>}, online |-> {<<"online", "count">>},
   watchedChange |-> {<<"watched", "count">>},
   added |-> {<<"song", x>> : x \in {"title", "artist", "source", "userName", "position"}},
   playing |-> {<<"song", x>> : x \in {"title", "artist", "source", "userName"}},
   skipped |-> {<<"song", "title">>, <<"skip", "by">>},
   executed |-> {<<"command", x>> : x \in {"id", "ok", "message"}}]

-----------------------------------------------------------------------------
(* matches()                                                               *)

Get(f, k, d) == IF k \in DOMAIN f THEN f[k] ELSE d
Is(k, v)     == k \in DOMAIN v /\ v[k] = TRUE
Text(e)      == Get(e.data, "content", Get(e.data, "message", <<>>))
Values(c, k) == Get(c, k, {})
Positive(c, k) == k \in DOMAIN c /\ c[k] > 0

\* A list of texts: no list, or one of them is.
OneIs(c, k, text)       == Values(c, k) = {} \/ \E w \in c[k] : text = <<w>>
OneIn(c, k, text)       == Values(c, k) = {} \/ \E w \in c[k] : w \in ToSet(text)
AtLeast(c, k, n)        == Positive(c, k) => n >= c[k]

\* A rule whose expressions are all blank or bad takes nothing.
RegexHits(c, e) == "regex" \in DOMAIN c => \E p \in c["regex"] : p # "(" /\ p \in ToSet(Text(e))

\* Slip: the total price of a gift that has none is nothing.
GiftTestedByTotal(c, d) ==
  /\ OneIs(c, "giftName", Get(d, "giftName", <<>>)) /\ OneIn(c, "giftNameContains", Get(d, "giftName", <<>>))
  /\ AtLeast(c, "minPrice", Get(d, "price", 0)) /\ AtLeast(c, "minNum", Get(d, "num", 1))
  /\ AtLeast(c, "minTotalPrice", Get(d, "totalPrice", 0))

GiftTested(c, d) ==
  /\ OneIs(c, "giftName", Get(d, "giftName", <<>>)) /\ OneIn(c, "giftNameContains", Get(d, "giftName", <<>>))
  /\ AtLeast(c, "minPrice", Get(d, "price", 0)) /\ AtLeast(c, "minNum", Get(d, "num", 1))
  /\ AtLeast(c, "minTotalPrice", Get(d, "totalPrice", Get(d, "price", 0)))

SongTested(c, d) ==
  /\ OneIn(c, "titleContains", Get(d, "title", <<>>)) /\ OneIs(c, "userName", Get(d, "userName", <<>>))
  /\ AtLeast(c, "minPosition", Get(d, "position", 0))
  /\ Is("userRequestOnly", c) => Get(d, "userName", <<>>) # <<>>

Tested(c, e) ==
  LET d == e.data
  IN CASE e.type = "gift" -> GiftTested(c, d)
       [] e.type = "superchat" -> AtLeast(c, "minPrice", Get(d, "price", 0)) /\ (Positive(c, "maxPrice") => Get(d, "price", 0) <= c["maxPrice"])
       [] e.type = "like" -> AtLeast(c, "minCount", Get(d, "count", 1))
       [] e.type = "guard" -> /\ Values(c, "guardLevels") # {} => Get(d, "guardLevel", Get(e.user, "guardLevel", 0)) \in c["guardLevels"]
                              /\ AtLeast(c, "minNum", Get(d, "num", 1))
       [] e.type = "liveStart" -> OneIn(c, "titleContains", Get(d, "title", <<>>))
       [] e.type \in {"online", "watchedChange"} -> AtLeast(c, "minCount", Get(d, "count", 0))
       [] e.type \in {"added", "playing"} -> SongTested(c, d)
       [] e.type = "skipped" -> OneIn(c, "byContains", Get(d, "by", <<>>))
       [] e.type = "executed" -> OneIs(c, "ability", Get(d, "command", <<>>)) /\ (Is("okOnly", c) => Get(d, "ok", TRUE))
       [] e.type \in {"loaded", "modelChanged"} -> OneIs(c, "modelName", Get(d, "model", <<>>))
       [] OTHER -> TRUE

\* Keywords are asked only of an event that has a text.
Matches(r, e) ==
  LET c == r.condition
  IN /\ r.type = e.type
     /\ RegexHits(c, e)
     /\ Text(e) # <<>> => OneIn(c, "keywords", Text(e))
     /\ Values(c, "startsWith") # {} => Text(e) # <<>> /\ Head(Text(e)) \in c["startsWith"]
     /\ Tested(c, e)
     /\ Values(c, "uids") # {} => Get(e.user, "uid", NoUid) \in c["uids"]
     /\ AtLeast(c, "minMedalLevel", Get(e.user, "medal", 0))
     /\ Is("guardOnly", c) => Get(e.user, "guardLevel", 0) \in 1..3

-----------------------------------------------------------------------------
(* eventVariables() and resolveToken()                                     *)

\* Slip: the song that plays is not described.
DescribedAddedOnly(e) ==
  IF e.type = "playing" THEN {} ELSE IF e.type \in DOMAIN Explained THEN Explained[e.type] ELSE {}

\* What eventVariables() gives an event, as the tokens it resolves: every
\* piece of data is given a default.  A regular expression that hit gives its
\* groups, to a danmaku.
Described(e) ==
  CASE e.type = "danmaku" -> {<<"content">>} \cup IF "regex" \in DOMAIN rule.condition THEN {<<"match", "1">>} ELSE {}
    [] e.type = "gift" -> {<<"gift", x>> : x \in {"name", "num", "price", "totalPrice", "priceYuan", "totalPriceYuan", "coinType"}}
    [] e.type = "superchat" -> {<<"sc", "price">>, <<"sc", "message">>, <<"content">>}
    [] e.type = "like" -> {<<"like", "count">>}
    [] e.type = "guard" -> {<<"guard", x>> : x \in {"level", "name", "num"}}
    [] e.type = "liveStart" -> {<<"live", "title">>, <<"live", "areaName">>}
    [] e.type = "online" -> {<<"online", "count">>}
    [] e.type = "watchedChange" -> {<<"watched", "count">>}
    [] e.type \in {"added", "playing"} -> {<<"song", x>> : x \in {"title", "artist", "source", "userName", "position"}}
    [] e.type = "skipped" -> {<<"song", "title">>, <<"skip", "by">>}
    [] e.type = "executed" -> {<<"command", x>> : x \in {"id", "ok", "message"}}
    [] OTHER -> {}

\* The names every event resolves, by resolveToken().
Common == {<<"now">>, <<"roomId">>, <<"type">>, <<"content">>, <<"user">>}

-----------------------------------------------------------------------------

Lists  == {"keywords", "regex", "startsWith", "giftName", "giftNameContains", "titleContains", "userName", "byContains", "ability", "modelName"}
Mins   == {"minPrice", "minTotalPrice", "minNum", "minCount", "minPosition", "minMedalLevel", "maxPrice"}
Flags  == {"guardOnly", "userRequestOnly", "okOnly"}

\* What collectTriggerPane() saves for a field: blanks are left out.
Entries(k) ==
  IF k \in Lists THEN (SUBSET (Words \cup IF k = "regex" THEN {"("} ELSE {})) \ {{}}
  ELSE IF k \in Mins THEN Numbers \ {0} ELSE IF k \in Flags THEN BOOLEAN
  ELSE IF k = "uids" THEN {{"u"}} ELSE {{1}, {2, 3}}

\* One value or two, by name.
Two(j, v, k, w) == [x \in {j, k} |-> IF x = j THEN v ELSE w]

Rules(t) == {[type |-> t, condition |-> <<>>]} \cup
            UNION {{[type |-> t, condition |-> Two(j, v, k, w)] : v \in Entries(j), w \in Entries(k)} : j, k \in Offered[t]}
Rule     == UNION {Rules(t) : t \in Types}

\* The data of each type of event, of which one has two at most, as the live room and emitSystem() give them.
Carried ==
  [danmaku |-> {"content"}, gift |-> {"giftName", "price", "totalPrice", "num"}, superchat |-> {"price", "message"},
   enter |-> {}, follow |-> {}, like |-> {"count"}, guard |-> {"guardLevel", "num"}, liveStart |-> {"title"}, liveEnd |-> {},
   online |-> {"count"}, watchedChange |-> {"count"}, added |-> {"title", "userName", "position"}, playing |-> {"title", "userName"},
   skipped |-> {"by"}, executed |-> {"command", "ok"}, loaded |-> {"model"}, modelChanged |-> {"model"}]

Texts    == {<<>>} \cup {<<w>> : w \in Words} \cup {<<v, w>> : v, w \in Words}
Datum(k) == IF k \in {"price", "totalPrice", "num", "count", "guardLevel", "position"} THEN Numbers
            ELSE IF k = "ok" THEN BOOLEAN ELSE Texts

Viewers == {<<>>, [uid |-> "u"], [uid |-> "u", guardLevel |-> 3], [uid |-> "v", medal |-> 2]}
Data(t) == {<<>>} \cup UNION {{Two(j, v, k, w) : v \in Datum(j), w \in Datum(k)} : j, k \in Carried[t]}

\* An event comes to handle(); the text of the rule is expanded if it takes it.
Happens(f, user) ==
  /\ event = NoEvent
  /\ event' = [type |-> rule.type, data |-> f, user |-> user]
  /\ took' = Matches(rule, event')
  /\ said' = IF took' THEN Common \cup Described(event') ELSE {}
  /\ UNCHANGED rule

Init == rule \in Rule /\ event = NoEvent /\ took = FALSE /\ said = {}
Next == \E user \in Viewers, f \in Data(rule.type) : Happens(f, user)

Spec == Init /\ [][Next]_vars

-----------------------------------------------------------------------------
(* Properties.                                                             *)

\* The piece of data a field is about, and what it is when the event lacks it.
Number(k, e) ==
  LET d == e.data
  IN CASE k \in {"minPrice", "maxPrice"} -> Get(d, "price", 0)
       [] k = "minTotalPrice" -> Get(d, "totalPrice", Get(d, "price", 0))
       [] k = "minNum" -> Get(d, "num", 1)
       [] k = "minCount" -> Get(d, "count", IF e.type = "like" THEN 1 ELSE 0)
       [] k = "minPosition" -> Get(d, "position", 0)
       [] k = "minMedalLevel" -> Get(e.user, "medal", 0)
       [] k = "guardOnly" -> Get(e.user, "guardLevel", 0)
       [] k = "guardLevels" -> Get(d, "guardLevel", Get(e.user, "guardLevel", 0))

Name(k, e) ==
  LET of == [giftName |-> "giftName", giftNameContains |-> "giftName", titleContains |-> "title", userName |-> "userName",
             userRequestOnly |-> "userName", byContains |-> "by", ability |-> "command", modelName |-> "model"]
  IN Get(e.data, of[k], <<>>)

\* What the label of the field promises.
Meant(k, v, e) ==
  CASE k \in {"keywords", "regex"} -> \E n \in DOMAIN Text(e) : Text(e)[n] \in v
    [] k = "startsWith" -> \E w \in v : IsPrefix(<<w>>, Text(e))
    [] k \in {"giftName", "userName", "ability", "modelName"} -> \E w \in v : Name(k, e) = <<w>>
    [] k \in {"giftNameContains", "titleContains", "byContains"} -> \E n \in DOMAIN Name(k, e) : Name(k, e)[n] \in v
    [] k = "maxPrice" -> Number(k, e) <= v
    [] k \in Mins \ {"maxPrice"} -> Number(k, e) >= v
    [] k = "guardLevels" -> Number(k, e) \in v
    [] k = "uids" -> "uid" \in DOMAIN e.user /\ e.user.uid \in v
    [] k = "guardOnly" -> v => Number(k, e) \in 1..3
    [] k = "userRequestOnly" -> v => Name(k, e) # <<>>
    [] k = "okOnly" -> v => Get(e.data, "ok", TRUE)

\* A rule takes just the events of its type that fulfil each of the fields the
\* page offers for it, one value of a field being enough, but for keywords
\* when there is no text; and every variable the page explains for the type
\* has a value in its text, but for the groups of an expression it lacks.
AsOffered ==
  event # NoEvent =>
    /\ took <=> \A k \in DOMAIN rule.condition :
                  Meant(k, rule.condition[k], event) \/ (k = "keywords" /\ Text(event) = <<>>)
    /\ took => \A x \in Get(Explained, event.type, {}) :
                 x \in said \/ (Head(x) = "match" /\ "regex" \notin DOMAIN rule.condition)

=============================================================================
