------------------------------ MODULE Commands ------------------------------
(***************************************************************************)
(* Danmaku that are commands (core/commands.ts) and what they run          *)
(* (core/abilities.ts, runAbility() of index.ts): the list of aliases is   *)
(* kept until the configuration gives another signature, the longest alias *)
(* takes the danmaku, and its ability orders or skips a song.              *)
(*                                                                         *)
(* A text is a sequence of words.  That abilities take their time, which   *)
(* the cooldowns feel, is in Dispatch: here each is done in one step.      *)
(***************************************************************************)
EXTENDS Naturals, Sequences, SequencesExt

CONSTANTS
  Items,     \* for each command, what the page may make of it
  Texts,     \* danmaku
  Users,     \* viewers: [uid, medal, guard]
  Blocked,   \* ids of the abilities there are not
  MaxEdits, MaxQueue, MaxAge  \* bounds: edits, songs ordered, and the age from
                              \* which a mark is not told from an older one

VARIABLES
  items,       \* commands.items
  candidates, signature,  \* the list, and the configuration it was made of
  globalLast, userLast,   \* id -> age of the mark, (id, uid) -> age
  queue, playing,  \* who ordered the songs that wait and the one that plays
  hit,         \* the last danmaku and the command that took it
  edits

vars == <<items, candidates, signature, globalLast, userLast, queue, playing, hit, edits>>

Forms  == UNION {Items[n] : n \in DOMAIN Items}
Ids    == {i.id : i \in Forms}
Tables == {is \in [DOMAIN Items -> Forms] : \A n \in DOMAIN Items : is[n] \in Items[n]}
Uids   == {u.uid : u \in Users}
Nobody == [uid |-> "none", medal |-> 0, guard |-> 0]
NoHit  == [id |-> "none", text |-> <<>>, user |-> Nobody, ran |-> FALSE, owner |-> "none"]

CommandsAssumption ==
  /\ \A m, n \in DOMAIN Items : \A i \in Items[m], j \in Items[n] : i.id = j.id <=> m = n
  /\ \A i \in Forms : /\ i.permission \in {"all", "medal", "guard", "uids"} /\ DOMAIN i.aliases \subseteq Nat
                      /\ \A m \in DOMAIN i.aliases : Len(i.aliases[m]) \in Nat
  /\ DOMAIN Items \subseteq Nat /\ \A text \in Texts : Len(text) \in Nat
  /\ "none" \notin Ids \cup Uids /\ "system" \notin Uids /\ {MaxEdits, MaxQueue, MaxAge} \subseteq Nat

-----------------------------------------------------------------------------
(* match()                                                                 *)

\* Slip: the signature knows nothing of the aliases.
SignatureNoAliases(is) == [n \in DOMAIN is |-> <<is[n].id, is[n].enabled, is[n].ability>>]

Signature(is) == [n \in DOMAIN is |-> <<is[n].id, is[n].enabled, is[n].ability, is[n].aliases>>]

\* The aliases of all commands that are enabled and have an ability, and where
\* they stand in the configuration.
Listed(is) ==
  UNION {{[item |-> is[n], alias |-> is[n].aliases[m], at |-> <<n, m>>] : m \in DOMAIN is[n].aliases} :
           n \in {k \in DOMAIN is : is[k].enabled /\ is[k].ability \notin Blocked}}

\* The ability takes the rest of the danmaku, which must not be empty, or it
\* takes nothing and the danmaku is the alias.
Takes(ability, alias, text) ==
  IF ability = "jukebox_add_song" THEN IsStrictPrefix(alias, text) ELSE alias = text

Matching(cs, text) == {c \in cs : Takes(c.item.ability, c.alias, text)}

\* The list is sorted, the longest alias first, otherwise as they come.
Before(c, d) ==
  \/ Len(c.alias) > Len(d.alias)
  \/ Len(c.alias) = Len(d.alias) /\ (c.at[1] < d.at[1] \/ (c.at[1] = d.at[1] /\ c.at[2] <= d.at[2]))
First(cs) == CHOOSE c \in cs : \A d \in cs : Before(c, d)

-----------------------------------------------------------------------------
(* handle()                                                                *)

\* hasPermission()
Has(item, user) ==
  CASE item.permission = "all" -> TRUE
    [] item.permission = "medal" -> user # Nobody /\ user.medal >= item.medalLevel
    [] item.permission = "guard" -> user # Nobody /\ user.guard \in 1..3
    [] item.permission = "uids" -> user # Nobody /\ user.uid \in item.uids

\* passCooldown()
Cool(item, user) ==
  /\ item.globalMs > 0 => globalLast[item.id] >= item.globalMs
  /\ item.perUserMs > 0 /\ user # Nobody => userLast[<<item.id, user.uid>>] >= item.perUserMs

\* markCooldown()
Mark(item, user) ==
  /\ globalLast' = [globalLast EXCEPT ![item.id] = 0]
  /\ userLast' = IF user = Nobody THEN userLast ELSE [userLast EXCEPT ![<<item.id, user.uid>>] = 0]

\* jukebox_add_song for the event of a viewer, or for nobody: then the system
\* orders, for which there are no quotas.
Order(user, given) ==
  /\ queue' = IF Len(queue) < MaxQueue
                THEN Append(queue, IF given # "none" THEN given ELSE IF user = Nobody THEN "system" ELSE user.uid)
                ELSE queue
  /\ UNCHANGED playing

\* jukebox_skip_song: who asks is only looked at if there is an event.
Skip(user, selfOnly) ==
  /\ playing' = IF \/ selfOnly /\ user # Nobody /\ playing \notin {"none", "system", user.uid}
                   \/ playing = "none" THEN playing ELSE "none"
  /\ UNCHANGED queue

\* runAbility() calls the tool of the ability, and a tool has no event.
Run(item, user) ==
  IF item.ability = "jukebox_add_song" THEN Order(Nobody, "none") ELSE Skip(Nobody, item.selfOnly)

\* A danmaku.  One that no command takes, that its sender may not give or that
\* comes too early is left to the rules and the brain.
Danmaku(text, user) ==
  LET cs  == IF Signature(items) = signature THEN candidates ELSE Listed(items)
      fit == Matching(cs, text)
      it  == First(fit).item
      ran == fit # {} /\ Has(it, user) /\ Cool(it, user)
  IN /\ candidates' = cs /\ signature' = Signature(items)
     /\ hit' = [id |-> IF fit = {} THEN "none" ELSE it.id, text |-> text, user |-> user, ran |-> ran, owner |-> playing]
     /\ IF ran THEN Run(it, user) /\ Mark(it, user) ELSE UNCHANGED <<queue, playing, globalLast, userLast>>
     /\ UNCHANGED <<items, edits>>

-----------------------------------------------------------------------------

\* The page saves another form of a command.
Edit(n, i) ==
  /\ edits < MaxEdits /\ edits' = edits + 1 /\ i # items[n]
  /\ items' = [items EXCEPT ![n] = i] /\ hit' = NoHit
  /\ UNCHANGED <<candidates, signature, globalLast, userLast, queue, playing>>

\* The brain orders a song for a viewer, whom it may name.
BrainOrders(given) ==
  /\ Len(queue) < MaxQueue /\ Order(Nobody, given) /\ hit' = NoHit
  /\ UNCHANGED <<items, candidates, signature, globalLast, userLast, edits>>

\* The jukebox goes on to the next song.
Plays ==
  /\ playing = "none" /\ queue # <<>> /\ playing' = Head(queue) /\ queue' = Tail(queue) /\ hit' = NoHit
  /\ UNCHANGED <<items, candidates, signature, globalLast, userLast, edits>>

Older(a) == IF a < MaxAge THEN a + 1 ELSE a

Tick ==
  /\ globalLast' = [id \in Ids |-> Older(globalLast[id])]
  /\ userLast' = [p \in Ids \X Uids |-> Older(userLast[p])] /\ hit' = NoHit
  /\ UNCHANGED <<items, candidates, signature, queue, playing, edits>>

Init ==
  /\ items \in Tables
  /\ candidates = {} /\ signature = <<>> /\ hit = NoHit /\ edits = 0
  /\ globalLast = [id \in Ids |-> MaxAge] /\ userLast = [p \in Ids \X Uids |-> MaxAge]
  /\ queue = <<>> /\ playing = "none"

Next ==
  \/ \E text \in Texts, user \in Users \cup {Nobody} : Danmaku(text, user)
  \/ \E n \in DOMAIN items : \E i \in Items[n] : Edit(n, i)
  \/ \E given \in Uids \cup {"none"} : BrainOrders(given)
  \/ Plays \/ Tick

Spec == Init /\ [][Next]_vars

-----------------------------------------------------------------------------
(* Properties.                                                             *)

TypeOK ==
  /\ items \in Tables
  /\ queue \in Seq(Uids \cup {"system"}) /\ playing \in Uids \cup {"system", "none"}
  /\ globalLast \in [Ids -> 0..MaxAge] /\ userLast \in [Ids \X Uids -> 0..MaxAge]

Named(id) == CHOOSE n \in DOMAIN items : items[n].id = id

\* However the commands have been edited since the list was made, the danmaku
\* belongs to the command of the longest alias that takes it as the commands
\* are now, and to none if none does; and what runs has an alias that is on.
RightCommand ==
  LET able == {p \in UNION {{n} \X DOMAIN items[n].aliases : n \in DOMAIN items} :
                 /\ items[p[1]].enabled /\ items[p[1]].ability \notin Blocked
                 /\ Takes(items[p[1]].ability, items[p[1]].aliases[p[2]], hit.text)}
      long(p) == Len(items[p[1]].aliases[p[2]])
  IN hit # NoHit =>
       IF able = {} THEN hit.id = "none" /\ ~hit.ran
       ELSE \E p \in able : items[p[1]].id = hit.id /\ \A q \in able : long(q) <= long(p)

\* Nobody gives a command the configuration does not let him give.
Permitted == hit.ran => Has(items[Named(hit.id)], hit.user)

\* Where viewers may only skip their own songs, they skip nobody else's.
OwnSongs ==
  hit.ran /\ items[Named(hit.id)].ability = "jukebox_skip_song" /\ items[Named(hit.id)].selfOnly
    => playing = hit.owner \/ hit.owner \in {"system", "none", hit.user.uid}

=============================================================================
