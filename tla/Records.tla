------------------------------ MODULE Records ------------------------------
(***************************************************************************)
(* What the service remembers of the live room (modules/events.ts,         *)
(* index.ts: onEvent() and emitSystem(), core/history.ts, viewers.ts,      *)
(* context.ts, database.ts, retention.ts): the switches an event passes,   *)
(* the history in memory and the feed the model is shown of it, the        *)
(* viewers, the rows of the database and the sweep that deletes old ones,  *)
(* and the play records of the old JSON file, which the start moves into   *)
(* the database.  Memory is lost in a crash; rows and files are not.       *)
(***************************************************************************)
EXTENDS Naturals, Sequences, FiniteSets

CONSTANTS
  Users, Givers,  \* the viewers, and those who give gifts
  MaxHistory,  \* length of EventHistory: 100 in the code
  MaxViewers,  \* size of ViewerTable: 500 in the code
  FeedLines,   \* feed.maxEvents, or Pool if that is no bound, being below one
  Pool,        \* how many events the feed looks at: max(2 * maxEvents, 60)
  OldRecords,  \* the records of play-history.json
  MaxEvents, MaxDays, MaxCrashes, MaxEdits, MaxRefused  \* bounds

RecordsAssumption ==
  /\ Givers \subseteq Users
  /\ {MaxHistory, MaxViewers, FeedLines, Pool, MaxEvents, MaxDays, MaxCrashes, MaxEdits, MaxRefused} \subseteq Nat
  /\ MaxHistory > 0 /\ MaxViewers > 0 /\ FeedLines > 0 /\ FeedLines <= Pool

VARIABLES
  config,     \* the switches, the days rows are kept, what the feed shows
  up,         \* "down", "opened", "copied", "runs", "closed": the start and the end
  history,    \* EventHistory.items
  viewers,    \* ViewerTable.map: when each was last seen, and the danmaku counted
  rows,       \* event_history
  json, play, \* play-history.json, and how often the table has each record
  day,
  log, dispatched, refused, late, twice, crashes, edits, total  \* what has happened

vars == <<config, up, history, viewers, rows, json, play, day,
          log, dispatched, refused, late, twice, crashes, edits, total>>

Types == {"danmaku", "gift", "liveEnd"}
Nobody == 0   \* the lastSeen of a user without a record

Absent == [seen |-> Nobody, danmaku |-> 0]

-----------------------------------------------------------------------------
(* The start.                                                              *)

\* The constructor opens the database, whose tables may be there.
Open == up = "down" /\ up' = "opened"
        /\ UNCHANGED <<config, history, viewers, rows, json, play, day, log, dispatched, refused, late, twice, crashes, edits, total>>

\* Slip: the file is renamed before its records are in the table.
CopyLate ==
  /\ up = "opened" /\ up' = "copied" /\ json' = {}
  /\ UNCHANGED <<config, history, viewers, rows, play, day, log, dispatched, refused, late, twice, crashes, edits, total>>

\* migratePlayHistoryJson(): one transaction for all records, or none.
Copy ==
  /\ up = "opened" /\ up' = "copied"
  /\ \/ play' = [r \in OldRecords |-> play[r] + (IF r \in json THEN 1 ELSE 0)]
     \/ UNCHANGED play
  /\ UNCHANGED <<config, history, viewers, rows, json, day, log, dispatched, refused, late, twice, crashes, edits, total>>

\* delete*() of what is older than the days of the configuration; 0: for ever.
Kept == IF config.days = 0 THEN rows ELSE {e \in rows : e.day + config.days >= day}

\* The rename, which may fail, in which case the records will be copied again;
\* then start() with the first sweep.
Start ==
  /\ up = "copied" /\ up' = "runs" /\ rows' = Kept
  /\ \/ (\A r \in json : play[r] > 0) /\ json' = {} /\ UNCHANGED twice
     \/ UNCHANGED json /\ twice' = (twice \/ json # {})
  /\ UNCHANGED <<config, history, viewers, play, day, log, dispatched, refused, late, crashes, edits, total>>

\* stop() sweeps and closes the database first of all; the rest still runs.
Stop ==
  /\ up = "runs" /\ up' = "closed" /\ rows' = Kept /\ crashes < MaxCrashes
  /\ UNCHANGED <<config, history, viewers, json, play, day, log, dispatched, refused, late, twice, crashes, edits, total>>

\* The process ends, after a stop or anywhere.
Crash ==
  /\ up # "down" /\ crashes < MaxCrashes /\ crashes' = crashes + 1 /\ up' = "down"
  /\ history' = <<>> /\ viewers' = [u \in Users |-> Absent] /\ log' = <<>> /\ dispatched' = 0 /\ late' = FALSE
  /\ twice' = (twice \/ (up = "copied" /\ json # {}))
  /\ UNCHANGED <<config, rows, json, play, day, refused, edits, total>>

-----------------------------------------------------------------------------
(* Events.                                                                 *)

\* passesFilter(): the main switch, the switch of the type, the price of gifts.
Passes(type, price) ==
  /\ config.enabled /\ type \in config.on
  /\ type = "gift" => price >= config.minGift

\* The last n of s.
Latest(s, n) == IF Len(s) <= n THEN s ELSE SubSeq(s, Len(s) - n + 1, Len(s))

\* EventHistory.push()
Pushed(e) == Latest(Append(history, e), MaxHistory)

\* Slip: of those that were seen least recently, one too few stays.
PrunedShort(table) ==
  LET there == {u \in Users : table[u] # Absent}
  IN IF Cardinality(there) <= MaxViewers THEN table
     ELSE LET out == CHOOSE u \in there : \A v \in there : table[u].seen >= table[v].seen
          IN [table EXCEPT ![out] = Absent]

\* prune(): whoever was seen least recently goes.
Pruned(table) ==
  LET there == {u \in Users : table[u] # Absent}
  IN IF Cardinality(there) <= MaxViewers THEN table
     ELSE LET out == CHOOSE u \in there : \A v \in there : table[u].seen <= table[v].seen
          IN [table EXCEPT ![out] = Absent]

\* touch(), with the time of the event, and reset() after the end of a stream.
Touched(e) ==
  IF e.type = "liveEnd" THEN [u \in Users |-> Absent]
  ELSE Pruned([viewers EXCEPT ![e.user] =
                 [seen |-> e.at, danmaku |-> @.danmaku + (IF e.type = "danmaku" THEN 1 ELSE 0)]])

\* The database is closed, or fails, which it does MaxRefused times at most.
Refuses == up = "closed" \/ Cardinality(refused) < MaxRefused

\* Slip: an error of the database ends onEvent().
AcceptedOrNot(e) ==
  \/ up = "runs" /\ history' = Pushed(e) /\ rows' = rows \cup {e} /\ viewers' = Touched(e)
     /\ dispatched' = dispatched + 1 /\ log' = Append(log, e) /\ UNCHANGED refused
  \/ Refuses /\ history' = Pushed(e) /\ log' = Append(log, e) /\ refused' = refused \cup {e.n}
     /\ UNCHANGED <<rows, viewers, dispatched>>

\* onEvent(): the row is tried, the rest is done whatever becomes of it.
Accepted(e) ==
  /\ history' = Pushed(e) /\ viewers' = Touched(e) /\ dispatched' = dispatched + 1 /\ log' = Append(log, e)
  /\ \/ up = "runs" /\ rows' = rows \cup {e} /\ UNCHANGED refused
     \/ Refuses /\ rows' = rows /\ refused' = refused \cup {e.n}

\* event.ingest, event.batch item by item, event.simulate, of what passes; the
\* time is that of the sender, at most a day behind.
Ingest(type, user, price, behind) ==
  /\ up \in {"runs", "closed"} /\ total < MaxEvents /\ Passes(type, price) /\ total' = total + 1
  /\ Accepted([n |-> total', type |-> type, user |-> user, day |-> day - behind,
               at |-> IF behind = 0 THEN total' + 1 ELSE 1])
  /\ late' = (late \/ behind # 0)
  /\ UNCHANGED <<config, up, json, play, day, twice, crashes, edits>>

\* emitSystem(): no switch, no viewer, no dispatcher.
EmitSystem ==
  /\ up \in {"runs", "closed"} /\ total < MaxEvents /\ total' = total + 1
  /\ LET e == [n |-> total', type |-> "system", user |-> "nobody", day |-> day, at |-> total' + 1]
     IN /\ history' = Pushed(e) /\ log' = Append(log, e)
        /\ \/ up = "runs" /\ rows' = rows \cup {e} /\ UNCHANGED refused
           \/ Refuses /\ rows' = rows /\ refused' = refused \cup {e.n}
  /\ UNCHANGED <<config, up, viewers, json, play, day, dispatched, late, twice, crashes, edits>>

\* Every six hours.
Sweep ==
  /\ up = "runs" /\ rows' = Kept
  /\ UNCHANGED <<config, up, history, viewers, json, play, day, log, dispatched, refused, late, twice, crashes, edits, total>>

Tomorrow ==
  /\ day < MaxDays /\ day' = day + 1
  /\ UNCHANGED <<config, up, history, viewers, rows, json, play, log, dispatched, refused, late, twice, crashes, edits, total>>

\* The page changes a switch, the days, or what the feed shows.
Edit(c) ==
  /\ up = "runs" /\ edits < MaxEdits /\ edits' = edits + 1 /\ c # config /\ config' = c
  /\ UNCHANGED <<up, history, viewers, rows, json, play, day, log, dispatched, refused, late, twice, crashes, total>>

-----------------------------------------------------------------------------
(* What is read.                                                           *)

\* isFeedIncluded()
InFeed(e) == e.type \in config.include

\* ContextBuilder.build(): of the last events those that are shown, and of
\* those the last ones.
InPool(i) == i + Pool > Len(history) /\ InFeed(history[i])
Shown(s, i) == {j \in i..Len(s) : InFeed(s[j])}
Feed == {history[i] : i \in {j \in DOMAIN history : InPool(j) /\ Cardinality(Shown(history, j)) <= FeedLines}}

\* getEventHistory(): the newest rows before a time; of rows with one time the
\* database gives what it likes.
Pages(limit, before) ==
  LET older == {e \in rows : e.at < before}
  IN {page \in SUBSET older :
        /\ \A e \in page, f \in older \ page : e.at >= f.at
        /\ \/ Cardinality(page) = limit
           \/ page = older /\ Cardinality(page) <= limit}

Default == [enabled |-> TRUE, on |-> Types, minGift |-> 0, days |-> 1, include |-> Types]
Configs == {[Default EXCEPT !.enabled = FALSE], [Default EXCEPT !.on = Types \ {"danmaku"}], [Default EXCEPT !.minGift = 2],
            [Default EXCEPT !.days = 0], [Default EXCEPT !.include = {"danmaku", "system"}]}

Init ==
  /\ config = Default /\ up = "down" /\ history = <<>> /\ viewers = [u \in Users |-> Absent]
  /\ rows = {} /\ json = OldRecords /\ play = [r \in OldRecords |-> 0] /\ day = 1
  /\ log = <<>> /\ dispatched = 0 /\ refused = {} /\ late = FALSE /\ twice = FALSE /\ crashes = 0 /\ edits = 0 /\ total = 0

Next ==
  \/ Open \/ Copy \/ Start \/ Stop \/ Crash \/ EmitSystem \/ Sweep \/ Tomorrow
  \/ \E c \in Configs : Edit(c)
  \/ \E u \in Users, b \in {0, 1} : Ingest("danmaku", u, 0, b)
  \/ \E u \in Givers, p \in {1, 2} : Ingest("gift", u, p, 0) \/ Ingest("liveEnd", u, 0, 0)

Spec == Init /\ [][Next]_vars

-----------------------------------------------------------------------------
(* Properties.                                                             *)

TypeOK ==
  /\ up \in {"down", "opened", "copied", "runs", "closed"} /\ Len(history) <= MaxHistory
  /\ Cardinality({u \in Users : viewers[u] # Absent}) <= MaxViewers
  /\ json \subseteq OldRecords /\ play \in [OldRecords -> Nat]

\* Whatever the database does, the history is the end of what was accepted and
\* each live event is dispatched; a row of yesterday or today is missing only
\* if the database refused it.
Recorded ==
  /\ history = Latest(log, MaxHistory)
  /\ dispatched = Cardinality({i \in DOMAIN log : log[i].type # "system"})
  /\ \A i \in DOMAIN log : log[i].day + 1 >= day => log[i] \in rows \/ log[i].n \in refused

\* No old record is lost by a crash anywhere in the start, and none is in the
\* table twice unless a start ended between the copy and the rename.
Migrated == \A r \in OldRecords : (r \in json \/ play[r] > 0) /\ (play[r] > 1 => twice)

\* As long as events come in the order of their times, the viewers are those
\* that have been seen most recently since the last end of a stream.
Since == {i \in DOMAIN log : log[i].type # "system" /\ \A j \in DOMAIN log : log[j].type = "liveEnd" => j < i}
SeenAfter(u, v) == \E i \in Since : log[i].user = u /\ \A j \in Since : log[j].user = v => j < i
There == {u \in Users : viewers[u] # Absent}
ViewersAreLatest ==
  ~late => LET seen == {log[i].user : i \in Since}
           IN /\ There \subseteq seen
              /\ \A u \in There, v \in seen \ There : SeenAfter(u, v)
              /\ There # seen => Cardinality(There) = MaxViewers

\* The feed is the end of what may be shown of all that was accepted, cut to
\* its lines, and shorter only if the pool holds events that are not shown, or
\* the history is.
Enough == IF FeedLines <= MaxHistory THEN FeedLines ELSE MaxHistory
FeedIsTail ==
  /\ Cardinality(Feed) <= FeedLines
  /\ \A e \in Feed : \E i \in DOMAIN log : log[i] = e /\ InFeed(e) /\ \A j \in Shown(log, i) : log[j] \in Feed
  /\ (\A i \in DOMAIN history : i + Pool > Len(history) => InPool(i)) =>
       \A i \in DOMAIN log : InFeed(log[i]) => log[i] \in Feed \/ Cardinality(Shown(log, i)) > Enough

\* A page and the one before its last row: no row is in both, and between them
\* only those are missing that have the very time of that row.
PagesMeet ==
  \A one \in Pages(2, total + 2) : \A l \in one : (\A e \in one : e.at >= l.at) =>
    \A two \in Pages(2, l.at) :
      /\ one \cap two = {}
      /\ \A e \in rows \ (one \cup two) : (\A f \in two : e.at > f.at) => e.at = l.at

Remembered == PagesMeet /\ TypeOK /\ Recorded /\ Migrated /\ ViewersAreLatest /\ FeedIsTail

=============================================================================
