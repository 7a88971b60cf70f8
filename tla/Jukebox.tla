------------------------------ MODULE Jukebox ------------------------------
(***************************************************************************)
(* The song-request machine (backend/src/music/jukebox.ts) together with   *)
(* the music channel of the audio executor it drives over a WebSocket.     *)
(*                                                                         *)
(* Node runs one callback at a time, so an action below is the code that   *)
(* runs between two awaits that really wait: a provider look-up, or an RPC *)
(* to the executor.  An await that is already settled (no connection, no   *)
(* idle playlist) belongs to the action that reaches it.                   *)
(*                                                                         *)
(* advance() is the heart: it archives the record of the last song, takes  *)
(* the next item, resolves its address and its lyric, asks the executor to *)
(* play it, and in its `finally' serves a skip that came meanwhile.  `adv' *)
(* says where the one running advance() waits.                             *)
(***************************************************************************)
EXTENDS Integers, Sequences, FiniteSets, SequencesExt

CONSTANTS
  Songs,         \* source:identifier keys the providers can resolve
  Users,         \* viewers, subject to the quotas
  Clients,       \* asynchronous calls that may be in flight together
  MaxPerUser,    \* cfg.maxPerUser
  MaxQueueSize,  \* cfg.maxQueueSize
  MaxRetries,    \* MAX_ADVANCE_RETRIES
  IdleRefs,      \* TRUE when the idle playlists hold at least one reference
  Ops,           \* the operations the clients use
  Faults,        \* what may go wrong
  MaxItems, MaxGen, MaxCrashes,  \* bounds on items, stops and disconnections
  MaxWire        \* bound: users act while fewer requests await the executor

Console == "console"             \* the operator: exempt from the quotas
IdleBy  == "idle"                \* an item the idle playlists injected
Chime   == -1                    \* src of the test chime (bytes://music), not an item
Nobody  == "none"                \* no one waits for the reply

ASSUME JukeboxAssumption ==
  /\ IsFiniteSet(Clients) /\ Clients \cap {"adv", "rst", Nobody} = {}
  /\ Users \cap {Console, IdleBy} = {}
  /\ MaxPerUser \in Nat \ {0} /\ MaxQueueSize \in Nat \ {0} /\ MaxRetries \in Nat
  /\ IdleRefs \in BOOLEAN
  /\ MaxItems \in Nat /\ MaxGen \in Nat /\ MaxCrashes \in Nat /\ MaxWire \in Nat

Item   == [id : Nat \ {0}, song : Songs, by : Users \cup {Console, IdleBy}]
NoItem == [id |-> 0, song |-> "none", by |-> "none"]

\* NowPlaying objects are compared by identity: obj tells them apart.
NoPlay == [obj |-> 0, item |-> NoItem, paused |-> FALSE]
NoAdv  == [ph |-> "none", gen |-> 0, item |-> NoItem]
NoCall == [op |-> "none"]
NoRestore == [obj |-> 0, paused |-> FALSE]
NoSlot == [src |-> 0, st |-> "off"]

VARIABLES
  queue,     \* queue: the items waiting
  np,        \* nowPlaying
  pending,   \* pendingPlay: taken from the queue, not yet now playing
  running, gen, skipReq,   \* running, generation, skipRequested
  fails,     \* consecutiveFailures
  timers,    \* retry timers that have not fired
  seq,       \* seq: the last item id
  plays,     \* NowPlaying objects made so far
  adv,       \* the running advance(): the await it stands at, its gen and item
  calls,     \* what each client's call waits for
  restore,   \* testRestore: the song to resume when the chime ends
  rst,       \* the restoreAfterTest() an event or the timer started
  open,      \* play_history rows with ended_at NULL, oldest first
  connected, crashes,      \* the executor's link, and how often it was lost
  toExec, fromExec,        \* the two directions of the WebSocket, in order
  slot       \* the executor's music slot

core  == <<queue, np, pending, adv, open, toExec>>
vars  == <<queue, np, pending, running, gen, skipReq, fails, timers, seq, plays,
           adv, calls, restore, rst, open, connected, crashes, toExec, fromExec, slot>>

-----------------------------------------------------------------------------
(* The queue as the checks of add() see it.                                *)

advancing == adv.ph # "none"

\* activeItems(): the queue, and the pending and playing items unless idle.
ActiveItems ==
  ToSet(queue) \cup {i \in {pending, np.item} : i # NoItem /\ i.by # IdleBy}

Requested(u) == {i \in ActiveItems : i.by = u}

\* Slip: a viewer may have one item more than allowed.
QuotaOkOneMore(u) ==
  \/ u = Console
  \/ /\ Cardinality(ActiveItems) < MaxQueueSize
     /\ Cardinality(Requested(u)) <= MaxPerUser

QuotaOk(u) ==
  \/ u = Console
  \/ /\ Cardinality(ActiveItems) < MaxQueueSize
     /\ Cardinality(Requested(u)) < MaxPerUser

\* Slip: the pending and the playing item are forgotten.
IsActiveInQueue(s) == \E i \in ToSet(queue) : i.song = s

IsActive(s) == \E i \in ActiveItems : i.song = s

-----------------------------------------------------------------------------
(* The wire to the executor.                                               *)

Msg(op, src, w) == [op |-> op, src |-> src, w |-> w]

\* safeRequest(): nothing is sent without a connection.
Send(wire, m) == IF connected THEN Append(wire, m) ELSE wire

\* A request nobody waits for any more: its reply will be ignored.
Forget(wire, w) ==
  [k \in DOMAIN wire |-> IF wire[k].w = w THEN [wire[k] EXCEPT !.w = Nobody] ELSE wire[k]]

Awaited(wire) == {m.w : m \in ToSet(wire)}

-----------------------------------------------------------------------------
(* The parts of advance() that several callbacks share.  Each takes the    *)
(* values the callback leaves in queue (q), nowPlaying (n), pendingPlay    *)
(* (p), the open records (r) and the outgoing wire (o).                    *)

\* Slip: nothing is closed.
ArchiveSlip(r) == r

\* archiveOpenRecord(): closes the newest open row, if there is one.
Archive(r) == IF r = <<>> THEN r ELSE Front(r)

Leave(q, n, p, a, r, o) ==
  /\ queue' = q /\ np' = n /\ pending' = p /\ adv' = a /\ open' = r /\ toExec' = o

\* Slip: the head of the queue is read and not removed.
LaunchPeeks(g, q, n, p, r, o) ==
  \/ /\ q # <<>>
     /\ Leave(q, n, Head(q), [ph |-> "url", gen |-> g, item |-> Head(q)], Archive(r), o)
  \/ /\ q = <<>> /\ IdleRefs
     /\ Leave(q, n, p, [ph |-> "idle", gen |-> g, item |-> NoItem], Archive(r), o)
  \/ /\ q = <<>> /\ ~IdleRefs
     /\ Leave(q, NoPlay, NoItem, NoAdv, Archive(r), Send(o, Msg("stop", 0, Nobody)))

\* Slip: with nothing to play the last song stays nowPlaying.
LaunchKeepsSong(g, q, n, p, r, o) ==
  \/ /\ q # <<>>
     /\ Leave(Tail(q), n, Head(q), [ph |-> "url", gen |-> g, item |-> Head(q)], Archive(r), o)
  \/ /\ q = <<>> /\ ~IdleRefs
     /\ Leave(q, n, NoItem, NoAdv, Archive(r), Send(o, Msg("stop", 0, Nobody)))

\* advance() up to its first real wait.
Launch(g, q, n, p, r, o) ==
  \/ /\ q # <<>>
     /\ Leave(Tail(q), n, Head(q), [ph |-> "url", gen |-> g, item |-> Head(q)], Archive(r), o)
  \/ /\ q = <<>> /\ IdleRefs
     /\ Leave(q, n, p, [ph |-> "idle", gen |-> g, item |-> NoItem], Archive(r), o)
  \/ /\ q = <<>> /\ ~IdleRefs
     /\ Leave(q, NoPlay, NoItem, NoAdv, Archive(r), Send(o, Msg("stop", 0, Nobody)))

\* ensurePlaying(): a no-op while stopped, while a song is on, or while an
\* advance() is still under way (a is the value of adv).
EnsurePlaying(run, g, q, n, p, a, r, o) ==
  IF run /\ n = NoPlay /\ a = NoAdv
    THEN Launch(g, q, n, p, r, o)
    ELSE Leave(q, n, p, a, r, o)

\* Slips: the skip is left standing; the skip is forgotten.
SettleKeepsSkip(q, n, p, r, o) ==
  UNCHANGED skipReq /\ Leave(q, n, p, NoAdv, r, o)
SettleDropsSkip(q, n, p, r, o) ==
  skipReq' = FALSE /\ Leave(q, n, p, NoAdv, r, o)

\* The `finally' of advance(): a skip asked for meanwhile is served now.
Settle(q, n, p, r, o) ==
  /\ skipReq' = FALSE
  /\ IF skipReq /\ running
       THEN Launch(gen, q, n, p, r, o)
       ELSE Leave(q, n, p, NoAdv, r, o)

\* Slip: no retry is scheduled.
CatchGivesUp(o) ==
  UNCHANGED <<fails, timers>> /\ Settle(queue, NoPlay, NoItem, open, o)

\* The `catch' of advance(): the item is dropped; a retry is scheduled with
\* back-off unless stop() or restart() came meanwhile, nothing is left to
\* play, or MaxRetries attempts in a row have failed.
Catch(o) ==
  LET retry == adv.gen = gen /\ (queue # <<>> \/ IdleRefs)
  IN /\ fails' = IF retry THEN fails + 1 ELSE fails
     /\ timers' = IF retry /\ fails + 1 <= MaxRetries THEN timers + 1 ELSE timers
     /\ Settle(queue, NoPlay, NoItem, open, o)

\* stop() or restart() came during the resolution: not played.  The call of
\* ensurePlaying() here runs before `finally' and so does nothing.
Expire ==
  /\ Settle(queue, np, NoItem, open, toExec)
  /\ UNCHANGED <<fails, timers>>

-----------------------------------------------------------------------------
(* Operations that complete at once.                                       *)

Start ==
  /\ running' = TRUE
  /\ fails' = 0
  /\ EnsurePlaying(TRUE, gen, queue, np, pending, adv, open, toExec)
  /\ UNCHANGED <<gen, skipReq, timers, seq, plays, calls, restore, rst,
                 connected, crashes, fromExec, slot>>

\* Slip: the generation is not advanced.
StopKeepsGen ==
  /\ running' = FALSE
  /\ skipReq' = FALSE
  /\ restore' = NoRestore
  /\ Leave(queue, NoPlay, NoItem, adv, Archive(open), Send(toExec, Msg("stop", 0, Nobody)))
  /\ UNCHANGED <<gen, fails, timers, seq, plays, calls, rst, connected, crashes, fromExec, slot>>

\* A running advance() is not interrupted: it finds the new generation later.
Stop ==
  /\ gen < MaxGen
  /\ running' = FALSE
  /\ gen' = gen + 1
  /\ skipReq' = FALSE
  /\ restore' = NoRestore
  /\ Leave(queue, NoPlay, NoItem, adv, Archive(open), Send(toExec, Msg("stop", 0, Nobody)))
  /\ UNCHANGED <<fails, timers, seq, plays, calls, rst, connected, crashes, fromExec, slot>>

\* restart() is stop() and start() in one step, and may drop the queue.
Restart ==
  /\ gen < MaxGen
  /\ running' = TRUE
  /\ gen' = gen + 1
  /\ skipReq' = FALSE
  /\ fails' = 0
  /\ restore' = NoRestore
  /\ \E q \in {queue, <<>>} :
       EnsurePlaying(TRUE, gen + 1, q, NoPlay, NoItem, adv, Archive(open),
                     Send(toExec, Msg("stop", 0, Nobody)))
  /\ UNCHANGED <<timers, seq, plays, calls, rst, connected, crashes, fromExec, slot>>

Skip ==
  /\ running
  /\ np # NoPlay \/ pending # NoItem \/ queue # <<>> \/ IdleRefs
  /\ IF advancing
       THEN skipReq' = TRUE /\ UNCHANGED core
       ELSE Launch(gen, queue, np, pending, open, toExec) /\ UNCHANGED skipReq
  /\ UNCHANGED <<running, gen, fails, timers, seq, plays, calls, restore, rst,
                 connected, crashes, fromExec, slot>>

SetQueue(q) ==
  /\ queue' = q
  /\ UNCHANGED <<np, pending, running, gen, skipReq, fails, timers, seq, plays, adv, calls,
                 restore, rst, open, connected, crashes, toExec, fromExec, slot>>

RemoveItem == \E k \in DOMAIN queue : SetQueue(RemoveAt(queue, k))
ToTop  == \E k \in DOMAIN queue : SetQueue(<<queue[k]>> \o RemoveAt(queue, k))
ClearQueue == SetQueue(<<>>)

-----------------------------------------------------------------------------
(* add() and playNow(): a look-up at the provider, then the queue.         *)

Begin(c, r) ==
  /\ calls[c] = NoCall
  /\ calls' = [calls EXCEPT ![c] = r]

Return(c) == calls' = [calls EXCEPT ![c] = NoCall]

\* add(): the quotas are checked before the look-up ...
Add(c, u, s) ==
  /\ QuotaOk(u)
  /\ Begin(c, [op |-> "add", by |-> u, song |-> s])
  /\ UNCHANGED <<core, running, gen, skipReq, fails, timers, seq, plays, restore, rst,
                 connected, crashes, fromExec, slot>>

\* ... and the duplicates after it.  A look-up that fails changes nothing.
AddResolved(c) ==
  /\ calls[c].op = "add"
  /\ Return(c)
  /\ \/ /\ ~IsActive(calls[c].song)
        /\ seq < MaxItems
        /\ seq' = seq + 1
        /\ EnsurePlaying(running, gen,
             Append(queue, [id |-> seq + 1, song |-> calls[c].song, by |-> calls[c].by]),
             np, pending, adv, open, toExec)
     \/ /\ IsActive(calls[c].song) \/ "lookupFails" \in Faults
        /\ UNCHANGED <<core, seq>>
  /\ UNCHANGED <<running, gen, skipReq, fails, timers, plays, restore, rst,
                 connected, crashes, fromExec, slot>>

\* The part of playNow() behind its look-up: the item goes to the head of
\* the queue and the song that is on gives way.  `running' is not read again.
PlayItemNow(s) ==
  LET q == <<[id |-> seq + 1, song |-> s, by |-> Console]>> \o queue
  IN /\ seq < MaxItems
     /\ seq' = seq + 1
     /\ IF advancing
          THEN /\ skipReq' = TRUE
               /\ Leave(q, np, pending, adv, open, toExec)
          ELSE Launch(gen, q, np, pending, open, toExec) /\ UNCHANGED skipReq

PlayNow(c, s) ==
  /\ running
  /\ Begin(c, [op |-> "playNow", by |-> Console, song |-> s])
  /\ UNCHANGED <<core, running, gen, skipReq, fails, timers, seq, plays, restore, rst,
                 connected, crashes, fromExec, slot>>

PlayNowResolved(c) ==
  /\ calls[c].op = "playNow"
  /\ Return(c)
  /\ \/ PlayItemNow(calls[c].song)
     \/ "lookupFails" \in Faults /\ UNCHANGED <<core, seq, skipReq>>
  /\ UNCHANGED <<running, gen, fails, timers, plays, restore, rst,
                 connected, crashes, fromExec, slot>>

\* previous(): replays a song of the play history, which outlives the
\* process, so any song may be in it; its title is known and nothing waits.
Previous(s) ==
  /\ running
  /\ PlayItemNow(s)
  /\ UNCHANGED <<running, gen, fails, timers, plays, calls, restore, rst,
                 connected, crashes, fromExec, slot>>

-----------------------------------------------------------------------------
(* The awaits of advance().                                                *)

\* nextIdleItem() found a song of the idle playlists, or gave up on them.
IdleResolved ==
  /\ adv.ph = "idle"
  /\ \/ /\ seq < MaxItems
        /\ seq' = seq + 1
        /\ \E s \in Songs :
             LET i == [id |-> seq + 1, song |-> s, by |-> IdleBy]
             IN Leave(queue, np, i, [adv EXCEPT !.ph = "url", !.item = i], open, toExec)
        /\ UNCHANGED skipReq
     \/ /\ "idleFails" \in Faults
        /\ Settle(queue, NoPlay, NoItem, open, Send(toExec, Msg("stop", 0, Nobody)))
        /\ UNCHANGED seq
  /\ UNCHANGED <<running, gen, fails, timers, plays, calls, restore, rst,
                 connected, crashes, fromExec, slot>>

\* registry.url()
UrlResolved ==
  /\ adv.ph = "url"
  /\ \/ /\ adv.gen = gen
        /\ Leave(queue, np, pending, [adv EXCEPT !.ph = "lyric"], open, toExec)
        /\ UNCHANGED <<skipReq, fails, timers>>
     \/ adv.gen # gen /\ Expire
     \/ "urlFails" \in Faults /\ Catch(toExec)
  /\ UNCHANGED <<running, gen, seq, plays, calls, restore, rst, connected, crashes, fromExec, slot>>

\* registry.lyric(), whose failure is ignored: the item becomes nowPlaying
\* and the executor is asked to play it.
LyricResolved ==
  /\ adv.ph = "lyric"
  /\ \/ /\ adv.gen = gen
        /\ plays' = plays + 1
        /\ IF connected
             THEN /\ Leave(queue, [obj |-> plays + 1, item |-> adv.item, paused |-> FALSE],
                           NoItem, [adv EXCEPT !.ph = "play"], open,
                           Append(toExec, Msg("play", adv.item.id, "adv")))
                  /\ UNCHANGED <<skipReq, fails, timers>>
             ELSE Catch(toExec)
     \/ adv.gen # gen /\ Expire /\ UNCHANGED plays
  /\ UNCHANGED <<running, gen, seq, calls, restore, rst, connected, crashes, fromExec, slot>>

\* The executor's answer to player.play, or the RPC timeout (ok = FALSE).
PlayAnswered(ok, o) ==
  \/ /\ adv.gen # gen
     /\ Settle(queue, np, pending, open,
               IF np = NoPlay THEN Send(o, Msg("stop", 0, Nobody)) ELSE o)
     /\ UNCHANGED <<fails, timers>>
  \/ /\ adv.gen = gen /\ ok
     /\ fails' = 0
     /\ Settle(queue, np, pending, Append(open, adv.item.id), o)
     /\ UNCHANGED timers
  \/ adv.gen = gen /\ ~ok /\ Catch(o)

\* Slip: the timer fires though none was set.
RetryTimerUnset ==
  /\ timers' = timers - 1
  /\ EnsurePlaying(running, gen, queue, np, pending, adv, open, toExec)
  /\ UNCHANGED <<running, gen, skipReq, fails, seq, plays, calls, restore, rst,
                 connected, crashes, fromExec, slot>>

\* The back-off timer of a failed advance(): ensurePlaying().
RetryTimer ==
  /\ timers > 0
  /\ timers' = timers - 1
  /\ EnsurePlaying(running, gen, queue, np, pending, adv, open, toExec)
  /\ UNCHANGED <<running, gen, skipReq, fails, seq, plays, calls, restore, rst,
                 connected, crashes, fromExec, slot>>

-----------------------------------------------------------------------------
(* Controls of the song that is on.  Each remembers the NowPlaying object  *)
(* it was called for; the answer applies to that object, current or not.   *)
(* Without a connection the call fails at once and changes nothing.        *)

Control(c, op, m) ==
  /\ connected
  /\ np # NoPlay
  /\ Begin(c, [op |-> op, obj |-> np.obj, paused |-> np.paused])
  /\ toExec' = Append(toExec, m)
  /\ UNCHANGED <<queue, np, pending, adv, open, running, gen, skipReq, fails, timers, seq,
                 plays, restore, rst, connected, crashes, fromExec, slot>>

Pause(c)  == ~np.paused /\ Control(c, "pause", Msg("pause", 0, c))
Resume(c) == np.paused /\ Control(c, "resume", Msg("resume", 0, c))
Seek(c)   == Control(c, "seek", Msg("play", np.item.id, c))

\* testChime(): the chime takes the music slot; a song that is on is frozen
\* as if paused.  One chime at a time.
TestChime(c) ==
  /\ restore = NoRestore /\ rst = NoRestore
  /\ \A d \in Clients : calls[d].op \notin {"chime", "bareChime"}
  /\ LET bare == ~running \/ np = NoPlay
     IN /\ np' = IF bare THEN np ELSE [np EXCEPT !.paused = TRUE]
        /\ IF connected
             THEN /\ Begin(c, [op |-> IF bare THEN "bareChime" ELSE "chime",
                               obj |-> np.obj, paused |-> np.paused])
                  /\ toExec' = Append(toExec, Msg("play", Chime, c))
             ELSE UNCHANGED <<calls, toExec>>
  /\ UNCHANGED <<queue, pending, adv, open, running, gen, skipReq, fails, timers, seq,
                 plays, restore, rst, connected, crashes, fromExec, slot>>

\* Slip: the song that is on is marked, whichever the call was for.
SetPausedAny(o, b) == IF np = NoPlay THEN np ELSE [np EXCEPT !.paused = b]

SetPaused(o, b) == IF np.obj = o THEN [np EXCEPT !.paused = b] ELSE np

\* The answer to a client's request.  A failed chime calls
\* restoreAfterTest(), which returns at once: testRestore is set only later.
CallAnswered(c, ok, o) ==
  LET call == calls[c]
  IN /\ Return(c)
     /\ np' = CASE ok /\ call.op = "pause"  -> SetPaused(call.obj, TRUE)
                [] ok /\ call.op = "resume" -> SetPaused(call.obj, FALSE)
                [] OTHER -> np
     /\ toExec' = IF ok /\ call.op = "seek" /\ call.paused
                    THEN Send(o, Msg("pause", 0, Nobody)) ELSE o
     /\ restore' = IF ok /\ call.op = "chime"
                     THEN [obj |-> call.obj, paused |-> call.paused] ELSE restore
     /\ UNCHANGED <<queue, pending, adv, open, skipReq, fails, timers, rst>>

\* restoreAfterTest(): resumes the song the chime interrupted, if it is
\* still the one that is on; failing that, it skips.
RestoreAfterTest(o) ==
  /\ restore' = NoRestore
  /\ IF restore.obj # np.obj
       THEN UNCHANGED <<queue, np, pending, adv, open, rst>> /\ toExec' = o
       ELSE IF connected
         THEN /\ rst' = restore
              /\ Leave(queue, np, pending, adv, open, Append(o, Msg("play", np.item.id, "rst")))
         ELSE /\ UNCHANGED rst
              /\ IF advancing THEN Leave(queue, np, pending, adv, open, o)
                              ELSE Launch(gen, queue, np, pending, open, o)

RestoreAnswered(ok, o) ==
  /\ rst' = NoRestore
  /\ IF ok
       THEN Leave(queue, SetPaused(rst.obj, rst.paused), pending, adv, open,
                  IF rst.paused THEN Send(o, Msg("pause", 0, Nobody)) ELSE o)
       ELSE IF advancing THEN Leave(queue, np, pending, adv, open, o)
                         ELSE Launch(gen, queue, np, pending, open, o)
  /\ UNCHANGED <<calls, restore, skipReq, fails, timers>>

\* The five seconds after which the chime counts as over.
ChimeTimeout ==
  /\ restore # NoRestore /\ rst = NoRestore
  /\ RestoreAfterTest(toExec)
  /\ UNCHANGED <<running, gen, skipReq, fails, timers, seq, plays, calls,
                 connected, crashes, fromExec, slot>>

-----------------------------------------------------------------------------
(* Messages from the executor, and requests that time out.                 *)

Waiting(w) ==
  \/ w = "adv" /\ adv.ph = "play"
  \/ w = "rst" /\ rst # NoRestore
  \/ /\ w \in Clients
     /\ calls[w].op \in {"pause", "resume", "seek", "chime", "bareChime"}

Answered(w, ok, o) ==
  \/ w = "adv" /\ PlayAnswered(ok, o) /\ UNCHANGED <<calls, restore, rst>>
  \/ w = "rst" /\ RestoreAnswered(ok, o)
  \/ w \in Clients /\ CallAnswered(w, ok, o)

\* handleMessage(): a reply nobody waits for any more is ignored.
ReplyArrives ==
  /\ fromExec # <<>> /\ Head(fromExec).op = "reply"
  /\ fromExec' = Tail(fromExec)
  /\ IF Waiting(Head(fromExec).w)
       THEN Answered(Head(fromExec).w, Head(fromExec).ok, toExec)
       ELSE UNCHANGED <<core, skipReq, fails, timers, calls, restore, rst>>
  /\ UNCHANGED <<running, gen, seq, plays, connected, crashes, slot>>

\* The RPC timeout.  A request whose connection was lost always ends this
\* way; one the executor has not yet come to, if "timeout" is among the faults.
TimedOut(w) ==
  /\ Waiting(w)
  /\ \/ w \notin Awaited(toExec) \cup Awaited(fromExec)
     \/ "timeout" \in Faults /\ w \in Awaited(toExec)
  /\ Answered(w, FALSE, Forget(toExec, w))
  /\ UNCHANGED <<running, gen, seq, plays, connected, crashes, fromExec, slot>>

\* Slip: the end of the chime moves on like that of a song.
EndedAdvances ==
  /\ fromExec # <<>> /\ Head(fromExec).op = "ended"
  /\ fromExec' = Tail(fromExec)
  /\ IF advancing THEN UNCHANGED core
                  ELSE Launch(gen, queue, np, pending, open, toExec)
  /\ UNCHANGED <<restore, rst, running, gen, skipReq, fails, timers, seq, plays, calls,
                 connected, crashes, slot>>

\* The player.ended listener start() attaches: the end of the chime restores
\* the song; the end of a song moves on, whether running or not.  It is
\* ignored while an advance() is under way.
EndedArrives ==
  /\ fromExec # <<>> /\ Head(fromExec).op = "ended"
  /\ fromExec' = Tail(fromExec)
  /\ \/ /\ Head(fromExec).src = Chime /\ restore # NoRestore /\ rst = NoRestore
        /\ RestoreAfterTest(toExec)
     \/ /\ Head(fromExec).src = Chime /\ restore = NoRestore
        /\ UNCHANGED <<core, restore, rst>>
     \/ /\ Head(fromExec).src # Chime
        /\ IF advancing THEN UNCHANGED core
                        ELSE Launch(gen, queue, np, pending, open, toExec)
        /\ UNCHANGED <<restore, rst>>
  /\ UNCHANGED <<running, gen, skipReq, fails, timers, seq, plays, calls,
                 connected, crashes, slot>>

-----------------------------------------------------------------------------
(* The audio executor (cpp-executor/src/audio_player.cpp): one thread takes *)
(* the requests in order; the stream thread reports the end of a source.   *)

Reply(w, ok) == IF w = Nobody THEN <<>> ELSE <<[op |-> "reply", src |-> 0, w |-> w, ok |-> ok]>>

Ended(src) == [op |-> "ended", src |-> src, w |-> Nobody, ok |-> TRUE]

\* Play() closes the slot first, so a failure leaves silence.  A source that
\* cannot be decoded may report its end before the reply is sent.
ExecPlay(m) ==
  \/ /\ slot' = [src |-> m.src, st |-> "playing"]
     /\ fromExec' = fromExec \o Reply(m.w, TRUE)
  \/ /\ "playFails" \in Faults
     /\ slot' = NoSlot
     /\ fromExec' = fromExec \o Reply(m.w, FALSE)
  \/ /\ "undecodable" \in Faults
     /\ slot' = [src |-> m.src, st |-> "drained"]
     /\ fromExec' = IF connected THEN Append(fromExec, Ended(m.src)) \o Reply(m.w, TRUE)
                                 ELSE fromExec

\* Pause() wants a source that has not ended; Resume() only a voice, so a
\* drained slot counts as playing again though nothing will ever sound.
ExecControl(m) ==
  LET ok == IF m.op = "pause" THEN slot.st \in {"playing", "paused", "hung"}
                              ELSE slot.st # "off"
      st == CASE slot.st = "drained" /\ m.op = "resume"            -> "hung"
              [] slot.st \in {"playing", "paused"} /\ m.op = "pause"  -> "paused"
              [] slot.st \in {"playing", "paused"} /\ m.op = "resume" -> "playing"
              [] OTHER -> slot.st
  IN /\ slot' = [slot EXCEPT !.st = st]
     /\ fromExec' = fromExec \o Reply(m.w, ok)

ExecStep ==
  /\ toExec # <<>>
  /\ toExec' = Tail(toExec)
  /\ LET m == Head(toExec)
     IN \/ m.op = "play" /\ ExecPlay(m)
        \/ m.op \in {"pause", "resume"} /\ ExecControl(m)
        \/ m.op = "stop" /\ slot' = NoSlot /\ UNCHANGED fromExec
  /\ UNCHANGED <<queue, np, pending, adv, open, running, gen, skipReq, fails, timers, seq,
                 plays, calls, restore, rst, connected, crashes>>

SourceEnds ==
  /\ slot.st = "playing"
  /\ slot' = [slot EXCEPT !.st = "drained"]
  /\ fromExec' = IF connected THEN Append(fromExec, Ended(slot.src)) ELSE fromExec
  /\ UNCHANGED <<core, running, gen, skipReq, fails, timers, seq, plays, calls, restore, rst,
                 connected, crashes>>

\* The process dies, or the heartbeat gives the connection up while the
\* executor plays on and may still carry out what it has received.
Disconnect ==
  /\ connected /\ crashes < MaxCrashes
  /\ connected' = FALSE
  /\ crashes' = crashes + 1
  /\ fromExec' = <<>>
  /\ \/ "crash" \in Faults /\ slot' = NoSlot /\ toExec' = <<>>
     \/ /\ "drop" \in Faults /\ UNCHANGED slot
        /\ \E k \in 0..Len(toExec) :
             toExec' = [j \in 1..k |-> [toExec[j] EXCEPT !.w = Nobody]]
  /\ UNCHANGED <<queue, np, pending, adv, open, running, gen, skipReq, fails, timers, seq,
                 plays, calls, restore, rst>>

\* Slip: the song that was on is taken to play on.
ReconnectKeepsSong ==
  /\ ~connected
  /\ connected' = TRUE
  /\ UNCHANGED <<core, running, gen, skipReq, fails, timers, seq, plays, calls, restore, rst,
                 crashes, fromExec, slot>>

\* Slip: the song that was on is put behind all that waits.
ReconnectQueuesLast ==
  /\ ~connected
  /\ connected' = TRUE
  /\ IF running /\ ~advancing /\ np # NoPlay
       THEN EnsurePlaying(running, gen, Append(queue, np.item), NoPlay, NoItem, adv,
                          Archive(open), toExec)
       ELSE UNCHANGED core
  /\ UNCHANGED <<running, gen, skipReq, fails, timers, seq, plays, calls, restore, rst,
                 crashes, fromExec, slot>>

\* CppClient's `connected' hook calls onPlayerReconnected(): the song that
\* was on goes back to the head of the queue and is played again.
Reconnect ==
  /\ ~connected
  /\ connected' = TRUE
  /\ IF running /\ ~advancing /\ np # NoPlay
       THEN EnsurePlaying(running, gen, <<np.item>> \o queue, NoPlay, NoItem, adv,
                          Archive(open), toExec)
       ELSE UNCHANGED core
  /\ UNCHANGED <<running, gen, skipReq, fails, timers, seq, plays, calls, restore, rst,
                 crashes, fromExec, slot>>

-----------------------------------------------------------------------------

\* A new process: nothing is queued, but the database may hold the open
\* record of a process that died.
Init ==
  /\ queue = <<>> /\ np = NoPlay /\ pending = NoItem /\ adv = NoAdv
  /\ running = FALSE /\ gen = 0 /\ skipReq = FALSE /\ fails = 0 /\ timers = 0
  /\ seq = 0 /\ plays = 0
  /\ calls = [c \in Clients |-> NoCall]
  /\ restore = NoRestore /\ rst = NoRestore
  /\ open \in {<<>>, <<0>>}
  /\ connected \in (IF "lateExecutor" \in Faults THEN BOOLEAN ELSE {TRUE})
  /\ crashes = 0
  /\ toExec = <<>> /\ fromExec = <<>> /\ slot = NoSlot

UserStep ==
  /\ Len(toExec) < MaxWire
  /\ \/ "start" \in Ops /\ Start
     \/ "stop" \in Ops /\ Stop
     \/ "restart" \in Ops /\ Restart
     \/ "skip" \in Ops /\ Skip
     \/ "edit" \in Ops /\ (RemoveItem \/ ToTop \/ ClearQueue)
     \/ "previous" \in Ops /\ \E s \in Songs : Previous(s)
     \/ \E c \in Clients, s \in Songs :
          \/ \E u \in Users \cup {Console} : "add" \in Ops /\ Add(c, u, s)
          \/ "playNow" \in Ops /\ PlayNow(c, s)
     \/ \E c \in Clients :
          \/ "pause" \in Ops /\ (Pause(c) \/ Resume(c))
          \/ "seek" \in Ops /\ Seek(c)
          \/ "chime" \in Ops /\ TestChime(c)

\* What happens by itself: the continuations of the machine ...
MachineStep ==
  \/ IdleResolved \/ UrlResolved \/ LyricResolved \/ RetryTimer
  \/ \E c \in Clients : AddResolved(c) \/ PlayNowResolved(c)
  \/ ReplyArrives \/ EndedArrives \/ ChimeTimeout
  \/ \E w \in Clients \cup {"adv", "rst"} : TimedOut(w)

\* ... and the executor.
ExecutorStep == ExecStep \/ SourceEnds \/ Reconnect

Next == UserStep \/ MachineStep \/ ExecutorStep \/ Disconnect

Spec == Init /\ [][Next]_vars

\* Providers answer, timers fire, the executor works and reconnects, a song
\* ends: nothing of that waits for a user.  Users owe nothing.
FairSpec ==
  /\ Spec
  /\ WF_vars(IdleResolved) /\ WF_vars(UrlResolved) /\ WF_vars(LyricResolved)
  /\ WF_vars(RetryTimer) /\ WF_vars(ReplyArrives) /\ WF_vars(EndedArrives)
  /\ \A w \in Clients \cup {"adv", "rst"} : WF_vars(TimedOut(w))
  /\ WF_vars(ExecStep) /\ WF_vars(SourceEnds) /\ WF_vars(Reconnect)

-----------------------------------------------------------------------------
(* Properties.                                                             *)

Waiters  == Clients \cup {"adv", "rst", Nobody}
Place    == Item \cup {NoItem}
NowPlays == [obj : Nat, item : Place, paused : BOOLEAN]
Advances == [ph : {"none", "idle", "url", "lyric", "play"}, gen : Nat, item : Place]
LookUps  == [op : {"add", "playNow"}, by : Users \cup {Console}, song : Songs]
Controls == [op : {"pause", "resume", "seek", "chime", "bareChime"}, obj : Nat, paused : BOOLEAN]
Restores == [obj : Nat, paused : BOOLEAN]
Requests == [op : {"play", "stop", "pause", "resume"}, src : Int, w : Waiters]
Messages == [op : {"reply", "ended"}, src : Int, w : Waiters, ok : BOOLEAN]
Slots    == [src : Int, st : {"off", "playing", "paused", "drained", "hung"}]

\* Every variable keeps its type.
TypeOK ==
  /\ queue \in Seq(Item) /\ np \in NowPlays /\ pending \in Place
  /\ running \in BOOLEAN /\ gen \in Nat /\ skipReq \in BOOLEAN
  /\ fails \in Nat /\ timers \in Nat /\ seq \in Nat /\ plays \in Nat
  /\ adv \in Advances
  /\ calls \in [Clients -> {NoCall} \cup LookUps \cup Controls]
  /\ restore \in Restores /\ rst \in Restores
  /\ open \in Seq(Nat)
  /\ connected \in BOOLEAN /\ crashes \in Nat
  /\ toExec \in Seq(Requests) /\ fromExec \in Seq(Messages) /\ slot \in Slots

\* A record is opened for every song that starts and closed when it gives
\* way: between two advances the open record is that of the song now
\* playing, and there is none while nothing plays (archiveOpenRecord closes
\* only the newest open row, so a second one would stay open for ever).
\* Until the first song, the record a dead process left may be open.
OpenRecordIsNowPlaying ==
  /\ Len(open) <= 1
  /\ \A k \in DOMAIN open : open[k] # 0 => open[k] = np.item.id
  /\ ~advancing /\ np # NoPlay => open = <<np.item.id>>

\* An item is in one place only: never twice in the queue, never queued
\* while it is pending, playing or being resolved.
Taken == {i \in {pending, np.item} : i # NoItem}
ItemInOnePlace ==
  /\ \A j, k \in DOMAIN queue : j # k => queue[j].id # queue[k].id
  /\ \A k \in DOMAIN queue, i \in Taken : queue[k].id # i.id
  /\ pending # NoItem => pending # np.item

\* Whatever the page does, the history and the queue are right.
ControlsSafe == TypeOK /\ OpenRecordIsNowPlaying /\ ItemInOnePlace

\* The advance that has put its song on and awaits the executor's answer is
\* still the one of the present generation, unless stop() has cleared
\* nowPlaying meanwhile: no stopped advance brings its song back.
StaleAdvanceIsSilent ==
  adv.ph = "play" => \/ np = NoPlay /\ adv.gen # gen
                     \/ np.item = adv.item /\ adv.gen = gen

\* A skip that found an advance() under way is kept until that advance ends,
\* and then does what was asked: unless the machine was stopped, the item
\* that advance was bringing up gives way to another advance or to silence.
SkipIsServed ==
  [][skipReq /\ ~skipReq' /\ running /\ gen' = gen
       => np' = NoPlay \/ (adv' # NoAdv /\ adv'.item # adv.item)]_vars
SkipIsKept == skipReq => advancing

\* Two look-ups that pass the quota together can overshoot it, but by no more
\* than the calls in flight beside the first.
QuotaOvershoot ==
  \A u \in Users : Cardinality(Requested(u)) <= MaxPerUser + Cardinality(Clients) - 1

\* The viewers' requests hold no song twice (cfg.dedupe), however their
\* look-ups overlap; playNow() and previous() of the operator do not check.
NoDuplicateSongs ==
  \A i, j \in ActiveItems : i.by \in Users /\ j.by \in Users /\ i.song = j.song => i = j

\* However look-ups overlap, the queue holds what its limits allow.
QuotaHolds == QuotaOvershoot /\ NoDuplicateSongs

\* The machine never idles over a waiting song: it plays, is about to, or a
\* retry timer is pending, unless MaxRetries attempts in a row have failed.
NoStall ==
  running /\ ~advancing /\ np = NoPlay /\ queue # <<>> => timers > 0 \/ fails > MaxRetries

Quiet == connected /\ toExec = <<>> /\ fromExec = <<>> /\ ~advancing

\* Once every message has been handled, the song the machine calls now
\* playing is really on in the executor, or is paused there.
NoGhost ==
  Quiet /\ np # NoPlay => slot.src = np.item.id /\ slot.st \in {"playing", "paused"}

\* ... and the two agree on whether it is paused.
PauseAgrees ==
  Quiet /\ np # NoPlay => (np.paused <=> slot.st = "paused")

\* The machine and the executor agree at rest.
ExecutorAgrees == NoGhost /\ PauseAgrees

\* Whatever the executor does, the history and the queue are right, the machine
\* does not stall, and what it calls playing plays.
FaultsSafe == ControlsSafe /\ NoStall /\ NoGhost

\* Every queued item is dealt with: it leaves the queue, unless the machine
\* is stopped or has given up retrying.
QueueDrains ==
  \A n \in 1..MaxItems :
    (\E k \in DOMAIN queue : queue[k].id = n)
      ~> (~running \/ fails > MaxRetries \/ ~\E k \in DOMAIN queue : queue[k].id = n)

\* The end of the test chime is never taken for the end of a song.
ChimeIsNoSong ==
  [][fromExec # <<>> /\ Head(fromExec) = Ended(Chime) /\ fromExec' = Tail(fromExec)
       => adv' = adv /\ np' = np /\ queue' = queue]_vars
-----------------------------------------------------------------------------
(* The abstract song player the machine implements.  The record a dead     *)
(* process left open carries no entry of this one: it counts as none.      *)

Noted(r) == IF r = <<>> THEN 0 ELSE Last(r)

Player == INSTANCE SongPlayer WITH
  Callers <- Users \cup {Console},
  House   <- IdleBy,
  made    <- seq,
  waiting <- queue,
  coming  <- pending,
  on      <- np.item,
  noted   <- Noted(open)

\* Whatever the providers, the timers and the executor do, and in whichever
\* order, an entry leaves the queue only from its head or by the operator's
\* edit, goes on only if it is the one being fetched, and is the open one
\* of the history only while it is on.
ImplementsSongPlayer == Player!Spec
=============================================================================
