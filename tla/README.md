# A TLA+ model of Elysia-Vtuber

Elysia-Vtuber drives a virtual streamer: a Koishi plugin forwards the events of
a live room to a Node service, which answers them with chat commands, rules or
a language model, plays requested songs, and speaks; two C++ executors (audio
and Live2D) do the playing and the drawing. This directory models the Node
service wherever callbacks interleave or tables must agree, the plugin's link
to it, the slots of the audio executor it drives and the executors' processes
as it sees them. Every safety invariant that TLC checks on a small instance is
also proved, for every value of the parameters.

All paths below are relative to the repository; `B/` is `backend/src/`.

## Inventory

| Component | State | Operations | Talks to |
|---|---|---|---|
| Song machine `B/music/jukebox.ts` | `queue`, `nowPlaying`, `pendingPlay`, `running`, `advancing`, `generation`, `skipRequested`, `consecutiveFailures`, retry timers, `testRestore`, the open row of `play_history` | start, stop, restart, add, remove, toTop, clearQueue, skip, previous, playNow, pause, resume, seek, testChime; reactions to `player.ended`, reconnection and timers | providers, audio executor, database |
| Music providers `B/music/registry.ts`, `providers/`, `http.ts`, `bili-wbi.ts` | one cached signing key | search, info, url, lyric, playlist | music services |
| Music login `B/music/login-manager.ts` | the credential of each provider, `sessions`, `qrSessions` | qrCreate, qrPoll, logout, sessionSet, restoreFrom | providers, configuration |
| Audio executor `cpp-executor/src/audio_player.cpp`, `ipc_server.cpp` | per channel a slot: source, voice, stream thread | Play, Stop, Pause, Resume; `player.ended` | its IPC client |
| Speech queue `B/tts/engine.ts` | `queue`, `running`, `epoch`, `waitEnded`, timers, running pumps | speak, stop, pump, playOne, waitForEnded | speech service, audio executor |
| Commands `B/core/commands.ts`, abilities `B/core/abilities.ts` | `candidates`, `signature`, `globalLast`, `userLast` | handle | song machine, Live2D |
| Instant rules `B/core/instant.ts`, variables `B/core/variables.ts` | `lastAt` per rule | handle, matches, execute | abilities, output, brain |
| Batcher `B/core/batcher.ts` | `batch`, `batchStartAt`, `lastEventAt`, `window` | push, tick, fire, stop | brain |
| Brain `B/llm/cognition.ts`, session `B/llm/session.ts`, tools `B/core/tools.ts` | priority `queue`, `draining`, counts, rounds of a session | request, drain, execute, chat, loop, invoke | model, tools, output |
| Output router `B/modules/output.ts` | `danmakuTimes` | route, dispatch | speech queue, plugin |
| History, viewers, context, memory, trace, retention `B/core/` | bounded buffers, the viewers' table | push, touch, prune, build, record, sweep | database |
| Database `B/core/database.ts` | event rows, play history | open, insert, page, delete, migrate | SQLite |
| Configuration `B/modules/config.ts`, `B/index.ts`, Live2D module `B/modules/live2d.ts` | `config`, three snapshots, `live2dApplyChain`, `stagePersistTimer` | update, reload, applyConfigRuntime, applyLive2dConfig, onExecutorStageChanged | Live2D executor, file |
| Executor client `B/cpp/client.ts`, `B/core/rpc.ts` | child process, `status`, socket, `connecting`, `pending`, reconnect, heartbeat and attach timers | start, attach, stop, restart, setConfig, connect, close, request | executors |
| Server `B/server/ws.ts`, page client `backend/renderer/assets/js/rpc-client.js` | `peers`, `byKind`, `alivePeers`; the page's socket, its flags and calls | connection, peer.declare, dispatch, heartbeat, stop; connect, call | pages, plugin |
| Plugin `src/event-bridge.ts`, `backend-client.ts`, `backend-process.ts`, `index.ts` | `disconnectQueue` (100), socket, `pending`, reconnect timer, child process | ingest, flush, connect, disconnect, start, stop | Koishi, service |
| MCP `B/mcp/manager.ts` and clients | `entries`, the promise chain, registered tools | connect, refresh, upsert, remove, reconnectAll | MCP servers, tool registry, configuration |
| Live2D executor `cpp-executor/src/app.cpp` | what it shows, the jobs of its render thread | live2d.*, runOnRenderThread; `live2d.stageChanged` | its IPC client |
| WebUI pages, schema, ciphers, legacy backend | forms, data | - | - |

`PROJECT.json` lists them all, with what of each is left out and why.

How they interact. The plugin sends each event of the room over a WebSocket
(`Link`); the server dispatches it to `event.ingest`; `onEvent()` records it
(`Records`) and `dispatchEvent()` offers it to the commands, the rules and the
batcher (`Dispatch`, `Commands`, `Rules`). Commands, rules and the model's
calls end in abilities, of which the song machine's matter most (`Jukebox`);
what is said goes through the output router (`Brain`) to the speech queue
(`Tts`). Songs are looked up at services (`Lookup`) with the logins of the
room's owner (`Login`). Songs, speech and the stage reach the executors through
one client each (`Executor`), the stage by a chain of pushes (`Stage`). Pages
edit everything over the same server (`Hub`).

What is hard, and what makes each part correct:

* **Song machine.** `advance()` waits up to four times (idle list, address,
  lyric, executor) while users stop, restart, skip, edit and pause, songs end,
  and the executor crashes. It must never stall over a waiting song, never put
  on a song of before a `stop()`, keep one open history record (that of the
  song on), keep a skip that comes at a bad moment, and agree with the executor
  on what sounds.
* **Speech.** `stop()` cannot cancel a synthesis or a request: old pumps live
  beside new ones. Old speech must stay silent, waiting speech must be spoken,
  no pump may wait for ever.
* **Dispatch.** An event is acted on or thought about once, in time although
  its time stamp is the plugin's, and the brain serves rules before batches.
* **Commands and rules.** A cached list must act as the configuration of now;
  the page, the engine and the texts each keep a list of their own of what an
  event has.
* **Link.** A socket lives on after the client has let it go, and its handlers
  do not ask which socket they speak of. The client must end with one live
  connection and hand on every event it kept once and in order.
* **Executor client.** The same, with a process that is spawned, found, ended
  and restarted while any of this is under way.
* **MCP, logins, stage.** Answers come after the configuration they were asked
  under has changed. What is registered, saved and shown must be what holds now.
* **Brain.** Three sorts of callers share tools and one rate window; the model
  may call for ever or fail in any round.
* **Records.** Memory and database fail apart from each other, at any point.

## Modules

| Module | Models |
|---|---|
| `Jukebox` | the song machine with the music slot of the audio executor and the wire between them |
| `SongPlayer` | what the song machine promises: numbered entries in line, one coming up, one on, one open in the history; abstract |
| `JukeboxProofs` | the inductive invariant of `Jukebox` and its consequences; that of its items: their places, the quotas, the served skip; that each step is one of `SongPlayer` or a stutter |
| `JukeboxWireProofs` | the invariant of its wires: who awaits what, what is on in the executor, what is paused |
| `Tts` | the speech queue with the tts slot |
| `TtsProofs` | its inductive invariant: types, numbers, timers, the living pump, silence, order |
| `Dispatch` | `dispatchEvent()`: a command, rules, batcher, the brain's queue |
| `DispatchProofs` | its inductive invariant: where each event is, the order of the queue, the ages in the batch |
| `Commands` | danmaku against the cached list of aliases, permissions, cooldowns; the abilities that order and skip |
| `Rules` | conditions of rules and the variables of their texts, as offered and as tested |
| `Link` | the plugin: event bridge, backend client, commands that stop and start the service |
| `Channel` | what the link promises: a bounded channel, in order, at most once; abstract |
| `Executor` | the client of an executor, its sockets, timers and process |
| `Hub` | the WebSocket server and a page's client |
| `WiresProofs` | the inductive invariants of `Executor`: types, what tasks wait for, the child, the badge; and of `Hub`: the tables, the calls of a page |
| `Mcp` | the MCP manager, its chain, servers and registry |
| `TablesProofs` | the inductive invariants of `Mcp`: types, the job at work, the registry, what is still to be set right; of `Login`: who is after a credential, and what it may be; of `Records`: the log and what is kept of it |
| `Brain` | sessions of the model, tools, output router, memory, trace |
| `Stage` | the stage's configuration, file, pushes, the executor's own panel |
| `Lookup` | look-ups of songs and play lists at six services |
| `PartsProofs` | the inductive invariants of `Brain`: sessions, accounts, the router's window; of `Stage`: how each part comes to be shown; of `Lookup`: whose turn it is |
| `Login` | credentials, saved sessions, QR codes, restoration |
| `Records` | event filter, history, viewers, rows, retention, migration |
| `MCJukebox`, `MCTts`, `MCDispatch` | values of the constants for TLC |
| `MCRoom` | `Link`, `Commands` and `Rules`, checked in one run |
| `RoomProofs` | the inductive invariants of `Link`, and that each of its steps is one of `Channel` or a stutter; of `Commands`: what the list of aliases is worth; of `Rules`: that each test is what its field means |
| `MCWires` | `Executor` and `Hub` |
| `MCTables` | `Mcp`, `Login` and `Records` |
| `MCParts` | `Brain`, `Stage` and `Lookup` |

The last four put side by side modules that share no state: the variable
`part` chooses in the initial state which of them moves, the others keep their
initial state, and each property speaks of one of them. Interleaving them would
multiply the states and find nothing that one alone does not have.

### How the models correspond to the code

Node runs one callback at a time. An action is the code between two awaits
that really wait; an await that settles at once (`safeRequest()` without a
connection, an empty idle list) is part of the action that reaches it. An
executor request is a message on a FIFO wire, answered by a FIFO wire; the
executor's IPC thread takes one at a time. A message carries the name `w` of
the one who awaits its reply; a request that timed out stays on the wire, so
its late effect is modelled and its late answer ignored, as `handleMessage()`
does.

**Jukebox.** `adv` stands for `advancing`, the local variables of `advance()`
and the await it is at (`idle`, `url`, `lyric`, `play`). `Launch` is
`advance()` up to its first wait, `Settle` its `finally`, `Catch` its `catch`,
`Expire` the check of the generation; the callbacks that run them pass the
values they have assigned so far. `EnsurePlaying` is evaluated with the `adv`
of the moment, which is how a stale `advance()` that calls it before its
`finally` achieves nothing. `calls` holds what each concurrent RPC caller
waits for. `open` is the history rows without an end. `NowPlaying` objects are
compared by identity in the code, so each has a number.

What the machine promises is `SongPlayer`, which knows no provider, no executor
and no generation: `waiting` is the queue, `coming` the pending item, `on` that
of nowPlaying, `noted` the open row of the history (`Noted`; a row that a dead
process left carries no entry and counts as none). `Jukebox` implements it
(`ImplementsSongPlayer`): whichever callback runs, an entry leaves the queue
only from its head or by an edit, only what is coming up goes on, and the
history has at most the entry open that is on.

**Tts.** A pump is a record in a set: several can be alive together after
`stop()`. `waitEnded` is the one resolver the engine stores. A pump whose
sentence ends before the answer to `player.play` is marked `over`. `timely` says
that the executor answers before the clock gives its requests up and that the
speech service names the lengths: then a timer fires when its sentence no longer
sounds and a request times out only when its answer is lost. Otherwise both may
happen any time, with the request still on its way to be carried out. `Disconnect`
is the end of the executor ("crash") or of the link alone ("drop"): then the slot
plays on, some of the requests still arrive, their answers and the events go
nowhere, and `stop()` sends nothing. `missed`, `crowded` and `drops` are history:
the exemptions of `StopSilences` and `InOrder`, each of which the code needs (see
the observations).

**Dispatch.** Ages replace moments: every tick makes each older. An event
enters with the age its time stamp gives it, so `batchStartAt` is the age of
the first event and `waited` the ticks really spent in the batch. A command, an
ability or a spoken text that waits is in `running`, with the rest of its
handler in `CommandDone`, `RuleDone` or `RuleFails`.

**Link.** `socks` are the WebSocket objects, `ws` the one the client calls its
own. A `closing` socket was closed by `disconnect()` and has not said so yet; a
`dead` one is open for the client only; a `left` one says no more, but the
service may still read what was sent in it. In the code `ws` keeps pointing at
a closed socket, whose `terminate()` does nothing; the model forgets it.
`Dial` is `connect()`, which does nothing while another dial is under way;
`Closed` is the handler of `close`, the same for every socket. The service is
one bit, `up`, and reads each socket in order; the request that ends it,
`Shutdown`, travels among the events. Commands come one at a time.

What the link promises is `Channel`: `inside` are the events kept by the plugin
or on their way in some socket, `faulty` that a fault or a command has
happened. `Link` implements it (`ImplementsChannel`), so no socket, timer or
handler is part of the promise.

**Executor.** `procs` are the process the service spawns and one started by
hand; `child` is the handle the service has, which outlives the process until
`exit` is heard. A process that has loaded is `up`, or `deaf` when it runs but could not
have its port, which another one listens at (`ipc_server.cpp:15`: the address may be shared, or
refused). `tasks` are `start()`, an `attach()` of a caller and that of the
retry timer, each at its probe of the port, its polls or its dial; `on` is the
socket it awaits, or any. `ws`, `connecting`, `manual`, `rtimer` and `beating` are
the fields of `RpcClient`. As in `Link`, `Closed` is the handler of `close` for
every socket. A socket may be `mute`: the other side is gone and only the
heartbeat finds out. `told` is what `emitState()` last told the pages.

**Hub.** `net` is the truth about each socket, `peers` and `byKind` what the
server believes, `cur`, `connected`, `declared`, `declaring` and `timer` what the page
does. `left` are the sockets `connect()` has replaced while they were closing: their
`onclose` comes later and, like `Onclose`, does not ask whose it is; `declaring` is a set
since the `onopen` of one may still wait when the next has opened. `half` is a connection whose other side has died without a word.

**Mcp.** `chain` is the promise chain; the job at its head has a `todo` of servers
and waits `at` a request. An entry's `client` is a number, since the registry
keeps the client in the handler of each tool; `server` counts the changes of
each server's tools.

**Brain.** `session` is the state of `loop()` for the brain and for a page; an
answer of the model is a sequence of calls from `Answers`; `sent` is history:
every danmaku with its moment, `times` those the router has not forgotten.

**Stage.** A value is the number of the edit it comes from. `pushes` are
`applyLive2dConfig()` and its parts under way, 0 being that of the chain; each
sends the rest, the stage and the window, waiting between them. A request answered with
`timeout` because the render thread was busy for five seconds is in `late` until its job is
done. `last` of the window is no value at first, as the constructor leaves it, so the first
edit pushes the window too. `Panel` is an edit on the executor's own panel as
`onExecutorStageChanged()` expects its news; `scheduleStageNotify()` has no caller in this
commit, and that edits within 100 ms are announced together is left out. `overlap` is
history: an edit or a push met another push.

**Lookup.** A look-up is the sequence of requests a provider makes for it, each
with the limit of its timer and what an empty answer means; `Registry` and
`Order` give the provider. The limit of kuwo's own socket is one on silence (`Fed`): `fed` are
the look-ups to which bytes came since its timer was last set.

**Login.** A credential is the number of the QR code that gave it; `Bad` is one
no service takes. `restores` are the `restoreFrom()` loops under way. The `op` of a call, with the
fields of the request it serves, says where it waits; at qq a session that is set or restored may wait
twice, the second time for the credential `via` that the provider had by then. `contested` and
`misled` are history: the providers whose credential two were after at once, until a login, a
logout or a session that meets nobody there; and those whose saved session was judged by
the credential of another.

**Records.** `log` is what was accepted, in order; everything the service keeps
is compared with it. `up` names the points of the start at which it may crash.
`Feed` is the set of the lines, whose order is that of the history; `Pages` are the
sets of rows the database may give, which is free to order rows of one time.

**Commands.** `candidates` holds the items themselves, as the code does, so an
edit that does not change the signature leaves old items in it. `hit` is the
last danmaku, the command that took it and whose song was on.

**Rules.** One rule meets one event; `Meant` says what the label of a field
promises, `Tested` what the engine does.

Definitions commented *Slip* are plausible mistakes in the definition that
follows them. Nothing in a specification uses them: they are put in its place
to see that a property notices.

## Runs

| Run | Question | Result |
|---|---|---|
| `jukebox_core` | two concurrent callers add, play now, go back, skip, stop, restart and pause while look-ups fail; as a refinement | holds |
| `jukebox_faults` | late executor, crash, dropped link, refused song, time-out; as a refinement and live | holds |
| `jukebox_controls` | edits of the queue, pause, resume, seek, chime against endings, undecodable songs, idle lists | holds |
| `jukebox_restart` | does the machine play on after `restart()` during a look-up? | violated |
| `tts_speech` | speech against stop, test tones, failures, requests given up and carried out late, a crash or a lost link; liveness | holds |
| `dispatch_flow` | commands, rules, batches, brain, late events, merging switched off and on; liveness | holds |
| `room` | events against crashes, lost links, failed dials, stop, start and restart, as a refinement and live; aliases edited between danmaku; rules as offered | holds |
| `commands_event` | may a viewer skip only his own songs? | violated |
| `commands_stale` | is a restricted command refused? | violated |
| `wires` | executors that crash, go silent, miss their port, are started by hand, stopped and restarted; pages and peers whose connections die, close late and are replaced; liveness | holds |
| `tables` | MCP servers, logins and records against edits, failures, crashes | holds |
| `parts` | the model, the stage and look-ups against failures, edits, a late render thread; liveness | holds |

What the passing runs show:

* *History* (`OpenRecordIsNowPlaying`, in `ControlsSafe` and `FaultsSafe`): at
  most one open record; between two advances it is that of the song on.
* *Items* (`ItemInOnePlace`, in the same two; `QuotaHolds`): an item is queued,
  pending or on, never two of them, also after a crash puts it back; viewers cannot queue one
  song twice however their look-ups overlap; the quota can be overshot, by no
  more than the other calls in flight.
* *Advance* (`StaleAdvanceIsSilent`, `SkipIsKept`, `SkipIsServed`, and in
  `FaultsSafe`, `QueueDrains`): see above. `ImplementsSongPlayer` says of every
  step what it may do to queue, pending item, song on and history together. `QueueDrains` is stated up to the
  code's own giving-up (`MAX_ADVANCE_RETRIES`) and a stopped machine. The absence
  of a stall (`NoStall`, a part of `FaultsSafe`) and `QueueDrains` are checked
  where no `restart()` happens; with it they fail, which is the finding of
  `jukebox_restart`.
* *Executor* (`ExecutorAgrees`, `ChimeIsNoSong`): once the wires are empty, the
  executor has the song the machine calls now playing and they agree on the
  pause; the end of a chime moves nothing. The agreement on the pause is
  checked without crashes, seeks and undecodable songs: those end it in ways
  the code accepts.
* *Speech* (`Safe`: someone speaks while something waits, and no pump waits
  without a timer; `StopSilences`, `InOrder`, `SpeechDrains`). Silence is promised
  unless the stop found no link or was lost with one; order in every epoch that
  had one pump; that none is cut short until somebody stops, a tone sounds, the
  executor is late or it outlives its link.
* *Dispatch* (`Safe`: every event at most once; `FiredInTime`, `UrgentFirst`,
  `EventuallyDealtWith`).
* *Link* (`LinkSafe`, `ImplementsChannel`, `EventsArrive`). A stale `close` does
  make the client believe that it is disconnected while its new socket is
  open; it terminates that socket when the timer fires, so there is never a
  second one, and what was kept meanwhile is read. Order is promised until the
  first `stop` or `restart` only: after it two sockets may deliver side by side. A
  `restart` given up because the port stays open leaves the client disconnected
  until someone types `vtuber.start`; `EventsArrive` says so by its exception for
  a last word that was to disconnect.
* *Commands, rules* (`RightCommand`, `AsOffered`): however the aliases were
  edited, a danmaku belongs to the longest alias of now; a rule takes what its
  page says, and every variable explained there has a value.
* *Executor client* (`ExecutorSafe`, `ExecutorFound`): the service never loses
  the handle of a process it spawned and that runs; at rest the badge tells
  the truth; without a `close()` it finds an executor that stays up, and a
  `start()` ends.
* *Hub* (`HubSafe`, `DeadOnesLeave`): one kind per connection; the dead leave; a call that
  was sent has its request or answer under way on the page's open socket, or an
  `onclose` is to come that fails it.
* *Mcp* (`Tools`, `Applied`, `Fresh`): the registry is what the entered
  servers offer; at rest these are the servers configured, with their tools of
  now unless the server could not say that they changed.
* *Login, records* (`Sessions`, `Remembered`): see the definitions. A saved
  session that its service would refuse is one of kugou, which does not ask, or of qq with
  the credential of another judged in its place; the credential in use is the saved one or
  none, unless one is being tried or two have met.
* *Brain* (`BrainSafe`, `AllAnswered`): every request is counted once and traced,
  and no minute sees too many danmaku.
* *Stage* (`Shown`, `Applies`): the file is the configuration unless an edit of
  the panel waits for its timer; at rest the executor shows it, provided no
  push met another one. If one did, it may not: see the observations.
* *Lookup* (`FirstThatWorks`, `LookupsEnd`): a play list is that of the first
  service that gives one; every look-up ends, because every request has a limit, unless kuwo never stops sending
  bytes: its limit is one on silence.

### What the violated runs mean

1. `jukebox_restart`: a comment at `jukebox.ts:680` leaves the song to the
   advance of the restart. `ensurePlaying()` is called while `advancing` is
   still set, both by `restart()` and by the stale advance, so none starts.
2. `commands_event`: "only one's own songs" (`abilities.ts:126`) is checked for a
   command with an event, and `runAbility()` gives the event to no ability.
   Songs ordered by danmaku belong to `system` for the same reason, which has
   no quota.
3. `commands_stale`: `commands.ts:33` promises a list made anew when the
   configuration changes; its signature leaves out permission, cooldowns and
   fixed arguments, while the list holds whole items.

### Observations

Behaviour met while modelling, which no run judges. Some are departures from a
comment of the source, some merely worth a thought.

* *Song machine.* A chime that is refused leaves the displaced song silent:
  `restoreAfterTest()` returns because `testRestore` is set later
  (`jukebox.ts:343`, `359`). An executor that starts after the retries are spent
  gets nothing, although `index.ts:880` counts on `onPlayerReconnected()`, which
  returns when nothing is now playing (`jukebox.ts:529`). The answer to a
  restoration, and that to the look-up of `playNow()`, are used without asking
  whether the machine was stopped meanwhile (376, 448). `tryExpandPlaylistRef()`
  writes the play list it read before its wait (794).
* *Speech.* The `finally` of an overtaken pump clears `running` under its
  successor (`tts/engine.ts:150`): `tts.status` says idle while it speaks, and the
  next `speak()` starts a second pump of the same epoch, beside which sentences
  can lose their order. The stop of an overtaken pump (178) may silence a sentence
  of the new epoch. A `stop()` without a link silences nothing: an executor that
  outlives the link (`rpc.ts:222`, `client.ts:89`) speaks on, and is not stopped
  when the link is back. The `player.ended` of an earlier source resolves the
  present wait (127).
* *Commands.* Cooldowns are checked before the ability is awaited and marked
  after it (`commands.ts:52`, `61`).
* *Executor client.* A `close` of an old socket stops the heartbeat of the new
  one (`rpc.ts:209`) and may lead to two dials; whichever opens last is `ws`.
  `restart()` while a `start()` is under way joins that start (`client.ts:256`).
  `audio-executor.exe` posts its end to the thread that took `system.shutdown`
  (`audio_main.cpp:73-76`), not to the one that waits for it, so an instance started by hand may
  stay although `client.ts:229-231` says it is closed. A second executor on a taken port runs
  on deaf or shares it (`ipc_server.cpp:23`).
* *MCP.* `mcp.server.remove` deletes the configuration when its turn comes, even
  of a server added again meanwhile. An HTTP event stream that ends normally is
  never opened again (`http-client.ts:213`). The tools of a process that exits
  stay registered and answer "not connected" until a refresh.
* *Brain.* A request that fails in a later round is traced without the calls of
  the earlier ones; a failed playground request is not traced. The memory also
  keeps text that was not sent. Speech whose delay has begun is spoken though
  the channel is switched off meanwhile.
* *Stage.* The pushes of `onConnected` (`index.ts:334`) and of a reload go beside
  the chain whose comment (584) promises the order of the edits, and may cover
  a newer value. An edit on the panel within 500 ms of a stop is not saved, and
  one not yet saved is dropped by `config.reload`.
* *Look-ups and logins.* An unknown source means kuwo. A late answer with an
  old signing key overwrites a newer one. Two requests after one provider's
  credential at once may leave it with one and save another: `isLogin()` of qq judges in its
  second wait the credential of then (`qq.ts:190-198`), so a session the service refuses is
  saved when another client has set a good one meanwhile (`login-manager.ts:95-102`).
  `mobiRequest()` of kuwo has no limit but one on silence (`kuwo.ts:60`): a service that drips
  bytes keeps its caller waiting. Keys renewed by
  qq are not saved; a kugou session is never found to have expired.
* *Records.* A rename that fails after the migration makes the next start copy
  the records again (`database.ts:283-286`). A page asked for with `before` skips
  rows of the same moment. Events the feed does not show crowd others out of
  its pool. A late event sets `lastSeen` back.
* *Rules.* Keywords are not asked of an event without text. A rule whose only
  regular expression is blank takes nothing.
* *Hub.* A page whose socket closes while it declares itself says "connected" for
  up to 3 s. The `onclose` of a socket that was replaced while it closed rejects the calls
  of its successor (`rpc-client.js:135`); if it comes after the successor has declared itself,
  `declared` stays false on an open socket, and every call waits its 15 s and fails until
  that socket closes.

### Bounds and why they suffice

| Bound | Value | Why |
|---|---|---|
| `Songs`, `Users`, `Clients` | 2-3, 1, 1-2 | a duplicate needs one song twice; a viewer who overshoots a quota of one by more than the other call in flight needs three; quotas are per user; overlaps are of two calls |
| `MaxItems` | 2-3 | one on, one being brought up, one waiting |
| `MaxGen` | 0-1 | a stale advance needs one stop or restart |
| `MaxRetries` | 0-1 | one failure with a retry and one without (5 in the code) |
| `MaxCrashes` | 0-1 | a crash and the recovery from it |
| `MaxWire` | 1-2 | users act while fewer than so many requests wait at the executor; the machine itself is not held back |
| `MaxSaid`, `MaxParts`, `MaxStops`, `MaxMishaps` | 3, 2, 1, 1 | a text of two sentences and another; a pump of before the stop beside a new one, and a third; a lost link or a test tone |
| `MaxEvents`, `MaxLag`, `MaxAge`, `OldAge` | 4, 1, 2, 4 | enough to fill a batch; the oldest age any guard tells apart |
| `Quiet`, `MaxWait`, `Span`, `Density`, `MaxBatch` | 2, 3, 2, 3, 4 | every path to `fire()` is reached: the batch can stay below the density while events keep it from the quiet window for longer than the longest wait |
| `Socks`, `MaxKept`, `MaxCuts`, `MaxFaults` | 3, 2, 1, 2 | the client's socket and two old ones; a queue that holds an order and overflows with the third event; one stop or restart; a crash and a lost connection |
| `Socks`, `MaxCommands`, `MaxFaults` of `Executor` | 3, 3, 2 | three sockets, one of them left over; start, stop or edit, start; a crash and a lost link |
| `Pages`, `Others`, `Calls` of `Hub` | 2, 1, 1 | the page's old and new socket, another peer, a call in flight; no other bound |
| `Names`, `Http`, `Stdio` | 2, 1, 1 | two servers that may share a target, one of each kind |
| `MaxEdits`, `MaxChanges`, `MaxFails` of `Mcp` | 2, 1, 1 | an edit during the connection an edit began; a change; a failure |
| `Callers`, `MaxCodes`, `MaxOps` of `Login` | 2, 2, 4 | two requests at once; a login after a login |
| `MaxHistory`, `MaxViewers`, `FeedLines`, `Pool` | 2, 1, 1, 2 | each overflows with three events of two users |
| `MaxEvents`, `MaxDays`, `MaxCrashes`, `MaxSwitches`, `MaxRefused` of `Records` | 3, 2, 1, 1, 1 | one row old enough to be swept; one crash at each point |
| `Answers`, `MaxRounds`, `Rate`, `Window` of `Brain` | 3, 2, 1, 2 | no call, two channels, an ability and silence; the last round; a full window |
| `MaxRequests`, `MaxOthers`, `MaxTime`, `MemorySize` of `Brain` | 2, 2, 2, 1 | one request waits behind another, with a page and a rule beside them |
| `MaxEdits`, `MaxPushes` of `Stage` | 2, 2 | two edits during the first push, and a reload, a lost link or a job done after its time |
| `Clients`, `MaxLookups`, `MaxKeys`, `MaxChunks` of `Lookup` | 2, 2, 2, 2 | two look-ups that share a key that changes |
| `Items`, `Texts`, `Users`, `MaxQueue`, `MaxEdits`, `MaxAge` of `Commands` (`RoomItems`, `RoomDanmaku`, `RoomSenders` in `MCRoom`) | 2, 4, 2, 1, 1, 1 | aliases of which one extends another; a viewer with and one without a badge; one song waits and one plays |
| `Words`, `Numbers` of `Rules` | 2, 0..2 | a value below, at and above the limit |
| fields of a rule, data of an event in `Rules` | 0-2 | fields are tested one by one, and one test looks at two data at most |

All runs say `CHECK_DEADLOCK FALSE` because a model at the end of its bounded
users, events and items has nothing left to do, as the idle program has not.

### Fairness

Weak fairness on the steps that do not wait for a person: a look-up answers or
fails (its HTTP request has a timeout), a timer fires, an RPC request is
answered or times out (`rpc.ts`), the executor's thread takes requests and its
client reconnects (`reconnectMs`), what plays ends unless paused, the batcher's
interval and the heartbeats run, a model request ends (the gateway has a
timeout), a dial ends and a closed socket says so (`timeout`, the 30 s of the
library), a command polls the port until a deadline, a spawned process listens
or exits, a job at the head of a chain runs. In `Lookup` only the timers are
fair: that services answer is not assumed, and a request without a timer would
break `LookupsEnd`, which exempts a socket whose timer is always set back. In `Hub` handlers and
calls owe nothing: `DeadOnesLeave` needs the heartbeat, the retry and the news of a close
only. An executor asked to end may stay. In
`Stage` the pushes beside the chain owe nothing either. Users, events, crashes and failures owe nothing. No strong
fairness is assumed. Where one run checks several modules its specification
has no fairness of its own; each liveness property then is an implication from
the `Fairness` of its module.

## Proofs

TLAPS proves the following for all values of the constants, from nothing but
the assumption the module states about them. A `Proofs` module EXTENDS the
module it is about, so theorem and run speak of the same specification;
`RoomProofs`, `WiresProofs`, `PartsProofs` and `TablesProofs` EXTEND the `MC` modules that put
several side by side, whose constants are those of the modules and get their values in the `.cfg`.

| Module | Theorem | States | Assumes |
|---|---|---|---|
| `JukeboxProofs` | `Invariance` | `Spec => []IInv` | `JukeboxAssumption`: finitely many calls, disjoint names, natural bounds |
| | `TypeCorrect` | `Spec => []TypeOK` | |
| | `HistoryCorrect` | `Spec => []OpenRecordIsNowPlaying` | |
| | `NoStaleAdvance` | `Spec => []StaleAdvanceIsSilent` | |
| | `SkipCorrect` | `Spec => []SkipIsKept` | |
| | `NoStallUnlessStopped` | `NeverStopped => (Spec => []NoStall)` | also `NeverStopped`: `Ops` without `stop()` and `restart()`, `Faults` without idle lists that fail |
| | `ItemsInvariance` | `Spec => []ItemsInv` | |
| | `ItemsInOnePlace` | `Spec => []ItemInOnePlace` | |
| | `ControlsCorrect` | `Spec => []ControlsSafe` | |
| | `QuotaCorrect` | `Spec => []QuotaHolds` | |
| | `SkipServed` | `Spec => SkipIsServed`, an action property | |
| | `JukeboxImplementsSongPlayer` | `Spec => ImplementsSongPlayer` | |
| `JukeboxWireProofs` | `ChimeMovesNothing` | `Spec => ChimeIsNoSong`, an action property | `JukeboxAssumption` |
| | `WireInvariance` | `Foreseen => (Spec => []WireInv)` | also `Foreseen`, see below |
| | `WhatPlaysIsOn` | `Foreseen => (Spec => []NoGhost)` | |
| | `FaultsCorrect` | `Foreseen /\ NeverStopped => (Spec => []FaultsSafe)` | |
| | `MachineAndExecutorAgree` | `Foreseen /\ "timeout" \notin Faults => (Spec => []ExecutorAgrees)` | |
| `TtsProofs` | `Invariance` | `Spec => []IInv` | `TtsAssumption`: natural bounds, a text has a sentence |
| | `NobodyForgotten` | `Spec => []Safe` | |
| | `StopIsHeard` | `Spec => []StopSilences` | |
| | `InOrderHolds` | `Spec => InOrder`, an action property | |
| `PartsProofs` | `Invariance` | `Spec => []IInv` | `BrainAssumption`: tools the registry knows, limits above zero |
| | `BrainCorrect` | `Spec => []BrainSafe` | |
| | `StageInvariance` | `PartsSpec => [](part = "stage" => StageInv)` | `PartsAssumption`: natural bounds, those of `Lookup` above zero |
| | `StageCorrect` | `PartsSpec => []Shown` | |
| | `LookupInvariance` | `PartsSpec => [](part = "lookup" => LookupInv)` | |
| | `LookupCorrect` | `PartsSpec => []FirstThatWorks` | |
| `DispatchProofs` | `Invariance` | `Spec => []IInv` | `DispatchAssumption`: commands and rules differ, natural bounds, `OldAge` above every limit |
| | `EveryEventOnce` | `Spec => []Safe` | |
| | `NeverLate` | `Spec => []FiredInTime` | |
| | `UrgentRequestsFirst` | `Spec => UrgentFirst`, an action property | |
| `RoomProofs` | `Invariance` | `Spec => []IInv` | `LinkAssumption`: `NoSock` is no socket, natural bounds |
| | `LinkCorrect` | `Spec => []LinkSafe` | |
| | `LinkImplementsChannel` | `Spec => ImplementsChannel` | |
| | `CommandsInvariance` | `RoomSpec => [](part = "commands" => CommandsInv)` | `RoomAssumption`: an id names one command, natural bounds; numbers are natural, `"("` is no word |
| | `CommandsCorrect` | `RoomSpec => []RightCommand` | |
| | `RuleMeansItsFields` | `Matches(r, e)` is the conjunction of `Meant` over the fields of `r` | the same |
| | `RulesInvariance` | `RoomSpec => [](part = "rules" => RulesInv)` | `RoomAssumption` |
| | `RulesCorrect` | `RoomSpec => []AsOffered` | |
| `WiresProofs` | `Invariance` | `Spec => []IInv` | `ExecutorAssumption`: the marks are no sockets, natural bounds |
| | `ExecutorCorrect` | `Spec => []ExecutorSafe` | |
| | `HubInvariance` | `WiresSpec => [](part = "hub" => HubInv)` | `WiresAssumption`: finitely many sockets and calls, calls are no kinds, pages are not the other peers |
| | `HubCorrect` | `WiresSpec => []HubSafe` | |
| `TablesProofs` | `Invariance` | `Spec => []IInv` | `McpAssumption`: finitely many names, no endpoint of both sorts, natural bounds |
| | `RegistryCorrect` | `Spec => []Tools` | |
| | `ConfigurationApplied` | `Spec => []Applied` | |
| | `ToolsAreFresh` | `Spec => []Fresh` | |
| | `LoginInvariance` | `TablesSpec => [](part = "login" => LoginInv)` | `TablesAssumption`: natural bounds; those of `Records` above zero, no more lines in the feed than in its pool (`index.ts:184`, `context.ts:28`) |
| | `LoginCorrect` | `TablesSpec => []Sessions` | |
| | `RecordsInvariance` | `TablesSpec => [](part = "records" => RecordsInv)` | |
| | `RecordsCorrect` | `TablesSpec => []Remembered` | |

Each `IInv` was checked by TLC on small constants before it was proved. One
`...Keeps` lemma per action, or one per part of the invariant, shows that it is
preserved; what several actions do alike is a lemma of its own.

**Jukebox.** `IInv` has four parts. `CoreTyped` and `RestTyped` are
the types, sharper than `TypeOK` where an action depends on it (the record a
call holds is of the kind its `op` says). `Linked` relates nowPlaying, the
running advance, the open records and the generation: while an advance runs no
record is open (which `archiveOpenRecord()` achieves only because there was at
most one); without one the record is that of the song on; an advance that
waits for the executor holds the song on or has been overtaken, and an
overtaken advance finds nothing on. None of these is inductive alone: the
history needs to know that nothing is archived twice, the generation needs the
song, and `SkipIsKept` needs to know when `adv` is none. `CoreTyped` and
`Linked` take the variables as parameters, because the shared parts of
`advance()` take the values a callback has assigned: `LaunchLinked`,
`EnsurePlayingLinked` and `SettleLinked` are proved once and cited by every
action.

That it never stalls needs one more fact, which `stop()` and `restart()` break: the
advance that runs is the present one (`Present`), since only an overtaken one
leaves without starting a song, setting a timer or giving up for good. Each step
then either leaves the machine `Busy` or `Idles`, taking nothing away.

**Items of the Jukebox.** `ItemInOnePlace` says nothing of the item an
`advance()` is resolving, nor of where new items get their ids, so it is not
inductive. `InPlace` adds both: the pending item is that of the running
advance, unless a `stop()` has taken it away (`PendingIs`); what waits differs
from that item too (`Apart`), which is what makes a served skip move on
(`SkipServed`); and no id is above `seq` (`Numbered`). The quota is checked
before a look-up and the item comes after it, so the bound is kept by the sum
of the items a viewer has and the look-ups that will bring one (`Room`). Every
step but `Add` and `AddResolved` brings a viewer neither (`Moves`,
`NoNewCalls`). The end of a chime moves nothing because it arrives only over a
link that is up (`Offline`), where the song can be asked for again.

**Song player.** That `Jukebox` implements `SongPlayer` rests on both invariants:
`PendingIs` for what is coming up (nothing between two advances, the item of the
advance while it resolves), `Linked` for what the history may have open when a
song goes on. `Launch` is then `Advance`, or `Stop` where it clears nowPlaying
(`LaunchPlayed`); every end of an advance that brings up no song is `Stop`, with
the next entry coming up at once if a skip waited (`SettlePlayed`); a good answer
is `Note`, unless a skip overtook it, which closes the row in the same step and is
`Advance`; a reconnection is `Again`. One `...Played` lemma per action.

**Wires of the Jukebox.** `Wires` says that every request somebody waits for is
what that somebody asked for, that every reply is awaited, and that nobody
awaits two things. On it rests `Real`: between two advances the song now playing
is in the slot, no request on the wire will change that, and if it sounds no
more the news of its end is under way; for an advance that has asked, its
request is the last that decides, or its answer is under way and, if good, true.
`Asleep` is needed for a link that breaks: a machine that has not started has
asked for nothing, so a reconnection finds either a song to play again or
silence. `Foreseen` is a condition on `Ops` and `Faults`: no seek, no chime, no
source that cannot be decoded, and no `stop()` where the link may break. Except
for a seek whose answer is good, each of these does break `NoGhost`, as TLC shows on a
handful of states: the chime takes the slot, an undecodable source ends before
its reply, a request outlives the link. The runs `jukebox_core` and
`jukebox_faults` fulfil it. For the pause, `Match` says what the machine will
believe when it has heard what is under way: the last reply that concerns the
song now playing, told by its number (`Issued`), decides, or if there is none
the mark it has. `Ahead` says of an advance whose request the executor has not
come to that requests for its song are behind that one and all others before
it. A time-out of a request the executor will still carry out
(`"timeout"`) breaks this agreement in the code itself, so the theorem excludes it;
a request lost with its link is covered.

**Brain.** `allowDanmaku()` forgets what is a minute old, so that no minute sees
too many danmaku is about more than the router keeps. `Remembered` says that it
still has whatever the last minute has: a minute that takes in a new danmaku
then holds no more than those the router has just counted (`DispatchKeeps`). The
accounts are kept by two sorts of steps, a session that goes on and one that
ends with a decision (`Outcome`).

**Stage.** That a connected executor at rest shows the configuration is a statement
about what has been under way. `StageShape` holds the types, that a push waits for one
request or answer, never two, and that the last job for the window has its value of
now. `Converges` adds, as long as the link stands and no push went beside another
or beside an edit: each part is `Coming`, by a job of the chain, a push that has still to send it, the
last request on the wire or among the jobs of the render thread, or because it is shown already; and a push sends values of
now, unless the chain has a job behind it. An edit of the executor's own panel is
the exception: until its news arrives the screen is ahead of the configuration.
Then either the news is `Doomed`, to meet a service at work or to be lost, which counts as such
a crossing, or it is all that is under way (`PanelOnly`).

**Lookup.** `FirstThatWorks` speaks of the end of a look-up. `ListOK` says it of
each step: the list is asked of the n-th provider of the order, every one
before it has failed or does not know the reference, and the request for a
signing key is never the last of a provider.

**Dispatch.** That an event is in one place (`Runs`, `Kept`) is inductive once all
ids are known to be of events that came in. `FiredInTime` needs that the first
event of the batch has waited longest and none longer than it is old (`Timed`):
a tick tests ages, of the first and the last event only. `Ordered` says of the
engine's queue that each request comes before the next; `InsertIs` says where
`request()` puts one, and `OnlyThoughtTakes` that nothing else than the end of a
thought chooses among several.

**Tts.** That someone speaks is not inductive: a pump of an older epoch may end
although a sentence waits. `PumpAlive` says that a pump of the present epoch
lives while `running` is set or something waits, `Numbered` that what waits is
of the present epoch, newer than what any pump holds, and no two pumps hold the
same, `Timed` that a pump that has asked the executor has a timer or its wait is
over. Silence after a stop (`Silenced`) follows the old sentence: whatever of an
old epoch sounds, or is on the wire to be played, has a stop behind it, unless a
stop has missed its link. `Orderly` is the order: what the slot holds and what
is on the wire to be played follow each other as they were spoken, and the one
pump of the epoch is at the last of them or past it, also when it has given
that request up. `CalmInv` says of a calm time (an executor that is in time and
does not outlive its link, no stop, no tone) that one pump lives and at what
stage of its one sentence the executor is. `InOrder` is a consequence of both
for each step.

**Link.** `Flags` and `Typed` are the types; `OneActive` says that `ws` is the one socket
dialed or open for the client, so that a late `close` of another, which clears
`connected`, leads to a dial that first terminates it. `EventsOnce` says that
each event of the room is in one place, kept or in one socket, in rising order
there, and that none was read twice. `NotCut` adds, until the first command,
that old sockets hold only what lies before everything else. Under the mapping
`inside` every action is one of `Channel` or a stutter.

**Executor.** `NoOrphan` alone is not inductive. `TasksOK` says that a task
waits for something that exists: a poll has a child, an awaited socket has been
dialed. `CutsPaidFor` says that every `close()` belongs to a command, one under way
being still owed, `DialUnderWay` that `connecting` has a dial. The
badge tells the truth (`Told`) or somebody who is under way will tell
(`WillTell`): this is what "at rest" means before rest is reached.

**Hub.** `OneKind` compares the tables of the server with what each page has
declared. `ServerOK` says that a connection is in the table of its kind and no
other, and that an open socket is in one (`Entered`). A call that waits is `Awaited`: the
page's socket has closed, or one it replaced has still to say so, or the request or its
answer lies on the open one. That the server cannot lose it there rests on `Entered`: what
an open socket sends is read and answered. `Onclose` of any socket fails all calls, so it leaves
nothing to be served.

**Mcp.** The registry (`RegistryIsEntries`) is an invariant by itself, once the
job at work is known to serve a server that is entered with the client it
asked (`Waits`): the chain is what guarantees it. That the configuration is
applied when the chain is empty is proved from what holds before: a server is
right, or a job of the chain will set it right (`WillApply`), where a job whose
configuration has been overtaken counts for nothing, but always has one behind
it that counts (`Overtaken`). Equally its tools are those of now, or the answer
awaited or a refresh behind it brings them (`WillFresh`); `Offered` keeps an
answer from being newer than its server. The order in which one change makes
several clients ask again is left open, so nothing rests on it.

**Login.** A provider whose credential two requests, or a request and a
restoration, were after at once is `contested` until a login, a logout or a session that meets nobody
there, and until then anything may be in use. Of every other provider `Alone` says that one
request or one restoration tries its credential, and nobody logs in meanwhile; `Settled` that
a restoration has the saved session, a request that sets a session has set it already (and in its
second wait judges that one: this is what makes the answer one about it), and
without such a request the credential is the saved one or none. The order in which a
restoration takes the saved sessions is left open.

**Records.** `LogOK` says that the history is the end of the log, which lets the
history forget early what it would forget anyway (`LatestOfMore`), and `RowsOK` that
what is not old is in a row or was refused. `OnceOnly` adds to `Migrated` how far the
start has got. The heart is `Follows`: while events come in order each viewer
in the table has the time of the last event of theirs since the last end of a stream,
and was seen after every viewer who is not in it; `prune()` takes the one with the
least time, and that there is a least one is proved (`Least`). The feed is a
statement about the state alone: that its lines are the last that are shown
follows by moving indices between history and log (`ShownMoves`, `FeedCloses`,
`FeedIsFull`).

**Commands.** `ListKept` says that the cached list is what some table of commands gives
whose signature is the one kept; it is no invariant that this table is the present
one, and permissions and cooldowns may differ (`commands_stale`). `SameSignature` and
`MatchingIs` show that what takes a danmaku is told by the signature alone. The
list is sorted by length and otherwise stable; that such an order has a first
element in every list is `FirstIs`, by three uses of a least number, of which
the one for the longest alias exists because no alias is longer than the danmaku it
takes.

**Rules.** `AsOffered` compares two translations of the code: `Matches` from the
engine, `Meant` from the labels of the page. One lemma per sort of field
(`KeywordsField` to `FlagFields`) shows that the engine's test of the field,
which treats a missing value, an empty list or zero in a way of its own, is
what the field means; `TestedIs` that the engine tests, for each type, fields
of which the page offers no other (`AllAsked`). `RuleMeansItsFields` puts them
together for a rule of any number of fields and an event with any of the data
of its type, where `Rules` and `Data` have two at most.

Only model-checked: liveness and whatever depends on fairness (`SpeechDrains`,
`QueueDrains`, `EventsArrive`, `ExecutorFound`, `DeadOnesLeave`, `AllAnswered`,
`Applies`, `LookupsEnd`, `EventuallyDealtWith`), which is out of the provers'
reach as ENABLED is.

## Not modelled, and why

* Volume, mute, level meters, text files and overlays: one assignment and an
  output each.
* `tryExpandPlaylistRef()`: edits the configuration of the idle lists, which
  is a constant of `Jukebox`.
* A second chime while one sounds: the button's handler allows it, the state
  it leaves is that of one chime.
* A second `player.ended` from `HandleBufferEnd`: a comment in
  `audio_player.cpp` says the callback does not fire with this decoder.
* `music.dedupe` switched off, which is how it is delivered (`config.ts:663`): `Jukebox` has the
  check that a viewer does not queue a song twice (`jukebox.ts:145`); without it there is
  less to go wrong, and the promise is not made.
* Texts and prompts; `batcher.stop()`, which only the end of the service calls.
* The temporary files of speech and their sweeper.
* Two operator commands at once, of which two starts may spawn two services;
  two `stop()` or two `attach()` of one executor at once; `stopAll()` of MCP, which
  only the end of the service calls.
* Broadcasts of the server, which have no state beyond `byKind`.
* Defaults, normalisation and migration of the configuration, its schema;
  ciphers, lyrics, parsing of answers; asset scanning: data, without an order
  of steps to go wrong.
* The Live2D executor's drawing, windows and textures, the pages' forms, the legacy C++ backend,
  which the documentation declares unused.

## Plan

1. *Done:* the modules above, their runs, the theorems above.
2. *Next:* an abstract speaker (sentences in line, one sounding, silence after a
   stop) implemented by `Tts`, as `SongPlayer` is by `Jukebox`.
