------------------------------- MODULE Stage -------------------------------
(***************************************************************************)
(* The configuration of the stage and the Live2D executor that shows it:   *)
(* the requests that edit the configuration (modules/config.ts), what      *)
(* applyConfigRuntime() sends to the executor one job after the other, the *)
(* pushes beside that chain when the executor connects or an ability       *)
(* reloads the model (index.ts, modules/live2d.ts), the edits made on the  *)
(* executor's own panel, and the file.                                     *)
(***************************************************************************)
EXTENDS Integers, Sequences, FiniteSets

CONSTANTS
  MaxEdits,   \* bound on edits, of requests and of the panel
  MaxPushes   \* bound on connections, reloads and jobs the render thread is late with

Keys  == {"rest", "stage", "win"}   \* live2d.stage, live2d.window, the rest of live2d
Steps == <<"rest", "stage", "win">>

StageAssumption == {MaxEdits, MaxPushes} \subseteq Nat

VARIABLES
  config,   \* this.config.live2d: the edit each part is of
  disk,     \* the file
  persist,  \* stagePersistTimer is set
  last,     \* lastLive2dJson, lastStageJson, lastWindowJson
  chain,    \* live2dApplyChain: the jobs that wait, the first one running
  pushes,   \* applyLive2dConfig() and the like under way, by number; 0 is the chain's
  link,     \* live2dCpp.isConnected()
  wire,     \* requests on their way to the executor
  late,     \* requests answered with `timeout' whose jobs the render thread still has
  back,     \* answers and stageChanged events on their way to the service
  shown,    \* what the executor shows
  edits, starts,
  overlap   \* a value was edited while a push of an older one was under way

vars == <<config, disk, persist, last, chain, pushes, link, wire, late, back, shown, edits, starts, overlap>>

Versions == 0..MaxEdits
Values   == [Keys -> Versions]
NoPush   == [todo |-> <<>>, waits |-> FALSE, cur |-> FALSE]

Edited == edits < MaxEdits /\ edits' = edits + 1

\* A push is under way and holds values of before; it is not the chain's.
Busy    == \E i \in DOMAIN pushes : pushes[i].todo # <<>>
Outside == \E i \in DOMAIN pushes : i # 0 /\ pushes[i].todo # <<>>

\* The executor is still to show some of what the configuration is or was.
UnderWay == Busy \/ chain # <<>> \/ late # <<>>

-----------------------------------------------------------------------------
(* The configuration.                                                      *)

\* Slip: the stage is left out of the comparison.
DiffsNoStage == {k \in {"win", "rest"} : config'[k] # last[k]}

\* The parts applyConfigRuntime() finds changed.
Diffs == {k \in Keys : config'[k] # last[k]}

\* applyConfigRuntime(): a job for each part that has changed, the window's with its value.
Job(k, v) == IF k \in Diffs THEN <<[key |-> k, value |-> v]>> ELSE <<>>
Apply == last' = config' /\ chain' = chain \o Job("win", config'["win"]) \o Job("rest", 0) \o Job("stage", 0)

\* setConfig(): the pushes under way keep the object of before.
Replaced == pushes' = [i \in DOMAIN pushes |-> [pushes[i] EXCEPT !.cur = FALSE]]

\* config.update, updateSection, updatePath, updatePaths: a new object, saved,
\* then applied.
Update(k) ==
  /\ Edited /\ config' = [config EXCEPT ![k] = edits'] /\ disk' = config' /\ Replaced /\ Apply
  /\ overlap' = (overlap \/ Outside)
  /\ UNCHANGED <<persist, link, wire, late, back, shown, starts>>

\* config.reload, of the file as it is or as somebody has edited it.
Reload ==
  /\ Edited /\ \E k \in Keys : \E v \in {edits', disk[k]} : config' = [disk EXCEPT ![k] = v]
  /\ disk' = config' /\ Replaced /\ Apply /\ overlap' = (overlap \/ Outside)
  /\ UNCHANGED <<persist, link, wire, late, back, shown, starts>>

\* The timer of a stage edit saves whatever the configuration is by now.
Persist ==
  /\ persist /\ persist' = FALSE /\ disk' = config
  /\ UNCHANGED <<config, last, chain, pushes, link, wire, late, back, shown, edits, starts, overlap>>

-----------------------------------------------------------------------------
(* Pushes.                                                                 *)

\* A push of the parts in keys, with the values they have in cfg; cur: its object
\* is still the configuration.
Pushing(keys, cfg) ==
  [todo |-> [j \in 1..Len(keys) |-> [key |-> keys[j], value |-> cfg[keys[j]]]],
   waits |-> FALSE, cur |-> TRUE]

\* A push begins: nothing is sent to an executor that is away.
Push(i, keys, cfg) == pushes' = [pushes EXCEPT ![i] = IF link THEN Pushing(keys, cfg) ELSE NoPush]

\* The chain takes its next job, with the configuration of now but for the window.
RunJob ==
  /\ chain # <<>> /\ pushes[0].todo = <<>> /\ ~pushes[0].waits
  /\ chain' = Tail(chain)
  /\ LET k == Head(chain).key IN
     IF k = "rest" THEN Push(0, Steps, config)
     ELSE Push(0, <<k>>, IF k = "win" THEN [config EXCEPT !["win"] = Head(chain).value] ELSE config)
  /\ UNCHANGED <<config, disk, persist, last, link, wire, late, back, shown, edits, starts, overlap>>

\* The onConnected hook: it does not go through the chain.
Connected ==
  /\ ~link /\ starts < MaxPushes /\ starts' = starts + 1 /\ link' = TRUE
  \* It is the one of before, or another.
  /\ \/ UNCHANGED <<shown, late>>
     \/ shown' = [k \in Keys |-> 0] /\ late' = <<>>
  /\ pushes' = [pushes EXCEPT ![starts'] = Pushing(Steps, config)]
  /\ overlap' = (overlap \/ Busy)
  /\ UNCHANGED <<config, disk, persist, last, chain, wire, back, edits>>

\* reloadLive2d() of the ability live2d_reload, beside the chain too.
ReloadModel ==
  /\ link /\ starts < MaxPushes /\ starts' = starts + 1
  /\ Push(starts', Steps, config)
  /\ overlap' = (overlap \/ Busy \/ chain # <<>>)
  /\ UNCHANGED <<config, disk, persist, last, chain, link, wire, late, back, shown, edits>>

\* Slip: a step that was answered is sent again.
NextStepAgain(p) == [p EXCEPT !.waits = FALSE]

\* An answer, or the failure of a request: on to the next step.
NextStep(p) == IF Len(p.todo) = 1 THEN NoPush ELSE [p EXCEPT !.waits = FALSE, !.todo = Tail(@)]

\* A push sends its next request; without a connection it fails and is passed over.
Send(i) ==
  /\ pushes[i].todo # <<>> /\ ~pushes[i].waits
  /\ IF link
       THEN /\ wire' = Append(wire, [by |-> i, part |-> Head(pushes[i].todo)])
            /\ pushes' = [pushes EXCEPT ![i].waits = TRUE]
       ELSE pushes' = [pushes EXCEPT ![i] = NextStep(@)] /\ UNCHANGED wire
  /\ UNCHANGED <<config, disk, persist, last, chain, link, late, back, shown, edits, starts, overlap>>

-----------------------------------------------------------------------------
(* The executor.                                                           *)

\* It takes requests in the order they come, its render thread does them in that
\* order, and the answer waits for it, but five seconds at most (runOnRenderThread()).
Taken ==
  /\ wire # <<>> /\ wire' = Tail(wire) /\ back' = Append(back, [by |-> Head(wire).by, stage |-> 0])
Does(m) == shown' = [shown EXCEPT ![m.part.key] = m.part.value]

Handle ==
  /\ late = <<>> /\ Taken /\ Does(Head(wire))
  /\ UNCHANGED <<config, disk, persist, last, chain, pushes, link, late, edits, starts, overlap>>

\* The render thread is busy for longer: the answer is `timeout'.
HandleLate ==
  /\ starts < MaxPushes /\ starts' = starts + 1 /\ Taken /\ late' = Append(late, Head(wire))
  /\ UNCHANGED <<config, disk, persist, last, chain, pushes, link, shown, edits, overlap>>

\* What was answered is done after all.
Render ==
  /\ late # <<>> /\ late' = Tail(late) /\ Does(Head(late))
  /\ UNCHANGED <<config, disk, persist, last, chain, pushes, link, wire, back, edits, starts, overlap>>

\* An edit on its panel, announced with the next frame, as the handler below
\* expects it: scheduleStageNotify() of this commit has no caller.  That several
\* edits within 100 ms are announced by one event is left out.
Panel ==
  /\ link /\ Edited /\ shown' = [shown EXCEPT !["stage"] = edits']
  /\ back' = Append(back, [by |-> -1, stage |-> edits'])
  /\ overlap' = (overlap \/ UnderWay)
  /\ UNCHANGED <<config, disk, persist, last, chain, pushes, link, wire, late, starts>>

\* The stage is changed in place: a push that holds the object sends the new value.
Written(v) ==
  pushes' = [i \in DOMAIN pushes |->
    IF pushes[i].cur
      THEN [pushes[i] EXCEPT !.todo = [j \in DOMAIN @ |->
              IF @[j].key = "stage" THEN [@[j] EXCEPT !.value = v] ELSE @[j]]]
      ELSE pushes[i]]

\* onExecutorStageChanged(): taken over, not sent back, saved later.
StageChanged ==
  /\ back # <<>> /\ Head(back).by = -1 /\ back' = Tail(back)
  /\ config' = [config EXCEPT !["stage"] = Head(back).stage]
  /\ last' = [last EXCEPT !["stage"] = Head(back).stage]
  /\ persist' = TRUE
  /\ overlap' = (overlap \/ UnderWay)
  /\ Written(Head(back).stage)
  /\ UNCHANGED <<disk, chain, link, wire, late, shown, edits, starts>>

Answer ==
  /\ back # <<>> /\ Head(back).by # -1 /\ back' = Tail(back)
  /\ pushes' = [pushes EXCEPT ![Head(back).by] = NextStep(@)]
  /\ UNCHANGED <<config, disk, persist, last, chain, link, wire, late, shown, edits, starts, overlap>>

\* The connection breaks: what is on its way is lost, the requests of the
\* pushes end by their time-out.
Break ==
  /\ link /\ starts < MaxPushes /\ link' = FALSE /\ wire' = <<>> /\ back' = <<>>
  /\ overlap' = (overlap \/ \E j \in 1..Len(back) : back[j].by = -1)
  /\ UNCHANGED <<config, disk, persist, last, chain, pushes, late, shown, edits, starts>>
TimesOut(i) ==
  /\ pushes[i].waits /\ \A q \in {wire, back} : \A j \in 1..Len(q) : q[j].by # i
  /\ pushes' = [pushes EXCEPT ![i] = NextStep(@)]
  /\ UNCHANGED <<config, disk, persist, last, chain, link, wire, late, back, shown, edits, starts, overlap>>

-----------------------------------------------------------------------------
Init ==
  /\ config = [k \in Keys |-> 0] /\ disk = config /\ persist = FALSE
  \* lastWindowJson is not set by the constructor.
  /\ last = [config EXCEPT !["win"] = -1]
  /\ chain = <<>> /\ pushes = [i \in 0..MaxPushes |-> NoPush] /\ link = FALSE
  /\ wire = <<>> /\ late = <<>> /\ back = <<>> /\ shown = config /\ edits = 0 /\ starts = 0 /\ overlap = FALSE

Next ==
  \/ \E k \in Keys : Update(k)
  \/ Reload \/ Persist \/ RunJob \/ Connected \/ ReloadModel
  \/ Handle \/ HandleLate \/ Render \/ Panel \/ StageChanged \/ Answer \/ Break
  \/ \E i \in DOMAIN pushes : Send(i) \/ TimesOut(i)

\* Requests have a time-out and the executor is a process that answers or breaks
\* off.  Pushes beside the chain owe nothing.
Fairness ==
  /\ WF_vars(RunJob) /\ WF_vars(Send(0) \/ TimesOut(0))
  /\ WF_vars(Handle \/ HandleLate \/ Render) /\ WF_vars(StageChanged \/ Answer)

Spec == Init /\ [][Next]_vars /\ Fairness

-----------------------------------------------------------------------------
(* Properties.                                                             *)

Quiet == chain = <<>> /\ wire = <<>> /\ late = <<>> /\ back = <<>> /\ ~Busy

TypeOK ==
  /\ {config, disk, shown} \subseteq Values /\ last \in [Keys -> Versions \cup {-1}]
  /\ persist \in BOOLEAN /\ link \in BOOLEAN
  /\ \A j \in 1..Len(chain) : chain[j].key \in Keys /\ chain[j].value \in Versions
  /\ \A i \in DOMAIN pushes : pushes[i].waits \/ pushes[i].cur => pushes[i].todo # <<>>
  /\ edits \in 0..MaxEdits /\ starts \in 0..MaxPushes /\ overlap \in BOOLEAN

\* The file is the configuration, unless an edit of the panel waits to be saved.
Saved == persist \/ disk = config

\* At rest a connected executor shows the configuration, provided no push went
\* beside another one or beside an edit.
Shown == link /\ Quiet /\ ~overlap => shown = config

\* A job of the chain is over in the end, whatever becomes of the one before it.
Applies == (chain # <<>>) ~> (chain = <<>>)

=============================================================================
