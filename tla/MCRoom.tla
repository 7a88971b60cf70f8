------------------------------- MODULE MCRoom -------------------------------
(***************************************************************************)
(* What comes from the live room, checked in one run: the events on their  *)
(* way to the backend (Link), the command a danmaku gives (Commands) and   *)
(* the rules that take an event (Rules).  They share no state: a behaviour *)
(* is one of one of them.                                                  *)
(***************************************************************************)
EXTENDS Link, TLC

CONSTANTS
  CommandItems, Heard, Senders, Blocked, MaxRewrites, MaxQueue, MaxAge,  \* see Commands
  Words, Numbers                                                           \* see Rules

VARIABLES
  part,
  items, candidates, signature, globalLast, userLast, queue, playing, hit, rewrites,
  rule, event, took, said

commands == <<items, candidates, signature, globalLast, userLast, queue, playing, hit, rewrites>>
rules    == <<rule, event, took, said>>

C == INSTANCE Commands WITH
  Items <- CommandItems, Texts <- Heard, Users <- Senders, MaxEdits <- MaxRewrites, edits <- rewrites
U == INSTANCE Rules

\* What each of the parts asks of the values given to it.
ASSUME RoomAssumption == C!CommandsAssumption /\ U!RulesAssumption

-----------------------------------------------------------------------------
(* The values TLC gives to the constants of Commands.                      *)

\* A command that orders a song and one that skips one, whose alias "order w"
\* is the longer one, with what the page may make of each.
Plain == [permission |-> "all", medalLevel |-> 1, uids |-> {}, globalMs |-> 0, perUserMs |-> 0,
          enabled |-> TRUE, selfOnly |-> TRUE]
OrderItem == Plain @@ [id |-> "c1", ability |-> "jukebox_add_song", aliases |-> << <<"order">>, <<"song">> >>]
SkipItem  == Plain @@ [id |-> "c2", ability |-> "jukebox_skip_song", aliases |-> << <<"skip">>, <<"order", "w">> >>]
RoomItems ==
  << {OrderItem, [OrderItem EXCEPT !.aliases = << <<"order", "w">> >>],
      [OrderItem EXCEPT !.permission = "guard"], [OrderItem EXCEPT !.enabled = FALSE]},
     {SkipItem, [SkipItem EXCEPT !.aliases = << <<"skip">> >>, !.globalMs = 1],
      [SkipItem EXCEPT !.permission = "guard", !.perUserMs = 1]} >>
RoomDanmaku == {<<"order", "w">>, <<"order", "w", "x">>, <<"song", "x">>, <<"skip">>}
RoomSenders == {[uid |-> "v", medal |-> 0, guard |-> 0], [uid |-> "g", medal |-> 1, guard |-> 3]}

-----------------------------------------------------------------------------
\* A part that is not checked has one initial state.
RoomInit ==
  /\ part \in {"link", "commands", "rules"}
  /\ Init /\ (part # "link" => up)
  /\ C!Init /\ (part # "commands" => items = CHOOSE is \in C!Tables : TRUE)
  /\ U!Init /\ (part # "rules" => rule = CHOOSE one \in U!Rule : TRUE)

RoomNext ==
  /\ UNCHANGED part
  /\ \/ part = "link" /\ Next /\ UNCHANGED <<commands, rules>>
     \/ part = "commands" /\ C!Next /\ UNCHANGED <<vars, rules>>
     \/ part = "rules" /\ U!Next /\ UNCHANGED <<vars, commands>>

RoomSpec == RoomInit /\ [][RoomNext]_<<part, vars, commands, rules>>

-----------------------------------------------------------------------------
(* Properties.                                                             *)

\* Link, which is LinkSafe and ImplementsChannel: what is kept is delivered in
\* the end.
EventsArrive == Fairness => KeptArrives

\* Commands: a danmaku belongs to the command whose alias it is now.
RightCommand == part = "commands" => C!TypeOK /\ C!RightCommand
\* Nobody gives a command the configuration does not let him give.
Permitted == part = "commands" => C!Permitted
\* Nobody skips a song of somebody else where viewers may skip only their own.
OwnSongs == part = "commands" => C!OwnSongs

\* Rules: a rule takes the events its page says it takes.
AsOffered == part = "rules" => U!AsOffered
=============================================================================
