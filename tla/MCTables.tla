------------------------------ MODULE MCTables ------------------------------
(***************************************************************************)
(* The parts of the service that keep tables and share no state with one   *)
(* another, checked in one run: a behaviour is one of one of them.         *)
(***************************************************************************)
EXTENDS Mcp, TLC

CONSTANTS
  Callers, MaxCodes, MaxOps,                                   \* see Login
  Users, Givers, MaxHistory, MaxViewers, FeedLines, Pool, OldRecords,
  MaxEvents, MaxDays, MaxCrashes, MaxSwitches, MaxRefused      \* see Records

VARIABLES
  part,
  cred, saved, qr, calls, restores, codes, ops, contested, misled,
  switches, up, history, viewers, rows, json, play, day,
  log, dispatched, refused, late, twice, crashes, changes, total

login    == <<cred, saved, qr, calls, restores, codes, ops, contested, misled>>
records  == <<switches, up, history, viewers, rows, json, play, day,
              log, dispatched, refused, late, twice, crashes, changes, total>>

L == INSTANCE Login WITH Clients <- Callers
R == INSTANCE Records WITH MaxEdits <- MaxSwitches, config <- switches, edits <- changes

\* What each of the parts asks of the values given to it.
ASSUME TablesAssumption == L!LoginAssumption /\ R!RecordsAssumption

\* The servers of Mcp are alike.
Symmetry == Permutations(Names)

-----------------------------------------------------------------------------
\* A part that is not checked has one initial state.
TablesInit ==
  /\ part \in {"mcp", "login", "records"}
  /\ Init /\ (part # "mcp" => config = NoConfigs)
  /\ L!Init /\ R!Init

TablesNext ==
  /\ UNCHANGED part
  /\ \/ part = "mcp" /\ Next /\ UNCHANGED <<login, records>>
     \/ part = "login" /\ L!Next /\ UNCHANGED <<vars, records>>
     \/ part = "records" /\ R!Next /\ UNCHANGED <<vars, login>>

TablesSpec == TablesInit /\ [][TablesNext]_<<part, vars, login, records>>

-----------------------------------------------------------------------------
(* Properties.                                                             *)

\* Those of Mcp are Tools, Applied and Fresh.

\* Login: what is saved was accepted, and is what the provider uses.
Sessions == part = "login" => L!TypeOK /\ L!Sessions

\* Records: the history, the viewers, the rows and the feed agree on what came.
Remembered == part = "records" => R!Remembered
=============================================================================
