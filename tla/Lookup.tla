------------------------------- MODULE Lookup -------------------------------
(***************************************************************************)
(* Looking songs up (music/registry.ts, http.ts, bili-wbi.ts and the six   *)
(* providers): which provider is asked for what, the requests each makes   *)
(* for it, what becomes of the look-up when a service refuses, gives       *)
(* nothing or is silent, the play list that falls through from provider to *)
(* provider, and the signing key of bilibili that all look-ups share.      *)
(***************************************************************************)
EXTENDS Naturals, Sequences, FiniteSets

CONSTANTS
  Clients,     \* pages, and the songs that are looked up for the queue
  MaxLookups,  \* bound on look-ups
  MaxKeys,     \* bound on the signing keys bilibili uses one after another
  MaxChunks    \* bound on the hundreds of songs of a play list: 5 in the code

LookupAssumption == {MaxLookups, MaxKeys, MaxChunks} \subseteq Nat \ {0}

VARIABLES
  job,      \* what each client looks up
  cached,   \* the signing key in the cache; 0: none, or it has expired
  key,      \* the key bilibili accepts
  started,
  fed       \* the clients whose time limit a byte has started anew

vars == <<job, cached, key, started, fed>>

-----------------------------------------------------------------------------
(* What a request is for, and the time limit it has in seconds (0: none).  *)

Must(t)  == [kind |-> "must", limit |-> t]   \* an empty answer is an error
May(t)   == [kind |-> "may", limit |-> t]    \* an empty answer: there is none
\* As Must(t), but every byte that comes starts the limit anew: mobiRequest().
Fed(t)   == [kind |-> "fed", limit |-> t]
Key      == [kind |-> "key", limit |-> 8]    \* getWbiKey()
Signed(kind) == [kind |-> kind, limit |-> 8] \* a request that carries the key
Chunk    == [kind |-> "chunk", limit |-> 10] \* a hundred songs, none of them perhaps

KuwoSearch == {<<May(8)>>}
KuwoInfo   == {<<Must(8)>>}
\* At 320k, which is what the queue asks for, there is one format.
KuwoUrl    == {<<Fed(8)>>}
KuwoLyric  == {<<May(8)>>}

KugouSearch == {<<May(8)>>}
\* Slip: a bare fetch.
KugouInfoBare == {<<Must(0)>>}
KugouInfo   == {<<Must(10)>>}
KugouUrl    == {<<Must(8)>>}
KugouLyric  == {<<May(8), May(8)>>}
KugouList   == {<<Must(8)>>}

MiguSearch == {<<May(8)>>}
MiguInfo   == {<<Must(8)>>}
\* The format is in the identifier, or asked for first.
MiguUrl    == {<<Must(8)>>, <<Must(8), Must(8)>>}
MiguLyric  == {<<May(8), May(8)>>}

BiliSearch == {<<Key, Signed("signed may")>>}
BiliInfo   == {<<Must(8)>>}
BiliUrl    == {<<Must(8), Key, Signed("signed must")>>}
BiliLyric  == {<<May(8), May(8), May(8)>>}

NeteaseSearch == {<<May(10)>>}
NeteaseInfo   == {<<Must(10)>>}
NeteaseUrl    == {<<Must(10)>>}
NeteaseLyric  == {<<May(10)>>}
\* The numbers of the songs, then the songs by the hundred.
NeteaseList   == {<<Must(10)>> \o [i \in 1..n |-> Chunk] : n \in 1..MaxChunks}

QqSearch == {<<May(10)>>}
\* searchByIdentifier()
QqInfo   == {<<Must(10)>>}
QqUrl    == {<<Must(10)>>}
QqLyric  == {<<May(10)>>}
QqList   == {<<Must(10)>>}

\* The requests of each operation of each provider.
Methods == [
  kuwo      |-> [search |-> KuwoSearch, info |-> KuwoInfo, url |-> KuwoUrl, lyric |-> KuwoLyric],
  kugou     |-> [search |-> KugouSearch, info |-> KugouInfo, url |-> KugouUrl, lyric |-> KugouLyric,
                 playlist |-> KugouList],
  migu      |-> [search |-> MiguSearch, info |-> MiguInfo, url |-> MiguUrl, lyric |-> MiguLyric],
  bilivideo |-> [search |-> BiliSearch, info |-> BiliInfo, url |-> BiliUrl, lyric |-> BiliLyric],
  netease   |-> [search |-> NeteaseSearch, info |-> NeteaseInfo, url |-> NeteaseUrl,
                 lyric |-> NeteaseLyric, playlist |-> NeteaseList],
  qq        |-> [search |-> QqSearch, info |-> QqInfo, url |-> QqUrl, lyric |-> QqLyric,
                 playlist |-> QqList]]

-----------------------------------------------------------------------------
(* Which provider.                                                         *)

\* createDefaultRegistry(): the order in which providers are tried.
Registry == <<"kuwo", "kugou", "migu", "bilivideo", "netease", "qq">>
Names    == {Registry[i] : i \in DOMAIN Registry}

\* The names a song may come with: providers', an alias, one nobody has.
Sources == Names \cup {"wy", "unknown"}
\* resolve(): aliases are known; a name that is not is taken for kuwo.
Resolved(s) == IF s \in Names THEN s ELSE IF s = "wy" THEN "netease" ELSE "kuwo"

\* matchMedia(): what the providers take for one of their songs.
Keywords == {"words", "digits", "hash", "migu link", "bv", "netease:", "qq:"}
KuwoSong(k)    == k = "digits"
KugouSong(k)   == k = "hash"
MiguSong(k)    == k \in {"digits", "migu link"}
BiliSong(k)    == k = "bv"
NeteaseSong(k) == k = "netease:"
QqSong(k)      == k = "qq:"
IsSong == [kuwo |-> {k \in Keywords : KuwoSong(k)}, kugou |-> {k \in Keywords : KugouSong(k)},
           migu |-> {k \in Keywords : MiguSong(k)}, bilivideo |-> {k \in Keywords : BiliSong(k)},
           netease |-> {k \in Keywords : NeteaseSong(k)}, qq |-> {k \in Keywords : QqSong(k)}]

\* match(): the source that is named, else the first in the order; "none".
Match(k, s) ==
  LET takers == {i \in DOMAIN Registry : k \in IsSong[Registry[i]]}
  IN IF s \in Sources \ {"unknown"} /\ k \in IsSong[Resolved(s)] THEN Resolved(s)
     ELSE IF takers = {} THEN "none"
     ELSE Registry[CHOOSE i \in takers : \A j \in takers : i <= j]

\* matchPlaylist()
Refs == {"words", "number", "kugou link", "netease link", "qq link"}
KugouRef(r)   == r \in {"number", "kugou link"}
NeteaseRef(r) == r \in {"number", "netease link"}
QqRef(r)      == r \in {"number", "qq link"}
Capable == [kugou |-> {r \in Refs : KugouRef(r)}, netease |-> {r \in Refs : NeteaseRef(r)},
            qq |-> {r \in Refs : QqRef(r)}]

\* playlist(): those that take the reference, the preferred one first, if it is
\* called by its own name, then in the order of the registry.
Order(ps) ==
  LET Mine(p) == IF p \in ps THEN <<p>> ELSE <<>> IN Mine("kugou") \o Mine("netease") \o Mine("qq")
Takers(r, preferred) ==
  LET ps == {p \in DOMAIN Capable : r \in Capable[p]}
  IN Order(ps \cap {preferred}) \o Order(ps \ {preferred})

-----------------------------------------------------------------------------
(* Look-ups.  A job waits for the answer to the request at the head of     *)
(* todo; left: the providers a play list may still fall through to; all:   *)
(* those it began with; failed: those that gave nothing; sign: the key its *)
(* requests are signed with, or that is in an answer on its way; gave: a   *)
(* chunk has had songs.                                                    *)

NoJob == [at |-> "none", op |-> "none", p |-> "none", todo |-> <<>>, left |-> <<>>, all |-> <<>>,
          failed |-> {}, sign |-> 0, gave |-> FALSE]

Running(c) == job[c].at = "runs"

\* A key that is in the cache is not asked for.
Entered(j, todo) ==
  IF todo # <<>> /\ Head(todo).kind = "key"
    THEN IF cached # 0 THEN [j EXCEPT !.todo = Tail(todo), !.sign = cached]
                       ELSE [j EXCEPT !.todo = todo, !.sign = 0]
    ELSE [j EXCEPT !.todo = todo]

\* Nothing has come yet of what is asked next.
Sets(c, j) == job' = [job EXCEPT ![c] = j] /\ fed' = fed \ {c}
Starts(c)  == ~Running(c) /\ started < MaxLookups /\ started' = started + 1
Asks(c, op, p) ==
  \E todo \in Methods[p][op] : Sets(c, Entered([NoJob EXCEPT !.at = "runs", !.op = op, !.p = p], todo))

\* search(), info(), url() and lyric() of the registry.
Ask(c, op, s) ==
  /\ Starts(c) /\ Asks(c, op, Resolved(s)) /\ UNCHANGED <<cached, key>>

\* resolveMedia() of a keyword: a song somebody knows, or a search.
Resolve(c, k, s) ==
  /\ Starts(c)
  /\ IF Match(k, s) # "none" THEN Asks(c, "info", Match(k, s)) ELSE Asks(c, "search", Resolved(s))
  /\ UNCHANGED <<cached, key>>

\* The play list of the next provider, or of none.
NextList(j) ==
  IF j.left = <<>> THEN {[j EXCEPT !.at = "none found", !.p = "none", !.todo = <<>>]}
  ELSE {[j EXCEPT !.p = Head(j.left), !.left = Tail(@), !.todo = todo, !.gave = FALSE] :
          todo \in Methods[Head(j.left)]["playlist"]}

Playlist(c, r, preferred) ==
  /\ Starts(c)
  /\ LET ps == Takers(r, preferred)
     IN \E j \in NextList([NoJob EXCEPT !.at = "runs", !.op = "playlist", !.left = ps, !.all = ps]) : Sets(c, j)
  /\ UNCHANGED <<cached, key>>

\* Slip: one provider that fails ends the look-up.
FailedAll(j) == {[j EXCEPT !.at = "error", !.todo = <<>>]}

\* An error ends the look-up, but a play list falls through.
Failed(j) ==
  IF j.op = "playlist" THEN NextList([j EXCEPT !.failed = @ \cup {j.p}])
  ELSE {[j EXCEPT !.at = "error", !.todo = <<>>]}

\* The end of an operation: what a play list without songs is, and the rest.
Done(j) ==
  IF j.op = "playlist" /\ ~j.gave THEN Failed(j) ELSE {[j EXCEPT !.at = "found", !.todo = <<>>]}

\* What the caller makes of the request being over.
Becomes(c, js) == \E j \in js : Sets(c, j)

Request(c) == Head(job[c].todo).kind
Forward(j) == IF Len(j.todo) = 1 THEN Done(j) ELSE {Entered(j, Tail(j.todo))}

\* bilibili answers with the key of now.
KeyGiven(c) ==
  /\ Running(c) /\ Request(c) = "key" /\ job[c].sign = 0
  /\ Sets(c, [job[c] EXCEPT !.sign = key]) /\ UNCHANGED <<cached, key, started>>

\* The answer comes: the key is kept, and signs the next request.
KeyTaken(c) ==
  /\ Running(c) /\ Request(c) = "key" /\ job[c].sign # 0
  /\ cached' = job[c].sign
  /\ Sets(c, [job[c] EXCEPT !.todo = Tail(@)]) /\ UNCHANGED <<key, started>>

\* An answer that holds something.  One that is signed with another key than
\* that of now is refused.
Answered(c) ==
  /\ Running(c) /\ Request(c) # "key"
  /\ Request(c) \in {"signed may", "signed must"} => job[c].sign = key
  /\ LET j == [job[c] EXCEPT !.gave = @ \/ Request(c) = "chunk" \/ job[c].p # "netease"]
     IN Becomes(c, Forward(j))
  /\ UNCHANGED <<cached, key, started>>

\* An empty one, a document that cannot be read among them.
Empty(c) ==
  /\ Running(c) /\ Request(c) # "key"
  /\ Becomes(c, CASE Request(c) \in {"may", "signed may"} -> {[job[c] EXCEPT !.at = "none found", !.todo = <<>>]}
                  [] Request(c) = "chunk" -> Forward(job[c])
                  [] OTHER -> Failed(job[c]))
  /\ UNCHANGED <<cached, key, started>>

\* The service cannot be reached, or refuses.
Fails(c) ==
  /\ Running(c) /\ Becomes(c, Failed(job[c])) /\ UNCHANGED <<cached, key, started>>

\* Something comes of the answer, and the socket's timer is set again.
Drips(c) ==
  /\ Running(c) /\ Request(c) = "fed"
  /\ fed' = fed \cup {c} /\ UNCHANGED <<job, cached, key, started>>

\* Nothing has come since the clock last looked.
Silent(c) ==
  /\ c \in fed /\ fed' = fed \ {c} /\ UNCHANGED <<job, cached, key, started>>

\* httpRequest() gives up, mobiRequest() closes the socket that has been silent.
TimesOut(c) ==
  /\ Running(c) /\ Head(job[c].todo).limit > 0 /\ c \notin fed
  /\ Becomes(c, Failed(job[c])) /\ UNCHANGED <<cached, key, started>>

\* Two hours after it was taken the cached key is not used any more.
Expires == cached # 0 /\ cached' = 0 /\ UNCHANGED <<job, key, started, fed>>

\* bilibili changes the key.
Rotates == key < MaxKeys /\ key' = key + 1 /\ UNCHANGED <<job, cached, started, fed>>

-----------------------------------------------------------------------------
Init == job = [c \in Clients |-> NoJob] /\ cached = 0 /\ key = 1 /\ started = 0 /\ fed = {}

Next ==
  \/ Expires \/ Rotates
  \/ \E c \in Clients :
       \/ KeyGiven(c) \/ KeyTaken(c) \/ Answered(c) \/ Empty(c) \/ Fails(c)
       \/ Drips(c) \/ Silent(c) \/ TimesOut(c)
       \/ \E s \in Sources :
            \/ \E op \in {"search", "info", "url", "lyric"} : Ask(c, op, s)
            \/ \E k \in Keywords : Resolve(c, k, s)
            \/ \E r \in Refs : Playlist(c, r, s)

\* Timers go off, and the clock moves on.
Fairness ==
  WF_vars(Expires) /\ \A c \in Clients : WF_vars(Silent(c)) /\ WF_vars(TimesOut(c))

Spec == Init /\ [][Next]_vars /\ Fairness

-----------------------------------------------------------------------------
(* Properties.                                                             *)

TypeOK ==
  /\ \A c \in Clients :
       /\ job[c].at \in {"none", "runs", "found", "none found", "error"}
       /\ job[c].p \in Names \cup {"none"} /\ job[c].sign \in 0..MaxKeys /\ job[c].failed \subseteq Names
       /\ Running(c) <=> job[c].todo # <<>>
  /\ cached \in 0..key /\ key \in 1..MaxKeys /\ started \in 0..MaxLookups /\ fed \subseteq Clients

\* A play list is that of the first provider, in the order of the caller's
\* choice, that gives one; there is none only if each that knows the reference
\* was asked in vain; and no service makes the whole look-up fail.
FirstThatWorks ==
  \A c \in Clients :
    job[c].op = "playlist" =>
      LET all == job[c].all
      IN /\ job[c].at # "error"
         /\ job[c].at = "none found" => job[c].failed = {all[i] : i \in DOMAIN all}
         /\ job[c].at = "found" =>
              \E n \in DOMAIN all : all[n] = job[c].p /\ job[c].failed = {all[i] : i \in 1..(n - 1)}

\* Whatever the services answer, refuse or leave unanswered, every look-up ends,
\* unless kuwo never stops sending what is to be the address of a song; and a
\* key that bilibili does not take any more is forgotten.
LookupsEnd ==
  /\ \A c \in Clients : (Running(c) ~> ~Running(c)) \/ []<>(c \in fed)
  /\ (cached # 0 /\ cached # key) ~> (cached = 0 \/ cached = key)

=============================================================================
