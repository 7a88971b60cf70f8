------------------------------- MODULE Login -------------------------------
(***************************************************************************)
(* The logins of the music services (music/login-manager.ts, login.ts,     *)
(* providers/netease.ts, kugou.ts, qq.ts): the credential each provider    *)
(* uses, the session that is saved for it, the QR code of a login under    *)
(* way, and the requests that wait for an answer of the service meanwhile: *)
(* those of the pages, those of a song look-up, and the restoration of all *)
(* sessions at the start and after every edit of the configuration.        *)
(***************************************************************************)
EXTENDS Naturals, Sequences, FiniteSets, SequencesExt

CONSTANTS
  Clients,    \* pages, and the songs that are looked up
  MaxCodes,   \* bound on QR codes; the login with code k gives the credential k
  MaxOps      \* bound on requests, edits and restarts

Bad   == MaxCodes + 1       \* a session no service accepts
Creds == 0..Bad             \* 0: none
Loginables == {"netease", "kugou", "qq"}

LoginAssumption == MaxCodes \in Nat /\ MaxOps \in Nat

VARIABLES
  cred,      \* the credential of each provider: cookies, token, credential
  saved,     \* LoginManager.sessions, which is config.music.sessions and the file
  qr,        \* qrSessions
  calls,     \* what each client waits for
  restores,  \* restoreFrom(), the first that of the start: what is left, the provider that
             \* waits for an answer at the head
  codes, ops,
  contested, \* the providers whose credential two were after at once, or that keep a
             \* session that was not accepted, and nobody alone has set it since
  misled     \* those whose saved session was judged while another was after the credential

vars == <<cred, saved, qr, calls, restores, codes, ops, contested, misled>>

\* via: the credential that is judged in the second wait of qq.
NoCall == [op |-> "none", p |-> "none", cred |-> 0, via |-> 0]

\* Nothing is asked before the restoration of the start has ended.
Op == restores[1] = <<>> /\ ops < MaxOps /\ ops' = ops + 1
Idle(c) == calls[c] = NoCall
Waits(c, op, p, k) == calls' = [calls EXCEPT ![c] = [op |-> op, p |-> p, cred |-> k, via |-> 0]]
Returns(c) == calls' = [calls EXCEPT ![c] = NoCall]

\* Who waits for an answer about the credential of p, to write or to save it
\* then; and who waits for a login, which comes with a credential of its own.
Tries(p) ==
  \/ \E c \in Clients : calls[c].p = p /\ calls[c].op \in {"set", "confirm", "ask", "renew"}
  \/ \E r \in DOMAIN restores : \E i \in DOMAIN restores[r] : restores[r][i].p = p
Polls(p) == \E c \in Clients : calls[c].p = p /\ calls[c].op \in {"poll", "exchange"}

Contests(ps) == contested' = contested \cup ps
Unless(p, others) == contested' = IF others THEN contested \cup {p} ELSE contested \ {p}

\* restoreSession() asks the service; kugou believes what it reads.
Validates(p) == p # "kugou"

-----------------------------------------------------------------------------
(* QR codes.                                                               *)

\* music.login.qr.create, which waits for qrLogin() of the provider.
Create(c, p) ==
  /\ Idle(c) /\ Op /\ Waits(c, "create", p, 0)
  /\ UNCHANGED <<cred, saved, qr, restores, codes, contested, misled>>

Created(c) ==
  /\ calls[c].op = "create" /\ Returns(c)
  /\ \/ UNCHANGED <<qr, codes>>      \* the service gives none
     \/ codes < MaxCodes /\ codes' = codes + 1 /\ qr' = [qr EXCEPT ![calls[c].p] = codes']
  /\ UNCHANGED <<cred, saved, restores, ops, contested, misled>>

\* music.login.qr.poll: with the code of now, whose answer is taken later.
Poll(c, p) ==
  /\ Idle(c) /\ qr[p] # 0 /\ Op /\ Waits(c, "poll", p, qr[p])
  /\ Contests({q \in {p} : Tries(q)}) /\ UNCHANGED <<cred, saved, qr, restores, codes, misled>>

\* Slip: the login is not saved.
LogsInUnsaved(p, k) ==
  /\ cred' = [cred EXCEPT ![p] = k] /\ qr' = [qr EXCEPT ![p] = 0] /\ Unless(p, Tries(p))
  /\ UNCHANGED <<saved, misled>>

\* qrPoll() after a success: the provider has its credential, which is saved.
LogsIn(p, k) ==
  /\ cred' = [cred EXCEPT ![p] = k] /\ saved' = [saved EXCEPT ![p] = k] /\ qr' = [qr EXCEPT ![p] = 0]
  /\ Unless(p, Tries(p)) /\ misled' = misled \ {p}

\* waiting or scanned: nothing happens.  failed, and expired where the service
\* says so: whatever code there is now is dropped.
NoLogin(p) ==
  /\ \/ UNCHANGED qr
     \/ qr' = [qr EXCEPT ![p] = 0]
  /\ UNCHANGED <<cred, saved, contested, misled>>

PolledNetease(c) ==
  /\ calls[c].op = "poll" /\ calls[c].p = "netease" /\ Returns(c)
  /\ NoLogin("netease") \/ LogsIn("netease", calls[c].cred)
  /\ UNCHANGED <<restores, codes, ops>>

\* A success without a token has cleared the old one when it is called failed.
PolledKugou(c) ==
  /\ calls[c].op = "poll" /\ calls[c].p = "kugou" /\ Returns(c)
  /\ \/ NoLogin("kugou") \/ LogsIn("kugou", calls[c].cred)
     \/ /\ cred' = [cred EXCEPT !["kugou"] = 0] /\ qr' = [qr EXCEPT !["kugou"] = 0]
        /\ UNCHANGED <<saved, contested, misled>>
  /\ UNCHANGED <<restores, codes, ops>>

\* WeChat's answer of success holds a code, which exchangeCode() takes to the
\* music service: another wait.
PolledQq(c) ==
  /\ calls[c].op = "poll" /\ calls[c].p = "qq"
  /\ \/ Returns(c) /\ NoLogin("qq")
     \/ Waits(c, "exchange", "qq", calls[c].cred) /\ UNCHANGED <<cred, saved, qr, contested, misled>>
  /\ UNCHANGED <<restores, codes, ops>>

\* callApi() of qq fails; with the code 1000 the credential of now is forgotten.
Refused == cred' = cred \/ cred' = [cred EXCEPT !["qq"] = 0]

Exchanged(c) ==
  /\ calls[c].op = "exchange" /\ Returns(c)
  /\ \/ LogsIn("qq", calls[c].cred)
     \/ Refused /\ UNCHANGED <<saved, qr, contested, misled>>
  /\ UNCHANGED <<restores, codes, ops>>

-----------------------------------------------------------------------------
(* Sessions.                                                               *)

\* music.login.logout: the provider forgets without asking anybody.
Logout(p) ==
  /\ Op /\ Unless(p, Tries(p)) /\ misled' = misled \ {p}
  /\ cred' = [cred EXCEPT ![p] = 0] /\ saved' = [saved EXCEPT ![p] = 0] /\ qr' = [qr EXCEPT ![p] = 0]
  /\ UNCHANGED <<calls, restores, codes>>

\* music.login.session.set: the provider uses the session at once and asks the
\* service whether it is good.  One that cannot be read changes nothing.
SessionSet(c, p, k) ==
  /\ k # 0 /\ Validates(p) /\ Idle(c) /\ Op /\ Unless(p, Tries(p) \/ Polls(p))
  /\ cred' = [cred EXCEPT ![p] = k] /\ Waits(c, "set", p, k)
  /\ UNCHANGED <<saved, qr, restores, codes, misled>>

\* It is not asked about no session, which is a logout that leaves the code, nor
\* is kugou, which forgets what it has for a session without a token.
SessionPut(p, k) ==
  /\ k = 0 \/ ~Validates(p)
  /\ Op /\ Unless(p, Tries(p))
  /\ \/ /\ cred' = [cred EXCEPT ![p] = k] /\ saved' = [saved EXCEPT ![p] = k]
        /\ misled' = misled \ {p}
     \/ k = Bad /\ cred' = [cred EXCEPT ![p] = 0] /\ UNCHANGED <<saved, misled>>
  /\ UNCHANGED <<qr, calls, restores, codes>>

\* ... and saves it if it is.  If not, or if no answer came, the provider keeps
\* it all the same, but for the qq credential that is refused with the code 1000.
SessionChecked(c) ==
  LET p == calls[c].p IN
    /\ calls[c].op = "set" /\ Returns(c)
    /\ \/ /\ calls[c].cred # Bad /\ saved' = [saved EXCEPT ![p] = calls[c].cred]
          /\ misled' = misled \ {p} /\ UNCHANGED <<cred, contested>>
       \/ /\ UNCHANGED <<saved, misled>> /\ Contests({p})
          /\ IF p = "qq" THEN Refused ELSE UNCHANGED cred
    /\ UNCHANGED <<qr, restores, codes, ops>>

\* Another failure makes isLogin() of qq renew the credential the provider has
\* by now ...
SessionDoubted(c) ==
  /\ calls[c].op = "set" /\ calls[c].p = "qq" /\ cred["qq"] # 0
  /\ calls' = [calls EXCEPT ![c] = [@ EXCEPT !.op = "confirm", !.via = cred["qq"]]]
  /\ UNCHANGED <<cred, saved, qr, restores, codes, ops, contested, misled>>

\* ... and if its service does, the session that was to be judged is saved.
SessionConfirmed(c) ==
  /\ calls[c].op = "confirm" /\ Returns(c)
  /\ \/ /\ calls[c].via # Bad /\ cred' = [cred EXCEPT !["qq"] = calls[c].via]
        /\ saved' = [saved EXCEPT !["qq"] = calls[c].cred]
        /\ misled' = IF "qq" \in contested THEN misled \cup {"qq"} ELSE misled \ {"qq"}
        /\ UNCHANGED contested
     \/ Refused /\ Contests({"qq"}) /\ UNCHANGED <<saved, misled>>
  /\ UNCHANGED <<qr, restores, codes, ops>>

\* A request of qq, to look a song up or to show who is logged in, with the
\* credential of now.
Ask(c) ==
  /\ Idle(c) /\ cred["qq"] # 0 /\ Op /\ Waits(c, "ask", "qq", cred["qq"])
  /\ Contests({q \in {"qq"} : Tries(q) \/ Polls(q)})
  /\ UNCHANGED <<cred, saved, qr, restores, codes, misled>>

\* isLogin() that fails for another reason than 1000 asks for a renewal.
Asked(c) ==
  /\ calls[c].op = "ask"
  /\ \/ Returns(c) /\ Refused
     \/ cred["qq"] # 0 /\ Waits(c, "renew", "qq", cred["qq"]) /\ UNCHANGED cred
  /\ UNCHANGED <<saved, qr, restores, codes, ops, contested, misled>>

\* refreshLogin(): the new keys of that login replace whatever there is by now,
\* and are not saved.
Renewed(c) ==
  /\ calls[c].op = "renew" /\ Returns(c)
  /\ \/ Refused
     \/ calls[c].cred # Bad /\ cred' = [cred EXCEPT !["qq"] = calls[c].cred]
  /\ UNCHANGED <<saved, qr, restores, codes, ops, contested, misled>>

-----------------------------------------------------------------------------
(* restoreFrom().                                                          *)

\* The providers of a snapshot take their sessions one by one, up to the first
\* that asks its service: only kugou, which stands there once, does not.
Left(todo) == IF todo # <<>> /\ ~Validates(Head(todo).p) THEN Tail(todo) ELSE todo
UpToWait(todo) == {i \in DOMAIN todo : i <= Len(todo) - Len(Left(todo)) + 1}
Taking(old, todo) ==
  [p \in Loginables |-> IF \E i \in UpToWait(todo) : todo[i].p = p
                   THEN todo[CHOOSE i \in UpToWait(todo) : todo[i].p = p].cred ELSE old[p]]

\* Object.entries(sessions): an object lists its keys as they came, which may
\* be any order.
Snapshots ==
  {[i \in DOMAIN q |-> [p |-> q[i], cred |-> saved[q[i]], via |-> 0]] : q \in SetToSeqs({p \in Loginables : saved[p] # 0})}

\* onConfigChanged(), whatever was edited.
Edit ==
  /\ Op /\ Contests({p \in Loginables : saved[p] # 0 /\ (Tries(p) \/ Polls(p))})
  /\ \E snapshot \in Snapshots : cred' = Taking(cred, snapshot) /\ restores' = Append(restores, Left(snapshot))
  /\ UNCHANGED <<saved, qr, calls, codes, misled>>

\* The service has answered the one at the head, with a refusal perhaps, or a
\* renewal, of qq; the next ones take what the snapshot has for them.
Restored(r) ==
  /\ restores[r] # <<>>
  /\ \E old \in {cred} \cup {[cred EXCEPT !["qq"] = k] : k \in IF Head(restores[r]).p = "qq"
                                                             THEN {0, Head(restores[r]).via} \ {Bad} ELSE {}} :
       cred' = Taking(old, Tail(restores[r]))
  /\ restores' = [restores EXCEPT ![r] = Left(Tail(@))]
  /\ UNCHANGED <<saved, qr, calls, codes, ops, contested, misled>>

\* isLogin() of qq waits a second time, with the credential of now.
Again(todo, k) == [todo EXCEPT ![1] = [todo[1] EXCEPT !.via = k]]
RestoreDoubted(r) ==
  /\ restores[r] # <<>> /\ Head(restores[r]).p = "qq" /\ Head(restores[r]).via = 0 /\ cred["qq"] # 0
  /\ restores' = [restores EXCEPT ![r] = Again(@, cred["qq"])]
  /\ UNCHANGED <<cred, saved, qr, calls, codes, ops, contested, misled>>

\* The service stops, and starts with the sessions of the file.
Restart ==
  /\ ops < MaxOps /\ ops' = ops + 1 /\ qr' = [p \in Loginables |-> 0] /\ calls' = [c \in Clients |-> NoCall]
  /\ \E snapshot \in Snapshots :
       cred' = Taking([p \in Loginables |-> 0], snapshot) /\ restores' = <<Left(snapshot)>>
  /\ contested' = {} /\ UNCHANGED <<saved, codes, misled>>

-----------------------------------------------------------------------------
Init ==
  /\ cred = [p \in Loginables |-> 0] /\ saved = cred /\ qr = cred
  /\ calls = [c \in Clients |-> NoCall] /\ restores = <<<<>>>> /\ codes = 0 /\ ops = 0
  /\ contested = {} /\ misled = {}

Next ==
  \/ Edit \/ Restart \/ \E r \in DOMAIN restores : Restored(r) \/ RestoreDoubted(r)
  \/ \E p \in Loginables : Logout(p) \/ \E k \in {0, Bad} \cup 1..codes : SessionPut(p, k)
  \/ \E c \in Clients :
       \/ Ask(c) \/ Asked(c) \/ Renewed(c) \/ Created(c)
       \/ PolledNetease(c) \/ PolledKugou(c) \/ PolledQq(c) \/ Exchanged(c)
       \/ SessionChecked(c) \/ SessionDoubted(c) \/ SessionConfirmed(c)
       \/ \E p \in Loginables : Create(c, p) \/ Poll(c, p) \/ \E k \in {Bad} \cup 1..codes : SessionSet(c, p, k)

Spec == Init /\ [][Next]_vars

-----------------------------------------------------------------------------
(* Properties.                                                             *)

TypeOK ==
  /\ {cred, saved} \subseteq [Loginables -> Creds] /\ qr \in [Loginables -> 0..MaxCodes]
  /\ \A c \in Clients : (Idle(c) \/ calls[c].p \in Loginables) /\ {calls[c].cred, calls[c].via} \subseteq Creds
  /\ codes \in 0..MaxCodes /\ ops \in 0..MaxOps /\ contested \subseteq Loginables /\ misled \subseteq {"qq"}

\* A session that its service does not accept is saved for kugou, which does not
\* ask, and for qq if another was after the credential while it was judged; and
\* a provider whose credential nobody is trying uses the saved one or none, in
\* whatever order logins and logouts overlap.  What can leave it another one is
\* a session that was not accepted, and one that is tried, a look-up of qq or a
\* restoration, if another request met it; and only up to a restart, or a login,
\* a logout or a session that finds nobody there.
Sessions ==
  \A p \in Loginables :
    /\ saved[p] = Bad => ~Validates(p) \/ p \in misled
    /\ ~Tries(p) /\ p \notin contested => cred[p] \in {saved[p], 0}

=============================================================================
