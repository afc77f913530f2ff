------------------------------ MODULE Sessions ------------------------------
(***************************************************************************)
(* The sessions of the console: the three tables of api/authstore.go (the  *)
(* refresh tokens, the access tokens logged out, the tickets of the        *)
(* streams), the handlers that use them (api/handlers_auth.go through      *)
(* api/authenticator.go and api/security.go) and the throttle of logins    *)
(* (api/ratelimit.go).  Each method of a table is one step, under its      *)
(* lock; a request makes several, and time passes between them.            *)
(*                                                                         *)
(* A session is known by its number, in the order of issue; its access     *)
(* token and its refresh token have the number of the session.  So is a    *)
(* failed login: the throttle has its time, in the order they came.        *)
(* Accounts and roles are fixed while the process runs.  The throttle goes *)
(* by the name as it was typed, the authenticator by the name without the  *)
(* blanks around it: one account has many names, and some have none.       *)
(***************************************************************************)
EXTENDS Integers, Sequences, FiniteSets

CONSTANTS
    Visitor,            \* requests at a time
    Name, Address,      \* what a failed login is counted under: the name as typed
    Account, Trimmed,   \* those of the configuration; what is left of a name
    PairLimit, IpLimit, \* failures allowed in a window
    Window,             \* of the throttle, in halves of a tick
    AccessTTL, RefreshTTL, TicketTTL, SweepEvery,
    MaxRevoked,         \* maxRevokedEntries
    MaxClock, MaxSessions, MaxTickets, MaxLogins      \* bounds

\* An odd Window: a failure that is a window old to the nanosecond, which Allow
\* counts and has nothing to wait for, is left out.
ASSUME SessionsAssumption ==
    /\ {PairLimit, IpLimit, MaxRevoked, AccessTTL, RefreshTTL} \subseteq Nat \ {0}
    /\ {TicketTTL, SweepEvery, MaxClock, MaxSessions, MaxTickets, MaxLogins} \subseteq Nat
    /\ Window \in Nat /\ Window % 2 = 1 /\ Address \notin Name
    /\ IsFiniteSet(Visitor)

VARIABLES
    now,
    sessions,   \* when each was issued, and the refresh token it was exchanged for
    refresh,    \* the table of refresh tokens
    revoked,    \* the table of access tokens logged out
    issued,     \* when each ticket was issued
    tickets,    \* the table of tickets
    swept,      \* times of the last sweep: at most one
    wrong,      \* the failed logins: their times; their names, and whether those
                \* have been reset since (history)
    failures,   \* those counted for a name from the address, and for the address
    request,    \* where each request is
    attempts,   \* logins tried
    out,        \* history: access tokens whose logout has reached the table
    dropped,    \* history: refresh tokens given up by a logout, or exchanged in vain
    admitted    \* history: how often each ticket has let somebody in

tableVars == <<sessions, refresh, revoked, issued, tickets, swept, out, dropped, admitted>>
throttleVars == <<failures, attempts, wrong>>
sessionVars == <<now, tableVars, throttleVars, request>>

Idle == [at |-> "idle"]

SessionsInit ==
    /\ now = 0 /\ sessions = <<>> /\ refresh = {} /\ revoked = {}
    /\ issued = <<>> /\ tickets = {} /\ swept = {}
    /\ failures = [k \in Name \cup {Address} |-> {}]
    /\ request = [v \in Visitor |-> Idle] /\ attempts = 0
    /\ out = {} /\ dropped = {} /\ admitted = <<>> /\ wrong = <<>>

AccessEnd(t) == sessions[t].at + AccessTTL

RefreshEnd(r) == sessions[r].at + RefreshTTL

TicketEnd(k) == issued[k] + TicketTTL

Becomes(v, r) == request' = [request EXCEPT ![v] = r]
-----------------------------------------------------------------------------
InWindow(i) == 2 * (now - wrong[i].time) <= Window

\* recentLocked: what is older than the window is in front, and goes.
Recent(k) == {i \in failures[k] : InWindow(i)}

Limit(k) == IF k = Address THEN IpLimit ELSE PairLimit

\* The handler of a login, up to the password: Allow.
Login(v, n) ==
    /\ request[v] = Idle /\ attempts < MaxLogins /\ attempts' = attempts + 1
    /\ failures' = [k \in DOMAIN failures |->
                      IF k \in {n, Address} THEN Recent(k) ELSE failures[k]]
    /\ IF \A k \in {n, Address} : Cardinality(Recent(k)) < Limit(k)
       THEN Becomes(v, [at |-> "password", name |-> n])
       ELSE UNCHANGED request
    /\ UNCHANGED <<now, tableVars, wrong>>

\* The password is wrong, or there is no such account: Reject.
Reject(v) ==
    /\ request[v].at = "password" /\ Becomes(v, Idle)
    /\ LET n == request[v].name IN
        /\ failures' = [k \in DOMAIN failures |->
                          IF k \in {n, Address} THEN Recent(k) \cup {Len(wrong) + 1}
                          ELSE failures[k]]
        /\ wrong' = Append(wrong, [name |-> n, time |-> now, reset |-> FALSE])
    /\ UNCHANGED <<now, tableVars, attempts>>

\* Mutant of Cleared: the failures of the address go too.
ClearedAll(n) == {n, Address}

\* What a login that succeeds clears: the name it came under, from this address; other
\* names of the account are still counted.
Cleared(n) == {n}

\* Authenticate: the password of the account is right.  Then Reset.
Reset(v) ==
    /\ request[v].at = "password" /\ Trimmed[request[v].name] \in Account
    /\ Becomes(v, [at |-> "welcome", parent |-> {}])
    /\ LET n == request[v].name IN
        /\ failures' = [k \in DOMAIN failures |->
                          IF k \in Cleared(n) THEN {} ELSE failures[k]]
        /\ wrong' = [i \in DOMAIN wrong |->
                       IF wrong[i].name = n THEN [wrong[i] EXCEPT !.reset = TRUE]
                       ELSE wrong[i]]
    /\ UNCHANGED <<now, tableVars, attempts>>
-----------------------------------------------------------------------------
Sweeping == \A s \in swept : now - s >= SweepEvery

\* Mutant of SweptRefresh: it goes by the end of the access token.
SweptByAccess ==
    IF Sweeping THEN {r \in refresh : AccessEnd(r) >= now} ELSE refresh

SweptRefresh == IF Sweeping THEN {r \in refresh : RefreshEnd(r) >= now} ELSE refresh

\* sweepLocked: the other two tables.
Sweep ==
    /\ swept' = IF Sweeping THEN {now} ELSE swept
    /\ revoked' = IF Sweeping THEN {t \in revoked : AccessEnd(t) >= now} ELSE revoked

SweptTickets == IF Sweeping THEN {k \in tickets : TicketEnd(k) >= now} ELSE tickets

\* IssueSession: the pair, and its refresh token in the table.
IssueSession(v) ==
    /\ request[v].at = "welcome" /\ Becomes(v, Idle)
    /\ Len(sessions) < MaxSessions
    /\ sessions' = Append(sessions, [at |-> now, parent |-> request[v].parent])
    /\ refresh' = SweptRefresh \cup {Len(sessions) + 1}
    /\ Sweep /\ tickets' = SweptTickets
    /\ UNCHANGED <<now, throttleVars, issued, out, dropped, admitted>>

\* No session: there is no randomness for its tokens.
IssueFails(v) ==
    /\ request[v].at = "welcome" /\ Becomes(v, Idle)
    /\ dropped' = dropped \cup request[v].parent
    /\ UNCHANGED <<now, throttleVars, sessions, refresh, revoked, issued, tickets, swept,
                   out, admitted>>

\* Mutant of Taken: the token is left for whoever comes at the same time.
TakenLater(r) == {}

Taken(r) == {r}

\* Refresh: takeSubject, for a token somebody holds, or has held.
TakeRefresh(v, r) ==
    /\ request[v] = Idle /\ r \in 1..Len(sessions)
    /\ refresh' = SweptRefresh \ Taken(r)
    /\ IF r \in SweptRefresh /\ RefreshEnd(r) >= now
       THEN Becomes(v, [at |-> "welcome", parent |-> {r}])
       ELSE UNCHANGED request
    /\ Sweep /\ tickets' = SweptTickets
    /\ UNCHANGED <<now, throttleVars, sessions, issued, out, dropped, admitted>>
-----------------------------------------------------------------------------
\* VerifyAccessToken, first the token itself: jwt.Parse wants it unexpired ...
Parse(v, t) ==
    /\ request[v] = Idle /\ t \in 1..Len(sessions) /\ now < AccessEnd(t)
    /\ Becomes(v, [at |-> "parsed", token |-> t])
    /\ UNCHANGED <<now, tableVars, throttleVars>>

\* ... and then isRevoked, which forgets what has expired meanwhile.
Lookup(v) ==
    /\ request[v].at = "parsed"
    /\ LET t == request[v].token IN
        /\ revoked' = IF AccessEnd(t) < now THEN revoked \ {t} ELSE revoked
        /\ IF t \in revoked /\ AccessEnd(t) >= now
           THEN Becomes(v, Idle)
           ELSE Becomes(v, [request[v] EXCEPT !.at = "known"])
    /\ UNCHANGED <<now, throttleVars, sessions, refresh, issued, tickets, swept, out,
                   dropped, admitted>>

\* Any other handler has its answer.
Serve(v) ==
    /\ request[v].at = "known" /\ Becomes(v, Idle)
    /\ UNCHANGED <<now, tableVars, throttleVars>>

WsTicket(v) ==
    /\ request[v].at = "known" /\ Becomes(v, Idle)
    /\ Len(issued) < MaxTickets
    /\ issued' = Append(issued, now) /\ admitted' = Append(admitted, 0)
    /\ Sweep /\ refresh' = SweptRefresh
    /\ tickets' = SweptTickets \cup {Len(issued) + 1}
    /\ UNCHANGED <<now, throttleVars, sessions, out, dropped>>

\* consumeTicket, for the handshake of a stream.
ConsumeTicket(k) ==
    /\ k \in 1..Len(issued) /\ tickets' = tickets \ {k}
    /\ admitted' = IF k \in tickets /\ TicketEnd(k) >= now
                   THEN [admitted EXCEPT ![k] = @ + 1] ELSE admitted
    /\ UNCHANGED <<now, throttleVars, sessions, refresh, revoked, issued, swept, out,
                   dropped, request>>

\* Logout, first dropRefresh: with its body a client may give up any token.
DropRefresh(v) ==
    /\ request[v].at = "known"
    /\ Becomes(v, [request[v] EXCEPT !.at = "leaving"])
    /\ \E R \in {{}} \cup {{r} : r \in 1..Len(sessions)} :
        refresh' = refresh \ R /\ dropped' = dropped \cup R
    /\ UNCHANGED <<now, throttleVars, sessions, revoked, issued, tickets, swept, out, admitted>>

\* Mutant of Oldest: what would be good for longest goes.
Newest(D, kept) == \A d \in D, t \in kept : AccessEnd(d) >= AccessEnd(t)

Oldest(D, kept) == \A d \in D, t \in kept : AccessEnd(d) <= AccessEnd(t)

EvictionSize == (Cardinality(revoked) \div 8) + 1

\* ... and then revoke, which makes room if there is none.
Revoke(v) ==
    /\ request[v].at = "leaving" /\ Becomes(v, Idle)
    /\ LET t == request[v].token IN
        IF AccessEnd(t) <= now THEN UNCHANGED <<revoked, out>>
        ELSE /\ out' = out \cup {t}
             /\ \E D \in SUBSET revoked :
                 /\ IF Cardinality(revoked) < MaxRevoked THEN D = {}
                    ELSE Cardinality(D) = EvictionSize /\ Oldest(D, revoked \ D)
                 /\ revoked' = (revoked \ D) \cup {t}
    /\ UNCHANGED <<now, throttleVars, sessions, refresh, issued, tickets, swept, dropped,
                   admitted>>

Pass == now < MaxClock /\ now' = now + 1 /\ UNCHANGED <<tableVars, throttleVars, request>>

LoginNext ==
    \/ \E v \in Visitor :
        \/ \E n \in Name : Login(v, n)
        \/ Reject(v) \/ Reset(v) \/ IssueFails(v)
    \/ Pass

TokenNext ==
    \/ \E v \in Visitor :
        \/ \E s \in 1..Len(sessions) : TakeRefresh(v, s) \/ Parse(v, s)
        \/ IssueSession(v) \/ Lookup(v) \/ Serve(v)
        \/ WsTicket(v) \/ DropRefresh(v) \/ Revoke(v)
    \/ \E k \in 1..Len(issued) : ConsumeTicket(k)

SessionsNext == LoginNext \/ TokenNext

SessionsSpec == SessionsInit /\ [][SessionsNext]_sessionVars
-----------------------------------------------------------------------------
Number == 1..Len(sessions)

Exchanges(r) == {s \in Number : r \in sessions[s].parent}
                  \cup {v \in Visitor : request[v].at = "welcome" /\ r \in request[v].parent}

\* api/authstore.go: "无论成功与否它都不再可用（轮转语义）", "第二次使用同一个 ticket
\* 必然失败", "保留还能拦得住的条目".  Over refreshes of one token at the same time,
\* sweeps, logouts and a full table: a refresh token is exchanged once at most, and
\* until its end it is good exactly as long as nobody has exchanged it or given it
\* up; a ticket lets in once; and an access token logged out is refused to its end,
\* unless the table was full of others that are good for longer.
SpentStaysSpent ==
    /\ \A r \in Number :
        /\ Cardinality(Exchanges(r)) <= 1
        /\ RefreshEnd(r) >= now =>
             (r \in refresh <=> r \notin dropped /\ Exchanges(r) = {})
    /\ \A k \in 1..Len(issued) : admitted[k] <= 1
    /\ \A t \in out : AccessEnd(t) >= now /\ t \notin revoked =>
        Cardinality({u \in out \ {t} : AccessEnd(u) >= AccessEnd(t)})
            >= MaxRevoked - (MaxRevoked \div 8 + 1)
    /\ Cardinality(revoked) <= MaxRevoked

Within(k) ==
    {i \in 1..Len(wrong) : InWindow(i) /\ (k # Address => wrong[i].name = k /\ ~wrong[i].reset)}

\* api/ratelimit.go: "成功一次登录不能抹掉别的爆破" - whatever order logins are let in,
\* fail and succeed in, the failures within a window stay below the limit but for
\* the logins let in at the same time: those of the address, all of them, whatever
\* names and accounts they are for, and those under a name, as it was typed, since its
\* last success.  Of an account it is not true: an account has as many names as blanks
\* can be put around it, and what bounds the failures of all of them is the limit of
\* the address ("pairLimit 是"同一来源针对同一账号"的允许失败数" holds of names only).
ThrottleHolds ==
    \A k \in Name \cup {Address} :
        Cardinality(Within(k)) <= Limit(k) - 1 + Cardinality(Visitor)
=============================================================================
