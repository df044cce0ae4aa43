---------------------------- MODULE UserSessions ----------------------------
(***************************************************************************)
(* The sessions of one user: UserSessionsService and the parts of          *)
(* AuthService that call it.  A session is a row of the database; Redis    *)
(* holds a copy of single rows, the list of active rows, and a marker for  *)
(* each revoked session.                                                   *)
(*                                                                         *)
(* A request is interrupted at every `await` on the database or on Redis.  *)
(* touchSession, revokeOtherSessions and cleanupExpiredSessions are left   *)
(* out: nothing in the repository calls them.  Sessions are numbered in    *)
(* the order of their rows' creation.                                      *)
(***************************************************************************)
EXTENDS Integers, FiniteSets

CONSTANTS
  MaxSessions,  \* bound: sessions ever created
  Limit,        \* maxActiveSessions of the policy decision
  Requests,     \* slots for API requests in flight
  MayOverlap,   \* operations that run beside any other; the rest take turns
  MaxFaults,    \* bound: failed calls and process crashes
  None          \* nothing cached, no session

Operations == {"login", "list", "refresh", "logout", "revokeOne", "logoutAll"}

Sessions == 1 .. MaxSessions

ASSUME SessionConstants ==
  /\ MaxSessions \in Nat
  /\ Limit \in Nat \ {0}
  /\ IsFiniteSet(Requests)
  /\ MayOverlap \subseteq Operations
  /\ MaxFaults \in Nat
  /\ \A s \in Sessions : s # None
  /\ \A ss \in SUBSET Sessions : ss # None
  /\ None \notin {"absent", "active", "ended"}

VARIABLES
  \* rows of the database
  row,          \* "absent", or whether isActive is set
  expired,      \* sessions whose expiresAt is over
  \* Redis
  copy,         \* session:id:*, the copy of a row
  listed,       \* session:user:*:active, the list of active rows
  marker,       \* session:revoked:*
  \* memory of the process
  request,      \* requests in flight
  \* history, read by properties only
  held,         \* sessions whose tokens were handed out
  revoked,      \* sessions whose revocation was completed
  refused,      \* sessions whose holder was refused a refresh
  faults        \* failed calls and crashes so far

cache == <<copy, listed, marker>>
history == <<held, revoked, refused>>
vars == <<row, expired, cache, request, history, faults>>

Status == {"absent", "active", "ended"}

Step ==
  {"idle", "getList", "findActive", "setList", "check", "deactivate", "mark",
   "insert", "getCopy", "findRow", "setCopy", "select", "update", "unmark",
   "dropCopy", "dropList", "findAll", "deactivateAll"}

\* Which part of its operation a request is in.
Phase == {"none", "list", "own", "revoke", "create", "rotate", "answer", "all"}

Request ==
  [op : Operations \union {"none"},
   phase : Phase,
   at : Step,
   sid : {None} \union Sessions,   \* the session at hand
   found : SUBSET Sessions,        \* the active sessions it was given
   todo : SUBSET Sessions,         \* those it has yet to revoke or mark
   entity : Status,                \* its copy of the row at hand
   revive : BOOLEAN]               \* the save found isActive different

Idle ==
  [op |-> "none", phase |-> "none", at |-> "idle", sid |-> None,
   found |-> {}, todo |-> {}, entity |-> "absent", revive |-> FALSE]

(***************************************************************************)
(* One type invariant for the whole state.                                 *)
(***************************************************************************)
TypeOK ==
  /\ row \in [Sessions -> Status]
  /\ expired \subseteq Sessions
  /\ copy \in [Sessions -> {None, "active", "ended"}]
  /\ listed \in {None} \union SUBSET Sessions
  /\ marker \subseteq Sessions
  /\ request \in [Requests -> Request]
  /\ held \subseteq Sessions
  /\ revoked \subseteq Sessions
  /\ refused \subseteq Sessions
  /\ faults \in Nat

Init ==
  /\ row = [s \in Sessions |-> "absent"]
  /\ expired = {}
  /\ copy = [s \in Sessions |-> None]
  /\ listed = None
  /\ marker = {}
  /\ request = [h \in Requests |-> Idle]
  /\ held = {}
  /\ revoked = {}
  /\ refused = {}
  /\ faults = 0

-----------------------------------------------------------------------------
(* Vocabulary of the actions                                               *)

Active == {s \in Sessions : row[s] = "active"}

Becomes(h, r) == request' = [request EXCEPT ![h] = r]

Oldest(ss) == CHOOSE s \in ss : \A t \in ss : s <= t
Newest(ss) == CHOOSE s \in ss : \A t \in ss : t <= s

\* Faulty variant of Surplus: a session too many stays.
SurplusOffByOne(ss) ==
  {s \in ss : Cardinality({t \in ss : t <= s}) < Cardinality(ss) - Limit + 1}

\* The oldest sessions, so many that one more is within the limit.
Surplus(ss) ==
  {s \in ss : Cardinality({t \in ss : t <= s}) <= Cardinality(ss) - Limit + 1}

\* The operations outside MayOverlap wait for one another.
Admitted(h, op) ==
  /\ request[h] = Idle
  /\ op \in MayOverlap
     \/ \A g \in Requests : request[g].op \in MayOverlap \union {"none"}

-----------------------------------------------------------------------------
(* Requests                                                                *)

\* Logins that will yet create a session (read by the bound only).
Arriving ==
  {g \in Requests : request[g].op = "login"
                    /\ (request[g].phase \in {"list", "revoke"}
                        \/ request[g].at = "insert")}

\* createAuthenticatedSession.
Login(h) ==
  /\ Admitted(h, "login")
  /\ Cardinality(Arriving) < Cardinality({s \in Sessions : row[s] = "absent"})
  /\ Becomes(h, [Idle EXCEPT !.op = "login", !.phase = "list",
                             !.at = "getList"])
  /\ UNCHANGED <<row, expired, cache, history, faults>>

\* GET /sessions, and isKnownDevice of the risk assessment.
ListMySessions(h) ==
  /\ Admitted(h, "list")
  /\ Becomes(h, [Idle EXCEPT !.op = "list", !.phase = "list",
                             !.at = "getList"])
  /\ UNCHANGED <<row, expired, cache, history, faults>>

\* The holder of session s presents the refresh token it was given.
Refresh(h, s) ==
  /\ Admitted(h, "refresh")
  /\ s \in held \ expired
  /\ Becomes(h, [Idle EXCEPT !.op = "refresh", !.phase = "list",
                             !.at = "getList", !.sid = s])
  /\ UNCHANGED <<row, expired, cache, history, faults>>

\* logout: revokeSession of the session the access token names.
Logout(h, s) ==
  /\ Admitted(h, "logout")
  /\ s \in held
  /\ Becomes(h, [Idle EXCEPT !.op = "logout", !.phase = "revoke",
                             !.at = "deactivate", !.sid = s])
  /\ UNCHANGED <<row, expired, cache, history, faults>>

\* DELETE /sessions/:id, for a session the user may have seen in a list:
\* revokeSessionForUser first reads whose session it is.
RevokeSessionForUser(h, s) ==
  /\ Admitted(h, "revokeOne")
  /\ row[s] # "absent"
  /\ Becomes(h, [Idle EXCEPT !.op = "revokeOne", !.phase = "own",
                             !.at = "getCopy", !.sid = s])
  /\ UNCHANGED <<row, expired, cache, history, faults>>

\* logoutAll, DELETE /sessions, and the end of resetPassword.
RevokeAllUserSessions(h) ==
  /\ Admitted(h, "logoutAll")
  /\ Becomes(h, [Idle EXCEPT !.op = "logoutAll", !.phase = "all",
                             !.at = "findAll"])
  /\ UNCHANGED <<row, expired, cache, history, faults>>

-----------------------------------------------------------------------------
(* listActiveSessions                                                      *)

\* A login revokes the sessions that are too many, the oldest first, and
\* then creates its own.
NextSurplus(r) ==
  IF r.todo = {}
    THEN [r EXCEPT !.phase = "create", !.at = "insert", !.sid = None]
    ELSE [r EXCEPT !.phase = "revoke", !.at = "deactivate",
                   !.sid = Oldest(r.todo), !.todo = @ \ {Oldest(r.todo)}]

\* The list was read.
AfterList(r, ss) ==
  CASE r.op = "login" -> NextSurplus([r EXCEPT !.todo = Surplus(ss)])
    [] r.op = "refresh" -> [r EXCEPT !.at = "check", !.found = ss]
    [] r.op = "list" -> Idle

GetList(h) ==
  LET r == request[h] IN
  /\ r.at = "getList"
  /\ \/ /\ listed = None
        /\ Becomes(h, [r EXCEPT !.at = "findActive"])
     \/ /\ listed # None
        /\ Becomes(h, AfterList(r, listed))
  /\ UNCHANGED <<row, expired, cache, history, faults>>

FindActive(h) ==
  /\ request[h].at = "findActive"
  /\ Becomes(h, [request[h] EXCEPT !.at = "setList", !.found = Active])
  /\ UNCHANGED <<row, expired, cache, history, faults>>

SetList(h) ==
  LET r == request[h] IN
  /\ r.at = "setList"
  /\ listed' = r.found
  /\ Becomes(h, AfterList([r EXCEPT !.found = {}], r.found))
  /\ UNCHANGED <<row, expired, copy, marker, history, faults>>

\* Faulty variant of Check: the hash is there, and the token matches.
CheckRotates(h) ==
  LET r == request[h] IN
  /\ r.at = "check"
  /\ Becomes(h, IF r.sid \in r.found \ marker
                  THEN [r EXCEPT !.phase = "rotate", !.at = "getCopy"]
                  ELSE Idle)
  /\ UNCHANGED <<row, expired, cache, history, faults>>

\* validateRefreshToken skips the sessions that have a marker and compares
\* the token with the hash of the others.  The column refreshTokenHash is
\* declared `select: false`, so no entity of the list has a hash, and bcrypt
\* rejects the first comparison.  If there is none, the token is invalid.
Check(h) ==
  LET r == request[h] IN
  /\ r.at = "check"
  /\ Becomes(h, Idle)
  /\ refused' = IF row[r.sid] = "active" /\ r.sid \notin marker \union expired
                  THEN refused \union {r.sid}
                  ELSE refused
  /\ UNCHANGED <<row, expired, cache, held, revoked, faults>>

-----------------------------------------------------------------------------
(* getSessionById                                                          *)

\* The session was read; how the request goes on.
AfterEntity(r) ==
  CASE r.phase = "own" -> [r EXCEPT !.phase = "revoke", !.at = "deactivate"]
    [] r.phase = "create" -> [r EXCEPT !.phase = "rotate", !.at = "getCopy"]
    [] r.phase = "rotate" -> [r EXCEPT !.at = "select"]
    [] r.phase = "answer" -> Idle

\* The tokens of a login go out with its answer.
Answer(r) ==
  held' = IF r.phase = "answer" THEN held \union {r.sid} ELSE held

GetCopy(h) ==
  LET r == request[h] IN
  /\ r.at = "getCopy"
  /\ \/ /\ copy[r.sid] = None
        /\ Becomes(h, [r EXCEPT !.at = "findRow"])
        /\ UNCHANGED held
     \/ /\ copy[r.sid] # None
        /\ Becomes(h, AfterEntity([r EXCEPT !.entity = copy[r.sid]]))
        /\ Answer(r)
  /\ UNCHANGED <<row, expired, cache, revoked, refused, faults>>

FindRow(h) ==
  LET r == request[h] IN
  /\ r.at = "findRow"
  /\ Becomes(h, [r EXCEPT !.at = "setCopy", !.entity = row[r.sid]])
  /\ UNCHANGED <<row, expired, cache, history, faults>>

\* cacheSession.
SetCopy(h) ==
  LET r == request[h] IN
  /\ r.at = "setCopy"
  /\ copy' = [copy EXCEPT ![r.sid] = r.entity]
  /\ Becomes(h, AfterEntity(r))
  /\ Answer(r)
  /\ UNCHANGED <<row, expired, listed, marker, revoked, refused, faults>>

-----------------------------------------------------------------------------
(* createSession and rotateRefreshToken                                    *)

\* Faulty variant of Insert: the entity is not saved.
InsertNothing(h) ==
  /\ request[h].at = "insert"
  /\ Becomes(h, [request[h] EXCEPT !.at = "dropCopy",
       !.sid = Oldest({t \in Sessions : row[t] = "absent"})])
  /\ UNCHANGED <<row, expired, cache, history, faults>>

\* createSession.
Insert(h) ==
  LET r == request[h]
      s == Oldest({t \in Sessions : row[t] = "absent"})
  IN
  /\ r.at = "insert"
  /\ row' = [row EXCEPT ![s] = "active"]
  /\ Becomes(h, [r EXCEPT !.at = "dropCopy", !.sid = s])
  /\ UNCHANGED <<expired, cache, history, faults>>

\* save(session) writes the columns in which the entity differs from the
\* row; isActive is always set in the entity.
Select(h) ==
  LET r == request[h] IN
  /\ r.at = "select"
  /\ Becomes(h, [r EXCEPT !.at = "update", !.revive = row[r.sid] # "active"])
  /\ UNCHANGED <<row, expired, cache, history, faults>>

Update(h) ==
  LET r == request[h] IN
  /\ r.at = "update"
  /\ row' = IF r.revive THEN [row EXCEPT ![r.sid] = "active"] ELSE row
  /\ Becomes(h, [r EXCEPT !.at = "unmark", !.revive = FALSE])
  /\ UNCHANGED <<expired, cache, history, faults>>

Unmark(h) ==
  LET r == request[h] IN
  /\ r.at = "unmark"
  /\ marker' = marker \ {r.sid}
  /\ Becomes(h, [r EXCEPT !.at = "dropCopy"])
  /\ UNCHANGED <<row, expired, copy, listed, history, faults>>

-----------------------------------------------------------------------------
(* Revocation                                                              *)

\* Faulty variant of Deactivate: the row stays active, the marker must do.
DeactivateNothing(h) ==
  LET r == request[h] IN
  /\ r.at = "deactivate"
  /\ Becomes(h, [r EXCEPT !.at = "mark"])
  /\ UNCHANGED <<row, expired, cache, history, faults>>

\* revokeSession, which first reads the row for its expiry date.
Deactivate(h) ==
  LET r == request[h] IN
  /\ r.at = "deactivate"
  /\ row' = [row EXCEPT ![r.sid] = "ended"]
  /\ Becomes(h, [r EXCEPT !.at = "mark"])
  /\ UNCHANGED <<expired, cache, history, faults>>

FindAll(h) ==
  LET r == request[h] IN
  /\ r.at = "findAll"
  /\ Becomes(h, [r EXCEPT !.at = "deactivateAll", !.found = Active])
  /\ UNCHANGED <<row, expired, cache, history, faults>>

DeactivateAll(h) ==
  LET r == request[h] IN
  /\ r.at = "deactivateAll"
  /\ row' = [s \in Sessions |-> IF s \in Active THEN "ended" ELSE row[s]]
  /\ Becomes(h, [r EXCEPT !.at = IF r.found = {} THEN "dropList" ELSE "mark",
                          !.todo = r.found])
  /\ UNCHANGED <<expired, cache, history, faults>>

\* Faulty variant of Mark: nothing is written.
MarkNothing(h) ==
  LET r == request[h] IN
  /\ r.at = "mark"
  /\ \/ /\ r.phase = "revoke"
        /\ Becomes(h, [r EXCEPT !.at = "dropCopy"])
     \/ /\ r.phase = "all"
        /\ Becomes(h, [r EXCEPT !.at = "dropList", !.todo = r.found])
  /\ UNCHANGED <<row, expired, cache, history, faults>>

\* markSessionRevoked; logoutAll does it for all at once.
Mark(h) ==
  LET r == request[h] IN
  /\ r.at = "mark"
  /\ \/ /\ r.phase = "revoke"
        /\ marker' = marker \union {r.sid}
        /\ Becomes(h, [r EXCEPT !.at = "dropCopy"])
     \/ /\ r.phase = "all"
        /\ \E s \in r.todo :
             /\ marker' = marker \union {s}
             /\ Becomes(h,
                  IF r.todo = {s}
                    THEN [r EXCEPT !.at = "dropList", !.todo = r.found]
                    ELSE [r EXCEPT !.todo = @ \ {s}])
  /\ UNCHANGED <<row, expired, copy, listed, history, faults>>

-----------------------------------------------------------------------------
(* invalidateSessionCaches                                                 *)

\* A logout everywhere is done with the copies of todo.
LeftToDrop(r, todo) ==
  IF todo = {} THEN Idle ELSE [r EXCEPT !.at = "dropCopy", !.todo = todo]

DropCopy(h) ==
  LET r == request[h]
      s == IF r.phase = "all" THEN Newest(r.todo) ELSE r.sid
      q == IF r.phase = "all" THEN LeftToDrop(r, r.todo \ {s})
                              ELSE [r EXCEPT !.at = "dropList"]
  IN
  /\ r.at = "dropCopy"
  /\ copy' = [copy EXCEPT ![s] = None]
  /\ Becomes(h, q)
  /\ revoked' = IF q = Idle THEN revoked \union r.found ELSE revoked
  /\ UNCHANGED <<row, expired, listed, marker, held, refused, faults>>

\* The caches of a session were invalidated; how the request goes on.
AfterDrop(r) ==
  CASE r.phase = "revoke" /\ r.op = "login" -> NextSurplus(r)
    [] r.phase = "revoke" /\ r.op # "login" -> Idle
    [] r.phase = "create" -> [r EXCEPT !.at = "getCopy"]
    [] r.phase = "rotate" -> [r EXCEPT !.phase = "answer", !.at = "getCopy"]
    [] r.phase = "all" -> LeftToDrop(r, r.found)

\* Faulty variant of DropList: a new session does not invalidate the list.
DropListOnRevoke(h) ==
  LET r == request[h] IN
  /\ r.at = "dropList"
  /\ listed' = IF r.phase \in {"revoke", "all"} THEN None ELSE listed
  /\ Becomes(h, AfterDrop(r))
  /\ revoked' = IF r.phase = "revoke" THEN revoked \union {r.sid} ELSE revoked
  /\ UNCHANGED <<row, expired, copy, marker, held, refused, faults>>

DropList(h) ==
  LET r == request[h] IN
  /\ r.at = "dropList"
  /\ listed' = None
  /\ Becomes(h, AfterDrop(r))
  /\ revoked' = IF r.phase = "revoke" THEN revoked \union {r.sid} ELSE revoked
  /\ UNCHANGED <<row, expired, copy, marker, held, refused, faults>>

-----------------------------------------------------------------------------
(* Time and failures                                                       *)

Quiet == \A h \in Requests : request[h] = Idle

\* Thirty days after the login; no request takes that long.
SessionExpires(s) ==
  /\ Quiet
  /\ row[s] # "absent"
  /\ s \notin expired
  /\ expired' = expired \union {s}
  /\ UNCHANGED <<row, cache, request, history, faults>>

\* Faulty variant of ListExpires: the list lives as long as its sessions.
ListExpiresWithSessions ==
  /\ listed # None
  /\ listed \subseteq expired
  /\ listed' = None
  /\ UNCHANGED <<row, expired, copy, marker, request, history, faults>>

\* ACTIVE_SESSIONS_CACHE_TTL is over.
ListExpires ==
  /\ listed # None
  /\ listed' = None
  /\ UNCHANGED <<row, expired, copy, marker, request, history, faults>>

\* cacheSession and markSessionRevoked pass getTtlFromDate(expiresAt): the
\* entry lives until the session expires.  The constant they name counts
\* only for a session that has expired already.
EntryExpires(s) ==
  /\ s \in expired
  /\ copy[s] # None \/ s \in marker
  /\ copy' = [copy EXCEPT ![s] = None]
  /\ marker' = marker \ {s}
  /\ UNCHANGED <<row, expired, listed, request, history, faults>>

\* Ten minutes without a request; what Redis still holds then.
TenMinutesPass ==
  /\ Quiet
  /\ listed' = None
  /\ copy' = [s \in Sessions |-> IF s \in expired THEN None ELSE copy[s]]
  /\ UNCHANGED <<row, expired, marker, request, history, faults>>

\* A call to the database or to Redis fails, and so does the request.
Raise(h) ==
  /\ faults < MaxFaults
  /\ request[h] # Idle
  /\ Becomes(h, Idle)
  /\ faults' = faults + 1
  /\ UNCHANGED <<row, expired, cache, history>>

\* The process stops: no request is answered.
Crash ==
  /\ faults < MaxFaults
  /\ ~Quiet
  /\ request' = [h \in Requests |-> Idle]
  /\ faults' = faults + 1
  /\ UNCHANGED <<row, expired, cache, history>>

-----------------------------------------------------------------------------
Begins(h) ==
  \/ Login(h)
  \/ ListMySessions(h)
  \/ RevokeAllUserSessions(h)
  \/ \E s \in Sessions :
       Refresh(h, s) \/ Logout(h, s) \/ RevokeSessionForUser(h, s)

Proceeds(h) ==
  \/ GetList(h) \/ FindActive(h) \/ SetList(h) \/ Check(h)
  \/ GetCopy(h) \/ FindRow(h) \/ SetCopy(h)
  \/ Insert(h) \/ Select(h) \/ Update(h) \/ Unmark(h)
  \/ Deactivate(h) \/ FindAll(h) \/ DeactivateAll(h) \/ Mark(h)
  \/ DropCopy(h) \/ DropList(h)

Next ==
  \/ \E h \in Requests : Begins(h) \/ Proceeds(h) \/ Raise(h)
  \/ \E s \in Sessions : SessionExpires(s) \/ EntryExpires(s)
  \/ ListExpires
  \/ TenMinutesPass
  \/ Crash

Spec == Init /\ [][Next]_vars

\* A started request goes on, and Redis drops an entry when its time to live
\* is over.  Nobody is obliged to send a request or to wait thirty days.
Fairness == WF_vars(ListExpires) /\ \A h \in Requests : WF_vars(Proceeds(h))

FairSpec == Spec /\ Fairness

-----------------------------------------------------------------------------
(* Properties                                                              *)

\* A session whose revocation was completed is never active again, even when
\* other requests read the caches meanwhile and calls fail: only the login
\* that created a session saves its entity.
RevokedStaysRevoked == \A s \in revoked : row[s] = "ended"

\* The policy's number of sessions is kept at every moment, by a login that
\* counts what may be a cached list.
LimitKept == Cardinality(Active) <= Limit

\* The list may be filled with rows read before a revocation, and the
\* revocation's invalidation may come too early; then the session's marker
\* keeps the list from being believed.
StaleListIsMarked ==
  listed # None => revoked \cap listed \subseteq marker \union expired

\* Between requests the caches agree with the rows.
CachesTrue ==
  Quiet => /\ listed \in {None, Active}
           /\ \A s \in Sessions : copy[s] \in {None, row[s]}

\* However requests interleave and fail, the list is right in the end: a
\* stale one lasts no longer than its time to live, and is not read back.
ListConverges == <>[](listed \in {None, Active})

-----------------------------------------------------------------------------
(* Promised, and not kept (the README tells how)                           *)

\* A user who holds the refresh token of a live session is not refused.
HolderIsServed == refused = {}

\* A row is copied for ten minutes.
CopiesLastTenMinutes ==
  [][TenMinutesPass => \A s \in Sessions : copy'[s] = None]_vars

=============================================================================
