--------------------------- MODULE SessionsProofs ---------------------------
(***************************************************************************)
(* Theorems about UserSessions, proved for any number of sessions,         *)
(* requests and failures and any limit: what holds however requests        *)
(* overlap, what lists and refreshes cannot disturb, and what holds of     *)
(* requests that take turns, the promise of LiveSessions among it.         *)
(***************************************************************************)
EXTENDS MCSessions, FiniteSetTheorems, TLAPS

-----------------------------------------------------------------------------
(* The inductive invariant of every behaviour                              *)

\* Where in its operation a request is.
Formed(r) ==
  /\ r.op = "none" \/ r.at = "idle" => r = Idle
  /\ r.at \in {"getList", "findActive", "setList"} =>
       r.phase = "list" /\ r.op \in {"login", "list", "refresh"}
  /\ r.at = "check" => r.phase = "list" /\ r.op = "refresh"
  /\ r.at \in {"getCopy", "findRow", "setCopy"} =>
       r.phase \in {"own", "create", "rotate", "answer"}
  /\ r.at \in {"select", "update", "unmark"} => r.phase = "rotate"
  /\ r.at = "insert" => r.phase = "create"
  /\ r.at = "deactivate" => r.phase = "revoke"
  /\ r.at = "mark" => r.phase \in {"revoke", "all"}
  /\ r.at \in {"dropCopy", "dropList"} =>
       r.phase \in {"revoke", "create", "rotate", "all"}
  /\ r.at \in {"findAll", "deactivateAll"} => r.phase = "all"
  /\ r.phase = "own" => r.op = "revokeOne"
  /\ r.phase = "revoke" => r.op \in {"login", "logout", "revokeOne"}
  /\ r.phase \in {"create", "rotate", "answer"} => r.op = "login"
  /\ r.phase = "all" => r.op = "logoutAll"
  /\ r.at = "findAll" => r.todo = {}
  /\ r.phase = "all" => r.todo \subseteq r.found
  /\ r.phase = "all" /\ r.at = "dropCopy" => r.todo # {}

Existing(rows) == {s \in Sessions : rows[s] # "absent"}

\* The sessions a request deals with have rows.
Grounded(r, rows) ==
  /\ r.found \union r.todo \subseteq Existing(rows)
  /\ r.op = "refresh" => r.sid \in Sessions
  /\ r.phase \in {"own", "revoke", "rotate", "answer"} =>
       r.sid \in Existing(rows)
  /\ r.phase = "create" /\ r.at # "insert" => r.sid \in Existing(rows)
  /\ r.at = "setCopy" => r.entity # "absent"

\* So do the sessions that caches and the history name.
Named ==
  /\ \A s \in Sessions : copy[s] # None => row[s] # "absent"
  /\ listed # None => listed \subseteq Existing(row)
  /\ held \union revoked \subseteq Existing(row)

Absent == {s \in Sessions : row[s] = "absent"}

\* A login that comes finds a number for its session.
Room == Cardinality(Arriving) <= Cardinality(Absent)

IInv ==
  /\ TypeOK
  /\ \A h \in Requests : Formed(request[h]) /\ Grounded(request[h], row)
  /\ Named
  /\ Room

-----------------------------------------------------------------------------
(* What lists and refreshes cannot disturb                                 *)

OneWriter == \A g, h \in Writing : g = h

\* Of these sessions Redis holds a marker, or nothing any more.
Gone == marker \union expired

\* What the one writer knows of the rows and of Gone.
Informed(r, rows, gone) ==
  /\ r.phase = "create" /\ r.at # "insert" => rows[r.sid] = "active"
  /\ r.phase \in {"rotate", "answer"} => rows[r.sid] = "active"
  /\ r.at = "update" => ~r.revive
  /\ r.phase = "revoke" /\ r.at \in {"mark", "dropCopy", "dropList"} =>
       rows[r.sid] = "ended"
  /\ r.phase = "revoke" /\ r.at \in {"dropCopy", "dropList"} => r.sid \in gone
  /\ r.at = "deactivateAll" => r.found = {s \in Sessions : rows[s] = "active"}
  /\ r.phase = "all" /\ r.at \in {"mark", "dropCopy", "dropList"} =>
       \A s \in r.found : rows[s] = "ended"
  /\ r.phase = "all" /\ r.at = "mark" => r.found \ r.todo \subseteq gone
  /\ r.phase = "all" /\ r.at \in {"dropCopy", "dropList"} => r.found \subseteq gone

\* A revoked session is marked, until nothing can be cached of it any more.
RevokedMarked == revoked \subseteq Gone

ReadersInv ==
  /\ OneWriter
  /\ RevokedStaysRevoked
  /\ RevokedMarked
  /\ \A h \in Requests : Informed(request[h], row, Gone)

-----------------------------------------------------------------------------
(* What holds of requests that take turns                                  *)

AtMostOne == \A g, h \in InFlight : g = h

\* r has changed the active rows and not yet dropped the list.
ListStale(r) ==
  \/ r.phase \in {"create", "revoke"} /\ r.at \in {"mark", "dropCopy", "dropList"}
  \/ r.phase = "all" /\ r.at \in {"mark", "dropList"}

\* r has changed the row of s and not yet dropped its copy.
CopyStale(r, s) ==
  \/ r.phase = "revoke" /\ r.at \in {"mark", "dropCopy"} /\ s = r.sid
  \/ r.phase = "all" /\ r.at \in {"mark", "dropList"} /\ s \in r.found
  \/ r.phase = "all" /\ r.at = "dropCopy" /\ s \in r.todo

ActiveIn(rows) == {s \in Sessions : rows[s] = "active"}

\* The caches agree with the rows, but for what r has yet to drop.
Agree(r, rows, list, copies) ==
  /\ list \in {None, ActiveIn(rows)} \/ ListStale(r)
  /\ \A s \in Sessions : copies[s] \in {None, rows[s]} \/ CopyStale(r, s)

\* The sessions that stay when a login has revoked what it is about to.
Staying(r, rows) ==
  ActiveIn(rows) \ (r.todo \union IF r.at = "deactivate" THEN {r.sid} ELSE {})

\* What the only request read is so, and a login makes room for its session.
Current(r, rows) ==
  /\ r.at = "setList" => r.found = ActiveIn(rows)
  /\ r.at = "setCopy" => r.entity = rows[r.sid]
  /\ r.op = "login" /\ r.phase = "revoke" => Cardinality(Staying(r, rows)) < Limit
  /\ r.at = "insert" => Cardinality(ActiveIn(rows)) < Limit

TurnsInv ==
  /\ AtMostOne
  /\ Quiet => Agree(Idle, row, listed, copy)
  /\ \A h \in InFlight : Agree(request[h], row, listed, copy)
  /\ LimitKept
  /\ \A h \in Requests : Current(request[h], row)

-----------------------------------------------------------------------------
(* Sets of sessions                                                        *)

LEMMA Bounds ==
  /\ MaxSessions \in Nat
  /\ Limit \in Nat /\ Limit > 0
  /\ MaxFaults \in Nat
  /\ IsFiniteSet(Requests)
  /\ \A s \in Sessions : s # None /\ s \in Nat
  /\ \A ss \in SUBSET Sessions : ss # None
  /\ None \notin {"absent", "active", "ended"}
BY SessionConstants DEF Sessions

LEMMA Counted ==
  ASSUME NEW ss \in SUBSET Sessions
  PROVE  IsFiniteSet(ss) /\ Cardinality(ss) \in Nat
<1>1. IsFiniteSet(Sessions)
  BY Bounds, FS_Interval DEF Sessions
<1> QED  BY <1>1, FS_Subset, FS_CardinalityType

\* Among sets of sessions one has no other within it.
LEMMA LeastSet ==
  ASSUME NEW ss, ss # {}, NEW f \in [ss -> SUBSET Sessions]
  PROVE  \E s \in ss : \A t \in ss : ~(f[t] \subseteq f[s] /\ f[t] # f[s])
<1> DEFINE T == {f[s] : s \in ss}
<1>1. IsFiniteSet(Sessions)
  BY Bounds, FS_Interval DEF Sessions
<1>2. FiniteSubsetsOf(Sessions) = SUBSET Sessions
  BY <1>1, FS_FiniteSubsetsOfFinite
<1>3. IsWellFoundedOn(StrictSubsetOrdering(Sessions), SUBSET Sessions)
  BY <1>2, FS_StrictSubsetOrderingWellFounded
<1>4. T \subseteq SUBSET Sessions /\ T # {}
  OBVIOUS
<1>5. \E x \in T : \A y \in T : <<y, x>> \notin StrictSubsetOrdering(Sessions)
  <2> HIDE DEF T
  <2> QED  BY <1>3, <1>4, WFMin
<1>6. PICK s \in ss : \A y \in T : <<y, f[s]>> \notin StrictSubsetOrdering(Sessions)
  BY <1>5
<1>7. ASSUME NEW t \in ss, f[t] \subseteq f[s], f[t] # f[s]  PROVE FALSE
  <2>1. f[t] \in T /\ f[t] \in SUBSET Sessions /\ f[s] \in SUBSET Sessions
    OBVIOUS
  <2>2. <<f[t], f[s]>> \in StrictSubsetOrdering(Sessions)
    BY <1>7, <2>1 DEF StrictSubsetOrdering
  <2> QED  BY <1>6, <2>1, <2>2
<1> QED  BY <1>7

LEMMA OldestIn ==
  ASSUME NEW ss \in SUBSET Sessions, ss # {}
  PROVE  Oldest(ss) \in ss /\ \A t \in ss : Oldest(ss) <= t
<1> DEFINE f == [s \in ss |-> {u \in ss : u <= s}]
<1>1. PICK s \in ss : \A t \in ss : ~(f[t] \subseteq f[s] /\ f[t] # f[s])
  <2>1. f \in [ss -> SUBSET Sessions]
    OBVIOUS
  <2> HIDE DEF f
  <2> QED  BY <2>1, LeastSet
<1>2. ASSUME NEW t \in ss, ~(s <= t)  PROVE FALSE
  <2>1. \A u \in ss : u \in Nat
    BY Bounds
  <2>2. ASSUME NEW u \in f[t]  PROVE u \in f[s]
    BY <1>2, <2>1
  <2>3. s \in f[s] /\ s \notin f[t]
    BY <1>2, <2>1
  <2> HIDE DEF f
  <2> QED  BY <1>1, <2>2, <2>3
<1>3. \E o \in ss : \A t \in ss : o <= t
  BY <1>2
<1> QED  BY <1>3 DEF Oldest

LEMMA NewestIn ==
  ASSUME NEW ss \in SUBSET Sessions, ss # {}
  PROVE  Newest(ss) \in ss
<1> DEFINE f == [s \in ss |-> {u \in ss : s <= u}]
<1>1. PICK s \in ss : \A t \in ss : ~(f[t] \subseteq f[s] /\ f[t] # f[s])
  <2>1. f \in [ss -> SUBSET Sessions]
    OBVIOUS
  <2> HIDE DEF f
  <2> QED  BY <2>1, LeastSet
<1>2. ASSUME NEW t \in ss, ~(t <= s)  PROVE FALSE
  <2>1. \A u \in ss : u \in Nat
    BY Bounds
  <2>2. ASSUME NEW u \in f[t]  PROVE u \in f[s]
    BY <1>2, <2>1
  <2>3. s \in f[s] /\ s \notin f[t]
    BY <1>2, <2>1
  <2> HIDE DEF f
  <2> QED  BY <1>1, <2>2, <2>3
<1>3. \E o \in ss : \A t \in ss : t <= o
  BY <1>2
<1> QED  BY <1>3 DEF Newest

\* Without the surplus, one session more is within the limit.
LEMMA SurplusMakesRoom ==
  ASSUME NEW ss \in SUBSET Sessions
  PROVE  Surplus(ss) \subseteq ss /\ Cardinality(ss \ Surplus(ss)) < Limit
<1> DEFINE Rank(s) == Cardinality({t \in ss : t <= s})
           n == Cardinality(ss)
           T == IF n - Limit + 2 > 0 THEN n - Limit + 2 .. n ELSE 1 .. n
<1>1. n \in Nat /\ Limit \in Nat /\ Limit > 0 /\ \A s \in ss : s \in Nat
  BY Counted, Bounds
<1>2. ASSUME NEW s \in ss  PROVE Rank(s) \in Nat /\ Rank(s) <= n /\ Rank(s) >= 1
  <2>1. {t \in ss : t <= s} \subseteq ss /\ IsFiniteSet(ss)
    BY Counted
  <2>2. Rank(s) \in Nat /\ Rank(s) <= n
    BY <2>1, Counted, FS_Subset
  <2>3. s \in {t \in ss : t <= s} /\ IsFiniteSet({t \in ss : t <= s})
    BY <1>1, <2>1, FS_Subset
  <2>4. Rank(s) # 0
    BY <2>3, FS_EmptySet
  <2> QED  BY <2>2, <2>4
<1>3. ASSUME NEW s \in ss, NEW t \in ss, s < t  PROVE Rank(s) < Rank(t)
  <2>1. /\ {u \in ss : u <= s} \subseteq {u \in ss : u <= t}
        /\ {u \in ss : u <= s} # {u \in ss : u <= t}
    <3>1. t \in {u \in ss : u <= t} /\ t \notin {u \in ss : u <= s}
      BY <1>1, <1>3
    <3> QED  BY <1>1, <1>3, <3>1
  <2>2. IsFiniteSet({u \in ss : u <= t})
    BY Counted
  <2>3. Rank(s) <= Rank(t) /\ Rank(s) # Rank(t)
    BY <2>1, <2>2, FS_Subset
  <2> QED  BY <2>3, <1>2
<1>4. Surplus(ss) = {s \in ss : Rank(s) <= n - Limit + 1}
  BY DEF Surplus
<1> DEFINE kept == ss \ Surplus(ss)
           f == [s \in kept |-> Rank(s)]
<1>5. \A s \in kept : s \in ss /\ ~(Rank(s) <= n - Limit + 1)
  BY <1>4
<1>6. IsFiniteSet(T) /\ Cardinality(T) < Limit
  <2>1. CASE n - Limit + 2 > 0
    <3>1. T = n - Limit + 2 .. n
      BY <2>1
    <3>2. PICK a \in Int : a = n - Limit + 2
      BY <1>1
    <3>3. IsFiniteSet(a .. n) /\ Cardinality(a .. n) = IF a > n THEN 0 ELSE n - a + 1
      BY <1>1, FS_Interval
    <3>4. T = a .. n
      BY <3>1, <3>2
    <3> HIDE DEF T
    <3> QED  BY <1>1, <3>2, <3>3, <3>4
  <2>2. CASE ~(n - Limit + 2 > 0)
    <3>1. T = 1 .. n
      BY <2>2
    <3>2. IsFiniteSet(1 .. n) /\ Cardinality(1 .. n) = IF 1 > n THEN 0 ELSE n - 1 + 1
      BY <1>1, FS_Interval
    <3> QED  BY <1>1, <2>2, <3>1, <3>2
  <2> QED  BY <2>1, <2>2
<1>7. \A s \in kept : Rank(s) \in T
  <2> SUFFICES ASSUME NEW s \in kept  PROVE Rank(s) \in T
    OBVIOUS
  <2>1. Rank(s) \in Nat /\ Rank(s) <= n /\ Rank(s) >= 1
        /\ ~(Rank(s) <= n - Limit + 1)
    BY <1>2, <1>5
  <2> HIDE DEF Rank, n
  <2> QED  BY <2>1, <1>1
<1>8. \A s, t \in kept : Rank(s) = Rank(t) => s = t
  <2> SUFFICES ASSUME NEW s \in kept, NEW t \in kept, Rank(s) = Rank(t), s # t
               PROVE  FALSE
    OBVIOUS
  <2>1. s \in ss /\ t \in ss /\ s \in Nat /\ t \in Nat
    BY <1>1
  <2>2. s < t \/ t < s
    BY <2>1
  <2>3. Rank(s) \in Nat
    BY <1>2, <2>1
  <2> QED  BY <1>3, <2>1, <2>2, <2>3
<1>9. f \in Injection(kept, T)
  <2> HIDE DEF Rank, kept, T
  <2> QED  BY <1>7, <1>8 DEF Injection, IsInjective
<1>10. Cardinality(kept) <= Cardinality(T)
  <2> HIDE DEF f, kept, T
  <2> QED  BY <1>6, <1>9, FS_Injection
<1>11. Cardinality(kept) \in Nat /\ Cardinality(T) \in Nat
  <2>1. kept \in SUBSET Sessions
    OBVIOUS
  <2> QED  BY <2>1, <1>6, Counted, FS_CardinalityType
<1>12. Cardinality(kept) < Limit
  <2> HIDE DEF f, kept, T
  <2> QED  BY <1>1, <1>6, <1>10, <1>11
<1> QED  BY <1>4, <1>12

-----------------------------------------------------------------------------
(* How a request goes on                                                   *)

\* r is a login that has yet to create its session.
Arrives(r) == r.op = "login" /\ (r.phase \in {"list", "revoke"} \/ r.at = "insert")

\* A request that is in order, when rows are as given.
Sound(r, rows) == r \in Request /\ Formed(r) /\ Grounded(r, rows)

LEMMA IdleSound ==
  ASSUME NEW rows
  PROVE  Sound(Idle, rows) /\ ~Arrives(Idle)
BY DEF Sound, Formed, Grounded, Arrives, Idle, Request, Operations, Phase, Step,
       Status

\* The rest of a login: what it has left to revoke, then its session.
LEMMA NextSurplusSound ==
  ASSUME NEW rows, NEW r \in Request, r.op = "login",
         r.found \subseteq Existing(rows), r.todo \subseteq Existing(rows)
  PROVE  Sound(NextSurplus(r), rows) /\ Arrives(NextSurplus(r))
<1>1. CASE r.todo = {}
  <2> DEFINE q == [r EXCEPT !.phase = "create", !.at = "insert", !.sid = None]
  <2>1. NextSurplus(r) = q
    BY <1>1 DEF NextSurplus
  <2>2. /\ q \in Request /\ q.op = "login" /\ q.phase = "create"
        /\ q.at = "insert" /\ q.found = r.found /\ q.todo = r.todo
    BY DEF Request, Phase, Step
  <2> HIDE DEF q
  <2> QED  BY <2>1, <2>2 DEF Sound, Formed, Grounded, Arrives
<1>2. CASE r.todo # {}
  <2> DEFINE o == Oldest(r.todo)
             q == [r EXCEPT !.phase = "revoke", !.at = "deactivate",
                            !.sid = o, !.todo = @ \ {o}]
  <2>1. NextSurplus(r) = q
    BY <1>2 DEF NextSurplus
  <2>2. o \in r.todo /\ o \in Existing(rows) /\ o \in Sessions
    <3>1. r.todo \in SUBSET Sessions
      BY DEF Request
    <3> QED  BY <1>2, <3>1, OldestIn DEF Existing
  <2> HIDE DEF o
  <2>3. /\ q \in Request /\ q.op = "login" /\ q.phase = "revoke"
        /\ q.at = "deactivate" /\ q.found = r.found /\ q.todo = r.todo \ {o}
        /\ q.sid = o
    BY <2>2 DEF Request, Phase, Step
  <2> HIDE DEF q
  <2> QED  BY <2>1, <2>2, <2>3 DEF Sound, Formed, Grounded, Arrives
<1> QED  BY <1>1, <1>2

LEMMA AfterListSound ==
  ASSUME NEW rows, NEW r, Sound(r, rows), r.at \in {"getList", "setList"},
         NEW ss, ss \subseteq Existing(rows)
  PROVE  /\ Sound(AfterList(r, ss), rows)
         /\ Arrives(AfterList(r, ss)) => Arrives(r)
<1>1. r.phase = "list" /\ r.op \in {"login", "list", "refresh"}
  BY DEF Sound, Formed
<1>2. CASE r.op = "login"
  <2> DEFINE q == [r EXCEPT !.todo = Surplus(ss)]
  <2>1. AfterList(r, ss) = NextSurplus(q)
    BY <1>2 DEF AfterList
  <2>2. Surplus(ss) \subseteq ss /\ ss \subseteq Sessions
    BY DEF Surplus, Existing
  <2>3. q \in Request /\ q.op = "login" /\ q.found = r.found
        /\ q.todo \subseteq Existing(rows)
    BY <1>2, <2>2 DEF Sound, Request
  <2>4. q.found \subseteq Existing(rows)
    BY <2>3 DEF Sound, Grounded
  <2> HIDE DEF q
  <2> QED  BY <1>1, <1>2, <2>1, <2>3, <2>4, NextSurplusSound DEF Arrives
<1>3. CASE r.op = "refresh"
  <2> DEFINE q == [r EXCEPT !.at = "check", !.found = ss]
  <2>1. AfterList(r, ss) = q
    BY <1>3 DEF AfterList
  <2>2. /\ q \in Request /\ q.op = "refresh" /\ q.at = "check"
        /\ q.phase = "list" /\ q.found = ss /\ q.todo = r.todo /\ q.sid = r.sid
    BY <1>1, <1>3 DEF Sound, Request, Step, Existing
  <2> HIDE DEF q
  <2> QED  BY <1>3, <2>1, <2>2 DEF Sound, Formed, Grounded, Arrives
<1>4. CASE r.op = "list"
  BY <1>4, IdleSound DEF AfterList
<1> QED  BY <1>1, <1>2, <1>3, <1>4

LEMMA AfterEntitySound ==
  ASSUME NEW rows, NEW r, Sound(r, rows), r.at \in {"getCopy", "findRow", "setCopy"}
  PROVE  Sound(AfterEntity(r), rows) /\ ~Arrives(AfterEntity(r))
<1>1. r.phase \in {"own", "create", "rotate", "answer"}
  BY DEF Sound, Formed
<1>2. CASE r.phase = "own"
  <2> DEFINE q == [r EXCEPT !.phase = "revoke", !.at = "deactivate"]
  <2>1. AfterEntity(r) = q
    BY <1>2 DEF AfterEntity
  <2>2. /\ q \in Request /\ q.op = r.op /\ q.at = "deactivate"
        /\ q.phase = "revoke" /\ q.found = r.found /\ q.todo = r.todo
        /\ q.sid = r.sid
    BY DEF Sound, Request, Step, Phase
  <2>3. r.op = "revokeOne"
    BY <1>2 DEF Sound, Formed
  <2> HIDE DEF q
  <2> QED  BY <1>2, <2>1, <2>2, <2>3 DEF Sound, Formed, Grounded, Arrives
<1>3. CASE r.phase = "create"
  <2> DEFINE q == [r EXCEPT !.phase = "rotate", !.at = "getCopy"]
  <2>1. AfterEntity(r) = q
    BY <1>3 DEF AfterEntity
  <2>2. /\ q \in Request /\ q.op = r.op /\ q.at = "getCopy"
        /\ q.phase = "rotate" /\ q.found = r.found /\ q.todo = r.todo
        /\ q.sid = r.sid
    BY DEF Sound, Request, Step, Phase
  <2>3. r.op = "login"
    BY <1>3 DEF Sound, Formed
  <2> HIDE DEF q
  <2> QED  BY <1>3, <2>1, <2>2, <2>3 DEF Sound, Formed, Grounded, Arrives
<1>4. CASE r.phase = "rotate"
  <2> DEFINE q == [r EXCEPT !.at = "select"]
  <2>1. AfterEntity(r) = q
    BY <1>4 DEF AfterEntity
  <2>2. /\ q \in Request /\ q.op = r.op /\ q.at = "select"
        /\ q.phase = "rotate" /\ q.found = r.found /\ q.todo = r.todo
        /\ q.sid = r.sid
    BY <1>4 DEF Sound, Request, Step, Phase
  <2>3. r.op = "login"
    BY <1>4 DEF Sound, Formed
  <2> HIDE DEF q
  <2> QED  BY <1>4, <2>1, <2>2, <2>3 DEF Sound, Formed, Grounded, Arrives
<1>5. CASE r.phase = "answer"
  BY <1>5, IdleSound DEF AfterEntity
<1> QED  BY <1>1, <1>2, <1>3, <1>4, <1>5

LEMMA LeftToDropSound ==
  ASSUME NEW rows, NEW r, Sound(r, rows), r.phase = "all",
         NEW ss, ss \subseteq r.found
  PROVE  Sound(LeftToDrop(r, ss), rows) /\ ~Arrives(LeftToDrop(r, ss))
<1>1. CASE ss = {}
  BY <1>1, IdleSound DEF LeftToDrop
<1>2. CASE ss # {}
  <2> DEFINE q == [r EXCEPT !.at = "dropCopy", !.todo = ss]
  <2>1. LeftToDrop(r, ss) = q
    BY <1>2 DEF LeftToDrop
  <2>2. /\ q \in Request /\ q.op = r.op /\ q.at = "dropCopy"
        /\ q.phase = "all" /\ q.found = r.found /\ q.todo = ss
        /\ q.sid = r.sid
    BY DEF Sound, Request, Step, Phase
  <2>3. r.op = "logoutAll"
    BY DEF Sound, Formed
  <2> HIDE DEF q
  <2> QED  BY <1>2, <2>1, <2>2, <2>3 DEF Sound, Formed, Grounded, Arrives
<1> QED  BY <1>1, <1>2

LEMMA AfterDropSound ==
  ASSUME NEW rows, NEW r, Sound(r, rows), r.at = "dropList"
  PROVE  /\ Sound(AfterDrop(r), rows)
         /\ Arrives(AfterDrop(r)) => Arrives(r)
<1>1. r.phase \in {"revoke", "create", "rotate", "all"}
  BY DEF Sound, Formed
<1>2. CASE r.phase = "revoke" /\ r.op = "login"
  <2>1. AfterDrop(r) = NextSurplus(r)
    BY <1>2 DEF AfterDrop
  <2>2. r \in Request /\ r.found \subseteq Existing(rows)
        /\ r.todo \subseteq Existing(rows)
    BY DEF Sound, Grounded
  <2> QED  BY <1>2, <2>1, <2>2, NextSurplusSound DEF Arrives
<1>3. CASE r.phase = "revoke" /\ r.op # "login"
  BY <1>3, IdleSound DEF AfterDrop
<1>4. CASE r.phase = "create"
  <2> DEFINE q == [r EXCEPT !.at = "getCopy"]
  <2>1. AfterDrop(r) = q
    BY <1>4 DEF AfterDrop
  <2>2. /\ q \in Request /\ q.op = r.op /\ q.at = "getCopy"
        /\ q.phase = "create" /\ q.found = r.found /\ q.todo = r.todo
        /\ q.sid = r.sid
    BY <1>4 DEF Sound, Request, Step, Phase
  <2> HIDE DEF q
  <2> QED  BY <1>4, <2>1, <2>2 DEF Sound, Formed, Grounded, Arrives
<1>5. CASE r.phase = "rotate"
  <2> DEFINE q == [r EXCEPT !.phase = "answer", !.at = "getCopy"]
  <2>1. AfterDrop(r) = q
    BY <1>5 DEF AfterDrop
  <2>2. /\ q \in Request /\ q.op = r.op /\ q.at = "getCopy"
        /\ q.phase = "answer" /\ q.found = r.found /\ q.todo = r.todo
        /\ q.sid = r.sid
    BY <1>5 DEF Sound, Request, Step, Phase
  <2> HIDE DEF q
  <2> QED  BY <1>5, <2>1, <2>2 DEF Sound, Formed, Grounded, Arrives
<1>6. CASE r.phase = "all"
  <2>1. AfterDrop(r) = LeftToDrop(r, r.found)
    BY <1>6 DEF AfterDrop
  <2> QED  BY <1>6, <2>1, LeftToDropSound
<1> QED  BY <1>1, <1>2, <1>3, <1>4, <1>5, <1>6

-----------------------------------------------------------------------------
(* What a step must do                                                     *)

\* The type of what is neither a row nor a request.
RestOK ==
  /\ expired \subseteq Sessions
  /\ copy \in [Sessions -> {None, "active", "ended"}]
  /\ listed \in {None} \union SUBSET Sessions
  /\ marker \subseteq Sessions
  /\ held \subseteq Sessions
  /\ revoked \subseteq Sessions
  /\ refused \subseteq Sessions
  /\ faults \in Nat

LEMMA Soundness ==
  ASSUME IInv  PROVE RestOK /\ \A h \in Requests : Sound(request[h], row)
BY DEF IInv, TypeOK, RestOK, Sound

\* The requests that do not move stay in order while no row goes away.
LEMMA OthersSound ==
  ASSUME IInv, NEW h \in Requests, NEW r, Becomes(h, r), Sound(r, row'),
         Existing(row) \subseteq Existing(row')
  PROVE  /\ request' \in [Requests -> Request]
         /\ \A g \in Requests : Formed(request'[g]) /\ Grounded(request'[g], row')
<1>1. request' = [request EXCEPT ![h] = r] /\ request \in [Requests -> Request]
  BY DEF Becomes, IInv, TypeOK
<1>2. request' \in [Requests -> Request]
  BY <1>1 DEF Sound
<1>3. ASSUME NEW g \in Requests
      PROVE  Formed(request'[g]) /\ Grounded(request'[g], row')
  <2>1. CASE g = h
    BY <1>1, <2>1 DEF Sound
  <2>2. CASE g # h
    <3>1. request'[g] = request[g]
      BY <1>1, <2>2
    <3>2. Formed(request[g]) /\ Grounded(request[g], row)
      BY DEF IInv
    <3>3. Grounded(request[g], row')
      BY <3>2 DEF Grounded
    <3> QED  BY <3>1, <3>2, <3>3
  <2> QED  BY <2>1, <2>2
<1> QED  BY <1>2, <1>3

LEMMA RoomStays ==
  ASSUME IInv, Existing(row') = Existing(row), NEW h \in Requests, NEW r,
         Becomes(h, r), Arrives(r) => Arrives(request[h])
  PROVE  Room'
<1>1. Absent' = Absent
  BY DEF Absent, Existing
<1>2. request' = [request EXCEPT ![h] = r] /\ request \in [Requests -> Request]
  BY DEF Becomes, IInv, TypeOK
<1>3. Arriving' \subseteq Arriving
  BY <1>2 DEF Arriving, Arrives
<1>4. Arriving \subseteq Requests
  BY DEF Arriving
<1>5. /\ Cardinality(Arriving') <= Cardinality(Arriving)
      /\ Cardinality(Arriving') \in Nat /\ Cardinality(Arriving) \in Nat
  BY <1>3, <1>4, Bounds, FS_Subset, FS_CardinalityType
<1>6. Cardinality(Absent) \in Nat
  BY Counted DEF Absent
<1> QED  BY <1>1, <1>5, <1>6 DEF Room, IInv

\* A step of one request that creates no session.
LEMMA RequestStep ==
  ASSUME IInv, NEW h \in Requests, NEW r, Becomes(h, r), Sound(r, row'),
         Arrives(r) => Arrives(request[h]),
         row' \in [Sessions -> Status], Existing(row') = Existing(row),
         RestOK', Named'
  PROVE  IInv'
<1>1. /\ request' \in [Requests -> Request]
      /\ \A g \in Requests : Formed(request'[g]) /\ Grounded(request'[g], row')
  BY OthersSound
<1>2. Room'
  BY RoomStays
<1>3. TypeOK'
  BY <1>1 DEF TypeOK, RestOK
<1> QED  BY <1>1, <1>2, <1>3 DEF IInv

\* A step of one request that only goes on.
LEMMA MoveStep ==
  ASSUME IInv, NEW h \in Requests, NEW r, Becomes(h, r), Sound(r, row),
         Arrives(r) => Arrives(request[h]),
         UNCHANGED <<row, expired, cache, held, revoked>>,
         refused' \subseteq Sessions, faults' \in Nat
  PROVE  IInv'
<1>1. row' \in [Sessions -> Status] /\ RestOK'
  BY DEF IInv, TypeOK, RestOK, cache
<1>2. Named'
  BY DEF IInv, Named, cache
<1>3. row' = row
  OBVIOUS
<1> QED  BY <1>1, <1>2, <1>3, RequestStep

-----------------------------------------------------------------------------
(* Every step keeps the invariant                                          *)

LEMMA BeginSound ==
  ASSUME IInv, NEW h \in Requests, Begins(h)
  PROVE  IInv'
<1>0. Idle = [op |-> "none", phase |-> "none", at |-> "idle", sid |-> None,
              found |-> {}, todo |-> {}, entity |-> "absent", revive |-> FALSE]
  BY DEF Idle
<1>1. CASE ListMySessions(h)
  <2> DEFINE q == [Idle EXCEPT !.op = "list", !.phase = "list", !.at = "getList"]
  <2>1. Sound(q, row) /\ ~Arrives(q)
    BY <1>0 DEF Sound, Formed, Grounded, Arrives, Request, Operations, Phase, Step,
       Status
  <2>2. Becomes(h, q) /\ UNCHANGED <<row, expired, cache, held, revoked>>
        /\ refused' \subseteq Sessions /\ faults' \in Nat
    BY <1>1 DEF ListMySessions, history, IInv, TypeOK
  <2> HIDE DEF q
  <2> QED  BY <2>1, <2>2, MoveStep
<1>2. CASE RevokeAllUserSessions(h)
  <2> DEFINE q == [Idle EXCEPT !.op = "logoutAll", !.phase = "all", !.at = "findAll"]
  <2>1. Sound(q, row) /\ ~Arrives(q)
    BY <1>0 DEF Sound, Formed, Grounded, Arrives, Request, Operations, Phase, Step,
       Status
  <2>2. Becomes(h, q) /\ UNCHANGED <<row, expired, cache, held, revoked>>
        /\ refused' \subseteq Sessions /\ faults' \in Nat
    BY <1>2 DEF RevokeAllUserSessions, history, IInv, TypeOK
  <2> HIDE DEF q
  <2> QED  BY <2>1, <2>2, MoveStep
<1>3. ASSUME NEW s \in Sessions, Refresh(h, s)  PROVE IInv'
  <2> DEFINE q == [Idle EXCEPT !.op = "refresh", !.phase = "list",
                               !.at = "getList", !.sid = s]
  <2>1. Sound(q, row) /\ ~Arrives(q)
    BY <1>0 DEF Sound, Formed, Grounded, Arrives, Request, Operations, Phase, Step,
       Status
  <2>2. Becomes(h, q) /\ UNCHANGED <<row, expired, cache, held, revoked>>
        /\ refused' \subseteq Sessions /\ faults' \in Nat
    BY <1>3 DEF Refresh, history, IInv, TypeOK
  <2> HIDE DEF q
  <2> QED  BY <2>1, <2>2, MoveStep
<1>4. ASSUME NEW s \in Sessions, Logout(h, s)  PROVE IInv'
  <2> DEFINE q == [Idle EXCEPT !.op = "logout", !.phase = "revoke",
                               !.at = "deactivate", !.sid = s]
  <2>1. s \in Existing(row)
    BY <1>4 DEF Logout, IInv, Named
  <2>2. Sound(q, row) /\ ~Arrives(q)
    BY <1>0, <2>1 DEF Sound, Formed, Grounded, Arrives, Request, Operations, Phase,
       Step, Status
  <2>3. Becomes(h, q) /\ UNCHANGED <<row, expired, cache, held, revoked>>
        /\ refused' \subseteq Sessions /\ faults' \in Nat
    BY <1>4 DEF Logout, history, IInv, TypeOK
  <2> HIDE DEF q
  <2> QED  BY <2>2, <2>3, MoveStep
<1>5. ASSUME NEW s \in Sessions, RevokeSessionForUser(h, s)  PROVE IInv'
  <2> DEFINE q == [Idle EXCEPT !.op = "revokeOne", !.phase = "own",
                               !.at = "getCopy", !.sid = s]
  <2>1. s \in Existing(row)
    BY <1>5 DEF RevokeSessionForUser, Existing
  <2>2. Sound(q, row) /\ ~Arrives(q)
    BY <1>0, <2>1 DEF Sound, Formed, Grounded, Arrives, Request, Operations, Phase,
       Step, Status
  <2>3. Becomes(h, q) /\ UNCHANGED <<row, expired, cache, held, revoked>>
        /\ refused' \subseteq Sessions /\ faults' \in Nat
    BY <1>5 DEF RevokeSessionForUser, history, IInv, TypeOK
  <2> HIDE DEF q
  <2> QED  BY <2>2, <2>3, MoveStep
<1>6. CASE Login(h)
  <2> DEFINE q == [Idle EXCEPT !.op = "login", !.phase = "list", !.at = "getList"]
  <2>1. Sound(q, row)
    BY <1>0 DEF Sound, Formed, Grounded, Request, Operations, Phase, Step, Status
  <2>2. Becomes(h, q) /\ UNCHANGED <<row, expired, cache, history, faults>>
    BY <1>6 DEF Login
  <2> HIDE DEF q
  <2>3. /\ request' \in [Requests -> Request]
        /\ \A g \in Requests : Formed(request'[g]) /\ Grounded(request'[g], row')
    BY <2>1, <2>2, OthersSound
  <2>4. TypeOK' /\ Named'
    BY <2>2, <2>3 DEF TypeOK, IInv, Named, cache, history
  <2>5. Room'
    <3>1. Absent' = Absent /\ Cardinality(Arriving) < Cardinality(Absent)
      BY <1>6 DEF Login, Absent
    <3>2. Arriving' \subseteq Arriving \union {h} /\ Arriving \subseteq Requests
      BY <2>2 DEF Arriving, Becomes, IInv, TypeOK
    <3>3. IsFiniteSet(Arriving) /\ Cardinality(Arriving) \in Nat
      BY <3>2, Bounds, FS_Subset, FS_CardinalityType
    <3>4. /\ IsFiniteSet(Arriving \union {h})
          /\ Cardinality(Arriving \union {h}) \in Nat
          /\ Cardinality(Arriving \union {h}) <= Cardinality(Arriving) + 1
      <4>1. IsFiniteSet(Arriving \union {h})
            /\ Cardinality(Arriving \union {h})
                 = IF h \in Arriving THEN Cardinality(Arriving)
                                    ELSE Cardinality(Arriving) + 1
        BY <3>3, FS_AddElement
      <4> QED  BY <3>3, <4>1
    <3>5. Cardinality(Arriving') <= Cardinality(Arriving \union {h})
          /\ Cardinality(Arriving') \in Nat
      BY <3>2, <3>4, FS_Subset, FS_CardinalityType
    <3>6. Cardinality(Absent) \in Nat
      BY Counted DEF Absent
    <3> QED  BY <3>1, <3>3, <3>4, <3>5, <3>6 DEF Room
  <2> QED  BY <2>3, <2>4, <2>5 DEF IInv
<1> QED  BY <1>1, <1>2, <1>3, <1>4, <1>5, <1>6 DEF Begins

LEMMA ListSound ==
  ASSUME IInv, NEW h \in Requests,
         GetList(h) \/ FindActive(h) \/ SetList(h) \/ Check(h)
  PROVE  IInv'
<1> DEFINE r == request[h]
<1>0. Sound(r, row) /\ r \in Request /\ RestOK
  BY Soundness DEF Sound
<1>1. CASE GetList(h)
  <2>1. CASE listed = None
    <3> DEFINE q == [r EXCEPT !.at = "findActive"]
    <3>1. /\ r.at = "getList" /\ Becomes(h, q)
          /\ UNCHANGED <<row, expired, cache, history, faults>>
      BY <1>1, <2>1 DEF GetList
    <3>2. /\ q \in Request /\ q.op = r.op /\ q.at = "findActive"
          /\ q.phase = r.phase /\ q.found = r.found /\ q.todo = r.todo
          /\ q.sid = r.sid
      BY <1>0 DEF Request, Step
    <3> HIDE DEF q
    <3>3. Sound(q, row) /\ (Arrives(q) => Arrives(r))
      BY <1>0, <3>1, <3>2 DEF Sound, Formed, Grounded, Arrives
    <3> QED  BY <1>0, <3>1, <3>3, MoveStep DEF history, RestOK
  <2>2. CASE listed # None
    <3>1. /\ r.at = "getList" /\ Becomes(h, AfterList(r, listed))
          /\ UNCHANGED <<row, expired, cache, history, faults>>
      BY <1>1, <2>2 DEF GetList
    <3>2. listed \subseteq Existing(row)
      BY <2>2 DEF IInv, Named
    <3>3. Sound(AfterList(r, listed), row)
          /\ (Arrives(AfterList(r, listed)) => Arrives(r))
      BY <1>0, <3>1, <3>2, AfterListSound
    <3> QED  BY <1>0, <3>1, <3>3, MoveStep DEF history, RestOK
  <2> QED  BY <2>1, <2>2
<1>2. CASE FindActive(h)
  <2> DEFINE q == [r EXCEPT !.at = "setList", !.found = Active]
  <2>1. /\ r.at = "findActive" /\ Becomes(h, q)
        /\ UNCHANGED <<row, expired, cache, history, faults>>
    BY <1>2 DEF FindActive
  <2>2. /\ q \in Request /\ q.op = r.op /\ q.at = "setList"
        /\ q.phase = r.phase /\ q.found = Active /\ q.todo = r.todo
        /\ q.sid = r.sid
    BY <1>0 DEF Request, Step, Active
  <2>3. Active \subseteq Existing(row)
    BY DEF Active, Existing
  <2> HIDE DEF q
  <2>4. Sound(q, row) /\ (Arrives(q) => Arrives(r))
    BY <1>0, <2>1, <2>2, <2>3 DEF Sound, Formed, Grounded, Arrives
  <2> QED  BY <1>0, <2>1, <2>4, MoveStep DEF history, RestOK
<1>3. CASE SetList(h)
  <2> DEFINE q == [r EXCEPT !.found = {}]
  <2>1. /\ r.at = "setList" /\ Becomes(h, AfterList(q, r.found))
        /\ listed' = r.found
        /\ UNCHANGED <<row, expired, copy, marker, history, faults>>
    BY <1>3 DEF SetList
  <2>2. /\ q \in Request /\ q.op = r.op /\ q.at = "setList"
        /\ q.phase = r.phase /\ q.found = {} /\ q.todo = r.todo
        /\ q.sid = r.sid
    BY <1>0, <2>1 DEF Request, Step
  <2> HIDE DEF q
  <2>3. Sound(q, row) /\ (Arrives(q) => Arrives(r))
    BY <1>0, <2>1, <2>2 DEF Sound, Formed, Grounded, Arrives
  <2>4. r.found \subseteq Existing(row)
    BY <1>0 DEF Sound, Grounded
  <2>5. Sound(AfterList(q, r.found), row)
        /\ (Arrives(AfterList(q, r.found)) => Arrives(r))
    BY <2>2, <2>3, <2>4, AfterListSound
  <2>6. RestOK' /\ Named' /\ row' \in [Sessions -> Status] /\ row' = row
    BY <1>0, <2>1, <2>4 DEF RestOK, IInv, TypeOK, Named, history, Existing
  <2> QED  BY <2>1, <2>5, <2>6, RequestStep
<1>4. CASE Check(h)
  <2>1. /\ Becomes(h, Idle) /\ refused' \subseteq refused \union {r.sid}
        /\ r.sid \in Sessions
        /\ UNCHANGED <<row, expired, cache, held, revoked, faults>>
    BY <1>0, <1>4 DEF Check, Sound, Formed, Grounded
  <2>2. refused' \subseteq Sessions
    BY <1>0, <2>1 DEF RestOK
  <2> QED  BY <1>0, <2>1, <2>2, IdleSound, MoveStep DEF RestOK
<1> QED  BY <1>1, <1>2, <1>3, <1>4

LEMMA EntityStep ==
  ASSUME IInv, NEW h \in Requests, GetCopy(h) \/ FindRow(h) \/ SetCopy(h)
  PROVE  IInv'
<1> DEFINE r == request[h]
<1>0. Sound(r, row) /\ r \in Request /\ RestOK
  BY Soundness DEF Sound
<1>1. r.sid \in Existing(row) /\ r.sid \in Sessions
  <2>1. r.at \in {"getCopy", "findRow", "setCopy"}
    BY DEF GetCopy, FindRow, SetCopy
  <2> QED  BY <1>0, <2>1 DEF Sound, Formed, Grounded, Existing
<1>2. Answer(r) => held' \subseteq Existing(row) /\ held' \subseteq Sessions
  BY <1>1 DEF Answer, IInv, Named, Existing
<1>3. CASE GetCopy(h)
  <2>1. CASE copy[r.sid] = None
    <3> DEFINE q == [r EXCEPT !.at = "findRow"]
    <3>1. /\ r.at = "getCopy" /\ Becomes(h, q)
          /\ UNCHANGED <<row, expired, cache, held, revoked, refused, faults>>
      BY <1>3, <2>1 DEF GetCopy
    <3>2. /\ q \in Request /\ q.op = r.op /\ q.at = "findRow"
          /\ q.phase = r.phase /\ q.found = r.found /\ q.todo = r.todo
          /\ q.sid = r.sid
      BY <1>0 DEF Request, Step
    <3> HIDE DEF q
    <3>3. Sound(q, row) /\ (Arrives(q) => Arrives(r))
      BY <1>0, <3>1, <3>2 DEF Sound, Formed, Grounded, Arrives
    <3> QED  BY <1>0, <3>1, <3>3, MoveStep DEF RestOK
  <2>2. CASE copy[r.sid] # None
    <3> DEFINE q == [r EXCEPT !.entity = copy[r.sid]]
    <3>1. /\ r.at = "getCopy" /\ Becomes(h, AfterEntity(q)) /\ Answer(r)
          /\ UNCHANGED <<row, expired, cache, revoked, refused, faults>>
      BY <1>3, <2>2 DEF GetCopy
    <3>2. copy[r.sid] \in {"active", "ended"}
      BY <1>1, <2>2 DEF IInv, TypeOK
    <3>3. /\ q \in Request /\ q.op = r.op /\ q.at = "getCopy"
          /\ q.phase = r.phase /\ q.found = r.found /\ q.todo = r.todo
          /\ q.sid = r.sid
      BY <1>0, <3>1, <3>2 DEF Request, Status
    <3> HIDE DEF q
    <3>4. Sound(q, row)
      BY <1>0, <3>1, <3>3 DEF Sound, Formed, Grounded, Idle
    <3>5. Sound(AfterEntity(q), row) /\ ~Arrives(AfterEntity(q))
      BY <3>3, <3>4, AfterEntitySound
    <3>6. RestOK' /\ Named' /\ row' \in [Sessions -> Status] /\ row' = row
      BY <1>0, <1>2, <3>1 DEF RestOK, IInv, TypeOK, Named, cache
    <3> QED  BY <3>1, <3>5, <3>6, RequestStep
  <2> QED  BY <2>1, <2>2
<1>4. CASE FindRow(h)
  <2> DEFINE q == [r EXCEPT !.at = "setCopy", !.entity = row[r.sid]]
  <2>1. /\ r.at = "findRow" /\ Becomes(h, q)
        /\ UNCHANGED <<row, expired, cache, history, faults>>
    BY <1>4 DEF FindRow
  <2>2. row[r.sid] \in Status /\ row[r.sid] # "absent"
    BY <1>1 DEF Existing, IInv, TypeOK
  <2>3. /\ q \in Request /\ q.op = r.op /\ q.at = "setCopy"
        /\ q.phase = r.phase /\ q.found = r.found /\ q.todo = r.todo
        /\ q.sid = r.sid /\ q.entity = row[r.sid]
    BY <1>0, <2>2 DEF Request, Step
  <2> HIDE DEF q
  <2>4. Sound(q, row) /\ (Arrives(q) => Arrives(r))
    BY <1>0, <2>1, <2>2, <2>3 DEF Sound, Formed, Grounded, Arrives
  <2> QED  BY <1>0, <2>1, <2>4, MoveStep DEF RestOK, history
<1>5. CASE SetCopy(h)
  <2>1. /\ r.at = "setCopy" /\ Becomes(h, AfterEntity(r)) /\ Answer(r)
        /\ copy' = [copy EXCEPT ![r.sid] = r.entity]
        /\ UNCHANGED <<row, expired, listed, marker, revoked, refused, faults>>
    BY <1>5 DEF SetCopy
  <2>2. Sound(AfterEntity(r), row) /\ ~Arrives(AfterEntity(r))
    BY <1>0, <2>1, AfterEntitySound
  <2>3. r.entity \in {"active", "ended"}
    BY <1>0, <2>1 DEF Sound, Grounded, Request, Status
  <2>4. copy' \in [Sessions -> {None, "active", "ended"}]
        /\ \A s \in Sessions : s # r.sid => copy'[s] = copy[s]
    BY <1>0, <2>1, <2>3 DEF RestOK
  <2>5. RestOK' /\ row' \in [Sessions -> Status] /\ row' = row
    BY <1>0, <1>2, <2>1, <2>4 DEF RestOK, IInv, TypeOK
  <2>6. Named'
    BY <1>1, <1>2, <2>1, <2>4 DEF IInv, Named, Existing
  <2> QED  BY <2>1, <2>2, <2>5, <2>6, RequestStep
<1> QED  BY <1>3, <1>4, <1>5

LEMMA SaveStep ==
  ASSUME IInv, NEW h \in Requests, Select(h) \/ Update(h) \/ Unmark(h)
  PROVE  IInv'
<1> DEFINE r == request[h]
<1>0. Sound(r, row) /\ r \in Request /\ RestOK
  BY Soundness DEF Sound
<1>1. CASE Select(h)
  <2> DEFINE q == [r EXCEPT !.at = "update", !.revive = row[r.sid] # "active"]
  <2>1. /\ r.at = "select" /\ Becomes(h, q)
        /\ UNCHANGED <<row, expired, cache, history, faults>>
    BY <1>1 DEF Select
  <2>2. /\ q \in Request /\ q.op = r.op /\ q.at = "update"
        /\ q.phase = r.phase /\ q.found = r.found /\ q.todo = r.todo
        /\ q.sid = r.sid
    BY <1>0 DEF Request, Step
  <2> HIDE DEF q
  <2>3. Sound(q, row) /\ (Arrives(q) => Arrives(r))
    BY <1>0, <2>1, <2>2 DEF Sound, Formed, Grounded, Arrives
  <2> QED  BY <1>0, <2>1, <2>3, MoveStep DEF RestOK, history
<1>2. CASE Update(h)
  <2> DEFINE q == [r EXCEPT !.at = "unmark", !.revive = FALSE]
  <2>1. /\ r.at = "update" /\ Becomes(h, q)
        /\ row' = IF r.revive THEN [row EXCEPT ![r.sid] = "active"] ELSE row
        /\ UNCHANGED <<expired, cache, history, faults>>
    BY <1>2 DEF Update
  <2>2. /\ q \in Request /\ q.op = r.op /\ q.at = "unmark"
        /\ q.phase = r.phase /\ q.found = r.found /\ q.todo = r.todo
        /\ q.sid = r.sid
    BY <1>0 DEF Request, Step
  <2> HIDE DEF q
  <2>3. r.sid \in Existing(row)
    BY <1>0, <2>1 DEF Sound, Formed, Grounded
  <2>4. row' \in [Sessions -> Status] /\ Existing(row') = Existing(row)
    BY <2>1, <2>3 DEF IInv, TypeOK, Existing, Status
  <2>5. Sound(q, row') /\ (Arrives(q) => Arrives(r))
    BY <1>0, <2>1, <2>2, <2>4 DEF Sound, Formed, Grounded, Arrives
  <2>6. RestOK' /\ Named'
    BY <1>0, <2>1, <2>4 DEF RestOK, IInv, Named, cache, history, Existing
  <2> QED  BY <2>1, <2>4, <2>5, <2>6, RequestStep
<1>3. CASE Unmark(h)
  <2> DEFINE q == [r EXCEPT !.at = "dropCopy"]
  <2>1. /\ r.at = "unmark" /\ Becomes(h, q) /\ marker' = marker \ {r.sid}
        /\ UNCHANGED <<row, expired, copy, listed, history, faults>>
    BY <1>3 DEF Unmark
  <2>2. /\ q \in Request /\ q.op = r.op /\ q.at = "dropCopy"
        /\ q.phase = r.phase /\ q.found = r.found /\ q.todo = r.todo
        /\ q.sid = r.sid
    BY <1>0 DEF Request, Step
  <2> HIDE DEF q
  <2>3. Sound(q, row) /\ (Arrives(q) => Arrives(r))
    BY <1>0, <2>1, <2>2 DEF Sound, Formed, Grounded, Arrives
  <2>4. RestOK' /\ Named' /\ row' \in [Sessions -> Status] /\ row' = row
    BY <1>0, <2>1 DEF RestOK, IInv, TypeOK, Named, history
  <2> QED  BY <2>1, <2>3, <2>4, RequestStep
<1> QED  BY <1>1, <1>2, <1>3

\* A new session has the number of an absent row.
LEMMA InsertNumber ==
  ASSUME IInv, NEW h \in Requests, request[h].at = "insert"
  PROVE  Oldest({t \in Sessions : row[t] = "absent"}) \in Absent
<1>1. h \in Arriving
  BY Soundness DEF Sound, Formed, Arriving
<1>2. IsFiniteSet(Arriving) /\ Cardinality(Arriving) \in Nat
  <2>1. Arriving \in SUBSET Requests
    BY DEF Arriving
  <2> QED  BY <2>1, Bounds, FS_Subset, FS_CardinalityType
<1>3. Cardinality(Arriving) # 0
  BY <1>1, <1>2, FS_EmptySet
<1>4. Cardinality(Absent) \in Nat /\ Absent \in SUBSET Sessions
  BY Counted DEF Absent
<1>5. Cardinality(Absent) # 0
  BY <1>2, <1>3, <1>4 DEF IInv, Room
<1>6. Absent # {}
  BY <1>5, FS_EmptySet
<1>7. Oldest(Absent) \in Absent
  BY <1>4, <1>6, OldestIn
<1> QED  BY <1>7 DEF Absent

LEMMA InsertStep ==
  ASSUME IInv, NEW h \in Requests, Insert(h)
  PROVE  IInv'
<1> DEFINE r == request[h]
           s == Oldest({t \in Sessions : row[t] = "absent"})
           q == [r EXCEPT !.at = "dropCopy", !.sid = s]
<1>0. Sound(r, row) /\ r \in Request /\ RestOK
  BY Soundness DEF Sound
<1>1. /\ r.at = "insert" /\ row' = [row EXCEPT ![s] = "active"]
      /\ Becomes(h, q) /\ UNCHANGED <<expired, cache, history, faults>>
  BY DEF Insert
<1>2. s \in Absent /\ s \in Sessions
  BY <1>1, InsertNumber DEF Absent
<1> HIDE DEF s
<1>3. /\ q \in Request /\ q.op = r.op /\ q.at = "dropCopy"
      /\ q.phase = r.phase /\ q.found = r.found /\ q.todo = r.todo
      /\ q.sid = s
  BY <1>0, <1>2 DEF Request, Step
<1> HIDE DEF q
<1>4. row' \in [Sessions -> Status] /\ Existing(row') = Existing(row) \union {s}
      /\ Absent' = Absent \ {s}
  BY <1>1, <1>2 DEF IInv, TypeOK, Existing, Status, Absent
<1>5. r.phase = "create" /\ r.op = "login"
  BY <1>0, <1>1 DEF Sound, Formed
<1>6. Sound(q, row') /\ ~Arrives(q)
  BY <1>0, <1>1, <1>3, <1>4, <1>5 DEF Sound, Formed, Grounded, Arrives
<1>7. /\ request' \in [Requests -> Request]
      /\ \A g \in Requests : Formed(request'[g]) /\ Grounded(request'[g], row')
  BY <1>1, <1>4, <1>6, OthersSound
<1>8. TypeOK'
  BY <1>0, <1>1, <1>4, <1>7 DEF TypeOK, RestOK, cache, history
<1>9. Named'
  <2>1. \A t \in Sessions : row[t] # "absent" => row'[t] # "absent"
    BY <1>4 DEF Existing
  <2> QED  BY <1>1, <1>4, <2>1 DEF IInv, Named, cache, history
<1>10. Room'
  <2>1. Arriving' = Arriving \ {h} /\ h \in Arriving
    <3>1. request' = [request EXCEPT ![h] = q] /\ request \in [Requests -> Request]
      BY <1>1 DEF Becomes, IInv, TypeOK
    <3>2. ~(q.op = "login" /\ (q.phase \in {"list", "revoke"} \/ q.at = "insert"))
      BY <1>3, <1>5
    <3>3. \A g \in Requests \ {h} : request'[g] = request[g]
      BY <3>1
    <3>4. request'[h] = q
      BY <3>1
    <3> QED  BY <1>1, <1>5, <3>2, <3>3, <3>4 DEF Arriving
  <2>2. IsFiniteSet(Arriving) /\ IsFiniteSet(Absent)
    <3>1. Arriving \in SUBSET Requests
      BY DEF Arriving
    <3> QED  BY <3>1, Counted, Bounds, FS_Subset DEF Absent
  <2>3. Cardinality(Arriving') = Cardinality(Arriving) - 1
    BY <2>1, <2>2, FS_RemoveElement
  <2>4. Cardinality(Absent') = Cardinality(Absent) - 1
    BY <1>2, <1>4, <2>2, FS_RemoveElement
  <2>5. Cardinality(Arriving) \in Nat /\ Cardinality(Absent) \in Nat
    BY <2>2, FS_CardinalityType
  <2> QED  BY <2>3, <2>4, <2>5 DEF Room, IInv
<1> QED  BY <1>7, <1>8, <1>9, <1>10 DEF IInv

LEMMA RevokeStep ==
  ASSUME IInv, NEW h \in Requests,
         Deactivate(h) \/ FindAll(h) \/ DeactivateAll(h) \/ Mark(h)
  PROVE  IInv'
<1> DEFINE r == request[h]
<1>0. Sound(r, row) /\ r \in Request /\ RestOK
  BY Soundness DEF Sound
<1>1. CASE Deactivate(h)
  <2> DEFINE q == [r EXCEPT !.at = "mark"]
  <2>1. /\ r.at = "deactivate" /\ Becomes(h, q)
        /\ row' = [row EXCEPT ![r.sid] = "ended"]
        /\ UNCHANGED <<expired, cache, history, faults>>
    BY <1>1 DEF Deactivate
  <2>2. /\ q \in Request /\ q.op = r.op /\ q.at = "mark"
        /\ q.phase = r.phase /\ q.found = r.found /\ q.todo = r.todo
        /\ q.sid = r.sid
    BY <1>0 DEF Request, Step
  <2> HIDE DEF q
  <2>3. r.sid \in Existing(row)
    BY <1>0, <2>1 DEF Sound, Formed, Grounded
  <2>4. row' \in [Sessions -> Status] /\ Existing(row') = Existing(row)
    BY <2>1, <2>3 DEF IInv, TypeOK, Existing, Status
  <2>5. Sound(q, row') /\ (Arrives(q) => Arrives(r))
    BY <1>0, <2>1, <2>2, <2>4 DEF Sound, Formed, Grounded, Arrives
  <2>6. RestOK' /\ Named'
    BY <1>0, <2>1, <2>4 DEF RestOK, IInv, Named, cache, history, Existing
  <2> QED  BY <2>1, <2>4, <2>5, <2>6, RequestStep
<1>2. CASE FindAll(h)
  <2> DEFINE q == [r EXCEPT !.at = "deactivateAll", !.found = Active]
  <2>1. /\ r.at = "findAll" /\ Becomes(h, q)
        /\ UNCHANGED <<row, expired, cache, history, faults>>
    BY <1>2 DEF FindAll
  <2>2. /\ q \in Request /\ q.op = r.op /\ q.at = "deactivateAll"
        /\ q.phase = r.phase /\ q.found = Active /\ q.todo = r.todo
        /\ q.sid = r.sid
    BY <1>0 DEF Request, Step, Active
  <2>3. Active \subseteq Existing(row)
    BY DEF Active, Existing
  <2> HIDE DEF q
  <2>4. Sound(q, row) /\ (Arrives(q) => Arrives(r))
    BY <1>0, <2>1, <2>2, <2>3 DEF Sound, Formed, Grounded, Arrives
  <2> QED  BY <1>0, <2>1, <2>4, MoveStep DEF RestOK, history
<1>3. CASE DeactivateAll(h)
  <2> DEFINE q == [r EXCEPT !.at = IF r.found = {} THEN "dropList" ELSE "mark",
                            !.todo = r.found]
  <2>1. /\ r.at = "deactivateAll" /\ Becomes(h, q)
        /\ row' = [s \in Sessions |-> IF s \in Active THEN "ended" ELSE row[s]]
        /\ UNCHANGED <<expired, cache, history, faults>>
    BY <1>3 DEF DeactivateAll
  <2>2. /\ q \in Request /\ q.op = r.op /\ q.at \in {"dropList", "mark"}
        /\ q.phase = r.phase /\ q.found = r.found /\ q.todo = r.found
        /\ q.sid = r.sid
    BY <1>0 DEF Request, Step
  <2> HIDE DEF q
  <2>3. r.phase = "all" /\ r.op = "logoutAll"
    BY <1>0, <2>1 DEF Sound, Formed
  <2>4. row' \in [Sessions -> Status] /\ Existing(row') = Existing(row)
    BY <2>1 DEF IInv, TypeOK, Existing, Status, Active
  <2>5. Sound(q, row') /\ ~Arrives(q)
    BY <1>0, <2>1, <2>2, <2>3, <2>4 DEF Sound, Formed, Grounded, Arrives
  <2>6. RestOK' /\ Named'
    <3>1. \A s \in Sessions : row[s] # "absent" => row'[s] # "absent"
      BY <2>4 DEF Existing
    <3> QED  BY <1>0, <2>1, <2>4, <3>1 DEF RestOK, IInv, Named, cache, history
  <2> QED  BY <2>1, <2>4, <2>5, <2>6, RequestStep
<1>4. CASE Mark(h)
  <2>1. CASE r.phase = "revoke"
    <3> DEFINE q == [r EXCEPT !.at = "dropCopy"]
    <3>1. /\ r.at = "mark" /\ Becomes(h, q) /\ marker' = marker \union {r.sid}
          /\ UNCHANGED <<row, expired, copy, listed, history, faults>>
      BY <1>4, <2>1 DEF Mark
    <3>2. /\ q \in Request /\ q.op = r.op /\ q.at = "dropCopy"
          /\ q.phase = r.phase /\ q.found = r.found /\ q.todo = r.todo
          /\ q.sid = r.sid
      BY <1>0 DEF Request, Step
    <3> HIDE DEF q
    <3>3. r.sid \in Existing(row)
      BY <1>0, <2>1 DEF Sound, Grounded
    <3>4. Sound(q, row) /\ (Arrives(q) => Arrives(r))
      BY <1>0, <2>1, <3>1, <3>2 DEF Sound, Formed, Grounded, Arrives
    <3>5. RestOK' /\ Named' /\ row' \in [Sessions -> Status] /\ row' = row
      BY <1>0, <3>1, <3>3 DEF RestOK, IInv, TypeOK, Named, history, Existing
    <3> QED  BY <3>1, <3>4, <3>5, RequestStep
  <2>2. CASE r.phase = "all"
    <3>1. PICK s \in r.todo :
            /\ marker' = marker \union {s}
            /\ Becomes(h, IF r.todo = {s}
                            THEN [r EXCEPT !.at = "dropList", !.todo = r.found]
                            ELSE [r EXCEPT !.todo = @ \ {s}])
      BY <1>4, <2>2 DEF Mark
    <3>2. r.at = "mark" /\ UNCHANGED <<row, expired, copy, listed, history, faults>>
      BY <1>4 DEF Mark
    <3> DEFINE q == IF r.todo = {s}
                      THEN [r EXCEPT !.at = "dropList", !.todo = r.found]
                      ELSE [r EXCEPT !.todo = @ \ {s}]
    <3>3. /\ q \in Request /\ q.op = r.op /\ q.at \in {"dropList", "mark"}
          /\ q.phase = r.phase /\ q.found = r.found /\ q.todo \subseteq r.found
          /\ q.sid = r.sid
      BY <1>0, <2>2, <3>2 DEF Request, Step, Sound, Formed
    <3>4. Becomes(h, q)
      BY <3>1
    <3> HIDE DEF q
    <3>5. r.op = "logoutAll"
      BY <1>0, <2>2 DEF Sound, Formed
    <3>6. Sound(q, row) /\ ~Arrives(q)
      BY <1>0, <2>2, <3>3, <3>5 DEF Sound, Formed, Grounded, Arrives
    <3>7. s \in Sessions
      BY <1>0 DEF Request
    <3>8. RestOK' /\ Named' /\ row' \in [Sessions -> Status] /\ row' = row
      BY <1>0, <3>1, <3>2, <3>7 DEF RestOK, IInv, TypeOK, Named, history, Existing
    <3> QED  BY <3>4, <3>6, <3>8, RequestStep
  <2> QED  BY <1>4, <2>1, <2>2 DEF Mark
<1> QED  BY <1>1, <1>2, <1>3, <1>4

LEMMA DropCopyStep ==
  ASSUME IInv, NEW h \in Requests, DropCopy(h)
  PROVE  IInv'
<1> DEFINE r == request[h]
           s == IF r.phase = "all" THEN Newest(r.todo) ELSE r.sid
           q == IF r.phase = "all" THEN LeftToDrop(r, r.todo \ {s})
                                   ELSE [r EXCEPT !.at = "dropList"]
<1>0. Sound(r, row) /\ r \in Request /\ RestOK
  BY Soundness DEF Sound
<1>1. /\ r.at = "dropCopy" /\ copy' = [copy EXCEPT ![s] = None] /\ Becomes(h, q)
      /\ revoked' \subseteq revoked \union r.found
      /\ UNCHANGED <<row, expired, listed, marker, held, refused, faults>>
  BY DEF DropCopy
<1>2. Sound(q, row) /\ (Arrives(q) => Arrives(r))
  <2>1. CASE r.phase = "all"
    <3>1. r.todo \ {s} \subseteq r.found
      BY <1>0, <2>1 DEF Sound, Formed
    <3>2. q = LeftToDrop(r, r.todo \ {s})
      BY <2>1
    <3> HIDE DEF q, s
    <3> QED  BY <1>0, <2>1, <3>1, <3>2, LeftToDropSound
  <2>2. CASE r.phase # "all"
    <3>1. /\ q \in Request /\ q.op = r.op /\ q.at = "dropList"
          /\ q.phase = r.phase /\ q.found = r.found /\ q.todo = r.todo
          /\ q.sid = r.sid
      BY <1>0, <2>2 DEF Request, Step
    <3> HIDE DEF q, s
    <3> QED  BY <1>0, <1>1, <2>2, <3>1 DEF Sound, Formed, Grounded, Arrives
  <2> QED  BY <2>1, <2>2
<1> HIDE DEF q, s
<1>3. r.found \subseteq Existing(row)
  BY <1>0 DEF Sound, Grounded
<1>4. copy' \in [Sessions -> {None, "active", "ended"}]
      /\ \A t \in Sessions : copy'[t] \in {None, copy[t]}
  BY <1>0, <1>1 DEF RestOK
<1>5. RestOK' /\ row' \in [Sessions -> Status] /\ row' = row
  BY <1>0, <1>1, <1>3, <1>4 DEF RestOK, IInv, TypeOK, Existing
<1>6. Named'
  BY <1>1, <1>3, <1>4 DEF IInv, Named
<1> QED  BY <1>1, <1>2, <1>5, <1>6, RequestStep

LEMMA DropListStep ==
  ASSUME IInv, NEW h \in Requests, DropList(h)
  PROVE  IInv'
<1> DEFINE r == request[h]
<1>0. Sound(r, row) /\ r \in Request /\ RestOK
  BY Soundness DEF Sound
<1>1. /\ r.at = "dropList" /\ listed' = None /\ Becomes(h, AfterDrop(r))
      /\ revoked' = IF r.phase = "revoke" THEN revoked \union {r.sid} ELSE revoked
      /\ UNCHANGED <<row, expired, copy, marker, held, refused, faults>>
  BY DEF DropList
<1>2. Sound(AfterDrop(r), row) /\ (Arrives(AfterDrop(r)) => Arrives(r))
  BY <1>0, <1>1, AfterDropSound
<1>3. revoked' \subseteq Existing(row)
  BY <1>0, <1>1 DEF Sound, Grounded, IInv, Named
<1>4. RestOK' /\ Named' /\ row' \in [Sessions -> Status] /\ row' = row
  BY <1>0, <1>1, <1>3 DEF RestOK, IInv, TypeOK, Named, Existing
<1> QED  BY <1>1, <1>2, <1>4, RequestStep

LEMMA RaiseStep ==
  ASSUME IInv, NEW h \in Requests, Raise(h)
  PROVE  IInv'
<1>1. Becomes(h, Idle) /\ faults' = faults + 1 /\ UNCHANGED <<row, expired, cache, history>>
  BY DEF Raise
<1>2. refused' \subseteq Sessions /\ faults' \in Nat
  BY <1>1 DEF history, IInv, TypeOK
<1> QED  BY <1>1, <1>2, IdleSound, MoveStep DEF history

LEMMA CrashStep ==
  ASSUME IInv, Crash
  PROVE  IInv'
<1>1. request' = [h \in Requests |-> Idle] /\ faults' = faults + 1
      /\ UNCHANGED <<row, expired, cache, history>>
  BY DEF Crash
<1>2. \A h \in Requests : Sound(request'[h], row')
  BY <1>1, IdleSound
<1>3. TypeOK' /\ Named'
  BY <1>1, <1>2, IdleSound DEF IInv, TypeOK, Named, cache, history, Sound
<1>4. Room'
  <2>1. Arriving' = {}
    BY <1>1 DEF Arriving, Idle
  <2>2. Cardinality(Arriving') = 0
    BY <2>1, FS_EmptySet
  <2>3. Cardinality(Absent') \in Nat
    <3>1. Absent' = Absent
      BY <1>1 DEF Absent
    <3> QED  BY <3>1, Counted DEF Absent
  <2> QED  BY <2>2, <2>3 DEF Room
<1> QED  BY <1>2, <1>3, <1>4 DEF IInv, Sound

\* What time does to the entries of Redis.
LEMMA TimeStep ==
  ASSUME IInv,
         \/ \E s \in Sessions : SessionExpires(s) \/ EntryExpires(s)
         \/ ListExpires \/ TenMinutesPass
  PROVE  IInv'
<1>1. /\ UNCHANGED <<row, request, history, faults>>
      /\ expired' \subseteq Sessions
      /\ copy' \in [Sessions -> {None, "active", "ended"}]
      /\ \A s \in Sessions : copy'[s] \in {None, copy[s]}
      /\ listed' \in {None, listed}
      /\ marker' \subseteq marker
  <2>1. ASSUME NEW s \in Sessions, SessionExpires(s)
        PROVE  <1>1!1 /\ <1>1!2 /\ <1>1!3 /\ <1>1!4 /\ <1>1!5 /\ <1>1!6
    BY <2>1 DEF SessionExpires, IInv, TypeOK, cache
  <2>2. ASSUME NEW s \in Sessions, EntryExpires(s)
        PROVE  <1>1!1 /\ <1>1!2 /\ <1>1!3 /\ <1>1!4 /\ <1>1!5 /\ <1>1!6
    BY <2>2 DEF EntryExpires, IInv, TypeOK
  <2>3. CASE ListExpires
    BY <2>3 DEF ListExpires, IInv, TypeOK
  <2>4. CASE TenMinutesPass
    BY <2>4 DEF TenMinutesPass, IInv, TypeOK
  <2> QED  BY <2>1, <2>2, <2>3, <2>4
<1>2. TypeOK'
  BY <1>1 DEF IInv, TypeOK, history
<1>3. Named'
  BY <1>1 DEF IInv, Named, history
<1>4. Room'
  BY <1>1 DEF IInv, Room, Arriving, Absent
<1>5. \A h \in Requests : Formed(request'[h]) /\ Grounded(request'[h], row')
  BY <1>1 DEF IInv
<1> QED  BY <1>2, <1>3, <1>4, <1>5 DEF IInv

LEMMA RestStep ==
  ASSUME IInv, UNCHANGED vars
  PROVE  IInv'
<1>1. TypeOK'
  BY DEF vars, cache, history, IInv, TypeOK
<1>2. Named' /\ Room'
  BY DEF vars, cache, history, IInv, Named, Room, Arriving, Absent
<1>3. \A h \in Requests : Formed(request'[h]) /\ Grounded(request'[h], row')
  BY DEF vars, IInv
<1> QED  BY <1>1, <1>2, <1>3 DEF IInv

LEMMA InitIInv == Init => IInv
<1> SUFFICES ASSUME Init  PROVE IInv
  OBVIOUS
<1>1. \A h \in Requests : Sound(request[h], row)
  BY IdleSound DEF Init
<1>2. TypeOK
  BY <1>1 DEF Init, TypeOK, Sound, Status
<1>3. Named
  BY DEF Init, Named
<1>4. Room
  <2>1. Arriving = {}
    BY DEF Init, Arriving, Idle
  <2>2. Cardinality(Arriving) = 0 /\ Cardinality(Absent) \in Nat
    BY <2>1, Counted, FS_EmptySet DEF Absent
  <2> QED  BY <2>2 DEF Room
<1> QED  BY <1>1, <1>2, <1>3, <1>4 DEF IInv, Sound

LEMMA NextIInv == IInv /\ [Next]_vars => IInv'
<1> SUFFICES ASSUME IInv, [Next]_vars  PROVE IInv'
  OBVIOUS
<1>1. ASSUME NEW h \in Requests, Begins(h) \/ Proceeds(h) \/ Raise(h)
      PROVE  IInv'
  BY <1>1, BeginSound, ListSound, EntityStep, SaveStep, InsertStep, RevokeStep,
     DropCopyStep, DropListStep, RaiseStep DEF Proceeds
<1> QED  BY <1>1, TimeStep, CrashStep, RestStep DEF Next

\* However requests overlap and fail, the state keeps its type: every session
\* a request or a cache names has a row, and a login that comes to its insert
\* finds a number for the session (Room).
THEOREM SessionsTypeCorrect == Spec => []TypeOK
<1>1. IInv => TypeOK
  BY DEF IInv
<1> QED  BY <1>1, InitIInv, NextIInv, PTL DEF Spec

-----------------------------------------------------------------------------
(* Beside lists and refreshes                                              *)

Writes(r) == r.op \notin Readers \union {"none"}

LEMMA WhoWrites ==
  ASSUME IInv, NEW h \in Requests
  PROVE  h \in Writing <=> Writes(request[h])
<1>1. request[h].op = "none" => request[h] = Idle
  BY DEF IInv, Formed
<1>2. Idle.op = "none"
  BY DEF Idle
<1> QED  BY <1>1, <1>2 DEF Writing, InFlight, Writes, Readers

\* Lists and refreshes claim nothing.
LEMMA ReaderInformed ==
  ASSUME NEW r, Formed(r), ~Writes(r), NEW rows, NEW gone
  PROVE  Informed(r, rows, gone)
<1>1. r.phase \notin {"own", "revoke", "create", "rotate", "answer", "all"}
  BY DEF Formed, Writes, Readers
<1>2. r.at \notin {"update", "deactivateAll"}
  BY <1>1 DEF Formed
<1> QED  BY <1>1, <1>2 DEF Informed

LEMMA IdleInformed ==
  ASSUME NEW rows, NEW gone  PROVE Informed(Idle, rows, gone)
BY DEF Informed, Idle

\* A request that only begins, lists, or has yet to revoke claims nothing.
LEMMA EarlyInformed ==
  ASSUME NEW r, NEW rows, NEW gone,
         \/ r.phase \in {"none", "list", "own"}
              /\ r.at \notin {"update", "deactivateAll"}
         \/ r.phase = "revoke" /\ r.at = "deactivate"
         \/ r.phase = "create" /\ r.at = "insert"
         \/ r.phase = "all" /\ r.at = "findAll"
  PROVE  Informed(r, rows, gone)
BY DEF Informed

LEMMA NextSurplusInformed ==
  ASSUME NEW r \in Request, NEW rows, NEW gone
  PROVE  Informed(NextSurplus(r), rows, gone)
<1>1. CASE r.todo = {}
  <2>1. NextSurplus(r).phase = "create" /\ NextSurplus(r).at = "insert"
    BY <1>1 DEF NextSurplus, Request
  <2> QED  BY <2>1, EarlyInformed
<1>2. CASE r.todo # {}
  <2>1. NextSurplus(r).phase = "revoke" /\ NextSurplus(r).at = "deactivate"
    BY <1>2 DEF NextSurplus, Request
  <2> QED  BY <2>1, EarlyInformed
<1> QED  BY <1>1, <1>2

LEMMA AfterListInformed ==
  ASSUME NEW r \in Request, r.phase = "list", r.op \in {"login", "list", "refresh"},
         NEW ss \in SUBSET Sessions, NEW rows, NEW gone
  PROVE  Informed(AfterList(r, ss), rows, gone)
<1>1. CASE r.op = "login"
  <2>1. [r EXCEPT !.todo = Surplus(ss)] \in Request
    BY DEF Request, Surplus
  <2>2. AfterList(r, ss) = NextSurplus([r EXCEPT !.todo = Surplus(ss)])
    BY <1>1 DEF AfterList
  <2> QED  BY <2>1, <2>2, NextSurplusInformed
<1>2. CASE r.op = "refresh"
  <2>1. AfterList(r, ss).phase = "list" /\ AfterList(r, ss).at = "check"
    BY <1>2 DEF AfterList, Request
  <2> QED  BY <2>1, EarlyInformed
<1>3. CASE r.op = "list"
  BY <1>3, IdleInformed DEF AfterList
<1> QED  BY <1>1, <1>2, <1>3

LEMMA AfterEntityInformed ==
  ASSUME NEW r \in Request, NEW rows, NEW gone, Informed(r, rows, gone),
         r.phase \in {"own", "create", "rotate", "answer"}, r.at # "insert"
  PROVE  Informed(AfterEntity(r), rows, gone)
<1>1. CASE r.phase = "own"
  <2>1. AfterEntity(r).phase = "revoke" /\ AfterEntity(r).at = "deactivate"
    BY <1>1 DEF AfterEntity, Request
  <2> QED  BY <2>1, EarlyInformed
<1>2. CASE r.phase \in {"create", "rotate"}
  <2>1. /\ AfterEntity(r).phase = "rotate"
        /\ AfterEntity(r).at \in {"getCopy", "select"}
        /\ AfterEntity(r).sid = r.sid
    BY <1>2 DEF AfterEntity, Request
  <2> QED  BY <1>2, <2>1 DEF Informed
<1>3. CASE r.phase = "answer"
  BY <1>3, IdleInformed DEF AfterEntity
<1> QED  BY <1>1, <1>2, <1>3

LEMMA LeftToDropInformed ==
  ASSUME NEW r \in Request, NEW rows, NEW gone, Informed(r, rows, gone),
         r.phase = "all", r.at \in {"dropCopy", "dropList"}, NEW ss
  PROVE  Informed(LeftToDrop(r, ss), rows, gone)
<1>1. CASE ss = {}
  BY <1>1, IdleInformed DEF LeftToDrop
<1>2. CASE ss # {}
  <2>1. /\ LeftToDrop(r, ss).phase = "all" /\ LeftToDrop(r, ss).at = "dropCopy"
        /\ LeftToDrop(r, ss).found = r.found
    BY <1>2 DEF LeftToDrop, Request
  <2> QED  BY <2>1 DEF Informed
<1> QED  BY <1>1, <1>2

LEMMA AfterDropInformed ==
  ASSUME NEW r \in Request, NEW rows, NEW gone, Informed(r, rows, gone),
         r.phase \in {"revoke", "create", "rotate", "all"}, r.at = "dropList"
  PROVE  Informed(AfterDrop(r), rows, gone)
<1>1. CASE r.phase = "revoke" /\ r.op = "login"
  BY <1>1, NextSurplusInformed DEF AfterDrop
<1>2. CASE r.phase = "revoke" /\ r.op # "login"
  BY <1>2, IdleInformed DEF AfterDrop
<1>3. CASE r.phase \in {"create", "rotate"}
  <2>1. /\ AfterDrop(r).phase \in {"create", "answer"}
        /\ AfterDrop(r).at = "getCopy" /\ AfterDrop(r).sid = r.sid
    BY <1>3 DEF AfterDrop, Request
  <2> QED  BY <1>3, <2>1 DEF Informed
<1>4. CASE r.phase = "all"
  BY <1>4, LeftToDropInformed DEF AfterDrop
<1> QED  BY <1>1, <1>2, <1>3, <1>4

\* The request that moves is the one that writes: the others claim nothing.
LEMMA WriterStep ==
  ASSUME IInv, ReadersInv, OneWriter', NEW h \in Requests, Writes(request[h]),
         NEW r, Becomes(h, r), Informed(r, row', Gone'),
         RevokedStaysRevoked', RevokedMarked'
  PROVE  ReadersInv'
<1>1. ASSUME NEW g \in Requests  PROVE Informed(request'[g], row', Gone')
  <2>1. CASE g = h
    BY <2>1 DEF Becomes, IInv, TypeOK
  <2>2. CASE g # h
    <3>1. request'[g] = request[g]
      BY <2>2 DEF Becomes, IInv, TypeOK
    <3>2. ~Writes(request[g])
      BY <2>2, WhoWrites DEF ReadersInv, OneWriter
    <3> QED  BY <3>1, <3>2, ReaderInformed DEF IInv
  <2> QED  BY <2>1, <2>2
<1> QED  BY <1>1 DEF ReadersInv

\* A step that writes no row and no marker.
LEMMA CalmStep ==
  ASSUME IInv, ReadersInv, OneWriter', NEW h \in Requests,
         NEW r, Becomes(h, r), Informed(r, row, Gone),
         UNCHANGED <<row, expired, marker, revoked>>
  PROVE  ReadersInv'
<1>1. Gone' = Gone
  BY DEF Gone
<1>2. ASSUME NEW g \in Requests  PROVE Informed(request'[g], row', Gone')
  <2>1. request'[g] \in {r, request[g]}
    BY DEF Becomes, IInv, TypeOK
  <2> QED  BY <1>1, <2>1 DEF ReadersInv
<1>3. RevokedStaysRevoked' /\ RevokedMarked'
  BY <1>1 DEF ReadersInv, RevokedStaysRevoked, RevokedMarked
<1> QED  BY <1>2, <1>3 DEF ReadersInv

LEMMA BeginReaders ==
  ASSUME IInv, ReadersInv, OneWriter', NEW h \in Requests, Begins(h)
  PROVE  ReadersInv'
<1> DEFINE Early(r) == \/ r.phase = "list" /\ r.at = "getList"
                       \/ r.phase = "own" /\ r.at = "getCopy"
                       \/ r.phase = "revoke" /\ r.at = "deactivate"
                       \/ r.phase = "all" /\ r.at = "findAll"
<1>1. \E r : Becomes(h, r) /\ Early(r)
  <2>1. CASE ListMySessions(h)
    <3> DEFINE q == [Idle EXCEPT !.op = "list", !.phase = "list", !.at = "getList"]
    <3>1. Becomes(h, q)
      BY <2>1 DEF ListMySessions
    <3>2. q.phase = "list" /\ q.at = "getList"
      BY DEF Idle
    <3> HIDE DEF q
    <3> QED  BY <3>1, <3>2
  <2>2. CASE RevokeAllUserSessions(h)
    <3> DEFINE q == [Idle EXCEPT !.op = "logoutAll", !.phase = "all", !.at = "findAll"]
    <3>1. Becomes(h, q)
      BY <2>2 DEF RevokeAllUserSessions
    <3>2. q.phase = "all" /\ q.at = "findAll"
      BY DEF Idle
    <3> HIDE DEF q
    <3> QED  BY <3>1, <3>2
  <2>3. CASE Login(h)
    <3> DEFINE q == [Idle EXCEPT !.op = "login", !.phase = "list", !.at = "getList"]
    <3>1. Becomes(h, q)
      BY <2>3 DEF Login
    <3>2. q.phase = "list" /\ q.at = "getList"
      BY DEF Idle
    <3> HIDE DEF q
    <3> QED  BY <3>1, <3>2
  <2>4. ASSUME NEW s \in Sessions, Refresh(h, s)  PROVE \E r : Becomes(h, r) /\ Early(r)
    <3> DEFINE q == [Idle EXCEPT !.op = "refresh", !.phase = "list", !.at = "getList", !.sid = s]
    <3>1. Becomes(h, q)
      BY <2>4 DEF Refresh
    <3>2. q.phase = "list" /\ q.at = "getList"
      BY DEF Idle
    <3> HIDE DEF q
    <3> QED  BY <3>1, <3>2
  <2>5. ASSUME NEW s \in Sessions, Logout(h, s)  PROVE \E r : Becomes(h, r) /\ Early(r)
    <3> DEFINE q == [Idle EXCEPT !.op = "logout", !.phase = "revoke", !.at = "deactivate", !.sid = s]
    <3>1. Becomes(h, q)
      BY <2>5 DEF Logout
    <3>2. q.phase = "revoke" /\ q.at = "deactivate"
      BY DEF Idle
    <3> HIDE DEF q
    <3> QED  BY <3>1, <3>2
  <2>6. ASSUME NEW s \in Sessions, RevokeSessionForUser(h, s)  PROVE \E r : Becomes(h, r) /\ Early(r)
    <3> DEFINE q == [Idle EXCEPT !.op = "revokeOne", !.phase = "own", !.at = "getCopy", !.sid = s]
    <3>1. Becomes(h, q)
      BY <2>6 DEF RevokeSessionForUser
    <3>2. q.phase = "own" /\ q.at = "getCopy"
      BY DEF Idle
    <3> HIDE DEF q
    <3> QED  BY <3>1, <3>2
  <2> QED  BY <2>1, <2>2, <2>3, <2>4, <2>5, <2>6 DEF Begins
<1>2. UNCHANGED <<row, expired, marker, revoked>>
  BY DEF Begins, Login, ListMySessions, Refresh, Logout, RevokeSessionForUser,
     RevokeAllUserSessions, cache, history
<1>3. \A r : Early(r) => Informed(r, row, Gone)
  BY EarlyInformed
<1> HIDE DEF Early
<1> QED  BY <1>1, <1>2, <1>3, CalmStep

LEMMA ListReaders ==
  ASSUME IInv, ReadersInv, OneWriter', NEW h \in Requests,
         GetList(h) \/ FindActive(h) \/ SetList(h) \/ Check(h)
  PROVE  ReadersInv'
<1> DEFINE r == request[h]
<1>0. Sound(r, row) /\ r \in Request /\ RestOK
  BY Soundness DEF Sound
<1>1. r.phase = "list" /\ r.op \in {"login", "list", "refresh"}
  BY <1>0 DEF GetList, FindActive, SetList, Check, Sound, Formed
<1>2. UNCHANGED <<row, expired, marker, revoked>>
  BY DEF GetList, FindActive, SetList, Check, cache, history
<1>3. CASE GetList(h)
  <2>1. CASE listed = None
    <3> DEFINE q == [r EXCEPT !.at = "findActive"]
    <3>1. Becomes(h, q) /\ q.phase = "list" /\ q.at = "findActive"
      BY <1>0, <1>1, <1>3, <2>1 DEF GetList, Request
    <3> HIDE DEF q
    <3> QED  BY <1>2, <3>1, EarlyInformed, CalmStep
  <2>2. CASE listed # None
    <3>1. Becomes(h, AfterList(r, listed)) /\ listed \in SUBSET Sessions
      BY <1>0, <1>3, <2>2 DEF GetList, RestOK
    <3> QED  BY <1>0, <1>1, <1>2, <3>1, AfterListInformed, CalmStep
  <2> QED  BY <2>1, <2>2
<1>4. CASE FindActive(h)
  <2> DEFINE q == [r EXCEPT !.at = "setList", !.found = Active]
  <2>1. Becomes(h, q) /\ q.phase = "list" /\ q.at = "setList"
    BY <1>0, <1>1, <1>4 DEF FindActive, Request
  <2> HIDE DEF q
  <2> QED  BY <1>2, <2>1, EarlyInformed, CalmStep
<1>5. CASE SetList(h)
  <2> DEFINE q == [r EXCEPT !.found = {}]
  <2>1. /\ Becomes(h, AfterList(q, r.found)) /\ q \in Request
        /\ q.phase = "list" /\ q.op = r.op /\ r.found \in SUBSET Sessions
    BY <1>0, <1>1, <1>5 DEF SetList, Request
  <2> HIDE DEF q
  <2> QED  BY <1>1, <1>2, <2>1, AfterListInformed, CalmStep
<1>6. CASE Check(h)
  BY <1>2, <1>6, IdleInformed, CalmStep DEF Check
<1> QED  BY <1>3, <1>4, <1>5, <1>6

LEMMA EntityReaders ==
  ASSUME IInv, ReadersInv, OneWriter', NEW h \in Requests,
         GetCopy(h) \/ FindRow(h) \/ SetCopy(h)
  PROVE  ReadersInv'
<1> DEFINE r == request[h]
<1>0. Sound(r, row) /\ r \in Request /\ Informed(r, row, Gone)
  BY Soundness DEF Sound, ReadersInv
<1>1. r.phase \in {"own", "create", "rotate", "answer"}
      /\ r.at \in {"getCopy", "findRow", "setCopy"}
  BY <1>0 DEF GetCopy, FindRow, SetCopy, Sound, Formed
<1>2. UNCHANGED <<row, expired, marker, revoked>>
  BY DEF GetCopy, FindRow, SetCopy, cache, history
<1>3. r.sid \in Sessions
  BY <1>0, <1>1 DEF Sound, Formed, Grounded, Existing
<1>4. CASE GetCopy(h) /\ copy[r.sid] = None
  <2> DEFINE q == [r EXCEPT !.at = "findRow"]
  <2>1. Becomes(h, q) /\ q.phase = r.phase /\ q.at = "findRow" /\ q.sid = r.sid
    BY <1>0, <1>4 DEF GetCopy, Request
  <2> HIDE DEF q
  <2>2. Informed(q, row, Gone)
    BY <1>0, <1>1, <2>1 DEF Informed
  <2> QED  BY <1>2, <2>1, <2>2, CalmStep
<1>5. CASE GetCopy(h) /\ copy[r.sid] # None
  <2> DEFINE q == [r EXCEPT !.entity = copy[r.sid]]
  <2>1. /\ Becomes(h, AfterEntity(q)) /\ q \in Request /\ q.phase = r.phase
        /\ q.at = r.at /\ q.sid = r.sid
    <3>1. copy[r.sid] \in Status
      BY <1>3, <1>5 DEF IInv, TypeOK, Status
    <3> QED  BY <1>0, <1>5, <3>1 DEF GetCopy, Request
  <2> HIDE DEF q
  <2>2. Informed(q, row, Gone)
    BY <1>0, <1>1, <2>1 DEF Informed
  <2> QED  BY <1>1, <1>2, <2>1, <2>2, AfterEntityInformed, CalmStep
<1>6. CASE FindRow(h)
  <2> DEFINE q == [r EXCEPT !.at = "setCopy", !.entity = row[r.sid]]
  <2>1. Becomes(h, q) /\ q.phase = r.phase /\ q.at = "setCopy" /\ q.sid = r.sid
    BY <1>0, <1>6 DEF FindRow, Request
  <2> HIDE DEF q
  <2>2. Informed(q, row, Gone)
    BY <1>0, <1>1, <2>1 DEF Informed
  <2> QED  BY <1>2, <2>1, <2>2, CalmStep
<1>7. CASE SetCopy(h)
  BY <1>0, <1>1, <1>2, <1>7, AfterEntityInformed, CalmStep DEF SetCopy
<1> QED  BY <1>4, <1>5, <1>6, <1>7

LEMMA SaveReaders ==
  ASSUME IInv, ReadersInv, OneWriter', NEW h \in Requests,
         Insert(h) \/ Select(h) \/ Update(h) \/ Unmark(h)
  PROVE  ReadersInv'
<1> DEFINE r == request[h]
<1>0. Sound(r, row) /\ r \in Request /\ Informed(r, row, Gone)
  BY Soundness DEF Sound, ReadersInv
<1>1. Writes(r) /\ r.phase \in {"create", "rotate"}
  BY <1>0 DEF Insert, Select, Update, Unmark, Sound, Formed, Writes, Readers
<1>2. CASE Insert(h)
  <2> DEFINE s == Oldest({t \in Sessions : row[t] = "absent"})
             q == [r EXCEPT !.at = "dropCopy", !.sid = s]
  <2>1. /\ r.at = "insert" /\ row' = [row EXCEPT ![s] = "active"]
        /\ Becomes(h, q) /\ UNCHANGED <<expired, cache, history, faults>>
    BY <1>2 DEF Insert
  <2>2. s \in Absent
    BY <2>1, InsertNumber
  <2> HIDE DEF s
  <2>3. q.phase = "create" /\ q.at = "dropCopy" /\ q.sid = s
    BY <1>0, <2>1 DEF Request, Sound, Formed
  <2> HIDE DEF q
  <2>4. row'[s] = "active" /\ \A t \in Sessions : t # s => row'[t] = row[t]
    BY <2>1, <2>2 DEF Absent, IInv, TypeOK
  <2>5. Informed(q, row', Gone')
    BY <2>3, <2>4 DEF Informed
  <2>6. RevokedStaysRevoked' /\ RevokedMarked'
    <3>1. revoked \subseteq Sessions /\ s \notin revoked
      BY <2>2 DEF Absent, IInv, Named, Existing
    <3> QED  BY <2>1, <2>4, <3>1
             DEF ReadersInv, RevokedStaysRevoked, RevokedMarked, Gone, cache, history
  <2> QED  BY <1>1, <2>1, <2>5, <2>6, WriterStep
<1>3. CASE Select(h)
  <2> DEFINE q == [r EXCEPT !.at = "update", !.revive = row[r.sid] # "active"]
  <2>1. Becomes(h, q) /\ UNCHANGED <<row, expired, marker, revoked>>
        /\ r.at = "select"
    BY <1>3 DEF Select, cache, history
  <2>2. r.phase = "rotate" /\ row[r.sid] = "active"
    BY <1>0, <2>1 DEF Sound, Formed, Informed
  <2>3. q.phase = "rotate" /\ q.at = "update" /\ q.sid = r.sid /\ ~q.revive
    BY <1>0, <2>2 DEF Request
  <2> HIDE DEF q
  <2>4. Informed(q, row, Gone)
    BY <2>2, <2>3 DEF Informed
  <2> QED  BY <2>1, <2>4, CalmStep
<1>4. CASE Update(h)
  <2> DEFINE q == [r EXCEPT !.at = "unmark", !.revive = FALSE]
  <2>1. Becomes(h, q) /\ r.at = "update"
        /\ row' = (IF r.revive THEN [row EXCEPT ![r.sid] = "active"] ELSE row)
        /\ UNCHANGED <<expired, marker, revoked>>
    BY <1>4 DEF Update, cache, history
  <2>2. r.phase = "rotate" /\ row[r.sid] = "active" /\ ~r.revive
    BY <1>0, <2>1 DEF Sound, Formed, Informed
  <2>3. q.phase = "rotate" /\ q.at = "unmark" /\ q.sid = r.sid
    BY <1>0, <2>2 DEF Request
  <2> HIDE DEF q
  <2>4. Informed(q, row, Gone)
    BY <2>2, <2>3 DEF Informed
  <2>5. UNCHANGED row
    BY <2>1, <2>2
  <2> QED  BY <2>1, <2>4, <2>5, CalmStep
<1>5. CASE Unmark(h)
  <2> DEFINE q == [r EXCEPT !.at = "dropCopy"]
  <2>1. Becomes(h, q) /\ r.at = "unmark" /\ marker' = marker \ {r.sid}
        /\ UNCHANGED <<row, expired, revoked>>
    BY <1>5 DEF Unmark, history
  <2>2. r.phase = "rotate" /\ row[r.sid] = "active"
    BY <1>0, <2>1 DEF Sound, Formed, Informed
  <2>3. q.phase = "rotate" /\ q.at = "dropCopy" /\ q.sid = r.sid
    BY <1>0, <2>2 DEF Request
  <2> HIDE DEF q
  <2>4. Informed(q, row', Gone')
    BY <2>1, <2>2, <2>3 DEF Informed
  <2>5. r.sid \notin revoked
    BY <2>2 DEF ReadersInv, RevokedStaysRevoked
  <2>6. RevokedStaysRevoked' /\ RevokedMarked'
    BY <2>1, <2>5 DEF ReadersInv, RevokedStaysRevoked, RevokedMarked, Gone
  <2> QED  BY <1>1, <2>1, <2>4, <2>6, WriterStep
<1> QED  BY <1>2, <1>3, <1>4, <1>5

LEMMA RevokeReaders ==
  ASSUME IInv, ReadersInv, OneWriter', NEW h \in Requests,
         Deactivate(h) \/ FindAll(h) \/ DeactivateAll(h) \/ Mark(h)
  PROVE  ReadersInv'
<1> DEFINE r == request[h]
<1>0. Sound(r, row) /\ r \in Request /\ Informed(r, row, Gone)
  BY Soundness DEF Sound, ReadersInv
<1>1. Writes(r) /\ r.phase \in {"revoke", "all"}
  BY <1>0 DEF Deactivate, FindAll, DeactivateAll, Mark, Sound, Formed, Writes,
              Readers
<1>2. CASE Deactivate(h)
  <2> DEFINE q == [r EXCEPT !.at = "mark"]
  <2>1. Becomes(h, q) /\ r.at = "deactivate"
        /\ row' = [row EXCEPT ![r.sid] = "ended"]
        /\ UNCHANGED <<expired, marker, revoked>>
    BY <1>2 DEF Deactivate, cache, history
  <2>2. r.phase = "revoke" /\ r.sid \in Sessions
    BY <1>0, <2>1 DEF Sound, Formed, Grounded, Existing
  <2>3. q.phase = "revoke" /\ q.at = "mark" /\ q.sid = r.sid
    BY <1>0, <2>2 DEF Request
  <2> HIDE DEF q
  <2>4. \A t \in Sessions : row'[t] \in {row[t], "ended"}
        /\ (t = r.sid => row'[t] = "ended")
    BY <2>1 DEF IInv, TypeOK
  <2>5. Informed(q, row', Gone')
    BY <2>2, <2>3, <2>4 DEF Informed
  <2>6. RevokedStaysRevoked' /\ RevokedMarked'
    <3>1. revoked \subseteq Sessions
      BY DEF IInv, TypeOK
    <3> QED  BY <2>1, <2>4, <3>1
             DEF ReadersInv, RevokedStaysRevoked, RevokedMarked, Gone
  <2> QED  BY <1>1, <2>1, <2>5, <2>6, WriterStep
<1>3. CASE FindAll(h)
  <2> DEFINE q == [r EXCEPT !.at = "deactivateAll", !.found = Active]
  <2>1. Becomes(h, q) /\ UNCHANGED <<row, expired, marker, revoked>>
        /\ r.at = "findAll"
    BY <1>3 DEF FindAll, cache, history
  <2>2. q.phase = "all" /\ q.at = "deactivateAll" /\ q.found = Active
    BY <1>0, <2>1 DEF Request, Sound, Formed
  <2> HIDE DEF q
  <2>3. Informed(q, row, Gone)
    BY <2>2 DEF Informed, Active
  <2> QED  BY <2>1, <2>3, CalmStep
<1>4. CASE DeactivateAll(h)
  <2> DEFINE q == [r EXCEPT !.at = IF r.found = {} THEN "dropList" ELSE "mark",
                            !.todo = r.found]
  <2>1. Becomes(h, q) /\ r.at = "deactivateAll"
        /\ row' = [s \in Sessions |-> IF s \in Active THEN "ended" ELSE row[s]]
        /\ UNCHANGED <<expired, marker, revoked>>
    BY <1>4 DEF DeactivateAll, cache, history
  <2>2. r.phase = "all" /\ r.found = Active
    BY <1>0, <2>1 DEF Sound, Formed, Informed, Active
  <2>3. q.phase = "all" /\ q.found = r.found /\ q.todo = r.found
        /\ q.at = (IF r.found = {} THEN "dropList" ELSE "mark")
    BY <1>0, <2>2 DEF Request
  <2> HIDE DEF q
  <2>4. \A t \in Sessions : row'[t] \in {row[t], "ended"}
        /\ (t \in Active => row'[t] = "ended")
    BY <2>1
  <2>5. Informed(q, row', Gone')
    <3>1. Active \subseteq Sessions
      BY DEF Active
    <3> QED  BY <2>2, <2>3, <2>4, <3>1 DEF Informed
  <2>6. RevokedStaysRevoked' /\ RevokedMarked'
    <3>1. revoked \subseteq Sessions
      BY DEF IInv, TypeOK
    <3> QED  BY <2>1, <2>4, <3>1
             DEF ReadersInv, RevokedStaysRevoked, RevokedMarked, Gone
  <2> QED  BY <1>1, <2>1, <2>5, <2>6, WriterStep
<1>5. CASE Mark(h) /\ r.phase = "revoke"
  <2> DEFINE q == [r EXCEPT !.at = "dropCopy"]
  <2>1. Becomes(h, q) /\ r.at = "mark" /\ marker' = marker \union {r.sid}
        /\ UNCHANGED <<row, expired, revoked>>
    BY <1>5 DEF Mark, history
  <2>2. q.phase = "revoke" /\ q.at = "dropCopy" /\ q.sid = r.sid
    BY <1>0, <1>5 DEF Request
  <2> HIDE DEF q
  <2>3. Informed(q, row', Gone')
    BY <1>0, <1>5, <2>1, <2>2 DEF Informed, Gone
  <2>4. RevokedStaysRevoked' /\ RevokedMarked'
    BY <2>1 DEF ReadersInv, RevokedStaysRevoked, RevokedMarked, Gone
  <2> QED  BY <1>1, <2>1, <2>3, <2>4, WriterStep
<1>6. CASE Mark(h) /\ r.phase = "all"
  <2>1. PICK s \in r.todo :
          /\ marker' = marker \union {s}
          /\ Becomes(h, IF r.todo = {s}
                          THEN [r EXCEPT !.at = "dropList", !.todo = r.found]
                          ELSE [r EXCEPT !.todo = @ \ {s}])
    BY <1>6 DEF Mark
  <2>2. r.at = "mark" /\ UNCHANGED <<row, expired, revoked>>
    BY <1>6 DEF Mark, history
  <2> DEFINE q == IF r.todo = {s}
                    THEN [r EXCEPT !.at = "dropList", !.todo = r.found]
                    ELSE [r EXCEPT !.todo = @ \ {s}]
  <2>3. Becomes(h, q)
    BY <2>1
  <2>4. /\ q.phase = "all" /\ q.found = r.found
        /\ \/ q.at = "dropList" /\ r.todo = {s}
           \/ q.at = "mark" /\ q.todo = r.todo \ {s}
    BY <1>0, <1>6, <2>2 DEF Request
  <2> HIDE DEF q
  <2>5. Gone' = Gone \union {s}
    BY <2>1, <2>2 DEF Gone
  <2>6. Informed(q, row', Gone')
    BY <1>0, <1>6, <2>2, <2>4, <2>5 DEF Informed
  <2>7. RevokedStaysRevoked' /\ RevokedMarked'
    BY <2>2, <2>5 DEF ReadersInv, RevokedStaysRevoked, RevokedMarked
  <2> QED  BY <1>1, <2>3, <2>6, <2>7, WriterStep
<1> QED  BY <1>1, <1>2, <1>3, <1>4, <1>5, <1>6

LEMMA DropReaders ==
  ASSUME IInv, ReadersInv, OneWriter', NEW h \in Requests,
         DropCopy(h) \/ DropList(h)
  PROVE  ReadersInv'
<1> DEFINE r == request[h]
<1>0. Sound(r, row) /\ r \in Request /\ Informed(r, row, Gone)
  BY Soundness DEF Sound, ReadersInv
<1>1. Writes(r) /\ r.phase \in {"revoke", "create", "rotate", "all"}
  BY <1>0 DEF DropCopy, DropList, Sound, Formed, Writes, Readers
<1>2. CASE DropCopy(h)
  <2> DEFINE s == IF r.phase = "all" THEN Newest(r.todo) ELSE r.sid
             q == IF r.phase = "all" THEN LeftToDrop(r, r.todo \ {s})
                                     ELSE [r EXCEPT !.at = "dropList"]
  <2>1. /\ r.at = "dropCopy" /\ Becomes(h, q)
        /\ revoked' = (IF q = Idle THEN revoked \union r.found ELSE revoked)
        /\ UNCHANGED <<row, expired, marker>>
    BY <1>2 DEF DropCopy
  <2>2. Gone' = Gone
    BY <2>1 DEF Gone
  <2>3. Informed(q, row, Gone) /\ (q = Idle => r.phase = "all")
    <3>1. CASE r.phase = "all"
      <4>1. q = LeftToDrop(r, r.todo \ {s})
        BY <3>1
      <4> HIDE DEF q, s
      <4> QED  BY <1>0, <2>1, <3>1, <4>1, LeftToDropInformed
    <3>2. CASE r.phase # "all"
      <4>1. q.phase = r.phase /\ q.at = "dropList" /\ q.sid = r.sid
        BY <1>0, <3>2 DEF Request
      <4> HIDE DEF q, s
      <4>2. q # Idle
        BY <4>1 DEF Idle
      <4> QED  BY <1>0, <1>1, <2>1, <3>2, <4>1, <4>2 DEF Informed
    <3> QED  BY <3>1, <3>2
  <2> HIDE DEF q, s
  <2>4. r.phase = "all" => r.found \subseteq Gone /\ \A t \in r.found : row[t] = "ended"
    BY <1>0, <2>1 DEF Informed
  <2>5. RevokedStaysRevoked' /\ RevokedMarked'
    BY <2>1, <2>2, <2>3, <2>4 DEF ReadersInv, RevokedStaysRevoked, RevokedMarked
  <2>6. Informed(q, row', Gone')
    BY <2>1, <2>2, <2>3
  <2> QED  BY <1>1, <2>1, <2>5, <2>6, WriterStep
<1>3. CASE DropList(h)
  <2>1. /\ r.at = "dropList" /\ Becomes(h, AfterDrop(r))
        /\ revoked' = (IF r.phase = "revoke" THEN revoked \union {r.sid} ELSE revoked)
        /\ UNCHANGED <<row, expired, marker>>
    BY <1>3 DEF DropList
  <2>2. Gone' = Gone
    BY <2>1 DEF Gone
  <2>3. Informed(AfterDrop(r), row', Gone')
    BY <1>0, <1>1, <2>1, <2>2, AfterDropInformed
  <2>4. r.phase = "revoke" => r.sid \in Gone /\ row[r.sid] = "ended"
    BY <1>0, <2>1 DEF Informed
  <2>5. RevokedStaysRevoked' /\ RevokedMarked'
    BY <2>1, <2>2, <2>4 DEF ReadersInv, RevokedStaysRevoked, RevokedMarked
  <2> QED  BY <1>1, <2>1, <2>3, <2>5, WriterStep
<1> QED  BY <1>2, <1>3

LEMMA OtherReaders ==
  ASSUME IInv, ReadersInv, OneWriter',
         \/ \E s \in Sessions : SessionExpires(s) \/ EntryExpires(s)
         \/ ListExpires \/ TenMinutesPass \/ Crash
         \/ UNCHANGED vars
  PROVE  ReadersInv'
<1>1. UNCHANGED <<row, revoked>> /\ Gone \subseteq Gone'
      /\ \A h \in Requests : request'[h] \in {Idle, request[h]}
  BY DEF SessionExpires, EntryExpires, ListExpires, TenMinutesPass, Crash, vars,
         cache, history, Gone
<1>2. ASSUME NEW h \in Requests  PROVE Informed(request'[h], row', Gone')
  <2>1. Informed(request[h], row', Gone')
    BY <1>1 DEF ReadersInv, Informed
  <2> QED  BY <1>1, <2>1, IdleInformed
<1> QED  BY <1>1, <1>2 DEF ReadersInv, RevokedStaysRevoked, RevokedMarked

LEMMA WithinReaders ==
  ASSUME IInv, Within, scenario \in {"turns", "readers"}
  PROVE  OneWriter /\ (scenario = "turns" => AtMostOne /\ faults = 0)
<1>1. ASSUME NEW S \in SUBSET Requests, Cardinality(S) <= 1,
             NEW g \in S, NEW h \in S, g # h
      PROVE  FALSE
  <2>1. IsFiniteSet(S) /\ Cardinality(S) \in Nat
    BY Bounds, FS_Subset, FS_CardinalityType
  <2>2. IsFiniteSet(S \ {g}) /\ Cardinality(S \ {g}) = Cardinality(S) - 1
    BY <2>1, FS_RemoveElement
  <2>3. Cardinality(S \ {g}) = 0
    BY <1>1, <2>1, <2>2, FS_CardinalityType
  <2> QED  BY <1>1, <2>2, <2>3, FS_EmptySet
<1>2. InFlight \in SUBSET Requests /\ Writing \in SUBSET Requests
      /\ Writing \subseteq InFlight
  BY DEF InFlight, Writing
<1>3. CASE scenario = "turns"
  <2>1. Cardinality(InFlight) <= 1 /\ faults = 0
    BY <1>3 DEF Within
  <2>2. AtMostOne
    BY <1>1, <1>2, <2>1 DEF AtMostOne
  <2> QED  BY <1>2, <2>1, <2>2 DEF AtMostOne, OneWriter
<1>4. CASE scenario = "readers"
  <2>1. Cardinality(Writing) <= 1
    BY <1>4 DEF Within
  <2> QED  BY <1>1, <1>2, <1>4, <2>1 DEF OneWriter
<1> QED  BY <1>3, <1>4

LEMMA InitReaders == Init => ReadersInv
<1> SUFFICES ASSUME Init  PROVE ReadersInv
  OBVIOUS
<1>1. \A h \in Requests : request[h] = Idle
  BY DEF Init
<1>2. OneWriter
  BY <1>1 DEF OneWriter, Writing, InFlight
<1>3. \A h \in Requests : Informed(request[h], row, Gone)
  BY <1>1, IdleInformed
<1> QED  BY <1>2, <1>3
         DEF Init, ReadersInv, RevokedStaysRevoked, RevokedMarked

ReadersInvForReaders == scenario # "together" => ReadersInv

\* The scenario is one of three, for good.
Scenarios == scenario \in {"turns", "readers", "together"}

LEMMA NextReaders ==
  IInv /\ Scenarios /\ ReadersInvForReaders /\ [MCNext]_<<vars, scenario>>
    => ReadersInvForReaders'
<1> SUFFICES ASSUME IInv, Scenarios, ReadersInvForReaders,
                    [MCNext]_<<vars, scenario>>, scenario' # "together"
             PROVE  ReadersInv'
  BY DEF ReadersInvForReaders
<1>1. scenario' = scenario /\ scenario \in {"turns", "readers"} /\ ReadersInv
  BY DEF MCNext, Scenarios, ReadersInvForReaders
<1>2. CASE UNCHANGED vars
  <2>1. OneWriter'
    BY <1>1, <1>2 DEF ReadersInv, OneWriter, Writing, InFlight, vars
  <2> QED  BY <1>1, <1>2, <2>1, OtherReaders
<1>3. CASE MCNext
  <2>1. IInv'
    BY <1>3, NextIInv DEF MCNext
  <2>2. OneWriter'
    <3>1. IInv' /\ Within' /\ (scenario \in {"turns", "readers"})'
      BY <1>1, <1>3, <2>1 DEF MCNext
    <3> QED  BY <3>1, WithinReaders, PTL
  <2>3. ASSUME NEW h \in Requests, Raise(h)  PROVE ReadersInv'
    <3>1. Becomes(h, Idle) /\ UNCHANGED <<row, expired, marker, revoked>>
      BY <2>3 DEF Raise, cache, history
    <3> QED  BY <1>1, <2>2, <3>1, IdleInformed, CalmStep
  <2> QED  BY <1>1, <1>3, <2>2, <2>3, BeginReaders, ListReaders, EntityReaders,
              SaveReaders, RevokeReaders, DropReaders, OtherReaders
           DEF MCNext, Next, Proceeds
<1> QED  BY <1>2, <1>3

LEMMA SpecReaders == MCSpec => [](IInv /\ Scenarios /\ ReadersInvForReaders)
<1>1. MCInit => IInv /\ Scenarios /\ ReadersInvForReaders
  BY InitIInv, InitReaders DEF MCInit, Scenarios, ReadersInvForReaders
<1>2. IInv /\ Scenarios /\ ReadersInvForReaders /\ [MCNext]_<<vars, scenario>>
        => IInv' /\ Scenarios' /\ ReadersInvForReaders'
  <2>1. [MCNext]_<<vars, scenario>> => [Next]_vars
    BY DEF MCNext
  <2>2. Scenarios /\ [MCNext]_<<vars, scenario>> => Scenarios'
    BY DEF MCNext, Scenarios
  <2> QED  BY <2>1, <2>2, NextIInv, NextReaders
<1> QED  BY <1>1, <1>2, PTL DEF MCSpec

\* While logins and revocations wait for one another, whatever lists and
\* refreshes run beside them and whatever fails, a session whose revocation
\* was completed stays ended: the request that saves a session's entity is
\* the only writer, so its row is still active (Informed), and the save finds
\* nothing to bring back.
THEOREM RevokedStays == MCSpec => []RevokedStaysForReaders
<1>1. IInv /\ Scenarios /\ ReadersInvForReaders => RevokedStaysForReaders
  BY DEF ReadersInvForReaders, ReadersInv, RevokedStaysForReaders
<1> QED  BY <1>1, SpecReaders, PTL

-----------------------------------------------------------------------------
(* Requests that take turns                                                *)

TurnsInvInTurns == scenario = "turns" => TurnsInv

\* A request that claims nothing of what it read.
LEMMA CurrentEasily ==
  ASSUME NEW r, NEW rows, r.at \notin {"setList", "setCopy", "insert"},
         r.op # "login" \/ r.phase # "revoke"
  PROVE  Current(r, rows)
BY DEF Current

LEMMA IdleCurrent ==
  ASSUME NEW rows
  PROVE  Current(Idle, rows) /\ ~ListStale(Idle) /\ \A s : ~CopyStale(Idle, s)
BY DEF Current, ListStale, CopyStale, Idle

\* Caches that agree with the rows agree with them for every request.
LEMMA AgreeAll ==
  ASSUME NEW rows, NEW list, NEW copies, Agree(Idle, rows, list, copies), NEW r
  PROVE  Agree(r, rows, list, copies)
BY IdleCurrent DEF Agree

LEMMA AgreeIdle ==
  ASSUME NEW rows, NEW list, NEW copies, NEW r, Agree(r, rows, list, copies),
         r.phase \notin {"create", "revoke", "all"}
           \/ r.at \notin {"mark", "dropCopy", "dropList"}
  PROVE  Agree(Idle, rows, list, copies)
BY DEF Agree, ListStale, CopyStale

\* What holds before a step of h: the others rest.
LEMMA HereAgree ==
  ASSUME IInv, TurnsInv, AtMostOne', NEW h \in Requests, NEW r, Becomes(h, r),
         request[h] # Idle \/ r # Idle
  PROVE  /\ Agree(request[h], row, listed, copy)
         /\ \A g \in Requests \ {h} : request[g] = Idle /\ request'[g] = Idle
         /\ request'[h] = r
<1>1. /\ request'[h] = r
      /\ \A g \in Requests \ {h} : request'[g] = request[g]
  BY DEF Becomes, IInv, TypeOK
<1>2. \A g \in Requests \ {h} : request[g] = Idle
  BY <1>1 DEF TurnsInv, AtMostOne, InFlight
<1>3. CASE request[h] = Idle
  <2>1. Quiet
    BY <1>2, <1>3 DEF Quiet
  <2> QED  BY <1>1, <1>2, <1>3, <2>1 DEF TurnsInv
<1>4. CASE request[h] # Idle
  BY <1>1, <1>2, <1>4 DEF TurnsInv, InFlight
<1> QED  BY <1>3, <1>4

\* It is enough to know of h what a step makes of it.
LEMMA TurnStep ==
  ASSUME IInv, TurnsInv, AtMostOne', NEW h \in Requests, NEW r, Becomes(h, r),
         request[h] # Idle \/ r # Idle,
         Agree(r, row', listed', copy'), Current(r, row'),
         Cardinality(ActiveIn(row')) <= Limit
  PROVE  TurnsInv'
<1>1. /\ request'[h] = r
      /\ \A g \in Requests \ {h} : request'[g] = Idle
  BY HereAgree
<1>2. \A g \in Requests : Current(request'[g], row')
  BY <1>1, IdleCurrent
<1>3. \A g \in InFlight' : Agree(request'[g], row', listed', copy')
  BY <1>1 DEF InFlight
<1>4. Quiet' => Agree(Idle, row', listed', copy')
  BY <1>1 DEF Quiet
<1>5. LimitKept'
  BY DEF LimitKept, Active, ActiveIn
<1> QED  BY <1>2, <1>3, <1>4, <1>5 DEF TurnsInv

LEMMA LimitNow == TurnsInv => Cardinality(ActiveIn(row)) <= Limit
BY DEF TurnsInv, LimitKept, Active, ActiveIn

\* A step that changes no row and no cache, of a request that had dropped
\* what it changed.
LEMMA TurnCalm ==
  ASSUME IInv, TurnsInv, AtMostOne', NEW h \in Requests, NEW r, Becomes(h, r),
         request[h] # Idle \/ r # Idle,
         \/ request[h].phase \notin {"create", "revoke", "all"}
         \/ request[h].at \notin {"mark", "dropCopy", "dropList"},
         UNCHANGED <<row, listed, copy>>, Current(r, row)
  PROVE  TurnsInv'
<1>1. Agree(request[h], row, listed, copy)
  BY HereAgree
<1>2. Agree(r, row, listed, copy)
  BY <1>1, AgreeIdle, AgreeAll
<1> QED  BY <1>2, LimitNow, TurnStep

LEMMA NextSurplusCurrent ==
  ASSUME NEW r \in Request, r.op = "login", NEW rows \in [Sessions -> Status],
         Cardinality(ActiveIn(rows) \ r.todo) < Limit
  PROVE  Current(NextSurplus(r), rows)
<1>1. CASE r.todo = {}
  <2> DEFINE q == [r EXCEPT !.phase = "create", !.at = "insert", !.sid = None]
  <2>1. NextSurplus(r) = q
    BY <1>1 DEF NextSurplus
  <2>2. q.phase = "create" /\ q.at = "insert"
    BY DEF Request
  <2>3. ActiveIn(rows) \ r.todo = ActiveIn(rows)
    BY <1>1
  <2> HIDE DEF q
  <2> QED  BY <2>1, <2>2, <2>3 DEF Current
<1>2. CASE r.todo # {}
  <2> DEFINE o == Oldest(r.todo)
             q == [r EXCEPT !.phase = "revoke", !.at = "deactivate",
                            !.sid = o, !.todo = @ \ {o}]
  <2>1. NextSurplus(r) = q
    BY <1>2 DEF NextSurplus
  <2>2. o \in r.todo
    <3>1. r.todo \in SUBSET Sessions
      BY DEF Request
    <3> QED  BY <1>2, <3>1, OldestIn
  <2> HIDE DEF o
  <2>3. q.phase = "revoke" /\ q.at = "deactivate" /\ q.todo = r.todo \ {o}
        /\ q.sid = o
    BY DEF Request
  <2> HIDE DEF q
  <2>4. Staying(q, rows) = ActiveIn(rows) \ r.todo
    BY <2>2, <2>3 DEF Staying
  <2> QED  BY <2>1, <2>3, <2>4 DEF Current
<1> QED  BY <1>1, <1>2

LEMMA AfterListCurrent ==
  ASSUME NEW r \in Request, r.phase = "list", r.op \in {"login", "list", "refresh"},
         NEW rows \in [Sessions -> Status]
  PROVE  Current(AfterList(r, ActiveIn(rows)), rows)
<1> DEFINE ss == ActiveIn(rows)
<1>0. ss \in SUBSET Sessions
  BY DEF ActiveIn
<1>1. CASE r.op = "login"
  <2> DEFINE q == [r EXCEPT !.todo = Surplus(ss)]
  <2>1. AfterList(r, ss) = NextSurplus(q)
    BY <1>1 DEF AfterList
  <2>2. q \in Request /\ q.op = "login" /\ q.todo = Surplus(ss)
    BY <1>0, <1>1 DEF Request, Surplus
  <2>3. Cardinality(ss \ Surplus(ss)) < Limit
    BY <1>0, SurplusMakesRoom
  <2> HIDE DEF q
  <2> QED  BY <2>1, <2>2, <2>3, NextSurplusCurrent
<1>2. CASE r.op = "refresh"
  <2>1. AfterList(r, ss).phase = "list" /\ AfterList(r, ss).at = "check"
    BY <1>2 DEF AfterList, Request
  <2> QED  BY <2>1, CurrentEasily
<1>3. CASE r.op = "list"
  BY <1>3, IdleCurrent DEF AfterList
<1> QED  BY <1>1, <1>2, <1>3

LEMMA AfterEntityCurrent ==
  ASSUME NEW r, Sound(r, row), r.at \in {"getCopy", "setCopy"}, NEW rows
  PROVE  Current(AfterEntity(r), rows)
<1>1. r.phase \in {"own", "create", "rotate", "answer"} /\ r \in Request
      /\ (r.phase = "own" => r.op = "revokeOne")
  BY DEF Sound, Formed
<1>2. CASE r.phase = "answer"
  BY <1>2, IdleCurrent DEF AfterEntity
<1>3. CASE r.phase # "answer"
  <2>1. /\ AfterEntity(r).at \in {"deactivate", "getCopy", "select"}
        /\ AfterEntity(r).op = r.op
        /\ AfterEntity(r).phase = "rotate" \/ r.op = "revokeOne"
    BY <1>1, <1>3 DEF AfterEntity, Request
  <2> QED  BY <2>1, CurrentEasily
<1> QED  BY <1>2, <1>3

LEMMA BeginTurns ==
  ASSUME IInv, TurnsInv, AtMostOne', NEW h \in Requests, Begins(h)
  PROVE  TurnsInv'
<1>1. request[h] = Idle /\ UNCHANGED <<row, listed, copy>>
  BY DEF Begins, Login, ListMySessions, Refresh, Logout, RevokeSessionForUser,
     RevokeAllUserSessions, Admitted, cache
<1>2. ASSUME NEW r, Becomes(h, r), r # Idle, Current(r, row)  PROVE TurnsInv'
  BY <1>1, <1>2, TurnCalm DEF Idle
<1>3. CASE ListMySessions(h)
  <2> DEFINE q == [Idle EXCEPT !.op = "list", !.phase = "list", !.at = "getList"]
  <2>1. Becomes(h, q)
    BY <1>3 DEF ListMySessions
  <2>2. q.op = "list" /\ q.phase = "list" /\ q.at = "getList" /\ q # Idle
    BY DEF Idle
  <2> HIDE DEF q
  <2>3. Current(q, row)
    BY <2>2, CurrentEasily
  <2> QED  BY <1>2, <2>1, <2>2, <2>3
<1>4. CASE RevokeAllUserSessions(h)
  <2> DEFINE q == [Idle EXCEPT !.op = "logoutAll", !.phase = "all", !.at = "findAll"]
  <2>1. Becomes(h, q)
    BY <1>4 DEF RevokeAllUserSessions
  <2>2. q.op = "logoutAll" /\ q.phase = "all" /\ q.at = "findAll" /\ q # Idle
    BY DEF Idle
  <2> HIDE DEF q
  <2>3. Current(q, row)
    BY <2>2, CurrentEasily
  <2> QED  BY <1>2, <2>1, <2>2, <2>3
<1>5. CASE Login(h)
  <2> DEFINE q == [Idle EXCEPT !.op = "login", !.phase = "list", !.at = "getList"]
  <2>1. Becomes(h, q)
    BY <1>5 DEF Login
  <2>2. q.op = "login" /\ q.phase = "list" /\ q.at = "getList" /\ q # Idle
    BY DEF Idle
  <2> HIDE DEF q
  <2>3. Current(q, row)
    BY <2>2, CurrentEasily
  <2> QED  BY <1>2, <2>1, <2>2, <2>3
<1>6. ASSUME NEW s \in Sessions, Refresh(h, s)  PROVE TurnsInv'
  <2> DEFINE q == [Idle EXCEPT !.op = "refresh", !.phase = "list", !.at = "getList", !.sid = s]
  <2>1. Becomes(h, q)
    BY <1>6 DEF Refresh
  <2>2. q.op = "refresh" /\ q.phase = "list" /\ q.at = "getList" /\ q # Idle
    BY DEF Idle
  <2> HIDE DEF q
  <2>3. Current(q, row)
    BY <2>2, CurrentEasily
  <2> QED  BY <1>2, <2>1, <2>2, <2>3
<1>7. ASSUME NEW s \in Sessions, Logout(h, s)  PROVE TurnsInv'
  <2> DEFINE q == [Idle EXCEPT !.op = "logout", !.phase = "revoke", !.at = "deactivate", !.sid = s]
  <2>1. Becomes(h, q)
    BY <1>7 DEF Logout
  <2>2. q.op = "logout" /\ q.phase = "revoke" /\ q.at = "deactivate" /\ q # Idle
    BY DEF Idle
  <2> HIDE DEF q
  <2>3. Current(q, row)
    BY <2>2, CurrentEasily
  <2> QED  BY <1>2, <2>1, <2>2, <2>3
<1>8. ASSUME NEW s \in Sessions, RevokeSessionForUser(h, s)  PROVE TurnsInv'
  <2> DEFINE q == [Idle EXCEPT !.op = "revokeOne", !.phase = "own", !.at = "getCopy", !.sid = s]
  <2>1. Becomes(h, q)
    BY <1>8 DEF RevokeSessionForUser
  <2>2. q.op = "revokeOne" /\ q.phase = "own" /\ q.at = "getCopy" /\ q # Idle
    BY DEF Idle
  <2> HIDE DEF q
  <2>3. Current(q, row)
    BY <2>2, CurrentEasily
  <2> QED  BY <1>2, <2>1, <2>2, <2>3
<1> QED  BY <1>3, <1>4, <1>5, <1>6, <1>7, <1>8 DEF Begins

LEMMA ListTurns ==
  ASSUME IInv, TurnsInv, AtMostOne', NEW h \in Requests,
         GetList(h) \/ FindActive(h) \/ SetList(h) \/ Check(h)
  PROVE  TurnsInv'
<1> DEFINE r == request[h]
<1>0. Sound(r, row) /\ r \in Request /\ row \in [Sessions -> Status]
  BY Soundness DEF Sound, IInv, TypeOK
<1>1. r.phase = "list" /\ r.op \in {"login", "list", "refresh"} /\ r # Idle
  BY <1>0 DEF GetList, FindActive, SetList, Check, Sound, Formed, Idle
<1>2. Agree(Idle, row, listed, copy)
  <2>1. \E q : Becomes(h, q)
    BY DEF GetList, FindActive, SetList, Check
  <2>2. Agree(r, row, listed, copy)
    BY <1>1, <2>1, HereAgree
  <2> QED  BY <1>1, <2>2, AgreeIdle
<1>3. listed \in {None, ActiveIn(row)}
  BY <1>2, IdleCurrent DEF Agree
<1>4. CASE GetList(h) /\ listed = None
  <2> DEFINE q == [r EXCEPT !.at = "findActive"]
  <2>1. Becomes(h, q) /\ UNCHANGED <<row, listed, copy>>
        /\ q.phase = "list" /\ q.at = "findActive"
    BY <1>0, <1>1, <1>4 DEF GetList, cache, Request
  <2> HIDE DEF q
  <2> QED  BY <1>1, <2>1, CurrentEasily, TurnCalm
<1>5. CASE GetList(h) /\ listed # None
  <2>1. Becomes(h, AfterList(r, ActiveIn(row))) /\ UNCHANGED <<row, listed, copy>>
    BY <1>3, <1>5 DEF GetList, cache
  <2> QED  BY <1>0, <1>1, <2>1, AfterListCurrent, TurnCalm
<1>6. CASE FindActive(h)
  <2> DEFINE q == [r EXCEPT !.at = "setList", !.found = Active]
  <2>1. Becomes(h, q) /\ UNCHANGED <<row, listed, copy>>
        /\ q.phase = "list" /\ q.at = "setList" /\ q.found = ActiveIn(row)
    BY <1>0, <1>1, <1>6 DEF FindActive, cache, Request, Active, ActiveIn
  <2> HIDE DEF q
  <2>2. Current(q, row)
    BY <2>1 DEF Current
  <2> QED  BY <1>1, <2>1, <2>2, TurnCalm
<1>7. CASE SetList(h)
  <2> DEFINE q == [r EXCEPT !.found = {}]
  <2>1. r.at = "setList" /\ Becomes(h, AfterList(q, r.found)) /\ listed' = r.found
        /\ UNCHANGED <<row, copy>>
    BY <1>7 DEF SetList
  <2>2. q \in Request /\ q.phase = "list" /\ q.op = r.op
    BY <1>0, <1>1 DEF Request
  <2> HIDE DEF q
  <2>3. r.found = ActiveIn(row)
    BY <2>1 DEF TurnsInv, Current
  <2>4. Current(AfterList(q, r.found), row)
    BY <1>0, <1>1, <2>2, <2>3, AfterListCurrent
  <2>5. Agree(Idle, row', listed', copy')
    BY <1>2, <2>1, <2>3 DEF Agree
  <2>6. Agree(AfterList(q, r.found), row', listed', copy')
    BY <2>5, AgreeAll
  <2>7. Current(AfterList(q, r.found), row') /\ Cardinality(ActiveIn(row')) <= Limit
    BY <2>1, <2>4, LimitNow
  <2> QED  BY <1>1, <2>1, <2>6, <2>7, TurnStep
<1>8. CASE Check(h)
  <2>1. Becomes(h, Idle) /\ UNCHANGED <<row, listed, copy>>
    BY <1>8 DEF Check, cache
  <2> QED  BY <1>1, <2>1, IdleCurrent, TurnCalm
<1> QED  BY <1>4, <1>5, <1>6, <1>7, <1>8

LEMMA EntityTurns ==
  ASSUME IInv, TurnsInv, AtMostOne', NEW h \in Requests,
         GetCopy(h) \/ FindRow(h) \/ SetCopy(h)
  PROVE  TurnsInv'
<1> DEFINE r == request[h]
<1>0. Sound(r, row) /\ r \in Request /\ row \in [Sessions -> Status]
  BY Soundness DEF Sound, IInv, TypeOK
<1>1. /\ r.phase \in {"own", "create", "rotate", "answer"}
      /\ r.phase = "own" => r.op = "revokeOne"
      /\ r.at \in {"getCopy", "findRow", "setCopy"}
      /\ r # Idle /\ r.sid \in Sessions
  BY <1>0 DEF GetCopy, FindRow, SetCopy, Sound, Formed, Grounded, Existing, Idle
<1>2. Agree(Idle, row, listed, copy)
  <2>1. \E q : Becomes(h, q)
    BY DEF GetCopy, FindRow, SetCopy
  <2>2. Agree(r, row, listed, copy)
    BY <1>1, <2>1, HereAgree
  <2> QED  BY <1>1, <2>2, AgreeIdle
<1>3. CASE GetCopy(h) /\ copy[r.sid] = None
  <2> DEFINE q == [r EXCEPT !.at = "findRow"]
  <2>1. Becomes(h, q) /\ UNCHANGED <<row, listed, copy>>
        /\ q.phase = r.phase /\ q.at = "findRow"
    BY <1>0, <1>3 DEF GetCopy, cache, Request
  <2> HIDE DEF q
  <2>2. Current(q, row)
    BY <1>1, <2>1, CurrentEasily
  <2> QED  BY <1>1, <2>1, <2>2, TurnCalm
<1>4. CASE GetCopy(h) /\ copy[r.sid] # None
  <2> DEFINE q == [r EXCEPT !.entity = copy[r.sid]]
  <2>1. /\ r.at = "getCopy" /\ Becomes(h, AfterEntity(q))
        /\ UNCHANGED <<row, listed, copy>>
    BY <1>4 DEF GetCopy, cache
  <2>2. copy[r.sid] \in Status
    BY <1>1, <1>4 DEF IInv, TypeOK, Status
  <2>3. /\ q \in Request /\ q.op = r.op /\ q.at = "getCopy"
        /\ q.phase = r.phase /\ q.found = r.found /\ q.todo = r.todo
        /\ q.sid = r.sid
    BY <1>0, <2>1, <2>2 DEF Request
  <2> HIDE DEF q
  <2>4. Sound(q, row)
    BY <1>0, <1>1, <2>1, <2>3 DEF Sound, Formed, Grounded, Idle
  <2>5. Current(AfterEntity(q), row)
    BY <2>3, <2>4, AfterEntityCurrent
  <2> QED  BY <1>1, <2>1, <2>5, TurnCalm
<1>5. CASE FindRow(h)
  <2> DEFINE q == [r EXCEPT !.at = "setCopy", !.entity = row[r.sid]]
  <2>1. Becomes(h, q) /\ UNCHANGED <<row, listed, copy>>
        /\ q.phase = r.phase /\ q.at = "setCopy" /\ q.sid = r.sid
        /\ q.entity = row[r.sid]
    BY <1>0, <1>5 DEF FindRow, cache, Request
  <2> HIDE DEF q
  <2>2. Current(q, row)
    BY <1>1, <2>1 DEF Current
  <2> QED  BY <1>1, <2>1, <2>2, TurnCalm
<1>6. CASE SetCopy(h)
  <2>1. /\ r.at = "setCopy" /\ Becomes(h, AfterEntity(r))
        /\ copy' = [copy EXCEPT ![r.sid] = r.entity]
        /\ UNCHANGED <<row, listed>>
    BY <1>6 DEF SetCopy
  <2>2. r.entity = row[r.sid]
    BY <2>1 DEF TurnsInv, Current
  <2>3. \A s \in Sessions : copy'[s] = copy[s] \/ copy'[s] = row[s]
    BY <2>1, <2>2 DEF IInv, TypeOK
  <2>4. Agree(Idle, row', listed', copy')
    BY <1>2, <2>1, <2>3 DEF Agree
  <2>5. Agree(AfterEntity(r), row', listed', copy')
    BY <2>4, AgreeAll
  <2>6. Current(AfterEntity(r), row') /\ Cardinality(ActiveIn(row')) <= Limit
    BY <1>0, <2>1, AfterEntityCurrent, LimitNow
  <2> QED  BY <1>1, <2>1, <2>5, <2>6, TurnStep
<1> QED  BY <1>3, <1>4, <1>5, <1>6

LEMMA SaveTurns ==
  ASSUME IInv, ReadersInv, TurnsInv, AtMostOne', NEW h \in Requests,
         Insert(h) \/ Select(h) \/ Update(h) \/ Unmark(h)
  PROVE  TurnsInv'
<1> DEFINE r == request[h]
<1>0. /\ Sound(r, row) /\ r \in Request /\ row \in [Sessions -> Status]
      /\ Informed(r, row, Gone)
  BY Soundness DEF Sound, IInv, TypeOK, ReadersInv
<1>1. /\ r # Idle /\ r.at \in {"insert", "select", "update", "unmark"}
  BY <1>0 DEF Insert, Select, Update, Unmark, Idle
<1>2. CASE Insert(h)
  <2> DEFINE s == Oldest({t \in Sessions : row[t] = "absent"})
             q == [r EXCEPT !.at = "dropCopy", !.sid = s]
  <2>1. /\ r.at = "insert" /\ row' = [row EXCEPT ![s] = "active"]
        /\ Becomes(h, q) /\ UNCHANGED <<listed, copy>>
    BY <1>2 DEF Insert, cache
  <2>2. s \in Absent
    BY <2>1, InsertNumber
  <2> HIDE DEF s
  <2>3. q.phase = "create" /\ q.at = "dropCopy"
    BY <1>0, <2>1 DEF Request, Sound, Formed
  <2> HIDE DEF q
  <2>4. s \in Sessions /\ row[s] = "absent" /\ row'[s] = "active"
        /\ \A t \in Sessions : t # s => row'[t] = row[t]
    BY <1>0, <2>1, <2>2 DEF Absent
  <2>5. copy[s] = None
    BY <2>4 DEF IInv, Named
  <2>6. Agree(Idle, row, listed, copy)
    <3>1. Agree(r, row, listed, copy)
      BY <1>1, <2>1, HereAgree
    <3> QED  BY <2>1, <3>1, AgreeIdle
  <2>7. Agree(q, row', listed', copy')
    <3>1. ListStale(q)
      BY <2>3 DEF ListStale
    <3>2. \A t \in Sessions : copy'[t] \in {None, row'[t]}
      <4>1. \A t \in Sessions : copy[t] \in {None, row[t]}
        BY <2>6, IdleCurrent DEF Agree
      <4> QED  BY <2>1, <2>4, <2>5, <4>1
    <3> QED  BY <3>1, <3>2 DEF Agree
  <2>8. Cardinality(ActiveIn(row')) <= Limit
    <3>1. Cardinality(ActiveIn(row)) < Limit
      BY <2>1 DEF TurnsInv, Current
    <3>2. ActiveIn(row') = ActiveIn(row) \union {s} /\ s \notin ActiveIn(row)
      BY <2>4 DEF ActiveIn
    <3>3. IsFiniteSet(ActiveIn(row)) /\ Cardinality(ActiveIn(row)) \in Nat
      <4>1. ActiveIn(row) \in SUBSET Sessions
        BY DEF ActiveIn
      <4> QED  BY <4>1, Counted
    <3>4. Cardinality(ActiveIn(row')) = Cardinality(ActiveIn(row)) + 1
      BY <3>2, <3>3, FS_AddElement
    <3> QED  BY <3>1, <3>3, <3>4, Bounds
  <2>9. Current(q, row')
    BY <2>3, CurrentEasily
  <2> QED  BY <1>1, <2>1, <2>7, <2>8, <2>9, TurnStep
<1>3. CASE Select(h)
  <2> DEFINE q == [r EXCEPT !.at = "update", !.revive = row[r.sid] # "active"]
  <2>1. Becomes(h, q) /\ UNCHANGED <<row, listed, copy>> /\ q.at = "update"
        /\ q.phase = "rotate"
    BY <1>0, <1>3 DEF Select, cache, Request, Sound, Formed
  <2> HIDE DEF q
  <2> QED  BY <1>1, <2>1, CurrentEasily, TurnCalm
<1>4. CASE Update(h)
  <2> DEFINE q == [r EXCEPT !.at = "unmark", !.revive = FALSE]
  <2>1. r.at = "update" /\ ~r.revive
    BY <1>0, <1>4 DEF Update, Informed
  <2>2. Becomes(h, q) /\ UNCHANGED <<row, listed, copy>> /\ q.at = "unmark"
        /\ q.phase = "rotate"
    BY <1>0, <1>4, <2>1 DEF Update, cache, Request, Sound, Formed
  <2> HIDE DEF q
  <2> QED  BY <1>1, <2>2, CurrentEasily, TurnCalm
<1>5. CASE Unmark(h)
  <2> DEFINE q == [r EXCEPT !.at = "dropCopy"]
  <2>1. Becomes(h, q) /\ UNCHANGED <<row, listed, copy>> /\ q.at = "dropCopy"
        /\ q.phase = "rotate"
    BY <1>0, <1>5 DEF Unmark, Request, Sound, Formed
  <2> HIDE DEF q
  <2> QED  BY <1>1, <2>1, CurrentEasily, TurnCalm
<1> QED  BY <1>2, <1>3, <1>4, <1>5

\* Fewer active sessions are within the limit.
LEMMA FewerActive ==
  ASSUME TurnsInv, NEW rows, ActiveIn(rows) \subseteq ActiveIn(row)
  PROVE  Cardinality(ActiveIn(rows)) <= Limit
<1>1. ActiveIn(row) \in SUBSET Sessions
  BY DEF ActiveIn
<1>2. /\ IsFiniteSet(ActiveIn(row)) /\ Cardinality(ActiveIn(row)) \in Nat
      /\ Cardinality(ActiveIn(rows)) \in Nat
  BY <1>1, Counted
<1>3. Cardinality(ActiveIn(rows)) <= Cardinality(ActiveIn(row))
  BY <1>2, FS_Subset
<1> QED  BY <1>2, <1>3, LimitNow, Bounds

LEMMA RevokeTurns ==
  ASSUME IInv, ReadersInv, TurnsInv, AtMostOne', NEW h \in Requests,
         Deactivate(h) \/ FindAll(h) \/ DeactivateAll(h) \/ Mark(h)
  PROVE  TurnsInv'
<1> DEFINE r == request[h]
<1>0. /\ Sound(r, row) /\ r \in Request /\ row \in [Sessions -> Status]
      /\ Informed(r, row, Gone) /\ Current(r, row)
  BY Soundness DEF Sound, IInv, TypeOK, ReadersInv, TurnsInv
<1>1. r # Idle
  BY DEF Deactivate, FindAll, DeactivateAll, Mark, Idle
<1>2. Agree(r, row, listed, copy)
  <2>1. \E q : Becomes(h, q)
    BY DEF Deactivate, FindAll, DeactivateAll, Mark
  <2> QED  BY <1>1, <2>1, HereAgree
<1>3. CASE Deactivate(h)
  <2> DEFINE q == [r EXCEPT !.at = "mark"]
  <2>1. r.at = "deactivate" /\ Becomes(h, q)
        /\ row' = [row EXCEPT ![r.sid] = "ended"] /\ UNCHANGED <<listed, copy>>
    BY <1>3 DEF Deactivate, cache
  <2>2. r.phase = "revoke" /\ r.sid \in Sessions
    BY <1>0, <2>1 DEF Sound, Formed, Grounded, Existing
  <2>3. q.phase = "revoke" /\ q.at = "mark" /\ q.sid = r.sid /\ q.todo = r.todo
        /\ q.op = r.op
    BY <1>0, <2>2 DEF Request
  <2> HIDE DEF q
  <2>4. row'[r.sid] = "ended" /\ \A t \in Sessions : t # r.sid => row'[t] = row[t]
    BY <1>0, <2>1, <2>2
  <2>5. ActiveIn(row') = ActiveIn(row) \ {r.sid}
    BY <2>4 DEF ActiveIn
  <2>6. Agree(q, row', listed', copy')
    <3>1. Agree(Idle, row, listed, copy)
      BY <1>2, <2>1, AgreeIdle
    <3>2. \A t \in Sessions : copy[t] \in {None, row[t]}
      BY <3>1, IdleCurrent DEF Agree
    <3> QED  BY <2>1, <2>3, <2>4, <3>2 DEF Agree, ListStale, CopyStale
  <2>7. Current(q, row')
    <3>1. Staying(q, row') = Staying(r, row)
      BY <2>1, <2>3, <2>5 DEF Staying
    <3> QED  BY <1>0, <2>2, <2>3, <3>1 DEF Current
  <2>8. Cardinality(ActiveIn(row')) <= Limit
    BY <2>5, FewerActive
  <2> QED  BY <1>1, <2>1, <2>6, <2>7, <2>8, TurnStep
<1>4. CASE FindAll(h)
  <2> DEFINE q == [r EXCEPT !.at = "deactivateAll", !.found = Active]
  <2>1. r.at = "findAll" /\ Becomes(h, q) /\ UNCHANGED <<row, listed, copy>>
    BY <1>4 DEF FindAll, cache
  <2>2. q.phase = "all" /\ q.at = "deactivateAll"
    BY <1>0, <2>1 DEF Request, Sound, Formed
  <2> HIDE DEF q
  <2> QED  BY <1>1, <2>1, <2>2, CurrentEasily, TurnCalm
<1>5. CASE DeactivateAll(h)
  <2> DEFINE q == [r EXCEPT !.at = IF r.found = {} THEN "dropList" ELSE "mark",
                            !.todo = r.found]
  <2>1. Becomes(h, q) /\ r.at = "deactivateAll"
        /\ row' = [s \in Sessions |-> IF s \in Active THEN "ended" ELSE row[s]]
        /\ UNCHANGED <<listed, copy>>
    BY <1>5 DEF DeactivateAll, cache
  <2>2. r.phase = "all" /\ r.found = Active
    BY <1>0, <2>1 DEF Sound, Formed, Informed, Active
  <2>3. q.phase = "all" /\ q.found = Active
        /\ q.at \in {"dropList", "mark"}
    BY <1>0, <2>2 DEF Request
  <2> HIDE DEF q
  <2>4. \A t \in Sessions : t \notin Active => row'[t] = row[t]
    BY <2>1
  <2>5. ActiveIn(row') \subseteq ActiveIn(row)
    BY <2>1 DEF ActiveIn, Active
  <2>6. Agree(q, row', listed', copy')
    <3>1. Agree(Idle, row, listed, copy)
      BY <1>2, <2>1, AgreeIdle
    <3>2. \A t \in Sessions : copy[t] \in {None, row[t]}
      BY <3>1, IdleCurrent DEF Agree
    <3> QED  BY <2>1, <2>3, <2>4, <3>2 DEF Agree, ListStale, CopyStale
  <2>7. Current(q, row') /\ Cardinality(ActiveIn(row')) <= Limit
    BY <2>3, <2>5, CurrentEasily, FewerActive
  <2> QED  BY <1>1, <2>1, <2>6, <2>7, TurnStep
<1>6. CASE Mark(h) /\ r.phase = "revoke"
  <2> DEFINE q == [r EXCEPT !.at = "dropCopy"]
  <2>1. Becomes(h, q) /\ r.at = "mark" /\ UNCHANGED <<row, listed, copy>>
    BY <1>6 DEF Mark
  <2>2. q.phase = "revoke" /\ q.at = "dropCopy" /\ q.sid = r.sid
        /\ q.todo = r.todo /\ q.op = r.op
    BY <1>0, <1>6 DEF Request
  <2> HIDE DEF q
  <2>3. Agree(q, row, listed, copy)
    BY <1>2, <1>6, <2>1, <2>2 DEF Agree, ListStale, CopyStale
  <2>4. Current(q, row)
    <3>1. Staying(q, row) = Staying(r, row)
      BY <2>1, <2>2 DEF Staying
    <3> QED  BY <1>0, <1>6, <2>2, <3>1 DEF Current
  <2> QED  BY <1>1, <2>1, <2>3, <2>4, LimitNow, TurnStep
<1>7. CASE Mark(h) /\ r.phase = "all"
  <2>1. PICK s \in r.todo :
          Becomes(h, IF r.todo = {s}
                       THEN [r EXCEPT !.at = "dropList", !.todo = r.found]
                       ELSE [r EXCEPT !.todo = @ \ {s}])
    BY <1>7 DEF Mark
  <2>2. r.at = "mark" /\ UNCHANGED <<row, listed, copy>>
    BY <1>7 DEF Mark
  <2> DEFINE q == IF r.todo = {s}
                    THEN [r EXCEPT !.at = "dropList", !.todo = r.found]
                    ELSE [r EXCEPT !.todo = @ \ {s}]
  <2>3. Becomes(h, q)
    BY <2>1
  <2>4. q.phase = "all" /\ q.found = r.found /\ q.at \in {"mark", "dropList"}
    BY <1>0, <1>7, <2>2 DEF Request
  <2> HIDE DEF q
  <2>5. Agree(q, row, listed, copy)
    BY <1>2, <1>7, <2>2, <2>4 DEF Agree, ListStale, CopyStale
  <2>6. Current(q, row)
    BY <2>4, CurrentEasily
  <2> QED  BY <1>1, <2>2, <2>3, <2>5, <2>6, LimitNow, TurnStep
<1>8. r.phase \in {"revoke", "all"} \/ ~Mark(h)
  BY DEF Mark
<1> QED  BY <1>3, <1>4, <1>5, <1>6, <1>7, <1>8

LEMMA DropCopyTurns ==
  ASSUME IInv, TurnsInv, AtMostOne', NEW h \in Requests, DropCopy(h)
  PROVE  TurnsInv'
<1> DEFINE r == request[h]
           s == IF r.phase = "all" THEN Newest(r.todo) ELSE r.sid
           q == IF r.phase = "all" THEN LeftToDrop(r, r.todo \ {s})
                                   ELSE [r EXCEPT !.at = "dropList"]
<1>0. /\ Sound(r, row) /\ r \in Request /\ row \in [Sessions -> Status]
      /\ Current(r, row) /\ copy \in [Sessions -> {None, "active", "ended"}]
  BY Soundness DEF Sound, IInv, TypeOK, TurnsInv
<1>1. /\ r.at = "dropCopy" /\ copy' = [copy EXCEPT ![s] = None] /\ Becomes(h, q)
      /\ UNCHANGED <<row, listed>>
  BY DEF DropCopy
<1>2. r # Idle /\ r.phase \in {"revoke", "create", "rotate", "all"}
  BY <1>0, <1>1 DEF Sound, Formed, Idle
<1>3. Agree(r, row, listed, copy)
  BY <1>1, <1>2, HereAgree
<1>4. \A t \in Sessions : copy'[t] \in {None, copy[t]} /\ (t = s => copy'[t] = None)
  BY <1>0, <1>1
<1>5. CASE r.phase = "all"
  <2>1. q = LeftToDrop(r, r.todo \ {s})
    BY <1>5
  <2> HIDE DEF q, s
  <2>2. listed \in {None, ActiveIn(row)}
    BY <1>1, <1>3, <1>5 DEF Agree, ListStale
  <2>3. \A t \in Sessions : copy[t] \in {None, row[t]} \/ t \in r.todo
    BY <1>1, <1>3, <1>5 DEF Agree, CopyStale
  <2>4. \A t \in Sessions : copy'[t] \in {None, row[t]} \/ t \in r.todo \ {s}
    BY <1>4, <2>3
  <2>5. CASE r.todo \ {s} = {}
    <3>1. q = Idle
      BY <2>1, <2>5 DEF LeftToDrop
    <3>2. Agree(q, row', listed', copy')
      BY <1>1, <2>2, <2>4, <2>5 DEF Agree
    <3> QED  BY <1>1, <1>2, <3>1, <3>2, IdleCurrent, LimitNow, TurnStep
  <2>6. CASE r.todo \ {s} # {}
    <3>1. q.phase = "all" /\ q.at = "dropCopy" /\ q.todo = r.todo \ {s}
      BY <1>0, <1>5, <2>1, <2>6 DEF LeftToDrop, Request
    <3>2. Agree(q, row', listed', copy')
      BY <1>1, <2>2, <2>4, <3>1 DEF Agree, CopyStale
    <3>3. Current(q, row')
      BY <3>1, CurrentEasily
    <3> QED  BY <1>1, <1>2, <3>2, <3>3, LimitNow, TurnStep
  <2> QED  BY <2>5, <2>6
<1>6. CASE r.phase # "all"
  <2>1. q.phase = r.phase /\ q.at = "dropList" /\ q.sid = r.sid /\ q.todo = r.todo
        /\ q.op = r.op
    BY <1>0, <1>6 DEF Request
  <2>2. s = r.sid
    BY <1>6
  <2> HIDE DEF q, s
  <2>3. Agree(q, row', listed', copy')
    <3>1. \A t \in Sessions : copy'[t] \in {None, row[t]}
      BY <1>2, <1>3, <1>4, <1>6, <2>2 DEF Agree, CopyStale
    <3>2. listed \in {None, ActiveIn(row)} \/ ListStale(q)
      BY <1>1, <1>3, <1>6, <2>1 DEF Agree, ListStale
    <3> QED  BY <1>1, <3>1, <3>2 DEF Agree
  <2>4. Current(q, row')
    <3>1. Staying(q, row) = Staying(r, row)
      BY <1>1, <2>1 DEF Staying
    <3> QED  BY <1>0, <1>1, <2>1, <3>1 DEF Current
  <2> QED  BY <1>1, <1>2, <2>3, <2>4, LimitNow, TurnStep
<1> QED  BY <1>5, <1>6

LEMMA DropListTurns ==
  ASSUME IInv, TurnsInv, AtMostOne', NEW h \in Requests, DropList(h)
  PROVE  TurnsInv'
<1> DEFINE r == request[h]
           q == AfterDrop(r)
<1>0. /\ Sound(r, row) /\ r \in Request /\ row \in [Sessions -> Status]
      /\ Current(r, row)
  BY Soundness DEF Sound, IInv, TypeOK, TurnsInv
<1>1. /\ r.at = "dropList" /\ listed' = None /\ Becomes(h, q)
      /\ UNCHANGED <<row, copy>>
  BY DEF DropList
<1>2. r # Idle /\ r.phase \in {"revoke", "create", "rotate", "all"}
  BY <1>0, <1>1 DEF Sound, Formed, Idle
<1>3. Agree(r, row, listed, copy)
  BY <1>1, <1>2, HereAgree
<1> HIDE DEF q
<1>4. CASE r.phase = "all"
  <2>1. q = LeftToDrop(r, r.found)
    BY <1>4 DEF AfterDrop, q
  <2>2. \A t \in Sessions : copy[t] \in {None, row[t]} \/ t \in r.found
    BY <1>1, <1>3, <1>4 DEF Agree, CopyStale
  <2>3. CASE r.found = {}
    <3>1. q = Idle
      BY <2>1, <2>3 DEF LeftToDrop
    <3>2. Agree(q, row', listed', copy')
      BY <1>1, <2>2, <2>3 DEF Agree
    <3> QED  BY <1>1, <1>2, <3>1, <3>2, IdleCurrent, LimitNow, TurnStep
  <2>4. CASE r.found # {}
    <3>1. q.phase = "all" /\ q.at = "dropCopy" /\ q.todo = r.found
      BY <1>0, <1>4, <2>1, <2>4 DEF LeftToDrop, Request
    <3>2. Agree(q, row', listed', copy')
      BY <1>1, <2>2, <3>1 DEF Agree, CopyStale
    <3>3. Current(q, row')
      BY <3>1, CurrentEasily
    <3> QED  BY <1>1, <1>2, <3>2, <3>3, LimitNow, TurnStep
  <2> QED  BY <2>3, <2>4
<1>5. CASE r.phase # "all"
  <2>1. \A t \in Sessions : copy[t] \in {None, row[t]}
    BY <1>1, <1>3, <1>5 DEF Agree, CopyStale
  <2>2. Agree(q, row', listed', copy')
    BY <1>1, <2>1 DEF Agree
  <2>3. Current(q, row)
    <3>1. CASE r.phase = "revoke" /\ r.op = "login"
      <4>1. q = NextSurplus(r)
        BY <3>1 DEF AfterDrop, q
      <4>2. Staying(r, row) = ActiveIn(row) \ r.todo
        BY <1>1 DEF Staying
      <4>3. Cardinality(ActiveIn(row) \ r.todo) < Limit
        BY <1>0, <3>1, <4>2 DEF Current
      <4> QED  BY <1>0, <3>1, <4>1, <4>3, NextSurplusCurrent
    <3>2. CASE r.phase = "revoke" /\ r.op # "login"
      BY <3>2, IdleCurrent DEF AfterDrop, q
    <3>3. CASE r.phase \in {"create", "rotate"}
      <4>1. q.at = "getCopy" /\ q.phase \in {"create", "answer"}
        BY <1>0, <3>3 DEF AfterDrop, q, Request
      <4> QED  BY <4>1, CurrentEasily
    <3> QED  BY <1>2, <1>5, <3>1, <3>2, <3>3
  <2> QED  BY <1>1, <1>2, <2>2, <2>3, LimitNow, TurnStep
<1> QED  BY <1>4, <1>5

\* Entries expire; nothing else happens between the steps of a request.
LEMMA TimeTurns ==
  ASSUME IInv, TurnsInv,
         \/ \E s \in Sessions : SessionExpires(s) \/ EntryExpires(s)
         \/ ListExpires \/ TenMinutesPass \/ UNCHANGED vars
  PROVE  TurnsInv'
<1>1. /\ UNCHANGED <<row, request>>
      /\ listed' \in {None, listed}
      /\ \A s \in Sessions : copy'[s] \in {None, copy[s]}
  <2>1. ASSUME NEW s \in Sessions, SessionExpires(s)  PROVE <1>1!1 /\ <1>1!2 /\ <1>1!3
    BY <2>1 DEF SessionExpires, cache
  <2>2. ASSUME NEW s \in Sessions, EntryExpires(s)  PROVE <1>1!1 /\ <1>1!2 /\ <1>1!3
    BY <2>2 DEF EntryExpires, IInv, TypeOK
  <2>3. CASE ListExpires
    BY <2>3 DEF ListExpires
  <2>4. CASE TenMinutesPass
    BY <2>4 DEF TenMinutesPass
  <2>5. CASE UNCHANGED vars
    BY <2>5 DEF vars, cache
  <2> QED  BY <2>1, <2>2, <2>3, <2>4, <2>5
<1>2. ASSUME NEW r, Agree(r, row, listed, copy)  PROVE Agree(r, row', listed', copy')
  BY <1>1, <1>2 DEF Agree
<1>3. AtMostOne' /\ LimitKept'
  BY <1>1 DEF TurnsInv, AtMostOne, InFlight, LimitKept, Active
<1>4. Quiet' => Agree(Idle, row', listed', copy')
  BY <1>1, <1>2 DEF TurnsInv, Quiet
<1>5. \A h \in InFlight' : Agree(request'[h], row', listed', copy')
  BY <1>1, <1>2 DEF TurnsInv, InFlight
<1>6. \A h \in Requests : Current(request'[h], row')
  BY <1>1 DEF TurnsInv
<1> QED  BY <1>3, <1>4, <1>5, <1>6 DEF TurnsInv

LEMMA InitTurns == Init => TurnsInv
<1> SUFFICES ASSUME Init  PROVE TurnsInv
  OBVIOUS
<1>1. \A h \in Requests : request[h] = Idle
  BY DEF Init
<1>2. AtMostOne /\ \A h \in InFlight : Agree(request[h], row, listed, copy)
  BY <1>1 DEF AtMostOne, InFlight
<1>3. Agree(Idle, row, listed, copy)
  BY DEF Init, Agree
<1>4. LimitKept
  <2>1. Active = {}
    BY DEF Init, Active
  <2>2. Cardinality(Active) = 0
    BY <2>1, FS_EmptySet
  <2> QED  BY <2>2, Bounds DEF LimitKept
<1> QED  BY <1>1, <1>2, <1>3, <1>4, IdleCurrent DEF TurnsInv

LEMMA NextTurns ==
  IInv /\ Scenarios /\ ReadersInvForReaders /\ TurnsInvInTurns
    /\ [MCNext]_<<vars, scenario>> => TurnsInvInTurns'
<1> SUFFICES ASSUME IInv, Scenarios, ReadersInvForReaders, TurnsInvInTurns,
                    [MCNext]_<<vars, scenario>>, scenario' = "turns"
             PROVE  TurnsInv'
  BY DEF TurnsInvInTurns
<1>1. scenario = "turns" /\ ReadersInv /\ TurnsInv
  BY DEF MCNext, ReadersInvForReaders, TurnsInvInTurns
<1>2. CASE UNCHANGED vars
  BY <1>1, <1>2, TimeTurns
<1>3. CASE MCNext
  <2>1. IInv'
    BY <1>3, NextIInv DEF MCNext
  <2>2. AtMostOne' /\ faults' = 0
    <3>1. IInv' /\ Within' /\ (scenario \in {"turns", "readers"})'
          /\ (scenario = "turns")'
      BY <1>1, <1>3, <2>1 DEF MCNext
    <3>2. AtMostOne' /\ (faults = 0)'
      BY <3>1, WithinReaders, PTL
    <3> QED  BY <3>2
  <2>3. ~Crash /\ \A h \in Requests : ~Raise(h)
    <3>1. faults \in Nat
      BY DEF IInv, TypeOK
    <3> QED  BY <2>2, <3>1 DEF Crash, Raise
  <2> QED  BY <1>1, <1>3, <2>2, <2>3, BeginTurns, ListTurns, EntityTurns, SaveTurns,
              RevokeTurns, DropCopyTurns, DropListTurns, TimeTurns
           DEF MCNext, Next, Proceeds
<1> QED  BY <1>2, <1>3

LEMMA SpecTurns == MCSpec => []TurnsInvInTurns
<1>1. MCInit => TurnsInvInTurns
  BY InitTurns DEF MCInit, TurnsInvInTurns
<1>2. IInv /\ Scenarios /\ ReadersInvForReaders /\ TurnsInvInTurns
        /\ [MCNext]_<<vars, scenario>> => TurnsInvInTurns'
  BY NextTurns
<1> QED  BY <1>1, <1>2, SpecReaders, PTL DEF MCSpec

\* What Redis says of the rows.  A list filled with rows read before a
\* revocation is contradicted by the marker (RevokedMarked: a revocation is
\* only complete when the marker is set, and a marker goes only with its
\* session's last entry, since the one writer unmarks active sessions).  In
\* turns a request leaves a cache wrong only until it has dropped it (Agree),
\* and a login has revoked as many sessions as the limit asks for before it
\* inserts its own (Current, and SurplusMakesRoom for the counting).
THEOREM CachesAreSafe == MCSpec => []CachesSafe
<1>1. IInv /\ Scenarios /\ ReadersInvForReaders /\ TurnsInvInTurns => CachesSafe
  <2> SUFFICES ASSUME IInv, Scenarios, ReadersInvForReaders, TurnsInvInTurns
               PROVE  CachesSafe
    OBVIOUS
  <2>1. StaleListIsMarkedForReaders
    BY DEF ReadersInvForReaders, ReadersInv, RevokedMarked, Gone,
           StaleListIsMarkedForReaders, StaleListIsMarked
  <2>2. LimitKeptInTurns
    BY DEF TurnsInvInTurns, TurnsInv, LimitKeptInTurns
  <2>3. CachesTrueInTurns
    <3> SUFFICES ASSUME scenario = "turns", Quiet
                 PROVE  /\ listed \in {None, Active}
                        /\ \A s \in Sessions : copy[s] \in {None, row[s]}
      BY DEF CachesTrueInTurns, CachesTrue
    <3>1. Agree(Idle, row, listed, copy)
      BY DEF TurnsInvInTurns, TurnsInv
    <3> QED  BY <3>1, IdleCurrent DEF Agree, ActiveIn, Active
  <2> QED  BY <2>1, <2>2, <2>3 DEF CachesSafe, IInv
<1> QED  BY <1>1, SpecReaders, SpecTurns, PTL

-----------------------------------------------------------------------------
(* UserSessions implements LiveSessions                                    *)

Ended == {s \in Sessions : row[s] = "ended"}

LEMMA SameCount == \A ss : Promise!Cardinality(ss) = Cardinality(ss)
BY DEF Promise!Cardinality, Cardinality

LEMMA InsertPromise ==
  ASSUME IInv, TurnsInv, scenario = "turns", UNCHANGED scenario,
         NEW h \in Requests, Insert(h)
  PROVE  Promise!Next
<1> DEFINE s == Oldest({t \in Sessions : row[t] = "absent"})
<1>1. request[h].at = "insert" /\ row' = [row EXCEPT ![s] = "active"]
  BY DEF Insert
<1>2. s \in Absent
  BY <1>1, InsertNumber
<1> HIDE DEF s
<1>3. s \in Sessions /\ row[s] = "absent" /\ row'[s] = "active"
      /\ \A t \in Sessions : t # s => row'[t] = row[t]
  BY <1>1, <1>2 DEF Absent, IInv, TypeOK
<1>4. Active' = Active \union {s} /\ Ended' = Ended /\ s \notin Active \union Ended
  BY <1>3 DEF Active, Ended
<1>5. Cardinality(Active) < Limit
  BY <1>1 DEF TurnsInv, Current, ActiveIn, Active
<1>6. Promise!Login(s)
  BY <1>4, <1>5, SameCount DEF Promise!Login, Ended
<1> QED  BY <1>3, <1>6 DEF Promise!Next

LEMMA DeactivatePromise ==
  ASSUME IInv, scenario = "turns", UNCHANGED scenario,
         NEW h \in Requests, Deactivate(h)
  PROVE  [Promise!Next]_(Promise!vars)
<1> DEFINE s == request[h].sid
<1>1. row' = [row EXCEPT ![s] = "ended"] /\ s \in Existing(row) /\ s \in Sessions
  BY Soundness DEF Deactivate, Sound, Formed, Grounded, Existing
<1>2. \A t \in Sessions : row'[t] = IF t = s THEN "ended" ELSE row[t]
  BY <1>1 DEF IInv, TypeOK
<1>3. row[s] \in {"active", "ended"}
  BY <1>1 DEF IInv, TypeOK, Existing, Status
<1> HIDE DEF s
<1>4. CASE row[s] = "active"
  <2>1. PICK ss : ss = {s}
    OBVIOUS
  <2>2. Active' = Active \ ss /\ Ended' = Ended \union ss /\ ss \in SUBSET Active
        /\ ss # {}
    BY <1>1, <1>2, <1>4, <2>1 DEF Active, Ended
  <2>3. Promise!Revoke(ss)
    BY <2>2 DEF Promise!Revoke, Ended
  <2> QED  BY <2>2, <2>3 DEF Promise!Next
<1>5. CASE row[s] = "ended"
  <2>1. Active' = Active /\ Ended' = Ended
    BY <1>1, <1>2, <1>5 DEF Active, Ended
  <2> QED  BY <2>1 DEF Promise!vars, Ended
<1> QED  BY <1>3, <1>4, <1>5

LEMMA DeactivateAllPromise ==
  ASSUME IInv, scenario = "turns", UNCHANGED scenario,
         NEW h \in Requests, DeactivateAll(h)
  PROVE  [Promise!Next]_(Promise!vars)
<1>1. \A t \in Sessions : row'[t] = IF t \in Active THEN "ended" ELSE row[t]
  BY DEF DeactivateAll
<1>2. Active' = {} /\ Ended' = Ended \union Active
  BY <1>1 DEF Active, Ended
<1>3. CASE Active = {}
  BY <1>2, <1>3 DEF Promise!vars, Ended
<1>4. CASE Active # {}
  <2>1. PICK ss : ss = Active
    OBVIOUS
  <2>2. Promise!Revoke(ss)
    BY <1>2, <1>4, <2>1 DEF Promise!Revoke, Ended
  <2> QED  BY <2>1, <2>2 DEF Promise!Next
<1> QED  BY <1>3, <1>4

\* When the requests of a user take turns and none fails, every step is one
\* of LiveSessions or none: an insert begins a session while fewer than Limit
\* are live, an update of the column isActive to FALSE ends those it finds
\* active, and no other step, the save of an entity included, changes a row.
THEOREM SessionsImplementLiveSessions == MCSpec => ImplementsLiveSessions
<1>1. MCInit => Promise!Init
  BY DEF MCInit, Init, Promise!Init, Active
<1>2. IInv /\ Scenarios /\ ReadersInvForReaders /\ TurnsInvInTurns
        /\ [MCNext]_<<vars, scenario>> => [Promise!Next]_(Promise!vars)
  <2> SUFFICES ASSUME IInv, Scenarios, ReadersInvForReaders, TurnsInvInTurns,
                      [MCNext]_<<vars, scenario>>
               PROVE  [Promise!Next]_(Promise!vars)
    OBVIOUS
  <2>1. UNCHANGED scenario
    BY DEF MCNext
  <2>2. CASE scenario # "turns" \/ UNCHANGED row
    BY <2>1, <2>2 DEF Promise!vars, Active
  <2>3. CASE scenario = "turns" /\ row' # row
    <3>1. MCNext /\ ReadersInv /\ TurnsInv
      BY <2>3 DEF vars, ReadersInvForReaders, TurnsInvInTurns
    <3>2. ~ \E s \in Sessions : SessionExpires(s) \/ EntryExpires(s)
      BY <2>3 DEF SessionExpires, EntryExpires
    <3>3. ~ListExpires /\ ~TenMinutesPass /\ ~Crash
      BY <2>3 DEF ListExpires, TenMinutesPass, Crash
    <3>4. PICK h \in Requests : Begins(h) \/ Proceeds(h) \/ Raise(h)
      BY <3>1, <3>2, <3>3 DEF MCNext, Next
    <3>5. ~Begins(h) /\ ~Raise(h)
      BY <2>3 DEF Begins, Login, ListMySessions, Refresh, Logout,
                  RevokeSessionForUser, RevokeAllUserSessions, Raise
    <3>6. ~(GetList(h) \/ FindActive(h) \/ SetList(h) \/ Check(h)
              \/ GetCopy(h) \/ FindRow(h) \/ SetCopy(h) \/ Select(h) \/ Unmark(h)
              \/ FindAll(h) \/ Mark(h) \/ DropCopy(h) \/ DropList(h))
      BY <2>3 DEF GetList, FindActive, SetList, Check, GetCopy, FindRow, SetCopy,
                  Select, Unmark, FindAll, Mark, DropCopy, DropList
    <3>7. ~Update(h)
      <4>1. Informed(request[h], row, Gone)
        BY <3>1 DEF ReadersInv
      <4> QED  BY <2>3, <4>1 DEF Update, Informed
    <3> QED  BY <2>1, <2>3, <3>1, <3>4, <3>5, <3>6, <3>7, InsertPromise,
                DeactivatePromise, DeactivateAllPromise
             DEF Proceeds
  <2> QED  BY <2>2, <2>3
<1> QED  BY <1>1, <1>2, SpecReaders, SpecTurns, PTL
         DEF MCSpec, ImplementsLiveSessions, Promise!Spec

=============================================================================
