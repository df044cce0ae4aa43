--------------------------- MODULE LockoutProofs ---------------------------
(***************************************************************************)
(* Proofs about LoginLockout, for every value of its constants.            *)
(*                                                                         *)
(* A request is what it has still to do.  Ordered says how the steps of a  *)
(* plan stand to each other in every operation; what the rows, the copy in *)
(* Redis and the keys are like follows from which steps are still ahead    *)
(* (Has).                                                                  *)
(***************************************************************************)
EXTENDS MCLockout, FiniteSetTheorems, TLAPS

Steps(p) == {p[i] : i \in 1 .. Len(p)}

\* A request has yet to take a step.
Has(r, step) == step \in Steps(r.plan)

\* Every save is followed by an invalidation; what is kept was just found; the
\* steps that decide how to go on stand at the end.
Ordered(p) ==
  /\ \A i \in 1 .. Len(p) : p[i] \in {"save", "saveLocked", "record"} =>
       \E j \in i + 1 .. Len(p) : p[j] = "invalidate"
  /\ \A i \in 2 .. Len(p) : p[i] = "keep" => p[i - 1] = "find"
  /\ \A i \in 1 .. Len(p) :
       /\ p[i] \in {"count", "countFailed"} => i = Len(p)
       /\ p[i] \in {"checkLock", "rekey"} => Len(p) = 1

\* A lock ends at the latest when the model's time does.
Timed(u) == u.until \in 0 .. MaxTime + 1

\* What is saved, counted and checked, and by whom.
Sound(r) ==
  /\ Timed(r.entity) /\ Ordered(r.plan)
  /\ r.plan = <<>> \/ r.op = "none" => r = Idle
  /\ Has(r, "save") => r.op # "lock"
  /\ Has(r, "checkLock") \/ Has(r, "rekey") => r.op \in {"wrong", "right"}
  /\ Has(r, "count") \/ Has(r, "countFailed") => r.op = "wrong"

IInv ==
  /\ TypeOK
  /\ Timed(row) /\ (cache # None => Timed(cache))
  /\ \A h \in Requests : Sound(request[h])

-----------------------------------------------------------------------------
(* In turns                                                                *)

OneAtATime ==
  \A g, h \in Requests : request[g] # Idle /\ request[h] # Idle => g = h

\* Operations that read the account and save it with a change.
Changes == {"unlock", "job", "suspend", "activate", "patch", "edit"}

Changing ==
  {"get", "find", "keep", "save", "delFailed", "delKey", "invalidate"}

\* What a request in flight knows of the row and of its copy in Redis.
Knows(r, user, copy) ==
  /\ r.plan # <<>> /\ Head(r.plan) = "keep" => r.entity = user
  /\ r.op \in Changes => Steps(r.plan) \subseteq Changing
  /\ r.op = "suspend" =>
       /\ ~Has(r, "save") => user.status = "suspended"
       /\ ~Has(r, "invalidate") => copy = None \/ copy.status = "suspended"
  /\ r.barred /\ Has(r, "checkLock") => r.entity.status = "suspended"

\* What is in flight will not let a suspended user in.
Stays(r) ==
  r # Idle =>
    /\ r.entity.status = "suspended"
    /\ \/ r.op \in {"suspend", "unlock", "edit"}
       \/ r.op \in {"wrong", "right"} /\ r.plan = <<"checkLock">>

Barred ==
  /\ row.status = "suspended"
  /\ cache # None => cache.status = "suspended"
  /\ \A h \in Requests : Stays(request[h])

TurnInv ==
  /\ OneAtATime
  /\ ~intruder
  /\ \A h \in Requests : Knows(request[h], row, cache)
  /\ barred => Barred
  /\ faults = 0 =>
       cache \in {None, row} \/ \E h \in Requests : Has(request[h], "invalidate")

-----------------------------------------------------------------------------
(* Without turns                                                           *)

\* Nobody but the job lifts a lock.
Plain(u) == u.isLocked => u.status = "locked"

\* A request that changes the account without turns.
Careful(r) ==
  /\ r.op \in {"none", "wrong", "edit", "lock", "job"}
  /\ Plain(r.entity)
  /\ Has(r, "rekey") => r.entity.until # 0
  /\ r.op # "job" =>
       Steps(r.plan) \cap {"delFailed", "delKey", "reset", "record"} = {}

\* A wrong password that is counted, not answered, and will set no key.
Lenient(r) ==
  /\ r.op = "wrong"
  /\ Has(r, "get") \/ Has(r, "keep")
  /\ ~Has(r, "countFailed") /\ ~Has(r, "setKey")

LenientOnes == {h \in Requests : Lenient(request[h])}

\* Without a key no lock stands, and the wrong passwords are counted and few.
Open ==
  /\ ~standing
  /\ misses + Cardinality(LenientOnes) <= failed
  /\ misses + Cardinality(LenientOnes) < Threshold

CrowdInv ==
  /\ Plain(row) /\ (cache # None => Plain(cache))
  /\ \A h \in Requests : Careful(request[h])
  /\ now = 0 =>
       /\ lockKey # 0 \/ Open
       /\ \A h \in Requests :
            /\ request[h].op # "job"
            /\ request[h].op = "lock" =>
                 lockKey # 0 \/ Has(request[h], "setKey")
  /\ now # 0 =>
       /\ misses = 0 /\ ~standing
       /\ \A h \in Requests : request[h].op \notin {"wrong", "lock"}

ScenarioInv ==
  IF scenario = "turns" THEN TurnInv ELSE CrowdInv

-----------------------------------------------------------------------------
(* Plans                                                                   *)

LEMMA TailOf ==
  ASSUME NEW p \in Seq(Step), p # <<>>
  PROVE  /\ Len(p) \in Nat /\ Len(p) >= 1 /\ Head(p) = p[1]
         /\ Tail(p) \in Seq(Step) /\ Len(Tail(p)) = Len(p) - 1
         /\ \A i \in 1 .. Len(p) - 1 : Tail(p)[i] = p[i + 1]
  OBVIOUS

LEMMA FoundOf ==
  ASSUME NEW p \in Seq(Step), p # <<>>
  PROVE  LET q == <<"find", "keep">> \o Tail(p) IN
         /\ q \in Seq(Step) /\ Len(q) = Len(p) + 1
         /\ q[1] = "find" /\ q[2] = "keep"
         /\ \A i \in 3 .. Len(p) + 1 : q[i] = p[i - 1]
<1>1. /\ Tail(p) \in Seq(Step) /\ Len(Tail(p)) = Len(p) - 1
      /\ Len(p) \in Nat /\ Len(p) >= 1
      /\ \A i \in 1 .. Len(p) - 1 : Tail(p)[i] = p[i + 1]
  BY TailOf
<1>2. <<"find", "keep">> \in Seq(Step)
  BY DEF Step
<1> HIDE DEF Step
<1> QED
  BY <1>1, <1>2

LEMMA StepsOf ==
  ASSUME NEW p \in Seq(Step), p # <<>>
  PROVE  /\ Steps(p) = {Head(p)} \union Steps(Tail(p))
         /\ Steps(<<"find", "keep">> \o Tail(p))
              = {"find", "keep"} \union Steps(Tail(p))
         /\ Len(p) = 1 => Steps(Tail(p)) = {}
<1> DEFINE t == Tail(p)
           q == <<"find", "keep">> \o Tail(p)
<1>1. /\ Len(p) \in Nat /\ Len(p) >= 1 /\ Head(p) = p[1]
      /\ Len(t) = Len(p) - 1 /\ \A i \in 1 .. Len(p) - 1 : t[i] = p[i + 1]
      /\ Len(q) = Len(p) + 1 /\ q[1] = "find" /\ q[2] = "keep"
      /\ \A i \in 3 .. Len(p) + 1 : q[i] = p[i - 1]
  BY TailOf, FoundOf
<1> HIDE DEF t, q
<1>2. Steps(t) = {p[i] : i \in 2 .. Len(p)}
  <2>1. ASSUME NEW i \in 2 .. Len(p)
        PROVE  i - 1 \in 1 .. Len(t) /\ t[i - 1] = p[i]
    BY <1>1
  <2>2. \A i \in 1 .. Len(t) : i + 1 \in 2 .. Len(p) /\ t[i] = p[i + 1]
    BY <1>1
  <2> QED
    BY <2>1, <2>2 DEF Steps
<1>3. Steps(q) = {"find", "keep"} \union {p[i] : i \in 2 .. Len(p)}
  <2>1. \A i \in 1 .. Len(q) :
          \/ i = 1 /\ q[i] = "find"
          \/ i = 2 /\ q[i] = "keep"
          \/ i - 1 \in 2 .. Len(p) /\ q[i] = p[i - 1]
    BY <1>1
  <2>2. \A i \in 2 .. Len(p) : i + 1 \in 1 .. Len(q) /\ q[i + 1] = p[i]
    BY <1>1
  <2>3. 1 \in 1 .. Len(q) /\ 2 \in 1 .. Len(q)
    BY <1>1
  <2> QED
    BY <1>1, <2>1, <2>2, <2>3 DEF Steps
<1>4. Steps(p) = {p[1]} \union {p[i] : i \in 2 .. Len(p)}
  <2>1. 1 .. Len(p) = {1} \union 2 .. Len(p)
    BY <1>1
  <2> QED
    BY <2>1 DEF Steps
<1>5. Len(p) = 1 => 2 .. Len(p) = {}
  OBVIOUS
<1> QED
  BY <1>1, <1>2, <1>3, <1>4, <1>5 DEF t, q

LEMMA ConcatOf ==
  ASSUME NEW p \in Seq(Step), NEW q \in Seq(Step)
  PROVE  /\ p \o q \in Seq(Step)
         /\ Len(p) \in Nat /\ Len(q) \in Nat /\ Len(p \o q) = Len(p) + Len(q)
         /\ \A i \in 1 .. Len(p) : (p \o q)[i] = p[i]
         /\ \A i \in 1 .. Len(q) : (p \o q)[Len(p) + i] = q[i]
         /\ Steps(p \o q) = Steps(p) \union Steps(q)
<1> HIDE DEF Step
<1> DEFINE s == p \o q
<1>1. /\ p \o q \in Seq(Step)
      /\ Len(p) \in Nat /\ Len(q) \in Nat /\ Len(s) = Len(p) + Len(q)
      /\ \A i \in 1 .. Len(p) : s[i] = p[i]
      /\ \A i \in Len(p) + 1 .. Len(p) + Len(q) : s[i] = q[i - Len(p)]
  OBVIOUS
<1> HIDE DEF s
<1>2. \A i \in 1 .. Len(q) : s[Len(p) + i] = q[i]
  <2> TAKE i \in 1 .. Len(q)
  <2>1. /\ Len(p) + i \in Len(p) + 1 .. Len(p) + Len(q)
        /\ (Len(p) + i) - Len(p) = i
    BY <1>1
  <2> QED
    BY <1>1, <2>1
<1>3. \A i \in 1 .. Len(s) :
        \/ i \in 1 .. Len(p) /\ s[i] = p[i]
        \/ i - Len(p) \in 1 .. Len(q) /\ s[i] = q[i - Len(p)]
  BY <1>1
<1>4. /\ \A i \in 1 .. Len(p) : i \in 1 .. Len(s)
      /\ \A i \in 1 .. Len(q) : Len(p) + i \in 1 .. Len(s)
  BY <1>1
<1>5. Steps(s) = Steps(p) \union Steps(q)
  <2>1. ASSUME NEW e \in Steps(s)
        PROVE  e \in Steps(p) \union Steps(q)
    <3>1. PICK i \in 1 .. Len(s) : e = s[i]
      BY DEF Steps
    <3> QED
      BY <1>3, <3>1 DEF Steps
  <2>2. ASSUME NEW e \in Steps(p)
        PROVE  e \in Steps(s)
    <3>1. PICK i \in 1 .. Len(p) : e = p[i]
      BY DEF Steps
    <3> QED
      BY <1>1, <1>4, <3>1 DEF Steps
  <2>3. ASSUME NEW e \in Steps(q)
        PROVE  e \in Steps(s)
    <3>1. PICK i \in 1 .. Len(q) : e = q[i]
      BY DEF Steps
    <3>2. e = s[Len(p) + i] /\ Len(p) + i \in 1 .. Len(s)
      BY <1>2, <1>4, <3>1
    <3> QED
      BY <3>2 DEF Steps
  <2> QED
    BY <2>1, <2>2, <2>3
<1> QED
  BY <1>1, <1>2, <1>5 DEF s

\* One plan after another, of which only the second decides how to go on.
LEMMA ConcatOrdered ==
  ASSUME NEW p \in Seq(Step), NEW q \in Seq(Step), Ordered(p), Ordered(q),
         Steps(p) \cap {"checkLock", "rekey", "count", "countFailed"} = {},
         Steps(q) \cap {"checkLock", "rekey", "keep"} = {}
  PROVE  Ordered(p \o q)
<1> DEFINE s == p \o q
           m == Len(p)
<1>1. /\ m \in Nat /\ Len(q) \in Nat /\ Len(s) = m + Len(q)
      /\ \A i \in 1 .. m : s[i] = p[i]
      /\ \A i \in 1 .. Len(q) : s[m + i] = q[i]
  BY ConcatOf
<1> HIDE DEF s, m
<1>2. ASSUME NEW i \in 1 .. Len(s)
      PROVE  \/ i \in 1 .. m /\ s[i] = p[i]
             \/ \E k \in 1 .. Len(q) : i = m + k /\ s[i] = q[k]
  <2>1. i \in 1 .. m \/ i - m \in 1 .. Len(q)
    BY <1>1
  <2>2. i = m + (i - m)
    BY <1>1
  <2> QED
    BY <1>1, <2>1, <2>2
<1>3. ASSUME NEW i \in 1 .. Len(s), s[i] \in {"save", "saveLocked", "record"}
      PROVE  \E j \in i + 1 .. Len(s) : s[j] = "invalidate"
  <2>1. CASE i \in 1 .. m /\ s[i] = p[i]
    <3>1. PICK j \in i + 1 .. m : p[j] = "invalidate"
      BY <1>3, <2>1 DEF Ordered, m
    <3> QED
      BY <1>1, <2>1, <3>1
  <2>2. ASSUME NEW k \in 1 .. Len(q), i = m + k, s[i] = q[k]
        PROVE  \E j \in i + 1 .. Len(s) : s[j] = "invalidate"
    <3>1. PICK j \in k + 1 .. Len(q) : q[j] = "invalidate"
      BY <1>3, <2>2 DEF Ordered
    <3>2. m + j \in i + 1 .. Len(s) /\ s[m + j] = "invalidate"
      BY <1>1, <2>2, <3>1
    <3> QED
      BY <3>2
  <2> QED
    BY <1>2, <2>1, <2>2
<1>4. ASSUME NEW i \in 2 .. Len(s), s[i] = "keep"
      PROVE  s[i - 1] = "find"
  <2>1. \A k \in 1 .. Len(q) : q[k] # "keep"
    BY DEF Steps
  <2>2. i \in 1 .. m /\ s[i] = p[i] /\ i \in 2 .. m
    BY <1>1, <1>2, <1>4, <2>1
  <2> QED
    BY <1>1, <1>4, <2>2 DEF Ordered, m
<1>5. ASSUME NEW i \in 1 .. Len(s)
      PROVE  /\ s[i] \in {"count", "countFailed"} => i = Len(s)
             /\ s[i] \notin {"checkLock", "rekey"}
  <2>1. \A k \in 1 .. m :
          p[k] \notin {"checkLock", "rekey", "count", "countFailed"}
    BY DEF Steps, m
  <2>2. \A k \in 1 .. Len(q) :
          /\ q[k] \in {"count", "countFailed"} => k = Len(q)
          /\ q[k] \notin {"checkLock", "rekey"}
    BY DEF Ordered, Steps
  <2> QED
    BY <1>1, <1>2, <2>1, <2>2
<1> QED
  BY <1>3, <1>4, <1>5 DEF Ordered, s

LEMMA TailOrdered ==
  ASSUME NEW p \in Seq(Step), p # <<>>, Ordered(p)
  PROVE  Ordered(Tail(p))
<1> DEFINE q == Tail(p)
<1>1. /\ Len(p) \in Nat /\ Len(p) >= 1 /\ Len(q) = Len(p) - 1
      /\ \A i \in 1 .. Len(p) - 1 : q[i] = p[i + 1]
  BY TailOf
<1> HIDE DEF q
<1>2. ASSUME NEW i \in 1 .. Len(q), q[i] \in {"save", "saveLocked", "record"}
      PROVE  \E j \in i + 1 .. Len(q) : q[j] = "invalidate"
  <2>1. p[i + 1] \in {"save", "saveLocked", "record"}
    BY <1>1, <1>2
  <2>2. PICK j \in i + 2 .. Len(p) : p[j] = "invalidate"
    BY <1>1, <2>1 DEF Ordered
  <2>3. j - 1 \in i + 1 .. Len(q) /\ q[j - 1] = "invalidate"
    BY <1>1, <2>2
  <2> QED
    BY <2>3
<1>3. ASSUME NEW i \in 2 .. Len(q), q[i] = "keep"
      PROVE  q[i - 1] = "find"
  <2>1. p[i + 1] = "keep" /\ i + 1 \in 2 .. Len(p)
    BY <1>1, <1>3
  <2>2. p[i + 1 - 1] = "find"
    BY <2>1 DEF Ordered
  <2> QED
    BY <1>1, <2>2
<1>4. ASSUME NEW i \in 1 .. Len(q)
      PROVE  /\ q[i] \in {"count", "countFailed"} => i = Len(q)
             /\ q[i] \in {"checkLock", "rekey"} => Len(q) = 1
  BY <1>1 DEF Ordered
<1> QED
  BY <1>2, <1>3, <1>4 DEF Ordered, q

LEMMA FoundOrdered ==
  ASSUME NEW p \in Seq(Step), p # <<>>, Head(p) = "get", Ordered(p)
  PROVE  Ordered(<<"find", "keep">> \o Tail(p))
<1> DEFINE q == <<"find", "keep">> \o Tail(p)
<1>1. /\ Len(p) \in Nat /\ Len(p) >= 1 /\ Len(q) = Len(p) + 1
      /\ q[1] = "find" /\ q[2] = "keep" /\ p[1] = "get"
      /\ \A i \in 3 .. Len(p) + 1 : q[i] = p[i - 1]
  BY TailOf, FoundOf
<1> HIDE DEF q
<1>2. ASSUME NEW i \in 1 .. Len(q), q[i] \in {"save", "saveLocked", "record"}
      PROVE  \E j \in i + 1 .. Len(q) : q[j] = "invalidate"
  <2>1. i >= 3 /\ p[i - 1] \in {"save", "saveLocked", "record"}
    BY <1>1, <1>2
  <2>2. PICK j \in i .. Len(p) : p[j] = "invalidate"
    BY <1>1, <2>1 DEF Ordered
  <2>3. j + 1 \in i + 1 .. Len(q) /\ q[j + 1] = "invalidate"
    BY <1>1, <2>1, <2>2
  <2> QED
    BY <2>3
<1>3. ASSUME NEW i \in 2 .. Len(q), q[i] = "keep"
      PROVE  q[i - 1] = "find"
  <2>1. CASE i = 2
    BY <1>1, <2>1
  <2>2. CASE i = 3
    BY <1>1, <1>3, <2>2 DEF Ordered
  <2>3. CASE i > 3
    BY <1>1, <1>3, <2>3 DEF Ordered
  <2> QED
    BY <2>1, <2>2, <2>3
<1>4. ASSUME NEW i \in 1 .. Len(q)
      PROVE  /\ q[i] \in {"count", "countFailed"} => i = Len(q)
             /\ q[i] \in {"checkLock", "rekey"} => Len(q) = 1
  BY <1>1 DEF Ordered
<1> QED
  BY <1>2, <1>3, <1>4 DEF Ordered, q

\* The plans, written out.
LEMMA Plans ==
  ASSUME NEW op \in Operations
  PROVE  Plan(op) =
    CASE op \in {"wrong", "right"} -> <<"checkLock">>
      [] op = "lock" ->
           <<"get", "saveLocked", "setKey", "invalidate", "get">>
      [] op \in {"unlock", "job"} ->
           <<"get", "save", "delFailed", "delKey", "invalidate", "get">>
      [] op \in {"suspend", "activate"} ->
           <<"get", "delKey", "save", "invalidate", "get">>
      [] op \in {"patch", "edit"} -> <<"get", "save", "invalidate", "get">>
      [] op = "dormant" -> <<"save", "delFailed", "delKey", "invalidate">>
<1> USE DEF Plan, Changed, Locking, Operations
<1>1. CASE op = "lock"
  BY <1>1
<1>2. CASE op \in {"unlock", "job"}
  BY <1>2
<1>3. CASE op \in {"suspend", "activate"}
  BY <1>3
<1>4. CASE op \in {"patch", "edit"}
  BY <1>4
<1> QED
  BY <1>1, <1>2, <1>3, <1>4

LEMMA PlanOrdered ==
  ASSUME NEW op \in Operations
  PROVE  Plan(op) \in Seq(Step) /\ Ordered(Plan(op)) /\ Plan(op) # <<>>
<1>1. PICK p : p = Plan(op)
  OBVIOUS
<1>2. CASE op \in {"wrong", "right"}
  <2>1. p = <<"checkLock">>
    BY <1>1, <1>2, Plans
  <2>2. p \in Seq(Step) /\ p # <<>>
    BY <2>1 DEF Step
  <2>3. Ordered(p)
    BY <2>1 DEF Ordered
  <2> QED
    BY <1>1, <2>2, <2>3
<1>3. CASE op = "lock"
  <2>1. p = <<"get", "saveLocked", "setKey", "invalidate", "get">>
    BY <1>1, <1>3, Plans
  <2>2. p \in Seq(Step) /\ p # <<>>
    BY <2>1 DEF Step
  <2>3. Ordered(p)
    BY <2>1 DEF Ordered
  <2> QED
    BY <1>1, <2>2, <2>3
<1>4. CASE op \in {"unlock", "job"}
  <2>1. p = <<"get", "save", "delFailed", "delKey", "invalidate", "get">>
    BY <1>1, <1>4, Plans
  <2>2. p \in Seq(Step) /\ p # <<>>
    BY <2>1 DEF Step
  <2>3. Ordered(p)
    BY <2>1 DEF Ordered
  <2> QED
    BY <1>1, <2>2, <2>3
<1>5. CASE op \in {"suspend", "activate"}
  <2>1. p = <<"get", "delKey", "save", "invalidate", "get">>
    BY <1>1, <1>5, Plans
  <2>2. p \in Seq(Step) /\ p # <<>>
    BY <2>1 DEF Step
  <2>3. Ordered(p)
    BY <2>1 DEF Ordered
  <2> QED
    BY <1>1, <2>2, <2>3
<1>6. CASE op \in {"patch", "edit"}
  <2>1. p = <<"get", "save", "invalidate", "get">>
    BY <1>1, <1>6, Plans
  <2>2. p \in Seq(Step) /\ p # <<>>
    BY <2>1 DEF Step
  <2>3. Ordered(p)
    BY <2>1 DEF Ordered
  <2> QED
    BY <1>1, <2>2, <2>3
<1>7. CASE op = "dormant"
  <2>1. p = <<"save", "delFailed", "delKey", "invalidate">>
    BY <1>1, <1>7, Plans
  <2>2. p \in Seq(Step) /\ p # <<>>
    BY <2>1 DEF Step
  <2>3. Ordered(p)
    BY <2>1 DEF Ordered
  <2> QED
    BY <1>1, <2>2, <2>3
<1> QED
  BY <1>2, <1>3, <1>4, <1>5, <1>6, <1>7 DEF Operations

LEMMA Pieces ==
  /\ <<>> \in Seq(Step) /\ Ordered(<<>>) /\ Steps(<<>>) = {}
  /\ \A p \in {<<"count">>, <<"setKey">>, <<"save", "invalidate", "get">>,
               <<"save", "delFailed", "delKey", "invalidate">>,
               <<"reset", "record", "delFailed", "delKey", "invalidate">>,
               <<"get", "saveLocked", "setKey", "invalidate", "get">>} :
       p \in Seq(Step) /\ Ordered(p) /\ p # <<>>
  /\ Steps(<<"count">>) = {"count"} /\ Steps(<<"setKey">>) = {"setKey"}
  /\ Steps(<<"save", "invalidate", "get">>) = {"save", "invalidate", "get"}
  /\ Steps(<<"save", "delFailed", "delKey", "invalidate">>)
       = {"save", "delFailed", "delKey", "invalidate"}
  /\ Steps(<<"reset", "record", "delFailed", "delKey", "invalidate">>)
       = {"reset", "record", "delFailed", "delKey", "invalidate"}
  /\ Steps(<<"get", "saveLocked", "setKey", "invalidate", "get">>)
       = {"get", "saveLocked", "setKey", "invalidate"}
<1>1. <<>> \in Seq(Step) /\ Ordered(<<>>) /\ Steps(<<>>) = {}
  BY DEF Ordered, Steps
<1>2. ASSUME NEW p \in
               {<<"count">>, <<"setKey">>, <<"save", "invalidate", "get">>,
               <<"save", "delFailed", "delKey", "invalidate">>,
               <<"reset", "record", "delFailed", "delKey", "invalidate">>,
               <<"get", "saveLocked", "setKey", "invalidate", "get">>}
      PROVE  p \in Seq(Step) /\ Ordered(p) /\ p # <<>>
  <2>1. CASE p = <<"count">>
    <3>1. p \in Seq(Step) /\ p # <<>>
      BY <2>1 DEF Step
    <3>2. Ordered(p)
      BY <2>1 DEF Ordered
    <3> QED
      BY <3>1, <3>2
  <2>2. CASE p = <<"setKey">>
    <3>1. p \in Seq(Step) /\ p # <<>>
      BY <2>2 DEF Step
    <3>2. Ordered(p)
      BY <2>2 DEF Ordered
    <3> QED
      BY <3>1, <3>2
  <2>3. CASE p = <<"save", "invalidate", "get">>
    <3>1. p \in Seq(Step) /\ p # <<>>
      BY <2>3 DEF Step
    <3>2. Ordered(p)
      BY <2>3 DEF Ordered
    <3> QED
      BY <3>1, <3>2
  <2>4. CASE p = <<"save", "delFailed", "delKey", "invalidate">>
    <3>1. p \in Seq(Step) /\ p # <<>>
      BY <2>4 DEF Step
    <3>2. Ordered(p)
      BY <2>4 DEF Ordered
    <3> QED
      BY <3>1, <3>2
  <2>5. CASE p = <<"reset", "record", "delFailed", "delKey", "invalidate">>
    <3>1. p \in Seq(Step) /\ p # <<>>
      BY <2>5 DEF Step
    <3>2. Ordered(p)
      BY <2>5 DEF Ordered
    <3> QED
      BY <3>1, <3>2
  <2>6. CASE p = <<"get", "saveLocked", "setKey", "invalidate", "get">>
    <3>1. p \in Seq(Step) /\ p # <<>>
      BY <2>6 DEF Step
    <3>2. Ordered(p)
      BY <2>6 DEF Ordered
    <3> QED
      BY <3>1, <3>2
  <2> QED
    BY <2>1, <2>2, <2>3, <2>4, <2>5, <2>6
<1>3. Steps(<<"count">>) = {"count"} /\ Steps(<<"setKey">>) = {"setKey"}
  BY DEF Steps
<1>4. Steps(<<"save", "invalidate", "get">>) = {"save", "invalidate", "get"}
  BY DEF Steps
<1>5. Steps(<<"save", "delFailed", "delKey", "invalidate">>)
       = {"save", "delFailed", "delKey", "invalidate"}
  BY DEF Steps
<1>6. Steps(<<"reset", "record", "delFailed", "delKey", "invalidate">>)
       = {"reset", "record", "delFailed", "delKey", "invalidate"}
  BY DEF Steps
<1>7. Steps(<<"get", "saveLocked", "setKey", "invalidate", "get">>)
       = {"get", "saveLocked", "setKey", "invalidate"}
  BY DEF Steps
<1> QED
  BY <1>1, <1>2, <1>3, <1>4, <1>5, <1>6, <1>7

\* The plan of a login that is accepted, a lock whose time is over lifted
\* before, or not.
LEMMA AcceptedPlan ==
  ASSUME NEW op \in {"wrong", "right"},
         NEW lift \in {<<>>, <<"save", "delFailed", "delKey", "invalidate">>}
  PROVE  LET p == lift \o Accepted(op) IN
         /\ p \in Seq(Step) /\ Ordered(p) /\ p # <<>>
         /\ Steps(p) = Steps(lift) \union Steps(Accepted(op))
         /\ Steps(p) \cap {"checkLock", "rekey", "countFailed", "keep"} = {}
         /\ "count" \in Steps(p) => op = "wrong"
<1>1. /\ Accepted(op) \in Seq(Step) /\ Ordered(Accepted(op))
      /\ Accepted(op) # <<>>
      /\ Steps(Accepted(op))
           \cap {"checkLock", "rekey", "keep", "countFailed"} = {}
      /\ "count" \in Steps(Accepted(op)) => op = "wrong"
  BY Pieces DEF Accepted
<1>2. /\ lift \in Seq(Step) /\ Ordered(lift)
      /\ Steps(lift)
           \cap {"checkLock", "rekey", "count", "countFailed", "keep"} = {}
  BY Pieces
<1>3. Len(Accepted(op)) >= 1 /\ <<>> \in Seq(Step) /\ Len(<<>>) = 0
  BY <1>1, TailOf
<1> DEFINE p == lift \o Accepted(op)
<1>4. Ordered(p)
  BY <1>1, <1>2, ConcatOrdered
<1>5. /\ p \in Seq(Step) /\ Steps(p) = Steps(lift) \union Steps(Accepted(op))
      /\ Len(p) = Len(lift) + Len(Accepted(op)) /\ Len(lift) \in Nat
  BY <1>1, <1>2, ConcatOf
<1>6. Len(p) # 0
  BY <1>1, <1>3, <1>5, TailOf
<1> HIDE DEF p
<1>7. p # <<>>
  BY <1>3, <1>6
<1> QED
  BY <1>1, <1>2, <1>4, <1>5, <1>7 DEF p

\* The plan of a wrong password that was counted.
LEMMA PenaltyPlan ==
  ASSUME NEW u, NEW count
  PROVE  LET p == Penalty(u, count) IN
         /\ p \in Seq(Step) /\ Ordered(p) /\ p # <<>>
         /\ Head(p) \in {"setKey", "save"}
         /\ Steps(p) \subseteq
              {"setKey", "save", "invalidate", "get", "saveLocked"}
         /\ "get" \in Steps(p)
         /\ Failures(u) >= Threshold => "setKey" \in Steps(p)
<1> DEFINE a == IF Failures(u) >= Threshold THEN <<"setKey">> ELSE <<>>
           b == <<"save", "invalidate", "get">>
           c == IF count >= Block THEN Locking ELSE <<>>
<1>1. Locking = <<"get", "saveLocked", "setKey", "invalidate", "get">>
  <2>1. Plan("lock") = Locking /\ "lock" \in Operations
    BY DEF Plan, Operations
  <2> QED
    BY <2>1, Plans
<1>2. /\ a \in Seq(Step) /\ Ordered(a) /\ Steps(a) \subseteq {"setKey"}
      /\ Failures(u) >= Threshold => Steps(a) = {"setKey"}
  BY Pieces
<1>3. /\ b \in Seq(Step) /\ Ordered(b) /\ b # <<>>
      /\ Steps(b) = {"save", "invalidate", "get"}
  BY Pieces
<1>4. /\ c \in Seq(Step) /\ Ordered(c)
      /\ Steps(c) \subseteq {"get", "saveLocked", "setKey", "invalidate"}
  BY <1>1, Pieces
<1>5. /\ Failures(u) >= Threshold => Len(a) = 1 /\ a[1] = "setKey"
      /\ ~(Failures(u) >= Threshold) => Len(a) = 0
      /\ Len(b) = 3 /\ b[1] = "save"
  OBVIOUS
<1> DEFINE d == a \o b
<1> HIDE DEF a, b, c
<1>6. Len(d) >= 1 /\ d[1] \in {"setKey", "save"}
  BY <1>2, <1>3, <1>5, ConcatOf
<1>7. /\ d \in Seq(Step) /\ Ordered(d) /\ Len(d) \in Nat
      /\ Steps(d) = Steps(a) \union Steps(b)
  BY <1>2, <1>3, ConcatOf, ConcatOrdered
<1> HIDE DEF d
<1>8. /\ d \o c \in Seq(Step) /\ Ordered(d \o c)
      /\ Steps(d \o c) = Steps(a) \union Steps(b) \union Steps(c)
      /\ Len(d \o c) >= 1 /\ (d \o c)[1] = d[1]
  <2>1. Steps(d) \cap {"checkLock", "rekey", "count", "countFailed"} = {}
    BY <1>2, <1>3, <1>7
  <2>2. Steps(c) \cap {"checkLock", "rekey", "keep"} = {}
    BY <1>4
  <2>3. Ordered(d \o c)
    BY <1>4, <1>7, <2>1, <2>2, ConcatOrdered
  <2>4. /\ d \o c \in Seq(Step) /\ Len(d \o c) = Len(d) + Len(c)
        /\ Len(c) \in Nat
        /\ \A i \in 1 .. Len(d) : (d \o c)[i] = d[i]
        /\ Steps(d \o c) = Steps(d) \union Steps(c)
    BY <1>4, <1>7, ConcatOf
  <2>5. Len(d \o c) >= 1 /\ (d \o c)[1] = d[1]
    BY <1>6, <1>7, <2>4
  <2> QED
    BY <1>7, <2>3, <2>4, <2>5
<1>9. Penalty(u, count) = d \o c
  BY DEF Penalty, a, b, c, d
<1>10. \A p \in Seq(Step) : Len(p) >= 1 => p # <<>> /\ Head(p) = p[1]
  OBVIOUS
<1> QED
  BY <1>2, <1>3, <1>4, <1>6, <1>8, <1>9, <1>10

\* What a request is when it has taken a step.
LEMMA RestOf ==
  ASSUME NEW r \in Request, r.plan # <<>>
  PROVE  /\ Rest(r) \in Request
         /\ Len(r.plan) = 1 => Rest(r) = Idle
         /\ Len(r.plan) # 1 =>
              /\ Rest(r).plan = Tail(r.plan) /\ Rest(r).op = r.op
              /\ Rest(r).entity = r.entity /\ Rest(r).count = r.count
              /\ Rest(r).barred = r.barred
<1>1. r.plan \in Seq(Step) /\ Tail(r.plan) \in Seq(Step)
  BY TailOf DEF Request
<1>2. Idle \in Request
  BY DEF Idle, Request, NewUser, User
<1> QED
  BY <1>1, <1>2 DEF Rest, Request

-----------------------------------------------------------------------------
(* Types                                                                   *)

LEMMA Users ==
  ASSUME NEW u \in User, Timed(u), now \in 0 .. MaxTime
  PROVE  /\ LockedUser(u) \in User /\ Timed(LockedUser(u))
         /\ UnlockedUser(u) \in User /\ Timed(UnlockedUser(u))
         /\ \A op \in Operations \ {"lock"} :
              Edited(op, u) \in User /\ Timed(Edited(op, u))
<1>0. /\ MaxTime \in Nat /\ now + 1 \in 0 .. MaxTime + 1 /\ now + 1 \in Nat
      /\ 0 \in 0 .. MaxTime + 1 /\ 0 \in Nat
  BY LockoutConstants DEF LockoutConstants
<1>1. UnlockedUser(u) \in User /\ UnlockedUser(u).until = 0
  BY <1>0 DEF UnlockedUser, User
<1>2. LockedUser(u) \in User /\ LockedUser(u).until = now + 1
  BY <1>0 DEF LockedUser, User
<1>3. ASSUME NEW op \in Operations \ {"lock"}
      PROVE  Edited(op, u) \in User /\ Timed(Edited(op, u))
  <2>1. CASE op \in {"unlock", "job"}
    <3> DEFINE v == UnlockedUser(u)
    <3>1. v \in User /\ v.until = 0
      BY <1>1
    <3>2. Edited(op, u) =
            [v EXCEPT !.status = IF @ = "locked" THEN "active" ELSE @]
      BY <2>1 DEF Edited
    <3> HIDE DEF v
    <3> QED
      BY <1>0, <3>1, <3>2 DEF User, Timed
  <2>2. CASE op \in {"suspend", "activate"}
    <3>1. PICK s \in {"active", "suspended"} : Edited(op, u) =
            [u EXCEPT !.status = s, !.isLocked = FALSE, !.until = 0]
      BY <2>2 DEF Edited
    <3> QED
      BY <1>0, <3>1 DEF User, Timed
  <2>3. CASE op \in {"patch", "edit", "wrong", "right"}
    BY <2>3 DEF Edited, User, Timed
  <2>4. CASE op = "dormant"
    <3> DEFINE v == UnlockedUser(u)
    <3>1. v \in User /\ v.until = 0
      BY <1>1
    <3>2. Edited(op, u) = [v EXCEPT !.status = "locked", !.isLocked = TRUE]
      BY <2>4 DEF Edited
    <3> HIDE DEF v
    <3> QED
      BY <1>0, <3>1, <3>2 DEF User, Timed
  <2> QED
    BY <2>1, <2>2, <2>3, <2>4 DEF Operations
<1> QED
  BY <1>0, <1>1, <1>2, <1>3 DEF Timed

LEMMA NewUserSound == NewUser \in User /\ Timed(NewUser)
  BY LockoutConstants DEF LockoutConstants, NewUser, User, Timed

LEMMA IdleSound == Idle \in Request /\ Sound(Idle)
<1>1. Idle \in Request /\ Timed(Idle.entity)
  BY NewUserSound DEF Idle, Request
<1>2. Ordered(Idle.plan) /\ Steps(Idle.plan) = {}
  BY Pieces DEF Idle
<1> QED
  BY <1>1, <1>2 DEF Sound, Has

\* A request with another entity is as sound.
LEMMA SoundWith ==
  ASSUME NEW r \in Request, Sound(r), r.plan # <<>>,
         NEW e \in User, Timed(e)
  PROVE  LET q == [r EXCEPT !.entity = e] IN
         /\ q \in Request /\ Sound(q) /\ q.plan = r.plan /\ q.op = r.op
         /\ q.entity = e /\ q.count = r.count /\ q.barred = r.barred
<1>1. PICK q : q = [r EXCEPT !.entity = e]
  OBVIOUS
<1>2. /\ q \in Request /\ q.plan = r.plan /\ q.op = r.op
      /\ q.entity = e /\ q.count = r.count /\ q.barred = r.barred
  BY <1>1 DEF Request
<1>3. r.op # "none"
  BY DEF Sound, Idle
<1>4. Sound(q)
  BY <1>2, <1>3 DEF Sound, Has
<1> QED
  BY <1>1, <1>2, <1>4

\* A request that has taken a step is as sound.
LEMMA SoundRest ==
  ASSUME NEW r \in Request, Sound(r), r.plan # <<>>
  PROVE  Rest(r) \in Request /\ Sound(Rest(r))
<1>1. CASE Len(r.plan) = 1
  BY <1>1, RestOf, IdleSound
<1>2. CASE Len(r.plan) # 1
  <2>1. PICK q : q = Rest(r)
    OBVIOUS
  <2>2. /\ q \in Request /\ q.plan = Tail(r.plan) /\ q.op = r.op
        /\ q.entity = r.entity
    BY <1>2, <2>1, RestOf
  <2>3. r.plan \in Seq(Step) /\ r.op # "none"
    BY DEF Request, Sound, Idle
  <2>4. /\ Ordered(q.plan) /\ Steps(q.plan) \subseteq Steps(r.plan)
    BY <2>2, <2>3, TailOrdered, StepsOf DEF Sound
  <2>5. q.plan # <<>>
    <3>1. Len(r.plan) \in Nat /\ Len(r.plan) >= 1
          /\ Len(q.plan) = Len(r.plan) - 1
      BY <2>2, <2>3, TailOf
    <3>2. Len(q.plan) # 0
      BY <1>2, <3>1
    <3> QED
      BY <3>2
  <2>6. Sound(q)
    BY <2>2, <2>3, <2>4, <2>5 DEF Sound, Has
  <2> QED
    BY <2>1, <2>2, <2>6
<1> QED
  BY <1>1, <1>2

\* A step of one request.
LEMMA SoundStep ==
  ASSUME IInv, NEW h \in Requests, NEW q \in Request, Becomes(h, q), Sound(q),
         row' \in User, Timed(row'),
         cache' \in {None} \union User, cache' # None => Timed(cache'),
         lockKey' \in 0 .. MaxTime + 1, attempts' \in Nat, failed' \in Nat,
         now' = now, misses' \in Nat,
         {standing', barred', intruder'} \subseteq BOOLEAN, faults' \in Nat
  PROVE  IInv'
<1>1. /\ request' \in [Requests -> Request] /\ request'[h] = q
      /\ \A g \in Requests \ {h} : request'[g] = request[g]
  BY DEF Becomes, IInv, TypeOK
<1>2. TypeOK'
  BY <1>1 DEF IInv, TypeOK
<1>3. \A g \in Requests : Sound(request'[g])
  BY <1>1 DEF IInv
<1>4. (\A g \in Requests : Sound(request[g]))'
  BY <1>3 DEF Sound, Has, Steps, Ordered, Timed, Idle, NewUser
<1> QED
  BY <1>2, <1>4 DEF IInv, Timed

\* What every action knows of the request that takes a step.
LEMMA InFlightSound ==
  ASSUME IInv, NEW h \in Requests, NEW step, At(h, step)
  PROVE  /\ request[h] \in Request /\ Sound(request[h])
         /\ request[h].plan \in Seq(Step) /\ request[h].plan # <<>>
         /\ Head(request[h].plan) = step /\ Has(request[h], step)
         /\ request[h].op \in Operations /\ request[h].entity \in User
         /\ Timed(request[h].entity)
         /\ Rest(request[h]) \in Request /\ Sound(Rest(request[h]))
<1>1. request[h] \in Request /\ Sound(request[h]) /\ request[h].plan # <<>>
  BY DEF IInv, TypeOK, At
<1>2. /\ request[h].plan \in Seq(Step) /\ request[h].op # "none"
      /\ Head(request[h].plan) = step
  BY <1>1 DEF Request, Sound, Idle, At
<1>3. Has(request[h], step)
  BY <1>1, <1>2, StepsOf DEF Has
<1> QED
  BY <1>1, <1>2, <1>3, SoundRest DEF Request, Sound

LEMMA PlanSteps ==
  ASSUME NEW op \in Operations
  PROVE  Steps(Plan(op)) =
    CASE op \in {"wrong", "right"} -> {"checkLock"}
      [] op = "lock" -> {"get", "saveLocked", "setKey", "invalidate"}
      [] op \in {"unlock", "job"} -> {"get", "save", "delFailed", "delKey", "invalidate"}
      [] op \in {"suspend", "activate"} -> {"get", "delKey", "save", "invalidate"}
      [] op \in {"patch", "edit"} -> {"get", "save", "invalidate"}
      [] op = "dormant" -> {"save", "delFailed", "delKey", "invalidate"}
<1>1. CASE op \in {"wrong", "right"}
  <2>1. Plan(op) = <<"checkLock">>
    BY <1>1, Plans
  <2>2. Steps(<<"checkLock">>) = {"checkLock"}
    BY DEF Steps
  <2> QED
    BY <1>1, <2>1, <2>2
<1>2. CASE op = "lock"
  <2>1. Plan(op) = <<"get", "saveLocked", "setKey", "invalidate", "get">>
    BY <1>2, Plans
  <2>2. Steps(<<"get", "saveLocked", "setKey", "invalidate", "get">>)
          = {"get", "saveLocked", "setKey", "invalidate"}
    BY DEF Steps
  <2> QED
    BY <1>2, <2>1, <2>2
<1>3. CASE op \in {"unlock", "job"}
  <2>1. Plan(op) = <<"get", "save", "delFailed", "delKey", "invalidate", "get">>
    BY <1>3, Plans
  <2>2. Steps(<<"get", "save", "delFailed", "delKey", "invalidate", "get">>)
          = {"get", "save", "delFailed", "delKey", "invalidate"}
    BY DEF Steps
  <2> QED
    BY <1>3, <2>1, <2>2
<1>4. CASE op \in {"suspend", "activate"}
  <2>1. Plan(op) = <<"get", "delKey", "save", "invalidate", "get">>
    BY <1>4, Plans
  <2>2. Steps(<<"get", "delKey", "save", "invalidate", "get">>)
          = {"get", "delKey", "save", "invalidate"}
    BY DEF Steps
  <2> QED
    BY <1>4, <2>1, <2>2
<1>5. CASE op \in {"patch", "edit"}
  <2>1. Plan(op) = <<"get", "save", "invalidate", "get">>
    BY <1>5, Plans
  <2>2. Steps(<<"get", "save", "invalidate", "get">>)
          = {"get", "save", "invalidate"}
    BY DEF Steps
  <2> QED
    BY <1>5, <2>1, <2>2
<1>6. CASE op = "dormant"
  <2>1. Plan(op) = <<"save", "delFailed", "delKey", "invalidate">>
    BY <1>6, Plans
  <2>2. Steps(<<"save", "delFailed", "delKey", "invalidate">>)
          = {"save", "delFailed", "delKey", "invalidate"}
    BY DEF Steps
  <2> QED
    BY <1>6, <2>1, <2>2
<1> QED
  BY <1>1, <1>2, <1>3, <1>4, <1>5, <1>6 DEF Operations

\* What a request is that changes its plan.
LEMMA SoundPlan ==
  ASSUME NEW r \in Request, Sound(r), r.plan # <<>>,
         NEW p \in Seq(Step), p # <<>>, Ordered(p),
         "save" \in Steps(p) => r.op # "lock",
         "checkLock" \in Steps(p) \/ "rekey" \in Steps(p) =>
           r.op \in {"wrong", "right"},
         "count" \in Steps(p) \/ "countFailed" \in Steps(p) => r.op = "wrong"
  PROVE  LET q == [r EXCEPT !.plan = p] IN
         /\ q \in Request /\ Sound(q) /\ q.plan = p /\ q.op = r.op
         /\ q.entity = r.entity /\ q.count = r.count /\ q.barred = r.barred
<1>1. PICK q : q = [r EXCEPT !.plan = p]
  OBVIOUS
<1>2. /\ q \in Request /\ q.plan = p /\ q.op = r.op
      /\ q.entity = r.entity /\ q.count = r.count /\ q.barred = r.barred
  BY <1>1 DEF Request
<1>3. r.op # "none"
  BY DEF Sound, Idle
<1>4. Sound(q)
  BY <1>2, <1>3 DEF Sound, Has
<1> QED
  BY <1>1, <1>2, <1>4

LEMMA Basics ==
  ASSUME IInv
  PROVE  /\ row \in User /\ Timed(row)
         /\ cache \in {None} \union User /\ (cache # None => Timed(cache))
         /\ lockKey \in 0 .. MaxTime + 1 /\ attempts \in Nat /\ failed \in Nat
         /\ now \in 0 .. MaxTime /\ misses \in Nat /\ faults \in Nat
         /\ {standing, barred, intruder} \subseteq BOOLEAN
         /\ 0 \in 0 .. MaxTime + 1 /\ now + 1 \in 0 .. MaxTime + 1
  BY LockoutConstants DEF IInv, TypeOK, LockoutConstants

LEMMA BeginSound ==
  ASSUME IInv, NEW h \in Requests, NEW op \in Operations, Begin(h, op)
  PROVE  IInv'
<1>1. PICK q : q = [Idle EXCEPT !.op = op, !.plan = Plan(op), !.entity = row,
                                !.barred = barred]
  OBVIOUS
<1>2. /\ q.op = op /\ q.plan = Plan(op) /\ q.entity = row
      /\ q.count = 0 /\ q.barred = barred
  BY <1>1 DEF Idle
<1>3. q \in Request
  BY <1>1, Basics, PlanOrdered DEF Idle, Request
<1>4. op # "none"
  BY DEF Operations
<1>5. Sound(q)
  <2>1. /\ "save" \in Steps(Plan(op)) => op # "lock"
        /\ "checkLock" \in Steps(Plan(op)) => op \in {"wrong", "right"}
        /\ Steps(Plan(op)) \cap {"rekey", "count", "countFailed"} = {}
    BY PlanSteps DEF Operations
  <2> QED
    BY <1>2, <1>4, <2>1, Basics, PlanOrdered DEF Sound, Has
<1>6. Becomes(h, q)
  BY <1>1 DEF Begin
<1>7. /\ UNCHANGED <<row, redis, now, misses, intruder, faults>>
      /\ {standing', barred'} \subseteq BOOLEAN
  BY Basics DEF Begin
<1> QED
  BY <1>3, <1>5, <1>6, <1>7, Basics, SoundStep DEF redis

LEMMA CheckLockSound ==
  ASSUME IInv, NEW h \in Requests, CheckLock(h)
  PROVE  IInv'
<1> DEFINE r == request[h]
           lift == <<"save", "delFailed", "delKey", "invalidate">>
<1>1. At(h, "checkLock")
  BY DEF CheckLock
<1>2. /\ r \in Request /\ Sound(r) /\ r.plan # <<>> /\ r.op \in {"wrong", "right"}
      /\ r.entity \in User /\ Timed(r.entity)
  BY <1>1, InFlightSound DEF Sound
<1>3. PICK u \in User : u = r.entity /\ Timed(u)
  BY <1>2
<1>4. /\ UNCHANGED <<row, redis, now, misses, standing, barred, faults>>
      /\ intruder' \in BOOLEAN
  BY <1>2, Basics DEF CheckLock, Request
<1>5. ASSUME NEW q \in Request, Sound(q), Becomes(h, q)
      PROVE  IInv'
  BY <1>4, <1>5, Basics, SoundStep DEF redis
<1>6. CASE Becomes(h, Idle)
  BY <1>5, <1>6, IdleSound
<1>7. CASE Becomes(h, [r EXCEPT !.plan = <<"rekey">>])
  <2>1. /\ <<"rekey">> \in Seq(Step) /\ <<"rekey">> # <<>>
        /\ Ordered(<<"rekey">>) /\ Steps(<<"rekey">>) = {"rekey"}
    BY DEF Step, Ordered, Steps
  <2> QED
    BY <1>2, <1>5, <1>7, <2>1, SoundPlan
<1>8. CASE Becomes(h, [r EXCEPT !.entity = UnlockedUser(u),
                                !.plan = lift \o Accepted(r.op)])
  <2>1. PICK p : p = lift \o Accepted(r.op)
    OBVIOUS
  <2>2. /\ p \in Seq(Step) /\ Ordered(p) /\ p # <<>>
        /\ "checkLock" \notin Steps(p) /\ "rekey" \notin Steps(p)
        /\ "countFailed" \notin Steps(p)
        /\ "count" \in Steps(p) => r.op = "wrong"
    BY <1>2, <2>1, AcceptedPlan
  <2>3. UnlockedUser(u) \in User /\ Timed(UnlockedUser(u))
    BY <1>3, Basics, Users
  <2>4. PICK r2 : r2 = [r EXCEPT !.entity = UnlockedUser(u)]
    OBVIOUS
  <2>5. /\ r2 \in Request /\ Sound(r2) /\ r2.plan # <<>> /\ r2.op = r.op
    BY <1>2, <2>3, <2>4, SoundWith
  <2>6. Becomes(h, [r2 EXCEPT !.plan = p])
    BY <1>8, <2>1, <2>4
  <2> QED
    BY <1>2, <1>5, <2>2, <2>5, <2>6, SoundPlan
<1>9. CASE Becomes(h, [r EXCEPT !.plan = Accepted(r.op)])
  <2>1. PICK p : p = Accepted(r.op)
    OBVIOUS
  <2>2. /\ p \in Seq(Step) /\ Ordered(p) /\ p # <<>>
        /\ "checkLock" \notin Steps(p) /\ "rekey" \notin Steps(p)
        /\ "countFailed" \notin Steps(p)
        /\ "count" \in Steps(p) => r.op = "wrong"
    BY <1>2, <2>1, Pieces DEF Accepted
  <2> QED
    BY <1>2, <1>5, <1>9, <2>1, <2>2, SoundPlan
<1> QED
  BY <1>3, <1>6, <1>7, <1>8, <1>9 DEF CheckLock

LEMMA AnsweredSound ==
  ASSUME IInv, NEW h \in Requests, Answered(h)
  PROVE  misses' \in Nat /\ {standing', barred', intruder'} \subseteq BOOLEAN
<1>1. misses \in Nat /\ {standing, barred, intruder} \subseteq BOOLEAN
  BY Basics
<1>2. CASE ~Last(request[h])
  BY <1>1, <1>2 DEF Answered, history
<1>3. CASE Last(request[h])
  <2>1. misses' \in Nat /\ intruder' \in BOOLEAN
    BY <1>1, <1>3 DEF Answered
  <2>2. standing' \in BOOLEAN /\ barred' \in BOOLEAN
    BY <1>3, Zenon DEF Answered
  <2> QED
    BY <2>1, <2>2
<1> QED
  BY <1>2, <1>3

LEMMA GetUserSound ==
  ASSUME IInv, NEW h \in Requests, GetUser(h)
  PROVE  IInv'
<1> DEFINE r == request[h]
<1>1. At(h, "get")
  BY DEF GetUser
<1>2. /\ r \in Request /\ Sound(r) /\ r.plan \in Seq(Step) /\ r.plan # <<>>
      /\ Head(r.plan) = "get"
  BY <1>1, InFlightSound
<1>3. UNCHANGED <<row, redis, now, faults>>
  BY DEF GetUser
<1>4. CASE /\ cache # None /\ Answered(h)
           /\ Becomes(h, Rest([r EXCEPT !.entity = cache]))
  <2>1. PICK q : q = [r EXCEPT !.entity = cache]
    OBVIOUS
  <2>2. q \in Request /\ Sound(q) /\ q.plan # <<>>
    BY <1>2, <1>4, <2>1, Basics, SoundWith
  <2>3. Rest(q) \in Request /\ Sound(Rest(q))
    BY <2>2, SoundRest
  <2> QED
    BY <1>3, <1>4, <2>1, <2>3, Basics, AnsweredSound, SoundStep DEF redis
<1>5. CASE /\ Becomes(h, [r EXCEPT !.plan = <<"find", "keep">> \o Tail(@)])
           /\ UNCHANGED history
  <2>1. PICK p : p = <<"find", "keep">> \o Tail(r.plan)
    OBVIOUS
  <2>2. /\ p \in Seq(Step) /\ Ordered(p) /\ p # <<>>
        /\ Steps(p) \subseteq {"find", "keep"} \union Steps(r.plan)
    <3>1. Len(r.plan) \in Nat /\ p \in Seq(Step) /\ Len(p) = Len(r.plan) + 1
      BY <1>2, <2>1, FoundOf, TailOf
    <3>2. Ordered(p)
      BY <1>2, <2>1, FoundOrdered DEF Sound
    <3>3. Steps(p) \subseteq {"find", "keep"} \union Steps(r.plan)
      BY <1>2, <2>1, StepsOf
    <3>4. Len(p) # 0
      BY <3>1
    <3> QED
      BY <3>1, <3>2, <3>3, <3>4
  <2>3. /\ "save" \in Steps(p) => r.op # "lock"
        /\ "checkLock" \in Steps(p) \/ "rekey" \in Steps(p) =>
             r.op \in {"wrong", "right"}
        /\ "count" \in Steps(p) \/ "countFailed" \in Steps(p) => r.op = "wrong"
    BY <1>2, <2>2 DEF Sound, Has
  <2>4. Becomes(h, [r EXCEPT !.plan = p])
    BY <1>5, <2>1
  <2>5. [r EXCEPT !.plan = p] \in Request /\ Sound([r EXCEPT !.plan = p])
    BY <1>2, <2>2, <2>3, SoundPlan
  <2> QED
    BY <1>3, <1>5, <2>4, <2>5, Basics, SoundStep DEF redis, history
<1> QED
  BY <1>4, <1>5 DEF GetUser

LEMMA FindUserSound ==
  ASSUME IInv, NEW h \in Requests, FindUser(h)
  PROVE  IInv'
<1> DEFINE r == request[h]
<1>1. At(h, "find") /\ Becomes(h, Rest([r EXCEPT !.entity = row]))
  BY DEF FindUser
<1>2. r \in Request /\ Sound(r) /\ r.plan # <<>>
  BY <1>1, InFlightSound
<1>3. PICK q : q = [r EXCEPT !.entity = row]
  OBVIOUS
<1>4. q \in Request /\ Sound(q) /\ q.plan # <<>>
  BY <1>2, <1>3, Basics, SoundWith
<1>5. Rest(q) \in Request /\ Sound(Rest(q))
  BY <1>4, SoundRest
<1>6. UNCHANGED <<row, redis, now, history, faults>>
  BY DEF FindUser
<1> QED
  BY <1>1, <1>3, <1>5, <1>6, Basics, SoundStep DEF redis, history

LEMMA CountSound ==
  ASSUME IInv, NEW h \in Requests, Count(h)
  PROVE  IInv'
<1> DEFINE r == request[h]
           p == <<"get", "countFailed">>
<1>1. /\ At(h, "count") /\ attempts' = attempts + 1
      /\ Becomes(h, [r EXCEPT !.count = attempts + 1, !.plan = p])
  BY DEF Count
<1>2. r \in Request /\ Sound(r) /\ r.plan # <<>> /\ r.op = "wrong"
  BY <1>1, InFlightSound DEF Sound
<1>3. p \in Seq(Step) /\ Ordered(p) /\ p # <<>> /\ Steps(p)
        = {"get", "countFailed"}
  BY DEF Step, Ordered, Steps
<1>4. PICK r2 : r2 = [r EXCEPT !.plan = p]
  OBVIOUS
<1> HIDE DEF p
<1>5. /\ r2 \in Request /\ Sound(r2) /\ r2.plan = p /\ r2.op = r.op
      /\ r2.entity = r.entity
  BY <1>2, <1>3, <1>4, SoundPlan
<1>6. PICK q : q = [r2 EXCEPT !.count = attempts + 1]
  OBVIOUS
<1>7. /\ q \in Request /\ q.plan = r2.plan /\ q.op = r2.op
      /\ q.entity = r2.entity
  BY <1>5, <1>6, Basics DEF Request
<1>8. Sound(q)
  BY <1>2, <1>3, <1>5, <1>7 DEF Sound, Has
<1>9. Becomes(h, q)
  BY <1>1, <1>4, <1>6
<1>10. UNCHANGED <<row, cache, lockKey, failed, now, history, faults>>
  BY DEF Count
<1> QED
  BY <1>1, <1>7, <1>8, <1>9, <1>10, Basics, SoundStep DEF history

LEMMA CountFailedSound ==
  ASSUME IInv, NEW h \in Requests, CountFailed(h)
  PROVE  IInv'
<1> DEFINE r == request[h]
           p == Penalty(r.entity, r.count)
<1>1. /\ At(h, "countFailed") /\ failed' = failed + 1
      /\ UNCHANGED <<row, cache, lockKey, attempts, now, history, faults>>
  BY DEF CountFailed
<1>2. /\ r \in Request /\ Sound(r) /\ r.plan # <<>> /\ r.op = "wrong"
      /\ r.entity \in User /\ Timed(r.entity)
  BY <1>1, InFlightSound DEF Sound
<1>3. PICK u : u = [r.entity EXCEPT !.fails = Failures(r.entity)]
  OBVIOUS
<1>4. Failures(r.entity) \in Nat
  <2>1. r.entity.fails \in Nat
    BY <1>2 DEF User
  <2>2. failed \in Nat
    BY Basics
  <2> QED
    BY <2>1, <2>2 DEF Failures
<1>5. u \in User /\ Timed(u)
  BY <1>2, <1>3, <1>4 DEF User, Timed
<1>6. PICK e : e = IF u.fails >= Threshold THEN LockedUser(u) ELSE u
  OBVIOUS
<1>7. e \in User /\ Timed(e)
  BY <1>5, <1>6, Basics, Users
<1>8. PICK r2 : r2 = [r EXCEPT !.entity = e]
  OBVIOUS
<1>9. r2 \in Request /\ Sound(r2) /\ r2.plan # <<>> /\ r2.op = r.op
  BY <1>2, <1>7, <1>8, SoundWith
<1>10. /\ p \in Seq(Step) /\ Ordered(p) /\ p # <<>>
       /\ Steps(p) \subseteq
            {"setKey", "save", "invalidate", "get", "saveLocked"}
  BY PenaltyPlan
<1> HIDE DEF p
<1>11. [r2 EXCEPT !.plan = p] \in Request /\ Sound([r2 EXCEPT !.plan = p])
  BY <1>2, <1>9, <1>10, SoundPlan
<1>12. Becomes(h, [r2 EXCEPT !.plan = p])
  BY <1>3, <1>6, <1>8 DEF CountFailed, p
<1> QED
  BY <1>1, <1>11, <1>12, Basics, SoundStep DEF history

LEMMA KeepUserSound ==
  ASSUME IInv, NEW h \in Requests, KeepUser(h)
  PROVE  IInv'
<1>1. /\ At(h, "keep") /\ Becomes(h, Rest(request[h])) /\ Answered(h)
      /\ cache' = request[h].entity
      /\ UNCHANGED <<row, lockKey, attempts, failed, now, faults>>
  BY DEF KeepUser
<1> QED
  BY <1>1, Basics, InFlightSound, AnsweredSound, SoundStep

\* The steps that are done when they have changed one thing.
LEMMA OtherStepsSound ==
  ASSUME IInv, NEW h \in Requests,
         \/ Rekey(h) \/ Reset(h) \/ Record(h) \/ Save(h) \/ SaveLocked(h)
         \/ SetKey(h) \/ DelFailed(h) \/ DelKey(h) \/ Invalidate(h)
  PROVE  IInv'
<1> USE DEF redis, history
<1>1. CASE Rekey(h)
  <2>1. /\ At(h, "rekey") /\ Becomes(h, Idle) /\ lockKey' = request[h].entity.until
        /\ UNCHANGED <<row, cache, attempts, failed, now, history, faults>>
    BY <1>1 DEF Rekey
  <2>2. lockKey' \in 0 .. MaxTime + 1
    BY <2>1, InFlightSound DEF Timed
  <2> QED
    BY <2>1, <2>2, Basics, IdleSound, SoundStep
<1>2. CASE Reset(h)
  <2>1. /\ At(h, "reset") /\ Becomes(h, Rest(request[h])) /\ attempts' = 0
        /\ UNCHANGED <<row, cache, lockKey, failed, now, history, faults>>
    BY <1>2 DEF Reset
  <2> QED
    BY <2>1, Basics, InFlightSound, SoundStep
<1>3. CASE Record(h)
  <2>1. /\ At(h, "record") /\ Becomes(h, Rest(request[h]))
        /\ row' = UnlockedUser(row) /\ misses' = 0
        /\ UNCHANGED <<redis, now, standing, barred, intruder, faults>>
    BY <1>3 DEF Record
  <2>2. row' \in User /\ Timed(row')
    BY <2>1, Basics, Users
  <2> QED
    BY <2>1, <2>2, Basics, InFlightSound, SoundStep
<1>4. CASE Save(h)
  <2>1. /\ At(h, "save") /\ Becomes(h, Rest(request[h]))
        /\ row' = Edited(request[h].op, request[h].entity)
        /\ UNCHANGED <<redis, now, history, faults>>
    BY <1>4 DEF Save
  <2>2. request[h].op \in Operations \ {"lock"}
    BY <2>1, InFlightSound DEF Sound
  <2>3. row' \in User /\ Timed(row')
    BY <2>1, <2>2, Basics, InFlightSound, Users
  <2> QED
    BY <2>1, <2>3, Basics, InFlightSound, SoundStep
<1>5. CASE SaveLocked(h)
  <2>1. /\ At(h, "saveLocked") /\ Becomes(h, Rest(request[h]))
        /\ row' = LockedUser(request[h].entity)
        /\ UNCHANGED <<redis, now, history, faults>>
    BY <1>5 DEF SaveLocked
  <2>2. row' \in User /\ Timed(row')
    BY <2>1, Basics, InFlightSound, Users
  <2> QED
    BY <2>1, <2>2, Basics, InFlightSound, SoundStep
<1>6. CASE SetKey(h)
  <2>1. /\ At(h, "setKey") /\ Becomes(h, Rest(request[h])) /\ lockKey' = now + 1
        /\ UNCHANGED <<row, cache, attempts, failed, now, history, faults>>
    BY <1>6 DEF SetKey
  <2> QED
    BY <2>1, Basics, InFlightSound, SoundStep
<1>7. CASE DelFailed(h)
  <2>1. /\ At(h, "delFailed") /\ Becomes(h, Rest(request[h])) /\ failed' = 0
        /\ UNCHANGED <<row, cache, lockKey, attempts, now, history, faults>>
    BY <1>7 DEF DelFailed
  <2> QED
    BY <2>1, Basics, InFlightSound, SoundStep
<1>8. CASE DelKey(h)
  <2>1. /\ At(h, "delKey") /\ Becomes(h, Rest(request[h])) /\ lockKey' = 0
        /\ UNCHANGED <<row, cache, attempts, failed, now, history, faults>>
    BY <1>8 DEF DelKey
  <2> QED
    BY <2>1, Basics, InFlightSound, SoundStep
<1>9. CASE Invalidate(h)
  <2>1. /\ At(h, "invalidate") /\ Becomes(h, Rest(request[h])) /\ cache' = None
        /\ UNCHANGED <<row, lockKey, attempts, failed, now, history, faults>>
    BY <1>9 DEF Invalidate
  <2> QED
    BY <2>1, Basics, InFlightSound, SoundStep
<1> QED
  BY <1>1, <1>2, <1>3, <1>4, <1>5, <1>6, <1>7, <1>8, <1>9

LEMMA RequestsKept ==
  ASSUME IInv, request' = request, row' = row, cache' \in {None, cache},
         lockKey' \in 0 .. MaxTime + 1, attempts' \in Nat, failed' \in Nat,
         now' \in 0 .. MaxTime, misses' \in Nat,
         {standing', barred', intruder'} \subseteq BOOLEAN, faults' \in Nat
  PROVE  IInv'
<1>1. TypeOK'
  BY DEF IInv, TypeOK
<1>2. \A g \in Requests : Sound(request'[g])
  BY DEF IInv
<1>3. (\A g \in Requests : Sound(request[g]))'
  BY <1>2 DEF Sound, Has, Steps, Ordered, Timed, Idle, NewUser
<1>4. Timed(row') /\ (cache' # None => Timed(cache'))
  BY Basics
<1> QED
  BY <1>1, <1>3, <1>4 DEF IInv, Timed

LEMMA InitSound == Init => IInv
<1> SUFFICES ASSUME Init  PROVE IInv
  OBVIOUS
<1>1. \A h \in Requests : request[h] = Idle
  BY DEF Init
<1>2. TypeOK
  <2>1. MaxTime \in Nat /\ 0 \in 0 .. MaxTime /\ 0 \in 0 .. MaxTime + 1
    BY LockoutConstants DEF LockoutConstants
  <2>2. request \in [Requests -> Request]
    BY IdleSound DEF Init
  <2>3. {standing, barred, intruder} \subseteq BOOLEAN
    BY DEF Init
  <2>4. row \in User /\ cache \in {None} \union User
    BY NewUserSound DEF Init
  <2> QED
    BY <2>1, <2>2, <2>3, <2>4 DEF Init, TypeOK
<1> QED
  BY <1>1, <1>2, NewUserSound, IdleSound DEF Init, IInv

LEMMA StepSound == IInv /\ [Next]_vars => IInv'
<1> SUFFICES ASSUME IInv, [Next]_vars  PROVE IInv'
  OBVIOUS
<1>1. ASSUME NEW h \in Requests, NEW op \in Operations, Begin(h, op)
      PROVE  IInv'
  BY <1>1, BeginSound
<1>2. ASSUME NEW h \in Requests, Proceeds(h)
      PROVE  IInv'
  BY <1>2, CheckLockSound, CountSound, CountFailedSound, GetUserSound,
     FindUserSound, KeepUserSound, OtherStepsSound DEF Proceeds
<1>3. ASSUME NEW h \in Requests, Raise(h)
      PROVE  IInv'
  <2>1. /\ Becomes(h, Idle) /\ faults' = faults + 1
        /\ UNCHANGED <<row, redis, now, history>>
    BY <1>3 DEF Raise
  <2> QED
    BY <2>1, Basics, IdleSound, SoundStep DEF redis, history
<1>4. CASE CopyExpires
  <2>1. /\ cache' = None
        /\ UNCHANGED <<row, lockKey, attempts, failed, now, request, history, faults>>
    BY <1>4 DEF CopyExpires
  <2> QED
    BY <2>1, Basics, RequestsKept DEF history
<1>5. CASE HalfHourPasses
  <2>1. /\ cache' = None /\ lockKey' = 0 /\ attempts' = 0 /\ failed' = 0
        /\ now' = now + 1 /\ now < MaxTime /\ misses' = 0 /\ standing' = FALSE
        /\ UNCHANGED <<row, request, barred, intruder, faults>>
    BY <1>5 DEF HalfHourPasses
  <2>2. now' \in 0 .. MaxTime
    BY <2>1, Basics, LockoutConstants DEF LockoutConstants
  <2> QED
    BY <2>1, <2>2, Basics, RequestsKept
<1>6. CASE UNCHANGED vars
  BY <1>6, Basics, RequestsKept DEF vars, redis, history
<1> QED
  BY <1>1, <1>2, <1>3, <1>4, <1>5, <1>6 DEF Next

\* The variables of LoginLockout keep their types, and every request in flight
\* has steps in an order in which its operation takes them.
THEOREM LockoutTypeCorrect == Spec => []TypeOK
<1>1. IInv => TypeOK
  BY DEF IInv
<1> QED
  BY InitSound, StepSound, <1>1, PTL DEF Spec

-----------------------------------------------------------------------------
(* In turns                                                                *)

LEMMA AtMostOne ==
  ASSUME NEW S, IsFiniteSet(S), Cardinality(S) <= 1, NEW a \in S, NEW b \in S
  PROVE  a = b
<1> SUFFICES ASSUME a # b  PROVE FALSE
  OBVIOUS
<1>1. /\ IsFiniteSet(S \ {a}) /\ Cardinality(S \ {a}) = Cardinality(S) - 1
      /\ Cardinality(S) \in Nat
  BY FS_RemoveElement, FS_CardinalityType
<1>2. Cardinality(S \ {a}) \in Nat
  BY <1>1, FS_CardinalityType
<1>3. Cardinality(S \ {a}) = 0
  BY <1>1, <1>2
<1>4. S \ {a} = {}
  BY <1>1, <1>3, FS_EmptySet
<1> QED
  BY <1>4

\* A request after a step that may have replaced its entity.
LEMMA Advance ==
  ASSUME NEW r \in Request, Sound(r), r.plan # <<>>,
         NEW e \in User, Timed(e),
         NEW q, q = Rest([r EXCEPT !.entity = e])
  PROVE  /\ q \in Request /\ Sound(q)
         /\ Steps(r.plan) = {Head(r.plan)} \union Steps(q.plan)
         /\ Len(r.plan) = 1 => q = Idle /\ Steps(q.plan) = {}
         /\ Len(r.plan) # 1 =>
              /\ q # Idle /\ q.plan # <<>>
              /\ q.op = r.op /\ q.entity = e /\ q.barred = r.barred
         /\ Head(r.plan) \notin {"save", "saveLocked", "record"}
              \/ Has(q, "invalidate")
         /\ q.plan # <<>> /\ Head(q.plan) = "keep" => Head(r.plan) = "find"
         /\ ~Has(q, "checkLock") /\ ~Has(q, "rekey")
         /\ Head(r.plan) \in {"checkLock", "rekey", "count", "countFailed"} =>
              Len(r.plan) = 1
<1> DEFINE p == r.plan
<1>1. PICK s : s = [r EXCEPT !.entity = e]
  OBVIOUS
<1>2. /\ s \in Request /\ Sound(s) /\ s.plan = p /\ s.op = r.op
      /\ s.entity = e /\ s.count = r.count /\ s.barred = r.barred
  BY <1>1, SoundWith
<1>3. /\ q \in Request /\ Sound(q)
      /\ Len(p) = 1 => q = Idle
      /\ Len(p) # 1 =>
           /\ q.plan = Tail(p) /\ q.op = r.op /\ q.entity = e
           /\ q.count = r.count /\ q.barred = r.barred
  <2>1. q = Rest(s) /\ s \in Request /\ Sound(s) /\ s.plan # <<>>
    BY <1>1, <1>2
  <2>2. q \in Request /\ Sound(q)
    BY <2>1, SoundRest
  <2>3. Len(p) = 1 => q = Idle
    BY <1>2, <2>1, RestOf
  <2>4. Len(p) # 1 =>
          /\ q.plan = Tail(p) /\ q.op = r.op /\ q.entity = e
          /\ q.count = r.count /\ q.barred = r.barred
    BY <1>2, <2>1, RestOf
  <2> QED
    BY <2>2, <2>3, <2>4
<1>4. /\ p \in Seq(Step) /\ Ordered(p) /\ r.op # "none"
      /\ Idle.plan = <<>> /\ Idle.op = "none"
  BY DEF Request, Sound, Idle
<1>5. /\ Len(p) \in Nat /\ Len(p) >= 1 /\ Head(p) = p[1]
      /\ Tail(p) \in Seq(Step) /\ Len(Tail(p)) = Len(p) - 1
      /\ \A i \in 1 .. Len(p) - 1 : Tail(p)[i] = p[i + 1]
      /\ Steps(p) = {Head(p)} \union Steps(Tail(p))
      /\ Len(p) = 1 => Steps(Tail(p)) = {}
  BY <1>4, TailOf, StepsOf
<1> HIDE DEF p
<1>6. CASE Len(p) = 1
  <2>1. q = Idle /\ q.plan = <<>> /\ Steps(q.plan) = {}
    BY <1>3, <1>4, <1>6, Pieces
  <2>2. p[1] \notin {"save", "saveLocked", "record"}
    <3>1. 1 + 1 .. Len(p) = {}
      BY <1>6
    <3> QED
      BY <1>4, <1>6, <3>1 DEF Ordered
  <2> QED
    BY <1>3, <1>5, <1>6, <2>1, <2>2 DEF Has, p
<1>7. CASE Len(p) # 1
  <2>1. /\ q.plan = Tail(p) /\ q.op = r.op /\ q.entity = e
        /\ q.count = r.count /\ q.barred = r.barred /\ q # Idle
    BY <1>3, <1>4, <1>7
  <2>2. Len(q.plan) >= 1 /\ q.plan # <<>> /\ q.plan \in Seq(Step)
    <3>1. Len(q.plan) = Len(p) - 1 /\ q.plan \in Seq(Step)
      BY <1>5, <2>1
    <3>2. \A n \in Nat : n >= 1 /\ n # 1 => n - 1 >= 1 /\ n - 1 # 0
      OBVIOUS
    <3>3. Len(q.plan) >= 1 /\ Len(q.plan) # 0
      BY <1>5, <1>7, <3>1, <3>2
    <3> QED
      BY <3>1, <3>3
  <2>3. Head(q.plan) = "keep" => Head(p) = "find"
    <3>1. Head(q.plan) = q.plan[1] /\ q.plan[1] = p[2] /\ 2 \in 2 .. Len(p)
      <4>1. Head(q.plan) = q.plan[1]
        BY <2>2, TailOf
      <4>2. 1 \in 1 .. Len(p) - 1 /\ 2 \in 2 .. Len(p)
        BY <1>5, <1>7
      <4>3. q.plan[1] = p[1 + 1]
        BY <1>5, <2>1, <4>2
      <4> QED
        BY <4>1, <4>2, <4>3
    <3> QED
      BY <1>4, <1>5, <3>1 DEF Ordered
  <2>4. p[1] \in {"save", "saveLocked", "record"} => Has(q, "invalidate")
    <3> SUFFICES ASSUME p[1] \in {"save", "saveLocked", "record"}
                 PROVE  "invalidate" \in Steps(Tail(p))
      BY <2>1 DEF Has
    <3>1. PICK j \in 2 .. Len(p) : p[j] = "invalidate"
      BY <1>4, <1>5 DEF Ordered
    <3>2. Tail(p)[j - 1] = "invalidate" /\ j - 1 \in 1 .. Len(Tail(p))
      BY <1>5, <3>1
    <3> QED
      BY <3>2 DEF Steps
  <2>5. /\ "checkLock" \notin Steps(p) /\ "rekey" \notin Steps(p)
        /\ p[1] \notin {"count", "countFailed"}
    BY <1>4, <1>5, <1>7 DEF Ordered, Steps
  <2>6. p[1] \notin {"checkLock", "rekey", "count", "countFailed"}
    BY <1>4, <1>5, <1>7 DEF Ordered
  <2> QED
    BY <1>3, <1>5, <2>1, <2>2, <2>3, <2>4, <2>5, <2>6 DEF Has, p
<1> QED
  BY <1>6, <1>7

LEMMA IdleKnows ==
  ASSUME NEW user, NEW copy
  PROVE  Knows(Idle, user, copy) /\ Stays(Idle) /\ ~Has(Idle, "invalidate")
<1>1. /\ Idle.plan = <<>> /\ Idle.op = "none" /\ Idle.barred = FALSE
      /\ Steps(Idle.plan) = {}
  BY Pieces DEF Idle
<1> QED
  BY <1>1 DEF Knows, Stays, Has, Changes

\* While one request takes a step no other is in flight.
LEMMA Others ==
  ASSUME IInv, OneAtATime, OneAtATime', NEW h \in Requests, NEW q,
         Becomes(h, q), request[h] # Idle \/ q # Idle
  PROVE  /\ request'[h] = q
         /\ \A g \in Requests \ {h} : request[g] = Idle /\ request'[g] = Idle
<1>1. /\ request'[h] = q
      /\ \A g \in Requests \ {h} : request'[g] = request[g]
  BY DEF Becomes, IInv, TypeOK
<1>2. \A g, k \in Requests : request'[g] # Idle /\ request'[k] # Idle => g = k
  BY DEF OneAtATime
<1> QED
  BY <1>1, <1>2 DEF OneAtATime

LEMMA TurnStep ==
  ASSUME IInv, TurnInv, OneAtATime', NEW h \in Requests, NEW q,
         Becomes(h, q), request[h] # Idle \/ q # Idle,
         Knows(q, row', cache'), ~intruder',
         barred' =>
           /\ row'.status = "suspended"
           /\ cache' # None => cache'.status = "suspended"
           /\ Stays(q),
         faults' = 0 => cache' \in {None, row'} \/ Has(q, "invalidate")
  PROVE  TurnInv'
<1>1. /\ request'[h] = q
      /\ \A g \in Requests \ {h} : request'[g] = Idle
  BY Others DEF TurnInv
<1>2. \A g \in Requests : Knows(request'[g], row', cache')
  BY <1>1, IdleKnows
<1>3. barred' => Barred'
  BY <1>1, IdleKnows DEF Barred
<1>4. faults' = 0 =>
        \/ cache' \in {None, row'}
        \/ \E g \in Requests : Has(request'[g], "invalidate")
  BY <1>1
<1> QED
  BY <1>2, <1>3, <1>4 DEF TurnInv

LEMMA SaveThenInvalidate ==
  ASSUME NEW r, Ordered(r.plan), Has(r, "save")
  PROVE  Has(r, "invalidate")
<1>1. PICK i \in 1 .. Len(r.plan) : r.plan[i] = "save"
  BY DEF Has, Steps
<1>2. PICK j \in i + 1 .. Len(r.plan) : r.plan[j] = "invalidate"
  BY <1>1 DEF Ordered
<1>3. j \in 1 .. Len(r.plan)
  BY <1>1, <1>2
<1> QED
  BY <1>2, <1>3 DEF Has, Steps

\* A request in flight goes on to the next step of its plan.
LEMMA TurnAdvance ==
  ASSUME IInv, TurnInv, OneAtATime', NEW h \in Requests,
         NEW step \in Step, At(h, step),
         step \notin {"checkLock", "rekey", "count", "countFailed"},
         NEW e \in User, Timed(e),
         NEW q, q = Rest([request[h] EXCEPT !.entity = e]), Becomes(h, q),
         step = "find" => e = row',
         step \notin {"save", "saveLocked", "record"} => row' = row,
         step = "save" => row' = Edited(request[h].op, request[h].entity),
         \/ cache' = cache /\ step # "invalidate"
         \/ cache' = None
         \/ step = "keep" /\ cache' = request[h].entity,
         \/ e = request[h].entity
         \/ step = "find"
         \/ step = "get" /\ e = cache /\ cache # None,
         intruder' = intruder, faults' = faults,
         barred' =>
           \/ barred
           \/ /\ Len(request[h].plan) = 1 /\ request[h].op = "suspend"
              /\ step \in {"get", "keep"}
  PROVE  TurnInv'
<1>1. PICK r : r = request[h]
  OBVIOUS
<1>2. /\ r \in Request /\ Sound(r) /\ r.plan \in Seq(Step) /\ r.plan # <<>>
      /\ Head(r.plan) = step /\ Has(r, step) /\ r.entity \in User /\ r # Idle
  BY <1>1, InFlightSound DEF Idle
<1>3. /\ Knows(r, row, cache) /\ ~intruder
      /\ \A g \in Requests \ {h} : request[g] = Idle
      /\ \A g \in Requests \ {h} : ~Has(request[g], "invalidate")
  BY <1>1, <1>2, Others, IdleKnows DEF TurnInv
<1>4. /\ Steps(r.plan) = {step} \union Steps(q.plan)
      /\ \/ q = Idle /\ Len(r.plan) = 1 /\ Steps(q.plan) = {}
         \/ /\ q # Idle /\ Len(r.plan) # 1 /\ q.plan # <<>>
            /\ q.op = r.op /\ q.entity = e /\ q.barred = r.barred
      /\ step \notin {"save", "saveLocked", "record"} \/ Has(q, "invalidate")
      /\ q.plan # <<>> /\ Head(q.plan) = "keep" => step = "find"
      /\ ~Has(q, "checkLock")
  <2>1. q = Rest([r EXCEPT !.entity = e])
    BY <1>1
  <2>2. Head(r.plan) \notin {"save", "saveLocked", "record"} \/ Has(q, "invalidate")
    BY <1>2, <2>1, Advance
  <2>3. q.plan # <<>> /\ Head(q.plan) = "keep" => Head(r.plan) = "find"
    BY <1>2, <2>1, Advance
  <2>4. Steps(r.plan) = {Head(r.plan)} \union Steps(q.plan)
    BY <1>2, <2>1, Advance
  <2>5. Len(r.plan) = 1 => q = Idle /\ Steps(q.plan) = {}
    BY <1>2, <2>1, Advance
  <2>6. Len(r.plan) # 1 => q # Idle /\ q.plan # <<>>
    BY <1>2, <2>1, Advance
  <2>7. Len(r.plan) # 1 => q.op = r.op
    BY <1>2, <2>1, Advance
  <2>8. Len(r.plan) # 1 => q.entity = e
    BY <1>2, <2>1, Advance
  <2>9. Len(r.plan) # 1 => q.barred = r.barred
    BY <1>2, <2>1, Advance
  <2>10. ~Has(q, "checkLock")
    BY <1>2, <2>1, Advance
  <2> QED
    BY <1>2, <2>2, <2>3, <2>4, <2>5, <2>6, <2>7, <2>8, <2>9, <2>10
<1>5. r.op \in Changes => step \in Changing
  BY <1>2, <1>3 DEF Knows, Has
<1>6. Has(r, "save") => Has(r, "invalidate")
  BY <1>2, SaveThenInvalidate DEF Sound
<1>7. step = "keep" => r.entity = row
  BY <1>2, <1>3 DEF Knows
<1>8. r.op = "suspend" =>
        /\ ~Has(q, "save") => row'.status = "suspended"
        /\ ~Has(q, "invalidate") => cache' = None \/ cache'.status = "suspended"
  <2> SUFFICES ASSUME r.op = "suspend"
               PROVE  /\ ~Has(q, "save") => row'.status = "suspended"
                      /\ ~Has(q, "invalidate") =>
                           cache' = None \/ cache'.status = "suspended"
    OBVIOUS
  <2>1. step \notin {"saveLocked", "record"}
    BY <1>5 DEF Changes, Changing
  <2>2. /\ ~Has(r, "save") => row.status = "suspended"
        /\ ~Has(r, "invalidate") => cache = None \/ cache.status = "suspended"
    BY <1>3 DEF Knows
  <2>3. step # "save" /\ ~Has(q, "save") => ~Has(r, "save")
    BY <1>4 DEF Has
  <2>4. step # "invalidate" /\ ~Has(q, "invalidate") => ~Has(r, "invalidate")
    BY <1>4 DEF Has
  <2>5. step = "save" => row'.status = "suspended"
    BY <1>1, <1>2 DEF Edited, User
  <2>6. ~Has(q, "save") => row'.status = "suspended"
    BY <2>1, <2>2, <2>3, <2>5
  <2>7. ~Has(q, "invalidate") => cache' = None \/ cache'.status = "suspended"
    BY <1>1, <1>6, <1>7, <2>2, <2>4
  <2> QED
    BY <2>6, <2>7
<1>9. Knows(q, row', cache')
  <2>1. CASE q = Idle
    BY <2>1, IdleKnows
  <2>2. CASE q # Idle
    <3>1. q.op = r.op /\ q.entity = e /\ Steps(q.plan) \subseteq Steps(r.plan)
      BY <1>4, <2>2
    <3>2. q.op \in Changes => Steps(q.plan) \subseteq Changing
      BY <1>3, <3>1 DEF Knows
    <3> QED
      BY <1>4, <1>8, <3>1, <3>2 DEF Knows
  <2> QED
    BY <2>1, <2>2
<1>10. ASSUME barred'
       PROVE  /\ row'.status = "suspended"
              /\ cache' # None => cache'.status = "suspended"
              /\ Stays(q)
  <2>1. CASE barred
    <3>1. /\ row.status = "suspended" /\ Stays(r)
          /\ cache # None => cache.status = "suspended"
      BY <1>1, <2>1 DEF TurnInv, Barred
    <3>2. r.entity.status = "suspended" /\ r.op \in {"suspend", "unlock", "edit"}
      BY <1>2, <3>1 DEF Stays
    <3>3. step \notin {"saveLocked", "record"}
      BY <1>5, <3>2 DEF Changes, Changing
    <3>4. step = "save" => row'.status = "suspended"
      <4>1. UnlockedUser(r.entity).status = "suspended"
            /\ UnlockedUser(r.entity) \in [status : {"active", "locked", "suspended"},
                 isLocked : BOOLEAN, until : Nat, fails : Nat]
        BY <1>2, <3>2 DEF UnlockedUser, User
      <4>2. Edited(r.op, r.entity).status = "suspended"
        BY <1>2, <3>2, <4>1 DEF Edited, User
      <4> QED
        BY <1>1, <4>2
    <3>5. row'.status = "suspended"
      BY <3>1, <3>3, <3>4
    <3>6. cache' # None => cache'.status = "suspended"
      BY <1>1, <3>1, <3>2
    <3>7. e.status = "suspended"
      BY <1>1, <3>1, <3>2, <3>5
    <3>8. Stays(q)
      BY <1>4, <3>2, <3>7 DEF Stays
    <3> QED
      BY <3>5, <3>6, <3>8
  <2>2. CASE ~barred
    <3>1. /\ Len(r.plan) = 1 /\ r.op = "suspend" /\ step \in {"get", "keep"}
      BY <1>1, <1>10, <2>2
    <3>2. q = Idle /\ ~Has(q, "save") /\ ~Has(q, "invalidate")
      BY <1>4, <3>1 DEF Has
    <3> QED
      BY <1>8, <3>1, <3>2, IdleKnows
  <2> QED
    BY <2>1, <2>2
<1>11. ASSUME faults' = 0
       PROVE  cache' \in {None, row'} \/ Has(q, "invalidate")
  <2>1. cache \in {None, row} \/ Has(r, "invalidate")
    BY <1>1, <1>3, <1>11 DEF TurnInv
  <2>2. step # "invalidate" /\ Has(r, "invalidate") => Has(q, "invalidate")
    BY <1>4 DEF Has
  <2> QED
    BY <1>1, <1>4, <1>7, <2>1, <2>2
<1> QED
  BY <1>1, <1>2, <1>3, <1>9, <1>10, <1>11, TurnStep

\* A login that is refused, goes on or was counted.
LEMMA TurnReplan ==
  ASSUME IInv, TurnInv, OneAtATime', NEW h \in Requests,
         NEW step \in {"checkLock", "rekey", "count", "countFailed"},
         At(h, step), NEW q \in Request, Becomes(h, q),
         UNCHANGED <<row, cache, barred, faults>>, ~intruder',
         \/ q = Idle
         \/ /\ q.op = request[h].op
            /\ Steps(q.plan) \cap {"keep", "checkLock"} = {}
            /\ step = "checkLock" => ~barred
  PROVE  TurnInv'
<1>1. PICK r : r = request[h]
  OBVIOUS
<1>2. /\ r \in Request /\ Sound(r) /\ r.plan \in Seq(Step) /\ r.plan # <<>>
      /\ Head(r.plan) = step /\ Has(r, step) /\ r # Idle
  BY <1>1, InFlightSound DEF Idle
<1>3. r.op \in {"wrong", "right"}
  BY <1>2 DEF Sound
<1>4. Steps(r.plan) = {step}
  <2>1. /\ Len(r.plan) \in Nat /\ Len(r.plan) >= 1 /\ r.plan[1] = step
        /\ Steps(r.plan) = {step} \union Steps(Tail(r.plan))
        /\ Len(r.plan) = 1 => Steps(Tail(r.plan)) = {}
    BY <1>2, TailOf, StepsOf
  <2>2. 1 \in 1 .. Len(r.plan)
    BY <2>1
  <2>3. Len(r.plan) = 1
    BY <1>2, <2>1, <2>2 DEF Sound, Ordered
  <2> QED
    BY <2>1, <2>3
<1>5. /\ ~Has(r, "invalidate")
      /\ \A g \in Requests \ {h} : ~Has(request[g], "invalidate")
  BY <1>1, <1>2, <1>4, Others, IdleKnows DEF TurnInv, Has
<1>6. Knows(q, row', cache')
  <2>1. CASE q = Idle
    BY <2>1, IdleKnows
  <2>2. CASE q # Idle
    <3>1. q.op \in {"wrong", "right"} /\ Steps(q.plan) \cap {"keep", "checkLock"} = {}
      BY <1>1, <1>3, <2>2
    <3>2. q.plan # <<>> => Head(q.plan) # "keep"
      <4>1. q \in Request
        OBVIOUS
      <4>2. q.plan \in Seq(Step)
        BY <4>1 DEF Request
      <4>3. q.plan # <<>> => Head(q.plan) \in Steps(q.plan)
        BY <4>2, StepsOf
      <4> QED
        BY <3>1, <4>3
    <3> QED
      BY <3>1, <3>2 DEF Knows, Has, Changes
  <2> QED
    BY <2>1, <2>2
<1>7. ASSUME barred'
      PROVE  /\ row'.status = "suspended"
             /\ cache' # None => cache'.status = "suspended"
             /\ Stays(q)
  <2>1. /\ row.status = "suspended" /\ Stays(r)
        /\ cache # None => cache.status = "suspended"
    BY <1>1, <1>7 DEF TurnInv, Barred
  <2>2. step = "checkLock"
    <3>1. r.plan = <<"checkLock">>
      BY <1>2, <1>3, <2>1 DEF Stays
    <3> QED
      BY <1>2, <3>1
  <2>3. q = Idle
    BY <1>7, <2>2
  <2> QED
    BY <2>1, <2>3, IdleKnows
<1>8. faults' = 0 => cache' \in {None, row'}
  BY <1>1, <1>5 DEF TurnInv
<1> QED
  BY <1>1, <1>2, <1>6, <1>7, <1>8, TurnStep

LEMMA TurnCheckLock ==
  ASSUME IInv, TurnInv, OneAtATime', NEW h \in Requests, CheckLock(h)
  PROVE  TurnInv'
<1> DEFINE r == request[h]
           lift == <<"save", "delFailed", "delKey", "invalidate">>
<1>1. /\ At(h, "checkLock")
      /\ UNCHANGED <<row, cache, barred, faults>>
  BY DEF CheckLock, redis
<1>2. /\ r \in Request /\ Sound(r) /\ r.plan # <<>> /\ r.op \in {"wrong", "right"}
      /\ r.entity \in User /\ Timed(r.entity) /\ Has(r, "checkLock")
  BY <1>1, InFlightSound DEF Sound
<1>3. barred => r.entity.status = "suspended"
  <2>1. r # Idle
    BY <1>2 DEF Idle
  <2> QED
    BY <2>1 DEF TurnInv, Barred, Stays
<1>4. ~intruder'
  <2>1. r.barred => r.entity.status = "suspended"
    BY <1>2 DEF TurnInv, Knows
  <2> QED
    BY <2>1 DEF CheckLock, TurnInv
<1>5. CASE Becomes(h, Idle)
  BY <1>1, <1>4, <1>5, IdleSound, TurnReplan
<1>6. CASE r.entity.status = "active" /\ Becomes(h, [r EXCEPT !.plan = <<"rekey">>])
  <2>1. /\ <<"rekey">> \in Seq(Step) /\ <<"rekey">> # <<>>
        /\ Ordered(<<"rekey">>) /\ Steps(<<"rekey">>) = {"rekey"}
    BY DEF Step, Ordered, Steps
  <2>2. PICK q : q = [r EXCEPT !.plan = <<"rekey">>]
    OBVIOUS
  <2>3. q \in Request /\ q.op = r.op /\ q.plan = <<"rekey">>
    BY <1>2, <2>1, <2>2, SoundPlan
  <2>4. Steps(q.plan) \cap {"keep", "checkLock"} = {}
    BY <2>1, <2>3
  <2> QED
    BY <1>1, <1>3, <1>4, <1>6, <2>2, <2>3, <2>4, TurnReplan
<1>7. ASSUME NEW e \in User, Timed(e),
             NEW l \in {<<>>, lift}, r.entity.status = "active",
             NEW p, p = l \o Accepted(r.op),
             Becomes(h, [r EXCEPT !.entity = e, !.plan = p])
      PROVE  TurnInv'
  <2>1. PICK r2 : r2 = [r EXCEPT !.entity = e]
    OBVIOUS
  <2>2. r2 \in Request /\ Sound(r2) /\ r2.plan # <<>> /\ r2.op = r.op
    BY <1>2, <1>7, <2>1, SoundWith
  <2>3. /\ p \in Seq(Step) /\ Ordered(p) /\ p # <<>>
        /\ Steps(p) \cap {"checkLock", "rekey", "countFailed", "keep"} = {}
        /\ "count" \in Steps(p) => r.op = "wrong"
    BY <1>2, <1>7, AcceptedPlan
  <2>4. PICK q : q = [r2 EXCEPT !.plan = p]
    OBVIOUS
  <2>5. q \in Request /\ q.op = r.op /\ q.plan = p
    BY <1>2, <2>2, <2>3, <2>4, SoundPlan
  <2>6. Becomes(h, q)
    BY <1>7, <2>1, <2>4
  <2>7. Steps(q.plan) \cap {"keep", "checkLock"} = {}
    BY <2>3, <2>5
  <2> QED
    BY <1>1, <1>3, <1>4, <1>7, <2>5, <2>6, <2>7, TurnReplan
<1>8. CASE /\ r.entity.status = "active"
           /\ Becomes(h, [r EXCEPT !.entity = UnlockedUser(r.entity),
                                   !.plan = lift \o Accepted(r.op)])
  <2>1. PICK e : e = UnlockedUser(r.entity)
    OBVIOUS
  <2>2. e \in User /\ Timed(e)
    BY <1>2, <2>1, Basics, Users
  <2>3. PICK p : p = lift \o Accepted(r.op)
    OBVIOUS
  <2>4. Becomes(h, [r EXCEPT !.entity = e, !.plan = p])
    BY <1>8, <2>1, <2>3
  <2> QED
    BY <1>7, <1>8, <2>2, <2>3, <2>4
<1>9. CASE /\ r.entity.status = "active"
           /\ Becomes(h, [r EXCEPT !.plan = Accepted(r.op)])
  <2>1. PICK p : p = Accepted(r.op)
    OBVIOUS
  <2>2. p \in Seq(Step)
    BY <1>2, <2>1, Pieces DEF Accepted
  <2>3. p = <<>> \o Accepted(r.op)
    BY <2>1, <2>2
  <2>4. PICK e : e = r.entity
    OBVIOUS
  <2>5. [r EXCEPT !.entity = e, !.plan = p] = [r EXCEPT !.plan = p]
    BY <1>2, <2>4 DEF Request
  <2>6. Becomes(h, [r EXCEPT !.entity = e, !.plan = p])
    BY <1>9, <2>1, <2>5
  <2> QED
    BY <1>2, <1>7, <1>9, <2>3, <2>4, <2>6
<1> QED
  BY <1>5, <1>6, <1>8, <1>9 DEF CheckLock

LEMMA TurnCounted ==
  ASSUME IInv, TurnInv, OneAtATime', NEW h \in Requests,
         Rekey(h) \/ Count(h) \/ CountFailed(h)
  PROVE  TurnInv'
<1> DEFINE r == request[h]
<1> USE DEF history
<1>1. CASE Rekey(h)
  <2>1. /\ At(h, "rekey") /\ Becomes(h, Idle)
        /\ UNCHANGED <<row, cache, barred, faults>> /\ ~intruder'
    BY <1>1 DEF Rekey, TurnInv
  <2> QED
    BY <2>1, IdleSound, TurnReplan
<1>2. CASE Count(h)
  <2>1. /\ At(h, "count") /\ UNCHANGED <<row, cache, barred, faults>> /\ ~intruder'
    BY <1>2 DEF Count, TurnInv
  <2>2. PICK q : q = [r EXCEPT !.count = attempts + 1,
                               !.plan = <<"get", "countFailed">>]
    OBVIOUS
  <2>3. Becomes(h, q)
    BY <1>2, <2>2 DEF Count
  <2>4. PICK p : p = <<"get", "countFailed">>
    OBVIOUS
  <2>5. p \in Seq(Step) /\ Steps(p) = {"get", "countFailed"}
    BY <2>4 DEF Step, Steps
  <2>6. r \in Request
    BY <2>1, InFlightSound
  <2>7. q \in Request /\ q.op = r.op /\ q.plan = p
    <3>1. q = [r EXCEPT !.count = attempts + 1, !.plan = p]
      BY <2>2, <2>4
    <3>2. attempts + 1 \in Nat
      BY Basics
    <3> QED
      BY <2>5, <2>6, <3>1, <3>2 DEF Request
  <2>8. Steps(q.plan) \cap {"keep", "checkLock"} = {}
    BY <2>5, <2>7
  <2> QED
    BY <2>1, <2>3, <2>7, <2>8, TurnReplan
<1>3. CASE CountFailed(h)
  <2>1. /\ At(h, "countFailed") /\ UNCHANGED <<row, cache, barred, faults>>
        /\ ~intruder'
    BY <1>3 DEF CountFailed, TurnInv
  <2>2. IInv'
    BY <1>3, CountFailedSound
  <2>3. PICK p : p = Penalty(r.entity, r.count)
    OBVIOUS
  <2>4. PICK u : u = [r.entity EXCEPT !.fails = Failures(r.entity)]
    OBVIOUS
  <2>5. PICK e : e = IF u.fails >= Threshold THEN LockedUser(u) ELSE u
    OBVIOUS
  <2>6. PICK q : q = [r EXCEPT !.entity = e, !.plan = p]
    OBVIOUS
  <2>7. Becomes(h, q)
    BY <1>3, <2>3, <2>4, <2>5, <2>6 DEF CountFailed
  <2>8. q \in Request
    BY <2>2, <2>7 DEF IInv, TypeOK, Becomes
  <2>9. r \in Request
    BY <2>1, InFlightSound
  <2>10. q.op = r.op /\ q.plan = p
    BY <2>6, <2>9 DEF Request
  <2>11. Steps(q.plan) \cap {"keep", "checkLock"} = {}
    BY <2>3, <2>10, PenaltyPlan
  <2> QED
    BY <2>1, <2>7, <2>8, <2>10, <2>11, TurnReplan
<1> QED
  BY <1>1, <1>2, <1>3

LEMMA TurnMiss ==
  ASSUME IInv, TurnInv, OneAtATime', NEW h \in Requests, At(h, "get"),
         Becomes(h, [request[h] EXCEPT
                       !.plan = <<"find", "keep">> \o Tail(@)]),
         UNCHANGED <<row, redis, history, faults>>
  PROVE  TurnInv'
<1>1. PICK r : r = request[h]
  OBVIOUS
<1>2. /\ r \in Request /\ Sound(r) /\ r.plan \in Seq(Step) /\ r.plan # <<>>
      /\ Head(r.plan) = "get" /\ r # Idle
  BY <1>1, InFlightSound DEF Idle
<1>3. PICK p : p = <<"find", "keep">> \o Tail(r.plan)
  OBVIOUS
<1>4. /\ p \in Seq(Step) /\ Head(p) = "find"
      /\ Steps(p) = {"find", "keep"} \union Steps(Tail(r.plan))
      /\ Steps(r.plan) = {"get"} \union Steps(Tail(r.plan))
  <2>1. p \in Seq(Step) /\ Len(p) = Len(r.plan) + 1 /\ p[1] = "find"
    BY <1>2, <1>3, FoundOf
  <2>2. Len(r.plan) \in Nat
    BY <1>2, TailOf
  <2>3. p # <<>>
    BY <2>1, <2>2
  <2> QED
    BY <1>2, <1>3, <2>1, <2>3, StepsOf, TailOf
<1>5. PICK q : q = [r EXCEPT !.plan = p]
  OBVIOUS
<1>6. /\ Becomes(h, q) /\ q.plan = p /\ q.op = r.op /\ q.entity = r.entity
      /\ q.barred = r.barred
  BY <1>1, <1>2, <1>3, <1>5 DEF Request
<1>7. /\ Has(q, "save") <=> Has(r, "save")
      /\ Has(q, "invalidate") <=> Has(r, "invalidate")
      /\ Has(q, "checkLock") <=> Has(r, "checkLock")
  BY <1>4, <1>6 DEF Has
<1>8. Knows(r, row, cache) /\ row' = row /\ cache' = cache /\ ~intruder'
  BY <1>1 DEF TurnInv, redis, history
<1>9. Knows(q, row', cache')
  <2>1. r.op \in Changes => Steps(q.plan) \subseteq Changing
    BY <1>4, <1>6, <1>8 DEF Knows, Changing
  <2>2. q.plan # <<>> => Head(q.plan) # "keep"
    BY <1>4, <1>6
  <2> QED
    BY <1>6, <1>7, <1>8, <2>1, <2>2 DEF Knows
<1>10. ASSUME barred'
       PROVE  /\ row'.status = "suspended"
              /\ cache' # None => cache'.status = "suspended"
              /\ Stays(q)
  <2>1. /\ row.status = "suspended" /\ Stays(r)
        /\ cache # None => cache.status = "suspended"
    BY <1>1, <1>10 DEF TurnInv, Barred, history
  <2>2. r.plan # <<"checkLock">>
    BY <1>2
  <2> QED
    BY <1>2, <1>6, <1>8, <2>1, <2>2 DEF Stays
<1>11. ASSUME faults' = 0
       PROVE  cache' \in {None, row'} \/ Has(q, "invalidate")
  <2>1. \A g \in Requests \ {h} : ~Has(request[g], "invalidate")
    BY <1>1, <1>2, <1>6, Others, IdleKnows DEF TurnInv
  <2> QED
    BY <1>1, <1>7, <1>8, <1>11, <2>1 DEF TurnInv
<1> QED
  BY <1>1, <1>2, <1>6, <1>8, <1>9, <1>10, <1>11, TurnStep

\* What an answer makes of a suspension.
LEMMA AnsweredBars ==
  ASSUME NEW h \in Requests, Answered(h)
  PROVE  /\ intruder' = intruder
         /\ barred' => barred \/ (Len(request[h].plan) = 1
                                    /\ request[h].op = "suspend")
<1>1. CASE Last(request[h])
  BY <1>1 DEF Answered, Last
<1>2. CASE ~Last(request[h])
  BY <1>2 DEF Answered, history
<1> QED
  BY <1>1, <1>2

LEMMA TurnGetUser ==
  ASSUME IInv, TurnInv, OneAtATime', NEW h \in Requests, GetUser(h)
  PROVE  TurnInv'
<1>1. At(h, "get") /\ UNCHANGED <<row, redis, now, faults>>
  BY DEF GetUser
<1>2. CASE /\ cache # None /\ Answered(h)
           /\ Becomes(h, Rest([request[h] EXCEPT !.entity = cache]))
  <2>1. PICK e : e = cache
    OBVIOUS
  <2>2. e \in User /\ Timed(e)
    BY <1>2, <2>1, Basics
  <2>3. PICK q : q = Rest([request[h] EXCEPT !.entity = e])
    OBVIOUS
  <2>4. Becomes(h, q)
    BY <1>2, <2>1, <2>3
  <2>5. "get" \in Step
    BY DEF Step
  <2> QED
    BY <1>1, <1>2, <2>1, <2>2, <2>3, <2>4, <2>5, AnsweredBars,
       TurnAdvance DEF redis
<1>3. CASE /\ Becomes(h, [request[h] EXCEPT !.plan = <<"find", "keep">> \o Tail(@)])
           /\ UNCHANGED history
  BY <1>1, <1>3, TurnMiss
<1> QED
  BY <1>2, <1>3 DEF GetUser

LEMMA TurnFindUser ==
  ASSUME IInv, TurnInv, OneAtATime', NEW h \in Requests, FindUser(h)
  PROVE  TurnInv'
<1>1. /\ At(h, "find") /\ Becomes(h, Rest([request[h] EXCEPT !.entity = row]))
      /\ UNCHANGED <<row, redis, now, history, faults>>
  BY DEF FindUser
<1>2. PICK e : e = row
  OBVIOUS
<1>3. e \in User /\ Timed(e)
  BY <1>2, Basics
<1>4. PICK q : q = Rest([request[h] EXCEPT !.entity = e])
  OBVIOUS
<1>5. Becomes(h, q)
  BY <1>1, <1>2, <1>4
<1>6. "find" \in Step
  BY DEF Step
<1> QED
  BY <1>1, <1>2, <1>3, <1>4, <1>5, <1>6, TurnAdvance DEF redis, history

LEMMA SameEntity ==
  ASSUME NEW r \in Request
  PROVE  [r EXCEPT !.entity = r.entity] = r
  BY DEF Request

\* The steps that leave the entity alone.
LEMMA TurnOther ==
  ASSUME IInv, TurnInv, OneAtATime', NEW h \in Requests,
         \/ KeepUser(h) \/ Reset(h) \/ Record(h) \/ Save(h) \/ SaveLocked(h)
         \/ SetKey(h) \/ DelFailed(h) \/ DelKey(h) \/ Invalidate(h)
  PROVE  TurnInv'
<1> DEFINE r == request[h]
<1>1. ASSUME NEW step \in Step, At(h, step),
             step \notin {"checkLock", "rekey", "count", "countFailed", "find"},
             Becomes(h, Rest(r)),
             step \notin {"save", "saveLocked", "record"} => row' = row,
             step = "save" => row' = Edited(r.op, r.entity),
             \/ cache' = cache /\ step # "invalidate"
             \/ cache' = None
             \/ step = "keep" /\ cache' = r.entity,
             intruder' = intruder, faults' = faults,
             barred' => barred \/ (Len(r.plan) = 1 /\ r.op = "suspend"
                                     /\ step \in {"get", "keep"})
      PROVE  TurnInv'
  <2>1. r \in Request /\ r.entity \in User /\ Timed(r.entity)
    BY <1>1, InFlightSound
  <2>2. PICK e : e = r.entity
    OBVIOUS
  <2>3. PICK q : q = Rest([r EXCEPT !.entity = e])
    OBVIOUS
  <2>4. Becomes(h, q)
    BY <1>1, <2>1, <2>2, <2>3, SameEntity
  <2> QED
    BY <1>1, <2>1, <2>2, <2>3, <2>4, TurnAdvance
<1> HIDE DEF r
<1> USE DEF redis, history, Step
<1>2. CASE KeepUser(h)
  BY <1>1, <1>2, AnsweredBars DEF KeepUser, r
<1>3. CASE Reset(h)
  BY <1>1, <1>3 DEF Reset, r
<1>4. CASE Record(h)
  BY <1>1, <1>4 DEF Record, r
<1>5. CASE Save(h)
  BY <1>1, <1>5 DEF Save, r
<1>6. CASE SaveLocked(h)
  BY <1>1, <1>6 DEF SaveLocked, r
<1>7. CASE SetKey(h)
  BY <1>1, <1>7 DEF SetKey, r
<1>8. CASE DelFailed(h)
  BY <1>1, <1>8 DEF DelFailed, r
<1>9. CASE DelKey(h)
  BY <1>1, <1>9 DEF DelKey, r
<1>10. CASE Invalidate(h)
  BY <1>1, <1>10 DEF Invalidate, r
<1> QED
  BY <1>2, <1>3, <1>4, <1>5, <1>6, <1>7, <1>8, <1>9, <1>10

LEMMA TurnBegin ==
  ASSUME IInv, TurnInv, OneAtATime', NEW h \in Requests,
         NEW op \in Operations, Begin(h, op),
         barred' => request'[h].op # "lock"
  PROVE  TurnInv'
<1>1. PICK q : q = [Idle EXCEPT !.op = op, !.plan = Plan(op), !.entity = row,
                                !.barred = barred]
  OBVIOUS
<1>2. q.op = op /\ q.plan = Plan(op) /\ q.entity = row /\ q.barred = barred
  BY <1>1 DEF Idle
<1>3. /\ Becomes(h, q) /\ request[h] = Idle /\ row' = row /\ cache' = cache
      /\ ~intruder' /\ faults' = faults
  BY <1>1 DEF Begin, Admitted, redis, TurnInv
<1>4. q # Idle
  BY <1>2 DEF Operations, Idle
<1>5. \A g \in Requests : request[g] = Idle /\ ~Has(request[g], "invalidate")
  BY <1>3, <1>4, Others, IdleKnows DEF TurnInv
<1>6. /\ "keep" \notin Steps(Plan(op))
      /\ op \in Changes => Steps(Plan(op)) \subseteq Changing
      /\ op = "suspend" =>
           "save" \in Steps(Plan(op)) /\ "invalidate" \in Steps(Plan(op))
  BY PlanSteps DEF Operations, Changes, Changing
<1>7. barred => row.status = "suspended"
  BY DEF TurnInv, Barred
<1>8. Knows(q, row', cache')
  <2>1. q.plan # <<>> => Head(q.plan) # "keep"
    BY <1>2, <1>6, PlanOrdered, StepsOf
  <2> QED
    BY <1>2, <1>3, <1>6, <1>7, <2>1 DEF Knows, Has
<1>9. ASSUME barred'
      PROVE  /\ row'.status = "suspended"
             /\ cache' # None => cache'.status = "suspended"
             /\ Stays(q)
  <2>1. /\ barred /\ op \notin {"activate", "patch"}
        /\ op = "job" => Expired(row)
        /\ op = "dormant" => row.status = "active"
    BY <1>9 DEF Begin
  <2>2. /\ row.status = "suspended"
        /\ cache # None => cache.status = "suspended"
    BY <2>1 DEF TurnInv, Barred
  <2>3. op \notin {"lock", "job", "dormant"}
    <3>1. request'[h] = q
      BY <1>3 DEF Becomes, IInv, TypeOK
    <3> QED
      BY <1>2, <1>9, <2>1, <2>2, <3>1 DEF Expired
  <2>4. op \in {"wrong", "right"} => q.plan = <<"checkLock">>
    BY <1>2, Plans
  <2> QED
    BY <1>2, <1>3, <2>1, <2>2, <2>3, <2>4 DEF Stays, Operations
<1>10. faults' = 0 => cache' \in {None, row'}
  BY <1>3, <1>5 DEF TurnInv
<1> QED
  BY <1>3, <1>4, <1>8, <1>9, <1>10, TurnStep

\* Time takes the copy in Redis.
LEMMA TurnCopyGone ==
  ASSUME IInv, TurnInv, cache' = None,
         UNCHANGED <<row, request, barred, intruder, faults>>
  PROVE  TurnInv'
<1>1. \A h \in Requests : Knows(request'[h], row', cache')
  BY DEF TurnInv, Knows
<1>2. OneAtATime' /\ ~intruder'
  BY DEF TurnInv, OneAtATime
<1>3. barred' => Barred'
  BY DEF TurnInv, Barred
<1> QED
  BY <1>1, <1>2, <1>3 DEF TurnInv

LEMMA TurnUnchanged ==
  ASSUME TurnInv, UNCHANGED vars
  PROVE  TurnInv'
<1> USE DEF vars, redis, history
<1>1. \A h \in Requests : Knows(request'[h], row', cache')
  BY DEF TurnInv
<1>2. OneAtATime' /\ ~intruder' /\ (barred' => Barred')
  BY DEF TurnInv, OneAtATime, Barred
<1>3. faults' = 0 =>
        \/ cache' \in {None, row'}
        \/ \E h \in Requests : Has(request'[h], "invalidate")
  BY DEF TurnInv
<1> QED
  BY <1>1, <1>2, <1>3 DEF TurnInv

LEMMA TurnPreserved ==
  ASSUME IInv, TurnInv, Next, OneAtATime',
         barred' => \A h \in Requests : request'[h].op # "lock"
  PROVE  TurnInv'
<1>1. ASSUME NEW h \in Requests, NEW op \in Operations, Begin(h, op)
      PROVE  TurnInv'
  BY <1>1, TurnBegin
<1>2. ASSUME NEW h \in Requests, Proceeds(h)
      PROVE  TurnInv'
  BY <1>2, TurnCheckLock, TurnCounted, TurnGetUser, TurnFindUser, TurnOther
     DEF Proceeds
<1>3. ASSUME NEW h \in Requests, Raise(h)
      PROVE  TurnInv'
  <2>1. /\ Becomes(h, Idle) /\ request[h] # Idle /\ faults' = faults + 1
        /\ row' = row /\ cache' = cache /\ barred' = barred /\ ~intruder'
    BY <1>3 DEF Raise, TurnInv, redis, history
  <2>2. faults' # 0
    BY <2>1, Basics
  <2>3. Knows(Idle, row', cache') /\ Stays(Idle)
    BY IdleKnows
  <2> QED
    BY <2>1, <2>2, <2>3, TurnStep DEF TurnInv, Barred
<1>4. CASE CopyExpires
  BY <1>4, TurnCopyGone DEF CopyExpires, history
<1>5. CASE HalfHourPasses
  BY <1>5, TurnCopyGone DEF HalfHourPasses
<1> QED
  BY <1>1, <1>2, <1>3, <1>4, <1>5 DEF Next

-----------------------------------------------------------------------------
(* Without turns                                                           *)

LEMMA LenientFinite == IsFiniteSet(LenientOnes) /\ Cardinality(LenientOnes) \in Nat
<1>1. LenientOnes \subseteq Requests /\ IsFiniteSet(Requests)
  BY LockoutConstants DEF LockoutConstants, LenientOnes
<1> QED
  BY <1>1, FS_Subset, FS_CardinalityType

\* What a step does to the number of lenient wrong passwords.
LEMMA LenientCount ==
  ASSUME IInv, NEW h \in Requests, NEW q, Becomes(h, q)
  PROVE  /\ IsFiniteSet(LenientOnes') /\ Cardinality(LenientOnes)' \in Nat
         /\ Cardinality(LenientOnes) \in Nat
         /\ ~Lenient(q) \/ Lenient(request[h]) =>
              Cardinality(LenientOnes)' <= Cardinality(LenientOnes)
         /\ Cardinality(LenientOnes)' <= Cardinality(LenientOnes) + 1
         /\ Lenient(request[h]) /\ ~Lenient(q) =>
              Cardinality(LenientOnes)' = Cardinality(LenientOnes) - 1
<1>1. /\ request'[h] = q
      /\ \A g \in Requests \ {h} : request'[g] = request[g]
  BY DEF Becomes, IInv, TypeOK
<1> DEFINE a == LenientOnes
           b == LenientOnes'
<1>2. \A g \in Requests \ {h} : g \in b <=> g \in a
  BY <1>1 DEF LenientOnes
<1>3. /\ h \in a <=> Lenient(request[h])
      /\ h \in b <=> Lenient(q)
      /\ a \subseteq Requests /\ b \subseteq Requests
  BY <1>1 DEF LenientOnes
<1>4. Cardinality(LenientOnes)' = Cardinality(b)
  OBVIOUS
<1> HIDE DEF a, b
<1>5. IsFiniteSet(a) /\ Cardinality(a) \in Nat
  BY LenientFinite DEF a
<1>6. CASE h \in a /\ h \notin b
  <2>1. b = a \ {h}
    BY <1>2, <1>3, <1>6
  <2>2. IsFiniteSet(b) /\ Cardinality(b) = Cardinality(a) - 1
    BY <1>5, <1>6, <2>1, FS_RemoveElement
  <2>3. Cardinality(b) \in Nat
    BY <2>2, FS_CardinalityType
  <2> QED
    BY <1>3, <1>4, <1>5, <1>6, <2>2, <2>3 DEF a, b
<1>7. CASE h \notin a /\ h \in b
  <2>1. b = a \union {h}
    BY <1>2, <1>3, <1>7
  <2>2. IsFiniteSet(b) /\ Cardinality(b) = Cardinality(a) + 1
    BY <1>5, <1>7, <2>1, FS_AddElement
  <2> QED
    BY <1>3, <1>4, <1>5, <1>7, <2>2 DEF a, b
<1>8. CASE h \in a <=> h \in b
  <2>1. a = b
    BY <1>2, <1>3, <1>8
  <2> QED
    BY <1>3, <1>4, <1>5, <1>8, <2>1 DEF a, b
<1> QED
  BY <1>6, <1>7, <1>8

LEMMA IdleCareful == Careful(Idle) /\ ~Lenient(Idle) /\ Idle.op = "none"
<1>1. Idle.op = "none" /\ Steps(Idle.plan) = {} /\ ~Idle.entity.isLocked
  BY Pieces DEF Idle, NewUser
<1> QED
  BY <1>1 DEF Careful, Lenient, Plain, Has

LEMMA CrowdStep ==
  ASSUME IInv, CrowdInv, NEW h \in Requests, NEW q, Becomes(h, q), now' = now,
         Plain(row'), cache' # None => Plain(cache'), Careful(q),
         now = 0 =>
           /\ lockKey # 0 => lockKey' # 0
           /\ lockKey' # 0 \/ Open'
           /\ q.op # "job"
           /\ q.op = "lock" => lockKey' # 0 \/ Has(q, "setKey"),
         now # 0 => misses' = 0 /\ ~standing' /\ q.op \notin {"wrong", "lock"}
  PROVE  CrowdInv'
<1>1. /\ request'[h] = q
      /\ \A g \in Requests \ {h} : request'[g] = request[g]
  BY DEF Becomes, IInv, TypeOK
<1>2. \A g \in Requests : Careful(request'[g])
  BY <1>1 DEF CrowdInv
<1>3. now = 0 => \A g \in Requests :
                   /\ request'[g].op # "job"
                   /\ request'[g].op = "lock" =>
                        lockKey' # 0 \/ Has(request'[g], "setKey")
  BY <1>1 DEF CrowdInv
<1>4. now # 0 => \A g \in Requests : request'[g].op \notin {"wrong", "lock"}
  BY <1>1 DEF CrowdInv
<1> QED
  BY <1>2, <1>3, <1>4 DEF CrowdInv

\* While no key is set, Open is kept by a step that answers nothing and leaves
\* one wrong password less to answer, or as many.
LEMMA OpenKept ==
  ASSUME IInv, CrowdInv, now = 0, lockKey = 0, NEW h \in Requests, NEW q,
         Becomes(h, q), ~Lenient(q) \/ Lenient(request[h]),
         failed' = failed, misses' = misses, standing' => standing
  PROVE  Open'
<1>1. /\ ~standing /\ misses + Cardinality(LenientOnes) <= failed
      /\ misses + Cardinality(LenientOnes) < Threshold
  BY DEF CrowdInv, Open
<1>2. /\ Cardinality(LenientOnes) \in Nat /\ Cardinality(LenientOnes)' \in Nat
      /\ Cardinality(LenientOnes)' <= Cardinality(LenientOnes)
  BY LenientFinite, LenientCount
<1>3. misses \in Nat /\ failed \in Nat /\ Threshold \in Nat
  BY Basics, LockoutConstants DEF LockoutConstants
<1>4. /\ misses + Cardinality(LenientOnes)' <= failed
      /\ misses + Cardinality(LenientOnes)' < Threshold
  <2>1. PICK n, m \in Nat : n = Cardinality(LenientOnes)
                            /\ m = Cardinality(LenientOnes)'
    BY <1>2
  <2> QED
    BY <1>1, <1>2, <1>3, <2>1
<1> QED
  BY <1>1, <1>4 DEF Open

\* A request in flight goes on to the next step of its plan.
LEMMA CrowdAdvance ==
  ASSUME IInv, CrowdInv, NEW h \in Requests, NEW step, At(h, step),
         step \notin {"checkLock", "rekey", "count", "countFailed"},
         NEW e \in User, Timed(e), Plain(e),
         NEW q, q = Rest([request[h] EXCEPT !.entity = e]), Becomes(h, q),
         now' = now, Plain(row'), cache' # None => Plain(cache'),
         failed' = failed \/ request[h].op = "job",
         step = "setKey" => lockKey' # 0,
         lockKey # 0 => lockKey' # 0 \/ request[h].op = "job",
         \/ UNCHANGED history
         \/ step \in {"get", "keep"} /\ Answered(h)
         \/ request[h].op = "job" /\ misses' = 0 /\ standing' = standing
  PROVE  CrowdInv'
<1>1. PICK r : r = request[h]
  OBVIOUS
<1>2. /\ r \in Request /\ Sound(r) /\ r.plan \in Seq(Step) /\ r.plan # <<>>
      /\ Head(r.plan) = step /\ Has(r, step) /\ r.op # "none"
  BY <1>1, InFlightSound DEF Sound, Idle
<1>3. q = Rest([r EXCEPT !.entity = e])
  BY <1>1
<1>4. Steps(r.plan) = {step} \union Steps(q.plan)
  BY <1>2, <1>3, Advance
<1>5. Len(r.plan) = 1 => q = Idle /\ Steps(q.plan) = {}
  BY <1>2, <1>3, Advance
<1>6. Len(r.plan) # 1 => q.op = r.op
  BY <1>2, <1>3, Advance
<1>7. Len(r.plan) # 1 => q.entity = e
  BY <1>2, <1>3, Advance
<1>8. ~Has(q, "rekey")
  BY <1>2, <1>3, Advance
<1>9. Careful(r)
  BY <1>1 DEF CrowdInv
<1>10. Careful(q)
  BY <1>4, <1>5, <1>6, <1>7, <1>8, <1>9, IdleCareful DEF Careful
<1>11. q.op \in {"none", r.op}
  BY <1>5, <1>6, IdleCareful
<1>12. step # "setKey" => ~Lenient(q) \/ Lenient(r)
  <2> SUFFICES ASSUME step # "setKey", Lenient(q)  PROVE Lenient(r)
    OBVIOUS
  <2>1. r.op = "wrong"
    BY <1>11 DEF Lenient
  <2>2. Has(r, "get") \/ Has(r, "keep")
    BY <1>4 DEF Lenient, Has
  <2>3. ~Has(r, "countFailed") /\ ~Has(r, "setKey")
    BY <1>4 DEF Lenient, Has
  <2> QED
    BY <2>1, <2>2, <2>3 DEF Lenient
<1>13. ASSUME now = 0, lockKey' = 0
       PROVE  Open'
  <2>1. /\ r.op # "job" /\ lockKey = 0 /\ failed' = failed /\ step # "setKey"
        /\ r.op = "lock" => Has(r, "setKey")
    BY <1>1, <1>13 DEF CrowdInv
  <2>2. CASE misses' = misses /\ standing' = standing
    BY <1>1, <1>12, <1>13, <2>1, <2>2, OpenKept
  <2>3. CASE step \in {"get", "keep"} /\ Answered(h) /\ Last(r)
    <3>1. Steps(r.plan) = {step} /\ q = Idle
      BY <1>4, <1>5, <2>3 DEF Last
    <3>2. r.op # "lock"
      BY <2>1, <2>3, <3>1 DEF Has
    <3>3. /\ misses' = IF r.op = "wrong" THEN misses + 1 ELSE misses
          /\ standing' => standing
      BY <1>1, <2>3, <3>2 DEF Answered
    <3>4. CASE r.op = "wrong"
      <4>1. Lenient(r) /\ ~Lenient(q)
        BY <2>3, <3>1, <3>4, IdleCareful DEF Lenient, Has
      <4>2. Cardinality(LenientOnes)' = Cardinality(LenientOnes) - 1
        BY <1>1, <4>1, LenientCount
      <4>3. /\ ~standing /\ misses + Cardinality(LenientOnes) <= failed
            /\ misses + Cardinality(LenientOnes) < Threshold
        BY <1>13, <2>1 DEF CrowdInv, Open
      <4>4. misses \in Nat /\ Cardinality(LenientOnes) \in Nat
        BY Basics, LenientFinite
      <4>5. misses' + Cardinality(LenientOnes)' = misses + Cardinality(LenientOnes)
        BY <3>3, <3>4, <4>2, <4>4
      <4> QED
        BY <2>1, <3>3, <4>3, <4>5 DEF Open
    <3>5. CASE r.op # "wrong"
      BY <1>1, <1>12, <1>13, <2>1, <3>3, <3>5, OpenKept
    <3> QED
      BY <3>4, <3>5
  <2>4. CASE step \in {"get", "keep"} /\ Answered(h) /\ ~Last(r)
    <3>1. misses' = misses /\ standing' = standing
      BY <1>1, <2>4 DEF Answered, history
    <3> QED
      BY <2>2, <3>1
  <2> QED
    BY <1>1, <2>1, <2>2, <2>3, <2>4 DEF history
<1>14. now = 0 => q.op # "job" /\ (lockKey # 0 => lockKey' # 0)
  BY <1>1, <1>5, <1>6, IdleCareful DEF CrowdInv
<1>15. ASSUME now = 0, q.op = "lock"
       PROVE  lockKey' # 0 \/ Has(q, "setKey")
  <2>1. r.op = "lock"
    BY <1>11, <1>15
  <2>2. lockKey # 0 \/ Has(r, "setKey")
    BY <1>1, <1>15, <2>1 DEF CrowdInv
  <2>3. Has(r, "setKey") => step = "setKey" \/ Has(q, "setKey")
    BY <1>4 DEF Has
  <2> QED
    BY <1>14, <1>15, <2>2, <2>3
<1>16. ASSUME now # 0
       PROVE  misses' = 0 /\ ~standing' /\ q.op \notin {"wrong", "lock"}
  <2>1. misses = 0 /\ ~standing /\ r.op \notin {"wrong", "lock"}
    BY <1>1, <1>16 DEF CrowdInv
  <2>2. Answered(h) => misses' = misses /\ (standing' => standing)
    BY <1>1, <2>1 DEF Answered, history
  <2> QED
    BY <1>1, <1>11, <2>1, <2>2 DEF history
<1> QED
  BY <1>10, <1>13, <1>14, <1>15, <1>16, CrowdStep

LEMMA PlainUsers ==
  ASSUME NEW u \in User, Plain(u)
  PROVE  /\ Plain(LockedUser(u)) /\ Plain(UnlockedUser(u))
         /\ \A op \in {"wrong", "edit", "job"} : Plain(Edited(op, u))
<1>1. /\ LockedUser(u).status = "locked" /\ UnlockedUser(u).isLocked = FALSE
  BY DEF LockedUser, UnlockedUser, User
<1>2. ASSUME NEW op \in {"wrong", "edit", "job"}
      PROVE  Plain(Edited(op, u))
  <2>1. CASE op \in {"wrong", "edit"}
    BY <2>1 DEF Edited
  <2>2. CASE op = "job"
    <3>1. PICK v : v = UnlockedUser(u)
      OBVIOUS
    <3>2. Edited(op, u) = [v EXCEPT !.status = IF @ = "locked" THEN "active" ELSE @]
      BY <2>2, <3>1 DEF Edited
    <3>3. DOMAIN v = {"status", "isLocked", "until", "fails"} /\ v.isLocked = FALSE
      BY <3>1 DEF UnlockedUser, User
    <3>4. Edited(op, u).isLocked = FALSE
      BY <3>2, <3>3
    <3> QED
      BY <3>4 DEF Plain
  <2> QED
    BY <2>1, <2>2
<1> QED
  BY <1>1, <1>2 DEF Plain

LEMMA CrowdBegin ==
  ASSUME IInv, CrowdInv, NEW h \in Requests, NEW op \in Operations,
         Begin(h, op),
         op \in {"wrong", "edit", "lock", "job"},
         now # 0 => op \notin {"wrong", "lock"}
  PROVE  CrowdInv'
<1>1. PICK q : q = [Idle EXCEPT !.op = op, !.plan = Plan(op), !.entity = row,
                                !.barred = barred]
  OBVIOUS
<1>2. q.op = op /\ q.plan = Plan(op) /\ q.entity = row
  BY <1>1 DEF Idle
<1>3. /\ Becomes(h, q) /\ request[h] = Idle
      /\ UNCHANGED <<row, cache, lockKey, failed, now, misses>>
      /\ standing' => standing
  BY <1>1 DEF Begin, Admitted, redis
<1>4. /\ op # "job" =>
           Steps(Plan(op)) \cap {"delFailed", "delKey", "reset", "record"} = {}
      /\ "rekey" \notin Steps(Plan(op))
      /\ op = "lock" => "setKey" \in Steps(Plan(op))
      /\ op = "wrong" => "get" \notin Steps(Plan(op)) /\ "keep" \notin Steps(Plan(op))
  BY PlanSteps DEF Operations
<1>5. Careful(q) /\ ~Lenient(q)
  BY <1>2, <1>4 DEF CrowdInv, Careful, Lenient, Has
<1>6. now = 0 => op # "job"
  <2>1. row.until \in Nat
    BY Basics DEF User
  <2> QED
    BY <2>1 DEF Begin, Expired
<1>7. now = 0 => lockKey' # 0 \/ Open'
  BY <1>3, <1>5, OpenKept
<1>8. now # 0 => misses' = 0 /\ ~standing' /\ q.op \notin {"wrong", "lock"}
  BY <1>2, <1>3 DEF CrowdInv
<1>9. q.op = "lock" => Has(q, "setKey")
  BY <1>2, <1>4 DEF Has
<1>10. Plain(row') /\ (cache' # None => Plain(cache'))
  BY <1>3 DEF CrowdInv
<1> QED
  BY <1>2, <1>3, <1>5, <1>6, <1>7, <1>8, <1>9, <1>10, CrowdStep

LEMMA CrowdCheckLock ==
  ASSUME IInv, CrowdInv, NEW h \in Requests, CheckLock(h)
  PROVE  CrowdInv'
<1>1. PICK r : r = request[h]
  OBVIOUS
<1>2. /\ At(h, "checkLock") /\ UNCHANGED <<row, redis, now, misses, standing>>
  BY DEF CheckLock
<1>3. /\ r \in Request /\ r.op \in {"wrong", "right"} /\ r.entity \in User
      /\ Careful(r)
  BY <1>1, <1>2, InFlightSound DEF Sound, CrowdInv
<1>4. r.op = "wrong" /\ Plain(r.entity)
  BY <1>3 DEF Careful
<1>5. now = 0
  BY <1>1, <1>4 DEF CrowdInv
<1>6. ASSUME NEW q, Becomes(h, q),
             Careful(q), ~Lenient(q), q.op \in {"none", "wrong"}
      PROVE  CrowdInv'
  <2>1. lockKey' # 0 \/ Open'
    BY <1>2, <1>5, <1>6, OpenKept DEF redis
  <2> QED
    BY <1>2, <1>5, <1>6, <2>1, CrowdStep DEF CrowdInv, redis
<1>7. CASE Becomes(h, Idle)
  BY <1>6, <1>7, IdleCareful
<1>8. CASE r.entity.until > now /\ Becomes(h, [r EXCEPT !.plan = <<"rekey">>])
  <2>1. Steps(<<"rekey">>) = {"rekey"}
    BY DEF Steps
  <2>2. PICK p : p = <<"rekey">>
    OBVIOUS
  <2>3. PICK q : q = [r EXCEPT !.plan = p]
    OBVIOUS
  <2>4. Becomes(h, q) /\ q.plan = p /\ q.op = r.op /\ q.entity = r.entity
    BY <1>3, <1>8, <2>2, <2>3 DEF Request
  <2>5. r.entity.until # 0
    BY <1>5, <1>8
  <2>6. Careful(q) /\ ~Lenient(q)
    BY <1>4, <2>1, <2>2, <2>4, <2>5 DEF Careful, Lenient, Has
  <2> QED
    BY <1>4, <1>6, <2>4, <2>6
<1>9. CASE Becomes(h, [r EXCEPT !.plan = Accepted(r.op)])
  <2>1. Steps(<<"count">>) = {"count"}
    BY Pieces
  <2>2. PICK p : p = <<"count">>
    OBVIOUS
  <2>3. PICK q : q = [r EXCEPT !.plan = p]
    OBVIOUS
  <2>4. Accepted(r.op) = p
    BY <1>4, <2>2 DEF Accepted
  <2>5. Becomes(h, q) /\ q.plan = p /\ q.op = r.op /\ q.entity = r.entity
    BY <1>3, <1>9, <2>3, <2>4 DEF Request
  <2>6. Careful(q) /\ ~Lenient(q)
    BY <1>4, <2>1, <2>2, <2>5 DEF Careful, Lenient, Has
  <2> QED
    BY <1>4, <1>6, <2>5, <2>6
<1>10. ~(r.entity.status = "active" /\ r.entity.isLocked
           /\ ~(r.entity.isLocked /\ r.entity.until > now))
  BY <1>4 DEF Plain
<1> QED
  BY <1>1, <1>7, <1>8, <1>9, <1>10 DEF CheckLock

LEMMA CrowdRekey ==
  ASSUME IInv, CrowdInv, NEW h \in Requests, Rekey(h)
  PROVE  CrowdInv'
<1>1. /\ At(h, "rekey") /\ lockKey' = request[h].entity.until /\ Becomes(h, Idle)
      /\ UNCHANGED <<row, cache, attempts, failed, now, history, faults>>
  BY DEF Rekey
<1>2. Has(request[h], "rekey") /\ Careful(request[h])
      /\ request[h].op \in {"wrong", "right"}
  BY <1>1, InFlightSound DEF Sound, CrowdInv
<1>3. lockKey' # 0 /\ now = 0
  BY <1>1, <1>2 DEF Careful, CrowdInv
<1> QED
  BY <1>1, <1>3, IdleCareful, CrowdStep DEF CrowdInv

LEMMA CrowdCount ==
  ASSUME IInv, CrowdInv, NEW h \in Requests, Count(h)
  PROVE  CrowdInv'
<1>1. PICK r : r = request[h]
  OBVIOUS
<1>2. /\ At(h, "count")
      /\ UNCHANGED <<row, cache, lockKey, failed, now, history, faults>>
  BY DEF Count
<1>3. r \in Request /\ r.op = "wrong" /\ Careful(r)
  BY <1>1, <1>2, InFlightSound DEF Sound, CrowdInv
<1>4. now = 0
  BY <1>1, <1>3 DEF CrowdInv
<1>5. PICK p : p = <<"get", "countFailed">>
  OBVIOUS
<1>6. Steps(p) = {"get", "countFailed"}
  BY <1>5 DEF Steps
<1>7. PICK q : q = [r EXCEPT !.count = attempts + 1, !.plan = p]
  OBVIOUS
<1>8. Becomes(h, q) /\ q.plan = p /\ q.op = r.op /\ q.entity = r.entity
  BY <1>1, <1>3, <1>5, <1>7 DEF Count, Request
<1>9. Careful(q) /\ ~Lenient(q)
  BY <1>3, <1>6, <1>8 DEF Careful, Lenient, Has
<1>10. lockKey' # 0 \/ Open'
  BY <1>2, <1>4, <1>8, <1>9, OpenKept DEF history
<1> QED
  BY <1>2, <1>3, <1>4, <1>8, <1>9, <1>10, CrowdStep DEF CrowdInv

LEMMA CrowdCountFailed ==
  ASSUME IInv, CrowdInv, NEW h \in Requests, CountFailed(h)
  PROVE  CrowdInv'
<1>1. PICK r : r = request[h]
  OBVIOUS
<1>2. /\ At(h, "countFailed") /\ failed' = failed + 1
      /\ UNCHANGED <<row, cache, lockKey, attempts, now, history, faults>>
  BY DEF CountFailed
<1>3. /\ r \in Request /\ r.op = "wrong" /\ Careful(r) /\ Has(r, "countFailed")
      /\ r.entity \in User
  BY <1>1, <1>2, InFlightSound DEF Sound, CrowdInv
<1>4. now = 0 /\ Plain(r.entity)
  BY <1>1, <1>3 DEF CrowdInv, Careful
<1>5. PICK u : u = [r.entity EXCEPT !.fails = Failures(r.entity)]
  OBVIOUS
<1>6. PICK k \in Nat : k = Failures(r.entity) /\ k >= failed + 1
  BY <1>3, Basics DEF Failures, User
<1>7. u \in User /\ Plain(u) /\ u.fails = k
  BY <1>3, <1>4, <1>5, <1>6 DEF User, Plain
<1>8. PICK e : e = IF u.fails >= Threshold THEN LockedUser(u) ELSE u
  OBVIOUS
<1>9. Plain(e)
  BY <1>7, <1>8, PlainUsers
<1>10. PICK p : p = Penalty(r.entity, r.count)
  OBVIOUS
<1>11. /\ Steps(p) \subseteq {"setKey", "save", "invalidate", "get", "saveLocked"}
       /\ k >= Threshold => "setKey" \in Steps(p)
  BY <1>6, <1>10, PenaltyPlan
<1>12. PICK q : q = [r EXCEPT !.entity = e, !.plan = p]
  OBVIOUS
<1>13. Becomes(h, q)
  BY <1>1, <1>5, <1>8, <1>10, <1>12 DEF CountFailed
<1>14. q.plan = p /\ q.op = r.op /\ q.entity = e
  BY <1>3, <1>12 DEF Request
<1>15. Careful(q) /\ (k >= Threshold => ~Lenient(q)) /\ ~Lenient(r)
  BY <1>3, <1>9, <1>11, <1>14 DEF Careful, Lenient, Has
<1>16. ASSUME lockKey' = 0
       PROVE  Open'
  <2>1. /\ ~standing /\ misses + Cardinality(LenientOnes) <= failed
        /\ misses + Cardinality(LenientOnes) < Threshold
    BY <1>2, <1>4, <1>16 DEF CrowdInv, Open
  <2>2. PICK n, m \in Nat : n = Cardinality(LenientOnes)
                            /\ m = Cardinality(LenientOnes)'
    BY LenientFinite, <1>13, LenientCount
  <2>3. m <= n + 1 /\ (~Lenient(q) => m <= n)
    BY <1>13, <2>2, LenientCount
  <2>4. misses \in Nat /\ failed \in Nat /\ Threshold \in Nat
    BY Basics, LockoutConstants DEF LockoutConstants
  <2>5. CASE k >= Threshold
    <3>1. misses + m <= failed + 1 /\ misses + m < Threshold
      BY <1>15, <2>1, <2>2, <2>3, <2>4, <2>5
    <3> QED
      BY <1>2, <2>1, <2>2, <3>1 DEF Open, history
  <2>6. CASE ~(k >= Threshold)
    <3>1. misses + m <= failed + 1 /\ misses + m < Threshold
      BY <1>6, <2>1, <2>2, <2>3, <2>4, <2>6
    <3> QED
      BY <1>2, <2>1, <2>2, <3>1 DEF Open, history
  <2> QED
    BY <2>5, <2>6
<1> QED
  BY <1>2, <1>3, <1>4, <1>13, <1>14, <1>15, <1>16, CrowdStep DEF CrowdInv

LEMMA CrowdGetUser ==
  ASSUME IInv, CrowdInv, NEW h \in Requests, GetUser(h)
  PROVE  CrowdInv'
<1>1. At(h, "get") /\ UNCHANGED <<row, redis, now, faults>>
  BY DEF GetUser
<1>2. Plain(row) /\ (cache # None => Plain(cache))
  BY DEF CrowdInv
<1>3. CASE /\ cache # None /\ Answered(h)
           /\ Becomes(h, Rest([request[h] EXCEPT !.entity = cache]))
  <2>1. PICK e : e = cache
    OBVIOUS
  <2>2. e \in User /\ Timed(e) /\ Plain(e)
    BY <1>2, <1>3, <2>1, Basics
  <2>3. PICK q : q = Rest([request[h] EXCEPT !.entity = e])
    OBVIOUS
  <2>4. Becomes(h, q)
    BY <1>3, <2>1, <2>3
  <2> QED
    BY <1>1, <1>2, <1>3, <2>2, <2>3, <2>4, CrowdAdvance DEF redis
<1>4. CASE /\ Becomes(h, [request[h] EXCEPT !.plan = <<"find", "keep">> \o Tail(@)])
           /\ UNCHANGED history
  <2>1. PICK r : r = request[h]
    OBVIOUS
  <2>2. /\ r \in Request /\ Sound(r) /\ r.plan \in Seq(Step) /\ r.plan # <<>>
        /\ Head(r.plan) = "get" /\ Careful(r)
    BY <1>1, <2>1, InFlightSound DEF CrowdInv
  <2>3. PICK p : p = <<"find", "keep">> \o Tail(r.plan)
    OBVIOUS
  <2>4. /\ Steps(p) = {"find", "keep"} \union Steps(Tail(r.plan))
        /\ Steps(r.plan) = {"get"} \union Steps(Tail(r.plan))
    BY <2>2, <2>3, StepsOf
  <2>5. PICK q : q = [r EXCEPT !.plan = p]
    OBVIOUS
  <2>6. Becomes(h, q) /\ q.plan = p /\ q.op = r.op /\ q.entity = r.entity
    BY <1>4, <2>1, <2>2, <2>3, <2>5 DEF Request
  <2>7. Careful(q) /\ (Lenient(q) => Lenient(r))
    BY <2>2, <2>4, <2>6 DEF Careful, Lenient, Has
  <2>8. Has(q, "setKey") <=> Has(r, "setKey")
    BY <2>4, <2>6 DEF Has
  <2>9. now = 0 => lockKey' # 0 \/ Open'
    BY <1>1, <1>4, <2>1, <2>6, <2>7, OpenKept DEF redis, history
  <2> QED
    BY <1>1, <1>2, <1>4, <2>1, <2>6, <2>7, <2>8, <2>9, CrowdStep
       DEF CrowdInv, redis, history
<1> QED
  BY <1>3, <1>4 DEF GetUser

LEMMA CrowdFindUser ==
  ASSUME IInv, CrowdInv, NEW h \in Requests, FindUser(h)
  PROVE  CrowdInv'
<1>1. /\ At(h, "find") /\ Becomes(h, Rest([request[h] EXCEPT !.entity = row]))
      /\ UNCHANGED <<row, redis, now, history, faults>>
  BY DEF FindUser
<1>2. PICK e : e = row
  OBVIOUS
<1>3. /\ e \in User /\ Timed(e) /\ Plain(e) /\ Plain(row)
      /\ (cache # None => Plain(cache))
  BY <1>2, Basics DEF CrowdInv
<1>4. PICK q : q = Rest([request[h] EXCEPT !.entity = e])
  OBVIOUS
<1>5. Becomes(h, q)
  BY <1>1, <1>2, <1>4
<1> QED
  BY <1>1, <1>3, <1>4, <1>5, CrowdAdvance DEF redis

\* The steps that leave the entity alone.
LEMMA CrowdOther ==
  ASSUME IInv, CrowdInv, NEW h \in Requests,
         \/ KeepUser(h) \/ Reset(h) \/ Record(h) \/ Save(h) \/ SaveLocked(h)
         \/ SetKey(h) \/ DelFailed(h) \/ DelKey(h) \/ Invalidate(h)
  PROVE  CrowdInv'
<1> DEFINE r == request[h]
<1>1. ASSUME NEW step, At(h, step),
             step \notin {"checkLock", "rekey", "count", "countFailed"},
             Becomes(h, Rest(r)),
             now' = now, Plain(row'), cache' # None => Plain(cache'),
             failed' = failed \/ r.op = "job",
             step = "setKey" => lockKey' # 0,
             lockKey # 0 => lockKey' # 0 \/ r.op = "job",
             \/ UNCHANGED history
             \/ step \in {"get", "keep"} /\ Answered(h)
             \/ r.op = "job" /\ misses' = 0 /\ standing' = standing
      PROVE  CrowdInv'
  <2>1. r \in Request /\ r.entity \in User /\ Timed(r.entity) /\ Plain(r.entity)
    BY <1>1, InFlightSound DEF CrowdInv, Careful
  <2>2. PICK e : e = r.entity
    OBVIOUS
  <2>3. PICK q : q = Rest([r EXCEPT !.entity = e])
    OBVIOUS
  <2>4. Becomes(h, q)
    BY <1>1, <2>1, <2>2, <2>3, SameEntity
  <2> QED
    BY <1>1, <2>1, <2>2, <2>3, <2>4, CrowdAdvance
<1>2. ASSUME NEW step, At(h, step)
      PROVE  /\ step \in {"delFailed", "delKey", "reset", "record"} => r.op = "job"
             /\ r.entity \in User /\ Plain(r.entity)
             /\ step = "save" => r.op \in {"wrong", "edit", "job"}
  <2>1. /\ Has(r, step) /\ r.op \in Operations /\ r.entity \in User /\ Sound(r)
        /\ Careful(r)
    BY <1>2, InFlightSound DEF CrowdInv
  <2> QED
    BY <2>1 DEF Careful, Sound, Has, Operations
<1>3. Plain(row) /\ (cache # None => Plain(cache))
  BY DEF CrowdInv
<1> HIDE DEF r
<1> USE DEF redis, history
<1>4. CASE KeepUser(h)
  <2>1. /\ At(h, "keep") /\ Becomes(h, Rest(r)) /\ Answered(h)
        /\ cache' = r.entity /\ UNCHANGED <<row, lockKey, failed, now>>
    BY <1>4 DEF KeepUser, r
  <2> QED
    BY <1>1, <1>2, <1>3, <2>1
<1>5. CASE Reset(h)
  BY <1>1, <1>3, <1>5 DEF Reset, r
<1>6. CASE Record(h)
  <2>1. /\ At(h, "record") /\ Becomes(h, Rest(r)) /\ row' = UnlockedUser(row)
        /\ misses' = 0 /\ UNCHANGED <<cache, lockKey, failed, now, standing>>
    BY <1>6 DEF Record, r
  <2>2. Plain(row')
    BY <1>3, <2>1, Basics, PlainUsers
  <2>3. r.op = "job"
    BY <1>2, <2>1
  <2> QED
    BY <1>1, <1>3, <2>1, <2>2, <2>3
<1>7. CASE Save(h)
  <2>1. /\ At(h, "save") /\ Becomes(h, Rest(r)) /\ row' = Edited(r.op, r.entity)
        /\ UNCHANGED <<cache, lockKey, failed, now, history>>
    BY <1>7 DEF Save, r
  <2>2. Plain(row')
    BY <1>2, <2>1, PlainUsers
  <2> QED
    BY <1>1, <1>3, <2>1, <2>2
<1>8. CASE SaveLocked(h)
  <2>1. /\ At(h, "saveLocked") /\ Becomes(h, Rest(r)) /\ row' = LockedUser(r.entity)
        /\ UNCHANGED <<cache, lockKey, failed, now, history>>
    BY <1>8 DEF SaveLocked, r
  <2>2. Plain(row')
    BY <1>2, <2>1, PlainUsers
  <2> QED
    BY <1>1, <1>3, <2>1, <2>2
<1>9. CASE SetKey(h)
  <2>1. /\ At(h, "setKey") /\ Becomes(h, Rest(r)) /\ lockKey' = now + 1
        /\ UNCHANGED <<row, cache, failed, now, history>>
    BY <1>9 DEF SetKey, r
  <2>2. lockKey' # 0
    BY <2>1, Basics
  <2> QED
    BY <1>1, <1>3, <2>1, <2>2
<1>10. CASE DelFailed(h)
  <2>1. /\ At(h, "delFailed") /\ Becomes(h, Rest(r))
        /\ UNCHANGED <<row, cache, lockKey, now, history>>
    BY <1>10 DEF DelFailed, r
  <2> QED
    BY <1>1, <1>2, <1>3, <2>1
<1>11. CASE DelKey(h)
  <2>1. /\ At(h, "delKey") /\ Becomes(h, Rest(r))
        /\ UNCHANGED <<row, cache, failed, now, history>>
    BY <1>11 DEF DelKey, r
  <2> QED
    BY <1>1, <1>2, <1>3, <2>1
<1>12. CASE Invalidate(h)
  <2>1. /\ At(h, "invalidate") /\ Becomes(h, Rest(r)) /\ cache' = None
        /\ UNCHANGED <<row, lockKey, failed, now, history>>
    BY <1>12 DEF Invalidate, r
  <2> QED
    BY <1>1, <1>3, <2>1
<1> QED
  BY <1>4, <1>5, <1>6, <1>7, <1>8, <1>9, <1>10, <1>11, <1>12

LEMMA CrowdUnchanged ==
  ASSUME CrowdInv, UNCHANGED <<row, request, lockKey, failed, now, misses, standing>>,
         cache' \in {None, cache}
  PROVE  CrowdInv'
<1>1. Open => Open'
  BY DEF Open, LenientOnes
<1>2. \A h \in Requests : Careful(request'[h])
  BY DEF CrowdInv
<1>3. now = 0 => \A h \in Requests :
                   /\ request'[h].op # "job"
                   /\ request'[h].op = "lock" =>
                        lockKey' # 0 \/ Has(request'[h], "setKey")
  BY DEF CrowdInv
<1>4. now # 0 => /\ misses' = 0 /\ ~standing'
                 /\ \A h \in Requests : request'[h].op \notin {"wrong", "lock"}
  BY DEF CrowdInv
<1>5. Plain(row') /\ (cache' # None => Plain(cache'))
  BY DEF CrowdInv
<1> QED
  BY <1>1, <1>2, <1>3, <1>4, <1>5 DEF CrowdInv

LEMMA CrowdPreserved ==
  ASSUME IInv, CrowdInv, Next,
         \A h \in Requests :
           /\ request'[h].op \in {"none", "wrong", "edit", "lock", "job"}
           /\ now' # 0 => request'[h].op \notin {"wrong", "lock"}
  PROVE  CrowdInv'
<1>1. ASSUME NEW h \in Requests, NEW op \in Operations, Begin(h, op)
      PROVE  CrowdInv'
  <2>1. request'[h].op = op /\ now' = now
    BY <1>1 DEF Begin, Becomes, Idle, IInv, TypeOK
  <2>2. op # "none"
    BY DEF Operations
  <2> QED
    BY <1>1, <2>1, <2>2, CrowdBegin
<1>2. ASSUME NEW h \in Requests, Proceeds(h)
      PROVE  CrowdInv'
  BY <1>2, CrowdCheckLock, CrowdRekey, CrowdCount, CrowdCountFailed,
     CrowdGetUser, CrowdFindUser, CrowdOther DEF Proceeds
<1>3. ASSUME NEW h \in Requests, Raise(h)
      PROVE  CrowdInv'
  <2>1. Becomes(h, Idle) /\ UNCHANGED <<row, redis, now, history>>
    BY <1>3 DEF Raise
  <2>2. now = 0 => lockKey' # 0 \/ Open'
    BY <2>1, IdleCareful, OpenKept DEF redis, history
  <2> QED
    BY <2>1, <2>2, IdleCareful, CrowdStep DEF CrowdInv, redis, history
<1>4. CASE CopyExpires
  BY <1>4, CrowdUnchanged DEF CopyExpires, history
<1>5. CASE HalfHourPasses
  <2>1. /\ now' = now + 1 /\ cache' = None /\ misses' = 0 /\ standing' = FALSE
        /\ UNCHANGED <<row, request>>
    BY <1>5 DEF HalfHourPasses
  <2>2. now' # 0
    BY <2>1, Basics
  <2>3. \A h \in Requests : Careful(request'[h])
    BY <2>1 DEF CrowdInv
  <2>4. Plain(row')
    BY <2>1 DEF CrowdInv
  <2> QED
    BY <2>1, <2>2, <2>3, <2>4 DEF CrowdInv
<1> QED
  BY <1>1, <1>2, <1>3, <1>4, <1>5 DEF Next

-----------------------------------------------------------------------------
(* The scenarios of MCLockout                                              *)

LEMMA ScenarioInit == MCInit => IInv /\ ScenarioInv
<1> SUFFICES ASSUME MCInit  PROVE IInv /\ ScenarioInv
  OBVIOUS
<1>1. /\ Init /\ IInv /\ \A h \in Requests : request[h] = Idle
  BY InitSound DEF MCInit, Init
<1>2. TurnInv
  BY <1>1, IdleKnows DEF Init, TurnInv, OneAtATime
<1>3. CrowdInv
  <2>1. LenientOnes = {}
    BY <1>1, IdleCareful DEF LenientOnes
  <2>2. Cardinality(LenientOnes) = 0
    BY <2>1, FS_EmptySet
  <2>3. Open
    BY <1>1, <2>2, LockoutConstants DEF Init, Open, LockoutConstants
  <2>4. Plain(row) /\ cache = None /\ now = 0
    BY <1>1 DEF Init, NewUser, Plain
  <2> QED
    BY <1>1, <2>3, <2>4, IdleCareful DEF CrowdInv
<1> QED
  BY <1>1, <1>2, <1>3 DEF ScenarioInv

LEMMA ScenarioStep ==
  IInv /\ ScenarioInv /\ [MCNext]_<<vars, scenario>> => (IInv /\ ScenarioInv)'
<1> SUFFICES ASSUME IInv, ScenarioInv, [MCNext]_<<vars, scenario>>
             PROVE  IInv' /\ ScenarioInv'
  OBVIOUS
<1>1. IInv' /\ scenario' = scenario
  BY StepSound DEF MCNext
<1>2. CASE scenario = "turns" /\ MCNext
  <2>1. TurnInv /\ Next /\ Within'
    BY <1>2 DEF ScenarioInv, MCNext
  <2>2. /\ Cardinality(InFlight') <= 1
        /\ barred' => \A h \in InFlight' : request'[h].op # "lock"
    BY <1>1, <1>2, <2>1 DEF Within
  <2>3. IsFiniteSet(InFlight')
    BY LockoutConstants, FS_Subset DEF LockoutConstants, InFlight
  <2>4. \A h \in Requests : h \in InFlight' <=> request'[h] # Idle
    BY DEF InFlight
  <2>5. OneAtATime'
    BY <2>2, <2>3, <2>4, AtMostOne DEF OneAtATime
  <2>6. barred' => \A h \in Requests : request'[h].op # "lock"
    BY <2>2, <2>4, IdleCareful
  <2>7. TurnInv'
    BY <2>1, <2>5, <2>6, TurnPreserved
  <2> QED
    BY <1>1, <1>2, <2>7 DEF ScenarioInv
<1>3. CASE scenario # "turns" /\ MCNext
  <2>1. CrowdInv /\ Next /\ Within'
    BY <1>3 DEF ScenarioInv, MCNext
  <2>2. /\ \A h \in InFlight' : request'[h].op \in Happens'
        /\ \/ scenario = "careless" /\ now' = 0
           \/ scenario = "job" /\ Early'
    BY <1>1, <1>3, <2>1 DEF Within
  <2>3. Happens' \subseteq {"wrong", "edit", "lock", "job"}
    BY <1>1, <2>2 DEF Happens, Careless
  <2>4. \A h \in Requests : h \in InFlight' <=> request'[h] # Idle
    BY DEF InFlight
  <2>5. \A h \in Requests :
          request'[h].op \in {"none", "wrong", "edit", "lock", "job"}
    BY <2>2, <2>3, <2>4, IdleCareful
  <2>6. now' # 0 => \A h \in Requests : request'[h].op \notin {"wrong", "lock"}
    <3>1. now' \in Nat
      BY <1>1, Basics DEF IInv, TypeOK
    <3> QED
      BY <2>2, <3>1 DEF Early
  <2>7. CrowdInv'
    BY <2>1, <2>5, <2>6, CrowdPreserved
  <2> QED
    BY <1>1, <1>3, <2>7 DEF ScenarioInv
<1>4. CASE UNCHANGED <<vars, scenario>>
  <2>1. TurnInv => TurnInv'
    BY <1>4, TurnUnchanged
  <2>2. CrowdInv => CrowdInv'
    BY <1>4, CrowdUnchanged DEF vars, redis, history
  <2> QED
    BY <1>1, <2>1, <2>2 DEF ScenarioInv
<1> QED
  BY <1>1, <1>2, <1>3, <1>4

\* What makes the properties true holds in every state of every scenario: in
\* turns, what the one request in flight knows of row and copy; without turns,
\* that the lock key stands in for what the row forgets, or else every wrong
\* password is in the counter of Redis.
THEOREM ScenariosSound == MCSpec => [](IInv /\ ScenarioInv)
  BY ScenarioInit, ScenarioStep, PTL DEF MCSpec

LEMMA AccountSafeInv == IInv /\ ScenarioInv => AccountSafe
<1> SUFFICES ASSUME IInv, ScenarioInv  PROVE AccountSafe
  OBVIOUS
<1>1. TypeOK
  BY DEF IInv
<1>2. SuspendedStaysOutInTurns
  BY DEF ScenarioInv, TurnInv, SuspendedStaysOutInTurns, SuspendedStaysOut
<1>3. CopyTrueInTurns
  <2> SUFFICES ASSUME scenario = "turns", faults = 0, Quiet
               PROVE  cache \in {None, row}
    BY DEF CopyTrueInTurns, CopyTrue
  <2>1. \A h \in Requests : ~Has(request[h], "invalidate")
    BY IdleKnows DEF Quiet
  <2> QED
    BY <2>1 DEF ScenarioInv, TurnInv
<1> QED
  BY <1>1, <1>2, <1>3 DEF AccountSafe

\* In turns a suspended account admits no login until somebody activates it,
\* whatever copy of it Redis holds, and until a lock failed half way the copy
\* that the next edit starts from is the row.
THEOREM AccountIsSafe == MCSpec => []AccountSafe
  BY ScenariosSound, AccountSafeInv, PTL

LEMMA MissesBlockInv == IInv /\ ScenarioInv => MissesBlockUnlessLifted
<1> SUFFICES ASSUME IInv, ScenarioInv, scenario # "turns", misses >= Threshold
             PROVE  Blocked
  BY DEF MissesBlockUnlessLifted, MissesBlock
<1>1. CrowdInv
  BY DEF ScenarioInv
<1>2. misses \in Nat /\ Threshold \in Nat /\ Threshold > 0 /\ now \in Nat
  BY Basics, LockoutConstants DEF LockoutConstants
<1>3. now = 0
  BY <1>1, <1>2 DEF CrowdInv
<1>4. ~Open
  BY <1>2, LenientFinite DEF Open
<1> QED
  BY <1>1, <1>3, <1>4 DEF CrowdInv, Blocked

\* Where nobody lifts locks, an account is blocked after Threshold wrong
\* passwords in half an hour, the one that a behaviour of these scenarios begins
\* with, however many are tried at once beside edits of the account and beside
\* the unlock job.
THEOREM WrongPasswordsBlock == MCSpec => []MissesBlockUnlessLifted
  BY ScenariosSound, MissesBlockInv, PTL

LEMMA LockHoldsInv == IInv /\ ScenarioInv => LockHoldsWithoutJob
<1> SUFFICES ASSUME IInv, ScenarioInv, scenario = "careless", standing
             PROVE  Blocked
  BY DEF LockHoldsWithoutJob, LockHolds
<1>1. CrowdInv
  BY DEF ScenarioInv
<1> QED
  BY <1>1 DEF CrowdInv, Open, Blocked

\* A lock that staff set blocks the account for its half hour, although edits
\* and failing logins in flight save an entity without it.  The scenario is one
\* half hour, and nobody lifts locks in it.
THEOREM LocksHold == MCSpec => []LockHoldsWithoutJob
  BY ScenariosSound, LockHoldsInv, PTL

=============================================================================
