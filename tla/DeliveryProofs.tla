---------------------------- MODULE DeliveryProofs ----------------------------
(***************************************************************************)
(* Proofs about Delivery, for any notifications, workers and requests.     *)
(* Whatever overlaps, fails or is taken for dead: a message goes out a     *)
(* bounded number of times, a notification that says queued has its jobs,  *)
(* and the list implements Inbox.  In the scenarios of MCDelivery, for as  *)
(* many notifications, workers and requests: what was read says so in both *)
(* columns, and in turns the number of unread notifications is exact.      *)
(*                                                                         *)
(* And proofs about QuietHours, the delay a notification gets before it    *)
(* enters that queue: it is put off to the end of the quiet hours, no      *)
(* further, and while nothing goes wrong nobody is woken.                  *)
(***************************************************************************)
EXTENDS MCDelivery, QuietHours, FiniteSetTheorems, TLAPS

-----------------------------------------------------------------------------
(* The inductive invariant: requests and rows                              *)

\* Phases of a request that creates a notification.
Creating(q) == caller[q].phase \in {"recipients", "deliver", "enqueue", "finish"}

\* What was not created yet has neither a recipient nor jobs.
Untouched ==
  \A n \in Notes : note[n].status = "none" =>
    recipient[n].status = "none" /\ \A c \in Channels : job[n][c].state = "none"

\* A request creates a notification that exists; until it saves the
\* recipient there is none, and no job; until it adds a job to the queue
\* there is none of that channel.
Creators ==
  \A q \in Callers : Creating(q) =>
    LET n == caller[q].note IN
    /\ n \in Notes
    /\ note[n].status # "none"
    /\ CallerAt(q, "recipients") =>
         /\ recipient[n].status = "none"
         /\ \A c \in Channels : job[n][c].state = "none"
    /\ caller[q].phase \in {"deliver", "enqueue"} =>
         job[n][caller[q].channel].state = "none"

\* One request creates a notification.
CreatorsAlone ==
  \A p, q \in Callers :
    Creating(p) /\ Creating(q) /\ caller[p].note = caller[q].note => p = q

\* What a request is about to mark as read is in the list.
FoundVisible == \A q \in Callers : \A n \in caller[q].found : Visible(n)

RowsFollow == Untouched /\ Creators /\ CreatorsAlone /\ FoundVisible

-----------------------------------------------------------------------------
(* The inductive invariant: jobs and workers                               *)

\* Attempts at a job that have begun.
Begun(j) ==
  j.made + j.stalled + IF j.state \in {"active", "completed"} THEN 1 ELSE 0

\* An attempt may begin only while some are left.
AttemptsLeft(j) ==
  /\ j.state = "none" => j.made = 0 /\ j.stalled = 0
  /\ j.state \in {"waiting", "active"} =>
       j.made < Attempts /\ j.stalled <= MaxStalledCount
  /\ Begun(j) <= Attempts + MaxStalledCount

JobsWithin == \A n \in Notes, c \in Channels : AttemptsLeft(job[n][c])

\* A worker has a job, and while it owns it the job is active.
WorkersHold ==
  \A w \in Workers :
    /\ worker[w].phase = "idle" => ~worker[w].owns
    /\ worker[w].phase # "idle" =>
         /\ MyNote(w) \in Notes
         /\ job[MyNote(w)][MyChannel(w)].state # "none"
         /\ worker[w].owns =>
              job[MyNote(w)][MyChannel(w)].state = "active"

\* Nobody else owns it.
OwnersAlone ==
  \A v, w \in Workers :
    /\ worker[v].owns /\ worker[w].owns
    /\ MyNote(v) = MyNote(w) /\ MyChannel(v) = MyChannel(w)
    => v = w

\* Workers that have a message and may still send it, late ones included.
ToSend(n, c) ==
  {w \in Workers :
     /\ worker[w].phase \in {"find", "recipient", "delivered", "send"}
     /\ MyNote(w) = n /\ MyChannel(w) = c}

\* Every attempt sends once at most.
SendsCovered ==
  \A n \in Notes, c \in Channels :
    sent[n][c] + Cardinality(ToSend(n, c)) <= Begun(job[n][c])

JobsFollow == JobsWithin /\ WorkersHold /\ OwnersAlone /\ SendsCovered

IInv == TypeOK /\ RowsFollow /\ JobsFollow

-----------------------------------------------------------------------------
(* Tables                                                                  *)

\* One entry of a table by notification and channel is written.
LEMMA Written ==
  ASSUME NEW S, NEW f \in [Notes -> [Channels -> S]],
         NEW n \in Notes, NEW c \in Channels, NEW x \in S
  PROVE  LET g == [f EXCEPT ![n][c] = x] IN
         /\ g \in [Notes -> [Channels -> S]]
         /\ g[n][c] = x
         /\ \A m \in Notes, d \in Channels : m # n \/ d # c => g[m][d] = f[m][d]
OBVIOUS

\* Cardinalities of subsets of a finite set are numbers up to its own.
LEMMA Counted ==
  ASSUME NEW S, IsFiniteSet(S), NEW T \in SUBSET S
  PROVE  Cardinality(T) \in 0 .. Cardinality(S)
<1>1. IsFiniteSet(T) /\ Cardinality(T) <= Cardinality(S)
  BY FS_Subset
<1>2. Cardinality(T) \in Nat /\ Cardinality(S) \in Nat
  BY <1>1, FS_CardinalityType
<1> QED  BY <1>1, <1>2

LEMMA IdleTypes == Idle \in Caller /\ Free \in Worker
<1>1. 0 \in 0 .. Cardinality(Notes)
  BY Counted, FS_EmptySet, DeliveryConstants
<1>2. Idle \in Caller
  BY <1>1 DEF Idle, Caller, Channels
<1>3. Free \in Worker
  BY <1>1 DEF Free, Worker, Channels
<1> QED  BY <1>2, <1>3

-----------------------------------------------------------------------------
(* What a step must do for requests and rows                               *)

\* A worker's step: no notification is created, a recipient only enters the
\* list and has a job then, and no job is created.
LEMMA WorkerKeepsRows ==
  ASSUME TypeOK, RowsFollow, UNCHANGED <<note, caller>>,
         \A n \in Notes : \/ recipient'[n] = recipient[n]
                          \/ /\ recipient'[n].status = "delivered"
                             /\ \E c \in Channels : job[n][c].state # "none",
         \A n \in Notes, c \in Channels :
           job'[n][c].state = "none" <=> job[n][c].state = "none"
  PROVE  RowsFollow'
<1> USE DEF RowsFollow
<1>1. Untouched'
  BY DEF Untouched
<1>2. Creators'
  <2> SUFFICES ASSUME NEW q \in Callers, Creating(q)'
               PROVE  LET n == caller[q].note IN
                      /\ n \in Notes
                      /\ note[n].status # "none"
                      /\ CallerAt(q, "recipients") =>
                           /\ recipient'[n].status = "none"
                           /\ \A c \in Channels : job'[n][c].state = "none"
                      /\ caller[q].phase \in {"deliver", "enqueue"} =>
                           job'[n][caller[q].channel].state = "none"
    BY DEF Creators, CallerAt
  <2>1. Creating(q) /\ caller[q].channel \in Channels
    BY DEF Creating, TypeOK, Caller
  <2> QED  BY <2>1 DEF Creators
<1>3. CreatorsAlone'
  BY DEF CreatorsAlone, Creating
<1>4. FoundVisible'
  <2> SUFFICES ASSUME NEW q \in Callers, NEW n \in caller[q].found
               PROVE  Visible(n)'
    BY DEF FoundVisible
  <2>1. n \in Notes /\ Visible(n)
    BY DEF FoundVisible, TypeOK, Caller
  <2> QED  BY <2>1 DEF Visible
<1> QED  BY <1>1, <1>2, <1>3, <1>4

\* A request that goes on and creates nothing.
LEMMA CallerKeepsRows ==
  ASSUME TypeOK, RowsFollow, NEW q \in Callers, NEW r \in Caller,
         caller' = [caller EXCEPT ![q] = r],
         UNCHANGED <<note, job>>,
         \A n \in Notes : \/ recipient'[n] = recipient[n]
                          \/ Visible(n) /\ recipient'[n].status = "read",
         r.phase \notin {"recipients", "deliver", "enqueue", "finish"},
         \A n \in r.found : Visible(n)
  PROVE  RowsFollow'
<1> USE DEF RowsFollow
<1>1. Untouched'
  BY DEF Untouched, Visible
<1>2. \A p \in Callers : caller'[p] = IF p = q THEN r ELSE caller[p]
  BY DEF TypeOK
<1>3. \A p \in Callers : Creating(p)' => p # q /\ Creating(p)
  BY <1>2 DEF Creating
<1>4. Creators'
  <2> SUFFICES ASSUME NEW p \in Callers, Creating(p)'
               PROVE  LET n == caller[p].note IN
                      /\ n \in Notes
                      /\ note[n].status # "none"
                      /\ CallerAt(p, "recipients") =>
                           /\ recipient'[n].status = "none"
                           /\ \A c \in Channels : job[n][c].state = "none"
                      /\ caller[p].phase \in {"deliver", "enqueue"} =>
                           job[n][caller[p].channel].state = "none"
    BY <1>2, <1>3 DEF Creators, CallerAt
  <2>1. Creating(p)
    BY <1>3
  <2> QED  BY <2>1 DEF Creators, Visible
<1>5. CreatorsAlone'
  BY <1>2, <1>3 DEF CreatorsAlone
<1>6. FoundVisible'
  <2> SUFFICES ASSUME NEW p \in Callers, NEW n \in caller'[p].found
               PROVE  Visible(n)'
    BY DEF FoundVisible
  <2>1. n \in Notes /\ Visible(n)
    BY <1>2 DEF FoundVisible, TypeOK, Caller
  <2> QED  BY <2>1 DEF Visible
<1> QED  BY <1>1, <1>4, <1>5, <1>6

\* A request that creates a notification goes on with it.
LEMMA CreatorKeepsRows ==
  ASSUME TypeOK, RowsFollow, NEW q \in Callers, NEW r \in Caller,
         caller' = [caller EXCEPT ![q] = r],
         Creating(q), r.note = caller[q].note, r.found = caller[q].found,
         r.phase # "recipients",
         \A n \in Notes :
           /\ note'[n].channels = note[n].channels
           /\ note'[n].status = "none" => note[n].status = "none",
         \A n \in Notes \ {r.note} :
           recipient'[n] = recipient[n] /\ job'[n] = job[n],
         recipient[r.note].status # "none" =>
           recipient'[r.note] = recipient[r.note],
         note'[r.note].status # "none",
         r.phase \in {"deliver", "enqueue"} =>
           job'[r.note][r.channel].state = "none"
  PROVE  RowsFollow'
<1> USE DEF RowsFollow
<1>1. r.note \in Notes
  BY DEF Creators
<1>2. Untouched'
  BY <1>1 DEF Untouched
<1>3. \A p \in Callers : caller'[p] = IF p = q THEN r ELSE caller[p]
  BY DEF TypeOK
<1>4. \A p \in Callers \ {q} :
        Creating(p)' => Creating(p) /\ caller[p].note # r.note
  BY <1>3 DEF Creating, CreatorsAlone
<1>5. Creators'
  <2> SUFFICES ASSUME NEW p \in Callers, Creating(p)'
               PROVE  LET n == caller'[p].note IN
                      /\ n \in Notes
                      /\ note'[n].status # "none"
                      /\ caller'[p].phase = "recipients" =>
                           /\ recipient'[n].status = "none"
                           /\ \A c \in Channels : job'[n][c].state = "none"
                      /\ caller'[p].phase \in {"deliver", "enqueue"} =>
                           job'[n][caller'[p].channel].state = "none"
    BY DEF Creators, CallerAt
  <2>1. CASE p = q
    BY <1>1, <1>3, <2>1
  <2>2. CASE p # q
    BY <1>3, <1>4, <2>2 DEF Creators, CallerAt
  <2> QED  BY <2>1, <2>2
<1>6. CreatorsAlone'
  BY <1>3, <1>4 DEF CreatorsAlone, Creating
<1>7. FoundVisible'
  <2> SUFFICES ASSUME NEW p \in Callers, NEW n \in caller'[p].found
               PROVE  Visible(n)'
    BY DEF FoundVisible
  <2>1. n \in Notes /\ Visible(n)
    BY <1>3 DEF FoundVisible, TypeOK, Caller
  <2> QED  BY <1>1, <2>1 DEF Visible
<1> QED  BY <1>2, <1>5, <1>6, <1>7

-----------------------------------------------------------------------------
(* What a step must do for jobs and workers                                *)

Sending == {"find", "recipient", "delivered", "send"}

\* Those who may still send are finitely many.
LEMMA ToSendFinite ==
  ASSUME NEW n, NEW c
  PROVE  /\ IsFiniteSet(ToSend(n, c)) /\ Cardinality(ToSend(n, c)) \in Nat
         /\ \A T \in SUBSET ToSend(n, c) :
              Cardinality(T) \in 0 .. Cardinality(ToSend(n, c))
<1>1. IsFiniteSet(ToSend(n, c))
  BY FS_Subset, DeliveryConstants DEF ToSend
<1> QED  BY <1>1, FS_CardinalityType, Counted

LEMMA Numbers ==
  ASSUME TypeOK, NEW n \in Notes, NEW c \in Channels
  PROVE  job[n][c] \in Job /\ sent[n][c] \in Nat /\ Begun(job[n][c]) \in Nat
<1>1. job[n][c] \in Job /\ sent[n][c] \in Nat
  BY DEF TypeOK
<1>2. \A j \in Job : j.made \in Nat /\ j.stalled \in Nat
  BY DEF Job, Attempts
<1> QED  BY <1>1, <1>2 DEF Begun

\* A worker goes on with its job, and sends its message at most once.
LEMMA WorkerKeepsJobs ==
  ASSUME TypeOK, JobsFollow, NEW w \in Workers, NEW x \in Worker,
         worker' = [worker EXCEPT ![w] = x], job' = job,
         worker[w].phase # "idle", x.phase # "idle",
         x.note = MyNote(w), x.channel = MyChannel(w), x.owns = worker[w].owns,
         x.phase \in Sending => worker[w].phase \in Sending,
         \/ sent' = sent
         \/ /\ worker[w].phase = "send" /\ x.phase \notin Sending
            /\ sent' = [sent EXCEPT ![MyNote(w)][MyChannel(w)] = @ + 1]
  PROVE  JobsFollow'
<1> USE DEF JobsFollow
<1> DEFINE n == MyNote(w)
           c == MyChannel(w)
<1>1. \A v \in Workers : worker'[v] = IF v = w THEN x ELSE worker[v]
  BY DEF TypeOK
<1>2. n \in Notes /\ c \in Channels
  BY DEF WorkersHold, TypeOK, Worker, MyChannel
<1>3. JobsWithin'
  BY DEF JobsWithin, AttemptsLeft, Begun
<1>4. WorkersHold'
  BY <1>1 DEF WorkersHold, MyNote, MyChannel
<1>5. OwnersAlone'
  BY <1>1 DEF OwnersAlone, MyNote, MyChannel
<1>6. SendsCovered'
  <2> SUFFICES ASSUME NEW m \in Notes, NEW d \in Channels
               PROVE  sent'[m][d] + Cardinality(ToSend(m, d)') <= Begun(job[m][d])
    BY DEF SendsCovered, Begun
  <2>1. sent[m][d] + Cardinality(ToSend(m, d)) <= Begun(job[m][d])
    BY DEF SendsCovered
  <2>2. ToSend(m, d)' \subseteq ToSend(m, d)
    BY <1>1 DEF ToSend, Sending, MyNote, MyChannel
  <2>3. /\ IsFiniteSet(ToSend(m, d)) /\ Cardinality(ToSend(m, d)) \in Nat
        /\ Cardinality(ToSend(m, d)') \in 0 .. Cardinality(ToSend(m, d))
    BY <2>2, ToSendFinite
  <2>4. /\ sent \in [Notes -> [Channels -> Nat]] /\ sent[m][d] \in Nat
        /\ Begun(job[m][d]) \in Nat
    BY Numbers DEF TypeOK
  <2>5. CASE sent'[m][d] = sent[m][d]
    BY <2>1, <2>3, <2>4, <2>5
  <2>6. CASE sent'[m][d] # sent[m][d]
    <3>1. /\ worker[w].phase = "send" /\ x.phase \notin Sending
          /\ sent' = [sent EXCEPT ![n][c] = sent[n][c] + 1]
      BY <2>6
    <3>2. m = n /\ d = c /\ sent'[m][d] = sent[m][d] + 1
      BY <1>2, <2>4, <2>6, <3>1
    <3>3. w \in ToSend(m, d)
      BY <3>1, <3>2 DEF ToSend
    <3>4. ToSend(m, d)' \subseteq ToSend(m, d) \ {w}
      BY <1>1, <2>2, <3>1 DEF ToSend, Sending
    <3>5. /\ IsFiniteSet(ToSend(m, d) \ {w})
          /\ Cardinality(ToSend(m, d) \ {w}) = Cardinality(ToSend(m, d)) - 1
      BY <2>3, <3>3, FS_RemoveElement
    <3>6. Cardinality(ToSend(m, d)') \in 0 .. Cardinality(ToSend(m, d) \ {w})
      BY <3>4, <3>5, Counted
    <3> QED  BY <2>1, <2>3, <2>4, <3>2, <3>5, <3>6
  <2> QED  BY <2>5, <2>6
<1> QED  BY <1>3, <1>4, <1>5, <1>6

\* The owner of a job ends its attempt, or loses the job; the attempt counts
\* as begun as before.
LEMMA OwnerKeepsJobs ==
  ASSUME TypeOK, JobsFollow, NEW w \in Workers, NEW x \in Worker, NEW j \in Job,
         worker[w].phase # "idle", worker[w].owns,
         worker' = [worker EXCEPT ![w] = x],
         job' = [job EXCEPT ![MyNote(w)][MyChannel(w)] = j],
         sent' = sent,
         j.state # "none", AttemptsLeft(j), Begun(j) = Begun(job[MyNote(w)][MyChannel(w)]),
         \/ x = Free
         \/ x = [worker[w] EXCEPT !.owns = FALSE]
  PROVE  JobsFollow'
<1> USE DEF JobsFollow
<1> DEFINE n == MyNote(w)
           c == MyChannel(w)
<1>1. \A v \in Workers : worker'[v] = IF v = w THEN x ELSE worker[v]
  BY DEF TypeOK
<1>2. n \in Notes /\ c \in Channels
  BY DEF WorkersHold, TypeOK, Worker, MyChannel
<1>3. /\ job'[n][c] = j
      /\ \A m \in Notes, d \in Channels : m # n \/ d # c => job'[m][d] = job[m][d]
  BY <1>2, Written DEF TypeOK
<1>4. /\ ~x.owns
      /\ x.phase # "idle" =>
           x.phase = worker[w].phase /\ x.note = n /\ x.channel = c
  BY DEF Free, TypeOK, Worker, MyNote, MyChannel
<1>5. JobsWithin'
  <2> SUFFICES ASSUME NEW m \in Notes, NEW d \in Channels
               PROVE  AttemptsLeft(job'[m][d])
    BY DEF JobsWithin, AttemptsLeft, Begun
  <2> QED  BY <1>3 DEF JobsWithin
<1>6. OwnersAlone'
  BY <1>1, <1>4 DEF OwnersAlone, MyNote, MyChannel
<1>7. WorkersHold'
  <2> SUFFICES ASSUME NEW v \in Workers
               PROVE  /\ worker'[v].phase = "idle" => ~worker'[v].owns
                      /\ worker'[v].phase # "idle" =>
                           /\ worker'[v].note \in Notes
                           /\ job'[worker'[v].note][worker'[v].channel].state # "none"
                           /\ worker'[v].owns =>
                                job'[worker'[v].note][worker'[v].channel].state
                                  = "active"
    BY DEF WorkersHold, MyNote, MyChannel
  <2>1. CASE v = w
    BY <1>1, <1>2, <1>3, <1>4, <2>1
  <2>2. CASE v # w
    <3>1. worker'[v] = worker[v] /\ worker[v].channel \in Channels
      BY <1>1, <2>2 DEF TypeOK, Worker
    <3>2. worker[v].owns => worker[v].note # n \/ worker[v].channel # c
      BY <2>2 DEF OwnersAlone, MyNote, MyChannel
    <3>3. PICK m, d : m = worker[v].note /\ d = worker[v].channel
      OBVIOUS
    <3>4. CASE worker[v].phase = "idle"
      BY <3>1, <3>4 DEF WorkersHold
    <3>5. CASE worker[v].phase # "idle"
      <4>1. /\ m \in Notes /\ d \in Channels /\ job[m][d].state # "none"
            /\ worker[v].owns => job[m][d].state = "active"
        BY <3>1, <3>3, <3>5 DEF WorkersHold, MyNote, MyChannel
      <4>2. /\ job'[m][d].state # "none"
            /\ worker[v].owns => job'[m][d].state = "active"
        BY <1>3, <3>2, <3>3, <4>1
      <4> QED  BY <3>1, <3>3, <3>5, <4>1, <4>2
    <3> QED  BY <3>4, <3>5
  <2> QED  BY <2>1, <2>2
<1>8. SendsCovered'
  <2> SUFFICES ASSUME NEW m \in Notes, NEW d \in Channels
               PROVE  sent[m][d] + Cardinality(ToSend(m, d)') <= Begun(job'[m][d])
    BY DEF SendsCovered, Begun
  <2>1. Begun(job'[m][d]) = Begun(job[m][d])
    BY <1>3
  <2>2. ToSend(m, d)' \subseteq ToSend(m, d)
    BY <1>1, <1>4 DEF ToSend, MyNote, MyChannel
  <2>3. Cardinality(ToSend(m, d)') \in 0 .. Cardinality(ToSend(m, d))
        /\ Cardinality(ToSend(m, d)) \in Nat
    BY <2>2, ToSendFinite
  <2>4. sent[m][d] \in Nat /\ Begun(job[m][d]) \in Nat
    BY Numbers
  <2> QED  BY <2>1, <2>3, <2>4 DEF SendsCovered
<1> QED  BY <1>5, <1>6, <1>7, <1>8

\* A late worker gives up a job that is no longer its own.
LEMMA LateKeepsJobs ==
  ASSUME TypeOK, JobsFollow, NEW w \in Workers,
         worker' = [worker EXCEPT ![w] = Free], job' = job, sent' = sent
  PROVE  JobsFollow'
<1> USE DEF JobsFollow
<1>1. \A v \in Workers : worker'[v] = IF v = w THEN Free ELSE worker[v]
  BY DEF TypeOK
<1>2. JobsWithin'
  BY DEF JobsWithin, AttemptsLeft, Begun
<1>3. WorkersHold' /\ OwnersAlone'
  BY <1>1 DEF WorkersHold, OwnersAlone, MyNote, MyChannel, Free
<1>4. SendsCovered'
  <2> SUFFICES ASSUME NEW m \in Notes, NEW d \in Channels
               PROVE  sent[m][d] + Cardinality(ToSend(m, d)') <= Begun(job[m][d])
    BY DEF SendsCovered, Begun
  <2>2. ToSend(m, d)' \subseteq ToSend(m, d)
    BY <1>1 DEF ToSend, MyNote, MyChannel, Free
  <2>3. Cardinality(ToSend(m, d)') \in 0 .. Cardinality(ToSend(m, d))
        /\ Cardinality(ToSend(m, d)) \in Nat
    BY <2>2, ToSendFinite
  <2>4. sent[m][d] \in Nat /\ Begun(job[m][d]) \in Nat
    BY Numbers
  <2> QED  BY <2>3, <2>4 DEF SendsCovered
<1> QED  BY <1>2, <1>3, <1>4

\* A job is taken by a worker that had none.
LEMMA TakeKeepsJobs ==
  ASSUME TypeOK, JobsFollow, NEW w \in Workers, NEW n \in Notes,
         NEW c \in Channels, Take(w, n, c)
  PROVE  JobsFollow'
<1> USE DEF JobsFollow
<1> DEFINE j == [job[n][c] EXCEPT !.state = "active"]
           x == [phase |-> "find", note |-> n, channel |-> c, owns |-> TRUE,
                 count |-> 0]
<1>1. \A v \in Workers : worker'[v] = IF v = w THEN x ELSE worker[v]
  BY DEF TypeOK, Take
<1>2. /\ job[n][c] \in Job /\ job[n][c].state = "waiting" /\ worker[w] = Free
      /\ sent' = sent
  BY DEF TypeOK, Take
<1>3. /\ j \in Job /\ j.state = "active"
      /\ j.made = job[n][c].made /\ j.stalled = job[n][c].stalled
  BY <1>2 DEF Job
<1>4. job' = [job EXCEPT ![n][c] = j]
  BY DEF Take
<1> HIDE DEF j
<1>5. /\ job'[n][c] = j
      /\ \A m \in Notes, d \in Channels : m # n \/ d # c => job'[m][d] = job[m][d]
  BY <1>3, <1>4, Written DEF TypeOK
<1>6. Begun(j) = Begun(job[n][c]) + 1
  BY <1>2, <1>3 DEF Begun, Job, Attempts
<1>7. AttemptsLeft(j)
  <2>1. AttemptsLeft(job[n][c])
    BY DEF JobsWithin
  <2> QED  BY <1>2, <1>3, <2>1 DEF AttemptsLeft, Begun, Job, Attempts, MaxStalledCount
<1>8. JobsWithin'
  <2> SUFFICES ASSUME NEW m \in Notes, NEW d \in Channels
               PROVE  AttemptsLeft(job'[m][d])
    BY DEF JobsWithin, AttemptsLeft, Begun
  <2> QED  BY <1>5, <1>7 DEF JobsWithin
<1>9. \A v \in Workers : worker[v].owns => worker[v].note # n \/ worker[v].channel # c
  <2> SUFFICES ASSUME NEW v \in Workers, worker[v].owns,
                      worker[v].note = n, worker[v].channel = c
               PROVE  FALSE
    OBVIOUS
  <2> QED  BY <1>2 DEF WorkersHold, MyNote, MyChannel
<1>10. OwnersAlone'
  BY <1>1, <1>9 DEF OwnersAlone, MyNote, MyChannel
<1>11. WorkersHold'
  <2> SUFFICES ASSUME NEW v \in Workers
               PROVE  /\ worker'[v].phase = "idle" => ~worker'[v].owns
                      /\ worker'[v].phase # "idle" =>
                           /\ worker'[v].note \in Notes
                           /\ job'[worker'[v].note][worker'[v].channel].state # "none"
                           /\ worker'[v].owns =>
                                job'[worker'[v].note][worker'[v].channel].state
                                  = "active"
    BY DEF WorkersHold, MyNote, MyChannel
  <2>1. CASE v = w
    BY <1>1, <1>3, <1>5, <2>1
  <2>2. CASE v # w
    <3>1. worker'[v] = worker[v] /\ worker[v].channel \in Channels
      BY <1>1, <2>2 DEF TypeOK, Worker
    <3> QED  BY <1>3, <1>5, <1>9, <3>1 DEF WorkersHold, MyNote, MyChannel
  <2> QED  BY <2>1, <2>2
<1>12. SendsCovered'
  <2> SUFFICES ASSUME NEW m \in Notes, NEW d \in Channels
               PROVE  sent[m][d] + Cardinality(ToSend(m, d)') <= Begun(job'[m][d])
    BY <1>2 DEF SendsCovered, Begun
  <2>1. sent[m][d] \in Nat /\ Begun(job[m][d]) \in Nat
    BY Numbers
  <2>2. IsFiniteSet(ToSend(m, d)) /\ Cardinality(ToSend(m, d)) \in Nat
    BY ToSendFinite
  <2>3. sent[m][d] + Cardinality(ToSend(m, d)) <= Begun(job[m][d])
    BY DEF SendsCovered
  <2>4. CASE m = n /\ d = c
    <3>1. ToSend(m, d)' = ToSend(m, d) \union {w}
      BY <1>1, <2>4 DEF ToSend, MyNote, MyChannel
    <3>2. Cardinality(ToSend(m, d)')
            \in {Cardinality(ToSend(m, d)), Cardinality(ToSend(m, d)) + 1}
      BY <2>2, <3>1, FS_AddElement
    <3> QED  BY <1>5, <1>6, <2>1, <2>2, <2>3, <2>4, <3>2
  <2>5. CASE m # n \/ d # c
    <3>1. ToSend(m, d)' = ToSend(m, d)
      BY <1>1, <1>2, <2>5 DEF ToSend, MyNote, MyChannel, Free
    <3> QED  BY <1>5, <2>3, <2>5, <3>1
  <2> QED  BY <2>4, <2>5
<1> QED  BY <1>8, <1>10, <1>11, <1>12

\* A job is added to the queue; no worker has it yet.
LEMMA EnqueueKeepsJobs ==
  ASSUME TypeOK, JobsFollow, NEW n \in Notes, NEW c \in Channels,
         job[n][c].state = "none",
         job' = [job EXCEPT ![n][c].state = "waiting"],
         UNCHANGED <<worker, sent>>
  PROVE  JobsFollow'
<1> USE DEF JobsFollow
<1> DEFINE j == [job[n][c] EXCEPT !.state = "waiting"]
<1>1. job[n][c] \in Job /\ AttemptsLeft(job[n][c])
  BY DEF TypeOK, JobsWithin
<1>2. /\ j \in Job /\ j.state = "waiting"
      /\ j.made = job[n][c].made /\ j.stalled = job[n][c].stalled
  BY <1>1 DEF Job
<1>3. job' = [job EXCEPT ![n][c] = j]
  OBVIOUS
<1> HIDE DEF j
<1>4. /\ job'[n][c] = j
      /\ \A m \in Notes, d \in Channels : m # n \/ d # c => job'[m][d] = job[m][d]
  BY <1>2, <1>3, Written DEF TypeOK
<1>5. Begun(j) = Begun(job[n][c]) /\ AttemptsLeft(j)
  BY <1>1, <1>2 DEF AttemptsLeft, Begun, Job, Attempts, MaxStalledCount
<1>6. JobsWithin'
  <2> SUFFICES ASSUME NEW m \in Notes, NEW d \in Channels
               PROVE  AttemptsLeft(job'[m][d])
    BY DEF JobsWithin, AttemptsLeft, Begun
  <2> QED  BY <1>4, <1>5 DEF JobsWithin
<1>7. OwnersAlone'
  BY DEF OwnersAlone, MyNote, MyChannel
<1>8. WorkersHold'
  <2> SUFFICES ASSUME NEW v \in Workers, worker[v].phase # "idle"
               PROVE  /\ job'[worker[v].note][worker[v].channel].state # "none"
                      /\ worker[v].owns =>
                           job'[worker[v].note][worker[v].channel].state = "active"
    BY DEF WorkersHold, MyNote, MyChannel
  <2>1. worker[v].channel \in Channels
    BY DEF TypeOK, Worker
  <2>2. worker[v].note # n \/ worker[v].channel # c
    BY DEF WorkersHold, MyNote, MyChannel
  <2> QED  BY <1>4, <2>1, <2>2 DEF WorkersHold, MyNote, MyChannel
<1>9. SendsCovered'
  <2> SUFFICES ASSUME NEW m \in Notes, NEW d \in Channels
               PROVE  sent[m][d] + Cardinality(ToSend(m, d)) <= Begun(job'[m][d])
    BY DEF SendsCovered, Begun, ToSend, MyNote, MyChannel
  <2> QED  BY <1>4, <1>5 DEF SendsCovered
<1> QED  BY <1>6, <1>7, <1>8, <1>9

-----------------------------------------------------------------------------
(* The steps of workers                                                    *)

Phases ==
  {"idle", "find", "recipient", "delivered", "send", "sent", "invalid",
   "refused", "failed", "count", "setUnread", "emit", "complete", "throw"}

\* The worker w as x, which has the same job.
Same(w, x) ==
  x.note = MyNote(w) /\ x.channel = MyChannel(w) /\ x.owns = worker[w].owns

\* A worker in another phase, with another count.
LEMMA Counting ==
  ASSUME TypeOK, NEW w \in Workers, NEW phase \in Phases,
         NEW count \in 0 .. Cardinality(Notes),
         worker' = [worker EXCEPT ![w].phase = phase, ![w].count = count]
  PROVE  \E x \in Worker :
           /\ worker' = [worker EXCEPT ![w] = x]
           /\ x.phase = phase /\ Same(w, x)
<1> DEFINE x == [worker[w] EXCEPT !.phase = phase, !.count = count]
<1>1. worker[w] \in Worker
  BY DEF TypeOK
<1>2. x \in Worker /\ x.phase = phase /\ Same(w, x)
  BY <1>1 DEF Worker, Phases, Same, MyNote, MyChannel
<1>3. worker' = [worker EXCEPT ![w] = x]
  OBVIOUS
<1> HIDE DEF x
<1> QED  BY <1>2, <1>3

\* A worker in another phase.
LEMMA Going ==
  ASSUME TypeOK, NEW w \in Workers, NEW phase \in Phases, Goes(w, phase)
  PROVE  \E x \in Worker :
           /\ worker' = [worker EXCEPT ![w] = x]
           /\ x.phase = phase /\ Same(w, x)
<1> DEFINE x == [worker[w] EXCEPT !.phase = phase]
<1>1. worker[w] \in Worker
  BY DEF TypeOK
<1>2. x \in Worker /\ x.phase = phase /\ Same(w, x)
  BY <1>1 DEF Worker, Phases, Same, MyNote, MyChannel
<1>3. worker' = [worker EXCEPT ![w] = x]
  BY DEF Goes
<1> HIDE DEF x
<1> QED  BY <1>2, <1>3

\* The job of a worker is one of the tables' entries.
LEMMA Held ==
  ASSUME TypeOK, WorkersHold, NEW w \in Workers, worker[w].phase # "idle"
  PROVE  MyNote(w) \in Notes /\ MyChannel(w) \in Channels
<1>1. worker[w] \in Worker
  BY DEF TypeOK
<1> QED  BY <1>1 DEF WorkersHold, Worker, MyChannel

LEMMA Marked ==
  ASSUME TypeOK, WorkersHold, NEW w \in Workers, worker[w].phase # "idle",
         NEW status \in Status, Mark(w, status)
  PROVE  delivery' \in [Notes -> [Channels -> Status]]
BY Held, Written DEF Mark, TypeOK

\* A worker goes on with its job: everything together.
LEMMA WorkerGoesOn ==
  ASSUME IInv, NEW w \in Workers, NEW x \in Worker,
         worker' = [worker EXCEPT ![w] = x], job' = job,
         worker[w].phase # "idle", x.phase # "idle",
         Same(w, x),
         x.phase \in Sending => worker[w].phase \in Sending,
         \/ sent' = sent
         \/ /\ worker[w].phase = "send" /\ x.phase \notin Sending
            /\ sent' = [sent EXCEPT ![MyNote(w)][MyChannel(w)] = @ + 1],
         UNCHANGED <<note, caller, stalls>>, address' \subseteq Channels,
         \/ recipient' = recipient
         \/ recipient' = [recipient EXCEPT ![MyNote(w)].status = "delivered"],
         delivery' \in [Notes -> [Channels -> Status]],
         {unread', badge'} \subseteq 0 .. Cardinality(Notes),
         faults' \in 0 .. MaxFaults
  PROVE  IInv'
<1> DEFINE n == MyNote(w)
           c == MyChannel(w)
<1>1. n \in Notes /\ c \in Channels /\ job[n][c].state # "none"
  BY Held DEF IInv, JobsFollow, WorkersHold
<1>2. JobsFollow'
  BY WorkerKeepsJobs DEF IInv, Same
<1>3. sent' \in [Notes -> [Channels -> Nat]]
  <2>1. sent \in [Notes -> [Channels -> Nat]]
    BY DEF IInv, TypeOK
  <2>2. CASE sent' = sent
    BY <2>1, <2>2
  <2>3. CASE sent' = [sent EXCEPT ![n][c] = @ + 1]
    <3>1. sent[n][c] + 1 \in Nat
      BY <1>1, <2>1
    <3>2. sent' = [sent EXCEPT ![n][c] = sent[n][c] + 1]
      BY <2>3
    <3> HIDE DEF n, c
    <3> QED  BY <1>1, <2>1, <3>1, <3>2, Written
  <2> QED  BY <2>2, <2>3
<1>4. /\ recipient' \in [Notes -> Recipient]
      /\ \A m \in Notes : \/ recipient'[m] = recipient[m]
                          \/ m = n /\ recipient'[m].status = "delivered"
  <2>1. recipient \in [Notes -> Recipient]
    BY DEF IInv, TypeOK
  <2> HIDE DEF n
  <2>2. CASE recipient' = recipient
    BY <2>1, <2>2
  <2>3. CASE recipient' = [recipient EXCEPT ![n].status = "delivered"]
    BY <1>1, <2>1, <2>3 DEF Recipient
  <2> QED  BY <2>2, <2>3 DEF n
<1>5. RowsFollow'
  BY <1>1, <1>4, WorkerKeepsRows DEF IInv
<1>6. worker' \in [Workers -> Worker]
  BY DEF IInv, TypeOK
<1>7. TypeOK'
  BY <1>3, <1>4, <1>6 DEF IInv, TypeOK
<1> QED  BY <1>2, <1>5, <1>7 DEF IInv

LEMMA FindStep ==
  ASSUME IInv, NEW w \in Workers, Find(w)
  PROVE  IInv'
<1>1. /\ worker[w].phase = "find" /\ job' = job /\ sent' = sent
      /\ UNCHANGED <<note, caller, stalls, address, recipient, unread, badge,
                     faults>>
  BY DEF Find, At, numbers, bounds
<1>2. PICK phase \in {"complete", "recipient", "send"} : Goes(w, phase)
  BY DEF Find
<1>3. delivery' \in [Notes -> [Channels -> Status]]
  <2>1. delivery' = delivery \/ Mark(w, "failed")
    BY DEF Find
  <2> QED  BY <1>1, <2>1, Marked DEF IInv, JobsFollow, TypeOK, Status
<1>4. PICK x \in Worker :
        worker' = [worker EXCEPT ![w] = x] /\ x.phase = phase /\ Same(w, x)
  <2>1. phase \in Phases
    BY DEF Phases
  <2> QED  BY <1>2, <2>1, Going DEF IInv
<1>5. /\ {unread', badge'} \subseteq 0 .. Cardinality(Notes)
      /\ faults' \in 0 .. MaxFaults /\ address' \subseteq Channels
  BY <1>1 DEF IInv, TypeOK
<1> QED  BY <1>1, <1>3, <1>4, <1>5, WorkerGoesOn DEF Sending

LEMMA ShowInListStep ==
  ASSUME IInv, NEW w \in Workers, ShowInList(w)
  PROVE  IInv'
<1>1. /\ worker[w].phase = "recipient" /\ job' = job /\ sent' = sent
      /\ UNCHANGED <<note, caller, stalls, address, delivery, unread, badge,
                     faults>>
      /\ recipient' = [recipient EXCEPT ![MyNote(w)].status = "delivered"]
      /\ Goes(w, "delivered")
  BY DEF ShowInList, At, numbers, bounds
<1>2. PICK x \in Worker : /\ worker' = [worker EXCEPT ![w] = x]
                           /\ x.phase = "delivered" /\ Same(w, x)
  BY <1>1, Going DEF IInv, Phases
<1>3. /\ {unread', badge'} \subseteq 0 .. Cardinality(Notes)
      /\ faults' \in 0 .. MaxFaults /\ address' \subseteq Channels
      /\ delivery' \in [Notes -> [Channels -> Status]]
  BY <1>1 DEF IInv, TypeOK
<1> QED  BY <1>1, <1>2, <1>3, WorkerGoesOn DEF Sending

\* The steps that send a message, are refused it or write the delivery.
LEMMA MarkStep ==
  ASSUME IInv, NEW w \in Workers,
         \/ MarkDelivered(w) \/ Send(w) \/ MarkSent(w) \/ MarkFailed(w)
         \/ Refuse(w) \/ Deactivate(w) \/ MarkRefused(w)
  PROVE  IInv'
<1>1. /\ job' = job
      /\ UNCHANGED <<note, recipient, caller, stalls, unread, badge, faults>>
      /\ address' = address \/ address' = address \ {"push"}
  BY DEF MarkDelivered, Send, MarkSent, MarkFailed, Refuse, Deactivate,
     MarkRefused, rows, numbers, bounds
<1>2. PICK phase \in {"send", "sent", "invalid", "refused", "count", "complete",
                     "throw"} :
        /\ Goes(w, phase)
        /\ phase = "send" => worker[w].phase = "delivered"
        /\ \/ sent' = sent
           \/ /\ worker[w].phase = "send" /\ phase # "send"
              /\ sent' = [sent EXCEPT ![MyNote(w)][MyChannel(w)] = @ + 1]
  BY DEF MarkDelivered, Send, MarkSent, MarkFailed, Refuse, Deactivate,
     MarkRefused, At
<1>3. worker[w].phase \in {"delivered", "send", "sent", "invalid", "refused",
                          "failed"}
  BY DEF MarkDelivered, Send, MarkSent, MarkFailed, Refuse, Deactivate,
     MarkRefused, At
<1>4. delivery' \in [Notes -> [Channels -> Status]]
  <2>1. delivery' = delivery \/ \E status \in Status : Mark(w, status)
    BY DEF MarkDelivered, Send, MarkSent, MarkFailed, Refuse, Deactivate,
       MarkRefused, rows, Status
  <2> QED  BY <1>3, <2>1, Marked DEF IInv, JobsFollow, TypeOK
<1>5. PICK x \in Worker :
        worker' = [worker EXCEPT ![w] = x] /\ x.phase = phase /\ Same(w, x)
  <2>1. phase \in Phases
    BY DEF Phases
  <2> QED  BY <1>2, <2>1, Going DEF IInv
<1>6. /\ {unread', badge'} \subseteq 0 .. Cardinality(Notes)
      /\ faults' \in 0 .. MaxFaults /\ address' \subseteq Channels
  BY <1>1 DEF IInv, TypeOK
<1> QED  BY <1>1, <1>2, <1>3, <1>4, <1>5, <1>6, WorkerGoesOn DEF Sending

\* The steps that count and publish the number of unread notifications.
LEMMA CountStep ==
  ASSUME IInv, NEW w \in Workers, CountInApp(w) \/ SetUnread(w) \/ Emit(w)
  PROVE  IInv'
<1>1. /\ job' = job /\ sent' = sent
      /\ UNCHANGED <<note, recipient, delivery, caller, stalls, address, faults>>
      /\ worker[w].phase \in {"count", "setUnread", "emit"}
  BY DEF CountInApp, SetUnread, Emit, At, rows, numbers, bounds
<1>2. worker[w] \in Worker
  BY DEF IInv, TypeOK
<1>3. Cardinality(UnreadInApp) \in 0 .. Cardinality(Notes)
      /\ 0 \in 0 .. Cardinality(Notes)
  BY Counted, FS_EmptySet, DeliveryConstants DEF UnreadInApp
<1>4. {unread', badge'} \subseteq 0 .. Cardinality(Notes)
  BY <1>2 DEF CountInApp, SetUnread, Emit, numbers, Worker, IInv, TypeOK
<1>5. PICK x \in Worker :
        /\ worker' = [worker EXCEPT ![w] = x]
        /\ x.phase \in {"setUnread", "emit", "complete"} /\ Same(w, x)
  <2>1. CASE CountInApp(w)
    <3>1. "setUnread" \in Phases
      BY DEF Phases
    <3>2. worker' = [worker EXCEPT ![w].phase = "setUnread",
                                   ![w].count = Cardinality(UnreadInApp)]
      BY <2>1 DEF CountInApp
    <3> QED  BY <1>3, <3>1, <3>2, Counting DEF IInv
  <2>2. CASE SetUnread(w)
    <3>1. "emit" \in Phases /\ Goes(w, "emit")
      BY <2>2 DEF Phases, SetUnread
    <3> QED  BY <3>1, Going DEF IInv
  <2>3. CASE Emit(w)
    <3>1. "complete" \in Phases
      BY DEF Phases
    <3>2. worker' = [worker EXCEPT ![w].phase = "complete", ![w].count = 0]
      BY <2>3 DEF Emit
    <3> QED  BY <1>3, <3>1, <3>2, Counting DEF IInv
  <2> QED  BY <2>1, <2>2, <2>3
<1>6. /\ faults' \in 0 .. MaxFaults /\ address' \subseteq Channels
      /\ delivery' \in [Notes -> [Channels -> Status]]
  BY <1>1 DEF IInv, TypeOK
<1> QED  BY <1>1, <1>4, <1>5, <1>6, WorkerGoesOn DEF Sending

LEMMA WorkerFaultStep ==
  ASSUME IInv, NEW w \in Workers, WorkerFault(w)
  PROVE  IInv'
<1>1. /\ job' = job
      /\ UNCHANGED <<note, recipient, delivery, caller, stalls, address, unread,
                     badge>>
      /\ worker[w].phase # "idle"
      /\ faults < MaxFaults /\ faults' = faults + 1
  BY DEF WorkerFault, rows, numbers
<1>2. PICK phase \in {"failed", "throw"} : Goes(w, phase)
  BY DEF WorkerFault
<1>3. \/ sent' = sent
      \/ /\ worker[w].phase = "send"
         /\ sent' = [sent EXCEPT ![MyNote(w)][MyChannel(w)] = @ + 1]
  BY DEF WorkerFault, At
<1>4. PICK x \in Worker :
        worker' = [worker EXCEPT ![w] = x] /\ x.phase = phase /\ Same(w, x)
  <2>1. phase \in Phases
    BY DEF Phases
  <2> QED  BY <1>2, <2>1, Going DEF IInv
<1>5. /\ {unread', badge'} \subseteq 0 .. Cardinality(Notes)
      /\ faults' \in 0 .. MaxFaults /\ address' \subseteq Channels
      /\ delivery' \in [Notes -> [Channels -> Status]]
  BY <1>1, DeliveryConstants DEF IInv, TypeOK
<1> QED  BY <1>1, <1>3, <1>4, <1>5, WorkerGoesOn DEF Sending

LEMMA TakeStep ==
  ASSUME IInv, NEW w \in Workers, NEW n \in Notes, NEW c \in Channels,
         Take(w, n, c)
  PROVE  IInv'
<1> DEFINE j == [job[n][c] EXCEPT !.state = "active"]
           x == [phase |-> "find", note |-> n, channel |-> c, owns |-> TRUE,
                 count |-> 0]
<1>1. /\ job[n][c].state = "waiting"
      /\ worker' = [worker EXCEPT ![w] = x]
      /\ job' = [job EXCEPT ![n][c] = j]
      /\ UNCHANGED <<note, recipient, delivery, unread, badge, caller, faults,
                     stalls, address, sent>>
  BY DEF Take, rows, numbers, bounds
<1>2. job[n][c] \in Job /\ 0 \in 0 .. Cardinality(Notes)
  BY Counted, FS_EmptySet, DeliveryConstants DEF IInv, TypeOK
<1>3. j \in Job /\ j.state = "active"
  BY <1>2 DEF Job
<1> HIDE DEF j
<1>4. /\ job' \in [Notes -> [Channels -> Job]]
      /\ job'[n][c] = j
      /\ \A m \in Notes, d \in Channels : m # n \/ d # c => job'[m][d] = job[m][d]
  BY <1>1, <1>3, Written DEF IInv, TypeOK
<1>5. x \in Worker
  BY <1>2 DEF Worker
<1> HIDE DEF x
<1>6. worker' \in [Workers -> Worker]
  BY <1>1, <1>5 DEF IInv, TypeOK
<1>7. TypeOK'
  BY <1>1, <1>4, <1>6 DEF IInv, TypeOK
<1>8. \A m \in Notes, d \in Channels :
        job'[m][d].state = "none" <=> job[m][d].state = "none"
  BY <1>1, <1>3, <1>4
<1>9. RowsFollow'
  BY <1>1, <1>8, WorkerKeepsRows DEF IInv
<1> QED  BY <1>7, <1>9, TakeKeepsJobs DEF IInv

\* A job that exists is written.
LEMMA JobRewritten ==
  ASSUME TypeOK, NEW n \in Notes, NEW c \in Channels, NEW j \in Job,
         job[n][c].state # "none", j.state # "none",
         job' = [job EXCEPT ![n][c] = j]
  PROVE  /\ job' \in [Notes -> [Channels -> Job]]
         /\ \A m \in Notes, d \in Channels :
              job'[m][d].state = "none" <=> job[m][d].state = "none"
<1>1. /\ job' \in [Notes -> [Channels -> Job]]
      /\ job'[n][c] = j
      /\ \A m \in Notes, d \in Channels : m # n \/ d # c => job'[m][d] = job[m][d]
  BY Written DEF TypeOK
<1> QED  BY <1>1

\* The owner of a job ends its attempt, or loses the job.
LEMMA OwnerStep ==
  ASSUME IInv, NEW w \in Workers, NEW x \in Worker, NEW j \in Job,
         worker[w].phase # "idle", worker[w].owns,
         worker' = [worker EXCEPT ![w] = x],
         job' = [job EXCEPT ![MyNote(w)][MyChannel(w)] = j],
         UNCHANGED <<note, recipient, delivery, unread, badge, caller, faults,
                     address, sent>>,
         stalls' \in 0 .. MaxStalls,
         j.state # "none", AttemptsLeft(j), Begun(j) = Begun(job[MyNote(w)][MyChannel(w)]),
         \/ x = Free
         \/ x = [worker[w] EXCEPT !.owns = FALSE]
  PROVE  IInv'
<1>1. /\ MyNote(w) \in Notes /\ MyChannel(w) \in Channels
      /\ job[MyNote(w)][MyChannel(w)].state # "none"
  BY Held DEF IInv, JobsFollow, WorkersHold
<1>2. JobsFollow'
  BY OwnerKeepsJobs DEF IInv
<1>3. /\ job' \in [Notes -> [Channels -> Job]]
      /\ \A m \in Notes, d \in Channels :
           job'[m][d].state = "none" <=> job[m][d].state = "none"
  BY <1>1, JobRewritten DEF IInv
<1>4. RowsFollow'
  BY <1>3, WorkerKeepsRows DEF IInv
<1>5. worker' \in [Workers -> Worker]
  BY DEF IInv, TypeOK
<1>6. TypeOK'
  BY <1>3, <1>5 DEF IInv, TypeOK
<1> QED  BY <1>2, <1>4, <1>6 DEF IInv

\* A worker that lost its job is done.
LEMMA LateStep ==
  ASSUME IInv, NEW w \in Workers, worker' = [worker EXCEPT ![w] = Free],
         UNCHANGED <<note, recipient, delivery, job, unread, badge, caller,
                     faults, stalls, address, sent>>
  PROVE  IInv'
<1>1. JobsFollow'
  BY LateKeepsJobs DEF IInv
<1>2. RowsFollow'
  BY WorkerKeepsRows DEF IInv
<1>3. worker' \in [Workers -> Worker]
  BY IdleTypes DEF IInv, TypeOK
<1>4. TypeOK'
  BY <1>3 DEF IInv, TypeOK
<1> QED  BY <1>1, <1>2, <1>4 DEF IInv

\* The job of an owner is active, and within its attempts.
LEMMA Owned ==
  ASSUME IInv, NEW w \in Workers, worker[w].phase # "idle", worker[w].owns
  PROVE  LET j == job[MyNote(w)][MyChannel(w)] IN
         /\ j \in Job /\ j.state = "active" /\ AttemptsLeft(j)
         /\ j.made \in 0 .. 2 /\ j.stalled \in 0 .. 1
<1> DEFINE j == job[MyNote(w)][MyChannel(w)]
<1>1. MyNote(w) \in Notes /\ MyChannel(w) \in Channels /\ j.state = "active"
  BY Held DEF IInv, JobsFollow, WorkersHold
<1>2. j \in Job /\ AttemptsLeft(j)
  BY <1>1 DEF IInv, TypeOK, JobsFollow, JobsWithin
<1> HIDE DEF j
<1>3. j.made \in 0 .. 2 /\ j.stalled \in 0 .. 1
  BY <1>1, <1>2 DEF AttemptsLeft, Job, Attempts, MaxStalledCount
<1> QED  BY <1>1, <1>2, <1>3 DEF j

LEMMA CompleteStep ==
  ASSUME IInv, NEW w \in Workers, Complete(w)
  PROVE  IInv'
<1>1. /\ worker[w].phase # "idle" /\ worker' = [worker EXCEPT ![w] = Free]
      /\ UNCHANGED <<note, recipient, delivery, unread, badge, caller, faults,
                     stalls, address, sent>>
  BY DEF Complete, At, rows, numbers, bounds
<1>2. CASE worker[w].owns
  <2> DEFINE i == job[MyNote(w)][MyChannel(w)]
             j == [i EXCEPT !.state = "completed"]
  <2>1. /\ i \in Job /\ i.state = "active" /\ AttemptsLeft(i)
        /\ i.made \in 0 .. 2 /\ i.stalled \in 0 .. 1
    BY <1>1, <1>2, Owned
  <2>2. job' = [job EXCEPT ![MyNote(w)][MyChannel(w)] = j]
    BY <1>2 DEF Complete
  <2> HIDE DEF i
  <2>3. /\ j \in Job /\ j.state = "completed"
        /\ j.made = i.made /\ j.stalled = i.stalled
    BY <2>1 DEF Job
  <2> HIDE DEF j
  <2>4. AttemptsLeft(j) /\ Begun(j) = Begun(i)
    BY <2>1, <2>3 DEF AttemptsLeft, Begun, Attempts, MaxStalledCount
  <2>5. stalls' \in 0 .. MaxStalls /\ Free \in Worker
    BY <1>1, IdleTypes DEF IInv, TypeOK
  <2> QED  BY <1>1, <1>2, <2>2, <2>3, <2>4, <2>5, OwnerStep DEF i
<1>3. CASE ~worker[w].owns
  BY <1>1, <1>3, LateStep DEF Complete
<1> QED  BY <1>2, <1>3

LEMMA ThrowStep ==
  ASSUME IInv, NEW w \in Workers, Throw(w)
  PROVE  IInv'
<1>1. /\ worker[w].phase # "idle" /\ worker' = [worker EXCEPT ![w] = Free]
      /\ UNCHANGED <<note, recipient, delivery, unread, badge, caller, faults,
                     stalls, address, sent>>
  BY DEF Throw, At, rows, numbers, bounds
<1>2. CASE worker[w].owns
  <2> DEFINE i == job[MyNote(w)][MyChannel(w)]
             state == IF i.made + 1 < Attempts THEN "waiting" ELSE "failed"
             j == [i EXCEPT !.made = @ + 1, !.state = state]
  <2>1. /\ i \in Job /\ i.state = "active" /\ AttemptsLeft(i)
        /\ i.made \in 0 .. 2 /\ i.stalled \in 0 .. 1
    BY <1>1, <1>2, Owned
  <2>2. job' = [job EXCEPT ![MyNote(w)][MyChannel(w)] = j]
    BY <1>2 DEF Throw
  <2> HIDE DEF i
  <2>6. state \in {"waiting", "failed"} /\ (state = "waiting" => i.made < 2)
        /\ i.made + 1 \in 0 .. Attempts
    BY <2>1 DEF Attempts
  <2> HIDE DEF state
  <2>3. /\ j \in Job /\ j.state = state
        /\ j.made = i.made + 1 /\ j.stalled = i.stalled
    BY <2>1, <2>6 DEF Job
  <2> HIDE DEF j
  <2>4. AttemptsLeft(j) /\ Begun(j) = Begun(i) /\ j.state # "none"
    BY <2>1, <2>3, <2>6 DEF AttemptsLeft, Begun, Attempts, MaxStalledCount
  <2>5. stalls' \in 0 .. MaxStalls /\ Free \in Worker
    BY <1>1, IdleTypes DEF IInv, TypeOK
  <2> QED  BY <1>1, <1>2, <2>2, <2>3, <2>4, <2>5, OwnerStep DEF i
<1>3. CASE ~worker[w].owns
  BY <1>1, <1>3, LateStep DEF Throw
<1> QED  BY <1>2, <1>3

LEMMA StallStep ==
  ASSUME IInv, NEW w \in Workers, Stall(w)
  PROVE  IInv'
<1> DEFINE i == job[MyNote(w)][MyChannel(w)]
           state == IF i.stalled < MaxStalledCount THEN "waiting" ELSE "failed"
           j == [i EXCEPT !.stalled = @ + 1, !.state = state]
<1>1. /\ worker[w].phase # "idle" /\ worker[w].owns
      /\ UNCHANGED <<note, recipient, delivery, unread, badge, caller, faults,
                     address, sent>>
      /\ stalls < MaxStalls /\ stalls' = stalls + 1
      /\ job' = [job EXCEPT ![MyNote(w)][MyChannel(w)] = j]
  BY DEF Stall, At, rows, numbers
<1>2. /\ i \in Job /\ i.state = "active" /\ AttemptsLeft(i)
      /\ i.made \in 0 .. 2 /\ i.stalled \in 0 .. 1
  BY <1>1, Owned
<1> HIDE DEF i
<1>10. state \in {"waiting", "failed"} /\ (state = "waiting" => i.stalled < 1)
       /\ i.stalled + 1 \in Nat
  BY <1>2 DEF MaxStalledCount
<1> HIDE DEF state
<1>3. /\ j \in Job /\ j.state = state
      /\ j.made = i.made /\ j.stalled = i.stalled + 1
  BY <1>2, <1>10 DEF Job
<1> HIDE DEF j
<1>4. AttemptsLeft(j) /\ Begun(j) = Begun(i)
  BY <1>2, <1>3, <1>10 DEF AttemptsLeft, Begun, Attempts, MaxStalledCount
<1>5. stalls' \in 0 .. MaxStalls
  BY <1>1, DeliveryConstants DEF IInv, TypeOK
<1>6. j.state # "none"
  BY <1>3, <1>10
<1>7. CASE worker' = [worker EXCEPT ![w] = Free]
  BY <1>1, <1>3, <1>4, <1>5, <1>6, <1>7, IdleTypes, OwnerStep DEF i
<1>8. CASE worker' = [worker EXCEPT ![w].owns = FALSE]
  <2> DEFINE x == [worker[w] EXCEPT !.owns = FALSE]
  <2>1. x \in Worker
    BY DEF IInv, TypeOK, Worker
  <2>2. worker' = [worker EXCEPT ![w] = x]
    BY <1>8
  <2> QED  BY <1>1, <1>3, <1>4, <1>5, <1>6, <2>1, <2>2, OwnerStep DEF i
<1>9. \/ worker' = [worker EXCEPT ![w] = Free]
      \/ worker' = [worker EXCEPT ![w].owns = FALSE]
  BY DEF Stall
<1> QED  BY <1>7, <1>8, <1>9

-----------------------------------------------------------------------------
(* The steps of requests                                                   *)

\* Jobs and workers stay as they are.
LEMMA JobsUntouched ==
  ASSUME JobsFollow, UNCHANGED <<job, worker, sent>>
  PROVE  JobsFollow'
BY DEF JobsFollow, JobsWithin, AttemptsLeft, Begun, WorkersHold, OwnersAlone,
   SendsCovered, ToSend, MyNote, MyChannel

LEMMA CreateStep ==
  ASSUME IInv, NEW q \in Callers, NEW n \in Notes, Create(q, n)
  PROVE  IInv'
<1> DEFINE r == [Idle EXCEPT !.op = "create", !.phase = "recipients", !.note = n]
<1>1. /\ note[n].status = "none"
      /\ caller' = [caller EXCEPT ![q] = r]
      /\ UNCHANGED <<recipient, delivery, job, unread, badge, worker, faults,
                     stalls, address, sent>>
  BY DEF Create, numbers, bounds
<1>2. PICK x \in Note : note' = [note EXCEPT ![n] = x] /\ x.status = "pending"
  <2>1. PICK requested \in SUBSET Channels, off \in SUBSET Muted :
          note' = [note EXCEPT ![n] =
            [status |-> "pending", channels |-> requested,
             enabled |-> requested \ off]]
    BY DEF Create
  <2> DEFINE y == [status |-> "pending", channels |-> requested,
                   enabled |-> requested \ off]
  <2>2. y \in Note /\ y.status = "pending"
    BY DEF Note
  <2>3. note' = [note EXCEPT ![n] = y]
    BY <2>1
  <2> HIDE DEF y
  <2> QED  BY <2>2, <2>3
<1>3. /\ r \in Caller /\ r.phase = "recipients" /\ r.note = n /\ r.found = {}
  BY IdleTypes DEF Idle, Caller, Operations
<1> HIDE DEF r
<1>4. TypeOK'
  <2>1. note' \in [Notes -> Note] /\ caller' \in [Callers -> Caller]
    BY <1>1, <1>2, <1>3 DEF IInv, TypeOK
  <2> QED  BY <1>1, <2>1 DEF IInv, TypeOK
<1>5. /\ \A p \in Callers : caller'[p] = IF p = q THEN r ELSE caller[p]
      /\ \A m \in Notes : note'[m] = IF m = n THEN x ELSE note[m]
  BY <1>1, <1>2 DEF IInv, TypeOK
<1>6. Untouched'
  BY <1>1, <1>2, <1>5 DEF IInv, RowsFollow, Untouched
<1>7. \A p \in Callers \ {q} : Creating(p)' => Creating(p) /\ caller[p].note # n
  BY <1>1, <1>5 DEF IInv, RowsFollow, Creators, Creating
<1>8. Creators'
  <2> SUFFICES ASSUME NEW p \in Callers, Creating(p)'
               PROVE  LET m == caller'[p].note IN
                      /\ m \in Notes
                      /\ note'[m].status # "none"
                      /\ caller'[p].phase = "recipients" =>
                           /\ recipient[m].status = "none"
                           /\ \A c \in Channels : job[m][c].state = "none"
                      /\ caller'[p].phase \in {"deliver", "enqueue"} =>
                           job[m][caller'[p].channel].state = "none"
    BY <1>1 DEF Creators, CallerAt
  <2>1. CASE p = q
    BY <1>1, <1>2, <1>3, <1>5, <2>1 DEF IInv, RowsFollow, Untouched
  <2>2. CASE p # q
    BY <1>5, <1>7, <2>2 DEF IInv, RowsFollow, Creators, CallerAt
  <2> QED  BY <2>1, <2>2
<1>9. CreatorsAlone'
  BY <1>3, <1>5, <1>7 DEF IInv, RowsFollow, CreatorsAlone
<1>10. FoundVisible'
  <2> SUFFICES ASSUME NEW p \in Callers, NEW m \in caller'[p].found
               PROVE  Visible(m)'
    BY DEF FoundVisible
  <2>1. m \in Notes /\ Visible(m)
    BY <1>3, <1>5 DEF IInv, RowsFollow, FoundVisible, TypeOK, Caller
  <2>2. m # n
    BY <1>1, <2>1 DEF IInv, RowsFollow, Untouched, Visible
  <2> QED  BY <1>1, <1>5, <2>1, <2>2 DEF Visible
<1>11. JobsFollow'
  BY <1>1, JobsUntouched DEF IInv
<1> QED  BY <1>4, <1>6, <1>8, <1>9, <1>10, <1>11 DEF IInv, RowsFollow

\* The request in another phase, about another channel.
CallerSame(q, r) ==
  r \in Caller /\ r.note = caller[q].note /\ r.found = caller[q].found

\* The next channel is one that has no job.
LEMMA NextChannelType ==
  ASSUME TypeOK, NEW q \in Callers, NEW n \in Notes, NEW done,
         NextChannel(q, n, done)
  PROVE  \E r : /\ CallerSame(q, r)
                /\ caller' = [caller EXCEPT ![q] = r]
                /\ \/ r.phase = "finish"
                   \/ r.phase = "deliver" /\ r.channel \in Channels \ done
<1>1. caller[q] \in Caller /\ note[n] \in Note
  BY DEF TypeOK
<1>2. CASE Continues(q, "finish")
  <2> DEFINE r == [caller[q] EXCEPT !.phase = "finish"]
  <2>1. CallerSame(q, r) /\ r.phase = "finish"
    BY <1>1 DEF CallerSame, Caller
  <2>2. caller' = [caller EXCEPT ![q] = r]
    BY <1>2 DEF Continues
  <2> HIDE DEF r
  <2> QED  BY <2>1, <2>2
<1>3. CASE \E c \in note[n].enabled \ done :
             caller' = [caller EXCEPT ![q].phase = "deliver", ![q].channel = c]
  <2>1. PICK c \in note[n].enabled \ done :
          caller' = [caller EXCEPT ![q].phase = "deliver", ![q].channel = c]
    BY <1>3
  <2> DEFINE r == [caller[q] EXCEPT !.phase = "deliver", !.channel = c]
  <2>2. c \in Channels \ done
    BY <1>1 DEF Note
  <2>3. CallerSame(q, r) /\ r.phase = "deliver" /\ r.channel = c
    BY <1>1, <2>2 DEF CallerSame, Caller
  <2>4. caller' = [caller EXCEPT ![q] = r]
    BY <2>1
  <2> HIDE DEF r
  <2> QED  BY <2>2, <2>3, <2>4
<1> QED  BY <1>2, <1>3 DEF NextChannel

\* What a request that creates a notification knows.
LEMMA CreatorKnows ==
  ASSUME IInv, NEW q \in Callers, Creating(q)
  PROVE  /\ caller[q] \in Caller
         /\ caller[q].note \in Notes /\ caller[q].channel \in Channels
         /\ note[caller[q].note].status # "none"
         /\ note[caller[q].note] \in Note
         /\ recipient[caller[q].note] \in Recipient
<1>1. caller[q] \in Caller /\ caller[q].note \in Notes
      /\ note[caller[q].note].status # "none"
  BY DEF IInv, RowsFollow, Creators, TypeOK
<1> QED  BY <1>1 DEF IInv, TypeOK, Caller

LEMMA SaveRecipientsStep ==
  ASSUME IInv, NEW q \in Callers, SaveRecipients(q)
  PROVE  IInv'
<1> DEFINE n == caller[q].note
<1>1. /\ caller[q].phase = "recipients" /\ NextChannel(q, n, {})
      /\ recipient' = [recipient EXCEPT ![n].status = "pending"]
      /\ UNCHANGED <<note, delivery, job, unread, badge, worker, faults, stalls,
                     address, sent>>
  BY DEF SaveRecipients, CallerAt, numbers, bounds
<1>2. Creating(q)
  BY <1>1 DEF Creating
<1>3. /\ n \in Notes /\ note[n].status # "none"
      /\ recipient[n].status = "none"
      /\ \A c \in Channels : job[n][c].state = "none"
  BY <1>1, <1>2 DEF IInv, RowsFollow, Creators, CallerAt
<1>4. PICK r : /\ CallerSame(q, r)
               /\ caller' = [caller EXCEPT ![q] = r]
               /\ \/ r.phase = "finish"
                  \/ r.phase = "deliver" /\ r.channel \in Channels \ {}
  BY <1>1, <1>3, NextChannelType DEF IInv
<1>5. r \in Caller /\ r.note = n /\ r.found = caller[q].found
  BY <1>4 DEF CallerSame
<1> HIDE DEF n
<1>6. /\ recipient' \in [Notes -> Recipient]
      /\ \A m \in Notes \ {n} : recipient'[m] = recipient[m]
  BY <1>1, <1>3 DEF IInv, TypeOK, Recipient
<1>7. TypeOK'
  <2>1. caller' \in [Callers -> Caller]
    BY <1>4, <1>5 DEF IInv, TypeOK
  <2> QED  BY <1>1, <1>6, <2>1 DEF IInv, TypeOK
<1>8. RowsFollow'
  BY <1>1, <1>2, <1>3, <1>4, <1>5, <1>6, CreatorKeepsRows DEF IInv, n
<1>9. JobsFollow'
  BY <1>1, JobsUntouched DEF IInv
<1> QED  BY <1>7, <1>8, <1>9 DEF IInv

\* A request in another phase.
LEMMA Continuing ==
  ASSUME TypeOK, NEW q \in Callers,
         NEW phase \in {"enqueue", "count", "setUnread", "emit"},
         Continues(q, phase)
  PROVE  \E r : /\ CallerSame(q, r)
                /\ caller' = [caller EXCEPT ![q] = r]
                /\ r.phase = phase /\ r.channel = caller[q].channel
<1> DEFINE r == [caller[q] EXCEPT !.phase = phase]
<1>1. caller[q] \in Caller
  BY DEF TypeOK
<1>2. CallerSame(q, r) /\ r.phase = phase /\ r.channel = caller[q].channel
  BY <1>1 DEF CallerSame, Caller
<1>3. caller' = [caller EXCEPT ![q] = r]
  BY DEF Continues
<1> HIDE DEF r
<1> QED  BY <1>2, <1>3

LEMMA SaveDeliveryStep ==
  ASSUME IInv, NEW q \in Callers, SaveDelivery(q)
  PROVE  IInv'
<1> DEFINE n == caller[q].note
           c == caller[q].channel
<1>1. /\ caller[q].phase = "deliver" /\ Continues(q, "enqueue")
      /\ delivery' = [delivery EXCEPT ![n][c] = "queued"]
      /\ UNCHANGED <<note, recipient, job, unread, badge, worker, faults, stalls,
                     address, sent>>
  BY DEF SaveDelivery, CallerAt, numbers, bounds
<1>2. Creating(q)
  BY <1>1 DEF Creating
<1>3. n \in Notes /\ c \in Channels /\ note[n].status # "none"
  BY <1>2, CreatorKnows
<1>4. job[n][c].state = "none"
  BY <1>1, <1>2 DEF IInv, RowsFollow, Creators
<1>5. PICK r : /\ CallerSame(q, r)
               /\ caller' = [caller EXCEPT ![q] = r]
               /\ r.phase = "enqueue" /\ r.channel = c
  BY <1>1, Continuing DEF IInv
<1>6. r \in Caller /\ r.note = n /\ r.found = caller[q].found
  BY <1>5 DEF CallerSame
<1> HIDE DEF n, c
<1>7. delivery' \in [Notes -> [Channels -> Status]]
  BY <1>1, <1>3, Written DEF IInv, TypeOK, Status
<1>8. TypeOK'
  <2>1. caller' \in [Callers -> Caller]
    BY <1>5, <1>6 DEF IInv, TypeOK
  <2> QED  BY <1>1, <1>7, <2>1 DEF IInv, TypeOK
<1>9. RowsFollow'
  BY <1>1, <1>2, <1>3, <1>4, <1>5, <1>6, CreatorKeepsRows DEF IInv, n
<1>10. JobsFollow'
  BY <1>1, JobsUntouched DEF IInv
<1> QED  BY <1>8, <1>9, <1>10 DEF IInv

LEMMA EnqueueStep ==
  ASSUME IInv, NEW q \in Callers, Enqueue(q)
  PROVE  IInv'
<1> DEFINE n == caller[q].note
           c == caller[q].channel
           done == {d \in Channels : job'[n][d].state # "none"}
           j == [job[n][c] EXCEPT !.state = "waiting"]
<1>1. /\ caller[q].phase = "enqueue" /\ NextChannel(q, n, done)
      /\ job' = [job EXCEPT ![n][c].state = "waiting"]
      /\ UNCHANGED <<note, recipient, delivery, unread, badge, worker, faults,
                     stalls, address, sent>>
  BY DEF Enqueue, CallerAt, rows, numbers, bounds
<1>2. Creating(q)
  BY <1>1 DEF Creating
<1>3. n \in Notes /\ c \in Channels /\ note[n].status # "none"
  BY <1>2, CreatorKnows
<1>4. job[n][c].state = "none"
  BY <1>1, <1>2 DEF IInv, RowsFollow, Creators
<1>5. PICK r : /\ CallerSame(q, r)
               /\ caller' = [caller EXCEPT ![q] = r]
               /\ \/ r.phase = "finish"
                  \/ r.phase = "deliver" /\ r.channel \in Channels \ done
  <2> HIDE DEF done
  <2> QED  BY <1>1, <1>3, NextChannelType DEF IInv
<1>6. /\ r \in Caller /\ r.note = n /\ r.found = caller[q].found
      /\ r.phase \in {"finish", "deliver"}
      /\ r.phase = "deliver" => job'[n][r.channel].state = "none"
  BY <1>5 DEF CallerSame
<1>7. JobsFollow'
  <2> HIDE DEF n, c
  <2> QED  BY <1>1, <1>3, <1>4, EnqueueKeepsJobs DEF IInv
<1>8. j \in Job
  <2>1. job[n][c] \in Job
    BY <1>3, Numbers DEF IInv
  <2> QED  BY <2>1 DEF Job
<1>9. job' = [job EXCEPT ![n][c] = j]
  BY <1>1
<1> HIDE DEF n, c, j, done
<1>10. /\ job' \in [Notes -> [Channels -> Job]]
       /\ \A m \in Notes \ {n} : job'[m] = job[m]
  BY <1>3, <1>8, <1>9, Written DEF IInv, TypeOK
<1>11. TypeOK'
  <2>1. caller' \in [Callers -> Caller]
    BY <1>5, <1>6 DEF IInv, TypeOK
  <2> QED  BY <1>1, <1>10, <2>1 DEF IInv, TypeOK
<1>12. RowsFollow'
  BY <1>1, <1>2, <1>3, <1>5, <1>6, <1>10, CreatorKeepsRows DEF IInv, n
<1> QED  BY <1>7, <1>11, <1>12 DEF IInv

LEMMA FinishStep ==
  ASSUME IInv, NEW q \in Callers, Finish(q)
  PROVE  IInv'
<1> DEFINE n == caller[q].note
           x == [note[n] EXCEPT !.status = "queued"]
<1>1. /\ caller[q].phase = "finish"
      /\ caller' = [caller EXCEPT ![q] = Idle]
      /\ note' = [note EXCEPT ![n] = x]
      /\ UNCHANGED <<recipient, delivery, job, unread, badge, worker, faults,
                     stalls, address, sent>>
  BY DEF Finish, CallerAt, numbers, bounds
<1>2. Creating(q)
  BY <1>1 DEF Creating
<1>3. n \in Notes /\ note[n] \in Note /\ note[n].status # "none"
  BY <1>2, CreatorKnows
<1>4. x \in Note /\ x.status = "queued" /\ x.channels = note[n].channels
  BY <1>3 DEF Note
<1> HIDE DEF x, n
<1>5. \A m \in Notes : note'[m] = IF m = n THEN x ELSE note[m]
  BY <1>1 DEF IInv, TypeOK
<1>6. \A p \in Callers : caller'[p] = IF p = q THEN Idle ELSE caller[p]
  BY <1>1 DEF IInv, TypeOK
<1>7. TypeOK'
  <2>1. note' \in [Notes -> Note] /\ caller' \in [Callers -> Caller]
    BY <1>1, <1>4, IdleTypes DEF IInv, TypeOK
  <2> QED  BY <1>1, <2>1 DEF IInv, TypeOK
<1>8. Untouched'
  BY <1>1, <1>4, <1>5 DEF IInv, RowsFollow, Untouched
<1>9. \A p \in Callers : Creating(p)' => p # q /\ Creating(p)
  BY <1>6 DEF Creating, Idle
<1>10. Creators' /\ CreatorsAlone'
  <2>1. \A m \in Notes : note[m].status # "none" => note'[m].status # "none"
    BY <1>4, <1>5
  <2>2. \A p \in Callers : Creating(p)' => caller'[p] = caller[p]
    BY <1>6, <1>9
  <2>3. Creators'
    <3> SUFFICES ASSUME NEW p \in Callers, Creating(p)'
                 PROVE  LET m == caller'[p].note IN
                        /\ m \in Notes
                        /\ note'[m].status # "none"
                        /\ caller'[p].phase = "recipients" =>
                             /\ recipient[m].status = "none"
                             /\ \A c \in Channels : job[m][c].state = "none"
                        /\ caller'[p].phase \in {"deliver", "enqueue"} =>
                             job[m][caller'[p].channel].state = "none"
      BY <1>1 DEF Creators, CallerAt
    <3> QED  BY <1>9, <2>1, <2>2 DEF IInv, RowsFollow, Creators, CallerAt
  <2> QED  BY <1>9, <2>2, <2>3 DEF IInv, RowsFollow, CreatorsAlone
<1>11. FoundVisible'
  <2> SUFFICES ASSUME NEW p \in Callers, NEW m \in caller'[p].found
               PROVE  Visible(m)'
    BY DEF FoundVisible
  <2>1. m \in Notes /\ Visible(m)
    BY <1>6 DEF IInv, RowsFollow, FoundVisible, TypeOK, Caller, Idle
  <2> QED  BY <1>1, <1>4, <1>5, <2>1 DEF Visible
<1>12. JobsFollow'
  BY <1>1, JobsUntouched DEF IInv
<1> QED  BY <1>7, <1>8, <1>10, <1>11, <1>12 DEF IInv, RowsFollow

\* A request that creates nothing goes on.
LEMMA CallerGoesOn ==
  ASSUME IInv, NEW q \in Callers, NEW r \in Caller,
         caller' = [caller EXCEPT ![q] = r],
         UNCHANGED <<note, delivery, job, worker, stalls, address, sent>>,
         recipient' \in [Notes -> Recipient],
         \A n \in Notes : \/ recipient'[n] = recipient[n]
                          \/ Visible(n) /\ recipient'[n].status = "read",
         {unread', badge'} \subseteq 0 .. Cardinality(Notes),
         faults' \in 0 .. MaxFaults,
         r.phase \notin {"recipients", "deliver", "enqueue", "finish"},
         \A n \in r.found : Visible(n)
  PROVE  IInv'
<1>1. RowsFollow'
  BY CallerKeepsRows DEF IInv
<1>2. JobsFollow'
  BY JobsUntouched DEF IInv
<1>3. caller' \in [Callers -> Caller]
  BY DEF IInv, TypeOK
<1>4. TypeOK'
  BY <1>3 DEF IInv, TypeOK
<1> QED  BY <1>1, <1>2, <1>4 DEF IInv

LEMMA MarkReadStep ==
  ASSUME IInv, NEW q \in Callers, NEW op \in {"markRead", "markAllRead"},
         NEW ns \in SUBSET Notes, MarkRead(q, op, ns)
  PROVE  IInv'
<1> DEFINE r == [Idle EXCEPT !.op = op, !.phase = "update", !.found = ns]
<1>1. /\ caller' = [caller EXCEPT ![q] = r]
      /\ UNCHANGED <<note, recipient, delivery, job, unread, badge, worker,
                     faults, stalls, address, sent>>
  BY DEF MarkRead, rows, numbers, bounds
<1>2. r \in Caller /\ r.phase = "update" /\ r.found = ns
  BY IdleTypes DEF Idle, Caller, Operations
<1>3. \A n \in ns : Visible(n)
  BY DEF MarkRead, Unread
<1>4. /\ recipient' \in [Notes -> Recipient]
      /\ {unread', badge'} \subseteq 0 .. Cardinality(Notes)
      /\ faults' \in 0 .. MaxFaults
  BY <1>1 DEF IInv, TypeOK
<1> HIDE DEF r
<1> QED  BY <1>1, <1>2, <1>3, <1>4, CallerGoesOn

LEMMA UpdateReadStep ==
  ASSUME IInv, NEW q \in Callers, UpdateRead(q)
  PROVE  IInv'
<1>1. /\ recipient' = [n \in Notes |->
           IF n \in caller[q].found THEN [status |-> "read", readAt |-> TRUE]
           ELSE recipient[n]]
      /\ UNCHANGED <<note, delivery, job, unread, badge, worker, faults, stalls,
                     address, sent>>
  BY DEF UpdateRead, numbers, bounds
<1>2. PICK phase \in {"count", "setUnread"} : Continues(q, phase)
  BY DEF UpdateRead
<1>3. PICK r : /\ CallerSame(q, r)
               /\ caller' = [caller EXCEPT ![q] = r]
               /\ r.phase = phase
  BY <1>2, Continuing DEF IInv
<1>4. /\ recipient' \in [Notes -> Recipient]
      /\ \A n \in Notes : \/ recipient'[n] = recipient[n]
                          \/ Visible(n) /\ recipient'[n].status = "read"
  BY <1>1 DEF IInv, TypeOK, Recipient, RowsFollow, FoundVisible
<1>5. \A n \in r.found : Visible(n)
  BY <1>3 DEF CallerSame, IInv, RowsFollow, FoundVisible
<1>6. /\ {unread', badge'} \subseteq 0 .. Cardinality(Notes)
      /\ faults' \in 0 .. MaxFaults
  BY <1>1 DEF IInv, TypeOK
<1> QED  BY <1>1, <1>3, <1>4, <1>5, <1>6, CallerGoesOn DEF CallerSame

LEMMA CountUnreadStep ==
  ASSUME IInv, NEW q \in Callers, CountUnread(q)
  PROVE  IInv'
<1> DEFINE k == Cardinality(Unread)
           r == [caller[q] EXCEPT !.phase = "setUnread", !.count = k]
<1>1. /\ caller' = [caller EXCEPT ![q] = r]
      /\ UNCHANGED <<note, recipient, delivery, job, unread, badge, worker,
                     faults, stalls, address, sent>>
  BY DEF CountUnread, rows, numbers, bounds
<1>2. k \in 0 .. Cardinality(Notes)
  BY Counted, DeliveryConstants DEF Unread
<1> HIDE DEF k
<1>3. caller[q] \in Caller
  BY DEF IInv, TypeOK
<1>4. r \in Caller /\ r.phase = "setUnread" /\ r.found = caller[q].found
  BY <1>2, <1>3 DEF Caller
<1> HIDE DEF r
<1>5. \A n \in r.found : Visible(n)
  BY <1>4 DEF IInv, RowsFollow, FoundVisible
<1>6. /\ recipient' \in [Notes -> Recipient]
      /\ {unread', badge'} \subseteq 0 .. Cardinality(Notes)
      /\ faults' \in 0 .. MaxFaults
  BY <1>1 DEF IInv, TypeOK
<1> QED  BY <1>1, <1>4, <1>5, <1>6, CallerGoesOn

LEMMA PublishUnreadStep ==
  ASSUME IInv, NEW q \in Callers, PublishUnread(q)
  PROVE  IInv'
<1>1. /\ unread' = caller[q].count /\ Continues(q, "emit")
      /\ UNCHANGED <<note, recipient, delivery, job, badge, worker, faults,
                     stalls, address, sent>>
  BY DEF PublishUnread, rows, bounds
<1>2. PICK r : /\ CallerSame(q, r)
               /\ caller' = [caller EXCEPT ![q] = r]
               /\ r.phase = "emit"
  BY <1>1, Continuing DEF IInv
<1>3. \A n \in r.found : Visible(n)
  BY <1>2 DEF CallerSame, IInv, RowsFollow, FoundVisible
<1>4. caller[q].count \in 0 .. Cardinality(Notes)
  BY DEF IInv, TypeOK, Caller
<1>5. /\ recipient' \in [Notes -> Recipient]
      /\ {unread', badge'} \subseteq 0 .. Cardinality(Notes)
      /\ faults' \in 0 .. MaxFaults
  BY <1>1, <1>4 DEF IInv, TypeOK
<1> QED  BY <1>1, <1>2, <1>3, <1>5, CallerGoesOn DEF CallerSame

\* The steps that end a request, and the connection of a browser.
LEMMA EndStep ==
  ASSUME IInv, NEW q \in Callers, EmitUnread(q) \/ CallerFault(q) \/ Subscribe(q)
  PROVE  IInv'
<1> DEFINE s == [Idle EXCEPT !.op = "subscribe", !.phase = "emit",
                             !.count = unread]
<1>1. UNCHANGED <<note, recipient, delivery, job, unread, worker, stalls,
                  address, sent>>
  BY DEF EmitUnread, CallerFault, Subscribe, rows, numbers, bounds
<1>2. /\ caller[q].count \in 0 .. Cardinality(Notes)
      /\ unread \in 0 .. Cardinality(Notes)
  BY DEF IInv, TypeOK, Caller
<1>3. /\ {unread', badge'} \subseteq 0 .. Cardinality(Notes)
      /\ faults' \in 0 .. MaxFaults
      /\ recipient' \in [Notes -> Recipient]
  <2>1. badge' \in {badge, caller[q].count} /\ faults' \in {faults, faults + 1}
        /\ (faults' = faults + 1 => faults < MaxFaults \/ faults' = faults)
    BY DEF EmitUnread, CallerFault, Subscribe, numbers, bounds
  <2> QED  BY <1>1, <1>2, <2>1, DeliveryConstants DEF IInv, TypeOK
<1>4. \/ caller' = [caller EXCEPT ![q] = Idle]
      \/ caller' = [caller EXCEPT ![q] = s]
  BY DEF EmitUnread, CallerFault, Subscribe
<1>5. Idle \in Caller /\ Idle.phase = "idle" /\ Idle.found = {}
  BY IdleTypes DEF Idle
<1>6. s \in Caller /\ s.phase = "emit" /\ s.found = {}
  BY <1>2, <1>5 DEF Idle, Caller, Operations
<1> HIDE DEF s
<1>7. CASE caller' = [caller EXCEPT ![q] = Idle]
  BY <1>1, <1>3, <1>5, <1>7, CallerGoesOn
<1>8. CASE caller' = [caller EXCEPT ![q] = s]
  BY <1>1, <1>3, <1>6, <1>8, CallerGoesOn
<1> QED  BY <1>4, <1>7, <1>8

-----------------------------------------------------------------------------
(* The invariant                                                           *)

LEMMA InitIInv == Init => IInv
<1> SUFFICES ASSUME Init  PROVE IInv
  OBVIOUS
<1>1. TypeOK
  <2>1. /\ note = [n \in Notes |-> NoNote]
        /\ recipient = [n \in Notes |-> [status |-> "none", readAt |-> FALSE]]
        /\ delivery = [n \in Notes |-> [c \in Channels |-> "none"]]
        /\ job = [n \in Notes |-> [c \in Channels |->
                    [state |-> "none", made |-> 0, stalled |-> 0]]]
        /\ worker = [w \in Workers |-> Free]
        /\ caller = [q \in Callers |-> Idle]
        /\ sent = [n \in Notes |-> [c \in Channels |-> 0]]
    BY DEF Init
  <2>2. note \in [Notes -> Note] /\ recipient \in [Notes -> Recipient]
    BY <2>1 DEF NoNote, Note, Recipient
  <2>3. /\ delivery \in [Notes -> [Channels -> Status]]
        /\ job \in [Notes -> [Channels -> Job]]
        /\ sent \in [Notes -> [Channels -> Nat]]
    BY <2>1 DEF Status, Job, Attempts
  <2>4. worker \in [Workers -> Worker] /\ caller \in [Callers -> Caller]
    BY <2>1, IdleTypes
  <2>5. 0 \in 0 .. Cardinality(Notes) /\ 0 \in 0 .. MaxFaults /\ 0 \in 0 .. MaxStalls
    BY Counted, FS_EmptySet, DeliveryConstants
  <2>6. /\ unread = 0 /\ badge = 0 /\ faults = 0 /\ stalls = 0
        /\ address \subseteq Channels
    BY DEF Init
  <2> QED  BY <2>2, <2>3, <2>4, <2>5, <2>6 DEF TypeOK
<1>2. RowsFollow
  BY DEF Init, RowsFollow, Untouched, Creators, CreatorsAlone, FoundVisible,
     Creating, Idle
<1>3. JobsWithin /\ WorkersHold /\ OwnersAlone
  BY DEF Init, JobsWithin, AttemptsLeft, Begun, Attempts, MaxStalledCount,
     WorkersHold, OwnersAlone, Free
<1>4. SendsCovered
  <2> SUFFICES ASSUME NEW n \in Notes, NEW c \in Channels
               PROVE  sent[n][c] + Cardinality(ToSend(n, c)) <= Begun(job[n][c])
    BY DEF SendsCovered
  <2>1. ToSend(n, c) = {}
    BY DEF Init, ToSend, Free
  <2>2. sent[n][c] = 0 /\ Begun(job[n][c]) = 0
    BY DEF Init, Begun
  <2>3. Cardinality(ToSend(n, c)) = 0
    BY <2>1, FS_EmptySet
  <2> QED  BY <2>2, <2>3
<1> QED  BY <1>1, <1>2, <1>3, <1>4 DEF IInv, JobsFollow

LEMMA NextIInv == IInv /\ [Next]_vars => IInv'
<1> SUFFICES ASSUME IInv, [Next]_vars  PROVE IInv'
  OBVIOUS
<1>1. ASSUME NEW w \in Workers, WorkerNext(w) \/ WorkerFault(w) \/ Stall(w)
      PROVE  IInv'
  BY <1>1, TakeStep, FindStep, ShowInListStep, MarkStep, CountStep,
     CompleteStep, ThrowStep, WorkerFaultStep, StallStep DEF WorkerNext
<1>2. ASSUME NEW q \in Callers, CallerNext(q)
      PROVE  IInv'
  BY <1>2, CreateStep, SaveRecipientsStep, SaveDeliveryStep, EnqueueStep,
     FinishStep, MarkReadStep, UpdateReadStep, CountUnreadStep,
     PublishUnreadStep, EndStep DEF CallerNext
<1>3. CASE UNCHANGED vars
  <2>1. JobsFollow'
    BY <1>3, JobsUntouched DEF IInv, vars
  <2>2. RowsFollow'
    BY <1>3, WorkerKeepsRows DEF IInv, vars
  <2>3. TypeOK'
    BY <1>3 DEF IInv, TypeOK, vars
  <2> QED  BY <2>1, <2>2, <2>3 DEF IInv
<1>4. CASE Next
  BY <1>1, <1>2, <1>4 DEF Next
<1> QED  BY <1>3, <1>4

-----------------------------------------------------------------------------
(* The theorems                                                            *)

\* Every notification, request and worker has the form the services rely on,
\* and the numbers in Redis and in the browsers never exceed the number of
\* notifications.
THEOREM DeliveryTypeCorrect == Spec => []TypeOK
<1>1. IInv => TypeOK
  BY DEF IInv
<1> QED  BY <1>1, InitIInv, NextIInv, PTL DEF Spec

LEMMA IInvBounds == IInv => SendsBounded
<1> SUFFICES ASSUME IInv, NEW n \in Notes, NEW c \in Channels
             PROVE  sent[n][c] <= Attempts + MaxStalledCount
  BY DEF SendsBounded
<1>1. sent[n][c] + Cardinality(ToSend(n, c)) <= Begun(job[n][c])
  BY DEF IInv, JobsFollow, SendsCovered
<1>2. Begun(job[n][c]) <= Attempts + MaxStalledCount
  BY DEF IInv, JobsFollow, JobsWithin, AttemptsLeft
<1>3. /\ Cardinality(ToSend(n, c)) \in Nat
      /\ sent[n][c] \in Nat /\ Begun(job[n][c]) \in Nat
  BY ToSendFinite, Numbers DEF IInv
<1> QED  BY <1>1, <1>2, <1>3 DEF Attempts, MaxStalledCount

\* A message goes out as often as its job is attempted, at most: three times
\* and once more when the job was taken for dead, though the late worker goes
\* on.  The argument: every send belongs to an attempt that began
\* (SendsCovered), one worker owns a job (OwnersAlone), and attempts begin
\* only while some are left (JobsWithin).
THEOREM SendsAreBounded == Spec => []SendsBounded
BY IInvBounds, InitIInv, NextIInv, PTL DEF Spec

\* What the list shows stays the same.
LEMMA BoxUnchanged ==
  ASSUME \A n \in Notes : /\ Visible(n)' <=> Visible(n)
                          /\ recipient'[n].readAt <=> recipient[n].readAt
  PROVE  UNCHANGED Box!vars
<1>1. {n \in Notes : Visible(n)}' = {n \in Notes : Visible(n)}
  OBVIOUS
<1>2. {n \in Notes : recipient[n].readAt}' = {n \in Notes : recipient[n].readAt}
  OBVIOUS
<1> QED  BY <1>1, <1>2 DEF Box!vars

\* What a worker does to the list.
LEMMA WorkerBox ==
  ASSUME IInv, NEW w \in Workers, WorkerNext(w) \/ WorkerFault(w) \/ Stall(w)
  PROVE  [Box!Next]_(Box!vars)
<1>1. CASE ShowInList(w)
  <2> DEFINE n == MyNote(w)
  <2>1. n \in Notes
    BY <1>1, Held DEF ShowInList, At, IInv, JobsFollow
  <2>2. /\ recipient' = [recipient EXCEPT ![n].status = "delivered"]
        /\ note' = note
    BY <1>1 DEF ShowInList
  <2> HIDE DEF n
  <2>3. /\ \A m \in Notes \ {n} : recipient'[m] = recipient[m]
        /\ recipient'[n].status = "delivered"
        /\ recipient'[n].readAt = recipient[n].readAt
    BY <2>1, <2>2 DEF IInv, TypeOK, Recipient
  <2>4. CASE Visible(n) \/ "in_app" \notin note[n].channels
    <3>1. \A m \in Notes : /\ Visible(m)' <=> Visible(m)
                           /\ recipient'[m].readAt <=> recipient[m].readAt
      BY <2>2, <2>3, <2>4 DEF Visible
    <3> QED  BY <3>1, BoxUnchanged
  <2>5. CASE ~Visible(n) /\ "in_app" \in note[n].channels
    <3>1. {m \in Notes : Visible(m)}' = {m \in Notes : Visible(m)} \union {n}
      BY <2>1, <2>2, <2>3, <2>5 DEF Visible
    <3>2. {m \in Notes : recipient[m].readAt}' = {m \in Notes : recipient[m].readAt}
      BY <2>3
    <3>3. n \notin {m \in Notes : Visible(m)}
      BY <2>5
    <3>4. Box!Arrive(n)
      BY <3>1, <3>2, <3>3 DEF Box!Arrive
    <3> QED  BY <2>1, <3>4 DEF Box!Next
  <2> QED  BY <2>4, <2>5
<1>2. CASE ~ShowInList(w)
  <2>1. UNCHANGED <<note, recipient>>
    BY <1>2 DEF WorkerNext, WorkerFault, Stall, Take, Find, MarkDelivered, Send,
       MarkSent, Refuse, Deactivate, MarkRefused, MarkFailed, CountInApp,
       SetUnread, Emit, Complete, Throw, rows
  <2> QED  BY <2>1, BoxUnchanged DEF Visible
<1> QED  BY <1>1, <1>2

\* What a request does to the list.
LEMMA CallerBox ==
  ASSUME IInv, NEW q \in Callers, CallerNext(q)
  PROVE  [Box!Next]_(Box!vars)
<1>1. CASE UpdateRead(q)
  <2>1. PICK ns \in SUBSET Notes : ns = caller[q].found
    BY DEF IInv, TypeOK, Caller
  <2>2. \A n \in ns : Visible(n)
    BY <2>1 DEF IInv, RowsFollow, FoundVisible
  <2>3. /\ recipient' = [n \in Notes |->
             IF n \in ns THEN [status |-> "read", readAt |-> TRUE]
             ELSE recipient[n]]
        /\ note' = note
    BY <1>1, <2>1 DEF UpdateRead
  <2>4. {n \in Notes : Visible(n)}' = {n \in Notes : Visible(n)}
    BY <2>2, <2>3 DEF Visible
  <2>5. {n \in Notes : recipient[n].readAt}'
          = {n \in Notes : recipient[n].readAt} \union ns
    BY <2>3
  <2>6. ns \subseteq {n \in Notes : Visible(n)}
    BY <2>2
  <2>7. Box!MarkRead(ns)
    BY <2>4, <2>5, <2>6 DEF Box!MarkRead
  <2> QED  BY <2>7 DEF Box!Next
<1>2. CASE \E n \in Notes : Create(q, n)
  <2>1. PICK n \in Notes : Create(q, n)
    BY <1>2
  <2>2. /\ note[n].status = "none" /\ recipient' = recipient
        /\ \A m \in Notes \ {n} : note'[m] = note[m]
    BY <2>1 DEF Create, IInv, TypeOK
  <2>3. recipient[n].status = "none"
    BY <2>2 DEF IInv, RowsFollow, Untouched
  <2>4. \A m \in Notes : Visible(m)' <=> Visible(m)
    BY <2>2, <2>3 DEF Visible
  <2> QED  BY <2>2, <2>4, BoxUnchanged
<1>3. CASE SaveRecipients(q)
  <2> DEFINE n == caller[q].note
  <2>1. n \in Notes /\ recipient[n].status = "none"
    BY <1>3 DEF IInv, RowsFollow, Creators, Creating, SaveRecipients, CallerAt
  <2>2. /\ recipient' = [recipient EXCEPT ![n].status = "pending"]
        /\ note' = note
    BY <1>3 DEF SaveRecipients
  <2> HIDE DEF n
  <2>3. /\ \A m \in Notes \ {n} : recipient'[m] = recipient[m]
        /\ recipient'[n].status = "pending"
        /\ recipient'[n].readAt = recipient[n].readAt
    BY <2>1, <2>2 DEF IInv, TypeOK, Recipient
  <2>4. \A m \in Notes : /\ Visible(m)' <=> Visible(m)
                         /\ recipient'[m].readAt <=> recipient[m].readAt
    BY <2>1, <2>2, <2>3 DEF Visible
  <2> QED  BY <2>4, BoxUnchanged
<1>4. CASE Finish(q)
  <2>1. caller[q].note \in Notes
    BY <1>4, CreatorKnows DEF Finish, CallerAt, Creating
  <2>2. recipient' = recipient /\ \A m \in Notes : note'[m].channels = note[m].channels
    BY <1>4, <2>1 DEF Finish, IInv, TypeOK, Note
  <2> QED  BY <2>2, BoxUnchanged DEF Visible
<1>5. CASE \/ SaveDelivery(q) \/ Enqueue(q) \/ CountUnread(q)
           \/ PublishUnread(q) \/ EmitUnread(q) \/ Subscribe(q) \/ CallerFault(q)
           \/ \E op \in {"markRead", "markAllRead"}, ns \in SUBSET Notes :
                MarkRead(q, op, ns)
  <2>1. UNCHANGED <<note, recipient>>
    BY <1>5 DEF SaveDelivery, Enqueue, CountUnread, PublishUnread, EmitUnread,
       Subscribe, CallerFault, MarkRead, rows
  <2> QED  BY <2>1, BoxUnchanged DEF Visible
<1> QED  BY <1>1, <1>2, <1>3, <1>4, <1>5 DEF CallerNext

\* The list implements Inbox: whatever is retried, taken for dead or
\* overlaps, what arrived stays in the user's list, only what is in the list
\* is marked as read, and what was read stays read.
THEOREM ListImplementsInbox == Spec => InboxKept
<1>1. Init => Box!Init
  BY DEF Init, Box!Init, Visible
<1>2. IInv /\ [Next]_vars => [Box!Next]_(Box!vars)
  <2> SUFFICES ASSUME IInv, [Next]_vars  PROVE [Box!Next]_(Box!vars)
    OBVIOUS
  <2>1. CASE UNCHANGED vars
    BY <2>1, BoxUnchanged DEF vars, Visible
  <2>2. CASE Next
    BY <2>2, WorkerBox, CallerBox DEF Next
  <2> QED  BY <2>1, <2>2
<1> QED  BY <1>1, <1>2, InitIInv, NextIInv, PTL DEF Spec, InboxKept, Box!Spec

-----------------------------------------------------------------------------
(* Dispatching                                                             *)

\* Every channel the user wants has its job.
Dispatched(notes, jobs, n) ==
  \A c \in notes[n].enabled : jobs[n][c].state # "none"

\* A request that is about to mark a notification as queued dispatched it.
FinishersDispatched ==
  \A q \in Callers : CallerAt(q, "finish") => Dispatched(note, job, caller[q].note)

DispatchInv == QueuedMeansDispatched /\ FinishersDispatched

-----------------------------------------------------------------------------
(* Without failed calls and late workers                                   *)

\* The job of the list has not been tried yet.
Untried(n) ==
  /\ recipient[n].status \in {"none", "pending"}
  /\ delivery[n]["in_app"] # "sent"

\* Until it is taken, it has not been tried; a worker that is about to put the
\* notification into the list is the first that tries.
FirstTries ==
  /\ \A n \in Notes :
       job[n]["in_app"].state \in {"none", "waiting"} => Untried(n)
  /\ \A w \in Workers :
       MyChannel(w) = "in_app" /\ worker[w].phase \in {"find", "recipient"} =>
         Untried(MyNote(w))

\* Whoever has a job owns it, and gets through with it; only jobs of the list
\* put a notification there and count, and only a push is refused.
OnTime ==
  \A w \in Workers :
    /\ worker[w].phase \notin {"failed", "throw"}
    /\ worker[w].phase # "idle" => worker[w].owns
    /\ worker[w].phase \in
         {"recipient", "delivered", "count", "setUnread", "emit"} =>
       MyChannel(w) = "in_app"
    /\ worker[w].phase \in {"invalid", "refused"} => MyChannel(w) = "push"

Calm == faults = 0 /\ stalls = 0 /\ OnTime /\ FirstTries /\ ReadStaysRead

CalmInv == scenario # "failing" => Calm

-----------------------------------------------------------------------------
(* In turns                                                                *)

AllEnabled == \A n \in Notes : note[n].enabled = note[n].channels

\* A job of the list waits: the number will be counted again.
Late == \E n \in Notes : job[n]["in_app"].state = "waiting"

Settles(k) == Late \/ k = Cardinality(Unread)

\* Redis and the browsers agree, and are right unless a job waits.
Settled == unread = badge /\ Settles(unread)

\* What is not in the list yet has its job waiting, or is on its way.
PendingWaits ==
  \A n \in Notes :
    "in_app" \in note[n].channels /\ recipient[n].status = "pending" =>
      \/ job[n]["in_app"].state = "waiting"
      \/ /\ job[n]["in_app"].state = "none"
         /\ \E q \in Callers : Creating(q) /\ caller[q].note = n
      \/ \E w \in Workers :
           /\ worker[w].phase \in {"find", "recipient"}
           /\ MyNote(w) = n /\ MyChannel(w) = "in_app"

\* What the number is while a worker has its turn.
WorkerTurn(w) ==
  /\ worker[w].phase # "emit" => unread = badge
  /\ \/ worker[w].phase = "complete"
     \/ worker[w].phase # "idle" /\ MyChannel(w) # "in_app"
     => Settles(unread)
  /\ At(w, "setUnread") => Settles(worker[w].count)
  /\ At(w, "emit") => unread = worker[w].count /\ Settles(unread)

\* What it is while a request has its turn.
CallerTurn(q) ==
  /\ caller[q].phase # "emit" => unread = badge
  /\ Creating(q) \/ CallerAt(q, "update") => Settles(unread)
  /\ CallerAt(q, "update") /\ caller[q].op = "markAllRead" =>
       caller[q].found = Unread /\ caller[q].count = 0
  /\ CallerAt(q, "update") => caller[q].op \in {"markRead", "markAllRead"}
  /\ CallerAt(q, "setUnread") => caller[q].count = Cardinality(Unread)
  /\ CallerAt(q, "emit") => unread = caller[q].count /\ Settles(unread)

Turn ==
  /\ PendingWaits
  /\ Quiet => Settled
  /\ \A w \in Workers : worker[w].phase # "idle" => WorkerTurn(w)
  /\ \A q \in Callers : caller[q].phase # "idle" => CallerTurn(q)

\* The user has an address for the list, and what does not exist yet is empty.
Given ==
  /\ "in_app" \in address
  /\ \A n \in Notes : note[n].status = "none" => note[n] = NoNote

TurnInv ==
  /\ Given
  /\ scenario = "turns" =>
       Cardinality(Busy) <= 1 /\ (AllEnabled => Turn)

-----------------------------------------------------------------------------
(* What steps do, entry by entry                                           *)

LEMMA WorkerMoved ==
  ASSUME TypeOK, NEW w \in Workers, NEW phase, Goes(w, phase)
  PROVE  /\ \A v \in Workers \ {w} : worker'[v] = worker[v]
         /\ worker'[w].phase = phase
         /\ worker'[w].note = MyNote(w) /\ worker'[w].channel = MyChannel(w)
         /\ worker'[w].owns = worker[w].owns
         /\ worker'[w].count = worker[w].count
BY DEF Goes, TypeOK, Worker, MyNote, MyChannel

LEMMA WorkerCounted ==
  ASSUME TypeOK, NEW w \in Workers, NEW phase, NEW k,
         worker' = [worker EXCEPT ![w].phase = phase, ![w].count = k]
  PROVE  /\ \A v \in Workers \ {w} : worker'[v] = worker[v]
         /\ worker'[w].phase = phase
         /\ worker'[w].note = MyNote(w) /\ worker'[w].channel = MyChannel(w)
         /\ worker'[w].owns = worker[w].owns
         /\ worker'[w].count = k
BY DEF TypeOK, Worker, MyNote, MyChannel

LEMMA CallerMoved ==
  ASSUME TypeOK, NEW q \in Callers, NEW phase, Continues(q, phase)
  PROVE  /\ \A p \in Callers \ {q} : caller'[p] = caller[p]
         /\ caller'[q].phase = phase
         /\ caller'[q].note = caller[q].note /\ caller'[q].op = caller[q].op
         /\ caller'[q].found = caller[q].found
         /\ caller'[q].count = caller[q].count
BY DEF Continues, TypeOK, Caller

LEMMA CallerReplaced ==
  ASSUME TypeOK, NEW q \in Callers, NEW r, caller' = [caller EXCEPT ![q] = r]
  PROVE  caller'[q] = r /\ \A p \in Callers \ {q} : caller'[p] = caller[p]
BY DEF TypeOK

LEMMA WorkerReplaced ==
  ASSUME TypeOK, NEW w \in Workers, NEW x, worker' = [worker EXCEPT ![w] = x]
  PROVE  worker'[w] = x /\ \A v \in Workers \ {w} : worker'[v] = worker[v]
BY DEF TypeOK

\* dispatch goes on with another channel, or has done all of them.
LEMMA CallerDispatches ==
  ASSUME TypeOK, NEW q \in Callers, NEW n \in Notes, NEW done,
         NextChannel(q, n, done)
  PROVE  /\ \A p \in Callers \ {q} : caller'[p] = caller[p]
         /\ caller'[q].note = caller[q].note
         /\ \/ caller'[q].phase = "deliver"
            \/ caller'[q].phase = "finish" /\ note[n].enabled \subseteq done
<1>1. CASE note[n].enabled \subseteq done
  BY <1>1, CallerMoved DEF NextChannel
<1>2. CASE ~(note[n].enabled \subseteq done)
  <2>1. PICK c : caller' = [caller EXCEPT ![q].phase = "deliver",
                                          ![q].channel = c]
    BY <1>2 DEF NextChannel
  <2>2. caller[q] \in Caller
    BY DEF TypeOK
  <2>3. /\ caller'[q].phase = "deliver" /\ caller'[q].note = caller[q].note
        /\ \A p \in Callers \ {q} : caller'[p] = caller[p]
    BY <2>1, <2>2 DEF TypeOK, Caller
  <2> QED  BY <2>3
<1> QED  BY <1>1, <1>2

\* The state of one job is written.
LEMMA StateWritten ==
  ASSUME TypeOK, NEW n \in Notes, NEW c \in Channels, NEW state,
         job' = [job EXCEPT ![n][c].state = state]
  PROVE  /\ job'[n][c].state = state
         /\ \A m \in Notes, d \in Channels : m # n \/ d # c => job'[m][d] = job[m][d]
<1>1. job \in [Notes -> [Channels -> Job]] /\ job[n] \in [Channels -> Job]
  BY DEF TypeOK
<1>2. job[n][c] \in Job
  BY <1>1
<1>3. job'[n] = [job[n] EXCEPT ![c].state = state]
      /\ \A m \in Notes \ {n} : job'[m] = job[m]
  BY <1>1
<1>4. job'[n][c] = [job[n][c] EXCEPT !.state = state]
      /\ \A d \in Channels \ {c} : job'[n][d] = job[n][d]
  BY <1>1, <1>3
<1> QED  BY <1>2, <1>3, <1>4 DEF Job

LEMMA JobReplaced ==
  ASSUME TypeOK, NEW n \in Notes, NEW c \in Channels, NEW i,
         job' = [job EXCEPT ![n][c] = i]
  PROVE  /\ job'[n][c] = i
         /\ \A m \in Notes, d \in Channels : m # n \/ d # c => job'[m][d] = job[m][d]
BY DEF TypeOK

\* The delivery of a channel is written.
LEMMA DeliveryWritten ==
  ASSUME TypeOK, NEW n \in Notes, NEW c \in Channels, NEW status,
         delivery' = [delivery EXCEPT ![n][c] = status]
  PROVE  /\ delivery'[n][c] = status
         /\ \A m \in Notes, d \in Channels :
              m # n \/ d # c => delivery'[m][d] = delivery[m][d]
BY DEF TypeOK

\* The status of a recipient is written.
LEMMA RecipientWritten ==
  ASSUME TypeOK, NEW n \in Notes, NEW status,
         recipient' = [recipient EXCEPT ![n].status = status]
  PROVE  /\ recipient'[n].status = status
         /\ recipient'[n].readAt = recipient[n].readAt
         /\ \A m \in Notes \ {n} : recipient'[m] = recipient[m]
BY DEF TypeOK, Recipient

\* The notification is saved with what the user wants.
LEMMA Created ==
  ASSUME NEW q \in Callers, NEW n \in Notes, Create(q, n)
  PROVE  \E x \in Note : note' = [note EXCEPT ![n] = x] /\ x.status = "pending"
<1>1. PICK requested \in SUBSET Channels, off \in SUBSET Muted :
        note' = [note EXCEPT ![n] =
          [status |-> "pending", channels |-> requested,
           enabled |-> requested \ off]]
  BY DEF Create
<1> DEFINE y == [status |-> "pending", channels |-> requested,
                 enabled |-> requested \ off]
<1>2. y \in Note /\ y.status = "pending"
  BY DEF Note
<1>3. note' = [note EXCEPT ![n] = y]
  BY <1>1
<1> HIDE DEF y
<1> QED  BY <1>2, <1>3

\* The steps of requests that neither begin nor end a dispatch.
LEMMA PlainPhase ==
  ASSUME TypeOK, NEW q \in Callers,
         \/ SaveDelivery(q) \/ UpdateRead(q) \/ CountUnread(q)
         \/ PublishUnread(q) \/ EmitUnread(q) \/ Subscribe(q) \/ CallerFault(q)
         \/ \E op \in {"markRead", "markAllRead"}, ns \in SUBSET Notes :
              MarkRead(q, op, ns)
  PROVE  /\ caller'[q].phase \in
              {"enqueue", "count", "setUnread", "emit", "update", "idle"}
         /\ \A p \in Callers \ {q} : caller'[p] = caller[p]
<1>1. CASE SaveDelivery(q) \/ UpdateRead(q) \/ PublishUnread(q)
  <2>1. PICK phase \in {"enqueue", "count", "setUnread", "emit"} :
          Continues(q, phase)
    BY <1>1 DEF SaveDelivery, UpdateRead, PublishUnread
  <2> QED  BY <2>1, CallerMoved
<1>2. CASE CountUnread(q)
  <2>1. caller' = [caller EXCEPT ![q].phase = "setUnread",
                                 ![q].count = Cardinality(Unread)]
    BY <1>2 DEF CountUnread
  <2> QED  BY <2>1 DEF TypeOK, Caller
<1>3. CASE EmitUnread(q) \/ CallerFault(q)
  <2>1. caller' = [caller EXCEPT ![q] = Idle]
    BY <1>3 DEF EmitUnread, CallerFault
  <2>2. Idle.phase = "idle"
    BY DEF Idle
  <2> QED  BY <2>1, <2>2, CallerReplaced
<1>4. CASE Subscribe(q)
  <2> DEFINE r == [Idle EXCEPT !.op = "subscribe", !.phase = "emit",
                               !.count = unread]
  <2>1. caller' = [caller EXCEPT ![q] = r]
    BY <1>4 DEF Subscribe
  <2>2. r.phase = "emit"
    BY DEF Idle
  <2> HIDE DEF r
  <2> QED  BY <2>1, <2>2, CallerReplaced
<1>5. CASE \E op \in {"markRead", "markAllRead"}, ns \in SUBSET Notes :
             MarkRead(q, op, ns)
  <2>1. PICK op, ns : caller' = [caller EXCEPT ![q] =
          [Idle EXCEPT !.op = op, !.phase = "update", !.found = ns]]
    BY <1>5 DEF MarkRead
  <2> DEFINE r == [Idle EXCEPT !.op = op, !.phase = "update", !.found = ns]
  <2>2. r.phase = "update"
    BY DEF Idle
  <2> HIDE DEF r
  <2> QED  BY <2>1, <2>2, CallerReplaced DEF r
<1> QED  BY <1>1, <1>2, <1>3, <1>4, <1>5

-----------------------------------------------------------------------------
(* Dispatching: every step                                                 *)

\* A job that exists is never removed.
LEMMA JobsRemain ==
  ASSUME IInv, Next, NEW n \in Notes, NEW c \in Channels,
         job[n][c].state # "none"
  PROVE  job'[n][c].state # "none"
<1>1. ASSUME NEW w \in Workers, WorkerNext(w) \/ WorkerFault(w) \/ Stall(w)
      PROVE  job'[n][c].state # "none"
  <2>1. CASE \E m \in Notes, d \in Channels : Take(w, m, d)
    <3>1. PICK m \in Notes, d \in Channels : Take(w, m, d)
      BY <2>1
    <3>2. job' = [job EXCEPT ![m][d].state = "active"]
      BY <3>1 DEF Take
    <3> QED  BY <3>2, StateWritten DEF IInv
  <2>2. CASE Complete(w) \/ Throw(w) \/ Stall(w)
    <3> DEFINE j == job[MyNote(w)][MyChannel(w)]
    <3>1. MyNote(w) \in Notes /\ MyChannel(w) \in Channels
      BY <2>2, Held DEF Complete, Throw, Stall, At, IInv, JobsFollow
    <3>2. j \in Job
      BY <3>1 DEF IInv, TypeOK
    <3>3. PICK i : /\ i.state # "none"
                   /\ \/ job' = [job EXCEPT ![MyNote(w)][MyChannel(w)] = i]
                      \/ job' = job
      <4>1. CASE Complete(w)
        <5>1. [j EXCEPT !.state = "completed"].state # "none"
          BY <3>2 DEF Job
        <5>2. \/ job' = job
              \/ job' = [job EXCEPT ![MyNote(w)][MyChannel(w)]
                           = [j EXCEPT !.state = "completed"]]
          BY <4>1 DEF Complete
        <5> QED  BY <5>1, <5>2
      <4>2. CASE Throw(w)
        <5> DEFINE state == IF j.made + 1 < Attempts THEN "waiting" ELSE "failed"
                   i == [j EXCEPT !.made = @ + 1, !.state = state]
        <5>1. i.state # "none"
          BY <3>2 DEF Job
        <5>2. job' = job \/ job' = [job EXCEPT ![MyNote(w)][MyChannel(w)] = i]
          BY <4>2 DEF Throw
        <5> HIDE DEF i
        <5> QED  BY <5>1, <5>2
      <4>3. CASE Stall(w)
        <5> DEFINE state == IF j.stalled < MaxStalledCount THEN "waiting"
                            ELSE "failed"
                   i == [j EXCEPT !.stalled = @ + 1, !.state = state]
        <5>1. i.state # "none"
          BY <3>2 DEF Job
        <5>2. job' = [job EXCEPT ![MyNote(w)][MyChannel(w)] = i]
          BY <4>3 DEF Stall
        <5> HIDE DEF i
        <5> QED  BY <5>1, <5>2
      <4> QED  BY <2>2, <4>1, <4>2, <4>3
    <3>4. \/ job' = job
          \/ job'[n][c] = i \/ job'[n][c] = job[n][c]
      BY <3>1, <3>3, JobReplaced DEF IInv
    <3> QED  BY <3>3, <3>4
  <2>3. CASE \/ Find(w) \/ ShowInList(w) \/ MarkDelivered(w)
             \/ Send(w) \/ MarkSent(w) \/ MarkFailed(w)
             \/ Refuse(w) \/ Deactivate(w) \/ MarkRefused(w)
             \/ CountInApp(w) \/ SetUnread(w) \/ Emit(w) \/ WorkerFault(w)
    <3>1. job' = job
      BY <2>3 DEF Find, ShowInList, MarkDelivered, Send, MarkSent, MarkFailed,
         Refuse, Deactivate, MarkRefused, CountInApp, SetUnread, Emit,
         WorkerFault
    <3> QED  BY <3>1
  <2> QED  BY <1>1, <2>1, <2>2, <2>3 DEF WorkerNext
<1>2. ASSUME NEW q \in Callers, CallerNext(q)
      PROVE  job'[n][c].state # "none"
  <2>1. CASE Enqueue(q)
    <3>1. PICK m \in Notes, d \in Channels :
            job' = [job EXCEPT ![m][d].state = "waiting"]
      BY <2>1, CreatorKnows DEF Enqueue, CallerAt, Creating
    <3>2. TypeOK
      BY DEF IInv
    <3> QED  BY <3>1, <3>2, StateWritten
  <2>2. CASE ~Enqueue(q)
    <3>1. job' = job
      BY <1>2, <2>2 DEF CallerNext, Create, SaveRecipients, SaveDelivery, Finish,
         MarkRead, UpdateRead, CountUnread, PublishUnread, EmitUnread, Subscribe,
         CallerFault
    <3> QED  BY <3>1
  <2> QED  BY <2>1, <2>2
<1> QED  BY <1>1, <1>2 DEF Next

\* A notification that was created stays as it was dispatched.
LEMMA DispatchedStays ==
  ASSUME IInv, Next, NEW n \in Notes, Dispatched(note, job, n),
         note'[n].enabled = note[n].enabled
  PROVE  Dispatched(note', job', n)
<1>1. note[n].enabled \subseteq Channels
  BY DEF IInv, TypeOK, Note
<1> QED  BY <1>1, JobsRemain DEF Dispatched

LEMMA NextDispatch == IInv /\ DispatchInv /\ Next => DispatchInv'
<1> SUFFICES ASSUME IInv, DispatchInv, Next  PROVE DispatchInv'
  OBVIOUS
<1>1. \A n \in Notes : note[n].status = "queued" => Dispatched(note, job, n)
  BY DEF DispatchInv, QueuedMeansDispatched, Dispatched
<1>2. \A q \in Callers : CallerAt(q, "finish") =>
        /\ caller[q].note \in Notes /\ note[caller[q].note].status # "none"
        /\ Dispatched(note, job, caller[q].note)
  BY CreatorKnows DEF DispatchInv, FinishersDispatched, CallerAt, Creating
<1>3. ASSUME \A n \in Notes :
               /\ note'[n].status = "queued" =>
                    note[n].status = "queued"
                    \/ \E q \in Callers : CallerAt(q, "finish") /\ caller[q].note = n
               /\ note[n].status # "none" => note'[n].enabled = note[n].enabled,
             \A q \in Callers : CallerAt(q, "finish")' =>
               \/ CallerAt(q, "finish") /\ caller'[q].note = caller[q].note
               \/ Dispatched(note', job', caller'[q].note)
      PROVE  DispatchInv'
  <2>1. \A n \in Notes : note'[n].status = "queued" => Dispatched(note', job', n)
    BY <1>1, <1>2, <1>3, DispatchedStays
  <2>2. QueuedMeansDispatched'
    BY <2>1 DEF QueuedMeansDispatched, Dispatched
  <2>3. \A q \in Callers : CallerAt(q, "finish")' => Dispatched(note', job', caller'[q].note)
    <3> SUFFICES ASSUME NEW q \in Callers, CallerAt(q, "finish")'
                 PROVE  Dispatched(note', job', caller'[q].note)
      OBVIOUS
    <3>1. CASE CallerAt(q, "finish") /\ caller'[q].note = caller[q].note
      <4>1. PICK m \in Notes : m = caller[q].note
        BY <1>2, <3>1
      <4>2. note[m].status # "none" /\ Dispatched(note, job, m)
        BY <1>2, <3>1, <4>1
      <4>3. Dispatched(note', job', m)
        BY <1>3, <4>2, DispatchedStays
      <4> QED  BY <3>1, <4>1, <4>3
    <3> QED  BY <1>3, <3>1
  <2>4. FinishersDispatched'
    BY <2>3 DEF FinishersDispatched, Dispatched
  <2> QED  BY <2>2, <2>4 DEF DispatchInv
<1>4. ASSUME NEW w \in Workers, WorkerNext(w) \/ WorkerFault(w) \/ Stall(w)
      PROVE  DispatchInv'
  <2>1. note' = note /\ caller' = caller
    BY <1>4 DEF WorkerNext, Take, Find, ShowInList, MarkDelivered, Send, MarkSent,
       Refuse, Deactivate, MarkRefused, MarkFailed, CountInApp, SetUnread, Emit,
       Complete, Throw, WorkerFault, Stall, rows
  <2> QED  BY <1>3, <2>1 DEF CallerAt
<1>5. ASSUME NEW q \in Callers, CallerNext(q)
      PROVE  DispatchInv'
  <2>1. CASE \E n \in Notes : Create(q, n)
    <3>1. PICK n \in Notes : Create(q, n)
      BY <2>1
    <3>2. PICK x \in Note : note' = [note EXCEPT ![n] = x] /\ x.status = "pending"
      BY <3>1, Created
    <3>3. /\ note[n].status = "none"
          /\ caller' = [caller EXCEPT ![q] =
               [Idle EXCEPT !.op = "create", !.phase = "recipients", !.note = n]]
      BY <3>1 DEF Create
    <3>4. /\ \A p \in Callers \ {q} : caller'[p] = caller[p]
          /\ caller'[q].phase = "recipients"
      <4> DEFINE r == [Idle EXCEPT !.op = "create", !.phase = "recipients",
                                   !.note = n]
      <4>1. r.phase = "recipients"
        BY DEF Idle
      <4> HIDE DEF r
      <4> QED  BY <3>3, <4>1, CallerReplaced DEF IInv, r
    <3>5. \A m \in Notes : note'[m] = IF m = n THEN x ELSE note[m]
      BY <3>2 DEF IInv, TypeOK
    <3> QED  BY <1>3, <3>2, <3>3, <3>4, <3>5 DEF CallerAt
  <2>2. CASE SaveRecipients(q)
    <3>1. PICK n \in Notes : n = caller[q].note
      BY <2>2, CreatorKnows DEF SaveRecipients, CallerAt, Creating
    <3>2. NextChannel(q, n, {}) /\ note' = note
      BY <2>2, <3>1 DEF SaveRecipients
    <3>3. /\ \A p \in Callers \ {q} : caller'[p] = caller[p]
          /\ caller'[q].note = n
          /\ caller'[q].phase = "finish" => note[n].enabled \subseteq {}
      BY <3>1, <3>2, CallerDispatches DEF IInv
    <3>4. CallerAt(q, "finish")' => Dispatched(note', job', caller'[q].note)
      BY <3>2, <3>3 DEF CallerAt, Dispatched
    <3> QED  BY <1>3, <3>2, <3>3, <3>4 DEF CallerAt
  <2>3. CASE Enqueue(q)
    <3>1. PICK n \in Notes : n = caller[q].note
      BY <2>3, CreatorKnows DEF Enqueue, CallerAt, Creating
    <3> DEFINE done == {d \in Channels : job'[n][d].state # "none"}
    <3>2. NextChannel(q, n, done) /\ note' = note
      BY <2>3, <3>1 DEF Enqueue, rows
    <3>3. \A c \in done : job'[n][c].state # "none"
      OBVIOUS
    <3> HIDE DEF done
    <3>4. /\ \A p \in Callers \ {q} : caller'[p] = caller[p]
          /\ caller'[q].note = n
          /\ caller'[q].phase = "finish" => note[n].enabled \subseteq done
      BY <3>1, <3>2, CallerDispatches DEF IInv
    <3>5. CallerAt(q, "finish")' => Dispatched(note', job', caller'[q].note)
      BY <3>2, <3>3, <3>4 DEF CallerAt, Dispatched
    <3> QED  BY <1>3, <3>2, <3>4, <3>5 DEF CallerAt
  <2>4. CASE Finish(q)
    <3>1. PICK n \in Notes : n = caller[q].note
      BY <2>4, CreatorKnows DEF Finish, CallerAt, Creating
    <3>2. /\ CallerAt(q, "finish")
          /\ note' = [note EXCEPT ![n].status = "queued"]
          /\ caller' = [caller EXCEPT ![q] = Idle]
      BY <2>4, <3>1 DEF Finish
    <3>3. /\ \A m \in Notes \ {n} : note'[m] = note[m]
          /\ note'[n].enabled = note[n].enabled
      BY <3>2 DEF IInv, TypeOK, Note
    <3>4. /\ \A p \in Callers \ {q} : caller'[p] = caller[p]
          /\ caller'[q].phase = "idle"
      <4>1. Idle.phase = "idle"
        BY DEF Idle
      <4> QED  BY <3>2, <4>1, CallerReplaced DEF IInv
    <3> QED  BY <1>3, <3>1, <3>2, <3>3, <3>4 DEF CallerAt
  <2>5. CASE \/ SaveDelivery(q) \/ UpdateRead(q) \/ CountUnread(q)
             \/ PublishUnread(q) \/ EmitUnread(q) \/ Subscribe(q) \/ CallerFault(q)
             \/ \E op \in {"markRead", "markAllRead"}, ns \in SUBSET Notes :
                  MarkRead(q, op, ns)
    <3>1. note' = note
      BY <2>5 DEF SaveDelivery, UpdateRead, CountUnread, PublishUnread, EmitUnread,
         Subscribe, CallerFault, MarkRead, rows
    <3>2. PICK phase \in {"enqueue", "count", "setUnread", "emit", "update", "idle"} :
            /\ caller'[q].phase = phase
            /\ \A p \in Callers \ {q} : caller'[p] = caller[p]
      BY <2>5, PlainPhase DEF IInv
    <3> QED  BY <1>3, <3>1, <3>2 DEF CallerAt
  <2> QED  BY <1>5, <2>1, <2>2, <2>3, <2>4, <2>5 DEF CallerNext
<1> QED  BY <1>4, <1>5 DEF Next

-----------------------------------------------------------------------------
(* Without failed calls and late workers: every step                       *)

\* The steps that remain.
CalmWorker(w) ==
  \/ \E n \in Notes, c \in Channels : Take(w, n, c)
  \/ Find(w) \/ ShowInList(w) \/ MarkDelivered(w) \/ Send(w) \/ MarkSent(w)
  \/ Refuse(w) \/ Deactivate(w) \/ MarkRefused(w)
  \/ CountInApp(w) \/ SetUnread(w) \/ Emit(w) \/ Complete(w)

CalmCaller(q) == CallerNext(q) /\ ~CallerFault(q)

LEMMA CalmSteps ==
  ASSUME CalmInv, scenario # "failing", MCNext
  PROVE  /\ Calm /\ faults' = 0 /\ stalls' = 0
         /\ \/ \E w \in Workers : CalmWorker(w)
            \/ \E q \in Callers : CalmCaller(q)
<1>1. Calm
  BY DEF CalmInv
<1>2. bounds' = <<0, 0, address>>' \/ bounds' = <<0, 0, Channels>>'
  BY DEF MCNext, Within
<1>3. faults' = 0 /\ stalls' = 0
  BY <1>2 DEF bounds
<1>4. \A w \in Workers : ~WorkerFault(w) /\ ~Stall(w) /\ ~Throw(w) /\ ~MarkFailed(w)
  <2>1. 0 + 1 # 0
    OBVIOUS
  <2>2. faults = 0 /\ stalls = 0
    BY <1>1 DEF Calm
  <2> QED  BY <1>1, <1>3, <2>1, <2>2 DEF WorkerFault, Stall, Throw, MarkFailed, At,
         Calm, OnTime
<1>5. \A q \in Callers : ~CallerFault(q)
  <2>1. 0 + 1 # 0
    OBVIOUS
  <2>2. faults = 0
    BY <1>1 DEF Calm
  <2> QED  BY <1>3, <2>1, <2>2 DEF CallerFault
<1>6. Next
  BY DEF MCNext
<1> QED  BY <1>1, <1>3, <1>4, <1>5, <1>6 DEF Next, CalmWorker, CalmCaller,
         WorkerNext

\* Whoever else is about to try has another notification.
LEMMA OthersElsewhere ==
  ASSUME IInv, OnTime, NEW v \in Workers, NEW w \in Workers, v # w,
         worker[v].phase # "idle", worker[w].phase # "idle",
         MyChannel(v) = MyChannel(w)
  PROVE  MyNote(v) # MyNote(w)
BY DEF IInv, JobsFollow, OwnersAlone, OnTime

\* A worker goes on with its job.
LEMMA CalmGoesOn ==
  ASSUME IInv, Calm, NEW w \in Workers, NEW n \in Notes, NEW c \in Channels,
         n = MyNote(w), c = MyChannel(w),
         worker[w].phase # "idle", job' = job, faults' = 0, stalls' = 0,
         \A v \in Workers \ {w} : worker'[v] = worker[v],
         worker'[w].note = n, worker'[w].channel = c,
         worker'[w].owns = worker[w].owns,
         worker'[w].phase \notin {"failed", "throw", "find"},
         worker'[w].phase \in
           {"recipient", "delivered", "count", "setUnread", "emit"} =>
         c = "in_app",
         worker'[w].phase \in {"invalid", "refused"} => c = "push",
         worker'[w].phase = "recipient" => Untried(n)',
         \A m \in Notes : m # n \/ c # "in_app" => recipient'[m] = recipient[m],
         \A m \in Notes, d \in Channels :
           m # n \/ d # c => delivery'[m][d] = delivery[m][d],
         recipient'[n].readAt => recipient'[n].status = "read"
  PROVE  Calm'
<1>1. OnTime'
  BY DEF Calm, OnTime, MyChannel
<1>2. ReadStaysRead'
  BY DEF Calm, ReadStaysRead
<1>3. \A m \in Notes : m # n \/ c # "in_app" =>
        (Untried(m)' <=> Untried(m))
  BY DEF Untried, Channels
<1>4. worker[w].owns
  BY DEF Calm, OnTime
<1>5. FirstTries'
  <2>1. c = "in_app" => job[n]["in_app"].state = "active"
    <3>1. job[MyNote(w)][MyChannel(w)].state = "active"
      BY <1>4 DEF IInv, JobsFollow, WorkersHold
    <3> QED  BY <3>1
  <2>2. ASSUME NEW m \in Notes, job[m]["in_app"].state \in {"none", "waiting"}
        PROVE  Untried(m)'
    BY <1>3, <2>1, <2>2 DEF Calm, FirstTries
  <2>3. ASSUME NEW v \in Workers, worker'[v].channel = "in_app",
               worker'[v].phase \in {"find", "recipient"}
        PROVE  \E m \in Notes : m = worker'[v].note /\ Untried(m)'
    <3>1. CASE v = w
      BY <2>3, <3>1
    <3>2. CASE v # w
      <4>1. worker'[v] = worker[v]
        BY <3>2
      <4>2. /\ worker[v].phase \in {"find", "recipient"}
            /\ MyChannel(v) = "in_app"
        BY <2>3, <4>1 DEF MyChannel
      <4>3. PICK m \in Notes : m = MyNote(v)
        BY <4>2, Held DEF IInv, JobsFollow
      <4>4. m # n \/ c # "in_app"
        BY <3>2, <4>2, <4>3, OthersElsewhere DEF Calm
      <4>5. Untried(m)
        BY <4>2, <4>3 DEF Calm, FirstTries
      <4> QED  BY <1>3, <4>1, <4>3, <4>4, <4>5 DEF MyNote
    <3> QED  BY <3>1, <3>2
  <2>4. \A v \in Workers :
          worker'[v].channel = "in_app"
          /\ worker'[v].phase \in {"find", "recipient"} =>
             /\ recipient'[worker'[v].note].status \in {"none", "pending"}
             /\ delivery'[worker'[v].note]["in_app"] # "sent"
    BY <2>3 DEF Untried
  <2> QED  BY <2>2, <2>4 DEF FirstTries, MyChannel, MyNote, Untried
<1> QED  BY <1>1, <1>2, <1>5 DEF Calm

LEMMA CalmWorkerStep ==
  ASSUME IInv, Calm, NEW w \in Workers, CalmWorker(w), faults' = 0, stalls' = 0
  PROVE  Calm'
<1>1. CASE \E n \in Notes, c \in Channels : Take(w, n, c)
  <2>1. PICK n \in Notes, c \in Channels : Take(w, n, c)
    BY <1>1
  <2> DEFINE x == [phase |-> "find", note |-> n, channel |-> c, owns |-> TRUE,
                   count |-> 0]
  <2>2. /\ job[n][c].state = "waiting"
        /\ job' = [job EXCEPT ![n][c].state = "active"]
        /\ worker' = [worker EXCEPT ![w] = x]
        /\ UNCHANGED <<recipient, delivery>>
    BY <2>1 DEF Take, rows
  <2>3. /\ x.phase = "find" /\ x.note = n /\ x.channel = c /\ x.owns
    OBVIOUS
  <2> HIDE DEF x
  <2>4. worker'[w] = x /\ \A v \in Workers \ {w} : worker'[v] = worker[v]
    BY <2>2, WorkerReplaced DEF IInv
  <2>5. /\ job'[n][c].state = "active"
        /\ \A m \in Notes, d \in Channels : m # n \/ d # c => job'[m][d] = job[m][d]
    BY <2>2, StateWritten DEF IInv
  <2>6. OnTime'
    BY <2>3, <2>4 DEF Calm, OnTime, MyChannel
  <2>7. FirstTries'
    <3>1. \A m \in Notes :
            job'[m]["in_app"].state \in {"none", "waiting"} =>
              job[m]["in_app"].state \in {"none", "waiting"}
      BY <2>5 DEF Channels
    <3>2. c = "in_app" => Untried(n)
      BY <2>2 DEF Calm, FirstTries
    <3>3. \A v \in Workers :
            worker'[v].channel = "in_app"
            /\ worker'[v].phase \in {"find", "recipient"} =>
               Untried(worker'[v].note)
      BY <2>3, <2>4, <3>2 DEF Calm, FirstTries, MyChannel, MyNote
    <3> QED  BY <2>2, <3>1, <3>3 DEF Calm, FirstTries, MyChannel, MyNote, Untried
  <2> QED  BY <2>2, <2>6, <2>7 DEF Calm, ReadStaysRead
<1>2. CASE Complete(w)
  <2>1. /\ worker' = [worker EXCEPT ![w] = Free] /\ worker[w].phase = "complete"
        /\ UNCHANGED <<recipient, delivery>>
    BY <1>2 DEF Complete, At, rows
  <2>2. worker'[w] = Free /\ \A v \in Workers \ {w} : worker'[v] = worker[v]
    BY <2>1, WorkerReplaced DEF IInv
  <2>3. Free.phase = "idle" /\ ~Free.owns
    BY DEF Free
  <2>4. PICK n \in Notes, c \in Channels : n = MyNote(w) /\ c = MyChannel(w)
    BY <2>1, Held DEF IInv, JobsFollow
  <2>5. \A m \in Notes, d \in Channels :
          job'[m][d].state \in {"none", "waiting"} => job'[m][d] = job[m][d]
    <3> DEFINE i == [job[n][c] EXCEPT !.state = "completed"]
    <3>1. i.state = "completed"
      BY Numbers DEF IInv, Job
    <3>2. job' = job \/ job' = [job EXCEPT ![n][c] = i]
      BY <1>2, <2>4 DEF Complete
    <3> HIDE DEF i
    <3> QED  BY <3>1, <3>2, JobReplaced DEF IInv
  <2>6. OnTime'
    BY <2>2, <2>3 DEF Calm, OnTime, MyChannel
  <2>7. FirstTries'
    <3>1. \A v \in Workers :
            worker'[v].channel = "in_app"
            /\ worker'[v].phase \in {"find", "recipient"} =>
               Untried(worker'[v].note)
      BY <2>2, <2>3 DEF Calm, FirstTries, MyChannel, MyNote
    <3> QED  BY <2>1, <2>5, <3>1 DEF Calm, FirstTries, MyChannel, MyNote, Untried,
           Channels
  <2> QED  BY <2>1, <2>6, <2>7 DEF Calm, ReadStaysRead
<1>3. CASE CountInApp(w) \/ Emit(w)
  <2>1. PICK phase, k :
          /\ phase \in {"setUnread", "complete"}
          /\ worker' = [worker EXCEPT ![w].phase = phase, ![w].count = k]
          /\ phase = "setUnread" => worker[w].phase = "count"
    BY <1>3 DEF CountInApp, Emit, At
  <2>2. /\ \A v \in Workers \ {w} : worker'[v] = worker[v]
        /\ worker'[w].phase = phase
        /\ worker'[w].note = MyNote(w) /\ worker'[w].channel = MyChannel(w)
        /\ worker'[w].owns = worker[w].owns
    BY <2>1, WorkerCounted DEF IInv
  <2>3. worker[w].phase \in {"count", "emit"}
        /\ UNCHANGED <<recipient, delivery, job>>
    BY <1>3 DEF CountInApp, Emit, At, rows
  <2>4. PICK n \in Notes, c \in Channels : n = MyNote(w) /\ c = MyChannel(w)
    BY <2>3, Held DEF IInv, JobsFollow
  <2>5. c = "in_app"
    BY <2>3, <2>4 DEF Calm, OnTime
  <2>6. recipient[n].readAt => recipient[n].status = "read"
    BY DEF Calm, ReadStaysRead
  <2>7. /\ worker[w].phase # "idle"
        /\ worker'[w].phase \notin {"failed", "throw", "find", "recipient",
                                    "invalid", "refused"}
    BY <2>1, <2>2, <2>3
  <2> QED  BY <1>1, <2>2, <2>3, <2>4, <2>5, <2>6, <2>7, CalmGoesOn
<1>4. CASE \/ Find(w) \/ ShowInList(w) \/ MarkDelivered(w) \/ Send(w)
           \/ MarkSent(w) \/ SetUnread(w)
           \/ Refuse(w) \/ Deactivate(w) \/ MarkRefused(w)
  <2>1. worker[w].phase # "idle" /\ job' = job
    BY <1>4 DEF Find, ShowInList, MarkDelivered, Send, MarkSent, Refuse,
       Deactivate, MarkRefused, SetUnread, At, rows
  <2>2. PICK n \in Notes, c \in Channels : n = MyNote(w) /\ c = MyChannel(w)
    BY <2>1, Held DEF IInv, JobsFollow
  <2>3. c \in {"email", "push", "in_app"}
    BY DEF Channels
  <2>4. PICK phase :
          /\ Goes(w, phase)
          /\ phase \notin {"failed", "throw", "find"}
          /\ phase \in {"recipient", "delivered", "count", "setUnread", "emit"} =>
               c = "in_app"
          /\ phase \in {"invalid", "refused"} => c = "push"
          /\ phase = "recipient" =>
               worker[w].phase = "find" /\ UNCHANGED <<recipient, delivery>>
    BY <1>4, <2>2, <2>3 DEF Find, ShowInList, MarkDelivered, Send, MarkSent,
       Refuse, Deactivate, MarkRefused, SetUnread, At, Calm, OnTime
  <2>5. /\ \A v \in Workers \ {w} : worker'[v] = worker[v]
        /\ worker'[w].phase = phase
        /\ worker'[w].note = n /\ worker'[w].channel = c
        /\ worker'[w].owns = worker[w].owns
    BY <2>2, <2>4, WorkerMoved DEF IInv
  <2>6. \A m \in Notes, d \in Channels :
          m # n \/ d # c => delivery'[m][d] = delivery[m][d]
    <3>1. \/ delivery' = delivery
          \/ \E status : delivery' = [delivery EXCEPT ![n][c] = status]
      BY <1>4, <2>2 DEF Find, ShowInList, MarkDelivered, Send, MarkSent, Refuse,
         Deactivate, MarkRefused, SetUnread, Mark, rows
    <3> QED  BY <3>1, DeliveryWritten DEF IInv
  <2>7. /\ \A m \in Notes : m # n \/ c # "in_app" => recipient'[m] = recipient[m]
        /\ recipient'[n].readAt => recipient'[n].status = "read"
    <3>1. CASE ShowInList(w)
      <4>1. /\ worker[w].phase = "recipient"
            /\ recipient' = [recipient EXCEPT ![n].status = "delivered"]
        BY <2>2, <3>1 DEF ShowInList, At
      <4>2. c = "in_app"
        BY <2>2, <4>1 DEF Calm, OnTime
      <4>3. recipient[n].status \in {"none", "pending"}
        BY <2>2, <4>1, <4>2 DEF Calm, FirstTries, Untried
      <4>4. ~recipient[n].readAt
        BY <4>3 DEF Calm, ReadStaysRead
      <4> QED  BY <4>1, <4>2, <4>4, RecipientWritten DEF IInv
    <3>2. CASE ~ShowInList(w)
      <4>1. recipient' = recipient
        BY <1>4, <3>2 DEF Find, MarkDelivered, Send, MarkSent, Refuse,
           Deactivate, MarkRefused, SetUnread, rows
      <4> QED  BY <4>1 DEF Calm, ReadStaysRead
    <3> QED  BY <3>1, <3>2
  <2>8. phase = "recipient" => Untried(n)'
    <3> SUFFICES ASSUME phase = "recipient"  PROVE Untried(n)'
      OBVIOUS
    <3>1. Untried(n)
      BY <2>2, <2>4 DEF Calm, FirstTries
    <3> QED  BY <2>4, <3>1 DEF Untried
  <2> QED  BY <2>1, <2>2, <2>4, <2>5, <2>6, <2>7, <2>8, CalmGoesOn
<1> QED  BY <1>1, <1>2, <1>3, <1>4 DEF CalmWorker

\* Requests write rows whose jobs are not taken, or mark as read.
LEMMA CalmRequest ==
  ASSUME IInv, Calm, worker' = worker, faults' = 0, stalls' = 0,
         \A n \in Notes :
           /\ recipient[n].status \in {"none", "pending"} =>
                recipient'[n].status \in {"none", "pending"}
           /\ delivery[n]["in_app"] # "sent" => delivery'[n]["in_app"] # "sent"
           /\ job'[n]["in_app"].state \in {"none", "waiting"} =>
                job[n]["in_app"].state \in {"none", "waiting"}
           /\ recipient'[n].readAt => recipient'[n].status = "read"
  PROVE  Calm'
<1>1. OnTime' /\ ReadStaysRead'
  BY DEF Calm, OnTime, ReadStaysRead, MyChannel
<1>2. \A n \in Notes : Untried(n) => Untried(n)'
  BY DEF Untried
<1>3. FirstTries'
  <2>1. \A n \in Notes :
          job'[n]["in_app"].state \in {"none", "waiting"} => Untried(n)'
    BY <1>2 DEF Calm, FirstTries
  <2>2. ASSUME NEW v \in Workers, MyChannel(v) = "in_app",
               worker[v].phase \in {"find", "recipient"}
        PROVE  /\ recipient'[MyNote(v)].status \in {"none", "pending"}
               /\ delivery'[MyNote(v)]["in_app"] # "sent"
    <3>1. PICK m \in Notes : m = MyNote(v)
      BY <2>2, Held DEF IInv, JobsFollow
    <3>2. Untried(m)
      BY <2>2, <3>1 DEF Calm, FirstTries
    <3> QED  BY <1>2, <3>1, <3>2 DEF Untried
  <2> QED  BY <2>1, <2>2 DEF FirstTries, MyChannel, MyNote, Untried
<1> QED  BY <1>1, <1>3 DEF Calm

LEMMA CalmCallerStep ==
  ASSUME IInv, Calm, NEW q \in Callers, CalmCaller(q), faults' = 0, stalls' = 0
  PROVE  Calm'
<1>1. \A n \in Notes : recipient[n].readAt => recipient[n].status = "read"
  BY DEF Calm, ReadStaysRead
<1>2. CASE SaveRecipients(q)
  <2>1. PICK n \in Notes : n = caller[q].note
    BY <1>2, CreatorKnows DEF SaveRecipients, CallerAt, Creating
  <2>2. /\ recipient' = [recipient EXCEPT ![n].status = "pending"]
        /\ UNCHANGED <<worker, job, delivery>>
    BY <1>2, <2>1 DEF SaveRecipients
  <2>3. recipient[n].status = "none"
    BY <1>2, <2>1 DEF SaveRecipients, CallerAt, IInv, RowsFollow, Creators, Creating
  <2>4. /\ recipient'[n].status = "pending"
        /\ recipient'[n].readAt = recipient[n].readAt
        /\ \A m \in Notes \ {n} : recipient'[m] = recipient[m]
    BY <2>2, RecipientWritten DEF IInv
  <2> QED  BY <1>1, <2>2, <2>3, <2>4, CalmRequest
<1>3. CASE SaveDelivery(q)
  <2>1. PICK n \in Notes, c \in Channels :
          n = caller[q].note /\ c = caller[q].channel
    BY <1>3, CreatorKnows DEF SaveDelivery, CallerAt, Creating
  <2>2. /\ delivery' = [delivery EXCEPT ![n][c] = "queued"]
        /\ UNCHANGED <<worker, job, recipient>>
    BY <1>3, <2>1 DEF SaveDelivery
  <2>3. /\ delivery'[n][c] = "queued"
        /\ \A m \in Notes, d \in Channels :
             m # n \/ d # c => delivery'[m][d] = delivery[m][d]
    BY <2>2 DEF IInv, TypeOK
  <2>4. \A m \in Notes : delivery'[m]["in_app"] # "sent"
                         \/ delivery'[m]["in_app"] = delivery[m]["in_app"]
    BY <2>3 DEF Channels
  <2>5. \A m \in Notes : delivery[m]["in_app"] # "sent" =>
                         delivery'[m]["in_app"] # "sent"
    BY <2>4
  <2> QED  BY <1>1, <2>2, <2>5, CalmRequest
<1>4. CASE Enqueue(q)
  <2>1. PICK n \in Notes, c \in Channels :
          n = caller[q].note /\ c = caller[q].channel
    BY <1>4, CreatorKnows DEF Enqueue, CallerAt, Creating
  <2>2. /\ job' = [job EXCEPT ![n][c].state = "waiting"]
        /\ UNCHANGED <<worker, delivery, recipient>>
    BY <1>4, <2>1 DEF Enqueue, rows
  <2>3. job[n][c].state = "none"
    BY <1>4, <2>1 DEF Enqueue, CallerAt, IInv, RowsFollow, Creators, Creating
  <2>4. \A m \in Notes, d \in Channels : m # n \/ d # c => job'[m][d] = job[m][d]
    BY <2>2, StateWritten DEF IInv
  <2> QED  BY <1>1, <2>2, <2>3, <2>4, CalmRequest DEF Channels
<1>5. CASE UpdateRead(q)
  <2>1. /\ recipient' = [n \in Notes |->
             IF n \in caller[q].found THEN [status |-> "read", readAt |-> TRUE]
             ELSE recipient[n]]
        /\ UNCHANGED <<worker, delivery, job>>
    BY <1>5 DEF UpdateRead
  <2>2. \A n \in caller[q].found : recipient[n].status \in {"delivered", "read"}
    BY DEF IInv, RowsFollow, FoundVisible, Visible
  <2> QED  BY <1>1, <2>1, <2>2, CalmRequest
<1>6. CASE \/ \E n \in Notes : Create(q, n)
           \/ Finish(q) \/ CountUnread(q) \/ PublishUnread(q) \/ EmitUnread(q)
           \/ Subscribe(q)
           \/ \E op \in {"markRead", "markAllRead"}, ns \in SUBSET Notes :
                MarkRead(q, op, ns)
  <2>1. UNCHANGED <<worker, delivery, job, recipient>>
    BY <1>6 DEF Create, Finish, CountUnread, PublishUnread, EmitUnread, Subscribe,
       MarkRead, rows
  <2> QED  BY <1>1, <2>1, CalmRequest
<1> QED  BY <1>2, <1>3, <1>4, <1>5, <1>6 DEF CalmCaller, CallerNext

LEMMA NextCalm == IInv /\ CalmInv /\ MCNext => CalmInv'
<1> SUFFICES ASSUME IInv, CalmInv, MCNext, scenario' # "failing"
             PROVE  Calm'
  BY DEF CalmInv
<1>1. scenario # "failing"
  BY DEF MCNext
<1> QED  BY <1>1, CalmSteps, CalmWorkerStep, CalmCallerStep

-----------------------------------------------------------------------------
(* In turns: who has the turn                                              *)

LEMMA OneOf ==
  ASSUME NEW A \in SUBSET Callers, NEW B \in SUBSET Workers,
         Cardinality(A \union B) <= 1,
         NEW a \in A \union B, NEW b \in A \union B
  PROVE  a = b
<1> DEFINE S == A \union B
<1>1. IsFiniteSet(S)
  <2>1. IsFiniteSet(A) /\ IsFiniteSet(B)
    BY FS_Subset, DeliveryConstants
  <2> QED  BY <2>1, FS_Union
<1>2. Cardinality(S) \in Nat /\ Cardinality(S) <= 1 /\ a \in S /\ b \in S
  BY <1>1, FS_CardinalityType
<1> HIDE DEF S
<1>3. IsFiniteSet(S \ {a}) /\ Cardinality(S \ {a}) = Cardinality(S) - 1
  BY <1>1, <1>2, FS_RemoveElement
<1>4. Cardinality(S \ {a}) \in Nat
  BY <1>3, FS_CardinalityType
<1>5. Cardinality(S \ {a}) = 0
  BY <1>2, <1>3, <1>4
<1>6. S \ {a} = {}
  BY <1>3, <1>5, FS_EmptySet
<1> QED  BY <1>2, <1>6

BusyWorkers == {w \in Workers : worker[w] # Free}
BusyCallers == {q \in Callers : caller[q] # Idle}

\* While a worker takes its step nothing else is under way.
LEMMA WorkerAlone ==
  ASSUME NEW w \in Workers,
         worker[w].phase # "idle" \/ worker'[w].phase # "idle",
         \A v \in Workers \ {w} : worker'[v] = worker[v], caller' = caller,
         Cardinality(Busy) <= 1, Cardinality(Busy') <= 1
  PROVE  /\ \A v \in Workers \ {w} : worker[v].phase = "idle"
         /\ \A q \in Callers : caller[q].phase = "idle"
<1>1. Free.phase = "idle" /\ Idle.phase = "idle"
  BY DEF Free, Idle
<1>2. /\ Busy = BusyCallers \union BusyWorkers
      /\ Busy' = BusyCallers' \union BusyWorkers'
  BY DEF Busy, BusyCallers, BusyWorkers
<1>3. /\ BusyCallers \in SUBSET Callers /\ BusyCallers' \in SUBSET Callers
      /\ BusyWorkers \in SUBSET Workers /\ BusyWorkers' \in SUBSET Workers
  BY DEF BusyCallers, BusyWorkers
<1>6. /\ Cardinality(BusyCallers \union BusyWorkers) <= 1
      /\ Cardinality(BusyCallers' \union BusyWorkers') <= 1
  BY <1>2
<1>4. ASSUME NEW a \in Workers \union Callers, a # w,
             \/ a \in Workers /\ worker[a].phase # "idle"
             \/ a \in Callers /\ caller[a].phase # "idle"
      PROVE  FALSE
  <2>1. /\ a \in BusyCallers \union BusyWorkers
        /\ a \in BusyCallers' \union BusyWorkers'
    BY <1>1, <1>4 DEF BusyCallers, BusyWorkers
  <2>2. w \in BusyWorkers \/ w \in BusyWorkers'
    BY <1>1 DEF BusyWorkers
  <2>3. CASE w \in BusyWorkers
    <3> DEFINE A == BusyCallers
               B == BusyWorkers
    <3>0. /\ A \in SUBSET Callers /\ B \in SUBSET Workers
          /\ Cardinality(A \union B) <= 1 /\ a \in A \union B /\ w \in A \union B
      BY <1>3, <1>6, <2>1, <2>3
    <3> HIDE DEF A, B
    <3>1. \A x, y \in A \union B : x = y
      BY <3>0, OneOf
    <3>2. a = w
      BY <3>0, <3>1
    <3> QED  BY <1>4, <3>2
  <2>4. CASE w \in BusyWorkers'
    <3> DEFINE A == BusyCallers'
               B == BusyWorkers'
    <3>0. /\ A \in SUBSET Callers /\ B \in SUBSET Workers
          /\ Cardinality(A \union B) <= 1 /\ a \in A \union B /\ w \in A \union B
      BY <1>3, <1>6, <2>1, <2>4
    <3> HIDE DEF A, B
    <3>1. \A x, y \in A \union B : x = y
      BY <3>0, OneOf
    <3>2. a = w
      BY <3>0, <3>1
    <3> QED  BY <1>4, <3>2
  <2> QED  BY <2>2, <2>3, <2>4
<1>5. w \notin Callers
  BY DeliveryConstants
<1> QED  BY <1>4, <1>5

\* The same of a request.
LEMMA CallerAlone ==
  ASSUME NEW q \in Callers,
         caller[q].phase # "idle" \/ caller'[q].phase # "idle",
         \A p \in Callers \ {q} : caller'[p] = caller[p], worker' = worker,
         Cardinality(Busy) <= 1, Cardinality(Busy') <= 1
  PROVE  /\ \A p \in Callers \ {q} : caller[p].phase = "idle"
         /\ \A w \in Workers : worker[w].phase = "idle"
<1>1. Free.phase = "idle" /\ Idle.phase = "idle"
  BY DEF Free, Idle
<1>2. /\ Busy = BusyCallers \union BusyWorkers
      /\ Busy' = BusyCallers' \union BusyWorkers'
  BY DEF Busy, BusyCallers, BusyWorkers
<1>3. /\ BusyCallers \in SUBSET Callers /\ BusyCallers' \in SUBSET Callers
      /\ BusyWorkers \in SUBSET Workers /\ BusyWorkers' \in SUBSET Workers
  BY DEF BusyCallers, BusyWorkers
<1>6. /\ Cardinality(BusyCallers \union BusyWorkers) <= 1
      /\ Cardinality(BusyCallers' \union BusyWorkers') <= 1
  BY <1>2
<1>4. ASSUME NEW a \in Workers \union Callers, a # q,
             \/ a \in Workers /\ worker[a].phase # "idle"
             \/ a \in Callers /\ caller[a].phase # "idle"
      PROVE  FALSE
  <2>1. /\ a \in BusyCallers \union BusyWorkers
        /\ a \in BusyCallers' \union BusyWorkers'
    BY <1>1, <1>4 DEF BusyCallers, BusyWorkers
  <2>2. q \in BusyCallers \/ q \in BusyCallers'
    BY <1>1 DEF BusyCallers
  <2>3. CASE q \in BusyCallers
    <3> DEFINE A == BusyCallers
               B == BusyWorkers
    <3>0. /\ A \in SUBSET Callers /\ B \in SUBSET Workers
          /\ Cardinality(A \union B) <= 1 /\ a \in A \union B /\ q \in A \union B
      BY <1>3, <1>6, <2>1, <2>3
    <3> HIDE DEF A, B
    <3>1. \A x, y \in A \union B : x = y
      BY <3>0, OneOf
    <3>2. a = q
      BY <3>0, <3>1
    <3> QED  BY <1>4, <3>2
  <2>4. CASE q \in BusyCallers'
    <3> DEFINE A == BusyCallers'
               B == BusyWorkers'
    <3>0. /\ A \in SUBSET Callers /\ B \in SUBSET Workers
          /\ Cardinality(A \union B) <= 1 /\ a \in A \union B /\ q \in A \union B
      BY <1>3, <1>6, <2>1, <2>4
    <3> HIDE DEF A, B
    <3>1. \A x, y \in A \union B : x = y
      BY <3>0, OneOf
    <3>2. a = q
      BY <3>0, <3>1
    <3> QED  BY <1>4, <3>2
  <2> QED  BY <2>2, <2>3, <2>4
<1>5. q \notin Workers
  BY DeliveryConstants
<1> QED  BY <1>4, <1>5

-----------------------------------------------------------------------------
(* In turns: what a step must do                                           *)

\* The list shows the same unread notifications.
LEMMA UnreadSame ==
  ASSUME \A n \in Notes : /\ Visible(n)' <=> Visible(n)
                          /\ recipient'[n].readAt <=> recipient[n].readAt
  PROVE  Unread' = Unread
BY DEF Unread

LEMMA UnreadFrame ==
  ASSUME UNCHANGED <<note, recipient>>
  PROVE  Unread' = Unread
BY DEF Unread, Visible

\* Jobs of the list that waited still do.
LEMMA LateStays ==
  ASSUME \A n \in Notes : job[n]["in_app"].state = "waiting" =>
                          job'[n]["in_app"].state = "waiting"
  PROVE  Late => Late'
BY DEF Late

\* The notification a worker is about to put into the list.
OnItsWay(n, w) ==
  /\ worker[w].phase \in {"find", "recipient"}
  /\ MyNote(w) = n /\ MyChannel(w) = "in_app"

LEMMA WorkerKeepsTurn ==
  ASSUME Turn, NEW w \in Workers, caller' = caller, note' = note,
         \A v \in Workers \ {w} :
           worker'[v] = worker[v] /\ worker[v].phase = "idle",
         \A q \in Callers : caller[q].phase = "idle",
         \A n \in Notes : recipient'[n].status = "pending" =>
           /\ recipient[n].status = "pending"
           /\ job[n]["in_app"].state = "waiting" =>
                job'[n]["in_app"].state = "waiting" \/ OnItsWay(n, w)'
           /\ OnItsWay(n, w) => OnItsWay(n, w)',
         worker'[w].phase # "idle" => WorkerTurn(w)',
         worker'[w].phase = "idle" => Settled'
  PROVE  Turn'
<1>1. PendingWaits'
  <2> SUFFICES ASSUME NEW n \in Notes, "in_app" \in note[n].channels,
                      recipient'[n].status = "pending"
               PROVE  job'[n]["in_app"].state = "waiting" \/ OnItsWay(n, w)'
    BY DEF PendingWaits, OnItsWay, MyNote, MyChannel
  <2>1. recipient[n].status = "pending"
    OBVIOUS
  <2>2. job[n]["in_app"].state = "waiting" \/ OnItsWay(n, w)
    BY <2>1 DEF Turn, PendingWaits, OnItsWay, Creating
  <2> QED  BY <2>2
<1>2. Quiet' => Settled'
  BY DEF Quiet, At
<1>3. \A v \in Workers : worker'[v].phase # "idle" => v = w
  OBVIOUS
<1>4. \A v \in Workers : worker'[v].phase # "idle" => WorkerTurn(v)'
  BY <1>3
<1>5. \A q \in Callers : caller'[q].phase = "idle"
  OBVIOUS
<1> QED  BY <1>1, <1>2, <1>4, <1>5 DEF Turn

LEMMA CallerKeepsTurn ==
  ASSUME NEW q \in Callers, worker' = worker,
         \A p \in Callers \ {q} :
           caller'[p] = caller[p] /\ caller[p].phase = "idle",
         \A w \in Workers : worker[w].phase = "idle",
         \A n \in Notes :
           "in_app" \in note'[n].channels /\ recipient'[n].status = "pending" =>
             \/ job'[n]["in_app"].state = "waiting"
             \/ /\ job'[n]["in_app"].state = "none"
                /\ Creating(q)' /\ caller'[q].note = n,
         caller'[q].phase # "idle" => CallerTurn(q)',
         caller'[q].phase = "idle" => Settled'
  PROVE  Turn'
<1>1. PendingWaits'
  BY DEF PendingWaits
<1>2. Quiet' => Settled'
  BY DEF Quiet, CallerAt
<1>3. \A p \in Callers : caller'[p].phase # "idle" => p = q
  OBVIOUS
<1>4. \A p \in Callers : caller'[p].phase # "idle" => CallerTurn(p)'
  BY <1>3
<1>5. \A w \in Workers : worker'[w].phase = "idle"
  OBVIOUS
<1> QED  BY <1>1, <1>2, <1>4, <1>5 DEF Turn

\* While a request has its turn, what is pending waits or is its own.
LEMMA PendingOf ==
  ASSUME Turn, NEW q \in Callers,
         \A p \in Callers \ {q} : caller[p].phase = "idle",
         \A w \in Workers : worker[w].phase = "idle",
         NEW n \in Notes, "in_app" \in note[n].channels,
         recipient[n].status = "pending"
  PROVE  \/ job[n]["in_app"].state = "waiting"
         \/ /\ job[n]["in_app"].state = "none"
            /\ Creating(q) /\ caller[q].note = n
BY DEF Turn, PendingWaits, Creating

-----------------------------------------------------------------------------
(* In turns: the steps of workers                                          *)

\* A worker alone, in turns.
WorkerHasTurn(w) ==
  /\ \A v \in Workers \ {w} : worker'[v] = worker[v] /\ worker[v].phase = "idle"
  /\ \A q \in Callers : caller[q].phase = "idle"

LEMMA TakeTurn ==
  ASSUME IInv, Turn, NEW w \in Workers, NEW n \in Notes, NEW c \in Channels,
         Take(w, n, c), WorkerHasTurn(w)
  PROVE  Turn'
<1> DEFINE x == [phase |-> "find", note |-> n, channel |-> c, owns |-> TRUE,
                 count |-> 0]
<1>1. /\ worker[w] = Free
      /\ job' = [job EXCEPT ![n][c].state = "active"]
      /\ worker' = [worker EXCEPT ![w] = x]
      /\ UNCHANGED <<note, recipient, unread, badge, caller>>
  BY DEF Take, rows, numbers
<1>2. x.phase = "find" /\ x.note = n /\ x.channel = c /\ Free.phase = "idle"
  BY DEF Free
<1> HIDE DEF x
<1>3. worker'[w] = x
  BY <1>1, WorkerReplaced DEF IInv
<1>4. \A m \in Notes, d \in Channels : m # n \/ d # c => job'[m][d] = job[m][d]
  BY <1>1, StateWritten DEF IInv
<1>5. Settled
  BY <1>1, <1>2 DEF Turn, Quiet, At, CallerAt, WorkerHasTurn
<1>6. c # "in_app" => (Late => Late')
  BY <1>4, LateStays DEF Channels
<1>7. Unread' = Unread
  BY <1>1, UnreadFrame
<1>8. WorkerTurn(w)'
  BY <1>1, <1>2, <1>3, <1>5, <1>6, <1>7
     DEF WorkerTurn, MyChannel, At, Settled, Settles
<1>9. \A m \in Notes :
        /\ job[m]["in_app"].state = "waiting" =>
             job'[m]["in_app"].state = "waiting" \/ OnItsWay(m, w)'
        /\ ~OnItsWay(m, w)
  BY <1>1, <1>2, <1>3, <1>4 DEF OnItsWay, MyNote, MyChannel, Channels
<1> QED  BY <1>1, <1>2, <1>3, <1>8, <1>9, WorkerKeepsTurn DEF WorkerHasTurn

\* The steps to the provider and to the delivery leave the list and the number
\* alone.
LEMMA GoOnTurn ==
  ASSUME IInv, Turn, Calm, Given, NEW w \in Workers, WorkerHasTurn(w),
         \/ Find(w) \/ MarkDelivered(w) \/ Send(w) \/ MarkSent(w)
         \/ Refuse(w) \/ Deactivate(w) \/ MarkRefused(w)
  PROVE  Turn'
<1>1. /\ worker[w].phase \in {"find", "delivered", "send", "sent", "invalid",
                             "refused"}
      /\ UNCHANGED <<note, recipient, job, unread, badge, caller>>
  BY DEF Find, MarkDelivered, Send, MarkSent, Refuse, Deactivate, MarkRefused,
     At, rows, numbers
<1>2. PICK n \in Notes, c \in Channels : n = MyNote(w) /\ c = MyChannel(w)
  BY <1>1, Held DEF IInv, JobsFollow
<1>3. PICK phase \in {"complete", "recipient", "send", "sent", "invalid",
                     "refused", "count"} :
        /\ Goes(w, phase)
        /\ phase = "complete" => c # "in_app"
        /\ worker[w].phase = "find" /\ c = "in_app" => phase = "recipient"
  <2>1. CASE Find(w) /\ c = "in_app"
    <3>1. delivery[n]["in_app"] # "sent"
      BY <1>2, <2>1 DEF Find, At, Calm, FirstTries, Untried
    <3>2. Goes(w, "recipient")
      BY <1>2, <2>1, <3>1 DEF Find, Proceeds, Given
    <3> QED  BY <2>1, <3>2
  <2>2. CASE Find(w) /\ c # "in_app"
    <3>1. Goes(w, "complete") \/ Goes(w, "send")
      BY <1>2, <2>2 DEF Find
    <3> QED  BY <2>2, <3>1
  <2>3. CASE MarkDelivered(w) \/ Send(w)
    BY <2>3 DEF MarkDelivered, Send, At
  <2>4. CASE MarkSent(w)
    BY <1>2, <2>4 DEF MarkSent, At
  <2>5. CASE Refuse(w) \/ Deactivate(w) \/ MarkRefused(w)
    BY <1>2, <2>5 DEF Refuse, Deactivate, MarkRefused, At, Calm, OnTime
  <2> QED  BY <2>1, <2>2, <2>3, <2>4, <2>5
<1>4. worker'[w].phase = phase /\ worker'[w].note = n /\ worker'[w].channel = c
  BY <1>2, <1>3, WorkerMoved DEF IInv
<1>5. WorkerTurn(w)
  BY <1>1 DEF Turn
<1>6. Unread' = Unread /\ (Late => Late')
  BY <1>1, UnreadFrame, LateStays
<1>7. WorkerTurn(w)'
  <2>1. unread = badge
    BY <1>1, <1>5 DEF WorkerTurn
  <2>2. c # "in_app" => Settles(unread)
    BY <1>1, <1>2, <1>5 DEF WorkerTurn
  <2> QED  BY <1>1, <1>3, <1>4, <1>6, <2>1, <2>2
           DEF WorkerTurn, MyChannel, At, Settles
<1>8. \A m \in Notes : OnItsWay(m, w) => OnItsWay(m, w)'
  BY <1>1, <1>2, <1>3, <1>4 DEF OnItsWay, MyNote, MyChannel
<1>9. worker'[w].phase # "idle"
  BY <1>3, <1>4
<1> QED  BY <1>1, <1>7, <1>8, <1>9, WorkerKeepsTurn DEF WorkerHasTurn

LEMMA ShowInListTurn ==
  ASSUME IInv, Turn, Calm, NEW w \in Workers, ShowInList(w), WorkerHasTurn(w)
  PROVE  Turn'
<1>1. /\ worker[w].phase = "recipient" /\ Goes(w, "delivered")
      /\ UNCHANGED <<note, job, unread, badge, caller>>
  BY DEF ShowInList, At, numbers
<1>2. PICK n \in Notes, c \in Channels : n = MyNote(w) /\ c = MyChannel(w)
  BY <1>1, Held DEF IInv, JobsFollow
<1>3. recipient' = [recipient EXCEPT ![n].status = "delivered"]
  BY <1>2 DEF ShowInList
<1>4. /\ recipient'[n].status = "delivered"
      /\ \A m \in Notes \ {n} : recipient'[m] = recipient[m]
  BY <1>3, RecipientWritten DEF IInv
<1>5. worker'[w].phase = "delivered" /\ worker'[w].channel = c
  BY <1>1, <1>2, WorkerMoved DEF IInv
<1>6. unread = badge
  BY <1>1 DEF Turn, WorkerTurn
<1>7. c = "in_app"
  BY <1>1, <1>2 DEF Calm, OnTime
<1>8. WorkerTurn(w)'
  BY <1>1, <1>5, <1>6, <1>7 DEF WorkerTurn, MyChannel, At
<1>9. \A m \in Notes : recipient'[m].status = "pending" =>
        recipient[m].status = "pending" /\ ~OnItsWay(m, w)
  BY <1>2, <1>4 DEF OnItsWay
<1> QED  BY <1>1, <1>5, <1>8, <1>9, WorkerKeepsTurn DEF WorkerHasTurn

\* What InAppChannelService counts is what is unread, unless a job waits.
LEMMA CountInAppTurn ==
  ASSUME IInv, Turn, NEW w \in Workers, CountInApp(w), WorkerHasTurn(w)
  PROVE  Turn'
<1> DEFINE k == Cardinality(UnreadInApp)
<1>1. /\ worker[w].phase = "count"
      /\ worker' = [worker EXCEPT ![w].phase = "setUnread", ![w].count = k]
      /\ UNCHANGED <<note, recipient, job, unread, badge, caller>>
  BY DEF CountInApp, At, rows, numbers
<1>2. Late \/ k = Cardinality(Unread)
  <2> SUFFICES ASSUME ~Late  PROVE UnreadInApp = Unread
    OBVIOUS
  <2>1. ASSUME NEW n \in Notes, "in_app" \in note[n].channels
        PROVE  recipient[n].status # "pending"
    <3>1. job[n]["in_app"].state # "waiting"
      BY DEF Late
    <3>2. \A v \in Workers : worker[v].phase \notin {"find", "recipient"}
      BY <1>1 DEF WorkerHasTurn
    <3> QED  BY <2>1, <3>1, <3>2 DEF Turn, PendingWaits, Creating, WorkerHasTurn
  <2>2. \A n \in Notes :
          recipient[n].status \in {"none", "pending", "delivered", "read"}
    BY DEF IInv, TypeOK, Recipient
  <2> QED  BY <2>1, <2>2 DEF UnreadInApp, Unread, Visible
<1> HIDE DEF k
<1>3. worker'[w].phase = "setUnread" /\ worker'[w].count = k
  BY <1>1, WorkerCounted DEF IInv
<1>4. unread = badge
  BY <1>1 DEF Turn, WorkerTurn
<1>5. worker'[w].channel = MyChannel(w)
  BY <1>1, WorkerCounted DEF IInv
<1>6. Unread' = Unread /\ (Late => Late')
  BY <1>1, UnreadFrame, LateStays
<1>7. MyChannel(w) # "in_app" => Settles(unread)
  BY <1>1 DEF Turn, WorkerTurn
<1>8. WorkerTurn(w)'
  BY <1>1, <1>2, <1>3, <1>4, <1>5, <1>6, <1>7
     DEF WorkerTurn, MyChannel, At, Settles
<1>9. \A m \in Notes : ~OnItsWay(m, w)
  BY <1>1 DEF OnItsWay
<1> QED  BY <1>1, <1>3, <1>8, <1>9, WorkerKeepsTurn DEF WorkerHasTurn

\* The number it counted goes to Redis and to the browsers.
LEMMA PublishTurn ==
  ASSUME IInv, Turn, Calm, NEW w \in Workers, SetUnread(w) \/ Emit(w),
         WorkerHasTurn(w)
  PROVE  Turn'
<1>1. /\ worker[w].phase \in {"setUnread", "emit"}
      /\ UNCHANGED <<note, recipient, job, caller>>
  BY DEF SetUnread, Emit, At, rows
<1>2. MyChannel(w) = "in_app"
  BY <1>1 DEF Calm, OnTime
<1>3. WorkerTurn(w)
  BY <1>1 DEF Turn
<1>4. Unread' = Unread /\ (Late => Late')
  BY <1>1, UnreadFrame, LateStays
<1>5. CASE SetUnread(w)
  <2>1. /\ worker[w].phase = "setUnread" /\ unread' = worker[w].count
        /\ Goes(w, "emit")
    BY <1>5 DEF SetUnread, At
  <2>2. /\ worker'[w].phase = "emit" /\ worker'[w].channel = "in_app"
        /\ worker'[w].count = worker[w].count
    BY <1>2, <2>1, WorkerMoved DEF IInv
  <2>3. Settles(worker[w].count)
    BY <1>3, <2>1 DEF WorkerTurn, At
  <2>4. WorkerTurn(w)'
    BY <1>4, <2>1, <2>2, <2>3 DEF WorkerTurn, MyChannel, At, Settles
  <2>5. \A m \in Notes : ~OnItsWay(m, w)
    BY <1>1 DEF OnItsWay
  <2> QED  BY <1>1, <2>2, <2>4, <2>5, WorkerKeepsTurn DEF WorkerHasTurn
<1>6. CASE Emit(w)
  <2>1. /\ worker[w].phase = "emit" /\ badge' = worker[w].count
        /\ worker' = [worker EXCEPT ![w].phase = "complete", ![w].count = 0]
        /\ unread' = unread
    BY <1>6 DEF Emit, At
  <2>2. worker'[w].phase = "complete"
    BY <2>1, WorkerCounted DEF IInv
  <2>3. unread = worker[w].count /\ Settles(unread)
    BY <1>3, <2>1 DEF WorkerTurn, At
  <2>4. WorkerTurn(w)'
    BY <1>4, <2>1, <2>2, <2>3 DEF WorkerTurn, MyChannel, At, Settles
  <2>5. \A m \in Notes : ~OnItsWay(m, w)
    BY <1>1 DEF OnItsWay
  <2> QED  BY <1>1, <2>2, <2>4, <2>5, WorkerKeepsTurn DEF WorkerHasTurn
<1> QED  BY <1>5, <1>6

LEMMA CompleteTurn ==
  ASSUME IInv, Turn, Calm, NEW w \in Workers, Complete(w), WorkerHasTurn(w)
  PROVE  Turn'
<1>1. /\ worker[w].phase = "complete" /\ worker[w].owns
      /\ worker' = [worker EXCEPT ![w] = Free]
      /\ UNCHANGED <<note, recipient, unread, badge, caller>>
  BY DEF Complete, At, rows, numbers, Calm, OnTime
<1>2. PICK n \in Notes, c \in Channels : n = MyNote(w) /\ c = MyChannel(w)
  BY <1>1, Held DEF IInv, JobsFollow
<1>3. job[n][c].state = "active"
  BY <1>1, <1>2, Owned
<1>4. \A m \in Notes, d \in Channels : m # n \/ d # c => job'[m][d] = job[m][d]
  <2> DEFINE i == [job[n][c] EXCEPT !.state = "completed"]
  <2>1. job' = [job EXCEPT ![n][c] = i]
    BY <1>1, <1>2 DEF Complete
  <2> HIDE DEF i
  <2> QED  BY <2>1, JobReplaced DEF IInv
<1>5. worker'[w].phase = "idle"
  <2>1. Free.phase = "idle"
    BY DEF Free
  <2> QED  BY <1>1, <2>1, WorkerReplaced DEF IInv
<1>6. Settled
  BY <1>1 DEF Turn, WorkerTurn, Settled
<1>7. \A m \in Notes : job[m]["in_app"].state = "waiting" =>
                        job'[m]["in_app"].state = "waiting"
  BY <1>3, <1>4 DEF Channels
<1>8. Unread' = Unread /\ (Late => Late')
  BY <1>1, <1>7, UnreadFrame, LateStays
<1>9. Settled'
  BY <1>1, <1>6, <1>8 DEF Settled, Settles
<1>10. \A m \in Notes : ~OnItsWay(m, w)
  BY <1>1 DEF OnItsWay
<1> QED  BY <1>1, <1>5, <1>7, <1>9, <1>10, WorkerKeepsTurn DEF WorkerHasTurn

LEMMA WorkerStepTurn ==
  ASSUME IInv, Turn, Calm, Given, NEW w \in Workers, CalmWorker(w),
         WorkerHasTurn(w)
  PROVE  Turn'
BY TakeTurn, GoOnTurn, ShowInListTurn, CountInAppTurn, PublishTurn, CompleteTurn
   DEF CalmWorker

-----------------------------------------------------------------------------
(* In turns: the steps of requests                                         *)

CallerHasTurn(q) ==
  /\ \A p \in Callers \ {q} : caller'[p] = caller[p] /\ caller[p].phase = "idle"
  /\ \A w \in Workers : worker[w].phase = "idle"

\* When a request begins, nothing is under way.
LEMMA BeginsSettled ==
  ASSUME Turn, NEW q \in Callers, CallerHasTurn(q), caller[q].phase = "idle"
  PROVE  Settled
BY DEF Turn, Quiet, At, CallerAt, CallerHasTurn

LEMMA CreateTurn ==
  ASSUME IInv, Turn, NEW q \in Callers, NEW n \in Notes, Create(q, n),
         CallerHasTurn(q)
  PROVE  Turn'
<1> DEFINE r == [Idle EXCEPT !.op = "create", !.phase = "recipients", !.note = n]
<1>1. /\ note[n].status = "none" /\ caller[q] = Idle
      /\ caller' = [caller EXCEPT ![q] = r]
      /\ UNCHANGED <<recipient, job, unread, badge, worker>>
  BY DEF Create, Admitted, numbers
<1>2. r.phase = "recipients" /\ Idle.phase = "idle"
  BY DEF Idle
<1> HIDE DEF r
<1>3. caller'[q] = r
  BY <1>1, CallerReplaced DEF IInv
<1>4. PICK x \in Note : note' = [note EXCEPT ![n] = x] /\ x.status = "pending"
  BY Created
<1>5. \A m \in Notes \ {n} : note'[m] = note[m]
  BY <1>4 DEF IInv, TypeOK
<1>6. recipient[n].status = "none"
  BY <1>1 DEF IInv, RowsFollow, Untouched
<1>7. Unread' = Unread
  BY <1>1, <1>5, <1>6, UnreadSame DEF Visible
<1>8. Settled /\ (Late => Late')
  BY <1>1, <1>2, BeginsSettled, LateStays
<1>9. CallerTurn(q)'
  BY <1>1, <1>2, <1>3, <1>7, <1>8
     DEF CallerTurn, CallerAt, Settled, Settles
<1>10. \A m \in Notes :
         "in_app" \in note'[m].channels /\ recipient'[m].status = "pending" =>
           job'[m]["in_app"].state = "waiting"
  BY <1>1, <1>2, <1>5, <1>6, PendingOf DEF CallerHasTurn, Creating
<1> QED  BY <1>1, <1>2, <1>3, <1>9, <1>10, CallerKeepsTurn DEF CallerHasTurn

\* A request that goes on creating.
LEMMA CreatingTurn ==
  ASSUME IInv, Turn, NEW q \in Callers, CallerHasTurn(q), NEW n \in Notes,
         Creating(q), n = caller[q].note, UNCHANGED <<note, unread, badge, worker>>,
         caller'[q].phase \in {"deliver", "enqueue", "finish"},
         caller'[q].note = n,
         \A m \in Notes : m # n => recipient'[m] = recipient[m],
         recipient'[n] = recipient[n]
           \/ /\ recipient[n].status = "none" /\ recipient'[n].status = "pending"
              /\ recipient'[n].readAt = recipient[n].readAt
              /\ job[n]["in_app"].state = "none",
         \A m \in Notes :
           job'[m]["in_app"] = job[m]["in_app"]
           \/ job'[m]["in_app"].state = "waiting"
  PROVE  Turn'
<1>1. Unread' = Unread
  <2>1. \A m \in Notes : /\ Visible(m)' <=> Visible(m)
                         /\ recipient'[m].readAt <=> recipient[m].readAt
    BY DEF Visible
  <2> QED  BY <2>1, UnreadSame
<1>2. Late => Late'
  BY DEF Late
<1>3. unread = badge /\ Settles(unread)
  BY DEF Turn, CallerTurn, Creating
<1>4. CallerTurn(q)'
  BY <1>1, <1>2, <1>3 DEF CallerTurn, CallerAt, Settles
<1>5. Creating(q)'
  BY DEF Creating
<1>6. ASSUME NEW m \in Notes, "in_app" \in note'[m].channels,
             recipient'[m].status = "pending"
      PROVE  \/ job'[m]["in_app"].state = "waiting"
             \/ /\ job'[m]["in_app"].state = "none"
                /\ Creating(q)' /\ caller'[q].note = m
  <2>1. CASE recipient[m].status = "pending"
    <3>1. \/ job[m]["in_app"].state = "waiting"
          \/ job[m]["in_app"].state = "none" /\ caller[q].note = m
      BY <1>6, <2>1, PendingOf DEF CallerHasTurn
    <3> QED  BY <1>5, <3>1
  <2>2. CASE recipient[m].status # "pending"
    BY <1>5, <1>6, <2>2
  <2> QED  BY <2>1, <2>2
<1> QED  BY <1>4, <1>6, CallerKeepsTurn DEF CallerHasTurn

LEMMA DispatchTurn ==
  ASSUME IInv, Turn, NEW q \in Callers, CallerHasTurn(q),
         SaveRecipients(q) \/ SaveDelivery(q) \/ Enqueue(q)
  PROVE  Turn'
<1>1. /\ Creating(q) /\ UNCHANGED <<note, unread, badge, worker>>
  BY DEF SaveRecipients, SaveDelivery, Enqueue, CallerAt, Creating, rows, numbers
<1>2. PICK n \in Notes, c \in Channels :
        n = caller[q].note /\ c = caller[q].channel
  BY <1>1, CreatorKnows
<1>3. CASE SaveRecipients(q)
  <2>1. /\ caller[q].phase = "recipients" /\ NextChannel(q, n, {})
        /\ recipient' = [recipient EXCEPT ![n].status = "pending"]
        /\ job' = job
    BY <1>2, <1>3 DEF SaveRecipients, CallerAt
  <2>2. /\ caller'[q].note = caller[q].note
        /\ caller'[q].phase \in {"deliver", "finish"}
    BY <2>1, CallerDispatches DEF IInv
  <2>3. /\ recipient[n].status = "none"
        /\ \A d \in Channels : job[n][d].state = "none"
    BY <1>1, <1>2, <2>1 DEF IInv, RowsFollow, Creators, CallerAt
  <2>4. /\ recipient'[n].status = "pending"
        /\ recipient'[n].readAt = recipient[n].readAt
        /\ \A m \in Notes \ {n} : recipient'[m] = recipient[m]
    BY <2>1, RecipientWritten DEF IInv
  <2>5. job[n]["in_app"].state = "none"
    BY <2>3 DEF Channels
  <2> QED  BY <1>1, <1>2, <2>1, <2>2, <2>3, <2>4, <2>5, CreatingTurn
<1>4. CASE SaveDelivery(q)
  <2>1. /\ Continues(q, "enqueue") /\ recipient' = recipient /\ job' = job
    BY <1>4 DEF SaveDelivery
  <2>2. caller'[q].phase = "enqueue" /\ caller'[q].note = caller[q].note
    BY <2>1, CallerMoved DEF IInv
  <2> QED  BY <1>1, <1>2, <2>1, <2>2, CreatingTurn
<1>5. CASE Enqueue(q)
  <2> DEFINE done == {d \in Channels : job'[n][d].state # "none"}
  <2>1. /\ job' = [job EXCEPT ![n][c].state = "waiting"]
        /\ NextChannel(q, n, done) /\ recipient' = recipient
    BY <1>2, <1>5 DEF Enqueue, rows
  <2> HIDE DEF done
  <2>2. /\ caller'[q].note = caller[q].note
        /\ caller'[q].phase \in {"deliver", "finish"}
    BY <2>1, CallerDispatches DEF IInv
  <2>3. \A m \in Notes, d \in Channels : m # n \/ d # c => job'[m][d] = job[m][d]
    BY <2>1, StateWritten DEF IInv
  <2>5. job'[n][c].state = "waiting"
    <3>1. /\ job \in [Notes -> [Channels -> Job]]
          /\ job' = [job EXCEPT ![n][c].state = "waiting"]
      BY <2>1 DEF IInv, TypeOK
    <3>2. job[n] \in [Channels -> Job] /\ job[n][c] \in Job
      BY <3>1
    <3> QED  BY <3>1, <3>2 DEF Job
  <2>4. \A m \in Notes : job'[m]["in_app"] = job[m]["in_app"]
                         \/ job'[m]["in_app"].state = "waiting"
    BY <2>3, <2>5 DEF Channels
  <2> QED  BY <1>1, <1>2, <2>1, <2>2, <2>4, CreatingTurn
<1> QED  BY <1>3, <1>4, <1>5

LEMMA FinishTurn ==
  ASSUME IInv, DispatchInv, AllEnabled, Turn, NEW q \in Callers, Finish(q),
         CallerHasTurn(q)
  PROVE  Turn'
<1>1. /\ CallerAt(q, "finish") /\ Creating(q)
      /\ caller' = [caller EXCEPT ![q] = Idle]
      /\ UNCHANGED <<recipient, job, unread, badge, worker>>
  BY DEF Finish, CallerAt, Creating, numbers
<1>2. PICK n \in Notes : n = caller[q].note
  BY <1>1, CreatorKnows
<1>3. note' = [note EXCEPT ![n].status = "queued"]
  BY <1>2 DEF Finish
<1>4. \A m \in Notes : note'[m].channels = note[m].channels
  BY <1>3 DEF IInv, TypeOK, Note
<1>5. caller'[q].phase = "idle"
  <2>1. Idle.phase = "idle"
    BY DEF Idle
  <2> QED  BY <1>1, <2>1, CallerReplaced DEF IInv
<1>6. Unread' = Unread /\ (Late => Late')
  <2>1. \A m \in Notes : /\ Visible(m)' <=> Visible(m)
                         /\ recipient'[m].readAt <=> recipient[m].readAt
    BY <1>1, <1>4 DEF Visible
  <2> QED  BY <1>1, <2>1, UnreadSame, LateStays
<1>7. Settled
  BY <1>1 DEF Turn, CallerTurn, Creating, Settled
<1>8. Settled'
  BY <1>1, <1>6, <1>7 DEF Settled, Settles
<1>9. ASSUME NEW m \in Notes, "in_app" \in note'[m].channels,
             recipient'[m].status = "pending"
      PROVE  job'[m]["in_app"].state = "waiting"
  <2>1. \/ job[m]["in_app"].state = "waiting"
        \/ job[m]["in_app"].state = "none" /\ caller[q].note = m
    BY <1>1, <1>4, <1>9, PendingOf DEF CallerHasTurn
  <2>2. m = n => job[m]["in_app"].state # "none"
    BY <1>1, <1>2, <1>4, <1>9
       DEF DispatchInv, FinishersDispatched, Dispatched, AllEnabled
  <2> QED  BY <1>1, <1>2, <2>1, <2>2
<1> QED  BY <1>1, <1>5, <1>8, <1>9, CallerKeepsTurn DEF CallerHasTurn

\* A request of the user begins.
LEMMA BeginTurn ==
  ASSUME IInv, Turn, NEW q \in Callers, CallerHasTurn(q),
         \/ Subscribe(q)
         \/ \E op \in {"markRead", "markAllRead"}, ns \in SUBSET Notes :
              MarkRead(q, op, ns)
  PROVE  Turn'
<1>1. /\ caller[q] = Idle
      /\ UNCHANGED <<note, recipient, job, unread, badge, worker>>
  BY DEF Subscribe, MarkRead, Admitted, rows, numbers
<1>2. Settled
  <2>1. Idle.phase = "idle"
    BY DEF Idle
  <2> QED  BY <1>1, <2>1, BeginsSettled
<1>3. Unread' = Unread /\ (Late => Late')
  BY <1>1, UnreadFrame, LateStays
<1>4. \A m \in Notes :
        "in_app" \in note[m].channels /\ recipient[m].status = "pending" =>
          job[m]["in_app"].state = "waiting"
  <2>1. ~Creating(q)
    BY <1>1 DEF Creating, Idle
  <2> QED  BY <2>1, PendingOf DEF CallerHasTurn
<1>5. CASE Subscribe(q)
  <2> DEFINE r == [Idle EXCEPT !.op = "subscribe", !.phase = "emit",
                               !.count = unread]
  <2>1. caller' = [caller EXCEPT ![q] = r]
    BY <1>5 DEF Subscribe
  <2>2. r.phase = "emit" /\ r.count = unread
    BY DEF Idle
  <2> HIDE DEF r
  <2>3. caller'[q] = r
    BY <2>1, CallerReplaced DEF IInv
  <2>4. CallerTurn(q)'
    BY <1>1, <1>2, <1>3, <2>2, <2>3
       DEF CallerTurn, CallerAt, Creating, Settled, Settles
  <2> QED  BY <1>1, <1>4, <2>2, <2>3, <2>4, CallerKeepsTurn DEF CallerHasTurn
<1>6. CASE \E op \in {"markRead", "markAllRead"}, ns \in SUBSET Notes :
             MarkRead(q, op, ns)
  <2>1. PICK op \in {"markRead", "markAllRead"}, ns \in SUBSET Notes :
          MarkRead(q, op, ns)
    BY <1>6
  <2> DEFINE r == [Idle EXCEPT !.op = op, !.phase = "update", !.found = ns]
  <2>2. caller' = [caller EXCEPT ![q] = r] /\ (op = "markAllRead" => ns = Unread)
    BY <2>1 DEF MarkRead
  <2>3. r.phase = "update" /\ r.op = op /\ r.found = ns /\ r.count = 0
    BY DEF Idle
  <2> HIDE DEF r
  <2>4. caller'[q] = r
    BY <2>2, CallerReplaced DEF IInv
  <2>5. CallerTurn(q)'
    BY <1>1, <1>2, <1>3, <2>2, <2>3, <2>4
       DEF CallerTurn, CallerAt, Creating, Settled, Settles
  <2> QED  BY <1>1, <1>4, <2>3, <2>4, <2>5, CallerKeepsTurn DEF CallerHasTurn
<1> QED  BY <1>5, <1>6

\* markRead and markAllRead: what is unread changes before the number does.
LEMMA UpdateReadTurn ==
  ASSUME IInv, Turn, NEW q \in Callers, UpdateRead(q), CallerHasTurn(q)
  PROVE  Turn'
<1>1. /\ CallerAt(q, "update")
      /\ recipient' = [n \in Notes |->
           IF n \in caller[q].found THEN [status |-> "read", readAt |-> TRUE]
           ELSE recipient[n]]
      /\ UNCHANGED <<note, job, unread, badge, worker>>
  BY DEF UpdateRead, numbers
<1>2. PICK phase \in {"count", "setUnread"} :
        /\ Continues(q, phase)
        /\ phase = "setUnread" => caller[q].op # "markRead"
  BY DEF UpdateRead
<1>3. /\ caller'[q].phase = phase /\ caller'[q].count = caller[q].count
  BY <1>2, CallerMoved DEF IInv
<1>4. CallerTurn(q)
  BY <1>1 DEF Turn, CallerAt
<1>5. phase = "setUnread" => Unread' = {} /\ caller[q].count = 0
  <2> SUFFICES ASSUME phase = "setUnread"
               PROVE  Unread' = {} /\ caller[q].count = 0
    OBVIOUS
  <2>1. caller[q].found = Unread /\ caller[q].count = 0
    BY <1>1, <1>2, <1>4 DEF CallerTurn
  <2>2. \A n \in Notes : Visible(n)' => recipient'[n].readAt
    <3> SUFFICES ASSUME NEW n \in Notes, Visible(n)', ~recipient'[n].readAt
                 PROVE  FALSE
      OBVIOUS
    <3>1. n \notin caller[q].found /\ recipient'[n] = recipient[n]
      BY <1>1
    <3>2. Visible(n) /\ ~recipient[n].readAt
      BY <1>1, <3>1 DEF Visible
    <3> QED  BY <2>1, <3>1, <3>2 DEF Unread
  <2> QED  BY <2>1, <2>2 DEF Unread
<1>6. Cardinality({}) = 0
  BY FS_EmptySet
<1>7. CallerTurn(q)'
  <2>1. unread' = badge'
    BY <1>1, <1>4 DEF CallerTurn, CallerAt
  <2>2. phase = "setUnread" => caller'[q].count = Cardinality(Unread')
    BY <1>3, <1>5, <1>6
  <2> QED  BY <1>3, <2>1, <2>2 DEF CallerTurn, CallerAt, Creating
<1>8. ~Creating(q)
  BY <1>1 DEF CallerAt, Creating
<1>9. \A m \in Notes :
        "in_app" \in note'[m].channels /\ recipient'[m].status = "pending" =>
          job'[m]["in_app"].state = "waiting"
  <2>1. \A m \in Notes : recipient'[m].status = "pending" =>
                         recipient[m].status = "pending"
    BY <1>1
  <2> QED  BY <1>1, <1>8, <2>1, PendingOf DEF CallerHasTurn
<1>10. caller'[q].phase # "idle"
  BY <1>3
<1> QED  BY <1>1, <1>7, <1>9, <1>10, CallerKeepsTurn DEF CallerHasTurn

\* The number is counted, kept in Redis and sent to the browsers.
LEMMA NumberTurn ==
  ASSUME IInv, Turn, NEW q \in Callers, CallerHasTurn(q),
         CountUnread(q) \/ PublishUnread(q) \/ EmitUnread(q)
  PROVE  Turn'
<1>1. /\ caller[q].phase \in {"count", "setUnread", "emit"}
      /\ UNCHANGED <<note, recipient, job, worker>>
  BY DEF CountUnread, PublishUnread, EmitUnread, CallerAt, rows
<1>2. CallerTurn(q)
  BY <1>1 DEF Turn
<1>3. Unread' = Unread /\ (Late => Late')
  BY <1>1, UnreadFrame, LateStays
<1>4. \A m \in Notes :
        "in_app" \in note[m].channels /\ recipient[m].status = "pending" =>
          job[m]["in_app"].state = "waiting"
  <2>1. ~Creating(q)
    BY <1>1 DEF Creating
  <2> QED  BY <2>1, PendingOf DEF CallerHasTurn
<1>5. CASE CountUnread(q)
  <2> DEFINE k == Cardinality(Unread)
  <2>1. /\ caller' = [caller EXCEPT ![q].phase = "setUnread", ![q].count = k]
        /\ UNCHANGED <<unread, badge>> /\ caller[q].phase = "count"
    BY <1>5 DEF CountUnread, CallerAt, numbers
  <2> HIDE DEF k
  <2>2. caller'[q].phase = "setUnread" /\ caller'[q].count = k
    BY <2>1 DEF IInv, TypeOK, Caller
  <2>3. CallerTurn(q)'
    BY <1>2, <1>3, <2>1, <2>2 DEF CallerTurn, CallerAt, Creating, k
  <2> QED  BY <1>1, <1>4, <2>2, <2>3, CallerKeepsTurn DEF CallerHasTurn
<1>6. CASE PublishUnread(q)
  <2>1. /\ caller[q].phase = "setUnread" /\ unread' = caller[q].count
        /\ Continues(q, "emit")
    BY <1>6 DEF PublishUnread, CallerAt
  <2>2. caller'[q].phase = "emit" /\ caller'[q].count = caller[q].count
    BY <2>1, CallerMoved DEF IInv
  <2>3. caller[q].count = Cardinality(Unread)
    BY <1>2, <2>1 DEF CallerTurn, CallerAt
  <2>4. CallerTurn(q)'
    BY <1>3, <2>1, <2>2, <2>3 DEF CallerTurn, CallerAt, Creating, Settles
  <2> QED  BY <1>1, <1>4, <2>2, <2>4, CallerKeepsTurn DEF CallerHasTurn
<1>7. CASE EmitUnread(q)
  <2>1. /\ caller[q].phase = "emit" /\ badge' = caller[q].count
        /\ unread' = unread /\ caller' = [caller EXCEPT ![q] = Idle]
    BY <1>7 DEF EmitUnread, CallerAt
  <2>2. caller'[q].phase = "idle"
    <3>1. Idle.phase = "idle"
      BY DEF Idle
    <3> QED  BY <2>1, <3>1, CallerReplaced DEF IInv
  <2>3. unread = caller[q].count /\ Settles(unread)
    BY <1>2, <2>1 DEF CallerTurn, CallerAt
  <2>4. Settled'
    BY <1>3, <2>1, <2>3 DEF Settled, Settles
  <2> QED  BY <1>1, <1>4, <2>2, <2>4, CallerKeepsTurn DEF CallerHasTurn
<1> QED  BY <1>5, <1>6, <1>7

LEMMA CallerStepTurn ==
  ASSUME IInv, DispatchInv, AllEnabled, Turn, NEW q \in Callers, CalmCaller(q),
         CallerHasTurn(q)
  PROVE  Turn'
BY CreateTurn, DispatchTurn, FinishTurn, BeginTurn, UpdateReadTurn, NumberTurn
   DEF CalmCaller, CallerNext

-----------------------------------------------------------------------------
(* The invariants of the scenarios                                         *)

\* A step is the step of one worker,
LEMMA WorkerActs ==
  ASSUME IInv, NEW w \in Workers, CalmWorker(w)
  PROVE  /\ UNCHANGED <<note, caller>>
         /\ \A v \in Workers \ {w} : worker'[v] = worker[v]
         /\ worker[w].phase # "idle" \/ worker'[w].phase # "idle"
<1>1. UNCHANGED <<note, caller>>
  BY DEF CalmWorker, Take, Find, ShowInList, MarkDelivered, Send, MarkSent,
     Refuse, Deactivate, MarkRefused, CountInApp, SetUnread, Emit, Complete, rows
<1>2. CASE \E n \in Notes, c \in Channels : Take(w, n, c)
  <2>1. PICK n \in Notes, c \in Channels : Take(w, n, c)
    BY <1>2
  <2> DEFINE x == [phase |-> "find", note |-> n, channel |-> c, owns |-> TRUE,
                   count |-> 0]
  <2>2. worker' = [worker EXCEPT ![w] = x]
    BY <2>1 DEF Take
  <2>3. x.phase # "idle"
    OBVIOUS
  <2> HIDE DEF x
  <2> QED  BY <1>1, <2>2, <2>3, WorkerReplaced DEF IInv
<1>3. CASE Complete(w)
  <2>1. worker' = [worker EXCEPT ![w] = Free] /\ worker[w].phase # "idle"
    BY <1>3 DEF Complete, At
  <2> QED  BY <1>1, <2>1, WorkerReplaced DEF IInv
<1>4. CASE CountInApp(w) \/ Emit(w)
  <2>1. PICK phase, k :
          worker' = [worker EXCEPT ![w].phase = phase, ![w].count = k]
    BY <1>4 DEF CountInApp, Emit
  <2>2. worker[w].phase # "idle"
    BY <1>4 DEF CountInApp, Emit, At
  <2> QED  BY <1>1, <2>1, <2>2, WorkerCounted DEF IInv
<1>5. CASE \/ Find(w) \/ ShowInList(w) \/ MarkDelivered(w) \/ Send(w)
           \/ MarkSent(w) \/ SetUnread(w)
           \/ Refuse(w) \/ Deactivate(w) \/ MarkRefused(w)
  <2>1. PICK phase : Goes(w, phase)
    BY <1>5 DEF Find, ShowInList, MarkDelivered, Send, MarkSent, Refuse,
       Deactivate, MarkRefused, SetUnread
  <2>2. worker[w].phase # "idle"
    BY <1>5 DEF Find, ShowInList, MarkDelivered, Send, MarkSent, Refuse,
       Deactivate, MarkRefused, SetUnread, At
  <2> QED  BY <1>1, <2>1, <2>2, WorkerMoved DEF IInv
<1> QED  BY <1>2, <1>3, <1>4, <1>5 DEF CalmWorker

\* or of one request.
LEMMA CallerActs ==
  ASSUME IInv, NEW q \in Callers, CalmCaller(q)
  PROVE  /\ worker' = worker
         /\ \A p \in Callers \ {q} : caller'[p] = caller[p]
         /\ caller[q].phase # "idle" \/ caller'[q].phase # "idle"
<1>1. worker' = worker
  BY DEF CalmCaller, CallerNext, Create, SaveRecipients, SaveDelivery, Enqueue,
     Finish, MarkRead, UpdateRead, CountUnread, PublishUnread, EmitUnread,
     Subscribe, CallerFault
<1>2. CASE \E n \in Notes : Create(q, n)
  <2>1. PICK n \in Notes : Create(q, n)
    BY <1>2
  <2> DEFINE r == [Idle EXCEPT !.op = "create", !.phase = "recipients",
                               !.note = n]
  <2>2. caller' = [caller EXCEPT ![q] = r]
    BY <2>1 DEF Create
  <2>3. r.phase # "idle"
    BY DEF Idle
  <2> HIDE DEF r
  <2> QED  BY <1>1, <2>2, <2>3, CallerReplaced DEF IInv
<1>3. CASE SaveRecipients(q) \/ Enqueue(q)
  <2>1. Creating(q) /\ caller[q].phase # "idle"
    BY <1>3 DEF SaveRecipients, Enqueue, CallerAt, Creating
  <2>2. PICK n \in Notes : n = caller[q].note
    BY <2>1, CreatorKnows
  <2>3. \E done : NextChannel(q, n, done)
    BY <1>3, <2>2 DEF SaveRecipients, Enqueue
  <2> QED  BY <1>1, <2>1, <2>3, CallerDispatches DEF IInv
<1>4. CASE Finish(q)
  <2>1. caller[q].phase # "idle" /\ caller' = [caller EXCEPT ![q] = Idle]
    BY <1>4 DEF Finish, CallerAt
  <2> QED  BY <1>1, <2>1, CallerReplaced DEF IInv
<1>5. CASE SaveDelivery(q) \/ UpdateRead(q) \/ CountUnread(q)
           \/ PublishUnread(q) \/ EmitUnread(q)
  <2>1. caller[q].phase # "idle"
    BY <1>5 DEF SaveDelivery, UpdateRead, CountUnread, PublishUnread, EmitUnread,
       CallerAt
  <2> QED  BY <1>1, <1>5, <2>1, PlainPhase DEF IInv
<1>6. CASE \/ Subscribe(q)
           \/ \E op \in {"markRead", "markAllRead"}, ns \in SUBSET Notes :
                MarkRead(q, op, ns)
  <2>1. \A p \in Callers \ {q} : caller'[p] = caller[p]
    BY <1>6, PlainPhase DEF IInv
  <2>2. caller'[q].phase # "idle"
    <3>1. CASE Subscribe(q)
      <4> DEFINE r == [Idle EXCEPT !.op = "subscribe", !.phase = "emit",
                                   !.count = unread]
      <4>1. caller' = [caller EXCEPT ![q] = r]
        BY <3>1 DEF Subscribe
      <4>2. r.phase # "idle"
        BY DEF Idle
      <4> HIDE DEF r
      <4> QED  BY <4>1, <4>2, CallerReplaced DEF IInv
    <3>2. CASE ~Subscribe(q)
      <4>1. PICK op, ns : caller' = [caller EXCEPT ![q] =
              [Idle EXCEPT !.op = op, !.phase = "update", !.found = ns]]
        BY <1>6, <3>2 DEF MarkRead
      <4> DEFINE r == [Idle EXCEPT !.op = op, !.phase = "update", !.found = ns]
      <4>2. r.phase # "idle"
        BY DEF Idle
      <4> HIDE DEF r
      <4> QED  BY <4>1, <4>2, CallerReplaced DEF IInv, r
    <3> QED  BY <3>1, <3>2
  <2> QED  BY <1>1, <2>1, <2>2
<1> QED  BY <1>2, <1>3, <1>4, <1>5, <1>6 DEF CalmCaller, CallerNext

\* What a request saves was empty, and stays as it was saved.
LEMMA NotesGrow ==
  ASSUME IInv, Given, Next
  PROVE  Given' /\ (AllEnabled' => AllEnabled)
<1>1. address' = address \/ address' = address \ {"push"}
  BY DEF Next, WorkerNext, CallerNext, WorkerFault, Stall, Take, Find, ShowInList,
     MarkDelivered, Send, MarkSent, Refuse, Deactivate, MarkRefused, MarkFailed,
     CountInApp, SetUnread, Emit, Complete, Throw, Create, SaveRecipients, SaveDelivery, Enqueue, Finish,
     MarkRead, UpdateRead, CountUnread, PublishUnread, EmitUnread, Subscribe,
     CallerFault, bounds
<1>2. CASE \E q \in Callers, n \in Notes : Create(q, n)
  <2>1. PICK q \in Callers, n \in Notes : Create(q, n)
    BY <1>2
  <2>2. PICK x \in Note : note' = [note EXCEPT ![n] = x] /\ x.status = "pending"
    BY <2>1, Created
  <2>3. \A m \in Notes : note'[m] = IF m = n THEN x ELSE note[m]
    BY <2>2 DEF IInv, TypeOK
  <2>4. note[n] = NoNote
    BY <2>1 DEF Create, Given
  <2>5. note[n].enabled = note[n].channels
    BY <2>4 DEF NoNote
  <2> QED  BY <1>1, <2>2, <2>3, <2>5 DEF Given, AllEnabled
<1>3. CASE \E q \in Callers : Finish(q)
  <2>1. PICK q \in Callers : Finish(q)
    BY <1>3
  <2>2. PICK n \in Notes : n = caller[q].note
    BY <2>1, CreatorKnows DEF Finish, CallerAt, Creating
  <2>3. note' = [note EXCEPT ![n].status = "queued"]
    BY <2>1, <2>2 DEF Finish
  <2>4. /\ note'[n].status = "queued"
        /\ note'[n].enabled = note[n].enabled
        /\ note'[n].channels = note[n].channels
        /\ \A m \in Notes \ {n} : note'[m] = note[m]
    BY <2>3 DEF IInv, TypeOK, Note
  <2> QED  BY <1>1, <2>4 DEF Given, AllEnabled
<1>4. CASE ~\E q \in Callers, n \in Notes : Create(q, n) \/ Finish(q)
  <2>1. note' = note
    <3>1. Notes # {} => ~\E q \in Callers : Finish(q)
      BY <1>4
    <3>2. Notes = {} => note' = note
      <4>1. \A q \in Callers : ~Finish(q) \/ Notes # {}
        BY CreatorKnows DEF Finish, CallerAt, Creating
      <4> QED  BY <1>4, <4>1 DEF Next, WorkerNext, CallerNext, WorkerFault, Stall,
             Take, Find, ShowInList, MarkDelivered, Send, MarkSent, Refuse,
             Deactivate, MarkRefused, MarkFailed, CountInApp, SetUnread, Emit, Complete, Throw, SaveRecipients,
             SaveDelivery, Enqueue, MarkRead, UpdateRead, CountUnread,
             PublishUnread, EmitUnread, Subscribe, CallerFault, rows
    <3> QED  BY <1>4, <3>1, <3>2 DEF Next, WorkerNext, CallerNext, WorkerFault,
           Stall, Take, Find, ShowInList, MarkDelivered, Send, MarkSent,
           Refuse, Deactivate, MarkRefused, MarkFailed, CountInApp, SetUnread, Emit, Complete, Throw,
           SaveRecipients, SaveDelivery, Enqueue, MarkRead, UpdateRead,
           CountUnread, PublishUnread, EmitUnread, Subscribe, CallerFault, rows
  <2> QED  BY <1>1, <2>1 DEF Given, AllEnabled
<1> QED  BY <1>2, <1>3, <1>4

LEMMA NextTurn ==
  IInv /\ DispatchInv /\ CalmInv /\ TurnInv /\ MCNext => TurnInv'
<1> SUFFICES ASSUME IInv, DispatchInv, CalmInv, TurnInv, MCNext
             PROVE  TurnInv'
  OBVIOUS
<1>1. Given' /\ (AllEnabled' => AllEnabled)
  BY NotesGrow DEF TurnInv, MCNext
<1>2. ASSUME scenario' = "turns"
      PROVE  (Cardinality(Busy) <= 1)' /\ (AllEnabled' => Turn')
  <2>1. scenario = "turns" /\ Cardinality(Busy') <= 1
    BY <1>2 DEF MCNext, Within
  <2>2. Cardinality(Busy) <= 1
    BY <2>1 DEF TurnInv
  <2>3. ASSUME AllEnabled'  PROVE Turn'
    <3>1. AllEnabled /\ Turn /\ Given
      BY <1>1, <2>1, <2>3 DEF TurnInv
    <3>2. /\ Calm
          /\ \/ \E w \in Workers : CalmWorker(w)
             \/ \E q \in Callers : CalmCaller(q)
      BY <2>1, CalmSteps
    <3>3. ASSUME NEW w \in Workers, CalmWorker(w)  PROVE Turn'
      <4>1. WorkerHasTurn(w)
        BY <2>1, <2>2, <3>3, WorkerActs, WorkerAlone DEF WorkerHasTurn
      <4> QED  BY <3>1, <3>2, <3>3, <4>1, WorkerStepTurn
    <3>4. ASSUME NEW q \in Callers, CalmCaller(q)  PROVE Turn'
      <4>1. CallerHasTurn(q)
        BY <2>1, <2>2, <3>4, CallerActs, CallerAlone DEF CallerHasTurn
      <4> QED  BY <3>1, <3>4, <4>1, CallerStepTurn
    <3> QED  BY <3>2, <3>3, <3>4
  <2> QED  BY <2>1, <2>3
<1> QED  BY <1>1, <1>2 DEF TurnInv

ScenarioInv == IInv /\ DispatchInv /\ CalmInv /\ TurnInv

LEMMA InitScenario == MCInit => ScenarioInv
<1> SUFFICES ASSUME MCInit  PROVE ScenarioInv
  OBVIOUS
<1>1. Init /\ IInv
  BY InitIInv DEF MCInit
<1>2. /\ note = [n \in Notes |-> NoNote]
      /\ recipient = [n \in Notes |-> [status |-> "none", readAt |-> FALSE]]
      /\ delivery = [n \in Notes |-> [c \in Channels |-> "none"]]
      /\ worker = [w \in Workers |-> Free]
      /\ caller = [q \in Callers |-> Idle]
      /\ unread = 0 /\ badge = 0 /\ faults = 0 /\ stalls = 0
      /\ address \in {Channels, Channels \ Unreachable}
  BY <1>1 DEF Init
<1>3. Idle.phase = "idle" /\ Free.phase = "idle"
  BY DEF Idle, Free
<1>4. NoNote.status = "none" /\ NoNote.channels = {} /\ NoNote.enabled = {}
  BY DEF NoNote
<1>5. DispatchInv
  BY <1>2, <1>3, <1>4 DEF DispatchInv, QueuedMeansDispatched, FinishersDispatched,
     CallerAt
<1>6. CalmInv
  <2>1. OnTime /\ ReadStaysRead
    BY <1>2, <1>3 DEF OnTime, ReadStaysRead
  <2>2. FirstTries
    BY <1>2, <1>3 DEF FirstTries, Untried, Channels
  <2> QED  BY <1>2, <2>1, <2>2 DEF CalmInv, Calm
<1>7. Unread = {}
  BY <1>2, <1>4 DEF Unread, Visible
<1>8. Cardinality({}) = 0
  BY FS_EmptySet
<1>9. Given
  BY <1>2, DeliveryConstants DEF Given, Channels
<1>10. Busy = {}
  BY <1>2 DEF Busy
<1>11. Turn
  <2>1. Settled
    BY <1>2, <1>7, <1>8 DEF Settled, Settles
  <2>2. PendingWaits
    BY <1>2, <1>4 DEF PendingWaits
  <2> QED  BY <1>2, <1>3, <2>1, <2>2 DEF Turn
<1>12. TurnInv
  <2>1. Cardinality(Busy) = 0
    BY <1>8, <1>10
  <2> QED  BY <1>9, <1>11, <2>1 DEF TurnInv
<1> QED  BY <1>1, <1>5, <1>6, <1>12 DEF ScenarioInv

LEMMA NextScenario == ScenarioInv /\ [MCNext]_<<vars, scenario>> => ScenarioInv'
<1> SUFFICES ASSUME ScenarioInv, [MCNext]_<<vars, scenario>>
             PROVE  ScenarioInv'
  OBVIOUS
<1>1. CASE MCNext
  <2>1. Next
    BY <1>1 DEF MCNext
  <2> QED  BY <1>1, <2>1, NextIInv, NextDispatch, NextCalm, NextTurn DEF ScenarioInv
<1>2. CASE UNCHANGED <<vars, scenario>>
  <2>1. IInv'
    BY <1>2, NextIInv DEF ScenarioInv
  <2>2. DispatchInv'
    BY <1>2 DEF ScenarioInv, DispatchInv, QueuedMeansDispatched,
       FinishersDispatched, Dispatched, CallerAt, vars
  <2>3. CalmInv'
    BY <1>2 DEF ScenarioInv, CalmInv, Calm, OnTime, FirstTries, Untried, MyChannel,
       MyNote, ReadStaysRead, vars
  <2>4. TurnInv'
    <3>1. Unread' = Unread /\ Late' = Late /\ Busy' = Busy
      BY <1>2 DEF Unread, Visible, Late, Busy, vars
    <3>2. Settled' = Settled /\ Quiet' = Quiet /\ AllEnabled' = AllEnabled
      BY <1>2, <3>1 DEF Settled, Settles, Quiet, At, CallerAt, AllEnabled, vars
    <3>3. PendingWaits => PendingWaits'
      BY <1>2 DEF PendingWaits, Creating, MyNote, MyChannel, vars
    <3>4. \A w \in Workers : WorkerTurn(w) => WorkerTurn(w)'
      BY <1>2, <3>1 DEF WorkerTurn, At, MyChannel, Settles, vars
    <3>5. \A q \in Callers : CallerTurn(q) => CallerTurn(q)'
      BY <1>2, <3>1 DEF CallerTurn, CallerAt, Creating, Settles, vars
    <3>6. Turn => Turn'
      BY <1>2, <3>2, <3>3, <3>4, <3>5 DEF Turn, vars
    <3>7. Given => Given'
      BY <1>2 DEF Given, vars
    <3> QED  BY <1>2, <3>1, <3>2, <3>6, <3>7 DEF ScenarioInv, TurnInv, vars
  <2> QED  BY <2>1, <2>2, <2>3, <2>4 DEF ScenarioInv
<1> QED  BY <1>1, <1>2

\* Whatever fails, is retried or taken for dead: a message goes out a bounded
\* number of times, and a notification that says queued has a job for every
\* channel the user wants; and while no call fails and no job is taken for
\* dead, what the user has read is read in both columns that say so.  The
\* argument: a request that is about to write "queued" saw a job of every
\* channel (FinishersDispatched), and jobs are never removed; without failures
\* a job of the list is tried once, by the worker that owns it, before anybody
\* could have read the notification (FirstTries, OnTime).
THEOREM DeliveryIsSafe == MCSpec => []DeliverySafe
<1>1. ScenarioInv => DeliverySafe
  <2> SUFFICES ASSUME ScenarioInv  PROVE DeliverySafe
    OBVIOUS
  <2>1. TypeOK /\ SendsBounded
    BY IInvBounds DEF ScenarioInv, IInv
  <2>2. QueuedMeansDispatched /\ ReadStaysReadUnlessRetried
    BY DEF ScenarioInv, DispatchInv, CalmInv, Calm, ReadStaysReadUnlessRetried
  <2> QED  BY <2>1, <2>2 DEF DeliverySafe
<1> QED  BY <1>1, InitScenario, NextScenario, PTL DEF MCSpec

\* One request or job at a time, the number in Redis and the number the
\* browsers show are the number of unread notifications whenever nothing is
\* under way and no job waits, though InAppChannelService counts notifications
\* that are not in the list yet.  The argument: those have their job waiting
\* (PendingWaits), so the number is wrong only while it will be counted again
\* (Settled).
THEOREM UnreadIsExact == MCSpec => []UnreadExactInTurns
<1>1. ScenarioInv => UnreadExactInTurns
  <2> SUFFICES ASSUME ScenarioInv, scenario = "turns", AllEnabled, Quiet,
                      \A n \in Notes, c \in Channels :
                        job[n][c].state # "waiting"
               PROVE  {unread, badge} = {Cardinality(Unread)}
    BY DEF UnreadExactInTurns, UnreadExact, AllEnabled
  <2>1. Settled
    BY DEF ScenarioInv, TurnInv, Turn
  <2>2. ~Late
    BY DEF Late, Channels
  <2> QED  BY <2>1, <2>2 DEF Settled, Settles
<1> QED  BY <1>1, InitScenario, NextScenario, PTL DEF MCSpec

-----------------------------------------------------------------------------
(* Quiet hours: minutes of the day                                         *)

LEMMA Division ==
  ASSUME NEW d \in Nat \ {0}, NEW a \in Int
  PROVE  /\ a % d \in 0 .. d - 1
         /\ a \div d \in Int
         /\ a = d * (a \div d) + (a % d)
OBVIOUS

LEMMA RemainderIsUnique ==
  ASSUME NEW d \in Nat \ {0}, NEW a \in Int, NEW q \in Int,
         NEW r \in 0 .. d - 1, a = d * q + r
  PROVE  a % d = r
OBVIOUS

\* A clock that was set back by whole days shows the same minute.
LEMMA RemainderOfSum ==
  ASSUME NEW d \in Nat \ {0}, NEW a \in Int, NEW b \in Int
  PROVE  ((a % d) + b) % d = (a + b) % d
<1>1. PICK q \in Int, r \in 0 .. d - 1 : a % d = r /\ a = d * q + r
  BY Division
<1>2. PICK p \in Int, s \in 0 .. d - 1 : (r + b) % d = s /\ r + b = d * p + s
  <2>1. r + b \in Int
    OBVIOUS
  <2> QED  BY <2>1, Division
<1>3. q + p \in Int /\ d * (q + p) = d * q + d * p
  OBVIOUS
<1>4. a + b = d * (q + p) + s
  BY <1>1, <1>2, <1>3
<1>5. a + b \in Int
  OBVIOUS
<1>6. (a + b) % d = s
  BY <1>3, <1>4, <1>5, RemainderIsUnique
<1> QED  BY <1>1, <1>2, <1>6

\* A minute count of less than two days, as a minute of the day.
Wrap(minute) == IF minute < Day THEN minute ELSE minute - Day

LEMMA WrapIsRemainder ==
  ASSUME NEW m \in 0 .. Day + Day - 1
  PROVE  m % Day = Wrap(m)
<1>1. Day \in Nat \ {0}
  BY QuietHoursConstants
<1>2. CASE m < Day
  <2>1. m = Day * 0 + m /\ m \in 0 .. Day - 1
    BY <1>1, <1>2
  <2> QED  BY <1>1, <1>2, <2>1, RemainderIsUnique DEF Wrap
<1>3. CASE ~(m < Day)
  <2>1. m = Day * 1 + (m - Day) /\ m - Day \in 0 .. Day - 1
    BY <1>1, <1>3
  <2> QED  BY <1>1, <1>3, <2>1, RemainderIsUnique DEF Wrap
<1> QED  BY <1>2, <1>3

LEMMA LocalInType ==
  ASSUME now \in Minutes, zone \in Zones, NEW k \in Nat
  PROVE  LocalIn(k) \in Minutes
<1>1. Day \in Nat \ {0} /\ now + zone + k \in Int
  BY QuietHoursConstants DEF Minutes
<1> QED  BY <1>1, Division DEF LocalIn, Minutes

\* Less than a day later, the clock has come round at most once.
LEMMA LocalInLater ==
  ASSUME now \in Minutes, zone \in Zones, NEW k \in Nat, NEW i \in 0 .. Day - 1
  PROVE  LocalIn(k + i) = Wrap(LocalIn(k) + i)
<1>1. Day \in Nat \ {0} /\ now + zone + k \in Int /\ i \in Int
  BY QuietHoursConstants DEF Minutes
<1>2. LocalIn(k) \in 0 .. Day - 1
  BY LocalInType DEF Minutes
<1>3. (((now + zone + k) % Day) + i) % Day = (now + zone + k + i) % Day
  BY <1>1, RemainderOfSum
<1>4. now + zone + (k + i) = now + zone + k + i
  BY <1>1, QuietHoursConstants DEF Minutes
<1>5. LocalIn(k + i) = (LocalIn(k) + i) % Day
  BY <1>3, <1>4 DEF LocalIn
<1>6. LocalIn(k) + i \in 0 .. Day + Day - 1
  BY <1>1, <1>2
<1> QED  BY <1>5, <1>6, WrapIsRemainder

-----------------------------------------------------------------------------
(* Quiet hours: the end of the window                                      *)

\* The two definitions of the quiet hours agree on every minute of the day.
LEMMA QuietIsWithin ==
  ASSUME NEW minute \in Minutes, hours \in Windows
  PROVE  IsQuiet(minute) <=> IsWithin(minute, hours)
<1>1. /\ Day \in Nat \ {0}
      /\ hours.enabled \in BOOLEAN
      /\ hours.start \in Minutes
      /\ hours.end \in Minutes
  BY QuietHoursConstants
<1> DEFINE s == hours.start
           e == hours.end
<1>2. Ahead(s, minute) < Ahead(s, e) <=>
        /\ s # e
        /\ IF s < e THEN s <= minute /\ minute < e
           ELSE s <= minute \/ minute < e
  BY <1>1 DEF Minutes, Ahead
<1> QED  BY <1>1, <1>2, Zenon DEF IsQuiet, IsWithin

\* In the quiet hours, the wait is less than a day.
LEMMA UntilEndType ==
  ASSUME NEW minute \in Minutes, hours \in Windows, IsWithin(minute, hours)
  PROVE  UntilEnd(minute, hours) \in 1 .. Day - 1
<1>1. /\ Day \in Nat \ {0}
      /\ hours.start \in Minutes
      /\ hours.end \in Minutes
  BY QuietHoursConstants
<1> QED  BY <1>1 DEF IsWithin, UntilEnd, Minutes

\* The wait ends with the quiet hours, and not before.
LEMMA UntilEndIsLeast ==
  ASSUME NEW minute \in Minutes, hours \in Windows, IsWithin(minute, hours)
  PROVE  LET d == UntilEnd(minute, hours) IN
           /\ ~IsWithin(Wrap(minute + d), hours)
           /\ \A i \in 0 .. d - 1 : IsWithin(Wrap(minute + i), hours)
<1> DEFINE d == UntilEnd(minute, hours)
<1>1. /\ Day \in Nat \ {0}
      /\ hours.start \in Minutes
      /\ hours.end \in Minutes
  BY QuietHoursConstants
<1>2. d \in 1 .. Day - 1
  BY UntilEndType
<1>3. Wrap(minute + d) = hours.end
  BY <1>1, <1>2 DEF Wrap, UntilEnd, IsWithin, Minutes
<1>4. ~IsWithin(Wrap(minute + d), hours)
  BY <1>1, <1>3 DEF IsWithin, Minutes
<1>5. ASSUME NEW i \in 0 .. d - 1
      PROVE  IsWithin(Wrap(minute + i), hours)
  BY <1>1, <1>2 DEF Wrap, UntilEnd, IsWithin, Minutes
<1> QED  BY <1>4, <1>5

LEMMA EffectiveAtType ==
  ASSUME NEW ahead \in Schedules
  PROVE  EffectiveAt(ahead) \in Nat
BY QuietHoursConstants DEF EffectiveAt

LEMMA DelayType ==
  ASSUME HoursTypeOK, NEW urgent \in BOOLEAN, NEW ahead \in Schedules
  PROVE  LET at == EffectiveAt(ahead) IN
           /\ Delay(urgent, ahead) \in Nat
           /\ Delay(urgent, ahead) \in at .. at + Day
<1> DEFINE at == EffectiveAt(ahead)
<1>1. Day \in Nat \ {0} /\ at \in Nat
  BY QuietHoursConstants, EffectiveAtType
<1>2. LocalIn(at) \in Minutes
  BY <1>1, LocalInType DEF HoursTypeOK
<1> HIDE DEF at
<1>3. CASE ~urgent /\ IsWithin(LocalIn(at), hours)
  <2>1. UntilEnd(LocalIn(at), hours) \in 1 .. Day - 1
    BY <1>2, <1>3, UntilEndType DEF HoursTypeOK
  <2>2. Delay(urgent, ahead) = at + UntilEnd(LocalIn(at), hours)
    BY <1>3 DEF Delay, at
  <2> QED  BY <1>1, <2>1, <2>2 DEF at
<1>4. CASE ~(~urgent /\ IsWithin(LocalIn(at), hours))
  <2>1. Delay(urgent, ahead) = at + 0
    BY <1>4 DEF Delay, at
  <2> QED  BY <1>1, <2>1 DEF at
<1> QED  BY <1>3, <1>4

\* What getDeliveryDelayMs answers for a notification that is not urgent.
LEMMA DelayEndsQuiet ==
  ASSUME HoursTypeOK, NEW ahead \in Schedules
  PROVE  EndsQuiet(EffectiveAt(ahead), Delay(FALSE, ahead))
<1> DEFINE at == EffectiveAt(ahead)
<1>1. Day \in Nat \ {0} /\ at \in Nat
  BY QuietHoursConstants, EffectiveAtType
<1>2. LocalIn(at) \in Minutes /\ hours \in Windows
  BY <1>1, LocalInType DEF HoursTypeOK
<1> HIDE DEF at
<1>3. CASE IsWithin(LocalIn(at), hours)
  <2> DEFINE d == UntilEnd(LocalIn(at), hours)
  <2>1. Delay(FALSE, ahead) = at + d /\ d \in 1 .. Day - 1
    BY <1>2, <1>3, UntilEndType DEF Delay, at
  <2>2. /\ ~IsWithin(Wrap(LocalIn(at) + d), hours)
        /\ \A i \in 0 .. d - 1 : IsWithin(Wrap(LocalIn(at) + i), hours)
    BY <1>2, <1>3, UntilEndIsLeast
  <2> HIDE DEF d
  <2>3. \A i \in 0 .. d : i \in 0 .. Day - 1 /\ at + i \in Nat
    BY <1>1, <2>1
  <2>4. \A i \in 0 .. d : LocalIn(at + i) = Wrap(LocalIn(at) + i)
    BY <1>1, <2>3, LocalInLater DEF HoursTypeOK
  <2>5. \A i \in 0 .. d : LocalIn(at + i) \in Minutes
    BY <2>3, LocalInType DEF HoursTypeOK
  <2>6. d \in 0 .. d /\ \A i \in 0 .. d - 1 : i \in 0 .. d
    BY <1>1, <2>1
  <2>7. ~IsQuiet(LocalIn(at + d))
    BY <1>2, <2>2, <2>4, <2>5, <2>6, QuietIsWithin
  <2>8. \A i \in 0 .. d - 1 : IsQuiet(LocalIn(at + i))
    BY <1>2, <2>2, <2>4, <2>5, <2>6, QuietIsWithin
  <2>9. PICK k \in Nat : k = at + d
    BY <1>1, <2>1
  <2>10. ASSUME NEW j \in at .. k - 1  PROVE IsQuiet(LocalIn(j))
    <3>1. j - at \in 0 .. d - 1 /\ at + (j - at) = j
      BY <1>1, <2>1, <2>9
    <3> QED  BY <2>8, <3>1
  <2>11. at <= k
    BY <1>1, <2>1, <2>9
  <2>12. ~IsQuiet(LocalIn(k))
    BY <2>7, <2>9
  <2>13. EndsQuiet(at, k)
    BY <2>10, <2>11, <2>12, Zenon DEF EndsQuiet
  <2> QED  BY <2>1, <2>9, <2>13 DEF at
<1>4. CASE ~IsWithin(LocalIn(at), hours)
  <2>1. Delay(FALSE, ahead) = at
    BY <1>1, <1>4 DEF Delay, at
  <2>2. ~IsQuiet(LocalIn(at))
    BY <1>2, <1>4, QuietIsWithin
  <2>3. at .. at - 1 = {} /\ at <= at
    BY <1>1
  <2> QED  BY <2>1, <2>2, <2>3 DEF EndsQuiet, at
<1> QED  BY <1>3, <1>4

-----------------------------------------------------------------------------
(* Quiet hours: types and attempts                                         *)

\* A job that waits has attempts left.
HoursAttemptsLeft ==
  \A n \in Notices : delayed[n].state = "waiting" => delayed[n].made < MaxAttempts

HoursTypeInv == HoursTypeOK /\ HoursAttemptsLeft

LEMMA HoursTypeInit ==
  ASSUME HoursInit
  PROVE  HoursTypeInv
BY QuietHoursConstants DEF HoursInit, HoursTypeInv, HoursTypeOK,
   HoursAttemptsLeft, DelayedJob, MaxAttempts

LEMMA HoursTypeStep ==
  ASSUME HoursTypeInv, [HoursNext]_hoursVars
  PROVE  HoursTypeInv'
<1>0. /\ Day \in Nat \ {0}
      /\ MaxFailures \in Nat
      /\ HoursTypeOK
      /\ HoursAttemptsLeft
  BY QuietHoursConstants DEF HoursTypeInv
<1>1. ASSUME NEW n \in Notices, NEW urgent \in BOOLEAN, NEW ahead \in Schedules,
             Dispatch(n, urgent, ahead)
      PROVE  HoursTypeInv'
  <2>1. PICK at, delay : at = EffectiveAt(ahead) /\ delay = Delay(urgent, ahead)
    OBVIOUS
  <2>2. at \in Nat /\ delay \in Nat /\ delay \in at .. at + Day
    BY <1>0, <2>1, DelayType, EffectiveAtType
  <2>3. PICK j : j = [state |-> "waiting", urgent |-> urgent, ahead |-> at,
                      wait |-> delay, made |-> 0]
    OBVIOUS
  <2>4. delayed' = [delayed EXCEPT ![n] = j]
    BY <1>1, <2>1, <2>3 DEF Dispatch
  <2>5. /\ j \in DelayedJob
        /\ j.wait \in j.ahead .. j.ahead + Day
        /\ j.made < MaxAttempts
    BY <2>2, <2>3 DEF DelayedJob, MaxAttempts
  <2>6. UNCHANGED <<now, zone, hours, failures, disturbed>>
    BY <1>1 DEF Dispatch
  <2>7. \A o \in Notices : delayed'[o] = IF o = n THEN j ELSE delayed[o]
    BY <1>0, <2>4 DEF HoursTypeOK
  <2>8. delayed' \in [Notices -> DelayedJob]
    BY <1>0, <2>4, <2>5 DEF HoursTypeOK
  <2>9. HoursAttemptsLeft'
    BY <1>0, <2>5, <2>7 DEF HoursAttemptsLeft
  <2>10. \A o \in Notices :
           delayed'[o].wait \in delayed'[o].ahead .. delayed'[o].ahead + Day
    BY <1>0, <2>5, <2>7 DEF HoursTypeOK
  <2> QED  BY <1>0, <2>6, <2>8, <2>9, <2>10 DEF HoursTypeInv, HoursTypeOK
<1>2. ASSUME NEW n \in Notices, Deliver(n)  PROVE HoursTypeInv'
  <2>1. PICK j : j = [delayed[n] EXCEPT !.state = "sent"]
    OBVIOUS
  <2>2. delayed[n] \in DelayedJob /\ delayed \in [Notices -> DelayedJob]
    BY <1>0 DEF HoursTypeOK
  <2>3. /\ j \in DelayedJob
        /\ j.state = "sent" /\ j.wait = delayed[n].wait /\ j.ahead = delayed[n].ahead
    BY <2>1, <2>2 DEF DelayedJob
  <2>4. delayed' = [delayed EXCEPT ![n] = j]
    BY <1>2, <2>1 DEF Deliver
  <2>5. UNCHANGED <<now, zone, hours, failures, disturbed>>
    BY <1>2 DEF Deliver
  <2>6. \A o \in Notices : delayed'[o] = IF o = n THEN j ELSE delayed[o]
    BY <2>2, <2>4
  <2>7. delayed' \in [Notices -> DelayedJob]
    BY <2>2, <2>3, <2>4
  <2>8. HoursAttemptsLeft'
    BY <1>0, <2>3, <2>6 DEF HoursAttemptsLeft
  <2>9. \A o \in Notices :
          delayed'[o].wait \in delayed'[o].ahead .. delayed'[o].ahead + Day
    BY <1>0, <2>3, <2>6 DEF HoursTypeOK
  <2> QED  BY <1>0, <2>5, <2>7, <2>8, <2>9 DEF HoursTypeInv, HoursTypeOK
<1>3. ASSUME NEW n \in Notices, Fail(n)  PROVE HoursTypeInv'
  <2>1. failures' \in 0 .. MaxFailures
    BY <1>0, <1>3 DEF Fail, HoursTypeOK
  <2>2. PICK later \in {0, 1} :
          delayed' = [delayed EXCEPT
            ![n].made = @ + 1,
            ![n].wait = IF delayed[n].made + 1 < MaxAttempts THEN later ELSE 0,
            ![n].state = IF delayed[n].made + 1 < MaxAttempts THEN "waiting"
                         ELSE "failed"]
    BY <1>3 DEF Fail
  <2>3. /\ delayed[n] \in DelayedJob
        /\ delayed[n].made \in 0 .. MaxAttempts - 1
        /\ delayed[n].ahead = 0
    BY <1>0, <1>3 DEF Fail, Due, HoursTypeOK,
       HoursAttemptsLeft, DelayedJob, MaxAttempts
  <2>4. /\ delayed' \in [Notices -> DelayedJob]
        /\ \A o \in Notices :
             delayed'[o].wait \in delayed'[o].ahead .. delayed'[o].ahead + Day
    <3>1. PICK made, wait, state :
            /\ made = delayed[n].made + 1
            /\ wait = IF made < MaxAttempts THEN later ELSE 0
            /\ state = IF made < MaxAttempts THEN "waiting" ELSE "failed"
      OBVIOUS
    <3>2. /\ made \in 0 .. MaxAttempts
          /\ wait \in Nat
          /\ wait \in 0 .. 0 + Day
          /\ state \in {"waiting", "failed"}
      BY <1>0, <2>2, <2>3, <3>1 DEF MaxAttempts
    <3>3. delayed' = [delayed EXCEPT ![n].made = made, ![n].wait = wait,
                             ![n].state = state]
      BY <2>2, <3>1
    <3> HIDE <3>1
    <3>4. /\ delayed \in [Notices -> DelayedJob]
          /\ delayed[n] \in DelayedJob
      BY <1>0, <2>3 DEF HoursTypeOK
    <3>5. PICK j : j = [delayed[n] EXCEPT !.made = made, !.wait = wait,
                                           !.state = state]
      OBVIOUS
    <3>6. j \in DelayedJob /\ j.wait = wait /\ j.ahead = 0
      BY <2>3, <3>2, <3>4, <3>5 DEF DelayedJob
    <3>7. delayed' = [delayed EXCEPT ![n] = j]
      BY <3>3, <3>5
    <3>8. \A o \in Notices : delayed'[o] = IF o = n THEN j ELSE delayed[o]
      BY <3>4, <3>7
    <3>9. delayed' \in [Notices -> DelayedJob]
      BY <3>4, <3>6, <3>7
    <3>10. \A o \in Notices :
             delayed'[o].wait \in delayed'[o].ahead .. delayed'[o].ahead + Day
      BY <1>0, <3>2, <3>6, <3>8 DEF HoursTypeOK
    <3> QED  BY <3>9, <3>10
  <2>5. HoursAttemptsLeft'
    BY <1>0, <2>2, <2>3 DEF HoursAttemptsLeft, HoursTypeOK, DelayedJob,
       MaxAttempts
  <2> QED  BY <1>0, <1>3, <2>1, <2>4, <2>5 DEF Fail, HoursTypeInv, HoursTypeOK
<1>4. ASSUME Tick  PROVE HoursTypeInv'
  <2>1. now' \in Minutes
    <3>1. now + 1 \in Int
      BY <1>0 DEF HoursTypeOK, Minutes
    <3>2. (now + 1) % Day \in 0 .. Day - 1
      BY <1>0, <3>1, Division
    <3>3. now' = (now + 1) % Day
      BY <1>4 DEF Tick
    <3> QED  BY <3>2, <3>3 DEF Minutes
  <2>2. delayed' = [n \in Notices |->
           [delayed[n] EXCEPT !.ahead = IF @ = 0 THEN 0 ELSE @ - 1,
                              !.wait = IF @ = 0 THEN 0 ELSE @ - 1]]
    BY <1>4 DEF Tick
  <2>3. ASSUME NEW n \in Notices
        PROVE  /\ delayed'[n] \in DelayedJob
               /\ delayed'[n].wait \in delayed'[n].ahead .. delayed'[n].ahead + Day
               /\ delayed'[n].state = delayed[n].state
               /\ delayed'[n].made = delayed[n].made
    <3>1. /\ delayed[n] \in DelayedJob
          /\ delayed[n].wait \in delayed[n].ahead .. delayed[n].ahead + Day
      BY <1>0 DEF HoursTypeOK
    <3>2. PICK ahead, wait :
            /\ ahead = IF delayed[n].ahead = 0 THEN 0 ELSE delayed[n].ahead - 1
            /\ wait = IF delayed[n].wait = 0 THEN 0 ELSE delayed[n].wait - 1
      OBVIOUS
    <3>3. delayed[n].ahead \in Nat /\ delayed[n].wait \in Nat
      BY <3>1 DEF DelayedJob
    <3>4. ahead \in Nat /\ wait \in Nat /\ wait \in ahead .. ahead + Day
      BY <1>0, <3>1, <3>2, <3>3
    <3>5. delayed'[n] = [delayed[n] EXCEPT !.ahead = ahead, !.wait = wait]
      BY <2>2, <3>2
    <3> QED  BY <3>1, <3>4, <3>5 DEF DelayedJob
  <2>4. HoursAttemptsLeft'
    BY <1>0, <2>3 DEF HoursAttemptsLeft
  <2>5. PICK late : disturbed' = disturbed \union late /\ late \subseteq Notices
    BY <1>4 DEF Tick
  <2>6. disturbed' \subseteq Notices
    BY <1>0, <2>5 DEF HoursTypeOK
  <2>7. UNCHANGED <<zone, hours, failures>>
    BY <1>4 DEF Tick
  <2>8. delayed' \in [Notices -> DelayedJob]
    BY <2>2, <2>3
  <2>9. \A n \in Notices :
          delayed'[n].wait \in delayed'[n].ahead .. delayed'[n].ahead + Day
    BY <2>3
  <2> QED
    BY <1>0, <2>1, <2>4, <2>6, <2>7, <2>8, <2>9 DEF HoursTypeInv, HoursTypeOK
<1>5. ASSUME SetHours  PROVE HoursTypeInv'
  BY <1>0, <1>5 DEF SetHours, Waiting, HoursTypeInv,
     HoursTypeOK, HoursAttemptsLeft
<1>6. ASSUME SetZone  PROVE HoursTypeInv'
  BY <1>0, <1>6 DEF SetZone, Waiting, HoursTypeInv,
     HoursTypeOK, HoursAttemptsLeft
<1>7. CASE UNCHANGED hoursVars
  BY <1>0, <1>7 DEF hoursVars, HoursTypeInv, HoursTypeOK, HoursAttemptsLeft
<1> QED  BY <1>1, <1>2, <1>3, <1>4, <1>5, <1>6, <1>7 DEF HoursNext

\* The variables of QuietHours keep their types, and no job is put off by more
\* than a day from the time it is scheduled for, for any day, any quiet hours,
\* any scheduled time and every change of preferences and clock.
THEOREM HoursTypeCorrect == HoursSpec => []HoursTypeOK
<1>1. HoursTypeInv => HoursTypeOK
  BY DEF HoursTypeInv
<1>2. HoursInit => HoursTypeInv
  BY HoursTypeInit
<1>3. HoursTypeInv /\ [HoursNext]_hoursVars => HoursTypeInv'
  BY HoursTypeStep
<1> QED  BY <1>1, <1>2, <1>3, PTL DEF HoursSpec

-----------------------------------------------------------------------------
(* Quiet hours: they are kept                                              *)

QuietInv == HoursTypeInv /\ DeferredToTheEnd

LEMMA QuietInit ==
  ASSUME HoursInit
  PROVE  QuietInv
BY HoursTypeInit DEF HoursInit, QuietInv, DeferredToTheEnd,
   Deferred

\* A minute later, every minute to come is one minute nearer.
LEMMA MinuteComesNearer ==
  ASSUME HoursTypeOK, NEW i \in Nat, now' = (now + 1) % Day, zone' = zone
  PROVE  LocalIn(i)' = LocalIn(i + 1)
<1>1. /\ Day \in Nat \ {0}
      /\ now \in Int
      /\ zone \in Int
  BY QuietHoursConstants DEF HoursTypeOK, Minutes
<1>2. now + 1 \in Int /\ zone + i \in Int /\ now' \in Int
  BY <1>1, Division
<1>3. (now' + (zone + i)) % Day = (now + 1 + (zone + i)) % Day
  BY <1>1, <1>2, RemainderOfSum
<1>4. /\ now' + (zone + i) = now' + zone + i
      /\ now + 1 + (zone + i) = now + zone + (i + 1)
  BY <1>1, <1>2
<1>5. LocalIn(i)' = (now' + zone + i) % Day
  BY DEF LocalIn
<1> QED  BY <1>3, <1>4, <1>5 DEF LocalIn

\* A minute later, the first minute that is not quiet is one minute nearer.
LEMMA EndComesNearer ==
  ASSUME HoursTypeOK, NEW from \in Nat, NEW k \in Nat \ {0},
         EndsQuiet(from, k),
         NEW next \in Nat, next = IF from = 0 THEN 0 ELSE from - 1,
         now' = (now + 1) % Day, UNCHANGED <<zone, hours>>
  PROVE  EndsQuiet(next, k - 1)'
<1>1. from <= k /\ next <= k - 1
  BY DEF EndsQuiet
<1>2. ASSUME NEW i \in Nat  PROVE LocalIn(i)' = LocalIn(i + 1)
  BY MinuteComesNearer
<1>3. ~IsQuiet(LocalIn(k - 1))'
  <2>1. k - 1 \in Nat /\ k - 1 + 1 = k
    OBVIOUS
  <2>2. LocalIn(k - 1)' = LocalIn(k)
    BY <1>2, <2>1
  <2>3. ~IsQuiet(LocalIn(k))
    BY DEF EndsQuiet
  <2> QED  BY <2>2, <2>3, hours' = hours DEF IsQuiet
<1>4. ASSUME NEW i \in next .. (k - 1) - 1  PROVE IsQuiet(LocalIn(i))'
  <2>1. i \in Nat /\ i + 1 \in from .. k - 1
    BY <1>1
  <2>2. LocalIn(i)' = LocalIn(i + 1)
    BY <1>2, <2>1
  <2>3. IsQuiet(LocalIn(i + 1))
    BY <2>1 DEF EndsQuiet
  <2> QED  BY <2>2, <2>3, hours' = hours DEF IsQuiet
<1> QED  BY <1>1, <1>3, <1>4 DEF EndsQuiet

\* What EndsQuiet says depends on the clock and on the preferences only.
LEMMA EndsQuietKept ==
  ASSUME UNCHANGED <<now, zone, hours>>, NEW from, NEW k, EndsQuiet(from, k)
  PROVE  EndsQuiet(from, k)'
BY DEF EndsQuiet, IsQuiet, LocalIn

LEMMA DeferredFrom ==
  ASSUME NEW n \in Notices, NEW urgent, NEW ahead, NEW wait,
         UNCHANGED <<now, zone, hours>>,
         delayed'[n].urgent = urgent, delayed'[n].ahead = ahead,
         delayed'[n].wait = wait,
         IF urgent THEN wait = ahead ELSE EndsQuiet(ahead, wait)
  PROVE  Deferred(n)'
<1>1. CASE urgent
  BY <1>1 DEF Deferred
<1>2. CASE ~urgent
  <2>1. EndsQuiet(ahead, wait)'
    BY <1>2, EndsQuietKept
  <2> QED  BY <1>2, <2>1 DEF Deferred, EndsQuiet
<1> QED  BY <1>1, <1>2

LEMMA DeferredKept ==
  ASSUME NEW n \in Notices, Deferred(n),
         UNCHANGED <<now, zone, hours>>,
         delayed'[n].state = "waiting" => delayed'[n] = delayed[n]
  PROVE  Deferred(n)'
<1>1. CASE delayed'[n].state # "waiting"
  BY <1>1 DEF Deferred
<1>2. CASE delayed'[n].state = "waiting"
  <2>1. IF delayed[n].urgent THEN delayed[n].wait = delayed[n].ahead
        ELSE EndsQuiet(delayed[n].ahead, delayed[n].wait)
    BY <1>2 DEF Deferred
  <2> QED  BY <1>2, <2>1, DeferredFrom
<1> QED  BY <1>1, <1>2

LEMMA QuietStep ==
  ASSUME QuietInv, [HoursNext]_hoursVars
  PROVE  QuietInv'
<1>0. HoursTypeOK /\ HoursTypeInv' /\ HoursTypeOK' /\ \A n \in Notices \ disturbed : Deferred(n)
  BY HoursTypeStep DEF QuietInv, HoursTypeInv, DeferredToTheEnd
<1> SUFFICES DeferredToTheEnd'
  BY <1>0 DEF QuietInv
<1>1. ASSUME NEW n \in Notices, NEW urgent \in BOOLEAN, NEW ahead \in Schedules,
             Dispatch(n, urgent, ahead)
      PROVE  DeferredToTheEnd'
  <2>1. UNCHANGED <<now, zone, hours>>
    BY <1>1 DEF Dispatch
  <2>2. delayed'[n] = [state |-> "waiting", urgent |-> urgent,
                   ahead |-> EffectiveAt(ahead), wait |-> Delay(urgent, ahead),
                   made |-> 0]
    BY <1>0, <1>1 DEF Dispatch, HoursTypeOK
  <2>3. IF urgent THEN Delay(urgent, ahead) = EffectiveAt(ahead)
        ELSE EndsQuiet(EffectiveAt(ahead), Delay(urgent, ahead))
    <3>1. CASE urgent
      BY <3>1, EffectiveAtType DEF Delay
    <3>2. CASE ~urgent
      <4>1. urgent = FALSE
        BY <3>2
      <4> QED  BY <1>0, <4>1, DelayEndsQuiet
    <3> QED  BY <3>1, <3>2
  <2>4. \A o \in Notices \ {n} : delayed'[o] = delayed[o]
    BY <1>0, <1>1 DEF Dispatch, HoursTypeOK
  <2>5. ASSUME NEW o \in Notices \ disturbed
        PROVE  Deferred(o)'
    <3>1. CASE o = n
      BY <2>1, <2>2, <2>3, <3>1, DeferredFrom
    <3>2. CASE o # n
      BY <1>0, <2>1, <2>4, <3>2, DeferredKept
    <3> QED  BY <3>1, <3>2
  <2> QED  BY <1>1, <2>5 DEF DeferredToTheEnd, Dispatch
<1>2. ASSUME NEW n \in Notices, Deliver(n)  PROVE DeferredToTheEnd'
  <2>1. UNCHANGED <<now, zone, hours>>
    BY <1>2 DEF Deliver
  <2>2. \A o \in Notices : delayed'[o].state = "waiting" => delayed'[o] = delayed[o]
    BY <1>0, <1>2 DEF Deliver, HoursTypeOK, DelayedJob
  <2>3. ASSUME NEW o \in Notices \ disturbed  PROVE Deferred(o)'
    BY <1>0, <2>1, <2>2, DeferredKept
  <2> QED  BY <1>2, <2>3 DEF DeferredToTheEnd, Deliver
<1>3. ASSUME NEW n \in Notices, Fail(n)  PROVE DeferredToTheEnd'
  <2>1. UNCHANGED <<now, zone, hours>> /\ disturbed' = disturbed \union {n}
    BY <1>3 DEF Fail
  <2>2. \A o \in Notices \ {n} : delayed'[o] = delayed[o]
    BY <1>0, <1>3 DEF Fail, HoursTypeOK, DelayedJob
  <2>3. ASSUME NEW o \in Notices \ (disturbed \union {n})  PROVE Deferred(o)'
    BY <1>0, <2>1, <2>2, DeferredKept
  <2> QED  BY <2>1, <2>3 DEF DeferredToTheEnd
<1>4. ASSUME Tick  PROVE DeferredToTheEnd'
  <2> SUFFICES ASSUME NEW n \in Notices \ disturbed, ~Due(n),
                      (delayed[n].state = "waiting")'
               PROVE  Deferred(n)'
    BY <1>4 DEF DeferredToTheEnd, Deferred, Tick
  <2>1. /\ delayed[n] \in DelayedJob
        /\ delayed[n].state = "waiting"
        /\ delayed'[n].urgent = delayed[n].urgent
        /\ delayed'[n].ahead =
             IF delayed[n].ahead = 0 THEN 0 ELSE delayed[n].ahead - 1
        /\ delayed'[n].wait =
             IF delayed[n].wait = 0 THEN 0 ELSE delayed[n].wait - 1
    <3>1. PICK kept \in DelayedJob : delayed[n] = kept
      BY <1>0 DEF HoursTypeOK
    <3>2. PICK ahead \in Nat, wait \in Nat :
            /\ ahead = IF kept.ahead = 0 THEN 0 ELSE kept.ahead - 1
            /\ wait = IF kept.wait = 0 THEN 0 ELSE kept.wait - 1
      BY DEF DelayedJob
    <3>3. delayed'[n] = [kept EXCEPT !.ahead = ahead, !.wait = wait]
      BY <1>4, <3>1, <3>2 DEF Tick
    <3>4. /\ delayed'[n].state = kept.state /\ delayed'[n].urgent = kept.urgent
          /\ delayed'[n].ahead = ahead /\ delayed'[n].wait = wait
      BY <3>3 DEF DelayedJob
    <3> QED  BY <3>1, <3>2, <3>4
  <2>2. delayed[n].wait # 0
    BY <2>1 DEF Due
  <2>3. CASE delayed[n].urgent
    BY <1>0, <2>1, <2>3 DEF Deferred
  <2>4. CASE ~delayed[n].urgent
    <3>1. EndsQuiet(delayed[n].ahead, delayed[n].wait)
      BY <1>0, <2>1, <2>4 DEF Deferred
    <3>2. PICK from \in Nat, k \in Nat \ {0} :
            delayed[n].ahead = from /\ delayed[n].wait = k
      BY <2>1, <2>2 DEF DelayedJob
    <3>3. PICK next \in Nat : next = IF from = 0 THEN 0 ELSE from - 1
      OBVIOUS
    <3>4. EndsQuiet(next, k - 1)'
      BY <1>0, <1>4, <3>1, <3>2, <3>3, EndComesNearer DEF Tick
    <3>5. /\ delayed'[n].ahead = next
          /\ delayed'[n].wait = k - 1
          /\ ~delayed'[n].urgent
      BY <2>1, <2>2, <2>4, <3>2, <3>3
    <3> QED  BY <3>4, <3>5 DEF Deferred, EndsQuiet
  <2> QED  BY <2>3, <2>4
<1>5. ASSUME SetHours \/ SetZone  PROVE DeferredToTheEnd'
  <2>1. delayed' = delayed /\ disturbed' = disturbed \union Waiting
    BY <1>5 DEF SetHours, SetZone
  <2>2. ASSUME NEW n \in Notices \ (disturbed \union Waiting)  PROVE Deferred(n)'
    BY <2>1, <2>2 DEF Waiting, Deferred
  <2> QED  BY <2>1, <2>2 DEF DeferredToTheEnd
<1>6. CASE UNCHANGED hoursVars
  BY <1>0, <1>6, DeferredKept DEF hoursVars, DeferredToTheEnd
<1> QED  BY <1>1, <1>2, <1>3, <1>4, <1>5, <1>6 DEF HoursNext

\* The wait of every job that nothing disturbed ends with the first minute of
\* its user, from the time it is scheduled for on, that is not quiet.
THEOREM DeferralCorrect == HoursSpec => []DeferredToTheEnd
<1>1. QuietInv => DeferredToTheEnd
  BY DEF QuietInv
<1>2. HoursInit => QuietInv
  BY QuietInit
<1>3. QuietInv /\ [HoursNext]_hoursVars => QuietInv'
  BY QuietStep
<1> QED  BY <1>1, <1>2, <1>3, PTL DEF HoursSpec

\* Nobody is sent a message in the quiet hours that could wait, unless something
\* disturbed it after its dispatch, and nothing is sent before the time it is
\* scheduled for.
THEOREM NobodyIsWoken == HoursSpec => NotWoken
<1>1. QuietInv /\ [HoursNext]_hoursVars =>
        [\A n \in Notices : Attempted(n) =>
           /\ delayed[n].ahead = 0
           /\ \/ n \in disturbed
              \/ delayed[n].urgent
              \/ ~IsQuiet(LocalIn(0))]_hoursVars
  <2> SUFFICES ASSUME QuietInv, HoursNext, NEW n \in Notices, Attempted(n)
               PROVE  /\ delayed[n].ahead = 0
                      /\ \/ n \in disturbed
                         \/ delayed[n].urgent
                         \/ ~IsQuiet(LocalIn(0))
    OBVIOUS
  <2>0. HoursTypeOK /\ DeferredToTheEnd
    BY DEF QuietInv, HoursTypeInv
  <2>1. delayed[n].wait = 0
    <3>1. ASSUME NEW o \in Notices, NEW urgent \in BOOLEAN,
                 NEW ahead \in Schedules, Dispatch(o, urgent, ahead)
          PROVE  delayed[n].wait = 0
      BY <2>0, <3>1 DEF Dispatch, Attempted, HoursTypeOK, DelayedJob
    <3>2. ASSUME NEW o \in Notices, Deliver(o) \/ Fail(o)
          PROVE  delayed[n].wait = 0
      <4>1. o # n => delayed'[n] = delayed[n]
        BY <2>0, <3>2 DEF Deliver, Fail, HoursTypeOK
      <4>2. delayed[n].made \in Nat
        BY <2>0 DEF HoursTypeOK, DelayedJob, MaxAttempts
      <4>3. o = n
        BY <4>1, <4>2 DEF Attempted
      <4> QED  BY <3>2, <4>3 DEF Deliver, Fail, Due
    <3>3. ASSUME Tick  PROVE FALSE
      <4>1. /\ delayed'[n].state = delayed[n].state
            /\ delayed'[n].made = delayed[n].made
        BY <2>0, <3>3 DEF Tick, HoursTypeOK, DelayedJob
      <4>2. delayed[n].made \in Nat
        BY <2>0 DEF HoursTypeOK, DelayedJob, MaxAttempts
      <4> QED  BY <4>1, <4>2 DEF Attempted
    <3>4. ASSUME SetHours \/ SetZone  PROVE FALSE
      BY <2>0, <3>4 DEF SetHours, SetZone, Attempted,
         HoursTypeOK, DelayedJob
    <3> QED  BY <3>1, <3>2, <3>3, <3>4 DEF HoursNext
  <2>2. delayed[n].ahead = 0
    BY <2>0, <2>1, QuietHoursConstants DEF HoursTypeOK, DelayedJob
  <2>3. CASE n \notin disturbed /\ ~delayed[n].urgent
    <3>1. EndsQuiet(0, 0)
      BY <2>0, <2>1, <2>2, <2>3 DEF DeferredToTheEnd, Deferred, Attempted
    <3> QED  BY <2>2, <3>1 DEF EndsQuiet
  <2> QED  BY <2>2, <2>3
<1>2. HoursInit => QuietInv
  BY QuietInit
<1>3. QuietInv /\ [HoursNext]_hoursVars => QuietInv'
  BY QuietStep
<1> QED  BY <1>1, <1>2, <1>3, PTL DEF HoursSpec, NotWoken

=============================================================================
