-------------------------- MODULE DeliveriesProofs --------------------------
(***************************************************************************)
(* Proofs about Deliveries, for any jobs, recipients, finitely many        *)
(* workers, any batch and any bounds: types, and that a customer gets a    *)
(* message again only for a claim whose outcome was lost.                  *)
(***************************************************************************)
EXTENDS Deliveries, FiniteSetTheorems, WellFoundedInduction, TLAPS

-----------------------------------------------------------------------------
(* Partial functions.                                                      *)

\* The functions from a part of S to T.
Partial(S, T) == UNION {[X -> T] : X \in SUBSET S}

LEMMA PartialIs ==
    ASSUME NEW S, NEW T, NEW f \in Partial(S, T)
    PROVE  DOMAIN f \subseteq S /\ f \in [DOMAIN f -> T] /\ \A x \in DOMAIN f : f[x] \in T
BY DEF Partial

LEMMA IsPartial ==
    ASSUME NEW S, NEW T, NEW X \in SUBSET S, NEW f \in [X -> T]
    PROVE  f \in Partial(S, T)
BY DEF Partial

LEMMA OntoIs ==
    ASSUME NEW S, NEW T, NEW f \in Partial(S, T), NEW g \in [S -> T]
    PROVE  /\ Onto(f, g) \in [S -> T]
           /\ \A x \in S : Onto(f, g)[x] = IF x \in DOMAIN f THEN f[x] ELSE g[x]
<1>1. DOMAIN f \subseteq S /\ \A x \in DOMAIN f : f[x] \in T
  BY PartialIs
<1>2. DOMAIN f \cup DOMAIN g = S
  BY <1>1
<1> QED BY <1>1, <1>2 DEF Onto

LEMMA PartialOnto ==
    ASSUME NEW S, NEW T, NEW f \in Partial(S, T), NEW g \in Partial(S, T)
    PROVE  /\ Onto(f, g) \in Partial(S, T) /\ DOMAIN Onto(f, g) = DOMAIN f \cup DOMAIN g
           /\ \A x \in DOMAIN f \cup DOMAIN g : Onto(f, g)[x] = IF x \in DOMAIN f THEN f[x] ELSE g[x]
<1>1. /\ DOMAIN f \subseteq S /\ \A x \in DOMAIN f : f[x] \in T
      /\ DOMAIN g \subseteq S /\ \A x \in DOMAIN g : g[x] \in T
  BY PartialIs
<1>2. Onto(f, g) \in [DOMAIN f \cup DOMAIN g -> T]
  BY <1>1 DEF Onto
<1> QED BY <1>1, <1>2, IsPartial DEF Onto

LEMMA NothingPartial == ASSUME NEW S, NEW T PROVE <<>> \in Partial(S, T) /\ DOMAIN <<>> = {}
<1>1. <<>> \in [{} -> T]
  OBVIOUS
<1> QED BY <1>1, IsPartial

-----------------------------------------------------------------------------
(* What each run of a worker and each cancellation may rely on.            *)

\* TypeOK with the runs of the workers as members of a set.
Run == [at : At, rows : SUBSET Rows, late : SUBSET Rows, token : Tokens \cup {None},
        out : Partial(Rows, Answer), read : Partial(Rows, Nat),
        staged : Partial(Rows, Row), ends : Partial(Jobs, Job)]
Counted(f) == f \in [Rows -> Nat]
RowFit(q) ==
    q # None => /\ q.status = "sending" => q.owner # None
                /\ q.status \in TERMINAL \ {"canceled"} => q.owner = None
Types ==
    /\ job \in [Jobs -> Job \cup {None}] /\ rec \in [Rows -> Row \cup {None}]
    /\ work \in [Workers -> Run] /\ cancel \in [Jobs -> (SUBSET Rows) \cup {None}]
    /\ stored \in Tokens \cup {Malformed, None} /\ alive \in Tokens
    /\ runner \in Runner \cup {None} /\ starting \in Start \cup {None} /\ world \in Worlds
    /\ Counted(received) /\ Counted(tries) /\ Counted(unrecorded)
    /\ \A r \in Rows : RowFit(rec[r])

Got(x, r) == r \in DOMAIN x.out /\ x.out[r] = "sent"
\* A claim of the run that has not called send_message: it is still to send, or parked.
Asks(x, r) == r \in x.rows /\ (r \notin DOMAIN x.out \/ x.out[r] = "park")
\* What the run x of worker w says, when the recipients' rows are table.
Fit(w, x, table) ==
    /\ x.at \notin {"reclaiming", "recording"} => DOMAIN x.staged = {}
    /\ x.at \in {"idle", "reclaiming", "claiming"} => x.rows = {} /\ x.late = {}
    /\ x.at \in {"idle", "reclaiming", "claiming", "claimed"} => DOMAIN x.out = {}
    /\ x.at \in {"revoking", "sent", "read", "recording"} => x.rows \subseteq DOMAIN x.out
    /\ x.at = "read" => DOMAIN x.read = x.rows
    /\ x.at = "reclaiming" => \A r \in DOMAIN x.staged :
            /\ table[r] # None /\ table[r].status = "sending"
            /\ x.staged[r].status \in {"unknown", "failed"} /\ x.staged[r].owner = None
    /\ x.at = "recording" =>
            /\ DOMAIN x.staged = x.rows
            /\ \A r \in x.rows : /\ x.staged[r].status \in {"sent", "blocked", "failed", "retry_wait"}
                                 /\ x.staged[r].owner = None
                                 /\ Got(x, r) => x.staged[r].status = "sent"
    /\ \A r \in x.rows : table[r] # None
    /\ \A r \in x.late : table[r] # None => ~(table[r].status = "sending" /\ table[r].owner = w)
Apart == \A v, w \in Workers : v # w => DOMAIN work[v].staged \cap DOMAIN work[w].staged = {}
Sound ==
    /\ \A w \in Workers : Fit(w, work[w], rec)
    /\ Apart
    /\ \A j \in Jobs : cancel[j] # None => \A r \in cancel[j] : JobOf[r] = j /\ rec[r] # None
    /\ \A r \in Rows : rec[r] # None => job[JobOf[r]] # None
    /\ \A w \in Workers \ world.workers : work[w].at = "idle"
Queue == Types /\ Sound

LEMMA RowsTyped ==
    ASSUME Types, NEW r \in Rows, rec[r] # None
    PROVE  rec[r] \in Row /\ RowFit(rec[r])
BY DEF Types

LEMMA LockedRows == ASSUME Types PROVE Locked \subseteq Rows /\ \A w \in Workers : DOMAIN work[w].staged \subseteq Locked
<1>1. \A w \in Workers : work[w].staged \in Partial(Rows, Row)
  BY DEF Types, Run
<1>2. \A w \in Workers : DOMAIN work[w].staged \subseteq Rows
  BY <1>1, PartialIs
<1> QED BY <1>2 DEF Locked

LEMMA TypesSuffice == ASSUME Types PROVE TypeOK
<1>1. \A w \in Workers : work[w] \in Run
  BY DEF Types
<1>2. ASSUME NEW w \in Workers
      PROVE  LET x == work[w]
             IN /\ x.at \in At /\ x.rows \subseteq Rows /\ x.late \subseteq Rows /\ x.token \in Tokens \cup {None}
                /\ Partly(x.out, Rows, Answer) /\ Partly(x.read, Rows, Nat)
                /\ Partly(x.staged, Rows, Row) /\ Partly(x.ends, Jobs, Job)
  <2>1. \A S, T, f : f \in Partial(S, T) => Partly(f, S, T)
    BY PartialIs DEF Partly
  <2> QED BY <1>1, <2>1 DEF Run
<1>3. \A r \in Rows : rec[r] # None =>
        /\ rec[r].status = "sending" => rec[r].owner # None
        /\ rec[r].status \in TERMINAL \ {"canceled"} => rec[r].owner = None
  BY DEF Types, RowFit
<1>4. {received, tries, unrecorded} \subseteq [Rows -> Nat]
  BY DEF Types, Counted
<1> QED BY <1>2, <1>3, <1>4 DEF TypeOK, Types

\* Rows, jobs and cancellations written while no worker moves, the rows unlocked.
LEMMA RowsAside ==
    ASSUME Queue, UNCHANGED <<work, bot, world, history>>,
           job' \in [Jobs -> Job \cup {None}], rec' \in [Rows -> Row \cup {None}],
           cancel' \in [Jobs -> (SUBSET Rows) \cup {None}],
           \A j \in Jobs : cancel'[j] # None => \A r \in cancel'[j] : JobOf[r] = j /\ rec'[r] # None,
           \A r \in Rows : rec'[r] # None => job'[JobOf[r]] # None,
           \A r \in Rows : rec'[r] # rec[r] =>
               /\ r \notin Locked /\ RowFit(rec'[r])
               /\ rec'[r] = None => \A w \in Workers : r \notin work[w].rows
               /\ rec'[r] # None /\ rec'[r].status = "sending" =>
                      rec[r] # None /\ rec[r].status = "sending" /\ rec'[r].owner = rec[r].owner
    PROVE  Queue'
<1>1. \A w \in Workers : Fit(w, work[w], rec) /\ work[w] \in Run /\ DOMAIN work[w].staged \subseteq Locked
  BY LockedRows DEF Queue, Sound, Types
<1>2. ASSUME NEW w \in Workers PROVE Fit(w, work[w], rec')
  <2>1. /\ work[w].rows \subseteq Rows /\ work[w].late \subseteq Rows /\ DOMAIN work[w].staged \subseteq Rows
        /\ DOMAIN work[w].staged \subseteq Locked
    BY <1>1, LockedRows DEF Run, Queue
  <2>2. \A r \in DOMAIN work[w].staged : rec'[r] = rec[r]
    BY <2>1
  <2>3. \A r \in work[w].rows : rec'[r] # None
    BY <1>1, <2>1 DEF Fit
  <2>4. \A r \in work[w].late : rec'[r] # None => ~(rec'[r].status = "sending" /\ rec'[r].owner = w)
    BY <1>1, <2>1 DEF Fit
  <2> QED BY <1>1, <2>2, <2>3, <2>4 DEF Fit
<1>3. Apart'
  BY DEF Queue, Sound, Apart
<1>4. \A r \in Rows : RowFit(rec'[r])
  BY DEF Queue, Types
<1>5. Types'
  BY <1>4 DEF Queue, Types, bot, history, Counted
<1> QED BY <1>2, <1>3, <1>5 DEF Queue, Sound

\* A step of one worker that writes no rows.
LEMMA RunTurns ==
    ASSUME Queue, NEW w \in Workers, NEW x \in Run, work' = [work EXCEPT ![w] = x],
           UNCHANGED <<rec, job, cancel, alive, runner, starting, world>>,
           stored' \in {stored, None}, Counted(received'), Counted(tries'), Counted(unrecorded'),
           Fit(w, x, rec), x.at = "idle" \/ work[w].at # "idle" \/ w \in world.workers,
           DOMAIN x.staged \subseteq DOMAIN work[w].staged \/ DOMAIN x.staged \cap Locked = {}
    PROVE  Queue'
<1>1. work' \in [Workers -> Run]
  BY DEF Queue, Types
<1>2. Types'
  BY <1>1 DEF Queue, Types, Counted
<1>3. \A v \in Workers : work'[v] = IF v = w THEN x ELSE work[v]
  BY DEF Queue, Types
<1>4. (\A v \in Workers : Fit(v, work[v], rec))'
  BY <1>3 DEF Queue, Sound
<1>5. Apart'
  <2>1. \A v \in Workers : DOMAIN work[v].staged \subseteq Locked
    BY LockedRows DEF Queue
  <2> QED BY <1>3, <2>1 DEF Apart, Queue, Sound
<1>6. (\A v \in Workers \ world.workers : work[v].at = "idle")'
  BY <1>3 DEF Queue, Sound
<1> QED BY <1>2, <1>4, <1>5, <1>6 DEF Queue, Sound

-----------------------------------------------------------------------------
(* Rows that a worker stages.                                              *)

LEMMA IdleRun ==
    /\ Idle \in Run /\ Idle.at = "idle" /\ Idle.rows = {} /\ Idle.late = {}
    /\ DOMAIN Idle.staged = {} /\ DOMAIN Idle.out = {}
BY NothingPartial DEF Idle, Run, At

LEMMA ReclaimedIs ==
    ASSUME Types, NEW r \in Rows, rec[r] # None
    PROVE  /\ Reclaimed(r) \in Row /\ Reclaimed(r).status \in {"unknown", "failed"} /\ Reclaimed(r).owner = None
           /\ Reclaimed(r).attempts = rec[r].attempts
           /\ Reclaimed(r).status = "unknown" => rec[r].attempts < MAX_ATTEMPTS
<1> DEFINE q == rec[r]
<1>1. q \in Row
  BY RowsTyped
<1>2. q.attempts \in Nat /\ MAX_ATTEMPTS \in Nat
  BY <1>1, BoundsAssumption DEF Row
<1>3. PICK s, d : /\ s = (IF q.attempts >= MAX_ATTEMPTS THEN "failed" ELSE "unknown")
                  /\ d = ~(q.attempts >= MAX_ATTEMPTS)
  OBVIOUS
<1>4. Reclaimed(r) = [q EXCEPT !.status = s, !.owner = None, !.over = FALSE, !.due = d]
  BY <1>3 DEF Reclaimed
<1> HIDE DEF q
<1>5. s \in {"unknown", "failed"} /\ d \in BOOLEAN /\ (s = "unknown" => q.attempts < MAX_ATTEMPTS)
  BY <1>2, <1>3
<1> QED BY <1>1, <1>4, <1>5 DEF Row, CLAIMABLE, TERMINAL, q

LEMMA OutcomeIs ==
    ASSUME Types, NEW r \in Rows, rec[r] # None, NEW answer \in Answer, NEW attempts \in Nat
    PROVE  LET q == Outcome(r, answer, attempts)
           IN /\ q \in Row /\ q.status \in {"sent", "blocked", "failed", "retry_wait"} /\ q.owner = None
              /\ answer = "sent" => q.status = "sent"
              /\ answer = "park" => q.attempts = IF attempts > 0 THEN attempts - 1 ELSE 0
              /\ answer # "park" => q.attempts = rec[r].attempts
              /\ q.status = "retry_wait" => answer = "park" \/ attempts < MAX_ATTEMPTS
<1> DEFINE p == rec[r]
<1>1. p \in Row
  BY RowsTyped
<1>2. p.attempts \in Nat /\ MAX_ATTEMPTS \in Nat
  BY <1>1, BoundsAssumption DEF Row
<1>3. PICK s : s = CASE answer \in {"sent", "blocked"} -> answer
                     [] answer = "failed" /\ attempts >= MAX_ATTEMPTS -> "failed"
                     [] OTHER -> "retry_wait"
  OBVIOUS
<1>4. PICK n : n = IF answer = "park" THEN IF attempts > 0 THEN attempts - 1 ELSE 0 ELSE p.attempts
  OBVIOUS
<1>5. Outcome(r, answer, attempts) =
          [p EXCEPT !.status = s, !.owner = None, !.over = FALSE, !.due = FALSE, !.attempts = n]
  BY <1>3, <1>4 DEF Outcome
<1>6. /\ s \in {"sent", "blocked", "failed", "retry_wait"} /\ (answer = "sent" => s = "sent")
      /\ s = "retry_wait" => answer = "park" \/ ~(attempts >= MAX_ATTEMPTS)
  BY <1>3, Zenon DEF Answer
<1>7. n \in Nat /\ (answer = "park" => n = IF attempts > 0 THEN attempts - 1 ELSE 0)
      /\ (answer # "park" => n = p.attempts) /\ (~(attempts >= MAX_ATTEMPTS) => attempts < MAX_ATTEMPTS)
  BY <1>2, <1>4
<1> HIDE DEF p
<1>8. /\ Outcome(r, answer, attempts) \in Row /\ Outcome(r, answer, attempts).status = s
      /\ Outcome(r, answer, attempts).owner = None /\ Outcome(r, answer, attempts).attempts = n
  BY <1>1, <1>5, <1>6, <1>7 DEF Row, CLAIMABLE, TERMINAL
<1> QED BY <1>6, <1>7, <1>8 DEF p

LEMMA EndsTyped ==
    ASSUME Types, NEW rows \in Partial(Rows, Row)
    PROVE  Ends(rows) \in Partial(Jobs, Job)
<1> DEFINE seen == {JobOf[r] : r \in DOMAIN rows}
<1> DEFINE new == [j \in seen |-> Recomputed(j, With(rows))]
<1>1. seen \subseteq Jobs
  BY PartialIs, JobOfAssumption
<1>2. ASSUME NEW j \in seen, new[j] # job[j] PROVE new[j] \in Job
  <2>1. new[j] = Recomputed(j, With(rows))
    OBVIOUS
  <2>2. new[j] \in {"canceled", "completed", "running"}
    BY <1>2, <2>1, Zenon DEF Recomputed
  <2> QED BY <2>2 DEF Job
<1> DEFINE X == {j \in seen : new[j] # job[j]}
<1>3. Ends(rows) = [j \in X |-> new[j]]
  BY DEF Ends, Restrict
<1>4. X \in SUBSET Jobs /\ \A j \in X : new[j] \in Job
  BY <1>1, <1>2
<1> HIDE DEF X, new
<1>5. [j \in X |-> new[j]] \in [X -> Job]
  BY <1>4
<1> QED BY <1>3, <1>4, <1>5, IsPartial

-----------------------------------------------------------------------------
(* What each step of a worker does to its run.                             *)

LEMMA RunsTyped == ASSUME Queue, NEW w \in Workers PROVE work[w] \in Run /\ Fit(w, work[w], rec)
BY DEF Queue, Types, Sound

LEMMA RunOnceIs ==
    ASSUME Queue, NEW w \in Workers, RunOnce(w)
    PROVE  /\ w \in world.workers /\ work[w].at = "idle"
           /\ UNCHANGED <<job, rec, cancel, bot, world, history>>
           /\ \E x \in Run :
              /\ work' = [work EXCEPT ![w] = x] /\ x.at \in {"claiming", "reclaiming"}
              /\ x.rows = {} /\ x.late = {} /\ DOMAIN x.out = {} /\ DOMAIN x.staged \cap Locked = {}
              /\ x.at = "claiming" => DOMAIN x.staged = {}
              /\ \A r \in DOMAIN x.staged : /\ r \in Rows /\ rec[r] # None /\ rec[r].status = "sending"
                                            /\ x.staged[r] = Reclaimed(r)
<1>1. PICK rows \in Batch(Expired) :
          work' = [work EXCEPT ![w] = [Idle EXCEPT !.at = IF rows = {} THEN "claiming" ELSE "reclaiming",
                                                   !.staged = [r \in rows |-> Reclaimed(r)],
                                                   !.ends = Ends([r \in rows |-> Reclaimed(r)])]]
  BY DEF RunOnce
<1>2. /\ rows \subseteq Rows /\ rows \cap Locked = {}
      /\ \A r \in rows : rec[r] # None /\ rec[r].status = "sending"
  BY DEF Batch, Expired
<1>3. [r \in rows |-> Reclaimed(r)] \in Partial(Rows, Row)
  BY <1>2, ReclaimedIs, IsPartial DEF Queue
<1> DEFINE x == [Idle EXCEPT !.at = IF rows = {} THEN "claiming" ELSE "reclaiming",
                             !.staged = [r \in rows |-> Reclaimed(r)],
                             !.ends = Ends([r \in rows |-> Reclaimed(r)])]
<1>4. x \in Run
  BY <1>3, EndsTyped, IdleRun DEF Queue, Run, At
<1>5. /\ x.at = (IF rows = {} THEN "claiming" ELSE "reclaiming") /\ x.staged = [r \in rows |-> Reclaimed(r)]
      /\ x.rows = {} /\ x.late = {} /\ DOMAIN x.out = {}
  BY IdleRun DEF Idle
<1>6. work' = [work EXCEPT ![w] = x]
  BY <1>1
<1> HIDE DEF x
<1>7. w \in world.workers /\ work[w].at = "idle" /\ UNCHANGED <<job, rec, cancel, bot, world, history>>
  BY DEF RunOnce, Data, Quiet, bot, history
<1>8. /\ x.at \in {"claiming", "reclaiming"} /\ (x.at = "claiming" => DOMAIN x.staged = {})
      /\ DOMAIN x.staged \cap Locked = {}
      /\ \A r \in DOMAIN x.staged : /\ r \in Rows /\ rec[r] # None /\ rec[r].status = "sending"
                                    /\ x.staged[r] = Reclaimed(r)
  BY <1>2, <1>5
<1> QED BY <1>4, <1>5, <1>6, <1>7, <1>8

LEMMA RunOnceKeeps == ASSUME Queue, NEW w \in Workers, RunOnce(w) PROVE Queue'
<1>1. /\ w \in world.workers /\ work[w].at = "idle"
      /\ UNCHANGED <<job, rec, cancel, bot, world, history>>
  BY RunOnceIs
<1>2. PICK x \in Run :
              /\ work' = [work EXCEPT ![w] = x] /\ x.at \in {"claiming", "reclaiming"}
              /\ x.rows = {} /\ x.late = {} /\ DOMAIN x.out = {} /\ DOMAIN x.staged \cap Locked = {}
              /\ x.at = "claiming" => DOMAIN x.staged = {}
              /\ \A r \in DOMAIN x.staged : /\ r \in Rows /\ rec[r] # None /\ rec[r].status = "sending"
                                            /\ x.staged[r] = Reclaimed(r)
  BY RunOnceIs
<1>3. Fit(w, x, rec)
  BY <1>2, ReclaimedIs DEF Fit, Queue
<1> QED BY <1>1, <1>2, <1>3, RunTurns DEF bot, history, Queue, Types, Counted

LEMMA CalmIs ==
    ASSUME Queue, NEW w \in Workers, Drained(w) \/ ReadToken(w) \/ MarkShopRevoked(w)
    PROVE  /\ work[w].at # "idle" /\ stored' \in {stored, None}
           /\ UNCHANGED <<job, rec, cancel, alive, runner, starting, world, history>>
           /\ \E x \in Run :
              /\ work' = [work EXCEPT ![w] = x] /\ Fit(w, x, rec) /\ DOMAIN x.staged = DOMAIN work[w].staged
              /\ x.rows = work[w].rows /\ x.late = work[w].late
              /\ x.at \notin {"read", "recording"} /\ work[w].at \notin {"read", "recording"}
              /\ DOMAIN x.staged = {}
              /\ \A r \in x.rows : (Got(x, r) <=> Got(work[w], r)) /\ (Asks(x, r) => Asks(work[w], r))
<1>0. work[w] \in Run /\ Fit(w, work[w], rec)
  BY RunsTyped
<1>1. CASE Drained(w)
  <2>1. work' = [work EXCEPT ![w] = Idle] /\ work[w].at = "claiming"
        /\ UNCHANGED <<job, rec, cancel, bot, world, history>>
    BY <1>1 DEF Drained, Data, Quiet, bot, history
  <2>2. Fit(w, Idle, rec) /\ work[w].rows = {} /\ work[w].late = {} /\ DOMAIN work[w].staged = {}
    BY <1>0, <2>1, IdleRun DEF Fit
  <2> QED BY <2>1, <2>2, IdleRun DEF bot
<1>2. CASE ReadToken(w)
  <2>1. Parked(w) \in Partial(Rows, Answer) /\ DOMAIN Parked(w) = work[w].rows
    <3>1. work[w].rows \in SUBSET Rows /\ Parked(w) \in [work[w].rows -> Answer]
      BY <1>0 DEF Parked, Run, Answer
    <3> QED BY <3>1, IsPartial
  <2>2. \E x \in Run : /\ work' = [work EXCEPT ![w] = x] /\ x.staged = work[w].staged /\ x.rows = work[w].rows
                       /\ x.late = work[w].late
                       /\ \/ x.at \in {"sent", "revoking"} /\ x.out = Parked(w)
                          \/ x.at = "sending" /\ x.out = work[w].out
    <3>1. CASE stored = None
      <4> DEFINE x == [work[w] EXCEPT !.at = "sent", !.out = Parked(w)]
      <4>1. x \in Run
        BY <1>0, <2>1 DEF Run, At
      <4>2. work' = [work EXCEPT ![w] = x]
        <5>1. stored # Malformed
          BY <3>1, NoneDeliveriesAssumption
        <5> QED BY <1>2, <3>1, <5>1 DEF ReadToken
      <4>3. x.staged = work[w].staged /\ x.rows = work[w].rows /\ x.late = work[w].late
            /\ x.at = "sent" /\ x.out = Parked(w)
        BY <1>0 DEF Run
      <4> HIDE DEF x
      <4> QED BY <4>1, <4>2, <4>3
    <3>2. CASE stored # None /\ stored = Malformed
      <4> DEFINE x == [work[w] EXCEPT !.at = "revoking", !.out = Parked(w)]
      <4>1. x \in Run
        BY <1>0, <2>1 DEF Run, At
      <4>2. work' = [work EXCEPT ![w] = x]
        BY <1>2, <3>2 DEF ReadToken
      <4> QED BY <4>1, <4>2, <1>0 DEF Run
    <3>3. CASE stored # None /\ stored # Malformed
      <4> DEFINE x == [work[w] EXCEPT !.at = "sending", !.token = stored]
      <4>1. x \in Run
        BY <1>0, <3>3 DEF Run, Queue, Types, At
      <4>2. work' = [work EXCEPT ![w] = x]
        BY <1>2, <3>3 DEF ReadToken
      <4> QED BY <4>1, <4>2, <1>0 DEF Run
    <3> QED BY <3>1, <3>2, <3>3
  <2>3. PICK x \in Run : /\ work' = [work EXCEPT ![w] = x] /\ x.staged = work[w].staged /\ x.rows = work[w].rows
                         /\ x.late = work[w].late
                         /\ \/ x.at \in {"sent", "revoking"} /\ x.out = Parked(w)
                            \/ x.at = "sending" /\ x.out = work[w].out
    BY <2>2
  <2>4. work[w].at = "claimed" /\ UNCHANGED <<job, rec, cancel, bot, world, history>>
    BY <1>2 DEF ReadToken, Data, Quiet, bot, history
  <2>5. DOMAIN work[w].out = {} /\ \A r \in work[w].rows : Parked(w)[r] = "park"
    BY <1>0, <2>4 DEF Fit, Parked
  <2>6. \A r \in x.rows : (Got(x, r) <=> Got(work[w], r)) /\ (Asks(x, r) => Asks(work[w], r))
    BY <2>1, <2>3, <2>5 DEF Got, Asks
  <2>7. Fit(w, x, rec) /\ DOMAIN x.staged = {}
    BY <1>0, <2>1, <2>3, <2>4 DEF Fit
  <2> QED BY <1>0, <2>3, <2>4, <2>6, <2>7 DEF bot
<1>3. CASE MarkShopRevoked(w)
  <2> DEFINE x == [work[w] EXCEPT !.at = "sent"]
  <2>1. /\ work' = [work EXCEPT ![w] = x] /\ work[w].at = "revoking" /\ stored' = None
        /\ UNCHANGED <<job, rec, cancel, alive, runner, starting, world, history>>
    BY <1>3 DEF MarkShopRevoked, To, Quiet, history
  <2>2. x \in Run /\ x.at = "sent" /\ x.rows = work[w].rows /\ x.late = work[w].late /\ x.out = work[w].out
        /\ x.staged = work[w].staged
    BY <1>0 DEF Run, At
  <2> QED BY <1>0, <2>1, <2>2 DEF Fit, Got, Asks
<1> QED BY <1>1, <1>2, <1>3

LEMMA MinIsIn == ASSUME NEW S \in SUBSET Nat, S # {} PROVE Min(S) \in S
<1>1. PICK m \in S : \A y \in S : m <= y
  <2>1. PICK m \in S : \A y \in S : ~(<<y, m>> \in OpToRel(<, Nat))
    BY NatLessThanWellFounded, WFMin
  <2>2. \A y \in S : ~(y < m)
    BY <2>1 DEF OpToRel
  <2> QED BY <2>2
<1> QED BY <1>1 DEF Min

\* The next recipient is asked, and what becomes of the counts.
Told(r, answer, late) ==
    \/ /\ answer = "sent" /\ received' = Inc(received, r)
       /\ unrecorded' = IF r \in late THEN Inc(unrecorded, r) ELSE unrecorded
    \/ answer # "sent" /\ received' = received /\ unrecorded' = unrecorded
    \/ answer # "sent" /\ received' = Inc(received, r) /\ unrecorded' = Inc(unrecorded, r)
SentRun(x, y, r, answer) ==
    /\ x.rows = y.rows /\ x.late = y.late /\ x.staged = y.staged
    /\ x.at \in {"sending", "sent"} /\ (x.at = "sent" => x.rows \subseteq DOMAIN x.out)
    /\ DOMAIN x.out = DOMAIN y.out \cup {r} /\ x.out[r] = answer
    /\ \A q \in DOMAIN y.out : q # r => x.out[q] = y.out[q]

LEMMA SendIs ==
    ASSUME Queue, NEW w \in Workers, Send(w)
    PROVE  /\ work[w].at = "sending" /\ UNCHANGED <<job, rec, cancel, bot, world>>
           /\ \E r \in work[w].rows \ DOMAIN work[w].out : \E answer \in Answer \ {"park"} : \E x \in Run :
              /\ work' = [work EXCEPT ![w] = x] /\ SentRun(x, work[w], r, answer)
              /\ tries' = Inc(tries, r) /\ Told(r, answer, work[w].late)
<1> DEFINE y == work[w]
           left == y.rows \ DOMAIN y.out
           r == Min(left)
<1>1. /\ y.at = "sending" /\ UNCHANGED <<job, rec, cancel, bot, world>> /\ left # {} /\ tries' = Inc(tries, r)
  BY DEF Send
<1>2. y \in Run
  BY RunsTyped
<1>3. left \in SUBSET Nat /\ r \in left
  <2>1. left \in SUBSET Nat
    BY <1>2, IdsAssumption DEF Run
  <2> QED BY <1>1, <2>1, MinIsIn
<1>4. PICK answer \in Answers(w) :
         LET unclear == answer = <<"failed", TRUE>>
             lost == unclear \/ (answer[2] /\ r \in y.late)
         IN /\ work' = [work EXCEPT ![w].out = Onto([x \in {r} |-> answer[1]], @),
                                    ![w].at = IF left = {r} THEN "sent" ELSE @]
            /\ received' = IF answer[2] THEN Inc(received, r) ELSE received
            /\ unrecorded' = IF lost THEN Inc(unrecorded, r) ELSE unrecorded
            /\ faults' = faults + IF unclear THEN 1 ELSE 0
  BY DEF Send
<1>5. answer \in {<<"sent", TRUE>>, <<"failed", FALSE>>, <<"blocked", FALSE>>, <<"failed", TRUE>>}
  BY DEF Answers
<1>6. answer[1] \in Answer \ {"park"}
  <2>1. CASE answer = <<"sent", TRUE>>
    BY <2>1 DEF Answer
  <2>2. CASE answer = <<"failed", FALSE>>
    BY <2>2 DEF Answer
  <2>3. CASE answer = <<"blocked", FALSE>>
    BY <2>3 DEF Answer
  <2>4. CASE answer = <<"failed", TRUE>>
    BY <2>4 DEF Answer
  <2> QED BY <1>5, <2>1, <2>2, <2>3, <2>4
<1>7. Told(r, answer[1], y.late)
  <2>1. CASE answer = <<"sent", TRUE>>
    BY <1>4, <2>1 DEF Told
  <2>2. CASE answer = <<"failed", FALSE>> \/ answer = <<"blocked", FALSE>>
    <3>1. ~answer[2] /\ answer[1] # "sent"
      <4>1. CASE answer = <<"failed", FALSE>>
        BY <4>1
      <4>2. CASE answer = <<"blocked", FALSE>>
        BY <4>2
      <4> QED BY <2>2, <4>1, <4>2
    <3>2. ASSUME answer = <<"failed", TRUE>> PROVE FALSE
      <4>1. answer[2]
        BY <3>2
      <4> QED BY <3>1, <4>1
    <3> QED BY <1>4, <3>1, <3>2 DEF Told
  <2>3. CASE answer = <<"failed", TRUE>>
    BY <1>4, <2>3 DEF Told
  <2> QED BY <1>5, <2>1, <2>2, <2>3
<1> DEFINE one == [x \in {r} |-> answer[1]]
           out == Onto(one, y.out)
           at == IF left = {r} THEN "sent" ELSE y.at
           x == [y EXCEPT !.out = out, !.at = at]
<1>8. work' = [work EXCEPT ![w] = x]
  BY <1>4, <1>2 DEF Run, Queue, Types
<1>9. /\ out \in Partial(Rows, Answer) /\ DOMAIN out = {r} \cup DOMAIN y.out /\ out[r] = answer[1]
      /\ \A q \in DOMAIN y.out : q # r => out[q] = y.out[q]
  <2>1. one \in [{r} -> Answer] /\ {r} \in SUBSET Rows
    BY <1>2, <1>3, <1>6 DEF Run
  <2>2. one \in Partial(Rows, Answer) /\ DOMAIN one = {r} /\ one[r] = answer[1]
    BY <2>1, IsPartial
  <2>3. y.out \in Partial(Rows, Answer)
    BY <1>2 DEF Run
  <2> HIDE DEF one, y
  <2> QED BY <2>2, <2>3, PartialOnto
<1>10. x \in Run /\ x.rows = y.rows /\ x.late = y.late /\ x.staged = y.staged /\ x.out = out /\ x.at = at
  <2> HIDE DEF out, y
  <2> QED BY <1>1, <1>2, <1>9 DEF Run, At
<1>11. at \in {"sending", "sent"} /\ (at = "sent" => y.rows \subseteq DOMAIN out)
  <2> HIDE DEF y, out
  <2> QED BY <1>1, <1>9
<1>12. SentRun(x, y, r, answer[1])
  <2> HIDE DEF y, out, x, at, r
  <2> QED BY <1>9, <1>10, <1>11 DEF SentRun
<1>13. r \in y.rows \ DOMAIN y.out
  BY <1>3
<1> HIDE DEF x, r, left
<1> QED BY <1>1, <1>6, <1>7, <1>8, <1>10, <1>12, <1>13

LEMMA ReadRowsIs ==
    ASSUME Queue, NEW w \in Workers, ReadRows(w)
    PROVE  /\ work[w].at = "sent" /\ UNCHANGED <<job, rec, cancel, bot, world, received, tries>>
           /\ unrecorded' = Plus(unrecorded, {r \in work[w].rows \ (Own(w) \cup work[w].late) : Delivered(w, r)})
           /\ \E x \in Run :
              /\ work' = [work EXCEPT ![w] = x] /\ x.at = "read" /\ x.rows = Own(w) /\ x.late = {}
              /\ x.out = work[w].out /\ x.staged = work[w].staged
              /\ DOMAIN x.read = Own(w) /\ \A r \in Own(w) : x.read[r] = rec[r].attempts
<1>1. work[w] \in Run
  BY RunsTyped
<1> DEFINE read == [r \in Own(w) |-> rec[r].attempts]
           x == [work[w] EXCEPT !.at = "read", !.rows = Own(w), !.late = {}, !.read = read]
<1>2. Own(w) \in SUBSET Rows /\ read \in Partial(Rows, Nat)
  <2>1. Own(w) \in SUBSET Rows /\ \A r \in Own(w) : rec[r] # None
    BY <1>1 DEF Own, Run
  <2>2. \A r \in Own(w) : rec[r].attempts \in Nat
    BY <2>1, RowsTyped DEF Queue, Row
  <2>3. read \in [Own(w) -> Nat]
    BY <2>2
  <2> QED BY <2>1, <2>3, IsPartial
<1>3. work' = [work EXCEPT ![w] = x]
  BY <1>1 DEF ReadRows, Run, Queue, Types
<1>4. /\ x \in Run /\ x.at = "read" /\ x.rows = Own(w) /\ x.late = {} /\ x.read = read
      /\ x.out = work[w].out /\ x.staged = work[w].staged
  <2> HIDE DEF read
  <2> QED BY <1>1, <1>2 DEF Run, At
<1>5. DOMAIN read = Own(w) /\ \A r \in Own(w) : read[r] = rec[r].attempts
  OBVIOUS
<1>6. work[w].at = "sent" /\ UNCHANGED <<job, rec, cancel, bot, world, received, tries>>
      /\ unrecorded' = Plus(unrecorded, {r \in work[w].rows \ (Own(w) \cup work[w].late) : Delivered(w, r)})
  BY DEF ReadRows, Quiet
<1> HIDE DEF x, read
<1> QED BY <1>3, <1>4, <1>5, <1>6

LEMMA ApplyIs ==
    ASSUME Queue, NEW w \in Workers, apply_outcomes(w)
    PROVE  /\ work[w].at = "read" /\ UNCHANGED <<job, rec, cancel, bot, world, received, tries>>
           /\ work[w].rows \cap Locked = {}
           /\ unrecorded' = Plus(unrecorded, {r \in work[w].rows \cap work[w].late : ~Delivered(w, r)})
           /\ \E x \in Run :
              /\ work' = [work EXCEPT ![w] = x] /\ x.at = "recording" /\ x.rows = work[w].rows
              /\ x.late = work[w].late /\ x.out = work[w].out /\ DOMAIN x.staged = x.rows
              /\ \A r \in x.rows : /\ work[w].out[r] \in Answer /\ work[w].read[r] \in Nat
                                   /\ x.staged[r] = Outcome(r, work[w].out[r], work[w].read[r])
<1> DEFINE y == work[w]
           staged == [r \in y.rows |-> Outcome(r, y.out[r], y.read[r])]
           x == [y EXCEPT !.at = "recording", !.staged = staged, !.ends = Ends(staged)]
<1>1. y \in Run /\ Fit(w, y, rec)
  BY RunsTyped
<1>2. y.at = "read" /\ UNCHANGED <<job, rec, cancel, bot, world, received, tries>> /\ y.rows \cap Locked = {}
      /\ unrecorded' = Plus(unrecorded, {r \in y.rows \cap y.late : ~Delivered(w, r)})
  BY DEF apply_outcomes, Quiet
<1>3. \A r \in y.rows : r \in Rows /\ rec[r] # None /\ y.out[r] \in Answer /\ y.read[r] \in Nat
  <2>1. y.rows \subseteq DOMAIN y.out /\ DOMAIN y.read = y.rows /\ \A r \in y.rows : rec[r] # None
    BY <1>1, <1>2 DEF Fit
  <2>2. y.out \in Partial(Rows, Answer) /\ y.read \in Partial(Rows, Nat) /\ y.rows \subseteq Rows
    BY <1>1 DEF Run
  <2> HIDE DEF y
  <2>3. \A r \in DOMAIN y.out : y.out[r] \in Answer
    BY <2>2, PartialIs
  <2>4. \A r \in DOMAIN y.read : y.read[r] \in Nat
    BY <2>2, PartialIs
  <2> QED BY <2>1, <2>2, <2>3, <2>4
<1>4. staged \in Partial(Rows, Row)
  <2>1. \A r \in y.rows : Outcome(r, y.out[r], y.read[r]) \in Row
    BY <1>3, OutcomeIs DEF Queue
  <2>2. staged \in [y.rows -> Row] /\ y.rows \in SUBSET Rows
    BY <1>3, <2>1
  <2> QED BY <2>2, IsPartial
<1>5. work' = [work EXCEPT ![w] = x]
  BY <1>1 DEF apply_outcomes, Run, Queue, Types
<1>6. Ends(staged) \in Partial(Jobs, Job)
  <2> HIDE DEF staged
  <2> QED BY <1>4, EndsTyped DEF Queue
<1>7. DOMAIN staged = y.rows /\ \A r \in y.rows : staged[r] = Outcome(r, y.out[r], y.read[r])
  OBVIOUS
<1>8. x \in Run /\ x.at = "recording" /\ x.rows = y.rows /\ x.late = y.late /\ x.out = y.out /\ x.staged = staged
  <2> HIDE DEF staged, y
  <2> QED BY <1>1, <1>4, <1>6 DEF Run, At
<1> HIDE DEF x, staged
<1> QED BY <1>2, <1>3, <1>5, <1>7, <1>8

-----------------------------------------------------------------------------
(* Every step keeps the queue sound.                                       *)

LEMMA PlusIs ==
    ASSUME NEW f, Counted(f), NEW rows
    PROVE  /\ Counted(Plus(f, rows))
           /\ \A r \in Rows : Plus(f, rows)[r] = IF r \in rows THEN f[r] + 1 ELSE f[r]
BY DEF Plus, Counted

LEMMA IncIs ==
    ASSUME NEW f, Counted(f), NEW r \in Rows
    PROVE  /\ Counted(Inc(f, r)) /\ Inc(f, r)[r] = f[r] + 1
           /\ \A q \in Rows : q # r => Inc(f, r)[q] = f[q]
BY DEF Inc, Counted

LEMMA CountsTyped == ASSUME Queue PROVE Counted(received) /\ Counted(tries) /\ Counted(unrecorded)
BY DEF Queue, Types

LEMMA CalmKeeps ==
    ASSUME Queue, NEW w \in Workers, Drained(w) \/ ReadToken(w) \/ MarkShopRevoked(w)
    PROVE  Queue'
<1>1. /\ work[w].at # "idle" /\ stored' \in {stored, None}
      /\ UNCHANGED <<job, rec, cancel, alive, runner, starting, world, history>>
  BY CalmIs
<1>2. PICK x \in Run : /\ work' = [work EXCEPT ![w] = x] /\ Fit(w, x, rec)
                       /\ DOMAIN x.staged = DOMAIN work[w].staged
  BY CalmIs
<1>3. Counted(received') /\ Counted(tries') /\ Counted(unrecorded')
  BY <1>1, CountsTyped DEF history
<1> QED BY <1>1, <1>2, <1>3, RunTurns

LEMMA CrashKeeps == ASSUME Queue, NEW w \in Workers, Crash(w) PROVE Queue'
<1>1. /\ work' = [work EXCEPT ![w] = Idle] /\ UNCHANGED <<job, rec, cancel, bot, world>>
      /\ received' = received /\ tries' = tries
      /\ unrecorded' = Plus(unrecorded, {r \in work[w].rows \ work[w].late : Delivered(w, r)})
  BY DEF Crash
<1>2. Counted(received') /\ Counted(tries') /\ Counted(unrecorded')
  BY <1>1, CountsTyped, PlusIs
<1>3. Fit(w, Idle, rec)
  BY IdleRun DEF Fit
<1> QED BY <1>1, <1>2, <1>3, IdleRun, RunTurns DEF bot

LEMMA SendKeeps == ASSUME Queue, NEW w \in Workers, Send(w) PROVE Queue'
<1>1. work[w].at = "sending" /\ UNCHANGED <<job, rec, cancel, bot, world>>
  BY SendIs
<1>2. PICK r \in work[w].rows \ DOMAIN work[w].out, answer \in Answer \ {"park"}, x \in Run :
          /\ work' = [work EXCEPT ![w] = x] /\ SentRun(x, work[w], r, answer)
          /\ tries' = Inc(tries, r) /\ Told(r, answer, work[w].late)
  BY SendIs
<1>3. r \in Rows
  BY RunsTyped DEF Run
<1>4. Counted(received') /\ Counted(tries') /\ Counted(unrecorded')
  BY <1>2, <1>3, CountsTyped, IncIs DEF Told
<1>5. Fit(w, x, rec)
  BY <1>1, <1>2, RunsTyped DEF Fit, SentRun
<1>6. x.staged = work[w].staged
  BY <1>2 DEF SentRun
<1> QED BY <1>1, <1>2, <1>4, <1>5, <1>6, RunTurns DEF bot

LEMMA ReadRowsKeeps == ASSUME Queue, NEW w \in Workers, ReadRows(w) PROVE Queue'
<1>1. /\ work[w].at = "sent" /\ UNCHANGED <<job, rec, cancel, bot, world, received, tries>>
      /\ unrecorded' = Plus(unrecorded, {r \in work[w].rows \ (Own(w) \cup work[w].late) : Delivered(w, r)})
  BY ReadRowsIs
<1>2. PICK x \in Run :
          /\ work' = [work EXCEPT ![w] = x] /\ x.at = "read" /\ x.rows = Own(w) /\ x.late = {}
          /\ x.out = work[w].out /\ x.staged = work[w].staged /\ DOMAIN x.read = Own(w)
  BY ReadRowsIs
<1>3. Counted(received') /\ Counted(tries') /\ Counted(unrecorded')
  BY <1>1, CountsTyped, PlusIs
<1>4. Fit(w, x, rec)
  BY <1>1, <1>2, RunsTyped DEF Fit, Own
<1> QED BY <1>1, <1>2, <1>3, <1>4, RunTurns DEF bot

LEMMA ApplyKeeps == ASSUME Queue, NEW w \in Workers, apply_outcomes(w) PROVE Queue'
<1>1. /\ work[w].at = "read" /\ UNCHANGED <<job, rec, cancel, bot, world, received, tries>>
      /\ work[w].rows \cap Locked = {}
      /\ unrecorded' = Plus(unrecorded, {r \in work[w].rows \cap work[w].late : ~Delivered(w, r)})
  BY ApplyIs
<1>2. PICK x \in Run :
          /\ work' = [work EXCEPT ![w] = x] /\ x.at = "recording" /\ x.rows = work[w].rows
          /\ x.late = work[w].late /\ x.out = work[w].out /\ DOMAIN x.staged = x.rows
          /\ \A r \in x.rows : /\ work[w].out[r] \in Answer /\ work[w].read[r] \in Nat
                               /\ x.staged[r] = Outcome(r, work[w].out[r], work[w].read[r])
  BY ApplyIs
<1>3. Counted(received') /\ Counted(tries') /\ Counted(unrecorded')
  BY <1>1, CountsTyped, PlusIs
<1>4. ASSUME NEW r \in x.rows
      PROVE  /\ x.staged[r].status \in {"sent", "blocked", "failed", "retry_wait"} /\ x.staged[r].owner = None
             /\ Got(x, r) => x.staged[r].status = "sent"
  <2>1. r \in Rows /\ rec[r] # None
    BY <1>2, RunsTyped DEF Run, Fit
  <2> QED BY <1>2, <2>1, OutcomeIs DEF Queue, Got
<1>5. Fit(w, x, rec)
  BY <1>1, <1>2, <1>4, RunsTyped DEF Fit
<1> QED BY <1>1, <1>2, <1>3, <1>5, RunTurns DEF bot

LEMMA LateRun ==
    ASSUME NEW y \in Run, NEW lost
    PROVE  LET z == [y EXCEPT !.late = @ \cup (lost \cap y.rows)]
           IN /\ z \in Run /\ z.late = y.late \cup (lost \cap y.rows) /\ z.rows = y.rows /\ z.at = y.at
              /\ z.out = y.out /\ z.staged = y.staged /\ z.read = y.read
BY DEF Run

\* The rows whose leases a commit takes from others.
LostRows(w) == IF work[w].at = "reclaiming" THEN DOMAIN work[w].staged ELSE {}
LEMMA CommitIs ==
    ASSUME Queue, NEW w \in Workers, Commit(w)
    PROVE  /\ work[w].at \in {"reclaiming", "recording"}
           /\ UNCHANGED <<bot, received, tries, cancel, world>>
           /\ unrecorded' = Plus(unrecorded, {r \in LostRows(w) : Delivered(rec[r].owner, r)})
           /\ rec' \in [Rows -> Row \cup {None}] /\ job' \in [Jobs -> Job \cup {None}] /\ work' \in [Workers -> Run]
           /\ DOMAIN work[w].staged \subseteq Rows
           /\ \A r \in Rows : IF r \in DOMAIN work[w].staged
                              THEN rec'[r] = work[w].staged[r] /\ rec'[r] \in Row ELSE rec'[r] = rec[r]
           /\ \A j \in Jobs : job'[j] = None => job[j] = None
           /\ work'[w].at = "claiming" /\ work'[w].rows = {} /\ work'[w].late = {}
           /\ DOMAIN work'[w].out = {} /\ DOMAIN work'[w].staged = {}
           /\ \A v \in Workers \ {w} :
                /\ work'[v].late = work[v].late \cup (LostRows(w) \cap work[v].rows) /\ work'[v].rows = work[v].rows
                /\ work'[v].at = work[v].at /\ work'[v].out = work[v].out /\ work'[v].staged = work[v].staged
                /\ work'[v].read = work[v].read
<1>1. /\ work[w].at \in {"reclaiming", "recording"} /\ UNCHANGED <<bot, received, tries, cancel, world>>
      /\ rec' = Onto(work[w].staged, rec) /\ job' = Onto(work[w].ends, job)
      /\ work' = [LostTo(w, LostRows(w)) EXCEPT ![w] = [Idle EXCEPT !.at = "claiming"]]
      /\ unrecorded' = Plus(unrecorded, {r \in LostRows(w) : Delivered(rec[r].owner, r)})
  BY DEF Commit, LostRows, With, Quiet
<1>2. \A v \in Workers : work[v] \in Run
  BY RunsTyped
<1>3. /\ rec' \in [Rows -> Row \cup {None}] /\ DOMAIN work[w].staged \subseteq Rows
      /\ \A r \in Rows : IF r \in DOMAIN work[w].staged
                         THEN rec'[r] = work[w].staged[r] /\ rec'[r] \in Row ELSE rec'[r] = rec[r]
  <2>1. work[w].staged \in Partial(Rows, Row) /\ rec \in [Rows -> Row \cup {None}]
    BY <1>2 DEF Run, Queue, Types
  <2>2. DOMAIN work[w].staged \subseteq Rows /\ \A r \in DOMAIN work[w].staged : work[w].staged[r] \in Row
    BY <2>1, PartialIs
  <2>3. work[w].staged \in Partial(Rows, Row \cup {None})
    BY <2>1 DEF Partial
  <2> QED BY <1>1, <2>1, <2>2, <2>3, OntoIs
<1>4. job' \in [Jobs -> Job \cup {None}] /\ \A j \in Jobs : job'[j] = None => job[j] = None
  <2>1. work[w].ends \in Partial(Jobs, Job) /\ job \in [Jobs -> Job \cup {None}]
    BY <1>2 DEF Run, Queue, Types
  <2>2. work[w].ends \in Partial(Jobs, Job \cup {None})
    BY <2>1 DEF Partial
  <2>3. /\ job' \in [Jobs -> Job \cup {None}]
        /\ \A j \in Jobs : job'[j] = IF j \in DOMAIN work[w].ends THEN work[w].ends[j] ELSE job[j]
    BY <1>1, <2>1, <2>2, OntoIs
  <2>4. \A j \in DOMAIN work[w].ends : work[w].ends[j] \in Job
    BY <2>1, PartialIs
  <2> QED BY <2>3, <2>4, NoneDeliveriesAssumption
<1> DEFINE x == [Idle EXCEPT !.at = "claiming"]
<1>5. x \in Run /\ x.at = "claiming" /\ x.rows = {} /\ x.late = {} /\ DOMAIN x.out = {} /\ DOMAIN x.staged = {}
  BY IdleRun DEF Run, At
<1>6. work'[w] = x
  BY <1>1 DEF LostTo
<1>7. \A v \in Workers \ {w} : work'[v] = [work[v] EXCEPT !.late = @ \cup (LostRows(w) \cap work[v].rows)]
  BY <1>1 DEF LostTo
<1> HIDE DEF x
<1>8. ASSUME NEW v \in Workers \ {w}
      PROVE  /\ work'[v] \in Run
             /\ work'[v].late = work[v].late \cup (LostRows(w) \cap work[v].rows) /\ work'[v].rows = work[v].rows
             /\ work'[v].at = work[v].at /\ work'[v].out = work[v].out /\ work'[v].staged = work[v].staged
             /\ work'[v].read = work[v].read
  <2> DEFINE y == work[v]
             z == [y EXCEPT !.late = @ \cup (LostRows(w) \cap y.rows)]
  <2>1. work'[v] = z /\ y \in Run
    BY <1>2, <1>7
  <2>2. /\ z \in Run /\ z.late = y.late \cup (LostRows(w) \cap y.rows) /\ z.rows = y.rows /\ z.at = y.at
        /\ z.out = y.out /\ z.staged = y.staged /\ z.read = y.read
    BY <2>1, LateRun
  <2> HIDE DEF z
  <2> QED BY <2>1, <2>2
<1>9. work' \in [Workers -> Run]
  <2>1. work' \in [Workers -> {work'[v] : v \in Workers}]
    BY <1>1 DEF LostTo
  <2> QED BY <1>5, <1>6, <1>8, <2>1
<1> QED BY <1>1, <1>3, <1>4, <1>5, <1>6, <1>8, <1>9

LEMMA CommitKeeps == ASSUME Queue, NEW w \in Workers, Commit(w) PROVE Queue'
<1> DEFINE D == DOMAIN work[w].staged
<1>1. /\ work[w].at \in {"reclaiming", "recording"}
      /\ UNCHANGED <<bot, received, tries, cancel, world>>
      /\ unrecorded' = Plus(unrecorded, {r \in LostRows(w) : Delivered(rec[r].owner, r)})
      /\ rec' \in [Rows -> Row \cup {None}] /\ job' \in [Jobs -> Job \cup {None}] /\ work' \in [Workers -> Run]
      /\ D \subseteq Rows /\ \A j \in Jobs : job'[j] = None => job[j] = None
  BY CommitIs
<1>2. \A r \in Rows : IF r \in D THEN rec'[r] = work[w].staged[r] /\ rec'[r] \in Row ELSE rec'[r] = rec[r]
  BY CommitIs
<1>3. /\ work'[w].at = "claiming" /\ work'[w].rows = {} /\ work'[w].late = {}
      /\ DOMAIN work'[w].out = {} /\ DOMAIN work'[w].staged = {}
  BY CommitIs
<1>4. \A v \in Workers \ {w} :
                /\ work'[v].late = work[v].late \cup (LostRows(w) \cap work[v].rows) /\ work'[v].rows = work[v].rows
                /\ work'[v].at = work[v].at /\ work'[v].out = work[v].out /\ work'[v].staged = work[v].staged
                /\ work'[v].read = work[v].read
  BY CommitIs
<1>5. \A r \in D : rec[r] # None /\ rec'[r] # None /\ rec'[r].owner = None /\ rec'[r].status # "sending"
  <2>1. Fit(w, work[w], rec)
    BY RunsTyped
  <2>2. \A r \in D : rec'[r] = work[w].staged[r] /\ rec'[r] # None
    BY <1>1, <1>2, NoneDeliveriesAssumption
  <2>3. CASE work[w].at = "reclaiming"
    BY <2>1, <2>2, <2>3 DEF Fit
  <2>4. CASE work[w].at = "recording"
    BY <2>1, <2>2, <2>4 DEF Fit
  <2> QED BY <1>1, <2>3, <2>4
<1>6. \A r \in Rows : rec'[r] = None <=> rec[r] = None
  BY <1>2, <1>5
<1>7. Types'
  <2>1. \A r \in Rows : RowFit(rec'[r])
    BY <1>2, <1>5 DEF RowFit, Queue, Types
  <2>2. Counted(unrecorded')
    BY <1>1, CountsTyped, PlusIs
  <2> QED BY <1>1, <2>1, <2>2 DEF Queue, Types, Counted, bot
<1>8. ASSUME NEW v \in Workers PROVE Fit(v, work'[v], rec')
  <2>1. CASE v = w
    BY <1>3, <2>1 DEF Fit
  <2>2. CASE v # w
    <3>1. Fit(v, work[v], rec) /\ work[v].rows \subseteq Rows /\ work[v].late \subseteq Rows
          /\ DOMAIN work[v].staged \subseteq Rows
      BY RunsTyped, LockedRows DEF Run, Queue
    <3>2. \A r \in DOMAIN work[v].staged : rec'[r] = rec[r]
      BY <1>2, <2>2, <3>1 DEF Queue, Sound, Apart
    <3>3. \A r \in work[v].rows : rec'[r] # None
      BY <1>6, <3>1 DEF Fit
    <3>4. \A r \in work'[v].late : rec'[r] # None => ~(rec'[r].status = "sending" /\ rec'[r].owner = v)
      <4>1. LostRows(w) \subseteq D
        BY DEF LostRows
      <4> QED BY <1>2, <1>4, <1>5, <2>2, <3>1, <4>1 DEF Fit
    <3>5. work[v].at \in {"idle", "reclaiming", "claiming"} => work'[v].late = {}
      BY <1>4, <2>2, <3>1 DEF Fit
    <3>6. /\ work'[v].rows = work[v].rows /\ work'[v].at = work[v].at /\ work'[v].out = work[v].out
          /\ work'[v].staged = work[v].staged /\ work'[v].read = work[v].read
      BY <1>4, <2>2
    <3> QED BY <3>1, <3>2, <3>3, <3>4, <3>5, <3>6 DEF Fit, Got
  <2> QED BY <2>1, <2>2
<1>9. Apart'
  <2>1. \A v \in Workers \ {w} : DOMAIN work'[v].staged = DOMAIN work[v].staged
    BY <1>4
  <2>2. \A v \in Workers : DOMAIN work'[v].staged = DOMAIN work[v].staged \/ DOMAIN work'[v].staged = {}
    BY <1>3, <2>1
  <2> QED BY <2>2 DEF Queue, Sound, Apart
<1>10. (\A v \in Workers \ world.workers : work[v].at = "idle")'
  <2>1. world' = world /\ \A v \in Workers \ world.workers : work[v].at = "idle"
    BY <1>1 DEF Queue, Sound
  <2>2. w \in world.workers
    BY <1>1, <2>1
  <2> QED BY <1>4, <2>1, <2>2
<1>11. /\ (\A j \in Jobs : cancel[j] # None => \A r \in cancel[j] : JobOf[r] = j /\ rec[r] # None)'
       /\ (\A r \in Rows : rec[r] # None => job[JobOf[r]] # None)'
  <2>1. \A j \in Jobs : cancel[j] # None => cancel[j] \subseteq Rows
    BY DEF Queue, Types
  <2> QED BY <1>1, <1>6, <2>1, JobOfAssumption DEF Queue, Sound
<1> QED BY <1>7, <1>8, <1>9, <1>10, <1>11 DEF Queue, Sound

LEMMA ClaimIs ==
    ASSUME Queue, NEW w \in Workers, Claim(w)
    PROVE  /\ work[w].at = "claiming" /\ UNCHANGED <<bot, history, cancel, world>>
           /\ rec' \in [Rows -> Row \cup {None}] /\ job' \in [Jobs -> Job \cup {None}]
           /\ \A j \in Jobs : job'[j] = None => job[j] = None
           /\ \E x \in Run :
              /\ work' = [work EXCEPT ![w] = x] /\ x.at = "claimed" /\ x.rows \cap Locked = {} /\ x.late = {}
              /\ x.out = work[w].out /\ x.staged = work[w].staged
              /\ \A r \in x.rows : /\ rec[r] # None /\ rec[r].status \in CLAIMABLE /\ rec'[r] = Claimed(w, r)
                                   /\ rec'[r] \in Row /\ rec'[r].owner = w /\ rec'[r].status = "sending"
                                   /\ rec'[r].attempts = rec[r].attempts + 1
              /\ \A r \in Rows \ x.rows : rec'[r] = rec[r]
<1>1. work[w].at = "claiming" /\ UNCHANGED <<bot, history, cancel, world>>
  BY DEF Claim, Quiet
<1>2. PICK rows \in Batch(Claimable) :
        /\ rec' = Onto([r \in rows |-> Claimed(w, r)], rec)
        /\ job' = [j \in Jobs |-> IF job[j] = "queued" /\ RowsOf(j) \cap rows # {} THEN "running" ELSE job[j]]
        /\ work' = [work EXCEPT ![w].at = "claimed", ![w].rows = rows]
  BY DEF Claim, With
<1>3. /\ rows \subseteq Rows /\ rows \cap Locked = {}
      /\ \A r \in rows : rec[r] # None /\ rec[r].status \in CLAIMABLE
  BY DEF Batch, Claimable
<1>4. ASSUME NEW r \in rows
      PROVE  /\ Claimed(w, r) \in Row /\ Claimed(w, r).owner = w /\ Claimed(w, r).status = "sending"
             /\ Claimed(w, r).attempts = rec[r].attempts + 1
  <2>1. rec[r] \in Row
    BY <1>3, RowsTyped DEF Queue
  <2> DEFINE q == rec[r]
             n == q.attempts + 1
  <2>2. Claimed(w, r) = [q EXCEPT !.status = "sending", !.owner = w, !.over = FALSE, !.attempts = n]
    BY DEF Claimed
  <2>3. q \in Row /\ n \in Nat
    BY <2>1 DEF Row
  <2> HIDE DEF q, n
  <2>4. /\ Claimed(w, r) \in Row /\ Claimed(w, r).owner = w /\ Claimed(w, r).status = "sending"
        /\ Claimed(w, r).attempts = n
    BY <2>2, <2>3 DEF Row
  <2> QED BY <2>4 DEF n, q
<1>5. /\ rec' \in [Rows -> Row \cup {None}]
      /\ \A r \in Rows : rec'[r] = IF r \in rows THEN Claimed(w, r) ELSE rec[r]
  <2> DEFINE new == [r \in rows |-> Claimed(w, r)]
  <2>1. new \in [rows -> Row \cup {None}] /\ rows \in SUBSET Rows
    BY <1>3, <1>4
  <2>2. new \in Partial(Rows, Row \cup {None}) /\ DOMAIN new = rows /\ \A r \in rows : new[r] = Claimed(w, r)
    BY <2>1, IsPartial
  <2>3. rec \in [Rows -> Row \cup {None}] /\ rec' = Onto(new, rec)
    BY <1>2 DEF Queue, Types
  <2> HIDE DEF new
  <2> QED BY <2>2, <2>3, OntoIs
<1>6. job' \in [Jobs -> Job \cup {None}] /\ \A j \in Jobs : job'[j] = None => job[j] = None
  BY <1>2, NoneDeliveriesAssumption DEF Queue, Types, Job
<1>7. work[w] \in Run
  BY RunsTyped
<1> DEFINE x == [work[w] EXCEPT !.at = "claimed", !.rows = rows]
<1>8. /\ x \in Run /\ x.at = "claimed" /\ x.rows = rows /\ x.late = work[w].late /\ x.out = work[w].out
      /\ x.staged = work[w].staged
  BY <1>3, <1>7 DEF Run, At
<1>9. work' = [work EXCEPT ![w] = x]
  <2>1. work' = [work EXCEPT ![w].at = "claimed", ![w].rows = rows]
    BY <1>2
  <2>2. DOMAIN work = Workers
    BY DEF Queue, Types
  <2>3. [work EXCEPT ![w].at = "claimed", ![w].rows = rows] = [work EXCEPT ![w] = x]
    BY <2>2, <1>7 DEF Run
  <2> QED BY <2>1, <2>3
<1>10. work[w].late = {}
  BY <1>1, RunsTyped DEF Fit
<1> HIDE DEF x
<1>11. \A r \in x.rows : /\ rec[r] # None /\ rec[r].status \in CLAIMABLE /\ rec'[r] = Claimed(w, r)
                          /\ rec'[r] \in Row /\ rec'[r].owner = w /\ rec'[r].status = "sending"
                          /\ rec'[r].attempts = rec[r].attempts + 1
  BY <1>3, <1>4, <1>5, <1>8
<1>12. (\A r \in Rows \ x.rows : rec'[r] = rec[r]) /\ x.rows \cap Locked = {} /\ x.late = {}
  BY <1>3, <1>5, <1>8, <1>10
<1>13. x \in Run /\ work' = [work EXCEPT ![w] = x] /\ x.at = "claimed" /\ x.out = work[w].out /\ x.staged = work[w].staged
  BY <1>8, <1>9
<1>14. rec' \in [Rows -> Row \cup {None}]
  BY <1>5
<1> QED BY <1>1, <1>6, <1>11, <1>12, <1>13, <1>14

LEMMA ClaimKeeps == ASSUME Queue, NEW w \in Workers, Claim(w) PROVE Queue'
<1>1. /\ work[w].at = "claiming" /\ UNCHANGED <<bot, history, cancel, world>>
      /\ rec' \in [Rows -> Row \cup {None}] /\ job' \in [Jobs -> Job \cup {None}]
      /\ \A j \in Jobs : job'[j] = None => job[j] = None
  BY ClaimIs
<1>2. PICK x \in Run :
          /\ work' = [work EXCEPT ![w] = x] /\ x.at = "claimed" /\ x.rows \cap Locked = {} /\ x.late = {}
          /\ x.out = work[w].out /\ x.staged = work[w].staged
          /\ \A r \in x.rows : /\ rec[r] # None /\ rec[r].status \in CLAIMABLE /\ rec'[r] = Claimed(w, r)
                               /\ rec'[r] \in Row /\ rec'[r].owner = w /\ rec'[r].status = "sending"
                               /\ rec'[r].attempts = rec[r].attempts + 1
          /\ \A r \in Rows \ x.rows : rec'[r] = rec[r]
  BY ClaimIs
<1>3. work' \in [Workers -> Run] /\ \A v \in Workers : work'[v] = IF v = w THEN x ELSE work[v]
  BY <1>2 DEF Queue, Types
<1>4. \A r \in Rows : rec'[r] = None <=> rec[r] = None
  BY <1>2, NoneDeliveriesAssumption
<1>5. Types'
  <2>1. \A r \in Rows : RowFit(rec'[r])
    BY <1>2, NoneDeliveriesAssumption DEF RowFit, Queue, Types, TERMINAL
  <2> QED BY <1>1, <1>3, <2>1 DEF Queue, Types, Counted, bot, history
<1>6. ASSUME NEW v \in Workers PROVE Fit(v, work'[v], rec')
  <2>1. CASE v = w
    <3>1. DOMAIN work[w].staged = {} /\ DOMAIN work[w].out = {}
      BY <1>1, RunsTyped DEF Fit
    <3>2. \A r \in x.rows : rec'[r] # None
      BY <1>2, NoneDeliveriesAssumption
    <3> QED BY <1>2, <1>3, <2>1, <3>1, <3>2 DEF Fit
  <2>2. CASE v # w
    <3>1. Fit(v, work[v], rec) /\ work[v].rows \subseteq Rows /\ work[v].late \subseteq Rows
          /\ DOMAIN work[v].staged \subseteq Rows /\ DOMAIN work[v].staged \subseteq Locked
      BY RunsTyped, LockedRows DEF Run, Queue
    <3>2. \A r \in DOMAIN work[v].staged : rec'[r] = rec[r]
      BY <1>2, <3>1
    <3>3. \A r \in work[v].rows : rec'[r] # None
      BY <1>4, <3>1 DEF Fit
    <3>4. \A r \in work[v].late : rec'[r] # None => ~(rec'[r].status = "sending" /\ rec'[r].owner = v)
      BY <1>2, <2>2, <3>1 DEF Fit
    <3> QED BY <1>3, <2>2, <3>1, <3>2, <3>3, <3>4 DEF Fit, Got
  <2> QED BY <2>1, <2>2
<1>7. Apart'
  BY <1>2, <1>3 DEF Queue, Sound, Apart
<1>8. (\A v \in Workers \ world.workers : work[v].at = "idle")'
  <2>1. world' = world /\ \A v \in Workers \ world.workers : work[v].at = "idle"
    BY <1>1 DEF Queue, Sound
  <2>2. w \in world.workers
    BY <1>1, <2>1
  <2> QED BY <1>3, <2>1, <2>2
<1>9. /\ (\A j \in Jobs : cancel[j] # None => \A r \in cancel[j] : JobOf[r] = j /\ rec[r] # None)'
      /\ (\A r \in Rows : rec[r] # None => job[JobOf[r]] # None)'
  <2>1. \A j \in Jobs : cancel[j] # None => cancel[j] \subseteq Rows
    BY DEF Queue, Types
  <2> QED BY <1>1, <1>4, <2>1, JobOfAssumption DEF Queue, Sound
<1> QED BY <1>5, <1>6, <1>7, <1>8, <1>9 DEF Queue, Sound

-----------------------------------------------------------------------------
(* Steps in which no worker moves.                                         *)

\* What they may do to a row.
Aside(r) ==
    \/ rec'[r] = rec[r]
    \/ /\ rec[r] # None /\ rec'[r] # None /\ r \notin Locked /\ RowFit(rec'[r])
       /\ rec'[r].attempts = rec[r].attempts /\ rec'[r].owner = rec[r].owner
       /\ rec'[r].status \in {rec[r].status, "canceled"}
    \/ rec'[r] = None /\ r \notin Locked /\ \A w \in Workers : r \notin work[w].rows
    \/ rec[r] = None /\ job[JobOf[r]] = None /\ rec'[r] = NewRow
NoRun ==
    /\ UNCHANGED <<work, bot, world, history>>
    /\ job' \in [Jobs -> Job \cup {None}] /\ rec' \in [Rows -> Row \cup {None}]
    /\ cancel' \in [Jobs -> (SUBSET Rows) \cup {None}]
    /\ \A j \in Jobs : cancel'[j] # None => \A r \in cancel'[j] : JobOf[r] = j /\ rec'[r] # None
    /\ \A r \in Rows : rec'[r] # None => job'[JobOf[r]] # None
    /\ \A j \in Jobs : job'[j] = None => job[j] = None
    /\ \A r \in Rows : Aside(r)

LEMMA LockedExist == ASSUME Queue, NEW r \in Rows, rec[r] = None PROVE r \notin Locked /\ \A w \in Workers : r \notin work[w].rows
<1>1. ASSUME NEW w \in Workers PROVE r \notin DOMAIN work[w].staged /\ r \notin work[w].rows
  BY RunsTyped DEF Fit
<1> QED BY <1>1 DEF Locked

LEMMA NewRowIs == NewRow \in Row /\ RowFit(NewRow) /\ NewRow # None /\ NewRow.status = "pending" /\ NewRow.attempts = 0
<1>1. NewRow \in Row
  BY DEF NewRow, Row, CLAIMABLE
<1>2. NewRow.status = "pending" /\ NewRow.attempts = 0
  BY DEF NewRow
<1> QED BY <1>1, <1>2, NoneDeliveriesAssumption DEF RowFit, TERMINAL

LEMMA NoRunKeeps == ASSUME Queue, NoRun PROVE Queue'
<1>1. ASSUME NEW r \in Rows, rec'[r] # rec[r]
      PROVE  /\ r \notin Locked /\ RowFit(rec'[r])
             /\ rec'[r] = None => \A w \in Workers : r \notin work[w].rows
             /\ rec'[r] # None /\ rec'[r].status = "sending" =>
                    rec[r] # None /\ rec[r].status = "sending" /\ rec'[r].owner = rec[r].owner
  <2>1. Aside(r)
    BY DEF NoRun
  <2>2. CASE rec'[r] = None
    BY <1>1, <2>1, <2>2, NewRowIs DEF Aside, RowFit
  <2>3. CASE rec[r] # None /\ rec'[r] # None
    BY <1>1, <2>1, <2>3 DEF Aside
  <2>4. CASE rec[r] = None /\ rec'[r] # None
    BY <1>1, <2>1, <2>4, LockedExist, NewRowIs DEF Aside
  <2> QED BY <2>2, <2>3, <2>4
<1> QED BY <1>1, RowsAside DEF NoRun

LEMMA WithIs ==
    ASSUME Types, NEW X \in SUBSET Rows, NEW new \in [X -> Row \cup {None}]
    PROVE  /\ With(new) \in [Rows -> Row \cup {None}]
           /\ \A r \in Rows : With(new)[r] = IF r \in X THEN new[r] ELSE rec[r]
<1>1. new \in Partial(Rows, Row \cup {None}) /\ DOMAIN new = X
  BY IsPartial
<1>2. rec \in [Rows -> Row \cup {None}]
  BY DEF Types
<1> QED BY <1>1, <1>2, OntoIs DEF With

LEMMA SnapshotAside ==
    ASSUME Queue, NEW j \in Jobs, enqueue_broadcast(j) \/ enqueue_direct(j)
    PROVE  NoRun
<1>1. UNCHANGED <<work, cancel, bot, world, faults, history>>
  BY DEF enqueue_broadcast, enqueue_direct
<1>2. PICK audience \in SUBSET RowsOf(j) : snapshot_job(j, audience)
  <2>1. CASE enqueue_broadcast(j)
    <3>1. PICK audience \in customers_in_segment(j) : snapshot_job(j, audience)
      BY <2>1 DEF enqueue_broadcast
    <3>2. audience \in SUBSET RowsOf(j)
      BY <3>1 DEF customers_in_segment
    <3> QED BY <3>1, <3>2
  <2>2. CASE enqueue_direct(j)
    <3>1. PICK r \in RowsOf(j) \cap world.rows : snapshot_job(j, {r})
      BY <2>2 DEF enqueue_direct
    <3>2. {r} \in SUBSET RowsOf(j)
      BY <3>1
    <3> QED BY <3>1, <3>2
  <2> QED BY <2>1, <2>2
<1>3. job[j] = None /\ job' = [job EXCEPT ![j] = "queued"] /\ rec' = With([r \in audience |-> NewRow])
  BY <1>2 DEF snapshot_job
<1>4. audience \in SUBSET Rows /\ \A r \in audience : JobOf[r] = j
  BY <1>2 DEF RowsOf
<1>5. rec' \in [Rows -> Row \cup {None}] /\ \A r \in Rows : rec'[r] = IF r \in audience THEN NewRow ELSE rec[r]
  <2> DEFINE new == [r \in audience |-> NewRow]
  <2>1. new \in [audience -> Row \cup {None}] /\ \A r \in audience : new[r] = NewRow
    BY NewRowIs
  <2>2. rec' = With(new)
    BY <1>3
  <2> HIDE DEF new
  <2> QED BY <1>4, <2>1, <2>2, WithIs DEF Queue
<1>6. job' \in [Jobs -> Job \cup {None}] /\ \A i \in Jobs : job'[i] = IF i = j THEN "queued" ELSE job[i]
  BY <1>3 DEF Queue, Types, Job
<1>7. "queued" # None
  BY NoneDeliveriesAssumption DEF Job
<1>8. \A r \in audience : rec[r] = None
  BY <1>3, <1>4 DEF Queue, Sound
<1>9. ASSUME NEW r \in Rows PROVE Aside(r)
  <2>1. CASE r \in audience
    <3>1. rec[r] = None /\ job[JobOf[r]] = None /\ rec'[r] = NewRow
      BY <1>3, <1>4, <1>5, <1>8, <2>1
    <3> QED BY <3>1 DEF Aside
  <2>2. CASE r \notin audience
    BY <1>5, <2>2 DEF Aside
  <2> QED BY <2>1, <2>2
<1>10. \A r \in Rows : rec'[r] # None => job'[JobOf[r]] # None
  BY <1>4, <1>5, <1>6, <1>7, JobOfAssumption DEF Queue, Sound
<1>11. /\ cancel' \in [Jobs -> (SUBSET Rows) \cup {None}]
       /\ \A i \in Jobs : cancel'[i] # None => \A r \in cancel'[i] : JobOf[r] = i /\ rec'[r] # None
  <2>1. cancel' = cancel /\ cancel \in [Jobs -> (SUBSET Rows) \cup {None}]
    BY <1>1 DEF Queue, Types
  <2> QED BY <2>1, <1>5, NewRowIs DEF Queue, Sound
<1>12. \A i \in Jobs : job'[i] = None => job[i] = None
  BY <1>6, <1>7
<1> QED BY <1>1, <1>5, <1>6, <1>9, <1>10, <1>11, <1>12 DEF NoRun

LEMMA CancelReadAside == ASSUME Queue, NEW j \in Jobs, CancelRead(j) PROVE NoRun
<1> DEFINE unsent == {r \in RowsOf(j) : rec[r] # None /\ rec[r].status \in CLAIMABLE}
<1>1. cancel' = [cancel EXCEPT ![j] = unsent] /\ UNCHANGED <<job, rec, work, bot, world, faults, history>>
  BY DEF CancelRead
<1>2. unsent \in SUBSET Rows /\ \A r \in unsent : JobOf[r] = j /\ rec[r] # None
  BY DEF RowsOf
<1>3. /\ job \in [Jobs -> Job \cup {None}] /\ rec \in [Rows -> Row \cup {None}]
      /\ cancel \in [Jobs -> (SUBSET Rows) \cup {None}]
      /\ \A i \in Jobs : cancel[i] # None => \A r \in cancel[i] : JobOf[r] = i /\ rec[r] # None
      /\ \A r \in Rows : rec[r] # None => job[JobOf[r]] # None
  BY DEF Queue, Types, Sound
<1> HIDE DEF unsent
<1>4. cancel' \in [Jobs -> (SUBSET Rows) \cup {None}] /\ \A i \in Jobs : cancel'[i] = IF i = j THEN unsent ELSE cancel[i]
  BY <1>1, <1>2, <1>3
<1>5. \A i \in Jobs : cancel'[i] # None => \A r \in cancel'[i] : JobOf[r] = i /\ rec'[r] # None
  BY <1>1, <1>2, <1>3, <1>4
<1>6. \A r \in Rows : Aside(r)
  BY <1>1 DEF Aside
<1> QED BY <1>1, <1>3, <1>4, <1>5, <1>6 DEF NoRun

LEMMA CancelWriteAside == ASSUME Queue, NEW j \in Jobs, CancelWrite(j) PROVE NoRun
<1> DEFINE canceled == [r \in cancel[j] |-> [rec[r] EXCEPT !.status = "canceled", !.due = FALSE]]
<1>1. /\ cancel[j] # None /\ cancel[j] \cap Locked = {} /\ rec' = With(canceled)
      /\ job' = [job EXCEPT ![j] = "canceled"] /\ cancel' = [cancel EXCEPT ![j] = None]
      /\ UNCHANGED <<work, bot, world, history>>
  BY DEF CancelWrite
<1>2. /\ job \in [Jobs -> Job \cup {None}] /\ rec \in [Rows -> Row \cup {None}]
      /\ cancel \in [Jobs -> (SUBSET Rows) \cup {None}]
      /\ \A i \in Jobs : cancel[i] # None => \A r \in cancel[i] : JobOf[r] = i /\ rec[r] # None
      /\ \A r \in Rows : rec[r] # None => job[JobOf[r]] # None
  BY DEF Queue, Types, Sound
<1>3. cancel[j] \in SUBSET Rows /\ \A r \in cancel[j] : JobOf[r] = j /\ rec[r] # None
  BY <1>1, <1>2
<1>4. ASSUME NEW r \in cancel[j]
      PROVE  /\ canceled[r] \in Row /\ canceled[r].status = "canceled" /\ canceled[r].owner = rec[r].owner
             /\ canceled[r].attempts = rec[r].attempts /\ RowFit(canceled[r])
  <2> DEFINE q == rec[r]
             p == [q EXCEPT !.status = "canceled", !.due = FALSE]
  <2>1. q \in Row /\ canceled[r] = p
    BY <1>3, RowsTyped DEF Queue
  <2>2. p \in Row /\ p.status = "canceled" /\ p.owner = q.owner /\ p.attempts = q.attempts
    <3> HIDE DEF q
    <3> QED BY <2>1 DEF Row, TERMINAL
  <2> HIDE DEF p
  <2>3. RowFit(p)
    BY <2>2 DEF RowFit
  <2> HIDE DEF canceled
  <2> QED BY <2>1, <2>2, <2>3
<1>5. DOMAIN canceled = cancel[j] /\ canceled \in [cancel[j] -> Row \cup {None}]
  BY <1>4
<1> HIDE DEF canceled
<1>6. /\ rec' \in [Rows -> Row \cup {None}]
      /\ \A r \in Rows : rec'[r] = IF r \in cancel[j] THEN canceled[r] ELSE rec[r]
  BY <1>1, <1>3, <1>5, WithIs DEF Queue
<1>7. /\ job' \in [Jobs -> Job \cup {None}] /\ \A i \in Jobs : job'[i] = IF i = j THEN "canceled" ELSE job[i]
      /\ cancel' \in [Jobs -> (SUBSET Rows) \cup {None}] /\ \A i \in Jobs : cancel'[i] = IF i = j THEN None ELSE cancel[i]
  BY <1>1, <1>2 DEF Job
<1>8. "canceled" # None /\ \A r \in Rows : rec'[r] = None <=> rec[r] = None
  BY <1>3, <1>4, <1>6, NoneDeliveriesAssumption DEF Job
<1>9. ASSUME NEW r \in Rows PROVE Aside(r)
  <2>1. CASE r \in cancel[j]
    BY <1>1, <1>3, <1>4, <1>6, <1>8, <2>1 DEF Aside
  <2>2. CASE r \notin cancel[j]
    BY <1>6, <2>2 DEF Aside
  <2> QED BY <2>1, <2>2
<1>10. \A i \in Jobs : cancel'[i] # None => \A r \in cancel'[i] : JobOf[r] = i /\ rec'[r] # None
  BY <1>2, <1>7, <1>8
<1>11. \A r \in Rows : rec'[r] # None => job'[JobOf[r]] # None
  BY <1>2, <1>7, <1>8, JobOfAssumption
<1>12. \A i \in Jobs : job'[i] = None => job[i] = None
  BY <1>7, <1>8
<1> QED BY <1>1, <1>6, <1>7, <1>9, <1>10, <1>11, <1>12 DEF NoRun

LEMMA PruneAside == ASSUME Queue, NEW j \in Jobs, prune_recipients(j) PROVE NoRun
<1> DEFINE gone == [r \in RowsOf(j) |-> None]
<1>1. /\ cancel[j] = None /\ RowsOf(j) \cap Locked = {} /\ rec' = With(gone)
      /\ \A w \in Workers : work[w].rows \cap RowsOf(j) = {}
      /\ UNCHANGED <<job, work, cancel, bot, world, faults, history>>
  BY DEF prune_recipients
<1>2. /\ job \in [Jobs -> Job \cup {None}] /\ cancel \in [Jobs -> (SUBSET Rows) \cup {None}]
      /\ \A i \in Jobs : cancel[i] # None => \A r \in cancel[i] : JobOf[r] = i /\ rec[r] # None
      /\ \A r \in Rows : rec[r] # None => job[JobOf[r]] # None
  BY DEF Queue, Types, Sound
<1>3. RowsOf(j) \in SUBSET Rows /\ gone \in [RowsOf(j) -> Row \cup {None}] /\ \A r \in RowsOf(j) : gone[r] = None
  BY DEF RowsOf
<1> HIDE DEF gone
<1>4. rec' \in [Rows -> Row \cup {None}] /\ \A r \in Rows : rec'[r] = IF r \in RowsOf(j) THEN None ELSE rec[r]
  BY <1>1, <1>3, WithIs DEF Queue
<1>5. ASSUME NEW r \in Rows PROVE Aside(r)
  <2>1. CASE r \in RowsOf(j)
    BY <1>1, <1>4, <2>1 DEF Aside
  <2>2. CASE r \notin RowsOf(j)
    BY <1>4, <2>2 DEF Aside
  <2> QED BY <2>1, <2>2
<1>6. ASSUME NEW i \in Jobs, cancel'[i] # None PROVE \A r \in cancel'[i] : JobOf[r] = i /\ rec'[r] # None
  <2>1. cancel[i] # None /\ cancel[i] \in SUBSET Rows /\ i # j
    BY <1>1, <1>2, <1>6
  <2> QED BY <1>1, <1>2, <1>4, <2>1 DEF RowsOf
<1>7. \A r \in Rows : rec'[r] # None => job'[JobOf[r]] # None
  BY <1>1, <1>2, <1>4
<1> QED BY <1>1, <1>2, <1>4, <1>5, <1>6, <1>7 DEF NoRun

LEMMA TimeAside == ASSUME Queue, NEW r \in Rows, Wait(r) \/ LeaseOver(r) PROVE NoRun
<1> DEFINE q == rec[r]
<1>1. PICK p : /\ p = [q EXCEPT !.due = TRUE] \/ p = [q EXCEPT !.over = TRUE]
               /\ rec' = [rec EXCEPT ![r] = p] /\ q # None /\ r \notin Locked
               /\ UNCHANGED <<job, work, cancel, bot, world, faults, history>>
  BY DEF Wait, LeaseOver
<1>2. q \in Row /\ RowFit(q)
  BY <1>1, RowsTyped DEF Queue
<1>3. p \in Row /\ p.status = q.status /\ p.owner = q.owner /\ p.attempts = q.attempts
  <2> HIDE DEF q
  <2> QED BY <1>1, <1>2 DEF Row
<1>4. p # None /\ RowFit(p)
  BY <1>1, <1>2, <1>3, NoneDeliveriesAssumption DEF RowFit
<1>5. /\ job \in [Jobs -> Job \cup {None}] /\ rec \in [Rows -> Row \cup {None}]
      /\ cancel \in [Jobs -> (SUBSET Rows) \cup {None}]
      /\ \A i \in Jobs : cancel[i] # None => \A s \in cancel[i] : JobOf[s] = i /\ rec[s] # None
      /\ \A s \in Rows : rec[s] # None => job[JobOf[s]] # None
  BY DEF Queue, Types, Sound
<1>6. rec' \in [Rows -> Row \cup {None}] /\ \A s \in Rows : rec'[s] = IF s = r THEN p ELSE rec[s]
  BY <1>1, <1>3, <1>5
<1>7. \A s \in Rows : Aside(s)
  BY <1>1, <1>3, <1>4, <1>6 DEF Aside
<1>8. \A s \in Rows : rec'[s] = None <=> rec[s] = None
  BY <1>1, <1>4, <1>6
<1>9. \A i \in Jobs : cancel'[i] # None => \A s \in cancel'[i] : JobOf[s] = i /\ rec'[s] # None
  BY <1>1, <1>5, <1>8
<1>10. \A s \in Rows : rec'[s] # None => job'[JobOf[s]] # None
  BY <1>1, <1>5, <1>8
<1> QED BY <1>1, <1>5, <1>6, <1>7, <1>9, <1>10 DEF NoRun

LEMMA FleetKeeps ==
    ASSUME Queue, Reissue \/ upsert_bot \/ Fleet
    PROVE  Queue' /\ UNCHANGED <<job, rec, work, cancel, world, history>>
<1>1. UNCHANGED <<job, rec, work, cancel, world, history>>
  BY DEF Reissue, upsert_bot, Fleet, Refused, PollerRevokes, Reconcile, GetMe, GetMeFails, StartRevokes, SameQueue
<1>2. /\ stored \in Tokens \cup {Malformed, None} /\ alive \in Tokens
      /\ runner \in Runner \cup {None} /\ starting \in Start \cup {None}
  BY DEF Queue, Types
<1>3. stored' \in Tokens \cup {Malformed, None} /\ alive' \in Tokens
  BY <1>2, BoundsAssumption
     DEF Reissue, upsert_bot, Fleet, Refused, PollerRevokes, Reconcile, GetMe, GetMeFails, StartRevokes, Tokens
<1>4. runner' \in Runner \cup {None}
  BY <1>2 DEF Reissue, upsert_bot, Fleet, Refused, PollerRevokes, Reconcile, GetMe, GetMeFails, StartRevokes, Runner, Start
<1>5. starting' \in Start \cup {None}
  BY <1>2 DEF Reissue, upsert_bot, Fleet, Refused, PollerRevokes, Reconcile, GetMe, GetMeFails, StartRevokes, Runner, Start
<1>6. Types'
  BY <1>1, <1>3, <1>4, <1>5 DEF Queue, Types, Counted, history
<1>7. Sound'
  BY <1>1 DEF Queue, Sound, Apart
<1> QED BY <1>1, <1>6, <1>7 DEF Queue

LEMMA FirstQueue == ASSUME Init PROVE Queue
<1>1. Types
  <2>1. work \in [Workers -> Run]
    BY IdleRun DEF Init
  <2>2. stored \in Tokens \cup {Malformed, None} /\ alive \in Tokens /\ runner \in Runner \cup {None}
    BY BoundsAssumption DEF Init, Tokens, Runner
  <2>3. Counted(received) /\ Counted(tries) /\ Counted(unrecorded)
    BY DEF Init, Counted
  <2>4. \A r \in Rows : RowFit(rec[r])
    BY DEF Init, RowFit
  <2> QED BY <2>1, <2>2, <2>3, <2>4 DEF Init, Types
<1>2. Sound
  <2>1. \A w \in Workers : work[w] = Idle
    BY DEF Init
  <2>2. \A w \in Workers : Fit(w, work[w], rec)
    BY <2>1, IdleRun DEF Fit
  <2>3. Apart
    BY <2>1, IdleRun DEF Apart
  <2> QED BY <2>1, <2>2, <2>3, IdleRun DEF Init, Sound
<1> QED BY <1>1, <1>2 DEF Queue

\* Every step is a worker's, leaves the workers where they are, or touches the bot only.
LEMMA StepIs ==
    ASSUME Queue, Next
    PROVE  (\E w \in Workers : WorkerStep(w) \/ Crash(w)) \/ NoRun \/ Reissue \/ upsert_bot \/ Fleet
<1>1. ASSUME NEW j \in Jobs,
             enqueue_broadcast(j) \/ enqueue_direct(j) \/ CancelRead(j) \/ CancelWrite(j) \/ prune_recipients(j)
      PROVE  NoRun
  BY <1>1, SnapshotAside, CancelReadAside, CancelWriteAside, PruneAside
<1> QED BY <1>1, TimeAside DEF Next

LEMMA StutterKeeps == ASSUME Queue, UNCHANGED vars PROVE Queue'
<1>1. UNCHANGED <<job, rec, work, cancel, stored, alive, runner, starting, world, received, tries, unrecorded>>
  BY DEF vars, bot, history
<1>2. Types'
  BY <1>1 DEF Queue, Types, Counted
<1>3. Sound'
  BY <1>1 DEF Queue, Sound, Apart
<1> QED BY <1>2, <1>3 DEF Queue

LEMMA StepKeeps == ASSUME Queue, [Next]_vars PROVE Queue'
<1>1. CASE Next
  <2>1. ASSUME NEW w \in Workers, WorkerStep(w) \/ Crash(w) PROVE Queue'
    BY <2>1, RunOnceKeeps, CommitKeeps, ClaimKeeps, CalmKeeps, SendKeeps, ReadRowsKeeps, ApplyKeeps, CrashKeeps
       DEF WorkerStep
  <2> QED BY <1>1, <2>1, StepIs, NoRunKeeps, FleetKeeps
<1>2. CASE UNCHANGED vars
  BY <1>2, StutterKeeps
<1> QED BY <1>1, <1>2

LEMMA QueueAlways == Spec => []Queue
<1>1. Init => Queue
  BY FirstQueue
<1>2. Queue /\ [Next]_vars => Queue'
  BY StepKeeps
<1> QED BY <1>1, <1>2, PTL DEF Spec

\* Whatever is enqueued, claimed, reclaimed, sent, canceled, pruned or lost in a crash, rows, jobs,
\* runs and the bot keep their types: a row that is being sent has an owner, one with an
\* outcome has none.
THEOREM DeliveryTypesHold == Spec => []TypeOK
<1>1. Queue => TypeOK
  BY TypesSuffice DEF Queue
<1> QED BY <1>1, QueueAlways, PTL

-----------------------------------------------------------------------------
(* Nobody gets a message again unless an outcome was lost.                 *)

\* The run x may still record an outcome for r, or send to it.
Owes(x, r) == r \in x.rows /\ ~Got(x, r) /\ (r \notin x.late \/ x.at = "recording")
Owing(r) == {w \in Workers : Owes(work[w], r)}
Holds(x, r) == r \in x.rows \ x.late
\* A claim of r, now or after a lease, is to be expected.
Open(r) ==
    \/ job[JobOf[r]] = None
    \/ /\ rec[r] # None
       /\ \/ rec[r].status \in CLAIMABLE
          \/ rec[r].status = "sending" /\ ~Holds(work[rec[r].owner], r)
Paid(r) == received[r] + Cardinality(Owing(r)) <= unrecorded[r] + IF Open(r) THEN 0 ELSE 1
AllPaid == \A r \in Rows : Paid(r)

LEMMA CountIn ==
    ASSUME NEW S \in SUBSET Workers, NEW w
    PROVE  /\ Cardinality(S) \in Nat /\ Cardinality(S \ {w}) \in Nat
           /\ Cardinality(S) = Cardinality(S \ {w}) + IF w \in S THEN 1 ELSE 0
<1>1. IsFiniteSet(S) /\ IsFiniteSet(S \ {w})
  BY IdsAssumption, FS_Subset
<1>2. Cardinality(S) \in Nat /\ Cardinality(S \ {w}) \in Nat
  BY <1>1, FS_CardinalityType
<1>3. CASE w \in S
  BY <1>1, <1>2, <1>3, FS_RemoveElement
<1>4. CASE w \notin S
  <2>1. S \ {w} = S
    BY <1>4
  <2> QED BY <1>2, <1>4, <2>1
<1> QED BY <1>2, <1>3, <1>4

LEMMA CountSub ==
    ASSUME NEW S \in SUBSET Workers, NEW T \in SUBSET S
    PROVE  Cardinality(T) \in Nat /\ Cardinality(S) \in Nat /\ Cardinality(T) <= Cardinality(S)
BY IdsAssumption, FS_Subset, FS_CardinalityType

\* What a step that makes x of the run of w may do to the account of a row it does not write.
Opens(w, x, r) ==
    rec[r] # None /\ rec[r].status = "sending" /\ rec[r].owner = w /\ Holds(work[w], r) /\ ~Holds(x, r)
Pays(w, x, r) ==
    received'[r] + (IF Owes(x, r) THEN 1 ELSE 0) + (IF Opens(w, x, r) THEN 1 ELSE 0) + unrecorded[r]
        <= received[r] + (IF Owes(work[w], r) THEN 1 ELSE 0) + unrecorded'[r]
LEMMA PaidTurn ==
    ASSUME Queue, Queue', NEW w \in Workers, NEW x \in Run, work' = [work EXCEPT ![w] = x], UNCHANGED <<rec, job>>,
           NEW r \in Rows, Paid(r), Pays(w, x, r)
    PROVE  Paid(r)'
<1> DEFINE S == Owing(r)
           T == {v \in Workers : Owes(work'[v], r)}
<1>1. \A v \in Workers : work'[v] = IF v = w THEN x ELSE work[v]
  BY DEF Queue, Types
<1>2. S \in SUBSET Workers /\ T \in SUBSET Workers /\ T \ {w} = S \ {w}
  BY <1>1 DEF Owing
<1>3. (w \in S <=> Owes(work[w], r)) /\ (w \in T <=> Owes(x, r))
  BY <1>1 DEF Owing
<1>4. received[r] \in Nat /\ received'[r] \in Nat /\ unrecorded[r] \in Nat /\ unrecorded'[r] \in Nat
  BY DEF Queue, Types, Counted
<1>5. Open(r)' => Open(r) \/ Opens(w, x, r)
  <2>1. rec[r] # None /\ rec[r].status = "sending" => rec[r].owner \in Workers
    BY RowsTyped DEF Queue, Row, RowFit
  <2> QED BY <1>1, <2>1 DEF Open, Opens
<1>6. Owing(r)' = T
  BY DEF Owing
<1> HIDE DEF S, T
<1>7. /\ Cardinality(S) \in Nat /\ Cardinality(T) \in Nat
      /\ Cardinality(T) + (IF w \in S THEN 1 ELSE 0) = Cardinality(S) + (IF w \in T THEN 1 ELSE 0)
  <2>1. Cardinality(S) \in Nat /\ Cardinality(S \ {w}) \in Nat /\ Cardinality(T) \in Nat
    BY <1>2, CountIn
  <2>2. Cardinality(S) = Cardinality(S \ {w}) + IF w \in S THEN 1 ELSE 0
    BY <1>2, CountIn
  <2>3. Cardinality(T) = Cardinality(T \ {w}) + IF w \in T THEN 1 ELSE 0
    BY <1>2, CountIn
  <2>4. Cardinality(T \ {w}) = Cardinality(S \ {w})
    BY <1>2
  <2> QED BY <2>1, <2>2, <2>3, <2>4
<1>8. received[r] + Cardinality(S) <= unrecorded[r] + IF Open(r) THEN 0 ELSE 1
  BY DEF Paid, S
<1>9. received'[r] + Cardinality(T) <= unrecorded'[r] + IF Open(r)' THEN 0 ELSE 1
  BY <1>3, <1>4, <1>5, <1>7, <1>8 DEF Pays
<1> QED BY <1>6, <1>9 DEF Paid

LEMMA PaidAside == ASSUME Queue, NoRun, NEW r \in Rows, Paid(r) PROVE Paid(r)'
<1>1. /\ UNCHANGED <<work, received, unrecorded>> /\ Aside(r)
      /\ job'[JobOf[r]] = None => job[JobOf[r]] = None
  BY JobOfAssumption DEF NoRun, history
<1>2. Open(r)' => Open(r)
  <2>1. CASE rec'[r] = None \/ rec[r] = None \/ rec'[r] = rec[r]
    BY <1>1, <2>1, NewRowIs DEF Open, Aside
  <2>2. CASE rec'[r] # None /\ rec[r] # None /\ rec'[r] # rec[r]
    <3>1. rec'[r].owner = rec[r].owner /\ rec'[r].status \in {rec[r].status, "canceled"}
      BY <1>1, <2>2 DEF Aside
    <3> QED BY <1>1, <2>2, <3>1 DEF Open, CLAIMABLE
  <2> QED BY <2>1, <2>2
<1>3. received[r] \in Nat /\ unrecorded[r] \in Nat /\ Cardinality(Owing(r)) \in Nat
  <2>1. Owing(r) \in SUBSET Workers
    BY DEF Owing
  <2> QED BY <2>1, CountSub DEF Queue, Types, Counted
<1>4. Owing(r)' = Owing(r)
  BY <1>1 DEF Owing
<1>5. received[r] + Cardinality(Owing(r)) <= unrecorded[r] + IF Open(r)' THEN 0 ELSE 1
  BY <1>2, <1>3 DEF Paid
<1> QED BY <1>1, <1>4, <1>5 DEF Paid

LEMMA RunOncePaid == ASSUME Queue, NEW w \in Workers, RunOnce(w), NEW r \in Rows, Paid(r) PROVE Paid(r)'
<1>1. Queue' /\ work[w].at = "idle" /\ UNCHANGED <<rec, job, received, unrecorded>>
  BY RunOnceKeeps, RunOnceIs DEF history
<1>2. PICK x \in Run : work' = [work EXCEPT ![w] = x] /\ x.rows = {}
  BY RunOnceIs
<1>3. work[w].rows = {}
  BY <1>1, RunsTyped DEF Fit
<1>4. ~Owes(work[w], r) /\ ~Owes(x, r) /\ ~Holds(work[w], r)
  BY <1>2, <1>3 DEF Owes, Holds
<1>5. received[r] \in Nat /\ unrecorded[r] \in Nat
  BY DEF Queue, Types, Counted
<1>6. Pays(w, x, r)
  BY <1>1, <1>2, <1>4, <1>5 DEF Pays, Opens
<1> QED BY <1>1, <1>2, <1>6, PaidTurn

LEMMA CalmPaid ==
    ASSUME Queue, NEW w \in Workers, Drained(w) \/ ReadToken(w) \/ MarkShopRevoked(w), NEW r \in Rows, Paid(r)
    PROVE  Paid(r)'
<1>1. Queue' /\ UNCHANGED <<rec, job, received, unrecorded>>
  BY CalmKeeps, CalmIs DEF history
<1>2. PICK x \in Run :
              /\ work' = [work EXCEPT ![w] = x]
              /\ x.rows = work[w].rows /\ x.late = work[w].late
              /\ x.at \notin {"read", "recording"} /\ work[w].at \notin {"read", "recording"}
              /\ \A q \in x.rows : (Got(x, q) <=> Got(work[w], q)) /\ (Asks(x, q) => Asks(work[w], q))
  BY CalmIs
<1>3. (Owes(work[w], r) <=> Owes(x, r)) /\ (Holds(work[w], r) <=> Holds(x, r))
  BY <1>2 DEF Owes, Holds
<1>4. received[r] \in Nat /\ unrecorded[r] \in Nat
  BY DEF Queue, Types, Counted
<1>5. Pays(w, x, r)
  BY <1>1, <1>2, <1>3, <1>4 DEF Pays, Opens
<1> QED BY <1>1, <1>2, <1>5, PaidTurn

LEMMA CrashPaid == ASSUME Queue, NEW w \in Workers, Crash(w), NEW r \in Rows, Paid(r) PROVE Paid(r)'
<1>1. /\ Queue' /\ work' = [work EXCEPT ![w] = Idle] /\ UNCHANGED <<rec, job, received>>
      /\ unrecorded' = Plus(unrecorded, {q \in work[w].rows \ work[w].late : Delivered(w, q)})
  BY CrashKeeps DEF Crash
<1>2. ~Owes(Idle, r) /\ ~Holds(Idle, r)
  BY IdleRun DEF Owes, Holds
<1>3. received[r] \in Nat /\ unrecorded[r] \in Nat
  BY DEF Queue, Types, Counted
<1>4. unrecorded'[r] = IF Holds(work[w], r) /\ Got(work[w], r) THEN unrecorded[r] + 1 ELSE unrecorded[r]
  BY <1>1, CountsTyped, PlusIs DEF Delivered, Got, Holds
<1>5. Holds(work[w], r) => Owes(work[w], r) \/ Got(work[w], r)
  BY DEF Holds, Owes
<1>6. Pays(w, Idle, r)
  BY <1>1, <1>2, <1>3, <1>4, <1>5 DEF Pays, Opens
<1> QED BY <1>1, <1>6, IdleRun, PaidTurn

LEMMA SendPaid == ASSUME Queue, NEW w \in Workers, Send(w), NEW r \in Rows, Paid(r) PROVE Paid(r)'
<1>1. Queue' /\ work[w].at = "sending" /\ UNCHANGED <<rec, job>>
  BY SendKeeps, SendIs
<1>2. PICK s \in work[w].rows \ DOMAIN work[w].out, answer \in Answer \ {"park"}, x \in Run :
          /\ work' = [work EXCEPT ![w] = x] /\ SentRun(x, work[w], s, answer)
          /\ tries' = Inc(tries, s) /\ Told(s, answer, work[w].late)
  BY SendIs
<1>3. s \in Rows
  BY RunsTyped DEF Run
<1>4. received[r] \in Nat /\ unrecorded[r] \in Nat
  BY DEF Queue, Types, Counted
<1>5. /\ x.rows = work[w].rows /\ x.late = work[w].late /\ x.at # "recording"
      /\ r # s => (Got(x, r) <=> Got(work[w], r))
      /\ (Got(x, s) <=> answer = "sent") /\ ~Got(work[w], s)
  BY <1>2 DEF SentRun, Got
<1>6. Holds(x, r) <=> Holds(work[w], r)
  BY <1>5 DEF Holds
<1>7. CASE r # s
  <2>1. received'[r] = received[r] /\ unrecorded'[r] = unrecorded[r]
    BY <1>2, <1>3, <1>7, CountsTyped, IncIs DEF Told
  <2>2. Owes(x, r) <=> Owes(work[w], r)
    BY <1>1, <1>5, <1>7 DEF Owes
  <2>3. Pays(w, x, r)
    BY <1>1, <1>2, <1>4, <1>6, <2>1, <2>2 DEF Pays, Opens
  <2> QED BY <1>1, <1>2, <2>3, PaidTurn
<1>8. CASE r = s
  <2>1. \/ received'[r] = received[r] + 1 /\ unrecorded'[r] = unrecorded[r] + 1
        \/ answer = "sent" /\ r \notin work[w].late /\ received'[r] = received[r] + 1 /\ unrecorded'[r] = unrecorded[r]
        \/ received'[r] = received[r] /\ unrecorded'[r] = unrecorded[r]
    BY <1>2, <1>3, <1>8, CountsTyped, IncIs DEF Told
  <2>2. Owes(x, r) => Owes(work[w], r)
    BY <1>1, <1>5, <1>8 DEF Owes
  <2>3. answer = "sent" /\ r \notin work[w].late => Owes(work[w], r) /\ ~Owes(x, r)
    BY <1>2, <1>5, <1>8 DEF Owes
  <2>4. Pays(w, x, r)
    BY <1>1, <1>2, <1>4, <1>6, <2>1, <2>2, <2>3 DEF Pays, Opens
  <2> QED BY <1>1, <1>2, <2>4, PaidTurn
<1> QED BY <1>7, <1>8

LEMMA ReadRowsPaid == ASSUME Queue, NEW w \in Workers, ReadRows(w), NEW r \in Rows, Paid(r) PROVE Paid(r)'
<1>1. /\ Queue' /\ work[w].at = "sent" /\ UNCHANGED <<rec, job, received>>
      /\ unrecorded' = Plus(unrecorded, {q \in work[w].rows \ (Own(w) \cup work[w].late) : Delivered(w, q)})
  BY ReadRowsKeeps, ReadRowsIs
<1>2. PICK x \in Run : /\ work' = [work EXCEPT ![w] = x] /\ x.at = "read" /\ x.rows = Own(w) /\ x.late = {}
                       /\ x.out = work[w].out
  BY ReadRowsIs
<1>3. received[r] \in Nat /\ unrecorded[r] \in Nat
  BY DEF Queue, Types, Counted
<1>4. unrecorded'[r] = unrecorded[r] \/ unrecorded'[r] = unrecorded[r] + 1
  BY <1>1, CountsTyped, PlusIs
<1>5. Own(w) \subseteq work[w].rows \ work[w].late
  BY RunsTyped DEF Own, Fit
<1>6. Owes(x, r) => Owes(work[w], r)
  BY <1>2, <1>5 DEF Owes, Got
<1>7. rec[r] # None /\ rec[r].status = "sending" /\ rec[r].owner = w /\ Holds(work[w], r) => Holds(x, r)
  BY <1>2 DEF Holds, Own
<1>8. Pays(w, x, r)
  BY <1>1, <1>2, <1>3, <1>4, <1>6, <1>7 DEF Pays, Opens
<1> QED BY <1>1, <1>2, <1>8, PaidTurn

LEMMA ApplyPaid == ASSUME Queue, NEW w \in Workers, apply_outcomes(w), NEW r \in Rows, Paid(r) PROVE Paid(r)'
<1>1. /\ Queue' /\ work[w].at = "read" /\ UNCHANGED <<rec, job, received>>
      /\ unrecorded' = Plus(unrecorded, {q \in work[w].rows \cap work[w].late : ~Delivered(w, q)})
  BY ApplyKeeps, ApplyIs
<1>2. PICK x \in Run : /\ work' = [work EXCEPT ![w] = x] /\ x.at = "recording" /\ x.rows = work[w].rows
                       /\ x.late = work[w].late /\ x.out = work[w].out
  BY ApplyIs
<1>3. received[r] \in Nat /\ unrecorded[r] \in Nat
  BY DEF Queue, Types, Counted
<1>4. unrecorded'[r] = IF r \in work[w].rows \cap work[w].late /\ ~Got(work[w], r) THEN unrecorded[r] + 1 ELSE unrecorded[r]
  BY <1>1, CountsTyped, PlusIs DEF Delivered, Got
<1>5. Owes(x, r) => Owes(work[w], r) \/ (r \in work[w].rows \cap work[w].late /\ ~Got(work[w], r))
  BY <1>2 DEF Owes, Got
<1>6. Holds(work[w], r) <=> Holds(x, r)
  BY <1>2 DEF Holds
<1>7. Pays(w, x, r)
  BY <1>1, <1>2, <1>3, <1>4, <1>5, <1>6 DEF Pays, Opens
<1> QED BY <1>1, <1>2, <1>7, PaidTurn

\* What a step that writes the row may do to its account.
Settles(r) ==
    \/ (Open(r)' => Open(r)) /\ Owing(r)' \subseteq Owing(r)
    \/ unrecorded'[r] = unrecorded[r] + 1 /\ Owing(r)' \subseteq Owing(r)
    \/ \E w \in Owing(r) : Owing(r)' \subseteq Owing(r) \ {w}
    \/ Open(r) /\ ~Open(r)' /\ \E w \in Workers : Owing(r)' \subseteq Owing(r) \cup {w}
LEMMA PaidChange ==
    ASSUME Queue, Queue', NEW r \in Rows, Paid(r), received'[r] = received[r],
           unrecorded'[r] \in {unrecorded[r], unrecorded[r] + 1}, Settles(r)
    PROVE  Paid(r)'
<1> DEFINE S == Owing(r)
           T == Owing(r)'
<1>1. received[r] \in Nat /\ unrecorded[r] \in Nat
  BY DEF Queue, Types, Counted
<1>2. S \in SUBSET Workers /\ T \in SUBSET Workers
  BY DEF Owing
<1>3. received[r] + Cardinality(S) <= unrecorded[r] + IF Open(r) THEN 0 ELSE 1
  BY DEF Paid
<1>4. \/ (Open(r)' => Open(r)) /\ T \subseteq S
      \/ unrecorded'[r] = unrecorded[r] + 1 /\ T \subseteq S
      \/ \E w \in S : T \subseteq S \ {w}
      \/ Open(r) /\ ~Open(r)' /\ \E w \in Workers : T \subseteq S \cup {w}
  BY DEF Settles
<1> HIDE DEF S, T
<1>5. Cardinality(S) \in Nat /\ Cardinality(T) \in Nat
  BY <1>2, CountSub
<1>6. T \subseteq S => Cardinality(T) <= Cardinality(S)
  BY <1>2, CountSub
<1>7. ASSUME NEW w \in S, T \subseteq S \ {w} PROVE Cardinality(T) + 1 <= Cardinality(S)
  <2>1. Cardinality(S) = Cardinality(S \ {w}) + IF w \in S THEN 1 ELSE 0
    BY <1>2, CountIn
  <2>2. Cardinality(T) <= Cardinality(S \ {w}) /\ Cardinality(S \ {w}) \in Nat
    BY <1>2, <1>7, CountSub
  <2> QED BY <1>5, <2>1, <2>2
<1>8. ASSUME NEW w \in Workers, T \subseteq S \cup {w} PROVE Cardinality(T) <= Cardinality(S) + 1
  <2>1. Cardinality(T) = Cardinality(T \ {w}) + (IF w \in T THEN 1 ELSE 0) /\ Cardinality(T \ {w}) \in Nat
    BY <1>2, CountIn
  <2>2. T \ {w} \subseteq S
    BY <1>8
  <2>3. Cardinality(T \ {w}) <= Cardinality(S)
    BY <1>2, <2>2, CountSub
  <2> QED BY <1>5, <2>1, <2>3
<1>9. received[r] + Cardinality(T) <= unrecorded'[r] + IF Open(r)' THEN 0 ELSE 1
  <2>1. CASE (Open(r)' => Open(r)) /\ T \subseteq S
    BY <1>1, <1>3, <1>5, <1>6, <2>1
  <2>2. CASE unrecorded'[r] = unrecorded[r] + 1 /\ T \subseteq S
    BY <1>1, <1>3, <1>5, <1>6, <2>2
  <2>3. CASE \E w \in S : T \subseteq S \ {w}
    BY <1>1, <1>3, <1>5, <1>7, <2>3
  <2>4. CASE Open(r) /\ ~Open(r)' /\ \E w \in Workers : T \subseteq S \cup {w}
    BY <1>1, <1>3, <1>5, <1>8, <2>4
  <2> QED BY <1>4, <2>1, <2>2, <2>3, <2>4
<1> QED BY <1>9 DEF Paid, T

LEMMA ClaimPaid == ASSUME Queue, NEW w \in Workers, Claim(w), NEW r \in Rows, Paid(r) PROVE Paid(r)'
<1>1. /\ Queue' /\ work[w].at = "claiming" /\ UNCHANGED <<received, unrecorded>>
      /\ \A j \in Jobs : job'[j] = None => job[j] = None
  BY ClaimKeeps, ClaimIs DEF history
<1>2. PICK x \in Run :
          /\ work' = [work EXCEPT ![w] = x] /\ x.at = "claimed" /\ x.rows \cap Locked = {} /\ x.late = {}
          /\ x.out = work[w].out /\ x.staged = work[w].staged
          /\ \A q \in x.rows : /\ rec[q] # None /\ rec[q].status \in CLAIMABLE /\ rec'[q] = Claimed(w, q)
                               /\ rec'[q] \in Row /\ rec'[q].owner = w /\ rec'[q].status = "sending"
                               /\ rec'[q].attempts = rec[q].attempts + 1
          /\ \A q \in Rows \ x.rows : rec'[q] = rec[q]
  BY ClaimIs
<1>3. \A v \in Workers : work'[v] = IF v = w THEN x ELSE work[v]
  BY <1>2 DEF Queue, Types
<1>4. Owing(r)' \subseteq Owing(r) \cup {w} /\ (r \notin x.rows => Owing(r)' \subseteq Owing(r))
  BY <1>3 DEF Owing, Owes
<1>5. JobOf[r] \in Jobs
  BY JobOfAssumption
<1>6. CASE r \in x.rows
  <2>1. Open(r)
    BY <1>2, <1>6 DEF Open
  <2>2. ~Open(r)'
    <3>1. rec'[r] # None /\ rec'[r].status = "sending" /\ rec'[r].owner = w /\ job[JobOf[r]] # None
      BY <1>2, <1>6, NoneDeliveriesAssumption DEF Queue, Sound
    <3>2. Holds(work'[w], r)
      BY <1>2, <1>3, <1>6 DEF Holds
    <3>3. job'[JobOf[r]] # None
      BY <1>1, <1>5, <3>1
    <3> QED BY <3>1, <3>2, <3>3 DEF Open, CLAIMABLE
  <2>3. Settles(r)
    BY <1>4, <2>1, <2>2 DEF Settles
  <2> QED BY <1>1, <2>3, PaidChange
<1>7. CASE r \notin x.rows
  <2>1. rec'[r] = rec[r] /\ (job'[JobOf[r]] = None => job[JobOf[r]] = None)
    BY <1>1, <1>2, <1>5, <1>7
  <2>2. rec[r] # None /\ rec[r].status = "sending" => rec[r].owner \in Workers
    BY RowsTyped DEF Queue, Row, RowFit
  <2>3. work[w].rows = {}
    BY <1>1, RunsTyped DEF Fit
  <2>4. Open(r)' => Open(r)
    BY <1>3, <1>7, <2>1, <2>2, <2>3 DEF Open, Holds
  <2>5. Settles(r)
    BY <1>4, <1>7, <2>4 DEF Settles
  <2> QED BY <1>1, <2>5, PaidChange
<1> QED BY <1>6, <1>7

LEMMA CommitPaid == ASSUME Queue, NEW w \in Workers, Commit(w), NEW r \in Rows, Paid(r) PROVE Paid(r)'
<1> DEFINE D == DOMAIN work[w].staged
<1>1. /\ Queue' /\ work[w].at \in {"reclaiming", "recording"} /\ received' = received
      /\ unrecorded' = Plus(unrecorded, {q \in LostRows(w) : Delivered(rec[q].owner, q)})
      /\ \A j \in Jobs : job'[j] = None => job[j] = None
  BY CommitKeeps, CommitIs
<1>2. IF r \in D THEN rec'[r] = work[w].staged[r] /\ rec'[r] \in Row ELSE rec'[r] = rec[r]
  BY CommitIs
<1>3. work'[w].rows = {}
  BY CommitIs
<1>4. ASSUME NEW v \in Workers \ {w}
      PROVE  /\ work'[v].late = work[v].late \cup (LostRows(w) \cap work[v].rows) /\ work'[v].rows = work[v].rows
             /\ work'[v].at = work[v].at /\ work'[v].out = work[v].out
  BY CommitIs
<1>5. Owing(r)' \subseteq Owing(r) \ {w}
  <2>1. ASSUME NEW v \in Workers \ {w}, Owes(work'[v], r) PROVE Owes(work[v], r)
    BY <1>4, <2>1 DEF Owes, Got
  <2>2. ~Owes(work'[w], r)
    BY <1>3 DEF Owes
  <2> QED BY <2>1, <2>2 DEF Owing
<1>6. unrecorded'[r] = IF r \in LostRows(w) /\ Delivered(rec[r].owner, r) THEN unrecorded[r] + 1 ELSE unrecorded[r]
  BY <1>1, CountsTyped, PlusIs
<1>7. Fit(w, work[w], rec) /\ JobOf[r] \in Jobs
  BY RunsTyped, JobOfAssumption
<1>8. rec[r] # None /\ rec[r].status = "sending" => rec[r].owner \in Workers
  BY RowsTyped DEF Queue, Row, RowFit
<1>9. Settles(r)
  <2>1. CASE r \notin D
    <3>1. rec'[r] = rec[r] /\ (job'[JobOf[r]] = None => job[JobOf[r]] = None) /\ r \notin LostRows(w)
      BY <1>1, <1>2, <1>7, <2>1 DEF LostRows
    <3>2. ~Holds(work[w], r)
      <4>1. work[w].at = "reclaiming" => work[w].rows = {}
        BY <1>7 DEF Fit
      <4>2. work[w].at = "recording" => D = work[w].rows
        BY <1>7 DEF Fit
      <4> QED BY <1>1, <2>1, <4>1, <4>2 DEF Holds
    <3>3. \A v \in Workers : Holds(work[v], r) => Holds(work'[v], r)
      BY <1>4, <3>1, <3>2 DEF Holds
    <3>4. Open(r)' => Open(r)
      BY <1>8, <3>1, <3>3 DEF Open
    <3> QED BY <1>5, <3>4 DEF Settles
  <2>2. CASE r \in D /\ work[w].at = "recording"
    <3>1. r \in work[w].rows /\ work[w].staged[r].status \in {"sent", "blocked", "failed", "retry_wait"}
          /\ (Got(work[w], r) => work[w].staged[r].status = "sent") /\ rec[r] # None
      BY <1>7, <2>2 DEF Fit
    <3>2. CASE Got(work[w], r)
      <4>1. rec'[r].status = "sent" /\ job[JobOf[r]] # None
        BY <1>2, <2>2, <3>1, <3>2 DEF Queue, Sound
      <4>2. ~Open(r)'
        BY <1>1, <1>7, <4>1 DEF Open, CLAIMABLE
      <4> QED BY <1>5, <4>2 DEF Settles
    <3>3. CASE ~Got(work[w], r)
      <4>1. w \in Owing(r)
        BY <2>2, <3>1, <3>3 DEF Owing, Owes
      <4> QED BY <1>5, <4>1 DEF Settles
    <3> QED BY <3>2, <3>3
  <2>3. CASE r \in D /\ work[w].at = "reclaiming"
    <3> DEFINE o == rec[r].owner
    <3>1. rec[r] # None /\ rec[r].status = "sending" /\ o \in Workers /\ r \in LostRows(w) /\ work[w].rows = {}
      BY <1>7, <1>8, <2>3 DEF Fit, LostRows
    <3>2. CASE ~Holds(work[o], r)
      <4>1. Open(r)
        BY <3>1, <3>2 DEF Open
      <4> QED BY <1>5, <4>1 DEF Settles
    <3>3. CASE Holds(work[o], r) /\ Got(work[o], r)
      <4>1. unrecorded'[r] = unrecorded[r] + 1
        BY <1>6, <3>1, <3>3 DEF Delivered, Got
      <4> QED BY <1>5, <4>1 DEF Settles
    <3>4. CASE Holds(work[o], r) /\ ~Got(work[o], r)
      <4>1. o # w /\ r \in work[o].rows /\ r \notin work[o].late
        BY <3>1, <3>4 DEF Holds
      <4>2. o \in Owing(r)
        BY <3>1, <3>4, <4>1 DEF Owing, Owes
      <4>3. work[o].at # "recording"
        <5>1. Fit(o, work[o], rec) /\ D \cap DOMAIN work[o].staged = {}
          BY <3>1, <4>1, RunsTyped DEF Queue, Sound, Apart
        <5> QED BY <2>3, <4>1, <5>1 DEF Fit
      <4>4. r \in work'[o].late /\ work'[o].at # "recording"
        BY <1>4, <3>1, <4>1, <4>3
      <4>5. o \notin Owing(r)'
        BY <4>4 DEF Owing, Owes
      <4>6. Owing(r)' \subseteq Owing(r) \ {o}
        BY <1>5, <4>5
      <4> QED BY <4>2, <4>6 DEF Settles
    <3> QED BY <3>2, <3>3, <3>4
  <2> QED BY <1>1, <2>1, <2>2, <2>3
<1> QED BY <1>1, <1>6, <1>9, PaidChange

LEMMA StepPays == ASSUME Queue, AllPaid, [Next]_vars PROVE AllPaid'
<1> SUFFICES ASSUME NEW r \in Rows PROVE Paid(r)'
  BY DEF AllPaid
<1>1. Paid(r)
  BY DEF AllPaid
<1>2. ASSUME UNCHANGED <<job, rec, work, history>> PROVE Paid(r)'
  <2>1. Owing(r)' = Owing(r) /\ (Open(r)' <=> Open(r)) /\ received'[r] = received[r] /\ unrecorded'[r] = unrecorded[r]
    BY <1>2 DEF Owing, Open, history
  <2>2. received[r] + Cardinality(Owing(r)) <= unrecorded[r] + IF Open(r)' THEN 0 ELSE 1
    BY <1>1, <2>1 DEF Paid
  <2> QED BY <2>1, <2>2 DEF Paid
<1>3. ASSUME NEW w \in Workers, WorkerStep(w) \/ Crash(w) PROVE Paid(r)'
  BY <1>1, <1>3, RunOncePaid, CommitPaid, ClaimPaid, CalmPaid, SendPaid, ReadRowsPaid, ApplyPaid, CrashPaid
     DEF WorkerStep
<1>4. CASE Next
  BY <1>1, <1>2, <1>3, <1>4, StepIs, PaidAside, FleetKeeps
<1>5. CASE UNCHANGED vars
  BY <1>2, <1>5 DEF vars
<1> QED BY <1>4, <1>5

LEMMA FirstPaid == ASSUME Init PROVE AllPaid
<1> SUFFICES ASSUME NEW r \in Rows PROVE Paid(r)
  BY DEF AllPaid
<1>1. Owing(r) = {}
  BY IdleRun DEF Init, Owing, Owes
<1>2. Cardinality(Owing(r)) = 0
  BY <1>1, FS_EmptySet
<1>3. received[r] = 0 /\ unrecorded[r] = 0
  BY DEF Init
<1> QED BY <1>2, <1>3 DEF Paid

-----------------------------------------------------------------------------
(* One worker never sends a row more often than _MAX_ATTEMPTS.             *)

Within(q, n) ==
    n <= q.attempts /\ q.attempts <= MAX_ATTEMPTS /\ (q.status \in CLAIMABLE => q.attempts < MAX_ATTEMPTS)
\* What the run x may say of row r, which is q and was sent n times.
Spared(x, q, n, r) ==
    /\ Asks(x, r) => n < q.attempts
    /\ r \in DOMAIN x.staged => Within(x.staged[r], n)
    /\ x.at = "read" /\ r \in x.rows => x.read[r] = q.attempts
Spent(r) ==
    /\ tries[r] <= MAX_ATTEMPTS
    /\ job[JobOf[r]] = None => tries[r] = 0
    /\ rec[r] # None => Within(rec[r], tries[r])
Rationed(r) == Spent(r) /\ \A w \in Workers : Spared(work[w], rec[r], tries[r], r)
Alone == Cardinality(world.workers) = 1
Lone == Alone => \A r \in Rows : Rationed(r)

LEMMA OneWorker == ASSUME Queue, Alone, NEW v \in world.workers, NEW w \in world.workers PROVE v = w
<1> DEFINE S == world.workers
<1>1. S \in SUBSET Workers
  BY WorldsAssumption DEF Queue, Types
<1>2. Cardinality(S) = 1
  BY DEF Alone
<1> HIDE DEF S
<1>3. Cardinality(S) = Cardinality(S \ {v}) + (IF v \in S THEN 1 ELSE 0) /\ Cardinality(S \ {v}) \in Nat
  BY <1>1, CountIn
<1>4. IsFiniteSet(S \ {v})
  BY <1>1, IdsAssumption, FS_Subset
<1>5. v \in S /\ w \in S
  BY DEF S
<1>6. S \ {v} = {}
  BY <1>2, <1>3, <1>4, <1>5, FS_EmptySet
<1> QED BY <1>5, <1>6

\* While one works, the others' runs say nothing.
LEMMA OthersIdle ==
    ASSUME Queue, Alone, NEW w \in Workers, w \in world.workers, NEW v \in Workers \ {w}, NEW r
    PROVE  r \notin work[v].rows /\ r \notin DOMAIN work[v].staged
<1>1. v \notin world.workers
  BY OneWorker
<1>2. work[v].at = "idle"
  BY <1>1 DEF Queue, Sound
<1> QED BY <1>2, RunsTyped DEF Fit

LEMMA WorkerIsIn == ASSUME Queue, NEW w \in Workers, work[w].at # "idle" PROVE w \in world.workers
BY DEF Queue, Sound

LEMMA RationedTurn ==
    ASSUME Queue, Alone, NEW w \in Workers, w \in world.workers, NEW x, work' = [work EXCEPT ![w] = x],
           UNCHANGED <<rec, job>>, NEW r \in Rows, Spent(r)', Spared(x, rec[r], tries'[r], r)
    PROVE  Rationed(r)'
<1>1. \A v \in Workers : work'[v] = IF v = w THEN x ELSE work[v]
  BY DEF Queue, Types
<1>2. ASSUME NEW v \in Workers PROVE Spared(work'[v], rec'[r], tries'[r], r)
  <2>1. CASE v = w
    BY <1>1, <2>1
  <2>2. CASE v # w
    BY <1>1, <2>2, OthersIdle DEF Spared, Asks
  <2> QED BY <2>1, <2>2
<1> QED BY <1>2 DEF Rationed

LEMMA SameSpent == ASSUME NEW r, Spent(r), UNCHANGED <<rec, job, tries>> PROVE Spent(r)'
BY DEF Spent

LEMMA CountsOf ==
    ASSUME Queue, NEW r \in Rows
    PROVE  tries[r] \in Nat /\ MAX_ATTEMPTS \in Nat \ {0} /\ (rec[r] # None => rec[r] \in Row /\ rec[r].attempts \in Nat)
BY BoundsAssumption, RowsTyped DEF Queue, Types, Counted, Row

LEMMA RunOnceRations ==
    ASSUME Queue, Alone, NEW w \in Workers, RunOnce(w), NEW r \in Rows, Rationed(r) PROVE Rationed(r)'
<1>1. w \in world.workers /\ UNCHANGED <<job, rec, tries>>
  BY RunOnceIs DEF history
<1>2. PICK x \in Run :
              /\ work' = [work EXCEPT ![w] = x] /\ x.at \in {"claiming", "reclaiming"} /\ x.rows = {}
              /\ \A s \in DOMAIN x.staged : /\ s \in Rows /\ rec[s] # None /\ rec[s].status = "sending"
                                            /\ x.staged[s] = Reclaimed(s)
  BY RunOnceIs
<1>3. r \in DOMAIN x.staged => Within(x.staged[r], tries[r])
  <2> SUFFICES ASSUME r \in DOMAIN x.staged PROVE Within(x.staged[r], tries[r])
    OBVIOUS
  <2>1. rec[r] # None /\ x.staged[r] = Reclaimed(r) /\ Within(rec[r], tries[r])
    BY <1>2 DEF Rationed, Spent
  <2>2. /\ Reclaimed(r).status \in {"unknown", "failed"} /\ Reclaimed(r).attempts = rec[r].attempts
        /\ Reclaimed(r).status = "unknown" => rec[r].attempts < MAX_ATTEMPTS
    BY <2>1, ReclaimedIs DEF Queue
  <2> QED BY <2>1, <2>2 DEF Within, CLAIMABLE
<1>4. Spared(x, rec[r], tries'[r], r)
  BY <1>1, <1>2, <1>3 DEF Spared, Asks
<1>5. Spent(r)'
  BY <1>1, SameSpent DEF Rationed
<1> QED BY <1>1, <1>2, <1>4, <1>5, RationedTurn

LEMMA CalmRations ==
    ASSUME Queue, Alone, NEW w \in Workers, Drained(w) \/ ReadToken(w) \/ MarkShopRevoked(w),
           NEW r \in Rows, Rationed(r)
    PROVE  Rationed(r)'
<1>1. w \in world.workers /\ UNCHANGED <<job, rec, tries>>
  BY CalmIs, WorkerIsIn DEF history
<1>2. PICK x \in Run :
              /\ work' = [work EXCEPT ![w] = x] /\ x.rows = work[w].rows
              /\ x.at \notin {"read", "recording"} /\ DOMAIN x.staged = {}
              /\ \A s \in x.rows : (Got(x, s) <=> Got(work[w], s)) /\ (Asks(x, s) => Asks(work[w], s))
  BY CalmIs
<1>3. Spared(x, rec[r], tries'[r], r)
  BY <1>1, <1>2 DEF Spared, Asks, Rationed
<1>4. Spent(r)'
  BY <1>1, SameSpent DEF Rationed
<1> QED BY <1>1, <1>2, <1>3, <1>4, RationedTurn

LEMMA CrashRations ==
    ASSUME Queue, Alone, NEW w \in Workers, Crash(w), NEW r \in Rows, Rationed(r) PROVE Rationed(r)'
<1>1. work[w].at # "idle" /\ UNCHANGED <<job, rec, tries>> /\ work' = [work EXCEPT ![w] = Idle]
  BY DEF Crash
<1>2. Spared(Idle, rec[r], tries'[r], r)
  BY IdleRun DEF Spared, Asks
<1>3. Spent(r)'
  BY <1>1, SameSpent DEF Rationed
<1> QED BY <1>1, <1>2, <1>3, WorkerIsIn, RationedTurn

LEMMA SendRations ==
    ASSUME Queue, Alone, NEW w \in Workers, Send(w), NEW r \in Rows, Rationed(r) PROVE Rationed(r)'
<1>1. w \in world.workers /\ work[w].at = "sending" /\ UNCHANGED <<job, rec>>
  BY SendIs, WorkerIsIn
<1>2. PICK s \in work[w].rows \ DOMAIN work[w].out, answer \in Answer \ {"park"}, x \in Run :
          /\ work' = [work EXCEPT ![w] = x] /\ SentRun(x, work[w], s, answer)
          /\ tries' = Inc(tries, s) /\ Told(s, answer, work[w].late)
  BY SendIs
<1>3. s \in Rows
  BY RunsTyped DEF Run
<1>4. Spared(work[w], rec[r], tries[r], r) /\ Spent(r)
  BY DEF Rationed
<1>5. x.rows = work[w].rows /\ x.staged = work[w].staged /\ x.at # "read" /\ DOMAIN work[w].staged = {}
  BY <1>1, <1>2, RunsTyped DEF SentRun, Fit
<1>6. CASE r # s
  <2>1. tries'[r] = tries[r]
    BY <1>2, <1>3, <1>6, CountsTyped, IncIs
  <2>2. Asks(x, r) => Asks(work[w], r)
    BY <1>2, <1>6 DEF SentRun, Asks
  <2>3. Spared(x, rec[r], tries'[r], r)
    BY <1>4, <1>5, <2>1, <2>2 DEF Spared
  <2>4. Spent(r)'
    BY <1>1, <1>4, <2>1 DEF Spent
  <2> QED BY <1>1, <1>2, <2>3, <2>4, RationedTurn
<1>7. CASE r = s
  <2>1. tries'[r] = tries[r] + 1
    BY <1>2, <1>3, <1>7, CountsTyped, IncIs
  <2>2. Asks(work[w], r) /\ ~Asks(x, r)
    BY <1>2, <1>7 DEF SentRun, Asks
  <2>3. Spared(x, rec[r], tries'[r], r)
    BY <1>5, <2>2 DEF Spared
  <2>4. rec[r] # None /\ tries[r] < rec[r].attempts /\ job[JobOf[r]] # None
    BY <1>2, <1>4, <1>7, <2>2, RunsTyped DEF Spared, Fit, Queue, Sound
  <2>5. Within(rec[r], tries'[r]) /\ tries'[r] <= MAX_ATTEMPTS
    BY <1>4, <2>1, <2>4, CountsOf DEF Spent, Within
  <2>6. Spent(r)'
    BY <1>1, <2>4, <2>5 DEF Spent
  <2> QED BY <1>1, <1>2, <2>3, <2>6, RationedTurn
<1> QED BY <1>6, <1>7

LEMMA ReadRowsRations ==
    ASSUME Queue, Alone, NEW w \in Workers, ReadRows(w), NEW r \in Rows, Rationed(r) PROVE Rationed(r)'
<1>1. w \in world.workers /\ work[w].at = "sent" /\ UNCHANGED <<job, rec, tries>>
  BY ReadRowsIs, WorkerIsIn
<1>2. PICK x \in Run :
              /\ work' = [work EXCEPT ![w] = x] /\ x.at = "read" /\ x.rows = Own(w) /\ x.late = {}
              /\ x.out = work[w].out /\ x.staged = work[w].staged
              /\ DOMAIN x.read = Own(w) /\ \A s \in Own(w) : x.read[s] = rec[s].attempts
  BY ReadRowsIs
<1>3. DOMAIN x.staged = {} /\ Own(w) \subseteq work[w].rows
  BY <1>1, <1>2, RunsTyped DEF Fit, Own
<1>4. Spared(x, rec[r], tries'[r], r)
  BY <1>1, <1>2, <1>3 DEF Spared, Asks, Rationed
<1>5. Spent(r)'
  BY <1>1, SameSpent DEF Rationed
<1> QED BY <1>1, <1>2, <1>4, <1>5, RationedTurn

LEMMA ApplyRations ==
    ASSUME Queue, Alone, NEW w \in Workers, apply_outcomes(w), NEW r \in Rows, Rationed(r) PROVE Rationed(r)'
<1>1. w \in world.workers /\ work[w].at = "read" /\ UNCHANGED <<job, rec, tries>>
  BY ApplyIs, WorkerIsIn
<1>2. PICK x \in Run :
          /\ work' = [work EXCEPT ![w] = x] /\ x.at = "recording" /\ x.rows = work[w].rows
          /\ x.out = work[w].out /\ DOMAIN x.staged = x.rows
          /\ \A s \in x.rows : /\ work[w].out[s] \in Answer /\ work[w].read[s] \in Nat
                               /\ x.staged[s] = Outcome(s, work[w].out[s], work[w].read[s])
  BY ApplyIs
<1>3. Spared(work[w], rec[r], tries[r], r) /\ Spent(r)
  BY DEF Rationed
<1>4. ASSUME r \in x.rows PROVE Within(x.staged[r], tries[r])
  <2> DEFINE answer == work[w].out[r]
             n == work[w].read[r]
             q == Outcome(r, answer, n)
  <2>1. answer \in Answer /\ n \in Nat /\ x.staged[r] = q /\ rec[r] # None /\ r \in DOMAIN work[w].out
    BY <1>1, <1>2, <1>4, RunsTyped DEF Fit
  <2>2. n = rec[r].attempts /\ Within(rec[r], tries[r])
    BY <1>1, <1>2, <1>3, <1>4, <2>1 DEF Spared, Spent
  <2>3. answer = "park" => tries[r] < rec[r].attempts
    BY <1>2, <1>3, <1>4 DEF Spared, Asks
  <2>4. /\ q.status \in {"sent", "blocked", "failed", "retry_wait"}
        /\ answer = "park" => q.attempts = IF n > 0 THEN n - 1 ELSE 0
        /\ answer # "park" => q.attempts = rec[r].attempts
        /\ q.status = "retry_wait" => answer = "park" \/ n < MAX_ATTEMPTS
    BY <2>1, OutcomeIs DEF Queue
  <2>5. tries[r] \in Nat /\ MAX_ATTEMPTS \in Nat \ {0}
    BY CountsOf
  <2> HIDE DEF answer, n, q
  <2>6. Within(q, tries[r])
    <3>1. CASE answer = "park"
      BY <2>1, <2>2, <2>3, <2>4, <2>5, <3>1 DEF Within
    <3>2. CASE answer # "park"
      BY <2>1, <2>2, <2>4, <2>5, <3>2 DEF Within, CLAIMABLE
    <3> QED BY <3>1, <3>2
  <2> QED BY <2>1, <2>6
<1>5. Spared(x, rec[r], tries'[r], r)
  BY <1>1, <1>2, <1>3, <1>4 DEF Spared, Asks
<1>6. Spent(r)'
  BY <1>1, <1>3, SameSpent
<1> QED BY <1>1, <1>2, <1>5, <1>6, RationedTurn

LEMMA ClaimRations ==
    ASSUME Queue, Alone, NEW w \in Workers, Claim(w), NEW r \in Rows, Rationed(r) PROVE Rationed(r)'
<1>1. /\ w \in world.workers /\ work[w].at = "claiming" /\ tries' = tries
      /\ \A j \in Jobs : job'[j] = None => job[j] = None
  BY ClaimIs, WorkerIsIn DEF history
<1>2. PICK x \in Run :
          /\ work' = [work EXCEPT ![w] = x] /\ x.at = "claimed" /\ x.rows \cap Locked = {} /\ x.late = {}
          /\ x.out = work[w].out /\ x.staged = work[w].staged
          /\ \A q \in x.rows : /\ rec[q] # None /\ rec[q].status \in CLAIMABLE /\ rec'[q] = Claimed(w, q)
                               /\ rec'[q] \in Row /\ rec'[q].owner = w /\ rec'[q].status = "sending"
                               /\ rec'[q].attempts = rec[q].attempts + 1
          /\ \A q \in Rows \ x.rows : rec'[q] = rec[q]
  BY ClaimIs
<1>3. \A v \in Workers : work'[v] = IF v = w THEN x ELSE work[v]
  BY <1>2 DEF Queue, Types
<1>4. Spent(r) /\ (job'[JobOf[r]] = None => job[JobOf[r]] = None)
  BY <1>1, JobOfAssumption DEF Rationed
<1>5. DOMAIN x.staged = {} /\ x.at # "read"
  BY <1>1, <1>2, RunsTyped DEF Fit
<1>6. Spent(r)' /\ Spared(x, rec'[r], tries[r], r)
  <2>1. CASE r \in x.rows
    <3>1. /\ Within(rec[r], tries[r]) /\ rec[r].attempts < MAX_ATTEMPTS /\ rec[r].attempts \in Nat
          /\ rec'[r].attempts = rec[r].attempts + 1 /\ rec'[r].status = "sending"
      BY <1>2, <1>4, <2>1, CountsOf DEF Spent, Within
    <3>2. Within(rec'[r], tries[r]) /\ tries[r] < rec'[r].attempts
      BY <3>1, CountsOf DEF Within, CLAIMABLE
    <3> QED BY <1>1, <1>4, <1>5, <3>2 DEF Spent, Spared
  <2>2. CASE r \notin x.rows
    <3>1. rec'[r] = rec[r]
      BY <1>2, <2>2
    <3> QED BY <1>1, <1>4, <1>5, <2>2, <3>1 DEF Spent, Spared, Asks
  <2> QED BY <2>1, <2>2
<1>7. ASSUME NEW v \in Workers PROVE Spared(work'[v], rec'[r], tries'[r], r)
  <2>1. CASE v = w
    BY <1>1, <1>3, <1>6, <2>1
  <2>2. CASE v # w
    BY <1>1, <1>3, <2>2, OthersIdle DEF Spared, Asks
  <2> QED BY <2>1, <2>2
<1> QED BY <1>6, <1>7 DEF Rationed

LEMMA CommitRations ==
    ASSUME Queue, Alone, NEW w \in Workers, Commit(w), NEW r \in Rows, Rationed(r) PROVE Rationed(r)'
<1>1. /\ work[w].at \in {"reclaiming", "recording"} /\ tries' = tries
      /\ \A j \in Jobs : job'[j] = None => job[j] = None
  BY CommitIs
<1>2. IF r \in DOMAIN work[w].staged THEN rec'[r] = work[w].staged[r] ELSE rec'[r] = rec[r]
  BY CommitIs
<1>3. work'[w].at = "claiming" /\ work'[w].rows = {} /\ DOMAIN work'[w].staged = {}
  BY CommitIs
<1>4. ASSUME NEW v \in Workers \ {w}
      PROVE  work'[v].rows = work[v].rows /\ work'[v].staged = work[v].staged
  BY CommitIs
<1>5. w \in world.workers
  BY <1>1, WorkerIsIn
<1>6. Spent(r) /\ Spared(work[w], rec[r], tries[r], r) /\ (job'[JobOf[r]] = None => job[JobOf[r]] = None)
  BY <1>1, JobOfAssumption DEF Rationed
<1>7. Spent(r)'
  <2>1. rec'[r] # None => Within(rec'[r], tries[r])
    BY <1>2, <1>6 DEF Spared, Spent
  <2> QED BY <1>1, <1>6, <2>1 DEF Spent
<1>8. ASSUME NEW v \in Workers PROVE Spared(work'[v], rec'[r], tries'[r], r)
  <2>1. CASE v = w
    BY <1>3, <2>1 DEF Spared, Asks
  <2>2. CASE v # w
    <3>1. r \notin work'[v].rows /\ r \notin DOMAIN work'[v].staged
      BY <1>4, <1>5, <2>2, OthersIdle
    <3> QED BY <3>1 DEF Spared, Asks
  <2> QED BY <2>1, <2>2
<1> QED BY <1>7, <1>8 DEF Rationed

LEMMA AsideRations == ASSUME Queue, NoRun, NEW r \in Rows, Rationed(r) PROVE Rationed(r)'
<1>1. /\ UNCHANGED <<work, tries>> /\ Aside(r) /\ (job'[JobOf[r]] = None => job[JobOf[r]] = None)
  BY JobOfAssumption DEF NoRun, history
<1>2. CASE rec'[r] = rec[r]
  BY <1>1, <1>2 DEF Rationed, Spent
<1>3. CASE rec[r] # None /\ rec'[r] # None /\ rec'[r] # rec[r]
  <2>1. rec'[r].attempts = rec[r].attempts /\ (rec'[r].status \in CLAIMABLE => rec[r].status \in CLAIMABLE)
    BY <1>1, <1>3 DEF Aside, CLAIMABLE
  <2>2. Spent(r)'
    BY <1>1, <1>3, <2>1 DEF Rationed, Spent, Within
  <2>3. \A v \in Workers : Spared(work'[v], rec'[r], tries'[r], r)
    BY <1>1, <2>1 DEF Rationed, Spared
  <2> QED BY <2>2, <2>3 DEF Rationed
<1>4. CASE rec'[r] = None /\ rec'[r] # rec[r]
  <2>1. \A v \in Workers : r \notin work[v].rows
    BY <1>1, <1>4, NewRowIs DEF Aside
  <2>2. Spent(r)'
    BY <1>1, <1>4 DEF Rationed, Spent
  <2>3. \A v \in Workers : Spared(work'[v], rec'[r], tries'[r], r)
    BY <1>1, <2>1 DEF Rationed, Spared, Asks
  <2> QED BY <2>2, <2>3 DEF Rationed
<1>5. CASE rec[r] = None /\ rec'[r] # rec[r]
  <2>1. rec'[r] = NewRow /\ job[JobOf[r]] = None /\ \A v \in Workers : r \notin work[v].rows
    BY <1>1, <1>5, LockedExist DEF Aside
  <2>2. tries[r] = 0 /\ Within(NewRow, 0)
    <3>1. MAX_ATTEMPTS \in Nat \ {0}
      BY BoundsAssumption
    <3> QED BY <2>1, <3>1, NewRowIs DEF Rationed, Spent, Within
  <2>3. Spent(r)'
    BY <1>1, <2>1, <2>2 DEF Rationed, Spent
  <2>4. \A v \in Workers : Spared(work'[v], rec'[r], tries'[r], r)
    BY <1>1, <2>1 DEF Rationed, Spared, Asks
  <2> QED BY <2>3, <2>4 DEF Rationed
<1> QED BY <1>2, <1>3, <1>4, <1>5

LEMMA WorldStays == ASSUME Queue, [Next]_vars PROVE world' = world
<1>1. ASSUME NEW w \in Workers, WorkerStep(w) \/ Crash(w) PROVE world' = world
  BY <1>1 DEF WorkerStep, RunOnce, Commit, Claim, Drained, ReadToken, MarkShopRevoked, Send, ReadRows,
              apply_outcomes, Crash, Quiet
<1> QED BY <1>1, StepIs, FleetKeeps DEF NoRun, vars

LEMMA StepRations == ASSUME Queue, Lone, [Next]_vars PROVE Lone'
<1> SUFFICES ASSUME Alone, NEW r \in Rows PROVE Rationed(r)'
  BY WorldStays DEF Lone, Alone
<1>1. Rationed(r)
  BY DEF Lone
<1>2. ASSUME UNCHANGED <<job, rec, work, history>> PROVE Rationed(r)'
  BY <1>1, <1>2 DEF Rationed, Spent, history
<1>3. ASSUME NEW w \in Workers, WorkerStep(w) \/ Crash(w) PROVE Rationed(r)'
  BY <1>1, <1>3, RunOnceRations, CommitRations, ClaimRations, CalmRations, SendRations, ReadRowsRations,
     ApplyRations, CrashRations DEF WorkerStep
<1>4. CASE Next
  BY <1>1, <1>2, <1>3, <1>4, StepIs, AsideRations, FleetKeeps
<1>5. CASE UNCHANGED vars
  BY <1>2, <1>5 DEF vars
<1> QED BY <1>4, <1>5

LEMMA FirstLone == ASSUME Init PROVE Lone
<1> SUFFICES ASSUME NEW r \in Rows PROVE Rationed(r)
  BY DEF Lone
<1>1. rec[r] = None /\ tries[r] = 0 /\ \A w \in Workers : work[w] = Idle
  BY DEF Init
<1>2. Spent(r)
  BY <1>1, BoundsAssumption DEF Spent
<1>3. \A w \in Workers : Spared(work[w], rec[r], tries[r], r)
  BY <1>1, IdleRun DEF Spared, Asks
<1> QED BY <1>2, <1>3 DEF Rationed

LEMMA AccountsSuffice == ASSUME Queue, AllPaid, Lone PROVE DuplicatesPaid
<1>1. ASSUME NEW r \in Rows PROVE received[r] <= 1 + unrecorded[r]
  <2>1. received[r] \in Nat /\ unrecorded[r] \in Nat
    BY DEF Queue, Types, Counted
  <2>2. Owing(r) \in SUBSET Workers
    BY DEF Owing
  <2>3. Cardinality(Owing(r)) \in Nat
    BY <2>2, CountSub
  <2>4. received[r] + Cardinality(Owing(r)) <= unrecorded[r] + IF Open(r) THEN 0 ELSE 1
    BY DEF AllPaid, Paid
  <2> QED BY <2>1, <2>3, <2>4
<1>2. ASSUME NEW r \in Rows, Cardinality(world.workers) = 1 PROVE tries[r] <= MAX_ATTEMPTS
  BY <1>2 DEF Lone, Alone, Rationed, Spent
<1> QED BY <1>1, <1>2 DEF DuplicatesPaid

\* Whatever crashes, runs out, is canceled, parked, pruned or recorded by several workers at once: a
\* customer gets a message once, and again only for a claim whose outcome was lost; and one
\* worker never calls send_message for a row more often than _MAX_ATTEMPTS.
THEOREM DuplicatesArePaid == Spec => []DuplicatesPaid
<1> DEFINE Inv == Queue /\ AllPaid /\ Lone
<1>1. Init => Inv
  BY FirstQueue, FirstPaid, FirstLone
<1>2. Inv /\ [Next]_vars => Inv'
  BY StepKeeps, StepPays, StepRations
<1>3. Inv => DuplicatesPaid
  BY AccountsSuffice
<1> HIDE DEF Inv
<1> QED BY <1>1, <1>2, <1>3, PTL DEF Spec

=============================================================================
