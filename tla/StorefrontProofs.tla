-------------------------- MODULE StorefrontProofs --------------------------
(***************************************************************************)
(* Proofs about StorefrontOrders, for any sets of orders, holds, admin     *)
(* renewals, customers, workers and processes, and for any handlers each   *)
(* worker runs. It implements StorefrontSales: every step of every         *)
(* handler, of a crash and of the reaper is one move of one sale, or none. *)
(* And the panel, the ledger and the orders agree, as long as the handlers *)
(* that disturb them stay out.                                             *)
(***************************************************************************)
EXTENDS StorefrontOrders, TLAPS

-----------------------------------------------------------------------------
(* Types.                                                                  *)

LEMMA Typed ==
    ASSUME TypeOK
    PROVE  /\ order \in [Orders -> OrderRow] /\ op \in [Renewals -> OpRow]
           /\ hold \in [Holds -> HoldRow] /\ wallet \in [Customers -> Nat]
           /\ worker \in [Workers -> WorkerState]
           /\ \A o \in Orders : /\ order[o].status \in OrderStatus /\ order[o].trial \in BOOLEAN
                                /\ order[o].armed \in Holds \cup {None}
                                /\ order[o].by \in Renewals \cup {None}
           /\ \A r \in Renewals : op[r].status \in OpStatus
           /\ \A h \in Holds : hold[h].status \in {"none", "held", "released", "settled"}
                               /\ hold[h].order \in Orders \cup {None}
           /\ \A w \in Workers : /\ worker[w].o \in Orders \cup {None}
                                 /\ worker[w].r \in Renewals \cup {None}
                                 /\ worker[w].seen \in OrderStatus
                                 /\ worker[w].saw \in Holds \cup {None}
                                 /\ worker[w].ok \in BOOLEAN
  BY SMT DEF TypeOK, OrderRow, OpRow, HoldRow, WorkerState

LEMMA LeftRow ==
    ASSUME NEW row \in OrderRow, NEW st \in OrderStatus
    PROVE  /\ Left(row, st) \in OrderRow /\ Left(row, st).status = st
           /\ Left(row, st).trial = row.trial /\ Left(row, st).armed = row.armed
           /\ Left(row, st).by = None
<1> DEFINE a == [row EXCEPT !.status = st]
<1>1. a \in OrderRow /\ a.status = st /\ a.trial = row.trial /\ a.armed = row.armed
  BY SMT DEF OrderRow
<1>2. Left(row, st) = [a EXCEPT !.by = None]
  BY SMT DEF Left, OrderRow
<1> HIDE DEF a
<1> QED
  BY <1>1, <1>2, SMT DEF OrderRow

\* An order's new status.
LEMMA StatusSet ==
    ASSUME TypeOK, NEW o \in Orders, NEW st \in OrderStatus, SetStatus(o, st)
    PROVE  /\ order' \in [Orders -> OrderRow] /\ order'[o].status = st
           /\ order'[o].trial = order[o].trial /\ order'[o].armed = order[o].armed
           /\ order'[o].by = None
           /\ \A p \in Orders \ {o} : order'[p] = order[p]
<1>1. Left(order[o], st) \in OrderRow /\ order \in [Orders -> OrderRow]
  BY LeftRow DEF TypeOK
<1>2. order' = [order EXCEPT ![o] = Left(order[o], st)]
  BY DEF SetStatus
<1> QED
  BY <1>1, <1>2, LeftRow DEF TypeOK

LEMMA IdleTyped ==
    /\ Idle \in WorkerState
    /\ Idle.at = "none" /\ Idle.job = "idle" /\ Idle.o = None /\ Idle.r = None
  BY SMT DEF Idle, WorkerState, Place, Locked, OrderStatus, Active

\* The ways a worker moves.
LEMMA BeginTyped ==
    ASSUME TypeOK, NEW w \in Workers, NEW job \in Job, NEW place \in Place, NEW o \in Orders,
           Begin(w, job, place, o)
    PROVE  /\ worker' \in [Workers -> WorkerState]
           /\ \A v \in Workers \ {w} : worker'[v] = worker[v]
           /\ worker'[w].job = job /\ worker'[w].at = place /\ worker'[w].o = o
<1> DEFINE a == [Idle EXCEPT !.job = job]
           b == [a EXCEPT !.at = place]
           c == [b EXCEPT !.o = o]
<1>1. a \in WorkerState /\ a.job = job
  BY IdleTyped, SMT DEF WorkerState
<1>2. b \in WorkerState /\ b.job = job /\ b.at = place
  <2> HIDE DEF a
  <2> QED
    BY <1>1, SMT DEF WorkerState
<1>3. c \in WorkerState /\ c.job = job /\ c.at = place /\ c.o = o
  <2> HIDE DEF b
  <2> QED
    BY <1>2, SMT DEF WorkerState
<1>4. worker' = [worker EXCEPT ![w] = c]
  BY DEF Begin, Idle
<1> HIDE DEF c
<1> QED
  BY <1>3, <1>4 DEF TypeOK

LEMMA GotoTyped ==
    ASSUME TypeOK, NEW w \in Workers, NEW place \in Place, Goto(w, place)
    PROVE  /\ worker' \in [Workers -> WorkerState]
           /\ \A v \in Workers \ {w} : worker'[v] = worker[v]
           /\ worker'[w].at = place /\ worker'[w].job = worker[w].job
           /\ worker'[w].o = worker[w].o /\ worker'[w].r = worker[w].r
           /\ worker'[w].seen = worker[w].seen /\ worker'[w].saw = worker[w].saw
           /\ worker'[w].ok = worker[w].ok
  BY SMT DEF TypeOK, Goto, WorkerState

LEMMA EndTyped ==
    ASSUME TypeOK, NEW w \in Workers, End(w)
    PROVE  /\ worker' \in [Workers -> WorkerState] /\ worker'[w] = Idle
           /\ \A v \in Workers \ {w} : worker'[v] = worker[v]
  BY IdleTyped DEF TypeOK, End

LEMMA BeginRenewalTyped ==
    ASSUME TypeOK, NEW w \in Workers, NEW job \in Job, NEW o \in Orders, NEW r \in Renewals,
           BeginRenewal(w, job, o, r)
    PROVE  /\ worker' \in [Workers -> WorkerState]
           /\ \A v \in Workers \ {w} : worker'[v] = worker[v]
           /\ worker'[w].job = job /\ worker'[w].at = "claim" /\ worker'[w].o = o
           /\ worker'[w].r = r /\ worker'[w].seen = order[o].status
<1> DEFINE a == [Idle EXCEPT !.job = job]
           b == [a EXCEPT !.at = "claim"]
           c == [b EXCEPT !.o = o]
           d == [c EXCEPT !.r = r]
           e == [d EXCEPT !.seen = order[o].status]
<1>1. order[o].status \in OrderStatus /\ r \in Renewals \cup {None} /\ "claim" \in Place
  BY Typed DEF Place
<1>2. /\ a \in WorkerState
      /\ a.job = job
  BY <1>1, IdleTyped, SMT DEF WorkerState
<1>3. /\ b \in WorkerState
      /\ b.job = job /\ b.at = "claim"
  <2> HIDE DEF a
  <2> QED
    BY <1>1, <1>2, SMT DEF WorkerState
<1>4. /\ c \in WorkerState
      /\ c.job = job /\ c.at = "claim" /\ c.o = o
  <2> HIDE DEF b
  <2> QED
    BY <1>1, <1>3, SMT DEF WorkerState
<1>5. /\ d \in WorkerState
      /\ d.job = job /\ d.at = "claim" /\ d.o = o /\ d.r = r
  <2> HIDE DEF c
  <2> QED
    BY <1>1, <1>4, SMT DEF WorkerState
<1>6. /\ e \in WorkerState
      /\ e.job = job /\ e.at = "claim" /\ e.o = o /\ e.r = r /\ e.seen = order[o].status
  <2> HIDE DEF d
  <2> QED
    BY <1>1, <1>5, SMT DEF WorkerState
<1>7. worker' = [worker EXCEPT ![w] = e]
  BY DEF BeginRenewal, Idle
<1> HIDE DEF e
<1> QED
  BY <1>6, <1>7 DEF TypeOK

LEMMA BeginDisarmTyped ==
    ASSUME TypeOK, NEW w \in Workers, NEW job \in Job, NEW o \in Orders, BeginDisarm(w, job, o)
    PROVE  /\ worker' \in [Workers -> WorkerState]
           /\ \A v \in Workers \ {w} : worker'[v] = worker[v]
           /\ worker'[w].job = job /\ worker'[w].at = "disarm" /\ worker'[w].o = o
           /\ worker'[w].saw = order[o].armed
<1> DEFINE a == [Idle EXCEPT !.job = job]
           b == [a EXCEPT !.at = "disarm"]
           c == [b EXCEPT !.o = o]
           d == [c EXCEPT !.saw = order[o].armed]
<1>1. order[o].armed \in Holds \cup {None} /\ "disarm" \in Place
  BY Typed DEF Place
<1>2. /\ a \in WorkerState
      /\ a.job = job
  BY <1>1, IdleTyped, SMT DEF WorkerState
<1>3. /\ b \in WorkerState
      /\ b.job = job /\ b.at = "disarm"
  <2> HIDE DEF a
  <2> QED
    BY <1>1, <1>2, SMT DEF WorkerState
<1>4. /\ c \in WorkerState
      /\ c.job = job /\ c.at = "disarm" /\ c.o = o
  <2> HIDE DEF b
  <2> QED
    BY <1>1, <1>3, SMT DEF WorkerState
<1>5. /\ d \in WorkerState
      /\ d.job = job /\ d.at = "disarm" /\ d.o = o /\ d.saw = order[o].armed
  <2> HIDE DEF c
  <2> QED
    BY <1>1, <1>4, SMT DEF WorkerState
<1>6. worker' = [worker EXCEPT ![w] = d]
  BY DEF BeginDisarm, Idle
<1> HIDE DEF d
<1> QED
  BY <1>5, <1>6 DEF TypeOK

LEMMA FailedTyped ==
    ASSUME TypeOK, NEW w \in Workers, Failed(w)
    PROVE  /\ worker' \in [Workers -> WorkerState]
           /\ \A v \in Workers \ {w} : worker'[v] = worker[v]
           /\ \/ worker'[w] = Idle
              \/ worker'[w].at = "look" /\ worker'[w].o = worker[w].o
<1>1. CASE Goto(w, "look")
  BY <1>1, GotoTyped DEF Place
<1>2. CASE End(w)
  BY <1>2, EndTyped
<1> QED
  BY <1>1, <1>2 DEF Failed

-----------------------------------------------------------------------------
(* Rows no step takes back, and workers that do not move.                  *)

\* A placed hold keeps its order, a settled one stays settled; a created order is never
\* pending again; a claimed renewal keeps its order, a reversed one stays reversed.
Kept ==
    /\ \A h \in Holds : hold[h].status # "none"
          => /\ hold'[h].order = hold[h].order /\ hold'[h].status # "none"
             /\ hold[h].status = "settled" => hold'[h].status = "settled"
    /\ \A o \in Orders :
          /\ order[o].status \notin {"none", "pending"} => order'[o].status \notin {"none", "pending"}
          /\ order[o].status = "pending" => order'[o].status # "none"
    /\ \A r \in Renewals : op[r].status # "none"
          => /\ op'[r].order = op[r].order /\ op'[r].status # "none"
             /\ op[r].status = "reversed" => op'[r].status = "reversed"

\* The step leaves the order v creates and the renewal v works on alone.
Spared(v) ==
    /\ worker'[v] = worker[v]
    /\ Creating(v) => order'[OrderOf(v)] = order[OrderOf(v)]
    /\ Renewing(v) => op'[Renewal(v)].status = op[Renewal(v)].status

LEMMA Bystander ==
    ASSUME SalesInv, Kept, NEW v \in Workers, Spared(v)
    PROVE  CreatorSound(v)' /\ RenewerSound(v)'
<1> USE DEF At, OrderOf, Renewal, Creating, Renewing
<1>1. CreatorSound(v) /\ RenewerSound(v) /\ \A h \in Holds : HoldSound(h)
  BY DEF SalesInv
<1>2. CreatorSound(v)'
  BY <1>1 DEF CreatorSound, Kept, Spared
<1>3. ASSUME NEW h \in Holds, hold[h].order = worker[v].o, worker[v].at # "none"
      PROVE  hold'[h].order = worker[v].o
  BY <1>1, <1>3, NoneAssumption DEF CreatorSound, HoldSound, Kept
<1>4. worker[v].saw \in Holds \cup {None}
  BY Typed DEF SalesInv
<1>5. RenewerSound(v)'
  BY <1>1, <1>3, <1>4, SMT DEF RenewerSound, Kept, Spared
<1> QED
  BY <1>2, <1>5

\* A step sound for the workers it moves and for the rows is sound.
LEMMA StepSound ==
    ASSUME SalesInv, TypeOK', Kept, NEW W \in SUBSET Workers,
           \A v \in Workers \ W : Spared(v),
           \A w \in W : /\ CreatorSound(w)' /\ RenewerSound(w)'
                        /\ \A v \in Workers \ {w} :
                              /\ Creating(w)' /\ Creating(v)' => OrderOf(v)' # OrderOf(w)'
                              /\ Renewing(w)' /\ Renewing(v)' => Renewal(v)' # Renewal(w)',
           \A o \in Orders : PurchaseSound(o)' /\ OrderSound(o)',
           \A h \in Holds : HoldSound(h)',
           \A r \in Renewals : RenewalSound(r)'
    PROVE  SalesInv' /\ Kept
<1>1. \A w \in Workers : CreatorSound(w)' /\ RenewerSound(w)'
  BY Bystander
<1>2. WorkersApart'
  <2> SUFFICES ASSUME NEW v \in Workers, NEW w \in Workers, v # w
               PROVE  /\ Creating(v)' /\ Creating(w)' => OrderOf(v)' # OrderOf(w)'
                      /\ Renewing(v)' /\ Renewing(w)' => Renewal(v)' # Renewal(w)'
    BY DEF WorkersApart
  <2>1. CASE v \in W \/ w \in W
    BY <2>1
  <2>2. CASE v \notin W /\ w \notin W
    BY <2>2 DEF SalesInv, WorkersApart, Spared, Creating, Renewing, At, OrderOf, Renewal
  <2> QED
    BY <2>1, <2>2
<1> QED
  BY <1>1, <1>2 DEF SalesInv

\* Rows that do not change stay sound.
LEMMA RowsSound ==
    ASSUME SalesInv, Kept
    PROVE  /\ \A o \in Orders : order'[o] = order[o] => OrderSound(o)'
           /\ \A o \in Orders : order'[o] = order[o] /\ buy'[o] = buy[o]
                                /\ (o \in refunded' => o \in refunded) => PurchaseSound(o)'
           /\ \A h \in Holds : hold'[h] = hold[h] => HoldSound(h)'
           /\ \A r \in Renewals : op'[r] = op[r] => RenewalSound(r)'
<1>0. \A h \in Holds : HoldSound(h)
  BY DEF SalesInv
<1>1. ASSUME NEW o \in Orders, order'[o] = order[o] PROVE OrderSound(o)'
  <2>1. OrderSound(o) /\ order[o].armed \in Holds \cup {None} /\ order[o].by \in Renewals \cup {None}
    BY Typed DEF SalesInv
  <2>2. order[o].armed # None => hold'[order[o].armed].order = o
    BY <1>0, <2>1, NoneAssumption DEF OrderSound, HoldSound, Kept
  <2> QED
    BY <1>1, <2>1, <2>2 DEF OrderSound, Kept
<1>2. ASSUME NEW o \in Orders, order'[o] = order[o], buy'[o] = buy[o],
             o \in refunded' => o \in refunded
      PROVE  PurchaseSound(o)'
  BY <1>2 DEF SalesInv, PurchaseSound
<1>3. ASSUME NEW h \in Holds, hold'[h] = hold[h] PROVE HoldSound(h)'
  BY <1>0, <1>3 DEF HoldSound
<1>4. ASSUME NEW r \in Renewals, op'[r] = op[r] PROVE RenewalSound(r)'
  <2>1. RenewalSound(r)
    BY DEF SalesInv
  <2>2. op[r].order \in Orders /\ r \in Holds /\ hold[r].order = op[r].order
           => hold'[r].order = op[r].order
    BY <1>0, NoneAssumption DEF HoldSound, Kept
  <2> QED
    BY <1>4, <2>1, <2>2 DEF RenewalSound
<1> QED
  BY <1>1, <1>2, <1>3, <1>4

\* A worker that has ended relies on nothing.
LEMMA IdleSound ==
    ASSUME NEW w \in Workers, worker'[w] = Idle
    PROVE  /\ CreatorSound(w)' /\ RenewerSound(w)' /\ ~Creating(w)' /\ ~Renewing(w)'
  BY IdleTyped DEF CreatorSound, RenewerSound, Creating, Renewing, At

\* A step that moves one worker.
LEMMA OneMoves ==
    ASSUME SalesInv, TypeOK', Kept, NEW w \in Workers,
           \A v \in Workers \ {w} : Spared(v),
           CreatorSound(w)', RenewerSound(w)',
           \A v \in Workers \ {w} :
              /\ Creating(w)' /\ Creating(v)' => OrderOf(v)' # OrderOf(w)'
              /\ Renewing(w)' /\ Renewing(v)' => Renewal(v)' # Renewal(w)',
           \A o \in Orders : PurchaseSound(o)' /\ OrderSound(o)',
           \A h \in Holds : HoldSound(h)',
           \A r \in Renewals : RenewalSound(r)'
    PROVE  SalesInv' /\ Kept
<1>1. PICK W \in SUBSET Workers : W = {w}
  OBVIOUS
<1>2. \A v \in Workers \ W : Spared(v)
  BY <1>1
<1>3. \A u \in W : /\ CreatorSound(u)' /\ RenewerSound(u)'
                   /\ \A v \in Workers \ {u} :
                         /\ Creating(u)' /\ Creating(v)' => OrderOf(v)' # OrderOf(u)'
                         /\ Renewing(u)' /\ Renewing(v)' => Renewal(v)' # Renewal(u)'
  BY <1>1
<1> QED
  BY <1>2, <1>3, StepSound

\* A step that moves one worker, and leaves the database alone.
LEMMA LocalStep ==
    ASSUME SalesInv, UNCHANGED dbVars, user' \in [Orders -> {"absent", "on", "off"}],
           worker' \in [Workers -> WorkerState], NEW w \in Workers,
           \A v \in Workers \ {w} : worker'[v] = worker[v],
           CreatorSound(w)', RenewerSound(w)',
           Creating(w)' => Creating(w) /\ worker'[w].o = worker[w].o,
           Renewing(w)' => Renewing(w) /\ worker'[w].r = worker[w].r
    PROVE  SalesInv' /\ Kept
<1>1. Kept
  BY DEF Kept, dbVars
<1>2. TypeOK'
  BY DEF SalesInv, TypeOK, dbVars
<1>3. \A v \in Workers \ {w} : Spared(v)
  BY DEF Spared, dbVars
<1>4. \A v \in Workers \ {w} :
         /\ Creating(w)' /\ Creating(v)' => OrderOf(v)' # OrderOf(w)'
         /\ Renewing(w)' /\ Renewing(v)' => Renewal(v)' # Renewal(w)'
  <2> SUFFICES ASSUME NEW v \in Workers \ {w}
               PROVE  /\ Creating(w)' /\ Creating(v)' => OrderOf(v)' # OrderOf(w)'
                      /\ Renewing(w)' /\ Renewing(v)' => Renewal(v)' # Renewal(w)'
    OBVIOUS
  <2>1. /\ Creating(v) /\ Creating(w) => OrderOf(v) # OrderOf(w)
        /\ Renewing(v) /\ Renewing(w) => Renewal(v) # Renewal(w)
    BY DEF SalesInv, WorkersApart
  <2>2. worker'[v] = worker[v]
    OBVIOUS
  <2> QED
    BY <2>1, <2>2 DEF Creating, Renewing, At, OrderOf, Renewal
<1>5. /\ \A o \in Orders : PurchaseSound(o)' /\ OrderSound(o)'
      /\ \A h \in Holds : HoldSound(h)'
      /\ \A r \in Renewals : RenewalSound(r)'
  BY <1>1, RowsSound DEF dbVars
<1> QED
  BY <1>1, <1>2, <1>3, <1>4, <1>5, OneMoves

\* It goes to a place where all it needs is an order that was created.
Plain == {"none", "due", "arm", "remove", "switch", "show", "look", "mark"}

LEMMA PlainSound ==
    ASSUME NEW w \in Workers, worker'[w].at \in Plain,
           worker'[w].at # "none" => /\ worker'[w].o \in Orders
                                     /\ order'[worker'[w].o].status \notin {"none", "pending"}
    PROVE  CreatorSound(w)' /\ RenewerSound(w)' /\ ~Creating(w)' /\ ~Renewing(w)'
  BY DEF CreatorSound, RenewerSound, Creating, Renewing, At, OrderOf, Plain

LEMMA PlainStep ==
    ASSUME SalesInv, UNCHANGED dbVars, user' \in [Orders -> {"absent", "on", "off"}],
           worker' \in [Workers -> WorkerState], NEW w \in Workers,
           \A v \in Workers \ {w} : worker'[v] = worker[v],
           worker'[w].at \in Plain,
           worker'[w].at # "none" => /\ worker'[w].o \in Orders
                                     /\ order[worker'[w].o].status \notin {"none", "pending"}
    PROVE  SalesInv' /\ Kept
<1>1. CreatorSound(w)' /\ RenewerSound(w)' /\ ~Creating(w)' /\ ~Renewing(w)'
  BY PlainSound DEF dbVars
<1> QED
  BY <1>1, LocalStep

LEMMA Created ==
    ASSUME SalesInv, NEW w \in Workers, worker[w].at \notin {"none", "create", "record"}
    PROVE  OrderOf(w) \in Orders /\ order[OrderOf(w)].status \notin {"none", "pending"}
  BY DEF SalesInv, CreatorSound, Creating, At

\* Ending, or going on to disarm after a failed fire, needs nothing more.
LEMMA EndFailedStep ==
    ASSUME SalesInv, UNCHANGED dbVars, UNCHANGED user, NEW w \in Workers,
           \/ End(w)
           \/ Failed(w) /\ ~At(w, "none") /\ ~At(w, "create") /\ ~At(w, "record")
    PROVE  SalesInv' /\ Kept
<1>0. TypeOK /\ user' \in [Orders -> {"absent", "on", "off"}]
  BY DEF SalesInv, TypeOK
<1>1. CASE End(w)
  BY <1>0, <1>1, EndTyped, IdleTyped, PlainStep DEF Plain
<1>2. CASE Failed(w) /\ ~At(w, "none") /\ ~At(w, "create") /\ ~At(w, "record")
  <2>1. OrderOf(w) \in Orders /\ order[OrderOf(w)].status \notin {"none", "pending"}
    BY <1>2, Created DEF At
  <2> QED
    BY <1>0, <1>2, <2>1, FailedTyped, IdleTyped, PlainStep DEF Plain, OrderOf
<1> QED
  BY <1>1, <1>2

\* Money that comes back.
LEMMA Credited ==
    ASSUME TypeOK, NEW c \in Customers, NEW n \in Nat, Credit(c, n)
    PROVE  wallet' \in [Customers -> Nat]
  BY DEF TypeOK, Credit

LEMMA UserTyped ==
    ASSUME TypeOK, NEW o \in Orders, NEW x \in {"absent", "on", "off"},
           user' = [user EXCEPT ![o] = x]
    PROVE  user' \in [Orders -> {"absent", "on", "off"}]
  BY DEF TypeOK

\* Reads that begin a job, and calls of the panel.
LEMMA BeginStep ==
    ASSUME SalesInv, UNCHANGED <<dbVars, user>>, NEW w \in Workers, NEW job \in Job,
           NEW place \in Plain \ {"none"}, NEW o \in Orders,
           order[o].status \notin {"none", "pending"}, Begin(w, job, place, o)
    PROVE  SalesInv' /\ Kept
<1>1. TypeOK /\ user' \in [Orders -> {"absent", "on", "off"}] /\ place \in Place
  BY DEF SalesInv, TypeOK, Plain, Place, Locked
<1> QED
  BY <1>1, BeginTyped, PlainStep DEF dbVars

LEMMA ReadSteps ==
    ASSUME SalesInv, NEW w \in Workers, NEW o \in Orders,
           \/ SweepFire(w, o) \/ ArmRead(w, o)
           \/ \E job \in {"pause", "resume"} : ToggleRead(w, job, o)
    PROVE  SalesInv' /\ Kept
<1>1. \A st \in Active : st \notin {"none", "pending"}
  BY DEF Active
<1>2. {"fire", "arm", "pause", "resume"} \subseteq Job
  BY DEF Job
<1> QED
  BY <1>1, <1>2, BeginStep DEF SweepFire, Swept, ArmRead, ToggleRead, Plain

LEMMA RenewalReadStep ==
    ASSUME SalesInv, UNCHANGED <<dbVars, user>>, NEW w \in Workers, NEW job \in Job,
           NEW o \in Orders, NEW r \in Renewals, order[o].status \in Active,
           r \in Holds => hold[r].order = o, BeginRenewal(w, job, o, r)
    PROVE  SalesInv' /\ Kept
<1>1. /\ worker' \in [Workers -> WorkerState] /\ \A v \in Workers \ {w} : worker'[v] = worker[v]
      /\ worker'[w].at = "claim" /\ worker'[w].o = o /\ worker'[w].r = r
      /\ worker'[w].seen = order[o].status
  BY BeginRenewalTyped DEF SalesInv
<1>2. CreatorSound(w)'
  BY <1>1 DEF CreatorSound, Creating, At, OrderOf, dbVars, Active
<1>3. RenewerSound(w)'
  BY <1>1 DEF RenewerSound, Renewing, At, OrderOf, Renewal, dbVars
<1>4. ~Creating(w)' /\ ~Renewing(w)' /\ user' \in [Orders -> {"absent", "on", "off"}]
  BY <1>1 DEF Creating, Renewing, At, SalesInv, TypeOK
<1> QED
  BY <1>1, <1>2, <1>3, <1>4, LocalStep

LEMMA GrantReadStep ==
    ASSUME SalesInv, NEW w \in Workers, NEW o \in Orders, NEW g \in Grants, GrantRead(w, o, g)
    PROVE  SalesInv' /\ Kept
<1>1. g \in Renewals /\ g \notin Holds /\ "grant" \in Job
  BY RenewalsAssumption DEF Renewals, Job
<1> QED
  BY <1>1, RenewalReadStep DEF GrantRead

LEMMA FireReadStep ==
    ASSUME SalesInv, NEW w \in Workers, FireRead(w)
    PROVE  SalesInv' /\ Kept
<1>1. OrderOf(w) \in Orders
  BY Created DEF FireRead, At
<1>2. /\ order[OrderOf(w)].armed \in Holds /\ order[OrderOf(w)].status \in Active
      /\ hold[order[OrderOf(w)].armed].order = OrderOf(w)
  BY <1>1, Typed DEF FireRead, LiveConfirm, SalesInv, OrderSound, Active
<1>3. order[OrderOf(w)].armed \in Renewals /\ "fire" \in Job
  BY <1>2 DEF Renewals, Job
<1> QED
  BY <1>1, <1>2, <1>3, RenewalReadStep DEF FireRead

LEMMA DisarmSound ==
    ASSUME SalesInv, UNCHANGED <<dbVars, user>>, NEW w \in Workers, NEW o \in Orders,
           order[o].status \notin {"none", "pending"}, order[o].armed # None,
           worker' \in [Workers -> WorkerState], \A v \in Workers \ {w} : worker'[v] = worker[v],
           worker'[w].at = "disarm", worker'[w].o = o, worker'[w].saw = order[o].armed
    PROVE  SalesInv' /\ Kept
<1>1. hold[order[o].armed].order = o
  BY DEF SalesInv, OrderSound
<1>2. CreatorSound(w)' /\ RenewerSound(w)'
  BY <1>1 DEF CreatorSound, RenewerSound, Creating, Renewing, At, OrderOf, dbVars
<1>3. ~Creating(w)' /\ ~Renewing(w)' /\ user' \in [Orders -> {"absent", "on", "off"}]
  BY DEF Creating, Renewing, At, SalesInv, TypeOK
<1> QED
  BY <1>2, <1>3, LocalStep

LEMMA DisarmReadStep ==
    ASSUME SalesInv, NEW w \in Workers, NEW job \in {"disarm", "sweep"}, NEW o \in Orders,
           order[o].status \in Active, DisarmRead(w, job, o)
    PROVE  SalesInv' /\ Kept
<1>1. job \in Job /\ order[o].status \notin {"none", "pending"} /\ TypeOK
  BY DEF Job, Active, SalesInv
<1> QED
  BY <1>1, BeginDisarmTyped, DisarmSound DEF DisarmRead

LEMMA LookStep ==
    ASSUME SalesInv, NEW w \in Workers, Look(w)
    PROVE  SalesInv' /\ Kept
<1>1. OrderOf(w) \in Orders /\ order[OrderOf(w)].status \notin {"none", "pending"}
  BY Created DEF Look, At
<1>2. CASE order[OrderOf(w)].armed = None
  BY <1>2, EndFailedStep DEF Look
<1>3. CASE order[OrderOf(w)].armed # None
  <2> DEFINE there == [worker EXCEPT ![w].at = "disarm"]
  <2>1. worker' = [there EXCEPT ![w].saw = order[OrderOf(w)].armed]
    BY <1>3 DEF Look
  <2>3. /\ there \in [Workers -> WorkerState] /\ \A v \in Workers \ {w} : there[v] = worker[v]
        /\ there[w].at = "disarm" /\ there[w].o = worker[w].o
    BY SMT DEF SalesInv, TypeOK, WorkerState, Place
  <2>4. order[OrderOf(w)].armed \in Holds \cup {None}
    BY <1>1, Typed DEF SalesInv
  <2> HIDE DEF there
  <2>5. /\ worker' \in [Workers -> WorkerState] /\ \A v \in Workers \ {w} : worker'[v] = worker[v]
        /\ worker'[w].at = "disarm" /\ worker'[w].o = worker[w].o
        /\ worker'[w].saw = order[OrderOf(w)].armed
    BY <2>1, <2>3, <2>4, SMT DEF WorkerState
  <2> QED
    BY <1>1, <1>3, <2>5, DisarmSound DEF Look, OrderOf
<1> QED
  BY <1>2, <1>3

LEMMA CreateUserStep ==
    ASSUME SalesInv, NEW w \in Workers, NEW made \in BOOLEAN, NEW ok \in BOOLEAN,
           CreateUser(w, made, ok)
    PROVE  SalesInv' /\ Kept
<1> DEFINE there == [worker EXCEPT ![w].at = "record"]
<1>1. worker' = [there EXCEPT ![w].ok = ok]
  BY DEF CreateUser
<1>2. /\ there \in [Workers -> WorkerState] /\ \A v \in Workers \ {w} : there[v] = worker[v]
      /\ there[w].at = "record" /\ there[w].o = worker[w].o /\ there[w].job = worker[w].job
  BY SMT DEF SalesInv, TypeOK, WorkerState, Place, Locked
<1> HIDE DEF there
<1>3. /\ worker' \in [Workers -> WorkerState] /\ \A v \in Workers \ {w} : worker'[v] = worker[v]
      /\ worker'[w].at = "record" /\ worker'[w].o = worker[w].o /\ worker'[w].job = worker[w].job
  BY <1>1, <1>2, SMT DEF WorkerState
<1>4. Creating(w) /\ CreatorSound(w)
  BY DEF CreateUser, Creating, SalesInv
<1>5. CreatorSound(w)' /\ RenewerSound(w)' /\ ~Renewing(w)'
  BY <1>3, <1>4 DEF CreatorSound, RenewerSound, Creating, Renewing, At, OrderOf, CreateUser, dbVars
<1>6. OrderOf(w) \in Orders
  BY <1>4 DEF CreatorSound, CreateUser, At
<1>7. user' \in [Orders -> {"absent", "on", "off"}]
  BY <1>6 DEF CreateUser, SalesInv, TypeOK
<1> QED
  BY <1>3, <1>4, <1>5, <1>7, LocalStep DEF CreateUser

LEMMA UserCallStep ==
    ASSUME SalesInv, NEW w \in Workers,
           \/ RemoveUser(w) \/ Switch(w) \/ SwitchFails(w)
           \/ \E gone \in BOOLEAN : RemoveFails(w, gone)
    PROVE  SalesInv' /\ Kept
<1>1. OrderOf(w) \in Orders /\ order[OrderOf(w)].status \notin {"none", "pending"}
  BY Created DEF RemoveUser, Switch, SwitchFails, RemoveFails, At
<1>2. UNCHANGED dbVars /\ user' \in [Orders -> {"absent", "on", "off"}]
  BY <1>1 DEF RemoveUser, Switch, SwitchFails, RemoveFails, Switched, SalesInv, TypeOK
<1>3. Goto(w, "mark") \/ Goto(w, "show") \/ End(w)
  BY DEF RemoveUser, Switch, SwitchFails, RemoveFails
<1>4. CASE \E place \in {"mark", "show"} : Goto(w, place)
  <2>1. PICK place \in {"mark", "show"} : Goto(w, place)
    BY <1>4
  <2>2. place \in Place /\ place \in Plain /\ TypeOK
    BY DEF Place, Locked, Plain, SalesInv
  <2> QED
    BY <1>1, <1>2, <2>1, <2>2, GotoTyped, PlainStep DEF OrderOf
<1>5. CASE End(w)
  BY <1>2, <1>5, EndTyped, IdleTyped, PlainStep DEF Plain, SalesInv
<1> QED
  BY <1>3, <1>4, <1>5

LEMMA QuitSteps ==
    ASSUME SalesInv, NEW w \in Workers,
           \/ RenewRefused(w) \/ FireSkipped(w) \/ ClaimKnown(w) \/ ArmRefused(w) \/ ArmDeclined(w)
    PROVE  SalesInv' /\ Kept
  BY EndFailedStep DEF RenewRefused, FireSkipped, ClaimKnown, ArmRefused, ArmDeclined, At

LEMMA CrashStep ==
    ASSUME SalesInv, NEW p, Crash(p)
    PROVE  SalesInv' /\ Kept
<1> DEFINE W == {w \in Workers : ProcOf[w] = p}
<1>1. Kept
  BY DEF Kept, Crash, dbVars
<1>2. /\ \A w \in W : worker'[w] = Idle
      /\ \A w \in Workers \ W : worker'[w] = worker[w]
  BY DEF Crash
<1>3. TypeOK'
  <2>1. worker' \in [Workers -> WorkerState]
    BY <1>2, IdleTyped DEF Crash, SalesInv, TypeOK
  <2> QED
    BY <2>1 DEF Crash, SalesInv, TypeOK, dbVars
<1>4. \A w \in W : CreatorSound(w)' /\ RenewerSound(w)' /\ ~Creating(w)' /\ ~Renewing(w)'
  BY <1>2, IdleSound
<1>5. \A w \in Workers \ W : Spared(w)
  BY <1>2 DEF Spared, Crash, dbVars
<1>6. /\ \A o \in Orders : PurchaseSound(o)' /\ OrderSound(o)'
      /\ \A h \in Holds : HoldSound(h)'
      /\ \A r \in Renewals : RenewalSound(r)'
  BY <1>1, RowsSound DEF Crash, dbVars
<1>7. W \in SUBSET Workers
  OBVIOUS
<1> HIDE DEF W
<1> QED
  BY <1>1, <1>3, <1>4, <1>5, <1>6, <1>7, StepSound

-----------------------------------------------------------------------------
(* Purchases.                                                              *)

\* A worker other than the one that creates an order is not busy with a new one.
LEMMA NewOrder ==
    ASSUME SalesInv, NEW o \in Orders, order[o].status = "none", NEW v \in Workers, ~At(v, "none")
    PROVE  OrderOf(v) # o
  BY DEF SalesInv, CreatorSound

LEMMA BuyStep ==
    ASSUME SalesInv, NEW w \in Workers, NEW o \in Orders, Buy(w, o)
    PROVE  SalesInv' /\ Kept
<1>0. TypeOK /\ "pending" \in OrderStatus
  BY DEF SalesInv, OrderStatus
<1>1. /\ order' \in [Orders -> OrderRow] /\ order'[o].status = "pending"
      /\ order'[o].trial = order[o].trial /\ order'[o].armed = order[o].armed
      /\ \A p \in Orders \ {o} : order'[p] = order[p]
  BY <1>0, StatusSet DEF Buy
<1>2. /\ worker' \in [Workers -> WorkerState] /\ \A v \in Workers \ {w} : worker'[v] = worker[v]
      /\ worker'[w].job = "buy" /\ worker'[w].at = "create" /\ worker'[w].o = o
  <2>1. "buy" \in Job /\ "create" \in Place
    BY DEF Job, Place, Locked
  <2> QED
    BY <1>0, <2>1, BeginTyped DEF Buy
<1>3. order[o].status = "none" /\ buy[o] = "none" /\ order[o].trial = FALSE /\ o \notin refunded
  BY <1>0, Typed DEF Buy, SalesInv, PurchaseSound
<1>4. wallet' \in [Customers -> Nat]
  BY <1>0, BuyerAssumption DEF Buy, Pay, TypeOK
<1>5. TypeOK'
  BY <1>0, <1>1, <1>2, <1>4 DEF Buy, TypeOK
<1>6. Kept
  BY <1>1, <1>3 DEF Kept, Buy
<1>7. \A v \in Workers \ {w} : Spared(v) /\ (Creating(v) => OrderOf(v) # o)
  <2> SUFFICES ASSUME NEW v \in Workers \ {w} PROVE Spared(v) /\ (Creating(v) => OrderOf(v) # o)
    OBVIOUS
  <2>1. Creating(v) => OrderOf(v) \in Orders \ {o}
    BY <1>3, NewOrder DEF Creating, At, SalesInv, CreatorSound
  <2> QED
    BY <1>1, <1>2, <2>1 DEF Spared, Buy
<1>8. CreatorSound(w)' /\ RenewerSound(w)' /\ ~Renewing(w)' /\ OrderOf(w)' = o
  BY <1>1, <1>2, <1>3 DEF CreatorSound, RenewerSound, Creating, Renewing, At, OrderOf
<1>9. \A p \in Orders : PurchaseSound(p)' /\ OrderSound(p)'
  <2>1. PurchaseSound(o)'
    BY <1>0, <1>1, <1>3 DEF PurchaseSound, Buy, TypeOK
  <2>2. OrderSound(o)'
    BY <1>1 DEF OrderSound, Buy, SalesInv
  <2>3. \A p \in Orders \ {o} : buy'[p] = buy[p]
    BY <1>0 DEF Buy, TypeOK
  <2> QED
    BY <1>1, <1>6, <2>1, <2>2, <2>3, RowsSound DEF Buy
<1>10. (\A h \in Holds : HoldSound(h)') /\ \A r \in Renewals : RenewalSound(r)'
  BY <1>6, RowsSound DEF Buy
<1>11. \A v \in Workers \ {w} : Creating(v)' => OrderOf(v)' # o
  BY <1>2, <1>7 DEF Creating, At, OrderOf
<1> QED
  BY <1>5, <1>6, <1>7, <1>8, <1>9, <1>10, <1>11, OneMoves

LEMMA TrialStep ==
    ASSUME SalesInv, NEW w \in Workers, NEW o \in Orders, Trial(w, o)
    PROVE  SalesInv' /\ Kept
<1>0. TypeOK /\ "pending" \in OrderStatus
  BY DEF SalesInv, OrderStatus
<1>1. /\ order' \in [Orders -> OrderRow] /\ order'[o].status = "pending"
      /\ order'[o].trial = TRUE /\ order'[o].armed = order[o].armed
      /\ \A p \in Orders \ {o} : order'[p] = order[p]
  <2> DEFINE mid == [order EXCEPT ![o].status = "pending"]
  <2>1. mid \in [Orders -> OrderRow] /\ mid[o].status = "pending" /\ mid[o].armed = order[o].armed
        /\ \A p \in Orders \ {o} : mid[p] = order[p]
    BY <1>0, SMT DEF TypeOK, OrderRow
  <2>2. order' = [mid EXCEPT ![o].trial = TRUE]
    BY DEF Trial
  <2> HIDE DEF mid
  <2> DEFINE row == [mid[o] EXCEPT !.trial = TRUE]
  <2>3. order' = [mid EXCEPT ![o] = row] /\ mid[o] \in OrderRow
    BY <2>1, <2>2, Zenon
  <2>4. row.trial = TRUE
    BY <2>3, Zenon DEF OrderRow
  <2>5. row.status = mid[o].status /\ row.armed = mid[o].armed
    BY <2>3, Zenon DEF OrderRow
  <2>6. row \in OrderRow
    <3>1. /\ DOMAIN row = {"status", "trial", "armed", "by"}
          /\ row = [x \in DOMAIN row |-> row[x]]
      BY <2>3, Zenon DEF OrderRow
    <3> QED
      BY <2>3, ZenonT(30) DEF OrderRow
  <2> HIDE DEF row
  <2> QED
    BY <2>1, <2>3, <2>4, <2>5, <2>6
<1>2. /\ worker' \in [Workers -> WorkerState] /\ \A v \in Workers \ {w} : worker'[v] = worker[v]
      /\ worker'[w].job = "trial" /\ worker'[w].at = "create" /\ worker'[w].o = o
  <2>1. "trial" \in Job /\ "create" \in Place
    BY DEF Job, Place, Locked
  <2> QED
    BY <1>0, <2>1, BeginTyped DEF Trial
<1>3. order[o].status = "none" /\ buy[o] = "none" /\ o \notin refunded
  BY <1>0, Typed DEF Trial, SalesInv, PurchaseSound
<1>5. TypeOK'
  BY <1>0, <1>1, <1>2, BuyerAssumption DEF Trial, TypeOK
<1>6. Kept
  BY <1>1, <1>3 DEF Kept, Trial
<1>7. \A v \in Workers \ {w} : Spared(v) /\ (Creating(v) => OrderOf(v) # o)
  <2> SUFFICES ASSUME NEW v \in Workers \ {w} PROVE Spared(v) /\ (Creating(v) => OrderOf(v) # o)
    OBVIOUS
  <2>1. Creating(v) => OrderOf(v) \in Orders \ {o}
    BY <1>3, NewOrder DEF Creating, At, SalesInv, CreatorSound
  <2> QED
    BY <1>1, <1>2, <2>1 DEF Spared, Trial
<1>8. CreatorSound(w)' /\ RenewerSound(w)' /\ ~Renewing(w)' /\ OrderOf(w)' = o
  BY <1>1, <1>2, <1>3 DEF CreatorSound, RenewerSound, Creating, Renewing, At, OrderOf
<1>9. \A p \in Orders : PurchaseSound(p)' /\ OrderSound(p)'
  <2>1. PurchaseSound(o)'
    BY <1>0, <1>1, <1>3 DEF PurchaseSound, Trial
  <2>2. OrderSound(o)'
    BY <1>1 DEF OrderSound, Trial, SalesInv
  <2> QED
    BY <1>1, <1>6, <2>1, <2>2, RowsSound DEF Trial
<1>10. (\A h \in Holds : HoldSound(h)') /\ \A r \in Renewals : RenewalSound(r)'
  BY <1>6, RowsSound DEF Trial
<1>11. \A v \in Workers \ {w} : Creating(v)' => OrderOf(v)' # o
  BY <1>2, <1>7 DEF Creating, At, OrderOf
<1> QED
  BY <1>5, <1>6, <1>7, <1>8, <1>9, <1>10, <1>11, OneMoves

\* A pending order gets its outcome, from the worker that creates it or from the reaper,
\* when nobody else creates it.
LEMMA DecideOrderStep ==
    ASSUME SalesInv, TypeOK', NEW W \in SUBSET Workers, NEW o \in Orders,
           order[o].status = "pending", NEW st \in {"provisioned", "failed"}, SetStatus(o, st),
           UNCHANGED <<op, hold>>,
           \A w \in W : worker'[w] = Idle,
           \A v \in Workers \ W : worker'[v] = worker[v] /\ (Creating(v) => OrderOf(v) # o),
           \A p \in Orders \ {o} : buy'[p] = buy[p] /\ (p \in refunded' => p \in refunded),
           o \in refunded' => buy'[o] = "failed"
    PROVE  SalesInv' /\ Kept
<1>0. TypeOK /\ st \in OrderStatus
  BY DEF SalesInv, OrderStatus, Active
<1>1. /\ order'[o].status = st /\ order'[o].armed = order[o].armed
      /\ \A p \in Orders \ {o} : order'[p] = order[p]
  BY <1>0, StatusSet
<1>2. Kept
  BY <1>1 DEF Kept
<1>3. \A v \in Workers \ W : Spared(v)
  <2> SUFFICES ASSUME NEW v \in Workers \ W PROVE Spared(v)
    OBVIOUS
  <2>1. Creating(v) => OrderOf(v) \in Orders \ {o}
    BY DEF Creating, At, SalesInv, CreatorSound
  <2> QED
    BY <1>1, <2>1 DEF Spared
<1>4. \A w \in W : CreatorSound(w)' /\ RenewerSound(w)' /\ ~Creating(w)' /\ ~Renewing(w)'
  BY IdleSound
<1>5. \A p \in Orders : PurchaseSound(p)' /\ OrderSound(p)'
  <2>1. PurchaseSound(o)' /\ OrderSound(o)'
    BY <1>1 DEF PurchaseSound, OrderSound, SalesInv
  <2> QED
    BY <1>1, <1>2, <2>1, RowsSound
<1>6. (\A h \in Holds : HoldSound(h)') /\ \A r \in Renewals : RenewalSound(r)'
  BY <1>2, RowsSound
<1> QED
  BY <1>2, <1>3, <1>4, <1>5, <1>6, StepSound

\* The worker that creates an order finds it pending, and is the only one.
LEMMA Creator ==
    ASSUME SalesInv, NEW w \in Workers, Creating(w)
    PROVE  /\ OrderOf(w) \in Orders /\ order[OrderOf(w)].status = "pending"
           /\ buy[OrderOf(w)] = IF worker[w].job = "trial" THEN "none" ELSE "in_progress"
           /\ OrderOf(w) \notin refunded
           /\ \A v \in Workers \ {w} : Creating(v) => OrderOf(v) # OrderOf(w)
<1>1. CreatorSound(w) /\ OrderOf(w) \in Orders
  BY DEF SalesInv, CreatorSound, Creating, At
<1>2. /\ order[OrderOf(w)].status = "pending"
      /\ buy[OrderOf(w)] = IF worker[w].job = "trial" THEN "none" ELSE "in_progress"
      /\ OrderOf(w) \notin refunded
  BY <1>1 DEF SalesInv, CreatorSound, PurchaseSound
<1> QED
  BY <1>1, <1>2 DEF SalesInv, WorkersApart

LEMMA FinishBuyStep ==
    ASSUME SalesInv, NEW w \in Workers, FinishBuy(w)
    PROVE  SalesInv' /\ Kept
<1> DEFINE o == OrderOf(w)
           st == IF worker[w].ok THEN "provisioned" ELSE "failed"
<1>1. /\ o \in Orders /\ order[o].status = "pending" /\ o \notin refunded
      /\ \A v \in Workers \ {w} : Creating(v) => OrderOf(v) # o
  BY Creator DEF FinishBuy, Creating
<1>2. /\ SetStatus(o, st) /\ End(w) /\ UNCHANGED <<op, hold, trialUsed, user>>
      /\ buy' = [buy EXCEPT ![o] = IF worker[w].ok THEN "done" ELSE "failed"]
      /\ refunded' = IF worker[w].ok THEN refunded ELSE refunded \cup {o}
      /\ Credit(BuyerOf[o], IF worker[w].ok THEN 0 ELSE 1)
  BY <1>1, Typed DEF FinishBuy, SalesInv
<1>3. TypeOK /\ st \in {"provisioned", "failed"} /\ st \in OrderStatus
  BY DEF SalesInv, OrderStatus, Active
<1>4. /\ worker' \in [Workers -> WorkerState] /\ worker'[w] = Idle
      /\ \A v \in Workers \ {w} : worker'[v] = worker[v]
  BY <1>2, <1>3, EndTyped
<1> HIDE DEF st
<1>5. TypeOK'
  <2>1. order' \in [Orders -> OrderRow]
    BY <1>1, <1>2, <1>3, StatusSet
  <2>2. wallet' \in [Customers -> Nat]
    <3>1. BuyerOf[o] \in Customers /\ (IF worker[w].ok THEN 0 ELSE 1) \in Nat
      BY <1>1, BuyerAssumption
    <3> QED
      BY <1>2, <1>3, <3>1, Credited
  <2>3. /\ buy' \in [Orders -> {"none", "in_progress", "done", "failed"}]
        /\ refunded' \subseteq Orders
    BY <1>1, <1>2, <1>3 DEF TypeOK
  <2> QED
    BY <1>2, <1>3, <1>4, <2>1, <2>2, <2>3 DEF TypeOK
<1>6. /\ \A p \in Orders \ {o} : buy'[p] = buy[p] /\ (p \in refunded' => p \in refunded)
      /\ o \in refunded' => buy'[o] = "failed"
  BY <1>1, <1>2, <1>3 DEF TypeOK
<1>7. PICK W \in SUBSET Workers : W = {w}
  OBVIOUS
<1> HIDE DEF o
<1> QED
  BY <1>1, <1>2, <1>3, <1>4, <1>5, <1>6, <1>7, DecideOrderStep

LEMMA FinishTrialStep ==
    ASSUME SalesInv, NEW w \in Workers, FinishTrial(w)
    PROVE  SalesInv' /\ Kept
<1> DEFINE o == OrderOf(w)
           st == IF worker[w].ok THEN "provisioned" ELSE "failed"
<1>1. /\ o \in Orders /\ order[o].status = "pending" /\ o \notin refunded
      /\ \A v \in Workers \ {w} : Creating(v) => OrderOf(v) # o
  BY Creator DEF FinishTrial, Creating
<1>2. /\ SetStatus(o, st) /\ End(w) /\ UNCHANGED <<buy, refunded, op, hold, wallet, user>>
      /\ trialUsed' \subseteq trialUsed
  BY DEF FinishTrial
<1>3. TypeOK /\ st \in {"provisioned", "failed"} /\ st \in OrderStatus
  BY DEF SalesInv, OrderStatus, Active
<1>4. /\ worker' \in [Workers -> WorkerState] /\ worker'[w] = Idle
      /\ \A v \in Workers \ {w} : worker'[v] = worker[v]
  BY <1>2, <1>3, EndTyped
<1> HIDE DEF st
<1>5. TypeOK'
  <2>1. order' \in [Orders -> OrderRow]
    BY <1>1, <1>2, <1>3, StatusSet
  <2> QED
    BY <1>2, <1>3, <1>4, <2>1 DEF TypeOK
<1>6. PICK W \in SUBSET Workers : W = {w}
  OBVIOUS
<1> HIDE DEF o
<1> QED
  BY <1>1, <1>2, <1>3, <1>4, <1>5, <1>6, DecideOrderStep

\* The reaper decides a pending order no worker creates any more.
LEMMA ReapPurchaseStep ==
    ASSUME SalesInv, NEW o \in Orders, ReapPurchase(o)
    PROVE  SalesInv' /\ Kept
<1> DEFINE st == IF user[o] # "absent" THEN "provisioned" ELSE "failed"
<1>1. /\ order[o].status = "pending" /\ o \notin refunded
      /\ buy[o] = IF order[o].trial THEN "none" ELSE "in_progress"
      /\ \A v \in Workers : Creating(v) => OrderOf(v) # o
  BY DEF ReapPurchase, Leased, Creating, At, OrderOf, SalesInv, PurchaseSound
<1>2. SetStatus(o, st) /\ UNCHANGED <<op, hold, user, worker>>
  BY DEF ReapPurchase
<1>3. TypeOK /\ st \in {"provisioned", "failed"} /\ st \in OrderStatus
  BY DEF SalesInv, OrderStatus, Active
<1>4. TypeOK'
  <2>1. order' \in [Orders -> OrderRow]
    BY <1>2, <1>3, StatusSet
  <2>2. wallet' \in [Customers -> Nat]
    <3>1. PICK n \in Nat : Credit(BuyerOf[o], n)
      BY DEF ReapPurchase
    <3> QED
      BY <1>3, <3>1, BuyerAssumption, Credited
  <2>3. /\ buy' \in [Orders -> {"none", "in_progress", "done", "failed"}]
        /\ refunded' \subseteq Orders /\ trialUsed' \subseteq Customers
    BY <1>3 DEF ReapPurchase, TypeOK
  <2> QED
    BY <1>2, <1>3, <2>1, <2>2, <2>3 DEF TypeOK
<1>5. /\ \A p \in Orders \ {o} : buy'[p] = buy[p] /\ (p \in refunded' => p \in refunded)
      /\ o \in refunded' => buy'[o] = "failed"
  BY <1>1, <1>3 DEF ReapPurchase, TypeOK
<1>6. PICK W \in SUBSET Workers : W = {}
  OBVIOUS
<1> HIDE DEF st
<1> QED
  BY <1>1, <1>2, <1>3, <1>4, <1>5, <1>6, DecideOrderStep

-----------------------------------------------------------------------------
(* Renewals.                                                               *)

\* A worker busy with a renewal, or about to pay one back.
LEMMA Renewer ==
    ASSUME SalesInv, NEW w \in Workers, worker[w].at \in {"prepare", "debit", "apply", "finish"}
    PROVE  /\ OrderOf(w) \in Orders /\ order[OrderOf(w)].status \notin {"none", "pending"}
           /\ Renewal(w) \in Renewals /\ worker[w].seen \in Active
           /\ op[Renewal(w)].order = OrderOf(w) /\ op[Renewal(w)].status = "in_progress"
           /\ ~op[Renewal(w)].repaid
           /\ Renewal(w) \in Holds => hold[Renewal(w)].order = OrderOf(w)
           /\ \A v \in Workers \ {w} : Renewing(v) => Renewal(v) # Renewal(w)
<1>1. OrderOf(w) \in Orders /\ order[OrderOf(w)].status \notin {"none", "pending"}
  BY Created
<1>2. Renewing(w) /\ RenewerSound(w)
  BY DEF Renewing, SalesInv
<1>3. /\ Renewal(w) \in Renewals /\ worker[w].seen \in Active
      /\ op[Renewal(w)].order = OrderOf(w) /\ op[Renewal(w)].status = "in_progress"
      /\ Renewal(w) \in Holds => hold[Renewal(w)].order = OrderOf(w)
  BY <1>2 DEF RenewerSound
<1>4. ~op[Renewal(w)].repaid
  BY <1>3 DEF SalesInv, RenewalSound
<1> QED
  BY <1>1, <1>2, <1>3, <1>4 DEF SalesInv, WorkersApart

\* A step of a renewal, of auto-renew or of a deletion: the workers W move, none of them
\* to a new order or to a renewal somebody works on.
LEMMA WorkStep ==
    ASSUME SalesInv, TypeOK', Kept, UNCHANGED <<buy, refunded>>, NEW W \in SUBSET Workers,
           \A w \in W : /\ CreatorSound(w)' /\ RenewerSound(w)' /\ ~Creating(w)'
                        /\ \A v \in Workers \ {w} :
                              Renewing(w)' /\ Renewing(v)' => Renewal(v)' # Renewal(w)',
           \A v \in Workers \ W :
              /\ worker'[v] = worker[v]
              /\ Renewing(v) => op'[Renewal(v)].status = op[Renewal(v)].status,
           \A o \in Orders :
              \/ order'[o] = order[o]
              \/ order[o].status \notin {"none", "pending"} /\ OrderSound(o)',
           \A h \in Holds : hold'[h] = hold[h] \/ hold'[h].status # "none",
           \A r \in Renewals : op'[r] = op[r] \/ RenewalSound(r)'
    PROVE  SalesInv' /\ Kept
<1>1. \A v \in Workers \ W : Spared(v)
  <2> SUFFICES ASSUME NEW v \in Workers \ W PROVE Spared(v)
    OBVIOUS
  <2>1. Creating(v) => OrderOf(v) \in Orders /\ order[OrderOf(v)].status = "pending"
    BY Creator
  <2> QED
    BY <2>1 DEF Spared
<1>2. \A o \in Orders : PurchaseSound(o)' /\ OrderSound(o)'
  <2> SUFFICES ASSUME NEW o \in Orders PROVE PurchaseSound(o)' /\ OrderSound(o)'
    OBVIOUS
  <2>1. CASE order'[o] = order[o]
    BY <2>1, RowsSound
  <2>2. CASE order[o].status \notin {"none", "pending"} /\ OrderSound(o)'
    BY <2>2 DEF Kept, PurchaseSound, SalesInv
  <2> QED
    BY <2>1, <2>2
<1>3. (\A h \in Holds : HoldSound(h)') /\ \A r \in Renewals : RenewalSound(r)'
  BY RowsSound DEF HoldSound
<1> QED
  BY <1>1, <1>2, <1>3, StepSound

\* The same for one worker that ends, or goes on where it relies on the order only.
LEMMA PlainWork ==
    ASSUME SalesInv, TypeOK', Kept, UNCHANGED <<buy, refunded>>, NEW w \in Workers,
           worker'[w].at \in Plain,
           worker'[w].at # "none" => /\ worker'[w].o \in Orders
                                     /\ order[worker'[w].o].status \notin {"none", "pending"},
           \A v \in Workers \ {w} :
              /\ worker'[v] = worker[v]
              /\ Renewing(v) => op'[Renewal(v)].status = op[Renewal(v)].status,
           \A o \in Orders :
              \/ order'[o] = order[o]
              \/ order[o].status \notin {"none", "pending"} /\ OrderSound(o)',
           \A h \in Holds : hold'[h] = hold[h] \/ hold'[h].status # "none",
           \A r \in Renewals : op'[r] = op[r] \/ RenewalSound(r)'
    PROVE  SalesInv' /\ Kept
<1>1. CreatorSound(w)' /\ RenewerSound(w)' /\ ~Creating(w)' /\ ~Renewing(w)'
  BY PlainSound DEF Kept
<1>2. PICK W \in SUBSET Workers : W = {w}
  OBVIOUS
<1> QED
  BY <1>1, <1>2, WorkStep

\* An order that leaves its renewal, or loses its arm, keeps what it says.
LEMMA OrderStays ==
    ASSUME SalesInv, Kept, NEW o \in Orders,
           order'[o].armed \in {None, order[o].armed},
           order'[o].status = "renewing" => order[o].status = "renewing" /\ order'[o].by = order[o].by
    PROVE  OrderSound(o)'
<1>1. /\ OrderSound(o) /\ order[o].armed \in Holds \cup {None}
      /\ order[o].by \in Renewals \cup {None}
  BY Typed DEF SalesInv
<1>2. order[o].armed # None => hold'[order[o].armed].order = o
  BY <1>1, NoneAssumption DEF SalesInv, OrderSound, HoldSound, Kept
<1> QED
  BY <1>1, <1>2 DEF OrderSound, Kept

LEMMA ClaimStep ==
    ASSUME SalesInv, NEW w \in Workers, Claim(w)
    PROVE  SalesInv' /\ Kept
<1> PICK o \in Orders : o = OrderOf(w)
  BY Created DEF Claim, At
<1> PICK r \in Renewals : r = Renewal(w)
  BY DEF Claim, At, SalesInv, RenewerSound
<1>0. /\ TypeOK /\ o = worker[w].o /\ r = worker[w].r /\ worker[w].seen \in Active
      /\ (r \in Holds => hold[r].order = o) /\ worker[w].at = "claim"
  BY DEF Claim, At, SalesInv, RenewerSound, OrderOf, Renewal
<1>1. /\ order' = [order EXCEPT ![o].status = "renewing", ![o].by = r]
      /\ op' = [op EXCEPT ![r].status = "in_progress", ![r].order = o, ![r].prior = worker[w].seen]
      /\ Goto(w, "prepare") /\ UNCHANGED <<buy, refunded, hold, wallet, trialUsed, user>>
      /\ op[r].status = "none" /\ order[o].status \in Active
  BY DEF Claim
<1>2. /\ order' \in [Orders -> OrderRow] /\ order'[o].status = "renewing" /\ order'[o].by = r
      /\ order'[o].armed = order[o].armed /\ \A p \in Orders \ {o} : order'[p] = order[p]
  <2> DEFINE mid == [order EXCEPT ![o].status = "renewing"]
  <2>1. /\ mid \in [Orders -> OrderRow] /\ mid[o].status = "renewing"
        /\ mid[o].armed = order[o].armed /\ \A p \in Orders \ {o} : mid[p] = order[p]
    BY <1>0, SMT DEF TypeOK, OrderRow, OrderStatus
  <2>2. order' = [mid EXCEPT ![o].by = r]
    BY <1>1
  <2> HIDE DEF mid
  <2> QED
    BY <1>0, <2>1, <2>2, SMT DEF OrderRow
<1>3. /\ op' \in [Renewals -> OpRow] /\ op'[r].status = "in_progress" /\ op'[r].order = o
      /\ op'[r].prior = worker[w].seen /\ op'[r].repaid = op[r].repaid
      /\ \A q \in Renewals \ {r} : op'[q] = op[q]
  <2> DEFINE a == [op EXCEPT ![r].status = "in_progress"]
             b == [a EXCEPT ![r].order = o]
             c == [b EXCEPT ![r].prior = worker[w].seen]
  <2>1. op \in [Renewals -> OpRow] /\ "in_progress" \in OpStatus /\ worker[w].seen \in OrderStatus
    BY <1>0 DEF TypeOK, OpStatus, OrderStatus
  <2>2. op' = c
    BY <1>1
  <2>3. /\ a \in [Renewals -> OpRow] /\ a[r].status = "in_progress" /\ a[r].repaid = op[r].repaid
        /\ \A q \in Renewals \ {r} : a[q] = op[q]
    BY <1>0, <2>1, SMT DEF OpRow
  <2> HIDE DEF a
  <2>4. /\ b \in [Renewals -> OpRow] /\ b[r].status = "in_progress" /\ b[r].repaid = op[r].repaid
        /\ b[r].order = o /\ \A q \in Renewals \ {r} : b[q] = op[q]
    BY <1>0, <2>1, <2>3, SMT DEF OpRow
  <2> HIDE DEF b
  <2>5. /\ c \in [Renewals -> OpRow] /\ c[r].status = "in_progress" /\ c[r].repaid = op[r].repaid
        /\ c[r].order = o /\ c[r].prior = worker[w].seen
        /\ \A q \in Renewals \ {r} : c[q] = op[q]
    BY <1>0, <2>1, <2>4, SMT DEF OpRow
  <2> HIDE DEF c
  <2> QED
    BY <2>2, <2>5
<1>4. /\ worker' \in [Workers -> WorkerState] /\ \A v \in Workers \ {w} : worker'[v] = worker[v]
      /\ worker'[w].at = "prepare" /\ worker'[w].o = o /\ worker'[w].r = r
      /\ worker'[w].seen = worker[w].seen /\ worker'[w].saw = worker[w].saw
  <2>1. "prepare" \in Place
    BY DEF Place, Locked
  <2> QED
    BY <1>0, <1>1, <2>1, GotoTyped
<1>5. TypeOK'
  BY <1>0, <1>1, <1>2, <1>3, <1>4 DEF TypeOK
<1>6. Kept
  BY <1>0, <1>1, <1>2, <1>3 DEF Kept, Active
<1>7. CreatorSound(w)' /\ RenewerSound(w)' /\ ~Creating(w)'
  BY <1>0, <1>1, <1>2, <1>3, <1>4 DEF CreatorSound, RenewerSound, Creating, Renewing, At, OrderOf, Renewal
<1>8. \A v \in Workers \ {w} :
         /\ Renewing(v) => Renewal(v) # r /\ op'[Renewal(v)].status = op[Renewal(v)].status
         /\ Renewing(v)' => Renewal(v)' # r
  <2> SUFFICES ASSUME NEW v \in Workers \ {w}
               PROVE  Renewing(v) => Renewal(v) # r /\ op'[Renewal(v)].status = op[Renewal(v)].status
    BY <1>4 DEF Renewing, Renewal
  <2>1. Renewing(v) => Renewal(v) \in Renewals /\ op[Renewal(v)].status = "in_progress"
    BY Renewer DEF Renewing
  <2> QED
    BY <1>1, <1>3, <2>1
<1>9. OrderSound(o)'
  <2>1. OrderSound(o)
    BY <1>0 DEF SalesInv
  <2>2. r # None
    BY <1>0, NoneAssumption DEF Renewals
  <2> QED
    BY <1>0, <1>1, <1>2, <1>3, <2>1, <2>2 DEF OrderSound
<1>10. RenewalSound(r)'
  <2>1. RenewalSound(r)
    BY <1>0 DEF SalesInv
  <2> QED
    BY <1>0, <1>1, <1>3, <2>1 DEF RenewalSound
<1>11. \A p \in Orders :
          \/ order'[p] = order[p]
          \/ order[p].status \notin {"none", "pending"} /\ OrderSound(p)'
  BY <1>1, <1>2, <1>9 DEF Active
<1>12. \A q \in Renewals : op'[q] = op[q] \/ RenewalSound(q)'
  BY <1>3, <1>10
<1>13. PICK W \in SUBSET Workers : W = {w}
  OBVIOUS
<1>14. Renewal(w)' = r
  BY <1>4 DEF Renewal
<1> QED
  BY <1>1, <1>4, <1>5, <1>6, <1>7, <1>8, <1>11, <1>12, <1>13, <1>14, WorkStep

\* A worker goes on with its renewal, or to pay it back.
LEMMA RenewalWork ==
    ASSUME SalesInv, TypeOK', Kept, UNCHANGED <<order, buy, refunded>>, NEW w \in Workers,
           NEW r \in Renewals, r = Renewal(w),
           worker[w].at \in {"prepare", "debit", "apply", "finish"},
           NEW place \in {"debit", "apply", "finish", "repay"}, Goto(w, place),
           \A q \in Renewals \ {r} : op'[q] = op[q],
           op'[r].status = IF place = "repay" THEN "reversed" ELSE "in_progress",
           op'[r].prior = op[r].prior, ~op'[r].repaid,
           place \in {"debit", "repay"} => r \in Holds,
           place \in {"apply", "finish", "repay"} /\ r \in Holds => hold'[r].status = "settled",
           \A h \in Holds : hold'[h] = hold[h] \/ hold'[h].status # "none"
    PROVE  SalesInv' /\ Kept
<1>0. TypeOK /\ place \in Place
  BY DEF SalesInv, Place, Locked
<1>1. /\ OrderOf(w) \in Orders /\ order[OrderOf(w)].status \notin {"none", "pending"}
      /\ worker[w].seen \in Active
      /\ op[r].order = OrderOf(w) /\ op[r].status = "in_progress"
      /\ r \in Holds => hold[r].order = OrderOf(w)
      /\ \A v \in Workers \ {w} : Renewing(v) => Renewal(v) # r
  BY Renewer
<1>2. /\ worker' \in [Workers -> WorkerState] /\ \A v \in Workers \ {w} : worker'[v] = worker[v]
      /\ worker'[w].at = place /\ worker'[w].o = worker[w].o /\ worker'[w].r = r
      /\ worker'[w].seen = worker[w].seen
  BY <1>0, GotoTyped DEF Renewal
<1>3. r \in Holds => hold'[r].order = OrderOf(w)
  BY <1>1, NoneAssumption DEF SalesInv, HoldSound, Kept
<1>4. op'[r].order = OrderOf(w)
  BY <1>1 DEF Kept
<1>5. CreatorSound(w)' /\ ~Creating(w)'
  BY <1>1, <1>2 DEF CreatorSound, Creating, At, OrderOf
<1>6. RenewerSound(w)'
  BY <1>1, <1>2, <1>3, <1>4 DEF RenewerSound, Renewing, At, OrderOf, Renewal
<1>7. RenewalSound(r)'
  BY <1>1, <1>3, <1>4 DEF RenewalSound, SalesInv
<1>8. \A v \in Workers \ {w} :
         /\ Renewing(v) => op'[Renewal(v)].status = op[Renewal(v)].status
         /\ Renewing(v)' => Renewal(v)' # r
  <2> SUFFICES ASSUME NEW v \in Workers \ {w}, Renewing(v)
               PROVE  Renewal(v) # r /\ op'[Renewal(v)].status = op[Renewal(v)].status
    BY <1>2 DEF Renewing, Renewal
  <2>1. Renewal(v) \in Renewals
    BY Renewer DEF Renewing
  <2> QED
    BY <1>1, <2>1
<1>9. PICK W \in SUBSET Workers : W = {w}
  OBVIOUS
<1>10. Renewal(w)' = r
  BY <1>2 DEF Renewal
<1>11. \A q \in Renewals : op'[q] = op[q] \/ RenewalSound(q)'
  BY <1>7
<1> QED
  BY <1>2, <1>5, <1>6, <1>8, <1>9, <1>10, <1>11, WorkStep

\* An operation's new status.
LEMMA OpStatusSet ==
    ASSUME TypeOK, NEW r \in Renewals, NEW st \in OpStatus, op' = [op EXCEPT ![r].status = st]
    PROVE  /\ op' \in [Renewals -> OpRow] /\ \A q \in Renewals \ {r} : op'[q] = op[q]
           /\ op'[r].status = st /\ op'[r].order = op[r].order /\ op'[r].prior = op[r].prior
           /\ op'[r].repaid = op[r].repaid /\ op'[r].target = op[r].target
           /\ op'[r].applied = op[r].applied
  BY SMT DEF TypeOK, OpRow

\* Its flags.
LEMMA OpTargetSet ==
    ASSUME TypeOK, NEW r \in Renewals, NEW b \in BOOLEAN, op' = [op EXCEPT ![r].target = b]
    PROVE  /\ op' \in [Renewals -> OpRow] /\ \A q \in Renewals \ {r} : op'[q] = op[q]
           /\ op'[r].status = op[r].status /\ op'[r].order = op[r].order
           /\ op'[r].prior = op[r].prior /\ op'[r].repaid = op[r].repaid
           /\ op'[r].applied = op[r].applied /\ op'[r].target = b
  BY SMT DEF TypeOK, OpRow

LEMMA OpAppliedSet ==
    ASSUME TypeOK, NEW r \in Renewals, NEW b \in BOOLEAN, op' = [op EXCEPT ![r].applied = b]
    PROVE  /\ op' \in [Renewals -> OpRow] /\ \A q \in Renewals \ {r} : op'[q] = op[q]
           /\ op'[r].status = op[r].status /\ op'[r].order = op[r].order
           /\ op'[r].prior = op[r].prior /\ op'[r].repaid = op[r].repaid
           /\ op'[r].target = op[r].target /\ op'[r].applied = b
  BY SMT DEF TypeOK, OpRow

LEMMA OpRepaidSet ==
    ASSUME TypeOK, NEW r \in Renewals, NEW b \in BOOLEAN, op' = [op EXCEPT ![r].repaid = b]
    PROVE  /\ op' \in [Renewals -> OpRow] /\ \A q \in Renewals \ {r} : op'[q] = op[q]
           /\ op'[r].status = op[r].status /\ op'[r].order = op[r].order
           /\ op'[r].prior = op[r].prior /\ op'[r].target = op[r].target
           /\ op'[r].applied = op[r].applied /\ op'[r].repaid = b
  BY SMT DEF TypeOK, OpRow

\* A hold's new status.
LEMMA HoldStatusSet ==
    ASSUME TypeOK, NEW h \in Holds, NEW st \in {"released", "settled"},
           hold' = [hold EXCEPT ![h].status = st]
    PROVE  /\ hold' \in [Holds -> HoldRow] /\ \A i \in Holds \ {h} : hold'[i] = hold[i]
           /\ hold'[h].status = st /\ hold'[h].order = hold[h].order
  BY SMT DEF TypeOK, HoldRow

LEMMA PrepareStep ==
    ASSUME SalesInv, NEW w \in Workers, Prepare(w)
    PROVE  SalesInv' /\ Kept
<1>1. worker[w].at \in {"prepare", "debit", "apply", "finish"} /\ worker[w].at = "prepare"
  BY DEF Prepare, At
<1> PICK r \in Renewals : r = Renewal(w)
  BY <1>1, Renewer
<1>2. /\ op' = [op EXCEPT ![r].target = TRUE] /\ UNCHANGED <<order, buy, refunded, hold, wallet, trialUsed, user>>
      /\ Goto(w, IF r \in Holds THEN "debit" ELSE "apply")
  BY DEF Prepare
<1>3. TypeOK /\ op[r].status = "in_progress" /\ ~op[r].repaid
  BY <1>1, Renewer DEF SalesInv
<1>4. /\ op' \in [Renewals -> OpRow] /\ \A q \in Renewals \ {r} : op'[q] = op[q]
      /\ op'[r].status = op[r].status /\ op'[r].order = op[r].order
      /\ op'[r].prior = op[r].prior /\ op'[r].repaid = op[r].repaid
  <2>1. PICK b \in BOOLEAN : b = TRUE
    OBVIOUS
  <2>2. op' = [op EXCEPT ![r].target = b]
    BY <1>2, <2>1
  <2> QED
    BY <1>3, <2>2, OpTargetSet
<1>5. PICK place \in {"debit", "apply"} : place = IF r \in Holds THEN "debit" ELSE "apply"
  OBVIOUS
<1>6. Goto(w, place) /\ place \in Place
  BY <1>2, <1>5 DEF Place, Locked
<1>7. TypeOK'
  <2>1. worker' \in [Workers -> WorkerState]
    BY <1>3, <1>6, GotoTyped
  <2> QED
    BY <1>2, <1>3, <1>4, <2>1 DEF TypeOK
<1>8. Kept
  BY <1>2, <1>4 DEF Kept
<1> QED
  BY <1>1, <1>2, <1>3, <1>4, <1>5, <1>6, <1>7, <1>8, RenewalWork

LEMMA DebitStep ==
    ASSUME SalesInv, NEW w \in Workers, Debit(w)
    PROVE  SalesInv' /\ Kept
<1>1. worker[w].at \in {"prepare", "debit", "apply", "finish"} /\ worker[w].at = "debit"
  BY DEF Debit, At
<1> PICK r \in Renewals : r = Renewal(w)
  BY <1>1, Renewer
<1>2. /\ hold' = [hold EXCEPT ![r].status = "settled"] /\ Goto(w, "apply")
      /\ UNCHANGED <<order, buy, refunded, op, wallet, trialUsed, user>>
  BY DEF Debit
<1>3. /\ TypeOK /\ op[r].status = "in_progress" /\ ~op[r].repaid /\ "apply" \in Place
      /\ r \in Holds
  BY <1>1, Renewer DEF SalesInv, Place, Locked, RenewerSound, At
<1>4. /\ hold' \in [Holds -> HoldRow] /\ \A i \in Holds \ {r} : hold'[i] = hold[i]
      /\ hold'[r].status = "settled" /\ hold'[r].order = hold[r].order
  BY <1>2, <1>3, HoldStatusSet
<1>5. TypeOK'
  <2>1. worker' \in [Workers -> WorkerState]
    BY <1>2, <1>3, GotoTyped
  <2> QED
    BY <1>2, <1>3, <1>4, <2>1 DEF TypeOK
<1>6. Kept
  BY <1>2, <1>4 DEF Kept
<1> QED
  BY <1>1, <1>2, <1>3, <1>4, <1>5, <1>6, RenewalWork

LEMMA ApplyStep ==
    ASSUME SalesInv, NEW w \in Workers, Apply(w)
    PROVE  SalesInv' /\ Kept
<1>1. worker[w].at \in {"prepare", "debit", "apply", "finish"} /\ worker[w].at = "apply"
  BY DEF Apply, At
<1> PICK r \in Renewals : r = Renewal(w)
  BY <1>1, Renewer
<1>2. /\ op' = [op EXCEPT ![r].applied = TRUE] /\ user' = [user EXCEPT ![OrderOf(w)] = "on"]
      /\ Goto(w, "finish") /\ UNCHANGED <<order, buy, refunded, hold, wallet, trialUsed>>
  BY DEF Apply, Applied
<1>3. /\ TypeOK /\ op[r].status = "in_progress" /\ ~op[r].repaid /\ "finish" \in Place
      /\ r \in Holds => hold[r].status = "settled"
      /\ OrderOf(w) \in Orders
  BY <1>1, Renewer DEF SalesInv, Place, Locked, RenewerSound, At
<1>4. /\ op' \in [Renewals -> OpRow] /\ \A q \in Renewals \ {r} : op'[q] = op[q]
      /\ op'[r].status = op[r].status /\ op'[r].order = op[r].order
      /\ op'[r].prior = op[r].prior /\ op'[r].repaid = op[r].repaid
  <2>1. PICK b \in BOOLEAN : b = TRUE
    OBVIOUS
  <2>2. op' = [op EXCEPT ![r].applied = b]
    BY <1>2, <2>1
  <2> QED
    BY <1>3, <2>2, OpAppliedSet
<1>5. TypeOK'
  <2>1. worker' \in [Workers -> WorkerState]
    BY <1>2, <1>3, GotoTyped
  <2>2. user' \in [Orders -> {"absent", "on", "off"}]
    BY <1>2, <1>3, UserTyped
  <2> QED
    BY <1>2, <1>3, <1>4, <2>1, <2>2 DEF TypeOK
<1>6. Kept
  BY <1>2, <1>4 DEF Kept
<1> QED
  BY <1>1, <1>2, <1>3, <1>4, <1>5, <1>6, RenewalWork

\* A step on one operation leaves the renewals of the other workers alone.
LEMMA OthersGoOn ==
    ASSUME SalesInv, NEW w \in Workers, NEW r \in Renewals, \A q \in Renewals \ {r} : op'[q] = op[q],
           \/ worker[w].at \in {"prepare", "debit", "apply", "finish"} /\ r = Renewal(w)
           \/ op[r].status # "in_progress"
    PROVE  \A v \in Workers \ {w} : Renewing(v) => op'[Renewal(v)].status = op[Renewal(v)].status
<1> SUFFICES ASSUME NEW v \in Workers \ {w}, Renewing(v)
             PROVE  op'[Renewal(v)].status = op[Renewal(v)].status
  OBVIOUS
<1>1. Renewal(v) \in Renewals /\ op[Renewal(v)].status = "in_progress"
  BY Renewer DEF Renewing
<1>2. Renewal(v) # r
  <2>1. CASE worker[w].at \in {"prepare", "debit", "apply", "finish"} /\ r = Renewal(w)
    BY <2>1, Renewer
  <2>2. CASE op[r].status # "in_progress"
    BY <1>1, <2>2
  <2> QED
    BY <2>1, <2>2
<1> QED
  BY <1>1, <1>2

LEMMA ClaimRefusedStep ==
    ASSUME SalesInv, NEW w \in Workers, ClaimRefused(w)
    PROVE  SalesInv' /\ Kept
<1> PICK o \in Orders : o = OrderOf(w)
  BY Created DEF ClaimRefused, At
<1> PICK r \in Renewals : r = Renewal(w)
  BY DEF ClaimRefused, At, SalesInv, RenewerSound
<1>1. /\ op' = [op EXCEPT ![r].status = "failed", ![r].order = o] /\ op[r].status = "none"
      /\ Failed(w) /\ UNCHANGED <<order, buy, refunded, hold, wallet, trialUsed, user>>
  BY DEF ClaimRefused
<1>2. TypeOK /\ ~op[r].repaid /\ order[o].status \notin {"none", "pending"} /\ o = worker[w].o
  BY <1>1, Created DEF SalesInv, RenewalSound, ClaimRefused, At, OrderOf
<1>3. /\ op' \in [Renewals -> OpRow] /\ \A q \in Renewals \ {r} : op'[q] = op[q]
      /\ op'[r].status = "failed" /\ op'[r].repaid = op[r].repaid
  <2> DEFINE a == [op EXCEPT ![r].status = "failed"]
  <2>1. /\ a \in [Renewals -> OpRow] /\ a[r].status = "failed" /\ a[r].repaid = op[r].repaid
        /\ \A q \in Renewals \ {r} : a[q] = op[q]
    BY <1>2, SMT DEF TypeOK, OpRow, OpStatus
  <2>2. op' = [a EXCEPT ![r].order = o]
    BY <1>1
  <2> HIDE DEF a
  <2> QED
    BY <2>1, <2>2, SMT DEF OpRow
<1>4. /\ worker' \in [Workers -> WorkerState] /\ \A v \in Workers \ {w} : worker'[v] = worker[v]
      /\ worker'[w].at \in Plain /\ (worker'[w].at # "none" => worker'[w].o = o)
  BY <1>1, <1>2, FailedTyped, IdleTyped DEF Plain
<1>5. TypeOK'
  BY <1>1, <1>2, <1>3, <1>4 DEF TypeOK
<1>6. Kept
  BY <1>1, <1>3 DEF Kept
<1>7. RenewalSound(r)'
  BY <1>2, <1>3 DEF RenewalSound
<1>8. \A v \in Workers \ {w} : Renewing(v) => op'[Renewal(v)].status = op[Renewal(v)].status
  BY <1>1, <1>3, OthersGoOn
<1>9. \A q \in Renewals : op'[q] = op[q] \/ RenewalSound(q)'
  BY <1>3, <1>7
<1> QED
  BY <1>1, <1>2, <1>4, <1>5, <1>6, <1>8, <1>9, PlainWork

LEMMA GiveUpStep ==
    ASSUME SalesInv, NEW w \in Workers, worker[w].at \in {"prepare", "debit"}, GiveUp(w)
    PROVE  SalesInv' /\ Kept
<1> PICK o \in Orders : o = OrderOf(w)
  BY Renewer
<1> PICK r \in Renewals : r = Renewal(w)
  BY Renewer
<1>1. /\ TypeOK /\ worker[w].seen \in Active /\ worker[w].seen \in OrderStatus /\ o = worker[w].o
      /\ ~op[r].repaid /\ order[o].status \notin {"none", "pending"} /\ op[r].status = "in_progress"
  BY Renewer DEF SalesInv, OrderStatus, OrderOf
<1>2. /\ order' = [order EXCEPT ![o] = IF order[o].status = "renewing"
                                      THEN Left(order[o], worker[w].seen) ELSE order[o]]
      /\ op' = [op EXCEPT ![r].status = "failed"]
      /\ Failed(w) /\ UNCHANGED <<buy, refunded, hold, wallet, trialUsed, user>>
  BY DEF GiveUp
<1>3. /\ order' \in [Orders -> OrderRow] /\ order'[o].armed = order[o].armed
      /\ order'[o].status \notin {"none", "pending", "renewing"}
      /\ \A p \in Orders \ {o} : order'[p] = order[p]
  <2>1. /\ Left(order[o], worker[w].seen) \in OrderRow
        /\ Left(order[o], worker[w].seen).armed = order[o].armed
        /\ Left(order[o], worker[w].seen).status = worker[w].seen
    BY <1>1, LeftRow DEF TypeOK
  <2> QED
    BY <1>1, <1>2, <2>1 DEF TypeOK, Active
<1>4. /\ op' \in [Renewals -> OpRow] /\ \A q \in Renewals \ {r} : op'[q] = op[q]
      /\ op'[r].status = "failed" /\ op'[r].repaid = op[r].repaid /\ op'[r].order = op[r].order
  BY <1>1, <1>2, OpStatusSet DEF OpStatus
<1>5. /\ worker' \in [Workers -> WorkerState] /\ \A v \in Workers \ {w} : worker'[v] = worker[v]
      /\ worker'[w].at \in Plain /\ (worker'[w].at # "none" => worker'[w].o = o)
  BY <1>1, <1>2, FailedTyped, IdleTyped DEF Plain
<1>6. TypeOK'
  BY <1>1, <1>2, <1>3, <1>4, <1>5 DEF TypeOK
<1>7. Kept
  BY <1>1, <1>2, <1>3, <1>4 DEF Kept
<1>8. OrderSound(o)' /\ RenewalSound(r)'
  BY <1>1, <1>3, <1>4, <1>7, OrderStays DEF RenewalSound
<1>9. \A v \in Workers \ {w} : Renewing(v) => op'[Renewal(v)].status = op[Renewal(v)].status
  BY <1>4, OthersGoOn
<1>10. /\ \A p \in Orders : \/ order'[p] = order[p]
                            \/ order[p].status \notin {"none", "pending"} /\ OrderSound(p)'
       /\ \A q \in Renewals : op'[q] = op[q] \/ RenewalSound(q)'
  BY <1>1, <1>3, <1>4, <1>8
<1> QED
  BY <1>1, <1>2, <1>5, <1>6, <1>7, <1>9, <1>10, PlainWork

LEMMA ApplyUncertainStep ==
    ASSUME SalesInv, NEW w \in Workers, ApplyUncertain(w)
    PROVE  SalesInv' /\ Kept
<1> PICK o \in Orders : o = OrderOf(w)
  BY Renewer DEF ApplyUncertain, At
<1> PICK r \in Renewals : r = Renewal(w)
  BY Renewer DEF ApplyUncertain, At
<1>1. TypeOK /\ End(w) /\ UNCHANGED <<order, buy, refunded, hold, wallet, trialUsed>>
  BY DEF ApplyUncertain, SalesInv
<1>2. CASE UNCHANGED <<op, user>>
  BY <1>1, <1>2, EndFailedStep DEF dbVars
<1>3. CASE Applied(o, r)
  <2>1. op' = [op EXCEPT ![r].applied = TRUE] /\ user' = [user EXCEPT ![o] = "on"]
    BY <1>3 DEF Applied
  <2>2. /\ op' \in [Renewals -> OpRow] /\ \A q \in Renewals \ {r} : op'[q] = op[q]
        /\ op'[r].status = op[r].status /\ op'[r].order = op[r].order
        /\ op'[r].prior = op[r].prior /\ op'[r].repaid = op[r].repaid
    <3>1. PICK b \in BOOLEAN : b = TRUE
      OBVIOUS
    <3>2. op' = [op EXCEPT ![r].applied = b]
      BY <2>1, <3>1
    <3> QED
      BY <1>1, <3>2, OpAppliedSet
  <2>3. /\ worker' \in [Workers -> WorkerState] /\ worker'[w] = Idle
        /\ \A v \in Workers \ {w} : worker'[v] = worker[v]
    BY <1>1, EndTyped
  <2>4. TypeOK'
    <3>1. user' \in [Orders -> {"absent", "on", "off"}]
      BY <1>1, <2>1, UserTyped
    <3> QED
      BY <1>1, <2>2, <2>3, <3>1 DEF TypeOK
  <2>5. Kept
    BY <1>1, <2>2 DEF Kept
  <2>6. \A q \in Renewals : RenewalSound(q)'
    BY <1>1, <2>2 DEF SalesInv, RenewalSound
  <2>7. \A v \in Workers \ {w} : Renewing(v) => op'[Renewal(v)].status = op[Renewal(v)].status
    <3>1. worker[w].at \in {"prepare", "debit", "apply", "finish"}
      BY DEF ApplyUncertain, At
    <3> QED
      BY <2>2, <3>1, OthersGoOn
  <2> QED
    BY <1>1, <2>3, <2>4, <2>5, <2>6, <2>7, IdleTyped, PlainWork DEF Plain
<1> QED
  BY <1>2, <1>3 DEF ApplyUncertain

LEMMA FinishStep ==
    ASSUME SalesInv, NEW w \in Workers, Finish(w)
    PROVE  SalesInv' /\ Kept
<1>0. worker[w].at \in {"prepare", "debit", "apply", "finish"}
  BY DEF Finish, At
<1> PICK o \in Orders : o = OrderOf(w)
  BY <1>0, Renewer
<1> PICK r \in Renewals : r = Renewal(w)
  BY <1>0, Renewer
<1>1. /\ TypeOK /\ ~op[r].repaid /\ order[o].status = "renewing" /\ op[r].status = "in_progress"
      /\ "provisioned" \in OrderStatus
  BY <1>0, Renewer DEF SalesInv, Finish, OrderStatus, Active
<1>2. /\ order' = [order EXCEPT ![o] = [Left(order[o], "provisioned") EXCEPT
                                         !.armed = IF r \in Holds THEN None ELSE order[o].armed]]
      /\ op' = [op EXCEPT ![r].status = "done"] /\ End(w)
      /\ UNCHANGED <<buy, refunded, hold, wallet, trialUsed, user>>
  BY DEF Finish
<1>3. /\ order' \in [Orders -> OrderRow] /\ order'[o].armed \in {None, order[o].armed}
      /\ order'[o].status = "provisioned"
      /\ \A p \in Orders \ {o} : order'[p] = order[p]
  <2> DEFINE left == Left(order[o], "provisioned")
             row == [left EXCEPT !.armed = IF r \in Holds THEN None ELSE order[o].armed]
  <2>1. left \in OrderRow /\ left.armed = order[o].armed /\ left.status = "provisioned"
    BY <1>1, LeftRow DEF TypeOK
  <2> HIDE DEF left
  <2>2. /\ row \in OrderRow /\ row.status = "provisioned"
        /\ row.armed \in {None, order[o].armed}
    BY <2>1, SMT DEF OrderRow
  <2>3. order' = [order EXCEPT ![o] = row]
    BY <1>2 DEF left
  <2> HIDE DEF row
  <2> QED
    BY <1>1, <2>2, <2>3 DEF TypeOK
<1>4. /\ op' \in [Renewals -> OpRow] /\ \A q \in Renewals \ {r} : op'[q] = op[q]
      /\ op'[r].status = "done" /\ op'[r].repaid = op[r].repaid /\ op'[r].order = op[r].order
  BY <1>1, <1>2, OpStatusSet DEF OpStatus
<1>5. /\ worker' \in [Workers -> WorkerState] /\ worker'[w] = Idle
      /\ \A v \in Workers \ {w} : worker'[v] = worker[v]
  BY <1>1, <1>2, EndTyped
<1>6. TypeOK'
  BY <1>1, <1>2, <1>3, <1>4, <1>5 DEF TypeOK
<1>7. Kept
  BY <1>1, <1>2, <1>3, <1>4 DEF Kept
<1>8. OrderSound(o)' /\ RenewalSound(r)'
  BY <1>1, <1>3, <1>4, <1>7, OrderStays DEF RenewalSound
<1>9. \A v \in Workers \ {w} : Renewing(v) => op'[Renewal(v)].status = op[Renewal(v)].status
  BY <1>0, <1>4, OthersGoOn
<1>10. /\ \A p \in Orders : \/ order'[p] = order[p]
                            \/ order[p].status \notin {"none", "pending"} /\ OrderSound(p)'
       /\ \A q \in Renewals : op'[q] = op[q] \/ RenewalSound(q)'
  BY <1>1, <1>3, <1>4, <1>8
<1> QED
  BY <1>1, <1>2, <1>5, <1>6, <1>7, <1>9, <1>10, IdleTyped, PlainWork DEF Plain

LEMMA FinishElsewhereStep ==
    ASSUME SalesInv, NEW w \in Workers, FinishElsewhere(w)
    PROVE  SalesInv' /\ Kept
<1>0. worker[w].at \in {"prepare", "debit", "apply", "finish"} /\ worker[w].at = "finish"
  BY DEF FinishElsewhere, At
<1> PICK r \in Renewals : r = Renewal(w)
  BY <1>0, Renewer
<1>1. /\ TypeOK /\ ~op[r].repaid /\ op[r].status = "in_progress"
      /\ r \in Holds => hold[r].status = "settled"
  BY <1>0, Renewer DEF SalesInv, RenewerSound, At
<1>2. /\ op' = [op EXCEPT ![r].status = "reversed"]
      /\ UNCHANGED <<order, buy, refunded, hold, wallet, trialUsed, user>>
      /\ IF r \in Holds THEN Goto(w, "repay") ELSE End(w)
  BY DEF FinishElsewhere
<1>3. /\ op' \in [Renewals -> OpRow] /\ \A q \in Renewals \ {r} : op'[q] = op[q]
      /\ op'[r].status = "reversed" /\ op'[r].repaid = op[r].repaid /\ op'[r].order = op[r].order
      /\ op'[r].prior = op[r].prior
  BY <1>1, <1>2, OpStatusSet DEF OpStatus
<1>4. worker' \in [Workers -> WorkerState]
  BY <1>1, <1>2, GotoTyped, EndTyped DEF Place, Locked
<1>5. TypeOK'
  BY <1>1, <1>2, <1>3, <1>4 DEF TypeOK
<1>6. Kept
  BY <1>1, <1>2, <1>3 DEF Kept
<1>7. CASE r \in Holds
  <2>1. PICK place \in {"repay"} : Goto(w, place)
    BY <1>2, <1>7
  <2> QED
    BY <1>0, <1>1, <1>2, <1>3, <1>5, <1>6, <1>7, <2>1, RenewalWork
<1>8. CASE r \notin Holds
  <2>1. worker'[w] = Idle /\ \A v \in Workers \ {w} : worker'[v] = worker[v]
    BY <1>1, <1>2, <1>8, EndTyped
  <2>2. \A v \in Workers \ {w} : Renewing(v) => op'[Renewal(v)].status = op[Renewal(v)].status
    BY <1>0, <1>3, OthersGoOn
  <2>3. \A q \in Renewals : op'[q] = op[q] \/ RenewalSound(q)'
    BY <1>1, <1>3 DEF RenewalSound
  <2> QED
    BY <1>2, <1>5, <1>6, <2>1, <2>2, <2>3, IdleTyped, PlainWork DEF Plain
<1> QED
  BY <1>7, <1>8

LEMMA RepayStep ==
    ASSUME SalesInv, NEW w \in Workers, Repay(w)
    PROVE  SalesInv' /\ Kept
<1> PICK o \in Orders : o = OrderOf(w)
  BY Created DEF Repay, At
<1> PICK r \in Renewals : r = Renewal(w)
  BY DEF Repay, At, SalesInv, RenewerSound
<1>1. /\ TypeOK /\ op[r].status = "reversed" /\ o = worker[w].o
      /\ order[o].status \notin {"none", "pending"}
  BY Created DEF Repay, At, SalesInv, RenewerSound, OrderOf
<1>2. /\ op' = [op EXCEPT ![r].repaid = TRUE] /\ Failed(w)
      /\ UNCHANGED <<order, buy, refunded, hold, trialUsed, user>>
  BY DEF Repay
<1>3. /\ op' \in [Renewals -> OpRow] /\ \A q \in Renewals \ {r} : op'[q] = op[q]
      /\ op'[r].status = op[r].status /\ op'[r].order = op[r].order
  <2>1. PICK b \in BOOLEAN : b = TRUE
    OBVIOUS
  <2>2. op' = [op EXCEPT ![r].repaid = b]
    BY <1>2, <2>1
  <2> QED
    BY <1>1, <2>2, OpRepaidSet
<1>4. /\ worker' \in [Workers -> WorkerState] /\ \A v \in Workers \ {w} : worker'[v] = worker[v]
      /\ worker'[w].at \in Plain /\ (worker'[w].at # "none" => worker'[w].o = o)
  BY <1>1, <1>2, FailedTyped, IdleTyped DEF Plain
<1>5. TypeOK'
  <2>1. wallet' \in [Customers -> Nat]
    <3>1. PICK n \in Nat : Credit(BuyerOf[o], n)
      BY DEF Repay
    <3> QED
      BY <1>1, <3>1, BuyerAssumption, Credited
  <2> QED
    BY <1>1, <1>2, <1>3, <1>4, <2>1 DEF TypeOK
<1>6. Kept
  BY <1>1, <1>2, <1>3 DEF Kept
<1>7. \A q \in Renewals : op'[q] = op[q] \/ RenewalSound(q)'
  BY <1>1, <1>3 DEF RenewalSound
<1>8. \A v \in Workers \ {w} : Renewing(v) => op'[Renewal(v)].status = op[Renewal(v)].status
  BY <1>1, <1>3, OthersGoOn
<1> QED
  BY <1>1, <1>2, <1>4, <1>5, <1>6, <1>7, <1>8, PlainWork

-----------------------------------------------------------------------------
(* Arming, disarming, deleting, pausing and resuming.                      *)

LEMMA Released ==
    ASSUME TypeOK, NEW h \in Holds \cup {None}, NEW o \in Orders, Release(h, o)
    PROVE  /\ hold' \in [Holds -> HoldRow] /\ wallet' \in [Customers -> Nat]
           /\ \A i \in Holds : /\ hold'[i].order = hold[i].order
                               /\ \/ hold'[i] = hold[i]
                                  \/ hold[i].status = "held" /\ hold'[i].status = "released"
<1>1. CASE h # None /\ hold[h].status = "held"
  <2>1. hold' = [hold EXCEPT ![h].status = "released"] /\ Credit(BuyerOf[o], 1) /\ h \in Holds
    BY <1>1 DEF Release
  <2>2. /\ hold' \in [Holds -> HoldRow] /\ \A i \in Holds \ {h} : hold'[i] = hold[i]
        /\ hold'[h].status = "released" /\ hold'[h].order = hold[h].order
    BY <2>1, HoldStatusSet
  <2>3. wallet' \in [Customers -> Nat]
    BY <2>1, BuyerAssumption, Credited
  <2> QED
    BY <1>1, <2>2, <2>3
<1>2. CASE ~(h # None /\ hold[h].status = "held")
  BY <1>2 DEF Release, TypeOK
<1> QED
  BY <1>1, <1>2

\* An order's arm.
LEMMA ArmedSet ==
    ASSUME TypeOK, NEW o \in Orders, NEW h \in Holds \cup {None},
           order' = [order EXCEPT ![o].armed = h]
    PROVE  /\ order' \in [Orders -> OrderRow] /\ \A p \in Orders \ {o} : order'[p] = order[p]
           /\ order'[o].armed = h /\ order'[o].status = order[o].status
           /\ order'[o].by = order[o].by /\ order'[o].trial = order[o].trial
  BY SMT DEF TypeOK, OrderRow

\* A step on one order and its hold by a worker that ends or goes on plainly.
LEMMA OrderWork ==
    ASSUME SalesInv, UNCHANGED <<buy, refunded, op, trialUsed, user>>, NEW o \in Orders,
           order' \in [Orders -> OrderRow], hold' \in [Holds -> HoldRow],
           wallet' \in [Customers -> Nat], worker' \in [Workers -> WorkerState],
           \A p \in Orders \ {o} : order'[p] = order[p],
           order[o].status \notin {"none", "pending"}, order'[o].status \notin {"none", "pending"},
           order'[o].status = "renewing" => order[o].status = "renewing" /\ order'[o].by = order[o].by,
           order'[o].armed \in {None, order[o].armed}
             \/ (order'[o].armed \in Holds /\ hold'[order'[o].armed].order = o),
           \A i \in Holds : \/ hold'[i] = hold[i]
                            \/ hold[i].status \notin {"none", "settled"} /\ hold'[i].order = hold[i].order
                               /\ hold'[i].status # "none"
                            \/ hold[i].status = "none" /\ hold'[i].status # "none",
           NEW w \in Workers, \A v \in Workers \ {w} : worker'[v] = worker[v],
           worker'[w].at \in Plain,
           worker'[w].at # "none" => worker'[w].o = o
    PROVE  SalesInv' /\ Kept
<1>1. TypeOK'
  BY DEF SalesInv, TypeOK
<1>2. Kept
  BY DEF Kept
<1>3. OrderSound(o)'
  <2>1. CASE order'[o].armed \in {None, order[o].armed}
    BY <1>2, <2>1, OrderStays
  <2>2. CASE order'[o].armed \in Holds /\ hold'[order'[o].armed].order = o
    BY <2>2 DEF OrderSound, SalesInv
  <2> QED
    BY <2>1, <2>2
<1>4. \A p \in Orders : \/ order'[p] = order[p]
                        \/ order[p].status \notin {"none", "pending"} /\ OrderSound(p)'
  BY <1>3
<1> QED
  BY <1>1, <1>2, <1>4, PlainWork

LEMMA ArmStep ==
    ASSUME SalesInv, NEW w \in Workers, NEW h \in Holds, Arm(w, h)
    PROVE  SalesInv' /\ Kept
<1> PICK o \in Orders : o = OrderOf(w)
  BY Created DEF Arm, At
<1>1. /\ hold' = [hold EXCEPT ![h] = [status |-> "held", order |-> o]] /\ hold[h].status = "none"
      /\ order' = [order EXCEPT ![o].armed = h] /\ End(w) /\ Pay(BuyerOf[o], 1)
      /\ wallet[BuyerOf[o]] >= 1 /\ UNCHANGED <<buy, refunded, op, trialUsed, user>>
  BY DEF Arm
<1>2. TypeOK /\ order[o].status \notin {"none", "pending"}
  BY Created DEF Arm, At, SalesInv
<1>3. /\ hold' \in [Holds -> HoldRow] /\ \A i \in Holds \ {h} : hold'[i] = hold[i]
      /\ hold'[h].status = "held" /\ hold'[h].order = o
  BY <1>1, <1>2 DEF TypeOK, HoldRow
<1>4. /\ order' \in [Orders -> OrderRow] /\ \A p \in Orders \ {o} : order'[p] = order[p]
      /\ order'[o].armed = h /\ order'[o].status = order[o].status /\ order'[o].by = order[o].by
  BY <1>1, <1>2, ArmedSet
<1>5. wallet' \in [Customers -> Nat]
  BY <1>1, <1>2, BuyerAssumption DEF Pay, TypeOK
<1>6. /\ worker' \in [Workers -> WorkerState] /\ worker'[w] = Idle
      /\ \A v \in Workers \ {w} : worker'[v] = worker[v]
  BY <1>1, <1>2, EndTyped
<1>7. \A i \in Holds : \/ hold'[i] = hold[i]
                       \/ hold[i].status = "none" /\ hold'[i].status # "none"
  BY <1>1, <1>3
<1> QED
  BY <1>1, <1>2, <1>3, <1>4, <1>5, <1>6, <1>7, IdleTyped, OrderWork DEF Plain

LEMMA DisarmStep ==
    ASSUME SalesInv, NEW w \in Workers, Disarm(w)
    PROVE  SalesInv' /\ Kept
<1> PICK o \in Orders : o = OrderOf(w)
  BY Created DEF Disarm, At
<1>1. /\ Release(worker[w].saw, o) /\ order' = [order EXCEPT ![o].armed = None] /\ End(w)
      /\ UNCHANGED <<buy, refunded, op, trialUsed, user>>
  BY DEF Disarm
<1>2. /\ TypeOK /\ order[o].status \notin {"none", "pending"}
      /\ worker[w].saw \in Holds \cup {None}
  BY Created, Typed DEF Disarm, At, SalesInv
<1>3. /\ hold' \in [Holds -> HoldRow] /\ wallet' \in [Customers -> Nat]
      /\ \A i \in Holds : /\ hold'[i].order = hold[i].order
                          /\ \/ hold'[i] = hold[i]
                             \/ hold[i].status = "held" /\ hold'[i].status = "released"
  BY <1>1, <1>2, Released
<1>4. /\ order' \in [Orders -> OrderRow] /\ \A p \in Orders \ {o} : order'[p] = order[p]
      /\ order'[o].armed = None /\ order'[o].status = order[o].status /\ order'[o].by = order[o].by
  BY <1>1, <1>2, ArmedSet
<1>5. /\ worker' \in [Workers -> WorkerState] /\ worker'[w] = Idle
      /\ \A v \in Workers \ {w} : worker'[v] = worker[v]
  BY <1>1, <1>2, EndTyped
<1> QED
  BY <1>1, <1>2, <1>3, <1>4, <1>5, IdleTyped, OrderWork DEF Plain

LEMMA DeleteStep ==
    ASSUME SalesInv, NEW w \in Workers, NEW o \in Orders, Delete(w, o)
    PROVE  SalesInv' /\ Kept
<1>1. /\ Release(order[o].armed, o) /\ order' = [order EXCEPT ![o].armed = None]
      /\ Begin(w, "delete", "remove", o) /\ UNCHANGED <<buy, refunded, op, trialUsed, user>>
  BY DEF Delete
<1>2. /\ TypeOK /\ order[o].status \notin {"none", "pending"}
      /\ order[o].armed \in Holds \cup {None} /\ "delete" \in Job /\ "remove" \in Place
  BY Typed DEF Delete, Active, SalesInv, Job, Place, Locked
<1>3. /\ hold' \in [Holds -> HoldRow] /\ wallet' \in [Customers -> Nat]
      /\ \A i \in Holds : /\ hold'[i].order = hold[i].order
                          /\ \/ hold'[i] = hold[i]
                             \/ hold[i].status = "held" /\ hold'[i].status = "released"
  BY <1>1, <1>2, Released
<1>4. /\ order' \in [Orders -> OrderRow] /\ \A p \in Orders \ {o} : order'[p] = order[p]
      /\ order'[o].armed = None /\ order'[o].status = order[o].status /\ order'[o].by = order[o].by
  BY <1>1, <1>2, ArmedSet
<1>5. /\ worker' \in [Workers -> WorkerState] /\ worker'[w].at = "remove" /\ worker'[w].o = o
      /\ \A v \in Workers \ {w} : worker'[v] = worker[v]
  BY <1>1, <1>2, BeginTyped
<1> QED
  BY <1>1, <1>2, <1>3, <1>4, <1>5, OrderWork DEF Plain

LEMMA MarkStep ==
    ASSUME SalesInv, NEW w \in Workers, MarkDeleted(w) \/ ShowResumed(w)
    PROVE  SalesInv' /\ Kept
<1> PICK o \in Orders : o = OrderOf(w)
  BY Created DEF MarkDeleted, ShowResumed, At
<1>1. PICK st \in {"deleted", "provisioned"} : SetStatus(o, st)
  BY DEF MarkDeleted, ShowResumed
<1>2. End(w) /\ UNCHANGED <<buy, refunded, op, hold, wallet, trialUsed, user>>
  BY DEF MarkDeleted, ShowResumed
<1>3. TypeOK /\ order[o].status \notin {"none", "pending"} /\ st \in OrderStatus
  BY Created DEF MarkDeleted, ShowResumed, At, SalesInv, OrderStatus, Active
<1>4. /\ order' \in [Orders -> OrderRow] /\ order'[o].status = st
      /\ order'[o].armed = order[o].armed /\ \A p \in Orders \ {o} : order'[p] = order[p]
  BY <1>1, <1>3, StatusSet
<1>5. /\ worker' \in [Workers -> WorkerState] /\ worker'[w] = Idle
      /\ \A v \in Workers \ {w} : worker'[v] = worker[v]
  BY <1>2, <1>3, EndTyped
<1>6. hold' \in [Holds -> HoldRow] /\ wallet' \in [Customers -> Nat]
  BY <1>2, <1>3 DEF TypeOK
<1> QED
  BY <1>2, <1>3, <1>4, <1>5, <1>6, IdleTyped, OrderWork DEF Plain

LEMMA ShowPausedStep ==
    ASSUME SalesInv, NEW w \in Workers, ShowPaused(w)
    PROVE  SalesInv' /\ Kept
<1> PICK o \in Orders : o = OrderOf(w)
  BY Created DEF ShowPaused, At
<1>1. /\ Release(order[o].armed, o) /\ End(w)
      /\ order' = [order EXCEPT ![o] = [Left(order[o], "disabled") EXCEPT !.armed = None]]
      /\ UNCHANGED <<buy, refunded, op, trialUsed, user>>
  BY DEF ShowPaused
<1>2. /\ TypeOK /\ order[o].status \notin {"none", "pending"}
      /\ order[o].armed \in Holds \cup {None} /\ "disabled" \in OrderStatus
  BY Created, Typed DEF ShowPaused, At, SalesInv, OrderStatus, Active
<1>3. /\ hold' \in [Holds -> HoldRow] /\ wallet' \in [Customers -> Nat]
      /\ \A i \in Holds : /\ hold'[i].order = hold[i].order
                          /\ \/ hold'[i] = hold[i]
                             \/ hold[i].status = "held" /\ hold'[i].status = "released"
  BY <1>1, <1>2, Released
<1>4. /\ order' \in [Orders -> OrderRow] /\ \A p \in Orders \ {o} : order'[p] = order[p]
      /\ order'[o].armed = None /\ order'[o].status = "disabled"
  <2> DEFINE left == Left(order[o], "disabled")
             row == [left EXCEPT !.armed = None]
  <2>1. left \in OrderRow /\ left.status = "disabled"
    BY <1>2, LeftRow DEF TypeOK
  <2>2. order' = [order EXCEPT ![o] = row]
    BY <1>1
  <2> HIDE DEF left
  <2>3. row \in OrderRow /\ row.status = "disabled" /\ row.armed = None
    BY <2>1, SMT DEF OrderRow
  <2> HIDE DEF row
  <2> QED
    BY <1>2, <2>2, <2>3 DEF TypeOK
<1>5. /\ worker' \in [Workers -> WorkerState] /\ worker'[w] = Idle
      /\ \A v \in Workers \ {w} : worker'[v] = worker[v]
  BY <1>1, <1>2, EndTyped
<1> QED
  BY <1>1, <1>2, <1>3, <1>4, <1>5, IdleTyped, OrderWork DEF Plain

-----------------------------------------------------------------------------
(* The reaper of renewals.                                                 *)

\* Nobody works on the renewal of an order without a live lease.
LEMMA NobodyRenews ==
    ASSUME SalesInv, NEW o \in Orders, Stuck(o)
    PROVE  /\ order[o].by \in Renewals /\ op[order[o].by].order = o
           /\ op[order[o].by].prior \in Active /\ ~op[order[o].by].repaid
           /\ \A v \in Workers : Renewing(v) => Renewal(v) # order[o].by
<1>1. order[o].by \in Renewals /\ op[order[o].by].order = o
  BY Typed DEF SalesInv, OrderSound, Stuck
<1>2. op[order[o].by].prior \in Active /\ ~op[order[o].by].repaid
  BY <1>1 DEF SalesInv, RenewalSound, Stuck
<1>3. ASSUME NEW v \in Workers, Renewing(v), Renewal(v) = order[o].by PROVE FALSE
  <2>1. op[Renewal(v)].order = OrderOf(v)
    BY <1>3, Renewer DEF Renewing
  <2> QED
    BY <1>1, <1>3, <2>1 DEF Stuck, Leased, Renewing, OrderOf
<1> QED
  BY <1>1, <1>2, <1>3

\* The reaper's step on an order and the renewal it is in.
LEMMA ReapWork ==
    ASSUME SalesInv, TypeOK', UNCHANGED <<buy, refunded, hold, worker>>,
           NEW o \in Orders, Stuck(o), NEW r \in Renewals, r = order[o].by,
           \A p \in Orders \ {o} : order'[p] = order[p],
           \/ order'[o] = order[o]
           \/ order'[o].armed = order[o].armed /\ order'[o].status \in Active,
           \A q \in Renewals \ {r} : op'[q] = op[q],
           op'[r].order = op[r].order, op'[r].prior = op[r].prior,
           op'[r].status \in {"in_progress", "failed", "reversed", "done"},
           op'[r].repaid => op'[r].status = "reversed"
    PROVE  SalesInv' /\ Kept
<1>1. /\ \A v \in Workers : Renewing(v) => Renewal(v) # r
      /\ order[o].status \notin {"none", "pending"} /\ op[r].status = "in_progress"
  BY NobodyRenews DEF Stuck
<1>2. Kept
  BY <1>1 DEF Kept, Active
<1>3. \A p \in Orders : \/ order'[p] = order[p]
                        \/ order[p].status \notin {"none", "pending"} /\ OrderSound(p)'
  <2>1. CASE order'[o] = order[o]
    BY <2>1
  <2>2. CASE order'[o].armed = order[o].armed /\ order'[o].status \in Active
    <3>1. OrderSound(o)'
      BY <1>2, <2>2, OrderStays DEF Active
    <3> QED
      BY <1>1, <3>1
  <2> QED
    BY <2>1, <2>2
<1>4. \A q \in Renewals : op'[q] = op[q] \/ RenewalSound(q)'
  <2>1. RenewalSound(r)
    BY DEF SalesInv
  <2>2. RenewalSound(r)'
    BY <1>1, <2>1 DEF RenewalSound
  <2> QED
    BY <2>2
<1>5. \A v \in Workers : Renewing(v) => op'[Renewal(v)].status = op[Renewal(v)].status
  BY <1>1, Renewer DEF Renewing
<1>6. PICK W \in SUBSET Workers : W = {}
  OBVIOUS
<1> QED
  BY <1>2, <1>3, <1>4, <1>5, <1>6, WorkStep

LEMMA ReapBackStep ==
    ASSUME SalesInv, NEW o \in Orders, ReapBack(o)
    PROVE  SalesInv' /\ Kept
<1>0. Stuck(o)
  BY DEF ReapBack
<1> PICK r \in Renewals : r = order[o].by
  BY <1>0, NobodyRenews
<1>1. /\ TypeOK /\ op[r].prior \in Active /\ op[r].prior \in OrderStatus
      /\ ~op[r].repaid /\ Paid(r) \in BOOLEAN
  BY <1>0, NobodyRenews DEF SalesInv, OrderStatus, Paid
<1>2. /\ SetStatus(o, op[r].prior) /\ UNCHANGED <<buy, refunded, hold, trialUsed, user, worker>>
      /\ op' = [op EXCEPT ![r].status = IF Paid(r) THEN "reversed" ELSE "failed",
                          ![r].repaid = Paid(r)]
  BY DEF ReapBack
<1>3. /\ order' \in [Orders -> OrderRow] /\ order'[o].status = op[r].prior
      /\ order'[o].armed = order[o].armed /\ \A p \in Orders \ {o} : order'[p] = order[p]
  BY <1>1, <1>2, StatusSet
<1>4. /\ op' \in [Renewals -> OpRow] /\ \A q \in Renewals \ {r} : op'[q] = op[q]
      /\ op'[r].status \in {"reversed", "failed"} /\ op'[r].order = op[r].order
      /\ op'[r].prior = op[r].prior /\ (op'[r].repaid => op'[r].status = "reversed")
  <2>1. PICK st \in {"reversed", "failed"} : st = IF Paid(r) THEN "reversed" ELSE "failed"
    OBVIOUS
  <2>2. PICK b \in BOOLEAN : b = Paid(r)
    BY <1>1
  <2> DEFINE mid == [op EXCEPT ![r].status = st]
  <2>3. op' = [mid EXCEPT ![r].repaid = b]
    BY <1>2, <2>1, <2>2
  <2>4. /\ mid \in [Renewals -> OpRow] /\ \A q \in Renewals \ {r} : mid[q] = op[q]
        /\ mid[r].status = st /\ mid[r].order = op[r].order /\ mid[r].prior = op[r].prior
    BY <1>1, SMT DEF TypeOK, OpRow, OpStatus
  <2> HIDE DEF mid
  <2>5. /\ op' \in [Renewals -> OpRow] /\ \A q \in Renewals \ {r} : op'[q] = mid[q]
        /\ op'[r].status = st /\ op'[r].order = op[r].order /\ op'[r].prior = op[r].prior
        /\ op'[r].repaid = b
    BY <2>3, <2>4, SMT DEF OpRow
  <2> QED
    BY <2>1, <2>2, <2>4, <2>5
<1>5. TypeOK'
  <2>1. wallet' \in [Customers -> Nat]
    <3>1. PICK n \in Nat : Credit(BuyerOf[o], n)
      BY DEF ReapBack
    <3> QED
      BY <1>1, <3>1, BuyerAssumption, Credited
  <2> QED
    BY <1>1, <1>2, <1>3, <1>4, <2>1 DEF TypeOK
<1> QED
  BY <1>0, <1>1, <1>2, <1>3, <1>4, <1>5, ReapWork

LEMMA ReapForwardStep ==
    ASSUME SalesInv, NEW o \in Orders, ReapForward(o)
    PROVE  SalesInv' /\ Kept
<1>0. Stuck(o)
  BY DEF ReapForward
<1> PICK r \in Renewals : r = order[o].by
  BY <1>0, NobodyRenews
<1>1. TypeOK /\ ~op[r].repaid /\ "provisioned" \in Active /\ "provisioned" \in OrderStatus
  BY <1>0, NobodyRenews DEF SalesInv, OrderStatus, Active
<1>2. /\ SetStatus(o, "provisioned") /\ UNCHANGED <<buy, refunded, hold, wallet, trialUsed, worker>>
      /\ op' = [op EXCEPT ![r].applied = TRUE, ![r].status = "done"]
      /\ user' = [user EXCEPT ![o] = "on"]
  BY DEF ReapForward
<1>3. /\ order' \in [Orders -> OrderRow] /\ order'[o].status = "provisioned"
      /\ order'[o].armed = order[o].armed /\ \A p \in Orders \ {o} : order'[p] = order[p]
  BY <1>1, <1>2, StatusSet
<1>4. /\ op' \in [Renewals -> OpRow] /\ \A q \in Renewals \ {r} : op'[q] = op[q]
      /\ op'[r].status = "done" /\ op'[r].order = op[r].order
      /\ op'[r].prior = op[r].prior /\ op'[r].repaid = op[r].repaid
  <2>1. PICK b \in BOOLEAN : b = TRUE
    OBVIOUS
  <2> DEFINE mid == [op EXCEPT ![r].applied = b]
  <2>2. op' = [mid EXCEPT ![r].status = "done"]
    BY <1>2, <2>1
  <2>3. /\ mid \in [Renewals -> OpRow] /\ \A q \in Renewals \ {r} : mid[q] = op[q]
        /\ mid[r].order = op[r].order /\ mid[r].prior = op[r].prior
        /\ mid[r].repaid = op[r].repaid
    BY <1>1, SMT DEF TypeOK, OpRow
  <2> HIDE DEF mid
  <2>4. /\ op' \in [Renewals -> OpRow] /\ \A q \in Renewals \ {r} : op'[q] = mid[q]
        /\ op'[r].status = "done" /\ op'[r].order = op[r].order /\ op'[r].prior = op[r].prior
        /\ op'[r].repaid = op[r].repaid
    BY <2>2, <2>3, SMT DEF OpRow, OpStatus
  <2> QED
    BY <2>3, <2>4
<1>5. TypeOK'
  <2>1. user' \in [Orders -> {"absent", "on", "off"}]
    BY <1>1, <1>2, UserTyped
  <2> QED
    BY <1>1, <1>2, <1>3, <1>4, <2>1 DEF TypeOK
<1>6. /\ order'[o].armed = order[o].armed /\ order'[o].status \in Active
      /\ op'[r].status \in {"in_progress", "failed", "reversed", "done"}
      /\ (op'[r].repaid => op'[r].status = "reversed")
      /\ UNCHANGED <<buy, refunded, hold, worker>>
  BY <1>1, <1>2, <1>3, <1>4
<1> QED
  BY <1>0, <1>3, <1>4, <1>5, <1>6, ReapWork

LEMMA ReapUncertainStep ==
    ASSUME SalesInv, NEW o \in Orders, ReapUncertain(o)
    PROVE  SalesInv' /\ Kept
<1>0. Stuck(o)
  BY DEF ReapUncertain
<1> PICK r \in Renewals : r = order[o].by
  BY <1>0, NobodyRenews
<1>1. TypeOK /\ ~op[r].repaid /\ op[r].status = "in_progress"
  BY <1>0, NobodyRenews DEF SalesInv, Stuck
<1>2. /\ UNCHANGED <<order, buy, refunded, hold, wallet, trialUsed, worker>>
      /\ op' = [op EXCEPT ![r].applied = TRUE] /\ user' = [user EXCEPT ![o] = "on"]
  BY DEF ReapUncertain, Applied
<1>3. /\ op' \in [Renewals -> OpRow] /\ \A q \in Renewals \ {r} : op'[q] = op[q]
      /\ op'[r].status = op[r].status /\ op'[r].order = op[r].order
      /\ op'[r].prior = op[r].prior /\ op'[r].repaid = op[r].repaid
  <2>1. PICK b \in BOOLEAN : b = TRUE
    OBVIOUS
  <2>2. op' = [op EXCEPT ![r].applied = b]
    BY <1>2, <2>1
  <2> QED
    BY <1>1, <2>2, OpAppliedSet
<1>4. TypeOK'
  <2>1. user' \in [Orders -> {"absent", "on", "off"}]
    BY <1>1, <1>2, UserTyped
  <2> QED
    BY <1>1, <1>2, <1>3, <2>1 DEF TypeOK
<1> QED
  BY <1>0, <1>1, <1>2, <1>3, <1>4, ReapWork

-----------------------------------------------------------------------------
(* The invariant.                                                          *)

LEMMA SalesInit == Init => SalesInv
<1> SUFFICES ASSUME Init PROVE SalesInv
  OBVIOUS
<1>1. TypeOK
  <2>1. "none" \in OrderStatus /\ "none" \in OpStatus
    BY DEF OrderStatus, OpStatus
  <2>2. order \in [Orders -> OrderRow]
    BY <2>1 DEF Init, OrderRow
  <2>3. op \in [Renewals -> OpRow]
    BY <2>1 DEF Init, OpRow
  <2>4. hold \in [Holds -> HoldRow]
    BY DEF Init, HoldRow
  <2>5. worker \in [Workers -> WorkerState]
    BY IdleTyped DEF Init
  <2> QED
    BY <2>2, <2>3, <2>4, <2>5, FundsAssumption DEF Init, TypeOK
<1>2. \A w \in Workers : worker[w].at = "none"
  BY IdleTyped DEF Init
<1>3. \A w \in Workers : CreatorSound(w) /\ RenewerSound(w) /\ ~Creating(w) /\ ~Renewing(w)
  BY <1>2 DEF CreatorSound, RenewerSound, Creating, Renewing, At
<1>4. \A o \in Orders : PurchaseSound(o) /\ OrderSound(o)
  BY DEF Init, PurchaseSound, OrderSound
<1>5. (\A h \in Holds : HoldSound(h)) /\ \A r \in Renewals : RenewalSound(r)
  BY DEF Init, HoldSound, RenewalSound
<1> QED
  BY <1>1, <1>3, <1>4, <1>5 DEF SalesInv, WorkersApart

LEMMA StartStep ==
    ASSUME SalesInv, NEW w \in Workers, Start(w)
    PROVE  SalesInv' /\ Kept
<1>1. PICK o \in Orders :
         \/ Buy(w, o) \/ Trial(w, o) \/ Delete(w, o)
         \/ SweepFire(w, o) \/ SweepDisarm(w, o)
         \/ AutorenewToggle(w, o) \/ RenewLegacy(w, o)
         \/ \E g \in Grants : AdminRenew(w, o, g) \/ RenewOrder(w, o, g)
         \/ CustomerResume(w, o) \/ AdminToggle(w, o) \/ SetOrderEnabled(w, o)
  BY DEF Start
<1>2. CASE Buy(w, o) \/ Trial(w, o) \/ Delete(w, o)
  BY <1>2, BuyStep, TrialStep, DeleteStep
<1>3. CASE SweepDisarm(w, o)
  BY <1>3, DisarmReadStep DEF SweepDisarm, Swept, Active
<1>4. CASE AutorenewToggle(w, o)
  BY <1>4, DisarmReadStep, ReadSteps DEF AutorenewToggle
<1>5. CASE SweepFire(w, o) \/ RenewLegacy(w, o)
  BY <1>5, ReadSteps DEF RenewLegacy
<1>6. CASE \E g \in Grants : AdminRenew(w, o, g) \/ RenewOrder(w, o, g)
  BY <1>6, GrantReadStep DEF AdminRenew, RenewOrder
<1>7. CASE CustomerResume(w, o) \/ AdminToggle(w, o) \/ SetOrderEnabled(w, o)
  BY <1>7, ReadSteps DEF CustomerResume, AdminToggle, SetOrderEnabled
<1> QED
  BY <1>1, <1>2, <1>3, <1>4, <1>5, <1>6, <1>7

LEMMA WorkerStep ==
    ASSUME SalesInv, NEW w \in Workers, Decline(w) \/ Acquire(w) \/ Proceed(w)
    PROVE  SalesInv' /\ Kept
<1>1. CASE Decline(w)
  BY <1>1, QuitSteps DEF Decline
<1>2. CASE Acquire(w)
  BY <1>2, QuitSteps, ClaimStep, ClaimRefusedStep, DisarmStep, ShowPausedStep, ArmStep DEF Acquire
<1>3. CASE Proceed(w)
  <2>1. CASE \E made, ok \in BOOLEAN : CreateUser(w, made, ok)
    BY <2>1, CreateUserStep
  <2>2. CASE FinishBuy(w) \/ FinishTrial(w) \/ FireRead(w) \/ FireSkipped(w) \/ Look(w)
    BY <2>2, FinishBuyStep, FinishTrialStep, FireReadStep, QuitSteps, LookStep
  <2>3. CASE PrepareFails(w) \/ DebitFails(w)
    BY <2>3, GiveUpStep DEF PrepareFails, DebitFails, At
  <2>4. CASE Prepare(w) \/ Debit(w) \/ Apply(w) \/ ApplyUncertain(w)
    BY <2>4, PrepareStep, DebitStep, ApplyStep, ApplyUncertainStep
  <2>5. CASE Finish(w) \/ FinishElsewhere(w) \/ Repay(w)
    BY <2>5, FinishStep, FinishElsewhereStep, RepayStep
  <2>6. CASE RemoveUser(w) \/ (\E gone \in BOOLEAN : RemoveFails(w, gone)) \/ Switch(w) \/ SwitchFails(w)
    BY <2>6, UserCallStep
  <2>7. CASE MarkDeleted(w) \/ ShowResumed(w)
    BY <2>7, MarkStep
  <2> QED
    BY <1>3, <2>1, <2>2, <2>3, <2>4, <2>5, <2>6, <2>7 DEF Proceed
<1> QED
  BY <1>1, <1>2, <1>3

LEMMA SalesNext == SalesInv /\ [Next]_vars => SalesInv' /\ Kept
<1> SUFFICES ASSUME SalesInv, [Next]_vars PROVE SalesInv' /\ Kept
  OBVIOUS
<1>1. CASE \E w \in Workers : Start(w) \/ Decline(w) \/ Acquire(w) \/ Proceed(w) \/ Crash(ProcOf[w])
  BY <1>1, StartStep, WorkerStep, CrashStep
<1>2. CASE \E o \in Orders : Reap(o) \/ ReapUncertain(o)
  BY <1>2, ReapPurchaseStep, ReapBackStep, ReapForwardStep, ReapUncertainStep DEF Reap
<1>3. CASE UNCHANGED vars
  <2>1. SalesInv'
    BY <1>3 DEF vars, dbVars, SalesInv, TypeOK, WorkersApart, PurchaseSound, OrderSound, HoldSound,
       RenewalSound, CreatorSound, RenewerSound, Creating, Renewing, At, OrderOf, Renewal
  <2>2. Kept
    BY <1>3 DEF vars, dbVars, Kept
  <2> QED
    BY <2>1, <2>2
<1> QED
  BY <1>1, <1>2, <1>3 DEF Next

\* The inductive invariant holds for every worker, handler and process.
THEOREM SalesInvariant == Spec => []SalesInv
<1> QED
  BY SalesInit, SalesNext, PTL DEF Spec

\* Every row and every worker stays in its range (models.py, the status columns of the
\* storefront tables).
THEOREM SalesTypes == Spec => []TypeOK
<1>1. SalesInv => TypeOK
  BY DEF SalesInv
<1> QED
  BY <1>1, SalesInvariant, PTL

-----------------------------------------------------------------------------
(* Moves of the contract.                                                  *)

Same(x) == Sale(x)' = Sale(x) /\ Buyer(x)' = Buyer(x)

Moved == [Contract!Next]_(Contract!svars)

LEMMA Stutter ==
    ASSUME \A x \in Orders \cup Holds : Same(x), wallet' = wallet
    PROVE  Moved
  BY DEF Same, Moved, Contract!svars

LEMMA TakeMove ==
    ASSUME NEW x \in Orders \cup Holds, NEW c \in Customers, \A y \in (Orders \cup Holds) \ {x} : Same(y),
           Sale(x) = "idle", Sale(x)' \in {"reserved", "paid"}, Buyer(x)' = c,
           wallet[c] >= 1, wallet \in [Customers -> Nat], wallet' = [wallet EXCEPT ![c] = @ - 1]
    PROVE  Moved
<1> DEFINE sm == [y \in Orders \cup Holds |-> Sale(y)]
           bm == [y \in Orders \cup Holds |-> Buyer(y)]
<1>1. sm[x] = "idle" /\ \E to \in {"reserved", "paid"} : sm' = [sm EXCEPT ![x] = to]
  BY DEF Same
<1>2. bm' = [bm EXCEPT ![x] = c]
  BY DEF Same
<1>3. wallet[c] > 0
  OBVIOUS
<1>4. Contract!Take(x, c)
  BY <1>1, <1>2, <1>3 DEF Contract!Take, Contract!Move
<1> QED
  BY <1>4 DEF Moved, Contract!Next

\* A sale is charged or delivered.
LEMMA OnMove ==
    ASSUME NEW x \in Orders \cup Holds, \A y \in (Orders \cup Holds) \ {x} : Same(y),
           \/ Sale(x) = "reserved" /\ Sale(x)' = "paid"
           \/ Sale(x) = "paid" /\ Sale(x)' = "delivered",
           Buyer(x)' = Buyer(x), wallet' = wallet
    PROVE  Moved
<1> DEFINE sm == [y \in Orders \cup Holds |-> Sale(y)]
           bm == [y \in Orders \cup Holds |-> Buyer(y)]
<1>1. \/ sm[x] = "reserved" /\ sm' = [sm EXCEPT ![x] = "paid"]
      \/ sm[x] = "paid" /\ sm' = [sm EXCEPT ![x] = "delivered"]
  BY DEF Same
<1>2. bm' = bm
  BY DEF Same
<1>3. Contract!Charge(x) \/ Contract!Deliver(x)
  BY <1>1, <1>2 DEF Contract!Charge, Contract!Deliver, Contract!Move
<1> QED
  BY <1>3 DEF Moved, Contract!Next

LEMMA ReturnMove ==
    ASSUME NEW x \in Orders \cup Holds, \A y \in (Orders \cup Holds) \ {x} : Same(y),
           Sale(x) \in {"reserved", "paid"}, Sale(x)' = "returned", Buyer(x)' = Buyer(x),
           NEW c \in Customers, Buyer(x) = c, wallet' = [wallet EXCEPT ![c] = @ + 1]
    PROVE  Moved
<1> DEFINE sm == [y \in Orders \cup Holds |-> Sale(y)]
           bm == [y \in Orders \cup Holds |-> Buyer(y)]
<1>1. sm[x] \in {"reserved", "paid"} /\ sm' = [sm EXCEPT ![x] = "returned"]
  BY DEF Same
<1>2. bm' = bm /\ bm[x] = c
  BY DEF Same
<1>3. Contract!Return(x)
  BY <1>1, <1>2 DEF Contract!Return, Contract!Move
<1> QED
  BY <1>3 DEF Moved, Contract!Next

-----------------------------------------------------------------------------
(* What moves no sale.                                                     *)

LEMMA OrderSame ==
    ASSUME NEW o \in Orders, buy'[o] = buy[o], (o \in refunded') = (o \in refunded)
    PROVE  Same(o)
<1>1. o \notin Holds
  BY SalesAssumption
<1> QED
  BY <1>1 DEF Same, Sale, SaleOfOrder, Buyer

LEMMA HoldSame ==
    ASSUME NEW h \in Holds, hold'[h] = hold[h],
           \/ hold[h].status \in {"none", "held", "released"}
           \/ /\ op'[h].repaid = op[h].repaid
              /\ op'[h].status = "done" <=> op[h].status = "done"
    PROVE  Same(h)
<1>1. h \notin Orders
  BY SalesAssumption
<1>2. Buyer(h)' = Buyer(h)
  BY <1>1 DEF Buyer
<1>3. SaleOfHold(h)' = SaleOfHold(h)
  BY DEF SaleOfHold
<1> QED
  BY <1>1, <1>2, <1>3 DEF Same, Sale

LEMMA OrdersSame ==
    ASSUME UNCHANGED <<buy, refunded>>
    PROVE  \A o \in Orders : Same(o)
  BY OrderSame

LEMMA HoldsSame ==
    ASSUME UNCHANGED <<hold, op>>
    PROVE  \A h \in Holds : Same(h)
  BY HoldSame

\* A renewal that is not done and not paid back by this step.
LEMMA OpStutter ==
    ASSUME UNCHANGED <<buy, refunded, hold, wallet>>, NEW r,
           \A q \in Renewals \ {r} : op'[q] = op[q],
           op'[r].status # "done", op[r].status # "done", op'[r].repaid = op[r].repaid
    PROVE  Moved
<1>1. \A h \in Holds : Same(h)
  BY HoldSame DEF Renewals
<1> QED
  BY <1>1, OrdersSame, Stutter

LEMMA RowsStutter ==
    ASSUME UNCHANGED <<buy, refunded, op, hold, wallet>>
    PROVE  Moved
  BY OrdersSame, HoldsSame, Stutter

\* Crediting nothing.
LEMMA NoCredit ==
    ASSUME TypeOK, NEW c \in Customers, Credit(c, 0)
    PROVE  wallet' = wallet
  BY DEF TypeOK, Credit

-----------------------------------------------------------------------------
(* Purchases.                                                              *)

LEMMA BuyMoves ==
    ASSUME SalesInv, NEW w \in Workers, NEW o \in Orders, Buy(w, o)
    PROVE  Moved
<1>1. TypeOK /\ buy[o] = "none" /\ o \notin refunded /\ o \notin Holds /\ BuyerOf[o] \in Customers
  BY SalesAssumption, BuyerAssumption DEF SalesInv, PurchaseSound, Buy
<1>2. /\ buy' = [buy EXCEPT ![o] = "in_progress"] /\ UNCHANGED <<refunded, op, hold>>
      /\ wallet[BuyerOf[o]] >= 1 /\ wallet' = [wallet EXCEPT ![BuyerOf[o]] = @ - 1]
  BY DEF Buy, Pay
<1>3. Sale(o) = "idle" /\ Sale(o)' = "paid" /\ Buyer(o)' = BuyerOf[o]
  BY <1>1, <1>2 DEF Sale, SaleOfOrder, Buyer, TypeOK
<1>4. \A y \in (Orders \cup Holds) \ {o} : Same(y)
  BY <1>1, <1>2, OrderSame, HoldsSame DEF TypeOK
<1> QED
  BY <1>1, <1>2, <1>3, <1>4, TakeMove DEF TypeOK

\* An order in progress gets its outcome.
LEMMA Outcome ==
    ASSUME TypeOK, NEW o \in Orders, buy[o] = "in_progress", o \notin refunded,
           UNCHANGED <<op, hold>>, NEW sold \in BOOLEAN,
           buy' = [buy EXCEPT ![o] = IF sold THEN "done" ELSE "failed"],
           refunded' = IF sold THEN refunded ELSE refunded \cup {o},
           Credit(BuyerOf[o], IF sold THEN 0 ELSE 1)
    PROVE  Moved
<1>1. o \notin Holds /\ BuyerOf[o] \in Customers
  BY SalesAssumption, BuyerAssumption
<1>2. Sale(o) = "paid" /\ Buyer(o) = BuyerOf[o] /\ Buyer(o)' = BuyerOf[o]
  BY <1>1 DEF Sale, SaleOfOrder, Buyer, TypeOK
<1>3. \A y \in (Orders \cup Holds) \ {o} : Same(y)
  BY <1>1, OrderSame, HoldsSame DEF TypeOK
<1>4. CASE sold
  <2>1. Sale(o)' = "delivered" /\ wallet' = wallet
    BY <1>1, <1>4, NoCredit DEF Sale, SaleOfOrder, TypeOK
  <2> QED
    BY <1>2, <1>3, <2>1, OnMove
<1>5. CASE ~sold
  <2>1. Sale(o)' = "returned" /\ wallet' = [wallet EXCEPT ![BuyerOf[o]] = @ + 1]
    BY <1>1, <1>5 DEF Sale, SaleOfOrder, TypeOK, Credit
  <2> QED
    BY <1>1, <1>2, <1>3, <2>1, ReturnMove
<1> QED
  BY <1>4, <1>5

LEMMA FinishBuyMoves ==
    ASSUME SalesInv, NEW w \in Workers, FinishBuy(w)
    PROVE  Moved
<1> PICK o \in Orders : o = OrderOf(w)
  BY Creator DEF FinishBuy, Creating
<1>1. TypeOK /\ order[o].status = "pending" /\ o \notin refunded /\ buy[o] = "in_progress"
  BY Creator DEF FinishBuy, Creating, SalesInv
<1>2. PICK sold \in BOOLEAN : sold <=> worker[w].ok
  OBVIOUS
<1>3. /\ UNCHANGED <<op, hold>> /\ buy' = [buy EXCEPT ![o] = IF sold THEN "done" ELSE "failed"]
      /\ refunded' = IF sold THEN refunded ELSE refunded \cup {o}
      /\ Credit(BuyerOf[o], IF sold THEN 0 ELSE 1)
  BY <1>1, <1>2 DEF FinishBuy
<1> QED
  BY <1>1, <1>3, Outcome

LEMMA ReapPurchaseMoves ==
    ASSUME SalesInv, NEW o \in Orders, ReapPurchase(o)
    PROVE  Moved
<1>1. /\ TypeOK /\ order[o].status = "pending" /\ UNCHANGED <<op, hold>>
      /\ buy[o] = IF order[o].trial THEN "none" ELSE "in_progress"
      /\ o \notin refunded
  BY DEF ReapPurchase, SalesInv, PurchaseSound
<1>2. CASE order[o].trial
  <2>1. /\ UNCHANGED refunded /\ Credit(BuyerOf[o], 0)
        /\ buy' = [buy EXCEPT ![o] = IF @ # "in_progress" THEN @
                                     ELSE IF user[o] # "absent" THEN "done" ELSE "failed"]
    BY <1>2 DEF ReapPurchase
  <2>2. UNCHANGED <<buy, wallet>>
    BY <1>1, <1>2, <2>1, BuyerAssumption, NoCredit DEF TypeOK
  <2> QED
    BY <1>1, <2>1, <2>2, RowsStutter
<1>3. CASE ~order[o].trial
  <2>1. PICK sold \in BOOLEAN : sold <=> user[o] # "absent"
    OBVIOUS
  <2>2. /\ buy' = [buy EXCEPT ![o] = IF sold THEN "done" ELSE "failed"]
        /\ refunded' = IF sold THEN refunded ELSE refunded \cup {o}
        /\ Credit(BuyerOf[o], IF sold THEN 0 ELSE 1)
    BY <1>1, <1>3, <2>1 DEF ReapPurchase
  <2> QED
    BY <1>1, <1>3, <2>2, Outcome
<1> QED
  BY <1>2, <1>3

-----------------------------------------------------------------------------
(* Renewals.                                                               *)

LEMMA ClaimMoves ==
    ASSUME SalesInv, NEW w \in Workers, Claim(w) \/ ClaimRefused(w)
    PROVE  Moved
<1> PICK o \in Orders : o = OrderOf(w)
  BY Created DEF Claim, ClaimRefused, At
<1> PICK r \in Renewals : r = Renewal(w)
  BY DEF Claim, ClaimRefused, At, SalesInv, RenewerSound
<1>1. /\ UNCHANGED <<buy, refunded, hold, wallet>> /\ op[r].status = "none"
      /\ \/ op' = [op EXCEPT ![r].status = "in_progress", ![r].order = o,
                              ![r].prior = worker[w].seen]
         \/ op' = [op EXCEPT ![r].status = "failed", ![r].order = o]
  BY DEF Claim, ClaimRefused
<1>2. PICK st \in {"in_progress", "failed"} :
        \/ op' = [op EXCEPT ![r].status = st, ![r].order = o, ![r].prior = worker[w].seen]
        \/ op' = [op EXCEPT ![r].status = st, ![r].order = o]
  BY <1>1
<1> DEFINE mid == [op EXCEPT ![r].status = st]
           mid2 == [mid EXCEPT ![r].order = o]
<1>3. /\ mid \in [Renewals -> OpRow] /\ mid[r].status = st /\ mid[r].repaid = op[r].repaid
      /\ \A q \in Renewals \ {r} : mid[q] = op[q]
  BY SMT DEF SalesInv, TypeOK, OpRow, OpStatus
<1>4. op' = mid2 \/ op' = [mid2 EXCEPT ![r].prior = worker[w].seen]
  BY <1>2
<1> HIDE DEF mid
<1>5. /\ mid2 \in [Renewals -> OpRow] /\ mid2[r].status = st /\ mid2[r].repaid = mid[r].repaid
      /\ \A q \in Renewals \ {r} : mid2[q] = mid[q]
  BY <1>3, SMT DEF OpRow
<1> HIDE DEF mid2
<1>6. /\ op'[r].status = st /\ op'[r].repaid = mid2[r].repaid
      /\ \A q \in Renewals \ {r} : op'[q] = mid2[q]
  BY <1>4, <1>5, SMT DEF OpRow
<1> QED
  BY <1>1, <1>3, <1>5, <1>6, OpStutter

LEMMA GiveUpMoves ==
    ASSUME SalesInv, NEW w \in Workers, worker[w].at \in {"prepare", "debit", "finish"},
           GiveUp(w) \/ FinishElsewhere(w)
    PROVE  Moved
<1> PICK r \in Renewals : r = Renewal(w)
  BY Renewer
<1>1. TypeOK /\ op[r].status = "in_progress"
  BY Renewer DEF SalesInv
<1>2. PICK st \in {"failed", "reversed"} : op' = [op EXCEPT ![r].status = st]
  BY DEF GiveUp, FinishElsewhere
<1>3. UNCHANGED <<buy, refunded, hold, wallet>> /\ st \in OpStatus
  BY DEF GiveUp, FinishElsewhere, OpStatus
<1>4. /\ \A q \in Renewals \ {r} : op'[q] = op[q]
      /\ op'[r].status = st /\ op'[r].repaid = op[r].repaid
  BY <1>1, <1>2, <1>3, OpStatusSet
<1> QED
  BY <1>1, <1>3, <1>4, OpStutter

\* The target is stored, or applied to the panel.
LEMMA FlagMoves ==
    ASSUME SalesInv, NEW r \in Renewals, op[r].status # "done", NEW b \in BOOLEAN,
           op' = [op EXCEPT ![r].target = b] \/ op' = [op EXCEPT ![r].applied = b],
           UNCHANGED <<buy, refunded, hold, wallet>>
    PROVE  Moved
<1>1. TypeOK
  BY DEF SalesInv
<1>2. /\ \A q \in Renewals \ {r} : op'[q] = op[q]
      /\ op'[r].status = op[r].status /\ op'[r].repaid = op[r].repaid
  BY <1>1, OpTargetSet, OpAppliedSet
<1> QED
  BY <1>2, OpStutter

LEMMA PanelMoves ==
    ASSUME SalesInv, NEW w \in Workers, Prepare(w) \/ Apply(w) \/ ApplyUncertain(w)
    PROVE  Moved
<1>1. worker[w].at \in {"prepare", "debit", "apply", "finish"}
  BY DEF Prepare, Apply, ApplyUncertain, At
<1> PICK r \in Renewals : r = Renewal(w)
  BY <1>1, Renewer
<1>2. op[r].status # "done" /\ UNCHANGED <<buy, refunded, hold, wallet>>
  BY <1>1, Renewer DEF Prepare, Apply, ApplyUncertain
<1>3. PICK b \in BOOLEAN : b = TRUE
  OBVIOUS
<1>4. \/ op' = [op EXCEPT ![r].target = b] \/ op' = [op EXCEPT ![r].applied = b]
      \/ UNCHANGED op
  BY <1>3 DEF Prepare, Apply, ApplyUncertain, Applied
<1> QED
  BY <1>2, <1>4, FlagMoves, RowsStutter

LEMMA DebitMoves ==
    ASSUME SalesInv, NEW w \in Workers, Debit(w)
    PROVE  Moved
<1>0. worker[w].at \in {"prepare", "debit", "apply", "finish"}
  BY DEF Debit, At
<1> PICK r \in Holds : r = Renewal(w)
  BY DEF Debit, SalesInv, RenewerSound
<1>1. /\ TypeOK /\ op[r].status = "in_progress" /\ ~op[r].repaid /\ hold[r].status = "held"
      /\ r \notin Orders
  BY <1>0, Renewer, SalesAssumption DEF SalesInv, Debit
<1>2. hold' = [hold EXCEPT ![r].status = "settled"] /\ UNCHANGED <<buy, refunded, op, wallet>>
  BY DEF Debit
<1>3. /\ hold'[r].status = "settled" /\ hold'[r].order = hold[r].order
      /\ \A i \in Holds \ {r} : hold'[i] = hold[i]
  BY <1>1, <1>2, HoldStatusSet
<1>4. Sale(r) = "reserved" /\ Sale(r)' = "paid" /\ Buyer(r)' = Buyer(r)
  BY <1>1, <1>2, <1>3 DEF Sale, SaleOfHold, Buyer
<1>5. \A y \in (Orders \cup Holds) \ {r} : Same(y)
  BY <1>2, <1>3, OrdersSame, HoldSame
<1> QED
  BY <1>2, <1>4, <1>5, OnMove

\* A renewal is completed: the sale of its hold is delivered.
LEMMA Completed ==
    ASSUME TypeOK, NEW r \in Renewals, op[r].status = "in_progress", ~op[r].repaid,
           r \in Holds => hold[r].status = "settled",
           \A q \in Renewals \ {r} : op'[q] = op[q],
           op'[r].status = "done", op'[r].repaid = op[r].repaid,
           UNCHANGED <<buy, refunded, hold, wallet>>
    PROVE  Moved
<1>1. CASE r \in Holds
  <2>1. Sale(r) = "paid" /\ Sale(r)' = "delivered" /\ Buyer(r)' = Buyer(r)
    BY <1>1, SalesAssumption DEF Sale, SaleOfHold, Buyer
  <2>2. \A y \in (Orders \cup Holds) \ {r} : Same(y)
    BY OrdersSame, HoldSame DEF Renewals
  <2> QED
    BY <1>1, <2>1, <2>2, OnMove
<1>2. CASE r \notin Holds
  <2>1. \A h \in Holds : Same(h)
    BY <1>2, HoldSame DEF Renewals
  <2> QED
    BY <2>1, OrdersSame, Stutter
<1> QED
  BY <1>1, <1>2

LEMMA FinishMoves ==
    ASSUME SalesInv, NEW w \in Workers, Finish(w)
    PROVE  Moved
<1>0. worker[w].at \in {"prepare", "debit", "apply", "finish"}
  BY DEF Finish, At
<1> PICK r \in Renewals : r = Renewal(w)
  BY <1>0, Renewer
<1>1. /\ TypeOK /\ op[r].status = "in_progress" /\ ~op[r].repaid
      /\ r \in Holds => hold[r].status = "settled"
  BY <1>0, Renewer DEF SalesInv, Finish, RenewerSound
<1>2. op' = [op EXCEPT ![r].status = "done"] /\ UNCHANGED <<buy, refunded, hold, wallet>>
  BY DEF Finish
<1>3. /\ \A q \in Renewals \ {r} : op'[q] = op[q]
      /\ op'[r].status = "done" /\ op'[r].repaid = op[r].repaid
  BY <1>1, <1>2, OpStatusSet DEF OpStatus
<1> QED
  BY <1>1, <1>2, <1>3, Completed

LEMMA ReapForwardMoves ==
    ASSUME SalesInv, NEW o \in Orders, ReapForward(o)
    PROVE  Moved
<1> PICK r \in Renewals : r = order[o].by
  BY NobodyRenews DEF ReapForward
<1>1. /\ TypeOK /\ op[r].status = "in_progress" /\ ~op[r].repaid
      /\ r \in Holds => hold[r].status = "settled"
  BY NobodyRenews, RenewalsAssumption DEF SalesInv, ReapForward, Stuck, Forward, Paid
<1>2. /\ op' = [op EXCEPT ![r].applied = TRUE, ![r].status = "done"]
      /\ UNCHANGED <<buy, refunded, hold, wallet>>
  BY DEF ReapForward
<1>3. /\ \A q \in Renewals \ {r} : op'[q] = op[q]
      /\ op'[r].status = "done" /\ op'[r].repaid = op[r].repaid
  <2>1. PICK b \in BOOLEAN : b = TRUE
    OBVIOUS
  <2> DEFINE mid == [op EXCEPT ![r].applied = b]
  <2>2. op' = [mid EXCEPT ![r].status = "done"]
    BY <1>2, <2>1
  <2>3. /\ mid \in [Renewals -> OpRow] /\ \A q \in Renewals \ {r} : mid[q] = op[q]
        /\ mid[r].repaid = op[r].repaid
    BY <1>1, SMT DEF TypeOK, OpRow
  <2> HIDE DEF mid
  <2>4. /\ \A q \in Renewals \ {r} : op'[q] = mid[q]
        /\ op'[r].status = "done" /\ op'[r].repaid = mid[r].repaid
    BY <2>2, <2>3, SMT DEF OpRow, OpStatus
  <2> QED
    BY <2>3, <2>4
<1> QED
  BY <1>1, <1>2, <1>3, Completed

LEMMA ReapUncertainMoves ==
    ASSUME SalesInv, NEW o \in Orders, ReapUncertain(o)
    PROVE  Moved
<1> PICK r \in Renewals : r = order[o].by
  BY NobodyRenews DEF ReapUncertain
<1>1. PICK b \in BOOLEAN : b = TRUE
  OBVIOUS
<1>2. /\ op[r].status # "done" /\ op' = [op EXCEPT ![r].applied = b]
      /\ UNCHANGED <<buy, refunded, hold, wallet>>
  BY <1>1 DEF ReapUncertain, Applied, Stuck
<1> QED
  BY <1>2, FlagMoves

\* The charge of a renewal comes back, for the first time.
LEMMA PaidBack ==
    ASSUME TypeOK, NEW r \in Holds, hold[r].status = "settled", NEW o \in Orders, hold[r].order = o,
           ~op[r].repaid, op[r].status # "done", op'[r].repaid = TRUE,
           \A q \in Renewals \ {r} : op'[q] = op[q],
           UNCHANGED <<buy, refunded, hold>>, Credit(BuyerOf[o], 1)
    PROVE  Moved
<1>1. r \notin Orders /\ BuyerOf[o] \in Customers /\ o # None
  BY SalesAssumption, BuyerAssumption, NoneAssumption
<1>2. Sale(r) = "paid" /\ Sale(r)' = "returned" /\ Buyer(r) = BuyerOf[o] /\ Buyer(r)' = BuyerOf[o]
  BY <1>1 DEF Sale, SaleOfHold, Buyer
<1>3. \A y \in (Orders \cup Holds) \ {r} : Same(y)
  BY OrdersSame, HoldSame DEF Renewals
<1>4. wallet' = [wallet EXCEPT ![BuyerOf[o]] = @ + 1]
  BY DEF Credit
<1> QED
  BY <1>1, <1>2, <1>3, <1>4, ReturnMove

LEMMA RepayMoves ==
    ASSUME SalesInv, NEW w \in Workers, Repay(w)
    PROVE  Moved
<1> PICK o \in Orders : o = OrderOf(w)
  BY Created DEF Repay, At
<1> PICK r \in Holds : r = Renewal(w)
  BY DEF Repay, At, SalesInv, RenewerSound
<1>1. /\ TypeOK /\ r \in Renewals /\ op[r].status = "reversed" /\ hold[r].status = "settled"
      /\ hold[r].order = o
  BY DEF Repay, SalesInv, RenewerSound, Renewals
<1>2. PICK b \in BOOLEAN : b = TRUE
  OBVIOUS
<1>3. /\ op' = [op EXCEPT ![r].repaid = b] /\ UNCHANGED <<buy, refunded, hold>>
      /\ Credit(BuyerOf[o], IF op[r].repaid THEN 0 ELSE 1)
  BY <1>2 DEF Repay
<1>4. /\ \A q \in Renewals \ {r} : op'[q] = op[q]
      /\ op'[r].status = op[r].status /\ op'[r].repaid = b
  BY <1>1, <1>3, OpRepaidSet
<1>5. CASE ~op[r].repaid
  <2>1. op'[r].repaid = TRUE /\ Credit(BuyerOf[o], 1) /\ op[r].status # "done"
    BY <1>1, <1>2, <1>3, <1>4, <1>5
  <2> QED
    BY <1>1, <1>3, <1>4, <1>5, <2>1, PaidBack
<1>6. CASE op[r].repaid
  <2>1. wallet' = wallet
    BY <1>1, <1>3, <1>6, BuyerAssumption, NoCredit
  <2>2. op[r].repaid = TRUE
    BY <1>1, <1>6, Zenon DEF TypeOK, OpRow
  <2> QED
    BY <1>1, <1>2, <1>3, <1>4, <2>1, <2>2, OpStutter
<1> QED
  BY <1>5, <1>6

LEMMA ReapBackMoves ==
    ASSUME SalesInv, NEW o \in Orders, ReapBack(o)
    PROVE  Moved
<1> PICK r \in Renewals : r = order[o].by
  BY NobodyRenews DEF ReapBack
<1>1. /\ TypeOK /\ op[r].status = "in_progress" /\ ~op[r].repaid
      /\ r \in Holds => hold[r].order = o
  BY NobodyRenews DEF SalesInv, ReapBack, Stuck, RenewalSound
<1>2. PICK b \in BOOLEAN : b = Paid(r)
  BY DEF Paid
<1>3. /\ op' = [op EXCEPT ![r].status = IF b THEN "reversed" ELSE "failed", ![r].repaid = b]
      /\ UNCHANGED <<buy, refunded, hold>> /\ Credit(BuyerOf[o], IF b THEN 1 ELSE 0)
  BY <1>2 DEF ReapBack
<1>4. /\ \A q \in Renewals \ {r} : op'[q] = op[q]
      /\ op'[r].status \in {"reversed", "failed"} /\ op'[r].repaid = b
  <2>1. PICK st \in {"reversed", "failed"} : st = IF b THEN "reversed" ELSE "failed"
    OBVIOUS
  <2> DEFINE mid == [op EXCEPT ![r].status = st]
  <2>3. op' = [mid EXCEPT ![r].repaid = b]
    BY <1>3, <2>1
  <2>4. /\ mid \in [Renewals -> OpRow] /\ \A q \in Renewals \ {r} : mid[q] = op[q]
        /\ mid[r].status = st
    BY <1>1, SMT DEF TypeOK, OpRow, OpStatus
  <2> HIDE DEF mid
  <2>5. /\ \A q \in Renewals \ {r} : op'[q] = mid[q]
        /\ op'[r].status = st /\ op'[r].repaid = b
    BY <2>3, <2>4, SMT DEF OpRow
  <2> QED
    BY <2>4, <2>5
<1>5. CASE Paid(r)
  <2>1. r \in Holds /\ hold[r].status = "settled"
    BY <1>5 DEF Paid
  <2>2. op'[r].repaid = TRUE /\ Credit(BuyerOf[o], 1) /\ op[r].status # "done"
    BY <1>1, <1>2, <1>3, <1>4, <1>5
  <2> QED
    BY <1>1, <1>3, <1>4, <2>1, <2>2, PaidBack
<1>6. CASE ~Paid(r)
  <2>1. wallet' = wallet
    BY <1>1, <1>2, <1>3, <1>6, BuyerAssumption, NoCredit
  <2>2. \A h \in Holds : Same(h)
    <3> SUFFICES ASSUME NEW h \in Holds PROVE Same(h)
      OBVIOUS
    <3>1. CASE h = r
      BY <1>1, <1>3, <1>6, <3>1, Typed, HoldSame DEF Paid
    <3>2. CASE h # r
      BY <1>3, <1>4, <3>2, HoldSame DEF Renewals
    <3> QED
      BY <3>1, <3>2
  <2> QED
    BY <1>3, <2>1, <2>2, OrdersSame, Stutter
<1> QED
  BY <1>5, <1>6

-----------------------------------------------------------------------------
(* Reservations.                                                           *)

LEMMA ArmMoves ==
    ASSUME SalesInv, NEW w \in Workers, NEW h \in Holds, Arm(w, h)
    PROVE  Moved
<1> PICK o \in Orders : o = OrderOf(w)
  BY Created DEF Arm, At
<1>1. TypeOK /\ h \notin Orders /\ BuyerOf[o] \in Customers /\ o # None
  BY SalesAssumption, BuyerAssumption, NoneAssumption DEF SalesInv
<1>2. /\ hold[h].status = "none" /\ hold' = [hold EXCEPT ![h] = [status |-> "held", order |-> o]]
      /\ UNCHANGED <<buy, refunded, op>>
      /\ wallet[BuyerOf[o]] >= 1 /\ wallet' = [wallet EXCEPT ![BuyerOf[o]] = @ - 1]
  BY DEF Arm, Pay
<1>3. /\ hold'[h].status = "held" /\ hold'[h].order = o
      /\ \A i \in Holds \ {h} : hold'[i] = hold[i]
  BY <1>1, <1>2 DEF TypeOK
<1>4. Sale(h) = "idle" /\ Sale(h)' = "reserved" /\ Buyer(h)' = BuyerOf[o]
  BY <1>1, <1>2, <1>3 DEF Sale, SaleOfHold, Buyer
<1>5. \A y \in (Orders \cup Holds) \ {h} : Same(y)
  BY <1>2, <1>3, OrdersSame, HoldSame
<1> QED
  BY <1>1, <1>2, <1>4, <1>5, TakeMove DEF TypeOK

LEMMA ReleaseMoves ==
    ASSUME TypeOK, NEW o \in Orders, NEW h \in Holds \cup {None}, h # None => hold[h].order = o,
           Release(h, o), UNCHANGED <<buy, refunded, op>>
    PROVE  Moved
<1>1. CASE h # None /\ hold[h].status = "held"
  <2>1. h \in Holds /\ h \notin Orders /\ BuyerOf[o] \in Customers /\ o # None
    BY <1>1, SalesAssumption, BuyerAssumption, NoneAssumption
  <2>2. /\ hold' = [hold EXCEPT ![h].status = "released"]
        /\ wallet' = [wallet EXCEPT ![BuyerOf[o]] = @ + 1]
    BY <1>1 DEF Release, Credit
  <2>3. /\ hold'[h].status = "released" /\ hold'[h].order = o
        /\ \A i \in Holds \ {h} : hold'[i] = hold[i]
    BY <1>1, <2>1, <2>2, HoldStatusSet
  <2>4. Sale(h) = "reserved" /\ Sale(h)' = "returned" /\ Buyer(h) = BuyerOf[o] /\ Buyer(h)' = BuyerOf[o]
    BY <1>1, <2>1, <2>3 DEF Sale, SaleOfHold, Buyer
  <2>5. \A y \in (Orders \cup Holds) \ {h} : Same(y)
    BY <2>3, OrdersSame, HoldSame
  <2> QED
    BY <2>1, <2>2, <2>4, <2>5, ReturnMove
<1>2. CASE ~(h # None /\ hold[h].status = "held")
  BY <1>2, RowsStutter DEF Release
<1> QED
  BY <1>1, <1>2

\* A disarm, a delete or a pause releases a hold of the order it works on.
LEMMA DisarmMoves ==
    ASSUME SalesInv, NEW w \in Workers, Disarm(w)
    PROVE  Moved
<1> PICK o \in Orders : o = OrderOf(w)
  BY Created DEF Disarm, At
<1>1. TypeOK /\ worker[w].saw \in Holds \cup {None}
  BY Typed DEF SalesInv
<1>2. worker[w].saw # None => hold[worker[w].saw].order = o
  BY DEF Disarm, SalesInv, RenewerSound
<1> QED
  BY <1>1, <1>2, ReleaseMoves DEF Disarm

LEMMA OrderReleases ==
    ASSUME SalesInv, NEW o \in Orders, Release(order[o].armed, o), UNCHANGED <<buy, refunded, op>>
    PROVE  Moved
<1>1. TypeOK /\ order[o].armed \in Holds \cup {None}
  BY Typed DEF SalesInv
<1>2. order[o].armed # None => hold[order[o].armed].order = o
  BY DEF SalesInv, OrderSound
<1> QED
  BY <1>1, <1>2, ReleaseMoves

LEMMA DeleteMoves ==
    ASSUME SalesInv, NEW w \in Workers, (\E o \in Orders : Delete(w, o)) \/ ShowPaused(w)
    PROVE  Moved
<1>1. CASE \E o \in Orders : Delete(w, o)
  BY <1>1, OrderReleases DEF Delete
<1>2. CASE ShowPaused(w)
  <2>1. OrderOf(w) \in Orders
    BY <1>2, Created DEF ShowPaused, At
  <2> QED
    BY <1>2, <2>1, OrderReleases DEF ShowPaused
<1> QED
  BY <1>1, <1>2

-----------------------------------------------------------------------------
(* The refinement.                                                         *)

LEMMA StartMoves ==
    ASSUME SalesInv, NEW w \in Workers, Start(w)
    PROVE  Moved
<1>1. PICK o \in Orders :
         \/ Buy(w, o) \/ Trial(w, o) \/ Delete(w, o)
         \/ SweepFire(w, o) \/ SweepDisarm(w, o)
         \/ AutorenewToggle(w, o) \/ RenewLegacy(w, o)
         \/ \E g \in Grants : AdminRenew(w, o, g) \/ RenewOrder(w, o, g)
         \/ CustomerResume(w, o) \/ AdminToggle(w, o) \/ SetOrderEnabled(w, o)
  BY DEF Start
<1>2. CASE Buy(w, o) \/ Delete(w, o)
  BY <1>2, BuyMoves, DeleteMoves
<1>3. CASE Trial(w, o) \/ SweepFire(w, o) \/ SweepDisarm(w, o)
  BY <1>3, RowsStutter DEF Trial, SweepFire, SweepDisarm, DisarmRead, dbVars
<1>4. CASE AutorenewToggle(w, o) \/ RenewLegacy(w, o)
  BY <1>4, RowsStutter DEF AutorenewToggle, RenewLegacy, ArmRead, DisarmRead, dbVars
<1>5. CASE \E g \in Grants : AdminRenew(w, o, g) \/ RenewOrder(w, o, g)
  BY <1>5, RowsStutter DEF AdminRenew, RenewOrder, GrantRead, dbVars
<1>6. CASE CustomerResume(w, o) \/ AdminToggle(w, o) \/ SetOrderEnabled(w, o)
  BY <1>6, RowsStutter DEF CustomerResume, AdminToggle, SetOrderEnabled, ToggleRead, dbVars
<1> QED
  BY <1>1, <1>2, <1>3, <1>4, <1>5, <1>6

LEMMA WorkerMoves ==
    ASSUME SalesInv, NEW w \in Workers, Decline(w) \/ Acquire(w) \/ Proceed(w)
    PROVE  Moved
<1>1. CASE Decline(w)
  BY <1>1, RowsStutter DEF Decline, RenewRefused, ArmDeclined, dbVars
<1>2. CASE Acquire(w)
  <2>1. CASE ClaimKnown(w) \/ ArmRefused(w)
    BY <2>1, RowsStutter DEF ClaimKnown, ArmRefused, dbVars
  <2> QED
    BY <1>2, <2>1, ClaimMoves, DisarmMoves, DeleteMoves, ArmMoves DEF Acquire
<1>3. CASE Proceed(w)
  <2>1. CASE \E made, ok \in BOOLEAN : CreateUser(w, made, ok)
    BY <2>1, RowsStutter DEF CreateUser, dbVars
  <2>2. CASE FinishBuy(w)
    BY <2>2, FinishBuyMoves
  <2>3. CASE FinishTrial(w) \/ FireRead(w) \/ FireSkipped(w) \/ Look(w)
    BY <2>3, RowsStutter DEF FinishTrial, FireRead, FireSkipped, Look, dbVars
  <2>4. CASE PrepareFails(w) \/ DebitFails(w) \/ FinishElsewhere(w)
    BY <2>4, GiveUpMoves DEF PrepareFails, DebitFails, FinishElsewhere, At
  <2>5. CASE Prepare(w) \/ Apply(w) \/ ApplyUncertain(w)
    BY <2>5, PanelMoves
  <2>6. CASE Debit(w) \/ Finish(w) \/ Repay(w)
    BY <2>6, DebitMoves, FinishMoves, RepayMoves
  <2>7. CASE RemoveUser(w) \/ (\E gone \in BOOLEAN : RemoveFails(w, gone)) \/ Switch(w) \/ SwitchFails(w)
    BY <2>7, RowsStutter DEF RemoveUser, RemoveFails, Switch, SwitchFails, dbVars
  <2>8. CASE MarkDeleted(w) \/ ShowResumed(w)
    BY <2>8, RowsStutter DEF MarkDeleted, ShowResumed
  <2> QED
    BY <1>3, <2>1, <2>2, <2>3, <2>4, <2>5, <2>6, <2>7, <2>8 DEF Proceed
<1> QED
  BY <1>1, <1>2, <1>3

LEMMA StepMoves == SalesInv /\ [Next]_vars => Moved
<1> SUFFICES ASSUME SalesInv, [Next]_vars PROVE Moved
  OBVIOUS
<1>1. CASE \E w \in Workers : Start(w) \/ Decline(w) \/ Acquire(w) \/ Proceed(w)
  BY <1>1, StartMoves, WorkerMoves
<1>2. CASE \E w \in Workers : Crash(ProcOf[w])
  BY <1>2, RowsStutter DEF Crash, dbVars
<1>3. CASE \E o \in Orders : Reap(o) \/ ReapUncertain(o)
  BY <1>3, ReapPurchaseMoves, ReapBackMoves, ReapForwardMoves, ReapUncertainMoves DEF Reap
<1>4. CASE UNCHANGED vars
  BY <1>4, RowsStutter DEF vars, dbVars
<1> QED
  BY <1>1, <1>2, <1>3, <1>4 DEF Next

LEMMA InitialSales == Init => Contract!Init
<1> SUFFICES ASSUME Init PROVE Contract!Init
  OBVIOUS
<1>1. ASSUME NEW o \in Orders PROVE Sale(o) = "idle" /\ Buyer(o) = None
  <2>1. o \notin Holds
    BY SalesAssumption
  <2> QED
    BY <2>1 DEF Init, Sale, SaleOfOrder, Buyer
<1>2. ASSUME NEW h \in Holds PROVE Sale(h) = "idle" /\ Buyer(h) = None
  <2>1. h \notin Orders
    BY SalesAssumption
  <2> QED
    BY <2>1 DEF Init, Sale, SaleOfHold, Buyer
<1>3. \A x \in Orders \cup Holds : Sale(x) = "idle" /\ Buyer(x) = None
  BY <1>1, <1>2
<1> QED
  BY <1>3 DEF Init, Contract!Init

\* Whatever customers, admins and the sweep do at once, and wherever they crash, the
\* money of a purchase or auto-renewal is taken once, comes back at most once, and never
\* once it bought something (storefront_ops.py, storefront_wallet.py).
THEOREM SalesExactlyOnce == Spec => ImplementsSales
<1>1. SalesInv /\ [Next]_vars => [Contract!Next]_(Contract!svars)
  BY StepMoves DEF Moved
<1> QED
  BY <1>1, InitialSales, SalesInvariant, PTL DEF Spec, ImplementsSales, Contract!Spec

-----------------------------------------------------------------------------
(* Refunds and the panel.                                                  *)

\* A worker that moves does not start to create an order.
LEMMA NoCreator ==
    ASSUME TypeOK, NEW w \in Workers,
           \/ End(w) \/ Failed(w)
           \/ \E place \in Place \ {"create", "record"} :
                 Goto(w, place) \/ \E job \in Job, o \in Orders : Begin(w, job, place, o)
           \/ \E job \in Job, o \in Orders :
                 BeginDisarm(w, job, o) \/ \E r \in Renewals : BeginRenewal(w, job, o, r)
    PROVE  /\ ~Creating(w)'
           /\ \A v \in Workers : Creating(v)' => worker'[v] = worker[v]
<1>1. (\A v \in Workers \ {w} : worker'[v] = worker[v]) /\ worker'[w].at \notin {"create", "record"}
  <2>1. CASE End(w) \/ Failed(w)
    BY <2>1, EndTyped, FailedTyped, IdleTyped
  <2>2. CASE \E place \in Place \ {"create", "record"} :
                Goto(w, place) \/ \E job \in Job, o \in Orders : Begin(w, job, place, o)
    BY <2>2, GotoTyped, BeginTyped
  <2>3. CASE \E job \in Job, o \in Orders :
                BeginDisarm(w, job, o) \/ \E r \in Renewals : BeginRenewal(w, job, o, r)
    BY <2>3, BeginDisarmTyped, BeginRenewalTyped
  <2> QED
    BY <2>1, <2>2, <2>3
<1> QED
  BY <1>1 DEF Creating, At

\* Steps that make no config, refund no purchase and create no order.
LEMMA ConfigsStay ==
    ASSUME SalesInv, RefundInv, Kept,
           \A o \in Orders : user'[o] # user[o] => /\ user[o] # "absent"
                                                   /\ order[o].status \notin {"none", "pending"},
           refunded' \subseteq refunded,
           \A w \in Workers : Creating(w)' => worker'[w] = worker[w]
    PROVE  RefundInv'
<1>1. ASSUME NEW o \in Orders PROVE ConfigSound(o)'
  BY <1>1 DEF RefundInv, ConfigSound, Kept
<1>2. ASSUME NEW w \in Workers PROVE CallSound(w)'
  <2>1. CASE ~Creating(w)'
    BY <2>1 DEF CallSound, Creating, At
  <2>2. CASE Creating(w)'
    <3>1. worker'[w] = worker[w] /\ Creating(w)
      BY <2>2 DEF Creating, At
    <3>2. OrderOf(w) \in Orders /\ order[OrderOf(w)].status = "pending"
      BY <3>1, Creator
    <3>3. user'[OrderOf(w)] = user[OrderOf(w)]
      BY <3>2
    <3> QED
      BY <3>1, <3>3 DEF RefundInv, CallSound, At, OrderOf
  <2> QED
    BY <2>1, <2>2
<1> QED
  BY <1>1, <1>2 DEF RefundInv

LEMMA NewOrderRefunds ==
    ASSUME SalesInv, RefundInv, Kept, NEW w \in Workers, NEW o \in Orders, Buy(w, o) \/ Trial(w, o)
    PROVE  RefundInv'
<1>1. user[o] = "absent" /\ UNCHANGED <<user, refunded>> /\ o \notin refunded
  BY DEF Buy, Trial, RefundInv, ConfigSound, SalesInv, PurchaseSound
<1>2. /\ \A v \in Workers \ {w} : worker'[v] = worker[v]
      /\ worker'[w].at = "create" /\ worker'[w].o = o
  <2>1. {"buy", "trial"} \subseteq Job /\ "create" \in Place /\ TypeOK
    BY DEF Job, Place, Locked, SalesInv
  <2> QED
    BY <2>1, BeginTyped DEF Buy, Trial
<1>3. \A p \in Orders : ConfigSound(p)'
  BY <1>1 DEF RefundInv, ConfigSound, Kept
<1>4. \A v \in Workers : CallSound(v)'
  BY <1>1, <1>2 DEF RefundInv, CallSound, At, OrderOf
<1> QED
  BY <1>3, <1>4 DEF RefundInv

LEMMA CreateRefunds ==
    ASSUME SalesInv, RefundInv, Kept, ~CreateMayTimeOut, NEW w \in Workers,
           NEW made \in BOOLEAN, NEW ok \in BOOLEAN, CreateUser(w, made, ok)
    PROVE  RefundInv'
<1> PICK o \in Orders : o = OrderOf(w)
  BY Creator DEF CreateUser, Creating
<1>1. /\ order[o].status = "pending" /\ o \notin refunded /\ o = worker[w].o
      /\ \A v \in Workers \ {w} : Creating(v) => OrderOf(v) # o
  BY Creator DEF CreateUser, Creating, OrderOf
<1>2. (made <=> ok) /\ user[o] = "absent" /\ TypeOK
  BY DEF CreateUser, RefundInv, CallSound, SalesInv
<1>3. /\ user'[o] = IF made THEN "on" ELSE "absent"
      /\ \A p \in Orders \ {o} : user'[p] = user[p]
  BY <1>2 DEF CreateUser, TypeOK
<1> DEFINE there == [worker EXCEPT ![w].at = "record"]
<1>4. /\ there \in [Workers -> WorkerState] /\ \A v \in Workers \ {w} : there[v] = worker[v]
      /\ there[w].at = "record" /\ there[w].o = o
  BY <1>1, <1>2, SMT DEF TypeOK, WorkerState, Place, Locked
<1>5. worker' = [there EXCEPT ![w].ok = ok] /\ UNCHANGED dbVars
  BY DEF CreateUser
<1> HIDE DEF there
<1>6. /\ \A v \in Workers \ {w} : worker'[v] = worker[v]
      /\ worker'[w].at = "record" /\ worker'[w].o = o /\ worker'[w].ok = ok
  BY <1>4, <1>5, SMT DEF WorkerState
<1>7. \A p \in Orders : ConfigSound(p)'
  BY <1>1, <1>3, <1>5 DEF RefundInv, ConfigSound, dbVars
<1>8. CallSound(w)'
  BY <1>2, <1>3, <1>6 DEF CallSound, At, OrderOf
<1>9. \A v \in Workers \ {w} : CallSound(v)'
  <2> SUFFICES ASSUME NEW v \in Workers \ {w} PROVE CallSound(v)'
    OBVIOUS
  <2>1. CASE Creating(v)
    <3>1. OrderOf(v) \in Orders \ {o}
      BY <1>1, <2>1, Creator
    <3> QED
      BY <1>3, <1>6, <3>1 DEF RefundInv, CallSound, At, OrderOf
  <2>2. CASE ~Creating(v)
    BY <1>6, <2>2 DEF CallSound, Creating, At
  <2> QED
    BY <2>1, <2>2
<1> QED
  BY <1>7, <1>8, <1>9 DEF RefundInv

\* An order's outcome: a refund only where the panel has no user.
LEMMA OutcomeRefunds ==
    ASSUME SalesInv, RefundInv, Kept, NEW o \in Orders, UNCHANGED user,
           \A p \in Orders : p \in refunded' => p \in refunded \/ (p = o /\ user[o] = "absent"),
           \A w \in Workers : Creating(w)' => worker'[w] = worker[w]
    PROVE  RefundInv'
<1>1. \A p \in Orders : ConfigSound(p)'
  BY DEF RefundInv, ConfigSound, Kept
<1>2. \A w \in Workers : CallSound(w)'
  BY DEF RefundInv, CallSound, Creating, At, OrderOf
<1> QED
  BY <1>1, <1>2 DEF RefundInv

LEMMA FinishBuyRefunds ==
    ASSUME SalesInv, RefundInv, Kept, NEW w \in Workers, FinishBuy(w)
    PROVE  RefundInv'
<1> PICK o \in Orders : o = OrderOf(w)
  BY Creator DEF FinishBuy, Creating
<1>1. order[o].status = "pending" /\ TypeOK
  BY Creator DEF FinishBuy, Creating, SalesInv
<1>2. worker[w].ok <=> user[o] # "absent"
  BY DEF FinishBuy, RefundInv, CallSound
<1>3. /\ UNCHANGED user /\ End(w)
      /\ refunded' = IF worker[w].ok THEN refunded ELSE refunded \cup {o}
  BY <1>1 DEF FinishBuy
<1>4. \A v \in Workers : Creating(v)' => worker'[v] = worker[v]
  BY <1>1, <1>3, NoCreator
<1> QED
  BY <1>2, <1>3, <1>4, OutcomeRefunds

LEMMA StartRefunds ==
    ASSUME SalesInv, RefundInv, Kept, NEW w \in Workers, Start(w)
    PROVE  RefundInv'
<1>0. TypeOK
  BY DEF SalesInv
<1>1. PICK o \in Orders :
         \/ Buy(w, o) \/ Trial(w, o) \/ Delete(w, o)
         \/ SweepFire(w, o) \/ SweepDisarm(w, o)
         \/ AutorenewToggle(w, o) \/ RenewLegacy(w, o)
         \/ \E g \in Grants : AdminRenew(w, o, g) \/ RenewOrder(w, o, g)
         \/ CustomerResume(w, o) \/ AdminToggle(w, o) \/ SetOrderEnabled(w, o)
  BY DEF Start
<1>2. CASE Buy(w, o) \/ Trial(w, o)
  BY <1>2, NewOrderRefunds
<1>3. CASE ~(Buy(w, o) \/ Trial(w, o))
  <2>1. UNCHANGED <<user, refunded>>
    BY <1>1, <1>3 DEF Delete, SweepFire, SweepDisarm, AutorenewToggle, RenewLegacy, ArmRead,
       DisarmRead, AdminRenew, RenewOrder, GrantRead, CustomerResume, AdminToggle, SetOrderEnabled,
       ToggleRead, dbVars
  <2>2. \/ \E place \in {"remove", "due", "arm", "switch"}, job \in Job : Begin(w, job, place, o)
        \/ \E job \in Job : BeginDisarm(w, job, o)
        \/ \E job \in Job, g \in Grants : BeginRenewal(w, job, o, g)
    BY <1>1, <1>3 DEF Delete, SweepFire, SweepDisarm, AutorenewToggle, RenewLegacy, ArmRead,
       DisarmRead, AdminRenew, RenewOrder, GrantRead, CustomerResume, AdminToggle, SetOrderEnabled,
       ToggleRead, Job
  <2>3. {"remove", "due", "arm", "switch"} \subseteq Place \ {"create", "record"} /\ Grants \subseteq Renewals
    BY DEF Place, Locked, Renewals
  <2>4. \A v \in Workers : Creating(v)' => worker'[v] = worker[v]
    BY <1>0, <2>2, <2>3, NoCreator
  <2> QED
    BY <2>1, <2>4, ConfigsStay
<1> QED
  BY <1>2, <1>3

LEMMA WorkerRefunds ==
    ASSUME SalesInv, RefundInv, Kept, ~CreateMayTimeOut, NEW w \in Workers,
           Decline(w) \/ Acquire(w) \/ Proceed(w)
    PROVE  RefundInv'
<1>0. TypeOK
  BY DEF SalesInv
<1>1. CASE \E made, ok \in BOOLEAN : CreateUser(w, made, ok)
  BY <1>1, CreateRefunds
<1>2. CASE FinishBuy(w)
  BY <1>2, FinishBuyRefunds
<1>3. ASSUME UNCHANGED <<user, refunded>>,
             \/ End(w) \/ Failed(w)
             \/ \E place \in Place \ {"create", "record"} : Goto(w, place)
      PROVE  RefundInv'
  <2>1. \A v \in Workers : Creating(v)' => worker'[v] = worker[v]
    BY <1>0, <1>3, NoCreator
  <2> QED
    BY <1>3, <2>1, ConfigsStay
<1>4. {"prepare", "debit", "apply", "finish", "repay", "mark", "show"} \subseteq Place \ {"create", "record"}
  BY DEF Place, Locked
<1>5. CASE Decline(w)
  BY <1>3, <1>5 DEF Decline, RenewRefused, ArmDeclined, dbVars
<1>6. CASE Acquire(w)
  BY <1>3, <1>4, <1>6 DEF Acquire, ClaimKnown, Claim, ClaimRefused, ArmRefused, Disarm, ShowPaused,
     Arm, dbVars
<1>7. CASE FinishTrial(w) \/ FireSkipped(w) \/ PrepareFails(w) \/ DebitFails(w) \/ Finish(w)
           \/ MarkDeleted(w) \/ ShowResumed(w) \/ Repay(w)
  BY <1>3, <1>7 DEF FinishTrial, FireSkipped, PrepareFails, DebitFails, GiveUp, Finish, MarkDeleted,
     ShowResumed, Repay, dbVars
<1>8. CASE Prepare(w) \/ Debit(w) \/ FinishElsewhere(w)
  BY <1>3, <1>4, <1>8 DEF Prepare, Debit, FinishElsewhere
<1>9. CASE FireRead(w)
  <2>1. OrderOf(w) \in Orders
    BY <1>9, Created DEF FireRead, At
  <2>2. order[OrderOf(w)].armed \in Renewals /\ "fire" \in Job
    BY <1>0, <1>9, <2>1, Typed DEF FireRead, LiveConfirm, Renewals, Job
  <2>3. \A v \in Workers : Creating(v)' => worker'[v] = worker[v]
    BY <1>0, <1>9, <2>1, <2>2, NoCreator DEF FireRead
  <2> QED
    BY <1>9, <2>3, ConfigsStay DEF FireRead, dbVars
<1>10. CASE Look(w)
  <2>1. \A v \in Workers : Creating(v)' => worker'[v] = worker[v]
    <3>1. CASE End(w)
      BY <1>0, <3>1, NoCreator
    <3>2. CASE worker' = [worker EXCEPT ![w].at = "disarm", ![w].saw = order[OrderOf(w)].armed]
      <4> DEFINE there == [worker EXCEPT ![w].at = "disarm"]
      <4>1. /\ there \in [Workers -> WorkerState] /\ \A v \in Workers \ {w} : there[v] = worker[v]
            /\ there[w].at = "disarm"
        BY <1>0, SMT DEF TypeOK, WorkerState, Place
      <4>2. worker' = [there EXCEPT ![w].saw = order[OrderOf(w)].armed]
        BY <3>2
      <4> HIDE DEF there
      <4>3. (\A v \in Workers \ {w} : worker'[v] = worker[v]) /\ worker'[w].at = "disarm"
        BY <4>1, <4>2, SMT DEF WorkerState
      <4> QED
        BY <4>3 DEF Creating, At
    <3> QED
      BY <1>10, <3>1, <3>2 DEF Look
  <2> QED
    BY <1>10, <2>1, ConfigsStay DEF Look, dbVars
<1>11. CASE Apply(w) \/ ApplyUncertain(w) \/ RemoveUser(w) \/ (\E gone \in BOOLEAN : RemoveFails(w, gone))
            \/ Switch(w) \/ SwitchFails(w)
  <2>1. worker[w].at \notin {"none", "create", "record"}
    BY <1>11 DEF Apply, ApplyUncertain, RemoveUser, RemoveFails, Switch, SwitchFails, At
  <2>2. OrderOf(w) \in Orders /\ order[OrderOf(w)].status \notin {"none", "pending"}
    BY <2>1, Created
  <2>3. /\ refunded' = refunded
        /\ End(w) \/ \E place \in {"finish", "mark", "show"} : Goto(w, place)
    BY <1>11 DEF Apply, ApplyUncertain, RemoveUser, RemoveFails, Switch, SwitchFails, dbVars
  <2>4. \A v \in Workers : Creating(v)' => worker'[v] = worker[v]
    BY <1>0, <1>4, <2>3, NoCreator
  <2>5. \A o \in Orders : user'[o] # user[o] => o = OrderOf(w) /\ user[o] # "absent"
    BY <1>0, <1>11, <2>2 DEF Apply, ApplyUncertain, Applied, RemoveUser, RemoveFails, Switch,
       SwitchFails, Switched, TypeOK
  <2> QED
    BY <2>2, <2>3, <2>4, <2>5, ConfigsStay
<1> QED
  BY <1>1, <1>2, <1>5, <1>6, <1>7, <1>8, <1>9, <1>10, <1>11 DEF Proceed

LEMMA ReaperRefunds ==
    ASSUME SalesInv, RefundInv, Kept, NEW o \in Orders, Reap(o) \/ ReapUncertain(o)
    PROVE  RefundInv'
<1>0. TypeOK /\ worker' = worker
  BY DEF SalesInv, Reap, ReapPurchase, ReapBack, ReapForward, ReapUncertain
<1>1. CASE ReapPurchase(o)
  BY <1>0, <1>1, OutcomeRefunds DEF ReapPurchase
<1>2. CASE ReapBack(o) \/ ReapForward(o) \/ ReapUncertain(o)
  <2>1. refunded' = refunded /\ order[o].status = "renewing"
    BY <1>2 DEF ReapBack, ReapForward, ReapUncertain, Stuck
  <2>2. \A p \in Orders : user'[p] # user[p] => p = o /\ user[o] # "absent"
    BY <1>0, <1>2 DEF ReapBack, ReapForward, ReapUncertain, Applied, TypeOK
  <2> QED
    BY <1>0, <2>1, <2>2, ConfigsStay
<1> QED
  BY <1>1, <1>2 DEF Reap

LEMMA RefundNext == ~CreateMayTimeOut /\ SalesInv /\ RefundInv /\ [Next]_vars => RefundInv'
<1> SUFFICES ASSUME ~CreateMayTimeOut, SalesInv, RefundInv, [Next]_vars PROVE RefundInv'
  OBVIOUS
<1>0. Kept
  BY SalesNext
<1>1. CASE \E w \in Workers : Start(w) \/ Decline(w) \/ Acquire(w) \/ Proceed(w)
  BY <1>0, <1>1, StartRefunds, WorkerRefunds
<1>2. CASE \E w \in Workers : Crash(ProcOf[w])
  <2>1. UNCHANGED <<user, refunded>> /\ \A v \in Workers : worker'[v] \in {Idle, worker[v]}
    BY <1>2 DEF Crash, dbVars
  <2>2. \A v \in Workers : Creating(v)' => worker'[v] = worker[v]
    BY <2>1, IdleTyped DEF Creating, At
  <2> QED
    BY <1>0, <2>1, <2>2, ConfigsStay
<1>3. CASE \E o \in Orders : Reap(o) \/ ReapUncertain(o)
  BY <1>0, <1>3, ReaperRefunds
<1>4. CASE UNCHANGED vars
  BY <1>0, <1>4, ConfigsStay DEF vars, dbVars
<1> QED
  BY <1>1, <1>2, <1>3, <1>4 DEF Next

\* A purchase whose money came back left no config on the panel, whatever interleaves and
\* crashes, unless a create can reach the panel although it failed
\* (storefront_provision.py, purchase).
THEOREM RefundsLeaveNoConfig ==
    ASSUME ~CreateMayTimeOut
    PROVE  Spec => []RefundedHasNoUser
<1>1. Init => RefundInv
  BY IdleTyped DEF Init, RefundInv, ConfigSound, CallSound, At
<1>2. SalesInv /\ RefundInv /\ [Next]_vars => RefundInv'
  BY RefundNext
<1>3. SalesInv /\ RefundInv => RefundedHasNoUser
  BY DEF SalesInv, TypeOK, RefundInv, ConfigSound, RefundedHasNoUser
<1> QED
  BY <1>1, <1>2, <1>3, SalesInvariant, PTL DEF Spec

-----------------------------------------------------------------------------
(* Refunds of renewals and the quota.                                      *)

NoToggles == \A w \in Workers : Jobs[w] \cap {"pause", "resume"} = {}

\* The sound workers v that do not move stay so when their orders keep their renewal.
LEMMA QuotaStep ==
    ASSUME SalesInv, QuotaInv, Kept, NEW W \in SUBSET Workers,
           \A o \in Orders : user[o] = "absent" /\ order[o].status # "pending" => user'[o] = "absent",
           \A r \in Renewals : op[r].target => op'[r].target,
           \A h \in Holds : hold'[h].status = "settled" => hold[h].status = "settled" \/ op[h].target,
           \A r \in Renewals :
              \/ op'[r] = op[r]
              \/ /\ op'[r].order \in Orders
                 /\ order'[op'[r].order].status \notin {"none", "pending"}
                 /\ op'[r].status = "reversed" /\ op'[r].applied => user'[op'[r].order] = "absent",
           \A v \in Workers \ W :
              /\ worker'[v] = worker[v]
              /\ Renewing(v) => \/ user[OrderOf(v)] = "absent"
                                \/ /\ order'[OrderOf(v)].status = order[OrderOf(v)].status
                                   /\ order'[OrderOf(v)].by = order[OrderOf(v)].by,
           \A w \in W : OwnerSound(w)'
    PROVE  QuotaInv'
<1>1. ASSUME NEW r \in Renewals PROVE QuotaSound(r)'
  <2>0. QuotaSound(r)
    BY DEF QuotaInv
  <2>1. r \in Holds /\ hold'[r].status = "settled" => op'[r].target
    BY <2>0 DEF QuotaSound
  <2>2. CASE op'[r] = op[r]
    BY <2>0, <2>1, <2>2 DEF QuotaSound, Kept
  <2>3. CASE /\ op'[r].order \in Orders
             /\ order'[op'[r].order].status \notin {"none", "pending"}
             /\ op'[r].status = "reversed" /\ op'[r].applied => user'[op'[r].order] = "absent"
    BY <2>1, <2>3 DEF QuotaSound
  <2> QED
    BY <2>2, <2>3
<1>2. ASSUME NEW v \in Workers \ W PROVE OwnerSound(v)'
  <2>0. OwnerSound(v) /\ worker'[v] = worker[v]
    BY DEF QuotaInv
  <2>1. ~At(v, "switch")' /\ ~At(v, "show")'
    BY <2>0 DEF OwnerSound, At
  <2>2. At(v, "debit") => op[Renewal(v)].target /\ Renewal(v) \in Renewals
    BY <2>0, Renewer DEF OwnerSound, At
  <2>3. At(v, "mark") => user'[OrderOf(v)] = "absent"
    <3>1. At(v, "mark") => OrderOf(v) \in Orders /\ order[OrderOf(v)].status # "pending"
      BY Created DEF At
    <3> QED
      BY <2>0, <3>1 DEF OwnerSound
  <2>4. Renewing(v) =>
          \/ user'[OrderOf(v)] = "absent"
          \/ order'[OrderOf(v)].status = "renewing" /\ order'[OrderOf(v)].by = Renewal(v)
    <3>1. Renewing(v) => OrderOf(v) \in Orders /\ order[OrderOf(v)].status # "pending"
      BY Renewer DEF Renewing
    <3> QED
      BY <2>0, <3>1 DEF OwnerSound
  <2> QED
    BY <2>0, <2>1, <2>2, <2>3, <2>4 DEF OwnerSound, At, Renewing, OrderOf, Renewal
<1> QED
  BY <1>1, <1>2 DEF QuotaInv

\* One worker moves to a place where it owns nothing, and the panel stays.
LEMMA QuotaPlain ==
    ASSUME SalesInv, QuotaInv, Kept, NEW w \in Workers,
           worker'[w].at \notin {"prepare", "debit", "apply", "finish", "mark", "switch", "show"},
           \A v \in Workers \ {w} :
              /\ worker'[v] = worker[v]
              /\ Renewing(v) => \/ user[OrderOf(v)] = "absent"
                                \/ /\ order'[OrderOf(v)].status = order[OrderOf(v)].status
                                   /\ order'[OrderOf(v)].by = order[OrderOf(v)].by,
           \A o \in Orders : user[o] = "absent" /\ order[o].status # "pending" => user'[o] = "absent",
           \A r \in Renewals : op[r].target => op'[r].target,
           \A h \in Holds : hold'[h].status = "settled" => hold[h].status = "settled" \/ op[h].target,
           \A r \in Renewals :
              \/ op'[r] = op[r]
              \/ /\ op'[r].order \in Orders
                 /\ order'[op'[r].order].status \notin {"none", "pending"}
                 /\ op'[r].status = "reversed" /\ op'[r].applied => user'[op'[r].order] = "absent"
    PROVE  QuotaInv'
<1>1. OwnerSound(w)'
  BY DEF OwnerSound, At, Renewing
<1>2. PICK W \in SUBSET Workers : W = {w}
  OBVIOUS
<1> QED
  BY <1>1, <1>2, QuotaStep

\* A step that leaves the panel, the operations and the orders' renewals alone.
LEMMA QuotaLocal ==
    ASSUME SalesInv, QuotaInv, Kept, UNCHANGED <<user, op>>, NEW w \in Workers,
           \A o \in Orders : \/ user[o] = "absent"
                             \/ order[o].status # "renewing"
                             \/ order'[o].status = order[o].status /\ order'[o].by = order[o].by,
           \A h \in Holds : hold'[h].status = "settled" => hold[h].status = "settled",
           worker'[w].at \notin {"prepare", "debit", "apply", "finish", "mark", "switch", "show"},
           \A v \in Workers \ {w} : worker'[v] = worker[v]
    PROVE  QuotaInv'
<1>1. \A v \in Workers \ {w} :
         Renewing(v) => \/ user[OrderOf(v)] = "absent"
                        \/ /\ order'[OrderOf(v)].status = order[OrderOf(v)].status
                           /\ order'[OrderOf(v)].by = order[OrderOf(v)].by
  <2> SUFFICES ASSUME NEW v \in Workers \ {w}, Renewing(v)
               PROVE  \/ user[OrderOf(v)] = "absent"
                      \/ /\ order'[OrderOf(v)].status = order[OrderOf(v)].status
                         /\ order'[OrderOf(v)].by = order[OrderOf(v)].by
    OBVIOUS
  <2>1. OrderOf(v) \in Orders /\ OwnerSound(v)
    BY Renewer DEF Renewing, QuotaInv
  <2> QED
    BY <2>1 DEF OwnerSound
<1> QED
  BY <1>1, QuotaPlain

\* Two workers on one order's renewal: the panel has no user any more.
LEMMA OneOwner ==
    ASSUME SalesInv, QuotaInv, NEW w \in Workers, Renewing(w), NEW v \in Workers \ {w}, Renewing(v),
           OrderOf(v) = OrderOf(w)
    PROVE  user[OrderOf(w)] = "absent"
<1>1. Renewal(v) # Renewal(w) /\ OwnerSound(v) /\ OwnerSound(w)
  BY DEF SalesInv, WorkersApart, QuotaInv
<1> QED
  BY <1>1 DEF OwnerSound

\* When one worker changes only its own order, the others keep theirs.
LEMMA OthersOwn ==
    ASSUME SalesInv, QuotaInv, NEW w \in Workers, Renewing(w),
           \A p \in Orders \ {OrderOf(w)} : order'[p] = order[p]
    PROVE  \A v \in Workers \ {w} :
              Renewing(v) => \/ user[OrderOf(v)] = "absent"
                             \/ /\ order'[OrderOf(v)].status = order[OrderOf(v)].status
                                /\ order'[OrderOf(v)].by = order[OrderOf(v)].by
<1> SUFFICES ASSUME NEW v \in Workers \ {w}, Renewing(v)
             PROVE  \/ user[OrderOf(v)] = "absent"
                    \/ /\ order'[OrderOf(v)].status = order[OrderOf(v)].status
                       /\ order'[OrderOf(v)].by = order[OrderOf(v)].by
  OBVIOUS
<1>1. OrderOf(v) \in Orders
  BY Renewer DEF Renewing
<1>2. CASE OrderOf(v) = OrderOf(w)
  BY <1>2, OneOwner
<1>3. CASE OrderOf(v) # OrderOf(w)
  BY <1>1, <1>3
<1> QED
  BY <1>2, <1>3

-----------------------------------------------------------------------------
\* The places where a worker owns no renewal and no removed config.
Loose == Place \ {"prepare", "debit", "apply", "finish", "mark", "switch", "show"}

LEMMA LooseMoves ==
    ASSUME TypeOK, NEW w \in Workers,
           \/ End(w) \/ Failed(w)
           \/ \E place \in Loose :
                 Goto(w, place) \/ \E job \in Job, o \in Orders : Begin(w, job, place, o)
           \/ \E job \in Job, o \in Orders :
                 BeginDisarm(w, job, o) \/ \E r \in Renewals : BeginRenewal(w, job, o, r)
    PROVE  /\ \A v \in Workers \ {w} : worker'[v] = worker[v]
           /\ worker'[w].at \notin {"prepare", "debit", "apply", "finish", "mark", "switch", "show"}
<1>1. CASE End(w) \/ Failed(w)
  BY <1>1, EndTyped, FailedTyped, IdleTyped
<1>2. CASE \E place \in Loose :
              Goto(w, place) \/ \E job \in Job, o \in Orders : Begin(w, job, place, o)
  BY <1>2, GotoTyped, BeginTyped DEF Loose
<1>3. CASE \E job \in Job, o \in Orders :
              BeginDisarm(w, job, o) \/ \E r \in Renewals : BeginRenewal(w, job, o, r)
  BY <1>3, BeginDisarmTyped, BeginRenewalTyped
<1> QED
  BY <1>1, <1>2, <1>3

\* A hold that is released is not settled.
LEMMA ReleasedQuota ==
    ASSUME TypeOK, NEW o \in Orders, NEW h \in Holds \cup {None}, Release(h, o)
    PROVE  \A i \in Holds : hold'[i].status = "settled" => hold[i].status = "settled"
  BY Released

LEMMA StartQuota ==
    ASSUME SalesInv, QuotaInv, Kept, NoToggles, NEW w \in Workers, Start(w)
    PROVE  QuotaInv'
<1>0. TypeOK
  BY DEF SalesInv
<1>1. PICK o \in Orders :
         \/ Buy(w, o) \/ Trial(w, o) \/ Delete(w, o)
         \/ SweepFire(w, o) \/ SweepDisarm(w, o)
         \/ AutorenewToggle(w, o) \/ RenewLegacy(w, o)
         \/ \E g \in Grants : AdminRenew(w, o, g) \/ RenewOrder(w, o, g)
         \/ CustomerResume(w, o) \/ AdminToggle(w, o) \/ SetOrderEnabled(w, o)
  BY DEF Start
<1>2. ~CustomerResume(w, o) /\ ~AdminToggle(w, o) /\ ~SetOrderEnabled(w, o)
  BY DEF NoToggles, CustomerResume, AdminToggle, SetOrderEnabled, ToggleRead, MayStart
<1>3. {"create", "remove", "due", "arm"} \subseteq Loose /\ Grants \subseteq Renewals
      /\ {"buy", "trial", "delete", "fire", "arm", "disarm", "sweep", "grant"} \subseteq Job
  BY DEF Loose, Place, Locked, Renewals, Job
<1>4. /\ \A v \in Workers \ {w} : worker'[v] = worker[v]
      /\ worker'[w].at \notin {"prepare", "debit", "apply", "finish", "mark", "switch", "show"}
  <2>1. \/ \E place \in {"create", "remove", "due", "arm"}, job \in Job : Begin(w, job, place, o)
        \/ \E job \in Job : BeginDisarm(w, job, o)
        \/ \E job \in Job, g \in Grants : BeginRenewal(w, job, o, g)
    BY <1>1, <1>2, <1>3 DEF Buy, Trial, Delete, SweepFire, SweepDisarm, AutorenewToggle, RenewLegacy,
       ArmRead, DisarmRead, AdminRenew, RenewOrder, GrantRead
  <2> QED
    BY <1>0, <1>3, <2>1, LooseMoves
<1>5. UNCHANGED <<user, op>>
  BY <1>1, <1>2 DEF Buy, Trial, Delete, SweepFire, SweepDisarm, AutorenewToggle, RenewLegacy,
     ArmRead, DisarmRead, AdminRenew, RenewOrder, GrantRead, dbVars
<1>6. CASE UNCHANGED <<order, hold>>
  BY <1>4, <1>5, <1>6, QuotaLocal
<1>7. CASE Buy(w, o) \/ Trial(w, o)
  <2>1. order[o].status = "none" /\ UNCHANGED hold /\ \A p \in Orders \ {o} : order'[p] = order[p]
    BY <1>0, <1>7 DEF Buy, Trial, SetStatus, TypeOK
  <2>2. \A p \in Orders : \/ user[p] = "absent"
                          \/ order[p].status # "renewing"
                          \/ order'[p].status = order[p].status /\ order'[p].by = order[p].by
    BY <2>1
  <2>3. \A i \in Holds : hold'[i].status = "settled" => hold[i].status = "settled"
    BY <2>1
  <2> QED
    BY <1>4, <1>5, <2>2, <2>3, QuotaLocal
<1>8. CASE Delete(w, o)
  <2>1. order[o].armed \in Holds \cup {None}
    BY <1>0, Typed
  <2>2. order[o].status # "renewing" /\ \A p \in Orders \ {o} : order'[p] = order[p]
    BY <1>0, <1>8 DEF Delete, Active, TypeOK
  <2>3. \A i \in Holds : hold'[i].status = "settled" => hold[i].status = "settled"
    BY <1>0, <1>8, <2>1, ReleasedQuota DEF Delete
  <2>4. \A p \in Orders : \/ user[p] = "absent"
                          \/ order[p].status # "renewing"
                          \/ order'[p].status = order[p].status /\ order'[p].by = order[p].by
    BY <2>2
  <2> QED
    BY <1>4, <1>5, <2>3, <2>4, QuotaLocal
<1> QED
  BY <1>1, <1>2, <1>6, <1>7, <1>8 DEF SweepFire, SweepDisarm, AutorenewToggle, RenewLegacy,
     ArmRead, DisarmRead, AdminRenew, RenewOrder, GrantRead, dbVars

\* Steps of a worker that owns nothing afterwards and leaves the renewals alone.
LEMMA QuitQuota ==
    ASSUME SalesInv, QuotaInv, Kept, NEW w \in Workers,
           \/ Decline(w) \/ ClaimKnown(w) \/ ArmRefused(w) \/ Disarm(w) \/ FinishBuy(w)
           \/ FinishTrial(w) \/ FireRead(w) \/ FireSkipped(w) \/ Look(w) \/ MarkDeleted(w)
           \/ \E h \in Holds : Arm(w, h)
    PROVE  QuotaInv'
<1>0. TypeOK
  BY DEF SalesInv
<1>1. UNCHANGED <<user, op>>
  BY DEF Decline, RenewRefused, ArmDeclined, ClaimKnown, ArmRefused, Disarm, FinishBuy, FinishTrial,
     FireRead, FireSkipped, Look, MarkDeleted, Arm, dbVars
<1>2. /\ \A v \in Workers \ {w} : worker'[v] = worker[v]
      /\ worker'[w].at \notin {"prepare", "debit", "apply", "finish", "mark", "switch", "show"}
  <2>1. CASE End(w) \/ Failed(w)
    BY <1>0, <2>1, LooseMoves
  <2>2. CASE FireRead(w)
    <3>1. OrderOf(w) \in Orders /\ order[OrderOf(w)].armed \in Renewals /\ "fire" \in Job
      BY <1>0, <2>2, Created, Typed DEF FireRead, At, LiveConfirm, Renewals, Job
    <3> QED
      BY <1>0, <2>2, <3>1, LooseMoves DEF FireRead
  <2>3. CASE worker' = [worker EXCEPT ![w].at = "disarm", ![w].saw = order[OrderOf(w)].armed]
    <3> DEFINE there == [worker EXCEPT ![w].at = "disarm"]
    <3>1. /\ there \in [Workers -> WorkerState] /\ \A v \in Workers \ {w} : there[v] = worker[v]
          /\ there[w].at = "disarm"
      BY <1>0, SMT DEF TypeOK, WorkerState, Place
    <3>2. worker' = [there EXCEPT ![w].saw = order[OrderOf(w)].armed]
      BY <2>3
    <3> HIDE DEF there
    <3>3. (\A v \in Workers \ {w} : worker'[v] = worker[v]) /\ worker'[w].at = "disarm"
      BY <3>1, <3>2, SMT DEF WorkerState
    <3> QED
      BY <3>3
  <2> QED
    BY <2>1, <2>2, <2>3 DEF Decline, RenewRefused, ArmDeclined, ClaimKnown, ArmRefused, Disarm,
       FinishBuy, FinishTrial, FireSkipped, Look, MarkDeleted, Arm
<1>3. CASE UNCHANGED <<order, hold>>
  BY <1>1, <1>2, <1>3, QuotaLocal
<1>4. CASE FinishBuy(w) \/ FinishTrial(w)
  <2>1. OrderOf(w) \in Orders /\ order[OrderOf(w)].status = "pending"
    BY <1>4, Creator DEF FinishBuy, FinishTrial, Creating
  <2>2. \A p \in Orders : \/ user[p] = "absent"
                          \/ order[p].status # "renewing"
                          \/ order'[p].status = order[p].status /\ order'[p].by = order[p].by
    BY <1>0, <1>4, <2>1 DEF FinishBuy, FinishTrial, SetStatus, TypeOK
  <2>3. \A i \in Holds : hold'[i].status = "settled" => hold[i].status = "settled"
    BY <1>4 DEF FinishBuy, FinishTrial
  <2> QED
    BY <1>1, <1>2, <2>2, <2>3, QuotaLocal
<1>5. CASE MarkDeleted(w)
  <2>1. OrderOf(w) \in Orders /\ user[OrderOf(w)] = "absent"
    BY <1>5, Created DEF MarkDeleted, At, QuotaInv, OwnerSound
  <2>2. \A p \in Orders : \/ user[p] = "absent"
                          \/ order[p].status # "renewing"
                          \/ order'[p].status = order[p].status /\ order'[p].by = order[p].by
    BY <1>0, <1>5, <2>1 DEF MarkDeleted, SetStatus, TypeOK
  <2>3. \A i \in Holds : hold'[i].status = "settled" => hold[i].status = "settled"
    BY <1>5 DEF MarkDeleted
  <2> QED
    BY <1>1, <1>2, <2>2, <2>3, QuotaLocal
<1>6. CASE Disarm(w) \/ \E h \in Holds : Arm(w, h)
  <2>1. OrderOf(w) \in Orders /\ worker[w].saw \in Holds \cup {None}
    BY <1>0, <1>6, Created, Typed DEF Disarm, Arm, At
  <2>2. PICK h \in Holds \cup {None} : order' = [order EXCEPT ![OrderOf(w)].armed = h]
    BY <1>6 DEF Disarm, Arm
  <2>3. \A p \in Orders : order'[p].status = order[p].status /\ order'[p].by = order[p].by
    BY <1>0, <2>1, <2>2, ArmedSet
  <2>4. \A i \in Holds : hold'[i].status = "settled" => hold[i].status = "settled"
    BY <1>0, <1>6, <2>1, ReleasedQuota DEF Disarm, Arm, TypeOK
  <2> QED
    BY <1>1, <1>2, <2>3, <2>4, QuotaLocal
<1> QED
  BY <1>3, <1>4, <1>5, <1>6 DEF Decline, RenewRefused, ArmDeclined, ClaimKnown, ArmRefused, FireRead,
     FireSkipped, Look, dbVars

\* The panel gets a user for a pending order: no renewal is of that order.
LEMMA CreateQuota ==
    ASSUME SalesInv, QuotaInv, Kept, NEW w \in Workers, NEW made \in BOOLEAN, NEW ok \in BOOLEAN,
           CreateUser(w, made, ok)
    PROVE  QuotaInv'
<1> PICK o \in Orders : o = OrderOf(w)
  BY Creator DEF CreateUser, Creating
<1>1. order[o].status = "pending" /\ TypeOK /\ UNCHANGED dbVars
  BY Creator DEF CreateUser, Creating, SalesInv
<1>2. \A p \in Orders : user[p] = "absent" /\ order[p].status # "pending" => user'[p] = "absent"
  BY <1>1 DEF CreateUser, TypeOK
<1> DEFINE there == [worker EXCEPT ![w].at = "record"]
<1>3. /\ there \in [Workers -> WorkerState] /\ \A v \in Workers \ {w} : there[v] = worker[v]
      /\ there[w].at = "record"
  BY <1>1, SMT DEF TypeOK, WorkerState, Place, Locked
<1>4. worker' = [there EXCEPT ![w].ok = ok]
  BY DEF CreateUser
<1> HIDE DEF there
<1>5. (\A v \in Workers \ {w} : worker'[v] = worker[v]) /\ worker'[w].at = "record"
  BY <1>3, <1>4, SMT DEF WorkerState
<1> QED
  BY <1>1, <1>2, <1>5, QuotaPlain DEF dbVars

\* The operation of a renewal, after a step on it.
LEMMA OpQuota ==
    ASSUME SalesInv, QuotaInv, Kept, NEW r \in Renewals, op[r].status # "none",
           \A q \in Renewals \ {r} : op'[q] = op[q], op'[r].order = op[r].order,
           op'[r].status = "reversed" /\ op'[r].applied => user'[op[r].order] = "absent"
    PROVE  \A q \in Renewals :
              \/ op'[q] = op[q]
              \/ /\ op'[q].order \in Orders
                 /\ order'[op'[q].order].status \notin {"none", "pending"}
                 /\ op'[q].status = "reversed" /\ op'[q].applied => user'[op'[q].order] = "absent"
<1>1. op[r].order \in Orders /\ order[op[r].order].status \notin {"none", "pending"}
  BY DEF QuotaInv, QuotaSound
<1>2. order'[op[r].order].status \notin {"none", "pending"}
  BY <1>1 DEF Kept
<1> QED
  BY <1>1, <1>2

\* Where a renewing worker goes on, it owns its order as before.
LEMMA GoOnQuota ==
    ASSUME SalesInv, QuotaInv, Kept, UNCHANGED order, NEW w \in Workers, Renewing(w),
           NEW place \in {"debit", "apply", "finish"}, Goto(w, place),
           NEW r \in Renewals, r = Renewal(w),
           \A q \in Renewals \ {r} : op'[q] = op[q], op'[r].order = op[r].order,
           op'[r].status = "in_progress", op[r].target => op'[r].target,
           place = "debit" => op'[r].target,
           \A o \in Orders : user[o] = "absent" => user'[o] = "absent",
           \A h \in Holds : hold'[h].status = "settled" => hold[h].status = "settled" \/ op[h].target
    PROVE  QuotaInv'
<1>0. TypeOK /\ place \in Place /\ op[r].status # "none" /\ OrderOf(w) \in Orders
  BY Renewer DEF SalesInv, Place, Locked, Renewing
<1>1. /\ \A v \in Workers \ {w} : worker'[v] = worker[v]
      /\ worker'[w].at = place /\ worker'[w].o = worker[w].o /\ worker'[w].r = worker[w].r
  BY <1>0, GotoTyped
<1>2. OwnerSound(w)'
  BY <1>0, <1>1 DEF QuotaInv, OwnerSound, Renewing, At, OrderOf, Renewal
<1>3. \A q \in Renewals :
         \/ op'[q] = op[q]
         \/ /\ op'[q].order \in Orders
            /\ order'[op'[q].order].status \notin {"none", "pending"}
            /\ op'[q].status = "reversed" /\ op'[q].applied => user'[op'[q].order] = "absent"
  BY <1>0, OpQuota
<1>4. \A q \in Renewals : op[q].target => op'[q].target
  OBVIOUS
<1>5. PICK W \in SUBSET Workers : W = {w}
  OBVIOUS
<1> QED
  BY <1>1, <1>2, <1>3, <1>4, <1>5, QuotaStep

LEMMA AdvanceQuota ==
    ASSUME SalesInv, QuotaInv, Kept, NEW w \in Workers, Prepare(w) \/ Debit(w) \/ Apply(w)
    PROVE  QuotaInv'
<1>0. Renewing(w) /\ TypeOK
  BY DEF Renewing, Prepare, Debit, Apply, At, SalesInv
<1> PICK r \in Renewals : r = Renewal(w)
  BY <1>0, Renewer DEF Renewing
<1>1. op[r].status = "in_progress"
  BY <1>0, Renewer DEF Renewing
<1>2. PICK b \in BOOLEAN : b = TRUE
  OBVIOUS
<1>3. CASE Prepare(w)
  <2>1. op' = [op EXCEPT ![r].target = b]
    BY <1>2, <1>3 DEF Prepare
  <2>2. /\ \A q \in Renewals \ {r} : op'[q] = op[q]
        /\ op'[r].order = op[r].order /\ op'[r].status = "in_progress" /\ op'[r].target
    BY <1>0, <1>1, <1>2, <2>1, OpTargetSet
  <2>3. PICK place \in {"debit", "apply", "finish"} : Goto(w, place)
    BY <1>3 DEF Prepare
  <2>4. UNCHANGED <<order, hold, user>>
    BY <1>3 DEF Prepare
  <2> QED
    BY <1>0, <2>2, <2>3, <2>4, GoOnQuota
<1>4. CASE Debit(w)
  <2>1. UNCHANGED <<order, op, user>> /\ op[r].target /\ r \in Holds
    BY <1>4 DEF Debit, QuotaInv, OwnerSound, SalesInv, RenewerSound
  <2>2. \A h \in Holds : hold'[h].status = "settled" => hold[h].status = "settled" \/ op[h].target
    BY <1>0, <1>4, <2>1 DEF Debit, TypeOK
  <2>3. PICK place \in {"apply"} : Goto(w, place)
    BY <1>4 DEF Debit
  <2> QED
    BY <1>0, <1>1, <2>1, <2>2, <2>3, GoOnQuota
<1>5. CASE Apply(w)
  <2>1. op' = [op EXCEPT ![r].applied = b]
    BY <1>2, <1>5 DEF Apply, Applied
  <2>2. /\ \A q \in Renewals \ {r} : op'[q] = op[q]
        /\ op'[r].order = op[r].order /\ op'[r].status = "in_progress"
        /\ op'[r].target = op[r].target
    BY <1>0, <1>1, <2>1, OpAppliedSet
  <2>3. \A o \in Orders : user[o] = "absent" => user'[o] = "absent"
    BY <1>0, <1>5 DEF Apply, Applied, TypeOK
  <2>4. PICK place \in {"finish"} : Goto(w, place)
    BY <1>5 DEF Apply
  <2>5. UNCHANGED <<order, hold>>
    BY <1>5 DEF Apply
  <2> QED
    BY <1>0, <2>2, <2>3, <2>4, <2>5, GoOnQuota
<1> QED
  BY <1>3, <1>4, <1>5

\* A worker that claims an order owns it.
LEMMA ClaimQuota ==
    ASSUME SalesInv, QuotaInv, Kept, NEW w \in Workers, Claim(w)
    PROVE  QuotaInv'
<1> PICK o \in Orders : o = OrderOf(w)
  BY Created DEF Claim, At
<1> PICK r \in Renewals : r = Renewal(w)
  BY DEF Claim, At, SalesInv, RenewerSound
<1>1. /\ TypeOK /\ op[r].status = "none" /\ order[o].status \in Active /\ UNCHANGED <<hold, user>>
      /\ o = worker[w].o /\ r = worker[w].r /\ "prepare" \in Place
  BY DEF Claim, SalesInv, OrderOf, Renewal, Place, Locked
<1>2. /\ \A p \in Orders \ {o} : order'[p] = order[p]
      /\ order'[o].status = "renewing" /\ order'[o].by = r
  <2> DEFINE a == [order EXCEPT ![o].status = "renewing"]
  <2>1. /\ a \in [Orders -> OrderRow] /\ \A p \in Orders \ {o} : a[p] = order[p]
        /\ a[o].status = "renewing"
    BY <1>1, SMT DEF TypeOK, OrderRow, OrderStatus
  <2>2. order' = [a EXCEPT ![o].by = r]
    BY DEF Claim
  <2> HIDE DEF a
  <2> QED
    BY <2>1, <2>2, SMT DEF OrderRow
<1>3. /\ \A q \in Renewals \ {r} : op'[q] = op[q]
      /\ op'[r].status = "in_progress" /\ op'[r].order = o /\ op'[r].target = op[r].target
  <2> DEFINE a == [op EXCEPT ![r].status = "in_progress"]
             b == [a EXCEPT ![r].order = o]
  <2>1. /\ a \in [Renewals -> OpRow] /\ \A q \in Renewals \ {r} : a[q] = op[q]
        /\ a[r].status = "in_progress" /\ a[r].target = op[r].target
    BY <1>1, SMT DEF TypeOK, OpRow, OpStatus
  <2>2. /\ b \in [Renewals -> OpRow] /\ \A q \in Renewals \ {r} : b[q] = op[q]
        /\ b[r].status = "in_progress" /\ b[r].order = o /\ b[r].target = op[r].target
    <3> HIDE DEF a
    <3> QED
      BY <2>1, SMT DEF OpRow
  <2>3. op' = [b EXCEPT ![r].prior = worker[w].seen]
    BY DEF Claim
  <2> HIDE DEF b
  <2> QED
    BY <2>2, <2>3, SMT DEF OpRow
<1>4. /\ \A v \in Workers \ {w} : worker'[v] = worker[v]
      /\ worker'[w].at = "prepare" /\ worker'[w].o = o /\ worker'[w].r = r
  BY <1>1, GotoTyped DEF Claim
<1>5. OwnerSound(w)'
  BY <1>2, <1>4 DEF OwnerSound, Renewing, At, OrderOf, Renewal
<1>6. \A v \in Workers \ {w} :
         Renewing(v) => \/ user[OrderOf(v)] = "absent"
                        \/ /\ order'[OrderOf(v)].status = order[OrderOf(v)].status
                           /\ order'[OrderOf(v)].by = order[OrderOf(v)].by
  <2> SUFFICES ASSUME NEW v \in Workers \ {w}, Renewing(v)
               PROVE  \/ user[OrderOf(v)] = "absent"
                      \/ order'[OrderOf(v)] = order[OrderOf(v)]
    OBVIOUS
  <2>1. OrderOf(v) \in Orders /\ OwnerSound(v)
    BY Renewer DEF Renewing, QuotaInv
  <2> QED
    BY <1>1, <1>2, <2>1 DEF OwnerSound, Active
<1>7. \A q \in Renewals :
         \/ op'[q] = op[q]
         \/ /\ op'[q].order \in Orders
            /\ order'[op'[q].order].status \notin {"none", "pending"}
            /\ op'[q].status = "reversed" /\ op'[q].applied => user'[op'[q].order] = "absent"
  BY <1>2, <1>3
<1>8. \A q \in Renewals : op[q].target => op'[q].target
  BY <1>3
<1>9. PICK W \in SUBSET Workers : W = {w}
  OBVIOUS
<1> QED
  BY <1>1, <1>4, <1>5, <1>6, <1>7, <1>8, <1>9, QuotaStep

\* A renewing worker lets go of its order and ends, or goes on where it owns nothing.
LEMMA LetGoQuota ==
    ASSUME SalesInv, QuotaInv, Kept, UNCHANGED hold, NEW w \in Workers, Renewing(w),
           End(w) \/ Failed(w) \/ Goto(w, "repay"),
           NEW r \in Renewals, r = Renewal(w),
           \A q \in Renewals \ {r} : op'[q] = op[q], op'[r].order = op[r].order,
           op'[r].target = op[r].target,
           op'[r].status = "reversed" => user[OrderOf(w)] = "absent",
           \A o \in Orders : user[o] = "absent" => user'[o] = "absent",
           \A p \in Orders \ {OrderOf(w)} : order'[p] = order[p]
    PROVE  QuotaInv'
<1>0. /\ TypeOK /\ op[r].status # "none" /\ op[r].order = OrderOf(w) /\ OrderOf(w) \in Orders
      /\ "repay" \in Loose
  BY Renewer DEF SalesInv, Renewing, Loose, Place, Locked
<1>1. /\ \A v \in Workers \ {w} : worker'[v] = worker[v]
      /\ worker'[w].at \notin {"prepare", "debit", "apply", "finish", "mark", "switch", "show"}
  BY <1>0, LooseMoves
<1>2. \A v \in Workers \ {w} :
         Renewing(v) => \/ user[OrderOf(v)] = "absent"
                        \/ /\ order'[OrderOf(v)].status = order[OrderOf(v)].status
                           /\ order'[OrderOf(v)].by = order[OrderOf(v)].by
  BY OthersOwn
<1>3. \A q \in Renewals :
         \/ op'[q] = op[q]
         \/ /\ op'[q].order \in Orders
            /\ order'[op'[q].order].status \notin {"none", "pending"}
            /\ op'[q].status = "reversed" /\ op'[q].applied => user'[op'[q].order] = "absent"
  BY <1>0, OpQuota
<1>4. \A q \in Renewals : op[q].target => op'[q].target
  OBVIOUS
<1> QED
  BY <1>1, <1>2, <1>3, <1>4, QuotaPlain

LEMMA EndQuota ==
    ASSUME SalesInv, QuotaInv, Kept, NEW w \in Workers,
           PrepareFails(w) \/ DebitFails(w) \/ ApplyUncertain(w) \/ Finish(w) \/ FinishElsewhere(w)
    PROVE  QuotaInv'
<1>0. Renewing(w) /\ TypeOK
  BY DEF Renewing, PrepareFails, DebitFails, ApplyUncertain, Finish, FinishElsewhere, At, SalesInv
<1> PICK r \in Renewals : r = Renewal(w)
  BY <1>0, Renewer DEF Renewing
<1> PICK o \in Orders : o = OrderOf(w)
  BY <1>0, Renewer DEF Renewing
<1>1. op[r].status = "in_progress"
  BY <1>0, Renewer DEF Renewing
<1>2. UNCHANGED hold /\ (End(w) \/ Failed(w) \/ Goto(w, "repay"))
  BY DEF PrepareFails, DebitFails, GiveUp, ApplyUncertain, Finish, FinishElsewhere
<1>3. \A p \in Orders \ {o} : order'[p] = order[p]
  BY <1>0 DEF PrepareFails, DebitFails, GiveUp, ApplyUncertain, Finish, FinishElsewhere, TypeOK
<1>4. \A p \in Orders : user[p] = "absent" => user'[p] = "absent"
  BY <1>0 DEF PrepareFails, DebitFails, GiveUp, ApplyUncertain, Applied, Finish, FinishElsewhere, TypeOK
<1>5. CASE \E st \in OpStatus : /\ op' = [op EXCEPT ![r].status = st]
                                /\ st = "reversed" => user[o] = "absent"
  <2>1. PICK st \in OpStatus : /\ op' = [op EXCEPT ![r].status = st]
                               /\ st = "reversed" => user[o] = "absent"
    BY <1>5
  <2>2. /\ \A q \in Renewals \ {r} : op'[q] = op[q]
        /\ op'[r].order = op[r].order /\ op'[r].status = st
        /\ op'[r].target = op[r].target
    BY <1>0, <2>1, OpStatusSet
  <2> QED
    BY <1>0, <1>2, <1>3, <1>4, <2>1, <2>2, LetGoQuota
<1>6. CASE ApplyUncertain(w)
  <2>1. CASE UNCHANGED op
    BY <1>0, <1>1, <1>2, <1>3, <1>4, <2>1, LetGoQuota
  <2>2. CASE Applied(o, r)
    <3>1. PICK b \in BOOLEAN : b = TRUE
      OBVIOUS
    <3>2. op' = [op EXCEPT ![r].applied = b]
      BY <2>2, <3>1 DEF Applied
    <3>3. /\ \A q \in Renewals \ {r} : op'[q] = op[q]
          /\ op'[r].order = op[r].order /\ op'[r].status = "in_progress"
          /\ op'[r].target = op[r].target
      BY <1>0, <1>1, <3>2, OpAppliedSet
    <3> QED
      BY <1>0, <1>2, <1>3, <1>4, <3>3, LetGoQuota
  <2> QED
    BY <1>6, <2>1, <2>2 DEF ApplyUncertain
<1>7. CASE PrepareFails(w) \/ DebitFails(w) \/ Finish(w)
  <2>1. {"failed", "done"} \subseteq OpStatus
    BY DEF OpStatus
  <2> QED
    BY <1>5, <1>7, <2>1 DEF PrepareFails, DebitFails, GiveUp, Finish
<1>8. CASE FinishElsewhere(w)
  <2>1. op' = [op EXCEPT ![r].status = "reversed"] /\ "reversed" \in OpStatus
    BY <1>8 DEF FinishElsewhere, OpStatus
  <2>2. user[o] = "absent"
    BY <1>0, <1>8 DEF FinishElsewhere, QuotaInv, OwnerSound
  <2> QED
    BY <1>5, <2>1, <2>2
<1> QED
  BY <1>6, <1>7, <1>8

\* An operation refused, and one paid back.
LEMMA OtherOpQuota ==
    ASSUME SalesInv, QuotaInv, Kept, NEW w \in Workers, ClaimRefused(w) \/ Repay(w)
    PROVE  QuotaInv'
<1> PICK o \in Orders : o = OrderOf(w)
  BY Created DEF ClaimRefused, Repay, At
<1> PICK r \in Renewals : r = Renewal(w)
  BY DEF ClaimRefused, Repay, At, SalesInv, RenewerSound
<1>1. TypeOK /\ UNCHANGED <<order, hold, user>> /\ Failed(w)
  BY DEF ClaimRefused, Repay, SalesInv
<1>2. /\ \A v \in Workers \ {w} : worker'[v] = worker[v]
      /\ worker'[w].at \notin {"prepare", "debit", "apply", "finish", "mark", "switch", "show"}
  BY <1>1, LooseMoves
<1>3. CASE ClaimRefused(w)
  <2>1. order[o].status \notin {"none", "pending"}
    BY <1>3, Created DEF ClaimRefused, At
  <2> DEFINE a == [op EXCEPT ![r].status = "failed"]
  <2>2. /\ a \in [Renewals -> OpRow] /\ \A q \in Renewals \ {r} : a[q] = op[q]
        /\ a[r].status = "failed" /\ a[r].target = op[r].target
    BY <1>1, SMT DEF TypeOK, OpRow, OpStatus
  <2>3. op' = [a EXCEPT ![r].order = o]
    BY <1>3 DEF ClaimRefused
  <2> HIDE DEF a
  <2>4. /\ \A q \in Renewals \ {r} : op'[q] = op[q]
        /\ op'[r].status = "failed" /\ op'[r].order = o /\ op'[r].target = op[r].target
    BY <2>2, <2>3, SMT DEF OpRow
  <2>5. \A q \in Renewals :
           \/ op'[q] = op[q]
           \/ /\ op'[q].order \in Orders
              /\ order'[op'[q].order].status \notin {"none", "pending"}
              /\ op'[q].status = "reversed" /\ op'[q].applied => user'[op'[q].order] = "absent"
    BY <1>1, <2>1, <2>4
  <2>6. \A q \in Renewals : op[q].target => op'[q].target
    BY <2>4
  <2> QED
    BY <1>1, <1>2, <2>5, <2>6, QuotaPlain
<1>4. CASE Repay(w)
  <2>1. PICK b \in BOOLEAN : b = TRUE
    OBVIOUS
  <2>2. op' = [op EXCEPT ![r].repaid = b] /\ op[r].status = "reversed"
    BY <1>4, <2>1 DEF Repay, SalesInv, RenewerSound
  <2>3. /\ \A q \in Renewals \ {r} : op'[q] = op[q]
        /\ op'[r].status = op[r].status /\ op'[r].order = op[r].order
        /\ op'[r].applied = op[r].applied /\ op'[r].target = op[r].target
    BY <1>1, <2>2, OpRepaidSet
  <2>4. op'[r].status = "reversed" /\ op'[r].applied => user'[op[r].order] = "absent"
    BY <1>1, <2>3 DEF QuotaInv, QuotaSound
  <2>5. \A q \in Renewals :
           \/ op'[q] = op[q]
           \/ /\ op'[q].order \in Orders
              /\ order'[op'[q].order].status \notin {"none", "pending"}
              /\ op'[q].status = "reversed" /\ op'[q].applied => user'[op'[q].order] = "absent"
    BY <2>2, <2>3, <2>4, OpQuota
  <2>6. \A q \in Renewals : op[q].target => op'[q].target
    BY <2>3
  <2> QED
    BY <1>1, <1>2, <2>5, <2>6, QuotaPlain
<1> QED
  BY <1>3, <1>4

LEMMA RemoveQuota ==
    ASSUME SalesInv, QuotaInv, Kept, NEW w \in Workers,
           RemoveUser(w) \/ \E gone \in BOOLEAN : RemoveFails(w, gone)
    PROVE  QuotaInv'
<1> PICK o \in Orders : o = OrderOf(w)
  BY Created DEF RemoveUser, RemoveFails, At
<1>1. TypeOK /\ UNCHANGED <<order, op, hold>> /\ "mark" \in Place /\ o = worker[w].o
  BY DEF RemoveUser, RemoveFails, dbVars, SalesInv, Place, Locked, OrderOf
<1>2. \A p \in Orders : user[p] = "absent" => user'[p] = "absent"
  BY <1>1 DEF RemoveUser, RemoveFails, TypeOK
<1>3. OwnerSound(w)' /\ \A v \in Workers \ {w} : worker'[v] = worker[v]
  <2>1. CASE RemoveUser(w)
    <3>1. user'[o] = "absent"
      BY <1>1, <2>1 DEF RemoveUser, TypeOK
    <3>2. /\ worker'[w].at = "mark" /\ worker'[w].o = o
          /\ \A v \in Workers \ {w} : worker'[v] = worker[v]
      BY <1>1, <2>1, GotoTyped DEF RemoveUser
    <3> QED
      BY <3>1, <3>2 DEF OwnerSound, Renewing, At, OrderOf
  <2>2. CASE End(w)
    BY <1>1, <2>2, EndTyped, IdleTyped DEF OwnerSound, Renewing, At
  <2> QED
    BY <2>1, <2>2 DEF RemoveFails
<1>4. PICK W \in SUBSET Workers : W = {w}
  OBVIOUS
<1> QED
  BY <1>1, <1>2, <1>3, <1>4, QuotaStep

LEMMA WorkerQuota ==
    ASSUME SalesInv, QuotaInv, Kept, NEW w \in Workers, Decline(w) \/ Acquire(w) \/ Proceed(w)
    PROVE  QuotaInv'
<1>1. ~ShowPaused(w) /\ ~ShowResumed(w) /\ ~Switch(w) /\ ~SwitchFails(w)
  BY DEF ShowPaused, ShowResumed, Switch, SwitchFails, QuotaInv, OwnerSound
<1>2. CASE Decline(w)
  BY <1>2, QuitQuota
<1>3. CASE Acquire(w)
  BY <1>1, <1>3, QuitQuota, ClaimQuota, OtherOpQuota DEF Acquire
<1>4. CASE Proceed(w)
  BY <1>1, <1>4, QuitQuota, CreateQuota, AdvanceQuota, EndQuota, OtherOpQuota, RemoveQuota DEF Proceed
<1> QED
  BY <1>2, <1>3, <1>4

\* The reaper decides a stuck renewal; no worker owns the order.
LEMMA ReapQuota ==
    ASSUME SalesInv, QuotaInv, Kept, UNCHANGED <<hold, worker>>, NEW o \in Orders, Stuck(o),
           NEW r \in Renewals, r = order[o].by,
           \A p \in Orders \ {o} : order'[p] = order[p],
           \A p \in Orders : user[p] = "absent" => user'[p] = "absent",
           \A q \in Renewals \ {r} : op'[q] = op[q],
           op'[r].order = op[r].order, op'[r].target = op[r].target,
           op'[r].status = "reversed" => user[o] = "absent"
    PROVE  QuotaInv'
<1>1. \A v \in Workers :
         Renewing(v) => \/ user[OrderOf(v)] = "absent"
                        \/ /\ order'[OrderOf(v)].status = order[OrderOf(v)].status
                           /\ order'[OrderOf(v)].by = order[OrderOf(v)].by
  <2> SUFFICES ASSUME NEW v \in Workers, Renewing(v)
               PROVE  order'[OrderOf(v)] = order[OrderOf(v)]
    OBVIOUS
  <2>1. OrderOf(v) \in Orders
    BY Renewer DEF Renewing
  <2>2. OrderOf(v) # o
    BY DEF Stuck, Leased, Renewing, OrderOf
  <2> QED
    BY <2>1, <2>2
<1>2. op[r].order = o /\ op[r].status # "none" /\ op'[r].order = o
  BY NobodyRenews DEF Stuck
<1>3. \A q \in Renewals :
         \/ op'[q] = op[q]
         \/ /\ op'[q].order \in Orders
            /\ order'[op'[q].order].status \notin {"none", "pending"}
            /\ op'[q].status = "reversed" /\ op'[q].applied => user'[op'[q].order] = "absent"
  BY <1>2, OpQuota
<1>4. \A q \in Renewals : op[q].target => op'[q].target
  OBVIOUS
<1>5. PICK W \in SUBSET Workers : W = {}
  OBVIOUS
<1> QED
  BY <1>1, <1>3, <1>4, <1>5, QuotaStep

LEMMA ReaperQuota ==
    ASSUME SalesInv, QuotaInv, Kept, NEW o \in Orders, Reap(o) \/ ReapUncertain(o)
    PROVE  QuotaInv'
<1>0. TypeOK
  BY DEF SalesInv
<1>1. CASE ReapPurchase(o)
  <2>1. \A p \in Orders : \/ order[p].status # "renewing"
                          \/ order'[p].status = order[p].status /\ order'[p].by = order[p].by
    BY <1>0, <1>1 DEF ReapPurchase, SetStatus, TypeOK
  <2>2. \A v \in Workers :
           Renewing(v) => \/ user[OrderOf(v)] = "absent"
                          \/ /\ order'[OrderOf(v)].status = order[OrderOf(v)].status
                             /\ order'[OrderOf(v)].by = order[OrderOf(v)].by
    <3> SUFFICES ASSUME NEW v \in Workers, Renewing(v)
                 PROVE  \/ user[OrderOf(v)] = "absent"
                        \/ /\ order'[OrderOf(v)].status = order[OrderOf(v)].status
                           /\ order'[OrderOf(v)].by = order[OrderOf(v)].by
      OBVIOUS
    <3>1. OrderOf(v) \in Orders /\ OwnerSound(v)
      BY Renewer DEF Renewing, QuotaInv
    <3> QED
      BY <2>1, <3>1 DEF OwnerSound
  <2>3. PICK W \in SUBSET Workers : W = {}
    OBVIOUS
  <2> QED
    BY <1>1, <2>2, <2>3, QuotaStep DEF ReapPurchase
<1>2. CASE ReapBack(o) \/ ReapForward(o) \/ ReapUncertain(o)
  <2>1. Stuck(o) /\ UNCHANGED <<hold, worker>>
    BY <1>2 DEF ReapBack, ReapForward, ReapUncertain
  <2> PICK r \in Renewals : r = order[o].by
    BY <2>1, NobodyRenews
  <2>2. \A p \in Orders \ {o} : order'[p] = order[p]
    BY <1>0, <1>2 DEF ReapBack, ReapForward, ReapUncertain, SetStatus, TypeOK
  <2>3. \A p \in Orders : user[p] = "absent" => user'[p] = "absent"
    BY <1>0, <1>2 DEF ReapBack, ReapForward, ReapUncertain, Applied, TypeOK
  <2>4. /\ \A q \in Renewals \ {r} : op'[q] = op[q]
        /\ op'[r].order = op[r].order /\ op'[r].target = op[r].target
        /\ op'[r].status = "reversed" => user[o] = "absent"
    <3>1. PICK b \in BOOLEAN : b = TRUE
      OBVIOUS
    <3>2. CASE ReapBack(o)
      <4>1. PICK st \in {"reversed", "failed"} : st = IF Paid(r) THEN "reversed" ELSE "failed"
        OBVIOUS
      <4>2. PICK paid \in BOOLEAN : paid = Paid(r)
        BY DEF Paid
      <4> DEFINE mid == [op EXCEPT ![r].status = st]
      <4>3. op' = [mid EXCEPT ![r].repaid = paid]
        BY <3>2, <4>1, <4>2 DEF ReapBack
      <4>4. /\ mid \in [Renewals -> OpRow] /\ \A q \in Renewals \ {r} : mid[q] = op[q]
            /\ mid[r].status = st /\ mid[r].order = op[r].order /\ mid[r].target = op[r].target
        BY <1>0, SMT DEF TypeOK, OpRow, OpStatus
      <4> HIDE DEF mid
      <4>5. /\ \A q \in Renewals \ {r} : op'[q] = op[q]
            /\ op'[r].status = st /\ op'[r].order = op[r].order /\ op'[r].target = op[r].target
        BY <4>3, <4>4, SMT DEF OpRow
      <4>6. Paid(r) => Forward(o)
        BY DEF QuotaInv, QuotaSound, Paid, Forward
      <4> QED
        BY <3>2, <4>1, <4>5, <4>6 DEF ReapBack
    <3>3. CASE ReapForward(o)
      <4> DEFINE mid == [op EXCEPT ![r].applied = b]
      <4>1. op' = [mid EXCEPT ![r].status = "done"]
        BY <3>1, <3>3 DEF ReapForward
      <4>2. /\ mid \in [Renewals -> OpRow] /\ \A q \in Renewals \ {r} : mid[q] = op[q]
            /\ mid[r].order = op[r].order /\ mid[r].target = op[r].target
        BY <1>0, SMT DEF TypeOK, OpRow
      <4> HIDE DEF mid
      <4> QED
        BY <4>1, <4>2, SMT DEF OpRow
    <3>4. CASE ReapUncertain(o)
      <4>1. op' = [op EXCEPT ![r].applied = b] /\ op[r].status = "in_progress"
        BY <2>1, <3>1, <3>4 DEF ReapUncertain, Applied, Stuck
      <4> QED
        BY <1>0, <4>1, OpAppliedSet
    <3> QED
      BY <1>2, <3>2, <3>3, <3>4
  <2> QED
    BY <2>1, <2>2, <2>3, <2>4, ReapQuota
<1> QED
  BY <1>1, <1>2 DEF Reap

LEMMA QuotaNext == NoToggles /\ SalesInv /\ QuotaInv /\ [Next]_vars => QuotaInv'
<1> SUFFICES ASSUME NoToggles, SalesInv, QuotaInv, [Next]_vars PROVE QuotaInv'
  OBVIOUS
<1>0. Kept
  BY SalesNext
<1>1. CASE \E w \in Workers : Start(w) \/ Decline(w) \/ Acquire(w) \/ Proceed(w)
  BY <1>0, <1>1, StartQuota, WorkerQuota
<1>2. CASE \E w \in Workers : Crash(ProcOf[w])
  <2>1. PICK p : Crash(p)
    BY <1>2
  <2>2. PICK W \in SUBSET Workers : W = {w \in Workers : ProcOf[w] = p}
    OBVIOUS
  <2>3. UNCHANGED <<dbVars, user>> /\ \A v \in Workers : worker'[v] = IF v \in W THEN Idle ELSE worker[v]
    BY <2>1, <2>2 DEF Crash
  <2>4. \A w \in W : OwnerSound(w)'
    BY <2>3, IdleTyped DEF OwnerSound, Renewing, At
  <2>5. \A v \in Workers \ W :
           /\ worker'[v] = worker[v]
           /\ Renewing(v) => \/ user[OrderOf(v)] = "absent"
                             \/ /\ order'[OrderOf(v)].status = order[OrderOf(v)].status
                                /\ order'[OrderOf(v)].by = order[OrderOf(v)].by
    BY <2>3 DEF dbVars
  <2> QED
    BY <1>0, <2>3, <2>4, <2>5, QuotaStep DEF dbVars
<1>3. CASE \E o \in Orders : Reap(o) \/ ReapUncertain(o)
  BY <1>0, <1>3, ReaperQuota
<1>4. CASE UNCHANGED vars
  BY <1>4 DEF vars, dbVars, QuotaInv, QuotaSound, OwnerSound, Renewing, At, OrderOf, Renewal
<1> QED
  BY <1>1, <1>2, <1>3, <1>4 DEF Next

\* A renewal whose money came back left no quota on a panel user, whatever interleaves and
\* crashes, as long as no worker pauses or resumes a config: set_enabled takes a renewing
\* order away from its renewal (storefront_lifecycle.py).
THEOREM RefundsLeaveNoQuota ==
    ASSUME NoToggles
    PROVE  Spec => []NoFreeRenewal
<1>1. Init => QuotaInv
  BY IdleTyped DEF Init, QuotaInv, QuotaSound, OwnerSound, Renewing, At
<1>2. SalesInv /\ QuotaInv /\ [Next]_vars => QuotaInv'
  BY QuotaNext
<1>3. SalesInv /\ QuotaInv => NoFreeRenewal
  BY DEF SalesInv, RenewalSound, QuotaInv, QuotaSound, NoFreeRenewal, Renewals
<1> QED
  BY <1>1, <1>2, <1>3, SalesInvariant, PTL DEF Spec

=============================================================================
