---------------------------- MODULE MeteringProofs ----------------------------
(***************************************************************************)
(* Metering, proved for every number of users, syncs and days, whatever is *)
(* sold, every tolerance and threshold, and every world of the kinds that  *)
(* the theorems name.                                                      *)
(*                                                                         *)
(* A user is followed along the chain from its snapshot over the fetch     *)
(* under way to the panel: each link is what can have happened since.  A   *)
(* write moves the snapshot one link on, and every other fetch is late     *)
(* from then on, so that links never have to be joined.                    *)
(***************************************************************************)
EXTENDS Metering, FiniteSetTheorems, WellFoundedInduction, TLAPS

-----------------------------------------------------------------------------
(* Types.                                                                  *)

History ==
    /\ world \in Worlds /\ ops \in Nat /\ blind \subseteq Users /\ twice \subseteq Users
    /\ sold \in [Users -> Nat] /\ excess \in [Users -> Nat] /\ again \in [Users -> Nat]
    /\ closed \in [Users -> [Months -> Nat]]
    /\ Month \in Months
Typed == TypeOK /\ History

LEMMA MonthsAreNumbers ==
    \A d \in Nat : MonthOf(d) \in Nat
<1>1. SUFFICES ASSUME NEW d \in Nat PROVE MonthOf(d) \in Nat
    OBVIOUS
<1>2. MonthLen \in Nat /\ MonthLen > 0
    BY DaysAssumption
<1>. QED BY <1>1, <1>2 DEF MonthOf

LEMMA DivisionGrows ==
    ASSUME NEW n \in Nat, n > 0, NEW a \in Nat, NEW b \in Nat, a <= b
    PROVE  a \div n <= b \div n
OBVIOUS

LEMMA DaysHaveMonths ==
    \A d \in 1..MaxDay : MonthOf(d) \in Months
<1>1. SUFFICES ASSUME NEW d \in 1..MaxDay PROVE MonthOf(d) \in Months
    OBVIOUS
<1>2. MonthLen \in Nat /\ MonthLen > 0 /\ MaxDay \in Nat
    BY DaysAssumption
<1>3. MonthOf(d) <= MonthOf(MaxDay)
    BY <1>2, DivisionGrows DEF MonthOf
<1>4. MonthOf(d) >= 1
  <2>1. MonthLen \div MonthLen <= (d + MonthLen - 1) \div MonthLen
    BY <1>2, DivisionGrows
  <2>2. MonthLen \div MonthLen = 1
    BY <1>2
  <2>. QED BY <1>2, <2>1, <2>2 DEF MonthOf
<1>. QED BY <1>2, <1>3, <1>4, MonthsAreNumbers DEF Months

LEMMA StartsTyped == ASSUME Init PROVE Typed
<1>1. 1 \in 1..MaxDay
  BY DaysAssumption
<1>2. NoMeter \in Meter
  BY DEF NoMeter, Meter
<1>3. Month \in Months
  BY <1>1, DaysHaveMonths DEF Init, Month
<1> QED BY <1>1, <1>2, <1>3 DEF Init, Typed, TypeOK, History

\* The ways an operation changes the variables of the panel.
PanelStep ==
    /\ ops' \in Nat
    /\ panel' \in [Users -> PanelUser \cup {None}]
    /\ backup' \in [Users -> PanelUser \cup {None}] \cup {None}
    /\ sold' \in [Users -> Nat] /\ excess' \in [Users -> Nat] /\ again' \in [Users -> Nat]
    /\ closed' \in [Users -> [Months -> Nat]]

LEMMA PanelKeepsTypes == ASSUME Typed, PanelStep, Quiet PROVE Typed'
<1>1. Month' = Month /\ Months' = Months
  BY DEF Quiet, Month, Months, MonthOf
<1> QED BY <1>1 DEF Typed, TypeOK, History, PanelStep, Quiet

LEMMA Differences ==
    \A a, b \in Nat : Minus(a, b) \in Nat /\ Least(a, b) \in Nat
BY DEF Minus, Least

LEMMA OnCounts == \A op : ops \in Nat /\ On(op) => ops' \in Nat
BY DEF On

LEMMA PanelFields ==
    \A p \in PanelUser :
        /\ p.limit \in Nat /\ p.used \in Nat /\ p.start \in 0..MaxDay /\ p.plan \in Nat /\ p.spent \in Nat
        /\ p.quota \in Nat /\ p.repeat \in Nat /\ p.restores \in Nat /\ p.dirty \in BOOLEAN
BY DEF PanelUser

LEMMA FreshTyped ==
    \A gb, used \in Nat, start \in 0..MaxDay : Fresh(gb, used, start) \in PanelUser
BY DEF Fresh, PanelUser

LEMMA SizesAreNumbers == \A gb \in Sizes : gb \in Nat
BY SizesAssumption

LEMMA CreateTyped ==
    ASSUME Typed, NEW u \in Users, NEW gb \in Sizes, Create(u, gb) PROVE PanelStep
<1>1. Fresh(gb, 0, 0) \in PanelUser /\ gb \in Nat
  BY FreshTyped, SizesAreNumbers, DaysAssumption
<1> QED BY <1>1 DEF Create, PanelStep, Typed, TypeOK, History, Same

LEMMA ConsumeTyped ==
    ASSUME Typed, NEW u \in Users, Consume(u) PROVE PanelStep
<1> DEFINE p == panel[u]
           beyond == IF p.spent + 1 > p.quota THEN 1 ELSE 0
           q == [p EXCEPT !.used = @ + 1, !.spent = @ + 1, !.repeat = Minus(@, 1), !.start = IF @ = 0 THEN day ELSE @]
<1>1. p \in PanelUser /\ beyond \in Nat /\ day \in 0..MaxDay
  BY DEF Consume, OnPanel, Typed, TypeOK
<1>7. p.repeat \in Nat /\ p.used + 1 \in Nat /\ p.spent + 1 \in Nat
  BY <1>1, PanelFields
<1>2. Minus(p.repeat, 1) \in Nat
  BY <1>7, Differences
<1>3. q \in PanelUser
  BY <1>1, <1>2, <1>7 DEF PanelUser
<1>4. panel' = [panel EXCEPT ![u] = q] /\ ops' \in Nat
  BY DEF Consume, On, Typed, History
<1>5. excess' \in [Users -> Nat] /\ again' \in [Users -> Nat]
  BY <1>1 DEF Consume, Typed, History
<1>6. panel' \in [Users -> PanelUser \cup {None}]
  BY <1>3, <1>4 DEF Typed, TypeOK
<1> QED BY <1>4, <1>5, <1>6 DEF Consume, PanelStep, Typed, TypeOK, History, Same

LEMMA ResetTyped ==
    ASSUME Typed, NEW u \in Users, ResetUsage(u) PROVE PanelStep
<1>1. panel[u] \in PanelUser
  BY DEF ResetUsage, OnPanel, Typed, TypeOK
<1>2. [[panel[u] EXCEPT !.used = 0] EXCEPT !.dirty = TRUE] \in PanelUser
  BY <1>1 DEF PanelUser
<1>3. panel' = [panel EXCEPT ![u] = [[panel[u] EXCEPT !.used = 0] EXCEPT !.dirty = TRUE]]
  BY DEF ResetUsage, Typed, TypeOK
<1>4. panel' \in [Users -> PanelUser \cup {None}]
  BY <1>2, <1>3 DEF Typed, TypeOK
<1> QED BY <1>4, OnCounts DEF ResetUsage, PanelStep, Typed, TypeOK, History, Same

LEMMA EditTyped ==
    ASSUME Typed, NEW u \in Users, EditQuota(u) PROVE PanelStep
<1>1. panel[u] \in PanelUser
  BY DEF EditQuota, OnPanel, Typed, TypeOK
<1>2. panel[u].limit + 1 \in Nat /\ panel[u].quota + 1 \in Nat
  BY <1>1, PanelFields
<1>5. [panel[u] EXCEPT !.limit = @ + 1, !.quota = @ + 1] \in PanelUser
  BY <1>1, <1>2 DEF PanelUser
<1>3. panel' = [panel EXCEPT ![u] = [panel[u] EXCEPT !.limit = @ + 1, !.quota = @ + 1]]
  BY DEF EditQuota, Typed, TypeOK
<1>4. panel' \in [Users -> PanelUser \cup {None}] /\ sold' \in [Users -> Nat]
  BY <1>5, <1>3 DEF Typed, TypeOK, History, EditQuota
<1> QED BY <1>4, OnCounts DEF EditQuota, PanelStep, Typed, TypeOK, History, Same

LEMMA ClosingTyped == ASSUME Typed, NEW u \in Users PROVE Closing(u) \in Nat
<1>1. CASE snap[u] # None
  <2>1. snap[u].cons \in Nat /\ snap[u].prov \in Nat
    BY <1>1 DEF Typed, TypeOK, Snapshot
  <2> QED BY <2>1, Differences DEF Closing
<1> QED BY <1>1 DEF Closing

LEMMA RenewTyped ==
    ASSUME Typed, NEW u \in Users, NEW gb \in Nat, NEW used \in Nat, NEW start \in 0..MaxDay,
           panel[u] # None, ops' \in Nat, Renew(u, gb, used, start)
    PROVE  PanelStep
<1>1. panel[u] \in PanelUser /\ Fresh(gb, used, start) \in PanelUser
  BY FreshTyped DEF Typed, TypeOK
<1>2. [Fresh(gb, used, start) EXCEPT !.restores = panel[u].restores] \in PanelUser
  BY <1>1 DEF PanelUser
<1>3. panel' \in [Users -> PanelUser \cup {None}]
  BY <1>2 DEF Typed, TypeOK, Renew
<1>4. sold' \in [Users -> Nat]
  BY DEF Typed, History, Renew
<1>5. closed' \in [Users -> [Months -> Nat]]
  BY ClosingTyped DEF Typed, History, Renew
<1> QED BY <1>3, <1>4, <1>5 DEF Renew, PanelStep, Typed, TypeOK, History, Same

LEMMA RenewalsTyped ==
    ASSUME Typed, NEW u \in Users, NEW gb \in Sizes,
           RenewTarget(u, gb) \/ RenewButton(u, gb) \/ RenewCarry(u, gb)
    PROVE  PanelStep
<1>0. gb \in Nat /\ day \in 0..MaxDay /\ 0 \in 0..MaxDay
  BY SizesAreNumbers, DaysAssumption DEF Typed, TypeOK
<1>6. panel[u] # None
  BY DEF RenewTarget, RenewButton, RenewCarry, OnPanel
<1>1. gb \in Nat /\ day \in 0..MaxDay /\ 0 \in 0..MaxDay /\ panel[u] # None
  BY <1>0, <1>6
<1>2. panel[u].used \in Nat /\ ops' \in Nat
  BY <1>1, OnCounts DEF Typed, TypeOK, History, PanelUser, RenewTarget, RenewButton, RenewCarry
<1>3. CASE RenewTarget(u, gb)
  BY <1>1, <1>2, <1>3, RenewTyped DEF RenewTarget
<1>4. CASE RenewButton(u, gb)
  BY <1>1, <1>2, <1>4, RenewTyped DEF RenewButton
<1>5. CASE RenewCarry(u, gb)
  BY <1>1, <1>2, <1>5, RenewTyped DEF RenewCarry
<1> QED BY <1>3, <1>4, <1>5

LEMMA DeleteTyped ==
    ASSUME Typed, NEW u \in Users, DeleteUser(u) PROVE PanelStep
<1>1. panel' \in [Users -> PanelUser \cup {None}]
  BY DEF DeleteUser, Typed, TypeOK
<1> QED BY <1>1, OnCounts DEF DeleteUser, PanelStep, Typed, TypeOK, History, Same

LEMMA BackUpTyped == ASSUME Typed, BackUp PROVE PanelStep
BY OnCounts DEF BackUp, PanelStep, Typed, TypeOK, History

LEMMA RestoreTyped == ASSUME Typed, RestorePanel PROVE PanelStep
<1>1. ops' \in Nat /\ backup \in [Users -> PanelUser \cup {None}]
  BY OnCounts DEF RestorePanel, Typed, TypeOK, History
<1>2. ASSUME NEW u \in Users PROVE Rewound(u) \in PanelUser \cup {None}
  <2> DEFINE was == panel[u]
             then == backup[u]
  <2>1. was \in PanelUser \cup {None} /\ then \in PanelUser \cup {None}
    BY <1>1 DEF Typed, TypeOK
  <2>2. CASE then = None
    BY <2>2 DEF Rewound
  <2>3. CASE then # None /\ (was = None \/ was.start # then.start)
    <3>1. [then EXCEPT !.restores = ops', !.dirty = TRUE] \in PanelUser
      BY <1>1, <2>1, <2>3 DEF PanelUser
    <3> QED BY <2>3, <3>1 DEF Rewound
  <2>4. CASE then # None /\ was # None /\ was.start = then.start
    <3>3. was.used \in Nat /\ then.used \in Nat /\ was.repeat \in Nat /\ then.limit \in Nat
      BY <2>1, <2>4, PanelFields
    <3>4. Minus(was.used, then.used) \in Nat
      BY <3>3, Differences
    <3>1. was.repeat + Minus(was.used, then.used) \in Nat
      BY <3>3, <3>4
    <3>2. [was EXCEPT !.limit = then.limit, !.used = then.used, !.restores = ops',
                      !.repeat = @ + Minus(was.used, then.used)] \in PanelUser
      BY <1>1, <2>1, <2>4, <3>1, <3>3 DEF PanelUser
    <3> QED BY <2>4, <3>2 DEF Rewound
  <2> QED BY <2>2, <2>3, <2>4
<1>3. panel' \in [Users -> PanelUser \cup {None}]
  BY <1>2 DEF RestorePanel
<1> QED BY <1>1, <1>3 DEF RestorePanel, PanelStep, Typed, TypeOK, History

LEMMA SnapshotFields ==
    \A s \in Snapshot :
        /\ s.limit \in Nat /\ s.used \in Nat /\ s.start \in 0..MaxDay /\ s.prov \in Nat /\ s.cons \in Nat
        /\ s.init \in BOOLEAN /\ s.here \in BOOLEAN /\ s.plan \in Nat /\ s.restores \in Nat
        /\ s.dirty \in BOOLEAN
BY DEF Snapshot

Outcome == [prov : Nat, cons : Nat, meter : Meter]

\* What a measurement adds up, without its meter.
Back(s, p, rollback) == rollback /\ p.used < s.used
Zeroed(s, p, rollback) == ~Back(s, p, rollback) /\ p.used < s.used /\ p.used <= ResetFloor
Before(s, p, rollback) == IF Back(s, p, rollback) THEN Minus(s.cons, s.used - p.used) ELSE s.cons
Since(s, p, rollback) ==
    IF Back(s, p, rollback) THEN 0 ELSE IF Zeroed(s, p, rollback) THEN p.used ELSE Minus(p.used, s.used)

LEMMA ResetFloorIsANumber == ResetFloor \in Nat
BY ThresholdsAssumption

LEMMA PartsTyped ==
    ASSUME NEW s \in Snapshot, NEW p \in PanelUser, NEW rollback \in BOOLEAN
    PROVE  Before(s, p, rollback) \in Nat /\ Since(s, p, rollback) \in Nat
<1>1. s.cons \in Nat /\ s.used \in Nat /\ p.used \in Nat
  BY SnapshotFields, PanelFields
<1>2. Minus(p.used, s.used) \in Nat
  BY <1>1, Differences
<1>3. CASE Back(s, p, rollback)
  <2>1. s.used - p.used \in Nat
    BY <1>1, <1>3 DEF Back
  <2>2. Minus(s.cons, s.used - p.used) \in Nat
    BY <1>1, <2>1, Differences
  <2> QED BY <1>3, <2>2 DEF Before, Since
<1>4. CASE ~Back(s, p, rollback)
  BY <1>1, <1>2, <1>4 DEF Before, Since
<1> QED BY <1>3, <1>4

LEMMA MeasuredIs ==
    ASSUME NEW s, NEW p, NEW m, NEW rollback
    PROVE  Measured(s, p, m, rollback) =
             Result(s.prov + Minus(p.limit, s.limit), Before(s, p, rollback) + Since(s, p, rollback),
                    [m EXCEPT !.edit = @ + (IF MonthOf(p.start) = Month THEN 0 ELSE Minus(p.limit, s.limit)),
                              !.resets = @ + (IF Zeroed(s, p, rollback) THEN 1 ELSE 0),
                              !.over = @ + Minus(Since(s, p, rollback),
                                    Minus(s.prov + Minus(p.limit, s.limit), Before(s, p, rollback)))])
BY DEF Measured, Before, Since, Zeroed, Back

LEMMA MeasuredTyped ==
    ASSUME NEW s \in Snapshot, NEW p \in PanelUser, NEW m \in Meter, NEW rollback \in BOOLEAN
    PROVE  Measured(s, p, m, rollback) \in Outcome
<1> DEFINE add == Minus(p.limit, s.limit)
           before == Before(s, p, rollback)
           since == Since(s, p, rollback)
           edit == m.edit + (IF MonthOf(p.start) = Month THEN 0 ELSE add)
           resets == m.resets + (IF Zeroed(s, p, rollback) THEN 1 ELSE 0)
           over == m.over + Minus(since, Minus(s.prov + add, before))
<1>1. s.limit \in Nat /\ s.prov \in Nat /\ p.limit \in Nat
  BY SnapshotFields, PanelFields
<1>2. add \in Nat
  BY <1>1, Differences
<1>3. before \in Nat /\ since \in Nat
  BY PartsTyped
<1>4. m.edit \in Nat /\ m.resets \in Nat /\ m.over \in Nat
  BY DEF Meter
<1> HIDE DEF add, before, since
<1>9. s.prov + add \in Nat /\ before + since \in Nat
  BY <1>1, <1>2, <1>3
<1>5. Minus(s.prov + add, before) \in Nat
  BY <1>3, <1>9, Differences
<1>6. Minus(since, Minus(s.prov + add, before)) \in Nat
  BY <1>3, <1>5, Differences
<1>7. edit \in Nat /\ resets \in Nat /\ over \in Nat
  BY <1>2, <1>4, <1>6
<1> HIDE DEF edit, resets, over
<1>8. [m EXCEPT !.edit = edit, !.resets = resets, !.over = over] \in Meter
  BY <1>7 DEF Meter
<1>10. Measured(s, p, m, rollback)
        = Result(s.prov + add, before + since, [m EXCEPT !.edit = edit, !.resets = resets, !.over = over])
  BY MeasuredIs DEF add, before, since, edit, resets, over
<1> QED BY <1>8, <1>9, <1>10 DEF Result, Outcome

LEMMA RenewalTyped ==
    ASSUME NEW s \in Snapshot, NEW p \in PanelUser, NEW m \in Meter
    PROVE  Renewal(s, p, m) \in Outcome
<1> DEFINE banked == IF p.used < s.used /\ MonthOf(s.start) = Month THEN Least(s.cons, s.prov) ELSE 0
<1>1. p.limit \in Nat /\ p.used \in Nat /\ s.cons \in Nat /\ s.prov \in Nat
  BY SnapshotFields, PanelFields
<1>2. banked \in Nat
  BY <1>1, Differences
<1> HIDE DEF banked
<1>5. m.renew + banked \in Nat
  BY <1>2 DEF Meter
<1>3. [m EXCEPT !.renew = @ + banked, !.edit = 0] \in Meter
  BY <1>5 DEF Meter
<1>4. Renewal(s, p, m) = Result(p.limit, p.used, [m EXCEPT !.renew = @ + banked, !.edit = 0])
  BY DEF Renewal, banked
<1> QED BY <1>1, <1>3, <1>4 DEF Result, Outcome

LEMMA ComputeTyped ==
    ASSUME NEW s \in Snapshot, NEW p \in PanelUser, NEW m \in Meter, NEW rollback \in BOOLEAN
    PROVE  Compute(s, p, m, rollback) \in Outcome
<1>1. p.limit \in Nat /\ p.used \in Nat
  BY PanelFields
<1>2. Result(p.limit, p.used, m) \in Outcome
  BY <1>1 DEF Result, Outcome
<1> QED BY <1>2, RenewalTyped, MeasuredTyped DEF Compute

LEMMA StoredTyped ==
    ASSUME NEW s \in Snapshot, NEW p \in PanelUser, NEW r \in Outcome
    PROVE  Stored(s, p, r) \in Snapshot /\ Unmetered(s, p) \in Snapshot
BY DEF Stored, Unmetered, Snapshot, PanelUser, Outcome

LEMMA NewSnapshotTyped == NewSnapshot \in Snapshot
BY DaysAssumption DEF NewSnapshot, Snapshot

\* What a write works with.
Data(a) == fetched[a].data
Was(u) == IF snap[u] = None THEN NewSnapshot ELSE snap[u]
Found(a) == {u \in Users : Data(a)[u] # None}
Outturn(a, u) == Compute(Was(u), Data(a)[u], meter[u][Month], PanelRollback(Data(a)))

LEMMA WriteIs ==
    ASSUME NEW a, NEW failing, Write(a, failing)
    PROVE  /\ fetched[a] # None /\ ~fetched[a].late /\ failing \subseteq Found(a)
           /\ snap' = [u \in Users |->
                         IF u \in failing THEN Unmetered(Was(u), Data(a)[u])
                         ELSE IF u \in Found(a) THEN Stored(Was(u), Data(a)[u], Outturn(a, u))
                         ELSE IF snap[u] = None THEN None ELSE [snap[u] EXCEPT !.here = FALSE]]
           /\ meter' = [u \in Users |-> IF u \in Found(a) \ failing
                                        THEN [meter[u] EXCEPT ![Month] = Outturn(a, u).meter] ELSE meter[u]]
           /\ blind' = blind \cup {u \in Users : Moved(u, Data(a))
                                       /\ ~(PanelRollback(Data(a)) /\ u \in Dropped(Data(a)))}
           /\ twice' = twice \cup {u \in Users : Straddles(u, Data(a))}
           /\ fetched' = [b \in Attempts |-> IF b = a \/ fetched[b] = None THEN None
                                             ELSE [fetched[b] EXCEPT !.late = TRUE]]
           /\ UNCHANGED <<day, bill, world, panelVars>>
<1> DEFINE was == [u \in Users |-> IF snap[u] = None THEN NewSnapshot ELSE snap[u]]
           found == {u \in Users : fetched[a].data[u] # None}
           result == [u \in found |-> Compute(was[u], fetched[a].data[u], meter[u][Month], PanelRollback(fetched[a].data))]
<1>1. \A u \in Users : was[u] = Was(u)
  BY DEF Was
<1>2. found = Found(a)
  BY DEF Found, Data
<1>3. \A u \in found : result[u] = Outturn(a, u)
  BY <1>1 DEF Outturn, Data
<1> HIDE DEF was, found, result
<1>4. /\ fetched[a] # None /\ ~fetched[a].late /\ failing \subseteq found
      /\ fetched' = [b \in Attempts |-> IF b = a \/ fetched[b] = None THEN None
                                        ELSE [fetched[b] EXCEPT !.late = TRUE]]
      /\ UNCHANGED <<day, bill, world, panelVars>>
  BY DEF Write, Superseded, found
<1>5. snap' = [u \in Users |->
                 IF u \in failing THEN Unmetered(was[u], fetched[a].data[u])
                 ELSE IF u \in found THEN Stored(was[u], fetched[a].data[u], result[u])
                 ELSE IF snap[u] = None THEN None ELSE [snap[u] EXCEPT !.here = FALSE]]
  BY DEF Write, was, found, result
<1>6. meter' = [u \in Users |-> IF u \in found \ failing
                               THEN [meter[u] EXCEPT ![Month] = result[u].meter] ELSE meter[u]]
  BY DEF Write, was, found, result
<1>7. blind' = blind \cup {u \in Users : Moved(u, Data(a)) /\ ~(PanelRollback(Data(a)) /\ u \in Dropped(Data(a)))}
  BY DEF Write, Data
<1>8. twice' = twice \cup {u \in Users : Straddles(u, Data(a))}
  BY DEF Write, Data
<1>9. snap' = [u \in Users |->
                 IF u \in failing THEN Unmetered(Was(u), Data(a)[u])
                 ELSE IF u \in Found(a) THEN Stored(Was(u), Data(a)[u], Outturn(a, u))
                 ELSE IF snap[u] = None THEN None ELSE [snap[u] EXCEPT !.here = FALSE]]
  BY <1>1, <1>2, <1>3, <1>5 DEF Data
<1>10. meter' = [u \in Users |-> IF u \in Found(a) \ failing
                                THEN [meter[u] EXCEPT ![Month] = Outturn(a, u).meter] ELSE meter[u]]
  BY <1>2, <1>3, <1>6
<1> QED BY <1>2, <1>4, <1>7, <1>8, <1>9, <1>10

LEMMA SnapAfter ==
    ASSUME NEW a, NEW failing, Write(a, failing), NEW v \in Users
    PROVE  snap'[v] = IF v \in failing THEN Unmetered(Was(v), Data(a)[v])
                      ELSE IF v \in Found(a) THEN Stored(Was(v), Data(a)[v], Outturn(a, v))
                      ELSE IF snap[v] = None THEN None ELSE [snap[v] EXCEPT !.here = FALSE]
<1>1. snap' = [u \in Users |->
                IF u \in failing THEN Unmetered(Was(u), Data(a)[u])
                ELSE IF u \in Found(a) THEN Stored(Was(u), Data(a)[u], Outturn(a, u))
                ELSE IF snap[u] = None THEN None ELSE [snap[u] EXCEPT !.here = FALSE]]
  BY WriteIs
<1> QED BY <1>1

LEMMA ReadsTyped ==
    ASSUME Typed, NEW a \in Attempts, fetched[a] # None
    PROVE  /\ Data(a) \in [Users -> PanelUser \cup {None}] /\ fetched[a].late \in BOOLEAN
           /\ \A u \in Found(a) : u \in Users /\ Data(a)[u] \in PanelUser
<1>1. fetched[a] \in [data : [Users -> PanelUser \cup {None}], late : BOOLEAN]
  BY DEF Typed, TypeOK
<1>2. Data(a) \in [Users -> PanelUser \cup {None}] /\ fetched[a].late \in BOOLEAN
  BY <1>1 DEF Data
<1> QED BY <1>2 DEF Found

LEMMA WasTyped == ASSUME Typed, NEW u \in Users PROVE Was(u) \in Snapshot
BY NewSnapshotTyped DEF Was, Typed, TypeOK

LEMMA OutturnTyped ==
    ASSUME Typed, NEW a \in Attempts, fetched[a] # None, NEW u \in Found(a)
    PROVE  Outturn(a, u) \in Outcome
<1>1. u \in Users /\ Data(a)[u] \in PanelUser /\ Was(u) \in Snapshot
  BY ReadsTyped, WasTyped
<1>2. meter[u][Month] \in Meter
  BY <1>1 DEF Typed, TypeOK, History
<1>3. PanelRollback(Data(a)) \in BOOLEAN
  BY DEF PanelRollback
<1> QED BY <1>1, <1>2, <1>3, ComputeTyped DEF Outturn

LEMMA WriteTyped ==
    ASSUME Typed, NEW a \in Attempts, NEW failing, Write(a, failing) PROVE Typed'
<1>1. /\ fetched[a] # None /\ failing \subseteq Found(a) /\ Found(a) \subseteq Users
      /\ UNCHANGED <<day, bill, world, panelVars>>
  BY WriteIs, ReadsTyped
<1>2. \A u \in Found(a) : Outturn(a, u) \in Outcome /\ Data(a)[u] \in PanelUser /\ Was(u) \in Snapshot
  BY <1>1, OutturnTyped, ReadsTyped, WasTyped
<1>3. snap' \in [Users -> Snapshot \cup {None}]
  <2>1. ASSUME NEW u \in Users, snap[u] # None PROVE [snap[u] EXCEPT !.here = FALSE] \in Snapshot
    <3>1. snap[u] \in Snapshot
      BY <2>1 DEF Typed, TypeOK
    <3> QED BY <3>1 DEF Snapshot
  <2>2. \A u \in Found(a) : Stored(Was(u), Data(a)[u], Outturn(a, u)) \in Snapshot
                           /\ Unmetered(Was(u), Data(a)[u]) \in Snapshot
    BY <1>2, StoredTyped
  <2>3. snap' = [u \in Users |->
                  IF u \in failing THEN Unmetered(Was(u), Data(a)[u])
                  ELSE IF u \in Found(a) THEN Stored(Was(u), Data(a)[u], Outturn(a, u))
                  ELSE IF snap[u] = None THEN None ELSE [snap[u] EXCEPT !.here = FALSE]]
    BY WriteIs
  <2> QED BY <1>1, <2>1, <2>2, <2>3
<1>4. meter' \in [Users -> [Months -> Meter]]
  <2>1. \A u \in Found(a) : Outturn(a, u).meter \in Meter
    BY <1>2 DEF Outcome
  <2>2. meter \in [Users -> [Months -> Meter]]
    BY DEF Typed, TypeOK
  <2>3. \A u \in Found(a) : [meter[u] EXCEPT ![Month] = Outturn(a, u).meter] \in [Months -> Meter]
    BY <1>1, <2>1, <2>2
  <2>4. meter' = [u \in Users |-> IF u \in Found(a) \ failing
                                THEN [meter[u] EXCEPT ![Month] = Outturn(a, u).meter] ELSE meter[u]]
    BY WriteIs
  <2> QED BY <2>2, <2>3, <2>4
<1>5. blind' \subseteq Users /\ twice' \subseteq Users
  BY WriteIs DEF Typed, History
<1>6. fetched' \in [Attempts -> {None} \cup [data : [Users -> PanelUser \cup {None}], late : BOOLEAN]]
  <2>1. ASSUME NEW b \in Attempts, fetched[b] # None
        PROVE  [fetched[b] EXCEPT !.late = TRUE] \in [data : [Users -> PanelUser \cup {None}], late : BOOLEAN]
    <3>1. fetched[b] \in [data : [Users -> PanelUser \cup {None}], late : BOOLEAN]
      BY <2>1 DEF Typed, TypeOK
    <3> QED BY <3>1
  <2>2. fetched' = [b \in Attempts |-> IF b = a \/ fetched[b] = None THEN None
                                     ELSE [fetched[b] EXCEPT !.late = TRUE]]
    BY WriteIs
  <2> QED BY <2>1, <2>2
<1>7. Month' = Month /\ Months' = Months
  BY <1>1 DEF Month, Months, MonthOf
<1> QED BY <1>1, <1>3, <1>4, <1>5, <1>6, <1>7 DEF Typed, TypeOK, History, panelVars

LEMMA FetchTyped == ASSUME Typed, NEW a \in Attempts, Fetch(a) PROVE Typed'
<1>1. [data |-> panel, late |-> FALSE] \in [data : [Users -> PanelUser \cup {None}], late : BOOLEAN]
  BY DEF Typed, TypeOK
<1>2. fetched' \in [Attempts -> {None} \cup [data : [Users -> PanelUser \cup {None}], late : BOOLEAN]]
  BY <1>1 DEF Fetch, Typed, TypeOK
<1>3. Month' = Month /\ Months' = Months
  BY DEF Fetch, Month, Months, MonthOf
<1> QED BY <1>2, <1>3 DEF Fetch, Typed, TypeOK, History, panelVars

LEMMA SupersedeTyped == ASSUME Typed, NEW a \in Attempts, Supersede(a) PROVE Typed'
<1>1. fetched' \in [Attempts -> {None} \cup [data : [Users -> PanelUser \cup {None}], late : BOOLEAN]]
  BY DEF Supersede, Typed, TypeOK
<1>2. Month' = Month /\ Months' = Months
  BY DEF Supersede, Month, Months, MonthOf
<1> QED BY <1>1, <1>2 DEF Supersede, Typed, TypeOK, History, panelVars

LEMMA MidnightTyped == ASSUME Typed, Midnight PROVE Typed'
<1>1. day' \in 1..MaxDay
  BY DaysAssumption DEF Midnight, Typed, TypeOK
<1>2. Month' \in Months /\ Months' = Months
  BY <1>1, DaysHaveMonths DEF Month, MonthOf, Months
<1> QED BY <1>1, <1>2 DEF Midnight, Typed, TypeOK, History, panelVars

LEMMA BillsTyped ==
    ASSUME Typed, NEW u \in Users, NEW m \in Months
    PROVE  BillableGb(u, m) + ExtraGb(u, m) \in Nat
<1>1. meter[u][m] \in Meter
  BY DEF Typed, TypeOK
<1>2. meter[u][m].over \in Nat /\ meter[u][m].edit \in Nat /\ meter[u][m].renew \in Nat
  BY <1>1 DEF Meter
<1>3. ExtraGb(u, m) \in Nat
  BY <1>2 DEF ExtraGb
<1>4. BillableGb(u, m) \in Nat
  <2>1. CASE snap[u] = None
    BY <2>1 DEF BillableGb
  <2>2. CASE snap[u] # None
    <3>1. snap[u].limit \in Nat /\ snap[u].plan \in Nat /\ snap[u].used \in Nat
      BY <2>2, SnapshotFields DEF Typed, TypeOK
    <3>2. Quota(u) \in Nat
      BY <3>1, Differences DEF Quota
    <3> QED BY <3>1, <3>2 DEF BillableGb
  <2> QED BY <2>1, <2>2
<1> QED BY <1>3, <1>4

LEMMA GenerateTyped == ASSUME Typed, NEW m \in Months, Generate(m) PROVE Typed'
<1>1. [u \in Users |-> BillableGb(u, m) + ExtraGb(u, m)] \in [Users -> Nat]
  BY BillsTyped
<1>2. bill' \in [Months -> [Users -> Nat] \cup {None}]
  BY <1>1 DEF Generate, Typed, TypeOK
<1>3. Month' = Month /\ Months' = Months
  BY DEF Generate, Month, Months, MonthOf
<1> QED BY <1>2, <1>3 DEF Generate, Typed, TypeOK, History, panelVars

LEMMA TypesKept == ASSUME Typed, [Next]_vars PROVE Typed'
<1>1. ASSUME NEW u \in Users, OnUser(u) PROVE Typed'
  <2>1. PanelStep
    BY <1>1, CreateTyped, ConsumeTyped, ResetTyped, EditTyped, RenewalsTyped, DeleteTyped DEF OnUser
  <2>2. Quiet
    BY <1>1 DEF OnUser, Create, Consume, ResetUsage, EditQuota, RenewTarget, RenewButton, RenewCarry, Renew,
                DeleteUser, Same
  <2> QED BY <2>1, <2>2, PanelKeepsTypes
<1>2. CASE BackUp \/ RestorePanel
  <2>1. PanelStep /\ Quiet
    BY <1>2, BackUpTyped, RestoreTyped DEF BackUp, RestorePanel
  <2> QED BY <2>1, PanelKeepsTypes
<1>3. CASE Midnight
  BY <1>3, MidnightTyped
<1>4. ASSUME NEW a \in Attempts, Fetch(a) \/ WriteSync(a) \/ Supersede(a) PROVE Typed'
  BY <1>4, FetchTyped, WriteTyped, SupersedeTyped DEF WriteSync
<1>5. ASSUME NEW m \in Months, Generate(m) PROVE Typed'
  BY <1>5, GenerateTyped
<1>6. CASE UNCHANGED vars
  <2>1. Month' = Month /\ Months' = Months
    BY <1>6 DEF vars, Month, Months, MonthOf
  <2> QED BY <1>6, <2>1 DEF vars, panelVars, Typed, TypeOK, History
<1> QED BY <1>1, <1>2, <1>3, <1>4, <1>5, <1>6 DEF Next

\* Every snapshot, meter, fetch and bill keeps its type, whatever the panel does.
THEOREM MeteringTypesHold == Spec => []Typed
<1>1. Init => Typed
  BY StartsTyped
<1>2. Typed /\ [Next]_vars => Typed'
  BY TypesKept
<1> QED BY <1>1, <1>2, PTL DEF Spec

-----------------------------------------------------------------------------
(* No usage is lost: what is banked is the stored counter.                 *)

\* No cycle is renewed on the day it began, and where backups are restored none is renewed.
RestoresApart ==
    /\ "renew same day" \notin world
    /\ "backup" \in world => world \cap {"renew", "button", "carry", "carry over"} = {}

LEMMA WorldStays == ASSUME [Next]_vars PROVE world' = world
<1>1. ASSUME NEW u \in Users, OnUser(u) PROVE world' = world
  BY <1>1 DEF OnUser, Create, Consume, ResetUsage, EditQuota, RenewTarget, RenewButton, RenewCarry, Renew,
              DeleteUser, Same, Quiet
<1>2. ASSUME NEW a \in Attempts, Fetch(a) \/ WriteSync(a) \/ Supersede(a) PROVE world' = world
  BY <1>2, WriteIs DEF Fetch, WriteSync, Supersede
<1>3. CASE BackUp \/ RestorePanel \/ Midnight \/ \E m \in Months : Generate(m)
  BY <1>3 DEF BackUp, RestorePanel, Midnight, Generate, Quiet
<1>4. CASE UNCHANGED vars
  BY <1>4 DEF vars
<1> QED BY <1>1, <1>2, <1>3, <1>4 DEF Next

\* p is a later state of the user that s shows, on day d.
Mark(s) ==
    /\ s.limit \in Nat /\ s.used \in Nat /\ s.start \in Nat /\ s.restores \in Nat /\ s.dirty \in BOOLEAN
LaterRestored(s, p) ==
    /\ s.dirty => p.dirty
    /\ p.dirty \/ s.start = 0 \/ (p.start = s.start /\ (p.used >= s.used \/ s.restores < p.restores))
LaterRenewed(s, p, d) ==
    s.start # 0 =>
        \/ p.start = 0 /\ s.start < d
        \/ p.start > s.start
        \/ /\ p.start = s.start /\ p.limit >= s.limit
           /\ s.dirty => p.dirty
           /\ p.dirty \/ p.used >= s.used
Later(s, p, d) ==
    /\ s.restores <= p.restores
    /\ IF "backup" \in world THEN LaterRestored(s, p) ELSE LaterRenewed(s, p, d)

Known(u) == snap[u] # None /\ snap[u].init
Current(a) == fetched[a] # None /\ ~fetched[a].late
Sees(a, u) == Data(a)[u] # None

\* A user that was not sold anything is nowhere yet.
Unborn(u) ==
    sold[u] = 0 =>
        /\ panel[u] = None /\ \A a \in Attempts : fetched[a] # None => ~Sees(a, u)
        /\ backup # None => backup[u] = None
\* The snapshot, the fetch under way and the panel show a user in this order.
Chained(u) ==
    /\ panel[u] # None => panel[u].restores <= ops
    /\ snap[u] # None => snap[u].restores <= ops
    /\ Known(u) /\ panel[u] # None => Later(snap[u], panel[u], day)
    /\ \A a \in Attempts : Current(a) /\ Sees(a, u) =>
        /\ Data(a)[u].restores <= ops
        /\ Known(u) => Later(snap[u], Data(a)[u], day)
        /\ panel[u] # None => Later(Data(a)[u], panel[u], day)
Banked(u) ==
    Known(u) /\ snap[u].start # 0 /\ ~snap[u].dirty /\ u \notin blind => snap[u].cons = snap[u].used
Followed == \A u \in Users : Unborn(u) /\ Chained(u) /\ Banked(u)

LEMMA MarksOf ==
    /\ \A p \in PanelUser : Mark(p)
    /\ \A s \in Snapshot : Mark(s)
<1>1. \A d \in 0..MaxDay : d \in Nat
  BY DaysAssumption
<1> QED BY <1>1, PanelFields, SnapshotFields DEF Mark

\* The links are kept when a user on the panel moves on.
Onward(u) ==
    \A s : Mark(s) /\ s.restores <= ops /\ panel'[u] # None /\ (panel[u] # None => Later(s, panel[u], day))
             => Later(s, panel'[u], day)

LEMMA LaterIsLater ==
    ASSUME Typed, NEW p \in PanelUser PROVE Later(p, p, day)
<1>1. Mark(p)
  BY MarksOf
<1> QED BY <1>1 DEF Later, LaterRestored, LaterRenewed, Mark

LEMMA ConsumeOnward ==
    ASSUME Typed, NEW u \in Users, Consume(u)
    PROVE  Onward(u) /\ panel[u] # None /\ panel'[u].restores = panel[u].restores
<1>1. panel[u] \in PanelUser /\ Mark(panel[u])
  BY MarksOf DEF Typed, TypeOK, Consume, OnPanel
<1>2. /\ panel'[u].used = panel[u].used + 1 /\ panel'[u].dirty = panel[u].dirty
      /\ panel'[u].limit = panel[u].limit /\ panel'[u].restores = panel[u].restores
      /\ panel'[u].start = IF panel[u].start = 0 THEN day ELSE panel[u].start
  BY <1>1 DEF Typed, TypeOK, Consume, PanelUser
<1>3. panel[u] # None /\ day \in Nat /\ day > 0
  BY DaysAssumption DEF Consume, OnPanel, Typed, TypeOK
<1> HIDE DEF Typed
<1> QED BY <1>1, <1>2, <1>3 DEF Onward, Later, LaterRestored, LaterRenewed, Mark

LEMMA ResetOnward ==
    ASSUME Typed, NEW u \in Users, ResetUsage(u)
    PROVE  Onward(u) /\ panel[u] # None /\ panel'[u].restores = panel[u].restores
<1>1. panel[u] \in PanelUser /\ Mark(panel[u]) /\ panel[u] # None
  BY MarksOf DEF Typed, TypeOK, ResetUsage, OnPanel
<1>2. /\ panel'[u].dirty = TRUE /\ panel'[u].start = panel[u].start
      /\ panel'[u].limit = panel[u].limit /\ panel'[u].restores = panel[u].restores
  BY <1>1 DEF Typed, TypeOK, ResetUsage, PanelUser
<1> QED BY <1>1, <1>2 DEF Onward, Later, LaterRestored, LaterRenewed, Mark

LEMMA EditOnward ==
    ASSUME Typed, NEW u \in Users, EditQuota(u)
    PROVE  Onward(u) /\ panel[u] # None /\ panel'[u].restores = panel[u].restores
<1>1. panel[u] \in PanelUser /\ Mark(panel[u]) /\ panel[u] # None
  BY MarksOf DEF Typed, TypeOK, EditQuota, OnPanel
<1>2. /\ panel'[u].dirty = panel[u].dirty /\ panel'[u].start = panel[u].start
      /\ panel'[u].used = panel[u].used
      /\ panel'[u].limit = panel[u].limit + 1 /\ panel'[u].restores = panel[u].restores
  BY <1>1 DEF Typed, TypeOK, EditQuota, PanelUser
<1> QED BY <1>1, <1>2 DEF Onward, Later, LaterRestored, LaterRenewed, Mark

LEMMA RenewOnward ==
    ASSUME Typed, NEW u \in Users, NEW gb, NEW used, NEW start \in {0, day}, panel[u] # None,
           panel[u].start # 0, panel[u].start < day, "backup" \notin world, Renew(u, gb, used, start)
    PROVE  Onward(u)
<1>1. panel[u] \in PanelUser /\ Mark(panel[u]) /\ panel[u] # None /\ day \in Nat
  BY MarksOf, DaysAssumption DEF Typed, TypeOK
<1>2. panel'[u].start = start /\ panel'[u].restores = panel[u].restores
  <2>1. panel'[u] = [Fresh(gb, used, start) EXCEPT !.restores = panel[u].restores]
    BY DEF Typed, TypeOK, Renew
  <2> QED BY <2>1 DEF Fresh
<1> QED BY <1>1, <1>2 DEF Onward, Later, LaterRenewed, Mark

LEMMA RenewalsOnward ==
    ASSUME Typed, RestoresApart, NEW u \in Users, NEW gb \in Sizes,
           RenewTarget(u, gb) \/ RenewButton(u, gb) \/ RenewCarry(u, gb)
    PROVE  Onward(u)
<1>1. world \in Worlds /\ day \in Nat
  BY DaysAssumption DEF Typed, TypeOK, History
<1>2. CASE RenewTarget(u, gb)
  <2>1. panel[u] # None /\ panel[u].start # 0
    BY <1>2 DEF RenewTarget, OnPanel
  <2>2. (IF panel[u].start < day THEN "renew" ELSE "renew same day") \in world
    BY <1>2 DEF RenewTarget, On
  <2>3. panel[u].start < day /\ "backup" \notin world
    BY <1>1, <2>2 DEF RestoresApart
  <2> QED BY <1>2, <2>1, <2>3, RenewOnward DEF RenewTarget
<1>3. CASE RenewButton(u, gb)
  <2>1. panel[u] # None /\ panel[u].start \in 1..(day - 1) /\ "button" \in world
    BY <1>3 DEF RenewButton, On, OnPanel
  <2>2. panel[u].start # 0 /\ panel[u].start < day
    BY <1>1, <2>1
  <2>3. "backup" \notin world
    BY <1>1, <2>1 DEF RestoresApart
  <2> QED BY <1>3, <2>1, <2>2, <2>3, RenewOnward DEF RenewButton
<1>4. CASE RenewCarry(u, gb)
  <2>1. panel[u] # None /\ panel[u].start \in 1..(day - 1)
    BY <1>4 DEF RenewCarry, OnPanel
  <2>2. panel[u].start # 0 /\ panel[u].start < day
    BY <1>1, <2>1
  <2>3. (IF MonthOf(panel[u].start) = Month THEN "carry" ELSE "carry over") \in world
    BY <1>4 DEF RenewCarry, On
  <2>4. "backup" \notin world
    BY <1>1, <2>3 DEF RestoresApart
  <2> QED BY <1>4, <2>1, <2>2, <2>4, RenewOnward DEF RenewCarry
<1> QED BY <1>2, <1>3, <1>4

LEMMA RestoreOnward == ASSUME Typed, NEW u \in Users, RestorePanel PROVE Onward(u)
<1> DEFINE was == panel[u]
           then == backup[u]
<1>1. "backup" \in world /\ ops' = ops + 1 /\ panel'[u] = Rewound(u) /\ ops \in Nat
  BY DEF RestorePanel, On, Typed, History
<1>2. was \in PanelUser \cup {None} /\ then \in PanelUser \cup {None}
  BY DEF RestorePanel, Typed, TypeOK
<1>3. CASE then = None
  BY <1>1, <1>3 DEF Rewound, Onward
<1>4. CASE then # None /\ (was = None \/ was.start # then.start)
  <2>1. panel'[u] = [then EXCEPT !.restores = ops', !.dirty = TRUE]
    BY <1>1, <1>4 DEF Rewound
  <2>2. panel'[u].restores = ops + 1 /\ panel'[u].dirty
    BY <1>1, <1>2, <1>4, <2>1 DEF PanelUser
  <2> QED BY <1>1, <2>2 DEF Onward, Later, LaterRestored, Mark
<1>5. CASE then # None /\ was # None /\ was.start = then.start
  <2>1. panel'[u] = [was EXCEPT !.limit = then.limit, !.used = then.used, !.restores = ops',
                                !.repeat = @ + Minus(was.used, then.used)]
    BY <1>1, <1>5 DEF Rewound
  <2>2. /\ panel'[u].restores = ops + 1 /\ panel'[u].dirty = was.dirty /\ panel'[u].start = was.start
        /\ was # None /\ was.dirty \in BOOLEAN
    BY <1>1, <1>2, <1>5, <2>1 DEF PanelUser
  <2> QED BY <1>1, <2>2 DEF Onward, Later, LaterRestored, Mark
<1> QED BY <1>3, <1>4, <1>5

\* What a step on the panel leaves alone of the chain.
LEMMA PanelLeaves ==
    ASSUME Quiet
    PROVE  /\ \A u : Known(u)' = Known(u)
           /\ \A a : Current(a)' = Current(a) /\ Data(a)' = Data(a) /\ \A u : Sees(a, u)' = Sees(a, u)
           /\ snap' = snap /\ fetched' = fetched /\ world' = world /\ day' = day /\ blind' = blind
BY DEF Quiet, Known, Current, Data, Sees

LEMMA ChainGrows ==
    ASSUME Typed, Quiet, NEW u \in Users, Chained(u), ops' \in Nat, ops' >= ops, Onward(u),
           panel'[u] # None => panel'[u].restores <= ops'
    PROVE  Chained(u)'
<1> USE PanelLeaves
<1>1. ops \in Nat
  BY DEF Typed, History
<1>2. panel'[u] # None => panel'[u].restores <= ops'
  OBVIOUS
<1>3. snap[u] # None => Mark(snap[u]) /\ snap[u].restores <= ops
  BY MarksOf DEF Typed, TypeOK, Chained
<1>4. ASSUME Known(u), panel'[u] # None PROVE Later(snap[u], panel'[u], day)
  <2>1. panel[u] # None => Later(snap[u], panel[u], day)
    BY <1>4 DEF Chained
  <2> QED BY <1>3, <1>4, <2>1 DEF Onward, Known
<1>5. ASSUME NEW a \in Attempts, Current(a), Sees(a, u)
      PROVE  /\ Data(a)[u].restores <= ops
             /\ Known(u) => Later(snap[u], Data(a)[u], day)
             /\ panel'[u] # None => Later(Data(a)[u], panel'[u], day)
  <2>1. Data(a)[u] \in PanelUser
    BY <1>5, ReadsTyped DEF Current, Sees
  <2>2. Mark(Data(a)[u]) /\ Data(a)[u].restores <= ops
    BY <1>5, <2>1, MarksOf DEF Chained
  <2>3. panel[u] # None => Later(Data(a)[u], panel[u], day)
    BY <1>5 DEF Chained
  <2>4. panel'[u] # None => Later(Data(a)[u], panel'[u], day)
    BY <2>2, <2>3 DEF Onward
  <2>5. Known(u) => Later(snap[u], Data(a)[u], day)
    BY <1>5 DEF Chained
  <2> QED BY <2>2, <2>4, <2>5
<1>6. snap[u] # None => snap[u].restores <= ops'
  <2>1. CASE snap[u] # None
    <3>1. snap[u].restores \in Nat /\ snap[u].restores <= ops
      BY <1>3, <2>1 DEF Mark
    <3> QED BY <1>1, <3>1
  <2> QED BY <2>1
<1>7. \A a \in Attempts : Current(a) /\ Sees(a, u) => Data(a)[u].restores <= ops'
  <2>1. ASSUME NEW a \in Attempts, Current(a), Sees(a, u) PROVE Data(a)[u].restores <= ops'
    <3>1. Data(a)[u] \in PanelUser
      BY <2>1, ReadsTyped DEF Current, Sees
    <3>2. Data(a)[u].restores \in Nat
      BY <3>1, PanelFields
    <3> QED BY <1>1, <1>5, <2>1, <3>2
  <2> QED BY <2>1
<1>8. \A s, p, d : Later(s, p, d)' = Later(s, p, d)
  BY DEF Later, LaterRestored, LaterRenewed
<1>9. Known(u)' /\ (panel[u] # None)' => Later(snap[u], panel[u], day)'
  BY <1>4 DEF Later, LaterRestored, LaterRenewed
<1>10. \A a \in Attempts : (Current(a) /\ Sees(a, u))' =>
          /\ (Known(u) => Later(snap[u], Data(a)[u], day))'
          /\ (panel[u] # None => Later(Data(a)[u], panel[u], day))'
  BY <1>5 DEF Later, LaterRestored, LaterRenewed
<1> QED BY <1>2, <1>6, <1>7, <1>9, <1>10 DEF Chained

LEMMA ChainStays ==
    ASSUME Typed, Quiet, NEW u \in Users, Chained(u), ops' \in Nat, ops' >= ops, panel'[u] = panel[u]
    PROVE  Chained(u)'
<1>1. Onward(u)
  BY DEF Onward
<1>2. panel'[u] # None => panel'[u].restores <= ops'
  <2>1. CASE panel[u] # None
    <3>1. panel[u].restores \in Nat /\ panel[u].restores <= ops /\ ops \in Nat
      BY <2>1, PanelFields DEF Chained, Typed, TypeOK, History
    <3> QED BY <3>1
  <2> QED BY <2>1
<1> QED BY <1>1, <1>2, ChainGrows

LEMMA OthersStay ==
    ASSUME Typed, NEW u \in Users, OnUser(u), NEW v \in Users, v # u PROVE panel'[v] = panel[v]
BY DEF OnUser, Create, Consume, ResetUsage, EditQuota, RenewTarget, RenewButton, RenewCarry, Renew,
       DeleteUser, Typed, TypeOK

LEMMA UserChained ==
    ASSUME Typed, RestoresApart, Followed, NEW u \in Users, OnUser(u), NEW v \in Users
    PROVE  Chained(v)'
<1>8. \A op : On(op) => ops' = ops + 1
  BY DEF On
<1>9. Quiet /\ (ops' = ops \/ ops' = ops + 1)
  BY <1>8 DEF OnUser, Create, Consume, ResetUsage, EditQuota, RenewTarget, RenewButton, RenewCarry, Renew,
              DeleteUser, Same
<1>1. Quiet /\ ops' \in Nat /\ ops' >= ops /\ Chained(v)
  BY <1>9 DEF Typed, History, Followed
<1>2. CASE v # u
  BY <1>1, <1>2, OthersStay, ChainStays
<1>3. ASSUME v = u, NEW gb \in Sizes, Create(u, gb) PROVE Chained(v)'
  <2>1. snap[u] = None /\ panel'[u] = Fresh(gb, 0, 0) /\ ops' = ops
    BY <1>3 DEF Create, Typed, TypeOK
  <2>2. \A a \in Attempts : Current(a) => ~Sees(a, u)
    BY <1>3 DEF Create, Followed, Unborn, Current
  <2>3. panel'[u].restores <= ops'
    BY <2>1 DEF Fresh, Typed, History
  <2> QED BY <1>1, <1>3, <2>1, <2>2, <2>3, PanelLeaves DEF Chained, Known
<1>4. ASSUME v = u, Onward(u), panel'[u] # None => panel[u] # None /\ panel'[u].restores = panel[u].restores
      PROVE  Chained(v)'
  <2>1. panel'[u] # None => panel'[u].restores <= ops'
    <3>1. CASE panel'[u] # None
      <4>1. panel[u].restores \in Nat /\ panel[u].restores <= ops /\ ops \in Nat
        BY <1>4, <3>1, PanelFields DEF Typed, TypeOK, History, Followed, Chained
      <4> QED BY <1>1, <1>4, <3>1, <4>1
    <3> QED BY <3>1
  <2> QED BY <1>1, <1>4, <2>1, ChainGrows
<1>5. CASE v = u /\ DeleteUser(u)
  <2>1. panel'[u] = None
    BY <1>5 DEF DeleteUser, Typed, TypeOK
  <2> QED BY <1>4, <1>5, <2>1 DEF Onward
<1>6. ASSUME v = u, Consume(u) \/ ResetUsage(u) \/ EditQuota(u) PROVE Chained(v)'
  BY <1>4, <1>6, ConsumeOnward, ResetOnward, EditOnward
<1>7. ASSUME v = u, NEW gb \in Sizes, RenewTarget(u, gb) \/ RenewButton(u, gb) \/ RenewCarry(u, gb)
      PROVE  Chained(v)'
  <2>1. panel[u] # None
    BY <1>7 DEF RenewTarget, RenewButton, RenewCarry, OnPanel
  <2>2. panel'[u].restores = panel[u].restores
    BY <1>7, <2>1 DEF RenewTarget, RenewButton, RenewCarry, Renew, Fresh, Typed, TypeOK
  <2> QED BY <1>4, <1>7, <2>1, <2>2, RenewalsOnward
<1> QED BY <1>2, <1>3, <1>5, <1>6, <1>7 DEF OnUser

LEMMA RestoreChained ==
    ASSUME Typed, Followed, RestorePanel, NEW v \in Users PROVE Chained(v)'
<1>1. Quiet /\ ops' \in Nat /\ ops' = ops + 1 /\ Chained(v) /\ ops \in Nat
  BY DEF RestorePanel, On, Typed, History, Followed
<1>2. Onward(v)
  BY RestoreOnward
<1>3. panel'[v] # None => panel'[v].restores = ops'
  <2>1. panel'[v] = Rewound(v) /\ panel[v] \in PanelUser \cup {None} /\ backup[v] \in PanelUser \cup {None}
    BY DEF RestorePanel, Typed, TypeOK
  <2> QED BY <2>1 DEF Rewound, PanelUser
<1> QED BY <1>1, <1>2, <1>3, ChainGrows

LEMMA FetchChained ==
    ASSUME Typed, Followed, NEW a \in Attempts, Fetch(a), NEW v \in Users PROVE Chained(v)'
<1>1. /\ fetched' = [fetched EXCEPT ![a] = [data |-> panel, late |-> FALSE]]
      /\ UNCHANGED <<day, snap, panel, ops, world>>
  BY DEF Fetch, panelVars
<1>2. Known(v)' = Known(v) /\ Chained(v)
  BY <1>1 DEF Known, Followed
<1>3. \A s, p : Later(s, p, day)' = Later(s, p, day)
  BY <1>1 DEF Later, LaterRestored, LaterRenewed
<1>4. ASSUME NEW b \in Attempts, Current(b)', Sees(b, v)'
      PROVE  /\ (Data(b)[v])'.restores <= ops
             /\ Known(v) => Later(snap[v], (Data(b)[v])', day)
             /\ panel[v] # None => Later((Data(b)[v])', panel[v], day)
  <2>1. CASE b = a
    <3>1. (Data(b)[v])' = panel[v]
      BY <1>1, <2>1 DEF Data, Typed, TypeOK
    <3>2. panel[v] # None /\ panel[v] \in PanelUser
      BY <1>4, <3>1 DEF Sees, Typed, TypeOK
    <3>3. Later(panel[v], panel[v], day)
      BY <3>2, LaterIsLater
    <3> QED BY <1>2, <3>1, <3>2, <3>3 DEF Chained
  <2>2. CASE b # a
    <3>1. fetched'[b] = fetched[b]
      BY <1>1, <2>2 DEF Typed, TypeOK
    <3>2. (Data(b)[v])' = Data(b)[v] /\ Current(b) /\ Sees(b, v)
      BY <1>4, <3>1 DEF Data, Current, Sees
    <3> QED BY <1>2, <3>2 DEF Chained
  <2> QED BY <2>1, <2>2
<1>5. \A b \in Attempts : (Current(b) /\ Sees(b, v))' =>
        (/\ Data(b)[v].restores <= ops
         /\ Known(v) => Later(snap[v], Data(b)[v], day)
         /\ panel[v] # None => Later(Data(b)[v], panel[v], day))'
  BY <1>1, <1>2, <1>4 DEF Later, LaterRestored, LaterRenewed
<1>6. (/\ panel[v] # None => panel[v].restores <= ops
       /\ snap[v] # None => snap[v].restores <= ops
       /\ Known(v) /\ panel[v] # None => Later(snap[v], panel[v], day))'
  BY <1>1, <1>2 DEF Chained, Later, LaterRestored, LaterRenewed
<1> QED BY <1>5, <1>6 DEF Chained

LEMMA WriteChained ==
    ASSUME Typed, Followed, NEW a \in Attempts, NEW failing, Write(a, failing), NEW v \in Users
    PROVE  Chained(v)'
<1>1. /\ fetched[a] # None /\ Current(a) /\ failing \subseteq Found(a)
      /\ UNCHANGED <<day, panel, ops, world>>
  BY WriteIs DEF Current, panelVars
<1>2. \A s, p : Later(s, p, day)' = Later(s, p, day)
  BY <1>1 DEF Later, LaterRestored, LaterRenewed
<1>3. \A b \in Attempts : ~Current(b)'
  <2>1. fetched' = [b \in Attempts |-> IF b = a \/ fetched[b] = None THEN None
                                     ELSE [fetched[b] EXCEPT !.late = TRUE]]
    BY WriteIs
  <2>2. ASSUME NEW b \in Attempts, fetched[b] # None PROVE [fetched[b] EXCEPT !.late = TRUE].late
    <3>1. fetched[b] \in [data : [Users -> PanelUser \cup {None}], late : BOOLEAN]
      BY <2>2 DEF Typed, TypeOK
    <3> QED BY <3>1
  <2> QED BY <2>1, <2>2 DEF Current
<1>4. snap'[v] = IF v \in failing THEN Unmetered(Was(v), Data(a)[v])
                 ELSE IF v \in Found(a) THEN Stored(Was(v), Data(a)[v], Outturn(a, v))
                 ELSE IF snap[v] = None THEN None ELSE [snap[v] EXCEPT !.here = FALSE]
  BY SnapAfter
<1>5. panel[v] # None => panel[v].restores <= ops
  BY DEF Followed, Chained
<1>6. snap[v] # None => snap[v] \in Snapshot /\ snap[v].restores <= ops
  BY DEF Followed, Chained, Typed, TypeOK
<1>7. /\ snap'[v] # None => snap'[v].restores <= ops
      /\ snap'[v] # None /\ snap'[v].init /\ panel[v] # None => Later(snap'[v], panel[v], day)
  <2>1. CASE v \in failing
    <3>1. snap'[v] = [Was(v) EXCEPT !.here = TRUE, !.plan = Data(a)[v].plan]
      BY <1>4, <2>1 DEF Unmetered
    <3>2. /\ snap'[v].init = Was(v).init /\ snap'[v].restores = Was(v).restores /\ snap'[v].start = Was(v).start
          /\ snap'[v].used = Was(v).used /\ snap'[v].limit = Was(v).limit /\ snap'[v].dirty = Was(v).dirty
      BY <3>1, WasTyped DEF Snapshot
    <3>3. CASE snap[v] = None
      <4>1. Was(v).init = FALSE /\ Was(v).restores = 0
        BY <3>3 DEF Was, NewSnapshot
      <4> QED BY <3>2, <4>1 DEF Typed, History
    <3>4. CASE snap[v] # None
      <4>1. Was(v) = snap[v]
        BY <3>4 DEF Was
      <4>2. snap[v].init /\ panel[v] # None => Later(snap[v], panel[v], day)
        BY <3>4 DEF Followed, Chained, Known
      <4> QED BY <1>6, <3>2, <3>4, <4>1, <4>2 DEF Later, LaterRestored, LaterRenewed
    <3> QED BY <3>3, <3>4
  <2>2. CASE v \in Found(a) \ failing
    <3>1. snap'[v] = Stored(Was(v), Data(a)[v], Outturn(a, v)) /\ Sees(a, v)
      BY <1>4, <2>2 DEF Found, Sees
    <3>2. /\ snap'[v].restores = Data(a)[v].restores /\ snap'[v].start = Data(a)[v].start
          /\ snap'[v].used = Data(a)[v].used /\ snap'[v].limit = Data(a)[v].limit
          /\ snap'[v].dirty = Data(a)[v].dirty
      BY <3>1 DEF Stored
    <3>3. Data(a)[v].restores <= ops /\ (panel[v] # None => Later(Data(a)[v], panel[v], day))
      BY <1>1, <3>1 DEF Followed, Chained
    <3> QED BY <3>2, <3>3 DEF Later, LaterRestored, LaterRenewed
  <2>3. CASE v \notin Found(a) /\ v \notin failing
    <3>1. CASE snap[v] = None
      BY <1>4, <2>3, <3>1
    <3>2. CASE snap[v] # None
      <4>1. /\ snap'[v].init = snap[v].init /\ snap'[v].restores = snap[v].restores
            /\ snap'[v].start = snap[v].start /\ snap'[v].used = snap[v].used
            /\ snap'[v].limit = snap[v].limit /\ snap'[v].dirty = snap[v].dirty
        BY <1>4, <1>6, <2>3, <3>2 DEF Snapshot
      <4>2. snap[v].init /\ panel[v] # None => Later(snap[v], panel[v], day)
        BY <3>2 DEF Followed, Chained, Known
      <4> QED BY <1>6, <3>2, <4>1, <4>2 DEF Later, LaterRestored, LaterRenewed
    <3> QED BY <3>1, <3>2
  <2> QED BY <1>1, <2>1, <2>2, <2>3
<1>8. (/\ panel[v] # None => panel[v].restores <= ops
       /\ snap[v] # None => snap[v].restores <= ops
       /\ Known(v) /\ panel[v] # None => Later(snap[v], panel[v], day))'
  BY <1>1, <1>5, <1>7 DEF Known, Later, LaterRestored, LaterRenewed
<1> QED BY <1>3, <1>8 DEF Chained

\* What a write banks for a user that it finds.
LEMMA MeasureBanks ==
    ASSUME NEW s \in Snapshot, NEW p \in PanelUser, NEW m, NEW rollback \in BOOLEAN, NEW d,
           Later(s, p, d), s.start # 0 /\ ~s.dirty => s.cons = s.used, p.start # 0, ~p.dirty,
           p.start <= s.start,
           rollback \/ ~(s.restores # p.restores /\ p.used < s.used)
    PROVE  Measured(s, p, m, rollback).cons = p.used
<1>1. Mark(s) /\ Mark(p) /\ s.cons \in Nat
  BY MarksOf, SnapshotFields
<1>2. s.start # 0 /\ p.start = s.start /\ ~s.dirty /\ (p.used >= s.used \/ s.restores < p.restores)
  BY <1>1 DEF Mark, Later, LaterRestored, LaterRenewed
<1>3. s.cons = s.used
  BY <1>2
<1>4. Measured(s, p, m, rollback).cons = Before(s, p, rollback) + Since(s, p, rollback)
  BY MeasuredIs DEF Result
<1>5. CASE p.used >= s.used
  <2>1. ~(p.used < s.used) /\ s.used \in Nat /\ p.used \in Nat
    BY <1>1, <1>5 DEF Mark
  <2>2. Before(s, p, rollback) = s.used /\ Since(s, p, rollback) = Minus(p.used, s.used)
    BY <1>3, <2>1 DEF Before, Since, Back, Zeroed
  <2>3. s.used + Minus(p.used, s.used) = p.used
    BY <2>1, <1>5 DEF Minus
  <2> QED BY <1>4, <2>2, <2>3
<1>6. CASE p.used < s.used
  <2>1. s.used \in Nat /\ p.used \in Nat /\ s.restores \in Nat /\ p.restores \in Nat
    BY <1>1 DEF Mark
  <2>2. rollback
    BY <1>2, <1>6, <2>1
  <2>3. Before(s, p, rollback) = Minus(s.used, s.used - p.used) /\ Since(s, p, rollback) = 0
    BY <1>3, <1>6, <2>2 DEF Before, Since, Back
  <2>4. Minus(s.used, s.used - p.used) + 0 = p.used
    BY <1>6, <2>1 DEF Minus
  <2> QED BY <1>4, <2>3, <2>4
<1>7. s.used \in Nat /\ p.used \in Nat
  BY <1>1 DEF Mark
<1> QED BY <1>5, <1>6, <1>7

LEMMA WriteBanked ==
    ASSUME Typed, Followed, NEW a \in Attempts, NEW failing, Write(a, failing), NEW v \in Users
    PROVE  Banked(v)'
<1>1. /\ fetched[a] # None /\ Current(a) /\ failing \subseteq Found(a)
      /\ Banked(v) /\ blind \subseteq blind'
  BY WriteIs DEF Current, Followed
<1>2. snap'[v] = IF v \in failing THEN Unmetered(Was(v), Data(a)[v])
                 ELSE IF v \in Found(a) THEN Stored(Was(v), Data(a)[v], Outturn(a, v))
                 ELSE IF snap[v] = None THEN None ELSE [snap[v] EXCEPT !.here = FALSE]
  BY SnapAfter
<1>3. SUFFICES ASSUME snap'[v] # None, snap'[v].init, snap'[v].start # 0, ~snap'[v].dirty, v \notin blind'
               PROVE  snap'[v].cons = snap'[v].used
  BY DEF Banked, Known
<1>4. CASE v \in failing
  <2>1. snap'[v] = [Was(v) EXCEPT !.here = TRUE, !.plan = Data(a)[v].plan]
    BY <1>2, <1>4 DEF Unmetered
  <2>2. /\ snap'[v].init = Was(v).init /\ snap'[v].start = Was(v).start /\ snap'[v].cons = Was(v).cons
        /\ snap'[v].used = Was(v).used /\ snap'[v].dirty = Was(v).dirty
    BY <2>1, WasTyped DEF Snapshot
  <2>3. snap[v] # None /\ Was(v) = snap[v]
    BY <1>3, <2>2 DEF Was, NewSnapshot
  <2> QED BY <1>1, <1>3, <2>2, <2>3 DEF Banked, Known
<1>5. CASE v \notin Found(a) /\ v \notin failing
  <2>1. snap[v] # None /\ snap'[v] = [snap[v] EXCEPT !.here = FALSE]
    BY <1>2, <1>3, <1>5
  <2>2. snap[v] \in Snapshot
    BY <2>1 DEF Typed, TypeOK
  <2>3. /\ snap'[v].init = snap[v].init /\ snap'[v].start = snap[v].start /\ snap'[v].cons = snap[v].cons
        /\ snap'[v].used = snap[v].used /\ snap'[v].dirty = snap[v].dirty
    BY <2>1, <2>2 DEF Snapshot
  <2> QED BY <1>1, <1>3, <2>1, <2>3 DEF Banked, Known
<1>6. CASE v \in Found(a) \ failing
  <2> DEFINE p == Data(a)[v]
             s == Was(v)
             rollback == PanelRollback(Data(a))
  <2>1. snap'[v] = Stored(s, p, Outturn(a, v)) /\ Sees(a, v) /\ p \in PanelUser /\ s \in Snapshot
    BY <1>1, <1>2, <1>6, ReadsTyped, WasTyped DEF Found, Sees
  <2>2. snap'[v].cons = Outturn(a, v).cons /\ snap'[v].used = p.used /\ p.start # 0 /\ ~p.dirty
    BY <1>3, <2>1 DEF Stored
  <2>3. Outturn(a, v) = Compute(s, p, meter[v][Month], rollback)
    BY DEF Outturn
  <2>4. CASE ~s.init \/ RenewedSince(s, p)
    BY <2>2, <2>3, <2>4 DEF Compute, Result, Renewal
  <2>5. CASE s.init /\ ~RenewedSince(s, p)
    <3>1. Known(v) /\ s = snap[v]
      BY <2>5 DEF Known, Was, NewSnapshot
    <3>2. Later(s, p, day)
      BY <1>1, <2>1, <3>1 DEF Followed, Chained
    <3>3. s.start # 0 /\ ~s.dirty => s.cons = s.used
      BY <1>1, <1>3, <3>1 DEF Banked
    <3>4. p.start <= s.start
      <4>1. p.start \in Nat /\ s.start \in Nat
        BY <2>1, MarksOf DEF Mark
      <4> QED BY <2>2, <2>5, <4>1 DEF RenewedSince
    <3>5. rollback \/ ~(s.restores # p.restores /\ p.used < s.used)
      <4>1. ~(Moved(v, Data(a)) /\ ~(PanelRollback(Data(a)) /\ v \in Dropped(Data(a))))
        BY <1>3, WriteIs
      <4>2. s.restores # p.restores /\ p.used < s.used => Moved(v, Data(a))
        <5>1. p.used \in Nat /\ s.used \in Nat
          BY <2>1, MarksOf DEF Mark
        <5> QED BY <2>1, <3>1, <5>1 DEF Moved, Known, Sees
      <4> QED BY <4>1, <4>2
    <3>6. rollback \in BOOLEAN
      BY DEF PanelRollback
    <3>7. Measured(s, p, meter[v][Month], rollback).cons = p.used
      <4> HIDE DEF p, s, rollback
      <4> QED BY <2>1, <2>2, <3>2, <3>3, <3>4, <3>5, <3>6, MeasureBanks
    <3> QED BY <2>2, <2>3, <2>5, <3>7 DEF Compute
  <2> QED BY <2>4, <2>5
<1> QED BY <1>1, <1>4, <1>5, <1>6

LEMMA UserUnborn ==
    ASSUME Typed, Followed, NEW u \in Users, OnUser(u), NEW v \in Users PROVE Unborn(v)'
<1>1. Quiet /\ backup' = backup /\ Unborn(v) /\ sold[v] \in Nat
  BY DEF OnUser, Create, Consume, ResetUsage, EditQuota, RenewTarget, RenewButton, RenewCarry, Renew,
         DeleteUser, Same, Typed, History, Followed
<1>2. ASSUME sold'[v] = 0 PROVE sold[v] = 0 /\ panel'[v] = None
  <2>1. sold[v] = 0
    <3>1. sold \in [Users -> Nat]
      BY DEF Typed, History
    <3>2. CASE Consume(u) \/ ResetUsage(u) \/ DeleteUser(u)
      BY <1>2, <3>2 DEF Consume, ResetUsage, DeleteUser
    <3>3. CASE EditQuota(u)
      <4>1. sold' = [sold EXCEPT ![u] = @ + 1]
        BY <3>3 DEF EditQuota
      <4>2. sold'[v] = sold[v] \/ sold'[v] = sold[v] + 1
        BY <3>1, <4>1
      <4> QED BY <1>1, <1>2, <4>2
    <3>4. ASSUME NEW gb \in Sizes,
                 Create(u, gb) \/ RenewTarget(u, gb) \/ RenewButton(u, gb) \/ RenewCarry(u, gb)
          PROVE  sold[v] = 0
      <4>1. sold' = [sold EXCEPT ![u] = @ + gb]
        BY <3>4 DEF Create, RenewTarget, RenewButton, RenewCarry, Renew
      <4>2. sold'[v] = sold[v] \/ sold'[v] = sold[v] + gb
        BY <3>1, <4>1
      <4>3. gb \in Nat
        BY SizesAreNumbers
      <4> QED BY <1>1, <1>2, <4>2, <4>3
    <3> QED BY <3>2, <3>3, <3>4 DEF OnUser
  <2>2. panel[v] = None
    BY <1>1, <2>1 DEF Unborn
  <2>3. CASE v # u
    BY <2>1, <2>2, <2>3, OthersStay
  <2>4. ASSUME v = u, NEW gb \in Sizes, Create(u, gb) PROVE FALSE
    <3>1. sold'[v] = sold[v] + gb
      BY <2>4 DEF Create, Typed, History
    <3>2. gb > 0 /\ gb \in Nat
      BY SizesAssumption
    <3> QED BY <1>1, <1>2, <3>1, <3>2
  <2>5. CASE v = u /\ DeleteUser(u)
    BY <2>1, <2>5 DEF DeleteUser, Typed, TypeOK
  <2> QED BY <2>1, <2>2, <2>3, <2>4, <2>5 DEF OnUser, Consume, ResetUsage, EditQuota, RenewTarget,
             RenewButton, RenewCarry, OnPanel
<1> QED BY <1>1, <1>2, PanelLeaves DEF Unborn

LEMMA RestoreUnborn ==
    ASSUME Typed, Followed, BackUp \/ RestorePanel, NEW v \in Users PROVE Unborn(v)'
<1>1. Quiet /\ sold' = sold /\ Unborn(v)
  BY DEF BackUp, RestorePanel, Followed
<1>2. CASE BackUp
  <2>1. panel' = panel /\ backup' = panel
    BY <1>2 DEF BackUp
  <2> QED BY <1>1, <2>1, PanelLeaves DEF Unborn
<1>3. CASE RestorePanel
  <2>1. backup # None /\ backup' = backup /\ panel'[v] = Rewound(v)
    BY <1>3 DEF RestorePanel
  <2>2. backup[v] = None => panel'[v] = None
    BY <2>1 DEF Rewound
  <2> QED BY <1>1, <2>1, <2>2, PanelLeaves DEF Unborn
<1> QED BY <1>2, <1>3

LEMMA FetchUnborn ==
    ASSUME Typed, Followed, NEW a \in Attempts, Fetch(a), NEW v \in Users PROVE Unborn(v)'
<1>1. fetched' = [fetched EXCEPT ![a] = [data |-> panel, late |-> FALSE]]
  BY DEF Fetch
<1>2. sold' = sold /\ panel' = panel /\ backup' = backup /\ Unborn(v)
  BY DEF Fetch, panelVars, Followed
<1>3. ASSUME sold[v] = 0, NEW b \in Attempts, fetched'[b] # None PROVE ~Sees(b, v)'
  <2>1. CASE b = a
    BY <1>1, <1>2, <1>3, <2>1 DEF Unborn, Sees, Data, Typed, TypeOK
  <2>2. CASE b # a
    <3>1. fetched'[b] = fetched[b]
      BY <1>1, <2>2 DEF Typed, TypeOK
    <3> QED BY <1>2, <1>3, <3>1 DEF Unborn, Sees, Data
  <2> QED BY <2>1, <2>2
<1> QED BY <1>2, <1>3 DEF Unborn

LEMMA WriteUnborn ==
    ASSUME Typed, Followed, NEW a \in Attempts, NEW failing, Write(a, failing), NEW v \in Users
    PROVE  Unborn(v)'
<1>1. /\ fetched' = [b \in Attempts |-> IF b = a \/ fetched[b] = None THEN None
                                        ELSE [fetched[b] EXCEPT !.late = TRUE]]
      /\ UNCHANGED <<day, bill, world, panelVars>>
  BY WriteIs
<1>2. sold' = sold /\ panel' = panel /\ backup' = backup /\ Unborn(v)
  BY <1>1 DEF panelVars, Followed
<1>3. ASSUME NEW b \in Attempts, fetched'[b] # None PROVE fetched[b] # None /\ (Sees(b, v)' <=> Sees(b, v))
  <2>1. fetched[b] # None /\ fetched'[b] = [fetched[b] EXCEPT !.late = TRUE]
    BY <1>1, <1>3
  <2>2. fetched[b] \in [data : [Users -> PanelUser \cup {None}], late : BOOLEAN]
    BY <2>1 DEF Typed, TypeOK
  <2>3. fetched'[b].data = fetched[b].data
    BY <2>1, <2>2
  <2> QED BY <2>1, <2>3 DEF Sees, Data
<1> QED BY <1>2, <1>3 DEF Unborn

\* A fetch that is given up, a new day and an invoice.
LEMMA OthersFollowed ==
    ASSUME Typed, Followed, NEW v \in Users,
           \/ Midnight
           \/ \E m \in Months : Generate(m)
           \/ \E a \in Attempts : Supersede(a)
           \/ UNCHANGED vars
    PROVE  Unborn(v)' /\ Chained(v)' /\ Banked(v)'
<1>1. /\ UNCHANGED <<snap, panel, ops, world, sold, backup, blind>>
      /\ day' = day \/ day' = day + 1
      /\ day \in Nat
  BY DaysAssumption DEF Midnight, Generate, Supersede, vars, panelVars, Typed, TypeOK
<1>2. \A b \in Attempts : fetched'[b] # None => fetched'[b] = fetched[b]
  BY DEF Midnight, Generate, Supersede, vars, Typed, TypeOK
<1>3. Unborn(v) /\ Chained(v) /\ Banked(v)
  BY DEF Followed
<1>4. \A b \in Attempts : (Current(b) => Current(b)) /\ (Current(b)' => Current(b) /\ Data(b)' = Data(b))
  BY <1>2 DEF Current, Data
<1>5. \A s, p : Mark(s) /\ Mark(p) /\ Later(s, p, day) => Later(s, p, day')
  BY <1>1 DEF Mark, Later, LaterRestored, LaterRenewed
<1>6. Unborn(v)'
  BY <1>1, <1>2, <1>3 DEF Unborn, Sees, Data
<1>7. Banked(v)'
  BY <1>1, <1>3 DEF Banked, Known
<1>8. Known(v)' = Known(v) /\ (Known(v) => Mark(snap[v])) /\ (panel[v] # None => Mark(panel[v]))
  BY <1>1, MarksOf DEF Known, Typed, TypeOK
<1>9. Known(v) /\ panel[v] # None => Later(snap[v], panel[v], day')
  BY <1>3, <1>5, <1>8 DEF Chained
<1>10. ASSUME NEW b \in Attempts, Current(b), Sees(b, v)
       PROVE  /\ Data(b)[v].restores <= ops
              /\ Known(v) => Later(snap[v], Data(b)[v], day')
              /\ panel[v] # None => Later(Data(b)[v], panel[v], day')
  <2>1. Data(b)[v] \in PanelUser
    BY <1>10, ReadsTyped DEF Current, Sees
  <2>2. Mark(Data(b)[v])
    BY <2>1, MarksOf
  <2>3. /\ Data(b)[v].restores <= ops
        /\ Known(v) => Later(snap[v], Data(b)[v], day)
        /\ panel[v] # None => Later(Data(b)[v], panel[v], day)
    BY <1>3, <1>10 DEF Chained
  <2> QED BY <1>5, <1>8, <2>2, <2>3
<1>11. (/\ panel[v] # None => panel[v].restores <= ops
        /\ snap[v] # None => snap[v].restores <= ops
        /\ Known(v) /\ panel[v] # None => Later(snap[v], panel[v], day))'
  BY <1>1, <1>3, <1>8, <1>9 DEF Chained, Later, LaterRestored, LaterRenewed
<1>12. \A b \in Attempts : (Current(b) /\ Sees(b, v))' =>
         (/\ Data(b)[v].restores <= ops
          /\ Known(v) => Later(snap[v], Data(b)[v], day)
          /\ panel[v] # None => Later(Data(b)[v], panel[v], day))'
  <2>1. ASSUME NEW b \in Attempts, Current(b)', Sees(b, v)'
        PROVE  Current(b) /\ Sees(b, v) /\ Data(b)' = Data(b)
    BY <1>4, <2>1 DEF Sees
  <2> QED BY <1>1, <1>8, <1>10, <2>1 DEF Later, LaterRestored, LaterRenewed
<1>13. Chained(v)'
  BY <1>11, <1>12 DEF Chained
<1> QED BY <1>6, <1>7, <1>13

LEMMA FollowedKept == ASSUME Typed, RestoresApart, Followed, [Next]_vars PROVE Followed'
<1> SUFFICES ASSUME NEW v \in Users PROVE Unborn(v)' /\ Chained(v)' /\ Banked(v)'
  BY DEF Followed
<1>1. ASSUME Quiet PROVE Banked(v)'
  BY <1>1 DEF Quiet, Followed, Banked, Known
<1>2. ASSUME NEW u \in Users, OnUser(u) PROVE Unborn(v)' /\ Chained(v)' /\ Banked(v)'
  <2>1. Quiet
    BY <1>2 DEF OnUser, Create, Consume, ResetUsage, EditQuota, RenewTarget, RenewButton, RenewCarry, Renew,
                DeleteUser, Same
  <2> QED BY <1>1, <1>2, <2>1, UserUnborn, UserChained
<1>3. CASE BackUp
  <2>1. Quiet /\ panel' = panel /\ ops' = ops + 1 /\ ops \in Nat
    BY <1>3 DEF BackUp, On, Typed, History
  <2>2. Chained(v)'
    BY <2>1, ChainStays DEF Followed
  <2> QED BY <1>1, <1>3, <2>1, <2>2, RestoreUnborn
<1>4. CASE RestorePanel
  <2>1. Quiet
    BY <1>4 DEF RestorePanel
  <2> QED BY <1>1, <1>4, <2>1, RestoreUnborn, RestoreChained
<1>5. ASSUME NEW a \in Attempts, Fetch(a) PROVE Unborn(v)' /\ Chained(v)' /\ Banked(v)'
  <2>1. Banked(v)'
    BY <1>5 DEF Fetch, Followed, Banked, Known
  <2> QED BY <1>5, <2>1, FetchUnborn, FetchChained
<1>6. ASSUME NEW a \in Attempts, WriteSync(a) PROVE Unborn(v)' /\ Chained(v)' /\ Banked(v)'
  <2>1. PICK failing : Write(a, failing)
    BY <1>6 DEF WriteSync
  <2> QED BY <2>1, WriteUnborn, WriteChained, WriteBanked
<1>7. CASE Midnight \/ (\E m \in Months : Generate(m)) \/ (\E a \in Attempts : Supersede(a)) \/ UNCHANGED vars
  BY <1>7, OthersFollowed
<1> QED BY <1>2, <1>3, <1>4, <1>5, <1>6, <1>7 DEF Next

LEMMA StartsFollowed == ASSUME Init PROVE Followed
BY DEF Init, Followed, Unborn, Chained, Banked, Known, Current, Sees, Data

\* Metering that fails for a user, a sync that is overtaken and a restored backup lose no
\* usage: while the counter of a cycle has not been reset, the snapshot's running total is
\* the panel's counter.  A cycle that is renewed on the day it began, and a backup that is
\* restored between renewals, are apart: there the date of a cycle does not tell it from
\* another.
THEOREM UsageIsKept == Spec => [](RestoresApart => NothingLost)
<1> DEFINE Inv == Typed /\ (RestoresApart => Followed)
<1>1. Init => Inv
  BY StartsTyped, StartsFollowed
<1>2. Inv /\ [Next]_vars => Inv'
  <2>1. [Next]_vars => RestoresApart' = RestoresApart
    BY WorldStays DEF RestoresApart
  <2> QED BY <2>1, TypesKept, FollowedKept
<1>3. Inv => (RestoresApart => NothingLost)
  BY DEF Followed, Banked, Known, NothingLost
<1> QED BY <1>1, <1>2, <1>3, PTL DEF Spec

-----------------------------------------------------------------------------
(* Sums over finite sets.                                                  *)

\* A nonempty family of parts of a finite set has a minimal one: what induction rests on.
LEMMA MinimalPart ==
    ASSUME NEW S, IsFiniteSet(S), NEW F \in SUBSET SUBSET S, F # {}
    PROVE  \E T \in F : \A U \in F : U \subseteq T => U = T
<1>1. F \subseteq FiniteSubsetsOf(S)
  BY FS_FiniteSubsetsOfFinite
<1>2. \E T \in F : \A U \in F : ~(<<U, T>> \in StrictSubsetOrdering(S))
  BY <1>1, FS_StrictSubsetOrderingWellFounded, WFMin
<1> QED BY <1>2 DEF StrictSubsetOrdering

Pick(s) == CHOOSE x \in s : TRUE
\* h is the running sum of f over every part of S, element by element as SumFunctionOnSet takes them.
Sums(h, f, S) ==
    /\ h \in [SUBSET S -> Int]
    /\ h[{}] = 0
    /\ \A s \in SUBSET S : s # {} => h[s] = f[Pick(s)] + h[s \ {Pick(s)}]

LEMMA PickIn == ASSUME NEW s, s # {} PROVE Pick(s) \in s
BY DEF Pick

\* Two running sums agree where both are defined.
LEMMA SumsUnique ==
    ASSUME NEW f, NEW S, IsFiniteSet(S), NEW R, NEW h, NEW k, Sums(h, f, S), Sums(k, f, R), S \subseteq R
    PROVE  \A s \in SUBSET S : h[s] = k[s]
<1> DEFINE F == {s \in SUBSET S : h[s] # k[s]}
<1> SUFFICES ASSUME F # {} PROVE FALSE
  OBVIOUS
<1>1. PICK T \in F : \A U \in F : U \subseteq T => U = T
  <2>1. F \in SUBSET SUBSET S
    OBVIOUS
  <2> HIDE DEF F
  <2> QED BY <2>1, MinimalPart
<1>2. T # {}
  BY DEF Sums
<1>3. Pick(T) \in T
  BY <1>2, PickIn
<1>4. T \ {Pick(T)} \notin F
  BY <1>1, <1>3
<1>5. h[T \ {Pick(T)}] = k[T \ {Pick(T)}]
  BY <1>4
<1>6. h[T] = f[Pick(T)] + h[T \ {Pick(T)}]
  BY <1>2 DEF Sums
<1>7. k[T] = f[Pick(T)] + k[T \ {Pick(T)}]
  <2>1. T \in SUBSET R
    OBVIOUS
  <2> QED BY <1>2, <2>1 DEF Sums
<1> QED BY <1>5, <1>6, <1>7

\* Every part of a finite set has a running sum.
LEMMA SumsExist ==
    ASSUME NEW S, IsFiniteSet(S), NEW f, \A x \in S : f[x] \in Int
    PROVE  \E h : Sums(h, f, S)
<1> DEFINE F == {s \in SUBSET S : ~\E h : Sums(h, f, s)}
           H(s) == CHOOSE h : Sums(h, f, s)
<1> SUFFICES ASSUME F # {} PROVE FALSE
  OBVIOUS
<1>1. PICK T \in F : \A U \in F : U \subseteq T => U = T
  <2>1. F \in SUBSET SUBSET S
    OBVIOUS
  <2> HIDE DEF F
  <2> QED BY <2>1, MinimalPart
<1>2. ASSUME NEW U \in SUBSET T, U # T PROVE Sums(H(U), f, U)
  <2>1. \E g : Sums(g, f, U)
    BY <1>1, <1>2
  <2> QED BY <2>1
<1>3. T # {}
  <2>1. Sums([s \in SUBSET {} |-> 0], f, {})
    BY DEF Sums
  <2> QED BY <2>1, <1>1
<1>4. Pick(T) \in T /\ T \ {Pick(T)} # T /\ f[Pick(T)] \in Int
  BY <1>3, PickIn
<1> DEFINE V(s) == H(s)[s]
           h == [s \in SUBSET T |-> IF s = T THEN f[Pick(T)] + V(T \ {Pick(T)}) ELSE V(s)]
<1>5. ASSUME NEW s \in SUBSET T, s # T PROVE V(s) \in Int
  <2>1. Sums(H(s), f, s)
    BY <1>2, <1>5
  <2> HIDE DEF H
  <2> QED BY <2>1 DEF Sums
<1>6. ASSUME NEW s \in SUBSET T, s # T, s # {}
      PROVE  V(s) = f[Pick(s)] + V(s \ {Pick(s)})
  <2> DEFINE r == s \ {Pick(s)}
  <2>1. Pick(s) \in s /\ r \in SUBSET s /\ r # T /\ r \in SUBSET T
    BY <1>6, PickIn
  <2>2. Sums(H(s), f, s) /\ Sums(H(r), f, r)
    BY <1>2, <1>6, <2>1
  <2>3. IsFiniteSet(r)
    BY <2>1, FS_Subset
  <2> HIDE DEF H, r
  <2>4. H(r)[r] = H(s)[r]
    BY <2>1, <2>2, <2>3, SumsUnique
  <2>5. H(s)[s] = f[Pick(s)] + H(s)[r]
    BY <2>2, <1>6 DEF Sums, r
  <2> QED BY <2>4, <2>5 DEF r
<1>7. V({}) = 0
  BY <1>2, <1>3 DEF Sums
<1> HIDE DEF H, V
<1>8. h \in [SUBSET T -> Int]
  BY <1>4, <1>5
<1>9. h[{}] = 0
  BY <1>3, <1>7
<1>10. ASSUME NEW s \in SUBSET T, s # {} PROVE h[s] = f[Pick(s)] + h[s \ {Pick(s)}]
  <2>1. Pick(s) \in s /\ s \ {Pick(s)} # T /\ s \ {Pick(s)} \in SUBSET T
    BY <1>10, PickIn
  <2>2. h[s \ {Pick(s)}] = V(s \ {Pick(s)})
    BY <2>1
  <2>3. CASE s = T
    BY <2>2, <2>3
  <2>4. CASE s # T
    BY <2>2, <2>4, <1>6, <1>10
  <2> QED BY <2>3, <2>4
<1> HIDE DEF h
<1>11. Sums(h, f, T)
  BY <1>8, <1>9, <1>10 DEF Sums
<1> QED BY <1>11, <1>1

LEMMA SumUnfolds ==
    ASSUME NEW S, IsFiniteSet(S), NEW f, \A x \in S : f[x] \in Int
    PROVE  \E h : Sums(h, f, S) /\ SumFunctionOnSet(f, S) = h[S]
<1> DEFINE Body(g) == [s \in SUBSET S |-> IF s = {} THEN 0
                          ELSE LET x == CHOOSE x \in s : TRUE IN f[x] + g[s \ {x}]]
           iter == CHOOSE g : g = Body(g)
<1>1. SumFunctionOnSet(f, S) = iter[S]
  BY DEF SumFunctionOnSet, FoldFunctionOnSet, MapThenFoldSet
<1>2. PICK k : Sums(k, f, S)
  BY SumsExist
<1>3. k = Body(k)
  <2>1. ASSUME NEW s \in SUBSET S PROVE k[s] = Body(k)[s]
    BY <1>2 DEF Sums, Pick
  <2>2. k \in [SUBSET S -> Int]
    BY <1>2 DEF Sums
  <2> QED BY <2>1, <2>2
<1>4. iter = Body(iter)
  BY <1>3
<1> HIDE DEF iter
<1>5. \A s \in SUBSET S : iter[s] = IF s = {} THEN 0 ELSE f[Pick(s)] + iter[s \ {Pick(s)}]
  BY <1>4 DEF Pick
<1>6. \A s \in SUBSET S : iter[s] = k[s]
  <2> DEFINE F == {s \in SUBSET S : iter[s] # k[s]}
  <2> SUFFICES ASSUME F # {} PROVE FALSE
    OBVIOUS
  <2>1. PICK T \in F : \A U \in F : U \subseteq T => U = T
    <3>1. F \in SUBSET SUBSET S
      OBVIOUS
    <3> HIDE DEF F
    <3> QED BY <3>1, MinimalPart
  <2>2. T \in SUBSET S /\ iter[T] # k[T]
    OBVIOUS
  <2>3. k[{}] = 0 /\ (T # {} => k[T] = f[Pick(T)] + k[T \ {Pick(T)}])
    BY <1>2, <2>2 DEF Sums
  <2>4. T # {}
    BY <1>5, <2>2, <2>3
  <2>5. Pick(T) \in T
    BY <2>4, PickIn
  <2>6. T \ {Pick(T)} \notin F
    BY <2>1, <2>5
  <2>7. iter[T \ {Pick(T)}] = k[T \ {Pick(T)}]
    BY <2>6, <2>2
  <2>8. iter[T] = f[Pick(T)] + iter[T \ {Pick(T)}]
    BY <1>5, <2>2, <2>4
  <2> QED BY <2>2, <2>3, <2>4, <2>7, <2>8
<1> QED BY <1>1, <1>2, <1>6

LEMMA SumType ==
    ASSUME NEW S, IsFiniteSet(S), NEW f, \A x \in S : f[x] \in Int
    PROVE  SumFunctionOnSet(f, S) \in Int
<1>1. PICK h : Sums(h, f, S) /\ SumFunctionOnSet(f, S) = h[S]
  BY SumUnfolds
<1> QED BY <1>1 DEF Sums

\* The order does not matter: any element may be taken out first.
LEMMA SumSplits ==
    ASSUME NEW S, IsFiniteSet(S), NEW f, \A x \in S : f[x] \in Int, NEW e \in S
    PROVE  SumFunctionOnSet(f, S) = f[e] + SumFunctionOnSet(f, S \ {e})
<1>1. PICK h : Sums(h, f, S) /\ SumFunctionOnSet(f, S) = h[S]
  BY SumUnfolds
<1>2. ASSUME NEW T \in SUBSET S PROVE SumFunctionOnSet(f, T) = h[T]
  <2>1. IsFiniteSet(T) /\ \A x \in T : f[x] \in Int
    BY FS_Subset
  <2>2. PICK k : Sums(k, f, T) /\ SumFunctionOnSet(f, T) = k[T]
    BY <2>1, SumUnfolds
  <2>3. k[T] = h[T]
    BY <1>1, <2>1, <2>2, SumsUnique
  <2> QED BY <2>2, <2>3
<1> DEFINE F == {T \in SUBSET S : \E x \in T : h[T] # f[x] + h[T \ {x}]}
<1> SUFFICES ASSUME F # {} PROVE FALSE
  <2>1. ASSUME F = {} PROVE h[S] = f[e] + h[S \ {e}]
    BY <2>1
  <2>2. SumFunctionOnSet(f, S \ {e}) = h[S \ {e}]
    BY <1>2
  <2> HIDE DEF F
  <2> QED BY <1>1, <2>1, <2>2
<1>3. PICK T \in F : \A U \in F : U \subseteq T => U = T
  <2>1. F \in SUBSET SUBSET S
    OBVIOUS
  <2> HIDE DEF F
  <2> QED BY <2>1, MinimalPart
<1>4. PICK x \in T : h[T] # f[x] + h[T \ {x}]
  OBVIOUS
<1> DEFINE p == Pick(T)
<1>5. p \in T /\ T \in SUBSET S
  BY <1>4, PickIn
<1>6. h[T] = f[p] + h[T \ {p}]
  BY <1>1, <1>5 DEF Sums
<1>7. p # x
  BY <1>4, <1>6
<1>8. T \ {p} \notin F /\ T \ {x} \notin F
  BY <1>3, <1>4, <1>5
<1>9. h[T \ {p}] = f[x] + h[(T \ {p}) \ {x}]
  BY <1>4, <1>5, <1>7, <1>8
<1>10. h[T \ {x}] = f[p] + h[(T \ {p}) \ {x}]
  <2>1. (T \ {x}) \ {p} = (T \ {p}) \ {x}
    OBVIOUS
  <2>2. h[T \ {x}] = f[p] + h[(T \ {x}) \ {p}]
    BY <1>4, <1>5, <1>7, <1>8
  <2> QED BY <2>1, <2>2
<1>11. f[p] + (f[x] + h[(T \ {p}) \ {x}]) # f[x] + (f[p] + h[(T \ {p}) \ {x}])
  BY <1>4, <1>6, <1>9, <1>10
<1>12. f[p] \in Int /\ f[x] \in Int /\ h[(T \ {p}) \ {x}] \in Int
  <2>1. (T \ {p}) \ {x} \in SUBSET S
    BY <1>5
  <2> QED BY <1>1, <1>4, <1>5, <2>1 DEF Sums
<1> HIDE DEF F, p
<1> QED BY <1>11, <1>12

\* Only the values on the set matter.
LEMMA SumSame ==
    ASSUME NEW S, IsFiniteSet(S), NEW f, NEW g, \A x \in S : f[x] \in Int /\ f[x] = g[x]
    PROVE  SumFunctionOnSet(f, S) = SumFunctionOnSet(g, S)
<1>1. PICK h : Sums(h, f, S) /\ SumFunctionOnSet(f, S) = h[S]
  BY SumUnfolds
<1>2. PICK k : Sums(k, g, S) /\ SumFunctionOnSet(g, S) = k[S]
  BY SumUnfolds
<1>3. Sums(h, g, S)
  BY <1>1, PickIn DEF Sums
<1>4. h[S] = k[S]
  BY <1>2, <1>3, SumsUnique
<1> QED BY <1>1, <1>2, <1>4

-----------------------------------------------------------------------------
(* Metered overage is real.                                                *)

\* No backup is restored, and no cycle is renewed on the day it began.
NoRestores == world \cap {"backup", "renew same day"} = {}

Taken(u) == Total([m \in Months |-> meter[u][m].over])
Plain(p) == p.limit = p.quota /\ p.used <= p.spent /\ (p.start = 0 => p.used = 0)
SameCycle(s, p) == s.start = p.start /\ p.start # 0
\* What a look at p adds to a running total that saw s last, and what of it is beyond the quota
\* when that total is c.
Gain(s, p) ==
    IF p.used < s.used THEN (IF p.used <= ResetFloor THEN p.used ELSE 0) ELSE p.used - s.used
Beyond(c, s, p) == IF SameCycle(s, p) THEN Minus(Gain(s, p), Minus(p.limit, c)) ELSE 0
\* With the total c and overage t after the look at s, a look at p meters no more than real
\* excess e.
Linked(c, t, s, p, e) ==
    /\ SameCycle(s, p) => c + Gain(s, p) <= p.spent
    /\ t + Beyond(c, s, p) <= e
\* Total and overage when the fetch that saw p is written.
TotalAt(u, p) == IF Known(u) /\ SameCycle(snap[u], p) THEN snap[u].cons + Gain(snap[u], p) ELSE p.used
TakenAt(u, p) == Taken(u) + (IF Known(u) THEN Beyond(snap[u].cons, snap[u], p) ELSE 0)

Metered(u) ==
    /\ Known(u) /\ snap[u].start # 0 => snap[u].prov = snap[u].limit
    /\ Taken(u) <= excess[u]
    /\ panel[u] # None =>
        /\ Plain(panel[u])
        /\ Known(u) => Linked(snap[u].cons, Taken(u), snap[u], panel[u], excess[u])
    /\ \A a \in Attempts : Current(a) /\ Sees(a, u) =>
        /\ Plain(Data(a)[u]) /\ TakenAt(u, Data(a)[u]) <= excess[u]
        /\ panel[u] # None =>
            Linked(TotalAt(u, Data(a)[u]), TakenAt(u, Data(a)[u]), Data(a)[u], panel[u], excess[u])
Fair == \A u \in Users : Metered(u)

\* Overage is a number, and a month's entry counts once.
LEMMA MonthsFinite == IsFiniteSet(Months)
BY FS_Interval, MonthsAreNumbers, DaysAssumption DEF Months

LEMMA TakenTyped ==
    ASSUME Typed, NEW u \in Users PROVE Taken(u) \in Int
<1> DEFINE f == [m \in Months |-> meter[u][m].over]
<1>1. \A m \in Months : f[m] \in Int
  BY DEF Typed, TypeOK, Meter
<1>2. SumFunctionOnSet(f, Months) \in Int
  BY <1>1, MonthsFinite, SumType
<1> QED BY <1>2 DEF Taken, Total

LEMMA TakenGrows ==
    ASSUME Typed, NEW u \in Users, NEW x \in Int, NEW r \in Meter,
           r.over = meter[u][Month].over + x,
           meter'[u] = [meter[u] EXCEPT ![Month] = r]
    PROVE  Taken(u)' = Taken(u) + x
<1> DEFINE f == [m \in Months |-> meter[u][m].over]
           g == [m \in Months |-> meter'[u][m].over]
<1>1. \A m \in Months : f[m] \in Int
  BY DEF Typed, TypeOK, Meter
<1>2. meter[u] \in [Months -> Meter] /\ Month \in Months
  BY DEF Typed, TypeOK, History
<1>3. \A m \in Months : g[m] \in Int /\ (m # Month => g[m] = f[m])
  BY <1>1, <1>2 DEF Meter
<1>4. g[Month] = f[Month] + x
  BY <1>2
<1>5. IsFiniteSet(Months) /\ IsFiniteSet(Months \ {Month})
  BY MonthsFinite, FS_Subset
<1> HIDE DEF f, g
<1>6. SumFunctionOnSet(f, Months) = f[Month] + SumFunctionOnSet(f, Months \ {Month})
  BY <1>1, <1>2, <1>5, SumSplits
<1>7. SumFunctionOnSet(g, Months) = g[Month] + SumFunctionOnSet(g, Months \ {Month})
  BY <1>2, <1>3, <1>5, SumSplits
<1>8. SumFunctionOnSet(f, Months \ {Month}) = SumFunctionOnSet(g, Months \ {Month})
  BY <1>1, <1>3, <1>5, SumSame
<1>9. SumFunctionOnSet(f, Months \ {Month}) \in Int
  BY <1>1, <1>5, SumType
<1>10. SumFunctionOnSet(g, Months) = SumFunctionOnSet(f, Months) + x
  BY <1>1, <1>2, <1>4, <1>6, <1>7, <1>8, <1>9
<1>11. Taken(u) = SumFunctionOnSet(f, Months)
  BY DEF Taken, Total, f
<1>12. Taken(u)' = SumFunctionOnSet(g, Months)
  BY DEF Taken, Total, g, Months, MonthOf
<1> QED BY <1>10, <1>11, <1>12

LEMMA TakenStays ==
    ASSUME NEW u \in Users, meter'[u] = meter[u] PROVE Taken(u)' = Taken(u)
BY DEF Taken, Total, Months, MonthOf

LEMMA BeyondTyped ==
    ASSUME NEW s, Mark(s), NEW p \in PanelUser, NEW c \in Nat
    PROVE  Gain(s, p) \in Nat /\ Beyond(c, s, p) \in Nat
<1>1. s.used \in Nat /\ p.used \in Nat /\ p.limit \in Nat
  BY PanelFields DEF Mark
<1>2. Gain(s, p) \in Nat
  BY <1>1 DEF Gain
<1>3. Minus(p.limit, c) \in Nat
  BY <1>1, Differences
<1>4. Minus(Gain(s, p), Minus(p.limit, c)) \in Nat
  BY <1>2, <1>3, Differences
<1> QED BY <1>2, <1>4 DEF Beyond

\* A smaller total leaves more of the quota.
LEMMA LinkedLower ==
    ASSUME NEW s, Mark(s), NEW p \in PanelUser, NEW c \in Nat, NEW b \in Nat, b <= c,
           NEW t \in Int, NEW r \in Int, r <= t, NEW e \in Int, Linked(c, t, s, p, e)
    PROVE  Linked(b, r, s, p, e)
<1>1. p.limit \in Nat /\ p.spent \in Nat /\ Gain(s, p) \in Nat
  BY PanelFields, BeyondTyped
<1>2. Beyond(b, s, p) \in Nat /\ Beyond(c, s, p) \in Nat /\ Beyond(b, s, p) <= Beyond(c, s, p)
  BY <1>1, BeyondTyped DEF Beyond, Minus
<1>3. t + Beyond(c, s, p) <= e
  BY DEF Linked
<1>4. r + Beyond(b, s, p) <= e
  BY <1>2, <1>3
<1>5. SameCycle(s, p) => b + Gain(s, p) <= p.spent
  BY <1>1 DEF Linked
<1> QED BY <1>4, <1>5 DEF Linked

\* Another cycle is no longer compared.
LEMMA LinkedApart ==
    ASSUME NEW s, Mark(s), NEW p \in PanelUser, NEW c \in Nat, NEW t \in Int, NEW e \in Int,
           Linked(c, t, s, p, e), NEW q, ~SameCycle(s, q), NEW f \in Int, e <= f
    PROVE  Linked(c, t, s, q, f)
<1>1. Beyond(c, s, p) \in Nat /\ t + Beyond(c, s, p) <= e
  BY BeyondTyped DEF Linked
<1>2. t + 0 <= f
  BY <1>1
<1> QED BY <1>2 DEF Linked, Beyond

\* The fetch that saw p becomes the snapshot.
LEMMA LinkedNext ==
    ASSUME NEW p \in PanelUser, NEW q \in PanelUser, NEW b \in Nat, NEW c \in Nat, p.start # 0 => c <= b,
           NEW g \in Int, NEW t \in Int, t <= g, NEW e \in Nat, Linked(b, g, p, q, e)
    PROVE  Linked(c, t, p, q, e)
<1>1. Mark(p)
  BY MarksOf
<1>2. CASE p.start # 0
  BY <1>1, <1>2, LinkedLower
<1>3. CASE p.start = 0
  <2>1. ~SameCycle(p, q)
    BY <1>3 DEF SameCycle
  <2>2. g + 0 <= e
    BY <2>1 DEF Linked, Beyond
  <2>3. t + 0 <= e
    BY <2>2
  <2> QED BY <2>1, <2>3 DEF Linked, Beyond
<1> QED BY <1>2, <1>3

LEMMA LinkedConsume ==
    ASSUME NEW s, Mark(s), NEW p \in PanelUser, NEW q \in PanelUser, NEW c \in Nat, NEW t \in Int,
           NEW e \in Nat, NEW f, NEW d \in Nat, d > 0,
           Plain(p), LaterRenewed(s, p, d), Linked(c, t, s, p, e),
           q.used = p.used + 1, q.spent = p.spent + 1, q.limit = p.limit, q.quota = p.quota,
           q.start = IF p.start = 0 THEN d ELSE p.start,
           f = e + (IF p.spent + 1 > p.quota THEN 1 ELSE 0)
    PROVE  Linked(c, t, s, q, f)
<1>1. /\ p.limit \in Nat /\ p.spent \in Nat /\ p.used \in Nat /\ s.used \in Nat /\ s.start \in Nat
      /\ p.start \in Nat /\ q.start \in Nat /\ f \in Nat /\ f >= e /\ ResetFloor \in Nat
      /\ p.quota = p.limit
  BY PanelFields, MarksOf, ResetFloorIsANumber DEF Mark, Plain
<1>2. CASE ~SameCycle(s, q)
  BY <1>1, <1>2, LinkedApart
<1>3. CASE SameCycle(s, q)
  <2>1. p.start # 0
    BY <1>1, <1>3 DEF SameCycle, LaterRenewed
  <2>2. SameCycle(s, p)
    BY <1>3, <2>1 DEF SameCycle
  <2>3. Gain(s, p) \in Nat /\ Gain(s, q) \in Nat /\ Gain(s, q) <= Gain(s, p) + 1
    BY <1>1 DEF Gain
  <2>4. c + Gain(s, p) <= p.spent
    BY <2>2 DEF Linked
  <2>5. c + Gain(s, q) <= q.spent
    BY <1>1, <2>3, <2>4
  <2>6. t + Minus(Gain(s, p), Minus(p.limit, c)) <= e
    BY <2>2 DEF Linked, Beyond
  <2> DEFINE g == Gain(s, p)
             h == Gain(s, q)
             l == p.limit
             room == Minus(l, c)
  <2>7. room \in Nat /\ (c <= l => room = l - c) /\ (c > l => room = 0)
    BY <1>1 DEF Minus
  <2> HIDE DEF g, h, l, room
  <2>8. g \in Nat /\ h \in Nat /\ h <= g + 1 /\ l \in Nat /\ c + g <= p.spent /\ t + Minus(g, room) <= e
    BY <1>1, <2>3, <2>4, <2>6 DEF g, h, l, room
  <2>9. f = e + (IF p.spent + 1 > l THEN 1 ELSE 0)
    BY <1>1 DEF l
  <2>10. t + Minus(h, room) <= f
    <3>1. CASE h <= room
      <4>1. Minus(h, room) = 0 /\ Minus(g, room) \in Nat
        BY <2>7, <2>8, <3>1 DEF Minus
      <4> QED BY <1>1, <2>8, <4>1
    <3>2. CASE h > room /\ h <= g
      <4>1. Minus(h, room) <= Minus(g, room) /\ Minus(h, room) \in Nat /\ Minus(g, room) \in Nat
        BY <2>7, <2>8, <3>2 DEF Minus
      <4> QED BY <1>1, <2>8, <4>1
    <3>3. CASE h > room /\ h = g + 1
      <4>1. p.spent + 1 > l
        BY <1>1, <2>7, <2>8, <3>3
      <4>2. f = e + 1
        BY <2>9, <4>1
      <4>3. Minus(h, room) = Minus(g, room) + 1 /\ Minus(g, room) \in Nat
        BY <2>7, <2>8, <3>3 DEF Minus
      <4> QED BY <2>8, <4>2, <4>3
    <3> QED BY <2>7, <2>8, <3>1, <3>2, <3>3
  <2>11. Beyond(c, s, q) = Minus(h, room)
    BY <1>3 DEF Beyond, h, room, l
  <2> QED BY <2>5, <2>10, <2>11 DEF Linked
<1> QED BY <1>2, <1>3

LEMMA LinkedReset ==
    ASSUME NEW s, Mark(s), NEW p \in PanelUser, NEW q \in PanelUser, NEW c \in Nat, NEW t \in Int,
           NEW e \in Int, Linked(c, t, s, p, e),
           q.used = 0, q.spent = p.spent, q.limit = p.limit, q.start = p.start
    PROVE  Linked(c, t, s, q, e)
<1>1. /\ p.limit \in Nat /\ p.spent \in Nat /\ p.used \in Nat /\ s.used \in Nat /\ ResetFloor \in Nat
      /\ Gain(s, p) \in Nat /\ Beyond(c, s, p) \in Nat
  BY PanelFields, ResetFloorIsANumber, BeyondTyped DEF Mark
<1>2. Gain(s, q) = 0 /\ (SameCycle(s, q) <=> SameCycle(s, p))
  BY <1>1 DEF Gain, SameCycle
<1>3. Minus(p.limit, c) \in Nat
  BY <1>1, Differences
<1>4. Minus(0, Minus(p.limit, c)) = 0
  BY <1>3 DEF Minus
<1>5. Beyond(c, s, q) = 0
  BY <1>2, <1>4 DEF Beyond
<1> QED BY <1>1, <1>2, <1>5 DEF Linked

LEMMA LinkedEdit ==
    ASSUME NEW s, Mark(s), NEW p \in PanelUser, NEW q \in PanelUser, NEW c \in Nat, NEW t \in Int,
           NEW e \in Int, Linked(c, t, s, p, e),
           q.used = p.used, q.spent = p.spent, q.limit = p.limit + 1, q.start = p.start
    PROVE  Linked(c, t, s, q, e)
<1>1. p.limit \in Nat /\ p.spent \in Nat /\ Gain(s, p) \in Nat
  BY PanelFields, BeyondTyped
<1>2. Gain(s, q) = Gain(s, p) /\ (SameCycle(s, q) <=> SameCycle(s, p))
  BY DEF Gain, SameCycle
<1>3. Beyond(c, s, q) \in Nat /\ Beyond(c, s, p) \in Nat /\ Beyond(c, s, q) <= Beyond(c, s, p)
  BY <1>1, <1>2, BeyondTyped DEF Beyond, Minus
<1>4. t + Beyond(c, s, p) <= e
  BY DEF Linked
<1>5. t + Beyond(c, s, q) <= e
  BY <1>3, <1>4
<1> QED BY <1>2, <1>5 DEF Linked

LEMMA LinkedRenew ==
    ASSUME NEW s, Mark(s), NEW p \in PanelUser, NEW q \in PanelUser, NEW c \in Nat, NEW t \in Int,
           NEW e \in Int, NEW d \in Nat, LaterRenewed(s, p, d), Linked(c, t, s, p, e),
           p.start # 0, p.start < d, q.start \in {0, d}
    PROVE  Linked(c, t, s, q, e)
<1>1. s.start \in Nat /\ p.start \in Nat
  BY MarksOf DEF Mark
<1>2. ~SameCycle(s, q)
  BY <1>1 DEF SameCycle, LaterRenewed
<1> QED BY <1>2, LinkedApart

\* Nothing has been used since a look at the same state.
LEMMA LinkedSelf ==
    ASSUME NEW p \in PanelUser, NEW c \in Nat, NEW t \in Int, NEW e \in Int, c <= p.spent, t <= e
    PROVE  Linked(c, t, p, p, e)
<1>1. p.used \in Nat /\ p.limit \in Nat /\ p.spent \in Nat
  BY PanelFields
<1>2. Gain(p, p) = 0
  BY <1>1 DEF Gain
<1>3. Minus(p.limit, c) \in Nat
  BY <1>1, Differences
<1>4. Minus(0, Minus(p.limit, c)) = 0
  BY <1>3 DEF Minus
<1>5. Beyond(c, p, p) = 0
  BY <1>2, <1>4 DEF Beyond
<1> QED BY <1>1, <1>2, <1>5 DEF Linked

LEMMA AtTyped ==
    ASSUME Typed, NEW u \in Users, NEW p \in PanelUser
    PROVE  TotalAt(u, p) \in Nat /\ TakenAt(u, p) \in Int
<1>1. p.used \in Nat /\ Taken(u) \in Int
  BY PanelFields, TakenTyped
<1>2. CASE Known(u)
  <2>1. snap[u] \in Snapshot /\ Mark(snap[u]) /\ snap[u].cons \in Nat
    BY <1>2, MarksOf, SnapshotFields DEF Known, Typed, TypeOK
  <2>2. Gain(snap[u], p) \in Nat /\ Beyond(snap[u].cons, snap[u], p) \in Nat
    BY <2>1, BeyondTyped
  <2> QED BY <1>1, <1>2, <2>1, <2>2 DEF TotalAt, TakenAt
<1> QED BY <1>1, <1>2 DEF TotalAt, TakenAt

\* The links are kept when a user on the panel moves on.
KeepsLinks(u) ==
    /\ excess'[u] \in Nat /\ excess'[u] >= excess[u]
    /\ panel'[u] # None => panel[u] # None /\ Plain(panel'[u])
    /\ \A s : \A c \in Nat, t \in Int :
        Mark(s) /\ panel'[u] # None /\ LaterRenewed(s, panel[u], day) /\ Linked(c, t, s, panel[u], excess[u])
          => Linked(c, t, s, panel'[u], excess'[u])

LEMMA MeteredOnward ==
    ASSUME Typed, Followed, "backup" \notin world, Quiet, NEW u \in Users, Metered(u), KeepsLinks(u)
    PROVE  Metered(u)'
<1> USE PanelLeaves
<1>1. Taken(u)' = Taken(u)
  BY TakenStays DEF Quiet
<1>2. \A p : TotalAt(u, p)' = TotalAt(u, p) /\ TakenAt(u, p)' = TakenAt(u, p)
  BY <1>1 DEF TotalAt, TakenAt
<1>3. excess[u] \in Nat /\ excess'[u] \in Nat /\ excess'[u] >= excess[u] /\ Taken(u) \in Int
  BY TakenTyped DEF KeepsLinks, Typed, History
<1>4. Taken(u) <= excess'[u]
  BY <1>3 DEF Metered
<1>5. ASSUME Known(u), panel'[u] # None
      PROVE  Linked(snap[u].cons, Taken(u), snap[u], panel'[u], excess'[u])
  <2>1. snap[u] \in Snapshot /\ Mark(snap[u]) /\ snap[u].cons \in Nat /\ panel[u] # None
    BY <1>5, MarksOf, SnapshotFields DEF Known, Typed, TypeOK, KeepsLinks
  <2>2. Later(snap[u], panel[u], day)
    BY <1>5, <2>1 DEF Followed, Chained
  <2>3. LaterRenewed(snap[u], panel[u], day)
    BY <2>2 DEF Later
  <2>4. Linked(snap[u].cons, Taken(u), snap[u], panel[u], excess[u])
    BY <1>5, <2>1 DEF Metered
  <2> QED BY <1>3, <1>5, <2>1, <2>3, <2>4 DEF KeepsLinks
<1>6. ASSUME NEW a \in Attempts, Current(a), Sees(a, u)
      PROVE  /\ Plain(Data(a)[u]) /\ TakenAt(u, Data(a)[u]) <= excess'[u]
             /\ panel'[u] # None =>
                 Linked(TotalAt(u, Data(a)[u]), TakenAt(u, Data(a)[u]), Data(a)[u], panel'[u], excess'[u])
  <2> DEFINE p == Data(a)[u]
  <2>1. p \in PanelUser
    BY <1>6, ReadsTyped DEF Current, Sees
  <2>2. Mark(p) /\ TotalAt(u, p) \in Nat /\ TakenAt(u, p) \in Int
    BY <2>1, MarksOf, AtTyped
  <2>3. Plain(p) /\ TakenAt(u, p) <= excess[u]
    BY <1>6 DEF Metered
  <2>4. TakenAt(u, p) <= excess'[u]
    BY <1>3, <2>2, <2>3
  <2>5. ASSUME panel'[u] # None PROVE Linked(TotalAt(u, p), TakenAt(u, p), p, panel'[u], excess'[u])
    <3>1. panel[u] # None
      BY <2>5 DEF KeepsLinks
    <3>2. Later(p, panel[u], day) /\ Linked(TotalAt(u, p), TakenAt(u, p), p, panel[u], excess[u])
      BY <1>6, <3>1 DEF Followed, Chained, Metered
    <3>3. LaterRenewed(p, panel[u], day)
      BY <3>2 DEF Later
    <3> HIDE DEF p
    <3> QED BY <2>2, <2>5, <3>2, <3>3 DEF KeepsLinks
  <2> QED BY <2>3, <2>4, <2>5
<1>7. (/\ Known(u) /\ snap[u].start # 0 => snap[u].prov = snap[u].limit
       /\ Taken(u) <= excess[u]
       /\ panel[u] # None =>
           /\ Plain(panel[u])
           /\ Known(u) => Linked(snap[u].cons, Taken(u), snap[u], panel[u], excess[u]))'
  BY <1>1, <1>4, <1>5 DEF Metered, KeepsLinks, Linked, Beyond, Gain, SameCycle, Plain
<1>8. \A a \in Attempts : (Current(a) /\ Sees(a, u))' =>
        (/\ Plain(Data(a)[u]) /\ TakenAt(u, Data(a)[u]) <= excess[u]
         /\ panel[u] # None =>
             Linked(TotalAt(u, Data(a)[u]), TakenAt(u, Data(a)[u]), Data(a)[u], panel[u], excess[u]))'
  BY <1>2, <1>6 DEF Plain, Linked, Beyond, Gain, SameCycle
<1> QED BY <1>7, <1>8 DEF Metered

LEMMA ConsumeLinks ==
    ASSUME Typed, NEW u \in Users, Metered(u), Consume(u) PROVE KeepsLinks(u)
<1> DEFINE p == panel[u]
           q == panel'[u]
<1>1. p \in PanelUser /\ p # None /\ day \in Nat /\ day > 0 /\ excess[u] \in Nat /\ Plain(p)
  BY DaysAssumption DEF Typed, TypeOK, History, Consume, OnPanel, Metered
<1>2. /\ q.used = p.used + 1 /\ q.spent = p.spent + 1 /\ q.limit = p.limit /\ q.quota = p.quota
      /\ q.start = IF p.start = 0 THEN day ELSE p.start
  BY <1>1 DEF Typed, TypeOK, Consume, PanelUser
<1>3. excess'[u] = excess[u] + (IF p.spent + 1 > p.quota THEN 1 ELSE 0)
  BY DEF Typed, History, Consume
<1>4. q # None => q \in PanelUser
  BY ConsumeTyped DEF PanelStep
<1>5. excess'[u] \in Nat /\ excess'[u] >= excess[u]
  BY <1>1, <1>3
<1>6. Plain(q)
  <2>1. p.used \in Nat /\ p.spent \in Nat
    BY <1>1, PanelFields
  <2> QED BY <1>1, <1>2, <2>1 DEF Plain
<1> HIDE DEF p, q
<1>7. ASSUME NEW s, NEW c \in Nat, NEW t \in Int, Mark(s), q # None, LaterRenewed(s, p, day),
             Linked(c, t, s, p, excess[u])
      PROVE  Linked(c, t, s, q, excess'[u])
  BY <1>1, <1>2, <1>3, <1>4, <1>7, LinkedConsume
<1> QED BY <1>1, <1>5, <1>6, <1>7 DEF KeepsLinks, p, q

LEMMA ResetLinks ==
    ASSUME Typed, NEW u \in Users, Metered(u), ResetUsage(u) PROVE KeepsLinks(u)
<1> DEFINE p == panel[u]
           q == panel'[u]
<1>1. p \in PanelUser /\ p # None /\ excess[u] \in Nat /\ excess'[u] = excess[u] /\ Plain(p)
  BY DEF Typed, TypeOK, History, ResetUsage, OnPanel, Metered
<1>2. /\ q.used = 0 /\ q.spent = p.spent /\ q.limit = p.limit /\ q.quota = p.quota /\ q.start = p.start
  BY <1>1 DEF Typed, TypeOK, ResetUsage, PanelUser
<1>3. q # None => q \in PanelUser
  BY ResetTyped DEF PanelStep
<1>4. Plain(q) /\ excess'[u] >= excess[u]
  <2>1. p.spent \in Nat
    BY <1>1, PanelFields
  <2> QED BY <1>1, <1>2, <2>1 DEF Plain
<1> HIDE DEF p, q
<1>5. ASSUME NEW s, NEW c \in Nat, NEW t \in Int, Mark(s), q # None, Linked(c, t, s, p, excess[u])
      PROVE  Linked(c, t, s, q, excess'[u])
  BY <1>1, <1>2, <1>3, <1>5, LinkedReset
<1> QED BY <1>1, <1>4, <1>5 DEF KeepsLinks, p, q

LEMMA EditLinks ==
    ASSUME Typed, NEW u \in Users, Metered(u), EditQuota(u) PROVE KeepsLinks(u)
<1> DEFINE p == panel[u]
           q == panel'[u]
<1>1. p \in PanelUser /\ p # None /\ excess[u] \in Nat /\ excess'[u] = excess[u] /\ Plain(p)
  BY DEF Typed, TypeOK, History, EditQuota, OnPanel, Metered
<1>2. /\ q.used = p.used /\ q.spent = p.spent /\ q.limit = p.limit + 1 /\ q.quota = p.quota + 1
      /\ q.start = p.start
  BY <1>1 DEF Typed, TypeOK, EditQuota, PanelUser
<1>3. q # None => q \in PanelUser
  BY EditTyped DEF PanelStep
<1>4. Plain(q) /\ excess'[u] >= excess[u]
  BY <1>1, <1>2 DEF Plain
<1> HIDE DEF p, q
<1>5. ASSUME NEW s, NEW c \in Nat, NEW t \in Int, Mark(s), q # None, Linked(c, t, s, p, excess[u])
      PROVE  Linked(c, t, s, q, excess'[u])
  BY <1>1, <1>2, <1>3, <1>5, LinkedEdit
<1> QED BY <1>1, <1>4, <1>5 DEF KeepsLinks, p, q

LEMMA RenewLinks ==
    ASSUME Typed, NEW u \in Users, Metered(u), NEW gb \in Nat, NEW used \in Nat, NEW start \in {0, day},
           start = 0 => used = 0, panel[u] # None, panel[u].start # 0, panel[u].start < day,
           ops' \in Nat, Renew(u, gb, used, start)
    PROVE  KeepsLinks(u)
<1> DEFINE p == panel[u]
           q == panel'[u]
<1>1. /\ p \in PanelUser /\ p # None /\ excess[u] \in Nat /\ excess'[u] = excess[u] /\ day \in Nat
      /\ start \in 0..MaxDay /\ p.start # 0 /\ p.start < day
  BY DaysAssumption DEF Typed, TypeOK, History, Renew
<1>2. q = [Fresh(gb, used, start) EXCEPT !.restores = panel[u].restores]
  BY DEF Typed, TypeOK, Renew
<1>3. q.used = used /\ q.spent = used /\ q.limit = used + gb /\ q.quota = used + gb /\ q.start = start
  BY <1>2 DEF Fresh
<1>4. q # None => q \in PanelUser
  BY <1>1, RenewTyped DEF PanelStep
<1>5. Plain(q) /\ excess'[u] >= excess[u]
  BY <1>1, <1>3 DEF Plain
<1> HIDE DEF p, q
<1>6. ASSUME NEW s, NEW c \in Nat, NEW t \in Int, Mark(s), q # None, LaterRenewed(s, p, day),
             Linked(c, t, s, p, excess[u])
      PROVE  Linked(c, t, s, q, excess'[u])
  BY <1>1, <1>3, <1>4, <1>6, LinkedRenew
<1> QED BY <1>1, <1>5, <1>6 DEF KeepsLinks, p, q

LEMMA RenewalsLinks ==
    ASSUME Typed, NoRestores, NEW u \in Users, Metered(u), NEW gb \in Sizes,
           RenewTarget(u, gb) \/ RenewButton(u, gb) \/ RenewCarry(u, gb)
    PROVE  KeepsLinks(u)
<1>1. world \in Worlds /\ day \in Nat /\ gb \in Nat
  BY DaysAssumption, SizesAreNumbers DEF Typed, TypeOK, History
<1>2. panel[u] # None
  BY DEF RenewTarget, RenewButton, RenewCarry, OnPanel
<1>3. panel[u].used \in Nat /\ ops' \in Nat
  BY <1>2, OnCounts, PanelFields DEF Typed, TypeOK, History, RenewTarget, RenewButton, RenewCarry
<1>4. CASE RenewTarget(u, gb)
  <2>1. (IF panel[u].start < day THEN "renew" ELSE "renew same day") \in world
    BY <1>4 DEF RenewTarget, On
  <2>2. panel[u].start < day /\ panel[u].start # 0
    BY <1>1, <1>4, <2>1 DEF NoRestores, RenewTarget
  <2> QED BY <1>1, <1>2, <1>3, <1>4, <2>2, RenewLinks DEF RenewTarget
<1>5. CASE RenewButton(u, gb)
  <2>1. panel[u].start \in 1..(day - 1)
    BY <1>5 DEF RenewButton
  <2>2. panel[u].start < day /\ panel[u].start # 0 /\ day # 0
    BY <1>1, <2>1
  <2> QED BY <1>1, <1>2, <1>3, <1>5, <2>2, RenewLinks DEF RenewButton
<1>6. CASE RenewCarry(u, gb)
  <2>1. panel[u].start \in 1..(day - 1)
    BY <1>6 DEF RenewCarry
  <2>2. panel[u].start < day /\ panel[u].start # 0 /\ day # 0
    BY <1>1, <2>1
  <2> QED BY <1>1, <1>2, <1>3, <1>6, <2>2, RenewLinks DEF RenewCarry
<1> QED BY <1>4, <1>5, <1>6

LEMMA OthersExcess ==
    ASSUME Typed, NEW u \in Users, OnUser(u), NEW v \in Users, v # u PROVE excess'[v] = excess[v]
<1>1. excess' = excess \/ excess' = [excess EXCEPT ![u] = @ + 0] \/ excess' = [excess EXCEPT ![u] = @ + 1]
  BY DEF OnUser, Create, Consume, ResetUsage, EditQuota, RenewTarget, RenewButton, RenewCarry, Renew, DeleteUser
<1> QED BY <1>1 DEF Typed, History

LEMMA UserMetered ==
    ASSUME Typed, Followed, NoRestores, "backup" \notin world, Fair, NEW u \in Users, OnUser(u), NEW v \in Users
    PROVE  Metered(v)'
<1>1. Quiet /\ Metered(v)
  BY DEF OnUser, Create, Consume, ResetUsage, EditQuota, RenewTarget, RenewButton, RenewCarry, Renew,
         DeleteUser, Same, Fair
<1>2. CASE v # u
  <2>1. panel'[v] = panel[v] /\ excess'[v] = excess[v] /\ excess[v] \in Nat
    BY <1>2, OthersStay, OthersExcess DEF Typed, History
  <2>2. KeepsLinks(v)
    BY <1>1, <2>1 DEF KeepsLinks, Metered
  <2> QED BY <1>1, <2>2, MeteredOnward
<1>3. CASE v = u /\ (Consume(u) \/ ResetUsage(u) \/ EditQuota(u))
  BY <1>1, <1>3, ConsumeLinks, ResetLinks, EditLinks, MeteredOnward
<1>4. ASSUME v = u, NEW gb \in Sizes, RenewTarget(u, gb) \/ RenewButton(u, gb) \/ RenewCarry(u, gb)
      PROVE  Metered(v)'
  BY <1>1, <1>4, RenewalsLinks, MeteredOnward
<1>5. CASE v = u /\ DeleteUser(u)
  <2>1. panel'[u] = None /\ excess'[u] = excess[u] /\ excess[u] \in Nat
    BY <1>5 DEF DeleteUser, Typed, TypeOK, History
  <2>2. KeepsLinks(u)
    BY <2>1 DEF KeepsLinks
  <2> QED BY <1>1, <1>5, <2>2, MeteredOnward
<1>6. ASSUME v = u, NEW gb \in Sizes, Create(u, gb) PROVE Metered(v)'
  <2>1. snap[u] = None /\ panel'[u] = Fresh(gb, 0, 0) /\ excess' = excess
    BY <1>6 DEF Create, Typed, TypeOK
  <2>2. \A a \in Attempts : Current(a) => ~Sees(a, u)
    BY <1>6 DEF Create, Followed, Unborn, Current
  <2>3. Plain(Fresh(gb, 0, 0))
    BY SizesAreNumbers DEF Plain, Fresh
  <2>4. Taken(u)' = Taken(u)
    BY <1>1, TakenStays DEF Quiet
  <2>5. Plain(panel[u])'
    BY <2>1, <2>3 DEF Plain
  <2> QED BY <1>1, <1>6, <2>1, <2>2, <2>4, <2>5, PanelLeaves DEF Metered, Known
<1> QED BY <1>2, <1>3, <1>4, <1>5, <1>6 DEF OnUser

LEMMA FetchMetered ==
    ASSUME Typed, Followed, Fair, NEW a \in Attempts, Fetch(a), NEW v \in Users PROVE Metered(v)'
<1>1. /\ fetched' = [fetched EXCEPT ![a] = [data |-> panel, late |-> FALSE]]
      /\ UNCHANGED <<day, snap, panel, excess, meter>>
  BY DEF Fetch, panelVars
<1>2. Known(v)' = Known(v) /\ Metered(v) /\ Taken(v)' = Taken(v)
  BY <1>1, TakenStays DEF Known, Fair
<1>3. \A p : TotalAt(v, p)' = TotalAt(v, p) /\ TakenAt(v, p)' = TakenAt(v, p)
  BY <1>1, <1>2 DEF TotalAt, TakenAt
<1>4. ASSUME NEW b \in Attempts, Current(b)', Sees(b, v)'
      PROVE  /\ Plain((Data(b)[v])') /\ TakenAt(v, (Data(b)[v])') <= excess[v]
             /\ panel[v] # None =>
                 Linked(TotalAt(v, (Data(b)[v])'), TakenAt(v, (Data(b)[v])'), (Data(b)[v])', panel[v], excess[v])
  <2>1. CASE b = a
    <3> DEFINE p == panel[v]
    <3>1. (Data(b)[v])' = p
      BY <1>1, <2>1 DEF Data, Typed, TypeOK
    <3>2. p # None /\ p \in PanelUser /\ Plain(p) /\ Taken(v) <= excess[v] /\ excess[v] \in Nat
      BY <1>2, <1>4, <3>1 DEF Sees, Typed, TypeOK, History, Metered
    <3>3. TotalAt(v, p) \in Nat /\ TakenAt(v, p) \in Int /\ Taken(v) \in Int /\ p.used \in Nat /\ p.spent \in Nat
      BY <3>2, AtTyped, TakenTyped, PanelFields
    <3>4. TotalAt(v, p) <= p.spent /\ TakenAt(v, p) <= excess[v]
      <4>1. CASE Known(v)
        <5>1. Linked(snap[v].cons, Taken(v), snap[v], p, excess[v])
          BY <1>2, <3>2, <4>1 DEF Metered
        <5> QED BY <3>2, <3>3, <4>1, <5>1 DEF Linked, TotalAt, TakenAt, Plain
      <4>2. CASE ~Known(v)
        BY <3>2, <3>3, <4>2 DEF TotalAt, TakenAt, Plain
      <4> QED BY <4>1, <4>2
    <3>5. Linked(TotalAt(v, p), TakenAt(v, p), p, p, excess[v])
      BY <3>2, <3>3, <3>4, LinkedSelf
    <3> QED BY <3>1, <3>2, <3>4, <3>5
  <2>2. CASE b # a
    <3>1. fetched'[b] = fetched[b]
      BY <1>1, <2>2 DEF Typed, TypeOK
    <3>2. (Data(b)[v])' = Data(b)[v] /\ Current(b) /\ Sees(b, v)
      BY <1>4, <3>1 DEF Data, Current, Sees
    <3> QED BY <1>2, <3>2 DEF Metered
  <2> QED BY <2>1, <2>2
<1>5. (/\ Known(v) /\ snap[v].start # 0 => snap[v].prov = snap[v].limit
       /\ Taken(v) <= excess[v]
       /\ panel[v] # None =>
           /\ Plain(panel[v])
           /\ Known(v) => Linked(snap[v].cons, Taken(v), snap[v], panel[v], excess[v]))'
  BY <1>1, <1>2 DEF Metered, Linked, Beyond, Gain, SameCycle, Plain
<1>6. \A b \in Attempts : (Current(b) /\ Sees(b, v))' =>
        (/\ Plain(Data(b)[v]) /\ TakenAt(v, Data(b)[v]) <= excess[v]
         /\ panel[v] # None =>
             Linked(TotalAt(v, Data(b)[v]), TakenAt(v, Data(b)[v]), Data(b)[v], panel[v], excess[v]))'
  <2>1. \A b \in Attempts : /\ TotalAt(v, Data(b)[v])' = TotalAt(v, (Data(b)[v])')
                           /\ TakenAt(v, Data(b)[v])' = TakenAt(v, (Data(b)[v])')
    BY <1>1, <1>2 DEF TotalAt, TakenAt, Gain, SameCycle, Beyond
  <2> QED BY <1>1, <1>4, <2>1 DEF Plain, Linked, Beyond, Gain, SameCycle
<1> QED BY <1>5, <1>6 DEF Metered

LEMMA OthersMetered ==
    ASSUME Typed, Fair, NEW v \in Users,
           \/ Midnight
           \/ \E m \in Months : Generate(m)
           \/ \E a \in Attempts : Supersede(a)
           \/ UNCHANGED vars
    PROVE  Metered(v)'
<1>1. UNCHANGED <<snap, panel, excess, meter>>
  BY DEF Midnight, Generate, Supersede, vars, panelVars
<1>2. \A b \in Attempts : fetched'[b] # None => fetched'[b] = fetched[b]
  BY DEF Midnight, Generate, Supersede, vars, Typed, TypeOK
<1>3. Known(v)' = Known(v) /\ Metered(v) /\ Taken(v)' = Taken(v)
  BY <1>1, TakenStays DEF Known, Fair
<1>4. ASSUME NEW b \in Attempts, Current(b)', Sees(b, v)'
      PROVE  Current(b) /\ Sees(b, v) /\ Data(b)' = Data(b)
  BY <1>2, <1>4 DEF Current, Sees, Data
<1>5. (/\ Known(v) /\ snap[v].start # 0 => snap[v].prov = snap[v].limit
       /\ Taken(v) <= excess[v]
       /\ panel[v] # None =>
           /\ Plain(panel[v])
           /\ Known(v) => Linked(snap[v].cons, Taken(v), snap[v], panel[v], excess[v]))'
  BY <1>1, <1>3 DEF Metered, Linked, Beyond, Gain, SameCycle, Plain
<1>6. \A b \in Attempts : (Current(b) /\ Sees(b, v))' =>
        (/\ Plain(Data(b)[v]) /\ TakenAt(v, Data(b)[v]) <= excess[v]
         /\ panel[v] # None =>
             Linked(TotalAt(v, Data(b)[v]), TakenAt(v, Data(b)[v]), Data(b)[v], panel[v], excess[v]))'
  BY <1>1, <1>3, <1>4 DEF Metered, TotalAt, TakenAt, Plain, Linked, Beyond, Gain, SameCycle
<1> QED BY <1>5, <1>6 DEF Metered

\* What a measurement meters and adds up, of the same cycle and of one that is not begun.
Overage(s, p, rollback) ==
    Minus(Since(s, p, rollback), Minus(s.prov + Minus(p.limit, s.limit), Before(s, p, rollback)))

LEMMA MeasuredMeter ==
    ASSUME NEW s \in Snapshot, NEW p \in PanelUser, NEW m \in Meter, NEW rollback \in BOOLEAN
    PROVE  /\ Measured(s, p, m, rollback).prov = s.prov + Minus(p.limit, s.limit)
           /\ Measured(s, p, m, rollback).cons = Before(s, p, rollback) + Since(s, p, rollback)
           /\ Measured(s, p, m, rollback).meter.over = m.over + Overage(s, p, rollback)
<1> DEFINE edit == m.edit + (IF MonthOf(p.start) = Month THEN 0 ELSE Minus(p.limit, s.limit))
           resets == m.resets + (IF Zeroed(s, p, rollback) THEN 1 ELSE 0)
           over == m.over + Overage(s, p, rollback)
           row == [m EXCEPT !.edit = edit, !.resets = resets, !.over = over]
<1>1. Measured(s, p, m, rollback)
       = Result(s.prov + Minus(p.limit, s.limit), Before(s, p, rollback) + Since(s, p, rollback), row)
  BY MeasuredIs DEF Overage
<1> HIDE DEF edit, resets, over
<1>2. row.over = over
  BY DEF Meter
<1> HIDE DEF row
<1>3. Measured(s, p, m, rollback).meter.over = over
  BY <1>1, <1>2 DEF Result
<1> QED BY <1>1, <1>3 DEF Result, over

LEMMA OverageTyped ==
    ASSUME NEW s \in Snapshot, NEW p \in PanelUser, NEW rollback \in BOOLEAN
    PROVE  Overage(s, p, rollback) \in Nat
<1> DEFINE before == Before(s, p, rollback)
           since == Since(s, p, rollback)
           add == Minus(p.limit, s.limit)
<1>1. before \in Nat /\ since \in Nat /\ s.prov \in Nat
  BY PartsTyped, SnapshotFields
<1>2. add \in Nat
  <2>1. p.limit \in Nat /\ s.limit \in Nat
    BY SnapshotFields, PanelFields
  <2> QED BY <2>1, Differences
<1> HIDE DEF before, since, add
<1>3. s.prov + add \in Nat
  BY <1>1, <1>2
<1>4. Minus(s.prov + add, before) \in Nat
  BY <1>1, <1>3, Differences
<1>5. Minus(since, Minus(s.prov + add, before)) \in Nat
  BY <1>1, <1>4, Differences
<1> QED BY <1>5 DEF Overage, before, since, add

LEMMA SameCycleMeasured ==
    ASSUME NEW s \in Snapshot, NEW p \in PanelUser, NEW rollback \in BOOLEAN,
           SameCycle(s, p), s.prov = s.limit, s.limit <= p.limit
    PROVE  /\ s.prov + Minus(p.limit, s.limit) = p.limit
           /\ Before(s, p, rollback) + Since(s, p, rollback) <= s.cons + Gain(s, p)
           /\ Overage(s, p, rollback) <= Beyond(s.cons, s, p)
<1>1. /\ s.limit \in Nat /\ p.limit \in Nat /\ s.used \in Nat /\ p.used \in Nat /\ s.cons \in Nat
      /\ ResetFloor \in Nat /\ Mark(s)
  BY SnapshotFields, PanelFields, ResetFloorIsANumber, MarksOf
<1>2. s.prov + Minus(p.limit, s.limit) = p.limit
  BY <1>1 DEF Minus
<1>3. Gain(s, p) \in Nat /\ Beyond(s.cons, s, p) \in Nat
  BY <1>1, BeyondTyped
<1>4. CASE Back(s, p, rollback)
  <2>1. Since(s, p, rollback) = 0 /\ Before(s, p, rollback) = Minus(s.cons, s.used - p.used)
    BY <1>4 DEF Since, Before
  <2>2. Minus(s.cons, s.used - p.used) \in Nat /\ Minus(s.cons, s.used - p.used) <= s.cons
    BY <1>1, <1>4 DEF Back, Minus
  <2>3. Minus(p.limit, Before(s, p, rollback)) \in Nat
    BY <1>1, <2>1, <2>2, Differences
  <2>4. Minus(0, Minus(p.limit, Before(s, p, rollback))) = 0
    BY <2>3 DEF Minus
  <2>5. Overage(s, p, rollback) = 0
    BY <1>2, <2>1, <2>4 DEF Overage
  <2>6. Minus(s.cons, s.used - p.used) + 0 <= s.cons + Gain(s, p)
    BY <1>1, <1>3, <2>2
  <2> QED BY <1>2, <1>3, <2>1, <2>5, <2>6
<1>5. CASE ~Back(s, p, rollback)
  <2>1. Before(s, p, rollback) = s.cons
    BY <1>5 DEF Before
  <2>2. Since(s, p, rollback) = Gain(s, p)
    BY <1>1, <1>5 DEF Since, Zeroed, Gain, Minus
  <2>3. Overage(s, p, rollback) = Beyond(s.cons, s, p)
    BY <1>2, <2>1, <2>2 DEF Overage, Beyond
  <2> QED BY <1>1, <1>2, <1>3, <2>1, <2>2, <2>3
<1> QED BY <1>4, <1>5

LEMMA UnbegunMeasured ==
    ASSUME NEW s \in Snapshot, NEW p \in PanelUser, NEW rollback \in BOOLEAN, p.used = 0
    PROVE  Overage(s, p, rollback) = 0
<1>1. s.used \in Nat /\ s.limit \in Nat /\ p.limit \in Nat /\ s.prov \in Nat /\ Before(s, p, rollback) \in Nat
  BY SnapshotFields, PanelFields, PartsTyped
<1>2. Since(s, p, rollback) = 0
  BY <1>1 DEF Since, Minus
<1> DEFINE add == Minus(p.limit, s.limit)
<1>3. add \in Nat
  BY <1>1, Differences
<1> HIDE DEF add
<1>4. s.prov + add \in Nat
  BY <1>1, <1>3
<1>5. Minus(s.prov + add, Before(s, p, rollback)) \in Nat
  BY <1>1, <1>4, Differences
<1>6. Minus(0, Minus(s.prov + add, Before(s, p, rollback))) = 0
  BY <1>5 DEF Minus
<1> QED BY <1>2, <1>6 DEF Overage, add

\* A write meters x of a user, and no more than the fetch allows.
Meters(a, v, x) ==
    /\ Outturn(a, v).meter.over = meter[v][Month].over + x
    /\ Taken(v) + x <= TakenAt(v, Data(a)[v])
    /\ Data(a)[v].start # 0 => /\ Outturn(a, v).prov = Data(a)[v].limit
                             /\ Outturn(a, v).cons <= TotalAt(v, Data(a)[v])

LEMMA OutturnMeters ==
    ASSUME Typed, Followed, "backup" \notin world, NEW a \in Attempts, Current(a),
           NEW v \in Users, Sees(a, v), Metered(v)
    PROVE  \E x \in Nat : Meters(a, v, x)
<1> DEFINE p == Data(a)[v]
           s == Was(v)
           m == meter[v][Month]
           rollback == PanelRollback(Data(a))
<1>1. p \in PanelUser /\ s \in Snapshot /\ m \in Meter /\ rollback \in BOOLEAN
  BY ReadsTyped, WasTyped DEF Current, Sees, PanelRollback, Typed, TypeOK, History
<1>2. Outturn(a, v) = Compute(s, p, m, rollback)
  BY DEF Outturn
<1>3. m.over \in Nat /\ p.used \in Nat /\ Taken(v) \in Int
  BY <1>1, PanelFields, TakenTyped DEF Meter
<1>4. Plain(p)
  BY DEF Metered
<1>5. s.init => Known(v) /\ s = snap[v]
  BY DEF Known, Was, NewSnapshot
<1>6. Known(v) => s = snap[v] /\ s.init
  BY DEF Known, Was
<1>7. CASE ~s.init
  <2>1. Outturn(a, v).prov = p.limit /\ Outturn(a, v).cons = p.used /\ Outturn(a, v).meter = m
    BY <1>2, <1>7 DEF Compute, Result
  <2>2. TotalAt(v, p) = p.used /\ TakenAt(v, p) = Taken(v) + 0
    BY <1>6, <1>7 DEF TotalAt, TakenAt
  <2>3. Meters(a, v, 0)
    BY <1>3, <2>1, <2>2 DEF Meters
  <2> QED BY <2>3
<1>8. CASE s.init /\ RenewedSince(s, p)
  <2>1. Outturn(a, v) = Renewal(s, p, m)
    BY <1>2, <1>8 DEF Compute
  <2> DEFINE banked == IF p.used < s.used /\ MonthOf(s.start) = Month THEN Least(s.cons, s.prov) ELSE 0
             row == [m EXCEPT !.renew = @ + banked, !.edit = 0]
  <2>2. Outturn(a, v) = Result(p.limit, p.used, row)
    BY <2>1 DEF Renewal
  <2> HIDE DEF banked
  <2>3. row.over = m.over
    BY <1>1 DEF Meter
  <2> HIDE DEF row
  <2>4. Outturn(a, v).prov = p.limit /\ Outturn(a, v).cons = p.used /\ Outturn(a, v).meter.over = m.over
    BY <2>2, <2>3 DEF Result
  <2>5. ~SameCycle(s, p)
    <3>1. p.start \in Nat /\ s.start \in Nat
      BY <1>1, MarksOf DEF Mark
    <3> QED BY <1>8, <3>1 DEF SameCycle, RenewedSince
  <2>6. TotalAt(v, p) = p.used /\ TakenAt(v, p) = Taken(v) + 0
    BY <1>5, <1>8, <2>5 DEF TotalAt, TakenAt, Beyond
  <2>7. Meters(a, v, 0)
    BY <1>3, <2>4, <2>6 DEF Meters
  <2> QED BY <2>7
<1>9. CASE s.init /\ ~RenewedSince(s, p)
  <2>1. Outturn(a, v) = Measured(s, p, m, rollback) /\ Known(v) /\ s = snap[v]
    BY <1>2, <1>5, <1>9 DEF Compute
  <2>2. Later(s, p, day)
    BY <2>1 DEF Followed, Chained
  <2>3. LaterRenewed(s, p, day)
    BY <2>2 DEF Later
  <2>4. /\ Outturn(a, v).prov = s.prov + Minus(p.limit, s.limit)
        /\ Outturn(a, v).cons = Before(s, p, rollback) + Since(s, p, rollback)
        /\ Outturn(a, v).meter.over = m.over + Overage(s, p, rollback)
    <3> HIDE DEF p, s, m, rollback
    <3> QED BY <1>1, <2>1, MeasuredMeter
  <2>5. Overage(s, p, rollback) \in Nat
    <3> HIDE DEF p, s, m, rollback
    <3> QED BY <1>1, OverageTyped
  <2>6. p.start \in Nat /\ s.start \in Nat /\ p.limit \in Nat /\ s.limit \in Nat /\ Mark(s) /\ s.cons \in Nat
    BY <1>1, MarksOf, SnapshotFields DEF Mark
  <2>7. CASE SameCycle(s, p)
    <3>1. s.prov = s.limit
      BY <2>1, <2>7 DEF Metered, SameCycle
    <3>2. s.limit <= p.limit
      BY <2>3, <2>6, <2>7 DEF LaterRenewed, SameCycle
    <3>3. /\ s.prov + Minus(p.limit, s.limit) = p.limit
          /\ Before(s, p, rollback) + Since(s, p, rollback) <= s.cons + Gain(s, p)
          /\ Overage(s, p, rollback) <= Beyond(s.cons, s, p)
      <4> HIDE DEF p, s, m, rollback
      <4> QED BY <1>1, <2>7, <3>1, <3>2, SameCycleMeasured
    <3>4. TotalAt(v, p) = s.cons + Gain(s, p) /\ TakenAt(v, p) = Taken(v) + Beyond(s.cons, s, p)
      BY <2>1, <2>7 DEF TotalAt, TakenAt
    <3>5. Beyond(s.cons, s, p) \in Nat
      BY <1>1, <2>6, BeyondTyped
    <3>6. Taken(v) + Overage(s, p, rollback) <= TakenAt(v, p)
      BY <1>3, <2>5, <3>3, <3>4, <3>5
    <3>7. Meters(a, v, Overage(s, p, rollback))
      BY <2>4, <3>3, <3>4, <3>6 DEF Meters
    <3> QED BY <2>5, <3>7
  <2>8. CASE ~SameCycle(s, p)
    <3>1. p.start = 0
      BY <1>9, <2>3, <2>6, <2>8 DEF SameCycle, LaterRenewed, RenewedSince
    <3>2. p.used = 0
      BY <1>4, <3>1 DEF Plain
    <3>3. Overage(s, p, rollback) = 0
      <4> HIDE DEF p, s, m, rollback
      <4> QED BY <1>1, <3>2, UnbegunMeasured
    <3>4. TakenAt(v, p) = Taken(v) + 0
      BY <2>1, <2>8 DEF TakenAt, Beyond
    <3>5. Meters(a, v, 0)
      BY <1>3, <2>4, <3>1, <3>3, <3>4 DEF Meters
    <3> QED BY <3>5
  <2> QED BY <2>7, <2>8
<1> QED BY <1>7, <1>8, <1>9

LEMMA WriteMetered ==
    ASSUME Typed, Followed, "backup" \notin world, Fair, NEW a \in Attempts, NEW failing, Write(a, failing),
           NEW v \in Users
    PROVE  Metered(v)'
<1>1. /\ fetched[a] # None /\ Current(a) /\ failing \subseteq Found(a)
      /\ UNCHANGED <<day, bill, world, panelVars>>
  BY WriteIs DEF Current
<1>2. /\ Metered(v) /\ panel' = panel /\ excess' = excess
      /\ excess[v] \in Nat /\ Taken(v) \in Int /\ snap'[v] \in Snapshot \cup {None}
  BY <1>1, TakenTyped, WriteTyped DEF Fair, panelVars, Typed, TypeOK, History
<1>3. \A b \in Attempts : ~Current(b)'
  <2>1. fetched' = [b \in Attempts |-> IF b = a \/ fetched[b] = None THEN None
                                     ELSE [fetched[b] EXCEPT !.late = TRUE]]
    BY WriteIs
  <2>2. ASSUME NEW b \in Attempts, fetched[b] # None PROVE [fetched[b] EXCEPT !.late = TRUE].late
    <3>1. fetched[b] \in [data : [Users -> PanelUser \cup {None}], late : BOOLEAN]
      BY <2>2 DEF Typed, TypeOK
    <3> QED BY <3>1
  <2> QED BY <2>1, <2>2 DEF Current
<1>4. meter'[v] = IF v \in Found(a) \ failing
                  THEN [meter[v] EXCEPT ![Month] = Outturn(a, v).meter] ELSE meter[v]
  <2>1. meter' = [u \in Users |-> IF u \in Found(a) \ failing
                                THEN [meter[u] EXCEPT ![Month] = Outturn(a, u).meter] ELSE meter[u]]
    BY WriteIs
  <2> QED BY <2>1
\* It is enough to look at the new snapshot.
<1>5. ASSUME /\ snap'[v] # None /\ snap'[v].init => (snap'[v].start # 0 => snap'[v].prov = snap'[v].limit)
             /\ Taken(v)' <= excess[v]
             /\ snap'[v] # None /\ snap'[v].init /\ panel[v] # None
                  => Linked(snap'[v].cons, Taken(v)', snap'[v], panel[v], excess[v])
      PROVE  Metered(v)'
  <2>1. (/\ Known(v) /\ snap[v].start # 0 => snap[v].prov = snap[v].limit
         /\ Taken(v) <= excess[v]
         /\ panel[v] # None =>
             /\ Plain(panel[v])
             /\ Known(v) => Linked(snap[v].cons, Taken(v), snap[v], panel[v], excess[v]))'
    BY <1>2, <1>5 DEF Metered, Known, Linked, Beyond, Gain, SameCycle, Plain
  <2> QED BY <1>3, <2>1 DEF Metered
<1>6. CASE v \notin Found(a) \/ v \in failing
  <2>1. Taken(v)' = Taken(v)
    BY <1>4, <1>6, TakenStays
  <2>2. ASSUME snap'[v] # None, snap'[v].init
        PROVE  /\ Known(v) /\ snap'[v].start = snap[v].start /\ snap'[v].prov = snap[v].prov
               /\ snap'[v].cons = snap[v].cons /\ snap'[v].used = snap[v].used /\ snap'[v].limit = snap[v].limit
    <3>1. CASE v \in failing
      <4>1. snap'[v] = [Was(v) EXCEPT !.here = TRUE, !.plan = Data(a)[v].plan]
        BY <3>1, SnapAfter DEF Unmetered
      <4>2. /\ snap'[v].init = Was(v).init /\ snap'[v].start = Was(v).start /\ snap'[v].cons = Was(v).cons
            /\ snap'[v].used = Was(v).used /\ snap'[v].limit = Was(v).limit /\ snap'[v].prov = Was(v).prov
        BY <4>1, WasTyped DEF Snapshot
      <4>3. snap[v] # None /\ Was(v) = snap[v]
        BY <2>2, <4>2 DEF Was, NewSnapshot
      <4> QED BY <2>2, <4>2, <4>3 DEF Known
    <3>2. CASE v \notin failing /\ v \notin Found(a)
      <4>1. snap'[v] = IF snap[v] = None THEN None ELSE [snap[v] EXCEPT !.here = FALSE]
        BY <3>2, SnapAfter
      <4>2. snap[v] # None /\ snap[v] \in Snapshot /\ snap'[v] = [snap[v] EXCEPT !.here = FALSE]
        BY <2>2, <4>1 DEF Typed, TypeOK
      <4> QED BY <2>2, <4>2 DEF Known, Snapshot
    <3> QED BY <1>6, <3>1, <3>2
  <2>3. snap'[v] # None /\ snap'[v].init /\ panel[v] # None
          => Linked(snap'[v].cons, Taken(v)', snap'[v], panel[v], excess[v])
    BY <1>2, <2>1, <2>2 DEF Metered, Linked, Beyond, Gain, SameCycle
  <2> QED BY <1>2, <1>5, <2>1, <2>2, <2>3 DEF Metered
<1>7. CASE v \in Found(a) \ failing
  <2> DEFINE p == Data(a)[v]
             r == Outturn(a, v)
             m == meter[v][Month]
  <2>1. Sees(a, v) /\ p \in PanelUser /\ r \in Outcome /\ m \in Meter /\ r.meter \in Meter /\ r.cons \in Nat
    BY <1>1, <1>7, ReadsTyped, OutturnTyped DEF Found, Sees, Outcome, Typed, TypeOK, History
  <2>2. snap'[v] = Stored(Was(v), p, r)
    BY <1>7, SnapAfter
  <2>3. /\ snap'[v].start = p.start /\ snap'[v].used = p.used /\ snap'[v].limit = p.limit
        /\ snap'[v].prov = r.prov /\ snap'[v].cons = r.cons
    BY <2>2 DEF Stored
  <2>11. PICK x \in Nat : Meters(a, v, x)
    BY <1>1, <1>2, <2>1, OutturnMeters
  <2>4. /\ x \in Nat /\ r.meter.over = m.over + x /\ Taken(v) + x <= TakenAt(v, p)
        /\ p.start # 0 => r.prov = p.limit /\ r.cons <= TotalAt(v, p)
    BY <2>11 DEF Meters
  <2>5. Taken(v)' = Taken(v) + x
    <3>1. meter'[v] = [meter[v] EXCEPT ![Month] = r.meter]
      BY <1>4, <1>7
    <3>2. x \in Int /\ r.meter \in Meter /\ r.meter.over = meter[v][Month].over + x
      BY <2>1, <2>4
    <3> HIDE DEF r
    <3> QED BY <3>1, <3>2, TakenGrows
  <2>6. /\ TakenAt(v, p) <= excess[v] /\ TakenAt(v, p) \in Int /\ TotalAt(v, p) \in Nat
        /\ panel[v] # None => Linked(TotalAt(v, p), TakenAt(v, p), p, panel[v], excess[v])
    BY <1>1, <1>2, <2>1, AtTyped DEF Metered
  <2>7. Taken(v)' <= excess[v] /\ Taken(v)' \in Int /\ Taken(v)' <= TakenAt(v, p)
    BY <1>2, <2>4, <2>5, <2>6
  <2>8. ASSUME panel[v] # None PROVE Linked(r.cons, Taken(v)', p, panel[v], excess[v])
    <3>1. panel[v] \in PanelUser
      BY <2>8 DEF Typed, TypeOK
    <3>2. Linked(TotalAt(v, p), TakenAt(v, p), p, panel[v], excess[v])
      BY <2>6, <2>8
    <3>3. p.start # 0 => r.cons <= TotalAt(v, p)
      BY <2>4
    <3> HIDE DEF p, r
    <3> QED BY <1>2, <2>1, <2>6, <2>7, <3>1, <3>2, <3>3, LinkedNext
  <2>9. panel[v] # None => Linked(snap'[v].cons, Taken(v)', snap'[v], panel[v], excess[v])
    BY <2>3, <2>8 DEF Linked, Beyond, Gain, SameCycle
  <2>10. snap'[v].start # 0 => snap'[v].prov = snap'[v].limit
    BY <2>3, <2>4
  <2> QED BY <1>5, <2>7, <2>9, <2>10
<1> QED BY <1>6, <1>7

LEMMA NoBackups == ASSUME NoRestores PROVE "backup" \notin world
BY DEF NoRestores

LEMMA FairKept == ASSUME Typed, NoRestores, Followed, Fair, [Next]_vars PROVE Fair'
<1> SUFFICES ASSUME NEW v \in Users PROVE Metered(v)'
  BY DEF Fair
<1>0. "backup" \notin world
  BY NoBackups
<1>1. ASSUME NEW u \in Users, OnUser(u) PROVE Metered(v)'
  BY <1>0, <1>1, UserMetered
<1>2. ~BackUp /\ ~RestorePanel
  BY <1>0 DEF BackUp, RestorePanel, On
<1>3. ASSUME NEW a \in Attempts, Fetch(a) PROVE Metered(v)'
  BY <1>3, FetchMetered
<1>4. ASSUME NEW a \in Attempts, WriteSync(a) PROVE Metered(v)'
  <2>1. PICK failing : Write(a, failing)
    BY <1>4 DEF WriteSync
  <2> QED BY <1>0, <2>1, WriteMetered
<1>5. CASE Midnight \/ (\E m \in Months : Generate(m)) \/ (\E a \in Attempts : Supersede(a)) \/ UNCHANGED vars
  BY <1>5, OthersMetered
<1> QED BY <1>1, <1>2, <1>3, <1>4, <1>5 DEF Next

LEMMA StartsFair == ASSUME Init PROVE Fair
<1> SUFFICES ASSUME NEW v \in Users PROVE Metered(v)
  BY DEF Fair
<1> DEFINE f == [m \in Months |-> meter[v][m].over]
<1>1. \A m \in Months : f[m] = 0
  BY DEF Init, NoMeter
<1>2. \A S : S \subseteq Months => IsFiniteSet(S)
  BY MonthsFinite, FS_Subset
<1> HIDE DEF f
<1>3. PICK h : Sums(h, f, Months) /\ SumFunctionOnSet(f, Months) = h[Months]
  <2>1. \A m \in Months : f[m] \in Int
    BY <1>1
  <2> QED BY <2>1, MonthsFinite, SumUnfolds
<1>4. Sums([s \in SUBSET Months |-> 0], f, Months)
  <2>1. \A s \in SUBSET Months : s # {} => Pick(s) \in Months /\ s \ {Pick(s)} \in SUBSET Months
    BY PickIn
  <2> QED BY <1>1, <2>1 DEF Sums
<1>5. h[Months] = 0
  <2>1. [s \in SUBSET Months |-> 0][Months] = h[Months]
    BY <1>3, <1>4, MonthsFinite, SumsUnique
  <2> QED BY <2>1
<1>6. Taken(v) = 0
  BY <1>3, <1>5 DEF Taken, Total, f
<1> QED BY <1>6 DEF Init, Metered, Known, Current

\* Metered overage is traffic a user really took beyond what was sold to it, whatever the order
\* of resets, top-ups, renewals, deletions and syncs, overlapping or failing for a user; also
\* when so many counters go back together that the sync takes it for a restored backup.
THEOREM OverageIsTaken == Spec => [](NoRestores => OverageIsReal)
<1> DEFINE Inv == Typed /\ (NoRestores => Followed /\ Fair)
<1>1. Init => Inv
  BY StartsTyped, StartsFollowed, StartsFair
<1>2. Inv /\ [Next]_vars => Inv'
  <2>1. [Next]_vars => NoRestores' = NoRestores
    BY WorldStays DEF NoRestores
  <2>2. NoRestores => RestoresApart
    BY DEF NoRestores, RestoresApart
  <2> QED BY <2>1, <2>2, TypesKept, FollowedKept, FairKept
<1>3. Inv => (NoRestores => OverageIsReal)
  BY DEF Fair, Metered, Taken, OverageIsReal
<1> QED BY <1>1, <1>2, <1>3, PTL DEF Spec

===============================================================================
