----------------------------- MODULE QuotaProofs -----------------------------
(***************************************************************************)
(* The invariant of QuotaGate holds at every step, for any number of       *)
(* requests and users and any limits, and what follows from it.            *)
(***************************************************************************)
EXTENDS QuotaGate, TLAPS

(******************************** counting ********************************)
LEMMA Limits == DailyLimit \in Nat /\ DailyLimit >= 1 /\ MonthlyLimit \in Nat /\ MonthlyLimit >= 1
  BY LimitsAssumption

\* A smaller set of requests has a smaller number of members.
LEMMA SmallerCount ==
  ASSUME NEW All \in SUBSET Requests, NEW Part \in SUBSET All
  PROVE  Cardinality(Part) \in Nat /\ Cardinality(All) \in Nat /\ Cardinality(Part) <= Cardinality(All)
<1>1. IsFiniteSet(All)
  BY FS_Subset, RequestsAssumption
<1>2. IsFiniteSet(Part) /\ Cardinality(Part) <= Cardinality(All)
  BY <1>1, FS_Subset
<1>. QED
  BY <1>1, <1>2, FS_CardinalityType

LEMMA CountIsNat ==
  ASSUME NEW S \in SUBSET Requests, NEW u, NEW since
  PROVE  CountEvents(S, u, since) \in Nat
<1>1. Events(S, u, since) \in SUBSET Requests
  BY DEF Events
<1>. QED
  BY <1>1, SmallerCount DEF CountEvents

\* More rows on record under the same dates never count for less.
LEMMA CountsGrow ==
  ASSUME TypeOK, TypeOK', legacy \subseteq legacy', \A q \in legacy : dated'[q] = dated[q],
         NEW u, NEW since
  PROVE  LET old == CountEvents(legacy, u, since)
             new == Cardinality({q \in legacy' : Owner[q] = u /\ dated'[q] >= since})
         IN old \in Nat /\ new \in Nat /\ old <= new
<1> DEFINE Part == {q \in legacy : Owner[q] = u /\ dated[q] >= since}
           All == {q \in legacy' : Owner[q] = u /\ dated'[q] >= since}
<1>1. All \in SUBSET Requests /\ Part \in SUBSET All
  BY DEF TypeOK
<1> HIDE DEF Part, All
<1>2. Cardinality(Part) \in Nat /\ Cardinality(All) \in Nat /\ Cardinality(Part) <= Cardinality(All)
  BY <1>1, SmallerCount
<1>. QED
  BY <1>2 DEF Part, All, CountEvents, Events

\* A full window stays full.
LEMMA FullStays ==
  ASSUME TypeOK, TypeOK', legacy \subseteq legacy', \A q \in legacy : dated'[q] = dated[q],
         NEW r \in Requests, now'[r] = now[r]
  PROVE  (DayFull(r) => DayFull(r)') /\ (MonthFull(r) => MonthFull(r)')
<1>1. ASSUME DayFull(r) PROVE DayFull(r)'
  <2> DEFINE new == Cardinality({q \in legacy' : Owner[q] = Owner[r] /\ dated'[q] >= now[r]})
  <2>1. /\ CountEvents(legacy, Owner[r], now[r]) \in Nat /\ new \in Nat
        /\ CountEvents(legacy, Owner[r], now[r]) <= new
    BY CountsGrow
  <2>2. DayFull(r)' = (new >= DailyLimit)
    BY DEF DayFull, CountEvents, Events
  <2> HIDE DEF new
  <2>. QED
    BY <1>1, <2>1, <2>2, Limits DEF DayFull
<1>2. ASSUME MonthFull(r) PROVE MonthFull(r)'
  <2> DEFINE since == MonthStart(now[r])
             new == Cardinality({q \in legacy' : Owner[q] = Owner[r] /\ dated'[q] >= since})
  <2>1. /\ CountEvents(legacy, Owner[r], since) \in Nat /\ new \in Nat
        /\ CountEvents(legacy, Owner[r], since) <= new
    BY CountsGrow
  <2>2. MonthFull(r)' = (new >= MonthlyLimit)
    BY DEF MonthFull, CountEvents, Events, MonthStart
  <2> HIDE DEF new
  <2>. QED
    BY <1>2, <2>1, <2>2, Limits DEF MonthFull
<1>. QED
  BY <1>1, <1>2

\* What the three rounds of check_quota count in a full window.
LEMMA FullIsCounted ==
  ASSUME TypeOK, NEW r \in Requests
  PROVE  /\ DayFull(r) \/ MonthFull(r) => CountEvents(legacy, Owner[r], Since(now[r], 1)) >= 1
         /\ DayFull(r) => CountEvents(legacy, Owner[r], Since(now[r], 2)) >= DailyLimit
         /\ MonthFull(r) => CountEvents(legacy, Owner[r], Since(now[r], 3)) >= MonthlyLimit
<1> DEFINE count(since) == CountEvents(legacy, Owner[r], since)
<1>1. ASSUME NEW since PROVE count(since) \in Nat /\ count(0) \in Nat /\ count(since) <= count(0)
  <2>1. Events(legacy, Owner[r], 0) \in SUBSET Requests
    BY DEF TypeOK, Events
  <2>2. \A q \in legacy : dated[q] >= 0
    BY DEF TypeOK
  <2>3. Events(legacy, Owner[r], since) \in SUBSET Events(legacy, Owner[r], 0)
    <3>1. ASSUME NEW q \in Events(legacy, Owner[r], since) PROVE q \in Events(legacy, Owner[r], 0)
      BY <2>2 DEF Events
    <3>. QED
      BY <3>1
  <2>. QED
    BY <2>1, <2>3, SmallerCount DEF CountEvents
<1>2. /\ count(now[r]) \in Nat /\ count(0) \in Nat /\ count(MonthStart(now[r])) \in Nat
      /\ count(now[r]) <= count(0) /\ count(MonthStart(now[r])) <= count(0)
  BY <1>1
<1>3. /\ DayFull(r) => count(now[r]) >= DailyLimit
      /\ MonthFull(r) => count(MonthStart(now[r])) >= MonthlyLimit
  BY DEF DayFull, MonthFull
<1>4. /\ CountEvents(legacy, Owner[r], Since(now[r], 1)) = count(0)
      /\ CountEvents(legacy, Owner[r], Since(now[r], 2)) = count(now[r])
      /\ CountEvents(legacy, Owner[r], Since(now[r], 3)) = count(MonthStart(now[r]))
  BY DEF Since
<1> HIDE DEF count
<1>5. /\ DayFull(r) => count(0) >= 1
      /\ MonthFull(r) => count(0) >= 1
  BY <1>2, <1>3, Limits
<1>. QED
  BY <1>3, <1>4, <1>5

(******************************** the steps *******************************)
\* What a late request has seen, it has still seen after any step that leaves
\* its own state alone and adds to the record.
LEMMA StaysBlocked ==
  ASSUME TypeOK, TypeOK', legacy \subseteq legacy', \A q \in legacy : dated'[q] = dated[q],
         NEW r \in Requests, r \in legacy' => r \in legacy,
         pc'[r] = pc[r], now'[r] = now[r], pass'[r] = pass[r], round'[r] = round[r],
         read'[r] = read[r], used'[r] = used[r],
         Blocked(r)
  PROVE  Blocked(r)'
<1>1. (DayFull(r) => DayFull(r)') /\ (MonthFull(r) => MonthFull(r)')
  BY FullStays
<1>2. /\ Seen(r, 1, 1) => Seen(r, 1, 1)'
      /\ Seen(r, 2, DailyLimit) => Seen(r, 2, DailyLimit)'
      /\ Seen(r, 3, MonthlyLimit) => Seen(r, 3, MonthlyLimit)'
  BY DEF Seen
<1>. QED
  BY <1>1, <1>2 DEF Blocked

\* So a step of one request keeps all others blocked.
LEMMA OthersStayBlocked ==
  ASSUME IInv, TypeOK', legacy \subseteq legacy', \A q \in legacy : dated'[q] = dated[q],
         NEW r \in Requests, legacy' \subseteq legacy \cup {r},
         late' = [late EXCEPT ![r] = late'[r]],
         \A q \in Requests \ {r} :
           /\ pc'[q] = pc[q] /\ now'[q] = now[q] /\ pass'[q] = pass[q]
           /\ round'[q] = round[q] /\ read'[q] = read[q] /\ used'[q] = used[q],
         late'[r] => Blocked(r)'
  PROVE  LateInv'
<1>. SUFFICES ASSUME NEW q \in Requests, late'[q] PROVE Blocked(q)'
  BY DEF LateInv
<1>1. CASE q = r
  BY <1>1
<1>2. CASE q # r
  <2>1. late[q] /\ Blocked(q)
    BY <1>2 DEF IInv, TypeOK, LateInv
  <2>. QED
    BY <1>2, <2>1, StaysBlocked DEF IInv
<1>. QED
  BY <1>1, <1>2

LEMMA InitInvariant == Init => IInv
<1>. SUFFICES ASSUME Init PROVE IInv
  OBVIOUS
<1>1. TypeOK
  BY DEF Init, TypeOK, GateRow, FreshGate, NoCounts, NothingUsed, Rounds, PcStates
<1>2. SameRuns /\ LockInv /\ RunInv /\ LateInv
  BY DEF Init, SameRuns, LockInv, RunInv, LateInv
<1>. QED
  BY <1>1, <1>2 DEF IInv

\* A request comes in and is late exactly if its window is full.
LEMMA BeginStep == ASSUME IInv, NEW r \in Requests, Begin(r) PROVE IInv'
<1>1. TypeOK'
  BY DEF IInv, TypeOK, Begin, Goto, logs, PcStates, Checking
<1>2. SameRuns' /\ LockInv' /\ RunInv'
  BY RequestsAssumption
  DEF IInv, TypeOK, SameRuns, LockInv, RunInv, Begin, Goto, logs, Checking
<1>3. ASSUME late'[r] PROVE Blocked(r)'
  <2>1. /\ pass'[r] = 1 /\ r \notin legacy' /\ pc'[r] = "legacy" /\ round'[r] = 1
    BY DEF IInv, TypeOK, RunInv, Begin, Goto, logs
  <2>2. DayFull(r)' \/ MonthFull(r)'
    BY <1>3 DEF IInv, TypeOK, Begin, DayFull, MonthFull, CountEvents, Events, MonthStart, logs
  <2>3. Seen(r, 1, 1)' /\ Seen(r, 2, DailyLimit)' /\ Seen(r, 3, MonthlyLimit)'
    BY <2>1 DEF Seen
  <2>. QED
    BY <2>1, <2>2, <2>3 DEF Blocked
<1>4. LateInv'
  BY <1>1, <1>3, OthersStayBlocked DEF IInv, TypeOK, Begin, Goto, logs
<1>. QED
  BY <1>1, <1>2, <1>4 DEF IInv

LEMMA ReadLegacyStep == ASSUME IInv, NEW r \in Requests, ReadLegacy(r) PROVE IInv'
<1> DEFINE n == CountEvents(legacy, Owner[r], Since(now[r], round[r]))
<1>0. n \in Nat
  BY CountIsNat DEF IInv, TypeOK
<1> HIDE DEF n
<1>1. /\ pc[r] = "legacy" /\ pc' = [pc EXCEPT ![r] = "new"]
      /\ read' = [read EXCEPT ![r].legacy = n]
  BY DEF ReadLegacy, Goto, n
<1>2. TypeOK'
  <2>1. read' \in [Requests -> [legacy : Nat, ledger : Nat]]
    BY <1>0, <1>1 DEF IInv, TypeOK
  <2>2. pc' \in [Requests -> PcStates]
    BY <1>1 DEF IInv, TypeOK, PcStates, Checking
  <2>. QED
    BY <2>1, <2>2 DEF IInv, TypeOK, ReadLegacy, logs
<1>3. SameRuns' /\ LockInv' /\ RunInv'
  BY <1>1, RequestsAssumption
  DEF IInv, TypeOK, SameRuns, LockInv, RunInv, ReadLegacy, logs, Checking
<1>4. ASSUME late'[r] PROVE Blocked(r)'
  <2>1. Blocked(r) /\ r \notin legacy /\ pass[r] = 1
    BY <1>4 DEF IInv, LateInv, ReadLegacy, Blocked
  <2>2. /\ Seen(r, 1, 1)
        /\ \/ DayFull(r) /\ Seen(r, 2, DailyLimit)
           \/ MonthFull(r) /\ Seen(r, 3, MonthlyLimit)
    BY <1>1, <2>1 DEF Blocked, Checking
  <2>3. DayFull(r)' = DayFull(r) /\ MonthFull(r)' = MonthFull(r)
    BY DEF ReadLegacy, logs, DayFull, MonthFull, CountEvents, Events, MonthStart
  <2>4. /\ round[r] = 1 /\ (DayFull(r) \/ MonthFull(r)) => n >= 1
        /\ round[r] = 2 /\ DayFull(r) => n >= DailyLimit
        /\ round[r] = 3 /\ MonthFull(r) => n >= MonthlyLimit
    BY FullIsCounted DEF IInv, n
  <2>5. pc'[r] = "new" /\ read'[r].legacy = n /\ round'[r] = round[r] /\ used'[r] = used[r]
    BY <1>1 DEF IInv, TypeOK, ReadLegacy
  <2>6. Seen(r, 1, 1)'
    BY <1>1, <2>2, <2>4, <2>5 DEF Seen
  <2>7. DayFull(r) /\ Seen(r, 2, DailyLimit) => Seen(r, 2, DailyLimit)'
    BY <1>1, <2>4, <2>5 DEF Seen
  <2>8. MonthFull(r) /\ Seen(r, 3, MonthlyLimit) => Seen(r, 3, MonthlyLimit)'
    BY <1>1, <2>4, <2>5 DEF Seen
  <2>. QED
    BY <2>1, <2>2, <2>3, <2>5, <2>6, <2>7, <2>8 DEF Blocked, ReadLegacy, logs
<1>5. LateInv'
  BY <1>1, <1>2, <1>4, OthersStayBlocked DEF IInv, TypeOK, ReadLegacy, logs
<1>. QED
  BY <1>2, <1>3, <1>5 DEF IInv

LEMMA ReadNewStep == ASSUME IInv, NEW r \in Requests, ReadNew(r) PROVE IInv'
<1> DEFINE n == CountEvents(ledger, Owner[r], Since(now[r], round[r]))
<1>0. n \in Nat /\ n = CountEvents(legacy, Owner[r], Since(now[r], round[r]))
  BY CountIsNat DEF IInv, TypeOK, SameRuns
<1> HIDE DEF n
<1>1. /\ pc[r] = "new" /\ pc' = [pc EXCEPT ![r] = "gate"]
      /\ read' = [read EXCEPT ![r].ledger = n]
  BY DEF ReadNew, Goto, n
<1>2. TypeOK'
  <2>1. read' \in [Requests -> [legacy : Nat, ledger : Nat]]
    BY <1>0, <1>1 DEF IInv, TypeOK
  <2>2. pc' \in [Requests -> PcStates]
    BY <1>1 DEF IInv, TypeOK, PcStates, Checking
  <2>. QED
    BY <2>1, <2>2 DEF IInv, TypeOK, ReadNew, logs
<1>3. SameRuns' /\ LockInv' /\ RunInv'
  BY <1>1, RequestsAssumption
  DEF IInv, TypeOK, SameRuns, LockInv, RunInv, ReadNew, logs, Checking
<1>4. ASSUME late'[r] PROVE Blocked(r)'
  <2>1. Blocked(r) /\ r \notin legacy /\ pass[r] = 1
    BY <1>4 DEF IInv, LateInv, ReadNew, Blocked
  <2>2. /\ Seen(r, 1, 1)
        /\ \/ DayFull(r) /\ Seen(r, 2, DailyLimit)
           \/ MonthFull(r) /\ Seen(r, 3, MonthlyLimit)
    BY <1>1, <2>1 DEF Blocked, Checking
  <2>3. DayFull(r)' = DayFull(r) /\ MonthFull(r)' = MonthFull(r)
    BY DEF ReadNew, logs, DayFull, MonthFull, CountEvents, Events, MonthStart
  <2>4. /\ round[r] = 1 /\ (DayFull(r) \/ MonthFull(r)) => n >= 1
        /\ round[r] = 2 /\ DayFull(r) => n >= DailyLimit
        /\ round[r] = 3 /\ MonthFull(r) => n >= MonthlyLimit
    BY <1>0, FullIsCounted DEF IInv
  <2>5. /\ pc'[r] = "gate" /\ read'[r].ledger = n /\ read'[r].legacy = read[r].legacy
        /\ round'[r] = round[r] /\ used'[r] = used[r]
    BY <1>1 DEF IInv, TypeOK, ReadNew
  <2>6. Seen(r, 1, 1)'
    BY <1>1, <2>2, <2>4, <2>5 DEF Seen
  <2>7. DayFull(r) /\ Seen(r, 2, DailyLimit) => Seen(r, 2, DailyLimit)'
    BY <1>1, <2>4, <2>5 DEF Seen
  <2>8. MonthFull(r) /\ Seen(r, 3, MonthlyLimit) => Seen(r, 3, MonthlyLimit)'
    BY <1>1, <2>4, <2>5 DEF Seen
  <2>. QED
    BY <2>1, <2>2, <2>3, <2>5, <2>6, <2>7, <2>8 DEF Blocked, ReadNew, logs
<1>5. LateInv'
  BY <1>1, <1>2, <1>4, OthersStayBlocked DEF IInv, TypeOK, ReadNew, logs
<1>. QED
  BY <1>2, <1>3, <1>5 DEF IInv

LEMMA ReadGateStep == ASSUME IInv, NEW r \in Requests, ReadGate(r) PROVE IInv'
<1>1. pc[r] = "gate" /\ pc' = [pc EXCEPT ![r] = "write"]
  BY DEF ReadGate, Goto
<1>2. TypeOK'
  BY <1>1 DEF IInv, TypeOK, ReadGate, logs, PcStates, Checking
<1>3. SameRuns' /\ LockInv' /\ RunInv'
  BY <1>1, RequestsAssumption
  DEF IInv, TypeOK, SameRuns, LockInv, RunInv, ReadGate, logs, Checking
<1>4. ASSUME late'[r] PROVE Blocked(r)'
  <2>1. Blocked(r)
    BY <1>4 DEF IInv, LateInv, ReadGate
  <2>2. DayFull(r)' = DayFull(r) /\ MonthFull(r)' = MonthFull(r)
    BY DEF ReadGate, logs, DayFull, MonthFull, CountEvents, Events, MonthStart
  <2>3. pc'[r] = "write" /\ UNCHANGED <<read, round, used, pass, legacy>>
    BY <1>1 DEF IInv, TypeOK, ReadGate, logs
  <2>. QED
    BY <1>1, <2>1, <2>2, <2>3 DEF Blocked, Seen, Checking
<1>5. LateInv'
  BY <1>1, <1>2, <1>4, OthersStayBlocked DEF IInv, TypeOK, ReadGate, logs
<1>. QED
  BY <1>2, <1>3, <1>5 DEF IInv

LEMMA RecordedRow ==
  ASSUME NEW row \in GateRow, NEW current \in GateRow, NEW agree
  PROVE  Recorded(row, current, agree) \in GateRow
<1>1. CASE agree
  <2> DEFINE flips == row.flipped \/ row.agreements + 1 >= Threshold
  <2>1. flips \in BOOLEAN /\ row.agreements + 1 \in Nat
    BY DEF GateRow
  <2>2. Recorded(row, current, agree)
          = [current EXCEPT !.agreements = row.agreements + 1, !.flipped = flips]
    BY <1>1 DEF Recorded
  <2> HIDE DEF flips
  <2>. QED
    BY <2>1, <2>2 DEF GateRow
<1>2. CASE ~ agree
  BY <1>2 DEF Recorded, GateRow
<1>. QED
  BY <1>1, <1>2

LEMMA WriteGateStep == ASSUME IInv, NEW r \in Requests, WriteGate(r) PROVE IInv'
<1> DEFINE row == Recorded(snap[r], IF lock = r THEN snap[r] ELSE gate,
                           read[r].legacy = read[r].ledger)
           n == IF row.flipped THEN read[r].ledger ELSE read[r].legacy
           last == round[r] = 3 \/ (round[r] = 1 /\ n = 0)
<1>1. /\ pc[r] = "write" /\ Free(r) /\ lock' = r
      /\ snap' = [snap EXCEPT ![r] = row]
      /\ used' = [used EXCEPT ![r][round[r]] = n]
      /\ pc' = [pc EXCEPT ![r] = IF last THEN "decided" ELSE "legacy"]
      /\ round' = [round EXCEPT ![r] = IF last THEN 1 ELSE @ + 1]
      /\ read' = [read EXCEPT ![r] = NoCounts]
      /\ UNCHANGED <<logs, today, gate, now, pass, late>>
  BY DEF WriteGate
<1>2. row \in GateRow
  <2>1. snap[r] \in GateRow /\ (IF lock = r THEN snap[r] ELSE gate) \in GateRow
    BY DEF IInv, TypeOK
  <2>. QED
    BY <2>1, RecordedRow
<1>3. n \in {read[r].legacy, read[r].ledger}
  OBVIOUS
<1> HIDE DEF row, n
<1>4. n \in Nat
  BY <1>3 DEF IInv, TypeOK
<1>5. round[r] \in Rounds
  BY DEF IInv, TypeOK
<1>6. TypeOK'
  <2>1. used' \in [Requests -> [Rounds -> Nat]]
    <3>1. [used[r] EXCEPT ![round[r]] = n] \in [Rounds -> Nat]
      BY <1>4 DEF IInv, TypeOK
    <3>2. used' = [used EXCEPT ![r] = [used[r] EXCEPT ![round[r]] = n]]
      BY <1>1
    <3>. QED
      BY <3>1, <3>2 DEF IInv, TypeOK
  <2>2. pc' \in [Requests -> PcStates]
    BY <1>1 DEF IInv, TypeOK, PcStates, Checking
  <2>3. round' \in [Requests -> Rounds]
    <3>1. (IF last THEN 1 ELSE round[r] + 1) \in Rounds
      BY <1>5 DEF Rounds
    <3>. QED
      BY <1>1, <3>1 DEF IInv, TypeOK
  <2>4. /\ read' \in [Requests -> [legacy : Nat, ledger : Nat]]
        /\ snap' \in [Requests -> GateRow]
    BY <1>1, <1>2 DEF IInv, TypeOK, NoCounts
  <2>. QED
    BY <1>1, <2>1, <2>2, <2>3, <2>4 DEF IInv, TypeOK, logs
<1>7. SameRuns' /\ LockInv' /\ RunInv'
  <2>1. pc'[r] \in Checking \cup {"decided"}
    BY <1>1 DEF IInv, TypeOK, Checking
  <2>2. LockInv'
    BY <1>1, <2>1, RequestsAssumption DEF IInv, TypeOK, LockInv, Free
  <2>. QED
    BY <1>1, <2>1, <2>2 DEF IInv, TypeOK, SameRuns, RunInv, logs, Checking
<1>8. ASSUME late'[r] PROVE Blocked(r)'
  <2>1. Blocked(r)
    BY <1>1, <1>8 DEF IInv, LateInv
  <2>2. /\ Seen(r, 1, 1)
        /\ \/ DayFull(r) /\ Seen(r, 2, DailyLimit)
           \/ MonthFull(r) /\ Seen(r, 3, MonthlyLimit)
    BY <1>1, <2>1 DEF Blocked, Checking
  <2>3. DayFull(r)' = DayFull(r) /\ MonthFull(r)' = MonthFull(r)
    BY <1>1 DEF logs, DayFull, MonthFull, CountEvents, Events, MonthStart
  <2>4. ASSUME NEW i \in Rounds, NEW k \in Nat, Seen(r, i, k) PROVE round[r] = i => n >= k
    BY <1>1, <1>3, <2>4 DEF Seen
  <2>5. ~ (round[r] = 1 /\ n = 0)
    BY <1>4, <2>2, <2>4 DEF Rounds
  <2>6. /\ pc'[r] = IF round[r] = 3 THEN "decided" ELSE "legacy"
        /\ round'[r] = IF round[r] = 3 THEN 1 ELSE round[r] + 1
        /\ \A i \in Rounds : used'[r][i] = IF i = round[r] THEN n ELSE used[r][i]
    BY <1>1, <1>5, <2>5 DEF IInv, TypeOK
  <2>7. ASSUME NEW i \in Rounds, NEW k \in Nat, Seen(r, i, k)
        PROVE  Seen(r, i, k)'
    <3>1. CASE round[r] = i
      BY <1>1, <1>5, <2>4, <2>6, <2>7, <3>1 DEF Seen, Rounds
    <3>2. CASE round[r] > i
      BY <1>1, <1>5, <2>6, <2>7, <3>2 DEF Seen, Rounds
    <3>3. CASE round[r] < i
      BY <1>1, <1>5, <2>6, <2>7, <3>3 DEF Seen, Rounds
    <3>. QED
      BY <1>5, <3>1, <3>2, <3>3 DEF Rounds
  <2>8. /\ Seen(r, 1, 1)'
        /\ Seen(r, 2, DailyLimit) => Seen(r, 2, DailyLimit)'
        /\ Seen(r, 3, MonthlyLimit) => Seen(r, 3, MonthlyLimit)'
    BY <2>2, <2>7, Limits DEF Rounds
  <2>. QED
    BY <1>1, <2>1, <2>2, <2>3, <2>6, <2>8 DEF Blocked, logs
<1>9. LateInv'
  BY <1>1, <1>6, <1>8, OthersStayBlocked DEF IInv, TypeOK, logs
<1>. QED
  BY <1>6, <1>7, <1>9 DEF IInv

LEMMA ForgetTypes ==
  ASSUME TypeOK, NEW r \in Requests, Forget(r)
  PROVE  /\ now' \in [Requests -> Nat] /\ pass' \in [Requests -> Rounds]
         /\ round' \in [Requests -> Rounds] /\ late' \in [Requests -> BOOLEAN]
         /\ read' \in [Requests -> [legacy : Nat, ledger : Nat]]
         /\ snap' \in [Requests -> GateRow] /\ used' \in [Requests -> [Rounds -> Nat]]
  BY DEF TypeOK, Forget, Rounds, NoCounts, FreshGate, GateRow, NothingUsed

\* A decision commits under the lock; a late request is never admitted.
LEMMA CommitStep ==
  ASSUME IInv, NEW r \in Requests, CommitGate(r), UNCHANGED <<logs, today>>,
         NEW to, Goto(r, "decided", to),
         \/ to = "working" /\ pass[r] = 1 /\ Allowed(used[r])
         \/ to = "end"
  PROVE  IInv'
<1>1. lock = r /\ lock' = NoRequest /\ pc[r] = "decided" /\ pc' = [pc EXCEPT ![r] = to]
  BY DEF IInv, LockInv, CommitGate, Goto
<1>2. TypeOK'
  <2>1. gate' \in GateRow /\ pc' \in [Requests -> PcStates]
    BY <1>1 DEF IInv, TypeOK, CommitGate, PcStates
  <2>. QED
    BY <1>1, <2>1, ForgetTypes DEF IInv, TypeOK, CommitGate, logs
<1>3. SameRuns' /\ LockInv' /\ RunInv'
  BY <1>1 DEF IInv, TypeOK, SameRuns, LockInv, RunInv, CommitGate, Forget, logs
<1>4. ASSUME late'[r] PROVE Blocked(r)'
  <2>1. Blocked(r)
    BY <1>4 DEF IInv, LateInv, CommitGate, Forget
  <2>2. /\ used[r][1] >= 1
        /\ used[r][2] >= DailyLimit \/ used[r][3] >= MonthlyLimit
    BY <1>1, <2>1 DEF Blocked, Seen
  <2>3. used[r] \in [1 .. 3 -> Nat]
    BY DEF IInv, TypeOK, Rounds
  <2>4. ~ Allowed(used[r])
    BY <2>2, <2>3, Limits DEF Allowed
  <2>5. pc'[r] = "end"
    BY <1>1, <2>4 DEF IInv, TypeOK
  <2>. QED
    BY <2>1, <2>5 DEF Blocked, CommitGate, Forget, logs, Checking
<1>5. LateInv'
  BY <1>1, <1>2, <1>4, OthersStayBlocked DEF IInv, TypeOK, CommitGate, Forget, logs
<1>. QED
  BY <1>2, <1>3, <1>5 DEF IInv

\* A run ends on record, for the first time, in both tables.
LEMMA LogStep ==
  ASSUME IInv, NEW r \in Requests, LogEvent(r), NEW to \in {"legacy", "end"},
         Goto(r, "working", to),
         to = "legacy" => pass' = [pass EXCEPT ![r] = 2] /\ now' = [now EXCEPT ![r] = today],
         to = "end" => UNCHANGED <<pass, now>>,
         UNCHANGED <<today, gate, lock, round, read, snap, used, late>>
  PROVE  IInv'
<1>1. pc[r] = "working" /\ pc' = [pc EXCEPT ![r] = to]
  BY DEF Goto
<1>2. TypeOK'
  <2>1. pc' \in [Requests -> PcStates]
    BY <1>1 DEF IInv, TypeOK, PcStates, Checking
  <2>2. pass' \in [Requests -> Rounds] /\ now' \in [Requests -> Nat]
    <3>1. CASE to = "legacy"
      <4>1. pass \in [Requests -> Rounds] /\ now \in [Requests -> Nat] /\ today \in Nat
        BY DEF IInv, TypeOK
      <4>2. 2 \in Rounds
        BY DEF Rounds
      <4>. QED
        BY <3>1, <4>1, <4>2
    <3>2. CASE to = "end"
      BY <3>2 DEF IInv, TypeOK
    <3>. QED
      BY <3>1, <3>2
  <2>3. legacy' \in SUBSET Requests /\ ledger' \in SUBSET Requests /\ dated' \in [Requests -> Nat]
    BY DEF IInv, TypeOK, LogEvent
  <2>. QED
    BY <2>1, <2>2, <2>3 DEF IInv, TypeOK
<1>3. r \notin legacy /\ pass[r] = 1 /\ ~ late[r]
  BY <1>1 DEF IInv, RunInv, LateInv, Blocked
<1>4. SameRuns'
  BY DEF IInv, SameRuns, LogEvent
<1>5. LockInv'
  BY <1>1, RequestsAssumption DEF IInv, TypeOK, LockInv, Checking
<1>6. RunInv'
  <2>. SUFFICES ASSUME NEW q \in Requests
       PROVE  /\ pc'[q] = "idle" => pass'[q] = 1 /\ round'[q] = 1 /\ ~late'[q]
              /\ pc'[q] = "working" => pass'[q] = 1
              /\ pass'[q] = 1 /\ pc'[q] \notin {"end", "aborted"} => q \notin legacy'
    BY DEF RunInv
  <2>1. CASE q = r
    BY <1>1, <2>1 DEF IInv, TypeOK
  <2>2. CASE q # r
    BY <1>1, <2>2 DEF IInv, TypeOK, RunInv, LogEvent
  <2>. QED
    BY <2>1, <2>2
<1>7. LateInv'
  <2>1. legacy \subseteq legacy' /\ legacy' \subseteq legacy \cup {r}
    BY DEF LogEvent
  <2>2. \A q \in legacy : dated'[q] = dated[q]
    BY <1>3 DEF IInv, TypeOK, LogEvent
  <2>3. \A q \in Requests \ {r} : pc'[q] = pc[q] /\ now'[q] = now[q] /\ pass'[q] = pass[q]
    BY <1>1 DEF IInv, TypeOK
  <2>4. late' = [late EXCEPT ![r] = late'[r]] /\ ~ late'[r]
    BY <1>3 DEF IInv, TypeOK
  <2>. QED
    BY <1>2, <2>1, <2>2, <2>3, <2>4, OthersStayBlocked
<1>. QED
  BY <1>2, <1>4, <1>5, <1>6, <1>7 DEF IInv

LEMMA RecountStep == ASSUME IInv, NEW r \in Requests, Recount(r) PROVE IInv'
<1>1. pc[r] = "decided" /\ pc' = [pc EXCEPT ![r] = "legacy"] /\ pass[r] = 2
  BY DEF Recount, Goto
<1>2. TypeOK'
  BY <1>1 DEF IInv, TypeOK, Recount, logs, PcStates, Checking, Rounds
<1>3. SameRuns' /\ LockInv' /\ RunInv'
  BY <1>1, RequestsAssumption
  DEF IInv, TypeOK, SameRuns, LockInv, RunInv, Recount, logs, Checking
<1>4. ~ late'[r]
  BY <1>1 DEF IInv, LateInv, Blocked, Recount
<1>5. LateInv'
  BY <1>1, <1>2, <1>4, OthersStayBlocked DEF IInv, TypeOK, Recount, logs
<1>. QED
  BY <1>2, <1>3, <1>5 DEF IInv

LEMMA AbortStep == ASSUME IInv, NEW r \in Requests, Abort(r) \/ LogRefused(r) PROVE IInv'
<1>1. /\ pc[r] \in Running /\ pc' = [pc EXCEPT ![r] = "aborted"]
      /\ lock' = IF lock = r THEN NoRequest ELSE lock
      /\ Forget(r) /\ UNCHANGED <<logs, today, gate>>
  BY DEF Abort, LogRefused, Goto, Running, IInv, LockInv, Checking
<1>2. TypeOK'
  <2>1. pc' \in [Requests -> PcStates] /\ lock' \in Requests \cup {NoRequest}
    BY <1>1 DEF IInv, TypeOK, PcStates
  <2>. QED
    BY <1>1, <2>1, ForgetTypes DEF IInv, TypeOK, logs
<1>3. SameRuns' /\ LockInv' /\ RunInv'
  BY <1>1 DEF IInv, TypeOK, SameRuns, LockInv, RunInv, Forget, logs
<1>4. ASSUME late'[r] PROVE Blocked(r)'
  <2>1. Blocked(r) /\ pc'[r] = "aborted"
    BY <1>1, <1>4 DEF IInv, TypeOK, LateInv, Forget
  <2>. QED
    BY <1>1, <2>1 DEF Blocked, Forget, logs, Checking
<1>5. LateInv'
  BY <1>1, <1>2, <1>4, OthersStayBlocked DEF IInv, TypeOK, Forget, logs
<1>. QED
  BY <1>2, <1>3, <1>5 DEF IInv

\* Midnight changes no window a request has already taken.
LEMMA IdleStep == ASSUME IInv, NextDay \/ UNCHANGED vars PROVE IInv'
<1>1. UNCHANGED <<logs, gate, lock, pc, local>> /\ today' \in Nat
  BY DEF IInv, TypeOK, NextDay, vars
<1>2. TypeOK'
  BY <1>1 DEF IInv, TypeOK, logs, local
<1>3. SameRuns' /\ LockInv' /\ RunInv'
  BY <1>1 DEF IInv, SameRuns, LockInv, RunInv, logs, local
<1>4. LateInv'
  <2>. SUFFICES ASSUME NEW r \in Requests, late'[r] PROVE Blocked(r)'
    BY DEF LateInv
  <2>1. Blocked(r)
    BY <1>1 DEF IInv, LateInv, local
  <2>. QED
    BY <1>1, <1>2, <2>1, StaysBlocked DEF IInv, logs, local
<1>. QED
  BY <1>2, <1>3, <1>4 DEF IInv

LEMMA NextInvariant == IInv /\ [Next]_vars => IInv'
<1>. SUFFICES ASSUME IInv, [Next]_vars PROVE IInv'
  OBVIOUS
<1>1. CASE NextDay \/ UNCHANGED vars
  BY <1>1, IdleStep
<1>2. ASSUME NEW r \in Requests, Begin(r) \/ Server(r) \/ Abort(r) PROVE IInv'
  <2>1. CASE Begin(r)
    BY <2>1, BeginStep
  <2>2. CASE Check(r)
    BY <2>2, ReadLegacyStep, ReadNewStep, ReadGateStep, WriteGateStep DEF Check
  <2>3. CASE Admit(r)
    BY <2>3, CommitStep DEF Admit
  <2>4. CASE Refuse(r) \/ Respond(r)
    BY <2>4, CommitStep DEF Refuse, Respond
  <2>5. CASE Complete(r)
    BY <2>5, LogStep DEF Complete
  <2>6. CASE Fail(r)
    BY <2>6, LogStep DEF Fail, local
  <2>7. CASE Recount(r)
    BY <2>7, RecountStep
  <2>8. CASE Abort(r) \/ LogRefused(r)
    BY <2>8, AbortStep
  <2>. QED
    BY <1>2, <2>1, <2>2, <2>3, <2>4, <2>5, <2>6, <2>7, <2>8 DEF Server
<1>. QED
  BY <1>1, <1>2 DEF Next

(****************************** the theorems ******************************)
\* The inductive invariant of the quota check holds in every reachable state.
THEOREM Invariant == Spec => []IInv
  BY InitInvariant, NextInvariant, PTL DEF Spec

\* Every reachable state is well typed, whatever the limits.
THEOREM TypeCorrect == Spec => []TypeOK
<1>1. IInv => TypeOK
  BY DEF IInv
<1>. QED
  BY <1>1, Invariant, PTL

\* A request that finds its quota used up never generates and never gets on
\* record, whichever table the gate trusts when it counts.
THEOREM QuotaHolds == Spec => []UsedUpQuotaBlocks
<1>1. IInv => UsedUpQuotaBlocks
  BY DEF IInv, LateInv, Blocked, UsedUpQuotaBlocks
<1>. QED
  BY <1>1, Invariant, PTL

\* No request sits on the gate row while its models run.
THEOREM GateFree == Spec => []GateFreeWhileGenerating
<1>1. IInv => GateFreeWhileGenerating
  BY RequestsAssumption DEF IInv, LockInv, GateFreeWhileGenerating, Checking
<1>. QED
  BY <1>1, Invariant, PTL
=============================================================================
