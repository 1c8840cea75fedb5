------------------------- MODULE HistoryQueueProofs -------------------------
(***************************************************************************)
(* HistoryQueue keeps its types, delivers only complete events and         *)
(* implements HistoryDelivery, for every number of events, episodes,       *)
(* flushes and phases, every budget and every length of a lease.  Its      *)
(* flushes never work on an event before its predecessors, strand the      *)
(* structural lock, fill the queue beyond its ceilings or send more than   *)
(* the day allows.                                                         *)
(***************************************************************************)
EXTENDS HistoryQueue, FiniteSetTheorems, TLAPS

(* The phases of a flush that has claimed an event.                        *)
Owning == {"claimed", "working", "saving", "finishing"}

(* What a flush knows of its event.  Its cursor is not ahead of the        *)
(* effects, and as long as there is work left the event is pending; a      *)
(* retired event is the exception, but no work goes on with its cursor.    *)
Sound(s) ==
  /\ s.phase # "idle" => s.event \in Events /\ s.clock <= now
  /\ s.phase \in Owning =>
       /\ s.day \in Days /\ s.used <= s.reserved /\ s.step <= Len(Phases[s.event])
       /\ Episode[s.event] \notin retired =>
            /\ s.step <= effect[s.event]
            /\ row[s.event].status = "pending" \/ effect[s.event] = Len(Phases[s.event])
  /\ s.phase = "working" => s.step <= effect[s.event]
  /\ s.phase \in {"saving", "finishing"} /\ s.outcome = "delivered" => s.step = Len(Phases[s.event])
  /\ s.phase \in {"saving", "finishing"} /\ s.outcome = "retired" => Episode[s.event] \in retired

Bounded == \A e \in Events : effect[e] <= Len(Phases[e])

(* The same of the cursor that is saved in the row.                        *)
Saved ==
  \A e \in Events :
    /\ row[e].step <= Len(Phases[e])
    /\ Episode[e] \notin retired =>
         /\ row[e].step <= effect[e]
         /\ row[e].status = "delivered" => effect[e] = Len(Phases[e])

IInv ==
  /\ TypeOK /\ Bounded /\ Saved
  /\ ~Retirement => retired = {}
  /\ \A w \in Flushers : Sound(flush[w])

-----------------------------------------------------------------------------
(* Numbers and records.                                                    *)

(* The greater of two integers.                                            *)
LEMMA MaxOfTwo ==
  ASSUME NEW a \in Int, NEW b \in Int
  PROVE  Max({a, b}) \in {a, b} /\ a <= Max({a, b}) /\ b <= Max({a, b})
<1>1. \E x \in {a, b} : \A y \in {a, b} : x >= y
  OBVIOUS
<1> QED BY <1>1 DEF Max

(* The lesser of two integers.                                             *)
LEMMA MinOfTwo ==
  ASSUME NEW a \in Int, NEW b \in Int
  PROVE  Min({a, b}) \in {a, b} /\ Min({a, b}) <= a /\ Min({a, b}) <= b
<1>1. \E x \in {a, b} : \A y \in {a, b} : x <= y
  OBVIOUS
<1> QED BY <1>1 DEF Min

(* The units of the queue are numbers.                                     *)
LEMMA UnitTypes ==
  /\ LeaseTicks \in Nat /\ DayTicks \in Nat /\ LiveTicks \in Nat /\ MaxBackoff \in Nat
  /\ FlushUnits \in Nat /\ RetentionTicks \in Nat /\ Budget \in Nat /\ LiveUnits \in Nat /\ MaxTime \in Nat
BY UnitAssumption

(* The days of the clock are the days the budget is kept for.              *)
LEMMA DayOfClock ==
  ASSUME NEW t \in Nat, t <= MaxTime
  PROVE  Day(t) \in Days
<1>1. MaxTime \in Nat /\ DayTicks \in Nat /\ DayTicks > 0
  BY UnitAssumption
<1> DEFINE q == t \div DayTicks
           m == MaxTime \div DayTicks
<1>2. q \in Nat /\ m \in Nat
  BY <1>1
<1>3. q * DayTicks <= t /\ MaxTime < (m + 1) * DayTicks
  BY <1>1
<1>4. q <= m
  <2> HIDE DEF q, m
  <2> SUFFICES ASSUME q >= m + 1 PROVE FALSE
    BY <1>2
  <2>1. q * DayTicks >= (m + 1) * DayTicks
    BY <1>1, <1>2
  <2> QED BY <1>1, <1>2, <1>3, <2>1
<1> QED BY <1>2, <1>4 DEF Day, Days

(* A statement runs on a clock reading that is not in the future.          *)
LEMMA ReadingType ==
  ASSUME IInv, NEW w \in Flushers, NEW t \in Readings(w)
  PROVE  t \in Nat /\ t <= now
<1>1. flush[w].clock \in Nat /\ now \in Nat /\ Latency \in Nat
  BY UnitAssumption DEF IInv, TypeOK, Flush
<1> DEFINE a == flush[w].clock
           b == now - Latency
           m == Max({a, b})
<1>2. a \in Int /\ b \in Int
  BY <1>1
<1>3. t \in m .. now
  BY DEF Readings
<1>4. m \in {a, b} /\ a <= m
  <2> HIDE DEF a, b
  <2> QED BY <1>2, MaxOfTwo
<1>5. a \in Nat
  BY <1>1
<1> QED
  <2> HIDE DEF m, a, b
  <2> QED BY <1>5, <1>1, <1>2, <1>3, <1>4

(* The empty row and the idle flush.                                       *)
LEMMA EmptyTypes ==
  NoRow \in Row /\ Idle \in Flush
BY DEF NoRow, Row, Idle, Flush, Never

(* A flush whose state is set, among the others.                           *)
LEMMA SetType ==
  ASSUME IInv, NEW w \in Flushers, NEW s \in Flush, Set(w, s)
  PROVE  /\ flush' \in [Flushers -> Flush]
         /\ flush'[w] = s
         /\ \A d \in Flushers : d # w => flush'[d] = flush[d]
BY DEF IInv, TypeOK, Set

(* What keeps the invariant: effects grow, retirement is final, and a row  *)
(* leaves the pending ones only when its work is done or withdrawn.        *)
LEMMA Preserved ==
  ASSUME IInv, TypeOK', now <= now',
         Bounded', Saved', retired \subseteq retired', (~Retirement => retired = {})',
         \A e \in Events :
           /\ effect[e] <= effect'[e]
           /\ \/ row[e].status = "pending" => row'[e].status = "pending"
              \/ effect'[e] = Len(Phases[e])
              \/ Episode[e] \in retired',
         \A w \in Flushers : flush'[w] = flush[w] \/ Sound(flush[w])'
  PROVE  IInv'
<1> SUFFICES ASSUME NEW w \in Flushers, flush'[w] = flush[w] PROVE Sound(flush[w])'
  BY DEF IInv
<1>1. Sound(flush[w])
  BY DEF IInv
<1>2. flush[w] \in Flush /\ now \in Nat /\ now' \in Nat
  BY DEF IInv, TypeOK
<1>3. \A e \in Events : effect[e] \in Nat /\ effect'[e] \in Nat /\ effect'[e] <= Len(Phases[e]) /\ Len(Phases[e]) \in Nat
  BY EventAssumption DEF IInv, TypeOK, Bounded
<1>4. flush[w].phase # "idle" => flush[w].event \in Events
  BY <1>1 DEF Sound
<1>5. flush[w].phase # "idle" => flush[w].clock <= now'
  BY <1>1, <1>2 DEF Sound, Flush
<1>6. ASSUME flush[w].phase \in Owning
      PROVE  /\ flush[w].day \in Days /\ flush[w].used <= flush[w].reserved
             /\ flush[w].step <= Len(Phases[flush[w].event])
             /\ Episode[flush[w].event] \notin retired' =>
                  /\ flush[w].step <= effect'[flush[w].event]
                  /\ \/ row'[flush[w].event].status = "pending"
                     \/ effect'[flush[w].event] = Len(Phases[flush[w].event])
  <2> flush[w].event \in Events /\ flush[w].step \in Nat
    BY <1>2, <1>4, <1>6 DEF Flush, Owning
  <2> QED BY <1>1, <1>3, <1>6 DEF Sound
<1>7. flush[w].phase = "working" => flush[w].step <= effect'[flush[w].event]
  BY <1>1, <1>2, <1>3, <1>4 DEF Sound, Flush
<1>8. Episode[flush[w].event] \in retired => Episode[flush[w].event] \in retired'
  OBVIOUS
<1> QED BY <1>1, <1>4, <1>5, <1>6, <1>7, <1>8 DEF Sound, Days

(* A step of one flush that changes nothing but its own state.             *)
LEMMA FlushOnly ==
  ASSUME IInv, NEW w \in Flushers, NEW s \in Flush, Set(w, s), Sound(s),
         UNCHANGED <<now, row, hist, lock, effect, retired, cleaning, spent, overtaken, openings, belated>>
  PROVE  IInv'
<1>1. /\ flush' \in [Flushers -> Flush]
      /\ flush'[w] = s
      /\ \A d \in Flushers : d # w => flush'[d] = flush[d]
  BY SetType
<1>2. TypeOK'
  <2>1. \A d \in Flushers : flush'[d].phase \in {"working", "saving", "finishing"} =>
                              flush'[d].used <= flush'[d].reserved
    BY <1>1 DEF IInv, TypeOK, Sound, Owning
  <2> QED BY <1>1, <2>1 DEF IInv, TypeOK
<1>3. Bounded' /\ Saved' /\ (~Retirement => retired = {})'
  BY DEF IInv, Bounded, Saved, Delivered
<1>4. \A d \in Flushers : flush'[d] = flush[d] \/ Sound(flush[d])'
  BY <1>1 DEF Sound, Days
<1>5. \A e \in Events : effect[e] <= effect'[e]
  BY DEF IInv, TypeOK
<1>6. now <= now'
  BY DEF IInv, TypeOK
<1> QED BY <1>2, <1>3, <1>4, <1>5, <1>6, Preserved

(* A step of one flush that also writes the row of one event.              *)
LEMMA RowAndFlush ==
  ASSUME IInv, NEW w \in Flushers, NEW s \in Flush, Set(w, s), Sound(flush[w])',
         NEW e \in Events, NEW r \in Row, row' = [row EXCEPT ![e] = r],
         r.step <= Len(Phases[e]),
         Episode[e] \notin retired =>
           /\ r.step <= effect[e]
           /\ r.status = "pending" \/ effect[e] = Len(Phases[e]),
         r.status # "absent",
         hist' \in [day : Int, writes : Nat], openings' \in [Days -> Nat],
         UNCHANGED <<now, lock, effect, retired, cleaning, spent, overtaken, belated>>
  PROVE  IInv'
<1>1. /\ flush' \in [Flushers -> Flush]
      /\ flush'[w] = s
      /\ \A d \in Flushers : d # w => flush'[d] = flush[d]
  BY SetType
<1>2. /\ row' \in [Events -> Row]
      /\ row'[e] = r
      /\ \A f \in Events : f # e => row'[f] = row[f]
  BY DEF IInv, TypeOK
<1>3. TypeOK'
  <2>1. \A d \in Flushers : flush'[d].phase \in {"working", "saving", "finishing"} =>
                              flush'[d].used <= flush'[d].reserved
    BY <1>1 DEF IInv, TypeOK, Sound, Owning
  <2> QED BY <1>1, <1>2, <2>1 DEF IInv, TypeOK
<1>4. Bounded' /\ (~Retirement => retired = {})'
  BY DEF IInv, Bounded
<1>5. Saved'
  BY <1>2 DEF IInv, Saved
<1>6. \A d \in Flushers : flush'[d] = flush[d] \/ Sound(flush[d])'
  BY <1>1
<1>7. \A f \in Events :
        /\ effect[f] <= effect'[f]
        /\ \/ row[f].status = "pending" => row'[f].status = "pending"
           \/ effect'[f] = Len(Phases[f])
           \/ Episode[f] \in retired'
  BY <1>2 DEF IInv, TypeOK
<1>8. now <= now'
  BY DEF IInv, TypeOK
<1> QED BY <1>3, <1>4, <1>5, <1>6, <1>7, <1>8, Preserved

(* A flush that ends, and leaves the rows alone.                           *)
LEMMA IdleWithBudget ==
  ASSUME IInv, NEW w \in Flushers, Set(w, Idle), hist' \in [day : Int, writes : Nat],
         openings' \in [Days -> Nat],
         UNCHANGED <<now, row, lock, effect, retired, cleaning, spent, overtaken, belated>>
  PROVE  IInv'
<1>1. /\ flush' \in [Flushers -> Flush]
      /\ flush'[w] = Idle /\ Idle.phase = "idle"
      /\ \A d \in Flushers : d # w => flush'[d] = flush[d]
  BY EmptyTypes, SetType DEF Idle
<1>2. TypeOK'
  <2>1. \A d \in Flushers : flush'[d].phase \in {"working", "saving", "finishing"} =>
                              flush'[d].used <= flush'[d].reserved
    BY <1>1 DEF IInv, TypeOK
  <2> QED BY <1>1, <2>1 DEF IInv, TypeOK
<1>3. Bounded' /\ Saved' /\ (~Retirement => retired = {})'
  BY DEF IInv, Bounded, Saved, Delivered
<1>4. \A d \in Flushers : flush'[d] = flush[d] \/ Sound(flush[d])'
  BY <1>1 DEF Sound, Owning
<1>5. \A e \in Events : effect[e] <= effect'[e]
  BY DEF IInv, TypeOK
<1>6. now <= now'
  BY DEF IInv, TypeOK
<1> QED BY <1>2, <1>3, <1>4, <1>5, <1>6, Preserved

(* A step of the producers, of the archive or of the retirement: rows are  *)
(* replaced, retirement grows, and no flush moves.                         *)
LEMMA RowsOnly ==
  ASSUME IInv, row' \in [Events -> Row], retired \subseteq retired', retired' \subseteq Episodes,
         ~Retirement => retired' = {},
         \A e \in Events :
           \/ row'[e].step = row[e].step /\ row'[e].status = row[e].status
           \/ row'[e].step = 0 /\ row'[e].status = "pending"
           \/ /\ row'[e].step = 0 /\ row'[e].status = "absent"
              /\ row[e].status # "pending" \/ Episode[e] \in retired',
         cleaning' \in BOOLEAN, overtaken' \subseteq Events,
         UNCHANGED <<now, hist, lock, effect, flush, spent, openings, belated>>
  PROVE  IInv'
<1>1. TypeOK'
  BY DEF IInv, TypeOK
<1>2. Bounded' /\ Saved'
  <2>1. \A e \in Events : Len(Phases[e]) \in Nat
    BY EventAssumption
  <2>2. Bounded'
    BY DEF IInv, Bounded
  <2>3. ASSUME NEW e \in Events
        PROVE  /\ row'[e].step <= Len(Phases[e])
               /\ Episode[e] \notin retired' =>
                    /\ row'[e].step <= effect'[e]
                    /\ row'[e].status = "delivered" => effect'[e] = Len(Phases[e])
    <3>1. effect[e] \in Nat /\ effect'[e] = effect[e]
      BY DEF IInv, TypeOK
    <3> QED BY <2>1, <3>1 DEF IInv, Saved
  <2>4. Saved'
    BY <2>3 DEF Saved
  <2> QED BY <2>2, <2>4
<1>3. \A e \in Events :
        /\ effect[e] <= effect'[e]
        /\ \/ row[e].status = "pending" => row'[e].status = "pending"
           \/ effect'[e] = Len(Phases[e])
           \/ Episode[e] \in retired'
  BY DEF IInv, TypeOK
<1>4. now <= now'
  BY DEF IInv, TypeOK
<1> QED BY <1>1, <1>2, <1>3, <1>4, Preserved

LEMMA InitIInv == Init => IInv
<1> SUFFICES ASSUME Init PROVE IInv
  OBVIOUS
<1>1. NoRow \in Row /\ Idle \in Flush /\ NoRow.step = 0 /\ NoRow.status = "absent" /\ Idle.phase = "idle"
  BY EmptyTypes DEF NoRow, Idle
<1>2. TypeOK
  <2>1. MaxTime \in Nat /\ 0 \in 0 .. MaxTime
    BY UnitAssumption
  <2>2. hist \in [day : Int, writes : Nat]
    BY DEF Init, Never
  <2> QED BY <1>1, <2>1, <2>2 DEF Init, TypeOK
<1>3. Bounded /\ Saved
  <2>1. \A e \in Events : Len(Phases[e]) \in Nat
    BY EventAssumption
  <2> QED BY <1>1, <2>1 DEF Init, Bounded, Saved
<1>4. \A w \in Flushers : Sound(flush[w])
  BY <1>1 DEF Init, Sound, Owning
<1> QED BY <1>2, <1>3, <1>4 DEF Init, IInv

-----------------------------------------------------------------------------
(* The actions, one by one.                                                *)

(* What the invariant says of one flush.                                   *)
LEMMA FlushFacts ==
  ASSUME IInv, NEW w \in Flushers
  PROVE  /\ flush[w] \in Flush /\ Sound(flush[w]) /\ now \in Nat /\ now <= MaxTime
         /\ flush[w].phase \in {"working", "saving", "finishing"} => flush[w].used <= flush[w].reserved
         /\ flush[w].phase # "idle" =>
              /\ row[flush[w].event] \in Row
              /\ effect[flush[w].event] \in Nat
              /\ Len(Phases[flush[w].event]) \in Nat
<1>1. MaxTime \in Nat /\ now \in 0 .. MaxTime
  BY UnitAssumption DEF IInv, TypeOK
<1> QED BY <1>1, EventAssumption DEF IInv, TypeOK, Sound

(* The state of a flush that has selected an event.                        *)
LEMMA SelectedType ==
  ASSUME NEW e \in Events, NEW t \in Nat, NEW live \in BOOLEAN, NEW least \in Nat
  PROVE  LET s == [Idle EXCEPT !.phase = "selected", !.event = e, !.clock = t, !.live = live, !.used = least] IN
         s \in Flush /\ s.phase = "selected" /\ s.event = e /\ s.clock = t
<1>1. Idle \in Flush
  BY EmptyTypes
<1> QED BY <1>1 DEF Flush

LEMMA SelectPreserves ==
  ASSUME IInv, NEW w \in Flushers, Select(w)
  PROVE  IInv'
<1>1. PICK e \in Affordable(now) :
        Set(w, [Idle EXCEPT !.phase = "selected", !.event = e, !.clock = now, !.live = LiveAt(e, now),
                            !.used = Minimum(e, row[e].step)])
  BY DEF Select
<1> DEFINE least == Minimum(e, row[e].step)
           live == LiveAt(e, now)
           s == [Idle EXCEPT !.phase = "selected", !.event = e, !.clock = now, !.live = live, !.used = least]
<1>2. e \in Events /\ row[e] \in Row
  BY DEF Affordable, IInv, TypeOK
<1>3. now \in Nat
  BY FlushFacts
<1>4. least \in Nat
  <2>1. row[e].step \in Nat /\ row[e].step <= Len(Phases[e])
    BY <1>2 DEF IInv, Saved, Row
  <2>2. Phases[e] \in Seq(Kinds) /\ Cost \in [Kinds -> Nat]
    BY <1>2, EventAssumption, UnitAssumption
  <2>3. CASE row[e].step = Len(Phases[e])
    BY <2>3 DEF Minimum
  <2>4. CASE row[e].step # Len(Phases[e])
    <3>1. row[e].step + 1 \in 1 .. Len(Phases[e])
      BY <2>1, <2>2, <2>4
    <3>2. Phases[e][row[e].step + 1] \in Kinds
      BY <3>1, <2>2
    <3> QED BY <2>2, <2>4, <3>2 DEF Minimum
  <2> QED BY <2>3, <2>4
<1>5. s \in Flush /\ s.phase = "selected" /\ s.event = e /\ s.clock = now
  <2>1. live \in BOOLEAN
    BY DEF LiveAt
  <2>2. \A l \in BOOLEAN, u \in Nat :
          LET r == [Idle EXCEPT !.phase = "selected", !.event = e, !.clock = now, !.live = l, !.used = u] IN
          r \in Flush /\ r.phase = "selected" /\ r.event = e /\ r.clock = now
    BY <1>2, <1>3, SelectedType
  <2>3. live \in BOOLEAN /\ least \in Nat
    BY <1>4, <2>1
  <2> HIDE DEF least, live
  <2> QED BY <2>2, <2>3, Zenon
<1>6. Sound(s)
  <2> HIDE DEF s
  <2> QED BY <1>2, <1>3, <1>5 DEF Sound, Owning
<1>7. UNCHANGED <<now, row, hist, lock, effect, retired, cleaning, spent, overtaken, openings, belated>>
  BY DEF Select
<1>8. Set(w, s)
  BY <1>1
<1> QED
  <2> HIDE DEF s
  <2> QED BY <1>5, <1>6, <1>7, <1>8, FlushOnly

(* The state of a flush that has claimed an event.                         *)
LEMMA LeasedType ==
  ASSUME IInv, NEW f \in Flush, f.event \in Events, f.clock <= MaxTime, NEW reserved \in Nat
  PROVE  LET s == Leased(f, reserved) IN
         /\ s \in Flush /\ s.phase \in {"claimed", "working"} /\ (s.phase = "working" => ~Retirement)
         /\ s.event = f.event /\ s.clock = now
         /\ s.day \in Days /\ s.reserved = reserved /\ s.used = 0 /\ s.step = row[f.event].step
         /\ s.day = Day(f.clock) /\ s.until = f.clock + LeaseTicks /\ s.live = f.live
<1> DEFINE e == f.event
           phase == IF Retirement THEN "claimed" ELSE "working"
           day == Day(f.clock)
           until == f.clock + LeaseTicks
           step == row[e].step
           locked == row[e].locked
<1>1. now \in Nat /\ f.clock \in Nat /\ LeaseTicks \in Nat
  BY UnitAssumption DEF IInv, TypeOK, Flush
<1>2. day \in Days /\ day \in Int /\ until \in Int
  BY <1>1, DayOfClock DEF Days
<1>3. step \in Nat /\ locked \in BOOLEAN
  BY DEF IInv, TypeOK, Row
<1>4. phase \in {"claimed", "working"} /\ (phase = "working" => ~Retirement)
  BY UnitAssumption
<1>5. f.live \in BOOLEAN
  BY DEF Flush
<1> HIDE DEF phase, day, until, step, locked
<1>6. LET s == Leased(f, reserved) IN
      /\ s.phase = phase /\ s.event = f.event /\ s.clock = now
      /\ s.day = day /\ s.reserved = reserved /\ s.used = 0 /\ s.step = step
      /\ s.until = until /\ s.live = f.live
  BY DEF Leased, phase, day, step, until
<1>7. Leased(f, reserved) \in Flush
  BY <1>1, <1>2, <1>3, <1>4, <1>5 DEF Leased, Flush, phase, day, until, step, locked
<1> QED BY <1>2, <1>4, <1>6, <1>7 DEF step, day, until

(* The budget after the reset, and what a claim can still charge.          *)
LEMMA ResetType ==
  ASSUME IInv, NEW d \in Int, NEW live
  PROVE  /\ Reset(d) \in [day : Int, writes : Nat]
         /\ Allowance(live) - Reset(d).writes \in Int
<1>1. Reset(d) \in [day : Int, writes : Nat]
  BY DEF Reset, IInv, TypeOK
<1>2. Budget \in Nat /\ LiveUnits \in Nat
  BY UnitAssumption
<1>3. Allowance(live) \in Int
  BY <1>2 DEF Allowance
<1> QED BY <1>1, <1>3

LEMMA ClaimPreserves ==
  ASSUME IInv, NEW w \in Flushers, Claim(w)
  PROVE  IInv'
<1> DEFINE e == flush[w].event
           t == flush[w].clock
           meta == Reset(Day(t))
           left == Allowance(flush[w].live) - meta.writes
<1>1. /\ flush[w] \in Flush /\ Sound(flush[w]) /\ now \in Nat
      /\ e \in Events /\ row[e] \in Row /\ t \in Nat /\ t <= MaxTime
      /\ Len(Phases[e]) \in Nat
  <2>1. flush[w].phase # "idle"
    BY DEF Claim
  <2>2. t \in Nat /\ t <= now
    BY <2>1, FlushFacts DEF Flush, Sound
  <2>3. MaxTime \in Nat
    BY UnitAssumption
  <2> QED BY <2>1, <2>2, <2>3, FlushFacts DEF Sound
<1>2. Day(t) \in Days /\ Day(t) \in Int
  BY <1>1, DayOfClock DEF Days
<1>3. meta \in [day : Int, writes : Nat] /\ left \in Int
  BY <1>2, ResetType
<1>4. /\ UNCHANGED <<now, lock, effect, retired, cleaning, spent, overtaken, belated>>
      /\ openings' \in [Days -> Nat]
  <2>1. openings \in [Days -> Nat]
    BY DEF IInv, TypeOK
  <2>2. openings' = openings \/ openings' = [openings EXCEPT ![Day(t)] = @ + 1]
    BY DEF Claim
  <2> QED BY <1>2, <2>1, <2>2 DEF Claim
<1>5. CASE Claimable(e, t) /\ left >= flush[w].used
  <2>1. PICK maximum \in 1 .. FlushUnits :
          LET reserved == Min({maximum, left}) IN
          /\ row' = [row EXCEPT ![e] = [@ EXCEPT !.holder = w, !.until = t + LeaseTicks, !.next = t + LeaseTicks]]
          /\ hist' = [meta EXCEPT !.writes = @ + reserved]
          /\ Set(w, Leased(flush[w], reserved))
    BY <1>5 DEF Claim
  <2> DEFINE reserved == Min({maximum, left})
             until == t + LeaseTicks
             r == [row[e] EXCEPT !.holder = w, !.until = until, !.next = until]
             s == Leased(flush[w], reserved)
  <2>2. reserved \in Nat
    <3>1. FlushUnits \in Nat /\ maximum \in Nat
      BY UnitAssumption
    <3>2. left \in Nat
      <4> HIDE DEF left
      <4> QED BY <1>1, <1>3, <1>5 DEF Flush
    <3>3. reserved \in {maximum, left}
      <4> HIDE DEF left
      <4> QED BY <3>1, <3>2, MinOfTwo
    <3> HIDE DEF left, reserved
    <3> QED BY <3>1, <3>2, <3>3
  <2>3. LeaseTicks \in Nat /\ until \in Int
    <3>1. LeaseTicks \in Nat
      BY UnitTypes
    <3> HIDE DEF e, left, meta, reserved
    <3> QED BY <1>1, <3>1
  <2>4. r \in Row /\ r.step = row[e].step /\ r.status = "pending"
    <3>1. row[e].status = "pending"
      BY <1>5 DEF Claimable
    <3> HIDE DEF until
    <3> QED BY <1>1, <2>3, <3>1 DEF Row
  <2>6. /\ s \in Flush /\ s.phase \in {"claimed", "working"} /\ (s.phase = "working" => ~Retirement)
        /\ s.event = e /\ s.clock = now
        /\ s.day \in Days /\ s.reserved = reserved /\ s.used = 0 /\ s.step = row[e].step
    <3> HIDE DEF reserved
    <3> QED BY <1>1, <2>2, LeasedType
  <2>7. hist' \in [day : Int, writes : Nat]
    <3> HIDE DEF meta, reserved
    <3> QED BY <1>3, <2>1, <2>2 DEF reserved
  <2>8. row' = [row EXCEPT ![e] = r] /\ Set(w, s)
    BY <2>1
  <2>9. /\ r.step <= Len(Phases[e])
        /\ Episode[e] \notin retired => r.step <= effect[e]
    <3> HIDE DEF r
    <3> QED BY <1>1, <2>4 DEF IInv, Saved
  <2>10. Sound(flush[w])'
    <3>1. /\ row[e].step <= Len(Phases[e])
          /\ Episode[e] \notin retired => row[e].step <= effect[e]
          /\ ~Retirement => retired = {}
      BY <1>1 DEF IInv, Saved
    <3>2. row'[e].status = "pending"
      <4> HIDE DEF r
      <4> QED BY <1>1, <2>4, <2>8 DEF IInv, TypeOK
    <3>3. flush'[w] = s
      <4> HIDE DEF s
      <4> QED BY <2>6, <2>8, SetType
    <3> DEFINE n == flush'[w]
    <3>4. /\ n.phase \in {"claimed", "working"} /\ (n.phase = "working" => ~Retirement)
          /\ n.event = e /\ n.clock = now /\ n.day \in Days
          /\ n.reserved \in Nat /\ n.used = 0 /\ n.step = row[e].step
      <4> HIDE DEF s, reserved
      <4> QED BY <2>2, <2>6, <3>3
    <3> HIDE DEF n, e, t
    <3> QED BY <1>1, <1>4, <3>1, <3>2, <3>4 DEF Sound, Days, n
  <2> HIDE DEF r, s, e
  <2> QED BY <1>1, <1>4, <2>4, <2>6, <2>7, <2>8, <2>9, <2>10, RowAndFlush
<1>6. CASE ~(Claimable(e, t) /\ left >= flush[w].used)
  <2>1. hist' = meta /\ Set(w, Idle) /\ row' = row
    BY <1>6 DEF Claim
  <2> QED BY <1>1, <1>3, <1>4, <2>1, EmptyTypes, IdleWithBudget
<1> QED BY <1>5, <1>6

(* A flush that takes up its work, or ends it and has its progress to save.*)
LEMMA WorkingType ==
  ASSUME NEW f \in Flush, NEW t \in Nat
  PROVE  LET s == [f EXCEPT !.phase = "working", !.clock = t] IN
         /\ s \in Flush /\ s.phase = "working" /\ s.clock = t /\ s.until = f.until /\ s.live = f.live
         /\ s.event = f.event /\ s.day = f.day /\ s.used = f.used /\ s.reserved = f.reserved /\ s.step = f.step
BY DEF Flush

Concluded(f, outcome) == [f EXCEPT !.phase = "saving", !.clock = now, !.outcome = outcome]
Discarded(f, n) == [f EXCEPT !.phase = "saving", !.clock = now, !.outcome = "retired", !.step = n]

LEMMA ConcludeType ==
  ASSUME NEW f \in Flush, now \in Nat, NEW outcome \in {"delivered", "deferred", "failed"}
  PROVE  LET s == Concluded(f, outcome) IN
         /\ s \in Flush /\ s.phase = "saving" /\ s.clock = now /\ s.outcome = outcome
         /\ s.until = f.until /\ s.live = f.live
         /\ s.event = f.event /\ s.day = f.day /\ s.used = f.used /\ s.reserved = f.reserved /\ s.step = f.step
BY DEF Flush, Concluded

LEMMA DiscardType ==
  ASSUME NEW f \in Flush, now \in Nat, NEW n \in Nat
  PROVE  LET s == Discarded(f, n) IN
         /\ s \in Flush /\ s.phase = "saving" /\ s.clock = now /\ s.outcome = "retired"
         /\ s.until = f.until /\ s.live = f.live
         /\ s.event = f.event /\ s.day = f.day /\ s.used = f.used /\ s.reserved = f.reserved /\ s.step = n
BY DEF Flush, Discarded

LEMMA DiscardPreserves ==
  ASSUME IInv, NEW w \in Flushers, Discard(w),
         flush[w].phase \in {"claimed", "working"}, Episode[flush[w].event] \in retired,
         UNCHANGED <<now, row, hist, lock, effect, retired, cleaning, spent, overtaken, openings, belated>>
  PROVE  IInv'
<1> DEFINE n == Len(Phases[flush[w].event])
           s == Discarded(flush[w], n)
<1>1. /\ flush[w] \in Flush /\ Sound(flush[w]) /\ now \in Nat /\ n \in Nat
  BY FlushFacts
<1>2. /\ s \in Flush /\ s.phase = "saving" /\ s.clock = now /\ s.outcome = "retired"
      /\ s.event = flush[w].event /\ s.day = flush[w].day /\ s.used = flush[w].used
      /\ s.reserved = flush[w].reserved /\ s.step = n
  <2>1. flush[w] \in Flush /\ now \in Nat /\ n \in Nat
    BY <1>1
  <2> HIDE DEF n
  <2> QED BY <2>1, DiscardType
<1>3. Set(w, s)
  BY DEF Discard, Discarded
<1>4. Sound(s)
  <2> HIDE DEF s
  <2> QED BY <1>1, <1>2 DEF Sound, Owning
<1> HIDE DEF s
<1> QED BY <1>2, <1>3, <1>4, FlushOnly

LEMMA CheckRetirementPreserves ==
  ASSUME IInv, NEW w \in Flushers, CheckRetirement(w)
  PROVE  IInv'
<1>1. CASE Episode[flush[w].event] \in retired
  BY <1>1, DiscardPreserves DEF CheckRetirement
<1>2. CASE Episode[flush[w].event] \notin retired
  <2> DEFINE s == [flush[w] EXCEPT !.phase = "working", !.clock = now]
  <2>1. flush[w] \in Flush /\ Sound(flush[w]) /\ now \in Nat /\ flush[w].phase = "claimed"
    BY FlushFacts DEF CheckRetirement
  <2>2. /\ s \in Flush /\ s.phase = "working" /\ s.clock = now
        /\ s.event = flush[w].event /\ s.day = flush[w].day /\ s.used = flush[w].used
        /\ s.reserved = flush[w].reserved /\ s.step = flush[w].step
    BY <2>1, WorkingType
  <2>3. Set(w, s) /\ UNCHANGED <<now, row, hist, lock, effect, retired, cleaning, spent, overtaken, openings, belated>>
    BY <1>2 DEF CheckRetirement
  <2>4. Sound(s)
    <3> HIDE DEF s
    <3> QED BY <1>2, <2>1, <2>2 DEF Sound, Owning
  <2> HIDE DEF s
  <2> QED BY <2>2, <2>3, <2>4, FlushOnly
<1> QED BY <1>1, <1>2

LEMMA FencedWritePreserves ==
  ASSUME IInv, NEW w \in Flushers, FencedWrite(w)
  PROVE  IInv'
<1>1. flush[w].phase = "working"
  BY DEF FencedWrite, Working
<1> QED BY <1>1, DiscardPreserves DEF FencedWrite

LEMMA StopPreserves ==
  ASSUME IInv, NEW w \in Flushers, Stop(w)
  PROVE  IInv'
<1>1. PICK outcome \in {"delivered", "deferred", "failed"} :
        /\ Conclude(w, outcome)
        /\ outcome = "delivered" => flush[w].step = Len(Phases[flush[w].event])
  BY DEF Stop
<1> DEFINE s == Concluded(flush[w], outcome)
<1>2. flush[w] \in Flush /\ Sound(flush[w]) /\ now \in Nat /\ flush[w].phase = "working"
  BY FlushFacts DEF Stop
<1>3. /\ s \in Flush /\ s.phase = "saving" /\ s.clock = now /\ s.outcome = outcome
      /\ s.event = flush[w].event /\ s.day = flush[w].day /\ s.used = flush[w].used
      /\ s.reserved = flush[w].reserved /\ s.step = flush[w].step
  BY <1>2, ConcludeType
<1>4. Set(w, s) /\ UNCHANGED <<now, row, hist, lock, effect, retired, cleaning, spent, overtaken, openings, belated>>
  BY <1>1 DEF Stop, Conclude, Concluded
<1>5. Sound(s)
  <2> HIDE DEF s
  <2> QED BY <1>1, <1>2, <1>3 DEF Sound, Owning
<1> HIDE DEF s
<1> QED BY <1>3, <1>4, <1>5, FlushOnly

LEMMA DiePreserves ==
  ASSUME IInv, NEW w \in Flushers, Die(w)
  PROVE  IInv'
<1>1. Idle \in Flush /\ Sound(Idle)
  BY EmptyTypes DEF Sound, Idle, Owning
<1> QED BY <1>1, FlushOnly DEF Die

(* The states of a row that a flush writes.                                *)
Advanced(r, step, locked) == [r EXCEPT !.step = step, !.locked = locked]
Closed(r, due, t) ==
  [r EXCEPT !.status = "delivered", !.archive = due, !.step = 0, !.locked = FALSE,
            !.holder = NoFlusher, !.until = Never, !.at = t]
Waiting(r, n) == [r EXCEPT !.holder = NoFlusher, !.until = Never, !.next = n]

LEMMA AdvancedType ==
  ASSUME NEW r \in Row, NEW step \in Nat, NEW locked \in BOOLEAN
  PROVE  LET n == Advanced(r, step, locked) IN
         /\ n \in Row /\ n.step = step /\ n.status = r.status
         /\ n.holder = r.holder /\ n.until = r.until /\ n.live = r.live /\ n.archive = r.archive
BY DEF Row, Advanced

LEMMA ClosedType ==
  ASSUME NEW r \in Row, NEW due \in BOOLEAN, NEW t \in Int
  PROVE  LET n == Closed(r, due, t) IN
         /\ n \in Row /\ n.step = 0 /\ n.status = "delivered"
         /\ n.holder = NoFlusher /\ n.live = r.live
<1>1. Never \in Int /\ NoFlusher \in Flushers \cup {NoFlusher}
  BY DEF Never
<1>2. Closed(r, due, t) \in Row
  BY <1>1 DEF Row, Closed
<1>3. LET n == Closed(r, due, t) IN
      n.step = 0 /\ n.status = "delivered" /\ n.holder = NoFlusher /\ n.live = r.live
  BY DEF Row, Closed
<1> QED BY <1>2, <1>3

LEMMA WaitingType ==
  ASSUME NEW r \in Row, NEW t \in Int
  PROVE  LET n == Waiting(r, t) IN
         /\ n \in Row /\ n.step = r.step /\ n.status = r.status
         /\ n.holder = NoFlusher /\ n.live = r.live /\ n.archive = r.archive
<1>1. Never \in Int /\ NoFlusher \in Flushers \cup {NoFlusher}
  BY DEF Never
<1>2. Waiting(r, t) \in Row
  BY <1>1 DEF Row, Waiting
<1>3. LET n == Waiting(r, t) IN
      /\ n.step = r.step /\ n.status = r.status
      /\ n.holder = NoFlusher /\ n.live = r.live /\ n.archive = r.archive
  BY DEF Row, Waiting
<1> QED BY <1>2, <1>3

Finishing(f) == [f EXCEPT !.phase = "finishing", !.clock = now]

LEMMA FinishingType ==
  ASSUME NEW f \in Flush, now \in Nat
  PROVE  LET s == Finishing(f) IN
         /\ s \in Flush /\ s.phase = "finishing" /\ s.clock = now /\ s.outcome = f.outcome
         /\ s.until = f.until /\ s.live = f.live
         /\ s.event = f.event /\ s.day = f.day /\ s.used = f.used /\ s.reserved = f.reserved /\ s.step = f.step
BY DEF Flush, Finishing

LEMMA SaveProgressPreserves ==
  ASSUME IInv, NEW w \in Flushers, SaveProgress(w)
  PROVE  IInv'
<1> DEFINE e == flush[w].event
<1>1. /\ flush[w] \in Flush /\ Sound(flush[w]) /\ now \in Nat /\ flush[w].phase = "saving"
      /\ e \in Events /\ row[e] \in Row /\ Len(Phases[e]) \in Nat
  BY FlushFacts DEF SaveProgress, Sound
<1>2. UNCHANGED <<now, hist, lock, effect, retired, cleaning, spent, overtaken, openings, belated>>
  BY DEF SaveProgress
<1>3. CASE row' = row /\ Set(w, Idle)
  <2>1. Idle \in Flush /\ Sound(Idle)
    BY EmptyTypes DEF Sound, Idle, Owning
  <2> QED BY <1>2, <1>3, <2>1, FlushOnly
<1>4. CASE /\ row[e].status = "pending"
           /\ row' = [row EXCEPT ![e] = Advanced(@, flush[w].step, flush[w].locked)]
           /\ Set(w, Finishing(flush[w]))
  <2> DEFINE r == Advanced(row[e], flush[w].step, flush[w].locked)
             s == Finishing(flush[w])
  <2>1. r \in Row /\ r.step = flush[w].step /\ r.status = "pending"
    <3>1. flush[w].step \in Nat /\ flush[w].locked \in BOOLEAN
      BY <1>1 DEF Flush
    <3> QED BY <1>1, <1>4, <3>1, AdvancedType
  <2>2. /\ s \in Flush /\ s.phase = "finishing" /\ s.clock = now /\ s.outcome = flush[w].outcome
        /\ s.event = e /\ s.day = flush[w].day /\ s.used = flush[w].used
        /\ s.reserved = flush[w].reserved /\ s.step = flush[w].step
    BY <1>1, FinishingType
  <2>3. row' = [row EXCEPT ![e] = r] /\ Set(w, s)
    BY <1>4
  <2>4. /\ flush[w].step <= Len(Phases[e])
        /\ Episode[e] \notin retired => flush[w].step <= effect[e]
    BY <1>1 DEF Sound, Owning
  <2>5. row'[e].status = "pending" /\ flush'[w] = s
    <3> HIDE DEF r, s
    <3> QED BY <1>1, <2>1, <2>2, <2>3, SetType DEF IInv, TypeOK
  <2>6. Sound(flush[w])'
    <3> HIDE DEF s
    <3> QED BY <1>1, <1>2, <2>2, <2>5 DEF Sound, Owning, Days
  <2>7. hist' \in [day : Int, writes : Nat] /\ openings' \in [Days -> Nat]
    BY <1>2 DEF IInv, TypeOK
  <2> HIDE DEF r, s, e
  <2> QED BY <1>1, <1>2, <2>1, <2>2, <2>3, <2>4, <2>6, <2>7, RowAndFlush
<1>5. \/ row' = row /\ Set(w, Idle)
      \/ /\ row[e].status = "pending"
         /\ row' = [row EXCEPT ![e] = Advanced(@, flush[w].step, flush[w].locked)]
         /\ Set(w, Finishing(flush[w]))
  BY DEF SaveProgress, Holds, Advanced, Finishing
<1> QED BY <1>3, <1>4, <1>5

(* What finish() leaves in the row.                                        *)
LEMMA FinishedType ==
  ASSUME IInv, NEW w \in Flushers, flush[w].phase = "finishing",
         row[flush[w].event].status = "pending",
         NEW t \in Nat, NEW r \in Finished(w, flush[w].event, t)
  PROVE  LET e == flush[w].event IN
         /\ r \in Row /\ r.holder = NoFlusher /\ r.live = row[e].live
         /\ \/ r.step = row[e].step /\ r.status = "pending"
            \/ /\ r.step = 0 /\ r.status = "delivered" /\ flush[w].outcome \in {"delivered", "retired"}
               /\ effect[e] = Len(Phases[e]) \/ Episode[e] \in retired
<1> DEFINE e == flush[w].event
<1>1. /\ flush[w] \in Flush /\ Sound(flush[w]) /\ e \in Events /\ row[e] \in Row
      /\ effect[e] \in Nat /\ Len(Phases[e]) \in Nat /\ effect[e] <= Len(Phases[e])
  BY FlushFacts DEF Sound, IInv, Bounded
<1>2. CASE flush[w].outcome \in {"delivered", "retired"}
  <2>1. PICK due \in BOOLEAN : r = Closed(row[e], due, t)
    BY <1>2 DEF Finished, Closed
  <2>2. effect[e] = Len(Phases[e]) \/ Episode[e] \in retired
    BY <1>1, <1>2 DEF Sound, Owning
  <2>3. r \in Row /\ r.step = 0 /\ r.status = "delivered" /\ r.holder = NoFlusher /\ r.live = row[e].live
    <3>1. row[e] \in Row /\ t \in Int
      BY <1>1
    <3> HIDE DEF e
    <3> QED BY <2>1, <3>1, ClosedType, Zenon
  <2> QED BY <1>2, <2>2, <2>3
<1>3. CASE flush[w].outcome \notin {"delivered", "retired"}
  <2>1. PICK n \in Int : r = Waiting(row[e], n)
    <3>1. CASE flush[w].outcome = "deferred"
      <4>1. r = Waiting(row[e], t + 1) /\ t + 1 \in Int
        BY <3>1 DEF Finished, Waiting
      <4> QED BY <4>1
    <3>2. CASE flush[w].outcome # "deferred"
      <4>1. PICK delay \in Backoff : r = Waiting(row[e], t + delay)
        BY <1>3, <3>2 DEF Finished, Waiting
      <4>2. t + delay \in Int
        BY UnitAssumption DEF Backoff
      <4> QED BY <4>1, <4>2
    <3> QED BY <3>1, <3>2
  <2> QED BY <1>1, <2>1, WaitingType DEF Row
<1> QED BY <1>2, <1>3

LEMMA FinishPreserves ==
  ASSUME IInv, NEW w \in Flushers, Finish(w)
  PROVE  IInv'
<1> DEFINE e == flush[w].event
<1>1. /\ flush[w] \in Flush /\ Sound(flush[w]) /\ flush[w].phase = "finishing"
      /\ e \in Events /\ row[e] \in Row /\ Len(Phases[e]) \in Nat
  BY FlushFacts DEF Finish, Sound
<1>2. Set(w, Idle) /\ UNCHANGED <<now, lock, effect, retired, cleaning, spent, overtaken, openings, belated>>
  BY DEF Finish
<1>3. PICK t \in Readings(w) :
        IF Refund(w, e, t).writes >= 0
        THEN /\ hist' = Refund(w, e, t)
             /\ IF Holds(w, e, t) THEN \E next \in Finished(w, e, t) : row' = [row EXCEPT ![e] = next]
                ELSE UNCHANGED row
        ELSE UNCHANGED <<hist, row>>
  BY DEF Finish
<1>4. t \in Nat
  BY ReadingType
<1>5. hist' \in [day : Int, writes : Nat] /\ openings' \in [Days -> Nat]
  <2>1. hist \in [day : Int, writes : Nat] /\ openings' \in [Days -> Nat]
    BY <1>2 DEF IInv, TypeOK
  <2>2. Max({0, flush[w].reserved - flush[w].used}) \in Int
    <3> DEFINE a == flush[w].reserved - flush[w].used
    <3>1. a \in Int /\ 0 \in Int
      BY <1>1 DEF Flush
    <3> HIDE DEF a
    <3>2. Max({0, a}) \in Int
      BY <3>1, MaxOfTwo
    <3> QED BY <3>2 DEF a
  <2> DEFINE m == Max({0, flush[w].reserved - flush[w].used})
             a == hist.writes - m
  <2>3. a \in Int
    <3> HIDE DEF m
    <3> QED BY <2>1, <2>2 DEF m
  <2>4. Refund(w, e, t) = hist \/ Refund(w, e, t) = [hist EXCEPT !.writes = a]
    BY DEF Refund
  <2> HIDE DEF a, e
  <2> QED BY <1>3, <2>1, <2>3, <2>4
<1>6. CASE row' = row
  BY <1>2, <1>5, <1>6, IdleWithBudget
<1>7. CASE row' # row
  <2>1. row[e].status = "pending" /\ \E next \in Finished(w, e, t) : row' = [row EXCEPT ![e] = next]
    BY <1>3, <1>7 DEF Holds
  <2>2. PICK r \in Finished(w, e, t) : row' = [row EXCEPT ![e] = r]
    BY <2>1
  <2>3. /\ r \in Row
        /\ \/ r.step = row[e].step /\ r.status = "pending"
           \/ /\ r.step = 0 /\ r.status = "delivered"
              /\ effect[e] = Len(Phases[e]) \/ Episode[e] \in retired
    BY <1>1, <1>4, <2>1, FinishedType
  <2>4. effect[e] \in Nat
    BY <1>1 DEF IInv, TypeOK
  <2>5. /\ r.step <= Len(Phases[e]) /\ r.status # "absent"
        /\ Episode[e] \notin retired =>
             /\ r.step <= effect[e]
             /\ r.status = "pending" \/ effect[e] = Len(Phases[e])
    BY <1>1, <2>3, <2>4 DEF IInv, Saved
  <2>6. Idle \in Flush /\ flush'[w] = Idle /\ Idle.phase = "idle"
    BY <1>2, EmptyTypes, SetType DEF Idle
  <2>7. Sound(flush[w])'
    BY <2>6 DEF Sound, Owning
  <2> HIDE DEF e
  <2> QED BY <1>1, <1>2, <1>5, <2>2, <2>3, <2>5, <2>6, <2>7, RowAndFlush
<1> QED BY <1>6, <1>7

(* The units that are sent are counted on a day and for a class that exist.*)
LEMMA SpendType ==
  ASSUME IInv, NEW w \in Flushers, flush[w].phase = "working", NEW units \in Nat, Spend(w, units)
  PROVE  spent' \in [Days -> [Classes -> Nat]] /\ belated' \subseteq Events
<1> DEFINE d == flush[w].day
           c == IF flush[w].live THEN "live" ELSE "cold"
<1>1. d \in Days
  BY FlushFacts DEF Sound, Owning
<1>2. c \in Classes
  BY DEF Classes
<1>3. spent \in [Days -> [Classes -> Nat]]
  BY DEF IInv, TypeOK
<1>4. spent' = [spent EXCEPT ![d][c] = @ + units]
  BY DEF Spend
<1>5. belated' \subseteq Events
  <2>1. flush[w].event \in Events
    BY FlushFacts DEF Sound
  <2> QED BY <2>1 DEF Spend, IInv, TypeOK
<1> HIDE DEF d, c
<1> QED BY <1>1, <1>2, <1>3, <1>4, <1>5

(* A step of the work itself.                                              *)
LEMMA WorkStep ==
  ASSUME IInv, NEW w \in Flushers, NEW s \in Flush, Set(w, s), Sound(flush[w])',
         s.phase \in {"working", "saving"}, s.used <= s.reserved,
         lock' \in Events \cup {Unlocked}, spent' \in [Days -> [Classes -> Nat]],
         belated' \subseteq Events,
         effect' \in [Events -> Nat],
         \A e \in Events : effect[e] <= effect'[e] /\ effect'[e] <= Len(Phases[e]),
         UNCHANGED <<now, row, hist, retired, cleaning, overtaken, openings>>
  PROVE  IInv'
<1>1. /\ flush' \in [Flushers -> Flush]
      /\ flush'[w] = s
      /\ \A d \in Flushers : d # w => flush'[d] = flush[d]
  BY SetType
<1>2. TypeOK'
  <2>1. \A d \in Flushers : flush'[d].phase \in {"working", "saving", "finishing"} =>
                              flush'[d].used <= flush'[d].reserved
    BY <1>1 DEF IInv, TypeOK
  <2> QED BY <1>1, <2>1 DEF IInv, TypeOK
<1>3. \A e \in Events : /\ Len(Phases[e]) \in Nat /\ effect[e] \in Nat /\ effect'[e] \in Nat
                        /\ row[e].step \in Nat
  <2>1. \A e \in Events : Len(Phases[e]) \in Nat
    BY EventAssumption
  <2>2. \A e \in Events : row[e] \in Row
    BY DEF IInv, TypeOK
  <2> QED BY <2>1, <2>2 DEF IInv, TypeOK, Row
<1>4. Bounded' /\ Saved' /\ (~Retirement => retired = {})'
  BY <1>3 DEF IInv, Bounded, Saved
<1>5. \A d \in Flushers : flush'[d] = flush[d] \/ Sound(flush[d])'
  BY <1>1
<1>6. now <= now'
  BY DEF IInv, TypeOK
<1> QED BY <1>2, <1>3, <1>4, <1>5, <1>6, Preserved

(* The states of a flush after a statement of the work.                    *)
Sent(f, units, locked) == [f EXCEPT !.clock = now, !.locked = locked, !.used = @ + units]
Busy(f, units) == [f EXCEPT !.phase = "saving", !.clock = now, !.used = @ + units, !.outcome = "deferred"]
Moved(f, units, locked) ==
  [f EXCEPT !.clock = now, !.used = @ + units, !.step = @ + 1, !.locked = locked]
Lost(f, units) == [f EXCEPT !.phase = "saving", !.clock = now, !.used = @ + units, !.outcome = "failed"]

LEMMA SentType ==
  ASSUME NEW f \in Flush, now \in Nat, NEW units \in Nat, NEW locked \in BOOLEAN
  PROVE  LET s == Sent(f, units, locked) IN
         /\ s \in Flush /\ s.phase = f.phase /\ s.clock = now /\ s.used = f.used + units
         /\ s.until = f.until /\ s.live = f.live
         /\ s.event = f.event /\ s.day = f.day /\ s.reserved = f.reserved /\ s.step = f.step
<1>1. f.used + units \in Nat
  BY DEF Flush
<1> QED BY <1>1 DEF Flush, Sent

LEMMA BusyType ==
  ASSUME NEW f \in Flush, now \in Nat, NEW units \in Nat
  PROVE  LET s == Busy(f, units) IN
         /\ s \in Flush /\ s.phase = "saving" /\ s.clock = now /\ s.used = f.used + units
         /\ s.until = f.until /\ s.live = f.live
         /\ s.event = f.event /\ s.day = f.day /\ s.reserved = f.reserved /\ s.step = f.step
         /\ s.outcome = "deferred"
<1>1. f.used + units \in Nat
  BY DEF Flush
<1> QED BY <1>1 DEF Flush, Busy

LEMMA MovedType ==
  ASSUME NEW f \in Flush, now \in Nat, NEW units \in Nat, NEW locked \in BOOLEAN
  PROVE  LET s == Moved(f, units, locked) IN
         /\ s \in Flush /\ s.phase = f.phase /\ s.clock = now /\ s.used = f.used + units
         /\ s.until = f.until /\ s.live = f.live
         /\ s.event = f.event /\ s.day = f.day /\ s.reserved = f.reserved /\ s.step = f.step + 1
<1>1. f.used + units \in Nat /\ f.step + 1 \in Nat
  BY DEF Flush
<1> QED BY <1>1 DEF Flush, Moved

LEMMA LostType ==
  ASSUME NEW f \in Flush, now \in Nat, NEW units \in Nat
  PROVE  LET s == Lost(f, units) IN
         /\ s \in Flush /\ s.phase = "saving" /\ s.clock = now /\ s.used = f.used + units
         /\ s.until = f.until /\ s.live = f.live
         /\ s.event = f.event /\ s.day = f.day /\ s.reserved = f.reserved /\ s.step = f.step
         /\ s.outcome = "failed"
<1>1. f.used + units \in Nat
  BY DEF Flush
<1> QED BY <1>1 DEF Flush, Lost

LEMMA TakeLockPreserves ==
  ASSUME IInv, NEW w \in Flushers, TakeLock(w)
  PROVE  IInv'
<1> DEFINE e == flush[w].event
<1>1. /\ flush[w] \in Flush /\ Sound(flush[w]) /\ now \in Nat /\ flush[w].phase = "working" /\ e \in Events
  BY FlushFacts DEF TakeLock, Working, Sound
<1>2. UNCHANGED <<now, row, hist, effect, retired, cleaning, overtaken, openings>>
  BY DEF TakeLock
<1>3. flush[w].used + 1 <= flush[w].reserved
  BY DEF TakeLock, Statement
<1>4. spent' \in [Days -> [Classes -> Nat]] /\ belated' \subseteq Events
  BY <1>1, SpendType DEF TakeLock
<1>5. effect' \in [Events -> Nat] /\ \A f \in Events : effect[f] <= effect'[f] /\ effect'[f] <= Len(Phases[f])
  BY <1>2 DEF IInv, TypeOK, Bounded
<1>6. CASE lock' = e /\ Set(w, Sent(flush[w], 1, TRUE))
  <2> DEFINE s == Sent(flush[w], 1, TRUE)
  <2>1. /\ s \in Flush /\ s.phase = flush[w].phase /\ s.clock = now /\ s.used = flush[w].used + 1
        /\ s.event = e /\ s.day = flush[w].day /\ s.reserved = flush[w].reserved /\ s.step = flush[w].step
    <3>1. 1 \in Nat /\ TRUE \in BOOLEAN /\ flush[w] \in Flush /\ now \in Nat
      BY <1>1
    <3> QED BY <3>1, SentType
  <2>2. flush'[w] = s
    BY <1>6, <2>1, SetType
  <2>3. Sound(flush[w])'
    <3> HIDE DEF s
    <3> QED BY <1>1, <1>2, <1>3, <2>1, <2>2 DEF Sound, Owning, Days
  <2> HIDE DEF e
  <2> QED BY <1>1, <1>2, <1>3, <1>4, <1>5, <1>6, <2>1, <2>3, WorkStep
<1>7. CASE lock' = lock /\ Set(w, Busy(flush[w], 1))
  <2> DEFINE s == Busy(flush[w], 1)
  <2>1. /\ s \in Flush /\ s.phase = "saving" /\ s.clock = now /\ s.used = flush[w].used + 1
        /\ s.event = e /\ s.day = flush[w].day /\ s.reserved = flush[w].reserved /\ s.step = flush[w].step
        /\ s.outcome = "deferred"
    BY <1>1, BusyType
  <2>2. flush'[w] = s
    BY <1>7, <2>1, SetType
  <2>3. Sound(flush[w])'
    <3> HIDE DEF s
    <3> QED BY <1>1, <1>2, <1>3, <2>1, <2>2 DEF Sound, Owning, Days
  <2>4. lock' \in Events \cup {Unlocked}
    BY <1>7 DEF IInv, TypeOK
  <2> QED BY <1>1, <1>2, <1>3, <1>4, <1>5, <1>7, <2>1, <2>3, <2>4, WorkStep
<1> QED BY <1>6, <1>7 DEF TakeLock, Sent, Busy

LEMMA AdvancePreserves ==
  ASSUME IInv, NEW w \in Flushers, Advance(w)
  PROVE  IInv'
<1> DEFINE e == flush[w].event
           kind == Phases[e][flush[w].step + 1]
           units == Cost[kind]
           locked == flush[w].locked /\ kind # "unlock"
<1>1. /\ flush[w] \in Flush /\ Sound(flush[w]) /\ now \in Nat /\ flush[w].phase = "working" /\ e \in Events
      /\ flush[w].step < Len(Phases[e]) /\ Len(Phases[e]) \in Nat
  BY FlushFacts DEF Advance, Working, Sound
<1>2. UNCHANGED <<now, row, hist, retired, cleaning, overtaken, openings>>
  BY DEF Advance
<1>3. units \in Nat /\ flush[w].step \in Nat
  <2>1. Phases[e] \in Seq(Kinds) /\ flush[w].step \in Nat
    BY <1>1, EventAssumption DEF Flush
  <2>2. flush[w].step + 1 \in 1 .. Len(Phases[e])
    BY <1>1, <2>1
  <2>3. kind \in Kinds
    BY <2>1, <2>2
  <2> HIDE DEF kind
  <2> QED BY <2>1, <2>3, UnitAssumption
<1>4. /\ flush[w].used + units <= flush[w].reserved
      /\ Spend(w, units)
      /\ effect' = [effect EXCEPT ![e] = Max({@, flush[w].step + 1})]
      /\ lock' = IF kind = "unlock" /\ lock = e THEN Unlocked ELSE lock
      /\ Set(w, Moved(flush[w], units, locked)) \/ Set(w, Lost(flush[w], units))
  BY DEF Advance, Statement, Moved, Lost
<1>5. spent' \in [Days -> [Classes -> Nat]] /\ belated' \subseteq Events
  <2> HIDE DEF units
  <2> QED BY <1>1, <1>3, <1>4, SpendType
<1>6. lock' \in Events \cup {Unlocked}
  BY <1>4 DEF IInv, TypeOK
<1>7. /\ effect' \in [Events -> Nat]
      /\ flush[w].step + 1 <= effect'[e]
      /\ \A f \in Events : effect[f] <= effect'[f] /\ effect'[f] <= Len(Phases[f])
  <2> DEFINE a == effect[e]
             b == flush[w].step + 1
             m == Max({a, b})
  <2>1. a \in Nat /\ b \in Nat /\ a <= Len(Phases[e]) /\ b <= Len(Phases[e])
    BY <1>1, <1>3 DEF IInv, TypeOK, Bounded
  <2>2. m \in {a, b} /\ a <= m /\ b <= m
    <3>1. a \in Int /\ b \in Int
      BY <2>1
    <3> HIDE DEF a, b
    <3> QED BY <3>1, MaxOfTwo
  <2>3. effect' = [effect EXCEPT ![e] = m]
    BY <1>4
  <2> HIDE DEF m, b, e
  <2>4. m \in Nat /\ m <= Len(Phases[e])
    BY <2>1, <2>2
  <2> QED BY <1>1, <2>1, <2>2, <2>3, <2>4 DEF IInv, TypeOK, Bounded, b
<1>8. CASE Set(w, Moved(flush[w], units, locked))
  <2> DEFINE s == Moved(flush[w], units, locked)
  <2>0. locked \in BOOLEAN
    BY <1>1 DEF Flush
  <2>1. /\ s \in Flush /\ s.phase = flush[w].phase /\ s.clock = now /\ s.used = flush[w].used + units
        /\ s.event = e /\ s.day = flush[w].day /\ s.reserved = flush[w].reserved /\ s.step = flush[w].step + 1
    <3> HIDE DEF units, locked
    <3> QED BY <1>1, <1>3, <2>0, MovedType
  <2>2. flush'[w] = s
    BY <1>8, <2>1, SetType
  <2>3. Sound(flush[w])'
    <3> DEFINE n == flush'[w]
    <3>1. n.phase = "working" /\ n.clock = now /\ n.event = e /\ n.day = flush[w].day
      BY <1>1, <2>1, <2>2
    <3>2. n.used <= n.reserved /\ n.step = flush[w].step + 1
      <4> HIDE DEF s, units
      <4> QED BY <1>4, <2>1, <2>2
    <3>3. n.step <= effect'[e] /\ n.step <= Len(Phases[e])
      <4> HIDE DEF n
      <4> QED BY <1>1, <1>3, <1>7, <3>2
    <3>4. flush[w].day \in Days /\ now <= now
      BY <1>1 DEF Sound, Owning
    <3>5. Episode[e] \notin retired => row[e].status = "pending" \/ effect'[e] = Len(Phases[e])
      <4> effect[e] \in Nat /\ effect'[e] \in Nat
        BY <1>1, <1>7 DEF IInv, TypeOK
      <4> QED BY <1>1, <1>7 DEF Sound, Owning
    <3> HIDE DEF n, e
    <3> QED BY <1>1, <1>2, <3>1, <3>2, <3>3, <3>4, <3>5 DEF Sound, Days, n
  <2> HIDE DEF s, units, e
  <2> QED BY <1>1, <1>2, <1>4, <1>5, <1>6, <1>7, <1>8, <2>1, <2>3, WorkStep DEF s
<1>9. CASE Set(w, Lost(flush[w], units))
  <2> DEFINE s == Lost(flush[w], units)
  <2>1. /\ s \in Flush /\ s.phase = "saving" /\ s.clock = now /\ s.used = flush[w].used + units
        /\ s.event = e /\ s.day = flush[w].day /\ s.reserved = flush[w].reserved /\ s.step = flush[w].step
        /\ s.outcome = "failed"
    <3> HIDE DEF units
    <3> QED BY <1>1, <1>3, LostType
  <2>2. flush'[w] = s
    BY <1>9, <2>1, SetType
  <2>3. Sound(flush[w])'
    <3> DEFINE n == flush'[w]
    <3>1. /\ n.phase = "saving" /\ n.clock = now /\ n.event = e /\ n.day = flush[w].day
          /\ n.outcome = "failed" /\ n.step = flush[w].step
      BY <2>1, <2>2
    <3>2. n.used <= n.reserved
      <4> HIDE DEF s, units
      <4> QED BY <1>4, <2>1, <2>2
    <3>3. flush[w].day \in Days /\ now <= now
      BY <1>1 DEF Sound, Owning
    <3>4. /\ Episode[e] \notin retired => row[e].status = "pending" \/ effect'[e] = Len(Phases[e])
          /\ Episode[e] \notin retired => flush[w].step <= effect'[e]
          /\ flush[w].step <= Len(Phases[e])
      <4> effect[e] \in Nat /\ effect'[e] \in Nat
        BY <1>1, <1>7 DEF IInv, TypeOK
      <4> QED BY <1>1, <1>3, <1>7 DEF Sound, Owning
    <3> HIDE DEF n, e
    <3> QED BY <1>1, <1>2, <3>1, <3>2, <3>3, <3>4 DEF Sound, Days, n
  <2> HIDE DEF s, units, e
  <2> QED BY <1>1, <1>2, <1>4, <1>5, <1>6, <1>7, <1>9, <2>1, <2>3, WorkStep DEF s
<1> QED BY <1>4, <1>8, <1>9

(* The row of an accepted event, and of a promoted one.                    *)
Accepted(n, live) == [NoRow EXCEPT !.status = "pending", !.next = n, !.live = live]

LEMMA AcceptedType ==
  ASSUME NEW n \in Int, NEW live \in Int
  PROVE  LET r == Accepted(n, live) IN r \in Row /\ r.step = 0 /\ r.status = "pending"
<1>1. NoRow \in Row /\ NoRow.step = 0
  BY EmptyTypes DEF NoRow
<1> QED BY <1>1 DEF Row, Accepted

LEMMA EnqueuePreserves ==
  ASSUME IInv, NEW e \in Events, NEW live, Enqueue(e, live)
  PROVE  IInv'
<1>1. UNCHANGED <<now, hist, lock, effect, retired, flush, cleaning, spent, openings, belated>>
  BY DEF Enqueue
<1>2. PICK gone \in SUBSET Expired(now) :
        row' = [f \in Events |->
                  IF f = e THEN [NoRow EXCEPT !.status = "pending", !.next = now,
                                              !.live = IF live THEN now + LiveTicks ELSE Never]
                  ELSE IF f \in gone THEN NoRow ELSE row[f]]
  BY DEF Enqueue
<1> DEFINE until == IF live THEN now + LiveTicks ELSE Never
           r == Accepted(now, until)
<1>3. now \in Int /\ until \in Int
  BY UnitAssumption DEF IInv, TypeOK, Never
<1>4. r \in Row /\ r.step = 0 /\ r.status = "pending"
  <2> HIDE DEF until
  <2> QED BY <1>3, AcceptedType
<1>5. row' = [f \in Events |-> IF f = e THEN r ELSE IF f \in gone THEN NoRow ELSE row[f]]
  BY <1>2 DEF Accepted
<1> HIDE DEF r
<1>6. NoRow \in Row /\ NoRow.step = 0 /\ NoRow.status = "absent"
  BY EmptyTypes DEF NoRow
<1>7. row' \in [Events -> Row]
  BY <1>4, <1>5, <1>6 DEF IInv, TypeOK
<1>8. \A f \in gone : row[f].status = "delivered"
  BY DEF Expired, Delivered
<1>9. \A f \in Events :
        \/ row'[f].step = row[f].step /\ row'[f].status = row[f].status
        \/ row'[f].step = 0 /\ row'[f].status = "pending"
        \/ /\ row'[f].step = 0 /\ row'[f].status = "absent"
           /\ row[f].status # "pending"
  BY <1>4, <1>5, <1>6, <1>8
<1>10. overtaken' \subseteq Events
  BY DEF Enqueue, IInv, TypeOK
<1>11. retired' \subseteq Episodes /\ (~Retirement => retired' = {}) /\ cleaning' \in BOOLEAN
  BY <1>1 DEF IInv, TypeOK
<1> QED BY <1>1, <1>7, <1>9, <1>10, <1>11, RowsOnly

(* A row that only changes a time, or the mark of its archive copy.        *)
LEMMA MarkPreserves ==
  ASSUME IInv, NEW e \in Events, NEW r \in Row, row' = [row EXCEPT ![e] = r],
         r.step = row[e].step, r.status = row[e].status,
         UNCHANGED <<now, hist, lock, effect, retired, flush, cleaning, spent, overtaken, openings, belated>>
  PROVE  IInv'
<1>1. row' \in [Events -> Row]
  BY DEF IInv, TypeOK
<1>2. \A f \in Events : row'[f].step = row[f].step /\ row'[f].status = row[f].status
  BY DEF IInv, TypeOK
<1>3. retired' \subseteq Episodes /\ (~Retirement => retired' = {}) /\ cleaning' \in BOOLEAN
      /\ overtaken' \subseteq Events
  BY DEF IInv, TypeOK
<1> QED BY <1>1, <1>2, <1>3, RowsOnly

LEMMA PromotePreserves ==
  ASSUME IInv, NEW e \in Events, Promote(e)
  PROVE  IInv'
<1>1. row[e] \in Row /\ now \in Int /\ LiveTicks \in Int
  BY UnitAssumption DEF IInv, TypeOK
<1> DEFINE a == row[e].live
           b == now + LiveTicks
           n == Max({a, b})
           r == [row[e] EXCEPT !.live = n]
<1>2. n \in Int
  <2>1. a \in Int /\ b \in Int
    BY <1>1 DEF Row
  <2> HIDE DEF a, b
  <2> QED BY <2>1, MaxOfTwo
<1>3. row' = [row EXCEPT ![e] = r]
  BY DEF Promote
<1>4. r \in Row /\ r.step = row[e].step /\ r.status = row[e].status
  <2> HIDE DEF n
  <2> QED BY <1>1, <1>2 DEF Row
<1> HIDE DEF r
<1> QED BY <1>3, <1>4, MarkPreserves DEF Promote

LEMMA ArchivedPreserves ==
  ASSUME IInv, NEW e \in Events, Archived(e)
  PROVE  IInv'
<1> DEFINE r == [row[e] EXCEPT !.archive = FALSE]
<1>1. row[e] \in Row
  BY DEF IInv, TypeOK
<1>2. row' = [row EXCEPT ![e] = r]
  BY DEF Archived
<1>3. r \in Row /\ r.step = row[e].step /\ r.status = row[e].status
  BY <1>1 DEF Row
<1> HIDE DEF r
<1> QED BY <1>2, <1>3, MarkPreserves DEF Archived

LEMMA DropRetiredPreserves ==
  ASSUME IInv, NEW e \in Events, DropRetired(e)
  PROVE  IInv'
<1>1. NoRow \in Row /\ NoRow.step = 0 /\ NoRow.status = "absent"
  BY EmptyTypes DEF NoRow
<1>2. /\ row' \in [Events -> Row] /\ retired' \subseteq Episodes /\ retired \subseteq retired'
      /\ cleaning' \in BOOLEAN /\ overtaken' \subseteq Events /\ (~Retirement => retired' = {})
  BY <1>1 DEF DropRetired, IInv, TypeOK
<1>3. \A f \in Events :
        \/ row'[f].step = row[f].step /\ row'[f].status = row[f].status
        \/ /\ row'[f].step = 0 /\ row'[f].status = "absent"
           /\ Episode[f] \in retired'
  BY <1>1 DEF DropRetired, IInv, TypeOK
<1> QED BY <1>2, <1>3, RowsOnly DEF DropRetired

LEMMA RetirePreserves ==
  ASSUME IInv, NEW p \in Episodes, Retire(p)
  PROVE  IInv'
<1>1. /\ row' \in [Events -> Row] /\ retired' \subseteq Episodes /\ retired \subseteq retired'
      /\ cleaning' \in BOOLEAN /\ overtaken' \subseteq Events
  BY DEF Retire, IInv, TypeOK
<1> QED BY <1>1, RowsOnly DEF Retire

LEMMA CleanupCheckPreserves ==
  ASSUME IInv, CleanupCheck
  PROVE  IInv'
<1>1. /\ row' \in [Events -> Row] /\ retired' \subseteq Episodes /\ retired \subseteq retired'
      /\ cleaning' \in BOOLEAN /\ overtaken' \subseteq Events
  BY DEF CleanupCheck, IInv, TypeOK
<1> QED BY <1>1, RowsOnly DEF CleanupCheck

LEMMA CleanupPreserves ==
  ASSUME IInv, NEW p \in Episodes, Cleanup(p)
  PROVE  IInv'
<1>1. NoRow \in Row /\ NoRow.step = 0 /\ NoRow.status = "absent"
  BY EmptyTypes DEF NoRow
<1>2. /\ row' \in [Events -> Row] /\ retired' \subseteq Episodes /\ retired \subseteq retired'
      /\ cleaning' \in BOOLEAN /\ overtaken' \subseteq Events /\ (~Retirement => retired' = {})
  BY <1>1 DEF Cleanup, IInv, TypeOK
<1>3. \A e \in Events :
        \/ row'[e].step = row[e].step /\ row'[e].status = row[e].status
        \/ /\ row'[e].step = 0 /\ row'[e].status = "absent"
           /\ Episode[e] \in retired'
  BY <1>1 DEF Cleanup
<1> QED BY <1>2, <1>3, RowsOnly DEF Cleanup

LEMMA TickPreserves ==
  ASSUME IInv, Tick
  PROVE  IInv'
<1>1. now' \in 0 .. MaxTime /\ now <= now'
  BY UnitAssumption DEF Tick, IInv, TypeOK
<1>2. TypeOK'
  BY <1>1 DEF Tick, IInv, TypeOK
<1>3. Bounded' /\ Saved' /\ (~Retirement => retired = {})'
  BY DEF Tick, IInv, Bounded, Saved
<1>4. \A e \in Events : effect[e] <= effect'[e]
  BY DEF Tick, IInv, TypeOK
<1> QED BY <1>1, <1>2, <1>3, <1>4, Preserved DEF Tick

LEMMA StepIInv == IInv /\ [Next]_vars => IInv'
<1> SUFFICES ASSUME IInv, [Next]_vars PROVE IInv'
  OBVIOUS
<1>1. CASE Tick
  BY <1>1, TickPreserves
<1>2. CASE CleanupCheck
  BY <1>2, CleanupCheckPreserves
<1>3. ASSUME NEW e \in Events,
             (\E live \in SubmittedLive(e) : Enqueue(e, live)) \/ Promote(e) \/ Archived(e) \/ DropRetired(e)
      PROVE  IInv'
  BY <1>3, EnqueuePreserves, PromotePreserves, ArchivedPreserves, DropRetiredPreserves
<1>4. ASSUME NEW p \in Episodes, Retire(p) \/ Cleanup(p)
      PROVE  IInv'
  BY <1>4, RetirePreserves, CleanupPreserves
<1>5. ASSUME NEW w \in Flushers,
             \/ Select(w) \/ Claim(w) \/ CheckRetirement(w) \/ FencedWrite(w) \/ TakeLock(w)
             \/ Advance(w) \/ Stop(w) \/ SaveProgress(w) \/ Finish(w) \/ Die(w)
      PROVE  IInv'
  BY <1>5, SelectPreserves, ClaimPreserves, CheckRetirementPreserves, FencedWritePreserves,
     TakeLockPreserves, AdvancePreserves, StopPreserves, SaveProgressPreserves, FinishPreserves, DiePreserves
<1>6. CASE UNCHANGED vars
  BY <1>6 DEF vars, IInv, TypeOK, Bounded, Saved, Delivered, Sound
<1> QED BY <1>1, <1>2, <1>3, <1>4, <1>5, <1>6 DEF Next

-----------------------------------------------------------------------------
(* The theorems.                                                           *)

LEMMA IInvAlways == Spec => []IInv
BY InitIInv, StepIInv, PTL DEF Spec

(* Every variable keeps its shape, the budget counter of the queue never   *)
(* goes below zero, and no flush sends more than it reserved.              *)
THEOREM QueueTypes == Spec => []TypeOK
<1>1. IInv => TypeOK
  BY DEF IInv
<1> QED BY <1>1, IInvAlways, PTL

(* A delivered event has had all of its work done: finish() writes a       *)
(* receipt only when the cursor has passed every phase, and a saved cursor *)
(* is never ahead of the writes it stands for, however many flushes lost   *)
(* their lease, died or had an answer lost on the way.                     *)
THEOREM DeliveredAlwaysComplete == Spec => []DeliveredComplete
<1>1. IInv => DeliveredComplete
  BY DEF IInv, Saved, DeliveredComplete, Delivered
<1> QED BY <1>1, IInvAlways, PTL

-----------------------------------------------------------------------------
(* The queue implements HistoryDelivery.                                   *)

(* The receipts and the withdrawn events, as HistoryDelivery sees them.    *)
Receipt == [e \in Events |-> row[e].status]
Withdrawn == {e \in Events : Episode[e] \in retired}
Promise == [Delivery!Next]_(Delivery!vars)

LEMMA Stutter ==
  ASSUME \A e \in Events : row'[e].status = row[e].status, UNCHANGED <<effect, retired>>
  PROVE  Promise
<1>1. Receipt' = Receipt /\ Withdrawn' = Withdrawn
  BY DEF Receipt, Withdrawn
<1> QED BY <1>1 DEF Promise, Delivery!vars, Receipt, Withdrawn

(* The status of one event changes.                                        *)
LEMMA DeliverStep ==
  ASSUME IInv, NEW e \in Events, row[e].status = "pending",
         NEW r \in Row, r.status = "delivered", row' = [row EXCEPT ![e] = r],
         effect[e] = Len(Phases[e]) \/ Episode[e] \in retired,
         UNCHANGED <<effect, retired>>
  PROVE  Promise
<1>1. Receipt' = [Receipt EXCEPT ![e] = "delivered"] /\ Receipt[e] = "pending"
  BY DEF Receipt, IInv, TypeOK
<1>2. Withdrawn' = Withdrawn
  BY DEF Withdrawn
<1>3. effect[e] = [f \in Events |-> Len(Phases[f])][e] \/ e \in Withdrawn
  BY DEF Withdrawn
<1>4. Delivery!Deliver(e)
  BY <1>1, <1>2, <1>3 DEF Delivery!Deliver, Receipt, Withdrawn
<1> QED BY <1>4 DEF Promise, Delivery!Next

LEMMA EnqueueRefines ==
  ASSUME IInv, NEW e \in Events, NEW live, Enqueue(e, live)
  PROVE  Promise
<1>1. row[e].status = "absent" /\ Episode[e] \notin retired /\ UNCHANGED <<effect, retired>>
  BY DEF Enqueue
<1>2. PICK gone \in SUBSET Expired(now) :
        row' = [f \in Events |->
                  IF f = e THEN [NoRow EXCEPT !.status = "pending", !.next = now,
                                              !.live = IF live THEN now + LiveTicks ELSE Never]
                  ELSE IF f \in gone THEN NoRow ELSE row[f]]
  BY DEF Enqueue
<1>3. \A f \in gone : f \in Events /\ row[f].status = "delivered"
  BY DEF Expired, Delivered
<1>4. Receipt' = [f \in Events |-> IF f = e THEN "pending" ELSE IF f \in gone THEN "absent" ELSE Receipt[f]]
  BY <1>2 DEF Receipt, NoRow
<1>5. Receipt[e] = "absent" /\ e \notin Withdrawn /\ Withdrawn' = Withdrawn
  BY <1>1 DEF Receipt, Withdrawn
<1>6. gone \in SUBSET {f \in Events : Delivery!Forgotten(f)}
  BY <1>3 DEF Delivery!Forgotten
<1>7. Delivery!Accept(e)
  BY <1>1, <1>4, <1>5, <1>6 DEF Delivery!Accept, Receipt, Withdrawn
<1> QED BY <1>7 DEF Promise, Delivery!Next

LEMMA AdvanceRefines ==
  ASSUME IInv, NEW w \in Flushers, Advance(w)
  PROVE  Promise
<1> DEFINE e == flush[w].event
           a == effect[e]
           b == flush[w].step + 1
<1>1. /\ flush[w] \in Flush /\ Sound(flush[w]) /\ flush[w].phase = "working" /\ e \in Events
      /\ flush[w].step < Len(Phases[e]) /\ Len(Phases[e]) \in Nat
  BY FlushFacts DEF Advance, Working, Sound
<1>2. row' = row /\ retired' = retired /\ effect' = [effect EXCEPT ![e] = Max({a, b})]
  BY DEF Advance
<1>3. a \in Int /\ b \in Int /\ effect \in [Events -> Nat] /\ flush[w].step \in Nat /\ flush[w].step <= a
  BY <1>1 DEF IInv, TypeOK, Flush, Sound
<1>4. Max({a, b}) = a \/ (Max({a, b}) = b /\ b = a + 1)
  <2>1. Max({a, b}) \in {a, b} /\ a <= Max({a, b}) /\ b <= Max({a, b})
    <3> HIDE DEF a, b
    <3> QED BY <1>3, MaxOfTwo
  <2> DEFINE m == Max({a, b})
  <2>2. b <= a + 1
    BY <1>3
  <2>3. m \in {a, b} /\ a <= m /\ b <= m
    BY <2>1
  <2>4. m = a \/ (m = b /\ b = a + 1)
    <3>1. CASE m = a
      BY <3>1
    <3>2. CASE m = b
      <4>1. a <= b
        BY <2>3, <3>2
      <4>2. b = a \/ b = a + 1
        BY <1>3, <2>2, <4>1
      <4> QED BY <3>2, <4>2
    <3> HIDE DEF m
    <3> QED BY <2>3, <3>1, <3>2
  <2> QED BY <2>4
<1>5. CASE effect' = effect
  BY <1>2, <1>5, Stutter
<1>6. CASE effect' # effect
  <2>1. effect' = [effect EXCEPT ![e] = a + 1] /\ b = a + 1
    <3>1. Max({a, b}) # a
      BY <1>2, <1>3, <1>6
    <3> QED BY <1>2, <1>4, <3>1
  <2>2. a < Len(Phases[e])
    BY <1>1, <1>3, <2>1
  <2>3. row[e].status = "pending" \/ Episode[e] \in retired
    BY <1>1, <2>2 DEF Sound, Owning
  <2>4. Receipt' = Receipt /\ Withdrawn' = Withdrawn
    BY <1>2 DEF Receipt, Withdrawn
  <2>5. Receipt[e] = "pending" \/ e \in Withdrawn
    BY <1>1, <2>3 DEF Receipt, Withdrawn
  <2>6. effect[e] < [f \in Events |-> Len(Phases[f])][e]
    BY <1>1, <2>2
  <2>7. effect' = [effect EXCEPT ![e] = @ + 1]
    BY <2>1
  <2> HIDE DEF e
  <2>8. Delivery!Apply(e)
    BY <2>4, <2>5, <2>6, <2>7 DEF Delivery!Apply, Receipt, Withdrawn
  <2> QED BY <1>1, <2>8 DEF Promise, Delivery!Next
<1> QED BY <1>5, <1>6

LEMMA FinishRefines ==
  ASSUME IInv, NEW w \in Flushers, Finish(w)
  PROVE  Promise
<1> DEFINE e == flush[w].event
<1>1. flush[w].phase = "finishing" /\ e \in Events
  BY FlushFacts DEF Finish, Sound
<1>2. UNCHANGED <<effect, retired>>
  BY DEF Finish
<1>3. CASE row' = row
  BY <1>2, <1>3, Stutter
<1>4. CASE row' # row
  <2>1. PICK t \in Readings(w) :
          /\ row[e].status = "pending"
          /\ \E next \in Finished(w, e, t) : row' = [row EXCEPT ![e] = next]
    BY <1>4 DEF Finish, Holds
  <2>2. PICK r \in Finished(w, e, t) : row' = [row EXCEPT ![e] = r]
    BY <2>1
  <2>3. t \in Nat
    BY ReadingType
  <2>4. /\ r \in Row
        /\ \/ r.step = row[e].step /\ r.status = "pending"
           \/ /\ r.step = 0 /\ r.status = "delivered"
              /\ effect[e] = Len(Phases[e]) \/ Episode[e] \in retired
    BY <1>1, <2>1, <2>3, FinishedType
  <2> HIDE DEF e
  <2>5. CASE r.status = "pending"
    <3>1. \A f \in Events : row'[f].status = row[f].status
      BY <2>1, <2>2, <2>5 DEF IInv, TypeOK
    <3> QED BY <1>2, <3>1, Stutter
  <2>6. CASE r.status = "delivered"
    BY <1>1, <1>2, <2>1, <2>2, <2>4, <2>6, DeliverStep
  <2> QED BY <2>4, <2>5, <2>6
<1> QED BY <1>3, <1>4

LEMMA RetireRefines ==
  ASSUME IInv, NEW p \in Episodes, Retire(p)
  PROVE  Promise
<1>1. Receipt' = Receipt /\ effect' = effect
  BY DEF Retire, Receipt
<1> DEFINE more == {e \in Events : Episode[e] = p}
<1>2. Withdrawn' = Withdrawn \cup more /\ more \in SUBSET Events
  BY DEF Retire, Withdrawn
<1>3. Delivery!Withdraw
  BY <1>1, <1>2 DEF Delivery!Withdraw, Receipt, Withdrawn
<1> QED BY <1>3 DEF Promise, Delivery!Next

LEMMA CleanupRefines ==
  ASSUME IInv, NEW p \in Episodes, Cleanup(p)
  PROVE  Promise
<1> DEFINE gone == {e \in Events : Episode[e] = p}
<1>1. gone \in SUBSET Withdrawn /\ Withdrawn' = Withdrawn /\ effect' = effect
  BY DEF Cleanup, Withdrawn
<1>2. Receipt' = [e \in Events |-> IF e \in gone THEN "absent" ELSE Receipt[e]]
  BY DEF Cleanup, Receipt, NoRow
<1>3. Delivery!Forget
  BY <1>1, <1>2 DEF Delivery!Forget, Receipt, Withdrawn
<1> QED BY <1>3 DEF Promise, Delivery!Next

LEMMA DropRetiredRefines ==
  ASSUME IInv, NEW e \in Events, DropRetired(e)
  PROVE  Promise
<1>1. {e} \in SUBSET Withdrawn /\ Withdrawn' = Withdrawn /\ effect' = effect
  BY DEF DropRetired, Withdrawn
<1>2. Receipt' = [f \in Events |-> IF f \in {e} THEN "absent" ELSE Receipt[f]]
  BY DEF DropRetired, Receipt, NoRow, IInv, TypeOK
<1>3. Delivery!Forget
  BY <1>1, <1>2 DEF Delivery!Forget, Receipt, Withdrawn
<1> QED BY <1>3 DEF Promise, Delivery!Next

(* The other steps keep every status, effect and retirement.               *)
LEMMA SameStatus ==
  ASSUME IInv, NEW e \in Events, NEW r, row' = [row EXCEPT ![e] = r], r.status = row[e].status,
         UNCHANGED <<effect, retired>>
  PROVE  Promise
<1>1. \A f \in Events : row'[f].status = row[f].status
  BY DEF IInv, TypeOK
<1> QED BY <1>1, Stutter

LEMMA ClaimRefines ==
  ASSUME IInv, NEW w \in Flushers, Claim(w)
  PROVE  Promise
<1> DEFINE e == flush[w].event
           until == flush[w].clock + LeaseTicks
           r == [row[e] EXCEPT !.holder = w, !.until = until, !.next = until]
<1>1. UNCHANGED <<effect, retired>> /\ (row' = row \/ row' = [row EXCEPT ![e] = r])
  BY DEF Claim
<1>2. e \in Events /\ row[e] \in Row
  BY FlushFacts DEF Claim, Sound
<1>3. r.status = row[e].status
  <2> HIDE DEF e, until
  <2> QED BY <1>2 DEF Row
<1> HIDE DEF r, e
<1> QED BY <1>1, <1>2, <1>3, SameStatus, Stutter

LEMMA SaveProgressRefines ==
  ASSUME IInv, NEW w \in Flushers, SaveProgress(w)
  PROVE  Promise
<1> DEFINE e == flush[w].event
           r == Advanced(row[e], flush[w].step, flush[w].locked)
<1>1. UNCHANGED <<effect, retired>> /\ (row' = row \/ row' = [row EXCEPT ![e] = r])
  BY DEF SaveProgress, Advanced
<1>2. e \in Events /\ row[e] \in Row /\ flush[w].step \in Nat /\ flush[w].locked \in BOOLEAN
  BY FlushFacts DEF SaveProgress, Sound, Flush
<1>3. r.status = row[e].status
  BY <1>2, AdvancedType
<1> HIDE DEF r, e
<1> QED BY <1>1, <1>2, <1>3, SameStatus, Stutter

LEMMA MarkRefines ==
  ASSUME IInv, NEW e \in Events, Promote(e) \/ Archived(e)
  PROVE  Promise
<1>1. UNCHANGED <<effect, retired>> /\ row[e] \in Row
  BY DEF Promote, Archived, IInv, TypeOK
<1>2. CASE Archived(e)
  <2> DEFINE r == [row[e] EXCEPT !.archive = FALSE]
  <2>1. r.status = row[e].status
    BY <1>1 DEF Row
  <2>2. row' = [row EXCEPT ![e] = r]
    BY <1>2 DEF Archived
  <2> HIDE DEF r
  <2> QED BY <1>1, <2>1, <2>2, SameStatus
<1>3. CASE Promote(e)
  <2> DEFINE n == Max({row[e].live, now + LiveTicks})
             r == [row[e] EXCEPT !.live = n]
  <2>1. r.status = row[e].status
    <3> HIDE DEF n
    <3> QED BY <1>1 DEF Row
  <2>2. row' = [row EXCEPT ![e] = r]
    BY <1>3 DEF Promote
  <2> HIDE DEF r
  <2> QED BY <1>1, <2>1, <2>2, SameStatus
<1> QED BY <1>2, <1>3

LEMMA InitRefines == Init => Delivery!Init
BY DEF Init, Delivery!Init, NoRow

LEMMA StepRefines == IInv /\ [Next]_vars => Promise
<1> SUFFICES ASSUME IInv, [Next]_vars PROVE Promise
  OBVIOUS
<1>1. CASE Tick \/ CleanupCheck \/ UNCHANGED vars
  BY <1>1, Stutter DEF Tick, CleanupCheck, vars
<1>2. ASSUME NEW e \in Events,
             (\E live \in SubmittedLive(e) : Enqueue(e, live)) \/ Promote(e) \/ Archived(e) \/ DropRetired(e)
      PROVE  Promise
  BY <1>2, EnqueueRefines, MarkRefines, DropRetiredRefines
<1>3. ASSUME NEW p \in Episodes, Retire(p) \/ Cleanup(p)
      PROVE  Promise
  BY <1>3, RetireRefines, CleanupRefines
<1>4. ASSUME NEW w \in Flushers,
             Select(w) \/ CheckRetirement(w) \/ FencedWrite(w) \/ TakeLock(w) \/ Stop(w) \/ Die(w)
      PROVE  Promise
  BY <1>4, Stutter DEF Select, CheckRetirement, FencedWrite, TakeLock, Stop, Die
<1>5. ASSUME NEW w \in Flushers, Claim(w) \/ Advance(w) \/ SaveProgress(w) \/ Finish(w)
      PROVE  Promise
  BY <1>5, ClaimRefines, AdvanceRefines, SaveProgressRefines, FinishRefines
<1> QED BY <1>1, <1>2, <1>3, <1>4, <1>5 DEF Next

(* The queue implements the promise made to its producers: an accepted     *)
(* event stays accepted until its work has been applied to the last step,  *)
(* in order, or its token is retired, and only a receipt or an event of a  *)
(* retired token is ever forgotten.                                        *)
THEOREM QueueKeepsDelivery == Spec => DeliveryKept
BY InitRefines, StepRefines, IInvAlways, PTL DEF Spec, DeliveryKept, Delivery!Spec, Promise

-----------------------------------------------------------------------------
(* What a step leaves in the state of its flush.                           *)

(* The lease and the reservation stay what the claim made them.            *)
SameLease(f, s) ==
  /\ s.event = f.event /\ s.day = f.day /\ s.until = f.until
  /\ s.live = f.live /\ s.reserved = f.reserved

LEMMA GoingOn ==
  ASSUME IInv, NEW w \in Flushers, CheckRetirement(w) \/ FencedWrite(w) \/ Stop(w)
  PROVE  \E s \in Flush :
           /\ Set(w, s) /\ SameLease(flush[w], s) /\ s.used = flush[w].used
           /\ flush[w].phase \in {"claimed", "working"} /\ s.phase \in {"working", "saving"}
           /\ s.step = flush[w].step \/ Episode[flush[w].event] \in retired
<1> DEFINE f == flush[w]
           n == Len(Phases[f.event])
<1>1. f \in Flush /\ now \in Nat /\ f.phase \in {"claimed", "working"} /\ n \in Nat
  BY FlushFacts DEF CheckRetirement, FencedWrite, Stop, Working
<1>2. CASE Discard(w) /\ Episode[f.event] \in retired
  <2>1. Set(w, Discarded(f, n))
    BY <1>2 DEF Discard, Discarded
  <2> HIDE DEF n, f
  <2>2. LET s == Discarded(f, n) IN s \in Flush /\ s.phase = "saving" /\ s.used = f.used /\ SameLease(f, s)
    BY <1>1, DiscardType DEF SameLease
  <2> QED BY <1>1, <1>2, <2>1, <2>2 DEF f
<1>3. CASE Set(w, [f EXCEPT !.phase = "working", !.clock = now])
  <2> DEFINE s == [f EXCEPT !.phase = "working", !.clock = now]
  <2> HIDE DEF f
  <2>1. s \in Flush /\ s.phase = "working" /\ s.used = f.used /\ s.step = f.step /\ SameLease(f, s)
    BY <1>1, WorkingType DEF SameLease
  <2> HIDE DEF s
  <2> QED BY <1>1, <1>3, <2>1 DEF f, s
<1>4. CASE \E outcome \in {"delivered", "deferred", "failed"} : Conclude(w, outcome)
  <2>1. PICK outcome \in {"delivered", "deferred", "failed"} : Set(w, Concluded(f, outcome))
    BY <1>4 DEF Conclude, Concluded
  <2> HIDE DEF f
  <2>2. LET s == Concluded(f, outcome) IN
        s \in Flush /\ s.phase = "saving" /\ s.used = f.used /\ s.step = f.step /\ SameLease(f, s)
    BY <1>1, ConcludeType DEF SameLease
  <2> QED BY <1>1, <2>1, <2>2 DEF f
<1> QED BY <1>2, <1>3, <1>4 DEF CheckRetirement, FencedWrite, Stop

(* A selection owns nothing yet, and a flush that dies nothing any more.   *)
LEMMA Beginning ==
  ASSUME IInv, NEW w \in Flushers, Select(w)
  PROVE  flush'[w].phase = "selected" /\ \A d \in Flushers : d # w => flush'[d] = flush[d]
<1>1. PICK e \in Affordable(now) :
        Set(w, [Idle EXCEPT !.phase = "selected", !.event = e, !.clock = now, !.live = LiveAt(e, now),
                            !.used = Minimum(e, row[e].step)])
  BY DEF Select
<1> DEFINE live == LiveAt(e, now)
           least == Minimum(e, row[e].step)
           s == [Idle EXCEPT !.phase = "selected", !.event = e, !.clock = now, !.live = live, !.used = least]
<1>2. s.phase = "selected"
  <2> HIDE DEF live, least
  <2> QED BY DEF Idle
<1>3. Set(w, s)
  BY <1>1
<1> HIDE DEF s
<1> QED BY <1>2, <1>3 DEF Set, IInv, TypeOK

LEMMA Ending ==
  ASSUME IInv, NEW w \in Flushers, Set(w, Idle)
  PROVE  flush'[w].phase = "idle" /\ \A d \in Flushers : d # w => flush'[d] = flush[d]
BY EmptyTypes, SetType DEF Idle

(* The kind of the phase that comes next.                                  *)
NextKind(w) == Phases[flush[w].event][flush[w].step + 1]

LEMMA KindType ==
  ASSUME IInv, NEW w \in Flushers, Advance(w)
  PROVE  /\ flush[w].event \in Events /\ flush[w].step \in Nat
         /\ flush[w].step < Len(Phases[flush[w].event]) /\ Len(Phases[flush[w].event]) \in Nat
         /\ NextKind(w) \in Kinds /\ Cost[NextKind(w)] \in Nat
<1> DEFINE e == flush[w].event
           n == flush[w].step
<1>1. e \in Events /\ n \in Nat /\ n < Len(Phases[e])
  BY FlushFacts DEF Advance, Working, Sound, Flush
<1>2. Phases[e] \in Seq(Kinds) /\ Cost \in [Kinds -> Nat]
  BY <1>1, EventAssumption, UnitAssumption
<1>3. n + 1 \in 1 .. Len(Phases[e]) /\ Len(Phases[e]) \in Nat
  BY <1>1, <1>2
<1>4. NextKind(w) \in Kinds
  BY <1>2, <1>3 DEF NextKind
<1> QED BY <1>1, <1>2, <1>3, <1>4

LEMMA Stepping ==
  ASSUME IInv, NEW w \in Flushers, Advance(w)
  PROVE  \E s \in Flush :
           /\ Set(w, s) /\ SameLease(flush[w], s) /\ s.used = flush[w].used + Cost[NextKind(w)]
           /\ flush[w].phase = "working" /\ s.phase \in {"working", "saving"}
           /\ s.step \in {flush[w].step, flush[w].step + 1}
<1> DEFINE f == flush[w]
           units == Cost[NextKind(w)]
           locked == f.locked /\ NextKind(w) # "unlock"
<1>1. f \in Flush /\ now \in Nat /\ f.phase = "working" /\ units \in Nat
  BY FlushFacts, KindType DEF Advance, Working
<1>2. locked \in BOOLEAN
  BY <1>1 DEF Flush
<1>3. Set(w, Moved(f, units, locked)) \/ Set(w, Lost(f, units))
  BY DEF Advance, NextKind, Moved, Lost
<1> HIDE DEF f, units, locked
<1>4. LET s == Moved(f, units, locked) IN
      s \in Flush /\ s.phase = f.phase /\ s.used = f.used + units /\ s.step = f.step + 1 /\ SameLease(f, s)
  BY <1>1, <1>2, MovedType DEF SameLease
<1>5. LET s == Lost(f, units) IN
      s \in Flush /\ s.phase = "saving" /\ s.used = f.used + units /\ s.step = f.step /\ SameLease(f, s)
  BY <1>1, LostType DEF SameLease
<1> QED BY <1>1, <1>3, <1>4, <1>5 DEF f, units

LEMMA Locking ==
  ASSUME IInv, NEW w \in Flushers, TakeLock(w)
  PROVE  \E s \in Flush :
           /\ Set(w, s) /\ SameLease(flush[w], s) /\ s.used = flush[w].used + 1
           /\ flush[w].phase = "working" /\ s.phase \in {"working", "saving"} /\ s.step = flush[w].step
<1> DEFINE f == flush[w]
<1>1. f \in Flush /\ now \in Nat /\ f.phase = "working" /\ 1 \in Nat /\ TRUE \in BOOLEAN
  BY FlushFacts DEF TakeLock, Working
<1>2. Set(w, Sent(f, 1, TRUE)) \/ Set(w, Busy(f, 1))
  BY DEF TakeLock, Sent, Busy
<1> HIDE DEF f
<1>3. LET s == Sent(f, 1, TRUE) IN
      s \in Flush /\ s.phase = f.phase /\ s.used = f.used + 1 /\ s.step = f.step /\ SameLease(f, s)
  BY <1>1, SentType DEF SameLease
<1>4. LET s == Busy(f, 1) IN
      s \in Flush /\ s.phase = "saving" /\ s.used = f.used + 1 /\ s.step = f.step /\ SameLease(f, s)
  BY <1>1, BusyType DEF SameLease
<1> QED BY <1>1, <1>2, <1>3, <1>4 DEF f

(* The rows and the state of a flush that saves its progress, or has lost  *)
(* its lease.                                                              *)
LEMMA Saving ==
  ASSUME IInv, NEW w \in Flushers, SaveProgress(w)
  PROVE  LET e == flush[w].event IN
         /\ flush[w].phase = "saving" /\ e \in Events /\ row[e] \in Row
         /\ \/ Set(w, Idle) /\ row' = row
            \/ \E s \in Flush, r \in Row, t \in Readings(w) :
                 /\ Holds(w, e, t)
                 /\ Set(w, s) /\ SameLease(flush[w], s) /\ s.used = flush[w].used
                 /\ s.phase = "finishing" /\ s.step = flush[w].step
                 /\ row' = [row EXCEPT ![e] = r]
                 /\ r.step = flush[w].step /\ r.status = row[e].status /\ r.holder = row[e].holder
                 /\ r.until = row[e].until /\ r.live = row[e].live /\ r.archive = row[e].archive
<1> DEFINE f == flush[w]
           e == f.event
<1>1. f \in Flush /\ now \in Nat /\ f.phase = "saving" /\ e \in Events /\ row[e] \in Row
  BY FlushFacts DEF SaveProgress, Sound
<1>2. f.step \in Nat /\ f.locked \in BOOLEAN
  BY <1>1 DEF Flush
<1>3. PICK t \in Readings(w) :
        IF Holds(w, e, t)
        THEN row' = [row EXCEPT ![e] = Advanced(row[e], f.step, f.locked)] /\ Set(w, Finishing(f))
        ELSE Set(w, Idle) /\ UNCHANGED row
  BY DEF SaveProgress, Advanced, Finishing
<1> HIDE DEF f, e
<1>4. LET s == Finishing(f) IN
      s \in Flush /\ s.phase = "finishing" /\ s.used = f.used /\ s.step = f.step /\ SameLease(f, s)
  BY <1>1, FinishingType DEF SameLease
<1>5. LET r == Advanced(row[e], f.step, f.locked) IN
      /\ r \in Row /\ r.step = f.step /\ r.status = row[e].status /\ r.holder = row[e].holder
      /\ r.until = row[e].until /\ r.live = row[e].live /\ r.archive = row[e].archive
  BY <1>1, <1>2, AdvancedType
<1> QED BY <1>1, <1>3, <1>4, <1>5 DEF f, e

(* What a claim leaves: an idle flush, or a lease from its clock reading.  *)
LEMMA Claiming ==
  ASSUME IInv, NEW w \in Flushers, Claim(w)
  PROVE  LET e == flush[w].event
             t == flush[w].clock
             left == Allowance(flush[w].live) - Reset(Day(t)).writes
         IN
         /\ flush[w].phase = "selected" /\ e \in Events /\ row[e] \in Row
         /\ t \in Nat /\ t <= now /\ now <= t + Latency /\ Day(t) \in Days
         /\ \/ Set(w, Idle) /\ row' = row /\ hist' = Reset(Day(t))
            \/ \E s \in Flush, r \in Row :
                 /\ Claimable(e, t)
                 /\ Set(w, s) /\ s.phase \in {"claimed", "working"} /\ s.event = e /\ s.day = Day(t)
                 /\ s.until = t + LeaseTicks /\ s.live = flush[w].live /\ s.used = 0
                 /\ s.step = row[e].step /\ s.reserved \in Nat /\ s.reserved <= left
                 /\ row' = [row EXCEPT ![e] = r]
                 /\ r.holder = w /\ r.until = t + LeaseTicks /\ r.step = row[e].step
                 /\ r.status = row[e].status /\ r.live = row[e].live /\ r.archive = row[e].archive
                 /\ hist' = [Reset(Day(t)) EXCEPT !.writes = @ + s.reserved]
<1> DEFINE f == flush[w]
           e == f.event
           t == f.clock
           meta == Reset(Day(t))
           left == Allowance(f.live) - meta.writes
<1>1. /\ f.phase = "selected" /\ f \in Flush /\ e \in Events /\ row[e] \in Row
      /\ t \in Nat /\ t <= now /\ now <= t + Latency /\ now \in Nat /\ now <= MaxTime
  BY FlushFacts DEF Claim, Sound, Flush
<1>2. t <= MaxTime /\ LeaseTicks \in Nat /\ FlushUnits \in Nat
  <2>1. MaxTime \in Nat /\ LeaseTicks \in Nat /\ FlushUnits \in Nat
    BY UnitTypes
  <2> HIDE DEF t
  <2> QED BY <1>1, <2>1
<1>3. Day(t) \in Days /\ Day(t) \in Int
  <2> HIDE DEF t
  <2> QED BY <1>1, <1>2, DayOfClock DEF Days
<1>4. left \in Int
  BY <1>3, ResetType
<1>5. CASE Claimable(e, t) /\ left >= f.used
  <2>1. PICK maximum \in 1 .. FlushUnits :
          LET reserved == Min({maximum, left}) IN
          /\ row' = [row EXCEPT ![e] = [@ EXCEPT !.holder = w, !.until = t + LeaseTicks, !.next = t + LeaseTicks]]
          /\ hist' = [meta EXCEPT !.writes = @ + reserved]
          /\ Set(w, Leased(f, reserved))
    BY <1>5 DEF Claim
  <2> DEFINE reserved == Min({maximum, left})
             until == t + LeaseTicks
             r == [row[e] EXCEPT !.holder = w, !.until = until, !.next = until]
             s == Leased(f, reserved)
  <2>2. reserved \in Nat /\ reserved <= left
    <3>1. maximum \in Nat
      BY <1>2
    <3>2. left \in Nat
      <4> HIDE DEF left
      <4> QED BY <1>1, <1>4, <1>5 DEF Flush
    <3>3. reserved \in {maximum, left} /\ reserved <= left
      <4> HIDE DEF left
      <4> QED BY <3>1, <3>2, MinOfTwo
    <3> HIDE DEF left, reserved
    <3> QED BY <3>1, <3>2, <3>3
  <2>3. /\ r \in Row /\ r.holder = w /\ r.until = until /\ r.step = row[e].step
        /\ r.status = row[e].status /\ r.live = row[e].live /\ r.archive = row[e].archive
    <3>1. until \in Int
      <4> HIDE DEF t
      <4> QED BY <1>1, <1>2
    <3> HIDE DEF until, e
    <3> QED BY <1>1, <3>1 DEF Row
  <2>4. /\ s \in Flush /\ s.phase \in {"claimed", "working"} /\ s.event = e /\ s.day = Day(t)
        /\ s.until = until /\ s.live = f.live /\ s.used = 0 /\ s.step = row[e].step
        /\ s.reserved = reserved
    <3> HIDE DEF reserved
    <3> QED BY <1>1, <1>2, <2>2, LeasedType
  <2>5. row' = [row EXCEPT ![e] = r] /\ Set(w, s) /\ hist' = [meta EXCEPT !.writes = @ + reserved]
    BY <2>1
  <2>6. /\ Set(w, s) /\ s \in Flush /\ s.phase \in {"claimed", "working"} /\ s.event = e /\ s.day = Day(t)
        /\ s.until = t + LeaseTicks /\ s.live = f.live /\ s.used = 0
        /\ s.step = row[e].step /\ s.reserved \in Nat /\ s.reserved <= left
        /\ hist' = [meta EXCEPT !.writes = @ + s.reserved]
    <3> HIDE DEF s, reserved, left, meta, e, t
    <3> QED BY <2>2, <2>4, <2>5
  <2>7. r \in Row /\ r.holder = w /\ r.until = t + LeaseTicks
    BY <2>3
  <2> HIDE DEF s, r
  <2> QED BY <1>1, <1>3, <1>5, <2>3, <2>5, <2>6, <2>7
<1>6. CASE ~(Claimable(e, t) /\ left >= f.used)
  BY <1>1, <1>3, <1>6 DEF Claim
<1> QED BY <1>5, <1>6

-----------------------------------------------------------------------------
(* The order of the events of an episode.                                  *)

(* No step but the acceptance and the lease of an event puts it at risk.   *)
LEMMA OrderKept ==
  ASSUME EpisodeOrder, overtaken \subseteq overtaken',
         \A e \in Events : row'[e].status = "pending" => row[e].status = "pending",
         \A f \in Events : Started(f)' => Started(f)
  PROVE  EpisodeOrder'
<1> SUFFICES ASSUME NEW f \in Events, NEW e \in Older(f) \ overtaken', row'[e].status = "pending", Started(f)'
             PROVE  FALSE
  BY DEF EpisodeOrder, Older
<1>1. e \in Events /\ e \in Older(f) \ overtaken
  BY DEF Older
<1> QED BY <1>1 DEF EpisodeOrder

(* A flush that goes on with its event, or gives it up.                    *)
LEMMA OrderOfFlush ==
  ASSUME IInv, EpisodeOrder, NEW w \in Flushers, NEW s \in Flush, Set(w, s),
         s.phase \in {"claimed", "working"} =>
           flush[w].phase \in {"claimed", "working"} /\ s.event = flush[w].event,
         \A f \in Events : effect'[f] > 0 => effect[f] > 0 \/ (flush[w].phase = "working" /\ flush[w].event = f),
         \A e \in Events : row'[e].status = "pending" => row[e].status = "pending",
         UNCHANGED overtaken
  PROVE  EpisodeOrder'
<1>1. flush'[w] = s /\ \A d \in Flushers : d # w => flush'[d] = flush[d]
  BY SetType
<1>2. ASSUME NEW f \in Events, Started(f)' PROVE Started(f)
  <2>1. CASE effect'[f] > 0
    BY <2>1 DEF Started
  <2>2. CASE \E d \in Flushers : flush'[d].phase \in {"claimed", "working"} /\ flush'[d].event = f
    BY <1>1, <2>2 DEF Started
  <2> QED BY <1>2, <2>1, <2>2 DEF Started
<1> QED BY <1>2, OrderKept

LEMMA ClaimOrder ==
  ASSUME IInv, EpisodeOrder, NEW w \in Flushers, Claim(w)
  PROVE  EpisodeOrder'
<1> DEFINE e == flush[w].event
           t == flush[w].clock
<1>1. e \in Events /\ UNCHANGED <<effect, overtaken>>
  BY Claiming DEF Claim
<1>2. CASE Set(w, Idle) /\ UNCHANGED row
  BY <1>1, <1>2, EmptyTypes, OrderOfFlush DEF Idle
<1>3. CASE \E s \in Flush, r \in Row :
             /\ Claimable(e, t) /\ Set(w, s) /\ s.event = e
             /\ row' = [row EXCEPT ![e] = r] /\ r.status = row[e].status
  <2>1. PICK s \in Flush : Set(w, s) /\ s.event = e
    BY <1>3
  <2>2. flush'[w].event = e /\ \A d \in Flushers : d # w => flush'[d] = flush[d]
    <3> HIDE DEF e
    <3> QED BY <2>1, SetType
  <2>3. \A f \in Events : row'[f].status = row[f].status
    BY <1>1, <1>3 DEF IInv, TypeOK
  <2>4. ASSUME NEW f \in Events, Started(f)' PROVE Started(f) \/ f = e
    BY <1>1, <2>2, <2>4 DEF Started
  <2>5. \A f \in Older(e) : row[f].status # "pending"
    BY <1>3 DEF Claimable, Pending, Older
  <2> SUFFICES ASSUME NEW f \in Events, NEW o \in Older(f) \ overtaken', row'[o].status = "pending", Started(f)'
               PROVE  FALSE
    BY DEF EpisodeOrder, Older
  <2> HIDE DEF e
  <2> QED BY <1>1, <2>3, <2>4, <2>5 DEF EpisodeOrder, Older
<1>4. \/ Set(w, Idle) /\ UNCHANGED row
      \/ \E s \in Flush, r \in Row :
           /\ Claimable(e, t) /\ Set(w, s) /\ s.event = e
           /\ row' = [row EXCEPT ![e] = r] /\ r.status = row[e].status
  BY Claiming
<1> QED BY <1>2, <1>3, <1>4

(* An event that is accepted after a newer one has been started is taken   *)
(* for overtaken.                                                          *)
LEMMA EnqueueOrder ==
  ASSUME IInv, EpisodeOrder, NEW e \in Events, NEW live, Enqueue(e, live)
  PROVE  EpisodeOrder'
<1>1. UNCHANGED <<effect, flush>> /\ \A f \in Events : Started(f)' => Started(f)
  BY DEF Enqueue, Started
<1>2. \A f \in Events : f # e => (row'[f].status = "pending" => row[f].status = "pending")
  BY DEF Enqueue, NoRow
<1>3. overtaken \subseteq overtaken' /\ ((\E f \in Events : e \in Older(f) /\ Started(f)) => e \in overtaken')
  BY DEF Enqueue
<1> SUFFICES ASSUME NEW f \in Events, NEW o \in Older(f) \ overtaken', row'[o].status = "pending", Started(f)'
             PROVE  FALSE
  BY DEF EpisodeOrder, Older
<1>4. o \in Events /\ o \in Older(f) \ overtaken /\ Started(f)
  BY <1>1, <1>3 DEF Older
<1>5. CASE o = e
  BY <1>3, <1>4, <1>5
<1>6. CASE o # e
  BY <1>2, <1>4, <1>6 DEF EpisodeOrder
<1> QED BY <1>5, <1>6

(* A flush that goes on, or gives up.                                      *)
LEMMA FlushOnlyOrder ==
  ASSUME IInv, EpisodeOrder, NEW w \in Flushers,
         Select(w) \/ CheckRetirement(w) \/ FencedWrite(w) \/ Stop(w) \/ Die(w)
  PROVE  EpisodeOrder'
<1>1. UNCHANGED <<row, effect, overtaken>>
  BY DEF Select, CheckRetirement, FencedWrite, Stop, Die
<1>2. CASE CheckRetirement(w) \/ FencedWrite(w) \/ Stop(w)
  BY <1>1, <1>2, GoingOn, OrderOfFlush DEF SameLease
<1>3. CASE Select(w) \/ Die(w)
  <2>1. flush'[w].phase \notin {"claimed", "working"} /\ \A d \in Flushers : d # w => flush'[d] = flush[d]
    BY <1>3, Beginning, Ending DEF Die
  <2>2. \A f \in Events : Started(f)' => Started(f)
    BY <1>1, <2>1 DEF Started
  <2> QED BY <1>1, <2>2, OrderKept
<1> QED BY <1>2, <1>3

(* A statement of the work: the event it is sent for has been started.     *)
LEMMA WorkOrder ==
  ASSUME IInv, EpisodeOrder, NEW w \in Flushers, TakeLock(w) \/ Advance(w)
  PROVE  EpisodeOrder'
<1>1. UNCHANGED <<row, overtaken>>
  BY DEF TakeLock, Advance
<1>2. \A f \in Events : f = flush[w].event \/ effect'[f] = effect[f]
  BY DEF TakeLock, Advance, IInv, TypeOK
<1>3. PICK s \in Flush : Set(w, s) /\ SameLease(flush[w], s) /\ flush[w].phase = "working"
  BY Stepping, Locking
<1> QED BY <1>1, <1>2, <1>3, OrderOfFlush DEF SameLease

(* The cursor is saved, and the flush ends.                                *)
LEMMA ReceiptOrder ==
  ASSUME IInv, EpisodeOrder, NEW w \in Flushers, SaveProgress(w) \/ Finish(w)
  PROVE  EpisodeOrder'
<1>1. UNCHANGED <<effect, overtaken>>
  BY DEF SaveProgress, Finish
<1>2. CASE SaveProgress(w)
  <2>1. PICK s \in Flush : Set(w, s) /\ s.phase \in {"idle", "finishing"}
    BY <1>2, Saving, EmptyTypes DEF Idle
  <2>2. \A f \in Events : row'[f].status = row[f].status
    BY <1>2, Saving DEF IInv, TypeOK
  <2> QED BY <1>1, <2>1, <2>2, OrderOfFlush
<1>3. CASE Finish(w)
  <2>1. Set(w, Idle) /\ Idle \in Flush /\ Idle.phase = "idle"
    BY <1>3, EmptyTypes DEF Finish, Idle
  <2>2. \A f \in Events : row'[f].status = "pending" => row[f].status = "pending"
    BY <1>3 DEF Finish, Holds, IInv, TypeOK
  <2> QED BY <1>1, <2>1, <2>2, OrderOfFlush
<1> QED BY <1>2, <1>3

(* The archive, the retirement and the promotion make no event pending.    *)
LEMMA OutsideOrder ==
  ASSUME IInv, EpisodeOrder,
         \/ Tick \/ CleanupCheck \/ UNCHANGED vars
         \/ \E e \in Events : Promote(e) \/ Archived(e) \/ DropRetired(e)
         \/ \E p \in Episodes : Retire(p) \/ Cleanup(p)
  PROVE  EpisodeOrder'
<1>1. UNCHANGED <<effect, flush, overtaken>>
  BY DEF Tick, CleanupCheck, vars, Promote, Archived, DropRetired, Retire, Cleanup
<1>2. \A f \in Events : row'[f].status = "pending" => row[f].status = "pending"
  <2>1. row \in [Events -> Row] /\ NoRow.status = "absent"
    BY DEF IInv, TypeOK, NoRow
  <2>2. CASE Tick \/ CleanupCheck \/ UNCHANGED vars \/ \E p \in Episodes : Retire(p)
    BY <2>2 DEF Tick, CleanupCheck, vars, Retire
  <2>3. CASE \E e \in Events : Promote(e)
    BY <2>1, <2>3 DEF Promote, Row
  <2>4. CASE \E e \in Events : Archived(e)
    BY <2>1, <2>4 DEF Archived, Row
  <2>5. CASE \E e \in Events : DropRetired(e)
    BY <2>1, <2>5 DEF DropRetired
  <2>6. CASE \E p \in Episodes : Cleanup(p)
    BY <2>1, <2>6 DEF Cleanup
  <2> QED BY <2>2, <2>3, <2>4, <2>5, <2>6
<1>3. \A f \in Events : Started(f)' => Started(f)
  BY <1>1 DEF Started
<1> QED BY <1>1, <1>2, <1>3, OrderKept

LEMMA StepOrder == IInv /\ EpisodeOrder /\ [Next]_vars => EpisodeOrder'
BY ClaimOrder, EnqueueOrder, FlushOnlyOrder, WorkOrder, ReceiptOrder, OutsideOrder DEF Next

LEMMA InitOrder == Init => EpisodeOrder
BY DEF Init, EpisodeOrder, Older, NoRow

(* No work of an event is done, or on its way, while an older event of its *)
(* episode is still pending, unless that one came in late: a claim looks   *)
(* for older pending events in the statement that takes the lease.         *)
THEOREM OrderOfEpisodes == Spec => []EpisodeOrder
BY InitOrder, StepOrder, IInvAlways, PTL DEF Spec

-----------------------------------------------------------------------------
(* The structural lock.                                                    *)

(* Among the phases after the first n there is one that gives it back.     *)
Releases(e, n) == \E j \in n + 1 .. Len(Phases[e]) : Phases[e][j] = "unlock"

(* A flush is the holder of its event until its lease ends, and as long as *)
(* the row names it, it is for this very lease and with no later cursor.   *)
OpenLease(w) ==
  LET f == flush[w]
      r == row[f.event]
  IN
  f.phase \in Owning /\ Episode[f.event] \notin retired =>
    /\ r.holder = w => r.until = f.until /\ r.step <= f.step
    /\ now < f.until => r.status = "pending" /\ r.holder = w

(* The event that holds the lock has the phase that gives it back still    *)
(* before it, wherever its work is taken up again.                         *)
LockKept ==
  \A e \in Events :
    lock = e /\ e \notin belated /\ Episode[e] \notin retired =>
      /\ row[e].status = "pending" /\ Releases(e, row[e].step)
      /\ \A w \in Flushers :
           flush[w].phase \in Owning /\ flush[w].event = e /\ row[e].holder = w => Releases(e, flush[w].step)

LockInv ==
  /\ \A w \in Flushers : OpenLease(w)
  /\ LockKept

LEMMA ReleasesEarlier ==
  ASSUME NEW e \in Events, NEW m \in Nat, NEW n \in Nat, m <= n, Releases(e, n)
  PROVE  Releases(e, m)
<1>1. Len(Phases[e]) \in Nat
  BY EventAssumption
<1> QED BY <1>1 DEF Releases

(* The flushes that own an event, and the numbers they carry.              *)
LEMMA OwnerFacts ==
  ASSUME IInv, NEW w \in Flushers, flush[w].phase \in Owning
  PROVE  /\ flush[w].event \in Events /\ row[flush[w].event] \in Row
         /\ flush[w].step \in Nat /\ flush[w].until \in Int /\ row[flush[w].event].step \in Nat
         /\ flush[w].step <= Len(Phases[flush[w].event])
BY FlushFacts DEF Sound, Owning, Flush, Row

(* A lease outlives every step of its flush.                               *)
LEMMA LeaseMoves ==
  ASSUME IInv, \A d \in Flushers : OpenLease(d), NEW w \in Flushers, NEW s \in Flush, Set(w, s),
         s.phase \in Owning =>
           /\ flush[w].phase \in Owning /\ SameLease(flush[w], s)
           /\ flush[w].step <= s.step \/ Episode[flush[w].event] \in retired,
         UNCHANGED <<now, row, retired>>
  PROVE  \A d \in Flushers : OpenLease(d)'
<1> SUFFICES ASSUME NEW d \in Flushers PROVE OpenLease(d)'
  OBVIOUS
<1>1. flush'[w] = s /\ (d # w => flush'[d] = flush[d])
  BY SetType
<1>2. CASE d # w
  BY <1>1, <1>2 DEF OpenLease
<1>3. CASE d = w /\ s.phase \in Owning
  <2>1. flush[w].step \in Nat /\ s.step \in Nat /\ row[flush[w].event].step \in Nat
    BY <1>3, OwnerFacts DEF Flush
  <2>2. OpenLease(w) /\ flush[w].phase \in Owning /\ s.event = flush[w].event /\ s.until = flush[w].until
        /\ (flush[w].step <= s.step \/ Episode[flush[w].event] \in retired)
    BY <1>3 DEF SameLease
  <2> DEFINE f == flush[w]
             e == f.event
  <2> HIDE DEF f
  <2> SUFFICES ASSUME Episode[e] \notin retired
               PROVE  /\ row[e].holder = w => row[e].until = s.until /\ row[e].step <= s.step
                      /\ now < s.until => row[e].status = "pending" /\ row[e].holder = w
    BY <1>1, <1>3, <2>2 DEF OpenLease, f
  <2>3. /\ row[e].holder = w => row[e].until = f.until /\ row[e].step <= f.step
        /\ now < f.until => row[e].status = "pending" /\ row[e].holder = w
    BY <2>2 DEF OpenLease, f
  <2> QED BY <2>1, <2>2, <2>3 DEF f
<1>4. CASE d = w /\ s.phase \notin Owning
  BY <1>1, <1>4 DEF OpenLease
<1> QED BY <1>2, <1>3, <1>4

(* A flush that goes on with its event, or ends, without a statement.      *)
LEMMA LockMoves ==
  ASSUME IInv, LockKept, NEW w \in Flushers, NEW s \in Flush, Set(w, s),
         s.phase \in Owning =>
           /\ flush[w].phase \in Owning /\ SameLease(flush[w], s)
           /\ \/ s.step = flush[w].step \/ Episode[flush[w].event] \in retired
              \/ Releases(flush[w].event, flush[w].step) => Releases(flush[w].event, s.step),
         lock' \in {lock, Unlocked}, belated \subseteq belated',
         UNCHANGED <<row, retired>>
  PROVE  LockKept'
<1> SUFFICES ASSUME NEW e \in Events, lock' = e, e \notin belated', Episode[e] \notin retired
             PROVE  /\ row[e].status = "pending" /\ Releases(e, row[e].step)
                    /\ \A d \in Flushers :
                         flush'[d].phase \in Owning /\ flush'[d].event = e /\ row[e].holder = d =>
                           Releases(e, flush'[d].step)
  BY DEF LockKept, Releases
<1>1. lock = e /\ e \notin belated
  BY EventAssumption
<1>2. flush'[w] = s /\ \A d \in Flushers : d # w => flush'[d] = flush[d]
  BY SetType
<1>3. /\ row[e].status = "pending" /\ Releases(e, row[e].step)
      /\ \A d \in Flushers :
           flush[d].phase \in Owning /\ flush[d].event = e /\ row[e].holder = d => Releases(e, flush[d].step)
  BY <1>1 DEF LockKept
<1>4. ASSUME s.phase \in Owning, s.event = e, row[e].holder = w PROVE Releases(e, s.step)
  BY <1>3, <1>4 DEF SameLease
<1> QED BY <1>2, <1>3, <1>4

LEMMA FlushOnlyLock ==
  ASSUME IInv, LockInv, NEW w \in Flushers,
         Select(w) \/ CheckRetirement(w) \/ FencedWrite(w) \/ Stop(w) \/ Die(w)
  PROVE  LockInv'
<1>1. UNCHANGED <<now, row, lock, retired, belated>>
  BY DEF Select, CheckRetirement, FencedWrite, Stop, Die
<1>2. \E s \in Flush :
        /\ Set(w, s)
        /\ s.phase \in Owning =>
             /\ flush[w].phase \in Owning /\ SameLease(flush[w], s)
             /\ s.step = flush[w].step \/ Episode[flush[w].event] \in retired
  <2>1. CASE CheckRetirement(w) \/ FencedWrite(w) \/ Stop(w)
    BY <2>1, GoingOn DEF Owning
  <2>2. CASE Die(w)
    BY <2>2, EmptyTypes DEF Die, Idle, Owning
  <2>3. CASE Select(w)
    <3>1. flush'[w].phase = "selected"
      BY <2>3, Beginning
    <3>2. flush' \in [Flushers -> Flush]
      <4>1. IInv'
        BY <2>3, SelectPreserves
      <4> QED BY <4>1 DEF IInv, TypeOK
    <3>3. \E s : Set(w, s)
      BY <2>3 DEF Select
    <3> QED BY <3>1, <3>2, <3>3 DEF Set, Owning, IInv, TypeOK
  <2> QED BY <2>1, <2>2, <2>3
<1>3. PICK s \in Flush :
        /\ Set(w, s)
        /\ s.phase \in Owning =>
             /\ flush[w].phase \in Owning /\ SameLease(flush[w], s)
             /\ s.step = flush[w].step \/ Episode[flush[w].event] \in retired
  BY <1>2
<1>4. s.phase \in Owning => flush[w].step <= s.step \/ Episode[flush[w].event] \in retired
  BY <1>3 DEF Flush
<1>5. \A d \in Flushers : OpenLease(d)'
  BY <1>1, <1>3, <1>4, LeaseMoves DEF LockInv
<1>6. LockKept'
  BY <1>1, <1>3, LockMoves DEF LockInv
<1> QED BY <1>5, <1>6 DEF LockInv

(* A phase that is passed with the lock still held is not the one that     *)
(* gives it back.                                                          *)
LEMMA AdvanceLock ==
  ASSUME IInv, LockInv, NEW w \in Flushers, Advance(w)
  PROVE  LockInv'
<1> DEFINE e == flush[w].event
           n == flush[w].step
<1>1. PICK s \in Flush :
        /\ Set(w, s) /\ SameLease(flush[w], s) /\ flush[w].phase = "working"
        /\ s.step \in {n, n + 1}
  BY Stepping
<1>2. /\ UNCHANGED <<now, row, retired>> /\ belated \subseteq belated'
      /\ lock' = IF NextKind(w) = "unlock" /\ lock = e THEN Unlocked ELSE lock
  BY DEF Advance, Spend, NextKind
<1>3. e \in Events /\ n \in Nat /\ n < Len(Phases[e]) /\ Len(Phases[e]) \in Nat
  BY KindType
<1>4. \A d \in Flushers : OpenLease(d)'
  BY <1>1, <1>2, <1>3, LeaseMoves DEF LockInv, Owning
<1>5. CASE NextKind(w) # "unlock"
  <2>1. Releases(e, n) => Releases(e, s.step)
    <3>1. Phases[e][n + 1] # "unlock"
      BY <1>5 DEF NextKind
    <3> HIDE DEF e, n
    <3> QED BY <1>1, <1>3, <3>1 DEF Releases
  <2>2. LockKept'
    BY <1>1, <1>2, <1>5, <2>1, LockMoves DEF LockInv, Owning
  <2> QED BY <1>4, <2>2 DEF LockInv
<1>6. CASE NextKind(w) = "unlock"
  <2>1. lock' # e
    BY <1>2, <1>3, <1>6, EventAssumption
  <2>2. flush'[w] = s /\ \A d \in Flushers : d # w => flush'[d] = flush[d]
    BY <1>1, SetType
  <2> SUFFICES ASSUME NEW f \in Events, lock' = f, f \notin belated', Episode[f] \notin retired
               PROVE  /\ row[f].status = "pending" /\ Releases(f, row[f].step)
                      /\ \A d \in Flushers :
                           flush'[d].phase \in Owning /\ flush'[d].event = f /\ row[f].holder = d =>
                             Releases(f, flush'[d].step)
    BY <1>2, <1>4 DEF LockInv, LockKept, Releases
  <2>3. lock = f /\ f \notin belated /\ f # e
    BY <1>2, <2>1, EventAssumption
  <2>4. s.event # f
    BY <1>1, <2>3 DEF SameLease
  <2>5. /\ row[f].status = "pending" /\ Releases(f, row[f].step)
        /\ \A d \in Flushers :
             flush[d].phase \in Owning /\ flush[d].event = f /\ row[f].holder = d => Releases(f, flush[d].step)
    BY <2>3 DEF LockInv, LockKept
  <2> QED BY <2>2, <2>4, <2>5
<1> QED BY <1>5, <1>6

(* The lock is taken by the holder of the event, unless the statement is   *)
(* belated, and its work gives it back later.                              *)
LEMMA TakeLockLock ==
  ASSUME IInv, LockInv, NEW w \in Flushers, TakeLock(w)
  PROVE  LockInv'
<1> DEFINE e == flush[w].event
           n == flush[w].step
<1>1. PICK s \in Flush :
        Set(w, s) /\ SameLease(flush[w], s) /\ flush[w].phase = "working" /\ s.step = n
  BY Locking
<1>2. /\ UNCHANGED <<now, row, retired>> /\ lock' \in {lock, e}
      /\ belated' = IF flush[w].until <= now THEN belated \cup {e} ELSE belated
      /\ n < Len(Phases[e]) /\ Phases[e][n + 1] = "locked"
  BY DEF TakeLock, Spend, Working
<1>3. e \in Events /\ row[e] \in Row /\ n \in Nat /\ flush[w].until \in Int /\ row[e].step \in Nat /\ now \in Nat
      /\ Len(Phases[e]) \in Nat
  BY <1>1, OwnerFacts, FlushFacts DEF Owning
<1>4. \A d \in Flushers : OpenLease(d)'
  BY <1>1, <1>2, <1>3, LeaseMoves DEF LockInv, Owning
<1>5. CASE lock' = lock
  <2>1. LockKept'
    BY <1>1, <1>2, <1>5, LockMoves DEF LockInv, Owning
  <2> QED BY <1>4, <2>1 DEF LockInv
<1>6. CASE lock' = e
  <2>1. flush'[w] = s /\ \A d \in Flushers : d # w => flush'[d] = flush[d]
    BY <1>1, SetType
  <2> SUFFICES ASSUME e \notin belated', Episode[e] \notin retired
               PROVE  /\ row[e].status = "pending" /\ Releases(e, row[e].step)
                      /\ \A d \in Flushers :
                           flush'[d].phase \in Owning /\ flush'[d].event = e /\ row[e].holder = d =>
                             Releases(e, flush'[d].step)
    BY <1>2, <1>4, <1>6 DEF LockInv, LockKept, Releases
  <2>2. now < flush[w].until
    BY <1>2, <1>3
  <2>3. row[e].status = "pending" /\ row[e].holder = w /\ row[e].step <= n
    BY <1>1, <2>2 DEF LockInv, OpenLease, Owning
  <2>4. Releases(e, n)
    <3>1. n + 1 \in DOMAIN Phases[e]
      BY <1>2, <1>3, EventAssumption
    <3>2. PICK j \in DOMAIN Phases[e] : j > n + 1 /\ Phases[e][j] = "unlock"
      BY <1>2, <1>3, <3>1, LockAssumption
    <3>3. j \in n + 2 .. Len(Phases[e]) /\ Phases[e][j] = "unlock"
      <4>1. j \in 1 .. Len(Phases[e])
        BY <1>3, EventAssumption
      <4> HIDE DEF e, n
      <4> QED BY <1>3, <3>2, <4>1
    <3> HIDE DEF e, n
    <3> QED BY <1>3, <3>3 DEF Releases
  <2>5. Releases(e, row[e].step)
    BY <1>3, <2>3, <2>4, ReleasesEarlier
  <2> QED BY <1>1, <2>1, <2>3, <2>4, <2>5
<1> QED BY <1>2, <1>5, <1>6

(* A claim leaves no lease of another flush alive.                         *)
LEMMA ClaimLock ==
  ASSUME IInv, LockInv, NEW w \in Flushers, Claim(w)
  PROVE  LockInv'
<1> DEFINE e == flush[w].event
           t == flush[w].clock
<1>1. UNCHANGED <<now, lock, retired, belated>> /\ flush[w].phase \notin Owning
  BY DEF Claim, Owning
<1>2. CASE Set(w, Idle) /\ UNCHANGED row
  <2>1. Idle \in Flush /\ Idle.phase \notin Owning
    BY EmptyTypes DEF Idle, Owning
  <2>2. (\A d \in Flushers : OpenLease(d)') /\ LockKept'
    BY <1>1, <1>2, <2>1, LeaseMoves, LockMoves DEF LockInv
  <2> QED BY <2>2 DEF LockInv
<1>3. CASE \E s \in Flush, r \in Row :
             /\ Claimable(e, t) /\ Set(w, s) /\ s.event = e /\ s.until = t + LeaseTicks /\ s.step = row[e].step
             /\ row' = [row EXCEPT ![e] = r]
             /\ r.holder = w /\ r.until = t + LeaseTicks /\ r.step = row[e].step /\ r.status = row[e].status
  <2>1. PICK s \in Flush, r \in Row :
          /\ Set(w, s) /\ s.event = e /\ s.until = t + LeaseTicks /\ s.step = row[e].step
          /\ row' = [row EXCEPT ![e] = r]
          /\ r.holder = w /\ r.until = t + LeaseTicks /\ r.step = row[e].step /\ r.status = row[e].status
    BY <1>3
  <2>2. flush'[w] = s /\ \A d \in Flushers : d # w => flush'[d] = flush[d]
    BY <2>1, SetType
  <2>3. e \in Events /\ t \in Nat /\ t <= now /\ now \in Nat /\ row[e] \in Row
    BY Claiming, FlushFacts
  <2>4. row'[e] = r /\ \A f \in Events : f # e => row'[f] = row[f]
    BY <2>1, <2>3 DEF IInv, TypeOK
  <2>5. row[e].status = "pending" /\ (row[e].holder = NoFlusher \/ row[e].until <= t)
    BY <1>3 DEF Claimable
  <2>6. row[e].step \in Nat /\ row[e].until \in Int
    BY <2>3 DEF Row
  <2>7. ASSUME NEW d \in Flushers PROVE OpenLease(d)'
    <3>1. CASE d = w
      <4>1. s.step <= s.step /\ r.step <= s.step
        BY <2>1, <2>6
      <4> HIDE DEF e, t
      <4> QED BY <1>1, <2>1, <2>2, <2>4, <2>5, <3>1, <4>1 DEF OpenLease
    <3>2. CASE d # w /\ flush[d].phase \in Owning /\ flush[d].event = e /\ Episode[e] \notin retired
      <4>1. flush'[d] = flush[d] /\ OpenLease(d) /\ flush[d].until \in Int
        BY <2>2, <3>2, OwnerFacts DEF LockInv
      <4>2. row'[e].holder # d
        BY <2>1, <2>4, <3>2
      <4>3. ~(now < flush[d].until)
        <5> SUFFICES ASSUME now < flush[d].until PROVE FALSE
          OBVIOUS
        <5>1. row[e].holder = d /\ row[e].until = flush[d].until
          BY <3>2, <4>1 DEF OpenLease
        <5>2. row[e].until <= t
          BY <2>5, <5>1, EventAssumption
        <5> HIDE DEF e, t
        <5> QED BY <2>3, <2>6, <4>1, <5>1, <5>2
      <4> QED BY <1>1, <3>2, <4>1, <4>2, <4>3 DEF OpenLease
    <3>3. CASE d # w /\ ~(flush[d].phase \in Owning /\ flush[d].event = e /\ Episode[e] \notin retired)
      <4>1. flush'[d] = flush[d] /\ OpenLease(d) /\ (flush[d].phase \in Owning => flush[d].event \in Events)
        BY <2>2, <3>3, OwnerFacts DEF LockInv
      <4> HIDE DEF e
      <4> QED BY <1>1, <2>4, <3>3, <4>1 DEF OpenLease
    <3> QED BY <3>1, <3>2, <3>3
  <2>8. LockKept'
    <3> SUFFICES ASSUME NEW f \in Events, lock = f, f \notin belated, Episode[f] \notin retired
                 PROVE  /\ row'[f].status = "pending" /\ Releases(f, row'[f].step)
                        /\ \A d \in Flushers :
                             flush'[d].phase \in Owning /\ flush'[d].event = f /\ row'[f].holder = d =>
                               Releases(f, flush'[d].step)
      BY <1>1 DEF LockKept, Releases
    <3>1. /\ row[f].status = "pending" /\ Releases(f, row[f].step)
          /\ \A d \in Flushers :
               flush[d].phase \in Owning /\ flush[d].event = f /\ row[f].holder = d => Releases(f, flush[d].step)
      BY DEF LockInv, LockKept
    <3> HIDE DEF e
    <3>2. CASE f = e
      BY <2>1, <2>2, <2>4, <3>1, <3>2
    <3>3. CASE f # e
      BY <2>1, <2>2, <2>4, <3>1, <3>3
    <3> QED BY <3>2, <3>3
  <2> QED BY <2>7, <2>8 DEF LockInv
<1>4. \/ Set(w, Idle) /\ UNCHANGED row
      \/ \E s \in Flush, r \in Row :
           /\ Claimable(e, t) /\ Set(w, s) /\ s.event = e /\ s.until = t + LeaseTicks /\ s.step = row[e].step
           /\ row' = [row EXCEPT ![e] = r]
           /\ r.holder = w /\ r.until = t + LeaseTicks /\ r.step = row[e].step /\ r.status = row[e].status
  BY Claiming
<1> QED BY <1>2, <1>3, <1>4

(* The holder of an event saves its cursor: the lock is given back after   *)
(* it, as it was before.                                                   *)
LEMMA SaveProgressLock ==
  ASSUME IInv, LockInv, NEW w \in Flushers, SaveProgress(w)
  PROVE  LockInv'
<1> DEFINE e == flush[w].event
           n == flush[w].step
<1>1. UNCHANGED <<now, lock, retired, belated>> /\ flush[w].phase \in Owning /\ e \in Events /\ row[e] \in Row
  BY Saving DEF SaveProgress, Owning
<1>2. CASE Set(w, Idle) /\ row' = row
  <2>1. Idle \in Flush /\ Idle.phase \notin Owning
    BY EmptyTypes DEF Idle, Owning
  <2>2. (\A d \in Flushers : OpenLease(d)') /\ LockKept'
    BY <1>1, <1>2, <2>1, LeaseMoves, LockMoves DEF LockInv
  <2> QED BY <2>2 DEF LockInv
<1>3. CASE \E s \in Flush, r \in Row, t \in Readings(w) :
             /\ Holds(w, e, t) /\ Set(w, s) /\ SameLease(flush[w], s) /\ s.step = n
             /\ row' = [row EXCEPT ![e] = r] /\ r.step = n /\ r.status = row[e].status
             /\ r.holder = row[e].holder /\ r.until = row[e].until
  <2>1. PICK s \in Flush, r \in Row, t \in Readings(w) :
          /\ Holds(w, e, t) /\ Set(w, s) /\ SameLease(flush[w], s) /\ s.step = n
          /\ row' = [row EXCEPT ![e] = r] /\ r.step = n /\ r.status = row[e].status
          /\ r.holder = row[e].holder /\ r.until = row[e].until
    BY <1>3
  <2>2. flush'[w] = s /\ \A d \in Flushers : d # w => flush'[d] = flush[d]
    BY <2>1, SetType
  <2>3. row'[e] = r /\ \A f \in Events : f # e => row'[f] = row[f]
    BY <1>1, <2>1 DEF IInv, TypeOK
  <2>4. row[e].holder = w /\ s.event = e /\ s.until = flush[w].until /\ n \in Nat
    BY <1>1, <2>1, OwnerFacts DEF Holds, SameLease
  <2>5. ASSUME NEW d \in Flushers PROVE OpenLease(d)'
    <3>1. OpenLease(d) /\ (flush[d].phase \in Owning => flush[d].event \in Events)
      BY OwnerFacts DEF LockInv
    <3>2. CASE d = w
      <4>1. OpenLease(w) /\ n <= n
        BY <2>4 DEF LockInv
      <4>2. Episode[e] \notin retired => r.until = s.until /\ (now < s.until => r.status = "pending")
        BY <1>1, <2>1, <2>4, <4>1 DEF OpenLease
      <4> HIDE DEF e, n
      <4> QED BY <1>1, <2>1, <2>2, <2>3, <2>4, <3>2, <4>1, <4>2 DEF OpenLease
    <3>3. CASE d # w
      <4> HIDE DEF e, n
      <4> QED BY <1>1, <2>1, <2>2, <2>3, <2>4, <3>1, <3>3 DEF OpenLease
    <3> QED BY <3>2, <3>3
  <2>6. LockKept'
    <3> SUFFICES ASSUME NEW f \in Events, lock = f, f \notin belated, Episode[f] \notin retired
                 PROVE  /\ row'[f].status = "pending" /\ Releases(f, row'[f].step)
                        /\ \A d \in Flushers :
                             flush'[d].phase \in Owning /\ flush'[d].event = f /\ row'[f].holder = d =>
                               Releases(f, flush'[d].step)
      BY <1>1 DEF LockKept, Releases
    <3>1. /\ row[f].status = "pending" /\ Releases(f, row[f].step)
          /\ \A d \in Flushers :
               flush[d].phase \in Owning /\ flush[d].event = f /\ row[f].holder = d => Releases(f, flush[d].step)
      BY DEF LockInv, LockKept
    <3>2. f = e => Releases(f, n)
      BY <1>1, <2>4, <3>1
    <3>3. CASE f = e
      <4> HIDE DEF e, n
      <4> QED BY <2>1, <2>2, <2>3, <2>4, <3>1, <3>2, <3>3
    <3>4. CASE f # e
      <4> HIDE DEF e, n
      <4> QED BY <2>1, <2>2, <2>3, <2>4, <3>1, <3>4
    <3> QED BY <3>3, <3>4
  <2> QED BY <2>5, <2>6 DEF LockInv
<1>4. \/ Set(w, Idle) /\ row' = row
      \/ \E s \in Flush, r \in Row, t \in Readings(w) :
           /\ Holds(w, e, t) /\ Set(w, s) /\ SameLease(flush[w], s) /\ s.step = n
           /\ row' = [row EXCEPT ![e] = r] /\ r.step = n /\ r.status = row[e].status
           /\ r.holder = row[e].holder /\ r.until = row[e].until
  BY Saving
<1> QED BY <1>2, <1>3, <1>4

(* A receipt is only written when the lock has been given back.            *)
LEMMA FinishLock ==
  ASSUME IInv, LockInv, NEW w \in Flushers, Finish(w)
  PROVE  LockInv'
<1> DEFINE e == flush[w].event
           n == flush[w].step
<1>1. /\ UNCHANGED <<now, lock, retired, belated>> /\ Set(w, Idle)
      /\ flush[w].phase = "finishing" /\ e \in Events /\ row[e] \in Row
  BY FlushFacts DEF Finish, Sound
<1>2. Idle \in Flush /\ Idle.phase \notin Owning
  BY EmptyTypes DEF Idle, Owning
<1>3. CASE row' = row
  <2>1. (\A d \in Flushers : OpenLease(d)') /\ LockKept'
    BY <1>1, <1>2, <1>3, LeaseMoves, LockMoves DEF LockInv
  <2> QED BY <2>1 DEF LockInv
<1>4. CASE row' # row
  <2>1. PICK t \in Readings(w) : Holds(w, e, t) /\ \E next \in Finished(w, e, t) : row' = [row EXCEPT ![e] = next]
    BY <1>4 DEF Finish
  <2>2. PICK r \in Finished(w, e, t) : row' = [row EXCEPT ![e] = r]
    BY <2>1
  <2>3. t \in Nat /\ row[e].status = "pending" /\ row[e].holder = w
    BY <2>1, ReadingType DEF Holds
  <2>4. /\ r.holder = NoFlusher
        /\ \/ r.step = row[e].step /\ r.status = "pending"
           \/ flush[w].outcome \in {"delivered", "retired"}
    BY <1>1, <2>3, FinishedType
  <2>5. flush'[w] = Idle /\ \A d \in Flushers : d # w => flush'[d] = flush[d]
    BY <1>1, <1>2, SetType
  <2>6. row'[e] = r /\ \A f \in Events : f # e => row'[f] = row[f]
    BY <1>1, <2>2 DEF IInv, TypeOK
  <2>7. ASSUME NEW d \in Flushers PROVE OpenLease(d)'
    <3>1. OpenLease(d) /\ (flush[d].phase \in Owning => flush[d].event \in Events)
      BY OwnerFacts DEF LockInv
    <3>2. CASE d = w
      BY <1>2, <2>5, <3>2 DEF OpenLease
    <3>3. CASE d # w
      <4>1. NoFlusher # d
        BY EventAssumption
      <4> HIDE DEF e, n
      <4> QED BY <1>1, <2>3, <2>4, <2>5, <2>6, <3>1, <3>3, <4>1 DEF OpenLease
    <3> QED BY <3>2, <3>3
  <2>8. LockKept'
    <3> SUFFICES ASSUME NEW f \in Events, lock = f, f \notin belated, Episode[f] \notin retired
                 PROVE  /\ row'[f].status = "pending" /\ Releases(f, row'[f].step)
                        /\ \A d \in Flushers :
                             flush'[d].phase \in Owning /\ flush'[d].event = f /\ row'[f].holder = d =>
                               Releases(f, flush'[d].step)
      BY <1>1 DEF LockKept, Releases
    <3>1. /\ row[f].status = "pending" /\ Releases(f, row[f].step)
          /\ \A d \in Flushers :
               flush[d].phase \in Owning /\ flush[d].event = f /\ row[f].holder = d => Releases(f, flush[d].step)
      BY DEF LockInv, LockKept
    <3>2. CASE f = e
      <4>1. Releases(e, n)
        BY <1>1, <2>3, <3>1, <3>2 DEF Owning
      <4>2. Len(Phases[e]) \in Nat /\ ~Releases(e, Len(Phases[e]))
        BY <1>1, EventAssumption DEF Releases
      <4>3. flush[w].outcome \notin {"delivered", "retired"}
        <5>1. /\ flush[w].outcome = "delivered" => n = Len(Phases[e])
              /\ flush[w].outcome = "retired" => Episode[e] \in retired
          BY <1>1, FlushFacts DEF Sound
        <5> HIDE DEF n, e
        <5> QED BY <3>2, <4>1, <4>2, <5>1
      <4>4. \A d \in Flushers : d # NoFlusher
        BY EventAssumption
      <4> HIDE DEF n, e
      <4> QED BY <2>4, <2>6, <3>1, <3>2, <4>3, <4>4
    <3>3. CASE f # e
      <4> HIDE DEF n, e
      <4> QED BY <1>2, <2>5, <2>6, <3>1, <3>3
    <3> QED BY <3>2, <3>3
  <2> QED BY <2>7, <2>8 DEF LockInv
<1> QED BY <1>3, <1>4

(* A step that moves no flush: the rows of the others and of the pending   *)
(* events stay as they are, but for those of a retired episode.            *)
LEMMA RowsLock ==
  ASSUME IInv, LockInv, UNCHANGED <<lock, flush, belated>>, now \in Nat, now' \in Nat, now <= now',
         retired \subseteq retired',
         \A e \in Events :
           \/ Episode[e] \in retired'
           \/ /\ row'[e].status = row[e].status /\ row'[e].step = row[e].step
              /\ row'[e].holder = row[e].holder /\ row'[e].until = row[e].until
           \/ row[e].status # "pending" /\ row'[e].holder = NoFlusher
  PROVE  LockInv'
<1>1. \A d \in Flushers : d # NoFlusher
  BY EventAssumption
<1>2. ASSUME NEW d \in Flushers PROVE OpenLease(d)'
  <2>1. OpenLease(d) /\ (flush[d].phase \in Owning => flush[d].event \in Events /\ flush[d].until \in Int)
    BY OwnerFacts DEF LockInv
  <2> QED BY <1>1, <2>1 DEF OpenLease
<1>3. LockKept'
  <2> SUFFICES ASSUME NEW f \in Events, lock = f, f \notin belated, Episode[f] \notin retired'
               PROVE  /\ row'[f].status = "pending" /\ Releases(f, row'[f].step)
                      /\ \A d \in Flushers :
                           flush[d].phase \in Owning /\ flush[d].event = f /\ row'[f].holder = d =>
                             Releases(f, flush[d].step)
    BY DEF LockKept, Releases
  <2>1. /\ row[f].status = "pending" /\ Releases(f, row[f].step)
        /\ \A d \in Flushers :
             flush[d].phase \in Owning /\ flush[d].event = f /\ row[f].holder = d => Releases(f, flush[d].step)
    BY DEF LockInv, LockKept
  <2> QED BY <2>1
<1> QED BY <1>2, <1>3 DEF LockInv

LEMMA OutsideLock ==
  ASSUME IInv, LockInv,
         \/ Tick \/ CleanupCheck \/ UNCHANGED vars
         \/ \E e \in Events : Promote(e) \/ Archived(e) \/ DropRetired(e) \/ \E live \in SubmittedLive(e) : Enqueue(e, live)
         \/ \E p \in Episodes : Retire(p) \/ Cleanup(p)
  PROVE  LockInv'
<1>1. /\ UNCHANGED <<lock, flush, belated>> /\ now \in Nat /\ now' \in Nat /\ now <= now'
      /\ retired \subseteq retired'
  <2>1. now \in Nat
    BY DEF IInv, TypeOK
  <2>2. UNCHANGED <<lock, flush, belated>> /\ (now' = now \/ now' = now + 1)
    BY DEF Tick, CleanupCheck, vars, Promote, Archived, DropRetired, Enqueue, Retire, Cleanup
  <2>3. retired \subseteq retired'
    BY DEF Tick, CleanupCheck, vars, Promote, Archived, DropRetired, Enqueue, Retire, Cleanup
  <2> QED BY <2>1, <2>2, <2>3
<1>2. ASSUME NEW e \in Events
      PROVE  \/ Episode[e] \in retired'
             \/ /\ row'[e].status = row[e].status /\ row'[e].step = row[e].step
                /\ row'[e].holder = row[e].holder /\ row'[e].until = row[e].until
             \/ row[e].status # "pending" /\ row'[e].holder = NoFlusher
  <2>1. row \in [Events -> Row] /\ NoRow.holder = NoFlusher
    BY DEF IInv, TypeOK, NoRow
  <2>2. CASE Tick \/ CleanupCheck \/ UNCHANGED vars \/ \E p \in Episodes : Retire(p)
    BY <2>2 DEF Tick, CleanupCheck, vars, Retire
  <2>3. CASE \E f \in Events : Promote(f)
    BY <2>1, <2>3 DEF Promote, Row
  <2>4. CASE \E f \in Events : Archived(f)
    BY <2>1, <2>4 DEF Archived, Row
  <2>5. CASE \E f \in Events : DropRetired(f)
    BY <2>1, <2>5 DEF DropRetired
  <2>6. CASE \E p \in Episodes : Cleanup(p)
    BY <2>1, <2>6 DEF Cleanup
  <2>7. CASE \E f \in Events : \E live \in SubmittedLive(f) : Enqueue(f, live)
    <3>0. PICK f \in Events : \E live \in SubmittedLive(f) : Enqueue(f, live)
      BY <2>7
    <3>1. PICK live \in SubmittedLive(f) : Enqueue(f, live)
      BY <3>0
    <3>2. PICK gone \in SUBSET Expired(now) :
            row' = [g \in Events |->
                      IF g = f THEN [NoRow EXCEPT !.status = "pending", !.next = now,
                                                  !.live = IF live THEN now + LiveTicks ELSE Never]
                      ELSE IF g \in gone THEN NoRow ELSE row[g]]
      BY <3>1 DEF Enqueue
    <3>3. \A g \in gone : row[g].status = "delivered"
      BY DEF Expired, Delivered
    <3>4. row[f].status = "absent" /\ row'[f].holder = NoFlusher
      BY <3>1, <3>2 DEF Enqueue, NoRow
    <3> QED BY <2>1, <3>2, <3>3, <3>4
  <2> QED BY <2>2, <2>3, <2>4, <2>5, <2>6, <2>7
<1> QED BY <1>1, <1>2, RowsLock

LEMMA StepLock == IInv /\ LockInv /\ [Next]_vars => LockInv'
BY FlushOnlyLock, AdvanceLock, TakeLockLock, ClaimLock, SaveProgressLock, FinishLock, OutsideLock DEF Next

LEMMA InitLock == Init => LockInv
BY EventAssumption DEF Init, LockInv, OpenLease, LockKept, Idle, Owning

(* The event that holds the structural lock keeps its pending row until    *)
(* its work has given the lock back, whatever flushes overlap, die or lose *)
(* an answer: only a retirement, or a statement that ran after its lease,  *)
(* can leave the lock with an event nobody resumes.                        *)
THEOREM LockIsGivenBack == Spec => []LockOwnerOpen
<1>1. IInv /\ LockInv => LockOwnerOpen
  BY DEF IInv, TypeOK, LockInv, LockKept, LockOwnerOpen
<1> QED BY <1>1, InitLock, StepLock, IInvAlways, PTL DEF Spec

-----------------------------------------------------------------------------
(* The ceilings of the queue.                                              *)

Known == Pending \cup Delivered
ColdOccupied == {e \in Occupied : row[e].live = Never}

CapacityInv == IsFiniteSet(Known) /\ IsFiniteSet(Occupied) /\ WithinCapacity

(* A set that only loses members keeps its ceiling.                        *)
LEMMA SmallerSet ==
  ASSUME NEW S, IsFiniteSet(S), NEW n \in Nat, Cardinality(S) <= n, NEW T \in SUBSET S
  PROVE  IsFiniteSet(T) /\ Cardinality(T) <= n
<1>1. Cardinality(S) \in Nat /\ IsFiniteSet(T) /\ Cardinality(T) \in Nat /\ Cardinality(T) <= Cardinality(S)
  BY FS_Subset, FS_CardinalityType
<1> QED BY <1>1

(* So does a set that gains one member when there is room for it.          *)
LEMMA OneMore ==
  ASSUME NEW S, IsFiniteSet(S), NEW n \in Nat, Cardinality(S) + 1 <= n, NEW x, NEW T \in SUBSET (S \cup {x})
  PROVE  IsFiniteSet(T) /\ Cardinality(T) <= n
<1>1. IsFiniteSet(S \cup {x}) /\ Cardinality(S) \in Nat
      /\ (Cardinality(S \cup {x}) = Cardinality(S) \/ Cardinality(S \cup {x}) = Cardinality(S) + 1)
  BY FS_AddElement, FS_CardinalityType
<1>2. Cardinality(S \cup {x}) <= n
  BY <1>1
<1> QED BY <1>1, <1>2, SmallerSet

LEMMA RowLimits ==
  ColdRows \in Nat /\ LiveRows \in Nat /\ MaxReceipts \in Nat /\ MaxRows \in Nat
BY UnitAssumption DEF MaxRows

(* No step but an acceptance brings a row into the queue, and none makes a *)
(* live row cold.                                                          *)
LEMMA CapacityKept ==
  ASSUME CapacityInv,
         \A e \in Events :
           /\ e \in Occupied' => e \in Occupied
           /\ e \in Known' => e \in Known
           /\ e \in Occupied' /\ row'[e].live = Never => row[e].live = Never
  PROVE  CapacityInv'
<1>1. Occupied' \in SUBSET Occupied /\ Known' \in SUBSET Known
  BY DEF Occupied, Known, Pending, Delivered
<1>2. ColdOccupied' \in SUBSET ColdOccupied
  BY <1>1 DEF ColdOccupied, Occupied
<1>3. IsFiniteSet(ColdOccupied)
  BY FS_Subset DEF CapacityInv, ColdOccupied
<1>4. /\ Cardinality(Occupied) <= MaxRows /\ Cardinality(ColdOccupied) <= ColdRows
      /\ Cardinality(Known) <= MaxReceipts
  BY DEF CapacityInv, WithinCapacity, ColdOccupied, Known
<1>5. /\ IsFiniteSet(Occupied)' /\ Cardinality(Occupied') <= MaxRows
      /\ IsFiniteSet(Known)' /\ Cardinality(Known') <= MaxReceipts
      /\ Cardinality(ColdOccupied') <= ColdRows
  BY <1>1, <1>2, <1>3, <1>4, SmallerSet, RowLimits DEF CapacityInv
<1> QED BY <1>5 DEF CapacityInv, WithinCapacity, ColdOccupied, Known, MaxRows

LEMMA EnqueueCapacity ==
  ASSUME IInv, CapacityInv, NEW e \in Events, NEW live \in BOOLEAN, Enqueue(e, live)
  PROVE  CapacityInv'
<1> DEFINE until == IF live THEN now + LiveTicks ELSE Never
           r == Accepted(now, until)
<1>1. PICK gone \in SUBSET Expired(now) :
        /\ Room(~live, gone)
        /\ row' = [f \in Events |-> IF f = e THEN r ELSE IF f \in gone THEN NoRow ELSE row[f]]
  BY DEF Enqueue, Accepted
<1>2. now \in Nat /\ LiveTicks \in Nat
  BY FlushFacts, UnitTypes DEF IInv, TypeOK
<1>3. live => until # Never
  BY <1>2 DEF Never
<1>4. r.live = until /\ NoRow.status = "absent" /\ NoRow.archive = FALSE
  <2> HIDE DEF until
  <2> QED BY DEF Accepted, NoRow
<1> HIDE DEF r
<1>5. /\ Occupied' \in SUBSET ((Occupied \ gone) \cup {e})
      /\ Known' \in SUBSET ((Known \ gone) \cup {e})
  BY <1>1, <1>4 DEF Occupied, Known, Pending, Delivered
<1>6. /\ IsFiniteSet(Occupied \ gone) /\ IsFiniteSet(Known \ gone)
      /\ Cardinality(Occupied \ gone) \in Nat
  BY FS_Subset, FS_CardinalityType DEF CapacityInv
<1>7. /\ Cardinality(Occupied \ gone) + 1 <= IF live THEN MaxRows ELSE Min({ColdRows, MaxRows})
      /\ Cardinality(Known \ gone) + 1 <= MaxReceipts
  BY <1>1 DEF Room, Known
<1>8. Min({ColdRows, MaxRows}) <= ColdRows /\ Min({ColdRows, MaxRows}) <= MaxRows /\ Min({ColdRows, MaxRows}) \in Nat
  BY RowLimits, MinOfTwo
<1>9. /\ Cardinality(Occupied \ gone) + 1 <= MaxRows
      /\ ~live => Cardinality(Occupied \ gone) + 1 <= ColdRows
  BY <1>6, <1>7, <1>8, RowLimits
<1>10. /\ IsFiniteSet(Occupied)' /\ Cardinality(Occupied') <= MaxRows
       /\ IsFiniteSet(Known)' /\ Cardinality(Known') <= MaxReceipts
  BY <1>5, <1>6, <1>7, <1>9, OneMore, RowLimits
<1>11. Cardinality(ColdOccupied') <= ColdRows
  <2>1. CASE live
    <3>1. ColdOccupied' \in SUBSET ColdOccupied
      BY <1>1, <1>3, <1>4, <1>5, <2>1 DEF ColdOccupied, Occupied
    <3>2. IsFiniteSet(ColdOccupied) /\ Cardinality(ColdOccupied) <= ColdRows
      BY FS_Subset DEF CapacityInv, WithinCapacity, ColdOccupied
    <3> QED BY <3>1, <3>2, SmallerSet, RowLimits
  <2>2. CASE ~live
    <3>1. ColdOccupied' \in SUBSET ((Occupied \ gone) \cup {e})
      BY <1>5 DEF ColdOccupied
    <3> QED BY <1>6, <1>9, <2>2, <3>1, OneMore, RowLimits
  <2> QED BY <2>1, <2>2
<1> QED BY <1>10, <1>11 DEF CapacityInv, WithinCapacity, ColdOccupied, Known, MaxRows

LEMMA FlushCapacity ==
  ASSUME IInv, CapacityInv, NEW w \in Flushers,
         \/ Select(w) \/ Claim(w) \/ CheckRetirement(w) \/ FencedWrite(w) \/ TakeLock(w) \/ Advance(w)
         \/ Stop(w) \/ SaveProgress(w) \/ Finish(w) \/ Die(w)
  PROVE  CapacityInv'
<1>1. CASE \A e \in Events :
             \/ row'[e] = row[e]
             \/ row'[e].status = row[e].status /\ row'[e].archive = row[e].archive /\ row'[e].live = row[e].live
             \/ row[e].status = "pending" /\ row'[e].live = row[e].live
  BY <1>1, CapacityKept DEF Occupied, Known, Pending, Delivered
<1>2. CASE Select(w) \/ CheckRetirement(w) \/ FencedWrite(w) \/ TakeLock(w) \/ Advance(w) \/ Stop(w) \/ Die(w)
  BY <1>1, <1>2 DEF Select, CheckRetirement, FencedWrite, TakeLock, Advance, Stop, Die
<1>3. CASE Claim(w)
  <2>1. \A e \in Events :
          row'[e].status = row[e].status /\ row'[e].archive = row[e].archive /\ row'[e].live = row[e].live
    <3> DEFINE e == flush[w].event
    <3>1. \/ row' = row
          \/ \E r \in Row :
               /\ row' = [row EXCEPT ![e] = r]
               /\ r.status = row[e].status /\ r.archive = row[e].archive /\ r.live = row[e].live
      BY <1>3, Claiming
    <3> HIDE DEF e
    <3> QED BY <3>1 DEF IInv, TypeOK
  <2> QED BY <1>1, <2>1
<1>4. CASE SaveProgress(w)
  <2>1. \A e \in Events :
          row'[e].status = row[e].status /\ row'[e].archive = row[e].archive /\ row'[e].live = row[e].live
    BY <1>4, Saving DEF IInv, TypeOK
  <2> QED BY <1>1, <2>1
<1>5. CASE Finish(w)
  <2>1. CASE row' = row
    BY <1>1, <2>1
  <2>2. CASE row' # row
    <3> DEFINE e == flush[w].event
    <3>1. PICK t \in Readings(w) : Holds(w, e, t) /\ \E next \in Finished(w, e, t) : row' = [row EXCEPT ![e] = next]
      BY <1>5, <2>2 DEF Finish
    <3>2. PICK r \in Finished(w, e, t) : row' = [row EXCEPT ![e] = r]
      BY <3>1
    <3>3. t \in Nat /\ row[e].status = "pending" /\ flush[w].phase = "finishing"
      BY <1>5, <3>1, ReadingType DEF Holds, Finish
    <3>4. r.live = row[e].live
      BY <3>3, FinishedType
    <3> HIDE DEF e
    <3> QED BY <1>1, <3>2, <3>3, <3>4 DEF IInv, TypeOK
  <2> QED BY <2>1, <2>2
<1> QED BY <1>2, <1>3, <1>4, <1>5

(* A promoted row is not cold any more.                                    *)
LEMMA PromoteCapacity ==
  ASSUME IInv, CapacityInv, NEW e \in Events, Promote(e)
  PROVE  CapacityInv'
<1> DEFINE a == row[e].live
           b == now + LiveTicks
           n == Max({a, b})
           r == [row[e] EXCEPT !.live = n]
<1>1. row[e] \in Row /\ now \in Nat /\ LiveTicks \in Nat
  BY UnitTypes DEF IInv, TypeOK
<1>2. n # Never
  <2>1. a \in Int /\ b \in Nat
    BY <1>1 DEF Row
  <2>2. n \in {a, b} /\ b <= n
    <3>1. a \in Int /\ b \in Int
      BY <2>1
    <3> HIDE DEF a, b
    <3> QED BY <3>1, MaxOfTwo
  <2> HIDE DEF a, b, n
  <2> QED BY <2>1, <2>2 DEF Never
<1>3. row' = [row EXCEPT ![e] = r]
  BY DEF Promote
<1>4. r.status = row[e].status /\ r.archive = row[e].archive /\ r.live = n
  <2> HIDE DEF n
  <2> QED BY <1>1 DEF Row
<1> HIDE DEF r, n
<1>5. row'[e] = r /\ \A f \in Events : f # e => row'[f] = row[f]
  BY <1>3 DEF IInv, TypeOK
<1> QED BY <1>2, <1>4, <1>5, CapacityKept DEF Occupied, Known, Pending, Delivered

LEMMA OutsideCapacity ==
  ASSUME IInv, CapacityInv,
         \/ Tick \/ CleanupCheck \/ UNCHANGED vars
         \/ \E e \in Events : Archived(e) \/ DropRetired(e)
         \/ \E p \in Episodes : Retire(p) \/ Cleanup(p)
  PROVE  CapacityInv'
<1>1. row \in [Events -> Row] /\ NoRow.status = "absent" /\ NoRow.archive = FALSE
  BY DEF IInv, TypeOK, NoRow
<1>2. CASE Tick \/ CleanupCheck \/ UNCHANGED vars \/ \E p \in Episodes : Retire(p)
  <2>1. row' = row
    BY <1>2 DEF Tick, CleanupCheck, vars, Retire
  <2> QED BY <2>1, CapacityKept DEF Occupied, Known, Pending, Delivered
<1>3. CASE \E e \in Events : Archived(e)
  <2>1. PICK e \in Events : Archived(e)
    BY <1>3
  <2>2. \A f \in Events :
          row'[f].status = row[f].status /\ (row'[f].archive => row[f].archive) /\ row'[f].live = row[f].live
    BY <1>1, <2>1 DEF Archived, Row
  <2> QED BY <2>2, CapacityKept DEF Occupied, Known, Pending, Delivered
<1>4. CASE (\E e \in Events : DropRetired(e)) \/ \E p \in Episodes : Cleanup(p)
  <2>1. \A f \in Events : row'[f] = row[f] \/ row'[f] = NoRow
    BY <1>1, <1>4 DEF DropRetired, Cleanup
  <2> QED BY <1>1, <2>1, CapacityKept DEF Occupied, Known, Pending, Delivered
<1> QED BY <1>2, <1>3, <1>4

LEMMA StepCapacity == IInv /\ CapacityInv /\ [Next]_vars => CapacityInv'
<1> SUFFICES ASSUME IInv, CapacityInv, [Next]_vars PROVE CapacityInv'
  OBVIOUS
<1>1. \A e \in Events : SubmittedLive(e) \subseteq BOOLEAN
  BY DEF SubmittedLive
<1> QED BY <1>1, FlushCapacity, PromoteCapacity, EnqueueCapacity, OutsideCapacity DEF Next

LEMMA InitCapacity == Init => CapacityInv
<1> SUFFICES ASSUME Init PROVE CapacityInv
  OBVIOUS
<1>1. Occupied = {} /\ Known = {} /\ {e \in Occupied : row[e].live = Never} = {}
  BY DEF Init, Occupied, Known, Pending, Delivered, NoRow
<1>2. IsFiniteSet({}) /\ Cardinality({}) = 0
  BY FS_EmptySet
<1> QED BY <1>1, <1>2, RowLimits DEF CapacityInv, WithinCapacity, Known

(* The queue never holds more rows, cold rows or receipts than its         *)
(* ceilings, although rows that are delivered keep their place until their *)
(* archive copy is made, and cold rows become live: the insertion triggers *)
(* count every kind of row that an event can turn into.                    *)
THEOREM QueueCapacity == Spec => []WithinCapacity
<1>1. CapacityInv => WithinCapacity
  BY DEF CapacityInv
<1> QED BY <1>1, InitCapacity, StepCapacity, IInvAlways, PTL DEF Spec

-----------------------------------------------------------------------------
(* The allowance of a day.                                                 *)

(* The total of x over sets of flushes, given by what a total does: it is  *)
(* nothing for no flush, and every further flush adds its share.           *)
Additive(m, x) ==
  /\ m \in [SUBSET Flushers -> Nat]
  /\ m[{}] = 0
  /\ \A T \in SUBSET Flushers : \A w \in Flushers \ T : m[T \cup {w}] = m[T] + x[w]

(* The total of nothing.                                                   *)
LEMMA AdditiveNothing ==
  ASSUME NEW x, \A w \in Flushers : x[w] = 0
  PROVE  \E m : Additive(m, x) /\ m[Flushers] = 0
<1> DEFINE m == [T \in SUBSET Flushers |-> 0]
<1>1. Additive(m, x) /\ m[Flushers] = 0
  BY DEF Additive
<1> QED BY <1>1

(* The total after one share has changed.                                  *)
LEMMA AdditiveUpdate ==
  ASSUME NEW m, NEW x, Additive(m, x), \A v \in Flushers : x[v] \in Nat,
         NEW w \in Flushers, NEW y, y[w] \in Nat,
         \A v \in Flushers : v # w => y[v] = x[v]
  PROVE  \E n : Additive(n, y) /\ n[Flushers] + x[w] = m[Flushers] + y[w]
<1> DEFINE n == [T \in SUBSET Flushers |-> IF w \in T THEN m[T \ {w}] + y[w] ELSE m[T]]
<1>1. n \in [SUBSET Flushers -> Nat]
  <2>1. \A T \in SUBSET Flushers : T \ {w} \in SUBSET Flushers
    OBVIOUS
  <2>2. \A T \in SUBSET Flushers : m[T] \in Nat /\ m[T \ {w}] \in Nat
    BY <2>1 DEF Additive
  <2>3. \A T \in SUBSET Flushers : (IF w \in T THEN m[T \ {w}] + y[w] ELSE m[T]) \in Nat
    BY <2>2
  <2> QED BY <2>3
<1>2. n[{}] = 0
  BY DEF Additive
<1>3. ASSUME NEW T \in SUBSET Flushers, NEW v \in Flushers \ T
      PROVE  n[T \cup {v}] = n[T] + y[v]
  <2>1. T \cup {v} \in SUBSET Flushers
    OBVIOUS
  <2>2. CASE v = w
    <3>1. (T \cup {v}) \ {w} = T /\ w \in T \cup {v} /\ w \notin T
      BY <2>2
    <3> QED BY <2>1, <2>2, <3>1
  <2>3. CASE v # w /\ w \in T
    <3>1. (T \cup {v}) \ {w} = (T \ {w}) \cup {v} /\ v \in Flushers \ (T \ {w}) /\ T \ {w} \in SUBSET Flushers
      BY <2>3
    <3>2. m[(T \ {w}) \cup {v}] = m[T \ {w}] + x[v] /\ m[T \ {w}] \in Nat /\ m[(T \ {w}) \cup {v}] \in Nat
      <4>1. (T \ {w}) \cup {v} \in SUBSET Flushers
        OBVIOUS
      <4> QED BY <3>1, <4>1 DEF Additive
    <3>3. y[v] = x[v]
      BY <2>3
    <3>4. n[T \cup {v}] = m[(T \ {w}) \cup {v}] + y[w] /\ n[T] = m[T \ {w}] + y[w]
      BY <2>1, <2>3, <3>1
    <3>5. x[v] \in Nat /\ y[v] \in Nat
      BY <2>3
    <3> HIDE DEF n
    <3> QED BY <3>2, <3>3, <3>4, <3>5
  <2>4. CASE v # w /\ w \notin T
    <3>1. n[T \cup {v}] = m[T \cup {v}] /\ n[T] = m[T] /\ y[v] = x[v]
      BY <2>1, <2>4
    <3> QED BY <3>1 DEF Additive
  <2> QED BY <2>2, <2>3, <2>4
<1>4. n[Flushers] + x[w] = m[Flushers] + y[w]
  <2>1. Flushers \ {w} \in SUBSET Flushers /\ w \in Flushers \ (Flushers \ {w}) /\ (Flushers \ {w}) \cup {w} = Flushers
    OBVIOUS
  <2>2. m[Flushers] = m[Flushers \ {w}] + x[w] /\ m[Flushers \ {w}] \in Nat
    BY <2>1 DEF Additive
  <2>3. n[Flushers] = m[Flushers \ {w}] + y[w]
    OBVIOUS
  <2> QED BY <2>2, <2>3
<1>5. Additive(n, y)
  BY <1>1, <1>2, <1>3 DEF Additive
<1> QED BY <1>4, <1>5

(* What a flush may still send on a day for a class of its reservation.    *)
LeftOf(f, d, c) ==
  IF f.phase \in Owning /\ f.day = d /\ f.live = (c = "live") THEN f.reserved - f.used ELSE 0
Left(d, c) == [w \in Flushers |-> LeftOf(flush[w], d, c)]

(* What the counter of a day has been charged in all.                      *)
Charged(d) == IF hist.day = d THEN (openings[d] - 1) * Budget + hist.writes ELSE openings[d] * Budget

(* What has been sent on a day, and what its flushes may still send, never *)
(* exceeds what its counter was charged: a refund gives back only what can *)
(* no longer be sent.                                                      *)
DayWithin(d) ==
  /\ hist.day = d => openings[d] >= 1
  /\ \E live, cold :
       /\ Additive(live, Left(d, "live")) /\ Additive(cold, Left(d, "cold"))
       /\ spent[d]["live"] + live[Flushers] + spent[d]["cold"] + cold[Flushers] <= Charged(d)
       /\ openings[d] <= 1 => spent[d]["cold"] + cold[Flushers] <= Budget - LiveUnits

BudgetInv ==
  /\ hist.writes <= Budget
  /\ \A d \in Days : DayWithin(d)

LeftIsNat == \A w \in Flushers, d \in Days, c \in Classes : LeftOf(flush[w], d, c) \in Nat

LEMMA LeftType == IInv => LeftIsNat
<1> SUFFICES ASSUME IInv, NEW w \in Flushers, NEW d \in Days, NEW c \in Classes
             PROVE  LeftOf(flush[w], d, c) \in Nat
  BY DEF LeftIsNat
<1>1. flush[w].phase \in Owning => flush[w].reserved - flush[w].used \in Nat
  BY FlushFacts DEF Sound, Flush
<1> QED BY <1>1 DEF LeftOf

LEMMA BudgetTypes ==
  ASSUME IInv, NEW d \in Days
  PROVE  /\ spent[d]["live"] \in Nat /\ spent[d]["cold"] \in Nat /\ openings[d] \in Nat
         /\ hist.writes \in Nat /\ Budget \in Nat /\ LiveUnits \in Nat /\ Charged(d) \in Int
<1>1. /\ spent[d]["live"] \in Nat /\ spent[d]["cold"] \in Nat /\ openings[d] \in Nat
      /\ hist.writes \in Nat /\ Budget \in Nat /\ LiveUnits \in Nat
  BY UnitTypes DEF IInv, TypeOK, Classes
<1>2. Charged(d) \in Int
  <2>1. (openings[d] - 1) * Budget \in Int /\ openings[d] * Budget \in Int
    BY <1>1
  <2> QED BY <1>1, <2>1 DEF Charged
<1> QED BY <1>1, <1>2

(* The totals of a day and a class after one flush has moved.              *)
LEMMA LeftMoves ==
  ASSUME IInv, IInv', NEW w \in Flushers, \A v \in Flushers : v # w => flush'[v] = flush[v],
         NEW d \in Days, NEW c \in Classes, NEW m, Additive(m, Left(d, c))
  PROVE  \E n : /\ Additive(n, Left(d, c)') /\ n[Flushers] \in Nat /\ m[Flushers] \in Nat
                /\ n[Flushers] + LeftOf(flush[w], d, c) = m[Flushers] + LeftOf(flush'[w], d, c)
<1> DEFINE x == Left(d, c)
           y == [v \in Flushers |-> LeftOf(flush'[v], d, c)]
<1>1. \A v \in Flushers : x[v] = LeftOf(flush[v], d, c) /\ y[v] = LeftOf(flush'[v], d, c)
  BY DEF Left
<1>2. \A v \in Flushers : LeftOf(flush[v], d, c) \in Nat /\ LeftOf(flush'[v], d, c) \in Nat
  <2>1. LeftIsNat /\ LeftIsNat'
    BY LeftType, PTL
  <2> QED BY <2>1 DEF LeftIsNat, LeftOf
<1>3. y = Left(d, c)'
  BY DEF Left, LeftOf
<1>4. \A v \in Flushers : v # w => y[v] = x[v]
  BY <1>1
<1> HIDE DEF x, y
<1>5. PICK n : Additive(n, y) /\ n[Flushers] + x[w] = m[Flushers] + y[w]
  <2>1. Additive(m, x) /\ y[w] \in Nat /\ \A v \in Flushers : x[v] \in Nat
    BY <1>1, <1>2 DEF x
  <2> QED BY <1>4, <2>1, AdditiveUpdate
<1>6. n[Flushers] \in Nat /\ m[Flushers] \in Nat
  BY <1>5 DEF Additive
<1> QED BY <1>1, <1>3, <1>5, <1>6

(* A flush that sends, goes on or ends keeps a day inside its charge when  *)
(* what it sends comes out of what it had left.                            *)
LEMMA DayMoves ==
  ASSUME IInv, IInv', NEW w \in Flushers, \A v \in Flushers : v # w => flush'[v] = flush[v],
         NEW d \in Days, DayWithin(d), openings' = openings, hist'.day = hist.day,
         \A c \in Classes : spent'[d][c] + LeftOf(flush'[w], d, c) <= spent[d][c] + LeftOf(flush[w], d, c),
         spent'[d]["live"] + LeftOf(flush'[w], d, "live") + spent'[d]["cold"] + LeftOf(flush'[w], d, "cold") + Charged(d)
           <= spent[d]["live"] + LeftOf(flush[w], d, "live") + spent[d]["cold"] + LeftOf(flush[w], d, "cold") + Charged(d)'
  PROVE  DayWithin(d)'
<1> DEFINE x == LeftOf(flush[w], d, "live")
           y == LeftOf(flush[w], d, "cold")
           xn == LeftOf(flush'[w], d, "live")
           yn == LeftOf(flush'[w], d, "cold")
           a == spent[d]["live"]
           b == spent[d]["cold"]
           an == spent'[d]["live"]
           bn == spent'[d]["cold"]
<1>1. /\ x \in Nat /\ y \in Nat /\ xn \in Nat /\ yn \in Nat
  <2>1. LeftIsNat /\ LeftIsNat'
    BY LeftType, PTL
  <2> QED BY <2>1 DEF LeftIsNat, LeftOf, Classes
<1>2. /\ a \in Nat /\ b \in Nat /\ openings[d] \in Nat /\ Charged(d) \in Int /\ Budget \in Nat /\ LiveUnits \in Nat
  BY BudgetTypes
<1>3. an \in Nat /\ bn \in Nat /\ Charged(d)' \in Int
  <2>1. an \in Nat /\ bn \in Nat /\ hist'.writes \in Nat /\ openings'[d] \in Nat
    BY DEF IInv, TypeOK, Classes
  <2>2. (openings'[d] - 1) * Budget \in Int /\ openings'[d] * Budget \in Int
    BY <1>2, <2>1
  <2> QED BY <2>1, <2>2 DEF Charged
<1>4. /\ an + xn + bn + yn + Charged(d) <= a + x + b + y + Charged(d)'
      /\ bn + yn <= b + y
  BY DEF Classes
<1>5. PICK live, cold :
        /\ Additive(live, Left(d, "live")) /\ Additive(cold, Left(d, "cold"))
        /\ a + live[Flushers] + b + cold[Flushers] <= Charged(d)
        /\ openings[d] <= 1 => b + cold[Flushers] <= Budget - LiveUnits
  BY DEF DayWithin
<1>6. PICK ln : /\ Additive(ln, Left(d, "live")') /\ ln[Flushers] \in Nat /\ live[Flushers] \in Nat
                /\ ln[Flushers] + x = live[Flushers] + xn
  BY <1>5, LeftMoves DEF Classes
<1>7. PICK cn : /\ Additive(cn, Left(d, "cold")') /\ cn[Flushers] \in Nat /\ cold[Flushers] \in Nat
                /\ cn[Flushers] + y = cold[Flushers] + yn
  BY <1>5, LeftMoves DEF Classes
<1> HIDE DEF x, y, xn, yn, a, b, an, bn
<1>8. an + ln[Flushers] + bn + cn[Flushers] <= Charged(d)'
  BY <1>1, <1>2, <1>3, <1>4, <1>5, <1>6, <1>7
<1>9. openings[d] <= 1 => bn + cn[Flushers] <= Budget - LiveUnits
  BY <1>1, <1>2, <1>3, <1>4, <1>5, <1>6, <1>7
<1>10. hist'.day = d => openings[d] >= 1
  BY DEF DayWithin
<1> QED BY <1>6, <1>7, <1>8, <1>9, <1>10 DEF DayWithin, an, bn

(* A flush that keeps its lease.                                           *)
LEMMA LeaseBudget ==
  ASSUME IInv, IInv', BudgetInv, NEW w \in Flushers, NEW s \in Flush, Set(w, s), SameLease(flush[w], s),
         flush[w].phase \in Owning, s.phase \in Owning,
         NEW units \in Nat, s.used = flush[w].used + units,
         \/ units = 0 /\ spent' = spent
         \/ Spend(w, units),
         UNCHANGED <<hist, openings>>
  PROVE  BudgetInv'
<1>1. flush'[w] = s /\ \A v \in Flushers : v # w => flush'[v] = flush[v]
  BY SetType
<1> DEFINE f == flush[w]
           k == IF f.live THEN "live" ELSE "cold"
<1>2. /\ f.reserved \in Int /\ f.used \in Nat /\ s.day = f.day /\ s.live = f.live /\ s.reserved = f.reserved
      /\ f.day \in Days /\ f.live \in BOOLEAN
  BY FlushFacts DEF Sound, Flush, SameLease
<1> SUFFICES ASSUME NEW d \in Days PROVE DayWithin(d)'
  BY DEF BudgetInv, Days
<1>3. Charged(d)' = Charged(d) /\ Charged(d) \in Int
  BY BudgetTypes DEF Charged
<1>4. ASSUME NEW c \in Classes
      PROVE  /\ spent'[d][c] = spent[d][c] + (IF f.day = d /\ c = k THEN units ELSE 0)
             /\ LeftOf(s, d, c) = LeftOf(f, d, c) - (IF f.day = d /\ c = k THEN units ELSE 0)
             /\ spent[d][c] \in Nat /\ LeftOf(f, d, c) \in Nat
  <2>1. spent \in [Days -> [Classes -> Nat]] /\ LeftOf(f, d, c) \in Nat
    BY LeftType DEF IInv, TypeOK, LeftIsNat
  <2>2. spent[d][c] \in Nat
    BY <2>1
  <2>3. spent'[d][c] = spent[d][c] + (IF f.day = d /\ c = k THEN units ELSE 0)
    <3>1. CASE units = 0 /\ spent' = spent
      BY <2>2, <3>1
    <3>2. CASE spent' = [spent EXCEPT ![f.day][k] = @ + units]
      <4>1. k \in Classes
        BY DEF Classes
      <4> HIDE DEF f, k
      <4> QED BY <1>2, <2>1, <2>2, <3>2, <4>1
    <3> QED BY <3>1, <3>2 DEF Spend
  <2>4. (f.live = (c = "live")) <=> c = k
    BY <1>2 DEF Classes
  <2>5. LeftOf(s, d, c) = LeftOf(f, d, c) - (IF f.day = d /\ c = k THEN units ELSE 0)
    <3> HIDE DEF f, k
    <3> QED BY <1>2, <2>4 DEF LeftOf, f
  <2> QED BY <2>1, <2>2, <2>3, <2>5
<1>5. ASSUME NEW c \in Classes
      PROVE  /\ spent'[d][c] + LeftOf(s, d, c) = spent[d][c] + LeftOf(f, d, c)
             /\ spent'[d][c] \in Int /\ LeftOf(s, d, c) \in Int /\ spent[d][c] \in Nat /\ LeftOf(f, d, c) \in Nat
  <2> DEFINE u == IF f.day = d /\ c = k THEN units ELSE 0
  <2>1. u \in Nat
    OBVIOUS
  <2>2. spent'[d][c] = spent[d][c] + u /\ LeftOf(s, d, c) = LeftOf(f, d, c) - u
        /\ spent[d][c] \in Nat /\ LeftOf(f, d, c) \in Nat
    BY <1>4
  <2> HIDE DEF u, f
  <2> QED BY <2>1, <2>2
<1>6. "live" \in Classes /\ "cold" \in Classes
  BY DEF Classes
<1>7. \A c \in Classes : spent'[d][c] + LeftOf(s, d, c) <= spent[d][c] + LeftOf(f, d, c)
  BY <1>5
<1>8. spent'[d]["live"] + LeftOf(s, d, "live") + spent'[d]["cold"] + LeftOf(s, d, "cold") + Charged(d)
        <= spent[d]["live"] + LeftOf(f, d, "live") + spent[d]["cold"] + LeftOf(f, d, "cold") + Charged(d)
  <2> HIDE DEF f
  <2> QED BY <1>3, <1>5, <1>6
<1>9. DayWithin(d)
  BY DEF BudgetInv
<1> HIDE DEF k
<1> QED BY <1>1, <1>3, <1>7, <1>8, <1>9, DayMoves

(* A flush that ends: a refund gives back what it had left, of its day.    *)
LEMMA EndBudget ==
  ASSUME IInv, IInv', BudgetInv, NEW w \in Flushers, Set(w, Idle), UNCHANGED <<spent, openings>>,
         \/ hist' = hist
         \/ /\ flush[w].phase \in Owning /\ hist.day = flush[w].day
            /\ hist' = [hist EXCEPT !.writes = @ - Max({0, flush[w].reserved - flush[w].used})]
  PROVE  BudgetInv'
<1> DEFINE f == flush[w]
           left == f.reserved - f.used
<1>1. flush'[w] = Idle /\ \A v \in Flushers : v # w => flush'[v] = flush[v]
  BY SetType, EmptyTypes
<1>2. \A d \in Days, c \in Classes : LeftOf(Idle, d, c) = 0 /\ LeftOf(f, d, c) \in Nat
  BY LeftType DEF LeftIsNat, LeftOf, Idle, Owning
<1>3. f.phase \in Owning => left \in Nat /\ Max({0, left}) = left /\ f.day \in Days /\ f.live \in BOOLEAN
  <2> SUFFICES ASSUME f.phase \in Owning PROVE left \in Nat /\ Max({0, left}) = left /\ f.day \in Days /\ f.live \in BOOLEAN
    OBVIOUS
  <2>1. left \in Nat /\ f.day \in Days /\ f.live \in BOOLEAN
    BY FlushFacts DEF Sound, Flush
  <2>2. Max({0, left}) \in {0, left} /\ 0 <= Max({0, left}) /\ left <= Max({0, left})
    <3>1. left \in Int /\ 0 \in Int
      BY <2>1
    <3> HIDE DEF left
    <3> QED BY <3>1, MaxOfTwo
  <2> HIDE DEF left
  <2> QED BY <2>1, <2>2
<1>4. hist \in [day : Int, writes : Nat]
  BY DEF IInv, TypeOK
<1>5. /\ hist'.day = hist.day /\ hist'.writes <= hist.writes
      /\ \/ hist'.writes = hist.writes
         \/ f.phase \in Owning /\ hist.day = f.day /\ hist'.writes = hist.writes - left
  <2>1. CASE hist' = hist
    BY <1>4, <2>1
  <2>2. CASE f.phase \in Owning /\ hist.day = f.day /\ hist' = [hist EXCEPT !.writes = @ - Max({0, left})]
    <3>1. left \in Nat /\ hist' = [hist EXCEPT !.writes = @ - left]
      BY <1>3, <2>2
    <3> HIDE DEF left, f
    <3> QED BY <1>4, <2>2, <3>1
  <2> QED BY <2>1, <2>2
<1>6. hist'.writes <= Budget
  <2>1. hist'.writes \in Nat /\ hist.writes \in Nat /\ Budget \in Nat /\ hist.writes <= Budget
    BY UnitTypes DEF IInv, TypeOK, BudgetInv
  <2> QED BY <1>5, <2>1
<1>7. ASSUME NEW d \in Days PROVE DayWithin(d)'
  <2> DEFINE a == spent[d]["live"]
             b == spent[d]["cold"]
             x == LeftOf(f, d, "live")
             y == LeftOf(f, d, "cold")
  <2>1. a \in Nat /\ b \in Nat /\ x \in Nat /\ y \in Nat /\ Charged(d) \in Int
    BY <1>2, BudgetTypes DEF Classes
  <2>2. \/ Charged(d)' = Charged(d)
        \/ Charged(d)' = Charged(d) - left /\ left \in Nat /\ x + y = left
    <3>1. CASE hist'.writes = hist.writes
      BY <1>5, <3>1 DEF Charged
    <3>2. CASE f.phase \in Owning /\ hist.day = f.day /\ hist'.writes = hist.writes - left /\ d # f.day
      BY <1>5, <3>2 DEF Charged
    <3>3. CASE f.phase \in Owning /\ hist.day = f.day /\ hist'.writes = hist.writes - left /\ d = f.day
      <4>1. x + y = left /\ left \in Nat
        <5>1. left \in Nat /\ f.live \in BOOLEAN
          BY <1>3, <3>3
        <5>2. CASE f.live
          <6>1. x = left /\ y = 0
            BY <3>3, <5>2 DEF LeftOf
          <6> HIDE DEF left, x, y
          <6> QED BY <5>1, <6>1
        <5>3. CASE ~f.live
          <6>1. x = 0 /\ y = left
            BY <3>3, <5>1, <5>3 DEF LeftOf
          <6> HIDE DEF left, x, y
          <6> QED BY <5>1, <6>1
        <5> QED BY <5>2, <5>3
      <4>2. (openings[d] - 1) * Budget \in Int /\ hist.writes \in Nat
        <5>1. openings[d] \in Nat /\ Budget \in Nat /\ hist.writes \in Nat
          BY BudgetTypes
        <5> QED BY <5>1
      <4>3. Charged(d) = (openings[d] - 1) * Budget + hist.writes
            /\ Charged(d)' = (openings[d] - 1) * Budget + (hist.writes - left)
        BY <1>5, <3>3 DEF Charged
      <4> DEFINE base == (openings[d] - 1) * Budget
      <4> HIDE DEF left, x, y, base
      <4> QED BY <4>1, <4>2, <4>3 DEF base
    <3> QED BY <1>5, <3>1, <3>2, <3>3
  <2>3. a + 0 + b + 0 + Charged(d) <= a + x + b + y + Charged(d)'
    <3> HIDE DEF a, b, x, y, left
    <3> QED BY <2>1, <2>2
  <2>4. spent'[d]["live"] = a /\ spent'[d]["cold"] = b
    OBVIOUS
  <2>5. \A c \in Classes : spent'[d][c] + LeftOf(Idle, d, c) <= spent[d][c] + LeftOf(f, d, c)
    <3>1. \A c \in Classes : spent[d][c] \in Nat
      BY DEF IInv, TypeOK
    <3>2. \A c \in Classes : spent'[d][c] = spent[d][c] /\ LeftOf(Idle, d, c) = 0 /\ LeftOf(f, d, c) \in Nat
      BY <1>2
    <3> HIDE DEF f
    <3> QED BY <3>1, <3>2
  <2>6. spent'[d]["live"] + LeftOf(Idle, d, "live") + spent'[d]["cold"] + LeftOf(Idle, d, "cold") + Charged(d)
          <= spent[d]["live"] + LeftOf(f, d, "live") + spent[d]["cold"] + LeftOf(f, d, "cold") + Charged(d)'
    BY <1>2, <2>3, <2>4 DEF Classes
  <2>7. DayWithin(d) /\ hist'.day = hist.day
    BY <1>5 DEF BudgetInv
  <2> HIDE DEF a, b, x, y, left
  <2> QED BY <1>1, <2>5, <2>6, <2>7, DayMoves
<1> QED BY <1>6, <1>7 DEF BudgetInv, Days

(* A step that leaves the reservations, the counter and what was sent.     *)
LEMMA SameBudget ==
  ASSUME IInv, BudgetInv, UNCHANGED <<hist, spent, openings>>,
         \A v \in Flushers :
           flush'[v] = flush[v] \/ (flush[v].phase \notin Owning /\ flush'[v].phase \notin Owning)
  PROVE  BudgetInv'
<1>1. hist' = hist /\ spent' = spent /\ openings' = openings
  OBVIOUS
<1>2. ASSUME NEW d \in Days PROVE DayWithin(d)'
  <2>1. \A c \in Classes, v \in Flushers : LeftOf(flush'[v], d, c) = LeftOf(flush[v], d, c)
    BY DEF LeftOf
  <2>2. Left(d, "live")' = Left(d, "live") /\ Left(d, "cold")' = Left(d, "cold")
    BY <2>1 DEF Left, LeftOf, Classes
  <2>3. Charged(d)' = Charged(d)
    BY <1>1 DEF Charged
  <2>4. DayWithin(d)
    BY DEF BudgetInv
  <2>5. PICK live, cold :
          /\ Additive(live, Left(d, "live")) /\ Additive(cold, Left(d, "cold"))
          /\ spent[d]["live"] + live[Flushers] + spent[d]["cold"] + cold[Flushers] <= Charged(d)
          /\ openings[d] <= 1 => spent[d]["cold"] + cold[Flushers] <= Budget - LiveUnits
    BY <2>4 DEF DayWithin
  <2>6. hist.day = d => openings[d] >= 1
    BY <2>4 DEF DayWithin
  <2> QED BY <1>1, <2>2, <2>3, <2>5, <2>6 DEF DayWithin
<1> QED BY <1>1, <1>2 DEF BudgetInv, Days

(* A claim reserves what it charges, inside the allowance of its class; it *)
(* may start the counter of a day once more, with nothing charged.         *)
LEMMA ChargeBudget ==
  ASSUME IInv, IInv', BudgetInv, NEW w \in Flushers, \A v \in Flushers : v # w => flush'[v] = flush[v],
         NEW today \in Days, NEW live \in BOOLEAN, NEW reserved \in Nat,
         reserved = 0 \/ reserved <= Allowance(live) - Reset(today).writes,
         \A d \in Days : LeftOf(flush[w], d, "live") = 0 /\ LeftOf(flush[w], d, "cold") = 0,
         \A d \in Days :
           /\ LeftOf(flush'[w], d, "live") = IF d = today /\ live THEN reserved ELSE 0
           /\ LeftOf(flush'[w], d, "cold") = IF d = today /\ ~live THEN reserved ELSE 0,
         hist' = [Reset(today) EXCEPT !.writes = @ + reserved],
         openings' = IF hist.day = today THEN openings ELSE [openings EXCEPT ![today] = @ + 1],
         spent' = spent
  PROVE  BudgetInv'
<1> DEFINE charged == Reset(today).writes
<1>1. /\ charged \in Nat /\ charged = (IF hist.day = today THEN hist.writes ELSE 0)
      /\ hist'.day = today /\ hist'.writes = charged + reserved
  <2>1. hist \in [day : Int, writes : Nat] /\ today \in Int
    BY DEF IInv, TypeOK, Days
  <2> QED BY <2>1 DEF Reset
<1>2. /\ Budget \in Nat /\ LiveUnits \in Nat /\ LiveUnits <= Budget
      /\ reserved = 0 \/ charged + reserved <= Budget
      /\ ~live => reserved = 0 \/ charged + reserved <= Budget - LiveUnits
  <2>1. Budget \in Nat /\ LiveUnits \in Nat /\ LiveUnits <= Budget
    BY UnitAssumption
  <2>2. Allowance(live) = IF live THEN Budget ELSE Budget - LiveUnits
    BY DEF Allowance
  <2>3. reserved = 0 \/ reserved <= Allowance(live) - charged
    OBVIOUS
  <2> HIDE DEF charged
  <2> QED BY <1>1, <2>1, <2>2, <2>3
<1>3. hist.writes \in Nat /\ hist.writes <= Budget
  BY DEF IInv, TypeOK, BudgetInv
<1>4. hist'.writes <= Budget
  <2> HIDE DEF charged
  <2> QED BY <1>1, <1>2, <1>3
<1>5. ASSUME NEW d \in Days PROVE DayWithin(d)'
  <2> DEFINE a == spent[d]["live"]
             b == spent[d]["cold"]
             o == openings[d]
             more == IF d = today THEN reserved ELSE 0
  <2>1. a \in Nat /\ b \in Nat /\ o \in Nat /\ Charged(d) \in Int /\ more \in Nat
    BY BudgetTypes
  <2>2. openings' \in [Days -> Nat] /\ openings \in [Days -> Nat]
    BY DEF IInv, TypeOK
  <2>3. /\ Charged(d) + more <= Charged(d)' /\ Charged(d)' \in Int
        /\ d = today => openings'[d] >= 1
        /\ openings'[d] <= 1 => o <= 1
        /\ d = today /\ openings'[d] <= 1 /\ (hist.day = d => o >= 1) => Charged(d) = charged
    <3>1. CASE d = today /\ hist.day = today
      <4>1. openings'[d] = o /\ DayWithin(d)
        BY <3>1 DEF BudgetInv
      <4>2. Charged(d) = (o - 1) * Budget + hist.writes /\ Charged(d)' = (o - 1) * Budget + (charged + reserved)
        BY <1>1, <3>1, <4>1 DEF Charged
      <4>3. o >= 1
        BY <3>1, <4>1 DEF DayWithin
      <4> DEFINE base == (o - 1) * Budget
      <4>4. base \in Int /\ (o = 1 => base = 0)
        BY <1>2, <2>1
      <4>5. Charged(d) = base + hist.writes /\ Charged(d)' = base + (charged + reserved) /\ charged = hist.writes
            /\ more = reserved
        BY <1>1, <3>1, <4>2
      <4>6. o <= 1 => o = 1
        BY <2>1, <4>3
      <4> HIDE DEF base, o, more, charged
      <4>7. Charged(d) + more <= Charged(d)' /\ Charged(d)' \in Int
        BY <1>1, <1>3, <2>1, <4>4, <4>5
      <4>8. o = 1 => Charged(d) = charged
        BY <1>3, <4>4, <4>5
      <4> QED BY <4>1, <4>3, <4>6, <4>7, <4>8
    <3>2. CASE d = today /\ hist.day # today
      <4>1. openings'[d] = o + 1
        BY <2>2, <3>2
      <4>2. Charged(d) = o * Budget /\ Charged(d)' = ((o + 1) - 1) * Budget + (charged + reserved) /\ charged = 0
            /\ more = reserved
        <5>1. Charged(d) = o * Budget /\ Charged(d)' = (openings'[d] - 1) * Budget + hist'.writes
          BY <1>1, <3>2 DEF Charged
        <5>2. openings'[d] - 1 = (o + 1) - 1
          BY <4>1
        <5>3. charged = 0 /\ more = reserved
          BY <1>1, <3>2
        <5>4. Charged(d)' = ((o + 1) - 1) * Budget + (charged + reserved)
          BY <1>1, <5>1, <5>2
        <5> QED BY <5>1, <5>3, <5>4
      <4> DEFINE base == o * Budget
      <4>3. base \in Int /\ (o = 0 => base = 0) /\ ((o + 1) - 1) * Budget = base
        <5>1. (o + 1) - 1 = o
          BY <2>1
        <5> QED BY <1>2, <2>1, <5>1
      <4>4. Charged(d) = base /\ Charged(d)' = base + (charged + reserved)
        BY <4>2, <4>3
      <4> HIDE DEF base, o, more, charged
      <4> QED BY <1>1, <2>1, <4>1, <4>2, <4>3, <4>4
    <3>3. CASE d # today
      <4>1. openings'[d] = o
        BY <2>2, <3>3
      <4>2. Charged(d)' = o * Budget /\ Charged(d) = (IF hist.day = d THEN (o - 1) * Budget + hist.writes ELSE o * Budget)
        BY <1>1, <3>3, <4>1 DEF Charged
      <4>3. (o - 1) * Budget + Budget = o * Budget /\ o * Budget \in Int /\ (o - 1) * Budget \in Int
        BY <1>2, <2>1
      <4> DEFINE all == o * Budget
                 rest == (o - 1) * Budget
      <4>4. rest + Budget = all /\ all \in Int /\ rest \in Int /\ Charged(d)' = all
            /\ Charged(d) = (IF hist.day = d THEN rest + hist.writes ELSE all) /\ more = 0
        BY <3>3, <4>2, <4>3
      <4> HIDE DEF all, rest, o, more
      <4> QED BY <1>2, <1>3, <2>1, <3>3, <4>1, <4>4
    <3> QED BY <3>1, <3>2, <3>3
  <2>4. PICK l, c :
          /\ Additive(l, Left(d, "live")) /\ Additive(c, Left(d, "cold"))
          /\ a + l[Flushers] + b + c[Flushers] <= Charged(d)
          /\ o <= 1 => b + c[Flushers] <= Budget - LiveUnits
    BY DEF BudgetInv, DayWithin
  <2>5. PICK ln : /\ Additive(ln, Left(d, "live")') /\ ln[Flushers] \in Nat /\ l[Flushers] \in Nat
                  /\ ln[Flushers] + 0 = l[Flushers] + (IF d = today /\ live THEN reserved ELSE 0)
    BY <2>4, LeftMoves DEF Classes
  <2>6. PICK cn : /\ Additive(cn, Left(d, "cold")') /\ cn[Flushers] \in Nat /\ c[Flushers] \in Nat
                  /\ cn[Flushers] + 0 = c[Flushers] + (IF d = today /\ ~live THEN reserved ELSE 0)
    BY <2>4, LeftMoves DEF Classes
  <2>7. ln[Flushers] + cn[Flushers] = l[Flushers] + c[Flushers] + more
    BY <2>5, <2>6
  <2>8. spent'[d]["live"] = a /\ spent'[d]["cold"] = b
    OBVIOUS
  <2>9. a + ln[Flushers] + b + cn[Flushers] <= Charged(d)'
    <3> HIDE DEF a, b, more
    <3> QED BY <2>1, <2>3, <2>4, <2>5, <2>6, <2>7
  <2>10. ASSUME openings'[d] <= 1 PROVE b + cn[Flushers] <= Budget - LiveUnits
    <3>1. b + c[Flushers] <= Budget - LiveUnits
      BY <2>3, <2>4, <2>10
    <3>2. CASE d = today /\ ~live /\ reserved # 0
      <4>1. hist.day = d => o >= 1
        BY DEF BudgetInv, DayWithin
      <4>2. Charged(d) = charged
        BY <2>3, <2>10, <3>2, <4>1
      <4>3. charged + reserved <= Budget - LiveUnits
        BY <1>2, <3>2
      <4>4. cn[Flushers] = c[Flushers] + reserved
        BY <2>6, <3>2
      <4> HIDE DEF a, b, charged
      <4> QED BY <1>1, <1>2, <2>1, <2>4, <2>5, <2>6, <4>2, <4>3, <4>4
    <3>3. CASE ~(d = today /\ ~live /\ reserved # 0)
      BY <2>6, <3>1, <3>3
    <3> QED BY <3>2, <3>3
  <2>11. hist'.day = d => openings'[d] >= 1
    BY <1>1, <2>3
  <2> HIDE DEF a, b
  <2> QED BY <2>5, <2>6, <2>8, <2>9, <2>10, <2>11 DEF DayWithin
<1> QED BY <1>4, <1>5 DEF BudgetInv, Days

LEMMA ClaimBudget ==
  ASSUME IInv, IInv', BudgetInv, NEW w \in Flushers, Claim(w)
  PROVE  BudgetInv'
<1> DEFINE f == flush[w]
           t == f.clock
           today == Day(t)
           left == Allowance(f.live) - Reset(today).writes
<1>1. /\ f.phase = "selected" /\ today \in Days /\ f.live \in BOOLEAN
      /\ spent' = spent /\ openings' = IF hist.day = today THEN openings ELSE [openings EXCEPT ![today] = @ + 1]
  BY Claiming, FlushFacts DEF Claim, Flush
<1>2. \A d \in Days : LeftOf(f, d, "live") = 0 /\ LeftOf(f, d, "cold") = 0
  BY <1>1 DEF LeftOf, Owning
<1>3. CASE Set(w, Idle) /\ hist' = Reset(today)
  <2>1. flush'[w] = Idle /\ \A v \in Flushers : v # w => flush'[v] = flush[v]
    BY <1>3, SetType, EmptyTypes
  <2>2. \A d \in Days : LeftOf(Idle, d, "live") = 0 /\ LeftOf(Idle, d, "cold") = 0
    BY DEF LeftOf, Idle, Owning
  <2>3. hist' = [Reset(today) EXCEPT !.writes = @ + 0] /\ 0 \in Nat
    <3>1. Reset(today) \in [day : Int, writes : Nat]
      BY <1>1, ResetType DEF Days
    <3> HIDE DEF today
    <3> QED BY <1>3, <3>1
  <2>4. \A d \in Days :
          /\ LeftOf(flush'[w], d, "live") = IF d = today /\ f.live THEN 0 ELSE 0
          /\ LeftOf(flush'[w], d, "cold") = IF d = today /\ ~f.live THEN 0 ELSE 0
    BY <2>1, <2>2
  <2> HIDE DEF today
  <2> QED BY <1>1, <1>2, <2>1, <2>3, <2>4, ChargeBudget
<1>4. CASE \E s \in Flush :
             /\ Set(w, s) /\ s.phase \in {"claimed", "working"} /\ s.day = today /\ s.live = f.live /\ s.used = 0
             /\ s.reserved \in Nat /\ s.reserved <= left
             /\ hist' = [Reset(today) EXCEPT !.writes = @ + s.reserved]
  <2>1. PICK s \in Flush :
          /\ Set(w, s) /\ s.phase \in {"claimed", "working"} /\ s.day = today /\ s.live = f.live /\ s.used = 0
          /\ s.reserved \in Nat /\ s.reserved <= left
          /\ hist' = [Reset(today) EXCEPT !.writes = @ + s.reserved]
    BY <1>4
  <2>2. flush'[w] = s /\ \A v \in Flushers : v # w => flush'[v] = flush[v]
    BY <2>1, SetType
  <2>3. s.reserved - s.used = s.reserved
    BY <2>1
  <2>4. \A d \in Days :
          /\ LeftOf(flush'[w], d, "live") = IF d = today /\ f.live THEN s.reserved ELSE 0
          /\ LeftOf(flush'[w], d, "cold") = IF d = today /\ ~f.live THEN s.reserved ELSE 0
    <3> HIDE DEF today, f
    <3> QED BY <1>1, <2>1, <2>2, <2>3 DEF LeftOf, Owning
  <2>5. s.reserved <= Allowance(f.live) - Reset(today).writes
    BY <2>1
  <2> HIDE DEF today
  <2> QED BY <1>1, <1>2, <2>1, <2>2, <2>4, <2>5, ChargeBudget
<1>5. \/ Set(w, Idle) /\ hist' = Reset(today)
      \/ \E s \in Flush :
           /\ Set(w, s) /\ s.phase \in {"claimed", "working"} /\ s.day = today /\ s.live = f.live /\ s.used = 0
           /\ s.reserved \in Nat /\ s.reserved <= left
           /\ hist' = [Reset(today) EXCEPT !.writes = @ + s.reserved]
  BY Claiming
<1> QED BY <1>3, <1>4, <1>5

LEMMA FlushBudget ==
  ASSUME IInv, IInv', BudgetInv, NEW w \in Flushers,
         \/ Select(w) \/ CheckRetirement(w) \/ FencedWrite(w) \/ TakeLock(w) \/ Advance(w)
         \/ Stop(w) \/ SaveProgress(w) \/ Finish(w) \/ Die(w)
  PROVE  BudgetInv'
<1>1. CASE Select(w)
  <2>1. flush[w].phase \notin Owning /\ flush'[w].phase \notin Owning /\ \A v \in Flushers : v # w => flush'[v] = flush[v]
    BY <1>1, Beginning DEF Select, Owning
  <2>2. UNCHANGED <<hist, spent, openings>>
    BY <1>1 DEF Select
  <2> QED BY <2>1, <2>2, SameBudget
<1>2. CASE CheckRetirement(w) \/ FencedWrite(w) \/ Stop(w)
  <2>1. UNCHANGED <<hist, spent, openings>>
    BY <1>2 DEF CheckRetirement, FencedWrite, Stop
  <2>2. PICK s \in Flush :
          /\ Set(w, s) /\ SameLease(flush[w], s) /\ s.used = flush[w].used
          /\ flush[w].phase \in {"claimed", "working"} /\ s.phase \in {"working", "saving"}
    BY <1>2, GoingOn
  <2>3. s.used = flush[w].used + 0 /\ 0 \in Nat
    BY <2>2 DEF Flush
  <2>4. flush[w].phase \in Owning /\ s.phase \in Owning
    BY <2>2 DEF Owning
  <2> QED BY <2>1, <2>2, <2>3, <2>4, LeaseBudget
<1>3. CASE TakeLock(w)
  <2>1. UNCHANGED <<hist, openings>> /\ Spend(w, 1) /\ 1 \in Nat
    BY <1>3 DEF TakeLock
  <2>2. PICK s \in Flush :
          /\ Set(w, s) /\ SameLease(flush[w], s) /\ s.used = flush[w].used + 1
          /\ flush[w].phase = "working" /\ s.phase \in {"working", "saving"}
    BY <1>3, Locking
  <2>3. flush[w].phase \in Owning /\ s.phase \in Owning
    BY <2>2 DEF Owning
  <2> QED BY <2>1, <2>2, <2>3, LeaseBudget
<1>4. CASE Advance(w)
  <2>1. UNCHANGED <<hist, openings>> /\ Spend(w, Cost[NextKind(w)])
    BY <1>4 DEF Advance, NextKind
  <2>2. PICK s \in Flush :
          /\ Set(w, s) /\ SameLease(flush[w], s) /\ s.used = flush[w].used + Cost[NextKind(w)]
          /\ flush[w].phase = "working" /\ s.phase \in {"working", "saving"}
    BY <1>4, Stepping
  <2>3. flush[w].phase \in Owning /\ s.phase \in Owning /\ Cost[NextKind(w)] \in Nat
    BY <1>4, <2>2, KindType DEF Owning
  <2> QED BY <2>1, <2>2, <2>3, LeaseBudget
<1>5. CASE Die(w)
  <2>1. Set(w, Idle) /\ UNCHANGED <<hist, spent, openings>>
    BY <1>5 DEF Die
  <2> QED BY <2>1, EndBudget
<1>6. CASE SaveProgress(w)
  <2>1. UNCHANGED <<hist, spent, openings>>
    BY <1>6 DEF SaveProgress
  <2>2. CASE Set(w, Idle)
    BY <2>1, <2>2, EndBudget
  <2>3. CASE \E s \in Flush :
               Set(w, s) /\ SameLease(flush[w], s) /\ s.used = flush[w].used /\ s.phase = "finishing"
    <3>1. PICK s \in Flush :
            Set(w, s) /\ SameLease(flush[w], s) /\ s.used = flush[w].used /\ s.phase = "finishing"
      BY <2>3
    <3>2. s.used = flush[w].used + 0 /\ 0 \in Nat /\ flush[w].phase \in Owning /\ s.phase \in Owning
      BY <1>6, <3>1 DEF Flush, SaveProgress, Owning
    <3> QED BY <2>1, <3>1, <3>2, LeaseBudget
  <2> QED BY <1>6, <2>2, <2>3, Saving
<1>7. CASE Finish(w)
  <2>1. Set(w, Idle) /\ UNCHANGED <<spent, openings>> /\ flush[w].phase \in Owning
    BY <1>7 DEF Finish, Owning
  <2>2. \/ hist' = hist
        \/ /\ hist.day = flush[w].day
           /\ hist' = [hist EXCEPT !.writes = @ - Max({0, flush[w].reserved - flush[w].used})]
    BY <1>7 DEF Finish, Refund
  <2> QED BY <2>1, <2>2, EndBudget
<1> QED BY <1>1, <1>2, <1>3, <1>4, <1>5, <1>6, <1>7

LEMMA StepBudget == IInv /\ IInv' /\ BudgetInv /\ [Next]_vars => BudgetInv'
<1> SUFFICES ASSUME IInv, IInv', BudgetInv, [Next]_vars PROVE BudgetInv'
  OBVIOUS
<1>1. CASE \/ Tick \/ CleanupCheck \/ UNCHANGED vars
           \/ \E e \in Events : (\E live \in SubmittedLive(e) : Enqueue(e, live)) \/ Promote(e)
                                  \/ Archived(e) \/ DropRetired(e)
           \/ \E p \in Episodes : Retire(p) \/ Cleanup(p)
  <2>1. UNCHANGED <<flush, hist, spent, openings>>
    BY <1>1 DEF Tick, CleanupCheck, vars, Enqueue, Promote, Archived, DropRetired, Retire, Cleanup
  <2> QED BY <2>1, SameBudget
<1>2. CASE \E w \in Flushers :
             \/ Select(w) \/ Claim(w) \/ CheckRetirement(w) \/ FencedWrite(w) \/ TakeLock(w) \/ Advance(w)
             \/ Stop(w) \/ SaveProgress(w) \/ Finish(w) \/ Die(w)
  BY <1>2, ClaimBudget, FlushBudget
<1> QED BY <1>1, <1>2 DEF Next

LEMMA InitBudget == Init => BudgetInv
<1> SUFFICES ASSUME Init PROVE BudgetInv
  OBVIOUS
<1>1. Budget \in Nat /\ LiveUnits \in Nat /\ LiveUnits <= Budget
  BY UnitAssumption
<1>2. hist.writes <= Budget /\ hist.day = Never
  BY <1>1 DEF Init
<1>3. ASSUME NEW d \in Days PROVE DayWithin(d)
  <2>1. d \in Nat /\ d # Never
    <3>1. d \in 0 .. (MaxTime \div DayTicks)
      BY DEF Days
    <3> QED BY <3>1 DEF Never
  <2>2. \A w \in Flushers : Left(d, "live")[w] = 0 /\ Left(d, "cold")[w] = 0
    BY DEF Init, Left, LeftOf, Idle, Owning
  <2>3. PICK live : Additive(live, Left(d, "live")) /\ live[Flushers] = 0
    BY <2>2, AdditiveNothing
  <2>4. PICK cold : Additive(cold, Left(d, "cold")) /\ cold[Flushers] = 0
    BY <2>2, AdditiveNothing
  <2>5. spent[d]["live"] = 0 /\ spent[d]["cold"] = 0 /\ openings[d] = 0
    BY DEF Init, Classes
  <2>6. Charged(d) = 0
    BY <1>1, <1>2, <2>1, <2>5 DEF Charged
  <2> QED BY <1>1, <1>2, <2>1, <2>3, <2>4, <2>5, <2>6 DEF DayWithin
<1> QED BY <1>2, <1>3 DEF BudgetInv

LEMMA WithinAllowance == IInv /\ BudgetInv => AllowanceKept
<1> SUFFICES ASSUME IInv, BudgetInv, NEW d \in Days
             PROVE  /\ spent[d]["live"] + spent[d]["cold"] <= openings[d] * Budget
                    /\ openings[d] <= 1 => spent[d]["cold"] <= Budget - LiveUnits
  BY DEF AllowanceKept
<1> DEFINE all == openings[d] * Budget
           rest == (openings[d] - 1) * Budget
<1>1. PICK live, cold :
        /\ Additive(live, Left(d, "live")) /\ Additive(cold, Left(d, "cold"))
        /\ spent[d]["live"] + live[Flushers] + spent[d]["cold"] + cold[Flushers] <= Charged(d)
        /\ openings[d] <= 1 => spent[d]["cold"] + cold[Flushers] <= Budget - LiveUnits
  BY DEF BudgetInv, DayWithin
<1>2. live[Flushers] \in Nat /\ cold[Flushers] \in Nat
  BY <1>1 DEF Additive
<1>3. /\ spent[d]["live"] \in Nat /\ spent[d]["cold"] \in Nat /\ openings[d] \in Nat
      /\ hist.writes \in Nat /\ Budget \in Nat /\ LiveUnits \in Nat /\ hist.writes <= Budget
  BY BudgetTypes DEF BudgetInv
<1>4. rest + Budget = all /\ all \in Int /\ rest \in Int
  BY <1>3
<1>5. Charged(d) <= all /\ Charged(d) \in Int
  <2>1. Charged(d) = IF hist.day = d THEN rest + hist.writes ELSE all
    BY DEF Charged
  <2> HIDE DEF rest, all
  <2> QED BY <1>3, <1>4, <2>1
<1> HIDE DEF rest
<1> QED BY <1>1, <1>2, <1>3, <1>4, <1>5

(* The history work of a day stays inside one allowance for every time the *)
(* counter of the day was started, and a counter started once keeps the    *)
(* share of the live episodes, whatever flushes die with a reservation,    *)
(* refund it late or lose its lease: what was sent and what may still be   *)
(* sent is charged before it is sent.                                      *)
THEOREM DayAllowance == Spec => []AllowanceKept
BY InitIInv, StepIInv, InitBudget, StepBudget, WithinAllowance, PTL DEF Spec
=============================================================================
