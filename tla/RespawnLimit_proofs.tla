------------------------ MODULE RespawnLimit_proofs ------------------------
(***************************************************************************)
(* What job_process_catch_runaway() promises, for every limit, interval    *)
(* and order of ends: see AnyIntervalTwiceLimit.  The counter only speaks  *)
(* of the respawns since respawn_time, so the invariant says where the     *)
(* respawns before those lie: all of them not after respawn_time, and all  *)
(* but the last Limit of them an interval before it.                       *)
(***************************************************************************)
EXTENDS RespawnLimit, TLAPS

\* Times are in order: nothing lies after the clock.
Past ==
    /\ respawn_time <= now
    /\ \A i \in DOMAIN respawns : respawns[i] <= now

\* respawn_count counts the last respawns, and never more than the limit.
Counter ==
    /\ respawn_count <= Limit
    /\ respawn_count <= Len(respawns)

\* The respawns before the counted ones.
Before ==
    \A i \in DOMAIN respawns :
        i <= Len(respawns) - respawn_count => respawns[i] <= respawn_time

\* The respawns before the last interval init counted in.
LongBefore ==
    \A i \in DOMAIN respawns :
        i <= Len(respawns) - respawn_count - Limit =>
            respawns[i] + Interval <= respawn_time

IInv ==
    /\ TypeOK
    /\ Past
    /\ ~stopped => Counter /\ Before /\ LongBefore
    /\ AnyIntervalTwiceLimit

\* The job starts with no respawn counted.
LEMMA InitIInv == Init => IInv
<1> SUFFICES ASSUME Init PROVE IInv
    OBVIOUS
<1>1. respawns = <<>> /\ DOMAIN respawns = {} /\ Len(respawns) = 0
    BY DEF Init
<1>2. <<>> \in Seq(0 .. MaxTime)
    OBVIOUS
<1>3. TypeOK
  <2>1. stopped \in BOOLEAN
      BY Zenon DEF Init
  <2>2. respawns \in Seq(0 .. MaxTime)
      BY <1>1, <1>2
  <2>3. now \in 0 .. MaxTime /\ respawn_time \in 0 .. MaxTime
      BY LimitAssumption DEF Init
  <2>4. respawn_count \in Nat
      BY DEF Init
  <2> QED
      BY <2>1, <2>2, <2>3, <2>4 DEF TypeOK
<1>4. Past /\ Counter
    BY <1>1, LimitAssumption DEF Init, Past, Counter
<1>5. Before /\ LongBefore /\ AnyIntervalTwiceLimit
    BY <1>1 DEF Before, LongBefore, AnyIntervalTwiceLimit
<1> QED
    BY <1>3, <1>4, <1>5 DEF IInv

\* Time passes: what was counted stays where it was.
LEMMA TickIInv == IInv /\ TimePasses => IInv'
<1> SUFFICES ASSUME IInv, TimePasses PROVE IInv'
    OBVIOUS
<1> USE LimitAssumption
<1>1. TypeOK'
    BY DEF IInv, TypeOK, TimePasses
<1>2. Past'
  <2>1. \A i \in DOMAIN respawns : respawns[i] \in Nat
      BY DEF IInv, TypeOK
  <2> QED
      BY <2>1 DEF IInv, TypeOK, Past, TimePasses
<1>3. (~stopped => Counter /\ Before /\ LongBefore)'
    BY DEF IInv, TimePasses, Counter, Before, LongBefore
<1>4. AnyIntervalTwiceLimit'
    BY DEF IInv, TimePasses, AnyIntervalTwiceLimit
<1> QED
    BY <1>1, <1>2, <1>3, <1>4 DEF IInv

\* A history with one more respawn.
LEMMA Appended ==
    ASSUME NEW S, NEW s \in Seq(S), NEW t \in S
    PROVE  /\ Append(s, t) \in Seq(S)
           /\ Len(s) \in Nat
           /\ Len(Append(s, t)) = Len(s) + 1
           /\ DOMAIN s = 1 .. Len(s)
           /\ DOMAIN Append(s, t) = 1 .. (Len(s) + 1)
           /\ \A i \in 1 .. Len(s) : Append(s, t)[i] = s[i]
           /\ Append(s, t)[Len(s) + 1] = t
    OBVIOUS

\* The end of the main process: within the interval the oldest of the last
\* twice Limit respawns lies before the interval init counted in before this
\* one; at the start of a new interval it lies before the present one.
LEMMA MainEndsIInv == IInv /\ MainEnds => IInv'
<1> SUFFICES ASSUME IInv, MainEnds PROVE IInv'
    OBVIOUS
<1> USE LimitAssumption
<1>1. /\ TypeOK /\ Past /\ Counter /\ Before /\ LongBefore
      /\ AnyIntervalTwiceLimit
      /\ now' = now /\ ~stopped
    BY DEF IInv, MainEnds
<1> DEFINE n == Len(respawns)
           r == Append(respawns, now)
<1>2. /\ r \in Seq(0 .. MaxTime)
      /\ n \in Nat
      /\ Len(r) = n + 1
      /\ DOMAIN respawns = 1 .. n
      /\ DOMAIN r = 1 .. (n + 1)
      /\ \A i \in 1 .. n : r[i] = respawns[i]
      /\ r[n + 1] = now
    BY <1>1, Appended DEF TypeOK
<1>3. /\ now \in Nat /\ respawn_time \in Nat /\ respawn_count \in Nat
      /\ \A i \in 1 .. n : respawns[i] \in Nat /\ respawns[i] <= now
    BY <1>1, <1>2 DEF TypeOK, Past
<1>4. CASE WithinInterval /\ respawn_count + 1 > Limit
  <2>1. /\ respawns' = respawns /\ respawn_time' = respawn_time
        /\ respawn_count' = respawn_count + 1 /\ stopped'
      BY <1>4 DEF MainEnds
  <2> QED
      BY <1>1, <2>1 DEF IInv, TypeOK, Past, AnyIntervalTwiceLimit
<1>5. CASE WithinInterval /\ ~(respawn_count + 1 > Limit)
  <2>1. /\ respawns' = r /\ respawn_time' = respawn_time
        /\ respawn_count' = respawn_count + 1 /\ stopped' = stopped
      BY <1>5 DEF MainEnds, DoRespawn
  <2> HIDE DEF n, r
  <2>2. TypeOK' /\ Past'
      BY <1>1, <1>2, <1>3, <2>1 DEF TypeOK, Past
  <2>3. /\ \A i \in 1 .. n : i <= n - respawn_count
               => respawns[i] <= respawn_time
        /\ \A i \in 1 .. n : i <= n - respawn_count - Limit
               => respawns[i] + Interval <= respawn_time
        /\ respawn_count <= n
      BY <1>1, <1>2 DEF Before, LongBefore, Counter, n
  <2>4. Counter'
      BY <1>2, <1>3, <1>5, <2>1, <2>3 DEF Counter
  <2>5. /\ n + 1 - (respawn_count + 1) = n - respawn_count
        /\ \A i \in 1 .. (n + 1) : i <= n - respawn_count => i \in 1 .. n
        /\ \A i \in 1 .. (n + 1) :
               i <= n - respawn_count - Limit => i \in 1 .. n
      BY <1>2, <1>3
  <2>6. Before' /\ LongBefore'
    <3>1. \A i \in 1 .. (n + 1) :
              i <= n - respawn_count => r[i] <= respawn_time
        BY <1>2, <2>3, <2>5
    <3>2. \A i \in 1 .. (n + 1) :
              i <= n - respawn_count - Limit =>
                  r[i] + Interval <= respawn_time
        BY <1>2, <2>3, <2>5
    <3>3. /\ DOMAIN respawns' = 1 .. (n + 1)
          /\ Len(respawns') - respawn_count' = n - respawn_count
        BY <1>2, <2>1, <2>5
    <3>4. Before'
        BY <2>1, <3>1, <3>3 DEF Before
    <3>5. LongBefore'
        BY <2>1, <3>2, <3>3 DEF LongBefore
    <3> QED
        BY <3>4, <3>5
  <2>7. AnyIntervalTwiceLimit'
    <3> SUFFICES ASSUME NEW i \in 1 .. (n + 1), NEW j \in 1 .. (n + 1),
                        j = i + 2 * Limit
                 PROVE  r[j] - r[i] >= Interval
        BY <1>2, <2>1 DEF AnyIntervalTwiceLimit
    <3>1. i \in 1 .. n
        BY <1>2
    <3>2. CASE j \in 1 .. n
        BY <1>1, <1>2, <3>1, <3>2 DEF AnyIntervalTwiceLimit
    <3>3. CASE j = n + 1
      <4>1. i <= n - respawn_count - Limit
          BY <1>2, <1>3, <1>5, <3>3
      <4>2. respawns[i] + Interval <= respawn_time /\ respawn_time <= now
          BY <1>1, <2>3, <3>1, <4>1 DEF Past
      <4>3. r[i] = respawns[i] /\ r[j] = now /\ respawns[i] \in Nat
          BY <1>2, <1>3, <3>1, <3>3
      <4>4. respawns[i] + Interval <= now
          BY <1>3, <4>2, <4>3
      <4> QED
          BY <1>3, <4>3, <4>4
    <3> QED
        BY <1>2, <3>2, <3>3
  <2> QED
      BY <2>2, <2>4, <2>6, <2>7 DEF IInv
<1>6. CASE ~WithinInterval
  <2>1. /\ respawns' = r /\ respawn_time' = now
        /\ respawn_count' = 1 /\ stopped' = stopped
      BY <1>6 DEF MainEnds, DoRespawn
  <2>2. respawn_time + Interval <= now
      BY <1>3, <1>6 DEF WithinInterval
  <2> HIDE DEF n, r
  <2>3. TypeOK' /\ Past'
      BY <1>1, <1>2, <1>3, <2>1 DEF TypeOK, Past
  <2>4. /\ \A i \in 1 .. n : i <= n - respawn_count
               => respawns[i] <= respawn_time
        /\ respawn_count <= n /\ respawn_count <= Limit
      BY <1>1, <1>2 DEF Before, Counter, n
  <2>5. Counter' /\ Before'
      BY <1>2, <1>3, <2>1 DEF Counter, Before
  <2>6. LongBefore'
    <3> SUFFICES ASSUME NEW i \in 1 .. (n + 1), i <= n + 1 - 1 - Limit
                 PROVE  r[i] + Interval <= now
        BY <1>2, <2>1 DEF LongBefore
    <3>1. i \in 1 .. n /\ i <= n - respawn_count
        BY <1>2, <1>3, <2>4
    <3> QED
        BY <1>2, <1>3, <2>2, <2>4, <3>1
  <2>7. AnyIntervalTwiceLimit'
    <3> SUFFICES ASSUME NEW i \in 1 .. (n + 1), NEW j \in 1 .. (n + 1),
                        j = i + 2 * Limit
                 PROVE  r[j] - r[i] >= Interval
        BY <1>2, <2>1 DEF AnyIntervalTwiceLimit
    <3>1. i \in 1 .. n
        BY <1>2
    <3>2. CASE j \in 1 .. n
        BY <1>1, <1>2, <3>1, <3>2 DEF AnyIntervalTwiceLimit
    <3>3. CASE j = n + 1
      <4>1. i <= n - respawn_count
          BY <1>2, <1>3, <2>4, <3>3
      <4>2. respawns[i] <= respawn_time
          BY <2>4, <3>1, <4>1
      <4>3. r[i] = respawns[i] /\ r[j] = now /\ respawns[i] \in Nat
          BY <1>2, <1>3, <3>1, <3>3
      <4>4. respawns[i] + Interval <= now
          BY <1>3, <2>2, <4>2, <4>3
      <4> QED
          BY <1>3, <4>3, <4>4
    <3> QED
        BY <1>2, <3>2, <3>3
  <2> QED
      BY <2>3, <2>5, <2>6, <2>7 DEF IInv
<1> QED
    BY <1>4, <1>5, <1>6

\* Whatever the limit and the interval, and whenever the main process ends,
\* job_process_catch_runaway() lets no interval see more than twice the limit
\* of respawns, whether or not it begins where init began to count.
THEOREM RespawnsLimited == Spec => []AnyIntervalTwiceLimit
<1>1. IInv /\ [Next]_vars => IInv'
  <2> SUFFICES ASSUME IInv, [Next]_vars PROVE IInv'
      OBVIOUS
  <2>1. CASE UNCHANGED vars
      BY <2>1 DEF IInv, vars, TypeOK, Past, Counter, Before, LongBefore,
                  AnyIntervalTwiceLimit
  <2> QED
      BY <2>1, TickIInv, MainEndsIInv DEF Next
<1>2. IInv => AnyIntervalTwiceLimit
    BY DEF IInv
<1> QED
    BY <1>1, <1>2, InitIInv, PTL DEF Spec
=============================================================================
