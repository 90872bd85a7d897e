-------------------------- MODULE SyncDomainProofs --------------------------
(***************************************************************************)
(* Proofs about the PTP clock and the SyncE selection inside the           *)
(* synchronization domain, for every set of links and modes, every         *)
(* capacity of the channel, every configuration of the interfaces and      *)
(* every number of holdovers, edits and restarts.                          *)
(***************************************************************************)
EXTENDS SyncDomain, FiniteSetTheorems, WellFoundedInduction, TLAPS

(***************************************************************************)
(* The manager and its leaf agree once it has adopted a state; before that *)
(* it is as the boot left it.                                              *)
(***************************************************************************)
Adopted ==
    /\ known => leaf = state
    /\ ~ known => /\ leaf = "locked" /\ state = "freerun"
                  /\ timer = None /\ ~ raised

IInv == Adopted /\ HoldoverBookkeeping
-----------------------------------------------------------------------------
\* A manager that adopts the leaf changes nothing else that matters.
LEMMA AdoptStep ==
  ASSUME IInv, Adopt
  PROVE  IInv' /\ (known => state' = state)
  BY DEF IInv, Adopted, HoldoverBookkeeping, Adopt, Current

\* Every transition leaves the timer and the alarm of the state it enters.
LEMMA TransitionStep ==
  ASSUME NEW next, transition(next)
  PROVE  IInv' /\ state' = next
  <1>1. leaf' = next /\ state' = next /\ known' = TRUE
    BY DEF transition
  <1>2. raised' = (next = "holdover-out-of-spec")
    BY DEF transition
  <1>3. timer' # None => next = "holdover-in-spec" /\ timer' = holdover'
    BY DEF transition, startHoldover, stopHoldover
  <1>4. Adopted'
    BY Zenon, <1>1 DEF Adopted
  <1>5. raised' <=> state' = "holdover-out-of-spec"
    BY Zenon, <1>1, <1>2
  <1> QED BY <1>1, <1>3, <1>4, <1>5 DEF IInv, HoldoverBookkeeping

\* An event is a transition or leaves the state where it is.
LEMMA HandleStep ==
  ASSUME IInv, NEW e, handleLocked(e)
  PROVE  IInv'
  BY AdoptStep, TransitionStep DEF handleLocked

\* The clock starts in the invariant.
LEMMA InitIInv == Init => IInv
  BY Zenon DEF Init, IInv, Adopted, HoldoverBookkeeping

\* Every step of the clock keeps it.
LEMMA NextIInv == IInv /\ [Next]_vars => IInv'
  <1> SUFFICES ASSUME IInv, [Next]_vars PROVE IInv'
    OBVIOUS
  <1>1. ASSUME UNCHANGED clockVars PROVE IInv'
    BY Zenon, <1>1 DEF clockVars, IInv, Adopted, HoldoverBookkeeping
  <1>2. ASSUME NEW e \in EventType, Handle(e) PROVE IInv'
    BY Zenon, <1>2, HandleStep DEF Handle
  <1>3. ASSUME SyncLoss PROVE IInv'
    BY Zenon, <1>3, HandleStep DEF SyncLoss
  <1>4. ASSUME Tick PROVE IInv'
    BY <1>4, AdoptStep, TransitionStep DEF Tick
  <1>5. ASSUME ExpireHoldover PROVE IInv'
    BY <1>1, <1>5, HandleStep DEF ExpireHoldover
  <1>6. ASSUME HandleDomainEvent PROVE IInv'
    BY Zenon, <1>6, HandleStep DEF HandleDomainEvent
  <1>7. ASSUME NEW h \in armed, TimerFires(h) PROVE IInv'
    BY Zenon, <1>7 DEF TimerFires, IInv, Adopted, HoldoverBookkeeping
  <1>8. ASSUME Restart PROVE IInv'
    BY Zenon, <1>8 DEF Restart, IInv, Adopted, HoldoverBookkeeping
  <1>9. ASSUME NEW l \in Links, LinkDown(l) \/ LinkUp(l) PROVE IInv'
    BY Zenon, <1>1, <1>9 DEF LinkDown, LinkUp
  <1>10. ASSUME NEW md \in Modes, SetMode(md) PROVE IInv'
    BY Zenon, <1>1, <1>10 DEF SetMode
  <1>11. ASSUME UNCHANGED vars PROVE IInv'
    BY Zenon, <1>1, <1>11 DEF vars, clockVars
  <1> QED
    BY <1>2, <1>3, <1>4, <1>5, <1>6, <1>7, <1>8, <1>9, <1>10, <1>11 DEF Next, RunStep

\* The lock, the ticks and the reboots of the domain add no step to the clock.
LEMMA DomainStep == [DomainNext]_domainVars => [Next]_vars
  <1> SUFFICES ASSUME [DomainNext]_domainVars PROVE [Next]_vars
    OBVIOUS
  <1>1. DomainTick => Next
    BY DEF DomainTick, Next, RunStep
  <1>2. TickWrites \/ Planes => UNCHANGED vars
    BY DEF TickWrites, Planes
  <1>3. TakeExpiry \/ TakeEvent => Next
    BY DEF TakeExpiry, TakeEvent, Next, RunStep
  <1>4. \A h \in Holdovers : Timer(h) => Next
    BY DEF Timer, Next
  <1>5. Request => Next
    BY DEF Request, Next
  <1>6. Surroundings => Next
    BY DEF Surroundings, Next
  <1>7. Reboot => Next
    BY DEF Reboot, Next
  <1>8. UNCHANGED domainVars => UNCHANGED vars
    BY DEF domainVars
  <1> QED BY <1>1, <1>2, <1>3, <1>4, <1>5, <1>6, <1>7, <1>8 DEF DomainNext
-----------------------------------------------------------------------------
\* The domain implements the clock: SyncE, its refreshes and the planes order
\* the steps of the clock but add none.
THEOREM DomainRunsClock == DomainSpec => Spec
  <1>1. DomainInit => Init
    BY DEF DomainInit
  <1> QED BY <1>1, DomainStep, PTL DEF DomainSpec, Spec

\* The invariant of the clock holds in the domain.
LEMMA Inductive == DomainSpec => []IInv
  BY DomainRunsClock, InitIInv, NextIInv, PTL DEF Spec

\* Timer and alarm belong to the state, over any number of holdovers, lost and
\* late events, and restarts.
THEOREM BookkeepingHolds == DomainSpec => []HoldoverBookkeeping
  <1>1. IInv => HoldoverBookkeeping
    BY DEF IInv
  <1> QED BY <1>1, Inductive, PTL

\* An expiry taken from the channel moves the clock out of spec or not at all,
\* for any number of expiries that are late.
THEOREM LateExpirySafe == DomainSpec => LateExpiryIsHarmless
  <1> DEFINE Harmless == expired # None /\ expired' = None /\ state' # state /\ known' =>
                             state = "holdover-in-spec" /\ state' = "holdover-out-of-spec"
  <1>1. IInv /\ [Next]_vars => [Harmless]_vars
    <2> SUFFICES ASSUME IInv, Next, expired # None, expired' = None, state' # state, known'
                 PROVE  state = "holdover-in-spec" /\ state' = "holdover-out-of-spec"
      OBVIOUS
    <2>1. ExpireHoldover
      <3>1. UNCHANGED expired => FALSE
        OBVIOUS
      <3>2. ~ Restart
        BY DEF Restart
      <3>3. \A h \in armed : ~ TimerFires(h)
        BY Zenon DEF TimerFires
      <3> QED
        BY Zenon, <3>1, <3>2, <3>3
           DEF Next, RunStep, Tick, Handle, SyncLoss, HandleDomainEvent, LinkDown, LinkUp, SetMode
    <2>2. state = "holdover-in-spec" /\ handleLocked("HoldoverTimerExpired")
      BY Zenon, <2>1 DEF ExpireHoldover, clockVars
    <2>3. Current = "holdover-in-spec"
      BY Zenon, <2>2 DEF Current, IInv, Adopted
    <2>4. nextState(Current, "HoldoverTimerExpired") = "holdover-out-of-spec"
      BY Zenon, <2>3 DEF nextState
    <2>5. transition("holdover-out-of-spec")
      BY Zenon, <2>2, <2>3, <2>4 DEF handleLocked
    <2> QED BY Zenon, <2>2, <2>5 DEF transition
  <1> QED BY <1>1, Inductive, DomainRunsClock, PTL DEF Spec, LateExpiryIsHarmless
-----------------------------------------------------------------------------
(***************************************************************************)
(* The selection of SyncE.  selectSyncESource is one pass over a list: the *)
(* induction over its places is made explicit.                             *)
(***************************************************************************)

\* Induction: a set that holds 0 and the successors of its numbers holds them all.
LEMMA NatSetInduction ==
  ASSUME NEW S, 0 \in S, \A n \in Nat : n \in S => n + 1 \in S
  PROVE  Nat \subseteq S
  <1> DEFINE R == OpToRel(<, Nat)
             T == Nat \ S
  <1> SUFFICES ASSUME T # {} PROVE FALSE
    OBVIOUS
  <1>1. T \subseteq Nat
    OBVIOUS
  <1>2. \E x \in T : \A y \in T : ~ (<<y, x>> \in R)
    <2> HIDE DEF T, R
    <2> QED BY Zenon, <1>1, WFMin, NatLessThanWellFounded DEF R
  <1>3. PICK x \in T : \A y \in T : ~ (<<y, x>> \in R)
    BY Zenon, <1>2
  <1>4. x \in Nat /\ x # 0 /\ x - 1 \in Nat
    OBVIOUS
  <1>5. x - 1 \in T
    BY <1>4
  <1>6. <<x - 1, x>> \in R
    BY <1>4 DEF OpToRel
  <1> QED BY Zenon, <1>3, <1>5, <1>6

\* What the pass does with one more interface.
KeepBest(ifs, best, n) ==
    IF ifs[n].ssm /\ ifs[n].ql \in DOMAIN Rank /\ (best = 0 \/ betterSource(ifs, n, best))
    THEN n ELSE best

\* What the pass has found at each place.
IsPass(ifs, order, g) == g = [i \in Nat |-> IF i = 0 THEN 0 ELSE KeepBest(ifs, g[i - 1], order[i])]

\* The pass has a result, put together from those up to some place.
LEMMA PassDefined ==
  ASSUME NEW ifs, NEW order
  PROVE  \E g : IsPass(ifs, order, g)
  <1> DEFINE P(n, g) == g = [i \in 0..n |-> IF i = 0 THEN 0 ELSE KeepBest(ifs, g[i - 1], order[i])]
             S == {n \in Nat : \E g : P(n, g)}
             part(n) == CHOOSE g : P(n, g)
             F == [n \in Nat |-> part(n)[n]]
  <1>1. 0 \in S
    <2>1. P(0, [i \in 0..0 |-> 0])
      OBVIOUS
    <2> QED BY Zenon, <2>1
  <1>2. ASSUME NEW n \in Nat, n \in S PROVE n + 1 \in S
    <2>1. PICK g : P(n, g)
      BY Zenon, <1>2
    <2> DEFINE h == [i \in 0..(n + 1) |-> IF i = n + 1 THEN KeepBest(ifs, g[n], order[n + 1]) ELSE g[i]]
    <2>2. \A i \in 0..(n + 1) : h[i] = IF i = 0 THEN 0 ELSE KeepBest(ifs, h[i - 1], order[i])
      <3> SUFFICES ASSUME NEW i \in 0..(n + 1) PROVE h[i] = IF i = 0 THEN 0 ELSE KeepBest(ifs, h[i - 1], order[i])
        BY Zenon
      <3>1. CASE i = 0
        BY <2>1, <3>1
      <3>2. CASE i = n + 1
        BY <3>2
      <3>3. CASE i \in 1..n
        BY <2>1, <3>3
      <3> QED BY <3>1, <3>2, <3>3
    <2>3. P(n + 1, h) /\ n + 1 \in Nat
      BY <2>2
    <2> HIDE DEF h
    <2> QED BY Zenon, <2>3
  <1>3. Nat \subseteq S
    <2>1. \A n \in Nat : n \in S => n + 1 \in S
      BY Zenon, <1>2
    <2> HIDE DEF S
    <2> QED BY Zenon, <1>1, <2>1, NatSetInduction
  <1>4. \A n \in Nat : P(n, part(n))
    BY Zenon, <1>3
  <1>5. ASSUME NEW n \in Nat PROVE part(n + 1)[n] = part(n)[n]
    <2> DEFINE g == part(n)
               h == part(n + 1)
               T == {i \in Nat : i <= n => g[i] = h[i]}
    <2>1. P(n, g) /\ P(n + 1, h)
      <3>1. n + 1 \in Nat
        OBVIOUS
      <3> HIDE DEF P, part
      <3> QED BY Zenon, <1>4, <3>1
    <2> HIDE DEF g, h
    <2>2. 0 \in T
      <3>1. 0 \in 0..n /\ 0 \in 0..(n + 1)
        OBVIOUS
      <3>2. g[0] = 0 /\ h[0] = 0
        BY Zenon, <2>1, <3>1
      <3> QED BY Zenon, <3>2
    <2>3. ASSUME NEW i \in Nat, i \in T PROVE i + 1 \in T
      <3> SUFFICES ASSUME i + 1 <= n PROVE g[i + 1] = h[i + 1]
        OBVIOUS
      <3>1. i + 1 \in 0..n /\ i + 1 \in 0..(n + 1) /\ (i + 1) - 1 = i /\ i + 1 # 0
        OBVIOUS
      <3>2. g[i + 1] = KeepBest(ifs, g[i], order[i + 1]) /\ h[i + 1] = KeepBest(ifs, h[i], order[i + 1])
        BY Zenon, <2>1, <3>1
      <3> QED BY <2>3, <3>2
    <2>4. Nat \subseteq T
      <3>1. \A i \in Nat : i \in T => i + 1 \in T
        BY Zenon, <2>3
      <3> HIDE DEF T
      <3> QED BY Zenon, <2>2, <3>1, NatSetInduction
    <2>5. g[n] = h[n]
      BY <2>4
    <2> QED BY Zenon, <2>5 DEF g, h
  <1>6. ASSUME NEW n \in Nat PROVE F[n] = IF n = 0 THEN 0 ELSE KeepBest(ifs, F[n - 1], order[n])
    <2>1. P(n, part(n))
      BY Zenon, <1>4
    <2> HIDE DEF part
    <2>2. CASE n = 0
      BY <2>1, <2>2
    <2>3. CASE n # 0
      <3>1. n - 1 \in Nat /\ (n - 1) + 1 = n
        BY <2>3
      <3>2. part(n)[n - 1] = part(n - 1)[n - 1]
        BY Zenon, <1>5, <3>1
      <3>3. part(n)[n] = KeepBest(ifs, part(n)[n - 1], order[n])
        BY <2>1, <2>3
      <3> QED BY Zenon, <2>3, <3>1, <3>2, <3>3
    <2> QED BY Zenon, <2>2, <2>3
  <1>7. F = [n \in Nat |-> IF n = 0 THEN 0 ELSE KeepBest(ifs, F[n - 1], order[n])]
    <2> DEFINE G == [n \in Nat |-> IF n = 0 THEN 0 ELSE KeepBest(ifs, F[n - 1], order[n])]
    <2>1. F = [n \in Nat |-> F[n]]
      OBVIOUS
    <2> HIDE DEF F
    <2>2. \A n \in Nat : F[n] = G[n]
      BY Zenon, <1>6
    <2> QED BY Zenon, <2>1, <2>2
  <1> HIDE DEF F
  <1> QED BY Zenon, <1>7 DEF IsPass

\* The interfaces of a snapshot.
IfsTyped(ifs) ==
    /\ DOMAIN ifs \subseteq Nat \ {0}
    /\ \A n \in DOMAIN ifs : ifs[n] \in SyncEInterface

Usable(ifs) == {n \in DOMAIN ifs : ifs[n].ssm /\ ifs[n].ql # "QL-DNU"}

BestOf(ifs, S, b) == b \in S /\ \A k \in S : k = b \/ betterSource(ifs, b, k)

\* Every quality level but QL-DNU has a rank of its own.
LEMMA Ranks ==
  /\ DOMAIN Rank = QL \ {"QL-DNU"}
  /\ \A q \in DOMAIN Rank : Rank[q] \in Nat
  /\ \A q, r \in DOMAIN Rank : Rank[q] = Rank[r] => q = r
  BY DEF Rank, QL

\* betterSource puts the usable interfaces into one order.
LEMMA BetterOrders ==
  ASSUME NEW ifs, IfsTyped(ifs), NEW a \in Usable(ifs), NEW b \in Usable(ifs), NEW c \in Usable(ifs)
  PROVE  /\ a # b => (~ betterSource(ifs, a, b) => betterSource(ifs, b, a))
         /\ betterSource(ifs, a, b) /\ betterSource(ifs, b, c) => betterSource(ifs, a, c)
  <1>1. ASSUME NEW n \in Usable(ifs)
        PROVE  /\ n \in Nat /\ ifs[n].ql \in DOMAIN Rank /\ Rank[ifs[n].ql] \in Nat
               /\ ifs[n].priority \in Nat /\ ifs[n].prefers \in BOOLEAN
    BY <1>1, Ranks DEF Usable, IfsTyped, SyncEInterface
  <1> DEFINE x == ifs[a]
             y == ifs[b]
             z == ifs[c]
  <1>2. /\ Rank[x.ql] = Rank[y.ql] => x.ql = y.ql
        /\ Rank[y.ql] = Rank[z.ql] => y.ql = z.ql
        /\ Rank[x.ql] = Rank[z.ql] => x.ql = z.ql
    BY Zenon, <1>1, Ranks
  <1>3. a # b => (~ betterSource(ifs, a, b) => betterSource(ifs, b, a))
    BY <1>1, <1>2 DEF betterSource
  <1>4. betterSource(ifs, a, b) /\ betterSource(ifs, b, c) => betterSource(ifs, a, c)
    BY <1>1, <1>2 DEF betterSource
  <1> QED BY Zenon, <1>3, <1>4

\* One more interface: the pass keeps the best one.
LEMMA KeepStep ==
  ASSUME NEW ifs, IfsTyped(ifs), NEW S \in SUBSET Usable(ifs), NEW n \in DOMAIN ifs, NEW best,
         S = {} => best = 0, S # {} => BestOf(ifs, S, best),
         NEW T, T = S \cup ({n} \cap Usable(ifs))
  PROVE  /\ T = {} => KeepBest(ifs, best, n) = 0
         /\ T # {} => BestOf(ifs, T, KeepBest(ifs, best, n))
  <1> DEFINE kept == KeepBest(ifs, best, n)
  <1>1. n \in Usable(ifs) <=> ifs[n].ssm /\ ifs[n].ql \in DOMAIN Rank
    BY Zenon, Ranks DEF Usable, IfsTyped, SyncEInterface
  <1>2. CASE n \notin Usable(ifs)
    <2>1. kept = best /\ S \cup ({n} \cap Usable(ifs)) = S
      BY Zenon, <1>1, <1>2 DEF KeepBest
    <2> QED BY Zenon, <2>1
  <1>3. CASE n \in Usable(ifs) /\ S = {}
    <2>1. kept = n /\ S \cup ({n} \cap Usable(ifs)) = {n}
      BY Zenon, <1>1, <1>3 DEF KeepBest
    <2> QED BY Zenon, <2>1 DEF BestOf
  <1>4. CASE n \in Usable(ifs) /\ S # {}
    <2>1. best \in Usable(ifs) /\ best # 0 /\ best \in S /\ \A k \in S : k = best \/ betterSource(ifs, best, k)
      BY Zenon, <1>4 DEF BestOf, Usable, IfsTyped
    <2>2. S \cup ({n} \cap Usable(ifs)) = S \cup {n} /\ S \cup {n} # {}
      BY Zenon, <1>4
    <2>3. CASE betterSource(ifs, n, best)
      <3>1. kept = n
        BY Zenon, <1>1, <1>4, <2>3 DEF KeepBest
      <3>2. \A k \in S : k = n \/ betterSource(ifs, n, k)
        BY Zenon, <1>4, <2>1, <2>3, BetterOrders
      <3> QED BY Zenon, <2>2, <3>1, <3>2 DEF BestOf
    <2>4. CASE ~ betterSource(ifs, n, best)
      <3>1. kept = best
        BY Zenon, <2>1, <2>4 DEF KeepBest
      <3>2. n = best \/ betterSource(ifs, best, n)
        BY <1>4, <2>1, <2>4, BetterOrders
      <3> QED BY Zenon, <2>1, <2>2, <3>1, <3>2 DEF BestOf
    <2> QED BY Zenon, <2>3, <2>4
  <1> QED BY Zenon, <1>2, <1>3, <1>4

\* A pass, one entry at a time.
Pass(ifs, order) == CHOOSE g : IsPass(ifs, order, g)

LEMMA PassSteps ==
  ASSUME NEW ifs, NEW order
  PROVE  /\ Pass(ifs, order)[0] = 0
         /\ \A i \in Nat : Pass(ifs, order)[i + 1] = KeepBest(ifs, Pass(ifs, order)[i], order[i + 1])
  <1> DEFINE g == Pass(ifs, order)
  <1>g. IsPass(ifs, order, g)
    BY Zenon, PassDefined DEF Pass
  <1> HIDE DEF g
  <1>1. \A i \in Nat : g[i] = IF i = 0 THEN 0 ELSE KeepBest(ifs, g[i - 1], order[i])
    BY Zenon, <1>g DEF IsPass
  <1>2. ASSUME NEW i \in Nat PROVE g[i + 1] = KeepBest(ifs, g[i], order[i + 1])
    <2>1. i + 1 \in Nat /\ i + 1 # 0 /\ (i + 1) - 1 = i
      OBVIOUS
    <2> QED BY Zenon, <1>1, <2>1
  <1> QED BY Zenon, <1>1, <1>2 DEF g

\* The whole pass, over interfaces listed in any order, finds the best of them.
LEMMA PassFindsBest ==
  ASSUME NEW ifs, IfsTyped(ifs), NEW order \in Seq(DOMAIN ifs),
         \A n \in DOMAIN ifs : \E i \in 1..Len(order) : order[i] = n
  PROVE  \E b : /\ Usable(ifs) = {} => b = 0
                /\ Usable(ifs) # {} => BestOf(ifs, Usable(ifs), b) /\ b # 0
                /\ \A on : selectSyncESource(on, ifs, order) =
                       IF ~ on \/ b = 0 THEN NoSelection
                       ELSE [name |-> b, ql |-> ifs[b].ql, extended |-> ifs[b].extended]
  <1> DEFINE n == Len(order)
             w == Pass(ifs, order)
             U(i) == {order[j] : j \in 1..i} \cap Usable(ifs)
             Found(i) == /\ U(i) = {} => w[i] = 0
                         /\ U(i) # {} => BestOf(ifs, U(i), w[i])
             T == {i \in Nat : i <= n => Found(i)}
  <1>1. w[0] = 0 /\ \A i \in Nat : w[i + 1] = KeepBest(ifs, w[i], order[i + 1])
    BY PassSteps
  <1>2. \A on : selectSyncESource(on, ifs, order) =
            IF ~ on \/ w[n] = 0 THEN NoSelection
            ELSE [name |-> w[n], ql |-> ifs[w[n]].ql, extended |-> ifs[w[n]].extended]
    BY Zenon DEF selectSyncESource, KeepBest, IsPass, Pass
  <1> HIDE DEF w
  <1>3. n \in Nat /\ \A i \in 1..n : order[i] \in DOMAIN ifs
    OBVIOUS
  <1>4. 0 \in T
    <2>1. U(0) = {}
      OBVIOUS
    <2>2. w[0] = 0
      BY Zenon, <1>1
    <2> HIDE DEF U
    <2> QED BY Zenon, <2>1, <2>2
  <1>5. ASSUME NEW i \in Nat, i \in T PROVE i + 1 \in T
    <2>1. w[i + 1] = KeepBest(ifs, w[i], order[i + 1])
      BY Zenon, <1>1
    <2>2. 1..(i + 1) = 1..i \cup {i + 1}
      OBVIOUS
    <2>3. U(i + 1) = U(i) \cup ({order[i + 1]} \cap Usable(ifs))
      BY Zenon, <2>2
    <2>4. U(i) \in SUBSET Usable(ifs)
      BY Zenon
    <2> HIDE DEF U
    <2>5. ASSUME order[i + 1] \in DOMAIN ifs, Found(i) PROVE Found(i + 1)
      <3> DEFINE kept == KeepBest(ifs, w[i], order[i + 1])
      <3>1. /\ U(i + 1) = {} => kept = 0
            /\ U(i + 1) # {} => BestOf(ifs, U(i + 1), kept)
        <4> HIDE DEF kept
        <4> QED BY Zenon, <2>3, <2>4, <2>5, KeepStep DEF kept
      <3> QED BY Zenon, <2>1, <3>1
    <2>6. i + 1 <= n => i <= n /\ order[i + 1] \in DOMAIN ifs
      <3>1. n \in Nat
        BY Zenon, <1>3
      <3>2. i + 1 <= n => i <= n /\ i + 1 \in 1..n
        BY <3>1
      <3> QED BY Zenon, <1>3, <3>2
    <2> HIDE DEF Found
    <2> QED BY <1>5, <2>5, <2>6
  <1>6. Nat \subseteq T
    <2>1. \A i \in Nat : i \in T => i + 1 \in T
      BY Zenon, <1>5
    <2> HIDE DEF T
    <2> QED BY Zenon, <1>4, <2>1, NatSetInduction
  <1>7. U(n) = Usable(ifs)
    BY Zenon DEF Usable
  <1>8. /\ Usable(ifs) = {} => w[n] = 0
        /\ Usable(ifs) # {} => BestOf(ifs, Usable(ifs), w[n])
    <2>1. n \in T
      <3> HIDE DEF T, n
      <3> QED BY Zenon, <1>3, <1>6
    <2>2. Found(n)
      <3> HIDE DEF Found, n
      <3> QED BY <1>3, <2>1
    <2> HIDE DEF U, n
    <2> QED BY Zenon, <1>7, <2>2
  <1>9. Usable(ifs) # {} => w[n] # 0
    BY Zenon, <1>8 DEF BestOf, Usable, IfsTyped
  <1> QED BY Zenon, <1>2, <1>8, <1>9

\* The criteria one after the other leave the best source, and only that one.
LEMMA BestIsBest ==
  ASSUME IfsTyped(interfaces), enabled
  PROVE  /\ Usable(interfaces) = {} => BestSource = {}
         /\ \A b : BestOf(interfaces, Usable(interfaces), b) => BestSource = {b}
  <1> DEFINE S == Usable(interfaces)
             R == {n \in S : \A k \in S : Rank[interfaces[n].ql] <= Rank[interfaces[k].ql]}
             P == {n \in R : \A k \in R : interfaces[n].priority <= interfaces[k].priority}
             F == {n \in P : interfaces[n].prefers}
             Q == IF F # {} THEN F ELSE P
  <1>1. BestSource = {n \in Q : \A k \in Q : n <= k}
    BY ZenonT(30) DEF BestSource, Usable
  <1>2. ASSUME NEW n \in S
        PROVE  /\ n \in Nat /\ interfaces[n].ql \in DOMAIN Rank /\ Rank[interfaces[n].ql] \in Nat
               /\ interfaces[n].priority \in Nat /\ interfaces[n].prefers \in BOOLEAN
    BY <1>2, Ranks DEF Usable, IfsTyped, SyncEInterface
  <1>3. \A n, k \in S : Rank[interfaces[n].ql] = Rank[interfaces[k].ql] =>
                            interfaces[n].ql = interfaces[k].ql
    BY <1>2, Ranks
  <1>4. S = {} => BestSource = {}
    BY Zenon, <1>1
  <1>5. ASSUME NEW b, b \in S, \A k \in S : k = b \/ betterSource(interfaces, b, k)
        PROVE  BestSource = {b}
    <2> HIDE DEF S
    <2>1. \A k \in S : Rank[interfaces[b].ql] <= Rank[interfaces[k].ql]
      BY <1>2, <1>5 DEF betterSource
    <2>2. b \in R /\ \A k \in R : k \in S /\ interfaces[k].ql = interfaces[b].ql
      BY <1>2, <1>3, <1>5, <2>1
    <2>3. \A k \in R : interfaces[b].priority <= interfaces[k].priority
      BY <1>2, <1>5, <2>2 DEF betterSource
    <2> HIDE DEF R
    <2>4. b \in P /\ \A k \in P : k \in R /\ k \in S /\ interfaces[k].priority = interfaces[b].priority
      BY <1>2, <1>5, <2>2, <2>3
    <2> HIDE DEF P
    <2>5. \A k \in P : k = b \/ interfaces[b].prefers \/ ~ interfaces[k].prefers
      BY Zenon, <1>2, <1>5, <2>2, <2>4 DEF betterSource
    <2>6. b \in Q /\ \A k \in Q : k \in P /\ (interfaces[k].prefers <=> interfaces[b].prefers)
      BY Zenon, <2>4, <2>5
    <2> HIDE DEF Q
    <2>7. \A k \in Q : k = b \/ b < k
      BY <1>2, <1>5, <2>2, <2>4, <2>6 DEF betterSource
    <2>8. b \in Nat /\ \A k \in Q : k \in Nat
      BY <1>2, <1>5, <2>4, <2>6
    <2>9. b \in BestSource
      BY <1>1, <2>6, <2>7, <2>8
    <2>10. ASSUME NEW c \in BestSource PROVE c = b
      <3>1. c \in Q /\ c <= b
        BY Zenon, <1>1, <2>6
      <3> QED BY <2>7, <2>8, <3>1
    <2> QED BY Zenon, <2>9, <2>10
  <1> QED BY Zenon, <1>4, <1>5 DEF BestOf

\* Interfaces of the template, in the configuration, the startup document and the
\* confirmed commit that is pending.
Configured(ifs) ==
    /\ DOMAIN ifs \subseteq Names
    /\ \A n \in DOMAIN ifs : ifs[n] \in SyncEInterface

SynceInv ==
    /\ Configured(interfaces)
    /\ Configured(startup.interfaces)
    /\ \A d \in saved : Configured(d.interfaces)

\* The names number the interfaces of the template.
LEMMA NamesFinite == Names \subseteq Nat \ {0} /\ IsFiniteSet(Names)
  <1>1. Names = 1..2
    BY DEF Names, SeedInterfaces
  <1>2. IsFiniteSet(1..2)
    <2>1. 1 \in Int /\ 2 \in Int
      OBVIOUS
    <2> QED BY Zenon, <2>1, FS_Interval
  <1> QED BY <1>1, <1>2

\* What the planes put there is an interface.
LEMMA PutConfigured ==
  ASSUME Configured(interfaces), NEW n \in Names, NEW c \in Sources
  PROVE  Configured(Put(n, c))
  BY Zenon, SourcesAreInterfaces DEF Configured, Put

\* The template, and any startup document.
LEMMA SynceStarts == DomainInit => SynceInv
  <1> SUFFICES ASSUME SynceInit PROVE SynceInv
    BY Zenon DEF DomainInit
  <1>1. Configured(interfaces)
    <2>1. CASE interfaces = SeedInterfaces
      <3>1. SeedInterfaces[1] \in SyncEInterface /\ SeedInterfaces[2] \in SyncEInterface
        BY DEF SeedInterfaces, SyncEInterface, QL, ExtendedQL
      <3>2. DOMAIN SeedInterfaces = {1, 2}
        BY DEF SeedInterfaces
      <3>3. Configured(SeedInterfaces)
        BY Zenon, <3>1, <3>2 DEF Configured, Names
      <3> QED BY Zenon, <2>1, <3>3
    <2>2. CASE interfaces \in UNION {[D -> Sources] : D \in SUBSET Names}
      BY Zenon, <2>2, SourcesAreInterfaces DEF Configured
    <2> QED BY Zenon, <2>1, <2>2 DEF SynceInit
  <1>2. startup.interfaces = interfaces /\ saved = {}
    BY Zenon DEF SynceInit, Document
  <1> QED BY Zenon, <1>1, <1>2 DEF SynceInv

\* Every step of the domain keeps them.
LEMMA SynceSteps == SynceInv /\ [DomainNext]_domainVars => SynceInv'
  <1> SUFFICES ASSUME SynceInv, [DomainNext]_domainVars PROVE SynceInv'
    OBVIOUS
  <1>1. ASSUME UNCHANGED <<interfaces, saved, startup>> PROVE SynceInv'
    BY Zenon, <1>1 DEF SynceInv
  <1>2. CASE Planes
    <2>1. ASSUME NEW on, NEW ifs, Configured(ifs), interfaces' = ifs,
                 startup' = startup \/ startup' = Document(on, ifs),
                 \A d \in saved' : d \in saved \/ d.interfaces = interfaces
          PROVE  SynceInv'
      BY <2>1 DEF SynceInv, Document
    <2>2. CASE SetEnabled
      <3>1. Configured(interfaces)
        BY Zenon DEF SynceInv
      <3> QED BY Zenon, <2>1, <2>2, <3>1 DEF SetEnabled, Transact, Saves
    <2>3. ASSUME NEW n \in Names, NEW c \in Sources, SetInterface(n, c) PROVE SynceInv'
      <3>1. Configured(Put(n, c))
        BY Zenon, PutConfigured DEF SynceInv
      <3> QED BY Zenon, <2>1, <2>3, <3>1 DEF SetInterface, Transact, Saves
    <2>4. ASSUME NEW n \in Names, DeleteInterface(n) PROVE SynceInv'
      <3> DEFINE left == [i \in DOMAIN interfaces \ {n} |-> interfaces[i]]
      <3>1. Configured(left)
        BY Zenon DEF SynceInv, Configured
      <3>2. /\ interfaces' = left /\ saved' = saved
            /\ startup' = startup \/ startup' = Document(enabled, left)
        BY Zenon, <2>4 DEF DeleteInterface, Transact, Saves
      <3> HIDE DEF left
      <3> QED BY Zenon, <2>1, <3>1, <3>2
    <2>5. ASSUME NEW n \in Names, NEW c \in Sources, ConfirmedCommit(n, c) PROVE SynceInv'
      <3>1. Configured(Put(n, c))
        BY PutConfigured DEF SynceInv
      <3> QED BY <2>1, <2>5, <3>1 DEF ConfirmedCommit, Transact
    <2>6. CASE Confirm
      BY Zenon, <2>6 DEF Confirm, SynceInv
    <2>7. CASE Rollback
      BY <2>7 DEF Rollback, SynceInv, Document
    <2> QED BY <1>2, <2>2, <2>3, <2>4, <2>5, <2>6, <2>7 DEF Planes, Edit
  <1>3. CASE Reboot
    BY Zenon, <1>3 DEF Reboot, LoadStartup, SynceInv
  <1>4. CASE DomainTick \/ TickWrites
    BY Zenon, <1>1, <1>4 DEF DomainTick, refreshSyncE, TickWrites, stateWrite, EndRefresh
  <1>5. CASE TakeExpiry \/ TakeEvent \/ (\E h \in Holdovers : Timer(h)) \/ Request \/ Surroundings
    BY Zenon, <1>1, <1>5 DEF TakeExpiry, TakeEvent, Timer, Request, Surroundings, synceVars
  <1>6. CASE UNCHANGED domainVars
    BY Zenon, <1>1, <1>6 DEF domainVars, synceVars
  <1> QED BY <1>2, <1>3, <1>4, <1>5, <1>6 DEF DomainNext

(***************************************************************************)
(* selectSyncESource finds the source that the criteria of SYNCE.md 5.3    *)
(* leave, in whatever order a snapshot lists the interfaces, for every     *)
(* configuration of them that the planes, the rollbacks and the startup    *)
(* document can bring about.                                               *)
(***************************************************************************)
THEOREM SelectionFindsBest == DomainSpec => []SelectionIsBest
  <1>1. SynceInv => SelectionIsBest
    <2> SUFFICES ASSUME SynceInv, NEW order \in SetToSeqs(DOMAIN interfaces)
                 PROVE  LET s == selectSyncESource(enabled, interfaces, order)
                        IN  IF BestSource = {} THEN s = NoSelection
                            ELSE /\ s.name \in BestSource
                                 /\ s.ql = interfaces[s.name].ql
                                 /\ s.extended = interfaces[s.name].extended
      BY Zenon DEF SelectionIsBest
    <2> DEFINE D == DOMAIN interfaces
               n == Cardinality(D)
               S == Usable(interfaces)
    <2>1. IfsTyped(interfaces) /\ IsFiniteSet(D)
      <3>1. D \in SUBSET Names /\ IfsTyped(interfaces)
        BY Zenon, NamesFinite DEF SynceInv, Configured, IfsTyped
      <3> QED BY Zenon, <3>1, NamesFinite, FS_Subset
    <2>2. n \in Nat
      BY Zenon, <2>1, FS_CardinalityType
    <2>3. order \in [1..n -> D] /\ \A i, j \in 1..n : i # j => order[i] # order[j]
      BY Zenon DEF SetToSeqs
    <2> HIDE DEF n, D
    <2>4. order \in Seq(D) /\ Len(order) = n
      BY <2>2, <2>3
    <2>5. \A k \in D : \E i \in 1..n : order[i] = k
      <3>1. order \in Injection(1..n, D)
        BY Zenon, <2>3 DEF Injection, IsInjective
      <3>2. Cardinality(1..n) = n
        BY <2>2, FS_Interval
      <3>3. order \in Surjection(1..n, D)
        BY <2>1, <3>1, <3>2, FS_Injection DEF n
      <3> QED BY Zenon, <3>3 DEF Surjection
    <2>6. PICK b : /\ S = {} => b = 0
                   /\ S # {} => BestOf(interfaces, S, b) /\ b # 0
                   /\ \A on : selectSyncESource(on, interfaces, order) =
                          IF ~ on \/ b = 0 THEN NoSelection
                          ELSE [name |-> b, ql |-> interfaces[b].ql, extended |-> interfaces[b].extended]
      BY <2>1, <2>4, <2>5, PassFindsBest DEF D
    <2>7. CASE ~ enabled
      <3>1. BestSource = {}
        BY Zenon, <2>7 DEF BestSource
      <3> QED BY Zenon, <2>6, <2>7, <3>1
    <2>8. CASE enabled /\ S = {}
      BY Zenon, <2>1, <2>6, <2>8, BestIsBest
    <2>9. CASE enabled /\ S # {}
      <3>1. BestSource = {b} /\ b # 0
        BY <2>1, <2>6, <2>9, BestIsBest
      <3>2. selectSyncESource(enabled, interfaces, order) =
                [name |-> b, ql |-> interfaces[b].ql, extended |-> interfaces[b].extended]
        BY Zenon, <2>6, <2>9, <3>1
      <3> QED BY <3>1, <3>2
    <2> QED BY Zenon, <2>7, <2>8, <2>9
  <1> QED BY <1>1, SynceStarts, SynceSteps, PTL DEF DomainSpec
=============================================================================
