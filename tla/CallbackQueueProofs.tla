------------------------- MODULE CallbackQueueProofs -------------------------
(***************************************************************************)
(* Proofs about CallbackQueue, for any threads, clients and MaxWaits.      *)
(*                                                                         *)
(* FreshId returns an unused id (a counting argument); with it the type    *)
(* invariant and HandlesAreOwned are inductive.  The single shots need a   *)
(* strengthening, ShotsInv, that says which stored shots have run: none,   *)
(* except those the loop of call has passed while it holds the mutex.      *)
(***************************************************************************)
EXTENDS CallbackQueue, FiniteSetTheorems, WellFoundedInduction, TLAPS

(* A non-empty set of naturals has a least element, and Min is it. *)
LEMMA MinOfNaturals ==
  ASSUME NEW S, S \subseteq Nat, S # {}
  PROVE  Min(S) \in S /\ \A y \in S : Min(S) <= y
<1> DEFINE R == {p \in Nat \X Nat : p[1] < p[2]}
<1>1. R = OpToRel(<, Nat)
  BY DEF OpToRel
<1>2. IsWellFoundedOn(R, Nat)
  BY <1>1, NatLessThanWellFounded
<1> HIDE DEF R
<1>3. PICK x \in S : \A y \in S : ~ (<<y, x>> \in R)
  BY <1>2, WFMin
<1>4. ASSUME NEW y \in S  PROVE x <= y
  <2>1. y < x => <<y, x>> \in R
    BY DEF R
  <2>2. y \in Nat /\ x \in Nat
    OBVIOUS
  <2> QED  BY <1>3, <2>1, <2>2
<1> QED  BY <1>4 DEF Min

(* The id search of add_callback and add_single_shot ends on a free id. *)
LEMMA FreshIdIsFree ==
  ASSUME NEW S, S \subseteq Nat, IsFiniteSet(S)
  PROVE  FreshId(S) \in Nat /\ FreshId(S) \notin S
<1> DEFINE n == Cardinality(S)
           room == n .. 2 * n
<1>1. n \in Nat
  BY FS_CardinalityType
<1>2. room \ S # {}
  <2> SUFFICES ASSUME room \subseteq S  PROVE FALSE
    OBVIOUS
  <2>1. Cardinality(room) <= n
    BY FS_Subset
  <2>2. Cardinality(room) = 2 * n - n + 1
    BY <1>1, FS_Interval
  <2> HIDE DEF n
  <2> QED  BY <1>1, <2>1, <2>2
<1>3. room \ S \subseteq Nat
  BY <1>1
<1>4. Min(room \ S) \in room \ S
  BY <1>2, <1>3, MinOfNaturals
<1> QED  BY <1>3, <1>4 DEF FreshId

(* Storing under a fresh id, and erasing an id, keep a table finite. *)
LEMMA PutTable ==
  ASSUME NEW V, NEW f, f \in [DOMAIN f -> V], DOMAIN f \subseteq Nat,
         IsFiniteSet(DOMAIN f), NEW i \in Nat, NEW v \in V
  PROVE  /\ Put(f, i, v) \in [DOMAIN Put(f, i, v) -> V]
         /\ DOMAIN Put(f, i, v) = DOMAIN f \union {i}
         /\ DOMAIN Put(f, i, v) \subseteq Nat
         /\ IsFiniteSet(DOMAIN Put(f, i, v))
         /\ \A j \in DOMAIN f : j # i => Put(f, i, v)[j] = f[j]
         /\ Put(f, i, v)[i] = v
<1>1. DOMAIN Put(f, i, v) = DOMAIN f \union {i}
  BY DEF Put
<1>2. IsFiniteSet(DOMAIN f \union {i})
  BY FS_AddElement
<1> QED  BY <1>1, <1>2 DEF Put

LEMMA WithoutTable ==
  ASSUME NEW V, NEW f, f \in [DOMAIN f -> V], DOMAIN f \subseteq Nat,
         IsFiniteSet(DOMAIN f), NEW i
  PROVE  /\ Without(f, i) \in [DOMAIN Without(f, i) -> V]
         /\ DOMAIN Without(f, i) = DOMAIN f \ {i}
         /\ DOMAIN Without(f, i) \subseteq Nat
         /\ IsFiniteSet(DOMAIN Without(f, i))
         /\ \A j \in DOMAIN f \ {i} : Without(f, i)[j] = f[j]
<1>1. DOMAIN Without(f, i) = DOMAIN f \ {i}
  BY DEF Without
<1>2. IsFiniteSet(DOMAIN f \ {i})
  BY FS_Subset
<1> QED  BY <1>1, <1>2 DEF Without

-------------------------------------------------------------------------------
(* The type invariant is inductive. *)
LEMMA TypeStep ==
  ASSUME TypeOK, [Next]_vars
  PROVE  TypeOK'
<1> USE DEF TypeOK
<1>1. CASE UNCHANGED vars
  BY <1>1 DEF vars, queueVars, callVars, waitVars
<1>2. ASSUME NEW c \in Clients, AddCallback(c)
      PROVE  TypeOK'
  <2> DEFINE newId == FreshId(DOMAIN callbacks)
  <2>1. newId \in Nat
    BY FreshIdIsFree
  <2>2. callbacks' = Put(callbacks, newId, c) /\ handle' = [handle EXCEPT ![c] = newId]
    BY <1>2 DEF AddCallback
  <2> HIDE DEF newId
  <2>3. /\ callbacks' \in [DOMAIN callbacks' -> Clients]
        /\ DOMAIN callbacks' \subseteq Nat /\ IsFiniteSet(DOMAIN callbacks')
    BY <2>1, <2>2, PutTable
  <2>4. handle' \in [Clients -> Nat \union {NoId}]
    BY <2>1, <2>2
  <2> QED  BY <1>2, <2>3, <2>4 DEF AddCallback, callVars, waitVars
<1>3. ASSUME NEW c \in Clients, RemoveCallback(c)
      PROVE  TypeOK'
  <2>1. /\ callbacks' \in [DOMAIN callbacks' -> Clients]
        /\ DOMAIN callbacks' \subseteq Nat /\ IsFiniteSet(DOMAIN callbacks')
    BY <1>3, WithoutTable DEF RemoveCallback
  <2>2. handle' \in [Clients -> Nat \union {NoId}]
    BY <1>3 DEF RemoveCallback
  <2> QED  BY <1>3, <2>1, <2>2 DEF RemoveCallback, callVars, waitVars
<1>4. CASE BeginCall
  BY <1>4 DEF BeginCall, queueVars, waitVars
<1>5. ASSUME NEW i \in Pending, RunCallback(i)
      PROVE  TypeOK'
  BY <1>5 DEF RunCallback, Pending, Without, queueVars, waitVars
<1>6. CASE CallbackReturns
  BY <1>6 DEF CallbackReturns, queueVars, waitVars
<1>7. CASE LockShots
  BY <1>7 DEF LockShots, queueVars, waitVars
<1>8. ASSUME NEW i \in shotsLeft, RunShot(i)
      PROVE  TypeOK'
  BY <1>8 DEF RunShot, queueVars, waitVars
<1>9. CASE ClearShots
  <2>1. DOMAIN singleShots' = {} /\ shotsLeft' = {}
    BY <1>9 DEF ClearShots, Cleared, ShotsAllRun
  <2>2. IsFiniteSet({})
    BY FS_EmptySet
  <2> QED  BY <1>9, <2>1, <2>2 DEF ClearShots, Cleared, queueVars, waitVars
<1>10. CASE NotifyAll
  BY <1>10 DEF NotifyAll, queueVars
<1>11. ASSUME NEW t \in Threads, Register(t)
       PROVE  TypeOK'
  <2> DEFINE id == FreshId(DOMAIN singleShots)
             w == <<t, ticket[t] + 1>>
  <2>1. id \in Nat
    BY FreshIdIsFree
  <2>2. w \in Waits
    BY <1>11, MaxWaitsAssumption DEF Register, Waits, Tickets
  <2>3. singleShots' = Put(singleShots, id, w)
    BY <1>11 DEF Register
  <2> HIDE DEF id, w
  <2>4. /\ singleShots' \in [DOMAIN singleShots' -> Waits]
        /\ DOMAIN singleShots' = DOMAIN singleShots \union {id}
        /\ DOMAIN singleShots' \subseteq Nat /\ IsFiniteSet(DOMAIN singleShots')
    <3>1. /\ singleShots \in [DOMAIN singleShots -> Waits]
          /\ DOMAIN singleShots \subseteq Nat /\ IsFiniteSet(DOMAIN singleShots)
      OBVIOUS
    <3> HIDE DEF TypeOK
    <3>2. /\ Put(singleShots, id, w) \in [DOMAIN Put(singleShots, id, w) -> Waits]
          /\ DOMAIN Put(singleShots, id, w) = DOMAIN singleShots \union {id}
          /\ DOMAIN Put(singleShots, id, w) \subseteq Nat
          /\ IsFiniteSet(DOMAIN Put(singleShots, id, w))
      BY <2>1, <2>2, <3>1, PutTable, SMTT(30)
    <3> QED  BY <2>3, <3>2
  <2>5. ticket' \in [Threads -> 0 .. MaxWaits]
    BY <1>11, MaxWaitsAssumption DEF Register
  <2> QED
    BY <1>11, <2>4, <2>5 DEF Register, FlagOnRegister, queueVars, callVars
<1>12. ASSUME NEW t \in Threads, Expire(t)
       PROVE  TypeOK'
  BY <1>12 DEF Expire, queueVars, callVars
<1>13. ASSUME NEW t \in Threads, WakeUp(t)
       PROVE  TypeOK'
  BY <1>13 DEF WakeUp, queueVars, callVars
<1>14. ASSUME NEW t \in Threads, Reacquire(t)
       PROVE  TypeOK'
  BY <1>14 DEF Reacquire, queueVars, callVars
<1> QED
  BY <1>1, <1>2, <1>3, <1>4, <1>5, <1>6, <1>7, <1>8, <1>9, <1>10, <1>11, <1>12,
     <1>13, <1>14 DEF Next, CallStep

(* Every reachable state of the queue is well typed. *)
THEOREM TypeCorrect == Spec => []TypeOK
<1>1. Init => TypeOK
  <2> SUFFICES ASSUME Init  PROVE TypeOK
    OBVIOUS
  <2>1. DOMAIN << >> = {} /\ IsFiniteSet({})
    BY FS_EmptySet
  <2> QED  BY <2>1, MaxWaitsAssumption DEF Init, TypeOK
<1> QED  BY <1>1, TypeStep, PTL DEF Spec

-------------------------------------------------------------------------------
(* Ids: an id is handed to one client at a time. *)
LEMMA HandlesStep ==
  ASSUME TypeOK, HandlesAreOwned, [Next]_vars
  PROVE  HandlesAreOwned'
<1>1. CASE UNCHANGED queueVars
  BY <1>1 DEF queueVars, HandlesAreOwned
<1>2. ASSUME NEW c \in Clients, AddCallback(c)
      PROVE  HandlesAreOwned'
  <2> DEFINE newId == FreshId(DOMAIN callbacks)
  <2>1. newId \in Nat /\ newId \notin DOMAIN callbacks
    BY FreshIdIsFree DEF TypeOK
  <2>2. callbacks' = Put(callbacks, newId, c) /\ handle' = [handle EXCEPT ![c] = newId]
    BY <1>2 DEF AddCallback
  <2>3. handle \in [Clients -> Nat \union {NoId}] /\ handle[c] = NoId
    BY <1>2 DEF AddCallback, TypeOK
  <2>4. callbacks \in [DOMAIN callbacks -> Clients]
    BY DEF TypeOK
  <2> HIDE DEF newId
  <2>5. /\ DOMAIN callbacks' = DOMAIN callbacks \union {newId}
        /\ callbacks'[newId] = c
        /\ \A i \in DOMAIN callbacks : callbacks'[i] = callbacks[i]
    BY <2>1, <2>2, <2>4 DEF Put
  <2>6. handle'[c] = newId /\ \A d \in Clients \ {c} : handle'[d] = handle[d]
    BY <2>2, <2>3
  <2>7. ASSUME NEW d \in Clients, handle'[d] # NoId
        PROVE  handle'[d] \in DOMAIN callbacks' /\ callbacks'[handle'[d]] = d
    BY <2>5, <2>6, <2>7 DEF HandlesAreOwned
  <2>8. ASSUME NEW i \in DOMAIN callbacks'
        PROVE  handle'[callbacks'[i]] = i
    <3>1. CASE i = newId
      BY <2>5, <2>6, <3>1
    <3>2. CASE i \in DOMAIN callbacks
      <4>1. handle[callbacks[i]] = i /\ i # NoId
        BY <3>2 DEF HandlesAreOwned, TypeOK, NoId
      <4> QED  BY <2>3, <2>4, <2>5, <2>6, <3>2, <4>1
    <3> QED  BY <2>5, <3>1, <3>2
  <2> QED  BY <2>7, <2>8 DEF HandlesAreOwned
<1>3. ASSUME NEW c \in Clients, RemoveCallback(c)
      PROVE  HandlesAreOwned'
  BY <1>3 DEF RemoveCallback, HandlesAreOwned, Without, TypeOK
<1>4. CallStep => UNCHANGED queueVars
  BY DEF CallStep, RunCallback, CallbackReturns, LockShots, RunShot, ClearShots, NotifyAll
<1>5. BeginCall => UNCHANGED queueVars
  BY DEF BeginCall
<1>6. ASSUME NEW t \in Threads,
             Register(t) \/ Expire(t) \/ WakeUp(t) \/ Reacquire(t)
      PROVE  UNCHANGED queueVars
  BY <1>6 DEF Register, Expire, WakeUp, Reacquire
<1> QED
  BY <1>1, <1>2, <1>3, <1>4, <1>5, <1>6 DEF Next, vars

(* Every client finds its callback under its id, and every stored callback *)
(* belongs to a client that can still remove it, for any number of them.   *)
THEOREM HandlesCorrect == Spec => []HandlesAreOwned
<1>1. Init => HandlesAreOwned
  BY DEF Init, HandlesAreOwned
<1> QED  BY <1>1, TypeCorrect, HandlesStep, PTL DEF Spec

-------------------------------------------------------------------------------
(* Single shots: the invariants of the run "queue_shots", together. *)
ShotsSafe == ShotsInv /\ RunsAtMostOnce /\ NoShotIsLost /\ CalledMeansRan

(* What ShotsSafe depends on; most steps leave it alone. *)
SameShots ==
  /\ UNCHANGED <<singleShots, shotsLeft, sShotsCalled, runs, ticket, result>>
  /\ pc' = "shots" <=> pc = "shots"
  /\ \A t \in Threads : state'[t] = "out" <=> state[t] = "out"

LEMMA ShotsUndisturbed ==
  ASSUME TypeOK, ShotsSafe, SameShots
  PROVE  ShotsSafe'
<1>1. ShotsInv'
  BY DEF ShotsSafe, SameShots, ShotsInv
<1>2. RunsAtMostOnce' /\ NoShotIsLost'
  BY DEF ShotsSafe, SameShots, RunsAtMostOnce, NoShotIsLost
<1>3. CalledMeansRan'
  BY DEF ShotsSafe, SameShots, CalledMeansRan
<1> QED  BY <1>1, <1>2, <1>3 DEF ShotsSafe

(* The loop of call runs one stored callback, for the first time. *)
LEMMA RunShotSafe ==
  ASSUME TypeOK, ShotsSafe, NEW i \in shotsLeft, RunShot(i)
  PROVE  ShotsSafe'
<1>1. PICK u \in Threads, m \in Tickets : singleShots[i] = <<u, m>>
  BY DEF TypeOK, Waits
<1>2. /\ m <= ticket[u]
      /\ runs[<<u, m>>] = 0
      /\ \A j \in DOMAIN singleShots : j # i => singleShots[j] # <<u, m>>
  <2>1. i \in DOMAIN singleShots
    BY DEF TypeOK
  <2>2. /\ singleShots[i][2] <= ticket[singleShots[i][1]]
        /\ runs[singleShots[i]] = 0
        /\ \A j \in DOMAIN singleShots : singleShots[i] = singleShots[j] => i = j
    BY <2>1 DEF ShotsSafe, ShotsInv
  <2> QED  BY <1>1, <2>1, <2>2
<1>3. /\ runs'[<<u, m>>] = 1
      /\ \A w \in Waits : w # <<u, m>> => runs'[w] = runs[w]
  BY <1>1, <1>2 DEF RunShot, TypeOK, Waits
<1>4. /\ UNCHANGED <<singleShots, sShotsCalled, pc, state, ticket, result>>
      /\ pc = "shots" /\ shotsLeft' = shotsLeft \ {i}
  BY DEF RunShot, waitVars
<1>5. ShotsInv'
  <2>1. ASSUME NEW j \in DOMAIN singleShots
        PROVE  runs'[singleShots[j]] = IF j \notin shotsLeft' THEN 1 ELSE 0
    <3>1. CASE j = i
      BY <1>1, <1>3, <1>4, <3>1
    <3>2. CASE j # i
      <4>1. runs'[singleShots[j]] = runs[singleShots[j]]
        BY <1>2, <1>3, <3>2 DEF TypeOK
      <4> QED  BY <1>4, <3>2, <4>1 DEF ShotsSafe, ShotsInv
    <3> QED  BY <3>1, <3>2
  <2>2. ASSUME NEW t \in Threads, NEW n \in Tickets, n > ticket[t]
        PROVE  runs'[<<t, n>>] = 0
    <3>1. <<t, n>> \in Waits /\ <<t, n>> # <<u, m>>
      BY <1>2, <2>2 DEF Waits, TypeOK, Tickets
    <3> QED  BY <1>3, <2>2, <3>1 DEF ShotsSafe, ShotsInv
  <2> QED  BY <1>4, <2>1, <2>2 DEF ShotsSafe, ShotsInv
<1>6. RunsAtMostOnce'
  BY <1>3 DEF ShotsSafe, RunsAtMostOnce
<1>7. NoShotIsLost'
  <2> SUFFICES ASSUME NEW t \in Threads, NEW n \in 1 .. ticket[t]
               PROVE  \/ runs'[<<t, n>>] = 1
                      \/ \E j \in DOMAIN singleShots : singleShots[j] = <<t, n>>
    BY <1>4 DEF NoShotIsLost
  <2>1. <<t, n>> \in Waits
    BY MaxWaitsAssumption DEF TypeOK, Waits, Tickets
  <2> QED  BY <1>3, <2>1 DEF ShotsSafe, NoShotIsLost
<1>8. CalledMeansRan'
  <2> SUFFICES ASSUME NEW t \in Threads, state[t] = "out", result[t] = "called"
               PROVE  runs'[<<t, ticket[t]>>] = 1
    BY <1>4 DEF CalledMeansRan
  <2>1. runs[<<t, ticket[t]>>] = 1
    BY DEF ShotsSafe, CalledMeansRan
  <2>2. CASE <<t, ticket[t]>> = <<u, m>>
    BY <1>3, <2>2
  <2>3. CASE <<t, ticket[t]>> # <<u, m>>
    BY <2>1, <2>3, <1>1 DEF RunShot, TypeOK
  <2> QED  BY <2>2, <2>3
<1> QED  BY <1>5, <1>6, <1>7, <1>8 DEF ShotsSafe

(* A registration stores a wait that no thread has made before. *)
LEMMA RegisterSafe ==
  ASSUME TypeOK, ShotsSafe, NEW t \in Threads, Register(t)
  PROVE  ShotsSafe'
<1> DEFINE id == FreshId(DOMAIN singleShots)
           n == ticket[t] + 1
<1>1. id \in Nat /\ id \notin DOMAIN singleShots
  BY FreshIdIsFree DEF TypeOK
<1>2. n \in Tickets /\ ticket[t] \in Nat
  BY MaxWaitsAssumption DEF Register, TypeOK, Tickets
<1>3. singleShots' = Put(singleShots, id, <<t, n>>)
  BY DEF Register
<1>4. ticket'[t] = n /\ \A u \in Threads \ {t} : ticket'[u] = ticket[u]
  BY DEF Register, TypeOK
<1>5. state'[t] = "waiting" /\ \A u \in Threads \ {t} : state'[u] = state[u]
  BY DEF Register, TypeOK
<1>6. \A u \in Threads \ {t} : result'[u] = result[u]
  BY DEF Register, TypeOK
<1>7. /\ UNCHANGED <<pc, shotsLeft, runs>> /\ pc # "shots"
      /\ sShotsCalled' = FALSE
  BY DEF Register, callVars, FlagOnRegister, ShotsMutexFree
<1> HIDE DEF id
<1>8. /\ DOMAIN singleShots' = DOMAIN singleShots \union {id}
      /\ singleShots'[id] = <<t, n>>
      /\ \A i \in DOMAIN singleShots : singleShots'[i] = singleShots[i]
  BY <1>1, <1>3 DEF Put
<1>9. runs[<<t, n>>] = 0
  BY <1>2 DEF ShotsSafe, ShotsInv
<1>10. \A i \in DOMAIN singleShots :
          /\ singleShots[i][1] \in Threads
          /\ singleShots[i][2] <= ticket[singleShots[i][1]]
          /\ runs[singleShots[i]] = 0
  BY <1>7 DEF ShotsSafe, ShotsInv, TypeOK, Waits
<1>11. \A i \in DOMAIN singleShots : singleShots[i] # <<t, n>>
  <2> SUFFICES ASSUME NEW i \in DOMAIN singleShots, singleShots[i] = <<t, n>>
               PROVE  FALSE
    OBVIOUS
  <2>1. n <= ticket[t]
    BY <1>10
  <2> QED  BY <1>2, <2>1
<1>12. \A u \in Threads : ticket[u] \in Nat /\ ticket[u] <= ticket'[u]
  BY <1>2, <1>4 DEF TypeOK
<1>13. ShotsInv'
  <2>1. ASSUME NEW i \in DOMAIN singleShots'
        PROVE  /\ singleShots'[i][2] <= ticket'[singleShots'[i][1]]
               /\ runs'[singleShots'[i]] = 0
    <3>1. CASE i = id
      BY <1>2, <1>4, <1>7, <1>8, <1>9, <3>1
    <3>2. CASE i \in DOMAIN singleShots
      <4>1. singleShots[i][2] \in Nat
        BY <3>2 DEF TypeOK, Waits, Tickets
      <4>2. ticket'[singleShots[i][1]] \in Nat
        BY <1>2, <1>4, <1>10, <3>2 DEF TypeOK
      <4> QED  BY <1>7, <1>8, <1>10, <1>12, <3>2, <4>1, <4>2
    <3> QED  BY <1>8, <3>1, <3>2
  <2>2. ASSUME NEW i \in DOMAIN singleShots', NEW j \in DOMAIN singleShots',
               singleShots'[i] = singleShots'[j]
        PROVE  i = j
    BY <1>8, <1>11, <2>2 DEF ShotsSafe, ShotsInv
  <2>3. ASSUME NEW u \in Threads
        PROVE  /\ state'[u] # "out" => ticket'[u] > 0
               /\ \A m \in Tickets : m > ticket'[u] => runs'[<<u, m>>] = 0
    <3>1. CASE u = t
      BY <1>2, <1>4, <1>7, <3>1 DEF ShotsSafe, ShotsInv, Tickets
    <3>2. CASE u # t
      BY <1>4, <1>5, <1>7, <3>2 DEF ShotsSafe, ShotsInv
    <3> QED  BY <3>1, <3>2
  <2>4. pc' # "shots" /\ shotsLeft' = {}
    BY <1>7 DEF ShotsSafe, ShotsInv
  <2> HIDE DEF n
  <2> QED  BY <1>7, <2>1, <2>2, <2>3, <2>4 DEF ShotsInv
<1>14. RunsAtMostOnce'
  BY <1>7 DEF ShotsSafe, RunsAtMostOnce
<1>15. NoShotIsLost'
  <2> SUFFICES ASSUME NEW u \in Threads, NEW m \in 1 .. ticket'[u]
               PROVE  \/ runs'[<<u, m>>] = 1
                      \/ \E i \in DOMAIN singleShots' : singleShots'[i] = <<u, m>>
    BY DEF NoShotIsLost
  <2>1. CASE u = t /\ m = n
    BY <1>8, <2>1
  <2>2. CASE ~(u = t /\ m = n)
    <3>1. m \in 1 .. ticket[u]
      BY <1>2, <1>4, <2>2
    <3> QED  BY <1>7, <1>8, <3>1 DEF ShotsSafe, NoShotIsLost
  <2> QED  BY <2>1, <2>2
<1>16. CalledMeansRan'
  BY <1>4, <1>5, <1>6, <1>7 DEF ShotsSafe, CalledMeansRan
<1> QED  BY <1>13, <1>14, <1>15, <1>16 DEF ShotsSafe

(* A woken thread that finds the flag up finds nothing stored, so its own  *)
(* callback has run.                                                       *)
LEMMA ReacquireSafe ==
  ASSUME TypeOK, ShotsSafe, NEW t \in Threads, Reacquire(t)
  PROVE  ShotsSafe'
<1>1. /\ UNCHANGED <<singleShots, shotsLeft, sShotsCalled, runs, ticket, pc>>
      /\ state[t] = "woken"
      /\ \A u \in Threads \ {t} : state'[u] = state[u] /\ result'[u] = result[u]
  BY DEF Reacquire, callVars, TypeOK
<1>2. ShotsInv'
  BY <1>1 DEF ShotsSafe, ShotsInv
<1>3. RunsAtMostOnce' /\ NoShotIsLost'
  BY <1>1 DEF ShotsSafe, RunsAtMostOnce, NoShotIsLost
<1>4. CalledMeansRan'
  <2>1. ASSUME state'[t] = "out", result'[t] = "called"
        PROVE  runs[<<t, ticket[t]>>] = 1
    <3>1. sShotsCalled
      BY <2>1 DEF Reacquire, Answered, TypeOK
    <3>2. ticket[t] \in 1 .. ticket[t]
      <4>1. ticket[t] > 0
        BY <1>1 DEF ShotsSafe, ShotsInv
      <4>2. ticket[t] \in Nat
        BY DEF TypeOK
      <4> QED  BY <4>1, <4>2
    <3> QED  BY <3>1, <3>2 DEF ShotsSafe, ShotsInv, NoShotIsLost
  <2> QED  BY <1>1, <2>1 DEF ShotsSafe, CalledMeansRan
<1> QED  BY <1>2, <1>3, <1>4 DEF ShotsSafe

LEMMA ShotsStep ==
  ASSUME TypeOK, ShotsSafe, [Next]_vars
  PROVE  ShotsSafe'
<1>1. CASE UNCHANGED vars
  <2>1. SameShots
    BY <1>1 DEF SameShots, vars, waitVars, callVars
  <2> QED  BY <2>1, ShotsUndisturbed
<1>2. ASSUME NEW c \in Clients, AddCallback(c) \/ RemoveCallback(c)
      PROVE  ShotsSafe'
  <2>1. SameShots
    BY <1>2 DEF SameShots, AddCallback, RemoveCallback, callVars, waitVars
  <2> QED  BY <2>1, ShotsUndisturbed
<1>3. CASE BeginCall
  <2>1. SameShots
    BY <1>3 DEF SameShots, BeginCall, waitVars
  <2> QED  BY <2>1, ShotsUndisturbed
<1>4. ASSUME NEW i \in Pending, RunCallback(i)
      PROVE  ShotsSafe'
  <2>1. SameShots
    BY <1>4 DEF SameShots, RunCallback, waitVars
  <2> QED  BY <2>1, ShotsUndisturbed
<1>5. CASE CallbackReturns
  <2>1. SameShots
    BY <1>5 DEF SameShots, CallbackReturns, waitVars
  <2> QED  BY <2>1, ShotsUndisturbed
<1>6. CASE LockShots
  <2>1. /\ UNCHANGED <<singleShots, sShotsCalled, runs, state, ticket, result>>
        /\ pc # "shots" /\ pc' = "shots" /\ shotsLeft' = DOMAIN singleShots
    BY <1>6 DEF LockShots, waitVars
  <2>2. ShotsInv'
    BY <2>1 DEF ShotsSafe, ShotsInv
  <2>3. RunsAtMostOnce' /\ NoShotIsLost' /\ CalledMeansRan'
    BY <2>1 DEF ShotsSafe, RunsAtMostOnce, NoShotIsLost, CalledMeansRan
  <2> QED  BY <2>2, <2>3 DEF ShotsSafe
<1>7. ASSUME NEW i \in shotsLeft, RunShot(i)
      PROVE  ShotsSafe'
  BY <1>7, RunShotSafe
<1>8. CASE ClearShots
  <2>1. /\ UNCHANGED <<shotsLeft, runs, state, ticket, result>>
        /\ pc = "shots" /\ pc' = "notify" /\ shotsLeft = {}
        /\ DOMAIN singleShots' = {}
    BY <1>8 DEF ClearShots, ShotsAllRun, Cleared, waitVars
  <2>2. ShotsInv'
    BY <2>1 DEF ShotsSafe, ShotsInv
  <2>3. RunsAtMostOnce' /\ CalledMeansRan'
    BY <2>1 DEF ShotsSafe, RunsAtMostOnce, CalledMeansRan
  <2>4. \A i \in DOMAIN singleShots : runs[singleShots[i]] = 1
    BY <2>1 DEF ShotsSafe, ShotsInv
  <2>5. NoShotIsLost'
    BY <2>1, <2>4 DEF ShotsSafe, NoShotIsLost
  <2> QED  BY <2>2, <2>3, <2>5 DEF ShotsSafe
<1>9. CASE NotifyAll
  <2>1. SameShots
    BY <1>9 DEF SameShots, NotifyAll
  <2> QED  BY <2>1, ShotsUndisturbed
<1>10. ASSUME NEW t \in Threads, Register(t)
       PROVE  ShotsSafe'
  BY <1>10, RegisterSafe
<1>11. ASSUME NEW t \in Threads, Expire(t) \/ WakeUp(t)
       PROVE  ShotsSafe'
  <2>1. SameShots
    BY <1>11 DEF SameShots, Expire, WakeUp, callVars, TypeOK
  <2> QED  BY <2>1, ShotsUndisturbed
<1>12. ASSUME NEW t \in Threads, Reacquire(t)
       PROVE  ShotsSafe'
  BY <1>12, ReacquireSafe
<1> QED
  BY <1>1, <1>2, <1>3, <1>4, <1>5, <1>6, <1>7, <1>8, <1>9, <1>10, <1>11, <1>12
     DEF Next, CallStep

LEMMA ShotsSafeAlways == Spec => []ShotsSafe
<1>1. Init => ShotsSafe
  BY DEF Init, ShotsSafe, ShotsInv, RunsAtMostOnce, NoShotIsLost, CalledMeansRan,
         Tickets, Waits
<1> QED  BY <1>1, TypeCorrect, ShotsStep, PTL DEF Spec

(* Why the three below hold: while the flag is up nothing is stored, and a *)
(* stored callback has not run unless the loop of call has passed it.      *)
THEOREM ShotsInvariant == Spec => []ShotsInv
<1>1. ShotsSafe => ShotsInv
  BY DEF ShotsSafe
<1> QED  BY <1>1, ShotsSafeAlways, PTL

(* The callback of a single shot never runs twice. *)
THEOREM ShotsRunAtMostOnce == Spec => []RunsAtMostOnce
<1>1. ShotsSafe => RunsAtMostOnce
  BY DEF ShotsSafe
<1> QED  BY <1>1, ShotsSafeAlways, PTL

(* A registered single shot is stored until it has run. *)
THEOREM ShotsAreKept == Spec => []NoShotIsLost
<1>1. ShotsSafe => NoShotIsLost
  BY DEF ShotsSafe
<1> QED  BY <1>1, ShotsSafeAlways, PTL

(* add_single_shot returns true only after its own callback has run. *)
THEOREM TrueMeansRan == Spec => []CalledMeansRan
<1>1. ShotsSafe => CalledMeansRan
  BY DEF ShotsSafe
<1> QED  BY <1>1, ShotsSafeAlways, PTL

-------------------------------------------------------------------------------
(* Delivery: while the loop runs, the clients due are those served and     *)
(* those left in the copy.                                                 *)
DeliveryInv ==
  due = served \union
        (IF pc \in {"callbacks", "inside"} THEN {snapshot[i] : i \in Pending} ELSE {})

LEMMA DeliveryStep ==
  ASSUME TypeOK, DeliveryInv, [Next]_vars
  PROVE  DeliveryInv'
<1> USE DEF DeliveryInv, Pending
<1>1. CASE UNCHANGED <<callVars>>
  BY <1>1 DEF callVars
<1>2. CASE BeginCall
  BY <1>2 DEF BeginCall
<1>3. ASSUME NEW i \in Pending, RunCallback(i)
      PROVE  DeliveryInv'
  BY <1>3 DEF RunCallback, Without, TypeOK
<1>4. CASE CallbackReturns
  BY <1>4 DEF CallbackReturns
<1>5. CASE LockShots
  BY <1>5 DEF LockShots
<1>6. ASSUME NEW i \in shotsLeft, RunShot(i)
      PROVE  DeliveryInv'
  BY <1>6 DEF RunShot
<1>7. CASE ClearShots
  BY <1>7 DEF ClearShots
<1>8. CASE NotifyAll
  BY <1>8 DEF NotifyAll
<1>9. ASSUME NEW c \in Clients, AddCallback(c) \/ RemoveCallback(c)
      PROVE  UNCHANGED callVars
  BY <1>9 DEF AddCallback, RemoveCallback
<1>10. ASSUME NEW t \in Threads,
              Register(t) \/ Expire(t) \/ WakeUp(t) \/ Reacquire(t)
       PROVE  UNCHANGED callVars
  BY <1>10 DEF Register, Expire, WakeUp, Reacquire
<1> QED
  BY <1>1, <1>2, <1>3, <1>4, <1>5, <1>6, <1>7, <1>8, <1>9, <1>10
     DEF Next, CallStep, vars

(* A message reaches the clients registered when call copied the list.     *)
THEOREM DeliveryCorrect == Spec => []MessageReachesTheCopy
<1>1. Init => DeliveryInv
  BY DEF Init, DeliveryInv
<1>2. DeliveryInv => MessageReachesTheCopy
  BY DEF DeliveryInv, MessageReachesTheCopy
<1> QED  BY <1>1, <1>2, TypeCorrect, DeliveryStep, PTL DEF Spec

-------------------------------------------------------------------------------
(* Refinement: each step of the queue is a step of SingleShot or leaves    *)
(* what SingleShot sees unchanged.                                         *)
LEMMA PromiseInit == ASSUME Init PROVE Promise!Init
<1>1. Ran = {}
  BY DEF Init, Ran
<1>2. {w \in Waits : w[2] <= ticket[w[1]]} = {}
  BY MaxWaitsAssumption DEF Init, Waits, Tickets
<1>3. {t \in Threads : state[t] # "out"} = {}
  BY DEF Init
<1> QED  BY <1>1, <1>2, <1>3 DEF Init, Promise!Init

LEMMA PromiseRegister ==
  ASSUME TypeOK, ShotsSafe, NEW t \in Threads, Register(t)
  PROVE  Promise!Register(t)
<1> DEFINE n == ticket[t] + 1
           Issued == {w \in Waits : w[2] <= ticket[w[1]]}
<1>1. n \in Tickets /\ <<t, n>> \in Waits
  BY MaxWaitsAssumption DEF Register, TypeOK, Tickets, Waits
<1>2. ticket' = [ticket EXCEPT ![t] = n] /\ ticket'[t] = n
  BY DEF Register, TypeOK
<1>3. Ran' = Ran /\ <<t, n>> \notin Ran
  <2>1. runs' = runs
    BY DEF Register
  <2>2. n > ticket[t]
    BY DEF TypeOK
  <2>3. runs[<<t, n>>] = 0
    BY <1>1, <2>2 DEF ShotsSafe, ShotsInv
  <2> QED  BY <2>1, <2>3 DEF Ran
<1>4. Issued' = Issued \union {<<t, n>>}
  <2>1. ASSUME NEW u \in Threads, NEW m \in Tickets
        PROVE  m <= ticket'[u] <=> m <= ticket[u] \/ <<u, m>> = <<t, n>>
    <3>1. CASE u = t
      BY <1>2, <3>1 DEF TypeOK, Tickets
    <3>2. CASE u # t
      BY <1>2, <3>2 DEF TypeOK
    <3> QED  BY <3>1, <3>2
  <2> QED  BY <1>1, <2>1 DEF Waits
<1>5. {u \in Threads : state'[u] # "out"} = {u \in Threads : state[u] # "out"} \union {t}
  BY DEF Register, TypeOK
<1>6. t \notin {u \in Threads : state[u] # "out"}
  BY DEF Register
<1>7. (Issued \ Ran)' = (Issued \ Ran) \union {<<t, n>>}
  BY <1>3, <1>4
<1>8. result' = [result EXCEPT ![t] = "none"]
  BY DEF Register
<1> QED  BY <1>1, <1>2, <1>3, <1>5, <1>6, <1>7, <1>8 DEF Promise!Register

LEMMA PromiseRun ==
  ASSUME TypeOK, ShotsSafe, NEW i \in shotsLeft, RunShot(i)
  PROVE  singleShots[i] \in Waits /\ Promise!Run(singleShots[i])
<1> DEFINE w == singleShots[i]
           Issued == {v \in Waits : v[2] <= ticket[v[1]]}
<1>1. w \in Waits
  BY DEF TypeOK
<1>2. w \in Issued /\ w \notin Ran
  BY <1>1 DEF TypeOK, ShotsSafe, ShotsInv, Ran
<1>3. /\ runs' = [runs EXCEPT ![w] = @ + 1]
      /\ UNCHANGED <<state, ticket, result>>
  BY DEF RunShot, waitVars
<1> HIDE DEF w
<1>4. Ran' = Ran \union {w}
  BY <1>1, <1>3 DEF TypeOK, Ran
<1>5. (Issued \ Ran)' = (Issued \ Ran) \ {w}
  BY <1>3, <1>4
<1>6. Promise!Run(w)
  BY <1>2, <1>3, <1>4, <1>5 DEF Promise!Run
<1> QED  BY <1>1, <1>6 DEF w

LEMMA PromiseAnswer ==
  ASSUME TypeOK, ShotsSafe, CalledMeansRan', NEW t \in Threads, Reacquire(t)
  PROVE  \/ \E a \in {"called", "timeout"} : Promise!Answer(t, a)
         \/ UNCHANGED Promise!vars
<1>1. /\ UNCHANGED <<runs, ticket>>
      /\ t \in {u \in Threads : state[u] # "out"}
  BY DEF Reacquire
<1>2. Ran' = Ran
  BY <1>1 DEF Ran
<1>3. CASE state'[t] = "out"
  <2>1. PICK a \in {"called", "timeout"} : result' = [result EXCEPT ![t] = a]
    BY <1>3 DEF Reacquire, TypeOK
  <2>2. {u \in Threads : state'[u] # "out"} = {u \in Threads : state[u] # "out"} \ {t}
    BY <1>3 DEF Reacquire, TypeOK
  <2>3. a = "called" => <<t, ticket[t]>> \in Ran
    <3> SUFFICES ASSUME a = "called"  PROVE <<t, ticket[t]>> \in Ran
      OBVIOUS
    <3>1. runs[<<t, ticket[t]>>] = 1
      BY <1>1, <1>3, <2>1 DEF CalledMeansRan, TypeOK
    <3>2. <<t, ticket[t]>> \in Waits
      BY <1>1 DEF Waits, Tickets, TypeOK, ShotsSafe, ShotsInv
    <3> QED  BY <3>1, <3>2 DEF Ran
  <2> QED  BY <1>1, <1>2, <2>1, <2>2, <2>3 DEF Promise!Answer
<1>4. CASE state'[t] # "out"
  <2>1. result' = result
    BY <1>4 DEF Reacquire, TypeOK
  <2>2. {u \in Threads : state'[u] # "out"} = {u \in Threads : state[u] # "out"}
    BY <1>1, <1>4 DEF Reacquire, TypeOK
  <2> QED  BY <1>1, <1>2, <2>1, <2>2 DEF Promise!vars
<1> QED  BY <1>3, <1>4

LEMMA PromiseStep ==
  ASSUME TypeOK, ShotsSafe, ShotsSafe', [Next]_vars
  PROVE  [Promise!Next]_(Promise!vars)
<1>1. UNCHANGED <<runs, state, ticket, result>> => UNCHANGED Promise!vars
  BY DEF Ran, Promise!vars
<1>2. CASE UNCHANGED vars
  BY <1>1, <1>2 DEF vars, waitVars
<1>3. ASSUME NEW c \in Clients, AddCallback(c) \/ RemoveCallback(c)
      PROVE  UNCHANGED Promise!vars
  BY <1>1, <1>3 DEF AddCallback, RemoveCallback, waitVars
<1>4. ASSUME BeginCall \/ CallbackReturns \/ LockShots \/ ClearShots
      PROVE  UNCHANGED Promise!vars
  BY <1>1, <1>4 DEF BeginCall, CallbackReturns, LockShots, ClearShots, waitVars
<1>5. ASSUME NEW i \in Pending, RunCallback(i)
      PROVE  UNCHANGED Promise!vars
  BY <1>1, <1>5 DEF RunCallback, waitVars
<1>6. ASSUME NEW i \in shotsLeft, RunShot(i)
      PROVE  Promise!Next
  <2>1. singleShots[i] \in Waits /\ Promise!Run(singleShots[i])
    BY <1>6, PromiseRun
  <2>2. \E w \in Threads \X Tickets : Promise!Run(w)
    BY <2>1 DEF Waits, Promise!Run
  <2> QED  BY <2>2 DEF Promise!Next
<1>7. ASSUME NEW t \in Threads, Register(t)
      PROVE  Promise!Next
  BY <1>7, PromiseRegister DEF Promise!Next
<1>8. ASSUME NEW t \in Threads, Reacquire(t)
      PROVE  [Promise!Next]_(Promise!vars)
  <2>1. CalledMeansRan'
    BY DEF ShotsSafe
  <2> QED  BY <1>8, <2>1, PromiseAnswer DEF Promise!Next
<1>9. ASSUME NotifyAll \/ \E t \in Threads : Expire(t) \/ WakeUp(t)
      PROVE  UNCHANGED Promise!vars
  <2>1. UNCHANGED <<runs, ticket, result>>
    BY <1>9 DEF NotifyAll, Expire, WakeUp
  <2>2. \A u \in Threads : state'[u] # "out" <=> state[u] # "out"
    BY <1>9 DEF NotifyAll, Expire, WakeUp, TypeOK
  <2>3. {u \in Threads : state'[u] # "out"} = {u \in Threads : state[u] # "out"}
    BY <2>2
  <2> QED  BY <2>1, <2>3 DEF Ran, Promise!vars
<1> QED
  BY <1>2, <1>3, <1>4, <1>5, <1>6, <1>7, <1>8, <1>9 DEF Next, CallStep

(* The queue implements the promise of add_single_shot, for any threads    *)
(* and any number of waits.                                                *)
THEOREM QueueImplementsPromise == Spec => ImplementsPromise
<1>1. Spec => [](TypeOK /\ ShotsSafe)
  BY TypeCorrect, ShotsSafeAlways, PTL
<1>2. Init => Promise!Init
  BY PromiseInit
<1>3. TypeOK /\ ShotsSafe /\ (TypeOK /\ ShotsSafe)' /\ [Next]_vars
        => [Promise!Next]_(Promise!vars)
  BY PromiseStep
<1> QED  BY <1>1, <1>2, <1>3, PTL DEF Spec, ImplementsPromise, Promise!Spec
===============================================================================
