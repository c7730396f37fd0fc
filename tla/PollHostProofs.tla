--------------------------- MODULE PollHostProofs ---------------------------
(***************************************************************************)
(* poll_host() and its batches, for any items, profiles and batch size:    *)
(* the invariant, and that every step keeps it.                            *)
(***************************************************************************)
EXTENDS PollHost, FiniteSetTheorems, TLAPS

(* poll_host(): the invariant *)

Early == {"load", "refresh", "loaded", "select"}
Requesting == {"send", "spent", "store"}
Flushing == {"flush"} \cup Requesting
PollStates == Early \cup Flushing
              \cup {"item", "changed", "reopen", "full", "append", "done", "returned"}

Stored == {oids[s].pos : s \in Batch}
Finished == i = Len(Items) + 1 \/ ignore_host
AtSnmp == i \in Positions /\ Items[i].action = "snmp" /\ key # 0

SlotValues == {Empty, U} \cup {Right(p) : p \in Positions}

PollTypes ==
    /\ device_zero \in BOOLEAN /\ pc \in PollStates
    /\ i \in 1..(Len(Items) + 1)
    /\ key \in Nat /\ session \in Nat
    /\ ignore_host \in BOOLEAN /\ spike_kill \in BOOLEAN
    /\ count \in 0..max_oids
    /\ oids \in [Slots -> [pos : Nat, result : SlotValues]]
    /\ request \in Seq(Nat) /\ attempt \in Nat
    /\ results \in [Positions -> {U} \cup {Right(p) : p \in Positions}]

\* Where the loop over the items and flush_snmp_batch() are.
Places ==
    /\ pc \in Early => i = 1 /\ key = 0 /\ count = 0 /\ asked = {} /\ answered = {}
    /\ pc \in {"changed", "reopen", "full", "append"} => AtSnmp
    /\ pc \in {"full", "append"} => Items[i].profile = key
    /\ pc = "append" => count < max_oids
    /\ pc \in Flushing => /\ count > 0 /\ ret \in {"reopen", "append", "done"}
                          /\ ret = "done" => Finished
                          /\ ret \in {"reopen", "append"} => AtSnmp
                          /\ ret = "append" => Items[i].profile = key
    /\ pc = "reopen" => count = 0
    /\ pc = "done" => Finished /\ count = 0

\* The batch: earlier items of one profile, each once, that nothing was stored for.
Contents ==
    /\ count > 0 => key # 0
    /\ \A s \in Batch : /\ oids[s].pos \in 1..(i - 1) /\ Items[oids[s].pos].profile = key
                        /\ oids[s].result \in {Empty, U, Right(oids[s].pos)}
    /\ \A s, t \in Batch : oids[s].pos = oids[t].pos => s = t
    /\ pc \notin Requesting => \A s \in Slots : oids[s].result = Empty

\* The session is that of the batch, and the only one.
Sessions ==
    /\ handles = IF session = NoSession THEN 0 ELSE 1
    /\ key # 0 => session \in {NoSession, key}
    /\ pc = "load" => session = NoSession
    /\ pc = "refresh" => ~device_zero
    /\ pc = "loaded" /\ device_zero => session = NoSession
    /\ pc \in {"select", "item"} /\ key = 0 /\ ~ignore_host => session = NoSession
    /\ pc = "returned" /\ session # NoSession => ignore_host /\ ~rows

\* The request holds the slots still asked for, in their order, and there are
\* attempts left for all of them.
Request ==
    /\ pc = "send" =>
         /\ session # NoSession
         /\ Len(request) = Cardinality(Live(oids))
         /\ \A k \in 1..Len(request) :
              request[k] \in Live(oids) /\ Place(oids, request[k]) = k
         /\ Len(request) + attempt <= count
    /\ pc = "spent" => request = <<>>

\* What has been asked and answered.
Served ==
    /\ \A p \in 1..(i - 1) :
         Items[p].action = "snmp" => p \in asked \/ p \in Stored \/ ignore_host
    /\ pc \in Requesting => Stored \subseteq asked
    /\ answered \subseteq 1..(i - 1)
    /\ pc # "store" => answered \cap Stored = {}
    /\ \A p \in answered :
         \/ ignore_host
         \/ p \notin Stored /\ results[p] = Kept(p, Right(p))
         \/ pc = "store" /\ \E s \in Batch : oids[s].pos = p /\ oids[s].result = Right(p)

PollInv == /\ PollTypes /\ Places /\ Contents /\ Sessions /\ Request /\ Served
           /\ ResultsAreOwn

-----------------------------------------------------------------------------
(* Places of slots in a PDU *)

\* The number of members of L up to s.
UpTo(L, s) == {t \in L : t <= s}

\* A larger element has more elements up to it,
LEMMA UpToGrows ==
    ASSUME NEW L \in SUBSET Nat, IsFiniteSet(L), NEW s \in L, NEW t \in L, s < t
    PROVE  Cardinality(UpTo(L, s)) < Cardinality(UpTo(L, t))
<1>1. UpTo(L, t) \in SUBSET L /\ t \in UpTo(L, t)
  BY DEF UpTo
<1>2. IsFiniteSet(UpTo(L, t))
  BY <1>1, FS_Subset
<1>3. UpTo(L, s) \in SUBSET (UpTo(L, t) \ {t})
  <2>1. ASSUME NEW r \in UpTo(L, s) PROVE r \in L /\ r <= t /\ r # t
    BY <2>1 DEF UpTo
  <2> QED
    BY <2>1, Zenon DEF UpTo
<1>4. /\ IsFiniteSet(UpTo(L, t) \ {t})
      /\ Cardinality(UpTo(L, t) \ {t}) = Cardinality(UpTo(L, t)) - 1
  BY <1>1, <1>2, FS_RemoveElement, ZenonT(60)
<1>5. Cardinality(UpTo(L, s)) <= Cardinality(UpTo(L, t) \ {t}) /\ IsFiniteSet(UpTo(L, s))
  BY <1>3, <1>4, FS_Subset, Zenon
<1>6. Cardinality(UpTo(L, s)) \in Nat /\ Cardinality(UpTo(L, t)) \in Nat
  BY <1>2, <1>5, FS_CardinalityType
<1> QED
  BY <1>4, <1>5, <1>6

\* a positive number of them and no more than there are,
LEMMA UpToRange ==
    ASSUME NEW L \in SUBSET Nat, IsFiniteSet(L), NEW s \in L
    PROVE  Cardinality(UpTo(L, s)) \in 1..Cardinality(L)
<1>1. UpTo(L, s) \in SUBSET L /\ s \in UpTo(L, s)
  BY DEF UpTo
<1>2. IsFiniteSet(UpTo(L, s)) /\ Cardinality(UpTo(L, s)) <= Cardinality(L)
  BY <1>1, FS_Subset
<1>3. Cardinality(UpTo(L, s)) \in Nat /\ Cardinality(L) \in Nat
  BY <1>2, FS_CardinalityType
<1>4. Cardinality(UpTo(L, s)) # 0
  BY <1>1, <1>2, FS_EmptySet, Zenon
<1> QED
  BY <1>2, <1>3, <1>4

\* and another number than every other element.
LEMMA UpToInjective ==
    ASSUME NEW L \in SUBSET Nat, IsFiniteSet(L), NEW s \in L, NEW t \in L,
           Cardinality(UpTo(L, s)) = Cardinality(UpTo(L, t))
    PROVE  s = t
<1>1. Cardinality(UpTo(L, s)) \in Nat /\ Cardinality(UpTo(L, t)) \in Nat
  <2>1. /\ Cardinality(UpTo(L, s)) \in 1..Cardinality(L)
        /\ Cardinality(UpTo(L, t)) \in 1..Cardinality(L)
    BY UpToRange, Zenon
  <2> QED
    BY <2>1
<1>2. CASE s < t
  <2>1. Cardinality(UpTo(L, s)) < Cardinality(UpTo(L, t))
    BY <1>2, UpToGrows, Zenon
  <2> QED
    BY <1>1, <2>1
<1>3. CASE t < s
  <2>1. Cardinality(UpTo(L, t)) < Cardinality(UpTo(L, s))
    BY <1>3, UpToGrows, Zenon
  <2> QED
    BY <1>1, <2>1
<1> QED
  BY <1>2, <1>3

\* Every number up to the size of L is the place of a member.
LEMMA UpToOnto ==
    ASSUME NEW L \in SUBSET Nat, IsFiniteSet(L), NEW k \in 1..Cardinality(L)
    PROVE  \E s \in L : Cardinality(UpTo(L, s)) = k
<1> DEFINE n == Cardinality(L)
           f == [s \in L |-> Cardinality(UpTo(L, s))]
<1>1. n \in Nat
  BY FS_CardinalityType
<1>2. IsFiniteSet(1..n) /\ Cardinality(1..n) = n
  <2>1. 1 \in Int /\ n \in Int
    BY <1>1
  <2>2. IsFiniteSet(1..n) /\ Cardinality(1..n) = IF 1 > n THEN 0 ELSE n - 1 + 1
    BY <2>1, FS_Interval, Zenon
  <2> HIDE DEF n
  <2> QED
    BY <1>1, <2>2
<1>3. f \in Injection(L, 1..n)
  <2>1. f \in [L -> 1..n]
    BY UpToRange, Zenon
  <2>2. \A s, t \in L : f[s] = f[t] => s = t
    BY UpToInjective, Zenon
  <2> QED
    BY <2>1, <2>2, Zenon DEF Injection, IsInjective
<1>4. f \in Surjection(L, 1..n)
  <2> HIDE DEF f, n
  <2>1. Cardinality(L) = Cardinality(1..n)
    BY <1>2, Zenon DEF n
  <2> QED
    BY <1>2, <1>3, <2>1, FS_Injection, Zenon
<1>5. \E s \in L : f[s] = k
  BY <1>4, Zenon DEF Surjection
<1> QED
  BY <1>5, Zenon

\* A member that is taken out moves the later ones by one place.
LEMMA UpToDrop ==
    ASSUME NEW L \in SUBSET Nat, IsFiniteSet(L), NEW d \in L, NEW s \in L, s # d
    PROVE  LET here == Cardinality(UpTo(L, s))
               gone == Cardinality(UpTo(L, d))
               now == Cardinality(UpTo(L \ {d}, s))
           IN  /\ here < gone => now = here
               /\ here > gone => now = here - 1
               /\ here # gone
<1> DEFINE here == Cardinality(UpTo(L, s))
           gone == Cardinality(UpTo(L, d))
           now == Cardinality(UpTo(L \ {d}, s))
<1>1. here # gone
  BY UpToInjective, Zenon
<1>2. here \in Nat /\ gone \in Nat
  <2>1. here \in 1..Cardinality(L) /\ gone \in 1..Cardinality(L)
    BY UpToRange, Zenon
  <2> QED
    BY <2>1
<1>3. CASE s < d
  <2>1. UpTo(L \ {d}, s) = UpTo(L, s)
    BY <1>3 DEF UpTo
  <2>2. now = here /\ here < gone
    BY <1>3, <2>1, UpToGrows, Zenon
  <2> QED
    BY <1>2, <2>2
<1>4. CASE d < s
  <2>1. UpTo(L \ {d}, s) = UpTo(L, s) \ {d} /\ d \in UpTo(L, s) /\ UpTo(L, s) \in SUBSET L
    BY <1>4 DEF UpTo
  <2>2. IsFiniteSet(UpTo(L, s))
    BY <2>1, FS_Subset, Zenon
  <2>3. now = here - 1
    <3>1. Cardinality(UpTo(L, s) \ {d}) = here - 1
      BY <2>1, <2>2, FS_RemoveElement, Zenon
    <3> QED
      BY <2>1, <3>1, Zenon
  <2>4. gone < here
    BY <1>4, UpToGrows, Zenon
  <2> QED
    BY <1>2, <2>3, <2>4
<1> QED
  BY <1>1, <1>3, <1>4

-----------------------------------------------------------------------------
(* The steps of poll_host() that leave the batch alone *)

\* A batch holds at least one item.
LEMMA MaxOidsPositive ==
    ASSUME device_zero \in BOOLEAN
    PROVE  max_oids \in Nat /\ max_oids >= 1
BY MaxOidsAssumption DEF max_oids

\* The size of a batch only depends on the device's max_oids.
LEMMA MaxOidsSame ==
    ASSUME device_zero' = device_zero
    PROVE  max_oids' = max_oids /\ Slots' = Slots
BY DEF max_oids, Slots

\* The slots in use are slots.
LEMMA BatchInSlots ==
    ASSUME PollTypes
    PROVE  Batch \in SUBSET Slots /\ Batch \in SUBSET Nat
BY MaxOidsPositive DEF PollTypes, Batch, Slots

\* What the batch, the results and the history are made of.
batching == <<device_zero, i, key, count, oids, results, asked, answered>>

\* What the variables of the batch determine stays when they stay.
LEMMA BatchingSame ==
    ASSUME UNCHANGED batching
    PROVE  /\ Batch' = Batch /\ Stored' = Stored /\ Slots' = Slots
           /\ AtSnmp' = AtSnmp /\ max_oids' = max_oids
BY MaxOidsSame DEF batching, Batch, Stored, AtSnmp

\* A move from one place to another, neither of them within a request, keeps all
\* that was asked, answered and stored.
LEMMA MoveKeeps ==
    ASSUME PollInv, UNCHANGED batching, pc \notin Requesting, pc' \notin Requesting,
           pc \in Early \/ ((ignore_host => ignore_host') /\ spike_kill' = spike_kill)
    PROVE  Contents' /\ Served' /\ ResultsAreOwn'
<1>1. /\ Batch' = Batch /\ Stored' = Stored /\ Slots' = Slots
      /\ i' = i /\ key' = key /\ count' = count /\ oids' = oids
      /\ results' = results /\ asked' = asked /\ answered' = answered
  BY BatchingSame, Zenon DEF batching
<1>2. Contents'
  <2>1. Contents
    BY DEF PollInv
  <2> QED
    BY <1>1, <2>1 DEF Contents
<1>3. ResultsAreOwn'
  BY <1>1 DEF PollInv, ResultsAreOwn
<1>4. CASE pc \in Early
  <2>1. i = 1 /\ asked = {} /\ answered = {}
    BY <1>4, Zenon DEF PollInv, Places
  <2>2. 1..(i' - 1) = {}
    BY <1>1, <2>1
  <2>3. Served'
    BY <1>1, <2>1, <2>2, Zenon DEF Served, Requesting
  <2> QED
    BY <1>2, <1>3, <2>3, Zenon
<1>5. CASE (ignore_host => ignore_host') /\ spike_kill' = spike_kill
  <2>1. \A p \in answered : Kept(p, Right(p))' = Kept(p, Right(p))
    BY <1>5 DEF Kept, Right
  <2>2. Served
    BY Zenon DEF PollInv
  <2>3. \A p \in 1..(i' - 1) :
           Items[p].action = "snmp" => p \in asked' \/ p \in Stored' \/ ignore_host'
    BY <1>1, <1>5, <2>2, Zenon DEF Served
  <2>4. answered' \subseteq 1..(i' - 1) /\ (pc' # "store" => answered' \cap Stored' = {})
    BY <1>1, <2>2, Zenon DEF Served, Requesting
  <2>5. ASSUME NEW p \in answered'
        PROVE  ignore_host' \/ (p \notin Stored' /\ results'[p] = Kept(p, Right(p))')
    <3>1. ignore_host \/ (p \notin Stored /\ results[p] = Kept(p, Right(p)))
      BY <1>1, <2>2, <2>5, Zenon DEF Served, Requesting
    <3> QED
      BY <1>1, <1>5, <2>1, <2>5, <3>1, Zenon
  <2>6. Served'
    BY <2>3, <2>4, <2>5, Zenon DEF Served
  <2> QED
    BY <1>2, <1>3, <2>6, Zenon
<1> QED
  BY <1>4, <1>5, Zenon

\* Loading the device, with or without a session for it,
LEMMA LoadPollHostKeeps ==
    ASSUME PollInv, LoadPollHost
    PROVE  PollInv'
<1> USE DEF Early, Requesting, Flushing
<1>1. PollTypes /\ Places /\ Sessions
  BY Zenon DEF PollInv
<1>2. UNCHANGED batching
  BY DEF LoadPollHost, Batching, batching, hostVars, history
<1>3. /\ max_oids' = max_oids /\ Slots' = Slots /\ AtSnmp' = AtSnmp
      /\ i' = i /\ key' = key /\ count' = count /\ oids' = oids /\ results' = results
      /\ device_zero' = device_zero /\ asked' = asked /\ answered' = answered
  BY <1>2, BatchingSame, Zenon DEF batching
<1>4. PollTypes'
  <2>1. session' \in Nat /\ ignore_host' \in BOOLEAN /\ pc' \in PollStates
    <3>1. session' \in {session, NoSession, HostProfile}
      BY Zenon DEF LoadPollHost, link, Open
    <3>2. ignore_host' \in {ignore_host, TRUE}
      BY Zenon DEF LoadPollHost
    <3>3. pc' \in PollStates
      BY Zenon DEF LoadPollHost, PollStates
    <3>4. session' \in Nat
      BY <1>1, <3>1, ProfileAssumption DEF PollTypes, NoSession
    <3> QED
      BY <1>1, <3>2, <3>3, <3>4, Zenon DEF PollTypes
  <2>2. UNCHANGED <<request, attempt, spike_kill>>
    BY DEF LoadPollHost, Batching, wire
  <2> QED
    BY <1>1, <1>3, <2>1, <2>2 DEF PollTypes
<1>5. Places'
  BY <1>1, <1>3 DEF LoadPollHost, PollTypes, Places, Finished, AtSnmp, Batching, walk
<1>6. Sessions'
  BY <1>1, <1>3, ProfileAssumption DEF LoadPollHost, PollTypes, Places, Sessions, link, Batching, walk, hostVars, Open, Close, NoSession
<1>7. Request'
  BY <1>1 DEF LoadPollHost, Request
<1>8. Contents' /\ Served' /\ ResultsAreOwn'
  <2>1. /\ pc \notin Requesting /\ pc' \notin Requesting
        /\ pc \in Early \/ ((ignore_host => ignore_host') /\ spike_kill' = spike_kill)
    BY <1>1 DEF LoadPollHost, Places, Batching, walk
  <2> QED
    BY <1>2, <2>1, MoveKeeps, Zenon
<1> QED
  BY <1>4, <1>5, <1>6, <1>7, <1>8, Zenon DEF PollInv

\* finding out its availability,
LEMMA RefreshKeeps ==
    ASSUME PollInv, Refresh
    PROVE  PollInv'
<1> USE DEF Early, Requesting, Flushing
<1>1. PollTypes /\ Places /\ Sessions
  BY Zenon DEF PollInv
<1>2. UNCHANGED batching
  BY DEF Refresh, Batching, batching, hostVars, history
<1>3. /\ max_oids' = max_oids /\ Slots' = Slots /\ AtSnmp' = AtSnmp
      /\ i' = i /\ key' = key /\ count' = count /\ oids' = oids /\ results' = results
      /\ device_zero' = device_zero /\ asked' = asked /\ answered' = answered
  BY <1>2, BatchingSame, Zenon DEF batching
<1>4. PollTypes'
  BY <1>1, <1>3, ProfileAssumption DEF Refresh, PollTypes, PollStates, link, wire, Batching, walk, hostVars, Open, Close, NoSession
<1>5. Places'
  BY <1>1, <1>3 DEF Refresh, PollTypes, Places, Finished, AtSnmp, Batching, walk
<1>6. Sessions'
  BY <1>1, <1>3, ProfileAssumption DEF Refresh, PollTypes, Places, Sessions, link, Batching, walk, hostVars, Open, Close, NoSession
<1>7. Request'
  BY <1>1 DEF Refresh, Request
<1>8. Contents' /\ Served' /\ ResultsAreOwn'
  <2>1. /\ pc \notin Requesting /\ pc' \notin Requesting
        /\ pc \in Early \/ ((ignore_host => ignore_host') /\ spike_kill' = spike_kill)
    BY <1>1 DEF Refresh, Places, Batching, walk
  <2> QED
    BY <1>2, <2>1, MoveKeeps, Zenon
<1> QED
  BY <1>4, <1>5, <1>6, <1>7, <1>8, Zenon DEF PollInv

\* leaving a device that is only pinged,
LEMMA PingOnlyKeeps ==
    ASSUME PollInv, PingOnly
    PROVE  PollInv'
<1> USE DEF Early, Requesting, Flushing
<1>1. PollTypes /\ Places /\ Sessions
  BY Zenon DEF PollInv
<1>2. UNCHANGED batching
  BY DEF PingOnly, Batching, batching, hostVars, history
<1>3. /\ max_oids' = max_oids /\ Slots' = Slots /\ AtSnmp' = AtSnmp
      /\ i' = i /\ key' = key /\ count' = count /\ oids' = oids /\ results' = results
      /\ device_zero' = device_zero /\ asked' = asked /\ answered' = answered
  BY <1>2, BatchingSame, Zenon DEF batching
<1>4. PollTypes'
  BY <1>1, <1>3, ProfileAssumption DEF PingOnly, PollTypes, PollStates, link, wire, Batching, walk, hostVars, Open, Close, NoSession
<1>5. Places'
  BY <1>1, <1>3 DEF PingOnly, PollTypes, Places, Finished, AtSnmp, Batching, walk
<1>6. Sessions'
  BY <1>1, <1>3, ProfileAssumption DEF PingOnly, PollTypes, Places, Sessions, link, Batching, walk, hostVars, Open, Close, NoSession
<1>7. Request'
  BY <1>1 DEF PingOnly, Request
<1>8. Contents' /\ Served' /\ ResultsAreOwn'
  <2>1. /\ pc \notin Requesting /\ pc' \notin Requesting
        /\ pc \in Early \/ ((ignore_host => ignore_host') /\ spike_kill' = spike_kill)
    BY <1>1 DEF PingOnly, Places, Batching, walk
  <2> QED
    BY <1>2, <2>1, MoveKeeps, Zenon
<1> QED
  BY <1>4, <1>5, <1>6, <1>7, <1>8, Zenon DEF PollInv

\* the reindex checks, which may close and reopen the session,
LEMMA PollHostReindexKeeps ==
    ASSUME PollInv, PollHostReindex
    PROVE  PollInv'
<1> USE DEF Early, Requesting, Flushing
<1>1. PollTypes /\ Places /\ Sessions
  BY Zenon DEF PollInv
<1>2. UNCHANGED batching
  BY DEF PollHostReindex, Batching, batching, hostVars, history
<1>3. /\ max_oids' = max_oids /\ Slots' = Slots /\ AtSnmp' = AtSnmp
      /\ i' = i /\ key' = key /\ count' = count /\ oids' = oids /\ results' = results
      /\ device_zero' = device_zero /\ asked' = asked /\ answered' = answered
  BY <1>2, BatchingSame, Zenon DEF batching
<1>4. PollTypes'
  BY <1>1, <1>3, ProfileAssumption DEF PollHostReindex, PollTypes, PollStates, link, wire, Batching, walk, hostVars, Open, Close, NoSession
<1>5. Places'
  BY <1>1, <1>3 DEF PollHostReindex, PollTypes, Places, Finished, AtSnmp, Batching, walk
<1>6. Sessions'
  BY <1>1, <1>3, ProfileAssumption DEF PollHostReindex, PollTypes, Places, Sessions, link, Batching, walk, hostVars, Open, Close, NoSession
<1>7. Request'
  BY <1>1 DEF PollHostReindex, Request
<1>8. Contents' /\ Served' /\ ResultsAreOwn'
  <2>1. /\ pc \notin Requesting /\ pc' \notin Requesting
        /\ pc \in Early \/ ((ignore_host => ignore_host') /\ spike_kill' = spike_kill)
    BY <1>1 DEF PollHostReindex, Places, Batching, walk
  <2> QED
    BY <1>2, <2>1, MoveKeeps, Zenon
<1> QED
  BY <1>4, <1>5, <1>6, <1>7, <1>8, Zenon DEF PollInv

\* the selection of the items,
LEMMA SelectPollItemsKeeps ==
    ASSUME PollInv, SelectPollItems
    PROVE  PollInv'
<1> USE DEF Early, Requesting, Flushing
<1>1. PollTypes /\ Places /\ Sessions
  BY Zenon DEF PollInv
<1>2. UNCHANGED batching
  BY DEF SelectPollItems, Batching, batching, hostVars, history
<1>3. /\ max_oids' = max_oids /\ Slots' = Slots /\ AtSnmp' = AtSnmp
      /\ i' = i /\ key' = key /\ count' = count /\ oids' = oids /\ results' = results
      /\ device_zero' = device_zero /\ asked' = asked /\ answered' = answered
  BY <1>2, BatchingSame, Zenon DEF batching
<1>4. PollTypes'
  BY <1>1, <1>3, ProfileAssumption DEF SelectPollItems, PollTypes, PollStates, link, wire, Batching, walk, hostVars, Open, Close, NoSession
<1>5. Places'
  BY <1>1, <1>3 DEF SelectPollItems, PollTypes, Places, Finished, AtSnmp, Batching, walk
<1>6. Sessions'
  BY <1>1, <1>3, ProfileAssumption DEF SelectPollItems, PollTypes, Places, Sessions, link, Batching, walk, hostVars, Open, Close, NoSession
<1>7. Request'
  BY <1>1 DEF SelectPollItems, Request
<1>8. Contents' /\ Served' /\ ResultsAreOwn'
  <2>1. /\ pc \notin Requesting /\ pc' \notin Requesting
        /\ pc \in Early \/ ((ignore_host => ignore_host') /\ spike_kill' = spike_kill)
    BY <1>1 DEF SelectPollItems, Places, Batching, walk
  <2> QED
    BY <1>2, <2>1, MoveKeeps, Zenon
<1> QED
  BY <1>4, <1>5, <1>6, <1>7, <1>8, Zenon DEF PollInv

\* and the cleanup all keep the invariant.
LEMMA CleanupKeeps ==
    ASSUME PollInv, Cleanup
    PROVE  PollInv'
<1> USE DEF Early, Requesting, Flushing
<1>1. PollTypes /\ Places /\ Sessions
  BY Zenon DEF PollInv
<1>2. UNCHANGED batching
  BY DEF Cleanup, Batching, batching, hostVars, history
<1>3. /\ max_oids' = max_oids /\ Slots' = Slots /\ AtSnmp' = AtSnmp
      /\ i' = i /\ key' = key /\ count' = count /\ oids' = oids /\ results' = results
      /\ device_zero' = device_zero /\ asked' = asked /\ answered' = answered
  BY <1>2, BatchingSame, Zenon DEF batching
<1>4. PollTypes'
  BY <1>1, <1>3, ProfileAssumption DEF Cleanup, PollTypes, PollStates, link, wire, Batching, walk, hostVars, Open, Close, NoSession
<1>5. Places'
  BY <1>1, <1>3 DEF Cleanup, PollTypes, Places, Finished, AtSnmp, Batching, walk
<1>6. Sessions'
  BY <1>1, <1>3, ProfileAssumption DEF Cleanup, PollTypes, Places, Sessions, link, Batching, walk, hostVars, Open, Close, NoSession
<1>7. Request'
  BY <1>1 DEF Cleanup, Request
<1>8. Contents' /\ Served' /\ ResultsAreOwn'
  <2>1. /\ pc \notin Requesting /\ pc' \notin Requesting
        /\ pc \in Early \/ ((ignore_host => ignore_host') /\ spike_kill' = spike_kill)
    BY <1>1 DEF Cleanup, Places, Batching, walk
  <2> QED
    BY <1>2, <2>1, MoveKeeps, Zenon
<1> QED
  BY <1>4, <1>5, <1>6, <1>7, <1>8, Zenon DEF PollInv

\* An item of another profile flushes the batch first,
LEMMA ChangedKeeps ==
    ASSUME PollInv, Changed, UNCHANGED hostVars
    PROVE  PollInv'
<1> USE DEF Early, Requesting, Flushing
<1>1. PollTypes /\ Places /\ Sessions
  BY Zenon DEF PollInv
<1>2. UNCHANGED batching
  BY DEF Changed, Batching, batching, hostVars, history
<1>3. /\ max_oids' = max_oids /\ Slots' = Slots /\ AtSnmp' = AtSnmp
      /\ i' = i /\ key' = key /\ count' = count /\ oids' = oids /\ results' = results
      /\ device_zero' = device_zero /\ asked' = asked /\ answered' = answered
  BY <1>2, BatchingSame, Zenon DEF batching
<1>4. PollTypes'
  BY <1>1, <1>3, ProfileAssumption DEF Changed, PollTypes, PollStates, link, wire, Batching, walk, hostVars, Open, Close, NoSession, Flush
<1>5. Places'
  BY <1>1, <1>3 DEF Changed, PollTypes, Places, Finished, AtSnmp, Batching, walk, Flush
<1>6. Sessions'
  BY <1>1, <1>3, ProfileAssumption DEF Changed, PollTypes, Places, Sessions, link, Batching, walk, hostVars, Open, Close, NoSession, Flush
<1>7. Request'
  BY <1>1 DEF Changed, Request, Flush
<1>8. Contents' /\ Served' /\ ResultsAreOwn'
  <2>1. /\ pc \notin Requesting /\ pc' \notin Requesting
        /\ pc \in Early \/ ((ignore_host => ignore_host') /\ spike_kill' = spike_kill)
    BY <1>1 DEF Changed, Places, Batching, walk, Flush
  <2> QED
    BY <1>2, <2>1, MoveKeeps, Zenon
<1> QED
  BY <1>4, <1>5, <1>6, <1>7, <1>8, Zenon DEF PollInv

\* a full batch is flushed,
LEMMA FullKeeps ==
    ASSUME PollInv, Full, UNCHANGED hostVars
    PROVE  PollInv'
<1> USE DEF Early, Requesting, Flushing
<1>1. PollTypes /\ Places /\ Sessions
  BY Zenon DEF PollInv
<1>2. UNCHANGED batching
  BY DEF Full, Batching, batching, hostVars, history
<1>3. /\ max_oids' = max_oids /\ Slots' = Slots /\ AtSnmp' = AtSnmp
      /\ i' = i /\ key' = key /\ count' = count /\ oids' = oids /\ results' = results
      /\ device_zero' = device_zero /\ asked' = asked /\ answered' = answered
  BY <1>2, BatchingSame, Zenon DEF batching
<1>4. PollTypes'
  BY <1>1, <1>3, ProfileAssumption DEF Full, PollTypes, PollStates, link, wire, Batching, walk, hostVars, Open, Close, NoSession, Flush
<1>5. Places'
  BY <1>1, <1>3, MaxOidsPositive DEF Full, PollTypes, Places, Finished, AtSnmp, Batching, walk, Flush
<1>6. Sessions'
  BY <1>1, <1>3, ProfileAssumption DEF Full, PollTypes, Places, Sessions, link, Batching, walk, hostVars, Open, Close, NoSession, Flush
<1>7. Request'
  BY <1>1 DEF Full, Request, Flush
<1>8. Contents' /\ Served' /\ ResultsAreOwn'
  <2>1. /\ pc \notin Requesting /\ pc' \notin Requesting
        /\ pc \in Early \/ ((ignore_host => ignore_host') /\ spike_kill' = spike_kill)
    BY <1>1 DEF Full, Places, Batching, walk, Flush
  <2> QED
    BY <1>2, <2>1, MoveKeeps, Zenon
<1> QED
  BY <1>4, <1>5, <1>6, <1>7, <1>8, Zenon DEF PollInv

\* and so is what remains after the last item.
LEMMA FinalKeeps ==
    ASSUME PollInv, Final, UNCHANGED hostVars
    PROVE  PollInv'
<1> USE DEF Early, Requesting, Flushing
<1>1. PollTypes /\ Places /\ Sessions
  BY Zenon DEF PollInv
<1>2. UNCHANGED batching
  BY DEF Final, Batching, batching, hostVars, history
<1>3. /\ max_oids' = max_oids /\ Slots' = Slots /\ AtSnmp' = AtSnmp
      /\ i' = i /\ key' = key /\ count' = count /\ oids' = oids /\ results' = results
      /\ device_zero' = device_zero /\ asked' = asked /\ answered' = answered
  BY <1>2, BatchingSame, Zenon DEF batching
<1>4. PollTypes'
  BY <1>1, <1>3, ProfileAssumption DEF Final, PollTypes, PollStates, link, wire, Batching, walk, hostVars, Open, Close, NoSession, Flush
<1>5. Places'
  BY <1>1, <1>3 DEF Final, PollTypes, Places, Finished, AtSnmp, Batching, walk, Flush
<1>6. Sessions'
  BY <1>1, <1>3, ProfileAssumption DEF Final, PollTypes, Places, Sessions, link, Batching, walk, hostVars, Open, Close, NoSession, Flush
<1>7. Request'
  BY <1>1 DEF Final, Request, Flush
<1>8. Contents' /\ Served' /\ ResultsAreOwn'
  <2>1. /\ pc \notin Requesting /\ pc' \notin Requesting
        /\ pc \in Early \/ ((ignore_host => ignore_host') /\ spike_kill' = spike_kill)
    BY <1>1 DEF Final, Places, Batching, walk, Flush
  <2> QED
    BY <1>2, <2>1, MoveKeeps, Zenon
<1> QED
  BY <1>4, <1>5, <1>6, <1>7, <1>8, Zenon DEF PollInv

-----------------------------------------------------------------------------
(* The loop over the items *)

\* A value of the profile the batch has, in its slots.
LEMMA OwnValue ==
    ASSUME NEW p \in Positions
    PROVE  U # Right(p) /\ Empty # Right(p) /\ U # Empty
<1>1. p # 0 /\ p # -1
  BY DEF Positions
<1> QED
  BY <1>1 DEF U, Empty, Right

\* Every item has an SNMP profile.
LEMMA ItemTyped ==
    ASSUME NEW p \in Positions
    PROVE  Items[p].profile \in Nat /\ Items[p].profile # 0
<1> DEFINE Rows == [action : {"snmp", "script", "other"}, profile : Nat \ {0},
                    parses : BOOLEAN, pairs : BOOLEAN]
<1>1. Items \in Seq(Rows) /\ p \in 1..Len(Items)
  BY ItemsAssumption, Zenon DEF Positions
<1>2. Items[p] \in Rows
  <2> HIDE DEF Rows
  <2> QED
    BY <1>1
<1>3. Items[p].profile \in Nat \ {0}
  BY <1>2, Zenon
<1> QED
  BY <1>3

\* An item that is not collected over SNMP gets its own value or "U".
LEMMA PollOtherKeeps ==
    ASSUME PollInv, PollOther, UNCHANGED hostVars
    PROVE  PollInv'
<1> USE DEF Early, Requesting, Flushing
<1>1. PollTypes /\ Places /\ Contents /\ Sessions /\ Served /\ ResultsAreOwn
  BY Zenon DEF PollInv
<1>2. /\ pc = "item" /\ pc' = "item" /\ i \in Positions /\ i' = i + 1 /\ Items[i].action # "snmp"
      /\ ~ignore_host /\ UNCHANGED <<ret, key, spike_kill, session, handles, ignore_host>>
      /\ UNCHANGED <<count, oids, request, attempt, asked, answered, device_zero, rows>>
  BY DEF PollOther, link, wire, history, hostVars
<1>3. Slots' = Slots /\ max_oids' = max_oids /\ Batch' = Batch /\ Stored' = Stored
  BY <1>2, MaxOidsSame, Zenon DEF Batch, Stored
<1>4. PICK r \in {U, Right(i)} : results' = [results EXCEPT ![i] = Kept(i, r)]
  BY <1>2, ZenonT(60) DEF PollOther
<1>5. Kept(i, r) \in {U, Right(i)}
  BY <1>4, Zenon DEF Kept
<1>6. results' \in [Positions -> {U} \cup {Right(p) : p \in Positions}]
  <2> HIDE DEF Positions
  <2>1. Kept(i, r) \in {U} \cup {Right(p) : p \in Positions}
    BY <1>2, <1>5, Zenon
  <2> QED
    BY <1>1, <1>4, <2>1, ZenonT(60) DEF PollTypes
<1>7. i \in Nat /\ i' \in 1..(Len(Items) + 1) /\ 1..(i - 1) \in SUBSET (1..(i' - 1)) /\ Len(Items) \in Nat
  BY SMTT(60), <1>1, <1>2, ItemsAssumption DEF PollTypes, Positions
<1>8. PollTypes'
  BY <1>1, <1>2, <1>3, <1>6, <1>7 DEF PollTypes, PollStates
<1>9. Places' /\ Sessions' /\ Request'
  BY <1>1, <1>2 DEF Places, Sessions, Request
<1>10. Contents'
  BY <1>1, <1>2, <1>3, <1>7, Zenon DEF Contents
<1>11. ASSUME NEW p \in 1..(i - 1) PROVE results'[p] = results[p]
  <2>1. p # i /\ p \in Positions
    BY <1>2, <1>7 DEF Positions
  <2> QED
    BY <1>1, <1>4, <2>1, Zenon DEF PollTypes
<1>12. Served'
  <2>1. \A p \in 1..(i' - 1) : p = i \/ p \in 1..(i - 1)
    BY <1>2, <1>7
  <2>2. \A p \in 1..(i' - 1) :
           Items[p].action = "snmp" => p \in asked' \/ p \in Stored' \/ ignore_host'
    BY <1>1, <1>2, <1>3, <2>1, Zenon DEF Served
  <2>3. answered' \subseteq 1..(i' - 1) /\ (pc' # "store" => answered' \cap Stored' = {})
    BY <1>1, <1>2, <1>3, <1>7, Zenon DEF Served
  <2>4. ASSUME NEW p \in answered'
        PROVE  p \notin Stored' /\ results'[p] = Kept(p, Right(p))'
    <3>1. p \notin Stored /\ results[p] = Kept(p, Right(p)) /\ p \in 1..(i - 1)
      BY <1>1, <1>2, <2>4, Zenon DEF Served
    <3>2. Kept(p, Right(p))' = Kept(p, Right(p))
      BY <1>2, Zenon DEF Kept, Right
    <3> QED
      BY <1>3, <1>11, <3>1, <3>2, Zenon
  <2> QED
    BY <1>2, <2>2, <2>3, <2>4, Zenon DEF Served
<1>13. ResultsAreOwn'
  <2>1. ASSUME NEW p \in Positions, p # i PROVE results'[p] = results[p]
    BY <1>1, <1>4, <2>1, Zenon DEF PollTypes
  <2>2. results'[i] \in {U, Right(i)}
    BY <1>1, <1>2, <1>4, <1>5, Zenon DEF PollTypes
  <2> QED
    BY <1>1, <2>1, <2>2, Zenon DEF ResultsAreOwn
<1> QED
  BY <1>8, <1>9, <1>10, <1>12, <1>13, Zenon DEF PollInv

\* The first SNMP item opens the session; without one the device is ignored.
LEMMA PollSnmpItemKeeps ==
    ASSUME PollInv, PollSnmpItem, UNCHANGED hostVars
    PROVE  PollInv'
<1> USE DEF Early, Requesting, Flushing
<1>1. PollTypes /\ Places /\ Contents /\ Sessions /\ Served /\ ResultsAreOwn
  BY Zenon DEF PollInv
<1>2. /\ pc = "item" /\ i \in Positions /\ Items[i].action = "snmp" /\ ~ignore_host
      /\ UNCHANGED <<ret, spike_kill, count, oids, request, attempt, results, asked, answered,
                     device_zero, rows>>
  BY DEF PollSnmpItem, wire, history, hostVars
<1>3. Slots' = Slots /\ max_oids' = max_oids /\ Batch' = Batch /\ Stored' = Stored
  BY <1>2, MaxOidsSame, Zenon DEF Batch, Stored
<1>4. /\ Items[i].profile \in Nat \ {0}
      /\ i \in Nat /\ i + 1 \in 1..(Len(Items) + 1)
      /\ 1..(i - 1) \in SUBSET (1..((i + 1) - 1)) /\ 1..(i - 1) \in SUBSET (1..(i - 1))
  <2>1. i \in Nat /\ i + 1 \in 1..(Len(Items) + 1)
    BY <1>2, ItemsAssumption DEF Positions
  <2>2. 1..(i - 1) \in SUBSET (1..((i + 1) - 1))
    BY <2>1
  <2> QED
    BY <1>2, <2>1, <2>2, ItemTyped
<1>5. /\ key' \in Nat \ {0} /\ session' \in {NoSession, key'} /\ (key # 0 => key' = key)
      /\ handles' = IF session' = NoSession THEN 0 ELSE 1
  <2>1. CASE key = 0
    BY <1>1, <1>2, <1>4, <2>1 DEF PollSnmpItem, Open, Sessions, NoSession
  <2>2. CASE key # 0
    BY <1>1, <2>2 DEF PollSnmpItem, Sessions, PollTypes, link
  <2> QED
    BY <2>1, <2>2
<1>6. count > 0 => key # 0
  BY <1>1 DEF Contents
<1>7. \A s \in Batch : count > 0
  BY <1>1 DEF Batch, PollTypes
<1>8. Contents'
  <2>1. i' = i \/ i' = i + 1
    BY <1>2, Zenon DEF PollSnmpItem
  <2>2. 1..(i - 1) \in SUBSET (1..(i' - 1))
    BY <1>4, <2>1, Zenon
  <2>3. \A s \in Batch : oids[s].pos \in 1..(i' - 1) /\ Items[oids[s].pos].profile = key'
    BY <1>1, <1>5, <1>6, <1>7, <2>2, Zenon DEF Contents
  <2>4. count > 0 => key' # 0
    BY <1>5
  <2>5. \A s \in Slots : oids[s].result = Empty
    BY <1>1, <1>2, Zenon DEF Contents
  <2> QED
    BY <1>1, <1>2, <1>3, <2>3, <2>4, <2>5, Zenon DEF Contents
<1>9. ResultsAreOwn'
  BY <1>1, <1>2, Zenon DEF ResultsAreOwn
<1>10. Request'
  BY <1>2 DEF PollSnmpItem, Request
<1>11. CASE session' = NoSession
  <2>1. ignore_host' = TRUE /\ i' = i + 1 /\ pc' = "item"
    BY <1>2, <1>11, Zenon DEF PollSnmpItem
  <2>2. PollTypes'
    BY <1>1, <1>2, <1>3, <1>4, <1>5, <1>11, <2>1 DEF PollTypes, PollStates, NoSession
  <2>3. Places'
    BY <2>1, <1>2 DEF Places
  <2>4. Sessions'
    BY <1>5, <1>11, <2>1, Zenon DEF Sessions
  <2>5. Served'
    <3>1. answered' \subseteq 1..(i' - 1)
      BY <1>1, <1>2, <1>4, <2>1, Zenon DEF Served
    <3> QED
      BY <1>1, <1>2, <1>3, <2>1, <3>1, Zenon DEF Served
  <2> QED
    BY <1>8, <1>9, <1>10, <2>2, <2>3, <2>4, <2>5, Zenon DEF PollInv
<1>12. CASE session' # NoSession
  <2>1. ignore_host' = ignore_host /\ i' = i /\ pc' = "changed"
    BY <1>2, <1>12, Zenon DEF PollSnmpItem
  <2>2. PollTypes'
    BY <1>1, <1>2, <1>3, <1>5, <2>1 DEF PollTypes, PollStates, NoSession
  <2>3. AtSnmp'
    BY <1>2, <1>5, <2>1, Zenon DEF AtSnmp
  <2>4. Places'
    BY <2>1, <2>3, Zenon DEF Places
  <2>5. Sessions'
    BY <1>5, <1>12, <2>1, Zenon DEF Sessions
  <2>6. Served'
    <3>1. \A p \in answered : Kept(p, Right(p))' = Kept(p, Right(p))
      BY <1>2, Zenon DEF Kept, Right
    <3> QED
      BY <1>1, <1>2, <1>3, <2>1, <3>1, Zenon DEF Served
  <2> QED
    BY <1>8, <1>9, <1>10, <2>2, <2>4, <2>5, <2>6, Zenon DEF PollInv
<1> QED
  BY <1>11, <1>12, Zenon

\* Another profile closes the session before it opens one.
LEMMA ReopenKeeps ==
    ASSUME PollInv, Reopen, UNCHANGED hostVars
    PROVE  PollInv'
<1> USE DEF Early, Requesting, Flushing
<1>1. PollTypes /\ Places /\ Contents /\ Sessions /\ Served /\ ResultsAreOwn
  BY Zenon DEF PollInv
<1>2. /\ pc = "reopen" /\ pc' = "full" /\ key' = Items[i].profile
      /\ UNCHANGED <<i, ret, spike_kill, ignore_host, count, oids, request, attempt, results,
                     asked, answered, device_zero, rows>>
  BY DEF Reopen, wire, history, hostVars
<1>3. Slots' = Slots /\ max_oids' = max_oids /\ Batch' = Batch /\ Stored' = Stored
  BY <1>2, MaxOidsSame, Zenon DEF Batch, Stored
<1>4. AtSnmp /\ count = 0 /\ Batch = {}
  BY <1>1, <1>2 DEF Places, Batch
<1>5. key' \in Nat \ {0}
  BY <1>2, <1>4, ItemTyped DEF AtSnmp
<1>6. session' \in {NoSession, key'} /\ handles' = IF session' = NoSession THEN 0 ELSE 1
  BY <1>1, <1>2 DEF Reopen, Sessions
<1>7. PollTypes'
  BY <1>1, <1>2, <1>3, <1>5, <1>6 DEF PollTypes, PollStates, NoSession
<1>8. Places'
  BY <1>2, <1>4, <1>5 DEF Places, AtSnmp
<1>9. Contents'
  BY <1>1, <1>2, <1>3, <1>4, <1>5, Zenon DEF Contents
<1>10. Sessions'
  BY <1>2, <1>6, Zenon DEF Sessions
<1>11. Request'
  BY <1>2 DEF Request
<1>12. ResultsAreOwn'
  BY <1>1, <1>2, Zenon DEF ResultsAreOwn
<1>13. Served'
  <2>1. \A p \in answered : Kept(p, Right(p))' = Kept(p, Right(p))
    BY <1>2, Zenon DEF Kept, Right
  <2> QED
    BY <1>1, <1>2, <1>3, <2>1, Zenon DEF Served
<1> QED
  BY <1>7, <1>8, <1>9, <1>10, <1>11, <1>12, <1>13, Zenon DEF PollInv

\* The item appended is the one the loop stands at, and its slot is free.
LEMMA Append_Keeps ==
    ASSUME PollInv, Append_, UNCHANGED hostVars
    PROVE  PollInv'
<1> USE DEF Early, Requesting, Flushing
<1>1. PollTypes /\ Places /\ Contents /\ Sessions /\ Served /\ ResultsAreOwn
  BY Zenon DEF PollInv
<1>2. /\ pc = "append" /\ pc' = "item" /\ count' = count + 1 /\ i' = i + 1
      /\ UNCHANGED <<ret, key, spike_kill, session, handles, ignore_host, request, attempt, results,
                     asked, answered, device_zero, rows>>
  BY DEF Append_, link, wire, history, hostVars
<1>3. Slots' = Slots /\ max_oids' = max_oids
  BY <1>2, MaxOidsSame
<1>4. /\ i \in Positions /\ key # 0 /\ Items[i].profile = key /\ count < max_oids
      /\ Items[i].action = "snmp"
  BY <1>1, <1>2, Zenon DEF Places, AtSnmp
<1>5. /\ max_oids \in Nat /\ count \in Nat /\ count + 1 \in Slots /\ count' \in 0..max_oids
      /\ Batch' = Batch \cup {count + 1} /\ count + 1 \notin Batch /\ Batch \in SUBSET Slots
  BY <1>1, <1>2, <1>4, MaxOidsPositive DEF PollTypes, Slots, Batch
<1>6. /\ i \in Nat /\ i' \in 1..(Len(Items) + 1) /\ i \in 1..(i' - 1) /\ i \notin 1..(i - 1)
      /\ 1..(i - 1) \in SUBSET (1..(i' - 1)) /\ 1..(i' - 1) = (1..(i - 1)) \cup {i}
  BY <1>2, <1>4, ItemsAssumption DEF Positions
<1>7. oids' = [oids EXCEPT ![count + 1].pos = i]
  BY <1>2, <1>3, <1>5 DEF Append_
<1>8. /\ DOMAIN oids = Slots
      /\ \A s \in Slots : oids[s] \in [pos : Nat, result : SlotValues]
  BY <1>1, Zenon DEF PollTypes
<1>9. oids'[count + 1].pos = i /\ oids'[count + 1].result = oids[count + 1].result
  BY <1>5, <1>7, <1>8
<1>10. \A s \in Batch : oids'[s] = oids[s]
  BY <1>5, <1>7, <1>8
<1>11. \A s \in Slots : oids'[s].result = Empty
  <2>1. \A s \in Slots : oids[s].result = Empty
    BY <1>1, <1>2, Zenon DEF Contents
  <2>2. \A s \in Slots : oids'[s].result = oids[s].result
    BY <1>5, <1>7, <1>8
  <2> QED
    BY <2>1, <2>2, Zenon
<1>12. oids' \in [Slots -> [pos : Nat, result : SlotValues]]
  <2>1. oids \in [Slots -> [pos : Nat, result : SlotValues]]
    BY <1>1, Zenon DEF PollTypes
  <2> QED
    BY <1>5, <1>6, <1>7, <2>1
<1>13. Stored' = Stored \cup {i}
  BY <1>5, <1>9, <1>10, Zenon DEF Stored
<1>14. \A s \in Batch : oids[s].pos \in 1..(i - 1)
  BY <1>1, Zenon DEF Contents
<1>15. PollTypes'
  BY <1>1, <1>2, <1>3, <1>5, <1>6, <1>12 DEF PollTypes, PollStates
<1>16. Places' /\ Request'
  BY <1>2 DEF Places, Request
<1>17. Sessions'
  BY <1>1, <1>2, <1>4, Zenon DEF Sessions
<1>18. Contents'
  <2>1. count' > 0 => key' # 0
    BY <1>2, <1>4
  <2>2. ASSUME NEW s \in Batch'
        PROVE  /\ oids'[s].pos \in 1..(i' - 1) /\ Items[oids'[s].pos].profile = key'
               /\ oids'[s].result \in {Empty, U, Right(oids'[s].pos)}
    <3>1. CASE s = count + 1
      BY <1>2, <1>4, <1>5, <1>6, <1>9, <1>11, <3>1, Zenon
    <3>2. CASE s \in Batch
      BY <1>1, <1>2, <1>5, <1>6, <1>10, <1>11, <3>2, Zenon DEF Contents
    <3> QED
      BY <1>5, <3>1, <3>2, Zenon
  <2>3. ASSUME NEW s \in Batch', NEW t \in Batch', oids'[s].pos = oids'[t].pos PROVE s = t
    <3>1. CASE s \in Batch /\ t \in Batch
      BY <1>1, <1>10, <2>3, <3>1, Zenon DEF Contents
    <3>2. CASE s = count + 1 /\ t \in Batch
      BY <1>6, <1>9, <1>10, <1>14, <2>3, <3>2, Zenon
    <3>3. CASE t = count + 1 /\ s \in Batch
      BY <1>6, <1>9, <1>10, <1>14, <2>3, <3>3, Zenon
    <3> QED
      BY <1>5, <3>1, <3>2, <3>3, Zenon
  <2> QED
    BY <1>2, <1>3, <1>11, <2>1, <2>2, <2>3, Zenon DEF Contents
<1>19. Served'
  <2>1. \A p \in answered : p \in 1..(i - 1) /\ p \notin Stored'
    BY <1>1, <1>2, <1>6, <1>13, Zenon DEF Served
  <2>2. \A p \in answered : ignore_host \/ results[p] = Kept(p, Right(p))
    BY <1>1, <1>2, Zenon DEF Served
  <2>3. \A p \in answered : Kept(p, Right(p))' = Kept(p, Right(p))
    BY <1>2, Zenon DEF Kept, Right
  <2>4. \A p \in 1..(i' - 1) :
           Items[p].action = "snmp" => p \in asked' \/ p \in Stored' \/ ignore_host'
    BY <1>1, <1>2, <1>6, <1>13, Zenon DEF Served
  <2>5. answered' \subseteq 1..(i' - 1) /\ answered' \cap Stored' = {}
    BY <1>2, <1>6, <2>1, Zenon
  <2> QED
    BY <1>2, <2>1, <2>2, <2>3, <2>4, <2>5, Zenon DEF Served
<1>20. ResultsAreOwn'
  BY <1>1, <1>2, Zenon DEF ResultsAreOwn
<1> QED
  BY <1>15, <1>16, <1>17, <1>18, <1>19, <1>20, Zenon DEF PollInv

-----------------------------------------------------------------------------
(* A request and its repetitions *)

\* The slots still asked for, and what they are asked for.
LEMMA LiveFinite ==
    ASSUME PollTypes, NEW slots
    PROVE  /\ Live(slots) \in SUBSET Batch /\ Live(slots) \in SUBSET Nat
           /\ IsFiniteSet(Live(slots)) /\ Cardinality(Live(slots)) \in Nat
           /\ Cardinality(Live(slots)) <= count
<1>1. Live(slots) \in SUBSET Batch
  BY Zenon DEF Live
<1>2. count \in Nat
  BY MaxOidsPositive DEF PollTypes
<1>3. IsFiniteSet(Batch) /\ Cardinality(Batch) = count
  <2>1. 1 \in Int /\ count \in Int
    BY <1>2
  <2>2. IsFiniteSet(1..count) /\ Cardinality(1..count) = IF 1 > count THEN 0 ELSE count - 1 + 1
    BY <2>1, FS_Interval, Zenon
  <2> QED
    BY <1>2, <2>2 DEF Batch
<1>4. IsFiniteSet(Live(slots)) /\ Cardinality(Live(slots)) <= count
  BY <1>1, <1>3, FS_Subset, Zenon
<1>5. Batch \in SUBSET Nat
  BY DEF Batch
<1> QED
  BY <1>1, <1>4, <1>5, FS_CardinalityType, Zenon

\* The place of a slot in the PDU is its rank among the live slots,
LEMMA PlaceUpTo ==
    ASSUME NEW slots, NEW s
    PROVE  Place(slots, s) = Cardinality(UpTo(Live(slots), s))
BY Zenon DEF Place, UpTo

\* Slot() is the inverse of Place().
LEMMA SlotPlace ==
    ASSUME PollTypes, NEW slots, NEW k \in 1..Cardinality(Live(slots))
    PROVE  Slot(slots, k) \in Live(slots) /\ Place(slots, Slot(slots, k)) = k
<1>1. \E s \in Live(slots) : Place(slots, s) = k
  BY LiveFinite, UpToOnto, PlaceUpTo, Zenon
<1> QED
  BY <1>1, Zenon DEF Slot

\* so it is a place of the PDU,
LEMMA PlaceRange ==
    ASSUME PollTypes, NEW slots, NEW s \in Live(slots)
    PROVE  Place(slots, s) \in 1..Cardinality(Live(slots))
BY LiveFinite, UpToRange, PlaceUpTo, Zenon

\* and no two live slots share one.
LEMMA PlaceInjective ==
    ASSUME PollTypes, NEW slots, NEW s \in Live(slots), NEW t \in Live(slots),
           Place(slots, s) = Place(slots, t)
    PROVE  s = t
BY LiveFinite, UpToInjective, PlaceUpTo, Zenon

\* While a request is out only pc and the results in its slots change.
requesting == <<device_zero, i, ret, key, spike_kill, session, handles, count, results, rows>>

\* A request changes neither the batch nor what an item's own value is.
LEMMA RequestingSame ==
    ASSUME UNCHANGED requesting
    PROVE  /\ Batch' = Batch /\ Slots' = Slots /\ max_oids' = max_oids
           /\ AtSnmp' = AtSnmp
           /\ \A p : Kept(p, Right(p))' = Kept(p, Right(p))
<1>1. Batch' = Batch /\ Slots' = Slots /\ max_oids' = max_oids
  BY MaxOidsSame, Zenon DEF requesting, Batch
<1>2. AtSnmp' = AtSnmp
  BY Zenon DEF requesting, AtSnmp
<1>3. \A p : Kept(p, Right(p))' = Kept(p, Right(p))
  BY Zenon DEF requesting, Kept, Right
<1> QED
  BY <1>1, <1>2, <1>3, Zenon

\* New results in the slots of the batch: U, the one that was there, or the
\* item's own.
Rewritten ==
    /\ DOMAIN oids' = Slots
    /\ \A s \in Slots : /\ oids'[s] = [oids[s] EXCEPT !.result = oids'[s].result]
                        /\ s \notin Batch => oids'[s].result \in {oids[s].result, U}
    /\ \A s \in Batch : oids'[s].result \in {oids[s].result, U, Right(oids[s].pos)}
    /\ oids' = [s \in Slots |-> oids'[s]]

\* A step within a request keeps everything but what was asked and answered, if it
\* keeps the positions of the slots.
LEMMA RequestKeeps ==
    ASSUME PollInv, UNCHANGED requesting, Rewritten,
           pc \in Flushing, pc' \in Requesting, request' \in Seq(Nat), attempt' \in Nat,
           ignore_host' \in BOOLEAN, ignore_host => ignore_host'
    PROVE  /\ PollTypes' /\ Places' /\ Contents' /\ Sessions' /\ ResultsAreOwn'
           /\ Stored' = Stored
           /\ \A s \in Batch : oids'[s].pos = oids[s].pos
<1>1. PollTypes /\ Places /\ Contents /\ Sessions /\ ResultsAreOwn
  BY Zenon DEF PollInv
<1>2. /\ Batch' = Batch /\ Slots' = Slots /\ max_oids' = max_oids /\ AtSnmp' = AtSnmp
      /\ UNCHANGED <<device_zero, i, ret, key, spike_kill, session, handles, count, results, rows>>
  BY RequestingSame, Zenon DEF requesting
<1>3. Batch \in SUBSET Slots
  BY <1>1, BatchInSlots
<1>4. oids \in [Slots -> [pos : Nat, result : SlotValues]]
  BY <1>1, Zenon DEF PollTypes
<1>5. \A s \in Slots : oids'[s].pos = oids[s].pos
  <2>1. ASSUME NEW s \in Slots PROVE oids'[s].pos = oids[s].pos
    <3> DEFINE r == oids'[s].result
    <3>1. oids'[s] = [oids[s] EXCEPT !.result = r]
      BY Zenon DEF Rewritten
    <3> HIDE DEF r
    <3>2. [oids[s] EXCEPT !.result = r].pos = oids[s].pos
      BY <1>4
    <3> QED
      BY <3>1, <3>2, Zenon
  <2> QED
    BY <2>1, Zenon
<1>6. \A s \in Batch : oids[s].pos \in Positions
  <2>1. 1..(i - 1) \in SUBSET Positions
    BY <1>1, ItemsAssumption DEF PollTypes, Positions
  <2> QED
    BY <1>1, <2>1, Zenon DEF Contents
<1>7. \A s \in Slots : oids'[s].result \in SlotValues
  <2>1. \A s \in Slots : oids[s].result \in SlotValues
    BY <1>4
  <2>2. ASSUME NEW s \in Slots PROVE oids'[s].result \in {oids[s].result, U} \cup {Right(p) : p \in Positions}
    BY <1>6, Zenon DEF Rewritten
  <2> QED
    BY <2>1, <2>2, Zenon DEF SlotValues
<1>8. oids' \in [Slots' -> [pos : Nat, result : SlotValues]]
  <2>1. ASSUME NEW s \in Slots PROVE oids'[s] \in [pos : Nat, result : SlotValues]
    <3>1. [oids[s] EXCEPT !.result = oids'[s].result] \in [pos : Nat, result : SlotValues]
      BY SMTT(60), <1>4, <1>7
    <3> QED
      BY <3>1, Zenon DEF Rewritten
  <2> QED
    BY <1>2, <2>1, Zenon DEF Rewritten
<1>9. PollTypes'
  <2>1. pc' \in PollStates
    BY Zenon DEF PollStates, Flushing
  <2> QED
    BY <1>1, <1>2, <1>8, <2>1, Zenon DEF PollTypes
<1>10. Places'
  <2>1. /\ pc' \notin Early
        /\ pc' \notin {"changed", "reopen", "full", "append", "done"}
    BY DEF Early, Requesting
  <2>2. Finished => Finished'
    BY <1>2, Zenon DEF Finished
  <2> QED
    BY <1>1, <1>2, <2>1, <2>2, Zenon DEF Places, Flushing
<1>11. Contents'
  <2>1. \A s \in Batch : /\ oids'[s].pos \in 1..(i - 1) /\ Items[oids'[s].pos].profile = key
                         /\ oids'[s].result \in {Empty, U, Right(oids'[s].pos)}
    BY <1>1, <1>3, <1>5, Zenon DEF Contents, Rewritten
  <2>2. \A s, t \in Batch : oids'[s].pos = oids'[t].pos => s = t
    BY <1>1, <1>3, <1>5, Zenon DEF Contents
  <2> QED
    BY <1>1, <1>2, <2>1, <2>2, Zenon DEF Contents
<1>12. Sessions'
  <2>1. pc' \notin {"load", "refresh", "loaded", "select", "item", "returned"}
    BY DEF Requesting
  <2> QED
    BY <1>1, <1>2, <2>1, Zenon DEF Sessions
<1>13. ResultsAreOwn'
  BY <1>1, <1>2, Zenon DEF ResultsAreOwn
<1>14. Stored' = Stored
  BY <1>2, <1>3, <1>5, Zenon DEF Stored
<1> QED
  BY <1>3, <1>5, <1>9, <1>10, <1>11, <1>12, <1>13, <1>14, Zenon

\* A step that no value comes with.
LEMMA ServedKeeps ==
    ASSUME PollInv, UNCHANGED requesting, Stored' = Stored,
           pc \in Flushing, pc # "store", pc' \in Requesting,
           answered' = answered, asked \subseteq asked', Stored \subseteq asked',
           ignore_host => ignore_host'
    PROVE  Served'
<1>1. Served
  BY Zenon DEF PollInv
<1>2. UNCHANGED <<i, results>> /\ \A p : Kept(p, Right(p))' = Kept(p, Right(p))
  BY RequestingSame, Zenon DEF requesting
<1>3. \A p \in 1..(i' - 1) :
        Items[p].action = "snmp" => p \in asked' \/ p \in Stored' \/ ignore_host'
  BY <1>1, <1>2, Zenon DEF Served
<1>4. answered' \subseteq 1..(i' - 1) /\ answered' \cap Stored' = {}
  BY <1>1, <1>2, Zenon DEF Served
<1>5. \A p \in answered' : ignore_host' \/ (p \notin Stored' /\ results'[p] = Kept(p, Right(p))')
  BY <1>1, <1>2, Zenon DEF Served
<1>6. pc' \in Requesting => Stored' \subseteq asked'
  BY Zenon
<1> QED
  BY <1>3, <1>4, <1>5, <1>6, Zenon DEF Served

\* A slot holds a position and a value.
LEMMA SlotsTyped ==
    ASSUME PollTypes, NEW s \in Slots
    PROVE  oids[s] \in [pos : Nat, result : SlotValues]
           /\ [oids[s] EXCEPT !.result = oids[s].result] = oids[s]
<1>1. oids[s] \in [pos : Nat, result : SlotValues]
  BY Zenon DEF PollTypes
<1> QED
  BY <1>1

\* A slot that is given a value holds it.
LEMMA SlotSet ==
    ASSUME NEW slot \in [pos : Nat, result : SlotValues], NEW r, NEW set,
           set = [slot EXCEPT !.result = r]
    PROVE  set.result = r
OBVIOUS

\* Slots that each keep their result or get another one are Rewritten.
LEMMA RewrittenBy ==
    ASSUME PollTypes, DOMAIN oids' = Slots, oids' = [s \in Slots |-> oids'[s]],
           \A s \in Slots :
             \/ oids'[s] = oids[s]
             \/ oids'[s] = [oids[s] EXCEPT !.result = U]
             \/ s \in Batch /\ oids'[s] = [oids[s] EXCEPT !.result = Right(oids[s].pos)]
    PROVE  Rewritten
<1>1. Batch \in SUBSET Slots
  BY BatchInSlots, Zenon
<1>2. ASSUME NEW s \in Slots
      PROVE  /\ oids'[s] = [oids[s] EXCEPT !.result = oids'[s].result]
             /\ oids'[s].result \in {oids[s].result, U, Right(oids[s].pos)}
             /\ s \notin Batch => oids'[s].result \in {oids[s].result, U}
  <2>1. CASE oids'[s] = oids[s]
    BY <2>1, SlotsTyped, Zenon
  <2>2. CASE oids'[s] = [oids[s] EXCEPT !.result = U]
    <3>1. oids'[s].result = U
      BY <2>2, SlotsTyped, SlotSet, Zenon
    <3> QED
      BY <2>2, <3>1, Zenon
  <2>3. CASE s \in Batch /\ oids'[s] = [oids[s] EXCEPT !.result = Right(oids[s].pos)]
    <3> DEFINE own == Right(oids[s].pos)
    <3>1. oids'[s] = [oids[s] EXCEPT !.result = own] /\ s \in Batch
      BY <2>3, Zenon
    <3>2. own = Right(oids[s].pos)
      BY Zenon
    <3> HIDE DEF own
    <3>3. oids'[s].result = own
      BY <3>1, SlotsTyped, SlotSet, Zenon
    <3> QED
      BY <3>1, <3>2, <3>3, Zenon
  <2> QED
    BY <2>1, <2>2, <2>3, Zenon
<1> QED
  BY <1>1, <1>2, Zenon DEF Rewritten

\* All slots of the batch set to "U" are Rewritten,
LEMMA AllUndefinedRewrites ==
    ASSUME PollTypes, oids' = AllUndefined
    PROVE  Rewritten
<1>1. /\ DOMAIN oids' = Slots /\ oids' = [s \in Slots |-> oids'[s]]
  BY Zenon DEF AllUndefined
<1>2. \A s \in Slots : oids'[s] = oids[s] \/ oids'[s] = [oids[s] EXCEPT !.result = U]
  BY Zenon DEF AllUndefined
<1> QED
  BY <1>1, <1>2, RewrittenBy, Zenon

\* and so are slots that stay as they are.
LEMMA SameRewrites ==
    ASSUME PollTypes, oids' = oids
    PROVE  Rewritten
<1>1. /\ DOMAIN oids' = Slots /\ oids' = [s \in Slots |-> oids'[s]]
  BY Zenon DEF PollTypes
<1>2. \A s \in Slots : oids'[s] = oids[s]
  BY Zenon
<1> QED
  BY <1>1, <1>2, RewrittenBy, Zenon

\* The place of a variable of the request, in the next state.
LEMMA NextPlace ==
    ASSUME Batch' = Batch
    PROVE  /\ Live(oids)' = Live(oids')
           /\ \A k : Place(oids, request[k])' = Cardinality(UpTo(Live(oids'), request'[k]))
<1>1. Live(oids)' = Live(oids')
  BY Zenon DEF Live
<1>2. ASSUME NEW k
      PROVE  Place(oids, request[k])' = Cardinality(UpTo(Live(oids'), request'[k]))
  <2>1. Place(oids, request[k])' = Cardinality({t \in Live(oids)' : t <= request'[k]})
    BY Zenon DEF Place
  <2> QED
    BY <1>1, <2>1, Zenon DEF UpTo
<1> QED
  BY <1>1, <1>2, Zenon

\* A request without an answer leaves the slots as they are or makes them "U".
LEMMA NoAnswerKeeps ==
    ASSUME PollInv, NoAnswer, UNCHANGED hostVars
    PROVE  PollInv'
<1>1. PollTypes /\ Served
  BY Zenon DEF PollInv
<1>2. /\ pc = "send" /\ pc' = "store" /\ request' = <<>> /\ attempt' = attempt + 1
      /\ UNCHANGED requesting /\ UNCHANGED <<asked, answered>>
  BY DEF NoAnswer, requesting, walk, link, history, hostVars
<1>3. (ignore_host' = TRUE \/ ignore_host' = ignore_host) /\ oids' \in {oids, AllUndefined}
  BY Zenon DEF NoAnswer
<1>4. ignore_host' \in BOOLEAN /\ (ignore_host => ignore_host')
  <2>1. CASE ignore_host' = TRUE
    BY <2>1, Zenon
  <2>2. CASE ignore_host' = ignore_host
    BY <1>1, <2>2, Zenon DEF PollTypes
  <2> QED
    BY <1>3, <2>1, <2>2, Zenon
<1>5. request' \in Seq(Nat) /\ attempt' \in Nat
  BY <1>1, <1>2 DEF PollTypes
<1>6. Rewritten
  BY <1>1, <1>3, AllUndefinedRewrites, SameRewrites, Zenon
<1>7. pc \in Flushing /\ pc' \in Requesting /\ pc # "store" /\ pc \in Requesting
  BY <1>2 DEF Flushing, Requesting
<1>8. /\ PollTypes' /\ Places' /\ Contents' /\ Sessions' /\ ResultsAreOwn' /\ Stored' = Stored
  BY <1>2, <1>4, <1>5, <1>6, <1>7, RequestKeeps, Zenon
<1>9. Served'
  <2>1. asked \subseteq asked' /\ Stored \subseteq asked'
    BY <1>1, <1>2, <1>7, Zenon DEF Served
  <2> QED
    BY <1>2, <1>4, <1>7, <1>8, <2>1, ServedKeeps, Zenon
<1>10. Request'
  BY <1>2 DEF Request
<1> QED
  BY <1>8, <1>9, <1>10, Zenon DEF PollInv

\* A request left over when the attempts are used up makes the batch "U".
LEMMA SpentKeeps ==
    ASSUME PollInv, Spent, UNCHANGED hostVars
    PROVE  PollInv'
<1>1. PollTypes /\ Served
  BY Zenon DEF PollInv
<1>2. /\ pc = "spent" /\ pc' = "store" /\ request' = <<>> /\ attempt' = attempt
      /\ UNCHANGED requesting /\ UNCHANGED <<asked, answered, ignore_host>>
  BY DEF Spent, requesting, walk, link, history, hostVars
<1>3. oids' \in {oids, AllUndefined}
  BY Zenon DEF Spent
<1>4. ignore_host' \in BOOLEAN /\ (ignore_host => ignore_host')
  BY <1>1, <1>2, Zenon DEF PollTypes
<1>5. request' \in Seq(Nat) /\ attempt' \in Nat
  BY <1>1, <1>2 DEF PollTypes
<1>6. Rewritten
  BY <1>1, <1>3, AllUndefinedRewrites, SameRewrites, Zenon
<1>7. pc \in Flushing /\ pc' \in Requesting /\ pc # "store" /\ pc \in Requesting
  BY <1>2 DEF Flushing, Requesting
<1>8. /\ PollTypes' /\ Places' /\ Contents' /\ Sessions' /\ ResultsAreOwn' /\ Stored' = Stored
  BY <1>2, <1>4, <1>5, <1>6, <1>7, RequestKeeps, Zenon
<1>9. Served'
  <2>1. asked \subseteq asked' /\ Stored \subseteq asked'
    BY <1>1, <1>2, <1>7, Zenon DEF Served
  <2> QED
    BY <1>2, <1>4, <1>7, <1>8, <2>1, ServedKeeps, Zenon
<1>10. Request'
  BY <1>2 DEF Request
<1> QED
  BY <1>8, <1>9, <1>10, Zenon DEF PollInv

\* A request asks for the live slots, in their order.
LEMMA BuildRequestKeeps ==
    ASSUME PollInv, BuildRequest, UNCHANGED hostVars
    PROVE  PollInv'
<1>1. PollTypes /\ Served /\ Places
  BY Zenon DEF PollInv
<1>2. /\ pc = "flush" /\ attempt' = 0 /\ asked' = asked \cup Stored
      /\ UNCHANGED requesting /\ answered' = answered
  BY DEF BuildRequest, requesting, walk, link, hostVars, Stored
<1>3. pc \in Flushing /\ pc # "store"
  BY <1>2 DEF Flushing
<1>4. asked \subseteq asked' /\ Stored \subseteq asked'
  BY <1>2, Zenon
<1>5. Batch' = Batch
  BY <1>2, RequestingSame, Zenon
<1>6. ASSUME pc' \in Requesting, Rewritten, request' \in Seq(Nat), Request',
             ignore_host' \in BOOLEAN, ignore_host => ignore_host'
      PROVE  PollInv'
  <2>1. attempt' \in Nat
    BY <1>2
  <2>2. /\ PollTypes' /\ Places' /\ Contents' /\ Sessions' /\ ResultsAreOwn' /\ Stored' = Stored
    BY <1>2, <1>3, <1>6, <2>1, RequestKeeps, Zenon
  <2>3. Served'
    BY <1>2, <1>3, <1>4, <1>6, <2>2, ServedKeeps, Zenon
  <2> QED
    BY <1>6, <2>2, <2>3, Zenon DEF PollInv
<1>7. CASE session = NoSession /\ ignore_host' = TRUE /\ oids' = AllUndefined
           /\ pc' = "store" /\ UNCHANGED request
  <2>1. Rewritten
    BY <1>1, <1>7, AllUndefinedRewrites, Zenon
  <2>2. pc' \in Requesting /\ Request'
    BY <1>7 DEF Requesting, Request
  <2>3. request' \in Seq(Nat) /\ ignore_host' \in BOOLEAN /\ (ignore_host => ignore_host')
    BY <1>1, <1>7, Zenon DEF PollTypes
  <2> QED
    BY <1>6, <2>1, <2>2, <2>3, Zenon
<1>8. ASSUME session # NoSession, ignore_host' = ignore_host, NEW lost \in SUBSET Batch,
             IF Live(Parsed(lost)) = {}
             THEN oids' = AllUndefined /\ pc' = "store" /\ UNCHANGED request
             ELSE /\ oids' = Parsed(lost)
                  /\ request' = [k \in 1..Cardinality(Live(Parsed(lost))) |-> Slot(Parsed(lost), k)]
                  /\ pc' = "send"
      PROVE  PollInv'
  <2>1. ignore_host' \in BOOLEAN /\ (ignore_host => ignore_host')
    BY <1>1, <1>8, Zenon DEF PollTypes
  <2>2. CASE oids' = AllUndefined /\ pc' = "store" /\ UNCHANGED request
    <3>1. Rewritten
      BY <1>1, <2>2, AllUndefinedRewrites, Zenon
    <3>2. pc' \in Requesting /\ Request'
      BY <2>2 DEF Requesting, Request
    <3>3. request' \in Seq(Nat)
      BY <1>1, <2>2, Zenon DEF PollTypes
    <3> QED
      BY <1>6, <2>1, <3>1, <3>2, <3>3, Zenon
  <2>3. CASE /\ oids' = Parsed(lost) /\ pc' = "send"
             /\ request' = [k \in 1..Cardinality(Live(Parsed(lost))) |-> Slot(Parsed(lost), k)]
    <3> DEFINE n == Cardinality(Live(oids'))
    <3>1. Rewritten
      <4>1. DOMAIN oids' = Slots /\ oids' = [s \in Slots |-> oids'[s]]
        BY <2>3, Zenon DEF Parsed
      <4>2. \A s \in Slots : oids'[s] = oids[s] \/ oids'[s] = [oids[s] EXCEPT !.result = U]
        BY <2>3, Zenon DEF Parsed
      <4> QED
        BY <1>1, <4>1, <4>2, RewrittenBy, Zenon
    <3>2. n \in Nat /\ n <= count /\ Live(oids') \in SUBSET Nat
      BY <1>1, LiveFinite, Zenon
    <3>3. request' = [k \in 1..n |-> Slot(oids', k)]
      BY <2>3, Zenon
    <3>4. \A k \in 1..n : Slot(oids', k) \in Live(oids') /\ Place(oids', Slot(oids', k)) = k
      BY <1>1, SlotPlace, Zenon
    <3> HIDE DEF n
    <3>5. request' \in Seq(Nat) /\ Len(request') = n
      <4>1. \A k \in 1..n : Slot(oids', k) \in Nat
        BY <3>2, <3>4, Zenon
      <4> QED
        BY <3>2, <3>3, <4>1
    <3>6. ASSUME NEW k \in 1..n
          PROVE  request'[k] \in Live(oids)' /\ Place(oids, request[k])' = k
      <4>1. request'[k] = Slot(oids', k)
        BY <3>3, Zenon
      <4>2. Cardinality(UpTo(Live(oids'), request'[k])) = k
        BY <3>4, <4>1, PlaceUpTo, Zenon
      <4> QED
        BY <1>5, <3>4, <4>1, <4>2, NextPlace, Zenon
    <3>7. Request'
      <4>1. session' # NoSession /\ count' = count
        BY <1>2, <1>8, Zenon DEF requesting
      <4>2. Len(request') = Cardinality(Live(oids))'
        BY <1>5, <3>5, NextPlace, Zenon DEF n
      <4>3. Len(request') + attempt' <= count'
        BY <1>2, <3>2, <3>5, <4>1
      <4>4. \A k \in 1..Len(request') : request'[k] \in Live(oids)' /\ Place(oids, request[k])' = k
        BY <3>5, <3>6, Zenon
      <4> QED
        BY <2>3, <4>1, <4>2, <4>3, <4>4, Zenon DEF Request
    <3>8. pc' \in Requesting
      BY <2>3 DEF Requesting
    <3> QED
      BY <1>6, <2>1, <3>1, <3>5, <3>7, <3>8, Zenon
  <2> QED
    BY <1>8, <2>2, <2>3, Zenon
<1> QED
  BY <1>7, <1>8, Zenon DEF BuildRequest

\* An error PDU takes the offending OID out of the request, and out of what is
\* still asked for.
LEMMA AgentErrorKeeps ==
    ASSUME PollInv, AgentError, UNCHANGED hostVars
    PROVE  PollInv'
<1>1. PollTypes /\ Served /\ Request
  BY Zenon DEF PollInv
<1>2. /\ pc = "send" /\ attempt' = attempt + 1
      /\ UNCHANGED requesting /\ UNCHANGED <<asked, answered, ignore_host>>
  BY DEF AgentError, requesting, walk, link, history, hostVars
<1>3. pc \in Flushing /\ pc # "store" /\ pc \in Requesting
  BY <1>2 DEF Flushing, Requesting
<1>4. asked \subseteq asked' /\ Stored \subseteq asked'
  BY <1>1, <1>2, <1>3, Zenon DEF Served
<1>5. Batch' = Batch /\ count' = count /\ session' = session
  BY <1>2, RequestingSame, Zenon DEF requesting
<1>6. ignore_host' \in BOOLEAN /\ (ignore_host => ignore_host')
  BY <1>1, <1>2, Zenon DEF PollTypes
<1>7. attempt \in Nat /\ attempt' \in Nat /\ count \in Nat /\ request \in Seq(Nat)
  BY <1>1, <1>2, MaxOidsPositive DEF PollTypes
<1>8. /\ session # NoSession /\ Len(request) = Cardinality(Live(oids))
      /\ Len(request) + attempt <= count
      /\ \A k \in 1..Len(request) : request[k] \in Live(oids) /\ Place(oids, request[k]) = k
  BY <1>1, <1>2, Zenon DEF Request
<1>9. pc' = IF request' # <<>> /\ attempt' < count THEN "send" ELSE "spent"
  BY Zenon DEF AgentError, MaxRequests
<1>10. pc' \in Requesting
  BY <1>9 DEF Requesting
<1>11. ASSUME Rewritten, request' \in Seq(Nat), Request'
       PROVE  PollInv'
  <2>1. /\ PollTypes' /\ Places' /\ Contents' /\ Sessions' /\ ResultsAreOwn' /\ Stored' = Stored
    BY <1>2, <1>3, <1>6, <1>7, <1>10, <1>11, RequestKeeps, Zenon
  <2>2. Served'
    BY <1>2, <1>3, <1>4, <1>6, <1>10, <2>1, ServedKeeps, Zenon
  <2> QED
    BY <1>11, <2>1, <2>2, Zenon DEF PollInv
<1>12. request' = <<>> => request' \in Seq(Nat) /\ Request'
  BY <1>9 DEF Request
<1>13. ASSUME NEW e \in 1..Cardinality(Live(oids)),
              oids' = [oids EXCEPT ![Slot(oids, e)].result = U],
              request' \in {Without(request, e), <<>>}
       PROVE  PollInv'
  <2> DEFINE d == Slot(oids, e)
             n == Len(request)
  <2>1. d \in Live(oids) /\ Place(oids, d) = e /\ d \in Batch /\ d \in Slots
    BY <1>1, <1>13, SlotPlace, LiveFinite, BatchInSlots, Zenon
  <2>2. n \in Nat /\ e \in 1..n
    BY <1>7, <1>8, <1>13
  <2>3. oids' = [oids EXCEPT ![d].result = U]
    BY <1>13, Zenon
  <2> HIDE DEF d, n
  <2>4. /\ DOMAIN oids' = Slots /\ oids' = [s \in Slots |-> oids'[s]]
        /\ oids'[d] = [oids[d] EXCEPT !.result = U]
        /\ \A s \in Slots : s # d => oids'[s] = oids[s]
    BY <1>1, <2>1, <2>3, Zenon DEF PollTypes
  <2>5. Rewritten
    BY <1>1, <2>4, RewrittenBy, Zenon
  <2>6. Live(oids') = Live(oids) \ {d}
    <3>1. oids'[d].result = U
      BY <1>1, <2>1, <2>4, SlotsTyped, SlotSet, Zenon
    <3>2. Batch \in SUBSET Slots
      BY <1>1, BatchInSlots, Zenon
    <3> QED
      BY <2>1, <2>4, <3>1, <3>2, ZenonT(60) DEF Live
  <2>7. CASE request' = <<>>
    BY <1>11, <1>12, <2>5, <2>7, Zenon
  <2>8. CASE request' = Without(request, e)
    <3>1. request' = [k \in 1..(n - 1) |-> request[IF k < e THEN k ELSE k + 1]]
      BY <2>8, Zenon DEF Without, n
    <3>2. \A k \in 1..(n - 1) : (IF k < e THEN k ELSE k + 1) \in 1..n
      BY <2>2
    <3>3. request' \in Seq(Nat) /\ Len(request') = n - 1
      <4>1. \A k \in 1..n : request[k] \in Nat
        BY <1>7 DEF n
      <4> QED
        BY <2>2, <3>1, <3>2, <4>1
    <3>4. Cardinality(Live(oids')) = n - 1
      <4>1. Cardinality(Live(oids) \ {d}) = Cardinality(Live(oids)) - 1
        BY <1>1, <2>1, LiveFinite, FS_RemoveElement, Zenon
      <4> QED
        BY <1>8, <2>6, <4>1, Zenon DEF n
    <3>5. ASSUME NEW k \in 1..(n - 1)
          PROVE  request'[k] \in Live(oids') /\ Cardinality(UpTo(Live(oids'), request'[k])) = k
      <4> DEFINE j == IF k < e THEN k ELSE k + 1
                 s == request[j]
      <4>1. request'[k] = s
        BY <3>1, Zenon
      <4>2. j \in 1..n /\ j # e /\ j \in Nat /\ e \in Nat /\ k \in Nat
        BY <2>2
      <4> HIDE DEF j
      <4>3. s \in Live(oids) /\ Place(oids, s) = j
        BY <1>8, <4>2, Zenon DEF n
      <4> HIDE DEF s
      <4>4. s # d
        BY <2>1, <4>2, <4>3, Zenon
      <4>5. Cardinality(UpTo(Live(oids), s)) = j /\ Cardinality(UpTo(Live(oids), d)) = e
        BY <2>1, <4>3, PlaceUpTo, Zenon
      <4>6. /\ j < e => Cardinality(UpTo(Live(oids) \ {d}, s)) = j
            /\ j > e => Cardinality(UpTo(Live(oids) \ {d}, s)) = j - 1
        <5>1. Live(oids) \in SUBSET Nat /\ IsFiniteSet(Live(oids))
          BY <1>1, LiveFinite, Zenon
        <5> QED
          BY <2>1, <4>3, <4>4, <4>5, <5>1, UpToDrop
      <4>7. Cardinality(UpTo(Live(oids'), s)) = k
        <5>1. Cardinality(UpTo(Live(oids) \ {d}, s)) = k
          BY <4>2, <4>6 DEF j
        <5> QED
          BY <2>6, <5>1, Zenon
      <4>8. s \in Live(oids')
        BY <2>6, <4>3, <4>4, Zenon
      <4> QED
        BY <4>1, <4>7, <4>8, Zenon
    <3>6. Len(request') + attempt' <= count'
      BY <1>2, <1>5, <1>7, <1>8, <2>2, <3>3 DEF n
    <3>7. pc' = "spent" => request' = <<>>
      <4>1. request' # <<>> => Len(request') # 0
        BY <3>3
      <4>2. request' # <<>> => attempt' < count
        <5>1. request' # <<>> => n - 1 # 0
          BY <3>3, <4>1, Zenon
        <5>2. (n - 1) + attempt' <= count
          BY <1>5, <3>3, <3>6, Zenon
        <5>3. n - 1 \in Nat /\ attempt' \in Nat /\ count \in Nat
          BY <1>7, <2>2
        <5>4. ASSUME NEW m \in Nat, NEW a \in Nat, NEW c \in Nat, m # 0, m + a <= c PROVE a < c
          BY <5>4
        <5>5. n - 1 # 0 => attempt' < count
          BY <5>2, <5>3, <5>4, Zenon
        <5> QED
          BY <5>1, <5>5, Zenon
      <4> QED
        BY <1>9, <4>2
    <3>8. Request'
      <4>1. Len(request') = Cardinality(Live(oids))'
        BY <1>5, <3>3, <3>4, NextPlace, Zenon
      <4>2. \A k \in 1..Len(request') : request'[k] \in Live(oids)' /\ Place(oids, request[k])' = k
        BY <1>5, <3>3, <3>5, NextPlace, Zenon
      <4> QED
        BY <1>5, <1>8, <3>6, <3>7, <4>1, <4>2, Zenon DEF Request
    <3> QED
      BY <1>11, <2>5, <3>3, <3>8, Zenon
  <2> QED
    BY <1>13, <2>7, <2>8, Zenon
<1>14. CASE oids' = AllUndefined /\ request' = <<>>
  BY <1>1, <1>11, <1>12, <1>14, AllUndefinedRewrites, Zenon
<1> QED
  BY <1>13, <1>14, Zenon DEF AgentError

\* The values of an answer go to the slots they were asked for.
LEMMA AnswerKeeps ==
    ASSUME PollInv, Answer, UNCHANGED hostVars
    PROVE  PollInv'
<1>1. PollTypes /\ Places /\ Contents /\ Sessions /\ Request /\ Served
  BY Zenon DEF PollInv
<1>2. /\ pc = "send" /\ pc' = "store" /\ attempt' = attempt + 1 /\ request' = <<>>
      /\ UNCHANGED requesting /\ UNCHANGED <<asked, ignore_host>>
  BY DEF Answer, requesting, walk, link, hostVars
<1>3. pc \in Flushing /\ pc # "store" /\ pc \in Requesting /\ pc' \in Requesting
  BY <1>2 DEF Flushing, Requesting
<1>4. PICK n \in 0..Len(request) : \E exceptions \in SUBSET (1..n) :
        /\ oids' = Values(n, exceptions)
        /\ answered' = answered \cup {oids[request[k]].pos : k \in (1..n) \ exceptions}
  BY Zenon DEF Answer
<1>5. PICK exceptions \in SUBSET (1..n) :
        /\ oids' = Values(n, exceptions)
        /\ answered' = answered \cup {oids[request[k]].pos : k \in (1..n) \ exceptions}
  BY <1>4, Zenon
<1>6. /\ Len(request) \in Nat /\ attempt' \in Nat /\ request' \in Seq(Nat)
      /\ ignore_host' \in BOOLEAN /\ (ignore_host => ignore_host')
  BY <1>1, <1>2 DEF PollTypes
<1>7. 1..n \in SUBSET (1..Len(request))
  BY <1>4, <1>6
<1>8. \A k \in 1..Len(request) : request[k] \in Live(oids) /\ Place(oids, request[k]) = k
  BY <1>1, <1>2, Zenon DEF Request
<1>9. Live(oids) \in SUBSET Batch /\ Batch \in SUBSET Slots
  BY <1>1, LiveFinite, BatchInSlots, Zenon
<1>10. session = key
  <2>1. count > 0 /\ session # NoSession
    BY <1>1, <1>2, <1>3, Zenon DEF Places, Request
  <2> QED
    BY <1>1, <2>1, Zenon DEF Contents, Sessions
<1>11. \A s \in Batch : <<oids[s].pos, session>> = Right(oids[s].pos)
  BY <1>1, <1>10, Zenon DEF Contents, Right
<1> DEFINE value(k) == IF k > n \/ k \in exceptions THEN U ELSE <<oids[request[k]].pos, session>>
<1>12. /\ DOMAIN oids' = Slots /\ oids' = [s \in Slots |-> oids'[s]]
       /\ \A s \in Slots : s \notin Live(oids) => oids'[s] = oids[s]
       /\ \A s \in Live(oids) : oids'[s] = [oids[s] EXCEPT !.result = value(Place(oids, s))]
  BY <1>5, <1>9, Zenon DEF Values
<1>13. ASSUME NEW s \in Live(oids)
       PROVE  \/ value(Place(oids, s)) = U
              \/ value(Place(oids, s)) = Right(oids[s].pos)
  <2> DEFINE k == Place(oids, s)
  <2>1. CASE k > n \/ k \in exceptions
    BY <2>1, Zenon
  <2>2. CASE ~(k > n \/ k \in exceptions)
    <3>1. k \in 1..Len(request)
      <4>1. k \in 1..Cardinality(Live(oids)) /\ Len(request) = Cardinality(Live(oids))
        BY <1>1, <1>2, PlaceRange, Zenon DEF Request
      <4> QED
        BY <4>1, Zenon
    <3>2. request[k] = s
      BY <1>1, <1>8, <3>1, PlaceInjective, Zenon
    <3>3. value(k) = <<oids[s].pos, session>>
      BY <2>2, <3>2, Zenon
    <3> QED
      BY <1>9, <1>11, <3>3, Zenon
  <2> QED
    BY <2>1, <2>2, Zenon
<1>14. Rewritten
  <2>1. ASSUME NEW s \in Slots
        PROVE  \/ oids'[s] = oids[s]
               \/ oids'[s] = [oids[s] EXCEPT !.result = U]
               \/ s \in Batch /\ oids'[s] = [oids[s] EXCEPT !.result = Right(oids[s].pos)]
    BY <1>9, <1>12, <1>13, Zenon
  <2> QED
    BY <1>1, <1>12, <2>1, RewrittenBy, Zenon
<1>15. /\ PollTypes' /\ Places' /\ Contents' /\ Sessions' /\ ResultsAreOwn' /\ Stored' = Stored
       /\ \A s \in Batch : oids'[s].pos = oids[s].pos
  BY <1>2, <1>3, <1>6, <1>14, RequestKeeps, Zenon
<1>16. ASSUME NEW k \in (1..n) \ exceptions
       PROVE  /\ request[k] \in Batch /\ oids[request[k]].pos \in 1..(i - 1)
              /\ oids'[request[k]].result = Right(oids[request[k]].pos)
  <2> DEFINE s == request[k]
  <2>1. k \in 1..Len(request) /\ ~(k > n)
    BY <1>4, <1>6, <1>7
  <2>2. s \in Live(oids) /\ Place(oids, s) = k /\ s \in Batch /\ s \in Slots
    BY <1>8, <1>9, <2>1, Zenon
  <2>3. value(k) = Right(oids[s].pos)
    BY <1>11, <2>1, <2>2, Zenon
  <2>4. oids'[s] = [oids[s] EXCEPT !.result = value(k)]
    BY <1>12, <2>2, ZenonT(60)
  <2> HIDE DEF value, s
  <2>5. oids'[s].result = value(k)
    BY <1>1, <2>2, <2>4, SlotsTyped, SlotSet, Zenon
  <2>6. oids[s].pos \in 1..(i - 1)
    BY <1>1, <2>2, Zenon DEF Contents
  <2> QED
    BY <2>2, <2>3, <2>5, <2>6, Zenon DEF s
<1>17. Request'
  BY <1>2 DEF Request
<1>18. Served'
  <2>1. UNCHANGED <<i, results>> /\ Batch' = Batch /\ \A p : Kept(p, Right(p))' = Kept(p, Right(p))
    BY <1>2, RequestingSame, Zenon DEF requesting
  <2>2. \A p \in 1..(i' - 1) :
          Items[p].action = "snmp" => p \in asked' \/ p \in Stored' \/ ignore_host'
    <3>1. asked' = asked
      BY <1>2, Zenon
    <3> QED
      BY <1>1, <1>6, <1>15, <2>1, <3>1, Zenon DEF Served
  <2>3. Stored' \subseteq asked'
    BY <1>1, <1>2, <1>3, <1>15, Zenon DEF Served
  <2>4. answered' \subseteq 1..(i' - 1)
    BY <1>1, <1>5, <1>16, <2>1, Zenon DEF Served
  <2>5. ASSUME NEW p \in answered
        PROVE  ignore_host' \/ (p \notin Stored' /\ results'[p] = Kept(p, Right(p))')
    <3>1. ignore_host \/ (p \notin Stored /\ results[p] = Kept(p, Right(p)))
      BY <1>1, <1>3, <2>5, Zenon DEF Served
    <3> QED
      BY <1>6, <1>15, <2>1, <3>1, Zenon
  <2>6. ASSUME NEW k \in (1..n) \ exceptions
        PROVE  \E s \in Batch' : /\ oids'[s].pos = oids[request[k]].pos
                                 /\ oids'[s].result = Right(oids[request[k]].pos)
    BY <1>15, <1>16, <2>1, <2>6, Zenon
  <2>7. ASSUME NEW p \in answered', p \notin answered
        PROVE  \E s \in Batch' : oids'[s].pos = p /\ oids'[s].result = Right(p)
    BY <1>5, <2>6, <2>7, Zenon
  <2>8. \A p \in answered' :
          \/ ignore_host'
          \/ p \notin Stored' /\ results'[p] = Kept(p, Right(p))'
          \/ pc' = "store" /\ \E s \in Batch' : oids'[s].pos = p /\ oids'[s].result = Right(p)
    BY <1>2, <2>5, <2>7, Zenon
  <2> QED
    BY <1>2, <2>2, <2>3, <2>4, <2>8, Zenon DEF Served
<1> QED
  BY <1>15, <1>17, <1>18, Zenon DEF PollInv

\* What was answered is stored, each value with the item of its slot.
LEMMA StoreKeeps ==
    ASSUME PollInv, Store, UNCHANGED hostVars
    PROVE  PollInv'
<1> USE DEF Early, Requesting, Flushing
<1>1. PollTypes /\ Places /\ Contents /\ Sessions /\ Served /\ ResultsAreOwn
  BY Zenon DEF PollInv
<1>2. /\ pc = "store" /\ pc' = ret /\ count' = 0 /\ oids' = Cleared
      /\ UNCHANGED <<i, ret, key, spike_kill, session, handles, ignore_host, request, attempt,
                     asked, answered, device_zero, rows>>
  BY DEF Store, Clear, walk, link, wire, history, hostVars
<1>3. Slots' = Slots /\ max_oids' = max_oids /\ AtSnmp' = AtSnmp
  BY <1>2, MaxOidsSame, Zenon DEF AtSnmp
<1>4. Batch' = {} /\ Stored' = {}
  <2>1. Batch' = {}
    BY <1>2 DEF Batch
  <2> QED
    BY <2>1, Zenon DEF Stored
<1>5. \A p : Kept(p, Right(p))' = Kept(p, Right(p))
  BY <1>2, Zenon DEF Kept, Right
<1> DEFINE of(p) == oids[CHOOSE s \in Batch : oids[s].pos = p].result
<1>6. \A p \in Positions :
        results'[p] = IF \E s \in Batch : oids[s].pos = p
                      THEN IF ignore_host \/ of(p) = Empty THEN U ELSE Kept(p, of(p))
                      ELSE results[p]
  BY Zenon DEF Store
<1>7. DOMAIN results' = Positions /\ results' = [p \in Positions |-> results'[p]]
  BY Zenon DEF Store
<1>8. ASSUME NEW p, NEW s \in Batch, oids[s].pos = p PROVE of(p) = oids[s].result
  <2> DEFINE t == CHOOSE x \in Batch : oids[x].pos = p
  <2>1. t \in Batch /\ oids[t].pos = p
    BY <1>8, Zenon
  <2>2. t = s
    BY <1>1, <1>8, <2>1, Zenon DEF Contents
  <2> QED
    BY <2>2, Zenon
<1> HIDE DEF of
<1>9. ResultsAreOwn'
  <2>1. ASSUME NEW p \in Positions PROVE results'[p] \in {U, Right(p)}
    <3>1. CASE \E s \in Batch : oids[s].pos = p
      <4>1. PICK s \in Batch : oids[s].pos = p
        BY <3>1, Zenon
      <4>2. of(p) \in {Empty, U, Right(p)}
        BY <1>1, <1>8, <4>1, Zenon DEF Contents
      <4>3. results'[p] = IF ignore_host \/ of(p) = Empty THEN U ELSE Kept(p, of(p))
        BY <1>6, <3>1, Zenon
      <4> QED
        BY <4>2, <4>3, Zenon DEF Kept
    <3>2. CASE ~\E s \in Batch : oids[s].pos = p
      BY <1>1, <1>6, <3>2, Zenon DEF ResultsAreOwn
    <3> QED
      BY <3>1, <3>2, Zenon
  <2> QED
    BY <2>1, Zenon DEF ResultsAreOwn
<1>10. PollTypes'
  <2>1. oids' \in [Slots' -> [pos : Nat, result : SlotValues]]
    <3>1. Empty \in SlotValues
      BY Zenon DEF SlotValues
    <3> QED
      BY <1>2, <1>3, <3>1 DEF Cleared
  <2>2. results' \in [Positions -> {U} \cup {Right(p) : p \in Positions}]
    BY <1>7, <1>9, Zenon DEF ResultsAreOwn
  <2>3. pc' \in PollStates /\ count' \in 0..max_oids'
    BY <1>1, <1>2, <1>3, MaxOidsPositive DEF Places, PollStates, PollTypes
  <2> QED
    BY <1>1, <1>2, <2>1, <2>2, <2>3, Zenon DEF PollTypes
<1>11. Places'
  <2>1. /\ ret \in {"reopen", "append", "done"} /\ (ret = "done" => Finished)
        /\ (ret \in {"reopen", "append"} => AtSnmp) /\ (ret = "append" => Items[i].profile = key)
    BY <1>1, <1>2, Zenon DEF Places
  <2>2. Finished' = Finished
    BY <1>2, Zenon DEF Finished
  <2>3. count' < max_oids'
    BY <1>1, <1>2, <1>3, MaxOidsPositive DEF PollTypes
  <2> QED
    BY <1>2, <1>3, <2>1, <2>2, <2>3 DEF Places
<1>12. pc' \in {"reopen", "append", "done"}
  BY <1>1, <1>2, Zenon DEF Places
<1>13. Contents'
  <2>1. \A s \in Slots' : oids'[s].result = Empty
    BY <1>2, <1>3 DEF Cleared
  <2>2. ~(count' > 0)
    BY <1>2
  <2> QED
    BY <1>4, <2>1, <2>2, Zenon DEF Contents
<1>14. Sessions' /\ Request'
  BY <1>1, <1>2, <1>12 DEF Sessions, Request
<1>15. Served'
  <2>1. \A p \in 1..(i' - 1) :
          Items[p].action = "snmp" => p \in asked' \/ p \in Stored' \/ ignore_host'
    <3>1. Stored \subseteq asked
      BY <1>1, <1>2, Zenon DEF Served
    <3>2. \A p \in 1..(i - 1) : Items[p].action = "snmp" => p \in asked \/ ignore_host
      BY <1>1, <3>1, Zenon DEF Served
    <3> QED
      BY <1>2, <3>2
  <2>2. answered' \subseteq 1..(i' - 1) /\ answered' \cap Stored' = {} /\ pc' \notin Requesting
    BY <1>1, <1>2, <1>4, <1>12, Zenon DEF Served
  <2>3. ASSUME NEW p \in answered, ~ignore_host
        PROVE  results'[p] = Kept(p, Right(p))
    <3>1. p \in Positions
      <4>1. 1..(i - 1) \in SUBSET Positions
        BY <1>1, ItemsAssumption DEF PollTypes, Positions
      <4> QED
        BY <1>1, <2>3, <4>1, Zenon DEF Served
    <3>2. CASE p \notin Stored /\ results[p] = Kept(p, Right(p))
      <4>1. ~\E s \in Batch : oids[s].pos = p
        BY <3>2, Zenon DEF Stored
      <4> QED
        BY <1>6, <3>1, <3>2, <4>1, Zenon
    <3>3. CASE \E s \in Batch : oids[s].pos = p /\ oids[s].result = Right(p)
      <4>1. of(p) = Right(p)
        BY <1>8, <3>3, Zenon
      <4>2. of(p) # Empty
        BY <3>1, <4>1, OwnValue, Zenon
      <4> QED
        BY <1>6, <2>3, <3>1, <3>3, <4>1, <4>2, Zenon
    <3> QED
      BY <1>1, <2>3, <3>2, <3>3, Zenon DEF Served
  <2>4. \A p \in answered' : ignore_host' \/ (p \notin Stored' /\ results'[p] = Kept(p, Right(p))')
    BY <1>2, <1>4, <1>5, <2>3, Zenon
  <2> QED
    BY <2>1, <2>2, <2>4, Zenon DEF Served
<1> QED
  BY <1>9, <1>10, <1>11, <1>13, <1>14, <1>15, Zenon DEF PollInv

-----------------------------------------------------------------------------
(* poll_host() as a whole *)

\* The invariant holds before the device is loaded.
LEMMA PollInitially ==
    ASSUME PollInit
    PROVE  PollInv
<1>1. max_oids \in Nat /\ max_oids >= 1
  BY MaxOidsPositive DEF PollInit
<1>2. /\ pc = "load" /\ i = 1 /\ key = 0 /\ session = NoSession /\ handles = 0 /\ count = 0
      /\ oids = Cleared /\ request = <<>> /\ attempt = 0 /\ asked = {} /\ answered = {}
      /\ results = [p \in Positions |-> U]
      /\ device_zero \in BOOLEAN /\ ignore_host = FALSE /\ spike_kill = FALSE
  BY Zenon DEF PollInit, BatchInit
<1>3. Batch = {} /\ Stored = {} /\ 1..(i - 1) = {}
  <2>1. Batch = {} /\ 1..(i - 1) = {}
    BY <1>2 DEF Batch
  <2> QED
    BY <2>1, Zenon DEF Stored
<1>4. PollTypes
  <2>1. oids \in [Slots -> [pos : Nat, result : SlotValues]]
    <3>1. Empty \in SlotValues
      BY Zenon DEF SlotValues
    <3> QED
      BY <1>2, <3>1 DEF Cleared
  <2>2. results \in [Positions -> {U} \cup {Right(p) : p \in Positions}]
    BY <1>2, Zenon
  <2>3. ignore_host \in BOOLEAN /\ spike_kill \in BOOLEAN
    BY <1>2, Zenon
  <2>4. i \in 1..(Len(Items) + 1) /\ count \in 0..max_oids /\ key \in Nat /\ session \in Nat
    BY <1>1, <1>2, ItemsAssumption DEF NoSession
  <2>5. request \in Seq(Nat) /\ attempt \in Nat
    BY <1>2
  <2>6. pc \in PollStates
    BY <1>2 DEF PollStates, Early
  <2> QED
    BY <1>2, <2>1, <2>2, <2>3, <2>4, <2>5, <2>6, Zenon DEF PollTypes
<1>5. Places
  BY <1>2 DEF Places, Early, Requesting, Flushing
<1>6. Contents
  <2>1. \A s \in Slots : oids[s].result = Empty
    BY <1>2 DEF Cleared
  <2>2. ~(count > 0)
    BY <1>2
  <2> QED
    BY <1>3, <2>1, <2>2, Zenon DEF Contents
<1>7. Sessions /\ Request
  BY <1>2 DEF Sessions, Request
<1>8. Served
  BY <1>2, <1>3 DEF Served
<1>9. ResultsAreOwn
  BY <1>2, Zenon DEF ResultsAreOwn
<1> QED
  BY <1>4, <1>5, <1>6, <1>7, <1>8, <1>9, Zenon DEF PollInv

\* Every step of poll_host() keeps the invariant,
LEMMA PollStepKeeps ==
    ASSUME PollInv, PollNext
    PROVE  PollInv'
BY LoadPollHostKeeps, RefreshKeeps, PingOnlyKeeps, PollHostReindexKeeps, SelectPollItemsKeeps,
   CleanupKeeps, PollOtherKeeps, PollSnmpItemKeeps, ChangedKeeps, ReopenKeeps, FullKeeps,
   Append_Keeps, FinalKeeps, BuildRequestKeeps, NoAnswerKeeps, AnswerKeeps, AgentErrorKeeps,
   SpentKeeps, StoreKeeps, Zenon DEF PollNext, BatchNext

\* and so do the steps of the others.
LEMMA PollStutters ==
    ASSUME PollInv, UNCHANGED pollVars
    PROVE  PollInv'
<1>1. /\ UNCHANGED <<device_zero, rows, pc, i, ret, key, spike_kill, session, handles, ignore_host,
                     count, oids, request, attempt, results, asked, answered>>
  BY DEF pollVars, hostVars, batchVars, walk, link, wire, history
<1>2. /\ Batch' = Batch /\ Stored' = Stored /\ Slots' = Slots /\ max_oids' = max_oids
      /\ AtSnmp' = AtSnmp
  BY <1>1, BatchingSame, Zenon DEF batching
<1>3. PollTypes' /\ Places' /\ Sessions' /\ Contents' /\ ResultsAreOwn'
  <2>1. PollTypes'
    BY <1>1, <1>2, Zenon DEF PollInv, PollTypes
  <2>2. Finished' = Finished
    BY <1>1, Zenon DEF Finished
  <2>3. Places'
    BY <1>1, <1>2, <2>2, Zenon DEF PollInv, Places
  <2>4. Sessions'
    BY <1>1, <1>2, Zenon DEF PollInv, Sessions
  <2>5. Contents'
    BY <1>1, <1>2, Zenon DEF PollInv, Contents
  <2>6. ResultsAreOwn'
    BY <1>1, <1>2, Zenon DEF PollInv, ResultsAreOwn
  <2> QED
    BY <2>1, <2>3, <2>4, <2>5, <2>6, Zenon
<1>4. Request'
  <2>1. Live(oids)' = Live(oids) /\ \A k : Place(oids, request[k])' = Place(oids, request[k])
    BY <1>1, <1>2, Zenon DEF Live, Place
  <2> QED
    BY <1>1, <2>1, Zenon DEF PollInv, Request
<1>5. Served'
  <2>1. \A p : Kept(p, Right(p))' = Kept(p, Right(p))
    BY <1>1, Zenon DEF Kept, Right
  <2> QED
    BY <1>1, <1>2, <2>1, Zenon DEF PollInv, Served
<1> QED
  BY <1>3, <1>4, <1>5, Zenon DEF PollInv

\* Once poll_host() is over, every item was served and every session closed.
LEMMA PollInvServes ==
    ASSUME PollInv
    PROVE  EveryItemServed /\ NoSessionLost
<1>1. PollTypes /\ Places /\ Sessions /\ Request /\ Served
  BY Zenon DEF PollInv
<1>2. ASSUME pc = "done", ~ignore_host
      PROVE  /\ \A p \in Positions : Items[p].action = "snmp" => p \in asked
             /\ \A p \in answered : results[p] = Kept(p, Right(p))
  <2>1. count = 0 /\ i = Len(Items) + 1
    BY <1>1, <1>2, Zenon DEF Places, Finished
  <2>2. Batch = {} /\ 1..(i - 1) = Positions
    BY <2>1, ItemsAssumption DEF Batch, Positions
  <2>3. Stored = {}
    BY <2>2, Zenon DEF Stored
  <2> QED
    BY <1>1, <1>2, <2>2, <2>3, Zenon DEF Served
<1>3. EveryItemServed
  BY <1>1, <1>2, Zenon DEF EveryItemServed, Request
<1>4. NoSessionLost
  BY <1>1, Zenon DEF NoSessionLost, Sessions
<1> QED
  BY <1>3, <1>4, Zenon
=============================================================================
