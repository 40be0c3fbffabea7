------------------------- MODULE NotifyTableProofs -------------------------
(***************************************************************************)
(* Theorems about the table of pending notifications, for tables of any    *)
(* size and any number of objects.                                         *)
(***************************************************************************)
EXTENDS NotifyTable, FunctionTheorems, FiniteSetTheorems, WellFoundedInduction, TLAPS

------------------------------------------------------------------------------
(***************************************************************************)
(* Searching.                                                              *)
(***************************************************************************)

\* Every probe looks at an entry of the table.
LEMMA ProbeInTable ==
    ASSUME NEW o \in Objects, NEW k \in Nat
    PROVE  Probe(o, k) \in Slots
<1>1. \A x \in Int : x % BufferSize \in 0 .. BufferSize - 1
  BY HashAssumption
<1>2. (k * (k + 1)) \div 2 \in Int
  <2>1. k * (k + 1) \in Int
    OBVIOUS
  <2> QED BY <2>1
<1>3. Hash[o] \in Int
  BY HashAssumption DEF Slots
<1> QED BY <1>1, <1>2, <1>3 DEF Probe, Slots

\* A search that ends, ends at the object's own entry or at a free one, the first
\* of these its probe sequence meets.
LEMMA SearchStops ==
    ASSUME NEW o \in Objects, Ends(o)
    PROVE  /\ HASH_SEARCH(o) \in Slots
           /\ address[HASH_SEARCH(o)] \in {o, HASH_EMPTY}
           /\ \E k \in Slots : /\ HASH_SEARCH(o) = Probe(o, k)
                              /\ Stops(o, k) /\ \A j \in 0 .. k - 1 : ~Stops(o, j)
<1> DEFINE S == {k \in Slots : Stops(o, k)}
           First(k) == Stops(o, k) /\ \A j \in 0 .. k - 1 : ~Stops(o, j)
           Less == {ss \in Nat \X Nat : ss[1] < ss[2]}
<1>1. S \subseteq Nat /\ S # {}
  BY DEF Slots, Ends
<1>2. IsWellFoundedOn(Less, Nat)
  BY NatLessThanWellFounded, Zenon DEF OpToRel
<1> HIDE DEF Less
<1>3. PICK x \in S : \A y \in S : ~(<<y, x>> \in Less)
  BY <1>1, <1>2, WFMin, Zenon
<1>4. \A j \in 0 .. x - 1 : ~Stops(o, j)
  <2> SUFFICES ASSUME NEW j \in 0 .. x - 1, Stops(o, j) PROVE FALSE
    OBVIOUS
  <2>1. j \in S /\ j \in Nat /\ x \in Nat /\ j < x
    BY HashAssumption DEF Slots
  <2> QED BY <1>3, <2>1 DEF Less
<1>5. \E k \in Slots : First(k)
  BY <1>4
<1> DEFINE c == CHOOSE k \in Slots : First(k)
<1>6. c \in Slots /\ First(c)
  BY <1>5
<1>7. HASH_SEARCH(o) = Probe(o, c)
  BY DEF HASH_SEARCH
<1> HIDE DEF c
<1>8. HASH_SEARCH(o) \in Slots
  BY <1>6, <1>7, ProbeInTable DEF Slots
<1>9. address[HASH_SEARCH(o)] \in {o, HASH_EMPTY}
  BY <1>6, <1>7 DEF Stops
<1> QED BY <1>6, <1>7, <1>8, <1>9

------------------------------------------------------------------------------
(***************************************************************************)
(* The load.                                                               *)
(***************************************************************************)

\* The entries in use are finitely many; an entry taken or freed changes their
\* number by one.
LEMMA Load ==
    ASSUME address \in [Slots -> Objects \cup {HASH_EMPTY}]
    PROVE  /\ IsFiniteSet(Used) /\ Cardinality(Used) \in Nat
           /\ Cardinality(Slots) = BufferSize
           /\ \A s \in Slots \ Used : Cardinality(Used \cup {s}) = Cardinality(Used) + 1
           /\ \A s \in Used : Cardinality(Used \ {s}) = Cardinality(Used) - 1
<1>1. IsFiniteSet(Slots) /\ Cardinality(Slots) = BufferSize
  <2>1. 0 \in Int /\ BufferSize - 1 \in Int /\ ~(0 > BufferSize - 1)
    BY HashAssumption
  <2>2. IsFiniteSet(0 .. BufferSize - 1) /\ Cardinality(0 .. BufferSize - 1) = BufferSize - 1 - 0 + 1
    BY <2>1, FS_Interval
  <2> QED BY <2>2, HashAssumption DEF Slots
<1>2. IsFiniteSet(Used)
  BY <1>1, FS_Subset DEF Used
<1> QED BY <1>1, <1>2, FS_CardinalityType, FS_AddElement, FS_RemoveElement DEF Used

\* Taking entry s for o.
LEMMA TakeEntry ==
    ASSUME TypeOK, NEW s \in Slots, NEW o \in Objects, address' = [address EXCEPT ![s] = o]
    PROVE  Used' = Used \cup {s}
BY HashAssumption DEF TypeOK, Used

\* Freeing entry s.
LEMMA FreeEntry ==
    ASSUME TypeOK, NEW s \in Slots, address' = [address EXCEPT ![s] = HASH_EMPTY]
    PROVE  Used' = Used \ {s}
BY DEF TypeOK, Used

\* The load stays right, one case per operation.
LEMMA LoadStep ==
    ASSUME SizeIsLoad, [Next]_vars
    PROVE  SizeIsLoad'
<1>0. /\ TypeOK /\ size = Cardinality(Used)
      /\ \A s \in Slots : address[s] # HASH_EMPTY <=> pending_notifications[s] > 0
  BY DEF SizeIsLoad, Used
<1>00. BufferSize \in Nat \ {0} /\ HASH_EMPTY \notin Objects
  BY HashAssumption
<1> SUFFICES /\ TypeOK' /\ size' = Cardinality(Used')
             /\ \A s \in Slots : address'[s] # HASH_EMPTY <=> pending_notifications'[s] > 0
  BY DEF SizeIsLoad, Used
<1>1. CASE UNCHANGED <<address, pending_notifications, size>> /\ hung' \in BOOLEAN
  BY <1>0, <1>1 DEF TypeOK, Used
<1>2. ASSUME NEW o \in Objects, NEW s \in Used,
             address' = [address EXCEPT ![s] = HASH_EMPTY], size' = size - 1,
             pending_notifications' = [pending_notifications EXCEPT ![s] = 0], UNCHANGED hung
      PROVE  /\ TypeOK' /\ size' = Cardinality(Used')
             /\ \A r \in Slots : address'[r] # HASH_EMPTY <=> pending_notifications'[r] > 0
  <2>1. s \in Slots
    BY DEF Used
  <2>2. size' = Cardinality(Used') /\ Cardinality(Used') \in Nat
    <3>1. address' \in [Slots -> Objects \cup {HASH_EMPTY}]
      BY <1>0, <1>2 DEF TypeOK
    <3>2. Used' = Used \ {s}
      BY <1>0, <1>2, <2>1, FreeEntry
    <3>3. Cardinality(Used \ {s}) = Cardinality(Used) - 1
      BY <1>0, Load DEF TypeOK
    <3>4. IsFiniteSet(Used \ {s})
      BY <1>0, Load, FS_RemoveElement DEF TypeOK
    <3> QED BY <1>0, <1>2, <3>2, <3>3, <3>4, FS_CardinalityType
  <2>3. TypeOK'
    <3>1. size' \in 0 .. BufferSize
      <4>1. size \in 0 .. BufferSize /\ size' \in Nat /\ size' = size - 1
        BY <1>0, <1>2, <2>2 DEF TypeOK
      <4> QED BY <1>00, <4>1
    <3>2. address' \in [Slots -> Objects \cup {HASH_EMPTY}]
      BY <1>0, <1>2 DEF TypeOK
    <3>3. pending_notifications' \in [Slots -> Nat]
      BY <1>0, <1>2 DEF TypeOK
    <3> QED BY <1>0, <1>2, <3>1, <3>2, <3>3 DEF TypeOK
  <2>4. \A r \in Slots : address'[r] # HASH_EMPTY <=> pending_notifications'[r] > 0
    BY <1>0, <1>2 DEF TypeOK
  <2> QED BY <2>2, <2>3, <2>4
<1>3. ASSUME NEW o \in Objects, os_notify_queue_event(o)
      PROVE  /\ TypeOK' /\ size' = Cardinality(Used')
             /\ \A r \in Slots : address'[r] # HASH_EMPTY <=> pending_notifications'[r] > 0
  <2> DEFINE s == HASH_SEARCH(o)
  <2>1. s \in Slots /\ address[s] \in {o, HASH_EMPTY}
    BY <1>3, SearchStops DEF os_notify_queue_event
  <2>2. CASE Full
    BY <1>0, <1>1, <1>3, <2>2 DEF os_notify_queue_event, TypeOK
  <2>3. CASE ~Full
    <3>1. /\ address' = [address EXCEPT ![s] = o]
          /\ size' = IF address[s] = HASH_EMPTY THEN size + 1 ELSE size
          /\ pending_notifications' = [pending_notifications EXCEPT ![s] = @ + 1]
          /\ UNCHANGED hung
      BY <1>3, <2>3 DEF os_notify_queue_event
    <3> HIDE DEF s
    <3>2. Used' = Used \cup {s}
      BY <1>0, <2>1, <3>1, TakeEntry
    <3>3. size' = Cardinality(Used')
      <4>1. CASE address[s] = HASH_EMPTY
        BY <1>0, <2>1, <3>1, <3>2, <4>1, Load DEF TypeOK, Used
      <4>2. CASE address[s] # HASH_EMPTY
        <5>1. Used' = Used
          BY <2>1, <3>2, <4>2 DEF Used
        <5> QED BY <1>0, <3>1, <4>2, <5>1
      <4> QED BY <4>1, <4>2
    <3>4. TypeOK'
      <4>1. size' \in 0 .. BufferSize
        <5>1. size \in 0 .. BufferSize /\ size # BufferSize
          BY <1>0, <2>3 DEF Full, TypeOK
        <5>2. size' = size \/ size' = size + 1
          BY <3>1
        <5> QED BY <1>00, <5>1, <5>2
      <4>2. address' \in [Slots -> Objects \cup {HASH_EMPTY}]
        BY <1>0, <3>1 DEF TypeOK
      <4>3. pending_notifications' \in [Slots -> Nat]
        <5>1. pending_notifications[s] \in Nat /\ pending_notifications[s] + 1 \in Nat
          BY <1>0, <2>1 DEF TypeOK
        <5> QED BY <1>0, <3>1, <5>1 DEF TypeOK
      <4> QED BY <1>0, <3>1, <4>1, <4>2, <4>3 DEF TypeOK
    <3>5. \A r \in Slots : address'[r] # HASH_EMPTY <=> pending_notifications'[r] > 0
      BY <1>0, <1>00, <2>1, <3>1 DEF TypeOK
    <3> QED BY <3>3, <3>4, <3>5
  <2> QED BY <2>2, <2>3
<1>4. ASSUME NEW o \in Objects, os_notify_dequeue_event(o)
      PROVE  /\ TypeOK' /\ size' = Cardinality(Used')
             /\ \A r \in Slots : address'[r] # HASH_EMPTY <=> pending_notifications'[r] > 0
  <2> DEFINE s == HASH_SEARCH(o)
  <2>1. s \in Slots /\ UNCHANGED hung
    BY <1>4, SearchStops DEF os_notify_dequeue_event
  <2>2. CASE address[s] # o
    BY <1>0, <1>1, <1>4, <2>2 DEF os_notify_dequeue_event, TypeOK
  <2>3. CASE address[s] = o
    <3>1. TakeOne(s) /\ s \in Used
      BY <1>00, <1>4, <2>1, <2>3 DEF os_notify_dequeue_event, Used
    <3> HIDE DEF s
    <3>2. pending_notifications[s] \in Nat /\ pending_notifications[s] > 0
      BY <1>0, <2>1, <3>1 DEF TypeOK, Used
    <3>3. CASE pending_notifications[s] = 1
      <4>1. /\ pending_notifications' = [pending_notifications EXCEPT ![s] = 0]
            /\ address' = [address EXCEPT ![s] = HASH_EMPTY] /\ size' = size - 1
        BY <3>1, <3>3 DEF TakeOne
      <4> QED BY <1>2, <2>1, <3>1, <4>1
    <3>4. CASE pending_notifications[s] # 1
      <4>1. /\ pending_notifications' = [pending_notifications EXCEPT ![s] = @ - 1]
            /\ UNCHANGED <<address, size>>
        BY <3>1, <3>4 DEF TakeOne
      <4>2. TypeOK'
        BY <1>0, <2>1, <3>2, <4>1 DEF TypeOK
      <4>3. \A r \in Slots : address'[r] # HASH_EMPTY <=> pending_notifications'[r] > 0
        BY <1>0, <2>1, <3>2, <3>4, <4>1 DEF TypeOK
      <4> QED BY <1>0, <4>1, <4>2, <4>3 DEF Used
    <3> QED BY <3>3, <3>4
  <2> QED BY <2>2, <2>3
<1>5. ASSUME NEW o \in Objects, ClearEntry(o)
      PROVE  /\ TypeOK' /\ size' = Cardinality(Used')
             /\ \A r \in Slots : address'[r] # HASH_EMPTY <=> pending_notifications'[r] > 0
  <2> DEFINE s == HASH_SEARCH(o)
  <2>1. s \in Slots
    BY <1>5, SearchStops DEF ClearEntry
  <2>2. CASE address[s] # o
    BY <1>0, <1>1, <1>5, <2>2 DEF ClearEntry, TypeOK
  <2>3. CASE address[s] = o
    <3>1. /\ pending_notifications' = [pending_notifications EXCEPT ![s] = 0]
          /\ address' = [address EXCEPT ![s] = HASH_EMPTY] /\ size' = size - 1
          /\ UNCHANGED hung /\ s \in Used
      BY <1>00, <1>5, <2>1, <2>3 DEF ClearEntry, Used
    <3> HIDE DEF s
    <3> QED BY <1>2, <3>1
  <2> QED BY <2>2, <2>3
<1>6. CASE Dead \/ UNCHANGED vars \/ \E o \in Objects : ~hung /\ Hang(o)
  BY <1>0, <1>1, <1>6 DEF Dead, Hang, vars, TypeOK
<1> QED BY <1>3, <1>4, <1>5, <1>6 DEF Next

\* os_notification_buffer_size is the number of entries in use and an entry is in
\* use exactly while it has notifications, whatever collides in the table.
THEOREM LoadIsRight == Spec => []SizeIsLoad
<1>1. Init => SizeIsLoad
  <2> SUFFICES ASSUME Init PROVE SizeIsLoad
    OBVIOUS
  <2>1. {s \in Slots : address[s] # HASH_EMPTY} = {}
    BY DEF Init
  <2>2. TypeOK
    <3>1. 0 \in 0 .. BufferSize
      BY HashAssumption
    <3> QED BY <3>1 DEF Init, TypeOK
  <2>3. size = 0 /\ \A s \in Slots : address[s] = HASH_EMPTY /\ pending_notifications[s] = 0
    BY DEF Init
  <2> QED BY <2>1, <2>2, <2>3, FS_EmptySet DEF SizeIsLoad
<1> QED BY <1>1, LoadStep, PTL DEF Spec

------------------------------------------------------------------------------
(***************************************************************************)
(* The table as one counter per object.                                    *)
(***************************************************************************)

\* Two probes at which a search would stop first are the same probe.
LEMMA FirstIsUnique ==
    ASSUME NEW o \in Objects, NEW k \in Slots, NEW m \in Slots,
           Stops(o, k), \A j \in 0 .. k - 1 : ~Stops(o, j),
           Stops(o, m), \A j \in 0 .. m - 1 : ~Stops(o, j)
    PROVE  k = m
<1>1. k \in Nat /\ m \in Nat
  BY DEF Slots
<1>2. ~(k < m) /\ ~(m < k)
  <2>1. k < m => k \in 0 .. m - 1
    BY <1>1
  <2>2. m < k => m \in 0 .. k - 1
    BY <1>1
  <2> QED BY <2>1, <2>2
<1> QED BY <1>1, <1>2

\* A search that finds its object ends there.
LEMMA FindsIsSearch ==
    ASSUME NEW o \in Objects, NEW k \in Slots, Finds(o, k)
    PROVE  Ends(o) /\ HASH_SEARCH(o) = Probe(o, k)
<1>1. Stops(o, k) /\ \A j \in 0 .. k - 1 : ~Stops(o, j)
  BY DEF Finds, Stops
<1>2. Ends(o)
  BY <1>1 DEF Ends
<1>3. PICK m \in Slots : /\ HASH_SEARCH(o) = Probe(o, m)
                         /\ Stops(o, m) /\ \A j \in 0 .. m - 1 : ~Stops(o, j)
  BY <1>2, SearchStops
<1>4. k = m
  BY <1>1, <1>3, FirstIsUnique
<1> QED BY <1>2, <1>3, <1>4

\* While every entry can be found, the counter of the object of an entry is that
\* of the entry, and an object has one entry at most.
LEMMA LookupEntry ==
    ASSUME TypeOK, AllReachable
    PROVE  \A s \in Used : /\ address[s] \in Objects
                           /\ Ends(address[s]) /\ HASH_SEARCH(address[s]) = s
                           /\ Lookup(address[s]) = pending_notifications[s]
<1> SUFFICES ASSUME NEW s \in Used
             PROVE  /\ address[s] \in Objects
                    /\ Ends(address[s]) /\ HASH_SEARCH(address[s]) = s
                    /\ Lookup(address[s]) = pending_notifications[s]
  OBVIOUS
<1>1. address[s] \in Objects
  BY DEF TypeOK, Used
<1>2. PICK k \in Slots : Probe(address[s], k) = s /\ Finds(address[s], k)
  BY DEF AllReachable
<1>3. Ends(address[s]) /\ HASH_SEARCH(address[s]) = s
  BY <1>1, <1>2, FindsIsSearch
<1> QED BY <1>1, <1>3 DEF Lookup

\* The counter of an object that has no entry is zero.
LEMMA LookupNone ==
    ASSUME NEW o \in Objects, \A s \in Slots : address[s] # o
    PROVE  Lookup(o) = 0
BY SearchStops DEF Lookup

\* As many entries are in use as objects have notifications pending.
LEMMA RecordedIsUsed ==
    ASSUME SizeIsLoad, AllReachable
    PROVE  Cardinality({o \in Objects : Lookup(o) > 0}) = size
<1> DEFINE R == {o \in Objects : Lookup(o) > 0}
           f == [s \in Used |-> address[s]]
<1>0. /\ TypeOK /\ size = Cardinality(Used)
      /\ \A s \in Slots : address[s] # HASH_EMPTY <=> pending_notifications[s] > 0
  BY DEF SizeIsLoad, Used
<1>1. \A s \in Used : address[s] \in R
  BY <1>0, LookupEntry DEF Used
<1>2. \A o \in R : \E s \in Used : address[s] = o
  <2> SUFFICES ASSUME NEW o \in R, \A s \in Used : address[s] # o PROVE FALSE
    OBVIOUS
  <2>1. o \in Objects /\ Lookup(o) > 0 /\ o # HASH_EMPTY
    BY HashAssumption
  <2>2. \A s \in Slots : address[s] # o
    BY <2>1 DEF Used
  <2>3. Lookup(o) = 0
    BY <2>1, <2>2, LookupNone
  <2> QED BY <2>1, <2>3
<1>3. \A s, r \in Used : address[s] = address[r] => s = r
  BY <1>0, LookupEntry
<1> HIDE DEF R
<1>4. f \in [Used -> R]
  BY <1>1
<1>5. \A s, r \in Used : f[s] = f[r] => s = r
  BY <1>3
<1>6. \A o \in R : \E s \in Used : f[s] = o
  BY <1>2
<1> HIDE DEF f
<1>7. f \in Bijection(Used, R)
  BY <1>4, <1>5, <1>6, Fun_IsBij
<1>8. IsFiniteSet(Used) /\ ExistsBijection(Used, R)
  BY <1>0, <1>7, Load DEF TypeOK, ExistsBijection
<1>9. Cardinality(R) = Cardinality(Used)
  BY <1>8, FS_Bijection
<1> QED BY <1>0, <1>9 DEF R

\* What it takes for the changed table to have no hidden entry.
LEMMA ReachableNext ==
    ASSUME \A r \in Used' : \E k \in Slots :
              /\ Probe(address'[r], k) = r
              /\ \A j \in 0 .. k - 1 : address'[Probe(address'[r], j)] \notin {address'[r], HASH_EMPTY}
    PROVE  AllReachable'
BY DEF AllReachable, Finds, Stops

\* Taking a free entry, the first one its probe sequence meets, for o, hides no
\* entry.
LEMMA TakingHidesNothing ==
    ASSUME TypeOK, AllReachable, NEW o \in Objects, NEW m \in Slots,
           Stops(o, m), \A j \in 0 .. m - 1 : ~Stops(o, j),
           address' = [address EXCEPT ![Probe(o, m)] = o]
    PROVE  AllReachable'
<1> DEFINE s == Probe(o, m)
           Clear(p, k) == \A j \in 0 .. k - 1 : address'[Probe(p, j)] \notin {p, HASH_EMPTY}
<1>0. s \in Slots /\ address[s] \in {o, HASH_EMPTY} /\ o # HASH_EMPTY
  BY ProbeInTable, HashAssumption DEF Slots, Stops
<1>1. Used' = Used \cup {s}
  BY <1>0, TakeEntry
<1>2. \A r \in Slots : address'[r] = IF r = s THEN o ELSE address[r]
  BY <1>0 DEF TypeOK
<1>3. ASSUME NEW r \in Used'
      PROVE  \E k \in Slots : Probe(address'[r], k) = r /\ Clear(address'[r], k)
  <2>1. CASE address[r] # HASH_EMPTY
    <3>1. r \in Used /\ r \in Slots /\ address[r] \in Objects
      BY <1>0, <1>1, <1>3, <2>1 DEF Used, TypeOK
    <3>2. PICK p \in Objects : p = address[r]
      BY <3>1
    <3>3. PICK k \in Slots : Probe(p, k) = r /\ Finds(p, k)
      BY <3>1, <3>2 DEF AllReachable
    <3>4. address'[r] = p
      BY <1>0, <1>2, <2>1, <3>1, <3>2
    <3>5. ASSUME NEW j \in 0 .. k - 1 PROVE address'[Probe(p, j)] \notin {p, HASH_EMPTY}
      <4>1. Probe(p, j) \in Slots
        BY ProbeInTable DEF Slots
      <4>2. address[Probe(p, j)] \notin {p, HASH_EMPTY}
        BY <3>3 DEF Finds, Stops
      <4>3. Probe(p, j) = s => address[s] = o
        BY <1>0, <4>2
      <4> QED BY <1>2, <4>1, <4>2, <4>3
    <3> QED BY <3>3, <3>4, <3>5
  <2>2. CASE address[r] = HASH_EMPTY
    <3>1. r = s
      BY <1>1, <1>3, <2>2 DEF Used
    <3>2. address'[r] = o
      BY <1>0, <1>2, <3>1
    <3>3. ASSUME NEW j \in 0 .. m - 1 PROVE address'[Probe(o, j)] \notin {o, HASH_EMPTY}
      <4>1. Probe(o, j) \in Slots
        BY ProbeInTable DEF Slots
      <4>2. address[Probe(o, j)] \notin {o, HASH_EMPTY}
        BY DEF Stops
      <4> QED BY <1>0, <1>2, <4>1, <4>2
    <3> QED BY <3>1, <3>2, <3>3
  <2> QED BY <2>1, <2>2
<1> QED BY <1>3, ReachableNext

\* Freeing an entry hides no other one unless a search passes it.
LEMMA FreeingHidesOnTheWay ==
    ASSUME TypeOK, AllReachable, NEW s \in Used, ~OnTheWay(s),
           address' = [address EXCEPT ![s] = HASH_EMPTY]
    PROVE  AllReachable'
<1>0. s \in Slots
  BY DEF Used
<1>1. Used' = Used \ {s}
  BY <1>0, FreeEntry
<1>2. \A r \in Slots : address'[r] = IF r = s THEN HASH_EMPTY ELSE address[r]
  BY <1>0 DEF TypeOK
<1> DEFINE Clear(p, k) == \A j \in 0 .. k - 1 : address'[Probe(p, j)] \notin {p, HASH_EMPTY}
<1>3. ASSUME NEW r \in Used'
      PROVE  \E k \in Slots : Probe(address'[r], k) = r /\ Clear(address'[r], k)
  <2>1. r \in Used /\ r \in Slots /\ r # s /\ address[r] \in Objects
    BY <1>1, <1>3 DEF Used, TypeOK
  <2>2. PICK p \in Objects : p = address[r]
    BY <2>1
  <2>3. PICK k \in Slots : Probe(p, k) = r /\ Finds(p, k)
    BY <2>1, <2>2 DEF AllReachable
  <2>4. address'[r] = p
    BY <1>2, <2>1, <2>2
  <2>5. ASSUME NEW j \in 0 .. k - 1 PROVE address'[Probe(p, j)] \notin {p, HASH_EMPTY}
    <3>1. Probe(p, j) \in Slots
      BY ProbeInTable DEF Slots
    <3>2. Probe(p, j) # s
      BY <2>1, <2>3 DEF OnTheWay
    <3>3. address[Probe(p, j)] \notin {p, HASH_EMPTY}
      BY <2>3 DEF Finds, Stops
    <3> QED BY <1>2, <3>1, <3>2, <3>3
  <2> QED BY <2>3, <2>4, <2>5
<1> QED BY <1>3, ReachableNext

\* A counter is that of the object's entry, and zero without one.
CountersAreEntries ==
    \A o \in Objects : /\ \A s \in Slots : address[s] = o => Lookup(o) = pending_notifications[s]
                       /\ (\A s \in Slots : address[s] # o) => Lookup(o) = 0

\* The two lemmas on counters in one, to be used of the state after a step too.
LEMMA Counter == TypeOK /\ AllReachable => CountersAreEntries
<1> SUFFICES ASSUME TypeOK, AllReachable, NEW o \in Objects
             PROVE  /\ \A s \in Slots : address[s] = o => Lookup(o) = pending_notifications[s]
                    /\ (\A s \in Slots : address[s] # o) => Lookup(o) = 0
  BY DEF CountersAreEntries
<1>1. \A s \in Slots : address[s] = o => s \in Used
  BY HashAssumption DEF Used
<1> QED BY <1>1, LookupEntry, LookupNone

\* What an operation on the entry s of o does to the counters, when no entry is
\* hidden after it either: no other counter moves.
LEMMA OneCounterMoves ==
    ASSUME SizeIsLoad, AllReachable, TypeOK', AllReachable', NEW o \in Objects,
           Ends(o), NEW s, s = HASH_SEARCH(o),
           NEW a \in {o, HASH_EMPTY}, address' = [address EXCEPT ![s] = a],
           NEW n, pending_notifications' = [pending_notifications EXCEPT ![s] = n]
    PROVE  /\ \A p \in Objects \ {o} : Lookup(p)' = Lookup(p)
           /\ Lookup(o)' = IF a = o THEN n ELSE 0
           /\ Lookup(o) = pending_notifications[s]
<1>0. /\ TypeOK /\ HASH_EMPTY \notin Objects
      /\ \A r \in Slots : address[r] # HASH_EMPTY <=> pending_notifications[r] > 0
  BY HashAssumption DEF SizeIsLoad
<1>1. s \in Slots /\ address[s] \in {o, HASH_EMPTY}
  BY SearchStops
<1>2. /\ \A r \in Slots : address'[r] = IF r = s THEN a ELSE address[r]
      /\ \A r \in Slots : pending_notifications'[r] = IF r = s THEN n ELSE pending_notifications[r]
  BY <1>0, <1>1 DEF TypeOK
<1>3. \A p \in Objects : /\ \A r \in Slots : address[r] = p => Lookup(p) = pending_notifications[r]
                         /\ (\A r \in Slots : address[r] # p) => Lookup(p) = 0
  BY <1>0, Counter DEF CountersAreEntries
<1>4. \A p \in Objects : /\ \A r \in Slots : address'[r] = p => Lookup(p)' = pending_notifications'[r]
                         /\ (\A r \in Slots : address'[r] # p) => Lookup(p)' = 0
  <2>1. CountersAreEntries'
    BY Counter, PTL
  <2> QED BY <2>1 DEF CountersAreEntries
<1>5. \A r \in Slots : address[r] = o => r = s
  BY <1>0, LookupEntry DEF Used
<1>6. \A p \in Objects \ {o} : Lookup(p)' = Lookup(p)
  <2> SUFFICES ASSUME NEW p \in Objects \ {o} PROVE Lookup(p)' = Lookup(p)
    OBVIOUS
  <2>1. CASE \E r \in Slots : address[r] = p
    <3>1. PICK r \in Slots : address[r] = p
      BY <2>1
    <3>2. r # s
      BY <1>0, <1>1, <3>1
    <3> QED BY <1>2, <1>3, <1>4, <3>1, <3>2
  <2>2. CASE \A r \in Slots : address[r] # p
    <3>1. \A r \in Slots : address'[r] # p
      BY <1>0, <1>2, <2>2
    <3> QED BY <1>3, <1>4, <2>2, <3>1
  <2> QED BY <2>1, <2>2
<1>7. Lookup(o) = pending_notifications[s]
  <2>1. CASE address[s] = o
    BY <1>1, <1>3, <2>1
  <2>2. CASE address[s] = HASH_EMPTY
    <3>1. \A r \in Slots : address[r] # o
      BY <1>0, <1>5, <2>2
    <3>2. pending_notifications[s] = 0
      BY <1>0, <1>1, <2>2 DEF TypeOK
    <3> QED BY <1>3, <3>1, <3>2
  <2> QED BY <1>1, <2>1, <2>2
<1>8. Lookup(o)' = IF a = o THEN n ELSE 0
  <2>1. CASE a = o
    BY <1>1, <1>2, <1>4, <2>1
  <2>2. CASE a # o
    <3>1. \A r \in Slots : address'[r] # o
      BY <1>2, <1>5, <2>2
    <3> QED BY <1>4, <2>2, <3>1
  <2> QED BY <2>1, <2>2
<1> QED BY <1>6, <1>7, <1>8

\* Every operation on a table without hidden entries is the operation of the same
\* name on the counters and hides none, unless it frees an entry that the search
\* for another object passes.
LEMMA TableStep ==
    ASSUME SizeIsLoad, AllReachable, SizeIsLoad', [Next]_vars, ~Cut
    PROVE  /\ AllReachable'
           /\ [Counters!Next]_<<[o \in Objects |-> Lookup(o)], result>>
<1> DEFINE P == [o \in Objects |-> Lookup(o)]
           Same == UNCHANGED <<address, pending_notifications>>
<1>0. /\ TypeOK /\ TypeOK'
      /\ \A s \in Slots : address[s] # HASH_EMPTY <=> pending_notifications[s] > 0
  BY DEF SizeIsLoad
<1>00. HASH_EMPTY \notin Objects
  BY HashAssumption
<1>1. ASSUME Same PROVE AllReachable' /\ P' = P
  <2>1. \A o \in Objects : Lookup(o)' = Lookup(o)
    BY <1>1 DEF Lookup, Ends, Stops, HASH_SEARCH
  <2> QED BY <1>1, <2>1 DEF AllReachable, Finds, Stops, Used
<1>4. ASSUME NEW o \in Objects, os_notify_queue_event(o)
      PROVE  AllReachable' /\ Counters!Queue(o)
  <2> DEFINE s == HASH_SEARCH(o)
  <2>1. CASE Full
    <3>1. result' = "E_OUT_OF_NOTIFICATIONS" /\ Same
      BY <1>4, <2>1 DEF os_notify_queue_event
    <3>2. Counters!Recorded = {x \in Objects : Lookup(x) > 0}
      BY DEF Counters!Recorded
    <3>3. Cardinality(Counters!Recorded) = BufferSize
      BY <2>1, <3>2, RecordedIsUsed DEF Full
    <3>4. Counters!Cardinality(Counters!Recorded) = BufferSize
      BY <3>3 DEF Counters!Cardinality, Cardinality
    <3>5. AllReachable' /\ P' = P
      BY <1>1, <3>1
    <3> QED BY <3>1, <3>4, <3>5 DEF Counters!Queue
  <2>2. CASE ~Full
    <3> DEFINE n == pending_notifications[s] + 1
    <3>1. /\ address' = [address EXCEPT ![s] = o] /\ Ends(o)
          /\ pending_notifications' = [pending_notifications EXCEPT ![s] = n]
          /\ result' = "E_OK"
      BY <1>4, <2>2 DEF os_notify_queue_event
    <3>2. PICK m \in Slots : s = Probe(o, m) /\ Stops(o, m) /\ \A j \in 0 .. m - 1 : ~Stops(o, j)
      BY <3>1, SearchStops
    <3> HIDE DEF n, s
    <3>3. AllReachable'
      BY <1>0, <3>1, <3>2, TakingHidesNothing
    <3>4. /\ \A p \in Objects \ {o} : Lookup(p)' = Lookup(p)
          /\ Lookup(o)' = n /\ Lookup(o) = pending_notifications[s]
      BY <1>0, <3>1, <3>3, OneCounterMoves DEF s
    <3>5. P' = [P EXCEPT ![o] = @ + 1]
      BY <3>4 DEF n
    <3> QED BY <3>1, <3>3, <3>5 DEF Counters!Queue
  <2> QED BY <2>1, <2>2
<1>5. ASSUME NEW o \in Objects, os_notify_dequeue_event(o)
      PROVE  AllReachable' /\ Counters!Dequeue(o)
  <2> DEFINE s == HASH_SEARCH(o)
             n == pending_notifications[s] - 1
  <2>0. Ends(o) /\ s \in Slots
    BY <1>5, SearchStops DEF os_notify_dequeue_event
  <2>1. CASE address[s] # o
    <3>1. result' = "must wait" /\ Same
      BY <1>5, <2>1 DEF os_notify_dequeue_event
    <3>2. P[o] = 0
      BY <2>1 DEF Lookup
    <3>3. AllReachable' /\ P' = P
      BY <1>1, <3>1
    <3>4. ~(P[o] > 0) /\ UNCHANGED P
      BY <3>2, <3>3
    <3> QED BY <3>1, <3>3, <3>4 DEF Counters!Dequeue
  <2>2. CASE address[s] = o
    <3>1. TakeOne(s) /\ result' = "consumed" /\ s \in Used
      BY <1>00, <1>5, <2>0, <2>2 DEF os_notify_dequeue_event, Used
    <3>2. pending_notifications' = [pending_notifications EXCEPT ![s] = n]
      BY <3>1 DEF TakeOne
    <3>3. pending_notifications[s] \in Nat /\ pending_notifications[s] > 0
      BY <1>0, <2>0, <3>1 DEF TypeOK, Used
    <3>4. PICK a \in {o, HASH_EMPTY} : /\ address' = [address EXCEPT ![s] = a]
                                       /\ a = IF n = 0 THEN HASH_EMPTY ELSE o
      <4>1. CASE pending_notifications[s] = 1
        BY <3>1, <4>1 DEF TakeOne
      <4>2. CASE pending_notifications[s] # 1
        <5>1. address' = [address EXCEPT ![s] = o] /\ n # 0
          BY <1>0, <2>0, <2>2, <3>1, <3>3, <4>2 DEF TakeOne, TypeOK
        <5> QED BY <5>1
      <4> QED BY <4>1, <4>2
    <3> HIDE DEF s, n
    <3>5. AllReachable'
      <4>1. CASE n = 0
        <5>1. address' = [address EXCEPT ![s] = HASH_EMPTY]
          BY <3>4, <4>1
        <5>2. address'[s] = HASH_EMPTY
          BY <1>0, <2>0, <5>1 DEF TypeOK
        <5>3. ~OnTheWay(s)
          BY <3>1, <5>2 DEF Cut
        <5> QED BY <1>0, <3>1, <5>1, <5>3, FreeingHidesOnTheWay
      <4>2. CASE n # 0
        <5>1. address' = address
          BY <1>0, <2>0, <2>2, <3>4, <4>2 DEF TypeOK
        <5> QED BY <5>1 DEF AllReachable, Finds, Stops, Used
      <4> QED BY <4>1, <4>2
    <3>6. /\ \A p \in Objects \ {o} : Lookup(p)' = Lookup(p)
          /\ Lookup(o)' = IF a = o THEN n ELSE 0
          /\ Lookup(o) = pending_notifications[s]
      BY <1>0, <2>0, <3>2, <3>4, <3>5, OneCounterMoves DEF s
    <3>7. P' = [P EXCEPT ![o] = @ - 1] /\ P[o] > 0
      BY <1>00, <3>3, <3>4, <3>6 DEF n
    <3> QED BY <3>1, <3>5, <3>7 DEF Counters!Dequeue
  <2> QED BY <2>1, <2>2
<1>6. ASSUME NEW o \in Objects, ClearEntry(o)
      PROVE  AllReachable' /\ Counters!Clear(o)
  <2> DEFINE s == HASH_SEARCH(o)
  <2>0. Ends(o) /\ s \in Slots /\ result' = "E_OK"
    BY <1>6, SearchStops DEF ClearEntry
  <2>1. CASE address[s] # o
    <3>1. Same
      BY <1>6, <2>1 DEF ClearEntry
    <3>2. P[o] = 0
      BY <2>1 DEF Lookup
    <3>3. AllReachable' /\ P' = P
      BY <1>1, <3>1
    <3>4. P' = [P EXCEPT ![o] = 0]
      BY <3>2, <3>3
    <3> QED BY <2>0, <3>3, <3>4 DEF Counters!Clear
  <2>2. CASE address[s] = o
    <3>1. /\ address' = [address EXCEPT ![s] = HASH_EMPTY] /\ s \in Used
          /\ pending_notifications' = [pending_notifications EXCEPT ![s] = 0]
      BY <1>00, <1>6, <2>0, <2>2 DEF ClearEntry, Used
    <3> HIDE DEF s
    <3>2. address'[s] = HASH_EMPTY
      BY <1>0, <2>0, <3>1 DEF TypeOK
    <3>3. ~OnTheWay(s)
      BY <3>1, <3>2 DEF Cut
    <3>4. AllReachable'
      BY <1>0, <3>1, <3>3, FreeingHidesOnTheWay
    <3>5. /\ \A p \in Objects \ {o} : Lookup(p)' = Lookup(p)
          /\ Lookup(o)' = IF HASH_EMPTY = o THEN 0 ELSE 0
      BY <1>0, <2>0, <3>1, <3>4, OneCounterMoves DEF s
    <3>6. P' = [P EXCEPT ![o] = 0]
      BY <3>5
    <3> QED BY <2>0, <3>4, <3>6 DEF Counters!Clear
  <2> QED BY <2>1, <2>2
<1>7. CASE Dead \/ UNCHANGED vars \/ \E o \in Objects : ~hung /\ Hang(o)
  <2>1. Same /\ UNCHANGED result
    BY <1>7 DEF Dead, Hang, vars
  <2>2. AllReachable' /\ P' = P
    BY <1>1, <2>1
  <2> QED BY <2>1, <2>2
<1> QED BY <1>4, <1>5, <1>6, <1>7 DEF Next, Counters!Next

\* The table implements one counter per object, for every hash function and every
\* size, from the empty table on and in every state without hidden entries, but for
\* the steps that free an entry another object's probe sequence passes.
THEOREM TableImplementsCounters == Spec => RecordsUntilCut
<1> DEFINE P == [o \in Objects |-> Lookup(o)]
<1>1. Init => Counters!Init /\ AllReachable
  <2> SUFFICES ASSUME Init PROVE Counters!Init /\ AllReachable
    OBVIOUS
  <2>1. Used = {}
    BY DEF Init, Used
  <2>2. \A o \in Objects : Lookup(o) = 0
    <3>1. \A o \in Objects : \A s \in Slots : address[s] # o
      BY HashAssumption DEF Init
    <3> QED BY <3>1, LookupNone
  <2> QED BY <2>1, <2>2 DEF Init, Counters!Init, AllReachable
<1>2. Spec => []SizeIsLoad
  BY LoadIsRight
<1>3. SizeIsLoad /\ SizeIsLoad' /\ [Next]_vars => [AllReachable => Cut \/ Counters!Next]_<<P, result>>
  BY TableStep
<1>4. SizeIsLoad /\ SizeIsLoad' /\ [Next]_vars => [AllReachable => Cut \/ AllReachable']_vars
  BY TableStep
<1> QED BY <1>1, <1>2, <1>3, <1>4, PTL DEF Spec, RecordsUntilCut
==============================================================================
