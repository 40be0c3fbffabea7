---------------------------- MODULE QueueProofs ----------------------------
(***************************************************************************)
(* Theorems about the queue library with an interrupt handler as its       *)
(* producer, for rings of any depth and items of any size.                 *)
(***************************************************************************)
EXTENDS Queue, TLAPS

------------------------------------------------------------------------------
(***************************************************************************)
(* Places in the ring.                                                     *)
(***************************************************************************)

\* The numbers of the ring.
LEMMA Sizes ==
    /\ depth \in Nat /\ depth > 0 /\ item_size \in Nat /\ item_size > 0
    /\ size_limit \in Nat /\ size_limit = depth * item_size /\ size_limit > 0
<1>1. depth \in Nat /\ depth > 0 /\ item_size \in Nat /\ item_size > 0
  BY QueueAssumption
<1>2. \A a, b \in Nat : a > 0 /\ b > 0 => a * b \in Nat /\ a * b > 0
  OBVIOUS
<1> QED BY <1>1, <1>2 DEF size_limit

\* Multiplication is monotonic and distributes.
LEMMA Products ==
    /\ \A a, b, c \in Nat : a <= b => a * c <= b * c
    /\ \A a, c \in Nat : (a + 1) * c = a * c + c
    /\ \A a, c \in Nat : a * c \in Nat
OBVIOUS

\* Every byte of every place is in the ring, and no two of them coincide.
LEMMA BytesInRing ==
    ASSUME NEW w \in Places, NEW j \in 0 .. item_size - 1
    PROVE  At(w, j) \in Cursors
<1>1. w \in Nat /\ w + 1 <= depth /\ j \in Nat /\ j < item_size
  BY Sizes DEF Places
<1>2. (w + 1) * item_size <= depth * item_size /\ (w + 1) * item_size = w * item_size + item_size
      /\ w * item_size \in Nat
  BY <1>1, Sizes, Products
<1> QED BY <1>1, <1>2, Sizes DEF At, Cursors

LEMMA BytesDiffer ==
    ASSUME NEW w \in Places, NEW v \in Places,
           NEW j \in 0 .. item_size - 1, NEW k \in 0 .. item_size - 1, At(w, j) = At(v, k)
    PROVE  w = v /\ j = k
<1>1. /\ w \in Nat /\ v \in Nat /\ j \in Nat /\ j < item_size /\ k \in Nat /\ k < item_size
      /\ w * item_size \in Nat /\ v * item_size \in Nat
      /\ w * item_size + j = v * item_size + k
  BY Sizes, Products DEF Places, At
<1>2. ASSUME w < v PROVE FALSE
  <2>1. (w + 1) * item_size <= v * item_size /\ (w + 1) * item_size = w * item_size + item_size
    BY <1>1, <1>2, Sizes, Products
  <2> QED BY <1>1, <2>1, Sizes
<1>3. ASSUME v < w PROVE FALSE
  <2>1. (v + 1) * item_size <= w * item_size /\ (v + 1) * item_size = v * item_size + item_size
    BY <1>1, <1>3, Sizes, Products
  <2> QED BY <1>1, <2>1, Sizes
<1>4. w = v
  BY <1>1, <1>2, <1>3
<1> QED BY <1>1, <1>4

\* The place behind one in the ring is a place.
LEMMA WrapIsPlace ==
    ASSUME NEW x \in Nat, x < 2 * depth
    PROVE  Wrap(x) \in Places
BY Sizes DEF Wrap, Places

\* A cursor moves to the next byte, and behind the last byte of the ring to its
\* first.
LEMMA AdvanceMoves ==
    ASSUME NEW w \in Places, NEW j \in 0 .. item_size - 1
    PROVE  Advance(At(w, j)) = IF j + 1 < item_size THEN At(w, j + 1) ELSE At(Wrap(w + 1), 0)
<1> DEFINE c == At(w, j)
<1>1. w \in Nat /\ w + 1 <= depth /\ j \in Nat /\ j + 1 <= item_size /\ w * item_size \in Nat
  BY Sizes, Products DEF Places
<1>2. c \in Nat /\ c < size_limit /\ c = w * item_size + j
  BY BytesInRing, Sizes DEF Cursors, At
<1>3. (w + 1) * item_size = w * item_size + item_size
  BY <1>1, Sizes, Products
<1>4. \A x, l \in Nat : l > 0 /\ x < l => x % l = x /\ l % l = 0
  OBVIOUS
<1> HIDE DEF c
<1>5. CASE j + 1 < item_size
  <2>1. w * item_size + (j + 1) = c + 1 /\ j + 1 \in 0 .. item_size - 1
    BY <1>1, <1>2, <1>5, Sizes
  <2>2. c + 1 \in Cursors
    BY <2>1, BytesInRing DEF At
  <2>3. (c + 1) % size_limit = c + 1
    BY <1>2, <1>4, <2>2, Sizes DEF Cursors
  <2> QED BY <1>5, <2>1, <2>3 DEF Advance, At, c
<1>6. CASE ~(j + 1 < item_size)
  <2>1. c + 1 = (w + 1) * item_size /\ j + 1 = item_size
    BY <1>1, <1>2, <1>3, <1>6, Sizes
  <2>2. CASE w + 1 < depth
    <3>1. Wrap(w + 1) = w + 1 /\ w + 1 \in Places /\ 0 \in 0 .. item_size - 1
      BY <1>1, <2>2, Sizes DEF Wrap, Places
    <3>2. (w + 1) * item_size + 0 = c + 1
      BY <1>1, <1>2, <2>1, Sizes
    <3>3. At(w + 1, 0) = c + 1 /\ At(w + 1, 0) \in Cursors
      BY <3>1, <3>2, BytesInRing DEF At
    <3>4. (c + 1) % size_limit = c + 1
      BY <1>2, <1>4, <3>3, Sizes DEF Cursors
    <3> QED BY <1>6, <3>1, <3>3, <3>4 DEF Advance, c
  <2>3. CASE w + 1 = depth
    <3>1. Wrap(w + 1) = 0 /\ At(0, 0) = 0
      BY <2>3, Sizes DEF Wrap, At
    <3>2. c + 1 = size_limit
      BY <2>1, <2>3, Sizes
    <3>3. (c + 1) % size_limit = 0
      <4>1. \A l \in Nat : l > 0 => l % l = 0
        OBVIOUS
      <4> QED BY <3>2, <4>1, Sizes
    <3> QED BY <1>6, <3>1, <3>3 DEF Advance, c
  <2> QED BY <1>1, <2>2, <2>3, Sizes
<1> QED BY <1>5, <1>6

\* Going round the ring.
LEMMA WrapLaws ==
    ASSUME NEW f \in Places
    PROVE  /\ Wrap(f + 0) = f /\ Wrap(f) = f /\ Wrap(f + depth) = f
           /\ \A n \in 0 .. depth - 1 : Wrap(Wrap(f + n) + 1) = Wrap(f + n + 1)
           /\ \A n \in 0 .. depth - 1 : Wrap(Wrap(f + 1) + n) = Wrap(f + n + 1)
           /\ \A n \in 0 .. depth : Wrap(f + n) \in Places
           /\ \A n, k \in 0 .. depth - 1 : Wrap(f + n) = Wrap(f + k) => n = k
           /\ \A n \in 0 .. depth : Wrap(f + n) = f => n = 0 \/ n = depth
BY Sizes DEF Wrap, Places

\* Cursors at the beginning of places tell the places apart.
LEMMA PlacesDiffer ==
    ASSUME NEW w \in Places, NEW v \in Places
    PROVE  /\ At(w, 0) \in Cursors
           /\ At(w, 0) = At(v, 0) => w = v
<1>1. 0 \in 0 .. item_size - 1
  BY Sizes
<1> QED BY <1>1, BytesInRing, BytesDiffer

\* The place of the oldest item, and how many items there are.
LEMMA FrontIsPlace ==
    ASSUME NEW r \in Places
    PROVE  Front(r) \in Places
BY Sizes DEF Front, Wrap, Places

------------------------------------------------------------------------------
(***************************************************************************)
(* The inductive invariant.                                                *)
(***************************************************************************)

LEMMA InitQueue == Init => QueueInv
<1> SUFFICES ASSUME Init PROVE QueueInv
  OBVIOUS
<1> USE Sizes
<1>1. Locals
  <2>1. 0 \in Cursors
    BY DEF Cursors
  <2>2. content \in [Cursors -> Items \cup {Nothing}]
    BY DEF Init, queue_init
  <2> QED BY <2>1, <2>2 DEF Init, queue_init, Idle, Locals, Steps
<1>2. Layout
  <2>1. 0 \in Places /\ At(0, 0) = 0 /\ Wrap(0 + 0) = 0
    BY DEF Places, At, Wrap
  <2>2. Front(0) = 0
    BY DEF Front, Taken, Init, Idle
  <2>3. SenderAt(0) /\ ReceiverAt(0)
    BY DEF Init, Idle, SenderAt, ReceiverAt, Filling, Taken
  <2>4. Contents(0, 0)
    BY <2>1 DEF Init, Contents
  <2>5. Cells(0, 0)
    BY <2>1, <2>2, <2>3, <2>4 DEF Init, queue_init, Cells
  <2> QED BY <2>1, <2>5 DEF Layout
<1>3. Capacity /\ Flag /\ Len(fifo) <= Notices + refused /\ Notices <= Len(fifo) + spurious
  BY QueueAssumption DEF Init, queue_init, Idle, Capacity, Flag, Notices, Occupied, Filling, Taken
<1> QED BY <1>1, <1>2, <1>3 DEF QueueInv

\* queue_send begins only when the ring has a free place: a full ring has its
\* cursors together and its flag cleared.
LEMMA SendBegins ==
    ASSUME QueueInv, MaxBurst <= depth, NEW v \in Items, queue_send(v)
    PROVE  QueueInv'
<1> USE Sizes
<1>1. PICK w, r \in Places : Cells(w, r)
  BY DEF QueueInv, Layout
<1> DEFINE n == Len(fifo)
           f == Front(r)
<1>2. n \in Nat /\ burst \in Nat /\ f \in Places /\ MaxBurst \in Nat
  BY FrontIsPlace, QueueAssumption DEF QueueInv, Locals
<1>3. producer.pc = "idle" /\ ~queue_full /\ consumer' = consumer /\ UNCHANGED <<queueVars, pending, spurious, refused, history>>
  BY DEF queue_send
<1>4. /\ producer' = [pc |-> "copy", cursor |-> write_cursor, q |-> 0,
                      data |-> [q \in 1 .. item_size |-> v]]
      /\ producer'.pc = "copy" /\ producer'.q = 0 /\ producer'.cursor = write_cursor
      /\ producer'.data = [q \in 1 .. item_size |-> v]
  BY DEF queue_send
<1>5. /\ Occupied = n /\ ~Filling /\ Occupied' = n + 1 /\ Filling' /\ Taken' = Taken
      /\ consumer'.pc = consumer.pc
  BY <1>2, <1>3, <1>4 DEF Occupied, Filling, Taken, history
<1>6. /\ Taken => burst < MaxBurst /\ burst' = burst + 1
      /\ burst' \in Nat /\ burst' <= MaxBurst /\ burst <= burst'
  BY <1>2 DEF queue_send, Taken, Receiving, QueueInv, Capacity
<1>7. w = r => empty = TRUE
  BY <1>1, <1>3 DEF Cells, queue_full, QueueInv, Locals
<1>8. w = Wrap(f + n)
  BY <1>1 DEF Cells, Contents
<1>9. n <= depth
  BY <1>5, <1>2 DEF QueueInv, Capacity
<1> HIDE DEF n, f
<1>10. ~Taken => n < depth
  <2> SUFFICES ASSUME ~Taken, n = depth PROVE FALSE
    BY <1>2, <1>9
  <2>1. f = r
    BY DEF f, Front
  <2>2. w = r
    BY <1>8, <2>1, WrapLaws
  <2>3. empty # TRUE
    BY <1>3 DEF QueueInv, Flag, n, Locals
  <2> QED BY <1>7, <2>2, <2>3
<1>11. consumer.pc \in {"compare", "empty"} => n + 1 < depth
  <2> SUFFICES ASSUME consumer.pc \in {"compare", "empty"}, n = depth - 1 PROVE FALSE
    BY <1>2, <1>5 DEF QueueInv, Capacity
  <2>1. f = Wrap(r + 1)
    BY DEF f, Front, Taken
  <2>2. w = r
    BY <1>8, <2>1 DEF Wrap, Places
  <2>3. empty # TRUE
    BY <1>3 DEF QueueInv, Flag, n, Locals
  <2> QED BY <1>7, <2>2, <2>3
<1>12. consumer.pc = "cursor" => n + 1 <= burst + 1 \/ n + 1 < depth
  <2> SUFFICES ASSUME consumer.pc = "cursor", ~(n <= burst), n = depth - 1 PROVE FALSE
    BY <1>2, <1>5 DEF QueueInv, Capacity
  <2>1. f = Wrap(r + 1)
    BY DEF f, Front, Taken
  <2>2. w = r
    BY <1>8, <2>1 DEF Wrap, Places
  <2>3. empty # TRUE
    BY <1>3, <1>5 DEF QueueInv, Flag, n, Locals
  <2> QED BY <1>7, <2>2, <2>3
<1>13. Capacity'
  <2>1. Taken => n < depth
    BY <1>2, <1>5, <1>6, <1>9, <1>11, <1>12 DEF Taken, QueueInv, Capacity
  <2>2. n + 1 <= depth
    BY <1>2, <1>10, <2>1
  <2>3. consumer.pc = "empty" => n + 1 <= burst'
    BY <1>2, <1>5, <1>6 DEF QueueInv, Capacity, Taken
  <2>4. consumer.pc = "cursor" => n + 1 < depth \/ n + 1 <= burst'
    BY <1>2, <1>6, <1>12 DEF Taken
  <2> QED BY <1>5, <1>6, <1>11, <2>2, <2>3, <2>4 DEF Capacity
<1>14. Flag'
  <2>1. fifo' = fifo /\ empty' = empty /\ producer'.pc # "empty" /\ producer.pc # "empty"
    BY <1>3, <1>4 DEF history, queueVars
  <2>2. consumer.pc = "cursor" /\ n = depth - 1 => empty = FALSE \/ n + 1 <= burst'
    BY <1>2, <1>5, <1>6, <2>1 DEF QueueInv, Flag, Taken, Locals, n
  <2> QED BY <1>5, <2>1, <2>2 DEF QueueInv, Flag, n
<1>15. Locals'
  <2>1. write_cursor \in Cursors
    BY <1>1, PlacesDiffer DEF Cells
  <2>2. [q \in 1 .. item_size |-> v] \in Seq(Items)
    BY SMT
  <2>3. producer' \in [pc : Steps, cursor : Cursors, q : Nat, data : Seq(Items)]
    BY <1>4, <2>1, <2>2 DEF Steps
  <2> QED BY <1>3, <1>4, <1>6, <2>3 DEF QueueInv, Locals, history, queueVars
<1>16. Cells(w, r)'
  <2>1. Front(r)' = Front(r) /\ write_cursor' = write_cursor /\ read_cursor' = read_cursor
        /\ fifo' = fifo /\ content' = content
    BY <1>3, <1>5 DEF Front, queueVars, history
  <2>2. SenderAt(w)'
    <3>1. At(w, 0) = write_cursor
      BY <1>1 DEF Cells
    <3>2. Len(producer'.data) = item_size /\ \A j \in 1 .. item_size : producer'.data[j] = v
      BY <1>4
    <3>3. 0 \in 0 .. item_size - 1 /\ 1 \in 1 .. item_size /\ 0 .. 0 - 1 = {}
      OBVIOUS
    <3>4. producer'.data[1] = v
      BY <3>2, <3>3
    <3>5. Written' = 0
      BY <1>4 DEF Written
    <3> QED BY <1>4, <3>1, <3>2, <3>3, <3>4, <3>5 DEF SenderAt
  <2>3. (ReceiverAt(Front(r)) /\ Contents(w, Front(r)))'
    BY <1>1, <1>3, <1>5, <2>1 DEF Cells, ReceiverAt, Contents
  <2> QED BY <1>1, <2>1, <2>2, <2>3 DEF Cells
<1>17. Layout'
  BY <1>16 DEF Layout
<1>18. (Len(fifo) <= Notices + refused /\ Notices <= Len(fifo) + spurious)'
  <2>1. Notices' = Notices
    BY <1>3, <1>4 DEF Notices
  <2> QED BY <1>3, <2>1 DEF QueueInv, history
<1> QED BY <1>13, <1>14, <1>15, <1>17, <1>18 DEF QueueInv

\* A byte goes to the place behind the last item, where no item is.
LEMMA SendByteStep ==
    ASSUME QueueInv, SendByte
    PROVE  QueueInv'
<1> USE Sizes
<1>1. PICK w, r \in Places : Cells(w, r)
  BY DEF QueueInv, Layout
<1> DEFINE n == Len(fifo)
           q == producer.q
           d == producer.data[1]
<1>2. /\ producer.pc = "copy" /\ q \in 0 .. item_size - 1 /\ producer.cursor = At(w, q)
      /\ Filling /\ Len(producer.data) = item_size /\ Written = q
      /\ \A j \in 1 .. item_size : producer.data[j] = d
      /\ \A j \in 0 .. q - 1 : content[At(w, j)] = d
  BY <1>1 DEF SendByte, Cells, SenderAt, Filling, Written
<1>3. n \in Nat /\ n + 1 <= depth /\ d \in Items
      /\ producer \in [pc : Steps, cursor : Cursors, q : Nat, data : Seq(Items)]
  <2>1. producer \in [pc : Steps, cursor : Cursors, q : Nat, data : Seq(Items)] /\ n \in Nat
    BY DEF QueueInv, Locals
  <2>2. d \in Items
    BY <1>2, <2>1
  <2> QED BY <1>2, <2>1, <2>2 DEF QueueInv, Capacity, Occupied
<1>4. content' = [content EXCEPT ![At(w, q)] = d]
  <2>1. q + 1 \in 1 .. item_size
    BY <1>2
  <2> QED BY <1>2, <2>1 DEF SendByte
<1>5. At(w, q) \in Cursors /\ content \in [Cursors -> Items \cup {Nothing}]
  BY <1>2, BytesInRing DEF QueueInv, Locals
<1>6. /\ producer'.cursor = Advance(At(w, q)) /\ producer'.q = q + 1 /\ producer'.data = producer.data
      /\ producer'.pc = IF q + 1 < item_size THEN "copy" ELSE "cursor"
      /\ producer' = [pc |-> producer'.pc, cursor |-> producer'.cursor, q |-> q + 1, data |-> producer.data]
  BY <1>2, <1>3 DEF SendByte
<1>7. /\ UNCHANGED <<write_cursor, read_cursor, empty, pending, spurious, refused, consumer, fifo, burst>>
      /\ Filling' /\ Taken' = Taken
  BY <1>6 DEF SendByte, history, Filling, Taken
<1> HIDE DEF n, q, d
<1>8. Capacity' /\ Flag' /\ (Len(fifo) <= Notices + refused /\ Notices <= Len(fifo) + spurious)'
  <2>1. Occupied' = Occupied /\ Notices' = Notices /\ producer'.pc # "empty"
    BY <1>2, <1>6, <1>7 DEF Occupied, Notices
  <2>2. Capacity'
    BY <1>7, <2>1 DEF QueueInv, Capacity
  <2>3. Flag'
    BY <1>2, <1>7, <2>1 DEF QueueInv, Flag
  <2> QED BY <1>7, <2>1, <2>2, <2>3 DEF QueueInv
<1>9. producer'.cursor \in Cursors /\
      producer'.cursor = IF q + 1 < item_size THEN At(w, q + 1) ELSE At(Wrap(w + 1), 0)
  <2>1. Wrap(w + 1) \in Places
    BY WrapLaws
  <2>2. At(Wrap(w + 1), 0) \in Cursors
    BY <2>1, PlacesDiffer
  <2>3. q + 1 < item_size => At(w, q + 1) \in Cursors
    <3>1. q + 1 < item_size => q + 1 \in 0 .. item_size - 1
      BY <1>2
    <3> QED BY <3>1, BytesInRing
  <2>4. producer'.cursor = IF q + 1 < item_size THEN At(w, q + 1) ELSE At(Wrap(w + 1), 0)
    BY <1>2, <1>6, AdvanceMoves
  <2> QED BY <2>2, <2>3, <2>4
<1>10. Locals'
  <2>1. producer' \in [pc : Steps, cursor : Cursors, q : Nat, data : Seq(Items)]
    BY <1>2, <1>3, <1>6, <1>9 DEF Steps
  <2>2. content' \in [Cursors -> Items \cup {Nothing}]
    BY <1>3, <1>4, <1>5
  <2> QED BY <1>6, <1>7, <2>1, <2>2 DEF QueueInv, Locals
<1>11. Cells(w, r)'
  <2>1. SenderAt(w)'
    <3>1. \A j \in 0 .. q : content'[At(w, j)] = d
      <4> TAKE j \in 0 .. q
      <4>1. At(w, j) \in Cursors
        BY <1>2, BytesInRing
      <4>2. CASE j = q
        BY <1>4, <1>5, <4>2
      <4>3. CASE j # q
        <5>1. j \in 0 .. q - 1 /\ j \in 0 .. item_size - 1
          BY <1>2, <4>3
        <5>2. At(w, j) # At(w, q)
          BY <1>2, <4>3, <5>1, BytesDiffer
        <5> QED BY <1>2, <1>4, <1>5, <4>1, <5>1, <5>2
      <4> QED BY <4>2, <4>3
    <3>2. Written' = q + 1
      BY <1>2, <1>6 DEF Written
    <3>3. producer'.pc = "copy" => q + 1 < item_size
      BY <1>6
    <3>4. producer'.pc = "cursor" => ~(q + 1 < item_size)
      BY <1>6
    <3>5. producer'.data[1] = d /\ q \in Nat
      BY <1>2, <1>6 DEF d
    <3> QED BY <1>2, <1>6, <1>9, <3>1, <3>2, <3>3, <3>4, <3>5 DEF SenderAt
  <2>2. Front(r)' = Front(r) /\ Front(r) \in Places
    BY <1>7, FrontIsPlace DEF Front
  <2>3. ReceiverAt(Front(r))'
    BY <1>1, <1>7, <2>2 DEF Cells, ReceiverAt
  <2>4. Contents(w, Front(r))'
    <3> DEFINE f == Front(r)
    <3>1. w = Wrap(f + n) /\ f \in Places
      BY <1>1, <2>2 DEF Cells, Contents, n
    <3>2. ASSUME NEW i \in 1 .. n, NEW j \in 0 .. item_size - 1
          PROVE  content'[At(Wrap(f + i - 1), j)] = fifo[i]
      <4> HIDE DEF f
      <4>1. i - 1 \in 0 .. depth - 1 /\ n \in 0 .. depth - 1 /\ i - 1 # n /\ f + (i - 1) = f + i - 1
        BY <1>3, <3>1 DEF Places
      <4>2. Wrap(f + i - 1) # w /\ Wrap(f + i - 1) \in Places
        BY <3>1, <4>1, WrapLaws
      <4>3. At(Wrap(f + i - 1), j) # At(w, q) /\ At(Wrap(f + i - 1), j) \in Cursors
        BY <1>2, <4>2, BytesDiffer, BytesInRing
      <4>4. content[At(Wrap(f + i - 1), j)] = fifo[i]
        BY <1>1 DEF Cells, Contents, f, n
      <4> QED BY <1>4, <1>5, <4>3, <4>4
    <3> QED BY <1>7, <2>2, <3>1, <3>2 DEF Contents, n
  <2> QED BY <1>1, <1>7, <2>1, <2>2, <2>3, <2>4 DEF Cells
<1>12. Layout'
  BY <1>11 DEF Layout
<1> QED BY <1>8, <1>10, <1>12 DEF QueueInv

\* The cursor moves behind the item: it is in the queue.
LEMMA SendCursorStep ==
    ASSUME QueueInv, SendCursor
    PROVE  QueueInv' /\ Len(fifo) < depth /\ producer.data[1] \in Items
<1> USE Sizes
<1>1. PICK w, r \in Places : Cells(w, r)
  BY DEF QueueInv, Layout
<1> DEFINE n == Len(fifo)
           d == producer.data[1]
           f == Front(r)
<1>2. /\ producer.pc = "cursor" /\ producer.cursor = At(Wrap(w + 1), 0)
      /\ Filling /\ Len(producer.data) = item_size
      /\ \A j \in 0 .. item_size - 1 : content[At(w, j)] = d
  BY <1>1 DEF SendCursor, Cells, SenderAt, Filling, Written
<1>3. producer \in [pc : Steps, cursor : Cursors, q : Nat, data : Seq(Items)] /\ fifo \in Seq(Items)
      /\ content \in [Cursors -> Items \cup {Nothing}]
  BY DEF QueueInv, Locals
<1>4. n \in Nat /\ n + 1 <= depth /\ d \in Items /\ Occupied = n + 1
  BY <1>2, <1>3 DEF QueueInv, Capacity, Occupied
<1>5. /\ fifo' = Append(fifo, d) /\ fifo' \in Seq(Items) /\ Len(fifo') = n + 1 /\ fifo' # <<>>
      /\ fifo'[n + 1] = d /\ \A i \in 1 .. n : fifo'[i] = fifo[i]
  BY <1>3, <1>4 DEF SendCursor
<1>6. /\ UNCHANGED <<read_cursor, empty, content, pending, spurious, refused, consumer, burst>>
      /\ write_cursor' = At(Wrap(w + 1), 0)
      /\ producer'.pc = "empty" /\ producer' = [producer EXCEPT !.pc = "empty"]
  BY <1>2, <1>3 DEF SendCursor
<1>7. Filling' = FALSE /\ Taken' = Taken /\ Front(r)' = f /\ f \in Places
  BY <1>6, FrontIsPlace DEF Filling, Taken, Front
<1> HIDE DEF n, d
<1>8. Capacity' /\ Flag' /\ (Len(fifo) <= Notices + refused /\ Notices <= Len(fifo) + spurious)'
  <2>1. Occupied' = Occupied
    BY <1>4, <1>5, <1>7 DEF Occupied
  <2>2. Notices' = Notices + 1
    <3>1. pending \in Nat
      BY DEF QueueInv, Locals
    <3> QED BY <1>2, <1>6, <3>1 DEF Notices
  <2>3. Notices \in Nat /\ spurious \in Nat /\ refused \in Nat
    BY DEF Notices, QueueInv, Locals
  <2>4. Capacity'
    BY <1>6, <2>1 DEF QueueInv, Capacity
  <2>5. Flag'
    BY <1>5, <1>6 DEF Flag
  <2>6. n <= Notices + refused /\ Notices <= n + spurious
    BY DEF QueueInv, n
  <2> QED BY <1>4, <1>5, <1>6, <2>2, <2>3, <2>4, <2>5, <2>6
<1>9. Locals'
  <2>1. producer' \in [pc : Steps, cursor : Cursors, q : Nat, data : Seq(Items)]
    BY <1>3, <1>6 DEF Steps
  <2> QED BY <1>5, <1>6, <2>1 DEF QueueInv, Locals
<1>10. Wrap(w + 1) \in Places
  BY WrapLaws
<1>11. w = Wrap(f + n)
  BY <1>1 DEF Cells, Contents, n
<1>12. Cells(Wrap(w + 1), r)'
  <2>1. SenderAt(Wrap(w + 1))'
    BY <1>6, <1>7 DEF SenderAt
  <2>2. ReceiverAt(f)'
    <3>1. consumer.pc = "copy" => fifo'[1] = fifo[1]
      BY <1>1, <1>3, <1>5 DEF Cells, ReceiverAt, n
    <3> QED BY <1>1, <1>5, <1>6, <1>7, <3>1 DEF Cells, ReceiverAt
  <2>3. Contents(Wrap(w + 1), f)'
    <3> HIDE DEF f
    <3>1. Wrap(w + 1) = Wrap(f + (n + 1))
      <4>1. n \in 0 .. depth - 1 /\ f \in Nat
        BY <1>4, <1>7 DEF Places
      <4>2. f + (n + 1) = f + n + 1
        BY <4>1
      <4>3. Wrap(Wrap(f + n) + 1) = Wrap(f + n + 1)
        BY <1>7, <4>1, WrapLaws
      <4> QED BY <1>11, <4>2, <4>3
    <3>2. ASSUME NEW i \in 1 .. n + 1, NEW j \in 0 .. item_size - 1
          PROVE  content[At(Wrap(f + i - 1), j)] = fifo'[i]
      <4>1. CASE i = n + 1
        <5>1. f + i - 1 = f + n
          BY <1>4, <1>7, <4>1 DEF Places
        <5> QED BY <1>2, <1>5, <1>11, <4>1, <5>1
      <4>2. CASE i # n + 1
        <5>1. i \in 1 .. n
          BY <1>4, <4>2
        <5>2. content[At(Wrap(f + i - 1), j)] = fifo[i]
          BY <1>1, <5>1 DEF Cells, Contents, f, n
        <5> QED BY <1>5, <5>1, <5>2
      <4> QED BY <4>1, <4>2
    <3> QED BY <1>5, <1>6, <1>7, <3>1, <3>2 DEF Contents, f
  <2> QED BY <1>1, <1>6, <1>7, <2>1, <2>2, <2>3 DEF Cells
<1>13. Layout'
  BY <1>10, <1>12 DEF Layout
<1> QED BY <1>4, <1>8, <1>9, <1>13 DEF QueueInv, n, d

\* The steps that leave the items and the receiver's progress alone keep the
\* layout.
LEMMA LayoutStands ==
    ASSUME Layout, UNCHANGED <<write_cursor, read_cursor, content, fifo>>,
           producer' = producer \/ ~Filling',
           \/ UNCHANGED consumer
           \/ consumer'.pc \notin {"copy", "compare", "empty", "cursor"} /\ ~Taken
           \/ Taken /\ Taken' /\ consumer'.cursor = consumer.cursor
    PROVE  Layout'
<1>1. PICK w, r \in Places : Cells(w, r)
  BY DEF Layout
<1>2. SenderAt(w)'
  BY <1>1 DEF Cells, SenderAt, Filling, Written
<1>3. Front(r)' = Front(r)
  BY DEF Front, Taken
<1>4. ReceiverAt(Front(r))'
  <2>1. CASE UNCHANGED consumer
    BY <1>1, <1>3, <2>1 DEF Cells, ReceiverAt, Taken
  <2>2. CASE consumer'.pc \notin {"copy", "compare", "empty", "cursor"}
    BY <2>2 DEF ReceiverAt, Taken
  <2>3. CASE Taken /\ Taken' /\ consumer'.cursor = consumer.cursor
    BY <1>1, <1>3, <2>3 DEF Cells, ReceiverAt, Taken
  <2> QED BY <2>1, <2>2, <2>3
<1>5. Contents(w, Front(r))'
  BY <1>1, <1>3 DEF Cells, Contents
<1>6. Cells(w, r)'
  BY <1>1, <1>2, <1>3, <1>4, <1>5 DEF Cells
<1> QED BY <1>6 DEF Layout

\* The flag is cleared and the receiver notified.
LEMMA SendFlagStep ==
    ASSUME QueueInv, SendFlag
    PROVE  QueueInv'
<1>1. /\ producer.pc = "empty" /\ producer'.pc = "notify" /\ producer' = [producer EXCEPT !.pc = "notify"]
      /\ empty' = FALSE
      /\ UNCHANGED <<write_cursor, read_cursor, content, pending, spurious, refused, consumer, fifo, burst>>
  BY DEF SendFlag, SendClears, history, QueueInv, Locals
<1>2. Filling' = Filling /\ ~Filling' /\ Taken' = Taken /\ Occupied' = Occupied /\ Notices' = Notices
  BY <1>1 DEF Filling, Taken, Occupied, Notices
<1>3. Layout'
  BY <1>1, <1>2, LayoutStands DEF QueueInv
<1>4. Locals'
  <2>1. producer' \in [pc : Steps, cursor : Cursors, q : Nat, data : Seq(Items)]
    BY <1>1 DEF QueueInv, Locals, Steps
  <2> QED BY <1>1, <2>1 DEF QueueInv, Locals
<1>5. Capacity'
  BY <1>1, <1>2 DEF QueueInv, Capacity
<1>6. Flag'
  BY <1>1 DEF QueueInv, Flag
<1> QED BY <1>1, <1>2, <1>3, <1>4, <1>5, <1>6 DEF QueueInv

LEMMA SendNotifyStep ==
    ASSUME QueueInv, SendNotify
    PROVE  QueueInv'
<1>1. /\ producer.pc = "notify" /\ producer'.pc = "idle" /\ producer' = Idle /\ pending' = pending + 1
      /\ UNCHANGED <<write_cursor, read_cursor, content, empty, spurious, refused, consumer, fifo, burst>>
  BY DEF SendNotify, history, queueVars, Idle
<1>2. pending \in Nat
  BY DEF QueueInv, Locals
<1>3. Filling' = Filling /\ ~Filling' /\ Taken' = Taken /\ Occupied' = Occupied
  BY <1>1 DEF Filling, Taken, Occupied
<1>4. Notices' = Notices
  BY <1>1, <1>2 DEF Notices
<1>5. Layout'
  BY <1>1, <1>3, LayoutStands DEF QueueInv
<1>6. Locals'
  <2>1. 0 \in Cursors /\ <<>> \in Seq(Items)
    BY Sizes DEF Cursors
  <2>2. producer' \in [pc : Steps, cursor : Cursors, q : Nat, data : Seq(Items)]
    BY <1>1, <2>1 DEF Steps, Idle
  <2> QED BY <1>1, <1>2, <2>2 DEF QueueInv, Locals
<1>7. Capacity'
  BY <1>1, <1>3 DEF QueueInv, Capacity
<1>8. Flag'
  BY <1>1, <1>3 DEF QueueInv, Flag
<1> QED BY <1>1, <1>4, <1>5, <1>6, <1>7, <1>8 DEF QueueInv

\* The item goes without.
LEMMA SendRefusedStep ==
    ASSUME QueueInv, SendRefused
    PROVE  QueueInv'
<1>1. /\ producer.pc = "notify" /\ producer'.pc = "idle" /\ producer' = Idle /\ refused' = refused + 1
      /\ UNCHANGED <<write_cursor, read_cursor, content, empty, pending, spurious, consumer, fifo, burst>>
  BY DEF SendRefused, history, queueVars, Idle
<1>2. pending \in Nat /\ spurious \in Nat /\ refused \in Nat /\ Len(fifo) \in Nat
  BY DEF QueueInv, Locals
<1>3. Filling' = Filling /\ ~Filling' /\ Taken' = Taken /\ Occupied' = Occupied
  BY <1>1 DEF Filling, Taken, Occupied
<1>4. Notices' = Notices - 1 /\ Notices \in Nat
  BY <1>1, <1>2 DEF Notices
<1>5. Layout'
  BY <1>1, <1>3, LayoutStands DEF QueueInv
<1>6. Locals'
  <2>1. 0 \in Cursors /\ <<>> \in Seq(Items)
    BY Sizes DEF Cursors
  <2>2. producer' \in [pc : Steps, cursor : Cursors, q : Nat, data : Seq(Items)]
    BY <1>1, <2>1 DEF Steps, Idle
  <2> QED BY <1>1, <1>2, <2>2 DEF QueueInv, Locals
<1>7. Capacity'
  BY <1>1, <1>3 DEF QueueInv, Capacity
<1>8. Flag'
  BY <1>1, <1>3 DEF QueueInv, Flag
<1>9. Len(fifo) <= Notices + refused /\ Notices <= Len(fifo) + spurious
  BY DEF QueueInv
<1>10. (Len(fifo) <= Notices + refused /\ Notices <= Len(fifo) + spurious)'
  BY <1>1, <1>2, <1>4, <1>9
<1> QED BY <1>5, <1>6, <1>7, <1>8, <1>10 DEF QueueInv

LEMMA SpuriousStep ==
    ASSUME QueueInv, Spurious
    PROVE  QueueInv'
<1>1. /\ pending' = pending + 1 /\ spurious' = spurious + 1
      /\ UNCHANGED <<write_cursor, read_cursor, content, empty, refused, producer, consumer, fifo, burst>>
  BY DEF Spurious, history, queueVars
<1>2. pending \in Nat /\ spurious \in Nat /\ refused \in Nat /\ Len(fifo) \in Nat
  BY DEF QueueInv, Locals
<1>3. Filling' = Filling /\ Taken' = Taken /\ Occupied' = Occupied
  BY <1>1 DEF Filling, Taken, Occupied
<1>4. Notices' = Notices + 1 /\ Notices \in Nat
  BY <1>1, <1>2 DEF Notices
<1>5. Layout'
  BY <1>1, <1>3, LayoutStands DEF QueueInv
<1>6. Locals'
  BY <1>1, <1>2 DEF QueueInv, Locals
<1>7. Capacity'
  BY <1>1, <1>3 DEF QueueInv, Capacity
<1>8. Flag'
  BY <1>1, <1>3 DEF QueueInv, Flag
<1>9. Len(fifo) <= Notices + refused /\ Notices <= Len(fifo) + spurious
  BY DEF QueueInv
<1>10. (Len(fifo) <= Notices + refused /\ Notices <= Len(fifo) + spurious)'
  BY <1>1, <1>2, <1>4, <1>9
<1> QED BY <1>5, <1>6, <1>7, <1>8, <1>10 DEF QueueInv

\* The receiver calls and waits: it goes on with a notification or without.
LEMMA ReceiveWaits ==
    ASSUME QueueInv, queue_receive_timeout \/ ReceiveNotified \/ ReceiveTimeout
    PROVE  QueueInv'
<1>1. /\ consumer.pc \in {"idle", "wait"} /\ consumer'.pc \in {"idle", "wait", "check"}
      /\ UNCHANGED <<write_cursor, read_cursor, content, empty, spurious, refused, producer, fifo, burst>>
  BY DEF queue_receive_timeout, ReceiveNotified, ReceiveTimeout, history, queueVars, Idle, QueueInv, Locals
<1>2. pending \in Nat
  BY DEF QueueInv, Locals
<1>3. Filling' = Filling /\ ~Taken' /\ ~Taken /\ Occupied' = Occupied
  BY <1>1 DEF Filling, Taken, Occupied
<1>4. Notices' = Notices /\ pending' \in Nat
  BY <1>1, <1>2 DEF Notices, queue_receive_timeout, ReceiveNotified, ReceiveTimeout, Idle, QueueInv, Locals
<1>5. Layout'
  BY <1>1, <1>3, LayoutStands DEF QueueInv
<1>6. Locals'
  <2>1. 0 \in Cursors /\ <<>> \in Seq(Items \cup {Nothing})
    BY Sizes DEF Cursors
  <2>2. consumer' \in [pc : Steps, cursor : Cursors, q : Nat, data : Seq(Items \cup {Nothing})]
    <3>1. Idle \in [pc : Steps, cursor : Cursors, q : Nat, data : Seq(Items \cup {Nothing})]
      BY <2>1 DEF Idle, Steps
    <3>2. consumer \in [pc : Steps, cursor : Cursors, q : Nat, data : Seq(Items \cup {Nothing})]
      BY DEF QueueInv, Locals
    <3>3. consumer' = Idle \/ \E s \in Steps : consumer' = [consumer EXCEPT !.pc = s]
      BY DEF queue_receive_timeout, ReceiveNotified, ReceiveTimeout, Steps
    <3> QED BY <3>1, <3>2, <3>3
  <2> QED BY <1>1, <1>4, <2>2 DEF QueueInv, Locals
<1>7. Capacity'
  BY <1>1, <1>3 DEF QueueInv, Capacity
<1>8. Flag'
  BY <1>1, <1>3 DEF QueueInv, Flag
<1> QED BY <1>1, <1>4, <1>5, <1>6, <1>7, <1>8 DEF QueueInv

\* While nobody is sending the flag and the cursors tell whether there is an
\* item.
LEMMA EmptyIsEmpty ==
    ASSUME QueueInv, producer.pc = "idle", ~Taken
    PROVE  queue_empty <=> fifo = <<>>
<1> USE Sizes
<1>1. PICK w, r \in Places : Cells(w, r)
  BY DEF QueueInv, Layout
<1>2. fifo \in Seq(Items) /\ Len(fifo) \in 0 .. depth
  BY DEF QueueInv, Locals, Capacity, Occupied, Filling
<1>3. w = Wrap(r + Len(fifo)) /\ write_cursor = At(w, 0) /\ read_cursor = At(r, 0)
  BY <1>1 DEF Cells, Contents, Front
<1>4. ASSUME fifo = <<>> PROVE queue_empty
  <2>1. Len(fifo) = 0
    BY <1>4
  <2>2. w = r
    BY <1>3, <2>1, WrapLaws
  <2> QED BY <1>3, <1>4, <2>2 DEF queue_empty, QueueInv, Flag
<1>5. ASSUME queue_empty PROVE fifo = <<>>
  <2>1. w = r
    BY <1>3, <1>5, PlacesDiffer DEF queue_empty
  <2>2. Len(fifo) = 0 \/ Len(fifo) = depth
    BY <1>2, <1>3, <2>1, WrapLaws
  <2>3. Len(fifo) # depth
    BY <1>5 DEF queue_empty, QueueInv, Flag
  <2> QED BY <1>2, <2>2, <2>3
<1> QED BY <1>4, <1>5

LEMMA ReceiveCheckStep ==
    ASSUME QueueInv, ReceiveCheck, producer.pc = "idle"
    PROVE  QueueInv'
<1> USE Sizes
<1>1. /\ consumer.pc = "check"
      /\ UNCHANGED <<write_cursor, read_cursor, content, empty, pending, spurious, refused, producer, fifo, burst>>
  BY DEF ReceiveCheck, history, queueVars
<1>2. pending \in Nat /\ fifo \in Seq(Items) /\ spurious \in Nat /\ refused \in Nat
  BY DEF QueueInv, Locals
<1>3. PICK w, r \in Places : Cells(w, r)
  BY DEF QueueInv, Layout
<1>4. ~Taken /\ Front(r) = r /\ read_cursor = At(r, 0) /\ read_cursor \in Cursors
  BY <1>1, <1>3, PlacesDiffer DEF Taken, Front, Cells
<1>5. queue_empty <=> fifo = <<>>
  BY <1>4, EmptyIsEmpty
<1>6. \/ queue_empty /\ consumer' = Idle /\ consumer'.pc = "idle"
      \/ /\ ~queue_empty
         /\ consumer' = [pc |-> "copy", cursor |-> read_cursor, q |-> 0, data |-> <<>>]
         /\ consumer'.pc = "copy" /\ consumer'.q = 0 /\ consumer'.cursor = read_cursor
         /\ consumer'.data = <<>>
  BY DEF ReceiveCheck, Idle
<1>7. Filling' = Filling /\ Taken' = FALSE /\ Occupied' = Occupied
  BY <1>1, <1>6 DEF Filling, Taken, Occupied
<1>8. Locals'
  <2>1. 0 \in Cursors /\ <<>> \in Seq(Items \cup {Nothing})
    BY DEF Cursors
  <2>2. consumer' \in [pc : Steps, cursor : Cursors, q : Nat, data : Seq(Items \cup {Nothing})]
    <3>1. Idle \in [pc : Steps, cursor : Cursors, q : Nat, data : Seq(Items \cup {Nothing})]
      BY <2>1 DEF Idle, Steps
    <3>2. [pc |-> "copy", cursor |-> read_cursor, q |-> 0, data |-> <<>>]
             \in [pc : Steps, cursor : Cursors, q : Nat, data : Seq(Items \cup {Nothing})]
      BY <1>4, <2>1 DEF Steps
    <3> QED BY <1>6, <3>1, <3>2
  <2> QED BY <1>1, <1>6, <2>2 DEF QueueInv, Locals
<1>9. Capacity' /\ Flag'
  <2>1. consumer'.pc \notin {"compare", "empty", "cursor"}
    BY <1>6
  <2>2. Capacity'
    BY <1>1, <1>7, <2>1 DEF QueueInv, Capacity
  <2>3. Flag'
    BY <1>1, <1>4, <1>7, <2>1 DEF QueueInv, Flag
  <2> QED BY <2>2, <2>3
<1>10. (Len(fifo) <= Notices + refused /\ Notices <= Len(fifo) + spurious)'
  <2>1. Notices = pending + 1 /\ Len(fifo) <= Notices + refused /\ Notices <= Len(fifo) + spurious
    BY <1>1, <1>2 DEF QueueInv, Notices
  <2>2. CASE queue_empty
    <3>1. Notices' = pending /\ Len(fifo) = 0
      BY <1>1, <1>2, <1>5, <1>6, <2>2 DEF Notices
    <3> QED BY <1>1, <1>2, <2>1, <3>1
  <2>3. CASE ~queue_empty
    <3>1. Notices' = pending + 1
      BY <1>1, <1>2, <1>6, <2>3 DEF Notices
    <3> QED BY <1>1, <2>1, <3>1
  <2> QED BY <2>2, <2>3
<1>11. Cells(w, r)'
  <2>1. Front(r)' = Front(r)
    BY <1>4, <1>7 DEF Front
  <2>2. SenderAt(w)' /\ Contents(w, Front(r))'
    BY <1>1, <1>3, <2>1 DEF Cells, SenderAt, Filling, Written, Contents
  <2>3. ReceiverAt(r)'
    <3>1. 0 \in 0 .. item_size - 1 /\ Len(<<>>) = 0 /\ 1 .. 0 = {}
      OBVIOUS
    <3>2. CASE queue_empty
      BY <1>6, <1>7, <3>2 DEF ReceiverAt
    <3>3. CASE ~queue_empty
      BY <1>1, <1>4, <1>5, <1>6, <1>7, <3>1, <3>3 DEF ReceiverAt
    <3> QED BY <3>2, <3>3
  <2> QED BY <1>1, <1>3, <1>4, <2>1, <2>2, <2>3 DEF Cells
<1>12. Layout'
  BY <1>11 DEF Layout
<1> QED BY <1>8, <1>9, <1>10, <1>12 DEF QueueInv

\* A byte of the oldest item; with the last one the item is the receiver's,
\* whole.
LEMMA ReceiveByteStep ==
    ASSUME QueueInv, ReceiveByte, producer.pc = "idle"
    PROVE  /\ QueueInv'
           /\ \/ UNCHANGED <<fifo, out>>
              \/ fifo # <<>> /\ out' = Head(fifo) /\ fifo' = Tail(fifo)
<1> USE Sizes
<1>1. PICK w, r \in Places : Cells(w, r)
  BY DEF QueueInv, Layout
<1> DEFINE n == Len(fifo)
           q == consumer.q
           c == content[consumer.cursor]
           data == Append(consumer.data, c)
<1>2. consumer.pc = "copy" /\ Taken = FALSE /\ Front(r) = r
  BY DEF ReceiveByte, Taken, Front
<1>3. /\ fifo # <<>> /\ q \in 0 .. item_size - 1 /\ consumer.cursor = At(r, q)
      /\ Len(consumer.data) = q /\ \A j \in 1 .. q : consumer.data[j] = fifo[1]
      /\ w = Wrap(r + n)
      /\ \A i \in 1 .. n : \A j \in 0 .. item_size - 1 : content[At(Wrap(r + i - 1), j)] = fifo[i]
      /\ write_cursor = At(w, 0) /\ read_cursor = At(r, 0)
  BY <1>1, <1>2 DEF Cells, ReceiverAt, Contents
<1>4. /\ consumer \in [pc : Steps, cursor : Cursors, q : Nat, data : Seq(Items \cup {Nothing})]
      /\ fifo \in Seq(Items) /\ pending \in Nat /\ spurious \in Nat /\ refused \in Nat
      /\ content \in [Cursors -> Items \cup {Nothing}]
  BY DEF QueueInv, Locals
<1>5. n \in Nat /\ n > 0 /\ n <= depth /\ Occupied = n
  BY <1>3, <1>4 DEF QueueInv, Capacity, Occupied, Filling
<1>6. c = fifo[1] /\ c \in Items
  <2>1. r + 1 - 1 = r /\ Wrap(r) = r /\ 1 \in 1 .. n
    BY <1>5, WrapLaws DEF Places
  <2> QED BY <1>3, <1>4, <2>1
<1>7. /\ data \in Seq(Items \cup {Nothing}) /\ Len(data) = q + 1
      /\ \A j \in 1 .. q + 1 : data[j] = fifo[1]
  BY <1>3, <1>4, <1>6
<1>8. UNCHANGED <<write_cursor, read_cursor, content, empty, pending, spurious, refused, producer, burst>>
  BY DEF ReceiveByte, queueVars
<1>9. /\ Advance(At(r, q)) = IF q + 1 < item_size THEN At(r, q + 1) ELSE At(Wrap(r + 1), 0)
      /\ Wrap(r + 1) \in Places
  BY <1>3, AdvanceMoves, WrapLaws
<1>10. CASE q + 1 # item_size
  <2>1. q + 1 < item_size /\ q + 1 \in 0 .. item_size - 1
    BY <1>3, <1>10
  <2>2. /\ consumer' = [pc |-> "copy", cursor |-> At(r, q + 1), q |-> q + 1, data |-> data]
        /\ consumer'.pc = "copy" /\ consumer'.cursor = At(r, q + 1) /\ consumer'.q = q + 1
        /\ consumer'.data = data /\ out' = out /\ fifo' = fifo
    BY <1>3, <1>9, <1>10, <2>1 DEF ReceiveByte
  <2> HIDE DEF n, q, c, data
  <2>3. Taken' = FALSE /\ Occupied' = Occupied /\ Notices' = Notices
    BY <1>2, <1>8, <2>2 DEF Taken, Occupied, Filling, Notices
  <2>4. Locals'
    <3>1. At(r, q + 1) \in Cursors
      BY <2>1, BytesInRing
    <3>2. consumer' \in [pc : Steps, cursor : Cursors, q : Nat, data : Seq(Items \cup {Nothing})]
      BY <1>7, <2>1, <2>2, <3>1 DEF Steps
    <3> QED BY <1>8, <2>2, <3>2 DEF QueueInv, Locals
  <2>5. Capacity' /\ Flag'
    <3>1. Capacity'
      BY <1>8, <2>2, <2>3 DEF QueueInv, Capacity
    <3>2. Flag'
      BY <1>2, <1>8, <2>2, <2>3 DEF QueueInv, Flag
    <3> QED BY <3>1, <3>2
  <2>6. Cells(w, r)'
    <3>1. Front(r)' = r
      BY <2>3 DEF Front
    <3>2. SenderAt(w)' /\ Contents(w, r)'
      BY <1>1, <1>2, <1>8, <2>2 DEF Cells, SenderAt, Filling, Written, Contents
    <3>3. ReceiverAt(r)'
      BY <1>3, <1>7, <2>1, <2>2, <2>3 DEF ReceiverAt
    <3> QED BY <1>3, <1>8, <3>1, <3>2, <3>3 DEF Cells
  <2>7. Layout'
    BY <2>6 DEF Layout
  <2> QED BY <1>8, <2>2, <2>3, <2>4, <2>5, <2>7 DEF QueueInv
<1>11. CASE q + 1 = item_size
  <2>1. /\ consumer' = [pc |-> "compare", cursor |-> At(Wrap(r + 1), 0), q |-> q + 1, data |-> data]
        /\ consumer'.pc = "compare" /\ consumer'.cursor = At(Wrap(r + 1), 0)
        /\ out' = Item(data) /\ fifo' = Tail(fifo)
    <3>1. Advance(consumer.cursor) = At(Wrap(r + 1), 0)
      BY <1>3, <1>9, <1>11
    <3>2. fifo # <<>>
      BY <1>3
    <3> QED BY <1>11, <3>1, <3>2 DEF ReceiveByte
  <2>2. Item(data) = Head(fifo)
    <3>1. DOMAIN data = 1 .. q + 1 /\ 1 \in 1 .. q + 1 /\ Head(fifo) = fifo[1]
      BY <1>3, <1>4, <1>7, <1>11
    <3> HIDE DEF data
    <3> QED BY <1>7, <3>1 DEF Item
  <2>3. /\ fifo' \in Seq(Items) /\ Len(fifo') = n - 1
        /\ \A i \in 1 .. n - 1 : fifo'[i] = fifo[i + 1]
    BY <1>3, <1>4, <1>5, <2>1
  <2> HIDE DEF n, q, c, data
  <2>4. Taken' = TRUE /\ Occupied' = n - 1 /\ Front(r)' = Wrap(r + 1)
    BY <1>5, <1>8, <2>1, <2>3 DEF Taken, Front, Occupied, Filling
  <2>5. Notices' = Notices - 1 /\ Notices \in Nat
    BY <1>2, <1>4, <1>8, <2>1 DEF Notices
  <2>6. (Len(fifo) <= Notices + refused /\ Notices <= Len(fifo) + spurious)'
    <3>1. n <= Notices + refused /\ Notices <= n + spurious
      BY DEF QueueInv, n
    <3> QED BY <1>4, <1>5, <1>8, <2>3, <2>5, <3>1
  <2>7. Locals'
    <3>1. At(Wrap(r + 1), 0) \in Cursors
      BY <1>9, PlacesDiffer
    <3>2. consumer' \in [pc : Steps, cursor : Cursors, q : Nat, data : Seq(Items \cup {Nothing})]
      BY <1>3, <1>7, <2>1, <3>1 DEF Steps
    <3> QED BY <1>8, <2>1, <2>3, <3>2 DEF QueueInv, Locals
  <2>8. Capacity'
    <3>1. burst' <= MaxBurst
      BY <1>8 DEF QueueInv, Capacity
    <3> QED BY <1>5, <2>1, <2>4, <3>1 DEF Capacity
  <2>9. Flag'
    <3>1. n = depth => empty = FALSE
      BY DEF QueueInv, Flag, Locals, n
    <3>2. empty' = empty
      BY <1>8
    <3>3. Len(fifo') # depth /\ (Len(fifo') = depth - 1 => empty' = FALSE)
      BY <1>5, <2>3, <3>1, <3>2
    <3>4. Taken' /\ consumer'.pc = "compare" /\ consumer'.pc # "cursor" /\ producer'.pc # "empty"
      <4>1. Taken'
        BY <2>1 DEF Taken
      <4> QED BY <1>8, <2>1, <4>1
    <3> QED BY <3>3, <3>4, Zenon DEF Flag
  <2>10. Cells(w, r)'
    <3>1. SenderAt(w)'
      BY <1>8 DEF SenderAt, Filling
    <3>2. ReceiverAt(Wrap(r + 1))'
      BY <2>1 DEF ReceiverAt
    <3>3. Contents(w, Wrap(r + 1))'
      <4>1. r \in Nat
        BY DEF Places
      <4>2. n - 1 \in 0 .. depth - 1 /\ r + (n - 1) + 1 = r + n
        BY <1>5, <4>1
      <4>3. w = Wrap(Wrap(r + 1) + (n - 1))
        BY <1>3, <4>2, WrapLaws
      <4>4. ASSUME NEW i \in 1 .. n - 1, NEW j \in 0 .. item_size - 1
            PROVE  content[At(Wrap(Wrap(r + 1) + i - 1), j)] = fifo'[i]
        <5>1. i - 1 \in 0 .. depth - 1 /\ r + (i - 1) + 1 = r + (i + 1) - 1 /\ i + 1 \in 1 .. n
          BY <1>5, <4>1
        <5>2. Wrap(r + 1) + (i - 1) = Wrap(r + 1) + i - 1
          BY <1>9 DEF Places
        <5>3. Wrap(Wrap(r + 1) + i - 1) = Wrap(r + (i + 1) - 1)
          BY <5>1, <5>2, WrapLaws
        <5>4. content[At(Wrap(r + (i + 1) - 1), j)] = fifo[i + 1]
          BY <1>3, <5>1 DEF n
        <5> QED BY <2>3, <5>3, <5>4
      <4> QED BY <1>8, <2>3, <4>3, <4>4 DEF Contents
    <3> QED BY <1>3, <1>8, <2>4, <3>1, <3>2, <3>3 DEF Cells
  <2>11. Layout'
    BY <2>10 DEF Layout
  <2> QED BY <1>3, <2>1, <2>2, <2>6, <2>7, <2>8, <2>9, <2>11 DEF QueueInv
<1> QED BY <1>10, <1>11

\* The receiver finds that the item was the last one if, and only if, it was.
LEMMA ReceiveCompareStep ==
    ASSUME QueueInv, ReceiveCompare, producer.pc = "idle"
    PROVE  QueueInv'
<1> USE Sizes
<1>1. /\ consumer.pc = "compare" /\ consumer' = [consumer EXCEPT !.pc = AfterCompare]
      /\ UNCHANGED <<write_cursor, read_cursor, content, empty, pending, spurious, refused, producer, fifo, burst>>
  BY DEF ReceiveCompare, history, queueVars
<1>2. /\ consumer \in [pc : Steps, cursor : Cursors, q : Nat, data : Seq(Items \cup {Nothing})]
      /\ fifo \in Seq(Items) /\ burst \in Nat /\ Len(fifo) \in Nat
  BY DEF QueueInv, Locals
<1>3. /\ consumer'.pc = AfterCompare /\ consumer'.cursor = consumer.cursor
      /\ AfterCompare \in {"empty", "cursor"}
      /\ consumer' \in [pc : Steps, cursor : Cursors, q : Nat, data : Seq(Items \cup {Nothing})]
  BY <1>1, <1>2 DEF AfterCompare, Steps
<1>4. /\ Taken /\ Taken' /\ Filling' = FALSE /\ Occupied' = Len(fifo) /\ Occupied = Len(fifo)
      /\ Notices' = Notices
  BY <1>1, <1>2, <1>3 DEF Taken, Filling, Occupied, Notices
<1>5. AfterCompare = "empty" <=> fifo = <<>>
  <2>1. PICK w, r \in Places : Cells(w, r)
    BY DEF QueueInv, Layout
  <2> DEFINE f == Front(r)
  <2>2. f \in Places /\ consumer.cursor = At(f, 0) /\ write_cursor = At(w, 0) /\ w = Wrap(f + Len(fifo))
    BY <1>4, <2>1, FrontIsPlace DEF Cells, ReceiverAt, Contents
  <2> HIDE DEF f
  <2>3. consumer.cursor = write_cursor <=> w = f
    BY <2>2, PlacesDiffer
  <2>4. Len(fifo) \in 0 .. depth - 1 /\ 0 \in 0 .. depth - 1
    BY <1>1, <1>2, <1>4 DEF QueueInv, Capacity
  <2>5. w = f <=> Len(fifo) = 0
    BY <2>2, <2>4, WrapLaws
  <2>6. Len(fifo) = 0 <=> fifo = <<>>
    BY <1>2
  <2> QED BY <2>3, <2>5, <2>6 DEF AfterCompare
<1>6. Layout'
  BY <1>1, <1>3, <1>4, LayoutStands DEF QueueInv
<1>7. Locals'
  BY <1>1, <1>3 DEF QueueInv, Locals
<1>8. Capacity'
  <2>1. Len(fifo) < depth /\ burst' <= MaxBurst
    BY <1>1, <1>4 DEF QueueInv, Capacity
  <2>2. consumer'.pc = "empty" => Len(fifo) <= burst'
    BY <1>1, <1>2, <1>3, <1>5
  <2> QED BY <1>1, <1>2, <1>3, <1>4, <2>1, <2>2 DEF Capacity
<1>9. Flag'
  <2>1. Len(fifo) # depth /\ (Len(fifo) = depth - 1 => ~empty)
    BY <1>1, <1>2, <1>4 DEF QueueInv, Capacity, Flag
  <2>2. consumer'.pc = "cursor" => fifo # <<>>
    BY <1>3, <1>5
  <2> QED BY <1>1, <1>4, <2>1, <2>2, Zenon DEF Flag
<1> QED BY <1>1, <1>4, <1>6, <1>7, <1>8, <1>9 DEF QueueInv

LEMMA ReceiveFlagStep ==
    ASSUME QueueInv, ReceiveFlag, producer.pc = "idle"
    PROVE  QueueInv'
<1>1. /\ consumer.pc = "empty" /\ consumer' = [consumer EXCEPT !.pc = "cursor"] /\ empty' = TRUE
      /\ UNCHANGED <<write_cursor, read_cursor, content, pending, spurious, refused, producer, fifo, burst>>
  BY DEF ReceiveFlag, history
<1>2. /\ consumer \in [pc : Steps, cursor : Cursors, q : Nat, data : Seq(Items \cup {Nothing})]
      /\ fifo \in Seq(Items) /\ burst \in Nat /\ Len(fifo) \in Nat
  BY DEF QueueInv, Locals
<1>3. /\ consumer'.pc = "cursor" /\ consumer'.cursor = consumer.cursor
      /\ consumer' \in [pc : Steps, cursor : Cursors, q : Nat, data : Seq(Items \cup {Nothing})]
  BY <1>1, <1>2 DEF Steps
<1>4. /\ Taken /\ Taken' /\ Filling' = FALSE /\ Occupied' = Len(fifo) /\ Occupied = Len(fifo)
      /\ Notices' = Notices
  BY <1>1, <1>2, <1>3 DEF Taken, Filling, Occupied, Notices
<1>5. Layout'
  BY <1>1, <1>3, <1>4, LayoutStands DEF QueueInv
<1>6. Locals'
  BY <1>1, <1>3 DEF QueueInv, Locals
<1>7. Len(fifo) < depth /\ Len(fifo) <= burst /\ burst <= MaxBurst
  BY <1>1, <1>4 DEF QueueInv, Capacity
<1>8. Capacity'
  BY <1>1, <1>3, <1>4, <1>7, Sizes DEF Capacity
<1>9. Flag'
  <2>1. Len(fifo') # depth /\ Occupied' <= burst'
    BY <1>1, <1>2, <1>4, <1>7, Sizes
  <2>2. consumer'.pc \notin {"compare", "empty"} /\ producer'.pc # "empty"
    BY <1>1, <1>3
  <2> QED BY <1>1, <2>1, <2>2, Zenon DEF Flag
<1> QED BY <1>1, <1>4, <1>5, <1>6, <1>8, <1>9 DEF QueueInv

\* read_cursor leaves the place of the item.
LEMMA ReceiveCursorStep ==
    ASSUME QueueInv, ReceiveCursor, producer.pc = "idle"
    PROVE  QueueInv'
<1> USE Sizes
<1>1. /\ consumer.pc = "cursor" /\ consumer' = Idle /\ consumer'.pc = "idle" /\ burst' = 0
      /\ read_cursor' = consumer.cursor
      /\ UNCHANGED <<write_cursor, empty, content, pending, spurious, refused, producer, fifo>>
  BY DEF ReceiveCursor, history, Idle
<1>2. fifo \in Seq(Items) /\ burst \in Nat /\ Len(fifo) \in Nat /\ MaxBurst \in Nat
  BY QueueAssumption DEF QueueInv, Locals
<1>3. /\ Taken /\ Taken' = FALSE /\ Filling' = FALSE /\ Occupied' = Len(fifo) /\ Occupied = Len(fifo)
      /\ Notices' = Notices
  BY <1>1, <1>2 DEF Taken, Filling, Occupied, Notices
<1>4. Locals'
  <2>1. 0 \in Cursors /\ <<>> \in Seq(Items \cup {Nothing})
    BY DEF Cursors
  <2>2. Idle \in [pc : Steps, cursor : Cursors, q : Nat, data : Seq(Items \cup {Nothing})]
    BY <2>1 DEF Idle, Steps
  <2> QED BY <1>1, <2>2 DEF QueueInv, Locals
<1>5. Capacity'
  BY <1>1, <1>2, <1>3 DEF QueueInv, Capacity
<1>6. Flag'
  <2>1. fifo = <<>> => empty
    BY <1>1 DEF QueueInv, Flag
  <2>2. Len(fifo) = depth => ~empty
    BY DEF QueueInv, Flag
  <2> QED BY <1>1, <2>1, <2>2 DEF Flag
<1>7. Layout'
  <2>1. PICK w, r \in Places : Cells(w, r)
    BY DEF QueueInv, Layout
  <2>2. Front(r) = Wrap(r + 1) /\ Wrap(r + 1) \in Places
    BY <1>3, WrapLaws DEF Front
  <2>3. Front(Wrap(r + 1))' = Wrap(r + 1)
    BY <1>3 DEF Front
  <2>4. read_cursor' = At(Wrap(r + 1), 0)
    BY <1>1, <1>3, <2>1, <2>2 DEF Cells, ReceiverAt
  <2>5. SenderAt(w)'
    BY <1>1 DEF SenderAt, Filling
  <2>6. ReceiverAt(Wrap(r + 1))'
    BY <1>1, <1>3 DEF ReceiverAt
  <2>7. Contents(w, Wrap(r + 1))'
    BY <1>1, <2>1, <2>2 DEF Cells, Contents
  <2>8. Cells(w, Wrap(r + 1))'
    BY <1>1, <2>1, <2>3, <2>4, <2>5, <2>6, <2>7 DEF Cells
  <2> QED BY <2>2, <2>8 DEF Layout
<1> QED BY <1>1, <1>3, <1>4, <1>5, <1>6, <1>7 DEF QueueInv

\* The sender is not interrupted by the receiver.
LEMMA NextKeepsQueue ==
    ASSUME ISR = TRUE, MaxBurst <= depth, QueueInv, [Next]_vars
    PROVE  QueueInv'
<1>1. CASE Produce
  <2>1. ASSUME NEW v \in Items, queue_send(v) PROVE QueueInv'
    BY <2>1, SendBegins
  <2> QED BY <1>1, <2>1, SendByteStep, SendCursorStep, SendFlagStep, SendNotifyStep, SendRefusedStep DEF Produce
<1>2. CASE Spurious
  BY <1>2, SpuriousStep
<1>3. CASE Consume
  <2>1. producer.pc = "idle"
    BY <1>3 DEF Consume, ConsumerMayRun
  <2> QED BY <1>3, <2>1, ReceiveWaits, ReceiveCheckStep, ReceiveByteStep, ReceiveCompareStep,
             ReceiveFlagStep, ReceiveCursorStep DEF Consume
<1>4. CASE UNCHANGED vars
  <2>1. UNCHANGED <<write_cursor, read_cursor, empty, content, pending, spurious, refused, producer, consumer, burst, fifo>>
    BY <1>4 DEF vars, queueVars, history
  <2>2. Filling' = Filling /\ Taken' = Taken /\ Occupied' = Occupied /\ Notices' = Notices
    BY <2>1 DEF Filling, Taken, Occupied, Notices
  <2>3. Layout'
    BY <2>1, LayoutStands DEF QueueInv
  <2>4. Locals' /\ Capacity' /\ Flag'
    BY <2>1, <2>2 DEF QueueInv, Locals, Capacity, Flag
  <2> QED BY <2>1, <2>2, <2>3, <2>4 DEF QueueInv
<1> QED BY <1>1, <1>2, <1>3, <1>4 DEF Next

\* With an interrupt handler that sends no more items within one receive than
\* the ring holds, the inductive invariant holds in every state.
THEOREM QueueIsSound ==
    ASSUME ISR = TRUE, MaxBurst <= depth
    PROVE  Spec => []QueueInv
<1>1. QueueInv /\ [Next]_vars => QueueInv'
  BY NextKeepsQueue
<1> QED BY <1>1, InitQueue, PTL DEF Spec

------------------------------------------------------------------------------
(***************************************************************************)
(* The promises of the queue.                                              *)
(***************************************************************************)

\* The receiver never waits beside an item it was not notified of, but for one the
\* kernel refused to announce, if a handler sends no more items within one receive
\* than the ring holds.
THEOREM NothingIsStranded ==
    ASSUME ISR = TRUE, MaxBurst <= depth
    PROVE  Spec => []NoStrandedItem
<1>1. QueueInv => NoStrandedItem
  <2> SUFFICES ASSUME QueueInv, producer.pc = "idle", consumer.pc = "wait"
               PROVE  Len(fifo) <= pending + refused
    BY DEF NoStrandedItem
  <2>1. pending \in Nat /\ refused \in Nat /\ Len(fifo) <= Notices + refused
    BY DEF QueueInv, Locals
  <2>2. Notices = pending
    BY <2>1 DEF Notices
  <2> QED BY <2>1, <2>2
<1> QED BY <1>1, QueueIsSound, PTL

\* The cursors stay in the ring and on the boundaries of items, and while nobody
\* is at work a full queue has depth items and an empty one none: queue_full and
\* queue_empty tell the two apart although the cursors are equal in both.
THEOREM FullAndEmptyDiffer ==
    ASSUME ISR = TRUE, MaxBurst <= depth
    PROVE  Spec => []FlagTellsFullFromEmpty
<1>1. QueueInv => FlagTellsFullFromEmpty
  <2> SUFFICES ASSUME QueueInv PROVE FlagTellsFullFromEmpty
    OBVIOUS
  <2> USE Sizes
  <2>1. PICK w, r \in Places : Cells(w, r)
    BY DEF QueueInv, Layout
  <2>2. write_cursor = At(w, 0) /\ read_cursor = At(r, 0) /\ w = Wrap(Front(r) + Len(fifo))
    BY <2>1 DEF Cells, Contents
  <2>3. /\ fifo \in Seq(Items) /\ pending \in Nat /\ spurious \in Nat /\ refused \in Nat /\ empty \in BOOLEAN
        /\ Len(fifo) \in Nat
        /\ producer \in [pc : Steps, cursor : Cursors, q : Nat, data : Seq(Items)]
        /\ consumer \in [pc : Steps, cursor : Cursors, q : Nat, data : Seq(Items \cup {Nothing})]
        /\ content \in [Cursors -> Items \cup {Nothing}]
    BY DEF QueueInv, Locals
  <2>4. Len(fifo) <= depth
    BY <2>3 DEF QueueInv, Capacity, Occupied
  <2>5. TypeOK
    <3>1. ASSUME NEW p \in Places PROVE At(p, 0) \in Cursors /\ At(p, 0) % item_size = 0
      <4>1. p \in Nat /\ At(p, 0) = p * item_size
        <5>1. \A a, b \in Nat : a * b + 0 = a * b
          OBVIOUS
        <5> QED BY <5>1 DEF At, Places
      <4>2. \A a, b \in Nat : b > 0 => (a * b) % b = 0
        OBVIOUS
      <4> QED BY <4>1, <4>2, PlacesDiffer
    <3>2. pending <= Notices /\ Notices <= Len(fifo) + spurious
      BY <2>3 DEF QueueInv, Notices
    <3>3. pending \in 0 .. depth + spurious
      <4>1. Notices \in Nat
        BY <2>3 DEF Notices
      <4> QED BY <2>3, <2>4, <3>2, <4>1
    <3> QED BY <2>2, <2>3, <3>1, <3>3 DEF TypeOK
  <2>6. ASSUME producer.pc = "idle", consumer.pc \in {"idle", "wait", "check"}
        PROVE  (queue_full => Len(fifo) = depth) /\ (queue_empty => fifo = <<>>)
    <3>1. ~Taken /\ Front(r) = r
      BY <2>6 DEF Taken, Front
    <3>2. queue_empty <=> fifo = <<>>
      BY <2>6, <3>1, EmptyIsEmpty
    <3>3. ASSUME queue_full PROVE Len(fifo) = depth
      <4>1. w = r
        BY <2>2, <3>3, PlacesDiffer DEF queue_full
      <4>2. Len(fifo) \in 0 .. depth
        BY <2>3, <2>4
      <4>3. Len(fifo) = 0 \/ Len(fifo) = depth
        BY <2>2, <3>1, <4>1, <4>2, WrapLaws
      <4>4. Len(fifo) # 0
        BY <2>3, <3>2, <3>3 DEF queue_full, queue_empty
      <4> QED BY <4>3, <4>4
    <3> QED BY <3>2, <3>3
  <2> QED BY <2>5, <2>6 DEF FlagTellsFullFromEmpty
<1> QED BY <1>1, QueueIsSound, PTL

\* The ring of bytes, with its two cursors and its flag updated one by one,
\* implements a first-in first-out queue of at most depth items.
THEOREM RingImplementsFifo ==
    ASSUME ISR = TRUE, MaxBurst <= depth
    PROVE  Spec => ImplementsFifo
<1>1. Init => Ring!Init
  BY QueueAssumption DEF Init, Ring!Init
<1>2. QueueInv /\ [Next]_vars => [Ring!Next]_<<fifo, out>>
  <2> SUFFICES ASSUME QueueInv, [Next]_vars PROVE [Ring!Next]_<<fifo, out>>
    OBVIOUS
  <2>1. ASSUME SendCursor PROVE Ring!Send
    <3>1. Len(fifo) < depth /\ producer.data[1] \in Items
      BY <2>1, SendCursorStep
    <3>2. fifo' = Append(fifo, producer.data[1]) /\ out' = out
      BY <2>1 DEF SendCursor
    <3> QED BY <3>1, <3>2 DEF Ring!Send
  <2>2. ASSUME Consume, ReceiveByte PROVE [Ring!Next]_<<fifo, out>>
    <3>1. producer.pc = "idle"
      BY <2>2 DEF Consume, ConsumerMayRun
    <3>2. \/ UNCHANGED <<fifo, out>>
          \/ fifo # <<>> /\ out' = Head(fifo) /\ fifo' = Tail(fifo)
      BY <2>2, <3>1, ReceiveByteStep
    <3> QED BY <3>2 DEF Ring!Next, Ring!Receive
  <2>3. CASE Produce
    <3>1. ASSUME \/ \E v \in Items : queue_send(v)
                 \/ SendByte \/ SendFlag \/ SendNotify \/ SendRefused
          PROVE  UNCHANGED <<fifo, out>>
      BY <3>1 DEF queue_send, SendByte, SendFlag, SendNotify, SendRefused, history
    <3> QED BY <2>1, <2>3, <3>1 DEF Produce, Ring!Next
  <2>4. CASE Spurious
    BY <2>4 DEF Spurious, history
  <2>5. CASE Consume
    <3>1. ASSUME \/ queue_receive_timeout \/ ReceiveNotified \/ ReceiveTimeout \/ ReceiveCheck
                 \/ ReceiveCompare \/ ReceiveFlag \/ ReceiveCursor
          PROVE  UNCHANGED <<fifo, out>>
      BY <3>1 DEF queue_receive_timeout, ReceiveNotified, ReceiveTimeout, ReceiveCheck,
                  ReceiveCompare, ReceiveFlag, ReceiveCursor, history
    <3> QED BY <2>2, <2>5, <3>1 DEF Consume
  <2>6. CASE UNCHANGED vars
    BY <2>6 DEF vars, history
  <2> QED BY <2>3, <2>4, <2>5, <2>6 DEF Next
<1> QED BY <1>1, <1>2, QueueIsSound, PTL DEF Spec, ImplementsFifo, Ring!Spec
==============================================================================
