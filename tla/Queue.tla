------------------------------- MODULE Queue -------------------------------
(***************************************************************************)
(* The queue library (src/extra/queue_server/queue.c): a ring of bytes     *)
(* between one producer and one consumer, with the notifications that tell *)
(* the consumer of new items.                                              *)
(*                                                                         *)
(* Each access to a field the two share is a step.  The producer is a      *)
(* thread, which may be preempted between any two steps, or an interrupt   *)
(* handler, which runs to its end.  The consumer is a thread.              *)
(***************************************************************************)
EXTENDS Integers, Sequences

CONSTANTS
    depth, item_size,   \* arguments of queue_init
    Items,              \* values of an item; every byte of it has that value
    Nothing,            \* no item, no byte
    ISR,                \* TRUE: queue_send_silent and isr_notify_object in a handler
    MaxBurst,           \* sends that may begin within one receive
    MaxSpurious,        \* bound: notifications that do not come with an item
    MaxRefused          \* bound: notifications the kernel has no room for

size_limit == depth * item_size
Cursors == 0 .. size_limit - 1

ASSUME QueueAssumption ==
    /\ depth \in 1 .. 255 /\ item_size \in 1 .. 255
    /\ size_limit <= 65535
    /\ Nothing \notin Items
    /\ ISR \in BOOLEAN /\ MaxBurst \in Nat /\ MaxSpurious \in Nat /\ MaxRefused \in Nat

VARIABLES
    write_cursor, read_cursor, empty, content,  \* struct Queue
    pending,        \* notifications of the queue the kernel keeps
    spurious,       \* how many of them came without an item so far
    refused,        \* how many items it refused to announce so far
    producer,       \* step and locals of the sender
    consumer,       \* step and locals of the receiver
    burst,          \* sends since the receiver found an item
    fifo,           \* history: items published and not yet taken
    out             \* history: the item the last successful receive returned

queueVars == <<write_cursor, read_cursor, empty, content>>
history == <<fifo, out>>
vars == <<queueVars, pending, spurious, refused, producer, consumer, burst, history>>

Idle == [pc |-> "idle", cursor |-> 0, q |-> 0, data |-> <<>>]

\* queue_init, before anybody uses the queue.  It leaves the content alone.
queue_init ==
    /\ write_cursor = 0
    /\ read_cursor = 0
    /\ empty = TRUE
    /\ content = [c \in Cursors |-> Nothing]

Init ==
    /\ queue_init
    /\ pending = 0
    /\ spurious = 0 /\ refused = 0
    /\ producer = Idle
    /\ consumer = Idle
    /\ burst = 0
    /\ fifo = <<>>
    /\ out = Nothing

queue_empty == write_cursor = read_cursor /\ empty

\* Mutant: full only if nothing was read yet.
FullUnread == write_cursor = read_cursor /\ ~empty /\ out = Nothing

queue_full == write_cursor = read_cursor /\ ~empty

Advance(cursor) == (cursor + 1) % size_limit

\* A thread may be in the middle of a call while the other one runs; a handler
\* may not.
ConsumerMayRun == ISR => producer.pc = "idle"

\* The receiver has found an item and not yet moved its cursor.
Receiving == consumer.pc \in {"copy", "compare", "empty", "cursor"}

------------------------------------------------------------------------------
(***************************************************************************)
(* queue_send, and queue_send_silent followed by a notification            *)
(***************************************************************************)

\* A full queue refuses the item.
queue_send(v) ==
    /\ producer.pc = "idle"
    /\ ~queue_full
    /\ IF Receiving THEN burst < MaxBurst /\ burst' = burst + 1 ELSE UNCHANGED burst
    /\ producer' = [pc |-> "copy", cursor |-> write_cursor, q |-> 0,
                    data |-> [q \in 1 .. item_size |-> v]]
    /\ UNCHANGED <<queueVars, pending, spurious, refused, consumer, history>>

SendByte ==
    /\ producer.pc = "copy"
    /\ content' = [content EXCEPT ![producer.cursor] = producer.data[producer.q + 1]]
    /\ producer' = [producer EXCEPT !.cursor = Advance(@), !.q = @ + 1,
                                    !.pc = IF producer.q + 1 < item_size THEN @ ELSE "cursor"]
    /\ UNCHANGED <<write_cursor, read_cursor, empty, pending, spurious, refused, consumer, history, burst>>

SendCursor ==
    /\ producer.pc = "cursor"
    /\ write_cursor' = producer.cursor
    /\ producer' = [producer EXCEPT !.pc = "empty"]
    /\ fifo' = Append(fifo, producer.data[1])
    /\ UNCHANGED <<read_cursor, empty, content, pending, spurious, refused, consumer, out, burst>>

\* Mutant: the flag stays as it is.
SendKeepsFlag == UNCHANGED empty

SendClears == empty' = FALSE

SendFlag ==
    /\ producer.pc = "empty"
    /\ SendClears
    /\ producer' = [producer EXCEPT !.pc = "notify"]
    /\ UNCHANGED <<write_cursor, read_cursor, content, pending, spurious, refused, consumer, history, burst>>

\* Mutant: only the first item is announced.
SendNotifiesOnce ==
    /\ producer.pc = "notify"
    /\ pending' = 1
    /\ producer' = Idle
    /\ UNCHANGED <<queueVars, spurious, refused, consumer, history, burst>>

\* notify_object wakes the receiver or is kept for its next wait.
SendNotify ==
    /\ producer.pc = "notify"
    /\ pending' = pending + 1
    /\ producer' = Idle
    /\ UNCHANGED <<queueVars, spurious, refused, consumer, history, burst>>

\* notify_object finds the kernel's table of notifications full of those of other
\* objects (E_OUT_OF_NOTIFICATIONS).  queue_send does not look at what it returns.
SendRefused ==
    /\ producer.pc = "notify"
    /\ refused < MaxRefused
    /\ refused' = refused + 1
    /\ producer' = Idle
    /\ UNCHANGED <<queueVars, pending, spurious, consumer, history, burst>>

\* Somebody else notifies the address of the queue, or a notification is left
\* from an earlier use of it.
Spurious ==
    /\ spurious < MaxSpurious
    /\ ConsumerMayRun
    /\ spurious' = spurious + 1
    /\ pending' = pending + 1
    /\ UNCHANGED <<queueVars, refused, producer, consumer, history, burst>>

------------------------------------------------------------------------------
(***************************************************************************)
(* queue_receive_timeout                                                   *)
(***************************************************************************)

queue_receive_timeout ==
    /\ consumer.pc = "idle"
    /\ consumer' = [consumer EXCEPT !.pc = "wait"]
    /\ UNCHANGED <<queueVars, pending, spurious, refused, producer, history, burst>>

\* wait_for_object returns once there is a notification, which it consumes.
ReceiveNotified ==
    /\ consumer.pc = "wait"
    /\ pending > 0
    /\ pending' = pending - 1
    /\ consumer' = [consumer EXCEPT !.pc = "check"]
    /\ UNCHANGED <<queueVars, spurious, refused, producer, history, burst>>

\* E_TIMEOUT.
ReceiveTimeout ==
    /\ consumer.pc = "wait"
    /\ pending = 0
    /\ consumer' = Idle
    /\ UNCHANGED <<queueVars, pending, spurious, refused, producer, history, burst>>

ReceiveCheck ==
    /\ consumer.pc = "check"
    /\ consumer' = IF queue_empty THEN Idle
                   ELSE [pc |-> "copy", cursor |-> read_cursor, q |-> 0, data |-> <<>>]
    /\ UNCHANGED <<queueVars, pending, spurious, refused, producer, history, burst>>

\* The item as the receiver sees it: Nothing if its bytes are not of one item.
Item(data) ==
    IF \A q \in DOMAIN data : data[q] = data[1] THEN data[1] ELSE Nothing

\* The item is the receiver's once its last byte is copied.
ReceiveByte ==
    LET data == Append(consumer.data, content[consumer.cursor])
        last == consumer.q + 1 = item_size
    IN  /\ consumer.pc = "copy"
        /\ consumer' = [pc |-> IF last THEN "compare" ELSE "copy",
                        cursor |-> Advance(consumer.cursor), q |-> consumer.q + 1, data |-> data]
        /\ out' = IF last THEN Item(data) ELSE out
        /\ fifo' = IF last /\ fifo # <<>> THEN Tail(fifo) ELSE fifo
        /\ UNCHANGED <<queueVars, pending, spurious, refused, producer, burst>>

\* Mutant: the flag is never set.
NeverLast == "cursor"

\* The flag is set if the item was the last one.
AfterCompare == IF consumer.cursor = write_cursor THEN "empty" ELSE "cursor"

ReceiveCompare ==
    /\ consumer.pc = "compare"
    /\ consumer' = [consumer EXCEPT !.pc = AfterCompare]
    /\ UNCHANGED <<queueVars, pending, spurious, refused, producer, history, burst>>

ReceiveFlag ==
    /\ consumer.pc = "empty"
    /\ empty' = TRUE
    /\ consumer' = [consumer EXCEPT !.pc = "cursor"]
    /\ UNCHANGED <<write_cursor, read_cursor, content, pending, spurious, refused, producer, history, burst>>

ReceiveCursor ==
    /\ consumer.pc = "cursor"
    /\ read_cursor' = consumer.cursor
    /\ consumer' = Idle
    /\ burst' = 0
    /\ UNCHANGED <<write_cursor, empty, content, pending, spurious, refused, producer, history>>

Produce ==
    \/ \E v \in Items : queue_send(v)
    \/ SendByte \/ SendCursor \/ SendFlag \/ SendNotify \/ SendRefused

Consume ==
    /\ ConsumerMayRun
    /\ \/ queue_receive_timeout \/ ReceiveNotified \/ ReceiveTimeout \/ ReceiveCheck
       \/ ReceiveByte \/ ReceiveCompare \/ ReceiveFlag \/ ReceiveCursor

Next == Produce \/ Spurious \/ Consume

Spec == Init /\ [][Next]_vars

\* The receiver keeps receiving, and a send that was begun ends.
FairSpec ==
    /\ Spec
    /\ WF_vars(Consume)
    /\ WF_vars(SendByte \/ SendCursor \/ SendFlag \/ SendNotify \/ SendRefused)

------------------------------------------------------------------------------
(***************************************************************************)
(* Properties.                                                             *)
(***************************************************************************)

Steps == {"idle", "copy", "cursor", "empty", "notify", "wait", "check", "compare"}

\* Cursors stay in the ring, on a boundary of items while no copy is under way,
\* and the notifications are no more than the items and the spurious ones.
TypeOK ==
    /\ write_cursor \in Cursors /\ write_cursor % item_size = 0
    /\ read_cursor \in Cursors /\ read_cursor % item_size = 0
    /\ empty \in BOOLEAN
    /\ content \in [Cursors -> Items \cup {Nothing}]
    /\ pending \in 0 .. depth + spurious
    /\ producer.pc \in Steps /\ producer.cursor \in Cursors
    /\ consumer.pc \in Steps /\ consumer.cursor \in Cursors

Ring == INSTANCE Fifo WITH items <- fifo, Depth <- depth

\* The ring is a queue: however a send and a receive interleave, what is
\* received is the oldest item that was sent, whole, and once.
ImplementsFifo == Ring!Spec

\* "safe" (queue.h): while nobody is sending, every item in the queue has a
\* notification that makes the receiver fetch it, or is one the kernel refused to
\* announce: the receiver goes to sleep beside an item for no other reason.
NoStrandedItem ==
    producer.pc = "idle" /\ consumer.pc = "wait" => Len(fifo) <= pending + refused

\* The ring is well formed and full when it has depth items, and a receiver that
\* finds it empty finds no item: the flag and the cursors are read between their updates.
FlagTellsFullFromEmpty ==
    /\ TypeOK
    /\ producer.pc = "idle" /\ queue_full /\ consumer.pc \in {"idle", "wait", "check"}
          => Len(fifo) = depth
    /\ producer.pc = "idle" /\ queue_empty /\ consumer.pc \in {"idle", "wait", "check"}
          => fifo = <<>>

\* An item that was sent is received ("If queue is empty then this call will block
\* until queue is filled with at least one entry of data", queue.h), unless the
\* kernel has refused to announce one.
Delivered == \A v \in Items : (fifo # <<>> /\ Head(fifo) = v) ~> (out = v \/ refused > 0)

------------------------------------------------------------------------------
(***************************************************************************)
(* The inductive invariant behind the theorems of QueueProofs, for a       *)
(* producer that is an interrupt handler.                                  *)
(***************************************************************************)

\* Byte j of the w-th item of the ring, and the place behind the last item.
Places == 0 .. depth - 1
At(w, j) == w * item_size + j
Wrap(x) == IF x >= depth THEN x - depth ELSE x

\* The receiver has its item and has not moved read_cursor yet.
Taken == consumer.pc \in {"compare", "empty", "cursor"}

\* Items in the ring, with the one that is being copied into it.
Filling == producer.pc \in {"copy", "cursor"}
Occupied == Len(fifo) + (IF Filling THEN 1 ELSE 0)

\* Notifications, with the one an item is still owed and the one the receiver
\* has consumed for the item it is about to take.
Notices == pending + (IF producer.pc \in {"empty", "notify"} THEN 1 ELSE 0)
                   + (IF consumer.pc \in {"check", "copy"} THEN 1 ELSE 0)

Locals ==
    /\ producer.pc \in {"idle", "copy", "cursor", "empty", "notify"}
    /\ consumer.pc \in {"idle", "wait", "check", "copy", "compare", "empty", "cursor"}
    /\ producer \in [pc : Steps, cursor : Cursors, q : Nat, data : Seq(Items)]
    /\ consumer \in [pc : Steps, cursor : Cursors, q : Nat, data : Seq(Items \cup {Nothing})]
    /\ fifo \in Seq(Items)
    /\ content \in [Cursors -> Items \cup {Nothing}]
    /\ empty \in BOOLEAN
    /\ pending \in Nat /\ spurious \in Nat /\ refused \in Nat /\ burst \in Nat

\* The sender copies behind the last item.
Written == IF producer.pc = "copy" THEN producer.q ELSE item_size

SenderAt(w) ==
    /\ producer.pc = "copy" =>
          /\ producer.q \in 0 .. item_size - 1
          /\ producer.cursor = At(w, producer.q)
    /\ producer.pc = "cursor" => producer.cursor = At(Wrap(w + 1), 0)
    /\ Filling =>
          /\ Len(producer.data) = item_size
          /\ \A j \in 1 .. item_size : producer.data[j] = producer.data[1]
          /\ \A j \in 0 .. Written - 1 : content[At(w, j)] = producer.data[1]

\* The receiver copies the oldest item, which is at place f.
ReceiverAt(f) ==
    /\ consumer.pc = "copy" =>
          /\ fifo # <<>>
          /\ consumer.q \in 0 .. item_size - 1
          /\ consumer.cursor = At(f, consumer.q)
          /\ Len(consumer.data) = consumer.q
          /\ \A j \in 1 .. consumer.q : consumer.data[j] = fifo[1]
    /\ Taken => consumer.cursor = At(f, 0)

\* The items are in the ring one behind the other, from f to w.
Contents(w, f) ==
    /\ w = Wrap(f + Len(fifo))
    /\ \A i \in 1 .. Len(fifo) : \A j \in 0 .. item_size - 1 :
          content[At(Wrap(f + i - 1), j)] = fifo[i]

\* Where the cursors are: r is the place read_cursor names.
Front(r) == IF Taken THEN Wrap(r + 1) ELSE r

Cells(w, r) ==
    /\ write_cursor = At(w, 0) /\ read_cursor = At(r, 0)
    /\ SenderAt(w) /\ ReceiverAt(Front(r)) /\ Contents(w, Front(r))

Layout == \E w, r \in Places : Cells(w, r)

\* The place of an item is not reused before read_cursor has left it, but for
\* the last one: once the flag says empty the sender may fill the whole ring.
Capacity ==
    /\ Occupied <= depth
    /\ consumer.pc \in {"compare", "empty"} => Occupied < depth
    /\ consumer.pc = "cursor" => Occupied < depth \/ Occupied <= burst
    /\ consumer.pc = "empty" => Occupied <= burst
    /\ burst <= MaxBurst

\* What the flag says, but while the sender is about to clear it.
Flag ==
    /\ fifo = <<>> /\ (~Taken \/ consumer.pc = "cursor") => empty
    /\ producer.pc = "empty" => fifo # <<>>
    /\ producer.pc # "empty" =>
          /\ Len(fifo) = depth => ~empty
          /\ consumer.pc \in {"compare", "empty"} /\ Len(fifo) = depth - 1 => ~empty
          /\ consumer.pc = "cursor" /\ Len(fifo) = depth - 1 => ~empty \/ Occupied <= burst

QueueInv ==
    /\ Locals /\ Layout /\ Capacity /\ Flag
    /\ Len(fifo) <= Notices + refused /\ Notices <= Len(fifo) + spurious
==============================================================================
