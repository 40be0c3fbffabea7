---------------------------- MODULE PosixProofs ----------------------------
(***************************************************************************)
(* Theorems about the Linux port of module Posix, for any number of        *)
(* threads and any system calls; those about the tick and about blocking   *)
(* calls say what holds until the first interrupt.                         *)
(***************************************************************************)
EXTENDS Posix, SequenceTheorems, WellFoundedInduction, TLAPS

------------------------------------------------------------------------------
(***************************************************************************)
(* The functions a host is in.                                             *)
(***************************************************************************)

LEMMA FrontIs ==
    ASSUME NEW S, NEW f \in Seq(S), f # <<>>
    PROVE  /\ Front(f) \in Seq(S) /\ Len(Front(f)) = Len(f) - 1
           /\ \A i \in 1 .. Len(f) - 1 : Front(f)[i] = f[i]
<1> DEFINE n == Len(f) - 1
<1>1. n \in Nat /\ 1 \in Int /\ n \in Int /\ \A i \in 1 .. n : f[i] \in S
  OBVIOUS
<1> HIDE DEF n
<1>2. /\ SubSeq(f, 1, n) \in Seq(S)
      /\ Len(SubSeq(f, 1, n)) = IF 1 <= n THEN n - 1 + 1 ELSE 0
      /\ \A i \in 1 .. n - 1 + 1 : SubSeq(f, 1, n)[i] = f[1 + i - 1]
  BY <1>1, SubSeqProperties
<1>3. Len(SubSeq(f, 1, n)) = n /\ \A i \in 1 .. n : SubSeq(f, 1, n)[i] = f[i]
  BY <1>1, <1>2
<1> QED BY <1>2, <1>3 DEF Front, n

\* The functions of a host after a step inside the innermost one, and after a
\* signal was delivered.
Moved(f, at) == Front(f) \o <<[in |-> Last(f).in, at |-> at]>>
FirstStep(s) == IF s = "USR1" THEN "switch" ELSE "handle"
Interrupted(f, s) == Append(f, [in |-> s, at |-> FirstStep(s)])

GoesTo(f, at, g) ==
    /\ g \in Seq(Frames) /\ Nested(g) /\ g # <<>> /\ Len(g) = Len(f)
    /\ \A i \in 1 .. Len(f) - 1 : g[i] = f[i]
    /\ \A i \in 1 .. Len(f) : g[i].in = f[i].in
    /\ g[Len(f)] = [in |-> Last(f).in, at |-> at]
    /\ Last(g) = [in |-> Last(f).in, at |-> at]
    /\ Last(f).in \in {"start", "USR1"} => PositionIn(g) = at
    /\ Last(f).in \notin {"start", "USR1"} => PositionIn(g) = PositionIn(f)

EntersInto(f, s, g) ==
    /\ g \in Seq(Frames) /\ Nested(g) /\ g # <<>> /\ Len(g) = Len(f) + 1
    /\ \A i \in 1 .. Len(f) : g[i] = f[i]
    /\ g[1] = f[1] /\ g[Len(f) + 1] = [in |-> s, at |-> FirstStep(s)]
    /\ Last(g) = [in |-> s, at |-> FirstStep(s)] /\ Last(f).in # "USR1"
    /\ s = "USR1" => PositionIn(g) = "switch" /\ PositionIn(f) = "run"
    /\ s # "USR1" => PositionIn(g) = PositionIn(f)

\* A step inside a handler changes where the innermost function is.
LEMMA GotoFrames ==
    ASSUME NEW f \in Seq(Frames), f # <<>>, Nested(f),
           NEW at, at \in StepsOf[Last(f).in],
           NEW g, g = Moved(f, at)
    PROVE  GoesTo(f, at, g)
<1> DEFINE n == Len(f)
           x == [in |-> Last(f).in, at |-> at]
<1>1. n \in Nat \ {0} /\ Last(f) = f[n] /\ Front(f) = SubSeq(f, 1, n - 1)
  BY DEF Last, Front
<1>2. /\ Last(f).in \in Handlers \cup {"start", "user"} /\ Last(f) \in Frames
      /\ n = 1 <=> Last(f).in \in {"start", "user"}
  <2>1. n \in 1 .. n
    BY <1>1
  <2>2. f[n] \in Frames /\ (f[n].in \in {"start", "user"} <=> n = 1)
    BY <2>1 DEF Nested
  <2> QED BY <1>1, <2>2 DEF Frames
<1>3. at \in {"run", "called", "handle", "yield", "commit", "spawn", "served", "trigger",
              "clear", "switch", "resume", "suspend", "read", "resumed", "wait", "signal",
              "unblock"}
  BY <1>2 DEF StepsOf, Handlers
<1>4. x \in Frames /\ x.in = Last(f).in /\ x.at = at
  BY <1>2, <1>3 DEF Frames
<1> HIDE DEF x
<1>5. /\ g \in Seq(Frames) /\ Len(g) = n /\ g # <<>> /\ g[n] = x
      /\ \A i \in 1 .. n - 1 : g[i] = f[i]
  <2>1. Front(f) \in Seq(Frames) /\ Len(Front(f)) = n - 1
        /\ \A i \in 1 .. n - 1 : Front(f)[i] = f[i]
    BY FrontIs
  <2>2. g = Front(f) \o <<x>>
    BY DEF x, Moved
  <2> QED BY <1>1, <1>4, <2>1, <2>2
<1>6. \A i \in 1 .. n : g[i] \in Frames /\ g[i].in = f[i].in
  BY <1>1, <1>4, <1>5
<1>7. Nested(g)
  <2>1. ASSUME NEW i \in 1 .. n
        PROVE  /\ g[i].at \in StepsOf[g[i].in]
               /\ g[i].in \in {"start", "user"} <=> i = 1
               /\ g[i].in = "URG" => i = 2 /\ g[1] = [in |-> "user", at |-> "called"]
    <3>1. g[i].at \in StepsOf[g[i].in]
      BY <1>1, <1>4, <1>5, <1>6 DEF Nested
    <3>2. g[i].in \in {"start", "user"} <=> i = 1
      BY <1>6 DEF Nested
    <3>3. ASSUME g[i].in = "URG"
          PROVE  i = 2 /\ g[1] = [in |-> "user", at |-> "called"]
      <4>1. f[i].in = "URG"
        BY <1>6, <3>3
      <4>2. i = 2 /\ f[1] = [in |-> "user", at |-> "called"]
        BY <4>1 DEF Nested
      <4>3. 1 \in 1 .. n - 1
        BY <1>1, <4>2
      <4> QED BY <1>5, <4>2, <4>3
    <3> QED BY <3>1, <3>2, <3>3
  <2>2. ASSUME NEW i \in 1 .. n, NEW j \in 1 .. n, i < j
        PROVE  g[j].in \notin Masks[g[i].in]
    BY <1>6, <2>2 DEF Nested
  <2> QED BY <1>5, <1>6, <2>1, <2>2 DEF Nested
<1>8. Last(g) = x
  BY <1>5 DEF Last
<1>9. g[1].in = f[1].in
  BY <1>1, <1>6
<1>10. Last(f).in \in {"start", "USR1"} => PositionIn(g) = at
  <2>1. CASE Last(f).in = "start"
    BY <1>1, <1>2, <1>4, <1>5, <2>1 DEF PositionIn
  <2>2. CASE Last(f).in = "USR1"
    <3>1. n # 1 /\ n \in 1 .. n
      BY <1>1, <1>2, <2>2
    <3>2. f[1].in # "start"
      <4>1. "USR1" \notin Masks[f[1].in]
        BY <1>1, <2>2, <3>1 DEF Nested
      <4> QED BY <4>1 DEF Masks
    <3> QED BY <1>4, <1>5, <1>8, <1>9, <2>2, <3>2 DEF PositionIn
  <2> QED BY <2>1, <2>2
<1>11. Last(f).in \notin {"start", "USR1"} => PositionIn(g) = PositionIn(f)
  <2> SUFFICES ASSUME Last(f).in \notin {"start", "USR1"}
               PROVE  PositionIn(g) = PositionIn(f)
    OBVIOUS
  <2>1. CASE n = 1
    BY <1>1, <1>4, <1>5, <1>8, <2>1 DEF PositionIn
  <2>2. CASE n # 1
    <3>1. g[1] = f[1]
      BY <1>1, <1>5, <2>2
    <3> QED BY <1>4, <1>5, <1>8, <3>1 DEF PositionIn
  <2> QED BY <2>1, <2>2
<1> QED BY <1>5, <1>6, <1>7, <1>8, <1>10, <1>11 DEF x, GoesTo

\* A handler returns to what it interrupted, which is never SIGUSR1's.
LEMMA ReturnFrames ==
    ASSUME NEW f \in Seq(Frames), f # <<>>, Nested(f), Last(f).in \in Handlers,
           NEW g, g = Front(f)
    PROVE  /\ g \in Seq(Frames) /\ Nested(g) /\ g # <<>> /\ Len(g) = Len(f) - 1
           /\ \A i \in 1 .. Len(g) : g[i] = f[i]
           /\ Len(f) > 1 /\ g[1] = f[1] /\ Last(g) = f[Len(f) - 1] /\ Last(g).in # "USR1"
           /\ Last(f).in = "USR1" => PositionIn(g) = "run"
           /\ Last(f).in # "USR1" => PositionIn(g) = PositionIn(f)
<1> DEFINE n == Len(f)
<1>1. n \in Nat \ {0} /\ Last(f) = f[n] /\ Front(f) = SubSeq(f, 1, n - 1)
  BY DEF Last, Front
<1>2. n > 1
  BY <1>1 DEF Nested, Handlers
<1>3. /\ g \in Seq(Frames) /\ Len(g) = n - 1 /\ g # <<>>
      /\ \A i \in 1 .. n - 1 : g[i] = f[i]
  <2>1. g \in Seq(Frames) /\ Len(g) = n - 1 /\ \A i \in 1 .. n - 1 : g[i] = f[i]
    BY FrontIs
  <2>2. Len(g) # 0
    BY <1>1, <1>2, <2>1
  <2> QED BY <2>1, <2>2
<1>4. Nested(g)
  <2>1. ASSUME NEW i \in 1 .. n - 1
        PROVE  /\ g[i] \in Frames /\ g[i].at \in StepsOf[g[i].in]
               /\ g[i].in \in {"start", "user"} <=> i = 1
               /\ g[i].in = "URG" => i = 2 /\ g[1] = [in |-> "user", at |-> "called"]
    <3>1. i \in 1 .. n /\ 1 \in 1 .. n - 1
      BY <1>1, <1>2
    <3>2. g[i] = f[i] /\ g[1] = f[1]
      BY <1>3, <3>1
    <3> QED BY <3>1, <3>2 DEF Nested
  <2>2. ASSUME NEW i \in 1 .. n - 1, NEW j \in 1 .. n - 1, i < j
        PROVE  g[j].in \notin Masks[g[i].in]
    <3>1. i \in 1 .. n /\ j \in 1 .. n
      BY <1>1
    <3>2. g[i] = f[i] /\ g[j] = f[j]
      BY <1>3
    <3> QED BY <2>2, <3>1, <3>2 DEF Nested
  <2> QED BY <1>3, <2>1, <2>2 DEF Nested
<1>5. Last(g) = f[n - 1] /\ g[1] = f[1]
  BY <1>1, <1>2, <1>3 DEF Last
<1>6. Last(g).in # "USR1"
  <2>1. f[n].in \notin Masks[f[n - 1].in]
    BY <1>1, <1>2 DEF Nested
  <2> QED BY <1>1, <1>5, <2>1 DEF Masks, Handlers
<1>7. Last(f).in = "USR1" => PositionIn(g) = "run"
  <2>1. Last(f).in = "USR1" => f[1].in # "start"
    <3>1. f[n].in \notin Masks[f[1].in]
      BY <1>1, <1>2 DEF Nested
    <3> QED BY <1>1, <3>1 DEF Masks
  <2> QED BY <1>3, <1>5, <1>6, <2>1 DEF PositionIn
<1>8. Last(f).in # "USR1" => PositionIn(g) = PositionIn(f)
  BY <1>3, <1>5, <1>6 DEF PositionIn
<1> QED BY <1>2, <1>3, <1>4, <1>5, <1>6, <1>7, <1>8

\* A handler is entered above functions that do not block its signal.
LEMMA EnterFrames ==
    ASSUME NEW f \in Seq(Frames), f # <<>>, Nested(f),
           NEW s \in Handlers, \A i \in 1 .. Len(f) : s \notin Masks[f[i].in],
           s = "URG" => f = <<[in |-> "user", at |-> "called"]>>,
           NEW g, g = Interrupted(f, s)
    PROVE  EntersInto(f, s, g)
<1> DEFINE n == Len(f)
           x == [in |-> s, at |-> FirstStep(s)]
<1>1. n \in Nat \ {0} /\ Last(f) = f[n]
  BY DEF Last
<1>2. x \in Frames /\ x.in = s /\ x.at = FirstStep(s) /\ x.at \in StepsOf[x.in]
  BY DEF Frames, Handlers, StepsOf, FirstStep
<1> HIDE DEF x
<1>3. /\ g \in Seq(Frames) /\ Len(g) = n + 1 /\ g # <<>> /\ g[n + 1] = x
      /\ \A i \in 1 .. n : g[i] = f[i]
  <2>1. g = Append(f, x)
    BY DEF x, Interrupted
  <2> QED BY <1>1, <1>2, <2>1
<1>4. Last(g) = x /\ g[1] = f[1]
  BY <1>1, <1>3 DEF Last
<1>5. Nested(g)
  <2>1. ASSUME NEW i \in 1 .. n + 1
        PROVE  /\ g[i] \in Frames /\ g[i].at \in StepsOf[g[i].in]
               /\ g[i].in \in {"start", "user"} <=> i = 1
               /\ g[i].in = "URG" => i = 2 /\ g[1] = [in |-> "user", at |-> "called"]
    <3>1. CASE i = n + 1
      <4>1. s = "URG" => n = 1 /\ f[1] = [in |-> "user", at |-> "called"]
        OBVIOUS
      <4> QED BY <1>1, <1>2, <1>3, <1>4, <3>1, <4>1 DEF Handlers
    <3>2. CASE i # n + 1
      <4>1. i \in 1 .. n
        BY <1>1, <3>2
      <4> QED BY <1>1, <1>3, <1>4, <4>1 DEF Nested
    <3> QED BY <3>1, <3>2
  <2>2. ASSUME NEW i \in 1 .. n + 1, NEW j \in 1 .. n + 1, i < j
        PROVE  g[j].in \notin Masks[g[i].in]
    <3>1. i \in 1 .. n
      BY <1>1, <2>2
    <3>2. CASE j = n + 1
      BY <1>2, <1>3, <3>1, <3>2
    <3>3. CASE j # n + 1
      <4>1. j \in 1 .. n
        BY <1>1, <3>3
      <4> QED BY <1>3, <2>2, <3>1, <4>1 DEF Nested
    <3> QED BY <3>2, <3>3
  <2> QED BY <1>3, <2>1, <2>2 DEF Nested
<1>6. Last(f).in # "USR1"
  <2>1. s \notin Masks[f[n].in]
    BY <1>1
  <2> QED BY <1>1, <2>1 DEF Masks, Handlers
<1>7. s = "USR1" => f[1].in # "start"
  <2>1. s \notin Masks[f[1].in]
    BY <1>1
  <2> QED BY <2>1 DEF Masks
<1>8. s = "USR1" => PositionIn(g) = "switch" /\ PositionIn(f) = "run"
  BY <1>2, <1>3, <1>4, <1>6, <1>7 DEF PositionIn, FirstStep
<1>9. s # "USR1" => PositionIn(g) = PositionIn(f)
  BY <1>2, <1>3, <1>4, <1>6 DEF PositionIn
<1> QED BY <1>3, <1>4, <1>5, <1>6, <1>8, <1>9 DEF x, EntersInto

------------------------------------------------------------------------------
(***************************************************************************)
(* The search for the next thread.                                         *)
(***************************************************************************)

LEMMA LeastNumber ==
    ASSUME NEW S, S \subseteq Nat, S # {}
    PROVE  \E x \in S : \A y \in S : x <= y
<1> DEFINE Less == {ss \in Nat \X Nat : ss[1] < ss[2]}
<1>1. IsWellFoundedOn(Less, Nat)
  BY NatLessThanWellFounded, Zenon DEF OpToRel
<1> HIDE DEF Less
<1>2. PICK x \in S : \A y \in S : ~(<<y, x>> \in Less)
  BY <1>1, WFMin, Zenon
<1>3. ASSUME NEW y \in S PROVE x <= y
  <2>1. y \in Nat /\ x \in Nat
    OBVIOUS
  <2>2. y < x => <<y, x>> \in Less
    BY <2>1 DEF Less
  <2>3. ~(<<y, x>> \in Less)
    BY <1>2
  <2> QED BY <2>1, <2>2, <2>3
<1> QED BY <1>3

\* There is an idle thread.
LEMMA IdleIn == Idle \in Autostart /\ Idle \in Threads
<1> DEFINE D == {OS_THREADS - t : t \in Autostart}
<1>1. OS_THREADS \in Nat /\ Autostart # {} /\ \A t \in Autostart : t \in 0 .. OS_THREADS - 1
  BY PosixAssumption DEF Threads
<1>2. D \subseteq Nat /\ D # {}
  BY <1>1
<1> HIDE DEF D
<1>3. PICK d \in D : \A e \in D : d <= e
  BY <1>2, LeastNumber
<1>4. PICK t \in Autostart : d = OS_THREADS - t
  BY DEF D
<1>5. ASSUME NEW u \in Autostart PROVE u <= t
  <2>1. OS_THREADS - u \in D
    BY DEF D
  <2>2. OS_THREADS - t <= OS_THREADS - u
    BY <1>3, <1>4, <2>1
  <2> QED BY <1>1, <2>2
<1>6. Idle \in Autostart
  BY <1>5 DEF Idle
<1> QED BY <1>6, PosixAssumption

\* Nobody but the current thread is at distance zero from it.
LEMMA DistanceIs ==
    ASSUME thread_current \in Threads, NEW t \in Threads
    PROVE  Distance(t) \in Nat /\ (Distance(t) = 0 => t = thread_current)
<1> DEFINE n == OS_THREADS
           x == t + OS_THREADS - thread_current
<1>1. n \in Nat \ {0} /\ x \in Nat /\ x > 0 /\ x < 2 * n /\ t \in Nat /\ thread_current \in Nat
  BY PosixAssumption DEF Threads
<1> HIDE DEF x
<1>2. CASE x < n
  <2>1. x % n = x
    BY <1>1, <1>2
  <2> QED BY <1>1, <2>1 DEF Distance, x
<1>3. CASE n <= x
  <2>1. x % n = x - n
    BY <1>1, <1>3
  <2>2. x - n \in Nat /\ (x - n = 0 => t = thread_current)
    BY <1>1, <1>3 DEF x
  <2> QED BY <2>1, <2>2 DEF Distance, x
<1> QED BY <1>1, <1>2, <1>3

\* os_get_next_thread finds a thread that can run, provided there is one.
LEMMA NextCanRun ==
    ASSUME thread_current \in Threads, Runnable(state) # {}
    PROVE  os_get_next_thread \in Runnable(state)
<1> DEFINE R == Runnable(state)
<1>1. R \subseteq Threads /\ \A t \in R : Priority[t] \in Nat /\ Distance(t) \in Nat
  BY PosixAssumption, DistanceIs DEF Runnable
<1> HIDE DEF R
<1>2. PICK r \in R : \A u \in R : Priority[r] <= Priority[u]
  <2> DEFINE P == {Priority[t] : t \in R}
  <2>1. P \subseteq Nat /\ P # {}
    BY <1>1 DEF R
  <2> HIDE DEF P
  <2>2. PICK p \in P : \A q \in P : p <= q
    BY <2>1, LeastNumber
  <2> QED BY <2>2 DEF P
<1> DEFINE Best == {t \in R : Priority[t] = Priority[r]}
           Others == {t \in Best : Distance(t) # 0}
<1>3. ASSUME NEW t \in Best,
             \A u \in Best \ {t} : Distance(t) # 0 /\ (Distance(u) = 0 \/ Distance(t) <= Distance(u))
      PROVE  \A u \in R \ {t} : Precedes(t, u)
  <2> TAKE u \in R \ {t}
  <2>1. Priority[t] \in Nat /\ Priority[u] \in Nat /\ Priority[t] = Priority[r] /\ Priority[t] <= Priority[u]
    BY <1>1, <1>2
  <2>2. Priority[t] < Priority[u] \/ u \in Best \ {t}
    BY <1>1, <1>2, <2>1
  <2> QED BY <1>3, <2>1, <2>2 DEF Precedes
<1>4. \E t \in R : \A u \in R \ {t} : Precedes(t, u)
  <2>1. CASE Others = {}
    <3>1. \A u \in Best : u = r
      <4>1. \A u \in Best : Distance(u) = 0 /\ u \in Threads
        BY <1>1, <2>1
      <4> QED BY <1>2, <4>1, DistanceIs
    <3> QED BY <1>2, <1>3, <3>1
  <2>2. CASE Others # {}
    <3> DEFINE D == {Distance(t) : t \in Others}
    <3>1. D \subseteq Nat /\ D # {}
      BY <1>1, <2>2
    <3> HIDE DEF D
    <3>2. PICK d \in D : \A e \in D : d <= e
      BY <3>1, LeastNumber
    <3>3. PICK t \in Others : d = Distance(t)
      BY DEF D
    <3>4. \A u \in Others : Distance(t) <= Distance(u)
      BY <3>2, <3>3 DEF D
    <3>5. \A u \in R \ {t} : Precedes(t, u)
      BY <1>3, <3>4
    <3> QED BY <3>3, <3>5
  <2> QED BY <2>1, <2>2
<1> QED BY <1>4 DEF os_get_next_thread, R

------------------------------------------------------------------------------
(***************************************************************************)
(* What the steps of a host do to its functions.                           *)
(***************************************************************************)

LEMMA Goes ==
    ASSUME Values, NEW t \in Threads, frames[t] # <<>>,
           NEW at, at \in StepsOf[Last(frames[t]).in], frames' = GotoAt(t, at)
    PROVE  /\ frames' \in [Threads -> Seq(Frames)] /\ \A u \in Threads : Nested(frames'[u])
           /\ \A u \in Threads \ {t} : frames'[u] = frames[u]
           /\ frames'[t] # <<>> /\ Len(frames'[t]) = Len(frames[t])
           /\ \A i \in 1 .. Len(frames[t]) - 1 : frames'[t][i] = frames[t][i]
           /\ \A i \in 1 .. Len(frames[t]) : frames'[t][i].in = frames[t][i].in
           /\ frames'[t][Len(frames[t])] = [in |-> Last(frames[t]).in, at |-> at]
           /\ Last(frames'[t]) = [in |-> Last(frames[t]).in, at |-> at]
           /\ Last(frames[t]).in \in {"start", "USR1"} => PositionIn(frames'[t]) = at
           /\ Last(frames[t]).in \notin {"start", "USR1"} =>
                 PositionIn(frames'[t]) = PositionIn(frames[t])
<1> DEFINE f == frames[t]
           g == Moved(f, at)
<1>1. frames \in [Threads -> Seq(Frames)] /\ \A u \in Threads : Nested(frames[u])
  BY DEF Values
<1>2. frames' = [frames EXCEPT ![t] = g]
  BY DEF GotoAt, Moved
<1>3. f \in Seq(Frames) /\ Nested(f)
  BY <1>1
<1> HIDE DEF f, g
<1>4. f # <<>> /\ at \in StepsOf[Last(f).in]
  BY DEF f
<1>5. g = Moved(f, at)
  BY DEF g
<1>6. GoesTo(f, at, g)
  BY <1>3, <1>4, <1>5, GotoFrames, Zenon
<1>7. frames'[t] = g /\ \A u \in Threads \ {t} : frames'[u] = frames[u]
  BY <1>1, <1>2
<1>8. frames' \in [Threads -> Seq(Frames)] /\ \A u \in Threads : Nested(frames'[u])
  BY <1>1, <1>2, <1>6, <1>7 DEF GoesTo
<1> QED BY <1>6, <1>7, <1>8 DEF f, GoesTo

LEMMA Returns ==
    ASSUME Values, NEW t \in Threads, frames[t] # <<>>,
           Last(frames[t]).in \in Handlers, frames' = Returned(t)
    PROVE  /\ frames' \in [Threads -> Seq(Frames)] /\ \A u \in Threads : Nested(frames'[u])
           /\ \A u \in Threads \ {t} : frames'[u] = frames[u]
           /\ frames'[t] # <<>> /\ Len(frames'[t]) = Len(frames[t]) - 1
           /\ \A i \in 1 .. Len(frames'[t]) : frames'[t][i] = frames[t][i]
           /\ frames'[t][1] = frames[t][1] /\ Last(frames'[t]).in # "USR1"
           /\ Len(frames[t]) > 1 /\ Last(frames'[t]) = frames[t][Len(frames[t]) - 1]
           /\ Last(frames[t]).in = "USR1" => PositionIn(frames'[t]) = "run"
           /\ Last(frames[t]).in # "USR1" => PositionIn(frames'[t]) = PositionIn(frames[t])
<1> DEFINE f == frames[t]
           g == Front(f)
<1>1. frames \in [Threads -> Seq(Frames)] /\ \A u \in Threads : Nested(frames[u])
  BY DEF Values
<1>2. frames' = [frames EXCEPT ![t] = g]
  BY DEF Returned
<1>3. f \in Seq(Frames) /\ Nested(f)
  BY <1>1
<1> HIDE DEF f, g
<1>4. f # <<>> /\ Last(f).in \in Handlers
  BY DEF f
<1>5. g = Front(f)
  BY DEF g
<1>6. /\ g \in Seq(Frames) /\ Nested(g) /\ g # <<>> /\ Len(g) = Len(f) - 1
      /\ \A i \in 1 .. Len(g) : g[i] = f[i]
      /\ Len(f) > 1 /\ g[1] = f[1] /\ Last(g) = f[Len(f) - 1] /\ Last(g).in # "USR1"
      /\ Last(f).in = "USR1" => PositionIn(g) = "run"
      /\ Last(f).in # "USR1" => PositionIn(g) = PositionIn(f)
  BY <1>3, <1>4, <1>5, ReturnFrames, Zenon
<1>7. frames'[t] = g /\ \A u \in Threads \ {t} : frames'[u] = frames[u]
  BY <1>1, <1>2
<1>8. frames' \in [Threads -> Seq(Frames)] /\ \A u \in Threads : Nested(frames'[u])
  BY <1>1, <1>2, <1>6, <1>7
<1> QED BY <1>6, <1>7, <1>8 DEF f

LEMMA Enters ==
    ASSUME Values, NEW t \in Threads, frames[t] # <<>>,
           NEW s \in Handlers, s \notin Blocked(t),
           s = "URG" => frames[t] = <<[in |-> "user", at |-> "called"]>>,
           frames' = [frames EXCEPT ![t] = Entered(t, s)]
    PROVE  /\ frames' \in [Threads -> Seq(Frames)] /\ \A u \in Threads : Nested(frames'[u])
           /\ \A u \in Threads \ {t} : frames'[u] = frames[u]
           /\ frames'[t] # <<>> /\ Len(frames'[t]) = Len(frames[t]) + 1
           /\ \A i \in 1 .. Len(frames[t]) : frames'[t][i] = frames[t][i]
           /\ frames'[t][1] = frames[t][1]
           /\ Last(frames'[t]) = [in |-> s, at |-> FirstStep(s)]
           /\ frames'[t][Len(frames[t]) + 1] = Last(frames'[t])
           /\ Last(frames[t]).in # "USR1"
           /\ \A i \in 1 .. Len(frames[t]) : s \notin Masks[frames[t][i].in]
           /\ s = "USR1" => PositionIn(frames'[t]) = "switch" /\ PositionIn(frames[t]) = "run"
           /\ s # "USR1" => PositionIn(frames'[t]) = PositionIn(frames[t])
<1> DEFINE f == frames[t]
           g == Interrupted(f, s)
<1>1. frames \in [Threads -> Seq(Frames)] /\ \A u \in Threads : Nested(frames[u])
  BY DEF Values
<1>2. frames' = [frames EXCEPT ![t] = g]
  BY DEF Entered, Interrupted, FirstStep
<1>3. f \in Seq(Frames) /\ Nested(f)
  BY <1>1
<1>4. \A i \in 1 .. Len(f) : s \notin Masks[f[i].in]
  BY DEF Blocked, Mask
<1>5. f # <<>> /\ (s = "URG" => f = <<[in |-> "user", at |-> "called"]>>)
  OBVIOUS
<1>6. g = Interrupted(f, s)
  OBVIOUS
<1> HIDE DEF f, g
<1>7. EntersInto(f, s, g)
  BY <1>3, <1>4, <1>5, <1>6, EnterFrames, Zenon
<1>8. frames'[t] = g /\ \A u \in Threads \ {t} : frames'[u] = frames[u]
  BY <1>1, <1>2
<1>9. frames' \in [Threads -> Seq(Frames)] /\ \A u \in Threads : Nested(frames'[u])
  BY <1>1, <1>2, <1>7, <1>8 DEF EntersInto
<1> QED BY <1>4, <1>7, <1>8, <1>9 DEF f, EntersInto

------------------------------------------------------------------------------
(***************************************************************************)
(* Where the hosts are.                                                    *)
(***************************************************************************)

LEMMA Places ==
    ASSUME Values, NEW t \in Threads, frames[t] # <<>>
    PROVE  /\ Len(frames[t]) \in Nat \ {0} /\ DOMAIN frames[t] = 1 .. Len(frames[t])
           /\ Last(frames[t]) = frames[t][Len(frames[t])]
           /\ Last(frames[t]).in \in Handlers \cup {"start", "user"}
           /\ Last(frames[t]).at \in StepsOf[Last(frames[t]).in]
           /\ Last(frames[t]).in \in {"start", "user"} <=> Len(frames[t]) = 1
           /\ Unstarted(t) <=> frames[t][1].in = "start"
           /\ Last(frames[t]).in = "start" => Unstarted(t)
           /\ Last(frames[t]).in \in {"user", "USR1", "URG", "ALRM"} => ~Unstarted(t)
           /\ Unstarted(t) => /\ Position(t) = frames[t][1].at
                              /\ Position(t) \in {"suspend", "read", "resumed", "unblock"}
           /\ Last(frames[t]).in = "USR1" => Position(t) = Last(frames[t]).at
           /\ Last(frames[t]).in # "USR1" /\ ~Unstarted(t) => Position(t) = "run"
<1> DEFINE f == frames[t]
           n == Len(f)
<1>1. f \in Seq(Frames) /\ Nested(f) /\ f # <<>>
  BY DEF Values
<1> HIDE DEF f
<1>2. n \in Nat \ {0} /\ DOMAIN f = 1 .. n /\ Last(f) = f[n] /\ n \in 1 .. n /\ 1 \in 1 .. n
  BY <1>1 DEF Last
<1>3. /\ f[n] \in Frames /\ f[n].at \in StepsOf[f[n].in]
      /\ f[n].in \in {"start", "user"} <=> n = 1
      /\ f[1].in \in {"start", "user"} /\ f[1].at \in StepsOf[f[1].in]
      /\ 1 < n => f[n].in \notin Masks[f[1].in]
  BY <1>1, <1>2 DEF Nested
<1>4. f[n].in \in Handlers \cup {"start", "user"}
  BY <1>3 DEF Frames
<1>5. f[n].in \in {"user", "USR1", "URG", "ALRM"} => f[1].in # "start"
  <2>1. CASE n = 1
    BY <1>3, <2>1
  <2>2. CASE n # 1
    <3>1. f[n].in \notin Masks[f[1].in] /\ f[n].in \notin {"start", "user"}
      BY <1>2, <1>3, <2>2
    <3> QED BY <3>1 DEF Masks
  <2> QED BY <2>1, <2>2
<1>6. f[1].in = "start" => f[1].at \in {"suspend", "read", "resumed", "unblock"}
  BY <1>3 DEF StepsOf
<1>7. f[n].in = "start" => f[1].in = "start"
  BY <1>3
<1>8. Unstarted(t) <=> f[1].in = "start"
  BY <1>1 DEF Unstarted, f
<1>9. Position(t) = PositionIn(f)
  BY DEF Position, f
<1>10. /\ f[1].in = "start" => PositionIn(f) = f[1].at
       /\ f[n].in = "USR1" => PositionIn(f) = f[n].at
       /\ f[n].in # "USR1" /\ f[1].in # "start" => PositionIn(f) = "run"
  BY <1>1, <1>2, <1>5 DEF PositionIn
<1> QED BY <1>2, <1>3, <1>4, <1>5, <1>6, <1>7, <1>8, <1>9, <1>10 DEF f

LEMMA PlacesKept ==
    ASSUME NEW t \in Threads, frames[t] # <<>>, frames'[t] # <<>>,
           \A u \in Threads \ {t} : frames'[u] = frames[u],
           PositionIn(frames'[t]) = PositionIn(frames[t]),
           frames'[t][1].in = frames[t][1].in
    PROVE  \A u \in Threads :
              /\ Position(u)' = Position(u) /\ Unstarted(u)' = Unstarted(u)
              /\ frames'[u] = <<>> <=> frames[u] = <<>>
BY DEF Position, Unstarted

LEMMA InIs ==
    ASSUME NEW t, NEW function, NEW at, In(t, function, at)
    PROVE  frames[t] # <<>> /\ Last(frames[t]).in = function /\ Last(frames[t]).at = at
BY DEF In

\* User code blocks no signal, so that none is pending while it goes on.
LEMMA NothingPending ==
    ASSUME Values, NEW t \in Threads, frames[t] # <<>>, Last(frames[t]).in = "user", Free(t)
    PROVE  pending[t] = {}
<1>1. Len(frames[t]) = 1 /\ frames[t][1].in = "user"
  BY Places
<1>2. Blocked(t) = {}
  BY <1>1 DEF Blocked, Mask, Masks
<1> QED BY <1>2 DEF Free

\* Masks keep a handler from being interrupted by the tick, and the handlers of
\* the calls and of the tick from being switched.
LEMMA NoUrgBelow ==
    ASSUME Values, NEW t \in Threads, frames[t] # <<>>,
           Last(frames[t]).in \in {"user", "start", "USR1", "ALRM"}
    PROVE  \A i \in DOMAIN frames[t] : frames[t][i].in # "URG"
<1> DEFINE n == Len(frames[t])
<1>1. n \in Nat \ {0} /\ DOMAIN frames[t] = 1 .. n /\ Last(frames[t]) = frames[t][n]
  BY Places
<1>2. Nested(frames[t])
  BY DEF Values
<1> SUFFICES ASSUME NEW i \in 1 .. n, frames[t][i].in = "URG"
             PROVE  FALSE
  BY <1>1
<1>3. i # n /\ n \in 1 .. n
  BY <1>1
<1>4. frames[t][n].in \notin Masks["URG"]
  BY <1>1, <1>2, <1>3 DEF Nested
<1>5. frames[t][n].in \notin {"user", "start"}
  <2>1. i = 2
    BY <1>2 DEF Nested
  <2> QED BY <1>1, <1>2, <1>3, <2>1 DEF Nested
<1> QED BY <1>1, <1>4, <1>5 DEF Masks

LEMMA CallsKept ==
    ASSUME Calls, NEW t \in Threads, CallStands(t)',
           aborted' = "no" => aborted = "no",
           \A u \in Threads \ {t} :
              frames'[u] = frames[u] /\ pending'[u] = pending[u] /\ syscall'[u] = syscall[u]
    PROVE  Calls'
<1>1. ASSUME NEW u \in Threads, u # t
      PROVE  CallStands(u)'
  <2>1. CallStands(u) /\ frames'[u] = frames[u] /\ pending'[u] = pending[u] /\ syscall'[u] = syscall[u]
    BY <1>1 DEF Calls
  <2> QED BY <2>1 DEF CallStands, Unstarted
<1> QED BY <1>1 DEF Calls

------------------------------------------------------------------------------
(***************************************************************************)
(* Signals are delivered.                                                  *)
(***************************************************************************)

\* Only the current thread executes, and only it is let out of its suspension.
LEMMA Executing ==
    ASSUME Values, Token, NEW t \in Threads, frames[t] # <<>>,
           \/ Last(frames[t]).in \in {"user", "URG", "ALRM"}
           \/ /\ Last(frames[t]).in \in {"start", "USR1"}
              /\ Last(frames[t]).at \in {"switch", "signal", "resumed", "wait", "unblock"}
    PROVE  t = thread_current
<1> SUFFICES ASSUME t # thread_current PROVE FALSE
  OBVIOUS
<1>1. Position(t) \in {"none", "suspend", "read", "resume"}
  BY DEF Token
<1>2. CASE Last(frames[t]).in = "start"
  <2>1. Len(frames[t]) = 1 /\ Last(frames[t]) = frames[t][1] /\ Unstarted(t)
    BY <1>2, Places
  <2> QED BY <1>1, <1>2, <2>1, Places
<1>3. CASE Last(frames[t]).in = "USR1"
  BY <1>1, <1>3, Places
<1>4. CASE Last(frames[t]).in \in {"user", "URG", "ALRM"}
  BY <1>1, <1>4, Places
<1> QED BY <1>2, <1>3, <1>4

\* On another host an interrupt is handled only if it has not been started.
LEMMA Elsewhere ==
    ASSUME Values, Token, NEW t \in Threads, frames[t] # <<>>, Last(frames[t]).in \in Serving
    PROVE  /\ t = thread_current \/ Unstarted(t)
           /\ Len(frames[t]) # 1 /\ 1 \in 1 .. Len(frames[t]) - 1
<1>1. CASE t # thread_current /\ ~Unstarted(t)
  <2>1. Position(t) \in {"none", "suspend", "read", "resume"}
    BY <1>1 DEF Token
  <2> QED BY <1>1, <2>1, Places DEF Serving
<1>2. Len(frames[t]) # 1 /\ Len(frames[t]) \in Nat \ {0}
  BY Places DEF Serving
<1>3. \A m \in Nat \ {0} : m # 1 => 1 \in 1 .. m - 1
  OBVIOUS
<1> QED BY <1>1, <1>2, <1>3

\* What the kernel may do to the state of a thread outside of the switch.
StateStep(u) ==
    \/ state'[u] = state[u]
    \/ state[u] = "WAITING" /\ state'[u] \in {"READY", "RUNNING"}
    \/ state[u] = "CREATED" /\ is_suspended[u] /\ state'[u] = "READY"
    \/ u = thread_current /\ Position(u) = "run" /\ state'[u] \in {"WAITING", "FINISHED"}

LEMMA HostsStay ==
    ASSUME Values, Targets, NEW u \in Threads, StateStep(u), HasHost(u)
    PROVE  HasHost(u)'
BY DEF StateStep, HasHost

\* Steps outside of the hand-over leave it as it was.
LEMMA HandOverKept ==
    ASSUME Values, Token, Agreement, UNCHANGED <<thread_current, is_suspended, block_pipe>>,
           \A u \in Threads :
              /\ Position(u)' = Position(u) /\ Unstarted(u)' = Unstarted(u)
              /\ frames'[u] = <<>> <=> frames[u] = <<>>,
           \A u \in Threads \ {thread_current} :
              /\ pending'[u] \subseteq {"USR1"}
              /\ pending'[u] # {} => Unstarted(u),
           \A u \in Threads : StateStep(u)
    PROVE  Token' /\ Agreement' /\ Position(thread_current)' = Position(thread_current)
<1> PICK c : c = thread_current
  OBVIOUS
<1>1. c \in Threads /\ thread_current' = c
  BY DEF Values
<1>2. Position(c)' = Position(c) /\ Unstarted(c)' = Unstarted(c)
  BY <1>1
<1>3. Position(thread_current)' = Position(c)
  BY <1>1, <1>2 DEF Position
<1>4. Token'
  <2>1. ASSUME NEW t \in Threads, t # c
        PROVE  /\ Position(t)' \in {"none", "suspend", "read", "resume"}
               /\ block_pipe'[t] = 0
               /\ pending'[t] \subseteq {"USR1"}
               /\ pending'[t] # {} => Unstarted(t)'
    BY <2>1 DEF Token
  <2>2. /\ block_pipe'[c] = 1 => Position(c)' = "read"
        /\ Position(c)' # "resume"
    BY <1>1, <1>2 DEF Token
  <2>3. ASSUME NEW t \in Threads, Position(t)' = "resume"
        PROVE  /\ \A u \in Threads : Position(u)' = "resume" => u = t
               /\ Position(c)' \in {"suspend", "read"}
               /\ block_pipe'[c] = 0
    <3>1. Position(t) = "resume"
      BY <2>3
    <3> QED BY <1>1, <1>2, <3>1 DEF Token
  <2> QED BY <1>1, <1>2, <1>3, <2>1, <2>2, <2>3 DEF Token
<1>5. Agreement'
  <2> SUFFICES ASSUME NEW t \in Threads
               PROVE  /\ is_suspended'[t] = TRUE <=> Position(t)' \in {"read", "resumed"}
                      /\ state'[t] = "EMPTY" <=> frames'[t] = <<>>
                      /\ state'[t] = "CREATED" => Unstarted(t)' /\ t # c
                      /\ Unstarted(t)' => /\ state'[t] \in {"CREATED", "READY", "RUNNING"}
                                          /\ Position(t)' = "suspend" => state'[t] = "CREATED"
    BY <1>1 DEF Agreement
  <2>1. /\ is_suspended[t] = TRUE <=> Position(t) \in {"read", "resumed"}
        /\ state[t] = "EMPTY" <=> frames[t] = <<>>
        /\ state[t] = "CREATED" => Unstarted(t) /\ t # c
        /\ Unstarted(t) => /\ state[t] \in {"CREATED", "READY", "RUNNING"}
                           /\ Position(t) = "suspend" => state[t] = "CREATED"
    BY DEF Agreement
  <2>2. /\ Position(t)' = Position(t) /\ Unstarted(t)' = Unstarted(t)
        /\ frames'[t] = <<>> <=> frames[t] = <<>>
        /\ is_suspended'[t] = is_suspended[t]
    OBVIOUS
  <2>3. CASE state'[t] = state[t]
    BY <2>1, <2>2, <2>3
  <2>4. CASE state[t] = "WAITING" /\ state'[t] \in {"READY", "RUNNING"}
    BY <2>1, <2>2, <2>4
  <2>5. CASE state[t] = "CREATED" /\ is_suspended[t] /\ state'[t] = "READY"
    BY <2>1, <2>2, <2>5
  <2>6. CASE t = thread_current /\ Position(t) = "run" /\ state'[t] \in {"WAITING", "FINISHED"}
    <3>1. frames[t] # <<>>
      BY <2>6 DEF Position, PositionIn
    <3>2. ~Unstarted(t)
      BY <1>1, <2>6, <3>1, Places
    <3> QED BY <2>1, <2>2, <2>6, <3>1, <3>2
  <2> QED BY <2>3, <2>4, <2>5, <2>6 DEF StateStep
<1> QED BY <1>1, <1>3, <1>4, <1>5

\* The types of everything but the functions the hosts are in.
Scalars ==
    /\ {thread_current, thread_next, thread_prev} \subseteq Threads
    /\ kernel_execute_thread_switch \in BOOLEAN
    /\ state \in [Threads -> States]
    /\ is_suspended \in [Threads -> BOOLEAN]
    /\ block_pipe \in [Threads -> 0 .. 1]
    /\ syscall \in [Threads -> [id : {"none", "rpc_return"} \cup Operations,
                                outcome : {"RETURN", "RPC_CALL"},
                                retval : {"E_NOTAVAIL", "served"}]]
    /\ depth \in [Threads -> 0 .. MaxDepth]
    /\ pending \in [Threads -> SUBSET {"USR1", "URG"}]
    /\ search \in [Threads -> [Serving -> [thread : Threads, fresh : BOOLEAN]]]
    /\ {interrupt_flags, raised} \subseteq BOOLEAN
    /\ aborted \in {"no", "resume", "rpc", "irq", "tick"}

LEMMA ScalarsIn == Values => Scalars
BY DEF Values, Scalars

Early == {"handle", "yield", "commit", "spawn"}

------------------------------------------------------------------------------
(***************************************************************************)
(* Steps within a handler that enters the kernel.                          *)
(***************************************************************************)

LEMMA ServeStep ==
    ASSUME PosixInv, NEW t \in Threads, frames[t] # <<>>, Last(frames[t]).in \in Serving,
           NEW at, at \in StepsOf[Last(frames[t]).in], frames' = GotoAt(t, at),
           Scalars', UNCHANGED <<thread_current, is_suspended, block_pipe, aborted>>,
           \A u \in Threads : StateStep(u),
           \/ pending' = pending
           \/ /\ kernel_execute_thread_switch /\ pending' = [pending EXCEPT ![t] = @ \cup {"USR1"}],
           \/ HasHost(thread_next)'
           \/ /\ thread_next' = thread_next
              /\ kernel_execute_thread_switch' => kernel_execute_thread_switch,
           \A u \in Threads : \A h \in Serving : HasHost(search[u][h].thread)',
           CanRun(Idle)', syscall'[Idle].id = "none", depth'[Idle] = 0,
           \A u \in Threads \ {t} : syscall'[u] = syscall[u],
           \/ syscall'[t].retval = "served"
           \/ /\ syscall'[t].retval = syscall[t].retval
              /\ at \in Early \/ Last(frames[t]).in # "URG" \/ Last(frames[t]).at \notin Early
    PROVE  PosixInv'
<1>1. Values /\ Token /\ Agreement /\ Targets /\ Calls
  BY DEF PosixInv
<1>2. /\ frames' \in [Threads -> Seq(Frames)] /\ \A u \in Threads : Nested(frames'[u])
      /\ \A u \in Threads \ {t} : frames'[u] = frames[u]
      /\ frames'[t] # <<>> /\ Len(frames'[t]) = Len(frames[t])
      /\ \A i \in 1 .. Len(frames[t]) - 1 : frames'[t][i] = frames[t][i]
      /\ Last(frames'[t]) = [in |-> Last(frames[t]).in, at |-> at]
      /\ frames'[t][Len(frames[t])] = [in |-> Last(frames[t]).in, at |-> at]
      /\ PositionIn(frames'[t]) = PositionIn(frames[t])
  BY <1>1, Goes DEF Serving
<1>3. /\ t = thread_current \/ Unstarted(t)
      /\ 1 \in 1 .. Len(frames[t]) - 1 /\ Len(frames[t]) \in Nat \ {0}
      /\ DOMAIN frames[t] = 1 .. Len(frames[t]) /\ Last(frames[t]) = frames[t][Len(frames[t])]
  BY <1>1, Elsewhere, Places
<1>4. frames'[t][1] = frames[t][1] /\ DOMAIN frames'[t] = 1 .. Len(frames[t])
  BY <1>2, <1>3
<1>5. \A u \in Threads :
         /\ Position(u)' = Position(u) /\ Unstarted(u)' = Unstarted(u)
         /\ frames'[u] = <<>> <=> frames[u] = <<>>
  BY <1>2, <1>4, PlacesKept
<1>6. "URG" \notin pending[t]
  <2>1. "URG" \in pending[t] => Last(frames[t]).in = "user"
    BY <1>1 DEF Calls, CallStands, Last
  <2> QED BY <2>1 DEF Serving
<1>7. /\ \A u \in Threads \ {t} : pending'[u] = pending[u]
      /\ pending'[t] = pending[t] \/ pending'[t] = pending[t] \cup {"USR1"}
      /\ kernel_execute_thread_switch = TRUE \/ pending' = pending
      /\ pending[t] \subseteq {"USR1", "URG"}
  <2>1. pending \in [Threads -> SUBSET {"USR1", "URG"}] /\ kernel_execute_thread_switch \in BOOLEAN
    BY <1>1 DEF Values
  <2>2. CASE pending' = pending
    BY <2>1, <2>2
  <2>3. CASE pending' = [pending EXCEPT ![t] = @ \cup {"USR1"}] /\ kernel_execute_thread_switch
    BY <2>1, <2>3
  <2> QED BY <2>2, <2>3
<1>8. \A u \in Threads \ {thread_current} :
         pending'[u] \subseteq {"USR1"} /\ (pending'[u] # {} => Unstarted(u))
  BY <1>1, <1>3, <1>6, <1>7 DEF Token
<1>9. Token' /\ Agreement' /\ Position(thread_current)' = Position(thread_current)
  BY <1>1, <1>5, <1>8, HandOverKept
<1>10. Values'
  BY <1>2 DEF Values, Scalars
<1>11. Targets'
  <2>1. thread_current \in Threads /\ thread_next \in Threads /\ HasHost(thread_current)
    BY <1>1 DEF Values, Targets
  <2>2. HasHost(thread_current)'
    <3>1. state'[thread_current] \notin {"EMPTY", "CREATED"}
      BY <1>1, <2>1, HostsStay DEF HasHost
    <3> QED BY <3>1 DEF HasHost
  <2>3. Switching' => HasHost(thread_next)'
    <3> SUFFICES ASSUME Switching', ~HasHost(thread_next)'
                 PROVE  FALSE
      OBVIOUS
    <3>1. /\ thread_next' = thread_next
          /\ kernel_execute_thread_switch' => kernel_execute_thread_switch
      OBVIOUS
    <3>2. Switching
      BY <1>7, <1>9, <3>1 DEF Switching
    <3>3. HasHost(thread_next)
      BY <1>1, <3>2 DEF Targets
    <3> QED BY <1>1, <2>1, <3>1, <3>3, HostsStay DEF HasHost
  <2> QED BY <2>2, <2>3 DEF Targets
<1>12. CallStands(t)'
  <2>1. "URG" \notin pending'[t]
    BY <1>6, <1>7
  <2>2. Last(frames'[t]).in # "USR1"
    BY <1>2 DEF Serving
  <2>3. ASSUME aborted' = "no", frames'[t][1].at = "called"
        PROVE  \/ \E i \in DOMAIN frames'[t] :
                     frames'[t][i].in = "URG" /\ frames'[t][i].at \in {"handle", "yield", "commit", "spawn"}
               \/ syscall'[t].retval = "served"
    <3>1. \/ \E i \in DOMAIN frames[t] :
                frames[t][i].in = "URG" /\ frames[t][i].at \in {"handle", "yield", "commit", "spawn"}
          \/ syscall[t].retval = "served"
      BY <1>1, <1>4, <1>6, <2>3 DEF Calls, CallStands
    <3>2. CASE syscall[t].retval = "served"
      BY <3>2
    <3>3. ASSUME NEW i \in DOMAIN frames[t], frames[t][i].in = "URG",
                 frames[t][i].at \in {"handle", "yield", "commit", "spawn"}
          PROVE  \/ frames'[t][i].in = "URG" /\ frames'[t][i].at \in {"handle", "yield", "commit", "spawn"}
                 \/ syscall'[t].retval = "served"
      <4>1. CASE i = Len(frames[t])
        BY <1>2, <1>3, <3>3, <4>1 DEF Early
      <4>2. CASE i # Len(frames[t])
        <5>1. i \in 1 .. Len(frames[t]) - 1
          BY <1>3, <4>2
        <5> QED BY <1>2, <3>3, <5>1
      <4> QED BY <4>1, <4>2
    <3> QED BY <1>3, <1>4, <3>1, <3>2, <3>3
  <2> QED BY <2>1, <2>2, <2>3 DEF CallStands
<1>13. Calls'
  BY <1>1, <1>2, <1>7, <1>12, CallsKept
<1> QED BY <1>9, <1>10, <1>11, <1>13 DEF PosixInv

CallBuffers ==
    [Threads -> [id : {"none", "rpc_return"} \cup Operations,
                 outcome : {"RETURN", "RPC_CALL"}, retval : {"E_NOTAVAIL", "served"}]]

LEMMA OutdatedIs ==
    ASSUME Values
    PROVE  /\ Outdated \in [Threads -> [Serving -> [thread : Threads, fresh : BOOLEAN]]]
           /\ \A u \in Threads : \A h \in Serving : Outdated[u][h].thread = search[u][h].thread
<1>1. search \in [Threads -> [Serving -> [thread : Threads, fresh : BOOLEAN]]]
  BY DEF Values
<1>2. ASSUME NEW u \in Threads, NEW h \in Serving
      PROVE  /\ [search[u][h] EXCEPT !.fresh = FALSE] \in [thread : Threads, fresh : BOOLEAN]
             /\ [search[u][h] EXCEPT !.fresh = FALSE].thread = search[u][h].thread
  <2>1. PICK r \in [thread : Threads, fresh : BOOLEAN] : r = search[u][h]
    BY <1>1
  <2>2. /\ [r EXCEPT !.fresh = FALSE] \in [thread : Threads, fresh : BOOLEAN]
        /\ [r EXCEPT !.fresh = FALSE].thread = r.thread
    OBVIOUS
  <2> QED BY <2>1, <2>2
<1> QED BY <1>2, Zenon DEF Outdated

\* The searches still lead to threads with hosts.
LEMMA SearchesStay ==
    ASSUME Values, Targets, \A u \in Threads : StateStep(u),
           search' = search \/ search' = Outdated
    PROVE  /\ search' \in [Threads -> [Serving -> [thread : Threads, fresh : BOOLEAN]]]
           /\ \A u \in Threads : \A h \in Serving : HasHost(search[u][h].thread)'
<1>1. search \in [Threads -> [Serving -> [thread : Threads, fresh : BOOLEAN]]]
  BY DEF Values
<1>2. /\ search' \in [Threads -> [Serving -> [thread : Threads, fresh : BOOLEAN]]]
      /\ \A u \in Threads : \A h \in Serving : search'[u][h].thread = search[u][h].thread
  BY <1>1, OutdatedIs
<1>3. ASSUME NEW u \in Threads, NEW h \in Serving
      PROVE  state'[search'[u][h].thread] \notin {"EMPTY", "CREATED"}
  <2>1. PICK v \in Threads : v = search[u][h].thread
    BY <1>1
  <2>2. HasHost(v)
    BY <2>1 DEF Targets
  <2>3. HasHost(v)'
    BY <2>2, HostsStay
  <2> QED BY <1>2, <2>1, <2>3 DEF HasHost
<1> QED BY <1>2, <1>3 DEF HasHost

\* The idle thread makes no calls and stays ready.
LEMMA IdleStays ==
    ASSUME Values, Targets, \A u \in Threads : StateStep(u),
           \A u \in Threads : state[u] \in {"READY", "RUNNING"} =>
              state'[u] = state[u] \/ syscall[u].id # "none"
    PROVE  CanRun(Idle)'
<1>1. Idle \in Threads /\ CanRun(Idle) /\ syscall[Idle].id = "none"
  BY IdleIn DEF Targets
<1> QED BY <1>1 DEF CanRun

\* The kernel's work in a handler ends with its result in the buffer of the call.
LEMMA FinishIs ==
    ASSUME Values, NEW t \in Threads, frames[t] # <<>>, Last(frames[t]).in \in Serving,
           NEW call \in CallBuffers, Finish(t, call)
    PROVE  /\ frames' = GotoAt(t, Finished(t)) /\ Finished(t) \in StepsOf[Last(frames[t]).in]
           /\ syscall' \in CallBuffers
           /\ \A u \in Threads \ {t} : syscall'[u] = call[u]
           /\ \A u \in Threads : syscall'[u].id = call[u].id
           /\ \/ syscall'[t].retval = "served"
              \/ syscall' = call /\ Last(frames[t]).in # "URG"
<1>1. frames' = GotoAt(t, Finished(t)) /\ Finished(t) \in StepsOf[Last(frames[t]).in]
  BY DEF Finish, Finished, StepsOf, Serving
<1>2. CASE Last(frames[t]).in = "URG"
  <2>1. syscall' = [call EXCEPT ![t].retval = "served"]
    BY <1>2 DEF Finish, Served
  <2> QED BY <1>1, <2>1 DEF CallBuffers
<1>3. CASE Last(frames[t]).in # "URG"
  <2>1. syscall' = call
    BY <1>3 DEF Finish, Served
  <2> QED BY <1>1, <1>3, <2>1 DEF CallBuffers
<1> QED BY <1>2, <1>3

\* A handler that neither makes nor serves a call: what is left to show.
LEMMA QuietServe ==
    ASSUME PosixInv, NEW t \in Threads, frames[t] # <<>>, Last(frames[t]).in \in Serving,
           aborted = "no",
           \/ /\ Finish(t, syscall)
           \/ /\ syscall' = syscall
              /\ \E at \in StepsOf[Last(frames[t]).in] :
                    frames' = GotoAt(t, at) /\ (at \in Early \/ Last(frames[t]).at \notin Early),
           {thread_next', thread_prev'} \subseteq Threads, kernel_execute_thread_switch' \in BOOLEAN,
           state' \in [Threads -> States], {interrupt_flags', raised'} \subseteq BOOLEAN,
           search' \in [Threads -> [Serving -> [thread : Threads, fresh : BOOLEAN]]],
           UNCHANGED <<thread_current, is_suspended, block_pipe, depth, aborted>>,
           \A u \in Threads :
              \/ state'[u] = state[u]
              \/ state[u] = "WAITING" /\ state'[u] \in {"READY", "RUNNING"}
              \/ state[u] = "CREATED" /\ is_suspended[u] /\ state'[u] = "READY",
           \/ pending' = pending
           \/ kernel_execute_thread_switch /\ pending' = [pending EXCEPT ![t] = @ \cup {"USR1"}],
           \/ HasHost(thread_next)'
           \/ /\ thread_next' = thread_next
              /\ kernel_execute_thread_switch' => kernel_execute_thread_switch,
           \A u \in Threads : \A h \in Serving : HasHost(search[u][h].thread)'
    PROVE  PosixInv'
<1>1. Values /\ Targets /\ syscall \in CallBuffers /\ Scalars
  BY ScalarsIn DEF PosixInv, Values, CallBuffers
<1>2. \A u \in Threads : StateStep(u)
  BY DEF StateStep
<1>3. CanRun(Idle)'
  BY <1>1, <1>2, IdleStays
<1>4. pending' \in [Threads -> SUBSET {"USR1", "URG"}]
  <2>1. pending \in [Threads -> SUBSET {"USR1", "URG"}]
    BY <1>1 DEF Values
  <2>2. [pending EXCEPT ![t] = @ \cup {"USR1"}] \in [Threads -> SUBSET {"USR1", "URG"}]
    BY <2>1
  <2> QED BY <2>1, <2>2
<1>5. Idle \in Threads
  BY IdleIn
<1>6. CASE Finish(t, syscall)
  <2>1. /\ frames' = GotoAt(t, Finished(t)) /\ Finished(t) \in StepsOf[Last(frames[t]).in]
        /\ syscall' \in CallBuffers
        /\ \A u \in Threads \ {t} : syscall'[u] = syscall[u]
        /\ \A u \in Threads : syscall'[u].id = syscall[u].id
        /\ \/ syscall'[t].retval = "served"
           \/ syscall' = syscall /\ Last(frames[t]).in # "URG"
    BY <1>1, <1>6, FinishIs
  <2>2. Scalars'
    BY <1>1, <1>4, <2>1 DEF Scalars, CallBuffers
  <2>3. syscall'[Idle].id = "none" /\ depth'[Idle] = 0
    BY <1>1, <1>5, <2>1 DEF Targets
  <2> QED BY <1>2, <1>3, <2>1, <2>2, <2>3, ServeStep
<1>7. ASSUME syscall' = syscall, NEW at \in StepsOf[Last(frames[t]).in],
             frames' = GotoAt(t, at), at \in Early \/ Last(frames[t]).at \notin Early
      PROVE  PosixInv'
  <2>1. Scalars'
    BY <1>1, <1>4, <1>7 DEF Scalars
  <2>2. syscall'[Idle].id = "none" /\ depth'[Idle] = 0
    BY <1>1, <1>7 DEF Targets
  <2> QED BY <1>2, <1>3, <1>7, <2>1, <2>2, ServeStep
<1> QED BY <1>6, <1>7

LEMMA YieldStep ==
    ASSUME PosixInv, NEW t \in Threads, NEW h \in Serving, os_sched_yield(t, h)
    PROVE  PosixInv'
<1>1. Values /\ Targets /\ Scalars
  BY ScalarsIn DEF PosixInv
<1>2. /\ aborted = "no" /\ frames[t] # <<>> /\ Last(frames[t]).in = h /\ Last(frames[t]).at = "yield"
      /\ UNCHANGED <<thread_current, thread_next, thread_prev, state, is_suspended, block_pipe,
                     pending, depth, interrupt_flags, raised, aborted>>
  BY InIs DEF os_sched_yield, Free
<1>3. \A u \in Threads : StateStep(u)
  BY <1>2 DEF StateStep
<1>4. PICK n \in Threads : n = os_get_next_thread /\ state[n] \in {"READY", "RUNNING"}
  <2>1. Idle \in Runnable(state)
    BY <1>1, IdleIn DEF Targets, CanRun, Runnable
  <2>2. os_get_next_thread \in Runnable(state)
    BY <1>1, <2>1, NextCanRun DEF Values
  <2> QED BY <2>2 DEF Runnable
<1>5. CASE n # thread_current
  <2>1. /\ search' = [search EXCEPT ![t][h] = [thread |-> n, fresh |-> TRUE]]
        /\ frames' = GotoAt(t, "commit")
        /\ UNCHANGED <<kernel_execute_thread_switch, syscall>>
    BY <1>4, <1>5 DEF os_sched_yield
  <2>2. /\ search' \in [Threads -> [Serving -> [thread : Threads, fresh : BOOLEAN]]]
        /\ \A u \in Threads : \A k \in Serving :
              search'[u][k].thread = n \/ search'[u][k].thread = search[u][k].thread
    BY <1>1, <2>1 DEF Values
  <2>3. \A u \in Threads : \A k \in Serving : HasHost(search[u][k].thread)'
    <3>1. ASSUME NEW u \in Threads, NEW k \in Serving
          PROVE  state'[search'[u][k].thread] \notin {"EMPTY", "CREATED"}
      BY <1>1, <1>2, <1>4, <2>2 DEF Targets, HasHost
    <3> QED BY <3>1 DEF HasHost
  <2>4. "commit" \in StepsOf[Last(frames[t]).in] /\ "commit" \in Early
    BY <1>2 DEF StepsOf, Serving, Early
  <2> QED BY <1>1, <1>2, <2>1, <2>2, <2>3, <2>4, QuietServe DEF Scalars
<1>6. CASE n = thread_current
  <2>1. kernel_execute_thread_switch' = FALSE /\ Finish(t, syscall) /\ UNCHANGED search
    BY <1>4, <1>6 DEF os_sched_yield
  <2>2. \A u \in Threads : \A k \in Serving : HasHost(search[u][k].thread)'
    BY <1>1, <1>3, <2>1, SearchesStay
  <2> QED BY <1>1, <1>2, <2>1, <2>2, QuietServe DEF Scalars
<1> QED BY <1>5, <1>6

LEMMA CommitStep ==
    ASSUME PosixInv, NEW t \in Threads, NEW h \in Serving, YieldCommits(t, h)
    PROVE  PosixInv'
<1>1. Values /\ Targets /\ Scalars
  BY ScalarsIn DEF PosixInv
<1>2. /\ aborted = "no" /\ frames[t] # <<>> /\ Last(frames[t]).in = h /\ Last(frames[t]).at = "commit"
      /\ Finish(t, syscall)
      /\ UNCHANGED <<thread_current, state, is_suspended, block_pipe, pending, depth,
                     interrupt_flags, raised, aborted>>
  BY InIs DEF YieldCommits, Free
<1>3. /\ state[search[t][h].thread] \notin {"EMPTY", "CREATED"}
      /\ Idle \in Threads /\ state[Idle] \notin {"EMPTY", "CREATED"}
      /\ search[t][h].thread \in Threads
      /\ search \in [Threads -> [Serving -> [thread : Threads, fresh : BOOLEAN]]]
  <2>1. search \in [Threads -> [Serving -> [thread : Threads, fresh : BOOLEAN]]]
    BY <1>1 DEF Values
  <2>2. HasHost(search[t][h].thread) /\ CanRun(Idle)
    BY <1>1 DEF Targets
  <2> QED BY <2>1, <2>2, IdleIn DEF HasHost, CanRun
<1>4. /\ search' \in [Threads -> [Serving -> [thread : Threads, fresh : BOOLEAN]]]
      /\ \A u \in Threads : \A k \in Serving :
            search'[u][k].thread = Idle \/ search'[u][k].thread = search[u][k].thread
  <2>1. NoSearch \in [thread : Threads, fresh : BOOLEAN] /\ NoSearch.thread = Idle
    BY <1>3 DEF NoSearch
  <2>2. /\ Outdated \in [Threads -> [Serving -> [thread : Threads, fresh : BOOLEAN]]]
        /\ \A u \in Threads : \A k \in Serving : Outdated[u][k].thread = search[u][k].thread
    BY <1>1, OutdatedIs
  <2>3. search' = [Outdated EXCEPT ![t][h] = NoSearch] \/ search' = [search EXCEPT ![t][h] = NoSearch]
    BY DEF YieldCommits
  <2>4. PICK s \in [Threads -> [Serving -> [thread : Threads, fresh : BOOLEAN]]] :
           /\ search' = [s EXCEPT ![t][h] = NoSearch]
           /\ \A u \in Threads : \A k \in Serving : s[u][k].thread = search[u][k].thread
    BY <1>3, <2>2, <2>3
  <2>5. /\ search' \in [Threads -> [Serving -> [thread : Threads, fresh : BOOLEAN]]]
        /\ \A u \in Threads : \A k \in Serving : search'[u][k] = NoSearch \/ search'[u][k] = s[u][k]
    BY <2>1, <2>4
  <2> QED BY <2>1, <2>4, <2>5
<1>5. \A u \in Threads : \A k \in Serving : HasHost(search[u][k].thread)'
  <2>1. ASSUME NEW u \in Threads, NEW k \in Serving
        PROVE  state'[search'[u][k].thread] \notin {"EMPTY", "CREATED"}
    BY <1>1, <1>2, <1>3, <1>4 DEF Targets, HasHost
  <2> QED BY <2>1 DEF HasHost
<1>6. CASE /\ thread_prev' = thread_current /\ thread_next' = search[t][h].thread
           /\ kernel_execute_thread_switch' = TRUE
  <2>1. HasHost(thread_next)'
    BY <1>2, <1>3, <1>6 DEF HasHost
  <2> QED BY <1>1, <1>2, <1>3, <1>4, <1>5, <1>6, <2>1, QuietServe DEF Scalars
<1>7. CASE UNCHANGED <<thread_prev, thread_next, kernel_execute_thread_switch>>
  BY <1>1, <1>2, <1>4, <1>5, <1>7, QuietServe DEF Scalars
<1> QED BY <1>6, <1>7 DEF YieldCommits

\* Raising an interrupt, or a failed assertion, changes nothing else.
LEMMA AbortStep ==
    ASSUME PosixInv, UNCHANGED <<kernelVars, hostVars, callVars, search>>,
           aborted' \in {"no", "resume", "rpc", "irq", "tick"}, aborted' = "no" => aborted = "no",
           {interrupt_flags', raised'} \subseteq BOOLEAN
    PROVE  PosixInv'
<1>1. Values /\ Token /\ Agreement /\ Targets /\ Calls
  BY DEF PosixInv
<1>2. UNCHANGED <<thread_current, thread_next, thread_prev, kernel_execute_thread_switch, state,
                  is_suspended, block_pipe, frames, pending, syscall, depth, search>>
  BY DEF kernelVars, hostVars, callVars
<1>3. /\ Position(thread_current)' = Position(thread_current)
      /\ \A u : Position(u)' = Position(u) /\ Unstarted(u)' = Unstarted(u)
      /\ Switching' = Switching
  BY <1>2 DEF Position, Unstarted, Switching
<1>4. Values'
  BY <1>1, <1>2 DEF Values
<1>5. Token' /\ Agreement'
  BY <1>1, <1>2, <1>3 DEF Token, Agreement
<1>6. Targets'
  BY <1>1, <1>2, <1>3 DEF Targets, HasHost, CanRun
<1>7. Calls'
  BY <1>1, <1>2, <1>3 DEF Calls, CallStands
<1> QED BY <1>4, <1>5, <1>6, <1>7 DEF PosixInv

LEMMA WokenIs ==
    ASSUME Values, NEW u \in Threads, state[u] = "WAITING", state' = Woken(u)
    PROVE  /\ state' \in [Threads -> States] /\ state'[u] \in {"READY", "RUNNING"}
           /\ u # thread_current => state'[u] = "READY"
           /\ \A v \in Threads \ {u} : state'[v] = state[v]
<1>1. state \in [Threads -> States]
  BY DEF Values
<1> QED BY <1>1 DEF Woken, States

\* os_notify_object wakes one thread or none, and goes on to the yield or to the end.
LEMMA NotifyIs ==
    ASSUME Values, NEW t \in Threads, NEW call, os_notify_object(t, call)
    PROVE  /\ search' = Outdated /\ state' \in [Threads -> States]
           /\ \A v \in Threads :
                 \/ state'[v] = state[v]
                 \/ /\ state[v] = "WAITING" /\ state'[v] \in {"READY", "RUNNING"}
                    /\ v # thread_current => state'[v] = "READY"
           /\ Finish(t, call) \/ (frames' = GotoAt(t, "yield") /\ syscall' = call)
<1>1. search' = Outdated
  BY DEF os_notify_object
<1>2. CASE UNCHANGED state /\ Finish(t, call)
  BY <1>1, <1>2 DEF Values
<1>3. ASSUME NEW u \in Threads, state[u] = "WAITING", state' = Woken(u),
             IF Priority[u] < Priority[thread_current]
             THEN Yields(t) /\ syscall' = call ELSE Finish(t, call)
      PROVE  /\ state' \in [Threads -> States]
             /\ \A v \in Threads :
                   \/ state'[v] = state[v]
                   \/ /\ state[v] = "WAITING" /\ state'[v] \in {"READY", "RUNNING"}
                      /\ v # thread_current => state'[v] = "READY"
             /\ Finish(t, call) \/ (frames' = GotoAt(t, "yield") /\ syscall' = call)
  BY <1>3, WokenIs DEF Yields
<1> QED BY <1>1, <1>2, <1>3 DEF os_notify_object

LEMMA IrqStep ==
    ASSUME PosixInv, NEW t \in Threads, irq_handler(t)
    PROVE  PosixInv'
<1>1. Values /\ Targets /\ Scalars
  BY ScalarsIn DEF PosixInv
<1>2. /\ aborted = "no" /\ frames[t] # <<>> /\ Last(frames[t]).in = "USR2" /\ Last(frames[t]).at = "handle"
      /\ UNCHANGED <<thread_current, thread_next, thread_prev, kernel_execute_thread_switch,
                     is_suspended, block_pipe, pending, depth, interrupt_flags, raised, aborted>>
  BY InIs DEF irq_handler, Free
<1>3. "yield" \in StepsOf[Last(frames[t]).in] /\ Last(frames[t]).in \in Serving /\ "yield" \in Early
  BY <1>2 DEF StepsOf, Serving, Early
<1>4. CASE Finish(t, syscall) /\ UNCHANGED <<state, search>>
  <2>1. \A u \in Threads : StateStep(u)
    BY <1>4 DEF StateStep
  <2>2. \A u \in Threads : \A h \in Serving : HasHost(search[u][h].thread)'
    BY <1>1, <1>4, <2>1, SearchesStay
  <2> QED BY <1>1, <1>2, <1>3, <1>4, <2>2, QuietServe DEF Scalars
<1>5. CASE os_notify_object(t, syscall)
  <2>1. /\ search' = Outdated /\ state' \in [Threads -> States]
        /\ \A v \in Threads :
              \/ state'[v] = state[v]
              \/ state[v] = "WAITING" /\ state'[v] \in {"READY", "RUNNING"}
        /\ Finish(t, syscall) \/ (frames' = GotoAt(t, "yield") /\ syscall' = syscall)
    BY <1>1, <1>5, NotifyIs
  <2>2. \A u \in Threads : StateStep(u)
    BY <2>1 DEF StateStep
  <2>3. /\ search' \in [Threads -> [Serving -> [thread : Threads, fresh : BOOLEAN]]]
        /\ \A u \in Threads : \A h \in Serving : HasHost(search[u][h].thread)'
    BY <1>1, <2>1, <2>2, SearchesStay
  <2> QED BY <1>1, <1>2, <1>3, <2>1, <2>3, QuietServe DEF Scalars
<1> QED BY <1>4, <1>5 DEF irq_handler

LEMMA ServedStep ==
    ASSUME PosixInv, NEW t \in Threads, InterruptServed(t)
    PROVE  PosixInv'
<1>1. Values /\ Targets /\ Scalars
  BY ScalarsIn DEF PosixInv
<1>2. /\ aborted = "no" /\ frames[t] # <<>> /\ Last(frames[t]).in = "USR2" /\ Last(frames[t]).at = "served"
      /\ frames' = GotoAt(t, "trigger") /\ interrupt_flags' = FALSE
      /\ UNCHANGED <<thread_current, thread_next, thread_prev, kernel_execute_thread_switch, state,
                     is_suspended, block_pipe, pending, syscall, depth, search, raised, aborted>>
  BY InIs DEF InterruptServed, Free, kernelVars, callVars
<1>3. /\ "trigger" \in StepsOf[Last(frames[t]).in] /\ Last(frames[t]).in \in Serving
      /\ Last(frames[t]).at \notin Early
  BY <1>2 DEF StepsOf, Serving, Early
<1>4. \A u \in Threads : StateStep(u)
  BY <1>2 DEF StateStep
<1>5. \A u \in Threads : \A h \in Serving : HasHost(search[u][h].thread)'
  BY <1>1, <1>2, <1>4, SearchesStay
<1> QED BY <1>1, <1>2, <1>3, <1>5, QuietServe DEF Scalars

LEMMA InitializeStep ==
    ASSUME PosixInv, NEW t \in Threads, os_thread_initialize_arch(t)
    PROVE  PosixInv'
<1>1. Values /\ Targets /\ Scalars
  BY ScalarsIn DEF PosixInv
<1>2. /\ aborted = "no" /\ frames[t] # <<>> /\ Last(frames[t]).in = "URG" /\ Last(frames[t]).at = "spawn"
      /\ Finish(t, syscall) /\ search' = Outdated
      /\ UNCHANGED <<thread_current, thread_next, thread_prev, kernel_execute_thread_switch,
                     is_suspended, block_pipe, pending, depth, interrupt_flags, raised, aborted>>
  BY InIs DEF os_thread_initialize_arch, Free
<1>3. PICK u \in Threads : /\ state[u] = "CREATED" /\ is_suspended[u]
                           /\ state' = [state EXCEPT ![u] = "READY"]
  BY DEF os_thread_initialize_arch
<1>4. /\ state' \in [Threads -> States]
      /\ \A v \in Threads :
            \/ state'[v] = state[v]
            \/ state[v] = "CREATED" /\ is_suspended[v] /\ state'[v] = "READY"
  BY <1>1, <1>3 DEF Values, States
<1>5. \A v \in Threads : StateStep(v)
  BY <1>4 DEF StateStep
<1>6. /\ search' \in [Threads -> [Serving -> [thread : Threads, fresh : BOOLEAN]]]
      /\ \A v \in Threads : \A h \in Serving : HasHost(search[v][h].thread)'
  BY <1>1, <1>2, <1>5, SearchesStay
<1>7. Last(frames[t]).in \in Serving
  BY <1>2 DEF Serving
<1> QED BY <1>1, <1>2, <1>4, <1>6, <1>7, QuietServe DEF Scalars

LEMMA TickStep ==
    ASSUME PosixInv, NEW t \in Threads, sigalrm_handler(t)
    PROVE  PosixInv'
<1>1. Values /\ Targets /\ Scalars
  BY ScalarsIn DEF PosixInv
<1>2. /\ aborted = "no" /\ frames[t] # <<>> /\ Last(frames[t]).in = "ALRM" /\ Last(frames[t]).at = "handle"
      /\ UNCHANGED <<thread_current, thread_next, thread_prev, kernel_execute_thread_switch,
                     is_suspended, block_pipe, pending, syscall, depth, interrupt_flags, raised>>
  BY InIs DEF sigalrm_handler, Free, callVars
<1>3. "yield" \in StepsOf[Last(frames[t]).in] /\ Last(frames[t]).in \in Serving /\ "yield" \in Early
  BY <1>2 DEF StepsOf, Serving, Early
<1>4. CASE aborted' = "tick" /\ UNCHANGED <<state, search, frames>>
  BY <1>1, <1>2, <1>4, AbortStep DEF Scalars, kernelVars, hostVars, callVars
<1>5. CASE /\ \/ UNCHANGED <<state, search>>
              \/ \E u \in Threads :
                    state[u] = "WAITING" /\ state' = Woken(u) /\ search' = Outdated
           /\ Yields(t) /\ UNCHANGED aborted
  <2>1. /\ state' \in [Threads -> States]
        /\ \A v \in Threads :
              \/ state'[v] = state[v]
              \/ state[v] = "WAITING" /\ state'[v] \in {"READY", "RUNNING"}
    <3>1. CASE UNCHANGED <<state, search>>
      BY <1>1, <3>1 DEF Values
    <3>2. CASE \E u \in Threads : state[u] = "WAITING" /\ state' = Woken(u) /\ search' = Outdated
      BY <1>1, <3>2, WokenIs
    <3> QED BY <1>5, <3>1, <3>2
  <2>2. \A u \in Threads : StateStep(u)
    BY <2>1 DEF StateStep
  <2>3. search' = search \/ search' = Outdated
    BY <1>5
  <2>4. /\ search' \in [Threads -> [Serving -> [thread : Threads, fresh : BOOLEAN]]]
        /\ \A u \in Threads : \A h \in Serving : HasHost(search[u][h].thread)'
    BY <1>1, <2>2, <2>3, SearchesStay
  <2>5. frames' = GotoAt(t, "yield") /\ UNCHANGED aborted
    BY <1>5 DEF Yields
  <2> QED BY <1>1, <1>2, <1>3, <2>1, <2>4, <2>5, QuietServe DEF Scalars
<1> QED BY <1>4, <1>5 DEF sigalrm_handler

------------------------------------------------------------------------------
(***************************************************************************)
(* System calls.                                                           *)
(***************************************************************************)

LEMMA CallWrites ==
    ASSUME PosixInv, NEW t \in Threads, syscall[t].id # "none",
           depth' = [depth EXCEPT ![t] = AfterCall(t)]
    PROVE  /\ t # Idle /\ Idle \in Threads
           /\ CallResult(t) \in CallBuffers
           /\ \A u \in Threads \ {t} : CallResult(t)[u] = syscall[u]
           /\ CallResult(t)[t].retval = syscall[t].retval
           /\ CallResult(t)[Idle].id = "none"
           /\ depth' \in [Threads -> 0 .. MaxDepth] /\ depth'[Idle] = 0
<1>1. Values /\ Targets /\ Idle \in Threads
  BY IdleIn DEF PosixInv
<1>2. t # Idle
  BY <1>1 DEF Targets
<1> DEFINE C == [id : {"none", "rpc_return"} \cup Operations,
                 outcome : {"RETURN", "RPC_CALL"}, retval : {"E_NOTAVAIL", "served"}]
           r == [syscall[t] EXCEPT !.outcome = Outcome(t)]
<1>3. syscall \in [Threads -> C] /\ Outcome(t) \in {"RETURN", "RPC_CALL"}
  BY <1>1 DEF Values, Outcome
<1>4. r \in C /\ r.retval = syscall[t].retval
  BY <1>3
<1>5. CallResult(t) = [syscall EXCEPT ![t] = r]
  BY <1>3 DEF CallResult
<1> HIDE DEF C, r
<1>6. /\ CallResult(t) \in [Threads -> C] /\ CallResult(t)[t] = r
      /\ \A u \in Threads \ {t} : CallResult(t)[u] = syscall[u]
  BY <1>3, <1>4, <1>5
<1>7. AfterCall(t) \in 0 .. MaxDepth
  <2>1. depth[t] \in 0 .. MaxDepth /\ MaxDepth \in Nat
    BY <1>1, PosixAssumption DEF Values
  <2> QED BY <2>1 DEF AfterCall
<1>8. depth' \in [Threads -> 0 .. MaxDepth] /\ depth'[Idle] = depth[Idle]
  BY <1>1, <1>2, <1>7 DEF Values
<1> QED BY <1>1, <1>2, <1>4, <1>6, <1>8 DEF C, Targets, CallBuffers

\* A call served in passing: it may wake a thread.
PassingCall(t) ==
    /\ \/ Finish(t, CallResult(t))
       \/ frames' = GotoAt(t, "yield") /\ syscall' = CallResult(t)
    /\ UNCHANGED is_suspended
    /\ search' = search \/ search' = Outdated
    /\ state' \in [Threads -> States]
    /\ \A v \in Threads :
          \/ state'[v] = state[v]
          \/ /\ state[v] = "WAITING" /\ state'[v] \in {"READY", "RUNNING"}
             /\ v # thread_current => state'[v] = "READY"

\* A call that takes its thread off the CPU, and one that creates a thread.
LeavingCall(t, st) ==
    /\ state' = [state EXCEPT ![t] = st] /\ UNCHANGED is_suspended
    /\ frames' = GotoAt(t, "yield") /\ syscall' = CallResult(t) /\ search' = Outdated

CreatingCall(t, u) ==
    /\ state[u] = "EMPTY" /\ state' = [state EXCEPT ![u] = "CREATED"]
    /\ is_suspended' = [is_suspended EXCEPT ![u] = FALSE]
    /\ frames' = [GotoAt(t, "spawn") EXCEPT ![u] = <<[in |-> "start", at |-> "suspend"]>>]
    /\ syscall' = CallResult(t) /\ search' = Outdated

LEMMA ServiceIs ==
    ASSUME PosixInv, NEW t \in Threads, kernel_service_handler(t)
    PROVE  /\ frames[t] # <<>> /\ Last(frames[t]).in = "URG" /\ Last(frames[t]).at = "handle"
           /\ aborted = "no" /\ t = thread_current /\ Position(t) = "run" /\ ~Unstarted(t)
           /\ syscall[t].id # "none" /\ depth' = [depth EXCEPT ![t] = AfterCall(t)]
           /\ UNCHANGED <<thread_current, thread_next, thread_prev, kernel_execute_thread_switch,
                          block_pipe, pending, interrupt_flags, raised, aborted>>
           /\ \/ PassingCall(t)
              \/ \E st \in {"WAITING", "FINISHED"} : LeavingCall(t, st)
              \/ \E u \in Threads : CreatingCall(t, u)
<1>1. Values /\ Token
  BY DEF PosixInv
<1>2. /\ frames[t] # <<>> /\ Last(frames[t]).in = "URG" /\ Last(frames[t]).at = "handle"
      /\ aborted = "no" /\ depth' = [depth EXCEPT ![t] = AfterCall(t)]
      /\ UNCHANGED <<thread_current, thread_next, thread_prev, kernel_execute_thread_switch,
                     block_pipe, pending, interrupt_flags, raised, aborted>>
  BY InIs DEF kernel_service_handler, Free
<1>3. t = thread_current /\ Position(t) = "run" /\ ~Unstarted(t)
  BY <1>1, <1>2, Executing, Places
<1> DEFINE call == CallResult(t)
           id == syscall[t].id
<1>4. \/ id = "yield" /\ Yields(t) /\ syscall' = call /\ UNCHANGED <<state, is_suspended, search>>
      \/ id = "wait" /\ os_wait_for_object(t, call) /\ UNCHANGED is_suspended
      \/ id = "exit" /\ CallLeaves(t, call, "FINISHED") /\ UNCHANGED is_suspended
      \/ id = "wake" /\ os_notify_object(t, call) /\ UNCHANGED is_suspended
      \/ id = "create" /\ CallCreate(t, call)
      \/ /\ id \in {"rpc_call", "rpc_return"}
         /\ Finish(t, call) /\ UNCHANGED <<state, is_suspended, search>>
  BY DEF kernel_service_handler
<1>5. id # "none"
  BY <1>4
<1>6. state \in [Threads -> States]
  BY <1>1 DEF Values
<1> HIDE DEF id
<1>7. ASSUME Finish(t, call) \/ (Yields(t) /\ syscall' = call), UNCHANGED <<state, is_suspended>>,
             search' = search \/ search' = Outdated
      PROVE  PassingCall(t)
  BY <1>6, <1>7 DEF PassingCall, Yields
<1>8. ASSUME NEW st \in {"WAITING", "FINISHED"}, CallLeaves(t, call, st), UNCHANGED is_suspended
      PROVE  LeavingCall(t, st)
  BY <1>8 DEF CallLeaves, LeavingCall, Yields
<1>9. CASE os_wait_for_object(t, call) /\ UNCHANGED is_suspended
  <2>1. CASE Finish(t, call) /\ search' = Outdated /\ UNCHANGED state
    BY <1>2, <1>3, <1>5, <1>7, <1>9, <2>1 DEF id
  <2>2. CASE CallLeaves(t, call, "WAITING")
    BY <1>2, <1>3, <1>5, <1>8, <1>9, <2>2 DEF id
  <2> QED BY <1>9, <2>1, <2>2 DEF os_wait_for_object
<1>10. CASE os_notify_object(t, call) /\ UNCHANGED is_suspended
  <2>1. PassingCall(t)
    BY <1>1, <1>10, NotifyIs DEF PassingCall
  <2> QED BY <1>2, <1>3, <1>5, <2>1 DEF id
<1>11. CASE CallCreate(t, call)
  <2> DEFINE free == {u \in Threads : state[u] = "EMPTY"}
  <2>1. CASE free = {}
    <3>1. Finish(t, call) /\ UNCHANGED <<state, is_suspended, search>>
      BY <1>11, <2>1 DEF CallCreate
    <3> QED BY <1>2, <1>3, <1>5, <1>7, <3>1 DEF id
  <2>2. CASE free # {}
    <3> DEFINE u == CHOOSE u \in free : \A v \in free : u <= v
    <3>1. u \in free
      <4>1. free \subseteq Nat
        BY PosixAssumption DEF Threads
      <4>2. \E x \in free : \A y \in free : x <= y
        <5> HIDE DEF free
        <5> QED BY <2>2, <4>1, LeastNumber
      <4> QED BY <4>2
    <3>2. /\ state' = [state EXCEPT ![u] = "CREATED"]
          /\ is_suspended' = [is_suspended EXCEPT ![u] = FALSE]
          /\ frames' = [GotoAt(t, "spawn") EXCEPT ![u] = <<[in |-> "start", at |-> "suspend"]>>]
          /\ syscall' = call /\ search' = Outdated
      BY <1>11, <2>2, Zenon DEF CallCreate
    <3> HIDE DEF u
    <3>3. u \in Threads /\ state[u] = "EMPTY"
      BY <3>1
    <3>4. CreatingCall(t, u)
      BY <3>2, <3>3, Zenon DEF CreatingCall
    <3> QED BY <1>2, <1>3, <1>5, <3>3, <3>4 DEF id
  <2> QED BY <2>1, <2>2
<1>12. CASE id = "yield" /\ Yields(t) /\ syscall' = call /\ UNCHANGED <<state, is_suspended, search>>
  BY <1>2, <1>3, <1>5, <1>7, <1>12 DEF id
<1>13. CASE Finish(t, call) /\ UNCHANGED <<state, is_suspended, search>>
  BY <1>2, <1>3, <1>5, <1>7, <1>13 DEF id
<1>14. CASE CallLeaves(t, call, "FINISHED") /\ UNCHANGED is_suspended
  BY <1>2, <1>3, <1>5, <1>8, <1>14 DEF id
<1> QED BY <1>4, <1>9, <1>10, <1>11, <1>12, <1>13, <1>14

\* A thread is created: its host is on its way into its first suspension, and
\* the caller waits for it.
LEMMA CreateIs ==
    ASSUME PosixInv, NEW t \in Threads, frames[t] # <<>>, Last(frames[t]).in = "URG",
           NEW u \in Threads, CreatingCall(t, u)
    PROVE  /\ frames[u] = <<>> /\ u # t /\ u # thread_current
           /\ frames' \in [Threads -> Seq(Frames)] /\ \A v \in Threads : Nested(frames'[v])
           /\ frames'[t] # <<>> /\ Len(frames'[t]) = Len(frames[t])
           /\ \A i \in 1 .. Len(frames[t]) - 1 : frames'[t][i] = frames[t][i]
           /\ \A i \in 1 .. Len(frames[t]) : frames'[t][i].in = frames[t][i].in
           /\ Last(frames'[t]) = [in |-> "URG", at |-> "spawn"]
           /\ frames'[t][Len(frames[t])] = Last(frames'[t])
           /\ frames'[t][1] = frames[t][1]
           /\ frames'[u] = <<[in |-> "start", at |-> "suspend"]>>
           /\ Position(u)' = "suspend" /\ Unstarted(u)' /\ frames'[u] # <<>>
           /\ \A v \in Threads \ {t, u} : frames'[v] = frames[v]
           /\ \A v \in Threads \ {u} : /\ Position(v)' = Position(v) /\ Unstarted(v)' = Unstarted(v)
                                       /\ frames'[v] = <<>> <=> frames[v] = <<>>
           /\ state' \in [Threads -> States] /\ state'[u] = "CREATED"
           /\ is_suspended' \in [Threads -> BOOLEAN] /\ is_suspended'[u] = FALSE
           /\ \A v \in Threads \ {u} : state'[v] = state[v] /\ is_suspended'[v] = is_suspended[v]
<1>1. Values /\ Token /\ Agreement /\ Targets
  BY DEF PosixInv
<1>2. 1 \in 1 .. Len(frames[t]) - 1 /\ Len(frames[t]) \in Nat \ {0}
  BY <1>1, Elsewhere, Places DEF Serving
<1>3. frames[u] = <<>> /\ u # t /\ u # thread_current
  BY <1>1 DEF Agreement, CreatingCall, Targets, HasHost
<1> DEFINE f == frames[t]
           g == Moved(f, "spawn")
           h == <<[in |-> "start", at |-> "suspend"]>>
<1>4. /\ frames \in [Threads -> Seq(Frames)] /\ \A v \in Threads : Nested(frames[v])
      /\ f \in Seq(Frames) /\ Nested(f) /\ f # <<>>
  BY <1>1 DEF Values
<1>5. GoesTo(f, "spawn", g)
  <2>1. "spawn" \in StepsOf[Last(f).in] /\ g = Moved(f, "spawn")
    BY DEF StepsOf
  <2> HIDE DEF f, g
  <2> QED BY <1>4, <2>1, GotoFrames, Zenon
<1>6. /\ h \in Seq(Frames) /\ Nested(h) /\ h # <<>> /\ Len(h) = 1 /\ h[1].in = "start"
      /\ PositionIn(h) = "suspend"
  <2>1. [in |-> "start", at |-> "suspend"] \in Frames
    BY DEF Frames
  <2>2. h \in Seq(Frames) /\ Len(h) = 1 /\ h[1] = [in |-> "start", at |-> "suspend"] /\ h # <<>>
    BY <2>1
  <2>3. Nested(h)
    BY <2>1, <2>2 DEF Nested, StepsOf
  <2> QED BY <2>2, <2>3 DEF PositionIn
<1>7. frames' = [[frames EXCEPT ![t] = g] EXCEPT ![u] = h]
  BY DEF CreatingCall, GotoAt, Moved
<1> HIDE DEF g, h
<1>8. /\ frames'[t] = g /\ frames'[u] = h
      /\ \A v \in Threads \ {t, u} : frames'[v] = frames[v]
  BY <1>3, <1>4, <1>7
<1>9. frames' \in [Threads -> Seq(Frames)] /\ \A v \in Threads : Nested(frames'[v])
  <2>1. g \in Seq(Frames) /\ Nested(g)
    BY <1>5 DEF GoesTo
  <2> QED BY <1>4, <1>6, <1>7, <1>8, <2>1
<1>10. /\ frames'[t] # <<>> /\ Len(frames'[t]) = Len(frames[t])
       /\ \A i \in 1 .. Len(frames[t]) - 1 : frames'[t][i] = frames[t][i]
       /\ \A i \in 1 .. Len(frames[t]) : frames'[t][i].in = frames[t][i].in
       /\ Last(frames'[t]) = [in |-> "URG", at |-> "spawn"]
       /\ frames'[t][Len(frames[t])] = Last(frames'[t])
       /\ PositionIn(frames'[t]) = PositionIn(frames[t])
  BY <1>5, <1>8 DEF GoesTo
<1>11. frames'[t][1] = frames[t][1]
  BY <1>2, <1>10
<1>12. /\ Position(u)' = "suspend" /\ Unstarted(u)' /\ frames'[u] # <<>>
       /\ \A v \in Threads \ {u} : /\ Position(v)' = Position(v) /\ Unstarted(v)' = Unstarted(v)
                                   /\ frames'[v] = <<>> <=> frames[v] = <<>>
  BY <1>3, <1>6, <1>8, <1>10, <1>11 DEF Position, Unstarted
<1>13. /\ state' \in [Threads -> States] /\ state'[u] = "CREATED"
       /\ \A v \in Threads \ {u} : state'[v] = state[v] /\ is_suspended'[v] = is_suspended[v]
       /\ is_suspended' \in [Threads -> BOOLEAN] /\ is_suspended'[u] = FALSE
  BY <1>1 DEF Values, States, CreatingCall
<1> QED BY <1>3, <1>8, <1>9, <1>10, <1>11, <1>12, <1>13 DEF h

LEMMA CreateStep ==
    ASSUME PosixInv, NEW t \in Threads, frames[t] # <<>>, aborted = "no",
           Last(frames[t]).in = "URG", Last(frames[t]).at = "handle",
           NEW u \in Threads, CreatingCall(t, u),
           syscall[t].id # "none", depth' = [depth EXCEPT ![t] = AfterCall(t)],
           UNCHANGED <<thread_current, thread_next, thread_prev, kernel_execute_thread_switch,
                       block_pipe, pending, interrupt_flags, raised, aborted>>
    PROVE  PosixInv'
<1>1. Values /\ Token /\ Agreement /\ Targets /\ Calls
  BY DEF PosixInv
<1>2. /\ t = thread_current /\ Position(t) = "run"
      /\ Len(frames[t]) \in Nat \ {0} /\ DOMAIN frames[t] = 1 .. Len(frames[t])
  BY <1>1, Executing, Places
<1>3. /\ frames[u] = <<>> /\ u # t /\ u # thread_current
      /\ frames' \in [Threads -> Seq(Frames)] /\ \A v \in Threads : Nested(frames'[v])
      /\ frames'[t] # <<>> /\ Len(frames'[t]) = Len(frames[t])
      /\ Last(frames'[t]) = [in |-> "URG", at |-> "spawn"]
      /\ frames'[t][Len(frames[t])] = Last(frames'[t])
      /\ frames'[u] = <<[in |-> "start", at |-> "suspend"]>>
      /\ Position(u)' = "suspend" /\ Unstarted(u)' /\ frames'[u] # <<>>
      /\ \A v \in Threads \ {t, u} : frames'[v] = frames[v]
      /\ \A v \in Threads \ {u} : /\ Position(v)' = Position(v) /\ Unstarted(v)' = Unstarted(v)
                                  /\ frames'[v] = <<>> <=> frames[v] = <<>>
      /\ state' \in [Threads -> States] /\ state'[u] = "CREATED"
      /\ is_suspended' \in [Threads -> BOOLEAN] /\ is_suspended'[u] = FALSE
      /\ \A v \in Threads \ {u} : state'[v] = state[v] /\ is_suspended'[v] = is_suspended[v]
  BY CreateIs
<1>4. /\ CallResult(t) \in CallBuffers /\ syscall' = CallResult(t) /\ Idle \in Threads
      /\ \A v \in Threads \ {t} : syscall'[v] = syscall[v]
      /\ syscall'[Idle].id = "none"
      /\ depth' \in [Threads -> 0 .. MaxDepth] /\ depth'[Idle] = 0
      /\ search' = Outdated /\ state[u] = "EMPTY"
  BY CallWrites DEF CreatingCall
<1>5. /\ search' \in [Threads -> [Serving -> [thread : Threads, fresh : BOOLEAN]]]
      /\ \A v \in Threads : \A h \in Serving : search'[v][h].thread = search[v][h].thread
  BY <1>1, <1>4, OutdatedIs
<1>6. Values'
  BY <1>1, <1>3, <1>4, <1>5 DEF Values, CallBuffers
<1>7. /\ thread_current' = t /\ Position(thread_current)' = "run"
  <2>1. thread_current' = t /\ Position(t)' = "run"
    BY <1>2, <1>3
  <2> QED BY <2>1 DEF Position
<1>8. pending[u] = {} /\ "URG" \notin pending[t]
  <2>1. "URG" \in pending[t] => Last(frames[t]).in = "user"
    BY <1>1 DEF Calls, CallStands, Last
  <2> QED BY <1>1, <1>3, <2>1 DEF Token, Unstarted
<1>9. Token'
  <2>1. block_pipe[t] # 1 /\ \A v \in Threads : Position(v) # "resume"
    BY <1>1, <1>2 DEF Token
  <2>2. \A v \in Threads : Position(v)' # "resume"
    BY <1>3, <2>1
  <2>3. ASSUME NEW v \in Threads, v # t
        PROVE  /\ Position(v)' \in {"none", "suspend", "read", "resume"}
               /\ block_pipe'[v] = 0
               /\ pending'[v] \subseteq {"USR1"}
               /\ pending'[v] # {} => Unstarted(v)'
    BY <1>1, <1>2, <1>3, <2>3 DEF Token
  <2> QED BY <1>7, <2>1, <2>2, <2>3 DEF Token
<1>10. Agreement'
  <2> SUFFICES ASSUME NEW v \in Threads
               PROVE  /\ is_suspended'[v] = TRUE <=> Position(v)' \in {"read", "resumed"}
                      /\ state'[v] = "EMPTY" <=> frames'[v] = <<>>
                      /\ state'[v] = "CREATED" => Unstarted(v)' /\ v # t
                      /\ Unstarted(v)' => /\ state'[v] \in {"CREATED", "READY", "RUNNING"}
                                          /\ Position(v)' = "suspend" => state'[v] = "CREATED"
    BY <1>7 DEF Agreement
  <2>1. CASE v = u
    BY <1>3, <2>1
  <2>2. CASE v # u
    BY <1>1, <1>2, <1>3, <2>2 DEF Agreement
  <2> QED BY <2>1, <2>2
<1>11. Targets'
  <2>1. \A v \in Threads : state[v] \notin {"EMPTY", "CREATED"} => state'[v] = state[v]
    BY <1>3, <1>4
  <2>2. /\ thread_next \in Threads /\ HasHost(thread_current)
        /\ \A v \in Threads : \A h \in Serving : search[v][h].thread \in Threads
        /\ \A v \in Threads : \A h \in Serving : HasHost(search[v][h].thread)
    <3>1. /\ search \in [Threads -> [Serving -> [thread : Threads, fresh : BOOLEAN]]]
          /\ thread_next \in Threads
      BY <1>1 DEF Values
    <3>2. \A v \in Threads : \A h \in Serving : search[v][h].thread \in Threads
      BY <3>1
    <3> QED BY <1>1, <3>1, <3>2 DEF Targets
  <2>3. \A v \in Threads : \A h \in Serving : HasHost(search[v][h].thread)'
    <3>1. ASSUME NEW v \in Threads, NEW h \in Serving
          PROVE  state'[search'[v][h].thread] \notin {"EMPTY", "CREATED"}
      <4>1. PICK w \in Threads : w = search[v][h].thread
        BY <2>2
      <4>2. HasHost(w)
        BY <2>2, <4>1
      <4> QED BY <1>5, <2>1, <4>1, <4>2 DEF HasHost
    <3> QED BY <3>1 DEF HasHost
  <2>4. HasHost(thread_current)' /\ CanRun(Idle)'
    BY <1>1, <1>2, <1>4, <1>7, <2>1, <2>2 DEF HasHost, CanRun, Targets
  <2>5. Switching' => Switching
    BY <1>7 DEF Switching
  <2>6. Switching' => HasHost(thread_next)'
    BY <1>1, <2>1, <2>2, <2>5 DEF Targets, HasHost
  <2> QED BY <1>4, <2>3, <2>4, <2>6 DEF Targets
<1>12. Calls'
  <2>1. CallStands(t)'
    <3>1. Len(frames[t]) \in DOMAIN frames'[t]
      BY <1>2, <1>3
    <3> QED BY <1>3, <1>8, <3>1 DEF CallStands
  <2>2. CallStands(u)'
    <3>1. frames'[u][1].at # "called" /\ pending'[u] = {}
      BY <1>3, <1>8
    <3> QED BY <3>1 DEF CallStands
  <2>3. ASSUME NEW v \in Threads, v # t, v # u
        PROVE  CallStands(v)'
    <3>1. CallStands(v) /\ frames'[v] = frames[v] /\ pending'[v] = pending[v] /\ syscall'[v] = syscall[v]
      BY <1>1, <1>3, <1>4, <2>3 DEF Calls
    <3> QED BY <3>1 DEF CallStands, Unstarted
  <2> QED BY <2>1, <2>2, <2>3 DEF Calls
<1> QED BY <1>6, <1>9, <1>10, <1>11, <1>12 DEF PosixInv

LEMMA ServiceStep ==
    ASSUME PosixInv, NEW t \in Threads, kernel_service_handler(t)
    PROVE  PosixInv'
<1>1. Values /\ Targets /\ Scalars
  BY ScalarsIn DEF PosixInv
<1>2. /\ frames[t] # <<>> /\ Last(frames[t]).in = "URG" /\ Last(frames[t]).at = "handle"
      /\ aborted = "no" /\ t = thread_current /\ Position(t) = "run" /\ ~Unstarted(t)
      /\ syscall[t].id # "none" /\ depth' = [depth EXCEPT ![t] = AfterCall(t)]
      /\ UNCHANGED <<thread_current, thread_next, thread_prev, kernel_execute_thread_switch,
                     block_pipe, pending, interrupt_flags, raised, aborted>>
      /\ \/ PassingCall(t)
         \/ \E st \in {"WAITING", "FINISHED"} : LeavingCall(t, st)
         \/ \E u \in Threads : CreatingCall(t, u)
  BY ServiceIs
<1>3. /\ t # Idle /\ Idle \in Threads
      /\ CallResult(t) \in CallBuffers
      /\ \A u \in Threads \ {t} : CallResult(t)[u] = syscall[u]
      /\ CallResult(t)[t].retval = syscall[t].retval
      /\ CallResult(t)[Idle].id = "none"
      /\ depth' \in [Threads -> 0 .. MaxDepth] /\ depth'[Idle] = 0
  BY <1>2, CallWrites
<1>4. Last(frames[t]).in \in Serving /\ "yield" \in StepsOf[Last(frames[t]).in] /\ "yield" \in Early
  BY <1>2 DEF Serving, StepsOf, Early
<1>5. ASSUME Finish(t, CallResult(t)) \/ (frames' = GotoAt(t, "yield") /\ syscall' = CallResult(t)),
             UNCHANGED is_suspended, search' = search \/ search' = Outdated,
             state' \in [Threads -> States],
             \A v \in Threads :
                \/ state'[v] = state[v]
                \/ state[v] = "WAITING" /\ state'[v] \in {"READY", "RUNNING"}
                \/ v = t /\ state'[v] \in {"WAITING", "FINISHED"}
      PROVE  PosixInv'
  <2>1. \A v \in Threads : StateStep(v)
    BY <1>2, <1>5 DEF StateStep
  <2>2. /\ search' \in [Threads -> [Serving -> [thread : Threads, fresh : BOOLEAN]]]
        /\ \A v \in Threads : \A h \in Serving : HasHost(search[v][h].thread)'
    BY <1>1, <1>5, <2>1, SearchesStay
  <2>3. CanRun(Idle)'
    BY <1>1, <1>2, <1>5, <2>1, IdleStays
  <2>4. \E at \in StepsOf[Last(frames[t]).in] :
           /\ frames' = GotoAt(t, at) /\ syscall' \in CallBuffers
           /\ \A u \in Threads \ {t} : syscall'[u] = syscall[u]
           /\ syscall'[Idle].id = "none"
           /\ \/ syscall'[t].retval = "served"
              \/ syscall'[t].retval = syscall[t].retval /\ at \in Early
    <3>1. CASE Finish(t, CallResult(t))
      <4>1. /\ frames' = GotoAt(t, Finished(t)) /\ Finished(t) \in StepsOf[Last(frames[t]).in]
            /\ syscall' \in CallBuffers
            /\ \A u \in Threads \ {t} : syscall'[u] = CallResult(t)[u]
            /\ \A u \in Threads : syscall'[u].id = CallResult(t)[u].id
            /\ syscall'[t].retval = "served"
        BY <1>1, <1>2, <1>3, <1>4, <3>1, FinishIs
      <4> QED BY <1>3, <4>1
    <3>2. CASE frames' = GotoAt(t, "yield") /\ syscall' = CallResult(t)
      BY <1>3, <1>4, <3>2
    <3> QED BY <1>5, <3>1, <3>2
  <2>5. Scalars'
    BY <1>1, <1>2, <1>3, <1>5, <2>2, <2>4 DEF Scalars, CallBuffers
  <2> QED BY <1>2, <1>3, <1>4, <1>5, <2>1, <2>2, <2>3, <2>4, <2>5, ServeStep
<1>6. CASE PassingCall(t)
  BY <1>5, <1>6 DEF PassingCall
<1>7. ASSUME NEW st \in {"WAITING", "FINISHED"}, LeavingCall(t, st)
      PROVE  PosixInv'
  <2>1. /\ state' \in [Threads -> States]
        /\ \A v \in Threads : state'[v] = state[v] \/ (v = t /\ state'[v] \in {"WAITING", "FINISHED"})
    BY <1>1, <1>7 DEF Values, States, LeavingCall
  <2> QED BY <1>5, <1>7, <2>1 DEF LeavingCall
<1>8. ASSUME NEW u \in Threads, CreatingCall(t, u)
      PROVE  PosixInv'
  BY <1>2, <1>8, CreateStep
<1> QED BY <1>2, <1>6, <1>7, <1>8

------------------------------------------------------------------------------
(***************************************************************************)
(* Handlers are entered and left.                                          *)
(***************************************************************************)

\* A handler returns to what it interrupted.
LEMMA LeaveStep ==
    ASSUME PosixInv, NEW t \in Threads, frames[t] # <<>>, Last(frames[t]).in \in Serving,
           Last(frames[t]).at \in {"trigger", "clear"}, aborted = "no", frames' = Returned(t),
           kernel_execute_thread_switch' \in BOOLEAN,
           kernel_execute_thread_switch' => kernel_execute_thread_switch,
           UNCHANGED <<thread_current, thread_next, thread_prev, state, is_suspended,
                       block_pipe, pending, callVars, irqVars, aborted>>
    PROVE  PosixInv'
<1>1. Values /\ Token /\ Agreement /\ Targets /\ Calls /\ Last(frames[t]).in \in Handlers
  BY DEF PosixInv, Serving, Handlers
<1>2. /\ frames' \in [Threads -> Seq(Frames)] /\ \A u \in Threads : Nested(frames'[u])
      /\ \A u \in Threads \ {t} : frames'[u] = frames[u]
      /\ frames'[t] # <<>> /\ Len(frames'[t]) = Len(frames[t]) - 1
      /\ \A i \in 1 .. Len(frames'[t]) : frames'[t][i] = frames[t][i]
      /\ frames'[t][1] = frames[t][1] /\ Last(frames'[t]).in # "USR1"
      /\ PositionIn(frames'[t]) = PositionIn(frames[t])
  BY <1>1, Returns DEF Serving
<1>3. \A u \in Threads :
         /\ Position(u)' = Position(u) /\ Unstarted(u)' = Unstarted(u)
         /\ frames'[u] = <<>> <=> frames[u] = <<>>
  BY <1>2, PlacesKept
<1>4. UNCHANGED <<syscall, depth, search, interrupt_flags, raised>>
  BY DEF callVars, irqVars
<1>5. Token' /\ Agreement' /\ Position(thread_current)' = Position(thread_current)
  <2>1. \A u \in Threads : StateStep(u)
    BY DEF StateStep
  <2>2. \A u \in Threads \ {thread_current} :
           pending'[u] \subseteq {"USR1"} /\ (pending'[u] # {} => Unstarted(u))
    BY <1>1 DEF Token
  <2> QED BY <1>1, <1>3, <2>1, <2>2, HandOverKept
<1>6. Values'
  BY <1>1, <1>2, <1>4 DEF Values
<1>7. Targets'
  <2>1. Switching' => Switching
    BY <1>5 DEF Switching
  <2> QED BY <1>1, <1>4, <2>1 DEF Targets, HasHost, CanRun
<1>8. CallStands(t)'
  <2>1. CallStands(t) /\ pending'[t] = pending[t]
    BY <1>1 DEF Calls
  <2>2. "URG" \notin pending[t]
    <3>1. "URG" \in pending[t] => Last(frames[t]).in = "user"
      BY <2>1 DEF CallStands, Last
    <3> QED BY <3>1 DEF Serving
  <2>3. ASSUME NEW i \in DOMAIN frames[t], frames[t][i].in = "URG",
               frames[t][i].at \in {"handle", "yield", "commit", "spawn"}
        PROVE  i \in DOMAIN frames'[t] /\ frames'[t][i] = frames[t][i]
    <3>1. /\ Len(frames[t]) \in Nat \ {0} /\ DOMAIN frames[t] = 1 .. Len(frames[t])
          /\ Last(frames[t]) = frames[t][Len(frames[t])]
      BY <1>1, Places
    <3>2. i # Len(frames[t])
      BY <2>3, <3>1
    <3>3. DOMAIN frames'[t] = 1 .. Len(frames'[t])
      BY <1>2
    <3>4. i \in 1 .. Len(frames'[t])
      BY <1>2, <3>1, <3>2
    <3> QED BY <1>2, <3>3, <3>4
  <2>4. syscall'[t] = syscall[t] /\ aborted' = aborted
    BY <1>4
  <2> QED BY <1>2, <2>1, <2>2, <2>3, <2>4 DEF CallStands
<1>9. Calls'
  <2>1. /\ \A u \in Threads \ {t} :
              frames'[u] = frames[u] /\ pending'[u] = pending[u] /\ syscall'[u] = syscall[u]
        /\ aborted' = "no" => aborted = "no"
    BY <1>2, <1>4
  <2> QED BY <1>1, <1>8, <2>1, CallsKept
<1> QED BY <1>5, <1>6, <1>7, <1>9 DEF PosixInv

\* Only the handlers that enter the kernel look at the flag.
LEMMA TriggersIn ==
    ASSUME Values, NEW t \in Threads, NEW h \in Handlers, NEW at \in {"trigger", "clear"},
           In(t, h, at)
    PROVE  /\ frames[t] # <<>> /\ Last(frames[t]).in = h /\ Last(frames[t]).at = at
           /\ h \in Serving
<1>1. frames[t] # <<>> /\ Last(frames[t]).in = h /\ Last(frames[t]).at = at
  BY InIs
<1>2. at \in StepsOf[h]
  BY <1>1, Places
<1> QED BY <1>1, <1>2 DEF StepsOf, Handlers, Serving

LEMMA TriggerClearsStep ==
    ASSUME PosixInv, NEW t \in Threads, TriggerClears(t)
    PROVE  PosixInv'
<1>1. PICK h \in Handlers : In(t, h, "clear")
  BY DEF TriggerClears
<1>2. /\ frames[t] # <<>> /\ Last(frames[t]).in \in Serving /\ Last(frames[t]).at = "clear"
  BY <1>1, TriggersIn DEF PosixInv
<1> QED BY <1>2, LeaveStep DEF TriggerClears, Free

LEMMA TriggerStep ==
    ASSUME PosixInv, NEW t \in Threads, trigger_pendsv_if_needed(t)
    PROVE  PosixInv'
<1>1. PICK h \in Handlers : In(t, h, "trigger")
  BY DEF trigger_pendsv_if_needed
<1>2. /\ frames[t] # <<>> /\ Last(frames[t]).in \in Serving /\ Last(frames[t]).at = "trigger"
      /\ aborted = "no"
      /\ UNCHANGED <<thread_current, thread_next, thread_prev, kernel_execute_thread_switch, state,
                     is_suspended, block_pipe, callVars, irqVars, aborted>>
  BY <1>1, TriggersIn DEF PosixInv, trigger_pendsv_if_needed, Free, kernelVars
<1>3. Values /\ Targets /\ Scalars
  BY ScalarsIn DEF PosixInv
<1>4. CASE kernel_execute_thread_switch
  <2>1. /\ pending' = [pending EXCEPT ![t] = @ \cup {"USR1"}] /\ frames' = GotoAt(t, "clear")
        /\ UNCHANGED <<syscall, depth, search, interrupt_flags, raised>>
    BY <1>2, <1>4 DEF trigger_pendsv_if_needed, callVars, irqVars
  <2>2. "clear" \in StepsOf[Last(frames[t]).in] /\ Last(frames[t]).at \notin Early
    BY <1>2 DEF StepsOf, Serving, Early
  <2>3. \A u \in Threads : StateStep(u)
    BY <1>2 DEF StateStep
  <2>4. \A u \in Threads : \A k \in Serving : HasHost(search[u][k].thread)'
    BY <1>3, <2>1, <2>3, SearchesStay
  <2> QED BY <1>2, <1>3, <1>4, <2>1, <2>2, <2>4, QuietServe DEF Scalars
<1>5. CASE ~kernel_execute_thread_switch
  <2>1. frames' = Returned(t) /\ UNCHANGED pending
    BY <1>5 DEF trigger_pendsv_if_needed
  <2> QED BY <1>2, <1>3, <2>1, LeaveStep DEF Scalars
<1> QED BY <1>4, <1>5

\* A signal is taken by a host that does not block it.
LEMMA EnterStep ==
    ASSUME PosixInv, NEW t \in Threads, frames[t] # <<>>, aborted = "no",
           NEW s \in Handlers, s \notin Blocked(t),
           frames' = [frames EXCEPT ![t] = Entered(t, s)],
           pending' = [pending EXCEPT ![t] = @ \ {s}],
           s = "USR1" => s \in pending[t],
           s = "URG" <=> "URG" \in pending[t],
           {interrupt_flags', raised'} \subseteq BOOLEAN,
           UNCHANGED <<kernelVars, is_suspended, block_pipe, callVars, search, aborted>>
    PROVE  PosixInv'
<1>1. Values /\ Token /\ Agreement /\ Targets /\ Calls
  BY DEF PosixInv
<1>2. s = "URG" => pending[t] = {"URG"} /\ frames[t] = <<[in |-> "user", at |-> "called"]>>
  BY <1>1 DEF Calls, CallStands
<1>3. /\ frames' \in [Threads -> Seq(Frames)] /\ \A u \in Threads : Nested(frames'[u])
      /\ \A u \in Threads \ {t} : frames'[u] = frames[u]
      /\ frames'[t] # <<>> /\ Len(frames'[t]) = Len(frames[t]) + 1
      /\ \A i \in 1 .. Len(frames[t]) : frames'[t][i] = frames[t][i]
      /\ frames'[t][1] = frames[t][1]
      /\ Last(frames'[t]) = [in |-> s, at |-> FirstStep(s)]
      /\ frames'[t][Len(frames[t]) + 1] = Last(frames'[t])
      /\ \A i \in 1 .. Len(frames[t]) : s \notin Masks[frames[t][i].in]
      /\ s = "USR1" => PositionIn(frames'[t]) = "switch" /\ PositionIn(frames[t]) = "run"
      /\ s # "USR1" => PositionIn(frames'[t]) = PositionIn(frames[t])
  BY <1>1, <1>2, Enters
<1>4. UNCHANGED <<thread_current, thread_next, thread_prev, kernel_execute_thread_switch, state,
                  syscall, depth>>
  BY DEF kernelVars, callVars
<1>5. /\ Len(frames[t]) \in Nat \ {0} /\ DOMAIN frames[t] = 1 .. Len(frames[t])
      /\ DOMAIN frames'[t] = 1 .. Len(frames[t]) + 1
  BY <1>1, <1>3, Places
<1>6. /\ pending \in [Threads -> SUBSET {"USR1", "URG"}]
      /\ pending'[t] = pending[t] \ {s}
      /\ \A u \in Threads \ {t} : pending'[u] = pending[u]
  BY <1>1 DEF Values
<1>7. pending' \in [Threads -> SUBSET {"USR1", "URG"}]
  BY <1>6
<1>8. Values'
  BY <1>1, <1>3, <1>4, <1>7 DEF Values
<1>9. \A u \in Threads : Unstarted(u)' = Unstarted(u) /\ (frames'[u] = <<>> <=> frames[u] = <<>>)
  BY <1>3 DEF Unstarted
<1>10. \A u \in Threads : StateStep(u)
  BY <1>4 DEF StateStep
<1>11. \A u \in Threads \ {thread_current} :
          pending'[u] \subseteq {"USR1"} /\ (pending'[u] # {} => Unstarted(u))
  BY <1>1, <1>6 DEF Token
<1>12. /\ Token' /\ Agreement'
       /\ Switching' => Switching
  <2>1. CASE s # "USR1"
    <3>1. \A u \in Threads : Position(u)' = Position(u)
      BY <1>3, <2>1 DEF Position
    <3>2. Token' /\ Agreement' /\ Position(thread_current)' = Position(thread_current)
      BY <1>1, <1>4, <1>9, <1>10, <1>11, <3>1, HandOverKept
    <3> QED BY <1>4, <1>6, <3>2 DEF Switching
  <2>2. CASE s = "USR1"
    <3>1. /\ Position(t)' = "switch" /\ Position(t) = "run" /\ ~Unstarted(t)
          /\ \A u \in Threads \ {t} : Position(u)' = Position(u)
      <4>1. 1 \in 1 .. Len(frames[t])
        BY <1>5
      <4>2. s \notin Masks[frames[t][1].in]
        BY <1>3, <4>1
      <4>3. frames[t][1].in # "start"
        BY <2>2, <4>2 DEF Masks
      <4> QED BY <1>3, <2>2, <4>3 DEF Position, Unstarted
    <3>2. t = thread_current
      BY <1>1, <3>1 DEF Token
    <3>3. thread_current' = t /\ Position(thread_current)' = "switch"
      BY <1>4, <3>1, <3>2 DEF Position
    <3>4. block_pipe[t] # 1 /\ \A u \in Threads : Position(u) # "resume"
      BY <1>1, <3>1, <3>2 DEF Token
    <3>5. \A u \in Threads : Position(u)' # "resume"
      BY <3>1, <3>4
    <3>6. Token'
      BY <1>1, <1>9, <1>11, <3>1, <3>2, <3>3, <3>4, <3>5 DEF Token
    <3>7. Agreement'
      BY <1>1, <1>4, <1>9, <3>1, <3>2, <3>3 DEF Agreement
    <3>8. Switching
      BY <2>2 DEF Switching
    <3> QED BY <3>6, <3>7, <3>8
  <2> QED BY <2>1, <2>2
<1>13. Targets'
  BY <1>1, <1>4, <1>12 DEF Targets, HasHost, CanRun
<1>14. CallStands(t)'
  <2>1. CallStands(t)
    BY <1>1 DEF Calls
  <2>2. "URG" \notin pending'[t]
    BY <1>6
  <2>3. "USR1" \in pending'[t] => s # "USR1"
    BY <1>6
  <2>4. CASE s = "URG"
    <3>1. Len(frames[t]) + 1 \in DOMAIN frames'[t] /\ frames'[t][Len(frames[t]) + 1] = [in |-> "URG", at |-> "handle"]
      BY <1>3, <1>5, <2>4 DEF FirstStep
    <3> QED BY <1>3, <2>2, <2>3, <2>4, <3>1 DEF CallStands
  <2>5. CASE s # "URG"
    <3>1. \A i \in DOMAIN frames[t] : i \in DOMAIN frames'[t] /\ frames'[t][i] = frames[t][i]
      BY <1>3, <1>5
    <3> QED BY <1>3, <1>4, <2>1, <2>2, <2>3, <2>5, <3>1 DEF CallStands
  <2> QED BY <2>4, <2>5
<1>15. Calls'
  BY <1>1, <1>3, <1>4, <1>6, <1>14, CallsKept
<1> QED BY <1>8, <1>12, <1>13, <1>15 DEF PosixInv

LEMMA DeliverPendingStep ==
    ASSUME PosixInv, NEW t \in Threads, NEW s \in Handlers, DeliverPending(t, s)
    PROVE  PosixInv'
<1>1. Values /\ Calls
  BY DEF PosixInv
<1>2. /\ aborted = "no" /\ frames[t] # <<>> /\ s \in pending[t] /\ s \notin Blocked(t)
      /\ pending' = [pending EXCEPT ![t] = @ \ {s}]
      /\ frames' = [frames EXCEPT ![t] = Entered(t, s)]
      /\ UNCHANGED <<kernelVars, is_suspended, block_pipe, callVars, irqVars, aborted>>
  BY DEF DeliverPending
<1>3. s = "URG" <=> "URG" \in pending[t]
  BY <1>1, <1>2 DEF Calls, CallStands
<1>4. {interrupt_flags', raised'} \subseteq BOOLEAN /\ UNCHANGED search
  BY <1>1, <1>2 DEF Values, irqVars
<1> QED BY <1>2, <1>3, <1>4, EnterStep

\* Signals sent to the process.
LEMMA DeliveredStep ==
    ASSUME PosixInv, NEW t \in Threads, NEW s \in {"ALRM", "USR2"}, Delivered(t, s),
           {interrupt_flags', raised'} \subseteq BOOLEAN, UNCHANGED aborted
    PROVE  PosixInv'
<1>1. Values /\ Calls
  BY DEF PosixInv
<1>2. /\ aborted = "no" /\ frames[t] # <<>> /\ s \notin Blocked(t) /\ pending[t] \subseteq Blocked(t)
      /\ frames' = [frames EXCEPT ![t] = Entered(t, s)]
      /\ UNCHANGED <<kernelVars, is_suspended, block_pipe, pending, callVars, search>>
  BY DEF Delivered, Free
<1>3. "URG" \notin pending[t]
  <2> SUFFICES ASSUME "URG" \in pending[t] PROVE FALSE
    OBVIOUS
  <2>1. frames[t] = <<[in |-> "user", at |-> "called"]>>
    BY <1>1 DEF Calls, CallStands
  <2>2. Last(frames[t]).in = "user"
    BY <2>1 DEF Last
  <2> QED BY <1>1, <1>2, <2>2, NothingPending DEF Free
<1>4. pending \in [Threads -> SUBSET {"USR1", "URG"}]
  BY <1>1 DEF Values
<1>5. pending' = [pending EXCEPT ![t] = @ \ {s}]
  <2>1. pending[t] \ {s} = pending[t]
    BY <1>4
  <2> QED BY <1>2, <1>4, <2>1
<1>6. s \in Handlers
  BY DEF Handlers
<1> QED BY <1>2, <1>3, <1>5, <1>6, EnterStep

------------------------------------------------------------------------------
(***************************************************************************)
(* The hand-over.                                                          *)
(***************************************************************************)

\* A step of the hand-over on one host.
LEMMA MovesOn ==
    ASSUME Values, NEW t \in Threads, frames[t] # <<>>, Last(frames[t]).in \in {"start", "USR1"},
           NEW at, at \in StepsOf[Last(frames[t]).in], frames' = GotoAt(t, at)
    PROVE  /\ frames' \in [Threads -> Seq(Frames)] /\ \A u \in Threads : Nested(frames'[u])
           /\ Position(t)' = at /\ Position(t) = Last(frames[t]).at
           /\ Last(frames[t]).in = "start" <=> Unstarted(t)
           /\ frames'[t] # <<>> /\ Last(frames'[t]) = [in |-> Last(frames[t]).in, at |-> at]
           /\ \A u \in Threads : /\ Unstarted(u)' = Unstarted(u)
                                 /\ frames'[u] = <<>> <=> frames[u] = <<>>
           /\ \A u \in Threads \ {t} : Position(u)' = Position(u) /\ frames'[u] = frames[u]
<1>1. /\ frames' \in [Threads -> Seq(Frames)] /\ \A u \in Threads : Nested(frames'[u])
      /\ \A u \in Threads \ {t} : frames'[u] = frames[u]
      /\ frames'[t] # <<>>
      /\ \A i \in 1 .. Len(frames[t]) : frames'[t][i].in = frames[t][i].in
      /\ Last(frames'[t]) = [in |-> Last(frames[t]).in, at |-> at]
      /\ PositionIn(frames'[t]) = at
  BY Goes
<1>2. 1 \in 1 .. Len(frames[t])
  BY Places
<1>3. frames'[t][1].in = frames[t][1].in
  BY <1>1, <1>2
<1>4. \A u \in Threads : /\ Unstarted(u)' = Unstarted(u)
                         /\ frames'[u] = <<>> <=> frames[u] = <<>>
  BY <1>1, <1>3 DEF Unstarted
<1>5. Position(t) = Last(frames[t]).at /\ (Last(frames[t]).in = "start" <=> Unstarted(t))
  <2>1. CASE Last(frames[t]).in = "start"
    <3>1. Len(frames[t]) = 1 /\ Unstarted(t) /\ Last(frames[t]) = frames[t][Len(frames[t])]
      BY <2>1, Places
    <3> QED BY <2>1, <3>1, Places
  <2>2. CASE Last(frames[t]).in = "USR1"
    BY <2>2, Places
  <2> QED BY <2>1, <2>2
<1> QED BY <1>1, <1>4, <1>5 DEF Position

\* It leaves alone what the calls and the switches are about.
LEMMA MovingKeeps ==
    ASSUME PosixInv, NEW t \in Threads, frames[t] # <<>>, Last(frames[t]).in \in {"start", "USR1"},
           NEW at, at \in StepsOf[Last(frames[t]).in], frames' = GotoAt(t, at), at # "switch",
           UNCHANGED <<kernelVars, pending, callVars, irqVars, aborted>>
    PROVE  Targets' /\ Calls'
<1>1. Values /\ Token /\ Targets /\ Calls
  BY DEF PosixInv
<1>2. UNCHANGED <<thread_current, thread_next, thread_prev, kernel_execute_thread_switch, state,
                  syscall, depth, search, pending, aborted>>
  BY DEF kernelVars, callVars, irqVars
<1>3. /\ Position(t)' = at
      /\ \A u \in Threads : Unstarted(u)' = Unstarted(u)
      /\ \A u \in Threads \ {t} : Position(u)' = Position(u) /\ frames'[u] = frames[u]
      /\ frames'[t] # <<>> /\ Last(frames'[t]) = [in |-> Last(frames[t]).in, at |-> at]
      /\ Last(frames[t]).in = "start" <=> Unstarted(t)
  BY <1>1, MovesOn
<1>4. Targets'
  <2>1. thread_current \in Threads /\ thread_current' = thread_current
    BY <1>1, <1>2 DEF Values
  <2>2. Position(thread_current)' = "switch" => Position(thread_current) = "switch"
    <3>1. CASE thread_current = t
      <4>1. Position(thread_current)' = at
        BY <1>2, <1>3, <3>1 DEF Position
      <4> QED BY <4>1
    <3>2. CASE thread_current # t
      <4>1. Position(thread_current)' = Position(thread_current)
        BY <1>3, <2>1, <3>2 DEF Position
      <4> QED BY <4>1
    <3> QED BY <3>1, <3>2
  <2>3. Switching' => Switching
    BY <1>2, <2>2 DEF Switching
  <2> QED BY <1>1, <1>2, <2>3 DEF Targets, HasHost, CanRun
<1>5. CallStands(t)'
  <2>1. CallStands(t)
    BY <1>1 DEF Calls
  <2>2. "URG" \notin pending[t]
    <3>1. "URG" \in pending[t] => Last(frames[t]).in = "user"
      BY <2>1 DEF CallStands, Last
    <3> QED BY <3>1
  <2>3. CASE Last(frames[t]).in = "start"
    <3>1. frames'[t][1].at # "called" \/ ~Nested(frames'[t]) \/ frames'[t] \notin Seq(Frames)
      <4> SUFFICES ASSUME Nested(frames'[t]), frames'[t] \in Seq(Frames)
                   PROVE  frames'[t][1].at # "called"
        OBVIOUS
      <4>1. frames'[t][1].in = "start"
        BY <1>3, <2>3 DEF Unstarted
      <4>2. 1 \in 1 .. Len(frames'[t])
        BY <1>3
      <4>3. frames'[t][1].at \in StepsOf["start"]
        BY <4>1, <4>2 DEF Nested
      <4> QED BY <4>3 DEF StepsOf
    <3>2. Nested(frames'[t]) /\ frames'[t] \in Seq(Frames)
      BY <1>1, MovesOn
    <3> QED BY <1>2, <1>3, <2>2, <2>3, <3>1, <3>2 DEF CallStands
  <2>4. CASE Last(frames[t]).in = "USR1"
    <3>1. /\ Len(frames[t]) # 1 /\ Len(frames[t]) \in Nat \ {0} /\ Last(frames[t]) = frames[t][Len(frames[t])]
          /\ DOMAIN frames[t] = 1 .. Len(frames[t])
      BY <1>1, <2>4, Places
    <3>2. /\ \A i \in 1 .. Len(frames[t]) - 1 : frames'[t][i] = frames[t][i]
          /\ Len(frames'[t]) = Len(frames[t]) /\ frames' \in [Threads -> Seq(Frames)]
      BY <1>1, Goes
    <3>3. \A m \in Nat \ {0} : m # 1 => 1 \in 1 .. m - 1
      OBVIOUS
    <3>4. frames'[t][1] = frames[t][1]
      BY <3>1, <3>2, <3>3
    <3>5. "USR1" \notin pending[t]
      BY <1>3, <2>1, <2>4 DEF CallStands
    <3>6. \A i \in DOMAIN frames[t] : frames[t][i].in # "URG"
      BY <1>1, <2>4, NoUrgBelow
    <3> QED BY <1>2, <2>1, <2>2, <3>4, <3>5, <3>6 DEF CallStands
  <2> QED BY <2>3, <2>4
<1>6. Calls'
  BY <1>1, <1>2, <1>3, <1>5, CallsKept
<1> QED BY <1>4, <1>6

LEMMA SuspendStep ==
    ASSUME PosixInv, NEW t \in Threads, thread_suspend_execution(t)
    PROVE  PosixInv'
<1>1. Values /\ Token /\ Agreement
  BY DEF PosixInv
<1>2. /\ frames[t] # <<>> /\ Last(frames[t]).in \in {"start", "USR1"} /\ Last(frames[t]).at = "suspend"
      /\ is_suspended' = [is_suspended EXCEPT ![t] = TRUE] /\ frames' = GotoAt(t, "read")
      /\ UNCHANGED <<kernelVars, block_pipe, pending, callVars, irqVars, aborted>>
  BY InIs DEF thread_suspend_execution, Suspends
<1>3. "read" \in StepsOf[Last(frames[t]).in]
  BY <1>2 DEF StepsOf
<1>4. /\ frames' \in [Threads -> Seq(Frames)] /\ \A u \in Threads : Nested(frames'[u])
      /\ Position(t)' = "read" /\ Position(t) = "suspend"
      /\ \A u \in Threads : /\ Unstarted(u)' = Unstarted(u)
                            /\ frames'[u] = <<>> <=> frames[u] = <<>>
      /\ \A u \in Threads \ {t} : Position(u)' = Position(u)
  BY <1>1, <1>2, <1>3, MovesOn
<1>5. Targets' /\ Calls'
  BY <1>2, <1>3, MovingKeeps
<1>6. UNCHANGED <<thread_current, thread_next, thread_prev, kernel_execute_thread_switch, state,
                  syscall, depth, search, interrupt_flags, raised>>
  BY <1>2 DEF kernelVars, callVars, irqVars
<1>7. Values'
  BY <1>1, <1>2, <1>4, <1>6 DEF Values
<1>8. PICK c \in Threads : c = thread_current /\ thread_current' = c /\ Position(thread_current)' = Position(c)'
  BY <1>1, <1>6 DEF Values, Position
<1>9. Token'
  <2>1. \A u \in Threads : Position(u)' = "resume" <=> Position(u) = "resume"
    BY <1>4
  <2>2. Position(c)' = Position(c) \/ (Position(c)' = "read" /\ Position(c) = "suspend")
    BY <1>4
  <2> QED BY <1>1, <1>2, <1>4, <1>8, <2>1, <2>2 DEF Token
<1>10. Agreement'
  <2> SUFFICES ASSUME NEW u \in Threads
               PROVE  /\ is_suspended'[u] = TRUE <=> Position(u)' \in {"read", "resumed"}
                      /\ state'[u] = "EMPTY" <=> frames'[u] = <<>>
                      /\ state'[u] = "CREATED" => Unstarted(u)' /\ u # c
                      /\ Unstarted(u)' => /\ state'[u] \in {"CREATED", "READY", "RUNNING"}
                                          /\ Position(u)' = "suspend" => state'[u] = "CREATED"
    BY <1>8 DEF Agreement
  <2> QED BY <1>1, <1>2, <1>4, <1>6, <1>8 DEF Agreement, Values
<1> QED BY <1>5, <1>7, <1>9, <1>10 DEF PosixInv

LEMMA SuspendReadStep ==
    ASSUME PosixInv, NEW t \in Threads, SuspendRead(t)
    PROVE  PosixInv'
<1>1. Values /\ Token /\ Agreement
  BY DEF PosixInv
<1>2. /\ frames[t] # <<>> /\ Last(frames[t]).in \in {"start", "USR1"} /\ Last(frames[t]).at = "read"
      /\ block_pipe[t] > 0 /\ block_pipe' = [block_pipe EXCEPT ![t] = @ - 1]
      /\ frames' = GotoAt(t, "resumed")
      /\ UNCHANGED <<kernelVars, is_suspended, pending, callVars, irqVars, aborted>>
  BY InIs DEF SuspendRead
<1>3. "resumed" \in StepsOf[Last(frames[t]).in]
  BY <1>2 DEF StepsOf
<1>4. /\ frames' \in [Threads -> Seq(Frames)] /\ \A u \in Threads : Nested(frames'[u])
      /\ Position(t)' = "resumed" /\ Position(t) = "read"
      /\ \A u \in Threads : /\ Unstarted(u)' = Unstarted(u)
                            /\ frames'[u] = <<>> <=> frames[u] = <<>>
      /\ \A u \in Threads \ {t} : Position(u)' = Position(u)
  BY <1>1, <1>2, <1>3, MovesOn
<1>5. Targets' /\ Calls'
  BY <1>2, <1>3, MovingKeeps
<1>6. UNCHANGED <<thread_current, thread_next, thread_prev, kernel_execute_thread_switch, state,
                  syscall, depth, search, interrupt_flags, raised>>
  BY <1>2 DEF kernelVars, callVars, irqVars
<1>7. /\ block_pipe[t] = 1 /\ block_pipe' \in [Threads -> 0 .. 1] /\ block_pipe'[t] = 0
      /\ \A u \in Threads \ {t} : block_pipe'[u] = block_pipe[u]
  <2>1. block_pipe \in [Threads -> 0 .. 1] /\ block_pipe[t] \in 0 .. 1
    BY <1>1 DEF Values
  <2>2. block_pipe[t] = 1
    BY <1>2, <2>1
  <2> QED BY <1>2, <2>1, <2>2
<1>8. Values'
  BY <1>1, <1>2, <1>4, <1>6, <1>7 DEF Values
<1>9. t = thread_current /\ thread_current' = t
  BY <1>1, <1>6, <1>7 DEF Token
<1>10. Position(thread_current)' = "resumed"
  BY <1>4, <1>9 DEF Position
<1>11. Token'
  <2>1. \A u \in Threads : Position(u) # "resume"
    BY <1>1, <1>7, <1>9 DEF Token
  <2>2. \A u \in Threads : Position(u)' # "resume"
    BY <1>4, <2>1
  <2> QED BY <1>1, <1>2, <1>4, <1>7, <1>9, <1>10, <2>2 DEF Token
<1>12. Agreement'
  BY <1>1, <1>2, <1>4, <1>6, <1>9 DEF Agreement
<1> QED BY <1>5, <1>8, <1>11, <1>12 DEF PosixInv

LEMMA SuspendEndsStep ==
    ASSUME PosixInv, NEW t \in Threads, SuspendEnds(t)
    PROVE  PosixInv'
<1>1. Values /\ Token /\ Agreement
  BY DEF PosixInv
<1>2. /\ frames[t] # <<>> /\ Last(frames[t]).in \in {"start", "USR1"} /\ Last(frames[t]).at = "resumed"
      /\ is_suspended' = [is_suspended EXCEPT ![t] = FALSE] /\ frames' = GotoAt(t, AfterResume(t))
      /\ UNCHANGED <<kernelVars, block_pipe, pending, callVars, irqVars, aborted>>
  BY InIs DEF SuspendEnds
<1>3. PICK at : at = AfterResume(t)
  OBVIOUS
<1>4. at \in StepsOf[Last(frames[t]).in] /\ at \in {"wait", "unblock"}
  BY <1>2, <1>3 DEF StepsOf, AfterResume
<1>5. /\ frames' \in [Threads -> Seq(Frames)] /\ \A u \in Threads : Nested(frames'[u])
      /\ Position(t)' = at /\ Position(t) = "resumed"
      /\ \A u \in Threads : /\ Unstarted(u)' = Unstarted(u)
                            /\ frames'[u] = <<>> <=> frames[u] = <<>>
      /\ \A u \in Threads \ {t} : Position(u)' = Position(u)
  BY <1>1, <1>2, <1>3, <1>4, MovesOn
<1>6. Targets' /\ Calls'
  BY <1>2, <1>3, <1>4, MovingKeeps
<1>7. UNCHANGED <<thread_current, thread_next, thread_prev, kernel_execute_thread_switch, state,
                  syscall, depth, search, interrupt_flags, raised>>
  BY <1>2 DEF kernelVars, callVars, irqVars
<1>8. Values'
  BY <1>1, <1>2, <1>5, <1>7 DEF Values
<1>9. t = thread_current /\ thread_current' = t
  BY <1>1, <1>2, <1>7, Executing
<1>10. Position(thread_current)' = at
  BY <1>5, <1>9 DEF Position
<1>11. Token'
  <2>1. block_pipe[t] # 1 /\ \A u \in Threads : Position(u) # "resume"
    BY <1>1, <1>5, <1>9 DEF Token
  <2>2. \A u \in Threads : Position(u)' # "resume"
    BY <1>4, <1>5, <2>1
  <2> QED BY <1>1, <1>2, <1>4, <1>5, <1>9, <1>10, <2>1, <2>2 DEF Token
<1>12. Agreement'
  BY <1>1, <1>2, <1>4, <1>5, <1>7, <1>9 DEF Agreement, Values
<1> QED BY <1>6, <1>8, <1>11, <1>12 DEF PosixInv

LEMMA SwitchWaitsStep ==
    ASSUME PosixInv, NEW t \in Threads, SwitchWaits(t)
    PROVE  PosixInv'
<1>1. Values /\ Token /\ Agreement
  BY DEF PosixInv
<1>2. /\ frames[t] # <<>> /\ Last(frames[t]).in = "USR1" /\ Last(frames[t]).at = "wait"
      /\ frames' = GotoAt(t, "signal")
      /\ UNCHANGED <<kernelVars, is_suspended, block_pipe, pending, callVars, irqVars, aborted>>
  BY InIs DEF SwitchWaits
<1>3. "signal" \in StepsOf[Last(frames[t]).in]
  BY <1>2 DEF StepsOf
<1>4. /\ frames' \in [Threads -> Seq(Frames)] /\ \A u \in Threads : Nested(frames'[u])
      /\ Position(t)' = "signal" /\ Position(t) = "wait" /\ ~Unstarted(t)
      /\ \A u \in Threads : /\ Unstarted(u)' = Unstarted(u)
                            /\ frames'[u] = <<>> <=> frames[u] = <<>>
      /\ \A u \in Threads \ {t} : Position(u)' = Position(u)
  BY <1>1, <1>2, <1>3, MovesOn
<1>5. Targets' /\ Calls'
  BY <1>2, <1>3, MovingKeeps
<1>6. UNCHANGED <<thread_current, thread_next, thread_prev, kernel_execute_thread_switch, state,
                  syscall, depth, search, interrupt_flags, raised>>
  BY <1>2 DEF kernelVars, callVars, irqVars
<1>7. Values'
  BY <1>1, <1>2, <1>4, <1>6 DEF Values
<1>8. t = thread_current /\ thread_current' = t
  BY <1>1, <1>2, <1>6, Executing
<1>9. Position(thread_current)' = "signal"
  BY <1>4, <1>8 DEF Position
<1>10. Token'
  <2>1. block_pipe[t] # 1 /\ \A u \in Threads : Position(u) # "resume"
    BY <1>1, <1>4, <1>8 DEF Token
  <2>2. \A u \in Threads : Position(u)' # "resume"
    BY <1>4, <2>1
  <2> QED BY <1>1, <1>2, <1>4, <1>8, <1>9, <2>1, <2>2 DEF Token
<1>11. Agreement'
  BY <1>1, <1>2, <1>4, <1>6, <1>8 DEF Agreement
<1> QED BY <1>5, <1>7, <1>10, <1>11 DEF PosixInv

LEMMA ResumeStep ==
    ASSUME PosixInv, NEW t \in Threads, thread_resume_execution(t)
    PROVE  PosixInv'
<1>1. Values /\ Token /\ Agreement
  BY DEF PosixInv
<1>2. /\ aborted = "no"
      /\ frames[t] # <<>> /\ Last(frames[t]).in = "USR1" /\ Last(frames[t]).at = "resume"
      /\ UNCHANGED <<kernelVars, is_suspended, pending, callVars, irqVars>>
  BY InIs DEF thread_resume_execution, Free
<1>3. UNCHANGED <<thread_current, thread_next, thread_prev, kernel_execute_thread_switch, state,
                  syscall, depth, search, interrupt_flags, raised>>
  BY <1>2 DEF kernelVars, callVars, irqVars
<1>4. PICK c \in Threads : c = thread_current /\ thread_current' = c
  BY <1>1, <1>3 DEF Values
<1>5. Position(t) = "resume" /\ ~Unstarted(t)
  BY <1>1, <1>2, Places
<1>6. /\ t # c /\ Position(c) \in {"suspend", "read"} /\ block_pipe[c] = 0
      /\ \A u \in Threads : Position(u) = "resume" => u = t
  BY <1>1, <1>4, <1>5 DEF Token
<1>7. CASE is_suspended[c] = TRUE
  <2>1. /\ block_pipe' = [block_pipe EXCEPT ![c] = @ + 1] /\ frames' = GotoAt(t, "suspend")
        /\ UNCHANGED aborted
    BY <1>4, <1>7 DEF thread_resume_execution
  <2>2. Position(c) = "read"
    BY <1>1, <1>6, <1>7 DEF Agreement
  <2>3. "suspend" \in StepsOf[Last(frames[t]).in]
    BY <1>2 DEF StepsOf
  <2>4. /\ frames' \in [Threads -> Seq(Frames)] /\ \A u \in Threads : Nested(frames'[u])
        /\ Position(t)' = "suspend"
        /\ \A u \in Threads : /\ Unstarted(u)' = Unstarted(u)
                              /\ frames'[u] = <<>> <=> frames[u] = <<>>
        /\ \A u \in Threads \ {t} : Position(u)' = Position(u)
    BY <1>1, <1>2, <2>1, <2>3, MovesOn
  <2>5. Targets' /\ Calls'
    BY <1>2, <2>1, <2>3, MovingKeeps
  <2>6. /\ block_pipe' \in [Threads -> 0 .. 1] /\ block_pipe'[c] = 1
        /\ \A u \in Threads \ {c} : block_pipe'[u] = block_pipe[u]
    BY <1>1, <1>6, <2>1 DEF Values
  <2>7. Values'
    BY <1>1, <1>2, <1>3, <2>1, <2>4, <2>6 DEF Values
  <2>8. Position(thread_current)' = "read"
    <3>1. Position(c)' = "read"
      BY <1>6, <2>2, <2>4
    <3> QED BY <1>4, <3>1 DEF Position
  <2>9. Token'
    <3>1. \A u \in Threads : Position(u)' # "resume"
      BY <1>6, <2>4
    <3> QED BY <1>1, <1>2, <1>4, <1>6, <2>4, <2>6, <2>8, <3>1 DEF Token
  <2>10. Agreement'
    BY <1>1, <1>2, <1>3, <1>4, <1>5, <1>6, <2>4 DEF Agreement
  <2> QED BY <2>5, <2>7, <2>9, <2>10 DEF PosixInv
<1>8. CASE is_suspended[c] # TRUE
  <2>1. aborted' = "resume" /\ UNCHANGED <<block_pipe, frames>>
    BY <1>1, <1>4, <1>8 DEF thread_resume_execution, Values
  <2>2. {interrupt_flags', raised'} \subseteq BOOLEAN
    BY <1>1, <1>3 DEF Values
  <2> QED BY <1>2, <1>3, <2>1, <2>2, AbortStep DEF hostVars
<1> QED BY <1>7, <1>8

LEMMA StartupStep ==
    ASSUME PosixInv, NEW t \in Threads, thread_startup_handler(t)
    PROVE  PosixInv'
<1>1. Values /\ Token /\ Agreement /\ Targets /\ Calls
  BY DEF PosixInv
<1>2. /\ frames[t] # <<>> /\ Last(frames[t]).in = "start" /\ Last(frames[t]).at = "unblock"
      /\ frames' = [frames EXCEPT ![t] = <<[in |-> "user", at |-> "run"]>>]
      /\ UNCHANGED <<kernelVars, is_suspended, block_pipe, pending, callVars, irqVars, aborted>>
  BY InIs DEF thread_startup_handler
<1>3. t = thread_current
  BY <1>1, <1>2, Executing
<1>4. Unstarted(t) /\ Position(t) = "unblock"
  <2>1. Len(frames[t]) = 1 /\ Unstarted(t)
    BY <1>1, <1>2, Places
  <2> QED BY <1>1, <1>2, <2>1, Places
<1>5. PICK f : f = <<[in |-> "user", at |-> "run"]>>
  OBVIOUS
<1>6. f \in Seq(Frames) /\ Nested(f) /\ Len(f) = 1 /\ f # <<>> /\ DOMAIN f = {1}
      /\ f[1] = [in |-> "user", at |-> "run"] /\ Last(f) = f[1]
  <2>1. [in |-> "user", at |-> "run"] \in Frames
    BY DEF Frames
  <2>2. f \in Seq(Frames) /\ Len(f) = 1 /\ f # <<>> /\ DOMAIN f = {1}
        /\ f[1] = [in |-> "user", at |-> "run"]
    BY <1>5, <2>1
  <2> QED BY <2>1, <2>2 DEF Nested, StepsOf, Last
<1>7. PositionIn(f) = "run"
  BY <1>6 DEF PositionIn
<1>8. frames'[t] = f /\ \A u \in Threads \ {t} : frames'[u] = frames[u]
  BY <1>1, <1>2, <1>5 DEF Values
<1>9. UNCHANGED <<thread_current, thread_next, thread_prev, kernel_execute_thread_switch, state,
                  syscall, depth, search, interrupt_flags, raised>>
  BY <1>2 DEF kernelVars, callVars, irqVars
<1>10. Values'
  <2>1. frames' \in [Threads -> Seq(Frames)] /\ \A u \in Threads : Nested(frames'[u])
    BY <1>1, <1>2, <1>5, <1>6, <1>8 DEF Values
  <2> QED BY <1>1, <1>2, <1>9, <2>1 DEF Values
<1>11. /\ Position(t)' = "run" /\ Unstarted(t)' = FALSE
       /\ \A u \in Threads \ {t} : Position(u)' = Position(u) /\ Unstarted(u)' = Unstarted(u)
  BY <1>6, <1>7, <1>8 DEF Position, Unstarted
<1>12. thread_current' = t /\ Position(thread_current)' = "run"
  <2>1. thread_current' = t
    BY <1>3, <1>9
  <2> QED BY <1>11, <2>1 DEF Position
<1>13. Token'
  <2>1. block_pipe[t] # 1 /\ \A u \in Threads : Position(u) # "resume"
    BY <1>1, <1>3, <1>4 DEF Token
  <2>2. \A u \in Threads : Position(u)' # "resume"
    BY <1>11, <2>1
  <2> QED BY <1>1, <1>2, <1>3, <1>11, <1>12, <2>1, <2>2 DEF Token
<1>14. Agreement'
  <2>1. state[t] \in {"READY", "RUNNING"}
    BY <1>1, <1>3, <1>4 DEF Agreement
  <2> QED BY <1>1, <1>2, <1>3, <1>4, <1>6, <1>8, <1>9, <1>11, <1>12, <2>1 DEF Agreement
<1>15. Targets'
  <2>1. Switching' => Switching
    BY <1>2, <1>9, <1>12 DEF Switching
  <2> QED BY <1>1, <1>9, <2>1 DEF Targets, HasHost, CanRun
<1>16. Calls'
  <2>1. CallStands(t)'
    <3>1. "URG" \in pending[t] => Last(frames[t]).in = "user"
      BY <1>1 DEF Calls, CallStands, Last
    <3> QED BY <1>2, <1>6, <1>8, <3>1 DEF CallStands
  <2> QED BY <1>1, <1>2, <1>8, <1>9, <2>1, CallsKept
<1> QED BY <1>10, <1>13, <1>14, <1>15, <1>16 DEF PosixInv

\* A thread switch runs on the host of the current thread and nothing is pending.
LEMMA SwitchingQuiet ==
    ASSUME PosixInv, NEW t \in Threads, frames[t] # <<>>, Last(frames[t]).in = "USR1",
           Last(frames[t]).at \in {"switch", "signal"}
    PROVE  /\ t = thread_current /\ pending[t] = {} /\ ~Unstarted(t)
           /\ Position(t) = Last(frames[t]).at /\ block_pipe[t] # 1
           /\ \A u \in Threads : Position(u) # "resume"
           /\ \A i \in DOMAIN frames[t] : frames[t][i].in # "URG"
<1>1. Values /\ Token /\ Calls
  BY DEF PosixInv
<1>2. t = thread_current /\ ~Unstarted(t) /\ Position(t) = Last(frames[t]).at
  BY <1>1, Executing, Places
<1>3. CallStands(t) /\ pending[t] \in SUBSET {"USR1", "URG"}
  BY <1>1 DEF Calls, Values
<1>4. "URG" \notin pending[t]
  <2>1. "URG" \in pending[t] => Last(frames[t]).in = "user"
    BY <1>3 DEF CallStands, Last
  <2> QED BY <2>1
<1>5. "USR1" \notin pending[t]
  BY <1>2, <1>3 DEF CallStands
<1>6. pending[t] = {}
  BY <1>3, <1>4, <1>5
<1>7. block_pipe[t] # 1 /\ \A u \in Threads : Position(u) # "resume"
  BY <1>1, <1>2 DEF Token
<1>8. \A i \in DOMAIN frames[t] : frames[t][i].in # "URG"
  BY <1>1, NoUrgBelow
<1> QED BY <1>2, <1>6, <1>7, <1>8

\* The end of a switch: the thread goes on where it was interrupted.
LEMMA SwitchReturns ==
    ASSUME PosixInv, NEW t \in Threads, frames[t] # <<>>, Last(frames[t]).in = "USR1",
           Last(frames[t]).at \in {"switch", "signal"}, frames' = Returned(t),
           UNCHANGED <<kernelVars, is_suspended, block_pipe, pending, callVars, irqVars, aborted>>
    PROVE  PosixInv'
<1>1. Values /\ Token /\ Agreement /\ Targets /\ Calls /\ Last(frames[t]).in \in Handlers
  BY DEF PosixInv, Handlers
<1>2. /\ t = thread_current /\ pending[t] = {} /\ ~Unstarted(t)
      /\ Position(t) = Last(frames[t]).at /\ block_pipe[t] # 1
      /\ \A u \in Threads : Position(u) # "resume"
      /\ \A i \in DOMAIN frames[t] : frames[t][i].in # "URG"
  BY SwitchingQuiet
<1>3. /\ frames' \in [Threads -> Seq(Frames)] /\ \A u \in Threads : Nested(frames'[u])
      /\ \A u \in Threads \ {t} : frames'[u] = frames[u]
      /\ frames'[t] # <<>> /\ frames'[t][1] = frames[t][1]
      /\ PositionIn(frames'[t]) = "run"
  BY <1>1, Returns
<1>4. UNCHANGED <<thread_current, thread_next, thread_prev, kernel_execute_thread_switch, state,
                  syscall, depth, search, interrupt_flags, raised>>
  BY DEF kernelVars, callVars, irqVars
<1>5. Values'
  BY <1>1, <1>3, <1>4 DEF Values
<1>6. /\ Position(t)' = "run"
      /\ \A u \in Threads \ {t} : Position(u)' = Position(u)
      /\ \A u \in Threads : Unstarted(u)' = Unstarted(u) /\ (frames'[u] = <<>> <=> frames[u] = <<>>)
  BY <1>3 DEF Position, Unstarted
<1>7. thread_current' = t /\ Position(thread_current)' = "run"
  <2>1. thread_current' = t
    BY <1>2, <1>4
  <2> QED BY <1>6, <2>1 DEF Position
<1>8. Token'
  <2>1. \A u \in Threads : Position(u)' # "resume"
    BY <1>2, <1>6
  <2> QED BY <1>1, <1>2, <1>6, <1>7, <2>1 DEF Token
<1>9. Agreement'
  BY <1>1, <1>2, <1>4, <1>6, <1>7 DEF Agreement
<1>10. Targets'
  <2>1. Switching' => Switching
    BY <1>4, <1>7 DEF Switching
  <2> QED BY <1>1, <1>4, <2>1 DEF Targets, HasHost, CanRun
<1>11. Calls'
  <2>1. CallStands(t)'
    <3>1. CallStands(t)
      BY <1>1 DEF Calls
    <3> QED BY <1>2, <1>3, <1>4, <3>1 DEF CallStands
  <2> QED BY <1>1, <1>3, <1>4, <2>1, CallsKept
<1> QED BY <1>5, <1>8, <1>9, <1>10, <1>11 DEF PosixInv

LEMMA SwitchSignalsStep ==
    ASSUME PosixInv, NEW t \in Threads, SwitchSignals(t)
    PROVE  PosixInv'
<1>1. /\ frames[t] # <<>> /\ Last(frames[t]).in = "USR1" /\ Last(frames[t]).at = "signal"
  BY InIs DEF SwitchSignals
<1> QED BY <1>1, SwitchReturns DEF SwitchSignals

\* The switch makes another thread the current one, which is suspended or on its
\* way there; the host that did it has still to resume it.
LEMMA SwitchStep ==
    ASSUME PosixInv, NEW t \in Threads, thread_switch_handler(t)
    PROVE  PosixInv'
<1>1. Values /\ Token /\ Agreement /\ Targets /\ Calls
  BY DEF PosixInv
<1>2. /\ frames[t] # <<>> /\ Last(frames[t]).in = "USR1" /\ Last(frames[t]).at = "switch"
      /\ UNCHANGED <<thread_next, kernel_execute_thread_switch,
                     is_suspended, block_pipe, pending, callVars, irqVars, aborted>>
  BY InIs DEF thread_switch_handler
<1>3. /\ t = thread_current /\ pending[t] = {} /\ ~Unstarted(t) /\ Position(t) = "switch"
      /\ block_pipe[t] # 1
      /\ \A u \in Threads : Position(u) # "resume"
      /\ \A i \in DOMAIN frames[t] : frames[t][i].in # "URG"
  BY <1>2, SwitchingQuiet
<1>4. PICK n \in Threads : n = thread_next
  BY <1>1 DEF Values
<1>5. HasHost(n) /\ HasHost(t)
  BY <1>1, <1>3, <1>4 DEF Targets, Switching
<1>6. CASE t = n
  <2>1. frames' = Returned(t) /\ UNCHANGED <<state, thread_prev, thread_current>>
    BY <1>3, <1>4, <1>6 DEF thread_switch_handler
  <2> QED BY <1>2, <2>1, SwitchReturns DEF kernelVars
<1>7. CASE t # n
  <2>1. /\ state' = [state EXCEPT ![t] = IF @ = "RUNNING" THEN "READY" ELSE @, ![n] = "RUNNING"]
        /\ thread_prev' = t /\ thread_current' = n /\ thread_next' = n
        /\ frames' = GotoAt(t, "resume")
    <3>1. /\ state' = [state EXCEPT ![thread_current] = IF @ = "RUNNING" THEN "READY" ELSE @,
                                    ![thread_next] = "RUNNING"]
          /\ thread_prev' = thread_current /\ thread_current' = thread_next
          /\ frames' = GotoAt(t, "resume")
      BY <1>3, <1>4, <1>7, Zenon DEF thread_switch_handler
    <3>2. /\ thread_prev' = t /\ thread_current' = n /\ thread_next' = n
      BY <1>2, <1>3, <1>4, <3>1
    <3>3. state' = [state EXCEPT ![t] = IF @ = "RUNNING" THEN "READY" ELSE @, ![n] = "RUNNING"]
      BY <1>3, <1>4, <3>1, Zenon
    <3> QED BY <3>1, <3>2, <3>3
  <2>2. "resume" \in StepsOf[Last(frames[t]).in]
    BY <1>2 DEF StepsOf
  <2>3. /\ frames' \in [Threads -> Seq(Frames)] /\ \A u \in Threads : Nested(frames'[u])
        /\ Position(t)' = "resume"
        /\ \A u \in Threads : /\ Unstarted(u)' = Unstarted(u)
                              /\ frames'[u] = <<>> <=> frames[u] = <<>>
        /\ \A u \in Threads \ {t} : Position(u)' = Position(u) /\ frames'[u] = frames[u]
    BY <1>1, <1>2, <2>1, <2>2, MovesOn
  <2>4. /\ state' \in [Threads -> States] /\ state'[n] = "RUNNING"
        /\ state'[t] = IF state[t] = "RUNNING" THEN "READY" ELSE state[t]
        /\ \A u \in Threads \ {t, n} : state'[u] = state[u]
    BY <1>1, <1>7, <2>1 DEF Values, States
  <2>5. UNCHANGED <<syscall, depth, search, interrupt_flags, raised>>
    BY <1>2 DEF callVars, irqVars
  <2>6. Values'
    <3>1. {thread_current', thread_next', thread_prev'} \subseteq Threads
      BY <2>1
    <3> QED BY <1>1, <1>2, <2>3, <2>4, <2>5, <3>1 DEF Values
  <2>7. \A u \in Threads : block_pipe[u] = 0
    <3>1. block_pipe[t] \in 0 .. 1
      BY <1>1 DEF Values
    <3> QED BY <1>1, <1>3, <3>1 DEF Token
  <2>8. Position(n) \in {"suspend", "read"} /\ (Unstarted(n) => Position(n) = "read")
    <3>1. state[n] \notin {"EMPTY", "CREATED"}
      BY <1>5 DEF HasHost
    <3>2. frames[n] # <<>>
      BY <1>1, <3>1 DEF Agreement
    <3>3. Position(n) # "none"
      <4>1. CASE Unstarted(n)
        BY <1>1, <3>2, <4>1, Places
      <4>2. CASE ~Unstarted(n) /\ Last(frames[n]).in = "USR1"
        <5>1. Last(frames[n]).at \in StepsOf["USR1"] /\ Position(n) = Last(frames[n]).at
          BY <1>1, <3>2, <4>2, Places
        <5> QED BY <5>1 DEF StepsOf
      <4>3. CASE ~Unstarted(n) /\ Last(frames[n]).in # "USR1"
        BY <1>1, <3>2, <4>3, Places
      <4> QED BY <4>1, <4>2, <4>3
    <3>4. Position(n) \in {"none", "suspend", "read", "resume"}
      BY <1>1, <1>3, <1>7 DEF Token
    <3>5. Position(n) \in {"suspend", "read"}
      BY <1>3, <3>3, <3>4
    <3> QED BY <1>1, <3>1, <3>5 DEF Agreement
  <2>9. Position(thread_current)' = Position(n)
    <3>1. Position(n)' = Position(n)
      BY <1>7, <2>3
    <3> QED BY <2>1, <3>1 DEF Position
  <2>10. Token'
    <3>1. ASSUME NEW u \in Threads, u # n
          PROVE  /\ Position(u)' \in {"none", "suspend", "read", "resume"}
                 /\ block_pipe'[u] = 0
                 /\ pending'[u] \subseteq {"USR1"}
                 /\ pending'[u] # {} => Unstarted(u)'
      BY <1>1, <1>2, <1>3, <2>3, <2>7, <3>1 DEF Token
    <3>2. \A u \in Threads : Position(u)' = "resume" => u = t
      BY <1>3, <2>3
    <3>3. block_pipe'[n] = 0
      BY <1>2, <2>7
    <3> QED BY <2>1, <2>8, <2>9, <3>1, <3>2, <3>3 DEF Token
  <2>11. Agreement'
    <3> SUFFICES ASSUME NEW u \in Threads
                 PROVE  /\ is_suspended'[u] = TRUE <=> Position(u)' \in {"read", "resumed"}
                        /\ state'[u] = "EMPTY" <=> frames'[u] = <<>>
                        /\ state'[u] = "CREATED" => Unstarted(u)' /\ u # n
                        /\ Unstarted(u)' => /\ state'[u] \in {"CREATED", "READY", "RUNNING"}
                                            /\ Position(u)' = "suspend" => state'[u] = "CREATED"
      BY <2>1 DEF Agreement
    <3>1. CASE u = t
      <4>1. state[t] \notin {"EMPTY", "CREATED"} /\ is_suspended[t] # TRUE
        BY <1>1, <1>3, <1>5 DEF Agreement, HasHost
      <4> QED BY <1>2, <1>3, <2>3, <2>4, <3>1, <4>1
    <3>2. CASE u = n
      BY <1>1, <1>2, <1>5, <1>7, <2>3, <2>4, <2>8, <3>2 DEF Agreement, HasHost
    <3>3. CASE u # t /\ u # n
      BY <1>1, <1>2, <2>3, <2>4, <3>3 DEF Agreement
    <3> QED BY <3>1, <3>2, <3>3
  <2>12. Targets'
    <3>1. \A u \in Threads : HasHost(u) => HasHost(u)'
      BY <2>4 DEF HasHost
    <3>2. HasHost(thread_current)' /\ HasHost(thread_next)'
      BY <2>1, <2>4 DEF HasHost
    <3>3. Idle \in Threads
      BY IdleIn
    <3>4. CanRun(Idle)'
      BY <1>1, <2>4, <3>3 DEF CanRun, Targets
    <3>5. \A u \in Threads : \A h \in Serving : HasHost(search[u][h].thread)'
      <4> SUFFICES ASSUME NEW u \in Threads, NEW h \in Serving
                   PROVE  state'[search'[u][h].thread] \notin {"EMPTY", "CREATED"}
        BY DEF HasHost
      <4>1. search \in [Threads -> [Serving -> [thread : Threads, fresh : BOOLEAN]]]
        BY <1>1 DEF Values
      <4>2. PICK v \in Threads : v = search[u][h].thread
        BY <4>1
      <4>3. HasHost(v)
        BY <1>1, <4>2 DEF Targets
      <4>4. HasHost(v)'
        BY <3>1, <4>3
      <4> QED BY <2>5, <4>2, <4>4 DEF HasHost
    <3> QED BY <1>1, <2>5, <3>2, <3>4, <3>5 DEF Targets
  <2>13. Calls'
    <3>1. CallStands(t)'
      <4>1. Len(frames[t]) \in Nat \ {0} /\ Len(frames[t]) # 1
        BY <1>1, <1>2, Places
      <4>2. \A m \in Nat \ {0} : m # 1 => 1 \in 1 .. m - 1
        OBVIOUS
      <4>3. \A i \in 1 .. Len(frames[t]) - 1 : frames'[t][i] = frames[t][i]
        BY <1>1, <1>2, <2>1, <2>2, Goes
      <4>4. frames'[t][1] = frames[t][1]
        BY <4>1, <4>2, <4>3
      <4>5. CallStands(t)
        BY <1>1 DEF Calls
      <4> QED BY <1>2, <1>3, <2>5, <4>4, <4>5 DEF CallStands
    <3> QED BY <1>1, <1>2, <2>3, <2>5, <3>1, CallsKept
  <2> QED BY <2>6, <2>10, <2>11, <2>12, <2>13 DEF PosixInv
<1> QED BY <1>6, <1>7

------------------------------------------------------------------------------
(***************************************************************************)
(* User code.                                                              *)
(***************************************************************************)

\* User code that goes on belongs to the current thread.
LEMMA UserRuns ==
    ASSUME PosixInv, NEW t \in Threads, frames[t] # <<>>, Last(frames[t]).in = "user", Free(t)
    PROVE  /\ t = thread_current /\ pending[t] = {} /\ Position(t) = "run"
           /\ Len(frames[t]) = 1 /\ Last(frames[t]) = frames[t][1]
           /\ ~Unstarted(t)
<1>1. Values /\ Token
  BY DEF PosixInv
<1>2. t = thread_current /\ pending[t] = {}
  BY <1>1, Executing, NothingPending
<1>3. /\ Position(t) = "run" /\ Len(frames[t]) = 1
      /\ Last(frames[t]) = frames[t][Len(frames[t])] /\ ~Unstarted(t)
  BY <1>1, Places
<1> QED BY <1>2, <1>3

\* What user code does around a call leaves the kernel and the hand-over alone.
LEMMA UserStep ==
    ASSUME PosixInv, NEW t \in Threads, frames[t] # <<>>, Last(frames[t]).in = "user", Free(t),
           NEW at \in {"run", "called"}, frames' = GotoAt(t, at) \/ frames' = frames,
           UNCHANGED <<kernelVars, is_suspended, block_pipe, depth, irqVars>>,
           aborted' \in {"no", "rpc"},
           NEW p \in {{}, {"URG"}}, pending' = [pending EXCEPT ![t] = p],
           syscall' \in CallBuffers, syscall'[Idle].id = "none",
           \A u \in Threads \ {t} : syscall'[u] = syscall[u],
           Values' => CallStands(t)'
    PROVE  PosixInv'
<1>1. Values /\ Token /\ Agreement /\ Targets /\ Calls /\ aborted = "no"
  BY DEF PosixInv, Free
<1>2. /\ t = thread_current /\ pending[t] = {} /\ Position(t) = "run"
      /\ Len(frames[t]) = 1 /\ Last(frames[t]) = frames[t][1]
  BY UserRuns
<1>3. at \in StepsOf[Last(frames[t]).in]
  BY DEF StepsOf
<1>4. /\ frames' \in [Threads -> Seq(Frames)] /\ \A u \in Threads : Nested(frames'[u])
      /\ \A u \in Threads \ {t} : frames'[u] = frames[u]
      /\ frames'[t] # <<>> /\ frames'[t][1].in = frames[t][1].in
      /\ PositionIn(frames'[t]) = PositionIn(frames[t])
  <2>1. CASE frames' = frames
    BY <1>1, <1>2, <2>1 DEF Values
  <2>2. CASE frames' = GotoAt(t, at)
    <3>1. /\ frames' \in [Threads -> Seq(Frames)] /\ \A u \in Threads : Nested(frames'[u])
          /\ \A u \in Threads \ {t} : frames'[u] = frames[u]
          /\ frames'[t] # <<>>
          /\ \A i \in 1 .. Len(frames[t]) : frames'[t][i].in = frames[t][i].in
          /\ PositionIn(frames'[t]) = PositionIn(frames[t])
      BY <1>1, <1>3, <2>2, Goes
    <3> QED BY <1>2, <3>1
  <2> QED BY <2>1, <2>2
<1>5. \A u \in Threads : /\ Position(u)' = Position(u) /\ Unstarted(u)' = Unstarted(u)
                         /\ frames'[u] = <<>> <=> frames[u] = <<>>
  BY <1>4, PlacesKept
<1>6. /\ pending' \in [Threads -> SUBSET {"USR1", "URG"}] /\ pending'[t] = p
      /\ \A u \in Threads \ {t} : pending'[u] = pending[u]
  <2>1. pending \in [Threads -> SUBSET {"USR1", "URG"}] /\ p \in SUBSET {"USR1", "URG"}
    BY <1>1 DEF Values
  <2> QED BY <2>1
<1>7. UNCHANGED <<thread_current, thread_next, thread_prev, kernel_execute_thread_switch, state,
                  search, interrupt_flags, raised>>
  BY DEF kernelVars, irqVars
<1>8. Token' /\ Agreement' /\ Position(thread_current)' = Position(thread_current)
  <2>1. \A u \in Threads : StateStep(u)
    BY <1>7 DEF StateStep
  <2>2. \A u \in Threads \ {thread_current} :
           pending'[u] \subseteq {"USR1"} /\ (pending'[u] # {} => Unstarted(u))
    BY <1>1, <1>2, <1>6 DEF Token
  <2> QED BY <1>1, <1>5, <1>7, <2>1, <2>2, HandOverKept
<1>9. Values'
  BY <1>1, <1>4, <1>6, <1>7 DEF Values, CallBuffers
<1>10. Targets'
  <2>1. \A u \in Threads : "USR1" \in pending'[u] => "USR1" \in pending[u]
    BY <1>6
  <2>2. Switching' => Switching
    BY <1>7, <1>8, <2>1 DEF Switching
  <2> QED BY <1>1, <1>7, <2>2 DEF Targets, HasHost, CanRun
<1>11. Calls'
  BY <1>1, <1>4, <1>6, <1>9, CallsKept
<1> QED BY <1>8, <1>9, <1>10, <1>11 DEF PosixInv

LEMMA EntryStep ==
    ASSUME PosixInv, NEW t \in Threads, NEW id \in Operations \cup {"rpc_return"},
           system_call_entrypoint(t, id)
    PROVE  PosixInv'
<1>1. Values /\ Targets /\ Idle \in Threads
  BY IdleIn DEF PosixInv
<1>2. /\ Free(t) /\ frames[t] # <<>> /\ Last(frames[t]).in = "user" /\ aborted = "no"
      /\ id \in Requests(t) /\ syscall' = [syscall EXCEPT ![t] = [NoCall EXCEPT !.id = id]]
      /\ pending' = [pending EXCEPT ![t] = @ \cup {"URG"}]
      /\ frames' = GotoAt(t, "called")
      /\ UNCHANGED <<kernelVars, is_suspended, block_pipe, depth, irqVars, aborted>>
  BY InIs DEF system_call_entrypoint, Free
<1>3. pending[t] = {} /\ Len(frames[t]) = 1
  BY <1>2, UserRuns
<1>4. pending' = [pending EXCEPT ![t] = {"URG"}] /\ pending'[t] = {"URG"}
  BY <1>1, <1>2, <1>3 DEF Values
<1>5. t # Idle
  BY <1>1, <1>2 DEF Requests, Targets
<1>6. /\ syscall' \in CallBuffers
      /\ \A u \in Threads \ {t} : syscall'[u] = syscall[u]
  <2> DEFINE C == [id : {"none", "rpc_return"} \cup Operations,
                   outcome : {"RETURN", "RPC_CALL"}, retval : {"E_NOTAVAIL", "served"}]
             r == [NoCall EXCEPT !.id = id]
  <2>1. r \in C /\ syscall \in [Threads -> C]
    BY <1>1 DEF NoCall, Values
  <2>2. syscall' = [syscall EXCEPT ![t] = r]
    BY <1>2
  <2> HIDE DEF C, r
  <2>3. syscall' \in [Threads -> C] /\ \A u \in Threads \ {t} : syscall'[u] = syscall[u]
    BY <2>1, <2>2
  <2> QED BY <2>3 DEF C, CallBuffers
<1>7. syscall'[Idle].id = "none"
  BY <1>1, <1>5, <1>6 DEF Targets
<1>8. frames'[t] = <<[in |-> "user", at |-> "called"]>>
  <2>1. "called" \in StepsOf[Last(frames[t]).in]
    BY <1>2 DEF StepsOf
  <2>2. /\ frames' \in [Threads -> Seq(Frames)] /\ Len(frames'[t]) = Len(frames[t])
        /\ frames'[t][Len(frames[t])] = [in |-> Last(frames[t]).in, at |-> "called"]
    BY <1>1, <1>2, <2>1, Goes
  <2>3. frames'[t] \in Seq(Frames) /\ Len(frames'[t]) = 1 /\ frames'[t][1] = [in |-> "user", at |-> "called"]
    BY <1>2, <1>3, <2>2
  <2> QED BY <2>3
<1>9. CallStands(t)'
  BY <1>4, <1>8 DEF CallStands
<1> QED BY <1>2, <1>4, <1>6, <1>7, <1>9, UserStep

LEMMA EntrypointReturnsStep ==
    ASSUME PosixInv, NEW t \in Threads, EntrypointReturns(t)
    PROVE  PosixInv'
<1>1. Values /\ Targets /\ Idle \in Threads
  BY IdleIn DEF PosixInv
<1>2. /\ Free(t) /\ frames[t] # <<>> /\ Last(frames[t]).in = "user" /\ aborted = "no"
      /\ syscall' = [syscall EXCEPT ![t] = NoCall]
      /\ UNCHANGED <<kernelVars, is_suspended, block_pipe, pending, depth, irqVars>>
  BY InIs DEF EntrypointReturns, Free
<1>3. pending[t] = {} /\ Len(frames[t]) = 1
  BY <1>2, UserRuns
<1>4. pending' = [pending EXCEPT ![t] = {}] /\ pending'[t] = {}
  BY <1>1, <1>2, <1>3 DEF Values
<1>5. /\ syscall' \in CallBuffers
      /\ \A u \in Threads \ {t} : syscall'[u] = syscall[u]
      /\ syscall'[Idle].id = "none"
  <2> DEFINE C == [id : {"none", "rpc_return"} \cup Operations,
                   outcome : {"RETURN", "RPC_CALL"}, retval : {"E_NOTAVAIL", "served"}]
  <2>1. NoCall \in C /\ NoCall.id = "none" /\ syscall \in [Threads -> C]
    BY <1>1 DEF NoCall, Values
  <2> HIDE DEF C
  <2>2. /\ syscall' \in [Threads -> C] /\ \A u \in Threads \ {t} : syscall'[u] = syscall[u]
        /\ syscall'[t] = NoCall
    BY <1>2, <2>1
  <2>3. syscall'[Idle].id = "none"
    BY <1>1, <2>1, <2>2 DEF Targets
  <2> QED BY <2>2, <2>3 DEF C, CallBuffers
<1>6. CASE RefusedRpc(t)
  <2>1. aborted' = "rpc" /\ frames' = frames
    BY <1>6 DEF EntrypointReturns
  <2>2. CallStands(t)'
    BY <1>4, <2>1 DEF CallStands
  <2> QED BY <1>2, <1>4, <1>5, <2>1, <2>2, UserStep
<1>7. CASE ~RefusedRpc(t)
  <2>1. aborted' = aborted /\ frames' = GotoAt(t, "run")
    BY <1>7 DEF EntrypointReturns
  <2>2. "run" \in StepsOf[Last(frames[t]).in]
    BY <1>2 DEF StepsOf
  <2>3. frames'[t][1] = [in |-> "user", at |-> "run"]
    <3>1. frames'[t][Len(frames[t])] = [in |-> Last(frames[t]).in, at |-> "run"]
      BY <1>1, <1>2, <2>1, <2>2, Goes
    <3> QED BY <1>2, <1>3, <3>1
  <2>4. CallStands(t)'
    BY <1>4, <2>3 DEF CallStands
  <2> QED BY <1>2, <1>4, <1>5, <2>1, <2>4, UserStep
<1> QED BY <1>6, <1>7

------------------------------------------------------------------------------
(***************************************************************************)
(* The invariant, wherever interrupts come.                                *)
(***************************************************************************)

\* There is a thread to boot.
LEMMA BootIn == os_boot_thread \in Autostart
<1>1. Autostart # {} /\ \A t \in Autostart : t \in Nat /\ Priority[t] \in Nat
  BY PosixAssumption DEF Threads
<1> DEFINE P == {Priority[t] : t \in Autostart}
<1>2. P \subseteq Nat /\ P # {}
  BY <1>1
<1> HIDE DEF P
<1>3. PICK p \in P : \A q \in P : p <= q
  BY <1>2, LeastNumber
<1> DEFINE B == {t \in Autostart : Priority[t] = p}
<1>4. B \subseteq Nat /\ B # {}
  BY <1>1 DEF P
<1>5. \A t \in Autostart : p <= Priority[t]
  BY <1>3 DEF P
<1> HIDE DEF B
<1>6. PICK b \in B : \A c \in B : b <= c
  BY <1>4, LeastNumber
<1>7. ASSUME NEW u \in Autostart \ {b}
      PROVE  Priority[b] < Priority[u] \/ (Priority[b] = Priority[u] /\ b < u)
  <2>1. b \in Nat /\ u \in Nat /\ Priority[b] = p /\ Priority[u] \in Nat /\ p \in Nat /\ p <= Priority[u]
    BY <1>1, <1>2, <1>5 DEF B
  <2>2. Priority[u] = p => b <= u
    BY <1>6 DEF B
  <2> QED BY <2>1, <2>2
<1>8. b \in Autostart
  BY DEF B
<1> QED BY <1>7, <1>8 DEF os_boot_thread

\* What Init says of each thread.
LEMMA InitIs ==
    ASSUME Init
    PROVE  \E b \in Autostart :
              /\ thread_current = b /\ thread_next = 0 /\ thread_prev = 0
              /\ kernel_execute_thread_switch = FALSE /\ aborted = "no"
              /\ interrupt_flags = FALSE /\ raised = FALSE
              /\ \A t \in Threads :
                    /\ frames[t] = IF t \in Autostart THEN <<[in |-> "start", at |-> "read"]>> ELSE <<>>
                    /\ state[t] = IF t = b THEN "RUNNING" ELSE IF t \in Autostart THEN "READY" ELSE "EMPTY"
                    /\ is_suspended[t] = (t \in Autostart)
                    /\ block_pipe[t] = IF t = b THEN 1 ELSE 0
                    /\ syscall[t] = NoCall /\ depth[t] = 0 /\ pending[t] = {}
                    /\ \A h \in Serving : search[t][h] = NoSearch
<1> PICK b : b = os_boot_thread
  OBVIOUS
<1>1. b \in Autostart /\ Autostart \subseteq Threads
  BY BootIn, PosixAssumption
<1>2. /\ thread_current = b /\ thread_next = 0 /\ thread_prev = 0 /\ kernel_execute_thread_switch = FALSE
      /\ aborted = "no" /\ interrupt_flags = FALSE /\ raised = FALSE
  BY DEF Init
<1>3. /\ state = [t \in Threads |-> CASE t = b -> "RUNNING"
                                      [] t \in Autostart \ {b} -> "READY"
                                      [] OTHER -> "EMPTY"]
      /\ is_suspended = [t \in Threads |-> t \in Autostart]
      /\ block_pipe = [t \in Threads |-> IF t = b THEN 1 ELSE 0]
      /\ syscall = [t \in Threads |-> NoCall]
      /\ depth = [t \in Threads |-> 0]
      /\ frames = [t \in Threads |-> IF t \in Autostart THEN <<[in |-> "start", at |-> "read"]>> ELSE <<>>]
      /\ pending = [t \in Threads |-> {}]
      /\ search = [t \in Threads |-> [h \in Serving |-> NoSearch]]
  BY DEF Init
<1>4. ASSUME NEW t \in Threads
      PROVE  /\ state[t] = IF t = b THEN "RUNNING" ELSE IF t \in Autostart THEN "READY" ELSE "EMPTY"
             /\ is_suspended[t] = (t \in Autostart)
             /\ block_pipe[t] = IF t = b THEN 1 ELSE 0
             /\ syscall[t] = NoCall /\ depth[t] = 0 /\ pending[t] = {}
             /\ \A h \in Serving : search[t][h] = NoSearch
  BY <1>1, <1>3
<1>5. ASSUME NEW t \in Threads
      PROVE  frames[t] = IF t \in Autostart THEN <<[in |-> "start", at |-> "read"]>> ELSE <<>>
  BY <1>3
<1> QED BY <1>1, <1>2, <1>4, <1>5, Zenon

LEMMA PosixInit == Init => PosixInv
<1> SUFFICES ASSUME Init PROVE PosixInv
  OBVIOUS
<1> DEFINE h == <<[in |-> "start", at |-> "read"]>>
<1>1. PICK b \in Autostart :
         /\ thread_current = b /\ thread_next = 0 /\ thread_prev = 0
         /\ kernel_execute_thread_switch = FALSE /\ aborted = "no"
         /\ interrupt_flags = FALSE /\ raised = FALSE
         /\ \A t \in Threads :
               /\ frames[t] = IF t \in Autostart THEN h ELSE <<>>
               /\ state[t] = IF t = b THEN "RUNNING" ELSE IF t \in Autostart THEN "READY" ELSE "EMPTY"
               /\ is_suspended[t] = (t \in Autostart)
               /\ block_pipe[t] = IF t = b THEN 1 ELSE 0
               /\ syscall[t] = NoCall /\ depth[t] = 0 /\ pending[t] = {}
               /\ \A k \in Serving : search[t][k] = NoSearch
  BY InitIs
<1>2. /\ b \in Threads /\ Idle \in Autostart /\ Idle \in Threads
      /\ Autostart \subseteq Threads /\ 0 \in Threads /\ MaxDepth \in Nat
  <2>1. 0 \in Threads
    BY PosixAssumption DEF Threads
  <2> QED BY <2>1, IdleIn, PosixAssumption
<1>3. /\ h \in Seq(Frames) /\ Nested(h) /\ h # <<>> /\ Len(h) = 1 /\ h[1].in = "start" /\ h[1].at = "read"
      /\ PositionIn(h) = "read"
  <2>1. [in |-> "start", at |-> "read"] \in Frames
    BY DEF Frames
  <2>2. h \in Seq(Frames) /\ Len(h) = 1 /\ h[1] = [in |-> "start", at |-> "read"] /\ h # <<>>
    BY <2>1
  <2>3. Nested(h)
    BY <2>1, <2>2 DEF Nested, StepsOf
  <2> QED BY <2>2, <2>3 DEF PositionIn
<1>4. <<>> \in Seq(Frames) /\ Nested(<<>>) /\ PositionIn(<<>>) = "none"
  BY DEF Nested, PositionIn
<1>5. Values
  <2>1. NoCall \in [id : {"none", "rpc_return"} \cup Operations,
                    outcome : {"RETURN", "RPC_CALL"}, retval : {"E_NOTAVAIL", "served"}]
    BY DEF NoCall
  <2>2. NoSearch \in [thread : Threads, fresh : BOOLEAN]
    BY <1>2 DEF NoSearch
  <2>3. /\ syscall \in [Threads -> [id : {"none", "rpc_return"} \cup Operations,
                                    outcome : {"RETURN", "RPC_CALL"},
                                    retval : {"E_NOTAVAIL", "served"}]]
        /\ depth \in [Threads -> 0 .. MaxDepth]
    BY <1>2, <2>1 DEF Init
  <2>4. search \in [Threads -> [Serving -> [thread : Threads, fresh : BOOLEAN]]]
    BY <2>2 DEF Init
  <2>5. frames \in [Threads -> Seq(Frames)] /\ \A t \in Threads : Nested(frames[t])
    BY <1>3, <1>4 DEF Init
  <2>6. state \in [Threads -> States]
    BY DEF Init, States
  <2>7. /\ is_suspended \in [Threads -> BOOLEAN]
        /\ block_pipe \in [Threads -> 0 .. 1]
        /\ pending \in [Threads -> SUBSET {"USR1", "URG"}]
    BY DEF Init
  <2> QED BY <1>1, <1>2, <2>3, <2>4, <2>5, <2>6, <2>7 DEF Values
<1> HIDE DEF h
<1>6. ASSUME NEW t \in Threads
      PROVE  /\ Position(t) = IF t \in Autostart THEN "read" ELSE "none"
             /\ Unstarted(t) <=> t \in Autostart
  BY <1>1, <1>3, <1>4 DEF Position, Unstarted
<1>7. Token
  BY <1>1, <1>2, <1>6 DEF Token
<1>8. Agreement
  <2> SUFFICES ASSUME NEW t \in Threads
               PROVE  /\ is_suspended[t] = TRUE <=> Position(t) \in {"read", "resumed"}
                      /\ state[t] = "EMPTY" <=> frames[t] = <<>>
                      /\ state[t] = "CREATED" => Unstarted(t) /\ t # thread_current
                      /\ Unstarted(t) => /\ state[t] \in {"CREATED", "READY", "RUNNING"}
                                         /\ Position(t) = "suspend" => state[t] = "CREATED"
    BY DEF Agreement
  <2>1. is_suspended[t] = TRUE <=> t \in Autostart
    BY <1>1, Zenon
  <2>2. CASE t \in Autostart
    BY <1>1, <1>3, <1>6, <2>1, <2>2
  <2>3. CASE t \notin Autostart
    BY <1>1, <1>2, <1>6, <2>1, <2>3
  <2> QED BY <2>2, <2>3
<1>9. Targets
  <2>1. HasHost(b) /\ CanRun(Idle) /\ HasHost(Idle) /\ syscall[Idle].id = "none" /\ depth[Idle] = 0
    BY <1>1, <1>2 DEF CanRun, HasHost, NoCall
  <2>2. \A t \in Threads : \A k \in Serving : search[t][k].thread = Idle
    BY <1>1 DEF NoSearch
  <2>3. ~Switching
    BY <1>1, <1>2, <1>6 DEF Switching
  <2> QED BY <1>1, <2>1, <2>2, <2>3 DEF Targets
<1>10. Calls
  BY <1>1, <1>3 DEF Calls, CallStands
<1> QED BY <1>5, <1>7, <1>8, <1>9, <1>10 DEF PosixInv

LEMMA PosixStep ==
    ASSUME PosixInv, [Next]_vars
    PROVE  PosixInv'
<1>1. ASSUME NEW t \in Threads, HandOver(t)
      PROVE  PosixInv'
  BY <1>1, ResumeStep, SuspendStep, SuspendReadStep, SuspendEndsStep, StartupStep, SwitchWaitsStep
  DEF HandOver
<1>2. ASSUME NEW t \in Threads, Handler(t)
      PROVE  PosixInv'
  BY <1>2, DeliverPendingStep, SwitchStep, SwitchSignalsStep, ServiceStep, InitializeStep, TickStep,
     IrqStep, ServedStep, YieldStep, CommitStep, TriggerStep, TriggerClearsStep DEF Handler
<1>3. {interrupt_flags, raised} \subseteq BOOLEAN /\ aborted \in {"no", "resume", "rpc", "irq", "tick"}
  BY DEF PosixInv, Values
<1>4. ASSUME NEW t \in Threads, TimerExpires(t) \/ InterruptTaken(t)
      PROVE  PosixInv'
  BY <1>3, <1>4, DeliveredStep DEF TimerExpires, InterruptTaken
<1>5. ASSUME NEW t \in Threads,
             \/ EntrypointReturns(t)
             \/ \E id \in Operations \cup {"rpc_return"} : system_call_entrypoint(t, id)
      PROVE  PosixInv'
  BY <1>5, EntrypointReturnsStep, EntryStep
<1>6. CASE generate_interrupt \/ InterruptTakenByMain
  BY <1>3, <1>6, AbortStep DEF generate_interrupt, InterruptTakenByMain
<1>7. CASE Aborted \/ UNCHANGED vars
  BY <1>3, <1>7, AbortStep DEF Aborted, vars, irqVars
<1> QED BY <1>1, <1>2, <1>4, <1>5, <1>6, <1>7 DEF Next, Execution

------------------------------------------------------------------------------
(***************************************************************************)
(* Without interrupts.                                                     *)
(***************************************************************************)

\* A host then runs one handler at a time, on top of user code.
LEMMA Shapes ==
    ASSUME Values, NoIrq, NEW t \in Threads, frames[t] # <<>>
    PROVE  \/ Last(frames[t]).in \in {"start", "user"}
           \/ /\ Last(frames[t]).in \in {"URG", "ALRM", "USR1"} /\ Len(frames[t]) = 2
              /\ frames[t][1].in = "user" /\ frames[t][1].at \in {"run", "called"}
<1>1. Nested(frames[t]) /\ frames[t] \in Seq(Frames)
  BY DEF Values
<1>2. /\ Len(frames[t]) \in Nat \ {0} /\ DOMAIN frames[t] = 1 .. Len(frames[t])
      /\ Last(frames[t]) = frames[t][Len(frames[t])]
      /\ Last(frames[t]).in \in {"start", "user"} <=> Len(frames[t]) = 1
  BY Places
<1> SUFFICES ASSUME Len(frames[t]) # 1
             PROVE  /\ Last(frames[t]).in \in {"URG", "ALRM", "USR1"} /\ Len(frames[t]) = 2
                    /\ frames[t][1].in = "user" /\ frames[t][1].at \in {"run", "called"}
  BY <1>2
<1>3. ASSUME NEW i \in 2 .. Len(frames[t])
      PROVE  /\ frames[t][i].in \in {"URG", "ALRM", "USR1"}
             /\ frames[t][i].in = "URG" => i = 2
  <2>1. i \in 1 .. Len(frames[t]) /\ i # 1
    BY <1>2
  <2>2. frames[t][i] \in Frames /\ frames[t][i].in \notin {"start", "user", "USR2"}
    BY <1>1, <1>2, <2>1 DEF Nested, NoIrq
  <2>3. frames[t][i].in = "URG" => i = 2
    BY <1>1, <2>1 DEF Nested
  <2> QED BY <2>2, <2>3 DEF Frames, Handlers
<1>4. Len(frames[t]) = 2
  <2> SUFFICES ASSUME Len(frames[t]) # 2 PROVE FALSE
    OBVIOUS
  <2>1. 2 \in 2 .. Len(frames[t]) /\ 3 \in 2 .. Len(frames[t]) /\ 2 \in 1 .. Len(frames[t])
        /\ 3 \in 1 .. Len(frames[t]) /\ 2 < 3 /\ 3 # 2
    <3>1. PICK n \in Nat : n = Len(frames[t])
      BY <1>2
    <3>2. n # 0 /\ n # 1 /\ n # 2
      BY <1>2, <3>1
    <3>3. 2 \in 2 .. n /\ 3 \in 2 .. n /\ 2 \in 1 .. n /\ 3 \in 1 .. n /\ 2 < 3 /\ 3 # 2
      BY <3>2
    <3> QED BY <3>1, <3>3
  <2>2. frames[t][2].in \in {"URG", "ALRM", "USR1"} /\ frames[t][3].in \in {"ALRM", "USR1"}
    BY <1>3, <2>1
  <2>3. frames[t][3].in \notin Masks[frames[t][2].in]
    BY <1>1, <2>1 DEF Nested
  <2> QED BY <2>2, <2>3 DEF Masks
<1>5. 1 \in 1 .. Len(frames[t]) /\ 2 \in 1 .. Len(frames[t]) /\ 2 \in 2 .. Len(frames[t]) /\ 1 < 2
  BY <1>4
<1>6. frames[t][2].in \in {"URG", "ALRM", "USR1"}
  BY <1>3, <1>5
<1>7. /\ frames[t][1].in \in {"start", "user"} /\ frames[t][1].at \in StepsOf[frames[t][1].in]
      /\ frames[t][2].in \notin Masks[frames[t][1].in]
  BY <1>1, <1>5 DEF Nested
<1>8. frames[t][1].in = "user"
  BY <1>6, <1>7 DEF Masks
<1> QED BY <1>2, <1>4, <1>6, <1>7, <1>8 DEF StepsOf

LEMMA GoesQuiet ==
    ASSUME Values, NoIrq, NEW t \in Threads, frames[t] # <<>>,
           NEW at, at \in StepsOf[Last(frames[t]).in], frames' = GotoAt(t, at)
    PROVE  /\ NoIrq' /\ Last(frames'[t]) = [in |-> Last(frames[t]).in, at |-> at]
           /\ Last(frames'[t]).in = Last(frames[t]).in /\ Last(frames'[t]).at = at
           /\ \A u \in Threads \ {t} : frames'[u] = frames[u]
<1>1. /\ frames' \in [Threads -> Seq(Frames)]
      /\ \A u \in Threads \ {t} : frames'[u] = frames[u]
      /\ Len(frames'[t]) = Len(frames[t])
      /\ \A i \in 1 .. Len(frames[t]) : frames'[t][i].in = frames[t][i].in
      /\ Last(frames'[t]) = [in |-> Last(frames[t]).in, at |-> at]
  BY Goes
<1>2. DOMAIN frames'[t] = 1 .. Len(frames[t]) /\ DOMAIN frames[t] = 1 .. Len(frames[t])
  BY <1>1, Places
<1>3. NoIrq'
  BY <1>1, <1>2 DEF NoIrq
<1>4. Last(frames'[t]).in = Last(frames[t]).in /\ Last(frames'[t]).at = at
  BY <1>1
<1> QED BY <1>1, <1>3, <1>4

\* A handler returns to the user code it interrupted.
LEMMA ReturnsQuiet ==
    ASSUME Values, NoIrq, NEW t \in Threads, frames[t] # <<>>,
           Last(frames[t]).in \in Handlers, frames' = Returned(t)
    PROVE  /\ NoIrq' /\ Last(frames'[t]).in = "user" /\ Last(frames'[t]).at \in {"run", "called"}
           /\ \A u \in Threads \ {t} : frames'[u] = frames[u]
<1>1. /\ frames' \in [Threads -> Seq(Frames)]
      /\ \A u \in Threads \ {t} : frames'[u] = frames[u]
      /\ Len(frames'[t]) = Len(frames[t]) - 1
      /\ \A i \in 1 .. Len(frames'[t]) : frames'[t][i] = frames[t][i]
      /\ Last(frames'[t]) = frames[t][Len(frames[t]) - 1]
  BY Returns
<1>2. /\ Len(frames[t]) = 2 /\ frames[t][1].in = "user" /\ frames[t][1].at \in {"run", "called"}
  BY Shapes DEF Handlers
<1>3. DOMAIN frames'[t] = 1 .. 1 /\ DOMAIN frames[t] = 1 .. 2
  BY <1>1, <1>2, Places
<1>4. NoIrq'
  BY <1>1, <1>2, <1>3 DEF NoIrq
<1> QED BY <1>1, <1>2, <1>4

\* A signal that a host takes interrupts its user code.
LEMMA EntersQuiet ==
    ASSUME Values, NoIrq, NEW t \in Threads, frames[t] # <<>>,
           NEW s \in {"USR1", "URG", "ALRM"}, s \notin Blocked(t),
           s = "URG" => frames[t] = <<[in |-> "user", at |-> "called"]>>,
           frames' = [frames EXCEPT ![t] = Entered(t, s)]
    PROVE  /\ NoIrq' /\ Last(frames'[t]) = [in |-> s, at |-> FirstStep(s)]
           /\ \A u \in Threads \ {t} : frames'[u] = frames[u]
           /\ Last(frames[t]).in = "user" /\ Last(frames[t]).at \in {"run", "called"}
<1>1. s \in Handlers
  BY DEF Handlers
<1>2. /\ frames' \in [Threads -> Seq(Frames)]
      /\ \A u \in Threads \ {t} : frames'[u] = frames[u]
      /\ Len(frames'[t]) = Len(frames[t]) + 1
      /\ \A i \in 1 .. Len(frames[t]) : frames'[t][i] = frames[t][i]
      /\ Last(frames'[t]) = [in |-> s, at |-> FirstStep(s)]
      /\ frames'[t][Len(frames[t]) + 1] = Last(frames'[t])
      /\ \A i \in 1 .. Len(frames[t]) : s \notin Masks[frames[t][i].in]
  BY <1>1, Enters
<1>3. /\ Len(frames[t]) \in Nat \ {0} /\ DOMAIN frames[t] = 1 .. Len(frames[t])
      /\ Last(frames[t]) = frames[t][Len(frames[t])]
      /\ Last(frames[t]).at \in StepsOf[Last(frames[t]).in]
  BY Places
<1>4. DOMAIN frames'[t] = 1 .. Len(frames[t]) + 1
  BY <1>2
<1>5. ASSUME NEW i \in DOMAIN frames'[t]
      PROVE  frames'[t][i].in # "USR2"
  <2>1. CASE i \in 1 .. Len(frames[t])
    BY <1>2, <1>3, <2>1 DEF NoIrq
  <2>2. CASE i = Len(frames[t]) + 1
    BY <1>2, <2>2
  <2> QED BY <1>3, <1>4, <2>1, <2>2
<1>6. NoIrq'
  BY <1>2, <1>5 DEF NoIrq
<1>7. Len(frames[t]) \in 1 .. Len(frames[t])
  BY <1>3
<1>8. s \notin Masks[Last(frames[t]).in]
  BY <1>2, <1>3, <1>7
<1>9. Last(frames[t]).in \in {"start", "user", "URG", "ALRM", "USR1"}
  BY Shapes
<1>10. Last(frames[t]).in = "user"
  <2>1. CASE s = "URG"
    BY <2>1 DEF Last
  <2>2. CASE s # "URG"
    BY <1>8, <1>9, <2>2 DEF Masks
  <2> QED BY <2>1, <2>2
<1> QED BY <1>2, <1>3, <1>6, <1>10 DEF StepsOf

\* A step on the host of another thread.
LEMMA OrderlyElsewhere ==
    ASSUME PosixInv, Orderly, NEW t \in Threads, t # thread_current, NoIrq',
           \A u \in Threads \ {t} : frames'[u] = frames[u],
           UNCHANGED <<kernelVars, pending, irqVars>>, aborted' # "tick"
    PROVE  Orderly'
<1>1. PICK c \in Threads : c = thread_current
  BY DEF PosixInv, Values
<1>2. PICK x : x = Last(frames[c])
  OBVIOUS
<1>3. OrderlyAt(c, x)
  BY <1>1, <1>2 DEF Orderly
<1>4. /\ UNCHANGED <<thread_current, thread_next, kernel_execute_thread_switch, state, search, raised>>
  BY DEF kernelVars, irqVars
<1>5. thread_current' = c /\ Last(frames'[c]) = x
  BY <1>1, <1>2, <1>4
<1>6. OrderlyAt(c, x)'
  BY <1>3, <1>4 DEF OrderlyAt, CanRun
<1> QED BY <1>5, <1>6 DEF Orderly

\* A step of the current thread that leaves it RUNNING with no switch to come.
LEMMA OrderlyRunning ==
    ASSUME Values, Orderly, NEW c \in Threads, c = thread_current, thread_current' = c,
           state[c] = "RUNNING", \A u \in Threads \ {c} : state'[u] # "RUNNING",
           state'[c] = "RUNNING",
           NoIrq', ~kernel_execute_thread_switch', ~raised', aborted' # "tick",
           \A u \in Threads \ {c} : pending'[u] = pending[u], "USR1" \notin pending'[c],
           Last(frames'[c]).at \notin {"switch", "commit"}
    PROVE  Orderly'
<1>1. PICK x : x = Last(frames'[c])
  OBVIOUS
<1>2. \A u \in Threads \ {c} : pending[u] = {}
  BY DEF Orderly, OrderlyAt
<1>3. OrderlyAt(c, x)'
  BY <1>1, <1>2 DEF OrderlyAt
<1> QED BY <1>1, <1>3 DEF Orderly

\* What holds of the current thread in its user code and in the hand-over.
LEMMA OrderlyIdle ==
    ASSUME PosixInv, Orderly, NEW c \in Threads, c = thread_current, frames[c] # <<>>,
           \/ Last(frames[c]).in = "user" /\ "USR1" \notin pending[c]
           \/ Last(frames[c]).at \in {"suspend", "read", "resumed", "unblock", "wait", "signal"}
    PROVE  /\ state[c] = "RUNNING" /\ ~kernel_execute_thread_switch /\ "USR1" \notin pending[c]
           /\ ~raised /\ NoIrq /\ aborted # "tick"
           /\ \A u \in Threads \ {c} : pending[u] = {} /\ state[u] # "RUNNING"
<1>1. PICK x : x = Last(frames[c])
  OBVIOUS
<1>2. OrderlyAt(c, x)
  BY <1>1 DEF Orderly
<1>3. x.in = "user" => x.at \in {"run", "called"}
  <2>1. x.at \in StepsOf[x.in]
    BY <1>1, Places DEF PosixInv
  <2> QED BY <2>1 DEF StepsOf
<1>4. CASE x.in = "user" /\ "USR1" \notin pending[c]
  BY <1>2, <1>3, <1>4 DEF OrderlyAt
<1>5. CASE x.at \in {"suspend", "read", "resumed", "unblock", "wait", "signal"}
  BY <1>2, <1>5 DEF OrderlyAt
<1> QED BY <1>1, <1>4, <1>5

\* The kernel is entered on the host of the current thread alone.
LEMMA OrderlyServing ==
    ASSUME PosixInv, Orderly, NEW t \in Threads, frames[t] # <<>>, Last(frames[t]).in \in Serving
    PROVE  /\ t = thread_current /\ Last(frames[t]).in \in {"URG", "ALRM"}
           /\ OrderlyAt(t, Last(frames[t])) /\ Values
<1>1. Values /\ Token /\ NoIrq
  BY DEF PosixInv, Orderly, OrderlyAt
<1>2. Last(frames[t]).in \in {"URG", "ALRM"}
  BY <1>1, Shapes DEF Serving
<1>3. t = thread_current
  BY <1>1, <1>2, Executing
<1> QED BY <1>1, <1>2, <1>3 DEF Orderly

LEMMA OrderlyYield ==
    ASSUME PosixInv, Orderly, NEW t \in Threads, NEW h \in Serving, os_sched_yield(t, h)
    PROVE  Orderly'
<1>1. /\ frames[t] # <<>> /\ Last(frames[t]).in = h /\ Last(frames[t]).at = "yield"
      /\ UNCHANGED <<thread_current, thread_next, state, pending, raised, aborted>>
  BY InIs DEF os_sched_yield
<1>2. PICK x : x = Last(frames[t])
  OBVIOUS
<1>3. /\ t = thread_current /\ h \in {"URG", "ALRM"} /\ OrderlyAt(t, x) /\ Values /\ NoIrq
  BY <1>1, <1>2, OrderlyServing DEF OrderlyAt
<1>4. thread_current' = t
  BY <1>1, <1>3
<1>5. PICK n \in Threads : n = os_get_next_thread /\ state[n] \in {"READY", "RUNNING"}
  <2>1. Idle \in Runnable(state)
    BY IdleIn DEF PosixInv, Targets, CanRun, Runnable
  <2>2. os_get_next_thread \in Runnable(state)
    BY <1>3, <2>1, NextCanRun
  <2> QED BY <2>2 DEF Runnable
<1>6. CASE n # t
  <2>1. /\ search' = [search EXCEPT ![t][h] = [thread |-> n, fresh |-> TRUE]]
        /\ frames' = GotoAt(t, "commit") /\ UNCHANGED kernel_execute_thread_switch
    BY <1>3, <1>5, <1>6 DEF os_sched_yield
  <2>2. "commit" \in StepsOf[Last(frames[t]).in]
    BY <1>1, <1>3 DEF StepsOf
  <2>3. NoIrq' /\ Last(frames'[t]) = [in |-> h, at |-> "commit"]
    BY <1>1, <1>3, <2>1, <2>2, GoesQuiet
  <2>4. search'[t][h] = [thread |-> n, fresh |-> TRUE]
    <3>1. search \in [Threads -> [Serving -> [thread : Threads, fresh : BOOLEAN]]]
      BY <1>3 DEF Values
    <3> QED BY <2>1, <3>1
  <2>5. PICK y : y.in = h /\ y.at = "commit" /\ y = [in |-> h, at |-> "commit"]
    <3>1. PICK z : z = [in |-> h, at |-> "commit"]
      OBVIOUS
    <3>2. z.in = h /\ z.at = "commit"
      BY <3>1
    <3> QED BY <3>1, <3>2
  <2>6. OrderlyAt(t, y)'
    BY <1>1, <1>2, <1>3, <1>5, <2>1, <2>3, <2>4, <2>5 DEF OrderlyAt, CanRun
  <2> QED BY <1>4, <2>3, <2>5, <2>6 DEF Orderly
<1>7. CASE n = t
  <2>1. kernel_execute_thread_switch' = FALSE /\ frames' = GotoAt(t, Finished(t))
    BY <1>3, <1>5, <1>7 DEF os_sched_yield, Finish
  <2>2. Finished(t) = "trigger" /\ "trigger" \in StepsOf[Last(frames[t]).in]
    BY <1>1, <1>3 DEF Finished, StepsOf
  <2>3. NoIrq' /\ Last(frames'[t]) = [in |-> h, at |-> "trigger"]
    BY <1>1, <1>3, <2>1, <2>2, GoesQuiet
  <2>4. state[t] = "RUNNING" /\ ~raised /\ aborted # "tick" /\ "USR1" \notin pending[t]
        /\ \A u \in Threads \ {t} : state[u] # "RUNNING"
    BY <1>1, <1>2, <1>3, <1>5, <1>7 DEF OrderlyAt
  <2> QED BY <1>1, <1>3, <1>4, <2>1, <2>3, <2>4, OrderlyRunning
<1> QED BY <1>6, <1>7

\* A commit is never refused, as nothing comes between the search and it.
LEMMA OrderlyCommit ==
    ASSUME PosixInv, Orderly, NEW t \in Threads, NEW h \in Serving, YieldCommits(t, h)
    PROVE  Orderly'
<1>1. /\ frames[t] # <<>> /\ Last(frames[t]).in = h /\ Last(frames[t]).at = "commit"
      /\ frames' = GotoAt(t, Finished(t))
      /\ UNCHANGED <<thread_current, state, pending, raised, aborted>>
  BY InIs DEF YieldCommits, Finish
<1>2. PICK x : x = Last(frames[t])
  OBVIOUS
<1>3. /\ t = thread_current /\ h \in {"URG", "ALRM"} /\ OrderlyAt(t, x) /\ Values /\ NoIrq
  BY <1>1, <1>2, OrderlyServing DEF OrderlyAt
<1>4. search[t][h].fresh /\ CanRun(search[t][h].thread)
  BY <1>1, <1>2, <1>3 DEF OrderlyAt
<1>5. thread_next' = search[t][h].thread /\ kernel_execute_thread_switch' = TRUE
  BY <1>4 DEF YieldCommits
<1>6. Finished(t) = "trigger" /\ "trigger" \in StepsOf[Last(frames[t]).in]
  BY <1>1, <1>3 DEF Finished, StepsOf
<1>7. NoIrq' /\ Last(frames'[t]) = [in |-> h, at |-> "trigger"]
  BY <1>1, <1>3, <1>6, GoesQuiet
<1>8. PICK y : y.in = h /\ y.at = "trigger" /\ y = [in |-> h, at |-> "trigger"]
  <2>1. PICK z : z = [in |-> h, at |-> "trigger"]
    OBVIOUS
  <2>2. z.in = h /\ z.at = "trigger"
    BY <2>1
  <2> QED BY <2>1, <2>2
<1>9. CanRun(thread_next)'
  BY <1>1, <1>4, <1>5 DEF CanRun
<1>10. OrderlyAt(t, y)'
  BY <1>1, <1>2, <1>3, <1>5, <1>7, <1>8, <1>9 DEF OrderlyAt
<1>11. thread_current' = t
  BY <1>1, <1>3
<1> QED BY <1>7, <1>8, <1>10, <1>11 DEF Orderly

LEMMA CreatesQuiet ==
    ASSUME PosixInv, NoIrq, NEW t \in Threads, frames[t] # <<>>, Last(frames[t]).in = "URG",
           NEW u \in Threads, CreatingCall(t, u)
    PROVE  /\ u # t /\ NoIrq' /\ Last(frames'[t]).at = "spawn"
           /\ state'[u] = "CREATED" /\ \A v \in Threads \ {u} : state'[v] = state[v]
<1>1. /\ u # t /\ frames' \in [Threads -> Seq(Frames)] /\ Len(frames'[t]) = Len(frames[t])
      /\ \A i \in 1 .. Len(frames[t]) : frames'[t][i].in = frames[t][i].in
      /\ Last(frames'[t]) = [in |-> "URG", at |-> "spawn"]
      /\ frames'[u] = <<[in |-> "start", at |-> "suspend"]>>
      /\ \A v \in Threads \ {t, u} : frames'[v] = frames[v]
      /\ state'[u] = "CREATED"
      /\ \A v \in Threads \ {u} : state'[v] = state[v]
  <2>0. u # t
    BY DEF PosixInv, Agreement, CreatingCall
  <2>1. frames' \in [Threads -> Seq(Frames)] /\ Len(frames'[t]) = Len(frames[t])
    BY CreateIs
  <2>2. \A i \in 1 .. Len(frames[t]) : frames'[t][i].in = frames[t][i].in
    BY CreateIs
  <2>3. Last(frames'[t]) = [in |-> "URG", at |-> "spawn"]
    BY CreateIs
  <2>4. frames'[u] = <<[in |-> "start", at |-> "suspend"]>>
    BY CreateIs
  <2>5. ASSUME NEW v \in Threads \ {t, u}
        PROVE  frames'[v] = frames[v]
    BY DEF PosixInv, Values, CreatingCall, GotoAt
  <2>6. state'[u] = "CREATED"
    BY CreateIs
  <2>7. ASSUME NEW v \in Threads \ {u}
        PROVE  state'[v] = state[v]
    BY DEF PosixInv, Values, CreatingCall
  <2> QED BY <2>0, <2>1, <2>2, <2>3, <2>4, <2>5, <2>6, <2>7
<1>2. DOMAIN frames'[t] = 1 .. Len(frames[t]) /\ DOMAIN frames[t] = 1 .. Len(frames[t])
  BY <1>1, Places DEF PosixInv
<1>3. DOMAIN frames'[u] = {1} /\ frames'[u][1].in = "start"
  BY <1>1
<1>4. ASSUME NEW v \in Threads, NEW i \in DOMAIN frames'[v]
      PROVE  frames'[v][i].in # "USR2"
  <2>1. CASE v = t
    BY <1>1, <1>2, <2>1 DEF NoIrq
  <2>2. CASE v = u
    BY <1>3, <2>2
  <2>3. CASE v # t /\ v # u
    BY <1>1, <2>3 DEF NoIrq
  <2> QED BY <2>1, <2>2, <2>3
<1>5. NoIrq'
  BY <1>4 DEF NoIrq
<1>6. Last(frames'[t]).at = "spawn"
  BY <1>1
<1> QED BY <1>1, <1>5, <1>6

\* A system call starts with its thread RUNNING and no switch to come.
LEMMA OrderlyService ==
    ASSUME PosixInv, Orderly, NEW t \in Threads, kernel_service_handler(t)
    PROVE  Orderly'
<1>1. /\ frames[t] # <<>> /\ Last(frames[t]).in = "URG" /\ Last(frames[t]).at = "handle"
      /\ t = thread_current
      /\ UNCHANGED <<thread_current, thread_next, kernel_execute_thread_switch,
                     pending, raised, aborted>>
      /\ \/ PassingCall(t)
         \/ \E st \in {"WAITING", "FINISHED"} : LeavingCall(t, st)
         \/ \E u \in Threads : CreatingCall(t, u)
  BY ServiceIs
<1>2. PICK x : x = Last(frames[t])
  OBVIOUS
<1>3. OrderlyAt(t, x) /\ Values /\ NoIrq /\ Last(frames[t]).in \in Serving
  BY <1>1, <1>2, OrderlyServing DEF OrderlyAt, Serving
<1>4. /\ state[t] = "RUNNING" /\ ~kernel_execute_thread_switch /\ "USR1" \notin pending[t]
      /\ ~raised /\ aborted # "tick"
      /\ \A u \in Threads \ {t} : state[u] # "RUNNING" /\ pending[u] = {}
  BY <1>1, <1>2, <1>3 DEF OrderlyAt
<1>5. {"yield", "spawn", "trigger"} \subseteq StepsOf[Last(frames[t]).in] /\ Finished(t) = "trigger"
  BY <1>1 DEF StepsOf, Finished
<1>6. thread_current' = t
  BY <1>1
<1>7. CASE PassingCall(t)
  <2>1. \E at \in {"yield", "trigger"} : frames' = GotoAt(t, at)
    BY <1>5, <1>7 DEF PassingCall, Finish
  <2>2. NoIrq' /\ Last(frames'[t]).at \in {"yield", "trigger"}
    BY <1>1, <1>3, <1>5, <2>1, GoesQuiet
  <2>3. state'[t] = "RUNNING" /\ \A u \in Threads \ {t} : state'[u] # "RUNNING"
    BY <1>1, <1>4, <1>7 DEF PassingCall
  <2> QED BY <1>1, <1>3, <1>4, <1>6, <2>2, <2>3, OrderlyRunning
<1>8. ASSUME NEW st \in {"WAITING", "FINISHED"}, LeavingCall(t, st)
      PROVE  Orderly'
  <2>1. state' = [state EXCEPT ![t] = st] /\ frames' = GotoAt(t, "yield")
    BY <1>8 DEF LeavingCall
  <2>2. NoIrq' /\ Last(frames'[t]) = [in |-> "URG", at |-> "yield"]
    BY <1>1, <1>3, <1>5, <2>1, GoesQuiet
  <2>3. state'[t] = st /\ \A u \in Threads \ {t} : state'[u] = state[u]
    BY <1>3, <2>1 DEF Values
  <2>4. PICK y : y.in = "URG" /\ y.at = "yield" /\ y = [in |-> "URG", at |-> "yield"]
    <3>1. PICK z : z = [in |-> "URG", at |-> "yield"]
      OBVIOUS
    <3>2. z.in = "URG" /\ z.at = "yield"
      BY <3>1
    <3> QED BY <3>1, <3>2
  <2>5. OrderlyAt(t, y)'
    BY <1>1, <1>4, <2>2, <2>3, <2>4 DEF OrderlyAt
  <2> QED BY <1>6, <2>2, <2>4, <2>5 DEF Orderly
<1>9. ASSUME NEW u \in Threads, CreatingCall(t, u)
      PROVE  Orderly'
  <2>1. /\ u # t /\ NoIrq' /\ Last(frames'[t]).at = "spawn"
        /\ state'[u] = "CREATED" /\ \A v \in Threads \ {u} : state'[v] = state[v]
    BY <1>1, <1>3, <1>9, CreatesQuiet
  <2>2. state'[t] = "RUNNING" /\ \A v \in Threads \ {t} : state'[v] # "RUNNING"
    BY <1>4, <2>1
  <2> QED BY <1>1, <1>3, <1>4, <1>6, <2>1, <2>2, OrderlyRunning
<1> QED BY <1>1, <1>7, <1>8, <1>9

LEMMA OrderlyInitialize ==
    ASSUME PosixInv, Orderly, NEW t \in Threads, os_thread_initialize_arch(t)
    PROVE  Orderly'
<1>1. /\ frames[t] # <<>> /\ Last(frames[t]).in = "URG" /\ Last(frames[t]).at = "spawn"
      /\ frames' = GotoAt(t, Finished(t))
      /\ UNCHANGED <<thread_current, thread_next, kernel_execute_thread_switch,
                     pending, raised, aborted>>
  BY InIs DEF os_thread_initialize_arch, Finish
<1>2. PICK x : x = Last(frames[t])
  OBVIOUS
<1>3. OrderlyAt(t, x) /\ Values /\ NoIrq /\ t = thread_current
  BY <1>1, <1>2, OrderlyServing DEF OrderlyAt, Serving
<1>4. /\ state[t] = "RUNNING" /\ ~kernel_execute_thread_switch /\ "USR1" \notin pending[t]
      /\ ~raised /\ aborted # "tick"
      /\ \A u \in Threads \ {t} : state[u] # "RUNNING" /\ pending[u] = {}
  BY <1>1, <1>2, <1>3 DEF OrderlyAt
<1>5. PICK u \in Threads : state[u] = "CREATED" /\ state' = [state EXCEPT ![u] = "READY"]
  BY DEF os_thread_initialize_arch
<1>6. state'[t] = "RUNNING" /\ \A v \in Threads \ {t} : state'[v] # "RUNNING"
  BY <1>3, <1>4, <1>5 DEF Values
<1>7. Finished(t) = "trigger" /\ "trigger" \in StepsOf[Last(frames[t]).in]
  BY <1>1 DEF Finished, StepsOf
<1>8. NoIrq' /\ Last(frames'[t]).at = "trigger"
  BY <1>1, <1>3, <1>7, GoesQuiet
<1>9. thread_current' = t
  BY <1>1, <1>3
<1> QED BY <1>1, <1>3, <1>4, <1>6, <1>8, <1>9, OrderlyRunning

\* The tick's assertions hold.
LEMMA OrderlyTick ==
    ASSUME PosixInv, Orderly, NEW t \in Threads, sigalrm_handler(t)
    PROVE  Orderly'
<1>1. /\ frames[t] # <<>> /\ Last(frames[t]).in = "ALRM" /\ Last(frames[t]).at = "handle"
      /\ UNCHANGED <<thread_current, thread_next, kernel_execute_thread_switch, pending, raised>>
  BY InIs DEF sigalrm_handler
<1>2. PICK x : x = Last(frames[t])
  OBVIOUS
<1>3. OrderlyAt(t, x) /\ Values /\ NoIrq /\ t = thread_current
  BY <1>1, <1>2, OrderlyServing DEF OrderlyAt, Serving
<1>4. /\ state[t] = "RUNNING" /\ ~kernel_execute_thread_switch /\ "USR1" \notin pending[t]
      /\ ~raised /\ aborted # "tick"
      /\ \A u \in Threads \ {t} : state[u] # "RUNNING" /\ pending[u] = {}
  BY <1>1, <1>2, <1>3 DEF OrderlyAt
<1>5. {u \in Threads : state[u] = "RUNNING"} = {thread_current}
  BY <1>3, <1>4
<1>6. /\ \/ UNCHANGED state
         \/ \E u \in Threads : state[u] = "WAITING" /\ state' = Woken(u)
      /\ frames' = GotoAt(t, "yield") /\ UNCHANGED aborted
  BY <1>5 DEF sigalrm_handler, Yields
<1>7. state'[t] = "RUNNING" /\ \A v \in Threads \ {t} : state'[v] # "RUNNING"
  <2>1. CASE UNCHANGED state
    BY <1>4, <2>1
  <2>2. ASSUME NEW u \in Threads, state[u] = "WAITING", state' = Woken(u)
        PROVE  state'[t] = "RUNNING" /\ \A v \in Threads \ {t} : state'[v] # "RUNNING"
    <3>1. /\ u # thread_current => state'[u] = "READY"
          /\ \A v \in Threads \ {u} : state'[v] = state[v]
      BY <1>3, <2>2, WokenIs
    <3> QED BY <1>3, <1>4, <2>2, <3>1
  <2> QED BY <1>6, <2>1, <2>2
<1>8. "yield" \in StepsOf[Last(frames[t]).in]
  BY <1>1 DEF StepsOf
<1>9. NoIrq' /\ Last(frames'[t]).at = "yield"
  BY <1>1, <1>3, <1>6, <1>8, GoesQuiet
<1>10. thread_current' = t
  BY <1>1, <1>3
<1> QED BY <1>1, <1>3, <1>4, <1>6, <1>7, <1>9, <1>10, OrderlyRunning

\* The flag is seen and SIGUSR1 sent, or there is nothing to do.
LEMMA OrderlyTrigger ==
    ASSUME PosixInv, Orderly, NEW t \in Threads, trigger_pendsv_if_needed(t)
    PROVE  Orderly'
<1>1. PICK h \in Handlers : In(t, h, "trigger")
  BY DEF trigger_pendsv_if_needed
<1>2. frames[t] # <<>> /\ Last(frames[t]).in = h /\ Last(frames[t]).at = "trigger" /\ h \in Serving
  BY <1>1, TriggersIn DEF PosixInv
<1>3. UNCHANGED <<thread_current, thread_next, kernel_execute_thread_switch, state, raised, aborted>>
  BY DEF trigger_pendsv_if_needed, kernelVars, irqVars
<1>4. PICK x : x = Last(frames[t])
  OBVIOUS
<1>5. /\ t = thread_current /\ h \in {"URG", "ALRM"} /\ OrderlyAt(t, x) /\ Values /\ NoIrq
  BY <1>2, <1>4, OrderlyServing DEF OrderlyAt
<1>6. thread_current' = t
  BY <1>3, <1>5
<1>7. CASE kernel_execute_thread_switch
  <2>1. pending' = [pending EXCEPT ![t] = @ \cup {"USR1"}] /\ frames' = GotoAt(t, "clear")
    BY <1>7 DEF trigger_pendsv_if_needed
  <2>2. "clear" \in StepsOf[Last(frames[t]).in]
    BY <1>2, <1>5 DEF StepsOf
  <2>3. NoIrq' /\ Last(frames'[t]).in = h /\ Last(frames'[t]).at = "clear"
    BY <1>2, <1>5, <2>1, <2>2, GoesQuiet
  <2>4. PICK y : y = Last(frames'[t])
    OBVIOUS
  <2>5. "USR1" \in pending'[t] /\ \A u \in Threads \ {t} : pending'[u] = pending[u]
    BY <1>5, <2>1 DEF Values
  <2>6. CanRun(thread_next)'
    BY <1>3, <1>5, <1>7 DEF OrderlyAt, CanRun
  <2>7. OrderlyAt(t, y)'
    BY <1>2, <1>3, <1>4, <1>5, <2>3, <2>4, <2>5, <2>6 DEF OrderlyAt
  <2> QED BY <1>6, <2>4, <2>7 DEF Orderly
<1>8. CASE ~kernel_execute_thread_switch
  <2>1. frames' = Returned(t) /\ UNCHANGED pending
    BY <1>8 DEF trigger_pendsv_if_needed
  <2>2. NoIrq' /\ Last(frames'[t]).at \in {"run", "called"}
    BY <1>1, <1>2, <1>5, <2>1, ReturnsQuiet
  <2>3. state[t] = "RUNNING" /\ ~raised /\ aborted # "tick" /\ "USR1" \notin pending[t]
        /\ \A u \in Threads \ {t} : state[u] # "RUNNING"
    BY <1>2, <1>4, <1>5, <1>8 DEF OrderlyAt
  <2> QED BY <1>3, <1>5, <1>6, <1>8, <2>1, <2>2, <2>3, OrderlyRunning
<1> QED BY <1>7, <1>8

LEMMA OrderlyClears ==
    ASSUME PosixInv, Orderly, NEW t \in Threads, TriggerClears(t)
    PROVE  Orderly'
<1>1. PICK h \in Handlers : In(t, h, "clear")
  BY DEF TriggerClears
<1>2. frames[t] # <<>> /\ Last(frames[t]).in = h /\ Last(frames[t]).at = "clear" /\ h \in Serving
  BY <1>1, TriggersIn DEF PosixInv
<1>3. /\ kernel_execute_thread_switch' = FALSE /\ frames' = Returned(t)
      /\ UNCHANGED <<thread_current, thread_next, state, pending, raised, aborted>>
  BY DEF TriggerClears, irqVars
<1>4. PICK x : x = Last(frames[t])
  OBVIOUS
<1>5. /\ t = thread_current /\ OrderlyAt(t, x) /\ Values /\ NoIrq
  BY <1>2, <1>4, OrderlyServing DEF OrderlyAt
<1>6. thread_current' = t
  BY <1>3, <1>5
<1>7. NoIrq' /\ Last(frames'[t]).in = "user" /\ Last(frames'[t]).at \in {"run", "called"}
  BY <1>1, <1>2, <1>3, <1>5, ReturnsQuiet
<1>8. PICK y : y = Last(frames'[t])
  OBVIOUS
<1>9. "USR1" \in pending[t] => CanRun(thread_next)'
  BY <1>3, <1>5 DEF OrderlyAt, CanRun
<1>10. OrderlyAt(t, y)'
  BY <1>2, <1>3, <1>4, <1>5, <1>7, <1>8, <1>9 DEF OrderlyAt
<1> QED BY <1>6, <1>8, <1>10 DEF Orderly

\* SIGUSR1 leads to the switch, SIGURG to the call.
LEMMA OrderlyDeliver ==
    ASSUME PosixInv, Orderly, NEW t \in Threads, NEW s \in Handlers, DeliverPending(t, s)
    PROVE  Orderly'
<1>1. /\ frames[t] # <<>> /\ s \in pending[t] /\ s \notin Blocked(t)
      /\ pending' = [pending EXCEPT ![t] = @ \ {s}]
      /\ frames' = [frames EXCEPT ![t] = Entered(t, s)]
      /\ UNCHANGED <<thread_current, thread_next, kernel_execute_thread_switch, state, raised, aborted>>
  BY DEF DeliverPending, kernelVars, irqVars
<1>2. Values /\ NoIrq /\ t = thread_current
  BY <1>1 DEF PosixInv, Orderly, OrderlyAt
<1>3. PICK x : x = Last(frames[t])
  OBVIOUS
<1>4. OrderlyAt(t, x)
  BY <1>2, <1>3 DEF Orderly
<1>5. s \in {"USR1", "URG"} /\ pending \in [Threads -> SUBSET {"USR1", "URG"}]
  BY <1>1, <1>2 DEF Values
<1>6. s = "URG" => pending[t] = {"URG"} /\ frames[t] = <<[in |-> "user", at |-> "called"]>>
  BY <1>1 DEF PosixInv, Calls, CallStands
<1>7. s \in {"USR1", "URG", "ALRM"}
  BY <1>5
<1>8. /\ NoIrq' /\ Last(frames'[t]) = [in |-> s, at |-> FirstStep(s)]
      /\ x.in = "user" /\ x.at \in {"run", "called"}
  BY <1>1, <1>2, <1>3, <1>6, <1>7, EntersQuiet
<1>9. Last(frames'[t]).in = s /\ Last(frames'[t]).at = FirstStep(s)
  BY <1>8
<1>10. pending'[t] = pending[t] \ {s} /\ \A u \in Threads \ {t} : pending'[u] = pending[u]
  BY <1>1, <1>5
<1>11. thread_current' = t
  BY <1>1, <1>2
<1>12. CASE s = "URG"
  <2>1. /\ state[t] = "RUNNING" /\ ~kernel_execute_thread_switch /\ ~raised /\ aborted # "tick"
        /\ \A u \in Threads \ {t} : state[u] # "RUNNING"
    BY <1>4, <1>6, <1>8, <1>12 DEF OrderlyAt
  <2>2. Last(frames'[t]).at = "handle" /\ "USR1" \notin pending'[t]
    BY <1>6, <1>9, <1>10, <1>12 DEF FirstStep
  <2> QED BY <1>1, <1>2, <1>8, <1>10, <1>11, <2>1, <2>2, OrderlyRunning
<1>13. CASE s = "USR1"
  <2>1. PICK y : y = Last(frames'[t])
    OBVIOUS
  <2>2. y.in = "USR1" /\ y.at = "switch" /\ "USR1" \notin pending'[t]
    BY <1>9, <1>10, <1>13, <2>1 DEF FirstStep
  <2>3. CanRun(thread_next)'
    BY <1>1, <1>4, <1>13 DEF OrderlyAt, CanRun
  <2>4. OrderlyAt(t, y)'
    BY <1>1, <1>4, <1>8, <1>10, <2>2, <2>3 DEF OrderlyAt
  <2> QED BY <1>11, <2>1, <2>4 DEF Orderly
<1> QED BY <1>5, <1>12, <1>13

\* The tick comes to user code that has nothing pending.
LEMMA OrderlyTimer ==
    ASSUME PosixInv, Orderly, NEW t \in Threads, TimerExpires(t)
    PROVE  Orderly'
<1>1. /\ Free(t) /\ frames[t] # <<>> /\ "ALRM" \notin Blocked(t)
      /\ frames' = [frames EXCEPT ![t] = Entered(t, "ALRM")]
      /\ UNCHANGED <<thread_current, thread_next, kernel_execute_thread_switch, state, pending, raised, aborted>>
  BY DEF TimerExpires, Delivered, kernelVars
<1>2. Values /\ NoIrq
  BY DEF PosixInv, Orderly, OrderlyAt
<1>3. /\ NoIrq' /\ Last(frames'[t]) = [in |-> "ALRM", at |-> FirstStep("ALRM")]
      /\ Last(frames[t]).in = "user"
  BY <1>1, <1>2, EntersQuiet
<1>4. t = thread_current /\ pending[t] = {}
  BY <1>1, <1>3, UserRuns
<1>5. /\ state[t] = "RUNNING" /\ ~kernel_execute_thread_switch /\ "USR1" \notin pending[t]
      /\ ~raised /\ aborted # "tick" /\ \A u \in Threads \ {t} : state[u] # "RUNNING"
  BY <1>1, <1>3, <1>4, OrderlyIdle
<1>6. Last(frames'[t]).at = "handle"
  BY <1>3 DEF FirstStep
<1>7. thread_current' = t
  BY <1>1, <1>4
<1> QED BY <1>1, <1>2, <1>3, <1>4, <1>5, <1>6, <1>7, OrderlyRunning

\* What user code does around a call.
LEMMA OrderlyUser ==
    ASSUME PosixInv, Orderly, NEW t \in Threads, frames[t] # <<>>, Last(frames[t]).in = "user", Free(t),
           NEW at \in {"run", "called"}, frames' = GotoAt(t, at) \/ frames' = frames,
           UNCHANGED <<kernelVars, irqVars>>, aborted' # "tick",
           pending' = pending \/ pending' = [pending EXCEPT ![t] = @ \cup {"URG"}]
    PROVE  Orderly'
<1>1. Values /\ NoIrq
  BY DEF PosixInv, Orderly, OrderlyAt
<1>2. t = thread_current /\ pending[t] = {}
  BY UserRuns
<1>3. /\ state[t] = "RUNNING" /\ ~kernel_execute_thread_switch
      /\ ~raised /\ \A u \in Threads \ {t} : state[u] # "RUNNING"
  BY <1>2, OrderlyIdle
<1>4. at \in StepsOf[Last(frames[t]).in] /\ Last(frames[t]).at \in {"run", "called"}
  <2>1. Last(frames[t]).at \in StepsOf[Last(frames[t]).in]
    BY <1>1, Places
  <2> QED BY <2>1 DEF StepsOf
<1>5. NoIrq' /\ Last(frames'[t]).at \in {"run", "called"}
  <2>1. CASE frames' = frames
    BY <1>1, <1>4, <2>1 DEF NoIrq
  <2>2. CASE frames' = GotoAt(t, at)
    BY <1>1, <1>4, <2>2, GoesQuiet
  <2> QED BY <2>1, <2>2
<1>6. "USR1" \notin pending'[t] /\ \A u \in Threads \ {t} : pending'[u] = pending[u]
  BY <1>1, <1>2 DEF Values
<1>7. UNCHANGED <<thread_current, kernel_execute_thread_switch, state, raised>>
  BY DEF kernelVars, irqVars
<1>8. thread_current' = t
  BY <1>2, <1>7
<1> QED BY <1>1, <1>2, <1>3, <1>5, <1>6, <1>7, <1>8, OrderlyRunning

\* A step of the hand-over, on any host.
LEMMA OrderlyHandOver ==
    ASSUME PosixInv, Orderly, NEW t \in Threads, frames[t] # <<>>,
           Last(frames[t]).at \in {"suspend", "read", "resumed", "unblock", "wait", "signal", "resume"},
           t = thread_current => Last(frames[t]).at # "resume",
           NoIrq', \A u \in Threads \ {t} : frames'[u] = frames[u],
           Last(frames'[t]).at \notin {"switch", "commit"},
           UNCHANGED <<kernelVars, pending, irqVars>>, aborted' # "tick"
    PROVE  Orderly'
<1>1. CASE t # thread_current
  BY <1>1, OrderlyElsewhere
<1>2. CASE t = thread_current
  <2>1. /\ state[t] = "RUNNING" /\ ~kernel_execute_thread_switch /\ "USR1" \notin pending[t]
        /\ ~raised /\ \A u \in Threads \ {t} : state[u] # "RUNNING"
    BY <1>2, OrderlyIdle
  <2>2. UNCHANGED <<thread_current, kernel_execute_thread_switch, state, raised, pending>>
    BY DEF kernelVars, irqVars
  <2>3. thread_current' = t /\ Values
    BY <1>2, <2>2 DEF PosixInv
  <2> QED BY <1>2, <2>1, <2>2, <2>3, OrderlyRunning
<1> QED BY <1>1, <1>2

LEMMA OrderlyMoves ==
    ASSUME PosixInv, Orderly, NEW t \in Threads, HandOver(t)
    PROVE  Orderly'
<1>1. Values /\ Token /\ NoIrq /\ aborted # "tick"
  BY DEF PosixInv, Orderly, OrderlyAt
<1>2. ASSUME frames[t] # <<>>, Last(frames[t]).in \in {"start", "USR1"},
             Last(frames[t]).at \in {"suspend", "read", "resumed", "wait", "resume"},
             t = thread_current => Last(frames[t]).at # "resume",
             NEW at \in StepsOf[Last(frames[t]).in], at \notin {"switch", "commit"},
             frames' = GotoAt(t, at),
             UNCHANGED <<kernelVars, pending, irqVars, aborted>>
      PROVE  Orderly'
  <2>1. /\ NoIrq' /\ Last(frames'[t]).at = at
        /\ \A u \in Threads \ {t} : frames'[u] = frames[u]
    BY <1>1, <1>2, GoesQuiet
  <2> QED BY <1>1, <1>2, <2>1, OrderlyHandOver
<1>3. CASE thread_suspend_execution(t)
  <2>1. /\ frames[t] # <<>> /\ Last(frames[t]).in \in {"start", "USR1"} /\ Last(frames[t]).at = "suspend"
        /\ frames' = GotoAt(t, "read") /\ UNCHANGED <<kernelVars, pending, irqVars, aborted>>
    BY <1>3, InIs DEF thread_suspend_execution, Suspends
  <2>2. "read" \in StepsOf[Last(frames[t]).in]
    BY <2>1 DEF StepsOf
  <2> QED BY <1>2, <2>1, <2>2
<1>4. CASE SuspendRead(t)
  <2>1. /\ frames[t] # <<>> /\ Last(frames[t]).in \in {"start", "USR1"} /\ Last(frames[t]).at = "read"
        /\ frames' = GotoAt(t, "resumed") /\ UNCHANGED <<kernelVars, pending, irqVars, aborted>>
    BY <1>4, InIs DEF SuspendRead
  <2>2. "resumed" \in StepsOf[Last(frames[t]).in]
    BY <2>1 DEF StepsOf
  <2> QED BY <1>2, <2>1, <2>2
<1>5. CASE SuspendEnds(t)
  <2>1. /\ frames[t] # <<>> /\ Last(frames[t]).in \in {"start", "USR1"} /\ Last(frames[t]).at = "resumed"
        /\ frames' = GotoAt(t, AfterResume(t)) /\ UNCHANGED <<kernelVars, pending, irqVars, aborted>>
    BY <1>5, InIs DEF SuspendEnds
  <2>2. AfterResume(t) \in StepsOf[Last(frames[t]).in] /\ AfterResume(t) \in {"wait", "unblock"}
    BY <2>1 DEF StepsOf, AfterResume
  <2> QED BY <1>2, <2>1, <2>2
<1>6. CASE SwitchWaits(t)
  <2>1. /\ frames[t] # <<>> /\ Last(frames[t]).in = "USR1" /\ Last(frames[t]).at = "wait"
        /\ frames' = GotoAt(t, "signal") /\ UNCHANGED <<kernelVars, pending, irqVars, aborted>>
    BY <1>6, InIs DEF SwitchWaits
  <2>2. "signal" \in StepsOf[Last(frames[t]).in]
    BY <2>1 DEF StepsOf
  <2> QED BY <1>2, <2>1, <2>2
<1>7. CASE thread_resume_execution(t)
  <2>1. /\ frames[t] # <<>> /\ Last(frames[t]).in = "USR1" /\ Last(frames[t]).at = "resume"
        /\ UNCHANGED <<kernelVars, pending, irqVars>>
    BY <1>7, InIs DEF thread_resume_execution
  <2>2. t # thread_current
    <3>1. Position(t) = "resume"
      BY <1>1, <2>1, Places
    <3> QED BY <1>1, <3>1 DEF Token
  <2>3. CASE frames' = GotoAt(t, "suspend") /\ UNCHANGED aborted
    <3>1. "suspend" \in StepsOf[Last(frames[t]).in]
      BY <2>1 DEF StepsOf
    <3> QED BY <1>2, <2>1, <2>2, <2>3, <3>1
  <2>4. CASE frames' = frames /\ aborted' = "resume"
    <3>1. NoIrq' /\ \A u \in Threads \ {t} : frames'[u] = frames[u]
      BY <1>1, <2>4 DEF NoIrq
    <3> QED BY <2>1, <2>2, <2>4, <3>1, OrderlyElsewhere
  <2> QED BY <1>7, <2>3, <2>4 DEF thread_resume_execution
<1>8. CASE thread_startup_handler(t)
  <2>1. /\ frames[t] # <<>> /\ Last(frames[t]).in = "start" /\ Last(frames[t]).at = "unblock"
        /\ frames' = [frames EXCEPT ![t] = <<[in |-> "user", at |-> "run"]>>]
        /\ UNCHANGED <<kernelVars, pending, irqVars, aborted>>
    BY <1>8, InIs DEF thread_startup_handler
  <2>2. frames'[t] = <<[in |-> "user", at |-> "run"]>> /\ \A u \in Threads \ {t} : frames'[u] = frames[u]
    BY <1>1, <2>1 DEF Values
  <2>3. DOMAIN frames'[t] = {1} /\ frames'[t][1].in = "user" /\ Last(frames'[t]).at = "run"
    BY <2>2 DEF Last
  <2>4. NoIrq'
    BY <1>1, <2>2, <2>3 DEF NoIrq
  <2> QED BY <1>1, <2>1, <2>2, <2>3, <2>4, OrderlyHandOver
<1> QED BY <1>3, <1>4, <1>5, <1>6, <1>7, <1>8 DEF HandOver

LEMMA OrderlySignals ==
    ASSUME PosixInv, Orderly, NEW t \in Threads, SwitchSignals(t)
    PROVE  Orderly'
<1>1. /\ frames[t] # <<>> /\ Last(frames[t]).in = "USR1" /\ Last(frames[t]).at = "signal"
      /\ frames' = Returned(t) /\ UNCHANGED <<kernelVars, pending, irqVars, aborted>>
  BY InIs DEF SwitchSignals
<1>2. Values /\ NoIrq /\ aborted # "tick" /\ Last(frames[t]).in \in Handlers
  BY <1>1 DEF PosixInv, Orderly, OrderlyAt, Handlers
<1>3. /\ NoIrq' /\ Last(frames'[t]).at \in {"run", "called"}
      /\ \A u \in Threads \ {t} : frames'[u] = frames[u]
  BY <1>1, <1>2, ReturnsQuiet
<1> QED BY <1>1, <1>2, <1>3, OrderlyHandOver

\* The thread switched to can run, and was left in the hand-over.
LEMMA OrderlySwitch ==
    ASSUME PosixInv, Orderly, NEW t \in Threads, thread_switch_handler(t)
    PROVE  Orderly'
<1>1. /\ frames[t] # <<>> /\ Last(frames[t]).in = "USR1" /\ Last(frames[t]).at = "switch"
      /\ UNCHANGED <<thread_next, kernel_execute_thread_switch, pending, raised, aborted>>
  BY InIs DEF thread_switch_handler, irqVars
<1>2. t = thread_current /\ pending[t] = {} /\ \A u \in Threads : Position(u) # "resume"
  BY <1>1, SwitchingQuiet
<1>3. PICK x : x = Last(frames[t])
  OBVIOUS
<1>4. OrderlyAt(t, x) /\ Values /\ NoIrq /\ Token /\ Agreement /\ Last(frames[t]).in \in Handlers
  BY <1>1, <1>2, <1>3 DEF Orderly, OrderlyAt, PosixInv, Handlers
<1>5. PICK n \in Threads : n = thread_next
  BY <1>4 DEF Values
<1>6. /\ state[n] \in {"READY", "RUNNING"} /\ ~kernel_execute_thread_switch /\ ~raised /\ aborted # "tick"
      /\ state[t] # "READY"
      /\ \A u \in Threads \ {t} : state[u] # "RUNNING" /\ pending[u] = {}
  BY <1>1, <1>3, <1>4, <1>5 DEF OrderlyAt, CanRun
<1>7. CASE t = n
  <2>1. frames' = Returned(t) /\ UNCHANGED <<state, thread_current>>
    BY <1>2, <1>5, <1>7 DEF thread_switch_handler
  <2>2. NoIrq' /\ Last(frames'[t]).at \in {"run", "called"}
    BY <1>1, <1>4, <2>1, ReturnsQuiet
  <2>3. state[t] = "RUNNING" /\ thread_current' = t
    BY <1>2, <1>6, <1>7, <2>1
  <2> QED BY <1>1, <1>2, <1>4, <1>6, <2>1, <2>2, <2>3, OrderlyRunning
<1>8. CASE t # n
  <2>1. /\ state' = [state EXCEPT ![t] = IF @ = "RUNNING" THEN "READY" ELSE @, ![n] = "RUNNING"]
        /\ thread_current' = n /\ frames' = GotoAt(t, "resume")
    <3>1. /\ state' = [state EXCEPT ![thread_current] = IF @ = "RUNNING" THEN "READY" ELSE @,
                                    ![thread_next] = "RUNNING"]
          /\ thread_current' = thread_next /\ frames' = GotoAt(t, "resume")
      BY <1>2, <1>5, <1>8, Zenon DEF thread_switch_handler
    <3>2. state' = [state EXCEPT ![t] = IF @ = "RUNNING" THEN "READY" ELSE @, ![n] = "RUNNING"]
      BY <1>2, <1>5, <3>1, Zenon
    <3> QED BY <1>5, <3>1, <3>2
  <2>2. /\ state'[n] = "RUNNING" /\ state'[t] # "RUNNING"
        /\ \A u \in Threads \ {t, n} : state'[u] = state[u]
    BY <1>4, <1>8, <2>1 DEF Values
  <2>3. "resume" \in StepsOf[Last(frames[t]).in]
    BY <1>1 DEF StepsOf
  <2>4. NoIrq' /\ frames'[n] = frames[n]
    BY <1>1, <1>4, <1>8, <2>1, <2>3, GoesQuiet
  <2>5. frames[n] # <<>>
    BY <1>4, <1>6 DEF Agreement
  <2>6. Last(frames[n]).at \notin {"switch", "commit"}
    <3>1. Last(frames[n]).in \in {"start", "user", "URG", "ALRM", "USR1"}
      BY <1>4, <2>5, Shapes
    <3>2. Last(frames[n]).in \in {"start", "USR1"}
      BY <1>2, <1>4, <1>8, <2>5, <3>1, Executing
    <3>3. Last(frames[n]).at \notin {"switch"}
      BY <1>2, <1>4, <1>8, <2>5, <3>2, Executing
    <3>4. Last(frames[n]).at \in StepsOf[Last(frames[n]).in]
      BY <1>4, <2>5, Places
    <3> QED BY <3>2, <3>3, <3>4 DEF StepsOf
  <2>7. PICK y : y = Last(frames'[n])
    OBVIOUS
  <2>8. y.at \notin {"switch", "commit"}
    BY <2>4, <2>6, <2>7
  <2>9. pending'[n] = {} /\ \A u \in Threads \ {n} : pending'[u] = {} /\ state'[u] # "RUNNING"
    BY <1>1, <1>2, <1>6, <1>8, <2>2
  <2>10. OrderlyAt(n, y)'
    BY <1>1, <1>6, <2>2, <2>4, <2>8, <2>9 DEF OrderlyAt
  <2> QED BY <2>1, <2>7, <2>10 DEF Orderly
<1> QED BY <1>7, <1>8

LEMMA OrderlyInit == Init => Orderly
<1> SUFFICES ASSUME Init PROVE Orderly
  OBVIOUS
<1>1. PICK b \in Autostart :
         /\ thread_current = b /\ kernel_execute_thread_switch = FALSE /\ aborted = "no" /\ raised = FALSE
         /\ \A t \in Threads :
               /\ frames[t] = IF t \in Autostart THEN <<[in |-> "start", at |-> "read"]>> ELSE <<>>
               /\ state[t] = IF t = b THEN "RUNNING" ELSE IF t \in Autostart THEN "READY" ELSE "EMPTY"
               /\ pending[t] = {}
  BY InitIs
<1>2. b \in Threads
  BY PosixAssumption
<1>3. NoIrq
  <2> SUFFICES ASSUME NEW t \in Threads, NEW i \in DOMAIN frames[t]
               PROVE  frames[t][i].in # "USR2"
    BY DEF NoIrq
  <2>1. frames[t] = <<[in |-> "start", at |-> "read"]>>
    BY <1>1
  <2> QED BY <2>1
<1>4. PICK x : x = Last(frames[b])
  OBVIOUS
<1>5. x.at = "read"
  BY <1>1, <1>2, <1>4 DEF Last
<1>6. OrderlyAt(b, x)
  BY <1>1, <1>2, <1>3, <1>5 DEF OrderlyAt
<1> QED BY <1>1, <1>4, <1>6 DEF Orderly

LEMMA OrderlyStep ==
    ASSUME PosixInv, Orderly, Execution \/ UNCHANGED vars
    PROVE  Orderly'
<1>1. /\ NoIrq /\ ~raised /\ aborted # "tick"
  BY DEF Orderly, OrderlyAt
<1>2. ASSUME NEW t \in Threads, Handler(t)
      PROVE  Orderly'
  <2>1. ~irq_handler(t) /\ ~InterruptServed(t)
    <3>1. ASSUME frames[t] # <<>>, Last(frames[t]).in = "USR2" PROVE FALSE
      BY <1>1, <3>1, OrderlyServing DEF Serving
    <3> QED BY <3>1, InIs DEF irq_handler, InterruptServed
  <2> QED BY <1>2, <2>1, OrderlyDeliver, OrderlySwitch, OrderlySignals, OrderlyService,
             OrderlyInitialize, OrderlyTick, OrderlyYield, OrderlyCommit, OrderlyTrigger,
             OrderlyClears DEF Handler
<1>3. ASSUME NEW t \in Threads, EntrypointReturns(t)
      PROVE  Orderly'
  <2>1. /\ frames[t] # <<>> /\ Last(frames[t]).in = "user" /\ Free(t) /\ UNCHANGED <<kernelVars, irqVars, pending>>
        /\ aborted' # "tick" /\ (frames' = GotoAt(t, "run") \/ frames' = frames)
    BY <1>1, <1>3, InIs DEF EntrypointReturns
  <2> QED BY <2>1, OrderlyUser
<1>4. ASSUME NEW t \in Threads, NEW id, system_call_entrypoint(t, id)
      PROVE  Orderly'
  <2>1. /\ frames[t] # <<>> /\ Last(frames[t]).in = "user" /\ Free(t) /\ UNCHANGED <<kernelVars, irqVars>>
        /\ aborted' # "tick" /\ frames' = GotoAt(t, "called")
        /\ pending' = [pending EXCEPT ![t] = @ \cup {"URG"}]
    BY <1>1, <1>4, InIs DEF system_call_entrypoint
  <2> QED BY <2>1, OrderlyUser
<1>5. ASSUME UNCHANGED vars
      PROVE  Orderly'
  BY <1>5 DEF Orderly, OrderlyAt, NoIrq, CanRun, vars, kernelVars, hostVars, irqVars
<1>6. ~InterruptTakenByMain /\ \A t \in Threads : ~InterruptTaken(t)
  BY <1>1 DEF InterruptTakenByMain, InterruptTaken
<1>7. ASSUME Aborted
      PROVE  Orderly'
  BY <1>7 DEF Aborted, Orderly, OrderlyAt, NoIrq, CanRun, kernelVars, hostVars, irqVars
<1> QED BY <1>2, <1>3, <1>4, <1>5, <1>6, <1>7, OrderlyMoves, OrderlyTimer DEF Execution

\* Only generate_interrupt counts, and what it does need not be orderly.
LEMMA OrderlyUntilInterrupt ==
    ASSUME PosixInv, interrupts = 0 => Orderly, [Next]_vars, interrupts \in Nat
    PROVE  interrupts' = 0 => Orderly'
<1>1. CASE (Execution \/ UNCHANGED vars) /\ UNCHANGED interrupts
  BY <1>1, OrderlyStep
<1>2. CASE generate_interrupt
  BY <1>2 DEF generate_interrupt
<1> QED BY <1>1, <1>2 DEF Next, vars

------------------------------------------------------------------------------
(***************************************************************************)
(* The theorems.                                                           *)
(***************************************************************************)

\* The inductive invariant holds in every reachable state, wherever interrupts
\* are taken and whatever they notify.
THEOREM PosixIsSound == Spec => []PosixInv
<1>1. PosixInv /\ [Next]_vars => PosixInv'
  BY PosixStep
<1> QED BY <1>1, PosixInit, PTL DEF Spec

\* In particular the variables have their types, no pipe ever holds two bytes,
\* and no handler is entered twice on a host.
THEOREM PosixTypes == Spec => []TypeOK
<1> DEFINE Counted == interrupts \in 0 .. MaxInterrupts
<1>0. (Init => Counted) /\ (Counted /\ [Next]_vars => Counted')
  BY PosixAssumption DEF Init, Next, generate_interrupt, vars
<1>1. PosixInv /\ Counted => TypeOK
  <2> SUFFICES ASSUME PosixInv, Counted PROVE TypeOK
    OBVIOUS
  <2>1. Values
    BY DEF PosixInv
  <2>2. ASSUME NEW t \in Threads
        PROVE  /\ Range(frames[t]) \subseteq Frames
               /\ \A i, j \in 1 .. Len(frames[t]) : i # j => frames[t][i].in # frames[t][j].in
    <3>1. /\ frames[t] \in Seq(Frames) /\ Nested(frames[t]) /\ Len(frames[t]) \in Nat
          /\ DOMAIN frames[t] = 1 .. Len(frames[t])
      BY <2>1 DEF Values
    <3>2. Range(frames[t]) \subseteq Frames
      BY <3>1 DEF Range, Nested
    <3>3. ASSUME NEW i \in 1 .. Len(frames[t]), NEW j \in 1 .. Len(frames[t]), i < j
          PROVE  frames[t][i].in # frames[t][j].in
      <4>1. /\ frames[t][i] \in Frames /\ frames[t][j].in \notin Masks[frames[t][i].in]
            /\ frames[t][i].in \in {"start", "user"} => i = 1
            /\ frames[t][j].in \in {"start", "user"} => j = 1
        BY <3>1, <3>3 DEF Nested
      <4>2. j # 1
        BY <3>1, <3>3
      <4>3. frames[t][i].in \in Handlers \cup {"start", "user"}
        BY <4>1 DEF Frames
      <4> QED BY <4>1, <4>2, <4>3 DEF Handlers, Masks
    <3>4. \A i, j \in 1 .. Len(frames[t]) : i # j => i < j \/ j < i
      BY <3>1
    <3> QED BY <3>2, <3>3, <3>4
  <2> QED BY <2>1, <2>2 DEF TypeOK, Values, States
<1> HIDE DEF Counted
<1> QED BY <1>0, <1>1, PosixIsSound, PTL DEF Spec

\* Only the host of the current thread executes user code, a system call, the
\* tick or a thread switch, although the hosts run in parallel and any of them
\* may take an interrupt: what kernel_service_handler and thread_switch_handler
\* assert.
THEOREM OnlyOneExecutes == Spec => []OnlyCurrentExecutes
<1>1. PosixInv => OnlyCurrentExecutes
  <2> SUFFICES ASSUME PosixInv, NEW t \in Threads, Executes(t)
               PROVE  t = thread_current
    BY DEF OnlyCurrentExecutes
  <2>1. Values /\ Token /\ frames[t] # <<>>
    BY DEF PosixInv, Executes
  <2>2. CASE Last(frames[t]).in # "USR2"
    <3>1. \/ Last(frames[t]).in \in {"user", "URG", "ALRM"}
          \/ Last(frames[t]).in = "USR1" /\ Last(frames[t]).at \in {"switch", "signal"}
      BY <2>2 DEF Executes, Beneath
    <3> QED BY <2>1, <3>1, Executing
  <2>3. CASE Last(frames[t]).in = "USR2"
    <3>1. PICK n \in Nat : n = Len(frames[t])
      BY <2>1, Places
    <3>2. /\ Nested(frames[t]) /\ n # 1 /\ n # 0 /\ Last(frames[t]) = frames[t][n]
      BY <2>1, <2>3, <3>1, Places DEF Values
    <3>3. n \in 1 .. n /\ n - 1 \in 1 .. n /\ n - 1 < n /\ 1 \in 1 .. n
      BY <3>2
    <3>4. "USR2" \notin Masks[frames[t][n - 1].in]
      BY <2>3, <3>1, <3>2, <3>3 DEF Nested
    <3>5. frames[t][n - 1].in \in {"user", "URG", "ALRM"}
      <4>1. frames[t][n - 1].in \in {"user", "URG", "ALRM", "USR1"}
        BY <2>3, <3>1 DEF Executes, Beneath
      <4> QED BY <3>4, <4>1 DEF Masks
    <3>6. n - 1 # 1 => frames[t][n - 1].in \notin Masks[frames[t][1].in]
      <4>1. n - 1 # 1 => 1 < n - 1
        BY <3>3
      <4> QED BY <3>1, <3>2, <3>3, <4>1 DEF Nested
    <3>7. frames[t][n - 1].in = "user" => n - 1 = 1
      BY <3>1, <3>2, <3>3 DEF Nested
    <3>8. frames[t][1].in # "start"
      BY <3>5, <3>6, <3>7 DEF Masks
    <3>9. ~Unstarted(t)
      BY <2>1, <3>8, Places
    <3> QED BY <2>1, <2>3, <3>9, Elsewhere DEF Serving
  <2> QED BY <2>2, <2>3
<1> QED BY <1>1, PosixIsSound, PTL

\* A thread goes on past system_call_entrypoint only once its call was served,
\* however often it was switched out, interrupted or ticked in between.
THEOREM CallsAreServed == Spec => []CallServed
<1>1. PosixInv => CallServed
  <2> SUFFICES ASSUME PosixInv, NEW t \in Threads, frames[t] # <<>>, Last(frames[t]).in = "user",
                      Free(t), Last(frames[t]).at = "called"
               PROVE  syscall[t].retval = "served"
    BY DEF CallServed, Back
  <2>1. pending[t] = {} /\ Last(frames[t]) = frames[t][1]
    BY UserRuns
  <2>2. \A i \in DOMAIN frames[t] : frames[t][i].in # "URG"
    BY NoUrgBelow DEF PosixInv
  <2>3. CallStands(t) /\ aborted = "no"
    BY DEF PosixInv, Calls, Free
  <2> QED BY <2>1, <2>2, <2>3 DEF CallStands
<1> QED BY <1>1, PosixIsSound, PTL

\* As long as no interrupt was generated the tick finds the current thread, and
\* no other, RUNNING: it never comes between a call that blocks its thread and
\* the switch away from it.
THEOREM TickIsSafe == Spec => []TickFindsRunning
<1>1. PosixInv /\ TypeOK /\ (interrupts = 0 => Orderly) /\ [Next]_vars => (interrupts = 0 => Orderly)'
  BY OrderlyUntilInterrupt DEF TypeOK
<1>2. (interrupts = 0 => Orderly) => TickFindsRunning
  BY DEF Orderly, OrderlyAt, TickFindsRunning
<1> QED BY <1>1, <1>2, OrderlyInit, PosixIsSound, PosixTypes, PTL DEF Spec

\* As long as no interrupt was generated a thread that a call blocked or ended
\* goes back to its user code only once it was made ready again.
THEOREM CallsComplete == Spec => []CallCompletes
<1>1. PosixInv /\ TypeOK /\ (interrupts = 0 => Orderly) /\ [Next]_vars => (interrupts = 0 => Orderly)'
  BY OrderlyUntilInterrupt DEF TypeOK
<1>2. PosixInv /\ (interrupts = 0 => Orderly) => CallCompletes
  <2> SUFFICES ASSUME PosixInv, Orderly, NEW t \in Threads,
                      frames[t] # <<>>, Last(frames[t]).in = "user", Free(t)
               PROVE  state[t] = "RUNNING"
    BY DEF CallCompletes, Back
  <2>1. t = thread_current /\ pending[t] = {}
    BY UserRuns
  <2> QED BY <2>1, OrderlyIdle
<1> QED BY <1>1, <1>2, OrderlyInit, PosixIsSound, PosixTypes, PTL DEF Spec
==============================================================================
