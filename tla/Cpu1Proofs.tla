----------------------------- MODULE Cpu1Proofs -----------------------------
(***************************************************************************)
(* What CPU1 keeps beside its scheduler, each part for itself.  First the  *)
(* circular buffers of the log, for any depth, any slots and any sampling  *)
(* rates, whatever a tick is in microseconds; then the demo controllers,   *)
(* for any number of them, of phases and of shared channels, and for any   *)
(* set of speeds of at most a turn per callback; then the PWM driver, for  *)
(* any carrier, dead times, duty ratios and pace of the bus.               *)
(***************************************************************************)
EXTENDS MCCpu1, SequenceTheorems, TLAPS

(***************************************************************************)
(* Where the i-th oldest of n samples is, without the remainder.           *)
(***************************************************************************)
LEMMA ModBack ==
  ASSUME NEW b \in Nat \ {0}, NEW a \in -b .. b - 1
  PROVE  a % b = IF a < 0 THEN a + b ELSE a
<1> DEFINE q == a \div b
           r == a % b
<1>1. r \in 0 .. b - 1 /\ q \in Int /\ a = b * q + r
  OBVIOUS
<1> HIDE DEF q, r
<1>2. q < 1
  <2>1. CASE q >= 1
    BY <1>1, <2>1
  <2> QED
    BY <1>1, <2>1
<1>3. q > -2
  <2>1. CASE q <= -2
    <3>1. b * q <= -2 * b
      BY <1>1, <2>1
    <3> QED
      BY <1>1, <3>1
  <2> QED
    BY <1>1, <2>1
<1>4. q = 0 \/ q = -1
  BY <1>1, <1>2, <1>3
<1>5. r = IF a < 0 THEN a + b ELSE a
  <2>1. CASE q = 0
    BY <1>1, <2>1
  <2>2. CASE q = -1
    <3>1. b * q = -b
      BY <2>2
    <3> QED
      BY <1>1, <3>1
  <2> QED
    BY <1>4, <2>1, <2>2
<1> QED
  BY <1>5 DEF r

Back(idx, n, i) == IF idx - n + i - 1 < 0 THEN idx - n + i - 1 + Depth ELSE idx - n + i - 1

LEMMA BackIs ==
  ASSUME NEW idx \in Index, NEW n \in 0 .. Depth, NEW i \in 1 .. n
  PROVE  (idx - n + i - 1) % Depth = Back(idx, n, i) /\ Back(idx, n, i) \in Index
<1> DEFINE a == idx - n + i - 1
<1>1. Depth \in Nat \ {0} /\ a \in -Depth .. Depth - 1
  BY LogAssumption DEF Index
<1>2. Back(idx, n, i) = IF a < 0 THEN a + Depth ELSE a
  BY LogAssumption DEF Back, Index
<1>3. Back(idx, n, i) \in Index
  BY <1>1, <1>2 DEF Index
<1> HIDE DEF a
<1>4. a % Depth = IF a < 0 THEN a + Depth ELSE a
  BY <1>1, ModBack
<1> QED
  BY <1>2, <1>3, <1>4 DEF a

(* One more sample goes where the oldest was, if the buffer is full.       *)
LEMMA BackAfterSample ==
  ASSUME NEW idx \in Index, NEW n \in 0 .. Depth
  PROVE  /\ Wrapped(idx + 1) \in Index
         /\ n < Depth => /\ Back(Wrapped(idx + 1), n + 1, n + 1) = idx
                         /\ \A i \in 1 .. n : /\ Back(Wrapped(idx + 1), n + 1, i) = Back(idx, n, i)
                                              /\ Back(idx, n, i) # idx
         /\ n = Depth => /\ Back(Wrapped(idx + 1), n, n) = idx
                         /\ \A i \in 1 .. n - 1 : /\ Back(Wrapped(idx + 1), n, i) = Back(idx, n, i + 1)
                                                  /\ Back(idx, n, i + 1) # idx
<1>1. Depth \in Nat \ {0} /\ idx \in 0 .. Depth - 1
  BY LogAssumption DEF Index
<1>2. Wrapped(idx + 1) = IF idx + 1 = Depth THEN 0 ELSE idx + 1
  BY <1>1 DEF Wrapped
<1>3. CASE idx + 1 = Depth
  BY <1>1, <1>2, <1>3 DEF Back, Index
<1>4. CASE idx + 1 # Depth
  BY <1>1, <1>2, <1>4 DEF Back, Index
<1> QED
  BY <1>3, <1>4

-----------------------------------------------------------------------------
(***************************************************************************)
(* The invariant of a slot v that ought to hold k: k is what the buffer    *)
(* holds behind buffer_idx, a slot that is not registered holds nothing,   *)
(* and the samples are of the variable of the slot unless it was           *)
(* registered anew over them (m).                                          *)
(***************************************************************************)
Samples == [at : Nat, name : Name]
SlotType ==
  [is_registered : BOOLEAN, name : Name \cup {NULL}, every : Nat, log_interval : Int, last_logged : Int,
   num_samples : 0 .. Depth, buffer : [Index -> Samples \cup {NULL}], buffer_idx : Index,
   is_streaming : BOOLEAN, socket_id : Socket \cup {NULL}, last_streamed : Int]

SlotInv(v, k, m) ==
  /\ v \in SlotType /\ k \in Seq(Samples) /\ Len(k) = v.num_samples
  /\ \A i \in 1 .. Len(k) : k[i] = v.buffer[Back(v.buffer_idx, v.num_samples, i)]
  /\ v.is_registered => v.name \in Name
  /\ ~v.is_registered => v.num_samples = 0
  /\ m \/ \A i \in 1 .. Len(k) : k[i].name = v.name

LogInv ==
  /\ ticks \in Nat
  /\ vars = [s \in Slot |-> vars[s]] /\ kept = [s \in Slot |-> kept[s]]
  /\ \A s \in Slot : SlotInv(vars[s], kept[s], s \in mixed)

LEMMA NumbersAreInts ==
  ASSUME NEW n \in Nat PROVE Usec(n) \in Int /\ IntervalOf(n) \in Int
BY LogAssumption DEF Usec, Saturated, IntervalOf

(* A change of anything but the samples and the variable.                  *)
LEMMA SlotFrame ==
  ASSUME NEW v, NEW k, NEW m \in BOOLEAN, SlotInv(v, k, m), NEW w \in SlotType,
         w.buffer = v.buffer, w.num_samples = v.num_samples, w.buffer_idx = v.buffer_idx,
         w.name = v.name, w.is_registered = v.is_registered
  PROVE  SlotInv(w, k, m)
BY DEF SlotInv

LEMMA SlotWithNothing ==
  ASSUME NEW w \in SlotType, NEW m \in BOOLEAN, w.num_samples = 0, w.is_registered => w.name \in Name
  PROVE  SlotInv(w, << >>, m)
BY DEF SlotInv

LEMMA EmptySlotType == EmptySlot \in SlotType /\ EmptySlot.num_samples = 0 /\ ~EmptySlot.is_registered
<1>1. [i \in Index |-> NULL] \in [Index -> Samples \cup {NULL}] /\ 0 \in Index
  BY LogAssumption DEF Index
<1> QED
  BY <1>1, LogAssumption DEF EmptySlot, SlotType

LEMMA SlotSampled ==
  ASSUME NEW v, NEW k, NEW m \in BOOLEAN, SlotInv(v, k, m), NEW n \in Nat, SampleDue(v, Usec(n))
  PROVE  SlotInv(Sampled(v, n), Latest(Append(k, [at |-> n, name |-> v.name])), m)
<1> DEFINE x == [at |-> n, name |-> v.name]
           w == Sampled(v, n)
           len == v.num_samples
           idx == v.buffer_idx
           new == Append(k, x)
           q == Latest(new)
<1>1. /\ v \in SlotType /\ k \in Seq(Samples) /\ Len(k) = len /\ v.is_registered /\ v.name \in Name
      /\ len \in 0 .. Depth /\ idx \in Index /\ Depth \in Nat \ {0}
  BY LogAssumption DEF SlotInv, SampleDue, SlotType
<1>2. x \in Samples /\ x.name = v.name
  BY <1>1 DEF Samples
<1>3. w = [v EXCEPT !.last_logged = Usec(n), !.buffer[v.buffer_idx] = x,
                    !.buffer_idx = Wrapped(@ + 1), !.num_samples = IF @ < Depth THEN @ + 1 ELSE @]
  BY DEF Sampled
<1> HIDE DEF x
<1>4. /\ w \in SlotType /\ w.is_registered /\ w.name = v.name
      /\ w.buffer_idx = Wrapped(idx + 1)
      /\ w.num_samples = (IF len < Depth THEN len + 1 ELSE len)
      /\ w.buffer[idx] = x /\ \A j \in Index : j # idx => w.buffer[j] = v.buffer[j]
  <2> DEFINE buf == [v.buffer EXCEPT ![idx] = x]
             num == IF len < Depth THEN len + 1 ELSE len
             nxt == Wrapped(idx + 1)
  <2>1. buf \in [Index -> Samples \cup {NULL}] /\ buf[idx] = x /\ \A j \in Index : j # idx => buf[j] = v.buffer[j]
    BY <1>1, <1>2 DEF SlotType
  <2>2. num \in 0 .. Depth /\ nxt \in Index /\ Usec(n) \in Int
    BY <1>1, BackAfterSample, NumbersAreInts, SMTT(30)
  <2>3. w = [v EXCEPT !.last_logged = Usec(n), !.buffer = buf, !.buffer_idx = nxt, !.num_samples = num]
    BY <1>1, <1>3 DEF SlotType
  <2> HIDE DEF buf, num, nxt, w
  <2>4. w \in SlotType
    BY <1>1, <2>1, <2>2, <2>3 DEF SlotType
  <2>5. /\ w.is_registered /\ w.name = v.name /\ w.buffer_idx = nxt /\ w.num_samples = num /\ w.buffer = buf
    BY <1>1, <2>3 DEF SlotType
  <2> QED
    BY <2>1, <2>4, <2>5 DEF num, nxt
<1>5. new \in Seq(Samples) /\ Len(new) = len + 1 /\ new[len + 1] = x /\ \A i \in 1 .. len : new[i] = k[i]
  BY <1>1, <1>2
<1>6. \A i \in 1 .. len : k[i] = v.buffer[Back(idx, len, i)] /\ Back(idx, len, i) \in Index
  BY <1>1, BackIs DEF SlotInv
<1>7. m \/ \A i \in 1 .. len : k[i].name = v.name
  BY <1>1 DEF SlotInv
<1> HIDE DEF w, new
<1>8. CASE len < Depth
  <2>1. q = new
    BY <1>1, <1>5, <1>8 DEF Latest
  <2>2. ASSUME NEW i \in 1 .. len + 1 PROVE new[i] = w.buffer[Back(w.buffer_idx, len + 1, i)]
    <3>1. CASE i = len + 1
      BY <1>1, <1>4, <1>5, <1>8, <3>1, BackAfterSample
    <3>2. CASE i \in 1 .. len
      <4>1. Back(Wrapped(idx + 1), len + 1, i) = Back(idx, len, i) /\ Back(idx, len, i) # idx
        BY <1>1, <1>8, <3>2, BackAfterSample
      <4>2. new[i] = v.buffer[Back(idx, len, i)] /\ Back(idx, len, i) \in Index
        BY <1>5, <1>6, <3>2
      <4> QED
        BY <1>4, <4>1, <4>2
    <3> QED
      BY <1>1, <3>1, <3>2
  <2>3. m \/ \A i \in 1 .. len + 1 : new[i].name = v.name
    <3>1. ASSUME NEW i \in 1 .. len + 1, \A j \in 1 .. len : k[j].name = v.name PROVE new[i].name = v.name
      <4>1. i \in 1 .. len \/ i = len + 1
        BY <1>1
      <4> QED
        BY <1>2, <1>5, <3>1, <4>1
    <3> QED
      BY <1>7, <3>1
  <2>4. w.num_samples = len + 1
    BY <1>4, <1>8
  <2>5. SlotInv(w, new, m)
    BY <1>1, <1>4, <1>5, <2>2, <2>3, <2>4 DEF SlotInv
  <2> QED
    BY <2>1, <2>5 DEF w, new, x
<1>9. CASE len = Depth
  <2>1. q \in Seq(Samples) /\ Len(q) = len /\ \A i \in 1 .. len : q[i] = new[i + 1]
    BY <1>1, <1>5, <1>9 DEF Latest
  <2> HIDE DEF q
  <2>2. ASSUME NEW i \in 1 .. len PROVE q[i] = w.buffer[Back(w.buffer_idx, len, i)]
    <3>1. CASE i = len
      BY <1>1, <1>4, <1>5, <1>9, <2>1, <3>1, BackAfterSample
    <3>2. CASE i \in 1 .. len - 1
      <4>1. i + 1 \in 1 .. len
        BY <1>1, <3>2
      <4>2. q[i] = v.buffer[Back(idx, len, i + 1)] /\ Back(idx, len, i + 1) \in Index
        BY <1>5, <1>6, <2>1, <4>1
      <4>3. Back(idx, len, i + 1) # idx /\ Back(w.buffer_idx, len, i) = Back(idx, len, i + 1)
        BY <1>1, <1>4, <1>9, <3>2, BackAfterSample
      <4> QED
        BY <1>4, <4>2, <4>3
    <3> QED
      BY <1>1, <3>1, <3>2
  <2>3. m \/ \A i \in 1 .. len : q[i].name = v.name
    <3>1. ASSUME NEW i \in 1 .. len, \A j \in 1 .. len : k[j].name = v.name PROVE q[i].name = v.name
      <4>1. i + 1 \in 1 .. len \/ i + 1 = len + 1
        BY <1>1
      <4> QED
        BY <1>2, <1>5, <2>1, <3>1, <4>1
    <3> QED
      BY <1>7, <3>1
  <2>4. w.num_samples = len
    BY <1>1, <1>4, <1>9
  <2>5. SlotInv(w, q, m)
    BY <1>1, <1>4, <2>1, <2>2, <2>3, <2>4 DEF SlotInv
  <2> QED
    BY <2>5 DEF w, new, x, q
<1> QED
  BY <1>1, <1>8, <1>9
-----------------------------------------------------------------------------
(***************************************************************************)
(* Every step changes slots as the lemmas say, or not at all.              *)
(***************************************************************************)
LEMMA LogInitInv == Init => LogInv
<1> SUFFICES ASSUME Init PROVE LogInv
  OBVIOUS
<1>1. ticks \in Nat /\ vars = [s \in Slot |-> vars[s]] /\ kept = [s \in Slot |-> kept[s]]
  BY DEF Init
<1>2. \A s \in Slot : vars[s] = EmptySlot /\ kept[s] = << >>
  BY DEF Init
<1>3. ASSUME NEW s \in Slot PROVE SlotInv(vars[s], kept[s], s \in mixed)
  <2> DEFINE m == s \in mixed
  <2>1. m \in BOOLEAN
    OBVIOUS
  <2> HIDE DEF m
  <2>2. SlotInv(EmptySlot, << >>, m)
    BY <2>1, EmptySlotType, SlotWithNothing
  <2> QED BY <1>2, <2>2 DEF m
<1> QED
  BY <1>1, <1>3 DEF LogInv

LEMMA CallbackKeeps == LogInv /\ LogCallback => LogInv'
<1> SUFFICES ASSUME LogInv, LogCallback PROVE LogInv'
  OBVIOUS
<1> DEFINE n == ticks'
           v(s) == vars[s]
           after(s) == IF SampleDue(vars[s], Usec(n))
                       THEN Latest(Append(kept[s], [at |-> n, name |-> vars[s].name])) ELSE kept[s]
<1>1. n \in Nat /\ n = ticks + 1
  BY DEF LogInv, LogCallback
<1>2. vars' = [s \in Slot |-> Streamed(Sampled(vars[s], n), n)] /\ mixed' = mixed
  BY DEF LogCallback
<1>3. kept' = [s \in Slot |-> after(s)]
  BY DEF LogCallback
<1>4. ASSUME NEW s \in Slot PROVE SlotInv(vars'[s], kept'[s], s \in mixed)
  <2> DEFINE w == Sampled(vars[s], n)
  <2>1. SlotInv(w, after(s), s \in mixed)
    <3>0. SlotInv(vars[s], kept[s], s \in mixed) /\ (s \in mixed) \in BOOLEAN
      BY DEF LogInv
    <3>1. CASE SampleDue(vars[s], Usec(n))
      <4>1. SlotInv(w, Latest(Append(kept[s], [at |-> n, name |-> vars[s].name])), s \in mixed)
        BY <1>1, <3>0, <3>1, SlotSampled
      <4> QED
        BY <3>1, <4>1
    <3>2. CASE ~SampleDue(vars[s], Usec(n))
      <4>1. w = vars[s] /\ after(s) = kept[s]
        BY <3>2 DEF Sampled
      <4> QED
        BY <4>1 DEF LogInv
    <3> QED
      BY <3>1, <3>2
  <2> HIDE DEF w, after
  <2>2. SlotInv(Streamed(w, n), after(s), s \in mixed)
    <3>1. CASE StreamDue(w, Usec(n))
      <4>1. Streamed(w, n) = [w EXCEPT !.last_streamed = Usec(n)]
        BY <3>1 DEF Streamed
      <4>2. w \in SlotType /\ Usec(n) \in Int
        BY <1>1, <2>1, NumbersAreInts DEF SlotInv
      <4>3. /\ Streamed(w, n) \in SlotType
            /\ Streamed(w, n).buffer = w.buffer /\ Streamed(w, n).num_samples = w.num_samples
            /\ Streamed(w, n).buffer_idx = w.buffer_idx /\ Streamed(w, n).name = w.name
            /\ Streamed(w, n).is_registered = w.is_registered
        BY <4>1, <4>2 DEF SlotType
      <4> HIDE DEF n
      <4> QED
        BY <2>1, <4>3 DEF SlotInv
    <3>2. CASE ~StreamDue(w, Usec(n))
      BY <2>1, <3>2 DEF Streamed
    <3> QED
      BY <3>1, <3>2
  <2> QED
    BY <1>2, <1>3, <2>2 DEF w
<1> QED
  BY <1>1, <1>2, <1>3, <1>4 DEF LogInv

LEMMA RegisterKeeps ==
  ASSUME LogInv, NEW s \in Slot, NEW name \in Name, NEW n \in Every, Register(s, name, n) PROVE LogInv'
<1> DEFINE v == vars[s]
           w == [v EXCEPT !.name = name, !.every = n, !.log_interval = IntervalOf(n), !.last_logged = 0,
                          !.is_registered = TRUE]
<1>1. SlotInv(v, kept[s], s \in mixed) /\ v \in SlotType
  BY DEF LogInv, SlotInv
<1>2. n \in Nat /\ IntervalOf(n) \in Int
  BY LogAssumption, NumbersAreInts
<1>3. /\ w \in SlotType /\ w.is_registered /\ w.name = name /\ w.buffer = v.buffer
      /\ w.num_samples = v.num_samples /\ w.buffer_idx = v.buffer_idx
  <2> DEFINE interval == IntervalOf(n)
  <2>1. interval \in Int /\ name \in Name \cup {NULL} /\ 0 \in Int
    BY <1>2
  <2>2. w = [v EXCEPT !.name = name, !.every = n, !.log_interval = interval, !.last_logged = 0, !.is_registered = TRUE]
    OBVIOUS
  <2> HIDE DEF interval, w, v
  <2>3. w \in SlotType
    BY <1>1, <1>2, <2>1, <2>2 DEF SlotType
  <2> QED
    BY <1>1, <2>2, <2>3 DEF SlotType
<1>4. /\ kept' = kept /\ ticks' = ticks
      /\ vars' = [vars EXCEPT ![s] = w]
      /\ mixed' = IF v.is_registered THEN mixed \cup {s} ELSE mixed
  BY DEF Register, Command
<1> HIDE DEF v, w
<1>5. SlotInv(w, kept[s], s \in mixed')
  <2>1. CASE v.is_registered
    <3>1. s \in mixed'
      BY <1>4, <2>1
    <3> QED
      BY <1>1, <1>3, <3>1 DEF SlotInv
  <2>2. CASE ~v.is_registered
    <3>1. Len(kept[s]) = 0
      BY <1>1, <2>2 DEF SlotInv
    <3> QED
      BY <1>1, <1>3, <3>1 DEF SlotInv
  <2> QED
    BY <2>1, <2>2
<1>6. ASSUME NEW t \in Slot, t # s PROVE vars'[t] = vars[t] /\ (t \in mixed' <=> t \in mixed)
  BY <1>4, <1>6 DEF LogInv
<1>7. ASSUME NEW t \in Slot PROVE SlotInv(vars'[t], kept'[t], t \in mixed')
  <2>1. CASE t = s
    BY <1>4, <1>5, <2>1 DEF LogInv
  <2>2. CASE t # s
    <3>1. SlotInv(vars[t], kept[t], t \in mixed)
      BY DEF LogInv
    <3> QED
      BY <1>4, <1>6, <2>2, <3>1 DEF SlotInv
  <2> QED
    BY <2>1, <2>2
<1> QED
  BY <1>4, <1>7 DEF LogInv

(* What empties slots S, and leaves the others.                            *)
LEMMA EmptyingKeeps ==
  ASSUME LogInv, NEW S \in SUBSET Slot, UNCHANGED ticks, mixed' = mixed \ S,
         vars' = [s \in Slot |-> vars'[s]], kept' = [s \in Slot |-> kept'[s]],
         \A s \in Slot \ S : vars'[s] = vars[s] /\ kept'[s] = kept[s],
         \A s \in S : /\ kept'[s] = << >> /\ vars'[s] \in SlotType /\ vars'[s].num_samples = 0
                      /\ vars'[s].is_registered => vars'[s].name \in Name
  PROVE  LogInv'
<1>1. ASSUME NEW s \in Slot PROVE SlotInv(vars'[s], kept'[s], s \in mixed')
  <2>1. CASE s \in S
    <3>1. /\ kept'[s] = << >> /\ vars'[s] \in SlotType /\ vars'[s].num_samples = 0
          /\ vars'[s].is_registered => vars'[s].name \in Name
      BY <2>1
    <3> QED
      BY <3>1 DEF SlotInv
  <2>2. CASE s \notin S
    <3>1. SlotInv(vars[s], kept[s], s \in mixed)
      BY DEF LogInv
    <3> QED
      BY <2>2, <3>1 DEF SlotInv
  <2> QED
    BY <2>1, <2>2
<1> QED
  BY <1>1 DEF LogInv

LEMMA EmptiedType ==
  ASSUME NEW v \in SlotType
  PROVE  /\ Emptied(v) \in SlotType /\ Emptied(v).num_samples = 0
         /\ Emptied(v).is_registered = v.is_registered /\ Emptied(v).name = v.name
<1>1. 0 \in Index /\ 0 \in 0 .. Depth
  BY LogAssumption DEF Index
<1> QED
  <2> DEFINE w == [v EXCEPT !.buffer_idx = 0, !.last_logged = 0, !.num_samples = 0]
  <2>1. w \in SlotType
    <3> DEFINE w1 == [v EXCEPT !.buffer_idx = 0]
               w2 == [w1 EXCEPT !.last_logged = 0]
    <3>1. w1 \in SlotType
      BY <1>1 DEF SlotType
    <3>2. w = [w2 EXCEPT !.num_samples = 0]
      OBVIOUS
    <3> HIDE DEF w1
    <3>3. w2 \in SlotType
      BY <3>1 DEF SlotType
    <3> HIDE DEF w, w2
    <3> QED
      BY <1>1, <3>2, <3>3 DEF SlotType
  <2>2. w.num_samples = 0 /\ w.is_registered = v.is_registered /\ w.name = v.name
    BY DEF SlotType
  <2>3. Emptied(v) = w
    BY DEF Emptied
  <2> QED
    BY <2>1, <2>2, <2>3

LEMMA UnregisterKeeps == ASSUME LogInv, NEW s \in Slot, Unregister(s) PROVE LogInv'
<1>1. vars[s] \in SlotType
  BY DEF LogInv, SlotInv
<1> DEFINE v == [vars[s] EXCEPT !.is_registered = FALSE]
<1>2. v \in SlotType /\ ~v.is_registered
  BY <1>1 DEF SlotType
<1>3. vars' = [vars EXCEPT ![s] = Emptied(v)] /\ kept' = [kept EXCEPT ![s] = << >>]
  BY DEF Unregister, Unregistered
<1>4. ticks' = ticks /\ mixed' = mixed \ {s}
  BY DEF Unregister, Command
<1> HIDE DEF v
<1>5. vars'[s] = Emptied(v) /\ kept'[s] = << >> /\ \A t \in Slot \ {s} : vars'[t] = vars[t] /\ kept'[t] = kept[t]
  BY <1>3 DEF LogInv
<1>6. vars' = [t \in Slot |-> vars'[t]] /\ kept' = [t \in Slot |-> kept'[t]]
  BY <1>3 DEF LogInv
<1>7. Emptied(v) \in SlotType /\ Emptied(v).num_samples = 0 /\ ~Emptied(v).is_registered
  BY <1>2, EmptiedType
<1>8. \A t \in {s} : /\ kept'[t] = << >> /\ vars'[t] \in SlotType /\ vars'[t].num_samples = 0
                     /\ vars'[t].is_registered => vars'[t].name \in Name
  BY <1>5, <1>7
<1>9. {s} \in SUBSET Slot
  OBVIOUS
<1> QED
  BY <1>4, <1>5, <1>6, <1>8, <1>9, EmptyingKeeps

LEMMA EmptyKeeps == ASSUME LogInv, NEW S \in SUBSET Slot, Empty(S) PROVE LogInv'
<1>1. /\ vars' = [s \in Slot |-> IF s \in S THEN Emptied(vars[s]) ELSE vars[s]]
      /\ kept' = [s \in Slot |-> IF s \in S THEN << >> ELSE kept[s]]
      /\ ticks' = ticks /\ mixed' = mixed \ S
  BY DEF Empty, Command
<1>2. ASSUME NEW s \in S
      PROVE  /\ Emptied(vars[s]) \in SlotType /\ Emptied(vars[s]).num_samples = 0
             /\ Emptied(vars[s]).is_registered => Emptied(vars[s]).name \in Name
  <2>1. vars[s] \in SlotType /\ (vars[s].is_registered => vars[s].name \in Name)
    BY DEF LogInv, SlotInv
  <2> QED
    BY <2>1, EmptiedType
<1> QED
  BY <1>1, <1>2, EmptyingKeeps

(* What changes only how slots stream.                                     *)
StreamSet(v, e, k) == [v EXCEPT !.is_streaming = e, !.last_streamed = 0, !.socket_id = k]

LEMMA StreamSetType ==
  ASSUME NEW v \in SlotType, NEW e \in BOOLEAN, NEW k \in Socket \cup {NULL}
  PROVE  /\ StreamSet(v, e, k) \in SlotType
         /\ StreamSet(v, e, k).buffer = v.buffer /\ StreamSet(v, e, k).num_samples = v.num_samples
         /\ StreamSet(v, e, k).buffer_idx = v.buffer_idx /\ StreamSet(v, e, k).name = v.name
         /\ StreamSet(v, e, k).is_registered = v.is_registered
<1> DEFINE w == [v EXCEPT !.is_streaming = e, !.last_streamed = 0, !.socket_id = k]
           w1 == [v EXCEPT !.is_streaming = e]
           w2 == [w1 EXCEPT !.last_streamed = 0]
<1>1. w \in SlotType
  <2>1. w1 \in SlotType
    BY DEF SlotType
  <2>2. w = [w2 EXCEPT !.socket_id = k]
    OBVIOUS
  <2> HIDE DEF w1
  <2>3. w2 \in SlotType
    BY <2>1 DEF SlotType
  <2> HIDE DEF w, w2
  <2> QED
    BY <2>2, <2>3 DEF SlotType
<1>2. /\ w.buffer = v.buffer /\ w.num_samples = v.num_samples
      /\ w.buffer_idx = v.buffer_idx /\ w.name = v.name /\ w.is_registered = v.is_registered
  BY DEF SlotType
<1> QED
  BY <1>1, <1>2 DEF StreamSet

LEMMA StreamingKeeps ==
  ASSUME LogInv, UNCHANGED <<ticks, kept, mixed>>, vars' = [s \in Slot |-> vars'[s]],
         \A s \in Slot : \/ vars'[s] = vars[s]
                         \/ \E e \in BOOLEAN, k \in Socket \cup {NULL} :
                              vars'[s] = [vars[s] EXCEPT !.is_streaming = e, !.last_streamed = 0, !.socket_id = k]
  PROVE  LogInv'
<1>1. ASSUME NEW s \in Slot PROVE SlotInv(vars'[s], kept'[s], s \in mixed')
  <2>1. SlotInv(vars[s], kept[s], s \in mixed) /\ vars[s] \in SlotType
    BY DEF LogInv, SlotInv
  <2>2. CASE vars'[s] = vars[s]
    BY <2>1, <2>2
  <2>3. ASSUME NEW e \in BOOLEAN, NEW k \in Socket \cup {NULL},
               vars'[s] = [vars[s] EXCEPT !.is_streaming = e, !.last_streamed = 0, !.socket_id = k]
        PROVE  SlotInv(vars'[s], kept'[s], s \in mixed')
    <3> DEFINE w == vars'[s]
    <3>1. w = StreamSet(vars[s], e, k)
      BY <2>3 DEF StreamSet
    <3>2. /\ w \in SlotType /\ w.buffer = vars[s].buffer /\ w.num_samples = vars[s].num_samples
          /\ w.buffer_idx = vars[s].buffer_idx /\ w.name = vars[s].name
          /\ w.is_registered = vars[s].is_registered
      <4>1. vars[s] \in SlotType
        BY <2>1
      <4> HIDE DEF w
      <4> QED
        BY <3>1, <4>1, StreamSetType, ZenonT(40)
    <3> HIDE DEF w
    <3>3. kept'[s] = kept[s] /\ (s \in mixed' <=> s \in mixed)
      OBVIOUS
    <3>4. SlotInv(w, kept'[s], s \in mixed')
      BY <2>1, <3>2, <3>3 DEF SlotInv
    <3> QED
      BY <3>4 DEF w
  <2> QED
    BY <2>2, <2>3
<1> QED
  BY <1>1 DEF LogInv

LEMMA StreamKeeps ==
  ASSUME LogInv, NEW s \in Slot, NEW enable \in BOOLEAN, NEW socket \in Socket, Stream(s, enable, socket)
  PROVE  LogInv'
<1>1. /\ vars' = [vars EXCEPT ![s] = [@ EXCEPT !.is_streaming = enable, !.last_streamed = 0, !.socket_id = socket]]
      /\ UNCHANGED <<ticks, kept, mixed>>
  BY DEF Stream, Command
<1>2. /\ vars'[s] = [vars[s] EXCEPT !.is_streaming = enable, !.last_streamed = 0, !.socket_id = socket]
      /\ \A t \in Slot \ {s} : vars'[t] = vars[t]
  BY <1>1 DEF LogInv
<1>3. vars' = [t \in Slot |-> vars'[t]]
  BY <1>1 DEF LogInv
<1>4. \A t \in Slot : \/ vars'[t] = vars[t]
                      \/ \E e \in BOOLEAN, k \in Socket \cup {NULL} :
                           vars'[t] = [vars[t] EXCEPT !.is_streaming = e, !.last_streamed = 0, !.socket_id = k]
  BY <1>2
<1> QED
  BY <1>1, <1>3, <1>4, StreamingKeeps

LEMMA SyncTimeKeeps == LogInv /\ SyncTime => LogInv'
<1> SUFFICES ASSUME LogInv, SyncTime PROVE LogInv'
  OBVIOUS
<1>1. /\ vars' = [s \in Slot |-> IF s \in Streaming THEN [vars[s] EXCEPT !.last_streamed = 0] ELSE vars[s]]
      /\ UNCHANGED <<ticks, kept, mixed>>
  BY DEF SyncTime, Command
<1>2. ASSUME NEW s \in Slot PROVE SlotInv(vars'[s], kept'[s], s \in mixed')
  <2>1. SlotInv(vars[s], kept[s], s \in mixed) /\ vars[s] \in SlotType
    BY DEF LogInv, SlotInv
  <2> DEFINE w == [vars[s] EXCEPT !.last_streamed = 0]
  <2>2. /\ w \in SlotType /\ w.buffer = vars[s].buffer /\ w.num_samples = vars[s].num_samples
        /\ w.buffer_idx = vars[s].buffer_idx /\ w.name = vars[s].name
        /\ w.is_registered = vars[s].is_registered
    BY <2>1 DEF SlotType
  <2>3. vars'[s] = w \/ vars'[s] = vars[s]
    BY <1>1
  <2> HIDE DEF w
  <2>4. SlotInv(w, kept[s], s \in mixed)
    BY <2>1, <2>2 DEF SlotInv
  <2> QED
    BY <1>1, <2>1, <2>3, <2>4
<1> QED
  BY <1>1, <1>2 DEF LogInv

-----------------------------------------------------------------------------
LEMMA LogInvHolds == LogInv => HoldsItsLatest
<1> SUFFICES ASSUME LogInv, NEW s \in Slot
             PROVE  /\ Stored(vars[s]) = kept[s]
                    /\ s \in mixed \/ \A i \in DOMAIN Stored(vars[s]) : Stored(vars[s])[i].name = vars[s].name
  BY DEF HoldsItsLatest
<1> DEFINE v == vars[s]
           k == kept[s]
<1>1. /\ v \in SlotType /\ k \in Seq(Samples) /\ Len(k) = v.num_samples
      /\ \A i \in 1 .. Len(k) : k[i] = v.buffer[Back(v.buffer_idx, v.num_samples, i)]
      /\ s \in mixed \/ \A i \in 1 .. Len(k) : k[i].name = v.name
  BY DEF LogInv, SlotInv
<1>2. v.buffer_idx \in Index /\ v.num_samples \in 0 .. Depth
  BY <1>1 DEF SlotType
<1> HIDE DEF v, k
<1>3. \A i \in 1 .. v.num_samples : (v.buffer_idx - v.num_samples + i - 1) % Depth = Back(v.buffer_idx, v.num_samples, i)
  BY <1>2, BackIs
<1>4. k = [i \in 1 .. v.num_samples |-> k[i]]
  BY <1>1
<1>5. Stored(v) = k
  BY <1>1, <1>3, <1>4 DEF Stored
<1>6. DOMAIN k = 1 .. Len(k)
  BY <1>1
<1> QED
  BY <1>1, <1>5, <1>6 DEF v, k

LEMMA LogInvAlways == Spec => []LogInv
<1>1. LogInv /\ [Next]_logVars => LogInv'
  <2> SUFFICES ASSUME LogInv, [Next]_logVars PROVE LogInv'
    OBVIOUS
  <2>1. CASE LogCallback
    BY <2>1, CallbackKeeps
  <2>2. CASE UNCHANGED <<vars, ticks, kept, mixed>>
    BY <2>2 DEF LogInv, SlotInv
  <2>3. CASE LogStart \/ LogStop
    BY <2>2, <2>3 DEF LogStart, LogStop, Command
  <2>4. CASE SyncTime
    BY <2>4, SyncTimeKeeps
  <2>5. ASSUME NEW S \in SUBSET Slot, Empty(S) PROVE LogInv'
    BY <2>5, EmptyKeeps
  <2>6. ASSUME NEW s \in Slot, NEW name \in Name, NEW n \in Every, Register(s, name, n) PROVE LogInv'
    BY <2>6, RegisterKeeps
  <2>7. ASSUME NEW s \in Slot, Unregister(s) PROVE LogInv'
    BY <2>7, UnregisterKeeps
  <2>8. ASSUME NEW s \in Slot, NEW enable \in BOOLEAN, NEW socket \in Socket, Stream(s, enable, socket)
        PROVE  LogInv'
    BY <2>8, StreamKeeps
  <2>9. ASSUME NEW s \in Slot, NEW f \in Format, NEW batch \in {1, EthBatch}, DumpVar(s, f, batch) PROVE LogInv'
    BY <2>2, <2>9 DEF DumpVar, Command
  <2>10. CASE DumpCallback
    BY <2>2, <2>10 DEF DumpCallback
  <2>11. CASE UNCHANGED logVars
    BY <2>2, <2>11 DEF logVars, history
  <2>12. CASE LogCommand
    <3>1. \A s \in Slot : Empty({s}) => LogInv'
      BY <2>5
    <3>2. Empty(Slot) => LogInv'
      BY <2>5
    <3> QED
      BY <2>3, <2>4, <2>6, <2>7, <2>8, <2>9, <2>12, <3>1, <3>2 DEF LogCommand
  <2> QED
    BY <2>1, <2>10, <2>11, <2>12 DEF Next
<1> QED
  BY LogInitInv, <1>1, PTL DEF Spec


(***************************************************************************)
(* Through any sequence of starts, stops, registrations, empties, streams  *)
(* and dumps a slot's buffer holds its latest samples, oldest first from   *)
(* buffer_idx on when it has gone round, and of one variable unless that   *)
(* was registered over another.                                            *)
(***************************************************************************)
THEOREM BuffersHoldTheLatest == Spec => []HoldsItsLatest
BY LogInvAlways, LogInvHolds, PTL

-----------------------------------------------------------------------------
(***************************************************************************)
(* Quotients and remainders.                                               *)
(***************************************************************************)
LEMMA FactorOf ==
  ASSUME NEW d \in Nat \ {0}, NEW z \in Int, NEW n \in Int, d * z < d * n
  PROVE  z < n
<1> SUFFICES ASSUME z >= n PROVE FALSE
  OBVIOUS
<1>1. PICK k \in Nat : z = n + k
  <2>1. z - n \in Nat /\ z = n + (z - n)
    OBVIOUS
  <2> QED BY <2>1
<1>2. d * z = d * n + d * k
  BY <1>1
<1>3. d * k >= 0 /\ d * z \in Int /\ d * n \in Int
  OBVIOUS
<1> QED BY <1>2, <1>3

LEMMA DivFacts ==
  ASSUME NEW d \in Nat \ {0}, NEW x \in Nat
  PROVE  /\ x \div d \in Nat /\ x % d \in 0 .. d - 1
         /\ x = d * (x \div d) + (x % d)
<1> DEFINE q == x \div d
           r == x % d
<1>1. q \in Int /\ r \in 0 .. d - 1 /\ x = d * q + r
  OBVIOUS
<1> HIDE DEF q, r
<1>2. d * (q + 1) = d * q + d
  BY <1>1
<1>3. d * 0 < d * (q + 1)
  BY <1>1, <1>2
<1>4. 0 < q + 1
  BY <1>1, <1>3, FactorOf
<1> QED BY <1>1, <1>4 DEF q, r

LEMMA DivSum ==
  ASSUME NEW d \in Nat \ {0}, NEW x \in Nat, NEW y \in Nat
  PROVE  /\ (x + y) \div d >= x \div d + y \div d
         /\ (x + y) \div d <= x \div d + y \div d + 1
<1> DEFINE p == x \div d
           q == y \div d
           r == (x + y) \div d
           e == x % d
           f == y % d
           g == (x + y) % d
<1>1. /\ p \in Nat /\ q \in Nat /\ r \in Nat
      /\ e \in 0 .. d - 1 /\ f \in 0 .. d - 1 /\ g \in 0 .. d - 1
      /\ x = d * p + e /\ y = d * q + f /\ x + y = d * r + g
  <2>1. p \in Nat /\ e \in 0 .. d - 1 /\ x = d * p + e
    BY DivFacts, Zenon
  <2>2. q \in Nat /\ f \in 0 .. d - 1 /\ y = d * q + f
    BY DivFacts, Zenon
  <2>3. x + y \in Nat
    OBVIOUS
  <2>4. r \in Nat /\ g \in 0 .. d - 1 /\ x + y = d * r + g
    BY <2>3, DivFacts, Zenon
  <2> QED BY <2>1, <2>2, <2>4
<1> HIDE DEF p, q, r, e, f, g
<1>2. d * r + g = d * (p + q) + e + f
  BY <1>1
<1>3. d * (p + q) < d * (r + 1)
  <2>1. d * (r + 1) = d * r + d
    BY <1>1
  <2> QED BY <1>1, <1>2, <2>1
<1>4. d * r < d * (p + q + 2)
  <2>1. d * (p + q + 2) = d * (p + q) + d + d
    BY <1>1
  <2> QED BY <1>1, <1>2, <2>1
<1>5. p + q < r + 1
  BY <1>1, <1>3, FactorOf
<1>6. r < p + q + 2
  BY <1>1, <1>4, FactorOf
<1> QED BY <1>1, <1>5, <1>6 DEF p, q, r

LEMMA ModSucc ==
  ASSUME NEW d \in Nat \ {0}, NEW x \in Nat
  PROVE  (x + 1) % d = IF (x % d) + 1 = d THEN 0 ELSE (x % d) + 1
<1> DEFINE p == x \div d
           r == (x + 1) \div d
           e == x % d
           g == (x + 1) % d
<1>1. /\ p \in Nat /\ r \in Nat
      /\ e \in 0 .. d - 1 /\ g \in 0 .. d - 1
      /\ x = d * p + e /\ x + 1 = d * r + g
  <2>1. p \in Nat /\ e \in 0 .. d - 1 /\ x = d * p + e
    BY DivFacts, Zenon
  <2>2. x + 1 \in Nat
    OBVIOUS
  <2>3. r \in Nat /\ g \in 0 .. d - 1 /\ x + 1 = d * r + g
    BY <2>2, DivFacts, Zenon
  <2> QED BY <2>1, <2>3
<1> HIDE DEF p, r, e, g
<1>2. d * r + g = d * p + e + 1
  BY <1>1
<1>3. d * p < d * (r + 1) /\ d * r < d * (p + 2)
  <2>1. d * (r + 1) = d * r + d /\ d * (p + 2) = d * p + d + d
    BY <1>1
  <2> QED BY <1>1, <1>2, <2>1
<1>4. p < r + 1 /\ r < p + 2
  BY <1>1, <1>3, FactorOf
<1>5. r = p \/ r = p + 1
  BY <1>1, <1>4
<1>6. CASE r = p
  <2>1. g = e + 1
    BY <1>1, <1>2, <1>6
  <2> QED BY <1>1, <2>1 DEF e, g
<1>7. CASE r = p + 1
  <2>1. d * (p + 1) = d * p + d
    BY <1>1
  <2>2. g + d = e + 1
    BY <1>1, <1>2, <1>7, <2>1
  <2> QED BY <1>1, <2>2 DEF e, g
<1> QED BY <1>5, <1>6, <1>7

-----------------------------------------------------------------------------
(***************************************************************************)
(* Microseconds.  As long as the 32 bits of the time in microseconds are   *)
(* enough, rounding down loses nothing: an interval of n ticks has passed  *)
(* after n ticks, and not before.                                          *)
(***************************************************************************)
TimeFits == IntervalOf(MaxTicks) <= MaxUsec

LEMMA IntervalFacts ==
  ASSUME NEW a \in Nat, NEW b \in Nat
  PROVE  /\ IntervalOf(a) \in Nat /\ IntervalOf(b) \in Nat /\ IntervalOf(a + b) \in Nat
         /\ IntervalOf(a + b) >= IntervalOf(a) + IntervalOf(b)
         /\ IntervalOf(a + b) <= IntervalOf(a) + IntervalOf(b) + 1
<1>1. a * TickNum \in Nat /\ b * TickNum \in Nat /\ (a + b) * TickNum = a * TickNum + b * TickNum
      /\ TickDen \in Nat \ {0}
  BY LogAssumption
<1> DEFINE x == a * TickNum
           y == b * TickNum
<1>2. x \in Nat /\ y \in Nat /\ x + y \in Nat
  BY <1>1
<1>3. IntervalOf(a) = x \div TickDen /\ IntervalOf(b) = y \div TickDen
      /\ IntervalOf(a + b) = (x + y) \div TickDen
  BY <1>1 DEF IntervalOf
<1> HIDE DEF x, y
<1>4. x \div TickDen \in Nat /\ y \div TickDen \in Nat /\ (x + y) \div TickDen \in Nat
  BY <1>1, <1>2, DivFacts, Zenon
<1>5. /\ (x + y) \div TickDen >= x \div TickDen + y \div TickDen
      /\ (x + y) \div TickDen <= x \div TickDen + y \div TickDen + 1
  BY <1>1, <1>2, DivSum, Zenon
<1> QED BY <1>3, <1>4, <1>5

LEMMA IntervalOfSome ==
  ASSUME NEW b \in Nat \ {0} PROVE IntervalOf(b) >= 2
<1> DEFINE x == b * TickNum
           q == x \div TickDen
           r == x % TickDen
<1>1. TickDen \in Nat \ {0} /\ TickNum \in Nat /\ TickNum >= 2 * TickDen /\ x \in Nat
  BY LogAssumption
<1>2. x >= TickNum
  <2>1. PICK k \in Nat : b = 1 + k
    <3>1. b - 1 \in Nat /\ b = 1 + (b - 1)
      OBVIOUS
    <3> QED BY <3>1
  <2>2. x = TickNum + k * TickNum /\ k * TickNum \in Nat
    BY <1>1, <2>1
  <2> HIDE DEF x
  <2> QED BY <1>1, <2>2
<1> HIDE DEF x
<1>3. q \in Nat /\ r \in 0 .. TickDen - 1 /\ x = TickDen * q + r
  BY <1>1, DivFacts, Zenon
<1> HIDE DEF q, r
<1>4. TickDen * 2 < TickDen * (q + 1)
  <2>1. TickDen * (q + 1) = TickDen * q + TickDen
    BY <1>1, <1>3
  <2> QED BY <1>1, <1>2, <1>3, <2>1
<1>5. 2 < q + 1
  BY <1>1, <1>3, <1>4, FactorOf
<1>6. IntervalOf(b) = q
  BY DEF IntervalOf, q, x
<1> QED BY <1>3, <1>5, <1>6

LEMMA DueAfter ==
  ASSUME NEW m \in Nat, NEW j \in Nat, NEW n \in Nat \ {0}
  PROVE  IntervalOf(m + j) - IntervalOf(m) >= IntervalOf(n) <=> j >= n
<1>1. CASE j >= n
  <2>1. PICK k \in Nat : j = n + k
    <3>1. j - n \in Nat /\ j = n + (j - n)
      BY <1>1
    <3> QED BY <3>1
  <2>2. m + j = m + (n + k) /\ n + k \in Nat
    BY <2>1
  <2>3. IntervalOf(m + (n + k)) >= IntervalOf(m) + IntervalOf(n + k) /\ IntervalOf(m) \in Nat
        /\ IntervalOf(m + (n + k)) \in Nat
    BY <2>2, IntervalFacts, Zenon
  <2>4. IntervalOf(n + k) >= IntervalOf(n) + IntervalOf(k) /\ IntervalOf(k) \in Nat
        /\ IntervalOf(n) \in Nat /\ IntervalOf(n + k) \in Nat
    BY IntervalFacts
  <2>5. IntervalOf(m + j) = IntervalOf(m + (n + k))
    BY <2>2, Zenon
  <2>6. IntervalOf(m + j) - IntervalOf(m) >= IntervalOf(n)
    BY <2>3, <2>4, <2>5
  <2> QED BY <1>1, <2>6
<1>2. CASE j < n
  <2>1. PICK k \in Nat \ {0} : n = j + k
    <3>1. n - j \in Nat \ {0} /\ n = j + (n - j)
      BY <1>2
    <3> QED BY <3>1
  <2>2. IntervalOf(m + j) <= IntervalOf(m) + IntervalOf(j) + 1 /\ IntervalOf(m) \in Nat
        /\ IntervalOf(m + j) \in Nat
    BY IntervalFacts
  <2>3. IntervalOf(j + k) >= IntervalOf(j) + IntervalOf(k) /\ IntervalOf(k) \in Nat
        /\ IntervalOf(j) \in Nat /\ IntervalOf(j + k) \in Nat
    BY IntervalFacts
  <2>4. IntervalOf(k) >= 2
    BY IntervalOfSome
  <2> QED BY <1>2, <2>1, <2>2, <2>3, <2>4
<1> QED BY <1>1, <1>2

LEMMA UsecIs ==
  ASSUME TimeFits, NEW n \in Nat, n <= MaxTicks
  PROVE  Usec(n) = IntervalOf(n)
<1>1. MaxTicks = n + (MaxTicks - n) /\ MaxTicks - n \in Nat /\ MaxUsec \in Nat
  BY LogAssumption
<1>2. IntervalOf(n + (MaxTicks - n)) >= IntervalOf(n) + IntervalOf(MaxTicks - n)
      /\ IntervalOf(MaxTicks - n) \in Nat /\ IntervalOf(n) \in Nat
      /\ IntervalOf(n + (MaxTicks - n)) \in Nat
  BY <1>1, IntervalFacts, Zenon
<1>3. IntervalOf(n) <= MaxUsec
  BY <1>1, <1>2 DEF TimeFits
<1>4. Usec(n) = Saturated(IntervalOf(n))
  BY DEF Usec, IntervalOf
<1> QED BY <1>1, <1>2, <1>3, <1>4 DEF Saturated

-----------------------------------------------------------------------------
(***************************************************************************)
(* The times of a slot v at tick n: it was last sampled no later than it   *)
(* was last active, which was less than its interval ago (run: the log     *)
(* runs).  And when it was synced to tick y: it streamed last when a whole *)
(* number of intervals had passed since then, or will at y for the first   *)
(* time (now: it streamed in the last slice).                              *)
(***************************************************************************)
TimesOf(v, a, run, n) ==
  /\ v.last_logged <= IntervalOf(n)
  /\ v.is_registered => v.every \in Nat \ {0} /\ v.log_interval = IntervalOf(v.every)
  /\ run /\ v.is_registered =>
       a \in 0 .. n /\ v.last_logged <= IntervalOf(a) /\ n - a < v.every

SyncOf(v, y, now, n) ==
  y # NULL /\ v.is_registered /\ v.is_streaming =>
    /\ y \in Nat
    /\ n < y => v.last_streamed = 0 /\ (y = v.every \/ (y = n + 1 /\ y >= v.every))
    /\ n >= y => /\ v.last_streamed = IntervalOf(n - ((n - y) % v.every))
                 /\ now <=> (n - y) % v.every = 0

TimeInv ==
  /\ ticks \in 0 .. MaxTicks
  /\ active = [s \in Slot |-> active[s]] /\ synced = [s \in Slot |-> synced[s]]
  /\ \A s \in Slot : /\ TimesOf(vars[s], active[s], is_log_running, ticks)
                     /\ SyncOf(vars[s], synced[s], s \in streamed, ticks)

(* What the log task changes of a slot, besides the samples.               *)
LEMMA SliceChanges ==
  ASSUME NEW v \in SlotType, NEW n \in Nat
  PROVE  LET w == Streamed(Sampled(v, n), n)
         IN  /\ w.is_registered = v.is_registered /\ w.every = v.every
             /\ w.log_interval = v.log_interval /\ w.is_streaming = v.is_streaming
             /\ w.last_logged = (IF SampleDue(v, Usec(n)) THEN Usec(n) ELSE v.last_logged)
             /\ w.last_streamed = (IF StreamDue(v, Usec(n)) THEN Usec(n) ELSE v.last_streamed)
<1> DEFINE u == Sampled(v, n)
           w == Streamed(u, n)
<1>1. /\ u.is_registered = v.is_registered /\ u.every = v.every /\ DOMAIN u = DOMAIN v
      /\ u.log_interval = v.log_interval /\ u.is_streaming = v.is_streaming
      /\ u.last_logged = (IF SampleDue(v, Usec(n)) THEN Usec(n) ELSE v.last_logged)
      /\ u.last_streamed = v.last_streamed
  BY DEF Sampled, SlotType
<1>2. StreamDue(u, Usec(n)) <=> StreamDue(v, Usec(n))
  BY <1>1 DEF StreamDue
<1>3. "last_streamed" \in DOMAIN u
  BY <1>1 DEF SlotType
<1> HIDE DEF u
<1>4. /\ w.is_registered = u.is_registered /\ w.every = u.every
      /\ w.log_interval = u.log_interval /\ w.is_streaming = u.is_streaming
      /\ w.last_logged = u.last_logged
      /\ w.last_streamed = (IF StreamDue(u, Usec(n)) THEN Usec(n) ELSE u.last_streamed)
  BY <1>3 DEF Streamed
<1> QED BY <1>1, <1>2, <1>4 DEF u

LEMMA SliceKeepsTimes ==
  ASSUME TimeFits, NEW v \in SlotType, NEW a, NEW run, NEW n \in Nat, n + 1 <= MaxTicks,
         TimesOf(v, a, run, n), is_log_running = run
  PROVE  TimesOf(Streamed(Sampled(v, n + 1), n + 1),
                 IF SampleDue(v, Usec(n + 1)) THEN n + 1 ELSE a, run, n + 1)
<1> DEFINE w == Streamed(Sampled(v, n + 1), n + 1)
           due == SampleDue(v, Usec(n + 1))
<1>1. /\ w.is_registered = v.is_registered /\ w.every = v.every
      /\ w.log_interval = v.log_interval
      /\ w.last_logged = (IF due THEN Usec(n + 1) ELSE v.last_logged)
  BY SliceChanges
<1>2. Usec(n + 1) = IntervalOf(n + 1) /\ IntervalOf(n + 1) \in Nat /\ IntervalOf(n) \in Nat
      /\ IntervalOf(n + 1) >= IntervalOf(n) /\ v.last_logged \in Int
  <2>1. /\ IntervalOf(n + 1) >= IntervalOf(n) + IntervalOf(1) /\ IntervalOf(1) \in Nat
        /\ IntervalOf(n + 1) \in Nat /\ IntervalOf(n) \in Nat
    BY IntervalFacts
  <2>2. Usec(n + 1) = IntervalOf(n + 1)
    BY UsecIs
  <2>3. v.last_logged \in Int
    BY DEF SlotType
  <2> QED BY <2>1, <2>2, <2>3
<1> HIDE DEF w
<1>3. w.last_logged <= IntervalOf(n + 1)
  BY <1>1, <1>2 DEF TimesOf
<1>4. w.is_registered => w.every \in Nat \ {0} /\ w.log_interval = IntervalOf(w.every)
  BY <1>1 DEF TimesOf
<1>5. ASSUME run, w.is_registered, ~due
      PROVE  a \in 0 .. n + 1 /\ w.last_logged <= IntervalOf(a) /\ n + 1 - a < w.every
  <2>1. /\ a \in 0 .. n /\ v.last_logged <= IntervalOf(a) /\ n - a < v.every
        /\ v.every \in Nat \ {0} /\ v.log_interval = IntervalOf(v.every) /\ v.is_registered
    BY <1>1, <1>5 DEF TimesOf
  <2>2. ~(IntervalOf(n + 1) - v.last_logged >= IntervalOf(v.every))
    BY <1>2, <1>5, <2>1 DEF SampleDue
  <2>3. a \in Nat /\ n + 1 - a \in Nat /\ a + (n + 1 - a) = n + 1
    BY <2>1
  <2>4. IntervalOf(a + (n + 1 - a)) - IntervalOf(a) >= IntervalOf(v.every) <=> n + 1 - a >= v.every
    BY <2>1, <2>3, DueAfter
  <2>5. IntervalOf(a) \in Nat /\ IntervalOf(v.every) \in Nat
    BY <2>1, <2>3, IntervalFacts
  <2>6. ~(IntervalOf(n + 1) - IntervalOf(a) >= IntervalOf(v.every))
    BY <1>2, <2>1, <2>2, <2>5
  <2>7. ~(n + 1 - a >= v.every)
    BY <2>3, <2>4, <2>6
  <2> QED BY <1>1, <1>5, <2>1, <2>3, <2>7
<1>6. ASSUME run, w.is_registered, due
      PROVE  w.last_logged <= IntervalOf(n + 1) /\ (n + 1) - (n + 1) < w.every
  BY <1>1, <1>3, <1>4, <1>6
<1>7. CASE due
  BY <1>3, <1>4, <1>6, <1>7 DEF TimesOf, w
<1>8. CASE ~due
  BY <1>3, <1>4, <1>5, <1>8 DEF TimesOf, w
<1> QED BY <1>7, <1>8

LEMMA SliceKeepsSync ==
  ASSUME TimeFits, NEW v \in SlotType, NEW y, NEW now \in BOOLEAN, NEW n \in Nat, n + 1 <= MaxTicks,
         SyncOf(v, y, now, n),
         v.is_registered => v.every \in Nat \ {0} /\ v.log_interval = IntervalOf(v.every)
  PROVE  SyncOf(Streamed(Sampled(v, n + 1), n + 1), y, StreamDue(v, Usec(n + 1)), n + 1)
<1> DEFINE w == Streamed(Sampled(v, n + 1), n + 1)
           due == StreamDue(v, Usec(n + 1))
<1>1. /\ w.is_registered = v.is_registered /\ w.every = v.every
      /\ w.is_streaming = v.is_streaming
      /\ w.last_streamed = (IF due THEN Usec(n + 1) ELSE v.last_streamed)
  BY SliceChanges
<1> HIDE DEF w
<1> SUFFICES ASSUME y # NULL, v.is_registered, v.is_streaming
             PROVE  /\ y \in Nat
                    /\ n + 1 < y => w.last_streamed = 0 /\ (w.every = y \/ (y = n + 2 /\ y >= w.every))
                    /\ n + 1 >= y => /\ w.last_streamed = IntervalOf(n + 1 - ((n + 1 - y) % w.every))
                                     /\ due <=> (n + 1 - y) % w.every = 0
  BY <1>1 DEF SyncOf, w
<1> DEFINE e == v.every
<1>2. /\ y \in Nat /\ e \in Nat \ {0} /\ v.log_interval = IntervalOf(e)
      /\ n < y => v.last_streamed = 0 /\ (y = e \/ (y = n + 1 /\ y >= e))
      /\ n >= y => v.last_streamed = IntervalOf(n - ((n - y) % e))
  BY DEF SyncOf
<1>3. Usec(n + 1) = IntervalOf(n + 1) /\ (due <=> IntervalOf(n + 1) - v.last_streamed >= IntervalOf(e))
  BY <1>2, UsecIs DEF StreamDue
<1>4. w.every = e
  BY <1>1
<1> HIDE DEF e, due
<1>5. CASE n < y
  <2>1. IntervalOf(0) = 0
    <3>1. IntervalOf(0 + 0) >= IntervalOf(0) + IntervalOf(0) /\ IntervalOf(0) \in Nat
      BY IntervalFacts
    <3> QED BY <3>1
  <2>2. IntervalOf(0 + (n + 1)) - IntervalOf(0) >= IntervalOf(e) <=> n + 1 >= e
    <3>1. 0 \in Nat /\ n + 1 \in Nat /\ e \in Nat \ {0}
      BY <1>2
    <3> QED BY <3>1, DueAfter, Zenon
  <2>3. IntervalOf(n + 1) \in Nat /\ 0 + (n + 1) = n + 1
    BY IntervalFacts
  <2>4. due <=> n + 1 >= e
    BY <1>2, <1>3, <1>5, <2>1, <2>2, <2>3
  <2>5. CASE n + 1 < y
    BY <1>1, <1>2, <1>4, <1>5, <2>4, <2>5
  <2>6. CASE n + 1 = y
    <3>1. due /\ w.last_streamed = IntervalOf(n + 1)
      BY <1>1, <1>2, <1>3, <1>5, <2>4, <2>6
    <3>2. (n + 1 - y) % e = 0 /\ n + 1 - ((n + 1 - y) % e) = n + 1
      <4>1. n + 1 - y = 0 /\ 0 % e = 0
        BY <1>2, <2>6
      <4> QED BY <4>1
    <3> QED BY <1>2, <1>4, <2>6, <3>1, <3>2
  <2> QED BY <1>2, <1>5, <2>5, <2>6
<1>6. CASE n >= y
  <2> DEFINE r == (n - y) % e
             q == (n + 1 - y) % e
  <2>1. n - y \in Nat /\ n + 1 - y = (n - y) + 1
    BY <1>2, <1>6
  <2>2. r \in 0 .. e - 1 /\ q = (IF r + 1 = e THEN 0 ELSE r + 1) /\ r <= n - y
    <3>1. r \in 0 .. e - 1 /\ (n - y) \div e \in Nat /\ n - y = e * ((n - y) \div e) + r
      BY <1>2, <2>1, DivFacts, Zenon
    <3>2. ((n - y) + 1) % e = IF r + 1 = e THEN 0 ELSE r + 1
      BY <1>2, <2>1, ModSucc, Zenon
    <3> DEFINE k == (n - y) \div e
    <3>3. e * k \in Nat
      BY <1>2, <3>1
    <3> HIDE DEF k
    <3>4. r <= n - y
      BY <1>2, <2>1, <3>1, <3>3 DEF k
    <3> QED BY <2>1, <3>1, <3>2, <3>4
  <2>3. v.last_streamed = IntervalOf(n - r)
    BY <1>2, <1>6
  <2> HIDE DEF r, q
  <2>4. n - r \in Nat /\ r + 1 \in Nat /\ (n - r) + (r + 1) = n + 1
    BY <1>2, <1>6, <2>2
  <2>5. IntervalOf((n - r) + (r + 1)) - IntervalOf(n - r) >= IntervalOf(e) <=> r + 1 >= e
    BY <1>2, <2>4, DueAfter
  <2>6. due <=> r + 1 = e
    BY <1>2, <1>3, <2>2, <2>3, <2>4, <2>5
  <2>7. CASE r + 1 = e
    <3>1. w.last_streamed = IntervalOf(n + 1) /\ q = 0 /\ n + 1 - q = n + 1
      BY <1>1, <1>3, <2>2, <2>6, <2>7
    <3> QED BY <1>2, <1>4, <1>6, <2>6, <2>7, <3>1 DEF q
  <2>8. CASE r + 1 # e
    <3>1. w.last_streamed = IntervalOf(n - r) /\ q = r + 1 /\ n + 1 - q = n - r /\ q # 0
      BY <1>1, <1>2, <2>2, <2>3, <2>6, <2>8
    <3> QED BY <1>2, <1>4, <1>6, <2>6, <2>8, <3>1 DEF q
  <2> QED BY <2>7, <2>8
<1> QED BY <1>2, <1>5, <1>6

(* A command that leaves a slot's times, or takes them back to 0.          *)
LEMMA CommandKeepsTimes ==
  ASSUME NEW v, NEW w, NEW a, NEW run, NEW n \in Nat, TimesOf(v, a, run, n),
         w.is_registered => v.is_registered,
         w.every = v.every, w.log_interval = v.log_interval,
         w.last_logged = v.last_logged \/ w.last_logged = 0
  PROVE  TimesOf(w, a, run, n)
<1>1. \A m \in Nat : 0 <= IntervalOf(m)
  BY IntervalFacts
<1>2. run /\ w.is_registered => a \in Nat
  BY DEF TimesOf
<1> QED BY <1>1, <1>2 DEF TimesOf

LEMMA CommandKeepsSync ==
  ASSUME NEW v, NEW w, NEW y, NEW now, NEW n, SyncOf(v, y, now, n),
         w.is_registered => v.is_registered, w.is_streaming = v.is_streaming,
         w.every = v.every, w.last_streamed = v.last_streamed
  PROVE  SyncOf(w, y, now, n)
BY DEF SyncOf

LEMMA TimeInitInv == Init => TimeInv
<1> SUFFICES ASSUME Init PROVE TimeInv
  OBVIOUS
<1>1. /\ ticks = 0 /\ MaxTicks \in Nat /\ ~is_log_running
      /\ active = [s \in Slot |-> NULL] /\ synced = [s \in Slot |-> NULL]
      /\ \A s \in Slot : vars[s] = EmptySlot
  BY LogAssumption DEF Init
<1>2. EmptySlot.last_logged = 0 /\ ~EmptySlot.is_registered /\ 0 <= IntervalOf(0)
  BY IntervalFacts DEF EmptySlot
<1> QED BY <1>1, <1>2 DEF TimeInv, TimesOf, SyncOf

LEMMA CallbackKeepsTimes ==
  ASSUME TimeFits, LogInv, TimeInv, LogCallback PROVE TimeInv'
<1>1. /\ ticks \in Nat /\ ticks' = ticks + 1 /\ ticks + 1 <= MaxTicks /\ ticks' \in 0 .. MaxTicks
      /\ UNCHANGED <<is_log_running, synced>>
  BY LogAssumption DEF LogInv, TimeInv, LogCallback
<1>2. active' = [s \in Slot |-> active'[s]] /\ synced' = [s \in Slot |-> synced'[s]]
  BY DEF LogCallback, TimeInv
<1>3. ASSUME NEW s \in Slot
      PROVE  /\ TimesOf(vars'[s], active'[s], is_log_running, ticks + 1)
             /\ SyncOf(vars'[s], synced[s], s \in streamed', ticks + 1)
  <2> DEFINE v == vars[s]
             n == ticks
  <2>1. /\ v \in SlotType /\ TimesOf(v, active[s], is_log_running, n)
        /\ SyncOf(v, synced[s], s \in streamed, n)
    BY DEF LogInv, SlotInv, TimeInv
  <2>2. /\ vars'[s] = Streamed(Sampled(v, n + 1), n + 1)
        /\ active'[s] = (IF SampleDue(v, Usec(n + 1)) THEN n + 1 ELSE active[s])
        /\ (s \in streamed') = StreamDue(v, Usec(n + 1))
    <3>1. ticks' = n + 1
      BY <1>1
    <3>2. vars'[s] = Streamed(Sampled(v, ticks'), ticks')
      BY DEF LogCallback
    <3>3. active'[s] = IF SampleDue(v, Usec(ticks')) THEN ticks' ELSE active[s]
      BY DEF LogCallback
    <3>4. (s \in streamed') <=> StreamDue(v, Usec(ticks'))
      BY DEF LogCallback
    <3>5. StreamDue(v, Usec(ticks')) \in BOOLEAN
      BY DEF StreamDue
    <3> HIDE DEF v
    <3> QED BY <3>1, <3>2, <3>3, <3>4, <3>5
  <2>3. v.is_registered => v.every \in Nat \ {0} /\ v.log_interval = IntervalOf(v.every)
    BY <2>1 DEF TimesOf
  <2>5. (s \in streamed) \in BOOLEAN
    OBVIOUS
  <2> HIDE DEF v
  <2>4. TimesOf(Streamed(Sampled(v, n + 1), n + 1),
                IF SampleDue(v, Usec(n + 1)) THEN n + 1 ELSE active[s], is_log_running, n + 1)
    BY <1>1, <2>1, SliceKeepsTimes
  <2>6. SyncOf(Streamed(Sampled(v, n + 1), n + 1), synced[s], StreamDue(v, Usec(n + 1)), n + 1)
    BY <1>1, <2>1, <2>3, <2>5, SliceKeepsSync
  <2> QED BY <2>2, <2>4, <2>6
<1> QED BY <1>1, <1>2, <1>3 DEF TimeInv

(* A step between two slices, slot by slot.                                *)
LEMMA StepKeepsTimes ==
  ASSUME TimeInv, UNCHANGED <<ticks, streamed>>,
         active' = [s \in Slot |-> active'[s]], synced' = [s \in Slot |-> synced'[s]],
         \A s \in Slot : /\ TimesOf(vars'[s], active'[s], is_log_running', ticks)
                        /\ SyncOf(vars'[s], synced'[s], s \in streamed, ticks)
  PROVE  TimeInv'
BY DEF TimeInv

LEMMA StartStopKeepTimes == ASSUME TimeInv, LogStart \/ LogStop PROVE TimeInv'
<1>1. /\ UNCHANGED <<ticks, streamed, vars, synced>> /\ active' = [s \in Slot |-> active'[s]]
      /\ synced' = [s \in Slot |-> synced'[s]]
  BY DEF LogStart, LogStop, Command, TimeInv, Activate
<1>2. ASSUME NEW s \in Slot PROVE TimesOf(vars[s], active'[s], is_log_running', ticks)
  <2>1. TimesOf(vars[s], active[s], is_log_running, ticks) /\ ticks \in Nat
    BY DEF TimeInv
  <2>2. CASE LogStop
    BY <2>1, <2>2 DEF LogStop, TimesOf
  <2>3. CASE LogStart
    <3>1. vars[s].is_registered => active'[s] = ticks
      BY <2>3 DEF LogStart, Activate
    <3> QED BY <2>1, <3>1 DEF TimesOf
  <2> QED BY <2>2, <2>3
<1>3. \A s \in Slot : SyncOf(vars[s], synced[s], s \in streamed, ticks)
  BY DEF TimeInv
<1> QED BY <1>1, <1>2, <1>3, StepKeepsTimes

LEMMA RegisterKeepsTimes ==
  ASSUME LogInv, TimeInv, NEW s \in Slot, NEW name \in Name, NEW n \in Every, Register(s, name, n)
  PROVE  TimeInv'
<1>1. /\ UNCHANGED <<ticks, streamed, is_log_running>>
      /\ active' = [t \in Slot |-> IF t \in {s} THEN ticks ELSE active[t]]
      /\ synced' = [synced EXCEPT ![s] = NULL]
  BY DEF Register, Command, Activate
<1>2. active' = [t \in Slot |-> active'[t]] /\ synced' = [t \in Slot |-> synced'[t]]
      /\ active'[s] = ticks /\ synced'[s] = NULL
      /\ \A t \in Slot \ {s} : active'[t] = active[t] /\ synced'[t] = synced[t]
  BY <1>1 DEF TimeInv
<1>3. \A t \in Slot \ {s} : vars'[t] = vars[t]
  BY DEF Register, LogInv
<1>4. /\ vars'[s].last_logged = 0 /\ vars'[s].every = n /\ vars'[s].log_interval = IntervalOf(n)
      /\ n \in Nat \ {0}
  <2>1. vars[s] \in SlotType
    BY DEF LogInv, SlotInv
  <2>2. vars'[s] = [vars[s] EXCEPT !.name = name, !.every = n, !.log_interval = IntervalOf(n),
                                   !.last_logged = 0, !.is_registered = TRUE]
    BY DEF Register, LogInv
  <2> QED BY <2>1, <2>2, LogAssumption DEF SlotType
<1>5. ASSUME NEW t \in Slot
      PROVE  /\ TimesOf(vars'[t], active'[t], is_log_running', ticks)
             /\ SyncOf(vars'[t], synced'[t], t \in streamed, ticks)
  <2>1. CASE t = s
    <3>1. ticks \in Nat /\ IntervalOf(ticks) \in Nat
      BY IntervalFacts DEF TimeInv
    <3> QED BY <1>2, <1>4, <2>1, <3>1 DEF TimesOf, SyncOf
  <2>2. CASE t # s
    BY <1>1, <1>2, <1>3, <2>2 DEF TimeInv
  <2> QED BY <2>1, <2>2
<1> QED BY <1>1, <1>2, <1>5, StepKeepsTimes

LEMMA EmptyingKeepsTimes ==
  ASSUME LogInv, TimeInv, NEW s \in Slot, Unregister(s) \/ Empty({s}) \/ Empty(Slot)
  PROVE  TimeInv'
<1>1. UNCHANGED <<ticks, streamed, is_log_running, active, synced>>
  BY DEF Unregister, Empty, Command
<1>2. active' = [t \in Slot |-> active'[t]] /\ synced' = [t \in Slot |-> synced'[t]]
  BY <1>1 DEF TimeInv
<1>3. ASSUME NEW t \in Slot
      PROVE  /\ vars'[t].is_registered => vars[t].is_registered
             /\ vars'[t].every = vars[t].every /\ vars'[t].log_interval = vars[t].log_interval
             /\ vars'[t].last_logged = vars[t].last_logged \/ vars'[t].last_logged = 0
             /\ vars'[t].is_streaming = vars[t].is_streaming
             /\ vars'[t].last_streamed = vars[t].last_streamed
  <2>1. vars[t] \in SlotType
    BY DEF LogInv, SlotInv
  <2>2. CASE Empty({s}) \/ Empty(Slot)
    <3>1. vars'[t] = Emptied(vars[t]) \/ vars'[t] = vars[t]
      BY <2>2 DEF Empty
    <3> QED BY <2>1, <3>1 DEF Emptied, SlotType
  <2>3. CASE Unregister(s)
    <3>1. vars'[t] = Unregistered(vars[t]) \/ vars'[t] = vars[t]
      BY <2>3 DEF Unregister, LogInv
    <3> QED BY <2>1, <3>1 DEF Unregistered, Emptied, SlotType
  <2> QED BY <2>2, <2>3
<1>4. ASSUME NEW t \in Slot
      PROVE  /\ TimesOf(vars'[t], active'[t], is_log_running', ticks)
             /\ SyncOf(vars'[t], synced'[t], t \in streamed, ticks)
  <2>1. /\ TimesOf(vars[t], active[t], is_log_running, ticks)
        /\ SyncOf(vars[t], synced[t], t \in streamed, ticks) /\ ticks \in Nat
    BY DEF TimeInv
  <2>2. TimesOf(vars'[t], active[t], is_log_running, ticks)
    BY <1>3, <2>1, CommandKeepsTimes
  <2>3. SyncOf(vars'[t], synced[t], t \in streamed, ticks)
    BY <1>3, <2>1, CommandKeepsSync
  <2> QED BY <1>1, <2>2, <2>3
<1> QED BY <1>1, <1>2, <1>4, StepKeepsTimes

LEMMA StreamKeepsTimes ==
  ASSUME LogInv, TimeInv, NEW s \in Slot, NEW enable \in BOOLEAN, NEW socket \in Socket,
         Stream(s, enable, socket)
  PROVE  TimeInv'
<1>1. /\ UNCHANGED <<ticks, streamed, is_log_running, active>>
      /\ synced' = [synced EXCEPT ![s] = NULL]
  BY DEF Stream, Command
<1>2. active' = [t \in Slot |-> active'[t]] /\ synced' = [t \in Slot |-> synced'[t]]
      /\ synced'[s] = NULL /\ \A t \in Slot \ {s} : synced'[t] = synced[t] /\ vars'[t] = vars[t]
  BY <1>1 DEF TimeInv, Stream, LogInv
<1>3. /\ vars'[s].is_registered = vars[s].is_registered /\ vars'[s].every = vars[s].every
      /\ vars'[s].log_interval = vars[s].log_interval /\ vars'[s].last_logged = vars[s].last_logged
  <2>1. vars[s] \in SlotType
    BY DEF LogInv, SlotInv
  <2>2. vars'[s] = StreamSet(vars[s], enable, socket)
    BY DEF Stream, LogInv, StreamSet
  <2> QED BY <2>1, <2>2 DEF StreamSet, SlotType
<1>4. ASSUME NEW t \in Slot
      PROVE  /\ TimesOf(vars'[t], active'[t], is_log_running', ticks)
             /\ SyncOf(vars'[t], synced'[t], t \in streamed, ticks)
  <2>1. /\ TimesOf(vars[t], active[t], is_log_running, ticks)
        /\ SyncOf(vars[t], synced[t], t \in streamed, ticks) /\ ticks \in Nat
    BY DEF TimeInv
  <2>2. CASE t = s
    <3>1. TimesOf(vars'[s], active[s], is_log_running, ticks)
      BY <1>3, <2>1, <2>2, CommandKeepsTimes
    <3> QED BY <1>1, <1>2, <2>2, <3>1 DEF SyncOf
  <2>3. CASE t # s
    BY <1>1, <1>2, <2>1, <2>3
  <2> QED BY <2>2, <2>3
<1> QED BY <1>1, <1>2, <1>4, StepKeepsTimes

LEMMA SyncTimeKeepsTimes == ASSUME LogInv, TimeInv, SyncTime PROVE TimeInv'
<1>1. /\ UNCHANGED <<ticks, streamed, is_log_running, active>>
      /\ synced' = [t \in Slot |-> IF t \in Streaming THEN FirstAfterSync(t) ELSE synced[t]]
      /\ \A t \in Slot : vars'[t] = IF t \in Streaming THEN [vars[t] EXCEPT !.last_streamed = 0]
                                                       ELSE vars[t]
  BY DEF SyncTime, Command
<1>2. active' = [t \in Slot |-> active'[t]] /\ synced' = [t \in Slot |-> synced'[t]]
  BY <1>1 DEF TimeInv
<1>3. ASSUME NEW t \in Slot
      PROVE  /\ TimesOf(vars'[t], active'[t], is_log_running', ticks)
             /\ SyncOf(vars'[t], synced'[t], t \in streamed, ticks)
  <2>1. /\ TimesOf(vars[t], active[t], is_log_running, ticks)
        /\ SyncOf(vars[t], synced[t], t \in streamed, ticks) /\ ticks \in Nat
        /\ vars[t] \in SlotType
    BY DEF TimeInv, LogInv, SlotInv
  <2>2. CASE t \in Streaming
    <3>1. vars'[t] = [vars[t] EXCEPT !.last_streamed = 0] /\ synced'[t] = FirstAfterSync(t)
      BY <1>1, <2>2
    <3>2. /\ vars'[t].is_registered = vars[t].is_registered /\ vars'[t].every = vars[t].every
          /\ vars'[t].log_interval = vars[t].log_interval /\ vars'[t].last_logged = vars[t].last_logged
          /\ vars'[t].last_streamed = 0
      BY <2>1, <3>1 DEF SlotType
    <3>3. TimesOf(vars'[t], active[t], is_log_running, ticks)
      BY <2>1, <3>2, CommandKeepsTimes
    <3>4. vars[t].every \in Nat \ {0}
      BY <2>1, <2>2 DEF Streaming, TimesOf
    <3>5. ticks < synced'[t] /\ synced'[t] \in Nat
          /\ (synced'[t] = vars[t].every \/ (synced'[t] = ticks + 1 /\ synced'[t] >= vars[t].every))
      BY <2>1, <3>1, <3>4 DEF FirstAfterSync
    <3>6. SyncOf(vars'[t], synced'[t], t \in streamed, ticks)
      BY <2>1, <3>2, <3>5 DEF SyncOf
    <3> QED BY <1>1, <3>3, <3>6
  <2>3. CASE t \notin Streaming
    BY <1>1, <2>1, <2>3
  <2> QED BY <2>2, <2>3
<1> QED BY <1>1, <1>2, <1>3, StepKeepsTimes

LEMMA TimeInvAlways == ASSUME TimeFits PROVE Spec => []TimeInv
<1>1. LogInv /\ TimeInv /\ [Next]_logVars => TimeInv'
  <2> SUFFICES ASSUME LogInv, TimeInv, [Next]_logVars PROVE TimeInv'
    OBVIOUS
  <2>1. CASE LogCallback
    BY <2>1, CallbackKeepsTimes
  <2>2. CASE UNCHANGED <<vars, ticks, is_log_running, active, synced, streamed>>
    BY <2>2 DEF TimeInv
  <2>3. CASE LogStart \/ LogStop
    BY <2>3, StartStopKeepTimes
  <2>4. CASE SyncTime
    BY <2>4, SyncTimeKeepsTimes
  <2>5. ASSUME NEW s \in Slot, NEW name \in Name, NEW n \in Every, Register(s, name, n) PROVE TimeInv'
    BY <2>5, RegisterKeepsTimes
  <2>6. ASSUME NEW s \in Slot, Unregister(s) \/ Empty({s}) \/ Empty(Slot) PROVE TimeInv'
    BY <2>6, EmptyingKeepsTimes
  <2>7. ASSUME NEW s \in Slot, NEW enable \in BOOLEAN, NEW socket \in Socket, Stream(s, enable, socket)
        PROVE  TimeInv'
    BY <2>7, StreamKeepsTimes
  <2>8. ASSUME NEW s \in Slot, NEW f \in Format, NEW batch \in {1, EthBatch}, DumpVar(s, f, batch) PROVE TimeInv'
    BY <2>2, <2>8 DEF DumpVar, Command
  <2>9. CASE DumpCallback
    BY <2>2, <2>9 DEF DumpCallback
  <2>10. CASE UNCHANGED logVars
    BY <2>2, <2>10 DEF logVars, history
  <2>11. CASE Empty(Slot) /\ Slot = {}
    BY <2>11 DEF TimeInv, Empty, Command
  <2>12. CASE LogCommand
    <3>1. Empty(Slot) => TimeInv'
      BY <2>6, <2>11
    <3> QED BY <2>3, <2>4, <2>5, <2>6, <2>7, <2>8, <2>12, <3>1 DEF LogCommand
  <2> QED BY <2>1, <2>9, <2>10, <2>12 DEF Next
<1> QED BY TimeInitInv, LogInvAlways, <1>1, PTL DEF Spec

(***************************************************************************)
(* No slot goes its n ticks without a sample, although intervals are       *)
(* rounded down to microseconds, as long as the 32 bits of the time are    *)
(* enough: MCLogSaturated shows what happens afterwards.                   *)
(***************************************************************************)
THEOREM NoSampleIsMissed == ASSUME TimeFits PROVE Spec => []NoSampleMissed
<1>1. TimeInv => NoSampleMissed
  BY DEF TimeInv, TimesOf, NoSampleMissed
<1> QED BY TimeInvAlways, <1>1, PTL

(***************************************************************************)
(* After synctime a slot streams in the next slice and in every n-th one   *)
(* from then on: slots of the same rate never drift apart.                 *)
(***************************************************************************)
THEOREM StreamsStayAligned == ASSUME TimeFits PROVE Spec => []StreamsAligned
<1>1. TimeInv => StreamsAligned
  <2> SUFFICES ASSUME TimeInv, NEW s \in Slot, synced[s] # NULL, ticks >= synced[s], s \in Streaming
               PROVE  s \in streamed <=> (ticks - synced[s]) % vars[s].every = 0
    BY DEF StreamsAligned
  <2>1. SyncOf(vars[s], synced[s], s \in streamed, ticks) /\ vars[s].is_registered /\ vars[s].is_streaming
    BY DEF TimeInv, Streaming
  <2> QED BY <2>1 DEF SyncOf
<1> QED BY TimeInvAlways, <1>1, PTL

-----------------------------------------------------------------------------
(***************************************************************************)
(* A dump d of slot v, once it has announced the samples a, as long as the *)
(* slot does not change: what it has sent are the first of them.           *)
(***************************************************************************)
Entries(v, n) == [i \in 1 .. n |-> v.buffer[i - 1]]

DumpOf(d, a, v) ==
  /\ d.state \in {"title", "num_samples", "header"} => d.sample_idx = 0 /\ d.sent = << >>
  /\ d.state \in {"header", "timestamp", "sample", "footer", "remove"} => a = Entries(v, v.num_samples)
  /\ d.state \in {"timestamp", "sample"} =>
       d.sample_idx \in 0 .. v.num_samples - 1 /\ d.sent = Entries(v, d.sample_idx)
  /\ d.state \in {"footer", "remove"} => d.sent = a

DumpFields == {"state", "var_idx", "sample_idx", "batch", "sent"}

DumpInv ==
  /\ dump = [f \in Format |-> dump[f]] /\ announced = [f \in Format |-> announced[f]]
  /\ \A f \in Format :
       /\ DOMAIN dump[f] = DumpFields
       /\ dump[f].state # "off" => dump[f].var_idx \in Slot
       /\ f \notin disturbed => DumpOf(dump[f], announced[f], vars[dump[f].var_idx])

LEMMA Concatenation ==
  ASSUME NEW V, NEW p \in Seq(V), NEW q \in Seq(V)
  PROVE  /\ p \o q \in Seq(V) /\ Len(p \o q) = Len(p) + Len(q)
         /\ \A i \in 1 .. Len(p) : (p \o q)[i] = p[i]
         /\ \A i \in 1 .. Len(q) : (p \o q)[Len(p) + i] = q[i]
  OBVIOUS

LEMMA EntriesFacts ==
  ASSUME NEW v \in SlotType, NEW j \in Nat, NEW k \in Nat, j + k <= Depth
  PROVE  /\ Entries(v, 0) = << >>
         /\ Entries(v, j) \o [i \in 1 .. k |-> v.buffer[j + i - 1]] = Entries(v, j + k)
<1> DEFINE V == Samples \cup {NULL}
           p == Entries(v, j)
           q == [i \in 1 .. k |-> v.buffer[j + i - 1]]
           r == Entries(v, j + k)
<1>0. Depth \in Nat /\ \A i \in 0 .. Depth - 1 : v.buffer[i] \in V
  BY LogAssumption DEF SlotType, Index
<1>1. p \in Seq(V) /\ Len(p) = j /\ \A i \in 1 .. j : p[i] = v.buffer[i - 1]
  BY <1>0 DEF Entries
<1>2. q \in Seq(V) /\ Len(q) = k /\ \A i \in 1 .. k : q[i] = v.buffer[j + i - 1]
  BY <1>0
<1>3. r \in Seq(V) /\ Len(r) = j + k /\ \A i \in 1 .. j + k : r[i] = v.buffer[i - 1]
  BY <1>0 DEF Entries
<1>4. Entries(v, 0) \in Seq(V) /\ Len(Entries(v, 0)) = 0
  BY <1>0 DEF Entries
<1>5. Entries(v, 0) = << >>
  BY <1>4
<1> HIDE DEF p, q, r, V
<1>6. /\ p \o q \in Seq(V) /\ Len(p \o q) = j + k
      /\ \A i \in 1 .. j : (p \o q)[i] = p[i]
      /\ \A i \in 1 .. k : (p \o q)[j + i] = q[i]
  <2>1. /\ p \o q \in Seq(V) /\ Len(p \o q) = Len(p) + Len(q)
        /\ \A i \in 1 .. Len(p) : (p \o q)[i] = p[i]
        /\ \A i \in 1 .. Len(q) : (p \o q)[Len(p) + i] = q[i]
    <3>1. p \in Seq(V) /\ q \in Seq(V)
      BY <1>1, <1>2, Zenon
    <3> QED BY ONLY <3>1, Concatenation
  <2> QED BY <1>1, <1>2, <2>1
<1>7. ASSUME NEW i \in 1 .. j + k PROVE (p \o q)[i] = r[i]
  <2>0. i \in Int /\ 1 <= i /\ i <= j + k
    OBVIOUS
  <2>1. CASE i <= j
    <3>1. i \in 1 .. j
      BY <2>0, <2>1
    <3>2. p[i] = v.buffer[i - 1] /\ r[i] = v.buffer[i - 1] /\ (p \o q)[i] = p[i]
      BY <1>1, <1>3, <1>6, <3>1, Zenon
    <3> QED BY <3>2, Zenon
  <2>2. CASE i > j
    <3>1. PICK m \in 1 .. k : i = j + m
      <4>1. i - j \in 1 .. k /\ i = j + (i - j)
        BY <2>0, <2>2
      <4> QED BY <4>1, Zenon
    <3>2. (p \o q)[i] = q[m] /\ q[m] = v.buffer[j + m - 1] /\ r[i] = v.buffer[i - 1]
      BY <1>2, <1>3, <1>6, <3>1, Zenon
    <3>3. j + m - 1 = i - 1
      BY <3>1
    <3> QED BY <3>2, <3>3, Zenon
  <2>3. i <= j \/ i > j
    BY <2>0
  <2> QED BY <2>1, <2>2, <2>3, Zenon
<1>8. p \o q = r
  BY <1>3, <1>6, <1>7
<1> QED BY <1>5, <1>8 DEF p, q, r

(* A step that leaves the dumps, and the samples of those not disturbed.   *)
LEMMA SlotsKeepDumps ==
  ASSUME LogInv, DumpInv, UNCHANGED <<dump, announced>>, disturbed \subseteq disturbed',
         \A f \in Format \ disturbed' : dump[f].state # "off" =>
           LET i == dump[f].var_idx
           IN  vars'[i].buffer = vars[i].buffer /\ vars'[i].num_samples = vars[i].num_samples
  PROVE  DumpInv'
<1>1. ASSUME NEW f \in Format, f \notin disturbed'
      PROVE  DumpOf(dump'[f], announced'[f], vars'[dump'[f].var_idx])
  <2>1. DumpOf(dump[f], announced[f], vars[dump[f].var_idx])
    BY <1>1 DEF DumpInv
  <2>2. CASE dump[f].state = "off"
    BY <2>2 DEF DumpOf
  <2>3. CASE dump[f].state # "off"
    <3> DEFINE i == dump[f].var_idx
    <3>1. vars'[i].buffer = vars[i].buffer /\ vars'[i].num_samples = vars[i].num_samples
      BY <1>1, <2>3
    <3> QED BY <2>1, <3>1 DEF DumpOf, Entries
  <2> QED BY <2>2, <2>3
<1> QED BY <1>1 DEF DumpInv

(* A step of the commands or of the log task, which disturbs S.            *)
LEMMA OthersKeepDumps ==
  ASSUME LogInv, DumpInv, UNCHANGED <<dump, announced>>, NEW S \in SUBSET Slot, Disturb(S),
         \A s \in Slot \ S :
           vars'[s].buffer = vars[s].buffer /\ vars'[s].num_samples = vars[s].num_samples
  PROVE  DumpInv'
<1>1. disturbed \subseteq disturbed'
  BY DEF Disturb
<1>2. ASSUME NEW f \in Format \ disturbed', dump[f].state # "off"
      PROVE  dump[f].var_idx \in Slot \ S
  BY <1>2 DEF Disturb, Dumping, DumpInv
<1> QED BY <1>1, <1>2, SlotsKeepDumps

LEMMA SampledKeepsOthers ==
  ASSUME NEW v \in SlotType, NEW n, ~SampleDue(v, Usec(n))
  PROVE  LET w == Streamed(Sampled(v, n), n)
         IN  w.buffer = v.buffer /\ w.num_samples = v.num_samples
BY DEF Sampled, Streamed, SlotType

LEMMA CallbackKeepsDumps == ASSUME LogInv, DumpInv, LogCallback PROVE DumpInv'
<1> DEFINE due == {s \in Slot : SampleDue(vars[s], Usec(ticks'))}
<1>1. Disturb(due) /\ due \in SUBSET Slot /\ UNCHANGED <<dump, announced>>
  BY DEF LogCallback
<1>2. ASSUME NEW s \in Slot \ due
      PROVE  vars'[s].buffer = vars[s].buffer /\ vars'[s].num_samples = vars[s].num_samples
  <2>1. vars[s] \in SlotType /\ ~SampleDue(vars[s], Usec(ticks'))
    BY DEF LogInv, SlotInv
  <2>2. vars'[s] = Streamed(Sampled(vars[s], ticks'), ticks')
    BY DEF LogCallback
  <2> QED BY <2>1, <2>2, SampledKeepsOthers
<1> HIDE DEF due
<1> QED BY <1>1, <1>2, OthersKeepDumps

LEMMA SamplesKept ==
  ASSUME LogInv, NEW t \in Slot,
         \/ \E s \in Slot : \/ \E name \in Name, n \in Every : Register(s, name, n)
                           \/ \E enable \in BOOLEAN, socket \in Socket : Stream(s, enable, socket)
         \/ SyncTime
  PROVE  vars'[t].buffer = vars[t].buffer /\ vars'[t].num_samples = vars[t].num_samples
<1>1. vars[t] \in SlotType /\ vars = [u \in Slot |-> vars[u]]
  BY DEF LogInv, SlotInv
<1>2. ASSUME NEW s \in Slot, NEW name \in Name, NEW n \in Every, Register(s, name, n)
      PROVE  vars'[t].buffer = vars[t].buffer /\ vars'[t].num_samples = vars[t].num_samples
  <2>1. vars'[t] = vars[t] \/ vars'[t] = [vars[t] EXCEPT !.name = name, !.every = n,
                                          !.log_interval = IntervalOf(n), !.last_logged = 0,
                                          !.is_registered = TRUE]
    BY <1>1, <1>2 DEF Register
  <2> QED BY <1>1, <2>1 DEF SlotType
<1>3. ASSUME NEW s \in Slot, NEW enable \in BOOLEAN, NEW socket \in Socket, Stream(s, enable, socket)
      PROVE  vars'[t].buffer = vars[t].buffer /\ vars'[t].num_samples = vars[t].num_samples
  <2>1. vars'[t] = vars[t] \/ vars'[t] = [vars[t] EXCEPT !.is_streaming = enable, !.last_streamed = 0,
                                                        !.socket_id = socket]
    BY <1>1, <1>3 DEF Stream
  <2> QED BY <1>1, <2>1 DEF SlotType
<1>4. CASE SyncTime
  <2>1. vars'[t] = vars[t] \/ vars'[t] = [vars[t] EXCEPT !.last_streamed = 0]
    BY <1>4 DEF SyncTime
  <2> QED BY <1>1, <2>1 DEF SlotType
<1> QED BY <1>2, <1>3, <1>4

LEMMA EmptyingKeepsDumps ==
  ASSUME LogInv, DumpInv, NEW S \in SUBSET Slot,
         Empty(S) \/ (\E s \in Slot : S = {s} /\ Unregister(s))
  PROVE  DumpInv'
<1>1. Disturb(S) /\ UNCHANGED <<dump, announced>>
  BY DEF Empty, Unregister
<1>2. \A t \in Slot \ S : vars'[t] = vars[t]
  BY DEF Empty, Unregister, LogInv
<1> QED BY <1>1, <1>2, OthersKeepDumps

(* One dump moves on, and no slot changes.                                 *)
LEMMA OneDumpMoves ==
  ASSUME DumpInv, NEW f \in Format, NEW d, NEW a, UNCHANGED vars,
         dump' = [dump EXCEPT ![f] = d], announced' = [announced EXCEPT ![f] = a],
         disturbed \subseteq disturbed' \cup {f},
         DOMAIN d = DumpFields, d.state # "off" => d.var_idx \in Slot,
         f \notin disturbed' => DumpOf(d, a, vars[d.var_idx])
  PROVE  DumpInv'
<1>1. dump'[f] = d /\ announced'[f] = a
  BY DEF DumpInv
<1>2. \A g \in Format \ {f} : dump'[g] = dump[g] /\ announced'[g] = announced[g]
  BY DEF DumpInv
<1>3. dump' = [g \in Format |-> dump'[g]] /\ announced' = [g \in Format |-> announced'[g]]
  BY DEF DumpInv
<1>4. ASSUME NEW g \in Format
      PROVE  /\ DOMAIN dump'[g] = DumpFields
             /\ dump'[g].state # "off" => dump'[g].var_idx \in Slot
             /\ g \notin disturbed' => DumpOf(dump'[g], announced'[g], vars'[dump'[g].var_idx])
  <2>1. CASE g = f
    BY <1>1, <2>1
  <2>2. CASE g # f
    BY <1>2, <2>2 DEF DumpInv
  <2> QED BY <2>1, <2>2
<1> QED BY <1>3, <1>4 DEF DumpInv

LEMMA DumpVarKeepsDumps ==
  ASSUME DumpInv, NEW s \in Slot, NEW f \in Format, NEW batch, DumpVar(s, f, batch)
  PROVE  DumpInv'
<1> DEFINE d == [NoDump EXCEPT !.state = "title", !.var_idx = s, !.batch = batch]
<1>1. /\ DOMAIN d = DumpFields /\ d.state = "title" /\ d.var_idx = s /\ d.sample_idx = 0
      /\ d.sent = << >>
  BY DEF NoDump, DumpFields
<1>2. /\ dump' = [dump EXCEPT ![f] = d] /\ announced' = [announced EXCEPT ![f] = << >>]
      /\ UNCHANGED vars /\ disturbed \subseteq disturbed' \cup {f}
  BY DEF DumpVar
<1> HIDE DEF d
<1>3. DumpOf(d, << >>, vars[d.var_idx])
  BY <1>1 DEF DumpOf
<1> QED BY <1>1, <1>2, <1>3, OneDumpMoves

LEMMA InState ==
  ASSUME NEW d, DOMAIN d = DumpFields, NEW s
  PROVE  LET e == [d EXCEPT !.state = s]
         IN  /\ DOMAIN e = DumpFields /\ e.state = s /\ e.var_idx = d.var_idx
             /\ e.sample_idx = d.sample_idx /\ e.sent = d.sent
BY DEF DumpFields

(* What a dump does between two of its states.                             *)
LEMMA StatesFollow ==
  ASSUME NEW v \in SlotType, NEW d, NEW e, NEW a, DumpOf(d, a, v),
         e.sample_idx = d.sample_idx, e.sent = d.sent,
         \/ d.state = "title" /\ e.state = "num_samples"
         \/ d.state = "header" /\ v.num_samples = 0 /\ e.state = "footer"
         \/ d.state = "header" /\ v.num_samples # 0 /\ e.state \in {"timestamp", "sample"}
         \/ d.state = "timestamp" /\ e.state = "sample"
         \/ d.state = "footer" /\ e.state = "remove"
  PROVE  DumpOf(e, a, v)
<1>1. v.num_samples \in 0 .. Depth /\ Depth \in Nat
  BY LogAssumption DEF SlotType
<1>2. Entries(v, 0) = << >>
  BY LogAssumption, EntriesFacts, 0 \in Nat, 0 + 0 <= Depth
<1>3. CASE d.state = "header" /\ v.num_samples # 0 /\ e.state \in {"timestamp", "sample"}
  BY <1>1, <1>2, <1>3 DEF DumpOf
<1>4. CASE d.state = "header" /\ v.num_samples = 0 /\ e.state = "footer"
  BY <1>2, <1>4 DEF DumpOf
<1>5. CASE \/ d.state = "title" /\ e.state = "num_samples"
           \/ d.state = "timestamp" /\ e.state = "sample"
           \/ d.state = "footer" /\ e.state = "remove"
  BY <1>5 DEF DumpOf
<1> QED BY <1>3, <1>4, <1>5

LEMMA GotoKeepsDumps ==
  ASSUME LogInv, DumpInv, UNCHANGED <<vars, disturbed>>, NEW f \in Format,
         DumpTitle(f) \/ DumpHeader(f) \/ DumpTimestamp(f) \/ DumpFooter(f)
  PROVE  DumpInv'
<1> DEFINE d == dump[f]
           v == vars[d.var_idx]
<1>1. PICK s : /\ Goto(f, s) /\ UNCHANGED announced /\ s # "off" /\ d.state # "off"
               /\ \/ d.state = "title" /\ s = "num_samples"
                  \/ d.state = "header" /\ v.num_samples = 0 /\ s = "footer"
                  \/ d.state = "header" /\ v.num_samples # 0 /\ s \in {"timestamp", "sample"}
                  \/ d.state = "timestamp" /\ s = "sample"
                  \/ d.state = "footer" /\ s = "remove"
  <2>1. CASE DumpHeader(f)
    BY <2>1 DEF DumpHeader, FirstSampleState
  <2> QED BY <2>1 DEF DumpTitle, DumpTimestamp, DumpFooter
<1> DEFINE e == [d EXCEPT !.state = s]
<1>2. DOMAIN d = DumpFields /\ d.var_idx \in Slot
  BY <1>1 DEF DumpInv
<1>3. v \in SlotType
  BY <1>2 DEF LogInv, SlotInv
<1>4. /\ DOMAIN e = DumpFields /\ e.state = s /\ e.var_idx = d.var_idx
      /\ e.sample_idx = d.sample_idx /\ e.sent = d.sent
  BY <1>2, InState
<1>5. dump' = [dump EXCEPT ![f] = e] /\ announced' = [announced EXCEPT ![f] = announced[f]]
  BY <1>1 DEF Goto, DumpInv
<1>6. f \notin disturbed => DumpOf(d, announced[f], v)
  BY DEF DumpInv
<1> HIDE DEF d, e, v
<1>7. ASSUME f \notin disturbed PROVE DumpOf(e, announced[f], v)
  BY <1>1, <1>3, <1>4, <1>6, <1>7, StatesFollow
<1>8. vars[e.var_idx] = v
  BY <1>4 DEF v
<1> QED BY <1>2, <1>4, <1>5, <1>7, <1>8, OneDumpMoves

LEMMA NumSamplesKeepsDumps ==
  ASSUME LogInv, DumpInv, UNCHANGED <<vars, disturbed>>, NEW f \in Format, DumpNumSamples(f)
  PROVE  DumpInv'
<1> DEFINE d == dump[f]
           v == vars[d.var_idx]
           a == Entries(v, v.num_samples)
           e == [d EXCEPT !.state = "header"]
<1>1. DOMAIN d = DumpFields /\ d.state = "num_samples" /\ d.var_idx \in Slot
  BY DEF DumpInv, DumpNumSamples
<1>2. dump' = [dump EXCEPT ![f] = e] /\ announced' = [announced EXCEPT ![f] = a]
  BY DEF DumpNumSamples, Goto, Entries
<1>3. /\ DOMAIN e = DumpFields /\ e.state = "header" /\ e.var_idx = d.var_idx
      /\ e.sample_idx = d.sample_idx /\ e.sent = d.sent
  BY <1>1, InState
<1>4. f \notin disturbed => DumpOf(d, announced[f], v)
  BY DEF DumpInv
<1>5. vars[e.var_idx] = v
  BY <1>3
<1> HIDE DEF d, e, v
<1>6. f \notin disturbed => DumpOf(e, a, v)
  BY <1>1, <1>3, <1>4 DEF DumpOf
<1> HIDE DEF a
<1> QED BY <1>1, <1>2, <1>3, <1>5, <1>6, OneDumpMoves

LEMMA RemoveKeepsDumps ==
  ASSUME DumpInv, UNCHANGED <<vars, disturbed>>, NEW f \in Format, DumpRemove(f)
  PROVE  DumpInv'
<1>1. DOMAIN NoDump = DumpFields /\ NoDump.state = "off"
  BY DEF NoDump, DumpFields
<1>2. DumpOf(NoDump, << >>, vars[NoDump.var_idx])
  BY <1>1 DEF DumpOf
<1>3. dump' = [dump EXCEPT ![f] = NoDump] /\ announced' = [announced EXCEPT ![f] = << >>]
  BY DEF DumpRemove
<1> QED BY <1>1, <1>2, <1>3, OneDumpMoves

(* What a batch of n samples sends is the next n of the slot, or what is   *)
(* left of them.                                                           *)
LEMMA SendsTheNext ==
  ASSUME NEW v \in SlotType, NEW d, DOMAIN d = DumpFields, NEW n \in Nat,
         d.sample_idx \in 0 .. v.num_samples - 1, d.sent = Entries(v, d.sample_idx)
  PROVE  LET e == SendUpTo(d, v, n)
         IN  /\ DOMAIN e = DumpFields /\ e.var_idx = d.var_idx
             /\ e.sample_idx \in d.sample_idx .. v.num_samples
             /\ e.sent = Entries(v, e.sample_idx)
             /\ AllSent(e, v) <=> e.sample_idx = v.num_samples
<1> DEFINE j == d.sample_idx
           left == v.num_samples - j
           k == IF n <= 1 \/ n <= left THEN n ELSE IF left < 1 THEN 1 ELSE left
           q == [i \in 1 .. k |-> v.buffer[j + i - 1]]
           e == SendUpTo(d, v, n)
<1>1. v.num_samples \in 0 .. Depth /\ Depth \in Nat /\ j \in Nat /\ left \in Nat \ {0}
  BY LogAssumption DEF SlotType
<1>2. k \in Nat /\ j + k <= v.num_samples
  BY <1>1
<1>3. /\ DOMAIN e = DumpFields /\ e.var_idx = d.var_idx
      /\ e.sample_idx = j + k /\ e.sent = d.sent \o q
  BY DEF SendUpTo, DumpFields
<1>4. j + k <= Depth /\ j + k \in j .. v.num_samples
  BY <1>1, <1>2
<1> HIDE DEF e, k
<1>5. Entries(v, j) \o q = Entries(v, j + k)
  BY <1>1, <1>2, <1>4, EntriesFacts
<1>6. AllSent(e, v) <=> e.sample_idx = v.num_samples
  BY <1>1, <1>3, <1>4 DEF AllSent
<1> QED BY <1>3, <1>4, <1>5, <1>6 DEF e

LEMMA SampleKeepsDumps ==
  ASSUME LogInv, DumpInv, UNCHANGED <<vars, disturbed>>, NEW f \in Format, NEW n \in Nat,
         DumpSample(f, n)
  PROVE  DumpInv'
<1> DEFINE d == dump[f]
           v == vars[d.var_idx]
           a == announced[f]
           u == SendUpTo(d, v, n)
<1>1. DOMAIN d = DumpFields /\ d.state = "sample" /\ d.var_idx \in Slot
  BY DEF DumpInv, DumpSample
<1>2. v \in SlotType
  BY <1>1 DEF LogInv, SlotInv
<1>3. PICK s \in {"footer", "timestamp", "sample"} :
        /\ dump' = [dump EXCEPT ![f] = [u EXCEPT !.state = s]]
        /\ s = "footer" => AllSent(u, v)
        /\ s # "footer" => n = 0 \/ ~AllSent(u, v)
  <2>1. CASE n > 0 /\ AllSent(u, v)
    BY <2>1 DEF DumpSample
  <2>2. CASE ~(n > 0 /\ AllSent(u, v))
    <3> HIDE DEF u
    <3>1. n = 0 \/ ~AllSent(u, v)
      BY <2>2
    <3>2. dump' = [dump EXCEPT ![f] = [u EXCEPT !.state = FirstSampleState(f)]]
      BY <2>2 DEF DumpSample, u
    <3>3. FirstSampleState(f) \in {"timestamp", "sample"}
      BY DEF FirstSampleState
    <3> QED BY <3>1, <3>2, <3>3
  <2> QED BY <2>1, <2>2
<1> DEFINE e == [u EXCEPT !.state = s]
<1>4. announced' = [announced EXCEPT ![f] = a]
  BY DEF DumpSample, DumpInv
<1>5. f \notin disturbed => DumpOf(d, a, v)
  BY DEF DumpInv
<1>6. DOMAIN u = DumpFields /\ u.var_idx = d.var_idx
  BY <1>1 DEF SendUpTo, DumpFields
<1>7. /\ DOMAIN e = DumpFields /\ e.state = s /\ e.var_idx = u.var_idx
      /\ e.sample_idx = u.sample_idx /\ e.sent = u.sent
  BY <1>6, InState
<1>8. /\ vars[e.var_idx] = v
      /\ n = 0 /\ d.sample_idx \in Int => u.sample_idx = d.sample_idx
  <2>1. n = 0 => u.sample_idx = d.sample_idx + 0
    BY <1>1 DEF SendUpTo, DumpFields
  <2> QED BY <1>6, <1>7, <2>1
<1> HIDE DEF d, v, u, e, a
<1>9. ASSUME f \notin disturbed PROVE DumpOf(e, a, v)
  <2>1. /\ a = Entries(v, v.num_samples) /\ d.sample_idx \in 0 .. v.num_samples - 1
        /\ d.sent = Entries(v, d.sample_idx)
    BY <1>1, <1>5, <1>9 DEF DumpOf
  <2>2. /\ u.sample_idx \in d.sample_idx .. v.num_samples
        /\ u.sent = Entries(v, u.sample_idx)
        /\ AllSent(u, v) <=> u.sample_idx = v.num_samples
    BY <1>1, <1>2, <2>1, SendsTheNext DEF u
  <2>3. CASE s = "footer"
    BY <1>3, <1>7, <2>1, <2>2, <2>3 DEF DumpOf
  <2>4. CASE s # "footer"
    <3>1. u.sample_idx \in 0 .. v.num_samples - 1
      BY <1>2, <1>3, <1>8, <2>1, <2>2, <2>4 DEF SlotType
    <3> QED BY <1>3, <1>7, <2>1, <2>2, <2>4, <3>1 DEF DumpOf
  <2> QED BY <2>3, <2>4
<1> QED BY <1>1, <1>3, <1>4, <1>6, <1>7, <1>8, <1>9, OneDumpMoves DEF e

LEMMA DumpInvAlways == Spec => []DumpInv
<1>1. Init => DumpInv
  <2>1. DOMAIN NoDump = DumpFields /\ NoDump.state = "off"
    BY DEF NoDump, DumpFields
  <2> QED BY <2>1 DEF Init, DumpInv, DumpOf
<1>2. LogInv /\ DumpInv /\ [Next]_logVars => DumpInv'
  <2> SUFFICES ASSUME LogInv, DumpInv, [Next]_logVars PROVE DumpInv'
    OBVIOUS
  <2>1. CASE LogCallback
    BY <2>1, CallbackKeepsDumps
  <2>2. CASE UNCHANGED <<vars, dump, announced, disturbed>>
    BY <2>2 DEF DumpInv
  <2>3. CASE LogStart \/ LogStop
    BY <2>2, <2>3 DEF LogStart, LogStop
  <2>4. ASSUME NEW S \in SUBSET Slot, Empty(S) PROVE DumpInv'
    BY <2>4, EmptyingKeepsDumps
  <2>5. ASSUME NEW s \in Slot, Unregister(s) PROVE DumpInv'
    BY <2>5, EmptyingKeepsDumps
  <2>6. CASE /\ UNCHANGED <<dump, announced, disturbed>>
             /\ \A t \in Slot : vars'[t].buffer = vars[t].buffer
                                /\ vars'[t].num_samples = vars[t].num_samples
    BY <2>6, SlotsKeepDumps DEF DumpInv
  <2>7. ASSUME NEW s \in Slot, NEW name \in Name, NEW n \in Every, Register(s, name, n) PROVE DumpInv'
    BY <2>6, <2>7, SamplesKept DEF Register
  <2>8. ASSUME NEW s \in Slot, NEW enable \in BOOLEAN, NEW socket \in Socket, Stream(s, enable, socket)
        PROVE  DumpInv'
    BY <2>6, <2>8, SamplesKept DEF Stream
  <2>9. CASE SyncTime
    BY <2>6, <2>9, SamplesKept DEF SyncTime
  <2>10. ASSUME NEW s \in Slot, NEW f \in Format, NEW batch \in {1, EthBatch}, DumpVar(s, f, batch)
         PROVE  DumpInv'
    BY <2>10, DumpVarKeepsDumps
  <2>11. CASE DumpCallback
    <3>1. UNCHANGED <<vars, disturbed>>
      BY <2>11 DEF DumpCallback
    <3>2. PICK f \in Format :
            \/ DumpTitle(f) \/ DumpHeader(f) \/ DumpTimestamp(f) \/ DumpFooter(f)
            \/ DumpNumSamples(f) \/ DumpRemove(f)
            \/ (\E n \in 0 .. EthBatch : DumpSample(f, n))
      BY <2>11 DEF DumpCallback
    <3>3. \A n \in 0 .. EthBatch : n \in Nat
      BY LogAssumption
    <3> QED BY <3>1, <3>2, <3>3, GotoKeepsDumps, NumSamplesKeepsDumps, RemoveKeepsDumps, SampleKeepsDumps
  <2>12. CASE UNCHANGED logVars
    BY <2>2, <2>12 DEF logVars, history
  <2>13. CASE LogCommand
    <3>1. \A s \in Slot : Empty({s}) => DumpInv'
      BY <2>4
    <3>2. Empty(Slot) => DumpInv'
      BY <2>4
    <3> QED BY <2>3, <2>5, <2>7, <2>8, <2>9, <2>10, <2>13, <3>1, <3>2 DEF LogCommand
  <2> QED BY <2>1, <2>11, <2>12, <2>13 DEF Next
<1> QED BY <1>1, <1>2, LogInvAlways, PTL DEF Spec

(***************************************************************************)
(* A dump sends the samples it announced, all of them and in the order of  *)
(* the buffer, whatever the output buffer has room for each time, unless   *)
(* its slot changes meanwhile.                                             *)
(***************************************************************************)
THEOREM DumpsAreWhatTheyAnnounced == Spec => []DumpIsWhatWasAnnounced
<1>1. DumpInv => DumpIsWhatWasAnnounced
  BY DEF DumpInv, DumpOf, DumpIsWhatWasAnnounced
<1> QED BY DumpInvAlways, <1>1, PTL

-----------------------------------------------------------------------------
(* The demo controllers.                                                   *)
DemoInv ==
  /\ running \subseteq Ctxs
  /\ pwm_chnl \in [Ctxs -> [Phases -> Channels]]
  /\ channel_duty \in [Channels -> {"zero", "driven"}]
  /\ omega_e \in [Ctxs -> Speeds \cup {0}]
  /\ theta_e \in [Ctxs -> -Turn .. Turn]
  /\ demo!LegsAtRest

LEMMA DemoInitInv == demo!Init => DemoInv
BY InstancesAssumption DEF demo!DemoAssumption, demo!Init, DemoInv, demo!LegsAtRest

(***************************************************************************)
(* One correction is enough: the sum of an angle and a speed is within two *)
(* turns, and the correction takes one off.                                *)
(***************************************************************************)
LEMMA WrapStays ==
  ASSUME NEW t \in -Turn .. Turn, NEW w \in Speeds \cup {0}
  PROVE  demo!Wrap(t + w) \in -Turn .. Turn /\ demo!Wrap(t) \in -Turn .. Turn
BY InstancesAssumption DEF demo!DemoAssumption, demo!Wrap

(* Setting the channel_duty of channels leaves the others as they are. *)
LEMMA SetDutyOthers ==
  ASSUME NEW cs, NEW d \in {"zero", "driven"}, channel_duty \in [Channels -> {"zero", "driven"}], demo!SetDuty(cs, d)
  PROVE  /\ channel_duty' \in [Channels -> {"zero", "driven"}]
         /\ \A c \in Channels : channel_duty'[c] = IF c \in cs THEN d ELSE channel_duty[c]
BY DEF demo!SetDuty

LEMMA DemoNextInv ==
  ASSUME Careful PROVE DemoInv /\ [demo!Next]_demo!vars => DemoInv'
<1> SUFFICES ASSUME DemoInv, [demo!Next]_demo!vars PROVE DemoInv'
  OBVIOUS
<1>1. ASSUME NEW x \in Ctxs, demo!CcInit(x) PROVE DemoInv'
  BY <1>1 DEF demo!CcInit, DemoInv, demo!LegsAtRest, demo!Mine
<1>2. ASSUME NEW x \in Ctxs, demo!CcDeinit(x) PROVE DemoInv'
  <2>1. UNCHANGED <<pwm_chnl, omega_e, theta_e>> /\ running' = running \ {x}
    BY <1>2 DEF demo!CcDeinit, demo!angleVars
  <2>2. /\ channel_duty' \in [Channels -> {"zero", "driven"}]
        /\ \A c \in Channels : channel_duty'[c] = IF c \in demo!Mine(x) THEN "zero" ELSE channel_duty[c]
    BY <1>2, SetDutyOthers DEF demo!CcDeinit, DemoInv
  <2>3. \A y \in Ctxs : demo!Mine(y)' = demo!Mine(y)
    BY <2>1 DEF demo!Mine
  <2>4. demo!LegsAtRest'
    BY <2>1, <2>2, <2>3 DEF demo!LegsAtRest, DemoInv
  <2> QED
    BY <2>1, <2>2, <2>4 DEF DemoInv
<1>3. ASSUME NEW x \in Ctxs, NEW p \in Phases, NEW c \in Channels, demo!CcPwm(x, p, c) PROVE DemoInv'
  <2>1. x \notin running /\ UNCHANGED <<running, channel_duty, omega_e, theta_e>>
    BY <1>3 DEF demo!CcPwm, demo!angleVars
  <2>2. pwm_chnl' \in [Ctxs -> [Phases -> Channels]]
    BY <1>3 DEF demo!CcPwm, DemoInv
  <2>3. \A y \in running : pwm_chnl'[y] = pwm_chnl[y]
    BY <1>3, <2>1 DEF demo!CcPwm, DemoInv
  <2>4. demo!LegsAtRest'
    BY <2>1, <2>3 DEF demo!LegsAtRest, demo!Mine, DemoInv
  <2> QED
    BY <2>1, <2>2, <2>4 DEF DemoInv
<1>4. ASSUME NEW x \in Ctxs, NEW m \in {"angle", "speed"}, demo!CcSetMode(x, m) PROVE DemoInv'
  BY <1>4 DEF demo!CcSetMode, DemoInv, demo!LegsAtRest, demo!Mine
<1>5. ASSUME NEW x \in Ctxs, NEW w \in Speeds, demo!CcOmega(x, w) PROVE DemoInv'
  <2>1. omega_e' \in [Ctxs -> Speeds \cup {0}]
    BY <1>5 DEF demo!CcOmega, DemoInv
  <2>2. theta_e' \in [Ctxs -> -Turn .. Turn]
    BY <1>5, InstancesAssumption DEF demo!CcOmega, DemoInv, demo!DemoAssumption
  <2> QED
    BY <1>5, <2>1, <2>2 DEF demo!CcOmega, DemoInv, demo!LegsAtRest, demo!Mine
<1>6. ASSUME NEW x \in Ctxs, NEW a \in Angles, demo!CcTheta(x, a) PROVE DemoInv'
  <2>1. theta_e' \in [Ctxs -> -Turn .. Turn]
    BY <1>6, InstancesAssumption DEF demo!CcTheta, DemoInv, demo!DemoAssumption
  <2> QED
    BY <1>6, <2>1 DEF demo!CcTheta, DemoInv, demo!LegsAtRest, demo!Mine
<1>7. ASSUME NEW x \in Ctxs, demo!Callback(x) PROVE DemoInv'
  <2>1. UNCHANGED <<running, pwm_chnl, omega_e>> /\ x \in running
    BY <1>7 DEF demo!Callback
  <2>2. theta_e' \in [Ctxs -> -Turn .. Turn]
    <3>1. theta_e[x] \in -Turn .. Turn /\ omega_e[x] \in Speeds \cup {0}
      BY DEF DemoInv
    <3>2. demo!Wrap(theta_e[x] + omega_e[x]) \in -Turn .. Turn /\ demo!Wrap(theta_e[x]) \in -Turn .. Turn
      BY <3>1, WrapStays
    <3>3. CASE cc_mode[x] = "speed"
      BY <1>7, <3>2, <3>3 DEF demo!Callback, DemoInv
    <3>4. CASE cc_mode[x] # "speed"
      BY <1>7, <3>2, <3>4 DEF demo!Callback, DemoInv
    <3> QED
      BY <3>3, <3>4
  <2>3. /\ channel_duty' \in [Channels -> {"zero", "driven"}]
        /\ \A c \in Channels : channel_duty'[c] = IF c \in demo!Mine(x) THEN "driven" ELSE channel_duty[c]
    BY <1>7, SetDutyOthers DEF demo!Callback, DemoInv
  <2>4. \A y \in Ctxs : demo!Mine(y)' = demo!Mine(y)
    BY <2>1 DEF demo!Mine
  <2>5. demo!LegsAtRest'
    BY <2>1, <2>3, <2>4 DEF demo!LegsAtRest, DemoInv
  <2> QED
    BY <2>1, <2>2, <2>3, <2>5 DEF DemoInv
<1>8. CASE UNCHANGED demo!vars
  BY <1>8 DEF demo!vars, demo!angleVars, DemoInv, demo!LegsAtRest, demo!Mine
<1> QED
  BY <1>1, <1>2, <1>3, <1>4, <1>5, <1>6, <1>7, <1>8 DEF demo!Next

(***************************************************************************)
(* Whoever starts, stops and shares channels: a channel no running         *)
(* controller drives is at 0 V, and every angle stays within a turn, if    *)
(* the host moves no phase of a running controller.                        *)
(***************************************************************************)
THEOREM DemoControllersBounded ==
  ASSUME Careful PROVE EitherSpec => []ControllersBounded
<1>1. DemoInv => ControllersBounded
  BY DEF DemoInv, ControllersBounded, demo!ControllersBounded, demo!AngleWithinTurn
<1>2. DemoInv /\ [EitherNext]_<<session, logVars, pwmAll, demoAll>> => DemoInv'
  BY DemoNextInv DEF EitherNext, demoAll, demo!vars, demo!angleVars
<1> QED
  BY DemoInitInv, DemoNextInv, <1>1, <1>2, PTL DEF EitherSpec, Either

-----------------------------------------------------------------------------
(***************************************************************************)
(* The PWM driver over the core, at every clock and between any two of its *)
(* writes.                                                                 *)
(***************************************************************************)
(* A part of Scale of the carrier maximum is not more than it. *)
LEMMA RawFits == \A d \in 0 .. Scale, m \in Nat : pwm!Raw(d, m) \in 0 .. m
<1> SUFFICES ASSUME NEW d \in 0 .. Scale, NEW m \in Nat PROVE pwm!Raw(d, m) \in 0 .. m
  OBVIOUS
<1>1. Scale \in Nat \ {0}
  BY InstancesAssumption DEF pwm!PwmAssumption
<1> DEFINE p == d * m
           q == p \div Scale
<1>2. p \in Nat /\ p <= Scale * m
  BY <1>1
<1> HIDE DEF p
<1>3. q \in Nat /\ q * Scale <= p
  BY <1>1, <1>2
<1> HIDE DEF q
<1>4. q * Scale <= Scale * m
  BY <1>1, <1>2, <1>3
<1>5. q <= m
  BY <1>1, <1>3, <1>4
<1> QED BY <1>3, <1>5 DEF pwm!Raw, p, q

LEMMA ModSmall == ASSUME NEW n \in Nat \ {0}, NEW x \in 0 .. n - 1 PROVE x % n = x
OBVIOUS
LEMMA ModRange == ASSUME NEW n \in Nat \ {0}, NEW x \in Int PROVE x % n \in 0 .. n - 1
OBVIOUS

(***************************************************************************)
(* The calls, told by what the driver has still to write.  Configuration   *)
(* is only written when PWM is off and the pin is, and a new maximum of    *)
(* the carrier is followed by a duty ratio for it.                         *)
(***************************************************************************)
ConfigWrites ==
  ({"max"} \X Maxes) \cup ({"deadtime"} \X Deadtimes) \cup ({"duty"} \X Nat)
    \cup ({"mode_set", "mode_clear"} \X SUBSET {4, 5}) \cup ({"leg_enabled", "leg_reversed"} \X BOOLEAN)

PulsesOn == <<<<"pin", TRUE>>, <<"enable", TRUE>>>>
PulsesOff == <<<<"enable", FALSE>>, <<"pin", FALSE>>>>

On == pwm_en /\ PS_DRIVE_EN /\ (todo = PulsesOff \/ todo = <<>> \/ \E v \in Nat : todo = <<<<"duty", v>>>>)
Stopping == ~pwm_en /\ PS_DRIVE_EN /\ todo = <<<<"pin", FALSE>>>>
Off == ~pwm_en /\ ~PS_DRIVE_EN /\ todo \in Seq(ConfigWrites)
Starting == ~pwm_en /\ ~PS_DRIVE_EN /\ todo = PulsesOn
PinOn == ~pwm_en /\ PS_DRIVE_EN /\ todo = <<<<"enable", TRUE>>>>

Asks(q, reg) == \E i \in 1 .. Len(q) : q[i][1] = reg
(* max is the maximum of the carrier when the call is over. *)
Plans(q, max, now, ratio) ==
  /\ max \in Maxes
  /\ \A i \in 1 .. Len(q) : q[i][1] = "max" => q[i][2] = max /\ i + 1 \in 1 .. Len(q) /\ q[i + 1][1] = "duty"
  /\ \A i \in 1 .. Len(q) : q[i][1] = "duty" => q[i][2] \in 0 .. max
  /\ Asks(q, "max") \/ now = max
  /\ Asks(q, "duty") \/ ratio \in 0 .. max

OneRatio == todo = <<>> \/ \E v \in Nat : todo = <<<<"duty", v>>>>

CallInv ==
  /\ On \/ Stopping \/ Off \/ Starting \/ PinOn
  /\ \E max \in Maxes : Plans(todo, max, carrier_max, duty)
  /\ pwm_en => ~configured
  /\ Off /\ ~configured => OneRatio

(***************************************************************************)
(* The legs.  What the switch of the leg did since an output was on is in  *)
(* the counter of its dead time: the switch that is on is the one of the   *)
(* last output, or it came on after a dead time.  A command that turns the *)
(* leg around undoes that, and the slice that passes before PWM is on      *)
(* makes up for it.                                                        *)
(***************************************************************************)
RestInv ==
  /\ Off \/ Stopping => last = "none" \/ rest + slice >= Slice
  /\ (Starting \/ PinOn) /\ configured => last = "none" \/ rest >= Slice

Output(top) == IF top # rev_leg THEN "top" ELSE "bottom"
After(top) == last = "none" \/ last = Output(top) \/ rest > owed
LegInv ==
  /\ ~(Q1 /\ Q2)
  /\ Q1 => State = "Q1" \/ (State = "off" /\ deadtime_count = 0)
  /\ Q2 => State = "Q2" \/ (State = "off" /\ deadtime_count = 0)
  /\ State = "off" => rest >= Slice \/ rest >= deadtime_count
  /\ pwm!Top => last = "top"
  /\ pwm!Bottom => last = "bottom"
  /\ ~configured /\ (State = "Q1" \/ Q1) => After(TRUE)
  /\ ~configured /\ (State = "Q2" \/ Q2) => After(FALSE)
  /\ owed <= pwm!deadtime

PwmTypes ==
  /\ count \in 0 .. CountWrap - 1 /\ dp \in BOOLEAN
  /\ carrier_max \in Maxes \cup {0} /\ slv_deadtime \in Deadtimes \cup {0} /\ duty \in Nat /\ D_L \in Nat
  /\ So \in BOOLEAN /\ State \in {"off", "Q1", "Q2"} /\ deadtime_count \in Nat
  /\ Q1 \in BOOLEAN /\ Q2 \in BOOLEAN /\ pwm_en \in BOOLEAN /\ en_leg \in BOOLEAN /\ rev_leg \in BOOLEAN
  /\ PS_DRIVE_EN \in BOOLEAN /\ bus \in 0 .. BusGap
  /\ slice \in 0 .. Slice /\ configured \in BOOLEAN /\ rest \in Nat /\ owed \in Nat
  /\ last \in {"none", "top", "bottom"} /\ pulses \in 0 .. 2

(***************************************************************************)
(* The pulses, when ratios are taken over at the peaks and the valleys: on *)
(* the way down a leg that rose stays up until the valley, on the way up   *)
(* one that rose and fell does not rise again.                             *)
(***************************************************************************)
FromThePeak ==
  /\ D_L <= carrier_max /\ pulses <= 1
  /\ count > carrier_max => D_L = 0 /\ ~So /\ pulses = 0
  /\ count = carrier_max => (D_L = carrier_max /\ carrier_max >= 2 => So)
  /\ ~dp /\ count < carrier_max /\ pulses = 1 => So /\ (carrier_max = 1 \/ count < D_L)
  /\ dp /\ count < carrier_max /\ pulses = 1 => So \/ D_L <= count
  /\ dp /\ count = 0 => D_L = 0 /\ ~So /\ pulses = 0
AtRest == D_L = 0 /\ ~So /\ pulses = 0
PulseInv ==
  /\ pwm_en => duty <= carrier_max /\ D_L <= carrier_max
  /\ pwm_en /\ mode = {4} => FromThePeak
  /\ PinOn => AtRest
  /\ Off \/ Starting => D_L = 0 /\ pulses = 0 /\ (bus >= 1 => ~So)
  /\ Stopping /\ bus >= 1 => D_L = 0 /\ pulses = 0
  /\ Stopping /\ mode = {4} => pulses <= 1

PwmInv == PwmTypes /\ CallInv /\ RestInv /\ LegInv /\ PulseInv

LEMMA Instances ==
  /\ CountWrap \in Nat \ {0, 1} /\ MinDeadtime \in Nat /\ BusGap \in Nat \ {0} /\ Scale \in Nat \ {0}
  /\ Maxes \subseteq 1 .. CountWrap - 1 /\ Deadtimes \subseteq Nat \ 0 .. MinDeadtime - 1
  /\ Duties \subseteq 0 .. Scale
  /\ Slice \in Nat /\ MinDeadtime < Slice /\ \A dt \in Deadtimes : dt < Slice
BY InstancesAssumption DEF pwm!InverterAssumption, pwm!PwmAssumption

(* The writes of the driver. *)
LEMMA FreqPlans ==
  ASSUME NEW max \in Maxes
  PROVE  /\ pwm!Midscale(max) \in 0 .. max
         /\ pwm!SetFreq(max) = <<<<"max", max>>, <<"duty", pwm!Midscale(max)>>>>
<1>1. max \in Nat /\ Scale \div 2 \in 0 .. Scale
  BY Instances
<1> QED BY <1>1, RawFits DEF pwm!Midscale, pwm!SetFreq

LEMMA PlansSame ==
  ASSUME CallInv, UNCHANGED <<todo, carrier_max, duty, pwm_en, PS_DRIVE_EN, configured>>
  PROVE  /\ CallInv'
         /\ On' = On /\ Stopping' = Stopping /\ Off' = Off /\ Starting' = Starting /\ PinOn' = PinOn
<1>1. On' = On /\ Stopping' = Stopping /\ Off' = Off /\ Starting' = Starting /\ PinOn' = PinOn
  BY DEF On, Stopping, Off, Starting, PinOn
<1>2. \E max \in Maxes : Plans(todo, max, carrier_max, duty)'
  BY DEF CallInv
<1> QED BY <1>1, <1>2 DEF CallInv, OneRatio

LEMMA ShortAsks ==
  ASSUME NEW reg, NEW w, NEW z
  PROVE  /\ ~Asks(<<>>, reg)
         /\ Asks(<<w>>, reg) <=> w[1] = reg
         /\ Asks(<<w, z>>, reg) <=> w[1] = reg \/ z[1] = reg
<1>1. ~Asks(<<>>, reg)
  BY DEF Asks
<1>2. Asks(<<w>>, reg) <=> w[1] = reg
  <2>1. Len(<<w>>) = 1 /\ <<w>>[1] = w
    OBVIOUS
  <2>2. 1 .. 1 = {1}
    OBVIOUS
  <2> QED BY <2>1, <2>2 DEF Asks
<1>3. Asks(<<w, z>>, reg) <=> w[1] = reg \/ z[1] = reg
  <2>1. Len(<<w, z>>) = 2 /\ <<w, z>>[1] = w /\ <<w, z>>[2] = z
    OBVIOUS
  <2>2. 1 .. 2 = {1, 2}
    OBVIOUS
  <2> QED BY <2>1, <2>2 DEF Asks
<1> QED BY <1>1, <1>2, <1>3

LEMMA PulsesAsk ==
  ASSUME NEW reg \in {"max", "duty"} PROVE ~Asks(PulsesOff, reg) /\ ~Asks(PulsesOn, reg)
<1>1. ASSUME NEW on PROVE ~Asks(<<<<"enable", on>>, <<"pin", on>>>>, reg) /\ ~Asks(<<<<"pin", on>>, <<"enable", on>>>>, reg)
  <2> DEFINE w == <<"enable", on>>
             z == <<"pin", on>>
  <2>1. w[1] = "enable" /\ z[1] = "pin"
    OBVIOUS
  <2> HIDE DEF w, z
  <2>2. ~Asks(<<w, z>>, reg)
    BY <2>1, ShortAsks
  <2>3. ~Asks(<<z, w>>, reg)
    BY <2>1, ShortAsks
  <2> QED BY <2>2, <2>3 DEF w, z
<1> QED BY <1>1 DEF PulsesOff, PulsesOn

(* While PWM is on the maximum is one of the carrier's. *)
LEMMA OnIsPlanned ==
  ASSUME CallInv, On PROVE carrier_max \in Maxes /\ (todo = <<>> \/ todo = PulsesOff => duty <= carrier_max)
<1>1. PICK max \in Maxes : Plans(todo, max, carrier_max, duty)
  BY DEF CallInv
<1>2. ~Asks(todo, "max")
  <2>1. CASE todo = PulsesOff
    BY <2>1, PulsesAsk
  <2>2. CASE todo = <<>>
    BY <2>2, ShortAsks
  <2>3. ASSUME NEW v \in Nat, todo = <<<<"duty", v>>>> PROVE ~Asks(todo, "max")
    BY <2>3, ShortAsks
  <2> QED BY <2>1, <2>2, <2>3 DEF On
<1>3. carrier_max = max
  BY <1>1, <1>2 DEF Plans
<1>4. todo = <<>> \/ todo = PulsesOff => ~Asks(todo, "duty")
  BY ShortAsks, PulsesAsk
<1>5. max \in Nat
  BY Instances
<1> QED BY <1>1, <1>3, <1>4, <1>5 DEF Plans

(***************************************************************************)
(* A clock.                                                                *)
(***************************************************************************)
LEMMA DeadtimeIs ==
  ASSUME slv_deadtime \in Deadtimes \cup {0}, CallInv
  PROVE  pwm!deadtime \in Nat /\ pwm!deadtime < Slice
<1>1. \A d \in Deadtimes : d \in Nat /\ MinDeadtime <= d
  BY Instances
<1>2. Slice \in Nat /\ MinDeadtime < Slice /\ \A d \in Deadtimes : d < Slice
  BY Instances
<1> QED BY <1>1, <1>2, Instances DEF pwm!deadtime

LEMMA ClockTypes ==
  ASSUME PwmInv, pwm!Clock PROVE PwmTypes'
<1>1. UNCHANGED <<carrier_max, slv_deadtime, duty, pwm_en, mode, en_leg, rev_leg, PS_DRIVE_EN, todo, configured>>
  BY DEF pwm!Clock, pwm!registers
<1>2. count' \in 0 .. CountWrap - 1 /\ dp' \in BOOLEAN
  <2>1. PICK x \in Int : count' = x % CountWrap /\ dp' \in BOOLEAN
    BY DEF pwm!Clock, pwm!Clocked, pwm!Counts, pwm!Turns, PwmInv, PwmTypes
  <2>2. CountWrap \in Nat \ {0}
    BY Instances
  <2> QED BY <2>1, <2>2, ModRange
<1>3. D_L' \in Nat
  BY DEF pwm!Clock, pwm!Clocked, pwm!Latches, PwmInv, PwmTypes
<1>4. So' \in BOOLEAN /\ Q1' \in BOOLEAN /\ Q2' \in BOOLEAN /\ State' \in {"off", "Q1", "Q2"}
  BY DEF pwm!Clock, pwm!Clocked, pwm!Compares, pwm!Drives, pwm!NextState, PwmInv, PwmTypes
<1>5. deadtime_count' \in Nat
  BY DEF pwm!Clock, pwm!Clocked, pwm!Drives, pwm!CountDeadtime, PwmInv, PwmTypes
<1>6. bus' \in 0 .. BusGap /\ slice' \in 0 .. Slice
  BY Instances DEF pwm!Clock, PwmInv, PwmTypes
<1>7. rest' \in Nat /\ last' \in {"none", "top", "bottom"}
  BY DEF pwm!Clock, pwm!Watch, PwmInv, PwmTypes
<1>8. owed' \in Nat
  <2>1. pwm!deadtime' = pwm!deadtime
    BY <1>1 DEF pwm!deadtime
  <2>2. pwm!deadtime \in Nat
    BY DeadtimeIs DEF PwmInv, PwmTypes
  <2> QED BY <2>1, <2>2 DEF pwm!Clock, pwm!Watch, PwmInv, PwmTypes
<1>9. pulses' \in 0 .. 2
  BY DEF pwm!Clock, pwm!CountPulses, PwmInv, PwmTypes
<1> QED BY <1>1, <1>2, <1>3, <1>4, <1>5, <1>6, <1>7, <1>8, <1>9 DEF PwmInv, PwmTypes

LEMMA ClockCalls ==
  ASSUME PwmInv, pwm!Clock
  PROVE  /\ CallInv'
         /\ On' = On /\ Stopping' = Stopping /\ Off' = Off /\ Starting' = Starting /\ PinOn' = PinOn
BY PlansSame DEF PwmInv, pwm!Clock, pwm!registers

(* The history of an output: what it was in the clocks. *)
LEMMA ClockWatch ==
  ASSUME PwmInv, pwm!Clock
  PROVE  /\ pwm!Top' = (pwm_en /\ en_leg /\ State = IF rev_leg THEN "Q2" ELSE "Q1")
         /\ pwm!Bottom' = (pwm_en /\ en_leg /\ State = IF rev_leg THEN "Q1" ELSE "Q2")
         /\ ~pwm!Top' /\ ~pwm!Bottom' =>
              last' = last /\ owed' = owed /\ (rest' >= Slice \/ rest' = rest + 1)
         /\ pwm!deadtime' = pwm!deadtime
<1>1. UNCHANGED <<carrier_max, slv_deadtime, duty, pwm_en, mode, en_leg, rev_leg, PS_DRIVE_EN, todo>>
  BY DEF pwm!Clock, pwm!registers
<1>2. Q1' = (State = "Q1") /\ Q2' = (State = "Q2")
  BY DEF pwm!Clock, pwm!Clocked, pwm!Drives
<1>3. pwm!Top' = (pwm_en /\ en_leg /\ State = IF rev_leg THEN "Q2" ELSE "Q1")
  BY <1>1, <1>2 DEF pwm!Top, pwm!Switches
<1>4. pwm!Bottom' = (pwm_en /\ en_leg /\ State = IF rev_leg THEN "Q1" ELSE "Q2")
  BY <1>1, <1>2 DEF pwm!Bottom, pwm!Switches
<1>5. pwm!deadtime' = pwm!deadtime
  BY <1>1 DEF pwm!deadtime
<1>6. owed <= pwm!deadtime /\ owed \in Nat /\ pwm!deadtime \in Nat
  BY DeadtimeIs DEF PwmInv, PwmTypes, LegInv
<1>7. /\ last' = IF pwm!Top' THEN "top" ELSE IF pwm!Bottom' THEN "bottom" ELSE last
      /\ rest' = IF pwm!Top' \/ pwm!Bottom' THEN 0 ELSE IF rest >= Slice THEN rest ELSE rest + 1
      /\ owed' = IF pwm!Top' \/ pwm!Bottom' \/ pwm!deadtime' < owed THEN pwm!deadtime' ELSE owed
  BY DEF pwm!Clock, pwm!Watch
<1>8. ~(pwm!deadtime' < owed)
  BY <1>5, <1>6
<1> HIDE DEF pwm!Top, pwm!Bottom, pwm!deadtime
<1> QED BY <1>3, <1>4, <1>5, <1>7, <1>8

LEMMA Enough == \A r, s, n \in Nat : (r >= n => r + s >= n) /\ r + n >= n
OBVIOUS

LEMMA ClockRest ==
  ASSUME PwmInv, pwm!Clock PROVE RestInv'
<1>1. ASSUME ~pwm_en PROVE last' = last /\ (rest' >= Slice \/ rest' = rest + 1)
  <2>1. ~pwm!Top' /\ ~pwm!Bottom'
    BY <1>1, ClockWatch
  <2> QED BY <2>1, ClockWatch
<1>2. /\ Slice \in Nat /\ rest \in Nat /\ rest' \in Nat /\ slice \in Nat /\ slice' \in Nat
      /\ slice' = IF slice > 0 THEN slice - 1 ELSE 0
      /\ configured' = configured
  BY Instances, ClockTypes DEF pwm!Clock, PwmInv, PwmTypes
<1>3. ASSUME ~pwm_en, last = "none" \/ rest + slice >= Slice PROVE last' = "none" \/ rest' + slice' >= Slice
  <2>1. last' = last /\ (rest' >= Slice \/ rest' = rest + 1)
    BY <1>1, <1>3
  <2>2. slice' >= slice - 1
    BY <1>2
  <2>3. rest + slice >= Slice => rest' + slice' >= Slice
    <3>1. CASE rest' >= Slice
      BY <1>2, <3>1, Enough
    <3>2. CASE rest' = rest + 1
      BY <1>2, <2>2, <3>2
    <3> QED BY <2>1, <3>1, <3>2
  <2> QED BY <1>3, <2>1, <2>3
<1>4. ASSUME ~pwm_en, last = "none" \/ rest >= Slice PROVE last' = "none" \/ rest' >= Slice
  BY <1>1, <1>2, <1>4
<1>5. Off' = Off /\ Starting' = Starting /\ PinOn' = PinOn /\ Stopping' = Stopping
  BY ClockCalls
<1>6. Off \/ Starting \/ PinOn \/ Stopping => ~pwm_en
  BY DEF Off, Starting, PinOn, Stopping
<1>7. Off \/ Stopping => last' = "none" \/ rest' + slice' >= Slice
  BY <1>3, <1>6 DEF PwmInv, RestInv
<1>8. (Starting \/ PinOn) /\ configured => last' = "none" \/ rest' >= Slice
  BY <1>4, <1>6 DEF PwmInv, RestInv
<1> QED BY <1>2, <1>5, <1>7, <1>8 DEF RestInv

LEMMA ClockLeg ==
  ASSUME PwmInv, pwm!Clock PROVE LegInv'
<1>1. UNCHANGED <<slv_deadtime, pwm_en, en_leg, rev_leg, configured>>
  BY DEF pwm!Clock, pwm!registers
<1>2. /\ Q1' = (State = "Q1") /\ Q2' = (State = "Q2") /\ State' = pwm!NextState
      /\ deadtime_count' = IF State = "off" THEN deadtime_count + 1 ELSE 0
  BY DEF pwm!Clock, pwm!Clocked, pwm!Drives, pwm!CountDeadtime
<1>3. /\ deadtime_count \in Nat /\ rest \in Nat /\ rest' \in Nat /\ owed \in Nat /\ owed' \in Nat
      /\ pwm!deadtime \in Nat /\ Slice \in Nat /\ pwm!deadtime < Slice
      /\ State \in {"off", "Q1", "Q2"} /\ rev_leg \in BOOLEAN
  BY DeadtimeIs, ClockTypes, Instances DEF PwmInv, PwmTypes
<1>4. /\ pwm!Top' = (pwm_en /\ en_leg /\ State = IF rev_leg THEN "Q2" ELSE "Q1")
      /\ pwm!Bottom' = (pwm_en /\ en_leg /\ State = IF rev_leg THEN "Q1" ELSE "Q2")
      /\ ~pwm!Top' /\ ~pwm!Bottom' => last' = last /\ owed' = owed /\ (rest' >= Slice \/ rest' = rest + 1)
      /\ pwm!deadtime' = pwm!deadtime
  BY ClockWatch
<1>5. /\ last' = IF pwm!Top' THEN "top" ELSE IF pwm!Bottom' THEN "bottom" ELSE last
      /\ pwm!Top' \/ pwm!Bottom' => owed' = pwm!deadtime'
  BY DEF pwm!Clock, pwm!Watch
<1>6. /\ State = "off" => rest >= Slice \/ rest >= deadtime_count
      /\ ~configured /\ (State = "Q1" \/ Q1) => After(TRUE)
      /\ ~configured /\ (State = "Q2" \/ Q2) => After(FALSE)
      /\ owed <= pwm!deadtime
  BY DEF PwmInv, LegInv
<1>8. /\ State = "off" => State' \in {"off", "Q1", "Q2"} /\ (State' # "off" => deadtime_count >= pwm!deadtime)
      /\ State = "Q1" => State' \in {"off", "Q1"}
      /\ State = "Q2" => State' \in {"off", "Q2"}
  BY <1>2, <1>3 DEF pwm!NextState
<1> DEFINE long == Slice
           dead == pwm!deadtime
           top == pwm!Top'
           bottom == pwm!Bottom'
<1>9. ~(Q1' /\ Q2')
  BY <1>2
<1>10. /\ Q1' => State' = "Q1" \/ (State' = "off" /\ deadtime_count' = 0)
       /\ Q2' => State' = "Q2" \/ (State' = "off" /\ deadtime_count' = 0)
  BY <1>2, <1>8
<1>11. State' = "off" => rest' >= long \/ rest' >= deadtime_count'
  <2>1. CASE State = "off"
    <3>1. rest' >= long \/ rest' = rest + 1
      BY <1>4, <2>1
    <3>2. rest >= long \/ rest >= deadtime_count
      BY <1>6, <2>1
    <3>3. deadtime_count' = deadtime_count + 1 /\ long \in Nat
      BY <1>2, <1>3, <2>1
    <3> HIDE DEF long
    <3> QED BY <1>3, <3>1, <3>2, <3>3
  <2>2. CASE State # "off"
    <3>1. deadtime_count' = 0
      BY <1>2, <2>2
    <3> QED BY <1>3, <3>1
  <2> QED BY <2>1, <2>2
<1>12. pwm!Top' => last' = "top"
  BY <1>5
<1>13. pwm!Bottom' => last' = "bottom"
  BY <1>4, <1>5, <1>3
<1>14. owed' <= pwm!deadtime'
  <2>1. owed' = dead \/ owed' = owed
    BY <1>4, <1>5
  <2>2. owed <= dead /\ dead \in Nat
    BY <1>3, <1>6
  <2> HIDE DEF dead
  <2>3. owed' <= dead
    BY <1>3, <2>1, <2>2
  <2> QED BY <1>4, <2>3 DEF dead
(* From off, after the dead time. *)
<1>15. State = "off" /\ State' # "off" => rest' > owed'
  <2> SUFFICES ASSUME State = "off", State' # "off" PROVE rest' > owed'
    OBVIOUS
  <2>1. (rest' >= long \/ rest' = rest + 1) /\ owed' = owed
    BY <1>4
  <2>2. deadtime_count >= dead
    BY <1>8
  <2>3. rest >= long \/ rest >= deadtime_count
    BY <1>6
  <2>4. owed <= dead /\ dead < long /\ long \in Nat /\ dead \in Nat
    BY <1>3, <1>6
  <2> HIDE DEF long, dead
  <2> QED BY <1>3, <2>1, <2>2, <2>3, <2>4
<1>16. ~top /\ ~bottom /\ rest > owed => rest' > owed'
  <2> SUFFICES ASSUME ~top, ~bottom, rest > owed PROVE rest' > owed'
    OBVIOUS
  <2>1. (rest' >= long \/ rest' = rest + 1) /\ owed' = owed
    BY <1>4
  <2>2. owed < long /\ long \in Nat
    <3>1. owed <= dead /\ dead < long /\ long \in Nat /\ dead \in Nat
      BY <1>3, <1>6
    <3> HIDE DEF long, dead
    <3> QED BY <1>3, <3>1
  <2> HIDE DEF long
  <2> QED BY <1>3, <2>1, <2>2
<1>17. ~configured' /\ (State' = "Q1" \/ Q1') => After(TRUE)'
  <2> SUFFICES ASSUME ~configured', State' = "Q1" \/ Q1' PROVE After(TRUE)'
    OBVIOUS
  <2>1. CASE State = "off"
    BY <1>2, <1>15, <2>1 DEF After
  <2>2. CASE State = "Q1" /\ (top \/ bottom)
    <3>1. last' = IF rev_leg THEN "bottom" ELSE "top"
      BY <1>3, <1>4, <1>5, <2>2
    <3> QED BY <1>1, <1>3, <3>1 DEF After, Output
  <2>3. CASE State = "Q1" /\ ~top /\ ~bottom
    <3>1. After(TRUE)
      BY <1>1, <1>6, <2>3
    <3>2. last' = last /\ Output(TRUE)' = Output(TRUE)
      BY <1>1, <1>4, <2>3 DEF Output
    <3> QED BY <1>16, <2>3, <3>1, <3>2 DEF After
  <2> QED BY <1>2, <1>3, <1>8, <2>1, <2>2, <2>3
<1>18. ~configured' /\ (State' = "Q2" \/ Q2') => After(FALSE)'
  <2> SUFFICES ASSUME ~configured', State' = "Q2" \/ Q2' PROVE After(FALSE)'
    OBVIOUS
  <2>1. CASE State = "off"
    BY <1>2, <1>15, <2>1 DEF After
  <2>2. CASE State = "Q2" /\ (top \/ bottom)
    <3>1. last' = IF rev_leg THEN "top" ELSE "bottom"
      BY <1>3, <1>4, <1>5, <2>2
    <3> QED BY <1>1, <1>3, <3>1 DEF After, Output
  <2>3. CASE State = "Q2" /\ ~top /\ ~bottom
    <3>1. After(FALSE)
      BY <1>1, <1>6, <2>3
    <3>2. last' = last /\ Output(FALSE)' = Output(FALSE)
      BY <1>1, <1>4, <2>3 DEF Output
    <3> QED BY <1>16, <2>3, <3>1, <3>2 DEF After
  <2> QED BY <1>2, <1>3, <1>8, <2>1, <2>2, <2>3
<1> HIDE DEF top, bottom, dead
<1> QED BY <1>9, <1>10, <1>11, <1>12, <1>13, <1>14, <1>17, <1>18 DEF LegInv

(* A clock while PWM is on and ratios are taken over at the peaks and valleys. *)
LEMMA PeakClock ==
  ASSUME NEW m \in 1 .. CountWrap - 1, carrier_max = m, PwmTypes, FromThePeak, pwm_en, mode = {4},
         duty <= m, pwm!Clock
  PROVE  FromThePeak'
<1>1. /\ CountWrap \in Nat /\ m \in Nat /\ m >= 1 /\ m <= CountWrap - 1
      /\ count \in Nat /\ count <= CountWrap - 1 /\ D_L \in Nat /\ duty \in Nat /\ pulses \in Nat
      /\ dp \in BOOLEAN /\ So \in BOOLEAN
  BY Instances DEF PwmTypes
<1>2. carrier_max' = m
  BY DEF pwm!Clock, pwm!registers
<1>3. /\ D_L <= m /\ pulses <= 1
      /\ count > m => D_L = 0 /\ ~So /\ pulses = 0
      /\ count = m => (D_L = m /\ m >= 2 => So)
      /\ ~dp /\ count < m /\ pulses = 1 => So /\ (m = 1 \/ count < D_L)
      /\ dp /\ count < m /\ pulses = 1 => So \/ D_L <= count
      /\ dp /\ count = 0 => D_L = 0 /\ ~So /\ pulses = 0
  BY DEF FromThePeak
(* Up to the maximum, and down. *)
<1>4. /\ dp /\ count < m => dp'
      /\ dp /\ ~(count < m) => ~dp'
      /\ ~dp /\ count = 0 => dp'
      /\ ~dp /\ count # 0 => ~dp'
  <2>1. dp' = (dp # IF dp THEN count >= m ELSE count = 0)
    BY DEF pwm!Clock, pwm!Clocked, pwm!Counts, pwm!Turns
  <2> DEFINE below == count < m
  <2>2. count >= m <=> ~below
    BY <1>1
  <2> HIDE DEF below
  <2>3. /\ dp /\ below => dp'
        /\ dp /\ ~below => ~dp'
        /\ ~dp /\ count = 0 => dp'
        /\ ~dp /\ count # 0 => ~dp'
    BY <1>1, <2>1, <2>2
  <2> QED BY <2>3 DEF below
<1>5. (dp' => count' = count + 1) /\ (~dp' => count' = count - 1)
  <2> DEFINE next == IF dp' THEN count + 1 ELSE count - 1
  <2>1. count' = next % CountWrap
    BY DEF pwm!Clock, pwm!Clocked, pwm!Counts
  <2>2. next \in 0 .. CountWrap - 1
    BY <1>1, <1>4
  <2>3. CountWrap \in Nat \ {0}
    BY Instances
  <2> HIDE DEF next
  <2>4. next % CountWrap = next
    BY <2>2, <2>3, ModSmall
  <2> QED BY <2>1, <2>4 DEF next
<1>6. D_L' = IF count = 0 \/ count = m THEN duty ELSE D_L
  BY DEF pwm!Clock, pwm!Clocked, pwm!Latches, pwm!UpdateDutyRatios, pwm!carrier_low, pwm!carrier_high
<1>7. So' = (D_L # 0 /\ (D_L = m \/ count < D_L))
  BY DEF pwm!Clock, pwm!Clocked, pwm!Compares
<1>8. pulses' = LET before == IF count = m THEN 0 ELSE pulses
                IN  IF So' /\ ~So /\ before < 2 THEN before + 1 ELSE before
  BY DEF pwm!Clock, pwm!CountPulses, pwm!carrier_high
<1> DEFINE rises == So' /\ ~So
(* Off the range: down to it. *)
<1>10. CASE count > m
  <2>1. D_L' = 0 /\ ~So' /\ pulses' = 0
    BY <1>1, <1>3, <1>6, <1>7, <1>8, <1>10
  <2>2. dp' = FALSE /\ count' = count - 1
    BY <1>1, <1>4, <1>5, <1>10
  <2> QED BY <1>1, <1>2, <1>10, <2>1, <2>2 DEF FromThePeak
(* At the peak. *)
<1>11. CASE count = m
  <2>1. ~dp' /\ count' = m - 1
    BY <1>1, <1>4, <1>5, <1>11
  <2>2. D_L' = duty /\ (So' = (D_L = m))
    BY <1>1, <1>3, <1>6, <1>7, <1>11
  <2>3. pulses' = IF rises THEN 1 ELSE 0
    BY <1>8, <1>11
  <2>4. rises => m = 1
    BY <1>1, <1>3, <1>11, <2>2
  <2>5. pulses' = 1 => So' /\ m = 1
    BY <2>3, <2>4
  <2> HIDE DEF rises
  <2> QED BY <1>1, <1>2, <2>1, <2>2, <2>3, <2>5 DEF FromThePeak
(* Below it. *)
<1>12. ASSUME count < m PROVE FromThePeak'
  <2>1. pulses' = IF rises THEN pulses + 1 ELSE pulses
    BY <1>1, <1>3, <1>8, <1>12
  <2>2. So' = (count < D_L)
    BY <1>1, <1>7, <1>12
  <2>3. CASE ~dp /\ count # 0
    <3>1. ~dp' /\ count' = count - 1 /\ D_L' = D_L
      BY <1>1, <1>4, <1>5, <1>6, <1>12, <2>3
    <3>2. m # 1
      BY <1>1, <1>12, <2>3
    <3>3. pulses = 1 => ~rises /\ So' /\ count < D_L
      BY <1>3, <1>12, <2>2, <2>3, <3>2
    <3>4. pulses' <= 1 /\ (pulses' = 1 => So' /\ count < D_L)
      <4>1. CASE pulses = 1
        BY <2>1, <3>3, <4>1
      <4>2. CASE pulses = 0
        <5>1. So' => count < D_L
          BY <2>2
        <5>2. (rises => pulses' = 1 /\ So') /\ (~rises => pulses' = 0)
          BY <2>1, <4>2
        <5> HIDE DEF rises
        <5> QED BY <5>1, <5>2
      <4> QED BY <1>1, <1>3, <4>1, <4>2
    <3> QED BY <1>1, <1>2, <1>3, <1>12, <3>1, <3>4 DEF FromThePeak
  <2>4. CASE ~dp /\ count = 0
    <3>1. dp' /\ count' = 1 /\ D_L' = duty
      BY <1>1, <1>4, <1>5, <1>6, <2>4
    <3>2. pulses = 1 => So /\ (m = 1 \/ So')
      BY <1>3, <1>12, <2>2, <2>4
    <3>3. pulses' <= 1 /\ (pulses' = 1 => m = 1 \/ So')
      <4>1. CASE pulses = 1
        BY <2>1, <3>2, <4>1
      <4>2. CASE pulses = 0
        BY <2>1, <4>2
      <4> QED BY <1>1, <1>3, <4>1, <4>2
    <3>4. count' = m => ~(duty = m /\ m >= 2)
      BY <1>1, <3>1
    <3> QED BY <1>1, <1>2, <3>1, <3>3, <3>4 DEF FromThePeak
  <2>5. CASE dp /\ count # 0
    <3>1. dp' /\ count' = count + 1 /\ D_L' = D_L
      BY <1>1, <1>4, <1>5, <1>6, <1>12, <2>5
    <3>2. pulses = 1 => ~rises
      BY <1>1, <1>3, <1>12, <2>2, <2>5
    <3>3. pulses' <= 1 /\ (pulses' = 1 => So' \/ D_L' <= count')
      <4>1. CASE pulses = 1
        <5>1. pulses' = 1
          BY <2>1, <3>2, <4>1
        <5>2. ~So' => D_L <= count
          <6>1. ~So' => ~(count < D_L)
            BY <2>2
          <6>2. ~(count < D_L) => D_L <= count
            BY <1>1
          <6> QED BY <6>1, <6>2
        <5> HIDE DEF rises
        <5> QED BY <1>1, <3>1, <5>1, <5>2
      <4>2. CASE pulses = 0
        BY <2>1, <4>2
      <4> QED BY <1>1, <1>3, <4>1, <4>2
    <3>4. count' = m => (D_L' = m => So')
      BY <1>1, <1>12, <2>2, <3>1
    <3> QED BY <1>1, <1>2, <1>3, <1>12, <3>1, <3>3, <3>4 DEF FromThePeak
  <2>6. CASE dp /\ count = 0
    <3>1. dp' /\ count' = 1 /\ D_L' = duty /\ ~So' /\ pulses' = 0
      BY <1>1, <1>3, <1>4, <1>5, <1>6, <1>12, <2>1, <2>2, <2>6
    <3> QED BY <1>1, <1>2, <3>1 DEF FromThePeak
  <2> QED BY <1>1, <2>3, <2>4, <2>5, <2>6
<1> QED BY <1>1, <1>10, <1>11, <1>12

LEMMA ClockPulse ==
  ASSUME PwmInv, pwm!Clock PROVE PulseInv'
<1>1. UNCHANGED <<carrier_max, duty, pwm_en, mode, todo>>
  BY DEF pwm!Clock, pwm!registers
<1>2. On' = On /\ Off' = Off /\ Starting' = Starting /\ PinOn' = PinOn /\ Stopping' = Stopping
  BY ClockCalls
<1>3. CASE pwm_en
  <2>1. On /\ carrier_max \in Maxes
    BY <1>3, OnIsPlanned DEF PwmInv, CallInv, Stopping, Off, Starting, PinOn
  <2>2. duty <= carrier_max /\ D_L <= carrier_max
    BY <1>3 DEF PwmInv, PulseInv
  <2>3. D_L' <= carrier_max'
    BY <1>1, <1>3, <2>2 DEF pwm!Clock, pwm!Clocked, pwm!Latches
  <2>4. mode = {4} => FromThePeak'
    <3> DEFINE m == carrier_max
    <3>1. m \in 1 .. CountWrap - 1
      BY <2>1, Instances
    <3>2. carrier_max = m /\ duty <= m
      BY <2>2
    <3> HIDE DEF m
    <3> QED BY <1>3, <3>1, <3>2, PeakClock DEF PwmInv, PulseInv
  <2>5. ~(Off \/ Starting \/ PinOn \/ Stopping)
    BY <1>3 DEF Off, Starting, PinOn, Stopping
  <2> QED BY <1>1, <1>2, <2>2, <2>3, <2>4, <2>5 DEF PulseInv
<1>4. CASE ~pwm_en
  <2>1. D_L' = 0 /\ pulses' = 0
    BY <1>4 DEF pwm!Clock, pwm!Clocked, pwm!Latches, pwm!CountPulses
  <2>2. So' => D_L # 0
    BY DEF pwm!Clock, pwm!Clocked, pwm!Compares
  <2>3. /\ Off \/ Starting => ~So'
        /\ PinOn => ~So'
    BY <2>2 DEF PwmInv, PulseInv, AtRest
  <2> QED BY <1>1, <1>2, <1>4, <2>1, <2>3 DEF PulseInv, AtRest
<1> QED BY <1>3, <1>4

LEMMA PwmClockInv ==
  ASSUME PwmInv, pwm!Clock PROVE PwmInv'
BY ClockTypes, ClockCalls, ClockRest, ClockLeg, ClockPulse DEF PwmInv

LEMMA OneWrite ==
  \A r, v : Head(<<<<r, v>>>>)[1] = r /\ Head(<<<<r, v>>>>)[2] = v /\ Tail(<<<<r, v>>>>) = <<>>
<1> SUFFICES ASSUME NEW r, NEW v
             PROVE  Head(<<<<r, v>>>>)[1] = r /\ Head(<<<<r, v>>>>)[2] = v /\ Tail(<<<<r, v>>>>) = <<>>
  OBVIOUS
<1> DEFINE w == <<r, v>>
<1>1. w[1] = r /\ w[2] = v
  OBVIOUS
<1> HIDE DEF w
<1>2. Head(<<w>>) = w /\ Tail(<<w>>) = <<>>
  OBVIOUS
<1> QED BY <1>1, <1>2 DEF w

LEMMA TwoWrites ==
  \A r, v, z : /\ Head(<<<<r, v>>, z>>)[1] = r /\ Head(<<<<r, v>>, z>>)[2] = v
              /\ Tail(<<<<r, v>>, z>>) = <<z>>
<1> SUFFICES ASSUME NEW r, NEW v, NEW z
             PROVE  /\ Head(<<<<r, v>>, z>>)[1] = r /\ Head(<<<<r, v>>, z>>)[2] = v
                    /\ Tail(<<<<r, v>>, z>>) = <<z>>
  OBVIOUS
<1> DEFINE w == <<r, v>>
<1>1. w[1] = r /\ w[2] = v
  OBVIOUS
<1> HIDE DEF w
<1>2. Head(<<w, z>>) = w /\ Tail(<<w, z>>) = <<z>>
  OBVIOUS
<1> QED BY <1>1, <1>2 DEF w

(***************************************************************************)
(* A write over the bus, by the phase of the call it belongs to.           *)
(***************************************************************************)
LEMMA WriteIs ==
  ASSUME pwm!Write
  PROVE  /\ todo # <<>> /\ bus = BusGap /\ bus' = 0 /\ todo' = Tail(todo)
         /\ UNCHANGED <<count, dp, D_L, So, State, deadtime_count, Q1, Q2, pulses>>
         /\ last' = IF pwm!Top' THEN "top" ELSE IF pwm!Bottom' THEN "bottom" ELSE last
         /\ rest' = IF pwm!Top' \/ pwm!Bottom' THEN 0 ELSE IF rest >= Slice THEN rest ELSE rest + 0
         /\ owed' = IF pwm!Top' \/ pwm!Bottom' \/ pwm!deadtime' < owed THEN pwm!deadtime' ELSE owed
BY DEF pwm!Write, pwm!Watch, pwm!carrier, pwm!leg

(* What a write changes. *)
Wrote(reg, value) ==
  /\ carrier_max' = IF reg = "max" THEN value ELSE carrier_max
  /\ slv_deadtime' = IF reg = "deadtime" THEN value ELSE slv_deadtime
  /\ duty' = IF reg = "duty" THEN value ELSE duty
  /\ pwm_en' = IF reg = "enable" THEN value ELSE pwm_en
  /\ mode' = IF reg = "mode_set" THEN mode \union value
             ELSE IF reg = "mode_clear" THEN mode \ value ELSE mode
  /\ en_leg' = IF reg = "leg_enabled" THEN value ELSE en_leg
  /\ rev_leg' = IF reg = "leg_reversed" THEN value ELSE rev_leg
  /\ PS_DRIVE_EN' = IF reg = "pin" THEN value ELSE PS_DRIVE_EN
  /\ slice' = IF reg = "enable" THEN IF value THEN 0 ELSE Slice ELSE slice
  /\ configured' = (configured /\ reg # "enable")

LEMMA WroteHead == ASSUME pwm!Write PROVE Wrote(Head(todo)[1], Head(todo)[2])
BY DEF pwm!Write, pwm!Is, pwm!Value, Wrote

Others == <<carrier_max, slv_deadtime, duty, mode, en_leg, rev_leg>>
LEMMA WritePhases ==
  ASSUME PwmInv, pwm!Write
  PROVE  \/ On /\ Stopping' /\ ~configured' /\ slice' = Slice /\ UNCHANGED Others
         \/ On /\ On' /\ ~configured' /\ todo' = <<>> /\ duty' \in Nat /\ duty' <= carrier_max
              /\ UNCHANGED <<carrier_max, slv_deadtime, mode, en_leg, rev_leg>>
         \/ Stopping /\ Off' /\ todo' = <<>> /\ UNCHANGED <<slice, configured>> /\ UNCHANGED Others
         \/ Off /\ Off' /\ Head(todo) \in ConfigWrites /\ UNCHANGED <<slice, configured>>
              /\ (~configured => todo' = <<>> /\ UNCHANGED <<slv_deadtime, rev_leg>>)
         \/ Starting /\ PinOn' /\ UNCHANGED <<slice, configured>> /\ UNCHANGED Others
         \/ PinOn /\ On' /\ ~configured' /\ todo' = <<>> /\ UNCHANGED Others
<1>1. /\ todo # <<>> /\ todo' = Tail(todo) /\ Wrote(Head(todo)[1], Head(todo)[2])
  BY WriteIs, WroteHead
<1>2. CASE On /\ todo = PulsesOff
  <2>1. Head(todo)[1] = "enable" /\ Head(todo)[2] = FALSE /\ Tail(todo) = <<<<"pin", FALSE>>>>
    BY <1>2, TwoWrites, Zenon DEF PulsesOff
  <2>2. pwm_en' = FALSE /\ PS_DRIVE_EN' = PS_DRIVE_EN /\ ~configured' /\ slice' = Slice /\ UNCHANGED Others
    BY <1>1, <2>1 DEF Wrote, Others
  <2> QED BY <1>1, <1>2, <2>1, <2>2 DEF On, Stopping
<1>3. ASSUME NEW v \in Nat, On, todo = <<<<"duty", v>>>>
      PROVE  On /\ On' /\ ~configured' /\ todo' = <<>> /\ duty' \in Nat /\ duty' <= carrier_max
              /\ UNCHANGED <<carrier_max, slv_deadtime, mode, en_leg, rev_leg>>
  <2>1. Head(todo)[1] = "duty" /\ Head(todo)[2] = v /\ Tail(todo) = <<>>
    BY <1>3
  <2>2. duty' = v /\ UNCHANGED <<carrier_max, slv_deadtime, mode, en_leg, rev_leg, pwm_en, PS_DRIVE_EN>>
    BY <1>1, <2>1 DEF Wrote
  <2>4. ~configured'
    BY <1>1, <1>3 DEF Wrote, On, PwmInv, CallInv
  <2>3. v <= carrier_max
    <3>1. PICK max \in Maxes : Plans(todo, max, carrier_max, duty)
      BY DEF PwmInv, CallInv
    <3>2. Len(todo) = 1 /\ todo[1] = <<"duty", v>>
      BY <1>3
    <3>3. ~Asks(todo, "max")
      BY <1>3, ShortAsks
    <3>4. carrier_max = max /\ v \in 0 .. max
      BY <3>1, <3>2, <3>3 DEF Plans
    <3>5. max \in Nat
      BY Instances
    <3> QED BY <3>4, <3>5
  <2> QED BY <1>1, <1>3, <2>1, <2>2, <2>3, <2>4 DEF On
<1>4. CASE Stopping
  <2>1. Head(todo)[1] = "pin" /\ Head(todo)[2] = FALSE /\ Tail(todo) = <<>>
    BY <1>4, OneWrite, Zenon DEF Stopping
  <2>2. PS_DRIVE_EN' = FALSE /\ pwm_en' = pwm_en /\ UNCHANGED Others
    BY <1>1, <2>1 DEF Wrote, Others
  <2>3. todo' \in Seq(ConfigWrites) /\ ~pwm_en' /\ ~PS_DRIVE_EN' /\ todo' = <<>>
    BY <1>1, <1>4, <2>1, <2>2 DEF Stopping
  <2>4. UNCHANGED <<slice, configured>>
    BY <1>1, <2>1 DEF Wrote, PwmInv, PwmTypes
  <2> QED BY <1>4, <2>2, <2>3, <2>4 DEF Off
<1>5. CASE Off
  <2>1. todo \in Seq(ConfigWrites) /\ Head(todo) \in ConfigWrites /\ Tail(todo) \in Seq(ConfigWrites)
    BY <1>1, <1>5 DEF Off
  <2>2. Head(todo)[1] # "pin" /\ Head(todo)[1] # "enable"
    BY <2>1 DEF ConfigWrites
  <2>3. UNCHANGED <<pwm_en, PS_DRIVE_EN>>
    BY <1>1, <2>2 DEF Wrote
  <2>4. UNCHANGED <<slice, configured>>
    BY <1>1, <2>2 DEF Wrote, PwmInv, PwmTypes
  <2>5. ASSUME ~configured PROVE todo' = <<>> /\ UNCHANGED <<slv_deadtime, rev_leg>>
    <3>1. PICK v \in Nat : todo = <<<<"duty", v>>>>
      BY <1>1, <1>5, <2>5 DEF PwmInv, CallInv, OneRatio
    <3>2. Head(todo)[1] = "duty" /\ Tail(todo) = <<>>
      BY <3>1
    <3> QED BY <1>1, <3>2 DEF Wrote
  <2> QED BY <1>1, <1>5, <2>1, <2>3, <2>4, <2>5 DEF Off
<1>6. CASE Starting
  <2>1. Head(todo)[1] = "pin" /\ Head(todo)[2] = TRUE /\ Tail(todo) = <<<<"enable", TRUE>>>>
    BY <1>6, TwoWrites, Zenon DEF Starting, PulsesOn
  <2>2. PS_DRIVE_EN' = TRUE /\ pwm_en' = pwm_en /\ UNCHANGED Others
    BY <1>1, <2>1 DEF Wrote, Others
  <2>3. UNCHANGED <<slice, configured>>
    BY <1>1, <2>1 DEF Wrote, PwmInv, PwmTypes
  <2> QED BY <1>1, <1>6, <2>1, <2>2, <2>3 DEF Starting, PinOn
<1>7. CASE PinOn
  <2>1. Head(todo)[1] = "enable" /\ Head(todo)[2] = TRUE /\ Tail(todo) = <<>>
    BY <1>7, OneWrite, Zenon DEF PinOn
  <2>2. pwm_en' = TRUE /\ PS_DRIVE_EN' = PS_DRIVE_EN /\ ~configured' /\ UNCHANGED Others
    BY <1>1, <2>1 DEF Wrote, Others
  <2> QED BY <1>1, <1>7, <2>1, <2>2 DEF PinOn, On
<1>8. On => todo = PulsesOff \/ \E v \in Nat : todo = <<<<"duty", v>>>>
  BY <1>1 DEF On
<1> QED BY <1>2, <1>3, <1>4, <1>5, <1>6, <1>7, <1>8 DEF PwmInv, CallInv

AllWrites == ConfigWrites \cup ({"enable", "pin"} \X BOOLEAN)
LEMMA TodoIsWrites == CallInv => todo \in Seq(AllWrites)
<1> SUFFICES ASSUME CallInv PROVE todo \in Seq(AllWrites)
  OBVIOUS
<1>1. ASSUME NEW reg \in {"enable", "pin"}, NEW v \in BOOLEAN PROVE <<reg, v>> \in AllWrites
  BY DEF AllWrites
<1>2. ASSUME NEW v \in Nat PROVE <<"duty", v>> \in AllWrites
  BY DEF AllWrites, ConfigWrites
<1>3. CASE On
  <2>1. CASE todo = PulsesOff
    <3> DEFINE w == <<"enable", FALSE>>
               z == <<"pin", FALSE>>
    <3>1. w \in AllWrites /\ z \in AllWrites
      BY <1>1
    <3> HIDE DEF w, z
    <3>2. <<w, z>> \in Seq(AllWrites)
      BY <3>1
    <3> QED BY <2>1, <3>2 DEF PulsesOff, w, z
  <2>2. ASSUME NEW v \in Nat, todo = <<<<"duty", v>>>> PROVE todo \in Seq(AllWrites)
    <3> DEFINE w == <<"duty", v>>
    <3>1. w \in AllWrites
      BY <1>2
    <3> HIDE DEF w
    <3>2. <<w>> \in Seq(AllWrites)
      BY <3>1
    <3> QED BY <2>2, <3>2 DEF w
  <2>3. CASE todo = <<>>
    BY <2>3
  <2> QED BY <1>3, <2>1, <2>2, <2>3 DEF On
<1>4. CASE Stopping
  <2> DEFINE w == <<"pin", FALSE>>
  <2>1. w \in AllWrites
    BY <1>1
  <2> HIDE DEF w
  <2>2. <<w>> \in Seq(AllWrites)
    BY <2>1
  <2> QED BY <1>4, <2>2 DEF Stopping, w
<1>5. CASE Off
  BY <1>5 DEF Off, AllWrites
<1>6. CASE Starting
  <2> DEFINE w == <<"pin", TRUE>>
             z == <<"enable", TRUE>>
  <2>1. w \in AllWrites /\ z \in AllWrites
    BY <1>1
  <2> HIDE DEF w, z
  <2>2. <<w, z>> \in Seq(AllWrites)
    BY <2>1
  <2> QED BY <1>6, <2>2 DEF Starting, PulsesOn, w, z
<1>7. CASE PinOn
  <2> DEFINE w == <<"enable", TRUE>>
  <2>1. w \in AllWrites
    BY <1>1
  <2> HIDE DEF w
  <2>2. <<w>> \in Seq(AllWrites)
    BY <2>1
  <2> QED BY <1>7, <2>2 DEF PinOn, w
<1> QED BY <1>3, <1>4, <1>5, <1>6, <1>7 DEF CallInv

LEMMA WritePlans ==
  ASSUME CallInv, pwm!Write PROVE \E max \in Maxes : Plans(todo, max, carrier_max, duty)'
<1>1. PICK max \in Maxes : Plans(todo, max, carrier_max, duty)
  BY DEF CallInv
<1>2. todo \in Seq(AllWrites) /\ todo # <<>> /\ todo' = Tail(todo)
  BY TodoIsWrites, WriteIs
<1>3. /\ Len(todo) \in Nat \ {0} /\ Len(todo') = Len(todo) - 1
      /\ \A i \in 1 .. Len(todo') : todo'[i] = todo[i + 1] /\ i + 1 \in 1 .. Len(todo)
      /\ Head(todo) = todo[1]
  BY <1>2
<1>4. ASSUME NEW reg, Asks(todo, reg), Head(todo)[1] # reg PROVE Asks(todo', reg)
  <2>1. PICK i \in 1 .. Len(todo) : todo[i][1] = reg
    BY <1>4 DEF Asks
  <2>2. i # 1
    BY <1>3, <1>4, <2>1
  <2> DEFINE j == i - 1
  <2>3. j \in 1 .. Len(todo') /\ j + 1 = i
    BY <1>3, <2>2
  <2>4. todo'[j] = todo[i]
    BY <1>3, <2>3
  <2> HIDE DEF j
  <2> QED BY <2>1, <2>3, <2>4 DEF Asks
<1>5. Wrote(Head(todo)[1], Head(todo)[2])
  BY WroteHead
<1>6. \A i \in 1 .. Len(todo) : todo[i][1] = "max" => todo[i][2] = max /\ i + 1 \in 1 .. Len(todo) /\ todo[i + 1][1] = "duty"
  BY <1>1 DEF Plans
<1>7. \A i \in 1 .. Len(todo') : todo'[i][1] = "max" => todo'[i][2] = max /\ i + 1 \in 1 .. Len(todo') /\ todo'[i + 1][1] = "duty"
  <2> SUFFICES ASSUME NEW i \in 1 .. Len(todo'), todo'[i][1] = "max"
               PROVE  todo'[i][2] = max /\ i + 1 \in 1 .. Len(todo') /\ todo'[i + 1][1] = "duty"
    OBVIOUS
  <2> DEFINE j == i + 1
  <2>1. j \in 1 .. Len(todo) /\ todo'[i] = todo[j]
    BY <1>3
  <2>2. todo[j][2] = max /\ j + 1 \in 1 .. Len(todo) /\ todo[j + 1][1] = "duty"
    BY <1>6, <2>1
  <2>3. j \in 1 .. Len(todo')
    BY <1>3, <2>1, <2>2
  <2>4. todo'[j] = todo[j + 1]
    BY <1>3, <2>3
  <2> HIDE DEF j
  <2>5. todo'[i][2] = max /\ j \in 1 .. Len(todo') /\ todo'[j][1] = "duty"
    BY <2>1, <2>2, <2>3, <2>4
  <2> QED BY <2>5 DEF j
<1>8. \A i \in 1 .. Len(todo') : todo'[i][1] = "duty" => todo'[i][2] \in 0 .. max
  BY <1>1, <1>3 DEF Plans
<1>9. Asks(todo', "max") \/ carrier_max' = max
  <2>1. CASE Head(todo)[1] = "max"
    <3>1. 1 \in 1 .. Len(todo)
      BY <1>3
    <3>2. Head(todo)[2] = max
      BY <1>3, <1>6, <2>1, <3>1
    <3> QED BY <1>5, <2>1, <3>2 DEF Wrote
  <2>2. CASE Head(todo)[1] # "max"
    <3>1. carrier_max' = carrier_max
      BY <1>5, <2>2 DEF Wrote
    <3> QED BY <1>1, <1>4, <2>2, <3>1 DEF Plans
  <2> QED BY <2>1, <2>2
<1>10. Asks(todo', "duty") \/ duty' \in 0 .. max
  <2>1. CASE Head(todo)[1] = "duty"
    <3>1. 1 \in 1 .. Len(todo)
      BY <1>3
    <3>2. Head(todo)[2] \in 0 .. max
      BY <1>1, <1>3, <2>1, <3>1 DEF Plans
    <3> QED BY <1>5, <2>1, <3>2 DEF Wrote
  <2>2. CASE Head(todo)[1] # "duty"
    <3>1. duty' = duty
      BY <1>5, <2>2 DEF Wrote
    <3> QED BY <1>1, <1>4, <2>2, <3>1 DEF Plans
  <2> QED BY <2>1, <2>2
<1>11. Plans(todo, max, carrier_max, duty)'
  BY <1>7, <1>8, <1>9, <1>10 DEF Plans
<1> QED BY <1>11

LEMMA WriteCalls == ASSUME PwmInv, pwm!Write PROVE CallInv'
<1>1. \E max \in Maxes : Plans(todo, max, carrier_max, duty)'
  BY WritePlans DEF PwmInv
<1>0. /\ Stopping' \/ Off' \/ PinOn' => ~pwm_en'
      /\ On' => pwm_en'
      /\ Off' => ~Stopping' /\ ~PinOn'
  BY DEF On, Off, Stopping, PinOn
<1>2. pwm_en' => ~configured'
  BY <1>0, WritePhases
<1>3. Off' /\ ~configured' => todo' = <<>>
  BY <1>0, WritePhases
<1>4. On' \/ Stopping' \/ Off' \/ Starting' \/ PinOn'
  BY WritePhases
<1> QED BY <1>1, <1>2, <1>3, <1>4 DEF CallInv, OneRatio

LEMMA WriteTypes ==
  ASSUME PwmInv, pwm!Write
  PROVE  PwmTypes' /\ slv_deadtime' \in Deadtimes \cup {0}
<1>1. /\ todo # <<>> /\ bus = BusGap /\ bus' = 0 /\ todo' = Tail(todo)
      /\ UNCHANGED <<count, dp, D_L, So, State, deadtime_count, Q1, Q2, pulses>>
      /\ last' = IF pwm!Top' THEN "top" ELSE IF pwm!Bottom' THEN "bottom" ELSE last
      /\ rest' = IF pwm!Top' \/ pwm!Bottom' THEN 0 ELSE IF rest >= Slice THEN rest ELSE rest + 0
      /\ owed' = IF pwm!Top' \/ pwm!Bottom' \/ pwm!deadtime' < owed THEN pwm!deadtime' ELSE owed
  BY WriteIs
<1>2. Head(todo) \in AllWrites
  BY <1>1, TodoIsWrites DEF PwmInv
<1>3. Wrote(Head(todo)[1], Head(todo)[2])
  BY WroteHead
<1>4. /\ carrier_max' \in Maxes \cup {0} /\ slv_deadtime' \in Deadtimes \cup {0} /\ duty' \in Nat
      /\ pwm_en' \in BOOLEAN /\ en_leg' \in BOOLEAN /\ rev_leg' \in BOOLEAN /\ PS_DRIVE_EN' \in BOOLEAN
  <2>1. PwmTypes
    BY DEF PwmInv
  <2>2. carrier_max' \in Maxes \cup {0}
    BY <1>2, <1>3, <2>1 DEF Wrote, AllWrites, ConfigWrites, PwmTypes
  <2>3. slv_deadtime' \in Deadtimes \cup {0}
    BY <1>2, <1>3, <2>1 DEF Wrote, AllWrites, ConfigWrites, PwmTypes
  <2>4. duty' \in Nat
    BY <1>2, <1>3, <2>1 DEF Wrote, AllWrites, ConfigWrites, PwmTypes
  <2>5. pwm_en' \in BOOLEAN /\ PS_DRIVE_EN' \in BOOLEAN
    BY <1>2, <1>3, <2>1 DEF Wrote, AllWrites, ConfigWrites, PwmTypes
  <2>6. en_leg' \in BOOLEAN /\ rev_leg' \in BOOLEAN
    BY <1>2, <1>3, <2>1 DEF Wrote, AllWrites, ConfigWrites, PwmTypes
  <2> QED BY <2>2, <2>3, <2>4, <2>5, <2>6
<1>5. pwm!deadtime' \in Nat
  <2>1. \A d \in Deadtimes : d \in Nat
    BY Instances
  <2> QED BY <1>4, <2>1, Instances DEF pwm!deadtime
<1>6. rest' \in Nat /\ last' \in {"none", "top", "bottom"} /\ owed' \in Nat
  <2>1. rest \in Nat /\ last \in {"none", "top", "bottom"} /\ owed \in Nat
    BY DEF PwmInv, PwmTypes
  <2> HIDE DEF pwm!Top, pwm!Bottom, pwm!deadtime
  <2> QED BY <1>1, <1>5, <2>1
<1>7. bus' \in 0 .. BusGap
  BY <1>1, Instances
<1>8. slice' \in 0 .. Slice /\ configured' \in BOOLEAN
  BY <1>3, Instances DEF Wrote, PwmInv, PwmTypes
<1> QED BY <1>1, <1>4, <1>6, <1>7, <1>8 DEF PwmInv, PwmTypes

(* The outputs follow PWM and the configuration. *)
LEMMA OutputsAre ==
  /\ pwm!Top = (pwm_en /\ en_leg /\ IF rev_leg THEN Q2 ELSE Q1)
  /\ pwm!Bottom = (pwm_en /\ en_leg /\ IF rev_leg THEN Q1 ELSE Q2)
BY DEF pwm!Top, pwm!Bottom, pwm!Switches

LEMMA OnIsNoConfig == PulsesOn \notin Seq(ConfigWrites)
<1> DEFINE w == <<"pin", TRUE>>
           z == <<"enable", TRUE>>
<1>1. w[1] = "pin"
  OBVIOUS
<1> HIDE DEF w, z
<1>2. w \notin ConfigWrites
  BY <1>1 DEF ConfigWrites
<1>3. 1 \in 1 .. Len(<<w, z>>) /\ <<w, z>>[1] = w
  OBVIOUS
<1>4. <<w, z>> \notin Seq(ConfigWrites)
  BY <1>2, <1>3, ElementOfSeq
<1> QED BY <1>4 DEF PulsesOn, w, z

LEMMA WriteRest ==
  ASSUME PwmInv, pwm!Write PROVE RestInv'
<1>1. rest \in Nat /\ rest' \in Nat /\ Slice \in Nat
  BY WriteTypes, Instances DEF PwmInv, PwmTypes
<1>2. ASSUME ~pwm_en' PROVE last' = last /\ rest' = rest
  <2>1. ~pwm!Top' /\ ~pwm!Bottom'
    BY <1>2 DEF pwm!Top, pwm!Bottom, pwm!Switches
  <2> HIDE DEF pwm!Top, pwm!Bottom
  <2>2. last' = last /\ rest' = IF rest >= Slice THEN rest ELSE rest + 0
    BY <2>1, WriteIs
  <2> QED BY <1>1, <2>2
(* At the write that turns PWM off a slice begins. *)
<1>3. CASE On /\ Stopping' /\ slice' = Slice
  <2>1. ~Starting' /\ ~PinOn'
    BY <1>3 DEF Stopping, Starting, PinOn
  <2>2. rest' + slice' >= Slice
    BY <1>1, <1>3, Enough
  <2> QED BY <2>1, <2>2 DEF RestInv
<1>4. CASE (Stopping \/ Off) /\ Off' /\ UNCHANGED <<slice, configured>>
  <2>1. ~pwm_en' /\ ~Starting' /\ ~PinOn'
    BY <1>4, OnIsNoConfig DEF Off, Starting, PinOn
  <2>2. last' = "none" \/ rest' + slice' >= Slice
    BY <1>2, <1>4, <2>1 DEF PwmInv, RestInv
  <2> QED BY <2>1, <2>2 DEF RestInv
<1>5. CASE Starting /\ PinOn' /\ UNCHANGED <<slice, configured>>
  BY <1>2, <1>5 DEF PwmInv, RestInv, Off, Stopping, PinOn
<1>6. CASE On'
  BY <1>6 DEF RestInv, On, Stopping, Off, Starting, PinOn
<1> QED BY <1>3, <1>4, <1>5, <1>6, WritePhases

LEMMA WriteLeg ==
  ASSUME PwmInv, pwm!Write
  PROVE  /\ LegInv'
         /\ pwm!Top' /\ last = "bottom" => rest > owed
         /\ pwm!Bottom' /\ last = "top" => rest > owed
<1>1. /\ bus = BusGap
      /\ UNCHANGED <<count, dp, D_L, So, State, deadtime_count, Q1, Q2, pulses>>
      /\ last' = IF pwm!Top' THEN "top" ELSE IF pwm!Bottom' THEN "bottom" ELSE last
      /\ rest' = IF pwm!Top' \/ pwm!Bottom' THEN 0 ELSE IF rest >= Slice THEN rest ELSE rest + 0
      /\ owed' = IF pwm!Top' \/ pwm!Bottom' \/ pwm!deadtime' < owed THEN pwm!deadtime' ELSE owed
  BY WriteIs
<1>2. /\ pwm!Top' = (pwm_en' /\ en_leg' /\ IF rev_leg' THEN Q2' ELSE Q1')
      /\ pwm!Bottom' = (pwm_en' /\ en_leg' /\ IF rev_leg' THEN Q1' ELSE Q2')
      /\ pwm!Top = (pwm_en /\ en_leg /\ IF rev_leg THEN Q2 ELSE Q1)
      /\ pwm!Bottom = (pwm_en /\ en_leg /\ IF rev_leg THEN Q1 ELSE Q2)
  BY OutputsAre DEF pwm!Top, pwm!Bottom, pwm!Switches
<1>3. LegInv /\ State \in {"off", "Q1", "Q2"} /\ rev_leg \in BOOLEAN /\ rev_leg' \in BOOLEAN
  BY WriteTypes DEF PwmInv, PwmTypes
<1>4. /\ rest \in Nat /\ rest' \in Nat /\ owed \in Nat /\ owed' \in Nat /\ deadtime_count \in Nat
      /\ Slice \in Nat /\ pwm!deadtime \in Nat /\ pwm!deadtime < Slice
  BY DeadtimeIs, WriteTypes, Instances DEF PwmInv, PwmTypes
<1>5. pwm!deadtime' \in Nat
  <2>1. slv_deadtime' \in Deadtimes \cup {0}
    BY WriteTypes
  <2>2. \A d \in Deadtimes : d \in Nat
    BY Instances
  <2> QED BY <2>1, <2>2, Instances DEF pwm!deadtime
<1>7. rest >= Slice => rest > owed
  <2>1. owed <= pwm!deadtime
    BY <1>3 DEF LegInv
  <2> DEFINE long == Slice
             dead == pwm!deadtime
  <2>2. owed <= dead /\ dead < long /\ long \in Nat /\ dead \in Nat
    BY <1>4, <2>1
  <2> HIDE DEF long, dead
  <2>3. rest >= long => rest > owed
    BY <1>4, <2>2
  <2> QED BY <2>3 DEF long
<1>8. ~(Q1' /\ Q2') /\ (Q1' => State' = "Q1" \/ (State' = "off" /\ deadtime_count' = 0))
      /\ (Q2' => State' = "Q2" \/ (State' = "off" /\ deadtime_count' = 0))
  BY <1>1, <1>3 DEF LegInv
<1>9. pwm!Top' \/ pwm!Bottom' => State' # "off" \/ deadtime_count' = 0
  BY <1>2, <1>8
<1>10. State' = "off" => rest' >= Slice \/ rest' >= deadtime_count'
  <2> SUFFICES ASSUME State' = "off" PROVE rest' >= Slice \/ rest' >= deadtime_count'
    OBVIOUS
  <2>1. CASE pwm!Top' \/ pwm!Bottom'
    <3>1. deadtime_count' = 0
      BY <1>9, <2>1
    <3> QED BY <1>4, <3>1
  <2>2. CASE ~(pwm!Top' \/ pwm!Bottom')
    <3>1. rest' = IF rest >= Slice THEN rest ELSE rest + 0
      BY <1>1, <2>2, Zenon
    <3>2. rest' = rest
      BY <1>4, <3>1
    <3>3. rest >= Slice \/ rest >= deadtime_count
      BY <1>1, <1>3 DEF LegInv
    <3> QED BY <1>1, <3>2, <3>3
  <2> QED BY <2>1, <2>2
<1>11. /\ pwm!Top' => last' = "top"
       /\ pwm!Bottom' => last' = "bottom"
  <2>1. ~(pwm!Top' /\ pwm!Bottom')
    BY <1>2, <1>3, <1>8
  <2> QED BY <1>1, <2>1, Zenon
<1>12. owed' <= pwm!deadtime'
  <2> DEFINE dead == pwm!deadtime'
             on == pwm!Top' \/ pwm!Bottom'
  <2>1. dead \in Nat /\ owed' = IF on \/ dead < owed THEN dead ELSE owed
    BY <1>1, <1>5
  <2> HIDE DEF dead, on
  <2>2. owed' <= dead
    BY <1>4, <2>1
  <2> QED BY <2>2 DEF dead
<1>13. ASSUME ~(pwm!Top' \/ pwm!Bottom') PROVE last' = last /\ rest' = rest /\ owed' <= owed
  <2>1. last' = last
    BY <1>1, <1>13, Zenon
  <2>2. rest' = IF rest >= Slice THEN rest ELSE rest + 0
    BY <1>1, <1>13, Zenon
  <2>3. owed' = IF pwm!deadtime' < owed THEN pwm!deadtime' ELSE owed
    BY <1>1, <1>13, Zenon
  <2>4. owed' <= owed
    <3> DEFINE dead == pwm!deadtime'
    <3>1. dead \in Nat /\ owed' = IF dead < owed THEN dead ELSE owed
      BY <1>5, <2>3
    <3> HIDE DEF dead
    <3> QED BY <1>4, <3>1
  <2> QED BY <1>4, <2>1, <2>2, <2>4
(* A leg that is not turned around stays the one it was. *)
<1>14. ASSUME NEW top \in BOOLEAN, After(top), IF top THEN State = "Q1" \/ Q1 ELSE State = "Q2" \/ Q2,
              rev_leg' = rev_leg
       PROVE  After(top)'
  <2>1. CASE ~(pwm!Top' \/ pwm!Bottom')
    <3>1. last' = last /\ rest' = rest /\ owed' <= owed
      BY <1>13, <2>1
    <3>2. rest > owed => rest' > owed'
      BY <1>4, <3>1
    <3> QED BY <1>14, <3>1, <3>2 DEF After, Output
  <2>2. CASE pwm!Top' \/ pwm!Bottom'
    <3>1. CASE top
      <4>1. ~Q2'
        BY <1>1, <1>8, <1>14, <3>1
      <4>2. last' = Output(TRUE)'
        BY <1>2, <1>3, <1>11, <2>2, <4>1 DEF Output
      <4> QED BY <3>1, <4>2 DEF After
    <3>2. CASE ~top
      <4>1. ~Q1'
        BY <1>1, <1>8, <1>14, <3>2
      <4>2. last' = Output(FALSE)'
        BY <1>2, <1>3, <1>11, <2>2, <4>1 DEF Output
      <4>3. top = FALSE
        BY <3>2
      <4> QED BY <4>2, <4>3 DEF After
    <3> QED BY <3>1, <3>2
  <2> QED BY <2>1, <2>2
<1>15. ASSUME ~configured'
       PROVE  /\ rev_leg' = rev_leg
              /\ State = "Q1" \/ Q1 => After(TRUE)
              /\ State = "Q2" \/ Q2 => After(FALSE)
  <2>1. CASE PinOn /\ On' /\ UNCHANGED Others
    <3>1. CASE configured
      <4>1. last = "none" \/ rest >= Slice
        BY <2>1, <3>1 DEF PwmInv, RestInv
      <4> QED BY <1>7, <2>1, <4>1 DEF After, Others
    <3>2. CASE ~configured
      BY <1>3, <2>1, <3>2 DEF LegInv, Others
    <3> QED BY <3>1, <3>2
  <2>2. CASE ~configured /\ rev_leg' = rev_leg
    BY <1>3, <2>2 DEF LegInv
  <2>3. On => ~configured
    BY DEF On, PwmInv, CallInv
  <2> QED BY <1>15, <2>1, <2>2, <2>3, WritePhases DEF Others
<1>16. LegInv'
  <2>1. ~configured' /\ (State' = "Q1" \/ Q1') => After(TRUE)'
    <3> SUFFICES ASSUME ~configured', State' = "Q1" \/ Q1' PROVE After(TRUE)'
      OBVIOUS
    <3>1. State = "Q1" \/ Q1
      BY <1>1
    <3>2. rev_leg' = rev_leg /\ After(TRUE)
      BY <1>15, <3>1
    <3> QED BY <1>14, <3>1, <3>2
  <2>2. ~configured' /\ (State' = "Q2" \/ Q2') => After(FALSE)'
    <3> SUFFICES ASSUME ~configured', State' = "Q2" \/ Q2' PROVE After(FALSE)'
      OBVIOUS
    <3>1. State = "Q2" \/ Q2
      BY <1>1
    <3>2. rev_leg' = rev_leg /\ After(FALSE)
      BY <1>15, <3>1
    <3> QED BY <1>14, <3>1, <3>2
  <2> QED BY <1>8, <1>10, <1>11, <1>12, <2>1, <2>2 DEF LegInv
(* An output that comes on. *)
<1>17. pwm_en' => ~configured'
  BY WriteCalls DEF CallInv
<1>18. pwm!Top' /\ last = "bottom" => rest > owed
  BY <1>1, <1>2, <1>3, <1>15, <1>17 DEF After, Output
<1>19. pwm!Bottom' /\ last = "top" => rest > owed
  BY <1>1, <1>2, <1>3, <1>15, <1>17 DEF After, Output
<1> QED BY <1>16, <1>18, <1>19

LEMMA WritePulse ==
  ASSUME PwmInv, pwm!Write PROVE PulseInv'
<1>1. /\ bus = BusGap /\ bus' = 0 /\ todo' = Tail(todo)
      /\ UNCHANGED <<count, dp, D_L, So, State, deadtime_count, Q1, Q2, pulses>>
  BY WriteIs
<1>2. BusGap >= 1 /\ BusGap \in Nat /\ ~(bus' >= 1)
  BY <1>1, Instances
<1>3. /\ pwm_en => duty <= carrier_max /\ D_L <= carrier_max
      /\ pwm_en /\ mode = {4} => FromThePeak
      /\ PinOn => AtRest
      /\ Off \/ Starting => D_L = 0 /\ pulses = 0 /\ (bus >= 1 => ~So)
      /\ Stopping /\ bus >= 1 => D_L = 0 /\ pulses = 0
  BY DEF PwmInv, PulseInv
<1>4. CASE On /\ Stopping' /\ UNCHANGED Others
  <2>1. mode' = {4} => pulses' <= 1
    BY <1>1, <1>3, <1>4 DEF On, Others, FromThePeak
  <2> QED BY <1>2, <1>4, <2>1 DEF PulseInv, Stopping, Off, Starting, PinOn
<1>5. CASE Off' /\ (Stopping \/ Off)
  <2>1. D_L' = 0 /\ pulses' = 0
    BY <1>1, <1>2, <1>3, <1>5
  <2> QED BY <1>2, <1>5, <2>1 DEF PulseInv, Stopping, Off, Starting, PinOn
<1>6. CASE Starting /\ PinOn'
  <2>1. D_L' = 0 /\ pulses' = 0 /\ ~So'
    BY <1>1, <1>2, <1>3, <1>6
  <2> QED BY <1>6, <2>1 DEF PulseInv, AtRest, Stopping, Off, Starting, PinOn
<1>7. CASE PinOn /\ On' /\ UNCHANGED Others
  <2>1. D_L' = 0 /\ pulses' = 0 /\ ~So'
    BY <1>1, <1>3, <1>7 DEF AtRest
  <2>2. duty' \in Nat /\ duty' <= carrier_max' /\ carrier_max' \in Nat /\ carrier_max' >= 1
    <3>1. PICK max \in Maxes : Plans(todo, max, carrier_max, duty)
      BY DEF PwmInv, CallInv
    <3>2. ~Asks(todo, "max") /\ ~Asks(todo, "duty")
      <4> DEFINE w == <<"enable", TRUE>>
      <4>1. w[1] = "enable" /\ todo = <<w>>
        BY <1>7 DEF PinOn
      <4> HIDE DEF w
      <4> QED BY <4>1, ShortAsks
    <3>3. carrier_max = max /\ duty \in 0 .. max
      BY <3>1, <3>2 DEF Plans
    <3>4. max \in Nat /\ max >= 1
      BY Instances
    <3> QED BY <1>7, <3>3, <3>4 DEF Others
  <2>3. FromThePeak'
    BY <2>1, <2>2 DEF FromThePeak
  <2> QED BY <1>7, <2>1, <2>2, <2>3 DEF PulseInv, On, Stopping, Off, Starting, PinOn
<1>8. CASE On /\ On' /\ duty' <= carrier_max /\ UNCHANGED <<carrier_max, slv_deadtime, mode, en_leg, rev_leg>>
  <2>1. pwm_en /\ pwm_en'
    BY <1>8 DEF On
  <2>2. mode' = {4} => FromThePeak'
    BY <1>1, <1>3, <1>8, <2>1 DEF FromThePeak
  <2> QED BY <1>1, <1>3, <1>8, <2>1, <2>2 DEF PulseInv, On, Stopping, Off, Starting, PinOn
<1> QED BY <1>4, <1>5, <1>6, <1>7, <1>8, WritePhases

LEMMA PwmWriteInv ==
  ASSUME PwmInv, pwm!Write PROVE PwmInv'
BY WriteTypes, WriteCalls, WriteRest, WriteLeg, WritePulse DEF PwmInv

(***************************************************************************)
(* The calls: what they ask to be written fits the phase they are made in. *)
(***************************************************************************)
LEMMA CallKeeps ==
  ASSUME PwmInv, NEW writes, pwm!Call(writes), (On /\ On') \/ (Off /\ (Off' \/ Starting')),
         \E max \in Maxes : Plans(writes, max, carrier_max, duty),
         \/ configured' = TRUE /\ Off'
         \/ configured' = configured /\ (Off' => OneRatio') /\ (Starting' => (configured => slice = 0))
  PROVE  PwmInv'
<1>1. /\ todo' = writes
      /\ UNCHANGED <<count, dp, D_L, So, State, deadtime_count, Q1, Q2, carrier_max, slv_deadtime, duty,
                     pwm_en, mode, en_leg, rev_leg, PS_DRIVE_EN, bus, slice, last, rest, owed, pulses>>
  BY DEF pwm!Call, pwm!carrier, pwm!leg, pwm!registers, pwm!history
<1>2. PwmTypes'
  <2>1. configured' \in BOOLEAN
    BY DEF PwmInv, PwmTypes
  <2> QED BY <1>1, <2>1 DEF PwmInv, PwmTypes
<1>3. CallInv'
  <2>1. \E max \in Maxes : Plans(todo, max, carrier_max, duty)'
    BY <1>1
  <2>2. pwm_en' => ~configured'
    BY <1>1 DEF On, Off, PwmInv, CallInv
  <2>3. Off' /\ ~configured' => OneRatio'
    OBVIOUS
  <2> QED BY <2>1, <2>2, <2>3 DEF CallInv
<1>4. RestInv'
  <2>1. Off => last = "none" \/ rest + slice >= Slice
    BY DEF PwmInv, RestInv
  <2>2. Starting' => Off /\ (configured' => slice = 0)
    <3>1. Starting' => ~Off' /\ ~On'
      BY OnIsNoConfig DEF Off, Starting, On
    <3> QED BY <3>1
  <2>3. ~Stopping' /\ ~PinOn' /\ (Off' => Off)
    BY <1>1 DEF On, Off, Starting, Stopping, PinOn
  <2>4. rest \in Nat /\ slice \in Nat /\ Slice \in Nat
    BY Instances DEF PwmInv, PwmTypes
  <2>5. Starting' /\ configured' => last = "none" \/ rest >= Slice
    BY <2>1, <2>2, <2>4
  <2> QED BY <1>1, <2>1, <2>3, <2>5 DEF RestInv
<1>5. LegInv'
  <2>1. pwm!Top' = pwm!Top /\ pwm!Bottom' = pwm!Bottom /\ pwm!deadtime' = pwm!deadtime
    BY <1>1 DEF pwm!Top, pwm!Bottom, pwm!Switches, pwm!deadtime
  <2>2. After(TRUE)' = After(TRUE) /\ After(FALSE)' = After(FALSE)
    BY <1>1 DEF After, Output
  <2>3. ~configured' => ~configured
    OBVIOUS
  <2> QED BY <1>1, <2>1, <2>2, <2>3 DEF PwmInv, LegInv
<1>6. PulseInv'
  <2>1. ~Stopping' /\ ~PinOn' /\ (On => ~Off' /\ ~Starting') /\ (Off' \/ Starting' => ~pwm_en')
    BY <1>1 DEF On, Off, Starting, Stopping, PinOn
  <2>2. FromThePeak' = FromThePeak
    BY <1>1 DEF FromThePeak
  <2> QED BY <1>1, <2>1, <2>2 DEF PwmInv, PulseInv
<1> QED BY <1>2, <1>3, <1>4, <1>5, <1>6 DEF PwmInv

(* Without a write of the maximum or the ratio a call is about the present maximum. *)
LEMMA PlansNothing ==
  ASSUME NEW q, Len(q) \in Nat, NEW max \in Maxes, NEW ratio \in 0 .. max,
         ~Asks(q, "max"), ~Asks(q, "duty")
  PROVE  Plans(q, max, max, ratio)
BY DEF Plans, Asks

LEMMA PlansRatio ==
  ASSUME NEW max \in Maxes, NEW v \in 0 .. max, NEW ratio
  PROVE  Plans(<<<<"duty", v>>>>, max, max, ratio)
<1> DEFINE w == <<"duty", v>>
           q == <<w>>
<1>1. w[1] = "duty" /\ w[2] = v
  OBVIOUS
<1>2. Asks(q, "duty") /\ ~Asks(q, "max")
  <2> HIDE DEF w
  <2> QED BY <1>1, ShortAsks
<1>3. Len(q) = 1 /\ q[1] = w
  OBVIOUS
<1> HIDE DEF q, w
<1>4. \A i \in 1 .. Len(q) : i = 1
  BY <1>3
<1>5. Plans(q, max, max, ratio)
  BY <1>1, <1>2, <1>3, <1>4 DEF Plans
<1> QED BY <1>5 DEF q, w

(* hw pwm sw, and pwm_init. *)
LEMMA PlansFreq ==
  ASSUME NEW max \in Maxes, NEW v \in 0 .. max, NEW dt \in Deadtimes, NEW now, NEW ratio
  PROVE  /\ Plans(<<<<"deadtime", dt>>, <<"max", max>>, <<"duty", v>>>>, max, now, ratio)
         /\ Plans(<<<<"mode_clear", {4, 5}>>, <<"max", max>>, <<"duty", v>>, <<"deadtime", dt>>, <<"duty", v>>>>,
                  max, now, ratio)
<1> DEFINE w1 == <<"deadtime", dt>>
           w2 == <<"max", max>>
           w3 == <<"duty", v>>
           w4 == <<"mode_clear", {4, 5}>>
           q == <<w1, w2, w3>>
           z == <<w4, w2, w3, w1, w3>>
<1>1. w1[1] = "deadtime" /\ w2[1] = "max" /\ w2[2] = max /\ w3[1] = "duty" /\ w3[2] = v /\ w4[1] = "mode_clear"
  OBVIOUS
<1>2. Len(q) = 3 /\ q[1] = w1 /\ q[2] = w2 /\ q[3] = w3
  OBVIOUS
<1>3. Len(z) = 5 /\ z[1] = w4 /\ z[2] = w2 /\ z[3] = w3 /\ z[4] = w1 /\ z[5] = w3
  OBVIOUS
<1> HIDE DEF w1, w2, w3, w4, q, z
<1>4. Plans(q, max, now, ratio)
  <2>1. Asks(q, "max") /\ Asks(q, "duty")
    <3>1. 2 \in 1 .. Len(q) /\ 3 \in 1 .. Len(q)
      BY <1>2
    <3> QED BY <1>1, <1>2, <3>1 DEF Asks
  <2>2. \A i \in 1 .. Len(q) : i \in {1, 2, 3}
    BY <1>2
  <2>3. \A i \in 1 .. Len(q) : q[i][1] = "max" => i = 2
    BY <1>1, <1>2, <2>2
  <2>4. \A i \in 1 .. Len(q) : q[i][1] = "duty" => i = 3
    BY <1>1, <1>2, <2>2
  <2> QED BY <1>1, <1>2, <2>1, <2>3, <2>4 DEF Plans
<1>5. Plans(z, max, now, ratio)
  <2>1. Asks(z, "max") /\ Asks(z, "duty")
    <3>1. 2 \in 1 .. Len(z) /\ 3 \in 1 .. Len(z)
      BY <1>3
    <3> QED BY <1>1, <1>3, <3>1 DEF Asks
  <2>2. \A i \in 1 .. Len(z) : i \in {1, 2, 3, 4, 5}
    BY <1>3
  <2>3. \A i \in 1 .. Len(z) : z[i][1] = "max" => i = 2
    BY <1>1, <1>3, <2>2
  <2>4. \A i \in 1 .. Len(z) : z[i][1] = "duty" => i = 3 \/ i = 5
    BY <1>1, <1>3, <2>2
  <2> QED BY <1>1, <1>3, <2>1, <2>3, <2>4 DEF Plans
<1> QED BY <1>4, <1>5 DEF q, z, w1, w2, w3, w4

LEMMA AtCall ==
  ASSUME PwmInv, todo = <<>>
  PROVE  /\ On \/ Off
         /\ carrier_max \in Maxes /\ duty \in 0 .. carrier_max
<1>1. On \/ Off
  BY DEF PwmInv, CallInv, Stopping, Starting, PinOn, PulsesOn
<1>2. PICK max \in Maxes : Plans(todo, max, carrier_max, duty)
  BY DEF PwmInv, CallInv
<1>3. ~Asks(todo, "max") /\ ~Asks(todo, "duty")
  BY ShortAsks
<1> QED BY <1>1, <1>2, <1>3 DEF Plans

LEMMA CallIs ==
  ASSUME NEW writes, pwm!Call(writes) PROVE todo = <<>> /\ todo' = writes /\ UNCHANGED <<pwm_en, PS_DRIVE_EN>>
BY DEF pwm!Call, pwm!registers

(* What a call writes, one after the other. *)
LEMMA Joined ==
  ASSUME NEW S, NEW s \in Seq(S), NEW t \in Seq(S), NEW u \in Seq(S), Len(u) = Len(s) + Len(t),
         \A i \in 1 .. Len(s) : u[i] = s[i], \A i \in 1 .. Len(t) : u[Len(s) + i] = t[i]
  PROVE  s \o t = u
<1>1. /\ s \o t \in Seq(S) /\ Len(s \o t) = Len(s) + Len(t)
      /\ \A i \in 1 .. Len(s) + Len(t) : (s \o t)[i] = IF i <= Len(s) THEN s[i] ELSE t[i - Len(s)]
  BY ConcatProperties
<1>2. ASSUME NEW i \in 1 .. Len(s) + Len(t) PROVE (s \o t)[i] = u[i]
  <2>1. Len(s) \in Nat /\ Len(t) \in Nat
    BY LenProperties
  <2>2. CASE i <= Len(s)
    BY <1>1, <2>1, <2>2
  <2>3. CASE ~(i <= Len(s))
    <3>1. i - Len(s) \in 1 .. Len(t) /\ Len(s) + (i - Len(s)) = i
      BY <2>1, <2>3
    <3>2. u[Len(s) + (i - Len(s))] = t[i - Len(s)]
      BY <3>1
    <3>3. (s \o t)[i] = t[i - Len(s)]
      BY <1>1, <2>3, Zenon
    <3> QED BY <3>1, <3>2, <3>3
  <2> QED BY <2>2, <2>3
<1>3. \A i \in 1 .. Len(s \o t) : (s \o t)[i] = u[i]
  BY <1>1, <1>2
<1> QED BY <1>1, <1>3, SeqEqual

LEMMA JoinedTwo == ASSUME NEW w, NEW z PROVE <<w>> \o <<z>> = <<w, z>>
<1> DEFINE S == {w, z}
           s == <<w>>
           t == <<z>>
           u == <<w, z>>
<1>1. s \in Seq(S) /\ t \in Seq(S) /\ u \in Seq(S)
  OBVIOUS
<1>2. Len(s) = 1 /\ Len(t) = 1 /\ Len(u) = 2 /\ s[1] = w /\ t[1] = z /\ u[1] = w /\ u[2] = z
  OBVIOUS
<1> HIDE DEF s, t, u, S
<1>3. (\A i \in 1 .. Len(s) : u[i] = s[i]) /\ (\A i \in 1 .. Len(t) : u[Len(s) + i] = t[i]) /\ Len(u) = Len(s) + Len(t)
  BY <1>2
<1>5. s \o t = u
  BY <1>1, <1>3, Joined
<1> QED BY <1>5 DEF s, t, u

LEMMA JoinedThree == ASSUME NEW x, NEW w, NEW z PROVE <<x>> \o <<w, z>> = <<x, w, z>>
<1> DEFINE S == {x, w, z}
           s == <<x>>
           t == <<w, z>>
           u == <<x, w, z>>
<1>1. s \in Seq(S) /\ t \in Seq(S) /\ u \in Seq(S)
  OBVIOUS
<1>2. Len(s) = 1 /\ Len(t) = 2 /\ Len(u) = 3 /\ s[1] = x /\ t[1] = w /\ t[2] = z /\ u[1] = x /\ u[2] = w /\ u[3] = z
  OBVIOUS
<1> HIDE DEF s, t, u, S
<1>3. (\A i \in 1 .. Len(s) : u[i] = s[i]) /\ (\A i \in 1 .. Len(t) : u[Len(s) + i] = t[i]) /\ Len(u) = Len(s) + Len(t)
  BY <1>2
<1>5. s \o t = u
  BY <1>1, <1>3, Joined
<1> QED BY <1>5 DEF s, t, u

LEMMA JoinedFive == ASSUME NEW a, NEW b, NEW c, NEW d, NEW e PROVE <<a, b, c>> \o <<d, e>> = <<a, b, c, d, e>>
<1> DEFINE S == {a, b, c, d, e}
           s == <<a, b, c>>
           t == <<d, e>>
           u == <<a, b, c, d, e>>
<1>1. s \in Seq(S) /\ t \in Seq(S) /\ u \in Seq(S)
  OBVIOUS
<1>2. /\ Len(s) = 3 /\ Len(t) = 2 /\ Len(u) = 5 /\ s[1] = a /\ s[2] = b /\ s[3] = c /\ t[1] = d /\ t[2] = e
      /\ u[1] = a /\ u[2] = b /\ u[3] = c /\ u[4] = d /\ u[5] = e
  OBVIOUS
<1> HIDE DEF s, t, u, S
<1>3. (\A i \in 1 .. Len(s) : u[i] = s[i]) /\ (\A i \in 1 .. Len(t) : u[Len(s) + i] = t[i]) /\ Len(u) = Len(s) + Len(t)
  <2>1. \A i \in 1 .. Len(s) : i \in {1, 2, 3}
    BY <1>2
  <2>2. \A i \in 1 .. Len(t) : i \in {1, 2}
    BY <1>2
  <2>3. \A i \in 1 .. Len(s) : u[i] = s[i]
    BY <1>2, <2>1
  <2>4. \A i \in 1 .. Len(t) : u[Len(s) + i] = t[i]
    BY <1>2, <2>2
  <2> QED BY <1>2, <2>3, <2>4
<1>5. s \o t = u
  BY <1>1, <1>3, Joined
<1> QED BY <1>5 DEF s, t, u

LEMMA OnOffInv ==
  ASSUME PwmInv, pwm!On \/ pwm!Off PROVE PwmInv'
<1>1. CASE pwm!Off
  <2> DEFINE writes == <<<<"enable", FALSE>>>> \o IF PS_DRIVE_EN THEN <<<<"pin", FALSE>>>> ELSE <<>>
  <2>1. pwm_en /\ pwm!Call(writes) /\ UNCHANGED configured
    BY <1>1 DEF pwm!Off
  <2>2. On /\ carrier_max \in Maxes /\ duty \in 0 .. carrier_max
    BY <2>1, AtCall, CallIs DEF Off
  <2>3. writes = PulsesOff
    <3> DEFINE w == <<"enable", FALSE>>
               z == <<"pin", FALSE>>
    <3>1. writes = <<w>> \o <<z>>
      BY <2>2 DEF On
    <3> HIDE DEF w, z
    <3>2. <<w>> \o <<z>> = <<w, z>>
      BY JoinedTwo
    <3> QED BY <3>1, <3>2 DEF PulsesOff, w, z
  <2>4. On'
    BY <2>1, <2>2, <2>3, CallIs DEF On
  <2>5. Len(PulsesOff) \in Nat
    BY DEF PulsesOff
  <2>6. Plans(PulsesOff, carrier_max, carrier_max, duty)
    BY <2>2, <2>5, PulsesAsk, PlansNothing
  <2>7. ~Off' /\ ~Starting'
    BY <2>4 DEF On, Off, Starting
  <2> QED BY <2>1, <2>2, <2>3, <2>4, <2>6, <2>7, CallKeeps
<1>2. CASE pwm!On
  <2> DEFINE writes == (IF PS_DRIVE_EN THEN <<>> ELSE <<<<"pin", TRUE>>>>) \o (IF pwm_en THEN <<>> ELSE <<<<"enable", TRUE>>>>)
  <2>1. pwm!Call(writes) /\ UNCHANGED configured /\ (configured => slice = 0)
    BY <1>2 DEF pwm!On
  <2>2. (On \/ Off) /\ carrier_max \in Maxes /\ duty \in 0 .. carrier_max
    BY <2>1, AtCall, CallIs
  <2>3. CASE On
    <3>1. writes = <<>>
      BY <2>3 DEF On
    <3>2. On'
      BY <2>1, <2>3, <3>1, CallIs DEF On
    <3>3. Plans(<<>>, carrier_max, carrier_max, duty)
      BY <2>2, ShortAsks, PlansNothing
    <3>4. ~Off' /\ ~Starting'
      BY <3>2 DEF On, Off, Starting
    <3> QED BY <2>1, <2>2, <2>3, <3>1, <3>2, <3>3, <3>4, CallKeeps
  <2>4. CASE Off
    <3>1. writes = PulsesOn
      <4> DEFINE w == <<"pin", TRUE>>
                 z == <<"enable", TRUE>>
      <4>1. writes = <<w>> \o <<z>>
        BY <2>4 DEF Off
      <4> HIDE DEF w, z
      <4>2. <<w>> \o <<z>> = <<w, z>>
        BY JoinedTwo
      <4> QED BY <4>1, <4>2 DEF PulsesOn, w, z
    <3>2. Starting'
      BY <2>1, <2>4, <3>1, CallIs DEF Off, Starting
    <3>3. Len(PulsesOn) \in Nat
      BY DEF PulsesOn
    <3>4. Plans(PulsesOn, carrier_max, carrier_max, duty)
      BY <2>2, <3>3, PulsesAsk, PlansNothing
    <3>5. ~Off'
      BY <3>2, OnIsNoConfig DEF Starting, Off
    <3> QED BY <2>1, <2>2, <2>4, <3>1, <3>2, <3>4, <3>5, CallKeeps
  <2> QED BY <2>2, <2>3, <2>4
<1> QED BY <1>1, <1>2

(* Configuration, which is written while PWM is off. *)
LEMMA ConfigureKeeps ==
  ASSUME PwmInv, NEW writes, writes \in Seq(ConfigWrites), pwm!Configure(writes),
         \E max \in Maxes : Plans(writes, max, carrier_max, duty)
  PROVE  PwmInv'
<1>1. ~pwm_en /\ pwm!Call(writes) /\ configured' = TRUE
  BY DEF pwm!Configure
<1>2. Off
  BY <1>1, AtCall, CallIs DEF On
<1>3. Off'
  BY <1>1, <1>2, CallIs DEF Off
<1> QED BY <1>1, <1>2, <1>3, CallKeeps

LEMMA AreConfigWrites ==
  /\ \A max \in Maxes : <<"max", max>> \in ConfigWrites
  /\ \A dt \in Deadtimes : <<"deadtime", dt>> \in ConfigWrites
  /\ \A v \in Nat : <<"duty", v>> \in ConfigWrites
  /\ \A bits \in SUBSET {4, 5} : <<"mode_set", bits>> \in ConfigWrites /\ <<"mode_clear", bits>> \in ConfigWrites
  /\ \A on \in BOOLEAN : <<"leg_enabled", on>> \in ConfigWrites /\ <<"leg_reversed", on>> \in ConfigWrites
<1>1. \A max \in Maxes : <<"max", max>> \in {"max"} \X Maxes
  OBVIOUS
<1>2. \A dt \in Deadtimes : <<"deadtime", dt>> \in {"deadtime"} \X Deadtimes
  OBVIOUS
<1>3. \A v \in Nat : <<"duty", v>> \in {"duty"} \X Nat
  OBVIOUS
<1>4. \A bits \in SUBSET {4, 5} : /\ <<"mode_set", bits>> \in {"mode_set", "mode_clear"} \X SUBSET {4, 5}
                                  /\ <<"mode_clear", bits>> \in {"mode_set", "mode_clear"} \X SUBSET {4, 5}
  OBVIOUS
<1>5. \A on \in BOOLEAN : /\ <<"leg_enabled", on>> \in {"leg_enabled", "leg_reversed"} \X BOOLEAN
                          /\ <<"leg_reversed", on>> \in {"leg_enabled", "leg_reversed"} \X BOOLEAN
  OBVIOUS
<1> QED BY <1>1, <1>2, <1>3, <1>4, <1>5 DEF ConfigWrites

LEMMA SeqsOfWrites ==
  /\ \A w \in ConfigWrites : <<w>> \in Seq(ConfigWrites)
  /\ \A w, z \in ConfigWrites : <<w, z>> \in Seq(ConfigWrites)
  /\ \A w, x, z \in ConfigWrites : <<w, x, z>> \in Seq(ConfigWrites)
  /\ \A v, w, x, y, z \in ConfigWrites : <<v, w, x, y, z>> \in Seq(ConfigWrites)
<1> DEFINE C == ConfigWrites
<1> HIDE DEF C
<1>1. /\ \A w \in C : <<w>> \in Seq(C)
      /\ \A w, z \in C : <<w, z>> \in Seq(C)
      /\ \A w, x, z \in C : <<w, x, z>> \in Seq(C)
      /\ \A v, w, x, y, z \in C : <<v, w, x, y, z>> \in Seq(C)
  OBVIOUS
<1> QED BY <1>1 DEF C

LEMMA SwInv ==
  ASSUME PwmInv, NEW max \in Maxes, NEW dt \in Deadtimes, pwm!Sw(max, dt) PROVE PwmInv'
<1> DEFINE v == pwm!Midscale(max)
           q == <<<<"deadtime", dt>>, <<"max", max>>, <<"duty", v>>>>
<1>1. v \in 0 .. max /\ pwm!SetFreq(max) = <<<<"max", max>>, <<"duty", v>>>>
  BY FreqPlans
<1>2. v \in Nat
  BY <1>1, Instances
<1> HIDE DEF v
<1>3. <<<<"deadtime", dt>>>> \o pwm!SetFreq(max) = q
  BY <1>1, JoinedThree
<1>4. pwm!Configure(q)
  BY <1>3 DEF pwm!Sw
<1>5. q \in Seq(ConfigWrites)
  BY <1>2, AreConfigWrites, SeqsOfWrites
<1>6. Plans(q, max, carrier_max, duty)
  BY <1>1, PlansFreq
<1> QED BY <1>4, <1>5, <1>6, ConfigureKeeps

LEMMA DutyInv ==
  ASSUME PwmInv, NEW d \in Duties, pwm!Duty(d) PROVE PwmInv'
<1> DEFINE v == pwm!Raw(d, carrier_max)
           w == <<"duty", v>>
<1>1. pwm!Call(<<w>>) /\ UNCHANGED configured
  BY DEF pwm!Duty
<1>2. (On \/ Off) /\ carrier_max \in Maxes
  BY <1>1, AtCall, CallIs
<1>3. v \in 0 .. carrier_max /\ v \in Nat
  BY <1>2, Instances, RawFits
<1> HIDE DEF v
<1>4. Plans(<<w>>, carrier_max, carrier_max, duty)
  BY <1>2, <1>3, PlansRatio
<1>5. On => On'
  <2>1. todo' = <<w>> /\ UNCHANGED <<pwm_en, PS_DRIVE_EN>>
    BY <1>1, CallIs
  <2>2. todo' = <<<<"duty", v>>>>
    BY <2>1
  <2>3. \E u \in Nat : todo' = <<<<"duty", u>>>>
    BY <1>3, <2>2
  <2> QED BY <2>1, <2>3 DEF On
<1>6. <<w>> \in Seq(ConfigWrites)
  BY <1>3, AreConfigWrites, SeqsOfWrites
<1>7. Off => Off'
  BY <1>1, <1>6, CallIs DEF Off
<1>8. OneRatio'
  <2>1. todo' = <<<<"duty", v>>>>
    BY <1>1, CallIs
  <2> QED BY <1>3, <2>1 DEF OneRatio
<1>9. ~Starting'
  <2>1. Len(todo') = 1
    BY <1>1, CallIs
  <2>2. Len(PulsesOn) = 2
    BY DEF PulsesOn
  <2> QED BY <2>1, <2>2 DEF Starting
<1> HIDE DEF w
<1> QED BY <1>1, <1>2, <1>4, <1>5, <1>7, <1>8, <1>9, CallKeeps

(* A configuration that is about neither the maximum nor the ratio. *)
LEMMA OtherConfigInv ==
  ASSUME PwmInv, NEW writes, writes \in Seq(ConfigWrites), pwm!Configure(writes),
         ~Asks(writes, "max"), ~Asks(writes, "duty")
  PROVE  PwmInv'
<1>1. carrier_max \in Maxes /\ duty \in 0 .. carrier_max
  BY AtCall, CallIs DEF pwm!Configure
<1>2. Plans(writes, carrier_max, carrier_max, duty)
  BY <1>1, PlansNothing
<1> QED BY <1>1, <1>2, ConfigureKeeps

LEMMA LegConfigInv ==
  ASSUME PwmInv, NEW on \in BOOLEAN, pwm!LegEnable(on) \/ pwm!LegReverse(on) PROVE PwmInv'
<1> DEFINE w == <<"leg_enabled", on>>
           z == <<"leg_reversed", on>>
<1>1. pwm!Configure(<<w>>) \/ pwm!Configure(<<z>>)
  BY DEF pwm!LegEnable, pwm!LegReverse
<1>2. w \in ConfigWrites /\ z \in ConfigWrites
  BY AreConfigWrites
<1>3. w[1] = "leg_enabled" /\ z[1] = "leg_reversed"
  OBVIOUS
<1> HIDE DEF w, z
<1>4. <<w>> \in Seq(ConfigWrites) /\ <<z>> \in Seq(ConfigWrites)
  BY <1>2, SeqsOfWrites
<1>5. /\ ~Asks(<<w>>, "max") /\ ~Asks(<<w>>, "duty")
      /\ ~Asks(<<z>>, "max") /\ ~Asks(<<z>>, "duty")
  BY <1>3, ShortAsks
<1> QED BY <1>1, <1>4, <1>5, OtherConfigInv

LEMMA LatchingInv ==
  ASSUME PwmInv, NEW m \in 0 .. 2, pwm!LatchingMode(m) PROVE PwmInv'
<1> DEFINE w0 == <<"mode_clear", {4, 5}>>
           w1 == <<"mode_set", {4}>>
           z1 == <<"mode_clear", {5}>>
           w2 == <<"mode_set", {5}>>
           z2 == <<"mode_clear", {4}>>
           C == {w0, w1, z1, w2, z2}
           q == pwm!SetLatchingMode(m)
<1>1. q \in {<<w0>>, <<w1, z1>>, <<w2, z2>>}
  BY DEF pwm!SetLatchingMode
<1>2. pwm!Configure(q)
  BY DEF pwm!LatchingMode
<1>3. \A w \in C : w \in ConfigWrites
  <2>1. {4, 5} \in SUBSET {4, 5} /\ {4} \in SUBSET {4, 5} /\ {5} \in SUBSET {4, 5}
    OBVIOUS
  <2> QED BY <2>1, AreConfigWrites
<1>4. \A w \in C : w[1] # "max" /\ w[1] # "duty"
  OBVIOUS
<1> HIDE DEF q, w0, w1, z1, w2, z2
<1>5. q \in Seq(ConfigWrites)
  BY <1>1, <1>3, SeqsOfWrites
<1>6. ~Asks(q, "max") /\ ~Asks(q, "duty")
  <2>1. \A w, z \in C : /\ ~Asks(<<w>>, "max") /\ ~Asks(<<w>>, "duty")
                        /\ ~Asks(<<w, z>>, "max") /\ ~Asks(<<w, z>>, "duty")
    BY <1>4, ShortAsks
  <2> QED BY <1>1, <2>1
<1> QED BY <1>2, <1>5, <1>6, OtherConfigInv

(* Every step of the driver and of the core keeps the invariant. *)
LEMMA PwmNextInv ==
  ASSUME PwmInv, pwm!Next PROVE PwmInv'
<1>1. CASE pwm!Clock
  BY <1>1, PwmClockInv
<1>2. CASE pwm!Write
  BY <1>2, PwmWriteInv
<1>3. CASE pwm!On \/ pwm!Off
  BY <1>3, OnOffInv
<1>4. ASSUME NEW max \in Maxes, NEW dt \in Deadtimes, pwm!Sw(max, dt) PROVE PwmInv'
  BY <1>4, SwInv
<1>5. ASSUME NEW d \in Duties, pwm!Duty(d) PROVE PwmInv'
  BY <1>5, DutyInv
<1>6. ASSUME NEW on \in BOOLEAN, pwm!LegEnable(on) \/ pwm!LegReverse(on) PROVE PwmInv'
  BY <1>6, LegConfigInv
<1>7. ASSUME NEW m \in 0 .. 2, pwm!LatchingMode(m) PROVE PwmInv'
  BY <1>7, LatchingInv
<1> QED BY <1>1, <1>2, <1>3, <1>4, <1>5, <1>6, <1>7 DEF pwm!Next

LEMMA PwmInitWrites ==
  ASSUME NEW max \in Maxes, NEW dt \in Deadtimes
  PROVE  /\ pwm!PwmInit(max, dt) \in Seq(ConfigWrites)
         /\ \A now, ratio : Plans(pwm!PwmInit(max, dt), max, now, ratio)
<1> DEFINE v == pwm!Midscale(max)
           w1 == <<"deadtime", dt>>
           w2 == <<"max", max>>
           w3 == <<"duty", v>>
           w4 == <<"mode_clear", {4, 5}>>
<1>1. v \in 0 .. max /\ v \in Nat /\ pwm!SetFreq(max) = <<w2, w3>>
  BY FreqPlans, Instances
<1>2. pwm!SetLatchingMode(0) = <<w4>>
  BY DEF pwm!SetLatchingMode
<1>3. pwm!PwmInit(max, dt) = (<<w4>> \o <<w2, w3>>) \o <<w1, w3>>
  BY <1>1, <1>2 DEF pwm!PwmInit
<1> HIDE DEF v
<1>4. <<w4>> \o <<w2, w3>> = <<w4, w2, w3>>
  BY JoinedThree
<1>5. <<w4, w2, w3>> \o <<w1, w3>> = <<w4, w2, w3, w1, w3>>
  BY JoinedFive
<1>6. pwm!PwmInit(max, dt) = <<w4, w2, w3, w1, w3>>
  BY <1>3, <1>4, <1>5
<1>7. w1 \in ConfigWrites /\ w2 \in ConfigWrites /\ w3 \in ConfigWrites /\ w4 \in ConfigWrites
  <2>1. {4, 5} \in SUBSET {4, 5}
    OBVIOUS
  <2> QED BY <1>1, <2>1, AreConfigWrites
<1>8. <<w4, w2, w3, w1, w3>> \in Seq(ConfigWrites)
  BY <1>7, SeqsOfWrites
<1>9. \A now, ratio : Plans(<<w4, w2, w3, w1, w3>>, max, now, ratio)
  BY <1>1, PlansFreq
<1> QED BY <1>6, <1>8, <1>9

LEMMA PwmInitInv == pwm!Init => PwmInv
<1> SUFFICES ASSUME pwm!Init PROVE PwmInv
  OBVIOUS
<1>1. /\ count = 0 /\ dp = TRUE /\ D_L = 0 /\ So = FALSE /\ State = "off" /\ deadtime_count = 0
      /\ Q1 = FALSE /\ Q2 = FALSE /\ carrier_max = 0 /\ slv_deadtime = 0 /\ duty = 0
      /\ pwm_en = FALSE /\ mode = {} /\ en_leg = TRUE /\ rev_leg = FALSE /\ PS_DRIVE_EN = FALSE
      /\ bus = BusGap /\ slice = 0 /\ configured = TRUE
      /\ last = "none" /\ rest = 0 /\ owed = 0 /\ pulses = 0
  BY DEF pwm!Init, pwm!HardwareReset
<1>2. PICK max \in Maxes, dt \in Deadtimes : todo = pwm!PwmInit(max, dt)
  BY DEF pwm!Init
<1>3. PwmTypes
  <2>1. BusGap \in Nat /\ Slice \in Nat /\ CountWrap \in Nat /\ CountWrap >= 1
    BY Instances
  <2>2. /\ 0 \in 0 .. Slice
        /\ 0 \in 0 .. CountWrap - 1 /\ 0 \in Maxes \cup {0} /\ 0 \in Deadtimes \cup {0}
        /\ BusGap \in 0 .. BusGap /\ 0 \in Nat /\ 0 \in 0 .. 2
    BY <2>1
  <2> QED BY <1>1, <2>2 DEF PwmTypes
<1>4. CallInv
  <2>1. Off
    BY <1>1, <1>2, PwmInitWrites DEF Off
  <2>2. Plans(todo, max, carrier_max, duty)
    BY <1>2, PwmInitWrites
  <2> QED BY <1>1, <2>1, <2>2 DEF CallInv
<1>5. RestInv
  BY <1>1 DEF RestInv
<1>6. LegInv
  <2>1. pwm!deadtime = MinDeadtime \/ pwm!deadtime = 0
    BY <1>1 DEF pwm!deadtime
  <2>2. owed <= pwm!deadtime
    BY <1>1, <2>1, Instances
  <2>3. State = "off" => rest >= Slice \/ rest >= deadtime_count
    BY <1>1
  <2> QED BY <1>1, <2>2, <2>3 DEF LegInv, pwm!Top, pwm!Bottom, pwm!Switches
<1>7. PulseInv
  BY <1>1 DEF PulseInv, PinOn, Stopping
<1> QED BY <1>3, <1>4, <1>5, <1>6, <1>7 DEF PwmInv

(* The other sessions leave the driver and the core alone. *)
LEMMA EitherPwmInv ==
  ASSUME PwmInv, [EitherNext]_<<session, logVars, pwmAll, demoAll>> PROVE PwmInv'
<1>1. CASE pwm!Next
  BY <1>1, PwmNextInv
<1>2. CASE UNCHANGED pwmAll
  <2>1. UNCHANGED <<count, dp, D_L, So, State, deadtime_count, Q1, Q2, carrier_max, slv_deadtime, duty, pwm_en,
                    mode, en_leg, rev_leg, PS_DRIVE_EN, todo, bus, slice, configured, last, rest, owed, pulses>>
    BY <1>2 DEF pwmAll
  <2>2. PwmTypes' /\ CallInv' /\ UNCHANGED <<On, Stopping, Off, Starting, PinOn>>
    BY <2>1, PlansSame DEF PwmInv, PwmTypes
  <2>5. RestInv'
    BY <2>1, <2>2 DEF PwmInv, RestInv
  <2>6. UNCHANGED <<pwm!Top, pwm!Bottom, pwm!deadtime>>
    BY <2>1 DEF pwm!Top, pwm!Bottom, pwm!Switches, pwm!deadtime
  <2>7. After(TRUE)' = After(TRUE) /\ After(FALSE)' = After(FALSE)
    BY <2>1 DEF After, Output
  <2>8. LegInv'
    BY <2>1, <2>6, <2>7 DEF PwmInv, LegInv
  <2>9. UNCHANGED <<FromThePeak, AtRest>>
    BY <2>1 DEF FromThePeak, AtRest
  <2>10. PulseInv'
    BY <2>1, <2>2, <2>9 DEF PwmInv, PulseInv
  <2> QED BY <2>2, <2>5, <2>8, <2>10 DEF PwmInv
<1> QED BY <1>1, <1>2 DEF EitherNext

(***************************************************************************)
(* A duty ratio in use is one of the present carrier, the leg rises once a *)
(* period, and the pin is on whenever the core switches: the settings that *)
(* the calls write in several steps fit each other at every clock.         *)
(***************************************************************************)
THEOREM PulsesStayAsAsked == EitherSpec => []PulsesAsAsked
<1>1. Either => PwmInv
  BY PwmInitInv DEF Either
<1>2. PwmInv /\ [EitherNext]_<<session, logVars, pwmAll, demoAll>> => PwmInv'
  BY EitherPwmInv
<1>3. PwmInv => PulsesAsAsked
  <2> SUFFICES ASSUME PwmInv PROVE PulsesAsAsked
    OBVIOUS
  <2>1. pwm_en => PS_DRIVE_EN
    BY DEF PwmInv, CallInv, On, Stopping, Off, Starting, PinOn
  <2>2. mode = {4} => pulses <= 1
    <3>1. CASE pwm_en
      BY <3>1 DEF PwmInv, PulseInv, FromThePeak
    <3>2. CASE ~pwm_en
      <4>1. CASE Stopping
        BY <4>1 DEF PwmInv, PulseInv
      <4>2. CASE Off \/ Starting \/ PinOn
        BY <4>2 DEF PwmInv, PulseInv, AtRest
      <4> QED BY <3>2, <4>1, <4>2 DEF PwmInv, CallInv, On
    <3> QED BY <3>1, <3>2
  <2> QED BY <2>1, <2>2 DEF PulsesAsAsked, pwm!DutyWithinCarrier, pwm!OnePulse, pwm!WholePeriods, PwmInv, PulseInv
<1> QED BY <1>1, <1>2, <1>3, PTL DEF EitherSpec

(* What a step may do to the outputs. *)
Safely == /\ ~(pwm!Top' /\ pwm!Bottom')
          /\ pwm!Top' /\ last = "bottom" => rest > owed
          /\ pwm!Bottom' /\ last = "top" => rest > owed

LEMMA ClockSafely ==
  ASSUME PwmInv, pwm!Clock PROVE Safely
<1>1. /\ pwm!Top' = (pwm_en /\ en_leg /\ State = IF rev_leg THEN "Q2" ELSE "Q1")
      /\ pwm!Bottom' = (pwm_en /\ en_leg /\ State = IF rev_leg THEN "Q1" ELSE "Q2")
  BY ClockWatch
<1>2. /\ pwm_en /\ State = "Q1" => After(TRUE)
      /\ pwm_en /\ State = "Q2" => After(FALSE)
      /\ rev_leg \in BOOLEAN
  BY DEF PwmInv, CallInv, LegInv, PwmTypes
<1>3. ~(pwm!Top' /\ pwm!Bottom')
  BY <1>1, <1>2
<1>4. pwm!Top' /\ last = "bottom" => rest > owed
  <2>1. CASE rev_leg
    BY <1>1, <1>2, <2>1 DEF After, Output
  <2>2. CASE ~rev_leg
    BY <1>1, <1>2, <2>2 DEF After, Output
  <2> QED BY <2>1, <2>2
<1>5. pwm!Bottom' /\ last = "top" => rest > owed
  <2>1. CASE rev_leg
    BY <1>1, <1>2, <2>1 DEF After, Output
  <2>2. CASE ~rev_leg
    BY <1>1, <1>2, <2>2 DEF After, Output
  <2> QED BY <2>1, <2>2
<1> QED BY <1>3, <1>4, <1>5 DEF Safely

LEMMA CallSafely ==
  ASSUME PwmInv, NEW writes, pwm!Call(writes) PROVE Safely
<1>1. UNCHANGED <<Q1, Q2, pwm_en, en_leg, rev_leg>>
  BY DEF pwm!Call, pwm!leg, pwm!registers
<1>2. pwm!Top' = pwm!Top /\ pwm!Bottom' = pwm!Bottom
  BY <1>1 DEF pwm!Top, pwm!Bottom, pwm!Switches
<1>3. LegInv
  BY DEF PwmInv
<1>4. (pwm!Top => last = "top") /\ (pwm!Bottom => last = "bottom")
  BY <1>3 DEF LegInv
<1>5. ~(pwm!Top /\ pwm!Bottom)
  BY <1>4
<1> QED BY <1>2, <1>4, <1>5 DEF Safely

LEMMA NextSafely ==
  ASSUME PwmInv, pwm!Next PROVE Safely
<1>1. CASE pwm!Clock
  BY <1>1, ClockSafely
<1>2. CASE pwm!Write
  <2>1. LegInv'
    BY <1>2, WriteLeg
  <2>2. ~(pwm!Top' /\ pwm!Bottom')
    BY <2>1 DEF LegInv
  <2> QED BY <1>2, <2>2, WriteLeg DEF Safely
<1>3. CASE ~pwm!Clock /\ ~pwm!Write
  <2>1. \E writes : pwm!Call(writes)
    BY <1>3 DEF pwm!Next, pwm!On, pwm!Off, pwm!Sw, pwm!Duty, pwm!LegEnable, pwm!LegReverse, pwm!LatchingMode,
                pwm!Configure
  <2> QED BY <2>1, CallSafely
<1> QED BY <1>1, <1>2, <1>3

(***************************************************************************)
(* No shoot-through: no two outputs of a leg are on together, and when one *)
(* comes on the other was off for more clocks than the least dead time     *)
(* that was configured since (single_leg_switch.v).                        *)
(***************************************************************************)
THEOREM DeadtimeIsKept == EitherSpec => DeadtimeKept
<1>1. Either => PwmInv
  BY PwmInitInv DEF Either
<1>2. PwmInv /\ [EitherNext]_<<session, logVars, pwmAll, demoAll>> => PwmInv'
  BY EitherPwmInv
<1>3. ASSUME PwmInv, [EitherNext]_<<session, logVars, pwmAll, demoAll>> PROVE [Safely]_(pwm!vars)
  <2>1. CASE pwm!Next
    BY <1>3, <2>1, NextSafely
  <2>2. CASE UNCHANGED pwmAll
    BY <2>2 DEF pwmAll, pwm!vars, pwm!carrier, pwm!leg, pwm!registers, pwm!history
  <2> QED BY <1>3, <2>1, <2>2 DEF EitherNext
<1>4. EitherSpec => [][Safely]_(pwm!vars)
  BY <1>1, <1>2, <1>3, PTL DEF EitherSpec
<1> QED BY <1>4 DEF DeadtimeKept, pwm!DeadtimeKept, Safely
=============================================================================
