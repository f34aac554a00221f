-------------------------- MODULE SchedulerProofs --------------------------
(***************************************************************************)
(* Theorems about the scheduler, for any number of tasks, any intervals    *)
(* and any bounds.                                                         *)
(***************************************************************************)
EXTENDS Scheduler, SequenceTheorems, TLAPS

(* A sequence that holds each element of a set once and nothing else. *)
OneEach(list, set) ==
  /\ \A i, j \in DOMAIN list : list[i] = list[j] => i = j
  /\ {list[i] : i \in DOMAIN list} = set

LEMMA AppendOne ==
  ASSUME NEW set, NEW list \in Seq(Task), OneEach(list, set), NEW x \in Task, x \notin set
  PROVE  Append(list, x) \in Seq(Task) /\ OneEach(Append(list, x), set \cup {x})
<1> DEFINE new == Append(list, x)
<1>1. new \in Seq(Task) /\ DOMAIN new = 1 .. Len(list) + 1 /\ DOMAIN list = 1 .. Len(list)
      /\ Len(list) \in Nat
  OBVIOUS
<1>2. (\A i \in DOMAIN list : new[i] = list[i]) /\ new[Len(list) + 1] = x
  OBVIOUS
<1>3. \A i \in DOMAIN list : list[i] # x
  BY DEF OneEach
<1>4. \A i, j \in DOMAIN new : new[i] = new[j] => i = j
  BY <1>1, <1>2, <1>3 DEF OneEach
<1>5. {new[i] : i \in DOMAIN new} = set \cup {x}
  <2>1. DOMAIN new = DOMAIN list \cup {Len(list) + 1}
    BY <1>1
  <2> QED BY <2>1, <1>2 DEF OneEach
<1> QED BY <1>1, <1>4, <1>5 DEF OneEach

LEMMA PrependOne ==
  ASSUME NEW set, NEW list \in Seq(Task), OneEach(list, set), NEW x \in Task, x \notin set
  PROVE  (<<x>> \o list) \in Seq(Task) /\ OneEach(<<x>> \o list, set \cup {x})
<1> DEFINE new == <<x>> \o list
<1>1. new \in Seq(Task) /\ DOMAIN new = 1 .. Len(list) + 1 /\ DOMAIN list = 1 .. Len(list)
      /\ Len(list) \in Nat
  OBVIOUS
<1>2. new[1] = x /\ \A i \in DOMAIN list : new[i + 1] = list[i]
  OBVIOUS
<1>3. \A i \in DOMAIN list : list[i] # x
  BY DEF OneEach
<1>4. \A i \in DOMAIN new \ {1} : i - 1 \in DOMAIN list /\ new[i] = list[i - 1]
  <2> TAKE i \in DOMAIN new \ {1}
  <2>1. i - 1 \in DOMAIN list /\ (i - 1) + 1 = i
    BY <1>1
  <2> QED BY <2>1, <1>2
<1> HIDE DEF new
<1>5. \A i, j \in DOMAIN new : new[i] = new[j] => i = j
  <2> SUFFICES ASSUME NEW i \in DOMAIN new, NEW j \in DOMAIN new, new[i] = new[j] PROVE i = j
    OBVIOUS
  <2>1. CASE i = 1 \/ j = 1
    BY <2>1, <1>2, <1>3, <1>4
  <2>2. CASE i # 1 /\ j # 1
    <3>1. i - 1 = j - 1
      BY <2>2, <1>4 DEF OneEach
    <3> QED BY <3>1, <1>1
  <2> QED BY <2>1, <2>2
<1>6. {new[i] : i \in DOMAIN new} = set \cup {x}
  <2>1. ASSUME NEW i \in DOMAIN new PROVE new[i] \in set \cup {x}
    BY <1>2, <1>4 DEF OneEach
  <2>2. ASSUME NEW y \in set PROVE \E i \in DOMAIN new : new[i] = y
    <3>1. PICK i \in DOMAIN list : list[i] = y
      BY DEF OneEach
    <3>2. i + 1 \in DOMAIN new
      BY <1>1
    <3> QED BY <3>1, <3>2, <1>2
  <2>3. 1 \in DOMAIN new
    BY <1>1
  <2> QED BY <2>1, <2>2, <2>3, <1>2
<1>7. new \in Seq(Task) /\ OneEach(new, set \cup {x})
  BY <1>1, <1>5, <1>6 DEF OneEach
<1> QED BY <1>7 DEF new

(* The list after the i-th node was unlinked. *)
Cut(list, i) == SubSeq(list, 1, i - 1) \o SubSeq(list, i + 1, Len(list))

LEMMA CutElements ==
  ASSUME NEW list \in Seq(Task), NEW i \in DOMAIN list
  PROVE  /\ Cut(list, i) \in Seq(Task)
         /\ Len(Cut(list, i)) = Len(list) - 1
         /\ \A j \in 1 .. Len(list) - 1 : Cut(list, i)[j] = list[IF j < i THEN j ELSE j + 1]
<1>1. Len(list) \in Nat /\ i \in 1 .. Len(list) /\ DOMAIN list = 1 .. Len(list)
  OBVIOUS
<1> DEFINE a == SubSeq(list, 1, i - 1)
           b == SubSeq(list, i + 1, Len(list))
           new == a \o b
<1>2. a \in Seq(Task) /\ Len(a) = i - 1 /\ \A j \in 1 .. i - 1 : a[j] = list[j]
  BY <1>1
<1>3. b \in Seq(Task) /\ Len(b) = Len(list) - i /\ \A j \in 1 .. Len(list) - i : b[j] = list[i + j]
  BY <1>1
<1>4. /\ new \in Seq(Task) /\ Len(new) = Len(a) + Len(b)
      /\ \A j \in 1 .. Len(a) + Len(b) : new[j] = IF j <= Len(a) THEN a[j] ELSE b[j - Len(a)]
  BY <1>2, <1>3, ConcatProperties
<1> HIDE DEF a, b, new
<1>5. Len(new) = Len(list) - 1
  BY <1>1, <1>2, <1>3, <1>4
<1>6. ASSUME NEW j \in 1 .. Len(list) - 1
      PROVE  new[j] = list[IF j < i THEN j ELSE j + 1]
  <2>1. j \in Int /\ i \in Int /\ j \in 1 .. Len(a) + Len(b)
    BY <1>1, <1>2, <1>3
  <2>2. CASE j < i
    <3>1. j \in 1 .. i - 1 /\ j <= Len(a)
      BY <2>1, <2>2, <1>1, <1>2
    <3> QED BY <3>1, <2>1, <2>2, <1>2, <1>4
  <2>3. CASE ~(j < i)
    <3>1. new[j] = b[j - (i - 1)]
      BY <2>1, <2>3, <1>1, <1>2, <1>4
    <3>2. j - (i - 1) \in 1 .. Len(list) - i /\ i + (j - (i - 1)) = j + 1
      BY <2>1, <2>3, <1>1
    <3> QED BY <3>1, <3>2, <2>3, <1>3
  <2> QED BY <2>2, <2>3
<1> QED BY <1>4, <1>5, <1>6 DEF Cut, a, b, new

LEMMA CutOne ==
  ASSUME NEW set, NEW list \in Seq(Task), OneEach(list, set), NEW i \in DOMAIN list
  PROVE  OneEach(Cut(list, i), set \ {list[i]})
<1>1. Len(list) \in Nat /\ i \in 1 .. Len(list) /\ DOMAIN list = 1 .. Len(list)
  OBVIOUS
<1> DEFINE new == Cut(list, i)
           From(j) == IF j < i THEN j ELSE j + 1
<1>2. DOMAIN new = 1 .. Len(list) - 1 /\ \A j \in DOMAIN new : new[j] = list[From(j)]
  <2>1. new \in Seq(Task) /\ Len(new) = Len(list) - 1
    BY CutElements
  <2>2. DOMAIN new = 1 .. Len(list) - 1
    BY <2>1
  <2>3. \A j \in 1 .. Len(list) - 1 : new[j] = list[From(j)]
    BY CutElements
  <2> QED BY <2>2, <2>3
<1>3. \A j \in DOMAIN new : From(j) \in DOMAIN list /\ From(j) # i
  BY <1>1, <1>2
<1>4. \A j, k \in DOMAIN new : From(j) = From(k) => j = k
  BY <1>1, <1>2
<1>5. \A k \in DOMAIN list \ {i} : \E j \in DOMAIN new : From(j) = k
  <2> TAKE k \in DOMAIN list \ {i}
  <2>1. CASE k < i
    BY <2>1, <1>1, <1>2
  <2>2. CASE k > i
    <3>1. k - 1 \in DOMAIN new /\ From(k - 1) = k
      BY <2>2, <1>1, <1>2
    <3> QED BY <3>1
  <2> QED BY <2>1, <2>2, <1>1
<1> HIDE DEF new, From
<1>6. \A j, k \in DOMAIN new : new[j] = new[k] => j = k
  BY <1>2, <1>3, <1>4 DEF OneEach
<1>7. {new[j] : j \in DOMAIN new} = set \ {list[i]}
  <2>1. ASSUME NEW j \in DOMAIN new PROVE new[j] \in set \ {list[i]}
    BY <1>2, <1>3 DEF OneEach
  <2>2. ASSUME NEW y \in set \ {list[i]} PROVE \E j \in DOMAIN new : new[j] = y
    <3>1. PICK k \in DOMAIN list \ {i} : list[k] = y
      BY DEF OneEach
    <3> QED BY <3>1, <1>2, <1>5
  <2> QED BY <2>1, <2>2
<1> QED BY <1>6, <1>7 DEF OneEach, new

-----------------------------------------------------------------------------
(* The nodes behind x, and the nodes a walk that stands on n has to visit. *)
Where(list, x) == CHOOSE i \in DOMAIN list : list[i] = x
Behind(list, x) == {list[i] : i \in {j \in DOMAIN list : j > Where(list, x)}}
Rest(list, n) == IF n = NULL THEN {} ELSE {n} \cup Behind(list, n)

LEMMA WhereIs ==
  ASSUME NEW set, NEW list \in Seq(Task), OneEach(list, set), NEW x \in set
  PROVE  Where(list, x) \in DOMAIN list /\ list[Where(list, x)] = x
<1>1. \E i \in DOMAIN list : list[i] = x
  BY DEF OneEach
<1> QED BY <1>1 DEF Where

LEMMA BehindAt ==
  ASSUME NEW set, NEW list \in Seq(Task), OneEach(list, set), NEW i \in DOMAIN list
  PROVE  /\ Where(list, list[i]) = i
         /\ Behind(list, list[i]) = {list[j] : j \in {k \in DOMAIN list : k > i}}
<1>1. Where(list, list[i]) = i
  <2>1. list[i] \in set
    BY DEF OneEach
  <2> QED BY <2>1, WhereIs DEF OneEach
<1> QED BY <1>1 DEF Behind

LEMMA BehindInSet ==
  ASSUME NEW set, NEW list \in Seq(Task), OneEach(list, set), NEW x \in set
  PROVE  Behind(list, x) \subseteq set \ {x}
<1>1. PICK i \in DOMAIN list : list[i] = x
  BY DEF OneEach
<1>2. Behind(list, x) = {list[j] : j \in {k \in DOMAIN list : k > i}}
  BY <1>1, BehindAt
<1>3. \A j \in DOMAIN list : j > i => list[j] \in set /\ list[j] # x
  <2> SUFFICES ASSUME NEW j \in DOMAIN list, j > i PROVE list[j] \in set /\ list[j] # x
    OBVIOUS
  <2>1. j # i
    OBVIOUS
  <2> QED BY <1>1, <2>1 DEF OneEach
<1> QED BY <1>2, <1>3

(* The walk goes on with the node after x, then with all that is behind it. *)
LEMMA BehindSuccessor ==
  ASSUME NEW set \in SUBSET Task, NEW list \in Seq(Task), OneEach(list, set), NEW i \in DOMAIN list
  PROVE  Behind(list, list[i]) = Rest(list, IF i = Len(list) THEN NULL ELSE list[i + 1])
<1>1. Len(list) \in Nat /\ DOMAIN list = 1 .. Len(list) /\ i \in 1 .. Len(list)
  OBVIOUS
<1>2. Behind(list, list[i]) = {list[j] : j \in {k \in DOMAIN list : k > i}}
  BY BehindAt
<1>3. CASE i = Len(list)
  BY <1>1, <1>2, <1>3 DEF Rest
<1>4. CASE i # Len(list)
  <2>1. i + 1 \in DOMAIN list
    BY <1>1, <1>4
  <2>2. Behind(list, list[i + 1]) = {list[j] : j \in {k \in DOMAIN list : k > i + 1}}
    BY <2>1, BehindAt
  <2>3. {k \in DOMAIN list : k > i} = {i + 1} \cup {k \in DOMAIN list : k > i + 1}
    BY <1>1, <2>1
  <2>4. list[i + 1] # NULL
    BY <2>1, SchedAssumption
  <2>5. Behind(list, list[i]) = {list[i + 1]} \cup Behind(list, list[i + 1])
    BY <1>2, <2>2, <2>3
  <2> QED BY <2>4, <2>5, <1>4 DEF Rest
<1> QED BY <1>3, <1>4

(* A walk from the first node visits all. *)
LEMMA RestOfFirst ==
  ASSUME NEW set \in SUBSET Task, NEW list \in Seq(Task), OneEach(list, set)
  PROVE  Rest(list, First(list)) = set
<1>1. Len(list) \in Nat /\ DOMAIN list = 1 .. Len(list)
  OBVIOUS
<1>2. CASE list = << >>
  BY <1>2 DEF First, Rest, OneEach
<1>3. CASE list # << >>
  <2>1. 1 \in DOMAIN list /\ First(list) = list[1]
    BY <1>1, <1>3 DEF First
  <2>2. Behind(list, list[1]) = {list[j] : j \in {k \in DOMAIN list : k > 1}}
    BY <2>1, BehindAt
  <2>3. DOMAIN list = {1} \cup {k \in DOMAIN list : k > 1}
    BY <1>1, <2>1
  <2>4. list[1] # NULL
    BY <2>1, SchedAssumption
  <2> QED BY <2>1, <2>2, <2>3, <2>4 DEF Rest, OneEach
<1> QED BY <1>2, <1>3

(* What a list edit does to the nodes behind x. *)
LEMMA BehindAppend ==
  ASSUME NEW set, NEW list \in Seq(Task), OneEach(list, set), NEW x \in set,
         NEW y \in Task, y \notin set
  PROVE  Behind(Append(list, y), x) = Behind(list, x) \cup {y}
<1> DEFINE new == Append(list, y)
<1>1. /\ Len(list) \in Nat /\ DOMAIN list = 1 .. Len(list)
      /\ DOMAIN new = 1 .. Len(list) + 1
      /\ \A j \in DOMAIN list : new[j] = list[j]
      /\ new[Len(list) + 1] = y
  OBVIOUS
<1>2. PICK i \in DOMAIN list : list[i] = x
  BY DEF OneEach
<1>3. new \in Seq(Task) /\ OneEach(new, set \cup {y}) /\ i \in DOMAIN new /\ new[i] = x
  BY <1>1, <1>2, AppendOne
<1> HIDE DEF new
<1>4. Behind(new, x) = {new[j] : j \in {k \in DOMAIN new : k > i}}
  BY <1>3, BehindAt
<1>5. Behind(list, x) = {list[j] : j \in {k \in DOMAIN list : k > i}}
  BY <1>2, BehindAt
<1>6. {k \in DOMAIN new : k > i} = {k \in DOMAIN list : k > i} \cup {Len(list) + 1}
  BY <1>1
<1>7. Behind(new, x) = Behind(list, x) \cup {y}
  BY <1>1, <1>4, <1>5, <1>6
<1> QED BY <1>7 DEF new

LEMMA BehindPrepend ==
  ASSUME NEW set, NEW list \in Seq(Task), OneEach(list, set), NEW x \in set,
         NEW y \in Task, y \notin set
  PROVE  Behind(<<y>> \o list, x) = Behind(list, x)
<1> DEFINE new == <<y>> \o list
<1>1. /\ Len(list) \in Nat /\ DOMAIN list = 1 .. Len(list)
      /\ DOMAIN new = 1 .. Len(list) + 1
      /\ \A j \in DOMAIN list : new[j + 1] = list[j]
  OBVIOUS
<1>2. PICK i \in DOMAIN list : list[i] = x
  BY DEF OneEach
<1>3. new \in Seq(Task) /\ OneEach(new, set \cup {y}) /\ i + 1 \in DOMAIN new /\ new[i + 1] = x
  BY <1>1, <1>2, PrependOne
<1> HIDE DEF new
<1>4. Behind(new, x) = {new[j] : j \in {k \in DOMAIN new : k > i + 1}}
  BY <1>3, BehindAt
<1>5. Behind(list, x) = {list[j] : j \in {k \in DOMAIN list : k > i}}
  BY <1>2, BehindAt
<1>6. ASSUME NEW j \in DOMAIN new, j > i + 1 PROVE new[j] \in Behind(list, x)
  <2>1. j - 1 \in DOMAIN list /\ j - 1 > i /\ (j - 1) + 1 = j
    BY <1>1, <1>6
  <2> QED BY <2>1, <1>1, <1>5
<1>7. ASSUME NEW j \in DOMAIN list, j > i PROVE list[j] \in Behind(new, x)
  <2>1. j + 1 \in DOMAIN new /\ j + 1 > i + 1
    BY <1>1, <1>7
  <2> QED BY <2>1, <1>1, <1>4
<1>8. Behind(new, x) = Behind(list, x)
  BY <1>4, <1>5, <1>6, <1>7
<1> QED BY <1>8 DEF new

LEMMA BehindCut ==
  ASSUME NEW set, NEW list \in Seq(Task), OneEach(list, set), NEW x \in set,
         NEW c \in DOMAIN list, list[c] # x
  PROVE  Behind(Cut(list, c), x) = Behind(list, x) \ {list[c]}
<1> DEFINE new == Cut(list, c)
           Old(j) == IF j < c THEN j ELSE j + 1
<1>1. /\ Len(list) \in Nat /\ DOMAIN list = 1 .. Len(list) /\ c \in 1 .. Len(list)
      /\ new \in Seq(Task) /\ DOMAIN new = 1 .. Len(list) - 1
      /\ OneEach(new, set \ {list[c]})
  <2>1. new \in Seq(Task) /\ Len(new) = Len(list) - 1
    BY CutElements
  <2> QED BY <2>1, CutOne
<1>2. \A j \in DOMAIN new : new[j] = list[Old(j)]
  BY <1>1, CutElements
<1>3. PICK i \in DOMAIN list : list[i] = x
  BY DEF OneEach
<1>4. \A k \in DOMAIN list \ {c} : \E j \in DOMAIN new : Old(j) = k
  <2> TAKE k \in DOMAIN list \ {c}
  <2>1. CASE k < c
    BY <2>1, <1>1
  <2>2. CASE k > c
    <3>1. k - 1 \in DOMAIN new /\ Old(k - 1) = k
      BY <2>2, <1>1
    <3> QED BY <3>1
  <2> QED BY <2>1, <2>2, <1>1
<1>5. PICK n \in DOMAIN new : Old(n) = i
  BY <1>3, <1>4
<1>6. \A j \in DOMAIN new : (j > n <=> Old(j) > i) /\ Old(j) \in DOMAIN list \ {c}
  BY <1>1, <1>5
<1> HIDE DEF new, Old
<1>7. Behind(new, x) = {new[j] : j \in {k \in DOMAIN new : k > n}}
  BY <1>1, <1>2, <1>3, <1>5, BehindAt
<1>8. Behind(list, x) = {list[j] : j \in {k \in DOMAIN list : k > i}}
  BY <1>3, BehindAt
<1>9. ASSUME NEW j \in DOMAIN new, j > n PROVE new[j] \in Behind(list, x) \ {list[c]}
  BY <1>2, <1>6, <1>8, <1>9 DEF OneEach
<1>10. ASSUME NEW k \in DOMAIN list, k > i, list[k] # list[c] PROVE list[k] \in Behind(new, x)
  BY <1>2, <1>4, <1>6, <1>7, <1>10
<1>11. Behind(new, x) = Behind(list, x) \ {list[c]}
  BY <1>7, <1>8, <1>9, <1>10
<1> QED BY <1>11 DEF new

-----------------------------------------------------------------------------
(***************************************************************************)
(* Where the loop stands, whatever the callbacks do to the list: on a      *)
(* registered task, and, when a task stops itself, next to one.  Command   *)
(* tasks are never stopped, so a callback that edits the list still stands *)
(* on a node of it.                                                        *)
(***************************************************************************)
LoopStands ==
  /\ pc = "walk" /\ t # NULL => is_registered[t]
  /\ pc = "callback" =>
       /\ t \in Task /\ running_task = t
       /\ t \in Controller => is_registered[t]
       /\ ~is_registered[t] /\ gone # NULL => is_registered[gone]
  /\ pc \notin {"callback", "hung"} => running_task = NULL

ListInv == TypeOK /\ ListMatchesFlags /\ LoopStands /\ OverrunNamesNoOther

LEMMA ListMatches ==
  /\ ListMatchesFlags <=> OneEach(tasks, Registered)
  /\ ListMatchesFlags' <=> OneEach(tasks', Registered')
BY DEF ListMatchesFlags, OneEach

LEMMA PositionOf ==
  ASSUME TypeOK, ListMatchesFlags, NEW x \in Task, is_registered[x]
  PROVE  /\ Position(x) \in DOMAIN tasks /\ tasks[Position(x)] = x
         /\ Position(x) = Where(tasks, x)
<1>1. x \in Registered /\ tasks \in Seq(Task)
  BY DEF Registered, TypeOK
<1> QED BY <1>1, ListMatches, WhereIs DEF Position, Where

LEMMA SuccessorOf ==
  ASSUME TypeOK, ListMatchesFlags, NEW x \in Task, is_registered[x]
  PROVE  /\ Successor(x) \in (Task \cup {NULL}) \ {x}
         /\ Successor(x) # NULL => is_registered[Successor(x)]
         /\ Behind(tasks, x) = Rest(tasks, Successor(x))
<1>1. /\ Position(x) \in DOMAIN tasks /\ tasks[Position(x)] = x
      /\ tasks \in Seq(Task) /\ Registered \in SUBSET Task
  BY PositionOf DEF TypeOK, Registered
<1>2. Behind(tasks, x) = Rest(tasks, Successor(x))
  BY <1>1, ListMatches, BehindSuccessor DEF Successor
<1>3. CASE Successor(x) = NULL
  BY <1>2, <1>3, SchedAssumption
<1>4. CASE Successor(x) # NULL
  <2>1. Successor(x) = tasks[Position(x) + 1] /\ Position(x) # Len(tasks)
    BY <1>4 DEF Successor
  <2>2. Position(x) + 1 \in DOMAIN tasks /\ Position(x) + 1 # Position(x)
    BY <1>1, <2>1
  <2>3. tasks[Position(x) + 1] \in Registered /\ tasks[Position(x) + 1] # x
    BY <1>1, <2>2 DEF ListMatchesFlags
  <2> QED BY <1>2, <2>1, <2>3 DEF Registered
<1> QED BY <1>3, <1>4

LEMMA FirstOf ==
  ASSUME TypeOK, ListMatchesFlags
  PROVE  /\ First(tasks) \in Task \cup {NULL}
         /\ First(tasks) # NULL => is_registered[First(tasks)]
         /\ Rest(tasks, First(tasks)) = Registered
<1>1. tasks \in Seq(Task) /\ Registered \in SUBSET Task
  BY DEF TypeOK, Registered
<1>2. CASE tasks = << >>
  BY <1>1, <1>2, ListMatches, RestOfFirst DEF First
<1>3. CASE tasks # << >>
  <2>1. 1 \in DOMAIN tasks /\ First(tasks) = tasks[1]
    BY <1>1, <1>3 DEF First
  <2>2. tasks[1] \in Registered
    BY <2>1 DEF ListMatchesFlags
  <2> QED BY <1>1, <2>1, <2>2, ListMatches, RestOfFirst DEF Registered
<1> QED BY <1>2, <1>3

(* The node after the one the loop stands on. *)
LEMMA NextOfStands ==
  ASSUME ListInv, t # NULL, pc \in {"walk", "callback"}
  PROVE  NextOf(t) \in Task \cup {NULL} /\ (NextOf(t) # NULL => is_registered[NextOf(t)])
<1>1. t \in Task /\ gone \in Task \cup {NULL}
  BY DEF ListInv, TypeOK
<1>2. CASE is_registered[t]
  BY <1>1, <1>2, SuccessorOf DEF ListInv, NextOf
<1>3. CASE ~is_registered[t]
  BY <1>1, <1>3 DEF ListInv, LoopStands, NextOf
<1> QED BY <1>2, <1>3

(* What the three list edits do to the list and the flags. *)
LEMMA AddEdit ==
  ASSUME ListInv, NEW x \in Task, NEW list,
         list = Append(tasks, x) \/ list = <<x>> \o tasks, Add(x, list)
  PROVE  /\ tasks' \in Seq(Task) /\ is_registered' \in [Task -> BOOLEAN]
         /\ OneEach(tasks', Registered')
         /\ is_registered'[x]
         /\ \A y \in Task : is_registered[y] => is_registered'[y]
<1> USE DEF ListInv, TypeOK
<1>1. CASE is_registered[x]
  <2>1. tasks' = tasks /\ is_registered' = is_registered /\ Registered' = Registered
    BY <1>1 DEF Add, listVars, Registered
  <2>2. OneEach(tasks, Registered)
    BY ListMatches
  <2> QED BY <1>1, <2>1, <2>2
<1>2. CASE ~is_registered[x]
  <2>1. x \notin Registered /\ Registered' = Registered \cup {x}
    BY <1>2 DEF Add, Registered
  <2>2. list \in Seq(Task) /\ OneEach(list, Registered \cup {x})
    <3>1. OneEach(tasks, Registered) /\ tasks \in Seq(Task)
      BY ListMatches
    <3>2. CASE list = Append(tasks, x)
      BY <2>1, <3>1, <3>2, AppendOne
    <3>3. CASE list = <<x>> \o tasks
      BY <2>1, <3>1, <3>3, PrependOne
    <3> QED BY <3>2, <3>3
  <2> QED BY <1>2, <2>1, <2>2 DEF Add
<1> QED BY <1>1, <1>2

LEMMA UnlinkEdit ==
  ASSUME ListInv, NEW x \in Task, is_registered[x], NEW after, Unlink(x, after)
  PROVE  /\ tasks' \in Seq(Task) /\ is_registered' \in [Task -> BOOLEAN]
         /\ OneEach(tasks', Registered')
         /\ Registered' = Registered \ {x}
         /\ ~is_registered'[x]
         /\ \A y \in Task \ {x} : is_registered[y] => is_registered'[y]
<1> USE DEF ListInv, TypeOK
<1>1. Registered' = Registered \ {x}
  BY DEF Unlink, Registered
<1>2. Position(x) \in DOMAIN tasks /\ tasks[Position(x)] = x /\ tasks' = Cut(tasks, Position(x))
  BY PositionOf DEF Unlink, Without, Cut
<1>3. tasks' \in Seq(Task) /\ OneEach(tasks', Registered')
  <2>1. OneEach(tasks, Registered) /\ tasks \in Seq(Task)
    BY ListMatches
  <2>2. Cut(tasks, Position(x)) \in Seq(Task)
    BY <1>2, <2>1, CutElements
  <2>3. OneEach(Cut(tasks, Position(x)), Registered \ {tasks[Position(x)]})
    BY <1>2, <2>1, CutOne
  <2> QED BY <1>1, <1>2, <2>2, <2>3
<1> QED BY <1>1, <1>3 DEF Unlink

LEMMA StartKeepsListInv ==
  ASSUME ListInv, NEW x \in Task, NEW list,
         list = Append(tasks, x) \/ list = <<x>> \o tasks, Start(x, list)
  PROVE  ListInv'
<1> USE DEF ListInv
<1>1. /\ tasks' \in Seq(Task) /\ is_registered' \in [Task -> BOOLEAN]
      /\ OneEach(tasks', Registered')
      /\ \A y \in Task : is_registered[y] => is_registered'[y]
  BY AddEdit DEF Start
<1>2. ListMatchesFlags'
  BY <1>1, ListMatches
<1>3. /\ last_run' \in [Task -> 0 .. Horizon] /\ fresh' \subseteq Task
      /\ ops' \in 0 .. MaxOps
  BY SchedAssumption DEF Start, TcbInit, CountCall, CanStart, InCommand, TypeOK
<1>4. TypeOK'
  BY <1>1, <1>3 DEF Start, TypeOK, isrVars
<1>5. LoopStands'
  <2>1. CASE pc = "boot"
    BY <2>1 DEF LoopStands, Start, isrVars
  <2>2. CASE pc = "callback" /\ running_task \in Controller
    BY <1>1, <2>2 DEF LoopStands, Start, isrVars
  <2> QED BY <2>1, <2>2 DEF Start, CanStart, InCommand
<1>6. OverrunNamesNoOther'
  BY DEF OverrunNamesNoOther, Start, isrVars, hung
<1> QED BY <1>2, <1>4, <1>5, <1>6

LEMMA UnregisterKeepsListInv ==
  ASSUME ListInv, NEW x \in Task, Unregister(x)
  PROVE  ListInv'
<1> USE DEF ListInv
<1>1. Unlink(x, gone) /\ is_registered[x] /\ pc = "callback"
  BY DEF Unregister, InCommand
<1>2. /\ tasks' \in Seq(Task) /\ is_registered' \in [Task -> BOOLEAN]
      /\ OneEach(tasks', Registered')
      /\ \A y \in Task \ {x} : is_registered[y] => is_registered'[y]
  BY <1>1, UnlinkEdit
<1>3. ListMatchesFlags'
  BY <1>2, ListMatches
<1>4. TypeOK'
  <2>1. ops' \in 0 .. MaxOps
    BY SchedAssumption DEF Unregister, InCommand, CountCall, TypeOK
  <2>2. owed' \subseteq Task /\ ran' \subseteq Task /\ gone' \in Task \cup {NULL}
    BY <1>1 DEF Unlink, TypeOK
  <2> QED BY <1>2, <2>1, <2>2 DEF Unregister, TypeOK, isrVars
<1>5. LoopStands'
  <2>1. running_task \in Controller /\ x \notin Controller /\ t = running_task /\ t # x
    BY <1>1 DEF Unregister, InCommand, LoopStands
  <2>2. t \in Task \ {x} /\ is_registered[t]
    BY <1>1, <2>1 DEF LoopStands
  <2> QED BY <1>1, <1>2, <2>1, <2>2 DEF Unregister, LoopStands
<1>6. OverrunNamesNoOther'
  BY DEF OverrunNamesNoOther, Unregister, isrVars, hung
<1> QED BY <1>3, <1>4, <1>5, <1>6

LEMMA UnregisterSelfKeepsListInv ==
  ASSUME ListInv, UnregisterSelf
  PROVE  ListInv'
<1> USE DEF ListInv
<1>1. /\ pc = "callback" /\ t \in Task /\ running_task = t /\ t \notin Controller
      /\ is_registered[t] /\ Unlink(t, Successor(t))
  BY DEF UnregisterSelf, LoopStands
<1>2. /\ tasks' \in Seq(Task) /\ is_registered' \in [Task -> BOOLEAN]
      /\ OneEach(tasks', Registered')
      /\ ~is_registered'[t]
      /\ \A y \in Task \ {t} : is_registered[y] => is_registered'[y]
  BY <1>1, UnlinkEdit
<1>3. ListMatchesFlags'
  BY <1>2, ListMatches
<1>4. /\ gone' \in (Task \cup {NULL}) \ {t}
      /\ gone' # NULL => is_registered[gone']
  BY <1>1, SuccessorOf DEF Unlink
<1>5. TypeOK'
  <2>1. owed' \subseteq Task /\ ran' \subseteq Task
    BY <1>1 DEF Unlink, TypeOK
  <2> QED BY <1>2, <1>4, <2>1 DEF UnregisterSelf, TypeOK, isrVars
<1>6. LoopStands'
  <2>1. t' = t /\ pc' = "callback" /\ running_task' = running_task
    BY <1>1 DEF UnregisterSelf
  <2>2. gone' # NULL => is_registered'[gone']
    BY <1>2, <1>4
  <2> QED BY <1>1, <1>2, <2>1, <2>2 DEF LoopStands
<1>7. OverrunNamesNoOther'
  BY DEF OverrunNamesNoOther, UnregisterSelf, isrVars, hung
<1> QED BY <1>3, <1>5, <1>6, <1>7

LEMMA LoopKeepsListInv ==
  ASSUME ListInv, LoopStep
  PROVE  ListInv'
<1> USE DEF ListInv
<1>1. ListMatchesFlags'
  <2>1. UNCHANGED listVars
    BY DEF LoopStep, StartRun, ReadElapsed, EnterSlice, RunTask, SkipTask, FinishTask, EndWalk,
           GoIdle, Wake
  <2>2. tasks' = tasks /\ Registered' = Registered
    BY <2>1 DEF listVars, Registered
  <2> QED BY <2>2 DEF ListMatchesFlags
<1>2. CASE StartRun
  BY <1>1, <1>2 DEF StartRun, TypeOK, LoopStands, OverrunNamesNoOther, hung, listVars, isrVars,
                    history
<1>3. CASE ReadElapsed
  BY <1>1, <1>3 DEF ReadElapsed, TypeOK, LoopStands, OverrunNamesNoOther, hung, listVars,
                    isrVars, history
<1>4. CASE EnterSlice
  <2>1. t' \in Task \cup {NULL} /\ (t' # NULL => is_registered[t'])
    BY <1>4, FirstOf DEF EnterSlice
  <2>2. owed' \subseteq Task /\ ran' \subseteq Task
    BY <1>4 DEF EnterSlice, Registered
  <2> QED BY <1>1, <1>4, <2>1, <2>2 DEF EnterSlice, TypeOK, LoopStands, OverrunNamesNoOther,
                                        hung, listVars, isrVars
<1>5. CASE RunTask
  BY <1>1, <1>5, SchedAssumption
     DEF RunTask, TypeOK, LoopStands, OverrunNamesNoOther, hung, listVars, isrVars
<1>6. CASE SkipTask
  <2>1. NextOf(t) \in Task \cup {NULL} /\ (NextOf(t) # NULL => is_registered[NextOf(t)])
    BY <1>6, NextOfStands DEF SkipTask
  <2> QED BY <1>1, <1>6, <2>1 DEF SkipTask, TypeOK, LoopStands, OverrunNamesNoOther, hung,
                                  listVars, isrVars, history
<1>7. CASE FinishTask
  <2>1. t # NULL /\ pc = "callback"
    BY <1>7, SchedAssumption DEF FinishTask, LoopStands
  <2>2. NextOf(t) \in Task \cup {NULL} /\ (NextOf(t) # NULL => is_registered[NextOf(t)])
    BY <2>1, NextOfStands
  <2> QED BY <1>1, <1>7, <2>2 DEF FinishTask, ClearRunning, TypeOK, LoopStands,
                                  OverrunNamesNoOther, hung, listVars, isrVars
<1>8. CASE EndWalk
  BY <1>1, <1>8 DEF EndWalk, TypeOK, LoopStands, OverrunNamesNoOther, hung, listVars, isrVars,
                    history
<1>9. CASE GoIdle
  BY <1>1, <1>9 DEF GoIdle, TypeOK, LoopStands, OverrunNamesNoOther, hung, listVars, history
<1>10. CASE Wake
  BY <1>1, <1>10 DEF Wake, TypeOK, LoopStands, OverrunNamesNoOther, hung, listVars, isrVars,
                     history
<1> QED BY <1>2, <1>3, <1>4, <1>5, <1>6, <1>7, <1>8, <1>9, <1>10 DEF LoopStep

LEMMA InterruptKeepsListInv ==
  ASSUME ListInv, Interrupt
  PROVE  ListInv'
<1> USE DEF ListInv
<1>1. ListMatchesFlags'
  <2>1. UNCHANGED listVars
    BY DEF Interrupt, Tick, ShortTick, Overrun
  <2>2. tasks' = tasks /\ Registered' = Registered
    BY <2>1 DEF listVars, Registered
  <2> QED BY <2>2 DEF ListMatchesFlags
<1>2. CASE Tick
  <2>1. /\ elapsed' \in 0 .. Horizon /\ my_elapsed' \in 0 .. Horizon
        /\ last_run' \in [Task -> 0 .. Horizon]
    <3>1. CASE elapsed < Horizon
      BY <1>2, <3>1, SchedAssumption DEF Tick, AdvanceTime, TypeOK
    <3>2. CASE ~(elapsed < Horizon)
      <4>1. \A time \in 0 .. Horizon : Back(time) \in 0 .. Horizon
        BY SchedAssumption DEF Back
      <4>2. /\ elapsed' = elapsed /\ my_elapsed' = Back(my_elapsed)
            /\ last_run' = [x \in Task |-> Back(last_run[x])]
        BY <1>2, <3>2 DEF Tick, AdvanceTime
      <4> HIDE DEF Back
      <4> QED BY <4>1, <4>2 DEF TypeOK
    <3> QED BY <3>1, <3>2
  <2> QED BY <1>1, <1>2, <2>1 DEF Tick, TypeOK, LoopStands, OverrunNamesNoOther, hung, listVars,
                                  history
<1>3. CASE ShortTick
  BY <1>1, <1>3 DEF ShortTick, TypeOK, LoopStands, OverrunNamesNoOther, hung, listVars, history
<1>4. CASE Overrun
  <2>1. running_task \in {t, NULL}
    BY <1>4 DEF Overrun, LoopStands, hung
  <2> QED BY <1>1, <1>4, <2>1 DEF Overrun, TypeOK, LoopStands, OverrunNamesNoOther, hung,
                                  listVars, history
<1> QED BY <1>2, <1>3, <1>4 DEF Interrupt

LEMMA StepKeepsListInv ==
  ASSUME ListInv, [Next]_vars
  PROVE  ListInv'
<1>1. CASE ListStep
  <2>1. ASSUME NEW x \in Task, Register(x) \/ RegisterHighPriority(x) PROVE ListInv'
    <3>1. CASE Register(x)
      <4> DEFINE list == Append(tasks, x)
      <4>1. Start(x, list) /\ list = Append(tasks, x)
        BY <3>1 DEF Register
      <4> QED BY <4>1, StartKeepsListInv
    <3>2. CASE RegisterHighPriority(x)
      <4> DEFINE list == <<x>> \o tasks
      <4>1. Start(x, list) /\ list = <<x>> \o tasks
        BY <3>2 DEF RegisterHighPriority
      <4> QED BY <4>1, StartKeepsListInv
    <3> QED BY <2>1, <3>1, <3>2
  <2>2. ASSUME NEW x \in Task, Unregister(x) PROVE ListInv'
    BY <2>2, UnregisterKeepsListInv
  <2>3. CASE UnregisterSelf
    BY <2>3, UnregisterSelfKeepsListInv
  <2> QED BY <1>1, <2>1, <2>2, <2>3 DEF ListStep
<1>2. CASE LoopStep
  BY <1>2, LoopKeepsListInv
<1>3. CASE Interrupt
  BY <1>3, InterruptKeepsListInv
<1>4. CASE UNCHANGED vars
  BY <1>4 DEF ListInv, TypeOK, ListMatchesFlags, Registered, LoopStands, OverrunNamesNoOther,
              hung, vars, listVars, isrVars, history
<1> QED BY <1>1, <1>2, <1>3, <1>4 DEF Next

LEMMA ListInvAlways == Spec => []ListInv
<1>1. ASSUME Init PROVE ListInv
  <2>1. TypeOK
    <3>1. 0 \in 0 .. Horizon /\ 0 \in 0 .. MaxOps
      BY SchedAssumption
    <3>2. is_registered \in [Task -> BOOLEAN] /\ last_run \in [Task -> 0 .. Horizon]
      BY <1>1, <3>1 DEF Init
    <3>3. tasks \in Seq(Task)
      BY <1>1 DEF Init
    <3> QED BY <1>1, <3>1, <3>2, <3>3 DEF Init, TypeOK
  <2>2. ListMatchesFlags
    <3>1. Registered = {} /\ tasks = << >>
      BY <1>1 DEF Init, Registered
    <3> QED BY <3>1 DEF ListMatchesFlags
  <2>3. LoopStands /\ OverrunNamesNoOther
    BY <1>1 DEF Init, LoopStands, OverrunNamesNoOther, hung
  <2> QED BY <2>1, <2>2, <2>3 DEF ListInv
<1>2. ListInv /\ [Next]_vars => ListInv'
  BY StepKeepsListInv
<1> QED BY <1>1, <1>2, PTL DEF Spec

-----------------------------------------------------------------------------
(***************************************************************************)
(* What a slice still has to visit.  What it owes lies ahead and is still  *)
(* due; what it has run lies behind.  The tasks ahead stay due although    *)
(* interrupts advance the time window: a slice sees at most MaxOverrun of  *)
(* them, and the window is longer.                                         *)
(***************************************************************************)
Ahead == IF pc = "walk" THEN Rest(tasks, t)
         ELSE IF is_registered[t] THEN Behind(tasks, t) ELSE Rest(tasks, gone)

SlicePlan ==
  /\ ran \subseteq Registered
  /\ pc \in {"walk", "callback"} =>
       owed \subseteq Ahead /\ ran \cap Ahead = {} /\ \A x \in owed : Due(x)
  /\ pc \in {"enter", "walk", "callback"} => elapsed - my_elapsed <= MaxOverrun

SliceInv == ListInv /\ SlicePlan /\ SliceIsComplete

LEMMA RestRegistered ==
  ASSUME TypeOK, ListMatchesFlags, NEW n \in Task \cup {NULL}, n # NULL => is_registered[n]
  PROVE  Rest(tasks, n) \subseteq Registered
<1>1. OneEach(tasks, Registered) /\ tasks \in Seq(Task)
  BY ListMatches DEF TypeOK
<1>2. n # NULL => n \in Registered
  BY DEF Registered
<1> QED BY <1>1, <1>2, BehindInSet DEF Rest

LEMMA AheadRegistered ==
  ASSUME ListInv, pc \in {"walk", "callback"}
  PROVE  Ahead \subseteq Registered
<1> USE DEF ListInv, TypeOK
<1>1. CASE pc = "walk"
  BY <1>1, RestRegistered DEF Ahead, LoopStands
<1>2. CASE pc = "callback" /\ is_registered[t]
  <2>1. t \in Registered /\ OneEach(tasks, Registered) /\ tasks \in Seq(Task)
    BY <1>2, ListMatches DEF LoopStands, Registered
  <2> QED BY <1>2, <2>1, BehindInSet DEF Ahead
<1>3. CASE pc = "callback" /\ ~is_registered[t]
  BY <1>3, RestRegistered DEF Ahead, LoopStands
<1> QED BY <1>1, <1>2, <1>3

(* Where the loop goes next, from a task or from a callback. *)
LEMMA AheadOfNext ==
  ASSUME ListInv, t # NULL, pc \in {"walk", "callback"}
  PROVE  /\ Rest(tasks, NextOf(t)) \subseteq Ahead
         /\ Ahead \subseteq Rest(tasks, NextOf(t)) \cup {t}
         /\ is_registered[t] => t \notin Rest(tasks, NextOf(t))
<1>1. t \in Task
  BY DEF ListInv, TypeOK
<1>2. CASE is_registered[t]
  <2>1. Rest(tasks, NextOf(t)) = Behind(tasks, t)
    BY <1>1, <1>2, SuccessorOf DEF ListInv, NextOf
  <2>2. t \in Registered /\ OneEach(tasks, Registered) /\ tasks \in Seq(Task)
    BY <1>1, <1>2, ListMatches DEF ListInv, TypeOK, Registered
  <2>3. t \notin Behind(tasks, t)
    BY <2>2, BehindInSet
  <2>4. Ahead \in {Behind(tasks, t), {t} \cup Behind(tasks, t)}
    BY <1>2 DEF Ahead, Rest
  <2> QED BY <2>1, <2>3, <2>4
<1>3. CASE ~is_registered[t]
  <2>1. pc # "walk"
    BY <1>3 DEF ListInv, LoopStands
  <2> QED BY <1>3, <2>1 DEF Ahead, NextOf
<1> QED BY <1>2, <1>3

LEMMA StartKeepsPlan ==
  ASSUME ListInv, SlicePlan, SliceIsComplete, NEW x \in Task, NEW list,
         list = Append(tasks, x) \/ list = <<x>> \o tasks, Start(x, list)
  PROVE  SlicePlan' /\ SliceIsComplete'
<1> USE DEF ListInv, TypeOK
<1>1. pc' = pc /\ t' = t /\ gone' = gone /\ owed' = owed /\ ran' = ran
      /\ elapsed' = elapsed /\ my_elapsed' = my_elapsed
  BY DEF Start, isrVars
<1>2. Registered \subseteq Registered'
  BY AddEdit DEF Start, Registered
<1>3. \A y \in Task : Due(y) => Due(y)'
  <2> SUFFICES ASSUME NEW y \in Task, Due(y) PROVE Due(y)'
    OBVIOUS
  <2>1. last_run' = [last_run EXCEPT ![x] = 0]
    BY DEF Start, TcbInit
  <2>2. last_run[y] \in 0 .. Horizon /\ last_run'[y] \in {0, last_run[y]}
    BY <2>1
  <2>3. last_run'[y] \in Int /\ last_run'[y] <= last_run[y]
    <3>1. last_run[y] \in Int /\ 0 <= last_run[y]
      BY <2>2, SchedAssumption
    <3> QED BY <2>2, <3>1
  <2>4. my_elapsed \in Int /\ Interval[y] \in Int
    BY SchedAssumption
  <2> QED BY <1>1, <2>2, <2>3, <2>4 DEF Due
<1>4. CASE pc = "boot"
  BY <1>1, <1>2, <1>4 DEF SlicePlan, SliceIsComplete
<1>5. CASE pc = "callback"
  <2>1. is_registered[t] /\ t \in Registered
    BY <1>5 DEF Start, CanStart, InCommand, LoopStands, Registered
  <2>2. is_registered'[t]
    BY <1>2, <2>1 DEF Registered
  <2>3. Ahead = Behind(tasks, t) /\ Ahead' = Behind(tasks', t)
    BY <1>1, <1>5, <2>1, <2>2 DEF Ahead
  <2>4. Ahead \subseteq Ahead' /\ ran \cap Ahead' = ran \cap Ahead
    <3>1. CASE is_registered[x]
      <4>1. tasks' = tasks
        BY <3>1 DEF Start, Add, listVars
      <4> QED BY <2>3, <4>1
    <3>2. CASE ~is_registered[x]
      <4>1. x \notin Registered /\ tasks' = list /\ OneEach(tasks, Registered)
        BY <3>2, ListMatches DEF Start, Add, Registered
      <4>2. Behind(list, t) \in {Behind(tasks, t), Behind(tasks, t) \cup {x}}
        <5>1. CASE list = Append(tasks, x)
          BY <2>1, <4>1, <5>1, BehindAppend
        <5>2. CASE list = <<x>> \o tasks
          BY <2>1, <4>1, <5>2, BehindPrepend
        <5> QED BY <5>1, <5>2
      <4> QED BY <2>3, <4>1, <4>2 DEF SlicePlan
    <3> QED BY <3>1, <3>2
  <2> QED BY <1>1, <1>2, <1>3, <1>5, <2>4 DEF SlicePlan, SliceIsComplete
<1> QED BY <1>4, <1>5 DEF Start, CanStart, InCommand

LEMMA UnregisterKeepsPlan ==
  ASSUME ListInv, SlicePlan, SliceIsComplete, NEW x \in Task, Unregister(x)
  PROVE  SlicePlan' /\ SliceIsComplete'
<1> USE DEF ListInv, TypeOK
<1>1. Unlink(x, gone) /\ is_registered[x] /\ pc = "callback"
  BY DEF Unregister, InCommand
<1>2. pc' = pc /\ t' = t /\ gone' = gone /\ owed' = owed \ {x} /\ ran' = ran \ {x}
      /\ elapsed' = elapsed /\ my_elapsed' = my_elapsed /\ last_run' = last_run
  BY <1>1 DEF Unregister, Unlink, isrVars
<1>3. Registered' = Registered \ {x}
  BY <1>1, UnlinkEdit
<1>4. t \in Task /\ t # x /\ is_registered[t] /\ t \in Registered /\ t \in Registered'
  BY <1>1, <1>3 DEF Unregister, InCommand, LoopStands, Registered
<1>5. is_registered'[t]
  BY <1>4 DEF Registered
<1>6. Position(x) \in DOMAIN tasks /\ tasks[Position(x)] = x /\ tasks' = Cut(tasks, Position(x))
  BY <1>1, PositionOf DEF Unlink, Without, Cut
<1>7. Behind(tasks', t) = Behind(tasks, t) \ {x}
  <2>1. OneEach(tasks, Registered) /\ tasks \in Seq(Task)
    BY ListMatches
  <2> QED BY <1>4, <1>6, <2>1, BehindCut
<1>8. Ahead = Behind(tasks, t) /\ Ahead' = Behind(tasks', t)
  BY <1>1, <1>2, <1>4, <1>5 DEF Ahead
<1>9. \A y \in owed : Due(y) => Due(y)'
  BY <1>2 DEF Due
<1> QED BY <1>1, <1>2, <1>3, <1>7, <1>8, <1>9 DEF SlicePlan, SliceIsComplete

LEMMA UnregisterSelfKeepsPlan ==
  ASSUME ListInv, SlicePlan, SliceIsComplete, UnregisterSelf
  PROVE  SlicePlan' /\ SliceIsComplete'
<1> USE DEF ListInv, TypeOK
<1>1. /\ pc = "callback" /\ t \in Task /\ running_task = t
      /\ is_registered[t] /\ Unlink(t, Successor(t))
  BY DEF UnregisterSelf, LoopStands
<1>2. /\ pc' = pc /\ t' = t /\ gone' = Successor(t) /\ owed' = owed \ {t} /\ ran' = ran \ {t}
      /\ elapsed' = elapsed /\ my_elapsed' = my_elapsed /\ last_run' = last_run
  BY <1>1 DEF UnregisterSelf, Unlink, isrVars
<1>3. Registered' = Registered \ {t} /\ ~is_registered'[t]
  BY <1>1, UnlinkEdit
<1>4. /\ Successor(t) \in (Task \cup {NULL}) \ {t}
      /\ Successor(t) # NULL => is_registered[Successor(t)]
      /\ Behind(tasks, t) = Rest(tasks, Successor(t))
  BY <1>1, SuccessorOf
<1>5. Position(t) \in DOMAIN tasks /\ tasks[Position(t)] = t /\ tasks' = Cut(tasks, Position(t))
  BY <1>1, PositionOf DEF Unlink, Without, Cut
<1>6. t \in Registered /\ OneEach(tasks, Registered) /\ tasks \in Seq(Task)
  BY <1>1, ListMatches DEF Registered
<1>7. Rest(tasks', Successor(t)) = Rest(tasks, Successor(t))
  <2>1. CASE Successor(t) = NULL
    BY <2>1 DEF Rest
  <2>2. CASE Successor(t) # NULL
    <3>1. Successor(t) \in Registered
      BY <1>4, <2>2 DEF Registered
    <3>2. Behind(tasks', Successor(t)) = Behind(tasks, Successor(t)) \ {t}
      BY <1>4, <1>5, <1>6, <3>1, BehindCut
    <3>3. t \notin Rest(tasks, Successor(t))
      BY <1>4, <1>6, BehindInSet
    <3> QED BY <2>2, <3>2, <3>3 DEF Rest
  <2> QED BY <2>1, <2>2
<1>8. Ahead = Behind(tasks, t) /\ Ahead' = Rest(tasks', Successor(t))
  BY <1>1, <1>2, <1>3 DEF Ahead
<1>9. Ahead' = Ahead
  BY <1>4, <1>7, <1>8
<1>10. \A y \in owed : Due(y) => Due(y)'
  BY <1>2 DEF Due
<1> QED BY <1>1, <1>2, <1>3, <1>9, <1>10 DEF SlicePlan, SliceIsComplete

LEMMA LoopKeepsPlan ==
  ASSUME ListInv, SlicePlan, SliceIsComplete, LoopStep
  PROVE  SlicePlan' /\ SliceIsComplete'
<1> USE DEF ListInv, TypeOK
<1>1. tasks' = tasks /\ is_registered' = is_registered /\ elapsed' = elapsed
      /\ Registered' = Registered
  BY DEF LoopStep, StartRun, ReadElapsed, EnterSlice, RunTask, SkipTask, FinishTask, EndWalk,
         GoIdle, Wake, listVars, isrVars, Registered
<1>2. CASE StartRun \/ GoIdle \/ Wake
  BY <1>1, <1>2 DEF StartRun, GoIdle, Wake, SlicePlan, SliceIsComplete, history
<1>3. CASE ReadElapsed
  BY <1>1, <1>3, SchedAssumption DEF ReadElapsed, SlicePlan, SliceIsComplete, history
<1>4. CASE EnterSlice
  <2>1. Ahead' = Registered
    BY <1>1, <1>4, FirstOf DEF EnterSlice, Ahead
  <2>2. my_elapsed' = my_elapsed /\ last_run' = last_run /\ pc = "enter" /\ pc' = "walk"
        /\ owed' = {x \in Registered : Due(x)} /\ ran' = {}
    BY <1>4 DEF EnterSlice
  <2>3. \A x \in owed' : Due(x)'
    BY <2>2 DEF Due
  <2> QED BY <1>1, <2>1, <2>2, <2>3 DEF SlicePlan, SliceIsComplete
<1>5. CASE RunTask
  <2>1. /\ pc = "walk" /\ t # NULL /\ t' = t /\ pc' = "callback" /\ is_registered[t]
        /\ owed' = owed \ {t} /\ ran' = ran \cup {t} /\ my_elapsed' = my_elapsed
        /\ last_run' = last_run
    BY <1>5 DEF RunTask, LoopStands
  <2>2. t \in Registered /\ OneEach(tasks, Registered) /\ tasks \in Seq(Task)
    BY <2>1, ListMatches DEF Registered
  <2>3. Ahead = {t} \cup Behind(tasks, t) /\ Ahead' = Behind(tasks, t)
    BY <1>1, <2>1 DEF Ahead, Rest
  <2>4. t \notin Behind(tasks, t)
    BY <2>2, BehindInSet
  <2>5. \A x \in owed : Due(x) => Due(x)'
    BY <2>1 DEF Due
  <2> QED BY <1>1, <2>1, <2>2, <2>3, <2>4, <2>5 DEF SlicePlan, SliceIsComplete
<1>6. CASE SkipTask
  <2>1. /\ pc = "walk" /\ t # NULL /\ ~Due(t) /\ t' = NextOf(t) /\ pc' = pc
        /\ owed' = owed /\ ran' = ran /\ my_elapsed' = my_elapsed /\ last_run' = last_run
    BY <1>6 DEF SkipTask, history
  <2>2. Ahead' = Rest(tasks, NextOf(t))
    BY <1>1, <2>1 DEF Ahead
  <2>3. \A x \in owed : Due(x) => Due(x)'
    BY <2>1 DEF Due
  <2>4. t \notin owed
    BY <2>1 DEF SlicePlan
  <2> QED BY <1>1, <2>1, <2>2, <2>3, <2>4, AheadOfNext DEF SlicePlan, SliceIsComplete
<1>7. CASE FinishTask
  <2>1. /\ pc = "callback" /\ t \in Task /\ t # NULL /\ t' = NextOf(t) /\ pc' = "walk"
        /\ owed' = owed /\ ran' = ran /\ my_elapsed' = my_elapsed
        /\ last_run' = [last_run EXCEPT ![t] = my_elapsed]
    BY <1>7, SchedAssumption DEF FinishTask, LoopStands
  <2>2. Ahead' = Rest(tasks, NextOf(t))
    BY <1>1, <2>1 DEF Ahead
  <2>3. t \notin Ahead
    <3>1. CASE is_registered[t]
      <4>1. t \in Registered /\ OneEach(tasks, Registered) /\ tasks \in Seq(Task)
        BY <2>1, <3>1, ListMatches DEF Registered
      <4> QED BY <2>1, <3>1, <4>1, BehindInSet DEF Ahead
    <3>2. CASE ~is_registered[t]
      BY <2>1, <3>2, AheadRegistered DEF Registered
    <3> QED BY <3>1, <3>2
  <2>4. t \notin owed
    BY <2>1, <2>3 DEF SlicePlan
  <2>5. \A x \in owed : Due(x) => Due(x)'
    <3> SUFFICES ASSUME NEW x \in owed, Due(x) PROVE Due(x)'
      OBVIOUS
    <3>1. last_run'[x] = last_run[x]
      BY <2>1, <2>4
    <3> QED BY <2>1, <3>1 DEF Due
  <2> QED BY <1>1, <2>1, <2>2, <2>3, <2>4, <2>5, AheadOfNext DEF SlicePlan, SliceIsComplete
<1>8. CASE EndWalk
  <2>1. Ahead = {} /\ pc = "walk" /\ pc' = "goIdle" /\ owed' = owed /\ ran' = ran
    BY <1>8 DEF EndWalk, Ahead, Rest, history
  <2> QED BY <1>1, <2>1 DEF SlicePlan, SliceIsComplete
<1> QED BY <1>2, <1>3, <1>4, <1>5, <1>6, <1>7, <1>8 DEF LoopStep

(* A task that is due stays due when the window moves. *)
LEMMA TickKeepsDue ==
  ASSUME ListInv, SlicePlan, Tick, pc \in {"walk", "callback"}, NEW x \in Task, Due(x)
  PROVE  Due(x)'
<1> USE DEF ListInv, TypeOK
<1>1. /\ Interval[x] \in Nat /\ MaxOverrun \in Nat /\ Horizon \in Nat
      /\ Horizon > Interval[x] + 2 * MaxOverrun + 1
  BY SchedAssumption
<1>2. /\ elapsed \in Int /\ my_elapsed \in Int /\ last_run[x] \in Int /\ 0 <= last_run[x]
      /\ 0 <= my_elapsed /\ elapsed <= Horizon
  BY <1>1
<1>3. CASE elapsed < Horizon
  BY <1>3 DEF Tick, AdvanceTime, Due
<1>4. CASE ~(elapsed < Horizon)
  <2>1. my_elapsed > Interval[x] + 1
    BY <1>1, <1>2, <1>4 DEF SlicePlan
  <2>2. my_elapsed' = my_elapsed - 1
    BY <1>1, <1>2, <1>4, <2>1 DEF Tick, AdvanceTime, Back
  <2>3. last_run'[x] = Back(last_run[x])
    BY <1>4 DEF Tick, AdvanceTime
  <2>4. my_elapsed - last_run[x] >= Interval[x]
    BY DEF Due
  <2>5. my_elapsed' - last_run'[x] >= Interval[x]
    BY <1>1, <1>2, <2>1, <2>2, <2>3, <2>4 DEF Back
  <2> QED BY <2>5 DEF Due
<1> QED BY <1>3, <1>4

LEMMA InterruptKeepsPlan ==
  ASSUME ListInv, SlicePlan, SliceIsComplete, Interrupt
  PROVE  SlicePlan' /\ SliceIsComplete'
<1> USE DEF ListInv, TypeOK
<1>1. /\ tasks' = tasks /\ is_registered' = is_registered /\ Registered' = Registered
      /\ t' = t /\ gone' = gone /\ owed' = owed /\ ran' = ran
  BY DEF Interrupt, Tick, ShortTick, Overrun, listVars, history, Registered
<1>2. CASE Tick
  <2>1. pc' = pc
    BY <1>2 DEF Tick
  <2>2. Ahead' = Ahead
    BY <1>1, <2>1 DEF Ahead
  <2>3. pc \in {"walk", "callback"} => \A x \in owed : Due(x)'
    BY <1>2, TickKeepsDue DEF SlicePlan
  <2>4. pc \in {"enter", "walk", "callback"} => elapsed' - my_elapsed' <= MaxOverrun
    <3> SUFFICES ASSUME pc \in {"enter", "walk", "callback"}
                 PROVE  elapsed' - my_elapsed' <= MaxOverrun
      OBVIOUS
    <3>1. elapsed - my_elapsed < MaxOverrun
      BY <1>2 DEF Tick, TickAllowed
    <3>2. elapsed \in Int /\ my_elapsed \in Int /\ 0 <= my_elapsed /\ MaxOverrun \in Int
      BY SchedAssumption
    <3>3. CASE elapsed' = elapsed + 1 /\ my_elapsed' = my_elapsed
      BY <3>1, <3>2, <3>3
    <3>4. CASE elapsed' = elapsed /\ my_elapsed' = Back(my_elapsed)
      BY <3>1, <3>2, <3>4 DEF Back
    <3> QED BY <1>2, <3>3, <3>4 DEF Tick, AdvanceTime
  <2> QED BY <1>1, <2>1, <2>2, <2>3, <2>4 DEF SlicePlan, SliceIsComplete
<1>3. CASE ShortTick
  <2>1. pc' = pc /\ elapsed' = elapsed /\ my_elapsed' = my_elapsed /\ last_run' = last_run
    BY <1>3 DEF ShortTick
  <2>2. Ahead' = Ahead /\ \A x \in owed : Due(x)' <=> Due(x)
    BY <1>1, <2>1 DEF Ahead, Due
  <2> QED BY <1>1, <2>1, <2>2 DEF SlicePlan, SliceIsComplete
<1>4. CASE Overrun
  BY <1>1, <1>4 DEF Overrun, SlicePlan, SliceIsComplete
<1> QED BY <1>2, <1>3, <1>4 DEF Interrupt

LEMMA StepKeepsPlan ==
  ASSUME ListInv, SlicePlan, SliceIsComplete, [Next]_vars
  PROVE  SlicePlan' /\ SliceIsComplete'
<1>1. CASE ListStep
  <2>1. ASSUME NEW x \in Task, Register(x) \/ RegisterHighPriority(x)
        PROVE  SlicePlan' /\ SliceIsComplete'
    <3>1. CASE Register(x)
      <4> DEFINE list == Append(tasks, x)
      <4>1. Start(x, list) /\ list = Append(tasks, x)
        BY <3>1 DEF Register
      <4> QED BY <4>1, StartKeepsPlan
    <3>2. CASE RegisterHighPriority(x)
      <4> DEFINE list == <<x>> \o tasks
      <4>1. Start(x, list) /\ list = <<x>> \o tasks
        BY <3>2 DEF RegisterHighPriority
      <4> QED BY <4>1, StartKeepsPlan
    <3> QED BY <2>1, <3>1, <3>2
  <2>2. ASSUME NEW x \in Task, Unregister(x) PROVE SlicePlan' /\ SliceIsComplete'
    BY <2>2, UnregisterKeepsPlan
  <2>3. CASE UnregisterSelf
    BY <2>3, UnregisterSelfKeepsPlan
  <2> QED BY <1>1, <2>1, <2>2, <2>3 DEF ListStep
<1>2. CASE LoopStep
  BY <1>2, LoopKeepsPlan
<1>3. CASE Interrupt
  BY <1>3, InterruptKeepsPlan
<1>4. CASE UNCHANGED vars
  BY <1>4 DEF SlicePlan, SliceIsComplete, Ahead, Due, Rest, Behind, Where, Registered,
              vars, listVars, isrVars, history
<1> QED BY <1>1, <1>2, <1>3, <1>4 DEF Next

LEMMA SliceInvAlways == Spec => []SliceInv
<1>1. Init => SlicePlan /\ SliceIsComplete
  BY DEF Init, SlicePlan, SliceIsComplete, Registered
<1>2. SlicePlan /\ SliceIsComplete /\ ListInv /\ [Next]_vars => SlicePlan' /\ SliceIsComplete'
  BY StepKeepsPlan
<1> QED BY <1>1, <1>2, ListInvAlways, PTL DEF Spec, SliceInv

-----------------------------------------------------------------------------
(***************************************************************************)
(* How late a task can be, from slice to slice.  After a slice a task ran  *)
(* in it or was not due at its start, so it is less than its period behind *)
(* the slice's time; waiting adds a tick and the overrun, and the slice    *)
(* that runs it the overrun once more.  A tcb that was initialised and has *)
(* not run since (fresh) is not late, and at start-up there are no others. *)
(***************************************************************************)
Settled == Registered \ fresh
Slack == IF pc \in {"top", "wait"} THEN MaxOverrun + 1 ELSE MaxOverrun
ToRun(x) == \/ pc = "enter"
            \/ pc \in {"walk", "callback"} /\ x \in owed
            \/ pc = "callback" /\ x = t
Allowed(x) == IF ToRun(x) THEN Period(x) + MaxOverrun ELSE Period(x) - 1

LateInv ==
  /\ pc = "boot" => Settled = {}
  /\ pc \notin {"boot", "hung"} => Settled = {} \/ elapsed - my_elapsed <= Slack
  /\ pc # "hung" => \A x \in Settled : my_elapsed - last_run[x] <= Allowed(x)
  /\ pc = "hung" => LatenessBounded

LEMMA Times ==
  ASSUME TypeOK
  PROVE  /\ elapsed \in Int /\ 0 <= elapsed /\ elapsed <= Horizon
         /\ my_elapsed \in Int /\ 0 <= my_elapsed
         /\ MaxOverrun \in Int /\ 0 <= MaxOverrun /\ Horizon \in Int
         /\ \A x \in Task :
              /\ last_run[x] \in Int /\ 0 <= last_run[x]
              /\ Interval[x] \in Int /\ 0 <= Interval[x]
              /\ Period(x) \in Int /\ Interval[x] <= Period(x) /\ 1 <= Period(x)
              /\ Interval[x] > 0 => Period(x) = Interval[x]
<1>1. /\ elapsed \in Int /\ 0 <= elapsed /\ elapsed <= Horizon
      /\ my_elapsed \in Int /\ 0 <= my_elapsed
      /\ MaxOverrun \in Int /\ 0 <= MaxOverrun /\ Horizon \in Int
  BY SchedAssumption DEF TypeOK
<1>2. ASSUME NEW x \in Task
      PROVE  /\ last_run[x] \in Int /\ 0 <= last_run[x]
             /\ Interval[x] \in Int /\ 0 <= Interval[x]
  BY <1>2, SchedAssumption DEF TypeOK
<1>3. ASSUME NEW x \in Task
      PROVE  /\ Period(x) \in Int /\ Interval[x] <= Period(x) /\ 1 <= Period(x)
             /\ Interval[x] > 0 => Period(x) = Interval[x]
  BY <1>2, <1>3 DEF Period
<1> QED BY <1>1, <1>2, <1>3

LEMMA LateInvBounds ==
  ASSUME TypeOK, LateInv
  PROVE  LatenessBounded
<1> SUFFICES ASSUME pc # "hung", NEW x \in Registered \ fresh
             PROVE  elapsed - last_run[x] <= Period(x) + 2 * MaxOverrun
  BY DEF LateInv, LatenessBounded
<1>1. x \in Settled /\ x \in Task
  BY DEF Settled, Registered
<1>2. elapsed - my_elapsed <= Slack /\ my_elapsed - last_run[x] <= Allowed(x)
  BY <1>1 DEF LateInv
<1>3. CASE pc \in {"top", "wait"}
  BY <1>1, <1>2, <1>3, Times DEF Slack, Allowed, ToRun
<1>4. CASE pc \notin {"top", "wait"}
  <2>1. elapsed - my_elapsed <= MaxOverrun /\ my_elapsed - last_run[x] <= Period(x) + MaxOverrun
    BY <1>1, <1>2, <1>4, Times DEF Slack, Allowed
  <2> QED BY <1>1, <2>1, Times
<1> QED BY <1>3, <1>4

LEMMA ListStepKeepsLate ==
  ASSUME ListInv, LateInv, ListStep
  PROVE  LateInv'
<1> USE DEF ListInv, TypeOK
<1>1. /\ pc' = pc /\ pc \in {"boot", "callback"} /\ t' = t
      /\ elapsed' = elapsed /\ my_elapsed' = my_elapsed
  BY DEF ListStep, Register, RegisterHighPriority, Start, CanStart, InCommand, Unregister,
         UnregisterSelf, isrVars
<1>2. /\ Settled' \subseteq Settled
      /\ \A x \in Settled' : last_run'[x] = last_run[x] /\ (x \in owed' <=> x \in owed)
  <2>1. ASSUME NEW y \in Task, NEW list, Start(y, list)
        PROVE  /\ Settled' \subseteq Settled
               /\ \A x \in Settled' : last_run'[x] = last_run[x] /\ (x \in owed' <=> x \in owed)
    <3>1. /\ fresh' = fresh \cup {y} /\ last_run' = [last_run EXCEPT ![y] = 0] /\ owed' = owed
          /\ is_registered' = is_registered \/ is_registered' = [is_registered EXCEPT ![y] = TRUE]
      BY <2>1 DEF Start, TcbInit, Add, listVars
    <3>2. Registered' \subseteq Registered \cup {y}
      BY <3>1 DEF Registered
    <3> QED BY <3>1, <3>2 DEF Settled, Registered
  <2>2. ASSUME NEW y \in Task, NEW after, Unlink(y, after), UNCHANGED <<last_run, fresh>>
        PROVE  /\ Settled' \subseteq Settled
               /\ \A x \in Settled' : last_run'[x] = last_run[x] /\ (x \in owed' <=> x \in owed)
    <3>1. /\ is_registered' = [is_registered EXCEPT ![y] = FALSE] /\ owed' = owed \ {y}
          /\ fresh' = fresh /\ last_run' = last_run
      BY <2>2 DEF Unlink
    <3>2. Registered' \subseteq Registered \ {y}
      BY <3>1 DEF Registered
    <3> QED BY <3>1, <3>2 DEF Settled, Registered
  <2>3. CASE \E x \in Task : Register(x) \/ RegisterHighPriority(x)
    BY <2>1, <2>3 DEF Register, RegisterHighPriority
  <2>4. CASE \E x \in Task : Unregister(x)
    BY <2>2, <2>4 DEF Unregister
  <2>5. CASE UnregisterSelf
    <3>1. running_task \in Task
      BY <2>5 DEF UnregisterSelf, LoopStands
    <3> QED BY <2>2, <2>5, <3>1 DEF UnregisterSelf
  <2> QED BY <2>3, <2>4, <2>5 DEF ListStep
<1>3. \A x \in Settled' : Period(x)' = Period(x) /\ (ToRun(x)' <=> ToRun(x))
  BY <1>1, <1>2 DEF Period, ToRun
<1>4. \A x \in Settled' : my_elapsed' - last_run'[x] <= Allowed(x)'
  BY <1>1, <1>2, <1>3 DEF LateInv, Allowed
<1>5. Settled' = {} \/ elapsed' - my_elapsed' <= Slack' \/ pc' = "boot"
  BY <1>1, <1>2 DEF LateInv, Slack
<1> QED BY <1>1, <1>2, <1>4, <1>5 DEF LateInv

LEMMA LoopStepKeepsLate ==
  ASSUME ListInv, SlicePlan, SliceIsComplete', LateInv, LoopStep
  PROVE  LateInv'
<1> USE DEF ListInv, TypeOK
<1>1. /\ Registered' = Registered /\ elapsed' = elapsed
      /\ \A x : Period(x)' = Period(x)
  BY DEF LoopStep, StartRun, ReadElapsed, EnterSlice, RunTask, SkipTask, FinishTask, EndWalk,
         GoIdle, Wake, listVars, isrVars, Registered, Period
<1>2. Settled \subseteq Task
  BY DEF Settled, Registered
<1>3. CASE StartRun
  <2>1. Settled' = {} /\ pc' = "top"
    BY <1>1, <1>3 DEF StartRun, LateInv, Settled, history
  <2> QED BY <2>1 DEF LateInv
<1>4. CASE ReadElapsed
  <2>1. /\ pc = "top" /\ pc' = "enter" /\ my_elapsed' = elapsed /\ last_run' = last_run
        /\ Settled' = Settled
    BY <1>1, <1>4 DEF ReadElapsed, Settled, history
  <2>2. elapsed' - my_elapsed' <= Slack'
    BY <1>1, <2>1, Times DEF Slack
  <2>3. ASSUME NEW x \in Settled' PROVE my_elapsed' - last_run'[x] <= Allowed(x)'
    <3>1. elapsed - my_elapsed <= MaxOverrun + 1 /\ my_elapsed - last_run[x] <= Period(x) - 1
      BY <2>1, <2>3 DEF LateInv, Slack, Allowed, ToRun
    <3>2. Allowed(x)' = Period(x) + MaxOverrun
      BY <1>1, <2>1 DEF Allowed, ToRun
    <3> QED BY <1>2, <2>1, <2>3, <3>1, <3>2, Times
  <2> QED BY <2>1, <2>2, <2>3 DEF LateInv
<1>5. CASE EnterSlice
  <2>1. /\ pc = "enter" /\ pc' = "walk" /\ my_elapsed' = my_elapsed /\ last_run' = last_run
        /\ Settled' = Settled /\ owed' = {x \in Registered : Due(x)}
    BY <1>1, <1>5 DEF EnterSlice, Settled
  <2>2. elapsed' - my_elapsed' <= Slack'
    BY <1>1, <2>1 DEF SlicePlan, Slack
  <2>3. ASSUME NEW x \in Settled' PROVE my_elapsed' - last_run'[x] <= Allowed(x)'
    <3>1. CASE Due(x)
      <4>1. Allowed(x) = Period(x) + MaxOverrun /\ Allowed(x)' = Period(x) + MaxOverrun
        BY <1>1, <2>1, <2>3, <3>1 DEF Allowed, ToRun, Settled
      <4> QED BY <2>1, <2>3, <4>1 DEF LateInv
    <3>2. CASE ~Due(x)
      <4>1. Allowed(x)' = Period(x) - 1
        BY <1>1, <2>1, <3>2 DEF Allowed, ToRun
      <4>2. my_elapsed - last_run[x] < Interval[x]
        BY <1>2, <2>1, <2>3, <3>2, Times, SMTT(20) DEF Due
      <4> QED BY <1>2, <2>1, <2>3, <4>1, <4>2, Times
    <3> QED BY <3>1, <3>2
  <2> QED BY <2>1, <2>2, <2>3 DEF LateInv
<1>6. CASE RunTask
  <2>1. /\ pc = "walk" /\ pc' = "callback" /\ my_elapsed' = my_elapsed /\ last_run' = last_run
        /\ Settled' = Settled /\ owed' = owed \ {t} /\ t' = t
    BY <1>1, <1>6 DEF RunTask, Settled
  <2>2. elapsed' - my_elapsed' <= Slack'
    BY <1>1, <2>1 DEF SlicePlan, Slack
  <2>3. ASSUME NEW x \in Settled' PROVE my_elapsed' - last_run'[x] <= Allowed(x)'
    <3>1. my_elapsed - last_run[x] <= Allowed(x)
      BY <2>1, <2>3 DEF LateInv
    <3>2. ToRun(x) => ToRun(x)'
      BY <2>1 DEF ToRun
    <3>3. Allowed(x) \in Int /\ Allowed(x)' \in Int /\ Allowed(x) <= Allowed(x)'
      BY <1>1, <1>2, <2>1, <2>3, <3>2, Times, SMTT(20) DEF Allowed
    <3> QED BY <1>2, <2>1, <2>3, <3>1, <3>3, Times
  <2> QED BY <2>1, <2>2, <2>3 DEF LateInv
<1>7. CASE SkipTask
  <2>1. /\ pc = "walk" /\ pc' = pc /\ my_elapsed' = my_elapsed /\ last_run' = last_run
        /\ Settled' = Settled /\ owed' = owed
    BY <1>1, <1>7 DEF SkipTask, Settled, history
  <2>2. \A x \in Settled : Allowed(x)' = Allowed(x)
    BY <1>1, <2>1 DEF Allowed, ToRun
  <2>3. elapsed' - my_elapsed' <= Slack'
    BY <1>1, <2>1 DEF SlicePlan, Slack
  <2> QED BY <2>1, <2>2, <2>3 DEF LateInv
<1>8. CASE FinishTask
  <2>1. /\ pc = "callback" /\ pc' = "walk" /\ my_elapsed' = my_elapsed /\ t \in Task
        /\ last_run' = [last_run EXCEPT ![t] = my_elapsed]
        /\ fresh' = fresh \ {t} /\ owed' = owed
    BY <1>8 DEF FinishTask, LoopStands
  <2>2. elapsed' - my_elapsed' <= Slack'
    BY <1>1, <2>1 DEF SlicePlan, Slack
  <2>3. ASSUME NEW x \in Settled' PROVE my_elapsed' - last_run'[x] <= Allowed(x)'
    <3>1. x \in Task /\ (x = t \/ x \in Settled)
      BY <1>1, <2>1, <2>3 DEF Settled, Registered
    <3>2. Allowed(x)' \in Int /\ 0 <= Allowed(x)'
      BY <1>1, <3>1, Times, SMTT(20) DEF Allowed
    <3>3. CASE x = t
      <4>1. last_run'[x] = my_elapsed
        BY <2>1, <3>3
      <4> QED BY <2>1, <3>2, <4>1, Times
    <3>4. CASE x # t
      <4>1. x \in Settled /\ last_run'[x] = last_run[x]
        BY <2>1, <3>1, <3>4
      <4>2. Allowed(x)' = Allowed(x)
        BY <1>1, <2>1, <3>4 DEF Allowed, ToRun
      <4> QED BY <2>1, <4>1, <4>2 DEF LateInv
    <3> QED BY <3>3, <3>4
  <2> QED BY <2>1, <2>2, <2>3 DEF LateInv
<1>9. CASE EndWalk
  <2>1. /\ pc = "walk" /\ pc' = "goIdle" /\ my_elapsed' = my_elapsed /\ last_run' = last_run
        /\ Settled' = Settled /\ owed = {}
    BY <1>1, <1>9 DEF EndWalk, Settled, history, SliceIsComplete
  <2>2. \A x \in Settled : Allowed(x)' = Allowed(x)
    BY <1>1, <2>1 DEF Allowed, ToRun
  <2>3. elapsed' - my_elapsed' <= Slack'
    BY <1>1, <2>1 DEF SlicePlan, Slack
  <2> QED BY <2>1, <2>2, <2>3 DEF LateInv
<1>10. CASE GoIdle \/ Wake
  <2>1. /\ pc \in {"goIdle", "wait"} /\ pc' = IF pc = "goIdle" THEN "wait" ELSE "top"
        /\ my_elapsed' = my_elapsed /\ last_run' = last_run /\ Settled' = Settled
    BY <1>1, <1>10 DEF GoIdle, Wake, Settled, history
  <2>2. \A x \in Settled : Allowed(x)' = Allowed(x)
    BY <1>1, <2>1 DEF Allowed, ToRun
  <2>3. Settled' = {} \/ elapsed' - my_elapsed' <= Slack'
    BY <1>1, <2>1, Times DEF LateInv, Slack
  <2> QED BY <2>1, <2>2, <2>3 DEF LateInv
<1> QED BY <1>3, <1>4, <1>5, <1>6, <1>7, <1>8, <1>9, <1>10 DEF LoopStep

\* A distance below a bound is within it after it grew by one.
LEMMA OneMore ==
  ASSUME NEW a \in Int, NEW b \in Int, NEW k \in Int, NEW c \in Int, NEW d \in Int,
         a - b < k, c - d <= a - b + 1
  PROVE  c - d <= k
OBVIOUS

LEMMA InterruptKeepsLate ==
  ASSUME ListInv, LateInv, Interrupt
  PROVE  LateInv'
<1> USE DEF ListInv, TypeOK
<1>1. /\ Settled' = Settled /\ t' = t /\ owed' = owed /\ Settled \subseteq Task /\ pc # "hung"
      /\ \A x : Period(x)' = Period(x)
  BY DEF Interrupt, Tick, ShortTick, Overrun, hung, listVars, history, Settled, Registered, Period
<1>2. CASE Tick
  <2>1. pc' = pc
    BY <1>2 DEF Tick
  <2>2. \A x \in Settled : Allowed(x)' = Allowed(x)
    BY <1>1, <2>1 DEF Allowed, ToRun
  <2>3. /\ my_elapsed' \in Int /\ elapsed' \in Int
        /\ elapsed' - my_elapsed' <= elapsed - my_elapsed + 1
        /\ \A x \in Task : my_elapsed' - last_run'[x] <= my_elapsed - last_run[x]
                           \/ my_elapsed' - last_run'[x] <= 0
    <3>1. CASE elapsed' = elapsed + 1 /\ my_elapsed' = my_elapsed /\ last_run' = last_run
      BY <3>1, Times
    <3>2. CASE /\ elapsed' = elapsed /\ my_elapsed' = Back(my_elapsed)
               /\ last_run' = [x \in Task |-> Back(last_run[x])]
      BY <3>2, Times DEF Back
    <3> QED BY <1>2, <3>1, <3>2 DEF Tick, AdvanceTime
  <2>4. pc # "boot" => elapsed' - my_elapsed' <= Slack'
    <3> SUFFICES ASSUME pc # "boot" PROVE elapsed' - my_elapsed' <= Slack'
      OBVIOUS
    <3>1. PICK k \in Int : Slack' = k /\ elapsed - my_elapsed < k
      BY <1>2, <2>1, Times DEF Slack, Tick, TickAllowed
    <3>2. elapsed \in Int /\ my_elapsed \in Int
      BY Times
    <3> HIDE DEF ListInv, TypeOK
    <3>3. /\ my_elapsed' \in Int /\ elapsed' \in Int
          /\ elapsed' - my_elapsed' <= elapsed - my_elapsed + 1
      BY <2>3
    <3>4. elapsed' - my_elapsed' <= k
      BY <3>1, <3>2, <3>3, OneMore
    <3> QED BY <3>1, <3>4
  <2>5. ASSUME NEW x \in Settled' PROVE my_elapsed' - last_run'[x] <= Allowed(x)'
    <3>1. my_elapsed - last_run[x] <= Allowed(x) /\ x \in Task
      BY <1>1, <2>5 DEF LateInv
    <3>2. Allowed(x) \in Int /\ 0 <= Allowed(x)
      BY <3>1, Times, SMTT(20) DEF Allowed
    <3>3. last_run'[x] \in Int /\ last_run[x] \in Int /\ my_elapsed \in Int
      BY <1>2, <3>1, Times DEF Tick, AdvanceTime, Back
    <3>4. Allowed(x)' = Allowed(x)
      BY <1>1, <2>2, <2>5
    <3> HIDE DEF ListInv, TypeOK
    <3> QED BY <2>3, <3>1, <3>2, <3>3, <3>4
  <2> QED BY <1>1, <2>1, <2>4, <2>5 DEF LateInv
<1>3. CASE ShortTick
  <2>1. /\ pc' = pc /\ elapsed' = elapsed /\ my_elapsed' = my_elapsed /\ last_run' = last_run
    BY <1>3 DEF ShortTick
  <2>2. Slack' = Slack /\ \A x \in Settled : Allowed(x)' = Allowed(x)
    BY <1>1, <2>1 DEF Slack, Allowed, ToRun
  <2> QED BY <1>1, <2>1, <2>2 DEF LateInv
<1>4. CASE Overrun
  <2>1. /\ pc' = "hung" /\ elapsed' = elapsed /\ last_run' = last_run
        /\ Registered' = Registered /\ fresh' = fresh
    BY <1>4 DEF Overrun, listVars, history, Registered
  <2>2. LatenessBounded
    BY LateInvBounds
  <2> QED BY <1>1, <2>1, <2>2 DEF LateInv, LatenessBounded
<1> QED BY <1>2, <1>3, <1>4 DEF Interrupt

LEMMA LateInvAlways == Spec => []LateInv
<1>1. Init => LateInv
  BY DEF Init, LateInv, Settled, Registered
<1>2. SliceInv /\ SliceInv' /\ LateInv /\ [Next]_vars => LateInv'
  <2> SUFFICES ASSUME SliceInv, SliceInv', LateInv, [Next]_vars PROVE LateInv'
    OBVIOUS
  <2>1. CASE ListStep
    BY <2>1, ListStepKeepsLate DEF SliceInv
  <2>2. CASE LoopStep
    BY <2>2, LoopStepKeepsLate DEF SliceInv
  <2>3. CASE Interrupt
    BY <2>3, InterruptKeepsLate DEF SliceInv
  <2>4. CASE UNCHANGED vars
    BY <2>4 DEF LateInv, Settled, Slack, Allowed, ToRun, Period, LatenessBounded, Registered,
                vars, listVars, isrVars, history
  <2> QED BY <2>1, <2>2, <2>3, <2>4 DEF Next
<1> QED BY <1>1, <1>2, SliceInvAlways, PTL DEF Spec

-----------------------------------------------------------------------------
(* The variables keep their types, the times inside the window included. *)
THEOREM TypeCorrect == Spec => []TypeOK
BY ListInvAlways, PTL DEF ListInv

(***************************************************************************)
(* The list and the is_registered flags agree: registering, unregistering  *)
(* and a task that stops itself while it is walked over never lose a node, *)
(* double it or leave a cycle.                                             *)
(***************************************************************************)
THEOREM ListNeverCorrupt == Spec => []ListMatchesFlags
BY ListInvAlways, PTL DEF ListInv

(* scheduler_run leaves no task out that was due and stayed registered. *)
THEOREM SlicesComplete == Spec => []SliceIsComplete
BY SliceInvAlways, PTL DEF SliceInv

(* With at most MaxOverrun ticks in a slice a task is at most twice that   *)
(* later than its interval, whatever other tasks are started and stopped.  *)
THEOREM NeverTooLate == Spec => []LatenessBounded
BY LateInvAlways, ListInvAlways, LateInvBounds, PTL DEF ListInv

(* The overrun message names the current task or, read too late, none. *)
THEOREM NamesNoOther == Spec => []OverrunNamesNoOther
BY ListInvAlways, PTL DEF ListInv

(* scheduler_run calls no callback of an unregistered tcb. *)
THEOREM OnlyRegisteredRun == Spec => RunsOnlyRegistered
<1>1. ListInv /\ [Next]_vars =>
        [pc' = "callback" /\ pc # "callback" => is_registered[running_task']]_vars
  <2> SUFFICES ASSUME ListInv, [Next]_vars, pc' = "callback", pc # "callback"
               PROVE  is_registered[running_task']
    OBVIOUS
  <2>1. RunTask
    BY DEF Next, ListStep, LoopStep, Interrupt, Register, RegisterHighPriority, Start, CanStart,
           Unregister, InCommand, UnregisterSelf, StartRun, ReadElapsed, EnterSlice, SkipTask,
           FinishTask, EndWalk, GoIdle, Wake, Tick, ShortTick, Overrun, vars
  <2> QED BY <2>1 DEF RunTask, ListInv, LoopStands
<1> QED BY <1>1, ListInvAlways, PTL DEF Spec, RunsOnlyRegistered

(* scheduler_run calls a callback once in a slice, not after a new tcb_init. *)
THEOREM OncePerSlice == Spec => AtMostOncePerSlice
<1>1. SliceInv /\ [Next]_vars => [pc = "walk" /\ pc' = "callback" => t \notin ran]_vars
  <2> SUFFICES ASSUME SliceInv, [Next]_vars, pc = "walk", pc' = "callback" PROVE t \notin ran
    OBVIOUS
  <2>1. t # NULL
    BY DEF Next, ListStep, LoopStep, Interrupt, Register, RegisterHighPriority, Start, CanStart,
           Unregister, InCommand, UnregisterSelf, StartRun, ReadElapsed, EnterSlice, RunTask,
           SkipTask, FinishTask, EndWalk, GoIdle, Wake, Tick, ShortTick, Overrun, vars
  <2>2. t \in Ahead
    BY <2>1 DEF Ahead, Rest
  <2> QED BY <2>2 DEF SliceInv, SlicePlan
<1> QED BY <1>1, SliceInvAlways, PTL DEF Spec, AtMostOncePerSlice

(* A callback starts at most once in a slice, of a registered task only. *)
THEOREM RunsRight == Spec => RunsOnceIfRegistered
BY OnlyRegisteredRun, OncePerSlice, PTL DEF RunsOnceIfRegistered
=============================================================================
