----------------------------- MODULE AppletProofs -----------------------------
(***************************************************************************)
(* What holds of the whole applet: the worker with its steps about         *)
(* profiles, the panel, and the channels between them, for any number of   *)
(* sessions, profiles, names, requests, commands and snapshots.            *)
(*                                                                         *)
(* WorkerSteps takes the profile step out of what the worker has to do.    *)
(* Every step of the applet is, so seen, a step of Worker or nothing, so   *)
(* all that is proved of Worker is so of the worker in the applet: WT is   *)
(* those proofs, with that mapping.  On top of them come the invariants of *)
(* the panel and of the profiles.                                          *)
(***************************************************************************)
EXTENDS PanelProofs, WayBack, SequenceTheorems

-----------------------------------------------------------------------------
(* What the worker has to do, with and without the profile step *)

ProfileStep ==
  [op : {"Fetch"}, attempt : {1, 2}]
    \cup [op : {"ReadNames"}, configs : SUBSET Config]
    \cup [op : {"Import"}, name : Name]
    \cup [op : {"Rename"}, config : Config, name : Name]
    \cup [op : {"Delete"}, config : Config]

IsSeq(t) == \E S : t \in Seq(S)

\* There is one step about profiles at most.
WellFormed(t) ==
  /\ IsSeq(t)
  /\ \A i \in 1..Len(t) : t[i].op \in ProfileOps => t[i] \in ProfileStep
  /\ \A i, j \in 1..Len(t) :
       t[i].op \in ProfileOps /\ t[j].op \in ProfileOps => i = j

\* None.
Plain(t) == IsSeq(t) /\ \A i \in 1..Len(t) : t[i].op \notin ProfileOps

\* Sequences have a common range.
LEMMA CommonRange ==
  ASSUME NEW s, IsSeq(s), NEW t, IsSeq(t)
  PROVE  \E S : s \in Seq(S) /\ t \in Seq(S)
<1>1. PICK A : s \in Seq(A)
  BY DEF IsSeq
<1>2. PICK B : t \in Seq(B)
  BY DEF IsSeq
<1>3. s \in Seq(A \cup B) /\ t \in Seq(A \cup B)
  BY <1>1, <1>2
<1> QED BY <1>3

\* Without a profile step there is nothing to take out.
LEMMA NothingToTake ==
  ASSUME NEW t, Plain(t)
  PROVE  WellFormed(t) /\ WorkerSteps(t) = t
<1>1. WellFormed(t)
  BY DEF Plain, WellFormed
<1>2. WorkerSteps(t) = t
  BY DEF Plain, WorkerSteps, RemoveFirstMatch
<1> QED BY <1>1, <1>2

\* The one there is is taken out.
LEMMA Taken ==
  ASSUME NEW t, WellFormed(t), NEW k \in 1..Len(t), t[k].op \in ProfileOps
  PROVE  WorkerSteps(t) = RemoveAt(t, k)
<1> DEFINE I == {i \in 1..Len(t) : t[i].op \in ProfileOps}
<1>1. I = {k}
  BY DEF WellFormed
<1>2. k \in Int
  BY DEF WellFormed, IsSeq
<1>3. Min({k}) = k
  BY <1>2 DEF Min
<1>4. SelectInSeq(t, LAMBDA step : step.op \in ProfileOps) = k
  BY <1>1, <1>3 DEF SelectInSeq
<1> QED BY <1>4 DEF WorkerSteps, RemoveFirstMatch

\* What is left of a sequence without one of its elements.
LEMMA WithoutOne ==
  ASSUME NEW S, NEW t \in Seq(S), NEW k \in 1..Len(t)
  PROVE  /\ RemoveAt(t, k) \in Seq(S)
         /\ Len(RemoveAt(t, k)) = Len(t) - 1
         /\ \A i \in 1..Len(t) - 1 :
              RemoveAt(t, k)[i] = IF i < k THEN t[i] ELSE t[i + 1]
<1> DEFINE a == SubSeq(t, 1, k - 1)
           b == SubSeq(t, k + 1, Len(t))
<1>1. /\ a \in Seq(S) /\ Len(a) = k - 1
      /\ \A i \in 1..k - 1 : a[i] = t[i]
  OBVIOUS
<1>2. /\ b \in Seq(S) /\ Len(b) = Len(t) - k
      /\ \A i \in 1..Len(t) - k : b[i] = t[k + i]
  OBVIOUS
<1>3. RemoveAt(t, k) = a \o b
  BY DEF RemoveAt
<1> HIDE DEF a, b
<1>4. /\ a \o b \in Seq(S) /\ Len(a \o b) = Len(t) - 1
      /\ \A i \in 1..Len(t) - 1 :
           (a \o b)[i] = IF i <= k - 1 THEN a[i] ELSE b[i - (k - 1)]
  BY <1>1, <1>2, ConcatProperties
<1>5. ASSUME NEW i \in 1..Len(t) - 1
      PROVE  (a \o b)[i] = IF i < k THEN t[i] ELSE t[i + 1]
  <2>1. CASE i < k
    BY <1>1, <1>4, <2>1
  <2>2. CASE ~(i < k)
    <3>1. i - (k - 1) \in 1..Len(t) - k /\ k + (i - (k - 1)) = i + 1
      BY <2>2
    <3> QED BY <1>2, <1>4, <2>2, <3>1
  <2> QED BY <2>1, <2>2
<1> QED BY <1>3, <1>4, <1>5

\* Plain steps in front are left alone.
LEMMA PlainInFront ==
  ASSUME NEW cs, Plain(cs), NEW t, WellFormed(t)
  PROVE  /\ WellFormed(cs \o t)
         /\ WorkerSteps(cs \o t) = cs \o WorkerSteps(t)
<1>1. PICK S : cs \in Seq(S) /\ t \in Seq(S)
  BY CommonRange DEF Plain, WellFormed
<1> DEFINE n == Len(cs)
           u == cs \o t
<1>2. /\ u \in Seq(S) /\ Len(u) = n + Len(t) /\ n \in Nat /\ Len(t) \in Nat
      /\ \A i \in 1..n : u[i] = cs[i]
      /\ \A i \in 1..Len(t) : u[n + i] = t[i]
  BY <1>1
<1> HIDE DEF u, n
<1>3. \A i \in 1..Len(u) :
        u[i].op \in ProfileOps =>
          i - n \in 1..Len(t) /\ u[i] = t[i - n] /\ t[i - n].op \in ProfileOps
  <2> TAKE i \in 1..Len(u)
  <2>1. CASE i <= n
    BY <1>2, <2>1 DEF Plain, n
  <2>2. CASE i > n
    <3>1. i - n \in 1..Len(t) /\ n + (i - n) = i
      BY <1>2, <2>2
    <3> QED BY <1>2, <3>1
  <2> QED BY <1>2, <2>1, <2>2
<1>4. WellFormed(u)
  <2>1. IsSeq(u)
    BY <1>2 DEF IsSeq
  <2>2. \A i, j \in 1..Len(u) :
          u[i].op \in ProfileOps /\ u[j].op \in ProfileOps => i = j
    <3> TAKE i, j \in 1..Len(u)
    <3>1. i \in Int /\ j \in Int
      BY <1>2
    <3>2. u[i].op \in ProfileOps /\ u[j].op \in ProfileOps => i - n = j - n
      BY <1>3 DEF WellFormed
    <3> QED BY <1>2, <3>1, <3>2
  <2>3. \A i \in 1..Len(u) : u[i].op \in ProfileOps => u[i] \in ProfileStep
    BY <1>3 DEF WellFormed
  <2> QED BY <2>1, <2>2, <2>3 DEF WellFormed
<1>5. CASE Plain(t)
  <2>1. Plain(u)
    BY <1>3, <1>4, <1>5 DEF Plain, WellFormed
  <2> QED BY <1>4, <1>5, <2>1, NothingToTake DEF u
<1>6. CASE ~Plain(t)
  <2>1. PICK k \in 1..Len(t) : t[k].op \in ProfileOps
    BY <1>6 DEF Plain, WellFormed
  <2>2. n + k \in 1..Len(u) /\ u[n + k].op \in ProfileOps
    BY <1>2, <2>1
  <2>3. WorkerSteps(u) = RemoveAt(u, n + k)
    BY <1>4, <2>2, Taken
  <2>4. WorkerSteps(t) = RemoveAt(t, k)
    BY <2>1, Taken
  <2> DEFINE p == RemoveAt(u, n + k)
             q == RemoveAt(t, k)
             m == Len(t)
  <2>5. /\ p \in Seq(S) /\ Len(p) = Len(u) - 1
        /\ \A i \in 1..Len(u) - 1 :
             p[i] = IF i < n + k THEN u[i] ELSE u[i + 1]
    BY <1>2, <2>2, WithoutOne
  <2>6. /\ q \in Seq(S) /\ Len(q) = m - 1
        /\ \A i \in 1..m - 1 : q[i] = IF i < k THEN t[i] ELSE t[i + 1]
    BY <1>1, WithoutOne
  <2>7. /\ m \in Nat /\ n \in Nat /\ k \in 1..m
        /\ Len(u) = n + m /\ Len(cs) = n
    BY <1>2 DEF n
  <2> HIDE DEF p, q, m
  <2>8. /\ cs \o q \in Seq(S) /\ Len(cs \o q) = n + m - 1
        /\ \A i \in 1..n + m - 1 :
             (cs \o q)[i] = IF i <= n THEN cs[i] ELSE q[i - n]
    <3>1. Len(cs) + Len(q) = n + m - 1
      BY <2>6, <2>7
    <3>2. /\ cs \o q \in Seq(S) /\ Len(cs \o q) = Len(cs) + Len(q)
          /\ \A i \in 1..Len(cs) + Len(q) :
               (cs \o q)[i] = IF i <= Len(cs) THEN cs[i] ELSE q[i - Len(cs)]
      BY <1>1, <2>6, ConcatProperties
    <3>3. Len(cs) = n
      BY <2>7
    <3> QED BY <3>1, <3>2, <3>3
  <2>9. ASSUME NEW i \in 1..n + m - 1
        PROVE  p[i] = (cs \o q)[i]
    <3>1. CASE i <= n
      <4>1. i < n + k /\ i \in 1..n
        BY <2>7, <3>1
      <4>2. p[i] = u[i]
        BY <2>5, <2>7, <4>1
      <4>3. (cs \o q)[i] = cs[i]
        BY <2>8, <3>1
      <4> QED BY <1>2, <4>1, <4>2, <4>3
    <3>2. CASE n < i /\ i < n + k
      <4>1. i - n \in 1..m - 1 /\ i - n \in 1..m /\ i - n < k
            /\ n + (i - n) = i /\ ~(i <= n)
        BY <2>7, <3>2
      <4>2. p[i] = u[i] /\ (cs \o q)[i] = q[i - n] /\ q[i - n] = t[i - n]
        BY <2>5, <2>6, <2>7, <2>8, <3>2, <4>1
      <4>3. u[n + (i - n)] = t[i - n]
        BY <1>2, <4>1 DEF m
      <4> QED BY <4>1, <4>2, <4>3
    <3>3. CASE n + k <= i
      <4>1. /\ i - n \in 1..m - 1 /\ i - n + 1 \in 1..m /\ ~(i - n < k)
            /\ n + (i - n + 1) = i + 1 /\ ~(i <= n) /\ ~(i < n + k)
        BY <2>7, <3>3
      <4>2. /\ p[i] = u[i + 1] /\ (cs \o q)[i] = q[i - n]
            /\ q[i - n] = t[i - n + 1]
        BY <2>5, <2>6, <2>7, <2>8, <4>1
      <4>3. u[n + (i - n + 1)] = t[i - n + 1]
        BY <1>2, <4>1 DEF m
      <4> QED BY <4>1, <4>2, <4>3
    <3>4. i \in Int /\ n \in Int /\ n + k \in Int
      BY <2>7
    <3>5. i <= n \/ (n < i /\ i < n + k) \/ n + k <= i
      BY <3>4
    <3> QED BY <3>1, <3>2, <3>3, <3>5
  <2>10. p = cs \o q
    <3>1. Len(p) = n + m - 1 /\ Len(cs \o q) = n + m - 1
      BY <2>5, <2>7, <2>8
    <3> QED BY <2>5, <2>8, <2>9, <3>1, SeqEqual
  <2> QED BY <1>4, <2>3, <2>4, <2>10 DEF p, q, u
<1> QED BY <1>5, <1>6

\* What is left is a sequence.
LEMMA StepsAreSeq ==
  ASSUME NEW t, WellFormed(t)
  PROVE  IsSeq(WorkerSteps(t))
<1>1. CASE Plain(t)
  BY <1>1, NothingToTake DEF Plain
<1>2. CASE ~Plain(t)
  <2>1. PICK k \in 1..Len(t) : t[k].op \in ProfileOps
    BY <1>2 DEF Plain, WellFormed
  <2>2. PICK S : t \in Seq(S)
    BY DEF WellFormed, IsSeq
  <2>3. RemoveAt(t, k) \in Seq(S)
    BY <2>2, WithoutOne
  <2> QED BY <2>1, <2>3, Taken DEF IsSeq
<1> QED BY <1>1, <1>2

\* The next step is the one about profiles.
LEMMA ProfileFirst ==
  ASSUME NEW t, WellFormed(t), t # <<>>, Head(t).op \in ProfileOps
  PROVE  /\ Head(t) \in ProfileStep
         /\ Plain(Tail(t))
         /\ WorkerSteps(t) = Tail(t)
<1>1. PICK S : t \in Seq(S)
  BY DEF WellFormed, IsSeq
<1>2. 1 \in 1..Len(t) /\ Head(t) = t[1]
  BY <1>1
<1>3. /\ Tail(t) \in Seq(S) /\ Len(Tail(t)) = Len(t) - 1
      /\ \A i \in 1..Len(t) - 1 : Tail(t)[i] = t[i + 1]
  BY <1>1
<1>4. \A i \in 1..Len(t) - 1 :
        i + 1 \in 1..Len(t) /\ i + 1 # 1 /\ t[i + 1].op \notin ProfileOps
  BY <1>1, <1>2 DEF WellFormed
<1>5. Plain(Tail(t))
  BY <1>3, <1>4 DEF Plain, IsSeq
<1>6. WorkerSteps(t) = RemoveAt(t, 1)
  BY <1>2, Taken
<1>7. RemoveAt(t, 1) = <<>> \o Tail(t)
  <2>1. SubSeq(t, 1, 1 - 1) = <<>>
    BY SubSeqEmpty
  <2>2. SubSeq(t, 1 + 1, Len(t)) = Tail(t)
    BY <1>1, TailIsSubSeq
  <2> QED BY <2>1, <2>2 DEF RemoveAt
<1>8. <<>> \o Tail(t) = Tail(t)
  BY <1>3
<1> QED BY <1>2, <1>5, <1>6, <1>7, <1>8 DEF WellFormed

\* It is not.
LEMMA WorkerFirst ==
  ASSUME NEW t, WellFormed(t), t # <<>>, Head(t).op \notin ProfileOps
  PROVE  /\ WellFormed(Tail(t))
         /\ WorkerSteps(t) # <<>>
         /\ Head(WorkerSteps(t)) = Head(t)
         /\ Tail(WorkerSteps(t)) = WorkerSteps(Tail(t))
<1>1. PICK S : t \in Seq(S)
  BY DEF WellFormed, IsSeq
<1> DEFINE x == Head(t)
           r == Tail(t)
<1>2. /\ r \in Seq(S) /\ x \in S /\ t = <<x>> \o r /\ x = t[1]
      /\ Len(r) = Len(t) - 1
      /\ \A i \in 1..Len(r) : r[i] = t[i + 1] /\ i + 1 \in 1..Len(t)
  BY <1>1
<1>3. Plain(<<x>>)
  BY <1>2 DEF Plain, IsSeq
<1>4. WellFormed(r)
  <2>1. IsSeq(r)
    BY <1>2 DEF IsSeq
  <2>2. \A i, j \in 1..Len(r) :
          r[i].op \in ProfileOps /\ r[j].op \in ProfileOps => i = j
    <3> TAKE i, j \in 1..Len(r)
    <3>1. r[i].op \in ProfileOps /\ r[j].op \in ProfileOps => i + 1 = j + 1
      BY <1>2 DEF WellFormed
    <3> QED BY <1>2, <3>1
  <2>3. \A i \in 1..Len(r) : r[i].op \in ProfileOps => r[i] \in ProfileStep
    BY <1>2 DEF WellFormed
  <2> QED BY <2>1, <2>2, <2>3 DEF WellFormed
<1> HIDE DEF x, r
<1>5. WorkerSteps(t) = <<x>> \o WorkerSteps(r)
  BY <1>2, <1>3, <1>4, PlainInFront
<1>6. PICK U : WorkerSteps(r) \in Seq(U) /\ <<x>> \in Seq(U)
  <2>1. IsSeq(WorkerSteps(r)) /\ IsSeq(<<x>>)
    BY <1>3, <1>4, StepsAreSeq DEF Plain
  <2> QED BY <2>1, CommonRange
<1>7. ASSUME NEW q \in Seq(U), <<x>> \in Seq(U)
      PROVE  /\ <<x>> \o q # <<>> /\ Head(<<x>> \o q) = x
             /\ Tail(<<x>> \o q) = q
  OBVIOUS
<1> QED BY <1>4, <1>5, <1>6, <1>7 DEF x, r

\* A profile step in front of plain ones.
LEMMA ProfileInFront ==
  ASSUME NEW x \in ProfileStep, NEW t, Plain(t)
  PROVE  WellFormed(<<x>> \o t) /\ WorkerSteps(<<x>> \o t) = t
<1>1. x.op \in ProfileOps
  BY DEF ProfileStep, ProfileOps
<1>2. PICK A : t \in Seq(A)
  BY DEF Plain, IsSeq
<1> DEFINE S == A \cup {x}
           u == <<x>> \o t
<1>3. /\ u \in Seq(S) /\ Len(u) = Len(t) + 1 /\ u[1] = x /\ u # <<>>
      /\ Head(u) = x /\ Tail(u) = t
      /\ \A i \in 1..Len(u) : i # 1 => i - 1 \in 1..Len(t) /\ u[i] = t[i - 1]
  <2>1. t \in Seq(S) /\ <<x>> \in Seq(S)
    BY <1>2
  <2> QED BY <2>1
<1> HIDE DEF S, u
<1>4. \A i \in 1..Len(u) : i # 1 => u[i].op \notin ProfileOps
  BY <1>3 DEF Plain
<1>5. WellFormed(u)
  BY <1>3, <1>4 DEF WellFormed, IsSeq
<1> QED BY <1>1, <1>3, <1>5, ProfileFirst DEF u

\* The steps about profiles among them.
Pending(t) == {t[i] : i \in {j \in 1..Len(t) : t[j].op \in ProfileOps}}

\* There are none, or the first, or as many as there were.
LEMMA PendingSteps ==
  ASSUME NEW t, WellFormed(t)
  PROVE  /\ Plain(t) => Pending(t) = {}
         /\ t # <<>> /\ Head(t).op \in ProfileOps => Pending(t) = {Head(t)}
         /\ t # <<>> /\ Head(t).op \notin ProfileOps =>
              Pending(t) = Pending(Tail(t))
<1>1. PICK S : t \in Seq(S)
  BY DEF WellFormed, IsSeq
<1>2. Plain(t) => Pending(t) = {}
  BY DEF Plain, Pending
<1>3. ASSUME t # <<>>
      PROVE  /\ 1 \in 1..Len(t) /\ Head(t) = t[1]
             /\ Len(Tail(t)) = Len(t) - 1
             /\ \A i \in 1..Len(t) - 1 :
                  Tail(t)[i] = t[i + 1] /\ i + 1 \in 1..Len(t)
             /\ \A i \in 1..Len(t) : i # 1 => i - 1 \in 1..Len(t) - 1
  BY <1>1, <1>3
<1>4. ASSUME t # <<>>, Head(t).op \in ProfileOps
      PROVE  Pending(t) = {Head(t)}
  <2>1. {j \in 1..Len(t) : t[j].op \in ProfileOps} = {1}
    BY <1>3, <1>4 DEF WellFormed
  <2> QED BY <1>3, <1>4, <2>1 DEF Pending
<1>5. ASSUME t # <<>>, Head(t).op \notin ProfileOps
      PROVE  Pending(t) = Pending(Tail(t))
  <2>1. Pending(Tail(t)) \subseteq Pending(t)
    BY <1>3, <1>5 DEF Pending
  <2>2. ASSUME NEW i \in 1..Len(t), t[i].op \in ProfileOps
        PROVE  t[i] \in Pending(Tail(t))
    <3>1. i # 1 /\ i - 1 \in 1..Len(t) - 1
      BY <1>3, <1>5, <2>2
    <3>2. Tail(t)[i - 1] = t[i] /\ i - 1 \in 1..Len(Tail(t))
      <4>1. (i - 1) + 1 = i
        BY <1>1
      <4> QED BY <1>3, <1>5, <3>1, <4>1
    <3> QED BY <2>2, <3>2 DEF Pending
  <2>3. Pending(t) \subseteq Pending(Tail(t))
    BY <2>2 DEF Pending
  <2> QED BY <2>1, <2>3
<1> QED BY <1>2, <1>4, <1>5

\* Plain ones in front make no difference.
LEMMA PendingInFront ==
  ASSUME NEW cs, Plain(cs), NEW t, WellFormed(t)
  PROVE  Pending(cs \o t) = Pending(t)
<1>1. PICK S : cs \in Seq(S) /\ t \in Seq(S)
  BY CommonRange DEF Plain, WellFormed
<1> DEFINE n == Len(cs)
           u == cs \o t
<1>2. /\ Len(u) = n + Len(t) /\ n \in Nat /\ Len(t) \in Nat
      /\ \A i \in 1..n : u[i] = cs[i]
      /\ \A i \in 1..Len(t) : u[n + i] = t[i] /\ n + i \in 1..Len(u)
  BY <1>1
<1> HIDE DEF u, n
<1>3. \A i \in 1..Len(u) :
        u[i].op \in ProfileOps => i - n \in 1..Len(t) /\ u[i] = t[i - n]
  <2> TAKE i \in 1..Len(u)
  <2>1. CASE i <= n
    BY <1>2, <2>1 DEF Plain, n
  <2>2. CASE i > n
    <3>1. i - n \in 1..Len(t) /\ n + (i - n) = i
      BY <1>2, <2>2
    <3> QED BY <1>2, <3>1
  <2> QED BY <1>2, <2>1, <2>2
<1>4. Pending(t) \subseteq Pending(u)
  BY <1>2 DEF Pending
<1>5. Pending(u) \subseteq Pending(t)
  BY <1>3 DEF Pending
<1> QED BY <1>4, <1>5 DEF u

\* A profile step in front of plain ones is the one there is.
LEMMA PendingAlone ==
  ASSUME NEW x \in ProfileStep, NEW t, Plain(t)
  PROVE  Pending(<<x>> \o t) = {x}
<1>1. PICK A : t \in Seq(A)
  BY DEF Plain, IsSeq
<1>2. /\ <<x>> \o t # <<>> /\ Head(<<x>> \o t) = x
  <2>1. t \in Seq(A \cup {x}) /\ <<x>> \in Seq(A \cup {x})
    BY <1>1
  <2> QED BY <2>1
<1>3. x.op \in ProfileOps
  BY DEF ProfileStep, ProfileOps
<1> QED BY <1>2, <1>3, ProfileInFront, PendingSteps

\* The last of them publishes a snapshot.
Published(t) == t # <<>> /\ t[Len(t)].op = "Publish"

\* So does the last of them with others in front.
LEMMA PublishedInFront ==
  ASSUME NEW cs, IsSeq(cs), NEW t, IsSeq(t), Published(t)
  PROVE  Published(cs \o t)
<1>1. PICK S : cs \in Seq(S) /\ t \in Seq(S)
  BY CommonRange
<1>2. /\ cs \o t # <<>> /\ Len(cs \o t) = Len(cs) + Len(t)
      /\ (cs \o t)[Len(cs) + Len(t)] = t[Len(t)]
  BY <1>1 DEF Published
<1> QED BY <1>2 DEF Published

\* And without the first, if that is another.
LEMMA PublishedAfter ==
  ASSUME NEW t, IsSeq(t), Published(t), Head(t).op # "Publish"
  PROVE  Published(Tail(t))
<1>1. PICK S : t \in Seq(S)
  BY DEF IsSeq
<1>2. t # <<>> /\ Head(t) = t[1] /\ Len(t) \in Nat /\ Len(t) # 0
  BY <1>1 DEF Published
<1>3. Len(t) # 1
  BY <1>2 DEF Published
<1>4. /\ Tail(t) # <<>> /\ Len(Tail(t)) = Len(t) - 1
      /\ Tail(t)[Len(t) - 1] = t[Len(t)]
  <2>1. /\ Tail(t) \in Seq(S) /\ Len(Tail(t)) = Len(t) - 1
        /\ \A i \in 1..Len(t) - 1 : Tail(t)[i] = t[i + 1]
    BY <1>1, <1>2
  <2>2. \A n \in Nat : n # 0 /\ n # 1 => n - 1 \in 1..n - 1 /\ (n - 1) + 1 = n
    OBVIOUS
  <2>3. Len(t) - 1 \in 1..Len(t) - 1 /\ (Len(t) - 1) + 1 = Len(t)
    BY <1>2, <1>3, <2>2
  <2>4. Tail(t)[Len(t) - 1] = t[(Len(t) - 1) + 1]
    BY <2>1, <2>3
  <2>5. \A q \in Seq(S) : Len(q) # 0 => q # <<>>
    OBVIOUS
  <2>6. Tail(t) # <<>>
    <3>1. Len(Tail(t)) # 0
      BY <2>1, <2>3
    <3> QED BY <2>1, <2>5, <3>1
  <2> QED BY <2>1, <2>3, <2>4, <2>6
<1> QED BY <1>4 DEF Published

\* What comes next leaves the step about profiles where it is, and a snapshot
\* to be published.
Follows(t) ==
  /\ WellFormed(todo')
  /\ Pending(todo') = Pending(t)
  /\ Published(t) => Published(todo')

-----------------------------------------------------------------------------
(* The Machine's handlers, as the worker in the applet sees them *)

\* Batches without a step about profiles.
LEMMA PlainOnes ==
  /\ Plain(<<>>)
  /\ \A x : x.op \notin ProfileOps => Plain(<<x>>)
  /\ \A x, y : x.op \notin ProfileOps /\ y.op \notin ProfileOps => Plain(<<x, y>>)
  /\ \A x, y, z :
       x.op \notin ProfileOps /\ y.op \notin ProfileOps /\ z.op \notin ProfileOps
         => Plain(<<x, y, z>>)
<1>1. Plain(<<>>)
  <2>1. <<>> \in Seq({})
    OBVIOUS
  <2> QED BY <2>1 DEF Plain, IsSeq
<1>2. ASSUME NEW x, x.op \notin ProfileOps
      PROVE  Plain(<<x>>)
  <2>1. <<x>> \in Seq({x})
    OBVIOUS
  <2>2. \A i \in 1..Len(<<x>>) : <<x>>[i] \in {x}
    BY <2>1
  <2>3. \A a \in {x} : a.op \notin ProfileOps
    BY <1>2
  <2> QED BY <2>1, <2>2, <2>3 DEF Plain, IsSeq
<1>3. ASSUME NEW x, NEW y, x.op \notin ProfileOps, y.op \notin ProfileOps
      PROVE  Plain(<<x, y>>)
  <2>1. <<x, y>> \in Seq({x, y})
    OBVIOUS
  <2>2. \A i \in 1..Len(<<x, y>>) : <<x, y>>[i] \in {x, y}
    BY <2>1
  <2>3. \A a \in {x, y} : a.op \notin ProfileOps
    BY <1>3
  <2> QED BY <2>1, <2>2, <2>3 DEF Plain, IsSeq
<1>4. ASSUME NEW x, NEW y, NEW z, x.op \notin ProfileOps,
             y.op \notin ProfileOps, z.op \notin ProfileOps
      PROVE  Plain(<<x, y, z>>)
  <2>1. <<x, y, z>> \in Seq({x, y, z})
    OBVIOUS
  <2>2. \A i \in 1..Len(<<x, y, z>>) : <<x, y, z>>[i] \in {x, y, z}
    BY <2>1
  <2>3. \A a \in {x, y, z} : a.op \notin ProfileOps
    BY <1>4
  <2> QED BY <2>1, <2>2, <2>3 DEF Plain, IsSeq
<1> QED BY <1>1, <1>2, <1>3, <1>4

\* The commands of the Machine are none of the profiles' steps.
LEMMA PlainBatches ==
  /\ Plain(<<>>) /\ Plain(<<ClosePrompt>>)
  /\ \A c : Plain(<<NewTunnel(c)>>)
  /\ \A s : /\ Plain(<<Note(s)>>) /\ Plain(<<Disconnect(s)>>)
            /\ Plain(<<Connect(s)>>) /\ Plain(<<Note(s), Disconnect(s)>>)
            /\ Plain(<<ClosePrompt, Disconnect(s)>>) /\ Plain(StartUp(s))
            /\ \A gs : Plain(<<OpenPrompt(s, gs)>>) /\ Plain(Resume(s, gs))
<1>1. /\ ClosePrompt.op \notin ProfileOps
      /\ \A c : NewTunnel(c).op \notin ProfileOps
      /\ \A s : /\ Note(s).op \notin ProfileOps
                /\ Disconnect(s).op \notin ProfileOps
                /\ Connect(s).op \notin ProfileOps
                /\ EnableLogForward(s).op \notin ProfileOps
                /\ CheckReady(s).op \notin ProfileOps
                /\ \A gs : /\ OpenPrompt(s, gs).op \notin ProfileOps
                           /\ ProvideInput(s, gs).op \notin ProfileOps
  BY DEF ProfileOps, ClosePrompt, NewTunnel, Note, Disconnect, Connect,
         EnableLogForward, CheckReady, OpenPrompt, ProvideInput
<1> QED BY <1>1, PlainOnes DEF StartUp, Resume

\* Both modules have the same commands.
LEMMA SameCommands ==
  /\ WorkerPart!ClosePrompt = ClosePrompt
  /\ \A c : WorkerPart!NewTunnel(c) = NewTunnel(c)
  /\ \A s : /\ WorkerPart!Note(s) = Note(s)
            /\ WorkerPart!Disconnect(s) = Disconnect(s)
            /\ WorkerPart!Connect(s) = Connect(s)
            /\ WorkerPart!StartUp(s) = StartUp(s)
            /\ \A gs : /\ WorkerPart!OpenPrompt(s, gs) = OpenPrompt(s, gs)
                       /\ WorkerPart!Resume(s, gs) = Resume(s, gs)
BY DEF WorkerPart!ClosePrompt, ClosePrompt, WorkerPart!NewTunnel, NewTunnel,
       WorkerPart!Note, Note, WorkerPart!Disconnect, Disconnect,
       WorkerPart!Connect, Connect, WorkerPart!StartUp, StartUp,
       WorkerPart!EnableLogForward, EnableLogForward,
       WorkerPart!CheckReady, CheckReady, WorkerPart!OpenPrompt, OpenPrompt,
       WorkerPart!Resume, Resume, WorkerPart!ProvideInput, ProvideInput

\* So a batch of them comes in front of what is left in either.
LEMMA ReturnsMaps ==
  ASSUME NEW cs, Plain(cs), NEW rest, WellFormed(rest), Returns(cs, rest)
  PROVE  Follows(rest) /\ WorkerPart!Returns(cs, WorkerSteps(rest))
<1>1. IsSeq(cs) /\ IsSeq(rest)
  BY DEF Plain, WellFormed
<1> QED BY <1>1, PlainInFront, PendingInFront, PublishedInFront
        DEF Returns, WorkerPart!Returns, Follows

\* And so does each handler.
LEMMA IgnoredMaps ==
  ASSUME NEW rest, WellFormed(rest), Ignored(rest)
  PROVE  Follows(rest) /\ WorkerPart!Ignored(WorkerSteps(rest))
BY ReturnsMaps, PlainBatches
   DEF Ignored, WorkerPart!Ignored, machineVars, WorkerPart!machineVars

\* finish_teardown.
LEMMA FinishTeardownMaps ==
  ASSUME NEW rest, WellFormed(rest), FinishTeardown(rest)
  PROVE  Follows(rest) /\ WorkerPart!FinishTeardown(WorkerSteps(rest))
BY ReturnsMaps, PlainBatches, SameCommands
   DEF FinishTeardown, WorkerPart!FinishTeardown,
       StateOnceGone, WorkerPart!StateOnceGone

\* apply_status.
LEMMA ApplyStatusMaps ==
  ASSUME NEW s, NEW x, NEW rest, WellFormed(rest), ApplyStatus(s, x, rest)
  PROVE  Follows(rest) /\ WorkerPart!ApplyStatus(s, x, WorkerSteps(rest))
BY ReturnsMaps, PlainBatches, SameCommands
   DEF ApplyStatus, WorkerPart!ApplyStatus, ClosesPrompt,
       WorkerPart!ClosesPrompt, ConnectionState, WorkerPart!ConnectionState,
       NoChange, WorkerPart!NoChange

\* The events, one by one.
LEMMA ProfileSelectedMaps ==
  ASSUME NEW c, NEW rest, WellFormed(rest), ProfileSelected(c, rest)
  PROVE  Follows(rest) /\ WorkerPart!ProfileSelected(c, WorkerSteps(rest))
BY ReturnsMaps, PlainBatches, SameCommands
   DEF ProfileSelected, WorkerPart!ProfileSelected

\* DisconnectRequested.
LEMMA DisconnectRequestedMaps ==
  ASSUME NEW rest, WellFormed(rest), DisconnectRequested(rest)
  PROVE  Follows(rest) /\ WorkerPart!DisconnectRequested(WorkerSteps(rest))
BY ReturnsMaps, PlainBatches, SameCommands
   DEF DisconnectRequested, WorkerPart!DisconnectRequested

\* SessionCreated.
LEMMA SessionCreatedMaps ==
  ASSUME NEW s, NEW rest, WellFormed(rest), SessionCreated(s, rest)
  PROVE  Follows(rest) /\ WorkerPart!SessionCreated(s, WorkerSteps(rest))
BY ReturnsMaps, PlainBatches, SameCommands
   DEF SessionCreated, WorkerPart!SessionCreated

\* SessionReady.
LEMMA SessionReadyMaps ==
  ASSUME NEW s, NEW rest, WellFormed(rest), SessionReady(s, rest)
  PROVE  Follows(rest) /\ WorkerPart!SessionReady(s, WorkerSteps(rest))
BY ReturnsMaps, PlainBatches, SameCommands, IgnoredMaps
   DEF SessionReady, WorkerPart!SessionReady

\* ExternalSessionSeen.
LEMMA ExternalSessionSeenMaps ==
  ASSUME NEW s, NEW x, NEW rest, WellFormed(rest), ExternalSessionSeen(s, x, rest)
  PROVE  /\ Follows(rest)
         /\ WorkerPart!ExternalSessionSeen(s, x, WorkerSteps(rest))
BY IgnoredMaps, ApplyStatusMaps
   DEF ExternalSessionSeen, WorkerPart!ExternalSessionSeen

\* StatusChanged.
LEMMA StatusChangedMaps ==
  ASSUME NEW s, NEW x, NEW rest, WellFormed(rest), StatusChanged(s, x, rest)
  PROVE  Follows(rest) /\ WorkerPart!StatusChanged(s, x, WorkerSteps(rest))
BY IgnoredMaps, ApplyStatusMaps, FinishTeardownMaps
   DEF StatusChanged, WorkerPart!StatusChanged

\* SessionRemoved.
LEMMA SessionRemovedMaps ==
  ASSUME NEW s, NEW rest, WellFormed(rest), SessionRemoved(s, rest)
  PROVE  Follows(rest) /\ WorkerPart!SessionRemoved(s, WorkerSteps(rest))
BY ReturnsMaps, PlainBatches, IgnoredMaps, FinishTeardownMaps
   DEF SessionRemoved, WorkerPart!SessionRemoved,
       StateOnceGone, WorkerPart!StateOnceGone

\* CredentialsRequired and AttentionRequired.
LEMMA CredentialsRequiredMaps ==
  ASSUME NEW s, NEW gs, NEW rest, WellFormed(rest),
         CredentialsRequired(s, gs, rest)
  PROVE  /\ Follows(rest)
         /\ WorkerPart!CredentialsRequired(s, gs, WorkerSteps(rest))
BY ReturnsMaps, PlainBatches, SameCommands, IgnoredMaps
   DEF CredentialsRequired, WorkerPart!CredentialsRequired

\* PromptSubmitted.
LEMMA PromptSubmittedMaps ==
  ASSUME NEW s, NEW gs, NEW rest, WellFormed(rest), PromptSubmitted(s, gs, rest)
  PROVE  /\ Follows(rest)
         /\ WorkerPart!PromptSubmitted(s, gs, WorkerSteps(rest))
BY ReturnsMaps, PlainBatches, SameCommands, IgnoredMaps
   DEF PromptSubmitted, WorkerPart!PromptSubmitted

\* PromptCancelled.
LEMMA PromptCancelledMaps ==
  ASSUME NEW s, NEW rest, WellFormed(rest), PromptCancelled(s, rest)
  PROVE  Follows(rest) /\ WorkerPart!PromptCancelled(s, WorkerSteps(rest))
BY ReturnsMaps, PlainBatches, SameCommands, IgnoredMaps
   DEF PromptCancelled, WorkerPart!PromptCancelled

\* FailureDismissed.
LEMMA FailureDismissedMaps ==
  ASSUME NEW rest, WellFormed(rest), FailureDismissed(rest)
  PROVE  Follows(rest) /\ WorkerPart!FailureDismissed(WorkerSteps(rest))
BY ReturnsMaps, PlainBatches
   DEF FailureDismissed, WorkerPart!FailureDismissed

-----------------------------------------------------------------------------
(* The worker's steps, as the worker in the applet sees them *)

\* The step being done, and what comes after it.
LEMMA DoingMaps ==
  ASSUME WellFormed(todo), NEW op, op \notin ProfileOps, Doing(op)
  PROVE  /\ WellFormed(Rest)
         /\ Pending(Rest) = Pending(todo)
         /\ op # "Publish" /\ Follows(Rest) => Follows(todo)
         /\ WorkerPart!Doing(op)
         /\ Head(WorkerSteps(todo)) = Head(todo)
         /\ WorkerPart!Rest = WorkerSteps(Rest)
<1>1. IsSeq(todo)
  BY DEF WellFormed
<1>2. op # "Publish" /\ Published(todo) => Published(Rest)
  BY <1>1, PublishedAfter DEF Doing, Rest
<1> QED BY <1>2, WorkerFirst, PendingSteps
        DEF Doing, WorkerPart!Doing, Rest, WorkerPart!Rest, Follows

\* It is done.
LEMMA DoneMaps ==
  ASSUME WellFormed(todo), NEW op, op \notin ProfileOps, Doing(op), Done
  PROVE  /\ WellFormed(todo') /\ Pending(todo') = Pending(todo)
         /\ op # "Publish" => Follows(todo)
         /\ WorkerPart!Done
BY DoingMaps DEF Done, WorkerPart!Done, Follows

\* Its answer is to be handled.
LEMMA AnswerMaps ==
  ASSUME WellFormed(todo), NEW op, op \notin ProfileOps \cup {"Publish"},
         Doing(op), NEW x, x.op \notin ProfileOps, Returns(<<x>>, Rest)
  PROVE  Follows(todo) /\ WorkerPart!Returns(<<x>>, WorkerPart!Rest)
BY DoingMaps, PlainOnes, ReturnsMaps

\* Any call but NewTunnel fails in the one as in the other.
LEMMA SameFailures ==
  /\ \A call : call # "NewTunnel" => (WorkerPart!Fails(call) <=> Fails(call))
  /\ WorkerPart!Fails("NewTunnel")
BY DEF WorkerPart!Fails, Fails

\* The variables but todo are the same.
LEMMA SameVariables ==
  /\ WorkerPart!machineVars = machineVars
  /\ WorkerPart!openvpn3Vars = openvpn3Vars
  /\ WorkerPart!serviceVars = serviceVars
  /\ WorkerPart!queueVars = queueVars
  /\ WorkerPart!machineVars' = machineVars'
  /\ WorkerPart!openvpn3Vars' = openvpn3Vars'
  /\ WorkerPart!serviceVars' = serviceVars'
  /\ WorkerPart!queueVars' = queueVars'
  /\ \A s : WorkerPart!Exists(s) <=> Exists(s)
  /\ \A s : WorkerPart!Running(s) <=> Running(s)
BY DEF WorkerPart!machineVars, machineVars, WorkerPart!openvpn3Vars,
       openvpn3Vars, WorkerPart!serviceVars, serviceVars,
       WorkerPart!queueVars, queueVars, WorkerPart!Exists, Exists,
       WorkerPart!Running, Running

\* adopt_existing_sessions.
LEMMA AdoptExistingMaps ==
  ASSUME WellFormed(todo), AdoptExisting
  PROVE  Follows(todo) /\ WorkerPart!AdoptExisting
<1>1. "Adopt" \notin ProfileOps /\ Doing("Adopt")
  BY DEF AdoptExisting, ProfileOps
<1>2. CASE /\ Fails("List") \/ Fails("Status") \/ \A s \in Session : ~Exists(s)
           /\ Done
  BY <1>1, <1>2, DoingMaps, DoneMaps, SameFailures, SameVariables
     DEF AdoptExisting, WorkerPart!AdoptExisting
<1>3. ASSUME NEW s \in Session, Exists(s), Returns(<<AdoptAs(s, real[s])>>, Rest)
      PROVE  Follows(todo) /\ WorkerPart!AdoptExisting
  <2>1. /\ AdoptAs(s, real[s]).op \notin ProfileOps
        /\ WorkerPart!AdoptAs(s, real[s]) = AdoptAs(s, real[s])
    BY DEF AdoptAs, WorkerPart!AdoptAs, ProfileOps
  <2>2. /\ Follows(todo)
        /\ WorkerPart!Returns(<<AdoptAs(s, real[s])>>, WorkerPart!Rest)
    BY <1>1, <1>3, <2>1, AnswerMaps
  <2>3. UNCHANGED <<machineVars, openvpn3Vars, prompt, shown, intent>>
    BY DEF AdoptExisting
  <2> QED BY <1>1, <1>3, <2>1, <2>2, <2>3, DoingMaps, SameVariables
          DEF WorkerPart!AdoptExisting
<1> QED BY <1>2, <1>3 DEF AdoptExisting

\* The handling of what was found.
LEMMA AdoptStatusReadMaps ==
  ASSUME WellFormed(todo), AdoptStatusRead
  PROVE  Follows(todo) /\ WorkerPart!AdoptStatusRead
<1> DEFINE s == Head(todo).session
           x == Head(todo).status
           y == SubscribeTo(s)
<1>1. "AdoptAs" \notin ProfileOps /\ Doing("AdoptAs")
  BY DEF AdoptStatusRead, ProfileOps
<1>2. y.op \notin ProfileOps /\ WorkerPart!SubscribeTo(s) = y
  BY DEF SubscribeTo, WorkerPart!SubscribeTo, ProfileOps
<1>3. ExternalSessionSeen(s, x, <<y>> \o Rest)
  BY DEF AdoptStatusRead
<1> HIDE DEF y
<1>4. Plain(<<y>>) /\ WellFormed(Rest)
  BY <1>1, <1>2, PlainOnes, DoingMaps
<1>5. /\ WellFormed(<<y>> \o Rest)
      /\ WorkerSteps(<<y>> \o Rest) = <<y>> \o WorkerSteps(Rest)
      /\ Pending(<<y>> \o Rest) = Pending(Rest)
      /\ Published(Rest) => Published(<<y>> \o Rest)
  BY <1>4, PlainInFront, PendingInFront, PublishedInFront DEF Plain, WellFormed
<1>6. /\ Follows(<<y>> \o Rest)
      /\ WorkerPart!ExternalSessionSeen(s, x, <<y>> \o WorkerSteps(Rest))
  BY <1>3, <1>5, ExternalSessionSeenMaps
<1>7. Follows(todo)
  BY <1>1, <1>5, <1>6, DoingMaps DEF Follows
<1> QED BY <1>1, <1>2, <1>6, <1>7, DoingMaps, SameVariables
        DEF AdoptStatusRead, WorkerPart!AdoptStatusRead

\* The steps that are one call whose answer is not looked at.
LEMMA SimpleCallsMap ==
  ASSUME WellFormed(todo)
  PROVE  /\ SubscribeSession => Follows(todo) /\ WorkerPart!SubscribeSession
         /\ WatchSessionManager =>
              Follows(todo) /\ WorkerPart!WatchSessionManager
         /\ ExecEnableLogForward =>
              Follows(todo) /\ WorkerPart!ExecEnableLogForward
         /\ ExecConnect => Follows(todo) /\ WorkerPart!ExecConnect
         /\ ExecDisconnect => Follows(todo) /\ WorkerPart!ExecDisconnect
         /\ ExecClosePrompt => Follows(todo) /\ WorkerPart!ExecClosePrompt
         /\ ExecNote => Follows(todo) /\ WorkerPart!ExecNote
<1>1. /\ "SubscribeTo" \notin ProfileOps /\ "WatchManager" \notin ProfileOps
      /\ "EnableLogForward" \notin ProfileOps /\ "Connect" \notin ProfileOps
      /\ "Disconnect" \notin ProfileOps /\ "ClosePrompt" \notin ProfileOps
      /\ "Note" \notin ProfileOps
  BY DEF ProfileOps
<1> USE DoingMaps, DoneMaps, SameFailures, SameVariables
<1>2. SubscribeSession => Follows(todo) /\ WorkerPart!SubscribeSession
  BY <1>1 DEF SubscribeSession, WorkerPart!SubscribeSession,
              Subscribe, WorkerPart!Subscribe
<1>3. WatchSessionManager => Follows(todo) /\ WorkerPart!WatchSessionManager
  BY <1>1 DEF WatchSessionManager, WorkerPart!WatchSessionManager,
              Watch, WorkerPart!Watch
<1>4. ExecEnableLogForward => Follows(todo) /\ WorkerPart!ExecEnableLogForward
  BY <1>1 DEF ExecEnableLogForward, WorkerPart!ExecEnableLogForward,
              ForwardLog, WorkerPart!ForwardLog
<1>5. ExecConnect => Follows(todo) /\ WorkerPart!ExecConnect
  BY <1>1 DEF ExecConnect, WorkerPart!ExecConnect, Dial, WorkerPart!Dial
<1>6. ExecDisconnect => Follows(todo) /\ WorkerPart!ExecDisconnect
  BY <1>1 DEF ExecDisconnect, WorkerPart!ExecDisconnect, Stop, WorkerPart!Stop
<1>7. ExecClosePrompt => Follows(todo) /\ WorkerPart!ExecClosePrompt
  BY <1>1 DEF ExecClosePrompt, WorkerPart!ExecClosePrompt
<1>8. ExecNote => Follows(todo) /\ WorkerPart!ExecNote
  BY <1>1 DEF ExecNote, WorkerPart!ExecNote
<1> QED BY <1>2, <1>3, <1>4, <1>5, <1>6, <1>7, <1>8

\* new_tunnel, its failure included.
LEMMA NewTunnelMaps ==
  ASSUME WellFormed(todo), TunnelStarts \/ TunnelRefused
  PROVE  Follows(todo) /\ WorkerPart!ExecNewTunnel
<1>1. "NewTunnel" \notin ProfileOps /\ Doing("NewTunnel")
  BY DEF TunnelStarts, TunnelRefused, ProfileOps
<1>2. CASE TunnelRefused
  BY <1>1, <1>2, DoingMaps, DoneMaps, SameFailures, SameVariables
     DEF TunnelRefused, WorkerPart!TunnelRefused, WorkerPart!ExecNewTunnel
<1>3. CASE TunnelStarts
  <2>1. PICK s \in Session, requests \in SUBSET Group :
          StartTunnel(s, requests) /\ Returns(<<Created(s)>>, Rest)
    BY <1>3 DEF TunnelStarts
  <2>2. /\ Created(s).op \notin ProfileOps
        /\ WorkerPart!Created(s) = Created(s)
    BY DEF Created, WorkerPart!Created, ProfileOps
  <2>3. /\ Follows(todo)
        /\ WorkerPart!Returns(<<Created(s)>>, WorkerPart!Rest)
    BY <1>1, <2>1, <2>2, AnswerMaps
  <2>4. WorkerPart!StartTunnel(s, requests)
    BY <2>1, SameVariables
       DEF StartTunnel, WorkerPart!StartTunnel, NoChange, WorkerPart!NoChange
  <2>5. WorkerPart!TunnelStarts
    BY <1>1, <1>3, <2>2, <2>3, <2>4, DoingMaps, SameVariables
       DEF TunnelStarts, WorkerPart!TunnelStarts
  <2> QED BY <2>3, <2>5 DEF WorkerPart!ExecNewTunnel
<1> QED BY <1>2, <1>3

\* The session is there.
LEMMA TunnelCreatedMaps ==
  ASSUME WellFormed(todo), TunnelCreated
  PROVE  Follows(todo) /\ WorkerPart!TunnelCreated
<1>1. "Created" \notin ProfileOps /\ Doing("Created")
  BY DEF TunnelCreated, ProfileOps
<1>2. /\ Follows(todo)
      /\ WorkerPart!SessionCreated(Head(todo).session, WorkerSteps(Rest))
  BY <1>1, DoingMaps, SessionCreatedMaps DEF TunnelCreated
<1> QED BY <1>1, <1>2, DoingMaps, SameVariables
        DEF TunnelCreated, WorkerPart!TunnelCreated, Subscribe,
            WorkerPart!Subscribe

\* drain_input_queue and the prompt.
LEMMA ExecOpenPromptMaps ==
  ASSUME WellFormed(todo), ExecOpenPrompt
  PROVE  Follows(todo) /\ WorkerPart!ExecOpenPrompt
<1>1. "OpenPrompt" \notin ProfileOps /\ Doing("OpenPrompt")
  BY DEF ExecOpenPrompt, ProfileOps
<1>2. \A s, gs : WorkerPart!Drained(s, gs) = Drained(s, gs)
  BY SameVariables, SameFailures DEF Drained, WorkerPart!Drained
<1> QED BY <1>1, <1>2, DoingMaps, DoneMaps, SameVariables
        DEF ExecOpenPrompt, WorkerPart!ExecOpenPrompt

\* The answers.
LEMMA ExecProvideInputMaps ==
  ASSUME WellFormed(todo), ExecProvideInput
  PROVE  Follows(todo) /\ WorkerPart!ExecProvideInput
<1>1. "ProvideInput" \notin ProfileOps /\ Doing("ProvideInput")
  BY DEF ExecProvideInput, ProfileOps
<1>2. /\ \A gs : WorkerPart!Accepted(gs) = Accepted(gs)
      /\ \A s : WorkerPart!NextRound(s) = NextRound(s)
  BY SameFailures
     DEF Accepted, WorkerPart!Accepted, NextRound, WorkerPart!NextRound
<1>3. \A s, gs, more : Answer(s, gs, more) => WorkerPart!Answer(s, gs, more)
  BY SameVariables DEF Answer, WorkerPart!Answer
<1> QED BY <1>1, <1>2, <1>3, DoingMaps, DoneMaps, SameVariables
        DEF ExecProvideInput, WorkerPart!ExecProvideInput

\* check_ready.
LEMMA ExecCheckReadyMaps ==
  ASSUME WellFormed(todo), ExecCheckReady
  PROVE  Follows(todo) /\ WorkerPart!ExecCheckReady
<1> DEFINE s == Head(todo).session
<1>1. "CheckReady" \notin ProfileOps /\ Doing("CheckReady")
  BY DEF ExecCheckReady, ProfileOps
<1>2. SessionReady(s, Rest) =>
        Follows(todo) /\ WorkerPart!SessionReady(s, WorkerPart!Rest)
  BY <1>1, DoingMaps, SessionReadyMaps
<1>3. Returns(<<AskQueue(s)>>, Rest) =>
        /\ Follows(todo)
        /\ WorkerPart!Returns(<<WorkerPart!AskQueue(s)>>, WorkerPart!Rest)
  <2>1. AskQueue(s).op \notin ProfileOps /\ WorkerPart!AskQueue(s) = AskQueue(s)
    BY DEF AskQueue, WorkerPart!AskQueue, ProfileOps
  <2> QED BY <1>1, <2>1, AnswerMaps
<1>4. Ignored(Rest) => Follows(todo) /\ WorkerPart!Ignored(WorkerPart!Rest)
  BY <1>1, DoingMaps, IgnoredMaps
<1> QED BY <1>1, <1>2, <1>3, <1>4, DoingMaps, SameVariables, SameFailures
        DEF ExecCheckReady, WorkerPart!ExecCheckReady

\* What is queued for the user.
LEMMA ExecAskQueueMaps ==
  ASSUME WellFormed(todo), ExecAskQueue
  PROVE  Follows(todo) /\ WorkerPart!ExecAskQueue
<1> DEFINE s == Head(todo).session
           gs == asks[s] \cap Recognised
<1>1. "AskQueue" \notin ProfileOps /\ Doing("AskQueue")
  BY DEF ExecAskQueue, ProfileOps
<1>2. CredentialsRequired(s, gs, Rest) =>
        /\ Follows(todo)
        /\ WorkerPart!CredentialsRequired(s, gs, WorkerPart!Rest)
  BY <1>1, DoingMaps, CredentialsRequiredMaps
<1>3. Ignored(Rest) => Follows(todo) /\ WorkerPart!Ignored(WorkerPart!Rest)
  BY <1>1, DoingMaps, IgnoredMaps
<1> QED BY <1>1, <1>2, <1>3, DoingMaps, SameVariables, SameFailures
        DEF ExecAskQueue, WorkerPart!ExecAskQueue

\* reconcile_teardown.
LEMMA ExecReconcileTeardownMaps ==
  ASSUME WellFormed(todo), ExecReconcileTeardown
  PROVE  Follows(todo) /\ WorkerPart!ExecReconcileTeardown
<1>1. "ReconcileTeardown" \notin ProfileOps /\ Doing("ReconcileTeardown")
  BY DEF ExecReconcileTeardown, ProfileOps
<1>2. SessionRemoved(awaitingTeardown, Rest) =>
        /\ Follows(todo)
        /\ WorkerPart!SessionRemoved(awaitingTeardown, WorkerPart!Rest)
  BY <1>1, DoingMaps, SessionRemovedMaps
<1>3. Ignored(Rest) => Follows(todo) /\ WorkerPart!Ignored(WorkerPart!Rest)
  BY <1>1, DoingMaps, IgnoredMaps
<1> QED BY <1>1, <1>2, <1>3, DoingMaps, SameVariables, SameFailures
        DEF ExecReconcileTeardown, WorkerPart!ExecReconcileTeardown

\* reconcile_active_status.
LEMMA ExecReconcileStatusMaps ==
  ASSUME WellFormed(todo), ExecReconcileStatus
  PROVE  Follows(todo) /\ WorkerPart!ExecReconcileStatus
<1> DEFINE y == StatusRead(active, real[active])
<1>1. "ReconcileStatus" \notin ProfileOps /\ Doing("ReconcileStatus")
  BY DEF ExecReconcileStatus, ProfileOps
<1>2. Returns(<<y>>, Rest) =>
        /\ Follows(todo)
        /\ WorkerPart!Returns(<<WorkerPart!StatusRead(active, real[active])>>,
                              WorkerPart!Rest)
  <2>1. /\ y.op \notin ProfileOps
        /\ WorkerPart!StatusRead(active, real[active]) = y
    BY DEF StatusRead, WorkerPart!StatusRead, ProfileOps
  <2> HIDE DEF y
  <2> QED BY <1>1, <2>1, AnswerMaps
<1>3. Done => Follows(todo) /\ WorkerPart!Done
  BY <1>1, DoneMaps
<1> HIDE DEF y
<1> QED BY <1>1, <1>2, <1>3, DoingMaps, SameVariables, SameFailures
        DEF ExecReconcileStatus, WorkerPart!ExecReconcileStatus, y

\* The handling of the answer, and the two commands of the user.
LEMMA HandlingMaps ==
  ASSUME WellFormed(todo)
  PROVE  /\ HandleStatusRead => Follows(todo) /\ WorkerPart!HandleStatusRead
         /\ ExecSelect => Follows(todo) /\ WorkerPart!ExecSelect
         /\ ExecDisconnectActive =>
              Follows(todo) /\ WorkerPart!ExecDisconnectActive
<1>1. /\ "StatusRead" \notin ProfileOps /\ "Select" \notin ProfileOps
      /\ "DisconnectActive" \notin ProfileOps
  BY DEF ProfileOps
<1> USE DoingMaps, SameVariables
<1>2. HandleStatusRead => Follows(todo) /\ WorkerPart!HandleStatusRead
  BY <1>1, StatusChangedMaps DEF HandleStatusRead, WorkerPart!HandleStatusRead
<1>3. ExecSelect => Follows(todo) /\ WorkerPart!ExecSelect
  BY <1>1, ProfileSelectedMaps DEF ExecSelect, WorkerPart!ExecSelect
<1>4. ExecDisconnectActive =>
        Follows(todo) /\ WorkerPart!ExecDisconnectActive
  BY <1>1, DisconnectRequestedMaps
     DEF ExecDisconnectActive, WorkerPart!ExecDisconnectActive
<1> QED BY <1>2, <1>3, <1>4

\* Every call.
LEMMA CallMaps ==
  ASSUME WellFormed(todo), Call
  PROVE  Follows(todo) /\ WorkerPart!Call
BY AdoptExistingMaps, AdoptStatusReadMaps, SimpleCallsMap, TunnelCreatedMaps,
   ExecOpenPromptMaps, ExecProvideInputMaps, ExecCheckReadyMaps,
   ExecAskQueueMaps, ExecReconcileTeardownMaps, ExecReconcileStatusMaps,
   HandlingMaps
   DEF Call, WorkerPart!Call

\* Publishing.
LEMMA PublishMaps ==
  ASSUME WellFormed(todo)
  PROVE  /\ ExecPublish => /\ WellFormed(todo') /\ Pending(todo') = Pending(todo)
                           /\ WorkerPart!ExecPublish
         /\ ExecPublishIfNot =>
              Follows(todo) /\ WorkerPart!ExecPublishIfNot
<1>1. "Publish" \notin ProfileOps /\ "PublishIfNot" \notin ProfileOps
  BY DEF ProfileOps
<1> USE DoingMaps, DoneMaps, SameVariables
<1>2. ExecPublish => /\ WellFormed(todo') /\ Pending(todo') = Pending(todo)
                     /\ WorkerPart!ExecPublish
  BY <1>1 DEF ExecPublish, WorkerPart!ExecPublish, Snapshot, WorkerPart!Snapshot
<1>3. ExecPublishIfNot => Follows(todo) /\ WorkerPart!ExecPublishIfNot
  BY <1>1 DEF ExecPublishIfNot, WorkerPart!ExecPublishIfNot, Snapshot,
     WorkerPart!Snapshot
<1> QED BY <1>2, <1>3

-----------------------------------------------------------------------------
(* The inputs, the service and the profiles *)

\* What the worker is given to do when it is idle.
LEMMA PlainInputs ==
  /\ Plain(<<Publish>>) /\ Plain(Reconcile)
  /\ Plain(<<DisconnectActive, Publish>>)
  /\ \A c : Plain(<<Select(c), Publish>>)
  /\ \A x : Plain(<<PublishIfNot(x)>>)
<1>1. /\ Publish.op \notin ProfileOps /\ ReconcileTeardown.op \notin ProfileOps
      /\ ReconcileStatus.op \notin ProfileOps
      /\ DisconnectActive.op \notin ProfileOps
      /\ \A c : Select(c).op \notin ProfileOps
      /\ \A x : PublishIfNot(x).op \notin ProfileOps
  BY DEF ProfileOps, Publish, ReconcileTeardown, ReconcileStatus,
         DisconnectActive, Select, PublishIfNot
<1> QED BY <1>1, PlainOnes DEF Reconcile

\* Most of it ends with a snapshot.
LEMMA PublishedInputs ==
  /\ Published(<<Publish>>)
  /\ \A x : IsSeq(<<x, Publish>>) /\ Published(<<x, Publish>>)
<1>1. \A x : <<x, Publish>> \in Seq({x, Publish})
  OBVIOUS
<1> QED BY <1>1 DEF Published, IsSeq, Publish

\* It is the same in both.
LEMMA SameInputs ==
  /\ WorkerPart!Publish = Publish /\ WorkerPart!Reconcile = Reconcile
  /\ WorkerPart!DisconnectActive = DisconnectActive
  /\ \A c : WorkerPart!Select(c) = Select(c)
  /\ \A x : WorkerPart!PublishIfNot(x) = PublishIfNot(x)
BY DEF WorkerPart!Publish, Publish, WorkerPart!Reconcile, Reconcile,
       WorkerPart!ReconcileTeardown, ReconcileTeardown,
       WorkerPart!ReconcileStatus, ReconcileStatus,
       WorkerPart!DisconnectActive, DisconnectActive,
       WorkerPart!Select, Select, WorkerPart!PublishIfNot, PublishIfNot

\* With nothing to do it has nothing to do.
LEMMA IdleMaps == Idle => WellFormed(todo) /\ WorkerPart!Idle
BY PlainBatches, NothingToTake DEF Idle, WorkerPart!Idle

\* It is given plain steps.
LEMMA ReceivesMaps ==
  ASSUME NEW cs, Plain(cs), Receives(cs)
  PROVE  WellFormed(todo') /\ WorkerPart!Receives(cs)
BY IdleMaps, NothingToTake, SameVariables DEF Receives, WorkerPart!Receives

\* It is given a look at the service first.
LEMMA ReconcilesMaps ==
  ASSUME NEW cs, Plain(cs), Receives(Reconcile \o cs)
  PROVE  /\ WellFormed(todo') /\ Pending(todo') = {}
         /\ WorkerPart!Receives(Reconcile \o cs)
<1>1. /\ WellFormed(Reconcile \o cs)
      /\ WorkerSteps(Reconcile \o cs) = Reconcile \o cs
      /\ Pending(Reconcile \o cs) = {}
  BY NothingToTake, PlainInFront, PlainInputs, PendingInFront, PendingSteps
<1> QED BY <1>1, IdleMaps, SameVariables DEF Receives, WorkerPart!Receives

\* A signal.
LEMMA SignalMaps ==
  ASSUME WellFormed(todo), Signal
  PROVE  /\ WellFormed(todo') /\ Pending(todo') = {} /\ Published(todo')
         /\ WorkerPart!Signal
<1>1. /\ WellFormed(<<Publish>>) /\ WorkerSteps(<<Publish>>) = <<Publish>>
      /\ Pending(<<Publish>>) = {} /\ Published(<<Publish>>)
      /\ WorkerPart!Publish = Publish
  BY PlainInputs, PublishedInputs, NothingToTake, SameInputs, PendingSteps
<1>2. ASSUME NEW s \in Session, ReceiveStatus(s)
      PROVE  Follows(<<Publish>>) /\ WorkerPart!ReceiveStatus(s)
  BY <1>1, <1>2, IdleMaps, StatusChangedMaps, SameVariables
     DEF ReceiveStatus, WorkerPart!ReceiveStatus
<1>3. ASSUME NEW s \in Session, ReceiveAttention(s)
      PROVE  Follows(<<Publish>>) /\ WorkerPart!ReceiveAttention(s)
  BY <1>1, <1>3, IdleMaps, CredentialsRequiredMaps, SameVariables
     DEF ReceiveAttention, WorkerPart!ReceiveAttention
<1>4. ReceiveRemoved => Follows(<<Publish>>) /\ WorkerPart!ReceiveRemoved
  BY <1>1, IdleMaps, SessionRemovedMaps, SameVariables
     DEF ReceiveRemoved, WorkerPart!ReceiveRemoved
<1>5. Follows(<<Publish>>)
        => WellFormed(todo') /\ Pending(todo') = {} /\ Published(todo')
  BY <1>1 DEF Follows
<1> QED BY <1>2, <1>3, <1>4, <1>5 DEF Signal, WorkerPart!Signal

\* The settle tick.
LEMMA SettleMaps ==
  ASSUME WellFormed(todo), Settle
  PROVE  WellFormed(todo') /\ Pending(todo') = {} /\ WorkerPart!Settle
BY PlainInputs, SameInputs, ReconcilesMaps
   DEF Settle, WorkerPart!Settle, TransitionInFlight,
       WorkerPart!TransitionInFlight

\* The service.
LEMMA ServiceMaps ==
  ASSUME WellFormed(todo), Service
  PROVE  WellFormed(todo') /\ WorkerPart!Service
<1>1. \A x : \A s \in Session : ReportStatus(s, x) => WorkerPart!ReportStatus(s, x)
  BY SameVariables DEF ReportStatus, WorkerPart!ReportStatus
<1>2. \A g : \A s \in Session : RequireAttention(s, g) => WorkerPart!RequireAttention(s, g)
  BY SameVariables DEF RequireAttention, WorkerPart!RequireAttention
<1>3. \A s \in Session : RemoveSession(s) => WorkerPart!RemoveSession(s)
  BY SameVariables DEF RemoveSession, WorkerPart!RemoveSession
<1>4. \A s \in Session : StartFromTerminal(s) => WorkerPart!StartFromTerminal(s)
  BY SameVariables DEF StartFromTerminal, WorkerPart!StartFromTerminal
<1>5. WorkerPart!Openvpn3Next
  BY <1>1, <1>2, <1>3, <1>4 DEF Service, Openvpn3Next, WorkerPart!Openvpn3Next
<1> QED BY <1>5, SameVariables DEF Service, WorkerPart!Service

\* Importing, renaming and deleting are steps about profiles, and so is the
\* reading of the list.
LEMMA ProfileSteps ==
  /\ Fetch(1) \in ProfileStep /\ Fetch(2) \in ProfileStep
  /\ \A cs \in SUBSET Config : ReadNames(cs) \in ProfileStep
  /\ \A n \in Name : ImportFile(n) \in ProfileStep
  /\ \A c \in Config, n \in Name : RenameProfile(c, n) \in ProfileStep
  /\ \A c \in Config : DeleteProfile(c) \in ProfileStep
BY DEF ProfileStep, Fetch, ReadNames, ImportFile, RenameProfile, DeleteProfile

\* One, and then the snapshot.
LEMMA ManagesMaps ==
  ASSUME NEW x \in ProfileStep, Receives(<<x, Publish>>)
  PROVE  WellFormed(todo') /\ WorkerPart!UiManageProfiles
<1>1. <<x, Publish>> = <<x>> \o <<Publish>>
  OBVIOUS
<1>2. WellFormed(<<x, Publish>>) /\ WorkerSteps(<<x, Publish>>) = <<Publish>>
  BY <1>1, ProfileInFront, PlainInputs
<1> QED BY <1>2, IdleMaps, SameVariables, SameInputs
        DEF Receives, WorkerPart!Receives, WorkerPart!UiManageProfiles

\* A selection: both count paths alike.
LEMMA SelectMaps ==
  ASSUME NEW c \in Config, UiSelectProfile(c)
  PROVE  WellFormed(todo') /\ WorkerPart!UiSelectProfile(c)
<1>1. PathsLeft => WorkerPart!PathsLeft
  BY Zenon DEF PathsLeft, WorkerPart!PathsLeft, Cardinality,
               WorkerPart!Cardinality
<1> QED BY <1>1, PlainInputs, SameInputs, ReconcilesMaps
        DEF UiSelectProfile, WorkerPart!UiSelectProfile

\* Every command of the user.
LEMMA OnUiCommandMaps ==
  ASSUME NEW m \in UiCommand, OnUiCommand(m)
  PROVE  WellFormed(todo') /\ WorkerPart!Ui
<1>1. /\ WellFormed(<<Publish>>) /\ WorkerSteps(<<Publish>>) = <<Publish>>
      /\ WorkerPart!Publish = Publish
  BY PlainInputs, NothingToTake, SameInputs
<1>2. CASE m.op = "SelectProfile" /\ UiSelectProfile(m.config)
  <2>1. m.config \in Config
    BY <1>2 DEF UiCommand
  <2> QED BY <1>2, <2>1, SelectMaps DEF WorkerPart!Ui
<1>3. CASE m.op = "Disconnect" /\ UiDisconnect
  <2>1. WellFormed(todo') /\ WorkerPart!UiDisconnect
    BY <1>3, PlainInputs, SameInputs, ReconcilesMaps
       DEF UiDisconnect, WorkerPart!UiDisconnect
  <2> QED BY <2>1 DEF WorkerPart!Ui
<1>4. CASE m.op = "DismissFailure" /\ UiDismissFailure
  <2>1. WellFormed(todo') /\ WorkerPart!UiDismissFailure
    BY <1>1, <1>4, IdleMaps, FailureDismissedMaps, SameVariables
       DEF UiDismissFailure, WorkerPart!UiDismissFailure, Follows
  <2> QED BY <2>1 DEF WorkerPart!Ui
<1>5. CASE m.op = "SubmitPrompt" /\ UiSubmitPrompt(m.answers)
  <2>1. m.answers \in SUBSET Supported
    BY <1>5 DEF UiCommand
  <2>2. WellFormed(todo') /\ WorkerPart!UiSubmitPrompt(m.answers)
    BY <1>1, <1>5, IdleMaps, PromptSubmittedMaps, IgnoredMaps, SameVariables
       DEF UiSubmitPrompt, WorkerPart!UiSubmitPrompt, Follows
  <2> QED BY <2>1, <2>2 DEF WorkerPart!Ui
<1>6. CASE m.op = "CancelPrompt" /\ UiCancelPrompt
  <2>1. WellFormed(todo') /\ WorkerPart!UiCancelPrompt
    BY <1>1, <1>6, IdleMaps, PromptCancelledMaps, IgnoredMaps, SameVariables
       DEF UiCancelPrompt, WorkerPart!UiCancelPrompt, Follows
  <2> QED BY <2>1 DEF WorkerPart!Ui
<1>7. CASE /\ m.op = "RefreshProfiles"
           /\ Receives(Reconcile \o <<Fetch(1), Publish>>)
  <2>1. <<Fetch(1), Publish>> = <<Fetch(1)>> \o <<Publish>>
    OBVIOUS
  <2>2. /\ WellFormed(<<Fetch(1), Publish>>)
        /\ WorkerSteps(<<Fetch(1), Publish>>) = <<Publish>>
    BY <2>1, ProfileInFront, ProfileSteps, PlainInputs
  <2>3. /\ WellFormed(Reconcile \o <<Fetch(1), Publish>>)
        /\ WorkerSteps(Reconcile \o <<Fetch(1), Publish>>)
             = Reconcile \o <<Publish>>
    BY <2>2, PlainInFront, PlainInputs
  <2>4. WellFormed(todo') /\ WorkerPart!UiRefresh
    BY <1>7, <2>3, IdleMaps, SameVariables, SameInputs
       DEF Receives, WorkerPart!Receives, WorkerPart!UiRefresh
  <2> QED BY <2>4 DEF WorkerPart!Ui
<1>8. CASE m.op = "Import" /\ Receives(<<ImportFile(m.name), Publish>>)
  <2>1. m.name \in Name
    BY <1>8 DEF UiCommand
  <2> QED BY <1>8, <2>1, ProfileSteps, ManagesMaps DEF WorkerPart!Ui
<1>9. CASE /\ m.op = "RenameProfile"
           /\ Receives(<<RenameProfile(m.config, m.name), Publish>>)
  <2>1. m.name \in Name /\ m.config \in Config
    BY <1>9 DEF UiCommand
  <2> QED BY <1>9, <2>1, ProfileSteps, ManagesMaps DEF WorkerPart!Ui
<1>10. CASE m.op = "DeleteProfile" /\ Receives(<<DeleteProfile(m.config), Publish>>)
  <2>1. m.config \in Config
    BY <1>10 DEF UiCommand
  <2> QED BY <1>10, <2>1, ProfileSteps, ManagesMaps DEF WorkerPart!Ui
<1> QED BY <1>2, <1>3, <1>4, <1>5, <1>6, <1>7, <1>8, <1>9, <1>10 DEF OnUiCommand

\* A step about profiles: the worker does nothing of its own.
LEMMA ProfileStepMaps ==
  ASSUME WellFormed(todo), todo # <<>>, Head(todo).op \in ProfileOps,
         WorkerStill,
         \/ Done
         \/ \E x \in ProfileStep : Returns(<<x>>, Rest)
  PROVE  /\ WellFormed(todo') /\ UNCHANGED WorkerPart!vars
         /\ Published(todo) => Published(todo')
<1>1. Plain(Rest) /\ WorkerSteps(todo) = Rest
  BY ProfileFirst DEF Rest
<1>4. Published(todo) => Published(todo')
  <2>1. Head(todo).op # "Publish" /\ IsSeq(todo) /\ IsSeq(Rest)
    BY <1>1 DEF ProfileOps, WellFormed, Plain
  <2>2. Published(todo) => Published(Rest)
    BY <2>1, PublishedAfter DEF Rest
  <2>3. \A x : IsSeq(<<x>>)
    <3>1. \A x : <<x>> \in Seq({x})
      OBVIOUS
    <3> QED BY <3>1 DEF IsSeq
  <2> QED BY <2>1, <2>2, <2>3, PublishedInFront DEF Done, Returns
<1>2. ASSUME Done
      PROVE  WellFormed(todo') /\ UNCHANGED WorkerPart!vars
  <2>1. WellFormed(todo') /\ WorkerSteps(todo') = Rest
    BY <1>1, <1>2, NothingToTake DEF Done
  <2> QED BY <1>1, <2>1, SameVariables DEF WorkerStill, WorkerPart!vars
<1>3. ASSUME NEW x \in ProfileStep, Returns(<<x>>, Rest)
      PROVE  WellFormed(todo') /\ UNCHANGED WorkerPart!vars
  <2>1. WellFormed(todo') /\ WorkerSteps(todo') = Rest
    BY <1>1, <1>3, ProfileInFront DEF Returns
  <2> QED BY <1>1, <2>1, SameVariables DEF WorkerStill, WorkerPart!vars
<1> QED BY <1>2, <1>3, <1>4

\* Every step about profiles.
LEMMA ProfileWorkMaps ==
  ASSUME WellFormed(todo), ProfileWork
  PROVE  /\ WellFormed(todo') /\ UNCHANGED WorkerPart!vars
         /\ Published(todo) => Published(todo')
<1> DEFINE Answered == \/ Done
                       \/ \E x \in ProfileStep : Returns(<<x>>, Rest)
<1>1. Succeeds \/ Refused => Answered
  BY ProfileSteps DEF Succeeds, Refused
<1>2. CASE ExecFetch
  <2>1. Answered
    BY <1>2, ProfileSteps DEF ExecFetch
  <2> QED BY <1>2, <2>1, ProfileStepMaps DEF ExecFetch, Doing, ProfileOps
<1>3. CASE ExecReadNames
  <2>1. Head(todo) \in ProfileStep
    BY <1>3, ProfileFirst DEF ExecReadNames, Doing, ProfileOps
  <2>2. Head(todo).configs \subseteq Config
    BY <1>3, <2>1 DEF ExecReadNames, Doing, ProfileStep
  <2>3. Answered
    BY <1>3, <2>2, ProfileSteps DEF ExecReadNames
  <2> QED BY <1>3, <2>3, ProfileStepMaps DEF ExecReadNames, Doing, ProfileOps
<1>4. CASE ExecImport
  <2>1. Answered
    BY <1>1, <1>4 DEF ExecImport
  <2> QED BY <1>4, <2>1, ProfileStepMaps DEF ExecImport, Doing, ProfileOps
<1>5. CASE ExecRename
  <2>1. Answered
    BY <1>1, <1>5 DEF ExecRename
  <2> QED BY <1>5, <2>1, ProfileStepMaps DEF ExecRename, Doing, ProfileOps
<1>6. CASE ExecDelete
  <2>1. Answered
    BY <1>1, <1>6 DEF ExecDelete
  <2> QED BY <1>6, <2>1, ProfileStepMaps DEF ExecDelete, Doing, ProfileOps
<1> QED BY <1>2, <1>3, <1>4, <1>5, <1>6 DEF ProfileWork

\* What leaves the worker alone.
LEMMA StillMaps ==
  ASSUME WellFormed(todo), UNCHANGED vars
  PROVE  WellFormed(todo') /\ UNCHANGED WorkerPart!vars
BY SameVariables DEF vars, WorkerPart!vars

\* The beginning: the profiles are read before anything else is done.
LEMMA InitMaps == AppletInit => WellFormed(todo) /\ WorkerPart!Init
<1> SUFFICES ASSUME AppletInit PROVE WellFormed(todo) /\ WorkerPart!Init
  OBVIOUS
<1> DEFINE t == <<Adopt, WatchManager, Publish>>
<1>1. Plain(t)
  <2>1. Adopt.op \notin ProfileOps /\ WatchManager.op \notin ProfileOps
        /\ Publish.op \notin ProfileOps
    BY DEF Adopt, WatchManager, Publish, ProfileOps
  <2> QED BY <2>1, PlainOnes
<1>2. todo = <<Fetch(1)>> \o t
  BY DEF AppletInit
<1>3. WellFormed(todo) /\ WorkerSteps(todo) = t
  BY <1>1, <1>2, ProfileInFront, ProfileSteps
<1>4. t = <<WorkerPart!Adopt, WorkerPart!WatchManager, WorkerPart!Publish>>
  BY DEF Adopt, WatchManager, Publish, WorkerPart!Adopt,
         WorkerPart!WatchManager, WorkerPart!Publish
<1>5. WorkerPart!MachineInit /\ WorkerPart!Openvpn3Init
  BY DEF AppletInit, MachineInit, WorkerPart!MachineInit, Openvpn3Init,
         WorkerPart!Openvpn3Init
<1> HIDE DEF t
<1> QED BY <1>3, <1>4, <1>5 DEF AppletInit, WorkerPart!Init, t

\* Every step of the applet is one of the worker, or none.
LEMMA StepMaps ==
  ASSUME WellFormed(todo), BagToSet(commands) \subseteq UiCommand,
         [AppletNext]_appletVars
  PROVE  WellFormed(todo') /\ [WorkerPart!Next]_(WorkerPart!vars)
<1> USE DEF WorkerPart!Next, WorkerPart!Work, Follows
<1>1. CASE ReceiveCommand
  BY <1>1, OnUiCommandMaps DEF ReceiveCommand
<1>2. CASE PublishToPanel
  BY <1>2, PublishMaps DEF PublishToPanel
<1>3. CASE WorkerAlone
  <2>1. CASE Signal \/ Settle \/ Call \/ Service
    BY <2>1, SignalMaps, SettleMaps, CallMaps, ServiceMaps
  <2>2. CASE ExecNewTunnelFor
    BY <2>2, NewTunnelMaps DEF ExecNewTunnelFor
  <2>3. CASE ProfileWork
    BY <2>3, ProfileWorkMaps
  <2>4. CASE ConfigTerminal
    BY <2>4, StillMaps DEF ConfigTerminal, WorkerStill, vars
  <2> QED BY <1>3, <2>1, <2>2, <2>3, <2>4 DEF WorkerAlone
<1>4. CASE PanelAlone \/ SnapshotReceived \/ UNCHANGED appletVars
  BY <1>4, StillMaps DEF PanelAlone, SnapshotReceived, appletVars, workerVars
<1> QED BY <1>1, <1>2, <1>3, <1>4 DEF AppletNext

-----------------------------------------------------------------------------
(* The proofs about the worker *)

WT ==
  INSTANCE DisplayProofs WITH
    todo <- WorkerSteps(todo),
    FaultyCalls <- FaultyCalls \cup {"NewTunnel"}

\* They are about WorkerPart: the two instances of Worker are the same,
\* definition by definition.
LEMMA SameInit == WorkerPart!Init => WT!Init
BY Zenon DEF WT!Init, WorkerPart!Init, WT!MachineInit, WorkerPart!MachineInit,
   WT!Openvpn3Init, WorkerPart!Openvpn3Init, WT!Adopt, WorkerPart!Adopt,
   WT!WatchManager, WorkerPart!WatchManager, WT!Publish, WorkerPart!Publish

\* The bound of the paths.
LEMMA SamePathsLeft == WorkerPart!PathsLeft => WT!PathsLeft
BY Zenon DEF WT!PathsLeft, WorkerPart!PathsLeft, WT!Cardinality,
   WorkerPart!Cardinality

\* The commands of the user.
LEMMA SameUi == WorkerPart!Ui => WT!Ui
BY Zenon, SamePathsLeft DEF WT!Ui, WorkerPart!Ui, WT!UiSelectProfile,
   WorkerPart!UiSelectProfile, WT!UiDisconnect, WorkerPart!UiDisconnect,
   WT!UiRefresh, WorkerPart!UiRefresh, WT!UiDismissFailure,
   WorkerPart!UiDismissFailure, WT!UiManageProfiles,
   WorkerPart!UiManageProfiles, WT!UiSubmitPrompt, WorkerPart!UiSubmitPrompt,
   WT!UiCancelPrompt, WorkerPart!UiCancelPrompt, WT!Receives,
   WorkerPart!Receives, WT!Reconcile, WorkerPart!Reconcile, WT!Select,
   WorkerPart!Select, WT!Publish, WorkerPart!Publish, WT!DisconnectActive,
   WorkerPart!DisconnectActive, WT!Idle, WorkerPart!Idle, WT!FailureDismissed,
   WorkerPart!FailureDismissed, WT!openvpn3Vars, WorkerPart!openvpn3Vars,
   WT!PromptSubmitted, WorkerPart!PromptSubmitted, WT!Ignored,
   WorkerPart!Ignored, WT!PromptCancelled, WorkerPart!PromptCancelled,
   WT!machineVars, WorkerPart!machineVars, WT!ReconcileTeardown,
   WorkerPart!ReconcileTeardown, WT!ReconcileStatus,
   WorkerPart!ReconcileStatus, WT!Returns, WorkerPart!Returns, WT!serviceVars,
   WorkerPart!serviceVars, WT!queueVars, WorkerPart!queueVars, WT!Resume,
   WorkerPart!Resume, WT!ClosePrompt, WorkerPart!ClosePrompt, WT!Disconnect,
   WorkerPart!Disconnect, WT!ProvideInput, WorkerPart!ProvideInput,
   WT!CheckReady, WorkerPart!CheckReady

\* The signals.
LEMMA SameSignal == WorkerPart!Signal => WT!Signal
BY Zenon DEF WT!Signal, WorkerPart!Signal, WT!ReceiveStatus,
   WorkerPart!ReceiveStatus, WT!ReceiveAttention, WorkerPart!ReceiveAttention,
   WT!ReceiveRemoved, WorkerPart!ReceiveRemoved, WT!Idle, WorkerPart!Idle,
   WT!StatusChanged, WorkerPart!StatusChanged, WT!Publish, WorkerPart!Publish,
   WT!serviceVars, WorkerPart!serviceVars, WT!CredentialsRequired,
   WorkerPart!CredentialsRequired, WT!SessionRemoved,
   WorkerPart!SessionRemoved, WT!Ignored, WorkerPart!Ignored,
   WT!FinishTeardown, WorkerPart!FinishTeardown, WT!ApplyStatus,
   WorkerPart!ApplyStatus, WT!Returns, WorkerPart!Returns, WT!Note,
   WorkerPart!Note, WT!Disconnect, WorkerPart!Disconnect, WT!OpenPrompt,
   WorkerPart!OpenPrompt, WT!StateOnceGone, WorkerPart!StateOnceGone,
   WT!machineVars, WorkerPart!machineVars, WT!NewTunnel, WorkerPart!NewTunnel,
   WT!ConnectionState, WorkerPart!ConnectionState, WT!ClosesPrompt,
   WorkerPart!ClosesPrompt, WT!ClosePrompt, WorkerPart!ClosePrompt,
   WT!NoChange, WorkerPart!NoChange

\* The settle tick.
LEMMA SameSettle == WorkerPart!Settle => WT!Settle
BY Zenon DEF WT!Settle, WorkerPart!Settle, WT!TransitionInFlight,
   WorkerPart!TransitionInFlight, WT!Receives, WorkerPart!Receives,
   WT!Reconcile, WorkerPart!Reconcile, WT!PublishIfNot,
   WorkerPart!PublishIfNot, WT!Idle, WorkerPart!Idle, WT!machineVars,
   WorkerPart!machineVars, WT!openvpn3Vars, WorkerPart!openvpn3Vars,
   WT!ReconcileTeardown, WorkerPart!ReconcileTeardown, WT!ReconcileStatus,
   WorkerPart!ReconcileStatus, WT!serviceVars, WorkerPart!serviceVars,
   WT!queueVars, WorkerPart!queueVars

\* The calls.
LEMMA SameCall == WorkerPart!Call => WT!Call
BY Zenon DEF WT!Call, WorkerPart!Call, WT!AdoptExisting,
   WorkerPart!AdoptExisting, WT!AdoptStatusRead, WorkerPart!AdoptStatusRead,
   WT!SubscribeSession, WorkerPart!SubscribeSession, WT!WatchSessionManager,
   WorkerPart!WatchSessionManager, WT!TunnelCreated, WorkerPart!TunnelCreated,
   WT!ExecEnableLogForward, WorkerPart!ExecEnableLogForward, WT!ExecConnect,
   WorkerPart!ExecConnect, WT!ExecDisconnect, WorkerPart!ExecDisconnect,
   WT!ExecOpenPrompt, WorkerPart!ExecOpenPrompt, WT!ExecClosePrompt,
   WorkerPart!ExecClosePrompt, WT!ExecProvideInput,
   WorkerPart!ExecProvideInput, WT!ExecNote, WorkerPart!ExecNote,
   WT!ExecCheckReady, WorkerPart!ExecCheckReady, WT!ExecAskQueue,
   WorkerPart!ExecAskQueue, WT!ExecReconcileTeardown,
   WorkerPart!ExecReconcileTeardown, WT!ExecReconcileStatus,
   WorkerPart!ExecReconcileStatus, WT!HandleStatusRead,
   WorkerPart!HandleStatusRead, WT!ExecSelect, WorkerPart!ExecSelect,
   WT!ExecDisconnectActive, WorkerPart!ExecDisconnectActive, WT!Doing,
   WorkerPart!Doing, WT!Exists, WorkerPart!Exists, WT!Returns,
   WorkerPart!Returns, WT!AdoptAs, WorkerPart!AdoptAs, WT!Rest,
   WorkerPart!Rest, WT!Fails, WorkerPart!Fails, WT!Done, WorkerPart!Done,
   WT!machineVars, WorkerPart!machineVars, WT!openvpn3Vars,
   WorkerPart!openvpn3Vars, WT!ExternalSessionSeen,
   WorkerPart!ExternalSessionSeen, WT!SubscribeTo, WorkerPart!SubscribeTo,
   WT!Subscribe, WorkerPart!Subscribe, WT!Watch, WorkerPart!Watch,
   WT!SessionCreated, WorkerPart!SessionCreated, WT!ForwardLog,
   WorkerPart!ForwardLog, WT!Dial, WorkerPart!Dial, WT!Stop, WorkerPart!Stop,
   WT!Drained, WorkerPart!Drained, WT!Accepted, WorkerPart!Accepted,
   WT!NextRound, WorkerPart!NextRound, WT!Answer, WorkerPart!Answer,
   WT!SessionReady, WorkerPart!SessionReady, WT!AskQueue, WorkerPart!AskQueue,
   WT!Ignored, WorkerPart!Ignored, WT!CredentialsRequired,
   WorkerPart!CredentialsRequired, WT!SessionRemoved,
   WorkerPart!SessionRemoved, WT!StatusRead, WorkerPart!StatusRead,
   WT!StatusChanged, WorkerPart!StatusChanged, WT!ProfileSelected,
   WorkerPart!ProfileSelected, WT!DisconnectRequested,
   WorkerPart!DisconnectRequested, WT!serviceVars, WorkerPart!serviceVars,
   WT!queueVars, WorkerPart!queueVars, WT!ApplyStatus, WorkerPart!ApplyStatus,
   WT!StartUp, WorkerPart!StartUp, WT!Connect, WorkerPart!Connect, WT!Note,
   WorkerPart!Note, WT!Disconnect, WorkerPart!Disconnect, WT!OpenPrompt,
   WorkerPart!OpenPrompt, WT!FinishTeardown, WorkerPart!FinishTeardown,
   WT!StateOnceGone, WorkerPart!StateOnceGone, WT!NewTunnel,
   WorkerPart!NewTunnel, WT!ConnectionState, WorkerPart!ConnectionState,
   WT!ClosesPrompt, WorkerPart!ClosesPrompt, WT!ClosePrompt,
   WorkerPart!ClosePrompt, WT!NoChange, WorkerPart!NoChange,
   WT!EnableLogForward, WorkerPart!EnableLogForward, WT!CheckReady,
   WorkerPart!CheckReady

\* The start of a tunnel.
LEMMA SameExecNewTunnel == WorkerPart!ExecNewTunnel => WT!ExecNewTunnel
BY Zenon DEF WT!ExecNewTunnel, WorkerPart!ExecNewTunnel, WT!TunnelStarts,
   WorkerPart!TunnelStarts, WT!Fails, WorkerPart!Fails, WT!TunnelRefused,
   WorkerPart!TunnelRefused, WT!Doing, WorkerPart!Doing, WT!StartTunnel,
   WorkerPart!StartTunnel, WT!Returns, WorkerPart!Returns, WT!Created,
   WorkerPart!Created, WT!Rest, WorkerPart!Rest, WT!machineVars,
   WorkerPart!machineVars, WT!Done, WorkerPart!Done, WT!openvpn3Vars,
   WorkerPart!openvpn3Vars, WT!NoChange, WorkerPart!NoChange, WT!queueVars,
   WorkerPart!queueVars, WT!serviceVars, WorkerPart!serviceVars

\* Publishing.
LEMMA SameExecPublish == WorkerPart!ExecPublish => WT!ExecPublish
BY Zenon DEF WT!ExecPublish, WorkerPart!ExecPublish, WT!Doing,
   WorkerPart!Doing, WT!Snapshot, WorkerPart!Snapshot, WT!Done,
   WorkerPart!Done, WT!machineVars, WorkerPart!machineVars, WT!openvpn3Vars,
   WorkerPart!openvpn3Vars, WT!Rest, WorkerPart!Rest, WT!serviceVars,
   WorkerPart!serviceVars, WT!queueVars, WorkerPart!queueVars

\* Publishing after a tick.
LEMMA SameExecPublishIfNot == WorkerPart!ExecPublishIfNot => WT!ExecPublishIfNot
BY Zenon DEF WT!ExecPublishIfNot, WorkerPart!ExecPublishIfNot, WT!Doing,
   WorkerPart!Doing, WT!Snapshot, WorkerPart!Snapshot, WT!Done,
   WorkerPart!Done, WT!machineVars, WorkerPart!machineVars, WT!openvpn3Vars,
   WorkerPart!openvpn3Vars, WT!Rest, WorkerPart!Rest, WT!serviceVars,
   WorkerPart!serviceVars, WT!queueVars, WorkerPart!queueVars

\* The service.
LEMMA SameService == WorkerPart!Service => WT!Service
BY Zenon DEF WT!Service, WorkerPart!Service, WT!Openvpn3Next,
   WorkerPart!Openvpn3Next, WT!machineVars, WorkerPart!machineVars,
   WT!ReportStatus, WorkerPart!ReportStatus, WT!RequireAttention,
   WorkerPart!RequireAttention, WT!RemoveSession, WorkerPart!RemoveSession,
   WT!StartFromTerminal, WorkerPart!StartFromTerminal, WT!Running,
   WorkerPart!Running, WT!Exists, WorkerPart!Exists, WT!queueVars,
   WorkerPart!queueVars

\* The variables.
LEMMA SameVars == WorkerPart!vars = WT!vars
BY Zenon DEF WT!vars, WorkerPart!vars, WT!machineVars, WorkerPart!machineVars,
   WT!openvpn3Vars, WorkerPart!openvpn3Vars, WT!serviceVars,
   WorkerPart!serviceVars, WT!queueVars, WorkerPart!queueVars

\* So is a step.
LEMMA SameNext ==
  [WorkerPart!Next]_(WorkerPart!vars) => [WT!Next]_(WT!vars)
<1>1. WorkerPart!Next => WT!Next
  BY SameUi, SameSignal, SameSettle, SameCall, SameExecNewTunnel,
     SameExecPublish, SameExecPublishIfNot, SameService
     DEF WorkerPart!Next, WT!Next, WorkerPart!Work, WT!Work
<1>2. WorkerPart!vars' = WT!vars'
  BY Zenon DEF WT!vars, WorkerPart!vars, WT!machineVars,
               WorkerPart!machineVars, WT!openvpn3Vars,
               WorkerPart!openvpn3Vars, WT!serviceVars,
               WorkerPart!serviceVars, WT!queueVars, WorkerPart!queueVars
<1> QED BY <1>1, <1>2, SameVars

\* Both have the same kinds of status.
LEMMA SameStatusClass == WT!StatusClass = StatusClass
BY DEF WT!StatusClass, StatusClass, WT!ConnectionState, ConnectionState,
       WT!NoChange, NoChange

\* The calls that fail there are calls.
LEMMA FaultyThere ==
  FaultyCalls \cup {"NewTunnel"}
    \subseteq {"NewTunnel", "LogForward", "Connect", "Disconnect", "Status",
               "List", "Ready", "Queue", "Provide", "Watch"}
BY WorkerAssumption

\* What is proved of the worker alone holds of it here.
WorkerInv ==
  /\ WT!IInv /\ WT!PromptLives
  /\ WT!SInv /\ WT!TInv /\ WT!NoOrphan
  /\ WT!ShownLast /\ WT!FreshAdopts /\ WT!AuthIsLive

\* At first.
LEMMA WorkerInvInit == AppletInit => WorkerInv
BY InitMaps, SameInit, WT!InitLemma, WT!PromptInit, WT!SInvInit, WT!TInvInit,
   WT!NoneAtFirst, WT!ShownInit, WT!FreshInit, WT!AuthInit, SameStatusClass, FaultyThere, ObjectsAssumption,
   Openvpn3Assumption, WorkerAssumption
   DEF WorkerInv

\* After any step.
LEMMA WorkerInvNext ==
  ASSUME WorkerInv, [WorkerPart!Next]_(WorkerPart!vars)
  PROVE  WorkerInv'
<1>1. [WT!Next]_(WT!vars)
  BY SameNext
<1>2. WT!IInv' /\ WT!Keeps
  BY <1>1, WT!NextLemma, SameStatusClass, FaultyThere, ObjectsAssumption,
     Openvpn3Assumption, WorkerAssumption DEF WorkerInv
<1>3. WT!PromptLives'
  BY <1>1, WT!PromptNext, SameStatusClass, FaultyThere, ObjectsAssumption,
     Openvpn3Assumption, WorkerAssumption DEF WorkerInv
<1>4. WT!SInv'
  BY <1>1, WT!SInvNext, SameStatusClass, FaultyThere, ObjectsAssumption,
     Openvpn3Assumption, WorkerAssumption DEF WorkerInv
<1>5. WT!TInv'
  BY <1>1, WT!TInvNext, SameStatusClass, FaultyThere, ObjectsAssumption,
     Openvpn3Assumption, WorkerAssumption DEF WorkerInv
<1>6. WT!NoOrphan'
  BY <1>2, WT!NoneLost, SameStatusClass, FaultyThere, ObjectsAssumption,
     Openvpn3Assumption, WorkerAssumption DEF WorkerInv
<1>7. WT!ShownLast'
  BY <1>1, WT!ShownNext, SameStatusClass, FaultyThere, ObjectsAssumption,
     Openvpn3Assumption, WorkerAssumption DEF WorkerInv
<1>8. WT!FreshAdopts'
  BY <1>1, WT!FreshNext, SameStatusClass, FaultyThere, ObjectsAssumption,
     Openvpn3Assumption, WorkerAssumption DEF WorkerInv
<1>9. WT!AuthIsLive'
  BY <1>1, WT!AuthNext, SameStatusClass, FaultyThere, ObjectsAssumption,
     Openvpn3Assumption, WorkerAssumption DEF WorkerInv
<1> QED BY <1>2, <1>3, <1>4, <1>5, <1>6, <1>7, <1>8, <1>9 DEF WorkerInv

\* In particular, what the panel is sent is a snapshot.
LEMMA WholeSnapshotSound ==
  ASSUME WorkerInv, ProfilesTypeOK
  PROVE  WholeSnapshot \in SnapshotKind
<1>1. /\ state \in ConnectionState
      /\ active \in Session \cup {None}
      /\ prompt \in [session : Session, fields : SUBSET Group] \cup {None}
  BY DEF WorkerInv, WT!IInv, WT!TypeOK, WT!MachineTypeOK, WT!Prompt,
         WT!ConnectionState, ConnectionState
<1>2. prompt # None => prompt.fields \subseteq Supported
  BY DEF WorkerInv, WT!PromptLives, WT!Answerable
<1>3. prompt \in [session : Session, fields : SUBSET Supported] \cup {None}
  BY <1>1, <1>2
<1>4. ActiveConfig \in Config \cup {None}
  BY <1>1 DEF ActiveConfig, ProfilesTypeOK
<1>5. /\ listed \in [Config -> Label \cup {None}]
      /\ unavailable \in {None, "Down", "Refused"}
  BY DEF ProfilesTypeOK, Label
<1> QED BY <1>1, <1>3, <1>4, <1>5 DEF WholeSnapshot, SnapshotKind

-----------------------------------------------------------------------------
(* The profiles *)

\* What is named in the step being done.
LEMMA StepSound ==
  ASSUME WorkerInv, WellFormed(todo)
  PROVE  /\ Doing("NewTunnel") => Head(todo).config \in Config
         /\ Doing("Import") => Head(todo).name \in Name
         /\ Doing("Rename") => Head(todo).config \in Config /\ Head(todo).name \in Name
         /\ Doing("Delete") => Head(todo).config \in Config
         /\ Doing("ReadNames") => Head(todo).configs \subseteq Config
<1>1. Doing("NewTunnel") => Head(todo).config \in Config
  <2> SUFFICES ASSUME Doing("NewTunnel") PROVE Head(todo).config \in Config
    OBVIOUS
  <2>1. /\ WorkerSteps(todo) # <<>> /\ Head(WorkerSteps(todo)) = Head(todo)
    BY WorkerFirst DEF Doing, ProfileOps
  <2>2. WorkerSteps(todo) \in Seq(WT!Step)
    BY DEF WorkerInv, WT!IInv, WT!TypeOK
  <2>3. Head(todo) \in WT!Step
    BY <2>1, <2>2
  <2> QED BY <2>3 DEF Doing, WT!Step, WT!Command
<1>2. Doing("Import") \/ Doing("Rename") \/ Doing("Delete") \/ Doing("ReadNames")
        => Head(todo) \in ProfileStep
  BY ProfileFirst DEF Doing, ProfileOps
<1> QED BY <1>1, <1>2 DEF Doing, ProfileStep

\* What the worker does about profiles keeps their types.
LEMMA ProfileWorkTypes ==
  ASSUME WorkerInv, WellFormed(todo), ProfilesTypeOK, ProfileWork
  PROVE  ProfilesTypeOK'
<1> USE DEF ProfilesTypeOK
<1>1. \A c \in Config : Stored(c) => stored[c] \in Name
  BY DEF Stored
<1>2. CASE ExecFetch
  BY <1>2 DEF ExecFetch, NothingListed
<1>3. CASE ExecReadNames
  <2>1. \A c \in Config : Stored(c) => DisplayName[stored[c]] \in Name
    BY <1>1, ProfileNamesAssumption
  <2> QED BY <1>3, <2>1 DEF ExecReadNames
<1>4. CASE ExecImport
  BY <1>4, StepSound DEF ExecImport, Succeeds, Refused
<1>5. CASE ExecRename
  BY <1>5, StepSound DEF ExecRename, Succeeds, Refused
<1>6. CASE ExecDelete
  BY <1>6, StepSound DEF ExecDelete, Succeeds, Refused
<1> QED BY <1>2, <1>3, <1>4, <1>5, <1>6 DEF ProfileWork

\* And so do the start of a tunnel and the terminals.
LEMMA OtherProfileTypes ==
  ASSUME WorkerInv, WellFormed(todo), ProfilesTypeOK,
         ExecNewTunnelFor \/ ConfigTerminal
  PROVE  ProfilesTypeOK'
<1> USE DEF ProfilesTypeOK
<1>1. CASE ExecNewTunnelFor
  <2>1. Head(todo).config \in Config
    BY <1>1, StepSound DEF ExecNewTunnelFor, TunnelStarts, TunnelRefused
  <2> QED BY <1>1, <2>1 DEF ExecNewTunnelFor, profileVars
<1>2. CASE ConfigTerminal
  BY <1>2, ProfilesAssumption DEF ConfigTerminal
<1> QED BY <1>1, <1>2

-----------------------------------------------------------------------------
(* The invariant of the applet *)

AInv ==
  /\ WorkerInv
  /\ WellFormed(todo)
  /\ ProfilesTypeOK
  /\ PanelInv
  /\ snapshots \in Seq(SnapshotKind)

\* It holds at first.
LEMMA AInvInit == AppletInit => AInv
<1> SUFFICES ASSUME AppletInit PROVE AInv
  OBVIOUS
<1>1. ProfilesTypeOK
  BY DEF AppletInit, ProfilesInit, ProfilesTypeOK, NothingListed
<1>2. PanelInv
  BY PanelInitSound DEF AppletInit
<1>3. snapshots \in Seq(SnapshotKind)
  BY DEF AppletInit
<1> QED BY <1>1, <1>2, <1>3, WorkerInvInit, InitMaps DEF AInv

\* The part of the profiles.
LEMMA ProfilesNext ==
  ASSUME AInv, [AppletNext]_appletVars
  PROVE  ProfilesTypeOK'
<1>1. CASE UNCHANGED profileVars
  BY <1>1 DEF AInv, ProfilesTypeOK, profileVars
<1>2. CASE ProfileWork
  BY <1>2, ProfileWorkTypes DEF AInv
<1>3. CASE ExecNewTunnelFor \/ ConfigTerminal
  BY <1>3, OtherProfileTypes DEF AInv
<1> QED BY <1>1, <1>2, <1>3
        DEF AppletNext, ReceiveCommand, PublishToPanel, WorkerAlone,
            PanelAlone, SnapshotReceived, appletVars, workerVars

\* The part of the panel.
LEMMA PanelNext ==
  ASSUME AInv, [AppletNext]_appletVars
  PROVE  Sound
<1> USE DEF AInv
<1>1. CASE ReceiveCommand
  BY <1>1, TakenSound DEF ReceiveCommand, Face
<1>2. CASE UNCHANGED panelVars
  BY <1>2, PanelStill
<1>3. CASE PanelAlone
  BY <1>3, ClickSound, ClickConnectSound, ImportChosenSound, WorkerReadySound
     DEF PanelAlone
<1>4. CASE SnapshotReceived
  <2>1. Head(snapshots) \in SnapshotKind
    BY <1>4 DEF SnapshotReceived
  <2> QED BY <1>4, <2>1, SnapshotArrivesSound DEF SnapshotReceived
<1> QED BY <1>1, <1>2, <1>3, <1>4
        DEF AppletNext, PublishToPanel, WorkerAlone, appletVars

\* The part of the channel.
LEMMA SnapshotsNext ==
  ASSUME AInv, [AppletNext]_appletVars
  PROVE  snapshots' \in Seq(SnapshotKind)
<1>1. WholeSnapshot \in SnapshotKind
  BY WholeSnapshotSound DEF AInv
<1> HIDE DEF SnapshotKind
<1>2. CASE UNCHANGED snapshots
  BY <1>2 DEF AInv
<1>3. CASE PublishToPanel
  BY <1>1, <1>3 DEF AInv, PublishToPanel, Sends
<1>4. CASE SnapshotReceived
  BY <1>4 DEF AInv, SnapshotReceived
<1> QED BY <1>2, <1>3, <1>4
        DEF AppletNext, ReceiveCommand, WorkerAlone, PanelAlone, appletVars

\* Every step keeps it, is one of the worker or none, and sends a deletion only
\* for the profile that is meant.
LEMMA AInvNext ==
  ASSUME AInv, [AppletNext]_appletVars
  PROVE  AInv' /\ [WorkerPart!Next]_(WorkerPart!vars) /\ DeletesMeant
<1>1. BagToSet(commands) \subseteq UiCommand
  BY DEF AInv, PanelInv, PanelTypeOK
<1>2. WellFormed(todo') /\ [WorkerPart!Next]_(WorkerPart!vars)
  BY <1>1, StepMaps DEF AInv
<1>3. WorkerInv'
  BY <1>2, WorkerInvNext DEF AInv
<1>4. PanelInv' /\ DeletesMeant
  BY PanelNext DEF Sound
<1> QED BY <1>2, <1>3, <1>4, ProfilesNext, SnapshotsNext DEF AInv

\* The invariant holds in every state the applet reaches.
THEOREM AppletInvariance == AppletSpec => []AInv
<1> QED BY AInvInit, AInvNext, PTL DEF AppletSpec

\* The worker of the applet is the one of Worker: the panel, the profiles and
\* the two channels add nothing to what it does.
THEOREM WorkerIsImplemented == AppletSpec => ImplementsWorker
<1>1. AppletInit => WorkerPart!Init
  BY InitMaps
<1>2. AInv /\ [AppletNext]_appletVars => [WorkerPart!Next]_(WorkerPart!vars)
  BY AInvNext
<1>3. [WorkerPart!Next]_(WorkerPart!vars)
        => [UNCHANGED WorkerPart!vars \/ WorkerPart!Next]_(WorkerPart!vars)
  OBVIOUS
<1> QED BY <1>1, <1>2, <1>3, AppletInvariance, PTL
        DEF AppletSpec, ImplementsWorker

\* The panel, the profiles and the snapshots under way are of their kinds.
THEOREM AppletTypes == AppletSpec => []AppletTypeOK
<1>1. AInv => AppletTypeOK
  BY DEF AInv, AppletTypeOK, PanelInv
<1> QED BY <1>1, AppletInvariance, PTL

\* R9: nothing typed into a prompt outlives its page.
THEOREM NothingIsKept == AppletSpec => []NothingTypedIsKept
<1>1. AInv => NothingTypedIsKept
  BY ElsewhereUntyped DEF AInv, NothingTypedIsKept
<1> QED BY <1>1, AppletInvariance, PTL

\* A deletion is sent only for the profile it was armed for.
THEOREM DeletionsAreMeant == AppletSpec => DeleteWasArmedHere
<1>1. AInv /\ [AppletNext]_appletVars
        => [ \A c \in Config :
               Copies(Delete(c), commands') > Copies(Delete(c), commands)
                 => meant = c ]_appletVars
  BY AInvNext DEF DeletesMeant
<1> QED BY <1>1, AppletInvariance, PTL DEF AppletSpec, DeleteWasArmedHere

-----------------------------------------------------------------------------
(* The commands under way *)

\* A step is a message of the panel, or takes a command from it, or neither.
PanelMoves ==
  \/ Message
  \/ /\ UNCHANGED Face
     /\ \/ UNCHANGED commands
        \/ \E m \in BagToSet(commands) : commands' = BagRemove(commands, m)

LEMMA StepOfPanel ==
  ASSUME AInv, [AppletNext]_appletVars
  PROVE  PanelMoves
<1>1. CASE ReceiveCommand
  BY <1>1 DEF ReceiveCommand, PanelMoves, Face
<1>2. CASE UNCHANGED panelVars
  BY <1>2 DEF PanelMoves, Face, panelVars
<1>3. CASE PanelAlone
  BY <1>3 DEF PanelAlone, PanelMoves, Message
<1>4. CASE SnapshotReceived
  <2>1. Head(snapshots) \in SnapshotKind
    BY <1>4 DEF SnapshotReceived, AInv
  <2> QED BY <1>4, <2>1 DEF SnapshotReceived, PanelMoves, Message
<1> QED BY <1>1, <1>2, <1>3, <1>4
        DEF AppletNext, PublishToPanel, WorkerAlone, appletVars

\* The page of a prompt is on the screen with its prompt, and leaving it
\* resolves the prompt.
LEMMA ResolvesNext ==
  ASSUME AInv, AuthIsShown, [AppletNext]_appletVars
  PROVE  AuthIsShown' /\ ResolvesOnce
<1>1. PanelInv /\ PanelMoves
  BY StepOfPanel DEF AInv
<1>2. CASE Message
  BY <1>1, <1>2, AuthShownNext, MessageResolves
<1>3. CASE ~Message
  <2>1. ResolvesOnce
    BY <1>1, <1>3, TakenResolvesNone DEF PanelMoves
  <2>2. UNCHANGED Face
    BY <1>1, <1>3 DEF PanelMoves
  <2> QED BY <2>1, <2>2 DEF AuthIsShown, Prompted, Face
<1> QED BY <1>2, <1>3

\* AE2: leaving a prompt resolves that prompt, once, and nothing else resolves
\* one, in whatever order the worker takes the commands.
THEOREM ResolvedOnce == AppletSpec => LeavingResolvesOnce
<1>1. AppletInit => AuthIsShown
  BY AuthShownInit DEF AppletInit
<1>2. AInv /\ AuthIsShown /\ [AppletNext]_appletVars
        => /\ AuthIsShown'
           /\ [ LET leaves == On("Auth") /\ ~On("Auth")' /\ snapshot'.prompt # None
                    resolutions ==
                      {m \in BagToSet(commands') :
                         m.op \in {"SubmitPrompt", "CancelPrompt"}}
                IN  IF leaves
                    THEN \E m \in resolutions :
                           /\ m.from = snapshot.prompt.session
                           /\ commands' = BagAdd(commands, m)
                    ELSE \A m \in resolutions :
                           Copies(m, commands') <= Copies(m, commands)
              ]_appletVars
  BY ResolvesNext
     DEF ResolvesOnce, ResolvesOne, ResolvesNone, Leaves, ResolutionOps
<1> QED BY <1>1, <1>2, AppletInvariance, PTL DEF AppletSpec, LeavingResolvesOnce

-----------------------------------------------------------------------------
(* The menu *)

\* c's line says what the service has.
Right(c) ==
  IF Stored(c)
  THEN \/ listed[c] = DisplayName[stored[c]]
       \/ FailsToo("Name") /\ listed[c] = Fallback
  ELSE listed[c] = None

\* The menu is right, or says that it is not, or is about to be read, or is
\* being read: the profiles left are there, and the other lines are right.
MenuRead ==
  ~touched =>
    /\ \A x \in Pending(todo) : x.op = "ReadNames" =>
         \A c \in Config : IF c \in x.configs THEN Stored(c) ELSE Right(c)
    /\ \/ \E x \in Pending(todo) : x.op \in {"Fetch", "ReadNames"}
       \/ \A c \in Config : Right(c)
       \/ listed = NothingListed /\ unavailable # None

\* A deletion is all there is to do, but to publish.
DeleteAlone ==
  \A x \in Pending(todo) : x.op = "Delete" => todo = <<x, Publish>>

MenuInv == MenuRead /\ DeleteAlone

\* Any step of the worker but those about profiles.
OtherWork == Call \/ TunnelStarts \/ TunnelRefused \/ ExecPublish \/ ExecPublishIfNot

\* Such a step is not about profiles.
LEMMA OtherIsOther == OtherWork => todo # <<>> /\ Head(todo).op \notin ProfileOps
BY DEF OtherWork, Call, TunnelStarts, TunnelRefused, ExecPublish,
       ExecPublishIfNot, AdoptExisting, AdoptStatusRead, SubscribeSession,
       WatchSessionManager, TunnelCreated, ExecEnableLogForward, ExecConnect,
       ExecDisconnect, ExecOpenPrompt, ExecClosePrompt, ExecProvideInput,
       ExecNote, ExecCheckReady, ExecAskQueue, ExecReconcileTeardown,
       ExecReconcileStatus, HandleStatusRead, ExecSelect,
       ExecDisconnectActive, Doing, ProfileOps

\* It leaves the menu and what is to be done about it alone.
LEMMA OtherWorkMenu ==
  ASSUME WellFormed(todo), MenuInv, OtherWork,
         UNCHANGED <<stored, listed, unavailable, touched>>
  PROVE  MenuInv'
<1>1. Pending(todo') = Pending(todo)
  BY CallMaps, NewTunnelMaps, PublishMaps DEF OtherWork, Follows
<1>2. MenuRead'
  BY <1>1 DEF MenuInv, MenuRead, Right, Stored
<1>3. DeleteAlone'
  <2> SUFFICES ASSUME NEW x \in Pending(todo), x.op = "Delete" PROVE FALSE
    BY <1>1 DEF DeleteAlone
  <2>1. todo = <<x, Publish>>
    BY DEF MenuInv, DeleteAlone
  <2>2. Head(todo).op = "Delete"
    BY <2>1
  <2> QED BY <2>2, OtherIsOther DEF ProfileOps
<1> QED BY <1>2, <1>3 DEF MenuInv

\* What starts from idleness: the menu is right by then.
LEMMA IdleMenu ==
  ASSUME Idle, MenuInv, UNCHANGED <<stored, listed, unavailable, touched>>,
         \A x \in Pending(todo') : x.op # "ReadNames"
  PROVE  MenuRead'
<1>1. Pending(todo) = {}
  BY PlainBatches, NothingToTake, PendingSteps DEF Idle
<1> QED BY <1>1 DEF MenuInv, MenuRead, Right, Stored

\* A refresh received is a fetch to be made.
LEMMA RefreshPending ==
  ASSUME Receives(Reconcile \o <<Fetch(1), Publish>>)
  PROVE  Pending(todo') = {Fetch(1)}
<1>1. <<Fetch(1), Publish>> = <<Fetch(1)>> \o <<Publish>>
  OBVIOUS
<1>2. /\ WellFormed(<<Fetch(1), Publish>>)
      /\ Pending(<<Fetch(1), Publish>>) = {Fetch(1)}
  BY <1>1, ProfileInFront, ProfileSteps, PlainInputs, PendingAlone
<1>3. Pending(Reconcile \o <<Fetch(1), Publish>>) = {Fetch(1)}
  BY <1>2, PlainInputs, PendingInFront
<1> QED BY <1>3 DEF Receives

\* A deletion is received alone.
LEMMA ReceivedAlone ==
  ASSUME NEW m \in UiCommand, OnUiCommand(m)
  PROVE  /\ Idle /\ DeleteAlone'
         /\ \A x \in Pending(todo') : x.op # "ReadNames"
<1>1. Idle
  BY DEF OnUiCommand, UiSelectProfile, UiDisconnect, UiDismissFailure,
         UiSubmitPrompt, UiCancelPrompt, Receives
<1> DEFINE Fine == DeleteAlone' /\ \A x \in Pending(todo') : x.op # "ReadNames"
           Nobody == \A x \in Pending(todo') : x.op \notin {"Delete", "ReadNames"}
<1> SUFFICES Fine
  BY <1>1
<1>2. /\ WellFormed(<<Publish>>) /\ Pending(<<Publish>>) = {}
  BY PlainInputs, NothingToTake, PendingSteps
<1>3. Pending(todo') = {} => Nobody
  OBVIOUS
<1>4. Nobody => Fine
  BY DEF DeleteAlone
<1>5. ASSUME NEW cs, Plain(cs), Receives(Reconcile \o cs)
      PROVE  Nobody
  <2>1. Pending(Reconcile \o cs) = {}
    BY <1>5, PlainInputs, NothingToTake, PendingInFront, PendingSteps
  <2> QED BY <1>5, <2>1 DEF Receives
<1>6. ASSUME NEW x \in ProfileStep, Receives(<<x, Publish>>)
      PROVE  Pending(todo') = {x} /\ todo' = <<x, Publish>>
  <2>1. <<x, Publish>> = <<x>> \o <<Publish>>
    OBVIOUS
  <2> QED BY <1>6, <2>1, PendingAlone, PlainInputs DEF Receives
<1>7. CASE m.op = "SelectProfile" /\ UiSelectProfile(m.config)
  BY <1>4, <1>5, <1>7, PlainInputs DEF UiSelectProfile
<1>8. CASE m.op = "Disconnect" /\ UiDisconnect
  BY <1>4, <1>5, <1>8, PlainInputs DEF UiDisconnect
<1>9. CASE m.op = "DismissFailure" /\ UiDismissFailure
  <2>1. Follows(<<Publish>>)
    BY <1>2, <1>9, FailureDismissedMaps DEF UiDismissFailure
  <2> QED BY <1>2, <1>3, <1>4, <2>1 DEF Follows
<1>10. CASE m.op = "SubmitPrompt" /\ UiSubmitPrompt(m.answers)
  <2>1. Follows(<<Publish>>)
    BY <1>2, <1>10, PromptSubmittedMaps, IgnoredMaps DEF UiSubmitPrompt
  <2> QED BY <1>2, <1>3, <1>4, <2>1 DEF Follows
<1>11. CASE m.op = "CancelPrompt" /\ UiCancelPrompt
  <2>1. Follows(<<Publish>>)
    BY <1>2, <1>11, PromptCancelledMaps, IgnoredMaps DEF UiCancelPrompt
  <2> QED BY <1>2, <1>3, <1>4, <2>1 DEF Follows
<1>12. CASE /\ m.op = "RefreshProfiles"
            /\ Receives(Reconcile \o <<Fetch(1), Publish>>)
  <2>1. Pending(todo') = {Fetch(1)}
    BY <1>12, RefreshPending
  <2>2. Fetch(1).op \notin {"Delete", "ReadNames"}
    BY DEF Fetch
  <2> QED BY <1>4, <2>1, <2>2
<1>13. CASE m.op = "Import" /\ Receives(<<ImportFile(m.name), Publish>>)
  <2>1. m.name \in Name
    BY <1>13 DEF UiCommand
  <2>2. /\ ImportFile(m.name) \in ProfileStep
        /\ ImportFile(m.name).op \notin {"Delete", "ReadNames"}
    BY <2>1, ProfileSteps DEF ImportFile
  <2> QED BY <1>4, <1>6, <1>13, <2>2
<1>14. CASE /\ m.op = "RenameProfile"
            /\ Receives(<<RenameProfile(m.config, m.name), Publish>>)
  <2>1. m.name \in Name /\ m.config \in Config
    BY <1>14 DEF UiCommand
  <2>2. /\ RenameProfile(m.config, m.name) \in ProfileStep
        /\ RenameProfile(m.config, m.name).op \notin {"Delete", "ReadNames"}
    BY <2>1, ProfileSteps DEF RenameProfile
  <2> QED BY <1>4, <1>6, <1>14, <2>2
<1>15. CASE /\ m.op = "DeleteProfile"
            /\ Receives(<<DeleteProfile(m.config), Publish>>)
  <2>1. m.config \in Config
    BY <1>15 DEF UiCommand
  <2>2. DeleteProfile(m.config) \in ProfileStep
    BY <2>1, ProfileSteps
  <2>3. DeleteProfile(m.config).op # "ReadNames"
    BY DEF DeleteProfile
  <2>4. Fine
    BY <1>6, <1>15, <2>2, <2>3 DEF DeleteAlone
  <2> QED BY <2>4
<1> QED BY <1>7, <1>8, <1>9, <1>10, <1>11, <1>12, <1>13, <1>14, <1>15
        DEF OnUiCommand

\* The step about profiles that is being done is the one there is, and what
\* it returns takes its place.
LEMMA ProfileNow ==
  ASSUME WellFormed(todo), todo # <<>>, Head(todo).op \in ProfileOps
  PROVE  /\ Pending(todo) = {Head(todo)}
         /\ Head(todo) \in ProfileStep
         /\ Done => Pending(todo') = {}
         /\ \A x \in ProfileStep : Returns(<<x>>, Rest) => Pending(todo') = {x}
<1>1. Plain(Rest)
  BY ProfileFirst DEF Rest
<1>2. Done => Pending(todo') = {}
  BY <1>1, NothingToTake, PendingSteps DEF Done
<1> QED BY <1>1, <1>2, PendingSteps, ProfileFirst, PendingAlone DEF Returns

\* After a command that succeeded the list is about to be read.
LEMMA SucceedsMenu ==
  ASSUME WellFormed(todo), todo # <<>>, Head(todo).op \in ProfileOps, Succeeds
  PROVE  MenuInv'
<1>1. Pending(todo') = {Fetch(1)}
  BY ProfileNow, ProfileSteps DEF Succeeds
<1>2. Fetch(1).op = "Fetch"
  BY DEF Fetch
<1> QED BY <1>1, <1>2 DEF MenuInv, MenuRead, DeleteAlone

\* After one that was refused the menu is what it was.
LEMMA RefusedMenu ==
  ASSUME WellFormed(todo), todo # <<>>, MenuInv,
         Head(todo).op \in {"Import", "Rename", "Delete"}, Refused,
         UNCHANGED <<listed, touched>>
  PROVE  MenuInv'
<1>1. Pending(todo) = {Head(todo)} /\ Pending(todo') = {}
  BY ProfileNow DEF Refused, ProfileOps
<1>2. ~touched => \/ \A c \in Config : Right(c)
                  \/ listed = NothingListed /\ unavailable # None
  BY <1>1 DEF MenuInv, MenuRead
<1>3. stored' = stored /\ unavailable' # None
  BY ProfilesAssumption DEF Refused
<1>4. \A c \in Config : Right(c)' <=> Right(c)
  BY <1>3 DEF Right, Stored
<1> QED BY <1>1, <1>2, <1>3, <1>4 DEF MenuInv, MenuRead, DeleteAlone

\* The list is read, or is not.
LEMMA FetchMenu ==
  ASSUME WellFormed(todo), MenuInv, ExecFetch
  PROVE  MenuInv'
<1>1. todo # <<>> /\ Head(todo).op \in ProfileOps
  BY DEF ExecFetch, Doing, ProfileOps
<1> DEFINE there == {c \in Config : Stored(c)}
<1>2. CASE /\ unavailable' = None /\ listed' = NothingListed
           /\ Returns(<<ReadNames(there)>>, Rest)
  <2>1. ReadNames(there) \in ProfileStep
    BY ProfileSteps
  <2>2. Pending(todo') = {ReadNames(there)}
    BY <1>1, <1>2, <2>1, ProfileNow
  <2>3. ReadNames(there).op = "ReadNames" /\ ReadNames(there).configs = there
    BY DEF ReadNames
  <2>4. stored' = stored
    BY DEF ExecFetch
  <2>5. \A c \in Config : IF c \in there THEN Stored(c)' ELSE Right(c)'
    BY <1>2, <2>4 DEF Right, Stored, NothingListed
  <2> HIDE DEF there
  <2> QED BY <2>2, <2>3, <2>5 DEF MenuInv, MenuRead, DeleteAlone
<1>3. CASE Returns(<<Fetch(2)>>, Rest)
  <2>1. Pending(todo') = {Fetch(2)}
    BY <1>1, <1>3, ProfileNow, ProfileSteps
  <2>2. Fetch(2).op = "Fetch"
    BY DEF Fetch
  <2> QED BY <2>1, <2>2 DEF MenuInv, MenuRead, DeleteAlone
<1>4. CASE unavailable' = "Down" /\ listed' = NothingListed /\ Done
  <2>1. Pending(todo') = {}
    BY <1>1, <1>4, ProfileNow
  <2>2. listed' = NothingListed' /\ unavailable' # None
    BY <1>4, ProfilesAssumption DEF NothingListed
  <2> QED BY <2>1, <2>2 DEF MenuInv, MenuRead, DeleteAlone
<1> QED BY <1>2, <1>3, <1>4 DEF ExecFetch

\* A name is read.
LEMMA ReadNamesMenu ==
  ASSUME WellFormed(todo), MenuInv, ProfilesTypeOK, ExecReadNames
  PROVE  MenuInv'
<1> DEFINE left == Head(todo).configs
<1>1. /\ todo # <<>> /\ Head(todo).op \in ProfileOps
      /\ Head(todo).op = "ReadNames"
  BY DEF ExecReadNames, Doing, ProfileOps
<1>2. Pending(todo) = {Head(todo)} /\ left \subseteq Config
  BY <1>1, ProfileNow DEF ProfileStep
<1>3. stored' = stored /\ touched' = touched
  BY DEF ExecReadNames
<1>4. ~touched => \A d \in Config : IF d \in left THEN Stored(d) ELSE Right(d)
  BY <1>1, <1>2 DEF MenuInv, MenuRead
<1>5. CASE left = {} /\ Done /\ UNCHANGED listed
  <2>1. Pending(todo') = {}
    BY <1>1, <1>5, ProfileNow
  <2>2. ~touched => \A d \in Config : Right(d)'
    BY <1>3, <1>4, <1>5 DEF Right, Stored
  <2> QED BY <1>3, <2>1, <2>2 DEF MenuInv, MenuRead, DeleteAlone
<1>6. ASSUME NEW c \in left,
             \/ /\ Stored(c)
                /\ listed' = [listed EXCEPT ![c] = DisplayName[stored[c]]]
             \/ /\ ~Stored(c) \/ FailsToo("Name")
                /\ listed' = [listed EXCEPT ![c] = Fallback],
             Returns(<<ReadNames(left \ {c})>>, Rest)
      PROVE  MenuInv'
  <2>1. ReadNames(left \ {c}) \in ProfileStep
    BY <1>2, ProfileSteps
  <2>2. Pending(todo') = {ReadNames(left \ {c})}
    BY <1>1, <1>6, <2>1, ProfileNow
  <2>3. /\ ReadNames(left \ {c}).op = "ReadNames"
        /\ ReadNames(left \ {c}).configs = left \ {c}
    BY DEF ReadNames
  <2>4. ASSUME ~touched, NEW d \in Config
        PROVE  IF d \in left \ {c} THEN Stored(d)' ELSE Right(d)'
    <3>1. CASE d = c
      <4>1. Stored(c)
        BY <1>2, <1>4, <2>4
      <4>2. \/ listed'[c] = DisplayName[stored[c]]
            \/ FailsToo("Name") /\ listed'[c] = Fallback
        BY <1>2, <1>6, <4>1 DEF ProfilesTypeOK
      <4> QED BY <1>3, <3>1, <4>1, <4>2 DEF Right, Stored
    <3>2. CASE d # c
      <4>1. listed'[d] = listed[d]
        BY <1>2, <1>6, <3>2 DEF ProfilesTypeOK
      <4>2. IF d \in left THEN Stored(d) ELSE Right(d)
        BY <1>4, <2>4
      <4> QED BY <1>3, <3>2, <4>1, <4>2 DEF Right, Stored
    <3> QED BY <3>1, <3>2
  <2> HIDE DEF left
  <2> QED BY <1>3, <2>2, <2>3, <2>4 DEF MenuInv, MenuRead, DeleteAlone
<1> QED BY <1>5, <1>6 DEF ExecReadNames

\* Any step about profiles.
LEMMA ProfileWorkMenu ==
  ASSUME WellFormed(todo), MenuInv, ProfilesTypeOK, ProfileWork
  PROVE  MenuInv'
<1>1. CASE ExecImport \/ ExecRename \/ ExecDelete
  <2>1. /\ todo # <<>> /\ Head(todo).op \in {"Import", "Rename", "Delete"}
        /\ Head(todo).op \in ProfileOps
    BY <1>1 DEF ExecImport, ExecRename, ExecDelete, Doing, ProfileOps
  <2>2. (Succeeds \/ Refused) /\ UNCHANGED <<listed, touched>>
    BY <1>1 DEF ExecImport, ExecRename, ExecDelete
  <2> QED BY <2>1, <2>2, SucceedsMenu, RefusedMenu
<1> QED BY <1>1, FetchMenu, ReadNamesMenu DEF ProfileWork

\* Every step.
LEMMA MenuNext ==
  ASSUME AInv, MenuInv, [AppletNext]_appletVars
  PROVE  MenuInv'
<1> DEFINE Menus == <<stored, listed, unavailable, touched>>
<1> USE DEF AInv
<1>1. CASE UNCHANGED todo /\ UNCHANGED Menus
  BY <1>1 DEF MenuInv, MenuRead, DeleteAlone, Right, Stored
<1>2. CASE OtherWork /\ UNCHANGED Menus
  BY <1>2, OtherWorkMenu
<1>3. CASE (Signal \/ Settle) /\ UNCHANGED Menus
  <2>1. Idle /\ Pending(todo') = {}
    <3>1. Idle
      BY <1>3 DEF Signal, Settle, ReceiveStatus, ReceiveAttention,
                  ReceiveRemoved, Receives
    <3> QED BY <1>3, <3>1, SignalMaps, SettleMaps
  <2> QED BY <1>3, <2>1, IdleMenu DEF MenuInv, DeleteAlone
<1>4. CASE ReceiveCommand
  <2>1. PICK m \in BagToSet(commands) : OnUiCommand(m)
    BY <1>4 DEF ReceiveCommand
  <2>2. m \in UiCommand
    BY DEF PanelInv, PanelTypeOK
  <2>3. UNCHANGED Menus
    BY <1>4 DEF ReceiveCommand, profileVars
  <2> QED BY <2>1, <2>2, <2>3, ReceivedAlone, IdleMenu DEF MenuInv
<1>5. CASE ProfileWork
  BY <1>5, ProfileWorkMenu
<1>6. CASE ConfigTerminal
  BY <1>6 DEF ConfigTerminal, MenuInv, MenuRead, DeleteAlone
<1>7. CASE ReceiveCommand \/ PublishToPanel
  BY <1>2, <1>4, <1>7 DEF PublishToPanel, OtherWork, profileVars
<1>8. CASE WorkerAlone
  <2>1. CASE (Signal \/ Settle \/ Call \/ Service) /\ UNCHANGED profileVars
    BY <1>1, <1>2, <1>3, <2>1 DEF OtherWork, Service, profileVars
  <2>2. CASE ExecNewTunnelFor
    BY <1>2, <2>2 DEF ExecNewTunnelFor, OtherWork, profileVars
  <2> QED BY <1>5, <1>6, <1>8, <2>1, <2>2 DEF WorkerAlone
<1>9. CASE PanelAlone \/ SnapshotReceived \/ UNCHANGED appletVars
  BY <1>1, <1>9 DEF PanelAlone, SnapshotReceived, appletVars, workerVars,
                    profileVars, vars
<1> QED BY <1>7, <1>8, <1>9 DEF AppletNext

\* The list is read first of all.
LEMMA MenuInit == AppletInit => MenuInv
<1> SUFFICES ASSUME AppletInit PROVE MenuInv
  OBVIOUS
<1> DEFINE t == <<Adopt, WatchManager, Publish>>
<1>1. Plain(t)
  <2>1. Adopt.op \notin ProfileOps /\ WatchManager.op \notin ProfileOps
        /\ Publish.op \notin ProfileOps
    BY DEF Adopt, WatchManager, Publish, ProfileOps
  <2> QED BY <2>1, PlainOnes
<1>2. todo = <<Fetch(1)>> \o t
  BY DEF AppletInit
<1>3. Pending(todo) = {Fetch(1)}
  BY <1>1, <1>2, PendingAlone, ProfileSteps
<1>4. Fetch(1).op = "Fetch"
  BY DEF Fetch
<1> QED BY <1>3, <1>4 DEF MenuInv, MenuRead, DeleteAlone

\* The menu lists every profile the service has under its present name, or says
\* that it cannot, whenever the worker is idle and no terminal has changed them
\* since, whatever calls fail and whatever commands were refused.
THEOREM MenuIsRight == AppletSpec => []MenuIsTrue
<1>1. MenuInv => MenuIsTrue
  <2> SUFFICES ASSUME MenuInv, Idle, ~touched
               PROVE  \/ \A c \in Config : Right(c)
                      \/ listed = NothingListed /\ unavailable # None
    BY DEF MenuIsTrue, Right
  <2>1. Pending(todo) = {}
    BY PlainBatches, NothingToTake, PendingSteps DEF Idle
  <2> QED BY <2>1 DEF MenuInv, MenuRead
<1> QED BY <1>1, MenuInit, MenuNext, AppletInvariance, PTL DEF AppletSpec

-----------------------------------------------------------------------------
(* The profile of a running session *)

\* Only a deletion takes a profile away, or a terminal does.
LEMMA OnlyDeleted ==
  ASSUME AInv, [AppletNext]_appletVars, NEW c \in Config, Stored(c), ~ConfigTerminal
  PROVE  Stored(c)' \/ (ExecDelete /\ Head(todo).config = c /\ ActiveConfig # c)
<1>1. CASE UNCHANGED stored
  BY <1>1 DEF Stored
<1>2. stored \in [Config -> Name \cup {"Unborn", "Gone"}]
  BY DEF AInv, ProfilesTypeOK
<1>3. CASE ExecImport
  BY <1>2, <1>3 DEF ExecImport, Refused, Stored
<1>4. CASE ExecRename
  <2>1. Head(todo).name \in Name
    BY <1>4, StepSound DEF AInv, ExecRename
  <2> QED BY <1>2, <1>4, <2>1, ProfilesAssumption
          DEF ExecRename, Refused, Stored
<1>5. CASE ExecDelete
  BY <1>2, <1>5 DEF ExecDelete, Refused, Stored
<1>6. CASE ExecFetch \/ ExecReadNames
  BY <1>1, <1>6 DEF ExecFetch, ExecReadNames
<1> QED BY <1>1, <1>3, <1>4, <1>5, <1>6
        DEF AppletNext, ReceiveCommand, PublishToPanel, WorkerAlone, PanelAlone,
            SnapshotReceived, appletVars, workerVars, profileVars, ProfileWork,
            ExecNewTunnelFor

\* When a deletion is done the worker is between no two steps of its own: the
\* sessions it started are on display or told to go.
LEMMA DeletedBetween ==
  ASSUME AInv, MenuInv, "Disconnect" \notin FaultyCalls, Doing("Delete"),
         NEW s \in Own, Running(s)
  PROVE  s = active \/ s \in told
<1>1. /\ WorkerSteps(todo) = <<Publish>>
      /\ Head(WorkerSteps(todo)) = Publish /\ Len(WorkerSteps(todo)) = 1
  <2>1. /\ WellFormed(todo) /\ todo # <<>> /\ Head(todo).op = "Delete"
        /\ Head(todo).op \in ProfileOps
    BY DEF AInv, Doing, ProfileOps
  <2>2. todo = <<Head(todo), Publish>>
    <3>1. Head(todo) \in Pending(todo)
      BY <2>1, ProfileNow
    <3> QED BY <2>1, <3>1 DEF MenuInv, DeleteAlone
  <2>3. WorkerSteps(todo) = Tail(todo)
    BY <2>1, ProfileFirst
  <2>4. \A x : Tail(<<x, Publish>>) = <<Publish>>
    OBVIOUS
  <2>5. WorkerSteps(todo) = <<Publish>>
    BY <2>2, <2>3, <2>4
  <2>6. Head(<<Publish>>) = Publish /\ Len(<<Publish>>) = 1
    OBVIOUS
  <2> QED BY <2>5, <2>6
<1>2. Publish.op = "Publish"
  BY DEF Publish
<1>3. s \in {active, awaitingTeardown} \cup WT!Newborn
  BY DEF AInv, WorkerInv, WT!NoOrphan, WT!Running, WT!Exists, Running, Exists
<1>4. WT!Newborn = {}
  BY <1>1, <1>2 DEF WT!Newborn, WT!Doing
<1>5. ~WT!Telling
  BY <1>1, <1>2 DEF WT!Telling
<1>6. ASSUME s = awaitingTeardown PROVE s \in told
  <2>1. s # None /\ Exists(s)
    BY ObjectsAssumption DEF Running
  <2>2. "Disconnect" \notin FaultyCalls \cup {"NewTunnel"}
    OBVIOUS
  <2> QED BY <1>5, <1>6, <2>1, <2>2
          DEF AInv, WorkerInv, WT!TInv, WT!ToldOrTelling, WT!Exists, Exists
<1> QED BY <1>3, <1>4, <1>6

\* A session there is, or was, stays that of its profile: only a new one is
\* given one.
LEMMA ProfileStays ==
  ASSUME AInv, [AppletNext]_appletVars, NEW s \in Session, real[s] # "Unborn"
  PROVE  configOf'[s] = configOf[s]
<1>1. CASE UNCHANGED configOf
  BY <1>1
<1>2. CASE ExecNewTunnelFor
  <2>1. CASE UNCHANGED profileVars
    BY <2>1 DEF profileVars
  <2>2. CASE /\ TunnelStarts
             /\ configOf' = [configOf EXCEPT ![Head(todo').session] =
                               Head(todo).config]
    <3>1. PICK t \in Session :
            real[t] = "Unborn" /\ Returns(<<Created(t)>>, Rest)
      BY <2>2 DEF TunnelStarts, StartTunnel
    <3>2. Head(todo').session = t
      <4>1. PICK S : todo \in Seq(S)
        BY DEF AInv, WellFormed, IsSeq
      <4>2. todo # <<>> /\ Rest \in Seq(S)
        BY <2>2, <4>1 DEF TunnelStarts, Doing, Rest
      <4>3. Head(<<Created(t)>> \o Rest) = Created(t)
        <5>1. <<Created(t)>> \in Seq({Created(t)} \cup S)
          OBVIOUS
        <5>2. Rest \in Seq({Created(t)} \cup S)
          BY <4>2
        <5> QED BY <5>1, <5>2
      <4> QED BY <3>1, <4>3 DEF Returns, Created
    <3>3. s # t
      BY <3>1 DEF Running, Exists
    <3> QED BY <2>2, <3>2, <3>3 DEF AInv, ProfilesTypeOK
  <2> QED BY <1>2, <2>1, <2>2 DEF ExecNewTunnelFor
<1> QED BY <1>1, <1>2
        DEF AppletNext, ReceiveCommand, PublishToPanel, WorkerAlone,
            PanelAlone, SnapshotReceived, appletVars, workerVars,
            profileVars, ProfileWork, ExecFetch, ExecReadNames, ExecImport,
            ExecRename, ExecDelete, ConfigTerminal

\* As long as Disconnect calls are not refused, the applet never deletes the
\* profile of a running session that it started and has not told to go: the
\* worker's own check holds, however long the panel's command was under way.
THEOREM RunningIsKept ==
  ASSUME "Disconnect" \notin FaultyCalls
  PROVE  AppletSpec => RunningProfileIsKept
<1>1. AInv /\ MenuInv /\ [AppletNext]_appletVars
        => [ \A s \in Own :
               Running(s) /\ s \notin told /\ configOf[s] # None /\ ~ConfigTerminal =>
                 (Stored(configOf[s]) => Stored(configOf[s])') ]_appletVars
  <2> SUFFICES ASSUME AInv, MenuInv, [AppletNext]_appletVars, NEW s \in Own,
                      Running(s), s \notin told, configOf[s] # None, ~ConfigTerminal,
                      Stored(configOf[s]),
                      ~Stored(configOf[s])'
               PROVE  FALSE
    OBVIOUS
  <2>1. configOf[s] \in Config /\ s \in Session /\ s # None
    BY ObjectsAssumption DEF AInv, ProfilesTypeOK
  <2>2. configOf'[s] = configOf[s]
    BY <2>1, ProfileStays DEF Running, Exists
  <2>3. \A c : Stored(c)' <=> stored'[c] \notin {"Unborn", "Gone"}
    BY DEF Stored
  <2>4. /\ ExecDelete /\ Head(todo).config = configOf[s]
        /\ ActiveConfig # configOf[s]
    <3> DEFINE c == configOf[s]
    <3>1. ~Stored(c)'
      BY <2>2, <2>3
    <3> QED BY <2>1, <2>2, <2>3, OnlyDeleted
  <2>5. s = active
    BY <2>4, DeletedBetween DEF ExecDelete
  <2> QED BY <2>1, <2>4, <2>5 DEF ActiveConfig
<1> QED BY <1>1, MenuInit, MenuNext, AppletInvariance, PTL
        DEF AppletSpec, RunningProfileIsKept

-----------------------------------------------------------------------------
(* What the panel has been sent *)

\* The last snapshot sent, whether the panel has got it or not.
Latest == IF snapshots = <<>> THEN snapshot ELSE snapshots[Len(snapshots)]

ProfileOf(s) == IF s = None THEN None ELSE configOf[s]

\* It is what the worker says it has shown.
ShownSent ==
  /\ Latest.state = shown.state /\ Latest.prompt = shown.prompt
  /\ Latest.config = ProfileOf(shown.active)
  /\ shown.active # None => shown.active \in Session /\ real[shown.active] # "Unborn"

\* Its menu is the worker's, unless another snapshot is about to be published.
MenuSent ==
  \/ Latest.profiles = listed /\ Latest.unavailable = unavailable
  \/ Published(todo)

\* The step about profiles, if there is one, is not the last before that.
PendingPublished == Pending(todo) # {} => Published(todo)

SentInv == ShownSent /\ MenuSent /\ PendingPublished

\* The snapshot sent is the last.
LEMMA SentIsLatest ==
  ASSUME AInv, Sends, UNCHANGED snapshot
  PROVE  Latest' = WholeSnapshot
<1>1. /\ snapshots' = Append(snapshots, WholeSnapshot)
      /\ snapshots \in Seq(SnapshotKind)
  BY DEF Sends, AInv
<1>2. WholeSnapshot \in SnapshotKind
  BY WholeSnapshotSound DEF AInv
<1> HIDE DEF SnapshotKind
<1>3. snapshots' # <<>> /\ snapshots'[Len(snapshots')] = WholeSnapshot
  BY <1>1, <1>2
<1> QED BY <1>3 DEF Latest

\* A snapshot is sent when it is shown, and takes its turn.
LEMMA LatestNext ==
  ASSUME AInv, [AppletNext]_appletVars
  PROVE  \/ UNCHANGED <<Latest, shown>>
         \/ /\ PublishToPanel /\ Latest' = WholeSnapshot /\ shown' = Snapshot
<1>1. CASE PublishToPanel
  <2>1. snapshot' = snapshot
    BY <1>1 DEF PublishToPanel, panelVars
  <2>2. CASE Sends /\ shown' = Snapshot
    BY <1>1, <2>1, <2>2, SentIsLatest
  <2>3. CASE UNCHANGED <<snapshots, shown>>
    BY <2>1, <2>3 DEF Latest
  <2> QED BY <1>1, <2>2, <2>3
          DEF PublishToPanel, ExecPublish, ExecPublishIfNot
<1>2. CASE SnapshotReceived
  <2>1. /\ snapshots \in Seq(SnapshotKind) /\ snapshots # <<>>
        /\ snapshot' = Head(snapshots) /\ snapshots' = Tail(snapshots)
        /\ UNCHANGED shown
    BY <1>2 DEF SnapshotReceived, SnapshotArrives, AInv, workerVars, vars
  <2> HIDE DEF SnapshotKind
  <2>2. CASE Tail(snapshots) = <<>>
    <3>1. Head(snapshots) = snapshots[Len(snapshots)]
      <4>1. Len(Tail(snapshots)) = Len(snapshots) - 1 /\ Len(snapshots) \in Nat
        BY <2>1
      <4>2. Len(snapshots) = 1
        <5>1. Len(Tail(snapshots)) = 0
          BY <2>2, EmptySeq
        <5>2. \A n \in Nat : n - 1 = 0 => n = 1
          OBVIOUS
        <5> QED BY <4>1, <5>1, <5>2
      <4> QED BY <2>1, <4>2
    <3> QED BY <2>1, <2>2, <3>1 DEF Latest
  <2>3. CASE Tail(snapshots) # <<>>
    <3>1. Tail(snapshots)[Len(Tail(snapshots))] = snapshots[Len(snapshots)]
      BY <2>1, <2>3
    <3> QED BY <2>1, <2>3, <3>1 DEF Latest
  <2> QED BY <2>2, <2>3
<1>3. CASE ReceiveCommand
  <2>1. UNCHANGED shown
    BY <1>3 DEF ReceiveCommand, OnUiCommand, UiSelectProfile, UiDisconnect,
       UiDismissFailure, UiSubmitPrompt, UiCancelPrompt, Receives
  <2> QED BY <1>3, <2>1 DEF ReceiveCommand, Latest
<1>4. CASE WorkerAlone
  <2>1. UNCHANGED <<snapshot, snapshots>>
    BY <1>4 DEF WorkerAlone, panelVars
  <2>2. Call => UNCHANGED shown
    BY DEF Call, AdoptExisting, AdoptStatusRead, SubscribeSession,
       WatchSessionManager, TunnelCreated, ExecEnableLogForward,
       ExecConnect, ExecDisconnect, ExecOpenPrompt, ExecClosePrompt,
       ExecProvideInput, ExecNote, ExecCheckReady, ExecAskQueue,
       ExecReconcileTeardown, ExecReconcileStatus, HandleStatusRead,
       ExecSelect, ExecDisconnectActive
  <2>3. Signal \/ Settle \/ Service => UNCHANGED shown
    BY DEF Signal, ReceiveStatus, ReceiveAttention, ReceiveRemoved, Settle,
       Receives, Service
  <2>4. ExecNewTunnelFor \/ ProfileWork \/ ConfigTerminal => UNCHANGED shown
    BY DEF ExecNewTunnelFor, TunnelStarts, TunnelRefused, ProfileWork,
       ExecFetch, ExecReadNames, ExecImport, ExecRename, ExecDelete,
       ConfigTerminal, WorkerStill
  <2> QED BY <1>4, <2>1, <2>2, <2>3, <2>4 DEF WorkerAlone, Latest
<1>5. CASE PanelAlone \/ UNCHANGED appletVars
  <2>1. UNCHANGED <<shown, snapshots>>
    BY <1>5 DEF PanelAlone, appletVars, workerVars, vars
  <2>2. Click => UNCHANGED snapshot
    BY DEF Click, TogglePopup, Closed, ClickDisconnect, ClickDismiss,
       ClickViewLog, ClickEnterCredentials, TypeField, ClickSubmit,
       ClickCancel, ClickImport, ClickManage, TypeName, ClickRename,
       ClickArmDelete, ClickDisarmDelete, ClickDelete, ClickBack
  <2>3. UNCHANGED snapshot
    BY <1>5, <2>2 DEF PanelAlone, ClickConnect, ImportChosen, WorkerReady,
       appletVars, panelVars
  <2> QED BY <2>1, <2>3 DEF Latest
<1> QED BY <1>1, <1>2, <1>3, <1>4, <1>5 DEF AppletNext

\* A session there has been has been there.
LEMMA BornStay ==
  ASSUME AInv, [AppletNext]_appletVars, NEW s \in Session, real[s] # "Unborn"
  PROVE  real'[s] # "Unborn"
<1>1. [WT!Next]_(WT!vars)
  BY AInvNext, SameNext
<1>2. WT!Keeps
  BY <1>1, WT!NextLemma, SameStatusClass, FaultyThere, ObjectsAssumption,
     Openvpn3Assumption, WorkerAssumption DEF AInv, WorkerInv
<1> QED BY <1>2 DEF WT!Keeps, WT!Ages

\* The session shown is one there has been, and stays one.
LEMMA ShownSentNext ==
  ASSUME AInv, ShownSent, [AppletNext]_appletVars
  PROVE  ShownSent'
<1>1. ASSUME NEW s \in Session, real[s] # "Unborn"
      PROVE  real'[s] # "Unborn" /\ ProfileOf(s)' = ProfileOf(s)
  <2>1. real'[s] # "Unborn"
    BY <1>1, BornStay
  <2> QED BY <1>1, <2>1, ProfileStays DEF ProfileOf
<1>2. CASE UNCHANGED <<Latest, shown>>
  <2>1. ProfileOf(None)' = ProfileOf(None)
    BY DEF ProfileOf
  <2> QED BY <1>1, <1>2, <2>1 DEF ShownSent
<1>3. CASE PublishToPanel /\ Latest' = WholeSnapshot /\ shown' = Snapshot
  <2>1. UNCHANGED <<real, configOf>>
    BY <1>3 DEF PublishToPanel, ExecPublish, ExecPublishIfNot, openvpn3Vars,
                serviceVars, profileVars
  <2>2. active # None => active \in Session /\ real[active] # "Unborn"
    BY DEF AInv, WorkerInv, WT!IInv, WT!TypeOK, WT!MachineTypeOK, WT!TInv,
           WT!HeldAreBorn, WT!Held, WT!Hands
  <2> QED BY <1>3, <2>1, <2>2
          DEF ShownSent, WholeSnapshot, Snapshot, ActiveConfig, ProfileOf
<1> QED BY <1>2, <1>3, LatestNext

\* Every command of the user is answered with a snapshot.
LEMMA CommandsPublish ==
  ASSUME NEW m \in UiCommand, OnUiCommand(m)
  PROVE  Published(todo')
<1>1. WellFormed(<<Publish>>) /\ IsSeq(Reconcile)
  BY PlainInputs, NothingToTake DEF Plain
<1>2. Follows(<<Publish>>) => Published(todo')
  BY PublishedInputs DEF Follows
<1>3. \A x : Receives(<<x, Publish>>) \/ Receives(Reconcile \o <<x, Publish>>)
               => Published(todo')
  BY <1>1, PublishedInputs, PublishedInFront DEF Receives
<1>4. UiDismissFailure => Published(todo')
  BY <1>1, <1>2, FailureDismissedMaps DEF UiDismissFailure
<1>5. \A gs : UiSubmitPrompt(gs) => Published(todo')
  BY <1>1, <1>2, PromptSubmittedMaps, IgnoredMaps DEF UiSubmitPrompt
<1>6. UiCancelPrompt => Published(todo')
  BY <1>1, <1>2, PromptCancelledMaps, IgnoredMaps DEF UiCancelPrompt
<1> QED BY <1>3, <1>4, <1>5, <1>6 DEF OnUiCommand, UiSelectProfile, UiDisconnect

\* When the snapshot is published nothing is left to do about profiles.
LEMMA PublishedLast ==
  ASSUME AInv, PendingPublished, Doing("Publish")
  PROVE  Pending(todo) = {}
<1> SUFFICES ASSUME Pending(todo) # {} PROVE FALSE
  OBVIOUS
<1> DEFINE n == Len(todo)
           t == WorkerSteps(todo)
<1>1. PICK k \in 1..n : todo[k].op \in ProfileOps
  BY DEF Pending
<1>2. PICK S : todo \in Seq(S)
  BY DEF AInv, WellFormed, IsSeq
<1>3. /\ todo # <<>> /\ Head(todo) = todo[1] /\ todo[1].op = "Publish"
      /\ todo[n].op = "Publish" /\ n \in Nat
  BY <1>2 DEF Doing, PendingPublished, Published
<1>4. k # 1 /\ k # n
  BY <1>1, <1>3 DEF ProfileOps
<1>5. t \in Seq(S) /\ Len(t) = n - 1
  BY <1>1, <1>2, Taken, WithoutOne DEF AInv
<1>6. Head(t).op = "Publish" /\ t # <<>>
  BY <1>3, WorkerFirst DEF AInv, ProfileOps
<1>7. t[1] = Head(t)
  BY <1>5, <1>6
<1> HIDE DEF n
<1>8. 1 \in 1..Len(t) - 1
  <2>1. k \in Int /\ 1 <= k /\ k <= n
    BY <1>1, <1>3
  <2> QED BY <1>3, <1>4, <1>5, <2>1
<1>9. t[1].op \notin {"Publish", "PublishIfNot"}
  BY <1>6, <1>8 DEF AInv, WorkerInv, WT!ShownLast, WT!PublishOps
<1> QED BY <1>6, <1>7, <1>9

\* Every step keeps the snapshots in step with the worker.
LEMMA SentNext ==
  ASSUME AInv, SentInv, [AppletNext]_appletVars
  PROVE  SentInv'
<1> USE DEF SentInv
<1>1. ShownSent'
  BY ShownSentNext
<1>2. UNCHANGED Latest \/ Latest' = WholeSnapshot
  BY LatestNext
<1>3. ASSUME Published(todo) => Published(todo'),
             UNCHANGED <<listed, unavailable>>
      PROVE  MenuSent'
  BY <1>2, <1>3 DEF MenuSent, WholeSnapshot
<1>4. CASE Published(todo')
  BY <1>1, <1>4 DEF MenuSent, PendingPublished
<1>5. CASE Follows(todo) /\ UNCHANGED <<listed, unavailable>>
  BY <1>1, <1>3, <1>5 DEF Follows, PendingPublished
<1>6. CASE UNCHANGED <<todo, listed, unavailable>>
  BY <1>1, <1>3, <1>6 DEF PendingPublished
<1>7. CASE PublishToPanel /\ ExecPublish
  <2>1. Latest' = WholeSnapshot /\ UNCHANGED <<listed, unavailable>>
    <3>1. ~ExecPublishIfNot
      BY <1>7 DEF ExecPublish, ExecPublishIfNot, Doing
    <3>2. Sends /\ UNCHANGED snapshot
      BY <1>7, <3>1 DEF PublishToPanel, panelVars
    <3> QED BY <1>7, <3>2, SentIsLatest DEF PublishToPanel, profileVars
  <2>2. Pending(todo') = {}
    BY <1>7, PublishMaps, PublishedLast DEF AInv, ExecPublish
  <2> QED BY <1>1, <2>1, <2>2 DEF MenuSent, WholeSnapshot, PendingPublished
<1>8. CASE PublishToPanel /\ ExecPublishIfNot
  BY <1>5, <1>8, PublishMaps DEF AInv, PublishToPanel, profileVars
<1>9. CASE ReceiveCommand
  <2>1. PICK m \in BagToSet(commands) : OnUiCommand(m)
    BY <1>9 DEF ReceiveCommand
  <2>2. m \in UiCommand
    BY DEF AInv, PanelInv, PanelTypeOK
  <2> QED BY <1>4, <2>1, <2>2, CommandsPublish
<1>10. CASE WorkerAlone
  <2>1. CASE Signal
    BY <1>4, <2>1, SignalMaps DEF AInv
  <2>2. CASE Settle /\ UNCHANGED profileVars
    <3>1. Idle /\ Pending(todo') = {}
      BY <2>2, SettleMaps DEF AInv, Settle, Receives
    <3>2. ~Published(todo)
      BY <3>1 DEF Idle, Published
    <3> QED BY <1>1, <1>3, <2>2, <3>1, <3>2 DEF PendingPublished, profileVars
  <2>3. CASE Call /\ UNCHANGED profileVars
    BY <1>5, <2>3, CallMaps DEF AInv, profileVars
  <2>4. CASE Service /\ UNCHANGED profileVars
    BY <1>6, <2>4 DEF Service, profileVars
  <2>5. CASE ExecNewTunnelFor
    <3>1. UNCHANGED <<listed, unavailable>>
      BY <2>5 DEF ExecNewTunnelFor, profileVars
    <3> QED BY <1>5, <2>5, <3>1, NewTunnelMaps DEF AInv, ExecNewTunnelFor
  <2>6. CASE ProfileWork
    <3>1. todo # <<>> /\ Head(todo).op \in ProfileOps
      BY <2>6 DEF ProfileWork, ExecFetch, ExecReadNames, ExecImport,
                  ExecRename, ExecDelete, Doing, ProfileOps
    <3>2. Published(todo)
      <4>1. Pending(todo) = {Head(todo)}
        BY <3>1, ProfileNow DEF AInv
      <4> QED BY <4>1 DEF PendingPublished
    <3> QED BY <1>4, <2>6, <3>2, ProfileWorkMaps DEF AInv
  <2>7. CASE ConfigTerminal
    BY <1>6, <2>7 DEF ConfigTerminal
  <2> QED BY <1>10, <2>1, <2>2, <2>3, <2>4, <2>5, <2>6, <2>7 DEF WorkerAlone
<1>11. CASE PanelAlone \/ SnapshotReceived \/ UNCHANGED appletVars
  BY <1>6, <1>11 DEF PanelAlone, SnapshotReceived, appletVars, workerVars,
                     profileVars, vars
<1> QED BY <1>7, <1>8, <1>9, <1>10, <1>11 DEF AppletNext, PublishToPanel

\* At first nothing is sent and a snapshot is to be published.
LEMMA SentInit == AppletInit => SentInv
<1> SUFFICES ASSUME AppletInit PROVE SentInv
  OBVIOUS
<1>1. Published(todo)
  <2>1. Len(todo) = 4 /\ todo[4] = Publish /\ todo # <<>>
    BY DEF AppletInit
  <2> QED BY <2>1 DEF Published, Publish
<1>2. ShownSent
  BY DEF AppletInit, PanelInit, ShownSent, Latest, ProfileOf
<1> QED BY <1>1, <1>2 DEF SentInv, MenuSent, PendingPublished
-----------------------------------------------------------------------------
(* The panel up to date *)

\* An end that matters to the worker is one it listens for, see DisplayProofs.
EndsAreWatched == WT!EndsAreWatched

EndsSignalled == WT!EndsSignalled
ShownCurrent  == WT!ShownCurrent

\* At first no session has ended.
LEMMA DisplayInit == AppletInit => EndsSignalled /\ ShownCurrent
BY InitMaps, SameInit, WT!EndsInit, WT!ShownCurrentInit, SameStatusClass,
   FaultyThere, ObjectsAssumption, Openvpn3Assumption, WorkerAssumption
   DEF EndsSignalled, ShownCurrent

\* Every step signals the ends, and what it changes is shown.
LEMMA DisplayNext ==
  ASSUME ~Lossy, AInv, EndsAreWatched', EndsSignalled, ShownCurrent,
         [AppletNext]_appletVars
  PROVE  EndsSignalled' /\ ShownCurrent'
<1>1. [WT!Next]_(WT!vars)
  BY AInvNext, SameNext
<1>2. EndsSignalled'
  BY <1>1, WT!EndsNext, SameStatusClass, FaultyThere, ObjectsAssumption,
     Openvpn3Assumption, WorkerAssumption
     DEF AInv, WorkerInv, EndsAreWatched, EndsSignalled
<1>3. ShownCurrent'
  BY <1>1, WT!ShownCurrentNext, SameStatusClass, FaultyThere,
     ObjectsAssumption, Openvpn3Assumption, WorkerAssumption
     DEF AInv, WorkerInv, EndsSignalled, ShownCurrent
<1> QED BY <1>2, <1>3

\* What a worker with nothing to do and no end to receive has shown is all
\* there is to show.
LEMMA QuietShows ==
  ASSUME ShownCurrent, todo = <<>>, removedQ = <<>>
  PROVE  shown = Snapshot
<1>1. WorkerSteps(todo) = <<>>
  <2>1. IsSeq(<<>>) /\ Len(<<>>) = 0
    <3>1. <<>> \in Seq({})
      OBVIOUS
    <3> QED BY <3>1 DEF IsSeq
  <2> QED BY <2>1, NothingToTake DEF Plain
<1>2. ~WT!Publishing
  BY <1>1 DEF WT!Publishing
<1>3. \A x : ~WT!Ticking(x)
  BY <1>1 DEF WT!Ticking
<1> QED BY <1>2, <1>3
        DEF ShownCurrent, WT!ShownCurrent, WT!Snapshot, Snapshot

\* Then the panel, which has got it, is up to date.
LEMMA QuietIsCurrent ==
  ASSUME AInv, SentInv, ShownCurrent
  PROVE  PanelIsCurrent
<1> SUFFICES ASSUME Quiet PROVE snapshot = WholeSnapshot
  BY DEF PanelIsCurrent
<1>1. todo = <<>> /\ removedQ = <<>> /\ snapshots = <<>>
  BY DEF Quiet, Idle
<1>2. shown = Snapshot /\ Latest = snapshot
  BY <1>1, QuietShows DEF Latest
<1>3. /\ snapshot.state = state /\ snapshot.prompt = prompt
      /\ snapshot.config = ActiveConfig
  BY <1>2 DEF SentInv, ShownSent, Snapshot, ProfileOf, ActiveConfig
<1>4. snapshot.profiles = listed /\ snapshot.unavailable = unavailable
  BY <1>1, <1>2 DEF SentInv, MenuSent, Published
<1>5. snapshot \in SnapshotKind
  BY DEF AInv, PanelInv, PanelTypeOK
<1>6. snapshot = [state |-> snapshot.state, config |-> snapshot.config,
                  prompt |-> snapshot.prompt, profiles |-> snapshot.profiles,
                  unavailable |-> snapshot.unavailable]
  BY <1>5 DEF SnapshotKind
<1> QED BY <1>3, <1>4, <1>6 DEF WholeSnapshot

\* Once nothing is under way the panel shows what the worker knows, menu and
\* all, although a tick publishes only a change of the state: as long as no
\* signal is lost and no session ends before the worker watches for it.
THEOREM PanelIsUpToDate ==
  ASSUME ~Lossy
  PROVE  AppletSpec /\ []EndsAreWatched => []PanelIsCurrent
<1>1. AppletSpec => []SentInv
  BY SentInit, SentNext, AppletInvariance, PTL DEF AppletSpec
<1>2. AppletSpec /\ []EndsAreWatched => [](EndsSignalled /\ ShownCurrent)
  BY DisplayInit, DisplayNext, AppletInvariance, PTL DEF AppletSpec
<1> QED BY <1>1, <1>2, QuietIsCurrent, AppletInvariance, PTL

\* Beside no sessions from a terminal no session ends before the worker watches
\* for it if the call to watch is answered.
LEMMA WatchedAlone ==
  ASSUME Session = Own, "Watch" \notin FaultyCalls
  PROVE  AppletSpec => []EndsAreWatched
<1>1. AppletInit => WT!EarlyWatch
  BY InitMaps, SameInit, WT!EarlyIsWatched, SameStatusClass, FaultyThere,
     ObjectsAssumption, Openvpn3Assumption, WorkerAssumption
<1>2. WT!EarlyWatch => EndsAreWatched
  BY WT!EarlyIsWatched, SameStatusClass, FaultyThere, ObjectsAssumption,
     Openvpn3Assumption, WorkerAssumption DEF EndsAreWatched
<1>3. AInv /\ WT!EarlyWatch /\ [AppletNext]_appletVars => WT!EarlyWatch'
  <2>1. "Watch" \notin FaultyCalls \cup {"NewTunnel"}
    OBVIOUS
  <2>2. AInv /\ [AppletNext]_appletVars => [WT!Next]_(WT!vars)
    BY AInvNext, SameNext
  <2> QED BY <2>1, <2>2, WT!EarlyNext, SameStatusClass, FaultyThere,
             ObjectsAssumption, Openvpn3Assumption, WorkerAssumption
<1> QED BY <1>1, <1>2, <1>3, AppletInvariance, PTL DEF AppletSpec

-----------------------------------------------------------------------------
(* The way back to a prompt *)

\* The menu's lines are asked for, or about to be fetched.
Asked ==
  \/ BagIn(RefreshProfiles, commands)
  \/ \E x \in Pending(todo) : x.op = "Fetch"

\* The menu says that openvpn3 is unavailable only if it has an excuse, or until
\* it has been read again.
WayInv == excused \/ unavailable = None \/ Asked

\* What neither touches the reason nor takes a request or a fetch away.
StillAsked == unavailable' = unavailable /\ (Asked => Asked')

\* A step that starts from idleness had no fetch before it.
LEMMA IdleAsks ==
  ASSUME Idle, Asked PROVE BagIn(RefreshProfiles, commands)
BY PlainBatches, NothingToTake, PendingSteps DEF Idle, Asked

\* A refresh received is a fetch; another command leaves it under way.
LEMMA ReceivedAsks ==
  ASSUME AInv, ReceiveCommand
  PROVE  StillAsked
<1>1. PICK m \in BagToSet(commands) :
        OnUiCommand(m) /\ commands' = BagRemove(commands, m)
  BY DEF ReceiveCommand
<1>2. m \in UiCommand /\ IsABag(commands)
  BY DEF AInv, PanelInv, PanelTypeOK
<1>3. Idle
  BY <1>1, <1>2, ReceivedAlone
<1>4. unavailable' = unavailable
  BY DEF ReceiveCommand, profileVars
<1>5. CASE m.op = "RefreshProfiles"
  <2>1. Receives(Reconcile \o <<Fetch(1), Publish>>)
    BY <1>1, <1>5 DEF OnUiCommand
  <2>2. Fetch(1) \in Pending(todo') /\ Fetch(1).op = "Fetch"
    BY <2>1, RefreshPending DEF Fetch
  <2> QED BY <1>4, <2>2 DEF StillAsked, Asked
<1>6. CASE m.op # "RefreshProfiles"
  <2>1. m # RefreshProfiles
    BY <1>6 DEF RefreshProfiles
  <2>2. BagIn(RefreshProfiles, commands) => BagIn(RefreshProfiles, commands')
    BY <1>1, <1>2, <2>1 DEF IsABag, BagIn, BagRemove, BagToSet
  <2> QED BY <1>3, <1>4, <2>2, IdleAsks DEF StillAsked, Asked
<1> QED BY <1>5, <1>6

\* A step about profiles that gives up nothing clears the menu, or leaves it as
\* it is, or has the fetch still before it.
LEMMA ProfileWorkAsks ==
  ASSUME AInv, ProfileWork, ~FailsNow, UNCHANGED commands
  PROVE  StillAsked \/ unavailable' = None \/ Asked'
<1>1. /\ WellFormed(todo) /\ todo # <<>> /\ Head(todo).op \in ProfileOps
      /\ \E op \in ProfileOps : Doing(op)
  BY DEF AInv, ProfileWork, ExecFetch, ExecReadNames, ExecImport, ExecRename,
         ExecDelete, Doing, ProfileOps
<1>2. CASE ExecFetch
  <2>1. CASE Returns(<<Fetch(2)>>, Rest)
    <3>1. Fetch(2) \in Pending(todo') /\ Fetch(2).op = "Fetch"
      BY <1>1, <2>1, ProfileNow, ProfileSteps DEF Fetch
    <3> QED BY <3>1 DEF Asked
  <2>2. CASE unavailable' = "Down" /\ Done
    BY <1>1, <2>2, ProfilesAssumption DEF FailsNow
  <2> QED BY <1>2, <2>1, <2>2 DEF ExecFetch
<1>3. CASE ExecReadNames
  <2>1. \A x \in Pending(todo) : x.op # "Fetch"
    BY <1>1, <1>3, ProfileNow DEF ExecReadNames, Doing
  <2> QED BY <1>3, <2>1 DEF ExecReadNames, StillAsked, Asked
<1>4. CASE ExecImport \/ ExecRename \/ ExecDelete
  <2>1. Succeeds \/ Refused
    BY <1>4 DEF ExecImport, ExecRename, ExecDelete
  <2>2. ~Refused
    BY <1>1, ProfilesAssumption DEF FailsNow, Refused
  <2> QED BY <2>1, <2>2 DEF Succeeds
<1> QED BY <1>2, <1>3, <1>4 DEF ProfileWork

\* Any other step of the worker leaves the menu alone.
LEMMA WorkerAsks ==
  ASSUME AInv, PublishToPanel \/ WorkerAlone, ~ProfileWork
  PROVE  StillAsked
<1>1. commands' = commands
  BY DEF PublishToPanel, WorkerAlone, panelVars
<1>2. CASE Pending(todo') = Pending(todo) /\ UNCHANGED unavailable
  BY <1>1, <1>2 DEF StillAsked, Asked
<1>3. CASE PublishToPanel
  <2>1. Pending(todo') = Pending(todo)
    BY <1>3, PublishMaps DEF AInv, PublishToPanel, Follows
  <2> QED BY <1>2, <1>3, <2>1 DEF PublishToPanel, profileVars
<1>4. CASE (Signal \/ Settle) /\ UNCHANGED profileVars
  <2>1. Idle
    BY <1>4 DEF Signal, Settle, ReceiveStatus, ReceiveAttention,
                ReceiveRemoved, Receives
  <2> QED BY <1>1, <1>4, <2>1, IdleAsks DEF StillAsked, Asked, profileVars
<1>5. CASE (Call \/ Service) /\ UNCHANGED profileVars
  <2>1. Call => Pending(todo') = Pending(todo)
    BY CallMaps DEF AInv, Follows
  <2> QED BY <1>2, <1>5, <2>1 DEF Service, profileVars
<1>6. CASE ExecNewTunnelFor
  <2>1. Pending(todo') = Pending(todo)
    BY <1>6, NewTunnelMaps DEF AInv, Follows, ExecNewTunnelFor
  <2> QED BY <1>2, <1>6, <2>1 DEF ExecNewTunnelFor, profileVars
<1>7. CASE ConfigTerminal
  BY <1>2, <1>7 DEF ConfigTerminal
<1> QED BY <1>3, <1>4, <1>5, <1>6, <1>7 DEF WorkerAlone

\* The panel takes no request back, and asks when it opens.
LEMMA PanelAsks ==
  ASSUME AInv, PanelAlone \/ SnapshotReceived
  PROVE  StillAsked /\ (Opens => Asked')
<1>1. /\ todo' = todo /\ unavailable' = unavailable
  BY DEF PanelAlone, SnapshotReceived, workerVars, profileVars, vars
<1>2. \/ WorkerReady
      \/ Click \/ ClickConnect \/ ImportChosen \/ \E new : SnapshotArrives(new)
  BY DEF PanelAlone, SnapshotReceived
<1>3. UNCHANGED commands \/ \E m : Send(m)
  BY <1>2, MessageSends
     DEF WorkerReady, SnapshotArrives, OpenPopup, ToMenu
<1>4. BagIn(RefreshProfiles, commands) => BagIn(RefreshProfiles, commands')
  BY <1>3, SentIsUnderWay
<1>5. Opens => ~WorkerReady
  BY DEF Opens, WorkerReady
<1>6. Opens => Asked'
  BY <1>2, <1>5, OpeningAsks DEF AInv, Opens, Asked
<1> QED BY <1>1, <1>4, <1>6 DEF StillAsked, Asked

\* The menu keeps silent for a reason only.
LEMMA WayNext ==
  ASSUME AInv, WayInv, [WayBackNext]_wayBackVars
  PROVE  WayInv'
<1>1. CASE UNCHANGED wayBackVars
  <2>1. UNCHANGED <<excused, unavailable, commands, todo>>
    BY <1>1 DEF wayBackVars, appletVars, workerVars, profileVars, panelVars, vars
  <2> QED BY <2>1 DEF WayInv, Asked
<1>2. CASE WayBackNext
  <2> SUFFICES ASSUME ~excused' PROVE unavailable' = None \/ Asked'
    BY DEF WayInv
  <2>1. ~FailsNow /\ (~excused \/ Opens)
    BY <1>2 DEF WayBackNext
  <2>2. AppletNext
    BY <1>2 DEF WayBackNext
  <2>3. CASE Opens
    <3>1. PanelAlone \/ SnapshotReceived
      BY <2>2, <2>3 DEF Opens, AppletNext, ReceiveCommand, PublishToPanel,
                        WorkerAlone, panelVars
    <3> QED BY <3>1, <2>3, PanelAsks
  <2>4. CASE ~excused
    <3>1. StillAsked \/ unavailable' = None \/ Asked'
      <4>1. CASE ProfileWork /\ WorkerAlone
        BY <2>1, <4>1, ProfileWorkAsks DEF WorkerAlone, panelVars
      <4>2. CASE PublishToPanel
        <5>1. ~ProfileWork
          BY <4>2
             DEF PublishToPanel, ExecPublish, ExecPublishIfNot, Doing,
                 ProfileWork, ExecFetch, ExecReadNames, ExecImport, ExecRename,
                 ExecDelete
        <5> QED BY <4>2, <5>1, WorkerAsks
      <4> QED BY <2>2, <4>1, <4>2, ReceivedAsks, WorkerAsks, PanelAsks
              DEF AppletNext
    <3> QED BY <2>4, <3>1 DEF WayInv, StillAsked
  <2> QED BY <2>1, <2>3, <2>4
<1> QED BY <1>1, <1>2

\* With the history it is the same applet.
LEMMA WayIsApplet == WayBackSpec => AppletSpec
<1>1. [WayBackNext]_wayBackVars => [AppletNext]_appletVars
  BY DEF WayBackNext, wayBackVars
<1> QED BY <1>1, PTL DEF WayBackSpec, AppletSpec

\* A panel that is up to date has the prompt that is open for the session on
\* display, and no reason on its menu to say nothing of it but an excuse.
LEMMA QuietIsReachable ==
  ASSUME AInv, PanelIsCurrent, WayInv
  PROVE  LivePromptIsReachable
<1> SUFFICES ASSUME Quiet, promptOpen, active # None
             PROVE  /\ snapshot.prompt # None
                    /\ snapshot.prompt.session = active
                    /\ snapshot.state = "AuthPending"
                    /\ snapshot.unavailable = None \/ excused
  BY DEF LivePromptIsReachable
<1>1. WorkerSteps(todo) = <<>>
  <2>1. IsSeq(<<>>) /\ Len(<<>>) = 0
    <3>1. <<>> \in Seq({})
      OBVIOUS
    <3> QED BY <3>1 DEF IsSeq
  <2> QED BY <2>1, NothingToTake DEF Plain, Quiet, Idle
<1>2. prompt # None /\ prompt.session \in {active, awaitingTeardown} \ {None}
  BY <1>1
     DEF AInv, WorkerInv, WT!PromptLives, WT!Doing, WT!Hands
<1>3. awaitingTeardown = None
  BY DEF AInv, WorkerInv, WT!IInv, WT!OneChain, WT!Exclusive
<1>4. state = "AuthPending"
  BY DEF AInv, WorkerInv, WT!AuthIsLive
<1>5. snapshot = WholeSnapshot
  BY DEF PanelIsCurrent
<1>6. unavailable = None \/ excused
  <2>1. ~BagIn(RefreshProfiles, commands)
    BY EmptyBags DEF Quiet, BagIn
  <2>2. ~Asked
    BY <2>1, IdleAsks DEF Quiet
  <2> QED BY <2>2 DEF WayInv
<1> QED BY <1>2, <1>3, <1>4, <1>5, <1>6 DEF WholeSnapshot

\* A session that waits for its prompt is not out of reach of the panel for good,
\* whatever calls fail and whatever commands are refused: opening the popup
\* clears the menu's own message unless the profiles cannot be read even then.
\* On the same conditions as PanelIsUpToDate.
THEOREM PromptIsReachable ==
  ASSUME ~Lossy
  PROVE  WayBackSpec /\ []EndsAreWatched => []LivePromptIsReachable
<1>1. AppletInit /\ excused = FALSE => WayInv
  BY DEF AppletInit, ProfilesInit, WayInv
<1> QED BY <1>1, WayIsApplet, WayNext, PanelIsUpToDate, QuietIsReachable,
           AppletInvariance, PTL DEF WayBackSpec

\* Beside no sessions from a terminal the panel is up to date as long as the
\* worker's call to watch for the ends of sessions is answered.
THEOREM PanelUpToDateAlone ==
  ASSUME ~Lossy, Session = Own, "Watch" \notin FaultyCalls
  PROVE  AppletSpec => []PanelIsCurrent
<1> QED BY WatchedAlone, PanelIsUpToDate, PTL

\* And a live prompt is within reach on no other condition.
THEOREM PromptIsReachableAlone ==
  ASSUME ~Lossy, Session = Own, "Watch" \notin FaultyCalls
  PROVE  WayBackSpec => []LivePromptIsReachable
<1> QED BY WatchedAlone, WayIsApplet, PromptIsReachable, PTL
=============================================================================
