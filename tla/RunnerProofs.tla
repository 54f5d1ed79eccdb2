---------------------------- MODULE RunnerProofs ----------------------------
(***************************************************************************)
(* The theorems about Runner, for every number of levels, every limit and   *)
(* every bound of the environment.                                          *)
(*                                                                         *)
(* An invariant of the states between ticks is broken while a tick is under *)
(* way, and what restores it are the calls still to be made.  So most of    *)
(* this module is about the list todo: what the lists that OnTick makes     *)
(* have in common (Started), what every call leaves of a list (Within), and *)
(* what an order on its way still owes to its place (Stays, Emptied,        *)
(* Pending).                                                                *)
(***************************************************************************)
EXTENDS Runner, FiniteSetTheorems, TLAPS

-----------------------------------------------------------------------------
(* The jobs of a tick. *)

Placing == {"place", "static", "submit"}
Removing == {"cancel", "withdraw"}

Jobs(q) == {q[i] : i \in DOMAIN q}
Has(q, ops, s, k) == \E j \in Jobs(q) : j.op \in ops /\ j.side = s /\ j.slot = k

\* Every cancel comes before anything else; no place is given two orders; the calls
\* about static orders are those of the static place.
CancelsFirst(q) ==
  \A i, j \in DOMAIN q : i < j /\ q[j].op = "cancel" => q[i].op = "cancel"
Distinct(q) ==
  \A i, j \in DOMAIN q :
    i < j /\ q[i].op \in Placing /\ q[j].op \in Placing
      => q[i].side # q[j].side \/ q[i].slot # q[j].slot
Slotted(q) ==
  \A j \in Jobs(q) : j.op \in {"static", "submit", "withdraw"} <=> j.slot = Static
Orderly(q) == CancelsFirst(q) /\ Distinct(q) /\ Slotted(q)

\* One list is what is left of another, but for the flags of its jobs and for a static
\* order that is now to be submitted.
Alike(a, b) ==
  /\ a.side = b.side /\ a.slot = b.slot
  /\ a.op = b.op \/ {a.op, b.op} \subseteq {"static", "submit"}
Within(r, q) ==
  \E f \in [DOMAIN r -> DOMAIN q] :
    /\ \A i, j \in DOMAIN r : i < j => f[i] < f[j]
    /\ \A i \in DOMAIN r : Alike(r[i], q[f[i]])

\* What a sequence's indices and members are.
LEMMA Elements ==
  ASSUME NEW S, NEW q \in Seq(S)
  PROVE  Len(q) \in Nat /\ DOMAIN q = 1..Len(q) /\ (\A i \in DOMAIN q : q[i] \in S)
  OBVIOUS

\* No calls, one call.
LEMMA JobsOfNone == Jobs(<<>>) = {}
  BY DEF Jobs

LEMMA JobsOfOne == ASSUME NEW e PROVE Jobs(<<e>>) = {e}
  BY DEF Jobs

\* Joining two lists joins their jobs.
LEMMA JobsOfBoth ==
  ASSUME NEW S, NEW p \in Seq(S), NEW q \in Seq(S)
  PROVE  p \o q \in Seq(S) /\ Jobs(p \o q) = Jobs(p) \union Jobs(q)
<1>1. p \o q \in Seq(S) /\ Len(p \o q) = Len(p) + Len(q)
      /\ DOMAIN p = 1..Len(p) /\ DOMAIN q = 1..Len(q) /\ Len(p) \in Nat /\ Len(q) \in Nat
      /\ DOMAIN (p \o q) = 1..(Len(p) + Len(q))
  OBVIOUS
<1>2. ASSUME NEW i \in DOMAIN (p \o q)
      PROVE  \/ i \in DOMAIN p /\ (p \o q)[i] = p[i]
             \/ i - Len(p) \in DOMAIN q /\ (p \o q)[i] = q[i - Len(p)]
  BY <1>1
<1>3. ASSUME NEW i \in DOMAIN p PROVE i \in DOMAIN (p \o q) /\ (p \o q)[i] = p[i]
  BY <1>1
<1>4. ASSUME NEW i \in DOMAIN q
      PROVE  i + Len(p) \in DOMAIN (p \o q) /\ (p \o q)[i + Len(p)] = q[i]
  BY <1>1
<1>5. ASSUME NEW e \in Jobs(p \o q) PROVE e \in Jobs(p) \union Jobs(q)
  <2>1. PICK i \in DOMAIN (p \o q) : e = (p \o q)[i]
    BY DEF Jobs
  <2> QED
    BY ONLY <2>1, <1>2 DEF Jobs
<1>6. ASSUME NEW e \in Jobs(p) \union Jobs(q) PROVE e \in Jobs(p \o q)
  BY ONLY <1>3, <1>4, e \in Jobs(p) \union Jobs(q) DEF Jobs
<1> QED
  BY <1>1, <1>5, <1>6

\* A list that is not empty is its head before its tail.
LEMMA HeadAndTail ==
  ASSUME NEW S, NEW q \in Seq(S), q # <<>>
  PROVE  /\ Head(q) \in S /\ Tail(q) \in Seq(S)
         /\ Head(q) = q[1] /\ 1 \in DOMAIN q
         /\ Len(Tail(q)) = Len(q) - 1
         /\ DOMAIN Tail(q) = 1..(Len(q) - 1)
         /\ \A i \in DOMAIN Tail(q) : i + 1 \in DOMAIN q /\ Tail(q)[i] = q[i + 1]
         /\ Jobs(q) = {Head(q)} \union Jobs(Tail(q))
<1>1. /\ Head(q) \in S /\ Tail(q) \in Seq(S) /\ Len(q) \in Nat \ {0}
      /\ Head(q) = q[1] /\ 1 \in DOMAIN q
      /\ Len(Tail(q)) = Len(q) - 1 /\ DOMAIN q = 1..Len(q)
      /\ DOMAIN Tail(q) = 1..(Len(q) - 1)
      /\ \A i \in DOMAIN Tail(q) : i + 1 \in DOMAIN q /\ Tail(q)[i] = q[i + 1]
  OBVIOUS
<1>2. ASSUME NEW i \in DOMAIN q
      PROVE  i = 1 \/ (i - 1 \in DOMAIN Tail(q) /\ Tail(q)[i - 1] = q[i])
  <2>1. i # 1 => i - 1 \in DOMAIN Tail(q) /\ (i - 1) + 1 = i
    BY <1>1
  <2> QED
    BY <1>1, <2>1
<1>3. ASSUME NEW e \in Jobs(q) PROVE e \in {Head(q)} \union Jobs(Tail(q))
  <2>1. PICK i \in DOMAIN q : e = q[i]
    BY DEF Jobs
  <2>2. e = Head(q) \/ \E j \in DOMAIN Tail(q) : e = Tail(q)[j]
    BY <1>1, <1>2, <2>1
  <2> QED
    BY ONLY <2>2 DEF Jobs
<1>4. ASSUME NEW e \in {Head(q)} \union Jobs(Tail(q)) PROVE e \in Jobs(q)
  <2>1. CASE e = Head(q)
    BY ONLY <2>1, <1>1 DEF Jobs
  <2>2. CASE e \in Jobs(Tail(q))
    <3>1. PICK i \in DOMAIN Tail(q) : e = Tail(q)[i]
      BY <2>2 DEF Jobs
    <3>2. i + 1 \in DOMAIN q /\ e = q[i + 1]
      BY <3>1, <1>1
    <3> QED
      BY ONLY <3>2 DEF Jobs
  <2> QED
    BY <2>1, <2>2
<1> QED
  BY <1>1, <1>3, <1>4

\* The head has gone before: no cancel follows anything else, no placing repeats it.
LEMMA HeadIsFirst ==
  ASSUME NEW q \in Seq(Job), q # <<>>, Orderly(q), NEW b \in Jobs(Tail(q))
  PROVE  /\ b.op = "cancel" => Head(q).op = "cancel"
         /\ Head(q).op \in Placing /\ b.op \in Placing
              => Head(q).side # b.side \/ Head(q).slot # b.slot
<1>1. PICK i \in DOMAIN Tail(q) : b = Tail(q)[i]
  BY DEF Jobs
<1>2. i + 1 \in DOMAIN q /\ b = q[i + 1] /\ Head(q) = q[1] /\ 1 \in DOMAIN q /\ 1 < i + 1
  BY <1>1, HeadAndTail
<1> QED
  BY <1>2 DEF Orderly, CancelsFirst, Distinct

\* What is left of an orderly list is orderly.
LEMMA WithinOrderly ==
  ASSUME NEW q \in Seq(Job), NEW r \in Seq(Job), Orderly(q), Within(r, q)
  PROVE  /\ Orderly(r)
         /\ \A a \in Jobs(r) : \E b \in Jobs(q) : Alike(a, b)
<1>1. PICK f \in [DOMAIN r -> DOMAIN q] :
        /\ \A i, j \in DOMAIN r : i < j => f[i] < f[j]
        /\ \A i \in DOMAIN r : Alike(r[i], q[f[i]])
  BY DEF Within
<1>2. \A i \in DOMAIN r : f[i] \in DOMAIN q /\ Alike(r[i], q[f[i]])
  BY <1>1
<1>3. \A a \in Jobs(r) : \E b \in Jobs(q) : Alike(a, b)
  BY <1>2 DEF Jobs
<1>4. CancelsFirst(r)
  <2> SUFFICES ASSUME NEW i \in DOMAIN r, NEW j \in DOMAIN r, i < j, r[j].op = "cancel"
               PROVE  r[i].op = "cancel"
    BY DEF CancelsFirst
  <2>1. q[f[j]].op = "cancel" /\ f[i] < f[j]
    BY <1>1, <1>2 DEF Alike
  <2>2. q[f[i]].op = "cancel"
    BY <2>1, <1>2 DEF Orderly, CancelsFirst
  <2> QED
    BY <2>2, <1>2 DEF Alike
<1>5. Distinct(r)
  <2> SUFFICES ASSUME NEW i \in DOMAIN r, NEW j \in DOMAIN r, i < j,
                      r[i].op \in Placing, r[j].op \in Placing
               PROVE  r[i].side # r[j].side \/ r[i].slot # r[j].slot
    BY DEF Distinct
  <2>1. q[f[i]].op \in Placing /\ q[f[j]].op \in Placing /\ f[i] < f[j]
    BY <1>1, <1>2 DEF Alike, Placing
  <2>2. q[f[i]].side # q[f[j]].side \/ q[f[i]].slot # q[f[j]].slot
    BY <2>1, <1>2 DEF Orderly, Distinct
  <2> QED
    BY <2>2, <1>2 DEF Alike
<1>6. Slotted(r)
  BY <1>3 DEF Orderly, Slotted, Alike
<1> QED
  BY <1>3, <1>4, <1>5, <1>6 DEF Orderly

\* Two orderly lists make one when the second cancels nothing, or the first does nothing
\* else, and no place is given an order by both.
LEMMA BothOrderly ==
  ASSUME NEW p \in Seq(Job), NEW q \in Seq(Job), Orderly(p), Orderly(q),
         \A a \in Jobs(p), b \in Jobs(q) :
           /\ b.op = "cancel" => a.op = "cancel"
           /\ a.op \in Placing /\ b.op \in Placing => a.side # b.side \/ a.slot # b.slot
  PROVE  p \o q \in Seq(Job) /\ Orderly(p \o q)
<1>1. /\ p \o q \in Seq(Job) /\ Jobs(p \o q) = Jobs(p) \union Jobs(q)
  BY JobsOfBoth
<1>2. /\ DOMAIN p = 1..Len(p) /\ DOMAIN q = 1..Len(q) /\ Len(p) \in Nat /\ Len(q) \in Nat
      /\ DOMAIN (p \o q) = 1..(Len(p) + Len(q))
  OBVIOUS
<1>3. ASSUME NEW i \in DOMAIN (p \o q)
      PROVE  \/ i \in DOMAIN p /\ (p \o q)[i] = p[i] /\ p[i] \in Jobs(p) /\ i <= Len(p)
             \/ /\ i - Len(p) \in DOMAIN q /\ (p \o q)[i] = q[i - Len(p)]
                /\ q[i - Len(p)] \in Jobs(q) /\ i > Len(p)
  <2>1. \/ i \in DOMAIN p /\ (p \o q)[i] = p[i] /\ i <= Len(p)
        \/ i - Len(p) \in DOMAIN q /\ (p \o q)[i] = q[i - Len(p)] /\ i > Len(p)
    BY <1>2
  <2> QED
    BY <2>1 DEF Jobs
<1>4. CancelsFirst(p \o q)
  <2> SUFFICES ASSUME NEW i \in DOMAIN (p \o q), NEW j \in DOMAIN (p \o q), i < j,
                      (p \o q)[j].op = "cancel"
               PROVE  (p \o q)[i].op = "cancel"
    BY DEF CancelsFirst
  <2>0. i \in Int /\ j \in Int
    BY <1>2
  <2>1. CASE j <= Len(p)
    <3>1. i \in DOMAIN p /\ j \in DOMAIN p /\ (p \o q)[i] = p[i] /\ (p \o q)[j] = p[j]
      BY <2>0, <2>1, <1>2, <1>3
    <3> QED
      BY <3>1 DEF Orderly, CancelsFirst
  <2>2. CASE i > Len(p)
    <3>1. /\ i - Len(p) \in DOMAIN q /\ j - Len(p) \in DOMAIN q /\ i - Len(p) < j - Len(p)
          /\ (p \o q)[i] = q[i - Len(p)] /\ (p \o q)[j] = q[j - Len(p)]
      BY <2>0, <2>2, <1>2, <1>3
    <3> QED
      BY <3>1 DEF Orderly, CancelsFirst
  <2>3. CASE i <= Len(p) /\ j > Len(p)
    <3>1. (p \o q)[i] \in Jobs(p) /\ (p \o q)[j] \in Jobs(q)
      BY <2>0, <2>3, <1>2, <1>3
    <3> QED
      BY <3>1
  <2> QED
    BY <2>0, <2>1, <2>2, <2>3, <1>2
<1>5. Distinct(p \o q)
  <2> SUFFICES ASSUME NEW i \in DOMAIN (p \o q), NEW j \in DOMAIN (p \o q), i < j,
                      (p \o q)[i].op \in Placing, (p \o q)[j].op \in Placing
               PROVE  \/ (p \o q)[i].side # (p \o q)[j].side
                      \/ (p \o q)[i].slot # (p \o q)[j].slot
    BY DEF Distinct
  <2>0. i \in Int /\ j \in Int
    BY <1>2
  <2>1. CASE j <= Len(p)
    <3>1. i \in DOMAIN p /\ j \in DOMAIN p /\ (p \o q)[i] = p[i] /\ (p \o q)[j] = p[j]
      BY <2>0, <2>1, <1>2, <1>3
    <3> QED
      BY <3>1 DEF Orderly, Distinct
  <2>2. CASE i > Len(p)
    <3>1. /\ i - Len(p) \in DOMAIN q /\ j - Len(p) \in DOMAIN q /\ i - Len(p) < j - Len(p)
          /\ (p \o q)[i] = q[i - Len(p)] /\ (p \o q)[j] = q[j - Len(p)]
      BY <2>0, <2>2, <1>2, <1>3
    <3> QED
      BY <3>1 DEF Orderly, Distinct
  <2>3. CASE i <= Len(p) /\ j > Len(p)
    <3>1. (p \o q)[i] \in Jobs(p) /\ (p \o q)[j] \in Jobs(q)
      BY <2>0, <2>3, <1>2, <1>3
    <3> QED
      BY <3>1
  <2> QED
    BY <2>0, <2>1, <2>2, <2>3, <1>2
<1>6. Slotted(p \o q)
  BY <1>1 DEF Orderly, Slotted
<1> QED
  BY <1>1, <1>4, <1>5, <1>6 DEF Orderly

\* The empty list is a list of jobs.
LEMMA NoneOrderly == <<>> \in Seq(Job) /\ Orderly(<<>>)
  BY JobsOfNone DEF Orderly, CancelsFirst, Distinct, Slotted

\* One job of a list is orderly by itself.
LEMMA OneOrderly ==
  ASSUME NEW e \in Job, e.op \in {"static", "submit", "withdraw"} <=> e.slot = Static
  PROVE  <<e>> \in Seq(Job) /\ Orderly(<<e>>)
<1>1. /\ <<e>> \in Seq(Job)
      /\ DOMAIN <<e>> = {1}
  OBVIOUS
<1>2. CancelsFirst(<<e>>) /\ Distinct(<<e>>)
  BY <1>1 DEF CancelsFirst, Distinct
<1> QED
  BY <1>1, <1>2, JobsOfOne DEF Orderly, Slotted

-----------------------------------------------------------------------------
(* What the calls leave of the list. *)

\* Nothing, or all but the head.
LEMMA NothingLeft == ASSUME NEW q \in Seq(Job) PROVE Within(<<>>, q)
<1>1. DOMAIN <<>> = {} /\ [i \in {} |-> 1] \in [{} -> DOMAIN q]
  OBVIOUS
<1> QED
  BY <1>1 DEF Within

LEMMA TailWithin ==
  ASSUME NEW q \in Seq(Job), q # <<>>
  PROVE  Within(Tail(q), q)
<1> DEFINE f == [i \in DOMAIN Tail(q) |-> i + 1]
<1>1. f \in [DOMAIN Tail(q) -> DOMAIN q] /\ \A i \in DOMAIN Tail(q) : Tail(q)[i] = q[f[i]]
  BY HeadAndTail
<1>2. \A i, j \in DOMAIN Tail(q) : i < j => f[i] < f[j]
  BY HeadAndTail
<1>3. \A i \in DOMAIN Tail(q) : Alike(Tail(q)[i], q[f[i]])
  BY <1>1 DEF Alike
<1> HIDE DEF f
<1> QED
  BY <1>1, <1>2, <1>3 DEF Within

\* As many jobs, each like the one it stands for.
LEMMA LikeWithin ==
  ASSUME NEW q \in Seq(Job), NEW r \in Seq(Job), DOMAIN r = DOMAIN q,
         \A i \in DOMAIN q : Alike(r[i], q[i])
  PROVE  Within(r, q)
<1> DEFINE f == [i \in DOMAIN q |-> i]
<1>1. f \in [DOMAIN r -> DOMAIN q] /\ \A i \in DOMAIN r : f[i] = i
  OBVIOUS
<1> HIDE DEF f
<1>2. \A i, j \in DOMAIN r : i < j => f[i] < f[j]
  BY <1>1
<1>3. \A i \in DOMAIN r : Alike(r[i], q[f[i]])
  BY <1>1
<1> QED
  BY <1>1, <1>2, <1>3 DEF Within

\* What is left of what is left.
LEMMA WithinWithin ==
  ASSUME NEW q \in Seq(Job), NEW r \in Seq(Job), NEW t \in Seq(Job),
         Within(t, r), Within(r, q)
  PROVE  Within(t, q)
<1>1. PICK f \in [DOMAIN r -> DOMAIN q] :
        /\ \A i, j \in DOMAIN r : i < j => f[i] < f[j]
        /\ \A i \in DOMAIN r : Alike(r[i], q[f[i]])
  BY DEF Within
<1>2. PICK g \in [DOMAIN t -> DOMAIN r] :
        /\ \A i, j \in DOMAIN t : i < j => g[i] < g[j]
        /\ \A i \in DOMAIN t : Alike(t[i], r[g[i]])
  BY DEF Within
<1> DEFINE h == [i \in DOMAIN t |-> f[g[i]]]
<1>3. h \in [DOMAIN t -> DOMAIN q] /\ \A i \in DOMAIN t : g[i] \in DOMAIN r /\ h[i] = f[g[i]]
  BY <1>1, <1>2
<1> HIDE DEF h
<1>4. \A i, j \in DOMAIN t : i < j => h[i] < h[j]
  BY <1>1, <1>2, <1>3
<1>5. ASSUME NEW i \in DOMAIN t PROVE Alike(t[i], q[h[i]])
  <2>1. Alike(t[i], r[g[i]]) /\ Alike(r[g[i]], q[h[i]])
    BY <1>1, <1>2, <1>3
  <2> QED
    BY <2>1 DEF Alike
<1> QED
  BY <1>3, <1>4, <1>5 DEF Within

\* The first job replaced by one like it: everything else is as it was.
LEMMA HeadChanged ==
  ASSUME NEW q \in Seq(Job), q # <<>>, NEW h \in Job, Alike(h, Head(q))
  PROVE  /\ <<h>> \o Tail(q) \in Seq(Job)
         /\ Within(<<h>> \o Tail(q), q)
         /\ Jobs(<<h>> \o Tail(q)) = {h} \union Jobs(Tail(q))
<1> DEFINE r == <<h>> \o Tail(q)
<1>1. Tail(q) \in Seq(Job) /\ <<h>> \in Seq(Job)
  BY HeadAndTail
<1>2. r \in Seq(Job) /\ Jobs(r) = {h} \union Jobs(Tail(q))
  <2>1. r \in Seq(Job) /\ Jobs(r) = Jobs(<<h>>) \union Jobs(Tail(q))
    BY ONLY <1>1, JobsOfBoth
  <2> QED
    BY <2>1, JobsOfOne
<1>3. DOMAIN r = DOMAIN q /\ r[1] = h /\ \A i \in DOMAIN q : i = 1 \/ r[i] = q[i]
  BY <1>1
<1>4. \A i \in DOMAIN q : Alike(r[i], q[i])
  BY <1>3, HeadAndTail DEF Alike
<1> HIDE DEF r
<1>5. Within(r, q)
  BY <1>2, <1>3, <1>4, LikeWithin
<1> QED
  BY <1>2, <1>5 DEF r

\* The first job made post-only.
LEMMA HeadPosted ==
  ASSUME NEW q \in Seq(Job), q # <<>>
  PROVE  /\ [q EXCEPT ![1].post = TRUE] \in Seq(Job)
         /\ Within([q EXCEPT ![1].post = TRUE], q)
         /\ \A b \in Jobs(q) : \E a \in Jobs([q EXCEPT ![1].post = TRUE]) : Alike(a, b)
         /\ \A a \in Jobs([q EXCEPT ![1].post = TRUE]) :
              \E b \in Jobs(q) : Alike(a, b) /\ a.op = b.op
<1> DEFINE h == [q[1] EXCEPT !.post = TRUE]
           r == [q EXCEPT ![1].post = TRUE]
<1>1. q[1] \in Job /\ 1 \in DOMAIN q
  BY HeadAndTail
<1>2. h \in Job /\ Alike(h, q[1]) /\ h.op = q[1].op
  BY <1>1 DEF Job, Alike
<1>3. DOMAIN r = DOMAIN q /\ r[1] = h /\ \A i \in DOMAIN q : i = 1 \/ r[i] = q[i]
  BY <1>1
<1>4. r \in Seq(Job)
  <2>1. DOMAIN q = 1..Len(q) /\ Len(q) \in Nat /\ \A i \in DOMAIN q : q[i] \in Job
    BY Elements
  <2>2. r = [i \in 1..Len(q) |-> r[i]] /\ \A i \in 1..Len(q) : r[i] \in Job
    BY <2>1, <1>2, <1>3
  <2> HIDE DEF r
  <2> QED
    BY <2>1, <2>2
<1>5. \A i \in DOMAIN q : Alike(r[i], q[i]) /\ r[i].op = q[i].op
  BY <1>2, <1>3 DEF Alike
<1> HIDE DEF r, h
<1>6. Within(r, q)
  BY <1>3, <1>4, <1>5, LikeWithin
<1>7. \A b \in Jobs(q) : \E a \in Jobs(r) : Alike(a, b)
  <2> SUFFICES ASSUME NEW i \in DOMAIN q PROVE \E a \in Jobs(r) : Alike(a, q[i])
    BY DEF Jobs
  <2>1. r[i] \in Jobs(r) /\ Alike(r[i], q[i])
    BY <1>3, <1>5 DEF Jobs
  <2> QED
    BY <2>1
<1>8. \A a \in Jobs(r) : \E b \in Jobs(q) : Alike(a, b) /\ a.op = b.op
  <2> SUFFICES ASSUME NEW i \in DOMAIN r
               PROVE  \E b \in Jobs(q) : Alike(r[i], b) /\ r[i].op = b.op
    BY DEF Jobs
  <2>1. q[i] \in Jobs(q) /\ Alike(r[i], q[i]) /\ r[i].op = q[i].op
    BY <1>3, <1>5 DEF Jobs
  <2> QED
    BY <2>1
<1> QED
  BY <1>4, <1>6, <1>7, <1>8 DEF r

\* All but one.
LEMMA OneLeftOut ==
  ASSUME NEW q \in Seq(Job), NEW i \in DOMAIN q
  PROVE  LET r == SubSeq(q, 1, i - 1) \o SubSeq(q, i + 1, Len(q))
         IN  /\ r \in Seq(Job)
             /\ Within(r, q)
             /\ \A b \in Jobs(q) : b = q[i] \/ b \in Jobs(r)
             /\ Jobs(r) \subseteq Jobs(q)
<1> DEFINE n == Len(q)
           before == SubSeq(q, 1, i - 1)
           after == SubSeq(q, i + 1, n)
           r == before \o after
           f == [j \in 1..(n - 1) |-> IF j < i THEN j ELSE j + 1]
<1>1. n \in Nat /\ DOMAIN q = 1..n /\ i \in 1..n
  BY Elements
<1>2. /\ before \in Seq(Job) /\ Len(before) = i - 1
      /\ \A j \in 1..(i - 1) : before[j] = q[j]
  BY <1>1
<1>3. /\ after \in Seq(Job) /\ Len(after) = n - i
      /\ \A j \in 1..(n - i) : after[j] = q[j + i]
  BY <1>1
<1> HIDE DEF before, after
<1>4. r \in Seq(Job) /\ DOMAIN r = 1..(n - 1)
      /\ \A j \in 1..(n - 1) : r[j] = IF j < i THEN q[j] ELSE q[j + 1]
  <2>0. r \in Seq(Job) /\ Len(r) = Len(before) + Len(after)
    <3>1. before \in Seq(Job) /\ after \in Seq(Job)
      BY <1>2, <1>3
    <3> QED
      BY ONLY <3>1
  <2>1. Len(r) = n - 1 /\ DOMAIN r = 1..(n - 1)
    <3>1. (i - 1) + (n - i) = n - 1
      BY <1>1
    <3>2. Len(r) = n - 1
      BY <2>0, <1>2, <1>3, <3>1
    <3> HIDE DEF r, n
    <3> QED
      BY <2>0, <3>2, Elements
  <2>2. ASSUME NEW j \in 1..(n - 1)
        PROVE  r[j] = IF j <= i - 1 THEN before[j] ELSE after[j - (i - 1)]
    BY <1>1, <1>2, <1>3
  <2> HIDE DEF r
  <2>3. ASSUME NEW j \in 1..(n - 1), j < i PROVE r[j] = q[j]
    <3>1. j \in 1..(i - 1)
      BY <1>1, <2>3
    <3> QED
      BY <1>2, <2>2, <3>1
  <2>4. ASSUME NEW j \in 1..(n - 1), ~(j < i) PROVE r[j] = q[j + 1]
    <3>1. j - (i - 1) \in 1..(n - i) /\ (j - (i - 1)) + i = j + 1 /\ ~(j <= i - 1)
      BY <1>1, <2>4
    <3> QED
      BY <1>3, <2>2, <3>1
  <2> QED
    BY <2>0, <2>1, <2>3, <2>4
<1> HIDE DEF r
<1>5. f \in [DOMAIN r -> DOMAIN q] /\ \A j \in DOMAIN r : r[j] = q[f[j]]
  BY <1>1, <1>4
<1>6. \A j, k \in DOMAIN r : j < k => f[j] < f[k]
  BY <1>1, <1>4
<1>7. \A j \in DOMAIN r : Alike(r[j], q[f[j]])
  BY <1>5 DEF Alike
<1>8. \A j \in DOMAIN q : q[j] = q[i] \/ \E k \in DOMAIN r : q[j] = r[k]
  <2> SUFFICES ASSUME NEW j \in 1..n, j # i PROVE \E k \in 1..(n - 1) : q[j] = r[k]
    BY <1>1, <1>4
  <2>1. CASE j < i
    <3>1. j \in 1..(n - 1)
      BY <1>1, <2>1
    <3> QED
      BY <3>1, <2>1, <1>4
  <2>2. CASE j > i
    <3>1. j - 1 \in 1..(n - 1) /\ ~(j - 1 < i) /\ (j - 1) + 1 = j
      BY <1>1, <2>2
    <3> QED
      BY <3>1, <1>4
  <2> QED
    BY <1>1, <2>1, <2>2
<1>9. \A j \in DOMAIN r : \E k \in DOMAIN q : r[j] = q[k]
  BY <1>5
<1> HIDE DEF f
<1>10. Within(r, q)
  BY <1>5, <1>6, <1>7 DEF Within
<1>11. \A b \in Jobs(q) : b = q[i] \/ b \in Jobs(r)
  BY ONLY <1>8 DEF Jobs
<1>12. Jobs(r) \subseteq Jobs(q)
  BY ONLY <1>9 DEF Jobs
<1> QED
  BY <1>4, <1>10, <1>11, <1>12 DEF r, before, after

-----------------------------------------------------------------------------
(* What every call has in common. *)

\* It takes its job off the list, changes it, or drops jobs; the cancels stay, and the
\* withdrawals unless an order of the same tick stood in their way.
ListCalled ==
  /\ todo' \in Seq(Job) /\ Within(todo', todo)
  /\ \A b \in Jobs(Rest) : b.op = "cancel" => \E a \in Jobs(todo') : Alike(a, b)
  /\ \/ \A b \in Jobs(Rest) : b.op = "withdraw" => \E a \in Jobs(todo') : Alike(a, b)
     \/ Next1.op \in Placing /\ Next1.slot \in {Last, Static}

\* It changes its own place, which a cancel empties and only an order fills.
PlaceCalled ==
  /\ \A s \in Sides, k \in Slots :
       (s = Next1.side /\ k = Next1.slot) \/ quote'[s][k] = quote[s][k]
  /\ Next1.op \in Removing => quote'[Next1.side][Next1.slot] = "none"
  /\ Next1.op \notin Removing \union Placing => quote' = quote
  /\ \A s \in Sides, k \in Slots :
       quote'[s][k] = "live" /\ quote[s][k] # "live" => Next1.op \in Placing /\ todo' = Rest
  /\ \A s \in Sides, k \in Slots :
       Has(todo', {"submit"}, s, k) => Has(todo, {"submit"}, s, k) \/ quote'[s][k] = "none"

\* The job done, the rest is left.
LEMMA RestIsLeft ==
  ASSUME todo \in Seq(Job), todo # <<>>, todo' = Rest
  PROVE  ListCalled
<1>1. \A b \in Jobs(todo') : Alike(b, b)
  BY DEF Alike
<1> QED
  BY <1>1, HeadAndTail, TailWithin DEF ListCalled, Rest

\* Nothing is left of a tick whose order was refused; its cancels were made before.
LEMMA NothingIsLeft ==
  ASSUME todo \in Seq(Job), todo # <<>>, Orderly(todo), todo' = <<>>,
         Next1.op \in Placing, Next1.slot \in {Last, Static}
  PROVE  ListCalled
<1>1. \A b \in Jobs(Rest) : b.op # "cancel"
  BY HeadIsFirst DEF Rest, Next1, Placing
<1> QED
  BY <1>1, NothingLeft DEF ListCalled

\* Refused: the rest, or nothing.
LEMMA RefusalLeaves ==
  ASSUME todo \in Seq(Job), todo # <<>>, Orderly(todo), todo' = AfterRefusal,
         Next1.op = "place"
  PROVE  ListCalled
<1>1. CASE Next1.slot = Last
  BY <1>1, NothingIsLeft DEF AfterRefusal, Placing
<1>2. CASE Next1.slot # Last
  BY <1>2, RestIsLeft DEF AfterRefusal
<1> QED
  BY <1>1, <1>2

\* The job changed for one like it.
LEMMA ChangeLeaves ==
  ASSUME todo \in Seq(Job), todo # <<>>, NEW h \in Job, Alike(h, Next1),
         todo' = <<h>> \o Rest
  PROVE  ListCalled /\ Jobs(todo') = {h} \union Jobs(Rest)
<1>1. /\ todo' \in Seq(Job) /\ Within(todo', todo) /\ Jobs(todo') = {h} \union Jobs(Rest)
  BY HeadChanged DEF Rest, Next1
<1>2. \A b \in Jobs(todo') : Alike(b, b)
  BY DEF Alike
<1> QED
  BY <1>1, <1>2 DEF ListCalled

\* The next leg made post-only.
LEMMA UnfitLeaves ==
  ASSUME todo \in Seq(Job), todo # <<>>, Rest # <<>>,
         todo' = [Rest EXCEPT ![1].post = TRUE]
  PROVE  /\ ListCalled
         /\ \A a \in Jobs(todo') : \E b \in Jobs(Rest) : Alike(a, b) /\ a.op = b.op
<1>1. Rest \in Seq(Job) /\ Within(Rest, todo)
  BY HeadAndTail, TailWithin DEF Rest
<1> HIDE DEF Rest
<1>2. /\ todo' \in Seq(Job) /\ Within(todo', Rest)
      /\ \A b \in Jobs(Rest) : \E a \in Jobs(todo') : Alike(a, b)
      /\ \A a \in Jobs(todo') : \E b \in Jobs(Rest) : Alike(a, b) /\ a.op = b.op
  BY <1>1, HeadPosted
<1>3. Within(todo', todo)
  BY <1>1, <1>2, WithinWithin
<1>4. \A b \in Jobs(Rest) : \E a \in Jobs(todo') : Alike(a, b)
  BY <1>2
<1>5. ListCalled
  BY <1>2, <1>3, <1>4 DEF ListCalled
<1> QED
  BY <1>2, <1>5

\* A quote left out for the market order.
LEMMA LeavingOutLeaves ==
  ASSUME todo \in Seq(Job), todo # <<>>,
         NEW i \in DOMAIN Rest, Rest[i].op = "place", todo' = LeaveOut(i)
  PROVE  ListCalled /\ Jobs(todo') \subseteq Jobs(Rest)
<1>1. Rest \in Seq(Job) /\ Within(Rest, todo)
  BY HeadAndTail, TailWithin DEF Rest
<1> HIDE DEF Rest
<1>2. /\ todo' \in Seq(Job) /\ Within(todo', Rest)
      /\ \A b \in Jobs(Rest) : b = Rest[i] \/ b \in Jobs(todo')
      /\ Jobs(todo') \subseteq Jobs(Rest)
  BY <1>1, OneLeftOut DEF LeaveOut
<1>3. Within(todo', todo)
  BY <1>1, <1>2, WithinWithin
<1>4. \A b \in Jobs(todo') : Alike(b, b)
  BY DEF Alike
<1>5. \A b \in Jobs(Rest) : b.op \in Removing => \E a \in Jobs(todo') : Alike(a, b)
  BY <1>2, <1>4 DEF Removing
<1>6. ListCalled
  BY <1>2, <1>3, <1>5 DEF ListCalled, Removing
<1> QED
  BY <1>2, <1>6

\* The job at the head, and its place.
LEMMA Heading ==
  ASSUME todo \in Seq(Job), todo # <<>>, Orderly(todo)
  PROVE  /\ Next1 \in Job /\ Next1.side \in Sides /\ Next1.slot \in Slots
         /\ Next1.op \in {"static", "submit", "withdraw"} <=> Next1.slot = Static
         /\ Rest \in Seq(Job) /\ Jobs(todo) = {Next1} \union Jobs(Rest)
<1>1. Next1 \in Job /\ Rest \in Seq(Job) /\ Jobs(todo) = {Next1} \union Jobs(Rest)
  BY HeadAndTail DEF Next1, Rest
<1> QED
  BY <1>1 DEF Job, Orderly, Slotted

-----------------------------------------------------------------------------
(* Type correctness. *)

QuoteType == quote \in [Sides -> [Slots -> {"none", "live", "over"}]]
OrphansType == orphans \in [Sides -> Nat]

\* A place given another content; the others are as they were.
LEMMA Setting ==
  ASSUME QuoteType, NEW s \in Sides, NEW k \in Slots, NEW q \in {"none", "live", "over"},
         Set(s, k, q)
  PROVE  /\ QuoteType'
         /\ quote'[s][k] = q
         /\ \A t \in Sides, m \in Slots : (t = s /\ m = k) \/ quote'[t][m] = quote[t][m]
  BY DEF QuoteType, Set

\* A place taken over: a live order that was in it is forgotten.
LEMMA TakingOver ==
  ASSUME QuoteType, OrphansType, NEW s \in Sides, NEW k \in Slots,
         NEW q \in {"none", "live", "over"}, TakeOver(s, k, q)
  PROVE  /\ QuoteType' /\ OrphansType'
         /\ quote'[s][k] = q
         /\ \A t \in Sides, m \in Slots : (t = s /\ m = k) \/ quote'[t][m] = quote[t][m]
         /\ quote[s][k] # "live" => orphans' = orphans
         /\ quote[s][k] = "live" => orphans' = [orphans EXCEPT ![s] = @ + 1]
  BY Setting DEF TakeOver, OrphansType

\* Given up: emptied, and the order forgotten only by mishap.
LEMMA GivingUp ==
  ASSUME QuoteType, OrphansType, mishaps \in 0..MaxMishaps,
         NEW s \in Sides, NEW k \in Slots, GiveUp(s, k)
  PROVE  /\ QuoteType' /\ OrphansType' /\ mishaps' \in 0..MaxMishaps
         /\ quote'[s][k] = "none"
         /\ \A t \in Sides, m \in Slots : (t = s /\ m = k) \/ quote'[t][m] = quote[t][m]
         /\ \/ orphans' = orphans /\ mishaps' = mishaps
            \/ /\ quote[s][k] = "live" /\ mishaps' = mishaps + 1
               /\ orphans' = [orphans EXCEPT ![s] = @ + 1]
  BY Setting, TakingOver, BoundsAssumption DEF GiveUp, Mishap, OrphansType

\* One order more may be forgotten.
LEMMA Orphaning ==
  ASSUME OrphansType, NEW s \in Sides,
         orphans' = [orphans EXCEPT ![s] = @ + 1] \/ orphans' = orphans
  PROVE  OrphansType'
  BY DEF OrphansType

\* A fill moves the position, and the inventory hears of it or is one more behind.
LEMMA Filling ==
  ASSUME net \in Int, inv \in Int, lag \in 0..MaxLag, NEW s \in Sides, Fill(s)
  PROVE  /\ net' \in Int /\ inv' \in Int /\ lag' \in 0..MaxLag
         /\ net' = net + Sign(s)
         /\ Abs(net - inv) <= lag => Abs(net' - inv') <= lag'
<1>1. Sign(s) \in {-1, 1}
  BY DEF Sign
<1> QED
  BY <1>1, BoundsAssumption DEF Fill, Abs

\* The lists a call leaves are made of jobs.
LEMMA CallTypes ==
  ASSUME TypeOK, Orderly(todo), Step
  PROVE  TypeOK'
<1>0. /\ QuoteType /\ OrphansType /\ todo \in Seq(Job)
      /\ mishaps \in 0..MaxMishaps /\ net \in Int /\ inv \in Int /\ lag \in 0..MaxLag
      /\ riskState \in {"normal", "reduce_only", "halted"}
      /\ haltUntil \in {"zero", "ahead", "past"}
      /\ prevMid \in Prices \union {0} /\ lastMid \in Prices \union {0}
      /\ cooldown \in [Sides -> BOOLEAN] /\ cooling \in BOOLEAN
  BY DEF TypeOK, QuoteType, OrphansType
<1>1. todo # <<>>
  BY DEF Step, PlaceStep, StaticStep, Cancel, Halt, MarketReduce, PlaceResting,
         PlaceReduceOnly, LegUnfit, PlaceRefused, PlaceUnanswered, PostOnlyRejected,
         StaticsUnfit, StaticKept, StaticReplaced, StaticPlaced, StaticCooling, Next1Is
<1>2. /\ Next1 \in Job /\ Next1.side \in Sides /\ Next1.slot \in Slots /\ Rest \in Seq(Job)
  BY <1>0, <1>1, Heading
<1>3. AfterRefusal \in Seq(Job)
  BY <1>2 DEF AfterRefusal
<1>4. TypeOK' <=>
        /\ QuoteType' /\ OrphansType' /\ todo' \in Seq(Job)
        /\ mishaps' \in 0..MaxMishaps /\ net' \in Int /\ inv' \in Int /\ lag' \in 0..MaxLag
        /\ riskState' \in {"normal", "reduce_only", "halted"}
        /\ haltUntil' \in {"zero", "ahead", "past"}
        /\ prevMid' \in Prices \union {0} /\ lastMid' \in Prices \union {0}
        /\ cooldown' \in [Sides -> BOOLEAN] /\ cooling' \in BOOLEAN
  BY DEF TypeOK, QuoteType, OrphansType
<1> HIDE DEF Rest, Next1, AfterRefusal
<1>5. CASE Cancel
  BY <1>0, <1>2, <1>4, <1>5, GivingUp DEF Cancel, control, market
<1>6. CASE Halt
  BY <1>0, <1>2, <1>4, <1>6 DEF Halt, market, QuoteType, OrphansType
<1>7. CASE MarketReduce
  <2>1. todo' \in Seq(Job)
    <3>1. CASE todo' = Rest
      BY <3>1, <1>2
    <3>2. CASE \E i \in DOMAIN Rest : todo' = LeaveOut(i)
      BY <3>2, <1>2, OneLeftOut DEF LeaveOut
    <3> QED
      BY <1>7, <3>1, <3>2 DEF MarketReduce
  <2>2. net' \in Int /\ inv' \in Int /\ lag' \in 0..MaxLag
    BY <1>0, <1>2, <1>7, Filling DEF MarketReduce, market
  <2> QED
    BY <1>0, <1>4, <1>7, <2>1, <2>2 DEF MarketReduce, control, QuoteType, OrphansType
<1>8. CASE PlaceResting
  BY <1>0, <1>2, <1>4, <1>8, TakingOver DEF PlaceResting, control, market
<1>9. CASE PlaceReduceOnly
  <2>1. net' \in Int /\ inv' \in Int /\ lag' \in 0..MaxLag
    BY <1>0, <1>2, <1>9, Filling DEF PlaceReduceOnly, market
  <2> QED
    BY <1>0, <1>2, <1>4, <1>9, <2>1, TakingOver DEF PlaceReduceOnly, control
<1>10. CASE LegUnfit
  <2>1. todo' \in Seq(Job)
    BY <1>2, <1>10, HeadPosted DEF LegUnfit
  <2> QED
    BY <1>0, <1>4, <1>10, <2>1 DEF LegUnfit, control, market, QuoteType, OrphansType
<1>11. CASE PlaceRefused
  BY <1>0, <1>3, <1>4, <1>11 DEF PlaceRefused, control, market, QuoteType, OrphansType
<1>12. CASE PlaceUnanswered
  <2>1. mishaps' \in 0..MaxMishaps
    BY <1>0, <1>12, BoundsAssumption DEF PlaceUnanswered, Mishap
  <2>2. net' \in Int /\ inv' \in Int /\ lag' \in 0..MaxLag
    BY <1>0, <1>2, <1>12, Filling DEF PlaceUnanswered, market
  <2>3. OrphansType'
    BY <1>0, <1>2, <1>12, Orphaning DEF PlaceUnanswered
  <2> QED
    BY <1>0, <1>3, <1>4, <1>12, <2>1, <2>2, <2>3 DEF PlaceUnanswered, control, QuoteType
<1>13. CASE PostOnlyRejected
  <2>1. [Next1 EXCEPT !.post = FALSE] \in Job
    BY <1>2 DEF Job
  <2>2. todo' \in Seq(Job)
    BY <1>2, <1>13, <2>1 DEF PostOnlyRejected
  <2> QED
    BY <1>0, <1>2, <1>4, <1>13, <2>2
       DEF PostOnlyRejected, control, market, QuoteType, OrphansType
<1>14. CASE StaticsUnfit
  BY <1>0, <1>4, <1>14 DEF StaticsUnfit, control, market, QuoteType, OrphansType
<1>15. CASE StaticKept
  BY <1>0, <1>2, <1>4, <1>15 DEF StaticKept, control, market, QuoteType, OrphansType
<1>16. CASE StaticReplaced
  <2>1. [Next1 EXCEPT !.op = "submit"] \in Job
    BY <1>2 DEF Job
  <2>2. todo' \in Seq(Job)
    BY <1>2, <1>16, <2>1 DEF StaticReplaced
  <2>3. QuoteType' /\ OrphansType' /\ mishaps' \in 0..MaxMishaps
    BY <1>0, <1>2, <1>16, GivingUp DEF StaticReplaced, Slots
  <2> QED
    BY <1>0, <1>4, <1>16, <2>2, <2>3 DEF StaticReplaced, control, market
<1>17. CASE StaticPlaced
  <2>1. QuoteType' /\ OrphansType'
    <3>1. CASE TakeOver(Next1.side, Static, "live")
      BY <1>0, <1>2, <3>1, TakingOver DEF Slots
    <3>2. CASE UNCHANGED quote /\ (orphans' = [orphans EXCEPT ![Next1.side] = @ + 1]
                                     \/ orphans' = orphans)
      BY <1>0, <1>2, <3>2, Orphaning DEF QuoteType
    <3> QED
      BY <1>17, <3>1, <3>2 DEF StaticPlaced
  <2>2. mishaps' \in 0..MaxMishaps
    BY <1>0, <1>17, BoundsAssumption DEF StaticPlaced, Mishap
  <2> QED
    BY <1>0, <1>2, <1>4, <1>17, <2>1, <2>2 DEF StaticPlaced, control, market
<1>18. CASE StaticCooling
  BY <1>0, <1>2, <1>4, <1>18, GivingUp DEF StaticCooling, control, market, Slots
<1> QED
  BY <1>5, <1>6, <1>7, <1>8, <1>9, <1>10, <1>11, <1>12, <1>13, <1>14, <1>15, <1>16, <1>17,
     <1>18 DEF Step, PlaceStep, StaticStep

-----------------------------------------------------------------------------
(* The inductive invariant. *)

\* The order of a place is there to stay: one is about to be sent there, or one is
\* remembered there and will not be cancelled in this tick.
Stays(s, k) ==
  \/ Has(todo, Placing, s, k)
  \/ quote[s][k] # "none" /\ ~Has(todo, Removing, s, k)

\* Legs never stay beside a single quote or a static order.
Exclusive ==
  \A s, t \in Sides, k \in Legs, m \in {Static, Last} : ~(Stays(s, k) /\ Stays(t, m))

\* A live order is cancelled before another is sent to its place.
Emptied ==
  \A s \in Sides, k \in Slots : quote[s][k] = "live" =>
    /\ Has(todo, {"place"}, s, k) => Has(todo, {"cancel"}, s, k)
    /\ ~Has(todo, {"submit"}, s, k)

\* The orders of a side that stand, and the places to which one is about to be sent.
Standing(s) == {k \in Slots : quote[s][k] = "live"}
Coming(s) == {k \in Slots : Has(todo, Placing, s, k)}
Pending(s) == Cardinality(Standing(s)) + Cardinality(Coming(s))
Most == IF Levels > 2 THEN Levels ELSE 2

\* What is pending is at most what stood at the start of the tick and what the tick
\* sends; were all of it filled, and what was forgotten too, the position would still be
\* within its bound.
Bounded ==
  \A s \in Sides :
    /\ Pending(s) <= 2 * Most
    /\ Sign(s) * net + Pending(s) + orphans[s]
         <= Threshold - 1 + 2 * Most + MaxLag + mishaps

\* The inventory is behind by the fills it was not told of.
Told == Abs(net - inv) <= lag

-----------------------------------------------------------------------------
(* Every call is one that takes its job off the list and changes its place only. *)

\* Within the list, no submit comes up but for a static order.
LEMMA LeftHas ==
  ASSUME NEW q \in Seq(Job), NEW r \in Seq(Job), Orderly(q), Within(r, q)
  PROVE  /\ Orderly(r)
         /\ \A s \in Sides, k \in Slots :
              /\ Has(r, Placing, s, k) => Has(q, Placing, s, k)
              /\ Has(r, {"place"}, s, k) => Has(q, {"place"}, s, k)
<1>1. Orderly(r) /\ \A a \in Jobs(r) : \E b \in Jobs(q) : Alike(a, b)
  BY WithinOrderly
<1> QED
  BY <1>1 DEF Has, Alike, Placing

\* Each call of a tick takes its job off the list, and changes its own place only.
LEMMA CallIs ==
  ASSUME TypeOK, Orderly(todo), Step
  PROVE  todo # <<>> /\ ListCalled /\ PlaceCalled
<1>0. /\ QuoteType /\ OrphansType /\ todo \in Seq(Job) /\ mishaps \in 0..MaxMishaps
  BY DEF TypeOK, QuoteType, OrphansType
<1>1. todo # <<>>
  BY DEF Step, PlaceStep, StaticStep, Cancel, Halt, MarketReduce, PlaceResting,
         PlaceReduceOnly, LegUnfit, PlaceRefused, PlaceUnanswered, PostOnlyRejected,
         StaticsUnfit, StaticKept, StaticReplaced, StaticPlaced, StaticCooling, Next1Is
<1>2. /\ Next1 \in Job /\ Next1.side \in Sides /\ Next1.slot \in Slots
      /\ Next1.op \in {"static", "submit", "withdraw"} <=> Next1.slot = Static
      /\ Rest \in Seq(Job) /\ Jobs(todo) = {Next1} \union Jobs(Rest)
  BY <1>0, <1>1, Heading
<1>3. ASSUME todo' = Rest
      PROVE  ListCalled /\ \A a \in Jobs(todo') : a \in Jobs(todo)
  BY <1>0, <1>1, <1>2, <1>3, RestIsLeft
\* No submit comes up that was not there, unless a static order is given up.
<1> DEFINE NoSubmit ==
      \A a \in Jobs(todo') : a.op = "submit" =>
        \/ \E b \in Jobs(todo) : b.op = a.op /\ b.side = a.side /\ b.slot = a.slot
        \/ quote'[a.side][a.slot] = "none"
    Placewise ==
      /\ \A s \in Sides, k \in Slots :
           (s = Next1.side /\ k = Next1.slot) \/ quote'[s][k] = quote[s][k]
      /\ Next1.op \in Removing => quote'[Next1.side][Next1.slot] = "none"
      /\ Next1.op \notin Removing \union Placing => quote' = quote
      /\ quote'[Next1.side][Next1.slot] = "live" /\ quote[Next1.side][Next1.slot] # "live"
           => Next1.op \in Placing /\ todo' = Rest
<1>4. ASSUME NoSubmit, Placewise, ListCalled
      PROVE  PlaceCalled
  <2>1. ASSUME NEW s \in Sides, NEW k \in Slots, Has(todo', {"submit"}, s, k)
        PROVE  Has(todo, {"submit"}, s, k) \/ quote'[s][k] = "none"
    BY <1>4, <2>1 DEF Has
  <2> QED
    BY <1>4, <2>1 DEF PlaceCalled
<1>5. ASSUME todo' = <<>> PROVE NoSubmit
  BY <1>5, JobsOfNone
<1>6. ASSUME quote' = quote, Next1.op \notin Removing PROVE Placewise
  BY <1>6
<1>7. ASSUME NEW h \in Job, Alike(h, Next1), todo' = <<h>> \o Rest
      PROVE  ListCalled /\ Jobs(todo') = {h} \union Jobs(Rest)
  BY <1>0, <1>1, <1>7, ChangeLeaves
<1>8. ASSUME todo' = AfterRefusal, Next1.op = "place"
      PROVE  ListCalled /\ NoSubmit
  <2>1. ListCalled
    BY <1>0, <1>1, <1>8, RefusalLeaves
  <2> QED
    BY <1>3, <1>5, <1>8, <2>1 DEF AfterRefusal
<1> HIDE DEF Rest, Next1, AfterRefusal
<1>9. CASE Cancel
  <2>0. Next1.op \in Removing /\ GiveUp(Next1.side, Next1.slot) /\ todo' = Rest
    BY <1>9 DEF Cancel, Next1Is, Removing
  <2>1. Placewise /\ todo' = Rest
    BY <1>0, <1>2, <2>0, GivingUp
  <2> QED
    BY <1>1, <1>3, <1>4, <2>1
<1>10. CASE Halt
  BY <1>1, <1>3, <1>4, <1>6, <1>10 DEF Halt, Next1Is, Removing
<1>11. CASE MarketReduce
  <2>1. Placewise
    BY <1>6, <1>11 DEF MarketReduce, Next1Is, Removing
  <2>2. CASE todo' = Rest
    BY <1>1, <1>3, <1>4, <2>1, <2>2
  <2>3. CASE \E i \in DOMAIN Rest : Rest[i].op = "place" /\ todo' = LeaveOut(i)
    <3>1. ListCalled /\ Jobs(todo') \subseteq Jobs(Rest)
      BY <1>0, <1>1, <2>3, LeavingOutLeaves
    <3>2. NoSubmit
      BY <1>2, <3>1
    <3> QED
      BY <1>1, <1>4, <2>1, <3>1, <3>2
  <2> QED
    BY <1>11, <2>2, <2>3 DEF MarketReduce
<1>12. CASE PlaceResting
  <2>1. Placewise /\ todo' = Rest
    BY <1>0, <1>2, <1>12, TakingOver DEF PlaceResting, Next1Is, Next1, Removing, Placing
  <2> QED
    BY <1>1, <1>3, <1>4, <2>1
<1>13. CASE PlaceReduceOnly
  <2>1. Placewise /\ todo' = Rest
    BY <1>0, <1>2, <1>13, TakingOver
       DEF PlaceReduceOnly, Next1Is, Next1, Removing, Placing
  <2> QED
    BY <1>1, <1>3, <1>4, <2>1
<1>14. CASE LegUnfit
  <2>1. Placewise
    BY <1>6, <1>14 DEF LegUnfit, Next1Is, Next1, Removing
  <2>2. CASE todo' = Rest
    BY <1>1, <1>3, <1>4, <2>1, <2>2
  <2>3. CASE Rest # <<>> /\ todo' = [Rest EXCEPT ![1].post = TRUE]
    <3>1. /\ ListCalled
          /\ \A a \in Jobs(todo') : \E b \in Jobs(Rest) : Alike(a, b) /\ a.op = b.op
      BY <1>0, <1>1, <2>3, UnfitLeaves
    <3>2. NoSubmit
      BY <1>2, <3>1 DEF Alike
    <3> QED
      BY <1>1, <1>4, <2>1, <3>1, <3>2
  <2> QED
    BY <1>14, <2>2, <2>3 DEF LegUnfit
<1>15. CASE PlaceRefused
  BY <1>1, <1>4, <1>6, <1>8, <1>15 DEF PlaceRefused, Next1Is, Next1, Removing
<1>16. CASE PlaceUnanswered
  BY <1>1, <1>4, <1>6, <1>8, <1>16 DEF PlaceUnanswered, Next1Is, Next1, Removing
<1>17. CASE PostOnlyRejected
  <2> DEFINE h == [Next1 EXCEPT !.post = FALSE]
  <2>1. /\ h \in Job /\ Alike(h, Next1) /\ h.op = Next1.op /\ h.side = Next1.side
        /\ h.slot = Next1.slot /\ todo' = <<h>> \o Rest
    BY <1>2, <1>17 DEF PostOnlyRejected, Job, Alike
  <2> HIDE DEF h
  <2>2. ListCalled /\ NoSubmit
    BY <1>2, <1>7, <2>1
  <2>3. Placewise
    BY <1>6, <1>17 DEF PostOnlyRejected, Next1Is, Next1, Removing
  <2> QED
    BY <1>1, <1>4, <2>2, <2>3
<1>18. CASE StaticsUnfit
  <2>1. ListCalled /\ NoSubmit
    <3>1. Next1.op = "static" /\ todo' = <<>>
      BY <1>18 DEF StaticsUnfit, Next1Is, Next1
    <3> QED
      BY <1>0, <1>1, <1>2, <1>5, <3>1, NothingIsLeft DEF Placing
  <2>2. Placewise
    BY <1>6, <1>18 DEF StaticsUnfit, Next1Is, Next1, Removing
  <2> QED
    BY <1>1, <1>4, <2>1, <2>2
<1>19. CASE StaticKept
  <2>1. Placewise /\ todo' = Rest
    BY <1>6, <1>19 DEF StaticKept, Next1Is, Next1, Removing
  <2> QED
    BY <1>1, <1>3, <1>4, <2>1
<1>20. CASE StaticReplaced
  <2> DEFINE h == [Next1 EXCEPT !.op = "submit"]
  <2>0. Next1.op = "static" /\ Next1.slot = Static
    BY <1>2, <1>20 DEF StaticReplaced, Next1Is, Next1
  <2>1. /\ h \in Job /\ Alike(h, Next1) /\ h.side = Next1.side
        /\ h.slot = Next1.slot /\ todo' = <<h>> \o Rest
    BY <1>2, <1>20, <2>0 DEF StaticReplaced, Job, Alike
  <2> HIDE DEF h
  <2>2. /\ quote'[Next1.side][Next1.slot] = "none"
        /\ \A s \in Sides, k \in Slots :
             (s = Next1.side /\ k = Next1.slot) \/ quote'[s][k] = quote[s][k]
    BY <1>0, <1>2, <1>20, <2>0, GivingUp DEF StaticReplaced
  <2>3. ListCalled /\ NoSubmit
    BY <1>2, <1>7, <2>1, <2>2
  <2>4. Placewise
    BY <2>0, <2>2 DEF Removing, Placing
  <2> QED
    BY <1>1, <1>4, <2>3, <2>4
<1>21. CASE StaticPlaced
  <2>0. Next1.op \in {"static", "submit"} /\ Next1.slot = Static /\ todo' = Rest
    BY <1>2, <1>21 DEF StaticPlaced, Next1Is, Next1
  <2>1. Placewise
    <3>1. CASE TakeOver(Next1.side, Static, "live")
      BY <1>0, <1>2, <2>0, <3>1, TakingOver DEF Removing, Placing
    <3>2. CASE UNCHANGED quote
      BY <1>6, <2>0, <3>2 DEF Removing
    <3> QED
      BY <1>21, <3>1, <3>2 DEF StaticPlaced
  <2> QED
    BY <1>1, <1>3, <1>4, <2>0, <2>1
<1>22. CASE StaticCooling
  <2>0. Next1.op = "static" /\ Next1.slot = Static /\ todo' = Rest
    BY <1>2, <1>22 DEF StaticCooling, Next1Is, Next1
  <2>1. Placewise
    BY <1>0, <1>2, <1>22, <2>0, GivingUp DEF StaticCooling, Removing, Placing
  <2> QED
    BY <1>1, <1>3, <1>4, <2>0, <2>1
<1> QED
  BY <1>9, <1>10, <1>11, <1>12, <1>13, <1>14, <1>15, <1>16, <1>17, <1>18, <1>19, <1>20,
     <1>21, <1>22 DEF Step, PlaceStep, StaticStep

-----------------------------------------------------------------------------
(* What a call does to the invariant. *)

\* For a place this means: what was to be done there still is, unless it has just been done.
LEMMA CallFacts ==
  ASSUME todo \in Seq(Job), Orderly(todo), todo # <<>>, ListCalled, PlaceCalled,
         NEW s \in Sides, NEW k \in Slots
  PROVE  /\ Has(todo', Placing, s, k) => Has(todo, Placing, s, k)
         /\ Has(todo', {"place"}, s, k) => Has(todo, {"place"}, s, k)
         /\ Has(todo, {"cancel"}, s, k)
              => Has(todo', {"cancel"}, s, k) \/ quote'[s][k] = "none"
         /\ Has(todo, {"withdraw"}, s, k)
              => \/ Has(todo', {"withdraw"}, s, k) \/ quote'[s][k] = "none"
                 \/ Next1.op \in Placing /\ Next1.slot \in {Last, Static}
         /\ quote'[s][k] # "none" => quote[s][k] # "none" \/ Has(todo, Placing, s, k)
         /\ k # Static => ~Has(todo, {"withdraw"}, s, k)
         /\ Next1.op \in Placing => Has(todo, Placing, Next1.side, Next1.slot)
<1>1. /\ Next1 \in Job /\ Next1.side \in Sides /\ Next1.slot \in Slots
      /\ Rest \in Seq(Job) /\ Jobs(todo) = {Next1} \union Jobs(Rest)
  BY Heading
<1>2. /\ Has(todo', Placing, s, k) => Has(todo, Placing, s, k)
      /\ Has(todo', {"place"}, s, k) => Has(todo, {"place"}, s, k)
  BY LeftHas DEF ListCalled
<1>3. Has(todo, {"cancel"}, s, k)
        => Has(todo', {"cancel"}, s, k) \/ quote'[s][k] = "none"
  <2> SUFFICES ASSUME NEW b \in Jobs(todo), b.op = "cancel", b.side = s, b.slot = k
               PROVE  Has(todo', {"cancel"}, s, k) \/ quote'[s][k] = "none"
    BY DEF Has
  <2>1. CASE b = Next1
    BY <2>1 DEF PlaceCalled, Removing
  <2>2. CASE b \in Jobs(Rest)
    <3>1. PICK a \in Jobs(todo') : Alike(a, b)
      BY <2>2 DEF ListCalled
    <3> QED
      BY <3>1 DEF Has, Alike
  <2> QED
    BY <1>1, <2>1, <2>2
<1>4. Has(todo, {"withdraw"}, s, k)
        => \/ Has(todo', {"withdraw"}, s, k) \/ quote'[s][k] = "none"
           \/ Next1.op \in Placing /\ Next1.slot \in {Last, Static}
  <2> SUFFICES ASSUME NEW b \in Jobs(todo), b.op = "withdraw", b.side = s, b.slot = k,
                      ~(Next1.op \in Placing /\ Next1.slot \in {Last, Static})
               PROVE  Has(todo', {"withdraw"}, s, k) \/ quote'[s][k] = "none"
    BY DEF Has
  <2>1. CASE b = Next1
    BY <2>1 DEF PlaceCalled, Removing
  <2>2. CASE b \in Jobs(Rest)
    <3>1. PICK a \in Jobs(todo') : Alike(a, b)
      BY <2>2 DEF ListCalled
    <3> QED
      BY <3>1 DEF Has, Alike
  <2> QED
    BY <1>1, <2>1, <2>2
<1>5. quote'[s][k] # "none" => quote[s][k] # "none" \/ Has(todo, Placing, s, k)
  <2> SUFFICES ASSUME quote'[s][k] # "none", quote[s][k] = "none"
               PROVE  Has(todo, Placing, s, k)
    OBVIOUS
  <2>1. s = Next1.side /\ k = Next1.slot /\ Next1.op \in Placing
    BY DEF PlaceCalled
  <2> QED
    BY <1>1, <2>1 DEF Has
<1>6. k # Static => ~Has(todo, {"withdraw"}, s, k)
  BY DEF Has, Orderly, Slotted
<1>7. Next1.op \in Placing => Has(todo, Placing, Next1.side, Next1.slot)
  BY <1>1 DEF Has
<1> QED
  BY <1>2, <1>3, <1>4, <1>5, <1>6, <1>7

\* An order is removed by a cancel or, a static one, by a withdrawal.
LEMMA RemovingIs ==
  ASSUME NEW q, NEW s, NEW k
  PROVE  Has(q, Removing, s, k) <=> Has(q, {"cancel"}, s, k) \/ Has(q, {"withdraw"}, s, k)
  BY DEF Has, Removing

\* No call makes an order stay that was not to stay before.
LEMMA CallKeepsExclusive ==
  ASSUME todo \in Seq(Job), Orderly(todo), todo # <<>>, ListCalled, PlaceCalled, Exclusive
  PROVE  Exclusive'
<1> SUFFICES ASSUME NEW s \in Sides, NEW t \in Sides, NEW k \in Legs,
                    NEW m \in {Static, Last}, Stays(s, k)', Stays(t, m)'
             PROVE  FALSE
  BY DEF Exclusive
<1>1. k \in Slots /\ m \in Slots /\ k # Static
  BY LevelsAssumption DEF Slots, Legs, Static
<1>2. Stays(s, k)
  <2>1. /\ Has(todo', Placing, s, k) => Has(todo, Placing, s, k)
        /\ Has(todo, {"cancel"}, s, k)
             => Has(todo', {"cancel"}, s, k) \/ quote'[s][k] = "none"
        /\ quote'[s][k] # "none" => quote[s][k] # "none" \/ Has(todo, Placing, s, k)
        /\ ~Has(todo, {"withdraw"}, s, k)
    BY <1>1, CallFacts
  <2> QED
    BY <2>1, RemovingIs DEF Stays
<1>3. Stays(t, m) \/ (Next1.op \in Placing /\ Next1.slot \in {Last, Static})
  <2>1. /\ Has(todo', Placing, t, m) => Has(todo, Placing, t, m)
        /\ Has(todo, {"cancel"}, t, m)
             => Has(todo', {"cancel"}, t, m) \/ quote'[t][m] = "none"
        /\ Has(todo, {"withdraw"}, t, m)
             => \/ Has(todo', {"withdraw"}, t, m) \/ quote'[t][m] = "none"
                \/ Next1.op \in Placing /\ Next1.slot \in {Last, Static}
        /\ quote'[t][m] # "none" => quote[t][m] # "none" \/ Has(todo, Placing, t, m)
    BY <1>1, CallFacts
  <2> QED
    BY <2>1, RemovingIs DEF Stays
<1>4. ASSUME Next1.op \in Placing, Next1.slot \in {Last, Static}
      PROVE  Stays(Next1.side, Next1.slot) /\ Next1.side \in Sides
  <2>1. Has(todo, Placing, Next1.side, Next1.slot)
    BY <1>1, <1>4, CallFacts
  <2> QED
    BY <2>1, Heading DEF Stays
<1> QED
  BY <1>2, <1>3, <1>4 DEF Exclusive

\* The cancels come first, so none is skipped before an order is sent to its place.
LEMMA CallKeepsEmptied ==
  ASSUME todo \in Seq(Job), Orderly(todo), todo # <<>>, ListCalled, PlaceCalled, Emptied
  PROVE  Emptied'
<1> SUFFICES ASSUME NEW s \in Sides, NEW k \in Slots, quote'[s][k] = "live"
             PROVE  /\ Has(todo', {"place"}, s, k) => Has(todo', {"cancel"}, s, k)
                    /\ ~Has(todo', {"submit"}, s, k)
  BY DEF Emptied
<1>1. CASE quote[s][k] = "live"
  <2>1. Has(todo, {"place"}, s, k) => Has(todo, {"cancel"}, s, k)
    BY <1>1 DEF Emptied
  <2>2. ~Has(todo, {"submit"}, s, k)
    BY <1>1 DEF Emptied
  <2> QED
    BY <2>1, <2>2, CallFacts DEF PlaceCalled
<1>2. CASE quote[s][k] # "live"
  <2>1. Next1.op \in Placing /\ todo' = Rest /\ s = Next1.side /\ k = Next1.slot
    BY <1>2 DEF PlaceCalled
  <2>2. ASSUME NEW b \in Jobs(Rest), b.op \in Placing PROVE b.side # s \/ b.slot # k
    BY <2>1, <2>2, HeadIsFirst DEF Rest, Next1
  <2> QED
    BY <2>1, <2>2 DEF Has, Placing
<1> QED
  BY <1>1, <1>2

-----------------------------------------------------------------------------
(* What is pending. *)

\* The places are finitely many, and so are the orders that stand on some of them.
LEMMA SlotsFinite ==
  /\ IsFiniteSet(Slots)
  /\ \A S \in SUBSET Slots : IsFiniteSet(S) /\ Cardinality(S) \in Nat
<1>1. Levels \in Nat
  BY LevelsAssumption
<1>2. IsFiniteSet(Legs)
  BY <1>1, FS_Interval DEF Legs
<1>3. IsFiniteSet(Legs \union {Static})
  BY <1>2, FS_AddElement
<1>4. IsFiniteSet(Slots)
  <2>1. IsFiniteSet((Legs \union {Static}) \union {Last})
    BY <1>3, FS_AddElement
  <2>2. Slots = (Legs \union {Static}) \union {Last}
    BY DEF Slots
  <2> QED
    BY <2>1, <2>2
<1> QED
  BY <1>4, FS_Subset, FS_CardinalityType

\* There are Levels legs, and two other places.
LEMMA FewPlaces ==
  ASSUME NEW S, S \subseteq Legs \/ S \subseteq {Static, Last}
  PROVE  IsFiniteSet(S) /\ Cardinality(S) \in Nat /\ Cardinality(S) <= Most
<1>0. Levels \in Nat
  BY LevelsAssumption
<1>1. IsFiniteSet(Legs) /\ Cardinality(Legs) = Levels
  BY <1>0, FS_Interval DEF Legs
<1>2. IsFiniteSet({Static, Last}) /\ Cardinality({Static, Last}) <= 2
  <2>1. IsFiniteSet({Static}) /\ Cardinality({Static}) = 1
    BY FS_Singleton
  <2>2. IsFiniteSet({Static} \union {Last}) /\ Cardinality({Static} \union {Last}) <= 2
    BY <2>1, FS_AddElement
  <2>3. {Static, Last} = {Static} \union {Last}
    OBVIOUS
  <2> QED
    BY <2>2, <2>3
<1>3. Most \in Nat /\ Most >= 2 /\ Most >= Levels
  BY LevelsAssumption DEF Most
<1>4. CASE S \subseteq Legs
  BY <1>0, <1>1, <1>3, <1>4, FS_Subset, FS_CardinalityType
<1>5. CASE S \subseteq {Static, Last}
  BY <1>2, <1>3, <1>5, FS_Subset, FS_CardinalityType
<1> QED
  BY <1>4, <1>5

\* What is pending is a number.
LEMMA PendingType ==
  ASSUME NEW s \in Sides
  PROVE  /\ Standing(s) \in SUBSET Slots /\ Coming(s) \in SUBSET Slots
         /\ IsFiniteSet(Standing(s)) /\ IsFiniteSet(Coming(s))
         /\ Cardinality(Standing(s)) \in Nat /\ Cardinality(Coming(s)) \in Nat
         /\ Pending(s) \in Nat
<1>1. Standing(s) \in SUBSET Slots /\ Coming(s) \in SUBSET Slots
  BY DEF Standing, Coming
<1> QED
  BY <1>1, SlotsFinite DEF Pending

\* An order sent was to be sent: nothing more is pending after a call.
LEMMA CallKeepsPending ==
  ASSUME todo \in Seq(Job), Orderly(todo), todo # <<>>, ListCalled, PlaceCalled,
         NEW s \in Sides
  PROVE  Pending(s)' \in Nat /\ Pending(s)' <= Pending(s)
<1>1. /\ Standing(s)' \in SUBSET Slots /\ Coming(s)' \in SUBSET Slots
      /\ Standing(s) \in SUBSET Slots /\ Coming(s) \in SUBSET Slots
  BY DEF Standing, Coming
<1>2. /\ IsFiniteSet(Standing(s)') /\ IsFiniteSet(Coming(s)')
      /\ Cardinality(Standing(s)') \in Nat /\ Cardinality(Coming(s)') \in Nat
      /\ IsFiniteSet(Standing(s)) /\ IsFiniteSet(Coming(s))
      /\ Cardinality(Standing(s)) \in Nat /\ Cardinality(Coming(s)) \in Nat
  BY <1>1, SlotsFinite
<1>3. Coming(s)' \subseteq Coming(s)
  BY CallFacts DEF Coming
<1>4. Cardinality(Coming(s)') <= Cardinality(Coming(s))
  BY <1>2, <1>3, FS_Subset
<1>5. CASE Standing(s)' \subseteq Standing(s)
  <2>1. Cardinality(Standing(s)') <= Cardinality(Standing(s))
    BY <1>2, <1>5, FS_Subset
  <2> QED
    BY <1>2, <1>4, <2>1 DEF Pending
<1>6. CASE ~(Standing(s)' \subseteq Standing(s))
  <2>1. PICK k \in Slots : quote'[s][k] = "live" /\ quote[s][k] # "live"
    BY <1>6 DEF Standing
  <2>2. Next1.op \in Placing /\ todo' = Rest /\ s = Next1.side /\ k = Next1.slot
    BY <2>1 DEF PlaceCalled
  <2>3. Standing(s)' = Standing(s) \union {k} /\ k \notin Standing(s)
    BY <2>1, <2>2 DEF PlaceCalled, Standing
  <2>4. k \in Coming(s)
    BY <2>2, CallFacts DEF Coming
  <2>5. k \notin Coming(s)'
    <3>1. ASSUME NEW b \in Jobs(Rest), b.op \in Placing PROVE b.side # s \/ b.slot # k
      BY <2>2, <3>1, HeadIsFirst DEF Rest, Next1
    <3> QED
      BY <2>2, <3>1 DEF Has, Coming
  <2>6. Cardinality(Standing(s)') = Cardinality(Standing(s)) + 1
    BY <1>2, <2>3, FS_AddElement
  <2>7. Cardinality(Coming(s)') <= Cardinality(Coming(s)) - 1
    <3>1. /\ IsFiniteSet(Coming(s) \ {k})
          /\ Cardinality(Coming(s) \ {k}) = Cardinality(Coming(s)) - 1
      BY <1>2, <2>4, FS_RemoveElement
    <3>2. Coming(s)' \subseteq Coming(s) \ {k}
      BY <1>3, <2>5
    <3> QED
      BY <3>1, <3>2, FS_Subset
  <2> QED
    BY <1>2, <2>6, <2>7 DEF Pending
<1> QED
  BY <1>5, <1>6

\* A call fills only an order that reduces the position, and forgets a live one only by
\* mishap.
CallSettles ==
  /\ \/ net' = net
     \/ \E s \in Sides : Reduces(s, net) /\ net' = net + Sign(s)
  /\ \/ orphans' = orphans /\ mishaps' \in {mishaps, mishaps + 1}
     \/ \E s \in Sides : orphans' = [orphans EXCEPT ![s] = @ + 1] /\ mishaps' = mishaps + 1
  /\ Told => Told'

\* Each call of a tick settles so.
LEMMA CallIsSettled ==
  ASSUME TypeOK, Orderly(todo), Emptied, Step
  PROVE  CallSettles
<1>0. /\ QuoteType /\ OrphansType /\ todo \in Seq(Job)
      /\ mishaps \in 0..MaxMishaps /\ net \in Int /\ inv \in Int /\ lag \in 0..MaxLag
  BY DEF TypeOK, QuoteType, OrphansType
<1>1. todo # <<>>
  BY CallIs
<1>2. /\ Next1 \in Job /\ Next1.side \in Sides /\ Next1.slot \in Slots
      /\ Next1.op \in {"static", "submit", "withdraw"} <=> Next1.slot = Static
      /\ Rest \in Seq(Job) /\ Jobs(todo) = {Next1} \union Jobs(Rest)
  BY <1>0, <1>1, Heading
\* The place of an order about to be sent is empty.
<1>3. ASSUME Next1.op \in {"place", "submit"} PROVE quote[Next1.side][Next1.slot] # "live"
  <2>1. ~Has(todo, {"cancel"}, Next1.side, Next1.slot)
    <3>1. \A b \in Jobs(Rest) : b.op # "cancel"
      BY <1>0, <1>1, <1>3, HeadIsFirst DEF Rest, Next1
    <3> QED
      BY <1>2, <1>3, <3>1 DEF Has
  <2>2. Has(todo, {Next1.op}, Next1.side, Next1.slot)
    BY <1>2 DEF Has
  <2> QED
    BY <1>2, <1>3, <2>1, <2>2 DEF Emptied
<1>4. ASSUME UNCHANGED market PROVE net' = net /\ (Told => Told')
  BY <1>4 DEF market, Told
<1>5. ASSUME NEW s \in Sides, Reduces(s, net), Fill(s)
      PROVE  /\ \E t \in Sides : Reduces(t, net) /\ net' = net + Sign(t)
             /\ Told => Told'
  BY <1>0, <1>5, Filling DEF Told
<1>6. ASSUME NEW s \in Sides, NEW k \in Slots, GiveUp(s, k)
      PROVE  \/ orphans' = orphans /\ mishaps' = mishaps
             \/ orphans' = [orphans EXCEPT ![s] = @ + 1] /\ mishaps' = mishaps + 1
  BY <1>0, <1>6, GivingUp
<1> HIDE DEF Next1, Rest
<1>7. CASE Cancel
  BY <1>2, <1>4, <1>6, <1>7 DEF Cancel, CallSettles
<1>8. CASE Halt
  BY <1>4, <1>8 DEF Halt, CallSettles
<1>9. CASE MarketReduce
  BY <1>2, <1>4, <1>5, <1>9 DEF MarketReduce, CallSettles
<1>10. CASE PlaceResting
  <2>1. Next1.op = "place" /\ TakeOver(Next1.side, Next1.slot, "live")
    BY <1>10 DEF PlaceResting, Next1Is
  <2>2. orphans' = orphans
    BY <1>0, <1>2, <1>3, <2>1, TakingOver
  <2> QED
    BY <1>4, <1>10, <2>2 DEF PlaceResting, CallSettles
<1>11. CASE PlaceReduceOnly
  <2>1. Next1.op = "place" /\ TakeOver(Next1.side, Next1.slot, "over")
    BY <1>11 DEF PlaceReduceOnly, Next1Is
  <2>2. orphans' = orphans
    BY <1>0, <1>2, <1>3, <2>1, TakingOver
  <2> QED
    BY <1>2, <1>4, <1>5, <1>11, <2>2 DEF PlaceReduceOnly, CallSettles
<1>12. CASE LegUnfit
  BY <1>4, <1>12 DEF LegUnfit, CallSettles
<1>13. CASE PlaceRefused
  BY <1>4, <1>13 DEF PlaceRefused, CallSettles
<1>14. CASE PlaceUnanswered
  BY <1>2, <1>4, <1>5, <1>14 DEF PlaceUnanswered, Mishap, CallSettles
<1>15. CASE PostOnlyRejected
  BY <1>4, <1>15 DEF PostOnlyRejected, CallSettles
<1>16. CASE StaticsUnfit
  BY <1>4, <1>16 DEF StaticsUnfit, CallSettles
<1>17. CASE StaticKept
  BY <1>4, <1>17 DEF StaticKept, CallSettles
<1>18. CASE StaticReplaced
  BY <1>2, <1>4, <1>6, <1>18 DEF StaticReplaced, CallSettles, Slots
<1>19. CASE StaticPlaced
  <2>1. quote[Next1.side][Static] # "live"
    BY <1>2, <1>3, <1>19 DEF StaticPlaced, Next1Is, StaticActive
  <2>2. TakeOver(Next1.side, Static, "live") => orphans' = orphans
    BY <1>0, <1>2, <2>1, TakingOver DEF Slots
  <2> QED
    BY <1>2, <1>4, <1>19, <2>2 DEF StaticPlaced, Mishap, CallSettles
<1>20. CASE StaticCooling
  BY <1>2, <1>4, <1>6, <1>20 DEF StaticCooling, CallSettles, Slots
<1> QED
  BY <1>7, <1>8, <1>9, <1>10, <1>11, <1>12, <1>13, <1>14, <1>15, <1>16, <1>17, <1>18,
     <1>19, <1>20 DEF Step, PlaceStep, StaticStep

\* The two sides, one by one.
LEMMA EachSide ==
  ASSUME net \in Int
  PROVE  /\ Sides = {"BUY", "SELL"} /\ "BUY" # "SELL"
         /\ Sign("BUY") = 1 /\ Sign("SELL") = -1
         /\ Reduces("BUY", net) <=> net < 0
         /\ Reduces("SELL", net) <=> net > 0
  BY DEF Sides, Sign, Reduces

\* The position seen from each side.
LEMMA Signed ==
  ASSUME NEW s \in Sides, NEW n \in Int
  PROVE  \/ s = "BUY" /\ Sign(s) = 1 /\ Sign(s) * n = n
         \/ s = "SELL" /\ Sign(s) = -1 /\ Sign(s) * n = -n
  BY DEF Sides, Sign

\* A fill moves the position towards its own side only, and by one.
LEMMA SignedFill ==
  ASSUME NEW s \in Sides, NEW t \in Sides, NEW n \in Int, NEW m \in Int,
         m = n \/ m = n + Sign(s)
  PROVE  /\ Sign(t) * n \in Int /\ Sign(t) * m \in Int
         /\ Sign(t) * m <= Sign(t) * n \/ (t = s /\ Sign(t) * m <= Sign(t) * n + 1)
<1>1. CASE t = "BUY"
  <2>1. Sign(t) * n = n /\ Sign(t) * m = m
    BY <1>1 DEF Sign
  <2> QED
    BY <1>1, <2>1 DEF Sides, Sign
<1>2. CASE t = "SELL"
  <2>1. Sign(t) * n = -n /\ Sign(t) * m = -m
    BY <1>2 DEF Sign
  <2> QED
    BY <1>2, <2>1 DEF Sides, Sign
<1> QED
  BY <1>1, <1>2 DEF Sides

\* The most orders a tick sends to a side: a leg each, or a single and a static one.
LEMMA MostIs == Most \in Nat /\ Most >= 2 /\ Most >= Levels
  BY LevelsAssumption DEF Most

\* While nothing more is pending, and what is filled was reducing or pending, the bound stays.
LEMMA SettledKeeps ==
  ASSUME net \in Int, OrphansType, OrphansType', mishaps \in Nat, mishaps' \in Nat,
         NoneForgotten, Bounded, CallSettles,
         \A s \in Sides : Pending(s)' \in Nat /\ Pending(s)' <= Pending(s)
  PROVE  NoneForgotten' /\ Bounded'
<1>0. /\ orphans["BUY"] \in Nat /\ orphans["SELL"] \in Nat
      /\ orphans'["BUY"] \in Nat /\ orphans'["SELL"] \in Nat
  BY DEF OrphansType, Sides
<1>1. /\ orphans'["BUY"] + orphans'["SELL"] - (orphans["BUY"] + orphans["SELL"])
           <= mishaps' - mishaps
      /\ orphans'["BUY"] - orphans["BUY"] <= mishaps' - mishaps
      /\ orphans'["SELL"] - orphans["SELL"] <= mishaps' - mishaps
  <2>1. CASE orphans' = orphans /\ mishaps' \in {mishaps, mishaps + 1}
    BY <1>0, <2>1
  <2>2. CASE orphans' = [orphans EXCEPT !["BUY"] = @ + 1] /\ mishaps' = mishaps + 1
    <3>1. orphans'["BUY"] = orphans["BUY"] + 1 /\ orphans'["SELL"] = orphans["SELL"]
      BY <2>2 DEF OrphansType, Sides
    <3> QED
      BY <1>0, <2>2, <3>1
  <2>3. CASE orphans' = [orphans EXCEPT !["SELL"] = @ + 1] /\ mishaps' = mishaps + 1
    <3>1. orphans'["SELL"] = orphans["SELL"] + 1 /\ orphans'["BUY"] = orphans["BUY"]
      BY <2>3 DEF OrphansType, Sides
    <3> QED
      BY <1>0, <2>3, <3>1
  <2> QED
    BY <2>1, <2>2, <2>3 DEF CallSettles, Sides
<1>2. NoneForgotten'
  BY <1>0, <1>1 DEF NoneForgotten
<1>3. Most \in Nat /\ MaxLag \in Nat /\ Threshold \in Nat /\ Threshold >= 1
  BY MostIs, BoundsAssumption, ThresholdAssumption
<1>4. /\ Pending("BUY")' \in Nat /\ Pending("BUY")' <= Pending("BUY")
      /\ Pending("SELL")' \in Nat /\ Pending("SELL")' <= Pending("SELL")
      /\ Pending("BUY") \in Nat /\ Pending("SELL") \in Nat
      /\ Pending("BUY") <= 2 * Most /\ Pending("SELL") <= 2 * Most
      /\ net + Pending("BUY") + orphans["BUY"]
           <= Threshold - 1 + 2 * Most + MaxLag + mishaps
      /\ -net + Pending("SELL") + orphans["SELL"]
           <= Threshold - 1 + 2 * Most + MaxLag + mishaps
  <2>1. "BUY" \in Sides /\ "SELL" \in Sides
    BY DEF Sides
  <2>2. Sign("BUY") * net = net /\ Sign("SELL") * net = -net
    BY EachSide
  <2> QED
    BY <2>1, <2>2, PendingType DEF Bounded
<1>5. /\ net' \in Int
      /\ net' = net \/ (net < 0 /\ net' = net + 1) \/ (net > 0 /\ net' = net - 1)
  BY EachSide DEF CallSettles
<1>6. /\ net' + Pending("BUY")' + orphans'["BUY"]
           <= Threshold - 1 + 2 * Most + MaxLag + mishaps'
      /\ -net' + Pending("SELL")' + orphans'["SELL"]
           <= Threshold - 1 + 2 * Most + MaxLag + mishaps'
      /\ Pending("BUY")' <= 2 * Most /\ Pending("SELL")' <= 2 * Most
  <2> DEFINE B == Pending("BUY")
             S == Pending("SELL")
             Bp == Pending("BUY")'
             Sp == Pending("SELL")'
             M == 2 * Most
  <2>1. M \in Nat /\ B \in Nat /\ S \in Nat /\ Bp \in Nat /\ Sp \in Nat
    BY <1>3, <1>4
  <2>2. Bp <= B /\ Sp <= S /\ B <= M /\ S <= M
    BY <1>4
  <2>3. /\ net + B + orphans["BUY"] <= Threshold - 1 + M + MaxLag + mishaps
        /\ -net + S + orphans["SELL"] <= Threshold - 1 + M + MaxLag + mishaps
    BY <1>4
  <2>4. orphans'["BUY"] + orphans'["SELL"] <= mishaps'
    BY <1>2 DEF NoneForgotten
  <2> HIDE DEF B, S, Bp, Sp, M
  <2>5. net' + Bp + orphans'["BUY"] <= Threshold - 1 + M + MaxLag + mishaps'
    BY <1>0, <1>1, <1>3, <1>5, <2>1, <2>2, <2>3, <2>4
  <2>6. -net' + Sp + orphans'["SELL"] <= Threshold - 1 + M + MaxLag + mishaps'
    BY <1>0, <1>1, <1>3, <1>5, <2>1, <2>2, <2>3, <2>4
  <2>7. Bp <= M /\ Sp <= M
    BY <2>1, <2>2
  <2> QED
    BY <2>5, <2>6, <2>7 DEF B, S, Bp, Sp, M
<1>7. Bounded'
  <2>1. Sign("BUY") * net' = net' /\ Sign("SELL") * net' = -net'
    BY <1>5, EachSide
  <2> QED
    BY <1>6, <2>1 DEF Bounded, Sides
<1> QED
  BY <1>2, <1>7

-----------------------------------------------------------------------------
(* What the exchange, the user stream and the clock do to it. *)

Outside ==
  \/ \E s \in Sides : \/ \E k \in Slots : QuoteEnds(s, k)
                      \/ OrphanEnds(s) \/ BookClosed(s) \/ CooldownEnds(s)
  \/ AccountUpdate \/ CoolingEnds \/ HaltExpires

\* No order comes to stand: what stays, and what is pending, can only become less.
LEMMA Waning ==
  ASSUME todo' = todo,
         \A s \in Sides, k \in Slots :
           /\ quote'[s][k] = "live" => quote[s][k] = "live"
           /\ quote'[s][k] # "none" => quote[s][k] # "none"
  PROVE  /\ Exclusive => Exclusive'
         /\ Emptied => Emptied'
         /\ \A s \in Sides : Pending(s)' \in Nat /\ Pending(s)' <= Pending(s)
<1>1. \A s \in Sides, k \in Slots : Stays(s, k)' => Stays(s, k)
  BY DEF Stays
<1>2. \A k \in Legs : k \in Slots
  BY DEF Slots
<1>3. Static \in Slots /\ Last \in Slots
  BY DEF Slots
<1>4. Exclusive => Exclusive'
  BY <1>1, <1>2, <1>3 DEF Exclusive
<1>5. Emptied => Emptied'
  BY DEF Emptied
<1>6. ASSUME NEW s \in Sides PROVE Pending(s)' \in Nat /\ Pending(s)' <= Pending(s)
  <2>1. Standing(s)' \subseteq Standing(s) /\ Coming(s)' = Coming(s)
    BY DEF Standing, Coming
  <2>2. Cardinality(Standing(s)') \in Nat
        /\ Cardinality(Standing(s)') <= Cardinality(Standing(s))
    BY <2>1, PendingType, SlotsFinite, FS_Subset
  <2> QED
    BY <2>1, <2>2, PendingType DEF Pending
<1> QED
  BY <1>4, <1>5, <1>6

\* An order that fills stood, or was forgotten, until then.
FillSettles(s) ==
  /\ mishaps' = mishaps
  /\ net' \in {net, net + Sign(s)}
  /\ \/ orphans' = orphans /\ Pending(s)' <= Pending(s) - 1
     \/ orphans[s] > 0 /\ orphans' = [orphans EXCEPT ![s] = @ - 1]

\* A fill of an order that stood, or was forgotten, uses up what was pending.
LEMMA FillSettledKeeps ==
  ASSUME net \in Int, OrphansType, mishaps \in Nat,
         NoneForgotten, Bounded, NEW s \in Sides, FillSettles(s),
         \A t \in Sides : Pending(t)' \in Nat /\ Pending(t)' <= Pending(t)
  PROVE  NoneForgotten' /\ Bounded'
<1>0. /\ Most \in Nat /\ MaxLag \in Nat /\ Threshold \in Nat
      /\ \A t \in Sides : Pending(t) \in Nat /\ orphans[t] \in Nat
      /\ Sign(s) \in {-1, 1} /\ net' \in Int
  BY MostIs, BoundsAssumption, ThresholdAssumption, PendingType
     DEF OrphansType, Sign, FillSettles
<1>1. ASSUME NEW t \in Sides, t # s
      PROVE  orphans'[t] = orphans[t] /\ Sign(t) = -Sign(s)
  BY <1>1 DEF FillSettles, OrphansType, Sides, Sign
<1>2. /\ orphans'[s] \in Nat
      /\ \/ orphans'[s] = orphans[s] /\ Pending(s)' <= Pending(s) - 1
         \/ orphans'[s] = orphans[s] - 1
  BY <1>0 DEF FillSettles, OrphansType
<1>3. NoneForgotten'
  <2>1. orphans["BUY"] \in Nat /\ orphans["SELL"] \in Nat
    BY <1>0 DEF Sides
  <2>2. s = "BUY" \/ s = "SELL"
    BY DEF Sides
  <2>3. orphans'["BUY"] \in Nat /\ orphans'["SELL"] \in Nat
        /\ orphans'["BUY"] <= orphans["BUY"] /\ orphans'["SELL"] <= orphans["SELL"]
    BY <1>0, <1>1, <1>2, <2>1, <2>2 DEF Sides
  <2> QED
    BY <2>1, <2>3 DEF NoneForgotten, FillSettles
<1>4. ASSUME NEW t \in Sides
      PROVE  /\ Pending(t)' <= 2 * Most
             /\ Sign(t) * net' + Pending(t)' + orphans'[t]
                  <= Threshold - 1 + 2 * Most + MaxLag + mishaps'
  <2> DEFINE P == Pending(t)
             Pp == Pending(t)'
             M == 2 * Most
  <2>1. P \in Nat /\ Pp \in Nat /\ Pp <= P /\ M \in Nat /\ P <= M
        /\ Sign(t) * net + P + orphans[t] <= Threshold - 1 + M + MaxLag + mishaps
    BY <1>0 DEF Bounded
  <2>2. t = s => \/ orphans'[t] = orphans[t] /\ Pp <= P - 1
                 \/ orphans'[t] = orphans[t] - 1
    BY <1>2
  <2>3. net' = net \/ net' = net + Sign(s)
    BY DEF FillSettles
  <2>4. mishaps' = mishaps
    BY DEF FillSettles
  <2>6. t # s => orphans'[t] = orphans[t]
    BY <1>1
  <2>7. orphans[t] \in Nat /\ orphans'[t] \in Int
    BY <1>0, <1>1, <1>2
  <2> HIDE DEF P, Pp, M
  <2> DEFINE a == Sign(t) * net
             b == Sign(t) * net'
  <2>8. /\ a \in Int /\ b \in Int
        /\ b <= a \/ (t = s /\ b <= a + 1)
    BY <1>0, <2>3, SignedFill
  <2>10. a + P + orphans[t] <= Threshold - 1 + M + MaxLag + mishaps
    BY <2>1
  <2> HIDE DEF a, b
  <2>11. b + Pp + orphans'[t] <= Threshold - 1 + M + MaxLag + mishaps'
    <3>1. CASE t = s
      BY <1>0, <2>1, <2>2, <2>4, <2>7, <2>8, <2>10, <3>1
    <3>2. CASE t # s
      BY <1>0, <2>1, <2>6, <2>4, <2>7, <2>8, <2>10, <3>2
    <3> QED
      BY <3>1, <3>2
  <2>12. Pp <= M
    BY <2>1
  <2> QED
    BY <2>11, <2>12 DEF P, Pp, M, b
<1> QED
  BY <1>3, <1>4 DEF Bounded

\* No order, no call and no fill is concerned.
LEMMA Unmoved ==
  ASSUME net \in Int, OrphansType, mishaps \in Nat, NoneForgotten, Bounded,
         UNCHANGED <<quote, orphans, todo, net, mishaps>>, Told'
  PROVE  /\ Exclusive => Exclusive'
         /\ Emptied => Emptied'
         /\ NoneForgotten' /\ Bounded'
<1>1. /\ Exclusive => Exclusive'
      /\ Emptied => Emptied'
      /\ \A s \in Sides : Pending(s)' \in Nat /\ Pending(s)' <= Pending(s)
  BY Waning
<1>2. CallSettles
  BY DEF CallSettles
<1>3. OrphansType' /\ mishaps' \in Nat
  BY DEF OrphansType
<1> QED
  BY <1>1, <1>2, <1>3, SettledKeeps

\* Fills, expiries, the user stream and the clock keep the invariant.
LEMMA OutsideKeeps ==
  ASSUME TypeOK, NoneForgotten, Bounded, Told, Outside
  PROVE  /\ TypeOK' /\ todo' = todo
         /\ Exclusive => Exclusive'
         /\ Emptied => Emptied'
         /\ NoneForgotten' /\ Told' /\ Bounded'
<1>0. /\ QuoteType /\ OrphansType /\ todo \in Seq(Job)
      /\ mishaps \in Nat /\ net \in Int /\ inv \in Int /\ lag \in 0..MaxLag
      /\ mishaps \in 0..MaxMishaps
      /\ riskState \in {"normal", "reduce_only", "halted"}
      /\ haltUntil \in {"zero", "ahead", "past"}
      /\ prevMid \in Prices \union {0} /\ lastMid \in Prices \union {0}
      /\ cooldown \in [Sides -> BOOLEAN] /\ cooling \in BOOLEAN
  BY BoundsAssumption DEF TypeOK, QuoteType, OrphansType
<1>1. ASSUME QuoteType', OrphansType', todo' = todo, UNCHANGED control, mishaps' = mishaps,
             net' \in Int, inv' \in Int, lag' \in 0..MaxLag, cooldown' = cooldown
      PROVE  TypeOK'
  BY <1>0, <1>1 DEF TypeOK, QuoteType, OrphansType, control
<1>2. ASSUME UNCHANGED <<quote, orphans, todo, net, mishaps>>, Told'
      PROVE  /\ Exclusive => Exclusive'
             /\ Emptied => Emptied'
             /\ NoneForgotten' /\ Bounded'
  BY <1>0, <1>2, Unmoved
<1>3. ASSUME NEW s \in Sides, Fill(s) \/ UNCHANGED market
      PROVE  /\ net' \in Int /\ inv' \in Int /\ lag' \in 0..MaxLag
             /\ net' \in {net, net + Sign(s)} /\ Told'
  <2>1. CASE Fill(s)
    BY <1>0, <2>1, Filling DEF Told
  <2>2. CASE UNCHANGED market
    BY <1>0, <2>2 DEF market, Told
  <2> QED
    BY <1>3, <2>1, <2>2
<1>4. ASSUME NEW s \in Sides, NEW k \in Slots, QuoteEnds(s, k)
      PROVE  /\ TypeOK' /\ todo' = todo
             /\ Exclusive => Exclusive'
             /\ Emptied => Emptied'
             /\ NoneForgotten' /\ Told' /\ Bounded'
  <2>1. /\ QuoteType' /\ quote[s][k] = "live" /\ quote'[s][k] = "over"
        /\ \A t \in Sides, m \in Slots : (t = s /\ m = k) \/ quote'[t][m] = quote[t][m]
    BY <1>0, <1>4, Setting DEF QuoteEnds
  <2>2. /\ orphans' = orphans /\ todo' = todo /\ UNCHANGED control /\ cooldown' = cooldown
        /\ mishaps' = mishaps /\ (Fill(s) \/ UNCHANGED market)
    BY <1>4 DEF QuoteEnds
  <2>3. OrphansType' /\ TypeOK'
    <3>1. OrphansType'
      BY <1>0, <2>2 DEF OrphansType
    <3> QED
      BY <1>1, <1>3, <2>1, <2>2, <3>1
  <2>4. /\ Exclusive => Exclusive'
        /\ Emptied => Emptied'
        /\ \A t \in Sides : Pending(t)' \in Nat /\ Pending(t)' <= Pending(t)
    <3>1. \A t \in Sides, m \in Slots :
            /\ quote'[t][m] = "live" => quote[t][m] = "live"
            /\ quote'[t][m] # "none" => quote[t][m] # "none"
      BY <2>1
    <3> QED
      BY <2>2, <3>1, Waning
  <2>5. Pending(s)' <= Pending(s) - 1
    <3>1. /\ Standing(s)' = Standing(s) \ {k} /\ k \in Standing(s)
          /\ Coming(s)' = Coming(s)
      BY <2>1, <2>2 DEF Standing, Coming
    <3>2. Cardinality(Standing(s)') = Cardinality(Standing(s)) - 1
      BY <3>1, PendingType, FS_RemoveElement
    <3> QED
      BY <3>1, <3>2, PendingType DEF Pending
  <2>6. FillSettles(s)
    BY <1>3, <2>2, <2>5 DEF FillSettles
  <2>7. NoneForgotten' /\ Bounded'
    BY <1>0, <2>4, <2>6, FillSettledKeeps
  <2> QED
    BY <1>3, <2>2, <2>3, <2>4, <2>7
<1>5. ASSUME NEW s \in Sides, OrphanEnds(s)
      PROVE  /\ TypeOK' /\ todo' = todo
             /\ Exclusive => Exclusive'
             /\ Emptied => Emptied'
             /\ NoneForgotten' /\ Told' /\ Bounded'
  <2>1. /\ orphans[s] > 0 /\ orphans' = [orphans EXCEPT ![s] = @ - 1]
        /\ quote' = quote /\ todo' = todo /\ UNCHANGED control /\ cooldown' = cooldown
        /\ mishaps' = mishaps /\ (Fill(s) \/ UNCHANGED market)
    BY <1>5 DEF OrphanEnds
  <2>2. OrphansType' /\ QuoteType'
    BY <1>0, <2>1 DEF OrphansType, QuoteType
  <2>3. TypeOK'
    BY <1>1, <1>3, <2>1, <2>2
  <2>4. /\ Exclusive => Exclusive'
        /\ Emptied => Emptied'
        /\ \A t \in Sides : Pending(t)' \in Nat /\ Pending(t)' <= Pending(t)
    BY <2>1, Waning
  <2>5. FillSettles(s)
    BY <1>3, <2>1 DEF FillSettles
  <2>6. NoneForgotten' /\ Bounded'
    BY <1>0, <2>4, <2>5, FillSettledKeeps
  <2> QED
    BY <1>3, <2>1, <2>3, <2>4, <2>6
<1>6. ASSUME NEW s \in Sides, BookClosed(s)
      PROVE  /\ TypeOK' /\ todo' = todo
             /\ Exclusive => Exclusive'
             /\ Emptied => Emptied'
             /\ NoneForgotten' /\ Told' /\ Bounded'
  <2>1. /\ QuoteType' /\ quote'[s][Static] = "none" /\ Static \in Slots
        /\ \A t \in Sides, m \in Slots : (t = s /\ m = Static) \/ quote'[t][m] = quote[t][m]
    BY <1>0, <1>6, Setting DEF BookClosed, Slots
  <2>2. UNCHANGED <<orphans, todo, control, cooldown, market, mishaps>>
    BY <1>6 DEF BookClosed
  <2>3. OrphansType' /\ TypeOK' /\ Told'
    <3>1. OrphansType' /\ Told'
      BY <1>0, <2>2 DEF OrphansType, Told, market
    <3> QED
      BY <1>0, <1>1, <2>1, <2>2, <3>1 DEF market
  <2>4. /\ Exclusive => Exclusive'
        /\ Emptied => Emptied'
        /\ \A t \in Sides : Pending(t)' \in Nat /\ Pending(t)' <= Pending(t)
    <3>1. \A t \in Sides, m \in Slots :
            /\ quote'[t][m] = "live" => quote[t][m] = "live"
            /\ quote'[t][m] # "none" => quote[t][m] # "none"
      BY <2>1
    <3> QED
      BY <2>2, <3>1, Waning
  <2>5. CallSettles
    BY <2>2, <2>3 DEF CallSettles, market
  <2>6. NoneForgotten' /\ Bounded'
    BY <1>0, <2>2, <2>3, <2>4, <2>5, SettledKeeps
  <2> QED
    BY <2>2, <2>3, <2>4, <2>6
<1>7. ASSUME NEW s \in Sides, CooldownEnds(s)
      PROVE  /\ TypeOK' /\ todo' = todo
             /\ Exclusive => Exclusive'
             /\ Emptied => Emptied'
             /\ NoneForgotten' /\ Told' /\ Bounded'
  <2>1. /\ UNCHANGED <<quote, orphans, todo, control, market, mishaps>>
        /\ cooldown' \in [Sides -> BOOLEAN]
    BY <1>0, <1>7 DEF CooldownEnds
  <2>2. TypeOK' /\ Told'
    BY <1>0, <2>1 DEF TypeOK, Told, control, market
  <2> QED
    BY <1>2, <2>1, <2>2 DEF market
<1>8. CASE AccountUpdate
  <2>1. Told'
    BY <1>0, <1>8 DEF AccountUpdate, Told, Abs
  <2>2. TypeOK'
    BY <1>0, <1>8, BoundsAssumption DEF AccountUpdate, TypeOK, control
  <2> QED
    BY <1>2, <1>8, <2>1, <2>2 DEF AccountUpdate
<1>9. CASE CoolingEnds
  <2>1. Told' /\ TypeOK'
    BY <1>0, <1>9 DEF CoolingEnds, TypeOK, Told, market
  <2> QED
    BY <1>2, <1>9, <2>1 DEF CoolingEnds, market
<1>10. CASE HaltExpires
  <2>1. Told' /\ TypeOK'
    BY <1>0, <1>10 DEF HaltExpires, TypeOK, Told, market
  <2> QED
    BY <1>2, <1>10, <2>1 DEF HaltExpires, market
<1> QED
  BY <1>4, <1>5, <1>6, <1>7, <1>8, <1>9, <1>10 DEF Outside

-----------------------------------------------------------------------------
(* The lists OnTick makes. *)

\* A list of cancels, and one that cancels nothing.
Cancels(q) == q \in Seq(Job) /\ \A j \in Jobs(q) : j.op = "cancel" /\ j.slot # Static
Follows(q) == q \in Seq(Job) /\ Orderly(q) /\ \A j \in Jobs(q) : j.op # "cancel"

\* A list of cancels is in order.
LEMMA CancelsOrderly == ASSUME NEW q, Cancels(q) PROVE q \in Seq(Job) /\ Orderly(q)
<1>1. q \in Seq(Job) /\ \A i \in DOMAIN q : q[i].op = "cancel"
  BY DEF Cancels, Jobs
<1>2. CancelsFirst(q) /\ Distinct(q)
  BY <1>1 DEF CancelsFirst, Distinct, Placing
<1> QED
  BY <1>1, <1>2 DEF Cancels, Orderly, Slotted

\* Two lists of cancels make one.
LEMMA BothCancel ==
  ASSUME NEW p, NEW q, Cancels(p), Cancels(q)
  PROVE  Cancels(p \o q) /\ Jobs(p \o q) = Jobs(p) \union Jobs(q)
  BY JobsOfBoth DEF Cancels

\* What follows the cancels, or what follows that and sends nothing to the same places.
LEMMA FollowsOrderly ==
  ASSUME NEW p, NEW q, p \in Seq(Job), Orderly(p), Follows(q),
         \A a \in Jobs(p), b \in Jobs(q) :
           a.op \in Placing /\ b.op \in Placing => a.side # b.side \/ a.slot # b.slot
  PROVE  /\ p \o q \in Seq(Job) /\ Orderly(p \o q)
         /\ Jobs(p \o q) = Jobs(p) \union Jobs(q)
         /\ Follows(p) => Follows(p \o q)
  BY BothOrderly, JobsOfBoth DEF Follows

\* The empty list does both.
LEMMA NoneCancels == Cancels(<<>>)
  BY JobsOfNone DEF Cancels

LEMMA NoneFollows == Follows(<<>>)
  BY JobsOfNone, NoneOrderly DEF Follows

\* The static place, the last quote and the legs are all the places, and no two are one.
LEMMA SlotFacts ==
  /\ Static \in Slots /\ Last \in Slots /\ Static # Last
  /\ \A k \in Legs : k \in Slots /\ k # Static /\ k # Last
  /\ \A k \in Slots : k = Static \/ k = Last \/ k \in Legs
  BY LevelsAssumption DEF Slots, Legs, Static, Last

\* What a call on the list is.
LEMMA CallIsJob ==
  ASSUME NEW op \in {"cancel", "market", "static", "withdraw", "halt"}, NEW s \in Sides,
         NEW k \in Slots
  PROVE  /\ Call(op, s, k) \in Job
         /\ Call(op, s, k).op = op /\ Call(op, s, k).side = s /\ Call(op, s, k).slot = k
  BY DEF Call, Job

LEMMA PlaceIsJob ==
  ASSUME NEW s \in Sides, NEW k \in Slots, NEW post, NEW ioc \in BOOLEAN
  PROVE  /\ Place(s, k, post, ioc) \in Job
         /\ Place(s, k, post, ioc).op = "place"
         /\ Place(s, k, post, ioc).side = s /\ Place(s, k, post, ioc).slot = k
  BY DEF Place, Job

\* A cancel for each id there is.
LEMMA OneCancelled ==
  ASSUME NEW s \in Sides, NEW k \in Slots, k # Static
  PROVE  /\ Cancels(CancelOne("cancel", s, k))
         /\ quote[s][k] # "none" => Has(CancelOne("cancel", s, k), {"cancel"}, s, k)
<1>1. CASE quote[s][k] = "none"
  BY <1>1, NoneCancels DEF CancelOne
<1>2. CASE quote[s][k] # "none"
  <2>1. CancelOne("cancel", s, k) = <<Call("cancel", s, k)>>
    BY <1>2 DEF CancelOne
  <2> DEFINE c == Call("cancel", s, k)
  <2>2. c \in Job /\ c.op = "cancel" /\ c.side = s /\ c.slot = k
    BY CallIsJob
  <2> HIDE DEF c
  <2>3. <<c>> \in Seq(Job) /\ Jobs(<<c>>) = {c}
    BY <2>2, JobsOfOne
  <2>4. Cancels(<<c>>) /\ Has(<<c>>, {"cancel"}, s, k)
    BY <2>2, <2>3 DEF Cancels, Has
  <2> QED
    BY <2>1, <2>4 DEF c
<1> QED
  BY <1>1, <1>2

\* A cancel for each leg of a side that has any.
LEMMA LegsCancelled ==
  ASSUME NEW s \in Sides
  PROVE  /\ Cancels(CancelLegs(s))
         /\ \A k \in Legs : quote[s][k] # "none" => Has(CancelLegs(s), {"cancel"}, s, k)
<1>1. CASE \A i \in Legs : quote[s][i] = "none"
  BY <1>1, NoneCancels DEF CancelLegs
<1>2. CASE ~\A i \in Legs : quote[s][i] = "none"
  <2> DEFINE q == [i \in Legs |-> Call("cancel", s, i)]
  <2>1. CancelLegs(s) = q
    BY <1>2 DEF CancelLegs
  <2>2. DOMAIN q = Legs
        /\ \A i \in Legs : q[i] \in Job /\ q[i].op = "cancel" /\ q[i].side = s /\ q[i].slot = i
    BY CallIsJob, SlotFacts
  <2>3. q \in Seq(Job)
    BY <2>2, LevelsAssumption DEF Legs
  <2> HIDE DEF q
  <2>4. \A j \in Jobs(q) : j.op = "cancel" /\ j.slot # Static
    BY <2>2, SlotFacts DEF Jobs
  <2>5. \A k \in Legs : Has(q, {"cancel"}, s, k)
    BY <2>2 DEF Has, Jobs
  <2> QED
    BY <2>1, <2>3, <2>4, <2>5 DEF Cancels
<1> QED
  BY <1>1, <1>2

\* A call is on the joined list if it is on one of them.
LEMMA HasBoth ==
  ASSUME NEW p, NEW q, Jobs(p \o q) = Jobs(p) \union Jobs(q), NEW ops, NEW s, NEW k
  PROVE  Has(p \o q, ops, s, k) <=> Has(p, ops, s, k) \/ Has(q, ops, s, k)
  BY DEF Has

\* All legs of both sides; the single quotes of some; both.
LEMMA AllLegsCancelled ==
  /\ Cancels(ForSides(CancelLegs))
  /\ \A s \in Sides, k \in Legs :
       quote[s][k] # "none" => Has(ForSides(CancelLegs), {"cancel"}, s, k)
<1>1. ForSides(CancelLegs) = CancelLegs("BUY") \o CancelLegs("SELL")
  BY DEF ForSides
<1>2. "BUY" \in Sides /\ "SELL" \in Sides /\ \A s \in Sides : s = "BUY" \/ s = "SELL"
  BY DEF Sides
<1>3. /\ Cancels(CancelLegs("BUY")) /\ Cancels(CancelLegs("SELL"))
      /\ \A s \in Sides, k \in Legs :
           quote[s][k] # "none" => Has(CancelLegs(s), {"cancel"}, s, k)
  BY <1>2, LegsCancelled
<1>4. /\ Cancels(CancelLegs("BUY") \o CancelLegs("SELL"))
      /\ Jobs(CancelLegs("BUY") \o CancelLegs("SELL"))
           = Jobs(CancelLegs("BUY")) \union Jobs(CancelLegs("SELL"))
  BY <1>3, BothCancel
<1> QED
  BY <1>1, <1>2, <1>3, <1>4, HasBoth

\* The single quotes of some sides.
LEMMA LastCancelled ==
  ASSUME NEW S \in SUBSET Sides
  PROVE  /\ Cancels(CancelLast(S))
         /\ \A s \in S : quote[s][Last] # "none" => Has(CancelLast(S), {"cancel"}, s, Last)
<1> DEFINE c(s) == IF s \in S THEN CancelOne("cancel", s, Last) ELSE <<>>
<1>1. CancelLast(S) = c("BUY") \o c("SELL")
  BY DEF CancelLast, ForSides
<1>2. "BUY" \in Sides /\ "SELL" \in Sides /\ \A s \in S : s = "BUY" \/ s = "SELL"
  BY DEF Sides
<1>3. ASSUME NEW s \in Sides
      PROVE  /\ Cancels(c(s))
             /\ s \in S /\ quote[s][Last] # "none" => Has(c(s), {"cancel"}, s, Last)
  BY OneCancelled, NoneCancels, SlotFacts
<1> HIDE DEF c
<1>4. /\ Cancels(c("BUY") \o c("SELL"))
      /\ Jobs(c("BUY") \o c("SELL")) = Jobs(c("BUY")) \union Jobs(c("SELL"))
  BY <1>2, <1>3, BothCancel
<1> QED
  BY <1>1, <1>2, <1>3, <1>4, HasBoth

\* Both: cancelOutstanding.
LEMMA OutstandingCancelled ==
  /\ Cancels(CancelOutstanding)
  /\ \A s \in Sides, k \in Slots :
       k # Static /\ quote[s][k] # "none" => Has(CancelOutstanding, {"cancel"}, s, k)
<1> DEFINE p == CancelLast(Sides)
           q == ForSides(CancelLegs)
<1>1. Cancels(p) /\ Cancels(q)
  BY LastCancelled, AllLegsCancelled
<1>2. CancelOutstanding = p \o q
  BY DEF CancelOutstanding
<1>3. \A s \in Sides, k \in Slots : k # Static /\ quote[s][k] # "none" =>
        Has(p, {"cancel"}, s, k) \/ Has(q, {"cancel"}, s, k)
  BY LastCancelled, AllLegsCancelled, SlotFacts
<1> HIDE DEF p, q
<1>4. Cancels(p \o q) /\ Jobs(p \o q) = Jobs(p) \union Jobs(q)
  BY <1>1, BothCancel
<1> QED
  BY <1>2, <1>3, <1>4, HasBoth

\* Both static orders withdrawn, or both looked after.
LEMMA StaticManaged ==
  ASSUME NEW w \in BOOLEAN
  PROVE  /\ Follows(ManageStatic(w))
         /\ \A j \in Jobs(ManageStatic(w)) :
              /\ j.slot = Static
              /\ IF w THEN j.op = "withdraw" ELSE j.op = "static"
         /\ w => \A s \in Sides : quote[s][Static] # "none" =>
                   Has(ManageStatic(w), {"withdraw"}, s, Static)
<1> DEFINE c(s) == IF w THEN CancelOne("withdraw", s, Static)
                   ELSE <<Call("static", s, Static)>>
<1>1. ManageStatic(w) = c("BUY") \o c("SELL")
  BY DEF ManageStatic, ForSides
<1>2. "BUY" \in Sides /\ "SELL" \in Sides /\ \A s \in Sides : s = "BUY" \/ s = "SELL"
  BY DEF Sides
<1>3. ASSUME NEW s \in Sides
      PROVE  /\ Follows(c(s))
             /\ \A j \in Jobs(c(s)) :
                  /\ j.slot = Static /\ j.side = s
                  /\ IF w THEN j.op = "withdraw" ELSE j.op = "static"
             /\ w /\ quote[s][Static] # "none" => Has(c(s), {"withdraw"}, s, Static)
  <2> DEFINE a == Call("withdraw", s, Static)
             b == Call("static", s, Static)
  <2>1. /\ a \in Job /\ a.op = "withdraw" /\ a.side = s /\ a.slot = Static
        /\ b \in Job /\ b.op = "static" /\ b.side = s /\ b.slot = Static
    BY CallIsJob, SlotFacts
  <2>2. c(s) = <<>> \/ (w /\ c(s) = <<a>>) \/ (~w /\ c(s) = <<b>>)
    BY DEF CancelOne
  <2>3. w /\ quote[s][Static] # "none" => c(s) = <<a>>
    BY DEF CancelOne
  <2> HIDE DEF a, b, c
  <2>4. Follows(<<a>>) /\ Jobs(<<a>>) = {a} /\ Follows(<<b>>) /\ Jobs(<<b>>) = {b}
    BY <2>1, OneOrderly, JobsOfOne DEF Follows
  <2> QED
    BY <2>1, <2>2, <2>3, <2>4, NoneFollows, JobsOfNone DEF Has
<1> HIDE DEF c
<1>4. /\ Follows(c("BUY") \o c("SELL"))
      /\ Jobs(c("BUY") \o c("SELL")) = Jobs(c("BUY")) \union Jobs(c("SELL"))
  <2>1. \A a \in Jobs(c("BUY")), b \in Jobs(c("SELL")) : a.side # b.side
    BY <1>2, <1>3
  <2> QED
    BY <1>2, <1>3, <2>1, FollowsOrderly DEF Follows
<1>5. w => \A s \in Sides : quote[s][Static] # "none" =>
             Has(ManageStatic(w), {"withdraw"}, s, Static)
  BY <1>1, <1>2, <1>3, <1>4, HasBoth
<1>6. \A j \in Jobs(ManageStatic(w)) :
        /\ j.slot = Static
        /\ IF w THEN j.op = "withdraw" ELSE j.op = "static"
  BY <1>1, <1>2, <1>3, <1>4
<1> QED
  BY <1>1, <1>4, <1>5, <1>6

\* The quotes of a side, one to a leg.
LEMMA LegsPlaced ==
  ASSUME NEW s \in Sides, NEW m \in 0..Levels, NEW q \in [1..m -> Job],
         \A i \in 1..m : q[i].op = "place" /\ q[i].side = s /\ q[i].slot = i
  PROVE  /\ Follows(q)
         /\ \A j \in Jobs(q) : j.op = "place" /\ j.side = s /\ j.slot \in Legs /\ m > 0
<1>1. /\ DOMAIN q = 1..m /\ m \in Nat
      /\ \A i \in 1..m : /\ i \in Legs /\ q[i] \in Job /\ q[i].op = "place"
                         /\ q[i].side = s /\ q[i].slot = i
  BY LevelsAssumption DEF Legs
<1>2. q \in Seq(Job)
  BY <1>1
<1>3. CancelsFirst(q) /\ Distinct(q)
  BY <1>1 DEF CancelsFirst, Distinct
<1>4. \A j \in Jobs(q) : j.op = "place" /\ j.side = s /\ j.slot \in Legs /\ m > 0
  BY <1>1 DEF Jobs
<1>5. Follows(q)
  BY <1>2, <1>3, <1>4, SlotFacts DEF Follows, Orderly, Slotted
<1> QED
  BY <1>4, <1>5

\* What every list OnTick makes has in common. It cancels the order of a place before it
\* sends another there; it leaves no leg, or nothing but legs; and while reducing it sends
\* nothing that opens.
Clears(q, K) ==
  \A s \in Sides, k \in K :
    ~Has(q, Placing, s, k) /\ (quote[s][k] # "none" => Has(q, Removing, s, k))
Started(q) ==
  /\ q \in Seq(Job) /\ Orderly(q)
  /\ \A j \in Jobs(q) : j.op # "submit"
  /\ \A s \in Sides, k \in Slots :
       Has(q, {"place"}, s, k) /\ quote[s][k] # "none" => Has(q, {"cancel"}, s, k)
  /\ Clears(q, Legs) \/ Clears(q, {Static, Last})
  /\ \A s \in Sides : Reducing /\ Opens(s, inv) =>
       \A j \in Jobs(q) : j.op \in Placing => j.side # s

\* triggerHalt cancels and sends nothing.
LEMMA HaltStarts == Started(TriggerHalt)
<1> DEFINE p == CancelOutstanding
           h == Call("halt", "BUY", Last)
<1>1. /\ Cancels(p)
      /\ \A s \in Sides, k \in Slots :
           k # Static /\ quote[s][k] # "none" => Has(p, {"cancel"}, s, k)
  BY OutstandingCancelled
<1>2. h \in Job /\ h.op = "halt" /\ h.slot = Last
  BY CallIsJob, SlotFacts DEF Sides
<1>3. TriggerHalt = p \o <<h>>
  BY DEF TriggerHalt
<1> HIDE DEF p, h
<1>4. Follows(<<h>>) /\ Jobs(<<h>>) = {h}
  BY <1>2, OneOrderly, JobsOfOne, SlotFacts DEF Follows
<1>5. p \in Seq(Job) /\ Orderly(p) /\ \A a \in Jobs(p) : a.op = "cancel"
  BY <1>1, CancelsOrderly DEF Cancels
<1>6. /\ TriggerHalt \in Seq(Job) /\ Orderly(TriggerHalt)
      /\ Jobs(TriggerHalt) = Jobs(p) \union {h}
  BY <1>3, <1>4, <1>5, FollowsOrderly DEF Placing
<1>7. \A j \in Jobs(TriggerHalt) : j.op \in {"cancel", "halt"}
  BY <1>2, <1>5, <1>6
<1>8. Clears(TriggerHalt, Legs)
  BY <1>1, <1>6, <1>7, SlotFacts DEF Clears, Has, Removing, Placing
<1> QED
  BY <1>6, <1>7, <1>8 DEF Started, Has, Placing

\* A tick of several quotes cancels everything first, and keeps no static order.
LEMMA MultiStarts ==
  ASSUME NEW n \in [Sides -> 0..Levels]
  PROVE  Started(MultiJobs(n))
<1> DEFINE w == Reducing \/ \E s \in Allowed : n[s] > 0
           legs(s) == IF s \in Allowed
                      THEN [i \in 1..n[s] |-> Place(s, i, i = 1 /\ ~cooldown[s], FALSE)]
                      ELSE <<>>
           p == CancelOutstanding
           q == legs("BUY") \o legs("SELL")
           r == ManageStatic(w)
<1>1. MultiJobs(n) = (p \o q) \o r
  BY DEF MultiJobs, ForSides
<1>2. /\ Cancels(p)
      /\ \A s \in Sides, k \in Slots :
           k # Static /\ quote[s][k] # "none" => Has(p, {"cancel"}, s, k)
  BY OutstandingCancelled
<1>3. w \in BOOLEAN /\ \A s \in Allowed : s \in Sides /\ (n[s] > 0 => w)
  BY DEF Allowed
<1>4. /\ Follows(r)
      /\ \A j \in Jobs(r) :
           /\ j.slot = Static
           /\ IF w THEN j.op = "withdraw" ELSE j.op = "static"
      /\ w => \A s \in Sides : quote[s][Static] # "none" => Has(r, {"withdraw"}, s, Static)
  BY <1>3, StaticManaged
<1>5. ASSUME NEW s \in Sides
      PROVE  /\ Follows(legs(s))
             /\ \A j \in Jobs(legs(s)) : /\ j.op = "place" /\ j.side = s /\ j.slot \in Legs
                                         /\ s \in Allowed /\ w
  <2>1. CASE s \in Allowed
    <3> DEFINE l == [i \in 1..n[s] |-> Place(s, i, i = 1 /\ ~cooldown[s], FALSE)]
    <3>0. \A i \in 1..n[s] : i \in Slots
      BY LevelsAssumption DEF Slots, Legs
    <3>3. /\ l \in [1..n[s] -> Job] /\ n[s] \in 0..Levels
          /\ \A i \in 1..n[s] : l[i].op = "place" /\ l[i].side = s /\ l[i].slot = i
      <4>1. ASSUME NEW i \in 1..n[s]
            PROVE  /\ Place(s, i, i = 1 /\ ~cooldown[s], FALSE) \in Job
                   /\ Place(s, i, i = 1 /\ ~cooldown[s], FALSE).op = "place"
                   /\ Place(s, i, i = 1 /\ ~cooldown[s], FALSE).side = s
                   /\ Place(s, i, i = 1 /\ ~cooldown[s], FALSE).slot = i
        BY <3>0 DEF Place, Job
      <4> QED
        BY <4>1
    <3>2. legs(s) = l
      BY <2>1
    <3> HIDE DEF l, legs, w
    <3>1. /\ Follows(l)
          /\ \A j \in Jobs(l) : j.op = "place" /\ j.side = s /\ j.slot \in Legs /\ n[s] > 0
      BY <3>3, LegsPlaced
    <3> QED
      BY <1>3, <2>1, <3>1, <3>2
  <2>2. CASE s \notin Allowed
    BY <2>2, NoneFollows, JobsOfNone
  <2> QED
    BY <2>1, <2>2
<1> HIDE DEF w, legs, p, r
<1>6. "BUY" \in Sides /\ "SELL" \in Sides /\ \A s \in Sides : s = "BUY" \/ s = "SELL"
  BY DEF Sides
<1>7. Follows(q) /\ Jobs(q) = Jobs(legs("BUY")) \union Jobs(legs("SELL"))
  <2>1. \A a \in Jobs(legs("BUY")), b \in Jobs(legs("SELL")) : a.side # b.side
    BY <1>5, <1>6
  <2> QED
    BY <1>5, <1>6, <2>1, FollowsOrderly DEF Follows
<1>8. \A j \in Jobs(q) : j.op = "place" /\ j.slot \in Legs /\ j.side \in Allowed /\ w
  BY <1>5, <1>6, <1>7
<1> HIDE DEF q
<1>9. p \in Seq(Job) /\ Orderly(p) /\ \A a \in Jobs(p) : a.op = "cancel"
  BY <1>2, CancelsOrderly DEF Cancels
<1>10. /\ p \o q \in Seq(Job) /\ Orderly(p \o q)
       /\ Jobs(p \o q) = Jobs(p) \union Jobs(q)
  BY <1>7, <1>9, FollowsOrderly DEF Placing
<1>11. /\ (p \o q) \o r \in Seq(Job) /\ Orderly((p \o q) \o r)
       /\ Jobs((p \o q) \o r) = Jobs(p) \union Jobs(q) \union Jobs(r)
  <2> DEFINE pq == p \o q
  <2>1. \A a \in Jobs(pq), b \in Jobs(r) :
          a.op \in Placing /\ b.op \in Placing => a.side # b.side \/ a.slot # b.slot
    BY <1>4, <1>8, <1>9, <1>10, SlotFacts DEF Placing
  <2>2. pq \in Seq(Job) /\ Orderly(pq) /\ Jobs(pq) = Jobs(p) \union Jobs(q)
    BY <1>10
  <2> HIDE DEF pq
  <2>3. /\ pq \o r \in Seq(Job) /\ Orderly(pq \o r)
        /\ Jobs(pq \o r) = Jobs(pq) \union Jobs(r)
    BY <1>4, <2>1, <2>2, FollowsOrderly
  <2> QED
    BY <2>2, <2>3 DEF pq
<1> DEFINE t == (p \o q) \o r
<1>12. t \in Seq(Job) /\ Orderly(t) /\ Jobs(t) = Jobs(p) \union Jobs(q) \union Jobs(r)
  BY <1>11
<1> HIDE DEF t
<1>13. \A j \in Jobs(t) : j.op # "submit"
  BY <1>4, <1>8, <1>9, <1>12
<1>14. \A s \in Sides, k \in Slots :
         k # Static /\ quote[s][k] # "none" => Has(t, {"cancel"}, s, k)
  BY <1>2, <1>12 DEF Has
<1>15. \A s \in Sides, k \in Slots : Has(t, {"place"}, s, k) => k # Static
  BY <1>4, <1>8, <1>9, <1>12, SlotFacts DEF Has
<1>16. Clears(t, Legs) \/ Clears(t, {Static, Last})
  <2>1. CASE w
    <3>1. \A s \in Sides, k \in {Static, Last} : ~Has(t, Placing, s, k)
      BY <1>4, <1>8, <1>9, <1>12, <2>1, SlotFacts DEF Has, Placing
    <3>2. \A s \in Sides : quote[s][Static] # "none" => Has(t, {"withdraw"}, s, Static)
      BY <1>4, <1>12, <2>1 DEF Has
    <3> QED
      BY <1>14, <3>1, <3>2, SlotFacts DEF Clears, Has, Removing
  <2>2. CASE ~w
    <3>1. \A s \in Sides, k \in Legs : ~Has(t, Placing, s, k)
      BY <1>4, <1>8, <1>9, <1>12, <2>2, SlotFacts DEF Has, Placing
    <3> QED
      BY <1>14, <3>1, SlotFacts DEF Clears, Has, Removing
  <2> QED
    BY <2>1, <2>2
<1>17. \A s \in Sides : Reducing /\ Opens(s, inv) =>
         \A j \in Jobs(t) : j.op \in Placing => j.side # s
  <2>1. Reducing => w
    BY DEF w
  <2>2. \A s \in Sides : Reducing /\ Opens(s, inv) => s \notin Allowed
    BY DEF Allowed
  <2> QED
    BY <1>4, <1>8, <1>9, <1>12, <2>1, <2>2 DEF Placing
<1> QED
  BY <1>1, <1>12, <1>13, <1>14, <1>15, <1>16, <1>17 DEF Started, t

\* A tick of single quotes cancels all legs and every quote it replaces.
LEMMA SingleStarts ==
  ASSUME inv \in Int, NEW keep \in SUBSET Sides
  PROVE  Started(SingleJobs(keep))
<1> DEFINE send == Allowed \ keep
           place(s) == IF s \in send
                       THEN <<Place(s, Last, ~cooldown[s], Reducing)>> ELSE <<>>
           reducer == CHOOSE s \in Sides : Reduces(s, inv)
           A == ForSides(CancelLegs)
           B == CancelLast(Sides \ keep)
           M == IF Reducing THEN <<Call("market", reducer, Last)>> ELSE <<>>
           P == place("BUY") \o place("SELL")
           S == ManageStatic(Reducing)
<1>1. SingleJobs(keep) = (((A \o B) \o M) \o P) \o S
  BY DEF SingleJobs, ForSides
<1>2. /\ Cancels(A)
      /\ \A s \in Sides, k \in Legs : quote[s][k] # "none" => Has(A, {"cancel"}, s, k)
  BY AllLegsCancelled
<1>3. /\ Cancels(B)
      /\ \A s \in Sides \ keep : quote[s][Last] # "none" => Has(B, {"cancel"}, s, Last)
  BY LastCancelled
<1>4. Follows(M) /\ \A j \in Jobs(M) : j.op = "market"
  <2>1. CASE Reducing
    <3>1. \E s \in Sides : Reduces(s, inv)
      BY <2>1, ThresholdAssumption DEF Reducing, Abs, Reduces, Sides, Sign
    <3>2. reducer \in Sides
      BY <3>1
    <3> DEFINE m == Call("market", reducer, Last)
    <3> HIDE DEF reducer
    <3>3. m \in Job /\ m.op = "market" /\ m.slot = Last
      BY <3>2, CallIsJob, SlotFacts
    <3>4. M = <<m>>
      BY <2>1
    <3> HIDE DEF m, M
    <3>5. Follows(<<m>>) /\ Jobs(<<m>>) = {m}
      BY <3>3, OneOrderly, JobsOfOne, SlotFacts DEF Follows
    <3> QED
      BY <3>3, <3>4, <3>5
  <2>2. CASE ~Reducing
    BY <2>2, NoneFollows, JobsOfNone
  <2> QED
    BY <2>1, <2>2
<1>5. ASSUME NEW s \in Sides
      PROVE  /\ Follows(place(s))
             /\ \A j \in Jobs(place(s)) :
                  /\ j.op = "place" /\ j.side = s /\ j.slot = Last
                  /\ s \in Allowed /\ s \notin keep
  <2>1. CASE s \in send
    <3> DEFINE e == Place(s, Last, ~cooldown[s], Reducing)
    <3>1. e \in Job /\ e.op = "place" /\ e.side = s /\ e.slot = Last
      BY SlotFacts DEF Place, Job, Reducing
    <3>2. place(s) = <<e>> /\ s \in Allowed /\ s \notin keep
      BY <2>1
    <3> HIDE DEF e, place
    <3>3. Follows(<<e>>) /\ Jobs(<<e>>) = {e}
      BY <3>1, OneOrderly, JobsOfOne, SlotFacts DEF Follows
    <3> QED
      BY <3>1, <3>2, <3>3
  <2>2. CASE s \notin send
    BY <2>2, NoneFollows, JobsOfNone
  <2> QED
    BY <2>1, <2>2
<1>6. Reducing \in BOOLEAN
  BY DEF Reducing
<1>7. /\ Follows(S)
      /\ \A j \in Jobs(S) :
           /\ j.slot = Static
           /\ IF Reducing THEN j.op = "withdraw" ELSE j.op = "static"
  BY <1>6, StaticManaged
<1> HIDE DEF A, B, M, S, place, send, reducer
<1>8. "BUY" \in Sides /\ "SELL" \in Sides /\ \A s \in Sides : s = "BUY" \/ s = "SELL"
  BY DEF Sides
<1>9. Follows(P) /\ Jobs(P) = Jobs(place("BUY")) \union Jobs(place("SELL"))
  <2>1. \A a \in Jobs(place("BUY")), b \in Jobs(place("SELL")) : a.side # b.side
    BY <1>5, <1>8
  <2> QED
    BY <1>5, <1>8, <2>1, FollowsOrderly DEF Follows
<1>10. \A j \in Jobs(P) : /\ j.op = "place" /\ j.slot = Last
                          /\ j.side \in Allowed /\ j.side \notin keep
  BY <1>5, <1>8, <1>9
<1> HIDE DEF P
<1> DEFINE AB == A \o B
           ABM == AB \o M
           ABMP == ABM \o P
           t == ABMP \o S
<1>11. Cancels(AB) /\ Jobs(AB) = Jobs(A) \union Jobs(B)
  BY <1>2, <1>3, BothCancel
<1>12. AB \in Seq(Job) /\ Orderly(AB) /\ \A j \in Jobs(AB) : j.op = "cancel"
  BY <1>11, CancelsOrderly DEF Cancels
<1> HIDE DEF AB
<1>13. /\ ABM \in Seq(Job) /\ Orderly(ABM)
       /\ Jobs(ABM) = Jobs(AB) \union Jobs(M)
  BY <1>4, <1>12, FollowsOrderly DEF Placing
<1>14. \A j \in Jobs(ABM) : j.op \in {"cancel", "market"}
  BY <1>4, <1>12, <1>13
<1> HIDE DEF ABM
<1>15. /\ ABMP \in Seq(Job) /\ Orderly(ABMP)
       /\ Jobs(ABMP) = Jobs(ABM) \union Jobs(P)
  BY <1>9, <1>13, <1>14, FollowsOrderly DEF Placing
<1>16. \A a \in Jobs(ABMP), b \in Jobs(S) :
         a.op \in Placing /\ b.op \in Placing => a.side # b.side \/ a.slot # b.slot
  BY <1>7, <1>10, <1>14, <1>15, SlotFacts DEF Placing
<1> HIDE DEF ABMP
<1>17. /\ t \in Seq(Job) /\ Orderly(t)
       /\ Jobs(t) = Jobs(ABMP) \union Jobs(S)
  BY <1>7, <1>15, <1>16, FollowsOrderly
<1> HIDE DEF t
<1>18. Jobs(t) = Jobs(A) \union Jobs(B) \union Jobs(M) \union Jobs(P) \union Jobs(S)
  BY <1>11, <1>13, <1>15, <1>17
<1>19. \A j \in Jobs(A) \union Jobs(B) : j.op = "cancel"
  BY <1>2, <1>3 DEF Cancels
<1>20. \A j \in Jobs(t) : j.op # "submit"
  BY <1>4, <1>7, <1>10, <1>18, <1>19
<1>21. ASSUME NEW s \in Sides, NEW k \in Slots, Has(t, {"place"}, s, k),
              quote[s][k] # "none"
       PROVE  Has(t, {"cancel"}, s, k)
  <2>1. k = Last /\ s \notin keep
    BY <1>4, <1>7, <1>10, <1>18, <1>19, <1>21 DEF Has
  <2>2. Has(B, {"cancel"}, s, k)
    BY <1>3, <1>21, <2>1
  <2> QED
    BY <1>18, <2>2 DEF Has
<1>22. Clears(t, Legs)
  <2>1. \A s \in Sides, k \in Legs : ~Has(t, Placing, s, k)
    BY <1>4, <1>7, <1>10, <1>18, <1>19, SlotFacts DEF Has, Placing
  <2>2. \A s \in Sides, k \in Legs : quote[s][k] # "none" => Has(t, Removing, s, k)
    BY <1>2, <1>18 DEF Has, Removing
  <2> QED
    BY <2>1, <2>2 DEF Clears
<1>23. \A s \in Sides : Reducing /\ Opens(s, inv) =>
         \A j \in Jobs(t) : j.op \in Placing => j.side # s
  <2>1. \A s \in Sides : Reducing /\ Opens(s, inv) => s \notin Allowed
    BY DEF Allowed
  <2> QED
    BY <1>4, <1>7, <1>10, <1>18, <1>19, <2>1 DEF Placing
<1> QED
  BY <1>1, <1>17, <1>20, <1>21, <1>22, <1>23 DEF Started, t, ABMP, ABM, AB

-----------------------------------------------------------------------------
(* What the start of a tick does to the invariant. *)

\* Between ticks, what stands on a side stands on its legs or on its two other places.
LEMMA FewStand ==
  ASSUME todo = <<>>, Exclusive, NEW s \in Sides
  PROVE  Cardinality(Standing(s)) <= Most
<1>1. \A t \in Sides, k \in Slots : quote[t][k] # "none" => Stays(t, k)
  BY JobsOfNone DEF Stays, Has
<1>2. Standing(s) \subseteq Legs \/ Standing(s) \subseteq {Static, Last}
  <2>1. \A k \in Legs, m \in {Static, Last} :
          ~(quote[s][k] = "live" /\ quote[s][m] = "live")
    BY <1>1, SlotFacts DEF Exclusive
  <2> QED
    BY <2>1, SlotFacts DEF Standing
<1> QED
  BY <1>2, FewPlaces DEF Standing

\* A side that may be quoted is not yet at the limit, but for what was not told.
LEMMA SignedLimit ==
  ASSUME NEW s \in Sides, net \in Int, inv \in Int, lag \in Nat, Told,
         ~(Reducing /\ Opens(s, inv))
  PROVE  Sign(s) * net \in Int /\ Sign(s) * net <= Threshold - 1 + lag
<1>1. CASE s = "BUY"
  <2>1. Sign(s) * net = net /\ (Opens(s, inv) <=> inv > 0)
    BY <1>1 DEF Sign, Opens
  <2> QED
    BY <2>1, ThresholdAssumption DEF Told, Abs, Reducing
<1>2. CASE s = "SELL"
  <2>1. Sign(s) * net = -net /\ (Opens(s, inv) <=> inv < 0)
    BY <1>2 DEF Sign, Opens
  <2> QED
    BY <2>1, ThresholdAssumption DEF Told, Abs, Reducing
<1> QED
  BY <1>1, <1>2 DEF Sides

\* A tick whose list is such a one starts with the invariant.
LEMMA StartKeeps ==
  ASSUME TypeOK, todo = <<>>, Exclusive, NoneForgotten, Told, Bounded,
         UNCHANGED <<quote, orphans, net, inv, lag, mishaps>>, Started(todo')
  PROVE  Orderly(todo') /\ Exclusive' /\ Emptied' /\ NoneForgotten' /\ Told' /\ Bounded'
<1>0. /\ net \in Int /\ inv \in Int /\ lag \in 0..MaxLag /\ lag \in Nat /\ mishaps \in Nat
      /\ orphans \in [Sides -> Nat]
  BY BoundsAssumption DEF TypeOK
<1>1. Clears(todo', Legs) \/ Clears(todo', {Static, Last})
  BY DEF Started
<1>2. Exclusive'
  <2> SUFFICES ASSUME NEW s \in Sides, NEW t \in Sides, NEW k \in Legs,
                      NEW m \in {Static, Last}, Stays(s, k)', Stays(t, m)'
               PROVE  FALSE
    BY DEF Exclusive
  <2>1. CASE Clears(todo', Legs)
    BY <2>1 DEF Clears, Stays
  <2>2. CASE Clears(todo', {Static, Last})
    BY <2>2 DEF Clears, Stays
  <2> QED
    BY <1>1, <2>1, <2>2
<1>3. Emptied'
  BY DEF Emptied, Started, Has
<1>4. NoneForgotten' /\ Told'
  BY DEF NoneForgotten, Told
<1>5. ASSUME NEW s \in Sides
      PROVE  /\ Pending(s)' <= 2 * Most
             /\ Sign(s) * net' + Pending(s)' + orphans'[s]
                  <= Threshold - 1 + 2 * Most + MaxLag + mishaps'
  <2> DEFINE n == Cardinality(Standing(s))
             c == Cardinality(Coming(s)')
  <2>1. n \in Nat /\ n <= Most
    BY FewStand, PendingType
  <2>2. Coming(s)' \subseteq Legs \/ Coming(s)' \subseteq {Static, Last}
    BY <1>1, SlotFacts DEF Clears, Coming
  <2>3. c \in Nat /\ c <= Most
    BY <2>2, FewPlaces
  <2>4. Pending(s)' = n + c
    <3>1. Standing(s)' = Standing(s)
      BY DEF Standing
    <3> QED
      BY <3>1 DEF Pending
  <2>5. Most \in Nat /\ MaxLag \in Nat /\ Threshold \in Nat /\ Threshold >= 1
    BY MostIs, BoundsAssumption, ThresholdAssumption
  <2> HIDE DEF n, c
  <2>6. Pending(s)' <= 2 * Most
    BY <2>1, <2>3, <2>4, <2>5
  <2>7. CASE Reducing /\ Opens(s, inv)
    <3>1. Coming(s)' = {}
      BY <2>7 DEF Started, Coming, Has
    <3>2. c = 0
      BY <3>1, FS_EmptySet DEF c
    <3>3. Pending(s) = Cardinality(Standing(s)) + Cardinality(Coming(s))
          /\ Cardinality(Coming(s)) \in Nat
      BY PendingType DEF Pending
    <3>4. Pending(s)' = n /\ Pending(s)' <= Pending(s) /\ Pending(s) \in Nat
      BY <2>1, <2>4, <3>2, <3>3 DEF n
    <3>5. Sign(s) * net + Pending(s) + orphans[s]
            <= Threshold - 1 + 2 * Most + MaxLag + mishaps
      BY DEF Bounded
    <3>6. Sign(s) * net \in Int /\ Sign(s) * net' = Sign(s) * net
      BY <1>0, Signed
    <3> DEFINE a == Sign(s) * net
               M == 2 * Most
    <3>7. a \in Int /\ M \in Nat /\ a + Pending(s) + orphans[s]
            <= Threshold - 1 + M + MaxLag + mishaps
      BY <2>5, <3>5, <3>6
    <3>8. orphans[s] \in Nat /\ orphans'[s] = orphans[s] /\ mishaps' = mishaps
      BY <1>0
    <3> HIDE DEF a, M
    <3>9. a + Pending(s)' + orphans'[s] <= Threshold - 1 + M + MaxLag + mishaps'
      BY <1>0, <2>1, <2>5, <3>4, <3>7, <3>8
    <3> QED
      BY <2>6, <3>6, <3>9 DEF a, M
  <2>8. CASE ~(Reducing /\ Opens(s, inv))
    <3> DEFINE a == Sign(s) * net
               M == 2 * Most
    <3>1. a \in Int /\ a <= Threshold - 1 + lag /\ Sign(s) * net' = a
      BY <1>0, <2>8, SignedLimit
    <3>2. orphans'[s] \in Nat /\ orphans'[s] <= mishaps'
      BY <1>0 DEF NoneForgotten, Sides
    <3>3. M \in Nat /\ Pending(s)' \in Nat /\ Pending(s)' <= M
      BY <2>1, <2>3, <2>4, <2>5, <2>6
    <3> HIDE DEF a, M
    <3>4. a + Pending(s)' + orphans'[s] <= Threshold - 1 + M + MaxLag + mishaps'
      BY <1>0, <2>5, <3>1, <3>2, <3>3
    <3> QED
      BY <2>6, <3>1, <3>4 DEF M
  <2> QED
    BY <2>7, <2>8
<1> QED
  BY <1>2, <1>3, <1>4, <1>5 DEF Bounded, Started

-----------------------------------------------------------------------------
(* The theorems. *)

\* Beside what is claimed: what the calls still to be made owe to each place, and how far
\* the inventory is behind.
Inductive ==
  TypeOK /\ Orderly(todo) /\ Exclusive /\ Emptied /\ NoneForgotten /\ Told /\ Bounded

\* At the start there is no order and no call.
LEMMA InitInductive == Init => Inductive
<1> SUFFICES ASSUME Init PROVE Inductive
  OBVIOUS
<1>1. /\ quote = [s \in Sides |-> [k \in Slots |-> "none"]]
      /\ orphans = [s \in Sides |-> 0] /\ todo = <<>>
      /\ net = 0 /\ inv = 0 /\ lag = 0 /\ mishaps = 0
  BY DEF Init
<1>2. TypeOK
  <2>1. todo \in Seq(Job)
    BY <1>1, NoneOrderly
  <2>2. /\ quote \in [Sides -> [Slots -> {"none", "live", "over"}]]
        /\ orphans \in [Sides -> Nat]
    BY <1>1
  <2>3. net \in Int /\ inv \in Int /\ lag \in 0..MaxLag /\ mishaps \in 0..MaxMishaps
    BY <1>1, BoundsAssumption
  <2> QED
    BY <2>1, <2>2, <2>3 DEF Init, TypeOK
<1>3. Orderly(todo)
  BY <1>1, NoneOrderly
<1>4. \A s \in Sides, k \in Slots : ~Stays(s, k) /\ quote[s][k] = "none"
  BY <1>1, JobsOfNone DEF Stays, Has
<1>5. Exclusive /\ Emptied
  BY <1>4, SlotFacts DEF Exclusive, Emptied
<1>6. NoneForgotten /\ Told
  BY <1>1 DEF NoneForgotten, Told, Abs, Sides
<1>7. Bounded
  <2> SUFFICES ASSUME NEW s \in Sides
               PROVE  /\ Pending(s) <= 2 * Most
                      /\ Sign(s) * net + Pending(s) + orphans[s]
                           <= Threshold - 1 + 2 * Most + MaxLag + mishaps
    BY DEF Bounded
  <2>1. Standing(s) = {} /\ Coming(s) = {}
    BY <1>1, <1>4, JobsOfNone DEF Standing, Coming, Has
  <2>2. Pending(s) = 0
    BY <2>1, FS_EmptySet DEF Pending
  <2>3. Sign(s) * net = 0 /\ orphans[s] = 0
    BY <1>1, Signed
  <2> QED
    BY <1>1, <2>2, <2>3, MostIs, BoundsAssumption, ThresholdAssumption
<1> QED
  BY <1>2, <1>3, <1>5, <1>6, <1>7 DEF Inductive

\* The start of a tick: its list, if it makes one, is one that starts.
LEMMA TickKeeps ==
  ASSUME Inductive, NEW m \in Prices, TickHalts(m) \/ TickSkipped(m) \/ TickQuotes(m)
  PROVE  Inductive'
<1>0. /\ TypeOK /\ Orderly(todo) /\ Exclusive /\ Emptied /\ NoneForgotten /\ Told /\ Bounded
      /\ inv \in Int /\ net \in Int /\ OrphansType /\ mishaps \in Nat
  BY BoundsAssumption DEF Inductive, TypeOK, OrphansType
<1>1. /\ todo = <<>> /\ haltUntil' = "zero" /\ lastMid' = m
      /\ UNCHANGED <<quote, orphans, cooldown, market, mishaps>>
  BY DEF TickHalts, TickSkipped, TickQuotes, Enter
<1>2. ASSUME todo' \in Seq(Job), prevMid' \in Prices \union {0},
             riskState' \in {"normal", "reduce_only", "halted"}, cooling' \in BOOLEAN
      PROVE  TypeOK'
  BY <1>0, <1>1, <1>2 DEF TypeOK, market
<1>3. ASSUME Started(todo')
      PROVE  /\ todo' \in Seq(Job)
             /\ Orderly(todo') /\ Exclusive' /\ Emptied' /\ NoneForgotten' /\ Told' /\ Bounded'
  <2>1. UNCHANGED <<quote, orphans, net, inv, lag, mishaps>>
    BY <1>1 DEF market
  <2> QED
    BY <1>0, <1>1, <1>3, <2>1, StartKeeps DEF Started
<1>4. CASE TickHalts(m)
  <2>1. Started(todo')
    BY <1>4, HaltStarts DEF TickHalts
  <2>2. TypeOK'
    BY <1>0, <1>2, <1>3, <1>4, <2>1 DEF TickHalts, TypeOK, Resumed
  <2> QED
    BY <1>3, <2>1, <2>2 DEF Inductive
<1>5. CASE TickSkipped(m)
  <2>1. todo' = todo /\ TypeOK'
    BY <1>0, <1>2, <1>5 DEF TickSkipped, TypeOK, Resumed
  <2>2. Told'
    BY <1>0, <1>1 DEF Told, market
  <2>3. UNCHANGED <<quote, orphans, todo, net, mishaps>>
    BY <1>1, <2>1 DEF market
  <2>4. Exclusive' /\ Emptied' /\ NoneForgotten' /\ Bounded'
    BY <1>0, <2>2, <2>3, Unmoved
  <2> QED
    BY <1>0, <2>1, <2>2, <2>4 DEF Inductive
<1>6. CASE TickQuotes(m)
  <2>1. Started(todo')
    <3>1. CASE \E keep \in SUBSET MayStay : todo' = SingleJobs(keep)
      <4>1. \A keep \in SUBSET MayStay : keep \in SUBSET Sides
        BY DEF MayStay, Allowed
      <4> QED
        BY <1>0, <3>1, <4>1, SingleStarts
    <3>2. CASE \E n \in [Sides -> 0..Levels] : todo' = MultiJobs(n)
      BY <3>2, MultiStarts
    <3> QED
      BY <1>6, <3>1, <3>2 DEF TickQuotes
  <2>2. prevMid' = m /\ cooling' \in BOOLEAN /\ riskState' \in {"normal", "reduce_only"}
    BY <1>0, <1>6 DEF TickQuotes, TypeOK, Leaving
  <2>3. TypeOK'
    BY <1>2, <1>3, <2>1, <2>2
  <2> QED
    BY <1>3, <2>1, <2>3 DEF Inductive
<1> QED
  BY <1>4, <1>5, <1>6

\* Each call of a tick.
LEMMA StepKeeps == ASSUME Inductive, Step PROVE Inductive'
<1>0. /\ TypeOK /\ Orderly(todo) /\ Exclusive /\ Emptied /\ NoneForgotten /\ Told /\ Bounded
      /\ todo \in Seq(Job) /\ net \in Int /\ OrphansType /\ mishaps \in Nat
  BY BoundsAssumption DEF Inductive, TypeOK, OrphansType
<1>1. todo # <<>> /\ ListCalled /\ PlaceCalled
  BY <1>0, CallIs
<1>2. TypeOK' /\ OrphansType' /\ mishaps' \in Nat
  <2>1. TypeOK'
    BY <1>0, CallTypes
  <2> QED
    BY <2>1, BoundsAssumption DEF TypeOK, OrphansType
<1>3. Orderly(todo')
  BY <1>0, <1>1, LeftHas DEF ListCalled
<1>4. Exclusive' /\ Emptied'
  BY <1>0, <1>1, CallKeepsExclusive, CallKeepsEmptied
<1>5. CallSettles /\ Told'
  BY <1>0, CallIsSettled DEF CallSettles
<1>6. \A s \in Sides : Pending(s)' \in Nat /\ Pending(s)' <= Pending(s)
  BY <1>0, <1>1, CallKeepsPending
<1>7. NoneForgotten' /\ Bounded'
  BY <1>0, <1>2, <1>5, <1>6, SettledKeeps
<1> QED
  BY <1>2, <1>3, <1>4, <1>5, <1>7 DEF Inductive

\* Every step keeps the invariant.
LEMMA NextInductive == Inductive /\ [Next]_vars => Inductive'
<1> SUFFICES ASSUME Inductive, [Next]_vars PROVE Inductive'
  OBVIOUS
<1>1. CASE Outside
  BY <1>1, OutsideKeeps DEF Inductive
<1>2. CASE UNCHANGED vars
  <2>1. UNCHANGED <<quote, orphans, todo, net, inv, lag, mishaps>>
    BY <1>2 DEF vars, market
  <2>2. Told' /\ TypeOK' /\ Orderly(todo')
    BY <1>2 DEF Inductive, Told, TypeOK, vars, market, control
  <2>3. net \in Int /\ OrphansType /\ mishaps \in Nat
    BY BoundsAssumption DEF Inductive, TypeOK, OrphansType
  <2> QED
    BY <2>1, <2>2, <2>3, Unmoved DEF Inductive
<1> QED
  BY <1>1, <1>2, TickKeeps, StepKeeps DEF Next, Outside

\* Every variable of the Runner keeps its type: whatever a call does to the list of calls
\* that follow, what is left are calls, and mishaps and unseen fills stay within their bounds.
THEOREM RunnerKeepsTypes == Spec => []TypeOK
<1>1. Inductive => TypeOK
  BY DEF Inductive
<1> QED
  BY InitInductive, NextInductive, <1>1, PTL DEF Spec

\* Without a mishap (a failed cancel, a lost reply, a suppressed cancel) the Runner loses the
\* id of no order that is live: it cancels the order of a place before it sends another.
THEOREM RunnerForgetsNone == Spec => []NoneForgotten
<1>1. Inductive => NoneForgotten
  BY DEF Inductive
<1> QED
  BY InitInductive, NextInductive, <1>1, PTL DEF Spec

\* Between two ticks, legs stand beside neither a single quote nor a static order, whatever
\* calls were refused or unanswered when the mode last changed, on whichever side.
THEOREM RunnerModesExclude == Spec => []ModesExclude
<1>1. Inductive => ModesExclude
  <2> SUFFICES ASSUME Inductive, todo = <<>>, NEW s \in Sides, NEW t \in Sides,
                      NEW k \in Legs, quote[s][k] # "none"
               PROVE  quote[t][Last] = "none" /\ quote[t][Static] = "none"
    BY DEF ModesExclude
  <2>1. \A u \in Sides, j \in Slots : quote[u][j] # "none" => Stays(u, j)
    BY JobsOfNone DEF Stays, Has
  <2> QED
    BY <2>1, SlotFacts DEF Inductive, Exclusive
<1> QED
  BY InitInductive, NextInductive, <1>1, PTL DEF Spec

\* However fills, refusals and late account updates fall between the calls of a tick, the
\* position exceeds the reduce-only limit by no more than the orders that can be pending,
\* the fills not told of, and the mishaps.
THEOREM RunnerPositionBounded == Spec => []PositionBounded
<1>1. Inductive => PositionBounded
  <2> SUFFICES ASSUME Inductive PROVE PositionBounded
    OBVIOUS
  <2>1. /\ net \in Int /\ mishaps \in Nat
        /\ orphans["BUY"] \in Nat /\ orphans["SELL"] \in Nat
    BY BoundsAssumption DEF Inductive, TypeOK, Sides
  <2>2. /\ Pending("BUY") \in Nat /\ Pending("SELL") \in Nat
        /\ Sign("BUY") * net = net /\ Sign("SELL") * net = -net
    BY <2>1, PendingType, Signed DEF Sides, Sign
  <2>3. /\ net + Pending("BUY") + orphans["BUY"]
             <= Threshold - 1 + 2 * Most + MaxLag + mishaps
        /\ -net + Pending("SELL") + orphans["SELL"]
             <= Threshold - 1 + 2 * Most + MaxLag + mishaps
    BY <2>2 DEF Inductive, Bounded, Sides
  <2> DEFINE M == 2 * Most
  <2>4. M \in Nat /\ Threshold \in Nat /\ MaxLag \in Nat
    BY MostIs, ThresholdAssumption, BoundsAssumption
  <2> HIDE DEF M
  <2>5. /\ net <= Threshold - 1 + M + MaxLag + mishaps
        /\ -net <= Threshold - 1 + M + MaxLag + mishaps
    <3>1. /\ net + Pending("BUY") + orphans["BUY"] <= Threshold - 1 + M + MaxLag + mishaps
          /\ -net + Pending("SELL") + orphans["SELL"]
               <= Threshold - 1 + M + MaxLag + mishaps
      BY <2>3 DEF M
    <3> QED
      BY <2>1, <2>2, <2>4, <3>1
  <2>6. Abs(net) <= Threshold - 1 + M + MaxLag + mishaps
    BY <2>1, <2>4, <2>5 DEF Abs
  <2> QED
    BY <2>6 DEF PositionBounded, M, Most
<1> QED
  BY InitInductive, NextInductive, <1>1, PTL DEF Spec
=============================================================================
