--------------------------- MODULE Timeouts_proofs ---------------------------
(***************************************************************************)
(* Theorems about the clock and the list of timeouts, for every width of   *)
(* the clock, any timers and connections, and every lateness of the main   *)
(* loop that the clock's range admits.                                     *)
(*                                                                         *)
(* A time is seen from the present: Signed(s, t) tells how far t lies      *)
(* ahead of s, negative when it has passed. All times of the list lie in a *)
(* window of less than half the range, so that TIME_LESS_THAN orders them  *)
(* as these numbers do.                                                    *)
(***************************************************************************)
EXTENDS Timeouts, SequenceTheorems, WellFoundedInduction, TLAPS

-----------------------------------------------------------------------------
\* The clock.

Clk == 0 .. TimeMod - 1

Signed(s, t) ==
    IF t - s > LWIP_MAX_TIMEOUT THEN t - s - TimeMod
    ELSE IF t - s < - LWIP_MAX_TIMEOUT - 1 THEN t - s + TimeMod
    ELSE t - s

LEMMA Clock ==
    /\ TimeMod \in Nat /\ TimeMod > 0 /\ LWIP_MAX_TIMEOUT \in Int /\ LWIP_MAX_TIMEOUT < TimeMod
    /\ \A t \in 0 .. TimeMod - 1, n \in 0 .. TimeMod - 1 :
           Plus(t, n) = (IF t + n < TimeMod THEN t + n ELSE t + n - TimeMod)
<1>1. TimeMod \in Nat /\ TimeMod > 0 /\ LWIP_MAX_TIMEOUT \in Int /\ LWIP_MAX_TIMEOUT < TimeMod
    BY TimeoutsAssumption DEF LWIP_MAX_TIMEOUT
<1>2. ASSUME NEW t \in 0 .. TimeMod - 1, NEW n \in 0 .. TimeMod - 1
      PROVE  Plus(t, n) = (IF t + n < TimeMod THEN t + n ELSE t + n - TimeMod)
    <2>1. CASE t + n < TimeMod
        <3>1. (t + n) % TimeMod = t + n
            BY <1>1, <2>1
        <3> QED BY <2>1, <3>1 DEF Plus
    <2>2. CASE t + n >= TimeMod
        <3>1. (t + n) % TimeMod = t + n - TimeMod
            BY <1>1, <2>2
        <3> QED BY <1>1, <2>2, <3>1 DEF Plus
    <2> QED BY <1>1, <2>1, <2>2
<1> QED BY <1>1, <1>2

LEMMA Half == LWIP_MAX_TIMEOUT \in Nat /\ TimeMod = 2 * LWIP_MAX_TIMEOUT + 2
BY TimeoutsAssumption DEF LWIP_MAX_TIMEOUT

LEMMA PlusType == ASSUME NEW t \in Clk, NEW n \in Clk PROVE Plus(t, n) \in Clk
BY Clock DEF Clk

\* A remainder of a difference of two times.
LEMMA DifferenceMod ==
    ASSUME NEW t \in Clk, NEW u \in Clk
    PROVE  (t - u) % TimeMod = IF t >= u THEN t - u ELSE t - u + TimeMod
<1>1. TimeMod \in Nat /\ TimeMod > 0 /\ t \in Int /\ u \in Int
    BY Clock DEF Clk
<1>2. CASE t >= u
    BY <1>1, <1>2 DEF Clk
<1>3. CASE t < u
    BY <1>1, <1>3 DEF Clk
<1> QED BY <1>1, <1>2, <1>3

LEMMA SignedRange ==
    ASSUME NEW s \in Clk, NEW t \in Clk
    PROVE  Signed(s, t) \in - LWIP_MAX_TIMEOUT - 1 .. LWIP_MAX_TIMEOUT
BY Half DEF Clk, Signed

\* A time n ticks after t lies n further ahead.
LEMMA SignedAdd ==
    ASSUME NEW s \in Clk, NEW t \in Clk, NEW n \in 0 .. LWIP_MAX_TIMEOUT,
           Signed(s, t) + n <= LWIP_MAX_TIMEOUT
    PROVE  Plus(t, n) \in Clk /\ Signed(s, Plus(t, n)) = Signed(s, t) + n
<1>1. n \in 0 .. TimeMod - 1
    BY Half
<1>2. Plus(t, n) = (IF t + n < TimeMod THEN t + n ELSE t + n - TimeMod)
    BY <1>1, Clock DEF Clk
<1> QED BY <1>2, Half DEF Clk, Signed

LEMMA SignedNow ==
    ASSUME NEW s \in Clk
    PROVE  /\ Signed(s, s) = 0
           /\ \A n \in 0 .. LWIP_MAX_TIMEOUT : Plus(s, n) \in Clk /\ Signed(s, Plus(s, n)) = n
<1>1. Signed(s, s) = 0
    BY Half DEF Clk, Signed
<1> QED BY <1>1, SignedAdd, Half

\* A tick brings every time one nearer.
LEMMA SignedTick ==
    ASSUME NEW s \in Clk, NEW t \in Clk, Signed(s, t) > - LWIP_MAX_TIMEOUT - 1
    PROVE  Plus(s, 1) \in Clk /\ Signed(Plus(s, 1), t) = Signed(s, t) - 1
<1>1. 1 \in 0 .. TimeMod - 1
    BY Half
<1>2. Plus(s, 1) = (IF s + 1 < TimeMod THEN s + 1 ELSE s + 1 - TimeMod)
    BY <1>1, Clock DEF Clk
<1> QED BY <1>2, Half DEF Clk, Signed

\* TIME_LESS_THAN orders times in a window as they lie ahead.
LEMMA BeforeSigned ==
    ASSUME NEW s \in Clk, NEW t \in Clk, NEW u \in Clk,
           Signed(s, t) - Signed(s, u) \in - LWIP_MAX_TIMEOUT .. LWIP_MAX_TIMEOUT
    PROVE  Before(t, u) <=> Signed(s, t) < Signed(s, u)
<1>1. (t - u) % TimeMod = IF t >= u THEN t - u ELSE t - u + TimeMod
    BY DifferenceMod
<1>2. Before(t, u) <=> (IF t >= u THEN t - u ELSE t - u + TimeMod) > LWIP_MAX_TIMEOUT
    BY <1>1 DEF Before
<1> QED BY <1>2, Half DEF Clk, Signed

-----------------------------------------------------------------------------
\* The list.

Entries == [h : Timers, time : Clk]

LEMMA LeastNat ==
    ASSUME NEW T \in SUBSET Nat, T # {}
    PROVE  \E x \in T : \A y \in T : x <= y
<1> DEFINE R == OpToRel(<, Nat)
<1>1. IsWellFoundedOn(R, Nat)
    BY NatLessThanWellFounded
<1>2. \A y, x \in Nat : <<y, x>> \in R <=> y < x
    BY DEF OpToRel
<1> HIDE DEF R
<1>3. PICK x \in T : \A y \in T : ~ (<<y, x>> \in R)
    BY <1>1, WFMin
<1>4. x \in Nat /\ \A y \in T : y \in Nat /\ ~(y < x)
    BY <1>2, <1>3
<1> QED BY <1>4

\* What InsertAt gives, element by element.
LEMMA InsertAtIs ==
    ASSUME NEW S, NEW list \in Seq(S), NEW e \in S, NEW at \in 1 .. Len(list) + 1
    PROVE  LET new == InsertAt(list, at, e)
           IN  /\ new \in Seq(S) /\ Len(new) = Len(list) + 1
               /\ \A i \in 1 .. Len(new) :
                     new[i] = IF i < at THEN list[i] ELSE IF i = at THEN e ELSE list[i - 1]
<1> DEFINE a == SubSeq(list, 1, at - 1)
           b == SubSeq(list, at, Len(list))
<1>1. /\ a \in Seq(S) /\ Len(a) = at - 1
      /\ \A i \in 1 .. at - 1 : a[i] = list[i]
    OBVIOUS
<1>2. /\ b \in Seq(S) /\ Len(b) = Len(list) - at + 1
      /\ \A i \in 1 .. Len(list) - at + 1 : b[i] = list[at + i - 1]
    OBVIOUS
<1> HIDE DEF a, b
<1> DEFINE c == a \o <<e>>
<1>3. /\ c \in Seq(S) /\ Len(c) = at
      /\ \A i \in 1 .. at : c[i] = IF i < at THEN list[i] ELSE e
    BY <1>1
<1> HIDE DEF c
<1>4. /\ c \o b \in Seq(S) /\ Len(c \o b) = Len(c) + Len(b)
      /\ \A i \in 1 .. Len(c) + Len(b) :
            (c \o b)[i] = IF i <= Len(c) THEN c[i] ELSE b[i - Len(c)]
    BY <1>2, <1>3, ConcatProperties
<1>6. ASSUME NEW i \in 1 .. Len(list) + 1
      PROVE  (c \o b)[i] = IF i < at THEN list[i] ELSE IF i = at THEN e ELSE list[i - 1]
    <2>1. CASE i <= at
        <3>1. (c \o b)[i] = c[i]
            BY <1>2, <1>3, <1>4, <2>1
        <3> QED BY <1>3, <2>1, <3>1
    <2>2. CASE i > at
        <3>1. (c \o b)[i] = b[i - at] /\ i - at \in 1 .. Len(list) - at + 1
            BY <1>2, <1>3, <1>4, <2>2
        <3> QED BY <1>2, <2>2, <3>1
    <2>3. i <= at \/ i > at
        OBVIOUS
    <2> QED BY <2>1, <2>2, <2>3, Zenon
<1>5. InsertAt(list, at, e) = c \o b
    BY DEF InsertAt, a, b, c
<1>7. Len(c \o b) = Len(list) + 1
    BY <1>2, <1>3, <1>4
<1> QED BY <1>4, <1>5, <1>6, <1>7

\* new is the list with t at place at.
Inserted(new, list, at, t) ==
    \A i \in 1 .. Len(list) + 1 :
        new[i] = IF i < at THEN list[i] ELSE IF i = at THEN t ELSE list[i - 1]

\* sys_timeout_abs puts the timeout before the first one that is due later.
LEMMA AddedIs ==
    ASSUME NEW list \in Seq(Entries), NEW t \in Entries
    PROVE  /\ Added(t, list) \in Seq(Entries)
           /\ Len(Added(t, list)) = Len(list) + 1
           /\ \E at \in 1 .. Len(list) + 1 :
                 /\ Inserted(Added(t, list), list, at, t)
                 /\ \A i \in 1 .. Len(list) : i < at => ~Before(t.time, list[i].time)
                 /\ at <= Len(list) => Before(t.time, list[at].time)
<1> DEFINE after == {i \in 1 .. Len(list) : Before(t.time, list[i].time)}
           at == IF after = {} THEN Len(list) + 1
                 ELSE CHOOSE i \in after : \A j \in after : i <= j
<1>1. /\ at \in 1 .. Len(list) + 1
      /\ \A i \in 1 .. Len(list) : i < at => i \notin after
      /\ at <= Len(list) => at \in after
    <2>1. CASE after = {}
        BY <2>1
    <2>2. CASE after # {}
        <3>1. \E i \in after : \A j \in after : i <= j
            <4>1. after \in SUBSET Nat
                OBVIOUS
            <4> HIDE DEF after
            <4> QED BY <2>2, <4>1, LeastNat
        <3>2. at \in after /\ \A j \in after : at <= j
            BY <2>2, <3>1
        <3>3. after \subseteq 1 .. Len(list)
            OBVIOUS
        <3> HIDE DEF at, after
        <3> QED BY <3>2, <3>3
    <2> QED BY <2>1, <2>2
<1>2. Added(t, list) = InsertAt(list, at, t)
    BY DEF Added
<1>3. /\ \A i \in 1 .. Len(list) : i < at => ~Before(t.time, list[i].time)
      /\ at <= Len(list) => Before(t.time, list[at].time)
    BY <1>1
<1> HIDE DEF at, after
<1>4. at \in 1 .. Len(list) + 1
    BY <1>1
<1>5. LET new == Added(t, list)
      IN  /\ new \in Seq(Entries) /\ Len(new) = Len(list) + 1
          /\ \A i \in 1 .. Len(new) :
                new[i] = IF i < at THEN list[i] ELSE IF i = at THEN t ELSE list[i - 1]
    BY <1>2, <1>4, InsertAtIs
<1>6. Inserted(Added(t, list), list, at, t)
    BY <1>5 DEF Inserted
<1> QED BY <1>3, <1>4, <1>5, <1>6

\* The timeouts of a list; a list with one timeout per timer at most; a list in order.
Elems(list) == {list[i] : i \in 1 .. Len(list)}

OnePer(list) == \A i, j \in 1 .. Len(list) : list[i].h = list[j].h => i = j

InOrder(s, list) ==
    \A i, j \in 1 .. Len(list) : i < j => Signed(s, list[i].time) <= Signed(s, list[j].time)

LEMMA AddedElems ==
    ASSUME NEW list \in Seq(Entries), NEW t \in Entries
    PROVE  /\ Added(t, list) \in Seq(Entries)
           /\ Elems(Added(t, list)) = Elems(list) \cup {t}
           /\ OnePer(list) /\ (\A e \in Elems(list) : e.h # t.h) => OnePer(Added(t, list))
<1> DEFINE new == Added(t, list)
<1>0. PICK at \in 1 .. Len(list) + 1 : Inserted(new, list, at, t)
    BY AddedIs
<1>1. \A i \in 1 .. Len(list) + 1 :
          new[i] = IF i < at THEN list[i] ELSE IF i = at THEN t ELSE list[i - 1]
    BY <1>0 DEF Inserted
<1>2. new \in Seq(Entries) /\ Len(new) = Len(list) + 1
    BY AddedIs
<1>3. Len(list) \in Nat
    OBVIOUS
<1> HIDE DEF new
<1>4. Elems(new) \subseteq Elems(list) \cup {t}
    <2> SUFFICES ASSUME NEW i \in 1 .. Len(list) + 1, new[i] # t PROVE new[i] \in Elems(list)
        BY <1>2 DEF Elems
    <2>1. CASE i < at
        <3>1. i \in 1 .. Len(list) /\ new[i] = list[i]
            BY <1>1, <1>3, <2>1
        <3> QED BY <3>1 DEF Elems
    <2>2. CASE i > at
        <3>1. i - 1 \in 1 .. Len(list) /\ new[i] = list[i - 1]
            BY <1>1, <1>3, <2>2
        <3> QED BY <3>1 DEF Elems
    <2>3. i # at
        BY <1>1
    <2> QED BY <1>3, <2>1, <2>2, <2>3
<1>5. t \in Elems(new)
    <2>1. new[at] = t /\ at \in 1 .. Len(new)
        BY <1>1, <1>2, <1>3
    <2> QED BY <2>1 DEF Elems
<1>6. Elems(list) \subseteq Elems(new)
    <2> SUFFICES ASSUME NEW i \in 1 .. Len(list) PROVE list[i] \in Elems(new)
        BY DEF Elems
    <2>1. CASE i < at
        <3>1. i \in 1 .. Len(new) /\ new[i] = list[i]
            BY <1>1, <1>2, <1>3, <2>1
        <3> QED BY <3>1 DEF Elems
    <2>2. CASE i >= at
        <3>1. i + 1 \in 1 .. Len(new) /\ new[i + 1] = list[i]
            BY <1>1, <1>2, <1>3, <2>2
        <3> QED BY <3>1 DEF Elems
    <2> QED BY <1>3, <2>1, <2>2
<1>7. ASSUME OnePer(list), \A e \in Elems(list) : e.h # t.h PROVE OnePer(new)
    <2>1. \A i \in 1 .. Len(list) : list[i].h # t.h
        BY <1>7 DEF Elems
    <2> SUFFICES ASSUME NEW i \in 1 .. Len(list) + 1, NEW j \in 1 .. Len(list) + 1,
                        new[i].h = new[j].h, i < j
                 PROVE  FALSE
        BY <1>2, <1>3 DEF OnePer
    <2>2. CASE j < at
        <3>1. /\ i \in 1 .. Len(list) /\ j \in 1 .. Len(list)
              /\ new[i] = list[i] /\ new[j] = list[j]
            BY <1>1, <1>3, <2>2
        <3> QED BY <1>7, <3>1 DEF OnePer
    <2>3. CASE j = at
        <3>1. i \in 1 .. Len(list) /\ new[i] = list[i] /\ new[j] = t
            BY <1>1, <1>3, <2>3
        <3> QED BY <2>1, <3>1
    <2>4. CASE j > at
        <3>1. j - 1 \in 1 .. Len(list) /\ new[j] = list[j - 1]
            BY <1>1, <1>3, <2>4
        <3>2. CASE i < at
            <4>1. i \in 1 .. Len(list) /\ i # j - 1 /\ new[i] = list[i]
                BY <1>1, <1>3, <2>4, <3>2
            <4> QED BY <1>7, <3>1, <4>1 DEF OnePer
        <3>3. CASE i = at
            <4>1. new[i] = t
                BY <1>1, <3>3
            <4> QED BY <2>1, <3>1, <4>1
        <3>4. CASE i > at
            <4>1. i - 1 \in 1 .. Len(list) /\ i - 1 # j - 1 /\ new[i] = list[i - 1]
                BY <1>1, <1>3, <3>4
            <4> QED BY <1>7, <3>1, <4>1 DEF OnePer
        <3> QED BY <1>3, <3>2, <3>3, <3>4
    <2> QED BY <1>3, <2>2, <2>3, <2>4
<1> QED BY <1>2, <1>4, <1>5, <1>6, <1>7 DEF new

\* The list stays in order, as long as its times and the new one lie in one window.
LEMMA AddedInOrder ==
    ASSUME NEW list \in Seq(Entries), NEW t \in Entries, NEW s \in Clk,
           InOrder(s, list),
           \A e \in Elems(list) :
               Signed(s, t.time) - Signed(s, e.time) \in - LWIP_MAX_TIMEOUT .. LWIP_MAX_TIMEOUT
    PROVE  InOrder(s, Added(t, list))
<1> DEFINE new == Added(t, list)
           due(i) == Signed(s, list[i].time)
           d == Signed(s, t.time)
<1>0. PICK at \in 1 .. Len(list) + 1 :
          /\ Inserted(new, list, at, t)
          /\ \A i \in 1 .. Len(list) : i < at => ~Before(t.time, list[i].time)
          /\ at <= Len(list) => Before(t.time, list[at].time)
    BY AddedIs
<1>1. /\ \A i \in 1 .. Len(list) + 1 :
             new[i] = IF i < at THEN list[i] ELSE IF i = at THEN t ELSE list[i - 1]
      /\ \A i \in 1 .. Len(list) : i < at => ~Before(t.time, list[i].time)
      /\ at <= Len(list) => Before(t.time, list[at].time)
    BY <1>0 DEF Inserted
<1>2. Len(new) = Len(list) + 1 /\ Len(list) \in Nat
    BY AddedIs
<1> HIDE DEF new
<1>3. \A i \in 1 .. Len(list) : due(i) \in Int /\ (Before(t.time, list[i].time) <=> d < due(i))
    <2> SUFFICES ASSUME NEW i \in 1 .. Len(list)
                 PROVE  due(i) \in Int /\ (Before(t.time, list[i].time) <=> d < due(i))
        OBVIOUS
    <2>1. list[i] \in Entries /\ list[i] \in Elems(list)
        BY DEF Elems
    <2>2. list[i].time \in Clk /\ t.time \in Clk
        BY <2>1 DEF Entries
    <2>3. d - due(i) \in - LWIP_MAX_TIMEOUT .. LWIP_MAX_TIMEOUT
        BY <2>1
    <2>4. due(i) \in Int
        BY <2>2, SignedRange, Half
    <2> HIDE DEF due, d
    <2>5. Before(t.time, list[i].time) <=> d < due(i)
        BY <2>2, <2>3, BeforeSigned DEF due, d
    <2> QED BY <2>4, <2>5
<1>4. d \in Int
    <2>1. t.time \in Clk
        BY DEF Entries
    <2> QED BY <2>1, SignedRange, Half
<1>5. \A i, j \in 1 .. Len(list) : i < j => due(i) <= due(j)
    BY DEF InOrder
<1> HIDE DEF due, d
<1>6. \A i \in 1 .. Len(list) : i < at => due(i) <= d
    BY <1>1, <1>3, <1>4
<1>7. \A i \in 1 .. Len(list) : i >= at => d <= due(i)
    <2> SUFFICES ASSUME NEW i \in 1 .. Len(list), i >= at PROVE d <= due(i)
        OBVIOUS
    <2>1. at \in 1 .. Len(list) /\ (i = at \/ at < i)
        BY <1>2
    <2>2. d < due(at) /\ due(at) <= due(i)
        BY <1>1, <1>2, <1>3, <1>5, <2>1
    <2> QED BY <1>3, <1>4, <2>1, <2>2
<1> SUFFICES ASSUME NEW i \in 1 .. Len(list) + 1, NEW j \in 1 .. Len(list) + 1, i < j
             PROVE  Signed(s, new[i].time) <= Signed(s, new[j].time)
    BY <1>2 DEF InOrder, new
<1>8. CASE j < at
    <2>1. /\ i \in 1 .. Len(list) /\ j \in 1 .. Len(list)
          /\ new[i] = list[i] /\ new[j] = list[j]
        BY <1>1, <1>2, <1>8
    <2> QED BY <1>5, <2>1 DEF due
<1>9. CASE j = at
    <2>1. i \in 1 .. Len(list) /\ i < at /\ new[i] = list[i] /\ new[j] = t
        BY <1>1, <1>2, <1>9
    <2> QED BY <1>6, <2>1 DEF due, d
<1>10. CASE j > at
    <2>1. j - 1 \in 1 .. Len(list) /\ j - 1 >= at /\ new[j] = list[j - 1]
        BY <1>1, <1>2, <1>10
    <2>2. CASE i < at
        <3>1. i \in 1 .. Len(list) /\ i < j - 1 /\ new[i] = list[i]
            BY <1>1, <1>2, <1>10, <2>2
        <3> QED BY <1>5, <2>1, <3>1 DEF due
    <2>3. CASE i = at
        <3>1. new[i] = t
            BY <1>1, <2>3
        <3> QED BY <1>7, <2>1, <3>1 DEF due, d
    <2>4. CASE i > at
        <3>1. i - 1 \in 1 .. Len(list) /\ i - 1 < j - 1 /\ new[i] = list[i - 1]
            BY <1>1, <1>2, <2>4
        <3> QED BY <1>5, <2>1, <3>1 DEF due
    <2> QED BY <1>2, <2>2, <2>3, <2>4
<1> QED BY <1>2, <1>8, <1>9, <1>10

\* Taking the first timeout off.
LEMMA TailElems ==
    ASSUME NEW list \in Seq(Entries), list # <<>>
    PROVE  /\ Head(list) \in Entries /\ Tail(list) \in Seq(Entries)
           /\ Elems(list) = Elems(Tail(list)) \cup {Head(list)}
           /\ OnePer(list) => /\ OnePer(Tail(list))
                              /\ \A e \in Elems(Tail(list)) : e.h # Head(list).h
           /\ \A s \in Clk : InOrder(s, list) =>
                 /\ InOrder(s, Tail(list))
                 /\ \A e \in Elems(Tail(list)) : Signed(s, Head(list).time) <= Signed(s, e.time)
<1> DEFINE rest == Tail(list)
<1>1. /\ Head(list) \in Entries /\ rest \in Seq(Entries) /\ Len(rest) = Len(list) - 1
      /\ \A i \in 1 .. Len(rest) : rest[i] = list[i + 1]
    BY HeadTailProperties
<1>2. Head(list) = list[1] /\ Len(list) \in Nat /\ Len(list) > 0
    BY EmptySeq
<1> HIDE DEF rest
<1>3. \A i \in 1 .. Len(rest) : i + 1 \in 2 .. Len(list) /\ rest[i] = list[i + 1]
    BY <1>1, <1>2
<1>4. Elems(list) = Elems(rest) \cup {Head(list)}
    <2>1. Elems(rest) \cup {Head(list)} \subseteq Elems(list)
        BY <1>2, <1>3 DEF Elems
    <2>2. ASSUME NEW i \in 1 .. Len(list) PROVE list[i] \in Elems(rest) \cup {Head(list)}
        <3>1. CASE i = 1
            BY <1>2, <3>1
        <3>2. CASE i > 1
            <4>1. i - 1 \in 1 .. Len(rest) /\ rest[i - 1] = list[i]
                BY <1>1, <1>2, <3>2
            <4> QED BY <4>1 DEF Elems
        <3> QED BY <3>1, <3>2
    <2> QED BY <2>1, <2>2 DEF Elems
<1>5. ASSUME OnePer(list)
      PROVE  OnePer(rest) /\ \A e \in Elems(rest) : e.h # Head(list).h
    <2>1. OnePer(rest)
        <3> SUFFICES ASSUME NEW i \in 1 .. Len(rest), NEW j \in 1 .. Len(rest),
                            rest[i].h = rest[j].h
                     PROVE  i = j
            BY DEF OnePer
        <3>1. i + 1 = j + 1
            BY <1>2, <1>3, <1>5 DEF OnePer
        <3> QED BY <1>1, <3>1
    <2>2. ASSUME NEW i \in 1 .. Len(rest) PROVE rest[i].h # Head(list).h
        <3>1. i + 1 # 1
            BY <1>1
        <3> QED BY <1>2, <1>3, <1>5, <3>1 DEF OnePer
    <2> QED BY <2>1, <2>2 DEF Elems
<1>6. ASSUME NEW s \in Clk, InOrder(s, list)
      PROVE  /\ InOrder(s, rest)
             /\ \A e \in Elems(rest) : Signed(s, Head(list).time) <= Signed(s, e.time)
    <2>1. InOrder(s, rest)
        <3> SUFFICES ASSUME NEW i \in 1 .. Len(rest), NEW j \in 1 .. Len(rest), i < j
                     PROVE  Signed(s, rest[i].time) <= Signed(s, rest[j].time)
            BY DEF InOrder
        <3>1. i + 1 < j + 1
            BY <1>1
        <3> QED BY <1>2, <1>3, <1>6, <3>1 DEF InOrder
    <2>2. ASSUME NEW i \in 1 .. Len(rest)
          PROVE  Signed(s, Head(list).time) <= Signed(s, rest[i].time)
        <3>1. 1 < i + 1
            BY <1>1
        <3> QED BY <1>2, <1>3, <1>6, <3>1 DEF InOrder
    <2> QED BY <2>1, <2>2 DEF Elems
<1> QED BY <1>1, <1>4, <1>5, <1>6 DEF rest

-----------------------------------------------------------------------------
\* The types.

LEMMA IntervalIs ==
    /\ MaxLag \in Nat \ {0} /\ 2 * MaxLag <= LWIP_MAX_TIMEOUT
    /\ \A h \in Timers : /\ Interval[h] \in 1 .. LWIP_MAX_TIMEOUT /\ Interval[h] \in Clk
                         /\ Interval[h] + 2 * MaxLag <= LWIP_MAX_TIMEOUT
<1>1. Tcp \in Timers
    BY DEF Timers
<1>2. Interval[Tcp] \in Nat /\ Interval[Tcp] + 2 * MaxLag <= LWIP_MAX_TIMEOUT
    BY <1>1, TimeoutsAssumption
<1> QED BY <1>2, TimeoutsAssumption, Half DEF Clk

LEMMA TcpIs == Tcp \in Timers /\ Tcp \notin Cyclic /\ \A h \in Timers : h # Tcp <=> h \in Cyclic
BY TimeoutsAssumption DEF Timers

LEMMA EntryAfter ==
    ASSUME NEW h \in Timers, NEW t \in Clk
    PROVE  Timeout(h, Plus(t, Interval[h])) \in Entries
<1>1. Plus(t, Interval[h]) \in Clk
    BY IntervalIs, PlusType
<1> QED BY <1>1 DEF Entries, Timeout

\* 2 * k * n, the ticks of k slow turns of the TCP timer.
Ticks(k) == 2 * k * Interval[Tcp]

LEMMA TicksAre ==
    /\ Interval[Tcp] \in Nat /\ Interval[Tcp] > 0
    /\ \A k \in Nat : Ticks(k) \in Nat
    /\ Ticks(0) = 0
    /\ \A k \in Nat : Ticks(k + 1) = Ticks(k) + 2 * Interval[Tcp]
    /\ Ticks(PollInterval) = Period /\ Period \in Nat
<1>1. Interval[Tcp] \in Nat /\ Interval[Tcp] > 0 /\ PollInterval \in Nat
    BY IntervalIs, TcpIs, Half, TimeoutsAssumption
<1>2. \A n, k \in Nat : /\ 2 * k * n \in Nat /\ 2 * 0 * n = 0
                        /\ 2 * (k + 1) * n = 2 * k * n + 2 * n
    OBVIOUS
<1> QED BY <1>1, <1>2 DEF Ticks, Period

LEMMA TypeInit == TimesInit => TimesTypeOK
<1> SUFFICES ASSUME TimesInit PROVE TimesTypeOK
    OBVIOUS
<1>1. 0 \in 0 .. TimeMod - 1 /\ Period \in Nat /\ 0 \in 0 .. PollInterval - 1 /\ 0 \in 0 .. MaxLag
    BY Clock, TicksAre, TimeoutsAssumption
<1>2. next_timeout \in Seq([h : Timers, time : 0 .. TimeMod - 1])
    BY DEF TimesInit
<1>3. current \in [h : Timers, time : 0 .. TimeMod - 1]
    BY <1>1, TcpIs DEF TimesInit, NoTimeout, Timeout
<1>4. age \in [Conns -> 0 .. Period] /\ polltmr \in [Conns -> 0 .. PollInterval - 1]
    BY <1>1 DEF TimesInit
<1>5. /\ ran \in [Timers -> Nat] /\ delayed \in [ms : Nat, ticks : Nat]
      /\ pcb \in [Conns -> {"none", "active", "time_wait"}] /\ polled \in [Conns -> BOOLEAN]
    BY DEF TimesInit, NotRun, NoDelay
<1>6. /\ systick_timems \in 0 .. TimeMod - 1 /\ now \in 0 .. TimeMod - 1
      /\ to \in 0 .. TimeMod - 1 /\ lag \in 0 .. MaxLag
    BY <1>1 DEF TimesInit
<1>7. timer_active \in BOOLEAN /\ pc \in {"init", "main", "delay", "check", "handler"}
    BY DEF TimesInit
<1>8. tcp_timer \in 0 .. 1
    BY DEF TimesInit
<1> QED BY <1>2, <1>3, <1>4, <1>5, <1>6, <1>7, <1>8, Zenon DEF TimesTypeOK

\* The parts of the type invariant.
ClockType ==
    /\ systick_timems \in Clk /\ lag \in 0 .. MaxLag
    /\ to \in Clk /\ delayed \in [ms : Nat, ticks : Nat]
    /\ pc \in {"init", "main", "delay", "check", "handler"}

ListType ==
    /\ next_timeout \in Seq(Entries) /\ timer_active \in BOOLEAN
    /\ now \in Clk /\ current \in Entries /\ ran \in [Timers -> Nat]

TcpType ==
    /\ tcp_timer \in 0 .. 1 /\ pcb \in [Conns -> {"none", "active", "time_wait"}]
    /\ polltmr \in [Conns -> 0 .. PollInterval - 1]
    /\ age \in [Conns -> 0 .. Period] /\ polled \in [Conns -> BOOLEAN]

LEMMA TypeParts == TimesTypeOK <=> ClockType /\ ListType /\ TcpType
BY DEF TimesTypeOK, ClockType, ListType, TcpType, Entries, Clk

LEMMA ClockTypeNext == ClockType /\ ListType /\ [TimesNext]_timeVars => ClockType'
<1> SUFFICES ASSUME ClockType, ListType, [TimesNext]_timeVars PROVE ClockType'
    OBVIOUS
<1>0. 0 \in Clk /\ MaxLag \in Nat /\ 0 \in 0 .. MaxLag
    BY Clock, IntervalIs DEF Clk
<1>1. CASE SysTick
    <2>1. systick_timems' \in Clk
        <3>1. 1 \in 0 .. LWIP_MAX_TIMEOUT
            BY IntervalIs, Half
        <3> QED BY <1>1, <3>1, SignedNow DEF SysTick, ClockType
    <2>2. lag' \in 0 .. MaxLag
        BY <1>0, <1>1 DEF SysTick, ClockType
    <2>3. delayed' \in [ms : Nat, ticks : Nat]
        BY <1>1 DEF SysTick, ClockType
    <2> QED BY <1>1, <2>1, <2>2, <2>3 DEF SysTick, ClockType
<1>2. CASE msDelay
    <2>1. PICK ms \in Delays : to' = Plus(systick_timems, ms) /\ delayed' = [ms |-> ms, ticks |-> 0]
        BY <1>2 DEF msDelay
    <2>2. ms \in 1 .. LWIP_MAX_TIMEOUT
        BY TimeoutsAssumption
    <2>3. to' \in Clk
        BY <2>1, <2>2, Half, SignedNow DEF ClockType
    <2>4. delayed' \in [ms : Nat, ticks : Nat]
        BY <2>1, <2>2
    <2> QED BY <1>2, <2>3, <2>4 DEF msDelay, ClockType
<1>3. CASE DelayEnds
    BY <1>0, <1>3 DEF DelayEnds, ClockType, NoDelay
<1>4. ASSUME NEW c \in Conns, Register(c) \/ Unregister(c) PROVE ClockType'
    BY <1>4 DEF Register, Unregister, ClockType, clockVars
<1>5. CASE CheckTimeouts
    BY <1>0, <1>5 DEF CheckTimeouts, ClockType
<1>6. CASE Check \/ Handler
    BY <1>6 DEF Check, Expire, CheckDone, Handler, TcpTimer, CyclicTimer, ClockType, clockVars
<1>7. CASE sys_timeouts_init \/ UNCHANGED timeVars
    BY <1>7 DEF sys_timeouts_init, StartCyclic, InitDone, timeVars, clockVars, ClockType
<1> QED BY <1>1, <1>2, <1>3, <1>4, <1>5, <1>6, <1>7 DEF TimesNext, Main

LEMMA ListTypeNext == ClockType /\ ListType /\ [TimesNext]_timeVars => ListType'
<1> SUFFICES ASSUME ClockType, ListType, [TimesNext]_timeVars PROVE ListType'
    OBVIOUS
<1>0. 0 \in Clk /\ NotRun \in [Timers -> Nat] /\ NoTimeout \in Entries
    BY Clock, TcpIs DEF Clk, NotRun, NoTimeout, Timeout, Entries
<1>1. ASSUME NEW h \in Timers, NEW t \in Clk
      PROVE  Added(Timeout(h, Plus(t, Interval[h])), next_timeout) \in Seq(Entries)
    BY EntryAfter, AddedElems DEF ListType
<1>2. CASE StartCyclic
    <2>1. next_timeout' \in Seq(Entries)
        BY <1>1, <1>2 DEF StartCyclic, ClockType, Timers
    <2> QED BY <1>2, <2>1 DEF StartCyclic, ListType, checkVars
<1>3. ASSUME NEW c \in Conns, Register(c) PROVE ListType'
    <2>1. next_timeout' \in Seq(Entries) /\ timer_active' \in BOOLEAN
        BY <1>1, <1>3, TcpIs DEF Register, TcpTimerNeeded, ClockType, ListType, listVars
    <2> QED BY <1>3, <2>1 DEF Register, ListType, checkVars
<1>4. CASE TcpTimer
    <2>1. TcpTimerAgain /\ systick_timems \in Clk
        BY <1>4 DEF TcpTimer, ClockType
    <2>2. next_timeout' \in Seq(Entries) /\ timer_active' \in BOOLEAN
        BY <1>1, <2>1, TcpIs DEF TcpTimerAgain, ListType
    <2> QED BY <1>0, <1>4, <2>2 DEF TcpTimer, ListType
<1>5. CASE CyclicTimer
    <2>1. current.h \in Timers /\ current.time \in Clk
        BY DEF ListType, Entries
    <2>2. \E t \in Clk : NextTime(current.h) = Plus(t, Interval[current.h])
        BY <2>1 DEF NextTime, ClockType
    <2>3. next_timeout' \in Seq(Entries)
        BY <1>1, <1>5, <2>1, <2>2 DEF CyclicTimer
    <2> QED BY <1>0, <1>5, <2>3 DEF CyclicTimer, ListType
<1>6. CASE Expire
    <2>1. Head(next_timeout) \in Entries /\ Tail(next_timeout) \in Seq(Entries)
        BY <1>6, TailElems DEF Expire, ListType
    <2>2. ran' \in [Timers -> Nat]
        BY <1>6, <2>1 DEF Expire, ListType, Entries
    <2> QED BY <1>6, <2>1, <2>2 DEF Expire, ListType
<1>7. CASE CheckDone \/ CheckTimeouts
    BY <1>0, <1>7 DEF CheckDone, CheckTimeouts, ListType, ClockType, listVars
<1>8. CASE SysTick \/ msDelay \/ DelayEnds \/ InitDone \/ UNCHANGED timeVars
    BY <1>8 DEF SysTick, msDelay, DelayEnds, InitDone, timeVars, listVars, checkVars, ListType
<1>9. ASSUME NEW c \in Conns, Unregister(c) PROVE ListType'
    BY <1>9 DEF Unregister, ListType, listVars, checkVars
<1> QED BY <1>2, <1>3, <1>4, <1>5, <1>6, <1>7, <1>8, <1>9
        DEF TimesNext, sys_timeouts_init, Main, Check, Handler

LEMMA TcpTypeNext == TcpType /\ [TimesNext]_timeVars => TcpType'
<1> SUFFICES ASSUME TcpType, [TimesNext]_timeVars PROVE TcpType'
    OBVIOUS
<1>0. PollInterval \in Nat /\ PollInterval > 0 /\ Period \in Nat
    BY TicksAre, TimeoutsAssumption
<1>1. CASE SysTick
    <2>1. age' \in [Conns -> 0 .. Period]
        BY <1>0, <1>1 DEF SysTick, TcpType
    <2> QED BY <1>1, <2>1 DEF SysTick, TcpType, tcpVars
<1>2. ASSUME NEW c \in Conns, Register(c) PROVE TcpType'
    BY <1>2 DEF Register, TcpType, clockVars
<1>3. ASSUME NEW c \in Conns, Unregister(c) PROVE TcpType'
    <2>1. pcb' \in [Conns -> {"none", "active", "time_wait"}]
        BY <1>3 DEF Unregister, TcpType
    <2>2. /\ polltmr' \in [Conns -> 0 .. PollInterval - 1]
          /\ polled' \in [Conns -> BOOLEAN] /\ age' \in [Conns -> 0 .. Period]
        BY <1>0, <1>3 DEF Unregister, TcpType
    <2> QED BY <1>3, <2>1, <2>2 DEF Unregister, TcpType
<1>4. CASE TcpTimer
    <2>1. pcb' \in [Conns -> {"none", "active", "time_wait"}]
        BY <1>4 DEF TcpTimer, TcpType
    <2>2. polltmr' \in [Conns -> 0 .. PollInterval - 1]
        BY <1>0, <1>4 DEF TcpTimer, TcpType, PollDue
    <2>3. age' \in [Conns -> 0 .. Period]
        BY <1>0, <1>4 DEF TcpTimer, TcpType
    <2>4. polled' \in [Conns -> BOOLEAN]
        <3>1. polled' = [c \in Conns |-> pcb'[c] = "active" /\ (polled[c] \/ c \in PollDue)]
            BY <1>4 DEF TcpTimer
        <3> QED BY <3>1
    <2>5. tcp_timer' \in 0 .. 1
        BY <1>4 DEF TcpTimer, TcpType
    <2> QED BY <2>1, <2>2, <2>3, <2>4, <2>5 DEF TcpType
<1>5. CASE CyclicTimer \/ Check \/ msDelay \/ DelayEnds \/ CheckTimeouts \/ sys_timeouts_init
           \/ UNCHANGED timeVars
    BY <1>5 DEF CyclicTimer, Check, Expire, CheckDone, msDelay, DelayEnds, CheckTimeouts,
                sys_timeouts_init, StartCyclic, InitDone, timeVars, clockVars, tcpVars, TcpType
<1> QED BY <1>1, <1>2, <1>3, <1>4, <1>5 DEF TimesNext, Main, Handler

LEMMA TypeNext == TimesTypeOK /\ [TimesNext]_timeVars => TimesTypeOK'
<1>1. ClockType /\ ListType /\ TcpType /\ [TimesNext]_timeVars
          => ClockType' /\ ListType' /\ TcpType'
    BY ClockTypeNext, ListTypeNext, TcpTypeNext
<1>2. TimesTypeOK' <=> ClockType' /\ ListType' /\ TcpType'
    BY DEF TimesTypeOK, ClockType, ListType, TcpType, Entries, Clk
<1> QED BY <1>1, <1>2, TypeParts

\* THEOREM: the state has its types; the TCP timer's poll counters stay below the poll
\* interval and the loop's lateness within its bound (tcp_slowtmr, sys_check_timeouts).
THEOREM TypeCorrect == TimesSpec => []TimesTypeOK
BY TypeInit, TypeNext, PTL DEF TimesSpec

-----------------------------------------------------------------------------
\* One timeout for every timer that should run.

Has(list, h) == \E e \in Elems(list) : e.h = h

OneInv ==
    /\ OnePer(next_timeout)
    /\ pc = "handler" => ~Has(next_timeout, current.h)
    /\ pc # "init" => \A h \in Cyclic : Has(next_timeout, h) \/ Handled(h)
    /\ timer_active <=> Has(next_timeout, Tcp) \/ Handled(Tcp)
    /\ (\E c \in Conns : pcb[c] # "none") => timer_active

LEMMA HasElems ==
    ASSUME NEW list, NEW h
    PROVE  (\E i \in 1 .. Len(list) : list[i].h = h) <=> Has(list, h)
BY DEF Has, Elems

LEMMA OneIs == ListType => (OneInv <=> OneTimeoutEach)
<1> SUFFICES ASSUME ListType PROVE OneInv <=> OneTimeoutEach
    OBVIOUS
<1>1. \A h : Listed(h) <=> Has(next_timeout, h)
    BY HasElems DEF Listed
<1>2. current.h \in Timers
    BY DEF ListType, Entries
<1>3. (pc = "handler" => ~Has(next_timeout, current.h))
          <=> \A h \in Timers : ~(Listed(h) /\ Handled(h))
    BY <1>1, <1>2 DEF Handled
<1> QED BY <1>1, <1>3 DEF OneInv, OneTimeoutEach, OnePer

\* A timeout is added for a timer that has none.
LEMMA HasAdded ==
    ASSUME NEW list \in Seq(Entries), NEW h \in Timers, NEW t \in Clk,
           OnePer(list), ~Has(list, h)
    PROVE  LET new == Added(Timeout(h, Plus(t, Interval[h])), list)
           IN  OnePer(new) /\ \A g : Has(new, g) <=> Has(list, g) \/ g = h
<1> DEFINE e == Timeout(h, Plus(t, Interval[h]))
           new == Added(e, list)
<1>1. e \in Entries /\ e.h = h
    BY EntryAfter DEF Timeout
<1> HIDE DEF e
<1>2. Elems(new) = Elems(list) \cup {e}
    BY <1>1, AddedElems
<1>3. OnePer(new)
    BY <1>1, AddedElems DEF Has
<1> QED BY <1>1, <1>2, <1>3 DEF Has, e

LEMMA OneInit == TimesInit => OneInv
BY DEF TimesInit, OneInv, OnePer, Has, Elems, Handled

LEMMA OneNext == TimesTypeOK /\ OneInv /\ [TimesNext]_timeVars => OneInv'
<1> SUFFICES ASSUME TimesTypeOK, OneInv, [TimesNext]_timeVars PROVE OneInv'
    OBVIOUS
<1>0. ClockType /\ ListType /\ TcpType
    BY TypeParts
<1>1. next_timeout \in Seq(Entries) /\ systick_timems \in Clk /\ current \in Entries
    BY <1>0 DEF ClockType, ListType
<1>2. CASE StartCyclic
    <2>1. PICK h \in Cyclic :
              /\ ~Has(next_timeout, h)
              /\ next_timeout' =
                     Added(Timeout(h, Plus(systick_timems, Interval[h])), next_timeout)
        BY <1>2, HasElems DEF StartCyclic, Listed
    <2>2. /\ OnePer(next_timeout')
          /\ \A g : Has(next_timeout', g) <=> Has(next_timeout, g) \/ g = h
        BY <1>1, <2>1, HasAdded DEF OneInv, Timers
    <2>3. h # Tcp
        BY TcpIs
    <2>4. /\ pc = "init" /\ pc' = pc /\ timer_active' = timer_active /\ pcb' = pcb
          /\ current' = current
        BY <1>2 DEF StartCyclic, tcpVars, checkVars
    <2> QED BY <2>2, <2>3, <2>4 DEF OneInv, Handled
<1>3. CASE InitDone
    <2>1. \A h \in Cyclic : Has(next_timeout, h)
        BY <1>3, HasElems DEF InitDone, Listed
    <2> QED BY <1>3, <2>1 DEF InitDone, listVars, tcpVars, checkVars, OneInv, Handled
<1>4. ASSUME NEW c \in Conns, Register(c) PROVE OneInv'
    <2>1. pc = "main" /\ pc' = pc /\ current' = current
        BY <1>4 DEF Register, checkVars
    <2>2. CASE timer_active
        <3>1. UNCHANGED listVars
            BY <1>4, <2>2 DEF Register, TcpTimerNeeded
        <3> QED BY <2>1, <2>2, <3>1 DEF OneInv, Handled, listVars
    <2>3. CASE ~timer_active
        <3>1. /\ timer_active' = TRUE
              /\ next_timeout' =
                     Added(Timeout(Tcp, Plus(systick_timems, Interval[Tcp])), next_timeout)
            BY <1>4, <2>3 DEF Register, TcpTimerNeeded
        <3>2. ~Has(next_timeout, Tcp)
            BY <2>3 DEF OneInv
        <3>3. /\ OnePer(next_timeout')
              /\ \A g : Has(next_timeout', g) <=> Has(next_timeout, g) \/ g = Tcp
            BY <1>1, <3>1, <3>2, HasAdded, TcpIs DEF OneInv
        <3> QED BY <2>1, <3>1, <3>3 DEF OneInv, Handled
    <2> QED BY <2>2, <2>3
<1>5. ASSUME NEW c \in Conns, Unregister(c) PROVE OneInv'
    <2>1. (\E d \in Conns : pcb'[d] # "none") => \E d \in Conns : pcb[d] # "none"
        BY <1>5 DEF Unregister
    <2> QED BY <1>5, <2>1 DEF Unregister, OneInv, Handled, listVars, checkVars
<1>6. CASE Expire
    <2>1. next_timeout # <<>> /\ next_timeout' = Tail(next_timeout) /\ current' = Head(next_timeout)
        BY <1>6 DEF Expire
    <2>2. /\ Elems(next_timeout) = Elems(next_timeout') \cup {current'}
          /\ OnePer(next_timeout')
          /\ \A e \in Elems(next_timeout') : e.h # current'.h
        BY <1>1, <2>1, TailElems DEF OneInv
    <2>3. \A g : Has(next_timeout, g) <=> Has(next_timeout', g) \/ g = current'.h
        BY <2>2 DEF Has
    <2>4. ~Has(next_timeout', current'.h)
        BY <2>2 DEF Has
    <2>5. pc = "check" /\ pc' = "handler" /\ timer_active' = timer_active /\ pcb' = pcb
        BY <1>6 DEF Expire, tcpVars
    <2> QED BY <2>2, <2>3, <2>4, <2>5 DEF OneInv, Handled
<1>7. CASE TcpTimer
    <2>1. /\ pc = "handler" /\ current.h = Tcp /\ pc' = "check" /\ TcpTimerAgain
          /\ ~Has(next_timeout, Tcp) /\ timer_active
        BY <1>7 DEF TcpTimer, OneInv, Handled
    <2>2. CASE \E c \in Conns : pcb'[c] # "none"
        <3>1. /\ timer_active' = timer_active
              /\ next_timeout' =
                     Added(Timeout(Tcp, Plus(systick_timems, Interval[Tcp])), next_timeout)
            BY <2>1, <2>2 DEF TcpTimerAgain
        <3>2. /\ OnePer(next_timeout')
              /\ \A g : Has(next_timeout', g) <=> Has(next_timeout, g) \/ g = Tcp
            BY <1>1, <2>1, <3>1, HasAdded, TcpIs DEF OneInv
        <3> QED BY <2>1, <3>1, <3>2, TcpIs DEF OneInv, Handled
    <2>3. CASE ~\E c \in Conns : pcb'[c] # "none"
        <3>1. timer_active' = FALSE /\ next_timeout' = next_timeout
            BY <2>1, <2>3 DEF TcpTimerAgain
        <3> QED BY <2>1, <2>3, <3>1, TcpIs DEF OneInv, Handled
    <2> QED BY <2>2, <2>3
<1>8. CASE CyclicTimer
    <2>1. /\ pc = "handler" /\ current.h \in Cyclic /\ current.h \in Timers
          /\ ~Has(next_timeout, current.h)
          /\ next_timeout' = Added(Timeout(current.h, NextTime(current.h)), next_timeout)
        BY <1>8 DEF CyclicTimer, OneInv, Timers
    <2>2. PICK t \in Clk : NextTime(current.h) = Plus(t, Interval[current.h])
        BY <1>1 DEF NextTime, Entries
    <2>3. /\ OnePer(next_timeout')
          /\ \A g : Has(next_timeout', g) <=> Has(next_timeout, g) \/ g = current.h
        BY <1>1, <2>1, <2>2, HasAdded DEF OneInv
    <2>4. pc' = "check" /\ timer_active' = timer_active /\ pcb' = pcb
        BY <1>8 DEF CyclicTimer, tcpVars
    <2>5. Tcp # current.h
        BY <2>1, TcpIs
    <2> QED BY <2>1, <2>3, <2>4, <2>5 DEF OneInv, Handled
<1>9. CASE SysTick \/ msDelay \/ DelayEnds \/ CheckTimeouts \/ CheckDone \/ UNCHANGED timeVars
    <2>1. /\ next_timeout' = next_timeout /\ timer_active' = timer_active /\ pcb' = pcb
          /\ current' = current
          /\ pc' = pc \/ (pc' \notin {"init", "handler"} /\ pc \notin {"init", "handler"})
        BY <1>9 DEF SysTick, msDelay, DelayEnds, CheckTimeouts, CheckDone, timeVars, listVars,
                    tcpVars, checkVars
    <2> QED BY <2>1 DEF OneInv, Handled
<1> QED BY <1>2, <1>3, <1>4, <1>5, <1>6, <1>7, <1>8, <1>9
        DEF TimesNext, sys_timeouts_init, Main, Check, Handler

\* THEOREM: no timer is lost or doubled: each of them that should run has exactly one
\* timeout, in the list or being handled (sys_timeout, sys_check_timeouts,
\* lwip_cyclic_timer, tcp_timer_needed, tcpip_tcp_timer).
THEOREM OneEach == TimesSpec => []OneTimeoutEach
<1>1. TimesTypeOK /\ OneInv => OneTimeoutEach
    BY OneIs, TypeParts
<1> QED BY <1>1, TypeInit, TypeNext, OneInit, OneNext, PTL DEF TimesSpec

-----------------------------------------------------------------------------
\* The order of the list and the calls of sys_check_timeouts.

\* How far ahead a timeout is.
Due(e) == Signed(systick_timems, e.time)

InCall == pc \in {"check", "handler"}

\* No timeout lies further ahead than a period, nor further behind than the loop may be
\* late: before the present call, and in it.
Window ==
    \A e \in Elems(next_timeout) :
        /\ Due(e) <= Interval[e.h]
        /\ Due(e) > - lag - (IF InCall THEN MaxLag ELSE 0)

\* A call of sys_check_timeouts and what it has run: a timer that ran is due at the start of
\* the call again at the soonest, and then later.
CallInv ==
    /\ NoBurst
    /\ InCall => Signed(systick_timems, now) + lag = 0
    /\ ~InCall => ran = NotRun
    /\ \A e \in Elems(next_timeout) :
          /\ ran[e.h] = 1 => Due(e) >= - lag
          /\ ran[e.h] = 2 \/ (e.h = Tcp /\ ran[e.h] = 1) => Due(e) > - lag
    /\ pc = "handler" =>
          /\ Due(current) <= - lag /\ Due(current) > - lag - MaxLag
          /\ ran[current.h] > 0
          /\ ran[current.h] = 2 => Due(current) = - lag

OrderInv == InOrder(systick_timems, next_timeout) /\ Window /\ CallInv

LEMMA DueType ==
    ASSUME ClockType, NEW e \in Entries
    PROVE  /\ e.h \in Timers /\ e.time \in Clk /\ lag \in Int
           /\ Due(e) \in Int /\ lag \in 0 .. MaxLag
           /\ Interval[e.h] \in Nat /\ Interval[e.h] > 0 /\ MaxLag \in Nat
           /\ LWIP_MAX_TIMEOUT \in Nat /\ Interval[e.h] + 2 * MaxLag <= LWIP_MAX_TIMEOUT
<1>1. e.h \in Timers /\ e.time \in Clk /\ systick_timems \in Clk /\ lag \in 0 .. MaxLag
    BY DEF Entries, ClockType
<1>2. Due(e) \in Int
    BY <1>1, SignedRange, Half DEF Due
<1> QED BY <1>1, <1>2, IntervalIs, Half

LEMMA ElemsType == ASSUME ListType, NEW e \in Elems(next_timeout) PROVE e \in Entries
BY DEF ListType, Elems

\* A timeout that is added keeps the list in order, when it is due within a period from now.
LEMMA AddInWindow ==
    ASSUME ClockType, ListType, InOrder(systick_timems, next_timeout), Window,
           NEW t \in Entries, Due(t) >= 0, Due(t) <= Interval[t.h]
    PROVE  InOrder(systick_timems, Added(t, next_timeout))
<1>1. ASSUME NEW e \in Elems(next_timeout)
      PROVE  Signed(systick_timems, t.time) - Signed(systick_timems, e.time)
                 \in - LWIP_MAX_TIMEOUT .. LWIP_MAX_TIMEOUT
    <2>1. e \in Entries
        BY ElemsType
    <2>2. Due(e) <= Interval[e.h] /\ Due(e) > - lag - MaxLag
        BY <2>1, DueType DEF Window
    <2>3. Due(t) - Due(e) \in - LWIP_MAX_TIMEOUT .. LWIP_MAX_TIMEOUT
        BY <2>1, <2>2, DueType
    <2> QED BY <2>3 DEF Due
<1> QED BY <1>1, AddedInOrder DEF ClockType, ListType

\* A period from now.
LEMMA DueAfter ==
    ASSUME ClockType, NEW h \in Timers
    PROVE  LET t == Timeout(h, Plus(systick_timems, Interval[h]))
           IN  t \in Entries /\ t.h = h /\ Due(t) = Interval[h]
<1>1. systick_timems \in Clk
    BY DEF ClockType
<1>2. Interval[h] \in 0 .. LWIP_MAX_TIMEOUT
    BY IntervalIs
<1>3. Signed(systick_timems, Plus(systick_timems, Interval[h])) = Interval[h]
    BY <1>1, <1>2, SignedNow
<1>4. Timeout(h, Plus(systick_timems, Interval[h])) \in Entries
    BY <1>1, EntryAfter
<1> QED BY <1>3, <1>4 DEF Due, Timeout

\* When a cyclic timer is due next: not before now, and not at the start of the call that
\* runs it if it was due just then.
LEMMA DueNext ==
    ASSUME ClockType, ListType, Due(current) <= - lag, Due(current) > - lag - MaxLag
    PROVE  LET t == Timeout(current.h, NextTime(current.h))
           IN  /\ t \in Entries /\ t.h = current.h
               /\ Due(t) >= 0 /\ Due(t) <= Interval[current.h]
               /\ Due(current) = - lag => Due(t) > - lag
<1> DEFINE next == Plus(current.time, Interval[current.h])
<1>1. current \in Entries /\ systick_timems \in Clk
    BY DEF ListType, ClockType
<1>2. current.h \in Timers /\ current.time \in Clk
    BY <1>1, DueType
<1>3. Interval[current.h] \in 0 .. LWIP_MAX_TIMEOUT
    BY <1>2, IntervalIs
<1>4. next \in Clk /\ Signed(systick_timems, next) = Due(current) + Interval[current.h]
    <2>1. Due(current) + Interval[current.h] <= LWIP_MAX_TIMEOUT
        BY <1>1, DueType
    <2> QED BY <1>1, <1>2, <1>3, <2>1, SignedAdd DEF Due
<1>5. Before(next, systick_timems) <=> Signed(systick_timems, next) < 0
    <2>1. Signed(systick_timems, systick_timems) = 0
        BY <1>1, SignedNow
    <2>2. Signed(systick_timems, next) - 0 \in - LWIP_MAX_TIMEOUT .. LWIP_MAX_TIMEOUT
        BY <1>1, <1>4, DueType
    <2> QED BY <1>1, <1>4, <2>1, <2>2, BeforeSigned
<1>6. CASE Before(next, systick_timems)
    <2>1. NextTime(current.h) = Plus(systick_timems, Interval[current.h])
        BY <1>6 DEF NextTime
    <2> QED BY <1>1, <1>2, <2>1, DueAfter, DueType
<1>7. CASE ~Before(next, systick_timems)
    <2>1. NextTime(current.h) = next
        BY <1>7 DEF NextTime
    <2>2. Timeout(current.h, next) \in Entries
        BY <1>2, <1>4 DEF Timeout, Entries
    <2>3. Due(Timeout(current.h, next)) = Due(current) + Interval[current.h]
        BY <1>4 DEF Due, Timeout
    <2> HIDE DEF next
    <2>4. Timeout(current.h, next).h = current.h
        BY DEF Timeout
    <2> QED BY <1>1, <1>4, <1>5, <1>7, <2>1, <2>2, <2>3, <2>4, DueType
<1> QED BY <1>6, <1>7

LEMMA AddOrder ==
    ASSUME ClockType, ListType, OrderInv,
           NEW t \in Entries, Due(t) > 0 \/ (Due(t) = 0 /\ InCall), Due(t) <= Interval[t.h],
           ran[t.h] = 2 \/ (t.h = Tcp /\ ran[t.h] = 1) => Due(t) > - lag,
           next_timeout' = Added(t, next_timeout),
           UNCHANGED <<systick_timems, lag, now, ran>>,
           InCall' <=> InCall, pc' # "handler"
    PROVE  OrderInv'
<1>1. InOrder(systick_timems, next_timeout)'
    <2>1. Due(t) >= 0
        BY DueType
    <2>2. InOrder(systick_timems, Added(t, next_timeout))
        BY <2>1, AddInWindow DEF OrderInv
    <2> QED BY <2>2
<1>2. Elems(next_timeout') = Elems(next_timeout) \cup {t}
    BY AddedElems DEF ListType
<1>3. \A e : Due(e)' = Signed(systick_timems, e.time)
    BY DEF Due
<1>4. Window'
    <2> SUFFICES ASSUME NEW e \in Elems(next_timeout) \cup {t}
                 PROVE  /\ Due(e) <= Interval[e.h]
                        /\ Due(e) > - lag - (IF InCall THEN MaxLag ELSE 0)
        BY <1>2 DEF Window, Due
    <2>1. CASE e \in Elems(next_timeout)
        BY <2>1 DEF OrderInv, Window
    <2>2. CASE e = t
        BY <2>2, DueType, IntervalIs
    <2> QED BY <2>1, <2>2
<1>5. CallInv'
    <2>1. ASSUME NEW e \in Elems(next_timeout) \cup {t}
          PROVE  /\ ran[e.h] = 1 => Due(e) >= - lag
                 /\ ran[e.h] = 2 \/ (e.h = Tcp /\ ran[e.h] = 1) => Due(e) > - lag
        <3>1. CASE e \in Elems(next_timeout)
            BY <3>1 DEF OrderInv, CallInv
        <3>2. CASE e = t
            BY <3>2, DueType
        <3> QED BY <3>1, <3>2
    <2>2. /\ NoBurst' /\ (InCall' => Signed(systick_timems', now') + lag' = 0)
          /\ ~InCall' => ran' = NotRun
        BY DEF OrderInv, CallInv, NoBurst
    <2> QED BY <1>2, <2>1, <2>2 DEF CallInv, Due
<1> QED BY <1>1, <1>4, <1>5 DEF OrderInv

\* A timer that has run no more than it may, and not for good.
LEMMA RanIs ==
    ASSUME ListType, NoBurst
    PROVE  /\ ran[Tcp] \in 0 .. 1 /\ \A h \in Timers : ran[h] \in 0 .. 2
           /\ \A h \in Timers : NotRun[h] = 0
BY TcpIs DEF ListType, NoBurst, NotRun, Timers

LEMMA OrderInit == TimesInit => OrderInv
<1> SUFFICES ASSUME TimesInit PROVE OrderInv
    OBVIOUS
<1>1. next_timeout = <<>> /\ pc = "init" /\ ran = NotRun
    BY DEF TimesInit
<1>2. Elems(next_timeout) = {} /\ InOrder(systick_timems, next_timeout)
    BY <1>1 DEF Elems, InOrder
<1>3. NoBurst
    BY <1>1, TcpIs DEF NoBurst, NotRun, Timers
<1> QED BY <1>1, <1>2, <1>3 DEF OrderInv, Window, CallInv, InCall

LEMMA OrderTick == ASSUME TimesTypeOK, OrderInv, SysTick PROVE OrderInv'
<1>1. ClockType /\ ListType
    BY TypeParts
<1>2. /\ lag' = lag + 1 /\ lag < MaxLag /\ systick_timems' = Plus(systick_timems, 1)
      /\ next_timeout' = next_timeout /\ now' = now /\ current' = current /\ ran' = ran /\ pc' = pc
    BY DEF SysTick, listVars, checkVars
<1>3. systick_timems \in Clk /\ now \in Clk /\ current \in Entries
    BY <1>1 DEF ClockType, ListType
<1>4. /\ lag \in 0 .. MaxLag /\ MaxLag \in Nat /\ LWIP_MAX_TIMEOUT \in Nat
      /\ 2 * MaxLag <= LWIP_MAX_TIMEOUT
    BY <1>1, IntervalIs, Half DEF ClockType
<1>5. ASSUME NEW t \in Clk, Signed(systick_timems, t) > - lag - MaxLag
      PROVE  Signed(systick_timems', t) = Signed(systick_timems, t) - 1
    <2>1. Signed(systick_timems, t) \in Int
        BY <1>3, SignedRange, Half
    <2>2. Signed(systick_timems, t) > - LWIP_MAX_TIMEOUT - 1
        BY <1>4, <1>5, <2>1
    <2> QED BY <1>2, <1>3, <2>2, SignedTick
<1>6. ASSUME NEW e \in Elems(next_timeout)
      PROVE  e \in Entries /\ Due(e)' = Due(e) - 1 /\ Due(e) \in Int
    <2>1. e \in Entries
        BY <1>1, ElemsType
    <2>2. Due(e) > - lag - MaxLag
        BY <1>1, <2>1, DueType DEF OrderInv, Window
    <2> QED BY <1>1, <1>5, <2>1, <2>2, DueType DEF Due
<1>7. InOrder(systick_timems, next_timeout)'
    <2> SUFFICES ASSUME NEW i \in 1 .. Len(next_timeout), NEW j \in 1 .. Len(next_timeout), i < j
                 PROVE  Due(next_timeout[i])' <= Due(next_timeout[j])'
        BY <1>2 DEF InOrder, Due
    <2>1. /\ next_timeout[i] \in Elems(next_timeout) /\ next_timeout[j] \in Elems(next_timeout)
          /\ Due(next_timeout[i]) <= Due(next_timeout[j])
        BY DEF OrderInv, InOrder, Elems, Due
    <2>2. \A e \in Elems(next_timeout) :
              Signed(systick_timems', e.time) = Due(e) - 1 /\ Due(e) \in Int
        BY <1>6 DEF Due
    <2>3. Due(next_timeout[i])' = Due(next_timeout[i]) - 1
        BY <1>2, <2>1, <2>2 DEF Due
    <2>4. Due(next_timeout[j])' = Due(next_timeout[j]) - 1
        BY <1>2, <2>1, <2>2 DEF Due
    <2> QED BY <2>1, <2>2, <2>3, <2>4
<1>8. Window'
    <2> SUFFICES ASSUME NEW e \in Elems(next_timeout)
                 PROVE  /\ Due(e)' <= Interval[e.h]
                        /\ Due(e)' > - lag' - (IF InCall THEN MaxLag ELSE 0)
        BY <1>2 DEF Window, InCall
    <2>1. Due(e)' = Due(e) - 1 /\ Due(e) \in Int /\ Interval[e.h] \in Nat
        BY <1>1, <1>6, DueType
    <2>2. Due(e) <= Interval[e.h] /\ Due(e) > - lag - (IF InCall THEN MaxLag ELSE 0)
        BY DEF OrderInv, Window
    <2> QED BY <1>2, <1>4, <2>1, <2>2
<1>9. CallInv'
    <2>1. ASSUME NEW e \in Elems(next_timeout)
          PROVE  /\ ran[e.h] = 1 => Due(e)' >= - lag'
                 /\ ran[e.h] = 2 \/ (e.h = Tcp /\ ran[e.h] = 1) => Due(e)' > - lag'
        BY <1>2, <1>4, <1>6 DEF OrderInv, CallInv
    <2>2. InCall' => Signed(systick_timems', now') + lag' = 0
        <3>1. ASSUME InCall PROVE Signed(systick_timems', now) + (lag + 1) = 0
            <4>1. Signed(systick_timems, now) + lag = 0 /\ Signed(systick_timems, now) \in Int
                BY <1>3, <3>1, SignedRange, Half DEF OrderInv, CallInv
            <4>2. Signed(systick_timems, now) > - lag - MaxLag
                BY <1>2, <1>4, <4>1
            <4>3. Signed(systick_timems', now) = Signed(systick_timems, now) - 1
                BY <1>3, <1>5, <4>2
            <4> QED BY <1>4, <4>1, <4>3
        <3> QED BY <1>2, <3>1 DEF InCall
    <2>3. pc' = "handler" =>
              /\ Due(current)' <= - lag' /\ Due(current)' > - lag' - MaxLag
              /\ ran'[current'.h] > 0
              /\ ran'[current'.h] = 2 => Due(current)' = - lag'
        <3> SUFFICES ASSUME pc = "handler"
                     PROVE  /\ Due(current)' <= - lag' /\ Due(current)' > - lag' - MaxLag
                            /\ ran[current.h] > 0
                            /\ ran[current.h] = 2 => Due(current)' = - lag'
            BY <1>2
        <3>1. /\ Due(current) <= - lag /\ Due(current) > - lag - MaxLag
              /\ ran[current.h] > 0
              /\ ran[current.h] = 2 => Due(current) = - lag
            BY DEF OrderInv, CallInv
        <3>2. Due(current)' = Due(current) - 1 /\ Due(current) \in Int
            BY <1>1, <1>2, <1>3, <1>5, <3>1, DueType DEF Due
        <3> QED BY <1>2, <1>4, <3>1, <3>2
    <2>4. NoBurst' /\ (~InCall' => ran' = NotRun)
        BY <1>2 DEF OrderInv, CallInv, NoBurst, InCall
    <2> QED BY <1>2, <2>1, <2>2, <2>3, <2>4 DEF CallInv
<1> QED BY <1>7, <1>8, <1>9 DEF OrderInv

\* The first timeout is due, or none is.
LEMMA OrderCheck == ASSUME TimesTypeOK, OneInv, OrderInv, Check PROVE OrderInv'
<1>1. ClockType /\ ListType
    BY TypeParts
<1>2. /\ pc = "check" /\ Signed(systick_timems, now) + lag = 0
      /\ systick_timems' = systick_timems /\ lag' = lag /\ NoBurst
    BY DEF Check, Expire, CheckDone, OrderInv, CallInv, InCall, clockVars
<1>3. \A e : Due(e)' = Signed(systick_timems, e.time)
    BY <1>2 DEF Due
<1>4. ASSUME NEW e \in Elems(next_timeout)
      PROVE  e \in Entries /\ (Before(now, e.time) <=> - lag < Due(e))
    <2>1. e \in Entries
        BY <1>1, ElemsType
    <2>2. Due(e) > - lag - MaxLag /\ Due(e) <= Interval[e.h]
        BY <1>1, <2>1, DueType DEF OrderInv, Window
    <2>3. - lag - Due(e) \in - LWIP_MAX_TIMEOUT .. LWIP_MAX_TIMEOUT
        BY <1>1, <2>1, <2>2, DueType
    <2>4. systick_timems \in Clk /\ now \in Clk /\ e.time \in Clk
        BY <1>1, <2>1, DueType DEF ClockType, ListType
    <2>5. Signed(systick_timems, now) = - lag
        BY <1>1, <1>2, <2>1, <2>4, SignedRange, Half, DueType
    <2> QED BY <2>1, <2>3, <2>4, <2>5, BeforeSigned DEF Due
<1>5. CASE Expire
    <2> DEFINE t == Head(next_timeout)
    <2>1. /\ next_timeout # <<>> /\ ~Before(now, t.time) /\ current' = t
          /\ ran' = [ran EXCEPT ![t.h] = @ + 1] /\ next_timeout' = Tail(next_timeout)
          /\ pc' = "handler" /\ now' = now
        BY <1>5 DEF Expire
    <2>2. /\ Elems(next_timeout) = Elems(next_timeout') \cup {t}
          /\ InOrder(systick_timems, next_timeout')
          /\ \A e \in Elems(next_timeout') : e.h # t.h
        BY <1>1, <2>1, TailElems DEF ClockType, ListType, OrderInv, OneInv
    <2> HIDE DEF t
    <2>3. t \in Entries /\ Due(t) <= - lag /\ Due(t) > - lag - MaxLag
        <3>1. t \in Entries /\ ~(- lag < Due(t))
            BY <1>4, <2>1, <2>2
        <3>2. Due(t) > - lag - MaxLag
            BY <1>1, <2>2, <3>1, DueType DEF OrderInv, Window, InCall
        <3> QED BY <1>1, <3>1, <3>2, DueType
    <2>4. /\ ran[t.h] \in 0 .. 1 /\ (t.h = Tcp => ran[t.h] = 0)
          /\ ran[t.h] = 1 => Due(t) = - lag
        <3>1. /\ ran[t.h] = 1 => Due(t) >= - lag
              /\ ran[t.h] = 2 \/ (t.h = Tcp /\ ran[t.h] = 1) => Due(t) > - lag
            BY <2>2 DEF OrderInv, CallInv
        <3>2. ran[t.h] \in 0 .. 2 /\ (t.h = Tcp => ran[t.h] \in 0 .. 1)
            BY <1>1, <1>2, <2>3, RanIs, DueType
        <3> QED BY <1>1, <2>3, <3>1, <3>2, DueType
    <2>5. t.h \in Timers /\ ran \in [Timers -> Nat]
        BY <1>1, <2>3, DueType DEF ListType
    <2>6. /\ ran'[t.h] = ran[t.h] + 1
          /\ \A h \in Timers : h # t.h => ran'[h] = ran[h]
        BY <2>1, <2>5
    <2>7. NoBurst'
        <3>1. /\ ran[Tcp] <= 1 /\ \A h \in Cyclic : ran[h] <= 2
              /\ ran[Tcp] \in Nat /\ \A h \in Cyclic : h \in Timers
            BY <1>2, <2>5, TcpIs DEF NoBurst, Timers
        <3>2. ran'[Tcp] <= 1
            BY <2>4, <2>6, <3>1, TcpIs
        <3>3. \A h \in Cyclic : ran'[h] <= 2
            BY <2>4, <2>6, <3>1
        <3> QED BY <3>2, <3>3 DEF NoBurst
    <2>8. Window'
        BY <1>2, <2>1, <2>2 DEF OrderInv, Window, Due, InCall
    <2>9. ASSUME NEW e \in Elems(next_timeout')
          PROVE  /\ ran'[e.h] = 1 => Due(e) >= - lag
                 /\ ran'[e.h] = 2 \/ (e.h = Tcp /\ ran'[e.h] = 1) => Due(e) > - lag
        <3>1. e \in Elems(next_timeout) /\ e.h \in Timers /\ e.h # t.h
            BY <1>1, <1>4, <2>2, DueType
        <3>2. ran'[e.h] = ran[e.h]
            BY <2>6, <3>1
        <3> QED BY <3>1, <3>2 DEF OrderInv, CallInv
    <2>10. /\ ran'[t.h] > 0 /\ (ran'[t.h] = 2 => Due(t) = - lag)
        BY <2>4, <2>6
    <2>11. CallInv'
        BY <1>2, <2>1, <2>3, <2>7, <2>9, <2>10 DEF CallInv, Due, InCall
    <2> QED BY <1>2, <2>2, <2>8, <2>11 DEF OrderInv
<1>6. CASE CheckDone
    <2>1. /\ pc' = "main" /\ ran' = NotRun /\ next_timeout' = next_timeout
          /\ next_timeout = <<>> \/ Before(now, Head(next_timeout).time)
        BY <1>6 DEF CheckDone, listVars
    <2>2. ASSUME NEW e \in Elems(next_timeout)
          PROVE  e \in Entries /\ Due(e) > - lag
        <3>1. next_timeout # <<>>
            BY DEF Elems
        <3>2. /\ Head(next_timeout) \in Elems(next_timeout)
              /\ Due(Head(next_timeout)) <= Due(e)
            <4>1. \A f \in Elems(next_timeout) :
                      f = Head(next_timeout)
                        \/ Signed(systick_timems, Head(next_timeout).time)
                               <= Signed(systick_timems, f.time)
                BY <1>1, <3>1, TailElems DEF ClockType, ListType, OrderInv
            <4>2. Head(next_timeout) \in Elems(next_timeout)
                BY <1>1, <3>1, TailElems DEF ListType
            <4> QED BY <1>1, <1>4, <4>1, <4>2, DueType DEF Due
        <3>3. - lag < Due(Head(next_timeout))
            BY <1>4, <2>1, <3>1, <3>2
        <3> QED BY <1>1, <1>4, <3>2, <3>3, DueType
    <2>3. Window'
        BY <1>2, <1>1, <2>1, <2>2, DueType DEF OrderInv, Window, Due, InCall
    <2>4. NoBurst'
        BY <2>1, TcpIs DEF NoBurst, NotRun, Timers
    <2>5. \A h \in Timers : ran'[h] = 0
        BY <2>1 DEF NotRun
    <2>6. ASSUME NEW e \in Elems(next_timeout)
          PROVE  ran'[e.h] # 1 /\ ran'[e.h] # 2
        BY <1>1, <2>2, <2>5, DueType
    <2>7. CallInv'
        BY <2>1, <2>4, <2>6 DEF CallInv, InCall
    <2> QED BY <1>2, <2>1, <2>3, <2>7 DEF OrderInv
<1> QED BY <1>5, <1>6 DEF Check

LEMMA OrderHandler == ASSUME TimesTypeOK, OrderInv, Handler PROVE OrderInv'
<1>1. ClockType /\ ListType
    BY TypeParts
<1>2. /\ pc = "handler" /\ pc' = "check" /\ (InCall' <=> InCall)
      /\ UNCHANGED <<systick_timems, lag, now, ran>>
    BY DEF Handler, TcpTimer, CyclicTimer, InCall, clockVars
<1>3. /\ Due(current) <= - lag /\ Due(current) > - lag - MaxLag
      /\ ran[current.h] > 0
      /\ ran[current.h] = 2 => Due(current) = - lag
    BY <1>2 DEF OrderInv, CallInv
<1>4. CASE TcpTimer
    <2> DEFINE t == Timeout(Tcp, Plus(systick_timems, Interval[Tcp]))
    <2>1. t \in Entries /\ t.h = Tcp /\ Due(t) = Interval[Tcp]
        BY <1>1, DueAfter, TcpIs
    <2> HIDE DEF t
    <2>2. CASE next_timeout' = Added(t, next_timeout)
        <3>1. Due(t) > 0 /\ Due(t) > - lag /\ Due(t) <= Interval[t.h]
            BY <1>1, <2>1, DueType
        <3> QED BY <1>1, <1>2, <2>1, <2>2, <3>1, AddOrder, DueType
    <2>3. CASE next_timeout' = next_timeout
        BY <1>2, <2>3 DEF OrderInv, Window, CallInv, NoBurst, Due, InCall
    <2> QED BY <1>4, <2>2, <2>3 DEF TcpTimer, TcpTimerAgain, listVars, t
<1>5. CASE CyclicTimer
    <2> DEFINE t == Timeout(current.h, NextTime(current.h))
    <2>1. /\ t \in Entries /\ t.h = current.h
          /\ Due(t) >= 0 /\ Due(t) <= Interval[current.h]
          /\ Due(current) = - lag => Due(t) > - lag
        BY <1>1, <1>3, DueNext
    <2>2. next_timeout' = Added(t, next_timeout) /\ current.h # Tcp
        BY <1>5, TcpIs DEF CyclicTimer
    <2> HIDE DEF t
    <2>3. InCall
        BY <1>2 DEF InCall
    <2>4. Due(t) > 0 \/ (Due(t) = 0 /\ InCall)
        BY <1>1, <2>1, <2>3, DueType
    <2>5. ran[t.h] = 2 \/ (t.h = Tcp /\ ran[t.h] = 1) => Due(t) > - lag
        BY <1>3, <2>1, <2>2
    <2>6. Due(t) <= Interval[t.h]
        BY <2>1
    <2> QED BY <1>1, <1>2, <2>1, <2>2, <2>4, <2>5, <2>6, AddOrder
<1> QED BY <1>4, <1>5 DEF Handler

LEMMA OrderNext == TimesTypeOK /\ OneInv /\ OrderInv /\ [TimesNext]_timeVars => OrderInv'
<1> SUFFICES ASSUME TimesTypeOK, OneInv, OrderInv, [TimesNext]_timeVars PROVE OrderInv'
    OBVIOUS
<1>1. ClockType /\ ListType
    BY TypeParts
<1>2. ASSUME NEW h \in Timers, pc \in {"init", "main"}, pc' = pc,
             next_timeout' = Added(Timeout(h, Plus(systick_timems, Interval[h])), next_timeout),
             UNCHANGED <<systick_timems, lag, now, ran>>
      PROVE  OrderInv'
    <2> DEFINE t == Timeout(h, Plus(systick_timems, Interval[h]))
    <2>1. t \in Entries /\ t.h = h /\ Due(t) = Interval[h]
        BY <1>1, DueAfter
    <2>2. Due(t) > 0 /\ Due(t) > - lag /\ Due(t) <= Interval[t.h]
        BY <1>1, <2>1, DueType
    <2>3. next_timeout' = Added(t, next_timeout)
        BY <1>2
    <2> HIDE DEF t
    <2>4. (InCall' <=> InCall) /\ pc' # "handler"
        BY <1>2 DEF InCall
    <2> QED BY <1>1, <1>2, <2>1, <2>2, <2>3, <2>4, AddOrder, DueType
<1>3. ASSUME UNCHANGED <<systick_timems, lag, next_timeout, now, ran, current>>,
             pc' = pc \/ (pc \notin {"check", "handler"} /\ pc' \notin {"check", "handler"})
      PROVE  OrderInv'
    BY <1>3 DEF OrderInv, Window, CallInv, NoBurst, Due, InCall
<1>4. CASE StartCyclic
    BY <1>2, <1>4 DEF StartCyclic, Timers, clockVars, checkVars
<1>5. ASSUME NEW c \in Conns, Register(c) PROVE OrderInv'
    <2>1. /\ pc = "main" /\ pc' = pc /\ UNCHANGED <<systick_timems, lag, now, ran, current>>
          /\ TcpTimerNeeded
        BY <1>5 DEF Register, clockVars, checkVars
    <2>2. CASE timer_active
        BY <1>3, <2>1, <2>2 DEF TcpTimerNeeded, listVars
    <2>3. CASE ~timer_active
        BY <1>2, <2>1, <2>3, TcpIs DEF TcpTimerNeeded
    <2> QED BY <2>2, <2>3
<1>6. CASE CheckTimeouts
    <2>1. /\ pc = "main" /\ pc' = "check" /\ now' = systick_timems /\ lag' = 0
          /\ UNCHANGED <<systick_timems, next_timeout, current, ran>>
        BY <1>6 DEF CheckTimeouts, listVars
    <2>2. Signed(systick_timems, systick_timems) = 0
        BY <1>1, SignedNow DEF ClockType
    <2>3. ASSUME NEW e \in Elems(next_timeout)
          PROVE  /\ Due(e) <= Interval[e.h] /\ Due(e) > - 0 - MaxLag
                 /\ ran[e.h] # 1 /\ ran[e.h] # 2
        <3>1. e \in Entries
            BY <1>1, ElemsType
        <3>2. Due(e) <= Interval[e.h] /\ Due(e) > - lag
            BY <1>1, <2>1, <3>1, DueType DEF OrderInv, Window, InCall
        <3>3. ran[e.h] = 0
            BY <1>1, <2>1, <3>1, DueType DEF OrderInv, CallInv, InCall, NotRun
        <3> QED BY <1>1, <3>1, <3>2, <3>3, DueType
    <2>4. Window'
        BY <2>1, <2>3 DEF Window, Due, InCall
    <2>5. CallInv'
        <3>1. NoBurst' /\ InCall'
            BY <2>1 DEF OrderInv, CallInv, NoBurst, InCall
        <3>2. Signed(systick_timems', now') + lag' = 0
            BY <2>1, <2>2
        <3>3. \A e \in Elems(next_timeout') : ran'[e.h] # 1 /\ ran'[e.h] # 2
            BY <2>1, <2>3
        <3> QED BY <2>1, <3>1, <3>2, <3>3 DEF CallInv
    <2> QED BY <2>1, <2>4, <2>5 DEF OrderInv
<1>7. CASE msDelay \/ DelayEnds \/ InitDone \/ UNCHANGED timeVars
    BY <1>3, <1>7 DEF msDelay, DelayEnds, InitDone, timeVars, clockVars, listVars, checkVars
<1>8. ASSUME NEW c \in Conns, Unregister(c) PROVE OrderInv'
    BY <1>3, <1>8 DEF Unregister, listVars, checkVars
<1> QED BY <1>4, <1>5, <1>6, <1>7, <1>8, OrderTick, OrderCheck, OrderHandler
        DEF TimesNext, sys_timeouts_init, Main

LEMMA Ordered == TimesSpec => [](TimesTypeOK /\ OneInv /\ OrderInv)
BY TypeInit, TypeNext, OneInit, OneNext, OrderInit, OrderNext, PTL DEF TimesSpec

\* THEOREM: the list is in the order of the due times, across the wrap of the clock
\* (sys_timeout_abs): looking at its head is enough.
THEOREM ListIsSorted == TimesSpec => []ListSorted
<1>1. TimesTypeOK /\ OrderInv => ListSorted
    <2> SUFFICES ASSUME TimesTypeOK, OrderInv,
                        NEW i \in 1 .. Len(next_timeout), NEW j \in 1 .. Len(next_timeout), i < j
                 PROVE  ~Before(next_timeout[j].time, next_timeout[i].time)
        BY DEF ListSorted
    <2> DEFINE d == next_timeout[i]
               e == next_timeout[j]
    <2>1. ClockType /\ ListType
        BY TypeParts
    <2>2. d \in Elems(next_timeout) /\ e \in Elems(next_timeout) /\ Due(d) <= Due(e)
        BY DEF Elems, OrderInv, InOrder, Due
    <2> HIDE DEF d, e
    <2>3. d \in Entries /\ e \in Entries
        BY <2>1, <2>2, ElemsType
    <2>4. Due(e) <= Interval[e.h] /\ Due(d) > - lag - MaxLag
        BY <2>1, <2>2, <2>3, DueType DEF OrderInv, Window
    <2>5. Due(e) - Due(d) \in - LWIP_MAX_TIMEOUT .. LWIP_MAX_TIMEOUT
        <3>1. /\ Due(e) \in Int /\ Due(d) \in Int /\ Due(d) > - 2 * MaxLag
              /\ MaxLag \in Nat /\ LWIP_MAX_TIMEOUT \in Nat
            BY <2>1, <2>3, <2>4, DueType
        <3>2. Due(e) <= LWIP_MAX_TIMEOUT - 2 * MaxLag
            BY <2>1, <2>3, <2>4, DueType
        <3> QED BY <2>2, <3>1, <3>2
    <2>6. systick_timems \in Clk /\ d.time \in Clk /\ e.time \in Clk
        BY <2>1, <2>3, DueType DEF ClockType
    <2>7. Before(e.time, d.time) <=> Due(e) < Due(d)
        BY <2>5, <2>6, BeforeSigned DEF Due
    <2>8. ~Before(e.time, d.time)
        BY <2>1, <2>2, <2>3, <2>7, DueType
    <2> QED BY <2>8 DEF d, e
<1> QED BY <1>1, Ordered, PTL

\* THEOREM: however late the loop is, one call of sys_check_timeouts runs the TCP timer at
\* most once and any other timer at most twice (sys_check_timeouts, lwip_cyclic_timer).
THEOREM NoBursts == TimesSpec => []NoBurst
<1>1. OrderInv => NoBurst
    BY DEF OrderInv, CallInv
<1> QED BY <1>1, Ordered, PTL

-----------------------------------------------------------------------------
\* The polls.

Rest(d) == IF d > 0 THEN d ELSE 0

\* r ticks from now a connection will be old enough for the slow ticks it has counted.
Enough(c, r) ==
    \/ age[c] = Period
    \/ age[c] + r >=
           Ticks(polltmr[c])
               + (IF tcp_timer = 1 THEN Interval[Tcp] ELSE 2 * Interval[Tcp])
               - (IF polled[c] THEN 0 ELSE 2 * Interval[Tcp])

\* It is when the TCP timer is due.
PollOf(c) ==
    /\ pcb[c] # "active" => age[c] = 0 /\ polltmr[c] = 0 /\ ~polled[c]
    /\ pcb[c] = "active" =>
          /\ \A e \in Elems(next_timeout) : e.h = Tcp => Enough(c, Rest(Due(e)))
          /\ Handled(Tcp) => Enough(c, 0)

PollInv == \A c \in Conns : PollOf(c)

LEMMA PollInit == TimesInit => PollInv
BY DEF TimesInit, PollInv, PollOf

LEMMA ConnType ==
    ASSUME TcpType, NEW c \in Conns
    PROVE  /\ age[c] \in Nat /\ age[c] <= Period /\ tcp_timer \in 0 .. 1
           /\ polltmr[c] \in Nat /\ polltmr[c] <= PollInterval - 1
           /\ pcb[c] \in {"none", "active", "time_wait"} /\ polled[c] \in BOOLEAN
           /\ Period \in Nat /\ PollInterval \in Nat /\ Ticks(polltmr[c]) \in Nat
           /\ Interval[Tcp] \in Nat /\ Interval[Tcp] > 0
BY TicksAre, TimeoutsAssumption DEF TcpType

\* A connection that is due for its poll is old enough.
LEMMA PollOldEnough ==
    ASSUME TcpType, NEW c \in Conns, Enough(c, 0), tcp_timer = 0, polltmr[c] + 1 >= PollInterval
    PROVE  age[c] >= IF polled[c] THEN Period ELSE Period - 2 * Interval[Tcp]
<1>1. Ticks(polltmr[c]) + 2 * Interval[Tcp] = Period
    <2>1. polltmr[c] + 1 = PollInterval
        BY ConnType
    <2> QED BY <2>1, TicksAre, ConnType
<1> QED BY <1>1, ConnType DEF Enough

LEMMA PollTick == ASSUME TimesTypeOK, OneInv, OrderInv, PollInv, SysTick PROVE PollInv'
<1>1. ClockType /\ ListType /\ TcpType
    BY TypeParts
<1>2. /\ systick_timems' = Plus(systick_timems, 1) /\ next_timeout' = next_timeout
      /\ UNCHANGED <<tcp_timer, pcb, polltmr, polled, pc, current>>
      /\ age' = [c \in Conns |-> IF pcb[c] = "active" /\ age[c] < Period THEN age[c] + 1
                                 ELSE age[c]]
    BY DEF SysTick, listVars, tcpVars, checkVars
<1>3. ASSUME NEW e \in Elems(next_timeout)
      PROVE  e \in Entries /\ Due(e)' = Due(e) - 1 /\ Due(e) \in Int
    <2>1. e \in Entries
        BY <1>1, ElemsType
    <2>2. Due(e) > - lag - MaxLag
        BY <1>1, <2>1, DueType DEF OrderInv, Window
    <2>3. Signed(systick_timems, e.time) > - LWIP_MAX_TIMEOUT - 1
        BY <1>1, <2>1, <2>2, DueType DEF Due
    <2>4. systick_timems \in Clk /\ e.time \in Clk
        BY <1>1, <2>1, DueType DEF ClockType
    <2> QED BY <1>1, <1>2, <2>1, <2>3, <2>4, SignedTick, DueType DEF Due
<1> SUFFICES ASSUME NEW c \in Conns PROVE PollOf(c)'
    BY DEF PollInv
<1>4. PollOf(c)
    BY DEF PollInv
<1>5. age'[c] = (IF pcb[c] = "active" /\ age[c] < Period THEN age[c] + 1 ELSE age[c])
    BY <1>2
<1>6. CASE pcb[c] # "active"
    BY <1>2, <1>4, <1>5, <1>6 DEF PollOf
<1>7. CASE pcb[c] = "active"
    <2>1. \A r, q \in Int : q >= r - 1 /\ Enough(c, r) => Enough(c, q)'
        BY <1>1, <1>2, <1>5, <1>7, ConnType DEF Enough
    <2>2. \A r \in Int : Enough(c, r) => Enough(c, r)'
        BY <2>1
    <2>3. ASSUME NEW e \in Elems(next_timeout), e.h = Tcp PROVE Enough(c, Rest(Due(e)))'
        <3>1. Enough(c, Rest(Due(e)))
            BY <1>4, <1>7, <2>3 DEF PollOf
        <3>2. Rest(Due(e)) \in Int /\ Rest(Due(e)') \in Int /\ Rest(Due(e)') >= Rest(Due(e)) - 1
            BY <1>3 DEF Rest
        <3>3. PICK q \in Int : q = Rest(Due(e)')
            BY <3>2
        <3>4. Enough(c, q)'
            BY <2>1, <3>1, <3>2, <3>3
        <3> QED BY <3>3, <3>4 DEF Enough, Rest, Due
    <2>4. Handled(Tcp)' => Enough(c, 0)'
        BY <1>2, <1>4, <1>7, <2>2 DEF PollOf, Handled
    <2> QED BY <1>2, <1>7, <2>3, <2>4 DEF PollOf
<1> QED BY <1>6, <1>7

\* A handler of the TCP timer leaves every connection old enough for the next one.
LEMMA PollTimer ==
    ASSUME TcpType, NEW c \in Conns, Enough(c, 0), TcpTimer, pcb'[c] = "active"
    PROVE  /\ Enough(c, Interval[Tcp])'
           /\ pcb[c] = "active"
           /\ polltmr'[c] < polltmr[c] =>
                 age[c] >= IF polled[c] THEN Period ELSE Period - 2 * Interval[Tcp]
<1>1. tcp_timer' = 1 - tcp_timer
    BY DEF TcpTimer
<1>2. pcb[c] = "active"
    BY DEF TcpTimer
<1>3. c \in Live
    BY <1>2 DEF Live
<1>4. /\ polltmr'[c] = (IF c \in PollDue THEN 0 ELSE IF Slow THEN polltmr[c] + 1 ELSE polltmr[c])
      /\ polled'[c] = (polled[c] \/ c \in PollDue)
      /\ age'[c] = (IF c \in PollDue THEN 0 ELSE age[c])
    BY <1>3 DEF TcpTimer
<1>5. c \in PollDue <=> tcp_timer = 0 /\ polltmr[c] + 1 >= PollInterval
    BY <1>3 DEF PollDue, Slow
<1>6. CASE c \in PollDue
    <2>1. polltmr'[c] = 0 /\ age'[c] = 0 /\ tcp_timer' = 1
        BY <1>1, <1>4, <1>5, <1>6
    <2>2. polled'[c]
        BY <1>4, <1>6, Zenon
    <2>3. Enough(c, Interval[Tcp])'
        <3>1. Ticks(polltmr'[c]) = 0 /\ Interval[Tcp] \in Nat
            BY <2>1, TicksAre
        <3> QED BY <2>1, <2>2, <3>1 DEF Enough
    <2>4. age[c] >= IF polled[c] THEN Period ELSE Period - 2 * Interval[Tcp]
        BY <1>5, <1>6, PollOldEnough
    <2> QED BY <1>2, <2>3, <2>4
<1>7. CASE c \notin PollDue
    <2>1. age'[c] = age[c] /\ (polled'[c] <=> polled[c])
        BY <1>4, <1>7
    <2>2. CASE tcp_timer = 0
        <3>1. polltmr'[c] = polltmr[c] + 1 /\ tcp_timer' = 1
            BY <1>1, <1>4, <1>7, <2>2 DEF Slow
        <3>2. Ticks(polltmr'[c]) = Ticks(polltmr[c]) + 2 * Interval[Tcp]
            BY <3>1, TicksAre, ConnType
        <3>3. Enough(c, Interval[Tcp])'
            BY <2>1, <2>2, <3>1, <3>2, ConnType DEF Enough
        <3> QED BY <1>2, <3>1, <3>3, ConnType
    <2>3. CASE tcp_timer = 1
        <3>1. polltmr'[c] = polltmr[c] /\ tcp_timer' = 0
            BY <1>1, <1>4, <1>7, <2>3 DEF Slow
        <3>2. Enough(c, Interval[Tcp])'
            BY <2>1, <2>3, <3>1, ConnType DEF Enough
        <3> QED BY <1>2, <3>1, <3>2, ConnType
    <2> QED BY <2>2, <2>3, ConnType
<1> QED BY <1>6, <1>7

LEMMA PollNext ==
    TimesTypeOK /\ OneInv /\ OrderInv /\ PollInv /\ [TimesNext]_timeVars => PollInv'
<1> SUFFICES ASSUME TimesTypeOK, OneInv, OrderInv, PollInv, [TimesNext]_timeVars,
                    NEW c \in Conns
             PROVE  PollOf(c)'
    BY DEF PollInv
<1>0. ClockType /\ ListType /\ TcpType /\ PollOf(c) /\ Tcp \in Timers
    BY TypeParts, TcpIs DEF PollInv
\* The connection and the TCP timer stay as they are.
<1>1. ASSUME UNCHANGED <<systick_timems, tcp_timer>>,
             UNCHANGED <<age[c], polltmr[c], polled[c], pcb[c]>>,
             \A e \in Elems(next_timeout') : e.h = Tcp => e \in Elems(next_timeout),
             Handled(Tcp)' => Handled(Tcp)
      PROVE  PollOf(c)'
    <2>1. \A r : Enough(c, r)' <=> Enough(c, r)
        BY <1>1 DEF Enough
    <2>2. ASSUME NEW e \in Elems(next_timeout'), e.h = Tcp, pcb[c] = "active"
          PROVE  Enough(c, Rest(Due(e)))'
        <3>1. Enough(c, Rest(Due(e)))
            BY <1>0, <1>1, <2>2 DEF PollOf
        <3> QED BY <1>1, <3>1 DEF Enough, Rest, Due
    <2> QED BY <1>0, <1>1, <2>1, <2>2 DEF PollOf
\* A timeout of the TCP timer is due in a period.
<1> DEFINE t == Timeout(Tcp, Plus(systick_timems, Interval[Tcp]))
<1>2. t \in Entries /\ t.h = Tcp /\ Due(t) = Interval[Tcp] /\ Rest(Due(t)) = Interval[Tcp]
    BY <1>0, DueAfter, TicksAre DEF Rest
<1> HIDE DEF t
<1>3. CASE StartCyclic
    <2>1. PICK h \in Cyclic :
              next_timeout' = Added(Timeout(h, Plus(systick_timems, Interval[h])), next_timeout)
        BY <1>3 DEF StartCyclic
    <2> DEFINE e == Timeout(h, Plus(systick_timems, Interval[h]))
    <2>2. e \in Entries /\ e.h = h /\ h # Tcp
        BY <1>0, DueAfter, TcpIs DEF Timers
    <2>3. Elems(next_timeout') = Elems(next_timeout) \cup {e}
        BY <1>0, <2>1, <2>2, AddedElems DEF ListType
    <2> HIDE DEF e
    <2>4. \A f \in Elems(next_timeout') : f.h = Tcp => f \in Elems(next_timeout)
        BY <2>2, <2>3
    <2> QED BY <1>1, <1>3, <2>4 DEF StartCyclic, clockVars, tcpVars, checkVars, Handled
<1>4. CASE CyclicTimer
    <2> DEFINE e == Timeout(current.h, NextTime(current.h))
    <2>1. next_timeout' = Added(e, next_timeout) /\ current.h # Tcp /\ pc = "handler"
        BY <1>4, TcpIs DEF CyclicTimer
    <2>2. e \in Entries /\ e.h = current.h
        BY <1>0, <2>1, DueNext DEF OrderInv, CallInv
    <2>3. Elems(next_timeout') = Elems(next_timeout) \cup {e}
        BY <1>0, <2>1, <2>2, AddedElems DEF ListType
    <2> HIDE DEF e
    <2>4. \A f \in Elems(next_timeout') : f.h = Tcp => f \in Elems(next_timeout)
        BY <2>1, <2>2, <2>3
    <2> QED BY <1>1, <1>4, <2>4 DEF CyclicTimer, clockVars, tcpVars, Handled
<1>5. ASSUME NEW d \in Conns, Register(d) PROVE PollOf(c)'
    <2>1. /\ pc = "main" /\ pc' = "main" /\ pcb[d] = "none" /\ pcb' = [pcb EXCEPT ![d] = "active"]
          /\ UNCHANGED <<systick_timems, age, tcp_timer, polltmr, polled>> /\ TcpTimerNeeded
        BY <1>5 DEF Register, clockVars
    <2>2. CASE d = c
        <3>1. /\ age'[c] = 0 /\ polltmr'[c] = 0 /\ ~polled'[c] /\ pcb'[c] = "active"
            BY <1>0, <2>1, <2>2 DEF PollOf, TcpType
        <3>2. Ticks(polltmr'[c]) = 0
            BY <3>1, TicksAre
        <3>3. ASSUME NEW n \in Nat PROVE Enough(c, n)'
            BY <1>0, <2>1, <3>1, <3>2, ConnType DEF Enough
        <3>4. ASSUME NEW e \in Elems(next_timeout') PROVE Enough(c, Rest(Due(e)))'
            <4>1. next_timeout' \in Seq(Entries)
                BY <1>0, ListTypeNext DEF ListType
            <4>2. e \in Entries
                BY <4>1 DEF Elems
            <4>3. Rest(Due(e)) \in Nat
                BY <1>0, <4>2, DueType DEF Rest
            <4>4. PICK n \in Nat : n = Rest(Due(e))
                BY <4>3
            <4> QED BY <2>1, <3>3, <4>4 DEF Enough, Rest, Due
        <3> QED BY <2>1, <3>1, <3>4 DEF PollOf, Handled
    <2>3. CASE d # c
        <3>1. pcb'[c] = pcb[c]
            BY <1>0, <2>1, <2>3 DEF TcpType
        <3>2. CASE timer_active
            <4>1. next_timeout' = next_timeout
                BY <2>1, <3>2 DEF TcpTimerNeeded, listVars
            <4> QED BY <1>1, <2>1, <3>1, <4>1 DEF Handled
        <3>3. CASE ~timer_active
            <4>1. pcb[c] = "none"
                BY <3>3 DEF OneInv
            <4> QED BY <1>0, <2>1, <3>1, <4>1 DEF PollOf
        <3> QED BY <3>2, <3>3
    <2> QED BY <2>2, <2>3
<1>6. ASSUME NEW d \in Conns, Unregister(d) PROVE PollOf(c)'
    <2>1. /\ pc = "main" /\ pc' = "main" /\ UNCHANGED <<systick_timems, next_timeout, tcp_timer>>
          /\ polltmr' = [polltmr EXCEPT ![d] = 0] /\ polled' = [polled EXCEPT ![d] = FALSE]
          /\ age' = [age EXCEPT ![d] = 0]
          /\ \E s \in {"none", "time_wait"} : pcb' = [pcb EXCEPT ![d] = s]
        BY <1>6 DEF Unregister, listVars
    <2>2. CASE d = c
        <3>1. pcb'[c] # "active" /\ polltmr'[c] = 0 /\ ~polled'[c] /\ age'[c] = 0
            BY <1>0, <2>1, <2>2 DEF TcpType
        <3> QED BY <3>1 DEF PollOf
    <2>3. CASE d # c
        <3>1. UNCHANGED <<age[c], polltmr[c], polled[c], pcb[c]>>
            BY <1>0, <2>1, <2>3 DEF TcpType
        <3> QED BY <1>1, <2>1, <3>1 DEF Handled
    <2> QED BY <2>2, <2>3
<1>7. CASE Expire
    <2>1. /\ next_timeout # <<>> /\ current' = Head(next_timeout)
          /\ next_timeout' = Tail(next_timeout) /\ pc = "check" /\ pc' = "handler"
          /\ UNCHANGED <<systick_timems, lag, age, tcp_timer, pcb, polltmr, polled>>
        BY <1>7 DEF Expire, clockVars, tcpVars
    <2>2. Elems(next_timeout) = Elems(next_timeout') \cup {current'} /\ current' \in Entries
        BY <1>0, <2>1, TailElems DEF ListType
    <2>3. CASE current'.h = Tcp
        <3>1. OrderInv'
            BY OrderNext
        <3>2. Due(current)' <= - lag'
            BY <2>1, <3>1 DEF OrderInv, CallInv
        <3>3. Rest(Due(current)') = 0
            <4>1. lag' \in Nat
                BY <1>0, <2>1, IntervalIs DEF ClockType
            <4>2. Due(current)' \in Int
                BY <1>0, <2>1, <2>2, DueType DEF Due
            <4> QED BY <3>2, <4>1, <4>2 DEF Rest
        <3>4. pcb[c] = "active" => Enough(c, Rest(Due(current)'))
            BY <1>0, <2>1, <2>2, <2>3 DEF PollOf, Due
        <3>5. pcb[c] = "active" => Enough(c, 0)'
            BY <2>1, <3>3, <3>4 DEF Enough
        <3>6. ASSUME NEW e \in Elems(next_timeout'), e.h = Tcp, pcb[c] = "active"
              PROVE  Enough(c, Rest(Due(e)))'
            <4>1. Enough(c, Rest(Due(e)))
                BY <1>0, <2>2, <3>6 DEF PollOf
            <4> QED BY <2>1, <4>1 DEF Enough, Rest, Due
        <3> QED BY <1>0, <2>1, <3>5, <3>6 DEF PollOf
    <2>4. CASE current'.h # Tcp
        BY <1>1, <2>1, <2>2, <2>4 DEF Handled
    <2> QED BY <2>3, <2>4
<1>8. CASE TcpTimer
    <2>1. /\ pc = "handler" /\ current.h = Tcp /\ pc' = "check" /\ TcpTimerAgain
          /\ systick_timems' = systick_timems /\ ~Has(next_timeout, Tcp)
        BY <1>8 DEF TcpTimer, OneInv
    <2>2. CASE pcb'[c] # "active"
        <3>1. c \notin PollDue \/ c \in PollDue
            OBVIOUS
        <3>2. polltmr'[c] = 0 /\ age'[c] = 0 /\ ~polled'[c]
            BY <1>8, <2>2 DEF TcpTimer
        <3> QED BY <2>2, <3>2 DEF PollOf
    <2>3. CASE pcb'[c] = "active"
        <3>1. Enough(c, Interval[Tcp])'
            <4>1. pcb[c] = "active"
                BY <1>8, <2>3 DEF TcpTimer
            <4>2. Enough(c, 0)
                BY <1>0, <2>1, <4>1 DEF PollOf, Handled
            <4> QED BY <1>0, <1>8, <2>3, <4>2, PollTimer
        <3>2. next_timeout' = Added(t, next_timeout)
            BY <2>1, <2>3 DEF TcpTimerAgain, t
        <3>3. Elems(next_timeout') = Elems(next_timeout) \cup {t}
            BY <1>0, <1>2, <3>2, AddedElems DEF ListType
        <3>4. ASSUME NEW e \in Elems(next_timeout'), e.h = Tcp PROVE Enough(c, Rest(Due(e)))'
            <4>1. e = t
                BY <2>1, <3>3, <3>4 DEF Has
            <4>2. Rest(Due(e)) = Interval[Tcp]
                BY <1>2, <4>1
            <4> QED BY <2>1, <3>1, <4>2 DEF Enough, Rest, Due
        <3> QED BY <2>1, <2>3, <3>4 DEF PollOf, Handled
    <2> QED BY <2>2, <2>3
<1>9. CASE CheckTimeouts \/ CheckDone \/ msDelay \/ DelayEnds \/ InitDone \/ UNCHANGED timeVars
    <2>1. /\ UNCHANGED <<systick_timems, next_timeout, current, age, tcp_timer, pcb, polltmr, polled>>
          /\ pc' = "handler" => pc = "handler"
        BY <1>9 DEF CheckTimeouts, CheckDone, msDelay, DelayEnds, InitDone, timeVars, clockVars,
                    listVars, tcpVars, checkVars
    <2> QED BY <1>1, <2>1 DEF Handled
<1>10. CASE SysTick
    BY <1>10, PollTick DEF PollInv
<1> QED BY <1>3, <1>4, <1>5, <1>6, <1>7, <1>8, <1>9, <1>10
        DEF TimesNext, sys_timeouts_init, Main, Check, Handler

\* A step polls a connection only when it is old enough.
LEMMA PollStep ==
    ASSUME TimesTypeOK, PollInv, [TimesNext]_timeVars, NEW c \in Conns,
           pcb'[c] = "active", polltmr'[c] < polltmr[c]
    PROVE  age[c] >= IF polled[c] THEN Period ELSE Period - 2 * Interval[Tcp]
<1>0. TcpType /\ PollOf(c)
    BY TypeParts DEF PollInv
<1>1. CASE TcpTimer
    <2>1. pcb[c] = "active" /\ Handled(Tcp)
        BY <1>1 DEF TcpTimer, Handled
    <2> QED BY <1>0, <1>1, <2>1, PollTimer DEF PollOf
<1>2. ASSUME NEW d \in Conns, Register(d) PROVE FALSE
    BY <1>0, <1>2, ConnType DEF Register
<1>3. ASSUME NEW d \in Conns, Unregister(d) PROVE FALSE
    <2>1. /\ polltmr' = [polltmr EXCEPT ![d] = 0]
          /\ \E s \in {"none", "time_wait"} : pcb' = [pcb EXCEPT ![d] = s]
        BY <1>3 DEF Unregister
    <2>2. d # c
        BY <1>0, <2>1 DEF TcpType
    <2>3. polltmr'[c] = polltmr[c]
        BY <1>0, <2>1, <2>2 DEF TcpType
    <2> QED BY <1>0, <2>3, ConnType
<1>4. ASSUME polltmr' = polltmr PROVE FALSE
    BY <1>0, <1>4, ConnType
<1> QED BY <1>1, <1>2, <1>3, <1>4
        DEF TimesNext, sys_timeouts_init, Main, Check, Handler, SysTick, StartCyclic, InitDone,
            msDelay, DelayEnds, CheckTimeouts, Expire, CheckDone, CyclicTimer, timeVars, tcpVars

\* THEOREM: a connection is not polled sooner than a whole period after its last poll,
\* however late the loop is, and the first poll comes at most one slow tick early
\* (tcp_slowtmr, http_poll).
THEOREM PollsAreSpaced == TimesSpec => PollsSpaced
<1>1. TimesTypeOK /\ PollInv /\ [TimesNext]_timeVars =>
          [\A c \in Conns : pcb'[c] = "active" /\ polltmr'[c] < polltmr[c] =>
              age[c] >= IF polled[c] THEN Period ELSE Period - 2 * Interval[Tcp]]_timeVars
    BY PollStep
<1> QED BY <1>1, TypeInit, TypeNext, OneInit, OneNext, OrderInit, OrderNext, PollInit, PollNext, PTL
        DEF TimesSpec, PollsSpaced

-----------------------------------------------------------------------------
\* Delays.

DelayInv ==
    /\ systick_timems \in 0 .. TimeMod - 1
    /\ to \in 0 .. TimeMod - 1
    /\ delayed \in [ms : Nat, ticks : Nat]
    /\ pc = "delay" =>
           /\ delayed.ticks <= delayed.ms
           /\ \/ to - systick_timems = delayed.ms - delayed.ticks
              \/ to <= systick_timems /\ delayed.ticks = 0

LEMMA DelayInit == TimesInit => DelayInv
BY Clock DEF TimesInit, DelayInv, NoDelay

LEMMA DelayNext == DelayInv /\ [TimesNext]_timeVars => DelayInv'
<1> SUFFICES ASSUME DelayInv, [TimesNext]_timeVars PROVE DelayInv'
    OBVIOUS
<1>1. CASE SysTick
    <2>1. /\ systick_timems' = Plus(systick_timems, 1) /\ pc' = pc /\ to' = to
          /\ pc = "delay" => to > systick_timems
          /\ delayed' = [delayed EXCEPT !.ticks = IF pc = "delay" THEN @ + 1 ELSE @]
        BY <1>1 DEF SysTick
    <2>2. systick_timems' = (IF systick_timems + 1 < TimeMod THEN systick_timems + 1 ELSE 0)
        <3>1. 1 \in 0 .. TimeMod - 1 \/ TimeMod = 1
            BY Clock
        <3>2. CASE TimeMod = 1
            BY <3>2, TimeoutsAssumption
        <3> QED BY <2>1, <3>1, <3>2, Clock DEF DelayInv
    <2>3. CASE pc = "delay"
        <3>1. systick_timems' = systick_timems + 1 /\ to - systick_timems = delayed.ms - delayed.ticks
            BY <2>1, <2>2, <2>3, Clock DEF DelayInv
        <3>2. delayed'.ms = delayed.ms /\ delayed'.ticks = delayed.ticks + 1
              /\ delayed' \in [ms : Nat, ticks : Nat]
            BY <2>1, <2>3 DEF DelayInv
        <3> QED BY <2>1, <2>3, <3>1, <3>2, Clock DEF DelayInv
    <2>4. CASE pc # "delay"
        BY <2>1, <2>2, <2>4, Clock DEF DelayInv
    <2> QED BY <2>3, <2>4
<1>2. CASE msDelay
    <2>1. PICK ms \in Delays : to' = Plus(systick_timems, ms) /\ delayed' = [ms |-> ms, ticks |-> 0]
        BY <1>2 DEF msDelay
    <2>2. systick_timems' = systick_timems
        BY <1>2 DEF msDelay
    <2>3. ms \in 0 .. TimeMod - 1
        <3>1. ms \in 1 .. LWIP_MAX_TIMEOUT
            BY TimeoutsAssumption
        <3> QED BY <3>1, Clock
    <2>4. to' = (IF systick_timems + ms < TimeMod THEN systick_timems + ms
                 ELSE systick_timems + ms - TimeMod)
        BY <2>1, <2>3, Clock DEF DelayInv
    <2> QED BY <2>1, <2>2, <2>3, <2>4, Clock DEF DelayInv
<1>3. CASE DelayEnds
    BY <1>3, Clock DEF DelayEnds, DelayInv, NoDelay
<1>4. ASSUME UNCHANGED <<systick_timems, delayed, to>>, pc' # "delay" \/ pc' = pc
      PROVE  DelayInv'
    BY <1>4 DEF DelayInv
<1>5. ASSUME NEW c \in Conns, Register(c) \/ Unregister(c) PROVE DelayInv'
    BY <1>4, <1>5 DEF Register, Unregister, clockVars
<1>6. CASE CheckTimeouts \/ Check \/ Handler
    BY <1>4, <1>6 DEF CheckTimeouts, Check, Expire, CheckDone, Handler, TcpTimer, CyclicTimer, clockVars
<1>7. CASE sys_timeouts_init \/ UNCHANGED timeVars
    BY <1>4, <1>7 DEF sys_timeouts_init, StartCyclic, InitDone, timeVars, clockVars
<1> QED BY <1>1, <1>2, <1>3, <1>5, <1>6, <1>7 DEF TimesNext, Main

\* THEOREM: msDelay lasts as many ticks as it was asked to, or none when the sum of the
\* clock and the delay wraps (SysTick_Handler and msDelay); never longer.
THEOREM DelayIsHonest == TimesSpec => []DelayHonest
<1>1. DelayInv => DelayHonest
    BY DEF DelayInv, DelayHonest
<1> QED BY <1>1, DelayInit, DelayNext, PTL DEF TimesSpec
=============================================================================
