-------------------------- MODULE LwipTimersProofs --------------------------
(***************************************************************************)
(* The timers of lwIP fire on time and none is lost, for any timers, any   *)
(* intervals, any rate of the ticks and a tick counter of any width that   *)
(* the intervals fit.                                                      *)
(*                                                                         *)
(* The list is kept in differences, and sys_timeout changes the one after  *)
(* the new entry.  Due(l), the set of the timers with the times in which   *)
(* they are due, is what does not depend on that: the lemmas say what each *)
(* operation on the list does to Due(l), the invariant is about Due.       *)
(***************************************************************************)
EXTENDS LwipTimers, SequenceTheorems, FiniteSetTheorems, TLAPS

-----------------------------------------------------------------------------
(* Induction, from the order of the numbers being well-founded.            *)

LEMMA NaturalsWellFounded == IsWellFoundedOn({x \in Nat \X Nat : x[1] < x[2]}, Nat)
BY NatLessThanWellFounded DEF OpToRel

LEMMA LeastNatural ==
  ASSUME NEW T, T \subseteq Nat, T # {}
  PROVE  \E m \in T : \A n \in T : m <= n
<1>1. PICK R : R = {x \in Nat \X Nat : x[1] < x[2]}
  OBVIOUS
<1>2. PICK m \in T : \A n \in T : <<n, m>> \notin R
  BY <1>1, NaturalsWellFounded, WFMin
<1>3. ASSUME NEW n \in T PROVE m <= n
  <2>1. ~(n < m)
    BY <1>1, <1>2
  <2>. QED
    BY <2>1
<1>. QED
  BY <1>3

LEMMA InductionTo ==
  ASSUME NEW n \in Nat, NEW T, 0 \in T,
         \A j \in Nat : j < n /\ j \in T => j + 1 \in T
  PROVE  \A j \in 0 .. n : j \in T
<1>. SUFFICES ASSUME (0 .. n) \ T # {} PROVE FALSE
  OBVIOUS
<1>1. PICK m \in (0 .. n) \ T : \A j \in (0 .. n) \ T : m <= j
  <2>1. PICK R : R = (0 .. n) \ T
    OBVIOUS
  <2>2. R \subseteq Nat /\ R # {}
    BY <2>1
  <2>. QED
    BY <2>1, <2>2, LeastNatural
<1>2. m - 1 \in Nat /\ m - 1 < n /\ m - 1 \in T
  BY <1>1
<1>. QED
  BY <1>1, <1>2

-----------------------------------------------------------------------------
(* The times of a list, added up.                                          *)

IsTimesTo(f, l, n) ==
  f = [j \in 0 .. n |-> IF j = 0 THEN 0 ELSE f[j - 1] + l[j].time]

LEMMA TimesExist ==
  ASSUME NEW l \in Seq(Entry)
  PROVE  \E f : IsTimesTo(f, l, Len(l))
<1>1. PICK T : T = {n \in Nat : \E f : IsTimesTo(f, l, n)}
  OBVIOUS
<1>2. 0 \in T
  <2>1. PICK f : f = [j \in 0 .. 0 |-> 0]
    OBVIOUS
  <2>2. IsTimesTo(f, l, 0)
    BY <2>1 DEF IsTimesTo
  <2>. QED
    BY <1>1, <2>2
<1>3. ASSUME NEW n \in Nat, n \in T PROVE n + 1 \in T
  <2>1. PICK f : IsTimesTo(f, l, n)
    BY <1>1, <1>3
  <2>2. PICK g : g = [j \in 0 .. n + 1 |-> IF j = n + 1 THEN f[n] + l[n + 1].time ELSE f[j]]
    OBVIOUS
  <2>3. IsTimesTo(g, l, n + 1)
    <3>1. ASSUME NEW j \in 0 .. n + 1
          PROVE  g[j] = IF j = 0 THEN 0 ELSE g[j - 1] + l[j].time
      <4>1. CASE j = n + 1
        BY <2>2, <4>1
      <4>2. CASE j \in 0 .. n
        BY <2>1, <2>2, <4>2 DEF IsTimesTo
      <4>. QED
        BY <4>1, <4>2
    <3>. QED
      BY <2>2, <3>1 DEF IsTimesTo
  <2>. QED
    BY <1>1, <2>3
<1>4. Len(l) \in Nat /\ Len(l) \in 0 .. Len(l)
  OBVIOUS
<1>5. Len(l) \in T
  BY <1>2, <1>3, <1>4, InductionTo
<1>. QED
  BY <1>1, <1>5

LEMMA TimesDef ==
  ASSUME NEW l \in Seq(Entry)
  PROVE  /\ TimeUpTo(l)[0] = 0
         /\ \A j \in 1 .. Len(l) : TimeUpTo(l)[j] = TimeUpTo(l)[j - 1] + l[j].time
<1>1. IsTimesTo(TimeUpTo(l), l, Len(l))
  BY TimesExist, Zenon DEF TimeUpTo, IsTimesTo
<1>2. Len(l) \in Nat
  OBVIOUS
<1>. QED
  BY <1>1, <1>2 DEF IsTimesTo

LEMMA TimesType ==
  ASSUME NEW l \in Seq(Entry)
  PROVE  \A j \in 0 .. Len(l) : TimeUpTo(l)[j] \in Nat
<1>1. PICK T : T = {j \in 0 .. Len(l) : TimeUpTo(l)[j] \in Nat}
  OBVIOUS
<1>2. 0 \in T /\ Len(l) \in Nat
  BY <1>1, TimesDef
<1>3. ASSUME NEW j \in Nat, j < Len(l), j \in T PROVE j + 1 \in T
  <2>1. l[j + 1].time \in Nat
    <3>1. l[j + 1] \in Entry
      BY <1>2, <1>3
    <3>. QED
      BY <3>1 DEF Entry
  <2>2. TimeUpTo(l)[j + 1] = TimeUpTo(l)[j] + l[j + 1].time
    BY <1>3, TimesDef
  <2>. QED
    BY <1>1, <1>2, <1>3, <2>1, <2>2
<1>4. \A j \in 0 .. Len(l) : j \in T
  BY <1>2, <1>3, InductionTo
<1>. QED
  BY <1>1, <1>4

\* A list that has the same sums up to j has the same times added up.
LEMMA TimesUnique ==
  ASSUME NEW l \in Seq(Entry), NEW g, NEW n \in 0 .. Len(l), g[0] = 0,
         \A j \in 1 .. n : g[j] = g[j - 1] + l[j].time
  PROVE  \A j \in 0 .. n : TimeUpTo(l)[j] = g[j]
<1>1. PICK T : T = {j \in 0 .. n : TimeUpTo(l)[j] = g[j]}
  OBVIOUS
<1>2. 0 \in T
  BY <1>1, TimesDef
<1>3. ASSUME NEW j \in Nat, j < n, j \in T PROVE j + 1 \in T
  BY <1>1, <1>3, TimesDef
<1>4. n \in Nat
  OBVIOUS
<1>5. \A j \in 0 .. n : j \in T
  BY <1>2, <1>3, <1>4, InductionTo
<1>. QED
  BY <1>1, <1>5

-----------------------------------------------------------------------------
(* sys_timeout.                                                            *)

StopsAt(l, msecs, k) == k = Len(l) \/ l[k + 1].time > msecs - TimeUpTo(l)[k]

LEMMA EntryBeforeIs ==
  ASSUME NEW l \in Seq(Entry), NEW msecs \in Nat, l # <<>>, ~(l[1].time > msecs)
  PROVE  /\ EntryBefore(l, msecs) \in 1 .. Len(l)
         /\ StopsAt(l, msecs, EntryBefore(l, msecs))
         /\ \A k \in 1 .. EntryBefore(l, msecs) - 1 : ~StopsAt(l, msecs, k)
<1>1. PICK T : T = {k \in 1 .. Len(l) : StopsAt(l, msecs, k)}
  OBVIOUS
<1>2. T \subseteq Nat /\ T # {}
  <2>1. Len(l) \in 1 .. Len(l) /\ StopsAt(l, msecs, Len(l))
    BY DEF StopsAt
  <2>. QED
    BY <1>1, <2>1
<1>3. PICK j \in T : \A k \in T : j <= k
  BY <1>2, LeastNatural
<1>4. /\ j \in 1 .. Len(l)
      /\ StopsAt(l, msecs, j)
      /\ \A k \in 1 .. j - 1 : ~StopsAt(l, msecs, k)
  BY <1>1, <1>3
<1>5. EntryBefore(l, msecs) =
        CHOOSE k \in 1 .. Len(l) :
          StopsAt(l, msecs, k) /\ \A i \in 1 .. k - 1 : ~StopsAt(l, msecs, i)
  BY Zenon DEF EntryBefore, StopsAt
<1>. QED
  BY <1>4, <1>5, Zenon

\* The new entry goes where its time does, and its time fits between.
LEMMA EntryBeforeFacts ==
  ASSUME NEW l \in Seq(Entry), NEW msecs \in Nat, NEW j, j = EntryBefore(l, msecs)
  PROVE  /\ j \in 0 .. Len(l)
         /\ TimeUpTo(l)[j] \in Nat
         /\ TimeUpTo(l)[j] <= msecs
         /\ j < Len(l) => l[j + 1].time > msecs - TimeUpTo(l)[j]
<1>1. Len(l) \in Nat /\ TimeUpTo(l)[0] = 0
  BY TimesDef
<1>2. CASE l = <<>> \/ l[1].time > msecs
  <2>1. j = 0
    BY <1>2 DEF EntryBefore
  <2>2. 0 < Len(l) => l[0 + 1].time > msecs - 0
    BY <1>2
  <2>. QED
    BY <1>1, <2>1, <2>2
<1>3. CASE ~(l = <<>> \/ l[1].time > msecs)
  <2>1. /\ j \in 1 .. Len(l)
        /\ StopsAt(l, msecs, j)
        /\ \A k \in 1 .. j - 1 : ~StopsAt(l, msecs, k)
    BY <1>3, EntryBeforeIs
  <2>2. /\ TimeUpTo(l)[j] \in Nat
        /\ TimeUpTo(l)[j - 1] \in Nat
        /\ TimeUpTo(l)[j] = TimeUpTo(l)[j - 1] + l[j].time
    BY <1>1, <2>1, TimesDef, TimesType
  <2>3. l[j].time \in Nat
    <3>1. l[j] \in Entry
      BY <2>1
    <3>. QED
      BY <3>1 DEF Entry
  <2>4. l[j].time <= msecs - TimeUpTo(l)[j - 1]
    <3>1. CASE j = 1
      BY <1>1, <1>3, <2>3, <3>1
    <3>2. CASE j > 1
      <4>1. j - 1 \in 1 .. j - 1 /\ (j - 1) + 1 = j
        BY <2>1, <3>2
      <4>2. ~(l[j].time > msecs - TimeUpTo(l)[j - 1])
        BY <2>1, <4>1 DEF StopsAt
      <4>. QED
        BY <2>2, <2>3, <4>2
    <3>. QED
      BY <2>1, <3>1, <3>2
  <2>5. j \in 0 .. Len(l)
    BY <1>1, <2>1
  <2>6. TimeUpTo(l)[j] <= msecs
    BY <2>2, <2>3, <2>4
  <2>7. j < Len(l) => l[j + 1].time > msecs - TimeUpTo(l)[j]
    BY <1>1, <2>1 DEF StopsAt
  <2>. QED
    BY <2>2, <2>5, <2>6, <2>7
<1>. QED
  BY <1>2, <1>3

LEMMA InsertAtFacts ==
  ASSUME NEW l \in Seq(Entry), NEW j \in 0 .. Len(l), NEW e \in Entry
  PROVE  /\ InsertAt(l, j + 1, e) \in Seq(Entry)
         /\ Len(InsertAt(l, j + 1, e)) = Len(l) + 1
         /\ InsertAt(l, j + 1, e)[j + 1] = e
         /\ \A k \in 1 .. j : InsertAt(l, j + 1, e)[k] = l[k]
         /\ \A k \in j + 1 .. Len(l) : InsertAt(l, j + 1, e)[k + 1] = l[k]
<1>1. PICK a, b, m : /\ a = SubSeq(l, 1, (j + 1) - 1)
                     /\ b = SubSeq(l, j + 1, Len(l))
                     /\ m = InsertAt(l, j + 1, e)
  OBVIOUS
<1>2. /\ a \in Seq(Entry)
      /\ Len(a) = j
      /\ \A k \in 1 .. j : a[k] = l[k]
  BY <1>1
<1>3. /\ b \in Seq(Entry)
      /\ Len(b) = Len(l) - j
      /\ \A k \in 1 .. Len(l) - j : b[k] = l[j + k]
  BY <1>1
<1>4. m = (a \o <<e>>) \o b
  BY <1>1 DEF InsertAt
<1>5. PICK c : c = a \o <<e>>
  OBVIOUS
<1>6. /\ c \in Seq(Entry)
      /\ Len(c) = j + 1
      /\ \A k \in 1 .. j : c[k] = l[k]
      /\ c[j + 1] = e
  BY <1>2, <1>5
<1>7. m = c \o b
  BY <1>4, <1>5
<1>8. /\ m \in Seq(Entry)
      /\ Len(m) = Len(l) + 1
      /\ \A i \in 1 .. Len(l) + 1 : m[i] = IF i <= j + 1 THEN c[i] ELSE b[i - (j + 1)]
  <2>1. /\ c \o b \in Seq(Entry)
        /\ Len(c \o b) = Len(c) + Len(b)
        /\ \A i \in 1 .. Len(c) + Len(b) :
             (c \o b)[i] = IF i <= Len(c) THEN c[i] ELSE b[i - Len(c)]
    BY <1>3, <1>6, ConcatProperties
  <2>2. Len(c) + Len(b) = Len(l) + 1
    BY <1>3, <1>6
  <2>. QED
    BY <1>6, <1>7, <2>1, <2>2
<1>9. \A k \in j + 1 .. Len(l) : m[k + 1] = l[k]
  <2>. SUFFICES ASSUME NEW k \in j + 1 .. Len(l) PROVE m[k + 1] = l[k]
    OBVIOUS
  <2>1. k - j \in 1 .. Len(l) - j /\ (k + 1) - (j + 1) = k - j /\ j + (k - j) = k
    OBVIOUS
  <2>2. m[k + 1] = b[k - j]
    BY <1>8, <2>1
  <2>. QED
    BY <1>3, <2>1, <2>2
<1>10. m[j + 1] = e /\ \A k \in 1 .. j : m[k] = l[k]
  <2>1. j \in Nat /\ Len(l) \in Nat /\ j <= Len(l)
    OBVIOUS
  <2>2. \A k \in 1 .. j + 1 : k \in 1 .. Len(l) + 1 /\ k <= j + 1
    BY <2>1
  <2>3. \A k \in 1 .. j + 1 : m[k] = c[k]
    BY <1>8, <2>2
  <2>. QED
    BY <1>6, <2>1, <2>3
<1>. QED
  BY <1>1, <1>8, <1>9, <1>10

\* List m is list l with an entry for h after j others, due in msecs.
Inserted(m, l, h, msecs, j) ==
  /\ m \in Seq(Entry)
  /\ j \in 0 .. Len(l)
  /\ Len(m) = Len(l) + 1
  /\ m[j + 1].h = h
  /\ TimeUpTo(m)[j + 1] = msecs
  /\ \A k \in 1 .. j : m[k].h = l[k].h /\ TimeUpTo(m)[k] = TimeUpTo(l)[k]
  /\ \A k \in j + 1 .. Len(l) :
       m[k + 1].h = l[k].h /\ TimeUpTo(m)[k + 1] = TimeUpTo(l)[k]

\* sys_timeout leaves the other timers due when they were, although it shortens
\* the time of the entry after the new one (timers.c:291-309).
LEMMA SysTimeoutInserts ==
  ASSUME NEW l \in Seq(Entry), NEW h \in Handlers, NEW msecs \in Nat
  PROVE  \E j : Inserted(sys_timeout(l, h, msecs), l, h, msecs, j)
<1>1. PICK j, time, e, s, m :
        /\ j = EntryBefore(l, msecs)
        /\ time = msecs - TimeUpTo(l)[j]
        /\ e = [h |-> h, time |-> time]
        /\ s = IF j = Len(l) THEN l ELSE [l EXCEPT ![j + 1].time = @ - time]
        /\ m = sys_timeout(l, h, msecs)
  OBVIOUS
<1>2. m = InsertAt(s, j + 1, e)
  BY <1>1 DEF sys_timeout
<1>3. /\ j \in 0 .. Len(l)
      /\ TimeUpTo(l)[j] \in Nat
      /\ TimeUpTo(l)[j] <= msecs
      /\ j < Len(l) => l[j + 1].time > time
  BY <1>1, EntryBeforeFacts
<1>4. e \in Entry /\ time \in Nat
  BY <1>1, <1>3 DEF Entry
<1>5. /\ s \in Seq(Entry)
      /\ Len(s) = Len(l)
      /\ \A k \in 1 .. Len(l) : k # j + 1 => s[k] = l[k]
      /\ j < Len(l) => /\ s[j + 1].h = l[j + 1].h
                       /\ s[j + 1].time = l[j + 1].time - time
  <2>1. CASE j = Len(l)
    BY <1>1, <2>1
  <2>2. CASE j # Len(l)
    <3>1. j < Len(l) /\ j + 1 \in 1 .. Len(l)
      BY <1>3, <2>2
    <3>2. l[j + 1] \in Entry
      BY <3>1
    <3>3. PICK t : t = l[j + 1].time - time
      OBVIOUS
    <3>4. t \in Nat
      <4>1. l[j + 1].time \in Nat
        BY <3>2 DEF Entry
      <4>. QED
        BY <1>3, <1>4, <3>1, <3>3, <4>1
    <3>5. PICK f : f = [l[j + 1] EXCEPT !.time = t]
      OBVIOUS
    <3>6. f \in Entry /\ f.h = l[j + 1].h /\ f.time = t
      BY <3>2, <3>4, <3>5 DEF Entry
    <3>7. s = [l EXCEPT ![j + 1] = f]
      BY <1>1, <2>2, <3>3, <3>5
    <3>. QED
      BY <3>1, <3>3, <3>6, <3>7
  <2>. QED
    BY <2>1, <2>2
<1>6. /\ m \in Seq(Entry)
      /\ Len(m) = Len(l) + 1
      /\ m[j + 1] = e
      /\ \A k \in 1 .. j : m[k] = s[k]
      /\ \A k \in j + 1 .. Len(l) : m[k + 1] = s[k]
  <2>1. j \in 0 .. Len(s)
    BY <1>3, <1>5
  <2>2. /\ InsertAt(s, j + 1, e) \in Seq(Entry)
        /\ Len(InsertAt(s, j + 1, e)) = Len(s) + 1
        /\ InsertAt(s, j + 1, e)[j + 1] = e
        /\ \A k \in 1 .. j : InsertAt(s, j + 1, e)[k] = s[k]
        /\ \A k \in j + 1 .. Len(s) : InsertAt(s, j + 1, e)[k + 1] = s[k]
    BY <1>4, <1>5, <2>1, InsertAtFacts
  <2>3. /\ m \in Seq(Entry)
        /\ Len(m) = Len(s) + 1
        /\ m[j + 1] = e
        /\ \A k \in 1 .. j : m[k] = s[k]
        /\ \A k \in j + 1 .. Len(s) : m[k + 1] = s[k]
    BY <1>2, <2>2
  <2>. QED
    BY <1>5, <2>3
<1>7. PICK g : g = [k \in 0 .. Len(m) |-> IF k <= j THEN TimeUpTo(l)[k]
                                          ELSE IF k = j + 1 THEN msecs
                                          ELSE TimeUpTo(l)[k - 1]]
  OBVIOUS
<1>8. /\ TimeUpTo(l)[0] = 0
      /\ \A k \in 1 .. Len(l) : TimeUpTo(l)[k] = TimeUpTo(l)[k - 1] + l[k].time
      /\ \A k \in 0 .. Len(l) : TimeUpTo(l)[k] \in Nat
      /\ \A k \in 1 .. Len(l) : l[k].time \in Nat
  <2>1. \A k \in 1 .. Len(l) : l[k] \in Entry
    OBVIOUS
  <2>. QED
    BY <2>1, TimesDef, TimesType DEF Entry
<1>9. ASSUME NEW k \in 1 .. Len(m) PROVE g[k] = g[k - 1] + m[k].time
  <2>1. CASE k <= j
    <3>1. k \in 1 .. Len(l) /\ k # j + 1 /\ k \in 1 .. j
      BY <1>3, <2>1
    <3>2. m[k] = l[k]
      BY <1>5, <1>6, <3>1
    <3>. QED
      BY <1>3, <1>6, <1>7, <1>8, <2>1, <3>1, <3>2
  <2>2. CASE k = j + 1
    <3>1. g[k] = msecs /\ g[k - 1] = TimeUpTo(l)[j]
      BY <1>3, <1>6, <1>7, <2>2
    <3>2. m[k].time = msecs - TimeUpTo(l)[j]
      BY <1>1, <1>6, <2>2
    <3>. QED
      BY <1>3, <3>1, <3>2
  <2>3. CASE k = j + 2
    <3>1. /\ g[k] = TimeUpTo(l)[j + 1]
          /\ g[k - 1] = msecs
          /\ j + 1 \in 1 .. Len(l)
          /\ j < Len(l)
      BY <1>3, <1>6, <1>7, <2>3
    <3>2. m[k].time = l[j + 1].time - time
      <4>1. j + 1 \in j + 1 .. Len(l) /\ (j + 1) + 1 = k
        BY <1>3, <2>3, <3>1
      <4>2. m[k] = s[j + 1]
        BY <1>6, <4>1
      <4>. QED
        BY <1>5, <3>1, <4>2
    <3>3. TimeUpTo(l)[j + 1] = TimeUpTo(l)[j] + l[j + 1].time
      BY <1>3, <1>8, <3>1
    <3>4. TimeUpTo(l)[j] \in Nat /\ l[j + 1].time \in Nat
      BY <1>3, <1>8, <3>1
    <3>. QED
      BY <1>1, <3>1, <3>2, <3>3, <3>4
  <2>4. CASE k > j + 2
    <3>1. /\ k - 1 \in j + 1 .. Len(l)
          /\ k - 1 \in 1 .. Len(l)
          /\ k - 1 # j + 1
          /\ (k - 1) + 1 = k
          /\ g[k] = TimeUpTo(l)[k - 1]
          /\ g[k - 1] = TimeUpTo(l)[(k - 1) - 1]
      BY <1>3, <1>6, <1>7, <2>4
    <3>2. m[k] = l[k - 1]
      BY <1>5, <1>6, <3>1
    <3>. QED
      BY <1>8, <3>1, <3>2
  <2>. QED
    BY <1>3, <1>6, <2>1, <2>2, <2>3, <2>4
<1>10. \A k \in 0 .. Len(m) : TimeUpTo(m)[k] = g[k]
  <2>1. g[0] = 0 /\ Len(m) \in 0 .. Len(m)
    BY <1>3, <1>6, <1>7, <1>8
  <2>. QED
    BY <1>6, <1>9, <2>1, TimesUnique
<1>11. Inserted(m, l, h, msecs, j)
  <2>1. m[j + 1].h = h /\ TimeUpTo(m)[j + 1] = msecs
    <3>1. m[j + 1].h = h
      BY <1>1, <1>6
    <3>2. j + 1 \in 0 .. Len(m) /\ ~(j + 1 <= j)
      BY <1>3, <1>6
    <3>3. g[j + 1] = msecs
      BY <1>7, <3>2
    <3>. QED
      BY <1>10, <3>1, <3>2, <3>3
  <2>2. ASSUME NEW k \in 1 .. j
        PROVE  m[k].h = l[k].h /\ TimeUpTo(m)[k] = TimeUpTo(l)[k]
    <3>1. k \in 1 .. Len(l) /\ k # j + 1 /\ k \in 0 .. Len(m) /\ k <= j
      BY <1>3, <1>6
    <3>2. m[k] = l[k]
      BY <1>5, <1>6, <3>1
    <3>3. TimeUpTo(m)[k] = g[k] /\ g[k] = TimeUpTo(l)[k]
      BY <1>7, <1>10, <3>1
    <3>. QED
      BY <3>2, <3>3
  <2>3. ASSUME NEW k \in j + 1 .. Len(l)
        PROVE  m[k + 1].h = l[k].h /\ TimeUpTo(m)[k + 1] = TimeUpTo(l)[k]
    <3>1. m[k + 1].h = l[k].h
      <4>1. m[k + 1] = s[k] /\ k \in 1 .. Len(l)
        BY <1>3, <1>6
      <4>2. CASE k = j + 1
        BY <1>3, <1>5, <4>1, <4>2
      <4>3. CASE k # j + 1
        BY <1>5, <4>1, <4>3
      <4>. QED
        BY <4>2, <4>3
    <3>2. TimeUpTo(m)[k + 1] = g[k + 1] /\ g[k + 1] = TimeUpTo(l)[k]
      BY <1>3, <1>6, <1>7, <1>10
    <3>. QED
      BY <3>1, <3>2
  <2>. QED
    BY <1>3, <1>6, <2>1, <2>2, <2>3 DEF Inserted
<1>. QED
  BY <1>1, <1>11

-----------------------------------------------------------------------------
(* What a list says of its timers.                                         *)

HandlersOf(l) == {l[k].h : k \in 1 .. Len(l)}

Distinct(l) == \A i, j \in 1 .. Len(l) : l[i].h = l[j].h => i = j

\* The timers of a list, each with the time in which it is due.
Due(l) == {<<l[k].h, TimeUpTo(l)[k]>> : k \in 1 .. Len(l)}

LEMMA DueType ==
  ASSUME NEW l \in Seq(Entry), NEW x \in Due(l)
  PROVE  x[1] \in HandlersOf(l) /\ x[1] \in Handlers /\ x[2] \in Nat
<1>1. PICK k \in 1 .. Len(l) : x = <<l[k].h, TimeUpTo(l)[k]>>
  BY DEF Due
<1>2. l[k] \in Entry /\ k \in 0 .. Len(l)
  OBVIOUS
<1>3. TimeUpTo(l)[k] \in Nat
  BY <1>2, TimesType
<1>. QED
  BY <1>1, <1>2, <1>3 DEF HandlersOf, Entry

LEMMA SysTimeoutFacts ==
  ASSUME NEW l \in Seq(Entry), NEW h \in Handlers, NEW msecs \in Nat, NEW m,
         m = sys_timeout(l, h, msecs)
  PROVE  /\ m \in Seq(Entry)
         /\ m # <<>>
         /\ HandlersOf(m) = HandlersOf(l) \cup {h}
         /\ \A x \in Due(m) : x \in Due(l) \/ x = <<h, msecs>>
         /\ Distinct(l) /\ h \notin HandlersOf(l) => Distinct(m)
<1>1. PICK j : Inserted(m, l, h, msecs, j)
  BY SysTimeoutInserts
<1>2. /\ m \in Seq(Entry)
      /\ j \in 0 .. Len(l)
      /\ Len(l) \in Nat
      /\ Len(m) = Len(l) + 1
      /\ m[j + 1].h = h
      /\ TimeUpTo(m)[j + 1] = msecs
      /\ \A k \in 1 .. j : m[k].h = l[k].h /\ TimeUpTo(m)[k] = TimeUpTo(l)[k]
      /\ \A k \in j + 1 .. Len(l) :
           m[k + 1].h = l[k].h /\ TimeUpTo(m)[k + 1] = TimeUpTo(l)[k]
  BY <1>1 DEF Inserted
\* Where the entry at place k of the new list was in the old one.
<1>3. PICK old : old = [k \in 1 .. Len(m) |-> IF k <= j THEN k ELSE k - 1]
  OBVIOUS
<1>4. ASSUME NEW k \in 1 .. Len(m), k # j + 1
      PROVE  /\ old[k] \in 1 .. Len(l)
             /\ m[k].h = l[old[k]].h
             /\ TimeUpTo(m)[k] = TimeUpTo(l)[old[k]]
  <2>1. CASE k <= j
    BY <1>2, <1>3, <2>1
  <2>2. CASE k > j + 1
    <3>1. k - 1 \in j + 1 .. Len(l) /\ (k - 1) + 1 = k /\ old[k] = k - 1
      BY <1>2, <1>3, <2>2
    <3>. QED
      BY <1>2, <3>1
  <2>. QED
    BY <1>2, <1>4, <2>1, <2>2
<1>5. m # <<>>
  BY <1>2
<1>6. HandlersOf(m) = HandlersOf(l) \cup {h}
  <2>1. ASSUME NEW k \in 1 .. Len(m) PROVE m[k].h \in HandlersOf(l) \cup {h}
    <3>1. CASE k = j + 1
      BY <1>2, <3>1
    <3>2. CASE k # j + 1
      BY <1>4, <3>2 DEF HandlersOf
    <3>. QED
      BY <3>1, <3>2
  <2>2. ASSUME NEW k \in 1 .. Len(l) PROVE l[k].h \in HandlersOf(m)
    <3>1. CASE k <= j
      <4>1. k \in 1 .. j /\ k \in 1 .. Len(m)
        BY <1>2, <3>1
      <4>. QED
        BY <1>2, <4>1 DEF HandlersOf
    <3>2. CASE k > j
      <4>1. k \in j + 1 .. Len(l) /\ k + 1 \in 1 .. Len(m)
        BY <1>2, <3>2
      <4>2. m[k + 1].h = l[k].h
        BY <1>2, <4>1
      <4>. QED
        BY <4>1, <4>2 DEF HandlersOf
    <3>. QED
      BY <1>2, <3>1, <3>2
  <2>3. h \in HandlersOf(m)
    <3>1. j + 1 \in 1 .. Len(m)
      BY <1>2
    <3>. QED
      BY <1>2, <3>1 DEF HandlersOf
  <2>4. HandlersOf(m) \subseteq HandlersOf(l) \cup {h}
    BY <2>1, Zenon DEF HandlersOf
  <2>5. HandlersOf(l) \subseteq HandlersOf(m)
    BY <2>2, Zenon DEF HandlersOf
  <2>. QED
    BY <2>3, <2>4, <2>5
<1>7. ASSUME NEW x \in Due(m) PROVE x \in Due(l) \/ x = <<h, msecs>>
  <2>1. PICK k \in 1 .. Len(m) : x = <<m[k].h, TimeUpTo(m)[k]>>
    BY <1>7 DEF Due
  <2>2. CASE k = j + 1
    BY <1>2, <2>1, <2>2
  <2>3. CASE k # j + 1
    <3>1. old[k] \in 1 .. Len(l) /\ x = <<l[old[k]].h, TimeUpTo(l)[old[k]]>>
      BY <1>4, <2>1, <2>3
    <3>. QED
      BY <3>1 DEF Due
  <2>. QED
    BY <2>2, <2>3
<1>8. ASSUME Distinct(l), h \notin HandlersOf(l),
             NEW i \in 1 .. Len(m), NEW k \in 1 .. Len(m), m[i].h = m[k].h
      PROVE  i = k
  <2>1. CASE i # j + 1 /\ k # j + 1
    <3>1. /\ old[i] \in 1 .. Len(l)
          /\ old[k] \in 1 .. Len(l)
          /\ l[old[i]].h = l[old[k]].h
      BY <1>4, <1>8, <2>1
    <3>2. old[i] = old[k]
      BY <1>8, <3>1 DEF Distinct
    <3>. QED
      BY <1>2, <1>3, <2>1, <3>2
  <2>2. CASE i = j + 1 \/ k = j + 1
    <3>1. ASSUME NEW n \in 1 .. Len(m), n # j + 1 PROVE m[n].h # h
      BY <1>4, <1>8, <3>1 DEF HandlersOf
    <3>. QED
      BY <1>2, <1>8, <2>2, <3>1
  <2>. QED
    BY <2>1, <2>2
<1>9. Distinct(l) /\ h \notin HandlersOf(l) => Distinct(m)
  BY <1>8 DEF Distinct
<1>. QED
  BY <1>2, <1>5, <1>6, <1>7, <1>9

LEMMA TailTimes ==
  ASSUME NEW l \in Seq(Entry), l # <<>>
  PROVE  /\ Head(l) = l[1]
         /\ l[1] \in Entry
         /\ Tail(l) \in Seq(Entry)
         /\ Len(l) \in Nat \ {0}
         /\ Len(Tail(l)) = Len(l) - 1
         /\ \A k \in 1 .. Len(l) - 1 : Tail(l)[k] = l[k + 1]
         /\ TimeUpTo(l)[1] = l[1].time
         /\ \A k \in 0 .. Len(l) - 1 : TimeUpTo(l)[k + 1] = l[1].time + TimeUpTo(Tail(l))[k]
<1>1. /\ Head(l) = l[1]
      /\ l[1] \in Entry
      /\ Tail(l) \in Seq(Entry)
      /\ Len(l) \in Nat \ {0}
      /\ Len(Tail(l)) = Len(l) - 1
      /\ \A k \in 1 .. Len(l) - 1 : Tail(l)[k] = l[k + 1]
  BY HeadTailProperties
<1>2. /\ TimeUpTo(l)[0] = 0
      /\ \A k \in 1 .. Len(l) : TimeUpTo(l)[k] = TimeUpTo(l)[k - 1] + l[k].time
      /\ \A k \in 0 .. Len(l) : TimeUpTo(l)[k] \in Nat
  BY TimesDef, TimesType
<1>3. l[1].time \in Nat
  BY <1>1 DEF Entry
<1>4. TimeUpTo(l)[1] = l[1].time
  BY <1>1, <1>2, <1>3
<1>5. PICK g : g = [k \in 0 .. Len(l) - 1 |-> TimeUpTo(l)[k + 1] - l[1].time]
  OBVIOUS
<1>6. ASSUME NEW k \in 1 .. Len(Tail(l)) PROVE g[k] = g[k - 1] + Tail(l)[k].time
  <2>1. /\ k + 1 \in 1 .. Len(l)
        /\ k \in 0 .. Len(l) - 1
        /\ k - 1 \in 0 .. Len(l) - 1
        /\ (k + 1) - 1 = k
        /\ (k - 1) + 1 = k
    BY <1>1
  <2>2. TimeUpTo(l)[k + 1] = TimeUpTo(l)[k] + l[k + 1].time
    BY <1>2, <2>1
  <2>3. l[k + 1].time \in Nat
    <3>1. l[k + 1] \in Entry
      BY <2>1
    <3>. QED
      BY <3>1 DEF Entry
  <2>4. Tail(l)[k] = l[k + 1] /\ TimeUpTo(l)[k] \in Nat
    BY <1>1, <1>2, <2>1
  <2>5. g[k] = TimeUpTo(l)[k + 1] - l[1].time /\ g[k - 1] = TimeUpTo(l)[k] - l[1].time
    BY <1>5, <2>1
  <2>. QED
    BY <1>3, <2>2, <2>3, <2>4, <2>5
<1>7. g[0] = 0
  BY <1>1, <1>3, <1>4, <1>5
<1>8. \A k \in 0 .. Len(Tail(l)) : TimeUpTo(Tail(l))[k] = g[k]
  <2>1. PICK t, n : t = Tail(l) /\ n = Len(t)
    OBVIOUS
  <2>2. t \in Seq(Entry) /\ n \in 0 .. Len(t)
    BY <1>1, <2>1
  <2>3. \A k \in 1 .. n : g[k] = g[k - 1] + t[k].time
    BY <1>6, <2>1
  <2>4. \A k \in 0 .. n : TimeUpTo(t)[k] = g[k]
    BY <1>7, <2>2, <2>3, TimesUnique
  <2>. QED
    BY <2>1, <2>4
<1>9. ASSUME NEW k \in 0 .. Len(l) - 1
      PROVE  TimeUpTo(l)[k + 1] = l[1].time + TimeUpTo(Tail(l))[k]
  <2>1. TimeUpTo(Tail(l))[k] = TimeUpTo(l)[k + 1] - l[1].time
    BY <1>1, <1>5, <1>8
  <2>2. TimeUpTo(l)[k + 1] \in Nat
    BY <1>1, <1>2
  <2>. QED
    BY <1>3, <2>1, <2>2
<1>. QED
  BY <1>1, <1>4, <1>9

LEMMA TailFacts ==
  ASSUME NEW l \in Seq(Entry), l # <<>>, Distinct(l)
  PROVE  /\ Tail(l) \in Seq(Entry)
         /\ HandlersOf(Tail(l)) = HandlersOf(l) \ {Head(l).h}
         /\ Head(l).h \in HandlersOf(l)
         /\ Distinct(Tail(l))
         /\ \A x \in Due(Tail(l)) : <<x[1], Head(l).time + x[2]>> \in Due(l)
<1>1. /\ Head(l) = l[1]
      /\ l[1] \in Entry
      /\ Tail(l) \in Seq(Entry)
      /\ Len(l) \in Nat \ {0}
      /\ Len(Tail(l)) = Len(l) - 1
      /\ \A k \in 1 .. Len(l) - 1 : Tail(l)[k] = l[k + 1]
      /\ \A k \in 0 .. Len(l) - 1 : TimeUpTo(l)[k + 1] = l[1].time + TimeUpTo(Tail(l))[k]
  BY TailTimes
<1>2. ASSUME NEW k \in 1 .. Len(l) - 1 PROVE k + 1 \in 1 .. Len(l) /\ k \in 0 .. Len(l) - 1
  BY <1>1
<1>3. HandlersOf(Tail(l)) = HandlersOf(l) \ {Head(l).h}
  <2>1. ASSUME NEW k \in 1 .. Len(l) - 1
        PROVE  Tail(l)[k].h \in HandlersOf(l) /\ Tail(l)[k].h # Head(l).h
    <3>1. k + 1 # 1 /\ 1 \in 1 .. Len(l)
      BY <1>1
    <3>. QED
      BY <1>1, <1>2, <3>1 DEF HandlersOf, Distinct
  <2>2. ASSUME NEW k \in 1 .. Len(l), l[k].h # Head(l).h PROVE l[k].h \in HandlersOf(Tail(l))
    <3>1. k - 1 \in 1 .. Len(l) - 1 /\ (k - 1) + 1 = k
      BY <1>1, <2>2
    <3>2. Tail(l)[k - 1] = l[k]
      BY <1>1, <3>1
    <3>. QED
      BY <1>1, <3>1, <3>2 DEF HandlersOf
  <2>. QED
    BY <1>1, <2>1, <2>2 DEF HandlersOf
<1>4. Head(l).h \in HandlersOf(l)
  <2>1. 1 \in 1 .. Len(l)
    BY <1>1
  <2>. QED
    BY <1>1, <2>1 DEF HandlersOf
<1>5. Distinct(Tail(l))
  <2>. SUFFICES ASSUME NEW i \in 1 .. Len(l) - 1, NEW j \in 1 .. Len(l) - 1,
                       Tail(l)[i].h = Tail(l)[j].h
                PROVE  i = j
    BY <1>1 DEF Distinct
  <2>1. l[i + 1].h = l[j + 1].h
    BY <1>1
  <2>2. i + 1 = j + 1
    BY <1>2, <2>1 DEF Distinct
  <2>. QED
    BY <1>1, <2>2
<1>6. ASSUME NEW x \in Due(Tail(l)) PROVE <<x[1], Head(l).time + x[2]>> \in Due(l)
  <2>1. PICK k \in 1 .. Len(l) - 1 : x = <<Tail(l)[k].h, TimeUpTo(Tail(l))[k]>>
    BY <1>1, <1>6 DEF Due
  <2>2. x[1] = l[k + 1].h /\ Head(l).time + x[2] = TimeUpTo(l)[k + 1]
    BY <1>1, <1>2, <2>1
  <2>. QED
    BY <1>2, <2>2 DEF Due
<1>. QED
  BY <1>1, <1>3, <1>4, <1>5, <1>6

\* Nothing is due before the first timer.
LEMMA HeadFirst ==
  ASSUME NEW l \in Seq(Entry), l # <<>>
  PROVE  /\ <<Head(l).h, Head(l).time>> \in Due(l)
         /\ \A x \in Due(l) : Head(l).time <= x[2]
<1>1. /\ Head(l) = l[1]
      /\ l[1] \in Entry
      /\ Tail(l) \in Seq(Entry)
      /\ Len(l) \in Nat \ {0}
      /\ Len(Tail(l)) = Len(l) - 1
      /\ TimeUpTo(l)[1] = l[1].time
      /\ \A k \in 0 .. Len(l) - 1 : TimeUpTo(l)[k + 1] = l[1].time + TimeUpTo(Tail(l))[k]
  BY TailTimes
<1>2. \A k \in 0 .. Len(l) - 1 : TimeUpTo(Tail(l))[k] \in Nat
  BY <1>1, TimesType
<1>3. l[1].time \in Nat /\ 1 \in 1 .. Len(l)
  BY <1>1 DEF Entry
<1>4. ASSUME NEW x \in Due(l) PROVE Head(l).time <= x[2]
  <2>1. PICK k \in 1 .. Len(l) : x = <<l[k].h, TimeUpTo(l)[k]>>
    BY <1>4 DEF Due
  <2>2. k - 1 \in 0 .. Len(l) - 1 /\ (k - 1) + 1 = k
    BY <1>1
  <2>3. TimeUpTo(l)[k] = l[1].time + TimeUpTo(Tail(l))[k - 1]
    BY <1>1, <2>2
  <2>. QED
    BY <1>1, <1>2, <1>3, <2>1, <2>2, <2>3
<1>. QED
  BY <1>1, <1>3, <1>4 DEF Due

Shortened(l, time) == [l EXCEPT ![1].time = time]

\* Time taken off the first entry is taken off all.
LEMMA HeadShortened ==
  ASSUME NEW l \in Seq(Entry), l # <<>>, NEW time \in Nat, time <= Head(l).time,
         NEW m, m = Shortened(l, time)
  PROVE  /\ m \in Seq(Entry)
         /\ m # <<>>
         /\ HandlersOf(m) = HandlersOf(l)
         /\ Distinct(l) => Distinct(m)
         /\ \A x \in Due(m) : <<x[1], (Head(l).time - time) + x[2]>> \in Due(l)
<1>1. /\ Head(l) = l[1]
      /\ l[1] \in Entry
      /\ Len(l) \in Nat \ {0}
      /\ TimeUpTo(l)[1] = l[1].time
  BY TailTimes
<1>2. l[1].time \in Nat /\ 1 \in 1 .. Len(l)
  BY <1>1 DEF Entry
<1>3. PICK e : e = [l[1] EXCEPT !.time = time]
  OBVIOUS
<1>4. e \in Entry /\ e.h = l[1].h /\ e.time = time
  BY <1>1, <1>3 DEF Entry
<1>5. m = [l EXCEPT ![1] = e]
  BY <1>3 DEF Shortened
<1>6. /\ m \in Seq(Entry)
      /\ Len(m) = Len(l)
      /\ m[1] = e
      /\ \A k \in 1 .. Len(l) : k # 1 => m[k] = l[k]
  BY <1>2, <1>4, <1>5
<1>7. \A k \in 1 .. Len(l) : m[k].h = l[k].h
  BY <1>4, <1>6
<1>8. /\ TimeUpTo(l)[0] = 0
      /\ \A k \in 1 .. Len(l) : TimeUpTo(l)[k] = TimeUpTo(l)[k - 1] + l[k].time
      /\ \A k \in 0 .. Len(l) : TimeUpTo(l)[k] \in Nat
      /\ \A k \in 1 .. Len(l) : l[k].time \in Nat
  <2>1. \A k \in 1 .. Len(l) : l[k] \in Entry
    OBVIOUS
  <2>. QED
    BY <2>1, TimesDef, TimesType DEF Entry
<1>9. PICK g : g = [k \in 0 .. Len(l) |->
                      IF k = 0 THEN 0 ELSE TimeUpTo(l)[k] - (l[1].time - time)]
  OBVIOUS
<1>10. ASSUME NEW k \in 1 .. Len(m) PROVE g[k] = g[k - 1] + m[k].time
  <2>1. CASE k = 1
    <3>1. g[1] = time /\ g[0] = 0
      BY <1>1, <1>2, <1>9
    <3>. QED
      BY <1>4, <1>6, <2>1, <3>1
  <2>2. CASE k > 1
    <3>1. /\ k \in 1 .. Len(l)
          /\ k - 1 \in 0 .. Len(l)
          /\ k \in 0 .. Len(l)
          /\ k # 0
          /\ k - 1 # 0
          /\ k # 1
      BY <1>1, <1>6, <2>2
    <3>2. /\ g[k] = TimeUpTo(l)[k] - (l[1].time - time)
          /\ g[k - 1] = TimeUpTo(l)[k - 1] - (l[1].time - time)
          /\ m[k] = l[k]
      BY <1>6, <1>9, <3>1
    <3>3. TimeUpTo(l)[k] = TimeUpTo(l)[k - 1] + l[k].time
      BY <1>8, <3>1
    <3>4. /\ TimeUpTo(l)[k] \in Nat
          /\ TimeUpTo(l)[k - 1] \in Nat
          /\ l[k].time \in Nat
      BY <1>8, <3>1
    <3>5. m[k].time = l[k].time
      BY <3>2
    <3>6. PICK b, c, d, o : /\ b = TimeUpTo(l)[k] /\ c = TimeUpTo(l)[k - 1]
                            /\ d = l[k].time /\ o = l[1].time - time
      OBVIOUS
    <3>7. b - o = (c - o) + d
      <4>1. b = c + d /\ c \in Nat /\ d \in Nat /\ o \in Int
        BY <1>2, <3>3, <3>4, <3>6
      <4>. QED
        BY <4>1
    <3>. QED
      BY <3>2, <3>5, <3>6, <3>7
  <2>. QED
    BY <1>6, <2>1, <2>2
<1>11. \A k \in 0 .. Len(m) : TimeUpTo(m)[k] = g[k]
  <2>1. PICK n : n = Len(m)
    OBVIOUS
  <2>2. m \in Seq(Entry) /\ n \in 0 .. Len(m) /\ g[0] = 0
    BY <1>1, <1>6, <1>9, <2>1
  <2>3. \A k \in 1 .. n : g[k] = g[k - 1] + m[k].time
    BY <1>10, <2>1
  <2>4. \A k \in 0 .. n : TimeUpTo(m)[k] = g[k]
    BY <2>2, <2>3, TimesUnique
  <2>. QED
    BY <2>1, <2>4
<1>12. ASSUME NEW x \in Due(m) PROVE <<x[1], (Head(l).time - time) + x[2]>> \in Due(l)
  <2>1. PICK k \in 1 .. Len(l) : x = <<m[k].h, TimeUpTo(m)[k]>>
    BY <1>6, <1>12 DEF Due
  <2>2. k \in 0 .. Len(l) /\ k # 0
    OBVIOUS
  <2>3. TimeUpTo(m)[k] = TimeUpTo(l)[k] - (l[1].time - time)
    BY <1>6, <1>9, <1>11, <2>2
  <2>4. (Head(l).time - time) + x[2] = TimeUpTo(l)[k]
    BY <1>1, <1>2, <1>8, <2>1, <2>2, <2>3
  <2>5. x[1] = l[k].h
    BY <1>7, <2>1
  <2>. QED
    BY <2>4, <2>5 DEF Due
<1>13. HandlersOf(m) = HandlersOf(l) /\ (Distinct(l) => Distinct(m)) /\ m # <<>>
  BY <1>1, <1>6, <1>7 DEF HandlersOf, Distinct
<1>. QED
  BY <1>6, <1>12, <1>13

-----------------------------------------------------------------------------
(* The list after sys_timeouts_init.                                       *)

Periodic == Handlers \ {TcpTimer}

UpTo(n) == {s \in SUBSET Periodic : Cardinality(s) <= n}

First(s) == CHOOSE x \in s : TRUE

SetOne(f, s) ==
  IF s = {} THEN <<>> ELSE sys_timeout(f[s \ {First(s)}], First(s), Interval[First(s)])

LEMMA SmallerSet ==
  ASSUME NEW s, s \in SUBSET Periodic, s # {}
  PROVE  /\ First(s) \in s
         /\ IsFiniteSet(s)
         /\ Cardinality(s) \in Nat
         /\ s \ {First(s)} \in SUBSET Periodic
         /\ Cardinality(s \ {First(s)}) = Cardinality(s) - 1
<1>1. First(s) \in s
  BY DEF First
<1>2. IsFiniteSet(s)
  BY TimerAssumption, FS_Subset DEF Periodic
<1>. QED
  BY <1>1, <1>2, FS_CardinalityType, FS_RemoveElement

LEMMA CardinalityUpTo ==
  ASSUME NEW s, s \in SUBSET Periodic
  PROVE  /\ IsFiniteSet(s)
         /\ Cardinality(s) \in Nat
         /\ Cardinality(s) <= Cardinality(Periodic)
         /\ Cardinality(Periodic) \in Nat
         /\ Cardinality(s) = 0 <=> s = {}
<1>1. IsFiniteSet(Periodic)
  BY TimerAssumption, FS_Subset DEF Periodic
<1>. QED
  BY <1>1, FS_Subset, FS_CardinalityType, FS_EmptySet

LEMMA SettingExists ==
  \E f : f = [s \in SUBSET Periodic |-> SetOne(f, s)]
<1>1. PICK T : T = {n \in Nat : \E f : f = [s \in UpTo(n) |-> SetOne(f, s)]}
  OBVIOUS
<1>2. 0 \in T
  <2>1. PICK f : f = [s \in UpTo(0) |-> <<>>]
    OBVIOUS
  <2>2. \A s \in UpTo(0) : s = {}
    BY CardinalityUpTo DEF UpTo
  <2>3. \A s \in UpTo(0) : f[s] = SetOne(f, s)
    BY <2>1, <2>2 DEF SetOne
  <2>4. f = [s \in UpTo(0) |-> SetOne(f, s)]
    BY <2>1, <2>3
  <2>. QED
    BY <1>1, <2>4
<1>3. ASSUME NEW n \in Nat, n \in T PROVE n + 1 \in T
  <2>1. PICK f : f = [s \in UpTo(n) |-> SetOne(f, s)]
    BY <1>1, <1>3
  <2>2. PICK g : g = [s \in UpTo(n + 1) |-> IF s \in UpTo(n) THEN f[s] ELSE SetOne(f, s)]
    OBVIOUS
  <2>3. ASSUME NEW s \in UpTo(n + 1) PROVE g[s] = SetOne(g, s)
    <3>1. g[s] = SetOne(f, s)
      BY <2>1, <2>2
    <3>2. CASE s = {}
      BY <3>1, <3>2 DEF SetOne
    <3>3. CASE s # {}
      <4>1. s \in SUBSET Periodic /\ Cardinality(s) <= n + 1
        BY <2>3 DEF UpTo
      <4>2. /\ s \ {First(s)} \in SUBSET Periodic
            /\ Cardinality(s) \in Nat
            /\ Cardinality(s \ {First(s)}) = Cardinality(s) - 1
        BY <3>3, <4>1, SmallerSet
      <4>3. s \ {First(s)} \in UpTo(n) /\ s \ {First(s)} \in UpTo(n + 1)
        BY <1>3, <4>1, <4>2 DEF UpTo
      <4>4. g[s \ {First(s)}] = f[s \ {First(s)}]
        BY <2>2, <4>3
      <4>. QED
        BY <3>1, <4>4 DEF SetOne
    <3>. QED
      BY <3>2, <3>3
  <2>4. g = [s \in UpTo(n + 1) |-> SetOne(g, s)]
    BY <2>2, <2>3
  <2>. QED
    BY <1>1, <2>4
<1>4. Cardinality(Periodic) \in Nat
  BY CardinalityUpTo
<1>5. Cardinality(Periodic) \in 0 .. Cardinality(Periodic)
  BY <1>4
<1>6. Cardinality(Periodic) \in T
  <2>1. \A j \in Nat : j < Cardinality(Periodic) /\ j \in T => j + 1 \in T
    BY <1>3
  <2>. QED
    BY <1>2, <1>4, <1>5, <2>1, InductionTo
<1>7. UpTo(Cardinality(Periodic)) = SUBSET Periodic
  BY CardinalityUpTo DEF UpTo
<1>. QED
  BY <1>1, <1>6, <1>7

LEMMA InitialListIs ==
  \E f : f = [s \in SUBSET Periodic |-> SetOne(f, s)] /\ InitialList = f[Periodic]
<1>1. PICK f : f = CHOOSE g : g = [s \in SUBSET Periodic |-> SetOne(g, s)]
  OBVIOUS
<1>2. f = [s \in SUBSET Periodic |-> SetOne(f, s)]
  BY <1>1, SettingExists, Zenon
<1>3. InitialList = f[Periodic]
  BY <1>1, Zenon DEF InitialList, FoldSet, MapThenFoldSet, SetOne, First, Periodic
<1>. QED
  BY <1>2, <1>3

\* Every timer of set s is in list l once, with its interval.
HasBeenSet(l, s) ==
  /\ l \in Seq(Entry)
  /\ Distinct(l)
  /\ HandlersOf(l) = s
  /\ \A x \in Due(l) : x[2] = Interval[x[1]]

LEMMA AllAreSet ==
  HasBeenSet(InitialList, Periodic)
<1>1. PICK f : f = [s \in SUBSET Periodic |-> SetOne(f, s)] /\ InitialList = f[Periodic]
  BY InitialListIs
<1>2. PICK T : T = {n \in Nat : \A s \in SUBSET Periodic :
                      Cardinality(s) <= n => HasBeenSet(f[s], s)}
  OBVIOUS
<1>3. 0 \in T
  <2>1. ASSUME NEW s \in SUBSET Periodic, Cardinality(s) <= 0 PROVE HasBeenSet(f[s], s)
    <3>1. s = {}
      BY <2>1, CardinalityUpTo
    <3>2. f[s] = <<>>
      BY <1>1, <3>1 DEF SetOne
    <3>. QED
      BY <3>1, <3>2 DEF HasBeenSet, Distinct, HandlersOf, Due
  <2>. QED
    BY <1>2, <2>1
<1>4. ASSUME NEW n \in Nat, n \in T PROVE n + 1 \in T
  <2>1. ASSUME NEW s \in SUBSET Periodic, Cardinality(s) <= n + 1 PROVE HasBeenSet(f[s], s)
    <3>1. CASE s = {}
      <4>1. Cardinality(s) <= n
        BY <3>1, FS_EmptySet
      <4>. QED
        BY <1>2, <1>4, <4>1
    <3>2. CASE s # {}
      <4>1. PICK h, r, l : h = First(s) /\ r = s \ {h} /\ l = f[r]
        OBVIOUS
      <4>2. /\ h \in s
            /\ r \in SUBSET Periodic
            /\ Cardinality(s) \in Nat
            /\ Cardinality(r) = Cardinality(s) - 1
        BY <3>2, <4>1, SmallerSet
      <4>3. Cardinality(r) <= n
        BY <2>1, <4>2
      <4>4. HasBeenSet(l, r)
        BY <1>2, <1>4, <4>1, <4>2, <4>3
      <4>5. h \in Handlers /\ Interval[h] \in Nat
        BY <4>2, TimerAssumption DEF Periodic
      <4>6. f[s] = sys_timeout(l, h, Interval[h])
        BY <1>1, <3>2, <4>1 DEF SetOne
      <4>7. /\ f[s] \in Seq(Entry)
            /\ HandlersOf(f[s]) = HandlersOf(l) \cup {h}
            /\ \A x \in Due(f[s]) : x \in Due(l) \/ x = <<h, Interval[h]>>
            /\ Distinct(l) /\ h \notin HandlersOf(l) => Distinct(f[s])
        BY <4>4, <4>5, <4>6, SysTimeoutFacts DEF HasBeenSet
      <4>8. HandlersOf(f[s]) = s /\ Distinct(f[s])
        BY <4>1, <4>2, <4>4, <4>7 DEF HasBeenSet
      <4>9. ASSUME NEW x \in Due(f[s]) PROVE x[2] = Interval[x[1]]
        <5>1. CASE x \in Due(l)
          BY <4>4, <5>1 DEF HasBeenSet
        <5>2. CASE x = <<h, Interval[h]>>
          BY <5>2
        <5>. QED
          BY <4>7, <4>9, <5>1, <5>2
      <4>. QED
        BY <4>7, <4>8, <4>9 DEF HasBeenSet
    <3>. QED
      BY <3>1, <3>2
  <2>. QED
    BY <1>2, <2>1
<1>5. Cardinality(Periodic) \in Nat /\ Cardinality(Periodic) \in 0 .. Cardinality(Periodic)
  BY CardinalityUpTo
<1>6. Cardinality(Periodic) \in T
  <2>1. \A j \in Nat : j < Cardinality(Periodic) /\ j \in T => j + 1 \in T
    BY <1>4
  <2>. QED
    BY <1>3, <1>5, <2>1, InductionTo
<1>7. Periodic \in SUBSET Periodic /\ Cardinality(Periodic) <= Cardinality(Periodic)
  BY <1>5
<1>8. HasBeenSet(f[Periodic], Periodic)
  BY <1>2, <1>6, <1>7, Zenon
<1>. QED
  BY <1>1, <1>8

-----------------------------------------------------------------------------
(* The invariant.                                                          *)

\* The part of the wait that is over, in ticks.
Elapsed == IF threadPc = "waiting" THEN Head(next_timeout).time - waitLeft ELSE 0

\* The wait is for the first timer, and the ticks say how much of it is over.
WaitsForFirst ==
  threadPc = "waiting" =>
    /\ Head(next_timeout).time > 0
    /\ waitLeft <= Head(next_timeout).time
    /\ tick = (waitFrom + Elapsed) % WordSize

\* The time gone by since timer x[1] was set and the time in which the list says
\* that it is due make its interval, but for what was added while the thread did
\* not wait and for what the rounding of the waits took off.
DueOnTime(x) ==
  /\ x[2] <= Interval[x[1]]
  /\ age[x[1]] + x[2] - Elapsed <= Interval[x[1]] + late[x[1]]
  /\ rushed[x[1]] \/ age[x[1]] + x[2] - Elapsed >= Interval[x[1]] - answers[x[1]]

AllDueOnTime == \A x \in Due(next_timeout) : DueOnTime(x)

LateBounded == \A h \in Pending : late[h] <= MaxLate

Inv == TypeOK /\ EachTimerOnce /\ WaitsForFirst /\ AllDueOnTime /\ LateBounded

\* The list in a state of the invariant.
LEMMA ListFacts ==
  ASSUME Inv
  PROVE  /\ next_timeout \in Seq(Entry)
         /\ next_timeout # <<>>
         /\ Pending = HandlersOf(next_timeout)
         /\ Pending \subseteq Handlers
         /\ Distinct(next_timeout)
         /\ Head(next_timeout).h \in Handlers
         /\ Head(next_timeout).h \in Pending
         /\ Head(next_timeout).time \in Nat
         /\ Head(next_timeout).time <= Interval[Head(next_timeout).h]
         /\ Elapsed \in Nat
         /\ Elapsed <= Head(next_timeout).time
<1>1. /\ next_timeout \in Seq(Entry)
      /\ next_timeout # <<>>
      /\ Pending = HandlersOf(next_timeout)
      /\ Distinct(next_timeout)
  BY Zenon DEF Inv, TypeOK, EachTimerOnce, Pending, HandlersOf, Distinct
<1>2. PICK l : l = next_timeout
  OBVIOUS
<1>3. /\ l \in Seq(Entry)
      /\ l # <<>>
      /\ Distinct(l)
  BY <1>1, <1>2
<1>4. Head(l).h \in HandlersOf(l)
  BY <1>3, TailFacts
<1>5. Head(l) \in Entry
  BY <1>3, TailTimes
<1>6. <<Head(l).h, Head(l).time>> \in Due(l)
  BY <1>3, HeadFirst
<1>7. Head(l).time <= Interval[Head(l).h]
  BY <1>2, <1>6 DEF Inv, AllDueOnTime, DueOnTime
<1>8. Head(l).time \in Nat /\ Head(l).h \in Handlers
  BY <1>5 DEF Entry
<1>9. Elapsed \in Nat /\ Elapsed <= Head(next_timeout).time
  <2>1. CASE threadPc = "waiting"
    <3>1. waitLeft \in Nat /\ waitLeft <= Head(next_timeout).time
      BY <2>1 DEF Inv, WaitsForFirst, TypeOK
    <3>. QED
      BY <1>2, <1>8, <2>1, <3>1 DEF Elapsed
  <2>2. CASE threadPc # "waiting"
    BY <1>2, <1>8, <2>2 DEF Elapsed
  <2>. QED
    BY <2>1, <2>2
<1>10. HandlersOf(l) \subseteq Handlers
  <2>1. \A k \in 1 .. Len(l) : l[k] \in Entry
    BY <1>3
  <2>. QED
    BY <2>1 DEF HandlersOf, Entry
<1>. QED
  BY <1>1, <1>2, <1>4, <1>7, <1>8, <1>9, <1>10

\* What holds of a timer of the list.
LEMMA DueFacts ==
  ASSUME Inv, NEW x \in Due(next_timeout)
  PROVE  /\ x[1] \in Handlers
         /\ x[1] \in Pending
         /\ x[2] \in Nat
         /\ Head(next_timeout).time <= x[2]
         /\ Interval[x[1]] \in Nat
         /\ Interval[x[1]] * configTICK_RATE_HZ < WordSize
         /\ age[x[1]] \in Nat
         /\ late[x[1]] \in Nat
         /\ late[x[1]] <= MaxLate
         /\ answers[x[1]] \in Nat
         /\ rushed[x[1]] \in BOOLEAN
         /\ DueOnTime(x)
<1>1. /\ x[1] \in HandlersOf(next_timeout)
      /\ x[1] \in Handlers
      /\ x[2] \in Nat
      /\ Head(next_timeout).time <= x[2]
  BY ListFacts, DueType, HeadFirst
<1>2. /\ age \in [Handlers -> Nat]
      /\ late \in [Handlers -> Nat]
      /\ answers \in [Handlers -> Nat]
      /\ rushed \in [Handlers -> BOOLEAN]
  BY DEF Inv, TypeOK
<1>3. Interval[x[1]] \in Nat /\ Interval[x[1]] * configTICK_RATE_HZ < WordSize
  BY <1>1, TimerAssumption
<1>4. x[1] \in Pending
  BY <1>1, ListFacts
<1>5. late[x[1]] <= MaxLate
  BY <1>4 DEF Inv, LateBounded
<1>6. DueOnTime(x)
  BY DEF Inv, AllDueOnTime
<1>. QED
  BY <1>1, <1>2, <1>3, <1>4, <1>5, <1>6

LEMMA InvInit ==
  ASSUME Init PROVE Inv
<1>1. HasBeenSet(next_timeout, Periodic)
  BY AllAreSet DEF Init
<1>2. /\ next_timeout \in Seq(Entry)
      /\ Distinct(next_timeout)
      /\ HandlersOf(next_timeout) = Periodic
  BY <1>1 DEF HasBeenSet
<1>3. next_timeout # <<>>
  <2>1. Periodic # {}
    BY TimerAssumption DEF Periodic
  <2>2. HandlersOf(<<>>) = {}
    BY DEF HandlersOf
  <2>. QED
    BY <1>2, <2>1, <2>2
<1>4. TypeOK
  <2>1. next_timeout \in Seq(Entry) \ {<<>>}
    BY <1>2, <1>3
  <2>2. tick \in 0 .. WordSize - 1 /\ waitFrom \in 0 .. WordSize - 1 /\ mbox \in 0 .. MboxSize
    BY TimerAssumption DEF Init
  <2>3. /\ threadPc \in {"again", "waiting", "handling"}
        /\ waitLeft \in Nat
        /\ pcbs \in BOOLEAN
        /\ tcpip_tcp_timer_active \in BOOLEAN
        /\ fired \in Handlers
        /\ age \in [Handlers -> Nat]
        /\ late \in [Handlers -> Nat]
        /\ answers \in [Handlers -> Nat]
        /\ rushed \in [Handlers -> BOOLEAN]
    BY TimerAssumption DEF Init
  <2>. QED
    BY <2>1, <2>2, <2>3 DEF TypeOK
<1>5. EachTimerOnce
  BY <1>2, Zenon DEF Init, EachTimerOnce, Distinct, Pending, HandlersOf, Periodic
<1>6. WaitsForFirst
  BY DEF Init, WaitsForFirst
<1>7. ASSUME NEW x \in Due(next_timeout) PROVE DueOnTime(x)
  <2>1. x[1] \in Handlers /\ x[2] \in Nat
    BY <1>2, DueType
  <2>2. x[2] = Interval[x[1]]
    BY <1>1 DEF HasBeenSet
  <2>3. Elapsed = 0
    BY DEF Init, Elapsed
  <2>4. age[x[1]] = 0 /\ late[x[1]] = 0 /\ answers[x[1]] = 0
    BY <2>1 DEF Init
  <2>. QED
    BY <2>1, <2>2, <2>3, <2>4 DEF DueOnTime
<1>8. LateBounded
  <2>1. Pending \subseteq Handlers
    BY <1>2, Zenon DEF Pending, HandlersOf, Periodic
  <2>. QED
    BY <2>1, TimerAssumption DEF Init, LateBounded
<1>. QED
  BY <1>4, <1>5, <1>6, <1>7, <1>8 DEF Inv, AllDueOnTime

\* A step that leaves the list and the history of its timers alone.
LEMMA UnmovedKeepsDue ==
  ASSUME Inv, UNCHANGED <<next_timeout, age, late, answers, rushed>>, Elapsed' = Elapsed
  PROVE  AllDueOnTime' /\ LateBounded'
BY DEF Inv, AllDueOnTime, DueOnTime, LateBounded, Due, TimeUpTo, Pending

LEMMA PostKeepsInv ==
  ASSUME Inv, Post PROVE Inv'
<1>1. Elapsed' = Elapsed
  BY DEF Post, Elapsed
<1>2. AllDueOnTime' /\ LateBounded'
  BY <1>1, UnmovedKeepsDue DEF Post, history
<1>3. TypeOK'
  <2>1. mbox' \in 0 .. MboxSize
    BY TimerAssumption DEF Inv, TypeOK, Post
  <2>. QED
    BY <2>1 DEF Inv, TypeOK, Post, history
<1>4. EachTimerOnce' /\ WaitsForFirst'
  BY <1>1 DEF Inv, EachTimerOnce, WaitsForFirst, Post, Pending
<1>. QED
  BY <1>2, <1>3, <1>4 DEF Inv

LEMMA FetchesAtOnceKeepsInv ==
  ASSUME Inv, FetchesAtOnce PROVE Inv'
<1>1. Elapsed' = Elapsed
  BY DEF FetchesAtOnce, Elapsed
<1>2. AllDueOnTime' /\ LateBounded'
  BY <1>1, UnmovedKeepsDue DEF FetchesAtOnce, history
<1>3. TypeOK'
  <2>1. mbox' \in 0 .. MboxSize
    BY TimerAssumption DEF Inv, TypeOK, FetchesAtOnce
  <2>. QED
    BY <2>1 DEF Inv, TypeOK, FetchesAtOnce, history
<1>4. EachTimerOnce' /\ WaitsForFirst'
  BY <1>1 DEF Inv, EachTimerOnce, WaitsForFirst, FetchesAtOnce, Pending
<1>. QED
  BY <1>2, <1>3, <1>4 DEF Inv

\* A number of milliseconds is as many ticks: the rounding of WaitTicks and of
\* Waited loses nothing.
LEMMA TicksBack ==
  ASSUME NEW n \in Nat
  PROVE  (n * configTICK_RATE_HZ) \div configTICK_RATE_HZ = n
<1>1. configTICK_RATE_HZ \in Nat \ {0}
  BY TimerAssumption
<1>2. ASSUME NEW r \in Nat \ {0} PROVE (n * r) \div r = n
  OBVIOUS
<1>. QED
  BY <1>1, <1>2

LEMMA TicksFit ==
  ASSUME NEW n \in Nat, NEW most \in Nat, n <= most,
         most * configTICK_RATE_HZ < WordSize
  PROVE  /\ (n * configTICK_RATE_HZ) % WordSize = n * configTICK_RATE_HZ
         /\ n < WordSize
<1>1. configTICK_RATE_HZ \in Nat \ {0} /\ WordSize \in Nat \ {0}
  BY TimerAssumption
<1>2. ASSUME NEW r \in Nat \ {0}, most * r < WordSize
      PROVE  n * r \in Nat /\ n * r < WordSize /\ n < WordSize
  <2>1. PICK d \in Nat : most = n + d
    <3>1. most - n \in Nat /\ most = n + (most - n)
      OBVIOUS
    <3>. QED
      BY <3>1
  <2>2. most * r = n * r + d * r
    BY <2>1
  <2>3. d * r \in Nat /\ n * r \in Nat
    OBVIOUS
  <2>4. n <= n * r
    OBVIOUS
  <2>. QED
    BY <1>1, <1>2, <2>2, <2>3, <2>4
<1>3. /\ n * configTICK_RATE_HZ \in Nat
      /\ n * configTICK_RATE_HZ < WordSize
      /\ n < WordSize
  BY <1>1, <1>2
<1>. QED
  BY <1>1, <1>3

LEMMA StartsWaitingKeepsInv ==
  ASSUME Inv, StartsWaiting PROVE Inv'
<1>1. Head(next_timeout).time \in Nat /\ Head(next_timeout).time > 0
  BY ListFacts DEF StartsWaiting
<1>2. waitLeft' = Head(next_timeout).time
  BY <1>1, TicksBack DEF StartsWaiting, WaitTicks
<1>3. Elapsed' = Elapsed /\ Elapsed' = 0
  BY <1>1, <1>2 DEF StartsWaiting, Elapsed
<1>4. AllDueOnTime' /\ LateBounded'
  BY <1>3, UnmovedKeepsDue DEF StartsWaiting, history
<1>5. TypeOK'
  BY <1>1, <1>2 DEF Inv, TypeOK, StartsWaiting, history
<1>6. EachTimerOnce'
  BY DEF Inv, EachTimerOnce, StartsWaiting, Pending
<1>7. WaitsForFirst'
  <2>1. tick \in 0 .. WordSize - 1 /\ WordSize \in Nat \ {0}
    BY TimerAssumption DEF Inv, TypeOK
  <2>2. tick = (tick + 0) % WordSize
    BY <2>1
  <2>. QED
    BY <1>1, <1>2, <1>3, <2>2 DEF WaitsForFirst, StartsWaiting
<1>. QED
  BY <1>4, <1>5, <1>6, <1>7 DEF Inv

LEMMA HandlesOtherKeepsInv ==
  ASSUME Inv, HandlesOther PROVE Inv'
<1>1. Elapsed' = Elapsed
  BY DEF HandlesOther, Elapsed
<1>2. AllDueOnTime' /\ LateBounded'
  BY <1>1, UnmovedKeepsDue DEF HandlesOther, history
<1>3. TypeOK'
  BY DEF Inv, TypeOK, HandlesOther, history
<1>4. EachTimerOnce' /\ WaitsForFirst'
  BY <1>1 DEF Inv, EachTimerOnce, WaitsForFirst, HandlesOther, Pending
<1>. QED
  BY <1>2, <1>3, <1>4 DEF Inv

LEMMA LosesConnectionKeepsInv ==
  ASSUME Inv, LosesConnection PROVE Inv'
<1>1. Elapsed' = Elapsed
  BY DEF LosesConnection, Elapsed
<1>2. AllDueOnTime' /\ LateBounded'
  BY <1>1, UnmovedKeepsDue DEF LosesConnection, history
<1>3. TypeOK'
  BY DEF Inv, TypeOK, LosesConnection, history
<1>4. EachTimerOnce' /\ WaitsForFirst'
  BY <1>1 DEF Inv, EachTimerOnce, WaitsForFirst, LosesConnection, Pending
<1>. QED
  BY <1>2, <1>3, <1>4 DEF Inv

LEMMA RegistersConnectionKeepsInv ==
  ASSUME Inv, RegistersConnection PROVE Inv'
<1>1. Elapsed = 0 /\ Elapsed' = 0
  BY DEF RegistersConnection, Elapsed
<1>2. CASE ~TimerNeeded
  <2>1. /\ tcpip_tcp_timer_active' = tcpip_tcp_timer_active
        /\ UNCHANGED <<next_timeout, age, late, answers, rushed>>
    BY <1>2 DEF RegistersConnection
  <2>2. AllDueOnTime' /\ LateBounded'
    BY <1>1, <2>1, UnmovedKeepsDue
  <2>3. TypeOK'
    BY <2>1 DEF Inv, TypeOK, RegistersConnection
  <2>4. EachTimerOnce' /\ WaitsForFirst'
    BY <1>1, <1>2, <2>1 DEF Inv, EachTimerOnce, WaitsForFirst, RegistersConnection, Pending,
       TimerNeeded
  <2>. QED
    BY <2>2, <2>3, <2>4 DEF Inv
<1>3. CASE TimerNeeded
  <2>1. PICK l, m : l = next_timeout /\ m = next_timeout'
    OBVIOUS
  <2>2. /\ m = sys_timeout(l, TcpTimer, Interval[TcpTimer])
        /\ tcpip_tcp_timer_active' = TRUE
        /\ ~tcpip_tcp_timer_active
        /\ Fresh(TcpTimer)
    BY <1>3, <2>1 DEF RegistersConnection, TimerNeeded
  <2>3. TcpTimer \in Handlers /\ Interval[TcpTimer] \in Nat
    BY TimerAssumption
  <2>4. /\ l \in Seq(Entry)
        /\ Pending = HandlersOf(l)
        /\ Distinct(l)
        /\ TcpTimer \notin HandlersOf(l)
    BY <2>1, <2>2, ListFacts DEF Inv, EachTimerOnce
  <2>5. /\ m \in Seq(Entry)
        /\ m # <<>>
        /\ HandlersOf(m) = HandlersOf(l) \cup {TcpTimer}
        /\ \A x \in Due(m) : x \in Due(l) \/ x = <<TcpTimer, Interval[TcpTimer]>>
        /\ Distinct(m)
    BY <2>2, <2>3, <2>4, SysTimeoutFacts
  <2>6. Pending' = HandlersOf(m)
    BY <2>1, Zenon DEF Pending, HandlersOf
  <2>7. TypeOK'
    BY <2>1, <2>2, <2>3, <2>5 DEF Inv, TypeOK, RegistersConnection, Fresh
  <2>8. EachTimerOnce'
    <3>1. \A i, j \in 1 .. Len(next_timeout') :
            next_timeout'[i].h = next_timeout'[j].h => i = j
      BY <2>1, <2>5, Zenon DEF Distinct
    <3>. QED
      BY <2>2, <2>4, <2>5, <2>6, <3>1 DEF Inv, EachTimerOnce
  <2>9. WaitsForFirst'
    BY DEF WaitsForFirst, RegistersConnection
  <2>10. ASSUME NEW x \in Due(m) PROVE DueOnTime(x)'
    <3>1. CASE x = <<TcpTimer, Interval[TcpTimer]>>
      <4>1. age'[TcpTimer] = 0 /\ late'[TcpTimer] = 0 /\ answers'[TcpTimer] = 0
        BY <2>2, <2>3 DEF Fresh, Inv, TypeOK
      <4>. QED
        BY <1>1, <2>3, <3>1, <4>1 DEF DueOnTime
    <3>2. CASE x \in Due(l)
      <4>1. x[1] \in HandlersOf(l) /\ x[1] \in Handlers /\ DueOnTime(x)
        BY <2>1, <2>4, <3>2, DueFacts
      <4>2. x[1] # TcpTimer
        BY <2>4, <4>1
      <4>3. /\ age'[x[1]] = age[x[1]]
            /\ late'[x[1]] = late[x[1]]
            /\ answers'[x[1]] = answers[x[1]]
            /\ rushed'[x[1]] = rushed[x[1]]
        BY <2>2, <4>1, <4>2 DEF Fresh, Inv, TypeOK
      <4>. QED
        BY <1>1, <4>1, <4>3 DEF DueOnTime
    <3>. QED
      BY <2>5, <2>10, <3>1, <3>2
  <2>11. AllDueOnTime'
    <3>1. Due(next_timeout)' = Due(next_timeout')
      BY DEF Due, TimeUpTo
    <3>. QED
      BY <2>1, <2>10, <3>1 DEF AllDueOnTime
  <2>12. LateBounded'
    <3>1. ASSUME NEW h \in HandlersOf(m) PROVE late'[h] <= MaxLate
      <4>1. CASE h = TcpTimer
        BY <2>2, <2>3, <4>1, TimerAssumption DEF Fresh, Inv, TypeOK
      <4>2. CASE h \in HandlersOf(l) /\ h # TcpTimer
        BY <2>2, <2>4, <4>2 DEF Fresh, Inv, TypeOK, LateBounded
      <4>. QED
        BY <2>5, <4>1, <4>2
    <3>. QED
      BY <2>6, <3>1 DEF LateBounded
  <2>. QED
    BY <2>7, <2>8, <2>9, <2>11, <2>12 DEF Inv
<1>. QED
  BY <1>2, <1>3

\* The thread calls the handler of the first timer when that one's time is over.
LEMMA FiresKeepsInv ==
  ASSUME Inv, Fires, Elapsed = Head(next_timeout).time,
         UNCHANGED <<tick, mbox, waitFrom, waitLeft>>
  PROVE  Inv'
<1>1. PICK l, m, h, rest : /\ l = next_timeout
                           /\ m = next_timeout'
                           /\ h = Head(l).h
                           /\ rest = Tail(l)
  OBVIOUS
<1>2. PICK again : again = (h = TcpTimer => pcbs')
  OBVIOUS
<1>3. /\ pcbs' \in IF h = TcpTimer /\ pcbs THEN BOOLEAN ELSE {pcbs}
      /\ m = IF again THEN sys_timeout(rest, h, Interval[h]) ELSE rest
      /\ tcpip_tcp_timer_active' = (tcpip_tcp_timer_active /\ (h = TcpTimer => again))
      /\ fired' = h
      /\ Fresh(h)
      /\ threadPc' = "again"
  BY <1>1, <1>2 DEF Fires
<1>4. /\ l \in Seq(Entry)
      /\ l # <<>>
      /\ Pending = HandlersOf(l)
      /\ Distinct(l)
      /\ h \in Handlers
      /\ h \in HandlersOf(l)
      /\ Head(l).time \in Nat
  BY <1>1, ListFacts
<1>5. /\ rest \in Seq(Entry)
      /\ HandlersOf(rest) = HandlersOf(l) \ {h}
      /\ Distinct(rest)
      /\ \A x \in Due(rest) : <<x[1], Head(l).time + x[2]>> \in Due(l)
  BY <1>1, <1>4, TailFacts
<1>6. Interval[h] \in Nat
  BY <1>4, TimerAssumption
<1>7. /\ m \in Seq(Entry)
      /\ HandlersOf(m) = IF again THEN HandlersOf(l) ELSE HandlersOf(l) \ {h}
      /\ Distinct(m)
      /\ \A x \in Due(m) : x \in Due(rest) \/ x = <<h, Interval[h]>>
  <2>1. CASE again
    <3>1. /\ m \in Seq(Entry)
          /\ HandlersOf(m) = HandlersOf(rest) \cup {h}
          /\ \A x \in Due(m) : x \in Due(rest) \/ x = <<h, Interval[h]>>
          /\ Distinct(rest) /\ h \notin HandlersOf(rest) => Distinct(m)
      BY <1>3, <1>4, <1>5, <1>6, <2>1, SysTimeoutFacts
    <3>. QED
      BY <1>4, <1>5, <2>1, <3>1
  <2>2. CASE ~again
    BY <1>3, <1>5, <2>2
  <2>. QED
    BY <2>1, <2>2
<1>8. Elapsed' = 0
  BY <1>3 DEF Elapsed
<1>9. Pending' = HandlersOf(m)
  BY <1>1, Zenon DEF Pending, HandlersOf
<1>10. /\ Periodic \subseteq HandlersOf(l)
       /\ TcpTimer \in HandlersOf(l) <=> tcpip_tcp_timer_active
       /\ pcbs => tcpip_tcp_timer_active
  BY <1>4, Zenon DEF Inv, EachTimerOnce, Periodic
<1>11. ~again => h = TcpTimer /\ ~pcbs'
  BY <1>2
<1>12. Periodic \subseteq HandlersOf(m)
  BY <1>7, <1>10, <1>11 DEF Periodic
<1>13. m # <<>>
  <2>1. Periodic # {}
    BY TimerAssumption DEF Periodic
  <2>2. HandlersOf(<<>>) = {}
    BY DEF HandlersOf
  <2>. QED
    BY <1>12, <2>1, <2>2
<1>14. TypeOK'
  <2>1. pcbs' \in BOOLEAN /\ tcpip_tcp_timer_active' \in BOOLEAN
    BY <1>3 DEF Inv, TypeOK
  <2>2. next_timeout' \in Seq(Entry) \ {<<>>}
    BY <1>1, <1>7, <1>13
  <2>3. /\ age' \in [Handlers -> Nat]
        /\ late' \in [Handlers -> Nat]
        /\ answers' \in [Handlers -> Nat]
        /\ rushed' \in [Handlers -> BOOLEAN]
    BY <1>3, <1>4 DEF Inv, TypeOK, Fresh
  <2>. QED
    BY <1>3, <1>4, <2>1, <2>2, <2>3 DEF Inv, TypeOK
<1>15. EachTimerOnce'
  <2>1. \A i, j \in 1 .. Len(next_timeout') :
          next_timeout'[i].h = next_timeout'[j].h => i = j
    BY <1>1, <1>7, Zenon DEF Distinct
  <2>2. TcpTimer \in HandlersOf(m) <=> tcpip_tcp_timer_active'
    BY <1>2, <1>3, <1>4, <1>7, <1>10
  <2>3. pcbs' => tcpip_tcp_timer_active'
    BY <1>2, <1>3, <1>10
  <2>. QED
    BY <1>9, <1>12, <2>1, <2>2, <2>3 DEF EachTimerOnce, Periodic
<1>16. WaitsForFirst'
  BY <1>3 DEF WaitsForFirst
<1>17. /\ age'[h] = 0 /\ late'[h] = 0 /\ answers'[h] = 0
       /\ \A i \in Handlers : i # h =>
            /\ age'[i] = age[i]
            /\ late'[i] = late[i]
            /\ answers'[i] = answers[i]
            /\ rushed'[i] = rushed[i]
  BY <1>3, <1>4 DEF Fresh, Inv, TypeOK
<1>18. ASSUME NEW x \in Due(m) PROVE DueOnTime(x)'
  <2>1. CASE x = <<h, Interval[h]>>
    BY <1>6, <1>8, <1>17, <2>1 DEF DueOnTime
  <2>2. CASE x \in Due(rest)
    <3>1. x[1] \in HandlersOf(rest) /\ x[1] \in Handlers /\ x[2] \in Nat
      BY <1>5, <2>2, DueType
    <3>2. x[1] # h
      BY <1>5, <3>1
    <3>3. PICK y : y = <<x[1], Head(l).time + x[2]>>
      OBVIOUS
    <3>4. y \in Due(next_timeout) /\ y[1] = x[1] /\ y[2] = Head(l).time + x[2]
      BY <1>1, <1>5, <2>2, <3>3
    <3>5. /\ DueOnTime(y)
          /\ Interval[y[1]] \in Nat
          /\ age[y[1]] \in Nat
          /\ late[y[1]] \in Nat
          /\ answers[y[1]] \in Nat
      BY <3>4, DueFacts
    <3>6. /\ y[2] <= Interval[x[1]]
          /\ age[x[1]] + y[2] - Elapsed <= Interval[x[1]] + late[x[1]]
          /\ rushed[x[1]] \/ age[x[1]] + y[2] - Elapsed >= Interval[x[1]] - answers[x[1]]
      BY <3>4, <3>5 DEF DueOnTime
    <3>7. Elapsed = Head(l).time
      BY <1>1
    <3>8. /\ x[2] <= Interval[x[1]]
          /\ age[x[1]] + x[2] - 0 <= Interval[x[1]] + late[x[1]]
          /\ rushed[x[1]] \/ age[x[1]] + x[2] - 0 >= Interval[x[1]] - answers[x[1]]
      BY <1>4, <3>1, <3>4, <3>5, <3>6, <3>7
    <3>. QED
      BY <1>8, <1>17, <3>1, <3>2, <3>8 DEF DueOnTime
  <2>. QED
    BY <1>7, <1>18, <2>1, <2>2
<1>19. AllDueOnTime'
  <2>1. Due(next_timeout)' = Due(next_timeout')
    BY DEF Due, TimeUpTo
  <2>. QED
    BY <1>1, <1>18, <2>1 DEF AllDueOnTime
<1>20. LateBounded'
  <2>1. ASSUME NEW i \in HandlersOf(m) PROVE late'[i] <= MaxLate
    <3>1. i \in HandlersOf(l)
      BY <1>7, <2>1
    <3>2. i \in Handlers /\ late[i] <= MaxLate
      BY <1>4, <3>1, ListFacts DEF Inv, LateBounded
    <3>. QED
      BY <1>17, <3>2, TimerAssumption
  <2>. QED
    BY <1>9, <2>1 DEF LateBounded
<1>. QED
  BY <1>14, <1>15, <1>16, <1>19, <1>20 DEF Inv

LEMMA FiresAtOnceKeepsInv ==
  ASSUME Inv, FiresAtOnce PROVE Inv'
<1>1. Elapsed = Head(next_timeout).time
  BY DEF FiresAtOnce, Elapsed
<1>. QED
  BY <1>1, FiresKeepsInv DEF FiresAtOnce

LEMMA WaitEndsKeepsInv ==
  ASSUME Inv, WaitEnds PROVE Inv'
<1>1. Elapsed = Head(next_timeout).time
  BY ListFacts DEF WaitEnds, Elapsed
<1>. QED
  BY <1>1, FiresKeepsInv DEF WaitEnds

\* What sys_arch_mbox_fetch takes a wait of n ticks for: one tick too much, the
\* right number if the counter wrapped in it, and anything if it took none.
LEMMA WaitedFacts ==
  ASSUME NEW from \in 0 .. WordSize - 1, NEW n \in Nat, NEW most \in Nat, n <= most,
         most * configTICK_RATE_HZ < WordSize, NEW to, to = (from + n) % WordSize
  PROVE  /\ Waited(from, to) \in Nat
         /\ Waited(from, to) > 0
         /\ Waited(from, to) >= n
         /\ n > 0 => Waited(from, to) <= n + 1 /\ to # from
<1>1. WordSize \in Nat \ {0} /\ configTICK_RATE_HZ \in Nat \ {0} /\ from \in Nat
  BY TimerAssumption
<1>2. n < WordSize /\ (n * configTICK_RATE_HZ) % WordSize = n * configTICK_RATE_HZ
  BY TicksFit
<1>3. CASE n = 0
  <2>1. to = from
    BY <1>1, <1>3
  <2>2. PICK ticks : ticks = (WordSize - 1 - from + to) % WordSize
    OBVIOUS
  <2>3. ticks \in Nat
    <3>1. WordSize - 1 - from + to \in Int
      BY <1>1, <2>1
    <3>. QED
      BY <1>1, <2>2, <3>1
  <2>4. ASSUME NEW r \in Nat \ {0}, NEW w \in Nat \ {0}
        PROVE  (ticks * r) % w \in Nat /\ ((ticks * r) % w) \div r \in Nat
    <3>1. ticks * r \in Nat
      BY <2>3
    <3>2. (ticks * r) % w \in Nat
      BY <3>1
    <3>. QED
      BY <3>2
  <2>5. ~(to > from)
    BY <1>1, <2>1
  <2>6. Waited(from, to) =
          ((ticks * configTICK_RATE_HZ) % WordSize) \div configTICK_RATE_HZ + 1
    BY <2>2, <2>5, Zenon DEF Waited
  <2>7. ((ticks * configTICK_RATE_HZ) % WordSize) \div configTICK_RATE_HZ \in Nat
    BY <1>1, <2>4
  <2>. QED
    BY <1>3, <2>6, <2>7
<1>4. CASE n > 0 /\ from + n < WordSize
  <2>1. to = from + n /\ to > from /\ to - from = n
    BY <1>1, <1>4
  <2>2. Waited(from, to) = ((n * configTICK_RATE_HZ) % WordSize) \div configTICK_RATE_HZ + 1
    BY <2>1 DEF Waited
  <2>3. Waited(from, to) = n + 1
    BY <1>2, <2>2, TicksBack
  <2>. QED
    BY <1>1, <2>1, <2>3
<1>5. CASE n > 0 /\ from + n >= WordSize
  <2>1. to = from + n - WordSize
    BY <1>1, <1>2, <1>5
  <2>2. to < from /\ to \in Nat
    BY <1>1, <1>2, <1>5, <2>1
  <2>3. PICK b : b = n - 1
    OBVIOUS
  <2>4. b \in Nat /\ b <= most /\ (WordSize - 1 - from + to) % WordSize = b
    <3>1. b \in Nat /\ b <= most /\ b < WordSize
      BY <1>1, <1>2, <1>5, <2>3
    <3>2. WordSize - 1 - from + to = b
      BY <1>1, <2>1, <2>3
    <3>3. b % WordSize = b
      BY <1>1, <3>1
    <3>. QED
      BY <3>1, <3>2, <3>3
  <2>5. (b * configTICK_RATE_HZ) % WordSize = b * configTICK_RATE_HZ
    BY <2>4, TicksFit
  <2>6. Waited(from, to) = ((b * configTICK_RATE_HZ) % WordSize) \div configTICK_RATE_HZ + 1
    BY <1>1, <2>2, <2>4 DEF Waited
  <2>7. Waited(from, to) = b + 1
    BY <2>4, <2>5, <2>6, TicksBack
  <2>. QED
    BY <1>1, <1>5, <2>2, <2>3, <2>7
<1>. QED
  BY <1>1, <1>3, <1>4, <1>5

LEMMA AnsweredKeepsInv ==
  ASSUME Inv, Answered PROVE Inv'
<1>1. PICK l, m, time, waited, left :
        /\ l = next_timeout
        /\ m = next_timeout'
        /\ time = Head(next_timeout).time
        /\ waited = Waited(waitFrom, tick)
        /\ left = IF waited < time THEN time - waited ELSE 0
  OBVIOUS
<1>2. /\ threadPc = "waiting"
      /\ mbox > 0
      /\ mbox' = mbox - 1
      /\ m = [l EXCEPT ![1].time = left]
      /\ answers' = [h \in Handlers |->
           IF h \in Pending THEN Counted(answers[h], Interval[h]) ELSE 0]
      /\ rushed' = [h \in Handlers |-> h \in Pending /\ (rushed[h] \/ tick = waitFrom)]
      /\ threadPc' = "handling"
      /\ UNCHANGED <<tick, waitFrom, waitLeft, pcbs, tcpip_tcp_timer_active, fired,
                     age, late>>
  BY <1>1, Zenon DEF Answered
<1>3. /\ l \in Seq(Entry)
      /\ l # <<>>
      /\ Pending = HandlersOf(l)
      /\ Distinct(l)
      /\ Head(l).h \in Handlers
      /\ time \in Nat
      /\ time <= Interval[Head(l).h]
      /\ Elapsed \in Nat
      /\ Elapsed <= time
      /\ time = Head(l).time
  BY <1>1, ListFacts
<1>4. /\ time > 0
      /\ tick = (waitFrom + Elapsed) % WordSize
      /\ waitFrom \in 0 .. WordSize - 1
  BY <1>1, <1>2 DEF Inv, WaitsForFirst, TypeOK
<1>5. /\ Interval[Head(l).h] \in Nat
      /\ Interval[Head(l).h] * configTICK_RATE_HZ < WordSize
      /\ Elapsed <= Interval[Head(l).h]
  BY <1>3, TimerAssumption
<1>6. /\ waited \in Nat
      /\ waited > 0
      /\ waited >= Elapsed
      /\ Elapsed > 0 => waited <= Elapsed + 1 /\ tick # waitFrom
  <2>1. PICK n, most : n = Elapsed /\ most = Interval[Head(l).h]
    OBVIOUS
  <2>2. /\ n \in Nat /\ most \in Nat /\ n <= most
        /\ most * configTICK_RATE_HZ < WordSize
        /\ tick = (waitFrom + n) % WordSize
    BY <1>3, <1>4, <1>5, <2>1
  <2>3. /\ Waited(waitFrom, tick) \in Nat
        /\ Waited(waitFrom, tick) > 0
        /\ Waited(waitFrom, tick) >= n
        /\ n > 0 => Waited(waitFrom, tick) <= n + 1 /\ tick # waitFrom
    BY <1>4, <2>2, WaitedFacts
  <2>. QED
    BY <1>1, <2>1, <2>3
<1>7. /\ left \in Nat
      /\ left <= time
      /\ time - left >= Elapsed
      /\ tick = waitFrom \/ time - left <= Elapsed + 1
  <2>1. Elapsed = 0 => tick = waitFrom
    <3>1. \A w \in Nat \ {0} : \A f \in 0 .. w - 1 : (f + 0) % w = f
      OBVIOUS
    <3>. QED
      BY <1>4, <3>1, TimerAssumption
  <2>. QED
    BY <1>1, <1>3, <1>6, <2>1
<1>8. /\ m \in Seq(Entry)
      /\ m # <<>>
      /\ HandlersOf(m) = HandlersOf(l)
      /\ Distinct(m)
      /\ \A x \in Due(m) : <<x[1], (Head(l).time - left) + x[2]>> \in Due(l)
  <2>1. left \in Nat /\ left <= Head(l).time
    BY <1>3, <1>7
  <2>2. m = Shortened(l, left)
    BY <1>2 DEF Shortened
  <2>3. l \in Seq(Entry) /\ l # <<>>
    BY <1>3
  <2>4. /\ m \in Seq(Entry)
        /\ m # <<>>
        /\ HandlersOf(m) = HandlersOf(l)
        /\ Distinct(l) => Distinct(m)
        /\ \A x \in Due(m) : <<x[1], (Head(l).time - left) + x[2]>> \in Due(l)
    BY <2>1, <2>2, <2>3, HeadShortened
  <2>. QED
    BY <1>3, <2>4
<1>9. Elapsed' = 0
  BY <1>2 DEF Elapsed
<1>10. Pending' = HandlersOf(m)
  BY <1>1, Zenon DEF Pending, HandlersOf
<1>11. TypeOK'
  <2>1. mbox' \in 0 .. MboxSize
    <3>1. mbox \in 0 .. MboxSize /\ mbox > 0 /\ mbox' = mbox - 1
      BY <1>2 DEF Inv, TypeOK
    <3>. QED
      BY <3>1, TimerAssumption
  <2>2. next_timeout' \in Seq(Entry) \ {<<>>}
    BY <1>1, <1>8
  <2>3. answers' \in [Handlers -> Nat]
    <3>1. \A h \in Handlers : answers[h] \in Nat
      BY DEF Inv, TypeOK
    <3>. QED
      BY <1>2, <3>1 DEF Counted
  <2>4. rushed' \in [Handlers -> BOOLEAN]
    BY <1>2
  <2>. QED
    BY <1>2, <2>1, <2>2, <2>3, <2>4 DEF Inv, TypeOK
<1>12. EachTimerOnce'
  <2>1. \A i, j \in 1 .. Len(next_timeout') :
          next_timeout'[i].h = next_timeout'[j].h => i = j
    BY <1>1, <1>8, Zenon DEF Distinct
  <2>2. Pending' = Pending
    BY <1>3, <1>8, <1>10
  <2>. QED
    BY <1>2, <2>1, <2>2 DEF Inv, EachTimerOnce
<1>13. WaitsForFirst'
  BY <1>2 DEF WaitsForFirst
<1>14. ASSUME NEW x \in Due(m) PROVE DueOnTime(x)'
  <2>1. PICK i : i = x[1]
    OBVIOUS
  <2>2. PICK y : y = <<i, (time - left) + x[2]>>
    OBVIOUS
  <2>3. y \in Due(next_timeout) /\ y[1] = i /\ y[2] = (time - left) + x[2]
    BY <1>1, <1>3, <1>8, <2>1, <2>2
  <2>4. x[2] \in Nat
    BY <1>8, DueType
  <2>5. /\ DueOnTime(y)
        /\ i \in Handlers
        /\ i \in Pending
        /\ Interval[i] \in Nat
        /\ age[i] \in Nat
        /\ late[i] \in Nat
        /\ answers[i] \in Nat
    BY <2>3, DueFacts
  <2>6. /\ (time - left) + x[2] <= Interval[i]
        /\ age[i] + ((time - left) + x[2]) - Elapsed <= Interval[i] + late[i]
        /\ \/ rushed[i]
           \/ age[i] + ((time - left) + x[2]) - Elapsed >= Interval[i] - answers[i]
    BY <2>3, <2>5 DEF DueOnTime
  <2>7. /\ answers'[i] = Counted(answers[i], Interval[i])
        /\ rushed'[i] = (rushed[i] \/ tick = waitFrom)
        /\ age'[i] = age[i]
        /\ late'[i] = late[i]
    BY <1>2, <2>5
  <2>10. /\ Elapsed \in Nat
         /\ time - left \in Nat
         /\ time - left >= Elapsed
         /\ tick = waitFrom \/ time - left <= Elapsed + 1
    BY <1>3, <1>7
  <2>8. x[2] <= Interval[i] /\ age[i] + x[2] - 0 <= Interval[i] + late[i]
    BY <2>4, <2>5, <2>6, <2>10
  <2>9. ASSUME ~rushed[i], tick # waitFrom
        PROVE  age[i] + x[2] - 0 >= Interval[i] - answers'[i]
    <3>1. age[i] + x[2] >= Interval[i] - answers[i] - 1
      BY <2>4, <2>5, <2>6, <2>9, <2>10
    <3>2. CASE answers[i] < Interval[i]
      BY <2>4, <2>5, <2>7, <3>1, <3>2 DEF Counted
    <3>3. CASE answers[i] >= Interval[i]
      BY <2>4, <2>5, <2>7, <3>3 DEF Counted
    <3>. QED
      BY <2>5, <3>2, <3>3
  <2>. QED
    BY <1>9, <2>1, <2>7, <2>8, <2>9 DEF DueOnTime
<1>15. AllDueOnTime'
  <2>1. Due(next_timeout)' = Due(next_timeout')
    BY DEF Due, TimeUpTo
  <2>. QED
    BY <1>1, <1>14, <2>1 DEF AllDueOnTime
<1>16. LateBounded'
  BY <1>2, <1>3, <1>8, <1>10 DEF Inv, LateBounded
<1>. QED
  BY <1>11, <1>12, <1>13, <1>15, <1>16 DEF Inv

LEMMA TickKeepsInv ==
  ASSUME Inv, Tick PROVE Inv'
<1>1. /\ next_timeout' = next_timeout
      /\ Pending' = Pending
      /\ threadPc' = threadPc
      /\ UNCHANGED <<mbox, waitFrom, pcbs, tcpip_tcp_timer_active, fired, answers, rushed>>
  BY DEF Tick, Pending
<1>2. /\ age' = [h \in Handlers |->
           IF h \in Pending THEN Counted(age[h], Interval[h] + MaxLate + 1) ELSE 0]
      /\ late' = [h \in Handlers |->
           IF h \in Pending /\ threadPc # "waiting" THEN late[h] + 1 ELSE late[h]]
      /\ tick' = (tick + 1) % WordSize
      /\ waitLeft' = IF threadPc = "waiting" THEN waitLeft - 1 ELSE waitLeft
      /\ threadPc = "waiting" => waitLeft # 0
      /\ threadPc # "waiting" => \A h \in Pending : late[h] < MaxLate
  BY DEF Tick, ThreadWakes
<1>3. /\ tick \in 0 .. WordSize - 1
      /\ waitLeft \in Nat
      /\ age \in [Handlers -> Nat]
      /\ late \in [Handlers -> Nat]
      /\ waitFrom \in 0 .. WordSize - 1
      /\ WordSize \in Nat \ {0}
      /\ MaxLate \in Nat
  BY TimerAssumption DEF Inv, TypeOK
<1>4. /\ Elapsed \in Nat
      /\ Elapsed <= Head(next_timeout).time
      /\ Head(next_timeout).time \in Nat
  BY ListFacts
<1>5. TypeOK'
  <2>1. tick' \in 0 .. WordSize - 1 /\ waitLeft' \in Nat
    BY <1>2, <1>3
  <2>2. age' \in [Handlers -> Nat]
    <3>1. \A h \in Handlers : age[h] \in Nat
      BY <1>3
    <3>. QED
      BY <1>2, <3>1 DEF Counted
  <2>3. late' \in [Handlers -> Nat]
    <3>1. \A h \in Handlers : late[h] \in Nat
      BY <1>3
    <3>. QED
      BY <1>2, <3>1
  <2>. QED
    BY <1>1, <2>1, <2>2, <2>3 DEF Inv, TypeOK
<1>6. EachTimerOnce'
  BY <1>1 DEF Inv, EachTimerOnce
<1>7. Elapsed' = IF threadPc = "waiting" THEN Elapsed + 1 ELSE 0
  BY <1>1, <1>2, <1>3, <1>4 DEF Elapsed
<1>8. WaitsForFirst'
  <2>. SUFFICES ASSUME threadPc = "waiting" PROVE WaitsForFirst'
    BY <1>1 DEF WaitsForFirst
  <2>1. /\ Head(next_timeout).time > 0
        /\ waitLeft <= Head(next_timeout).time
        /\ tick = (waitFrom + Elapsed) % WordSize
    BY DEF Inv, WaitsForFirst
  <2>2. ASSUME NEW w \in Nat \ {0}, NEW f \in 0 .. w - 1, NEW e \in Nat, e + 1 < w
        PROVE  (((f + e) % w) + 1) % w = (f + e + 1) % w
    <3>1. CASE f + e < w
      BY <2>2, <3>1
    <3>2. CASE f + e >= w
      <4>1. (f + e) % w = f + e - w /\ (f + e + 1) % w = f + e + 1 - w
        BY <2>2, <3>2
      <4>. QED
        BY <2>2, <3>2, <4>1
    <3>. QED
      BY <3>1, <3>2
  <2>3. Elapsed + 1 < WordSize
    <3>1. PICK most : most = Interval[Head(next_timeout).h]
      OBVIOUS
    <3>2. most \in Nat /\ most * configTICK_RATE_HZ < WordSize
      BY <3>1, ListFacts, TimerAssumption
    <3>3. Elapsed + 1 \in Nat /\ Elapsed + 1 <= most
      <4>1. Elapsed + 1 <= Head(next_timeout).time
        BY <1>2, <1>3, <1>4 DEF Elapsed
      <4>2. Head(next_timeout).time <= most
        BY <3>1, ListFacts
      <4>. QED
        BY <1>4, <3>2, <4>1, <4>2
    <3>. QED
      BY <3>2, <3>3, TicksFit
  <2>4. tick' = (waitFrom + Elapsed + 1) % WordSize
    BY <1>2, <1>3, <1>4, <2>1, <2>2, <2>3
  <2>5. tick' = (waitFrom' + Elapsed') % WordSize
    BY <1>1, <1>3, <1>4, <1>7, <2>4
  <2>6. waitLeft' <= Head(next_timeout).time
    BY <1>2, <1>3, <1>4, <2>1
  <2>. QED
    BY <1>1, <2>1, <2>5, <2>6 DEF WaitsForFirst
<1>9. ASSUME NEW x \in Due(next_timeout) PROVE DueOnTime(x)'
  <2>1. PICK i : i = x[1]
    OBVIOUS
  <2>2. /\ i \in Handlers
        /\ i \in Pending
        /\ x[2] \in Nat
        /\ Head(next_timeout).time <= x[2]
        /\ Interval[i] \in Nat
        /\ age[i] \in Nat
        /\ late[i] \in Nat
        /\ late[i] <= MaxLate
        /\ answers[i] \in Nat
        /\ DueOnTime(x)
    BY <2>1, DueFacts
  <2>3. /\ x[2] <= Interval[i]
        /\ age[i] + x[2] - Elapsed <= Interval[i] + late[i]
        /\ rushed[i] \/ age[i] + x[2] - Elapsed >= Interval[i] - answers[i]
    BY <2>1, <2>2 DEF DueOnTime
  <2>4. age'[i] = age[i] + 1
    <3>1. age[i] < Interval[i] + MaxLate + 1
      BY <1>3, <1>4, <2>2, <2>3
    <3>. QED
      BY <1>2, <2>2, <3>1 DEF Counted
  <2>5. late'[i] = IF threadPc = "waiting" THEN late[i] ELSE late[i] + 1
    BY <1>2, <2>2
  <2>6. threadPc # "waiting" => Elapsed = 0
    BY DEF Elapsed
  <2>7. /\ age'[i] + x[2] - Elapsed' <= Interval[i] + late'[i]
        /\ rushed[i] \/ age'[i] + x[2] - Elapsed' >= Interval[i] - answers[i]
    <3>1. CASE threadPc = "waiting"
      BY <1>4, <1>7, <2>2, <2>3, <2>4, <2>5, <3>1
    <3>2. CASE threadPc # "waiting"
      BY <1>7, <2>2, <2>3, <2>4, <2>5, <2>6, <3>2
    <3>. QED
      BY <3>1, <3>2
  <2>. QED
    BY <1>1, <2>1, <2>3, <2>7 DEF DueOnTime
<1>10. AllDueOnTime'
  <2>1. Due(next_timeout)' = Due(next_timeout')
    BY DEF Due, TimeUpTo
  <2>. QED
    BY <1>1, <1>9, <2>1 DEF AllDueOnTime
<1>11. LateBounded'
  <2>. SUFFICES ASSUME NEW h \in Pending PROVE late'[h] <= MaxLate
    BY <1>1 DEF LateBounded
  <2>1. h \in Handlers
    BY ListFacts
  <2>2. late[h] \in Nat /\ late[h] <= MaxLate
    BY <1>3, <2>1 DEF Inv, LateBounded
  <2>. QED
    BY <1>2, <1>3, <2>1, <2>2
<1>. QED
  BY <1>5, <1>6, <1>8, <1>10, <1>11 DEF Inv

LEMMA StutterKeepsInv ==
  ASSUME Inv, UNCHANGED vars PROVE Inv'
<1>1. Elapsed' = Elapsed
  BY DEF vars, Elapsed
<1>2. AllDueOnTime' /\ LateBounded'
  BY <1>1, UnmovedKeepsDue DEF vars, history
<1>3. TypeOK'
  BY DEF Inv, TypeOK, vars, history
<1>4. EachTimerOnce' /\ WaitsForFirst'
  BY <1>1 DEF Inv, EachTimerOnce, WaitsForFirst, vars, Pending
<1>. QED
  BY <1>2, <1>3, <1>4 DEF Inv

LEMMA NextKeepsInv ==
  ASSUME Inv, [Next]_vars PROVE Inv'
BY TickKeepsInv, PostKeepsInv, FiresAtOnceKeepsInv, FetchesAtOnceKeepsInv,
   StartsWaitingKeepsInv, WaitEndsKeepsInv, AnsweredKeepsInv, HandlesOtherKeepsInv,
   LosesConnectionKeepsInv, RegistersConnectionKeepsInv, StutterKeepsInv, Zenon
   DEF Next, Thread

-----------------------------------------------------------------------------
(* Theorems.                                                               *)

\* The invariant holds for any timers and intervals.
THEOREM TimersCorrect == Spec => []Inv
<1>1. Init => Inv
  BY InvInit
<1>2. Inv /\ [Next]_vars => Inv'
  BY NextKeepsInv
<1>. QED
  BY <1>1, <1>2, PTL DEF Spec

\* The variables have their types; the thread always has a timer to wait for
\* (it would wait for ever without one, timers.c:431).
THEOREM TypeCorrect == Spec => []TypeOK
<1>1. Inv => TypeOK
  BY DEF Inv
<1>. QED
  BY <1>1, TimersCorrect, PTL

\* No timer is lost and none is in the list twice, whatever the messages and the
\* time the waits are taken for.
THEOREM NoTimerLost == Spec => []EachTimerOnce
<1>1. Inv => EachTimerOnce
  BY DEF Inv
<1>. QED
  BY <1>1, TimersCorrect, PTL

OnTimeStep ==
  \A h \in Handlers :
    /\ Head(next_timeout).h = h
    /\ threadPc' = "again"
    /\ threadPc = "waiting" \/ (threadPc = "again" /\ next_timeout' # next_timeout)
    => /\ age[h] <= Interval[h] + late[h]
       /\ rushed[h] \/ age[h] >= Interval[h] - answers[h]

\* The thread calls a handler from the list only when the whole time of the first
\* timer is over.
LEMMA FiresWhenOver ==
  ASSUME Inv, [Next]_vars, threadPc' = "again",
         threadPc = "waiting" \/ (threadPc = "again" /\ next_timeout' # next_timeout)
  PROVE  Elapsed = Head(next_timeout).time
<1>1. Head(next_timeout).time \in Nat
  BY ListFacts
<1>2. CASE FiresAtOnce
  BY <1>2 DEF FiresAtOnce, Elapsed
<1>3. CASE WaitEnds
  BY <1>1, <1>3 DEF WaitEnds, Elapsed
<1>4. ~FetchesAtOnce /\ ~StartsWaiting /\ ~Answered
  BY DEF FetchesAtOnce, StartsWaiting, Answered
<1>5. ~HandlesOther /\ ~LosesConnection /\ ~RegistersConnection
  BY DEF HandlesOther, LosesConnection, RegistersConnection
<1>6. ~Tick /\ ~Post /\ ~UNCHANGED vars
  BY DEF Tick, Post, vars
<1>. QED
  BY <1>2, <1>3, <1>4, <1>5, <1>6, Zenon DEF Next, Thread

\* A handler runs late only by the time the thread spent on messages, and early
\* only by the rounding of waits that messages ended (sys_arch.c:163-166,
\* timers.c:431-474), for any intervals and any rate of the ticks.
THEOREM TimersFireOnTime == Spec => FiresOnTime
<1>1. ASSUME Inv, [Next]_vars PROVE OnTimeStep
  <2>. SUFFICES ASSUME NEW h \in Handlers,
                       Head(next_timeout).h = h,
                       threadPc' = "again",
                       \/ threadPc = "waiting"
                       \/ threadPc = "again" /\ next_timeout' # next_timeout
                PROVE  /\ age[h] <= Interval[h] + late[h]
                       /\ rushed[h] \/ age[h] >= Interval[h] - answers[h]
    BY Zenon DEF OnTimeStep
  <2>1. Elapsed = Head(next_timeout).time
    BY <1>1, FiresWhenOver
  <2>2. PICK x : x = <<h, Head(next_timeout).time>>
    OBVIOUS
  <2>3. x \in Due(next_timeout) /\ x[1] = h /\ x[2] = Elapsed /\ Elapsed \in Nat
    BY <1>1, <2>1, <2>2, ListFacts, HeadFirst
  <2>4. /\ DueOnTime(x)
        /\ age[h] \in Nat
        /\ late[h] \in Nat
        /\ answers[h] \in Nat
        /\ Interval[h] \in Nat
    BY <1>1, <2>3, DueFacts
  <2>. QED
    BY <2>3, <2>4 DEF DueOnTime
<1>. QED
  BY <1>1, TimersCorrect, PTL DEF Spec, FiresOnTime, OnTimeStep
=============================================================================
