-------------------------- MODULE StartUpProofs --------------------------
(***************************************************************************)
(* Whatever tracking.xml holds, the parser writes within its arrays and    *)
(* keeps a file that fits them as it is; and Detection reads nothing else, *)
(* however often the system restarts.                                      *)
(*                                                                         *)
(* Parsed folds over sections, lists and actions.  A fold is defined by a  *)
(* recursive function: that the function exists, and what it gives for a   *)
(* longer prefix, come first; then what holds of the parser's state after  *)
(* each prefix, by induction on its length.                                *)
(***************************************************************************)
EXTENDS StartUp, SequenceTheorems, NaturalsInduction, WellFoundedInduction,
        TLAPS

-----------------------------------------------------------------------------
(* Induction, from the order of the numbers being well-founded.            *)

LEMMA NaturalsWellFounded == IsWellFoundedOn({x \in Nat \X Nat : x[1] < x[2]}, Nat)
BY NatLessThanWellFounded DEF OpToRel

LEMMA LeastNatural ==
  ASSUME NEW T, T \subseteq Nat, T # {}
  PROVE  \E m \in T : \A n \in T : m <= n
<1>1. PICK R : R = {x \in Nat \X Nat : x[1] < x[2]}
  OBVIOUS
<1>2. PICK m \in T : \A n \in T : <<n, m>> \notin R
  BY <1>1, NaturalsWellFounded, WFMin
<1>3. ASSUME NEW n \in T PROVE m <= n
  <2>1. ~(n < m)
    BY <1>1, <1>2
  <2>. QED
    BY <2>1
<1>. QED
  BY <1>3

LEMMA InductionTo ==
  ASSUME NEW n \in Nat, NEW T, 0 \in T,
         \A j \in Nat : j < n /\ j \in T => j + 1 \in T
  PROVE  \A j \in 0 .. n : j \in T
<1>. SUFFICES ASSUME (0 .. n) \ T # {} PROVE FALSE
  OBVIOUS
<1>1. PICK m \in (0 .. n) \ T : \A j \in (0 .. n) \ T : m <= j
  <2>1. PICK R : R = (0 .. n) \ T
    OBVIOUS
  <2>2. R \subseteq Nat /\ R # {}
    BY <2>1
  <2>. QED
    BY <2>1, <2>2, LeastNatural
<1>2. m - 1 \in Nat /\ m - 1 < n /\ m - 1 \in T
  BY <1>1
<1>. QED
  BY <1>1, <1>2

-----------------------------------------------------------------------------
(* Configurations, and one action.                                         *)

Section == [ActionInstanceConfig : [Actions -> ActionNames], NumberOfActions : Nat]

Config ==
  [ModuleConfig : [Sections -> Section], Module_Count : Nat, j_cycle : Nat,
   past : BOOLEAN]

LEMMA NoConfigType ==
  /\ NoSection \in Section
  /\ NoConfig \in Config
  /\ \A k \in Sections : NoConfig.ModuleConfig[k] = NoSection
  /\ NoConfig.Module_Count = 0
  /\ NoConfig.j_cycle = 0
  /\ NoConfig.past = FALSE
<1>1. NoSection \in Section
  BY XmlAssumption DEF NoSection, Section
<1>. QED
  BY <1>1 DEF NoConfig, Config

\* The section of an action, with the action.
Counted(section) == [section EXCEPT !.NumberOfActions = @ + 1]

Stored(section, j, name) ==
  [Counted(section) EXCEPT !.ActionInstanceConfig = [@ EXCEPT ![j] = name]]

LEMMA ActionOfSection ==
  ASSUME NEW section \in Section
  PROVE  /\ Counted(section) \in Section
         /\ Counted(section).NumberOfActions = section.NumberOfActions + 1
         /\ Counted(section).ActionInstanceConfig = section.ActionInstanceConfig
         /\ \A j \in Actions, name \in ActionNames :
              /\ Stored(section, j, name) \in Section
              /\ Stored(section, j, name).NumberOfActions = section.NumberOfActions + 1
              /\ Stored(section, j, name).ActionInstanceConfig =
                   [section.ActionInstanceConfig EXCEPT ![j] = name]
<1>1. /\ Counted(section) \in Section
      /\ Counted(section).NumberOfActions = section.NumberOfActions + 1
      /\ Counted(section).ActionInstanceConfig = section.ActionInstanceConfig
  BY DEF Counted, Section
<1>2. ASSUME NEW j \in Actions, NEW name \in ActionNames
      PROVE  /\ Stored(section, j, name) \in Section
             /\ Stored(section, j, name).NumberOfActions = section.NumberOfActions + 1
             /\ Stored(section, j, name).ActionInstanceConfig =
                   [section.ActionInstanceConfig EXCEPT ![j] = name]
  BY <1>1 DEF Stored, Section
<1>. QED
  BY <1>1, <1>2

OneMore(c) ==
  [c EXCEPT !.ModuleConfig[c.Module_Count].NumberOfActions = @ + 1, !.j_cycle = @ + 1]

Named(c, k, j, name) == [c EXCEPT !.ModuleConfig[k].ActionInstanceConfig[j] = name]

Overrun(c) == [c EXCEPT !.past = TRUE]

\* What an action changes: in the current section only, at the current index.
LEMMA ActionFacts ==
  ASSUME NEW c \in Config, NEW name, NEW k, k = c.Module_Count,
         NEW j, j = c.j_cycle, NEW d, d = ParsedAction(c, name)
  PROVE  /\ d \in Config
         /\ d.Module_Count = k
         /\ d.j_cycle = j + 1
         /\ d.past = (c.past \/ (name \in ActionNames /\ j \notin Actions))
         /\ \A i \in Sections : i # k => d.ModuleConfig[i] = c.ModuleConfig[i]
         /\ k \in Sections => d.ModuleConfig[k] =
              IF name \in ActionNames /\ j \in Actions
                THEN Stored(c.ModuleConfig[k], j, name) ELSE Counted(c.ModuleConfig[k])
<1>1. PICK e : e = OneMore(c)
  OBVIOUS
<1>2. c.ModuleConfig \in [Sections -> Section] /\ k \in Nat /\ j \in Nat /\ c.past \in BOOLEAN
  BY DEF Config
<1>3. PICK M : M = IF k \in Sections THEN [c.ModuleConfig EXCEPT ![k] = Counted(c.ModuleConfig[k])]
                   ELSE c.ModuleConfig
  OBVIOUS
<1>4. /\ M \in [Sections -> Section]
      /\ \A i \in Sections : i # k => M[i] = c.ModuleConfig[i]
      /\ k \in Sections => M[k] = Counted(c.ModuleConfig[k])
  BY <1>2, <1>3, ActionOfSection
<1>5. /\ e.ModuleConfig = M
      /\ e = [ModuleConfig |-> M, Module_Count |-> k, j_cycle |-> j + 1, past |-> c.past]
  BY <1>1, <1>2, <1>3 DEF Config, Counted, OneMore
<1>9. d = IF name \notin ActionNames THEN e
          ELSE IF j \in Actions THEN Named(e, k, j, name)
          ELSE Overrun(e)
  <2>1. ParsedAction(c, name) =
          IF name \notin ActionNames THEN OneMore(c)
          ELSE IF c.j_cycle \in Actions THEN Named(OneMore(c), c.Module_Count, c.j_cycle, name)
          ELSE Overrun(OneMore(c))
    BY Zenon DEF ParsedAction, OneMore, Named, Overrun
  <2>. QED
    BY <1>1, <2>1, Zenon
<1>6. CASE name \notin ActionNames
  <2>1. d = e
    BY <1>6, <1>9
  <2>. QED
    BY <1>2, <1>4, <1>5, <1>6, <2>1 DEF Config
<1>7. CASE name \in ActionNames /\ j \notin Actions
  <2>1. d = Overrun(e)
    BY <1>7, <1>9
  <2>2. e \in Config
    BY <1>2, <1>4, <1>5 DEF Config
  <2>3. d.past = TRUE /\ d \in Config
    BY <2>1, <2>2 DEF Config, Overrun
  <2>4. d.past = (c.past \/ (name \in ActionNames /\ j \notin Actions))
    BY <1>7, <2>3
  <2>5. d.Module_Count = k /\ d.j_cycle = j + 1 /\ d.ModuleConfig = M
    BY <1>5, <2>1, <2>2 DEF Config, Overrun
  <2>6. k \in Sections => d.ModuleConfig[k] = Counted(c.ModuleConfig[k])
    BY <1>4, <2>5
  <2>7. \A i \in Sections : i # k => d.ModuleConfig[i] = c.ModuleConfig[i]
    BY <1>4, <2>5
  <2>. QED
    BY <1>7, <2>3, <2>4, <2>5, <2>6, <2>7
<1>8. CASE name \in ActionNames /\ j \in Actions
  <2>1. d = Named(e, k, j, name)
    BY <1>8, <1>9, Zenon
  <2>2. PICK N : N = IF k \in Sections THEN [c.ModuleConfig EXCEPT ![k] = Stored(c.ModuleConfig[k], j, name)]
                     ELSE c.ModuleConfig
    OBVIOUS
  <2>3. /\ N \in [Sections -> Section]
        /\ \A i \in Sections : i # k => N[i] = c.ModuleConfig[i]
        /\ k \in Sections => N[k] = Stored(c.ModuleConfig[k], j, name)
    BY <1>2, <1>8, <2>2, ActionOfSection
  <2>4. [M EXCEPT ![k].ActionInstanceConfig[j] = name] = N
    BY <1>2, <1>3, <1>4, <2>2, <2>3 DEF Stored
  <2>5. d = [ModuleConfig |-> N, Module_Count |-> k, j_cycle |-> j + 1, past |-> c.past]
    BY <1>5, <2>1, <2>4 DEF Named
  <2>. QED
    BY <1>2, <1>8, <2>3, <2>5 DEF Config
<1>. QED
  BY <1>6, <1>7, <1>8

-----------------------------------------------------------------------------
(* Folding a sequence from the left.                                       *)

LEMMA MaxFacts ==
  ASSUME NEW m \in Nat, NEW s, s \subseteq 1 .. m, s # {}
  PROVE  Max(s) \in s /\ \A y \in s : y <= Max(s)
<1>1. PICK T : T = {m - x : x \in s}
  OBVIOUS
<1>2. T \subseteq Nat /\ T # {}
  <2>1. \A x \in s : x \in 1 .. m /\ m - x \in Nat
    OBVIOUS
  <2>2. PICK x : x \in s
    OBVIOUS
  <2>. QED
    BY <1>1, <2>1, <2>2
<1>3. PICK d \in T : \A n \in T : d <= n
  BY <1>2, LeastNatural
<1>4. PICK x \in s : d = m - x
  BY <1>1, <1>3
<1>5. ASSUME NEW y \in s PROVE x >= y
  <2>1. m - y \in T
    BY <1>1
  <2>2. m - x <= m - y
    BY <1>3, <1>4, <2>1
  <2>3. x \in Int /\ y \in Int
    OBVIOUS
  <2>. QED
    BY <2>2, <2>3
<1>6. Max(s) = CHOOSE z \in s : \A y \in s : z >= y
  BY DEF Max
<1>9. \E z \in s : \A y \in s : z >= y
  BY <1>5, Zenon
<1>7. Max(s) \in s /\ \A y \in s : Max(s) >= y
  BY <1>6, <1>9, Zenon
<1>8. Max(s) \in Int /\ \A y \in s : y \in Int
  <2>1. \A y \in s : y \in 1 .. m
    OBVIOUS
  <2>2. Max(s) \in 1 .. m
    BY <1>7, <2>1, Zenon
  <2>. QED
    BY <2>1, <2>2
<1>. QED
  BY <1>7, <1>8

\* A step of the fold as a function, of the index and of what there is.
FoldOf(f, n, c, F) ==
  f = [s \in SUBSET (1 .. n) |-> IF s = {} THEN c ELSE F[<<Max(s), f[s \ {Max(s)}]>>]]

LEMMA FoldExists ==
  ASSUME NEW n \in Nat, NEW c \in Config, NEW F \in [(1 .. n) \X Config -> Config]
  PROVE  \E f \in [SUBSET (1 .. n) -> Config] : FoldOf(f, n, c, F)
<1>1. PICK T : T = {m \in Nat : m <= n =>
                      \E f \in [SUBSET (1 .. m) -> Config] : FoldOf(f, m, c, F)}
  OBVIOUS
<1>2. 0 \in T
  <2>1. PICK f : f = [s \in SUBSET (1 .. 0) |-> c]
    OBVIOUS
  <2>2. \A s \in SUBSET (1 .. 0) : s = {}
    OBVIOUS
  <2>3. f \in [SUBSET (1 .. 0) -> Config] /\ FoldOf(f, 0, c, F)
    BY <2>1, <2>2 DEF FoldOf
  <2>. QED
    BY <1>1, <2>3
<1>3. ASSUME NEW m \in Nat, m < n, m \in T PROVE m + 1 \in T
  <2>10. m <= n /\ m + 1 \in Nat
    BY <1>3
  <2>1. PICK f \in [SUBSET (1 .. m) -> Config] : FoldOf(f, m, c, F)
    BY <1>1, <1>3, <2>10, Zenon
  <2>2. PICK g : g = [s \in SUBSET (1 .. m + 1) |->
                        IF m + 1 \in s THEN F[<<m + 1, f[s \ {m + 1}]>>] ELSE f[s]]
    OBVIOUS
  <2>3. ASSUME NEW s \in SUBSET (1 .. m + 1)
        PROVE  s \ {m + 1} \in SUBSET (1 .. m)
    <3>1. ASSUME NEW x \in s, x # m + 1 PROVE x \in 1 .. m
      BY <3>1
    <3>. QED
      BY <3>1
  <2>4. ASSUME NEW s \in SUBSET (1 .. m)
        PROVE  m + 1 \notin s /\ s \in SUBSET (1 .. m + 1) /\ g[s] = f[s]
    <3>1. \A x \in 1 .. m : x \in 1 .. m + 1 /\ x # m + 1
      OBVIOUS
    <3>2. m + 1 \notin s /\ s \in SUBSET (1 .. m + 1)
      BY <3>1
    <3>. QED
      BY <2>2, <3>2
  <2>5. ASSUME NEW s \in SUBSET (1 .. m + 1)
        PROVE  /\ g[s] \in Config
               /\ g[s] = IF s = {} THEN c ELSE F[<<Max(s), g[s \ {Max(s)}]>>]
    <3>1. CASE m + 1 \in s
      <4>1. Max(s) = m + 1
        <5>1. s \subseteq 1 .. m + 1 /\ s # {}
          BY <3>1
        <5>2. Max(s) \in s /\ m + 1 <= Max(s)
          BY <2>10, <3>1, <5>1, MaxFacts, Zenon
        <5>3. Max(s) \in 1 .. m + 1
          BY <5>1, <5>2
        <5>. QED
          BY <5>2, <5>3
      <4>2. s \ {m + 1} \in SUBSET (1 .. m)
        BY <2>3
      <4>3. g[s \ {m + 1}] = f[s \ {m + 1}] /\ f[s \ {m + 1}] \in Config
        BY <2>4, <4>2
      <4>4. g[s] = F[<<m + 1, f[s \ {m + 1}]>>]
        BY <2>2, <3>1
      <4>5. <<m + 1, f[s \ {m + 1}]>> \in (1 .. n) \X Config
        BY <1>3, <4>3
      <4>. QED
        BY <3>1, <4>1, <4>3, <4>4, <4>5
    <3>2. CASE m + 1 \notin s
      <4>1. s \in SUBSET (1 .. m)
        BY <2>3, <3>2
      <4>2. g[s] = f[s] /\ f[s] \in Config
        BY <2>4, <4>1
      <4>3. f[s] = IF s = {} THEN c ELSE F[<<Max(s), f[s \ {Max(s)}]>>]
        BY <2>1, <4>1 DEF FoldOf
      <4>4. s \ {Max(s)} \in SUBSET (1 .. m)
        BY <4>1
      <4>5. g[s \ {Max(s)}] = f[s \ {Max(s)}]
        BY <2>4, <4>4
      <4>. QED
        BY <4>2, <4>3, <4>5
    <3>. QED
      BY <3>1, <3>2
  <2>6. DOMAIN g = SUBSET (1 .. m + 1) /\ g = [s \in SUBSET (1 .. m + 1) |-> g[s]]
    BY <2>2
  <2>7. g \in [SUBSET (1 .. m + 1) -> Config]
    BY <2>5, <2>6
  <2>8. FoldOf(g, m + 1, c, F)
    BY <2>5, <2>6 DEF FoldOf
  <2>. QED
    BY <1>1, <2>7, <2>8
<1>4. n \in 0 .. n
  OBVIOUS
<1>5. n \in T
  BY <1>2, <1>3, <1>4, InductionTo
<1>6. n <= n
  OBVIOUS
<1>. QED
  BY <1>1, <1>5, <1>6, Zenon

\* The first k indices.
LEMMA FirstIndices ==
  ASSUME NEW n \in Nat, NEW k \in 1 .. n
  PROVE  /\ 1 .. k \in SUBSET (1 .. n)
         /\ 1 .. k # {}
         /\ Max(1 .. k) = k
         /\ (1 .. k) \ {k} = 1 .. k - 1
<1>1. 1 .. k \in SUBSET (1 .. n) /\ k \in 1 .. k
  OBVIOUS
<1>2. Max(1 .. k) \in 1 .. k /\ k <= Max(1 .. k)
  <2>1. PICK s : s = 1 .. k
    OBVIOUS
  <2>2. Max(s) \in s /\ \A y \in s : y <= Max(s)
    BY <1>1, <2>1, MaxFacts
  <2>. QED
    BY <1>1, <2>1, <2>2
<1>3. Max(1 .. k) = k
  BY <1>2
<1>. QED
  BY <1>1, <1>3

-----------------------------------------------------------------------------
(* A list of actions.                                                      *)

LEMMA ActionsFold ==
  ASSUME NEW c \in Config, NEW list \in Seq(STRING)
  PROVE  \E g : /\ g[0] = c
                /\ \A k \in 1 .. Len(list) : g[k] = ParsedAction(g[k - 1], list[k])
                /\ FoldLeft(ParsedAction, c, list) = g[Len(list)]
<1>1. PICK n : n = Len(list)
  OBVIOUS
<1>2. n \in Nat /\ DOMAIN list = 1 .. n
  BY <1>1
<1>3. PICK F : F = [x \in (1 .. n) \X Config |-> ParsedAction(x[2], list[x[1]])]
  OBVIOUS
<1>4. F \in [(1 .. n) \X Config -> Config]
  <2>1. ASSUME NEW x \in (1 .. n) \X Config PROVE ParsedAction(x[2], list[x[1]]) \in Config
    <3>1. x[2] \in Config
      OBVIOUS
    <3>. QED
      BY <3>1, ActionFacts
  <2>. QED
    BY <1>3, <2>1
<1>5. \E f : f = [s \in SUBSET (DOMAIN list) |->
                   IF s = {} THEN c
                   ELSE ParsedAction(f[s \ {Max(s)}], list[Max(s)])]
  <2>1. PICK f \in [SUBSET (1 .. n) -> Config] : FoldOf(f, n, c, F)
    BY <1>2, <1>4, FoldExists
  <2>2. ASSUME NEW s \in SUBSET (1 .. n)
        PROVE  f[s] = IF s = {} THEN c ELSE ParsedAction(f[s \ {Max(s)}], list[Max(s)])
    <3>1. CASE s = {}
      BY <2>1, <3>1 DEF FoldOf
    <3>2. CASE s # {}
      <4>1. Max(s) \in 1 .. n
        BY <1>2, <3>2, MaxFacts
      <4>2. f[s \ {Max(s)}] \in Config
        OBVIOUS
      <4>3. f[s] = F[<<Max(s), f[s \ {Max(s)}]>>]
        BY <2>1, <3>2 DEF FoldOf
      <4>. QED
        BY <1>3, <3>2, <4>1, <4>2, <4>3
    <3>. QED
      BY <3>1, <3>2
  <2>3. f = [s \in SUBSET (1 .. n) |->
               IF s = {} THEN c ELSE ParsedAction(f[s \ {Max(s)}], list[Max(s)])]
    BY <2>2
  <2>. QED
    BY <1>2, <2>3
<1>6. PICK f : f = CHOOSE h : h = [s \in SUBSET (DOMAIN list) |->
                                     IF s = {} THEN c
                                     ELSE ParsedAction(h[s \ {Max(s)}], list[Max(s)])]
  OBVIOUS
<1>7. f = [s \in SUBSET (DOMAIN list) |->
             IF s = {} THEN c ELSE ParsedAction(f[s \ {Max(s)}], list[Max(s)])]
  BY <1>5, <1>6, Zenon
<1>8. FoldLeft(ParsedAction, c, list) = f[DOMAIN list]
  BY <1>6, Zenon DEF FoldLeft, MapThenFoldSet
<1>9. PICK g : g = [k \in 0 .. n |-> f[1 .. k]]
  OBVIOUS
<1>10. g[0] = c
  <2>1. 1 .. 0 = {}
    OBVIOUS
  <2>. QED
    BY <1>2, <1>7, <1>9, <2>1
<1>11. ASSUME NEW k \in 1 .. n PROVE g[k] = ParsedAction(g[k - 1], list[k])
  <2>1. /\ 1 .. k \in SUBSET (1 .. n)
        /\ 1 .. k # {}
        /\ Max(1 .. k) = k
        /\ (1 .. k) \ {k} = 1 .. k - 1
    BY <1>2, FirstIndices
  <2>2. f[1 .. k] = ParsedAction(f[1 .. k - 1], list[k])
    BY <1>2, <1>7, <2>1
  <2>3. k \in 0 .. n /\ k - 1 \in 0 .. n
    BY <1>2
  <2>. QED
    BY <1>9, <2>2, <2>3
<1>12. FoldLeft(ParsedAction, c, list) = g[n]
  <2>1. n \in 0 .. n
    BY <1>2
  <2>. QED
    BY <1>2, <1>8, <1>9, <2>1
<1>. QED
  BY <1>1, <1>10, <1>11, <1>12

\* What a list, read from its first action on, changes in section k.
Listed(d, c, list, n, k) ==
  /\ d \in Config
  /\ d.Module_Count = c.Module_Count
  /\ d.j_cycle = c.j_cycle + n
  /\ \A i \in Sections : i # k => d.ModuleConfig[i] = c.ModuleConfig[i]
  /\ d.ModuleConfig[k].NumberOfActions = c.ModuleConfig[k].NumberOfActions + n
  /\ n <= maxActionSingleModule /\ ~c.past => ~d.past
  /\ \A i \in 1 .. n : i <= maxActionSingleModule =>
       d.ModuleConfig[k].ActionInstanceConfig[i - 1] =
         IF list[i] \in ActionNames THEN list[i]
         ELSE c.ModuleConfig[k].ActionInstanceConfig[i - 1]
  /\ \A i \in Actions : i >= n =>
       d.ModuleConfig[k].ActionInstanceConfig[i] = c.ModuleConfig[k].ActionInstanceConfig[i]

LEMMA ActionsOfList ==
  ASSUME NEW c \in Config, NEW list \in Seq(STRING), NEW k \in Sections,
         c.Module_Count = k, c.j_cycle = 0
  PROVE  Listed(FoldLeft(ParsedAction, c, list), c, list, Len(list), k)
<1>1. PICK g : /\ g[0] = c
               /\ \A i \in 1 .. Len(list) : g[i] = ParsedAction(g[i - 1], list[i])
               /\ FoldLeft(ParsedAction, c, list) = g[Len(list)]
  BY ActionsFold
<1>2. PICK T : T = {n \in 0 .. Len(list) : Listed(g[n], c, list, n, k)}
  OBVIOUS
<1>3. Len(list) \in Nat /\ k \in Nat
  BY XmlAssumption DEF Sections
<1>4. /\ maxActionSingleModule \in Nat \ {0}
      /\ \A i : i \in Actions <=> i \in Nat /\ i < maxActionSingleModule
  BY XmlAssumption DEF Actions
<1>5. /\ c.ModuleConfig \in [Sections -> Section]
      /\ c.ModuleConfig[k].NumberOfActions \in Nat
      /\ c.ModuleConfig[k].ActionInstanceConfig \in [Actions -> ActionNames]
  BY DEF Config, Section
<1>6. 0 \in T
  <2>1. Listed(c, c, list, 0, k)
    BY <1>5 DEF Listed, Config
  <2>. QED
    BY <1>1, <1>2, <1>3, <2>1
<1>7. ASSUME NEW n \in Nat, n < Len(list), n \in T PROVE n + 1 \in T
  <2>1. PICK a, d, name : a = g[n] /\ d = g[n + 1] /\ name = list[n + 1]
    OBVIOUS
  <2>2. Listed(a, c, list, n, k)
    BY <1>2, <1>7, <2>1
  <2>3. n + 1 \in 1 .. Len(list) /\ (n + 1) - 1 = n
    BY <1>3, <1>7
  <2>4. d = ParsedAction(a, name)
    BY <1>1, <2>1, <2>3
  <2>5. a \in Config /\ a.Module_Count = k /\ a.j_cycle = n
    BY <2>2 DEF Listed
  <2>6. /\ d \in Config
        /\ d.Module_Count = k
        /\ d.j_cycle = n + 1
        /\ d.past = (a.past \/ (name \in ActionNames /\ n \notin Actions))
        /\ \A i \in Sections : i # k => d.ModuleConfig[i] = a.ModuleConfig[i]
        /\ d.ModuleConfig[k] =
              IF name \in ActionNames /\ n \in Actions
                THEN Stored(a.ModuleConfig[k], n, name) ELSE Counted(a.ModuleConfig[k])
    BY <2>4, <2>5, ActionFacts
  <2>7. PICK b, e : b = a.ModuleConfig[k] /\ e = d.ModuleConfig[k]
    OBVIOUS
  <2>8. b \in Section
    BY <2>5, <2>7 DEF Config
  <2>9. /\ b.NumberOfActions \in Nat
        /\ b.ActionInstanceConfig \in [Actions -> ActionNames]
    BY <2>8 DEF Section
  <2>10. /\ e.NumberOfActions = b.NumberOfActions + 1
         /\ e.ActionInstanceConfig =
              IF name \in ActionNames /\ n \in Actions
                THEN [b.ActionInstanceConfig EXCEPT ![n] = name] ELSE b.ActionInstanceConfig
    <3>1. CASE name \in ActionNames /\ n \in Actions
      BY <2>6, <2>7, <2>8, <3>1, ActionOfSection
    <3>2. CASE ~(name \in ActionNames /\ n \in Actions)
      BY <2>6, <2>7, <2>8, <3>2, ActionOfSection
    <3>. QED
      BY <3>1, <3>2
  <2>11. /\ b.NumberOfActions = c.ModuleConfig[k].NumberOfActions + n
         /\ \A i \in 1 .. n : i <= maxActionSingleModule =>
              b.ActionInstanceConfig[i - 1] =
                IF list[i] \in ActionNames THEN list[i]
                ELSE c.ModuleConfig[k].ActionInstanceConfig[i - 1]
         /\ \A i \in Actions : i >= n =>
              b.ActionInstanceConfig[i] = c.ModuleConfig[k].ActionInstanceConfig[i]
    BY <2>2, <2>7 DEF Listed
  <2>12. n + 1 <= maxActionSingleModule /\ ~c.past => ~d.past
    <3>. SUFFICES ASSUME n + 1 <= maxActionSingleModule, ~c.past PROVE ~d.past
      OBVIOUS
    <3>1. n <= maxActionSingleModule /\ n \in Actions
      BY <1>4
    <3>2. ~a.past
      BY <2>2, <3>1 DEF Listed
    <3>. QED
      BY <2>6, <3>1, <3>2
  <2>13. ASSUME NEW i \in 1 .. n + 1, i <= maxActionSingleModule
         PROVE  e.ActionInstanceConfig[i - 1] =
                  IF list[i] \in ActionNames THEN list[i]
                  ELSE c.ModuleConfig[k].ActionInstanceConfig[i - 1]
    <3>1. i - 1 \in Actions
      BY <1>4, <2>13
    <3>2. CASE i = n + 1
      <4>1. i - 1 = n /\ n \in Actions /\ n >= n
        BY <3>1, <3>2
      <4>2. b.ActionInstanceConfig[n] = c.ModuleConfig[k].ActionInstanceConfig[n]
        BY <2>11, <4>1
      <4>. QED
        BY <2>1, <2>9, <2>10, <3>2, <4>1, <4>2
    <3>3. CASE i # n + 1
      <4>1. i \in 1 .. n /\ i - 1 # n
        BY <3>3
      <4>2. e.ActionInstanceConfig[i - 1] = b.ActionInstanceConfig[i - 1]
        BY <2>9, <2>10, <3>1, <4>1
      <4>. QED
        BY <2>11, <2>13, <4>1, <4>2
    <3>. QED
      BY <3>2, <3>3
  <2>14. ASSUME NEW i \in Actions, i >= n + 1
         PROVE  e.ActionInstanceConfig[i] = c.ModuleConfig[k].ActionInstanceConfig[i]
    <3>1. i >= n /\ i # n
      BY <1>4, <2>14
    <3>2. e.ActionInstanceConfig[i] = b.ActionInstanceConfig[i]
      BY <2>9, <2>10, <3>1
    <3>. QED
      BY <2>11, <3>1, <3>2
  <2>15. e.NumberOfActions = c.ModuleConfig[k].NumberOfActions + (n + 1)
    <3>1. /\ e.NumberOfActions = b.NumberOfActions + 1
          /\ b.NumberOfActions = c.ModuleConfig[k].NumberOfActions + n
          /\ c.ModuleConfig[k].NumberOfActions \in Nat
      BY <1>5, <2>10, <2>11
    <3>. QED
      BY <3>1
  <2>16. \A i \in Sections : i # k => d.ModuleConfig[i] = c.ModuleConfig[i]
    BY <2>2, <2>6 DEF Listed
  <2>17. d.Module_Count = c.Module_Count /\ d.j_cycle = c.j_cycle + (n + 1)
    BY <2>6
  <2>18. Listed(d, c, list, n + 1, k)
    BY <2>6, <2>7, <2>12, <2>13, <2>14, <2>15, <2>16, <2>17 DEF Listed
  <2>. QED
    BY <1>2, <2>1, <2>3, <2>18
<1>8. Len(list) \in T
  <2>1. Len(list) \in 0 .. Len(list)
    BY <1>3
  <2>. QED
    BY <1>3, <1>6, <1>7, <2>1, InductionTo
<1>. QED
  BY <1>1, <1>2, <1>8

\* Whatever the configuration, a list leaves one.
LEMMA ListType ==
  ASSUME NEW c \in Config, NEW list \in Seq(STRING)
  PROVE  /\ FoldLeft(ParsedAction, c, list) \in Config
         /\ ParsedList(c, list) \in Config
         /\ ParsedList(c, list) = [FoldLeft(ParsedAction, c, list) EXCEPT !.j_cycle = 0]
<1>1. PICK g : /\ g[0] = c
               /\ \A i \in 1 .. Len(list) : g[i] = ParsedAction(g[i - 1], list[i])
               /\ FoldLeft(ParsedAction, c, list) = g[Len(list)]
  BY ActionsFold
<1>2. PICK T : T = {n \in Nat : g[n] \in Config}
  OBVIOUS
<1>3. Len(list) \in Nat /\ 0 \in T
  BY <1>1, <1>2
<1>4. ASSUME NEW n \in Nat, n < Len(list), n \in T PROVE n + 1 \in T
  <2>1. n + 1 \in 1 .. Len(list) /\ (n + 1) - 1 = n
    BY <1>3, <1>4
  <2>2. g[n + 1] = ParsedAction(g[n], list[n + 1]) /\ g[n] \in Config
    BY <1>1, <1>2, <1>4, <2>1
  <2>. QED
    BY <1>2, <2>2, ActionFacts
<1>5. Len(list) \in T
  <2>1. Len(list) \in 0 .. Len(list)
    BY <1>3
  <2>. QED
    BY <1>3, <1>4, <2>1, InductionTo
<1>6. FoldLeft(ParsedAction, c, list) \in Config
  BY <1>1, <1>2, <1>5
<1>7. ParsedList(c, list) = [FoldLeft(ParsedAction, c, list) EXCEPT !.j_cycle = 0]
  BY Zenon DEF ParsedList, FirstAction
<1>. QED
  BY <1>6, <1>7 DEF Config

-----------------------------------------------------------------------------
(* A section of lists.                                                     *)

LEMMA ListsFold ==
  ASSUME NEW c \in Config, NEW section \in Seq(Seq(STRING))
  PROVE  \E g : /\ g[0] = c
                /\ \A k \in 1 .. Len(section) : g[k] = ParsedList(g[k - 1], section[k])
                /\ FoldLeft(ParsedList, c, section) = g[Len(section)]
<1>1. PICK n : n = Len(section)
  OBVIOUS
<1>2. n \in Nat /\ DOMAIN section = 1 .. n
  BY <1>1
<1>3. PICK F : F = [x \in (1 .. n) \X Config |-> ParsedList(x[2], section[x[1]])]
  OBVIOUS
<1>4. F \in [(1 .. n) \X Config -> Config]
  <2>1. ASSUME NEW x \in (1 .. n) \X Config PROVE ParsedList(x[2], section[x[1]]) \in Config
    <3>1. x[2] \in Config /\ section[x[1]] \in Seq(STRING)
      BY <1>2
    <3>. QED
      BY <3>1, ListType
  <2>. QED
    BY <1>3, <2>1
<1>5. \E f : f = [s \in SUBSET (DOMAIN section) |->
                   IF s = {} THEN c
                   ELSE ParsedList(f[s \ {Max(s)}], section[Max(s)])]
  <2>1. PICK f \in [SUBSET (1 .. n) -> Config] : FoldOf(f, n, c, F)
    BY <1>2, <1>4, FoldExists
  <2>2. ASSUME NEW s \in SUBSET (1 .. n)
        PROVE  f[s] = IF s = {} THEN c ELSE ParsedList(f[s \ {Max(s)}], section[Max(s)])
    <3>1. CASE s = {}
      BY <2>1, <3>1 DEF FoldOf
    <3>2. CASE s # {}
      <4>1. Max(s) \in 1 .. n
        BY <1>2, <3>2, MaxFacts
      <4>2. f[s \ {Max(s)}] \in Config
        OBVIOUS
      <4>3. f[s] = F[<<Max(s), f[s \ {Max(s)}]>>]
        BY <2>1, <3>2 DEF FoldOf
      <4>. QED
        BY <1>3, <3>2, <4>1, <4>2, <4>3
    <3>. QED
      BY <3>1, <3>2
  <2>3. f = [s \in SUBSET (1 .. n) |->
               IF s = {} THEN c ELSE ParsedList(f[s \ {Max(s)}], section[Max(s)])]
    BY <2>2
  <2>. QED
    BY <1>2, <2>3
<1>6. PICK f : f = CHOOSE h : h = [s \in SUBSET (DOMAIN section) |->
                                     IF s = {} THEN c
                                     ELSE ParsedList(h[s \ {Max(s)}], section[Max(s)])]
  OBVIOUS
<1>7. f = [s \in SUBSET (DOMAIN section) |->
             IF s = {} THEN c ELSE ParsedList(f[s \ {Max(s)}], section[Max(s)])]
  BY <1>5, <1>6, Zenon
<1>8. FoldLeft(ParsedList, c, section) = f[DOMAIN section]
  BY <1>6, Zenon DEF FoldLeft, MapThenFoldSet
<1>9. PICK g : g = [k \in 0 .. n |-> f[1 .. k]]
  OBVIOUS
<1>10. g[0] = c
  <2>1. 1 .. 0 = {}
    OBVIOUS
  <2>. QED
    BY <1>2, <1>7, <1>9, <2>1
<1>11. ASSUME NEW k \in 1 .. n PROVE g[k] = ParsedList(g[k - 1], section[k])
  <2>1. /\ 1 .. k \in SUBSET (1 .. n)
        /\ 1 .. k # {}
        /\ Max(1 .. k) = k
        /\ (1 .. k) \ {k} = 1 .. k - 1
    BY <1>2, FirstIndices
  <2>2. f[1 .. k] = ParsedList(f[1 .. k - 1], section[k])
    BY <1>2, <1>7, <2>1
  <2>3. k \in 0 .. n /\ k - 1 \in 0 .. n
    BY <1>2
  <2>. QED
    BY <1>9, <2>2, <2>3
<1>12. FoldLeft(ParsedList, c, section) = g[n]
  <2>1. n \in 0 .. n
    BY <1>2
  <2>. QED
    BY <1>2, <1>8, <1>9, <2>1
<1>. QED
  BY <1>1, <1>10, <1>11, <1>12

IsFlat(f, section, n) ==
  f = [i \in 1 .. n |-> IF i = 1 THEN section[i] ELSE f[i - 1] \o section[i]]

\* The actions of a section are those of its lists, one after the other.
LEMMA FlattenSums ==
  ASSUME NEW section \in Seq(Seq(STRING))
  PROVE  \E h : /\ h[0] = 0
                /\ \A i \in 0 .. Len(section) : h[i] \in Nat
                /\ \A i \in 1 .. Len(section) : h[i] = h[i - 1] + Len(section[i])
                /\ Len(ActionsOf(section)) = h[Len(section)]
                /\ Len(section) = 1 => ActionsOf(section) = section[1]
<1>1. PICK T : T = {n \in Nat : n <= Len(section) =>
        \E f : IsFlat(f, section, n) /\ \A i \in 1 .. n : f[i] \in Seq(STRING)}
  OBVIOUS
<1>2. Len(section) \in Nat
  OBVIOUS
<1>3. 0 \in T
  <2>1. PICK f : f = [i \in 1 .. 0 |-> <<>>]
    OBVIOUS
  <2>2. IsFlat(f, section, 0) /\ \A i \in 1 .. 0 : f[i] \in Seq(STRING)
    BY <2>1 DEF IsFlat
  <2>. QED
    BY <1>1, <2>2
<1>4. ASSUME NEW n \in Nat, n < Len(section), n \in T PROVE n + 1 \in T
  <2>1. n <= Len(section) /\ n + 1 \in 1 .. Len(section)
    BY <1>2, <1>4
  <2>2. PICK f : IsFlat(f, section, n) /\ \A i \in 1 .. n : f[i] \in Seq(STRING)
    BY <1>1, <1>4, <2>1, Zenon
  <2>3. PICK g : g = [i \in 1 .. n + 1 |-> IF i = n + 1
                       THEN (IF i = 1 THEN section[i] ELSE f[i - 1] \o section[i]) ELSE f[i]]
    OBVIOUS
  <2>4. section[n + 1] \in Seq(STRING)
    BY <2>1
  <2>5. ASSUME NEW i \in 1 .. n + 1
        PROVE  /\ g[i] = IF i = 1 THEN section[i] ELSE g[i - 1] \o section[i]
               /\ g[i] \in Seq(STRING)
    <3>1. CASE i = n + 1 /\ i = 1
      BY <2>3, <2>4, <3>1
    <3>2. CASE i = n + 1 /\ i # 1
      <4>1. n \in 1 .. n /\ n # n + 1 /\ n \in 1 .. n + 1 /\ i - 1 = n
        BY <3>2
      <4>2. g[n] = f[n] /\ f[n] \in Seq(STRING)
        BY <2>2, <2>3, <4>1
      <4>3. g[i] = f[n] \o section[i]
        BY <2>3, <3>2, <4>1
      <4>4. f[n] \o section[i] \in Seq(STRING)
        BY <2>4, <3>2, <4>2, ConcatProperties
      <4>. QED
        BY <3>2, <4>1, <4>2, <4>3, <4>4
    <3>3. CASE i # n + 1
      <4>1. i \in 1 .. n /\ g[i] = f[i]
        BY <2>3, <3>3
      <4>2. CASE i = 1
        BY <2>2, <4>1, <4>2 DEF IsFlat
      <4>3. CASE i # 1
        <5>1. i - 1 \in 1 .. n + 1 /\ i - 1 # n + 1
          BY <3>3, <4>1, <4>3
        <5>2. g[i - 1] = f[i - 1]
          BY <2>3, <5>1
        <5>3. f[i] = f[i - 1] \o section[i] /\ f[i] \in Seq(STRING)
          BY <2>2, <4>1, <4>3 DEF IsFlat
        <5>. QED
          BY <4>1, <4>3, <5>2, <5>3
      <4>. QED
        BY <4>2, <4>3
    <3>. QED
      BY <3>1, <3>2, <3>3
  <2>7. DOMAIN g = 1 .. n + 1 /\ g = [i \in 1 .. n + 1 |-> g[i]]
    BY <2>3
  <2>8. IsFlat(g, section, n + 1)
    BY <2>5, <2>7 DEF IsFlat
  <2>6. IsFlat(g, section, n + 1) /\ \A i \in 1 .. n + 1 : g[i] \in Seq(STRING)
    BY <2>5, <2>8
  <2>. QED
    BY <1>1, <2>6
<1>5. Len(section) \in T
  <2>1. Len(section) \in 0 .. Len(section)
    BY <1>2
  <2>. QED
    BY <1>2, <1>3, <1>4, <2>1, InductionTo
<1>6. Len(section) <= Len(section)
  BY <1>2
<1>7. \E f : IsFlat(f, section, Len(section))
  BY <1>1, <1>5, <1>6, Zenon
<1>8. PICK f : f = CHOOSE g : IsFlat(g, section, Len(section))
  OBVIOUS
<1>9. IsFlat(f, section, Len(section))
  BY <1>7, <1>8, Zenon
<1>10. ActionsOf(section) = IF Len(section) = 0 THEN section ELSE f[Len(section)]
  <2>1. ActionsOf(section) =
          IF Len(section) = 0 THEN section
          ELSE (CHOOSE g : IsFlat(g, section, Len(section)))[Len(section)]
    BY DEF ActionsOf, FlattenSeq, IsFlat
  <2>. QED
    BY <1>8, <2>1, Zenon
<1>11. \A i \in 1 .. Len(section) : section[i] \in Seq(STRING)
  OBVIOUS
<1>12. PICK U : U = {n \in Nat : n # 0 => f[n] \in Seq(STRING)}
  OBVIOUS
<1>13. ASSUME NEW i \in 1 .. Len(section) PROVE f[i] \in Seq(STRING)
  <2>1. ASSUME NEW n \in Nat, n < Len(section), n \in U PROVE n + 1 \in U
    <3>1. n + 1 \in 1 .. Len(section)
      BY <1>2, <2>1
    <3>2. CASE n = 0
      <4>1. f[n + 1] = section[n + 1]
        BY <1>9, <3>1, <3>2 DEF IsFlat
      <4>. QED
        BY <1>11, <1>12, <3>1, <4>1
    <3>3. CASE n # 0
      <4>1. f[n + 1] = f[n] \o section[n + 1]
        <5>1. n + 1 # 1 /\ (n + 1) - 1 = n
          BY <3>3
        <5>. QED
          BY <1>9, <3>1, <5>1 DEF IsFlat
      <4>2. f[n] \in Seq(STRING)
        BY <1>12, <2>1, <3>3, Zenon
      <4>3. section[n + 1] \in Seq(STRING)
        BY <1>11, <3>1
      <4>4. f[n] \o section[n + 1] \in Seq(STRING)
        BY <4>2, <4>3, ConcatProperties
      <4>5. n + 1 \in Nat /\ f[n + 1] \in Seq(STRING)
        BY <4>1, <4>4
      <4>. QED
        BY <1>12, <4>5
    <3>. QED
      BY <3>2, <3>3
  <2>2. 0 \in U
    BY <1>12
  <2>3. \A j \in 0 .. Len(section) : j \in U
    BY <1>2, <2>1, <2>2, InductionTo
  <2>4. i \in 0 .. Len(section) /\ i # 0
    BY <1>2
  <2>. QED
    BY <1>12, <2>3, <2>4
<1>14. PICK h : h = [i \in 0 .. Len(section) |-> IF i = 0 THEN 0 ELSE Len(f[i])]
  OBVIOUS
<1>15. h[0] = 0 /\ \A i \in 1 .. Len(section) : h[i] = Len(f[i])
  BY <1>2, <1>14
<1>16. \A i \in 0 .. Len(section) : h[i] \in Nat
  BY <1>2, <1>13, <1>15
<1>17. ASSUME NEW i \in 1 .. Len(section) PROVE h[i] = h[i - 1] + Len(section[i])
  <2>1. section[i] \in Seq(STRING) /\ Len(section[i]) \in Nat
    BY <1>11
  <2>2. CASE i = 1
    <3>1. f[i] = section[i]
      BY <1>9, <2>2 DEF IsFlat
    <3>. QED
      BY <1>15, <2>1, <2>2, <3>1
  <2>3. CASE i # 1
    <3>1. i - 1 \in 1 .. Len(section)
      BY <1>2, <2>3
    <3>2. f[i] = f[i - 1] \o section[i]
      BY <1>9, <2>3 DEF IsFlat
    <3>3. f[i - 1] \in Seq(STRING)
      BY <1>13, <3>1
    <3>4. Len(f[i - 1] \o section[i]) = Len(f[i - 1]) + Len(section[i])
      BY <2>1, <3>3, ConcatProperties
    <3>. QED
      BY <1>15, <3>1, <3>2, <3>4
  <2>. QED
    BY <2>2, <2>3
<1>18. Len(ActionsOf(section)) = h[Len(section)]
  <2>1. CASE Len(section) = 0
    BY <1>10, <1>15, <2>1
  <2>2. CASE Len(section) # 0
    <3>1. Len(section) \in 1 .. Len(section)
      BY <1>2, <2>2
    <3>. QED
      BY <1>10, <1>15, <2>2, <3>1
  <2>. QED
    BY <2>1, <2>2
<1>19. Len(section) = 1 => ActionsOf(section) = section[1]
  BY <1>9, <1>10 DEF IsFlat
<1>. QED
  BY <1>15, <1>16, <1>17, <1>18, <1>19

\* Lists add up.
LEMMA SumsGrow ==
  ASSUME NEW section \in Seq(Seq(STRING)), NEW h,
         \A i \in 0 .. Len(section) : h[i] \in Nat,
         \A i \in 1 .. Len(section) : h[i] = h[i - 1] + Len(section[i])
  PROVE  \A n \in 0 .. Len(section) : \A i \in 0 .. n : h[i] <= h[n]
<1>1. PICK T : T = {n \in Nat : \A i \in 0 .. n : h[i] <= h[n]}
  OBVIOUS
<1>2. Len(section) \in Nat
  OBVIOUS
<1>3. 0 \in T
  <2>1. h[0] \in Nat
    BY <1>2
  <2>2. \A i \in 0 .. 0 : i = 0
    OBVIOUS
  <2>3. \A i \in 0 .. 0 : h[i] <= h[0]
    BY <2>1, <2>2
  <2>. QED
    BY <1>1, <2>3
<1>4. ASSUME NEW n \in Nat, n < Len(section), n \in T PROVE n + 1 \in T
  <2>1. /\ n + 1 \in 1 .. Len(section)
        /\ n + 1 \in 0 .. Len(section)
        /\ n \in 0 .. Len(section)
        /\ (n + 1) - 1 = n
    BY <1>2, <1>4
  <2>2. section[n + 1] \in Seq(STRING)
    BY <2>1
  <2>3. /\ h[n + 1] = h[n] + Len(section[n + 1])
        /\ h[n] \in Nat
        /\ h[n + 1] \in Nat
        /\ Len(section[n + 1]) \in Nat
    BY <2>1, <2>2
  <2>4. ASSUME NEW i \in 0 .. n + 1 PROVE h[i] <= h[n + 1]
    <3>1. CASE i = n + 1
      BY <2>3, <3>1
    <3>2. CASE i # n + 1
      <4>1. i \in 0 .. n /\ i \in 0 .. Len(section)
        BY <2>1, <3>2
      <4>2. h[i] <= h[n] /\ h[i] \in Nat
        BY <1>1, <1>4, <4>1
      <4>. QED
        BY <2>3, <4>2
    <3>. QED
      BY <3>1, <3>2
  <2>. QED
    BY <1>1, <2>4
<1>5. \A n \in 0 .. Len(section) : n \in T
  BY <1>2, <1>3, <1>4, InductionTo
<1>. QED
  BY <1>1, <1>5

\* What the first n lists of a section leave of it: h[n] actions, which stay in the
\* array if that many fit, and the names of the only list if there is one.
ListsRead(d, c, section, h, n, k) ==
  /\ d \in Config
  /\ d.Module_Count = k
  /\ d.j_cycle = 0
  /\ \A i \in Sections : i # k => d.ModuleConfig[i] = c.ModuleConfig[i]
  /\ d.ModuleConfig[k].NumberOfActions = h[n]
  /\ h[n] <= maxActionSingleModule => ~d.past
  /\ n = 1 => \A i \in 1 .. Len(section[1]) : i <= maxActionSingleModule =>
       d.ModuleConfig[k].ActionInstanceConfig[i - 1] =
         IF section[1][i] \in ActionNames THEN section[1][i] ELSE RequestMachineData

LEMMA ListsOfSection ==
  ASSUME NEW c \in Config, NEW section \in Seq(Seq(STRING)), NEW k \in Sections, NEW h,
         c.Module_Count = k, c.j_cycle = 0, ~c.past, c.ModuleConfig[k] = NoSection,
         h[0] = 0,
         \A i \in 0 .. Len(section) : h[i] \in Nat,
         \A i \in 1 .. Len(section) : h[i] = h[i - 1] + Len(section[i])
  PROVE  ListsRead(FoldLeft(ParsedList, c, section), c, section, h, Len(section), k)
<1>1. PICK g : /\ g[0] = c
               /\ \A i \in 1 .. Len(section) : g[i] = ParsedList(g[i - 1], section[i])
               /\ FoldLeft(ParsedList, c, section) = g[Len(section)]
  BY ListsFold
<1>2. PICK T : T = {n \in 0 .. Len(section) : ListsRead(g[n], c, section, h, n, k)}
  OBVIOUS
<1>3. Len(section) \in Nat /\ k \in Nat /\ maxActionSingleModule \in Nat
  BY XmlAssumption DEF Sections
<1>4. 0 \in T
  <2>1. ListsRead(c, c, section, h, 0, k)
    BY <1>3, NoConfigType DEF ListsRead, NoSection
  <2>. QED
    BY <1>1, <1>2, <1>3, <2>1
<1>5. ASSUME NEW n \in Nat, n < Len(section), n \in T PROVE n + 1 \in T
  <2>1. /\ n + 1 \in 1 .. Len(section)
        /\ n + 1 \in 0 .. Len(section)
        /\ n \in 0 .. Len(section)
        /\ (n + 1) - 1 = n
    BY <1>3, <1>5
  <2>2. PICK a, d, list, e : /\ a = g[n]
                             /\ d = g[n + 1]
                             /\ list = section[n + 1]
                             /\ e = FoldLeft(ParsedAction, a, list)
    OBVIOUS
  <2>3. list \in Seq(STRING) /\ Len(list) \in Nat
    BY <2>1, <2>2
  <2>4. d = ParsedList(a, list)
    BY <1>1, <2>1, <2>2
  <2>5. ListsRead(a, c, section, h, n, k)
    BY <1>2, <1>5, <2>2
  <2>6. a \in Config /\ a.Module_Count = k /\ a.j_cycle = 0
    BY <2>5 DEF ListsRead
  <2>7. Listed(e, a, list, Len(list), k)
    BY <2>2, <2>3, <2>6, ActionsOfList
  <2>8. d \in Config /\ e \in Config /\ d = [e EXCEPT !.j_cycle = 0]
    BY <2>2, <2>3, <2>4, <2>6, ListType
  <2>9. /\ d.ModuleConfig = e.ModuleConfig
        /\ d.Module_Count = e.Module_Count
        /\ d.j_cycle = 0
        /\ d.past = e.past
    BY <2>8 DEF Config
  <2>10. /\ h[n + 1] = h[n] + Len(list)
         /\ h[n] \in Nat
         /\ h[n + 1] \in Nat
    BY <2>1, <2>2
  <2>11. d.ModuleConfig[k].NumberOfActions = h[n + 1]
    <3>1. e.ModuleConfig[k].NumberOfActions = a.ModuleConfig[k].NumberOfActions + Len(list)
      BY <2>7 DEF Listed
    <3>2. a.ModuleConfig[k].NumberOfActions = h[n]
      BY <2>5 DEF ListsRead
    <3>. QED
      BY <2>9, <2>10, <3>1, <3>2
  <2>12. h[n + 1] <= maxActionSingleModule => ~d.past
    <3>. SUFFICES ASSUME h[n + 1] <= maxActionSingleModule PROVE ~d.past
      OBVIOUS
    <3>1. h[n] <= maxActionSingleModule /\ Len(list) <= maxActionSingleModule
      BY <1>3, <2>3, <2>10
    <3>2. ~a.past
      BY <2>5, <3>1 DEF ListsRead
    <3>3. ~e.past
      BY <2>7, <3>1, <3>2 DEF Listed
    <3>. QED
      BY <2>9, <3>3
  <2>13. \A i \in Sections : i # k => d.ModuleConfig[i] = c.ModuleConfig[i]
    BY <2>5, <2>7, <2>9 DEF Listed, ListsRead
  <2>14. ASSUME n + 1 = 1, NEW i \in 1 .. Len(section[1]), i <= maxActionSingleModule
         PROVE  d.ModuleConfig[k].ActionInstanceConfig[i - 1] =
                  IF section[1][i] \in ActionNames THEN section[1][i] ELSE RequestMachineData
    <3>1. n = 0 /\ list = section[1] /\ a = c
      BY <1>1, <2>2, <2>14
    <3>2. i - 1 \in Actions
      BY <1>3, <2>3, <2>14, <3>1 DEF Actions
    <3>3. a.ModuleConfig[k].ActionInstanceConfig[i - 1] = RequestMachineData
      BY <3>1, <3>2 DEF NoSection
    <3>4. e.ModuleConfig[k].ActionInstanceConfig[i - 1] =
            IF list[i] \in ActionNames THEN list[i]
            ELSE a.ModuleConfig[k].ActionInstanceConfig[i - 1]
      BY <2>7, <2>14, <3>1 DEF Listed
    <3>. QED
      BY <2>9, <3>1, <3>3, <3>4
  <2>15. d.Module_Count = k
    BY <2>6, <2>7, <2>9 DEF Listed
  <2>16. ListsRead(d, c, section, h, n + 1, k)
    BY <2>8, <2>9, <2>11, <2>12, <2>13, <2>14, <2>15 DEF ListsRead
  <2>. QED
    BY <1>2, <2>1, <2>2, <2>16
<1>6. Len(section) \in T
  <2>1. Len(section) \in 0 .. Len(section)
    BY <1>3
  <2>. QED
    BY <1>3, <1>4, <1>5, <2>1, InductionTo
<1>. QED
  BY <1>1, <1>2, <1>6

LEMMA SectionType ==
  ASSUME NEW c \in Config, NEW section \in Seq(Seq(STRING))
  PROVE  /\ FoldLeft(ParsedList, c, section) \in Config
         /\ ParsedSection(c, section) \in Config
<1>1. PICK g : /\ g[0] = c
               /\ \A i \in 1 .. Len(section) : g[i] = ParsedList(g[i - 1], section[i])
               /\ FoldLeft(ParsedList, c, section) = g[Len(section)]
  BY ListsFold
<1>2. PICK T : T = {n \in Nat : g[n] \in Config}
  OBVIOUS
<1>3. Len(section) \in Nat /\ 0 \in T
  BY <1>1, <1>2
<1>4. ASSUME NEW n \in Nat, n < Len(section), n \in T PROVE n + 1 \in T
  <2>1. n + 1 \in 1 .. Len(section) /\ (n + 1) - 1 = n
    BY <1>3, <1>4
  <2>2. g[n + 1] = ParsedList(g[n], section[n + 1]) /\ g[n] \in Config
    BY <1>1, <1>2, <1>4, <2>1
  <2>3. section[n + 1] \in Seq(STRING)
    BY <2>1
  <2>4. ParsedList(g[n], section[n + 1]) \in Config
    BY <2>2, <2>3, ListType
  <2>. QED
    BY <1>2, <2>2, <2>4
<1>5. Len(section) \in T
  <2>1. Len(section) \in 0 .. Len(section)
    BY <1>3
  <2>. QED
    BY <1>3, <1>4, <2>1, InductionTo
<1>6. FoldLeft(ParsedList, c, section) \in Config
  BY <1>1, <1>2, <1>5
<1>7. PICK d : d = IF c.Module_Count \in Sections THEN FoldLeft(ParsedList, c, section) ELSE c
  OBVIOUS
<1>8. ParsedSection(c, section) = [d EXCEPT !.Module_Count = @ + 1]
  BY <1>7, Zenon DEF ParsedSection
<1>9. d \in Config
  <2>1. CASE c.Module_Count \in Sections
    BY <1>6, <1>7, <2>1
  <2>2. CASE c.Module_Count \notin Sections
    BY <1>7, <2>2
  <2>. QED
    BY <2>1, <2>2
<1>10. ParsedSection(c, section) \in Config
  BY <1>8, <1>9 DEF Config
<1>. QED
  BY <1>6, <1>10

-----------------------------------------------------------------------------
(* A file of sections.                                                     *)

LEMMA SectionsFold ==
  ASSUME NEW c \in Config, NEW content \in Seq(Seq(Seq(STRING)))
  PROVE  \E g : /\ g[0] = c
                /\ \A k \in 1 .. Len(content) : g[k] = ParsedSection(g[k - 1], content[k])
                /\ FoldLeft(ParsedSection, c, content) = g[Len(content)]
<1>1. PICK n : n = Len(content)
  OBVIOUS
<1>2. n \in Nat /\ DOMAIN content = 1 .. n
  BY <1>1
<1>3. PICK F : F = [x \in (1 .. n) \X Config |-> ParsedSection(x[2], content[x[1]])]
  OBVIOUS
<1>4. F \in [(1 .. n) \X Config -> Config]
  <2>1. ASSUME NEW x \in (1 .. n) \X Config PROVE ParsedSection(x[2], content[x[1]]) \in Config
    <3>1. x[2] \in Config /\ content[x[1]] \in Seq(Seq(STRING))
      BY <1>2
    <3>. QED
      BY <3>1, SectionType
  <2>. QED
    BY <1>3, <2>1
<1>5. \E f : f = [s \in SUBSET (DOMAIN content) |->
                   IF s = {} THEN c
                   ELSE ParsedSection(f[s \ {Max(s)}], content[Max(s)])]
  <2>1. PICK f \in [SUBSET (1 .. n) -> Config] : FoldOf(f, n, c, F)
    BY <1>2, <1>4, FoldExists
  <2>2. ASSUME NEW s \in SUBSET (1 .. n)
        PROVE  f[s] = IF s = {} THEN c ELSE ParsedSection(f[s \ {Max(s)}], content[Max(s)])
    <3>1. CASE s = {}
      BY <2>1, <3>1 DEF FoldOf
    <3>2. CASE s # {}
      <4>1. Max(s) \in 1 .. n
        BY <1>2, <3>2, MaxFacts
      <4>2. f[s \ {Max(s)}] \in Config
        OBVIOUS
      <4>3. f[s] = F[<<Max(s), f[s \ {Max(s)}]>>]
        BY <2>1, <3>2 DEF FoldOf
      <4>. QED
        BY <1>3, <3>2, <4>1, <4>2, <4>3
    <3>. QED
      BY <3>1, <3>2
  <2>3. f = [s \in SUBSET (1 .. n) |->
               IF s = {} THEN c ELSE ParsedSection(f[s \ {Max(s)}], content[Max(s)])]
    BY <2>2
  <2>. QED
    BY <1>2, <2>3
<1>6. PICK f : f = CHOOSE h : h = [s \in SUBSET (DOMAIN content) |->
                                     IF s = {} THEN c
                                     ELSE ParsedSection(h[s \ {Max(s)}], content[Max(s)])]
  OBVIOUS
<1>7. f = [s \in SUBSET (DOMAIN content) |->
             IF s = {} THEN c ELSE ParsedSection(f[s \ {Max(s)}], content[Max(s)])]
  BY <1>5, <1>6, Zenon
<1>8. FoldLeft(ParsedSection, c, content) = f[DOMAIN content]
  BY <1>6, Zenon DEF FoldLeft, MapThenFoldSet
<1>9. PICK g : g = [k \in 0 .. n |-> f[1 .. k]]
  OBVIOUS
<1>10. g[0] = c
  <2>1. 1 .. 0 = {}
    OBVIOUS
  <2>. QED
    BY <1>2, <1>7, <1>9, <2>1
<1>11. ASSUME NEW k \in 1 .. n PROVE g[k] = ParsedSection(g[k - 1], content[k])
  <2>1. /\ 1 .. k \in SUBSET (1 .. n)
        /\ 1 .. k # {}
        /\ Max(1 .. k) = k
        /\ (1 .. k) \ {k} = 1 .. k - 1
    BY <1>2, FirstIndices
  <2>2. f[1 .. k] = ParsedSection(f[1 .. k - 1], content[k])
    BY <1>2, <1>7, <2>1
  <2>3. k \in 0 .. n /\ k - 1 \in 0 .. n
    BY <1>2
  <2>. QED
    BY <1>9, <2>2, <2>3
<1>12. FoldLeft(ParsedSection, c, content) = g[n]
  <2>1. n \in 0 .. n
    BY <1>2
  <2>. QED
    BY <1>2, <1>8, <1>9, <2>1
<1>. QED
  BY <1>1, <1>10, <1>11, <1>12

\* What the first n sections of a file that fits leave.
SectionsRead(d, content, n) ==
  /\ d \in Config
  /\ d.Module_Count = n
  /\ d.j_cycle = 0
  /\ ~d.past
  /\ \A k \in Sections : k >= n => d.ModuleConfig[k] = NoSection
  /\ \A k \in Sections : k < n =>
       /\ d.ModuleConfig[k].NumberOfActions <= maxActionSingleModule
       /\ Len(content[k + 1]) <= 1 => SectionIs(d, k, content[k + 1])

\* The section read last.
LEMMA LastSection ==
  ASSUME NEW a \in Config, NEW section \in Seq(Seq(STRING)), NEW n \in Sections,
         a.Module_Count = n, a.j_cycle = 0, ~a.past, a.ModuleConfig[n] = NoSection,
         Len(ActionsOf(section)) <= maxActionSingleModule,
         NEW d, d = ParsedSection(a, section)
  PROVE  /\ d \in Config
         /\ d.Module_Count = n + 1
         /\ d.j_cycle = 0
         /\ ~d.past
         /\ \A k \in Sections : k # n => d.ModuleConfig[k] = a.ModuleConfig[k]
         /\ d.ModuleConfig[n].NumberOfActions <= maxActionSingleModule
         /\ Len(section) <= 1 => SectionIs(d, n, section)
<1>1. PICK e : e = FoldLeft(ParsedList, a, section)
  OBVIOUS
<1>2. d = [e EXCEPT !.Module_Count = @ + 1]
  BY <1>1, Zenon DEF ParsedSection
<1>3. PICK h : /\ h[0] = 0
               /\ \A i \in 0 .. Len(section) : h[i] \in Nat
               /\ \A i \in 1 .. Len(section) : h[i] = h[i - 1] + Len(section[i])
               /\ Len(ActionsOf(section)) = h[Len(section)]
               /\ Len(section) = 1 => ActionsOf(section) = section[1]
  BY FlattenSums
<1>4. ListsRead(e, a, section, h, Len(section), n)
  BY <1>1, <1>3, ListsOfSection
<1>5. /\ e \in Config
      /\ e.Module_Count = n
      /\ e.j_cycle = 0
      /\ \A k \in Sections : k # n => e.ModuleConfig[k] = a.ModuleConfig[k]
      /\ e.ModuleConfig[n].NumberOfActions = Len(ActionsOf(section))
      /\ ~e.past
  BY <1>3, <1>4 DEF ListsRead
<1>6. /\ d \in Config
      /\ d.Module_Count = n + 1
      /\ d.j_cycle = 0
      /\ d.past = e.past
      /\ d.ModuleConfig = e.ModuleConfig
  <2>1. n \in Nat
    BY XmlAssumption DEF Sections
  <2>2. e \in Config /\ e.Module_Count = n /\ e.j_cycle = 0
    BY <1>5
  <2>. QED
    BY <1>2, <2>1, <2>2 DEF Config
<1>7. Len(section) \in Nat
  OBVIOUS
<1>9. d.ModuleConfig[n].NumberOfActions = Len(ActionsOf(section))
  BY <1>5, <1>6
<1>8. ASSUME Len(section) <= 1 PROVE SectionIs(d, n, section)
  <2>1. CASE Len(section) = 0
    <3>1. Len(ActionsOf(section)) = 0
      BY <1>3, <2>1
    <3>2. \A j \in 1 .. Len(ActionsOf(section)) : FALSE
      BY <3>1
    <3>. QED
      BY <1>9, <3>2 DEF SectionIs
  <2>2. CASE Len(section) = 1
    <3>1. ActionsOf(section) = section[1] /\ section[1] \in Seq(STRING)
      <4>1. 1 \in 1 .. Len(section)
        BY <2>2
      <4>2. section[1] \in Seq(STRING)
        BY <4>1
      <4>3. ActionsOf(section) = section[1]
        BY <1>3, <2>2, Zenon
      <4>. QED
        BY <4>2, <4>3
    <3>2. \A i \in 1 .. Len(section[1]) : i <= maxActionSingleModule =>
            e.ModuleConfig[n].ActionInstanceConfig[i - 1] =
              IF section[1][i] \in ActionNames THEN section[1][i] ELSE RequestMachineData
      BY <1>4, <2>2 DEF ListsRead
    <3>3. \A i \in 1 .. Len(section[1]) : i <= maxActionSingleModule
      <4>1. Len(section[1]) \in Nat /\ Len(section[1]) <= maxActionSingleModule
        BY <3>1
      <4>. QED
        BY <4>1, XmlAssumption
    <3>4. \A i \in 1 .. Len(ActionsOf(section)) :
            d.ModuleConfig[n].ActionInstanceConfig[i - 1] =
              IF ActionsOf(section)[i] \in ActionNames THEN ActionsOf(section)[i]
              ELSE RequestMachineData
      BY <1>6, <3>1, <3>2, <3>3
    <3>. QED
      BY <1>9, <3>4, Zenon DEF SectionIs
  <2>3. Len(section) = 0 \/ Len(section) = 1
    <3>1. \A n0 \in Nat : n0 <= 1 => n0 = 0 \/ n0 = 1
      OBVIOUS
    <3>. QED
      BY <1>7, <1>8, <3>1, Zenon
  <2>. QED
    BY <2>1, <2>2, <2>3, Zenon
<1>. QED
  BY <1>5, <1>6, <1>8

\* The parser keeps a file that fits the arrays as it is, whatever its names, and
\* writes within the arrays (ParametersLoad.c:102-260); of a section with more than
\* one list only the count of its actions is right.
THEOREM ParserCorrect ==
  ASSUME NEW content \in Seq(Seq(Seq(STRING))), Fits(content)
  PROVE  /\ StaysInArrays(Parsed(content))
         /\ Parsed(content).Module_Count = Len(content)
         /\ \A k \in 1 .. Len(content) :
              Len(content[k]) <= 1 => SectionIs(Parsed(content), k - 1, content[k])
<1>1. PICK g : /\ g[0] = NoConfig
               /\ \A i \in 1 .. Len(content) : g[i] = ParsedSection(g[i - 1], content[i])
               /\ FoldLeft(ParsedSection, NoConfig, content) = g[Len(content)]
  BY NoConfigType, SectionsFold
<1>2. PICK T : T = {n \in 0 .. Len(content) : SectionsRead(g[n], content, n)}
  OBVIOUS
<1>3. /\ Len(content) \in Nat
      /\ maxTrackingModule \in Nat
      /\ Len(content) <= maxTrackingModule
      /\ \A k \in Sections : k \in Nat /\ k < maxTrackingModule
  BY XmlAssumption DEF Sections, Fits
<1>4. 0 \in T
  <2>1. SectionsRead(NoConfig, content, 0)
    BY <1>3, NoConfigType DEF SectionsRead
  <2>. QED
    BY <1>1, <1>2, <1>3, <2>1
<1>5. ASSUME NEW n \in Nat, n < Len(content), n \in T PROVE n + 1 \in T
  <2>1. /\ n + 1 \in 1 .. Len(content)
        /\ n + 1 \in 0 .. Len(content)
        /\ (n + 1) - 1 = n
        /\ n \in Sections
    BY <1>3, <1>5 DEF Sections
  <2>2. PICK a, d, section : a = g[n] /\ d = g[n + 1] /\ section = content[n + 1]
    OBVIOUS
  <2>3. d = ParsedSection(a, section) /\ section \in Seq(Seq(STRING))
    BY <1>1, <2>1, <2>2
  <2>4. SectionsRead(a, content, n)
    BY <1>2, <1>5, <2>2
  <2>5. /\ a \in Config
        /\ a.Module_Count = n
        /\ a.j_cycle = 0
        /\ ~a.past
        /\ a.ModuleConfig[n] = NoSection
    BY <2>1, <2>4 DEF SectionsRead
  <2>6. Len(ActionsOf(section)) <= maxActionSingleModule
    BY <2>1, <2>2 DEF Fits
  <2>7. /\ d \in Config
        /\ d.Module_Count = n + 1
        /\ d.j_cycle = 0
        /\ ~d.past
        /\ \A k \in Sections : k # n => d.ModuleConfig[k] = a.ModuleConfig[k]
        /\ d.ModuleConfig[n].NumberOfActions <= maxActionSingleModule
        /\ Len(section) <= 1 => SectionIs(d, n, section)
    <3>1. n \in Sections /\ a \in Config /\ section \in Seq(Seq(STRING))
      BY <2>1, <2>3, <2>5
    <3>2. /\ a.Module_Count = n /\ a.j_cycle = 0 /\ ~a.past
          /\ a.ModuleConfig[n] = NoSection
          /\ Len(ActionsOf(section)) <= maxActionSingleModule
          /\ d = ParsedSection(a, section)
      BY <2>3, <2>5, <2>6
    <3>. QED
      BY <3>1, <3>2, LastSection
  <2>8. ASSUME NEW k \in Sections, k >= n + 1 PROVE d.ModuleConfig[k] = NoSection
    <3>1. k # n /\ k >= n
      BY <1>3, <2>8
    <3>. QED
      BY <2>4, <2>7, <3>1 DEF SectionsRead
  <2>9. ASSUME NEW k \in Sections, k < n + 1
        PROVE  /\ d.ModuleConfig[k].NumberOfActions <= maxActionSingleModule
               /\ Len(content[k + 1]) <= 1 => SectionIs(d, k, content[k + 1])
    <3>1. CASE k = n
      BY <2>2, <2>7, <3>1
    <3>2. CASE k # n
      <4>1. k < n /\ d.ModuleConfig[k] = a.ModuleConfig[k]
        BY <1>3, <2>7, <2>9, <3>2
      <4>2. /\ a.ModuleConfig[k].NumberOfActions <= maxActionSingleModule
            /\ Len(content[k + 1]) <= 1 => SectionIs(a, k, content[k + 1])
        BY <2>4, <4>1 DEF SectionsRead
      <4>3. SectionIs(a, k, content[k + 1]) => SectionIs(d, k, content[k + 1])
        BY <4>1 DEF SectionIs
      <4>. QED
        BY <4>1, <4>2, <4>3
    <3>. QED
      BY <3>1, <3>2
  <2>10. SectionsRead(d, content, n + 1)
    BY <2>7, <2>8, <2>9 DEF SectionsRead
  <2>. QED
    BY <1>2, <2>1, <2>2, <2>10
<1>6. Len(content) \in T
  <2>1. Len(content) \in 0 .. Len(content)
    BY <1>3
  <2>. QED
    BY <1>3, <1>4, <1>5, <2>1, InductionTo
<1>7. SectionsRead(Parsed(content), content, Len(content))
  BY <1>1, <1>2, <1>6 DEF Parsed
<1>8. PICK d : d = Parsed(content)
  OBVIOUS
<1>9. SectionsRead(d, content, Len(content))
  BY <1>7, <1>8
<1>10. d.Module_Count = Len(content) /\ ~d.past
  BY <1>9 DEF SectionsRead
<1>11. ASSUME NEW k \in Sections PROVE d.ModuleConfig[k].NumberOfActions <= maxActionSingleModule
  <2>1. CASE k < Len(content)
    BY <1>9, <2>1 DEF SectionsRead
  <2>2. CASE k >= Len(content)
    <3>1. d.ModuleConfig[k] = NoSection
      BY <1>9, <2>2 DEF SectionsRead
    <3>. QED
      BY <3>1, XmlAssumption DEF NoSection
  <2>. QED
    BY <1>3, <2>1, <2>2
<1>12. StaysInArrays(d)
  BY <1>3, <1>10, <1>11 DEF StaysInArrays
<1>13. ASSUME NEW k \in 1 .. Len(content), Len(content[k]) <= 1
       PROVE  SectionIs(d, k - 1, content[k])
  <2>1. k - 1 \in Sections /\ k - 1 < Len(content) /\ (k - 1) + 1 = k
    BY <1>3 DEF Sections
  <2>. QED
    BY <1>9, <1>13, <2>1 DEF SectionsRead
<1>. QED
  BY <1>8, <1>10, <1>12, <1>13

LEMMA ParsedType ==
  ASSUME NEW content \in Seq(Seq(Seq(STRING)))
  PROVE  Parsed(content) \in Config
<1>1. PICK g : /\ g[0] = NoConfig
               /\ \A i \in 1 .. Len(content) : g[i] = ParsedSection(g[i - 1], content[i])
               /\ FoldLeft(ParsedSection, NoConfig, content) = g[Len(content)]
  BY NoConfigType, SectionsFold
<1>2. PICK T : T = {n \in Nat : g[n] \in Config}
  OBVIOUS
<1>3. Len(content) \in Nat /\ 0 \in T
  BY <1>1, <1>2, NoConfigType
<1>4. ASSUME NEW n \in Nat, n < Len(content), n \in T PROVE n + 1 \in T
  <2>1. n + 1 \in 1 .. Len(content) /\ (n + 1) - 1 = n
    BY <1>3, <1>4
  <2>2. g[n + 1] = ParsedSection(g[n], content[n + 1]) /\ g[n] \in Config
    BY <1>1, <1>2, <1>4, <2>1
  <2>3. content[n + 1] \in Seq(Seq(STRING))
    BY <2>1
  <2>4. ParsedSection(g[n], content[n + 1]) \in Config
    BY <2>2, <2>3, SectionType
  <2>. QED
    BY <1>2, <2>2, <2>4
<1>5. Len(content) \in T
  <2>1. Len(content) \in 0 .. Len(content)
    BY <1>3
  <2>. QED
    BY <1>3, <1>4, <2>1, InductionTo
<1>. QED
  BY <1>1, <1>2, <1>5 DEF Parsed

-----------------------------------------------------------------------------
(* The invariant.                                                          *)

\* The types of the variables, of the configuration all of it.
VarType ==
  /\ file \in Files
  /\ cable \in BOOLEAN
  /\ startPc \in {"network", "delay", "create", "deleted"}
  /\ internal \in 0 .. InternalAttempts
  /\ dtcm \in 0 .. DtcmAttempts
  /\ buffers \in BOOLEAN
  /\ next \in 1 .. 6
  /\ tasks \subseteq Tasks
  /\ OnLoadParametersFromPC \in BOOLEAN /\ OnSysRestart \in BOOLEAN
  /\ loaderPc \in {"loop", "waiting", "delay"}
  /\ config \in Config
  /\ loaded \in BOOLEAN /\ client \in BOOLEAN /\ used \in BOOLEAN

\* ParametersLoad has taken the semaphore it finds at its first loop, and parsed,
\* before it waits for the first time; only then do the others run.
LoadedFirst ==
  /\ loaded => config = Parsed(file)
  /\ ~OnLoadParametersFromPC => loaded
  /\ loaderPc # "loop" => loaded
  /\ used => startPc = "deleted"
  /\ used /\ "ParametersLoad" \in tasks => loaded

Inv == VarType /\ LoadedFirst

LEMMA OrderFacts ==
  Len(Order) = 5 /\ \A i \in 1 .. 5 : Order[i] \in Tasks
BY DEF Order, Tasks

LEMMA InvInit ==
  ASSUME Init PROVE Inv
<1>1. config \in Config
  BY NoConfigType DEF Init, PowerUp
<1>2. VarType
  <2>1. internal \in 0 .. InternalAttempts /\ dtcm \in 0 .. DtcmAttempts /\ next \in 1 .. 6
    BY PoolAssumption DEF Init, PowerUp
  <2>2. startPc = "network" /\ loaderPc = "loop"
    BY DEF Init, PowerUp
  <2>. QED
    BY <1>1, <2>1, <2>2 DEF Init, VarType
<1>3. LoadedFirst
  BY DEF Init, PowerUp, LoadedFirst
<1>. QED
  BY <1>2, <1>3 DEF Inv

\* Start_task, during which no other task runs.
LEMMA StartTaskKeepsInv ==
  ASSUME Inv, StartTask PROVE Inv'
<1>1. startPc # "deleted" /\ ~used
  BY DEF Inv, LoadedFirst, StartTask, NetworkFails, NetworkComesUp, TriesAgain, Creates,
     StartOver
<1>2. UNCHANGED <<file, cable, OnLoadParametersFromPC, OnSysRestart, loaderPc, config,
                  loaded, client, used>>
  BY DEF StartTask, NetworkFails, NetworkComesUp, TriesAgain, Creates, StartOver
<1>3. LoadedFirst'
  BY <1>1, <1>2 DEF Inv, LoadedFirst
<1>4. startPc' \in {"network", "delay", "create", "deleted"}
  BY DEF Inv, VarType, StartTask, NetworkFails, NetworkComesUp, TriesAgain, Creates, StartOver
<1>5. /\ internal' \in 0 .. InternalAttempts
      /\ dtcm' \in 0 .. DtcmAttempts
      /\ buffers' \in BOOLEAN
  <2>1. internal \in 0 .. InternalAttempts /\ dtcm \in 0 .. DtcmAttempts /\ buffers \in BOOLEAN
    BY DEF Inv, VarType
  <2>2. CASE NetworkFails \/ NetworkComesUp
    <3>1. dtcm' \in 0 .. DtcmAttempts /\ buffers' \in BOOLEAN
      <4>1. TakesBuffers
        BY <2>2 DEF NetworkFails, NetworkComesUp
      <4>2. dtcm' \in 0 .. DtcmAttempts
        BY <2>1, <4>1, PoolAssumption DEF TakesBuffers
      <4>3. buffers' \in BOOLEAN
        BY <4>1 DEF TakesBuffers
      <4>. QED
        BY <4>2, <4>3
    <3>2. internal' = internal \/ (internal > 0 /\ internal' = internal - 1)
      BY <2>2 DEF NetworkFails, NetworkComesUp, InternalSuffices, InternalAfterFailure
    <3>. QED
      BY <2>1, <3>1, <3>2, PoolAssumption
  <2>3. CASE TriesAgain \/ Creates \/ StartOver
    BY <2>1, <2>3 DEF TriesAgain, Creates, StartOver, network
  <2>. QED
    BY <2>2, <2>3 DEF StartTask
<1>6. next' \in 1 .. 6 /\ tasks' \subseteq Tasks
  <2>1. next \in 1 .. 6 /\ tasks \subseteq Tasks
    BY DEF Inv, VarType
  <2>2. CASE Creates
    <3>1. next \in 1 .. 5 /\ next' = next + 1
      BY <2>1, <2>2, OrderFacts DEF Creates
    <3>2. Order[next] \in Tasks
      BY <3>1, OrderFacts
    <3>. QED
      BY <2>1, <2>2, <3>1, <3>2 DEF Creates
  <2>3. CASE ~Creates
    BY <2>1, <2>3 DEF StartTask, NetworkFails, NetworkComesUp, TriesAgain, StartOver
  <2>. QED
    BY <2>2, <2>3
<1>7. VarType'
  BY <1>2, <1>4, <1>5, <1>6 DEF Inv, VarType
<1>. QED
  BY <1>3, <1>7 DEF Inv

LEMMA ResetsKeepsInv ==
  ASSUME Inv, Resets PROVE Inv'
<1>1. config' \in Config
  BY NoConfigType DEF Resets, PowerUp
<1>2. VarType'
  <2>1. /\ internal' \in 0 .. InternalAttempts
        /\ dtcm' \in 0 .. DtcmAttempts
        /\ next' \in 1 .. 6
    BY PoolAssumption DEF Resets, PowerUp
  <2>2. startPc' = "network" /\ loaderPc' = "loop"
    BY DEF Resets, PowerUp
  <2>. QED
    BY <1>1, <2>1, <2>2 DEF Inv, VarType, Resets
<1>3. LoadedFirst'
  BY DEF Resets, PowerUp, LoadedFirst
<1>. QED
  BY <1>2, <1>3 DEF Inv

LEMMA LoadsKeepsInv ==
  ASSUME Inv, Loads PROVE Inv'
<1>1. config' \in Config
  BY FilesAssumption, ParsedType DEF Inv, VarType, Loads
<1>2. VarType'
  BY <1>1 DEF Inv, VarType, Loads, network
<1>3. LoadedFirst'
  BY DEF Inv, LoadedFirst, Loads
<1>. QED
  BY <1>2, <1>3 DEF Inv

\* The steps that only move ParametersLoad on.
LEMMA LoaderMovesKeepsInv ==
  ASSUME Inv, LoaderWaits \/ LoaderWaitEnds \/ LoaderWakes PROVE Inv'
<1>1. VarType'
  BY DEF Inv, VarType, LoaderWaits, LoaderWaitEnds, LoaderWakes, network
<1>2. LoadedFirst'
  BY DEF Inv, LoadedFirst, LoaderWaits, LoaderWaitEnds, LoaderWakes
<1>. QED
  BY <1>1, <1>2 DEF Inv

LEMMA OthersKeepInv ==
  ASSUME Inv, CableMoves \/ ClientComesOrGoes \/ RestartCommanded PROVE Inv'
<1>1. VarType'
  <2>1. cable' \in BOOLEAN /\ client' \in BOOLEAN /\ OnSysRestart' \in BOOLEAN
    BY DEF Inv, VarType, CableMoves, ClientComesOrGoes, RestartCommanded
  <2>. QED
    BY <2>1 DEF Inv, VarType, CableMoves, ClientComesOrGoes, RestartCommanded, network
<1>2. LoadedFirst'
  BY DEF Inv, LoadedFirst, CableMoves, ClientComesOrGoes, RestartCommanded
<1>. QED
  BY <1>1, <1>2 DEF Inv

\* Detection runs only when ParametersLoad does not want to, which has parsed then.
LEMMA DetectionPassesKeepsInv ==
  ASSUME Inv, DetectionPasses PROVE Inv'
<1>1. VarType'
  BY DEF Inv, VarType, DetectionPasses, network
<1>2. "ParametersLoad" \in tasks => loaded
  BY DEF Inv, VarType, LoadedFirst, DetectionPasses, OthersRun, LoaderReady, LoaderAt
<1>3. LoadedFirst'
  BY <1>2 DEF Inv, LoadedFirst, DetectionPasses, OthersRun
<1>. QED
  BY <1>1, <1>3 DEF Inv

LEMMA NextKeepsInv ==
  ASSUME Inv, [Next]_vars PROVE Inv'
<1>1. CASE UNCHANGED vars
  BY <1>1 DEF Inv, VarType, LoadedFirst, vars, network
<1>2. CASE Next
  BY <1>2, StartTaskKeepsInv, ResetsKeepsInv, LoadsKeepsInv, LoaderMovesKeepsInv, OthersKeepInv,
     DetectionPassesKeepsInv DEF Next, ParametersLoadThread
<1>. QED
  BY <1>1, <1>2

-----------------------------------------------------------------------------
(* Theorems.                                                               *)

\* The invariant holds for any files and pools.
THEOREM StartUpCorrect == Spec => []Inv
<1>1. Init => Inv
  BY InvInit
<1>2. Inv /\ [Next]_vars => Inv'
  BY NextKeepsInv
<1>. QED
  BY <1>1, <1>2, PTL DEF Spec

\* The variables have their types; the internal pool never gives more attempts
\* than it has memory for (lwip_comm.c:105-149), and the parser, whatever the file,
\* leaves an array of the length declared.
THEOREM TypeCorrect == Spec => []TypeOK
<1>1. Inv => TypeOK
  BY OrderFacts DEF Inv, VarType, TypeOK, Config
<1>. QED
  BY <1>1, StartUpCorrect, PTL

\* What detection reads is the configuration of the file, after every restart too,
\* if the task that parses it was created (main.c:131-210, ParametersLoad.c:75-266).
THEOREM DetectionReadsWhatIsFiled == Spec => []DetectionReadsFile
<1>1. ASSUME Inv PROVE DetectionReadsFile
  <2>. SUFFICES ASSUME used, "ParametersLoad" \in tasks PROVE loaded /\ IsFile(config)
    BY DEF DetectionReadsFile
  <2>1. loaded /\ config = Parsed(file) /\ file \in Seq(Seq(Seq(STRING)))
    BY <1>1, FilesAssumption DEF Inv, LoadedFirst, VarType
  <2>2. IsFile(config)
    <3>. SUFFICES ASSUME Fits(file) PROVE IsFile(config)
      BY DEF IsFile
    <3>1. /\ StaysInArrays(Parsed(file))
          /\ Parsed(file).Module_Count = Len(file)
          /\ \A k \in 1 .. Len(file) :
               Len(file[k]) <= 1 => SectionIs(Parsed(file), k - 1, file[k])
      BY <2>1, ParserCorrect
    <3>. QED
      BY <2>1, <3>1 DEF IsFile
  <2>. QED
    BY <2>1, <2>2
<1>. QED
  BY <1>1, StartUpCorrect, PTL
=============================================================================
