--------------------------- MODULE Monitors_proofs ---------------------------
(* Proofs about monitors: the check of their dependencies, their start and *)
(* end, and what becomes of the statuses, events and series they give      *)
(* rise to, for every configuration.                                       *)
EXTENDS MonitorOrder, MonitorLifecycle, KubeletMonitor, LogPatternMonitor, Filtering_proofs

----------------------------------------------------------------------------
(* The cycle check.                                                        *)

(* The stack of the search, as its steps change it. *)
LEMMA StackAfterVisit ==
    ASSUME NEW s \in Seq(Frame), s # <<>>
    PROVE  /\ Len(s) \in Nat \ {0} /\ DOMAIN s = 1 .. Len(s)
           /\ s[Len(s)] \in Frame
           /\ Visited(s) \in Seq(Frame) /\ Len(Visited(s)) = Len(s)
           /\ \A i \in 1 .. Len(s) - 1 : Visited(s)[i] = s[i]
           /\ Visited(s)[Len(s)] = [name |-> s[Len(s)].name, next |-> s[Len(s)].next + 1]
<1> DEFINE n == Len(s)
           f == [name |-> s[n].name, next |-> s[n].next + 1]
<1>1. n \in Nat \ {0} /\ DOMAIN s = 1 .. n
  BY EmptySeq, LenProperties
<1>2. s[n] \in Frame
  BY <1>1, ElementOfSeq
<1>3. f \in Frame
  BY <1>2 DEF Frame
<1>4. Visited(s) = [s EXCEPT ![n] = f]
  <2>1. ASSUME NEW r \in Frame
        PROVE  [r EXCEPT !.next = r.next + 1] = [name |-> r.name, next |-> r.next + 1]
    BY <2>1 DEF Frame
  <2>2. [s[n] EXCEPT !.next = s[n].next + 1] = f
    BY <1>2, <2>1
  <2> QED
    BY <2>2 DEF Visited
<1> HIDE DEF f
<1>5. /\ [s EXCEPT ![n] = f] \in Seq(Frame) /\ Len([s EXCEPT ![n] = f]) = n
      /\ \A j \in 1 .. n : [s EXCEPT ![n] = f][j] = IF j = n THEN f ELSE s[j]
  BY <1>1, <1>3, ExceptSeq
<1> QED
  BY <1>1, <1>2, <1>4, <1>5 DEF f

(* A dependency that is on the path closes a cycle: the part of the path   *)
(* from it on is a knot.                                                   *)
LEMMA PathCloses ==
    ASSUME CheckSound, pc = "dfs", VisitDependency,
           color[dependsOn[Top.name][Top.next]] = 1
    PROVE  Cyclic
<1> DEFINE n == Len(stack)
           dep == dependsOn[Top.name][Top.next]
<1>1. n \in Nat \ {0} /\ DOMAIN stack = 1 .. n /\ \A i \in 1 .. n : stack[i] \in Frame
  BY StackAfterVisit, ElementOfSeq DEF CheckSound, VisitDependency
<1>2. /\ Top = stack[n] /\ Top.name \in Names /\ Top.next \in Nat \ {0}
      /\ Top.next <= Len(dependsOn[Top.name])
  BY <1>1 DEF Top, Frame, VisitDependency
<1>3. \A m \in Names : dependsOn[m] \in Seq(Names \cup {Unknown})
  BY OrderAssumption DEF CheckSound
<1>4. \A m \in Names : \A k \in 1 .. Len(dependsOn[m]) : dependsOn[m][k] \in Elems(dependsOn[m])
  BY <1>3, LenProperties DEF Elems
<1>5. dep \in Elems(dependsOn[Top.name]) /\ dep \in Names
  BY <1>2, <1>3, <1>4, LenProperties DEF CheckSound, NamesKnown
<1>6. PICK j \in 1 .. n : stack[j].name = dep
  BY <1>1, <1>5 DEF CheckSound, Searching, PathIsGray
<1> DEFINE s == {stack[i].name : i \in j .. n}
<1>7. s \in SUBSET Names /\ dep \in s
  BY <1>1, <1>6 DEF Frame
<1>8. ASSUME NEW m \in s
      PROVE  Elems(dependsOn[m]) \cap s # {}
  <2>1. PICK i \in j .. n : m = stack[i].name
    BY <1>8
  <2>2. CASE i = n
    <3>1. m = Top.name
      BY <1>2, <2>1, <2>2
    <3> HIDE DEF s, dep
    <3> QED
      BY <1>5, <1>7, <3>1
  <2>3. CASE i < n
    <3>1. i \in DOMAIN stack /\ i + 1 \in j .. n /\ stack[i] \in Frame
      BY <1>1, <2>1, <2>3
    <3>2. /\ stack[i].next > 1 /\ stack[i].next <= Len(dependsOn[m]) + 1
          /\ dependsOn[m][stack[i].next - 1] = stack[i + 1].name
      BY <2>1, <2>3, <3>1 DEF CheckSound, Searching, PathIsLinked, FrameLinked
    <3>3. m \in Names /\ stack[i].next \in Nat /\ Len(dependsOn[m]) \in Nat
      BY <1>3, <2>1, <3>1, LenProperties DEF Frame
    <3>4. stack[i].next - 1 \in 1 .. Len(dependsOn[m])
      BY SMTT(30), <3>2, <3>3
    <3>5. stack[i + 1].name \in Elems(dependsOn[m])
      BY <1>4, <3>2, <3>3, <3>4
    <3> QED
      BY <3>1, <3>5
  <2>4. i = n \/ i < n
    BY <1>1, <2>1
  <2> QED
    BY <2>2, <2>3, <2>4
<1> HIDE DEF s
<1> QED
  BY <1>7, <1>8 DEF Cyclic, Knot

(* Leaving a monitor: all its dependencies are done, so it can be in no    *)
(* knot of monitors that are done.                                         *)
LEMMA LeavingIsSafe ==
    ASSUME CheckSound, pc = "dfs", LeaveMonitor
    PROVE  DoneIsClosed' /\ DoneIsAcyclic'
<1> DEFINE n == Len(stack)
           m == Top.name
<1>1. n \in Nat \ {0} /\ DOMAIN stack = 1 .. n /\ stack[n] \in Frame
  BY StackAfterVisit DEF CheckSound, LeaveMonitor
<1>2. m \in Names /\ Top = stack[n] /\ Top.next \in Nat /\ Top.next > Len(dependsOn[m])
  BY <1>1 DEF Top, Frame, LeaveMonitor
<1>3. dependsOn[m] \in Seq(Names \cup {Unknown})
  BY <1>2, OrderAssumption DEF CheckSound
<1>4. \A d \in Elems(dependsOn[m]) : color[d] = 2 /\ d \in Names
  <2> SUFFICES ASSUME NEW k \in DOMAIN dependsOn[m]
               PROVE  color[dependsOn[m][k]] = 2 /\ dependsOn[m][k] \in Names
    BY DEF Elems
  <2>1. k \in 1 .. Len(dependsOn[m]) /\ Len(dependsOn[m]) \in Nat
    BY <1>3, LenProperties
  <2>2. k \in 1 .. stack[n].next - 1 /\ ~(n < Len(stack))
    BY <1>1, <1>2, <2>1
  <2>3. color[dependsOn[m][k]] = 2
    BY <1>1, <1>2, <2>2 DEF CheckSound, Searching, PathIsLinked, FrameLinked
  <2>4. dependsOn[m][k] \in Names
    BY <1>2 DEF CheckSound, NamesKnown, Elems
  <2> QED
    BY <2>3, <2>4
<1>5. color[m] = 1
  BY <1>1, <1>2 DEF CheckSound, Searching, PathIsGray
<1>6. /\ color \in [Names -> 0 .. 2] /\ color' = [color EXCEPT ![m] = 2]
      /\ dependsOn' = dependsOn /\ NamesKnown
  BY DEF LeaveMonitor, CheckSound
<1>7. \A k \in Names : color'[k] = 2 <=> (k = m \/ color[k] = 2)
  BY <1>2, <1>6
<1>8. DoneIsClosed /\ DoneIsAcyclic
  BY DEF CheckSound, Searching
<1> HIDE DEF m
<1>9. DoneIsClosed'
  BY <1>4, <1>6, <1>7, <1>8 DEF DoneIsClosed, NamesKnown
<1>10. ASSUME NEW s \in SUBSET Names, \A k \in s : color'[k] = 2, Knot(s)
       PROVE  FALSE
  <2> DEFINE t == s \ {m}
  <2>1. ASSUME NEW k \in t
        PROVE  Elems(dependsOn[k]) \cap t # {}
    <3>1. k \in Names /\ color[k] = 2
      BY <1>7, <1>10
    <3>2. PICK d \in Elems(dependsOn[k]) : d \in s
      BY <1>10 DEF Knot
    <3>3. color[d] = 2
      BY <1>8, <3>1 DEF DoneIsClosed
    <3> QED
      BY <1>5, <3>2, <3>3
  <2>2. t \in SUBSET Names /\ \A k \in t : color[k] = 2
    BY <1>7, <1>10
  <2>3. t = {}
    <3> HIDE DEF t
    <3> QED BY <1>8, <2>1, <2>2 DEF DoneIsAcyclic, Knot
  <2>4. s = {m}
    BY <1>10, <2>3 DEF Knot
  <2>5. PICK d \in Elems(dependsOn[m]) : d = m
    BY <1>10, <2>4 DEF Knot
  <2> QED
    BY <1>4, <1>5, <2>5
<1>11. DoneIsAcyclic'
  <2> SUFFICES ASSUME NEW s \in SUBSET Names, \A k \in s : color'[k] = 2
               PROVE  ~Knot(s)'
    BY DEF DoneIsAcyclic
  <2>1. Knot(s)' <=> Knot(s)
    BY <1>6 DEF Knot
  <2> QED
    BY <1>10, <2>1
<1> QED
  BY <1>9, <1>11


(* Leaving a monitor shortens the path by one. *)
LEMMA LeavingKeepsPath ==
    ASSUME CheckSound, pc = "dfs", LeaveMonitor
    PROVE  stack' \in Seq(Frame) /\ PathIsGray' /\ PathIsLinked'
<1> DEFINE n == Len(stack)
<1>1. /\ n \in Nat \ {0} /\ DOMAIN stack = 1 .. n /\ \A i \in 1 .. n : stack[i] \in Frame
  BY StackAfterVisit, ElementOfSeq DEF CheckSound, LeaveMonitor
<1>2. /\ stack' \in Seq(Frame) /\ Len(stack') = n - 1
      /\ \A i \in 1 .. n - 1 : stack'[i] = stack[i]
  <2>1. stack' = SubSeq(stack, 1, n - 1)
    BY DEF LeaveMonitor, Pop
  <2>2. /\ SubSeq(stack, 1, n - 1) \in Seq(Frame)
        /\ Len(SubSeq(stack, 1, n - 1)) = IF 1 <= n - 1 THEN n - 1 - 1 + 1 ELSE 0
        /\ \A i \in 1 .. n - 1 - 1 + 1 : SubSeq(stack, 1, n - 1)[i] = stack[1 + i - 1]
    <3>1. \A i \in 1 .. n - 1 : stack[i] \in Frame
      BY <1>1
    <3>2. 1 \in Int /\ n - 1 \in Int
      BY <1>1
    <3> QED
      BY <3>1, <3>2, SubSeqProperties
  <2> QED
    BY <1>1, <2>1, <2>2
<1>3. DOMAIN stack' = 1 .. n - 1
  BY <1>2, LenProperties
<1>4. /\ color \in [Names -> 0 .. 2] /\ color' = [color EXCEPT ![stack[n].name] = 2]
      /\ dependsOn' = dependsOn /\ PathIsGray /\ PathIsLinked /\ n = Len(stack)
  BY DEF LeaveMonitor, CheckSound, Searching, Top
<1> HIDE DEF n
<1>5. stack[n].name \in Names /\ \A i \in 1 .. n : stack[i].name \in Names /\ stack[i].next \in Nat
  BY <1>1 DEF Frame
<1>6. \A m \in Names : color'[m] = IF m = stack[n].name THEN 2 ELSE color[m]
  BY <1>4, <1>5
<1>7. PathIsGray'
  <2>1. ASSUME NEW i \in 1 .. n - 1
        PROVE  color'[stack'[i].name] = 1
    <3>1. i \in 1 .. n /\ i # n /\ stack'[i] = stack[i]
      BY <1>1, <1>2
    <3>2. i \in DOMAIN stack /\ n \in DOMAIN stack
      BY <1>1, <3>1
    <3>3. stack[i].name # stack[n].name /\ color[stack[i].name] = 1
      BY <1>4, <3>1, <3>2 DEF PathIsGray
    <3> QED
      BY <1>5, <1>6, <3>1, <3>3
  <2>2. ASSUME NEW m \in Names, color'[m] = 1
        PROVE  \E i \in 1 .. n - 1 : stack'[i].name = m
    <3>1. m # stack[n].name /\ color[m] = 1
      BY <1>6, <2>2
    <3>2. PICK i \in 1 .. n : stack[i].name = m
      BY <1>1, <1>4, <3>1 DEF PathIsGray
    <3>3. i \in 1 .. n - 1
      BY <1>1, <3>1, <3>2
    <3> QED
      BY <1>2, <3>2, <3>3
  <2>3. ASSUME NEW i \in 1 .. n - 1, NEW j \in 1 .. n - 1, stack'[i].name = stack'[j].name
        PROVE  i = j
    BY SMTT(30), <1>1, <1>2, <1>4, <2>3 DEF PathIsGray
  <2> QED
    BY <1>3, <2>1, <2>2, <2>3 DEF PathIsGray
<1>8. PathIsLinked'
  <2> SUFFICES ASSUME NEW i \in 1 .. n - 1
               PROVE  FrameLinked(i)'
    BY <1>3 DEF PathIsLinked
  <2>0. i \in DOMAIN stack /\ i < n /\ stack[i].next \in Nat
    BY <1>1, <1>5
  <2>1. /\ stack[i].next <= Len(dependsOn[stack[i].name]) + 1
        /\ stack[i].next > 1
        /\ dependsOn[stack[i].name][stack[i].next - 1] = stack[i + 1].name
        /\ \A k \in 1 .. stack[i].next - 1 :
             color[dependsOn[stack[i].name][k]] = 2 \/ k = stack[i].next - 1
    <3>1. FrameLinked(i) /\ i < Len(stack)
      BY <1>4, <2>0 DEF PathIsLinked
    <3> QED
      BY <3>1 DEF FrameLinked
  <2>2. i < n - 1 => stack'[i + 1] = stack[i + 1]
    BY <1>1, <1>2
  <2>3. ASSUME NEW k \in 1 .. stack[i].next - 1
        PROVE  color'[dependsOn[stack[i].name][k]] = 2 \/ (i < n - 1 /\ k = stack[i].next - 1)
    <3>0. stack[i].name \in Names /\ dependsOn[stack[i].name] \in Seq(Names \cup {Unknown})
      BY <1>1, <1>5, OrderAssumption DEF CheckSound
    <3>1. k \in 1 .. Len(dependsOn[stack[i].name]) /\ k \in DOMAIN dependsOn[stack[i].name]
      BY SMTT(30), <2>0, <2>1, <3>0, LenProperties
    <3>2. dependsOn[stack[i].name][k] \in Names
      BY <3>0, <3>1 DEF CheckSound, NamesKnown, Elems
    <3>3. CASE color[dependsOn[stack[i].name][k]] = 2
      BY <1>6, <3>2, <3>3
    <3>4. CASE k = stack[i].next - 1 /\ i = n - 1
      <4>1. i + 1 = n
        BY <1>1, <3>4
      <4> QED
        BY <1>6, <2>1, <3>2, <3>4, <4>1
    <3>5. i < n - 1 \/ i = n - 1
      BY <1>1
    <3>6. color[dependsOn[stack[i].name][k]] = 2 \/ k = stack[i].next - 1
      BY <2>1
    <3> QED
      BY <3>3, <3>4, <3>5, <3>6
  <2>4. stack'[i] = stack[i] /\ Len(stack') = n - 1 /\ dependsOn' = dependsOn
    BY <1>2, <1>4
  <2> QED
    BY <2>1, <2>2, <2>3, <2>4 DEF FrameLinked
<1> QED
  BY <1>2, <1>7, <1>8

(* A dependency that is done is passed over. *)
LEMMA PassingKeepsPath ==
    ASSUME CheckSound, pc = "dfs", VisitDependency,
           color[dependsOn[Top.name][Top.next]] = 2, stack' = Visited(stack), UNCHANGED <<pc, color>>
    PROVE  stack' \in Seq(Frame) /\ PathIsGray' /\ PathIsLinked'
<1> DEFINE n == Len(stack)
<1>1. /\ n \in Nat \ {0} /\ DOMAIN stack = 1 .. n /\ \A i \in 1 .. n : stack[i] \in Frame
      /\ stack' \in Seq(Frame) /\ Len(stack') = n
      /\ \A i \in 1 .. n - 1 : stack'[i] = stack[i]
      /\ stack'[n] = [name |-> stack[n].name, next |-> stack[n].next + 1]
  BY StackAfterVisit, ElementOfSeq DEF CheckSound, VisitDependency
<1>2. DOMAIN stack' = 1 .. n
  BY <1>1, LenProperties
<1>3. /\ color' = color /\ dependsOn' = dependsOn /\ PathIsGray /\ PathIsLinked
      /\ Top = stack[n] /\ stack[n].next <= Len(dependsOn[stack[n].name])
      /\ color[dependsOn[stack[n].name][stack[n].next]] = 2 /\ n = Len(stack)
  BY DEF VisitDependency, CheckSound, Searching, Top
<1> HIDE DEF n
<1>4. \A i \in 1 .. n : stack[i].name \in Names /\ stack[i].next \in Nat
  BY <1>1 DEF Frame
<1>5. \A i \in 1 .. n : stack'[i].name = stack[i].name
  BY <1>1
<1>6. PathIsGray'
  BY SMTT(30), <1>1, <1>2, <1>3, <1>5 DEF PathIsGray
<1>7. ASSUME NEW i \in 1 .. n
      PROVE  FrameLinked(i)'
  <2>0. FrameLinked(i)
    BY <1>1, <1>3 DEF PathIsLinked
  <2>1. CASE i < n
    <3>1. i \in 1 .. n - 1 /\ i + 1 \in 1 .. n
      BY <1>1, <2>1
    <3>2. stack'[i] = stack[i] /\ stack'[i + 1].name = stack[i + 1].name /\ Len(stack') = Len(stack)
      BY <1>1, <1>3, <1>5, <3>1
    <3> QED
      BY <1>3, <2>0, <3>2 DEF FrameLinked
  <2>2. CASE i = n
    <3>1. stack'[n].next = stack[n].next + 1 /\ stack[n].next \in Nat
      BY <1>1, <1>4
    <3>2. Len(dependsOn[stack[n].name]) \in Nat
      BY <1>1, <1>4, OrderAssumption, LenProperties DEF CheckSound
    <3>3. \A k \in 1 .. stack[n].next - 1 : color[dependsOn[stack[n].name][k]] = 2
      BY <1>1, <2>0, <2>2 DEF FrameLinked
    <3>4. \A k \in 1 .. stack'[n].next - 1 : k = stack[n].next \/ k \in 1 .. stack[n].next - 1
      BY <3>1
    <3>5. \A k \in 1 .. stack'[n].next - 1 : color[dependsOn[stack[n].name][k]] = 2
      BY <1>3, <3>3, <3>4
    <3>6. stack'[n].next <= Len(dependsOn[stack[n].name]) + 1
      BY <1>3, <3>1, <3>2
    <3>7. stack'[n].name = stack[n].name /\ ~(n < Len(stack'))
      BY <1>1
    <3> QED
      BY <1>3, <2>2, <3>5, <3>6, <3>7 DEF FrameLinked
  <2> QED
    BY <1>1, <2>1, <2>2
<1>8. PathIsLinked'
  BY <1>2, <1>7 DEF PathIsLinked
<1> QED
  BY <1>1, <1>6, <1>8


(* The path grows by a new dependency of its last monitor. *)
LEMMA PathGrows ==
    ASSUME CheckSound, pc = "dfs", NEW n \in Nat \ {0}, n = Len(stack), DOMAIN stack = 1 .. n,
           \A i \in 1 .. n : stack[i] \in Frame,
           NEW dep \in Names, color[dep] = 0, dep = dependsOn[stack[n].name][stack[n].next],
           stack[n].next <= Len(dependsOn[stack[n].name]),
           \A m \in Names : color'[m] = IF m = dep THEN 1 ELSE color[m],
           stack' \in Seq(Frame), Len(stack') = n + 1,
           \A i \in 1 .. n - 1 : stack'[i] = stack[i],
           stack'[n].name = stack[n].name, stack'[n].next = stack[n].next + 1,
           stack'[n + 1].name = dep, stack'[n + 1].next = 1, UNCHANGED dependsOn
    PROVE  PathIsGray' /\ PathIsLinked'
<1>4. DOMAIN stack' = 1 .. n + 1
  BY LenProperties
<1>5. color \in [Names -> 0 .. 2] /\ PathIsGray /\ PathIsLinked
  BY DEF CheckSound, Searching
<1>6. \A i \in 1 .. n : stack[i].name \in Names /\ stack[i].next \in Nat \ {0}
  BY DEF Frame
<1>7. ASSUME NEW i \in 1 .. n
      PROVE  stack'[i].name = stack[i].name
  <2>1. CASE i = n
    BY <2>1
  <2>2. CASE i # n
    <3>1. i \in 1 .. n - 1
      BY <2>2
    <3> QED
      BY <3>1
  <2> QED
    BY <2>1, <2>2
<1>9. \A i \in 1 .. n : stack[i].name # dep /\ color[stack[i].name] = 1
  <2>1. \A i \in 1 .. n : color[stack[i].name] = 1
    BY <1>5 DEF PathIsGray
  <2> QED
    BY <2>1
<1>10. \A i \in 1 .. n + 1 : (i \in 1 .. n /\ i # n + 1) \/ i = n + 1
  OBVIOUS
<1>11. n + 1 \in 1 .. n + 1
  OBVIOUS
<1>12. PathIsGray'
  <2>1. \A i \in 1 .. n + 1 : color'[stack'[i].name] = 1
    BY <1>6, <1>7, <1>9, <1>10, <1>11
  <2>2. ASSUME NEW m \in Names, color'[m] = 1
        PROVE  \E i \in 1 .. n + 1 : stack'[i].name = m
    <3>1. CASE m = dep
      BY <1>11, <3>1
    <3>2. CASE m # dep
      <4>1. PICK i \in 1 .. n : stack[i].name = m
        BY <1>5, <2>2, <3>2 DEF PathIsGray
      <4>2. i \in 1 .. n + 1
        OBVIOUS
      <4> QED
        BY <1>7, <4>1, <4>2
    <3> QED
      BY <3>1, <3>2
  <2>3. ASSUME NEW i \in 1 .. n + 1, NEW j \in 1 .. n + 1, stack'[i].name = stack'[j].name
        PROVE  i = j
    <3>1. CASE i \in 1 .. n /\ j \in 1 .. n
      <4>1. stack[i].name = stack[j].name
        BY <1>7, <2>3, <3>1
      <4> QED
        BY <1>5, <3>1, <4>1 DEF PathIsGray
    <3>2. CASE i = n + 1 \/ j = n + 1
      BY <1>7, <1>9, <1>10, <1>11, <2>3, <3>2
    <3> QED
      BY <1>10, <3>1, <3>2
  <2>4. /\ \A i \in DOMAIN stack' : color'[stack'[i].name] = 1
        /\ \A m \in Names : color'[m] = 1 => \E i \in DOMAIN stack' : stack'[i].name = m
        /\ \A i, j \in DOMAIN stack' : stack'[i].name = stack'[j].name => i = j
    BY SMTT(30), <1>4, <2>1, <2>2, <2>3
  <2> QED
    BY <2>4 DEF PathIsGray
<1>13. \A m \in Names : \A k \in 1 .. Len(dependsOn[m]) :
          color[dependsOn[m][k]] = 2 => color'[dependsOn[m][k]] = 2
  <2> SUFFICES ASSUME NEW m \in Names, NEW k \in 1 .. Len(dependsOn[m])
               PROVE  color[dependsOn[m][k]] = 2 => color'[dependsOn[m][k]] = 2
    OBVIOUS
  <2>1. k \in DOMAIN dependsOn[m]
    BY OrderAssumption, LenProperties DEF CheckSound
  <2>2. dependsOn[m][k] \in Names
    BY <2>1 DEF CheckSound, NamesKnown, Elems
  <2> QED
    BY SMTT(30), <2>2
<1>14. ASSUME NEW i \in 1 .. n
       PROVE  FrameLinked(i)'
  <2> DEFINE m == stack[i].name
  <2>0. FrameLinked(i) /\ m \in Names /\ stack[i].next \in Nat \ {0}
    BY <1>5, <1>6 DEF PathIsLinked
  <2>1. Len(dependsOn[m]) \in Nat
    BY <2>0, OrderAssumption, LenProperties DEF CheckSound
  <2>2. CASE i < n
    <3>1. i \in 1 .. n - 1 /\ i + 1 \in 1 .. n
      BY <2>2
    <3>2. stack'[i] = stack[i] /\ stack'[i + 1].name = stack[i + 1].name /\ i < Len(stack')
      BY <1>7, <3>1
    <3>3. ASSUME NEW k \in 1 .. stack[i].next - 1
          PROVE  color'[dependsOn[m][k]] = 2 \/ k = stack[i].next - 1
      <4>1. k \in 1 .. Len(dependsOn[m])
        BY SMTT(30), <2>0, <2>1 DEF FrameLinked
      <4>2. color[dependsOn[m][k]] = 2 \/ k = stack[i].next - 1
        BY <2>0 DEF FrameLinked
      <4>3. color[dependsOn[m][k]] = 2 => color'[dependsOn[m][k]] = 2
        <5>1. \A j \in 1 .. Len(dependsOn[m]) :
                 color[dependsOn[m][j]] = 2 => color'[dependsOn[m][j]] = 2
          <6>1. m \in Names
            BY <2>0
          <6> HIDE DEF m
          <6> QED BY <1>13, <6>1, Zenon
        <5> QED BY <4>1, <5>1
      <4> QED
        BY <4>2, <4>3
    <3>4. /\ stack[i].next <= Len(dependsOn[m]) + 1 /\ stack[i].next > 1
          /\ dependsOn[m][stack[i].next - 1] = stack[i + 1].name
      BY <2>0, <2>2 DEF FrameLinked
    <3>5. dependsOn'[stack'[i].name] = dependsOn[m]
      BY <3>2
    <3> HIDE DEF m
    <3> QED
      BY SMTT(30), <3>2, <3>3, <3>4, <3>5 DEF FrameLinked
  <2>3. CASE i = n
    <3>1. /\ stack'[n].name = m /\ stack'[n].next = stack[n].next + 1
          /\ n < Len(stack') /\ n \in 1 .. n
      BY <1>7, <2>3
    <3>2. /\ stack'[n].next <= Len(dependsOn[m]) + 1 /\ stack'[n].next > 1
          /\ dependsOn[m][stack'[n].next - 1] = stack'[n + 1].name
      <4>1. stack[n].next \in Nat \ {0} /\ stack[n].next <= Len(dependsOn[m])
        BY <1>5, <2>0, <2>3
      <4>2. stack'[n].next - 1 = stack[n].next
        BY <3>1, <4>1
      <4>3. dependsOn[m][stack[n].next] = stack'[n + 1].name
        BY <1>5, <1>11, <2>3
      <4>4. stack'[n].next <= Len(dependsOn[m]) + 1 /\ stack'[n].next > 1
        BY <2>1, <3>1, <4>1
      <4> QED
        BY <4>2, <4>3, <4>4
    <3>3. ASSUME NEW k \in 1 .. stack'[n].next - 1
          PROVE  color'[dependsOn[m][k]] = 2 \/ k = stack'[n].next - 1
      <4>1. CASE k = stack'[n].next - 1
        BY <4>1
      <4>2. CASE k # stack'[n].next - 1
        <5>1. k \in 1 .. stack[n].next - 1 /\ k \in 1 .. Len(dependsOn[m])
          BY <2>0, <2>1, <2>3, <3>1, <3>2, <4>2
        <5>2. color[dependsOn[m][k]] = 2
          <6>1. FrameLinked(n) /\ ~(n < Len(stack)) /\ m = stack[n].name
            BY <2>0, <2>3
          <6>2. \A j \in 1 .. stack[n].next - 1 : color[dependsOn[stack[n].name][j]] = 2
            BY <6>1, Zenon DEF FrameLinked
          <6> HIDE DEF m
          <6> QED
            BY <5>1, <6>1, <6>2, Zenon
        <5>3. \A j \in 1 .. Len(dependsOn[m]) :
                 color[dependsOn[m][j]] = 2 => color'[dependsOn[m][j]] = 2
          <6>1. m \in Names
            BY <2>0
          <6> HIDE DEF m
          <6> QED BY <1>13, <6>1, Zenon
        <5> QED
          BY <5>1, <5>2, <5>3
      <4> QED
        BY <4>1, <4>2
    <3>4. dependsOn'[stack'[n].name] = dependsOn[m]
      BY <3>1
    <3>5. FrameLinked(n)'
      <4> HIDE DEF m
      <4> QED BY ZenonT(30), <3>1, <3>2, <3>3, <3>4 DEF FrameLinked
    <3> QED
      BY <2>3, <3>5
  <2> QED
    BY <2>2, <2>3
<1>15. FrameLinked(n + 1)'
  <2>1. Len(dependsOn[dep]) \in Nat
    BY OrderAssumption, LenProperties DEF CheckSound
  <2> QED
    BY <1>11, <2>1 DEF FrameLinked
<1>16. PathIsLinked'
  BY <1>4, <1>10, <1>14, <1>15 DEF PathIsLinked
<1> QED
  BY <1>12, <1>16

(* A new dependency is put on the path. *)
LEMMA EnteringKeepsPath ==
    ASSUME CheckSound, pc = "dfs", stack # <<>>,
           NEW dep \in Names, color[dep] = 0,
           Top.next <= Len(dependsOn[Top.name]), dep = dependsOn[Top.name][Top.next],
           color' = [color EXCEPT ![dep] = 1],
           stack' = Append(Visited(stack), [name |-> dep, next |-> 1]), UNCHANGED dependsOn
    PROVE  stack' \in Seq(Frame) /\ PathIsGray' /\ PathIsLinked'
<1>0. PICK n : n = Len(stack)
  OBVIOUS
<1> DEFINE new == [name |-> dep, next |-> 1]
           v == Visited(stack)
<1>1. /\ n \in Nat \ {0} /\ DOMAIN stack = 1 .. n /\ \A i \in 1 .. n : stack[i] \in Frame
      /\ v \in Seq(Frame) /\ Len(v) = n
      /\ \A i \in 1 .. n - 1 : v[i] = stack[i]
      /\ v[n] = [name |-> stack[n].name, next |-> stack[n].next + 1]
  BY <1>0, StackAfterVisit, ElementOfSeq DEF CheckSound
<1>2. new \in Frame
  BY DEF Frame
<1>3. /\ stack' \in Seq(Frame) /\ Len(stack') = n + 1
      /\ \A i \in 1 .. n : stack'[i] = v[i]
      /\ stack'[n + 1] = new
  <2> HIDE DEF v, new
  <2>1. stack' = Append(v, new)
    BY DEF v, new
  <2>2. v \in Seq(Frame) /\ new \in Frame
    BY <1>1, <1>2
  <2>3. /\ Append(v, new) \in Seq(Frame) /\ Len(Append(v, new)) = Len(v) + 1
        /\ \A i \in 1 .. Len(v) : Append(v, new)[i] = v[i]
        /\ Append(v, new)[Len(v) + 1] = new
    BY <2>2, AppendProperties
  <2>4. Len(v) = n
    BY <1>1
  <2> QED
    BY <2>1, <2>3, <2>4
<1>4. /\ stack[n].next <= Len(dependsOn[stack[n].name])
      /\ dep = dependsOn[stack[n].name][stack[n].next]
  BY <1>0 DEF Top
<1>5. \A m \in Names : color'[m] = IF m = dep THEN 1 ELSE color[m]
  BY DEF CheckSound
<1>6. /\ \A i \in 1 .. n - 1 : stack'[i] = stack[i]
      /\ stack'[n].name = stack[n].name /\ stack'[n].next = stack[n].next + 1
      /\ stack'[n + 1].name = dep /\ stack'[n + 1].next = 1
  BY <1>1, <1>3
<1> HIDE DEF v, new
<1>7. PathIsGray' /\ PathIsLinked'
  BY <1>0, <1>1, <1>3, <1>4, <1>5, <1>6, PathGrows
<1> QED
  BY <1>3, <1>7

(* The outer loop starts a path of one. *)
LEMMA RootStartsPath ==
    ASSUME CheckSound, NEW m \in Names, VisitRoot(m)
    PROVE  stack' \in Seq(Frame) /\ PathIsGray' /\ PathIsLinked'
<1> DEFINE new == [name |-> m, next |-> 1]
<1>1. new \in Frame
  BY DEF Frame
<1>2. stack' \in Seq(Frame) /\ Len(stack') = 1 /\ DOMAIN stack' = 1 .. 1 /\ stack'[1] = new
  BY <1>1 DEF VisitRoot
<1>3. /\ color \in [Names -> 0 .. 2] /\ color' = [color EXCEPT ![m] = 1]
      /\ \A k \in Names : color[k] # 1
  BY DEF VisitRoot, CheckSound, Searching, PathIsGray
<1>4. PathIsGray'
  BY <1>2, <1>3 DEF PathIsGray
<1>5. Len(dependsOn[m]) \in Nat /\ dependsOn' = dependsOn
  BY OrderAssumption, LenProperties DEF CheckSound, VisitRoot
<1>6. PathIsLinked'
  BY <1>2, <1>5 DEF PathIsLinked, FrameLinked
<1> QED
  BY <1>2, <1>4, <1>6

(* Entering a monitor makes none done. *)
LEMMA EnteringFinishesNone ==
    ASSUME NEW m \in Names, color \in [Names -> 0 .. 2], color[m] = 0, NamesKnown,
           color' = [color EXCEPT ![m] = 1], UNCHANGED dependsOn, DoneIsClosed, DoneIsAcyclic
    PROVE  DoneIsClosed' /\ DoneIsAcyclic'
<1>1. \A k \in Names : color'[k] = 2 <=> color[k] = 2
  OBVIOUS
<1>2. DoneIsClosed'
  BY <1>1 DEF DoneIsClosed, NamesKnown
<1>3. DoneIsAcyclic'
  BY <1>1 DEF DoneIsAcyclic, Knot
<1> QED
  BY <1>2, <1>3


(* Every step of the check and of the sort. *)
LEMMA CheckSoundStep ==
    ASSUME CheckSound, [OrderNext]_orderVars
    PROVE  CheckSound'
<1>0. /\ dependsOn \in [Names -> DepLists] /\ color \in [Names -> 0 .. 2] /\ stack \in Seq(Frame)
      /\ pc \in {"names", "dfs"} => Searching
      /\ pc = "dfs" => NamesKnown
  BY DEF CheckSound
<1>1. ASSUME UNCHANGED <<dependsOn, color, stack>>
      PROVE  (NamesKnown' <=> NamesKnown) /\ (Cyclic' <=> Cyclic) /\ (Searching' <=> Searching)
  <2>1. \A s : Knot(s)' <=> Knot(s)
    BY <1>1 DEF Knot
  <2>2. PathIsGray' <=> PathIsGray
    BY <1>1 DEF PathIsGray
  <2>3. PathIsLinked' <=> PathIsLinked
    BY <1>1 DEF PathIsLinked, FrameLinked
  <2>4. (DoneIsClosed' <=> DoneIsClosed) /\ (NamesKnown' <=> NamesKnown)
    BY <1>1 DEF DoneIsClosed, NamesKnown
  <2>5. (DoneIsAcyclic' <=> DoneIsAcyclic) /\ (Cyclic' <=> Cyclic)
    BY <1>1, <2>1 DEF DoneIsAcyclic, Cyclic
  <2> QED
    BY <2>2, <2>3, <2>4, <2>5 DEF Searching
<1>2. CASE CheckNames
  <2>1. UNCHANGED <<dependsOn, color, stack>>
    BY <1>2 DEF CheckNames, check
  <2>2. CASE NamesKnown
    BY <1>0, <1>1, <1>2, <2>1, <2>2 DEF CheckNames, CheckSound, NamesKnown
  <2>3. CASE ~NamesKnown
    <3>1. PICK m \in Names : ~(Elems(dependsOn[m]) \subseteq Names)
      BY <2>3 DEF NamesKnown
    <3>2. dependsOn[m] \in Seq(Names \cup {Unknown})
      BY <1>0, OrderAssumption
    <3>3. \A k \in DOMAIN dependsOn[m] : dependsOn[m][k] \in Names \cup {Unknown}
      BY <3>2, LenProperties
    <3>4. Unknown \in Elems(dependsOn[m])
      BY <3>1, <3>3 DEF Elems
    <3>5. pc' = "rejected"
      BY <1>2, <3>1 DEF CheckNames
    <3> QED
      BY <1>0, <2>1, <3>4, <3>5 DEF CheckSound
  <2> QED
    BY <2>2, <2>3
<1>3. ASSUME NEW m \in Names, VisitRoot(m)
      PROVE  CheckSound'
  <2>1. /\ color[m] = 0 /\ color' = [color EXCEPT ![m] = 1] /\ dependsOn' = dependsOn
        /\ pc' = "dfs" /\ NamesKnown /\ DoneIsClosed /\ DoneIsAcyclic
    BY <1>0, <1>3 DEF VisitRoot, Searching
  <2>2. DoneIsClosed' /\ DoneIsAcyclic'
    BY <1>0, <2>1, EnteringFinishesNone
  <2>3. stack' \in Seq(Frame) /\ PathIsGray' /\ PathIsLinked'
    BY <1>3, RootStartsPath
  <2>4. color' \in [Names -> 0 .. 2] /\ NamesKnown'
    BY <1>0, <2>1 DEF NamesKnown
  <2> QED
    BY <1>0, <2>1, <2>2, <2>3, <2>4 DEF CheckSound, Searching
<1>4. CASE VisitDependency
  <2> DEFINE dep == dependsOn[Top.name][Top.next]
  <2>1. /\ pc = "dfs" /\ dependsOn' = dependsOn /\ NamesKnown /\ DoneIsClosed /\ DoneIsAcyclic
        /\ stack # <<>> /\ Top.next <= Len(dependsOn[Top.name])
    BY <1>0, <1>4 DEF VisitDependency, Searching
  <2>2. CASE color[dep] = 2 /\ stack' = Visited(stack) /\ UNCHANGED <<pc, color>>
    <3>1. stack' \in Seq(Frame) /\ PathIsGray' /\ PathIsLinked'
      BY <1>4, <2>1, <2>2, PassingKeepsPath
    <3>2. DoneIsClosed' /\ NamesKnown'
      BY <2>1, <2>2 DEF DoneIsClosed, NamesKnown
    <3>3. DoneIsAcyclic'
      BY <2>1, <2>2 DEF DoneIsAcyclic, Knot
    <3> QED
      BY <1>0, <2>1, <2>2, <3>1, <3>2, <3>3 DEF CheckSound, Searching
  <2>3. CASE color[dep] = 1 /\ pc' = "rejected" /\ UNCHANGED check
    <3>1. Cyclic
      BY <1>4, <2>1, <2>3, PathCloses
    <3>2. UNCHANGED <<dependsOn, color, stack>>
      BY <2>1, <2>3 DEF check
    <3> QED
      BY <1>0, <1>1, <2>3, <3>1, <3>2 DEF CheckSound
  <2>4. CASE /\ color[dep] = 0
             /\ color' = [color EXCEPT ![dep] = 1]
             /\ stack' = Append(Visited(stack), [name |-> dep, next |-> 1])
             /\ UNCHANGED pc
    <3>1. dep \in Names
      <4>1. Top \in Frame
        BY <1>0, <2>1, StackAfterVisit DEF Top
      <4>2. dependsOn[Top.name] \in Seq(Names \cup {Unknown}) /\ Top.name \in Names
        BY <1>0, <4>1, OrderAssumption DEF Frame
      <4>3. Top.next \in DOMAIN dependsOn[Top.name]
        BY <2>1, <4>1, <4>2, LenProperties DEF Frame
      <4> QED
        BY <2>1, <4>2, <4>3 DEF NamesKnown, Elems
    <3> HIDE DEF dep
    <3>2. DoneIsClosed' /\ DoneIsAcyclic'
      BY <1>0, <2>1, <2>4, <3>1, EnteringFinishesNone
    <3>3. stack' \in Seq(Frame) /\ PathIsGray' /\ PathIsLinked'
      <4>1. dep = dependsOn[Top.name][Top.next]
        BY DEF dep
      <4> QED
        BY <2>1, <2>4, <3>1, <4>1, EnteringKeepsPath
    <3>4. color' \in [Names -> 0 .. 2] /\ NamesKnown'
      <4>1. color' \in [Names -> 0 .. 2]
        BY <1>0, <2>4, <3>1
      <4>2. NamesKnown'
        BY <2>1 DEF NamesKnown
      <4> QED
        BY <4>1, <4>2
    <3> QED
      BY <1>0, <2>1, <2>4, <3>2, <3>3, <3>4 DEF CheckSound, Searching
  <2> QED
    BY <1>4, <2>2, <2>3, <2>4 DEF VisitDependency
<1>5. CASE LeaveMonitor
  <2>1. pc = "dfs" /\ pc' = "dfs" /\ dependsOn' = dependsOn /\ NamesKnown
    BY <1>0, <1>5 DEF LeaveMonitor
  <2>2. DoneIsClosed' /\ DoneIsAcyclic' /\ stack' \in Seq(Frame) /\ PathIsGray' /\ PathIsLinked'
    BY <1>5, <2>1, LeavingIsSafe, LeavingKeepsPath
  <2>3. color' \in [Names -> 0 .. 2] /\ NamesKnown'
    <3>1. color' \in [Names -> 0 .. 2]
      <4>1. color' = [color EXCEPT ![Top.name] = 2] /\ 2 \in 0 .. 2
        BY <1>5 DEF LeaveMonitor
      <4> QED
        BY <1>0, <4>1
    <3>2. NamesKnown'
      BY <2>1 DEF NamesKnown
    <3> QED
      BY <3>1, <3>2
  <2> QED
    BY <1>0, <2>1, <2>2, <2>3 DEF CheckSound, Searching
<1>6. CASE Accept
  <2>1. UNCHANGED <<dependsOn, color, stack>> /\ pc = "dfs" /\ pc' = "valid" /\ stack = <<>>
    BY <1>6 DEF Accept, check
  <2>2. \A m \in Names : color[m] = 2
    <3>1. \A m \in Names : color[m] # 1
      BY <1>0, <2>1 DEF Searching, PathIsGray
    <3>2. \A m \in Names : color[m] # 0 /\ color[m] \in 0 .. 2
      BY <1>0, <1>6 DEF Accept
    <3> QED
      BY <3>1, <3>2
  <2>3. ~Cyclic
    BY <1>0, <2>1, <2>2 DEF Searching, DoneIsAcyclic, Cyclic
  <2> QED
    BY <1>0, <1>1, <2>1, <2>3 DEF CheckSound
<1>7. CASE \/ (\E l \in Lists : BeginSort(l)) \/ SortNext \/ SortEnds \/ Again
           \/ UNCHANGED orderVars
  <2>1. /\ UNCHANGED <<dependsOn, color, stack>>
        /\ pc' = pc \/ {pc, pc'} \subseteq {"valid", "sort", "sorted", "cycle"}
    BY <1>7 DEF BeginSort, SortNext, SortEnds, Again, orderVars, check
  <2> QED
    BY <1>0, <1>1, <2>1 DEF CheckSound
<1> QED
  BY <1>2, <1>3, <1>4, <1>5, <1>6, <1>7 DEF OrderNext

(* The search begins with no monitor looked at. *)
LEMMA CheckSoundInit == OrderInit => CheckSound
<1> SUFFICES ASSUME OrderInit
             PROVE  CheckSound
  OBVIOUS
<1>1. stack \in Seq(Frame) /\ DOMAIN stack = {} /\ \A m \in Names : color[m] = 0
  BY EmptySeq, LenProperties DEF OrderInit
<1>2. PathIsGray /\ PathIsLinked /\ DoneIsClosed /\ DoneIsAcyclic
  BY <1>1 DEF PathIsGray, PathIsLinked, DoneIsClosed, DoneIsAcyclic, Knot
<1> QED
  BY <1>1, <1>2 DEF OrderInit, CheckSound, Searching

(* The depth-first search accepts exactly the configurations whose         *)
(* dependencies exist and have no cycle, for every set of monitors and     *)
(* every dependsOn list, repetitions, self references and unknown names    *)
(* included, and in whatever order the roots are visited                   *)
(* (detectCircularDependencies and validateMonitorDependencies).           *)
THEOREM CycleCheckExact == OrderSpec => []CheckExact
<1>1. CheckSound => CheckExact
  BY OrderAssumption DEF CheckSound, CheckExact, NamesKnown
<1> QED
  BY <1>1, CheckSoundInit, CheckSoundStep, PTL DEF OrderSpec

----------------------------------------------------------------------------
(* The sort.                                                               *)

(* The dependencies named in a set, and what is left of them without one.  *)
LEMMA CountWithout ==
    ASSUME NEW X, NEW ds \in Seq(X), NEW R, NEW c \in R
    PROVE  LET named == {i \in DOMAIN ds : ds[i] \in R}
               left == {i \in DOMAIN ds : ds[i] \in R \ {c}}
           IN  /\ IsFiniteSet(named) /\ Cardinality(named) \in Nat
               /\ IsFiniteSet(left) /\ Cardinality(left) \in Nat
               /\ Cardinality(left) = Cardinality(named) - Occurrences(ds, c)
<1> DEFINE named == {i \in DOMAIN ds : ds[i] \in R}
           left == {i \in DOMAIN ds : ds[i] \in R \ {c}}
           gone == {i \in DOMAIN ds : ds[i] \in {c}}
<1>1. IsFiniteSet(DOMAIN ds)
  BY LenProperties, FS_Interval
<1>2. IsFiniteSet(named) /\ IsFiniteSet(left) /\ IsFiniteSet(gone)
  BY <1>1, FS_Subset
<1>3. named = left \cup gone /\ left \cap gone = {}
  OBVIOUS
<1>4. Occurrences(ds, c) = Cardinality(gone)
  BY DEF Occurrences, HowMany
<1> HIDE DEF named, left, gone
<1>5. Cardinality(named) \in Nat /\ Cardinality(left) \in Nat /\ Cardinality(gone) \in Nat
  BY <1>2, FS_CardinalityType
<1>6. Cardinality(named) = Cardinality(left) + Cardinality(gone) - Cardinality(left \cap gone)
  BY <1>2, <1>3, FS_Union
<1>7. Cardinality(left \cap gone) = 0
  BY <1>3, FS_EmptySet
<1>8. Cardinality(left) = Cardinality(named) - Cardinality(gone)
  BY <1>5, <1>6, <1>7
<1> QED
  BY <1>2, <1>4, <1>5, <1>8 DEF named, left

(* A list without repetition is as long as the set of what it holds. *)
LEMMA LengthIsCount ==
    ASSUME NEW X, NEW s \in Seq(X), NoRepeat(s)
    PROVE  IsFiniteSet(Elems(s)) /\ Cardinality(Elems(s)) = Len(s)
<1>1. Len(s) \in Nat /\ DOMAIN s = 1 .. Len(s) /\ s \in [1 .. Len(s) -> X]
  BY LenProperties
<1>2. IsFiniteSet(1 .. Len(s)) /\ Cardinality(1 .. Len(s)) = Len(s)
  BY <1>1, FS_Interval
<1>3. s \in [1 .. Len(s) -> Elems(s)]
  BY <1>1 DEF Elems
<1>4. \A e \in Elems(s) : \E i \in 1 .. Len(s) : s[i] = e
  BY <1>1 DEF Elems
<1>5. \A i, j \in 1 .. Len(s) : s[i] = s[j] => i = j
  BY <1>1 DEF NoRepeat
<1>6. s \in Bijection(1 .. Len(s), Elems(s))
  BY <1>3, <1>4, <1>5, Fun_IsBij
<1>7. ExistsBijection(1 .. Len(s), Elems(s))
  BY <1>6, Fun_ExistsBij
<1> QED
  BY <1>2, <1>7, FS_Bijection

(* What the monitors of a list are, and their dependencies. *)
LEMMA ListsOfMonitors ==
    ASSUME CheckSound, NEW l \in Lists \cup {<<>>}
    PROVE  /\ l \in Seq(Elems(l)) /\ NoRepeat(l) /\ Elems(l) \subseteq Names
           /\ \A m \in Elems(l) : dependsOn[m] \in Seq(Names \cup {Unknown})
<1>1. l \in Seq(Names)
  BY OrderAssumption, EmptySeq
<1>2. Len(l) \in Nat /\ DOMAIN l = 1 .. Len(l) /\ l \in [1 .. Len(l) -> Names]
  BY <1>1, LenProperties
<1>3. l \in [1 .. Len(l) -> Elems(l)] /\ Elems(l) \subseteq Names
  BY <1>2 DEF Elems
<1>4. l \in Seq(Elems(l))
  BY <1>2, <1>3
<1>5. NoRepeat(l)
  BY OrderAssumption DEF NoRepeat
<1>6. \A m \in Elems(l) : dependsOn[m] \in Seq(Names \cup {Unknown})
  BY <1>3, OrderAssumption DEF CheckSound
<1> QED
  BY <1>3, <1>4, <1>5, <1>6

(* The sort begins with nothing sorted. *)
LEMMA BeginSortSound ==
    ASSUME CheckSound, NEW l \in Lists, BeginSort(l)
    PROVE  SortSound'
<1> DEFINE T == {m \in Elems(l) : inDegree'[m] = 0}
<1>1. /\ list' = l /\ sorted' = <<>> /\ dependsOn' = dependsOn /\ pc' = "sort"
      /\ inDegree' = [m \in Elems(l) |-> InDegree(l, m)]
      /\ queue' = Keep(l, T)
  BY DEF BeginSort
<1>2. /\ l \in Seq(Elems(l)) /\ NoRepeat(l)
      /\ \A m \in Elems(l) : dependsOn[m] \in Seq(Names \cup {Unknown})
  BY ListsOfMonitors
<1>3. Len(l) \in Nat /\ DOMAIN l = 1 .. Len(l)
  BY <1>2, LenProperties
<1>4. Elems(<<>>) = {} /\ DOMAIN <<>> = {}
  BY DEF Elems
<1>5. ASSUME NEW m \in Elems(l)
      PROVE  InDegree(l, m) \in Nat /\ InDegree(l, m) = Cardinality(Unsorted(m)')
  <2>1. DOMAIN dependsOn[m] = 1 .. Len(dependsOn[m]) /\ Len(dependsOn[m]) \in Nat
    BY <1>2, LenProperties
  <2>2. IsFiniteSet(DOMAIN dependsOn[m])
    <3>1. IsFiniteSet(1 .. Len(dependsOn[m]))
      BY <2>1, FS_Interval
    <3> QED
      BY <2>1, <3>1
  <2> DEFINE named == {i \in DOMAIN dependsOn[m] : dependsOn[m][i] \in Elems(l)}
  <2>3. IsFiniteSet(named)
    BY <2>2, FS_Subset
  <2>4. Unsorted(m)' = named
    BY <1>1, <1>4 DEF Unsorted
  <2>5. Cardinality(named) \in Nat
    BY <2>3, FS_CardinalityType
  <2>6. InDegree(l, m) = Cardinality(named)
    BY DEF InDegree, HowMany
  <2> QED
    BY <2>4, <2>5, <2>6
<1>6. inDegree' \in [Elems(l) -> Nat] /\ DegreesCount'
  BY <1>1, <1>5 DEF DegreesCount
<1> HIDE DEF T
<1>7. /\ queue' \in Seq(Elems(l)) /\ Len(queue') \in Nat /\ DOMAIN queue' = 1 .. Len(queue')
      /\ Elems(queue') = Elems(l) \cap T
  <2> DEFINE E == Elems(l)
  <2>0. l \in Seq(E)
    BY <1>2
  <2>1. E = {l[i] : i \in 1 .. Len(l)}
    BY <1>3 DEF Elems
  <2> HIDE DEF E
  <2> DEFINE new == Keep(l, T)
  <2>2. /\ new \in Seq(E)
        /\ \A j \in 1 .. Len(new) : new[j] \in T /\ \E i \in 1 .. Len(l) : new[j] = l[i]
        /\ \A i \in 1 .. Len(l) : l[i] \in T => \E j \in 1 .. Len(new) : new[j] = l[i]
    BY <2>0, KeepElements
  <2> HIDE DEF new
  <2>3. Len(new) \in Nat /\ DOMAIN new = 1 .. Len(new)
    BY <2>2, LenProperties
  <2>4. Elems(new) \subseteq E \cap T
    BY <2>1, <2>2, <2>3 DEF Elems
  <2>5. ASSUME NEW e \in E, e \in T PROVE e \in Elems(new)
    <3>1. PICK i \in 1 .. Len(l) : l[i] = e
      BY <2>1
    <3>2. PICK j \in 1 .. Len(new) : new[j] = e
      BY <2>2, <2>5, <3>1
    <3> QED
      BY <2>3, <3>2 DEF Elems
  <2> QED
    BY <1>1, <2>2, <2>3, <2>4, <2>5 DEF E, new
<1>8. NoRepeat(queue')
  <2>1. \A i, j \in 1 .. Len(l) : l[i] = l[j] => i = j
    BY <1>2, <1>3 DEF NoRepeat
  <2>2. \A i, j \in 1 .. Len(queue') : queue'[i] = queue'[j] => i = j
    BY <1>1, <1>2, <2>1, KeepInjective
  <2> QED
    BY <1>7, <2>2 DEF NoRepeat
<1>9. ReadyIsQueued'
  BY <1>1, <1>4, <1>7 DEF ReadyIsQueued, T
<1>10. SortedOnce'
  BY <1>1, <1>2, <1>4, <1>8 DEF SortedOnce, NoRepeat
<1>11. SortedInOrder' /\ sorted' \in Seq(Elems(l))
  BY <1>1, <1>4, EmptySeq DEF SortedInOrder
<1> QED
  BY <1>1, <1>6, <1>7, <1>9, <1>10, <1>11 DEF SortSound

(* A turn of the loop: the first of the queue is sorted, and the monitors  *)
(* for which it was the last dependency join the queue.                    *)
LEMMA SortNextSound ==
    ASSUME CheckSound, SortSound, SortNext
    PROVE  SortSound'
<1> DEFINE cur == Head(queue)
           E == Elems(list)
           R == E \ Elems(sorted)
           left == [m \in E |-> inDegree[m] - Occurrences(dependsOn[m], cur)]
           T == {m \in E : left[m] = 0 /\ inDegree[m] > 0}
           new == Keep(list, T)
<1>1. /\ list' = list /\ dependsOn' = dependsOn /\ pc' = "sort" /\ queue # <<>>
      /\ sorted' = Append(sorted, cur) /\ inDegree' = left /\ queue' = Tail(queue) \o new
  BY DEF SortNext
<1>2. /\ list \in Seq(E) /\ NoRepeat(list) /\ E \subseteq Names
      /\ \A m \in E : dependsOn[m] \in Seq(Names \cup {Unknown})
  BY ListsOfMonitors DEF SortSound
<1>3. /\ inDegree \in [E -> Nat] /\ queue \in Seq(E) /\ sorted \in Seq(E)
      /\ \A m \in E : inDegree[m] = Cardinality(Unsorted(m))
      /\ {m \in E : inDegree[m] = 0} = Elems(queue) \cup Elems(sorted)
      /\ NoRepeat(queue) /\ NoRepeat(sorted) /\ Elems(queue) \cap Elems(sorted) = {}
      /\ SortedInOrder
  BY DEF SortSound, DegreesCount, ReadyIsQueued, SortedOnce
<1>4. /\ Len(queue) \in Nat \ {0} /\ DOMAIN queue = 1 .. Len(queue) /\ cur = queue[1] /\ cur \in E
      /\ Len(Tail(queue)) = Len(queue) - 1 /\ Tail(queue) \in Seq(E)
      /\ \A i \in 1 .. Len(queue) - 1 : Tail(queue)[i] = queue[i + 1]
  BY <1>1, <1>3, EmptySeq, LenProperties, HeadTailProperties
<1>5. /\ Len(sorted) \in Nat /\ DOMAIN sorted = 1 .. Len(sorted)
      /\ sorted' \in Seq(E) /\ Len(sorted') = Len(sorted) + 1
      /\ DOMAIN sorted' = 1 .. Len(sorted) + 1
      /\ sorted'[Len(sorted) + 1] = cur /\ \A i \in 1 .. Len(sorted) : sorted'[i] = sorted[i]
  BY <1>1, <1>3, <1>4, LenProperties, AppendProperties
<1>6. Len(list) \in Nat /\ DOMAIN list = 1 .. Len(list)
  BY <1>2, LenProperties
<1> HIDE DEF cur, E
<1>7. cur \in Elems(queue) /\ cur \in R /\ inDegree[cur] = 0
  <2>1. cur \in Elems(queue)
    BY <1>4 DEF Elems
  <2> QED
    BY <1>3, <1>4, <2>1
<1>8. Elems(sorted') = Elems(sorted) \cup {cur}
  <2>1. \A i \in 1 .. Len(sorted) + 1 : i = Len(sorted) + 1 \/ i \in 1 .. Len(sorted)
    BY <1>5
  <2>2. 1 .. Len(sorted) \subseteq 1 .. Len(sorted) + 1 /\ Len(sorted) + 1 \in 1 .. Len(sorted) + 1
    BY <1>5
  <2>3. Elems(sorted') \subseteq Elems(sorted) \cup {cur}
    BY <1>5, <2>1 DEF Elems
  <2>4. Elems(sorted) \cup {cur} \subseteq Elems(sorted')
    BY <1>5, <2>2 DEF Elems
  <2> QED
    BY <2>3, <2>4
<1>9. ASSUME NEW m \in E
      PROVE  left[m] \in Nat /\ left[m] = Cardinality(Unsorted(m)') /\ left[m] <= inDegree[m]
  <2> DEFINE ds == dependsOn[m]
  <2>1. ds \in Seq(Names \cup {Unknown})
    BY <1>2
  <2>2. Unsorted(m) = {i \in DOMAIN ds : ds[i] \in R}
    BY DEF Unsorted, E
  <2>3. Unsorted(m)' = {i \in DOMAIN ds : ds[i] \in R \ {cur}}
    BY <1>1, <1>8 DEF Unsorted, E
  <2> HIDE DEF ds, R
  <2>4. /\ Cardinality(Unsorted(m)') \in Nat /\ Cardinality(Unsorted(m)) \in Nat
        /\ Cardinality(Unsorted(m)') = Cardinality(Unsorted(m)) - Occurrences(ds, cur)
        /\ IsFiniteSet(Unsorted(m))
    <3> DEFINE before == {i \in DOMAIN ds : ds[i] \in R}
               after == {i \in DOMAIN ds : ds[i] \in R \ {cur}}
    <3>1. cur \in R
      BY <1>7
    <3>2. /\ IsFiniteSet(before) /\ Cardinality(before) \in Nat
          /\ IsFiniteSet(after) /\ Cardinality(after) \in Nat
          /\ Cardinality(after) = Cardinality(before) - Occurrences(ds, cur)
      BY ONLY <2>1, <3>1, CountWithout
    <3> QED
      BY <2>2, <2>3, <3>2
  <2>5. Unsorted(m)' \subseteq Unsorted(m)
    BY <2>2, <2>3
  <2>6. Cardinality(Unsorted(m)') <= Cardinality(Unsorted(m))
    BY <2>4, <2>5, FS_Subset
  <2>7. left[m] = Cardinality(Unsorted(m)) - Occurrences(ds, cur)
    BY <1>3 DEF ds
  <2>8. inDegree[m] = Cardinality(Unsorted(m))
    BY <1>3
  <2> HIDE DEF left
  <2> QED
    BY <2>4, <2>6, <2>7, <2>8
<1>10. inDegree' \in [E -> Nat] /\ DegreesCount'
  BY <1>1, <1>9 DEF DegreesCount, E
<1> HIDE DEF left
<1>11. /\ new \in Seq(E) /\ Len(new) \in Nat /\ DOMAIN new = 1 .. Len(new)
       /\ Elems(new) = T
  <2> HIDE DEF T
  <2>0. list \in Seq(E)
    BY <1>2
  <2>1. /\ new \in Seq(E)
        /\ \A j \in 1 .. Len(new) : new[j] \in T /\ \E i \in 1 .. Len(list) : new[j] = list[i]
        /\ \A i \in 1 .. Len(list) : list[i] \in T => \E j \in 1 .. Len(new) : new[j] = list[i]
    BY <2>0, KeepElements
  <2> HIDE DEF new
  <2>2. Len(new) \in Nat /\ DOMAIN new = 1 .. Len(new)
    BY <2>1, LenProperties
  <2>3. E = {list[i] : i \in 1 .. Len(list)}
    BY <1>6 DEF Elems, E
  <2>4. Elems(new) \subseteq E \cap T
    BY <2>1, <2>2, <2>3 DEF Elems
  <2>5. ASSUME NEW e \in E, e \in T PROVE e \in Elems(new)
    <3>1. PICK i \in 1 .. Len(list) : list[i] = e
      BY <2>3
    <3>2. PICK j \in 1 .. Len(new) : new[j] = e
      BY <2>1, <2>5, <3>1
    <3> QED
      BY <2>2, <3>2 DEF Elems
  <2> QED
    BY <2>1, <2>2, <2>4, <2>5 DEF T
<1>12. NoRepeat(new)
  <2>1. \A i, j \in 1 .. Len(list) : list[i] = list[j] => i = j
    BY <1>2, <1>6 DEF NoRepeat
  <2>2. \A i, j \in 1 .. Len(new) : new[i] = new[j] => i = j
    BY <1>2, <2>1, KeepInjective
  <2> QED
    BY <1>11, <2>2 DEF NoRepeat
<1> HIDE DEF new
<1>13. Elems(Tail(queue)) = Elems(queue) \ {cur} /\ NoRepeat(Tail(queue))
  <2> DEFINE q == Tail(queue)
  <2>1. DOMAIN q = 1 .. Len(queue) - 1 /\ \A i \in 1 .. Len(queue) - 1 : q[i] = queue[i + 1]
    BY <1>4, LenProperties
  <2> HIDE DEF q
  <2>2. \A i \in 1 .. Len(queue) - 1 : i + 1 \in 1 .. Len(queue) /\ i + 1 # 1
    BY <1>4
  <2>3. \A i, j \in 1 .. Len(queue) : queue[i] = queue[j] => i = j
    BY <1>3, <1>4 DEF NoRepeat
  <2>4. NoRepeat(q)
    <3> SUFFICES ASSUME NEW i \in 1 .. Len(queue) - 1, NEW j \in 1 .. Len(queue) - 1, q[i] = q[j]
                 PROVE  i = j
      BY <2>1 DEF NoRepeat
    <3>1. i + 1 = j + 1
      BY <2>1, <2>2, <2>3
    <3> QED
      BY <3>1
  <2>5. Elems(q) \subseteq Elems(queue) \ {cur}
    <3>1. ASSUME NEW i \in 1 .. Len(queue) - 1 PROVE q[i] \in Elems(queue) /\ q[i] # cur
      <4>1. q[i] = queue[i + 1] /\ i + 1 \in 1 .. Len(queue) /\ i + 1 # 1 /\ 1 \in 1 .. Len(queue)
        BY <1>4, <2>1, <2>2
      <4> QED
        BY <1>4, <2>3, <4>1 DEF Elems
    <3> QED
      BY <2>1, <3>1 DEF Elems
  <2>6. ASSUME NEW i \in 1 .. Len(queue), queue[i] # cur PROVE queue[i] \in Elems(q)
    <3>1. i # 1
      BY <1>4, <2>6
    <3>2. i - 1 \in 1 .. Len(queue) - 1 /\ i - 1 + 1 = i
      BY <1>4, <3>1
    <3>3. q[i - 1] = queue[i]
      BY <2>1, <3>2
    <3> QED
      BY <2>1, <3>2, <3>3 DEF Elems
  <2>7. Elems(queue) \ {cur} \subseteq Elems(q)
    BY <1>4, <2>6 DEF Elems
  <2> QED
    BY <2>4, <2>5, <2>7 DEF q
<1>14. Elems(Tail(queue)) \cap T = {}
  BY <1>3, <1>13
<1>15. /\ queue' \in Seq(E) /\ Elems(queue') = Elems(Tail(queue)) \cup Elems(new)
       /\ NoRepeat(queue')
  <2> DEFINE q == Tail(queue)
             a == Len(q)
             b == Len(new)
  <2>1. q \in Seq(E) /\ a \in Nat /\ DOMAIN q = 1 .. a /\ b \in Nat /\ DOMAIN new = 1 .. b
    BY <1>4, <1>11, LenProperties
  <2> HIDE DEF q
  <2>2. /\ q \o new \in Seq(E) /\ Len(q \o new) = a + b
        /\ \A i \in 1 .. a + b : (q \o new)[i] = IF i <= a THEN q[i] ELSE new[i - a]
    BY <1>11, <2>1, ConcatProperties
  <2>3. queue' = q \o new /\ DOMAIN queue' = 1 .. a + b
    BY <1>1, <2>2, LenProperties DEF q
  <2> HIDE DEF a, b
  <2>4. \A i \in 1 .. a : i \in 1 .. a + b /\ queue'[i] = q[i]
    BY <2>1, <2>2, <2>3
  <2>5. \A i \in 1 .. b : a + i \in 1 .. a + b /\ queue'[a + i] = new[i]
    BY <2>1, <2>2, <2>3
  <2>6. \A i \in 1 .. a + b : i \in 1 .. a \/ \E k \in 1 .. b : i = a + k
    <3> SUFFICES ASSUME NEW i \in 1 .. a + b, i \notin 1 .. a PROVE \E k \in 1 .. b : i = a + k
      OBVIOUS
    <3>1. i - a \in 1 .. b /\ i = a + (i - a)
      BY <2>1
    <3> QED
      BY <3>1
  <2>7. Elems(queue') \subseteq Elems(q) \cup Elems(new)
    BY <2>1, <2>3, <2>4, <2>5, <2>6 DEF Elems
  <2>8. Elems(q) \cup Elems(new) \subseteq Elems(queue')
    <3>1. \A i \in 1 .. a : q[i] \in Elems(queue')
      BY <2>3, <2>4 DEF Elems
    <3>2. \A i \in 1 .. b : new[i] \in Elems(queue')
      BY <2>3, <2>5 DEF Elems
    <3> QED
      BY <2>1, <3>1, <3>2 DEF Elems
  <2>9. ASSUME NEW i \in 1 .. a + b, NEW j \in 1 .. a + b, queue'[i] = queue'[j] PROVE i = j
    <3>1. CASE i \in 1 .. a /\ j \in 1 .. a
      BY <1>13, <2>1, <2>4, <2>9, <3>1 DEF NoRepeat, q
    <3>2. CASE i \in 1 .. a /\ \E k \in 1 .. b : j = a + k
      <4>1. PICK k \in 1 .. b : j = a + k
        BY <3>2
      <4>2. q[i] = new[k] /\ q[i] \in Elems(q) /\ new[k] \in Elems(new)
        BY <2>1, <2>4, <2>5, <2>9, <3>2, <4>1 DEF Elems
      <4> QED
        BY <1>11, <1>14, <4>2 DEF q
    <3>3. CASE j \in 1 .. a /\ \E k \in 1 .. b : i = a + k
      <4>1. PICK k \in 1 .. b : i = a + k
        BY <3>3
      <4>2. q[j] = new[k] /\ q[j] \in Elems(q) /\ new[k] \in Elems(new)
        BY <2>1, <2>4, <2>5, <2>9, <3>3, <4>1 DEF Elems
      <4> QED
        BY <1>11, <1>14, <4>2 DEF q
    <3>4. CASE (\E k \in 1 .. b : i = a + k) /\ (\E k \in 1 .. b : j = a + k)
      <4>1. PICK k \in 1 .. b : i = a + k
        BY <3>4
      <4>2. PICK h \in 1 .. b : j = a + h
        BY <3>4
      <4>3. new[k] = new[h]
        BY <2>5, <2>9, <4>1, <4>2
      <4>4. k = h
        BY <1>12, <2>1, <4>3 DEF NoRepeat
      <4> QED
        BY <4>1, <4>2, <4>4
    <3> QED
      BY <2>6, <3>1, <3>2, <3>3, <3>4
  <2> QED
    BY <2>2, <2>3, <2>7, <2>8, <2>9 DEF NoRepeat, q
<1>16. Elems(queue') \cap Elems(sorted') = {}
  BY <1>3, <1>7, <1>8, <1>11, <1>13, <1>15
<1>17. NoRepeat(sorted')
  <2>1. ASSUME NEW i \in 1 .. Len(sorted) PROVE sorted'[i] \in Elems(sorted) /\ sorted'[i] # cur
    BY <1>5, <1>7 DEF Elems
  <2>2. \A i \in 1 .. Len(sorted) + 1 : i = Len(sorted) + 1 \/ i \in 1 .. Len(sorted)
    BY <1>5
  <2>3. \A i, j \in 1 .. Len(sorted) : sorted'[i] = sorted'[j] => i = j
    BY <1>3, <1>5 DEF NoRepeat
  <2>4. \A i, j \in 1 .. Len(sorted) + 1 : sorted'[i] = sorted'[j] => i = j
    BY <1>5, <2>1, <2>2, <2>3
  <2> QED
    BY <1>5, <2>4 DEF NoRepeat
<1>18. ReadyIsQueued'
  <2>1. ASSUME NEW m \in E PROVE left[m] = 0 <=> inDegree[m] = 0 \/ m \in T
    BY <1>3, <1>9
  <2>2. {m \in E : left[m] = 0} = {m \in E : inDegree[m] = 0} \cup T
    BY <2>1
  <2>3. {m \in E : left[m] = 0} = Elems(queue') \cup Elems(sorted')
    BY <1>3, <1>7, <1>8, <1>11, <1>13, <1>15, <2>2
  <2> QED
    BY <1>1, <2>3 DEF ReadyIsQueued, E
<1>19. SortedInOrder'
  <2>1. Elems(dependsOn[cur]) \cap E \subseteq Elems(sorted)
    <3>1. Unsorted(cur) = {}
      <4>1. dependsOn[cur] \in Seq(Names \cup {Unknown}) /\ Cardinality(Unsorted(cur)) = 0
        BY <1>2, <1>3, <1>4, <1>7
      <4>2. IsFiniteSet(DOMAIN dependsOn[cur])
        BY <4>1, LenProperties, FS_Interval
      <4>3. IsFiniteSet(Unsorted(cur))
        BY <4>2, FS_Subset DEF Unsorted
      <4> QED
        BY <4>1, <4>3, FS_EmptySet
    <3> QED
      BY <3>1 DEF Unsorted, Elems, E
  <2>2. ASSUME NEW i \in 1 .. Len(sorted)
        PROVE  {sorted'[j] : j \in 1 .. i - 1} = {sorted[j] : j \in 1 .. i - 1}
    <3>1. \A j \in 1 .. i - 1 : sorted'[j] = sorted[j]
      BY <1>5
    <3> QED
      BY <3>1
  <2>3. {sorted'[j] : j \in 1 .. Len(sorted)} = Elems(sorted)
    BY <1>5 DEF Elems
  <2>4. ASSUME NEW i \in 1 .. Len(sorted) + 1
        PROVE  Elems(dependsOn[sorted'[i]]) \cap E \subseteq {sorted'[j] : j \in 1 .. i - 1}
    <3>1. CASE i = Len(sorted) + 1
      <4>1. i - 1 = Len(sorted) /\ sorted'[i] = cur
        BY <1>5, <3>1
      <4> QED
        BY <2>1, <2>3, <4>1
    <3>2. CASE i \in 1 .. Len(sorted)
      <4>1. Elems(dependsOn[sorted[i]]) \cap E \subseteq {sorted[j] : j \in 1 .. i - 1}
        BY <1>3, <1>5, <3>2 DEF SortedInOrder, E
      <4>2. sorted'[i] = sorted[i]
        BY <1>5, <3>2
      <4> QED
        BY <2>2, <3>2, <4>1, <4>2
    <3> QED
      BY <1>5, <3>1, <3>2
  <2> QED
    BY <1>1, <1>5, <2>4 DEF SortedInOrder, E
<1>20. SortedOnce'
  BY <1>1, <1>2, <1>15, <1>16, <1>17 DEF SortedOnce
<1> QED
  BY <1>1, <1>5, <1>10, <1>15, <1>18, <1>19, <1>20 DEF SortSound, E

(* When the queue is empty, all are sorted: those that were not would      *)
(* depend on one another in a knot.                                        *)
LEMMA SortEndsWell ==
    ASSUME CheckSound, SortSound, SortEnds
    PROVE  Len(sorted) = Len(list)
<1> DEFINE R == Elems(list) \ Elems(sorted)
<1>1. pc = "sort" /\ queue = <<>>
  BY DEF SortEnds
<1>2. /\ list \in Seq(Elems(list)) /\ NoRepeat(list) /\ Elems(list) \subseteq Names
      /\ \A m \in Elems(list) : dependsOn[m] \in Seq(Names \cup {Unknown})
  BY ListsOfMonitors DEF SortSound
<1>3. sorted \in Seq(Elems(list)) /\ NoRepeat(sorted)
  BY DEF SortSound, SortedOnce
<1>4. Elems(queue) = {}
  BY <1>1 DEF Elems
<1>5. ASSUME NEW m \in R PROVE Elems(dependsOn[m]) \cap R # {}
  <2>1. inDegree[m] # 0
    BY <1>4 DEF SortSound, ReadyIsQueued
  <2>2. Cardinality(Unsorted(m)) # 0
    BY <2>1 DEF SortSound, DegreesCount
  <2>3. Unsorted(m) # {}
    BY <2>2, FS_EmptySet
  <2> QED
    BY <2>3 DEF Unsorted, Elems
<1>6. R = {}
  <2>1. R \in SUBSET Names /\ ~Cyclic
    BY <1>1, <1>2 DEF CheckSound
  <2> QED
    BY <1>5, <2>1 DEF Cyclic, Knot
<1>7. Elems(sorted) \subseteq Elems(list)
  <2>1. DOMAIN sorted = 1 .. Len(sorted) /\ sorted \in [1 .. Len(sorted) -> Elems(list)]
    BY <1>3, LenProperties
  <2> QED
    BY <2>1 DEF Elems
<1>8. Elems(sorted) = Elems(list)
  BY <1>6, <1>7
<1> QED
  BY <1>2, <1>3, <1>8, LengthIsCount

(* The part of the invariant about the sort holds after every step. *)
LEMMA SortSoundStep ==
    ASSUME CheckSound, SortSound, [OrderNext]_orderVars
    PROVE  SortSound'
<1>1. ASSUME UNCHANGED <<dependsOn, sort>>, pc' # "cycle" PROVE SortSound'
  <2>1. /\ dependsOn' = dependsOn /\ list' = list /\ inDegree' = inDegree
        /\ queue' = queue /\ sorted' = sorted
    BY <1>1 DEF sort
  <2>2. (DegreesCount <=> DegreesCount') /\ (ReadyIsQueued <=> ReadyIsQueued')
    BY <2>1 DEF DegreesCount, ReadyIsQueued, Unsorted
  <2>3. (SortedOnce <=> SortedOnce') /\ (SortedInOrder <=> SortedInOrder')
    BY <2>1 DEF SortedOnce, SortedInOrder
  <2> QED
    BY <1>1, <2>1, <2>2, <2>3 DEF SortSound
<1>2. CASE UNCHANGED orderVars
  BY <1>1, <1>2 DEF orderVars, SortSound
<1>3. CASE CheckNames \/ VisitDependency \/ LeaveMonitor \/ Accept \/ Again
  BY <1>1, <1>3 DEF CheckNames, VisitDependency, LeaveMonitor, Accept, Again, check
<1>4. ASSUME NEW m \in Names, VisitRoot(m) PROVE SortSound'
  BY <1>1, <1>4 DEF VisitRoot
<1>5. ASSUME NEW l \in Lists, BeginSort(l) PROVE SortSound'
  BY <1>5, BeginSortSound
<1>6. CASE SortNext
  BY <1>6, SortNextSound
<1>7. CASE SortEnds
  BY <1>1, <1>7, SortEndsWell DEF SortEnds
<1> QED
  BY <1>2, <1>3, <1>4, <1>5, <1>6, <1>7 DEF OrderNext

(* No accepted configuration makes topologicalSortMonitors fail, whatever  *)
(* part of it is sorted, and what it gives starts every monitor once and   *)
(* after those it depends on: for any number of monitors, whatever their   *)
(* dependsOn lists.                                                        *)
THEOREM SortIsRight == OrderSpec => []DependenciesFirst
<1>1. OrderInit => CheckSound /\ SortSound
  <2> SUFFICES ASSUME OrderInit
               PROVE  CheckSound /\ SortSound
    OBVIOUS
  <2>1. list = <<>> /\ inDegree = <<>> /\ queue = <<>> /\ sorted = <<>> /\ pc = "names"
    BY DEF OrderInit
  <2>2. Elems(<<>>) = {} /\ DOMAIN <<>> = {} /\ <<>> \in Seq({})
    BY EmptySeq DEF Elems
  <2>3. inDegree \in [Elems(list) -> Nat]
    BY <2>1, <2>2
  <2>4. DegreesCount /\ ReadyIsQueued /\ SortedOnce /\ SortedInOrder
    BY <2>1, <2>2 DEF DegreesCount, ReadyIsQueued, SortedOnce, SortedInOrder, NoRepeat
  <2>5. CheckSound
    BY CheckSoundInit
  <2> QED
    BY <2>1, <2>2, <2>3, <2>4, <2>5 DEF SortSound
<1>2. CheckSound /\ SortSound => DependenciesFirst
  BY DEF SortSound, SortedOnce, SortedInOrder, NoRepeat, DependenciesFirst
<1> QED
  BY <1>1, <1>2, CheckSoundStep, SortSoundStep, PTL DEF OrderSpec

----------------------------------------------------------------------------
(* The end of a monitor.                                                   *)

(* No step of a monitor, its fan-in or the callers of Stop breaks what     *)
(* StopSilences rests on (run, fanInFromMonitor, MonitorHandle.Stop).      *)
LEMMA StopIsOrderlyStep ==
    ASSUME StopIsOrderly, StopSilences, [LifecycleNext]_lifecycleVars
    PROVE  StopIsOrderly' /\ StopSilences'
<1> USE DEF Stoppers, StopperStates, Past
<1>1. CASE UNCHANGED lifecycleVars
  BY <1>1 DEF StopIsOrderly, StopSilences, lifecycleVars
<1>2. CASE ~crashed /\ (CheckReturns \/ NextCheck \/ RunEnds \/ Receive \/ FanInEnds)
  <2>1. /\ UNCHANGED <<stopChan, handleVars, crashed>>
        /\ fanIn = "ended" => fanIn' = "ended"
    BY <1>2 DEF CheckReturns, NextCheck, RunEnds, Receive, FanInEnds
  <2> QED
    BY <2>1 DEF StopIsOrderly, StopSilences, handleVars
<1>3. CASE ~crashed /\ SendOn
  <2>1. UNCHANGED <<stopChan, stopper, mhStopped, outChan>>
    BY <1>3 DEF SendOn, handleVars
  <2>2. \A c \in Stoppers : stopper[c] # "ok"
    BY <1>3 DEF SendOn, StopSilences
  <2>3. crashed' => stopper["detector"] \in {"late", "skipped"}
    BY <1>3, <2>2 DEF SendOn, StopIsOrderly
  <2>4. crashed' \in BOOLEAN
    BY <1>3 DEF SendOn
  <2> QED
    BY <2>1, <2>2, <2>3, <2>4 DEF StopIsOrderly, StopSilences
<1>4. ASSUME NEW c \in Stoppers, ~crashed, StopStep(c)
      PROVE  StopIsOrderly' /\ StopSilences'
  <2>1. CASE BeginHandleStop(c)
    BY <1>4, <2>1 DEF BeginHandleStop, At, StopIsOrderly, StopSilences
  <2>2. CASE CancelHandle(c)
    BY <1>4, <2>2 DEF CancelHandle, At, StopIsOrderly, StopSilences
  <2>3. CASE CloseStopChan(c)
    BY <1>4, <2>3 DEF CloseStopChan, At, StopIsOrderly, StopSilences
  <2>4. CASE BaseStopReturns(c)
    BY <1>4, <2>4 DEF BaseStopReturns, At, StopIsOrderly, StopSilences
  <2>5. CASE HandleStopped(c)
    BY <1>4, <2>5 DEF HandleStopped, At, StopIsOrderly, StopSilences
  <2>6. CASE HandleTimeout(c)
    BY <1>4, <2>6 DEF HandleTimeout, At, StopIsOrderly, StopSilences
  <2> QED
    BY <1>4, <2>1, <2>2, <2>3, <2>4, <2>5, <2>6 DEF StopStep
<1>5. CASE ~crashed /\ CloseOutChan
  BY <1>5 DEF CloseOutChan, StopIsOrderly, StopSilences
<1> QED
  BY <1>1, <1>2, <1>3, <1>4, <1>5 DEF LifecycleNext

(* A Stop that reports success has silenced the monitor, the stop signal   *)
(* is given once and a send on the closed status channel can happen only   *)
(* where the detector's Stop has not itself seen the fan-in end, for every *)
(* size of the status buffer and any number of checks, however long they   *)
(* take (MonitorHandle.Stop against run and fanInFromMonitor).             *)
THEOREM StopIsFinal == LifecycleSpec => []StopSilences
<1>1. LifecycleInit => StopIsOrderly /\ StopSilences
  <2> SUFFICES ASSUME LifecycleInit
               PROVE  StopIsOrderly /\ StopSilences
    OBVIOUS
  <2>1. stopper \in [Stoppers -> StopperStates] /\ \A c \in Stoppers : stopper[c] = "idle"
    BY DEF LifecycleInit, Stoppers, StopperStates
  <2>2. "detector" \in Stoppers
    BY DEF Stoppers
  <2>3. mhStopped = FALSE /\ crashed = FALSE /\ stopChan = 0 /\ outChan = "open"
    BY DEF LifecycleInit
  <2>4. StopIsOrderly
    BY <2>1, <2>2, <2>3, Zenon DEF StopIsOrderly, Past
  <2>5. StopSilences
    <3>1. stopChan <= 1
      BY <2>3
    <3> QED
      BY <2>1, <2>3, <3>1, Zenon DEF StopSilences
  <2> QED
    BY <2>4, <2>5
<1> QED
  BY <1>1, StopIsOrderlyStep, PTL DEF LifecycleSpec

----------------------------------------------------------------------------
(* The kubelet monitor.                                                    *)

(* A power of two is a positive number. *)
LEMMA PowersPositive ==
    ASSUME NEW n \in Nat
    PROVE  TwoTo(n) \in Nat \ {0}
<1> DEFINE S == Nat \ {0}
           Body(g) == [k \in 0 .. n |-> IF k = 0 THEN 1 ELSE 2 * g[k - 1]]
           power == CHOOSE g : g = Body(g)
<1>1. TwoTo(n) = power[n]
  BY DEF TwoTo
<1>2. 1 \in S /\ \A s \in S : 2 * s \in S
  OBVIOUS
<1> HIDE DEF S
<1>3. \E g : g = Body(g)
  <2> DEFINE turn == [i \in 1 .. n |-> [s \in S |-> 2 * s]]
  <2>1. turn \in [1 .. n -> [S -> S]]
    BY <1>2
  <2> HIDE DEF turn
  <2>2. PICK f \in [0 .. n -> S] : LoopRun(f, 1, n, turn)
    BY <1>2, <2>1, LoopRuns
  <2> USE DEF turn
  <2>3. \A i \in 1 .. n : i - 1 \in 0 .. n /\ f[i - 1] \in S
    OBVIOUS
  <2>4. f[0] = 1 /\ \A i \in 1 .. n : f[i] = 2 * f[i - 1]
    BY <2>2, <2>3 DEF LoopRun
  <2>5. ASSUME NEW i \in 0 .. n PROVE f[i] = IF i = 0 THEN 1 ELSE 2 * f[i - 1]
    <3>1. i = 0 \/ i \in 1 .. n
      OBVIOUS
    <3> QED
      BY <2>4, <3>1
  <2>6. f = Body(f)
    BY <2>5
  <2> QED
    BY <2>6
<1>4. power = Body(power)
  <2> HIDE DEF Body
  <2> QED BY <1>3
<1> HIDE DEF power
<1>5. power[0] \in S /\ \A i \in 1 .. n : power[i - 1] \in S => power[i] \in S
  <2>1. \A i \in 0 .. n : power[i] = IF i = 0 THEN 1 ELSE 2 * power[i - 1]
    BY <1>4
  <2>2. 0 \in 0 .. n /\ \A i \in 1 .. n : i \in 0 .. n /\ i # 0
    OBVIOUS
  <2> QED
    BY <1>2, <2>1, <2>2
<1>6. power[n] \in S
  <2>1. \A i \in 0 .. n : power[i] \in S
    BY <1>5, LoopStays
  <2> QED
    BY <2>1
<1> QED
  BY <1>1, <1>6 DEF S

(* What a word can hold is kept as it is. *)
LEMMA FitsTheWord ==
    ASSUME NEW x \in Nat, x < HalfWord
    PROVE  Wrap(x) = x
<1>1. HalfWord \in Nat \ {0}
  <2>1. WordBits - 1 \in Nat
    BY KubeletAssumption
  <2> QED
    BY <2>1, PowersPositive DEF HalfWord
<1> DEFINE h == HalfWord
<1>2. h \in Nat \ {0} /\ x < h
  BY <1>1
<1> HIDE DEF h
<1>3. x % (2 * h) = x
  BY <1>2
<1> QED
  BY <1>2, <1>3 DEF Wrap, h

(* A duration that fits the word is doubled without wrapping, so the wait  *)
(* is what it should be, up to the cap.                                    *)
LEMMA TimeoutDoubles ==
    ASSUME multiplier \in Nat \ {0}, breaker = "exponential", Doubled < HalfWord,
           waited \in Nat, ~(waited < CalculateTimeout)
    PROVE  waited >= Doubled \/ waited >= MaxBackoffTimeout
<1> DEFINE p == TwoTo(multiplier - 1)
<1>1. p \in Nat \ {0}
  <2>1. multiplier - 1 \in Nat
    OBVIOUS
  <2> QED
    BY <2>1, PowersPositive
<1>2. HalfWord \in Nat /\ OpenTimeout \in Nat \ {0} /\ MaxBackoffTimeout \in Nat
  <2>1. WordBits - 1 \in Nat
    BY KubeletAssumption
  <2> QED
    BY <2>1, KubeletAssumption, PowersPositive DEF HalfWord
<1>3. CalculateTimeout = LET timeout == Wrap(OpenTimeout * Wrap(p))
                         IN  IF timeout > MaxBackoffTimeout THEN MaxBackoffTimeout ELSE timeout
  BY DEF CalculateTimeout
<1>4. Doubled = OpenTimeout * p
  BY DEF Doubled
<1> HIDE DEF p
<1>5. p < HalfWord /\ OpenTimeout * p \in Nat
  BY <1>1, <1>2, <1>4
<1>6. Wrap(p) = p /\ Wrap(OpenTimeout * p) = OpenTimeout * p
  BY <1>1, <1>4, <1>5, FitsTheWord
<1> QED
  BY <1>2, <1>3, <1>4, <1>5, <1>6

(* The breaker is open only when it is used, and one that backs off has    *)
(* counted the opening.                                                    *)
OpeningsCounted ==
    /\ breaker \in {"off", "fixed", "exponential"} /\ state \in {"closed", "open", "halfopen"}
    /\ multiplier \in Nat /\ waited \in Nat
    /\ breaker = "off" => state = "closed"
    /\ (breaker = "exponential" /\ state = "open") => multiplier # 0

(* Checks, openings, the clock and a new instance keep it so. *)
LEMMA OpeningsCountedStep ==
    ASSUME OpeningsCounted, [KubeletNext]_kubeletVars
    PROVE  OpeningsCounted'
<1>1. ASSUME NEW sent \in BOOLEAN, SkipCheck(sent)
      PROVE  OpeningsCounted'
  BY <1>1 DEF SkipCheck, OpeningsCounted, breakerVars
<1>2. ASSUME NEW o \in Observations, NEW sent \in BOOLEAN, RunCheck(o, sent)
      PROVE  OpeningsCounted'
  <2>1. breaker' = breaker
    BY <1>2 DEF RunCheck
  <2>2. CASE breaker = "off"
    BY <1>2, <2>1, <2>2 DEF RunCheck, OpeningsCounted, breakerVars
  <2>3. CASE breaker # "off" /\ RecordSuccess
    <3>1. CASE state = "closed"
      <4>1. UNCHANGED <<state, multiplier, waited>>
        BY <2>3, <3>1 DEF RecordSuccess, StateAtAttempt
      <4> QED
        BY <2>1, <3>1, <4>1 DEF OpeningsCounted
    <3>2. CASE state # "closed"
      <4>1. StateAtAttempt = "halfopen"
        BY <3>2 DEF StateAtAttempt, OpeningsCounted
      <4>2. state' \in {"closed", "halfopen"} /\ multiplier' \in {0, multiplier} /\ waited' = waited
        BY <2>3, <4>1 DEF RecordSuccess
      <4> QED
        BY <2>1, <2>3, <4>2 DEF OpeningsCounted
    <3> QED
      BY <3>1, <3>2
  <2>4. CASE breaker # "off" /\ RecordFailure
    <3>1. MaxOpenings \in Nat /\ MaxOpenings # 0
      BY KubeletAssumption
    <3> QED
      BY <2>1, <2>4, <3>1 DEF RecordFailure, Open, StateAtAttempt, OpeningsCounted
  <2> QED
    BY <1>2, <2>2, <2>3, <2>4 DEF RunCheck
<1>3. CASE ClockTick
  BY <1>3 DEF ClockTick, OpeningsCounted
<1>4. CASE RestartMonitor
  BY <1>4 DEF RestartMonitor, OpeningsCounted
<1>5. CASE KubeletChanges \/ UNCHANGED kubeletVars
  BY <1>5 DEF KubeletChanges, kubeletVars, breakerVars, OpeningsCounted
<1> QED
  BY <1>1, <1>2, <1>3, <1>4, <1>5 DEF KubeletNext

(* An open breaker keeps the monitor away from the kubelet for its         *)
(* timeout, doubled with every further opening in a row up to the cap,     *)
(* whatever the thresholds, the timeout, the cap and the width of a word,  *)
(* as long as the doubled duration fits the word (calculateTimeout,        *)
(* CanAttempt).                                                            *)
THEOREM BreakerWaits == KubeletSpec => BreakerHoldsOff
<1>1. KubeletInit => OpeningsCounted
  BY DEF KubeletInit, OpeningsCounted
<1>2. ASSUME OpeningsCounted, [KubeletNext]_kubeletVars
      PROVE  [(state = "open" /\ \E o \in Observations, sent \in BOOLEAN : RunCheck(o, sent))
              => IF breaker = "fixed" THEN waited >= OpenTimeout
                 ELSE Doubled < HalfWord => waited >= Doubled \/ waited >= MaxBackoffTimeout]_kubeletVars
  <2> SUFFICES ASSUME state = "open", NEW o \in Observations, NEW sent \in BOOLEAN, RunCheck(o, sent)
               PROVE  IF breaker = "fixed" THEN waited >= OpenTimeout
                      ELSE Doubled < HalfWord => waited >= Doubled \/ waited >= MaxBackoffTimeout
    OBVIOUS
  <2>1. ~Refuses
    BY DEF RunCheck
  <2>2. breaker \in {"fixed", "exponential"} /\ waited \in Nat
    BY <1>2 DEF OpeningsCounted
  <2>3. ~(waited < CalculateTimeout)
    BY <2>1, <2>2 DEF Refuses
  <2>4. CASE breaker = "fixed"
    <3>1. CalculateTimeout = OpenTimeout /\ OpenTimeout \in Nat
      BY <2>4, KubeletAssumption DEF CalculateTimeout
    <3> QED
      BY <2>2, <2>3, <2>4, <3>1
  <2>5. CASE breaker = "exponential" /\ Doubled < HalfWord
    <3>1. multiplier \in Nat \ {0}
      BY <1>2, <2>5 DEF OpeningsCounted
    <3> QED
      BY <2>2, <2>3, <2>5, <3>1, TimeoutDoubles
  <2> QED
    BY <2>2, <2>4, <2>5
<1> QED
  BY <1>1, <1>2, OpeningsCountedStep, PTL DEF KubeletSpec, BreakerHoldsOff


----------------------------------------------------------------------------
(* The log pattern monitor.                                                *)

(* The lines from one number to another, as a sequence. *)
LEMMA LinesBetween ==
  ASSUME NEW from \in Nat, NEW to \in Nat, from <= to + 1
  PROVE  /\ LinesAt(from, to) \in Seq(Nat)
         /\ Len(LinesAt(from, to)) = to - from + 1
         /\ ToSet(LinesAt(from, to)) = from .. to
<1> DEFINE n == to - from + 1
           f == LinesAt(from, to)
<1>1. n \in Nat
  OBVIOUS
<1>2. f \in [1 .. n -> Nat] /\ \A i \in 1 .. n : f[i] = from + i - 1
  BY DEF LinesAt
<1> HIDE DEF f
<1>3. f \in Seq(Nat) /\ Len(f) = n
  BY <1>1, <1>2, IsASeq
<1>4. ASSUME NEW k \in from .. to  PROVE \E i \in 1 .. n : f[i] = k
  <2>1. k - from + 1 \in 1 .. n /\ f[k - from + 1] = k
    BY <1>2
  <2> QED
    BY <2>1
<1>5. \A i \in 1 .. n : f[i] \in from .. to
  BY <1>2
<1>6. ToSet(f) = from .. to
  BY <1>2, <1>4, <1>5 DEF ToSet
<1> QED
  BY <1>3, <1>6 DEF f

(* What journalctl prints goes up to the end of the log, and begins no     *)
(* later than after the lines that are old (checkJournalUnit,              *)
(* checkKernelJournal).                                                    *)
LEMMA JournalGoesBack ==
  ASSUME LogTypeOK, NEW since \in Nat \cup {Never}
  PROVE  \E s \in 1 .. Len(log) + 1 :
           /\ JournalLines(since) = LinesAt(s, Len(log))
           /\ \A r \in Nat : (/\ since # Never
                              /\ \A k \in DOMAIN log : k > r => log[k] >= since - 1) => s <= r + 1
<1> DEFINE n == Len(log)
           recent == {i \in DOMAIN log : log[i] >= since - 1}
<1>1. n \in Nat /\ DOMAIN log = 1 .. n
  BY LenProperties DEF LogTypeOK
<1>2. CASE since = Never
  <2> DEFINE s == Later(1, n - LastLines + 1)
  <2>1. s \in 1 .. n + 1
    BY <1>1, LogPatternAssumption DEF Later
  <2>2. JournalLines(since) = LinesAt(s, n)
    BY <1>2 DEF JournalLines
  <2> HIDE DEF s
  <2> QED
    BY <1>2, <2>1, <2>2
<1>3. CASE since # Never
  <2>1. IsFiniteSet(1 .. n) /\ Cardinality(1 .. n) = n
    <3>1. 1 \in Int /\ n \in Int /\ (IF 1 > n THEN 0 ELSE n - 1 + 1) = n
      BY <1>1
    <3> HIDE DEF n
    <3> QED
      BY <3>1, FS_Interval
  <2>2. recent \subseteq 1 .. n
    BY <1>1
  <2>3. IsFiniteSet(recent) /\ Cardinality(recent) \in Nat /\ Cardinality(recent) <= n
    BY <2>1, <2>2, FS_Subset, FS_CardinalityType
  <2>4. ASSUME NEW r \in Nat, \A k \in DOMAIN log : k > r => log[k] >= since - 1
        PROVE  n - Cardinality(recent) <= r
    <3>1. CASE r >= n
      BY <1>1, <2>3, <3>1
    <3>2. CASE r < n
      <4>1. r + 1 .. n \subseteq recent
        BY <1>1, <2>4
      <4>2. Cardinality(r + 1 .. n) = n - r
        <5>1. r + 1 \in Int /\ n \in Int /\ ~(r + 1 > n) /\ n - (r + 1) + 1 = n - r
          BY <1>1, <3>2
        <5> QED
          BY <5>1, FS_Interval
      <4>3. Cardinality(r + 1 .. n) <= Cardinality(recent)
        BY <2>3, <4>1, FS_Subset
      <4> QED
        BY <1>1, <2>3, <4>2, <4>3
    <3> QED
      BY <1>1, <3>1, <3>2
  <2> DEFINE c == Cardinality(recent)
             s == n - c + 1
  <2>5. JournalLines(since) = LinesAt(s, n)
    BY <1>3 DEF JournalLines
  <2>6. \A r \in Nat : (\A k \in DOMAIN log : k > r => log[k] >= since - 1) => n - c <= r
    BY <2>4
  <2>7. c \in Nat /\ c <= n
    BY <2>3
  <2> HIDE DEF c, recent
  <2>8. s \in 1 .. n + 1
    BY <1>1, <2>7
  <2>9. \A r \in Nat : (\A k \in DOMAIN log : k > r => log[k] >= since - 1) => s <= r + 1
    BY <1>1, <2>6, <2>7
  <2> HIDE DEF s
  <2> QED
    BY <2>5, <2>8, <2>9
<1> QED
  BY <1>2, <1>3

(* Each step of the monitor, the log and the clock keeps the invariant     *)
(* behind NoLineMissed.                                                    *)
LEMMA ReadsStayTogether ==
  ASSUME QuickReads, LogTypeOK, UnreadIsRecent, ReadGoesOn, NoLineMissed, [LogPatternNext]_logVars
  PROVE  LogTypeOK' /\ UnreadIsRecent' /\ ReadGoesOn' /\ NoLineMissed'
<1> DEFINE n == Len(log)
<1>1. /\ n \in Nat /\ DOMAIN log = 1 .. n /\ now \in Nat /\ log \in Seq(Nat) /\ readUpTo \in Nat
      /\ lastCheck \in Nat \cup {Never} /\ lastCheck <= now /\ first \in Int
      /\ \A k \in 1 .. n : log[k] \in Nat
  BY LenProperties, ElementOfSeq DEF LogTypeOK
<1>2. CASE LogLine
  <2>1. /\ log' = Append(log, now)
        /\ UNCHANGED <<source, now, reading, lastCheck, first, readUpTo, examined, forgotten>>
    BY <1>2 DEF LogLine
  <2>2. /\ log' \in Seq(Nat) /\ Len(log') = n + 1
        /\ \A k \in 1 .. n : log'[k] = log[k]
        /\ log'[n + 1] = now
    BY <1>1, <2>1, AppendProperties
  <2>3. DOMAIN log' = 1 .. n + 1
    BY <2>2, LenProperties
  <2>4. \A k \in DOMAIN log' : (k \in DOMAIN log /\ log'[k] = log[k]) \/ log'[k] = now
    BY <1>1, <2>2, <2>3
  <2>5. LogTypeOK'
    BY <2>1, <2>2 DEF LogTypeOK
  <2>6. UnreadIsRecent'
    BY <1>1, <2>1, <2>4 DEF UnreadIsRecent
  <2>7. ReadGoesOn'
    <3>1. ASSUME reading # Idle
          PROVE  /\ \A k \in DOMAIN log' : k > reading.size => log'[k] >= reading.at
                 /\ reading.size \in 0 .. n + 1
      BY <1>1, <2>4, <3>1 DEF ReadGoesOn
    <3> QED
      BY <2>1, <2>2, <3>1 DEF ReadGoesOn
  <2>8. NoLineMissed'
    BY <2>1 DEF NoLineMissed
  <2> QED
    BY <2>5, <2>6, <2>7, <2>8
<1>3. CASE Tick
  <2>1. /\ now' = now + 1 /\ (reading # Idle => now < reading.at + MaxLag)
        /\ UNCHANGED <<source, log, reading, lastCheck, first, readUpTo, examined, forgotten>>
    BY <1>3 DEF Tick
  <2>2. LogTypeOK'
    BY <1>1, <2>1 DEF LogTypeOK, Never
  <2>3. UnreadIsRecent'
    BY <2>1 DEF UnreadIsRecent
  <2>4. ReadGoesOn'
    <3>1. reading # Idle => reading.at <= now + 1 /\ now + 1 <= reading.at + MaxLag
      BY <1>1, <2>1, LogPatternAssumption DEF ReadGoesOn
    <3> QED
      BY <2>1, <3>1 DEF ReadGoesOn
  <2>5. NoLineMissed'
    BY <2>1 DEF NoLineMissed
  <2> QED
    BY <2>2, <2>3, <2>4, <2>5
<1>4. CASE BeginCheck
  <2>1. /\ reading = Idle /\ CleanupExpiredEntries
        /\ reading' = [at |-> now, size |-> n,
                       lines |-> IF source = "kmsg" THEN <<>> ELSE JournalLines(lastCheck')]
        /\ UNCHANGED <<source, log, now, first, readUpTo, examined>>
    BY <1>4 DEF BeginCheck
  <2>2. \/ lastCheck' = lastCheck /\ (~forgotten' => ~forgotten)
        \/ lastCheck' = Never /\ forgotten'
    <3>1. CASE lastCheck' = lastCheck
      BY <2>1, <3>1 DEF CleanupExpiredEntries
    <3>2. CASE lastCheck' # lastCheck
      BY <2>1, <3>2 DEF CleanupExpiredEntries
    <3> QED
      BY <3>1, <3>2
  <2>3. lastCheck' \in Nat \cup {Never} /\ lastCheck' <= now
    BY <1>1, <2>2 DEF Never
  <2>4. LogTypeOK'
    BY <2>1, <2>3 DEF LogTypeOK
  <2>5. UnreadIsRecent' /\ NoLineMissed'
    BY <2>1, <2>2 DEF UnreadIsRecent, NoLineMissed
  <2>6. PICK s \in 1 .. n + 1 :
          /\ JournalLines(lastCheck') = LinesAt(s, n)
          /\ \A r \in Nat : (/\ lastCheck' # Never
                             /\ \A k \in DOMAIN log : k > r => log[k] >= lastCheck' - 1) => s <= r + 1
    BY <2>3, JournalGoesBack
  <2>7. (source # "kmsg" /\ ~forgotten' /\ first > 0) => s <= readUpTo + 1
    <3> SUFFICES ASSUME source # "kmsg", ~forgotten', first > 0  PROVE s <= readUpTo + 1
      OBVIOUS
    <3>1. lastCheck' = lastCheck /\ ~forgotten
      BY <2>2
    <3>2. lastCheck # Never /\ \A k \in DOMAIN log : k > readUpTo => log[k] >= lastCheck - 1
      BY <3>1 DEF UnreadIsRecent
    <3> QED
      BY <1>1, <2>6, <3>1, <3>2
  <2>8. LinesAt(s, n) \in Seq(Nat)
    BY <1>1, <2>6, LinesBetween
  <2>9. ReadGoesOn'
    <3>1. /\ reading'.at = now /\ reading'.size = n
          /\ reading'.lines = IF source = "kmsg" THEN <<>> ELSE LinesAt(s, n)
      BY <2>1, <2>6
    <3>2. reading'.lines \in Seq(Nat)
      BY <2>8, <3>1
    <3>3. now <= now + MaxLag /\ now <= now /\ n \in 0 .. n /\ (\A k \in DOMAIN log : ~(k > n))
      BY <1>1, LogPatternAssumption
    <3> HIDE DEF n
    <3>4. source # "kmsg" => \E t \in 1 .. reading'.size + 1 :
                               /\ reading'.lines = LinesAt(t, reading'.size)
                               /\ (~forgotten' /\ first > 0) => t <= readUpTo + 1
      BY <2>7, <3>1
    <3> QED
      BY <1>1, <2>1, <3>1, <3>2, <3>3, <3>4 DEF ReadGoesOn, n
  <2> QED
    BY <2>4, <2>5, <2>9
<1>5. CASE EndCheck
  <2>1. /\ reading # Idle /\ reading' = Idle
        /\ lastCheck' = IF source = "kmsg" THEN lastCheck ELSE now
        /\ readUpTo' = reading.size
        /\ first' = IF first = 0 THEN reading.size - Len(reading.lines) + 1 ELSE first
        /\ source # "kmsg" => examined' = examined \cup ToSet(reading.lines)
        /\ UNCHANGED <<source, log, now, forgotten>>
    BY <1>5 DEF EndCheck
  <2>2. /\ reading.at \in Nat /\ reading.at <= now /\ now <= reading.at + MaxLag
        /\ reading.size \in 0 .. n /\ Len(reading.lines) \in Nat
        /\ \A k \in DOMAIN log : k > reading.size => log[k] >= reading.at
    BY <2>1, LenProperties DEF ReadGoesOn
  <2>3. LogTypeOK'
    BY <1>1, <2>1, <2>2 DEF LogTypeOK
  <2>4. ReadGoesOn'
    BY <2>1 DEF ReadGoesOn
  <2>5. UnreadIsRecent'
    <3>1. \A k \in DOMAIN log : k > reading.size => log[k] >= now - 1
      BY <1>1, <2>2, LogPatternAssumption DEF QuickReads
    <3>2. now # Never
      BY <1>1 DEF Never
    <3> QED
      BY <2>1, <3>1, <3>2 DEF UnreadIsRecent
  <2>6. NoLineMissed'
    <3> SUFFICES ASSUME source # "kmsg", ~forgotten, first' > 0, NEW k \in first' .. reading.size
                 PROVE  k \in examined'
      BY <2>1 DEF NoLineMissed
    <3>1. PICK s \in 1 .. reading.size + 1 :
            /\ reading.lines = LinesAt(s, reading.size)
            /\ (~forgotten /\ first > 0) => s <= readUpTo + 1
      BY <2>1 DEF ReadGoesOn
    <3>2. /\ Len(reading.lines) = reading.size - s + 1
          /\ ToSet(reading.lines) = s .. reading.size
      <4>1. s \in Nat /\ reading.size \in Nat /\ s <= reading.size + 1
        BY <1>1, <2>2
      <4> QED
        BY <3>1, <4>1, LinesBetween
    <3>3. CASE k >= s
      BY <2>1, <2>2, <3>2, <3>3
    <3>4. CASE k < s
      <4>1. first # 0 /\ first' = first
        BY <2>1, <2>2, <3>2, <3>4
      <4>2. k \in first .. readUpTo
        BY <1>1, <2>2, <3>1, <3>4, <4>1
      <4> QED
        BY <2>1, <4>1, <4>2 DEF NoLineMissed
    <3> QED
      BY <1>1, <2>1, <2>2, <3>3, <3>4
  <2> QED
    BY <2>3, <2>4, <2>5, <2>6
<1>6. CASE FailCheck
  <2>1. reading' = Idle
        /\ UNCHANGED <<source, log, now, lastCheck, first, readUpTo, examined, forgotten>>
    BY <1>6 DEF FailCheck
  <2> QED
    BY <2>1 DEF LogTypeOK, UnreadIsRecent, ReadGoesOn, NoLineMissed
<1>7. CASE UNCHANGED logVars
  BY <1>7 DEF logVars, LogTypeOK, UnreadIsRecent, ReadGoesOn, NoLineMissed
<1> QED
  BY <1>2, <1>3, <1>4, <1>5, <1>6, <1>7 DEF LogPatternNext

(* With reads of a journal that take no longer than the second by which    *)
(* the next one goes back, every line is matched: none falls between two   *)
(* reads (checkJournalUnit, checkKernelJournal).                           *)
THEOREM JournalReadWhole ==
  ASSUME QuickReads
  PROVE  LogPatternSpec => []NoLineMissed
<1>1. LogPatternInit => LogTypeOK /\ UnreadIsRecent /\ ReadGoesOn /\ NoLineMissed
  <2> SUFFICES ASSUME LogPatternInit
               PROVE  LogTypeOK /\ UnreadIsRecent /\ ReadGoesOn /\ NoLineMissed
    OBVIOUS
  <2>1. LogTypeOK
    <3>1. log = <<>> /\ now = 0 /\ readUpTo = 0 /\ first = 0 /\ lastCheck = -1
      BY DEF LogPatternInit, Never
    <3>2. log \in Seq(Nat)
      BY <3>1, EmptySeq
    <3> QED
      BY <3>1, <3>2 DEF LogTypeOK, Never
  <2>2. first = 0 /\ reading = Idle
    BY DEF LogPatternInit
  <2> QED
    BY <2>1, <2>2 DEF UnreadIsRecent, ReadGoesOn, NoLineMissed
<1> QED
  BY <1>1, ReadsStayTogether, PTL DEF LogPatternSpec

----------------------------------------------------------------------------
(* The rate of events.                                                     *)

(* Lines by their numbers, whichever they are. *)
LEMMA LinesAreASeq ==
    ASSUME NEW from \in Int, NEW to \in Int
    PROVE  LinesAt(from, to) \in Seq(Int)
<1> DEFINE n == IF to - from + 1 > 0 THEN to - from + 1 ELSE 0
<1>1. n \in Nat /\ 1 .. to - from + 1 = 1 .. n
  OBVIOUS
<1>2. LinesAt(from, to) \in [1 .. n -> Int]
  BY <1>1 DEF LinesAt
<1> HIDE DEF n
<1> QED
  BY <1>1, <1>2

(* matchPatterns on a read: it reports nothing, or what it reports is      *)
(* dated now and counted, from the start if the window had passed, and     *)
(* otherwise on top of what was counted.                                   *)
LEMMA MatchesCounted ==
    ASSUME EventsSpaced, NEW lines \in Seq(Int)
    PROVE  LET r == MatchPatterns(lines)
           IN  \/ r = [last |-> lastEvent, count |-> eventCount, reported |-> 0]
               \/ /\ r.last = now /\ r.count \in 1 .. MaxEventsPerPattern /\ r.reported \in Nat \ {0}
                  /\ \/ r.count = r.reported /\ (lastEvent = Never \/ now - lastEvent > DedupWindow)
                     \/ r.count = eventCount + r.reported /\ lastEvent # Never
<1> DEFINE n == Len(lines)
           b == [last |-> lastEvent, count |-> eventCount, reported |-> 0]
           Anew(s) == s.count = s.reported /\ (lastEvent = Never \/ now - lastEvent > DedupWindow)
           On(s) == s.count = eventCount + s.reported /\ lastEvent # Never
           R == {s \in [last : {now}, count : 1 .. MaxEventsPerPattern, reported : Nat \ {0}] :
                    Anew(s) \/ On(s)}
           S == {b} \cup R
           Body(g) == [k \in 0 .. n |-> IF k = 0 THEN b ELSE ShouldReportEvent(g[k - 1])]
           after == CHOOSE g : g = Body(g)
<1>1. n \in Nat /\ MatchPatterns(lines) = after[n]
  BY LenProperties DEF MatchPatterns
<1>2. /\ now \in Nat /\ eventCount \in 0 .. MaxEventsPerPattern
      /\ lastEvent \in Nat \cup {Never} /\ DedupWindow \in Nat /\ MaxEventsPerPattern \in Nat \ {0}
      /\ lastEvent = Never => eventCount = 0
  BY LogPatternAssumption DEF EventsSpaced, Grouped, LastIsKnown
<1> HIDE DEF n
<1>3. ASSUME NEW s \in S PROVE ShouldReportEvent(s) \in S
  <2>1. CASE s = b
    <3>1. s.last = lastEvent /\ s.count = eventCount /\ s.reported = 0
      BY <2>1
    <3>2. CASE lastEvent = Never \/ now - lastEvent > DedupWindow
      <4>1. ShouldReportEvent(s) = [last |-> now, count |-> 1, reported |-> 1]
        BY <3>1, <3>2 DEF ShouldReportEvent
      <4>2. [last |-> now, count |-> 1, reported |-> 1] \in R
        BY <1>2, <3>2
      <4> QED
        BY <4>1, <4>2
    <3>3. CASE ~(lastEvent = Never \/ now - lastEvent > DedupWindow)
      <4>1. CASE eventCount >= MaxEventsPerPattern
        BY <2>1, <3>1, <3>3, <4>1 DEF ShouldReportEvent
      <4>2. CASE ~(eventCount >= MaxEventsPerPattern)
        <5>1. ShouldReportEvent(s) = [last |-> now, count |-> eventCount + 1, reported |-> 1]
          BY <3>1, <3>3, <4>2 DEF ShouldReportEvent
        <5>2. [last |-> now, count |-> eventCount + 1, reported |-> 1] \in R
          BY <1>2, <3>3, <4>2
        <5> QED
          BY <5>1, <5>2
      <4> QED
        BY <4>1, <4>2
    <3> QED
      BY <3>2, <3>3
  <2>2. CASE s \in R
    <3>1. s.last = now /\ s.count \in 1 .. MaxEventsPerPattern /\ s.reported \in Nat \ {0}
      BY <2>2
    <3>2. ~(s.last = Never \/ now - s.last > DedupWindow)
      BY <1>2, <3>1 DEF Never
    <3>3. CASE s.count >= MaxEventsPerPattern
      BY <3>2, <3>3 DEF ShouldReportEvent
    <3>4. CASE ~(s.count >= MaxEventsPerPattern)
      <4> DEFINE t == [last |-> now, count |-> s.count + 1, reported |-> s.reported + 1]
      <4>1. ShouldReportEvent(s) = t
        BY <3>2, <3>4 DEF ShouldReportEvent
      <4>2. t \in [last : {now}, count : 1 .. MaxEventsPerPattern, reported : Nat \ {0}]
        BY <1>2, <3>1, <3>4
      <4>3. Anew(t) \/ On(t)
        BY <1>2, <2>2, <3>1
      <4> QED
        BY <4>1, <4>2, <4>3
    <3> QED
      BY <3>3, <3>4
  <2> QED
    BY <2>1, <2>2
<1> HIDE DEF S, R, b
<1>4. b \in S
  BY DEF S
<1>5. \E g : g = Body(g)
  <2> DEFINE turn == [i \in 1 .. n |-> [s \in S |-> ShouldReportEvent(s)]]
  <2>1. turn \in [1 .. n -> [S -> S]]
    BY <1>3
  <2>2. n \in Nat
    BY <1>1
  <2> HIDE DEF turn
  <2>3. PICK f \in [0 .. n -> S] : LoopRun(f, b, n, turn)
    BY <1>4, <2>1, <2>2, LoopRuns
  <2> USE DEF turn
  <2>4. \A i \in 1 .. n : i - 1 \in 0 .. n /\ f[i - 1] \in S /\ i \in 0 .. n
    BY <2>2
  <2>5. f[0] = b /\ \A i \in 1 .. n : f[i] = ShouldReportEvent(f[i - 1])
    BY <2>3, <2>4 DEF LoopRun
  <2>6. ASSUME NEW i \in 0 .. n
        PROVE  f[i] = IF i = 0 THEN b ELSE ShouldReportEvent(f[i - 1])
    <3>1. CASE i = 0
      BY <2>5, <3>1
    <3>2. CASE i # 0
      <4>1. i \in 1 .. n
        BY <2>2, <3>2
      <4> QED
        BY <2>5, <3>2, <4>1
    <3> QED
      BY <3>1, <3>2
  <2>7. f = Body(f)
    BY <2>6
  <2> QED
    BY <2>7
<1>6. after = Body(after)
  <2> HIDE DEF Body
  <2> QED BY <1>5
<1> HIDE DEF after
<1>7. after[0] \in S /\ \A i \in 1 .. n : after[i - 1] \in S => after[i] \in S
  <2>1. \A i \in 0 .. n : after[i] = IF i = 0 THEN b ELSE ShouldReportEvent(after[i - 1])
    BY <1>6
  <2>2. 0 \in 0 .. n /\ \A i \in 1 .. n : i \in 0 .. n /\ i # 0
    BY <1>1
  <2>3. after[0] \in S
    BY <1>4, <2>1, <2>2
  <2>4. \A i \in 1 .. n : after[i] = ShouldReportEvent(after[i - 1])
    BY <2>1, <2>2
  <2> QED
    BY <1>3, <2>3, <2>4
<1>8. after[n] \in S
  <2>1. \A i \in 0 .. n : after[i] \in S
    BY <1>1, <1>7, LoopStays
  <2> QED
    BY <1>1, <2>1
<1> DEFINE r == MatchPatterns(lines)
<1>9. r \in S
  BY <1>1, <1>8
<1> HIDE DEF r
<1>10. r = b \/ r \in R
  BY <1>9 DEF S
<1> QED
  BY <1>10 DEF b, R, r

(* The events of a read, after those there were. *)
LEMMA EventsAfterRead ==
    ASSUME EventsSpaced, NEW m \in Nat \ {0},
           events' = events \o [i \in 1 .. m |-> now], now' = now
    PROVE  /\ events' \in Seq(Nat) /\ Len(events') = Len(events) + m
           /\ Len(events) \in Nat /\ DOMAIN events = 1 .. Len(events)
           /\ DOMAIN events' = 1 .. Len(events) + m
           /\ \A i \in 1 .. Len(events) : events'[i] = events[i]
           /\ \A i \in Len(events) + 1 .. Len(events) + m : events'[i] = now
           /\ \A i \in DOMAIN events' : events'[i] <= now
           /\ \A i, j \in DOMAIN events' : i <= j => events'[i] <= events'[j]
<1> DEFINE n == Len(events)
           f == [i \in 1 .. m |-> now]
<1>1. now \in Nat /\ events \in Seq(Nat) /\ n \in Nat /\ DOMAIN events = 1 .. n
  BY LenProperties DEF EventsSpaced
<1>2. f \in [1 .. m -> Nat] /\ \A i \in 1 .. m : f[i] = now
  BY <1>1
<1> HIDE DEF f
<1>3. f \in Seq(Nat) /\ Len(f) = m
  BY <1>2, LenProperties
<1>4. /\ events' \in Seq(Nat) /\ Len(events') = n + m /\ DOMAIN events' = 1 .. n + m
      /\ \A i \in 1 .. n + m : events'[i] = IF i <= n THEN events[i] ELSE f[i - n]
  BY <1>1, <1>3, ConcatProperties, LenProperties DEF f
<1> HIDE DEF n
<1>5. \A i \in 1 .. n : events'[i] = events[i] /\ i \in 1 .. n + m
  BY <1>1, <1>4
<1>6. ASSUME NEW i \in n + 1 .. n + m PROVE events'[i] = now
  <2>1. i - n \in 1 .. m /\ i \in 1 .. n + m /\ ~(i <= n)
    BY <1>1
  <2> QED
    BY <1>2, <1>4, <2>1
<1>7. \A i \in 1 .. n + m : i \in 1 .. n \/ i \in n + 1 .. n + m
  BY <1>1
<1>8. \A i \in 1 .. n : events[i] <= now /\ events[i] \in Nat
  BY <1>1, ElementOfSeq DEF EventsSpaced, n
<1>9. \A i \in 1 .. n + m : events'[i] <= now
  BY <1>1, <1>5, <1>6, <1>7, <1>8
<1>10. ASSUME NEW i \in 1 .. n + m, NEW j \in 1 .. n + m, i <= j PROVE events'[i] <= events'[j]
  <2>1. CASE j \in 1 .. n
    <3>1. i \in 1 .. n
      BY <1>1, <1>10, <2>1
    <3> QED
      BY <1>1, <1>5, <1>10, <2>1, <3>1 DEF EventsSpaced
  <2>2. CASE j \in n + 1 .. n + m
    BY <1>6, <1>9, <2>2
  <2> QED
    BY <1>7, <2>1, <2>2
<1> QED
  BY <1>1, <1>4, <1>5, <1>6, <1>9, <1>10 DEF n

(* A read that reports m events leaves them spaced: c of the last ones     *)
(* are counted, and the others are further back than the window.           *)
LEMMA ReadKeepsSpacing ==
    ASSUME EventsSpaced, NEW m \in Nat \ {0},
           events' = events \o [i \in 1 .. m |-> now], now' = now,
           lastEvent' = now, NEW c \in 1 .. MaxEventsPerPattern, eventCount' = c,
           \/ c = m /\ (lastEvent = Never \/ now - lastEvent > DedupWindow)
           \/ c = eventCount + m /\ lastEvent # Never
    PROVE  EventsSpaced'
<1> DEFINE n == Len(events)
<1>1. /\ events' \in Seq(Nat) /\ Len(events') = n + m /\ n \in Nat
      /\ DOMAIN events = 1 .. n /\ DOMAIN events' = 1 .. n + m
      /\ \A i \in 1 .. n : events'[i] = events[i]
      /\ \A i \in n + 1 .. n + m : events'[i] = now
      /\ \A i \in DOMAIN events' : events'[i] <= now
      /\ \A i, j \in DOMAIN events' : i <= j => events'[i] <= events'[j]
  BY EventsAfterRead
<1>2. /\ now \in Nat /\ eventCount \in 0 .. MaxEventsPerPattern /\ eventCount <= n
      /\ lastEvent \in Nat \cup {Never} /\ DedupWindow \in Nat \ {0} /\ MaxEventsPerPattern \in Nat \ {0}
      /\ \A i \in 1 .. n : events[i] \in Nat /\ events[i] <= now
      /\ \A i \in 1 .. n - eventCount : \A j \in n - eventCount + 1 .. n :
           events[j] - events[i] > DedupWindow
      /\ LastIsKnown /\ EventRate
      /\ \A i, j \in 1 .. n : i <= j => events[i] <= events[j]
  BY <1>1, LogPatternAssumption, ElementOfSeq DEF EventsSpaced, Grouped
<1> HIDE DEF n
<1>3. /\ n \in Nat /\ m \in Nat \ {0} /\ eventCount \in Nat /\ c \in Nat \ {0}
      /\ c >= m /\ c <= n + m /\ c <= MaxEventsPerPattern
      /\ MaxEventsPerPattern \in Nat
      /\ c = m \/ c = eventCount + m
  BY <1>1, <1>2
<1>4. ASSUME NEW i \in 1 .. n + m - c, i \in 1 .. n PROVE now - events[i] > DedupWindow
  <2>1. CASE c = m /\ lastEvent = Never
    BY <1>1, <1>2, <1>4, <2>1 DEF LastIsKnown
  <2>2. CASE c = m /\ lastEvent # Never /\ now - lastEvent > DedupWindow
    <3>1. lastEvent = events[n] /\ n \in 1 .. n
      BY <1>1, <1>2, <2>2 DEF LastIsKnown, n
    <3>2. events[i] <= events[n]
      BY <1>2, <1>4, <3>1
    <3> QED
      BY <1>2, <1>4, <2>2, <3>1, <3>2
  <2>3. CASE c = eventCount + m /\ lastEvent # Never
    <3>1. i \in 1 .. n - eventCount
      BY <1>1, <1>2, <2>3
    <3>2. n \in n - eventCount + 1 .. n /\ n \in 1 .. n
      BY <1>1, <1>2, <2>3 DEF LastIsKnown
    <3>3. events[n] - events[i] > DedupWindow
      BY <1>2, <3>1, <3>2
    <3>4. events[n] \in Nat /\ events[n] <= now /\ events[i] \in Nat /\ now \in Nat
      BY <1>2, <1>4, <3>2
    <3> QED
      BY <3>3, <3>4, LogPatternAssumption
  <2> QED
    BY <2>1, <2>2, <2>3
<1>5. ASSUME NEW i \in 1 .. n + m - c, NEW j \in n + m - c + 1 .. n + m
      PROVE  events'[j] - events'[i] > DedupWindow
  <2>0. i \in 1 .. n
    BY <1>3
  <2>1. i \in 1 .. n /\ events'[i] = events[i]
    BY <1>1, <2>0
  <2>2. CASE j \in n + 1 .. n + m
    BY <1>1, <1>4, <2>1, <2>2
  <2>3. CASE j \notin n + 1 .. n + m
    <3>1. c = eventCount + m
      BY <1>3, <2>3
    <3>2. i \in 1 .. n - eventCount /\ j \in n - eventCount + 1 .. n /\ j \in 1 .. n
      BY <1>3, <2>3, <3>1
    <3> QED
      BY <1>1, <1>2, <2>1, <3>2
  <2> QED
    BY <2>2, <2>3
<1>6. Grouped'
  <2>1. Len(events') = n + m
    BY <1>1
  <2>2. eventCount' \in 0 .. MaxEventsPerPattern /\ eventCount' <= Len(events')
    BY <1>3, <2>1
  <2>3. \A i \in 1 .. Len(events') - eventCount' :
          \A j \in Len(events') - eventCount' + 1 .. Len(events') :
            events'[j] - events'[i] > DedupWindow
    <3> DEFINE k == Len(events') - eventCount'
    <3>1. k = n + m - c
      BY <1>3, <2>1
    <3> HIDE DEF k
    <3>2. \A i \in 1 .. k : \A j \in k + 1 .. n + m : events'[j] - events'[i] > DedupWindow
      BY <1>5, <3>1
    <3> QED
      BY <2>1, <3>2 DEF k
  <2> QED
    BY <2>2, <2>3 DEF Grouped
<1>7. ASSUME NEW i \in 1 .. n + m, i + MaxEventsPerPattern \in 1 .. n + m
      PROVE  events'[i + MaxEventsPerPattern] - events'[i] > DedupWindow
  <2>1. CASE i + MaxEventsPerPattern <= n
    <3>1. i \in 1 .. n /\ i + MaxEventsPerPattern \in 1 .. n
      BY <1>1, <1>2, <2>1
    <3> QED
      BY <1>1, <1>2, <3>1 DEF EventRate
  <2>2. CASE ~(i + MaxEventsPerPattern <= n)
    <3>1. i \in 1 .. n + m - c
      BY <1>3, <1>7
    <3>2. i + MaxEventsPerPattern \in n + 1 .. n + m
      BY <1>3, <1>7, <2>2
    <3>3. events'[i + MaxEventsPerPattern] = now
      BY <1>1, <3>2
    <3>4. i \in 1 .. n
      BY <1>3, <3>1
    <3> QED
      BY <1>1, <1>4, <3>1, <3>3, <3>4
  <2> QED
    BY <2>1, <2>2
<1>8. EventRate'
  BY <1>1, <1>7 DEF EventRate
<1>9. LastIsKnown'
  <2>1. lastEvent' # Never /\ eventCount' > 0
    BY <1>2 DEF Never
  <2>2. events'[n + m] = now
    BY <1>1
  <2> QED
    BY <1>1, <2>1, <2>2 DEF LastIsKnown
<1> QED
  BY <1>1, <1>2, <1>6, <1>8, <1>9 DEF EventsSpaced

(* What is read is lines. *)
ReadsLines == log \in Seq(Nat) /\ reading.size \in Nat /\ reading.lines \in Seq(Int)

(* Time, the cleanup and the reads keep the events spaced. *)
LEMMA EventsSpacedStep ==
    ASSUME EventsSpaced, ReadsLines, [LogPatternNext]_logVars
    PROVE  EventsSpaced' /\ ReadsLines'
<1>1. ASSUME UNCHANGED <<trackVars, events, now>> PROVE EventsSpaced'
  BY <1>1 DEF trackVars, EventsSpaced, Grouped, LastIsKnown, EventRate
<1>2. log \in Seq(Nat) /\ Len(log) \in Nat /\ now \in Nat /\ DOMAIN log = 1 .. Len(log)
  BY LenProperties DEF ReadsLines, EventsSpaced
<1>3. CASE LogLine
  <2>1. EventsSpaced'
    BY <1>1, <1>3 DEF LogLine
  <2> QED
    BY <1>2, <1>3, <2>1, AppendProperties DEF LogLine, ReadsLines
<1>4. CASE Tick
  <2>1. now' = now + 1 /\ UNCHANGED <<lastEvent, eventCount, events, log, reading>>
    BY <1>4 DEF Tick, trackVars
  <2>2. \A i \in DOMAIN events : events[i] \in Nat
    BY LenProperties DEF EventsSpaced
  <2>3. \A i \in DOMAIN events : events[i] <= now'
    BY <1>2, <2>1, <2>2 DEF EventsSpaced
  <2>4. LastIsKnown'
    <3>1. CASE lastEvent = Never
      <4>1. eventCount = 0 /\ \A i \in DOMAIN events : now - events[i] > DedupWindow
        BY <3>1 DEF EventsSpaced, LastIsKnown
      <4>2. \A i \in DOMAIN events : now' - events[i] > DedupWindow
        BY <1>2, <2>1, <2>2, <4>1, LogPatternAssumption
      <4> QED
        BY <2>1, <3>1, <4>1, <4>2 DEF LastIsKnown
    <3>2. CASE lastEvent # Never
      BY <2>1, <3>2 DEF EventsSpaced, LastIsKnown
    <3> QED
      BY <3>1, <3>2
  <2> QED
    BY <1>2, <2>1, <2>3, <2>4 DEF EventsSpaced, Grouped, EventRate, ReadsLines
<1>5. CASE BeginCheck
  <2>1. UNCHANGED <<log, now, events>> /\ reading'.size = Len(log)
        /\ (reading'.lines = <<>> \/ reading'.lines = JournalLines(lastCheck'))
    BY <1>5 DEF BeginCheck
  <2>2. JournalLines(lastCheck') \in Seq(Int)
    <3> DEFINE recent == {i \in DOMAIN log : log[i] >= lastCheck' - 1}
               start == IF lastCheck' = Never THEN Later(1, Len(log) - LastLines + 1)
                        ELSE Len(log) - Cardinality(recent) + 1
    <3>1. IsFiniteSet(recent)
      <4>1. IsFiniteSet(DOMAIN log)
        BY <1>2, FS_Interval
      <4> QED
        BY <4>1, FS_Subset
    <3>2. Cardinality(recent) \in Nat
      <4> HIDE DEF recent
      <4> QED BY <3>1, FS_CardinalityType
    <3>3. start \in Int
      <4> HIDE DEF recent
      <4> QED BY <1>2, <3>2, LogPatternAssumption DEF Later
    <3>4. JournalLines(lastCheck') = LinesAt(start, Len(log))
      BY DEF JournalLines
    <3> HIDE DEF start
    <3> QED
      BY <1>2, <3>3, <3>4, LinesAreASeq
  <2>3. ReadsLines'
    BY <1>2, <2>1, <2>2, EmptySeq DEF ReadsLines
  <2>4. CASE UNCHANGED trackVars
    BY <1>1, <2>1, <2>3, <2>4
  <2>5. CASE Expired(lastEvent) /\ lastEvent' = Never /\ eventCount' = 0
    <3> DEFINE n == Len(events)
    <3>1. /\ lastEvent \in Nat /\ lastEvent # Never /\ lastEvent < now - 2 * DedupWindow
          /\ events \in Seq(Nat) /\ n \in Nat /\ DOMAIN events = 1 .. n
      BY <2>5, LenProperties DEF Expired, EventsSpaced, Never
    <3>2. lastEvent = events[n] /\ n \in 1 .. n
      BY <3>1 DEF EventsSpaced, LastIsKnown, Grouped
    <3> HIDE DEF n
    <3>3. \A i \in 1 .. n : events[i] \in Nat /\ events[i] <= events[n]
      BY <3>1, <3>2, ElementOfSeq DEF EventsSpaced, n
    <3>4. \A i \in 1 .. n : now - events[i] > DedupWindow
      BY <1>2, <3>1, <3>2, <3>3, LogPatternAssumption
    <3>5. LastIsKnown'
      BY <2>1, <2>5, <3>1, <3>4 DEF LastIsKnown
    <3>6. Grouped'
      BY <2>1, <2>5, <3>1, LogPatternAssumption DEF Grouped, n
    <3> QED
      BY <2>1, <2>3, <2>5, <3>5, <3>6 DEF EventsSpaced, EventRate
  <2> QED
    BY <1>5, <2>4, <2>5 DEF BeginCheck, CleanupExpiredEntries, trackVars
<1>6. CASE EndCheck
  <2> DEFINE lines == IF source = "kmsg" THEN LinesAt(reading.size + 1, Len(log)) ELSE reading.lines
             r == MatchPatterns(lines)
  <2>1. /\ UNCHANGED <<log, now>> /\ reading' = Idle
        /\ lastEvent' = r.last /\ eventCount' = r.count
        /\ events' = events \o [i \in 1 .. r.reported |-> now]
    BY <1>6 DEF EndCheck
  <2>2. lines \in Seq(Int)
    <3>1. LinesAt(reading.size + 1, Len(log)) \in Seq(Int)
      <4>1. reading.size + 1 \in Int /\ Len(log) \in Int
        BY <1>2 DEF ReadsLines
      <4> QED
        BY <4>1, LinesAreASeq
    <3> QED
      BY <3>1 DEF ReadsLines
  <2> HIDE DEF lines
  <2>3. \/ r = [last |-> lastEvent, count |-> eventCount, reported |-> 0]
        \/ /\ r.last = now /\ r.count \in 1 .. MaxEventsPerPattern /\ r.reported \in Nat \ {0}
           /\ \/ r.count = r.reported /\ (lastEvent = Never \/ now - lastEvent > DedupWindow)
              \/ r.count = eventCount + r.reported /\ lastEvent # Never
    BY <2>2, MatchesCounted
  <2> HIDE DEF r
  <2>4. ReadsLines'
    BY <1>2, <2>1, EmptySeq DEF ReadsLines, Idle
  <2>5. CASE r = [last |-> lastEvent, count |-> eventCount, reported |-> 0]
    <3>1. r.last = lastEvent /\ r.count = eventCount /\ r.reported = 0
      BY <2>5
    <3>2. [i \in 1 .. 0 |-> now] = <<>>
      OBVIOUS
    <3>3. events' = events
      BY <2>1, <3>1, <3>2, ConcatEmptySeq DEF EventsSpaced
    <3> QED
      BY <1>1, <2>1, <2>4, <3>1, <3>3 DEF trackVars
  <2>6. CASE r.reported \in Nat \ {0}
    <3> DEFINE m == r.reported
               c == r.count
    <3>1. /\ lastEvent' = now /\ now' = now /\ c \in 1 .. MaxEventsPerPattern /\ eventCount' = c
          /\ events' = events \o [i \in 1 .. m |-> now]
          /\ \/ c = m /\ (lastEvent = Never \/ now - lastEvent > DedupWindow)
             \/ c = eventCount + m /\ lastEvent # Never
      BY <2>1, <2>3, <2>6
    <3>2. m \in Nat \ {0}
      BY <2>6
    <3> HIDE DEF m, c
    <3>3. EventsSpaced'
      BY <3>1, <3>2, ReadKeepsSpacing
    <3> QED
      BY <2>4, <3>3
  <2> QED
    BY <2>3, <2>5, <2>6
<1>7. CASE FailCheck
  <2>1. EventsSpaced'
    BY <1>1, <1>7 DEF FailCheck
  <2> QED
    BY <1>2, <1>7, <2>1, EmptySeq DEF FailCheck, ReadsLines, Idle
<1>8. CASE UNCHANGED logVars
  <2>1. EventsSpaced'
    BY <1>1, <1>8 DEF logVars
  <2> QED
    BY <1>8, <2>1 DEF logVars, ReadsLines
<1> QED
  BY <1>3, <1>4, <1>5, <1>6, <1>7, <1>8 DEF LogPatternNext

(* No stretch of time as long as the window has more events of a pattern   *)
(* than maxEventsPerPattern, whenever checks run, however many lines they  *)
(* read, for every rate and window (shouldReportEvent,                     *)
(* cleanupExpiredEntries).                                                 *)
THEOREM EventsAreLimited == LogPatternSpec => []EventRate
<1>1. LogPatternInit => EventsSpaced /\ ReadsLines
  <2> SUFFICES ASSUME LogPatternInit
               PROVE  EventsSpaced /\ ReadsLines
    OBVIOUS
  <2>0. events = <<>>
    BY DEF LogPatternInit
  <2>1. events = <<>> /\ Len(events) = 0 /\ DOMAIN events = {} /\ events \in Seq(Nat)
    BY <2>0, EmptySeq
  <2>2. lastEvent = Never /\ eventCount = 0 /\ now = 0
    BY DEF LogPatternInit
  <2>3. Grouped /\ LastIsKnown /\ EventRate
    BY <2>1, <2>2, LogPatternAssumption DEF Grouped, LastIsKnown, EventRate
  <2>4. ReadsLines
    BY EmptySeq DEF LogPatternInit, ReadsLines, Idle
  <2> QED
    BY <2>1, <2>2, <2>3, <2>4 DEF EventsSpaced
<1>2. EventsSpaced => EventRate
  BY DEF EventsSpaced
<1> QED
  BY <1>1, <1>2, EventsSpacedStep, PTL DEF LogPatternSpec
=============================================================================
