---------------------------- MODULE MonitorOrder ----------------------------
(***************************************************************************)
(* The two algorithms that decide in which order monitors start: the       *)
(* depth-first cycle check of configuration validation                     *)
(* (detectCircularDependencies in pkg/types/config.go and                  *)
(* validateMonitorDependencies in pkg/reload/validator.go) and Kahn's      *)
(* topological sort (topologicalSortMonitors in pkg/detector/detector.go). *)
(*                                                                         *)
(* They run one after the other: a configuration is validated, and then    *)
(* its monitors are sorted, all of them at startup, and the newly added    *)
(* ones, in the order of a Go map, on a reload.  dependsOn lists may name  *)
(* a monitor twice, the monitor itself, or one that does not exist.        *)
(***************************************************************************)
EXTENDS Filtering

CONSTANTS
    Names,     \* names of the configured monitors
    Unknown,   \* a name no monitor has
    DepLists,  \* the dependsOn lists a monitor may have
    Lists      \* the lists of monitors that may be sorted

ASSUME OrderAssumption ==
    /\ IsFiniteSet(Names) /\ Unknown \notin Names
    /\ DepLists \subseteq Seq(Names \cup {Unknown})
    /\ Lists \subseteq Seq(Names)
    /\ \A l \in Lists : \A i, j \in DOMAIN l : l[i] = l[j] => i = j

VARIABLES
    dependsOn,  \* per monitor: its DependsOn
    pc,         \* "names", "dfs", "valid", "rejected", "sort", "sorted", "cycle"
    color,      \* state: 0 unvisited, 1 on the path, 2 done
    stack,      \* the calls of dfs: monitor, and the next dependency to visit
    list,       \* the monitors to sort
    inDegree,   \* per monitor of list: dependencies in list not yet sorted
    queue,      \* monitors whose dependencies are sorted
    sorted      \* the result so far

check == <<color, stack>>
sort == <<list, inDegree, queue, sorted>>
orderVars == <<dependsOn, pc, check, sort>>

Elems(s) == {s[i] : i \in DOMAIN s}

OrderTypeOK ==
    /\ dependsOn \in [Names -> DepLists]
    /\ pc \in {"names", "dfs", "valid", "rejected", "sort", "sorted", "cycle"}
    /\ color \in [Names -> 0 .. 2]
    /\ stack \in Seq([name : Names, next : Nat \ {0}])
    /\ list \in Lists \cup {<<>>}
    /\ inDegree \in [Elems(list) -> Nat]
    /\ queue \in Seq(Elems(list)) /\ sorted \in Seq(Elems(list))

OrderInit ==
    /\ dependsOn \in [Names -> DepLists]
    /\ pc = "names"
    /\ color = [m \in Names |-> 0] /\ stack = <<>>
    /\ list = <<>> /\ inDegree = <<>> /\ queue = <<>> /\ sorted = <<>>

----------------------------------------------------------------------------
(* Every dependency must exist. *)
CheckNames ==
    /\ pc = "names"
    /\ pc' = IF \A m \in Names : Elems(dependsOn[m]) \subseteq Names THEN "dfs" ELSE "rejected"
    /\ UNCHANGED <<dependsOn, check, sort>>

Top == stack[Len(stack)]
Pop == SubSeq(stack, 1, Len(stack) - 1)
Visited(s) == [s EXCEPT ![Len(s)].next = @ + 1]

(* The outer loop calls dfs on a monitor not seen yet. *)
VisitRoot(m) ==
    /\ pc = "dfs" /\ stack = <<>>
    /\ color[m] = 0
    /\ color' = [color EXCEPT ![m] = 1]
    /\ stack' = <<[name |-> m, next |-> 1]>>
    /\ UNCHANGED <<dependsOn, pc, sort>>

MutGrayIsDone ==
    /\ pc = "dfs" /\ stack # <<>>
    /\ Top.next <= Len(dependsOn[Top.name])
    /\ LET dep == dependsOn[Top.name][Top.next]
       IN  /\ color' = [color EXCEPT ![dep] = IF @ = 0 THEN 1 ELSE @]
           /\ stack' = IF color[dep] = 0
                       THEN Append(Visited(stack), [name |-> dep, next |-> 1])
                       ELSE Visited(stack)
    /\ UNCHANGED <<dependsOn, pc, sort>>

(* dfs looks at the next dependency: done, on the path (a cycle), or new. *)
VisitDependency ==
    /\ pc = "dfs" /\ stack # <<>>
    /\ Top.next <= Len(dependsOn[Top.name])
    /\ LET dep == dependsOn[Top.name][Top.next]
       IN  \/ color[dep] = 2 /\ stack' = Visited(stack) /\ UNCHANGED <<pc, color>>
           \/ color[dep] = 1 /\ pc' = "rejected" /\ UNCHANGED check
           \/ /\ color[dep] = 0
              /\ color' = [color EXCEPT ![dep] = 1]
              /\ stack' = Append(Visited(stack), [name |-> dep, next |-> 1])
              /\ UNCHANGED pc
    /\ UNCHANGED <<dependsOn, sort>>

(* dfs returns. *)
LeaveMonitor ==
    /\ pc = "dfs" /\ stack # <<>>
    /\ Top.next > Len(dependsOn[Top.name])
    /\ color' = [color EXCEPT ![Top.name] = 2]
    /\ stack' = Pop
    /\ UNCHANGED <<dependsOn, pc, sort>>

Accept ==
    /\ pc = "dfs" /\ stack = <<>>
    /\ \A m \in Names : color[m] # 0
    /\ pc' = "valid"
    /\ UNCHANGED <<dependsOn, check, sort>>

----------------------------------------------------------------------------
(* How often list ds names d: one edge of the graph for each.              *)
Occurrences(ds, d) == HowMany(ds, {d})

(* Dependencies outside the list are skipped: they run already. *)
InDegree(l, m) == HowMany(dependsOn[m], Elems(l))

(* topologicalSortMonitors up to its loop. *)
BeginSort(l) ==
    /\ pc = "valid"
    /\ list' = l /\ sorted' = <<>>
    /\ inDegree' = [m \in Elems(l) |-> InDegree(l, m)]
    /\ queue' = Keep(l, {m \in Elems(l) : inDegree'[m] = 0})
    /\ pc' = "sort"
    /\ UNCHANGED <<dependsOn, check>>

MutQueuesEarly ==
    /\ pc = "sort" /\ queue # <<>>
    /\ LET cur == Head(queue)
           left == [m \in Elems(list) |-> inDegree[m] - Occurrences(dependsOn[m], cur)]
       IN  /\ sorted' = Append(sorted, cur)
           /\ inDegree' = left
           /\ queue' = Tail(queue) \o
                       Keep(list, {m \in Elems(list) : cur \in Elems(dependsOn[m]) /\ left[m] <= 1})
    /\ UNCHANGED <<dependsOn, pc, check, list>>

(* One turn of the loop: the first in the queue is next; whoever has no    *)
(* dependency left joins the queue, in the order of the list.              *)
SortNext ==
    /\ pc = "sort" /\ queue # <<>>
    /\ LET cur == Head(queue)
           left == [m \in Elems(list) |-> inDegree[m] - Occurrences(dependsOn[m], cur)]
       IN  /\ sorted' = Append(sorted, cur)
           /\ inDegree' = left
           /\ queue' = Tail(queue) \o
                       Keep(list, {m \in Elems(list) : left[m] = 0 /\ inDegree[m] > 0})
    /\ UNCHANGED <<dependsOn, pc, check, list>>

SortEnds ==
    /\ pc = "sort" /\ queue = <<>>
    /\ pc' = IF Len(sorted) = Len(list) THEN "sorted" ELSE "cycle"
    /\ UNCHANGED <<dependsOn, check, sort>>

(* A configuration that was accepted may be sorted again, whole or in part.*)
Again ==
    /\ pc \in {"sorted", "cycle"}
    /\ pc' = "valid"
    /\ UNCHANGED <<dependsOn, check, sort>>

OrderNext ==
    \/ CheckNames \/ (\E m \in Names : VisitRoot(m)) \/ VisitDependency \/ LeaveMonitor \/ Accept
    \/ (\E l \in Lists : BeginSort(l)) \/ SortNext \/ SortEnds \/ Again

OrderSpec == OrderInit /\ [][OrderNext]_orderVars

----------------------------------------------------------------------------
(* A set of monitors each of which depends on one of the set: such a set   *)
(* exists exactly when the dependencies have a cycle.                      *)
Knot(s) == s # {} /\ \A m \in s : Elems(dependsOn[m]) \cap s # {}
Cyclic == \E s \in SUBSET Names : Knot(s)

(* Validation accepts exactly the configurations whose dependencies exist  *)
(* and have no cycle, in whatever order the roots are visited              *)
(* (detectCircularDependencies and validateMonitorDependencies).           *)
CheckExact ==
    /\ pc = "rejected" => Cyclic \/ \E m \in Names : Unknown \in Elems(dependsOn[m])
    /\ pc \in {"valid", "sort", "sorted"} =>
         ~Cyclic /\ \A m \in Names : Unknown \notin Elems(dependsOn[m])

(* Why the search is exact.  The monitors on the path are those of the     *)
(* stack, each once; each depends on the next one, and those it named      *)
(* before are done.  A monitor that is done depends on such ones only, and *)
(* no knot is made of them.                                                *)
Frame == [name : Names, next : Nat \ {0}]
NamesKnown == \A m \in Names : Elems(dependsOn[m]) \subseteq Names
PathIsGray ==
    /\ \A i \in DOMAIN stack : color[stack[i].name] = 1
    /\ \A m \in Names : color[m] = 1 => \E i \in DOMAIN stack : stack[i].name = m
    /\ \A i, j \in DOMAIN stack : stack[i].name = stack[j].name => i = j
FrameLinked(i) ==
    /\ stack[i].next <= Len(dependsOn[stack[i].name]) + 1
    /\ i < Len(stack) => /\ stack[i].next > 1
                         /\ dependsOn[stack[i].name][stack[i].next - 1] = stack[i + 1].name
    /\ \A k \in 1 .. stack[i].next - 1 :
         color[dependsOn[stack[i].name][k]] = 2 \/ (i < Len(stack) /\ k = stack[i].next - 1)
PathIsLinked == \A i \in DOMAIN stack : FrameLinked(i)
DoneIsClosed == \A m \in Names : color[m] = 2 => \A d \in Elems(dependsOn[m]) : color[d] = 2
DoneIsAcyclic == \A s \in SUBSET Names : (\A m \in s : color[m] = 2) => ~Knot(s)
Searching == PathIsGray /\ PathIsLinked /\ DoneIsClosed /\ DoneIsAcyclic
CheckSound ==
    /\ dependsOn \in [Names -> DepLists]
    /\ color \in [Names -> 0 .. 2] /\ stack \in Seq(Frame)
    /\ pc \in {"names", "dfs", "valid", "rejected", "sort", "sorted", "cycle"}
    /\ pc \in {"names", "dfs"} => Searching
    /\ pc = "dfs" => NamesKnown
    /\ pc \in {"valid", "sort", "sorted", "cycle"} => NamesKnown /\ ~Cyclic
    /\ pc = "rejected" => Cyclic \/ \E m \in Names : Unknown \in Elems(dependsOn[m])

(* No accepted configuration makes the sort fail, whatever part of it is   *)
(* sorted: Start does not give up after validation passed, and a reload    *)
(* does not skip its added monitors.  No monitor is started twice, or      *)
(* before one of the same list it depends on (topologicalSortMonitors).    *)
DependenciesFirst ==
    /\ pc # "cycle"
    /\ \A i \in DOMAIN sorted :
         /\ \A j \in DOMAIN sorted : sorted[i] = sorted[j] => i = j
         /\ Elems(dependsOn[sorted[i]]) \cap Elems(list) \subseteq {sorted[j] : j \in 1 .. i - 1}

(* Why the sort is right.  A monitor's in-degree counts its dependencies   *)
(* of the list that are not sorted yet; it is zero for those of the queue  *)
(* and of the result, which have no monitor twice and none in common.      *)
Unsorted(m) == {i \in DOMAIN dependsOn[m] : dependsOn[m][i] \in Elems(list) \ Elems(sorted)}
NoRepeat(s) == \A i, j \in DOMAIN s : s[i] = s[j] => i = j
DegreesCount == \A m \in Elems(list) : inDegree[m] = Cardinality(Unsorted(m))
ReadyIsQueued == {m \in Elems(list) : inDegree[m] = 0} = Elems(queue) \cup Elems(sorted)
SortedOnce ==
    /\ NoRepeat(list) /\ NoRepeat(queue) /\ NoRepeat(sorted)
    /\ Elems(queue) \cap Elems(sorted) = {}
SortedInOrder ==
    \A i \in DOMAIN sorted :
      Elems(dependsOn[sorted[i]]) \cap Elems(list) \subseteq {sorted[j] : j \in 1 .. i - 1}
SortSound ==
    /\ list \in Lists \cup {<<>>} /\ inDegree \in [Elems(list) -> Nat]
    /\ queue \in Seq(Elems(list)) /\ sorted \in Seq(Elems(list))
    /\ DegreesCount /\ ReadyIsQueued /\ SortedOnce /\ SortedInOrder
    /\ pc # "cycle"
=============================================================================
