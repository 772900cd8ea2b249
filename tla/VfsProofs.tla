------------------------------ MODULE VfsProofs ------------------------------
(***************************************************************************)
(* Theorems about Vfs, for every number of tasks, files and handles and    *)
(* every step by which a table grows: an open handle stays where it is,    *)
(* the counts of a node are those of the handles and calls that hold it,   *)
(* and a node open for writing is open once.                               *)
(***************************************************************************)
EXTENDS Vfs, WellFoundedInduction, FiniteSetTheorems, TLAPS

Slot == Handle \cup {Null}

Calls == [pc : {"user", "open", "exec", "load", "read", "tree", "mount"},
          node : Node \cup {Null}, name : Names \cup {Null},
          mode : SUBSET {"r", "w"}, at : 0..Len(Files)]

(* The part of TypeOK that the tables depend on.                            *)
TablesTyped ==
    /\ handles \in [Task -> Seq(Slot)]
    /\ call \in [Task -> Calls]

LEMMA InUserType == InUser \in Calls
BY VfsAssumption DEF InUser, Calls

-----------------------------------------------------------------------------
(* A set of naturals that is not empty has a least element.                 *)
LEMMA Least ==
    ASSUME NEW S \in SUBSET Nat, S # {}
    PROVE  \E i \in S : \A j \in S : i <= j
<1> DEFINE less == {ss \in Nat \X Nat : ss[1] < ss[2]}
<1>1. IsWellFoundedOn(less, Nat)
  BY NatLessThanWellFounded DEF OpToRel
<1>2. \E i \in S : \A j \in S : <<j, i>> \notin less
  <2> HIDE DEF less
  <2> QED
    BY <1>1, WFMin
<1>3. PICK i \in S : \A j \in S : <<j, i>> \notin less
  BY <1>2
<1>4. \A j \in S : ~ (j < i)
  BY <1>3
<1> QED
  BY <1>4

(* task_add_handle keeps what is in the table.                              *)
LEMMA TableKeeps ==
    ASSUME NEW table \in Seq(Slot), NEW h \in Handle
    PROVE  /\ TaskAddHandle(table, h) \in Seq(Slot)
           /\ \A i \in DOMAIN table :
                table[i] # Null => /\ i \in DOMAIN TaskAddHandle(table, h)
                                   /\ TaskAddHandle(table, h)[i] = table[i]
<1> DEFINE free == {i \in DOMAIN table : table[i] = Null}
           first == CHOOSE i \in free : \A j \in free : i <= j
           more == [i \in 1..TableStep |-> IF i = 1 THEN h ELSE Null]
<1>1. CASE free # {}
  <2>1. free \in SUBSET Nat
    OBVIOUS
  <2>2. \E i \in free : \A j \in free : i <= j
    BY <1>1, <2>1, Least
  <2>3. first \in DOMAIN table /\ table[first] = Null
    BY <2>2
  <2>4. TaskAddHandle(table, h) = [table EXCEPT ![first] = h]
    BY <1>1 DEF TaskAddHandle
  <2> HIDE DEF first
  <2>5. [table EXCEPT ![first] = h] \in Seq(Slot)
    BY <2>3 DEF Slot
  <2> QED
    BY <2>3, <2>4, <2>5
<1>2. CASE free = {}
  <2>1. TaskAddHandle(table, h) = table \o more
    BY <1>2 DEF TaskAddHandle
  <2>2. TableStep \in Nat
    BY VfsAssumption
  <2>3. more \in Seq(Slot)
    BY <2>2 DEF Slot
  <2> HIDE DEF more
  <2> QED
    BY <2>1, <2>3
<1> QED
  BY <1>1, <1>2

-----------------------------------------------------------------------------
(* What file_open and its callers leave of the tables.                      *)

(* t's table keeps every handle.                                            *)
Kept(t) == \A i \in DOMAIN handles[t] :
              handles[t][i] # Null => /\ i \in DOMAIN handles'[t]
                                      /\ handles'[t][i] = handles[t][i]

LEMMA OpenFileKeeps ==
    ASSUME TablesTyped, NEW t \in Task, NEW n \in Node \cup {Null},
           NEW mode \in SUBSET {"r", "w"}, NEW count, OpenFile(t, n, mode, count)
    PROVE  TablesTyped' /\ \A u \in Task : Kept(u)
<1>1. call' \in [Task -> Calls]
  BY InUserType DEF OpenFile, Return, TablesTyped
<1>2. CASE handles' = handles
  BY <1>1, <1>2 DEF TablesTyped, Kept
<1>3. CASE handles' # handles
  <2> DEFINE h == [node |-> n, mode |-> mode]
  <2>1. handles' = [handles EXCEPT ![t] = TaskAddHandle(handles[t], h)]
    BY <1>3 DEF OpenFile, TablesTyped
  <2>2. n \in Node
    BY <1>3 DEF OpenFile
  <2>3. h \in Handle /\ handles[t] \in Seq(Slot)
    BY <2>2 DEF Handle, TablesTyped
  <2> HIDE DEF h
  <2>4. /\ TaskAddHandle(handles[t], h) \in Seq(Slot)
        /\ \A i \in DOMAIN handles[t] :
             handles[t][i] # Null =>
                /\ i \in DOMAIN TaskAddHandle(handles[t], h)
                /\ TaskAddHandle(handles[t], h)[i] = handles[t][i]
    BY <2>3, TableKeeps
  <2>5. handles' \in [Task -> Seq(Slot)]
    BY <2>1, <2>4 DEF TablesTyped
  <2>6. handles'[t] = TaskAddHandle(handles[t], h)
    BY <2>1 DEF TablesTyped
  <2>7. \A u \in Task \ {t} : handles'[u] = handles[u]
    BY <2>1 DEF TablesTyped
  <2>8. ASSUME NEW u \in Task PROVE Kept(u)
    BY <2>4, <2>6, <2>7 DEF Kept
  <2> QED
    BY <1>1, <2>5, <2>8 DEF TablesTyped
<1> QED
  BY <1>2, <1>3

LEMMA ExecFileKeeps ==
    ASSUME TablesTyped, NEW t \in Task, NEW n \in Node \cup {Null}, NEW count,
           ExecFile(t, n, count)
    PROVE  TablesTyped' /\ \A u \in Task : Kept(u)
<1>1. UNCHANGED handles
  BY DEF ExecFile
<1> DEFINE load == [InUser EXCEPT !.pc = "load", !.node = n]
<1>2. load \in Calls
  BY InUserType DEF Calls
<1>3. \/ UNCHANGED call
      \/ call' = [call EXCEPT ![t] = InUser]
      \/ call' = [call EXCEPT ![t] = load]
  BY DEF ExecFile, Return
<1> HIDE DEF load
<1>4. call' \in [Task -> Calls]
  BY <1>2, <1>3, InUserType DEF TablesTyped
<1> QED
  BY <1>1, <1>4 DEF TablesTyped, Kept

-----------------------------------------------------------------------------
(* Every step keeps the types, and the handles but for the one it closes or *)
(* those of the task it ends.                                               *)

Closed(t, i) == SysClose(t, i) \/ TaskExit(t)

LEMMA UseKeeps ==
    ASSUME TablesTyped, NEW t \in Task, NEW n \in Node, NEW op,
           NEW mode \in SUBSET {"r", "w"}, Use(t, op, n, mode)
    PROVE  TablesTyped' /\ \A u \in Task : Kept(u)
BY OpenFileKeeps, ExecFileKeeps DEF Use

LEMMA FindReturnKeeps ==
    ASSUME TablesTyped, NEW t \in Task, NEW n \in FatNodes \cup {Null},
           FindReturn(t, n)
    PROVE  TablesTyped' /\ \A u \in Task : Kept(u)
<1>1. n \in Node \cup {Null}
  BY DEF Node
<1>2. call[t].mode \in SUBSET {"r", "w"}
  BY DEF TablesTyped, Calls
<1>3. CASE UNCHANGED <<handles, call>>
  BY <1>3 DEF TablesTyped, Kept
<1>4. CASE OpenFile(t, n, call[t].mode, Less(readers, "fat"))
  BY <1>1, <1>2, <1>4, OpenFileKeeps
<1>5. CASE ExecFile(t, n, Less(readers, "fat"))
  BY <1>1, <1>5, ExecFileKeeps
<1> QED
  BY <1>3, <1>4, <1>5 DEF FindReturn

LEMMA SleepKeeps ==
    ASSUME TablesTyped, NEW t \in Task, NEW c \in Calls, UNCHANGED handles,
           \/ UNCHANGED call
           \/ call' = [call EXCEPT ![t] = c]
    PROVE  TablesTyped' /\ \A u \in Task : Kept(u)
BY DEF TablesTyped, Kept

LEMMA StepKeeps ==
    ASSUME TablesTyped, [Next]_vars
    PROVE  /\ TablesTyped'
           /\ \A u \in Task : \A i \in DOMAIN handles[u] :
                \/ handles[u][i] = Null
                \/ Closed(u, i)
                \/ i \in DOMAIN handles'[u] /\ handles'[u][i] = handles[u][i]
<1> DEFINE Goal == TablesTyped' /\ \A u \in Task : Kept(u)
<1>0. Goal => /\ TablesTyped'
              /\ \A u \in Task : \A i \in DOMAIN handles[u] :
                    \/ handles[u][i] = Null
                    \/ Closed(u, i)
                    \/ i \in DOMAIN handles'[u] /\ handles'[u][i] = handles[u][i]
  BY DEF Kept
<1>1. CASE UNCHANGED vars
  <2>1. Goal
    BY <1>1 DEF vars, TablesTyped, Kept
  <2> QED
    BY <1>0, <2>1
<1>2. ASSUME NEW t \in Task, TaskStep(t)
      PROVE  \/ Goal
             \/ \E i \in DOMAIN handles[t] : SysClose(t, i)
             \/ TaskExit(t)
  <2>1. CASE \E n \in Node, mode \in Modes : SysPath(t, "open", n, mode)
    BY <2>1, UseKeeps, VfsAssumption DEF SysPath
  <2>2. CASE \E n \in Node : SysPath(t, "exec", n, {"r"})
    BY <2>2, UseKeeps DEF SysPath
  <2>3. ASSUME NEW op \in {"open", "exec"}, NEW x \in Names,
               NEW mode \in SUBSET {"r", "w"}, BeginFind(t, op, x, mode)
        PROVE  Goal
    <3> DEFINE c == [InUser EXCEPT !.pc = op, !.node = "fat", !.name = x,
                                   !.mode = mode]
    <3>1. c \in Calls
      BY InUserType DEF Calls, Node, Dirs
    <3>2. UNCHANGED handles /\ call' = [call EXCEPT ![t] = c]
      BY <2>3 DEF BeginFind
    <3> HIDE DEF c
    <3> QED
      BY <3>1, <3>2, SleepKeeps
  <2>4. CASE \E n \in FatNodes \cup {Null} : FindReturn(t, n)
    BY <2>4, FindReturnKeeps
  <2>5. CASE LoadEnd(t) \/ ReadEnd(t) \/ Redirect(t) \/ TreeEnd(t)
    BY <2>5, InUserType, SleepKeeps
       DEF LoadEnd, ReadEnd, Redirect, TreeEnd, Return, nodes
  <2>6. ASSUME NEW i \in DOMAIN handles[t], SysRead(t, i)
        PROVE  Goal
    <3> DEFINE n == handles[t][i].node
               c == [InUser EXCEPT !.pc = "read", !.node = n]
    <3>1. n \in Node
      BY <2>6 DEF SysRead, Node
    <3> HIDE DEF n
    <3>2. c \in Calls
      BY <3>1, InUserType DEF Calls
    <3>3. UNCHANGED handles /\ call' = [call EXCEPT ![t] = c]
      BY <2>6 DEF SysRead, n
    <3> HIDE DEF c
    <3> QED
      BY <3>2, <3>3, SleepKeeps
  <2>7. CASE SysMount(t) \/ BeginTree(t)
    <3> DEFINE At(pc) == [InUser EXCEPT !.pc = pc]
    <3>1. At("mount") \in Calls /\ At("tree") \in Calls
      BY InUserType DEF Calls
    <3>2. /\ UNCHANGED handles
          /\ \/ call' = [call EXCEPT ![t] = At("mount")]
             \/ call' = [call EXCEPT ![t] = At("tree")]
      BY <2>7 DEF SysMount, BeginTree
    <3> HIDE DEF At
    <3> QED
      BY <3>1, <3>2, SleepKeeps
  <2>8. CASE (\E c \in Task : SysFork(t, c)) \/ Tree(t)
    BY <2>8, InUserType, SleepKeeps DEF SysFork, Tree
  <2>9. ASSUME NEW i \in DOMAIN Files, NEW at \in DOMAIN Files,
               NEW n \in FatNodes, TreeEntry(t, i, at, n)
        PROVE  Goal
    <3> DEFINE c == [call[t] EXCEPT !.at = at]
    <3>1. at \in 0..Len(Files)
      BY VfsAssumption
    <3>2. c \in Calls
      BY <3>1 DEF Calls, TablesTyped
    <3>3. UNCHANGED handles /\ call' = [call EXCEPT ![t] = c]
      BY <2>9 DEF TreeEntry, TablesTyped
    <3> HIDE DEF c
    <3> QED
      BY <3>2, <3>3, SleepKeeps
  <2> HIDE DEF Goal
  <2>10. CASE \E x \in Names, mode \in Modes : BeginFind(t, "open", x, mode)
    BY <2>3, <2>10, VfsAssumption
  <2>11. CASE \E x \in Names : BeginFind(t, "exec", x, {"r"})
    <3>1. {"r"} \in SUBSET {"r", "w"}
      OBVIOUS
    <3> QED
      BY <2>3, <2>11, <3>1
  <2>12. CASE \E i \in DOMAIN handles[t] : SysRead(t, i)
    BY <2>6, <2>12
  <2>13. CASE \E i, at \in DOMAIN Files, n \in FatNodes : TreeEntry(t, i, at, n)
    BY <2>9, <2>13
  <2> QED
    BY <1>2, <2>1, <2>2, <2>4, <2>5, <2>7, <2>8, <2>10, <2>11, <2>12, <2>13
       DEF TaskStep
<1>3. ASSUME NEW t \in Task, NEW i \in DOMAIN handles[t], SysClose(t, i)
      PROVE  /\ TablesTyped'
             /\ \A u \in Task : \A j \in DOMAIN handles[u] :
                  \/ <<u, j>> = <<t, i>>
                  \/ j \in DOMAIN handles'[u] /\ handles'[u][j] = handles[u][j]
  <2>1. handles' = [handles EXCEPT ![t] = [handles[t] EXCEPT ![i] = Null]]
    BY <1>3 DEF SysClose, TablesTyped
  <2>2. [handles[t] EXCEPT ![i] = Null] \in Seq(Slot)
    BY <1>3 DEF TablesTyped, Slot
  <2> QED
    BY <1>3, <2>1, <2>2 DEF SysClose, TablesTyped
<1>4. ASSUME NEW t \in Task, TaskExit(t)
      PROVE  TablesTyped' /\ \A u \in Task \ {t} : handles'[u] = handles[u]
  BY <1>4 DEF TaskExit, TablesTyped
<1> HIDE DEF Goal
<1>5. CASE Next
  <2>1. PICK t \in Task : TaskStep(t)
    BY <1>5 DEF Next
  <2>2. CASE Goal
    BY <1>0, <2>2
  <2>3. ASSUME NEW i \in DOMAIN handles[t], SysClose(t, i)
        PROVE  /\ TablesTyped'
               /\ \A u \in Task : \A j \in DOMAIN handles[u] :
                    \/ Closed(u, j)
                    \/ j \in DOMAIN handles'[u] /\ handles'[u][j] = handles[u][j]
    BY <1>3, <2>3 DEF Closed
  <2>4. CASE TaskExit(t)
    <3>1. ASSUME NEW u \in Task, NEW i \in DOMAIN handles[u]
          PROVE  \/ Closed(u, i)
                 \/ i \in DOMAIN handles'[u] /\ handles'[u][i] = handles[u][i]
      BY <1>4, <2>4 DEF Closed
    <3> QED
      BY <1>4, <2>4, <3>1
  <2> QED
    BY <1>2, <2>1, <2>2, <2>3, <2>4
<1> QED
  BY <1>1, <1>5

(* task_add_handle, sys_close_file and task_exit: a handle stays under its  *)
(* number until its own task closes it or ends, however often tables grow.  *)
THEOREM HandlesStay == Spec => HandlesKept
<1>1. Init => TablesTyped
  <2>1. <<>> \in Seq(Slot)
    OBVIOUS
  <2> QED
    BY <2>1, InUserType DEF Init, TablesTyped
<1>2. TablesTyped /\ [Next]_vars => TablesTyped'
  BY StepKeeps
<1>3. TablesTyped /\ [Next]_vars =>
        [\A t \in Task : \A i \in DOMAIN handles[t] :
            \/ handles[t][i] = Null
            \/ SysClose(t, i)
            \/ TaskExit(t)
            \/ i \in DOMAIN handles'[t] /\ handles'[t][i] = handles[t][i]]_vars
  BY StepKeeps DEF Closed
<1> QED
  BY <1>1, <1>2, <1>3, PTL DEF Spec, HandlesKept

-----------------------------------------------------------------------------
(* Counting.  What a step changes of a set at one element, it changes of    *)
(* its cardinality.                                                         *)

One(p) == IF p THEN 1 ELSE 0

LEMMA OneDiffers ==
    ASSUME NEW S, NEW T, NEW x, IsFiniteSet(S), S \ {x} = T \ {x}
    PROVE  /\ IsFiniteSet(T)
           /\ Cardinality(S) \in Nat /\ Cardinality(T) \in Nat
           /\ Cardinality(T) = Cardinality(S) + One(x \in T) - One(x \in S)
<1> DEFINE R == S \ {x}
<1>1. /\ IsFiniteSet(R) /\ Cardinality(S) \in Nat
      /\ Cardinality(R) = IF x \in S THEN Cardinality(S) - 1 ELSE Cardinality(S)
  BY FS_RemoveElement, FS_CardinalityType
<1>2. T = IF x \in T THEN R \cup {x} ELSE R
  OBVIOUS
<1>3. x \notin R
  OBVIOUS
<1> HIDE DEF R
<1>4. /\ IsFiniteSet(R \cup {x})
      /\ Cardinality(R \cup {x}) = Cardinality(R) + 1
  BY <1>1, <1>3, FS_AddElement
<1>5. IsFiniteSet(T) /\ Cardinality(T) = Cardinality(R) + One(x \in T)
  <2>1. CASE x \in T
    BY <1>2, <1>4, <2>1 DEF One
  <2>2. CASE x \notin T
    <3>1. Cardinality(R) \in Nat
      BY <1>1, FS_CardinalityType
    <3> QED
      BY <1>1, <1>2, <2>2, <3>1 DEF One
  <2> QED
    BY <2>1, <2>2
<1>6. Cardinality(T) \in Nat
  BY <1>5, FS_CardinalityType
<1>7. Cardinality(S) = Cardinality(R) + One(x \in S)
  BY <1>1 DEF One
<1>8. Cardinality(R) \in Nat
  BY <1>1, FS_CardinalityType
<1> QED
  BY <1>1, <1>5, <1>6, <1>7, <1>8 DEF One

(* The handle at i of a table, if it counts for n.                          *)
Counts(table, i, n, kind) ==
    /\ i \in DOMAIN table /\ table[i] # Null
    /\ table[i].node = n
    /\ kind \in table[i].mode

Open(H) == {s \in Task \X Nat : s[2] \in DOMAIN H[s[1]] /\ H[s[1]][s[2]] # Null}

LEMMA OpenIs ==
    ASSUME NEW H \in [Task -> Seq(Slot)]
    PROVE  UNION {{<<t, i>> : i \in {j \in DOMAIN H[t] : H[t][j] # Null}} : t \in Task}
           = Open(H)
<1>1. \A t \in Task : DOMAIN H[t] \subseteq Nat
  OBVIOUS
<1> DEFINE U == UNION {{<<t, i>> : i \in {j \in DOMAIN H[t] : H[t][j] # Null}} : t \in Task}
<1>2. ASSUME NEW s \in U
      PROVE  s \in Open(H)
  <2>1. PICK t \in Task : s \in {<<t, i>> : i \in {j \in DOMAIN H[t] : H[t][j] # Null}}
    BY <1>2
  <2>2. PICK i \in {j \in DOMAIN H[t] : H[t][j] # Null} : s = <<t, i>>
    BY <2>1
  <2> QED
    BY <1>1, <2>2 DEF Open
<1>3. ASSUME NEW s \in Open(H)
      PROVE  s \in U
  <2>1. s = <<s[1], s[2]>> /\ s[1] \in Task
        /\ s[2] \in {j \in DOMAIN H[s[1]] : H[s[1]][j] # Null}
    BY <1>3 DEF Open
  <2> QED
    BY <2>1
<1> QED
  BY <1>2, <1>3

SlotsIn(H, n, kind) == {s \in Task \X Nat : Counts(H[s[1]], s[2], n, kind)}

LEMMA SlotsAre ==
    ASSUME TablesTyped, NEW n, NEW kind
    PROVE  OpenSlots = Open(handles) /\ Slots(n, kind) = SlotsIn(handles, n, kind)
<1>1. OpenSlots = Open(handles)
  BY OpenIs DEF TablesTyped, OpenSlots
<1> QED
  BY <1>1 DEF Slots, Open, SlotsIn, Counts

LEMMA SlotsAreAfter ==
    ASSUME TablesTyped', NEW n, NEW kind
    PROVE  OpenSlots' = Open(handles') /\ Slots(n, kind)' = SlotsIn(handles', n, kind)
<1>1. OpenSlots' = Open(handles')
  BY OpenIs DEF TablesTyped, OpenSlots
<1> QED
  BY <1>1 DEF Slots, Open, SlotsIn, Counts

Count(n, kind) == Cardinality(Slots(n, kind))

(* A step that changes one slot.                                            *)
LEMMA OneSlot ==
    ASSUME TablesTyped, TablesTyped', IsFiniteSet(OpenSlots),
           NEW t \in Task, NEW i \in Nat,
           \A u \in Task, j \in Nat : <<u, j>> # <<t, i>> =>
              \/ /\ j \in DOMAIN handles[u] /\ j \in DOMAIN handles'[u]
                 /\ handles'[u][j] = handles[u][j]
              \/ /\ j \notin DOMAIN handles[u] \/ handles[u][j] = Null
                 /\ j \notin DOMAIN handles'[u] \/ handles'[u][j] = Null
    PROVE  /\ IsFiniteSet(OpenSlots')
           /\ \A n, kind :
                /\ Count(n, kind) \in Nat /\ Count(n, kind)' \in Nat
                /\ Count(n, kind)' = Count(n, kind) + One(Counts(handles'[t], i, n, kind))
                                                    - One(Counts(handles[t], i, n, kind))
<1> DEFINE x == <<t, i>>
<1>1. x \in Task \X Nat /\ x[1] = t /\ x[2] = i
  OBVIOUS
<1>2. IsFiniteSet(OpenSlots')
  <2>1. OpenSlots \ {x} = OpenSlots' \ {x}
    BY SlotsAre, SlotsAreAfter DEF Open
  <2> QED
    BY <2>1, OneDiffers
<1>3. ASSUME NEW n, NEW kind
      PROVE  /\ Count(n, kind) \in Nat /\ Count(n, kind)' \in Nat
             /\ Count(n, kind)' = Count(n, kind) + One(Counts(handles'[t], i, n, kind))
                                                 - One(Counts(handles[t], i, n, kind))
  <2>1. /\ Slots(n, kind) = SlotsIn(handles, n, kind)
        /\ Slots(n, kind)' = SlotsIn(handles', n, kind)
    BY SlotsAre, SlotsAreAfter
  <2>2. IsFiniteSet(Slots(n, kind))
    <3>1. Slots(n, kind) \in SUBSET OpenSlots
      BY DEF Slots
    <3> QED
      BY <3>1, FS_Subset
  <2>3. Slots(n, kind) \ {x} = Slots(n, kind)' \ {x}
    BY <2>1 DEF SlotsIn, Counts
  <2>4. /\ x \in Slots(n, kind) <=> Counts(handles[t], i, n, kind)
        /\ x \in Slots(n, kind)' <=> Counts(handles'[t], i, n, kind)
    BY <1>1, <2>1 DEF SlotsIn
  <2> HIDE DEF x
  <2> QED
    BY <2>2, <2>3, <2>4, OneDiffers DEF Count, One
<1> QED
  BY <1>2, <1>3

(* task_add_handle takes one slot that was free.                            *)
LEMMA TableAdds ==
    ASSUME NEW table \in Seq(Slot), NEW h \in Handle
    PROVE  \E i \in Nat :
             /\ i \in DOMAIN TaskAddHandle(table, h) /\ TaskAddHandle(table, h)[i] = h
             /\ i \notin DOMAIN table \/ table[i] = Null
             /\ \A j \in Nat \ {i} :
                  \/ /\ j \in DOMAIN table /\ j \in DOMAIN TaskAddHandle(table, h)
                     /\ TaskAddHandle(table, h)[j] = table[j]
                  \/ /\ j \notin DOMAIN table
                     /\ \/ j \notin DOMAIN TaskAddHandle(table, h)
                        \/ TaskAddHandle(table, h)[j] = Null
<1> DEFINE free == {i \in DOMAIN table : table[i] = Null}
           first == CHOOSE i \in free : \A j \in free : i <= j
           more == [i \in 1..TableStep |-> IF i = 1 THEN h ELSE Null]
<1>1. CASE free # {}
  <2>1. free \in SUBSET Nat
    OBVIOUS
  <2>2. \E i \in free : \A j \in free : i <= j
    BY <1>1, <2>1, Least
  <2>3. first \in DOMAIN table /\ table[first] = Null
    BY <2>2
  <2>4. TaskAddHandle(table, h) = [table EXCEPT ![first] = h]
    BY <1>1 DEF TaskAddHandle
  <2> HIDE DEF first
  <2> QED
    BY <2>3, <2>4
<1>2. CASE free = {}
  <2>1. TaskAddHandle(table, h) = table \o more
    BY <1>2 DEF TaskAddHandle
  <2>2. TableStep \in Nat \ {0}
    BY VfsAssumption
  <2>3. /\ more \in Seq(Slot) /\ Len(more) = TableStep
        /\ more[1] = h /\ \A j \in 2..TableStep : more[j] = Null
    BY <2>2 DEF Slot
  <2> HIDE DEF more
  <2> DEFINE i == Len(table) + 1
             T == TaskAddHandle(table, h)
  <2>4. T \in Seq(Slot) /\ Len(T) = Len(table) + TableStep
    <3>1. table \o more \in Seq(Slot)
      BY <2>3
    <3>2. Len(table \o more) = Len(table) + TableStep
      BY <2>3
    <3> QED
      BY <2>1, <3>1, <3>2
  <2>5. i \in Nat /\ i \in DOMAIN T /\ T[i] = h /\ i \notin DOMAIN table
    BY <2>1, <2>2, <2>3
  <2>6. \A j \in DOMAIN table : j \in DOMAIN T /\ T[j] = table[j]
    BY <2>1, <2>2, <2>3
  <2>7. ASSUME NEW j \in DOMAIN T, j # i, j \notin DOMAIN table
        PROVE  T[j] = Null
    <3>1. j - Len(table) \in 2..TableStep
      BY <2>2, <2>4, <2>7
    <3>2. T[j] = more[j - Len(table)]
      BY <2>1, <2>3, <2>4, <2>7
    <3> QED
      BY <2>3, <3>1, <3>2
  <2> HIDE DEF i, T
  <2> QED
    BY <2>5, <2>6, <2>7 DEF T
<1> QED
  BY <1>1, <1>2

LEMMA AddCounts ==
    ASSUME TablesTyped, TablesTyped', IsFiniteSet(OpenSlots),
           NEW t \in Task, NEW h \in Handle,
           handles' = [handles EXCEPT ![t] = TaskAddHandle(handles[t], h)]
    PROVE  /\ IsFiniteSet(OpenSlots')
           /\ \A n, kind :
                /\ Count(n, kind) \in Nat /\ Count(n, kind)' \in Nat
                /\ Count(n, kind)' = Count(n, kind) + One(h.node = n /\ kind \in h.mode)
<1>1. /\ handles[t] \in Seq(Slot)
      /\ handles'[t] = TaskAddHandle(handles[t], h)
      /\ \A u \in Task \ {t} : handles'[u] = handles[u]
  BY DEF TablesTyped
<1>2. PICK i \in Nat :
         /\ i \in DOMAIN handles'[t] /\ handles'[t][i] = h
         /\ i \notin DOMAIN handles[t] \/ handles[t][i] = Null
         /\ \A j \in Nat \ {i} :
              \/ /\ j \in DOMAIN handles[t] /\ j \in DOMAIN handles'[t]
                 /\ handles'[t][j] = handles[t][j]
              \/ /\ j \notin DOMAIN handles[t]
                 /\ j \notin DOMAIN handles'[t] \/ handles'[t][j] = Null
  BY <1>1, TableAdds
<1>3. \A u \in Task, j \in Nat : <<u, j>> # <<t, i>> =>
         \/ /\ j \in DOMAIN handles[u] /\ j \in DOMAIN handles'[u]
            /\ handles'[u][j] = handles[u][j]
         \/ /\ j \notin DOMAIN handles[u] \/ handles[u][j] = Null
            /\ j \notin DOMAIN handles'[u] \/ handles'[u][j] = Null
  <2> TAKE u \in Task, j \in Nat
  <2>1. CASE u = t
    BY <1>2, <2>1
  <2>2. CASE u # t
    BY <1>1, <2>2
  <2> QED
    BY <2>1, <2>2
<1>4. h # Null
  BY NodeAssumption
<1>5. ASSUME NEW n, NEW kind
      PROVE  /\ ~Counts(handles[t], i, n, kind)
             /\ Counts(handles'[t], i, n, kind) <=> h.node = n /\ kind \in h.mode
  BY <1>2, <1>4 DEF Counts
<1>6. /\ IsFiniteSet(OpenSlots')
      /\ \A n, kind :
           /\ Count(n, kind) \in Nat /\ Count(n, kind)' \in Nat
           /\ Count(n, kind)' = Count(n, kind) + One(Counts(handles'[t], i, n, kind))
                                               - One(Counts(handles[t], i, n, kind))
  BY <1>3, OneSlot
<1> QED
  BY <1>5, <1>6 DEF One

LEMMA CloseCounts ==
    ASSUME TablesTyped, TablesTyped', IsFiniteSet(OpenSlots),
           NEW t \in Task, NEW i \in DOMAIN handles[t],
           handles' = [handles EXCEPT ![t][i] = Null]
    PROVE  /\ IsFiniteSet(OpenSlots')
           /\ \A n, kind :
                /\ Count(n, kind) \in Nat /\ Count(n, kind)' \in Nat
                /\ Count(n, kind)' = Count(n, kind) - One(Counts(handles[t], i, n, kind))
<1>1. /\ handles[t] \in Seq(Slot) /\ i \in Nat
      /\ handles'[t] = [handles[t] EXCEPT ![i] = Null]
      /\ \A u \in Task \ {t} : handles'[u] = handles[u]
  BY DEF TablesTyped
<1>2. \A u \in Task, j \in Nat : <<u, j>> # <<t, i>> =>
         \/ /\ j \in DOMAIN handles[u] /\ j \in DOMAIN handles'[u]
            /\ handles'[u][j] = handles[u][j]
         \/ /\ j \notin DOMAIN handles[u] \/ handles[u][j] = Null
            /\ j \notin DOMAIN handles'[u] \/ handles'[u][j] = Null
  <2> TAKE u \in Task, j \in Nat
  <2>1. CASE u = t
    BY <1>1, <2>1
  <2>2. CASE u # t
    BY <1>1, <2>2
  <2> QED
    BY <2>1, <2>2
<1>3. handles'[t][i] = Null
  BY <1>1
<1>4. \A n, kind : ~Counts(handles'[t], i, n, kind)
  BY <1>3 DEF Counts
<1>5. /\ IsFiniteSet(OpenSlots')
      /\ \A n, kind :
           /\ Count(n, kind) \in Nat /\ Count(n, kind)' \in Nat
           /\ Count(n, kind)' = Count(n, kind) + One(Counts(handles'[t], i, n, kind))
                                               - One(Counts(handles[t], i, n, kind))
  BY <1>1, <1>2, OneSlot
<1>6. ASSUME NEW n, NEW kind
      PROVE  Count(n, kind)' = Count(n, kind) - One(Counts(handles[t], i, n, kind))
  <2>1. One(Counts(handles'[t], i, n, kind)) = 0
    BY <1>4 DEF One
  <2>2. One(Counts(handles[t], i, n, kind)) \in Int
    BY DEF One
  <2>3. Count(n, kind) \in Nat
    BY <1>5
  <2>4. Count(n, kind)' = Count(n, kind) + One(Counts(handles'[t], i, n, kind))
                                         - One(Counts(handles[t], i, n, kind))
    BY <1>5
  <2> QED
    BY <2>1, <2>2, <2>3, <2>4
<1> QED
  BY <1>5, <1>6

LEMMA ExitCounts ==
    ASSUME TablesTyped, TablesTyped', IsFiniteSet(OpenSlots), NEW t \in Task,
           handles' = [handles EXCEPT ![t] = <<>>]
    PROVE  /\ IsFiniteSet(OpenSlots')
           /\ \A n, kind :
                /\ Count(n, kind) \in Nat /\ Count(n, kind)' \in Nat
                /\ Opened(t, n, kind) \in Nat
                /\ Count(n, kind)' = Count(n, kind) - Opened(t, n, kind)
<1>1. /\ handles[t] \in Seq(Slot) /\ handles'[t] = <<>>
      /\ \A u \in Task \ {t} : handles'[u] = handles[u]
  BY DEF TablesTyped
<1>2. IsFiniteSet(OpenSlots')
  <2>1. OpenSlots' \in SUBSET OpenSlots
    BY <1>1, SlotsAre, SlotsAreAfter DEF Open
  <2> QED
    BY <2>1, FS_Subset
<1>3. ASSUME NEW n, NEW kind
      PROVE  /\ Count(n, kind) \in Nat /\ Count(n, kind)' \in Nat
             /\ Opened(t, n, kind) \in Nat
             /\ Count(n, kind)' = Count(n, kind) - Opened(t, n, kind)
  <2> DEFINE O == {i \in DOMAIN handles[t] : Counts(handles[t], i, n, kind)}
             M == {<<t, i>> : i \in O}
             S == Slots(n, kind)
             R == Slots(n, kind)'
  <2>1. Opened(t, n, kind) = Cardinality(O)
    <3>1. O = {i \in DOMAIN handles[t] : /\ handles[t][i] # Null
                                         /\ handles[t][i].node = n
                                         /\ kind \in handles[t][i].mode}
      BY DEF Counts
    <3> QED
      BY <3>1 DEF Opened
  <2>2. S = SlotsIn(handles, n, kind) /\ R = SlotsIn(handles', n, kind)
    BY SlotsAre, SlotsAreAfter
  <2>3. S = R \cup M /\ R \cap M = {}
    <3>1. O \subseteq Nat
      BY <1>1
    <3>2. \A x \in M : x \in S /\ x \notin R
      BY <1>1, <2>2, <3>1 DEF SlotsIn, Counts
    <3>3. \A x \in R : x \in S
      BY <1>1, <2>2 DEF SlotsIn, Counts
    <3>4. ASSUME NEW x \in S, x \notin R
          PROVE  x \in M
      <4>1. x = <<x[1], x[2]>> /\ x[1] = t /\ Counts(handles[t], x[2], n, kind)
        BY <1>1, <2>2, <3>4 DEF SlotsIn
      <4> QED
        BY <4>1 DEF Counts
    <3> QED
      BY <3>2, <3>3, <3>4
  <2>4. IsFiniteSet(S) /\ IsFiniteSet(R) /\ IsFiniteSet(M)
    <3>1. S \in SUBSET OpenSlots
      BY DEF Slots
    <3>2. IsFiniteSet(S)
      BY <3>1, FS_Subset
    <3> HIDE DEF S, R, M
    <3> QED
      BY <2>3, <3>2, FS_Subset
  <2>5. Cardinality(M) = Cardinality(O) /\ IsFiniteSet(O)
    <3> DEFINE f == [x \in M |-> x[2]]
    <3>1. f \in [M -> O]
      OBVIOUS
    <3>2. \A x, y \in M : f[x] = f[y] => x = y
      OBVIOUS
    <3>3. \A i \in O : \E x \in M : f[x] = i
      <4> TAKE i \in O
      <4>1. <<t, i>> \in M /\ f[<<t, i>>] = i
        OBVIOUS
      <4> QED
        BY <4>1
    <3> HIDE DEF f, M, O
    <3>4. ExistsBijection(M, O)
      BY <3>1, <3>2, <3>3 DEF ExistsBijection, Bijection, Injection, Surjection, IsInjective
    <3> QED
      BY <2>4, <3>4, FS_Bijection
  <2> HIDE DEF S, R, M, O
  <2>6. Cardinality(R \cap M) = 0
    BY <2>3, FS_EmptySet
  <2>7. Cardinality(S) = Cardinality(R) + Cardinality(M)
    <3>1. Cardinality(R \cup M) = Cardinality(R) + Cardinality(M) - Cardinality(R \cap M)
      BY <2>4, FS_Union
    <3>2. Cardinality(R) \in Nat /\ Cardinality(M) \in Nat
      BY <2>4, FS_CardinalityType
    <3> QED
      BY <2>3, <2>6, <3>1, <3>2
  <2>8. Cardinality(S) \in Nat /\ Cardinality(R) \in Nat /\ Cardinality(M) \in Nat
    BY <2>4, FS_CardinalityType
  <2> QED
    BY <2>1, <2>5, <2>7, <2>8 DEF Count, S, R
<1> QED
  BY <1>2, <1>3

-----------------------------------------------------------------------------
(* The counts of the nodes *)

(* The handles that the call of t holds on n.                               *)
Holds(t, n) == One(call[t].node = n /\ call[t].pc \in {"open", "exec", "load"})
               + One(call[t].pc = "tree" /\ n \in {"root", "fat"})

LEMMA CallCounts ==
    ASSUME NEW t \in Task, \A u \in Task \ {t} : call'[u] = call[u], NEW n
    PROVE  /\ InCalls(n) \in Nat /\ InCalls(n)' \in Nat
           /\ Holds(t, n) \in Nat /\ Holds(t, n)' \in Nat
           /\ InCalls(n)' = InCalls(n) + Holds(t, n)' - Holds(t, n)
<1> DEFINE A == {u \in Task : call[u].node = n /\ call[u].pc \in {"open", "exec", "load"}}
           B == {u \in Task : call[u].pc = "tree" /\ n \in {"root", "fat"}}
<1>1. InCalls(n) = Cardinality(A) + Cardinality(B)
  BY DEF InCalls
<1>2. InCalls(n)' = Cardinality(A') + Cardinality(B')
  BY DEF InCalls
<1>3. IsFiniteSet(A) /\ IsFiniteSet(B)
  <2>1. A \in SUBSET Task /\ B \in SUBSET Task
    OBVIOUS
  <2> QED
    BY <2>1, VfsAssumption, FS_Subset
<1>4. A \ {t} = A' \ {t} /\ B \ {t} = B' \ {t}
  OBVIOUS
<1>5. /\ t \in A <=> (call[t].node = n /\ call[t].pc \in {"open", "exec", "load"})
      /\ t \in B <=> (call[t].pc = "tree" /\ n \in {"root", "fat"})
      /\ t \in A' <=> (call'[t].node = n /\ call'[t].pc \in {"open", "exec", "load"})
      /\ t \in B' <=> (call'[t].pc = "tree" /\ n \in {"root", "fat"})
  OBVIOUS
<1>6. /\ Holds(t, n) = One(t \in A) + One(t \in B)
      /\ Holds(t, n)' = One(t \in A') + One(t \in B')
  BY <1>5 DEF Holds, One
<1> DEFINE a == A'
           b == B'
<1> HIDE DEF A, B, a, b
<1>7. /\ Cardinality(A) \in Nat /\ Cardinality(a) \in Nat
      /\ Cardinality(a) = Cardinality(A) + One(t \in a) - One(t \in A)
  BY <1>3, <1>4, OneDiffers DEF a
<1>8. /\ Cardinality(B) \in Nat /\ Cardinality(b) \in Nat
      /\ Cardinality(b) = Cardinality(B) + One(t \in b) - One(t \in B)
  BY <1>3, <1>4, OneDiffers DEF b
<1> QED
  BY <1>1, <1>2, <1>6, <1>7, <1>8 DEF One, a, b

Leaked(n)  == IF n \in Dirs THEN leaked[n] ELSE 0
InMount(n) == One(n = Disk /\ mounted # "no")

(* The types of what is not in a table or a call, but that a count could be *)
(* negative.                                                                *)
NodesTyped ==
    /\ readers \in [Node -> Int] /\ writers \in [Node -> Int]
    /\ child \in Seq(FatNodes)
    /\ name \in [FatNodes -> Names \cup {Null}]
    /\ null_next \in Seq(FatNodes)
    /\ mounted \in {"no", "reading", "yes"}
    /\ alive \subseteq Task
    /\ raced \subseteq Task
    /\ leaked \in [Dirs -> Nat]
    /\ causes \subseteq {"race", "tree", "miss"}

(* What a call has while it sleeps: a lookup has the volume's directory     *)
(* open, and the mount has opened the disk.                                 *)
CallsRight ==
    \A t \in Task :
        /\ call[t].pc \in {"open", "exec"} => call[t].node = "fat" /\ call[t].name \in Names
        /\ call[t].pc = "mount" => mounted # "no"

CountsInv == /\ TablesTyped /\ NodesTyped
             /\ CallsRight
             /\ IsFiniteSet(OpenSlots)
             /\ CountsMatch

LEMMA LeakedTyped ==
    ASSUME NEW n
    PROVE  /\ leaked \in [Dirs -> Nat] => Leaked(n) \in Nat
           /\ leaked' \in [Dirs -> Nat] => Leaked(n)' \in Nat
           /\ InMount(n) \in Nat /\ InMount(n)' \in Nat
BY DEF Leaked, InMount, One

LEMMA CountsAre ==
    ASSUME CountsMatch, NEW n \in Node
    PROVE  /\ writers[n] = Count(n, "w")
           /\ readers[n] = Count(n, "r") + InCalls(n) + Leaked(n) + InMount(n)
BY DEF CountsMatch, Count, Leaked, InMount, One

(* A step balances the counts if it changes them as the handles of tables,  *)
(* calls, leaks and the mount change.                                       *)
Balanced(t) ==
    \A n \in Node :
        /\ Count(n, "w") \in Nat /\ Count(n, "w")' \in Nat
        /\ Count(n, "r") \in Nat /\ Count(n, "r")' \in Nat
        /\ writers'[n] = writers[n] + Count(n, "w")' - Count(n, "w")
        /\ readers'[n] = readers[n] + (Count(n, "r")' - Count(n, "r"))
                                    + (Holds(t, n)' - Holds(t, n))
                                    + (Leaked(n)' - Leaked(n))
                                    + (InMount(n)' - InMount(n))

LEMMA Balance ==
    ASSUME CountsInv, leaked' \in [Dirs -> Nat],
           NEW t \in Task, \A u \in Task \ {t} : call'[u] = call[u], Balanced(t)
    PROVE  CountsMatch'
<1>1. ASSUME NEW n \in Node
      PROVE  /\ writers'[n] = Count(n, "w")'
             /\ readers'[n] = Count(n, "r")' + InCalls(n)' + Leaked(n)' + InMount(n)'
  <2>1. /\ writers[n] = Count(n, "w")
        /\ readers[n] = Count(n, "r") + InCalls(n) + Leaked(n) + InMount(n)
    BY CountsAre DEF CountsInv
  <2>2. /\ InCalls(n) \in Nat /\ InCalls(n)' \in Nat
        /\ Holds(t, n) \in Nat /\ Holds(t, n)' \in Nat
        /\ InCalls(n)' = InCalls(n) + Holds(t, n)' - Holds(t, n)
    BY CallCounts
  <2>3. /\ Leaked(n) \in Nat /\ Leaked(n)' \in Nat
        /\ InMount(n) \in Nat /\ InMount(n)' \in Nat
    BY LeakedTyped DEF CountsInv, NodesTyped
  <2> QED
    BY <2>1, <2>2, <2>3 DEF Balanced
<1> QED
  BY <1>1 DEF CountsMatch, Count, Leaked, InMount, One

LEMMA SameTables ==
    ASSUME CountsInv, handles' = handles
    PROVE  /\ IsFiniteSet(OpenSlots')
           /\ \A n, kind : Count(n, kind)' = Count(n, kind) /\ Count(n, kind) \in Nat
<1>1. OpenSlots' = OpenSlots
  BY DEF OpenSlots
<1>2. ASSUME NEW n, NEW kind
      PROVE  Count(n, kind)' = Count(n, kind) /\ Count(n, kind) \in Nat
  <2>1. Slots(n, kind)' = Slots(n, kind) /\ Slots(n, kind) \in SUBSET OpenSlots
    BY <1>1 DEF Slots
  <2>2. Cardinality(Slots(n, kind)) \in Nat
    BY <2>1, FS_Subset, FS_CardinalityType DEF CountsInv
  <2> QED
    BY <2>1, <2>2 DEF Count
<1> QED
  BY <1>1, <1>2 DEF CountsInv

LEMMA CallUser ==
    ASSUME NEW t \in Task, NEW n
    PROVE  /\ call[t].pc \in {"user", "read", "mount"} => Holds(t, n) = 0
           /\ call'[t].pc \in {"user", "read", "mount"} => Holds(t, n)' = 0
BY DEF Holds, One

LEMMA OpenFileCases ==
    ASSUME NEW t, NEW n, NEW mode, NEW count, OpenFile(t, n, mode, count)
    PROVE  \/ /\ readers' = count /\ writers' = writers /\ handles' = handles
              /\ Return(t) \/ (n \in Dirs /\ call' = call)
           \/ /\ n # Null /\ n \notin Dirs /\ ~Busy(n, mode)
              /\ readers' = IF "r" \in mode THEN More(count, n) ELSE count
              /\ writers' = IF "w" \in mode THEN More(writers, n) ELSE writers
              /\ handles' = [handles EXCEPT
                    ![t] = TaskAddHandle(handles[t], [node |-> n, mode |-> mode])]
              /\ Return(t)
BY Zenon DEF OpenFile

LEMMA ExecFileCases ==
    ASSUME NEW t, NEW n, NEW count, ExecFile(t, n, count)
    PROVE  /\ writers' = writers /\ handles' = handles
           /\ \/ readers' = count /\ (Return(t) \/ (n \in Dirs /\ call' = call))
              \/ /\ n # Null /\ n \notin Dirs
                 /\ readers' = More(count, n)
                 /\ call' = [call EXCEPT ![t] = [InUser EXCEPT !.pc = "load", !.node = n]]
BY Zenon DEF ExecFile

(* What they leave: count, and what they have opened.                       *)
Settles(t, count) ==
    /\ TablesTyped' /\ IsFiniteSet(OpenSlots')
    /\ readers' \in [Node -> Int] /\ writers' \in [Node -> Int]
    /\ call'[t].pc \in {"user", "load"}
    /\ \A u \in Task \ {t} : call'[u] = call[u]
    /\ \A m \in Node :
        /\ Count(m, "w") \in Nat /\ Count(m, "w")' \in Nat
        /\ Count(m, "r") \in Nat /\ Count(m, "r")' \in Nat
        /\ writers'[m] = writers[m] + Count(m, "w")' - Count(m, "w")
        /\ readers'[m] = count[m] + (Count(m, "r")' - Count(m, "r")) + Holds(t, m)'

LEMMA OpenFileSettles ==
    ASSUME CountsInv, NEW t \in Task, NEW n \in Node \cup {Null},
           NEW mode \in SUBSET {"r", "w"}, NEW count \in [Node -> Int],
           n \notin Dirs \/ call[t].pc = "user", OpenFile(t, n, mode, count)
    PROVE  Settles(t, count)
<1>1. TablesTyped' /\ TablesTyped
  BY OpenFileKeeps DEF CountsInv
<1>2. writers \in [Node -> Int]
  BY DEF CountsInv, NodesTyped
<1>3. /\ \A u \in Task \ {t} : call'[u] = call[u]
      /\ call'[t].pc = "user"
  <2>1. call' = [call EXCEPT ![t] = InUser] \/ (call' = call /\ n \in Dirs)
    BY OpenFileCases DEF Return
  <2>2. InUser.pc = "user" /\ call \in [Task -> Calls]
    BY <1>1 DEF InUser, TablesTyped
  <2> QED
    BY <2>1, <2>2
<1>4. \A m \in Node : Holds(t, m)' = 0
  BY <1>3, CallUser
<1>5. CASE handles' = handles /\ readers' = count /\ writers' = writers
  BY <1>1, <1>2, <1>3, <1>4, <1>5, SameTables DEF Settles
<1>6. CASE /\ n # Null /\ n \notin Dirs /\ ~Busy(n, mode)
           /\ readers' = IF "r" \in mode THEN More(count, n) ELSE count
           /\ writers' = IF "w" \in mode THEN More(writers, n) ELSE writers
           /\ handles' = [handles EXCEPT
                 ![t] = TaskAddHandle(handles[t], [node |-> n, mode |-> mode])]
  <2> DEFINE h == [node |-> n, mode |-> mode]
  <2>1. h \in Handle /\ h.node = n /\ h.mode = mode /\ n \in Node
    BY <1>6 DEF Handle
  <2>2. handles' = [handles EXCEPT ![t] = TaskAddHandle(handles[t], h)]
    BY <1>6
  <2> HIDE DEF h
  <2>3. /\ IsFiniteSet(OpenSlots')
        /\ \A m, kind :
             /\ Count(m, kind) \in Nat /\ Count(m, kind)' \in Nat
             /\ Count(m, kind)' = Count(m, kind) + One(h.node = m /\ kind \in h.mode)
    BY <1>1, <2>1, <2>2, AddCounts DEF CountsInv
  <2>4. readers' \in [Node -> Int] /\ writers' \in [Node -> Int]
    BY <1>2, <1>6, <2>1 DEF More
  <2>5. ASSUME NEW m \in Node
        PROVE  /\ writers'[m] = writers[m] + One(n = m /\ "w" \in mode)
               /\ readers'[m] = count[m] + One(n = m /\ "r" \in mode)
    BY <1>2, <1>6, <2>1 DEF More, One
  <2>6. ASSUME NEW m \in Node
        PROVE  /\ Count(m, "w") \in Nat /\ Count(m, "w")' \in Nat
               /\ Count(m, "r") \in Nat /\ Count(m, "r")' \in Nat
               /\ writers'[m] = writers[m] + Count(m, "w")' - Count(m, "w")
               /\ readers'[m] = count[m] + (Count(m, "r")' - Count(m, "r")) + Holds(t, m)'
    <3>1. /\ Count(m, "w") \in Nat /\ Count(m, "w")' \in Nat
          /\ Count(m, "w")' = Count(m, "w") + One(n = m /\ "w" \in mode)
      BY <2>1, <2>3
    <3>2. /\ Count(m, "r") \in Nat /\ Count(m, "r")' \in Nat
          /\ Count(m, "r")' = Count(m, "r") + One(n = m /\ "r" \in mode)
      BY <2>1, <2>3
    <3>3. writers[m] \in Int /\ count[m] \in Int
      BY <1>2
    <3>4. One(n = m /\ "w" \in mode) \in Int /\ One(n = m /\ "r" \in mode) \in Int
      BY DEF One
    <3> QED
      BY <1>4, <2>5, <3>1, <3>2, <3>3, <3>4
  <2> QED
    BY <1>1, <1>3, <2>3, <2>4, <2>6 DEF Settles
<1> QED
  BY <1>5, <1>6, OpenFileCases

LEMMA ExecFileSettles ==
    ASSUME CountsInv, NEW t \in Task, NEW n \in Node \cup {Null},
           NEW count \in [Node -> Int],
           n \notin Dirs \/ call[t].pc = "user", ExecFile(t, n, count)
    PROVE  Settles(t, count)
<1>1. TablesTyped' /\ TablesTyped
  BY ExecFileKeeps DEF CountsInv
<1>2. writers \in [Node -> Int]
  BY DEF CountsInv, NodesTyped
<1>3. \A u \in Task \ {t} : call'[u] = call[u]
  <2>1. \/ call' = [call EXCEPT ![t] = InUser]
        \/ call' = call
        \/ call' = [call EXCEPT ![t] = [InUser EXCEPT !.pc = "load", !.node = n]]
    BY ExecFileCases DEF Return
  <2>2. call \in [Task -> Calls]
    BY <1>1 DEF TablesTyped
  <2> QED
    BY <2>1, <2>2
<1>4. /\ handles' = handles /\ writers' = writers /\ IsFiniteSet(OpenSlots')
      /\ \A m, kind : Count(m, kind)' = Count(m, kind) /\ Count(m, kind) \in Nat
  BY ExecFileCases, SameTables
<1>5. CASE readers' = count /\ (Return(t) \/ (n \in Dirs /\ call' = call))
  <2>1. call'[t].pc = "user"
    <3>1. InUser.pc = "user" /\ call \in [Task -> Calls]
      BY <1>1 DEF InUser, TablesTyped
    <3> QED
      BY <1>5, <3>1 DEF Return
  <2>2. \A m \in Node : Holds(t, m)' = 0
    BY <2>1, CallUser
  <2> QED
    BY <1>1, <1>2, <1>3, <1>4, <1>5, <2>1, <2>2 DEF Settles
<1>6. CASE /\ n # Null /\ n \notin Dirs
           /\ readers' = More(count, n)
           /\ call' = [call EXCEPT ![t] = [InUser EXCEPT !.pc = "load", !.node = n]]
  <2>1. call'[t].pc = "load" /\ call'[t].node = n
    BY <1>1, <1>6 DEF TablesTyped, InUser
  <2>2. \A m \in Node : Holds(t, m)' = One(n = m)
    BY <2>1 DEF Holds, One
  <2>3. /\ readers' \in [Node -> Int]
        /\ \A m \in Node : readers'[m] = count[m] + One(n = m)
    BY <1>6 DEF More, One
  <2> QED
    BY <1>1, <1>2, <1>3, <1>4, <2>1, <2>2, <2>3 DEF Settles, One
<1> QED
  BY <1>5, <1>6, ExecFileCases

LEMMA CallsKept ==
    ASSUME CallsRight, NEW t \in Task, \A u \in Task \ {t} : call'[u] = call[u],
           mounted # "no" => mounted' # "no",
           call'[t].pc \in {"open", "exec"} => call'[t].node = "fat" /\ call'[t].name \in Names,
           call'[t].pc = "mount" => mounted' # "no"
    PROVE  CallsRight'
BY DEF CallsRight

LEMMA Conclude ==
    ASSUME CountsInv, NEW t \in Task, \A u \in Task \ {t} : call'[u] = call[u],
           TablesTyped', NodesTyped', CallsRight', IsFiniteSet(OpenSlots'), Balanced(t)
    PROVE  CountsInv'
BY Balance DEF CountsInv, NodesTyped

LEMMA NodesAre == {"root", "devices", "devroot", "floppy", "fat", Disk} \subseteq Node
BY DEF Node, Dirs

LEMMA BeginUseTyped ==
    ASSUME raced \subseteq Task, NEW t \in Task,
           BeginUse(t) \/ raced' = raced \ {t} \/ raced' = raced
    PROVE  raced' \subseteq Task
BY DEF BeginUse, Others

(* The lookups and opens                                                    *)

LEMMA UseCounts ==
    ASSUME CountsInv, NEW t \in Task, NEW n \in Node, NEW op,
           NEW mode \in SUBSET {"r", "w"}, call[t].pc = "user", Use(t, op, n, mode)
    PROVE  CountsInv'
<1>1. /\ UNCHANGED <<child, name, null_next, mounted, alive, leaked, causes>>
      /\ BeginUse(t) \/ raced' = raced
      /\ OpenFile(t, n, mode, readers) \/ ExecFile(t, n, readers)
  BY DEF Use
<1>2. /\ readers \in [Node -> Int] /\ NodesTyped /\ CallsRight
  BY DEF CountsInv, NodesTyped
<1>3. Settles(t, readers)
  BY <1>1, <1>2, OpenFileSettles, ExecFileSettles
<1>4. Balanced(t)
  <2>1. ASSUME NEW m \in Node
        PROVE  Leaked(m)' = Leaked(m) /\ InMount(m)' = InMount(m) /\ Holds(t, m) = 0
    BY <1>1, CallUser DEF Leaked, InMount
  <2>2. ASSUME NEW m \in Node
        PROVE  Leaked(m) \in Nat /\ InMount(m) \in Nat /\ readers[m] \in Int /\ Holds(t, m)' \in Nat
    BY <1>2, <1>3, LeakedTyped, CallCounts DEF NodesTyped, Settles
  <2> QED
    BY <1>3, <2>1, <2>2 DEF Balanced, Settles
<1>5. NodesTyped'
  <2>1. raced' \subseteq Task
    BY <1>1, <1>2, BeginUseTyped DEF NodesTyped
  <2> QED
    BY <1>1, <1>2, <1>3, <2>1 DEF NodesTyped, Settles
<1>6. CallsRight'
  BY <1>1, <1>2, <1>3, CallsKept DEF Settles
<1> QED
  BY <1>3, <1>4, <1>5, <1>6, Conclude DEF Settles

LEMMA FindReturnCases ==
    ASSUME NEW t, NEW n, FindReturn(t, n)
    PROVE  /\ call[t].pc \in {"open", "exec"}
           /\ n \in Found(t)
           /\ name' = IF n = Null THEN name ELSE [name EXCEPT ![n] = call[t].name]
           /\ mounted' = mounted /\ alive' = alive /\ leaked' = leaked
           /\ \/ /\ n = Null /\ name' = name
                 /\ UNCHANGED <<readers, writers, child, null_next, handles, call,
                                raced, causes>>
              \/ /\ AddToChildren(n)
                 /\ causes' = IF n = Null /\ child # <<>>
                              THEN causes \cup {"miss"} ELSE causes
                 /\ IF call[t].pc = "open"
                    THEN OpenFile(t, n, call[t].mode, Less(readers, "fat"))
                    ELSE ExecFile(t, n, Less(readers, "fat"))
                 /\ BeginUse(t) \/ raced' = raced \ {t}
BY Zenon DEF FindReturn

LEMMA FindReturnCounts ==
    ASSUME CountsInv, NEW t \in Task, NEW n \in FatNodes \cup {Null}, FindReturn(t, n)
    PROVE  CountsInv'
<1>1. /\ TablesTyped /\ NodesTyped /\ CallsRight
      /\ call[t].pc \in {"open", "exec"} /\ call[t].node = "fat" /\ call[t].name \in Names
      /\ mounted' = mounted /\ alive' = alive /\ leaked' = leaked
  BY FindReturnCases DEF CountsInv, CallsRight
<1>2. name' \in [FatNodes -> Names \cup {Null}]
  <2>1. name' = IF n = Null THEN name ELSE [name EXCEPT ![n] = call[t].name]
    BY FindReturnCases
  <2>2. name \in [FatNodes -> Names \cup {Null}] /\ call[t].name \in Names
    BY <1>1 DEF NodesTyped
  <2> QED
    BY <2>1, <2>2
<1>3. CASE /\ UNCHANGED <<readers, writers, child, null_next, handles, call,
                          raced, causes>>
  <2>1. /\ IsFiniteSet(OpenSlots')
        /\ \A m, kind : Count(m, kind)' = Count(m, kind) /\ Count(m, kind) \in Nat
    BY <1>3, SameTables
  <2>2. ASSUME NEW m \in Node
        PROVE  /\ Leaked(m)' = Leaked(m) /\ InMount(m)' = InMount(m)
               /\ Holds(t, m)' = Holds(t, m)
               /\ Leaked(m) \in Nat /\ InMount(m) \in Nat /\ Holds(t, m) \in Nat
               /\ readers[m] \in Int /\ writers[m] \in Int
    BY <1>1, <1>3, LeakedTyped, CallCounts DEF Leaked, InMount, Holds, NodesTyped
  <2>3. Balanced(t)
    BY <1>3, <2>1, <2>2 DEF Balanced
  <2>4. NodesTyped' /\ TablesTyped' /\ CallsRight'
    BY <1>1, <1>2, <1>3 DEF NodesTyped, TablesTyped, CallsRight
  <2> QED
    BY <1>3, <2>1, <2>3, <2>4, Conclude
<1>4. CASE /\ AddToChildren(n)
           /\ causes' = IF n = Null /\ child # <<>>
                        THEN causes \cup {"miss"} ELSE causes
           /\ IF call[t].pc = "open"
              THEN OpenFile(t, n, call[t].mode, Less(readers, "fat"))
              ELSE ExecFile(t, n, Less(readers, "fat"))
           /\ BeginUse(t) \/ raced' = raced \ {t}
  <2> DEFINE count == Less(readers, "fat")
  <2>1. count \in [Node -> Int] /\ \A m \in Node : count[m] = readers[m] - One(m = "fat")
    BY <1>1, NodesAre DEF NodesTyped, Less, One
  <2>2. n \in Node \cup {Null} /\ n \notin Dirs
    BY NodeAssumption, NodesAre DEF Node
  <2>3. call[t].mode \in SUBSET {"r", "w"}
    BY <1>1 DEF TablesTyped, Calls
  <2> HIDE DEF count
  <2>4. Settles(t, count)
    <3>1. OpenFile(t, n, call[t].mode, count) \/ ExecFile(t, n, count)
      BY <1>4 DEF count
    <3> QED
      BY <2>1, <2>2, <2>3, <3>1, OpenFileSettles, ExecFileSettles
  <2>5. Balanced(t)
    <3>1. ASSUME NEW m \in Node
          PROVE  /\ Leaked(m)' = Leaked(m) /\ InMount(m)' = InMount(m)
                 /\ Holds(t, m) = One(m = "fat")
      BY <1>1 DEF Leaked, InMount, Holds, One
    <3>2. ASSUME NEW m \in Node
          PROVE  /\ Leaked(m) \in Nat /\ InMount(m) \in Nat /\ readers[m] \in Int
                 /\ Holds(t, m) \in Nat /\ Holds(t, m)' \in Nat
      BY <1>1, <2>4, LeakedTyped, CallCounts DEF NodesTyped, Settles
    <3> QED
      BY <2>1, <2>4, <3>1, <3>2 DEF Balanced, Settles
  <2>6. NodesTyped'
    <3>1. raced' \subseteq Task
      BY <1>1, <1>4, BeginUseTyped DEF NodesTyped
    <3>2. child' \in Seq(FatNodes) /\ null_next' \in Seq(FatNodes)
      <4>1. child \in Seq(FatNodes) /\ null_next \in Seq(FatNodes) /\ <<>> \in Seq(FatNodes)
        BY <1>1 DEF NodesTyped
      <4>2. CASE n = Null
        BY <1>4, <4>1, <4>2 DEF AddToChildren
      <4>3. CASE n # Null
        <5>1. <<n>> \in Seq(FatNodes)
          BY <4>3
        <5>2. <<n>> \o child \in Seq(FatNodes)
          BY <4>1, <5>1
        <5>3. child' = <<n>> \o child /\ null_next' = null_next
          BY <1>4, <4>3 DEF AddToChildren
        <5> QED
          BY <4>1, <5>2, <5>3
      <4> QED
        BY <4>2, <4>3
    <3>3. causes' \subseteq {"race", "tree", "miss"}
      BY <1>1, <1>4 DEF NodesTyped
    <3> QED
      BY <1>1, <1>2, <2>4, <3>1, <3>2, <3>3 DEF NodesTyped, Settles
  <2>7. CallsRight'
    BY <1>1, <2>4, CallsKept DEF Settles
  <2> QED
    BY <2>4, <2>5, <2>6, <2>7, Conclude DEF Settles
<1> QED
  BY <1>3, <1>4, FindReturnCases

(* A step that changes no table.                                            *)
LEMMA SleepCounts ==
    ASSUME CountsInv, NEW t \in Task, NEW c \in Calls,
           handles' = handles, writers' = writers,
           call' = call \/ call' = [call EXCEPT ![t] = c],
           NodesTyped', CallsRight',
           \A n \in Node : readers'[n] = readers[n] + (Holds(t, n)' - Holds(t, n))
                                                    + (Leaked(n)' - Leaked(n))
                                                    + (InMount(n)' - InMount(n))
    PROVE  CountsInv'
<1>1. /\ IsFiniteSet(OpenSlots')
      /\ \A n, kind : Count(n, kind)' = Count(n, kind) /\ Count(n, kind) \in Nat
  BY SameTables
<1>2. TablesTyped' /\ \A u \in Task \ {t} : call'[u] = call[u]
  BY DEF CountsInv, TablesTyped
<1>3. ASSUME NEW n \in Node
      PROVE  /\ Holds(t, n) \in Nat /\ Holds(t, n)' \in Nat
             /\ Leaked(n) \in Nat /\ Leaked(n)' \in Nat
             /\ InMount(n) \in Nat /\ InMount(n)' \in Nat
             /\ readers[n] \in Int /\ writers[n] \in Int
  BY <1>2, LeakedTyped, CallCounts DEF CountsInv, NodesTyped
<1>4. Balanced(t)
  BY <1>1, <1>3 DEF Balanced
<1> QED
  BY <1>1, <1>2, <1>4, Conclude

(* The holds of a call that sleeps.                                         *)
LEMMA CallHolds ==
    ASSUME NEW t \in Task, NEW n
    PROVE  /\ call[t].pc = "tree" => Holds(t, n) = One(n \in {"root", "fat"})
           /\ call'[t].pc = "tree" => Holds(t, n)' = One(n \in {"root", "fat"})
           /\ call[t].pc \in {"open", "exec", "load"} => Holds(t, n) = One(call[t].node = n)
           /\ call'[t].pc \in {"open", "exec", "load"} => Holds(t, n)' = One(call'[t].node = n)
BY DEF Holds, One

LEMMA CallChanges ==
    ASSUME CountsInv, NEW t \in Task, NEW c \in Calls, call' = [call EXCEPT ![t] = c]
    PROVE  call'[t] = c /\ \A u \in Task \ {t} : call'[u] = call[u]
BY DEF CountsInv, TablesTyped

LEMMA BeginFindCounts ==
    ASSUME CountsInv, NEW t \in Task, NEW op \in {"open", "exec"}, NEW x \in Names,
           NEW mode \in SUBSET {"r", "w"}, BeginFind(t, op, x, mode)
    PROVE  CountsInv'
<1> DEFINE c == [InUser EXCEPT !.pc = op, !.node = "fat", !.name = x, !.mode = mode]
<1>1. c \in Calls /\ c.pc = op /\ c.node = "fat" /\ c.name = x
  BY InUserType, NodesAre DEF Calls, InUser
<1>2. /\ call[t].pc = "user" /\ readers' = More(readers, "fat")
      /\ call' = [call EXCEPT ![t] = c]
      /\ raced' \subseteq Task /\ causes' \subseteq causes \cup {"race"}
      /\ UNCHANGED <<writers, child, name, null_next, mounted, alive, handles,
                     panic, leaked>>
  BY BeginUseTyped DEF BeginFind, Runs, CountsInv, NodesTyped
<1> HIDE DEF c
<1>3. TablesTyped /\ NodesTyped /\ CallsRight
  BY DEF CountsInv
<1>0. call'[t] = c /\ \A u \in Task \ {t} : call'[u] = call[u]
  BY <1>1, <1>2, CallChanges
<1>4. \A n \in Node : readers'[n] = readers[n] + One(n = "fat")
  BY <1>2, <1>3, NodesAre DEF More, NodesTyped, One
<1>5. readers' \in [Node -> Int]
  BY <1>2, <1>3, NodesAre DEF More, NodesTyped
<1>6. ASSUME NEW n \in Node
      PROVE  readers'[n] = readers[n] + (Holds(t, n)' - Holds(t, n))
                                      + (Leaked(n)' - Leaked(n))
                                      + (InMount(n)' - InMount(n))
  <2>1. Leaked(n)' = Leaked(n) /\ InMount(n)' = InMount(n)
    BY <1>2 DEF Leaked, InMount
  <2>2. Leaked(n) \in Nat /\ InMount(n) \in Nat /\ readers[n] \in Int
    BY <1>3, LeakedTyped DEF NodesTyped
  <2>3. Holds(t, n) = 0 /\ Holds(t, n)' = One(n = "fat")
    BY <1>1, <1>2, <1>0, CallUser, CallHolds DEF One
  <2> QED
    BY <1>4, <2>1, <2>2, <2>3 DEF One
<1>7. NodesTyped'
  BY <1>2, <1>3, <1>5 DEF NodesTyped
<1>8. CallsRight'
  BY <1>1, <1>2, <1>3, <1>0, CallsKept
<1> QED
  BY <1>1, <1>2, <1>6, <1>7, <1>8, SleepCounts

(* A call returns, and closes the file that sys_exec has read.              *)
LEMMA EndCounts ==
    ASSUME CountsInv, NEW t \in Task, LoadEnd(t) \/ ReadEnd(t)
    PROVE  CountsInv'
<1>1. /\ TablesTyped /\ NodesTyped /\ CallsRight
      /\ InUser \in Calls /\ InUser.pc = "user"
  BY InUserType DEF CountsInv, InUser
<1>2. /\ call' = [call EXCEPT ![t] = InUser]
      /\ raced' = raced \ {t}
      /\ UNCHANGED <<writers, child, name, null_next, mounted, alive, handles,
                     panic, leaked, causes>>
  BY DEF LoadEnd, ReadEnd, Return, nodes
<1>3. \/ call[t].pc = "load" /\ readers' = Less(readers, call[t].node)
      \/ call[t].pc = "read" /\ readers' = readers
  BY DEF LoadEnd, ReadEnd, Runs, nodes
<1>0. call'[t] = InUser /\ \A u \in Task \ {t} : call'[u] = call[u]
  BY <1>1, <1>2, CallChanges
<1>4. readers' \in [Node -> Int]
  BY <1>1, <1>3 DEF Less, NodesTyped
<1>5. ASSUME NEW n \in Node
      PROVE  readers'[n] = readers[n] + (Holds(t, n)' - Holds(t, n))
                                      + (Leaked(n)' - Leaked(n))
                                      + (InMount(n)' - InMount(n))
  <2>1. Leaked(n)' = Leaked(n) /\ InMount(n)' = InMount(n)
    BY <1>2 DEF Leaked, InMount
  <2>2. Leaked(n) \in Nat /\ InMount(n) \in Nat /\ readers[n] \in Int
    BY <1>1, LeakedTyped DEF NodesTyped
  <2>3. /\ Holds(t, n)' = 0
        /\ call[t].pc = "load" => Holds(t, n) = One(call[t].node = n)
        /\ call[t].pc = "read" => Holds(t, n) = 0
    BY <1>1, <1>0, CallUser, CallHolds
  <2>4. /\ call[t].pc = "load" => readers'[n] = readers[n] - One(call[t].node = n)
        /\ call[t].pc = "read" => readers'[n] = readers[n]
    BY <1>1, <1>3 DEF Less, NodesTyped, One
  <2> QED
    BY <1>3, <2>1, <2>2, <2>3, <2>4 DEF One
<1>6. NodesTyped'
  BY <1>1, <1>2, <1>4 DEF NodesTyped
<1>7. CallsRight'
  BY <1>1, <1>2, <1>0, CallsKept
<1> QED
  BY <1>1, <1>2, <1>5, <1>6, <1>7, SleepCounts

LEMMA ReadCounts ==
    ASSUME CountsInv, NEW t \in Task, NEW i \in DOMAIN handles[t], SysRead(t, i)
    PROVE  CountsInv'
<1> DEFINE f == handles[t][i].node
           c == [InUser EXCEPT !.pc = "read", !.node = f]
<1>1. TablesTyped /\ NodesTyped /\ CallsRight
  BY DEF CountsInv
<1>2. f \in Node
  BY DEF SysRead, Node
<1>3. c \in Calls /\ c.pc = "read"
  <2> HIDE DEF f
  <2> QED
    BY <1>2, InUserType DEF Calls, InUser
<1>4. /\ call[t].pc = "user" /\ call' = [call EXCEPT ![t] = c]
      /\ raced' \subseteq Task
      /\ UNCHANGED <<readers, writers, child, name, null_next, mounted, alive, handles,
                     panic, leaked, causes>>
  BY <1>1, BeginUseTyped DEF SysRead, Runs, nodes, NodesTyped
<1> HIDE DEF c
<1>0. call'[t] = c /\ \A u \in Task \ {t} : call'[u] = call[u]
  BY <1>3, <1>4, CallChanges
<1>5. ASSUME NEW n \in Node
      PROVE  readers'[n] = readers[n] + (Holds(t, n)' - Holds(t, n))
                                      + (Leaked(n)' - Leaked(n))
                                      + (InMount(n)' - InMount(n))
  <2>1. Leaked(n)' = Leaked(n) /\ InMount(n)' = InMount(n)
    BY <1>4 DEF Leaked, InMount
  <2>2. Leaked(n) \in Nat /\ InMount(n) \in Nat /\ readers[n] \in Int
    BY <1>1, LeakedTyped DEF NodesTyped
  <2>3. Holds(t, n) = 0 /\ Holds(t, n)' = 0
    BY <1>3, <1>4, <1>0, CallUser
  <2> QED
    BY <1>4, <2>1, <2>2, <2>3
<1>6. NodesTyped'
  BY <1>1, <1>4 DEF NodesTyped
<1>7. CallsRight'
  BY <1>1, <1>3, <1>4, <1>0, CallsKept
<1> QED
  BY <1>3, <1>4, <1>5, <1>6, <1>7, SleepCounts

LEMMA SysCloseCounts ==
    ASSUME CountsInv, NEW t \in Task, NEW i \in DOMAIN handles[t], SysClose(t, i)
    PROVE  CountsInv'
<1> DEFINE h == handles[t][i]
<1>1. TablesTyped /\ NodesTyped /\ CallsRight /\ IsFiniteSet(OpenSlots)
  BY DEF CountsInv
<1>2. h \in Handle /\ h # Null
  BY <1>1 DEF SysClose, TablesTyped, Slot
<1>3. TablesTyped'
  <2>1. handles' = [handles EXCEPT ![t] = [handles[t] EXCEPT ![i] = Null]]
    BY <1>1 DEF SysClose, TablesTyped
  <2>2. [handles[t] EXCEPT ![i] = Null] \in Seq(Slot)
    BY <1>1 DEF TablesTyped, Slot
  <2> QED
    BY <1>1, <2>1, <2>2 DEF SysClose, TablesTyped
<1>4. /\ IsFiniteSet(OpenSlots')
      /\ \A n, kind :
           /\ Count(n, kind) \in Nat /\ Count(n, kind)' \in Nat
           /\ Count(n, kind)' = Count(n, kind) - One(Counts(handles[t], i, n, kind))
  BY <1>1, <1>3, CloseCounts DEF SysClose
<1>5. /\ readers' = IF "r" \in h.mode THEN Less(readers, h.node) ELSE readers
      /\ writers' = IF "w" \in h.mode THEN Less(writers, h.node) ELSE writers
      /\ UNCHANGED <<child, name, null_next, mounted, alive, call, raced, leaked, causes>>
  BY DEF SysClose, history
<1>6. \A n, kind : Counts(handles[t], i, n, kind) <=> h.node = n /\ kind \in h.mode
  BY <1>2 DEF Counts
<1> HIDE DEF h
<1>7. h.node \in Node
  BY <1>2 DEF Handle
<1>8. /\ readers' \in [Node -> Int] /\ writers' \in [Node -> Int]
      /\ \A n \in Node : /\ readers'[n] = readers[n] - One(h.node = n /\ "r" \in h.mode)
                         /\ writers'[n] = writers[n] - One(h.node = n /\ "w" \in h.mode)
  BY <1>1, <1>5, <1>7 DEF NodesTyped, Less, One
<1>9. Balanced(t)
  <2>1. ASSUME NEW n \in Node
        PROVE  /\ Leaked(n)' = Leaked(n) /\ InMount(n)' = InMount(n)
               /\ Holds(t, n)' = Holds(t, n)
               /\ Leaked(n) \in Nat /\ InMount(n) \in Nat /\ Holds(t, n) \in Nat
               /\ readers[n] \in Int /\ writers[n] \in Int
    BY <1>1, <1>5, LeakedTyped, CallCounts DEF Leaked, InMount, Holds, NodesTyped
  <2>2. ASSUME NEW n \in Node, NEW kind
        PROVE  Count(n, kind)' = Count(n, kind) - One(h.node = n /\ kind \in h.mode)
    BY <1>4, <1>6 DEF One
  <2> QED
    BY <1>4, <1>8, <2>1, <2>2 DEF Balanced, One
<1>10. NodesTyped' /\ CallsRight'
  BY <1>1, <1>5, <1>8 DEF NodesTyped, CallsRight
<1> QED
  BY <1>3, <1>4, <1>5, <1>9, <1>10, Conclude

(* The mount: the disk is open from sys_mount on.                           *)
LEMMA MountCounts ==
    ASSUME CountsInv, NEW t \in Task, SysMount(t) \/ Redirect(t)
    PROVE  CountsInv'
<1>1. /\ TablesTyped /\ NodesTyped /\ CallsRight
      /\ InUser \in Calls /\ InUser.pc = "user"
  BY InUserType DEF CountsInv, InUser
<1> DEFINE c == [InUser EXCEPT !.pc = "mount"]
<1>2. c \in Calls /\ c.pc = "mount"
  BY InUserType DEF Calls, InUser
<1> HIDE DEF c
<1>3. UNCHANGED <<writers, child, name, null_next, alive, handles, raced, leaked, causes>>
  BY DEF SysMount, Redirect, history
<1>4. CASE SysMount(t)
  <2>1. /\ call[t].pc = "user" /\ call' = [call EXCEPT ![t] = c]
        /\ mounted = "no" /\ mounted' = "reading" /\ readers' = More(readers, Disk)
    BY <1>4 DEF SysMount, Runs, c
  <2>2. call'[t] = c /\ \A u \in Task \ {t} : call'[u] = call[u]
    BY <1>2, <2>1, CallChanges
  <2>3. /\ readers' \in [Node -> Int]
        /\ \A n \in Node : readers'[n] = readers[n] + One(n = Disk)
    BY <1>1, <2>1, NodesAre DEF More, NodesTyped, One
  <2>4. ASSUME NEW n \in Node
        PROVE  readers'[n] = readers[n] + (Holds(t, n)' - Holds(t, n))
                                        + (Leaked(n)' - Leaked(n))
                                        + (InMount(n)' - InMount(n))
    <3>1. Leaked(n)' = Leaked(n) /\ InMount(n)' = One(n = Disk) /\ InMount(n) = 0
      BY <1>3, <2>1 DEF Leaked, InMount, One
    <3>2. Leaked(n) \in Nat /\ readers[n] \in Int
      BY <1>1, LeakedTyped DEF NodesTyped
    <3>3. Holds(t, n) = 0 /\ Holds(t, n)' = 0
      BY <1>2, <2>1, <2>2, CallUser
    <3> QED
      BY <2>3, <3>1, <3>2, <3>3 DEF One
  <2>5. NodesTyped'
    BY <1>1, <1>3, <2>1, <2>3 DEF NodesTyped
  <2>6. CallsRight'
    BY <1>1, <1>2, <2>1, <2>2, CallsKept
  <2> QED
    BY <1>2, <1>3, <2>1, <2>4, <2>5, <2>6, SleepCounts
<1>5. CASE Redirect(t)
  <2>1. /\ call[t].pc = "mount" /\ call' = [call EXCEPT ![t] = InUser]
        /\ mounted # "no" /\ mounted' = "yes" /\ readers' = readers
    BY <1>1, <1>5 DEF Redirect, Runs, Return, CallsRight
  <2>2. call'[t] = InUser /\ \A u \in Task \ {t} : call'[u] = call[u]
    BY <1>1, <2>1, CallChanges
  <2>3. ASSUME NEW n \in Node
        PROVE  readers'[n] = readers[n] + (Holds(t, n)' - Holds(t, n))
                                        + (Leaked(n)' - Leaked(n))
                                        + (InMount(n)' - InMount(n))
    <3>1. Leaked(n)' = Leaked(n) /\ InMount(n)' = InMount(n)
      BY <1>3, <2>1 DEF Leaked, InMount, One
    <3>2. Leaked(n) \in Nat /\ InMount(n) \in Nat /\ readers[n] \in Int
      BY <1>1, LeakedTyped DEF NodesTyped
    <3>3. Holds(t, n) = 0 /\ Holds(t, n)' = 0
      BY <1>1, <2>1, <2>2, CallUser
    <3> QED
      BY <2>1, <3>1, <3>2, <3>3
  <2>4. NodesTyped'
    BY <1>1, <1>3, <2>1 DEF NodesTyped
  <2>5. CallsRight'
    BY <1>1, <2>1, <2>2, CallsKept
  <2> QED
    BY <1>1, <1>3, <2>1, <2>3, <2>4, <2>5, SleepCounts
<1> QED
  BY <1>4, <1>5

(* A step that changes no count and no call.                                *)
LEMMA ForkCounts ==
    ASSUME CountsInv, alive' \subseteq Task,
           UNCHANGED <<readers, writers, child, name, null_next, mounted, handles, call,
                       raced, leaked, causes>>
    PROVE  CountsInv'
<1>1. Boot \in Task /\ TablesTyped /\ NodesTyped /\ CallsRight
  BY VfsAssumption DEF CountsInv
<1>2. ASSUME NEW n \in Node
      PROVE  readers'[n] = readers[n] + (Holds(Boot, n)' - Holds(Boot, n))
                                      + (Leaked(n)' - Leaked(n))
                                      + (InMount(n)' - InMount(n))
  <2>1. /\ Leaked(n)' = Leaked(n) /\ InMount(n)' = InMount(n)
        /\ Holds(Boot, n)' = Holds(Boot, n)
    BY DEF Leaked, InMount, Holds
  <2>2. /\ Leaked(n) \in Nat /\ InMount(n) \in Nat /\ readers[n] \in Int
        /\ Holds(Boot, n) \in Nat
    BY <1>1, LeakedTyped, CallCounts DEF NodesTyped
  <2> QED
    BY <2>1, <2>2
<1>3. NodesTyped' /\ CallsRight'
  BY <1>1 DEF NodesTyped, CallsRight
<1> QED
  BY <1>1, <1>2, <1>3, InUserType, SleepCounts

LEMMA TaskExitCounts ==
    ASSUME CountsInv, NEW t \in Task, TaskExit(t)
    PROVE  CountsInv'
<1>1. TablesTyped /\ NodesTyped /\ CallsRight /\ IsFiniteSet(OpenSlots)
  BY DEF CountsInv
<1>2. /\ readers' = [n \in Node |-> readers[n] - Opened(t, n, "r")]
      /\ writers' = [n \in Node |-> writers[n] - Opened(t, n, "w")]
      /\ handles' = [handles EXCEPT ![t] = <<>>]
      /\ alive' = alive \ {t}
      /\ UNCHANGED <<child, name, null_next, mounted, call, raced, leaked, causes>>
  BY DEF TaskExit, history
<1>3. TablesTyped'
  <2>1. <<>> \in Seq(Slot)
    OBVIOUS
  <2> QED
    BY <1>1, <1>2, <2>1 DEF TablesTyped
<1>4. /\ IsFiniteSet(OpenSlots')
      /\ \A n, kind :
           /\ Count(n, kind) \in Nat /\ Count(n, kind)' \in Nat
           /\ Opened(t, n, kind) \in Nat
           /\ Count(n, kind)' = Count(n, kind) - Opened(t, n, kind)
  BY <1>1, <1>2, <1>3, ExitCounts
<1>5. readers' \in [Node -> Int] /\ writers' \in [Node -> Int]
  <2>1. \A n \in Node : /\ readers[n] - Opened(t, n, "r") \in Int
                        /\ writers[n] - Opened(t, n, "w") \in Int
    BY <1>1, <1>4 DEF NodesTyped
  <2> QED
    BY <1>2, <2>1
<1>6. Balanced(t)
  <2>1. ASSUME NEW n \in Node
        PROVE  /\ Leaked(n)' = Leaked(n) /\ InMount(n)' = InMount(n)
               /\ Holds(t, n)' = Holds(t, n)
               /\ Leaked(n) \in Nat /\ InMount(n) \in Nat /\ Holds(t, n) \in Nat
               /\ readers[n] \in Int /\ writers[n] \in Int
    BY <1>1, <1>2, LeakedTyped, CallCounts DEF Leaked, InMount, Holds, NodesTyped
  <2>2. ASSUME NEW n \in Node
        PROVE  /\ readers'[n] = readers[n] - Opened(t, n, "r")
               /\ writers'[n] = writers[n] - Opened(t, n, "w")
    BY <1>2
  <2> QED
    BY <1>4, <2>1, <2>2 DEF Balanced
<1>7. NodesTyped' /\ CallsRight'
  BY <1>1, <1>2, <1>5 DEF NodesTyped, CallsRight
<1> QED
  BY <1>2, <1>3, <1>4, <1>6, <1>7, Conclude

(* tree(): what it opens and does not close is leaked when it ends.         *)
LEMMA LeakGives ==
    ASSUME NEW S, NEW count \in [S -> Int], NEW dirs
    PROVE  /\ Leak(count, dirs) \in [S -> Int]
           /\ count \in [S -> Nat] => Leak(count, dirs) \in [S -> Nat]
           /\ \A n \in S : Leak(count, dirs)[n] = count[n] + One(n \in dirs)
BY DEF Leak, One

LEMMA LeakCounts ==
    ASSUME CountsInv, NEW t \in Task, NEW c \in Calls, NEW opened, NEW lost,
           call' = call \/ call' = [call EXCEPT ![t] = c],
           readers' = Leak(readers, opened),
           leaked' = Leak(leaked, lost),
           opened \subseteq Dirs, lost \subseteq Dirs,
           BeginUse(t) \/ raced' = raced \ {t} \/ raced' = raced,
           CallsRight',
           UNCHANGED <<writers, child, name, null_next, mounted, alive, handles, causes>>,
           \A n \in Node : One(n \in opened) = Holds(t, n)' - Holds(t, n) + One(n \in lost)
    PROVE  CountsInv'
<1>1. TablesTyped /\ NodesTyped
  BY DEF CountsInv
<1>2. /\ readers' \in [Node -> Int]
      /\ \A n \in Node : readers'[n] = readers[n] + One(n \in opened)
  <2>1. readers \in [Node -> Int]
    BY <1>1 DEF NodesTyped
  <2>2. /\ Leak(readers, opened) \in [Node -> Int]
        /\ \A n \in Node : Leak(readers, opened)[n] = readers[n] + One(n \in opened)
    BY <2>1, LeakGives
  <2> QED
    BY <2>2
<1>3. /\ leaked' \in [Dirs -> Nat]
      /\ \A n \in Dirs : leaked'[n] = leaked[n] + One(n \in lost)
  <2>1. leaked \in [Dirs -> Nat] /\ leaked \in [Dirs -> Int]
    BY <1>1 DEF NodesTyped
  <2>2. /\ Leak(leaked, lost) \in [Dirs -> Nat]
        /\ \A n \in Dirs : Leak(leaked, lost)[n] = leaked[n] + One(n \in lost)
    BY <2>1, LeakGives
  <2> QED
    BY <2>2
<1>4. ASSUME NEW n \in Node
      PROVE  readers'[n] = readers[n] + (Holds(t, n)' - Holds(t, n))
                                      + (Leaked(n)' - Leaked(n))
                                      + (InMount(n)' - InMount(n))
  <2>1. InMount(n)' = InMount(n) /\ InMount(n) \in Nat /\ readers[n] \in Int
    BY <1>1, LeakedTyped DEF InMount, NodesTyped
  <2>2. Leaked(n)' = Leaked(n) + One(n \in lost) /\ Leaked(n) \in Nat
    BY <1>1, <1>3 DEF Leaked, NodesTyped, One
  <2>3. /\ \A u \in Task \ {t} : call'[u] = call[u]
    BY <1>1 DEF TablesTyped
  <2>4. Holds(t, n) \in Nat /\ Holds(t, n)' \in Nat
    BY <2>3, CallCounts
  <2>5. One(n \in opened) = Holds(t, n)' - Holds(t, n) + One(n \in lost)
    OBVIOUS
  <2>6. One(n \in lost) \in Int /\ One(n \in opened) \in Int
    BY DEF One
  <2> QED
    BY <1>2, <2>1, <2>2, <2>4, <2>5, <2>6
<1>5. raced' \subseteq Task
  BY <1>1, BeginUseTyped DEF NodesTyped
<1>6. NodesTyped'
  BY <1>1, <1>2, <1>3, <1>5 DEF NodesTyped
<1> QED
  BY <1>4, <1>6, SleepCounts

LEMMA TreeCounts ==
    ASSUME CountsInv, NEW t \in Task, Tree(t) \/ BeginTree(t) \/ TreeEnd(t)
    PROVE  CountsInv'
<1>1. /\ TablesTyped /\ NodesTyped /\ CallsRight
      /\ InUser \in Calls /\ InUser.pc = "user"
  BY InUserType DEF CountsInv, InUser
<1>2. UNCHANGED <<writers, child, name, null_next, mounted, alive, handles, causes>>
  BY DEF Tree, BeginTree, TreeEnd
<1>3. CASE Tree(t)
  <2> DEFINE d == {"root", "floppy", "devroot"}
  <2>1. /\ call[t].pc = "user" /\ call' = call /\ raced' = raced
        /\ readers' = Leak(readers, d) /\ leaked' = Leak(leaked, d) /\ d \subseteq Dirs
    BY <1>3 DEF Tree, Runs, Dirs
  <2>2. CallsRight'
    BY <1>1, <1>2, <2>1 DEF CallsRight
  <2> HIDE DEF d
  <2>3. \A n \in Node : One(n \in d) = Holds(t, n)' - Holds(t, n) + One(n \in d)
    <3> TAKE n \in Node
    <3>1. Holds(t, n) = 0 /\ Holds(t, n)' = 0
      BY <2>1, CallUser
    <3> QED
      BY <3>1 DEF One
  <2> QED
    BY <1>1, <1>2, <2>1, <2>2, <2>3, LeakCounts
<1>4. CASE BeginTree(t)
  <2> DEFINE d == {"root", "fat"}
             c == [InUser EXCEPT !.pc = "tree"]
  <2>1. c \in Calls /\ c.pc = "tree"
    BY InUserType DEF Calls, InUser
  <2>2. /\ call[t].pc = "user" /\ call' = [call EXCEPT ![t] = c] /\ BeginUse(t)
        /\ readers' = Leak(readers, d) /\ leaked' = leaked /\ d \subseteq Dirs
    BY <1>4 DEF BeginTree, Runs, Dirs
  <2> HIDE DEF c
  <2>3. call'[t] = c /\ \A u \in Task \ {t} : call'[u] = call[u]
    BY <2>1, <2>2, CallChanges
  <2>4. CallsRight'
    BY <1>1, <1>2, <2>1, <2>3, CallsKept
  <2>5. \A n \in Node : One(n \in d) = Holds(t, n)' - Holds(t, n) + One(n \in {})
    <3> TAKE n \in Node
    <3>1. Holds(t, n) = 0 /\ Holds(t, n)' = One(n \in d)
      BY <2>1, <2>2, <2>3, CallUser, CallHolds
    <3> QED
      BY <3>1 DEF One
  <2> HIDE DEF d
  <2>6. {} \subseteq Dirs /\ leaked' = Leak(leaked, {})
    BY <1>1, <2>2 DEF Leak, NodesTyped
  <2> QED
    BY <1>2, <2>1, <2>2, <2>4, <2>5, <2>6, LeakCounts
<1>5. CASE TreeEnd(t)
  <2> DEFINE d == {"devroot"}
             l == {"root", "fat", "devroot"}
  <2>1. /\ call[t].pc = "tree" /\ call' = [call EXCEPT ![t] = InUser] /\ raced' = raced \ {t}
        /\ readers' = Leak(readers, d) /\ leaked' = Leak(leaked, l)
        /\ d \subseteq Dirs /\ l \subseteq Dirs
    BY <1>5 DEF TreeEnd, Runs, Dirs, Return
  <2>2. call'[t] = InUser /\ \A u \in Task \ {t} : call'[u] = call[u]
    BY <1>1, <2>1, CallChanges
  <2>3. CallsRight'
    BY <1>1, <1>2, <2>2, CallsKept
  <2>4. \A n \in Node : One(n \in d) = Holds(t, n)' - Holds(t, n) + One(n \in l)
    <3> TAKE n \in Node
    <3>1. Holds(t, n) = One(n \in {"root", "fat"}) /\ Holds(t, n)' = 0
      BY <1>1, <2>1, <2>2, CallUser, CallHolds
    <3> QED
      BY <3>1 DEF One
  <2> HIDE DEF d, l
  <2> QED
    BY <1>1, <1>2, <2>1, <2>3, <2>4, LeakCounts
<1> QED
  BY <1>3, <1>4, <1>5

LEMMA TreeEntryCounts ==
    ASSUME CountsInv, NEW t \in Task, NEW i \in DOMAIN Files, NEW at \in DOMAIN Files,
           NEW n \in FatNodes, TreeEntry(t, i, at, n)
    PROVE  CountsInv'
<1> DEFINE c == [call[t] EXCEPT !.at = at]
<1>1. TablesTyped /\ NodesTyped /\ CallsRight /\ CountsInv
  BY DEF CountsInv
<1>2. /\ c \in Calls /\ c.pc = call[t].pc /\ c.node = call[t].node /\ c.name = call[t].name
  <2>1. at \in 0..Len(Files) /\ call[t] \in Calls
    BY <1>1, VfsAssumption DEF TablesTyped
  <2> QED
    BY <2>1 DEF Calls
<1>3. /\ call[t].pc = "tree" /\ call' = [call EXCEPT ![t] = c]
      /\ n \in Unmade /\ name' = [name EXCEPT ![n] = Files[i]]
      /\ AddToChildren(n) /\ BeginUse(t)
      /\ causes' = causes \cup {"tree"}
      /\ UNCHANGED <<readers, writers, mounted, alive, handles, leaked>>
  BY <1>1 DEF TreeEntry, Runs, TablesTyped
<1> HIDE DEF c
<1>4. call'[t] = c /\ \A u \in Task \ {t} : call'[u] = call[u]
  BY <1>1, <1>2, <1>3, CallChanges
<1>5. \A m \in Node : readers'[m] = readers[m] + (Holds(t, m)' - Holds(t, m))
                                              + (Leaked(m)' - Leaked(m))
                                              + (InMount(m)' - InMount(m))
  <2> TAKE m \in Node
  <2>1. Leaked(m)' = Leaked(m) /\ InMount(m)' = InMount(m)
    BY <1>3 DEF Leaked, InMount
  <2>2. Leaked(m) \in Nat /\ InMount(m) \in Nat /\ readers[m] \in Int
    BY <1>1, LeakedTyped DEF NodesTyped
  <2>3. Holds(t, m)' = Holds(t, m) /\ Holds(t, m) \in Nat
    BY <1>2, <1>3, <1>4, CallHolds DEF One
  <2> QED
    BY <1>3, <2>1, <2>2, <2>3
<1>6. NodesTyped'
  <2>1. n # Null
    BY NodeAssumption DEF Node
  <2>2. child \in Seq(FatNodes) /\ <<n>> \in Seq(FatNodes) /\ null_next \in Seq(FatNodes)
    BY <1>1 DEF NodesTyped
  <2>3. <<n>> \o child \in Seq(FatNodes)
    BY <2>2
  <2>4. child' = <<n>> \o child /\ null_next' = null_next
    BY <1>3, <2>1 DEF AddToChildren
  <2>5. child' \in Seq(FatNodes) /\ null_next' \in Seq(FatNodes)
    BY <2>2, <2>3, <2>4
  <2>6. raced' \subseteq Task
    BY <1>1, <1>3, BeginUseTyped DEF NodesTyped
  <2>7. name' \in [FatNodes -> Names \cup {Null}]
    <3>1. Files[i] \in Names
      BY VfsAssumption
    <3>2. name \in [FatNodes -> Names \cup {Null}]
      BY <1>1 DEF NodesTyped
    <3> QED
      BY <1>3, <3>1, <3>2
  <2> QED
    BY <1>1, <1>3, <2>5, <2>6, <2>7 DEF NodesTyped
<1>7. CallsRight'
  BY <1>1, <1>2, <1>3, <1>4, CallsKept
<1> QED
  BY <1>1, <1>2, <1>3, <1>5, <1>6, <1>7, SleepCounts

LEMMA StepCounts == CountsInv /\ [Next]_vars => CountsInv'
<1> SUFFICES ASSUME CountsInv, [Next]_vars PROVE CountsInv'
  OBVIOUS
<1>1. CASE UNCHANGED vars
  <2>1. alive' \subseteq Task
    BY <1>1 DEF vars, CountsInv, NodesTyped
  <2>2. UNCHANGED <<readers, writers, child, name, null_next, mounted, handles, call,
                    raced, leaked, causes>>
    BY <1>1 DEF vars, nodes, history
  <2> QED
    BY <2>1, <2>2, ForkCounts
<1>2. ASSUME NEW t \in Task, TaskStep(t)
      PROVE  CountsInv'
  <2>1. CASE \E n \in Node, mode \in Modes : SysPath(t, "open", n, mode)
    BY <2>1, UseCounts, VfsAssumption DEF SysPath, Runs
  <2>2. CASE \E n \in Node : SysPath(t, "exec", n, {"r"})
    BY <2>2, UseCounts DEF SysPath, Runs
  <2>3. CASE \E x \in Names, mode \in Modes : BeginFind(t, "open", x, mode)
    BY <2>3, BeginFindCounts, VfsAssumption
  <2>4. CASE \E x \in Names : BeginFind(t, "exec", x, {"r"})
    <3>1. {"r"} \in SUBSET {"r", "w"}
      OBVIOUS
    <3> QED
      BY <2>4, <3>1, BeginFindCounts
  <2>5. CASE \E n \in FatNodes \cup {Null} : FindReturn(t, n)
    BY <2>5, FindReturnCounts
  <2>6. CASE LoadEnd(t) \/ ReadEnd(t)
    BY <2>6, EndCounts
  <2>7. CASE \E i \in DOMAIN handles[t] : SysRead(t, i)
    BY <2>7, ReadCounts
  <2>8. CASE \E i \in DOMAIN handles[t] : SysClose(t, i)
    BY <2>8, SysCloseCounts
  <2>9. CASE SysMount(t) \/ Redirect(t)
    BY <2>9, MountCounts
  <2>10. CASE \E c \in Task : SysFork(t, c)
    <3>1. alive' \subseteq Task
      BY <2>10 DEF SysFork, CountsInv, NodesTyped
    <3>2. UNCHANGED <<readers, writers, child, name, null_next, mounted, handles, call,
                      raced, leaked, causes>>
      BY <2>10 DEF SysFork, nodes, history
    <3> QED
      BY <3>1, <3>2, ForkCounts
  <2>11. CASE TaskExit(t)
    BY <2>11, TaskExitCounts
  <2>12. CASE Tree(t) \/ BeginTree(t) \/ TreeEnd(t)
    BY <2>12, TreeCounts
  <2>13. CASE \E i, at \in DOMAIN Files, n \in FatNodes : TreeEntry(t, i, at, n)
    BY <2>13, TreeEntryCounts
  <2> QED
    BY <1>2, <2>1, <2>2, <2>3, <2>4, <2>5, <2>6, <2>7, <2>8, <2>9, <2>10, <2>11,
       <2>12, <2>13 DEF TaskStep
<1> QED
  BY <1>1, <1>2 DEF Next

LEMMA InitCounts == Init => CountsInv
<1> SUFFICES ASSUME Init PROVE CountsInv
  OBVIOUS
<1>1. TablesTyped
  <2>1. <<>> \in Seq(Slot)
    OBVIOUS
  <2> QED
    BY <2>1, InUserType DEF Init, TablesTyped
<1>2. OpenSlots = {}
  BY DEF Init, OpenSlots
<1>3. AtBoot \in [Dirs -> Nat] /\ Dirs \subseteq Node
  BY DEF AtBoot, Node
<1>4. NodesTyped
  <2>1. <<>> \in Seq(FatNodes)
    OBVIOUS
  <2>2. readers \in [Node -> Int] /\ writers \in [Node -> Int]
    BY <1>3 DEF Init
  <2> QED
    BY <1>3, <2>1, <2>2, VfsAssumption DEF Init, NodesTyped
<1>5. CallsRight
  BY DEF Init, CallsRight, InUser
<1>6. ASSUME NEW n \in Node
      PROVE  /\ writers[n] = Count(n, "w")
             /\ readers[n] = Count(n, "r") + InCalls(n) + Leaked(n) + InMount(n)
  <2>1. Count(n, "w") = 0 /\ Count(n, "r") = 0
    <3>1. Slots(n, "w") = {} /\ Slots(n, "r") = {}
      BY <1>2 DEF Slots
    <3> QED
      BY <3>1, FS_EmptySet DEF Count
  <2>2. InCalls(n) = 0
    <3>1. /\ {t \in Task : call[t].node = n /\ call[t].pc \in {"open", "exec", "load"}} = {}
          /\ {t \in Task : call[t].pc = "tree" /\ n \in {"root", "fat"}} = {}
      BY DEF Init, InUser
    <3> QED
      BY <3>1, FS_EmptySet DEF InCalls
  <2>3. InMount(n) = 0 /\ writers[n] = 0
    BY DEF Init, InMount, One
  <2>4. readers[n] = Leaked(n) /\ Leaked(n) \in Nat
    BY <1>3 DEF Init, Leaked
  <2> QED
    BY <2>1, <2>2, <2>3, <2>4
<1>7. CountsMatch
  BY <1>6 DEF CountsMatch, Count, Leaked, InMount, One
<1>8. IsFiniteSet(OpenSlots)
  BY <1>2, FS_EmptySet
<1> QED
  BY <1>1, <1>4, <1>5, <1>7, <1>8 DEF CountsInv

LEMMA CountsInvariant == Spec => []CountsInv
<1> QED
  BY InitCounts, StepCounts, PTL DEF Spec

(* The counts that file_open and directory_open test: whatever calls sleep, *)
(* whatever tree() leaks and however a task ends, they are the handles that *)
(* there are.                                                               *)
THEOREM CountsRight == Spec => []CountsMatch
<1>1. CountsInv => CountsMatch
  BY DEF CountsInv
<1> QED
  BY <1>1, CountsInvariant, PTL

-----------------------------------------------------------------------------
(* Types *)

PanicTyped == panic \in {"none", "file op on non-file", "adding node to two dirs"}

LEMMA StepPanic == PanicTyped /\ [Next]_vars => PanicTyped'
<1> SUFFICES ASSUME PanicTyped, [Next]_vars PROVE PanicTyped'
  OBVIOUS
<1>1. CASE UNCHANGED vars
  BY <1>1 DEF vars, PanicTyped
<1>2. ASSUME NEW t \in Task, TaskStep(t)
      PROVE  PanicTyped'
  <2>1. ASSUME NEW n, NEW mode, NEW count, OpenFile(t, n, mode, count) \/ ExecFile(t, n, count)
        PROVE  PanicTyped'
    BY <2>1, Zenon DEF OpenFile, ExecFile, PanicTyped
  <2>2. CASE \/ \E n \in Node, mode \in Modes : SysPath(t, "open", n, mode)
             \/ \E n \in Node : SysPath(t, "exec", n, {"r"})
    BY <2>1, <2>2, Zenon DEF SysPath, Use
  <2>3. CASE \E n \in FatNodes \cup {Null} : FindReturn(t, n)
    BY <2>1, <2>3, Zenon DEF FindReturn, PanicTyped
  <2>4. CASE \/ \E x \in Names, mode \in Modes : BeginFind(t, "open", x, mode)
             \/ \E x \in Names : BeginFind(t, "exec", x, {"r"})
    BY <2>4, Zenon DEF BeginFind, PanicTyped
  <2>5. CASE LoadEnd(t) \/ ReadEnd(t) \/ SysMount(t) \/ Redirect(t) \/ TaskExit(t)
    BY <2>5, Zenon DEF LoadEnd, ReadEnd, SysMount, Redirect, TaskExit, PanicTyped
  <2>6. CASE \/ \E i \in DOMAIN handles[t] : SysRead(t, i)
             \/ \E i \in DOMAIN handles[t] : SysClose(t, i)
             \/ \E c \in Task : SysFork(t, c)
    BY <2>6, Zenon DEF SysRead, SysClose, SysFork, PanicTyped
  <2>7. CASE Tree(t) \/ BeginTree(t) \/ TreeEnd(t)
    BY <2>7, Zenon DEF Tree, BeginTree, TreeEnd, PanicTyped
  <2>8. CASE \E i, at \in DOMAIN Files, n \in FatNodes : TreeEntry(t, i, at, n)
    BY <2>8, Zenon DEF TreeEntry, PanicTyped
  <2> QED
    BY <1>2, <2>2, <2>3, <2>4, <2>5, <2>6, <2>7, <2>8 DEF TaskStep
<1> QED
  BY <1>1, <1>2 DEF Next

(* Every variable of Vfs keeps its type.  That the counts never fall below  *)
(* zero, where the code's unsigned ones would wrap, is CountsMatch.         *)
THEOREM TypeCorrect == Spec => []TypeOK
<1>1. Init => PanicTyped
  BY Zenon DEF Init, PanicTyped
<1>2. ASSUME CountsInv, PanicTyped
      PROVE  TypeOK
  <2>1. /\ TablesTyped /\ NodesTyped /\ CountsMatch /\ IsFiniteSet(OpenSlots)
    BY <1>2 DEF CountsInv
  <2>2. ASSUME NEW n \in Node
        PROVE  readers[n] \in Nat /\ writers[n] \in Nat
    <3>1. Count(n, "w") \in Nat /\ Count(n, "r") \in Nat
      <4>1. Slots(n, "w") \in SUBSET OpenSlots /\ Slots(n, "r") \in SUBSET OpenSlots
        BY DEF Slots
      <4> QED
        BY <2>1, <4>1, FS_Subset, FS_CardinalityType DEF Count
    <3>2. InCalls(n) \in Nat
      <4>1. /\ {t \in Task : call[t].node = n /\ call[t].pc \in {"open", "exec", "load"}}
                \in SUBSET Task
            /\ {t \in Task : call[t].pc = "tree" /\ n \in {"root", "fat"}} \in SUBSET Task
        OBVIOUS
      <4> QED
        BY <4>1, VfsAssumption, FS_Subset, FS_CardinalityType DEF InCalls
    <3>3. Leaked(n) \in Nat /\ InMount(n) \in Nat
      BY <2>1, LeakedTyped DEF NodesTyped
    <3> QED
      BY <2>1, <3>1, <3>2, <3>3, CountsAre
  <2>3. readers \in [Node -> Nat] /\ writers \in [Node -> Nat]
    BY <2>1, <2>2 DEF NodesTyped
  <2>4. panic \in {"none", "file op on non-file", "adding node to two dirs"}
    BY <1>2 DEF PanicTyped
  <2>5. /\ child \in Seq(FatNodes)
        /\ name \in [FatNodes -> Names \cup {Null}]
        /\ null_next \in Seq(FatNodes)
        /\ mounted \in {"no", "reading", "yes"}
        /\ alive \subseteq Task
        /\ raced \subseteq Task
        /\ leaked \in [Dirs -> Nat]
        /\ causes \subseteq {"race", "tree", "miss"}
    BY <2>1 DEF NodesTyped
  <2>6. /\ handles \in [Task -> Seq(Handle \cup {Null})]
        /\ call \in [Task -> [pc : {"user", "open", "exec", "load", "read",
                                    "tree", "mount"},
                              node : Node \cup {Null}, name : Names \cup {Null},
                              mode : SUBSET {"r", "w"}, at : 0..Len(Files)]]
    BY <2>1 DEF TablesTyped, Slot, Calls
  <2> QED
    BY <2>3, <2>4, <2>5, <2>6, Zenon DEF TypeOK
<1> QED
  BY <1>1, <1>2, StepPanic, CountsInvariant, PTL DEF Spec

-----------------------------------------------------------------------------
(* Writers *)

(* By node, nobody shares with a writer.                                    *)
Alone ==
    \A t, u \in Task : \A i \in DOMAIN handles[t], j \in DOMAIN handles[u] :
        /\ <<t, i>> # <<u, j>>
        /\ handles[t][i] # Null /\ handles[u][j] # Null
        /\ "w" \in handles[t][i].mode /\ handles[u][j].mode # {}
        => handles[t][i].node # handles[u][j].node

(* The FAT nodes that are open have been made.                              *)
HandlesNamed ==
    \A t \in Task : \A i \in DOMAIN handles[t] :
        handles[t][i] # Null /\ handles[t][i].node \in FatNodes
            => name[handles[t][i].node] # Null

Finds(t) == call[t].pc \in {"open", "exec"}

(* Until one of the causes, every node that has been made is in memory, a   *)
(* name has one node, and who looks for a name is alone and has no node.    *)
NamesInv ==
    causes = {} =>
        /\ \A f \in FatNodes : name[f] # Null => \E i \in DOMAIN child : child[i] = f
        /\ \A f, g \in FatNodes : name[f] # Null /\ name[f] = name[g] => f = g
        /\ \A t \in Task : Finds(t) => \A f \in FatNodes : name[f] # call[t].name
        /\ \A t, u \in Task : Finds(t) /\ Finds(u) /\ call[t].name = call[u].name => t = u

WriterInv == CountsInv /\ Alone /\ HandlesNamed /\ NamesInv

(* A handle in a table is in the counts.                                    *)
LEMMA OpenCounted ==
    ASSUME CountsInv, NEW t \in Task, NEW i \in DOMAIN handles[t], handles[t][i] # Null,
           NEW n \in Node, handles[t][i].node = n
    PROVE  /\ "w" \in handles[t][i].mode => writers[n] > 0
           /\ "r" \in handles[t][i].mode => readers[n] > 0
<1>1. TablesTyped /\ NodesTyped /\ CountsMatch /\ IsFiniteSet(OpenSlots)
  BY DEF CountsInv
<1>2. ASSUME NEW kind, kind \in handles[t][i].mode
      PROVE  Count(n, kind) \in Nat /\ Count(n, kind) > 0
  <2>1. i \in Nat
    BY <1>1 DEF TablesTyped
  <2>2. Slots(n, kind) = SlotsIn(handles, n, kind)
    BY <1>1, SlotsAre
  <2>3. <<t, i>> \in Slots(n, kind)
    BY <1>2, <2>1, <2>2 DEF SlotsIn, Counts
  <2>4. IsFiniteSet(Slots(n, kind))
    <3>1. Slots(n, kind) \in SUBSET OpenSlots
      BY DEF Slots
    <3> QED
      BY <1>1, <3>1, FS_Subset
  <2>5. Cardinality(Slots(n, kind)) \in Nat /\ Cardinality(Slots(n, kind)) # 0
    BY <2>3, <2>4, FS_CardinalityType, FS_EmptySet
  <2> QED
    BY <2>5 DEF Count
<1>3. Leaked(n) \in Nat /\ InMount(n) \in Nat
  BY <1>1, LeakedTyped DEF NodesTyped
<1>4. InCalls(n) \in Nat
  <2>1. /\ {u \in Task : call[u].node = n /\ call[u].pc \in {"open", "exec", "load"}}
            \in SUBSET Task
        /\ {u \in Task : call[u].pc = "tree" /\ n \in {"root", "fat"}} \in SUBSET Task
    OBVIOUS
  <2> QED
    BY <2>1, VfsAssumption, FS_Subset, FS_CardinalityType DEF InCalls
<1>5. /\ writers[n] = Count(n, "w")
      /\ readers[n] = Count(n, "r") + InCalls(n) + Leaked(n) + InMount(n)
  BY <1>1, CountsAre
<1> QED
  BY <1>2, <1>3, <1>4, <1>5

(* What a step does to the tables: it closes handles, or opens one on a     *)
(* node that is not busy and that has been made.                            *)
Shrinks ==
    \A t \in Task : \A i \in DOMAIN handles'[t] :
        handles'[t][i] # Null => i \in DOMAIN handles[t] /\ handles'[t][i] = handles[t][i]

Grows(t, n, mode) ==
    /\ ~Busy(n, mode)
    /\ n \in FatNodes => name'[n] # Null
    /\ handles' = [handles EXCEPT
            ![t] = TaskAddHandle(handles[t], [node |-> n, mode |-> mode])]

NamesStay == \A f \in FatNodes : name[f] # Null => name'[f] = name[f]

LEMMA ShrinkStep ==
    ASSUME WriterInv, Shrinks, NamesStay
    PROVE  Alone' /\ HandlesNamed'
<1>1. Alone'
  BY DEF WriterInv, Alone, Shrinks
<1>2. HandlesNamed'
  BY DEF WriterInv, HandlesNamed, Shrinks, NamesStay
<1> QED
  BY <1>1, <1>2

LEMMA GrowStep ==
    ASSUME WriterInv, NamesStay, NEW t \in Task, NEW n \in Node,
           NEW mode \in SUBSET {"r", "w"}, Grows(t, n, mode)
    PROVE  Alone' /\ HandlesNamed'
<1> DEFINE h == [node |-> n, mode |-> mode]
<1>1. h \in Handle /\ h.node = n /\ h.mode = mode
  BY DEF Handle
<1>2. handles' = [handles EXCEPT ![t] = TaskAddHandle(handles[t], h)]
  BY DEF Grows
<1> HIDE DEF h
<1>3. CountsInv /\ Alone /\ HandlesNamed /\ TablesTyped /\ NodesTyped
  BY DEF WriterInv, CountsInv
<1>4. /\ handles[t] \in Seq(Slot)
      /\ handles'[t] = TaskAddHandle(handles[t], h)
      /\ \A u \in Task \ {t} : handles'[u] = handles[u]
  BY <1>2, <1>3 DEF TablesTyped
<1>5. PICK k \in Nat :
         /\ k \in DOMAIN handles'[t] /\ handles'[t][k] = h
         /\ \A j \in Nat \ {k} :
              \/ /\ j \in DOMAIN handles[t] /\ j \in DOMAIN handles'[t]
                 /\ handles'[t][j] = handles[t][j]
              \/ /\ j \notin DOMAIN handles[t]
                 /\ j \notin DOMAIN handles'[t] \/ handles'[t][j] = Null
  BY <1>1, <1>4, TableAdds
<1>6. TaskAddHandle(handles[t], h) \in Seq(Slot)
  BY <1>1, <1>4, TableKeeps
<1>7. ASSUME NEW u \in Task, NEW j \in DOMAIN handles'[u], handles'[u][j] # Null,
             <<u, j>> # <<t, k>>
      PROVE  /\ j \in DOMAIN handles[u] /\ handles'[u][j] = handles[u][j]
             /\ handles[u][j] \in Handle
  <2>1. j \in DOMAIN handles[u] /\ handles'[u][j] = handles[u][j]
    <3>1. CASE u = t
      <4>1. j \in Nat
        BY <1>4, <1>6, <3>1
      <4> QED
        BY <1>5, <1>7, <3>1, <4>1
    <3>2. CASE u # t
      BY <1>4, <3>2
    <3> QED
      BY <3>1, <3>2
  <2> QED
    BY <1>3, <1>7, <2>1 DEF TablesTyped, Slot
<1>8. ASSUME NEW u \in Task, NEW j \in DOMAIN handles[u], handles[u][j] # Null,
             handles[u][j].node = n
      PROVE  /\ "w" \in mode => ~ ("w" \in handles[u][j].mode) /\ ~ ("r" \in handles[u][j].mode)
             /\ "r" \in mode => ~ ("w" \in handles[u][j].mode)
  BY <1>3, <1>8, OpenCounted DEF Grows, Busy, NodesTyped
<1>9. Alone'
  <2>1. ASSUME NEW u \in Task, NEW v \in Task, NEW i \in DOMAIN handles'[u],
               NEW j \in DOMAIN handles'[v], <<u, i>> # <<v, j>>,
               handles'[u][i] # Null, handles'[v][j] # Null,
               "w" \in handles'[u][i].mode, handles'[v][j].mode # {}
        PROVE  handles'[u][i].node # handles'[v][j].node
    <3>1. CASE <<u, i>> = <<t, k>>
      <4>1. u = t /\ i = k /\ handles'[u][i] = h /\ <<v, j>> # <<t, k>>
        BY <1>5, <2>1, <3>1
      <4>2. /\ j \in DOMAIN handles[v] /\ handles'[v][j] = handles[v][j]
            /\ handles[v][j] \in Handle
        BY <1>7, <2>1, <4>1
      <4>3. "r" \in handles[v][j].mode \/ "w" \in handles[v][j].mode
        BY <2>1, <4>2 DEF Handle
      <4> QED
        BY <1>1, <1>8, <2>1, <4>1, <4>2, <4>3
    <3>2. CASE <<v, j>> = <<t, k>>
      <4>1. v = t /\ j = k /\ handles'[v][j] = h /\ <<u, i>> # <<t, k>>
        BY <1>5, <2>1, <3>2
      <4>2. i \in DOMAIN handles[u] /\ handles'[u][i] = handles[u][i]
        BY <1>7, <2>1, <4>1
      <4>3. "r" \in mode \/ "w" \in mode
        BY <1>1, <2>1, <4>1
      <4> QED
        BY <1>1, <1>8, <2>1, <4>1, <4>2, <4>3
    <3>3. CASE <<u, i>> # <<t, k>> /\ <<v, j>> # <<t, k>>
      <4>1. /\ i \in DOMAIN handles[u] /\ handles'[u][i] = handles[u][i]
            /\ j \in DOMAIN handles[v] /\ handles'[v][j] = handles[v][j]
        BY <1>7, <2>1, <3>3
      <4> QED
        BY <1>3, <2>1, <4>1 DEF Alone
    <3> QED
      BY <3>1, <3>2, <3>3
  <2> QED
    BY <2>1 DEF Alone
<1>10. HandlesNamed'
  <2>1. ASSUME NEW u \in Task, NEW i \in DOMAIN handles'[u], handles'[u][i] # Null,
               handles'[u][i].node \in FatNodes
        PROVE  name'[handles'[u][i].node] # Null
    <3>1. CASE <<u, i>> = <<t, k>>
      <4>1. handles'[u][i] = h
        BY <1>5, <3>1
      <4> QED
        BY <1>1, <2>1, <4>1 DEF Grows
    <3>2. CASE <<u, i>> # <<t, k>>
      <4>1. i \in DOMAIN handles[u] /\ handles'[u][i] = handles[u][i]
        BY <1>7, <2>1, <3>2
      <4> QED
        BY <1>3, <2>1, <4>1 DEF HandlesNamed, NamesStay
    <3> QED
      BY <3>1, <3>2
  <2> QED
    BY <2>1 DEF HandlesNamed
<1> QED
  BY <1>9, <1>10

(* A step without a lookup.                                                 *)
Quiet ==
    /\ name' = name /\ child' = child /\ causes' = causes
    /\ \A t \in Task : Finds(t)' => call'[t] = call[t]

LEMMA QuietStep ==
    ASSUME WriterInv, Quiet
    PROVE  NamesInv' /\ NamesStay
BY DEF WriterInv, NamesInv, Quiet, Finds, NamesStay

LEMMA QuietCall ==
    ASSUME WriterInv, NEW t \in Task, NEW c \in Calls, c.pc \notin {"open", "exec"},
           call' = call \/ call' = [call EXCEPT ![t] = c],
           UNCHANGED <<name, child, causes>>
    PROVE  Quiet
<1>1. call \in [Task -> Calls]
  BY DEF WriterInv, CountsInv, TablesTyped
<1>2. CASE call' = call
  BY <1>2 DEF Quiet
<1>3. CASE call' = [call EXCEPT ![t] = c]
  BY <1>1, <1>3 DEF Quiet, Finds
<1> QED
  BY <1>2, <1>3

LEMMA SameShrinks ==
    ASSUME handles' = handles
    PROVE  Shrinks
BY DEF Shrinks

LEMMA InMemoryNamed ==
    ASSUME CountsInv, NEW x \in Names, Named(x) # {}
    PROVE  InMemory(x) \in FatNodes /\ name[InMemory(x)] = x
<1>1. Named(x) \in SUBSET Nat /\ Named(x) \subseteq DOMAIN child /\ child \in Seq(FatNodes)
  BY DEF CountsInv, NodesTyped, Named
<1> DEFINE i == CHOOSE i \in Named(x) : \A j \in Named(x) : i <= j
<1>2. i \in Named(x)
  <2>1. \E k \in Named(x) : \A j \in Named(x) : k <= j
    BY <1>1, Least
  <2> QED
    BY <2>1
<1>3. InMemory(x) = child[i]
  BY DEF InMemory
<1> HIDE DEF i
<1>4. child[i] \in FatNodes /\ name[child[i]] = x
  BY <1>1, <1>2 DEF Named
<1> QED
  BY <1>3, <1>4

LEMMA PathStep ==
    ASSUME WriterInv, NEW t \in Task, NEW n \in Node, NEW op \in {"open", "exec"},
           NEW mode \in SUBSET {"r", "w"}, SysPath(t, op, n, mode)
    PROVE  (Alone /\ HandlesNamed /\ NamesInv)'
<1>1. /\ CountsInv /\ TablesTyped /\ call[t].pc = "user"
      /\ UNCHANGED <<name, child, causes>>
      /\ OpenFile(t, n, mode, readers) \/ ExecFile(t, n, readers)
  BY DEF SysPath, Runs, Use, WriterInv, CountsInv
<1>2. n \in FatNodes => name[n] # Null
  <2>1. \/ n \in {"root", "devices", "floppy", Disk} \cup Devices
        \/ \E x \in Names : Named(x) # {} /\ n = InMemory(x)
    BY DEF SysPath
  <2>2. CASE n \in {"root", "devices", "floppy", Disk} \cup Devices
    BY <2>2, NodeAssumption DEF Dirs
  <2>3. CASE \E x \in Names : Named(x) # {} /\ n = InMemory(x)
    BY <1>1, <2>3, InMemoryNamed, VfsAssumption
  <2> QED
    BY <2>1, <2>2, <2>3
<1>3. Quiet
  <2>1. /\ \A u \in Task \ {t} : call'[u] = call[u]
        /\ call'[t].pc \in {"user", "load"}
    <3>1. readers \in [Node -> Int]
      BY <1>1 DEF CountsInv, NodesTyped
    <3>2. Settles(t, readers)
      BY <1>1, <3>1, OpenFileSettles, ExecFileSettles
    <3> QED
      BY <3>2 DEF Settles
  <2> QED
    BY <1>1, <2>1 DEF Quiet, Finds
<1>4. NamesStay
  BY <1>3, QuietStep
<1>5. Alone' /\ HandlesNamed'
  <2>1. CASE handles' = handles
    BY <1>4, <2>1, SameShrinks, ShrinkStep
  <2>2. CASE handles' # handles
    <3>1. ~Busy(n, mode) /\ handles' = [handles EXCEPT
             ![t] = TaskAddHandle(handles[t], [node |-> n, mode |-> mode])]
      BY <1>1, <2>2, OpenFileCases, ExecFileCases
    <3>2. Grows(t, n, mode)
      BY <1>1, <1>2, <3>1 DEF Grows
    <3> QED
      BY <1>4, <3>2, GrowStep
  <2> QED
    BY <2>1, <2>2
<1> QED
  BY <1>3, <1>5, QuietStep

LEMMA BeginFindStep ==
    ASSUME WriterInv, NEW t \in Task, NEW x \in Names, NEW op \in {"open", "exec"},
           NEW mode \in SUBSET {"r", "w"}, BeginFind(t, op, x, mode)
    PROVE  (Alone /\ HandlesNamed /\ NamesInv)'
<1> DEFINE c == [InUser EXCEPT !.pc = op, !.node = "fat", !.name = x, !.mode = mode]
<1>1. c.name = x
  BY DEF InUser
<1>2. /\ call' = [call EXCEPT ![t] = c]
      /\ UNCHANGED <<name, child, handles>>
      /\ Named(x) = {}
      /\ causes' = IF \E u \in Task : call[u].pc \in {"open", "exec"} /\ call[u].name = x
                   THEN causes \cup {"race"} ELSE causes
      /\ call[t].pc = "user"
  BY DEF BeginFind, Runs
<1> HIDE DEF c
<1>3. TablesTyped /\ NodesTyped /\ NamesInv
  BY DEF WriterInv, CountsInv
<1>4. call'[t] = c /\ \A u \in Task \ {t} : call'[u] = call[u]
  BY <1>2, <1>3 DEF TablesTyped
<1>5. NamesStay
  BY <1>2 DEF NamesStay
<1>6. NamesInv'
  <2> SUFFICES ASSUME causes' = {}
               PROVE  /\ \A f \in FatNodes : name'[f] # Null => \E i \in DOMAIN child' : child'[i] = f
                      /\ \A f, g \in FatNodes : name'[f] # Null /\ name'[f] = name'[g] => f = g
                      /\ \A u \in Task : Finds(u)' => \A f \in FatNodes : name'[f] # call'[u].name
                      /\ \A u, v \in Task : Finds(u)' /\ Finds(v)'
                            /\ call'[u].name = call'[v].name => u = v
    BY DEF NamesInv
  <2>1. causes = {} /\ \A u \in Task : Finds(u) => call[u].name # x
    BY <1>2 DEF Finds
  <2>2. \A f \in FatNodes : name[f] # x
    <3>1. ASSUME NEW f \in FatNodes, name[f] = x
          PROVE  FALSE
      <4>1. PICK i \in DOMAIN child : child[i] = f
        BY <1>3, <2>1, <3>1, VfsAssumption DEF NamesInv
      <4>2. i \in Named(x)
        BY <3>1, <4>1 DEF Named
      <4> QED
        BY <1>2, <4>2
    <3> QED
      BY <3>1
  <2>3. \A u \in Task \ {t} : Finds(u)' => Finds(u) /\ call'[u].name = call[u].name
    BY <1>4 DEF Finds
  <2> QED
    BY <1>1, <1>2, <1>3, <1>4, <2>1, <2>2, <2>3 DEF NamesInv
<1> QED
  BY <1>2, <1>5, <1>6, SameShrinks, ShrinkStep

LEMMA FindReturnStep ==
    ASSUME WriterInv, NEW t \in Task, NEW n \in FatNodes \cup {Null}, FindReturn(t, n)
    PROVE  (Alone /\ HandlesNamed /\ NamesInv)'
<1>1. /\ CountsInv /\ TablesTyped /\ NodesTyped /\ CallsRight /\ NamesInv
      /\ Finds(t) /\ call[t].name \in Names /\ call[t].mode \in SUBSET {"r", "w"}
  BY FindReturnCases DEF WriterInv, CountsInv, CallsRight, Finds, TablesTyped, Calls
<1>2. /\ n \in Found(t)
      /\ name' = IF n = Null THEN name ELSE [name EXCEPT ![n] = call[t].name]
  BY FindReturnCases
<1>3. n # Null => n \in FatNodes /\ name[n] = Null
  BY <1>2 DEF Found, Unmade
<1>4. /\ NamesStay
      /\ n # Null => name'[n] = call[t].name /\ name'[n] # Null
      /\ \A f \in FatNodes : f # n => name'[f] = name[f]
  BY <1>1, <1>2, <1>3, VfsAssumption DEF NamesStay, NodesTyped
<1>5. CASE UNCHANGED <<child, handles, call, causes>> /\ name' = name
  <2>1. Quiet
    BY <1>5 DEF Quiet
  <2> QED
    BY <1>4, <1>5, <2>1, QuietStep, SameShrinks, ShrinkStep
<1>6. CASE /\ AddToChildren(n)
           /\ causes' = IF n = Null /\ child # <<>>
                        THEN causes \cup {"miss"} ELSE causes
           /\ IF call[t].pc = "open"
              THEN OpenFile(t, n, call[t].mode, Less(readers, "fat"))
              ELSE ExecFile(t, n, Less(readers, "fat"))
  <2> DEFINE count == Less(readers, "fat")
  <2>1. count \in [Node -> Int]
    BY <1>1, NodesAre DEF NodesTyped, Less
  <2>2. n \in Node \cup {Null} /\ n \notin Dirs
    BY NodeAssumption, NodesAre DEF Node
  <2> HIDE DEF count
  <2>3. OpenFile(t, n, call[t].mode, count) \/ ExecFile(t, n, count)
    BY <1>6 DEF count
  <2>4. /\ \A u \in Task \ {t} : call'[u] = call[u]
        /\ call'[t].pc \in {"user", "load"}
    <3>1. Settles(t, count)
      BY <1>1, <2>1, <2>2, <2>3, OpenFileSettles, ExecFileSettles
    <3> QED
      BY <3>1 DEF Settles
  <2>5. Alone' /\ HandlesNamed'
    <3>1. CASE handles' = handles
      BY <1>4, <3>1, SameShrinks, ShrinkStep
    <3>2. CASE handles' # handles
      <4>1. /\ n # Null /\ ~Busy(n, call[t].mode)
            /\ handles' = [handles EXCEPT
                  ![t] = TaskAddHandle(handles[t], [node |-> n, mode |-> call[t].mode])]
        BY <2>3, <3>2, OpenFileCases, ExecFileCases
      <4>2. Grows(t, n, call[t].mode)
        BY <1>4, <4>1 DEF Grows
      <4> QED
        BY <1>1, <1>4, <2>2, <4>1, <4>2, GrowStep
    <3> QED
      BY <3>1, <3>2
  <2>6. NamesInv'
    <3> SUFFICES ASSUME causes' = {}
                 PROVE  /\ \A f \in FatNodes : name'[f] # Null => \E i \in DOMAIN child' : child'[i] = f
                        /\ \A f, g \in FatNodes : name'[f] # Null /\ name'[f] = name'[g] => f = g
                        /\ \A u \in Task : Finds(u)' => \A f \in FatNodes : name'[f] # call'[u].name
                        /\ \A u, v \in Task : Finds(u)' /\ Finds(v)'
                              /\ call'[u].name = call'[v].name => u = v
      BY DEF NamesInv
    <3>1. causes = {} /\ (n = Null => child = <<>>)
      BY <1>6
    <3>2. \A f \in FatNodes : name'[f] # Null => \E i \in DOMAIN child' : child'[i] = f
      <4>1. CASE n = Null
        <5>1. child' = child /\ name' = name
          BY <1>2, <1>6, <3>1, <4>1 DEF AddToChildren
        <5> QED
          BY <1>1, <3>1, <5>1 DEF NamesInv
      <4>2. CASE n # Null
        <5>1. child' = <<n>> \o child /\ child \in Seq(FatNodes)
          BY <1>1, <1>6, <4>2 DEF AddToChildren, NodesTyped
        <5>2. /\ 1 \in DOMAIN child' /\ child'[1] = n
              /\ \A i \in DOMAIN child : i + 1 \in DOMAIN child' /\ child'[i + 1] = child[i]
          BY <1>3, <4>2, <5>1
        <5>3. \A f \in FatNodes : f # n /\ name'[f] # Null => \E i \in DOMAIN child : child[i] = f
          BY <1>1, <1>4, <3>1 DEF NamesInv
        <5> QED
          BY <5>2, <5>3
      <4> QED
        BY <4>1, <4>2
    <3>3. \A f, g \in FatNodes : name'[f] # Null /\ name'[f] = name'[g] => f = g
      BY <1>1, <1>3, <1>4, <3>1 DEF NamesInv
    <3>4. \A u \in Task : Finds(u)' => u # t /\ Finds(u) /\ call'[u].name = call[u].name
      BY <2>4 DEF Finds
    <3>5. \A u \in Task : Finds(u)' => \A f \in FatNodes : name'[f] # call'[u].name
      <4> SUFFICES ASSUME NEW u \in Task, Finds(u)', NEW f \in FatNodes
                   PROVE  name'[f] # call'[u].name
        OBVIOUS
      <4>1. u # t /\ Finds(u) /\ call'[u].name = call[u].name
        BY <3>4
      <4>2. name[f] # call[u].name /\ call[t].name # call[u].name
        BY <1>1, <3>1, <4>1 DEF NamesInv
      <4>3. CASE f = n
        <5>1. n # Null
          BY <4>3, NodesAre, NodeAssumption DEF Node
        <5>2. name'[n] = call[t].name
          BY <1>4, <5>1
        <5> QED
          BY <4>1, <4>2, <4>3, <5>2
      <4>4. CASE f # n
        BY <1>4, <4>1, <4>2, <4>4
      <4> QED
        BY <4>3, <4>4
    <3> QED
      BY <1>1, <3>1, <3>2, <3>3, <3>4, <3>5 DEF NamesInv
  <2> QED
    BY <2>5, <2>6
<1> QED
  BY <1>5, <1>6, FindReturnCases

LEMMA StepWriter == WriterInv /\ [Next]_vars => WriterInv'
<1> SUFFICES ASSUME WriterInv, [Next]_vars PROVE WriterInv'
  OBVIOUS
<1> DEFINE Goal == (Alone /\ HandlesNamed /\ NamesInv)'
<1>1. CountsInv' /\ TablesTyped
  BY StepCounts DEF WriterInv, CountsInv
<1>2. Quiet /\ Shrinks => Goal
  BY QuietStep, ShrinkStep
<1>3. CASE UNCHANGED vars
  <2>1. Quiet /\ Shrinks
    BY <1>3, SameShrinks DEF vars, nodes, history, Quiet
  <2> QED
    BY <1>1, <1>2, <2>1 DEF WriterInv
<1>4. ASSUME NEW t \in Task, TaskStep(t)
      PROVE  Goal
  <2>0. InUser \in Calls /\ InUser.pc = "user"
    BY InUserType DEF InUser
  <2>1. CASE \E n \in Node, mode \in Modes : SysPath(t, "open", n, mode)
    BY <2>1, PathStep, VfsAssumption
  <2>2. CASE \E n \in Node : SysPath(t, "exec", n, {"r"})
    <3>1. {"r"} \in SUBSET {"r", "w"}
      OBVIOUS
    <3> QED
      BY <2>2, <3>1, PathStep
  <2>3. CASE \E x \in Names, mode \in Modes : BeginFind(t, "open", x, mode)
    BY <2>3, BeginFindStep, VfsAssumption
  <2>4. CASE \E x \in Names : BeginFind(t, "exec", x, {"r"})
    <3>1. {"r"} \in SUBSET {"r", "w"}
      OBVIOUS
    <3> QED
      BY <2>4, <3>1, BeginFindStep
  <2>5. CASE \E n \in FatNodes \cup {Null} : FindReturn(t, n)
    BY <2>5, FindReturnStep
  <2>6. CASE LoadEnd(t) \/ ReadEnd(t) \/ Redirect(t) \/ TreeEnd(t)
    <3>1. /\ call' = [call EXCEPT ![t] = InUser] /\ handles' = handles
          /\ UNCHANGED <<name, child, causes>>
      BY <2>6 DEF LoadEnd, ReadEnd, Redirect, TreeEnd, Return, nodes, history
    <3> QED
      BY <1>2, <2>0, <3>1, QuietCall, SameShrinks
  <2>7. CASE \E i \in DOMAIN handles[t] : SysRead(t, i)
    <3>1. PICK i \in DOMAIN handles[t] : SysRead(t, i)
      BY <2>7
    <3> DEFINE f == handles[t][i].node
               c == [InUser EXCEPT !.pc = "read", !.node = f]
    <3>2. f \in Node
      BY <3>1 DEF SysRead, Node
    <3>3. c \in Calls /\ c.pc = "read"
      <4> HIDE DEF f
      <4> QED
        BY <3>2, InUserType DEF Calls, InUser
    <3>4. /\ call' = [call EXCEPT ![t] = c] /\ handles' = handles
          /\ UNCHANGED <<name, child, causes>>
      BY <3>1 DEF SysRead, nodes
    <3> HIDE DEF c
    <3> QED
      BY <1>2, <3>3, <3>4, QuietCall, SameShrinks
  <2>8. CASE (\E i \in DOMAIN handles[t] : SysClose(t, i)) \/ TaskExit(t)
    <3>1. call' = call /\ UNCHANGED <<name, child, causes>>
      BY <2>8 DEF SysClose, TaskExit, history
    <3>2. Shrinks
      <4>1. CASE \E i \in DOMAIN handles[t] : SysClose(t, i)
        <5>1. PICK i \in DOMAIN handles[t] : handles' = [handles EXCEPT ![t][i] = Null]
          BY <4>1 DEF SysClose
        <5>2. handles'[t] = [handles[t] EXCEPT ![i] = Null]
          BY <1>1, <5>1 DEF TablesTyped
        <5>3. \A u \in Task \ {t} : handles'[u] = handles[u]
          BY <1>1, <5>1 DEF TablesTyped
        <5> QED
          BY <1>1, <5>2, <5>3 DEF Shrinks, TablesTyped
      <4>2. CASE TaskExit(t)
        BY <1>1, <4>2 DEF TaskExit, Shrinks, TablesTyped
      <4> QED
        BY <2>8, <4>1, <4>2
    <3>3. Quiet
      BY <2>0, <3>1, QuietCall
    <3> QED
      BY <1>2, <3>2, <3>3
  <2>9. CASE SysMount(t) \/ BeginTree(t)
    <3> DEFINE At(pc) == [InUser EXCEPT !.pc = pc]
    <3>1. /\ At("mount") \in Calls /\ At("mount").pc = "mount"
          /\ At("tree") \in Calls /\ At("tree").pc = "tree"
      BY InUserType DEF Calls, InUser
    <3>2. /\ call' = [call EXCEPT ![t] = At("mount")] \/ call' = [call EXCEPT ![t] = At("tree")]
          /\ handles' = handles
          /\ UNCHANGED <<name, child, causes>>
      BY <2>9 DEF SysMount, BeginTree, history
    <3> HIDE DEF At
    <3> QED
      BY <1>2, <3>1, <3>2, QuietCall, SameShrinks
  <2>10. CASE (\E c \in Task : SysFork(t, c)) \/ Tree(t)
    <3>1. call' = call /\ handles' = handles /\ UNCHANGED <<name, child, causes>>
      BY <2>10 DEF SysFork, Tree, nodes, history
    <3> QED
      BY <1>2, <2>0, <3>1, QuietCall, SameShrinks
  <2>11. CASE \E i, at \in DOMAIN Files, n \in FatNodes : TreeEntry(t, i, at, n)
    <3>1. PICK i \in DOMAIN Files, n \in FatNodes :
             /\ n \in Unmade /\ name' = [name EXCEPT ![n] = Files[i]]
             /\ "tree" \in causes' /\ handles' = handles
      BY <2>11 DEF TreeEntry
    <3>2. NamesStay
      <4>1. name \in [FatNodes -> Names \cup {Null}]
        BY DEF WriterInv, CountsInv, NodesTyped
      <4> QED
        BY <3>1, <4>1 DEF Unmade, NamesStay
    <3>3. NamesInv'
      BY <3>1 DEF NamesInv
    <3> QED
      BY <3>1, <3>2, <3>3, SameShrinks, ShrinkStep
  <2> HIDE DEF Goal
  <2> QED
    BY <1>4, <2>1, <2>2, <2>3, <2>4, <2>5, <2>6, <2>7, <2>8, <2>9, <2>10, <2>11
       DEF TaskStep
<1>5. Goal => WriterInv'
  BY <1>1 DEF WriterInv
<1> HIDE DEF Goal
<1> QED
  BY <1>3, <1>4, <1>5 DEF Next

(* file_open: a file that is open for writing has no other handle, in any   *)
(* task, also when two lookups of it overlap in their sleeps; by name, too, *)
(* until a race of lookups, tree() or a missing name gave it two nodes.     *)
THEOREM WritersAlone == Spec => []WriterAlone
<1>1. Init => WriterInv
  <2>1. ASSUME Init
        PROVE  Alone /\ HandlesNamed /\ NamesInv
    BY <2>1 DEF Init, Alone, HandlesNamed, NamesInv, Finds, InUser
  <2> QED
    BY <2>1, InitCounts DEF WriterInv
<1>2. ASSUME WriterInv
      PROVE  WriterAlone
  <2>1. Alone /\ HandlesNamed /\ NamesInv /\ TablesTyped /\ NodesTyped
    BY <1>2 DEF WriterInv, CountsInv
  <2>2. ASSUME NEW t \in Task, NEW u \in Task,
               NEW i \in DOMAIN handles[t], NEW j \in DOMAIN handles[u],
               <<t, i>> # <<u, j>>, handles[t][i] # Null, handles[u][j] # Null,
               "w" \in handles[t][i].mode, handles[u][j].mode # {},
               SameFile(handles[t][i].node, handles[u][j].node)
        PROVE  FALSE
    <3> DEFINE m == handles[t][i].node
               n == handles[u][j].node
    <3>1. m \in Node /\ n \in Node
      BY <2>1, <2>2 DEF TablesTyped, Slot, Handle
    <3>2. m # n
      BY <2>1, <2>2 DEF Alone
    <3>3. causes = {} /\ File(m) = File(n)
      BY <2>2, <3>2 DEF SameFile
    <3>4. /\ m \in FatNodes => name[m] \in Names
          /\ n \in FatNodes => name[n] \in Names
      BY <2>1, <2>2 DEF HandlesNamed, NodesTyped
    <3> HIDE DEF m, n
    <3>5. CASE m \in FatNodes /\ n \in FatNodes
      <4>1. name[m] = name[n] /\ name[m] # Null
        BY <3>3, <3>4, <3>5, VfsAssumption DEF File
      <4> QED
        BY <2>1, <3>2, <3>3, <3>5, <4>1 DEF NamesInv
    <3>6. CASE m \notin FatNodes \/ n \notin FatNodes
      BY <3>1, <3>2, <3>3, <3>4, <3>6, NodeAssumption DEF File
    <3> QED
      BY <3>5, <3>6
  <2> QED
    BY <2>2 DEF WriterAlone
<1> QED
  BY <1>1, <1>2, StepWriter, PTL DEF Spec
=============================================================================
